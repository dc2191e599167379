------------------------------ MODULE PipeDemo6 ------------------------------
(***************************************************************************)
(* src/archive/examples/ipc/PipeDemo6/pipedemo6.asm: a child sends a       *)
(* message to its parent, one byte per system call, through pipe p0; the   *)
(* parent prints each byte, and when p0 is exhausted tells the child       *)
(* through pipe p1 that it may end, waits for it and ends too.             *)
(*                                                                         *)
(* A process's pc names its next system call, and each action is one       *)
(* system call with the register code around it.  The faults are what the  *)
(* kernel may answer: a failed pipe or fork call, and a process killed by  *)
(* a signal.                                                               *)
(***************************************************************************)
EXTENDS Naturals, Sequences, SequencesExt

CONSTANTS
    Message,        \* the NUL-terminated string at "message", without its NUL
    Capacity,       \* bytes a pipe holds
    PipeMayFail,    \* the pipes whose creation the kernel may refuse
    ForkMayFail,    \* whether it may refuse the fork
    Killable,       \* the processes a signal may kill
    MaxScreen       \* bound: the printed bytes the model keeps (the first ones)

ASSUME MessageAssumption == Message \in Seq(1..255)
ASSUME CapacityAssumption == Capacity \in Nat \ {0}
ASSUME FaultAssumption ==
    /\ PipeMayFail \subseteq {"p0", "p1"}
    /\ ForkMayFail \in BOOLEAN
    /\ Killable \subseteq {"parent", "child"}
ASSUME ScreenAssumption == MaxScreen \in Nat /\ MaxScreen >= Len(Message)

Process == {"parent", "child"}
Pipes == {"p0", "p1"}

VARIABLES
    data, readers, writers, life,    \* the kernel's state (UnixPipe)
    pc,         \* pc[q]: the system call process q makes next
    opened,     \* the pipes whose descriptors are in p0 and p1; the words of
                \* the others are the zeroes of .bss
    sent,       \* the child's rsi: bytes of the message it has written
    buffer,     \* the parent's one-byte buffer
    screen,     \* what the parent has written to stdout from the pipe
    slain       \* the processes a signal has ended

kernel == <<data, readers, writers, life>>
vars == <<data, readers, writers, life, pc, opened, sent, buffer, screen, slain>>

INSTANCE UnixPipe

Goto(q, label) == pc' = [pc EXCEPT ![q] = label]

At(q, label) == life[q] = "running" /\ pc[q] = label

-----------------------------------------------------------------------------
(* Before the fork there is one process, which becomes the parent.         *)

Init ==
    /\ data = [p \in Pipes |-> <<>>]
    /\ readers = [p \in Pipes |-> {}]
    /\ writers = [p \in Pipes |-> {}]
    /\ life = [q \in Process |-> IF q = "parent" THEN "running" ELSE "unborn"]
    /\ pc = [q \in Process |-> IF q = "parent" THEN "pipe0" ELSE "close_r0"]
    /\ opened = {}
    /\ sent = 0
    /\ buffer = 0
    /\ screen = <<>>
    /\ slain = {}

\* "js errorpipe" reads flags that syscall does not set: at the start of the
\* program SF is clear and stays so, and the branch is never taken.
CreatePipe(p, label, next) ==
    /\ At("parent", label)
    /\ Goto("parent", next)
    /\ \/ Open("parent", p) /\ opened' = opened \union {p}
       \/ p \in PipeMayFail /\ UNCHANGED <<readers, writers, opened>>
    /\ UNCHANGED <<data, life, sent, buffer, screen, slain>>

CreatePipe0 == CreatePipe("p0", "pipe0", "pipe1")
CreatePipe1 == CreatePipe("p1", "pipe1", "fork")

ForkChild ==
    /\ At("parent", "fork")
    /\ Fork("parent", "child")
    /\ Goto("parent", "close_w0")
    /\ UNCHANGED <<data, opened, sent, buffer, screen, slain>>

\* errorfork: the message on stdout and exit(0).
ForkFails ==
    /\ ForkMayFail
    /\ At("parent", "fork")
    /\ Die("parent", "parent")
    /\ Goto("parent", "failed")
    /\ UNCHANGED <<data, opened, sent, buffer, screen, slain>>

-----------------------------------------------------------------------------
(* close(2) on a pair that was never filled in closes stdin instead, which *)
(* no later step needs: every process closes one half of each pair before  *)
(* it uses the other, so that its use of the other half answers EBADF.     *)

CloseEnd(q, p, d, label, next) ==
    /\ At(q, label)
    /\ IF d = "read" THEN CloseRead(q, p) ELSE CloseWrite(q, p)
    /\ Goto(q, next)
    /\ UNCHANGED <<data, life, opened, sent, buffer, screen, slain>>

\* SIGPIPE, whose default action ends the writer.
Slay(q) ==
    /\ Die(q, "parent")
    /\ slain' = slain \union {q}
    /\ UNCHANGED <<data, pc, opened, sent, buffer, screen>>

ChildCloseRead0  == CloseEnd("child", "p0", "read", "close_r0", "close_w1")
\* Mutant: the child keeps its write end of p1.
ChildKeepsWrite1 ==
    /\ At("child", "close_w1")
    /\ Goto("child", "write")
    /\ UNCHANGED <<kernel, opened, sent, buffer, screen, slain>>
ChildCloseWrite1 == CloseEnd("child", "p1", "write", "close_w1", "write")

\* Mutant: the test for the NUL is missing.
ChildWriteOverrun ==
    /\ At("child", "write")
    /\ CanWrite("p0")
    /\ Put("p0", IF sent < Len(Message) THEN Message[sent + 1] ELSE 0)
    /\ sent' = sent + 1
    /\ UNCHANGED <<readers, writers, life, pc, opened, buffer, screen, slain>>

\* Mutant: the "inc rsi" left as a comment in the loop is executed.
ChildWriteSkips ==
    /\ At("child", "write")
    /\ sent < Len(Message)
    /\ CanWrite("p0") /\ Put("p0", Message[sent + 1])
    /\ sent' = sent + 2
    /\ UNCHANGED <<readers, writers, life, pc, opened, buffer, screen, slain>>

\* .repeat: the next byte of the message, unless it is the NUL.
ChildWrite ==
    /\ At("child", "write")
    /\ sent < Len(Message)
    /\ \/ "p0" \in opened /\ CanWrite("p0") /\ Put("p0", Message[sent + 1])
       \/ "p0" \notin opened /\ UNCHANGED data
    /\ sent' = sent + 1
    /\ UNCHANGED <<readers, writers, life, pc, opened, buffer, screen, slain>>

ChildBrokenPipe ==
    /\ At("child", "write")
    /\ sent < Len(Message)
    /\ "p0" \in opened /\ Broken("p0")
    /\ Slay("child")

\* .done
ChildCloseWrite0 ==
    /\ sent = Len(Message)
    /\ CloseEnd("child", "p0", "write", "write", "read")

\* Mutant: the child does not wait for the parent's byte.
ChildDoesNotAwait ==
    /\ At("child", "read")
    /\ Goto("child", "exit")
    /\ UNCHANGED <<kernel, opened, sent, buffer, screen, slain>>

\* The read from p1 returns with the parent's byte, with 0 at end of file or
\* with EBADF; the program does not look which, and exits.
ChildAwait ==
    /\ At("child", "read")
    /\ \/ "p1" \in opened /\ CanRead("p1") /\ Take("p1")
       \/ "p1" \in opened /\ AtEOF("p1") /\ UNCHANGED data
       \/ "p1" \notin opened /\ UNCHANGED data
    /\ Goto("child", "exit")
    /\ UNCHANGED <<readers, writers, life, opened, sent, buffer, screen, slain>>

Exit(q) ==
    /\ At(q, "exit")
    /\ Die(q, "parent")
    /\ Goto(q, "done")
    /\ UNCHANGED <<data, opened, sent, buffer, screen, slain>>

ChildExit == Exit("child")

-----------------------------------------------------------------------------
ParentCloseWrite0 == CloseEnd("parent", "p0", "write", "close_w0", "close_r1")
ParentCloseRead1  == CloseEnd("parent", "p1", "read", "close_r1", "read")

\* Mutant: an empty pipe is taken for its end.
ParentReadHasty ==
    /\ At("parent", "read")
    /\ IF CanRead("p0")
       THEN /\ buffer' = Head(data["p0"])
            /\ Take("p0")
            /\ Goto("parent", "print")
       ELSE Goto("parent", "all_received") /\ UNCHANGED <<data, buffer>>
    /\ UNCHANGED <<readers, writers, life, opened, sent, screen, slain>>

\* .repeat: a byte is printed next; 0 leaves the loop.  An error is not 0, and
\* prints the buffer as it was.
ParentRead ==
    /\ At("parent", "read")
    /\ \/ /\ "p0" \in opened /\ CanRead("p0")
          /\ buffer' = Head(data["p0"])
          /\ Take("p0")
          /\ Goto("parent", "print")
       \/ /\ "p0" \in opened /\ AtEOF("p0")
          /\ Goto("parent", "all_received")
          /\ UNCHANGED <<data, buffer>>
       \/ /\ "p0" \notin opened
          /\ Goto("parent", "print")
          /\ UNCHANGED <<data, buffer>>
    /\ UNCHANGED <<readers, writers, life, opened, sent, screen, slain>>

ParentPrint ==
    /\ At("parent", "print")
    /\ screen' = IF Len(screen) < MaxScreen THEN Append(screen, buffer)
                                            ELSE screen
    /\ Goto("parent", "read")
    /\ UNCHANGED <<data, readers, writers, life, opened, sent, buffer, slain>>

\* allReceived: "--- end of data ---" on stdout.
ParentAnnounce ==
    /\ At("parent", "all_received")
    /\ Goto("parent", "close_r0")
    /\ UNCHANGED <<data, readers, writers, life, opened, sent, buffer, screen, slain>>

ParentCloseRead0 == CloseEnd("parent", "p0", "read", "close_r0", "signal")

ParentSignal ==
    /\ At("parent", "signal")
    /\ \/ "p1" \in opened /\ CanWrite("p1") /\ Put("p1", buffer)
       \/ "p1" \notin opened /\ UNCHANGED data
    /\ Goto("parent", "wait")
    /\ UNCHANGED <<readers, writers, life, opened, sent, buffer, screen, slain>>

ParentBrokenPipe ==
    /\ At("parent", "signal")
    /\ "p1" \in opened /\ Broken("p1")
    /\ Slay("parent")

\* Mutant: the parent does not wait for its child.
ParentDoesNotWait ==
    /\ At("parent", "wait")
    /\ Goto("parent", "exit")
    /\ UNCHANGED <<kernel, opened, sent, buffer, screen, slain>>

ParentWait ==
    /\ At("parent", "wait")
    /\ Reap("child")
    /\ Goto("parent", "exit")
    /\ UNCHANGED <<data, readers, writers, opened, sent, buffer, screen, slain>>

ParentExit == Exit("parent")

-----------------------------------------------------------------------------
Kill(q) ==
    /\ q \in Killable
    /\ life[q] = "running"
    /\ Slay(q)

Over == \A q \in Process : life[q] # "running"

Terminating == Over /\ UNCHANGED vars

ParentStep ==
    \/ CreatePipe0 \/ CreatePipe1 \/ ForkChild \/ ForkFails
    \/ ParentCloseWrite0 \/ ParentCloseRead1 \/ ParentRead \/ ParentPrint
    \/ ParentAnnounce \/ ParentCloseRead0 \/ ParentSignal \/ ParentBrokenPipe
    \/ ParentWait \/ ParentExit

ChildStep ==
    \/ ChildCloseRead0 \/ ChildCloseWrite1 \/ ChildWrite \/ ChildBrokenPipe
    \/ ChildCloseWrite0 \/ ChildAwait \/ ChildExit

Next == ParentStep \/ ChildStep \/ (\E q \in Killable : Kill(q)) \/ Terminating

\* The kernel runs a process that can run sooner or later; it owes nobody a
\* signal.
Fairness == WF_vars(ParentStep) /\ WF_vars(ChildStep)

Spec == Init /\ [][Next]_vars /\ Fairness

-----------------------------------------------------------------------------
ParentLabels ==
    {"pipe0", "pipe1", "fork", "close_w0", "close_r1", "read", "print",
     "all_received", "close_r0", "signal", "wait", "exit", "done", "failed"}
ChildLabels ==
    {"close_r0", "close_w1", "write", "read", "exit", "done"}

\* Types of the variables.
TypeOK ==
    /\ data \in [Pipes -> Seq(0..255)]
    /\ \A p \in Pipes : Len(data[p]) <= Capacity
    /\ readers \in [Pipes -> SUBSET Process]
    /\ writers \in [Pipes -> SUBSET Process]
    /\ life \in [Process -> Life]
    /\ pc \in [Process -> ParentLabels \union ChildLabels]
    /\ pc["parent"] \in ParentLabels /\ pc["child"] \in ChildLabels
    /\ opened \subseteq Pipes
    /\ sent \in 0..Len(Message)
    /\ buffer \in 0..255
    /\ screen \in Seq(0..255)
    /\ slain \subseteq Process

\* The parent has seen the end of p0 (it is at or past allReceived).
SawEnd == pc["parent"] \in {"all_received", "close_r0", "signal", "wait",
                            "exit", "done"}

\* The bytes on the screen are the message's, in its order, with nothing lost
\* or repeated between the child's writes and the parent's prints, whoever is
\* killed and when; and "end of data" is said on a part of the message only if
\* the child was killed while it wrote.
Delivery ==
    "p0" \in opened =>
        /\ IsPrefix(screen, Message)
        /\ SawEnd => screen = Message \/ "child" \in slain

\* "To avoid the child to end his job before the parent has ended his": a
\* child that ends by itself does so after the parent has closed p0 and sent
\* its byte, unless p1 could not be created or the parent was killed.
ChildEndsLast ==
    pc["child"] \in {"exit", "done"} /\ "p1" \in opened =>
        pc["parent"] \in {"wait", "exit", "done"} \/ "parent" \in slain

\* A parent that ends by itself after a fork has reaped its child, and nobody
\* is ended by a broken pipe unless a signal from outside ended its peer.
NoLeftovers ==
    /\ pc["parent"] = "done" => life["child"] = "gone"
    /\ slain # {} => slain \intersect Killable # {}

\* Nobody hangs: once p0 exists both processes end, whether p1, the fork or one
\* of the processes fails.  It is the closing of the unused ends, and the byte
\* on p1 ("don't forget this or your program waits into enternity"), that make
\* it so.
Termination == "p0" \in opened ~> Over

\* "on error inform user and exit program" (pipedemo6.asm:62, :65): no child is
\* forked when a pipe could not be created.
PipeErrorsExit ==
    life["child"] # "unborn" => opened = Pipes

\* What the program promises when nothing fails, as Transfer states it.
Abstract == INSTANCE Transfer WITH
    shown <- screen,
    told <- SawEnd,
    senderOver <- life["child"] \in {"zombie", "gone"},
    receiverOver <- pc["parent"] = "done"

ImplementsTransfer == Abstract!Spec
=============================================================================
