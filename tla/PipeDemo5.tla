------------------------------ MODULE PipeDemo5 ------------------------------
(***************************************************************************)
(* src/archive/examples/ipc/PipeDemo5/pipedemo5.asm: the child writes one  *)
(* sentence into the pipe and exits; the parent reads it, prints it, waits *)
(* for the child and exits.  Both print what they do.  Nobody closes an    *)
(* end of the pipe before it exits.                                        *)
(***************************************************************************)
EXTENDS Naturals, Sequences, SequencesExt

CONSTANTS
    Message,        \* the bytes at "data"
    Capacity,       \* bytes a pipe holds
    PipeMayFail,    \* whether the kernel may refuse the pipe
    ForkMayFail,    \* whether it may refuse the fork
    Killable        \* the processes a signal may kill

Assumption ==
    /\ Message \in Seq(1..255) /\ Message # <<>>
    /\ Capacity \in Nat /\ Len(Message) <= Capacity
    /\ Len(Message) <= 1022    \* the buffer (.bss) holds it
    /\ PipeMayFail \in BOOLEAN /\ ForkMayFail \in BOOLEAN
    /\ Killable \subseteq {"parent", "child"}

Process == {"parent", "child"}
Pipes == {"p"}

VARIABLES
    data, readers, writers, life,    \* the kernel's state (UnixPipe)
    pc,         \* pc[q]: what process q does next
    buffer,     \* what the parent has read
    screen      \* what is on the screen: lines, and the buffer

kernel == <<data, readers, writers, life>>
vars == <<data, readers, writers, life, pc, buffer, screen>>

INSTANCE UnixPipe

Goto(q, label) == pc' = [pc EXCEPT ![q] = label]

At(q, label) == life[q] = "running" /\ pc[q] = label

Init ==
    /\ data = [p \in Pipes |-> <<>>]
    /\ readers = [p \in Pipes |-> {}]
    /\ writers = [p \in Pipes |-> {}]
    /\ life = [q \in Process |-> IF q = "parent" THEN "running" ELSE "unborn"]
    /\ pc = [q \in Process |-> IF q = "parent" THEN "pipe" ELSE "say_write"]
    /\ buffer = <<>> /\ screen = <<>>

Line(line) == [line |-> line]
Text(bytes) == [text |-> bytes]

\* write(2) to the terminal.
Say(q, here, what, next) ==
    /\ At(q, here)
    /\ screen' = Append(screen, what)
    /\ Goto(q, next)
    /\ UNCHANGED <<kernel, buffer>>

-----------------------------------------------------------------------------
CreatePipe ==
    /\ At("parent", "pipe")
    /\ Open("parent", "p")
    /\ Goto("parent", "fork")
    /\ UNCHANGED <<data, life, buffer, screen>>

\* The error is reported on stderr, and the program, alone yet, exits with 1.
Fail(line) ==
    /\ screen' = Append(screen, Line(line))
    /\ Die("parent", "parent")
    /\ Goto("parent", "failed")
    /\ UNCHANGED <<data, buffer>>

CreatePipeFails == PipeMayFail /\ At("parent", "pipe") /\ Fail("pipe error")

ForkChild ==
    /\ At("parent", "fork")
    /\ Fork("parent", "child")
    /\ Goto("parent", "say_reading")
    /\ UNCHANGED <<data, buffer, screen>>

ForkFails == ForkMayFail /\ At("parent", "fork") /\ Fail("fork error")

ParentSayReading == Say("parent", "say_reading", Line("Parent - reading from pipe..."), "read")

\* The parent holds a write end itself: there is no end of file for it.
ParentRead ==
    /\ At("parent", "read")
    /\ CanRead("p") /\ TakeUpTo("p", 1024)
    /\ buffer' = Got("p", 1024)
    /\ Goto("parent", "say_reads")
    /\ UNCHANGED <<readers, writers, life, screen>>

ParentSayReads == Say("parent", "say_reads", Line("Parent - reads: "), "print")

ParentPrint == Say("parent", "print", Text(buffer), "say_waiting")

ParentSayWaiting == Say("parent", "say_waiting", Line("waiting for child"), "wait")

\* Mutant: the wait is missing.
ParentDoesNotWait ==
    /\ At("parent", "wait")
    /\ Goto("parent", "say_done")
    /\ UNCHANGED <<kernel, buffer, screen>>

\* "jns" reads flags syscall does not set, and is always taken.
ParentWait ==
    /\ At("parent", "wait")
    /\ Reap("child")
    /\ Goto("parent", "say_done")
    /\ UNCHANGED <<data, readers, writers, buffer, screen>>

ParentSayDone == Say("parent", "say_done", Line("done."), "exit")

\* rdi still is stdout: the exit status is 1, that of a failure.
ParentExit ==
    /\ At("parent", "exit")
    /\ Die("parent", "parent")
    /\ UNCHANGED <<data, pc, buffer, screen>>

Parent ==
    \/ CreatePipe \/ CreatePipeFails \/ ForkChild \/ ForkFails
    \/ ParentSayReading \/ ParentRead \/ ParentSayReads \/ ParentPrint
    \/ ParentSayWaiting \/ ParentWait \/ ParentSayDone \/ ParentExit

-----------------------------------------------------------------------------
ChildSayWrite == Say("child", "say_write", Line("Child - writing to pipe"), "write")

ChildWrite ==
    /\ At("child", "write")
    /\ HasRoom("p", Message) /\ PutAll("p", Message)
    /\ Goto("child", "say_exit")
    /\ UNCHANGED <<readers, writers, life, buffer, screen>>

ChildSayExit == Say("child", "say_exit", Line("Child - exiting"), "exit")

ChildExit ==
    /\ At("child", "exit")
    /\ Die("child", "parent")
    /\ UNCHANGED <<data, pc, buffer, screen>>

Child == ChildSayWrite \/ ChildWrite \/ ChildSayExit \/ ChildExit

Kill(q) ==
    /\ q \in Killable /\ life[q] = "running"
    /\ Die(q, "parent")
    /\ Goto(q, "killed")
    /\ UNCHANGED <<data, buffer, screen>>

Over == \A q \in Process : life[q] \in {"unborn", "gone"}

Terminating == Over /\ UNCHANGED vars

Next == Parent \/ Child \/ (\E q \in Killable : Kill(q)) \/ Terminating

\* The kernel runs every process that can run sooner or later.
Fairness == WF_vars(Parent) /\ WF_vars(Child)

Spec == Init /\ [][Next]_vars /\ Fairness

-----------------------------------------------------------------------------
Lines ==
    {"pipe error", "fork error", "Parent - reading from pipe...", "Parent - reads: ",
     "waiting for child", "done.",
     "Child - writing to pipe", "Child - exiting"}
ParentLabels ==
    {"pipe", "fork", "say_reading", "read", "say_reads", "print", "say_waiting",
      "wait", "say_done", "exit", "failed", "killed"}
ChildLabels == {"say_write", "write", "say_exit", "exit", "killed"}

TypeOK ==
    /\ data \in [Pipes -> {<<>>, Message}]
    /\ readers \in [Pipes -> SUBSET Process] /\ writers \in [Pipes -> SUBSET Process]
    /\ life \in [Process -> Life]
    /\ pc \in [Process -> ParentLabels \cup ChildLabels]
    /\ pc["parent"] \in ParentLabels
    /\ pc["child"] \in ChildLabels
    /\ buffer \in {<<>>, Message}
    /\ screen \in Seq([line : Lines] \cup [text : {<<>>, Message}])

Said(what) == \E i \in DOMAIN screen : screen[i] = what

\* Nothing follows "done." on the screen; the whole sentence precedes it, and
\* unless the child was killed both of its lines do.
DoneIsLast ==
    \A i \in DOMAIN screen : screen[i] = Line("done.") =>
        /\ i = Len(screen)
        /\ Said(Text(Message))
        /\ pc["child"] # "killed" =>
             Said(Line("Child - writing to pipe")) /\ Said(Line("Child - exiting"))

\* The child was killed before it had written: the parent waits for its own end
\* of the pipe.
Starves == pc["child"] = "killed" /\ At("parent", "read") /\ data["p"] = <<>>

Abstract == INSTANCE Stream
    WITH shown <- IF Said(Text(Message)) THEN Message ELSE <<>>,
         over <- Over /\ Said(Line("done."))

\* Whatever fails, the two processes take the steps of a Stream of one piece,
\* which is over when "done." is said and both have ended.
StreamInit == Abstract!Init
StreamStep == [Abstract!Next]_(Abstract!vars)

-----------------------------------------------------------------------------
HasRead == {"say_reads", "print", "say_waiting", "wait", "say_done", "exit"}

\* How far the two processes are; the parent says "done." to a child that is gone.
Progress ==
    /\ \A q \in Process : pc[q] \in {"failed", "killed"} => life[q] # "running"
    /\ life["parent"] = "running" \/ pc["parent"] \in {"exit", "failed", "killed"}
    /\ life["child"] \in {"unborn", "running"} \/ pc["child"] \in {"exit", "killed"}
    /\ pc["parent"] \in {"pipe", "fork", "failed"} => life["child"] = "unborn"
    /\ life["child"] = "unborn" => pc["child"] = "say_write" /\ pc["parent"] \notin HasRead
    /\ pc["parent"] \in {"say_done", "exit"} => life["child"] = "gone"

\* Where the sentence is: with the child, in the pipe, in the buffer.
Flow ==
    /\ pc["child"] \in {"say_write", "write"} =>
         data["p"] = <<>> /\ pc["parent"] \notin HasRead
    /\ pc["parent"] \in HasRead => data["p"] = <<>> /\ buffer = Message

\* What is on the screen by then.
Output ==
    /\ pc["parent"] \in HasRead \ {"say_reads", "print"} => Said(Text(Message))
    /\ pc["child"] \in {"write", "say_exit", "exit"} => Said(Line("Child - writing to pipe"))
    /\ pc["child"] = "exit" => Said(Line("Child - exiting"))
    /\ Said(Line("done.")) => life["child"] = "gone" /\ pc["parent"] \in {"exit", "killed"}
    /\ DoneIsLast

\* The inductive invariant.
Inv == TypeOK /\ Progress /\ Flow /\ Output
=============================================================================
