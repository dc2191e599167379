------------------------------ MODULE PipeDemo2 ------------------------------
(***************************************************************************)
(* src/archive/examples/ipc/PipeDemo2/pipedemo2.asm: one process writes    *)
(* three numbered messages of equal length into a pipe, the other reads    *)
(* once, asking for all three, and prints its buffer.                      *)
(*                                                                         *)
(* "jz parent" sends the new process to the code that reads; the started   *)
(* process writes and exits without waiting.  A message is one unit here   *)
(* (each is written by one call of less than PIPE_BUF bytes), the zero     *)
(* bytes the buffer starts with are the unit 0.                            *)
(***************************************************************************)
EXTENDS Naturals, Sequences, SequencesExt

CONSTANTS
    Messages,       \* how many messages are written (three)
    Capacity,       \* messages a pipe holds
    PipeMayFail,    \* whether the kernel may refuse the pipe
    ForkMayFail,    \* whether it may refuse the fork
    Killable        \* the processes a signal may kill

Assumption ==
    /\ Messages \in Nat \ {0} /\ Capacity \in Nat \ {0}
    /\ PipeMayFail \in BOOLEAN /\ ForkMayFail \in BOOLEAN
    /\ Killable \subseteq {"reader", "writer"}

\* The process that was started becomes the writer.
Process == {"reader", "writer"}
Pipes == {"p"}

VARIABLES
    data, readers, writers, life,    \* the kernel's state (UnixPipe)
    pc,         \* pc[q]: what process q does next
    opened,     \* whether p holds the descriptors of a pipe, or zeroes
    sent,       \* the messages written (the digit in childmsg)
    inbuf,      \* the reader's buffer
    printed     \* what the reader has printed of its buffer

kernel == <<data, readers, writers, life>>
program == <<opened, sent, inbuf, printed>>
vars == <<data, readers, writers, life, pc, opened, sent, inbuf, printed>>

INSTANCE UnixPipe

Goto(q, label) == pc' = [pc EXCEPT ![q] = label]

At(q, label) == life[q] = "running" /\ pc[q] = label

Init ==
    /\ data = [p \in Pipes |-> <<>>]
    /\ readers = [p \in Pipes |-> {}]
    /\ writers = [p \in Pipes |-> {}]
    /\ life = [q \in Process |-> IF q = "writer" THEN "running" ELSE "unborn"]
    /\ pc = [q \in Process |-> IF q = "writer" THEN "pipe" ELSE "close_w"]
    /\ opened = FALSE /\ sent = 0
    /\ inbuf = [i \in 1..Messages |-> 0] /\ printed = <<>>

-----------------------------------------------------------------------------
\* "jns fork" reads flags that syscall does not set: it is always taken.
CreatePipe ==
    /\ At("writer", "pipe")
    /\ Goto("writer", "fork")
    /\ \/ Open("writer", "p") /\ opened' = TRUE
       \/ PipeMayFail /\ UNCHANGED <<readers, writers, opened>>
    /\ UNCHANGED <<data, life, sent, inbuf, printed>>

\* After a failed fork the process goes on as the writer: between them jz and
\* jnz leave nobody to report the error.
ForkReader ==
    /\ At("writer", "fork")
    /\ Goto("writer", "close")
    /\ \/ Fork("writer", "reader")
       \/ ForkMayFail /\ UNCHANGED <<readers, writers, life>>
    /\ UNCHANGED <<data, program>>

-----------------------------------------------------------------------------
(* The label "child": the writer.                                          *)

\* Mutant: the read end is closed, as the comment says.
WriterCloseRead ==
    /\ At("writer", "close")
    /\ CloseRead("writer", "p")
    /\ Goto("writer", "write")
    /\ UNCHANGED <<data, life, program>>

\* rdi still is the address of p, which is no descriptor: nothing is closed.
WriterCloseNothing ==
    /\ At("writer", "close")
    /\ Goto("writer", "write")
    /\ UNCHANGED <<kernel, program>>

\* Mutant: the digit is not incremented.
WriterWriteSame ==
    /\ At("writer", "write")
    /\ \/ opened /\ HasRoom("p", <<1>>) /\ PutAll("p", <<1>>)
       \/ ~opened /\ UNCHANGED data
    /\ sent' = sent + 1
    /\ Goto("writer", IF sent' = Messages THEN "exit" ELSE "write")
    /\ UNCHANGED <<readers, writers, life, opened, inbuf, printed>>

\* Mutant: one message too many.
WriterWriteMore ==
    /\ At("writer", "write")
    /\ \/ opened /\ HasRoom("p", <<sent + 1>>) /\ PutAll("p", <<sent + 1>>)
       \/ ~opened /\ UNCHANGED data
    /\ sent' = sent + 1
    /\ Goto("writer", IF sent' > Messages THEN "exit" ELSE "write")
    /\ UNCHANGED <<readers, writers, life, opened, inbuf, printed>>

\* Without a pipe the descriptor is 0: the message goes to the terminal that is
\* stdin, if it goes anywhere, and not to the reader.
WriterWrite ==
    /\ At("writer", "write")
    /\ \/ opened /\ HasRoom("p", <<sent + 1>>) /\ PutAll("p", <<sent + 1>>)
       \/ ~opened /\ UNCHANGED data
    /\ sent' = sent + 1
    /\ Goto("writer", IF sent' = Messages THEN "exit" ELSE "write")
    /\ UNCHANGED <<readers, writers, life, opened, inbuf, printed>>

WriterExit ==
    /\ At("writer", "exit")
    /\ Die("writer", "writer")
    /\ UNCHANGED <<data, pc, program>>

Writer ==
    \/ CreatePipe \/ ForkReader
    \/ WriterCloseNothing \/ WriterWrite \/ WriterExit

-----------------------------------------------------------------------------
(* The label "parent": the reader.                                         *)

ReaderCloseWrite ==
    /\ At("reader", "close_w")
    /\ CloseWrite("reader", "p")
    /\ Goto("reader", "read")
    /\ UNCHANGED <<data, life, program>>

\* One read, whose result is not looked at: what has not come is left as it is.
ReaderRead ==
    /\ At("reader", "read")
    /\ \/ /\ opened /\ CanRead("p") /\ TakeUpTo("p", Messages)
          /\ inbuf' = Got("p", Messages) \o SubSeq(inbuf, Len(Got("p", Messages)) + 1, Messages)
       \/ (AtEOF("p") \/ ~opened) /\ UNCHANGED <<data, inbuf>>
    /\ Goto("reader", "say")
    /\ UNCHANGED <<readers, writers, life, opened, sent, printed>>

\* "Parent received: ", whether it has or not.
ReaderSay ==
    /\ At("reader", "say")
    /\ Goto("reader", "print")
    /\ UNCHANGED <<kernel, program>>

\* The whole buffer.
ReaderPrint ==
    /\ At("reader", "print")
    /\ printed' = inbuf
    /\ Goto("reader", "wait")
    /\ UNCHANGED <<kernel, opened, sent, inbuf>>

\* It has no child: wait4 answers ECHILD at once.
ReaderWait ==
    /\ At("reader", "wait")
    /\ Goto("reader", "exit")
    /\ UNCHANGED <<kernel, program>>

ReaderExit ==
    /\ At("reader", "exit")
    /\ Die("reader", "writer")
    /\ UNCHANGED <<data, pc, program>>

Reader ==
    \/ ReaderCloseWrite \/ ReaderRead \/ ReaderSay \/ ReaderPrint
    \/ ReaderWait \/ ReaderExit

Kill(q) ==
    /\ q \in Killable /\ life[q] = "running"
    /\ Die(q, "writer")
    /\ Goto(q, "killed")
    /\ UNCHANGED <<data, program>>

Over == \A q \in Process : life[q] \in {"unborn", "gone"}

Terminating == Over /\ UNCHANGED vars

Next == Writer \/ Reader \/ (\E q \in Killable : Kill(q)) \/ Terminating

\* The kernel runs every process that can run sooner or later.
Fairness == WF_vars(Writer) /\ WF_vars(Reader)

Spec == Init /\ [][Next]_vars /\ Fairness

-----------------------------------------------------------------------------
WriterLabels == {"pipe", "fork", "close", "write", "exit", "killed"}
ReaderLabels == {"close_w", "read", "say", "print", "wait", "exit", "killed"}

TypeOK ==
    /\ data \in [Pipes -> Seq(1..Messages)] /\ Len(data["p"]) <= Capacity
    /\ readers \in [Pipes -> SUBSET Process] /\ writers \in [Pipes -> SUBSET Process]
    /\ life \in [Process -> Life]
    /\ pc \in [Process -> WriterLabels \cup ReaderLabels]
    /\ pc["writer"] \in WriterLabels
    /\ pc["reader"] \in ReaderLabels
    /\ opened \in BOOLEAN /\ sent \in 0..Messages
    /\ inbuf \in [1..Messages -> 0..Messages]
    /\ printed \in {<<>>} \cup [1..Messages -> 0..Messages]

\* The first messages in order, then zero bytes; there is no message at all only
\* after a fault.
Shows(text) ==
    \E n \in 0..Messages :
        /\ text = [i \in 1..Messages |-> IF i <= n THEN i ELSE 0]
        /\ n = 0 => ~opened \/ pc["writer"] = "killed"

\* What is printed begins with the first messages in order, and what is missing
\* after them is zero bytes; nothing at all is missing only after a fault.
PrefixShown == printed # <<>> => Shows(printed)

\* The writer never meets a pipe without a reader (there is no action for its
\* SIGPIPE), though the reader ends after one read and may be killed at any
\* time: the read end the writer fails to close is its own.
NeverBroken == ~(At("writer", "write") /\ opened /\ Broken("p"))

\* "The parent will read the messages from the read-end of the pipe and displays
\* them": what is printed is the messages.
MessagesDisplayed == printed # <<>> => printed = [i \in 1..Messages |-> i]

-----------------------------------------------------------------------------
\* How far the two processes are.
Progress ==
    /\ \A q \in Process : pc[q] = "killed" => life[q] # "running"
    /\ life["writer"] = "running" \/ pc["writer"] \in {"exit", "killed"}
    /\ pc["writer"] \in {"pipe", "fork"} => life["reader"] = "unborn"
    /\ life["reader"] = "unborn" => pc["reader"] = "close_w"
    /\ pc["writer"] = "pipe" => ~opened
    /\ pc["writer"] \in {"pipe", "fork", "close"} => sent = 0
    /\ pc["writer"] = "write" => sent < Messages
    /\ pc["writer"] = "exit" => sent = Messages

\* Who holds the pipe: the writer both ends, as long as it runs.
Held ==
    /\ ~opened => data["p"] = <<>> /\ readers["p"] = {} /\ writers["p"] = {}
    /\ opened /\ life["writer"] = "running" =>
         "writer" \in readers["p"] /\ "writer" \in writers["p"]

\* Where the messages are: in the pipe until the read, then in the buffer.
Flow ==
    /\ pc["reader"] \in {"close_w", "read"} =>
         /\ printed = <<>> /\ inbuf = [i \in 1..Messages |-> 0]
         /\ opened => data["p"] = [i \in 1..sent |-> i]
    /\ pc["reader"] \in {"say", "print", "wait", "exit"} => Shows(inbuf)
    /\ PrefixShown

\* The inductive invariant.
Inv == TypeOK /\ Progress /\ Held /\ Flow
=============================================================================
