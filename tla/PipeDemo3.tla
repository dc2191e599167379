------------------------------ MODULE PipeDemo3 ------------------------------
(***************************************************************************)
(* src/archive/examples/ipc/PipeDemo3/pipedemo3.asm: one process writes a  *)
(* message into a pipe in one call, the other reads it back by CharsToRead *)
(* bytes at a time and prints each piece on a line of its own.             *)
(*                                                                         *)
(* "jnz child" sends the process whose fork returned the new process's     *)
(* number to the code that reads.  So it is the parent that reads, and the *)
(* forked process that writes, waits for a child it does not have, and     *)
(* reports that it has finished.  The reader exits without waiting.        *)
(***************************************************************************)
EXTENDS Naturals, Sequences, SequencesExt

CONSTANTS
    Message,        \* the bytes at "message"
    CharsToRead,    \* bytes the reader asks for (CHARSTOREAD)
    Capacity,       \* bytes a pipe holds
    PipeMayFail,    \* whether the kernel may refuse the pipe
    ForkMayFail,    \* whether it may refuse the fork
    Killable        \* the processes a signal may kill

Assumption ==
    /\ Message \in Seq(1..255) /\ Message # <<>>
    /\ CharsToRead \in Nat \ {0}
    /\ Capacity \in Nat /\ Len(Message) <= Capacity
    /\ PipeMayFail \in BOOLEAN /\ ForkMayFail \in BOOLEAN
    /\ Killable \subseteq {"reader", "writer"}

\* The process that was started becomes the reader.
Process == {"reader", "writer"}
Pipes == {"p"}

VARIABLES
    data, readers, writers, life,    \* the kernel's state (UnixPipe)
    pc,         \* pc[q]: what process q does next
    opened,     \* whether p holds the descriptors of a pipe, or zeroes
    buffer,     \* what the last read returned
    shown,      \* the bytes printed
    ends,       \* ends[i]: how many they were when line i was ended (each is written on its own)
    flooded,    \* whether the reader has printed a line for a failed read
    reported    \* whether "Child finished" is on the screen

kernel == <<data, readers, writers, life>>
program == <<opened, buffer, shown, ends, flooded, reported>>
vars == <<data, readers, writers, life, pc, opened, buffer, shown, ends, flooded, reported>>

INSTANCE UnixPipe

Goto(q, label) == pc' = [pc EXCEPT ![q] = label]

At(q, label) == life[q] = "running" /\ pc[q] = label

Init ==
    /\ data = [p \in Pipes |-> <<>>]
    /\ readers = [p \in Pipes |-> {}]
    /\ writers = [p \in Pipes |-> {}]
    /\ life = [q \in Process |-> IF q = "reader" THEN "running" ELSE "unborn"]
    /\ pc = [q \in Process |-> IF q = "reader" THEN "pipe" ELSE "close_r"]
    /\ opened = FALSE /\ buffer = <<>> /\ shown = <<>> /\ ends = <<>>
    /\ flooded = FALSE /\ reported = FALSE

-----------------------------------------------------------------------------
\* "jns .fork" reads flags that syscall does not set: SF is clear when the
\* program starts, and the branch is always taken.
CreatePipe ==
    /\ At("reader", "pipe")
    /\ Goto("reader", "fork")
    /\ \/ Open("reader", "p") /\ opened' = TRUE
       \/ PipeMayFail /\ UNCHANGED <<readers, writers, opened>>
    /\ UNCHANGED <<data, life, buffer, shown, ends, flooded, reported>>

\* A fork that fails returns a number that is not zero, too: the process goes
\* on as the reader, and the code that reports the error is never reached.
ForkWriter ==
    /\ At("reader", "fork")
    /\ Goto("reader", "close_w")
    /\ \/ Fork("reader", "writer")
       \/ ForkMayFail /\ UNCHANGED <<readers, writers, life>>
    /\ UNCHANGED <<data, program>>

-----------------------------------------------------------------------------
(* The label "child": the reader.                                          *)

\* Mutant: the reader keeps its write end.
ReaderKeepsWrite ==
    /\ At("reader", "close_w")
    /\ Goto("reader", "read")
    /\ UNCHANGED <<kernel, program>>

ReaderCloseWrite ==
    /\ At("reader", "close_w")
    /\ CloseWrite("reader", "p")
    /\ Goto("reader", "read")
    /\ UNCHANGED <<data, life, program>>

ReaderRead ==
    /\ At("reader", "read") /\ opened
    /\ \/ /\ CanRead("p") /\ TakeUpTo("p", CharsToRead)
          /\ buffer' = Got("p", CharsToRead)
          /\ Goto("reader", "print")
       \/ /\ AtEOF("p") /\ Goto("reader", "close_r")
          /\ UNCHANGED <<data, buffer>>
    /\ UNCHANGED <<readers, writers, life, opened, shown, ends, flooded, reported>>

\* Without a pipe read fails (stdin, whose descriptor is zero as well, has just
\* been closed).  The error is not zero: it is taken for a number of bytes.
ReaderReadFails ==
    /\ At("reader", "read") /\ ~opened
    /\ Goto("reader", "print")
    /\ UNCHANGED <<kernel, program>>

\* Mutant: what is printed is always CharsToRead bytes long.
ReaderPrintsAll ==
    /\ At("reader", "print")
    /\ shown' = shown \o [i \in 1..CharsToRead |-> IF i <= Len(buffer) THEN buffer[i] ELSE 0]
    /\ Goto("reader", "eol")
    /\ UNCHANGED <<kernel, opened, buffer, ends, flooded, reported>>

\* write refuses an error as a number of bytes.
ReaderPrint ==
    /\ At("reader", "print")
    /\ shown' = IF opened THEN shown \o buffer ELSE shown
    /\ Goto("reader", "eol")
    /\ UNCHANGED <<kernel, opened, buffer, ends, flooded, reported>>

ReaderEndLine ==
    /\ At("reader", "eol")
    /\ \/ opened /\ ends' = Append(ends, Len(shown)) /\ UNCHANGED flooded
       \/ ~opened /\ flooded' = TRUE /\ UNCHANGED ends
    /\ Goto("reader", "sync")
    /\ UNCHANGED <<kernel, opened, buffer, shown, reported>>

\* fsync, whose answer is not looked at.
ReaderSync ==
    /\ At("reader", "sync")
    /\ Goto("reader", "read")
    /\ UNCHANGED <<kernel, program>>

ReaderCloseRead ==
    /\ At("reader", "close_r")
    /\ CloseRead("reader", "p")
    /\ Goto("reader", "exit")
    /\ UNCHANGED <<data, life, program>>

ReaderExit ==
    /\ At("reader", "exit")
    /\ Die("reader", "reader")
    /\ UNCHANGED <<data, pc, program>>

Reader ==
    \/ CreatePipe \/ ForkWriter
    \/ ReaderCloseWrite \/ ReaderRead \/ ReaderReadFails \/ ReaderPrint
    \/ ReaderEndLine \/ ReaderSync
    \/ ReaderCloseRead \/ ReaderExit

-----------------------------------------------------------------------------
(* The label "parent": the writer.                                         *)

WriterCloseRead ==
    /\ At("writer", "close_r")
    /\ CloseRead("writer", "p")
    /\ Goto("writer", "write")
    /\ UNCHANGED <<data, life, program>>

\* Mutant: the length is one byte short.
WriterWriteShort ==
    /\ At("writer", "write")
    /\ opened /\ HasRoom("p", Message) /\ PutAll("p", Front(Message))
    /\ Goto("writer", "close_w")
    /\ UNCHANGED <<readers, writers, life, program>>

WriterWrite ==
    /\ At("writer", "write")
    /\ \/ opened /\ HasRoom("p", Message) /\ PutAll("p", Message)
       \/ ~opened /\ UNCHANGED data
    /\ Goto("writer", "close_w")
    /\ UNCHANGED <<readers, writers, life, program>>

\* SIGPIPE: the reader has been killed.
WriterBrokenPipe ==
    /\ At("writer", "write") /\ opened /\ Broken("p")
    /\ Die("writer", "reader")
    /\ UNCHANGED <<data, pc, program>>

WriterCloseWrite ==
    /\ At("writer", "close_w")
    /\ CloseWrite("writer", "p")
    /\ Goto("writer", "report")
    /\ UNCHANGED <<data, life, program>>

\* wait4 answers ECHILD at once, which is not zero: "Child finished".
WriterReport ==
    /\ At("writer", "report")
    /\ reported' = TRUE
    /\ Goto("writer", "exit")
    /\ UNCHANGED <<kernel, opened, buffer, shown, ends, flooded>>

WriterExit ==
    /\ At("writer", "exit")
    /\ Die("writer", "reader")
    /\ UNCHANGED <<data, pc, program>>

Writer ==
    \/ WriterCloseRead \/ WriterWrite \/ WriterBrokenPipe \/ WriterCloseWrite
    \/ WriterReport \/ WriterExit

Kill(q) ==
    /\ q \in Killable /\ life[q] = "running"
    /\ Die(q, "reader")
    /\ Goto(q, "killed")
    /\ UNCHANGED <<data, program>>

Over == \A q \in Process : life[q] \in {"unborn", "gone"}

Terminating == Over /\ UNCHANGED vars

Next == Reader \/ Writer \/ (\E q \in Killable : Kill(q)) \/ Terminating

\* The kernel runs every process that can run sooner or later.
Fairness == WF_vars(Reader) /\ WF_vars(Writer)

Spec == Init /\ [][Next]_vars /\ Fairness

-----------------------------------------------------------------------------
ReaderLabels ==
    {"pipe", "fork", "close_w", "read", "print", "eol", "sync", "close_r", "exit",
      "killed"}
WriterLabels == {"close_r", "write", "close_w", "report", "exit", "killed"}

TypeOK ==
    /\ data \in [Pipes -> Seq(1..255)]
    /\ readers \in [Pipes -> SUBSET Process] /\ writers \in [Pipes -> SUBSET Process]
    /\ life \in [Process -> Life]
    /\ pc \in [Process -> ReaderLabels \cup WriterLabels]
    /\ pc["reader"] \in ReaderLabels
    /\ pc["writer"] \in WriterLabels
    /\ opened \in BOOLEAN
    /\ shown \in Seq(1..255) /\ buffer \in Seq(1..255)
    /\ ends \in Seq(0..Len(shown))
    /\ flooded \in BOOLEAN /\ reported \in BOOLEAN

LineLength(i) == ends[i] - (IF i = 1 THEN 0 ELSE ends[i - 1])

\* How much is on the screen of a line that has not been ended.
Rest == Len(shown) - (IF ends = <<>> THEN 0 ELSE ends[Len(ends)])

\* The length of a line: CharsToRead, or less for the one that completes the message.
Fits(length, last) ==
    length \in 1..CharsToRead /\ (length = CharsToRead \/ (last /\ shown = Message))

\* Whoever is killed, the lines are the message chopped from its beginning.  One
\* that is not ended is as long as the others: its end is what the reader writes
\* next, or it was killed before it could.
Chopped ==
    /\ IsPrefix(shown, Message)
    /\ \A i \in DOMAIN ends : Fits(LineLength(i), i = Len(ends) /\ Rest = 0)
    /\ Rest # 0 => pc["reader"] \in {"eol", "killed"} /\ Fits(Rest, TRUE)

\* What the reader has read and not printed.
Pending == IF pc["reader"] = "print" THEN buffer ELSE <<>>

\* "Child finished" may be on the screen before the message is.  What is missing
\* is on its way by then, if there is a pipe and the reader has not been killed.
OnItsWay ==
    reported /\ opened /\ pc["reader"] # "killed" =>
        shown \o Pending \o data["p"] = Message

\* Without a pipe the reader prints empty lines for ever.
Floods == ~opened /\ life["reader"] = "running" /\ pc["reader"] \in {"read", "print", "eol", "sync"}

Unharmed == \A q \in Process : life[q] # "unborn" /\ pc[q] # "killed"

Abstract == INSTANCE Stream WITH over <- Over /\ Unharmed

\* Whatever fails, the two processes take the steps of one Stream: more of the
\* message appears, and when both end unharmed all of it has.
StreamInit == Abstract!Init
StreamStep == [Abstract!Next]_(Abstract!vars)

-----------------------------------------------------------------------------
\* How far the two processes are.  The writer meets a pipe without a reader only
\* when the reader is killed.
Progress ==
    /\ \A q \in Process : pc[q] = "killed" => life[q] # "running"
    /\ life["reader"] = "running" \/ pc["reader"] \in {"exit", "killed"}
    /\ life["writer"] \in {"unborn", "running"} \/ pc["writer"] \in {"write", "exit", "killed"}
    /\ life["writer"] # "running" /\ pc["writer"] = "write" => pc["reader"] = "killed"
    /\ pc["reader"] \in {"pipe", "fork"} => life["writer"] = "unborn"
    /\ life["writer"] = "unborn" => pc["writer"] = "close_r" /\ ~reported
    /\ pc["reader"] = "pipe" => ~opened
    /\ pc["reader"] \in {"pipe", "fork", "close_w"} => shown = <<>>

\* Who holds the pipe: the writer the write end until it has written, the reader
\* the read end until it has met the end of file.
Held ==
    /\ ~opened =>
         /\ data["p"] = <<>> /\ readers["p"] = {} /\ writers["p"] = {}
         /\ pc["reader"] \notin {"close_r", "exit"}
         /\ buffer = <<>> /\ ends = <<>>
    /\ opened /\ life["writer"] = "running" /\ pc["writer"] \in {"close_r", "write", "close_w"} =>
         "writer" \in writers["p"]
    /\ opened /\ pc["reader"] \in {"fork", "close_w", "read", "print", "eol", "sync", "close_r"} =>
         "reader" \in readers["p"]
    /\ opened /\ pc["reader"] = "fork" => "reader" \in writers["p"]

\* Where the message is: nowhere yet, or on the screen, in the reader and in the
\* pipe, in this order.
Unwritten ==
    /\ ~opened \/ (~reported /\ pc["writer"] \in {"close_r", "write", "killed"})
    /\ shown = <<>> /\ Pending = <<>> /\ data["p"] = <<>>

Written ==
    /\ opened /\ pc["writer"] \notin {"close_r", "write"}
    /\ shown \o Pending \o data["p"] = Message

Flow ==
    /\ pc["reader"] # "killed" => Unwritten \/ Written
    /\ opened /\ pc["reader"] = "print" =>
         /\ buffer # <<>> /\ Len(buffer) <= CharsToRead
         /\ Len(buffer) = CharsToRead \/ data["p"] = <<>>
    /\ opened /\ pc["reader"] = "eol" => Rest # 0
    /\ pc["reader"] \in {"close_r", "exit"} =>
         shown = Message \/ life["writer"] = "unborn" \/ pc["writer"] = "killed"
    /\ Chopped

\* The inductive invariant.
Inv == TypeOK /\ Progress /\ Held /\ Flow
=============================================================================
