------------------------------ MODULE IpcDemos ------------------------------
(***************************************************************************)
(* The small process programs of src/archive/examples/ipc on one kernel:   *)
(* the user starts one of them, and it runs to its end.  The programs do   *)
(* not interact; this module puts their state machines side by side, so    *)
(* that one model-checking run explores each from its own start, with      *)
(* every fault of the kernel and of the user it can meet.                  *)
(***************************************************************************)
EXTENDS Integers, Sequences

CONSTANTS
    Messages,       \* how many messages PipeDemo2 writes (three)
    Message,        \* what PipeDemo3 and PipeDemo5 send
    CharsToRead,    \* bytes PipeDemo3 asks for
    Capacity,       \* what a pipe holds (messages for PipeDemo2, bytes otherwise)
    Iterations,     \* how often each process of ForkDemo writes its digit
    Run,            \* the runs of ExtXTerm
    PipeMayFail,    \* whether the kernel may refuse a pipe,
    ForkMayFail,    \* a fork,
    ExecMayFail,    \* or an execve
    Killable        \* the processes a signal may kill

VARIABLES
    demo,                                       \* the program that is run
    data, readers, writers, life, pc,           \* kernel and program counters
    opened, sent, inbuf, printed,               \* PipeDemo2 (opened: PipeDemo3)
    buffer, shown, ends, flooded, reported,     \* PipeDemo3 (buffer: PipeDemo5)
    screen,                                     \* PipeDemo5
    parentOf, left, line, header,               \* ForkDemo
    files, path, fdfifo, stderr, xterm, target, seen    \* ExtXTerm

pipes == <<data, readers, writers>>
pipe2 == <<sent, inbuf, printed>>
pipe3 == <<shown, ends, flooded, reported>>
forks == <<parentOf, left, line, header>>
fifos == <<files, path, fdfifo, stderr, xterm, target, seen>>
vars == <<demo, pipes, life, pc, opened, pipe2, buffer, pipe3, screen, forks, fifos>>

\* The programs use different names for their processes.
P2 == INSTANCE PipeDemo2 WITH Killable <- Killable \cap {"reader", "writer"}

P3 == INSTANCE PipeDemo3 WITH Killable <- Killable \cap {"reader", "writer"}

P5 == INSTANCE PipeDemo5 WITH Killable <- Killable \cap {"parent", "child"}

F == INSTANCE ForkDemo WITH
    ForkMayFail <- IF ForkMayFail THEN {"Child1", "Child2"} ELSE {},
    Killable <- Killable \cap {"Parent", "Child1", "Child2"}

X == INSTANCE ExtXTerm WITH Killable <- "program" \in Killable

ASSUME InstanceAssumption ==
    P2!Assumption /\ P3!Assumption /\ P5!Assumption /\ F!Assumption /\ X!Assumption

-----------------------------------------------------------------------------
\* The variables of the programs that are not run stay empty.
NoFork == parentOf = "" /\ left = "" /\ line = "" /\ header = ""
NoPipe == data = "" /\ readers = "" /\ writers = "" /\ opened = ""
No2 == sent = "" /\ inbuf = "" /\ printed = ""
No3 == shown = "" /\ ends = "" /\ flooded = "" /\ reported = ""
NoFifo ==
    /\ files = "" /\ path = "" /\ fdfifo = "" /\ stderr = ""
    /\ xterm = "" /\ target = "" /\ seen = ""

Init ==
    \/ /\ demo = "pipedemo2" /\ P2!Init
       /\ buffer = "" /\ No3 /\ screen = "" /\ NoFork /\ NoFifo
    \/ /\ demo = "pipedemo3" /\ P3!Init
       /\ No2 /\ screen = "" /\ NoFork /\ NoFifo
    \/ /\ demo = "pipedemo5" /\ P5!Init
       /\ opened = "" /\ No2 /\ No3 /\ NoFork /\ NoFifo
    \/ /\ demo = "forkdemo" /\ F!Init
       /\ NoPipe /\ No2 /\ buffer = "" /\ No3 /\ screen = "" /\ NoFifo
    \/ /\ demo = "extxterm" /\ X!Init
       /\ life = "" /\ NoPipe /\ No2 /\ No3 /\ screen = "" /\ NoFork

-----------------------------------------------------------------------------
\* A step of each program, which leaves the others' state alone.
Run2(Step) ==
    demo = "pipedemo2" /\ Step /\ UNCHANGED <<demo, buffer, pipe3, screen, forks, fifos>>

Run3(Step) ==
    demo = "pipedemo3" /\ Step /\ UNCHANGED <<demo, pipe2, screen, forks, fifos>>

Run5(Step) ==
    demo = "pipedemo5" /\ Step /\ UNCHANGED <<demo, opened, pipe2, pipe3, forks, fifos>>

RunF(Step) ==
    demo = "forkdemo" /\ Step
    /\ UNCHANGED <<demo, pipes, opened, pipe2, buffer, pipe3, screen, fifos>>

RunX(Step) ==
    demo = "extxterm" /\ Step
    /\ UNCHANGED <<demo, pipes, life, opened, pipe2, pipe3, screen, forks>>

Next ==
    Run2(P2!Next) \/ Run3(P3!Next) \/ Run5(P5!Next) \/ RunF(F!Next) \/ RunX(X!Next)

\* The fairness of each program: the kernel runs every process that can run, and
\* the user of ExtXTerm closes the windows.
Fairness ==
    /\ WF_vars(Run2(P2!Writer)) /\ WF_vars(Run2(P2!Reader))
    /\ WF_vars(Run3(P3!Writer)) /\ WF_vars(Run3(P3!Reader))
    /\ WF_vars(Run5(P5!Parent)) /\ WF_vars(Run5(P5!Child))
    /\ WF_vars(RunF(F!Parent)) /\ WF_vars(RunF(F!Child1)) /\ WF_vars(RunF(F!Child2))
    /\ \A r \in Run :
        WF_vars(RunX(X!Program(r))) /\ WF_vars(RunX(X!XTerm(r)))

Spec == Init /\ [][Next]_vars /\ Fairness

-----------------------------------------------------------------------------
\* The type invariants of the programs.
TypeOK ==
    /\ demo \in {"pipedemo2", "pipedemo3", "pipedemo5", "forkdemo", "extxterm"}
    /\ demo = "pipedemo2" => P2!TypeOK
    /\ demo = "pipedemo3" => P3!TypeOK
    /\ demo = "pipedemo5" => P5!TypeOK
    /\ demo = "forkdemo" => F!TypeOK
    /\ demo = "extxterm" => X!TypeOK

\* PipeDemo2: what is printed begins with the first messages in order, and what
\* is missing after them is zero bytes, whatever fails.
PrefixShown == demo = "pipedemo2" => P2!PrefixShown

\* PipeDemo2: the writer never meets a pipe without a reader.
NeverBroken == demo = "pipedemo2" => P2!NeverBroken

\* PipeDemo3: whoever is killed, and between whichever calls, the lines are the
\* message chopped from its beginning, all of them full but the one that
\* completes it, and what is not on the screen when "Child finished" is said is
\* on its way.
Chopped == demo = "pipedemo3" => P3!Chopped /\ P3!OnItsWay

\* PipeDemo5: "done." comes last, after the sentence and after the child's lines.
DoneIsLast == demo = "pipedemo5" => P5!DoneIsLast

\* ForkDemo: "All childs are done" is true when it is said.
AllDoneIsTrue == demo = "forkdemo" => F!AllDoneIsTrue

\* ExtXTerm: the message of a run appears in the terminal that it started, and
\* nowhere else, as long as no run is killed, also after runs that failed and
\* left their FIFO behind.
OwnTerminalUnlessKilled == demo = "extxterm" => X!OwnTerminalUnlessKilled

\* ExtXTerm: then, too, nothing is left under the FIFO's name when a run has come
\* to its message, and a run that could fork does not fail.
NothingLeft == demo = "extxterm" => X!NothingLeft

Over ==
    \/ demo = "pipedemo2" /\ P2!Over
    \/ demo = "pipedemo3" /\ P3!Over
    \/ demo = "pipedemo5" /\ P5!Over
    \/ demo = "forkdemo" /\ F!Over

\* Every program ends, each of its processes reaped, whatever fails and whoever
\* is killed, but PipeDemo3 without a pipe and PipeDemo5 with a child killed
\* early: no other wait for a process or a pipe lasts for ever.
Ends ==
    <>[](\/ Over
         \/ demo = "extxterm"
         \/ demo = "pipedemo3" /\ P3!Floods
         \/ demo = "pipedemo5" /\ P5!Starves)

\* ExtXTerm: a run ends unless its xterm never started: then it reads for ever,
\* from a FIFO that it keeps open for writing itself.
EndsOrStarves ==
    \A r \in Run :
        (demo = "extxterm" /\ pc[r] = "mknod") ~>
            \/ demo = "extxterm" /\ X!Over(r)
            \/ [](demo = "extxterm" /\ X!Starves(r))

\* PipeDemo3 and PipeDemo5 implement Stream: what appears is more and more of
\* the message, and it is complete when the processes end unharmed.
ImplementsStream ==
    /\ demo = "pipedemo3" => P3!StreamInit
    /\ demo = "pipedemo5" => P5!StreamInit
    /\ [][/\ demo = "pipedemo3" => P3!StreamStep
          /\ demo = "pipedemo5" => P5!StreamStep]_vars

-----------------------------------------------------------------------------
\* The inductive invariant of the program that is run.
Inv ==
    /\ demo \in {"pipedemo2", "pipedemo3", "pipedemo5", "forkdemo", "extxterm"}
    /\ demo = "pipedemo2" => P2!Inv
    /\ demo = "pipedemo3" => P3!Inv
    /\ demo = "pipedemo5" => P5!Inv
    /\ demo = "forkdemo" => F!Inv
    /\ demo = "extxterm" => X!Inv

-----------------------------------------------------------------------------
\* pipedemo2.asm:7-8: "The parent will read the messages from the read-end of
\* the pipe and displays them."
MessagesDisplayed == demo = "pipedemo2" => P2!MessagesDisplayed
=============================================================================
