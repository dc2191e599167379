------------------------------ MODULE ForkDemo ------------------------------
(***************************************************************************)
(* src/archive/examples/ipc/ForkDemo/forkdemo.asm: a parent and two        *)
(* children each toggle a digit on a line of the same terminal, every one  *)
(* at its own pace, then write "done" over it.  The parent forks both      *)
(* children, and waits for both when its own counting is done.             *)
(*                                                                         *)
(* Time is left out: the processes interleave in every order.              *)
(***************************************************************************)
EXTENDS Integers

CONSTANTS
    Iterations,     \* Iterations[q]: how often q writes its digit (15, 21, 15)
    ForkMayFail,    \* the children the kernel may refuse
    Killable        \* the processes a signal may kill

Process == {"Parent", "Child1", "Child2"}
Children == {"Child1", "Child2"}

Assumption ==
    /\ Iterations \in [Process -> Nat \ {0}]
    /\ ForkMayFail \subseteq Children /\ Killable \subseteq Process

VARIABLES
    life,       \* how far each process is from fork to wait4 (UnixPipe)
    parentOf,   \* who forked each process
    pc,         \* what each process does next
    left,       \* left[q]: the iterations process q has left (rcx)
    line,       \* line[q]: what process q's line on the terminal shows
    header      \* the last message of the parent

vars == <<life, parentOf, pc, left, line, header>>

\* This program has no pipes.
Kernel == INSTANCE UnixPipe
    WITH Pipes <- {}, Capacity <- 1, data <- <<>>, readers <- <<>>, writers <- <<>>

Goto(q, label) == pc' = [pc EXCEPT ![q] = label]

At(q, label) == life[q] = "running" /\ pc[q] = label

Init ==
    /\ life = [q \in Process |-> IF q = "Parent" THEN "running" ELSE "unborn"]
    /\ parentOf = [q \in Children |-> "nobody"]
    /\ pc = [q \in Process |-> IF q = "Parent" THEN "fork1" ELSE "repeat"]
    /\ left = Iterations
    /\ line = [q \in Process |-> ""]
    /\ header = ""

-----------------------------------------------------------------------------
\* The error message, and exit; a first child that runs already goes on.
Fork(child, here, next) ==
    /\ At("Parent", here)
    /\ \/ /\ Kernel!Fork("Parent", child)
          /\ parentOf' = [parentOf EXCEPT ![child] = "Parent"]
          /\ Goto("Parent", next)
          /\ UNCHANGED header
       \/ /\ child \in ForkMayFail
          /\ header' = "error"
          /\ Goto("Parent", "exit")
          /\ UNCHANGED <<life, parentOf>>
    /\ UNCHANGED <<left, line>>

ForkChild1 == Fork("Child1", "fork1", "fork2")

ForkChild2 == Fork("Child2", "fork2", "repeat")

\* The digit in the buffer of process q, toggled once for each iteration done.
Digit(q) == IF (Iterations[q] - left[q]) % 2 = 0 THEN "0" ELSE "1"

\* .repeat: write, sleep, toggle, and loop while rcx is not zero.
Repeat(q) ==
    /\ At(q, "repeat")
    /\ line' = [line EXCEPT ![q] = Digit(q)]
    /\ left' = [left EXCEPT ![q] = @ - 1]
    /\ Goto(q, IF left[q] = 1 THEN "done" ELSE "repeat")
    /\ UNCHANGED <<life, parentOf, header>>

Done(q) ==
    /\ At(q, "done")
    /\ line' = [line EXCEPT ![q] = "done"]
    /\ Goto(q, IF q = "Parent" THEN "waiting" ELSE "exit")
    /\ UNCHANGED <<life, parentOf, left, header>>

ParentSays(what, here, next) ==
    /\ At("Parent", here)
    /\ header' = what
    /\ Goto("Parent", next)
    /\ UNCHANGED <<life, parentOf, left, line>>

ParentWaiting == ParentSays("waiting", "waiting", "wait1")

ChildrenOf(q) == {c \in Children : parentOf[c] = q /\ life[c] \in {"running", "zombie"}}

\* Mutant: rcx starts at one, and the parent waits once.
WaitForOneChild ==
    /\ At("Parent", "wait1")
    /\ \E c \in ChildrenOf("Parent") : Kernel!Reap(c)
    /\ Goto("Parent", "all_done")
    /\ UNCHANGED <<parentOf, left, line, header>>

\* waitForChild, once for each of two children: whichever ends first.
WaitForChild ==
    /\ \E n \in {1, 2} :
         /\ At("Parent", IF n = 1 THEN "wait1" ELSE "wait2")
         /\ Goto("Parent", IF n = 1 THEN "wait2" ELSE "all_done")
    /\ \E c \in ChildrenOf("Parent") : Kernel!Reap(c)
    /\ UNCHANGED <<parentOf, left, line, header>>

ParentAllDone == ParentSays("all done", "all_done", "exit")

Exit(q) ==
    /\ At(q, "exit")
    /\ Kernel!Die(q, "Parent")
    /\ UNCHANGED <<parentOf, pc, left, line, header>>

Kill(q) ==
    /\ q \in Killable /\ life[q] = "running"
    /\ Kernel!Die(q, "Parent")
    /\ Goto(q, "killed")
    /\ UNCHANGED <<parentOf, left, line, header>>

Steps(q) == Repeat(q) \/ Done(q) \/ Exit(q)

Child1 == Steps("Child1")

Child2 == Steps("Child2")

Parent ==
    \/ ForkChild1 \/ ForkChild2 \/ Steps("Parent")
    \/ ParentWaiting \/ WaitForChild \/ ParentAllDone

Over == \A q \in Process : life[q] \in {"unborn", "gone"}

Terminating == Over /\ UNCHANGED vars

Next == Parent \/ Child1 \/ Child2 \/ (\E q \in Killable : Kill(q)) \/ Terminating

\* The kernel runs every process that can run sooner or later.
Fairness == WF_vars(Parent) /\ WF_vars(Child1) /\ WF_vars(Child2)

Spec == Init /\ [][Next]_vars /\ Fairness

-----------------------------------------------------------------------------
Labels == {"fork1", "fork2", "repeat", "done", "waiting", "wait1", "wait2", "all_done",
           "exit", "killed"}

TypeOK ==
    /\ life \in [Process -> Kernel!Life]
    /\ parentOf \in [Children -> Process \cup {"nobody"}]
    /\ pc \in [Process -> Labels]
    /\ left \in [Process -> Nat] /\ \A q \in Process : left[q] <= Iterations[q]
    /\ line \in [Process -> {"", "0", "1", "done"}]
    /\ header \in {"", "error", "waiting", "all done"}

\* "All childs are done": both are reaped by then, and each that was not killed
\* has written "done", as the parent has.
AllDoneIsTrue ==
    header = "all done" =>
        /\ line["Parent"] = "done"
        /\ \A c \in Children :
             life[c] = "gone" /\ (pc[c] # "killed" => line[c] = "done")
-----------------------------------------------------------------------------
\* A process that is at its loop, or not there yet, has an iteration left.
Counts == \A q \in Process : pc[q] \in {"fork1", "fork2", "repeat"} => left[q] # 0

\* A process ends by its exit, with "done" on its line, or by a signal.
Ended ==
    /\ \A q \in Process : life[q] \in {"zombie", "gone"} => pc[q] \in {"exit", "killed"}
    /\ \A c \in Children : pc[c] = "exit" => line[c] = "done"

\* The parent has reaped one child when it waits again, and both when it says so.
Waits ==
    /\ pc["Parent"] = "wait2" => \E c \in Children : life[c] = "gone"
    /\ pc["Parent"] = "all_done" => \A c \in Children : life[c] = "gone"
    /\ pc["Parent"] \in {"waiting", "wait1", "wait2", "all_done"} => line["Parent"] = "done"
    /\ header = "all done" => pc["Parent"] \in {"exit", "killed"}

\* The inductive invariant.
Inv == TypeOK /\ Counts /\ Ended /\ Waits /\ AllDoneIsTrue
=============================================================================
