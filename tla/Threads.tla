------------------------------ MODULE Threads ------------------------------
(***************************************************************************)
(* src/archive/examples/ipc/Threads/threads.asm: the main thread maps a    *)
(* stack for each of two more threads and clones it, then all three print  *)
(* lines until a shared counter is exhausted.  Nobody joins anybody: each  *)
(* thread ends by itself when it finds the counter below zero.             *)
(*                                                                         *)
(* MaxLines is 100000 in the code, and the counter has 64 bits: it ends at *)
(* most one below zero for each thread.                                    *)
(***************************************************************************)
EXTENDS Integers, FiniteSets

CONSTANTS
    MaxLines,       \* lines to print (MAX_LINES)
    MapMayFail,     \* whether the kernel may refuse a stack
    CloneMayFail    \* whether it may refuse a thread

ASSUME MaxLinesAssumption == MaxLines \in Nat
ASSUME FaultAssumption == MapMayFail \in BOOLEAN /\ CloneMayFail \in BOOLEAN

Thread == {"main", "thread1", "thread2"}

VARIABLES
    count,      \* the counter the threads share
    pc,         \* pc[t]: what thread t does next
    lines,      \* the lines printed
    crashed     \* whether a segmentation fault has ended the process

vars == <<count, pc, lines, crashed>>

Goto(t, label) == pc' = [pc EXCEPT ![t] = label]

At(t, label) == ~crashed /\ pc[t] = label

Init ==
    /\ count = MaxLines
    /\ pc = [t \in Thread |-> IF t = "main" THEN "stack1" ELSE "unborn"]
    /\ lines = 0
    /\ crashed = FALSE

-----------------------------------------------------------------------------
\* stack_create, and the thread's first address put on top of the new stack.
\* mmap's error is not looked at: used as an address it is not mapped.
CreateStack(label, next) ==
    /\ At("main", label)
    /\ \/ Goto("main", next) /\ UNCHANGED crashed
       \/ MapMayFail /\ crashed' = TRUE /\ UNCHANGED pc
    /\ UNCHANGED <<count, lines>>

\* The clone in thread_create: both the new thread and main return from the
\* call, each on its own stack.  Without the thread main goes on alone.
Clone(t, label, next) ==
    /\ At("main", label)
    /\ \/ pc' = [pc EXCEPT !["main"] = next, ![t] = "check"]
       \/ CloneMayFail /\ Goto("main", next)
    /\ UNCHANGED <<count, lines, crashed>>

CreateThread ==
    \/ CreateStack("stack1", "clone1") \/ Clone("thread1", "clone1", "stack2")
    \/ CreateStack("stack2", "clone2") \/ Clone("thread2", "clone2", "check")

\* Mutant: only the thread that finds the counter at -1 ends.
CheckCountMinusOne(t) ==
    /\ At(t, "check")
    /\ count' = count - 1
    /\ Goto(t, IF count - 1 = -1 THEN "exited" ELSE "puts")
    /\ UNCHANGED <<lines, crashed>>

\* Mutant: jle ends a thread at zero.
CheckCountLow(t) ==
    /\ At(t, "check")
    /\ count' = count - 1
    /\ Goto(t, IF count - 1 <= 0 THEN "exited" ELSE "puts")
    /\ UNCHANGED <<lines, crashed>>

\* Mutant: without the lock prefix, a store made meanwhile by another processor
\* may be overwritten by the old value.
CheckCountUnlocked(t) ==
    /\ At(t, "check")
    /\ count' \in {count - 1, count}
    /\ Goto(t, IF count - 1 < 0 THEN "exited" ELSE "puts")
    /\ UNCHANGED <<lines, crashed>>

\* "lock xadd [count], rax" with rax = -1 leaves the sign of the new count in
\* the flags, in one step: jl exits when it is negative.
CheckCount(t) ==
    /\ At(t, "check")
    /\ count' = count - 1
    /\ Goto(t, IF count - 1 < 0 THEN "exited" ELSE "puts")
    /\ UNCHANGED <<lines, crashed>>

\* One write for the whole line, then the loop again.
Puts(t) ==
    /\ At(t, "puts")
    /\ lines' = lines + 1
    /\ Goto(t, "check")
    /\ UNCHANGED <<count, crashed>>

Ended == \A t \in Thread : pc[t] \in {"unborn", "exited"}

Over == crashed \/ Ended

Terminating == Over /\ UNCHANGED vars

Step(t) == CheckCount(t) \/ Puts(t)

Next == CreateThread \/ (\E t \in Thread : Step(t)) \/ Terminating

\* The kernel runs every thread that can run sooner or later.
Fairness == WF_vars(CreateThread) /\ \A t \in Thread : WF_vars(Step(t))

Spec == Init /\ [][Next]_vars /\ Fairness

-----------------------------------------------------------------------------
Printing == {t \in Thread : pc[t] = "puts"}

Labels == {"stack1", "clone1", "stack2", "clone2", "unborn", "check", "puts", "exited"}

\* Types of the variables.  The counter never falls further below zero than
\* there are threads: each of them takes one too many.
TypeOK ==
    /\ count \in -Cardinality(Thread)..MaxLines
    /\ pc \in [Thread -> Labels]
    /\ lines \in 0..MaxLines
    /\ crashed \in BOOLEAN

\* Every decrement that left the counter at zero or more is a line printed or
\* being printed: with the counter exhausted and nobody printing, exactly
\* MaxLines lines are out.
Accounted ==
    lines + Cardinality(Printing) + (IF count < 0 THEN 0 ELSE count) = MaxLines

\* Once a thread has ended no thread begins another line.
NoLineAfterExit ==
    [][\A t, u \in Thread :
         pc[t] = "exited" /\ pc[u] # "puts" => pc'[u] # "puts"]_vars

\* Whoever is refused, as long as the process does not crash it prints all its
\* lines and ends.
PrintsAll == <>(crashed \/ (Over /\ lines = MaxLines))

Abstract == INSTANCE Quota WITH over <- Ended

\* The threads that exist together take the steps of one Quota, over when the
\* last of them has ended, whatever the kernel refuses and whether or not a
\* refused stack ends them early.
ImplementsQuota == Abstract!Init /\ [][Abstract!Next]_(Abstract!vars)
=============================================================================
