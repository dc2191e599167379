------------------------------- MODULE Quota -------------------------------
(***************************************************************************)
(* What the threads of src/archive/examples/ipc/Threads promise their      *)
(* user: the program prints MaxLines lines, no more and no less, whoever   *)
(* of its threads prints them, and then it is over.                        *)
(***************************************************************************)
EXTENDS Naturals

CONSTANT MaxLines

VARIABLES
    lines,      \* the lines printed so far
    over        \* whether every thread has ended

vars == <<lines, over>>

Init == lines = 0 /\ over = FALSE

Line == ~over /\ lines < MaxLines /\ lines' = lines + 1 /\ UNCHANGED over

Stop == ~over /\ lines = MaxLines /\ over' = TRUE /\ UNCHANGED lines

Next == Line \/ Stop

Spec == Init /\ [][Next]_vars /\ WF_vars(Next)
=============================================================================
