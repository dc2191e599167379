------------------------------- MODULE Stream -------------------------------
(***************************************************************************)
(* What the one-way pipe programs of src/archive/examples/ipc promise who  *)
(* watches the screen: the message appears in order, in pieces of any      *)
(* size, and the program is over when all of it has appeared.              *)
(***************************************************************************)
EXTENDS Naturals, Sequences

CONSTANT Message

VARIABLES
    shown,      \* what has appeared
    over        \* whether the program has ended

vars == <<shown, over>>

Init == shown = <<>> /\ over = FALSE

Show ==
    /\ ~over
    /\ \E n \in Len(shown) + 1..Len(Message) : shown' = SubSeq(Message, 1, n)
    /\ UNCHANGED over

End == ~over /\ shown = Message /\ over' = TRUE /\ UNCHANGED shown

Next == Show \/ End

Spec == Init /\ [][Next]_vars /\ WF_vars(Next)
=============================================================================
