------------------------------ MODULE Transfer ------------------------------
(***************************************************************************)
(* What a sender and a receiver of one message promise a user who only     *)
(* sees the screen and the two processes: the message appears byte after   *)
(* byte, its end is announced when all of it has appeared, and only then   *)
(* does the sender end, and after it the receiver.  The programs of        *)
(* src/archive/examples/ipc that transfer a message implement it.          *)
(***************************************************************************)
EXTENDS Naturals, Sequences

CONSTANT Message

VARIABLES
    shown,          \* the bytes the receiver has printed
    told,           \* whether the end of the message is known to it
    senderOver,     \* whether the sender has ended
    receiverOver    \* whether the receiver has ended

vars == <<shown, told, senderOver, receiverOver>>

Init ==
    /\ shown = <<>>
    /\ told = FALSE
    /\ senderOver = FALSE
    /\ receiverOver = FALSE

Show ==
    /\ Len(shown) < Len(Message)
    /\ shown' = Append(shown, Message[Len(shown) + 1])
    /\ UNCHANGED <<told, senderOver, receiverOver>>

Tell ==
    /\ ~told
    /\ shown = Message
    /\ told' = TRUE
    /\ UNCHANGED <<shown, senderOver, receiverOver>>

EndSender ==
    /\ told
    /\ ~senderOver
    /\ senderOver' = TRUE
    /\ UNCHANGED <<shown, told, receiverOver>>

EndReceiver ==
    /\ senderOver
    /\ ~receiverOver
    /\ receiverOver' = TRUE
    /\ UNCHANGED <<shown, told, senderOver>>

Next == Show \/ Tell \/ EndSender \/ EndReceiver

Spec == Init /\ [][Next]_vars /\ WF_vars(Next)
=============================================================================
