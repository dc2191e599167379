------------------------------ MODULE FILOlist ------------------------------
(***************************************************************************)
(* FILOlist.cpp: a stack of fixed size.  The pointer top is kept as its    *)
(* offset from list.                                                       *)
(***************************************************************************)
EXTENDS Memory

CONSTANTS Values, MAXSIZE

Assumption == MAXSIZE \in Nat \ {0}

VARIABLES list, top, n, failed, call, out

vars == <<list, top, n, failed, call, out>>

Init ==
    /\ top = 0 /\ n = 0
    /\ list = New(MAXSIZE)
    /\ failed = FALSE
    /\ call = <<>> /\ out = Junk

Put(x) ==
    /\ call' = <<"Put", x>>
    /\ \/ /\ n >= MAXSIZE
          /\ out' = FALSE
          /\ UNCHANGED <<list, top, n>>
       \/ /\ n < MAXSIZE
          /\ n' = n + 1
          /\ list' = [list EXCEPT ![top] = x]
          /\ top' = top + 1
          /\ out' = TRUE
    /\ UNCHANGED failed

Get ==
    /\ call' = <<"Get">>
    /\ \/ /\ n <= 0
          /\ failed' = TRUE
          /\ UNCHANGED <<n, top, out>>
       \/ /\ n > 0
          /\ n' = n - 1
          /\ top' = top - 1
          /\ out' = list[top - 1]
          /\ UNCHANGED failed
    /\ UNCHANGED list

Next == ~failed /\ (Get \/ \E x \in Values : Put(x))

Spec == Init /\ [][Next]_vars
-----------------------------------------------------------------------------
Contents == [i \in 1 .. n |-> list[i - 1]]

\* A FILOlist is a stack that refuses what exceeds MAXSIZE.
Abstract == INSTANCE Collection WITH
    items <- Contents, Zero <- Junk, Capacity <- MAXSIZE, Sizes <- {}

AbstractInit == Abstract!Empty
AbstractStep == failed' \/ Abstract!StackNext

ImplementsStack == AbstractInit /\ [][AbstractStep]_vars
=============================================================================
