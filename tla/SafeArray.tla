------------------------------ MODULE SafeArray -----------------------------
(***************************************************************************)
(* SafeArray.cpp: an array of fixed size that is zero at first and whose   *)
(* index is checked: out of range it yields a null reference, and the      *)
(* access through it ends the program.                                     *)
(***************************************************************************)
EXTENDS Memory

CONSTANTS Values, Zero, N

Assumption == N \in Nat \ {0}

VARIABLES a, failed, call, out

vars == <<a, failed, call, out>>

Init ==
    /\ a = Filled(New(N), 0, N, Zero)
    /\ failed = FALSE
    /\ call = <<>> /\ out = Junk

\* The index is unsigned: a negative one is larger than any N.
Provoke(i) == i \notin 0 .. N-1 /\ failed' = TRUE /\ UNCHANGED <<a, out>>

\* list[i], read by the client
At(i) ==
    /\ call' = <<"[]", i>>
    /\ \/ Provoke(i)
       \/ i \in 0 .. N-1 /\ out' = a[i] /\ UNCHANGED <<a, failed>>

\* list[i] = x
Assign(i, x) ==
    /\ call' = <<"[]=", i, x>>
    /\ \/ Provoke(i)
       \/ i \in 0 .. N-1 /\ a' = [a EXCEPT ![i] = x] /\ UNCHANGED <<failed, out>>

Next == ~failed /\ \E i \in -1 .. N : At(i) \/ \E x \in Values : Assign(i, x)
-----------------------------------------------------------------------------
\* SafeArray is a sequence of N objects that are zero until they are assigned.
Abstract == INSTANCE Collection WITH
    items <- [i \in 1 .. N |-> a[i - 1]], Values <- Values \cup {Zero},
    Capacity <- N, Sizes <- {}

AbstractInit == \A i \in 0 .. N-1 : a[i] = Zero
AbstractStep == failed' \/ Abstract!VectorNext(1)
=============================================================================
