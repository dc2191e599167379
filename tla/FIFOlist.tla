------------------------------ MODULE FIFOlist ------------------------------
(***************************************************************************)
(* FIFOlist.cpp: a first-in-first-out list in a ring of fixed size.  The   *)
(* pointers head and tail are kept as their offsets from list.             *)
(***************************************************************************)
EXTENDS Memory

CONSTANTS Values, MAXSIZE

Assumption == MAXSIZE \in Nat \ {0}

VARIABLES list, head, tail, n, failed, call, out

vars == <<list, head, tail, n, failed, call, out>>

Init ==
    /\ head = 0 /\ tail = 0
    /\ n = 0
    /\ list = New(MAXSIZE)
    /\ failed = FALSE
    /\ call = <<>> /\ out = Junk

\* A pointer incremented, and wrapped around at the end of the list.
Advanced(p) == IF p + 1 >= MAXSIZE THEN 0 ELSE p + 1

Put(x) ==
    /\ call' = <<"Put", x>>
    /\ \/ /\ n >= MAXSIZE
          /\ out' = FALSE
          /\ UNCHANGED <<list, head, n>>
       \/ /\ n < MAXSIZE
          /\ n' = n + 1
          /\ list' = [list EXCEPT ![head] = x]
          /\ head' = Advanced(head)
          /\ out' = TRUE
    /\ UNCHANGED <<tail, failed>>

Get ==
    /\ call' = <<"Get">>
    /\ \/ /\ n <= 0
          /\ failed' = TRUE
          /\ UNCHANGED <<n, tail, out>>
       \/ /\ n > 0
          /\ n' = n - 1
          /\ tail' = Advanced(tail)
          /\ out' = list[tail]
          /\ UNCHANGED failed
    /\ UNCHANGED <<list, head>>

Next == ~failed /\ (Get \/ \E x \in Values : Put(x))

Spec == Init /\ [][Next]_vars
-----------------------------------------------------------------------------
Contents ==
    [i \in 1 .. n |->
        list[IF tail + i - 1 >= MAXSIZE THEN tail + i - 1 - MAXSIZE ELSE tail + i - 1]]

\* A FIFOlist is a queue that refuses what exceeds MAXSIZE.
Abstract == INSTANCE Collection WITH
    items <- Contents, Zero <- Junk, Capacity <- MAXSIZE, Sizes <- {}

AbstractInit == Abstract!Empty
AbstractStep == failed' \/ Abstract!QueueNext(TRUE)

ImplementsQueue == AbstractInit /\ [][AbstractStep]_vars
=============================================================================
