---------------------------- MODULE DynamicArray ----------------------------
(***************************************************************************)
(* DynamicArray.cpp: an array that grows as objects are pushed.  What is   *)
(* pushed may be an object of the array itself, passed by reference; the   *)
(* old block lives from ReAllocate to the end of the call, and OldBuffer   *)
(* is null between calls.                                                  *)
(***************************************************************************)
EXTENDS Memory

CONSTANTS
    Values, Zero,
    Increment,      \* the number of objects AllocateSpace bytes hold
    Limit           \* bound: the largest buffer that is asked for

Assumption == Increment \in Nat \ {0} /\ Limit \in Nat

VARIABLES
    Buffer, MaxNum, NumEntries,
    failed,         \* Error has ended the program
    call, out       \* the last call, and what it returned

vars == <<Buffer, MaxNum, NumEntries, failed, call, out>>

Init ==
    /\ Buffer = Null
    /\ MaxNum = 0 /\ NumEntries = 0
    /\ failed = FALSE
    /\ call = <<>> /\ out = Junk

Error == failed' = TRUE /\ UNCHANGED <<Buffer, MaxNum, NumEntries, out>>

\* All of the old block is copied, used or not.
ReAllocated(num) == Copied(New(num), 0, Buffer, 0, MaxNum)

Reserve(num) ==
    /\ call' = <<"Reserve", num>>
    /\ \/ num < 0 /\ Error
       \/ /\ num = 0
          /\ Buffer' = Null
          /\ MaxNum' = 0 /\ NumEntries' = 0
          /\ UNCHANGED <<failed, out>>
       \/ /\ num > 0 /\ num <= MaxNum
          /\ UNCHANGED <<Buffer, MaxNum, NumEntries, failed, out>>
       \/ /\ num > MaxNum /\ num > 0
          /\ Buffer' = ReAllocated(num)
          /\ MaxNum' = num
          /\ UNCHANGED <<NumEntries, failed, out>>

SetNum(num) ==
    LET block == IF num > MaxNum THEN ReAllocated(num) ELSE Buffer
    IN  /\ call' = <<"SetNum", num>>
        /\ \/ num < 0 /\ Error
           \/ /\ num >= 0
              /\ MaxNum' = IF num > MaxNum THEN num ELSE MaxNum
              /\ Buffer' = Filled(block, NumEntries, num - NumEntries, Zero)
              /\ NumEntries' = num
              /\ UNCHANGED <<failed, out>>

NewSize == MaxNum * 2 + Increment

\* obj is a reference to the block old at index k, or a value of the client.
Push(x, k, old) ==
    LET grow == NumEntries >= MaxNum
        size == IF grow THEN NewSize ELSE MaxNum
        block == IF grow THEN ReAllocated(size) ELSE Buffer
        obj == IF k \in DOMAIN old THEN old[k] ELSE x
    IN  /\ size <= Limit
        /\ Buffer' = [block EXCEPT ![NumEntries] = obj]
        /\ MaxNum' = size
        /\ NumEntries' = NumEntries + 1
        /\ out' = NumEntries
        /\ UNCHANGED failed

PushValue(x) == call' = <<"Push", x>> /\ Push(x, -1, Null)

\* list.Push(list[i])
PushOwn(i) ==
    /\ i \in 0 .. NumEntries - 1
    /\ call' = <<"Push", Buffer[i]>>
    /\ Push(Junk, i, Buffer)

Pop ==
    /\ call' = <<"Pop">>
    /\ \/ NumEntries <= 0 /\ Error
       \/ /\ NumEntries > 0
          /\ out' = Buffer[NumEntries - 1]
          /\ NumEntries' = NumEntries - 1
          /\ UNCHANGED <<Buffer, MaxNum, failed>>

\* list[i], read by the client
At(i) ==
    /\ call' = <<"[]", i>>
    /\ \/ i \notin 0 .. NumEntries - 1 /\ Error
       \/ /\ i \in 0 .. NumEntries - 1
          /\ out' = Buffer[i]
          /\ UNCHANGED <<Buffer, MaxNum, NumEntries, failed>>

\* list[i] = x
Assign(i, x) ==
    /\ call' = <<"[]=", i, x>>
    /\ \/ i \notin 0 .. NumEntries - 1 /\ Error
       \/ /\ i \in 0 .. NumEntries - 1
          /\ Buffer' = [Buffer EXCEPT ![i] = x]
          /\ UNCHANGED <<MaxNum, NumEntries, failed, out>>

Next ==
    /\ ~failed
    /\ \/ \E num \in -1 .. Limit : Reserve(num) \/ SetNum(num)
       \/ \E x \in Values : PushValue(x)
       \/ \E i \in 0 .. Limit : PushOwn(i)
       \/ Pop
       \/ \E i \in -1 .. Limit : At(i) \/ \E x \in Values : Assign(i, x)
-----------------------------------------------------------------------------
TypeOK ==
    /\ MaxNum \in Nat /\ NumEntries \in 0 .. MaxNum
    /\ Buffer \in [0 .. MaxNum-1 -> Values \cup {Zero, Junk}]
    /\ failed \in BOOLEAN

Contents == [i \in 1 .. NumEntries |-> Buffer[i - 1]]

\* DynamicArray is the sequence of what was pushed, popped and assigned, with
\* zeroes where SetNum made it longer, however often its block is replaced.
Abstract == INSTANCE Collection WITH
    items <- Contents, Values <- Values \cup {Zero},
    Capacity <- -1, Sizes <- 0 .. Limit

AbstractInit == Abstract!Empty
AbstractStep == failed' \/ Abstract!VectorNext(1)
=============================================================================
