---------------------------- MODULE AlignedArray ----------------------------
(***************************************************************************)
(* AlignedArray.cpp: an array at an address divisible by AlignBy, read     *)
(* object by object or a vector at a time.  An object takes one unit of    *)
(* memory and a vector AlignBy of them.  bufferU is where new[] put the    *)
(* block, bufferA the aligned address within it.                           *)
(***************************************************************************)
EXTENDS Memory

CONSTANTS
    Values, Zero,
    AlignBy,        \* objects to a vector: a power of 2
    Limit           \* bound: the largest size that is asked for

Assumption == AlignBy \in Nat \ {0} /\ Limit \in Nat

VARIABLES
    block,          \* the memory of the array: addresses to objects
    bufferU, bufferA, MaxNum, NumEntries,
    failed, call, out

buffers == <<block, bufferU, bufferA, MaxNum, NumEntries>>
vars == <<buffers, failed, call, out>>

Init ==
    /\ block = Null /\ bufferU = 0 /\ bufferA = 0
    /\ MaxNum = 0 /\ NumEntries = 0
    /\ failed = FALSE
    /\ call = <<>> /\ out = Junk

Error == failed' = TRUE /\ UNCHANGED <<buffers, out>>

\* b = u + AlignBy - 1;  i &= -AlignBy
Aligned(u) == ((u + AlignBy - 1) \div AlignBy) * AlignBy

\* new char[num*sizeof(TX)+AlignBy-1] at u
Allocated(u, num) == [k \in u .. u + num + AlignBy - 2 |-> Junk]

Moved(u, num) ==
    Copied(Allocated(u, num), Aligned(u), block, bufferA, NumEntries)

\* Where new[] puts a block is up to the library: u stands for any address
\* that leaves the same remainder.
Reserve(num) ==
    /\ call' = <<"Reserve", num>>
    /\ \/ num < 0 /\ Error
       \/ /\ num = 0
          /\ block' = Null /\ bufferU' = 0 /\ bufferA' = 0
          /\ MaxNum' = 0 /\ NumEntries' = 0
          /\ UNCHANGED <<failed, out>>
       \/ /\ num > 0 /\ num <= MaxNum
          /\ UNCHANGED <<buffers, failed, out>>
       \/ /\ num > MaxNum /\ num > 0
          /\ \E u \in AlignBy .. 2 * AlignBy - 1 :
                /\ block' = Moved(u, num)
                /\ bufferU' = u /\ bufferA' = Aligned(u)
          /\ MaxNum' = num
          /\ UNCHANGED <<NumEntries, failed, out>>

SetNum(num) ==
    LET zeroes == num - NumEntries
    IN  /\ call' = <<"SetNum", num>>
        /\ \/ num < 0 /\ Error
           \/ /\ num >= 0
              /\ \/ /\ num > MaxNum
                    /\ \E u \in AlignBy .. 2 * AlignBy - 1 :
                          /\ block' = Filled(Moved(u, num), Aligned(u) + NumEntries,
                                             zeroes, Zero)
                          /\ bufferU' = u /\ bufferA' = Aligned(u)
                    /\ MaxNum' = num
                 \/ /\ num <= MaxNum
                    /\ block' = Filled(block, bufferA + NumEntries, zeroes, Zero)
                    /\ UNCHANGED <<bufferU, bufferA, MaxNum>>
              /\ NumEntries' = num
              /\ UNCHANGED <<failed, out>>

\* array[i], read by the client
At(i) ==
    /\ call' = <<"[]", i>>
    /\ \/ i \notin 0 .. NumEntries - 1 /\ Error
       \/ /\ i \in 0 .. NumEntries - 1
          /\ out' = block[bufferA + i]
          /\ UNCHANGED <<buffers, failed>>

\* array[i] = x
Assign(i, x) ==
    /\ call' = <<"[]=", i, x>>
    /\ \/ i \notin 0 .. NumEntries - 1 /\ Error
       \/ /\ i \in 0 .. NumEntries - 1
          /\ block' = [block EXCEPT ![bufferA + i] = x]
          /\ UNCHANGED <<bufferU, bufferA, MaxNum, NumEntries, failed, out>>

\* array.Vect(i), loaded by the client: the processor faults where the address
\* is not divisible by the size of the vector.
Vect(i) ==
    /\ call' = <<"Vect", i>>
    /\ \/ (i % AlignBy # 0 \/ i < 0 \/ AlignBy - 1 + i >= NumEntries) /\ Error
       \/ /\ i % AlignBy = 0 /\ i >= 0 /\ AlignBy - 1 + i < NumEntries
          /\ out' = IF (bufferA + i) % AlignBy = 0
                    THEN [k \in 1 .. AlignBy |-> block[bufferA + i + k - 1]]
                    ELSE Junk
          /\ UNCHANGED <<buffers, failed>>

Next ==
    /\ ~failed
    /\ \/ \E num \in -1 .. Limit : Reserve(num) \/ SetNum(num)
       \/ \E i \in -1 .. Limit : At(i) \/ Vect(i) \/ \E x \in Values : Assign(i, x)
-----------------------------------------------------------------------------
Contents == [i \in 1 .. NumEntries |-> block[bufferA + i - 1]]

\* AlignedArray is a sequence of fixed objects, zero where SetNum made it
\* longer, wherever its blocks come to lie.
Abstract == INSTANCE Collection WITH
    items <- Contents, Values <- Values \cup {Zero},
    Capacity <- -1, Sizes <- 0 .. Limit

AbstractInit == Abstract!Empty
AbstractStep == failed' \/ Abstract!VectorNext(AlignBy)
=============================================================================
