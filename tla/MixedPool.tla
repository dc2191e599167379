----------------------------- MODULE MixedPool ------------------------------
(***************************************************************************)
(* MixedPool.cpp: a pool of objects of mixed size in one block, each found *)
(* by the offset Push returned.  What lies beyond DataSize must be zero:   *)
(* Push of a null pointer, SetDataSize and Align make it part of the data  *)
(* without writing it.                                                     *)
(***************************************************************************)
EXTENDS Memory

CONSTANTS
    Values, Zero,   \* the contents of a unit of memory
    MaxSize,        \* the largest object pushed
    Round,          \* a power of 2: blocks are a multiple of it
    AllocateSpace,
    Limit           \* bound on DataSize and on the number of pushes

Assumption ==
    /\ MaxSize \in Nat /\ Round \in Nat \ {0}
    /\ AllocateSpace \in Nat /\ Limit \in Nat

VARIABLES
    buffer, BufferSize, DataSize, NumEntries,
    failed, call, out

pool == <<buffer, BufferSize, DataSize, NumEntries>>
vars == <<pool, failed, call, out>>

Init ==
    /\ buffer = Null
    /\ NumEntries = 0 /\ DataSize = 0 /\ BufferSize = 0
    /\ failed = FALSE
    /\ call = <<>> /\ out = Junk

Error == failed' = TRUE /\ UNCHANGED <<pool, out>>

\* (size + 15) & (-16)
RoundedUp(size) == ((size + Round - 1) \div Round) * Round

\* A larger block: all zeroes, and the contents of the old block copied over.
Enlarged(size) ==
    Copied(Filled(New(size), 0, size, Zero), 0, buffer, 0, BufferSize)

\* The block after ReserveSize(size) for size > 0.
Reserved(size) ==
    IF size <= BufferSize THEN buffer ELSE Enlarged(RoundedUp(size))

ReservedSize(size) == IF size <= BufferSize THEN BufferSize ELSE RoundedUp(size)

ReserveSize(size) ==
    /\ call' = <<"Reserve", size>>
    /\ \/ size < 0 /\ Error
       \/ /\ size = 0
          /\ buffer' = Null
          /\ NumEntries' = 0 /\ DataSize' = 0 /\ BufferSize' = 0
          /\ UNCHANGED <<failed, out>>
       \/ /\ size > 0
          /\ buffer' = Reserved(size)
          /\ BufferSize' = ReservedSize(size)
          /\ UNCHANGED <<DataSize, NumEntries, failed, out>>

\* Where the data get smaller, what is erased becomes zero.
SetDataSize(size) ==
    LET larger == RoundedUp(size + AllocateSpace)
        block == IF size > BufferSize THEN Reserved(larger)
                 ELSE IF size < DataSize
                 THEN Filled(buffer, size, DataSize - size, Zero)
                 ELSE buffer
    IN  /\ call' = <<"SetDataSize", size>>
        /\ \/ size < 0 /\ Error
           \/ /\ size >= 0
              /\ buffer' = block
              /\ BufferSize' = IF size > BufferSize THEN ReservedSize(larger)
                               ELSE BufferSize
              /\ DataSize' = size
              /\ UNCHANGED <<NumEntries, failed, out>>

\* obj is size units of the block src from index k on; a null obj leaves what
\* lies beyond the data.  The old block is deleted after the copy.
Push(src, k, size) ==
    LET NewOffset == DataSize + size
        grow == NewOffset > BufferSize
        NewSize == RoundedUp(NewOffset * 2 + AllocateSpace)
        block == IF grow THEN Enlarged(NewSize) ELSE buffer
    IN  /\ NewOffset <= Limit /\ NumEntries < Limit
        /\ buffer' = IF src = Null THEN block
                     ELSE Copied(block, DataSize, src, k, size)
        /\ BufferSize' = IF grow THEN NewSize ELSE BufferSize
        /\ DataSize' = IF size > 0 THEN NewOffset ELSE DataSize
        /\ NumEntries' = IF size > 0 THEN NumEntries + 1 ELSE NumEntries
        /\ out' = DataSize
        /\ UNCHANGED failed

Units(src, k, size) == [j \in 1 .. size |-> src[k + j - 1]]

PushNull(size) ==
    call' = <<"Push", [j \in 1 .. size |-> Zero]>> /\ Push(Null, 0, size)

PushObject(obj, size) ==
    call' = <<"Push", Units(obj, 0, size)>> /\ Push(obj, 0, size)

\* pool.Push(&pool.Get<TX>(k), size)
PushOwn(k, size) ==
    /\ k + size <= DataSize
    /\ call' = <<"Push", Units(buffer, k, size)>>
    /\ Push(buffer, k, size)

Align(a) ==
    LET NewOffset == ((DataSize + a - 1) \div a) * a
        grow == NewOffset > BufferSize
        larger == NewOffset * 2 + AllocateSpace
    IN  /\ NewOffset <= Limit
        /\ call' = <<"Align", a>>
        /\ buffer' = IF grow THEN Reserved(larger) ELSE buffer
        /\ BufferSize' = IF grow THEN ReservedSize(larger) ELSE BufferSize
        /\ DataSize' = NewOffset
        /\ UNCHANGED <<NumEntries, failed, out>>

\* pool.Get<TX>(Offset) of an object of n units, read by the client: only its
\* first unit is checked, the others are the client's responsibility.
Get(Offset, n) ==
    /\ Offset + n <= DataSize \/ Offset >= DataSize
    /\ call' = <<"Get", Offset, n>>
    /\ \/ Offset >= DataSize /\ Error
       \/ /\ Offset < DataSize
          /\ out' = Units(buffer, Offset, n)
          /\ UNCHANGED <<pool, failed>>

\* pool.Get<TX>(Offset) = x
Assign(Offset, x) ==
    /\ call' = <<"[]=", Offset, x>>
    /\ \/ Offset >= DataSize /\ Error
       \/ /\ Offset < DataSize
          /\ buffer' = [buffer EXCEPT ![Offset] = x]
          /\ UNCHANGED <<BufferSize, DataSize, NumEntries, failed, out>>

Next ==
    /\ ~failed
    /\ \/ \E size \in -1 .. Limit : ReserveSize(size) \/ SetDataSize(size)
       \/ \E size \in 0 .. MaxSize : PushNull(size)
       \/ \E size \in 1 .. MaxSize, x \in Values : PushObject([j \in 0 .. size-1 |-> x], size)
       \/ \E k \in 0 .. Limit, size \in 1 .. MaxSize : PushOwn(k, size)
       \/ \E a \in 1 .. Limit : Align(a)
       \/ \E k \in 0 .. Limit, n \in 1 .. MaxSize : Get(k, n)
       \/ \E k \in 0 .. Limit, x \in Values : Assign(k, x)
-----------------------------------------------------------------------------
Contents == [i \in 1 .. DataSize |-> buffer[i - 1]]

\* The pool is the sequence of units pushed, with zeroes where nothing was
\* written, whatever lay there before it was erased.
Abstract == INSTANCE Collection WITH
    items <- Contents, Values <- Values \cup {Zero},
    Capacity <- -1, Sizes <- 0 .. Limit

AbstractInit == Abstract!Empty
AbstractStep ==
    \/ failed'
    \/ Abstract!PoolNext(UNION {[1 .. n -> Values \cup {Zero}] : n \in 0 .. MaxSize}, MaxSize)
=============================================================================
