---------------------------- MODULE DynamicQueue ----------------------------
(***************************************************************************)
(* DynamicQueue.cpp: a first-in-first-out queue in a ring buffer that is   *)
(* replaced by a larger one when it is full.  What is put may be an object *)
(* of the queue itself, passed by reference.  OldBuffer is null between    *)
(* calls: the old block lives from ReAllocate to the end of the call.      *)
(***************************************************************************)
EXTENDS Memory

CONSTANTS
    Values,         \* the objects clients put into the queue
    Increment,      \* the number of objects AllocateSpace bytes hold
    Limit           \* bound: the largest buffer that is asked for

Assumption ==
    /\ Junk \notin Values
    /\ Increment \in Nat \ {0}
    /\ Limit \in Nat

VARIABLES
    Buffer, head, tail, MaxNum, NumEntries,
    failed,         \* Error has ended the program
    call, out       \* the last call, and what it returned

vars == <<Buffer, head, tail, MaxNum, NumEntries, failed, call, out>>

Init ==
    /\ Buffer = Null
    /\ MaxNum = 0 /\ NumEntries = 0 /\ head = 0 /\ tail = 0
    /\ failed = FALSE
    /\ call = <<>> /\ out = Junk

Error ==
    /\ failed' = TRUE
    /\ UNCHANGED <<Buffer, head, tail, MaxNum, NumEntries, out>>

\* The place of the i-th object from the tail.
Slot(i) == IF i + tail >= MaxNum THEN i + tail - MaxNum ELSE i + tail

\* The contents of the new buffer: the queue, unwrapped.
ReAllocated(num) ==
    IF Buffer = Null THEN New(num)
    ELSE IF tail < head
    THEN Copied(New(num), 0, Buffer, tail, NumEntries)
    ELSE IF NumEntries > 0
    THEN Copied(Copied(New(num), 0, Buffer, tail, MaxNum - tail),
                MaxNum - tail, Buffer, 0, head)
    ELSE New(num)

\* head and tail after it; they are left alone where there was no buffer.
HeadAfter == IF Buffer = Null THEN head ELSE NumEntries

\* Mutant: tail is not reset when the queue is unwrapped.
TailAfterKept == tail
TailAfter == IF Buffer = Null THEN tail ELSE 0

Reserve(num) ==
    /\ call' = <<"Reserve", num>>
    /\ \/ num < 0 /\ Error
       \/ /\ num = 0
          /\ Buffer' = Null
          /\ MaxNum' = 0 /\ NumEntries' = 0 /\ head' = 0 /\ tail' = 0
          /\ UNCHANGED <<failed, out>>
       \/ /\ num > 0 /\ num <= MaxNum
          /\ UNCHANGED <<Buffer, head, tail, MaxNum, NumEntries, failed, out>>
       \/ /\ num > MaxNum /\ num > 0
          /\ Buffer' = ReAllocated(num)
          /\ head' = HeadAfter /\ tail' = TailAfter
          /\ MaxNum' = num
          /\ UNCHANGED <<NumEntries, failed, out>>

NewSize == MaxNum * 2 + Increment

\* obj is a reference to the block old at index k, or a value of the client.
Put(x, k, old) ==
    LET grow == NumEntries >= MaxNum
        size == IF grow THEN NewSize ELSE MaxNum
        block == IF grow THEN ReAllocated(size) ELSE Buffer
        h == IF grow THEN HeadAfter ELSE head
        obj == IF k \in DOMAIN old THEN old[k] ELSE x
    IN  /\ size <= Limit
        /\ Buffer' = [block EXCEPT ![h] = obj]
        /\ MaxNum' = size
        /\ head' = IF h + 1 >= size THEN 0 ELSE h + 1
        /\ tail' = IF grow THEN TailAfter ELSE tail
        /\ NumEntries' = NumEntries + 1
        /\ UNCHANGED <<failed, out>>

PutValue(x) == call' = <<"Put", x>> /\ Put(x, -1, Null)

\* queue.Put(queue[i])
PutOwn(i) ==
    /\ i \in 0 .. NumEntries - 1
    /\ call' = <<"Put", Buffer[Slot(i)]>>
    /\ Put(Junk, Slot(i), Buffer)

\* Mutant: tail is wrapped around one place too late.
GetWrappedLate ==
    /\ call' = <<"Get">>
    /\ \/ NumEntries <= 0 /\ Error
       \/ /\ NumEntries > 0
          /\ out' = Buffer[tail]
          /\ tail' = IF tail + 1 > MaxNum THEN 0 ELSE tail + 1
          /\ NumEntries' = NumEntries - 1
          /\ UNCHANGED <<Buffer, head, MaxNum, failed>>

Get ==
    /\ call' = <<"Get">>
    /\ \/ NumEntries <= 0 /\ Error
       \/ /\ NumEntries > 0
          /\ out' = Buffer[tail]
          /\ tail' = IF tail + 1 >= MaxNum THEN 0 ELSE tail + 1
          /\ NumEntries' = NumEntries - 1
          /\ UNCHANGED <<Buffer, head, MaxNum, failed>>

\* queue[i], read by the client
At(i) ==
    /\ call' = <<"[]", i>>
    /\ \/ i \notin 0 .. NumEntries - 1 /\ Error
       \/ /\ i \in 0 .. NumEntries - 1
          /\ out' = Buffer[Slot(i)]
          /\ UNCHANGED <<Buffer, head, tail, MaxNum, NumEntries, failed>>

Next ==
    /\ ~failed
    /\ \/ \E num \in -1 .. Limit : Reserve(num)
       \/ \E x \in Values : PutValue(x)
       \/ \E i \in 0 .. Limit : PutOwn(i)
       \/ Get
       \/ \E i \in -1 .. Limit : At(i)

Spec == Init /\ [][Next]_vars
-----------------------------------------------------------------------------
TypeOK ==
    /\ MaxNum \in Nat /\ NumEntries \in 0 .. MaxNum
    /\ Buffer \in [0 .. MaxNum-1 -> Values \cup {Junk}]
    /\ head \in 0 .. MaxNum /\ tail \in 0 .. MaxNum
    /\ MaxNum > 0 => head < MaxNum /\ tail < MaxNum
    /\ failed \in BOOLEAN

\* The objects in the queue, from tail to head.
Contents == [i \in 1 .. NumEntries |-> Buffer[Slot(i - 1)]]

\* DynamicQueue is a queue of what was put into it, however often it wraps
\* around and is replaced, until a wrong call ends the program.
Abstract == INSTANCE Collection WITH
    items <- Contents, Zero <- Junk, Capacity <- -1, Sizes <- 0 .. Limit

AbstractInit == Abstract!Empty
AbstractStep == failed' \/ Abstract!QueueNext(out)

ImplementsQueue == AbstractInit /\ [][AbstractStep]_vars
=============================================================================
