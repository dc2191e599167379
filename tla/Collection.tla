----------------------------- MODULE Collection -----------------------------
(***************************************************************************)
(* What the array, queue and stack templates promise: an object holds a    *)
(* sequence of items, and each call does to the sequence what its name     *)
(* says and returns what it says.  call is the last call with its          *)
(* arguments as the caller saw them, out is what it returned.              *)
(***************************************************************************)
EXTENDS Integers, Sequences

CONSTANTS
    Values, Zero,
    Capacity,       \* where an object that is full refuses more
    Sizes           \* the sizes clients ask for

VARIABLES items, call, out

vars == <<items, call, out>>

\* The item the caller passes may be a value of its own or the i-th item of the
\* same object, passed by reference; either way it is x that must be stored.
Add(name, x, result) ==
    /\ call' = <<name, x>>
    /\ items' = Append(items, x)
    /\ out' = result

AddAll(name, xs, result) ==
    /\ call' = <<name, xs>>
    /\ items' = items \o xs
    /\ out' = result

Refuse(name, x) ==
    /\ Len(items) = Capacity
    /\ call' = <<name, x>>
    /\ out' = FALSE
    /\ UNCHANGED items

TakeFirst(name) ==
    /\ items # <<>>
    /\ call' = <<name>>
    /\ out' = Head(items)
    /\ items' = Tail(items)

TakeLast(name) ==
    /\ items # <<>>
    /\ call' = <<name>>
    /\ out' = items[Len(items)]
    /\ items' = SubSeq(items, 1, Len(items) - 1)

\* Reserve(0) discards all items; any other reservation keeps them.
Reserve(n) ==
    /\ call' = <<"Reserve", n>>
    /\ items' = IF n = 0 THEN <<>> ELSE items
    /\ UNCHANGED out

\* "Setting num > NumEntries is equivalent to pushing (num - NumEntries)
\* objects with zero contents", setting num < NumEntries erases the others.
Resize(name, arg, n) ==
    /\ call' = <<name, arg>>
    /\ items' = [k \in 1..n |-> IF k <= Len(items) THEN items[k] ELSE Zero]
    /\ UNCHANGED out

Fetch(i) ==
    /\ call' = <<"[]", i>>
    /\ out' = items[i + 1]
    /\ UNCHANGED items

FetchVector(i, n) ==
    /\ i + n <= Len(items)
    /\ call' = <<"Vect", i>>
    /\ out' = SubSeq(items, i + 1, i + n)
    /\ UNCHANGED items

Read(i, n) ==
    /\ i + n <= Len(items)
    /\ call' = <<"Get", i, n>>
    /\ out' = SubSeq(items, i + 1, i + n)
    /\ UNCHANGED items

Assign(i, x) ==
    /\ call' = <<"[]=", i, x>>
    /\ items' = [items EXCEPT ![i + 1] = x]
    /\ UNCHANGED out

-----------------------------------------------------------------------------
Empty == items = <<>>

\* A queue whose Put returns the given result.
QueueNext(result) ==
    \/ \E x \in Values : Add("Put", x, result)
    \/ \E x \in Values : Refuse("Put", x)
    \/ TakeFirst("Get")
    \/ \E n \in Sizes : Reserve(n)
    \/ \E i \in 0 .. Len(items) - 1 : Fetch(i)

StackNext ==
    \/ \E x \in Values : Add("Put", x, TRUE) \/ Refuse("Put", x)
    \/ TakeLast("Get")

VectorNext(perVector) ==
    \/ \E x \in Values : Add("Push", x, Len(items))
    \/ TakeLast("Pop")
    \/ \E n \in Sizes : Reserve(n) \/ Resize("SetNum", n, n)
    \/ \E i \in 0 .. Len(items) - 1 :
          \/ Fetch(i) \/ FetchVector(i, perVector)
          \/ \E x \in Values : Assign(i, x)

\* Objects of mixed size, in units of memory; null pushes zeroes.
PoolNext(Objects, maxSize) ==
    \/ \E xs \in Objects : AddAll("Push", xs, Len(items))
    \/ \E n \in Sizes : Reserve(n) \/ Resize("SetDataSize", n, n)
    \/ \E a \in Sizes \ {0} : Resize("Align", a, ((Len(items) + a - 1) \div a) * a)
    \/ \E i \in 0 .. Len(items) - 1 :
          \/ \E n \in 1 .. maxSize : Read(i, n)
          \/ \E x \in Values : Assign(i, x)
=============================================================================
