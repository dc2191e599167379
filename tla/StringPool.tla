----------------------------- MODULE StringPool -----------------------------
(***************************************************************************)
(* StringPoolS.cpp: zero-terminated strings with an index each, packed     *)
(* into one buffer that is replaced by a larger one, without its garbage,  *)
(* when it is full.  An offset of 0 in Offsets is an empty string.  The    *)
(* state of a pool is a record, from which the private functions compute   *)
(* the next one; OldBuffer lives to the end of the call, so that a text of *)
(* the pool passed by pointer is still there to be copied.                 *)
(*                                                                         *)
(* StringPoolW.cpp (wide characters) and StringPoolL.cpp (a stored length) *)
(* follow the same lines: StringPoolW and StringPoolL instantiate this     *)
(* module and replace what they do differently.                            *)
(***************************************************************************)
EXTENDS Memory

CONSTANTS
    Texts, Chars,       \* what clients pass: texts (<<>> among them), characters
    Parts,              \* and positions and lengths of substrings
    Prefix,             \* the units before a text: 0, or those of its length
    AllocateSpace1, AllocateSpace2,
    FormatLength,       \* the length of Printf's temporary buffer, less one
    MaxIndex, MaxLen,   \* bounds: the highest index, the longest text asked for,
    Limit               \* and the size up to which a buffer is used

\* What the texts are made of.
Letters == Chars \cup UNION {{t[k] : k \in DOMAIN t} : t \in Texts}

Assumption ==
    /\ {Prefix, AllocateSpace1, AllocateSpace2, MaxLen} \subseteq Nat
    /\ Parts \subseteq Nat \X Nat
    /\ \A t \in Texts : t \in Seq(Letters)

VARIABLES
    pool,               \* Buffer, BufferSize, Offsets, OffsetsSize, DataSize,
                        \* GarbageSize, Top, Num: the members of the class
    failed,             \* Error has ended the program
    strings,            \* the text each index was last given
    spoilt              \* what has happened that the pool does not survive

Init ==
    /\ pool = [Buffer |-> NoBuffer, BufferSize |-> 0,
               Offsets |-> <<>>, OffsetsSize |-> 0,
               DataSize |-> 0, GarbageSize |-> 0, Top |-> 0, Num |-> 0]
    /\ failed = FALSE
    /\ strings = <<>>
    /\ spoilt = {}

\* Only what an offset refers to is ever read again.
Referred(p) ==
    [p EXCEPT !.Buffer = [k \in DOMAIN @ \cap ({0} \cup {p.Offsets[i] : i \in 0 .. p.Num-1})
                            |-> @[k]]]

Error == failed' = TRUE /\ UNCHANGED <<pool, strings, spoilt>>

Larger(n, m) == IF n < m THEN m ELSE n

\* The units a text of len characters takes up.
Size(len) == Prefix + len + 1

\* The text of index i, which is read at its offset.
Text(p, i) == TextAt(p.Buffer, p.Offsets[i])

\* ReserveNum: Offsets grow, and are zero where they are new.
ReserveNum(p, newsize) ==
    LET size == Larger(newsize, p.OffsetsSize * 2 + AllocateSpace2)
    IN  IF newsize <= p.OffsetsSize THEN p
        ELSE [p EXCEPT
                !.Offsets = [i \in 0 .. size-1 |->
                                IF i < p.OffsetsSize THEN p.Offsets[i] ELSE 0],
                !.OffsetsSize = size]

\* String i of p, if it is not empty, written behind what is in q.
Moved(p, i, q) ==
    LET t == Text(p, i)
    IN  IF p.BufferSize = 0 \/ p.Offsets[i] = 0 THEN q
        ELSE IF t = <<>> THEN [q EXCEPT !.Offsets[i] = 0]
        ELSE [q EXCEPT !.Buffer = Written(q.Buffer, q.DataSize, t, Prefix),
                       !.Offsets[i] = q.DataSize,
                       !.Top = q.DataSize,
                       !.DataSize = q.DataSize + Size(Len(t))]

\* ReserveBuf: the strings that are not empty move to a new buffer in the order
\* of their indices, behind the empty string at offset 0.
ReserveBuf(p, newsize) ==
    LET size == Larger(newsize, (p.DataSize - p.GarbageSize) * 2 + AllocateSpace1)
        moved[n \in 0 .. p.Num] ==
            IF n = 0
            THEN [p EXCEPT !.Buffer = Written(NoBuffer, 0, <<>>, Prefix),
                           !.DataSize = Size(0), !.Top = Size(0)]
            ELSE Moved(p, n-1, moved[n-1])
    IN  [moved[p.Num] EXCEPT !.BufferSize = size + Size(0), !.GarbageSize = 0]

\* Mutant: the place of the terminating zero is regarded as free.
InPlaceOrOneMore(p, i, len) ==
    p.Offsets[i] # 0 /\ p.Offsets[i] # p.Top /\ Len(Text(p, i)) + 1 >= len
InPlace(p, i, len) ==
    p.Offsets[i] # 0 /\ p.Offsets[i] # p.Top /\ Len(Text(p, i)) >= len
IsLast(p, i) == p.Offsets[i] # 0 /\ p.Offsets[i] = p.Top

\* Allocate: the pool with space for len characters for index i; the space is
\* where the result's "at" says.
Allocate(p, i, len) ==
    IF IsLast(p, i)
    THEN LET q == IF p.Top + Size(len) > p.BufferSize
                  THEN ReserveBuf(p, p.Top + Size(len)) ELSE p
         IN  [pool |-> [q EXCEPT !.DataSize = q.Top + Size(len)], at |-> q.Top]
    ELSE IF InPlace(p, i, len)
    THEN [pool |-> [p EXCEPT !.GarbageSize = @ + Len(Text(p, i)) - len],
          at |-> p.Offsets[i]]
    ELSE LET g == IF p.Offsets[i] = 0 THEN p
                  ELSE [p EXCEPT !.GarbageSize = @ + Size(Len(Text(p, i)))]
             q == IF g.DataSize + Size(len) > g.BufferSize
                  THEN ReserveBuf(g, g.DataSize + Size(len)) ELSE g
         IN  [pool |-> [q EXCEPT !.Offsets[i] = q.DataSize, !.Top = q.DataSize,
                                 !.DataSize = q.DataSize + Size(len)],
              at |-> q.DataSize]

\* What a pool does not survive.  moved: the last string outgrows the buffer
\* and ReserveBuf makes another string the last one.  cleared: after Clear the
\* first string goes where the empty string is.
Spoils(p, i, a) ==
    (IF IsLast(p, i) /\ a.pool.Offsets[i] # a.at THEN {"moved"} ELSE {})
    \cup (IF a.at = 0 THEN {"cleared"} ELSE {})

\* The index made valid, as at the beginning of Set.
WithIndex(p, i) ==
    IF i >= p.Num THEN ReserveNum([p EXCEPT !.Num = i + 1], i + 1) ELSE p

Erased(p, i) ==
    IF p.Offsets[i] = 0 THEN p
    ELSE [p EXCEPT !.GarbageSize = @ + Size(Len(Text(p, i))), !.Offsets[i] = 0]

\* The pool after Set(i, t).
SetIn(p, i, t) ==
    LET a == Allocate(p, i, Len(t))
    IN  IF t = <<>> THEN Erased(p, i)
        ELSE [a.pool EXCEPT !.Buffer = Written(@, a.at, t, Prefix)]

Assigned(i, t) ==
    strings' = [j \in 0 .. pool'.Num - 1 |->
                    IF j = i THEN t ELSE IF j < pool.Num THEN strings[j] ELSE <<>>]

\* Set(i, s): s is a text of the client or of the pool.
Store(i, t) ==
    LET p == WithIndex(pool, i)
    IN  /\ pool' = Referred(SetIn(p, i, t))
        /\ Assigned(i, t)
        /\ spoilt' = spoilt \cup
              (IF t = <<>> THEN {} ELSE Spoils(p, i, Allocate(p, i, Len(t))))
        /\ UNCHANGED failed

Set(i, t) ==
    /\ (i < 0 /\ Error) \/ (i >= 0 /\ Store(i, t))

\* Set(i, s, Len): s is a part of a text, of the string itself if own.  Where
\* the two overlap, what memcpy leaves there is undefined.
SetPart(i, part, start, own) ==
    LET p == WithIndex(pool, i)
        overlaps == own /\ 0 < start /\ start < Len(part)
        copied == IF overlaps THEN [part EXCEPT ![Len(part)] = Junk] ELSE part
    IN  /\ pool' = Referred(SetIn(p, i, copied))
        /\ Assigned(i, part)
        /\ spoilt' = spoilt
              \cup (IF overlaps THEN {"overlap"} ELSE {})
              \cup (IF part = <<>> THEN {}
                    ELSE Spoils(p, i, Allocate(p, i, Len(part))))
        /\ UNCHANGED failed

\* strings[i].SetToSubstring(t, start, len): t is a text of the client or of the
\* pool, of the string itself if own.
SetToSubstring(i, t, own, start, len) ==
    \/ (start + len > Len(t) \/ start < 0 \/ len < 0) /\ Error
    \/ /\ start + len <= Len(t) /\ start >= 0 /\ len >= 0
       /\ SetPart(i, SubSeq(t, start + 1, start + len), start, own)

\* strings[i] += s.  Where s is the string itself and stays in its place, its
\* terminating zero is overwritten before it is copied.
Concatenate(i, t, own) ==
    LET old == Text(pool, i)
        a == Allocate(pool, i, Len(old) + Len(t))
        overlaps == own /\ a.at = pool.Offsets[i]
                    /\ a.pool.BufferSize = pool.BufferSize
        copied == IF overlaps THEN old \o t \o <<Junk>> ELSE old \o t
    IN  /\ \/ t = <<>> /\ UNCHANGED <<pool, failed, strings, spoilt>>
           \/ t # <<>> /\ i \notin 0 .. pool.Num-1 /\ Error
           \/ t # <<>> /\ i \in 0 .. pool.Num-1 /\ pool.Offsets[i] = 0 /\ Store(i, t)
           \/ /\ t # <<>> /\ i \in 0 .. pool.Num-1 /\ pool.Offsets[i] # 0
              /\ Len(strings[i]) + Len(t) <= MaxLen
              /\ pool' = Referred([a.pool EXCEPT !.Buffer = Written(@, a.at, copied, Prefix)])
              /\ Assigned(i, strings[i] \o t)
              /\ spoilt' = spoilt \cup Spoils(pool, i, a)
                                  \cup (IF overlaps THEN {"overlap"} ELSE {})
              /\ UNCHANGED failed

\* strings[i].Printf: vsnprintf is told one character too few, and a text that
\* just fits into strbuf loses its last character.
Printf(i, t) ==
    LET p == WithIndex(pool, i)
        shown == IF Len(t) = FormatLength THEN SubSeq(t, 1, Len(t) - 1) ELSE t
    IN  /\ \/ Len(t) > FormatLength /\ Error
           \/ /\ Len(t) <= FormatLength
              /\ pool' = Referred(SetIn(p, i, shown))
              /\ Assigned(i, t)
              /\ spoilt' = spoilt
                    \cup (IF shown # t THEN {"format"} ELSE {})
                    \cup (IF shown = <<>> THEN {} ELSE Spoils(p, i, Allocate(p, i, Len(shown))))
              /\ UNCHANGED failed

\* Get(i), as Write and the conversion to a pointer use it.  Without a buffer
\* the pointer is null: reading through it may end the program.
Get(i) ==
    /\ \/ i \notin 0 .. pool.Num-1 /\ Error
       \/ i \in 0 .. pool.Num-1 /\ pool.BufferSize = 0 /\ Error
       \/ i \in 0 .. pool.Num-1 /\ UNCHANGED <<pool, failed, strings, spoilt>>

\* strings[i][k] = c
SetChar(i, k, c) ==
    /\ \/ (i \notin 0 .. pool.Num-1 \/ pool.BufferSize = 0) /\ Error
       \/ /\ i \in 0 .. pool.Num-1 /\ pool.BufferSize > 0
          /\ k \notin 0 .. Len(Text(pool, i)) - 1
          /\ Error
       \/ /\ i \in 0 .. pool.Num-1 /\ pool.BufferSize > 0
          /\ k \in 0 .. Len(Text(pool, i)) - 1
          /\ pool' = [pool EXCEPT !.Buffer[pool.Offsets[i]] = WithChar(@, k, c)]
          /\ Assigned(i, WithChar(strings[i], k, c))
          /\ UNCHANGED <<failed, spoilt>>

\* Clear: the buffer stays, and is regarded as empty.  What is written next
\* will be at offset 0.
Clear ==
    /\ pool' = [pool EXCEPT
                  !.Offsets = [i \in DOMAIN @ |-> IF i < pool.Num THEN 0 ELSE @[i]],
                  !.DataSize = 0, !.GarbageSize = 0]
    /\ strings' = [i \in 0 .. pool.Num-1 |-> <<>>]
    /\ spoilt' = IF TextAt(pool.Buffer, 0) = <<>> \/ pool.BufferSize = 0
                 THEN spoilt ELSE spoilt \cup {"cleared"}
    /\ UNCHANGED failed

\* The client reserves space beforehand.
Reserve(n) ==
    /\ \/ pool' = ReserveNum(pool, n)
       \/ pool' = ReserveBuf(pool, n)
    /\ UNCHANGED <<failed, strings, spoilt>>

\* The texts clients pass: their own, or one of the pool's.
Sources == {[own |-> -1, text |-> t] : t \in Texts}
    \cup {[own |-> j, text |-> Text(pool, j)] :
            j \in IF pool.BufferSize = 0 THEN {} ELSE 0 .. pool.Num-1}

Next ==
    /\ ~failed /\ spoilt = {} /\ pool.BufferSize <= Limit
    /\ \/ \E s \in Sources, i \in -1 .. MaxIndex :
             \/ Set(i, s.text)
             \/ i >= 0 /\ Concatenate(i, s.text, s.own = i)
             \/ i >= 0 /\ Printf(i, s.text)
             \/ \E part \in Parts :
                   i >= 0 /\ SetToSubstring(i, s.text, s.own = i, part[1], part[2])
       \/ \E i \in 0 .. MaxIndex : Get(i)
       \/ \E i \in 0 .. MaxIndex, k \in 0 .. 1, c \in Chars : SetChar(i, k, c)
       \/ Reserve(MaxLen)
       \/ Clear
-----------------------------------------------------------------------------
Kept == \A i \in 0 .. pool.Num-1 : pool.BufferSize > 0 => Text(pool, i) = strings[i]

\* Every index reads back the text it was last given, whatever was assigned,
\* appended, erased, reserved and moved since, and by which index it was passed;
\* the strings are apart, within the used part of the buffer.
StringsKept ==
    spoilt = {} =>
        /\ Kept
        /\ pool.DataSize <= pool.BufferSize
        /\ \A i \in 0 .. pool.Num-1 : pool.Offsets[i] # 0 =>
              pool.Offsets[i] + Size(Len(Text(pool, i))) <= pool.DataSize

\* StringPoolS.cpp:69: "All strings should be identified by their index".
FoundByIndex == spoilt \subseteq {"moved"} => Kept
=============================================================================
