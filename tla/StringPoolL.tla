---------------------------- MODULE StringPoolL -----------------------------
(***************************************************************************)
(* StringPoolL.cpp: the length of a string is stored before it, as a       *)
(* number of type LengthType.  Buffers are laid out and replaced as in     *)
(* StringPoolS, with Prefix units more for each string; what is read is    *)
(* the stored length, and a text whose length LengthType cannot hold has   *)
(* another one stored.                                                     *)
(***************************************************************************)
EXTENDS Integers, Sequences

CONSTANTS Junk, Texts, Chars, Parts, AllocateSpace1, AllocateSpace2,
          FormatLength, MaxIndex, MaxLen, Limit,
          Prefix, LengthMax     \* sizeof(LengthType), (LengthType)(-1)

VARIABLES pool, failed, strings, spoilt

Pool == INSTANCE StringPool

Init == Pool!Init
Error == Pool!Error
Clear == Pool!Clear
ReserveNum(p, newsize) == Pool!ReserveNum(p, newsize)
ReserveBuf(p, newsize) == Pool!ReserveBuf(p, newsize)

\* Get(i): without a buffer the pointer is that of no string.
Get(i) ==
    \/ (i \notin 0 .. pool.Num-1 \/ pool.BufferSize = 0) /\ Error
    \/ i \in 0 .. pool.Num-1 /\ pool.BufferSize > 0 /\ UNCHANGED <<pool, failed, strings, spoilt>>

\* Len(i) can be read: the index is in range, and there is a buffer.
HasLen(i) == i \in 0 .. pool.Num-1 /\ pool.BufferSize > 0
StoredLen(len) == len % (LengthMax + 1)

Set(i, t) ==
    \/ i >= 0 /\ Len(t) > LengthMax /\ Error
    \/ (i < 0 \/ Len(t) <= LengthMax) /\ Pool!Set(i, t)

\* Set(i, s, len) stores the length of any text, and so does Concatenate: a
\* length that LengthType does not hold is remembered as another one.
SetPart(i, part, start, own) ==
    \/ StoredLen(Len(part)) = Len(part) /\ Pool!SetPart(i, part, start, own)
    \/ /\ StoredLen(Len(part)) # Len(part)
       /\ spoilt' = spoilt \cup {"length"}
       /\ UNCHANGED <<pool, failed, strings>>

SetToSubstring(i, t, own, start, len) ==
    \/ start + len > Len(t) /\ Error
    \/ start + len <= Len(t) /\ SetPart(i, SubSeq(t, start + 1, start + len), start, own)

\* strings[i] += s reads Len(i) before it looks at the index and at s.
Concatenate(i, t, own) ==
    LET sum == pool.Offsets[i] # 0 /\ StoredLen(Len(Pool!Text(pool, i)) + Len(t))
                                        # Len(Pool!Text(pool, i)) + Len(t)
    IN  \/ ~HasLen(i) /\ Error
        \/ HasLen(i) /\ Len(t) > LengthMax /\ Error
        \/ HasLen(i) /\ Len(t) <= LengthMax /\ ~sum /\ Pool!Concatenate(i, t, own)
        \/ /\ HasLen(i) /\ Len(t) <= LengthMax /\ sum
           /\ spoilt' = spoilt \cup {"length"}
           /\ UNCHANGED <<pool, failed, strings>>

\* strings[i].Printf: vsnprintf is told one character too few.
Printf(i, t) ==
    \/ Len(t) > FormatLength /\ Error
    \/ Len(t) = FormatLength /\ Pool!Printf(i, t)
    \/ Len(t) < FormatLength /\ Set(i, t)

SetChar(i, k, c) == Pool!SetChar(i, k, c)

Reserve(n) ==
    /\ \/ pool' = ReserveNum(pool, n)
       \/ pool' = ReserveBuf(pool, n)
    /\ UNCHANGED <<failed, strings, spoilt>>

Next ==
    /\ ~failed /\ spoilt = {} /\ pool.BufferSize <= Limit
    /\ \/ \E s \in Pool!Sources, i \in -1 .. MaxIndex :
             \/ Set(i, s.text)
             \/ Concatenate(i, s.text, s.own = i)
             \/ i >= 0 /\ Printf(i, s.text)
             \/ \E part \in Parts :
                   i >= 0 /\ SetToSubstring(i, s.text, s.own = i, part[1], part[2])
       \/ \E i \in 0 .. MaxIndex : Get(i)
       \/ \E i \in 0 .. MaxIndex, k \in 0 .. 1, c \in Chars : SetChar(i, k, c)
       \/ Reserve(MaxLen)
       \/ Clear
=============================================================================
