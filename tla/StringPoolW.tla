---------------------------- MODULE StringPoolW -----------------------------
(***************************************************************************)
(* StringPoolW.cpp: strings of wide characters.  The functions are those   *)
(* of StringPoolS, in units of wchar_t; only Printf differs.               *)
(***************************************************************************)
EXTENDS Integers, Sequences

CONSTANTS Junk, Texts, Chars, Parts, AllocateSpace1, AllocateSpace2,
          FormatLength, MaxIndex, MaxLen, Limit

VARIABLES pool, failed, strings, spoilt

Pool == INSTANCE StringPool WITH Prefix <- 0

Init == Pool!Init
Error == Pool!Error
ResizeNum(p, newsize) == Pool!ReserveNum(p, newsize)
ResizeBuf(p, newsize) == Pool!ReserveBuf(p, newsize)
Set(i, t) == Pool!Set(i, t)
SetPart(i, part, start, own) == Pool!SetPart(i, part, start, own)
Concatenate(i, t, own) == Pool!Concatenate(i, t, own)
Get(i) == Pool!Get(i)
SetChar(i, k, c) == Pool!SetChar(i, k, c)
Clear == Pool!Clear

SetToSubstring(i, t, own, start, len) ==
    \/ (start + len > Len(t) \/ start < 0 \/ len < 0) /\ Error
    \/ /\ start + len <= Len(t) /\ start >= 0 /\ len >= 0
       /\ SetPart(i, SubSeq(t, start + 1, start + len), start, own)

\* strings[i].Printf: _vsnwprintf fills strbuf up to FormatLength characters,
\* and the zero behind them is written afterwards.  A longer text is -1, which
\* is an error when it is unsigned.
Printf(i, t) ==
    \/ Len(t) > FormatLength /\ Error
    \/ Len(t) <= FormatLength /\ Set(i, t)

Resize(n) ==
    /\ \/ pool' = ResizeNum(pool, n)
       \/ pool' = ResizeBuf(pool, n)
    /\ UNCHANGED <<failed, strings, spoilt>>

Next ==
    /\ ~failed /\ spoilt = {} /\ pool.BufferSize <= Limit
    /\ \/ \E s \in Pool!Sources, i \in -1 .. MaxIndex :
             \/ Set(i, s.text)
             \/ i >= 0 /\ Concatenate(i, s.text, s.own = i)
             \/ i >= 0 /\ Printf(i, s.text)
             \/ \E part \in Parts :
                   i >= 0 /\ SetToSubstring(i, s.text, s.own = i, part[1], part[2])
       \/ \E i \in 0 .. MaxIndex : Get(i)
       \/ \E i \in 0 .. MaxIndex, k \in 0 .. 1, c \in Chars : SetChar(i, k, c)
       \/ Resize(MaxLen)
       \/ Clear
=============================================================================
