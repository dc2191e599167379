-------------------------- MODULE Containers_proofs --------------------------
(***************************************************************************)
(* The containers of optimization-examples are the collections that        *)
(* Collection describes, for every set of values and every size of their   *)
(* blocks.                                                                 *)
(***************************************************************************)
EXTENDS Containers, SequenceTheorems, TLAPS

-----------------------------------------------------------------------------
(* Sequences given by their entries.                                       *)

LEMMA SequenceOf ==
  ASSUME NEW S, NEW n \in Nat, NEW f \in [1 .. n -> S]
  PROVE  f \in Seq(S) /\ Len(f) = n
OBVIOUS

LEMMA SameSequence ==
  ASSUME NEW S, NEW n \in Nat, NEW f \in [1 .. n -> S], NEW g \in Seq(S), Len(g) = n,
         \A i \in 1 .. n : g[i] = f[i]
  PROVE  f = g
BY SequenceOf, SeqEqual

LEMMA Appended ==
  ASSUME NEW S, NEW n \in Nat, NEW f \in [1 .. n -> S], NEW g \in [1 .. n+1 -> S],
         \A i \in 1 .. n : g[i] = f[i]
  PROVE  g = Append(f, g[n+1])
<1> DEFINE x == g[n+1]
<1>1. f \in Seq(S) /\ Len(f) = n /\ x \in S
  BY SequenceOf
<1>2. /\ Append(f, x) \in Seq(S) /\ Len(Append(f, x)) = n+1
      /\ Append(f, x)[n+1] = x /\ \A i \in 1 .. n : Append(f, x)[i] = f[i]
  BY <1>1
<1>3. \A i \in 1 .. n+1 : i \in 1 .. n \/ i = n+1
  OBVIOUS
<1> QED
  BY <1>2, <1>3, SameSequence

LEMMA TailOf ==
  ASSUME NEW S, NEW n \in Nat \ {0}, NEW f \in [1 .. n -> S], NEW g \in [1 .. n-1 -> S],
         \A i \in 1 .. n-1 : g[i] = f[i+1]
  PROVE  f # <<>> /\ Head(f) = f[1] /\ g = Tail(f)
<1>1. f \in Seq(S) /\ Len(f) = n /\ f # <<>>
  BY SequenceOf
<1>2. /\ Head(f) = f[1] /\ Tail(f) \in Seq(S) /\ Len(Tail(f)) = n-1
      /\ \A i \in 1 .. n-1 : Tail(f)[i] = f[i+1]
  BY <1>1, HeadTailProperties
<1> QED
  BY <1>1, <1>2, SameSequence

\* Part of a sequence: also none of it.
LEMMA PartOf ==
  ASSUME NEW S, NEW n \in Nat, NEW f \in [1 .. n -> S], NEW i \in Nat, NEW k \in Nat, i + k <= n,
         NEW g \in [1 .. k -> S], \A j \in 1 .. k : g[j] = f[i+j]
  PROVE  g = SubSeq(f, i+1, i+k)
<1>1. f \in Seq(S) /\ Len(f) = n
  BY SequenceOf
<1>2. SubSeq(f, i+1, i+k) = [j \in 1 .. k |-> f[i+j]]
  <2>1. SubSeq(f, i+1, i+k) = [j \in 1 .. (1 + (i+k) - (i+1)) |-> f[(i+1) + j - 1]]
    OBVIOUS
  <2>2. 1 + (i+k) - (i+1) = k /\ \A j \in 1 .. k : (i+1) + j - 1 = i + j
    OBVIOUS
  <2> QED
    BY <2>1, <2>2
<1>3. g = [j \in 1 .. k |-> g[j]]
  OBVIOUS
<1> QED
  BY <1>2, <1>3

LEMMA FrontOf ==
  ASSUME NEW S, NEW n \in Nat \ {0}, NEW f \in [1 .. n -> S], NEW g \in [1 .. n-1 -> S],
         \A i \in 1 .. n-1 : g[i] = f[i]
  PROVE  f # <<>> /\ Len(f) = n /\ g = SubSeq(f, 1, Len(f) - 1)
<1>1. f \in Seq(S) /\ Len(f) = n /\ f # <<>>
  BY SequenceOf
<1>2. n-1 \in Nat /\ 0 + (n-1) <= n /\ \A j \in 1 .. n-1 : g[j] = f[0+j]
  OBVIOUS
<1>3. g = SubSeq(f, 0+1, 0+(n-1))
  <2> DEFINE k == n-1
  <2>1. k \in Nat /\ 0 + k <= n /\ g \in [1 .. k -> S] /\ \A j \in 1 .. k : g[j] = f[0+j]
    BY <1>2
  <2> HIDE DEF k
  <2>2. g = SubSeq(f, 0+1, 0+k)
    BY <2>1, PartOf
  <2> QED
    BY <2>2 DEF k
<1>4. 0+1 = 1 /\ 0+(n-1) = n-1
  OBVIOUS
<1> QED
  BY <1>1, <1>3, <1>4

Joined(f, h, g) == g = f \o h

LEMMA JoinedTo ==
  ASSUME NEW S, NEW n \in Nat, NEW k \in Nat, NEW f \in [1 .. n -> S], NEW h \in [1 .. k -> S],
         NEW g \in [1 .. n+k -> S],
         \A i \in 1 .. n : g[i] = f[i], \A j \in 1 .. k : g[n+j] = h[j]
  PROVE  Joined(f, h, g)
<1>1. f \in Seq(S) /\ Len(f) = n /\ h \in Seq(S) /\ Len(h) = k
  BY SequenceOf
<1>2. /\ f \o h \in Seq(S) /\ Len(f \o h) = n+k
      /\ \A i \in 1 .. n+k : (f \o h)[i] = IF i <= n THEN f[i] ELSE h[i-n]
  BY <1>1, ConcatProperties, ZenonT(60)
<1>3. ASSUME NEW i \in 1 .. n+k
      PROVE  (f \o h)[i] = g[i]
  <2>1. CASE i <= n
    BY <1>2, <2>1
  <2>2. CASE ~(i <= n)
    <3>1. i-n \in 1 .. k /\ n+(i-n) = i
      BY <2>2
    <3> QED
      BY <1>2, <2>2, <3>1
  <2> QED
    BY <2>1, <2>2
<1> DEFINE m == n+k  fh == f \o h
<1>4. /\ m \in Nat /\ g \in [1 .. m -> S] /\ fh \in Seq(S) /\ Len(fh) = m
      /\ \A i \in 1 .. m : fh[i] = g[i]
  BY <1>2, <1>3
<1> HIDE DEF m, fh
<1>5. g = fh
  BY <1>4, SameSequence
<1> QED
  BY <1>5 DEF fh, Joined

-----------------------------------------------------------------------------
(* The objects in a block from the place o on, as a sequence.              *)

Segment(b, o, n) == [i \in 1 .. n |-> b[o + (i-1)]]

\* n objects of S are there.
Has(b, o, n, S) == \A j \in 0 .. n-1 : b[o + j] \in S

\* The first n from o on in b are those from p on in c; after them in c is x.
Same(b, o, c, p, n) == \A j \in 0 .. n-1 : c[p + j] = b[o + j]
Pushed(b, o, c, p, n, x) == Same(b, o, c, p, n) /\ c[p + n] = x

\* What the calls make of a sequence f.
Longer(f, x, g) == g = Append(f, x)
Shorter(f, g) == f # <<>> /\ g = SubSeq(f, 1, Len(f) - 1)
Replaced(f, i, x, g) == g = [f EXCEPT ![i+1] = x]
Part(f, i, k, g) == g = SubSeq(f, i+1, i+k)
OfLength(f, m, z, g) == g = [k \in 1 .. m |-> IF k <= Len(f) THEN f[k] ELSE z]

\* The m from p on in c are the n from o on in b, cut short or filled up with z.
Resized(b, o, n, c, p, m, z) ==
    \A j \in 0 .. m-1 : c[p + j] = IF j < n THEN b[o + j] ELSE z

\* The n from o on in c are those in b, except for x at the i-th.
Changed(b, o, n, i, x, c) ==
    \A j \in 0 .. n-1 : c[o + j] = IF j = i THEN x ELSE b[o + j]

LEMMA SegmentTyped ==
  ASSUME NEW S, NEW n \in Nat, NEW b, NEW o, Has(b, o, n, S)
  PROVE  Segment(b, o, n) \in [1 .. n -> S] /\ Len(Segment(b, o, n)) = n
<1>1. \A i \in 1 .. n : i-1 \in 0 .. n-1
  OBVIOUS
<1>2. Segment(b, o, n) \in [1 .. n -> S]
  BY <1>1 DEF Segment, Has
<1> QED
  BY <1>2, SequenceOf DEF Segment

LEMMA SegmentMoved ==
  ASSUME NEW n \in Nat, NEW b, NEW o, NEW c, NEW p, Same(b, o, c, p, n)
  PROVE  Segment(c, p, n) = Segment(b, o, n)
<1>1. \A i \in 1 .. n : i-1 \in 0 .. n-1
  OBVIOUS
<1> QED
  BY <1>1 DEF Segment, Same

LEMMA SegmentPushed ==
  ASSUME NEW S, NEW n \in Nat, NEW b, NEW o, NEW c, NEW p, NEW x \in S, Has(b, o, n, S),
         Pushed(b, o, c, p, n, x)
  PROVE  Longer(Segment(b, o, n), x, Segment(c, p, n+1))
<1> DEFINE f == Segment(b, o, n)  g == Segment(c, p, n+1)
<1>1. \A j \in 0 .. (n+1)-1 : j \in 0 .. n-1 \/ j = n
  OBVIOUS
<1>2. n+1 \in Nat /\ Has(c, p, n+1, S)
  BY <1>1 DEF Has, Same, Pushed
<1>3. f \in [1 .. n -> S] /\ g \in [1 .. n+1 -> S]
  BY <1>2, SegmentTyped
<1>4. \A i \in 1 .. n : i \in 1 .. n+1 /\ i-1 \in 0 .. n-1
  OBVIOUS
<1>5. \A i \in 1 .. n : g[i] = f[i]
  BY <1>4 DEF Segment, Pushed, Same
<1>6. g[n+1] = x
  <2>1. n+1 \in 1 .. n+1 /\ (n+1)-1 = n
    OBVIOUS
  <2> QED
    BY <2>1 DEF Segment, Pushed
<1> HIDE DEF f, g
<1>7. g = Append(f, g[n+1])
  BY <1>3, <1>5, Appended
<1> QED
  BY <1>6, <1>7 DEF f, g, Longer

LEMMA SegmentPopped ==
  ASSUME NEW S, NEW n \in Nat \ {0}, NEW b, NEW o, Has(b, o, n, S)
  PROVE  /\ Shorter(Segment(b, o, n), Segment(b, o, n-1))
         /\ Segment(b, o, n)[n] = b[o + (n-1)]
<1> DEFINE f == Segment(b, o, n)  g == Segment(b, o, n-1)
<1>1. n-1 \in Nat /\ n \in 1 .. n /\ \A i \in 1 .. n-1 : i \in 1 .. n
  OBVIOUS
<1>2. Has(b, o, n-1, S)
  BY DEF Has
<1>3. f \in [1 .. n -> S] /\ \A i \in 1 .. n : f[i] = b[o + (i-1)]
  <2>1. f \in [1 .. n -> S]
    BY SegmentTyped
  <2>2. \A i \in 1 .. n : f[i] = b[o + (i-1)]
    BY DEF Segment
  <2> QED
    BY <2>1, <2>2
<1>4. g \in [1 .. n-1 -> S] /\ \A i \in 1 .. n-1 : g[i] = b[o + (i-1)]
  <2>1. g \in [1 .. n-1 -> S]
    BY <1>1, <1>2, SegmentTyped
  <2>2. \A i \in 1 .. n-1 : g[i] = b[o + (i-1)]
    BY DEF Segment
  <2> QED
    BY <2>1, <2>2
<1> HIDE DEF f, g
<1>5. f # <<>> /\ Len(f) = n /\ g = SubSeq(f, 1, Len(f) - 1)
  BY <1>1, <1>3, <1>4, FrontOf
<1> QED
  BY <1>1, <1>3, <1>5 DEF f, g, Shorter

LEMMA SegmentResized ==
  ASSUME NEW S, NEW n \in Nat, NEW m \in Nat, NEW b, NEW o, NEW c, NEW p, NEW z, Has(b, o, n, S),
         Resized(b, o, n, c, p, m, z)
  PROVE  OfLength(Segment(b, o, n), m, z, Segment(c, p, m))
<1> DEFINE f == Segment(b, o, n)
<1>1. Len(f) = n /\ \A i \in 1 .. n : f[i] = b[o + (i-1)]
  <2>1. Len(f) = n
    BY SegmentTyped, ZenonT(60)
  <2>2. \A i \in 1 .. n : f[i] = b[o + (i-1)]
    BY DEF Segment
  <2> QED
    BY <2>1, <2>2
<1> HIDE DEF f
<1>2. ASSUME NEW k \in 1 .. m
      PROVE  c[p + (k-1)] = IF k <= Len(f) THEN f[k] ELSE z
  <2>1. k-1 \in 0 .. m-1 /\ (k-1 < n <=> k \in 1 .. n) /\ (k <= Len(f) <=> k \in 1 .. n)
    BY <1>1
  <2> QED
    BY <1>1, <2>1 DEF Resized
<1> QED
  BY <1>2 DEF f, Segment, OfLength

LEMMA SegmentAssigned ==
  ASSUME NEW S, NEW n \in Nat, NEW b, NEW o, NEW c, NEW x, NEW i \in 0 .. n-1, Has(b, o, n, S),
         Changed(b, o, n, i, x, c)
  PROVE  Replaced(Segment(b, o, n), i, x, Segment(c, o, n))
<1> DEFINE f == Segment(b, o, n)
<1>1. f \in [1 .. n -> S] /\ \A k \in 1 .. n : f[k] = b[o + (k-1)]
  <2>1. f \in [1 .. n -> S]
    BY SegmentTyped
  <2>2. \A k \in 1 .. n : f[k] = b[o + (k-1)]
    BY DEF Segment
  <2> QED
    BY <2>1, <2>2
<1> HIDE DEF f
<1>2. \A k \in 1 .. n : k-1 \in 0 .. n-1 /\ (k-1 = i <=> k = i+1)
  OBVIOUS
<1>3. \A k \in 1 .. n : c[o + (k-1)] = IF k = i+1 THEN x ELSE f[k]
  BY <1>1, <1>2 DEF Changed
<1>4. [f EXCEPT ![i+1] = x] = [k \in 1 .. n |-> IF k = i+1 THEN x ELSE f[k]]
  BY <1>1
<1> QED
  BY <1>3, <1>4 DEF f, Segment, Replaced

\* k objects of the block, read from the i-th on.
Slice(b, o, i, k) == [j \in 1 .. k |-> b[o + (i + j - 1)]]

LEMMA SegmentRead ==
  ASSUME NEW S, NEW n \in Nat, NEW b, NEW o, NEW i \in Nat, NEW k \in Nat, i + k <= n,
         Has(b, o, n, S)
  PROVE  Part(Segment(b, o, n), i, k, Slice(b, o, i, k))
<1> DEFINE f == Segment(b, o, n)  g == Slice(b, o, i, k)
<1>1. f \in [1 .. n -> S] /\ \A j \in 1 .. n : f[j] = b[o + (j-1)]
  <2>1. f \in [1 .. n -> S]
    BY SegmentTyped
  <2>2. \A j \in 1 .. n : f[j] = b[o + (j-1)]
    BY DEF Segment
  <2> QED
    BY <2>1, <2>2
<1> HIDE DEF f
<1>2. \A j \in 1 .. k : i + j \in 1 .. n /\ (i + j) - 1 = i + j - 1
  OBVIOUS
<1>3. \A j \in 1 .. k : g[j] = f[i + j] /\ g[j] \in S
  BY <1>1, <1>2 DEF Slice
<1>4. g \in [1 .. k -> S]
  BY <1>3 DEF Slice
<1> HIDE DEF g
<1>5. g = SubSeq(f, i+1, i+k)
  BY <1>1, <1>3, <1>4, PartOf
<1> QED
  BY <1>5 DEF f, g, Part

Beginning(b, n) == [i \in 1 .. n |-> b[i - 1]]

LEMMA FromStart ==
  ASSUME NEW n \in Nat, NEW b
  PROVE  Beginning(b, n) = Segment(b, 0, n)
<1>1. \A i \in 1 .. n : i - 1 = 0 + (i-1)
  OBVIOUS
<1> QED
  BY <1>1 DEF Segment, Beginning

-----------------------------------------------------------------------------
(* SafeArray.                                                              *)

SafeInv == block \in [0 .. ListSize-1 -> Values \cup {Zero}]

LEMMA SafeStarts ==
  ASSUME Safe!Init
  PROVE  SafeInv /\ Safe!AbstractInit
BY InstanceAssumption
   DEF Safe!Assumption, Safe!Init, Safe!AbstractInit, Safe!Filled, Safe!New, SafeInv

LEMMA SafeStep ==
  ASSUME SafeInv, Safe!Next
  PROVE  SafeInv' /\ Safe!AbstractStep
<1> DEFINE items == [i \in 1 .. ListSize |-> block[i - 1]]
<1>1. ListSize \in Nat
  BY InstanceAssumption DEF Safe!Assumption
<1>2. items = Segment(block, 0, ListSize) /\ items' = Segment(block', 0, ListSize)
  BY <1>1, FromStart DEF Beginning
<1>3. Has(block, 0, ListSize, Values \cup {Zero})
  BY <1>1 DEF SafeInv, Has
<1>4. Len(items) = ListSize /\ \A i \in 0 .. ListSize-1 : items[i+1] = block[i]
  BY <1>1, <1>2, <1>3, SegmentTyped
<1>5. PICK i \in -1 .. ListSize : Safe!At(i) \/ \E x \in Values : Safe!Assign(i, x)
  BY DEF Safe!Next
<1> HIDE DEF items
<1>6. CASE Safe!Provoke(i)
  BY <1>6 DEF Safe!Provoke, Safe!AbstractStep, SafeInv
<1>7. CASE /\ i \in 0 .. ListSize-1 /\ call' = <<"[]", i>> /\ out' = block[i]
           /\ UNCHANGED <<block, failed>>
  <2>1. Safe!Abstract!Fetch(i)
    BY <1>4, <1>7 DEF Safe!Abstract!Fetch, items
  <2> QED
    BY <1>4, <1>7, <2>1 DEF Safe!AbstractStep, Safe!Abstract!VectorNext, SafeInv, items
<1>8. ASSUME NEW x \in Values, i \in 0 .. ListSize-1, call' = <<"[]=", i, x>>,
             block' = [block EXCEPT ![i] = x], UNCHANGED <<failed, out>>
      PROVE  SafeInv' /\ Safe!AbstractStep
  <2>1. SafeInv' /\ Changed(block, 0, ListSize, i, x, block')
    BY <1>1, <1>8 DEF SafeInv, Changed
  <2>2. Replaced(items, i, x, items')
    BY <1>1, <1>2, <1>3, <1>8, <2>1, SegmentAssigned
  <2>3. Safe!Abstract!Assign(i, x)
    BY <1>8, <2>2 DEF Safe!Abstract!Assign, items, Replaced
  <2> QED
    BY <1>4, <1>8, <2>1, <2>3 DEF Safe!AbstractStep, Safe!Abstract!VectorNext, items
<1> QED
  BY <1>5, <1>6, <1>7, <1>8 DEF Safe!At, Safe!Assign

-----------------------------------------------------------------------------
(* FILOlist.                                                               *)

\* The top is the number of objects.
FiloInv ==
    /\ count \in 0 .. ListSize /\ last = count
    /\ block \in [0 .. ListSize-1 -> Values \cup {Junk}]

LEMMA FiloStarts ==
  ASSUME Filo!Init
  PROVE  FiloInv /\ Filo!AbstractInit
BY InstanceAssumption
   DEF Filo!Assumption, Filo!Init, Filo!AbstractInit, Filo!Abstract!Empty, Filo!Contents,
       Filo!New, FiloInv

LEMMA FiloContents ==
  ASSUME FiloInv
  PROVE  /\ Filo!Contents = Segment(block, 0, count) /\ Len(Filo!Contents) = count
         /\ Has(block, 0, count, Values \cup {Junk}) /\ count \in Nat /\ ListSize \in Nat
<1>1. ListSize \in Nat /\ count \in Nat
  BY InstanceAssumption DEF Filo!Assumption, FiloInv
<1>2. Filo!Contents = Segment(block, 0, count)
  BY <1>1, FromStart DEF Filo!Contents, Beginning
<1>3. Has(block, 0, count, Values \cup {Junk})
  BY <1>1 DEF FiloInv, Has
<1>4. Len(Segment(block, 0, count)) = count
  BY <1>1, <1>3, SegmentTyped, ZenonT(60)
<1> QED
  BY <1>1, <1>2, <1>3, <1>4

LEMMA FiloStep ==
  ASSUME FiloInv, Filo!Next
  PROVE  FiloInv' /\ Filo!AbstractStep
<1> DEFINE S == Values \cup {Junk}
<1>1. /\ Filo!Contents = Segment(block, 0, count) /\ Len(Filo!Contents) = count
      /\ Has(block, 0, count, S) /\ count \in Nat /\ ListSize \in Nat
  BY FiloContents
<1>2. ASSUME NEW x \in Values, call' = <<"Put", x>>, count >= ListSize, out' = FALSE,
             UNCHANGED <<block, last, count, failed>>
      PROVE  FiloInv' /\ Filo!AbstractStep
  <2>1. count = ListSize
    BY <1>1, <1>2 DEF FiloInv
  <2>2. Filo!Abstract!Refuse("Put", x)
    BY <1>1, <1>2, <2>1 DEF Filo!Abstract!Refuse, Filo!Contents
  <2> QED
    BY <1>2, <2>2 DEF FiloInv, Filo!AbstractStep, Filo!Abstract!StackNext
<1>3. ASSUME NEW x \in Values, call' = <<"Put", x>>, count < ListSize, count' = count + 1,
             block' = [block EXCEPT ![last] = x], last' = last + 1, out' = TRUE, UNCHANGED failed
      PROVE  FiloInv' /\ Filo!AbstractStep
  <2>1. FiloInv'
    BY <1>1, <1>3 DEF FiloInv
  <2>2. Pushed(block, 0, block', 0, count, x)
    BY <1>1, <1>3 DEF FiloInv, Same, Pushed
  <2>3. Filo!Contents' = Segment(block', 0, count + 1)
    <3>1. count + 1 \in Nat /\ Filo!Contents' = Beginning(block', count + 1)
      BY <1>1, <1>3 DEF Filo!Contents, Beginning
    <3> QED
      BY <3>1, FromStart
  <2>4. Longer(Filo!Contents, x, Filo!Contents')
    BY <1>1, <2>2, <2>3, SegmentPushed
  <2>5. Filo!Abstract!Add("Put", x, TRUE)
    BY <1>3, <2>4 DEF Filo!Abstract!Add, Longer
  <2> QED
    BY <2>1, <2>5 DEF Filo!AbstractStep, Filo!Abstract!StackNext
<1>4. CASE failed' = TRUE /\ UNCHANGED <<block, last, count>>
  BY <1>4 DEF FiloInv, Filo!AbstractStep
<1>5. CASE /\ call' = <<"Get">> /\ count > 0 /\ count' = count - 1 /\ last' = last - 1
           /\ out' = block[last - 1] /\ UNCHANGED <<block, failed>>
  <2>1. FiloInv'
    BY <1>1, <1>5 DEF FiloInv
  <2>2. count \in Nat \ {0} /\ count - 1 \in Nat /\ 0 + (count-1) = last - 1
    BY <1>1, <1>5 DEF FiloInv
  <2>3. Filo!Contents' = Segment(block, 0, count - 1)
    <3>1. Filo!Contents' = Beginning(block, count - 1)
      BY <1>5 DEF Filo!Contents, Beginning
    <3> QED
      BY <2>2, <3>1, FromStart
  <2>4. Shorter(Filo!Contents, Filo!Contents') /\ Filo!Contents[count] = block[last - 1]
    BY <1>1, <2>2, <2>3, SegmentPopped
  <2>5. Filo!Abstract!TakeLast("Get")
    BY <1>1, <1>5, <2>4 DEF Filo!Abstract!TakeLast, Shorter
  <2> QED
    BY <2>1, <2>5 DEF Filo!AbstractStep, Filo!Abstract!StackNext
<1> QED
  BY <1>2, <1>3, <1>4, <1>5 DEF Filo!Next, Filo!Put, Filo!Get

-----------------------------------------------------------------------------
(* FIFOlist.                                                               *)

\* The place in the ring of the i-th object from the place p on.
Place(i, p) == IF p + i >= ListSize THEN p + i - ListSize ELSE p + i

\* The head is the place after the last object.
FifoInv ==
    /\ count \in 0 .. ListSize /\ first \in 0 .. ListSize-1
    /\ last = Place(count, first)
    /\ block \in [0 .. ListSize-1 -> Values \cup {Junk}]

LEMMA FifoStarts ==
  ASSUME Fifo!Init
  PROVE  FifoInv /\ Fifo!AbstractInit
BY InstanceAssumption
   DEF Fifo!Assumption, Fifo!Init, Fifo!AbstractInit, Fifo!Abstract!Empty, Fifo!Contents,
       Fifo!New, FifoInv, Place

Entry(b, p, i) == b[Place(i - 1, p)]

LEMMA FifoContents ==
  ASSUME NEW n \in Nat, n <= ListSize, NEW p \in 0 .. ListSize-1, ListSize \in Nat,
         NEW b \in [0 .. ListSize-1 -> Values \cup {Junk}]
  PROVE  /\ [i \in 1 .. n |-> Entry(b, p, i)] \in [1 .. n -> Values \cup {Junk}]
         /\ Len([i \in 1 .. n |-> Entry(b, p, i)]) = n
<1>1. \A i \in 1 .. n : Place(i - 1, p) \in 0 .. ListSize-1
  BY DEF Place
<1>2. [i \in 1 .. n |-> Entry(b, p, i)] \in [1 .. n -> Values \cup {Junk}]
  BY <1>1 DEF Entry
<1> QED
  BY <1>2, SequenceOf

LEMMA FifoStep ==
  ASSUME FifoInv, Fifo!Next
  PROVE  FifoInv' /\ Fifo!AbstractStep
<1> DEFINE S == Values \cup {Junk}
           f == Fifo!Contents
<1>1. ListSize \in Nat /\ count \in Nat /\ count <= ListSize /\ ListSize > 0
  BY InstanceAssumption DEF Fifo!Assumption, FifoInv
<1>2. f = [i \in 1 .. count |-> Entry(block, first, i)]
  BY <1>1 DEF FifoInv, Fifo!Contents, Entry, Place
<1>3. f \in [1 .. count -> S] /\ Len(f) = count
  BY <1>1, <1>2, FifoContents DEF FifoInv
<1>4. ASSUME NEW x \in Values, call' = <<"Put", x>>, count >= ListSize, out' = FALSE,
             UNCHANGED <<block, last, count, first, failed>>
      PROVE  FifoInv' /\ Fifo!AbstractStep
  <2>1. Fifo!Abstract!Refuse("Put", x)
    BY <1>1, <1>3, <1>4 DEF Fifo!Abstract!Refuse, Fifo!Contents
  <2> QED
    BY <1>4, <2>1 DEF FifoInv, Place, Fifo!AbstractStep, Fifo!Abstract!QueueNext
<1>5. ASSUME NEW x \in Values, call' = <<"Put", x>>, count < ListSize, count' = count + 1,
             block' = [block EXCEPT ![last] = x], last' = Fifo!Advanced(last), out' = TRUE,
             UNCHANGED <<first, failed>>
      PROVE  FifoInv' /\ Fifo!AbstractStep
  <2>1. FifoInv'
    BY <1>1, <1>5 DEF FifoInv, Place, Fifo!Advanced
  <2> DEFINE g == [i \in 1 .. count+1 |-> Entry(block', first, i)]
  <2>2. f' = g /\ g \in [1 .. count+1 -> S]
    <3> DEFINE n == count+1
    <3>1. /\ n \in Nat /\ n <= ListSize /\ first \in 0 .. ListSize-1
          /\ block' \in [0 .. ListSize-1 -> S]
      BY <1>1, <1>5, <2>1 DEF FifoInv
    <3> HIDE DEF n
    <3>2. [i \in 1 .. n |-> Entry(block', first, i)] \in [1 .. n -> S]
      BY <1>1, <3>1, FifoContents
    <3> USE DEF n
    <3> QED
      BY <1>1, <1>5, <3>2 DEF FifoInv, Fifo!Contents, Entry, Place
  <2>3. \A i \in 1 .. count : g[i] = f[i]
    <3>1. \A i \in 1 .. count : Place(i - 1, first) # last /\ Place(i - 1, first) \in 0 .. ListSize-1
      BY <1>1, <1>5 DEF FifoInv, Place
    <3>2. \A i \in 1 .. count : i \in 1 .. count+1
      BY <1>1
    <3> QED
      BY <1>2, <1>5, <3>1, <3>2 DEF FifoInv, Entry
  <2>4. g[count+1] = x
    <3>1. count+1 \in 1 .. count+1 /\ (count+1) - 1 = count /\ last \in 0 .. ListSize-1
      BY <1>1, <1>5 DEF FifoInv, Place
    <3> QED
      BY <1>5, <3>1 DEF FifoInv, Entry
  <2> HIDE DEF f, g
  <2>5. f' = Append(f, x)
    BY <1>1, <1>3, <2>2, <2>3, <2>4, Appended
  <2>6. Fifo!Abstract!Add("Put", x, TRUE)
    BY <1>5, <2>5 DEF Fifo!Abstract!Add, f
  <2> QED
    BY <2>1, <2>6 DEF Fifo!AbstractStep, Fifo!Abstract!QueueNext
<1>6. CASE failed' = TRUE /\ UNCHANGED <<block, first, last, count>>
  BY <1>6 DEF FifoInv, Place, Fifo!AbstractStep
<1>7. CASE /\ call' = <<"Get">> /\ count > 0 /\ count' = count - 1
           /\ first' = Fifo!Advanced(first) /\ out' = block[first]
           /\ UNCHANGED <<block, last, failed>>
  <2>1. FifoInv'
    BY <1>1, <1>7 DEF FifoInv, Place, Fifo!Advanced
  <2> DEFINE g == [i \in 1 .. count-1 |-> Entry(block, first', i)]
  <2>2. f' = g /\ g \in [1 .. count-1 -> S]
    <3>1. count - 1 \in Nat /\ count - 1 <= ListSize
      BY <1>1, <1>7
    <3>2. g \in [1 .. count-1 -> S]
      BY <1>1, <1>7, <2>1, <3>1, FifoContents DEF FifoInv
    <3> QED
      BY <1>1, <1>7, <2>1, <3>2 DEF FifoInv, Fifo!Contents, Entry, Place
  <2>3. \A i \in 1 .. count-1 : g[i] = f[i+1]
    <3>1. \A i \in 1 .. count-1 : /\ i+1 \in 1 .. count /\ (i+1) - 1 = i
                                  /\ Place(i - 1, first') = Place(i, first)
      BY <1>1, <1>7 DEF FifoInv, Place, Fifo!Advanced
    <3> QED
      BY <1>2, <3>1 DEF Entry
  <2>4. f[1] = out'
    <3>1. 1 \in 1 .. count /\ 1 - 1 = 0 /\ Place(0, first) = first
      BY <1>1, <1>7 DEF FifoInv, Place
    <3> QED
      BY <1>2, <1>7, <3>1 DEF Entry
  <2> HIDE DEF f, g
  <2>5. f # <<>> /\ Head(f) = out' /\ f' = Tail(f)
    BY <1>1, <1>3, <1>7, <2>2, <2>3, <2>4, TailOf
  <2>6. Fifo!Abstract!TakeFirst("Get")
    BY <1>7, <2>5 DEF Fifo!Abstract!TakeFirst, f
  <2> QED
    BY <2>1, <2>6 DEF Fifo!AbstractStep, Fifo!Abstract!QueueNext
<1> QED
  BY <1>4, <1>5, <1>6, <1>7 DEF Fifo!Next, Fifo!Put, Fifo!Get

-----------------------------------------------------------------------------
(* DynamicArray.                                                           *)

\* What is in the array has been written; the rest of the block may not.
ArrayInv ==
    /\ size \in Nat /\ count \in Nat /\ count <= size
    /\ block \in [0 .. size-1 -> Few \cup {Zero, Junk}]
    /\ Has(block, 0, count, Few \cup {Zero})

LEMMA NoBlock ==
  ASSUME NEW S
  PROVE  /\ [k \in {} |-> Junk] \in [0 .. 0-1 -> S]
         /\ \A b, o : Segment(b, o, 0) = <<>>
BY DEF Segment

LEMMA ArrayStarts ==
  ASSUME Array!Init
  PROVE  ArrayInv /\ Array!AbstractInit
BY DEF Array!Init, Array!AbstractInit, Array!Abstract!Empty, Array!Contents, Array!Null,
       ArrayInv, Has

LEMMA ArrayContents ==
  ASSUME ArrayInv
  PROVE  Array!Contents = Segment(block, 0, count) /\ Len(Array!Contents) = count
<1>1. count \in Nat
  BY DEF ArrayInv
<1>2. Array!Contents = Beginning(block, count)
  BY DEF Array!Contents, Beginning
<1>3. Len(Segment(block, 0, count)) = count
  BY <1>1, SegmentTyped, ZenonT(60) DEF ArrayInv
<1> QED
  BY <1>1, <1>2, <1>3, FromStart

LEMMA ArrayContentsAfter ==
  ASSUME count' \in Nat
  PROVE  Array!Contents' = Segment(block', 0, count')
<1>1. Array!Contents' = Beginning(block', count')
  BY DEF Array!Contents, Beginning
<1> QED
  BY <1>1, FromStart

\* A larger block has all of the old one at its beginning.
LEMMA ArrayMoved ==
  ASSUME ArrayInv, NEW num \in Nat, num >= size
  PROVE  /\ Array!ReAllocated(num) \in [0 .. num-1 -> Few \cup {Zero, Junk}]
         /\ \A k \in 0 .. size-1 : Array!ReAllocated(num)[k] = block[k]
<1>1. ASSUME NEW k \in 0 .. num-1
      PROVE  /\ k \in 0 .. 0 + size - 1 <=> k \in 0 .. size-1
             /\ k - 0 + 0 = k
  BY DEF ArrayInv
<1>2. Array!ReAllocated(num) = [k \in 0 .. num-1 |-> IF k \in 0 .. size-1 THEN block[k] ELSE Junk]
  BY <1>1 DEF Array!ReAllocated, Array!Copied, Array!New
<1>3. \A k \in 0 .. size-1 : k \in 0 .. num-1
  BY DEF ArrayInv
<1> QED
  BY <1>2, <1>3 DEF ArrayInv

\* The block of an array of count objects before the call.
LEMMA ArrayReserve ==
  ASSUME ArrayInv, NEW num \in -1 .. Limit, Array!Reserve(num)
  PROVE  ArrayInv' /\ Array!AbstractStep
<1>1. Array!Contents = Segment(block, 0, count)
  BY ArrayContents
<1>2. CASE num < 0 /\ Array!Error
  BY <1>2 DEF Array!Error, Array!AbstractStep, ArrayInv
<1>3. CASE /\ num = 0 /\ block' = Array!Null /\ size' = 0 /\ count' = 0
           /\ UNCHANGED <<failed, out>>
  <2>1. ArrayInv'
    BY <1>3, NoBlock DEF ArrayInv, Array!Null, Has
  <2>2. Array!Contents' = <<>>
    BY <1>3 DEF Array!Contents
  <2>3. Array!Abstract!Reserve(num) /\ num \in 0 .. Limit
    BY <1>3, <2>2 DEF Array!Abstract!Reserve, Array!Reserve
  <2> QED
    BY <2>1, <2>3 DEF Array!AbstractStep, Array!Abstract!VectorNext
<1>4. CASE num > 0 /\ Array!Contents' = Array!Contents /\ UNCHANGED out /\ ArrayInv'
  <2>1. Array!Abstract!Reserve(num) /\ num \in 0 .. Limit
    BY <1>4 DEF Array!Abstract!Reserve, Array!Reserve
  <2> QED
    BY <1>4, <2>1 DEF Array!AbstractStep, Array!Abstract!VectorNext
<1>5. CASE num > 0 /\ UNCHANGED <<block, size, count, failed, out>>
  BY <1>4, <1>5 DEF ArrayInv, Array!Contents
<1>6. CASE /\ num > size /\ num > 0 /\ block' = Array!ReAllocated(num) /\ size' = num
           /\ UNCHANGED <<count, failed, out>>
  <2>1. /\ num \in Nat /\ block' \in [0 .. num-1 -> Few \cup {Zero, Junk}]
        /\ \A k \in 0 .. size-1 : block'[k] = block[k]
    BY <1>6, ArrayMoved DEF ArrayInv
  <2>2. Same(block, 0, block', 0, count)
    BY <2>1 DEF Same, ArrayInv
  <2>3. ArrayInv'
    BY <1>6, <2>1, <2>2 DEF ArrayInv, Has, Same
  <2>4. Array!Contents' = Array!Contents
    BY <1>1, <1>6, <2>2, SegmentMoved, ArrayContentsAfter DEF ArrayInv
  <2> QED
    BY <1>4, <1>6, <2>3, <2>4
<1> QED
  BY <1>2, <1>3, <1>5, <1>6 DEF Array!Reserve

LEMMA ArraySetNum ==
  ASSUME ArrayInv, NEW num \in -1 .. Limit, Array!SetNum(num)
  PROVE  ArrayInv' /\ Array!AbstractStep
<1> DEFINE old == IF num > size THEN Array!ReAllocated(num) ELSE block
           n == IF num > size THEN num ELSE size
<1>1. Array!Contents = Segment(block, 0, count)
  BY ArrayContents
<1>2. CASE num < 0 /\ Array!Error
  BY <1>2 DEF Array!Error, Array!AbstractStep, ArrayInv
<1>3. CASE /\ num >= 0 /\ size' = n /\ count' = num /\ UNCHANGED <<failed, out>>
           /\ block' = Array!Filled(old, count, num - count, Zero)
  <2>1. /\ num \in Nat /\ n \in Nat /\ num <= n /\ count <= n /\ count \in Nat
        /\ old \in [0 .. n-1 -> Few \cup {Zero, Junk}]
        /\ \A k \in 0 .. count-1 : old[k] = block[k]
    BY <1>3, ArrayMoved DEF ArrayInv
  <2> HIDE DEF old, n
  <2>2. block' = [k \in 0 .. n-1 |-> IF k \in count .. num-1 THEN Zero ELSE old[k]]
    <3>1. \A k \in 0 .. n-1 : k \in count .. count + (num - count) - 1 <=> k \in count .. num-1
      BY <2>1
    <3> QED
      BY <1>3, <2>1, <3>1 DEF Array!Filled
  <2>3. Resized(block, 0, count, block', 0, num, Zero)
    <3> SUFFICES ASSUME NEW j \in 0 .. num-1
                 PROVE  block'[0 + j] = IF j < count THEN block[0 + j] ELSE Zero
      BY DEF Resized
    <3>1. /\ j \in 0 .. n-1 /\ 0 + j = j /\ (j < count <=> j \in 0 .. count-1)
          /\ (j \in count .. num-1 <=> ~(j < count))
      BY <2>1
    <3> QED
      BY <2>1, <2>2, <3>1
  <2>4. block' \in [0 .. n-1 -> Few \cup {Zero, Junk}]
    BY <2>1, <2>2
  <2>5. ArrayInv'
    <3>1. Has(block', 0, num, Few \cup {Zero})
      <4> SUFFICES ASSUME NEW j \in 0 .. num-1 PROVE block'[0 + j] \in Few \cup {Zero}
        BY DEF Has
      <4>1. block'[0 + j] = IF j < count THEN block[0 + j] ELSE Zero
        BY <2>3 DEF Resized
      <4>2. j < count => j \in 0 .. count-1
        BY <2>1
      <4> QED
        BY <4>1, <4>2 DEF ArrayInv, Has
    <3> QED
      BY <1>3, <2>1, <2>4, <3>1 DEF ArrayInv
  <2>6. Array!Contents' = Segment(block', 0, num)
    BY <1>3, <2>1, ArrayContentsAfter
  <2>7. OfLength(Array!Contents, num, Zero, Array!Contents')
    BY <1>1, <2>1, <2>3, <2>6, SegmentResized DEF ArrayInv
  <2>8. Array!Abstract!Resize("SetNum", num, num) /\ num \in 0 .. Limit
    BY <1>3, <2>1, <2>7 DEF Array!Abstract!Resize, OfLength, Array!SetNum
  <2> QED
    BY <2>5, <2>8 DEF Array!AbstractStep, Array!Abstract!VectorNext
<1> QED
  BY <1>2, <1>3 DEF Array!SetNum

\* What is pushed comes behind the objects, also where the block is replaced
\* and it is one of them.
LEMMA ArrayPush ==
  ASSUME ArrayInv, NEW x, NEW k, NEW old, NEW obj \in Few \cup {Zero}, Array!Push(x, k, old),
         obj = IF k \in DOMAIN old THEN old[k] ELSE x, call' = <<"Push", obj>>
  PROVE  ArrayInv' /\ Array!AbstractStep
<1> DEFINE grow == count >= size
           new == IF grow THEN Array!NewSize ELSE size
           b == IF grow THEN Array!ReAllocated(new) ELSE block
<1>1. Array!Contents = Segment(block, 0, count) /\ Len(Array!Contents) = count
  BY ArrayContents
<1>2. /\ new \in Nat /\ count < new /\ count \in Nat /\ count + 1 <= new /\ new >= size
  BY InstanceAssumption DEF Array!Assumption, Array!NewSize, ArrayInv
<1>3. /\ b \in [0 .. new-1 -> Few \cup {Zero, Junk}]
      /\ \A j \in 0 .. count-1 : b[j] = block[j]
  <2>1. CASE grow
    BY <1>2, <2>1, ArrayMoved DEF ArrayInv
  <2>2. CASE ~grow
    BY <2>2 DEF ArrayInv
  <2> QED
    BY <2>1, <2>2
<1>4. /\ block' = [b EXCEPT ![count] = obj] /\ size' = new /\ count' = count + 1
      /\ out' = count /\ UNCHANGED failed
  BY DEF Array!Push
<1> HIDE DEF new, b
<1>5. Pushed(block, 0, block', 0, count, obj)
  BY <1>2, <1>3, <1>4 DEF Pushed, Same
<1>6. ArrayInv'
  <2>1. block' \in [0 .. new-1 -> Few \cup {Zero, Junk}]
    BY <1>2, <1>3, <1>4
  <2>2. \A j \in 0 .. (count+1)-1 : j \in 0 .. count-1 \/ j = count
    BY <1>2
  <2>3. Has(block', 0, count+1, Few \cup {Zero})
    BY <1>5, <2>2 DEF ArrayInv, Has, Pushed, Same
  <2> QED
    BY <1>2, <1>4, <2>1, <2>3 DEF ArrayInv
<1>7. Array!Contents' = Segment(block', 0, count+1)
  BY <1>2, <1>4, ArrayContentsAfter
<1>8. Longer(Array!Contents, obj, Array!Contents')
  BY <1>1, <1>2, <1>5, <1>7, SegmentPushed DEF ArrayInv
<1>9. Array!Abstract!Add("Push", obj, Len(Array!Contents))
  BY <1>1, <1>4, <1>8 DEF Array!Abstract!Add, Longer
<1> QED
  BY <1>6, <1>9 DEF Array!AbstractStep, Array!Abstract!VectorNext

LEMMA ArrayPop ==
  ASSUME ArrayInv, Array!Pop
  PROVE  ArrayInv' /\ Array!AbstractStep
<1>1. Array!Contents = Segment(block, 0, count) /\ Len(Array!Contents) = count
  BY ArrayContents
<1>2. CASE Array!Error
  BY <1>2 DEF Array!Error, Array!AbstractStep, ArrayInv
<1>3. CASE /\ count > 0 /\ out' = block[count - 1] /\ count' = count - 1
           /\ UNCHANGED <<block, size, failed>>
  <2>1. count \in Nat \ {0} /\ count - 1 \in Nat /\ 0 + (count-1) = count - 1
    BY <1>3 DEF ArrayInv
  <2>2. ArrayInv'
    BY <1>3, <2>1 DEF ArrayInv, Has
  <2>3. Array!Contents' = Segment(block, 0, count-1)
    BY <1>3, <2>1, ArrayContentsAfter
  <2>4. Shorter(Array!Contents, Array!Contents') /\ Array!Contents[count] = block[count - 1]
    BY <1>1, <2>1, <2>3, SegmentPopped DEF ArrayInv
  <2>5. Array!Abstract!TakeLast("Pop")
    BY <1>1, <1>3, <2>4 DEF Array!Abstract!TakeLast, Shorter, Array!Pop
  <2> QED
    BY <2>2, <2>5 DEF Array!AbstractStep, Array!Abstract!VectorNext
<1> QED
  BY <1>2, <1>3 DEF Array!Pop

LEMMA ArrayAt ==
  ASSUME ArrayInv, NEW i \in -1 .. Limit, Array!At(i)
  PROVE  ArrayInv' /\ Array!AbstractStep
<1>1. Array!Contents = Segment(block, 0, count) /\ Len(Array!Contents) = count
  BY ArrayContents
<1>2. CASE Array!Error
  BY <1>2 DEF Array!Error, Array!AbstractStep, ArrayInv
<1>3. CASE /\ i \in 0 .. count-1 /\ out' = block[i]
           /\ UNCHANGED <<block, size, count, failed>>
  <2>1. i+1 \in 1 .. count /\ 0 + ((i+1)-1) = i
    BY <1>3 DEF ArrayInv
  <2>2. Array!Contents[i+1] = block[i]
    BY <1>1, <2>1 DEF Segment
  <2>3. Array!Abstract!Fetch(i)
    BY <1>3, <2>2 DEF Array!Abstract!Fetch, Array!At, Array!Contents
  <2> QED
    BY <1>1, <1>3, <2>3 DEF ArrayInv, Array!AbstractStep, Array!Abstract!VectorNext
<1> QED
  BY <1>2, <1>3 DEF Array!At

LEMMA ArrayAssign ==
  ASSUME ArrayInv, NEW i \in -1 .. Limit, NEW x \in Few, Array!Assign(i, x)
  PROVE  ArrayInv' /\ Array!AbstractStep
<1>1. Array!Contents = Segment(block, 0, count) /\ Len(Array!Contents) = count
  BY ArrayContents
<1>2. CASE Array!Error
  BY <1>2 DEF Array!Error, Array!AbstractStep, ArrayInv
<1>3. CASE /\ i \in 0 .. count-1 /\ block' = [block EXCEPT ![i] = x]
           /\ UNCHANGED <<size, count, failed, out>>
  <2>1. Changed(block, 0, count, i, x, block')
    BY <1>3 DEF ArrayInv, Changed
  <2>2. ArrayInv'
    <3>1. block' \in [0 .. size-1 -> Few \cup {Zero, Junk}]
      BY <1>3 DEF ArrayInv
    <3> QED
      BY <1>3, <2>1, <3>1 DEF ArrayInv, Has, Changed
  <2>3. Array!Contents' = Segment(block', 0, count)
    BY <1>3, ArrayContentsAfter DEF ArrayInv
  <2>4. Replaced(Array!Contents, i, x, Array!Contents')
    BY <1>1, <1>3, <2>1, <2>3, SegmentAssigned DEF ArrayInv
  <2>5. Array!Abstract!Assign(i, x)
    BY <1>3, <2>4 DEF Array!Abstract!Assign, Array!Assign, Replaced
  <2> QED
    BY <1>1, <1>3, <2>2, <2>5 DEF Array!AbstractStep, Array!Abstract!VectorNext
<1> QED
  BY <1>2, <1>3 DEF Array!Assign

LEMMA ArrayStep ==
  ASSUME ArrayInv, Array!Next
  PROVE  ArrayInv' /\ Array!AbstractStep
<1>1. ASSUME NEW x \in Few, Array!PushValue(x)
      PROVE  ArrayInv' /\ Array!AbstractStep
  <2>1. x \in Few \cup {Zero} /\ x = IF -1 \in DOMAIN Array!Null THEN Array!Null[-1] ELSE x
    BY DEF Array!Null
  <2> QED
    BY <1>1, <2>1, ArrayPush DEF Array!PushValue
<1>2. ASSUME NEW i \in 0 .. Limit, Array!PushOwn(i)
      PROVE  ArrayInv' /\ Array!AbstractStep
  <2>1. i \in 0 .. count-1 /\ 0 + i = i
    BY <1>2 DEF Array!PushOwn
  <2>2. i \in DOMAIN block /\ block[i] \in Few \cup {Zero}
    BY <2>1 DEF ArrayInv, Has
  <2>3. block[i] = IF i \in DOMAIN block THEN block[i] ELSE Junk
    BY <2>2
  <2> QED
    BY <1>2, <2>2, <2>3, ArrayPush DEF Array!PushOwn
<1> QED
  BY <1>1, <1>2, ArrayReserve, ArraySetNum, ArrayPop, ArrayAt, ArrayAssign DEF Array!Next

LEMMA ArrayFailing ==
  ASSUME Array!Next, failed \in BOOLEAN
  PROVE  failed' \in BOOLEAN
<1>1. failed' = TRUE \/ UNCHANGED failed
  <2>1. Array!Error => failed' = TRUE
    BY Zenon DEF Array!Error
  <2> QED
    BY <2>1, Zenon DEF Array!Next, Array!Reserve, Array!SetNum, Array!PushValue, Array!PushOwn,
                       Array!Push, Array!Pop, Array!At, Array!Assign
<1> QED
  BY <1>1, Zenon

LEMMA ArrayTyped ==
  ASSUME ArrayInv, failed \in BOOLEAN
  PROVE  Array!TypeOK
<1>1. count \in 0 .. size
  BY DEF ArrayInv
<1> QED
  BY <1>1, Zenon DEF ArrayInv, Array!TypeOK

-----------------------------------------------------------------------------
(* AlignedArray.                                                           *)

\* The n places from o on belong to the block b.
Covers(b, o, n) == \A j \in 0 .. n-1 : o + j \in DOMAIN b

\* The array begins at an address that vectors can be read from, and what is in
\* it has been written.
AlignedInv ==
    /\ size \in Nat /\ count \in Nat /\ count <= size
    /\ last \in Nat /\ last % AlignBy = 0
    /\ Covers(block, last, size)
    /\ Has(block, last, count, Few \cup {Zero})

LEMMA Multiple ==
  ASSUME NEW k \in Int, NEW n \in Nat \ {0}
  PROVE  (k * n) % n = 0
OBVIOUS

LEMMA SumOfMultiples ==
  ASSUME NEW x \in Nat, NEW y \in Nat, NEW n \in Nat \ {0}, x % n = 0, y % n = 0
  PROVE  (x + y) % n = 0
<1> DEFINE p == x \div n  q == y \div n
<1>1. p \in Nat /\ q \in Nat
  OBVIOUS
<1>2. x = p * n
  OBVIOUS
<1>3. y = q * n
  OBVIOUS
<1> HIDE DEF p, q
<1>4. x + y = (p + q) * n
  BY <1>1, <1>2, <1>3
<1>5. ((p + q) * n) % n = 0
  BY <1>1, Multiple
<1> QED
  BY <1>4, <1>5

LEMMA RoundUp ==
  ASSUME NEW x \in Nat, NEW n \in Nat \ {0}
  PROVE  LET r == ((x + n - 1) \div n) * n
         IN  r \in Nat /\ x <= r /\ r <= x + n - 1 /\ r % n = 0
<1> DEFINE y == x + n - 1  q == y \div n
<1>1. y \in Nat
  OBVIOUS
<1> HIDE DEF y
<1>2. q \in Nat
  BY <1>1
<1>3. q * n \in Nat /\ q * n <= y /\ y < q * n + n
  BY <1>1
<1>4. (q * n) % n = 0
  BY <1>2, Multiple
<1> QED
  BY <1>3, <1>4 DEF y

LEMMA AlignedStarts ==
  ASSUME Aligned!Init
  PROVE  AlignedInv /\ Aligned!AbstractInit
<1>1. 0 % AlignBy = 0
  BY InstanceAssumption DEF Aligned!Assumption
<1> QED
  BY <1>1 DEF Aligned!Init, Aligned!AbstractInit, Aligned!Abstract!Empty, Aligned!Contents,
              AlignedInv, Has, Covers

LEMMA AlignedContents ==
  ASSUME AlignedInv
  PROVE  Aligned!Contents = Segment(block, last, count) /\ Len(Aligned!Contents) = count
<1>1. \A i \in 1 .. count : last + i - 1 = last + (i-1)
  BY DEF AlignedInv
<1>2. Aligned!Contents = Segment(block, last, count)
  BY <1>1 DEF Aligned!Contents, Segment
<1>3. Len(Segment(block, last, count)) = count
  BY SegmentTyped, ZenonT(60) DEF AlignedInv
<1> QED
  BY <1>2, <1>3

LEMMA AlignedContentsAfter ==
  ASSUME last' \in Nat, count' \in Nat
  PROVE  Aligned!Contents' = Segment(block', last', count')
<1>1. \A i \in 1 .. count' : last' + i - 1 = last' + (i-1)
  OBVIOUS
<1> QED
  BY <1>1 DEF Aligned!Contents, Segment

\* Wherever a larger block comes to lie, the objects are in it from the first
\* aligned address on.
LEMMA AlignedMoved ==
  ASSUME AlignedInv, NEW num \in Nat, num > size, NEW u \in AlignBy .. 2 * AlignBy - 1
  PROVE  /\ Aligned!Aligned(u) \in Nat /\ Aligned!Aligned(u) % AlignBy = 0
         /\ Covers(Aligned!Moved(u, num), Aligned!Aligned(u), num)
         /\ Same(block, last, Aligned!Moved(u, num), Aligned!Aligned(u), count)
<1> DEFINE a == Aligned!Aligned(u)  b == Aligned!Moved(u, num)
           D == u .. u + num + AlignBy - 2
<1>1. AlignBy \in Nat \ {0} /\ u \in Nat
  BY InstanceAssumption DEF Aligned!Assumption
<1>2. a \in Nat /\ u <= a /\ a <= u + AlignBy - 1 /\ a % AlignBy = 0
  BY <1>1, RoundUp DEF Aligned!Aligned
<1>3. b = [k \in D |-> IF k \in a .. a + count - 1 THEN block[k - a + last] ELSE Junk]
  BY DEF Aligned!Moved, Aligned!Copied, Aligned!Allocated
<1> HIDE DEF a, b
<1>4. \A j \in 0 .. num-1 : a + j \in D
  BY <1>1, <1>2
<1>5. Covers(b, a, num)
  BY <1>3, <1>4 DEF Covers
<1>6. \A j \in 0 .. count-1 : /\ j \in 0 .. num-1 /\ a + j \in a .. a + count - 1
                              /\ (a + j) - a + last = last + j
  BY <1>2 DEF AlignedInv
<1>7. Same(block, last, b, a, count)
  BY <1>3, <1>4, <1>6 DEF Same
<1> QED
  BY <1>2, <1>5, <1>7 DEF a, b

LEMMA AlignedReserve ==
  ASSUME AlignedInv, NEW num \in -1 .. Limit, Aligned!Reserve(num)
  PROVE  AlignedInv' /\ Aligned!AbstractStep
<1>1. Aligned!Contents = Segment(block, last, count)
  BY AlignedContents
<1>2. CASE num < 0 /\ Aligned!Error
  BY <1>2 DEF Aligned!Error, Aligned!buffers, Aligned!AbstractStep, AlignedInv
<1>3. CASE /\ num = 0 /\ block' = Aligned!Null /\ last' = 0 /\ size' = 0 /\ count' = 0
           /\ UNCHANGED <<failed, out>>
  <2>1. AlignedInv'
    <3>1. 0 % AlignBy = 0
      BY InstanceAssumption DEF Aligned!Assumption
    <3> QED
      BY <1>3, <3>1 DEF AlignedInv, Has, Covers
  <2>2. Aligned!Contents' = <<>>
    BY <1>3 DEF Aligned!Contents
  <2>3. Aligned!Abstract!Reserve(num) /\ num \in 0 .. Limit
    BY <1>3, <2>2 DEF Aligned!Abstract!Reserve, Aligned!Reserve
  <2> QED
    BY <2>1, <2>3 DEF Aligned!AbstractStep, Aligned!Abstract!VectorNext
<1>4. CASE num > 0 /\ Aligned!Contents' = Aligned!Contents /\ UNCHANGED out /\ AlignedInv'
  <2>1. Aligned!Abstract!Reserve(num) /\ num \in 0 .. Limit
    BY <1>4 DEF Aligned!Abstract!Reserve, Aligned!Reserve
  <2> QED
    BY <1>4, <2>1 DEF Aligned!AbstractStep, Aligned!Abstract!VectorNext
<1>5. CASE num > 0 /\ UNCHANGED <<Aligned!buffers, failed, out>>
  BY <1>4, <1>5 DEF AlignedInv, Aligned!Contents, Aligned!buffers
<1>6. ASSUME NEW u \in AlignBy .. 2 * AlignBy - 1, num > size, num > 0,
             block' = Aligned!Moved(u, num), last' = Aligned!Aligned(u), size' = num,
             UNCHANGED <<count, failed, out>>
      PROVE  AlignedInv' /\ Aligned!AbstractStep
  <2>1. /\ num \in Nat /\ last' \in Nat /\ last' % AlignBy = 0 /\ Covers(block', last', num)
        /\ Same(block, last, block', last', count)
    BY <1>6, AlignedMoved DEF AlignedInv
  <2>2. AlignedInv'
    BY <1>6, <2>1 DEF AlignedInv, Has, Same
  <2>3. Aligned!Contents' = Aligned!Contents
    BY <1>1, <1>6, <2>1, SegmentMoved, AlignedContentsAfter DEF AlignedInv
  <2> QED
    BY <1>4, <1>6, <2>2, <2>3
<1> QED
  BY <1>2, <1>3, <1>5, <1>6 DEF Aligned!Reserve

\* What SetNum leaves where the block at a, in which the objects are, is long enough.
LEMMA AlignedSetTo ==
  ASSUME AlignedInv, NEW num \in 0 .. Limit, NEW b, NEW a \in Nat, a % AlignBy = 0,
         NEW n \in Nat, num <= n, Covers(b, a, n), Same(block, last, b, a, count),
         block' = Aligned!Filled(b, a + count, num - count, Zero), last' = a, size' = n,
         count' = num, call' = <<"SetNum", num>>, UNCHANGED <<failed, out>>
  PROVE  AlignedInv' /\ Aligned!AbstractStep
<1>1. Aligned!Contents = Segment(block, last, count)
  BY AlignedContents
<1>2. num \in Nat /\ count \in Nat
  BY DEF AlignedInv
<1>3. block' = [k \in DOMAIN b |-> IF k \in a + count .. a + num - 1 THEN Zero ELSE b[k]]
  <2>1. (a + count) + (num - count) - 1 = a + num - 1
    BY <1>2
  <2> QED
    BY <2>1 DEF Aligned!Filled
<1>4. Covers(block', a, n)
  BY <1>3 DEF Covers
<1>5. Resized(block, last, count, block', a, num, Zero)
  <2> SUFFICES ASSUME NEW j \in 0 .. num-1
               PROVE  block'[a + j] = IF j < count THEN block[last + j] ELSE Zero
    BY DEF Resized
  <2>1. /\ j \in 0 .. n-1 /\ (j < count <=> j \in 0 .. count-1)
        /\ (a + j \in a + count .. a + num - 1 <=> ~(j < count))
    BY <1>2
  <2>2. a + j \in DOMAIN b
    BY <2>1 DEF Covers
  <2>3. j < count => b[a + j] = block[last + j]
    BY <2>1 DEF Same
  <2> QED
    BY <1>3, <2>1, <2>2, <2>3
<1>6. AlignedInv'
  <2>1. Has(block', a, num, Few \cup {Zero})
    <3> SUFFICES ASSUME NEW j \in 0 .. num-1 PROVE block'[a + j] \in Few \cup {Zero}
      BY DEF Has
    <3>1. block'[a + j] = IF j < count THEN block[last + j] ELSE Zero
      BY <1>5 DEF Resized
    <3>2. j < count => j \in 0 .. count-1
      BY <1>2
    <3> QED
      BY <3>1, <3>2 DEF AlignedInv, Has
  <2> QED
    BY <1>2, <1>4, <2>1 DEF AlignedInv
<1>7. Aligned!Contents' = Segment(block', a, num)
  BY <1>2, AlignedContentsAfter
<1>8. OfLength(Aligned!Contents, num, Zero, Aligned!Contents')
  BY <1>1, <1>2, <1>5, <1>7, SegmentResized DEF AlignedInv
<1>9. Aligned!Abstract!Resize("SetNum", num, num)
  BY <1>8 DEF Aligned!Abstract!Resize, OfLength
<1> QED
  BY <1>6, <1>9 DEF Aligned!AbstractStep, Aligned!Abstract!VectorNext

LEMMA AlignedSetNum ==
  ASSUME AlignedInv, NEW num \in -1 .. Limit, Aligned!SetNum(num)
  PROVE  AlignedInv' /\ Aligned!AbstractStep
<1>1. CASE num < 0 /\ Aligned!Error
  BY <1>1 DEF Aligned!Error, Aligned!buffers, Aligned!AbstractStep, AlignedInv
<1>2. ASSUME NEW u \in AlignBy .. 2 * AlignBy - 1, num >= 0, num > size,
             block' = Aligned!Filled(Aligned!Moved(u, num), Aligned!Aligned(u) + count,
                                     num - count, Zero),
             last' = Aligned!Aligned(u), size' = num, count' = num,
             call' = <<"SetNum", num>>, UNCHANGED <<failed, out>>
      PROVE  AlignedInv' /\ Aligned!AbstractStep
  <2>1. num \in Nat /\ num \in 0 .. Limit /\ num <= num
    BY <1>2
  <2> DEFINE a == Aligned!Aligned(u)  b == Aligned!Moved(u, num)
  <2>2. /\ a \in Nat /\ a % AlignBy = 0 /\ Covers(b, a, num)
        /\ Same(block, last, b, a, count)
    BY <1>2, <2>1, AlignedMoved
  <2>3. block' = Aligned!Filled(b, a + count, num - count, Zero) /\ last' = a
    BY <1>2
  <2> HIDE DEF a, b
  <2> QED
    BY <1>2, <2>1, <2>2, <2>3, AlignedSetTo
<1>3. CASE /\ num >= 0 /\ num <= size /\ UNCHANGED <<first, last, size>>
           /\ block' = Aligned!Filled(block, last + count, num - count, Zero)
           /\ count' = num /\ call' = <<"SetNum", num>> /\ UNCHANGED <<failed, out>>
  <2>1. num \in 0 .. Limit /\ Same(block, last, block, last, count)
    BY <1>3 DEF Same
  <2> QED
    BY <1>3, <2>1, AlignedSetTo DEF AlignedInv
<1> QED
  BY <1>1, <1>2, <1>3 DEF Aligned!SetNum

LEMMA AlignedAt ==
  ASSUME AlignedInv, NEW i \in -1 .. Limit, Aligned!At(i)
  PROVE  AlignedInv' /\ Aligned!AbstractStep
<1>1. Aligned!Contents = Segment(block, last, count) /\ Len(Aligned!Contents) = count
  BY AlignedContents
<1>2. CASE Aligned!Error
  BY <1>2 DEF Aligned!Error, Aligned!buffers, Aligned!AbstractStep, AlignedInv
<1>3. CASE /\ i \in 0 .. count-1 /\ out' = block[last + i]
           /\ UNCHANGED <<Aligned!buffers, failed>>
  <2>1. i+1 \in 1 .. count /\ (i+1)-1 = i
    BY <1>3 DEF AlignedInv
  <2>2. Aligned!Contents[i+1] = block[last + i]
    BY <1>1, <2>1 DEF Segment
  <2>3. Aligned!Abstract!Fetch(i)
    BY <1>3, <2>2 DEF Aligned!Abstract!Fetch, Aligned!At, Aligned!Contents, Aligned!buffers
  <2> QED
    BY <1>1, <1>3, <2>3
       DEF AlignedInv, Aligned!buffers, Aligned!AbstractStep, Aligned!Abstract!VectorNext
<1> QED
  BY <1>2, <1>3 DEF Aligned!At

LEMMA AlignedAssign ==
  ASSUME AlignedInv, NEW i \in -1 .. Limit, NEW x \in Few, Aligned!Assign(i, x)
  PROVE  AlignedInv' /\ Aligned!AbstractStep
<1>1. Aligned!Contents = Segment(block, last, count) /\ Len(Aligned!Contents) = count
  BY AlignedContents
<1>2. CASE Aligned!Error
  BY <1>2 DEF Aligned!Error, Aligned!buffers, Aligned!AbstractStep, AlignedInv
<1>3. CASE /\ i \in 0 .. count-1 /\ block' = [block EXCEPT ![last + i] = x]
           /\ UNCHANGED <<last, size, count, failed, out>>
  <2>1. Changed(block, last, count, i, x, block') /\ Covers(block', last, size)
    <3>1. \A j \in 0 .. count-1 : j \in 0 .. size-1 /\ (last + j = last + i <=> j = i)
      BY <1>3 DEF AlignedInv
    <3> QED
      BY <1>3, <3>1 DEF AlignedInv, Changed, Covers
  <2>2. AlignedInv'
    BY <1>3, <2>1 DEF AlignedInv, Has, Changed
  <2>3. Aligned!Contents' = Segment(block', last, count)
    BY <1>3, AlignedContentsAfter DEF AlignedInv
  <2>4. Replaced(Aligned!Contents, i, x, Aligned!Contents')
    BY <1>1, <1>3, <2>1, <2>3, SegmentAssigned DEF AlignedInv
  <2>5. Aligned!Abstract!Assign(i, x)
    BY <1>3, <2>4 DEF Aligned!Abstract!Assign, Aligned!Assign, Replaced
  <2> QED
    BY <1>1, <1>3, <2>2, <2>5 DEF Aligned!AbstractStep, Aligned!Abstract!VectorNext
<1> QED
  BY <1>2, <1>3 DEF Aligned!Assign

\* The address of a vector is divisible by its size, and all of it is in the array.
LEMMA AlignedVect ==
  ASSUME AlignedInv, NEW i \in -1 .. Limit, Aligned!Vect(i)
  PROVE  AlignedInv' /\ Aligned!AbstractStep
<1>1. Aligned!Contents = Segment(block, last, count) /\ Len(Aligned!Contents) = count
  BY AlignedContents
<1>2. CASE Aligned!Error
  BY <1>2 DEF Aligned!Error, Aligned!buffers, Aligned!AbstractStep, AlignedInv
<1>3. CASE /\ i % AlignBy = 0 /\ i >= 0 /\ AlignBy - 1 + i < count
           /\ out' = IF (last + i) % AlignBy = 0
                     THEN [k \in 1 .. AlignBy |-> block[last + i + k - 1]]
                     ELSE Junk
           /\ UNCHANGED <<Aligned!buffers, failed>>
  <2>1. /\ AlignBy \in Nat \ {0} /\ i \in Nat /\ i \in 0 .. count-1 /\ i + AlignBy <= count
        /\ last \in Nat /\ count \in Nat
    BY <1>3, InstanceAssumption DEF Aligned!Assumption, AlignedInv
  <2>2. (last + i) % AlignBy = 0
    BY <1>3, <2>1, SumOfMultiples DEF AlignedInv
  <2>3. out' = Slice(block, last, i, AlignBy)
    <3>1. \A k \in 1 .. AlignBy : last + i + k - 1 = last + (i + k - 1)
      BY <2>1
    <3> QED
      BY <1>3, <2>2, <3>1 DEF Slice
  <2>4. Part(Aligned!Contents, i, AlignBy, out')
    BY <1>1, <2>1, <2>3, SegmentRead DEF AlignedInv
  <2>5. Aligned!Abstract!FetchVector(i, AlignBy)
    BY <1>1, <1>3, <2>1, <2>4
       DEF Aligned!Abstract!FetchVector, Aligned!Vect, Aligned!Contents, Aligned!buffers, Part
  <2> QED
    BY <1>1, <1>3, <2>1, <2>5
       DEF AlignedInv, Aligned!buffers, Aligned!AbstractStep, Aligned!Abstract!VectorNext
<1> QED
  BY <1>2, <1>3 DEF Aligned!Vect

LEMMA AlignedStep ==
  ASSUME AlignedInv, Aligned!Next
  PROVE  AlignedInv' /\ Aligned!AbstractStep
BY AlignedReserve, AlignedSetNum, AlignedAt, AlignedAssign, AlignedVect DEF Aligned!Next

-----------------------------------------------------------------------------
(* MixedPool.                                                              *)

Unit == Few \cup {Zero}

\* The first units of a block of m are the data of the pool, and the rest is zero.
Extends(b, m) ==
    /\ m \in Nat /\ last <= m
    /\ b \in [0 .. m-1 -> Unit]
    /\ \A k \in 0 .. m-1 : b[k] = IF k < last THEN block[k] ELSE Zero

\* What lies beyond the data is zero.
MixedInv == size \in Nat /\ last \in Nat /\ Extends(block, size)

LEMMA MixedStarts ==
  ASSUME Mixed!Init
  PROVE  MixedInv /\ Mixed!AbstractInit
BY DEF Mixed!Init, Mixed!AbstractInit, Mixed!Abstract!Empty, Mixed!Contents, Mixed!Null,
       MixedInv, Extends

LEMMA MixedContents ==
  ASSUME MixedInv
  PROVE  /\ Mixed!Contents = Segment(block, 0, last) /\ Len(Mixed!Contents) = last
         /\ Has(block, 0, last, Unit) /\ last \in Nat
<1>1. last \in Nat
  BY DEF MixedInv
<1>2. Mixed!Contents = Beginning(block, last)
  BY DEF Mixed!Contents, Beginning
<1>3. Has(block, 0, last, Unit)
  <2>1. \A j \in 0 .. last-1 : j \in 0 .. size-1 /\ 0 + j = j
    BY DEF MixedInv, Extends
  <2> QED
    BY <2>1 DEF MixedInv, Extends, Has
<1>4. Len(Segment(block, 0, last)) = last
  BY <1>1, <1>3, SegmentTyped
<1> QED
  BY <1>1, <1>2, <1>3, <1>4, FromStart

LEMMA MixedContentsAfter ==
  ASSUME last' \in Nat
  PROVE  Mixed!Contents' = Segment(block', 0, last')
<1>1. Mixed!Contents' = Beginning(block', last')
  BY DEF Mixed!Contents, Beginning
<1> QED
  BY <1>1, FromStart

LEMMA MixedRoundedUp ==
  ASSUME NEW n \in Nat
  PROVE  Mixed!RoundedUp(n) \in Nat /\ n <= Mixed!RoundedUp(n)
BY RoundUp, InstanceAssumption DEF Mixed!Assumption, Mixed!RoundedUp

LEMMA MixedEnlarged ==
  ASSUME MixedInv, NEW m \in Nat, m >= size
  PROVE  Extends(Mixed!Enlarged(m), m)
<1>1. \A k \in 0 .. m-1 : /\ k \in 0 .. 0 + m - 1 /\ k - 0 + 0 = k
                          /\ k \in 0 .. 0 + size - 1 <=> k \in 0 .. size-1
  BY DEF MixedInv
<1>2. Mixed!Enlarged(m) = [k \in 0 .. m-1 |-> IF k \in 0 .. size-1 THEN block[k] ELSE Zero]
  BY <1>1 DEF Mixed!Enlarged, Mixed!Copied, Mixed!Filled, Mixed!New
<1>3. \A k \in 0 .. m-1 : k < last => k \in 0 .. size-1
  BY DEF MixedInv, Extends
<1> QED
  BY <1>2, <1>3 DEF MixedInv, Extends, Unit

LEMMA MixedReserved ==
  ASSUME MixedInv, NEW n \in Nat
  PROVE  /\ Extends(Mixed!Reserved(n), Mixed!ReservedSize(n))
         /\ n <= Mixed!ReservedSize(n)
<1>1. CASE n <= size
  BY <1>1 DEF Mixed!Reserved, Mixed!ReservedSize, MixedInv
<1>2. CASE ~(n <= size)
  <2>1. Mixed!RoundedUp(n) \in Nat /\ n <= Mixed!RoundedUp(n) /\ Mixed!RoundedUp(n) >= size
    BY <1>2, MixedRoundedUp DEF MixedInv
  <2> QED
    BY <1>2, <2>1, MixedEnlarged DEF Mixed!Reserved, Mixed!ReservedSize
<1> QED
  BY <1>1, <1>2

LEMMA MixedReserve ==
  ASSUME MixedInv, NEW n \in -1 .. PoolLimit, Mixed!ReserveSize(n)
  PROVE  MixedInv' /\ Mixed!AbstractStep
<1>1. /\ Mixed!Contents = Segment(block, 0, last) /\ last \in Nat
  BY MixedContents
<1>2. CASE n < 0 /\ Mixed!Error
  BY <1>2 DEF Mixed!Error, Mixed!pool, Mixed!AbstractStep, MixedInv, Extends
<1>3. CASE /\ n = 0 /\ block' = Mixed!Null /\ size' = 0 /\ last' = 0
           /\ UNCHANGED <<failed, out>>
  <2>1. MixedInv'
    BY <1>3, NoBlock DEF MixedInv, Extends, Mixed!Null
  <2>2. Mixed!Contents' = <<>>
    BY <1>3 DEF Mixed!Contents
  <2>3. Mixed!Abstract!Reserve(n) /\ n \in 0 .. PoolLimit
    BY <1>3, <2>2 DEF Mixed!Abstract!Reserve, Mixed!ReserveSize
  <2> QED
    BY <2>1, <2>3 DEF Mixed!AbstractStep, Mixed!Abstract!PoolNext
<1>4. CASE /\ n > 0 /\ block' = Mixed!Reserved(n) /\ size' = Mixed!ReservedSize(n)
           /\ UNCHANGED <<last, failed, out>>
  <2>1. Extends(block', size')
    BY <1>4, MixedReserved
  <2>2. MixedInv'
    BY <1>1, <1>4, <2>1 DEF MixedInv, Extends
  <2>3. Same(block, 0, block', 0, last)
    <3>1. size' \in Nat /\ last <= size'
      BY <2>1 DEF Extends
    <3> DEFINE m == size'
    <3>2. m \in Nat /\ last <= m /\ last \in Nat
      BY <1>1, <3>1
    <3> HIDE DEF m
    <3>3. \A j \in 0 .. last-1 : j \in 0 .. m-1 /\ 0 + j = j /\ j < last
      BY <3>2
    <3> QED
      BY <2>1, <3>3 DEF Same, Extends, m
  <2>4. Mixed!Contents' = Mixed!Contents
    BY <1>1, <1>4, <2>3, SegmentMoved, MixedContentsAfter
  <2>5. Mixed!Abstract!Reserve(n) /\ n \in 0 .. PoolLimit
    BY <1>4, <2>4 DEF Mixed!Abstract!Reserve, Mixed!ReserveSize
  <2> QED
    BY <2>2, <2>5 DEF Mixed!AbstractStep, Mixed!Abstract!PoolNext
<1> QED
  BY <1>2, <1>3, <1>4 DEF Mixed!ReserveSize

\* The data become n units: the first of them are those there were, the others
\* are zero without being written.
LEMMA MixedSetTo ==
  ASSUME MixedInv, NEW n \in Nat, NEW m \in Nat, n <= m, block' \in [0 .. m-1 -> Unit],
         \A k \in 0 .. m-1 : block'[k] = IF k < n /\ k < last THEN block[k] ELSE Zero,
         size' = m, last' = n
  PROVE  MixedInv' /\ OfLength(Mixed!Contents, n, Zero, Mixed!Contents')
<1>1. /\ Mixed!Contents = Segment(block, 0, last) /\ Has(block, 0, last, Unit)
      /\ last \in Nat
  BY MixedContents
<1>2. MixedInv'
  <2>1. \A k \in 0 .. m-1 : ~(k < n) => block'[k] = Zero
    OBVIOUS
  <2> QED
    BY <2>1 DEF MixedInv, Extends, Unit
<1>3. Resized(block, 0, last, block', 0, n, Zero)
  <2>1. \A j \in 0 .. n-1 : j \in 0 .. m-1 /\ 0 + j = j /\ j < n
    OBVIOUS
  <2> QED
    BY <2>1 DEF Resized
<1>4. Mixed!Contents' = Segment(block', 0, n)
  BY MixedContentsAfter
<1>5. OfLength(Mixed!Contents, n, Zero, Mixed!Contents')
  BY <1>1, <1>3, <1>4, SegmentResized
<1> QED
  BY <1>2, <1>5

LEMMA MixedSetDataSize ==
  ASSUME MixedInv, NEW n \in -1 .. PoolLimit, Mixed!SetDataSize(n)
  PROVE  MixedInv' /\ Mixed!AbstractStep
<1> DEFINE larger == Mixed!RoundedUp(n + Increment)
           m == IF n > size THEN Mixed!ReservedSize(larger) ELSE size
           b == IF n > size THEN Mixed!Reserved(larger)
                ELSE IF n < last THEN Mixed!Filled(block, n, last - n, Zero) ELSE block
<1>1. CASE n < 0 /\ Mixed!Error
  BY <1>1 DEF Mixed!Error, Mixed!pool, Mixed!AbstractStep, MixedInv, Extends
<1>2. CASE n >= 0 /\ block' = b /\ size' = m /\ last' = n /\ UNCHANGED <<failed, out>>
  <2>1. n \in Nat /\ n \in 0 .. PoolLimit /\ last \in Nat /\ size \in Nat /\ last <= size
    BY <1>2 DEF MixedInv, Extends
  <2>2. /\ m \in Nat /\ n <= m /\ b \in [0 .. m-1 -> Unit]
        /\ \A k \in 0 .. m-1 : b[k] = IF k < n /\ k < last THEN block[k] ELSE Zero
    <3>1. CASE n > size
      <4>1. larger \in Nat /\ n <= larger
        <5>1. n + Increment \in Nat /\ n <= n + Increment
          BY <2>1, InstanceAssumption DEF Mixed!Assumption
        <5> QED
          BY <2>1, <5>1, MixedRoundedUp
      <4> HIDE DEF larger
      <4>2. Extends(b, m) /\ larger <= m
        BY <3>1, <4>1, MixedReserved
      <4> QED
        BY <2>1, <3>1, <4>1, <4>2 DEF Extends
    <3>2. CASE ~(n > size) /\ n < last
      <4>1. m = size /\ b = [k \in 0 .. size-1 |-> IF k \in n .. n + (last - n) - 1 THEN Zero
                                                   ELSE block[k]]
        BY <3>2 DEF Mixed!Filled, MixedInv, Extends
      <4> HIDE DEF b, m
      <4>2. \A k \in 0 .. size-1 : /\ k \in n .. n + (last - n) - 1 <=> ~(k < n) /\ k < last
                                   /\ k < n => k < last
        BY <2>1, <3>2
      <4>3. \A k \in 0 .. size-1 : b[k] = IF k < n /\ k < last THEN block[k] ELSE Zero
        BY <2>1, <4>1, <4>2 DEF MixedInv, Extends
      <4>4. b \in [0 .. size-1 -> Unit]
        BY <4>1 DEF MixedInv, Extends, Unit
      <4> QED
        BY <2>1, <3>2, <4>1, <4>3, <4>4
    <3>3. CASE ~(n > size) /\ ~(n < last)
      BY <2>1, <3>3 DEF MixedInv, Extends
    <3> QED
      BY <3>1, <3>2, <3>3
  <2> HIDE DEF b, m
  <2>3. MixedInv' /\ OfLength(Mixed!Contents, n, Zero, Mixed!Contents')
    BY <1>2, <2>1, <2>2, MixedSetTo
  <2>4. Mixed!Abstract!Resize("SetDataSize", n, n)
    BY <1>2, <2>3 DEF Mixed!Abstract!Resize, OfLength, Mixed!SetDataSize
  <2> QED
    BY <2>1, <2>3, <2>4 DEF Mixed!AbstractStep, Mixed!Abstract!PoolNext
<1> QED
  BY <1>1, <1>2 DEF Mixed!SetDataSize

LEMMA MixedAlign ==
  ASSUME MixedInv, NEW a \in 1 .. PoolLimit, Mixed!Align(a)
  PROVE  MixedInv' /\ Mixed!AbstractStep
<1> DEFINE n == ((last + a - 1) \div a) * a
           larger == n * 2 + Increment
           m == IF n > size THEN Mixed!ReservedSize(larger) ELSE size
           b == IF n > size THEN Mixed!Reserved(larger) ELSE block
<1>1. last \in Nat /\ size \in Nat /\ last <= size /\ a \in Nat \ {0}
  BY DEF MixedInv, Extends
<1>2. n \in Nat /\ last <= n
  BY <1>1, RoundUp
<1>3. block' = b /\ size' = m /\ last' = n /\ UNCHANGED <<failed, out>>
  BY DEF Mixed!Align
<1>4. Len(Mixed!Contents) = last
  BY MixedContents
<1>5. call' = <<"Align", a>> /\ ((Len(Mixed!Contents) + a - 1) \div a) * a = n
  BY <1>4 DEF Mixed!Align
<1> HIDE DEF n
<1>6. Extends(b, m) /\ n <= m
  <2>1. CASE n > size
    <3>1. larger \in Nat /\ n <= larger
      BY <1>2, InstanceAssumption DEF Mixed!Assumption
    <3> HIDE DEF larger
    <3>2. Extends(b, m) /\ larger <= m
      BY <2>1, <3>1, MixedReserved
    <3> QED
      BY <1>2, <2>1, <3>1, <3>2 DEF Extends
  <2>2. CASE ~(n > size)
    BY <1>1, <1>2, <2>2 DEF MixedInv
  <2> QED
    BY <2>1, <2>2
<1> HIDE DEF m, b
<1>7. /\ m \in Nat /\ b \in [0 .. m-1 -> Unit]
      /\ \A k \in 0 .. m-1 : b[k] = IF k < n /\ k < last THEN block[k] ELSE Zero
  BY <1>1, <1>2, <1>6 DEF Extends
<1>8. MixedInv' /\ OfLength(Mixed!Contents, n, Zero, Mixed!Contents')
  BY <1>2, <1>3, <1>6, <1>7, MixedSetTo
<1>9. Mixed!Abstract!Resize("Align", a, n)
  BY <1>3, <1>5, <1>8 DEF Mixed!Abstract!Resize, OfLength
<1>10. a \in (0 .. PoolLimit) \ {0}
  OBVIOUS
<1> QED
  BY <1>5, <1>8, <1>9, <1>10 DEF Mixed!AbstractStep, Mixed!Abstract!PoolNext

\* The n units xs are written behind the data.
LEMMA MixedPushed ==
  ASSUME MixedInv, NEW n \in 0 .. MaxSize, NEW xs \in [1 .. n -> Unit],
         NEW m \in Nat, last + n <= m, block' \in [0 .. m-1 -> Unit],
         \A j \in 0 .. m-1 : block'[j] = IF j < last THEN block[j]
                                         ELSE IF j < last + n THEN xs[j - last + 1] ELSE Zero,
         size' = m, last' = last + n, out' = last, UNCHANGED failed, call' = <<"Push", xs>>
  PROVE  MixedInv' /\ Mixed!AbstractStep
<1> DEFINE f == Mixed!Contents  g == Mixed!Contents'
<1>1. /\ f = Segment(block, 0, last) /\ Len(f) = last
      /\ Has(block, 0, last, Unit) /\ last \in Nat
  BY MixedContents
<1>2. n \in Nat /\ last + n \in Nat
  BY <1>1
<1>3. MixedInv'
  <2>1. \A j \in 0 .. m-1 : ~(j < last + n) => block'[j] = Zero
    BY <1>1, <1>2
  <2> QED
    BY <1>2, <2>1 DEF MixedInv, Extends
<1>4. g = Segment(block', 0, last + n)
  BY <1>2, MixedContentsAfter
<1>5. f \in [1 .. last -> Unit]
  BY <1>1, SegmentTyped
<1>6. g \in [1 .. last + n -> Unit]
  <2> DEFINE l == last + n
  <2>1. l \in Nat /\ Has(block', 0, l, Unit)
    <3>1. \A j \in 0 .. l-1 : j \in 0 .. m-1 /\ 0 + j = j
      BY <1>2
    <3> QED
      BY <1>2, <3>1 DEF Has
  <2>2. g = Segment(block', 0, l)
    BY <1>4
  <2> HIDE DEF l, g
  <2>3. g \in [1 .. l -> Unit]
    BY <2>1, <2>2, SegmentTyped
  <2> QED
    BY <2>3 DEF l
<1>7. \A i \in 1 .. last : g[i] = f[i]
  <2>1. \A i \in 1 .. last : /\ i \in 1 .. last + n /\ 0 + (i-1) \in 0 .. m-1
                             /\ 0 + (i-1) < last
    BY <1>1, <1>2
  <2> QED
    BY <1>1, <1>4, <2>1 DEF Segment
<1>8. \A j \in 1 .. n : g[last + j] = xs[j]
  <2>1. \A j \in 1 .. n : /\ last + j \in 1 .. last + n
                          /\ 0 + ((last + j) - 1) \in 0 .. m-1
                          /\ ~(0 + ((last + j) - 1) < last)
                          /\ 0 + ((last + j) - 1) < last + n
                          /\ (0 + ((last + j) - 1)) - last + 1 = j
    BY <1>1, <1>2
  <2> QED
    BY <1>4, <2>1 DEF Segment
<1> HIDE DEF f, g
<1>9. Joined(f, xs, g)
  BY <1>1, <1>2, <1>5, <1>6, <1>7, <1>8, JoinedTo, ZenonT(60)
<1>10. Mixed!Abstract!AddAll("Push", xs, Len(Mixed!Contents))
  BY <1>1, <1>9 DEF f, g, Mixed!Abstract!AddAll, Joined
<1>11. xs \in UNION {[1 .. l -> Few \cup {Zero}] : l \in 0 .. MaxSize}
  BY DEF Unit
<1> QED
  BY <1>3, <1>10, <1>11 DEF Mixed!AbstractStep, Mixed!Abstract!PoolNext

\* The block Push writes to has room for what it writes.
LEMMA MixedGrown ==
  ASSUME MixedInv, NEW n \in Nat
  PROVE  LET grow == last + n > size
             new == Mixed!RoundedUp((last + n) * 2 + Increment)
             m == IF grow THEN new ELSE size
         IN  Extends(IF grow THEN Mixed!Enlarged(new) ELSE block, m) /\ last + n <= m
<1> DEFINE x == (last + n) * 2 + Increment  new == Mixed!RoundedUp(x)
<1>1. last \in Nat /\ size \in Nat /\ Extends(block, size)
  BY DEF MixedInv
<1>2. x \in Nat /\ last + n <= x
  BY <1>1, InstanceAssumption DEF Mixed!Assumption
<1> HIDE DEF x
<1>3. new \in Nat /\ x <= new
  BY <1>2, MixedRoundedUp
<1>4. CASE last + n > size
  <2>1. last + n <= new /\ new >= size
    BY <1>1, <1>2, <1>3, <1>4
  <2> HIDE DEF new
  <2>2. Extends(Mixed!Enlarged(new), new)
    BY <1>3, <2>1, MixedEnlarged
  <2> QED
    BY <1>4, <2>1, <2>2 DEF new, x
<1>5. CASE ~(last + n > size)
  BY <1>1, <1>5
<1> QED
  BY <1>4, <1>5

\* What is pushed may be part of the pool, in the block that is being replaced.
LEMMA MixedPush ==
  ASSUME MixedInv, NEW n \in 0 .. MaxSize, NEW src, NEW k \in Nat, NEW xs \in [1 .. n -> Unit],
         Mixed!Push(src, k, n), call' = <<"Push", xs>>,
         IF src = Mixed!Null THEN \A j \in 1 .. n : xs[j] = Zero
         ELSE \A j \in 1 .. n : xs[j] = src[k + j - 1]
  PROVE  MixedInv' /\ Mixed!AbstractStep
<1> DEFINE grow == last + n > size
           new == Mixed!RoundedUp((last + n) * 2 + Increment)
           m == IF grow THEN new ELSE size
           b == IF grow THEN Mixed!Enlarged(new) ELSE block
<1>1. n \in Nat /\ last \in Nat
  BY DEF MixedInv
<1>2. Extends(b, m) /\ last + n <= m
  BY <1>1, MixedGrown
<1>3. /\ block' = IF src = Mixed!Null THEN b ELSE Mixed!Copied(b, last, src, k, n)
      /\ size' = m /\ last' = IF n > 0 THEN last + n ELSE last
      /\ out' = last /\ UNCHANGED failed
  BY DEF Mixed!Push
<1> HIDE DEF b, m
<1>4. last' = last + n /\ m \in Nat
  BY <1>1, <1>2, <1>3 DEF Extends
<1>5. \A j \in 0 .. m-1 : j \in last .. last + n - 1 =>
          j - last + 1 \in 1 .. n /\ k + (j - last + 1) - 1 = j - last + k
  BY <1>1, <1>4
<1>6. \A j \in 0 .. m-1 : j \in last .. last + n - 1 <=> ~(j < last) /\ j < last + n
  BY <1>1, <1>4
<1>7. block' = [j \in 0 .. m-1 |-> IF j \in last .. last + n - 1 THEN xs[j - last + 1] ELSE b[j]]
  <2>1. CASE src = Mixed!Null
    <3>1. \A j \in 0 .. m-1 : j \in last .. last + n - 1 => b[j] = Zero /\ xs[j - last + 1] = Zero
      BY <1>2, <1>5, <1>6, <2>1 DEF Extends
    <3>2. b = [j \in 0 .. m-1 |-> b[j]]
      BY <1>2 DEF Extends
    <3> QED
      BY <1>3, <2>1, <3>1, <3>2
  <2>2. CASE src # Mixed!Null
    <3>1. block' = [j \in 0 .. m-1 |-> IF j \in last .. last + n - 1 THEN src[j - last + k] ELSE b[j]]
      BY <1>2, <1>3, <2>2 DEF Mixed!Copied, Extends
    <3>2. \A j \in 0 .. m-1 : j \in last .. last + n - 1 => xs[j - last + 1] = src[j - last + k]
      BY <1>5, <2>2
    <3> QED
      BY <3>1, <3>2
  <2> QED
    BY <2>1, <2>2
<1>8. block' \in [0 .. m-1 -> Unit]
  <2>1. \A j \in 0 .. m-1 : j \in last .. last + n - 1 => xs[j - last + 1] \in Unit
    BY <1>5
  <2>2. \A j \in 0 .. m-1 : b[j] \in Unit
    BY <1>2 DEF Extends
  <2> QED
    BY <1>7, <2>1, <2>2
<1>9. \A j \in 0 .. m-1 : block'[j] = IF j < last THEN block[j]
                                      ELSE IF j < last + n THEN xs[j - last + 1] ELSE Zero
  BY <1>2, <1>6, <1>7 DEF Extends
<1> QED
  BY <1>2, <1>3, <1>4, <1>8, <1>9, MixedPushed

LEMMA MixedGet ==
  ASSUME MixedInv, NEW k \in 0 .. PoolLimit, NEW n \in 1 .. MaxSize, Mixed!Get(k, n)
  PROVE  MixedInv' /\ Mixed!AbstractStep
<1>1. /\ Mixed!Contents = Segment(block, 0, last) /\ Len(Mixed!Contents) = last
      /\ Has(block, 0, last, Unit) /\ last \in Nat
  BY MixedContents
<1>2. CASE Mixed!Error
  BY <1>2 DEF Mixed!Error, Mixed!pool, Mixed!AbstractStep, MixedInv, Extends
<1>3. CASE /\ k < last /\ k + n <= last /\ out' = Mixed!Units(block, k, n)
           /\ UNCHANGED <<Mixed!pool, failed>>
  <2>1. k \in Nat /\ n \in Nat /\ k \in 0 .. last-1
    BY <1>1, <1>3
  <2>2. out' = Slice(block, 0, k, n)
    <3>1. \A j \in 1 .. n : k + j - 1 = 0 + (k + j - 1)
      BY <2>1
    <3> QED
      BY <1>3, <3>1 DEF Slice, Mixed!Units
  <2>3. Part(Mixed!Contents, k, n, out')
    BY <1>1, <1>3, <2>1, <2>2, SegmentRead
  <2>4. Mixed!Abstract!Read(k, n)
    BY <1>1, <1>3, <2>3 DEF Mixed!Abstract!Read, Mixed!Get, Mixed!Contents, Mixed!pool, Part
  <2> QED
    BY <1>1, <1>3, <2>1, <2>4
       DEF MixedInv, Extends, Mixed!pool, Mixed!AbstractStep, Mixed!Abstract!PoolNext
<1> QED
  BY <1>1, <1>2, <1>3 DEF Mixed!Get

LEMMA MixedAssign ==
  ASSUME MixedInv, NEW k \in 0 .. PoolLimit, NEW x \in Few, Mixed!Assign(k, x)
  PROVE  MixedInv' /\ Mixed!AbstractStep
<1>1. /\ Mixed!Contents = Segment(block, 0, last) /\ Len(Mixed!Contents) = last
      /\ Has(block, 0, last, Unit) /\ last \in Nat
  BY MixedContents
<1>2. CASE Mixed!Error
  BY <1>2 DEF Mixed!Error, Mixed!pool, Mixed!AbstractStep, MixedInv, Extends
<1>3. CASE /\ k < last /\ block' = [block EXCEPT ![k] = x]
           /\ UNCHANGED <<size, last, failed, out>>
  <2>1. k \in 0 .. last-1
    BY <1>1, <1>3
  <2>2. MixedInv'
    BY <1>1, <1>3, <2>1 DEF MixedInv, Extends, Unit
  <2>3. Changed(block, 0, last, k, x, block')
    <3>1. \A j \in 0 .. last-1 : j \in 0 .. size-1 /\ 0 + j = j
      BY <1>1 DEF MixedInv, Extends
    <3> QED
      BY <1>3, <2>1, <3>1 DEF MixedInv, Extends, Changed
  <2>4. Mixed!Contents' = Segment(block', 0, last)
    BY <1>1, <1>3, MixedContentsAfter
  <2>5. Replaced(Mixed!Contents, k, x, Mixed!Contents')
    BY <1>1, <2>1, <2>3, <2>4, SegmentAssigned
  <2>6. Mixed!Abstract!Assign(k, x)
    BY <1>3, <2>5 DEF Mixed!Abstract!Assign, Mixed!Assign, Replaced
  <2> QED
    BY <1>1, <2>1, <2>2, <2>6 DEF Mixed!AbstractStep, Mixed!Abstract!PoolNext
<1> QED
  BY <1>2, <1>3 DEF Mixed!Assign

LEMMA MixedStep ==
  ASSUME MixedInv, Mixed!Next
  PROVE  MixedInv' /\ Mixed!AbstractStep
<1>1. ASSUME NEW n \in 0 .. MaxSize, Mixed!PushNull(n)
      PROVE  MixedInv' /\ Mixed!AbstractStep
  <2> DEFINE xs == [j \in 1 .. n |-> Zero]
  <2>1. /\ xs \in [1 .. n -> Unit] /\ \A j \in 1 .. n : xs[j] = Zero
        /\ call' = <<"Push", xs>> /\ Mixed!Push(Mixed!Null, 0, n)
    BY <1>1 DEF Mixed!PushNull, Unit
  <2> HIDE DEF xs
  <2> QED
    BY <2>1, MixedPush
<1>2. ASSUME NEW n \in 1 .. MaxSize, NEW src, src # Mixed!Null, NEW k \in Nat,
             \A j \in 1 .. n : src[k + j - 1] \in Unit,
             call' = <<"Push", Mixed!Units(src, k, n)>>, Mixed!Push(src, k, n)
      PROVE  MixedInv' /\ Mixed!AbstractStep
  <2> DEFINE xs == Mixed!Units(src, k, n)
  <2>1. xs = [j \in 1 .. n |-> src[k + j - 1]] /\ n \in 0 .. MaxSize
    BY InstanceAssumption DEF Mixed!Assumption, Mixed!Units
  <2>2. call' = <<"Push", xs>>
    BY <1>2
  <2> HIDE DEF xs
  <2>3. xs \in [1 .. n -> Unit]
    BY <1>2, <2>1
  <2>4. \A j \in 1 .. n : xs[j] = src[k + j - 1]
    BY <2>1
  <2> QED
    BY <1>2, <2>1, <2>2, <2>3, <2>4, MixedPush
<1>3. ASSUME NEW n \in 1 .. MaxSize, NEW x \in Few, Mixed!PushObject([j \in 0 .. n-1 |-> x], n)
      PROVE  MixedInv' /\ Mixed!AbstractStep
  <2> DEFINE src == [j \in 0 .. n-1 |-> x]
  <2>1. src # Mixed!Null
    <3>1. 0 \in DOMAIN src
      OBVIOUS
    <3> QED
      BY <3>1 DEF Mixed!Null
  <2>2. \A j \in 1 .. n : src[0 + j - 1] \in Unit
    BY DEF Unit
  <2>3. call' = <<"Push", Mixed!Units(src, 0, n)>> /\ Mixed!Push(src, 0, n)
    BY <1>3 DEF Mixed!PushObject
  <2> HIDE DEF src
  <2> QED
    BY <1>2, <2>1, <2>2, <2>3
<1>4. ASSUME NEW k \in 0 .. PoolLimit, NEW n \in 1 .. MaxSize, Mixed!PushOwn(k, n)
      PROVE  MixedInv' /\ Mixed!AbstractStep
  <2>1. k + n <= last /\ k \in Nat /\ last <= size /\ size \in Nat /\ last \in Nat
    BY <1>4 DEF Mixed!PushOwn, MixedInv, Extends
  <2>2. block # Mixed!Null
    <3>1. 0 \in DOMAIN block
      BY <2>1 DEF MixedInv, Extends
    <3> QED
      BY <3>1 DEF Mixed!Null
  <2>3. \A j \in 1 .. n : block[k + j - 1] \in Unit
    <3>1. \A j \in 1 .. n : k + j - 1 \in 0 .. size-1
      BY <2>1
    <3> QED
      BY <3>1 DEF MixedInv, Extends
  <2> QED
    BY <1>2, <1>4, <2>1, <2>2, <2>3 DEF Mixed!PushOwn
<1> QED
  BY <1>1, <1>3, <1>4, MixedReserve, MixedSetDataSize, MixedAlign, MixedGet, MixedAssign
     DEF Mixed!Next

-----------------------------------------------------------------------------
(* DynamicQueue: a ring that wraps around.                                 *)

QueueBlock(n) == [0 .. n-1 -> Values \cup {Junk}]

\* The entries lie from tail on, around the ring, up to head.
QueueRing ==
    /\ size = 0 => last = 0 /\ first = 0
    /\ size > 0 => last = Queue!Slot(count)

\* None of them is memory that nothing was written to.
QueueStored == \A i \in 0 .. count-1 : block[Queue!Slot(i)] \in Values

QueueInv == Queue!TypeOK /\ QueueRing /\ QueueStored

QueueTypes ==
    /\ size \in Nat /\ count \in Nat /\ count <= size
    /\ last \in Nat /\ first \in Nat
    /\ size > 0 => last < size /\ first < size
    /\ block \in QueueBlock(size)

-----------------------------------------------------------------------------
(* Blocks and the ring.                                                    *)

LEMMA QueueTypesOfInv == ASSUME QueueInv PROVE QueueTypes
BY DEF QueueInv, Queue!TypeOK, QueueTypes, QueueBlock

\* What memcpy does, where both ranges are inside their blocks.
LEMMA QueueCopied ==
  ASSUME NEW n \in Nat, NEW m \in Nat, NEW dst \in QueueBlock(n), NEW src \in QueueBlock(m),
         NEW d \in Nat, NEW s \in Nat, NEW k \in Nat, s + k <= m
  PROVE  /\ Queue!Copied(dst, d, src, s, k) \in QueueBlock(n)
         /\ \A i \in 0 .. n-1 :
              Queue!Copied(dst, d, src, s, k)[i] = IF d <= i /\ i < d + k THEN src[i - d + s] ELSE dst[i]
<1>1. DOMAIN dst = 0 .. n-1
  BY DEF QueueBlock
<1>2. ASSUME NEW i \in 0 .. n-1
      PROVE  (i \in d .. d+k-1) <=> (d <= i /\ i < d + k)
  OBVIOUS
<1>3. ASSUME NEW i \in 0 .. n-1, d <= i, i < d + k
      PROVE  src[i - d + s] \in Values \cup {Junk}
  <2>1. i - d + s \in 0 .. m-1
    BY <1>3
  <2> QED
    BY <2>1 DEF QueueBlock
<1>4. ASSUME NEW i \in 0 .. n-1
      PROVE  dst[i] \in Values \cup {Junk}
  BY DEF QueueBlock
<1> QED
  BY <1>1, <1>2, <1>3, <1>4 DEF Queue!Copied, QueueBlock

\* The same for a new block that is written from its beginning on.
LEMMA QueueCopiedToNew ==
  ASSUME NEW n \in Nat, NEW m \in Nat, NEW src \in QueueBlock(m), NEW s \in Nat, NEW k \in Nat, s + k <= m
  PROVE  /\ Queue!Copied(Queue!New(n), 0, src, s, k) \in QueueBlock(n)
         /\ \A i \in 0 .. n-1 : i < k => Queue!Copied(Queue!New(n), 0, src, s, k)[i] = src[i + s]
<1>1. Queue!New(n) \in QueueBlock(n)
  BY DEF Queue!New, QueueBlock
<1>2. ASSUME NEW d \in Nat, d = 0
      PROVE  /\ Queue!Copied(Queue!New(n), d, src, s, k) \in QueueBlock(n)
             /\ \A i \in 0 .. n-1 :
                  Queue!Copied(Queue!New(n), d, src, s, k)[i] = IF d <= i /\ i < d + k THEN src[i - d + s] ELSE Queue!New(n)[i]
  BY <1>1, QueueCopied
<1>3. ASSUME NEW i \in 0 .. n-1, i < k
      PROVE  0 <= i /\ i < 0 + k /\ i - 0 + s = i + s
  BY <1>3
<1> QED
  BY <1>2, <1>3

LEMMA QueueNewBlock ==
  ASSUME NEW n \in Nat
  PROVE  Queue!New(n) \in QueueBlock(n)
BY DEF Queue!New, QueueBlock

\* Only a queue without a ring has no block.
LEMMA QueueNullBlock ==
  ASSUME QueueTypes
  PROVE  block = Queue!Null <=> size = 0
<1>1. DOMAIN block = 0 .. size-1
  BY DEF QueueTypes, QueueBlock
<1>2. DOMAIN Queue!Null = {}
  BY DEF Queue!Null
<1>3. CASE size = 0
  <2>1. DOMAIN block = {}
    BY <1>1, <1>3
  <2>2. block = [k \in DOMAIN block |-> block[k]]
    BY DEF QueueTypes, QueueBlock
  <2>3. block = [k \in {} |-> Junk]
    BY <2>1, <2>2
  <2> QED
    BY <2>3, <1>3 DEF Queue!Null
<1>4. CASE size > 0
  <2>1. 0 \in DOMAIN block
    BY <1>1, <1>4 DEF QueueTypes
  <2> QED
    BY <2>1, <1>2, <1>4
<1> QED
  BY <1>3, <1>4 DEF QueueTypes

\* The places of the entries are in the ring, no two the same.
LEMMA QueueSlots ==
  ASSUME QueueTypes, NEW i \in 0 .. count-1
  PROVE  /\ Queue!Slot(i) \in 0 .. size-1
         /\ count < size => Queue!Slot(count) # Queue!Slot(i)
BY DEF QueueTypes, Queue!Slot

\* A larger block has the entries from its beginning on.
LEMMA QueueReAllocated ==
  ASSUME QueueInv, NEW num \in Nat, num > size
  PROVE  /\ Queue!ReAllocated(num) \in QueueBlock(num)
         /\ \A i \in 0 .. count-1 : Queue!ReAllocated(num)[i] = block[Queue!Slot(i)]
         /\ Queue!HeadAfter = count /\ Queue!TailAfter = 0
<1>1. QueueTypes
  BY QueueTypesOfInv
<1>2. Queue!New(num) \in QueueBlock(num)
  BY QueueNewBlock
<1>3. CASE size = 0
  <2>1. block = Queue!Null /\ count = 0 /\ last = 0 /\ first = 0
    BY <1>1, <1>3, QueueNullBlock DEF QueueInv, QueueRing, QueueTypes
  <2> QED
    BY <1>2, <2>1 DEF Queue!ReAllocated, Queue!HeadAfter, Queue!TailAfter
<1>4. CASE size > 0
  <2>1. block # Queue!Null
    BY <1>1, <1>4, QueueNullBlock
  <2>2. Queue!HeadAfter = count /\ Queue!TailAfter = 0
    BY <2>1 DEF Queue!HeadAfter, Queue!TailAfter
  <2>3. last = Queue!Slot(count)
    BY <1>4 DEF QueueInv, QueueRing
  <2>4. CASE first < last
    <3>1. first + count = last
      BY <1>1, <1>4, <2>3, <2>4 DEF Queue!Slot, QueueTypes
    <3>2. \A i \in 0 .. count-1 : Queue!Slot(i) = first + i
      BY <1>1, <1>4, <3>1 DEF Queue!Slot, QueueTypes
    <3>3. Queue!ReAllocated(num) = Queue!Copied(Queue!New(num), 0, block, first, count)
      BY <2>1, <2>4 DEF Queue!ReAllocated
    <3>4. first + count <= size
      BY <1>1, <1>4, <3>1 DEF QueueTypes
    <3> DEFINE new == Queue!Copied(Queue!New(num), 0, block, first, count)
    <3>5. /\ new \in QueueBlock(num)
          /\ \A i \in 0 .. num-1 : i < count => new[i] = block[i + first]
      BY <1>1, <3>4, QueueCopiedToNew DEF QueueTypes
    <3>6. ASSUME NEW i \in 0 .. count-1
          PROVE  new[i] = block[Queue!Slot(i)]
      <4>1. i \in 0 .. num-1 /\ i < count /\ i + first = first + i
        BY <1>1 DEF QueueTypes
      <4> QED
        BY <3>2, <3>5, <4>1
    <3> QED
      BY <2>2, <3>3, <3>5, <3>6
  <2>5. CASE ~(first < last) /\ count > 0
    <3>1. last = first + count - size
      BY <1>1, <1>4, <2>3, <2>5 DEF Queue!Slot, QueueTypes
    <3> DEFINE part == Queue!Copied(Queue!New(num), 0, block, first, size - first)
               new == Queue!Copied(part, size - first, block, 0, last)
    <3>2. Queue!ReAllocated(num) = new
      BY <2>1, <2>5 DEF Queue!ReAllocated
    <3>3. size - first \in Nat /\ first + (size - first) <= size /\ 0 + last <= size
      BY <1>1, <1>4 DEF QueueTypes
    <3>4. /\ part \in QueueBlock(num)
          /\ \A i \in 0 .. num-1 : i < size - first => part[i] = block[i + first]
      <4> DEFINE k == size - first
      <4>1. k \in Nat /\ first + k <= size /\ size \in Nat /\ first \in Nat /\ block \in QueueBlock(size)
        BY <1>1, <3>3 DEF QueueTypes
      <4> HIDE DEF k
      <4>2. /\ Queue!Copied(Queue!New(num), 0, block, first, k) \in QueueBlock(num)
            /\ \A i \in 0 .. num-1 : i < k => Queue!Copied(Queue!New(num), 0, block, first, k)[i] = block[i + first]
        BY <4>1, QueueCopiedToNew
      <4> QED
        BY <4>2 DEF k
    <3> HIDE DEF part
    <3>5. /\ new \in QueueBlock(num)
          /\ \A i \in 0 .. num-1 :
                new[i] = IF size - first <= i /\ i < (size - first) + last
                         THEN block[i - (size - first) + 0] ELSE part[i]
      BY <1>1, <3>3, <3>4, QueueCopied DEF QueueTypes
    <3> HIDE DEF new
    <3>6. ASSUME NEW i \in 0 .. count-1
          PROVE  new[i] = block[Queue!Slot(i)]
      <4>1. i \in 0 .. num-1
        BY <1>1 DEF QueueTypes
      <4>2. CASE i + first < size
        <5>1. new[i] = part[i]
          BY <1>1, <3>5, <4>1, <4>2 DEF QueueTypes
        <5>2. part[i] = block[i + first]
          BY <1>1, <3>4, <4>1, <4>2 DEF QueueTypes
        <5>3. i + first = Queue!Slot(i)
          BY <1>1, <4>2 DEF Queue!Slot, QueueTypes
        <5> QED
          BY <5>1, <5>2, <5>3
      <4>3. CASE i + first >= size
        <5>1. size - first <= i /\ i < (size - first) + last
          BY <1>1, <3>1, <4>3 DEF QueueTypes
        <5>2. new[i] = block[i - (size - first) + 0]
          BY <3>5, <4>1, <5>1
        <5>3. i - (size - first) + 0 = Queue!Slot(i)
          BY <1>1, <4>3 DEF Queue!Slot, QueueTypes
        <5> QED
          BY <5>2, <5>3
      <4> QED
        BY <1>1, <4>2, <4>3 DEF QueueTypes
    <3> QED
      BY <2>2, <3>2, <3>5, <3>6
  <2>6. CASE ~(first < last) /\ count = 0
    <3>1. Queue!ReAllocated(num) = Queue!New(num)
      BY <2>1, <2>6 DEF Queue!ReAllocated
    <3> QED
      BY <1>2, <2>2, <2>6, <3>1
  <2> QED
    BY <1>1, <2>4, <2>5, <2>6 DEF QueueTypes
<1> QED
  BY <1>1, <1>3, <1>4 DEF QueueTypes

-----------------------------------------------------------------------------
(* The queue as a sequence.                                                *)

LEMMA QueueContents ==
  ASSUME QueueTypes, QueueStored
  PROVE  /\ Queue!Contents \in [1 .. count -> Values]
         /\ \A i \in 1 .. count : Queue!Contents[i] = block[Queue!Slot(i - 1)]
<1>1. ASSUME NEW i \in 1 .. count
      PROVE  block[Queue!Slot(i - 1)] \in Values
  <2>1. i - 1 \in 0 .. count-1
    BY DEF QueueTypes
  <2> QED
    BY <2>1 DEF QueueStored
<1> QED
  BY <1>1 DEF Queue!Contents

LEMMA OneLess ==
  ASSUME NEW n \in Nat, NEW i \in 1 .. n
  PROVE  i - 1 \in 0 .. n-1
OBVIOUS

\* The place, after a step, of the i-th object from the tail.
SlotAfter(i) == IF i + first' >= size' THEN i + first' - size' ELSE i + first'

LEMMA QueueContentsAfter ==
  ASSUME QueueTypes', QueueStored'
  PROVE  /\ Queue!Contents' \in [1 .. count' -> Values]
         /\ \A i \in 1 .. count' : Queue!Contents'[i] = block'[SlotAfter(i - 1)]
<1>0. count' \in Nat
  BY DEF QueueTypes
<1>1. ASSUME NEW i \in 1 .. count'
      PROVE  block'[SlotAfter(i - 1)] \in Values
  <2>1. i - 1 \in 0 .. count'-1
    BY <1>0, OneLess
  <2>2. \A j \in 0 .. count'-1 : block'[SlotAfter(j)] \in Values
    BY DEF QueueStored, Queue!Slot, SlotAfter
  <2> QED
    BY <2>1, <2>2
<1>2. Queue!Contents' = [i \in 1 .. count' |-> block'[SlotAfter(i - 1)]]
  BY DEF Queue!Contents, Queue!Slot, SlotAfter
<1> QED
  BY <1>1, <1>2

\* The entries are the same before and after.
QueueKept == \A i \in 0 .. count-1 : block'[SlotAfter(i)] = block[Queue!Slot(i)]

LEMMA QueueContentsKept ==
  ASSUME QueueTypes, QueueStored, QueueTypes', QueueStored', count' = count, QueueKept
  PROVE  Queue!Contents' = Queue!Contents
<1>1. \A i \in 1 .. count : Queue!Contents'[i] = Queue!Contents[i]
  <2> SUFFICES ASSUME NEW i \in 1 .. count PROVE Queue!Contents'[i] = Queue!Contents[i]
    OBVIOUS
  <2>1. i - 1 \in 0 .. count-1
    BY DEF QueueTypes
  <2>2. block'[SlotAfter(i - 1)] = block[Queue!Slot(i - 1)]
    BY <2>1 DEF QueueKept
  <2> QED
    BY <2>2, QueueContents, QueueContentsAfter
<1>2. /\ Queue!Contents \in Seq(Values) /\ Len(Queue!Contents) = count
      /\ Queue!Contents' \in Seq(Values) /\ Len(Queue!Contents') = count
  BY QueueContents, QueueContentsAfter, SequenceOf DEF QueueTypes
<1> QED
  BY <1>1, <1>2, SeqEqual

LEMMA QueueAppended ==
  ASSUME QueueTypes, QueueStored, QueueTypes', QueueStored', NEW x \in Values,
         count' = count + 1, QueueKept, block'[SlotAfter(count)] = x
  PROVE  Queue!Contents' = Append(Queue!Contents, x)
<1>1. Queue!Contents \in Seq(Values) /\ Len(Queue!Contents) = count
  BY QueueContents, SequenceOf DEF QueueTypes
<1>2. Queue!Contents' \in Seq(Values) /\ Len(Queue!Contents') = count + 1
  BY QueueContentsAfter, SequenceOf DEF QueueTypes
<1>3. Append(Queue!Contents, x) \in Seq(Values) /\ Len(Append(Queue!Contents, x)) = count + 1
  BY <1>1
<1>4. ASSUME NEW i \in 1 .. count + 1
      PROVE  Queue!Contents'[i] = Append(Queue!Contents, x)[i]
  <2>1. Queue!Contents'[i] = block'[SlotAfter(i - 1)]
    BY QueueContentsAfter
  <2>2. CASE i = count + 1
    <3>1. i - 1 = count
      BY <2>2 DEF QueueTypes
    <3>2. Append(Queue!Contents, x)[i] = x
      BY <1>1, <2>2
    <3> QED
      BY <2>1, <3>1, <3>2
  <2>3. CASE i # count + 1
    <3>1. i - 1 \in 0 .. count-1 /\ i \in 1 .. count
      BY <2>3 DEF QueueTypes
    <3>2. block'[SlotAfter(i - 1)] = Queue!Contents[i]
      BY <3>1, QueueContents DEF QueueKept
    <3>3. Append(Queue!Contents, x)[i] = Queue!Contents[i]
      BY <1>1, <3>1
    <3> QED
      BY <2>1, <3>2, <3>3
  <2> QED
    BY <2>2, <2>3
<1> QED
  BY <1>2, <1>3, <1>4, SeqEqual

LEMMA QueueTail ==
  ASSUME QueueTypes, QueueStored, QueueTypes', QueueStored', count > 0, count' = count - 1,
         \A i \in 0 .. count-2 : block'[SlotAfter(i)] = block[Queue!Slot(i + 1)]
  PROVE  Queue!Contents # <<>> /\ Head(Queue!Contents) = block[Queue!Slot(0)] /\ Queue!Contents' = Tail(Queue!Contents)
<1>1. Queue!Contents \in Seq(Values) /\ Len(Queue!Contents) = count
  BY QueueContents, SequenceOf DEF QueueTypes
<1>2. Queue!Contents' \in Seq(Values) /\ Len(Queue!Contents') = count - 1
  BY QueueContentsAfter, SequenceOf DEF QueueTypes
<1>3. Queue!Contents # <<>> /\ Head(Queue!Contents) = Queue!Contents[1]
  BY <1>1 DEF QueueTypes
<1>4. Queue!Contents[1] = block[Queue!Slot(0)]
  <2>1. 1 \in 1 .. count /\ 1 - 1 = 0
    BY DEF QueueTypes
  <2> QED
    BY <2>1, QueueContents
<1>5. /\ Tail(Queue!Contents) \in Seq(Values) /\ Len(Tail(Queue!Contents)) = count - 1
      /\ \A i \in 1 .. count-1 : Tail(Queue!Contents)[i] = Queue!Contents[i + 1]
  BY <1>1, <1>3, HeadTailProperties
<1>6. ASSUME NEW i \in 1 .. count - 1
      PROVE  Queue!Contents'[i] = Tail(Queue!Contents)[i]
  <2>1. Queue!Contents'[i] = block'[SlotAfter(i - 1)]
    BY QueueContentsAfter
  <2>2. i - 1 \in 0 .. count-2 /\ (i - 1) + 1 = i /\ (i + 1) - 1 = i /\ i + 1 \in 1 .. count
    BY DEF QueueTypes
  <2>3. block'[SlotAfter(i - 1)] = block[Queue!Slot(i)]
    BY <2>2
  <2>4. Queue!Contents[i + 1] = block[Queue!Slot(i)]
    BY <2>2, QueueContents
  <2> QED
    BY <1>5, <2>1, <2>3, <2>4
<1> QED
  BY <1>2, <1>3, <1>4, <1>5, <1>6, SeqEqual
-----------------------------------------------------------------------------
(* The steps.                                                              *)

\* The place of the i-th object in a ring of n places with the given tail.
RingPlace(i, t, n) == IF i + t >= n THEN i + t - n ELSE i + t

\* A value is put behind the entries of a block that has room for it.
LEMMA QueuePutInBlock ==
  ASSUME QueueInv, NEW x \in Values, NEW room \in Nat, NEW new \in QueueBlock(room),
         NEW t \in Nat, NEW h \in Nat, t < room, count < room, h = RingPlace(count, t, room),
         \A i \in 0 .. count-1 : new[RingPlace(i, t, room)] = block[Queue!Slot(i)],
         block' = [new EXCEPT ![h] = x], size' = room, first' = t,
         last' = IF h + 1 >= room THEN 0 ELSE h + 1,
         count' = count + 1, failed' \in BOOLEAN
  PROVE  QueueInv' /\ Queue!Contents' = Append(Queue!Contents, x)
<1>1. QueueTypes /\ QueueStored
  BY QueueTypesOfInv DEF QueueInv
<1>2. h \in 0 .. room-1
  BY <1>1 DEF QueueTypes, RingPlace
<1>3. block' \in QueueBlock(room) /\ DOMAIN new = 0 .. room-1
  BY <1>2 DEF QueueBlock
<1>4. last' \in 0 .. room-1 /\ last' = RingPlace(count + 1, t, room)
  BY <1>1, <1>2 DEF QueueTypes, RingPlace
<1>5. Queue!TypeOK' /\ QueueTypes'
  <2>1. count' \in 0 .. size' /\ size' \in Nat
    BY <1>1 DEF QueueTypes
  <2> QED
    BY <1>3, <1>4, <2>1 DEF Queue!TypeOK, QueueTypes, QueueBlock
<1>6. QueueRing'
  BY <1>4 DEF QueueRing, Queue!Slot, RingPlace
<1>7. \A i \in 0 .. count : SlotAfter(i) = RingPlace(i, t, room) /\ RingPlace(i, t, room) \in 0 .. room-1
  BY <1>1 DEF SlotAfter, RingPlace, QueueTypes
<1>8. \A i \in 0 .. count-1 : RingPlace(i, t, room) # h
  BY <1>1, <1>2 DEF RingPlace, QueueTypes
<1>9. QueueKept
  <2> SUFFICES ASSUME NEW i \in 0 .. count-1
               PROVE  block'[SlotAfter(i)] = block[Queue!Slot(i)]
    BY DEF QueueKept
  <2>1. i \in 0 .. count
    BY <1>1 DEF QueueTypes
  <2>2. block'[RingPlace(i, t, room)] = new[RingPlace(i, t, room)]
    BY <1>3, <1>7, <1>8, <2>1
  <2> QED
    BY <1>7, <2>1, <2>2
<1>10. block'[SlotAfter(count)] = x
  <2>1. SlotAfter(count) = h
    BY DEF SlotAfter, RingPlace
  <2> QED
    BY <1>2, <1>3, <2>1
<1>11. QueueStored'
  <2>1. ASSUME NEW i \in 0 .. count
        PROVE  block'[SlotAfter(i)] \in Values
    <3>1. CASE i = count
      BY <1>10, <3>1
    <3>2. CASE i # count
      <4>1. i \in 0 .. count-1
        BY <1>1, <3>2 DEF QueueTypes
      <4> QED
        BY <1>1, <1>9, <4>1 DEF QueueKept, QueueStored
    <3> QED
      BY <3>1, <3>2
  <2>2. 0 .. count'-1 = 0 .. count
    BY <1>1 DEF QueueTypes
  <2> QED
    BY <2>1, <2>2 DEF QueueStored, Queue!Slot, SlotAfter
<1> QED
  BY <1>1, <1>5, <1>6, <1>9, <1>10, <1>11, QueueAppended DEF QueueInv

\* Put appends the object that was passed, also where the ring moves and the
\* object is one of its own.
LEMMA QueuePut ==
  ASSUME Queue!Assumption, QueueInv, NEW x, NEW k, NEW old, NEW obj \in Values, Queue!Put(x, k, old),
         obj = IF k \in DOMAIN old THEN old[k] ELSE x
  PROVE  QueueInv' /\ Queue!Contents' = Append(Queue!Contents, obj) /\ out' = out
<1>1. QueueTypes
  BY QueueTypesOfInv
<1>2. failed' \in BOOLEAN
  BY DEF Queue!Put, QueueInv, Queue!TypeOK
<1>3. CASE count >= size
  <2>1. Queue!NewSize \in Nat /\ Queue!NewSize > size /\ count < Queue!NewSize
    BY <1>1 DEF Queue!NewSize, QueueTypes, Queue!Assumption
  <2>2. /\ Queue!ReAllocated(Queue!NewSize) \in QueueBlock(Queue!NewSize)
        /\ \A i \in 0 .. count-1 : Queue!ReAllocated(Queue!NewSize)[i] = block[Queue!Slot(i)]
        /\ Queue!HeadAfter = count /\ Queue!TailAfter = 0
    BY <2>1, QueueReAllocated
  <2>3. /\ block' = [Queue!ReAllocated(Queue!NewSize) EXCEPT ![count] = obj]
        /\ size' = Queue!NewSize /\ first' = 0
        /\ last' = IF count + 1 >= Queue!NewSize THEN 0 ELSE count + 1
        /\ count' = count + 1
    BY <1>3, <2>2 DEF Queue!Put
  <2>4. count = RingPlace(count, 0, Queue!NewSize) /\ count \in Nat /\ 0 < Queue!NewSize
    BY <1>1, <2>1 DEF RingPlace, QueueTypes
  <2>5. ASSUME NEW i \in 0 .. count-1
        PROVE  Queue!ReAllocated(Queue!NewSize)[RingPlace(i, 0, Queue!NewSize)] = block[Queue!Slot(i)]
    <3>1. RingPlace(i, 0, Queue!NewSize) = i
      BY <1>1, <2>1 DEF RingPlace, QueueTypes
    <3> QED
      BY <2>2, <3>1
  <2> DEFINE room == Queue!NewSize  new == Queue!ReAllocated(Queue!NewSize)
  <2>6. /\ room \in Nat /\ new \in QueueBlock(room) /\ count < room /\ 0 < room
        /\ count = RingPlace(count, 0, room)
        /\ \A i \in 0 .. count-1 : new[RingPlace(i, 0, room)] = block[Queue!Slot(i)]
        /\ block' = [new EXCEPT ![count] = obj] /\ size' = room /\ first' = 0
        /\ last' = IF count + 1 >= room THEN 0 ELSE count + 1
    BY <2>1, <2>2, <2>3, <2>4, <2>5
  <2> HIDE DEF room, new
  <2> QED
    BY <1>2, <2>3, <2>4, <2>6, QueuePutInBlock DEF Queue!Put
<1>4. CASE ~(count >= size)
  <2>1. /\ block' = [block EXCEPT ![last] = obj]
        /\ size' = size /\ first' = first
        /\ last' = IF last + 1 >= size THEN 0 ELSE last + 1
        /\ count' = count + 1
    BY <1>4 DEF Queue!Put
  <2>2. /\ size \in Nat /\ last \in Nat /\ first \in Nat /\ count < size
        /\ first < size /\ block \in QueueBlock(size)
    BY <1>1, <1>4 DEF QueueTypes
  <2>3. last = RingPlace(count, first, size)
    BY <2>2 DEF QueueInv, QueueRing, Queue!Slot, RingPlace, QueueTypes
  <2>4. \A i \in 0 .. count-1 : block[RingPlace(i, first, size)] = block[Queue!Slot(i)]
    BY DEF Queue!Slot, RingPlace
  <2> QED
    BY <1>2, <2>1, <2>2, <2>3, <2>4, QueuePutInBlock DEF Queue!Put
<1> QED
  BY <1>3, <1>4

LEMMA QueueReserve ==
  ASSUME Queue!Assumption, QueueInv, NEW num \in -1 .. Limit, Queue!Reserve(num)
  PROVE  QueueInv' /\ Queue!AbstractStep
<1>1. QueueTypes /\ QueueStored
  BY QueueTypesOfInv DEF QueueInv
<1>2. CASE num < 0 /\ Queue!Error
  BY <1>2 DEF Queue!Error, Queue!AbstractStep, QueueInv, Queue!TypeOK, QueueRing, QueueStored, Queue!Slot
<1>3. CASE /\ num = 0 /\ block' = Queue!Null /\ UNCHANGED <<failed, out>>
           /\ size' = 0 /\ count' = 0 /\ last' = 0 /\ first' = 0
  <2>1. block' \in [0 .. size'-1 -> Values \cup {Junk}]
    BY <1>3 DEF Queue!Null
  <2>2. QueueInv'
    BY <1>3, <2>1 DEF QueueInv, Queue!TypeOK, QueueRing, QueueStored
  <2>3. Queue!Contents' = <<>>
    BY <1>3 DEF Queue!Contents
  <2> QED
    BY <1>3, <2>2, <2>3 DEF Queue!AbstractStep, Queue!Abstract!QueueNext, Queue!Abstract!Reserve, Queue!Reserve, Queue!Assumption
<1>4. CASE num > 0 /\ UNCHANGED <<block, last, first, size, count, failed, out>>
  <2>1. QueueInv' /\ Queue!Contents' = Queue!Contents
    BY <1>4 DEF QueueInv, Queue!TypeOK, QueueRing, QueueStored, Queue!Slot, Queue!Contents
  <2> QED
    BY <1>4, <2>1 DEF Queue!AbstractStep, Queue!Abstract!QueueNext, Queue!Abstract!Reserve, Queue!Reserve, Queue!Assumption
<1>5. CASE /\ num > size /\ num > 0
           /\ block' = Queue!ReAllocated(num) /\ last' = Queue!HeadAfter /\ first' = Queue!TailAfter
           /\ size' = num /\ UNCHANGED <<count, failed, out>>
  <2>1. num \in Nat
    BY <1>5
  <2>2. /\ Queue!ReAllocated(num) \in QueueBlock(num)
        /\ \A i \in 0 .. count-1 : Queue!ReAllocated(num)[i] = block[Queue!Slot(i)]
        /\ Queue!HeadAfter = count /\ Queue!TailAfter = 0
    BY <1>5, <2>1, QueueReAllocated
  <2>3. \A i \in 0 .. count : SlotAfter(i) = i
    BY <1>1, <1>5, <2>1, <2>2 DEF SlotAfter, QueueTypes
  <2>4. QueueKept
    <3>1. \A i \in 0 .. count-1 : i \in 0 .. count
      BY <1>1 DEF QueueTypes
    <3> QED
      BY <1>5, <2>2, <2>3, <3>1 DEF QueueKept
  <2>5. Queue!TypeOK'
    BY <1>1, <1>5, <2>1, <2>2 DEF Queue!TypeOK, QueueTypes, QueueBlock, QueueInv
  <2>6. QueueRing'
    BY <1>1, <1>5, <2>1, <2>2 DEF QueueRing, Queue!Slot, QueueTypes
  <2>7. QueueStored'
    BY <1>1, <1>5, <2>4 DEF QueueStored, QueueKept, Queue!Slot, SlotAfter
  <2>8. QueueInv' /\ QueueTypes'
    <3>1. QueueTypes'
      BY <1>1, <1>5, <2>1, <2>2 DEF QueueTypes
    <3> QED
      BY <2>5, <2>6, <2>7, <3>1 DEF QueueInv
  <2>9. Queue!Contents' = Queue!Contents
    BY <1>1, <1>5, <2>4, <2>7, <2>8, QueueContentsKept
  <2> QED
    BY <1>5, <2>8, <2>9 DEF Queue!AbstractStep, Queue!Abstract!QueueNext, Queue!Abstract!Reserve, Queue!Reserve, Queue!Assumption
<1> QED
  BY <1>2, <1>3, <1>4, <1>5 DEF Queue!Reserve

LEMMA QueueGet ==
  ASSUME QueueInv, Queue!Get
  PROVE  QueueInv' /\ Queue!AbstractStep
<1>1. QueueTypes /\ QueueStored
  BY QueueTypesOfInv DEF QueueInv
<1>2. CASE Queue!Error
  BY <1>2 DEF Queue!Error, Queue!AbstractStep, QueueInv, Queue!TypeOK, QueueRing, QueueStored, Queue!Slot
<1>3. CASE /\ count > 0 /\ out' = block[first]
           /\ first' = IF first + 1 >= size THEN 0 ELSE first + 1
           /\ count' = count - 1
           /\ UNCHANGED <<block, last, size, failed>>
  <2>1. Queue!TypeOK'
    BY <1>1, <1>3 DEF Queue!TypeOK, QueueTypes, QueueBlock, QueueInv
  <2>2. QueueRing'
    BY <1>1, <1>3 DEF QueueInv, QueueRing, Queue!Slot, QueueTypes
  <2>3. \A i \in 0 .. count-2 : SlotAfter(i) = Queue!Slot(i + 1) /\ i + 1 \in 0 .. count-1
    BY <1>1, <1>3 DEF SlotAfter, Queue!Slot, QueueTypes
  <2>4. \A i \in 0 .. count-2 : block'[SlotAfter(i)] = block[Queue!Slot(i + 1)]
    BY <1>3, <2>3
  <2>5. QueueStored'
    <3>1. count'-1 = count-2
      BY <1>1, <1>3 DEF QueueTypes
    <3> QED
      BY <1>1, <2>3, <2>4, <3>1 DEF QueueStored, Queue!Slot, SlotAfter
  <2>6. QueueTypes'
    BY <1>1, <1>3 DEF QueueTypes
  <2>7. Queue!Contents # <<>> /\ Head(Queue!Contents) = block[Queue!Slot(0)] /\ Queue!Contents' = Tail(Queue!Contents)
    BY <1>1, <1>3, <2>4, <2>5, <2>6, QueueTail
  <2>8. Queue!Slot(0) = first
    BY <1>1, <1>3 DEF Queue!Slot, QueueTypes
  <2> QED
    BY <1>3, <2>1, <2>2, <2>5, <2>7, <2>8 DEF QueueInv, Queue!AbstractStep, Queue!Abstract!QueueNext, Queue!Abstract!TakeFirst, Queue!Get
<1> QED
  BY <1>2, <1>3 DEF Queue!Get

LEMMA QueueAt ==
  ASSUME QueueInv, NEW i \in -1 .. Limit, Queue!At(i)
  PROVE  QueueInv' /\ Queue!AbstractStep
<1>1. QueueTypes /\ QueueStored
  BY QueueTypesOfInv DEF QueueInv
<1>2. CASE Queue!Error
  BY <1>2 DEF Queue!Error, Queue!AbstractStep, QueueInv, Queue!TypeOK, QueueRing, QueueStored, Queue!Slot
<1>3. CASE /\ i \in 0 .. count-1 /\ out' = block[Queue!Slot(i)]
           /\ UNCHANGED <<block, last, first, size, count, failed>>
  <2>1. QueueInv' /\ Queue!Contents' = Queue!Contents
    BY <1>3 DEF QueueInv, Queue!TypeOK, QueueRing, QueueStored, Queue!Slot, Queue!Contents
  <2>2. i + 1 \in 1 .. count /\ (i + 1) - 1 = i
    BY <1>1, <1>3 DEF QueueTypes
  <2>3. Queue!Contents[i + 1] = block[Queue!Slot(i)]
    BY <1>1, <2>2, QueueContents
  <2>4. Len(Queue!Contents) = count
    BY <1>1, QueueContents, SequenceOf DEF QueueTypes
  <2> QED
    BY <1>3, <2>1, <2>3, <2>4 DEF Queue!AbstractStep, Queue!Abstract!QueueNext, Queue!Abstract!Fetch, Queue!At
<1> QED
  BY <1>2, <1>3 DEF Queue!At

\* Every step keeps the invariant and is one of the abstract queue.
LEMMA QueueStep ==
  ASSUME Queue!Assumption, QueueInv, Queue!Next
  PROVE  QueueInv' /\ Queue!AbstractStep
<1>1. QueueTypes /\ QueueStored
  BY QueueTypesOfInv DEF QueueInv
<1>2. ASSUME NEW num \in -1 .. Limit, Queue!Reserve(num)
      PROVE  QueueInv' /\ Queue!AbstractStep
  BY <1>2, QueueReserve
<1>3. ASSUME NEW x \in Values, Queue!PutValue(x)
      PROVE  QueueInv' /\ Queue!AbstractStep
  <2>1. DOMAIN Queue!Null = {}
    BY DEF Queue!Null
  <2>2. x = IF -1 \in DOMAIN Queue!Null THEN Queue!Null[-1] ELSE x
    BY <2>1
  <2>3. QueueInv' /\ Queue!Contents' = Append(Queue!Contents, x) /\ out' = out
    BY <1>3, <2>2, QueuePut DEF Queue!PutValue
  <2> QED
    BY <1>3, <2>3 DEF Queue!AbstractStep, Queue!Abstract!QueueNext, Queue!Abstract!Add, Queue!PutValue
<1>4. ASSUME NEW i \in 0 .. Limit, Queue!PutOwn(i)
      PROVE  QueueInv' /\ Queue!AbstractStep
  <2>1. i \in 0 .. count-1
    BY <1>4 DEF Queue!PutOwn
  <2>2. Queue!Slot(i) \in DOMAIN block /\ block[Queue!Slot(i)] \in Values
    BY <1>1, <2>1, QueueSlots DEF QueueTypes, QueueBlock, QueueStored
  <2>3. QueueInv' /\ Queue!Contents' = Append(Queue!Contents, block[Queue!Slot(i)]) /\ out' = out
    BY <1>4, <2>2, QueuePut DEF Queue!PutOwn
  <2> QED
    BY <1>4, <2>2, <2>3 DEF Queue!AbstractStep, Queue!Abstract!QueueNext, Queue!Abstract!Add, Queue!PutOwn
<1>5. ASSUME NEW i \in -1 .. Limit, Queue!At(i)
      PROVE  QueueInv' /\ Queue!AbstractStep
  BY <1>5, QueueAt
<1> QED
  BY <1>2, <1>3, <1>4, <1>5, QueueGet DEF Queue!Next

-----------------------------------------------------------------------------
LEMMA QueueStarts ==
  ASSUME Queue!Init
  PROVE  QueueInv /\ Queue!AbstractInit
<1>1. block \in [0 .. size-1 -> Values \cup {Junk}]
  BY DEF Queue!Init, Queue!Null
<1>2. QueueInv
  <2>1. /\ size = 0 /\ count = 0 /\ last = 0 /\ first = 0 /\ failed = FALSE
    BY DEF Queue!Init
  <2>2. Queue!TypeOK
    <3>1. failed \in BOOLEAN
      BY <2>1
    <3>2. /\ size \in Nat /\ count \in 0 .. size
          /\ last \in 0 .. size /\ first \in 0 .. size
          /\ size > 0 => last < size /\ first < size
      BY <2>1
    <3> QED
      BY <1>1, <3>1, <3>2 DEF Queue!TypeOK
  <2>3. QueueRing /\ QueueStored
    BY <2>1 DEF QueueRing, QueueStored
  <2> QED
    BY <2>2, <2>3 DEF QueueInv
<1>3. Queue!Contents = <<>>
  BY DEF Queue!Init, Queue!Contents
<1> QED
  BY <1>2, <1>3 DEF Queue!AbstractInit, Queue!Abstract!Empty

LEMMA QueueStutters ==
  ASSUME QueueInv, UNCHANGED Queue!vars
  PROVE  QueueInv'
BY DEF Queue!vars, QueueInv, Queue!TypeOK, QueueRing, QueueStored, Queue!Slot

-----------------------------------------------------------------------------
(* SortedList, by its own proofs.                                          *)

SortedP == INSTANCE SortedList_proofs WITH
    list <- block, num <- count, Addresses <- Values, MAXSIZE <- ListSize

SortedInv == SortedP!Sound

LEMMA SortedSameSearch ==
  ASSUME NEW x
  PROVE  Sorted!Search(x) = SortedP!Search(x)
BY DEF Sorted!Search, SortedP!Search, Sorted!Less, SortedP!Less

LEMMA SortedSame ==
  /\ Sorted!Assumption => SortedP!Assumption
  /\ Sorted!Init => SortedP!Init
  /\ Sorted!Next => SortedP!Next
  /\ SortedP!TypeOK => Sorted!TypeOK
  /\ SortedP!InOrder => Sorted!InOrder
  /\ SortedP!DoesWhatItSays => Sorted!DoesWhatItSays
<1>1. Sorted!Assumption => SortedP!Assumption
  BY DEF Sorted!Assumption, SortedP!Assumption
<1>2. Sorted!Init => SortedP!Init
  BY DEF Sorted!Init, SortedP!Init, Sorted!New, SortedP!New
<1>3. Sorted!Next => SortedP!Next
  <2>1. /\ Sorted!SRecord = SortedP!SRecord
        /\ \A r, s : Sorted!Less(r, s) = SortedP!Less(r, s)
    BY DEF Sorted!SRecord, SortedP!SRecord, Sorted!Less, SortedP!Less
  <2>2. \A x, k : Sorted!Insert(x, k) => SortedP!Insert(x, k)
    BY SortedSameSearch, ZenonT(60)
       DEF Sorted!Insert, SortedP!Insert, Sorted!MovedUp, SortedP!MovedUp,
           Sorted!Copied, SortedP!Copied
  <2>3. \A x, k : Sorted!Put(x, k) => SortedP!Put(x, k)
    BY <2>2 DEF Sorted!Put, SortedP!Put
  <2>4. \A x, k : Sorted!PutUnique(x, k) => SortedP!PutUnique(x, k)
    BY <2>1, <2>2, SortedSameSearch DEF Sorted!PutUnique, SortedP!PutUnique
  <2>5. \A x : Sorted!Exists(x) => SortedP!Exists(x)
    BY <2>1, SortedSameSearch DEF Sorted!Exists, SortedP!Exists
  <2>6. \A i : (Sorted!Remove(i) => SortedP!Remove(i)) /\ (Sorted!At(i) => SortedP!At(i))
    BY DEF Sorted!Remove, SortedP!Remove, Sorted!At, SortedP!At, Sorted!Copied, SortedP!Copied
  <2> QED
    BY <2>1, <2>3, <2>4, <2>5, <2>6 DEF Sorted!Next, SortedP!Next
<1>4. SortedP!TypeOK => Sorted!TypeOK
  BY DEF Sorted!TypeOK, SortedP!TypeOK, Sorted!SRecord, SortedP!SRecord
<1>5. SortedP!InOrder => Sorted!InOrder
  BY DEF Sorted!InOrder, SortedP!InOrder, Sorted!Less, SortedP!Less
<1>6. SortedP!DoesWhatItSays => Sorted!DoesWhatItSays
  <2>1. Sorted!SRecord = SortedP!SRecord
    BY DEF Sorted!SRecord, SortedP!SRecord
  <2>2. ASSUME NEW l, NEW n, NEW name
        PROVE  Sorted!Named(l, n, name) = SortedP!Named(l, n, name)
    BY DEF Sorted!Named, SortedP!Named, Sorted!Cardinality, SortedP!Cardinality
  <2>3. ASSUME NEW l, NEW n
        PROVE  Sorted!Records(l, n) = SortedP!Records(l, n)
    BY <2>1 DEF Sorted!Records, SortedP!Records, Sorted!Cardinality, SortedP!Cardinality
  <2> QED
    BY <2>1, <2>2, <2>3 DEF Sorted!DoesWhatItSays, SortedP!DoesWhatItSays
<1> QED
  BY <1>1, <1>2, <1>3, <1>4, <1>5, <1>6

LEMMA SortedStarts ==
  ASSUME Sorted!Init
  PROVE  SortedInv
<1>1. SortedP!Assumption /\ SortedP!Init
  BY SortedSame, InstanceAssumption
<1> QED
  BY <1>1, SortedP!Started DEF SortedInv

LEMMA SortedStep ==
  ASSUME SortedInv, Sorted!Next
  PROVE  SortedInv' /\ Sorted!DoesWhatItSays
<1>1. SortedP!Assumption /\ SortedP!Sound /\ SortedP!Next
  BY SortedSame, InstanceAssumption DEF SortedInv
<1>2. SortedP!Sound' /\ SortedP!DoesWhatItSays
  BY <1>1, SortedP!NextStep
<1> QED
  BY <1>2, SortedSame DEF SortedInv

LEMMA SortedSound ==
  ASSUME SortedInv
  PROVE  Sorted!TypeOK /\ Sorted!InOrder
<1>1. SortedP!TypeOK
  BY SortedP!SoundTyped DEF SortedInv
<1>2. SortedP!InOrder
  BY DEF SortedInv, SortedP!Sound
<1> QED
  BY <1>1, <1>2, SortedSame

-----------------------------------------------------------------------------
(* The string pools, by proofs of their own.                               *)

TextP == INSTANCE StringPool_proofs WITH Prefix <- 0, Limit <- BufferLimit
LongP == INSTANCE StringPool_proofs WITH
    Limit <- LongBufferLimit, Texts <- Texts \cup LongTexts

LEMMA TextSpaceSame ==
  /\ \A p, n : PoolS!ReserveNum(p, n) = TextP!ReserveNum(p, n)
  /\ \A p, n : PoolS!ReserveBuf(p, n) = TextP!ReserveBuf(p, n)
  /\ \A p, i : PoolS!Text(p, i) = TextP!Text(p, i)
  /\ \A p, i : PoolS!WithIndex(p, i) = TextP!WithIndex(p, i)
  /\ \A p, i, n : PoolS!Allocate(p, i, n) = TextP!Allocate(p, i, n)
  /\ \A p, i, a : PoolS!Spoils(p, i, a) = TextP!Spoils(p, i, a)
  /\ \A p, i, t : PoolS!SetIn(p, i, t) = TextP!SetIn(p, i, t)
  /\ \A p : PoolS!Referred(p) = TextP!Referred(p)
<1>1. \A p, n : PoolS!ReserveNum(p, n) = TextP!ReserveNum(p, n)
  BY DEF PoolS!ReserveNum, TextP!ReserveNum, PoolS!Larger, TextP!Larger
<1>2. \A p, n : PoolS!ReserveBuf(p, n) = TextP!ReserveBuf(p, n)
  BY DEF PoolS!ReserveBuf, TextP!ReserveBuf, PoolS!Moved, TextP!Moved, PoolS!Larger,
         TextP!Larger, PoolS!Size, TextP!Size, PoolS!Text, TextP!Text, PoolS!TextAt,
         TextP!TextAt, PoolS!Written, TextP!Written, PoolS!Extent, TextP!Extent, PoolS!NoBuffer,
         TextP!NoBuffer
<1>3. /\ \A p, i : PoolS!Text(p, i) = TextP!Text(p, i)
      /\ \A p, i : PoolS!IsLast(p, i) = TextP!IsLast(p, i)
      /\ \A n : PoolS!Size(n) = TextP!Size(n)
      /\ \A p : PoolS!Referred(p) = TextP!Referred(p)
  BY DEF PoolS!Text, TextP!Text, PoolS!TextAt, TextP!TextAt, PoolS!IsLast, TextP!IsLast,
         PoolS!Size, TextP!Size, PoolS!Referred, TextP!Referred
<1>4. \A p, i : PoolS!WithIndex(p, i) = TextP!WithIndex(p, i)
  BY <1>1 DEF PoolS!WithIndex, TextP!WithIndex
<1>5. \A p, i, n : PoolS!Allocate(p, i, n) = TextP!Allocate(p, i, n)
  <2>1. \A p, i, n : PoolS!InPlace(p, i, n) = TextP!InPlace(p, i, n)
    BY <1>3 DEF PoolS!InPlace, TextP!InPlace
  <2> SUFFICES ASSUME NEW p, NEW i, NEW n PROVE PoolS!Allocate(p, i, n) = TextP!Allocate(p, i, n)
    OBVIOUS
  <2>2. CASE PoolS!IsLast(p, i)
    BY <1>2, <1>3, <2>2 DEF PoolS!Allocate, TextP!Allocate
  <2>3. CASE ~PoolS!IsLast(p, i) /\ PoolS!InPlace(p, i, n)
    BY <1>3, <2>1, <2>3 DEF PoolS!Allocate, TextP!Allocate
  <2>4. CASE ~PoolS!IsLast(p, i) /\ ~PoolS!InPlace(p, i, n)
    <3> DEFINE g == IF p.Offsets[i] = 0 THEN p
                    ELSE [p EXCEPT !.GarbageSize = @ + PoolS!Size(Len(PoolS!Text(p, i)))]
               h == IF p.Offsets[i] = 0 THEN p
                    ELSE [p EXCEPT !.GarbageSize = @ + TextP!Size(Len(TextP!Text(p, i)))]
               Behind(r, l) == [pool |-> [r EXCEPT !.Offsets[i] = r.DataSize, !.Top = r.DataSize,
                                                   !.DataSize = r.DataSize + l],
                                at |-> r.DataSize]
               l == PoolS!Size(n)  k == TextP!Size(n)
    <3>1. g = h /\ l = k
      BY <1>3
    <3>2. PoolS!Allocate(p, i, n) =
            Behind(IF g.DataSize + l > g.BufferSize THEN PoolS!ReserveBuf(g, g.DataSize + l) ELSE g, l)
      BY <2>4 DEF PoolS!Allocate
    <3>3. TextP!Allocate(p, i, n) =
            Behind(IF h.DataSize + k > h.BufferSize THEN TextP!ReserveBuf(h, h.DataSize + k) ELSE h, k)
      BY <1>3, <2>1, <2>4 DEF TextP!Allocate
    <3> HIDE DEF g, h, l, k, Behind
    <3> QED
      BY <1>2, <3>1, <3>2, <3>3
  <2> QED
    BY <2>2, <2>3, <2>4
<1>6. \A p, i, a : PoolS!Spoils(p, i, a) = TextP!Spoils(p, i, a)
  BY <1>3 DEF PoolS!Spoils, TextP!Spoils
<1>7. \A p, i, t : PoolS!SetIn(p, i, t) = TextP!SetIn(p, i, t)
  <2>1. \A p, i : PoolS!Erased(p, i) = TextP!Erased(p, i)
    BY <1>3 DEF PoolS!Erased, TextP!Erased
  <2>2. \A b, k, t, n : PoolS!Written(b, k, t, n) = TextP!Written(b, k, t, n)
    BY DEF PoolS!Written, TextP!Written, PoolS!Extent, TextP!Extent
  <2> QED
    BY <1>5, <2>1, <2>2 DEF PoolS!SetIn, TextP!SetIn
<1> QED
  BY <1>1, <1>2, <1>3, <1>4, <1>5, <1>6, <1>7

LEMMA TextCallsSame ==
  /\ PoolS!Assumption => TextP!Assumption
  /\ PoolS!Init => TextP!Init
  /\ PoolS!Error => TextP!Error
  /\ PoolS!Sources = TextP!Sources
  /\ \A i, t : PoolS!Set(i, t) => TextP!Set(i, t)
  /\ \A i, t, s, own : PoolS!SetPart(i, t, s, own) => TextP!SetPart(i, t, s, own)
  /\ \A i, t, own : PoolS!Concatenate(i, t, own) => TextP!Concatenate(i, t, own)
  /\ \A i, t : PoolS!Printf(i, t) => TextP!Printf(i, t)
  /\ \A i : PoolS!Get(i) => TextP!Get(i)
  /\ \A i, k, c : PoolS!SetChar(i, k, c) => TextP!SetChar(i, k, c)
  /\ PoolS!Clear => TextP!Clear
  /\ TextP!StringsKept => PoolS!StringsKept
<1>1. /\ PoolS!Assumption => TextP!Assumption
      /\ PoolS!Init => TextP!Init
      /\ PoolS!Error => TextP!Error
  BY DEF PoolS!Assumption, TextP!Assumption, PoolS!Letters, TextP!Letters, PoolS!Init,
         TextP!Init, PoolS!NoBuffer, TextP!NoBuffer, PoolS!Error, TextP!Error
<1>2. PoolS!Sources = TextP!Sources
  BY TextSpaceSame DEF PoolS!Sources, TextP!Sources
<1>3. \A i, t : PoolS!Assigned(i, t) => TextP!Assigned(i, t)
  BY DEF PoolS!Assigned, TextP!Assigned
<1>4. \A i, t : PoolS!Store(i, t) => TextP!Store(i, t)
  BY <1>3, TextSpaceSame DEF PoolS!Store, TextP!Store
<1>5. \A i, t : PoolS!Set(i, t) => TextP!Set(i, t)
  BY <1>1, <1>4 DEF PoolS!Set, TextP!Set
<1>6. \A i, t, s, own : PoolS!SetPart(i, t, s, own) => TextP!SetPart(i, t, s, own)
  BY <1>3, TextSpaceSame DEF PoolS!SetPart, TextP!SetPart
<1>7. ASSUME NEW i, NEW t, NEW own, PoolS!Concatenate(i, t, own)
      PROVE  TextP!Concatenate(i, t, own)
  <2>1. \A b, k, s, n : PoolS!Written(b, k, s, n) = TextP!Written(b, k, s, n)
    BY DEF PoolS!Written, TextP!Written, PoolS!Extent, TextP!Extent
  <2> QED
    BY <1>1, <1>3, <1>4, <1>7, <2>1, TextSpaceSame DEF PoolS!Concatenate, TextP!Concatenate
<1>8. \A i, t : PoolS!Printf(i, t) => TextP!Printf(i, t)
  BY <1>1, <1>3, TextSpaceSame DEF PoolS!Printf, TextP!Printf
<1>9. \A i : PoolS!Get(i) => TextP!Get(i)
  BY <1>1 DEF PoolS!Get, TextP!Get
<1>10. \A i, k, c : PoolS!SetChar(i, k, c) => TextP!SetChar(i, k, c)
  BY <1>1, <1>3, TextSpaceSame DEF PoolS!SetChar, TextP!SetChar, PoolS!WithChar, TextP!WithChar
<1>11. PoolS!Clear => TextP!Clear
  BY DEF PoolS!Clear, TextP!Clear, PoolS!TextAt, TextP!TextAt
<1>12. TextP!StringsKept => PoolS!StringsKept
  BY TextSpaceSame DEF PoolS!StringsKept, TextP!StringsKept, PoolS!Kept, TextP!Kept, PoolS!Size,
                       TextP!Size
<1> QED
  BY <1>1, <1>2, <1>5, <1>6, <1>7, <1>8, <1>9, <1>10, <1>11, <1>12

LEMMA WideSpaceSame ==
  /\ \A p, n : PoolW!Pool!ReserveNum(p, n) = TextP!ReserveNum(p, n)
  /\ \A p, n : PoolW!Pool!ReserveBuf(p, n) = TextP!ReserveBuf(p, n)
  /\ \A p, i : PoolW!Pool!Text(p, i) = TextP!Text(p, i)
  /\ \A p, i : PoolW!Pool!WithIndex(p, i) = TextP!WithIndex(p, i)
  /\ \A p, i, n : PoolW!Pool!Allocate(p, i, n) = TextP!Allocate(p, i, n)
  /\ \A p, i, a : PoolW!Pool!Spoils(p, i, a) = TextP!Spoils(p, i, a)
  /\ \A p, i, t : PoolW!Pool!SetIn(p, i, t) = TextP!SetIn(p, i, t)
  /\ \A p : PoolW!Pool!Referred(p) = TextP!Referred(p)
<1>1. \A p, n : PoolW!Pool!ReserveNum(p, n) = TextP!ReserveNum(p, n)
  BY DEF PoolW!Pool!ReserveNum, TextP!ReserveNum, PoolW!Pool!Larger, TextP!Larger
<1>2. \A p, n : PoolW!Pool!ReserveBuf(p, n) = TextP!ReserveBuf(p, n)
  BY DEF PoolW!Pool!ReserveBuf, TextP!ReserveBuf, PoolW!Pool!Moved, TextP!Moved,
         PoolW!Pool!Larger, TextP!Larger, PoolW!Pool!Size, TextP!Size, PoolW!Pool!Text,
         TextP!Text, PoolW!Pool!TextAt, TextP!TextAt, PoolW!Pool!Written, TextP!Written,
         PoolW!Pool!Extent, TextP!Extent, PoolW!Pool!NoBuffer, TextP!NoBuffer
<1>3. /\ \A p, i : PoolW!Pool!Text(p, i) = TextP!Text(p, i)
      /\ \A p, i : PoolW!Pool!IsLast(p, i) = TextP!IsLast(p, i)
      /\ \A n : PoolW!Pool!Size(n) = TextP!Size(n)
      /\ \A p : PoolW!Pool!Referred(p) = TextP!Referred(p)
  BY DEF PoolW!Pool!Text, TextP!Text, PoolW!Pool!TextAt, TextP!TextAt, PoolW!Pool!IsLast,
         TextP!IsLast, PoolW!Pool!Size, TextP!Size, PoolW!Pool!Referred, TextP!Referred
<1>4. \A p, i : PoolW!Pool!WithIndex(p, i) = TextP!WithIndex(p, i)
  BY <1>1 DEF PoolW!Pool!WithIndex, TextP!WithIndex
<1>5. \A p, i, n : PoolW!Pool!Allocate(p, i, n) = TextP!Allocate(p, i, n)
  <2>1. \A p, i, n : PoolW!Pool!InPlace(p, i, n) = TextP!InPlace(p, i, n)
    BY <1>3 DEF PoolW!Pool!InPlace, TextP!InPlace
  <2> SUFFICES ASSUME NEW p, NEW i, NEW n PROVE PoolW!Pool!Allocate(p, i, n) = TextP!Allocate(p, i, n)
    OBVIOUS
  <2>2. CASE PoolW!Pool!IsLast(p, i)
    BY <1>2, <1>3, <2>2 DEF PoolW!Pool!Allocate, TextP!Allocate
  <2>3. CASE ~PoolW!Pool!IsLast(p, i) /\ PoolW!Pool!InPlace(p, i, n)
    BY <1>3, <2>1, <2>3 DEF PoolW!Pool!Allocate, TextP!Allocate
  <2>4. CASE ~PoolW!Pool!IsLast(p, i) /\ ~PoolW!Pool!InPlace(p, i, n)
    <3> DEFINE g == IF p.Offsets[i] = 0 THEN p
                    ELSE [p EXCEPT !.GarbageSize = @ + PoolW!Pool!Size(Len(PoolW!Pool!Text(p, i)))]
               h == IF p.Offsets[i] = 0 THEN p
                    ELSE [p EXCEPT !.GarbageSize = @ + TextP!Size(Len(TextP!Text(p, i)))]
               Behind(r, l) == [pool |-> [r EXCEPT !.Offsets[i] = r.DataSize, !.Top = r.DataSize,
                                                   !.DataSize = r.DataSize + l],
                                at |-> r.DataSize]
               l == PoolW!Pool!Size(n)  k == TextP!Size(n)
    <3>1. g = h /\ l = k
      BY <1>3
    <3>2. PoolW!Pool!Allocate(p, i, n) =
            Behind(IF g.DataSize + l > g.BufferSize THEN PoolW!Pool!ReserveBuf(g, g.DataSize + l) ELSE g, l)
      BY <2>4 DEF PoolW!Pool!Allocate
    <3>3. TextP!Allocate(p, i, n) =
            Behind(IF h.DataSize + k > h.BufferSize THEN TextP!ReserveBuf(h, h.DataSize + k) ELSE h, k)
      BY <1>3, <2>1, <2>4 DEF TextP!Allocate
    <3> HIDE DEF g, h, l, k, Behind
    <3> QED
      BY <1>2, <3>1, <3>2, <3>3
  <2> QED
    BY <2>2, <2>3, <2>4
<1>6. \A p, i, a : PoolW!Pool!Spoils(p, i, a) = TextP!Spoils(p, i, a)
  BY <1>3 DEF PoolW!Pool!Spoils, TextP!Spoils
<1>7. \A p, i, t : PoolW!Pool!SetIn(p, i, t) = TextP!SetIn(p, i, t)
  <2>1. \A p, i : PoolW!Pool!Erased(p, i) = TextP!Erased(p, i)
    BY <1>3 DEF PoolW!Pool!Erased, TextP!Erased
  <2>2. \A b, k, t, n : PoolW!Pool!Written(b, k, t, n) = TextP!Written(b, k, t, n)
    BY DEF PoolW!Pool!Written, TextP!Written, PoolW!Pool!Extent, TextP!Extent
  <2> QED
    BY <1>5, <2>1, <2>2 DEF PoolW!Pool!SetIn, TextP!SetIn
<1> QED
  BY <1>1, <1>2, <1>3, <1>4, <1>5, <1>6, <1>7

LEMMA WideCallsSame ==
  /\ PoolW!Pool!Assumption => TextP!Assumption
  /\ PoolW!Pool!Init => TextP!Init
  /\ PoolW!Pool!Error => TextP!Error
  /\ PoolW!Pool!Sources = TextP!Sources
  /\ \A i, t : PoolW!Pool!Set(i, t) => TextP!Set(i, t)
  /\ \A i, t, s, own : PoolW!Pool!SetPart(i, t, s, own) => TextP!SetPart(i, t, s, own)
  /\ \A i, t, own : PoolW!Pool!Concatenate(i, t, own) => TextP!Concatenate(i, t, own)
  /\ \A i, t : PoolW!Pool!Printf(i, t) => TextP!Printf(i, t)
  /\ \A i : PoolW!Pool!Get(i) => TextP!Get(i)
  /\ \A i, k, c : PoolW!Pool!SetChar(i, k, c) => TextP!SetChar(i, k, c)
  /\ PoolW!Pool!Clear => TextP!Clear
  /\ TextP!StringsKept => PoolW!Pool!StringsKept
<1>1. /\ PoolW!Pool!Assumption => TextP!Assumption
      /\ PoolW!Pool!Init => TextP!Init
      /\ PoolW!Pool!Error => TextP!Error
  BY DEF PoolW!Pool!Assumption, TextP!Assumption, PoolW!Pool!Letters, TextP!Letters,
         PoolW!Pool!Init, TextP!Init, PoolW!Pool!NoBuffer, TextP!NoBuffer, PoolW!Pool!Error,
         TextP!Error
<1>2. PoolW!Pool!Sources = TextP!Sources
  BY WideSpaceSame DEF PoolW!Pool!Sources, TextP!Sources
<1>3. \A i, t : PoolW!Pool!Assigned(i, t) => TextP!Assigned(i, t)
  BY DEF PoolW!Pool!Assigned, TextP!Assigned
<1>4. \A i, t : PoolW!Pool!Store(i, t) => TextP!Store(i, t)
  BY <1>3, WideSpaceSame DEF PoolW!Pool!Store, TextP!Store
<1>5. \A i, t : PoolW!Pool!Set(i, t) => TextP!Set(i, t)
  BY <1>1, <1>4 DEF PoolW!Pool!Set, TextP!Set
<1>6. \A i, t, s, own : PoolW!Pool!SetPart(i, t, s, own) => TextP!SetPart(i, t, s, own)
  BY <1>3, WideSpaceSame DEF PoolW!Pool!SetPart, TextP!SetPart
<1>7. ASSUME NEW i, NEW t, NEW own, PoolW!Pool!Concatenate(i, t, own)
      PROVE  TextP!Concatenate(i, t, own)
  <2>1. \A b, k, s, n : PoolW!Pool!Written(b, k, s, n) = TextP!Written(b, k, s, n)
    BY DEF PoolW!Pool!Written, TextP!Written, PoolW!Pool!Extent, TextP!Extent
  <2> QED
    BY <1>1, <1>3, <1>4, <1>7, <2>1, WideSpaceSame DEF PoolW!Pool!Concatenate, TextP!Concatenate
<1>8. \A i, t : PoolW!Pool!Printf(i, t) => TextP!Printf(i, t)
  BY <1>1, <1>3, WideSpaceSame DEF PoolW!Pool!Printf, TextP!Printf
<1>9. \A i : PoolW!Pool!Get(i) => TextP!Get(i)
  BY <1>1 DEF PoolW!Pool!Get, TextP!Get
<1>10. \A i, k, c : PoolW!Pool!SetChar(i, k, c) => TextP!SetChar(i, k, c)
  BY <1>1, <1>3, WideSpaceSame DEF PoolW!Pool!SetChar, TextP!SetChar, PoolW!Pool!WithChar,
                                   TextP!WithChar
<1>11. PoolW!Pool!Clear => TextP!Clear
  BY DEF PoolW!Pool!Clear, TextP!Clear, PoolW!Pool!TextAt, TextP!TextAt
<1>12. TextP!StringsKept => PoolW!Pool!StringsKept
  BY WideSpaceSame DEF PoolW!Pool!StringsKept, TextP!StringsKept, PoolW!Pool!Kept, TextP!Kept,
                       PoolW!Pool!Size, TextP!Size
<1> QED
  BY <1>1, <1>2, <1>5, <1>6, <1>7, <1>8, <1>9, <1>10, <1>11, <1>12

LEMMA LongSpaceSame ==
  /\ \A p, n : PoolL!Pool!ReserveNum(p, n) = LongP!ReserveNum(p, n)
  /\ \A p, n : PoolL!Pool!ReserveBuf(p, n) = LongP!ReserveBuf(p, n)
  /\ \A p, i : PoolL!Pool!Text(p, i) = LongP!Text(p, i)
  /\ \A p, i : PoolL!Pool!WithIndex(p, i) = LongP!WithIndex(p, i)
  /\ \A p, i, n : PoolL!Pool!Allocate(p, i, n) = LongP!Allocate(p, i, n)
  /\ \A p, i, a : PoolL!Pool!Spoils(p, i, a) = LongP!Spoils(p, i, a)
  /\ \A p, i, t : PoolL!Pool!SetIn(p, i, t) = LongP!SetIn(p, i, t)
  /\ \A p : PoolL!Pool!Referred(p) = LongP!Referred(p)
<1>1. \A p, n : PoolL!Pool!ReserveNum(p, n) = LongP!ReserveNum(p, n)
  BY DEF PoolL!Pool!ReserveNum, LongP!ReserveNum, PoolL!Pool!Larger, LongP!Larger
<1>2. \A p, n : PoolL!Pool!ReserveBuf(p, n) = LongP!ReserveBuf(p, n)
  BY DEF PoolL!Pool!ReserveBuf, LongP!ReserveBuf, PoolL!Pool!Moved, LongP!Moved,
         PoolL!Pool!Larger, LongP!Larger, PoolL!Pool!Size, LongP!Size, PoolL!Pool!Text,
         LongP!Text, PoolL!Pool!TextAt, LongP!TextAt, PoolL!Pool!Written, LongP!Written,
         PoolL!Pool!Extent, LongP!Extent, PoolL!Pool!NoBuffer, LongP!NoBuffer
<1>3. /\ \A p, i : PoolL!Pool!Text(p, i) = LongP!Text(p, i)
      /\ \A p, i : PoolL!Pool!IsLast(p, i) = LongP!IsLast(p, i)
      /\ \A n : PoolL!Pool!Size(n) = LongP!Size(n)
      /\ \A p : PoolL!Pool!Referred(p) = LongP!Referred(p)
  BY DEF PoolL!Pool!Text, LongP!Text, PoolL!Pool!TextAt, LongP!TextAt, PoolL!Pool!IsLast,
         LongP!IsLast, PoolL!Pool!Size, LongP!Size, PoolL!Pool!Referred, LongP!Referred
<1>4. \A p, i : PoolL!Pool!WithIndex(p, i) = LongP!WithIndex(p, i)
  BY <1>1 DEF PoolL!Pool!WithIndex, LongP!WithIndex
<1>5. \A p, i, n : PoolL!Pool!Allocate(p, i, n) = LongP!Allocate(p, i, n)
  <2>1. \A p, i, n : PoolL!Pool!InPlace(p, i, n) = LongP!InPlace(p, i, n)
    BY <1>3 DEF PoolL!Pool!InPlace, LongP!InPlace
  <2> SUFFICES ASSUME NEW p, NEW i, NEW n PROVE PoolL!Pool!Allocate(p, i, n) = LongP!Allocate(p, i, n)
    OBVIOUS
  <2>2. CASE PoolL!Pool!IsLast(p, i)
    BY <1>2, <1>3, <2>2 DEF PoolL!Pool!Allocate, LongP!Allocate
  <2>3. CASE ~PoolL!Pool!IsLast(p, i) /\ PoolL!Pool!InPlace(p, i, n)
    BY <1>3, <2>1, <2>3 DEF PoolL!Pool!Allocate, LongP!Allocate
  <2>4. CASE ~PoolL!Pool!IsLast(p, i) /\ ~PoolL!Pool!InPlace(p, i, n)
    <3> DEFINE g == IF p.Offsets[i] = 0 THEN p
                    ELSE [p EXCEPT !.GarbageSize = @ + PoolL!Pool!Size(Len(PoolL!Pool!Text(p, i)))]
               h == IF p.Offsets[i] = 0 THEN p
                    ELSE [p EXCEPT !.GarbageSize = @ + LongP!Size(Len(LongP!Text(p, i)))]
               Behind(r, l) == [pool |-> [r EXCEPT !.Offsets[i] = r.DataSize, !.Top = r.DataSize,
                                                   !.DataSize = r.DataSize + l],
                                at |-> r.DataSize]
               l == PoolL!Pool!Size(n)  k == LongP!Size(n)
    <3>1. g = h /\ l = k
      BY <1>3
    <3>2. PoolL!Pool!Allocate(p, i, n) =
            Behind(IF g.DataSize + l > g.BufferSize THEN PoolL!Pool!ReserveBuf(g, g.DataSize + l) ELSE g, l)
      BY <2>4 DEF PoolL!Pool!Allocate
    <3>3. LongP!Allocate(p, i, n) =
            Behind(IF h.DataSize + k > h.BufferSize THEN LongP!ReserveBuf(h, h.DataSize + k) ELSE h, k)
      BY <1>3, <2>1, <2>4 DEF LongP!Allocate
    <3> HIDE DEF g, h, l, k, Behind
    <3> QED
      BY <1>2, <3>1, <3>2, <3>3
  <2> QED
    BY <2>2, <2>3, <2>4
<1>6. \A p, i, a : PoolL!Pool!Spoils(p, i, a) = LongP!Spoils(p, i, a)
  BY <1>3 DEF PoolL!Pool!Spoils, LongP!Spoils
<1>7. \A p, i, t : PoolL!Pool!SetIn(p, i, t) = LongP!SetIn(p, i, t)
  <2>1. \A p, i : PoolL!Pool!Erased(p, i) = LongP!Erased(p, i)
    BY <1>3 DEF PoolL!Pool!Erased, LongP!Erased
  <2>2. \A b, k, t, n : PoolL!Pool!Written(b, k, t, n) = LongP!Written(b, k, t, n)
    BY DEF PoolL!Pool!Written, LongP!Written, PoolL!Pool!Extent, LongP!Extent
  <2> QED
    BY <1>5, <2>1, <2>2 DEF PoolL!Pool!SetIn, LongP!SetIn
<1> QED
  BY <1>1, <1>2, <1>3, <1>4, <1>5, <1>6, <1>7

LEMMA LongCallsSame ==
  /\ PoolL!Pool!Assumption => LongP!Assumption
  /\ PoolL!Pool!Init => LongP!Init
  /\ PoolL!Pool!Error => LongP!Error
  /\ PoolL!Pool!Sources = LongP!Sources
  /\ \A i, t : PoolL!Pool!Set(i, t) => LongP!Set(i, t)
  /\ \A i, t, s, own : PoolL!Pool!SetPart(i, t, s, own) => LongP!SetPart(i, t, s, own)
  /\ \A i, t, own : PoolL!Pool!Concatenate(i, t, own) => LongP!Concatenate(i, t, own)
  /\ \A i, t : PoolL!Pool!Printf(i, t) => LongP!Printf(i, t)
  /\ \A i : PoolL!Pool!Get(i) => LongP!Get(i)
  /\ \A i, k, c : PoolL!Pool!SetChar(i, k, c) => LongP!SetChar(i, k, c)
  /\ PoolL!Pool!Clear => LongP!Clear
  /\ LongP!StringsKept => PoolL!Pool!StringsKept
<1>1. /\ PoolL!Pool!Assumption => LongP!Assumption
      /\ PoolL!Pool!Init => LongP!Init
      /\ PoolL!Pool!Error => LongP!Error
  BY DEF PoolL!Pool!Assumption, LongP!Assumption, PoolL!Pool!Letters, LongP!Letters,
         PoolL!Pool!Init, LongP!Init, PoolL!Pool!NoBuffer, LongP!NoBuffer, PoolL!Pool!Error,
         LongP!Error
<1>2. PoolL!Pool!Sources = LongP!Sources
  BY LongSpaceSame DEF PoolL!Pool!Sources, LongP!Sources
<1>3. \A i, t : PoolL!Pool!Assigned(i, t) => LongP!Assigned(i, t)
  BY DEF PoolL!Pool!Assigned, LongP!Assigned
<1>4. \A i, t : PoolL!Pool!Store(i, t) => LongP!Store(i, t)
  BY <1>3, LongSpaceSame DEF PoolL!Pool!Store, LongP!Store
<1>5. \A i, t : PoolL!Pool!Set(i, t) => LongP!Set(i, t)
  BY <1>1, <1>4 DEF PoolL!Pool!Set, LongP!Set
<1>6. \A i, t, s, own : PoolL!Pool!SetPart(i, t, s, own) => LongP!SetPart(i, t, s, own)
  BY <1>3, LongSpaceSame DEF PoolL!Pool!SetPart, LongP!SetPart
<1>7. ASSUME NEW i, NEW t, NEW own, PoolL!Pool!Concatenate(i, t, own)
      PROVE  LongP!Concatenate(i, t, own)
  <2>1. \A b, k, s, n : PoolL!Pool!Written(b, k, s, n) = LongP!Written(b, k, s, n)
    BY DEF PoolL!Pool!Written, LongP!Written, PoolL!Pool!Extent, LongP!Extent
  <2> QED
    BY <1>1, <1>3, <1>4, <1>7, <2>1, LongSpaceSame DEF PoolL!Pool!Concatenate, LongP!Concatenate
<1>8. \A i, t : PoolL!Pool!Printf(i, t) => LongP!Printf(i, t)
  BY <1>1, <1>3, LongSpaceSame DEF PoolL!Pool!Printf, LongP!Printf
<1>9. \A i : PoolL!Pool!Get(i) => LongP!Get(i)
  BY <1>1 DEF PoolL!Pool!Get, LongP!Get
<1>10. \A i, k, c : PoolL!Pool!SetChar(i, k, c) => LongP!SetChar(i, k, c)
  BY <1>1, <1>3, LongSpaceSame DEF PoolL!Pool!SetChar, LongP!SetChar, PoolL!Pool!WithChar,
                                   LongP!WithChar
<1>11. PoolL!Pool!Clear => LongP!Clear
  BY DEF PoolL!Pool!Clear, LongP!Clear, PoolL!Pool!TextAt, LongP!TextAt
<1>12. LongP!StringsKept => PoolL!Pool!StringsKept
  BY LongSpaceSame DEF PoolL!Pool!StringsKept, LongP!StringsKept, PoolL!Pool!Kept, LongP!Kept,
                       PoolL!Pool!Size, LongP!Size
<1> QED
  BY <1>1, <1>2, <1>5, <1>6, <1>7, <1>8, <1>9, <1>10, <1>11, <1>12

\* Their invariants, and what the proofs of the steps ask for.
TextInv == TextP!IInv
LongInv == LongP!IInv

LEMMA PoolConstants ==
  /\ TextP!Assumption /\ TextP!Constants /\ LongP!Assumption /\ LongP!Constants
  /\ MaxLen \in Nat /\ Parts \subseteq Nat \X Nat
<1>1. TextP!Assumption /\ LongP!Assumption
  BY TextCallsSame, LongCallsSame, InstanceAssumption
<1> QED
  BY <1>1 DEF TextP!Assumption, TextP!Constants, LongP!Assumption, LongP!Constants

LEMMA PoolSStep ==
  ASSUME TextInv, PoolS!Next
  PROVE  TextInv'
<1>1. \A i, t, own, s, n : PoolS!SetToSubstring(i, t, own, s, n) => TextP!SetToSubstring(i, t, own, s, n)
  BY TextCallsSame DEF PoolS!SetToSubstring, TextP!SetToSubstring
<1>2. \A n : PoolS!Reserve(n) => TextP!Reserve(n)
  BY TextSpaceSame DEF PoolS!Reserve, TextP!Reserve
<1>3. TextP!Next
  BY <1>1, <1>2, TextCallsSame DEF PoolS!Next, TextP!Next
<1> QED
  BY <1>3, PoolConstants, TextP!NextStep DEF TextInv

LEMMA PoolWStep ==
  ASSUME TextInv, PoolW!Next
  PROVE  TextInv'
<1>1. TextP!Constants /\ TextP!IInv /\ spoilt = {}
  BY PoolConstants DEF TextInv, PoolW!Next
<1>2. \A s \in PoolW!Pool!Sources : s.text \in TextP!String
  BY <1>1, PoolConstants, WideCallsSame, TextP!SourcesAreStrings
<1>3. ASSUME NEW s \in PoolW!Pool!Sources, NEW i \in -1 .. MaxIndex,
             \/ PoolW!Set(i, s.text)
             \/ i >= 0 /\ PoolW!Concatenate(i, s.text, s.own = i)
             \/ i >= 0 /\ PoolW!Printf(i, s.text)
             \/ \E part \in Parts :
                   i >= 0 /\ PoolW!SetToSubstring(i, s.text, s.own = i, part[1], part[2])
      PROVE  TextInv'
  <2> DEFINE t == s.text
  <2>1. t \in TextP!String /\ i \in Int
    BY <1>2
  <2> HIDE DEF t
  <2>2. ASSUME PoolW!Set(i, t) PROVE TextInv'
    BY <1>1, <2>1, <2>2, WideCallsSame, TextP!SetStep DEF PoolW!Set, TextInv
  <2>3. ASSUME PoolW!Error PROVE TextInv'
    BY <1>1, <2>3, WideCallsSame, TextP!Unchanged DEF PoolW!Error, TextP!Error, TextInv
  <2>4. CASE i >= 0 /\ PoolW!Concatenate(i, t, s.own = i)
    <3>1. TextP!Concatenate(i, t, s.own = i)
      BY <2>4, WideCallsSame DEF PoolW!Concatenate
    <3> QED
      BY <1>1, <2>1, <3>1, TextP!ConcatenateStep DEF TextInv
  <2>5. CASE i >= 0 /\ PoolW!Printf(i, t)
    BY <2>2, <2>3, <2>5 DEF PoolW!Printf
  <2>6. ASSUME NEW part \in Parts, i >= 0, PoolW!SetToSubstring(i, t, s.own = i, part[1], part[2])
        PROVE  TextInv'
    <3> DEFINE a == part[1]  n == part[2]  own == s.own = i
    <3>1. a \in Nat /\ n \in Nat /\ i \in Nat
      BY <2>1, <2>6, PoolConstants
    <3> HIDE DEF a, n, own
    <3>2. CASE PoolW!Error
      BY <2>3, <3>2
    <3>3. CASE a + n <= Len(t) /\ PoolW!SetPart(i, SubSeq(t, a + 1, a + n), a, own)
      <4> DEFINE u == SubSeq(t, a + 1, a + n)
      <4>1. a + 1 \in Nat /\ a + 1 >= 1 /\ a + n \in Int
        BY <3>1
      <4>2. u \in TextP!String
        BY <2>1, <3>3, <4>1, TextP!PartOfString
      <4>3. TextP!SetPart(i, u, a, own)
        BY <3>3, WideCallsSame DEF PoolW!SetPart
      <4> HIDE DEF u
      <4> QED
        BY <1>1, <3>1, <4>2, <4>3, TextP!SetPartStep DEF TextInv
    <3>4. PoolW!SetToSubstring(i, t, own, a, n)
      BY <2>6 DEF a, n, own
    <3> QED
      BY <3>2, <3>3, <3>4, Zenon DEF PoolW!SetToSubstring
  <2>7. \/ PoolW!Set(i, t)
        \/ i >= 0 /\ PoolW!Concatenate(i, t, s.own = i)
        \/ i >= 0 /\ PoolW!Printf(i, t)
        \/ \E part \in Parts :
              i >= 0 /\ PoolW!SetToSubstring(i, t, s.own = i, part[1], part[2])
    BY <1>3, Zenon DEF t
  <2> QED
    BY <2>2, <2>4, <2>5, <2>6, <2>7, Zenon
<1>4. ASSUME NEW i, PoolW!Get(i) PROVE TextInv'
  BY <1>1, <1>4, WideCallsSame, TextP!GetStep DEF PoolW!Get, TextInv
<1>5. ASSUME NEW i, NEW k \in 0 .. 1, NEW c \in Chars, PoolW!SetChar(i, k, c) PROVE TextInv'
  BY <1>1, <1>5, WideCallsSame, TextP!SetCharStep DEF PoolW!SetChar, TextInv
<1>6. CASE PoolW!Resize(MaxLen)
  BY <1>1, <1>6, PoolConstants, WideSpaceSame, TextP!ReserveStep
     DEF PoolW!Resize, PoolW!ResizeNum, PoolW!ResizeBuf, TextInv
<1>7. CASE PoolW!Clear
  BY <1>1, <1>7, WideCallsSame, TextP!ClearStep DEF PoolW!Clear, TextInv
<1> QED
  BY <1>3, <1>4, <1>5, <1>6, <1>7, Zenon DEF PoolW!Next

LEMMA PoolLStep ==
  ASSUME LongInv, PoolL!Next
  PROVE  LongInv'
<1>1. LongP!Constants /\ LongP!IInv /\ spoilt = {}
  BY PoolConstants DEF LongInv, PoolL!Next
<1>2. \A s \in PoolL!Pool!Sources : s.text \in LongP!String
  BY <1>1, PoolConstants, LongCallsSame, LongP!SourcesAreStrings
<1>3. ASSUME spoilt' = spoilt \cup {"length"} PROVE LongInv'
  BY <1>3 DEF LongInv, LongP!IInv
<1>4. ASSUME PoolL!Error PROVE LongInv'
  BY <1>1, <1>4, LongCallsSame, LongP!Unchanged DEF PoolL!Error, LongP!Error, LongInv
<1>5. ASSUME NEW s \in PoolL!Pool!Sources, NEW i \in -1 .. MaxIndex,
             \/ PoolL!Set(i, s.text)
             \/ PoolL!Concatenate(i, s.text, s.own = i)
             \/ i >= 0 /\ PoolL!Printf(i, s.text)
             \/ \E part \in Parts :
                   i >= 0 /\ PoolL!SetToSubstring(i, s.text, s.own = i, part[1], part[2])
      PROVE  LongInv'
  <2> DEFINE t == s.text
  <2>1. t \in LongP!String /\ i \in Int
    BY <1>2
  <2> HIDE DEF t
  <2>2. ASSUME PoolL!Set(i, t) PROVE LongInv'
    <3>1. CASE PoolL!Pool!Set(i, t)
      BY <1>1, <2>1, <3>1, LongCallsSame, LongP!SetStep DEF LongInv
    <3> QED
      BY <1>4, <2>2, <3>1 DEF PoolL!Set
  <2>3. CASE PoolL!Concatenate(i, t, s.own = i)
    <3>1. CASE PoolL!Pool!Concatenate(i, t, s.own = i)
      <4>1. LongP!Concatenate(i, t, s.own = i)
        BY <3>1, LongCallsSame
      <4> QED
        BY <1>1, <2>1, <4>1, LongP!ConcatenateStep DEF LongInv
    <3> QED
      BY <1>3, <1>4, <2>3, <3>1, Zenon DEF PoolL!Concatenate
  <2>4. CASE i >= 0 /\ PoolL!Printf(i, t)
    <3>1. CASE PoolL!Pool!Printf(i, t)
      <4>1. LongP!Printf(i, t) /\ i \in Nat
        BY <2>1, <2>4, <3>1, LongCallsSame
      <4> QED
        BY <1>1, <2>1, <4>1, LongP!PrintfStep DEF LongInv
    <3> QED
      BY <1>4, <2>2, <2>4, <3>1 DEF PoolL!Printf
  <2>5. ASSUME NEW part \in Parts, i >= 0, PoolL!SetToSubstring(i, t, s.own = i, part[1], part[2])
        PROVE  LongInv'
    <3> DEFINE a == part[1]  n == part[2]  own == s.own = i
               u == SubSeq(t, a + 1, a + n)
    <3>1. a \in Nat /\ n \in Nat /\ i \in Nat
      BY <2>1, <2>5, PoolConstants
    <3> HIDE DEF a, n, own
    <3>2. \/ PoolL!Error
          \/ spoilt' = spoilt \cup {"length"}
          \/ a + n <= Len(t) /\ PoolL!Pool!SetPart(i, u, a, own)
      BY <2>5, Zenon DEF PoolL!SetToSubstring, PoolL!SetPart, a, n, own
    <3>3. CASE a + n <= Len(t) /\ PoolL!Pool!SetPart(i, u, a, own)
      <4>1. a + 1 \in Nat /\ a + 1 >= 1 /\ a + n \in Int
        BY <3>1
      <4>2. u \in LongP!String
        BY <2>1, <3>3, <4>1, LongP!PartOfString
      <4>3. LongP!SetPart(i, u, a, own)
        BY <3>3, LongCallsSame
      <4> HIDE DEF u
      <4> QED
        BY <1>1, <3>1, <4>2, <4>3, LongP!SetPartStep DEF LongInv
    <3> QED
      BY <1>3, <1>4, <3>2, <3>3
  <2>6. \/ PoolL!Set(i, t)
        \/ PoolL!Concatenate(i, t, s.own = i)
        \/ i >= 0 /\ PoolL!Printf(i, t)
        \/ \E part \in Parts :
              i >= 0 /\ PoolL!SetToSubstring(i, t, s.own = i, part[1], part[2])
    BY <1>5, Zenon DEF t
  <2> QED
    BY <2>2, <2>3, <2>4, <2>5, <2>6, Zenon
<1>6. ASSUME NEW i, PoolL!Get(i) PROVE LongInv'
  BY <1>1, <1>4, <1>6, LongP!Unchanged DEF PoolL!Get, LongInv
<1>7. ASSUME NEW i, NEW k \in 0 .. 1, NEW c \in Chars, PoolL!SetChar(i, k, c) PROVE LongInv'
  BY <1>1, <1>7, LongCallsSame, LongP!SetCharStep DEF PoolL!SetChar, LongInv
<1>8. CASE PoolL!Reserve(MaxLen)
  BY <1>1, <1>8, PoolConstants, LongSpaceSame, LongP!ReserveStep
     DEF PoolL!Reserve, PoolL!ReserveNum, PoolL!ReserveBuf, LongInv
<1>9. CASE PoolL!Clear
  BY <1>1, <1>9, LongCallsSame, LongP!ClearStep DEF PoolL!Clear, LongInv
<1> QED
  BY <1>5, <1>6, <1>7, <1>8, <1>9, Zenon DEF PoolL!Next

LEMMA PoolsStart ==
  ASSUME PoolS!Init
  PROVE  TextInv /\ LongInv
<1>1. TextP!Init
  BY TextCallsSame
<1>2. LongP!Init
  BY DEF PoolS!Init, LongP!Init, PoolS!NoBuffer, LongP!NoBuffer
<1> QED
  BY <1>1, <1>2, PoolConstants, TextP!Started, LongP!Started DEF TextInv, LongInv

LEMMA PoolsKeep ==
  /\ TextInv => PoolS!StringsKept
  /\ LongInv => PoolL!Pool!StringsKept
<1>1. 0 \in Nat /\ Prefix \in Nat
  BY PoolConstants DEF LongP!Assumption
<1> QED
  BY <1>1, TextCallsSame, LongCallsSame, TextP!KeptWhileSound, LongP!KeptWhileSound DEF TextInv, LongInv

-----------------------------------------------------------------------------
(* The client and its object.                                              *)

IInv ==
    /\ class = "DynamicQueue" => QueueInv
    /\ class = "FIFOlist" => FifoInv
    /\ class = "FILOlist" => FiloInv
    /\ class = "SafeArray" => SafeInv
    /\ class = "DynamicArray" => ArrayInv /\ failed \in BOOLEAN
    /\ class = "AlignedArray" => AlignedInv
    /\ class = "MixedPool" => MixedInv
    /\ class = "SortedList" => SortedInv
    /\ class \in {"StringPoolS", "StringPoolW"} => TextInv
    /\ class = "StringPoolL" => LongInv

Starts ==
    /\ class = "DynamicQueue" => Queue!AbstractInit
    /\ class = "FIFOlist" => Fifo!AbstractInit
    /\ class = "FILOlist" => Filo!AbstractInit
    /\ class = "SafeArray" => Safe!AbstractInit
    /\ class = "DynamicArray" => Array!AbstractInit
    /\ class = "AlignedArray" => Aligned!AbstractInit
    /\ class = "MixedPool" => Mixed!AbstractInit

Steps ==
    /\ class = "DynamicQueue" => Queue!AbstractStep
    /\ class = "FIFOlist" => Fifo!AbstractStep
    /\ class = "FILOlist" => Filo!AbstractStep
    /\ class = "SafeArray" => Safe!AbstractStep
    /\ class = "DynamicArray" => Array!AbstractStep
    /\ class = "AlignedArray" => Aligned!AbstractStep
    /\ class = "MixedPool" => Mixed!AbstractStep
    /\ class = "SortedList" => Sorted!DoesWhatItSays

LEMMA ClientStarts ==
  ASSUME Init
  PROVE  IInv /\ Starts
<1>1. Array!Init => failed \in BOOLEAN
  BY Zenon DEF Array!Init
<1> QED
  BY <1>1, QueueStarts, FifoStarts, FiloStarts, SafeStarts, ArrayStarts, AlignedStarts,
     MixedStarts, SortedStarts, PoolsStart DEF Init, IInv, Starts

LEMMA ClientStep ==
  ASSUME IInv, Next
  PROVE  IInv' /\ Steps
BY InstanceAssumption, QueueStep, FifoStep, FiloStep, SafeStep, ArrayStep, ArrayFailing,
   AlignedStep, MixedStep, SortedStep, PoolSStep, PoolWStep, PoolLStep DEF Next, IInv, Steps

LEMMA ClientStutters ==
  ASSUME IInv, UNCHANGED vars
  PROVE  IInv'
<1>1. UNCHANGED <<class, block, size, count, first, last, failed, pool, strings, spoilt>>
  BY DEF vars, object, places, texts
<1>2. QueueInv => QueueInv'
  BY <1>1 DEF QueueInv, Queue!TypeOK, QueueRing, QueueStored, Queue!Slot
<1>3. (FifoInv => FifoInv') /\ (FiloInv => FiloInv') /\ (SafeInv => SafeInv')
  BY <1>1 DEF FifoInv, FiloInv, SafeInv, Place
<1>4. (ArrayInv => ArrayInv') /\ (AlignedInv => AlignedInv') /\ (MixedInv => MixedInv')
  BY <1>1 DEF ArrayInv, AlignedInv, MixedInv, Has, Covers, Extends
<1>5. SortedInv => SortedInv'
  <2>1. UNCHANGED <<block, count>>
    BY <1>1
  <2> QED
    BY <2>1, SortedP!Stuttering DEF SortedInv
<1>6. failed \in BOOLEAN => failed' \in BOOLEAN
  BY <1>1, Zenon
<1>7. (TextInv => TextInv') /\ (LongInv => LongInv')
  BY <1>1, TextP!Unchanged, LongP!Unchanged DEF TextInv, LongInv
<1> QED
  BY <1>1, <1>2, <1>3, <1>4, <1>5, <1>6, <1>7 DEF IInv

\* The ends, the numbers and the blocks of an object agree in every state, and the
\* strings of a pool lie whole and apart in its buffer.
THEOREM BlocksSound == Spec => []IInv
<1>1. Init => IInv
  BY ClientStarts
<1>2. IInv /\ [Next]_vars => IInv'
  BY ClientStep, ClientStutters
<1> QED
  BY <1>1, <1>2, PTL DEF Spec

\* The queues, stacks, arrays and pools are what Collection says, for blocks of
\* every size, whatever the order of the calls.
THEOREM CollectionImplemented == Spec => ImplementsCollection
<1>1. Init => Starts
  BY ClientStarts
<1>2. IInv /\ [Next]_vars => [Steps]_vars
  BY ClientStep
<1>3. Spec => Starts /\ [][Steps]_vars
  BY <1>1, <1>2, BlocksSound, PTL DEF Spec
<1> QED
  BY <1>3, PTL DEF ImplementsCollection, Starts, Steps

\* The block and the ends of a queue, an array or a sorted list are of their
\* types: ends inside the block, counts within the size, records and no memory
\* that was never written among the first num.
THEOREM TypeCorrect == Spec => []TypeOK
<1>1. QueueInv => Queue!TypeOK
  BY DEF QueueInv
<1>2. IInv => TypeOK
  BY <1>1, ArrayTyped, SortedSound DEF IInv, TypeOK
<1> QED
  BY <1>2, BlocksSound, PTL

\* A sorted list of any size stays in the order of the names, and each call adds,
\* removes or finds the record it says and no other: the binary search ends, and
\* where it ends is where the record belongs.
THEOREM RecordsKept == Spec => KeepsRecordsInOrder
<1> DEFINE InOrder == class = "SortedList" => Sorted!InOrder
           Does == class = "SortedList" => Sorted!DoesWhatItSays
<1>1. IInv => InOrder
  BY SortedSound DEF IInv
<1>2. IInv /\ [Next]_vars => [Does]_vars
  BY ClientStep DEF Steps
<1>3. KeepsRecordsInOrder <=> []InOrder /\ [][Does]_vars
  BY DEF KeepsRecordsInOrder
<1> HIDE DEF InOrder, Does
<1> QED
  BY <1>1, <1>2, <1>3, BlocksSound, PTL DEF Spec

\* Every string of a pool reads back the text its index was last given, in its own
\* part of the used buffer, for texts, sizes and orders of calls of any kind:
\* whichever of its three ways Allocate takes, and whatever moves meanwhile.
THEOREM TextsKept == Spec => []StringsKept
<1>1. IInv => StringsKept
  BY PoolsKeep DEF IInv, StringsKept
<1> QED
  BY <1>1, BlocksSound, PTL

\* The ring and its ends agree in every state: the ends are inside the block,
\* head follows the last entry, and each place from tail on has been written; so in
\* a queue by itself.
THEOREM QueueSound == Queue!Spec => []QueueInv
<1>1. Queue!Init => QueueInv
  BY QueueStarts
<1>2. QueueInv /\ [Queue!Next]_(Queue!vars) => QueueInv'
  BY QueueStep, QueueStutters, InstanceAssumption
<1> QED
  BY <1>1, <1>2, PTL DEF Queue!Spec

\* head, tail and the number of entries of a queue stay within its buffer.
THEOREM QueueTyped == Queue!Spec => []Queue!TypeOK
<1>1. QueueInv => Queue!TypeOK
  BY DEF QueueInv
<1> QED
  BY <1>1, QueueSound, PTL

\* However often the ring wraps around and moves to a larger block, Get returns
\* what was put in first, Put appends, an object of the queue itself included,
\* and queue[i] is the i-th entry, until a wrong call ends the program.
THEOREM QueueImplemented == Queue!Spec => Queue!ImplementsQueue
<1>1. Queue!Init => Queue!AbstractInit
  BY QueueStarts
<1>2. QueueInv /\ [Queue!Next]_(Queue!vars) => [Queue!AbstractStep]_(Queue!vars)
  BY QueueStep, InstanceAssumption
<1> QED
  BY <1>1, <1>2, QueueSound, PTL DEF Queue!Spec, Queue!ImplementsQueue
=============================================================================
