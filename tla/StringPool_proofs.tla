------------------------- MODULE StringPool_proofs --------------------------
(***************************************************************************)
(* Every index of a string pool reads back the text it was last given, for *)
(* all texts, sizes and orders of calls, until one of the calls the pool   *)
(* does not survive.                                                       *)
(***************************************************************************)
EXTENDS StringPool, FiniteSetTheorems, WellFoundedInduction, TLAPS

String == Seq(Letters)

\* The strings that are not empty, where they end, and the units they take up.
Live(p) == {i \in 0 .. p.Num-1 : p.Offsets[i] # 0}
End(p, i) == p.Offsets[i] + Size(Len(Text(p, i)))
Taken(p, i) == p.Offsets[i] .. End(p, i) - 1
Used(p, S) == UNION {Taken(p, i) : i \in S}

Shape(p) ==
    p = [Buffer |-> p.Buffer, BufferSize |-> p.BufferSize,
         Offsets |-> p.Offsets, OffsetsSize |-> p.OffsetsSize,
         DataSize |-> p.DataSize, GarbageSize |-> p.GarbageSize, Top |-> p.Top, Num |-> p.Num]

Members(p) ==
    /\ Shape(p)
    /\ p.Buffer = [k \in DOMAIN p.Buffer |-> p.Buffer[k]]
    /\ p.Offsets \in [0 .. p.OffsetsSize-1 -> Nat]
    /\ p.BufferSize \in Nat /\ p.OffsetsSize \in Nat /\ p.DataSize \in Nat
    /\ p.GarbageSize \in Nat /\ p.Top \in Nat /\ p.Num \in Nat
    /\ p.Num <= p.OffsetsSize
    /\ \A i \in p.Num .. p.OffsetsSize-1 : p.Offsets[i] = 0

\* Strings lie behind the empty one, within the used part of the buffer.
Within(p) ==
    \A i \in Live(p) :
        /\ p.Offsets[i] \in DOMAIN p.Buffer
        /\ Text(p, i) \in String /\ Text(p, i) # <<>>
        /\ Size(0) <= p.Offsets[i] /\ End(p, i) <= p.DataSize

Apart(p) ==
    \A i, j \in Live(p) : i # j => End(p, i) <= p.Offsets[j] \/ End(p, j) <= p.Offsets[i]

\* The string at Top, if there still is one there, is the last.
LastAtTop(p) ==
    \A i \in Live(p) : IF p.Offsets[i] = p.Top THEN End(p, i) = p.DataSize
                                               ELSE End(p, i) <= p.Top

\* Where a buffer begins; after Clear nothing of it is in use.
Begins(p) ==
    /\ p.BufferSize > 0 => 0 \in DOMAIN p.Buffer /\ p.Buffer[0] = <<>>
    /\ p.DataSize <= p.BufferSize
    /\ IF p.DataSize = 0 THEN Live(p) = {} /\ p.GarbageSize = 0 ELSE Size(0) <= p.DataSize

Packed(p) == Members(p) /\ Within(p) /\ Apart(p) /\ LastAtTop(p) /\ Begins(p)

\* What is neither a string nor known to be garbage is free.
Accounted(p) ==
    p.DataSize > 0 =>
        p.GarbageSize + Size(0) + Cardinality(Used(p, Live(p))) <= p.DataSize

\* The strings are the texts they were given.
Holds(p, s) ==
    /\ s \in [0 .. p.Num-1 -> String]
    /\ \A i \in 0 .. p.Num-1 : s[i] = IF p.Offsets[i] = 0 THEN <<>> ELSE Text(p, i)

Sound == Packed(pool) /\ Accounted(pool) /\ Holds(pool, strings)
IInv == spoilt = {} => Sound

-----------------------------------------------------------------------------
(* Induction over the numbers.                                             *)

LEMMA LeastNumber ==
  ASSUME NEW T, T \subseteq Nat, T # {}
  PROVE  \E m \in T : \A n \in T : m <= n
<1> DEFINE R == OpToRel(<, Nat)
<1>1. \A m, n \in Nat : m < n => <<m, n>> \in R
  BY DEF OpToRel
<1>2. IsWellFoundedOn(R, Nat)
  BY NatLessThanWellFounded
<1> HIDE DEF R
<1>3. PICK m \in T : \A n \in T : ~(<<n, m>> \in R)
  BY <1>2, WFMin
<1>4. \A n \in T : ~(n < m)
  BY <1>1, <1>3
<1>5. \A n \in T : m <= n
  BY <1>4
<1> QED
  BY <1>5

LEMMA AllNumbers ==
  ASSUME NEW T, 0 \in T, \A n \in Nat : n \in T => n+1 \in T
  PROVE  \A n \in Nat : n \in T
<1> SUFFICES ASSUME NEW k \in Nat, k \notin T PROVE FALSE
  OBVIOUS
<1> DEFINE M == Nat \ T
<1>1. M \subseteq Nat /\ M # {}
  OBVIOUS
<1> HIDE DEF M
<1>2. PICK m \in M : \A n \in M : m <= n
  BY <1>1, LeastNumber
<1> USE DEF M
<1>3. m - 1 \in Nat /\ ~(m <= m - 1)
  BY <1>2
<1>4. m - 1 \in T /\ m = (m-1) + 1
  BY <1>2, <1>3
<1> QED
  BY <1>2, <1>3, <1>4

-----------------------------------------------------------------------------
(* Texts in the buffer.                                                    *)

LEMMA Lengths ==
  ASSUME NEW t \in String
  PROVE  /\ Len(t) \in Nat
         /\ t # <<>> <=> Len(t) > 0
BY DEF String

\* The text is where it was written, and so is every other one that it does not
\* overlap.
LEMMA WrittenThere ==
  ASSUME NEW b, NEW k \in Nat, NEW t \in String, Prefix \in Nat
  PROVE  /\ k \in DOMAIN Written(b, k, t, Prefix) /\ TextAt(Written(b, k, t, Prefix), k) = t
         /\ Written(b, k, t, Prefix) =
              [j \in DOMAIN Written(b, k, t, Prefix) |-> Written(b, k, t, Prefix)[j]]
BY DEF Written, TextAt

\* A text of length l at j lies before the place k, or behind n units from k on.
Beside(j, l, k, n) == j + Size(l) <= k \/ k + n <= j

LEMMA OtherKept ==
  ASSUME NEW b, NEW k \in Nat, NEW t \in String, Prefix \in Nat,
         NEW j \in Nat, j \in DOMAIN b, b[j] \in String, Beside(j, Len(b[j]), k, Size(Len(t)))
  PROVE  /\ j \in DOMAIN Written(b, k, t, Prefix)
         /\ Written(b, k, t, Prefix)[j] = b[j]
<1>1. Len(t) \in Nat /\ Len(b[j]) \in Nat
  BY Lengths
<1>2. j # k
  BY <1>1 DEF Beside, Size
<1>3. Extent(j, b[j], Prefix) \cap Extent(k, t, Prefix) = {}
  BY <1>1 DEF Beside, Size, Extent
<1> QED
  BY <1>2, <1>3 DEF Written

-----------------------------------------------------------------------------
(* Sizes of sets of units.                                                 *)

LEMMA Sizes ==
  ASSUME Prefix \in Nat, NEW p, Members(p), Within(p), NEW i \in Live(p)
  PROVE  /\ i \in 0 .. p.Num-1 /\ i \in Nat
         /\ p.Offsets[i] \in Nat /\ p.Offsets[i] # 0
         /\ Len(Text(p, i)) \in Nat /\ Len(Text(p, i)) > 0
         /\ Size(Len(Text(p, i))) \in Nat /\ Size(Len(Text(p, i))) > 0
         /\ End(p, i) \in Nat /\ End(p, i) = p.Offsets[i] + Size(Len(Text(p, i)))
<1>1. i \in 0 .. p.Num-1 /\ i \in 0 .. p.OffsetsSize-1 /\ i \in Nat /\ p.Offsets[i] # 0
  BY DEF Live, Members
<1>2. p.Offsets[i] \in Nat
  BY <1>1 DEF Members
<1>3. Len(Text(p, i)) \in Nat /\ Len(Text(p, i)) > 0
  BY Lengths DEF Within
<1> QED
  BY <1>1, <1>2, <1>3 DEF Size, End

LEMMA Disjoint ==
  ASSUME NEW a \in Int, NEW b \in Int, NEW c \in Int, NEW d \in Int, b <= c \/ d <= a
  PROVE  (a .. b-1) \cap (c .. d-1) = {}
OBVIOUS

\* The units of strings are among those of the buffer.
LEMMA UsedWithin ==
  ASSUME Prefix \in Nat, NEW p, Members(p), Within(p), NEW S, S \subseteq Live(p)
  PROVE  IsFiniteSet(Used(p, S)) /\ Cardinality(Used(p, S)) \in Nat
<1>1. ASSUME NEW j \in S
      PROVE  Taken(p, j) \subseteq 0 .. p.DataSize
  <2>1. p.Offsets[j] \in Nat /\ End(p, j) \in Nat /\ p.DataSize \in Nat
    BY Sizes DEF Members
  <2>2. End(p, j) <= p.DataSize
    BY DEF Within
  <2> QED
    BY <2>1, <2>2 DEF Taken
<1>2. IsFiniteSet(0 .. p.DataSize)
  <2>1. 0 \in Int /\ p.DataSize \in Int
    BY DEF Members
  <2> QED
    BY <2>1, FS_Interval
<1>3. Used(p, S) \subseteq 0 .. p.DataSize
  BY <1>1 DEF Used
<1> QED
  BY <1>2, <1>3, FS_Subset, FS_CardinalityType

\* The units of one string, and of others apart from it.
LEMMA Summed ==
  ASSUME Prefix \in Nat, NEW p, Members(p), Within(p), Apart(p),
         NEW S, S \subseteq Live(p), NEW i \in Live(p), i \notin S
  PROVE  Cardinality(Used(p, S \cup {i})) = Cardinality(Used(p, S)) + Size(Len(Text(p, i)))
<1>1. IsFiniteSet(Used(p, S)) /\ Cardinality(Used(p, S)) \in Nat
  BY UsedWithin
<1>2. /\ IsFiniteSet(Taken(p, i))
      /\ Cardinality(Taken(p, i)) = Size(Len(Text(p, i)))
  <2> DEFINE a == p.Offsets[i]  b == End(p, i) - 1
  <2>1. /\ a \in Int /\ b \in Int /\ a <= b
        /\ b - a + 1 = Size(Len(Text(p, i)))
    BY Sizes, SMTT(40)
  <2>2. Taken(p, i) = a .. b
    BY DEF Taken
  <2> HIDE DEF a, b
  <2> QED
    BY <2>1, <2>2, FS_Interval
<1>3. Used(p, S) \cap Taken(p, i) = {}
  <2>1. ASSUME NEW j \in S PROVE Taken(p, j) \cap Taken(p, i) = {}
    <3>1. j \in Live(p) /\ j # i
      OBVIOUS
    <3>2. End(p, i) <= p.Offsets[j] \/ End(p, j) <= p.Offsets[i]
      BY <3>1 DEF Apart
    <3>3. /\ p.Offsets[i] \in Int /\ p.Offsets[j] \in Int
          /\ End(p, i) \in Int /\ End(p, j) \in Int
      BY <3>1, Sizes
    <3> QED
      BY <3>2, <3>3, Disjoint DEF Taken
  <2> QED
    BY <2>1 DEF Used
<1>4. Used(p, S \cup {i}) = Used(p, S) \cup Taken(p, i)
  BY DEF Used
<1>5. Cardinality(Used(p, S) \cup Taken(p, i)) =
        Cardinality(Used(p, S)) + Cardinality(Taken(p, i)) - Cardinality(Used(p, S) \cap Taken(p, i))
  BY <1>1, <1>2, FS_Union
<1>6. Cardinality(Used(p, S) \cap Taken(p, i)) = 0
  BY <1>3, FS_EmptySet
<1> DEFINE a == Cardinality(Used(p, S))  b == Size(Len(Text(p, i)))
<1>7. a \in Nat /\ b \in Nat /\ Cardinality(Used(p, S) \cup Taken(p, i)) = a + b - 0
  BY <1>1, <1>2, <1>5, <1>6, Sizes
<1> HIDE DEF a, b
<1>8. Cardinality(Used(p, S) \cup Taken(p, i)) = a + b
  BY <1>7
<1> QED
  BY <1>4, <1>8 DEF a, b

LEMMA FewerUsed ==
  ASSUME Prefix \in Nat, NEW p, Members(p), Within(p), NEW S, S \subseteq Live(p),
         NEW R, R \subseteq S
  PROVE  Cardinality(Used(p, R)) <= Cardinality(Used(p, S))
<1>1. Used(p, R) \subseteq Used(p, S)
  BY DEF Used
<1> QED
  BY <1>1, UsedWithin, FS_Subset

\* What is taken does not depend on anything but where the strings are.
LEMMA SameUsed ==
  ASSUME NEW p, NEW q, NEW S,
         \A j \in S : q.Offsets[j] = p.Offsets[j] /\ Text(q, j) = Text(p, j)
  PROVE  Used(q, S) = Used(p, S)
<1>1. \A j \in S : Taken(q, j) = Taken(p, j)
  BY DEF Taken, End
<1> QED
  BY <1>1 DEF Used

-----------------------------------------------------------------------------
(* One string put where there is room for it.                              *)

\* q has these members.
Has(q, buffer, buffersize, offsets, offsetssize, datasize, garbagesize, top, num) ==
    /\ Shape(q)
    /\ q.Buffer = buffer /\ q.BufferSize = buffersize
    /\ q.Offsets = offsets /\ q.OffsetsSize = offsetssize
    /\ q.DataSize = datasize /\ q.GarbageSize = garbagesize
    /\ q.Top = top /\ q.Num = num

\* The offsets f, but for that of string i.
Redirected(f, i, k, g) == g = [j \in DOMAIN f |-> IF j = i THEN k ELSE f[j]]

\* The buffer b has the text t at k, and what it had of the empty string and of
\* all strings but i.
Stores(p, i, k, t, b) ==
    /\ b = [j \in DOMAIN b |-> b[j]]
    /\ k \in DOMAIN b /\ b[k] = t
    /\ 0 \in DOMAIN b /\ b[0] = <<>>
    /\ \A j \in Live(p) \ {i} : /\ p.Offsets[j] \in DOMAIN b
                               /\ b[p.Offsets[j]] = p.Buffer[p.Offsets[j]]

\* The n units from k on are free, or string i's, where the used part ends at d
\* and the last string begins at top.
Room(p, i, k, n, d, top) ==
    /\ Size(0) <= k /\ k + n <= d /\ d <= p.BufferSize
    /\ IF k = top THEN k + n = d ELSE k + n <= top
    /\ \A j \in Live(p) \ {i} :
          /\ End(p, j) <= k \/ k + n <= p.Offsets[j]
          /\ End(p, j) <= d
          /\ IF p.Offsets[j] = top THEN End(p, j) = d ELSE End(p, j) <= top

\* What of the used part is garbage is no more than what is left beside the strings.
Paid(p, i, n, d, g) ==
    g + Size(0) + Cardinality(Used(p, Live(p) \ {i})) + n <= d

\* String i is now t, and the others are what they were.
Reads(p, i) == IF p.Offsets[i] = 0 THEN <<>> ELSE Text(p, i)
Becomes(p, i, t, q) ==
    /\ q.Num = p.Num
    /\ \A j \in 0 .. p.Num-1 : Reads(q, j) = IF j = i THEN t ELSE Reads(p, j)

LEMMA WrittenStores ==
  ASSUME Prefix \in Nat, NEW p, Packed(p), p.BufferSize > 0, NEW i, NEW k \in Nat,
         NEW t \in String, NEW d, NEW top, Room(p, i, k, Size(Len(t)), d, top)
  PROVE  Stores(p, i, k, t, Written(p.Buffer, k, t, Prefix))
<1> DEFINE b == Written(p.Buffer, k, t, Prefix)
<1>1. b = [j \in DOMAIN b |-> b[j]] /\ k \in DOMAIN b /\ b[k] = t
  BY DEF Written
<1>2. 0 \in DOMAIN b /\ b[0] = <<>>
  <2>1. /\ 0 \in DOMAIN p.Buffer /\ p.Buffer[0] = <<>> /\ <<>> \in String /\ Len(<<>>) = 0
        /\ Size(0) <= k
    BY DEF Packed, Begins, String, Room
  <2>2. Beside(0, Len(p.Buffer[0]), k, Size(Len(t)))
    BY <2>1 DEF Beside, Size
  <2> QED
    BY <2>1, <2>2, OtherKept
<1>3. ASSUME NEW j \in Live(p) \ {i}
      PROVE  p.Offsets[j] \in DOMAIN b /\ b[p.Offsets[j]] = p.Buffer[p.Offsets[j]]
  <2> DEFINE o == p.Offsets[j]
  <2>1. o \in Nat /\ o \in DOMAIN p.Buffer /\ p.Buffer[o] = Text(p, j) /\ Text(p, j) \in String
    BY Sizes DEF Packed, Within, Text, TextAt
  <2>2. Beside(o, Len(p.Buffer[o]), k, Size(Len(t)))
    BY <2>1 DEF Beside, Room, End
  <2> HIDE DEF o
  <2>3. o \in DOMAIN b /\ b[o] = p.Buffer[o]
    BY <2>1, <2>2, OtherKept
  <2> QED
    BY <2>3 DEF o
<1> QED
  BY <1>1, <1>2, <1>3 DEF Stores

LEMMA Placed ==
  ASSUME Prefix \in Nat, NEW p, Packed(p), NEW i \in 0 .. p.Num-1, NEW k \in Nat,
         NEW t \in String, t # <<>>, NEW d \in Nat, NEW top \in Nat, NEW g \in Nat,
         Room(p, i, k, Size(Len(t)), d, top), Paid(p, i, Size(Len(t)), d, g),
         NEW b, Stores(p, i, k, t, b), NEW o, Redirected(p.Offsets, i, k, o),
         NEW q, Has(q, b, p.BufferSize, o, p.OffsetsSize, d, g, top, p.Num)
  PROVE  Packed(q) /\ Accounted(q) /\ Becomes(p, i, t, q)
<1> DEFINE n == Size(Len(t))
<1>1. n \in Nat /\ n > 0 /\ Size(0) \in Nat /\ Size(0) > 0
  BY Lengths DEF Size
<1>2. /\ p.Offsets \in [0 .. p.OffsetsSize-1 -> Nat] /\ p.Num \in Nat /\ p.OffsetsSize \in Nat
      /\ p.Num <= p.OffsetsSize /\ p.BufferSize \in Nat
      /\ \A j \in p.Num .. p.OffsetsSize-1 : p.Offsets[j] = 0
      /\ Members(p) /\ Within(p) /\ Apart(p)
  BY DEF Packed, Members
<1>3. q.Offsets[i] = k /\ \A j \in 0 .. p.OffsetsSize-1 : j # i => q.Offsets[j] = p.Offsets[j]
  BY <1>2, SMTT(40) DEF Has, Redirected
<1>4. k # 0
  BY <1>1 DEF Room
<1>5. Live(q) = (Live(p) \ {i}) \cup {i}
  <2>1. q.Num = p.Num /\ \A j \in 0 .. p.Num-1 : j \in 0 .. p.OffsetsSize-1
    BY <1>2 DEF Has
  <2>2. \A j \in 0 .. p.Num-1 : j # i => q.Offsets[j] = p.Offsets[j]
    BY <1>3, <2>1
  <2> QED
    BY <1>3, <1>4, <2>1, <2>2 DEF Live
<1>6. Text(q, i) = t /\ End(q, i) = k + n
  BY <1>3 DEF Stores, Has, Text, TextAt, End
<1>7. ASSUME NEW j \in Live(p) \ {i}
      PROVE  /\ q.Offsets[j] = p.Offsets[j] /\ q.Offsets[j] \in DOMAIN q.Buffer
             /\ Text(q, j) = Text(p, j) /\ End(q, j) = End(p, j)
  <2>1. j \in 0 .. p.OffsetsSize-1 /\ j # i
    BY <1>2 DEF Live
  <2>2. q.Offsets[j] = p.Offsets[j] /\ p.Offsets[j] \in DOMAIN p.Buffer
    BY <1>2, <1>3, <2>1 DEF Within
  <2>3. q.Offsets[j] \in DOMAIN q.Buffer /\ q.Buffer[q.Offsets[j]] = p.Buffer[p.Offsets[j]]
    BY <2>2 DEF Stores, Has
  <2> QED
    BY <2>2, <2>3 DEF Text, TextAt, End
<1>8. Members(q)
  <2>1. o \in [0 .. p.OffsetsSize-1 -> Nat]
    BY <1>2 DEF Redirected
  <2>2. \A j \in p.Num .. p.OffsetsSize-1 : j \in 0 .. p.OffsetsSize-1 /\ j # i
    BY <1>2
  <2>3. \A j \in p.Num .. p.OffsetsSize-1 : q.Offsets[j] = 0
    BY <1>2, <1>3, <2>2
  <2> QED
    BY <1>2, <2>1, <2>3 DEF Has, Stores, Members
<1>9. Within(q)
  BY <1>1, <1>3, <1>5, <1>6, <1>7 DEF Within, Packed, Room, Has, Stores
<1>10. Apart(q)
  BY <1>2, <1>3, <1>5, <1>6, <1>7 DEF Apart, Room
<1>11. LastAtTop(q)
  BY <1>3, <1>5, <1>6, <1>7 DEF LastAtTop, Room, Has
<1>12. Begins(q)
  BY <1>1 DEF Begins, Stores, Room, Has
<1>13. Packed(q)
  BY <1>8, <1>9, <1>10, <1>11, <1>12 DEF Packed
<1>14. Accounted(q)
  <2>1. Used(q, Live(p) \ {i}) = Used(p, Live(p) \ {i})
    BY <1>7, SameUsed
  <2>2. Cardinality(Used(q, Live(q))) = Cardinality(Used(q, Live(p) \ {i})) + n
    BY <1>5, <1>6, <1>8, <1>9, <1>10, Summed
  <2>3. Cardinality(Used(p, Live(p) \ {i})) \in Nat
    BY <1>2, UsedWithin
  <2> QED
    BY <1>1, <2>1, <2>2, <2>3 DEF Accounted, Paid, Has
<1>15. Becomes(p, i, t, q)
  <2>1. ASSUME NEW j \in 0 .. p.Num-1, j # i
        PROVE  Reads(q, j) = Reads(p, j)
    <3>1. q.Offsets[j] = p.Offsets[j]
      BY <1>2, <1>3, <2>1, SMTT(40)
    <3>2. p.Offsets[j] # 0 => j \in Live(p) \ {i}
      BY <2>1 DEF Live
    <3> QED
      BY <1>7, <3>1, <3>2 DEF Reads
  <2> QED
    BY <1>3, <1>4, <1>6, <2>1 DEF Becomes, Reads, Has
<1> QED
  BY <1>13, <1>14, <1>15

-----------------------------------------------------------------------------
(* Strings erased, and none of them changed.                               *)

\* q reads what p reads.
Same(p, q) ==
    q.Num = p.Num /\ \A j \in 0 .. p.Num-1 : Reads(q, j) = Reads(p, j)

\* What is counted as garbage may be less than what was string i.
LEMMA Dropped ==
  ASSUME Prefix \in Nat, NEW p, Packed(p), NEW i \in 0 .. p.Num-1, NEW k \in Nat,
         k <= IF p.Offsets[i] = 0 THEN 0 ELSE Size(Len(Text(p, i))),
         NEW o, Redirected(p.Offsets, i, 0, o),
         NEW q, Has(q, p.Buffer, p.BufferSize, o, p.OffsetsSize, p.DataSize,
                    p.GarbageSize + k, p.Top, p.Num)
  PROVE  Packed(q) /\ (Accounted(p) => Accounted(q)) /\ Becomes(p, i, <<>>, q)
<1>1. /\ p.Offsets \in [0 .. p.OffsetsSize-1 -> Nat] /\ p.Num \in Nat /\ p.OffsetsSize \in Nat
      /\ p.Num <= p.OffsetsSize /\ p.BufferSize \in Nat /\ p.GarbageSize \in Nat
      /\ p.DataSize \in Nat
      /\ \A j \in p.Num .. p.OffsetsSize-1 : p.Offsets[j] = 0
      /\ Members(p) /\ Within(p) /\ Apart(p)
  BY DEF Packed, Members
<1>2. /\ q.Buffer = p.Buffer /\ q.Num = p.Num /\ q.DataSize = p.DataSize /\ q.Top = p.Top
      /\ q.GarbageSize = p.GarbageSize + k /\ q.BufferSize = p.BufferSize
  BY DEF Has
<1>3. q.Offsets[i] = 0 /\ \A j \in 0 .. p.OffsetsSize-1 : j # i => q.Offsets[j] = p.Offsets[j]
  BY <1>1 DEF Has, Redirected
<1>4. \A j \in 0 .. p.Num-1 : j # i => q.Offsets[j] = p.Offsets[j]
  <2>1. \A j \in 0 .. p.Num-1 : j \in 0 .. p.OffsetsSize-1
    BY <1>1
  <2> QED
    BY <1>3, <2>1
<1>5. Live(q) = Live(p) \ {i}
  BY <1>2, <1>3, <1>4 DEF Live
<1>6. \A j \in Live(q) : /\ j \in Live(p) /\ q.Offsets[j] = p.Offsets[j]
                         /\ Text(q, j) = Text(p, j) /\ End(q, j) = End(p, j)
  BY <1>2, <1>4, <1>5 DEF Live, Text, End
<1>7. Members(q)
  <2>1. o \in [0 .. p.OffsetsSize-1 -> Nat]
    BY <1>1 DEF Redirected
  <2>2. \A j \in p.Num .. p.OffsetsSize-1 : j \in 0 .. p.OffsetsSize-1 /\ j # i
    BY <1>1
  <2>3. \A j \in p.Num .. p.OffsetsSize-1 : q.Offsets[j] = 0
    BY <1>1, <1>3, <2>2
  <2> QED
    BY <1>1, <2>1, <2>3, SMTT(40) DEF Has, Members
<1>8. Within(q) /\ Apart(q) /\ LastAtTop(q)
  BY <1>2, <1>6 DEF Packed, Within, Apart, LastAtTop
<1>9. Begins(q)
  <2>1. p.DataSize = 0 => Live(q) = {} /\ p.GarbageSize = 0 /\ k = 0
    <3>1. p.DataSize = 0 => Live(p) = {} /\ p.GarbageSize = 0
      BY DEF Packed, Begins
    <3>2. p.DataSize = 0 => p.Offsets[i] = 0
      BY <3>1 DEF Live
    <3> QED
      BY <1>5, <3>1, <3>2
  <2> QED
    BY <1>1, <1>2, <2>1 DEF Packed, Begins
<1>10. Accounted(p) => Accounted(q)
  <2>1. Used(q, Live(q)) = Used(p, Live(q))
    BY <1>6, SameUsed
  <2>2. CASE i \notin Live(p)
    <3>1. k = 0 /\ Live(q) = Live(p)
      BY <1>5, <2>2 DEF Live
    <3> QED
      BY <1>1, <1>2, <2>1, <3>1 DEF Accounted
  <2>3. CASE i \in Live(p)
    <3>1. k <= Size(Len(Text(p, i)))
      BY <2>3 DEF Live
    <3>2. Live(q) \cup {i} = Live(p) /\ i \notin Live(q) /\ Live(q) \subseteq Live(p)
      BY <1>5, <2>3
    <3>3. Cardinality(Used(p, Live(p))) = Cardinality(Used(p, Live(q))) + Size(Len(Text(p, i)))
      BY <1>1, <2>3, <3>2, Summed
    <3>4. Cardinality(Used(p, Live(q))) \in Nat /\ Size(Len(Text(p, i))) \in Nat
      BY <1>1, <2>3, <3>2, UsedWithin, Sizes
    <3> QED
      BY <1>1, <1>2, <2>1, <3>1, <3>3, <3>4, SMTT(40) DEF Accounted, Size
  <2> QED
    BY <2>2, <2>3
<1>11. Becomes(p, i, <<>>, q)
  BY <1>2, <1>3, <1>4 DEF Becomes, Reads, Text
<1> QED
  BY <1>7, <1>8, <1>9, <1>10, <1>11 DEF Packed

\* A pool whose strings are where they were, and whose buffer has them.
LEMMA Alike ==
  ASSUME Prefix \in Nat, NEW p, Packed(p), NEW q, Members(q),
         Live(q) = Live(p), q.Num = p.Num,
         \A j \in Live(p) : q.Offsets[j] = p.Offsets[j] /\ p.Offsets[j] \in DOMAIN q.Buffer
                             /\ q.Buffer[p.Offsets[j]] = p.Buffer[p.Offsets[j]],
         p.BufferSize > 0 => 0 \in DOMAIN q.Buffer /\ q.Buffer[0] = <<>>,
         q.BufferSize = p.BufferSize, q.DataSize = p.DataSize,
         q.GarbageSize = p.GarbageSize, q.Top = p.Top
  PROVE  Packed(q) /\ (Accounted(p) => Accounted(q)) /\ Same(p, q)
<1>1. \A j \in Live(p) : Text(q, j) = Text(p, j) /\ End(q, j) = End(p, j)
                         /\ q.Offsets[j] = p.Offsets[j] /\ q.Offsets[j] \in DOMAIN q.Buffer
  BY DEF Text, TextAt, End, Packed, Within
<1>2. Within(q) /\ Apart(q) /\ LastAtTop(q) /\ Begins(q)
  BY <1>1 DEF Packed, Within, Apart, LastAtTop, Begins
<1>3. Accounted(p) => Accounted(q)
  <2>1. Used(q, Live(p)) = Used(p, Live(p))
    BY <1>1, SameUsed
  <2> QED
    BY <2>1 DEF Accounted
<1>4. Same(p, q)
  BY <1>1 DEF Same, Reads, Live
<1> QED
  BY <1>2, <1>3, <1>4 DEF Packed


LEMMA ReferredAlike ==
  ASSUME Prefix \in Nat, NEW p, Packed(p)
  PROVE  Packed(Referred(p)) /\ (Accounted(p) => Accounted(Referred(p))) /\ Same(p, Referred(p))
<1> DEFINE q == Referred(p)
           b == [k \in DOMAIN p.Buffer \cap ({0} \cup {p.Offsets[j] : j \in 0 .. p.Num-1})
                    |-> p.Buffer[k]]
<1>1. Shape(p)
  BY DEF Packed, Members
<1>2. Has(q, b, p.BufferSize, p.Offsets, p.OffsetsSize, p.DataSize, p.GarbageSize, p.Top, p.Num)
  BY <1>1 DEF Has, Referred, Shape
<1>3. /\ b = [k \in DOMAIN b |-> b[k]]
      /\ \A k \in DOMAIN b : b[k] = p.Buffer[k]
      /\ 0 \in DOMAIN p.Buffer => 0 \in DOMAIN b
      /\ \A j \in 0 .. p.Num-1 : p.Offsets[j] \in DOMAIN p.Buffer => p.Offsets[j] \in DOMAIN b
  OBVIOUS
<1> HIDE DEF b, q
<1>4. Live(q) = Live(p)
  BY <1>2 DEF Live, Has
<1>5. Members(q)
  BY <1>2, <1>3 DEF Packed, Members, Has
<1>6. \A j \in Live(p) : p.Offsets[j] \in DOMAIN b /\ b[p.Offsets[j]] = p.Buffer[p.Offsets[j]]
  BY <1>3 DEF Live, Packed, Within
<1>7. p.BufferSize > 0 => 0 \in DOMAIN b /\ b[0] = <<>>
  BY <1>3 DEF Packed, Begins
<1>8. Packed(q) /\ (Accounted(p) => Accounted(q)) /\ Same(p, q)
  BY <1>2, <1>4, <1>5, <1>6, <1>7, Alike DEF Has
<1> QED
  BY <1>8 DEF q

\* Offsets that are new are zero.
LEMMA NumberedAlike ==
  ASSUME Prefix \in Nat, AllocateSpace2 \in Nat, NEW p, Packed(p), NEW n \in Nat
  PROVE  LET q == ReserveNum(p, n)
         IN  /\ Packed(q) /\ (Accounted(p) => Accounted(q)) /\ Same(p, q)
             /\ n <= q.OffsetsSize
<1> DEFINE q == ReserveNum(p, n)
           m == Larger(n, p.OffsetsSize * 2 + AllocateSpace2)
           o == [i \in 0 .. m-1 |-> IF i < p.OffsetsSize THEN p.Offsets[i] ELSE 0]
<1>1. /\ Shape(p) /\ Members(p) /\ p.OffsetsSize \in Nat /\ p.Num \in Nat /\ p.Num <= p.OffsetsSize
      /\ p.Offsets \in [0 .. p.OffsetsSize-1 -> Nat]
      /\ \A i \in p.Num .. p.OffsetsSize-1 : p.Offsets[i] = 0
  BY DEF Packed, Members
<1>2. CASE n <= p.OffsetsSize
  <2>1. q = p
    BY <1>2 DEF ReserveNum
  <2> QED
    BY <1>2, <2>1 DEF Same
<1>3. CASE ~(n <= p.OffsetsSize)
  <2>1. Has(q, p.Buffer, p.BufferSize, o, m, p.DataSize, p.GarbageSize, p.Top, p.Num)
    BY <1>1, <1>3 DEF Has, ReserveNum, Shape
  <2>2. m \in Nat /\ n <= m /\ p.OffsetsSize <= m /\ p.Num <= m
    BY <1>1, <1>3 DEF Larger
  <2> HIDE DEF m, q
  <2>3. o \in [0 .. m-1 -> Nat]
    <3>1. \A i \in 0 .. m-1 : i < p.OffsetsSize => i \in 0 .. p.OffsetsSize-1
      BY <1>1, <2>2
    <3>2. \A i \in 0 .. m-1 : (IF i < p.OffsetsSize THEN p.Offsets[i] ELSE 0) \in Nat
      BY <1>1, <3>1
    <3> QED
      BY <3>2
  <2>4. \A i \in 0 .. p.Num-1 : o[i] = p.Offsets[i]
    BY <1>1, <2>2
  <2>5. \A i \in p.Num .. m-1 : o[i] = 0
    BY <1>1, <2>2
  <2> HIDE DEF o
  <2>6. Members(q)
    BY <1>1, <2>1, <2>2, <2>3, <2>5 DEF Members, Has
  <2>7. Live(q) = Live(p) /\ \A j \in Live(p) : q.Offsets[j] = p.Offsets[j]
    BY <2>1, <2>4 DEF Live, Has
  <2>8. Packed(q) /\ (Accounted(p) => Accounted(q)) /\ Same(p, q)
    BY <2>1, <2>6, <2>7, Alike DEF Has, Packed, Within, Begins
  <2> QED
    BY <2>1, <2>2, <2>8 DEF Has, q
<1> QED
  BY <1>2, <1>3

\* The index is in range, and those that had none are empty.
LEMMA Indexed ==
  ASSUME Prefix \in Nat, AllocateSpace2 \in Nat, NEW p, Packed(p), NEW i \in Nat
  PROVE  LET q == WithIndex(p, i)
         IN  /\ Packed(q) /\ (Accounted(p) => Accounted(q))
             /\ q.Num \in Nat /\ p.Num <= q.Num /\ i \in 0 .. q.Num-1
             /\ \A j \in 0 .. q.Num-1 : Reads(q, j) = IF j < p.Num THEN Reads(p, j) ELSE <<>>
<1> DEFINE q == WithIndex(p, i)
           r == ReserveNum(p, i+1)
           s == [r EXCEPT !.Num = i+1]
<1>1. /\ Shape(p) /\ Members(p) /\ p.OffsetsSize \in Nat /\ p.Num \in Nat /\ p.Num <= p.OffsetsSize
  BY DEF Packed, Members
<1>2. CASE ~(i >= p.Num)
  <2>1. q = p
    BY <1>2 DEF WithIndex
  <2> QED
    BY <1>1, <1>2, <2>1
<1>3. CASE i >= p.Num
  <2>1. i+1 \in Nat
    OBVIOUS
  <2>2. Packed(r) /\ (Accounted(p) => Accounted(r)) /\ Same(p, r) /\ i+1 <= r.OffsetsSize
    BY <2>1, NumberedAlike
  <2>3. q = s
    BY <1>1, <1>3 DEF WithIndex, ReserveNum, Shape
  <2> HIDE DEF q, r
  <2>4. Shape(r) /\ Members(r) /\ r.Num = p.Num
    BY <2>2 DEF Packed, Members, Same
  <2>5. Has(s, r.Buffer, r.BufferSize, r.Offsets, r.OffsetsSize, r.DataSize, r.GarbageSize,
            r.Top, i+1)
    BY <2>4 DEF Shape, Has
  <2> HIDE DEF s
  <2>6. \A j \in r.Num .. i : j \in r.Num .. r.OffsetsSize-1 /\ r.Offsets[j] = 0
    BY <2>2, <2>4 DEF Members
  <2>7. \A j \in 0 .. i : j < p.Num <=> j \in 0 .. r.Num-1
    BY <1>1, <1>3, <2>4
  <2>8. \A j \in 0 .. i : ~(j < p.Num) => r.Offsets[j] = 0
    BY <1>1, <1>3, <2>4, <2>6
  <2>9. Members(s)
    <3>1. /\ r.Num \in Nat /\ r.Num <= i+1 /\ i+1 <= r.OffsetsSize /\ r.OffsetsSize \in Nat
          /\ \A j \in r.Num .. r.OffsetsSize-1 : r.Offsets[j] = 0
      BY <1>1, <1>3, <2>2, <2>4, SMTT(40) DEF Members
    <3>2. \A j \in i+1 .. r.OffsetsSize-1 : r.Offsets[j] = 0
      BY <3>1
    <3> QED
      BY <2>1, <2>2, <2>4, <2>5, <3>2 DEF Members, Has
  <2>10. Live(s) = Live(r)
    <3>1. s.Num - 1 = i /\ s.Offsets = r.Offsets
      BY <2>5 DEF Has
    <3>2. \A j \in 0 .. r.Num-1 : j \in 0 .. i
      BY <1>1, <1>3, <2>4
    <3> QED
      BY <2>7, <2>8, <3>1, <3>2 DEF Live
  <2>11. \A j \in Live(r) : Text(s, j) = Text(r, j) /\ End(s, j) = End(r, j) /\ s.Offsets[j] = r.Offsets[j]
    BY <2>5 DEF Has, Text, End
  <2>12. Within(s) /\ Apart(s) /\ LastAtTop(s) /\ Begins(s)
    BY <2>2, <2>5, <2>10, <2>11 DEF Packed, Within, Apart, LastAtTop, Begins, Has
  <2>13. Used(s, Live(r)) = Used(r, Live(r))
    BY <2>11, SameUsed
  <2>14. Accounted(p) => Accounted(s)
    BY <2>2, <2>5, <2>10, <2>13 DEF Accounted, Has
  <2>15. \A j \in 0 .. i : Reads(s, j) = IF j < p.Num THEN Reads(p, j) ELSE <<>>
    BY <2>2, <2>4, <2>5, <2>7, <2>8 DEF Reads, Same, Text, Has
  <2>16. s.Num = i+1 /\ s.Num - 1 = i /\ s.Num \in Nat /\ p.Num <= i+1 /\ i \in 0 .. i
    BY <1>1, <1>3, <2>5 DEF Has
  <2>17. /\ Packed(s) /\ (Accounted(p) => Accounted(s))
         /\ s.Num \in Nat /\ p.Num <= s.Num /\ i \in 0 .. s.Num-1
         /\ \A j \in 0 .. s.Num-1 : Reads(s, j) = IF j < p.Num THEN Reads(p, j) ELSE <<>>
    BY <2>9, <2>12, <2>14, <2>15, <2>16 DEF Packed
  <2> QED
    BY <2>3, <2>17 DEF q
<1> QED
  BY <1>2, <1>3

-----------------------------------------------------------------------------
(* ReserveBuf.                                                             *)

\* The pool q while the strings move into a buffer of size b, n of them so far.
Arrived(f, n) == [j \in DOMAIN f |-> IF j < n THEN f[j] ELSE 0]
Moving(q, n, b) ==
    [Buffer |-> q.Buffer, BufferSize |-> b, Offsets |-> Arrived(q.Offsets, n),
     OffsetsSize |-> q.OffsetsSize, DataSize |-> q.DataSize, GarbageSize |-> 0,
     Top |-> q.Top, Num |-> q.Num]

First(p, n) == {j \in Live(p) : j < n}

Rebuilt(p, q, n, b) ==
    /\ Shape(q) /\ q.Num = p.Num /\ q.OffsetsSize = p.OffsetsSize
    /\ q.Offsets \in [0 .. q.OffsetsSize-1 -> Nat]
    /\ \A j \in 0 .. q.OffsetsSize-1 : j >= n => q.Offsets[j] = p.Offsets[j]
    /\ q.DataSize = Size(0) + Cardinality(Used(p, First(p, n)))
    /\ Packed(Moving(q, n, b)) /\ Accounted(Moving(q, n, b))
    /\ \A j \in 0 .. p.Num-1 :
          Reads(Moving(q, n, b), j) = IF j < n THEN Reads(p, j) ELSE <<>>

LEMMA MovingHas ==
  ASSUME NEW q, NEW n, NEW b
  PROVE  Has(Moving(q, n, b), q.Buffer, b, Arrived(q.Offsets, n), q.OffsetsSize, q.DataSize, 0,
             q.Top, q.Num)
BY DEF Has, Moving, Shape

\* A string that is empty stays so.
LEMMA MovedNone ==
  ASSUME Prefix \in Nat, NEW p, Packed(p), NEW n \in 0 .. p.Num-1, p.Offsets[n] = 0,
         NEW b, NEW q, Rebuilt(p, q, n, b)
  PROVE  Rebuilt(p, Moved(p, n, q), n+1, b)
<1>1. Moved(p, n, q) = q
  BY DEF Moved
<1>2. /\ p.Num \in Nat /\ p.OffsetsSize \in Nat /\ p.Num <= p.OffsetsSize
      /\ q.OffsetsSize = p.OffsetsSize /\ n \in 0 .. q.OffsetsSize-1
      /\ q.Offsets \in [0 .. q.OffsetsSize-1 -> Nat] /\ q.Offsets[n] = 0
  <2>1. /\ p.Num \in Nat /\ p.OffsetsSize \in Nat /\ p.Num <= p.OffsetsSize
        /\ q.OffsetsSize = p.OffsetsSize /\ q.Offsets \in [0 .. q.OffsetsSize-1 -> Nat]
        /\ \A j \in 0 .. q.OffsetsSize-1 : j >= n => q.Offsets[j] = p.Offsets[j]
    BY DEF Packed, Members, Rebuilt
  <2>2. n \in 0 .. q.OffsetsSize-1 /\ n >= n
    BY <2>1
  <2> QED
    BY <2>1, <2>2
<1>3. \A j \in DOMAIN q.Offsets : (IF j < n+1 THEN q.Offsets[j] ELSE 0) = IF j < n THEN q.Offsets[j] ELSE 0
  BY <1>2
<1>4. Arrived(q.Offsets, n+1) = Arrived(q.Offsets, n)
  BY <1>3 DEF Arrived
<1>5. Moving(q, n+1, b) = Moving(q, n, b)
  BY <1>4 DEF Moving
<1>6. First(p, n+1) = First(p, n)
  BY <1>2 DEF First, Live
<1>7. \A j \in 0 .. p.Num-1 :
         (IF j < n THEN Reads(p, j) ELSE <<>>) = IF j < n+1 THEN Reads(p, j) ELSE <<>>
  BY <1>2 DEF Reads
<1>8. \A j \in 0 .. q.OffsetsSize-1 : j >= n+1 => j >= n
  BY <1>2
<1> HIDE DEF Moving
<1> QED
  BY <1>1, <1>5, <1>6, <1>7, <1>8 DEF Rebuilt

\* One that is not is written behind what is there already.
LEMMA MovedOne ==
  ASSUME Prefix \in Nat, NEW p, Packed(p), p.BufferSize > 0,
         NEW n \in 0 .. p.Num-1, p.Offsets[n] # 0,
         NEW b \in Nat, Size(0) + Cardinality(Used(p, Live(p))) <= b,
         NEW q, Rebuilt(p, q, n, b)
  PROVE  Rebuilt(p, Moved(p, n, q), n+1, b)
<1> DEFINE t == Text(p, n)
           k == q.DataSize
           l == Size(Len(t))
           u == Written(q.Buffer, k, t, Prefix)
           o == [j \in DOMAIN q.Offsets |-> IF j = n THEN k ELSE q.Offsets[j]]
           r == Moved(p, n, q)
           v == Moving(q, n, b)
           w == Moving(r, n+1, b)
<1>1. /\ p.Num \in Nat /\ p.OffsetsSize \in Nat /\ p.Num <= p.OffsetsSize
      /\ q.OffsetsSize = p.OffsetsSize /\ n \in 0 .. q.OffsetsSize-1 /\ q.Num = p.Num
      /\ q.Offsets \in [0 .. q.OffsetsSize-1 -> Nat] /\ Shape(q)
  BY SMTT(40) DEF Packed, Members, Rebuilt
<1>2. /\ n \in Live(p) /\ Members(p) /\ Within(p) /\ Apart(p)
      /\ t \in String /\ t # <<>> /\ l \in Nat /\ l > 0
  BY Sizes DEF Live, Packed, Within
<1>3. /\ Has(v, q.Buffer, b, Arrived(q.Offsets, n), q.OffsetsSize, k, 0, q.Top, q.Num)
      /\ Packed(v) /\ Accounted(v)
  BY MovingHas DEF Rebuilt
<1>4. k \in Nat /\ k = Size(0) + Cardinality(Used(p, First(p, n))) /\ Size(0) > 0 /\ Size(0) \in Nat
  <2>1. v.DataSize \in Nat /\ v.DataSize = k
    BY <1>3 DEF Packed, Members, Has
  <2> QED
    BY <2>1 DEF Rebuilt, Size
<1>5. /\ First(p, n+1) = First(p, n) \cup {n} /\ n \notin First(p, n)
      /\ First(p, n) \subseteq Live(p) /\ First(p, n+1) \subseteq Live(p)
  BY <1>1, <1>2 DEF First, Live
<1>6. k + l = Size(0) + Cardinality(Used(p, First(p, n+1))) /\ k + l <= b /\ Size(0) <= k
  <2>1. Cardinality(Used(p, First(p, n+1))) = Cardinality(Used(p, First(p, n))) + l
    BY <1>2, <1>5, Summed
  <2>2. Cardinality(Used(p, First(p, n+1))) <= Cardinality(Used(p, Live(p)))
    BY <1>2, <1>5, FewerUsed
  <2>3. Cardinality(Used(p, First(p, n))) \in Nat /\ Cardinality(Used(p, Live(p))) \in Nat
    BY <1>2, <1>5, UsedWithin
  <2> DEFINE x == Cardinality(Used(p, First(p, n)))  y == Cardinality(Used(p, First(p, n+1)))
             z == Cardinality(Used(p, Live(p)))
  <2>4. x \in Nat /\ y = x + l /\ z \in Nat /\ y <= z /\ k = Size(0) + x /\ Size(0) + z <= b
    BY <1>4, <2>1, <2>2, <2>3
  <2> HIDE DEF x, y, z, l, k
  <2>5. k + l = Size(0) + y /\ k + l <= b /\ Size(0) <= k
    BY <1>2, <1>4, <2>4
  <2> QED
    BY <2>5 DEF y
<1>7. Has(r, u, q.BufferSize, o, q.OffsetsSize, k + l, q.GarbageSize, k, q.Num)
  <2>1. r = [q EXCEPT !.Buffer = u, !.Offsets[n] = k, !.Top = k, !.DataSize = k + l]
    BY <1>2 DEF Moved
  <2> HIDE DEF u, k, l, r
  <2> QED
    BY <1>1, <2>1 DEF Shape, Has
<1>8. Has(w, u, b, Arrived(o, n+1), q.OffsetsSize, k + l, 0, k, q.Num)
  BY <1>7, MovingHas DEF Has
<1>9. Redirected(Arrived(q.Offsets, n), n, k, Arrived(o, n+1))
  <2>1. \A j \in 0 .. q.OffsetsSize-1 :
          (IF j < n+1 THEN IF j = n THEN k ELSE q.Offsets[j] ELSE 0) =
              IF j = n THEN k ELSE IF j < n THEN q.Offsets[j] ELSE 0
    BY <1>1
  <2> HIDE DEF k
  <2> QED
    BY <1>1, <2>1 DEF Redirected, Arrived
<1> HIDE DEF t, k, l, u, o, r, v, w
<1>10. n \in 0 .. v.Num-1 /\ v.Offsets[n] = 0 /\ n \notin Live(v)
  <2>1. v.Num = p.Num /\ v.Offsets = Arrived(q.Offsets, n)
    BY <1>1, <1>3 DEF Has
  <2>2. v.Offsets[n] = 0
    BY <1>1, <2>1 DEF Arrived
  <2> QED
    BY <2>1, <2>2 DEF Live
<1>11. Room(v, n, k, l, k + l, k)
  <2>1. v.DataSize = k /\ v.BufferSize = b /\ Size(0) <= k
    BY <1>3, <1>6 DEF Has
  <2>2. \A j \in Live(v) : End(v, j) \in Nat /\ End(v, j) <= k /\ v.Offsets[j] \in Nat /\ v.Offsets[j] < End(v, j)
    BY <1>3, <2>1, Sizes DEF Packed, Within
  <2> QED
    BY <1>2, <1>4, <1>6, <2>1, <2>2 DEF Room
<1>12. Paid(v, n, l, k + l, 0)
  <2>1. Live(v) \ {n} = Live(v) /\ v.DataSize = k /\ v.GarbageSize = 0
    BY <1>3, <1>10 DEF Has
  <2>2. Cardinality(Used(v, Live(v))) \in Nat
    BY <1>3, UsedWithin DEF Packed
  <2>3. 0 + Size(0) + Cardinality(Used(v, Live(v))) <= k
    <3>1. k > 0
      BY <1>4, <1>6
    <3> QED
      BY <1>3, <2>1, <3>1 DEF Accounted
  <2> DEFINE x == Cardinality(Used(v, Live(v)))
  <2> HIDE DEF x
  <2>4. 0 + Size(0) + x + l <= k + l
    BY <1>2, <1>4, <2>2, <2>3 DEF x
  <2> QED
    BY <2>1, <2>4 DEF Paid, x
<1>13. Packed(w) /\ Accounted(w) /\ Becomes(v, n, t, w)
  <2>1. /\ v.Buffer = q.Buffer /\ v.BufferSize = b /\ v.BufferSize > 0
        /\ v.Offsets = Arrived(q.Offsets, n) /\ v.OffsetsSize = q.OffsetsSize /\ v.Num = q.Num
    BY <1>2, <1>3, <1>4, <1>6 DEF Has
  <2>2. Stores(v, n, k, t, u)
    BY <1>2, <1>3, <1>4, <1>11, <2>1, WrittenStores DEF u, l
  <2>3. k + l \in Nat /\ 0 \in Nat
    BY <1>2, <1>4
  <2>4. /\ Has(w, u, v.BufferSize, Arrived(o, n+1), v.OffsetsSize, k + l, 0, k, v.Num)
        /\ Redirected(v.Offsets, n, k, Arrived(o, n+1))
    BY <1>8, <1>9, <2>1
  <2> QED
    BY <1>2, <1>3, <1>4, <1>10, <1>11, <1>12, <2>2, <2>3, <2>4, Placed DEF l
<1>14. \A j \in 0 .. p.Num-1 : Reads(w, j) = IF j < n+1 THEN Reads(p, j) ELSE <<>>
  <2>1. v.Num = p.Num /\ Reads(p, n) = t
    BY <1>1, <1>3 DEF Has, Reads, t
  <2>2. \A j \in 0 .. p.Num-1 : Reads(w, j) = IF j = n THEN t ELSE Reads(v, j)
    BY <1>13, <2>1 DEF Becomes
  <2>3. \A j \in 0 .. p.Num-1 : Reads(v, j) = IF j < n THEN Reads(p, j) ELSE <<>>
    BY DEF Rebuilt, v
  <2>4. \A j \in 0 .. p.Num-1 : j < n+1 <=> j < n \/ j = n
    BY <1>1
  <2> QED
    BY <2>1, <2>2, <2>3, <2>4
<1>15. /\ o \in [0 .. q.OffsetsSize-1 -> Nat]
       /\ \A j \in 0 .. q.OffsetsSize-1 : j >= n+1 => o[j] = p.Offsets[j]
  <2>1. \A j \in 0 .. q.OffsetsSize-1 : j >= n => q.Offsets[j] = p.Offsets[j]
    BY DEF Rebuilt
  <2> QED
    BY <1>1, <1>4, <2>1 DEF o
<1>16. Rebuilt(p, r, n+1, b)
  BY <1>1, <1>6, <1>7, <1>13, <1>14, <1>15 DEF Rebuilt, Has, w
<1> QED
  BY <1>16 DEF r

\* The strings that have moved before the first, and before each of the others.
Fresh(p) == [p EXCEPT !.Buffer = Written(NoBuffer, 0, <<>>, Prefix),
                      !.DataSize = Size(0), !.Top = Size(0)]
Moves(p, f) ==
    f = [n \in 0 .. p.Num |-> IF n = 0 THEN Fresh(p) ELSE Moved(p, n-1, f[n-1])]
MovesTo(p, f, n) ==
    /\ f[0] = Fresh(p)
    /\ \A k \in 0 .. p.Num : 0 < k /\ k <= n => f[k] = Moved(p, k-1, f[k-1])

LEMMA MovesDefined ==
  ASSUME NEW p, p.Num \in Nat
  PROVE  \E f : Moves(p, f)
<1> DEFINE N == p.Num
           D == 0 .. N
           T == {n \in Nat : \E f : f = [k \in D |-> f[k]] /\ MovesTo(p, f, n)}
<1>1. 0 \in T
  <2> DEFINE f == [k \in D |-> Fresh(p)]
  <2>1. f = [k \in D |-> f[k]] /\ 0 \in D
    OBVIOUS
  <2>2. MovesTo(p, f, 0)
    BY <2>1 DEF MovesTo
  <2> QED
    BY <2>1, <2>2
<1>2. ASSUME NEW n \in Nat, n \in T PROVE n+1 \in T
  <2>1. PICK f : f = [k \in D |-> f[k]] /\ MovesTo(p, f, n)
    BY <1>2
  <2> DEFINE g == [k \in D |-> IF k = n+1 THEN Moved(p, n, f[n]) ELSE f[k]]
  <2>2. g = [k \in D |-> g[k]]
    OBVIOUS
  <2>3. g[0] = Fresh(p)
    BY <2>1 DEF MovesTo
  <2>4. ASSUME NEW k \in D, 0 < k, k <= n+1
        PROVE  g[k] = Moved(p, k-1, g[k-1])
    <3>1. k-1 \in D /\ k-1 # n+1 /\ g[k-1] = f[k-1]
      BY <2>4
    <3>2. CASE k = n+1
      BY <3>1, <3>2
    <3>3. CASE k # n+1
      <4>1. k \in 0 .. p.Num /\ 0 < k /\ k <= n
        BY <2>4, <3>3
      <4>2. f[k] = Moved(p, k-1, f[k-1])
        BY <2>1, <4>1 DEF MovesTo
      <4> QED
        BY <3>1, <3>3, <4>2
    <3> QED
      BY <3>2, <3>3
  <2> HIDE DEF g
  <2>5. MovesTo(p, g, n+1)
    BY <2>3, <2>4 DEF MovesTo
  <2>6. n+1 \in Nat
    OBVIOUS
  <2> QED
    BY <2>2, <2>5, <2>6
<1> HIDE DEF T
<1>3. N \in T
  BY <1>1, <1>2, AllNumbers
<1>4. PICK f : f = [k \in D |-> f[k]] /\ MovesTo(p, f, N)
  BY <1>3 DEF T
<1>5. ASSUME NEW n \in D
      PROVE  f[n] = IF n = 0 THEN Fresh(p) ELSE Moved(p, n-1, f[n-1])
  <2>1. n # 0 => n \in 0 .. p.Num /\ 0 < n /\ n <= N
    OBVIOUS
  <2> QED
    BY <1>4, <2>1 DEF MovesTo
<1>6. f = [n \in D |-> IF n = 0 THEN Fresh(p) ELSE Moved(p, n-1, f[n-1])]
  BY <1>4, <1>5
<1> QED
  BY <1>6 DEF Moves

\* What ReserveBuf gives is the pool after the last move.
Finished(q, b) == [q EXCEPT !.BufferSize = b, !.GarbageSize = 0]
Grown(p, n) == Larger(n, (p.DataSize - p.GarbageSize) * 2 + AllocateSpace1) + Size(0)

LEMMA ReserveMoves ==
  ASSUME NEW p, p.Num \in Nat, NEW n
  PROVE  \E f : Moves(p, f) /\ ReserveBuf(p, n) = Finished(f[p.Num], Grown(p, n))
<1> DEFINE g == CHOOSE f : Moves(p, f)
<1>1. Moves(p, g)
  BY MovesDefined
<1>2. ReserveBuf(p, n) = Finished(g[p.Num], Grown(p, n))
  BY DEF ReserveBuf, Moves, Fresh, Finished, Grown
<1> QED
  BY <1>1, <1>2

\* A string is empty exactly where it has no offset.
LEMMA ReadsLive ==
  ASSUME NEW p, Packed(p), NEW i \in 0 .. p.Num-1
  PROVE  /\ i \in Live(p) <=> Reads(p, i) # <<>>
         /\ i \in Live(p) => Reads(p, i) = Text(p, i)
         /\ i \notin Live(p) => p.Offsets[i] = 0
         /\ Reads(p, i) \in String
BY DEF Packed, Within, Live, Reads, String

LEMMA FreshRebuilt ==
  ASSUME Prefix \in Nat, NEW p, Packed(p), NEW b \in Nat, Size(0) <= b
  PROVE  Rebuilt(p, Fresh(p), 0, b)
<1> DEFINE u == Written(NoBuffer, 0, <<>>, Prefix)
           q == Fresh(p)
           v == Moving(q, 0, b)
           z == Arrived(p.Offsets, 0)
<1>1. /\ Shape(p) /\ p.Num \in Nat /\ p.OffsetsSize \in Nat /\ p.Num <= p.OffsetsSize
      /\ p.Offsets \in [0 .. p.OffsetsSize-1 -> Nat] /\ p.GarbageSize \in Nat
  BY DEF Packed, Members
<1>2. u = [k \in DOMAIN u |-> u[k]] /\ 0 \in DOMAIN u /\ u[0] = <<>>
  BY DEF Written
<1>3. Size(0) \in Nat /\ Size(0) > 0
  BY DEF Size
<1>4. z \in [0 .. p.OffsetsSize-1 -> Nat] /\ \A j \in 0 .. p.OffsetsSize-1 : z[j] = 0
  BY <1>1 DEF Arrived
<1> HIDE DEF u
<1>5. Has(q, u, p.BufferSize, p.Offsets, p.OffsetsSize, Size(0), p.GarbageSize, Size(0), p.Num)
  <2> DEFINE s == Size(0)
  <2>1. q = [p EXCEPT !.Buffer = u, !.DataSize = s, !.Top = s]
    BY DEF Fresh, u
  <2> HIDE DEF q, s
  <2> QED
    BY <1>1, <2>1 DEF Has, Shape, s
<1>6. Has(v, u, b, z, p.OffsetsSize, Size(0), 0, Size(0), p.Num)
  BY <1>5, MovingHas DEF Has
<1> HIDE DEF q, v, z
<1>7. \A j \in 0 .. p.Num-1 : j \in 0 .. p.OffsetsSize-1
  BY <1>1
<1>8. Live(v) = {}
  BY <1>4, <1>6, <1>7 DEF Live, Has
<1>9. Members(v)
  <2>1. \A j \in p.Num .. p.OffsetsSize-1 : z[j] = 0
    BY <1>1, <1>4
  <2>2. 0 \in Nat
    OBVIOUS
  <2> QED
    BY <1>1, <1>2, <1>3, <1>4, <1>6, <2>1, <2>2 DEF Members, Has
<1>10. Packed(v)
  <2>1. Within(v) /\ Apart(v) /\ LastAtTop(v)
    BY <1>8 DEF Within, Apart, LastAtTop
  <2>2. Begins(v)
    BY <1>2, <1>3, <1>6 DEF Begins, Has
  <2> QED
    BY <1>9, <2>1, <2>2 DEF Packed
<1>11. Used(v, Live(v)) = {} /\ Used(p, First(p, 0)) = {}
  <2>1. First(p, 0) = {}
    BY <1>1 DEF First, Live
  <2> QED
    BY <1>8, <2>1 DEF Used
<1>12. Cardinality({}) = 0
  BY FS_EmptySet
<1>13. Accounted(v)
  BY <1>3, <1>6, <1>11, <1>12 DEF Accounted, Has
<1>14. \A j \in 0 .. p.Num-1 : Reads(v, j) = IF j < 0 THEN Reads(p, j) ELSE <<>>
  BY <1>1, <1>4, <1>6, <1>7 DEF Reads, Has
<1>15. q.DataSize = Size(0) + Cardinality(Used(p, First(p, 0)))
  BY <1>3, <1>5, <1>11, <1>12 DEF Has
<1> QED
  BY <1>1, <1>5, <1>10, <1>13, <1>14, <1>15 DEF Rebuilt, Has, q, v

\* All strings move.
LEMMA AllMoved ==
  ASSUME Prefix \in Nat, NEW p, Packed(p), NEW b \in Nat,
         Size(0) + Cardinality(Used(p, Live(p))) <= b, NEW f, Moves(p, f)
  PROVE  Rebuilt(p, f[p.Num], p.Num, b)
<1> DEFINE N == p.Num
           T == {n \in Nat : n <= N => Rebuilt(p, f[n], n, b)}
<1>1. N \in Nat
  BY DEF Packed, Members
<1>2. \A n \in 0 .. N : f[n] = IF n = 0 THEN Fresh(p) ELSE Moved(p, n-1, f[n-1])
  BY DEF Moves
<1>3. 0 \in T
  <2>1. Cardinality(Used(p, Live(p))) \in Nat /\ Size(0) \in Nat
    BY UsedWithin DEF Packed, Size
  <2>2. Size(0) <= b
    BY <2>1
  <2>3. Rebuilt(p, Fresh(p), 0, b)
    BY <2>2, FreshRebuilt
  <2> QED
    BY <1>1, <1>2, <2>3
<1>4. ASSUME NEW n \in Nat, n \in T PROVE n+1 \in T
  <2> SUFFICES ASSUME n+1 <= N PROVE Rebuilt(p, f[n+1], n+1, b)
    OBVIOUS
  <2>1. n \in 0 .. p.Num-1 /\ n+1 \in 0 .. N /\ n+1 # 0 /\ (n+1)-1 = n /\ n <= N
    BY <1>1
  <2>2. f[n+1] = Moved(p, n, f[n]) /\ Rebuilt(p, f[n], n, b)
    BY <1>2, <1>4, <2>1
  <2> HIDE DEF N, T
  <2>3. CASE p.Offsets[n] = 0
    BY <2>1, <2>2, <2>3, MovedNone
  <2>4. CASE p.Offsets[n] # 0
    <3>1. n \in Live(p)
      BY <2>1, <2>4 DEF Live
    <3>2. p.BufferSize > 0
      <4>1. p.BufferSize \in Nat /\ p.DataSize \in Nat /\ p.DataSize <= p.BufferSize
        BY DEF Packed, Members, Begins
      <4>2. p.DataSize # 0
        BY <3>1 DEF Packed, Begins
      <4> QED
        BY <4>1, <4>2
    <3> QED
      BY <2>1, <2>2, <2>4, <3>2, MovedOne
  <2> QED
    BY <2>3, <2>4
<1> HIDE DEF T
<1>5. N \in T
  BY <1>1, <1>3, <1>4, AllNumbers
<1> QED
  BY <1>1, <1>5 DEF T

\* After ReserveBuf, where the strings fit into the new buffer, they are there.
LEMMA ReserveFits ==
  ASSUME Prefix \in Nat, NEW p, Packed(p), NEW n, Grown(p, n) \in Nat,
         Size(0) + Cardinality(Used(p, Live(p))) <= Grown(p, n)
  PROVE  LET q == ReserveBuf(p, n)
         IN  /\ Packed(q) /\ Accounted(q) /\ Same(p, q)
             /\ q.BufferSize = Grown(p, n)
             /\ q.DataSize = Size(0) + Cardinality(Used(p, Live(p)))
<1> DEFINE b == Grown(p, n)
           c == Cardinality(Used(p, Live(p)))
<1>1. /\ p.Num \in Nat /\ p.OffsetsSize \in Nat /\ p.Num <= p.OffsetsSize
      /\ \A j \in p.Num .. p.OffsetsSize-1 : p.Offsets[j] = 0
  BY DEF Packed, Members
<1>5. PICK f : Moves(p, f) /\ ReserveBuf(p, n) = Finished(f[p.Num], b)
  BY <1>1, ReserveMoves
<1> DEFINE q == f[p.Num]
           r == ReserveBuf(p, n)
<1> HIDE DEF b, c
<1>6. Rebuilt(p, q, p.Num, b)
  BY <1>5, AllMoved DEF b, c
<1>7. /\ Shape(q) /\ q.Num = p.Num /\ q.OffsetsSize = p.OffsetsSize
      /\ q.Offsets \in [0 .. q.OffsetsSize-1 -> Nat]
      /\ \A j \in 0 .. q.OffsetsSize-1 : j >= p.Num => q.Offsets[j] = p.Offsets[j]
  BY <1>6 DEF Rebuilt
<1>8. Arrived(q.Offsets, p.Num) = q.Offsets
  <2>1. \A j \in 0 .. q.OffsetsSize-1 : (IF j < p.Num THEN q.Offsets[j] ELSE 0) = q.Offsets[j]
    BY <1>1, <1>7
  <2> QED
    BY <1>7, <2>1 DEF Arrived
<1>9. r = Moving(q, p.Num, b)
  <2> HIDE DEF q, r
  <2>1. r = [q EXCEPT !.BufferSize = b, !.GarbageSize = 0]
    BY <1>5 DEF q, r, Finished
  <2> QED
    BY <1>7, <1>8, <2>1 DEF Moving, Shape
<1>10. Packed(r) /\ Accounted(r) /\ \A j \in 0 .. p.Num-1 : Reads(r, j) = Reads(p, j)
  <2>1. \A j \in 0 .. p.Num-1 : j < p.Num
    BY <1>1
  <2> HIDE DEF q, r
  <2> QED
    BY <1>6, <1>9, <2>1 DEF Rebuilt
<1>11. First(p, p.Num) = Live(p)
  BY <1>1 DEF First, Live
<1>12. r.BufferSize = b /\ r.Num = p.Num /\ r.DataSize = Size(0) + c
  <2> HIDE DEF q, r
  <2> QED
    BY <1>6, <1>7, <1>9, <1>11 DEF Moving, Rebuilt, c
<1> HIDE DEF q, r
<1>13. Same(p, r)
  BY <1>10, <1>12 DEF Same
<1> QED
  BY <1>10, <1>12, <1>13 DEF r, b, c

\* They fit where what is not a string is known to be garbage,
LEMMA ReservePacks ==
  ASSUME Prefix \in Nat, AllocateSpace1 \in Nat, NEW p, Packed(p), Accounted(p), NEW n \in Nat
  PROVE  LET q == ReserveBuf(p, n)
         IN  /\ Packed(q) /\ Accounted(q) /\ Same(p, q)
             /\ n + Size(0) <= q.BufferSize
             /\ q.DataSize <= IF p.DataSize = 0 THEN Size(0) ELSE p.DataSize - p.GarbageSize
<1> DEFINE b == Grown(p, n)
           c == Cardinality(Used(p, Live(p)))
<1>1. p.DataSize \in Nat /\ p.GarbageSize \in Nat
  BY DEF Packed, Members
<1>2. Size(0) \in Nat /\ Size(0) > 0 /\ c \in Nat
  BY UsedWithin DEF Packed, Size
<1>3. Size(0) + c <= IF p.DataSize = 0 THEN Size(0) ELSE p.DataSize - p.GarbageSize
  <2>1. CASE p.DataSize = 0
    <3>1. Live(p) = {}
      BY <2>1 DEF Packed, Begins
    <3>2. c = 0
      BY <3>1, FS_EmptySet DEF Used
    <3> QED
      BY <1>2, <2>1, <3>2
  <2>2. CASE p.DataSize # 0
    <3>1. p.GarbageSize + Size(0) + c <= p.DataSize
      BY <1>1, <2>2 DEF Accounted
    <3> HIDE DEF c
    <3> QED
      BY <1>1, <1>2, <2>2, <3>1
  <2> QED
    BY <2>1, <2>2
<1>4. b \in Nat /\ n + Size(0) <= b /\ Size(0) + c <= b
  <2> DEFINE d == p.DataSize - p.GarbageSize
             m == Larger(n, d * 2 + AllocateSpace1)
  <2>1. d \in Int /\ (d >= 0 \/ c = 0) /\ Size(0) + c <= IF p.DataSize = 0 THEN Size(0) ELSE d
    <3> HIDE DEF c
    <3> QED
      BY <1>1, <1>2, <1>3
  <2>2. p.DataSize = 0 => c = 0
    <3> HIDE DEF c, d
    <3> QED
      BY <1>1, <1>2, <2>1
  <2> HIDE DEF d, c
  <2>3. m \in Int /\ n <= m /\ d * 2 + AllocateSpace1 <= m
    BY <2>1 DEF Larger
  <2>4. c <= m
    BY <1>2, <2>1, <2>2, <2>3
  <2>5. b = m + Size(0)
    BY DEF Grown, d
  <2> HIDE DEF b, m
  <2> QED
    BY <1>2, <2>3, <2>4, <2>5
<1> DEFINE q == ReserveBuf(p, n)
<1>5. /\ Packed(q) /\ Accounted(q) /\ Same(p, q)
      /\ q.BufferSize = b /\ q.DataSize = Size(0) + c
  BY <1>4, ReserveFits
<1> HIDE DEF b, c, q
<1> QED
  BY <1>3, <1>4, <1>5 DEF q

\* and where there is to be room for as much as was used.
LEMMA ReserveBehind ==
  ASSUME Prefix \in Nat, AllocateSpace1 \in Nat, NEW p, Packed(p), NEW n \in Nat,
         IF p.DataSize = 0 THEN Used(p, Live(p)) = {}
         ELSE Size(0) + Cardinality(Used(p, Live(p))) <= p.DataSize
  PROVE  LET q == ReserveBuf(p, p.DataSize + n)
         IN  /\ Packed(q) /\ Accounted(q) /\ Same(p, q)
             /\ q.DataSize + n <= q.BufferSize
<1> DEFINE b == Grown(p, p.DataSize + n)
           c == Cardinality(Used(p, Live(p)))
           q == ReserveBuf(p, p.DataSize + n)
<1>1. p.DataSize \in Nat /\ p.GarbageSize \in Nat
  BY DEF Packed, Members
<1>2. Size(0) \in Nat /\ Size(0) > 0 /\ c \in Nat
  BY UsedWithin DEF Packed, Size
<1>3. c <= p.DataSize
  <2>1. p.DataSize = 0 => c = 0
    BY FS_EmptySet
  <2>2. p.DataSize # 0 => Size(0) + c <= p.DataSize
    OBVIOUS
  <2> HIDE DEF c
  <2> QED
    BY <1>1, <1>2, <2>1, <2>2
<1>4. b \in Nat /\ p.DataSize + n + Size(0) <= b
  <2> DEFINE d == (p.DataSize - p.GarbageSize) * 2 + AllocateSpace1
  <2>1. d \in Int
    BY <1>1
  <2>2. b = Larger(p.DataSize + n, d) + Size(0)
    BY DEF Grown
  <2> HIDE DEF b, d
  <2> QED
    BY <1>1, <1>2, <2>1, <2>2 DEF Larger
<1>5. c + n + Size(0) <= b
  <2> HIDE DEF b, c
  <2> QED
    BY <1>1, <1>2, <1>3, <1>4
<1>6. Size(0) + c <= b
  <2> HIDE DEF b, c
  <2> QED
    BY <1>2, <1>4, <1>5
<1>7. /\ Packed(q) /\ Accounted(q) /\ Same(p, q)
      /\ q.BufferSize = b /\ q.DataSize = Size(0) + c
  BY <1>4, <1>6, ReserveFits
<1> HIDE DEF b, c, q
<1>8. q.DataSize + n <= q.BufferSize
  BY <1>2, <1>4, <1>5, <1>7
<1> QED
  BY <1>7, <1>8 DEF q

-----------------------------------------------------------------------------
(* Allocate, and the text written where it says.                           *)

\* The members of p, as the lemmas below use them.
LEMMA MembersOf ==
  ASSUME Prefix \in Nat, NEW p, Packed(p)
  PROVE  /\ Shape(p) /\ Members(p) /\ Within(p) /\ Apart(p)
         /\ p.Num \in Nat /\ p.OffsetsSize \in Nat /\ p.Num <= p.OffsetsSize
         /\ p.Offsets \in [0 .. p.OffsetsSize-1 -> Nat]
         /\ p.BufferSize \in Nat /\ p.DataSize \in Nat /\ p.GarbageSize \in Nat /\ p.Top \in Nat
         /\ p.DataSize <= p.BufferSize
         /\ Size(0) \in Nat /\ Size(0) > 0
BY DEF Packed, Members, Begins, Size

\* What strings other than i take up, and what i does.
LEMMA WithoutOne ==
  ASSUME Prefix \in Nat, NEW p, Packed(p), Accounted(p), NEW i \in Live(p)
  PROVE  /\ Cardinality(Used(p, Live(p) \ {i})) \in Nat
         /\ Cardinality(Used(p, Live(p) \ {i})) + Size(Len(Text(p, i))) = Cardinality(Used(p, Live(p)))
         /\ p.GarbageSize + Size(0) + Cardinality(Used(p, Live(p) \ {i})) + Size(Len(Text(p, i)))
              <= p.DataSize
<1> DEFINE x == Cardinality(Used(p, Live(p) \ {i}))
           y == Cardinality(Used(p, Live(p)))
           l == Size(Len(Text(p, i)))
<1>1. x \in Nat /\ y \in Nat
  BY MembersOf, UsedWithin
<1>2. y = x + l
  <2>1. i \notin Live(p) \ {i} /\ (Live(p) \ {i}) \cup {i} = Live(p) /\ Live(p) \ {i} \subseteq Live(p)
    OBVIOUS
  <2> QED
    BY <2>1, MembersOf, Summed
<1>3. p.DataSize > 0
  BY MembersOf DEF Packed, Begins
<1>4. p.GarbageSize + Size(0) + y <= p.DataSize
  BY <1>3 DEF Accounted
<1>5. l \in Nat /\ p.GarbageSize \in Nat /\ p.DataSize \in Nat /\ Size(0) \in Nat
  BY MembersOf, Sizes
<1> HIDE DEF x, y, l
<1>6. p.GarbageSize + Size(0) + x + l <= p.DataSize
  BY <1>1, <1>2, <1>4, <1>5
<1> QED
  BY <1>1, <1>2, <1>6 DEF x, y, l

\* q is p but for what the text t at k, as string i, changes.
Given(p, i, t, q, k, d, g, top) ==
    \E o : /\ Redirected(p.Offsets, i, k, o)
           /\ Has(q, Written(p.Buffer, k, t, Prefix), p.BufferSize, o, p.OffsetsSize,
                  d, g, top, p.Num)

LEMMA GivenPlaced ==
  ASSUME Prefix \in Nat, NEW p, Packed(p), p.BufferSize > 0, NEW i \in 0 .. p.Num-1,
         NEW t \in String, t # <<>>, NEW k \in Nat, NEW d \in Nat, NEW g \in Nat, NEW top \in Nat,
         NEW q, Given(p, i, t, q, k, d, g, top),
         Room(p, i, k, Size(Len(t)), d, top), Paid(p, i, Size(Len(t)), d, g)
  PROVE  Packed(q) /\ Accounted(q) /\ Becomes(p, i, t, q)
<1>1. PICK o : /\ Redirected(p.Offsets, i, k, o)
               /\ Has(q, Written(p.Buffer, k, t, Prefix), p.BufferSize, o, p.OffsetsSize,
                      d, g, top, p.Num)
  BY DEF Given
<1>2. Stores(p, i, k, t, Written(p.Buffer, k, t, Prefix))
  BY WrittenStores
<1> QED
  BY <1>1, <1>2, Placed

\* The last string is written anew where it is.
LEMMA LastGiven ==
  ASSUME Prefix \in Nat, NEW p, Packed(p), Accounted(p), NEW i \in Live(p), p.Offsets[i] = p.Top,
         NEW t \in String, t # <<>>, p.Top + Size(Len(t)) <= p.BufferSize,
         NEW q, Given(p, i, t, q, p.Top, p.Top + Size(Len(t)), p.GarbageSize, p.Top)
  PROVE  Packed(q) /\ Accounted(q) /\ Becomes(p, i, t, q)
<1> DEFINE n == Size(Len(t))
           k == p.Top
           l == Size(Len(Text(p, i)))
           x == Cardinality(Used(p, Live(p) \ {i}))
<1>1. /\ p.BufferSize \in Nat /\ p.DataSize \in Nat /\ p.GarbageSize \in Nat /\ k \in Nat
      /\ Size(0) \in Nat /\ Size(0) > 0
  BY MembersOf
<1>2. n \in Nat /\ n > 0 /\ k + n \in Nat /\ k + n <= p.BufferSize
  BY <1>1, Lengths DEF Size
<1>3. /\ i \in 0 .. p.Num-1 /\ End(p, i) = k + l /\ l \in Nat /\ l > 0
      /\ End(p, i) = p.DataSize /\ Size(0) <= k
  BY MembersOf, Sizes DEF Packed, LastAtTop, Within
<1>4. x \in Nat /\ p.GarbageSize + Size(0) + x + l <= p.DataSize
  BY WithoutOne
<1>5. p.BufferSize > 0
  <2> HIDE DEF n
  <2> QED
    BY <1>1, <1>2
<1>6. ASSUME NEW j \in Live(p) \ {i}
      PROVE  End(p, j) <= k /\ p.Offsets[j] # k /\ End(p, j) <= k + n
  <2>1. End(p, j) \in Nat /\ p.Offsets[j] \in Nat /\ p.Offsets[j] < End(p, j)
    BY MembersOf, Sizes, SMTT(40)
  <2>3. End(p, i) <= p.Offsets[j] \/ End(p, j) <= k
    BY MembersOf DEF Apart
  <2>2. IF p.Offsets[j] = k THEN End(p, j) = p.DataSize ELSE End(p, j) <= k
    BY DEF Packed, LastAtTop
  <2> HIDE DEF n, l
  <2> QED
    BY <1>1, <1>2, <1>3, <2>1, <2>2, <2>3, SMTT(40)
<1>7. Room(p, i, k, n, k + n, k)
  BY <1>1, <1>2, <1>3, <1>6 DEF Room
<1>8. Paid(p, i, n, k + n, p.GarbageSize)
  <2> DEFINE e == p.GarbageSize  f == Size(0)
  <2>1. /\ e \in Nat /\ f \in Nat /\ x \in Nat /\ l \in Nat /\ n \in Nat /\ k \in Nat
        /\ e + f + x + l <= k + l
    BY <1>1, <1>2, <1>3, <1>4
  <2> HIDE DEF n, k, l, x, e, f
  <2>2. e + f + x + n <= k + n
    BY <2>1
  <2> QED
    BY <2>2 DEF Paid, x, e, f
<1> QED
  BY <1>1, <1>2, <1>3, <1>5, <1>7, <1>8, GivenPlaced

\* A text that is not longer is written over string i.
LEMMA OverGiven ==
  ASSUME Prefix \in Nat, NEW p, Packed(p), Accounted(p), NEW i \in Live(p), p.Offsets[i] # p.Top,
         NEW t \in String, t # <<>>, Len(t) <= Len(Text(p, i)),
         NEW q, Given(p, i, t, q, p.Offsets[i], p.DataSize,
                      p.GarbageSize + Len(Text(p, i)) - Len(t), p.Top)
  PROVE  Packed(q) /\ Accounted(q) /\ Becomes(p, i, t, q)
<1> DEFINE n == Size(Len(t))
           k == p.Offsets[i]
           l == Size(Len(Text(p, i)))
           g == p.GarbageSize + Len(Text(p, i)) - Len(t)
           x == Cardinality(Used(p, Live(p) \ {i}))
<1>1. /\ p.BufferSize \in Nat /\ p.DataSize \in Nat /\ p.GarbageSize \in Nat /\ p.Top \in Nat
      /\ Size(0) \in Nat /\ Size(0) > 0 /\ p.DataSize <= p.BufferSize
  BY MembersOf
<1>2. /\ i \in 0 .. p.Num-1 /\ k \in Nat /\ End(p, i) = k + l /\ l \in Nat /\ l > 0
      /\ End(p, i) <= p.DataSize /\ Size(0) <= k /\ End(p, i) <= p.Top
  BY MembersOf, Sizes DEF Packed, LastAtTop, Within
<1>3. n \in Nat /\ n > 0 /\ n <= l /\ g \in Nat /\ g + n = p.GarbageSize + l
  <2>1. Len(t) \in Nat /\ Len(Text(p, i)) \in Nat /\ Len(t) > 0
    BY MembersOf, Sizes, Lengths
  <2> QED
    BY <1>1, <2>1, SMTT(40) DEF Size
<1>4. x \in Nat /\ p.GarbageSize + Size(0) + x + l <= p.DataSize
  BY WithoutOne
<1>5. ASSUME NEW j \in Live(p) \ {i}
      PROVE  /\ End(p, j) <= k \/ k + n <= p.Offsets[j]
             /\ End(p, j) <= p.DataSize
             /\ IF p.Offsets[j] = p.Top THEN End(p, j) = p.DataSize ELSE End(p, j) <= p.Top
  <2>1. /\ End(p, j) \in Nat /\ p.Offsets[j] \in Nat
        /\ End(p, i) <= p.Offsets[j] \/ End(p, j) <= k
    BY MembersOf, Sizes DEF Apart
  <2>2. /\ IF p.Offsets[j] = p.Top THEN End(p, j) = p.DataSize ELSE End(p, j) <= p.Top
        /\ End(p, j) <= p.DataSize
    BY DEF Packed, LastAtTop, Within
  <2> HIDE DEF n, l, k
  <2> QED
    BY <1>2, <1>3, <2>1, <2>2
<1>6. Room(p, i, k, n, p.DataSize, p.Top)
  <2>1. k # p.Top
    OBVIOUS
  <2> DEFINE e == End(p, i)
  <2>3. k \in Nat /\ l \in Nat /\ n \in Nat /\ n <= l /\ e = k + l /\ e <= p.DataSize /\ e <= p.Top
    BY <1>2, <1>3
  <2> HIDE DEF n, l, k, e
  <2>2. k + n <= p.DataSize /\ k + n <= p.Top
    BY <1>1, <2>3
  <2> QED
    BY <1>1, <1>2, <1>5, <2>1, <2>2 DEF Room
<1>7. Paid(p, i, n, p.DataSize, g)
  <2> DEFINE e == p.GarbageSize  f == Size(0)  d == p.DataSize
  <2>1. /\ e \in Nat /\ f \in Nat /\ x \in Nat /\ l \in Nat /\ n \in Nat /\ d \in Nat /\ g \in Nat
        /\ e + f + x + l <= d /\ g + n = e + l
    BY <1>1, <1>2, <1>3, <1>4
  <2> HIDE DEF n, l, x, g, e, f, d
  <2>2. g + f + x + n <= d
    BY <2>1
  <2> QED
    BY <2>2 DEF Paid, x, f, d
<1>8. p.BufferSize > 0
  <2>1. End(p, i) > 0 /\ End(p, i) <= p.DataSize /\ End(p, i) \in Nat
    BY MembersOf, Sizes DEF Packed, Within
  <2> QED
    BY <1>1, <2>1
<1> QED
  BY <1>1, <1>2, <1>3, <1>6, <1>7, <1>8, GivenPlaced

\* Any text is written behind the others.
LEMMA BehindGiven ==
  ASSUME Prefix \in Nat, NEW p, Packed(p), p.DataSize > 0, NEW i \in 0 .. p.Num-1,
         NEW t \in String, t # <<>>, p.DataSize + Size(Len(t)) <= p.BufferSize,
         NEW g \in Nat, g + Size(0) + Cardinality(Used(p, Live(p) \ {i})) <= p.DataSize,
         NEW q, Given(p, i, t, q, p.DataSize, p.DataSize + Size(Len(t)), g, p.DataSize)
  PROVE  Packed(q) /\ Accounted(q) /\ Becomes(p, i, t, q)
<1> DEFINE n == Size(Len(t))
           k == p.DataSize
           x == Cardinality(Used(p, Live(p) \ {i}))
<1>1. /\ p.BufferSize \in Nat /\ k \in Nat /\ Size(0) \in Nat /\ Size(0) > 0 /\ x \in Nat
  BY MembersOf, UsedWithin
<1>2. n \in Nat /\ n > 0 /\ k + n \in Nat
  BY <1>1, Lengths DEF Size
<1>3. Size(0) <= k
  BY <1>1 DEF Packed, Begins
<1>4. p.BufferSize > 0
  BY MembersOf
<1>5. ASSUME NEW j \in Live(p) \ {i}
      PROVE  End(p, j) <= k /\ p.Offsets[j] # k /\ End(p, j) <= k + n
  <2>1. End(p, j) \in Nat /\ p.Offsets[j] \in Nat /\ p.Offsets[j] < End(p, j)
    BY MembersOf, Sizes, SMTT(40)
  <2>2. End(p, j) <= k
    BY DEF Packed, Within
  <2> HIDE DEF n
  <2> QED
    BY <1>1, <1>2, <2>1, <2>2, SMTT(40)
<1>6. Room(p, i, k, n, k + n, k)
  BY <1>1, <1>2, <1>3, <1>5 DEF Room
<1>7. Paid(p, i, n, k + n, g)
  <2> HIDE DEF n, x
  <2>1. g + Size(0) + x + n <= k + n
    BY <1>1, <1>2 DEF x
  <2> QED
    BY <2>1 DEF Paid, x
<1> QED
  BY <1>1, <1>2, <1>4, <1>6, <1>7, GivenPlaced

\* The space of string i counted as garbage.
Charged(p, i) ==
    IF p.Offsets[i] = 0 THEN p ELSE [p EXCEPT !.GarbageSize = @ + Size(Len(Text(p, i)))]

LEMMA ChargedPacked ==
  ASSUME Prefix \in Nat, NEW p, Packed(p), Accounted(p), NEW i \in 0 .. p.Num-1
  PROVE  LET g == Charged(p, i)
         IN  /\ Packed(g) /\ Same(p, g) /\ Shape(g)
             /\ g.Buffer = p.Buffer /\ g.BufferSize = p.BufferSize /\ g.DataSize = p.DataSize
             /\ g.GarbageSize \in Nat
             /\ g.DataSize > 0 =>
                  g.GarbageSize + Size(0) + Cardinality(Used(g, Live(g) \ {i})) <= g.DataSize
             /\ IF g.DataSize = 0 THEN Used(g, Live(g)) = {}
                ELSE Size(0) + Cardinality(Used(g, Live(g))) <= g.DataSize
<1> DEFINE g == Charged(p, i)
           l == Size(Len(Text(p, i)))
<1>1. /\ Shape(p) /\ Members(p) /\ Within(p) /\ p.DataSize \in Nat /\ p.GarbageSize \in Nat
      /\ Size(0) \in Nat /\ Cardinality(Used(p, Live(p))) \in Nat
  BY MembersOf, UsedWithin
<1>2. p.DataSize = 0 => Used(p, Live(p)) = {}
  BY DEF Packed, Begins, Used
<1>3. p.DataSize > 0 => /\ p.GarbageSize + Size(0) + Cardinality(Used(p, Live(p))) <= p.DataSize
                        /\ Size(0) + Cardinality(Used(p, Live(p))) <= p.DataSize
  BY <1>1 DEF Accounted
<1>4. CASE p.Offsets[i] = 0
  <2>1. g = p /\ Live(p) \ {i} = Live(p)
    BY <1>4 DEF Charged, Live
  <2> HIDE DEF g
  <2> QED
    BY <1>1, <1>2, <1>3, <2>1 DEF g, Same
<1>5. CASE p.Offsets[i] # 0
  <2>1. i \in Live(p)
    BY <1>5 DEF Live
  <2>2. /\ p.DataSize > 0 /\ l \in Nat
        /\ p.GarbageSize + Size(0) + Cardinality(Used(p, Live(p) \ {i})) + l <= p.DataSize
        /\ Cardinality(Used(p, Live(p) \ {i})) \in Nat
    BY <1>1, <2>1, WithoutOne, Sizes DEF Packed, Begins
  <2> HIDE DEF l
  <2>3. Has(g, p.Buffer, p.BufferSize, p.Offsets, p.OffsetsSize, p.DataSize,
            p.GarbageSize + l, p.Top, p.Num)
    BY <1>1, <1>5 DEF Charged, Has, Shape, l
  <2> HIDE DEF g
  <2>4. Live(g) = Live(p) /\ \A j \in 0 .. p.Num-1 : Reads(g, j) = Reads(p, j)
    BY <2>3 DEF Has, Live, Reads, Text
  <2>5. /\ \A j \in Live(p) : g.Offsets[j] = p.Offsets[j] /\ Text(g, j) = Text(p, j)
                              /\ End(g, j) = End(p, j)
    BY <2>3 DEF Has, Text, End
  <2>6. p.GarbageSize + l \in Nat
    BY <1>1, <2>2
  <2>7. Members(g)
    BY <1>1, <2>3, <2>6 DEF Members, Has
  <2>8. Within(g) /\ Apart(g) /\ LastAtTop(g) /\ Begins(g)
    BY <2>2, <2>3, <2>4, <2>5 DEF Packed, Within, Apart, LastAtTop, Begins, Has
  <2>9. Used(g, Live(p)) = Used(p, Live(p)) /\ Used(g, Live(p) \ {i}) = Used(p, Live(p) \ {i})
    BY <2>5, SameUsed
  <2> DEFINE x == Cardinality(Used(p, Live(p) \ {i}))
  <2>10. p.GarbageSize + l + Size(0) + x <= p.DataSize
    <3> HIDE DEF x
    <3> QED
      BY <1>1, <2>2 DEF x
  <2>11. Packed(g) /\ Same(p, g)
    BY <2>3, <2>4, <2>7, <2>8 DEF Packed, Same, Has
  <2> QED
    BY <1>3, <2>2, <2>3, <2>4, <2>6, <2>9, <2>10, <2>11 DEF Has, g
<1> QED
  BY <1>4, <1>5

\* What Set makes of the pool that Allocate gives.
WithText(a, t) == [a.pool EXCEPT !.Buffer = Written(@, a.at, t, Prefix)]

LEMMA LastSet ==
  ASSUME Prefix \in Nat, AllocateSpace1 \in Nat, NEW p, Packed(p), Accounted(p),
         NEW i \in 0 .. p.Num-1, NEW t \in String, t # <<>>, IsLast(p, i),
         Spoils(p, i, Allocate(p, i, Len(t))) = {}
  PROVE  LET q == WithText(Allocate(p, i, Len(t)), t)
         IN  Packed(q) /\ Accounted(q) /\ Becomes(p, i, t, q)
<1> DEFINE n == Size(Len(t))
           m == p.Top + n
           r == IF m > p.BufferSize THEN ReserveBuf(p, m) ELSE p
           a == Allocate(p, i, Len(t))
           q == WithText(a, t)
           l == Size(Len(Text(p, i)))
<1>1. /\ p.BufferSize \in Nat /\ p.DataSize \in Nat /\ p.Top \in Nat /\ p.GarbageSize \in Nat
      /\ Size(0) \in Nat /\ Size(0) > 0
  BY MembersOf
<1>2. n \in Nat /\ n > 0 /\ m \in Nat
  BY <1>1, Lengths DEF Size
<1>3. i \in Live(p) /\ p.Offsets[i] = p.Top
  BY DEF IsLast, Live
<1>4. p.Top + l = p.DataSize /\ l \in Nat /\ l > 0
  BY <1>3, MembersOf, Sizes DEF Packed, LastAtTop
<1>5. a = [pool |-> [r EXCEPT !.DataSize = r.Top + n], at |-> r.Top]
  BY DEF Allocate
<1> HIDE DEF n, a
<1>6. Packed(r) /\ Accounted(r) /\ Same(p, r)
  <2>1. CASE m > p.BufferSize
    BY <1>2, <2>1, ReservePacks
  <2>2. CASE ~(m > p.BufferSize)
    BY <2>2 DEF Same
  <2> QED
    BY <2>1, <2>2
<1>7. i \in 0 .. r.Num-1 /\ i \in Live(r) /\ Text(r, i) = Text(p, i)
  BY <1>3, <1>6, ReadsLive DEF Same
<1>8. r.Offsets[i] = r.Top
  <2>1. a.pool.Offsets = r.Offsets /\ a.at = r.Top
    <3> HIDE DEF r
    <3> QED
      BY <1>5, <1>6, MembersOf DEF Shape
  <2>2. a.pool.Offsets[i] = a.at
    BY DEF Spoils, a
  <2> QED
    BY <2>1, <2>2
<1>9. r.Top + n <= r.BufferSize
  <2>1. CASE m > p.BufferSize
    <3>1. /\ m + Size(0) <= r.BufferSize
          /\ r.DataSize <= IF p.DataSize = 0 THEN Size(0) ELSE p.DataSize - p.GarbageSize
      BY <1>2, <2>1, ReservePacks
    <3>2. r.Top + l = r.DataSize /\ r.Top \in Nat /\ r.DataSize \in Nat /\ r.BufferSize \in Nat
      BY <1>6, <1>7, <1>8, MembersOf, Sizes DEF Packed, LastAtTop
    <3> HIDE DEF l, r
    <3>3. r.Top <= p.Top
      BY <1>1, <1>4, <3>1, <3>2, SMTT(40)
    <3> QED
      BY <1>1, <1>2, <3>1, <3>2, <3>3, SMTT(40)
  <2>2. CASE ~(m > p.BufferSize)
    BY <1>1, <1>2, <2>2
  <2> QED
    BY <2>1, <2>2
<1> HIDE DEF r, m, l
<1>10. Given(r, i, t, q, r.Top, r.Top + n, r.GarbageSize, r.Top)
  <2> DEFINE u == Written(r.Buffer, r.Top, t, Prefix)
  <2>1. Shape(r) /\ r.Offsets \in [0 .. r.OffsetsSize-1 -> Nat]
    BY <1>6, MembersOf
  <2>2. Redirected(r.Offsets, i, r.Top, r.Offsets)
    BY <1>8, <2>1 DEF Redirected
  <2>3. a.pool.Buffer = r.Buffer /\ a.at = r.Top
    BY <1>5, <2>1 DEF Shape
  <2>4. q = [[r EXCEPT !.DataSize = r.Top + n] EXCEPT !.Buffer = u]
    BY <1>5, <2>3 DEF WithText
  <2> HIDE DEF q, u
  <2>5. Has(q, u, r.BufferSize, r.Offsets, r.OffsetsSize, r.Top + n, r.GarbageSize, r.Top, r.Num)
    BY <2>1, <2>4 DEF Has, Shape
  <2> QED
    BY <2>2, <2>5 DEF Given, u
<1> HIDE DEF q
<1>11. Packed(q) /\ Accounted(q) /\ Becomes(r, i, t, q)
  BY <1>6, <1>7, <1>8, <1>9, <1>10, LastGiven DEF n
<1>12. Becomes(p, i, t, q)
  BY <1>6, <1>11 DEF Becomes, Same
<1> QED
  BY <1>11, <1>12 DEF q, a

LEMMA InPlaceSet ==
  ASSUME Prefix \in Nat, NEW p, Packed(p), Accounted(p),
         NEW i \in 0 .. p.Num-1, NEW t \in String, t # <<>>,
         ~IsLast(p, i), InPlace(p, i, Len(t))
  PROVE  LET q == WithText(Allocate(p, i, Len(t)), t)
         IN  Packed(q) /\ Accounted(q) /\ Becomes(p, i, t, q)
<1> DEFINE k == p.Offsets[i]
           g == p.GarbageSize + Len(Text(p, i)) - Len(t)
           a == Allocate(p, i, Len(t))
           q == WithText(a, t)
           u == Written(p.Buffer, k, t, Prefix)
<1>1. i \in Live(p) /\ k # p.Top /\ Len(t) <= Len(Text(p, i))
  BY MembersOf, Sizes, Lengths DEF InPlace, Live
<1>2. Shape(p) /\ p.Offsets \in [0 .. p.OffsetsSize-1 -> Nat]
  BY MembersOf
<1>3. Redirected(p.Offsets, i, k, p.Offsets)
  BY <1>2 DEF Redirected
<1>4. a = [pool |-> [p EXCEPT !.GarbageSize = g], at |-> k]
  BY DEF Allocate
<1> HIDE DEF k, g, a
<1>5. a.pool.Buffer = p.Buffer /\ a.at = k
  BY <1>2, <1>4 DEF Shape
<1>6. q = [[p EXCEPT !.GarbageSize = g] EXCEPT !.Buffer = u]
  BY <1>4, <1>5 DEF WithText
<1> HIDE DEF q, u
<1>7. Has(q, u, p.BufferSize, p.Offsets, p.OffsetsSize, p.DataSize, g, p.Top, p.Num)
  BY <1>2, <1>6 DEF Has, Shape
<1>8. Given(p, i, t, q, k, p.DataSize, g, p.Top)
  BY <1>3, <1>7 DEF Given, u
<1>9. Packed(q) /\ Accounted(q) /\ Becomes(p, i, t, q)
  BY <1>1, <1>8, OverGiven DEF k, g
<1> QED
  BY <1>9 DEF q, a

LEMMA BehindSet ==
  ASSUME Prefix \in Nat, AllocateSpace1 \in Nat, NEW p, Packed(p), Accounted(p),
         NEW i \in 0 .. p.Num-1, NEW t \in String, t # <<>>,
         ~IsLast(p, i), ~InPlace(p, i, Len(t)),
         Spoils(p, i, Allocate(p, i, Len(t))) = {}
  PROVE  LET q == WithText(Allocate(p, i, Len(t)), t)
         IN  Packed(q) /\ Accounted(q) /\ Becomes(p, i, t, q)
<1> DEFINE n == Size(Len(t))
           g == Charged(p, i)
           m == g.DataSize + n
           r == IF m > g.BufferSize THEN ReserveBuf(g, m) ELSE g
           k == r.DataSize
           a == Allocate(p, i, Len(t))
           q == WithText(a, t)
           Ready == /\ Packed(r) /\ Same(p, r) /\ k + n <= r.BufferSize
                    /\ k > 0 => r.GarbageSize + Size(0) + Cardinality(Used(r, Live(r) \ {i})) <= k
<1>1. n \in Nat /\ n > 0
  BY Lengths, MembersOf DEF Size
<1>2. /\ Packed(g) /\ Same(p, g) /\ g.GarbageSize \in Nat
      /\ g.DataSize > 0 =>
           g.GarbageSize + Size(0) + Cardinality(Used(g, Live(g) \ {i})) <= g.DataSize
      /\ IF g.DataSize = 0 THEN Used(g, Live(g)) = {}
         ELSE Size(0) + Cardinality(Used(g, Live(g))) <= g.DataSize
  BY ChargedPacked
<1>3. a = [pool |-> [r EXCEPT !.Offsets[i] = k, !.Top = k, !.DataSize = k + n], at |-> k]
  BY DEF Allocate, Charged
<1> HIDE DEF n, g, a
<1>4. g.DataSize \in Nat /\ g.BufferSize \in Nat /\ m \in Nat
  BY <1>1, <1>2, MembersOf
<1>5. ASSUME m > g.BufferSize PROVE Ready
  <2>1. r = ReserveBuf(g, m)
    BY <1>5
  <2>2. Packed(r) /\ Accounted(r) /\ Same(g, r) /\ k + n <= r.BufferSize
    BY <1>1, <1>2, <2>1, ReserveBehind
  <2>3. /\ k \in Nat /\ r.GarbageSize \in Nat /\ Size(0) \in Nat /\ Members(r) /\ Within(r)
    BY <2>2, MembersOf
  <2> DEFINE x == Cardinality(Used(r, Live(r) \ {i}))
             y == Cardinality(Used(r, Live(r)))
  <2>4. x \in Nat /\ y \in Nat /\ x <= y
    BY <2>3, UsedWithin, FewerUsed
  <2>5. k > 0 => r.GarbageSize + Size(0) + y <= k
    BY <2>2 DEF Accounted
  <2> HIDE DEF x, y, k, r
  <2>6. k > 0 => r.GarbageSize + Size(0) + x <= k
    BY <2>3, <2>4, <2>5
  <2>7. Same(p, r)
    BY <1>2, <2>2 DEF Same
  <2> QED
    BY <2>2, <2>6, <2>7 DEF x
<1>6. ASSUME ~(m > g.BufferSize) PROVE Ready
  <2>1. r = g
    BY <1>6
  <2> QED
    BY <1>2, <1>4, <1>6, <2>1
<1>7. /\ Packed(r) /\ Same(p, r) /\ k + n <= r.BufferSize
      /\ k > 0 => r.GarbageSize + Size(0) + Cardinality(Used(r, Live(r) \ {i})) <= k
  BY <1>5, <1>6
<1> HIDE DEF Ready, r
<1>8. i \in 0 .. r.Num-1 /\ k \in Nat /\ r.GarbageSize \in Nat
  BY <1>7, MembersOf DEF Same
<1>9. k > 0
  <2>1. a.at = k
    BY <1>3
  <2>2. a.at # 0
    BY DEF Spoils, a
  <2> QED
    BY <1>8, <2>1, <2>2
<1>10. Given(r, i, t, q, k, k + n, r.GarbageSize, k)
  <2> DEFINE u == Written(r.Buffer, k, t, Prefix)
             o == [r.Offsets EXCEPT ![i] = k]
  <2>1. Shape(r) /\ r.Offsets \in [0 .. r.OffsetsSize-1 -> Nat]
    BY <1>7, MembersOf
  <2> HIDE DEF k
  <2>2. Redirected(r.Offsets, i, k, o)
    BY <2>1 DEF Redirected
  <2>3. a.pool.Buffer = r.Buffer /\ a.at = k
    BY <1>3, <2>1 DEF Shape
  <2>4. q = [[r EXCEPT !.Offsets[i] = k, !.Top = k, !.DataSize = k + n] EXCEPT !.Buffer = u]
    BY <1>3, <2>3 DEF WithText
  <2> HIDE DEF q, u
  <2>5. Has(q, u, r.BufferSize, o, r.OffsetsSize, k + n, r.GarbageSize, k, r.Num)
    BY <2>1, <2>4 DEF Has, Shape
  <2> QED
    BY <2>2, <2>5 DEF Given, u
<1> HIDE DEF q
<1>11. Packed(q) /\ Accounted(q) /\ Becomes(r, i, t, q)
  BY <1>7, <1>8, <1>9, <1>10, BehindGiven DEF n
<1>12. Becomes(p, i, t, q)
  BY <1>7, <1>11 DEF Becomes, Same
<1> QED
  BY <1>11, <1>12 DEF q, a

\* Set writes the text of one string, whichever way space is found for it.
LEMMA TextSet ==
  ASSUME Prefix \in Nat, AllocateSpace1 \in Nat, NEW p, Packed(p), Accounted(p),
         NEW i \in 0 .. p.Num-1, NEW t \in String, t # <<>>,
         Spoils(p, i, Allocate(p, i, Len(t))) = {}
  PROVE  LET q == WithText(Allocate(p, i, Len(t)), t)
         IN  Packed(q) /\ Accounted(q) /\ Becomes(p, i, t, q)
<1>1. CASE IsLast(p, i)
  BY <1>1, LastSet
<1>2. CASE ~IsLast(p, i) /\ InPlace(p, i, Len(t))
  BY <1>2, InPlaceSet
<1>3. CASE ~IsLast(p, i) /\ ~InPlace(p, i, Len(t))
  BY <1>3, BehindSet
<1> QED
  BY <1>1, <1>2, <1>3

LEMMA ErasedPacked ==
  ASSUME Prefix \in Nat, NEW p, Packed(p), NEW i \in 0 .. p.Num-1
  PROVE  LET q == Erased(p, i)
         IN  Packed(q) /\ (Accounted(p) => Accounted(q)) /\ Becomes(p, i, <<>>, q)
<1> DEFINE q == Erased(p, i)
           l == Size(Len(Text(p, i)))
           o == [p.Offsets EXCEPT ![i] = 0]
<1>1. CASE p.Offsets[i] = 0
  <2>1. q = p
    BY <1>1 DEF Erased
  <2>2. Becomes(p, i, <<>>, p)
    BY <1>1 DEF Becomes, Reads
  <2> HIDE DEF q
  <2> QED
    BY <2>1, <2>2 DEF q
<1>2. CASE p.Offsets[i] # 0
  <2>1. i \in Live(p) /\ Shape(p) /\ p.Offsets \in [0 .. p.OffsetsSize-1 -> Nat]
    BY <1>2, MembersOf DEF Live
  <2>2. l \in Nat /\ l <= IF p.Offsets[i] = 0 THEN 0 ELSE Size(Len(Text(p, i)))
    BY <1>2, <2>1, MembersOf, Sizes
  <2>3. q = [p EXCEPT !.GarbageSize = @ + l, !.Offsets[i] = 0]
    BY <1>2 DEF Erased
  <2>4. Redirected(p.Offsets, i, 0, o)
    BY <2>1 DEF Redirected
  <2> HIDE DEF q, l
  <2>5. Has(q, p.Buffer, p.BufferSize, o, p.OffsetsSize, p.DataSize, p.GarbageSize + l, p.Top, p.Num)
    BY <2>1, <2>3 DEF Has, Shape
  <2>6. Packed(q) /\ (Accounted(p) => Accounted(q)) /\ Becomes(p, i, <<>>, q)
    BY <2>2, <2>4, <2>5, Dropped
  <2> QED
    BY <2>6 DEF q
<1> QED
  BY <1>1, <1>2

LEMMA SetInPacked ==
  ASSUME Prefix \in Nat, AllocateSpace1 \in Nat, NEW p, Packed(p), Accounted(p),
         NEW i \in 0 .. p.Num-1, NEW t \in String,
         t # <<>> => Spoils(p, i, Allocate(p, i, Len(t))) = {}
  PROVE  LET q == SetIn(p, i, t)
         IN  Packed(q) /\ Accounted(q) /\ Becomes(p, i, t, q)
<1>1. CASE t = <<>>
  <2>1. SetIn(p, i, t) = Erased(p, i)
    BY <1>1 DEF SetIn
  <2> QED
    BY <1>1, <2>1, ErasedPacked
<1>2. CASE t # <<>>
  <2>1. SetIn(p, i, t) = WithText(Allocate(p, i, Len(t)), t)
    BY <1>2 DEF SetIn, WithText
  <2> QED
    BY <1>2, <2>1, TextSet
<1> QED
  BY <1>1, <1>2

-----------------------------------------------------------------------------
(* The calls of the client.                                                *)

\* The pool is p with the text t for index i, and strings remember it.
LEMMA CallKept ==
  ASSUME Prefix \in Nat, AllocateSpace1 \in Nat, AllocateSpace2 \in Nat, Sound,
         NEW i \in Nat, NEW t \in String, NEW q, Packed(q), Accounted(q),
         Becomes(WithIndex(pool, i), i, t, q), pool' = Referred(q), Assigned(i, t)
  PROVE  Sound'
<1> DEFINE p == WithIndex(pool, i)
<1>1. /\ p.Num \in Nat /\ pool.Num <= p.Num /\ i \in 0 .. p.Num-1
      /\ \A j \in 0 .. p.Num-1 : Reads(p, j) = IF j < pool.Num THEN Reads(pool, j) ELSE <<>>
  BY Indexed DEF Sound
<1> HIDE DEF p
<1>2. Packed(pool') /\ Accounted(pool') /\ Same(q, pool')
  BY ReferredAlike
<1>3. pool'.Num = p.Num /\ pool.Num \in Nat
  BY <1>2, MembersOf DEF Same, Becomes, p, Sound
<1>4. \A j \in 0 .. p.Num-1 : Reads(pool', j) = IF j = i THEN t ELSE Reads(p, j)
  BY <1>2 DEF Same, Becomes, p
<1>5. strings \in [0 .. pool.Num-1 -> String]
      /\ \A j \in 0 .. pool.Num-1 : strings[j] = Reads(pool, j)
  BY DEF Sound, Holds, Reads
<1>6. <<>> \in String
  BY DEF String
<1>7. strings' = [j \in 0 .. p.Num-1 |->
                    IF j = i THEN t ELSE IF j < pool.Num THEN strings[j] ELSE <<>>]
  BY <1>3 DEF Assigned
<1>8. \A j \in 0 .. p.Num-1 : j < pool.Num => j \in 0 .. pool.Num-1
  BY <1>3
<1>9. strings' \in [0 .. p.Num-1 -> String]
  BY <1>5, <1>6, <1>7, <1>8
<1>10. \A j \in 0 .. p.Num-1 : strings'[j] = Reads(pool', j)
  BY <1>1, <1>4, <1>5, <1>7, <1>8
<1>11. Holds(pool', strings')
  BY <1>3, <1>9, <1>10 DEF Holds, Reads
<1> QED
  BY <1>2, <1>11 DEF Sound

LEMMA StoreStep ==
  ASSUME Prefix \in Nat, AllocateSpace1 \in Nat, AllocateSpace2 \in Nat, Sound,
         NEW i \in Nat, NEW t \in String, NEW s \in String,
         pool' = Referred(SetIn(WithIndex(pool, i), i, s)), Assigned(i, t), s = t,
         s # <<>> => Spoils(WithIndex(pool, i), i, Allocate(WithIndex(pool, i), i, Len(s))) = {}
  PROVE  Sound'
<1> DEFINE p == WithIndex(pool, i)
           q == SetIn(p, i, t)
<1>1. Packed(p) /\ Accounted(p) /\ i \in 0 .. p.Num-1
  BY Indexed DEF Sound
<1>2. Packed(q) /\ Accounted(q) /\ Becomes(p, i, t, q)
  BY <1>1, SetInPacked
<1> HIDE DEF q
<1>3. pool' = Referred(q)
  BY DEF q
<1> QED
  BY <1>2, <1>3, CallKept

Constants == Prefix \in Nat /\ AllocateSpace1 \in Nat /\ AllocateSpace2 \in Nat

LEMMA Unchanged ==
  ASSUME IInv, UNCHANGED <<pool, strings, spoilt>>
  PROVE  IInv'
BY DEF IInv, Sound, Packed, Members, Shape, Within, Apart, LastAtTop, Begins, Accounted, Holds,
       Live, End, Text, Used, Taken

LEMMA SetStep ==
  ASSUME Constants, IInv, spoilt = {}, NEW i \in Int, NEW t \in String, Set(i, t)
  PROVE  IInv'
<1>1. CASE Error
  BY <1>1, Unchanged DEF Error
<1>2. CASE i >= 0 /\ Store(i, t)
  <2> SUFFICES ASSUME spoilt' = {} PROVE Sound'
    BY DEF IInv
  <2>1. i \in Nat /\ Sound
    BY <1>2 DEF IInv
  <2> DEFINE p == WithIndex(pool, i)
  <2>2. /\ pool' = Referred(SetIn(p, i, t)) /\ Assigned(i, t)
        /\ t # <<>> => Spoils(p, i, Allocate(p, i, Len(t))) = {}
    BY <1>2 DEF Store
  <2> QED
    BY <2>1, <2>2, StoreStep DEF Constants
<1> QED
  BY <1>1, <1>2 DEF Set

LEMMA SetPartStep ==
  ASSUME Constants, IInv, spoilt = {}, NEW i \in Nat, NEW part \in String, NEW start, NEW own,
         SetPart(i, part, start, own)
  PROVE  IInv'
<1> SUFFICES ASSUME spoilt' = {} PROVE Sound'
  BY DEF IInv
<1> DEFINE p == WithIndex(pool, i)
           overlaps == own /\ 0 < start /\ start < Len(part)
           copied == IF overlaps THEN [part EXCEPT ![Len(part)] = Junk] ELSE part
<1>1. /\ pool' = Referred(SetIn(p, i, copied)) /\ Assigned(i, part)
      /\ ~overlaps
      /\ part # <<>> => Spoils(p, i, Allocate(p, i, Len(part))) = {}
  BY DEF SetPart
<1>2. copied = part
  BY <1>1
<1> HIDE DEF copied
<1>3. pool' = Referred(SetIn(p, i, part))
  BY <1>1, <1>2
<1> QED
  BY <1>1, <1>3, StoreStep DEF Constants, IInv

LEMMA PartOfString ==
  ASSUME NEW t \in String, NEW a \in Nat, NEW b \in Int, a >= 1, b <= Len(t)
  PROVE  SubSeq(t, a, b) \in String
<1>1. Len(t) \in Nat /\ t \in Seq(Letters)
  BY DEF String
<1>2. \A k \in a .. b : k \in 1 .. Len(t)
  BY <1>1
<1> QED
  BY <1>1, <1>2 DEF String

LEMMA SetToSubstringStep ==
  ASSUME Constants, IInv, spoilt = {}, NEW i \in Nat, NEW t \in String, NEW own,
         NEW start \in Int, NEW len \in Int, SetToSubstring(i, t, own, start, len)
  PROVE  IInv'
<1>1. CASE Error
  BY <1>1, Unchanged DEF Error
<1>2. CASE /\ start + len <= Len(t) /\ start >= 0 /\ len >= 0
           /\ SetPart(i, SubSeq(t, start + 1, start + len), start, own)
  <2>1. start+1 \in Nat /\ start+1 >= 1 /\ start+len \in Int /\ start+len <= Len(t)
    BY <1>2
  <2>2. SubSeq(t, start+1, start+len) \in String
    BY <2>1, PartOfString
  <2> QED
    BY <1>2, <2>2, SetPartStep
<1> QED
  BY <1>1, <1>2 DEF SetToSubstring

LEMMA PrintfStep ==
  ASSUME Constants, IInv, spoilt = {}, NEW i \in Nat, NEW t \in String, Printf(i, t)
  PROVE  IInv'
<1>1. CASE Error
  BY <1>1, Unchanged DEF Error
<1>2. CASE ~Error
  <2> SUFFICES ASSUME spoilt' = {} PROVE Sound'
    BY DEF IInv
  <2> DEFINE p == WithIndex(pool, i)
             shown == IF Len(t) = FormatLength THEN SubSeq(t, 1, Len(t) - 1) ELSE t
  <2>1. /\ pool' = Referred(SetIn(p, i, shown)) /\ Assigned(i, t)
        /\ shown = t
        /\ shown # <<>> => Spoils(p, i, Allocate(p, i, Len(shown))) = {}
    BY <1>2 DEF Printf
  <2> HIDE DEF shown
  <2> QED
    BY <2>1, StoreStep DEF Constants, IInv
<1> QED
  BY <1>1, <1>2

LEMMA ConcatenateStep ==
  ASSUME Constants, IInv, spoilt = {}, NEW i \in Int, NEW t \in String, NEW own,
         Concatenate(i, t, own)
  PROVE  IInv'
<1>1. CASE Error
  BY <1>1, Unchanged DEF Error
<1>2. CASE UNCHANGED <<pool, failed, strings, spoilt>>
  BY <1>2, Unchanged
<1>3. CASE t # <<>> /\ i \in 0 .. pool.Num-1 /\ pool.Offsets[i] = 0 /\ Store(i, t)
  BY <1>3, SetStep DEF Set
<1>4. CASE /\ t # <<>> /\ i \in 0 .. pool.Num-1 /\ pool.Offsets[i] # 0
  <2> SUFFICES ASSUME spoilt' = {} PROVE Sound'
    BY DEF IInv
  <2> DEFINE old == Text(pool, i)
             a == Allocate(pool, i, Len(old) + Len(t))
             new == old \o t
             overlaps == own /\ a.at = pool.Offsets[i] /\ a.pool.BufferSize = pool.BufferSize
             copied == IF overlaps THEN old \o t \o <<Junk>> ELSE old \o t
  <2>1. /\ pool' = Referred([a.pool EXCEPT !.Buffer = Written(@, a.at, copied, Prefix)])
        /\ Assigned(i, strings[i] \o t)
        /\ Spoils(pool, i, a) = {} /\ ~overlaps
    BY <1>4 DEF Concatenate
  <2>2. /\ Packed(pool) /\ Accounted(pool) /\ pool.Num \in Nat /\ i \in Nat /\ ~(i >= pool.Num)
        /\ i \in Live(pool) /\ old \in String /\ strings[i] = old
    BY <1>4, MembersOf DEF IInv, Sound, Holds, Constants, Live, Packed, Within
  <2>3. new \in String /\ Len(new) = Len(old) + Len(t) /\ new # <<>>
    <3>1. Len(t) > 0 /\ Len(t) \in Nat /\ Len(old) \in Nat
      BY <1>4, <2>2, Lengths
    <3>2. new \in String /\ Len(new) = Len(old) + Len(t)
      BY <2>2 DEF String
    <3> QED
      BY <3>1, <3>2, Lengths
  <2>4. copied = new
    BY <2>1
  <2>5. WithIndex(pool, i) = pool
    BY <2>2 DEF WithIndex
  <2>6. a = Allocate(pool, i, Len(new))
    BY <2>3
  <2> DEFINE q == WithText(a, new)
  <2>7. pool' = Referred(q)
    BY <2>1, <2>4 DEF WithText
  <2> HIDE DEF a, new, copied, q
  <2>8. Packed(q) /\ Accounted(q) /\ Becomes(pool, i, new, q)
    BY <1>4, <2>1, <2>2, <2>3, <2>6, TextSet DEF Constants, q
  <2>9. Assigned(i, new)
    BY <2>1, <2>2 DEF new
  <2> QED
    BY <2>2, <2>3, <2>5, <2>7, <2>8, <2>9, CallKept DEF Constants, IInv
<1>5. \/ Error
      \/ UNCHANGED <<pool, failed, strings, spoilt>>
      \/ t # <<>> /\ i \in 0 .. pool.Num-1 /\ pool.Offsets[i] = 0 /\ Store(i, t)
      \/ t # <<>> /\ i \in 0 .. pool.Num-1 /\ pool.Offsets[i] # 0
  BY Zenon DEF Concatenate
<1> QED
  BY <1>1, <1>2, <1>3, <1>4, <1>5, Zenon

LEMMA GetStep ==
  ASSUME IInv, NEW i, Get(i)
  PROVE  IInv'
BY Unchanged DEF Get, Error

LEMMA SetCharStep ==
  ASSUME Constants, IInv, spoilt = {}, NEW i, NEW k \in Int, NEW c \in Chars, SetChar(i, k, c)
  PROVE  IInv'
<1>1. CASE Error
  BY <1>1, Unchanged DEF Error
<1>2. CASE ~Error
  <2> DEFINE p == pool
             o == p.Offsets[i]
             old == Text(p, i)
             new == WithChar(old, k, c)
             n == Size(Len(new))
             b == [p.Buffer EXCEPT ![o] = new]
             q == [p EXCEPT !.Buffer = b]
  <2>1. /\ i \in 0 .. p.Num-1 /\ p.BufferSize > 0 /\ k \in 0 .. Len(old)-1
        /\ pool' = [pool EXCEPT !.Buffer[pool.Offsets[i]] = WithChar(@, k, c)]
        /\ Assigned(i, WithChar(strings[i], k, c))
    BY <1>2 DEF SetChar
  <2>2. /\ Packed(p) /\ Accounted(p) /\ Holds(p, strings)
        /\ Shape(p) /\ Members(p) /\ Within(p) /\ p.Num \in Nat
        /\ p.Offsets \in [0 .. p.OffsetsSize-1 -> Nat] /\ Prefix \in Nat
        /\ p.DataSize \in Nat /\ p.DataSize <= p.BufferSize /\ p.BufferSize \in Nat
        /\ p.Top \in Nat /\ p.GarbageSize \in Nat /\ Size(0) \in Nat
    BY MembersOf DEF IInv, Sound, Constants
  <2>3. i \in Live(p)
    <3>1. SUFFICES ASSUME o = 0 PROVE FALSE
      BY <2>1 DEF Live
    <3>2. old = <<>>
      BY <2>1, <2>2, <3>1 DEF Packed, Begins, Text, TextAt
    <3> QED
      BY <2>1, <3>2
  <2>4. /\ o \in DOMAIN p.Buffer /\ p.Buffer[o] = old /\ old \in String /\ old # <<>>
        /\ p.Buffer = [j \in DOMAIN p.Buffer |-> p.Buffer[j]]
        /\ strings[i] = old /\ o \in Nat /\ o # 0 /\ Size(0) <= o
        /\ strings \in [0 .. p.Num-1 -> String]
    BY <2>1, <2>2, <2>3, Sizes DEF Within, Text, TextAt, Members, Holds, Live
  <2>5. new \in String /\ Len(new) = Len(old) /\ new # <<>>
    <3>1. c \in Letters /\ old \in Seq(Letters) /\ Len(old) \in Nat /\ k+1 \in 1 .. Len(old)
      BY <2>1, <2>4 DEF Letters, String
    <3>2. new = [old EXCEPT ![k+1] = c]
      BY DEF WithChar
    <3>3. new \in Seq(Letters) /\ Len(new) = Len(old)
      BY <3>1, <3>2
    <3> QED
      BY <2>4, <3>1, <3>3, Lengths DEF String
  <2>6. pool' = q
    BY <2>1, <2>4
  <2> HIDE DEF old, new
  <2>7. Has(q, b, p.BufferSize, p.Offsets, p.OffsetsSize, p.DataSize, p.GarbageSize, p.Top, p.Num)
    <3> HIDE DEF b
    <3> QED
      BY <2>2 DEF Has, Shape
  <2>8. Redirected(p.Offsets, i, o, p.Offsets)
    BY <2>2 DEF Redirected
  <2>9. n = Size(Len(old)) /\ End(p, i) = o + n /\ n \in Nat /\ n > 0 /\ o + n \in Nat
    BY <2>2, <2>3, <2>5, Sizes DEF old
  <2>10. Stores(p, i, o, new, b)
    <3>1. \A j \in Live(p) \ {i} : p.Offsets[j] # o /\ p.Offsets[j] \in DOMAIN p.Buffer
      <4> SUFFICES ASSUME NEW j \in Live(p) \ {i} PROVE p.Offsets[j] # o /\ p.Offsets[j] \in DOMAIN p.Buffer
        OBVIOUS
      <4>1. End(p, i) <= p.Offsets[j] \/ End(p, j) <= o
        BY <2>2, <2>3 DEF Packed, Apart
      <4>2. p.Offsets[j] \in Nat /\ End(p, j) \in Nat /\ p.Offsets[j] < End(p, j)
        BY <2>2, Sizes, SMTT(40)
      <4>3. End(p, i) \in Nat /\ o < End(p, i)
        BY <2>4, <2>9
      <4> QED
        BY <2>2, <2>4, <4>1, <4>2, <4>3 DEF Within
    <3>2. 0 \in DOMAIN p.Buffer /\ p.Buffer[0] = <<>>
      BY <2>1, <2>2 DEF Packed, Begins
    <3> HIDE DEF o
    <3> QED
      BY <2>4, <3>1, <3>2 DEF Stores
  <2> HIDE DEF n, o
  <2>11. Room(p, i, o, n, p.DataSize, p.Top)
    <3>1. ASSUME NEW j \in Live(p) \ {i}
          PROVE  /\ End(p, j) <= o \/ o + n <= p.Offsets[j]
                 /\ End(p, j) <= p.DataSize
                 /\ IF p.Offsets[j] = p.Top THEN End(p, j) = p.DataSize ELSE End(p, j) <= p.Top
      <4>1. End(p, i) <= p.Offsets[j] \/ End(p, j) <= o
        BY <2>2, <2>3 DEF Packed, Apart, o
      <4> QED
        BY <2>2, <2>9, <4>1 DEF Packed, Within, LastAtTop
    <3>2. IF o = p.Top THEN o + n = p.DataSize ELSE o + n <= p.Top
      BY <2>2, <2>3, <2>9 DEF Packed, LastAtTop, o
    <3>3. o + n <= p.DataSize
      BY <2>2, <2>3, <2>9 DEF Within
    <3> QED
      BY <2>2, <2>4, <3>1, <3>2, <3>3 DEF Room
  <2>12. Paid(p, i, n, p.DataSize, p.GarbageSize)
    BY <2>2, <2>3, <2>9, WithoutOne DEF Paid, old
  <2> HIDE DEF b, q, p
  <2>13. Packed(q) /\ Accounted(q) /\ Becomes(p, i, new, q)
    BY <2>1, <2>2, <2>4, <2>5, <2>7, <2>8, <2>10, <2>11, <2>12, Placed DEF n
  <2>14. q.Num = p.Num /\ \A j \in 0 .. p.Num-1 : Reads(q, j) = IF j = i THEN new ELSE Reads(p, j)
    BY <2>13 DEF Becomes
  <2>15. strings' = [j \in 0 .. p.Num-1 |->
                       IF j = i THEN new ELSE IF j < p.Num THEN strings[j] ELSE <<>>]
    BY <2>1, <2>4, <2>6, <2>14 DEF Assigned, new, p
  <2>16. \A j \in 0 .. p.Num-1 : j < p.Num /\ strings[j] = Reads(p, j)
    BY <2>2 DEF Holds, Reads
  <2>17. strings' \in [0 .. p.Num-1 -> String] /\ \A j \in 0 .. p.Num-1 : strings'[j] = Reads(q, j)
    BY <2>4, <2>5, <2>14, <2>15, <2>16
  <2>18. Holds(q, strings')
    BY <2>14, <2>17 DEF Holds, Reads
  <2> QED
    BY <2>6, <2>13, <2>18 DEF IInv, Sound
<1> QED
  BY <1>1, <1>2

\* Nothing is left of the strings, and the buffer begins as it did.
LEMMA ClearStep ==
  ASSUME Constants, IInv, spoilt = {}, Clear
  PROVE  IInv'
<1> SUFFICES ASSUME spoilt' = {} PROVE Sound'
  BY DEF IInv
<1> DEFINE o == [j \in DOMAIN pool.Offsets |-> IF j < pool.Num THEN 0 ELSE pool.Offsets[j]]
<1>1. /\ Shape(pool) /\ pool.Num \in Nat /\ pool.OffsetsSize \in Nat /\ pool.Num <= pool.OffsetsSize
      /\ pool.Offsets \in [0 .. pool.OffsetsSize-1 -> Nat] /\ Packed(pool) /\ Members(pool)
      /\ pool.BufferSize \in Nat /\ Size(0) \in Nat
  BY MembersOf DEF IInv, Sound, Constants
<1>2. /\ pool' = [pool EXCEPT !.Offsets = o, !.DataSize = 0, !.GarbageSize = 0]
      /\ strings' = [j \in 0 .. pool.Num-1 |-> <<>>]
  BY DEF Clear
<1>3. \A j \in 0 .. pool.OffsetsSize-1 : o[j] = 0
  BY <1>1 DEF Members
<1>4. o \in [0 .. pool.OffsetsSize-1 -> Nat]
  BY <1>1, <1>3
<1> HIDE DEF o
<1> DEFINE q == pool'
<1>5. Has(q, pool.Buffer, pool.BufferSize, o, pool.OffsetsSize, 0, 0, pool.Top, pool.Num)
  BY <1>1, <1>2 DEF Has, Shape
<1> HIDE DEF q
<1>6. \A j \in 0 .. pool.Num-1 : j \in 0 .. pool.OffsetsSize-1 /\ o[j] = 0
  BY <1>1, <1>3
<1>7. Live(q) = {}
  BY <1>5, <1>6 DEF Live, Has
<1>8. Members(q)
  <2>1. \A j \in pool.Num .. pool.OffsetsSize-1 : o[j] = 0
    BY <1>1, <1>3
  <2> QED
    BY <1>1, <1>4, <1>5, <2>1 DEF Members, Has
<1>9. Packed(q) /\ Accounted(q)
  BY <1>1, <1>5, <1>7, <1>8 DEF Packed, Within, Apart, LastAtTop, Begins, Accounted, Has
<1>10. Holds(q, strings')
  BY <1>2, <1>5, <1>6 DEF Holds, Has, String
<1> QED
  BY <1>9, <1>10 DEF Sound, q

\* The strings may move, and are the same.
LEMMA ReserveStep ==
  ASSUME Constants, IInv, spoilt = {}, NEW n \in Nat, UNCHANGED <<strings, spoilt>>,
         pool' = ReserveNum(pool, n) \/ pool' = ReserveBuf(pool, n)
  PROVE  IInv'
<1>1. Packed(pool) /\ Accounted(pool) /\ Holds(pool, strings)
  BY DEF IInv, Sound
<1>2. Packed(pool') /\ Accounted(pool') /\ Same(pool, pool')
  <2>1. CASE pool' = ReserveNum(pool, n)
    BY <1>1, <2>1, NumberedAlike DEF Constants
  <2>2. CASE pool' = ReserveBuf(pool, n)
    BY <1>1, <2>2, ReservePacks DEF Constants
  <2> QED
    BY <2>1, <2>2
<1>3. Holds(pool', strings')
  BY <1>1, <1>2 DEF Holds, Same, Reads
<1> QED
  BY <1>2, <1>3 DEF IInv, Sound

-----------------------------------------------------------------------------
(* All of them.                                                            *)

LEMMA Started ==
  ASSUME Constants, Init
  PROVE  IInv
<1>1. /\ pool.Num = 0 /\ pool.Offsets = <<>> /\ pool.OffsetsSize = 0 /\ pool.DataSize = 0
      /\ pool.BufferSize = 0 /\ pool.GarbageSize = 0 /\ pool.Top = 0 /\ pool.Buffer = NoBuffer
      /\ Shape(pool)
  BY DEF Init, Shape
<1>2. Live(pool) = {}
  BY <1>1 DEF Live
<1>3. Members(pool)
  <2>1. <<>> \in [0 .. 0-1 -> Nat]
    OBVIOUS
  <2>2. NoBuffer = [k \in DOMAIN NoBuffer |-> NoBuffer[k]]
    BY DEF NoBuffer
  <2>3. \A i \in 0 .. 0-1 : FALSE
    OBVIOUS
  <2> QED
    BY <1>1, <2>1, <2>2, <2>3 DEF Members
<1>4. Packed(pool) /\ Accounted(pool)
  BY <1>1, <1>2, <1>3 DEF Packed, Within, Apart, LastAtTop, Begins, Accounted
<1>5. Holds(pool, strings)
  <2>1. <<>> \in [0 .. 0-1 -> String] /\ strings = <<>>
    BY DEF Init
  <2>2. \A i \in 0 .. 0-1 : FALSE
    OBVIOUS
  <2> QED
    BY <1>1, <2>1, <2>2 DEF Holds
<1> QED
  BY <1>4, <1>5 DEF IInv, Sound

\* What clients pass is text.
LEMMA SourcesAreStrings ==
  ASSUME Assumption, IInv, spoilt = {}, NEW s \in Sources
  PROVE  s.text \in String
<1>1. CASE \E t \in Texts : s = [own |-> -1, text |-> t]
  BY <1>1 DEF Assumption, String, Letters
<1>2. CASE \E j \in 0 .. pool.Num-1 : pool.BufferSize # 0 /\ s = [own |-> j, text |-> Text(pool, j)]
  <2>1. PICK j \in 0 .. pool.Num-1 : pool.BufferSize # 0 /\ s.text = Text(pool, j)
    BY <1>2
  <2>2. Packed(pool) /\ pool.BufferSize \in Nat
    BY MembersOf DEF IInv, Sound, Assumption
  <2>3. CASE j \in Live(pool)
    BY <2>1, <2>2, <2>3 DEF Packed, Within
  <2>4. CASE j \notin Live(pool)
    <3>1. Text(pool, j) = <<>>
      BY <2>1, <2>2, <2>4 DEF Packed, Begins, Live, Text, TextAt
    <3> QED
      BY <2>1, <3>1 DEF String
  <2> QED
    BY <2>3, <2>4
<1> QED
  BY <1>1, <1>2 DEF Sources

LEMMA NextStep ==
  ASSUME Assumption, IInv, Next
  PROVE  IInv'
<1>1. Constants /\ spoilt = {} /\ MaxLen \in Nat /\ Parts \subseteq Nat \X Nat
  BY DEF Assumption, Constants, Next
<1>2. \A s \in Sources : s.text \in String
  BY <1>1, SourcesAreStrings
<1>3. ASSUME NEW s \in Sources, NEW i \in -1 .. MaxIndex,
             \/ Set(i, s.text)
             \/ i >= 0 /\ Concatenate(i, s.text, s.own = i)
             \/ i >= 0 /\ Printf(i, s.text)
             \/ \E part \in Parts :
                   i >= 0 /\ SetToSubstring(i, s.text, s.own = i, part[1], part[2])
      PROVE  IInv'
  <2>1. s.text \in String /\ i \in Int
    BY <1>2
  <2>2. CASE Set(i, s.text)
    BY <1>1, <2>1, <2>2, SetStep
  <2>3. CASE i >= 0 /\ Concatenate(i, s.text, s.own = i)
    BY <1>1, <2>1, <2>3, ConcatenateStep
  <2>4. CASE i >= 0 /\ Printf(i, s.text)
    <3>1. i \in Nat
      BY <2>1, <2>4
    <3> QED
      BY <1>1, <2>1, <2>4, <3>1, PrintfStep
  <2>5. ASSUME NEW part \in Parts, i >= 0, SetToSubstring(i, s.text, s.own = i, part[1], part[2])
        PROVE  IInv'
    <3>1. i \in Nat /\ part[1] \in Int /\ part[2] \in Int
      BY <1>1, <2>1, <2>5
    <3> QED
      BY <1>1, <2>1, <2>5, <3>1, SetToSubstringStep
  <2> QED
    BY <1>3, <2>2, <2>3, <2>4, <2>5
<1>4. ASSUME NEW i \in 0 .. MaxIndex, Get(i) PROVE IInv'
  BY <1>4, GetStep
<1>5. ASSUME NEW i \in 0 .. MaxIndex, NEW k \in 0 .. 1, NEW c \in Chars, SetChar(i, k, c)
      PROVE  IInv'
  BY <1>1, <1>5, SetCharStep
<1>6. CASE Reserve(MaxLen)
  BY <1>1, <1>6, ReserveStep DEF Reserve
<1>7. CASE Clear
  BY <1>1, <1>7, ClearStep
<1> QED
  BY <1>3, <1>4, <1>5, <1>6, <1>7, Zenon DEF Next

LEMMA KeptWhileSound ==
  ASSUME Prefix \in Nat, IInv
  PROVE  StringsKept
<1> SUFFICES ASSUME spoilt = {}
             PROVE  /\ Kept
                    /\ pool.DataSize <= pool.BufferSize
                    /\ \A i \in 0 .. pool.Num-1 : pool.Offsets[i] # 0 =>
                          pool.Offsets[i] + Size(Len(Text(pool, i))) <= pool.DataSize
  BY DEF StringsKept
<1>1. Packed(pool) /\ Holds(pool, strings)
  BY DEF IInv, Sound
<1>2. pool.DataSize <= pool.BufferSize /\ pool.BufferSize \in Nat
  BY <1>1, MembersOf
<1>3. ASSUME NEW i \in 0 .. pool.Num-1, pool.Offsets[i] # 0
      PROVE  pool.Offsets[i] + Size(Len(Text(pool, i))) <= pool.DataSize
  BY <1>1, <1>3 DEF Packed, Within, Live, End
<1>4. Kept
  <2> SUFFICES ASSUME NEW i \in 0 .. pool.Num-1, pool.BufferSize > 0
               PROVE  Text(pool, i) = strings[i]
    BY DEF Kept
  <2>1. CASE pool.Offsets[i] = 0
    BY <1>1, <2>1 DEF Packed, Begins, Holds, Text, TextAt
  <2>2. CASE pool.Offsets[i] # 0
    BY <1>1, <2>2 DEF Holds
  <2> QED
    BY <2>1, <2>2
<1> QED
  BY <1>2, <1>3, <1>4

=============================================================================
