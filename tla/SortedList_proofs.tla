------------------------- MODULE SortedList_proofs --------------------------
(***************************************************************************)
(* SortedList keeps its records in order and does with them what its calls *)
(* say, for every set of records and every size of the list.               *)
(***************************************************************************)
EXTENDS SortedList, WellFoundedInduction, FunctionTheorems, FiniteSetTheorems, TLAPS

-----------------------------------------------------------------------------
(* Induction over numbers, for a set of them.                              *)

LEMMA LeastNumber ==
  ASSUME NEW T, T \subseteq Nat, T # {}
  PROVE  \E m \in T : \A n \in T : m <= n
<1> DEFINE R == OpToRel(<, Nat)
<1>1. \A m, n \in Nat : m < n => <<m, n>> \in R
  BY DEF OpToRel
<1>2. IsWellFoundedOn(R, Nat)
  BY NatLessThanWellFounded
<1> HIDE DEF R
<1>3. PICK m \in T : \A n \in T : ~(<<n, m>> \in R)
  BY <1>2, WFMin
<1>4. \A n \in T : ~(n < m)
  BY <1>1, <1>3
<1>5. \A n \in T : m <= n
  BY <1>4
<1> QED
  BY <1>5

LEMMA AllNumbers ==
  ASSUME NEW T, 0 \in T, \A n \in Nat : n \in T => n+1 \in T
  PROVE  \A n \in Nat : n \in T
<1> SUFFICES ASSUME NEW k \in Nat, k \notin T PROVE FALSE
  OBVIOUS
<1> DEFINE M == Nat \ T
<1>1. M \subseteq Nat /\ M # {}
  OBVIOUS
<1> HIDE DEF M
<1>2. PICK m \in M : \A n \in M : m <= n
  BY <1>1, LeastNumber
<1> USE DEF M
<1>3. m - 1 \in Nat /\ ~(m <= m - 1)
  BY <1>2
<1>4. m - 1 \in T /\ m = (m-1) + 1
  BY <1>2, <1>3
<1> QED
  BY <1>2, <1>3, <1>4

-----------------------------------------------------------------------------
(* The binary search.                                                      *)

Intervals == (0 .. num) \X (0 .. num)

\* One step of it, where f says what becomes of a smaller interval.
Narrowed(f, x, w) ==
    LET a == w[1]  b == w[2]  c == (a + b) \div 2
    IN  IF a >= b THEN a
        ELSE IF Less(list[c], x) THEN f[<<c + 1, b>>]
        ELSE f[<<a, c>>]

Narrows(f, x) == f = [w \in Intervals |-> Narrowed(f, x, w)]

\* The middle lies in the interval.
LEMMA Middle ==
  ASSUME NEW a \in Nat, NEW b \in Nat, a < b
  PROVE  LET c == (a + b) \div 2
         IN  c \in Nat /\ a <= c /\ c < b
OBVIOUS

\* f is the search for intervals of length n or less.
NarrowsTo(f, x, n) == \A w \in Intervals : w[2] - w[1] <= n => f[w] = Narrowed(f, x, w)

LEMMA SearchDefined ==
  ASSUME num \in Nat, NEW x
  PROVE  \E f : Narrows(f, x)
<1> DEFINE T == {n \in Nat : \E f \in [Intervals -> 0 .. num] : NarrowsTo(f, x, n)}
<1>1. 0 \in T
  <2> DEFINE f == [w \in Intervals |-> w[1]]
  <2>1. f \in [Intervals -> 0 .. num]
    BY DEF Intervals
  <2>2. NarrowsTo(f, x, 0)
    BY DEF NarrowsTo, Narrowed, Intervals
  <2> QED
    BY <2>1, <2>2
<1>2. ASSUME NEW n \in Nat, n \in T PROVE n+1 \in T
  <2>1. PICK f \in [Intervals -> 0 .. num] : NarrowsTo(f, x, n)
    BY <1>2
  <2> DEFINE g == [w \in Intervals |-> Narrowed(f, x, w)]
  <2>2. \A w \in Intervals : w[2] - w[1] <= n => g[w] = f[w]
    BY <2>1 DEF NarrowsTo
  <2>3. ASSUME NEW w \in Intervals
        PROVE  /\ Narrowed(f, x, w) \in 0 .. num
               /\ w[2] - w[1] <= n+1 => Narrowed(g, x, w) = Narrowed(f, x, w)
    <3> DEFINE a == w[1]  b == w[2]  c == (a + b) \div 2
    <3>1. a \in 0 .. num /\ b \in 0 .. num
      BY DEF Intervals
    <3>2. CASE a >= b
      BY <3>1, <3>2 DEF Narrowed
    <3>3. CASE ~(a >= b)
      <4>1. c \in Nat /\ a <= c /\ c < b
        BY <3>1, <3>3, Middle
      <4> HIDE DEF c
      <4>2. <<c+1, b>> \in Intervals /\ <<a, c>> \in Intervals
        BY <3>1, <4>1 DEF Intervals
      <4>3. b - a <= n+1 => b - (c+1) <= n /\ c - a <= n
        BY <3>1, <4>1
      <4>4. b - a <= n+1 => g[<<c+1, b>>] = f[<<c+1, b>>] /\ g[<<a, c>>] = f[<<a, c>>]
        BY <2>2, <4>2, <4>3
      <4>5. f[<<c+1, b>>] \in 0 .. num /\ f[<<a, c>>] \in 0 .. num
        BY <2>1, <4>2
      <4> QED
        BY <3>1, <4>4, <4>5 DEF Narrowed, c
    <3> QED
      BY <3>2, <3>3
  <2>4. g \in [Intervals -> 0 .. num]
    BY <2>3
  <2>5. NarrowsTo(g, x, n+1)
    BY <2>3 DEF NarrowsTo
  <2> QED
    BY <2>4, <2>5
<1>3. num \in T
  BY <1>1, <1>2, AllNumbers
<1>4. PICK f \in [Intervals -> 0 .. num] : NarrowsTo(f, x, num)
  BY <1>3
<1>5. \A w \in Intervals : w[2] - w[1] <= num
  BY DEF Intervals
<1>6. Narrows(f, x)
  BY <1>4, <1>5 DEF Narrows, NarrowsTo
<1> QED
  BY <1>6

LEMMA SearchNarrows ==
  ASSUME num \in Nat, NEW x
  PROVE  \E f : Narrows(f, x) /\ Search(x) = f[<<0, num>>]
<1> DEFINE g == CHOOSE f : Narrows(f, x)
<1>1. Narrows(g, x)
  BY SearchDefined
<1>2. Search(x) = g[<<0, num>>]
  BY DEF Search, Narrows, Narrowed, Intervals
<1> QED
  BY <1>1, <1>2

\* All before the place a are less than x, and none from b on.
Below(x, a) == \A j \in 0 .. a-1 : Less(list[j], x)
NotBelow(x, b) == \A j \in b .. num-1 : ~Less(list[j], x)

Types ==
    /\ num \in Nat /\ MAXSIZE \in Nat /\ num <= MAXSIZE
    /\ list \in [0 .. MAXSIZE-1 -> SRecord \cup {Junk}]
    /\ \A i \in 0 .. num-1 : list[i] \in SRecord

LEMMA NamesAreNumbers ==
  ASSUME Assumption
  PROVE  \A r \in SRecord : r.name \in Int
BY DEF Assumption, SRecord

\* The search finds the first place whose record is not less than x.
LEMMA SearchFinds ==
  ASSUME Assumption, Types, InOrder, NEW x \in SRecord
  PROVE  /\ Search(x) \in Nat /\ Search(x) <= num
         /\ Below(x, Search(x)) /\ NotBelow(x, Search(x))
<1>1. /\ num \in Nat /\ x.name \in Int
      /\ \A i \in 0 .. num-1 : list[i].name \in Int
  BY NamesAreNumbers DEF Types
<1>2. PICK f : Narrows(f, x) /\ Search(x) = f[<<0, num>>]
  BY <1>1, SearchNarrows
<1>3. \A w \in Intervals : f[w] = Narrowed(f, x, w)
  BY <1>2 DEF Narrows
<1> DEFINE Found(a) == a \in 0 .. num /\ Below(x, a) /\ NotBelow(x, a)
           Around(w) == w[1] <= w[2] /\ Below(x, w[1]) /\ NotBelow(x, w[2])
           T == {n \in Nat : \A w \in Intervals : w[2] - w[1] <= n /\ Around(w) => Found(f[w])}
<1>4. ASSUME NEW w \in Intervals, w[1] >= w[2], Around(w)
      PROVE  Found(f[w])
  <2>1. w[1] \in 0 .. num /\ w[2] \in 0 .. num
    BY DEF Intervals
  <2>2. f[w] = w[1]
    BY <1>3, <1>4 DEF Narrowed
  <2>3. w[1] = w[2]
    BY <1>1, <1>4, <2>1
  <2> QED
    BY <1>4, <2>1, <2>2, <2>3
<1>5. 0 \in T
  <2>1. ASSUME NEW w \in Intervals, w[2] - w[1] <= 0
        PROVE  w[1] >= w[2]
    BY <2>1 DEF Intervals
  <2> QED
    BY <1>4, <2>1
<1>6. ASSUME NEW n \in Nat, n \in T PROVE n+1 \in T
  <2> SUFFICES ASSUME NEW w \in Intervals, w[2] - w[1] <= n+1, Around(w), ~(w[1] >= w[2])
               PROVE  Found(f[w])
    BY <1>4
  <2> DEFINE a == w[1]  b == w[2]  c == (a + b) \div 2
  <2>1. a \in 0 .. num /\ b \in 0 .. num
    BY DEF Intervals
  <2>2. c \in Nat /\ a <= c /\ c < b
    BY <2>1, Middle
  <2>3. f[w] = IF Less(list[c], x) THEN f[<<c+1, b>>] ELSE f[<<a, c>>]
    BY <1>3 DEF Narrowed
  <2> DEFINE v == <<c+1, b>>  u == <<a, c>>
  <2> HIDE DEF c
  <2>4. v \in Intervals /\ u \in Intervals
    BY <1>1, <2>1, <2>2 DEF Intervals
  <2>5. v[2] - v[1] <= n /\ u[2] - u[1] <= n /\ v[1] <= v[2] /\ u[1] <= u[2]
    BY <2>1, <2>2
  <2>6. c \in 0 .. num-1 /\ \A j \in 0 .. c : ~Less(list[c], list[j])
    BY <1>1, <2>1, <2>2 DEF InOrder
  <2>7. CASE Less(list[c], x)
    <3>1. Below(x, c+1)
      <4> SUFFICES ASSUME NEW j \in 0 .. c PROVE Less(list[j], x)
        BY <2>2 DEF Below
      <4>1. j \in 0 .. num-1 /\ ~Less(list[c], list[j])
        BY <1>1, <2>1, <2>2, <2>6
      <4> QED
        BY <1>1, <2>6, <2>7, <4>1 DEF Less
    <3>2. Around(v)
      BY <2>5, <3>1
    <3>3. Found(f[v])
      BY <1>6, <2>4, <2>5, <3>2
    <3> QED
      BY <2>3, <2>7, <3>3
  <2>8. CASE ~Less(list[c], x)
    <3>1. NotBelow(x, c)
      <4> SUFFICES ASSUME NEW j \in c .. num-1 PROVE ~Less(list[j], x)
        BY DEF NotBelow
      <4>1. j \in 0 .. num-1 /\ ~Less(list[j], list[c])
        BY <2>1, <2>2, <2>6 DEF InOrder
      <4> QED
        BY <1>1, <2>6, <2>8, <4>1 DEF Less
    <3>2. Around(u)
      BY <2>5, <3>1
    <3>3. Found(f[u])
      BY <1>6, <2>4, <2>5, <3>2
    <3> QED
      BY <2>3, <2>8, <3>3
  <2> QED
    BY <2>7, <2>8
<1> HIDE DEF Found
<1>7. num \in T
  <2> HIDE DEF T
  <2> QED
    BY <1>1, <1>5, <1>6, AllNumbers
<1> DEFINE all == <<0, num>>
<1>8. all \in Intervals /\ all[1] = 0 /\ all[2] = num /\ num - 0 <= num /\ 0 <= num
  BY <1>1 DEF Intervals
<1>9. Below(x, 0) /\ NotBelow(x, num)
  BY <1>1 DEF Below, NotBelow
<1>10. Around(all)
  BY <1>8, <1>9
<1>11. Found(f[all])
  BY <1>7, <1>8, <1>10
<1> QED
  BY <1>2, <1>11 DEF Found

-----------------------------------------------------------------------------
(* How a record comes in and goes out.                                     *)

Sound == Types /\ InOrder

\* y comes in at the place a, and those from there on move up.
Inserted(a, y) ==
    /\ num' = num + 1
    /\ list' \in [0 .. MAXSIZE-1 -> SRecord \cup {Junk}]
    /\ \A j \in 0 .. num : list'[j] = IF j < a THEN list[j]
                                      ELSE IF j = a THEN y ELSE list[j-1]

\* The record at the place a goes out, and those after it move down.
Removed(a) ==
    /\ num' = num - 1
    /\ list' \in [0 .. MAXSIZE-1 -> SRecord \cup {Junk}]
    /\ \A j \in 0 .. num-2 : list'[j] = IF j < a THEN list[j] ELSE list[j+1]

\* x is put at the place Search finds; a record of the list that is passed by
\* reference may have been replaced there by one of the same name.
LEMMA InsertInserts ==
  ASSUME Assumption, Sound, num < MAXSIZE, NEW x \in SRecord, NEW k \in Int, Insert(x, k),
         k \in 0 .. num-1 => x = list[k]
  PROVE  \E y \in SRecord : /\ y.name = x.name /\ Inserted(Search(x), y)
                            /\ k \notin 0 .. num-1 => y = x
<1> DEFINE a == Search(x)
           moved == MovedUp(a)
           y == IF k \in 0 .. num-1 THEN moved[k] ELSE x
<1>1. /\ num \in Nat /\ MAXSIZE \in Nat /\ x.name \in Int
      /\ \A i \in 0 .. num-1 : list[i] \in SRecord /\ list[i].name \in Int
  BY NamesAreNumbers DEF Types, Sound
<1>2. a \in Nat /\ a <= num /\ Below(x, a) /\ NotBelow(x, a)
  BY SearchFinds DEF Sound
<1>3. list' = [moved EXCEPT ![a] = y] /\ num' = num + 1
  BY DEF Insert
<1> HIDE DEF a
<1>4. moved = [j \in 0 .. MAXSIZE-1 |-> IF j \in a+1 .. num THEN list[j-1] ELSE list[j]]
  <2>1. (a + 1) + (num - a) - 1 = num /\ \A j \in 0 .. MAXSIZE-1 : j - (a+1) + a = j-1
    BY <1>1, <1>2
  <2>2. DOMAIN list = 0 .. MAXSIZE-1
    BY DEF Sound, Types
  <2> QED
    BY <2>1, <2>2 DEF MovedUp, Copied
<1>5. moved \in [0 .. MAXSIZE-1 -> SRecord \cup {Junk}]
  <2>1. ASSUME NEW j \in 0 .. MAXSIZE-1
        PROVE  /\ list[j] \in SRecord \cup {Junk}
               /\ j \in a+1 .. num => list[j-1] \in SRecord
    <3>1. j \in a+1 .. num => j-1 \in 0 .. num-1
      BY <1>1, <1>2
    <3> QED
      BY <1>1, <3>1 DEF Sound, Types
  <2> QED
    BY <1>4, <2>1
<1> HIDE DEF moved
<1>6. y \in SRecord /\ y.name = x.name /\ (k \notin 0 .. num-1 => y = x)
  <2>1. CASE k \notin 0 .. num-1
    BY <2>1
  <2>2. CASE k \in 0 .. num-1
    <3>1. x = list[k] /\ k \in 0 .. MAXSIZE-1
      BY <1>1, <2>2
    <3>2. a <= k
      <4>1. ~(k \in 0 .. a-1)
        BY <1>1, <1>2, <3>1 DEF Below, Less
      <4> QED
        BY <1>1, <1>2, <2>2, <4>1
    <3>3. CASE k = a
      BY <1>1, <1>2, <1>4, <2>2, <3>1, <3>3
    <3>4. CASE a < k
      <4>1. k \in a+1 .. num /\ k-1 \in a .. num-1 /\ k-1 \in 0 .. num-1 /\ k-1 <= k
        BY <1>1, <1>2, <2>2, <3>4
      <4>2. moved[k] = list[k-1]
        BY <1>4, <3>1, <4>1
      <4>3. ~Less(list[k-1], x) /\ ~Less(list[k], list[k-1])
        BY <1>2, <2>2, <4>1 DEF NotBelow, Sound, InOrder
      <4>4. list[k-1].name = x.name
        BY <1>1, <2>2, <3>1, <4>1, <4>3 DEF Less
      <4> QED
        BY <1>1, <2>2, <4>1, <4>2, <4>4
    <3> QED
      BY <1>2, <2>2, <3>2, <3>3, <3>4
  <2> QED
    BY <2>1, <2>2
<1> HIDE DEF y
<1>7. Inserted(a, y)
  <2>1. list' \in [0 .. MAXSIZE-1 -> SRecord \cup {Junk}]
    BY <1>3, <1>5, <1>6
  <2>2. ASSUME NEW j \in 0 .. num
        PROVE  list'[j] = IF j < a THEN list[j] ELSE IF j = a THEN y ELSE list[j-1]
    <3>1. j \in 0 .. MAXSIZE-1 /\ (j \in a+1 .. num <=> ~(j < a) /\ j # a)
      BY <1>1, <1>2
    <3>2. list'[j] = IF j = a THEN y ELSE moved[j]
      BY <1>3, <1>5, <3>1
    <3> QED
      BY <1>2, <1>4, <3>1, <3>2
  <2> QED
    BY <1>3, <2>1, <2>2 DEF Inserted
<1> QED
  BY <1>6, <1>7 DEF a

LEMMA StaysSoundInserting ==
  ASSUME Assumption, Sound, num < MAXSIZE, NEW a \in Nat, a <= num, NEW y \in SRecord,
         Below(y, a), NotBelow(y, a), Inserted(a, y)
  PROVE  Sound'
<1>1. /\ num \in Nat /\ MAXSIZE \in Nat /\ y.name \in Int /\ num' = num + 1
      /\ \A i \in 0 .. num-1 : list[i] \in SRecord /\ list[i].name \in Int
  BY NamesAreNumbers DEF Types, Sound, Inserted
<1>2. \A j \in 0 .. num : list'[j] = IF j < a THEN list[j] ELSE IF j = a THEN y ELSE list[j-1]
  BY DEF Inserted
<1>3. ASSUME NEW j \in 0 .. num
      PROVE  /\ j < a => j \in 0 .. num-1 /\ j \in 0 .. a-1
             /\ ~(j < a) /\ j # a => j-1 \in 0 .. num-1 /\ j-1 \in a .. num-1
  BY <1>1
<1>4. Types'
  <2>1. \A j \in 0 .. num : list'[j] \in SRecord
    BY <1>1, <1>2, <1>3
  <2>2. (num + 1) - 1 = num
    BY <1>1
  <2> QED
    BY <1>1, <2>1, <2>2 DEF Types, Inserted
<1>5. InOrder'
  <2> SUFFICES ASSUME NEW i \in 0 .. num, NEW j \in 0 .. num, i <= j
               PROVE  ~(list'[j].name < list'[i].name)
    <3>1. (num + 1) - 1 = num
      BY <1>1
    <3> QED
      BY <1>1, <3>1 DEF InOrder, Less
  <2>1. \A p, q \in 0 .. num-1 : p <= q => ~(list[q].name < list[p].name)
    BY DEF Sound, InOrder, Less
  <2>2. /\ \A p \in 0 .. a-1 : list[p].name < y.name
        /\ \A p \in a .. num-1 : ~(list[p].name < y.name)
    BY DEF Below, NotBelow, Less
  <2>3. CASE j < a
    <3>1. i < a /\ i \in 0 .. num-1 /\ j \in 0 .. num-1
      BY <1>1, <2>3
    <3> QED
      BY <1>2, <2>1, <2>3, <3>1
  <2>4. CASE j = a
    <3>1. CASE i < a
      <4>1. list'[j] = y /\ list'[i] = list[i] /\ i \in 0 .. a-1 /\ i \in 0 .. num-1
        BY <1>1, <1>2, <2>4, <3>1
      <4> QED
        BY <1>1, <2>2, <4>1
    <3>2. CASE i = a
      BY <1>1, <1>2, <2>4, <3>2
    <3> QED
      BY <1>1, <2>4, <3>1, <3>2
  <2>5. CASE j > a
    <3>1. list'[j] = list[j-1] /\ j-1 \in 0 .. num-1 /\ j-1 \in a .. num-1
      BY <1>1, <1>2, <2>5
    <3>2. CASE i < a
      <4>1. list'[i] = list[i] /\ i \in 0 .. num-1 /\ i <= j-1
        BY <1>1, <1>2, <2>5, <3>2
      <4> QED
        BY <2>1, <3>1, <4>1
    <3>3. CASE i = a
      <4>1. list'[i] = y
        BY <1>2, <3>3
      <4> QED
        BY <2>2, <3>1, <4>1
    <3>4. CASE i > a
      <4>1. list'[i] = list[i-1] /\ i-1 \in 0 .. num-1 /\ i-1 <= j-1
        BY <1>1, <1>2, <2>5, <3>4
      <4> QED
        BY <2>1, <3>1, <4>1
    <3> QED
      BY <1>1, <3>2, <3>3, <3>4
  <2> QED
    BY <1>1, <2>3, <2>4, <2>5
<1> QED
  BY <1>4, <1>5 DEF Sound

LEMMA RemoveRemoves ==
  ASSUME Assumption, Sound, NEW i \in Nat, i < num, Remove(i)
  PROVE  Removed(i) /\ Sound'
<1>1. /\ num \in Nat /\ MAXSIZE \in Nat /\ num <= MAXSIZE /\ num' = num - 1
      /\ \A j \in 0 .. num-1 : list[j] \in SRecord
      /\ list \in [0 .. MAXSIZE-1 -> SRecord \cup {Junk}]
  BY DEF Types, Sound, Remove
<1>2. list' = [j \in 0 .. MAXSIZE-1 |-> IF j \in i .. num-2 THEN list[j+1] ELSE list[j]]
  <2>1. i + (num - i - 1) - 1 = num-2 /\ \A j \in 0 .. MAXSIZE-1 : j - i + (i+1) = j+1
    BY <1>1
  <2>2. list' = Copied(list, i, list, i+1, num - i - 1)
    BY <1>1 DEF Remove
  <2> QED
    BY <1>1, <2>1, <2>2 DEF Copied
<1>3. \A j \in 0 .. num-2 : list'[j] = IF j < i THEN list[j] ELSE list[j+1]
  <2>1. \A j \in 0 .. num-2 : j \in 0 .. MAXSIZE-1 /\ (j \in i .. num-2 <=> ~(j < i))
    BY <1>1
  <2> QED
    BY <1>2, <2>1
<1>4. \A j \in 0 .. num-2 : j \in 0 .. num-1 /\ j+1 \in 0 .. num-1
  BY <1>1
<1>5. list' \in [0 .. MAXSIZE-1 -> SRecord \cup {Junk}]
  <2>1. \A j \in 0 .. MAXSIZE-1 : j \in i .. num-2 => j+1 \in 0 .. num-1
    BY <1>1
  <2> QED
    BY <1>1, <1>2, <2>1
<1>6. num' - 1 = num-2 /\ num' \in Nat /\ num' <= MAXSIZE
  BY <1>1
<1>7. Types'
  BY <1>1, <1>3, <1>4, <1>5, <1>6 DEF Types
<1>8. InOrder'
  <2> SUFFICES ASSUME NEW p \in 0 .. num-2, NEW q \in 0 .. num-2, p <= q
               PROVE  ~Less(list'[q], list'[p])
    BY <1>6 DEF InOrder
  <2> DEFINE s == IF p < i THEN p ELSE p+1
             u == IF q < i THEN q ELSE q+1
  <2>1. s \in 0 .. num-1 /\ u \in 0 .. num-1 /\ s <= u
    BY <1>1
  <2>2. list'[p] = list[s] /\ list'[q] = list[u]
    BY <1>3
  <2> QED
    BY <2>1, <2>2 DEF Sound, InOrder
<1> QED
  BY <1>1, <1>3, <1>5, <1>7, <1>8 DEF Removed, Sound

-----------------------------------------------------------------------------
(* Counting.                                                               *)

\* B are the numbers A with those from a on moved up by one, and perhaps a.
MovedFrom(A, a, n, B) ==
    \A j \in 0 .. n : j # a => (j \in B <=> IF j < a THEN j \in A ELSE j-1 \in A)

LEMMA Counted ==
  ASSUME NEW n \in Nat, NEW a \in 0 .. n, NEW A \in SUBSET (0 .. n-1), NEW B \in SUBSET (0 .. n),
         MovedFrom(A, a, n, B)
  PROVE  /\ Cardinality(A) \in Nat
         /\ Cardinality(B) = IF a \in B THEN Cardinality(A) + 1 ELSE Cardinality(A)
<1> DEFINE C == B \ {a}
           f == [j \in A |-> IF j < a THEN j ELSE j+1]
<1>1. IsFiniteSet(A) /\ Cardinality(A) \in Nat
  <2>1. IsFiniteSet(0 .. n-1)
    BY FS_Interval
  <2>2. IsFiniteSet(A)
    BY <2>1, FS_Subset
  <2> QED
    BY <2>2, FS_CardinalityType
<1>2. f \in [A -> C]
  <2> SUFFICES ASSUME NEW j \in A PROVE (IF j < a THEN j ELSE j+1) \in C
    OBVIOUS
  <2>1. CASE j < a
    BY <2>1 DEF MovedFrom
  <2>2. CASE ~(j < a)
    <3>1. j+1 \in 0 .. n /\ j+1 # a /\ ~(j+1 < a) /\ (j+1) - 1 = j
      BY <2>2
    <3> QED
      BY <2>2, <3>1 DEF MovedFrom
  <2> QED
    BY <2>1, <2>2
<1>3. \A i, j \in A : f[i] = f[j] => i = j
  OBVIOUS
<1>4. \A c \in C : \E j \in A : f[j] = c
  <2> SUFFICES ASSUME NEW c \in C PROVE \E j \in A : f[j] = c
    OBVIOUS
  <2>1. CASE c < a
    <3>1. c \in A
      BY <2>1 DEF MovedFrom
    <3> QED
      BY <2>1, <3>1
  <2>2. CASE ~(c < a)
    <3>1. c-1 \in A /\ ~(c-1 < a) /\ (c-1) + 1 = c
      BY <2>2 DEF MovedFrom
    <3> QED
      BY <3>1
  <2> QED
    BY <2>1, <2>2
<1> HIDE DEF f, C
<1>5. f \in Bijection(A, C)
  BY <1>2, <1>3, <1>4, Fun_IsBij
<1>6. IsFiniteSet(C) /\ Cardinality(C) = Cardinality(A)
  BY <1>1, <1>5, FS_Bijection DEF ExistsBijection
<1>7. CASE a \in B
  <2>1. B = C \cup {a} /\ a \notin C
    BY <1>7 DEF C
  <2> QED
    BY <1>1, <1>6, <1>7, <2>1, FS_AddElement
<1>8. CASE a \notin B
  BY <1>1, <1>6, <1>8 DEF C
<1> QED
  BY <1>7, <1>8

\* The places of the records of a name, and of a record.
OfName(l, n, name) == {i \in 0 .. n-1 : l[i].name = name}
OfRecord(l, n, r) == {i \in 0 .. n-1 : l[i] = r}

LEMMA CountedInserting ==
  ASSUME num \in Nat, NEW a \in Nat, a <= num, NEW y \in SRecord, Inserted(a, y)
  PROVE  /\ \A name : /\ Named(list, num, name) \in Nat
                      /\ Named(list', num', name) =
                            IF name = y.name THEN Named(list, num, name) + 1
                            ELSE Named(list, num, name)
         /\ \A r \in SRecord : r # y => Records(list', num')[r] = Records(list, num)[r]
<1>1. /\ a \in 0 .. num /\ num' = num + 1 /\ (num+1) - 1 = num
      /\ \A j \in 0 .. num : list'[j] = IF j < a THEN list[j] ELSE IF j = a THEN y ELSE list[j-1]
  BY DEF Inserted
<1>2. \A j \in 0 .. num : /\ j < a => j \in 0 .. num-1
                          /\ ~(j < a) /\ j # a => j-1 \in 0 .. num-1
  BY <1>1
<1>3. ASSUME NEW name
      PROVE  /\ Named(list, num, name) \in Nat
             /\ Named(list', num', name) = IF name = y.name THEN Named(list, num, name) + 1
                                           ELSE Named(list, num, name)
  <2> DEFINE A == OfName(list, num, name)  B == OfName(list', num', name)
  <2>1. A \in SUBSET (0 .. num-1) /\ B \in SUBSET (0 .. num)
    BY <1>1 DEF OfName
  <2>2. MovedFrom(A, a, num, B)
    BY <1>1, <1>2 DEF MovedFrom, OfName
  <2>3. a \in B <=> name = y.name
    BY <1>1 DEF OfName
  <2>4. Named(list, num, name) = Cardinality(A) /\ Named(list', num', name) = Cardinality(B)
    BY DEF Named, OfName
  <2> HIDE DEF A, B
  <2> QED
    BY <1>1, <2>1, <2>2, <2>3, <2>4, Counted
<1>4. ASSUME NEW r \in SRecord, r # y
      PROVE  Records(list', num')[r] = Records(list, num)[r]
  <2> DEFINE A == OfRecord(list, num, r)  B == OfRecord(list', num', r)
  <2>1. A \in SUBSET (0 .. num-1) /\ B \in SUBSET (0 .. num)
    BY <1>1 DEF OfRecord
  <2>2. MovedFrom(A, a, num, B)
    BY <1>1, <1>2 DEF MovedFrom, OfRecord
  <2>3. a \notin B
    BY <1>1, <1>4 DEF OfRecord
  <2>4. Records(list, num)[r] = Cardinality(A) /\ Records(list', num')[r] = Cardinality(B)
    BY DEF Records, OfRecord
  <2> HIDE DEF A, B
  <2> QED
    BY <1>1, <2>1, <2>2, <2>3, <2>4, Counted
<1> QED
  BY <1>3, <1>4

LEMMA CountedRemoving ==
  ASSUME num \in Nat, NEW a \in Nat, a < num, Removed(a), NEW r \in SRecord
  PROVE  Records(list', num')[r] = Records(list, num)[r] - (IF r = list[a] THEN 1 ELSE 0)
<1> DEFINE n == num-1
           A == OfRecord(list', num', r)  B == OfRecord(list, num, r)
<1>1. /\ n \in Nat /\ a \in 0 .. n /\ num' = n /\ n - 1 = num-2
      /\ \A j \in 0 .. num-2 : list'[j] = IF j < a THEN list[j] ELSE list[j+1]
  BY DEF Removed
<1>2. A \in SUBSET (0 .. n-1) /\ B \in SUBSET (0 .. n)
  BY <1>1 DEF OfRecord
<1>3. MovedFrom(A, a, n, B)
  <2> SUFFICES ASSUME NEW j \in 0 .. n, j # a
               PROVE  j \in B <=> IF j < a THEN j \in A ELSE j-1 \in A
    BY DEF MovedFrom
  <2>1. CASE j < a
    <3>1. j \in 0 .. num-2 /\ list'[j] = list[j]
      BY <1>1, <2>1
    <3> QED
      BY <1>1, <2>1, <3>1 DEF OfRecord
  <2>2. CASE ~(j < a)
    <3>1. j-1 \in 0 .. num-2 /\ ~(j-1 < a) /\ (j-1) + 1 = j
      BY <1>1, <2>2
    <3>2. list'[j-1] = list[j]
      BY <1>1, <3>1
    <3> QED
      BY <1>1, <2>2, <3>1, <3>2 DEF OfRecord
  <2> QED
    BY <2>1, <2>2
<1>4. a \in B <=> r = list[a]
  BY <1>1 DEF OfRecord
<1>5. Records(list', num')[r] = Cardinality(A) /\ Records(list, num)[r] = Cardinality(B)
  BY DEF Records, OfRecord
<1> HIDE DEF n, A, B
<1>6. /\ Cardinality(A) \in Nat
      /\ Cardinality(B) = IF a \in B THEN Cardinality(A) + 1 ELSE Cardinality(A)
  BY <1>1, <1>2, <1>3, Counted
<1> QED
  BY <1>4, <1>5, <1>6

\* A name is there where Search finds a record that is not greater.
LEMMA NameThere ==
  ASSUME Assumption, Sound, NEW x \in SRecord
  PROVE  LET a == Search(x)
             there == Named(list, num, x.name)
         IN  /\ there \in Nat
             /\ there # 0 <=> \E i \in 0 .. num-1 : list[i].name = x.name
             /\ a < num /\ ~Less(x, list[a]) => there # 0 /\ list[a].name = x.name
             /\ ~(a < num /\ ~Less(x, list[a])) => there = 0
<1> DEFINE a == Search(x)  A == OfName(list, num, x.name)
<1>1. /\ num \in Nat /\ x.name \in Int
      /\ \A i \in 0 .. num-1 : list[i] \in SRecord /\ list[i].name \in Int
  BY NamesAreNumbers DEF Types, Sound
<1>2. a \in Nat /\ a <= num /\ Below(x, a) /\ NotBelow(x, a)
  BY SearchFinds DEF Sound
<1> HIDE DEF a
<1>3. IsFiniteSet(A)
  <2>1. IsFiniteSet(0 .. num-1) /\ A \in SUBSET (0 .. num-1)
    BY <1>1, FS_Interval DEF OfName
  <2> QED
    BY <2>1, FS_Subset
<1>4. Cardinality(A) \in Nat /\ (Cardinality(A) = 0 <=> A = {})
  BY <1>3, FS_CardinalityType, FS_EmptySet
<1>5. Named(list, num, x.name) = Cardinality(A)
  BY DEF Named, OfName
<1>6. A # {} <=> \E i \in 0 .. num-1 : list[i].name = x.name
  BY DEF OfName
<1>7. ASSUME a < num, ~Less(x, list[a])
      PROVE  A # {} /\ list[a].name = x.name
  <2>1. a \in 0 .. num-1 /\ a \in a .. num-1
    BY <1>1, <1>2, <1>7
  <2>2. ~Less(list[a], x)
    BY <1>2, <2>1 DEF NotBelow
  <2>3. list[a].name = x.name
    BY <1>1, <1>7, <2>1, <2>2 DEF Less
  <2> QED
    BY <1>6, <2>1, <2>3
<1>8. ASSUME ~(a < num /\ ~Less(x, list[a]))
      PROVE  A = {}
  <2> SUFFICES ASSUME NEW i \in 0 .. num-1, list[i].name = x.name PROVE FALSE
    BY <1>6
  <2>1. ~(i \in 0 .. a-1)
    BY <1>1, <1>2 DEF Below, Less
  <2>2. i \in a .. num-1 /\ a \in 0 .. num-1 /\ a <= i /\ a < num
    BY <1>1, <1>2, <2>1
  <2>3. Less(x, list[a]) /\ ~Less(list[i], list[a])
    BY <1>8, <2>2 DEF Sound, InOrder
  <2> QED
    BY <1>1, <2>2, <2>3 DEF Less
<1> HIDE DEF A
<1> QED
  BY <1>4, <1>5, <1>6, <1>7, <1>8 DEF a

-----------------------------------------------------------------------------
(* The calls.                                                              *)

\* What a call that puts x in leaves.
Adds(x) ==
    LET there == Named(list, num, x.name)
    IN  /\ out' = TRUE
        /\ Named(list', num', x.name) = there + 1
        /\ \A r \in SRecord : r.name # x.name => Records(list', num')[r] = Records(list, num)[r]
        /\ there = 0 \/ (\A i \in 0 .. num-1 : list[i] # x) =>
               \E i \in 0 .. num :
                   /\ list'[i] = x
                   /\ \A j \in 0 .. i-1 : list'[j].name < x.name

LEMMA InsertStep ==
  ASSUME Assumption, Sound, num < MAXSIZE, NEW x \in SRecord, NEW k \in Int, Insert(x, k),
         k \in 0 .. num-1 => x = list[k]
  PROVE  Sound' /\ Adds(x)
<1> DEFINE a == Search(x)
<1>1. PICK y \in SRecord : /\ y.name = x.name /\ Inserted(a, y)
                           /\ k \notin 0 .. num-1 => y = x
  BY InsertInserts
<1>2. a \in Nat /\ a <= num /\ Below(x, a) /\ NotBelow(x, a)
  BY SearchFinds DEF Sound
<1>3. Below(y, a) /\ NotBelow(y, a)
  BY <1>1, <1>2 DEF Below, NotBelow, Less
<1> HIDE DEF a
<1>4. Sound'
  BY <1>1, <1>2, <1>3, StaysSoundInserting
<1>5. num \in Nat
  BY DEF Sound, Types
<1>6. /\ Named(list', num', x.name) = Named(list, num, x.name) + 1
      /\ \A r \in SRecord : r.name # x.name => Records(list', num')[r] = Records(list, num)[r]
  BY <1>1, <1>2, <1>5, CountedInserting
<1>7. ASSUME Named(list, num, x.name) = 0 \/ (\A i \in 0 .. num-1 : list[i] # x)
      PROVE  \E i \in 0 .. num : list'[i] = x /\ \A j \in 0 .. i-1 : list'[j].name < x.name
  <2>1. k \notin 0 .. num-1
    <3>1. k \in 0 .. num-1 => list[k] = x /\ list[k].name = x.name
      OBVIOUS
    <3> QED
      BY <1>7, <3>1, NameThere
  <2>2. a \in 0 .. num /\ list'[a] = x
    BY <1>1, <1>2, <1>5, <2>1 DEF Inserted
  <2>3. ASSUME NEW j \in 0 .. a-1
        PROVE  list'[j].name < x.name
    <3>1. j \in 0 .. num /\ j < a
      BY <1>2, <1>5
    <3> QED
      BY <1>1, <1>2, <3>1 DEF Inserted, Below, Less
  <2> QED
    BY <2>2, <2>3
<1>8. out' = TRUE
  BY DEF Insert
<1> QED
  BY <1>4, <1>6, <1>7, <1>8 DEF Adds

LEMMA PutStep ==
  ASSUME Assumption, Sound, NEW x \in SRecord, NEW k \in Int, Put(x, k) \/ PutUnique(x, k),
         k \in 0 .. num-1 => x = list[k]
  PROVE  Sound' /\ DoesWhatItSays
<1>1. call'[1] \in {"Put", "PutUnique"} /\ call'[2] = x
  BY DEF Put, PutUnique
<1>2. num \in Nat /\ MAXSIZE \in Nat /\ num <= MAXSIZE
  BY DEF Sound, Types
<1>3. Named(list, num, x.name) \in Nat
  BY NameThere
<1>4. CASE num >= MAXSIZE /\ out' = FALSE /\ UNCHANGED <<list, num, failed>>
  <2>1. num = MAXSIZE /\ ~(num < MAXSIZE)
    BY <1>2, <1>4
  <2>2. Sound'
    BY <1>4 DEF Sound, Types, InOrder, Less
  <2>3. out' = (num < MAXSIZE)
    <3>1. (num < MAXSIZE) = FALSE
      BY <2>1
    <3> QED
      BY <1>4, <3>1, Zenon
  <2> QED
    BY <1>1, <1>4, <2>1, <2>2, <2>3 DEF DoesWhatItSays
<1>5. CASE /\ call'[1] = "PutUnique" /\ num < MAXSIZE
           /\ Search(x) < num /\ ~Less(x, list[Search(x)])
           /\ out' = TRUE /\ UNCHANGED <<list, num, failed>>
  <2>1. Named(list, num, x.name) > 0
    BY <1>3, <1>5, NameThere
  <2>2. Sound'
    BY <1>5 DEF Sound, Types, InOrder, Less
  <2>3. out' = (num < MAXSIZE)
    BY <1>5
  <2> QED
    BY <1>1, <1>5, <2>1, <2>2, <2>3 DEF DoesWhatItSays
<1>6. CASE /\ num < MAXSIZE /\ Insert(x, k)
           /\ call'[1] = "Put" \/ ~(Search(x) < num /\ ~Less(x, list[Search(x)]))
  <2>1. Sound' /\ Adds(x)
    BY <1>6, InsertStep
  <2>2. ~(num = MAXSIZE) /\ (call'[1] = "Put" \/ Named(list, num, x.name) = 0)
    BY <1>2, <1>6, NameThere
  <2>3. ~(num = MAXSIZE \/ (call'[1] = "PutUnique" /\ Named(list, num, x.name) > 0))
    BY <1>3, <2>2
  <2> QED
    BY <1>1, <2>1, <2>3 DEF DoesWhatItSays, Adds
<1>7. Put(x, k) => call'[1] = "Put"
  BY DEF Put
<1>8. PutUnique(x, k) => call'[1] = "PutUnique"
  BY DEF PutUnique
<1> QED
  BY <1>2, <1>4, <1>5, <1>6, <1>7, <1>8 DEF Put, PutUnique

LEMMA RemoveStep ==
  ASSUME Assumption, Sound, NEW i \in Nat, Remove(i)
  PROVE  Sound' /\ DoesWhatItSays
<1>1. call' = <<"Remove", i>> /\ num \in Nat
  BY DEF Remove, Sound, Types
<1>2. CASE i >= num
  <2>1. UNCHANGED <<list, num>>
    BY <1>1, <1>2 DEF Remove
  <2>2. Sound'
    BY <2>1 DEF Sound, Types, InOrder, Less
  <2> QED
    BY <1>1, <1>2, <2>1, <2>2 DEF DoesWhatItSays
<1>3. CASE i < num
  <2>1. Removed(i) /\ Sound'
    BY <1>3, RemoveRemoves
  <2>2. \A r \in SRecord : Records(list', num')[r] =
            Records(list, num)[r] - (IF r = list[i] THEN 1 ELSE 0)
    BY <1>1, <1>3, <2>1, CountedRemoving
  <2> QED
    BY <1>1, <1>3, <2>1, <2>2 DEF DoesWhatItSays
<1> QED
  BY <1>1, <1>2, <1>3

LEMMA ExistsStep ==
  ASSUME Assumption, Sound, NEW x \in SRecord, Exists(x)
  PROVE  Sound' /\ DoesWhatItSays
<1> DEFINE a == Search(x)
<1>1. call' = <<"Exists", x>> /\ UNCHANGED <<list, num, failed>>
  BY DEF Exists
<1>2. Sound'
  BY <1>1 DEF Sound, Types, InOrder, Less
<1>3. num \in Nat /\ a \in Nat /\ a <= num /\ Below(x, a)
  BY SearchFinds DEF Sound, Types
<1>4. CASE a < num /\ ~Less(x, list[a])
  <2>1. out' = a
    <3>1. ~(a >= num)
      BY <1>3, <1>4
    <3> QED
      BY <1>4, <3>1, Zenon DEF Exists
  <2>2. Named(list, num, x.name) # 0 /\ list[a].name = x.name
    BY <1>4, NameThere
  <2>3. \A j \in 0 .. a-1 : list[j].name < x.name
    BY <1>3 DEF Below, Less
  <2> QED
    BY <1>1, <1>2, <2>1, <2>2, <2>3 DEF DoesWhatItSays
<1>5. CASE ~(a < num /\ ~Less(x, list[a]))
  <2>1. out' = FALSE
    BY <1>3, <1>5 DEF Exists
  <2>2. Named(list, num, x.name) = 0
    BY <1>5, NameThere
  <2> QED
    BY <1>1, <1>2, <2>1, <2>2 DEF DoesWhatItSays
<1> QED
  BY <1>4, <1>5

LEMMA AtStep ==
  ASSUME Sound, NEW i, At(i)
  PROVE  Sound' /\ DoesWhatItSays
<1>1. call' = <<"[]", i>> /\ UNCHANGED <<list, num>>
  BY DEF At
<1>2. Sound'
  BY <1>1 DEF Sound, Types, InOrder, Less
<1> QED
  BY <1>1, <1>2 DEF DoesWhatItSays

\* Every call keeps the order and does what it says.
LEMMA NextStep ==
  ASSUME Assumption, Sound, Next
  PROVE  Sound' /\ DoesWhatItSays
<1>1. num \in Nat /\ MAXSIZE \in Nat /\ \A i \in 0 .. num-1 : list[i] \in SRecord
  BY DEF Sound, Types
<1>2. ASSUME NEW x \in SRecord, Put(x, -1) \/ PutUnique(x, -1)
      PROVE  Sound' /\ DoesWhatItSays
  <2>1. -1 \in Int /\ -1 \notin 0 .. num-1
    BY <1>1
  <2> QED
    BY <1>2, <2>1, PutStep
<1>3. ASSUME NEW k \in 0 .. MAXSIZE-1, k < num, Put(list[k], k) \/ PutUnique(list[k], k)
      PROVE  Sound' /\ DoesWhatItSays
  <2>1. k \in Int /\ list[k] \in SRecord
    BY <1>1, <1>3
  <2> QED
    BY <1>3, <2>1, PutStep
<1>4. ASSUME NEW i \in 0 .. MAXSIZE, Remove(i) \/ At(i)
      PROVE  Sound' /\ DoesWhatItSays
  BY <1>4, RemoveStep, AtStep
<1> QED
  BY <1>2, <1>3, <1>4, ExistsStep DEF Next

LEMMA Started ==
  ASSUME Assumption, Init
  PROVE  Sound
BY DEF Assumption, Init, New, Sound, Types, InOrder

LEMMA Stuttering ==
  ASSUME Sound, UNCHANGED <<list, num>>
  PROVE  Sound'
BY DEF Sound, Types, InOrder, Less

LEMMA SoundTyped ==
  ASSUME Sound
  PROVE  TypeOK
BY DEF Sound, Types, TypeOK

=============================================================================
