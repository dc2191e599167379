----------------------------- MODULE Noise_proofs ---------------------------
(***************************************************************************)
(* The sets that FastNoiseSIMD fills hold the noise of their cells, for    *)
(* every block, start and instruction set; in both libraries what is       *)
(* computed from settings agrees with those of now; both, by every         *)
(* instruction set, compute alike, whatever the numbers; and where cells of*)
(* the lattice meet, noise is the same from all of them.                   *)
(***************************************************************************)
EXTENDS Noise, FiniteSetTheorems, SequenceTheorems, WellFoundedInduction, TLAPS

-----------------------------------------------------------------------------
(* Numbers and functions over them.                                        *)

LEMMA LeastNumber ==
  ASSUME NEW T, T \subseteq Nat, T # {}
  PROVE  \E n \in T : \A k \in T : n <= k
<1> DEFINE R == OpToRel(<, Nat)
<1>1. \A n, k \in Nat : n < k => <<n, k>> \in R
  BY DEF OpToRel
<1>2. IsWellFoundedOn(R, Nat)
  BY NatLessThanWellFounded
<1> HIDE DEF R
<1>3. PICK n \in T : \A k \in T : ~(<<k, n>> \in R)
  BY <1>2, WFMin
<1>4. \A k \in T : ~(k < n)
  BY <1>1, <1>3
<1> QED
  BY <1>4

LEMMA AllNumbers ==
  ASSUME NEW T, 0 \in T, \A n \in Nat : n \in T => n+1 \in T
  PROVE  \A n \in Nat : n \in T
<1> SUFFICES ASSUME NEW k \in Nat, k \notin T PROVE FALSE
  OBVIOUS
<1> DEFINE M == Nat \ T
<1>1. M \subseteq Nat /\ M # {}
  OBVIOUS
<1> HIDE DEF M
<1>2. PICK n \in M : \A i \in M : n <= i
  BY <1>1, LeastNumber
<1> USE DEF M
<1>3. n - 1 \in Nat /\ ~(n <= n - 1)
  BY <1>2
<1>4. n - 1 \in T /\ n = (n-1) + 1
  BY <1>2, <1>3
<1> QED
  BY <1>2, <1>3, <1>4

\* A function over the numbers, by its value at 0 and the step to the next.
Recursive(f, a, step) == f = [n \in Nat |-> IF n = 0 THEN a ELSE step[<<n, f[n-1]>>]]
RecursiveTo(f, a, step, n) ==
    f[0] = a /\ \A k \in Nat : 0 < k /\ k <= n => f[k] = step[<<k, f[k-1]>>]

LEMMA RecursiveSame ==
  ASSUME NEW f, NEW g, NEW a, NEW step, NEW n \in Nat,
         RecursiveTo(f, a, step, n), RecursiveTo(g, a, step, n)
  PROVE  \A k \in Nat : k <= n => f[k] = g[k]
<1> DEFINE T == {k \in Nat : k <= n => f[k] = g[k]}
<1>1. 0 \in T
  BY DEF RecursiveTo
<1>2. ASSUME NEW k \in Nat, k \in T PROVE k+1 \in T
  <2>1. CASE k+1 <= n
    <3>1. k+1 \in Nat /\ 0 < k+1 /\ (k+1)-1 = k /\ k <= n
      BY <2>1
    <3>2. f[k+1] = step[<<k+1, f[k]>>] /\ g[k+1] = step[<<k+1, g[k]>>]
      BY <2>1, <3>1 DEF RecursiveTo
    <3> QED
      BY <1>2, <3>1, <3>2
  <2> QED
    BY <2>1
<1> HIDE DEF T
<1>3. \A k \in Nat : k \in T
  BY <1>1, <1>2, AllNumbers
<1> QED
  BY <1>3 DEF T

LEMMA RecursiveDefined ==
  ASSUME NEW a, NEW step
  PROVE  \E f : Recursive(f, a, step)
<1> DEFINE T == {n \in Nat : \E f : RecursiveTo(f, a, step, n)}
<1>1. 0 \in T
  <2> DEFINE f == [k \in Nat |-> a]
  <2>1. RecursiveTo(f, a, step, 0)
    BY DEF RecursiveTo
  <2> QED
    BY <2>1
<1>2. ASSUME NEW n \in Nat, n \in T PROVE n+1 \in T
  <2>1. PICK f : RecursiveTo(f, a, step, n)
    BY <1>2
  <2> DEFINE g == [k \in Nat |-> IF k = n+1 THEN step[<<k, f[n]>>] ELSE f[k]]
  <2>2. g[0] = a
    BY <2>1 DEF RecursiveTo
  <2>3. ASSUME NEW k \in Nat, 0 < k, k <= n+1
        PROVE  g[k] = step[<<k, g[k-1]>>]
    <3>1. k-1 \in Nat /\ k-1 # n+1 /\ g[k-1] = f[k-1]
      BY <2>3
    <3>2. CASE k = n+1
      BY <3>1, <3>2
    <3>3. CASE k # n+1
      <4>1. k <= n
        BY <2>3, <3>3
      <4>2. f[k] = step[<<k, f[k-1]>>]
        BY <2>1, <2>3, <4>1 DEF RecursiveTo
      <4> QED
        BY <3>1, <3>3, <4>2
    <3> QED
      BY <3>2, <3>3
  <2> HIDE DEF g
  <2>4. RecursiveTo(g, a, step, n+1)
    BY <2>2, <2>3 DEF RecursiveTo
  <2> QED
    BY <2>4
<1> HIDE DEF T
<1>3. \A n \in Nat : n \in T
  BY <1>1, <1>2, AllNumbers
<1> DEFINE F(n) == CHOOSE f : RecursiveTo(f, a, step, n)
           h == [n \in Nat |-> F(n)[n]]
<1>4. \A n \in Nat : RecursiveTo(F(n), a, step, n)
  BY <1>3 DEF T
<1> HIDE DEF F
<1>5. ASSUME NEW n \in Nat
      PROVE  h[n] = IF n = 0 THEN a ELSE step[<<n, h[n-1]>>]
  <2>1. CASE n = 0
    BY <1>4, <2>1 DEF RecursiveTo
  <2>2. CASE n # 0
    <3>1. n-1 \in Nat /\ 0 < n /\ n <= n
      BY <2>2
    <3>2. F(n)[n] = step[<<n, F(n)[n-1]>>]
      BY <1>4, <3>1 DEF RecursiveTo
    <3>3. RecursiveTo(F(n), a, step, n-1)
      BY <1>4, <3>1 DEF RecursiveTo
    <3>4. F(n)[n-1] = F(n-1)[n-1]
      <4>1. RecursiveTo(F(n-1), a, step, n-1) /\ n-1 <= n-1
        BY <1>4, <3>1
      <4> QED
        BY <3>1, <3>3, <4>1, RecursiveSame
    <3> QED
      BY <2>2, <3>1, <3>2, <3>4
  <2> QED
    BY <2>1, <2>2
<1>6. Recursive(h, a, step)
  BY <1>5 DEF Recursive
<1> QED
  BY <1>6

\* What a step keeps, all values have.
LEMMA RecursiveIn ==
  ASSUME NEW f, NEW a, NEW step, Recursive(f, a, step), NEW S, a \in S,
         \A n \in Nat, s \in S : step[<<n+1, s>>] \in S
  PROVE  \A n \in Nat : f[n] \in S
<1> DEFINE T == {n \in Nat : f[n] \in S}
<1>1. 0 \in T
  BY DEF Recursive
<1>2. ASSUME NEW n \in Nat, n \in T PROVE n+1 \in T
  <2>1. f[n+1] = step[<<n+1, f[n]>>]
    BY DEF Recursive
  <2> QED
    BY <1>2, <2>1
<1> HIDE DEF T
<1>3. \A n \in Nat : n \in T
  BY <1>1, <1>2, AllNumbers
<1> QED
  BY <1>3 DEF T

LEMMA DivMod ==
  ASSUME NEW a \in Int, NEW b \in Nat, b > 0
  PROVE  /\ a \div b \in Int /\ a % b \in Nat /\ a % b < b
         /\ a = b * (a \div b) + (a % b)
OBVIOUS

LEMMA DivUnique ==
  ASSUME NEW b \in Nat, b > 0, NEW q \in Int, NEW r \in Nat, r < b,
         NEW a \in Int, a = b * q + r
  PROVE  a \div b = q /\ a % b = r
<1> DEFINE p == a \div b
           s == a % b
<1>1. p \in Int /\ s \in Nat /\ s < b /\ a = b * p + s
  BY DivMod
<1> HIDE DEF p, s
<1>2. b * (q - p) = s - r
  BY <1>1
<1>3. ~(q > p)
  <2> SUFFICES ASSUME q > p PROVE FALSE
    OBVIOUS
  <2>1. q - p >= 1
    BY <1>1
  <2>2. b * (q - p) >= b
    BY <1>1, <2>1
  <2> QED
    BY <1>1, <1>2, <2>2
<1>4. ~(p > q)
  <2> SUFFICES ASSUME p > q PROVE FALSE
    OBVIOUS
  <2>1. p - q >= 1 /\ b * (p - q) = r - s
    BY <1>1
  <2>2. b * (p - q) >= b
    BY <1>1, <2>1
  <2> QED
    BY <1>1, <2>1, <2>2
<1>5. p = q
  BY <1>1, <1>3, <1>4
<1>6. s = r
  BY <1>1, <1>5
<1> QED
  BY <1>5, <1>6 DEF p, s

LEMMA ProductInt ==
  ASSUME NEW a \in Int, NEW b \in Int
  PROVE  a * b \in Int
OBVIOUS

LEMMA ProductPositive ==
  ASSUME NEW a \in Nat, NEW b \in Nat, a > 0, b > 0
  PROVE  a * b \in Nat /\ a * b > 0 /\ a * b >= a /\ a * b >= b
OBVIOUS

\* The smallest multiple of a unit that is not less.
LEMMA Rounding ==
  ASSUME NEW n \in Nat, NEW unit \in Nat, unit > 0
  PROVE  LET k == (n + unit - 1) \div unit
         IN  /\ Simd!RoundedUp(n, unit) = k * unit /\ k \in Nat
             /\ n <= k * unit /\ k * unit < n + unit
             /\ Simd!RoundedUp(n, unit) \div unit = k
<1> DEFINE k == (n + unit - 1) \div unit
           r == (n + unit - 1) % unit
<1>1. k \in Int /\ r \in Nat /\ r < unit /\ n + unit - 1 = unit * k + r
  BY DivMod
<1>2. Simd!RoundedUp(n, unit) = k * unit
  BY DEF Simd!RoundedUp
<1> HIDE DEF k, r
<1>3. k >= 0
  <2> SUFFICES ASSUME k <= -1 PROVE FALSE
    BY <1>1
  <2>1. unit * k <= -unit
    BY <1>1
  <2> QED
    BY <1>1, <2>1
<1>4. unit * k = k * unit /\ k * unit \in Int
  BY <1>1
<1>5. (k * unit) \div unit = k
  BY <1>1, <1>4, DivUnique
<1> QED
  BY <1>1, <1>2, <1>3, <1>4, <1>5 DEF k

-----------------------------------------------------------------------------
Triple(c) == c[1] \in Int /\ c[2] \in Int /\ c[3] \in Int
Block(b) == b[1] \in Nat /\ b[2] \in Nat /\ b[3] \in Nat /\ b[1] > 0 /\ b[2] > 0 /\ b[3] > 0

\* A place's number in a block, counted from its first cell, row by row.
Linear(c, start, b) == ((c[1] - start[1]) * b[2] + (c[2] - start[2])) * b[3] + (c[3] - start[3])

Same(c, d) == c[1] = d[1] /\ c[2] = d[2] /\ c[3] = d[3]

\* The only triple within the rows and the planes that has the number.
LEMMA CoordsUnique ==
  ASSUME NEW b, Block(b), NEW i \in Int, NEW x \in Int, NEW y \in Nat, NEW z \in Nat,
         y < b[2], z < b[3], i = (x * b[2] + y) * b[3] + z
  PROVE  Same(Simd!Coords(i, b), <<x, y, z>>)
<1> DEFINE b2 == b[2]
           b3 == b[3]
           p == b2 * b3
<1>1. b2 \in Nat /\ b2 > 0 /\ b3 \in Nat /\ b3 > 0 /\ y < b2 /\ z < b3
  BY DEF Block
<1>2. Simd!Coords(i, b) = <<i \div p, (i \div b3) % b2, i % b3>>
  BY DEF Simd!Coords
<1>3. i = (x * b2 + y) * b3 + z
  OBVIOUS
<1> HIDE DEF b2, b3
<1>4. p \in Nat /\ p > 0
  BY <1>1, ProductPositive
<1>5. x * b2 + y \in Int /\ i = b3 * (x * b2 + y) + z
  BY <1>1, <1>3
<1>6. i \div b3 = x * b2 + y /\ i % b3 = z
  <2> DEFINE w == x * b2 + y
  <2>1. w \in Int /\ i = b3 * w + z
    BY <1>5
  <2> HIDE DEF w
  <2>2. i \div b3 = w /\ i % b3 = z
    BY <1>1, <2>1, DivUnique
  <2> QED
    BY <2>2 DEF w
<1>7. (x * b2 + y) % b2 = y
  <2>1. x * b2 + y = b2 * x + y
    BY <1>1
  <2> QED
    BY <1>1, <1>5, <2>1, DivUnique
<1>8. i \div p = x
  <2>1. y * b3 \in Nat /\ y * b3 <= (b2 - 1) * b3
    BY <1>1
  <2>2. (b2 - 1) * b3 = p - b3
    BY <1>1
  <2>3. y * b3 + z \in Nat /\ y * b3 + z < p
    BY <1>1, <1>4, <2>1, <2>2
  <2>4. i = p * x + (y * b3 + z)
    BY <1>1, <1>3
  <2> QED
    BY <1>4, <2>3, <2>4, DivUnique
<1> HIDE DEF p
<1> QED
  BY <1>2, <1>6, <1>7, <1>8 DEF Same

LEMMA CoordsTyped ==
  ASSUME NEW b, Block(b), NEW i \in Nat
  PROVE  LET c == Simd!Coords(i, b)
         IN  /\ c[1] \in Nat /\ c[2] \in Nat /\ c[3] \in Nat /\ c[2] < b[2] /\ c[3] < b[3]
             /\ i = (c[1] * b[2] + c[2]) * b[3] + c[3]
             /\ i < Simd!Cells(b) => c[1] < b[1]
<1> DEFINE b1 == b[1]
           b2 == b[2]
           b3 == b[3]
           z == i % b3
           r == i \div b3
           y == r % b2
           x == r \div b2
<1>1. b2 \in Nat /\ b2 > 0 /\ b3 \in Nat /\ b3 > 0 /\ b1 \in Nat /\ b1 > 0
  BY DEF Block
<1>2. Simd!Cells(b) = b1 * b2 * b3
  BY DEF Simd!Cells
<1> HIDE DEF b1, b2, b3
<1>3. r \in Int /\ z \in Nat /\ z < b3 /\ i = b3 * r + z
  BY <1>1, DivMod
<1> HIDE DEF r, z
<1>4. r \in Nat
  <2> SUFFICES ASSUME r <= -1 PROVE FALSE
    BY <1>3
  <2>1. b3 * r <= -b3
    BY <1>1, <1>3
  <2> QED
    BY <1>1, <1>3, <2>1
<1>5. x \in Int /\ y \in Nat /\ y < b2 /\ r = b2 * x + y
  BY <1>1, <1>4, DivMod
<1> HIDE DEF x, y
<1>6. x \in Nat
  <2> SUFFICES ASSUME x <= -1 PROVE FALSE
    BY <1>5
  <2>1. b2 * x <= -b2
    BY <1>1, <1>5
  <2> QED
    BY <1>1, <1>4, <1>5, <2>1
<1>7. i = (x * b2 + y) * b3 + z
  <2>1. r = x * b2 + y /\ b3 * r = r * b3
    BY <1>1, <1>4, <1>5, <1>6
  <2> QED
    BY <1>3, <2>1
<1>8. Same(Simd!Coords(i, b), <<x, y, z>>)
  <2>1. y < b[2] /\ z < b[3] /\ i = (x * b[2] + y) * b[3] + z
    BY <1>3, <1>5, <1>7 DEF b2, b3
  <2> QED
    BY <1>3, <1>5, <1>6, <2>1, CoordsUnique
<1>9. i < b1 * b2 * b3 => x < b1
  <2> SUFFICES ASSUME x >= b1 PROVE i >= b1 * b2 * b3
    BY <1>1, <1>6
  <2>1. x * b2 >= b1 * b2 /\ x * b2 \in Nat /\ b1 * b2 \in Nat
    BY <1>1, <1>6
  <2>2. x * b2 + y >= b1 * b2
    BY <1>5, <2>1
  <2>3. (x * b2 + y) * b3 >= (b1 * b2) * b3
    BY <1>1, <1>5, <2>1, <2>2
  <2> QED
    BY <1>1, <1>3, <1>5, <1>7, <2>1, <2>3
<1> QED
  BY <1>2, <1>3, <1>5, <1>6, <1>7, <1>8, <1>9 DEF Same, b1, b2, b3

-----------------------------------------------------------------------------
(* The lanes of a vector.                                                  *)

Blocks3 == [1 .. 3 -> Nat \ {0}]
Triples3 == [1 .. 3 -> Int]

\* Past its row's end at the most, with the number n.
InLane(c, n, start, b) ==
    /\ c \in Triples3
    /\ start[2] <= c[2] /\ c[2] <= start[2] + b[2] - 1 /\ start[3] <= c[3]
    /\ Linear(c, start, b) = n

LastOf(start, b) == start[3] + b[3] - 1

LEMMA BlocksAre ==
  ASSUME NEW b \in Blocks3
  PROVE  Block(b)
BY DEF Blocks3, Block

LEMMA ResetOnceTyped ==
  ASSUME NEW b \in Blocks3, NEW start \in Triples3, NEW c \in Triples3
  PROVE  Simd!ResetOnce(c, start, b) \in Triples3
<1>1. \A x, y, z \in Int : <<x, y, z>> \in Triples3
  BY DEF Triples3
<1>2. /\ b[2] \in Int /\ b[3] \in Int /\ start[2] \in Int /\ start[3] \in Int
      /\ c[1] \in Int /\ c[2] \in Int /\ c[3] \in Int
  BY DEF Blocks3, Triples3
<1> QED
  BY <1>1, <1>2 DEF Simd!ResetOnce

\* A round goes to the next row, and leaves the number as it is.
LEMMA ResetOnceKeeps ==
  ASSUME NEW b \in Blocks3, NEW start \in Triples3, NEW c, NEW n, InLane(c, n, start, b)
  PROVE  LET d == Simd!ResetOnce(c, start, b)
         IN  /\ InLane(d, n, start, b)
             /\ d[3] = IF c[3] > LastOf(start, b) THEN c[3] - b[3] ELSE c[3]
<1> DEFINE d == Simd!ResetOnce(c, start, b)
           b2 == b[2]
           b3 == b[3]
           s1 == start[1]
           s2 == start[2]
           s3 == start[3]
           x == c[1]
           y == c[2]
           z == c[3]
<1>1. /\ b2 \in Nat /\ b2 > 0 /\ b3 \in Nat /\ b3 > 0 /\ s1 \in Int /\ s2 \in Int /\ s3 \in Int
      /\ x \in Int /\ y \in Int /\ z \in Int
      /\ s2 <= y /\ y <= s2 + b2 - 1 /\ s3 <= z
      /\ ((x - s1) * b2 + (y - s2)) * b3 + (z - s3) = n
  BY DEF InLane, Blocks3, Triples3, Linear
<1>2. d \in Triples3
  BY ResetOnceTyped DEF InLane
<1>3. LET zReset == z > s3 + b3 - 1
          w == IF zReset THEN y + 1 ELSE y
          yReset == w > s2 + b2 - 1
      IN  d = <<IF yReset THEN x + 1 ELSE x, IF yReset THEN w - b2 ELSE w,
                IF zReset THEN z - b3 ELSE z>>
  BY DEF Simd!ResetOnce
<1>4. LastOf(start, b) = s3 + b3 - 1
  BY DEF LastOf
<1>5. Linear(d, start, b) = ((d[1] - s1) * b2 + (d[2] - s2)) * b3 + (d[3] - s3)
  BY DEF Linear
<1> HIDE DEF d, b2, b3, s1, s2, s3, x, y, z
<1>6. CASE ~(z > s3 + b3 - 1)
  <2>1. d[1] = x /\ d[2] = y /\ d[3] = z
    BY <1>1, <1>3, <1>6
  <2>2. Linear(d, start, b) = n
    BY <1>1, <1>5, <2>1
  <2> QED
    BY <1>1, <1>2, <1>4, <1>6, <2>1, <2>2 DEF InLane, d, b2, s2, s3, z
<1>7. CASE z > s3 + b3 - 1 /\ ~(y + 1 > s2 + b2 - 1)
  <2>1. d[1] = x /\ d[2] = y + 1 /\ d[3] = z - b3
    BY <1>1, <1>3, <1>7
  <2>2. ((x - s1) * b2 + (y + 1 - s2)) * b3 + (z - b3 - s3)
            = ((x - s1) * b2 + (y - s2)) * b3 + (z - s3)
    BY <1>1
  <2>3. Linear(d, start, b) = n
    BY <1>1, <1>5, <2>1, <2>2
  <2> QED
    BY <1>1, <1>2, <1>4, <1>7, <2>1, <2>3 DEF InLane, d, b2, b3, s2, s3, z
<1>8. CASE z > s3 + b3 - 1 /\ y + 1 > s2 + b2 - 1
  <2>1. d[1] = x + 1 /\ d[2] = y + 1 - b2 /\ d[3] = z - b3
    BY <1>1, <1>3, <1>8
  <2>2. ((x + 1 - s1) * b2 + (y + 1 - b2 - s2)) * b3 + (z - b3 - s3)
            = ((x - s1) * b2 + (y - s2)) * b3 + (z - s3)
    <3>1. (x + 1 - s1) * b2 + (y + 1 - b2 - s2) = ((x - s1) * b2 + (y - s2)) + 1
      BY <1>1
    <3> DEFINE w == (x - s1) * b2 + (y - s2)
    <3>2. w \in Int
      BY <1>1
    <3> HIDE DEF w
    <3>3. (w + 1) * b3 + (z - b3 - s3) = w * b3 + (z - s3)
      BY <1>1, <3>2
    <3> QED
      BY <3>1, <3>3 DEF w
  <2>3. Linear(d, start, b) = n
    BY <1>1, <1>5, <2>1, <2>2
  <2> QED
    BY <1>1, <1>2, <1>4, <1>8, <2>1, <2>3 DEF InLane, d, b2, b3, s2, s3, z
<1> QED
  BY <1>6, <1>7, <1>8

\* Within its row, a lane is at the cell of its number.
LEMMA SettledAt ==
  ASSUME NEW b \in Blocks3, NEW start \in Triples3, NEW c, NEW n \in Int, InLane(c, n, start, b),
         c[3] <= LastOf(start, b)
  PROVE  Same(c, Simd!At(n, start, b))
<1> DEFINE x == c[1] - start[1]
           y == c[2] - start[2]
           z == c[3] - start[3]
           e == Simd!Coords(n, b)
<1>1. x \in Int /\ y \in Nat /\ y < b[2] /\ z \in Nat /\ z < b[3]
  BY DEF InLane, Blocks3, Triples3, LastOf
<1>2. n = (x * b[2] + y) * b[3] + z
  BY DEF InLane, Linear
<1> HIDE DEF x, y, z
<1>3. Same(e, <<x, y, z>>)
  BY <1>1, <1>2, BlocksAre, CoordsUnique
<1>4. e[1] = x /\ e[2] = y /\ e[3] = z
  BY <1>3 DEF Same
<1>5. c[1] = start[1] + x /\ c[2] = start[2] + y /\ c[3] = start[3] + z
  BY DEF InLane, Triples3, x, y, z
<1>6. LET d == Simd!At(n, start, b)
      IN  d[1] = start[1] + e[1] /\ d[2] = start[2] + e[2] /\ d[3] = start[3] + e[3]
  BY DEF Simd!At
<1> QED
  BY <1>4, <1>5, <1>6 DEF Same

\* The rounds of AxisReset, as a function.
Resets(f, c, start, b) ==
    f = [n \in Nat |-> IF n = 0 THEN c ELSE Simd!ResetOnce(f[n-1], start, b)]

LEMMA ResetsDefined ==
  ASSUME NEW b \in Blocks3, NEW start \in Triples3, NEW c \in Triples3
  PROVE  \E f : Resets(f, c, start, b)
<1> DEFINE S == Triples3
           step == [p \in Nat \X S |-> Simd!ResetOnce(p[2], start, b)]
<1>1. PICK f : Recursive(f, c, step)
  BY RecursiveDefined
<1>2. \A n \in Nat, s \in S : step[<<n, s>>] = Simd!ResetOnce(s, start, b)
  OBVIOUS
<1>3. \A n \in Nat, s \in S : step[<<n+1, s>>] \in S
  <2> SUFFICES ASSUME NEW n \in Nat, NEW s \in S PROVE step[<<n+1, s>>] \in S
    OBVIOUS
  <2>1. n+1 \in Nat
    OBVIOUS
  <2> QED
    BY <1>2, <2>1, ResetOnceTyped
<1> HIDE DEF step
<1>4. \A n \in Nat : f[n] \in S
  BY <1>1, <1>3, RecursiveIn
<1>5. ASSUME NEW n \in Nat
      PROVE  (IF n = 0 THEN c ELSE step[<<n, f[n-1]>>])
                 = (IF n = 0 THEN c ELSE Simd!ResetOnce(f[n-1], start, b))
  <2>1. n # 0 => n-1 \in Nat
    OBVIOUS
  <2> QED
    BY <1>2, <1>4, <2>1
<1>6. Resets(f, c, start, b)
  BY <1>1, <1>5 DEF Recursive, Resets
<1> QED
  BY <1>6

LEMMA ResetsTyped ==
  ASSUME NEW b \in Blocks3, NEW start \in Triples3, NEW c \in Triples3, NEW f, Resets(f, c, start, b)
  PROVE  \A k \in Nat : f[k] \in Triples3
<1> DEFINE T == {k \in Nat : f[k] \in Triples3}
<1>1. 0 \in T
  BY DEF Resets
<1>2. ASSUME NEW k \in Nat, k \in T PROVE k+1 \in T
  <2>1. f[k+1] = Simd!ResetOnce(f[k], start, b)
    BY DEF Resets
  <2> QED
    BY <1>2, <2>1, ResetOnceTyped
<1> HIDE DEF T
<1>3. \A k \in Nat : k \in T
  BY <1>1, <1>2, AllNumbers
<1> QED
  BY <1>3 DEF T

\* A vector's size, by the class of the object.
Size == Simd!VectorSize(m.class)
RoundsOf(b, rows) ==
    LET rest == Size - b[3] * rows
    IN  IF rest <= 0 THEN 0 ELSE Simd!RoundedUp(rest, b[3]) \div b[3]

LEMMA RoundsSuffice ==
  ASSUME NEW b \in Blocks3, NEW rows \in Nat, Size \in Nat
  PROVE  /\ RoundsOf(b, rows) \in Nat
         /\ Size - b[3] * rows <= RoundsOf(b, rows) * b[3]
<1> DEFINE b3 == b[3]
           rest == Size - b3 * rows
           R == RoundsOf(b, rows)
<1>1. b3 \in Nat /\ b3 > 0
  BY DEF Blocks3
<1>2. R = IF rest <= 0 THEN 0 ELSE Simd!RoundedUp(rest, b3) \div b3
  BY DEF RoundsOf
<1> HIDE DEF b3, R
<1>3. rest \in Int
  BY <1>1
<1> HIDE DEF rest
<1>4. CASE rest <= 0
  <2>1. R = 0 /\ R * b3 = 0
    BY <1>1, <1>2, <1>4
  <2> QED
    BY <1>4, <2>1 DEF R, rest, b3
<1>5. CASE rest > 0
  <2>1. rest \in Nat
    BY <1>3, <1>5
  <2> DEFINE k == (rest + b3 - 1) \div b3
  <2>2. k \in Nat /\ rest <= k * b3 /\ Simd!RoundedUp(rest, b3) \div b3 = k
    BY <1>1, <2>1, Rounding
  <2> HIDE DEF k
  <2>3. R \in Nat /\ rest <= R * b3
    BY <1>2, <1>5, <2>1, <2>2
  <2> QED
    BY <2>3 DEF R, rest, b3
<1> QED
  BY <1>3, <1>4, <1>5

LEMMA AxisResetIs ==
  ASSUME NEW b \in Blocks3, NEW start \in Triples3, NEW c \in Triples3, NEW rows
  PROVE  \E f : Resets(f, c, start, b) /\ Simd!AxisReset(c, start, b, rows) = f[RoundsOf(b, rows)]
<1> DEFINE g == CHOOSE f : Resets(f, c, start, b)
<1>1. Resets(g, c, start, b)
  BY ResetsDefined
<1>2. Simd!AxisReset(c, start, b, rows) = g[RoundsOf(b, rows)]
  BY DEF Simd!AxisReset, Resets, RoundsOf, Size
<1> QED
  BY <1>1, <1>2

LEMMA AxisResetTyped ==
  ASSUME NEW b \in Blocks3, NEW start \in Triples3, NEW c \in Triples3, NEW rows \in Nat, Size \in Nat
  PROVE  Simd!AxisReset(c, start, b, rows) \in Triples3
<1>1. PICK f : Resets(f, c, start, b) /\ Simd!AxisReset(c, start, b, rows) = f[RoundsOf(b, rows)]
  BY AxisResetIs
<1>2. RoundsOf(b, rows) \in Nat
  BY RoundsSuffice
<1>3. \A k \in Nat : f[k] \in Triples3
  BY <1>1, ResetsTyped
<1> QED
  BY <1>1, <1>2, <1>3

\* The rounds are enough: after them a lane is at the cell of its number.
LEMMA AxisResetKeeps ==
  ASSUME NEW b \in Blocks3, NEW start \in Triples3, NEW c, NEW n, InLane(c, n, start, b),
         NEW rows \in Nat, Size \in Nat,
         c[3] <= LastOf(start, b) \/ c[3] <= LastOf(start, b) + (Size - b[3] * rows)
  PROVE  LET d == Simd!AxisReset(c, start, b, rows)
         IN  InLane(d, n, start, b) /\ d[3] <= LastOf(start, b)
<1> DEFINE last == LastOf(start, b)
           b3 == b[3]
           z == c[3]
           R == RoundsOf(b, rows)
<1>1. c \in Triples3
  BY DEF InLane
<1>2. PICK f : Resets(f, c, start, b) /\ Simd!AxisReset(c, start, b, rows) = f[R]
  BY <1>1, AxisResetIs
<1>3. last \in Int /\ b3 \in Nat /\ b3 > 0 /\ z \in Int
  BY <1>1 DEF Triples3, Blocks3, LastOf
<1>4. R \in Nat /\ Size - b3 * rows <= R * b3
  BY RoundsSuffice
<1>5. z <= last \/ z <= last + (Size - b3 * rows)
  OBVIOUS
<1> HIDE DEF last, b3, z, R
<1> DEFINE P(k) == InLane(f[k], n, start, b) /\ (f[k][3] <= last \/ f[k][3] = z - k * b3)
           T == {k \in Nat : P(k)}
<1>6. 0 \in T
  <2>1. f[0] = c
    BY <1>2 DEF Resets
  <2>2. 0 * b3 = 0 /\ f[0][3] = z - 0 * b3
    BY <1>3, <2>1 DEF z
  <2> QED
    BY <2>1, <2>2
<1>7. ASSUME NEW k \in Nat, k \in T PROVE k+1 \in T
  <2>1. f[k+1] = Simd!ResetOnce(f[k], start, b)
    BY <1>2 DEF Resets
  <2>2. InLane(f[k], n, start, b)
    BY <1>7
  <2>3. /\ InLane(f[k+1], n, start, b)
        /\ f[k+1][3] = IF f[k][3] > last THEN f[k][3] - b3 ELSE f[k][3]
    BY <2>1, <2>2, ResetOnceKeeps DEF last, b3
  <2>4. f[k][3] \in Int
    BY <2>2 DEF InLane, Triples3
  <2>5. f[k][3] <= last \/ f[k][3] = z - k * b3
    BY <1>7
  <2>6. (k+1) * b3 = k * b3 + b3 /\ k * b3 \in Int
    BY <1>3
  <2>7. f[k+1][3] <= last \/ f[k+1][3] = z - (k+1) * b3
    BY <1>3, <2>3, <2>4, <2>5, <2>6
  <2> QED
    BY <2>3, <2>7
<1> HIDE DEF T
<1>8. \A k \in Nat : k \in T
  BY <1>6, <1>7, AllNumbers
<1>9. P(R)
  BY <1>4, <1>8 DEF T
<1>10. f[R][3] <= last
  <2>1. f[R][3] \in Int
    BY <1>9 DEF InLane, Triples3
  <2>2. R * b3 \in Nat /\ b3 * rows \in Int
    BY <1>3, <1>4
  <2>3. z - R * b3 <= last
    BY <1>3, <1>4, <1>5, <2>2
  <2> QED
    BY <1>9, <2>1, <2>3
<1> QED
  BY <1>2, <1>9, <1>10 DEF last

\* The cells of a lane, as a function.
FirstOf(j, start) == <<start[1], start[2], start[3] + j>>
Ahead(c) == [c EXCEPT ![3] = @ + Size]
Lanes(f, j, start, b) ==
    f = [k \in Nat |-> IF k = 0 THEN Simd!AxisReset(FirstOf(j, start), start, b, 1)
                                ELSE Simd!AxisReset(Ahead(f[k-1]), start, b, 0)]

LEMMA AheadTyped ==
  ASSUME NEW c \in Triples3, Size \in Nat
  PROVE  Ahead(c) \in Triples3 /\ Ahead(c)[3] = c[3] + Size /\ Ahead(c)[1] = c[1] /\ Ahead(c)[2] = c[2]
BY DEF Ahead, Triples3

LEMMA LanesDefined ==
  ASSUME NEW b \in Blocks3, NEW start \in Triples3, NEW j \in Nat, Size \in Nat
  PROVE  \E f : Lanes(f, j, start, b)
<1> DEFINE S == Triples3
           first == Simd!AxisReset(FirstOf(j, start), start, b, 1)
           step == [p \in Nat \X S |-> Simd!AxisReset(Ahead(p[2]), start, b, 0)]
<1>1. PICK f : Recursive(f, first, step)
  BY RecursiveDefined
<1>2. \A n \in Nat, s \in S : step[<<n, s>>] = Simd!AxisReset(Ahead(s), start, b, 0)
  OBVIOUS
<1>3. \A n \in Nat, s \in S : step[<<n+1, s>>] \in S
  <2> SUFFICES ASSUME NEW n \in Nat, NEW s \in S PROVE step[<<n+1, s>>] \in S
    OBVIOUS
  <2>1. n+1 \in Nat /\ 0 \in Nat
    OBVIOUS
  <2> QED
    BY <1>2, <2>1, AheadTyped, AxisResetTyped
<1>4. first \in S
  <2>1. FirstOf(j, start) \in S
    BY DEF FirstOf, Triples3
  <2> QED
    BY <2>1, AxisResetTyped
<1> HIDE DEF step, first
<1>5. \A n \in Nat : f[n] \in S
  BY <1>1, <1>3, <1>4, RecursiveIn
<1>6. ASSUME NEW n \in Nat
      PROVE  (IF n = 0 THEN first ELSE step[<<n, f[n-1]>>])
                 = (IF n = 0 THEN first ELSE Simd!AxisReset(Ahead(f[n-1]), start, b, 0))
  <2>1. n # 0 => n-1 \in Nat
    OBVIOUS
  <2> QED
    BY <1>2, <1>5, <2>1
<1>7. Lanes(f, j, start, b)
  BY <1>1, <1>6 DEF Recursive, Lanes, first
<1> QED
  BY <1>7

\* Lane j of the vector k is at the cell k * Size + j.
LEMMA LaneCellsAt ==
  ASSUME NEW b \in Blocks3, NEW start \in Triples3, Size \in Nat, NEW j \in 0 .. Size - 1, NEW k \in Nat
  PROVE  Same(Simd!LaneCells(j, start, b)[k], Simd!At(k * Size + j, start, b))
<1> DEFINE g == CHOOSE f : Lanes(f, j, start, b)
           last == LastOf(start, b)
<1>1. Lanes(g, j, start, b)
  BY LanesDefined
<1>2. Simd!LaneCells(j, start, b) = g
  BY DEF Simd!LaneCells, Lanes, FirstOf, Ahead, Size
<1> HIDE DEF g
<1>3. /\ b[2] \in Nat /\ b[2] > 0 /\ b[3] \in Nat /\ b[3] > 0
      /\ start[1] \in Int /\ start[2] \in Int /\ start[3] \in Int /\ j \in Nat /\ j < Size
  BY DEF Blocks3, Triples3
<1> DEFINE P(i) == InLane(g[i], i * Size + j, start, b) /\ g[i][3] <= last
           T == {i \in Nat : P(i)}
<1>4. 0 \in T
  <2> DEFINE c == FirstOf(j, start)
  <2>1. c \in Triples3 /\ c[1] = start[1] /\ c[2] = start[2] /\ c[3] = start[3] + j
    BY DEF FirstOf, Triples3
  <2>2. g[0] = Simd!AxisReset(c, start, b, 1)
    BY <1>1 DEF Lanes
  <2> HIDE DEF c
  <2>3. Linear(c, start, b) = 0 * Size + j
    <3>1. (start[1] - start[1]) * b[2] + (start[2] - start[2]) = 0 /\ 0 * b[3] = 0
      BY <1>3
    <3> QED
      BY <1>3, <2>1, <3>1 DEF Linear
  <2>4. InLane(c, 0 * Size + j, start, b)
    BY <1>3, <2>1, <2>3 DEF InLane
  <2>5. c[3] <= last + (Size - b[3] * 1)
    BY <1>3, <2>1 DEF LastOf
  <2>6. P(0)
    BY <2>2, <2>4, <2>5, AxisResetKeeps
  <2> QED
    BY <2>6
<1>5. ASSUME NEW i \in Nat, i \in T PROVE i+1 \in T
  <2> DEFINE c == g[i]
             d == Ahead(c)
             n == i * Size + j
  <2>1. InLane(c, n, start, b) /\ c[3] <= last
    BY <1>5
  <2>2. g[i+1] = Simd!AxisReset(d, start, b, 0)
    BY <1>1 DEF Lanes
  <2>3. c \in Triples3 /\ d \in Triples3 /\ d[1] = c[1] /\ d[2] = c[2] /\ d[3] = c[3] + Size
    BY <2>1, AheadTyped DEF InLane
  <2>4. c[1] \in Int /\ c[2] \in Int /\ c[3] \in Int
    BY <2>3 DEF Triples3
  <2>5. n \in Nat /\ (i+1) * Size + j = n + Size
    BY <1>3
  <2> HIDE DEF c, d, n
  <2>6. Linear(d, start, b) = n + Size
    <3> DEFINE w == ((c[1] - start[1]) * b[2] + (c[2] - start[2])) * b[3]
    <3>1. w \in Int
      BY <1>3, <2>4
    <3>2. w + (c[3] - start[3]) = n
      BY <2>1 DEF InLane, Linear
    <3>3. Linear(d, start, b) = w + (c[3] + Size - start[3])
      <4>1. Linear(d, start, b)
                = ((d[1] - start[1]) * b[2] + (d[2] - start[2])) * b[3] + (d[3] - start[3])
        BY DEF Linear
      <4> HIDE DEF w
      <4>2. d[3] - start[3] = c[3] + Size - start[3]
        BY <1>3, <2>3, <2>4
      <4>3. ((d[1] - start[1]) * b[2] + (d[2] - start[2])) * b[3] = w
        BY ONLY <2>3 DEF w
      <4> QED
        BY <4>1, <4>2, <4>3
    <3> HIDE DEF w
    <3> QED
      BY <1>3, <2>4, <2>5, <3>1, <3>2, <3>3
  <2>7. InLane(d, n + Size, start, b)
    BY <1>3, <2>1, <2>3, <2>4, <2>6 DEF InLane
  <2>8. d[3] <= last + (Size - b[3] * 0)
    <3>1. b[3] * 0 = 0 /\ last \in Int
      BY <1>3 DEF LastOf
    <3> HIDE DEF last
    <3> QED
      BY <2>1, <2>3, <2>4, <3>1
  <2>9. InLane(g[i+1], n + Size, start, b) /\ g[i+1][3] <= last
    BY <2>2, <2>7, <2>8, AxisResetKeeps
  <2> QED
    BY <2>5, <2>9
<1> HIDE DEF T
<1>6. \A i \in Nat : i \in T
  BY <1>4, <1>5, AllNumbers
<1>7. P(k)
  BY <1>6 DEF T
<1>8. k * Size + j \in Int
  BY <1>3
<1> QED
  BY <1>2, <1>7, <1>8, SettledAt

-----------------------------------------------------------------------------
(* The cells of a set.                                                     *)

LEMMA PointOfSame ==
  ASSUME NEW kind, NEW c, NEW d, NEW scale, Same(c, d)
  PROVE  Simd!PointOf(kind, c, scale) = Simd!PointOf(kind, d, scale)
<1>1. [a \in 1 .. 3 |-> Simd!Whole(c[a])] = [a \in 1 .. 3 |-> Simd!Whole(d[a])]
  BY DEF Same
<1> QED
  BY <1>1 DEF Simd!PointOf

LEMMA CellsPositive ==
  ASSUME NEW b \in Blocks3
  PROVE  Simd!Cells(b) \in Nat /\ Simd!Cells(b) > 0
<1> DEFINE b1 == b[1]
           b2 == b[2]
           b3 == b[3]
<1>1. b1 \in Nat /\ b1 > 0 /\ b2 \in Nat /\ b2 > 0 /\ b3 \in Nat /\ b3 > 0
  BY DEF Blocks3
<1>2. Simd!Cells(b) = b1 * b2 * b3
  BY DEF Simd!Cells
<1> HIDE DEF b1, b2, b3
<1>3. b1 * b2 \in Nat /\ b1 * b2 > 0
  BY <1>1, ProductPositive
<1>4. b1 * b2 * b3 \in Nat /\ b1 * b2 * b3 > 0
  BY <1>1, <1>3, ProductPositive
<1> QED
  BY <1>2, <1>4

\* Where rows are made up of whole vectors.
LEMMA RowCellsAt ==
  ASSUME NEW b \in Blocks3, NEW start \in Triples3, Size \in Nat, Size > 0, b[3] % Size = 0,
         NEW i \in Nat
  PROVE  Same(Simd!RowCells(i, start, b), Simd!At(i, start, b))
<1> DEFINE b2 == b[2]
           b3 == b[3]
           e == Simd!Coords(i, b)
           x == e[1]
           y == e[2]
           z == e[3]
           row == i \div b3
           s == Size
<1>1. b2 \in Nat /\ b2 > 0 /\ b3 \in Nat /\ b3 > 0 /\ s \in Nat /\ s > 0 /\ b3 % s = 0
  BY DEF Blocks3
<1>2. x \in Nat /\ y \in Nat /\ z \in Nat /\ y < b2 /\ z < b3 /\ i = (x * b2 + y) * b3 + z
  BY BlocksAre, CoordsTyped
<1>3. LET d == Simd!RowCells(i, start, b)
      IN  /\ d[1] = start[1] + row \div b2
          /\ d[2] = start[2] + (row % b2)
          /\ d[3] = start[3] + ((i % b3) \div s) * s + (i % s)
  BY DEF Simd!RowCells, Size
<1>4. LET d == Simd!At(i, start, b)
      IN  d[1] = start[1] + x /\ d[2] = start[2] + y /\ d[3] = start[3] + z
  BY DEF Simd!At
<1>5. start[3] \in Int
  BY DEF Triples3
<1> HIDE DEF b2, b3, e, x, y, z, s
<1> DEFINE w == x * b2 + y
<1>6. w \in Nat /\ w = b2 * x + y
  BY <1>1, <1>2
<1>7. w \div b2 = x /\ w % b2 = y
  BY <1>1, <1>2, <1>6, DivUnique
<1>8. i = b3 * w + z
  BY <1>1, <1>2, <1>6
<1> HIDE DEF w
<1>9. row = w /\ i % b3 = z
  BY <1>1, <1>2, <1>6, <1>8, DivUnique
<1> HIDE DEF row
<1> DEFINE q == b3 \div s
           v == z \div s
           r == z % s
<1>10. q \in Int /\ b3 = s * q
  BY <1>1, DivMod
<1>11. v \in Int /\ r \in Nat /\ r < s /\ z = s * v + r
  BY <1>1, <1>2, DivMod
<1> HIDE DEF q, v, r
<1>12. i = s * (q * w + v) + r
  <2>1. b3 * w = s * (q * w)
    BY <1>1, <1>6, <1>10
  <2>2. q * w \in Int
    BY <1>6, <1>10
  <2> QED
    BY <1>1, <1>8, <1>11, <2>1, <2>2
<1>13. i % s = r
  <2> DEFINE u == q * w + v
  <2>1. u \in Int /\ i = s * u + r
    BY <1>6, <1>10, <1>11, <1>12
  <2> HIDE DEF u
  <2> QED
    BY <1>1, <1>11, <2>1, DivUnique
<1>14. start[3] + ((i % b3) \div s) * s + (i % s) = start[3] + z
  <2>1. (i % b3) \div s = v
    BY <1>9 DEF v
  <2>2. v * s + r = z /\ v * s \in Int
    BY <1>1, <1>11
  <2> QED
    BY <1>2, <1>5, <1>11, <1>13, <2>1, <2>2
<1> QED
  BY <1>3, <1>4, <1>7, <1>9, <1>14 DEF Same

LEMMA RoundedUpNext ==
  ASSUME NEW n \in Nat, n > 0, NEW unit \in Nat, unit > 0
  PROVE  /\ n <= unit => Simd!RoundedUp(n, unit) = unit
         /\ n > unit => Simd!RoundedUp(n - unit, unit) + unit = Simd!RoundedUp(n, unit)
<1>1. CASE n <= unit
  <2>1. (n + unit - 1) \div unit = 1
    <3>1. n - 1 \in Nat /\ n - 1 < unit /\ n + unit - 1 = unit * 1 + (n - 1)
      BY <1>1
    <3>2. n + unit - 1 \in Int /\ 1 \in Int
      OBVIOUS
    <3> QED
      BY <3>1, <3>2, DivUnique
  <2> QED
    BY <1>1, <2>1 DEF Simd!RoundedUp
<1>2. CASE n > unit
  <2> DEFINE q == (n - 1) \div unit
             r == (n - 1) % unit
  <2>1. q \in Int /\ r \in Nat /\ r < unit /\ n - 1 = unit * q + r
    BY DivMod
  <2>2. (n - unit) + unit - 1 = n - 1
    OBVIOUS
  <2>3. Simd!RoundedUp(n - unit, unit) = q * unit
    BY <2>2 DEF Simd!RoundedUp
  <2> HIDE DEF q, r
  <2>4. n + unit - 1 = unit * (q + 1) + r /\ q + 1 \in Int /\ n + unit - 1 \in Int
    BY <2>1
  <2>5. (n + unit - 1) \div unit = q + 1
    BY <2>1, <2>4, DivUnique
  <2>6. Simd!RoundedUp(n, unit) = (q + 1) * unit
    BY <2>5 DEF Simd!RoundedUp
  <2>7. (q + 1) * unit = q * unit + unit
    BY <2>1
  <2> QED
    BY <1>2, <2>3, <2>6, <2>7
<1> QED
  BY <1>1, <1>2

\* FillNoiseSet stores the noise of every cell of a block, and stays within the set.
LEMMA FilledAt ==
  ASSUME NEW b \in Blocks3, NEW start \in Triples3, Size \in Nat, Size > 0, NEW kind, NEW scale
  PROVE  LET filled == Simd!Filled(kind, start, b, scale)
         IN  /\ DOMAIN filled \subseteq 0 .. Simd!RoundedUp(Simd!Cells(b), Size) - 1
             /\ \A i \in 0 .. Simd!Cells(b) - 1 :
                    /\ i \in DOMAIN filled
                    /\ filled[i] = Simd!PointOf(kind, Simd!At(i, start, b), scale)
<1> DEFINE filled == Simd!Filled(kind, start, b, scale)
           cells == Simd!Cells(b)
           last == IF cells > Size THEN Simd!RoundedUp(cells - Size, Size) ELSE 0
           aligned == Simd!RoundedUp(cells, Size)
<1>1. cells \in Nat /\ cells > 0
  BY CellsPositive
<1>2. filled = IF b[3] % Size = 0
               THEN [i \in 0 .. cells - 1 |-> Simd!PointOf(kind, Simd!RowCells(i, start, b), scale)]
               ELSE [i \in 0 .. last + Size - 1 |->
                        Simd!PointOf(kind, Simd!LaneCells(i % Size, start, b)[i \div Size], scale)]
  BY DEF Simd!Filled, Size
<1> HIDE DEF filled, cells
<1>3. aligned \in Nat /\ cells <= aligned
  <2> DEFINE k == (cells + Size - 1) \div Size
  <2>1. aligned = k * Size /\ k \in Nat /\ cells <= k * Size
    BY <1>1, Rounding
  <2> HIDE DEF k, aligned
  <2> QED
    BY <2>1
<1>4. last \in Int /\ last + Size = aligned
  <2>1. CASE cells <= Size
    BY <1>1, <2>1, RoundedUpNext
  <2>2. CASE cells > Size
    <3> DEFINE before == Simd!RoundedUp(cells - Size, Size)
    <3>1. before + Size = aligned
      BY <1>1, <2>2, RoundedUpNext
    <3>2. before \in Int
      <4> DEFINE k == ((cells - Size) + Size - 1) \div Size
      <4>1. cells - Size \in Nat
        BY <1>1, <2>2
      <4>2. before = k * Size /\ k \in Nat
        BY <4>1, Rounding
      <4> HIDE DEF k, before
      <4> QED
        BY <4>2
    <3> QED
      BY <1>1, <2>2, <3>1, <3>2
  <2> QED
    BY <1>1, <2>1, <2>2
<1> HIDE DEF last, aligned
<1>5. CASE b[3] % Size = 0
  <2>1. filled = [i \in 0 .. cells - 1 |-> Simd!PointOf(kind, Simd!RowCells(i, start, b), scale)]
    BY <1>2, <1>5
  <2>2. ASSUME NEW i \in 0 .. cells - 1
        PROVE  Simd!PointOf(kind, Simd!RowCells(i, start, b), scale)
                   = Simd!PointOf(kind, Simd!At(i, start, b), scale)
    <3>1. Same(Simd!RowCells(i, start, b), Simd!At(i, start, b))
      BY <1>5, RowCellsAt
    <3> QED
      BY <3>1, PointOfSame
  <2> QED
    BY <1>1, <1>3, <2>1, <2>2 DEF filled, cells, aligned
<1>6. CASE b[3] % Size # 0
  <2>1. filled = [i \in 0 .. aligned - 1 |->
                     Simd!PointOf(kind, Simd!LaneCells(i % Size, start, b)[i \div Size], scale)]
    <3>1. filled = [i \in 0 .. last + Size - 1 |->
                       Simd!PointOf(kind, Simd!LaneCells(i % Size, start, b)[i \div Size], scale)]
      BY <1>2, <1>6
    <3>2. last + Size - 1 = aligned - 1
      BY <1>3, <1>4
    <3> QED
      BY <3>1, <3>2
  <2>2. ASSUME NEW i \in 0 .. cells - 1
        PROVE  Simd!PointOf(kind, Simd!LaneCells(i % Size, start, b)[i \div Size], scale)
                   = Simd!PointOf(kind, Simd!At(i, start, b), scale)
    <3> DEFINE k == i \div Size
               j == i % Size
    <3>1. k \in Int /\ j \in 0 .. Size - 1 /\ i = Size * k + j
      BY DivMod
    <3> HIDE DEF k, j
    <3>2. k \in Nat
      <4> SUFFICES ASSUME k <= -1 PROVE FALSE
        BY <3>1
      <4>1. Size * k <= -Size
        BY <3>1
      <4> QED
        BY <3>1, <4>1
    <3>3. i = k * Size + j
      BY <3>1, <3>2
    <3>4. Same(Simd!LaneCells(j, start, b)[k], Simd!At(i, start, b))
      BY <3>1, <3>2, <3>3, LaneCellsAt
    <3> QED
      BY <3>4, PointOfSame DEF k, j
  <2>3. DOMAIN filled = 0 .. aligned - 1 /\ 0 .. cells - 1 \subseteq 0 .. aligned - 1
    BY <1>1, <1>3, <2>1
  <2>4. \A i \in 0 .. cells - 1 : filled[i] = Simd!PointOf(kind, Simd!At(i, start, b), scale)
    BY <2>1, <2>2, <2>3
  <2> QED
    BY <2>3, <2>4 DEF filled, cells, aligned
<1> QED
  BY <1>5, <1>6

-----------------------------------------------------------------------------
(* Samples.                                                                *)

Powers(f) == f = [i \in Nat |-> IF i = 0 THEN 1 ELSE 2 * f[i-1]]

LEMMA Pow2Positive ==
  /\ \A n \in Nat : Simd!Pow2(n) \in Nat /\ Simd!Pow2(n) > 0
  /\ Simd!Pow2(0) = 1
<1> DEFINE S == {n \in Nat : n > 0}
           step == [p \in Nat \X S |-> 2 * p[2]]
           g == CHOOSE f : Powers(f)
<1>1. PICK f : Recursive(f, 1, step)
  BY RecursiveDefined
<1>2. \A n \in Nat, s \in S : step[<<n, s>>] = 2 * s
  OBVIOUS
<1>3. \A n \in Nat, s \in S : step[<<n+1, s>>] \in S
  OBVIOUS
<1>4. 1 \in S
  OBVIOUS
<1> HIDE DEF step
<1>5. \A n \in Nat : f[n] \in S
  BY <1>1, <1>3, <1>4, RecursiveIn
<1>6. ASSUME NEW n \in Nat
      PROVE  (IF n = 0 THEN 1 ELSE step[<<n, f[n-1]>>]) = (IF n = 0 THEN 1 ELSE 2 * f[n-1])
  <2>1. n # 0 => n-1 \in Nat
    OBVIOUS
  <2> QED
    BY <1>2, <1>5, <2>1
<1>7. Powers(f)
  BY <1>1, <1>6 DEF Recursive, Powers
<1>8. Powers(g)
  BY <1>7
<1>9. \A n : Simd!Pow2(n) = g[n]
  BY DEF Simd!Pow2, Powers
<1> HIDE DEF g
<1> DEFINE T == {n \in Nat : g[n] \in S}
<1>10. 0 \in T
  BY <1>8 DEF Powers
<1>11. ASSUME NEW n \in Nat, n \in T PROVE n+1 \in T
  <2>1. g[n+1] = 2 * g[n]
    BY <1>8 DEF Powers
  <2> QED
    BY <1>11, <2>1
<1> HIDE DEF T
<1>12. \A n \in Nat : n \in T
  BY <1>10, <1>11, AllNumbers
<1>13. g[0] = 1
  BY <1>8 DEF Powers
<1> QED
  BY <1>9, <1>12, <1>13 DEF T

LEMMA SamplesTyped ==
  ASSUME NEW b \in Blocks3, NEW size \in Nat, size > 0
  PROVE  /\ Simd!SamplesOf(b, size) \in Blocks3
         /\ \A a \in 1 .. 3 : b[a] <= (Simd!SamplesOf(b, size)[a] - 1) * size
<1> DEFINE k(a) == (b[a] + size - 1) \div size
           samples == Simd!SamplesOf(b, size)
<1>1. ASSUME NEW a \in 1 .. 3
      PROVE  /\ Simd!RoundedUp(b[a], size) \div size = k(a)
             /\ k(a) \in Nat /\ b[a] <= k(a) * size
  <2>1. b[a] \in Nat
    BY DEF Blocks3
  <2> QED
    BY <2>1, Rounding
<1> HIDE DEF k
<1>2. samples = [a \in 1 .. 3 |-> k(a) + 1]
  BY <1>1 DEF Simd!SamplesOf
<1>3. samples \in Blocks3
  BY <1>1, <1>2 DEF Blocks3
<1>4. ASSUME NEW a \in 1 .. 3 PROVE b[a] <= (samples[a] - 1) * size
  <2>1. samples[a] - 1 = k(a)
    BY <1>1, <1>2
  <2> QED
    BY <1>1, <2>1
<1> QED
  BY <1>3, <1>4

\* A place within the block has an index in it, which leads back to the place.
Within(c, b) == \A a \in 1 .. 3 : c[a] \in Nat /\ c[a] < b[a]

LEMMA IndexOf ==
  ASSUME NEW b \in Blocks3, NEW c, Within(c, b)
  PROVE  /\ Simd!Index(c, b) \in 0 .. Simd!Cells(b) - 1
         /\ Same(Simd!Coords(Simd!Index(c, b), b), c)
<1> DEFINE b1 == b[1]
           b2 == b[2]
           b3 == b[3]
           x == c[1]
           y == c[2]
           z == c[3]
           i == Simd!Index(c, b)
<1>1. /\ b1 \in Nat /\ b1 > 0 /\ b2 \in Nat /\ b2 > 0 /\ b3 \in Nat /\ b3 > 0
      /\ x \in Nat /\ x < b1 /\ y \in Nat /\ y < b2 /\ z \in Nat /\ z < b3
  BY DEF Blocks3, Within
<1>2. i = (x * b2 + y) * b3 + z
  BY DEF Simd!Index
<1>3. Simd!Cells(b) = b1 * b2 * b3
  BY DEF Simd!Cells
<1> HIDE DEF i
<1>4. i \in Nat /\ i < b1 * b2 * b3
  <2> HIDE DEF b1, b2, b3, x, y, z
  <2> DEFINE w == x * b2 + y
             v == b1 * b2
  <2>1. x * b2 <= (b1 - 1) * b2 /\ x * b2 \in Nat
    BY <1>1
  <2>2. (b1 - 1) * b2 = v - b2 /\ v \in Nat
    BY <1>1
  <2>3. w \in Nat /\ w <= v - 1
    BY <1>1, <2>1, <2>2
  <2> HIDE DEF w, v
  <2>4. w * b3 <= (v - 1) * b3 /\ w * b3 \in Nat /\ (v - 1) * b3 = v * b3 - b3 /\ v * b3 \in Nat
    BY <1>1, <2>2, <2>3
  <2>5. w * b3 + z \in Nat /\ w * b3 + z < v * b3
    BY <1>1, <2>4
  <2> QED
    BY <1>2, <2>5 DEF w, v
<1>5. Same(Simd!Coords(i, b), <<x, y, z>>)
  <2>1. y < b[2] /\ z < b[3] /\ i = (x * b[2] + y) * b[3] + z /\ i \in Int
    BY <1>1, <1>2, <1>4
  <2>2. Block(b) /\ x \in Int /\ y \in Nat /\ z \in Nat
    BY <1>1, BlocksAre
  <2> HIDE DEF x, y, z
  <2> QED
    BY <2>1, <2>2, CoordsUnique
<1>6. Same(Simd!Coords(i, b), c)
  BY <1>5 DEF Same
<1>7. i \in 0 .. Simd!Cells(b) - 1
  <2> DEFINE n == b1 * b2 * b3
  <2>1. n \in Int
    BY <1>1
  <2>2. i \in Nat /\ i < n /\ Simd!Cells(b) = n
    BY <1>3, <1>4
  <2> HIDE DEF n
  <2> QED
    BY <2>1, <2>2
<1> QED
  BY <1>6, <1>7 DEF i

\* The cells between samples: where each one's samples are, and its middle.
BaseOf(i, b, size, offset) ==
    [a \in 1 .. 3 |-> (Simd!Coords(i, b)[a] + offset[a]) \div size]
SampleIn(i, b, size, offset, e) == [a \in 1 .. 3 |-> BaseOf(i, b, size, offset)[a] + e[a]]
Between(numbers, samples, i, b, size, offset) ==
    <<[e \in Simd!Cube |-> numbers[Simd!Index(SampleIn(i, b, size, offset, e), samples)]],
      [a \in 1 .. 3 |-> Simd!Q(2 * ((Simd!Coords(i, b)[a] + offset[a]) % size) + 1, 2 * size)]>>

LEMMA InterpolatedAt ==
  ASSUME NEW b \in Blocks3, NEW size \in Nat, size > 0, NEW offset \in [1 .. 3 -> Nat],
         NEW samples \in Blocks3, NEW numbers,
         \A a \in 1 .. 3 : b[a] + offset[a] <= (samples[a] - 1) * size
  PROVE  LET r == Simd!Interpolated(numbers, samples, size, offset, b)
         IN  /\ DOMAIN r = 0 .. Simd!Cells(b) - 1
             /\ \A i \in 0 .. Simd!Cells(b) - 1 :
                    /\ r[i] = Between(numbers, samples, i, b, size, offset)
                    /\ \A e \in Simd!Cube : Within(SampleIn(i, b, size, offset, e), samples)
<1> DEFINE r == Simd!Interpolated(numbers, samples, size, offset, b)
           cells == 0 .. Simd!Cells(b) - 1
<1>1. ASSUME NEW i \in cells, NEW a \in 1 .. 3
      PROVE  BaseOf(i, b, size, offset)[a] \in 0 .. samples[a] - 2
  <2> DEFINE c == Simd!Coords(i, b)[a]
             o == offset[a]
             q == (c + o) \div size
             t == (c + o) % size
             n == samples[a]
  <2>1. c \in Nat /\ c < b[a]
    <3>1. i \in Nat /\ i < Simd!Cells(b) /\ Block(b)
      BY BlocksAre, CellsPositive
    <3>2. \A k \in 1 .. 3 : Simd!Coords(i, b)[k] \in Nat /\ Simd!Coords(i, b)[k] < b[k]
      BY <3>1, CoordsTyped
    <3> QED
      BY <3>2
  <2>2. o \in Nat /\ b[a] \in Nat /\ n \in Nat /\ b[a] + o <= (n - 1) * size
    BY DEF Blocks3
  <2>3. BaseOf(i, b, size, offset)[a] = q
    BY DEF BaseOf
  <2> HIDE DEF c, o, n
  <2>4. q \in Int /\ t \in Nat /\ t < size /\ c + o = size * q + t
    BY <2>1, <2>2, DivMod
  <2> HIDE DEF q, t
  <2>5. q >= 0
    <3> SUFFICES ASSUME q <= -1 PROVE FALSE
      BY <2>4
    <3>1. size * q <= -size
      BY <2>4
    <3> QED
      BY <2>1, <2>2, <2>4, <3>1
  <2>6. q <= n - 2
    <3> SUFFICES ASSUME q >= n - 1 PROVE FALSE
      BY <2>2, <2>4
    <3>1. size * q >= (n - 1) * size
      BY <2>2, <2>4
    <3>2. size * q \in Int /\ (n - 1) * size \in Int
      BY <2>2, <2>4
    <3> QED
      BY <2>1, <2>2, <2>4, <3>1, <3>2
  <2> QED
    BY <2>2, <2>3, <2>4, <2>5, <2>6 DEF n
<1>2. ASSUME NEW i \in cells, NEW e \in Simd!Cube
      PROVE  Within(SampleIn(i, b, size, offset, e), samples)
  <2>1. \A a \in 1 .. 3 : e[a] \in 0 .. 1
    BY DEF Simd!Cube
  <2>2. \A a \in 1 .. 3 : samples[a] \in Nat
    BY DEF Blocks3
  <2> QED
    BY <1>1, <2>1, <2>2 DEF Within, SampleIn
<1>3. {i \in cells : \A a \in 1 .. 3 :
           [k \in 1 .. 3 |-> (Simd!Coords(i, b)[k] + offset[k]) \div size][a] \in 0 .. samples[a] - 2}
          = cells
  BY <1>1 DEF BaseOf
<1>4. r = [i \in cells |-> Between(numbers, samples, i, b, size, offset)]
  <2> DEFINE D == {i \in cells : \A a \in 1 .. 3 :
                       [k \in 1 .. 3 |-> (Simd!Coords(i, b)[k] + offset[k]) \div size][a] \in 0 .. samples[a] - 2}
             G(i) == <<[e \in Simd!Cube |->
                          numbers[Simd!Index([a \in 1 .. 3 |->
                             [k \in 1 .. 3 |-> (Simd!Coords(i, b)[k] + offset[k]) \div size][a] + e[a]], samples)]],
                       [a \in 1 .. 3 |-> Simd!Q(2 * [k \in 1 .. 3 |-> (Simd!Coords(i, b)[k] + offset[k]) % size][a] + 1, 2 * size)]>>
  <2>1. r = [i \in D |-> G(i)]
    BY Zenon DEF Simd!Interpolated
  <2>2. \A i \in cells : G(i) = Between(numbers, samples, i, b, size, offset)
    <3> SUFFICES ASSUME NEW i \in cells PROVE G(i) = Between(numbers, samples, i, b, size, offset)
      OBVIOUS
    <3>1. [a \in 1 .. 3 |-> Simd!Q(2 * [k \in 1 .. 3 |-> (Simd!Coords(i, b)[k] + offset[k]) % size][a] + 1, 2 * size)]
            = [a \in 1 .. 3 |-> Simd!Q(2 * ((Simd!Coords(i, b)[a] + offset[a]) % size) + 1, 2 * size)]
      OBVIOUS
    <3> QED
      BY <3>1 DEF Between, SampleIn, BaseOf
  <2> HIDE DEF G
  <2>3. D = cells
    BY <1>3
  <2> HIDE DEF D
  <2> QED
    BY <2>1, <2>2, <2>3
<1> QED
  BY <1>2, <1>4

\* Where the start is one of a sample, or every second cell is one.
LEMMA SampleShift ==
  ASSUME NEW start \in Int, NEW c \in Nat, NEW size \in Nat, size > 0,
         start % size = 0 \/ size = 2
  PROVE  LET o == (size - (start % size)) % size
         IN  /\ (start \div size) + ((c + o) \div size) = (start + c) \div size
             /\ (c + o) % size = (start + c) % size
<1> DEFINE q == start \div size
           r == start % size
           o == (size - r) % size
           p == (c + o) \div size
           t == (c + o) % size
<1>1. q \in Int /\ r \in Nat /\ r < size /\ start = size * q + r
  BY DivMod
<1>2. r = 0 \/ size = 2
  OBVIOUS
<1> HIDE DEF q, r
<1>3. o \in Nat /\ o < size /\ (r + size - o) % size = 0 /\ (r = 0 => o = 0) /\ (r = 1 => o = 1)
  <2>1. CASE r = 0
    <3>1. size - r = size * 1 + 0
      BY <1>1, <2>1
    <3>2. size - r \in Int /\ 0 \in Nat /\ 1 \in Int
      BY <1>1
    <3>3. o = 0
      BY <1>1, <3>1, <3>2, DivUnique
    <3>4. (r + size - o) % size = 0
      BY <1>1, <2>1, <3>1, <3>3, <3>2, DivUnique
    <3> QED
      BY <1>1, <2>1, <3>3, <3>4
  <2>2. CASE r # 0
    <3>1. size = 2 /\ r = 1
      BY <1>1, <1>2, <2>2
    <3> QED
      BY <3>1
  <2> QED
    BY <2>1, <2>2
<1>4. r = o
  BY <1>1, <1>2, <1>3
<1> HIDE DEF o
<1>5. p \in Int /\ t \in Nat /\ t < size /\ c + o = size * p + t
  BY <1>3, DivMod
<1> HIDE DEF p, t
<1> DEFINE w == q + p
<1>6. size * w = size * q + size * p /\ w \in Int /\ size * q \in Int /\ size * p \in Int
  BY <1>1, <1>5
<1> HIDE DEF w
<1>7. start + c = size * w + t
  BY <1>1, <1>3, <1>4, <1>5, <1>6
<1>8. (start + c) \div size = w /\ (start + c) % size = t
  <2> DEFINE u == start + c
  <2>1. u \in Int /\ u = size * w + t
    BY <1>7
  <2> HIDE DEF u
  <2>2. u \div size = w /\ u % size = t
    BY <1>5, <1>6, <2>1, DivUnique
  <2> QED
    BY <2>2 DEF u
<1> QED
  BY <1>8 DEF q, r, o, p, t, w

-----------------------------------------------------------------------------
(* Sets.                                                                   *)

Aligned == Simd!Width = Size /\ Size \in Nat /\ Size > 0

LEMMA ClassAligned ==
  ASSUME m.class \in Compiled, level = m.class
  PROVE  Aligned
<1> DEFINE c == m.class
           classes == {k \in Compiled \cap {1, 3, 4} : k <= c}
<1>1. Compiled \subseteq 0 .. 4 /\ (2 \in Compiled => 1 \in Compiled)
  BY NoiseAssumption DEF Simd!Assumption, Simd!FN_NO_SIMD_FALLBACK, Simd!FN_AVX512,
     Simd!FN_SSE41, Simd!FN_SSE2
<1>2. c \in 0 .. 4 /\ c \in Compiled /\ Size = <<1, 4, 4, 8, 16>>[c+1]
  BY <1>1 DEF Size, Simd!VectorSize
<1>3. Simd!GetSIMDLevel = c
  BY <1>2 DEF Simd!GetSIMDLevel
<1>4. Simd!Width = IF classes = {} THEN 1 ELSE <<1, 4, 4, 8, 16>>[Simd!Max(classes)+1]
  BY <1>3 DEF Simd!Width, Simd!VectorSize, Simd!FN_SSE2, Simd!FN_AVX2, Simd!FN_AVX512
<1> HIDE DEF c
<1>5. \A k \in classes : (\A n \in classes : k >= n) => Simd!Max(classes) = k
  BY <1>1 DEF Simd!Max
<1>6. CASE c = 0
  BY <1>1, <1>2, <1>4, <1>6 DEF Aligned
<1>7. CASE c \in {1, 3, 4}
  <2>1. c \in classes /\ \A n \in classes : c >= n
    BY <1>1, <1>2, <1>7
  <2>2. Simd!Max(classes) = c /\ classes # {}
    BY <1>5, <2>1
  <2> QED
    BY <1>2, <1>4, <1>7, <2>2 DEF Aligned
<1>8. CASE c = 2
  <2>1. 1 \in classes /\ \A n \in classes : 1 >= n
    BY <1>1, <1>2, <1>8
  <2>2. Simd!Max(classes) = 1 /\ classes # {}
    BY <1>5, <2>1
  <2> QED
    BY <1>2, <1>4, <1>8, <2>2 DEF Aligned
<1> QED
  BY <1>2, <1>6, <1>7, <1>8

LEMMA NewSetIs ==
  ASSUME Aligned, NEW cells \in Nat, NEW noise, NEW stored, NEW asked,
         DOMAIN stored \subseteq 0 .. Simd!RoundedUp(cells, Size) - 1
  PROVE  LET set == Simd!NewSet(cells, noise, stored, asked)
         IN  /\ DOMAIN set.cells = 0 .. set.size - 1
             /\ set.asked = asked
             /\ \A i \in DOMAIN stored : set.cells[i] = stored[i]
<1>1. Simd!AlignedSize(cells) = Simd!RoundedUp(cells, Size)
  BY DEF Simd!AlignedSize, Aligned
<1> DEFINE n == Simd!RoundedUp(cells, Size)
<1>2. Simd!NewSet(cells, noise, stored, asked) =
         [size |-> n, noise |-> noise, asked |-> asked,
          cells |-> [i \in (0 .. n - 1) \cup DOMAIN stored |->
                        IF i \in DOMAIN stored THEN stored[i] ELSE Simd!Undefined]]
  BY <1>1 DEF Simd!NewSet
<1>3. (0 .. n - 1) \cup DOMAIN stored = 0 .. n - 1
  OBVIOUS
<1> HIDE DEF n
<1> QED
  BY <1>2, <1>3

\* What SetsFilled says of a set.
CountOf(asked) == IF asked.how = "vectors" THEN vectorSet.size ELSE Simd!Cells(asked.block)
Right(set) ==
    /\ DOMAIN set.cells = 0 .. set.size - 1
    /\ \A i \in 0 .. CountOf(set.asked) - 1 : Simd!InPlace(set.cells[i], i, set.asked)

LEMMA FilledIsRight ==
  ASSUME noiseSet # Simd!NoSet => Right(noiseSet)
  PROVE  Simd!SetsFilled
BY DEF Simd!SetsFilled, Right, CountOf

\* A set is right, when what is stored in it is.
LEMMA StoredRight ==
  ASSUME Aligned, NEW cells \in Nat, NEW noise, NEW stored, NEW asked,
         DOMAIN stored \subseteq 0 .. Simd!RoundedUp(cells, Size) - 1,
         \A i \in 0 .. CountOf(asked) - 1 : i \in DOMAIN stored /\ Simd!InPlace(stored[i], i, asked)
  PROVE  Right(Simd!NewSet(cells, noise, stored, asked))
<1> DEFINE set == Simd!NewSet(cells, noise, stored, asked)
<1>1. /\ DOMAIN set.cells = 0 .. set.size - 1
      /\ set.asked = asked
      /\ \A i \in DOMAIN stored : set.cells[i] = stored[i]
  BY NewSetIs
<1> HIDE DEF set
<1>2. \A i \in 0 .. CountOf(asked) - 1 : Simd!InPlace(set.cells[i], i, asked)
  BY <1>1
<1> QED
  BY <1>1, <1>2 DEF Right, set

LEMMA BlockSetRight ==
  ASSUME Aligned, NEW kind, NEW start \in Triples3, NEW b \in Blocks3, NEW scale
  PROVE  Right(Simd!BlockSet(kind, start, b, scale))
<1> DEFINE asked == [how |-> "block", kind |-> kind, start |-> start, block |-> b, scale |-> scale]
           filled == Simd!Filled(kind, start, b, scale)
           cells == Simd!Cells(b)
<1>1. /\ DOMAIN filled \subseteq 0 .. Simd!RoundedUp(cells, Size) - 1
      /\ \A i \in 0 .. cells - 1 :
             i \in DOMAIN filled /\ filled[i] = Simd!PointOf(kind, Simd!At(i, start, b), scale)
  BY FilledAt DEF Aligned
<1>2. cells \in Nat
  BY CellsPositive
<1>3. CountOf(asked) = cells
  BY DEF CountOf
<1> HIDE DEF filled, cells
<1>4. \A cell, i : Simd!InPlace(cell, i, asked)
                       <=> cell = Simd!PointOf(kind, Simd!At(i, start, b), scale)
  BY DEF Simd!InPlace
<1>5. Simd!BlockSet(kind, start, b, scale) = Simd!NewSet(cells, Simd!NoiseOfCells(kind), filled, asked)
  BY DEF Simd!BlockSet, filled, cells
<1> HIDE DEF asked
<1>6. \A i \in 0 .. CountOf(asked) - 1 : i \in DOMAIN filled /\ Simd!InPlace(filled[i], i, asked)
  BY <1>1, <1>3, <1>4
<1> QED
  BY <1>1, <1>2, <1>5, <1>6, StoredRight

\* A set of vectors as FillVectorSet and FillSamplingVectorSet leave it.
VectorsOf(set) ==
    /\ set.of \in Blocks3 /\ set.size = Simd!Cells(set.of)
    /\ set.sampleScale \in Nat
    /\ \A i \in 0 .. set.size - 1 :
           /\ i \in DOMAIN set.at
           /\ set.at[i] = [a \in 1 .. 3 |->
                              Simd!Whole(Simd!Coords(i, set.of)[a] * Simd!Pow2(set.sampleScale))]
    /\ set.sampleScale > 0 =>
           /\ set.sampleSize \in Blocks3
           /\ set.of = Simd!SamplesOf(set.sampleSize, Simd!Pow2(set.sampleScale))

\* The noise of the cell c of a set of vectors.
VectorAt(c, size, offset) ==
    Simd!Placed(Simd!ToPoint([a \in 1 .. 3 |-> c[a] * size], offset), Simd!One)

LEMMA VectorAtSame ==
  ASSUME NEW c, NEW d, NEW size, NEW offset, Same(c, d)
  PROVE  VectorAt(c, size, offset) = VectorAt(d, size, offset)
<1>1. [a \in 1 .. 3 |-> c[a] * size] = [a \in 1 .. 3 |-> d[a] * size]
  BY DEF Same
<1> QED
  BY <1>1 DEF VectorAt

LEMMA VectorsFilledAt ==
  ASSUME VectorsOf(vectorSet), Aligned, NEW offset
  PROVE  LET filled == Simd!VectorsFilled(offset)
         IN  /\ vectorSet.size \in Nat
             /\ DOMAIN filled = 0 .. Simd!RoundedUp(vectorSet.size, Size) - 1
             /\ \A i \in 0 .. vectorSet.size - 1 :
                    /\ i \in DOMAIN filled
                    /\ filled[i] = VectorAt(Simd!Coords(i, vectorSet.of),
                                            Simd!Pow2(vectorSet.sampleScale), offset)
<1> DEFINE filled == Simd!VectorsFilled(offset)
           size == vectorSet.size
           at == vectorSet.at
           aligned == Simd!RoundedUp(size, Size)
           point(i) == [a \in 1 .. 3 |-> Simd!Coords(i, vectorSet.of)[a]
                                              * Simd!Pow2(vectorSet.sampleScale)]
           P(i) == Simd!Placed([a \in 1 .. 3 |-> Simd!Plus(at[i][a], offset[a])], Simd!One)
<1>1. size \in Nat
  BY CellsPositive DEF VectorsOf
<1>2. aligned \in Nat /\ size <= aligned
  <2> DEFINE k == (size + Size - 1) \div Size
  <2>1. aligned = k * Size /\ k \in Nat /\ size <= k * Size
    BY <1>1, Rounding DEF Aligned
  <2> HIDE DEF k, aligned
  <2> QED
    BY <2>1 DEF Aligned
<1>3. \A i \in 0 .. size - 1 :
         /\ i \in DOMAIN at
         /\ at[i] = [a \in 1 .. 3 |-> Simd!Whole(point(i)[a])]
  BY DEF VectorsOf
<1>4. filled = [i \in 0 .. aligned - 1 |->
                   IF i \notin DOMAIN at \/ at[i] = Simd!NoPoint THEN Simd!NoPoint ELSE P(i)]
  BY DEF Simd!VectorsFilled, Size
<1> HIDE DEF size, at, aligned, point, filled
<1>5. ASSUME NEW i \in 0 .. size - 1
      PROVE  filled[i] = VectorAt(Simd!Coords(i, vectorSet.of), Simd!Pow2(vectorSet.sampleScale), offset)
  <2>1. at[i] # Simd!NoPoint
    <3>1. at[i][1] = <<point(i)[1], 1>>
      <4>1. at[i] = [a \in 1 .. 3 |-> Simd!Whole(point(i)[a])]
        BY <1>3
      <4>2. at[i][1] = Simd!Whole(point(i)[1])
        BY <4>1
      <4> QED
        BY <4>2, Zenon DEF Simd!Whole
    <3>2. Simd!NoPoint[1] = <<0, 0>>
      BY DEF Simd!NoPoint, Simd!NoNumber
    <3>3. <<point(i)[1], 1>> # <<0, 0>>
      OBVIOUS
    <3> QED
      BY <3>1, <3>2, <3>3
  <2>2. filled[i] = P(i)
    <3>1. i \in 0 .. aligned - 1
      BY <1>1, <1>2
    <3>2. i \in DOMAIN at
      BY <1>3
    <3> HIDE DEF P
    <3> QED
      BY <1>4, <2>1, <3>1, <3>2
  <2>3. [a \in 1 .. 3 |-> Simd!Plus(at[i][a], offset[a])] = Simd!ToPoint(point(i), offset)
    BY <1>3 DEF Simd!ToPoint
  <2>4. filled[i] = Simd!Placed(Simd!ToPoint(point(i), offset), Simd!One)
    BY <2>2, <2>3
  <2> QED
    BY <2>4 DEF VectorAt, point
<1>6. DOMAIN filled = 0 .. aligned - 1 /\ 0 .. size - 1 \subseteq 0 .. aligned - 1
  BY <1>1, <1>2, <1>4
<1> QED
  BY <1>1, <1>5, <1>6 DEF filled, size, aligned

LEMMA VectorNoiseSetRight ==
  ASSUME VectorsOf(vectorSet), Aligned, NEW kind, NEW offset
  PROVE  Right(Simd!VectorNoiseSet(kind, offset))
<1> DEFINE asked == [how |-> "vectors", kind |-> kind, offset |-> offset]
           filled == Simd!VectorsFilled(offset)
<1>1. /\ vectorSet.size \in Nat
      /\ DOMAIN filled = 0 .. Simd!RoundedUp(vectorSet.size, Size) - 1
      /\ \A i \in 0 .. vectorSet.size - 1 :
             /\ i \in DOMAIN filled
             /\ filled[i] = VectorAt(Simd!Coords(i, vectorSet.of),
                                     Simd!Pow2(vectorSet.sampleScale), offset)
  BY VectorsFilledAt
<1>2. CountOf(asked) = vectorSet.size
  BY DEF CountOf
<1> HIDE DEF filled
<1>3. \A cell, i : Simd!InPlace(cell, i, asked)
                       <=> cell = VectorAt(Simd!Coords(i, vectorSet.of),
                                           Simd!Pow2(vectorSet.sampleScale), offset)
  BY DEF Simd!InPlace, VectorAt
<1>4. Simd!VectorNoiseSet(kind, offset) = Simd!NewSet(vectorSet.size, Simd!Noise(kind), filled, asked)
  BY DEF Simd!VectorNoiseSet, filled
<1> HIDE DEF asked
<1>5. \A i \in 0 .. CountOf(asked) - 1 : i \in DOMAIN filled /\ Simd!InPlace(filled[i], i, asked)
  BY <1>1, <1>2, <1>3
<1>6. DOMAIN filled \subseteq 0 .. Simd!RoundedUp(vectorSet.size, Size) - 1
  BY <1>1
<1> QED
  BY <1>1, <1>4, <1>5, <1>6, StoredRight

\* Between the samples that are numbered by f, a cell is between those around it.
LEMMA BetweenSamples ==
  ASSUME NEW b \in Blocks3, NEW size \in Nat, size > 0, NEW offset \in [1 .. 3 -> Nat],
         NEW samples \in Blocks3, NEW numbers, NEW i \in 0 .. Simd!Cells(b) - 1,
         \A e \in Simd!Cube : Within(SampleIn(i, b, size, offset, e), samples),
         NEW cell, cell = Between(numbers, samples, i, b, size, offset),
         NEW at, \A a \in 1 .. 3 : (Simd!Coords(i, b)[a] + offset[a]) % size = at[a] % size,
         NEW G,
         \A e \in Simd!Cube : numbers[Simd!Index(SampleIn(i, b, size, offset, e), samples)] = G[e]
  PROVE  cell = <<[e \in Simd!Cube |-> G[e]], Simd!MiddleOf(size, at)>>
<1>1. [a \in 1 .. 3 |-> Simd!Q(2 * ((Simd!Coords(i, b)[a] + offset[a]) % size) + 1, 2 * size)]
         = Simd!MiddleOf(size, at)
  BY DEF Simd!MiddleOf
<1>2. [e \in Simd!Cube |-> numbers[Simd!Index(SampleIn(i, b, size, offset, e), samples)]]
         = [e \in Simd!Cube |-> G[e]]
  OBVIOUS
<1> QED
  BY <1>1, <1>2 DEF Between

LEMMA SampledSetRight ==
  ASSUME Aligned, NEW start \in Triples3, NEW b \in Blocks3, NEW scale \in Int
  PROVE  Right(Simd!SampledSet(start, b, scale))
<1>1. CASE scale <= 0
  <2>1. Simd!SampledSet(start, b, scale) = Simd!BlockSet(m.noiseType, start, b, Simd!One)
    BY <1>1 DEF Simd!SampledSet
  <2> QED
    BY <2>1, BlockSetRight
<1>2. CASE scale > 0
  <2> DEFINE size == Simd!Pow2(scale)
             kind == m.noiseType
             offset == [a \in 1 .. 3 |-> (size - (start[a] % size)) % size]
             larger == [a \in 1 .. 3 |-> b[a] + offset[a]]
             samples == Simd!SamplesOf(larger, size)
             sstart == [a \in 1 .. 3 |-> start[a] \div size]
             numbers == Simd!Filled(kind, sstart, samples, Simd!Whole(size))
             r == Simd!Interpolated(numbers, samples, size, offset, b)
             asked == [how |-> "sampled", start |-> start, block |-> b, sampleSize |-> size]
             cells == Simd!Cells(b)
  <2>1. size \in Nat /\ size > 0
    BY <1>2, Pow2Positive
  <2>2. Simd!SampledSet(start, b, scale) = Simd!NewSet(cells, Simd!NoiseOfCells(kind), r, asked)
    BY <1>2 DEF Simd!SampledSet
  <2> HIDE DEF size
  <2>3. \A a \in 1 .. 3 : start[a] \in Int /\ start[a] \div size \in Int
                              /\ b[a] \in Nat /\ b[a] > 0 /\ offset[a] \in Nat
    <3> SUFFICES ASSUME NEW a \in 1 .. 3
                 PROVE  /\ start[a] \in Int /\ start[a] \div size \in Int
                        /\ b[a] \in Nat /\ b[a] > 0 /\ offset[a] \in Nat
      OBVIOUS
    <3>1. start[a] \in Int /\ b[a] \in Nat /\ b[a] > 0
      BY DEF Triples3, Blocks3
    <3>2. start[a] \div size \in Int /\ start[a] % size \in Nat
      BY <2>1, <3>1, DivMod
    <3>3. (size - (start[a] % size)) % size \in Nat
      BY <2>1, <3>2, DivMod
    <3> QED
      BY <3>1, <3>2, <3>3
  <2>4. offset \in [1 .. 3 -> Nat] /\ sstart \in Triples3
    BY <2>3 DEF Triples3
  <2> HIDE DEF offset
  <2>5. larger \in Blocks3
    BY <2>3, <2>4 DEF Blocks3
  <2>6. samples \in Blocks3 /\ \A a \in 1 .. 3 : b[a] + offset[a] <= (samples[a] - 1) * size
    <3>1. \A a \in 1 .. 3 : larger[a] = b[a] + offset[a]
      OBVIOUS
    <3> HIDE DEF larger
    <3> QED
      BY <2>1, <2>5, <3>1, SamplesTyped
  <2> HIDE DEF samples
  <2>7. /\ DOMAIN r = 0 .. cells - 1
        /\ \A i \in 0 .. cells - 1 :
               /\ r[i] = Between(numbers, samples, i, b, size, offset)
               /\ \A e \in Simd!Cube : Within(SampleIn(i, b, size, offset, e), samples)
    BY <2>1, <2>4, <2>6, InterpolatedAt
  <2>8. \A k \in 0 .. Simd!Cells(samples) - 1 :
            numbers[k] = Simd!PointOf(kind, Simd!At(k, sstart, samples), Simd!Whole(size))
    BY <2>4, <2>6, FilledAt DEF Aligned
  <2> HIDE DEF numbers, r
  <2>9. ASSUME NEW i \in 0 .. cells - 1,
               (\A a \in 1 .. 3 : start[a] % size = 0) \/ size = 2
        PROVE  LET at == Simd!At(i, start, b)
               IN  r[i] = <<[e \in Simd!Cube |->
                                Simd!PointOf(kind, Simd!SampleAt(size, at, e), Simd!Whole(size))],
                            Simd!MiddleOf(size, at)>>
    <3> DEFINE at == Simd!At(i, start, b)
               c == Simd!Coords(i, b)
               G == [e \in Simd!Cube |->
                        Simd!PointOf(kind, Simd!SampleAt(size, at, e), Simd!Whole(size))]
    <3>1. \A a \in 1 .. 3 : at[a] = start[a] + c[a]
      BY DEF Simd!At
    <3>2. \A a \in 1 .. 3 : c[a] \in Nat
      <4>1. i \in Nat /\ Block(b)
        BY BlocksAre, CellsPositive
      <4> QED
        BY <4>1, CoordsTyped
    <3> HIDE DEF at, c
    <3>3. ASSUME NEW a \in 1 .. 3
          PROVE  /\ (start[a] \div size) + ((c[a] + offset[a]) \div size) = at[a] \div size
                 /\ (c[a] + offset[a]) % size = at[a] % size
      <4> DEFINE s == start[a]
                 d == c[a]
      <4>1. s \in Int /\ d \in Nat /\ (s % size = 0 \/ size = 2)
        BY <2>3, <2>9, <3>2
      <4>2. offset[a] = (size - (s % size)) % size /\ at[a] = s + d
        BY <3>1 DEF offset
      <4> HIDE DEF s, d
      <4>3. LET o == (size - (s % size)) % size
            IN  /\ (s \div size) + ((d + o) \div size) = (s + d) \div size
                /\ (d + o) % size = (s + d) % size
        BY <2>1, <4>1, SampleShift
      <4> QED
        BY <4>2, <4>3 DEF s, d
    <3>4. ASSUME NEW e \in Simd!Cube
          PROVE  numbers[Simd!Index(SampleIn(i, b, size, offset, e), samples)] = G[e]
      <4> DEFINE v == SampleIn(i, b, size, offset, e)
                 k == Simd!Index(v, samples)
                 w == Simd!At(k, sstart, samples)
      <4>1. Within(v, samples)
        BY <2>7
      <4>2. \A a \in 1 .. 3 : v[a] = ((c[a] + offset[a]) \div size) + e[a]
        BY DEF SampleIn, BaseOf, c
      <4>3. \A a \in 1 .. 3 : e[a] \in 0 .. 1
        BY DEF Simd!Cube
      <4> HIDE DEF v
      <4>4. k \in 0 .. Simd!Cells(samples) - 1 /\ Same(Simd!Coords(k, samples), v)
        BY <2>6, <4>1, IndexOf
      <4> HIDE DEF k
      <4>5. \A a \in 1 .. 3 : w[a] = (start[a] \div size) + v[a]
        <5>1. \A a \in 1 .. 3 : w[a] = sstart[a] + Simd!Coords(k, samples)[a]
          BY DEF Simd!At
        <5> HIDE DEF w
        <5>2. \A a \in 1 .. 3 : Simd!Coords(k, samples)[a] = v[a]
          BY <4>4 DEF Same
        <5> QED
          BY <5>1, <5>2
      <4> HIDE DEF w
      <4>6. \A a \in 1 .. 3 : w[a] = (at[a] \div size) + e[a]
        <5> SUFFICES ASSUME NEW a \in 1 .. 3 PROVE w[a] = (at[a] \div size) + e[a]
          OBVIOUS
        <5> DEFINE q == (c[a] + offset[a]) \div size
                   p == start[a] \div size
        <5>1. q \in Int /\ p \in Int /\ e[a] \in Int
          <6>1. c[a] + offset[a] \in Int
            BY <2>3, <3>2
          <6> QED
            BY <2>1, <2>3, <4>3, <6>1, DivMod
        <5>2. w[a] = p + v[a] /\ v[a] = q + e[a] /\ p + q = at[a] \div size
          BY <3>3, <4>2, <4>5
        <5> HIDE DEF p, q
        <5> QED
          BY <5>1, <5>2
      <4>7. Same(w, Simd!SampleAt(size, at, e))
        BY <4>6 DEF Same, Simd!SampleAt
      <4>8. numbers[k] = Simd!PointOf(kind, w, Simd!Whole(size))
        BY <2>8, <4>4 DEF w
      <4>9. numbers[k] = Simd!PointOf(kind, Simd!SampleAt(size, at, e), Simd!Whole(size))
        BY <4>7, <4>8, PointOfSame
      <4> QED
        BY <4>9 DEF k, v
    <3> HIDE DEF G
    <3>5. r[i] = <<[e \in Simd!Cube |-> G[e]], Simd!MiddleOf(size, at)>>
      <4>1. \A a \in 1 .. 3 : (Simd!Coords(i, b)[a] + offset[a]) % size = at[a] % size
        BY <3>3 DEF c
      <4>2. r[i] = Between(numbers, samples, i, b, size, offset)
        BY <2>7
      <4>3. \A e \in Simd!Cube : Within(SampleIn(i, b, size, offset, e), samples)
        BY <2>7
      <4> QED
        BY <2>1, <2>4, <2>6, <3>4, <4>1, <4>2, <4>3, BetweenSamples
    <3> QED
      BY <3>5 DEF G, at
  <2>10. CountOf(asked) = cells
    BY DEF CountOf
  <2>11. \A cell, i : Simd!InPlace(cell, i, asked) <=>
             ((\A a \in 1 .. 3 : start[a] % size = 0) \/ size = 2 =>
                 LET at == Simd!At(i, start, b)
                 IN  cell = <<[e \in Simd!Cube |->
                                 Simd!PointOf(kind, Simd!SampleAt(size, at, e), Simd!Whole(size))],
                              Simd!MiddleOf(size, at)>>)
    BY DEF Simd!InPlace
  <2>12. cells \in Nat
    BY CellsPositive
  <2> HIDE DEF asked, cells
  <2>13. \A i \in 0 .. CountOf(asked) - 1 : i \in DOMAIN r /\ Simd!InPlace(r[i], i, asked)
    BY <2>7, <2>9, <2>10, <2>11
  <2>14. DOMAIN r \subseteq 0 .. Simd!RoundedUp(cells, Size) - 1
    <3> DEFINE k == (cells + Size - 1) \div Size
    <3>1. Simd!RoundedUp(cells, Size) = k * Size /\ k \in Nat /\ cells <= k * Size
      BY <2>12, Rounding DEF Aligned
    <3> HIDE DEF k
    <3> QED
      BY <2>7, <2>12, <3>1 DEF Aligned
  <2> QED
    BY <2>2, <2>12, <2>13, <2>14, StoredRight
<1> QED
  BY <1>1, <1>2

LEMMA SampledVectorNoiseSetRight ==
  ASSUME VectorsOf(vectorSet), Aligned, NEW offset
  PROVE  Right(Simd!SampledVectorNoiseSet(offset))
<1> DEFINE scale == vectorSet.sampleScale
<1>1. CASE scale <= 0
  <2>1. Simd!SampledVectorNoiseSet(offset) = Simd!VectorNoiseSet(m.noiseType, offset)
    BY <1>1 DEF Simd!SampledVectorNoiseSet
  <2> QED
    BY <2>1, VectorNoiseSetRight
<1>2. CASE scale > 0
  <2> DEFINE size == Simd!Pow2(scale)
             b == vectorSet.sampleSize
             samples == vectorSet.of
             half == [a \in 1 .. 3 |-> Simd!Minus(offset[a], Simd!Half)]
             numbers == Simd!VectorsFilled(half)
             zero == <<0, 0, 0>>
             r == Simd!Interpolated(numbers, samples, size, zero, b)
             asked == [how |-> "sampled vectors", block |-> b, sampleSize |-> size, offset |-> offset]
             cells == Simd!Cells(b)
  <2>1. size \in Nat /\ size > 0
    BY <1>2, Pow2Positive DEF VectorsOf
  <2>2. /\ b \in Blocks3 /\ samples \in Blocks3 /\ samples = Simd!SamplesOf(b, size)
        /\ vectorSet.size = Simd!Cells(samples)
    BY <1>2 DEF VectorsOf
  <2>3. Simd!SampledVectorNoiseSet(offset) = Simd!NewSet(cells, Simd!Noise(m.noiseType), r, asked)
    <3> DEFINE q == Simd!Interpolated(numbers, Simd!SamplesOf(b, size), size, zero, b)
    <3>1. ~(scale <= 0)
      BY <1>2 DEF VectorsOf
    <3>2. Simd!SampledVectorNoiseSet(offset) = Simd!NewSet(cells, Simd!Noise(m.noiseType), q, asked)
      BY <3>1, Zenon DEF Simd!SampledVectorNoiseSet
    <3>3. q = r
      BY <2>2
    <3> HIDE DEF q, r, cells, asked
    <3> QED
      BY <3>2, <3>3
  <2>4. \A k \in 0 .. vectorSet.size - 1 : numbers[k] = VectorAt(Simd!Coords(k, samples), size, half)
    BY VectorsFilledAt
  <2> HIDE DEF size, b, samples, half, numbers
  <2>5. zero \in [1 .. 3 -> Nat] /\ \A a \in 1 .. 3 : zero[a] = 0
    OBVIOUS
  <2>6. \A a \in 1 .. 3 : b[a] + zero[a] <= (samples[a] - 1) * size
    <3>1. \A a \in 1 .. 3 : b[a] \in Nat
      BY <2>2 DEF Blocks3
    <3>2. \A a \in 1 .. 3 : b[a] <= (samples[a] - 1) * size
      BY <2>1, <2>2, SamplesTyped
    <3>3. \A a \in 1 .. 3 : b[a] + zero[a] = b[a]
      BY <2>5, <3>1
    <3> QED
      BY <3>2, <3>3
  <2> HIDE DEF zero
  <2>7. /\ DOMAIN r = 0 .. cells - 1
        /\ \A i \in 0 .. cells - 1 :
               /\ r[i] = Between(numbers, samples, i, b, size, zero)
               /\ \A e \in Simd!Cube : Within(SampleIn(i, b, size, zero, e), samples)
    BY <2>1, <2>2, <2>5, <2>6, InterpolatedAt
  <2> HIDE DEF r
  <2>8. ASSUME NEW i \in 0 .. cells - 1
        PROVE  r[i] = <<[e \in Simd!Cube |->
                             VectorAt(Simd!SampleAt(size, Simd!Coords(i, b), e), size, half)],
                        Simd!MiddleOf(size, Simd!Coords(i, b))>>
    <3> DEFINE c == Simd!Coords(i, b)
               G == [e \in Simd!Cube |-> VectorAt(Simd!SampleAt(size, c, e), size, half)]
    <3>1. \A a \in 1 .. 3 : c[a] \in Nat
      <4>1. i \in Nat /\ Block(b)
        BY <2>2, BlocksAre, CellsPositive
      <4> QED
        BY <4>1, CoordsTyped
    <3> HIDE DEF c
    <3>2. \A a \in 1 .. 3 : c[a] + zero[a] = c[a]
      BY <2>5, <3>1
    <3>3. ASSUME NEW e \in Simd!Cube
          PROVE  numbers[Simd!Index(SampleIn(i, b, size, zero, e), samples)] = G[e]
      <4> DEFINE v == SampleIn(i, b, size, zero, e)
                 k == Simd!Index(v, samples)
      <4>1. Within(v, samples)
        BY <2>7
      <4>2. \A a \in 1 .. 3 : v[a] = (c[a] \div size) + e[a]
        <5>1. \A a \in 1 .. 3 : v[a] = ((c[a] + zero[a]) \div size) + e[a]
          BY DEF SampleIn, BaseOf, c
        <5> HIDE DEF v
        <5> QED
          BY <3>2, <5>1
      <4> HIDE DEF v
      <4>3. k \in 0 .. Simd!Cells(samples) - 1 /\ Same(Simd!Coords(k, samples), v)
        BY <2>2, <4>1, IndexOf
      <4> HIDE DEF k
      <4>4. Same(Simd!Coords(k, samples), Simd!SampleAt(size, c, e))
        BY <4>2, <4>3 DEF Same, Simd!SampleAt
      <4>5. numbers[k] = VectorAt(Simd!Coords(k, samples), size, half)
        BY <2>2, <2>4, <4>3
      <4>6. numbers[k] = VectorAt(Simd!SampleAt(size, c, e), size, half)
        BY <4>4, <4>5, VectorAtSame
      <4> QED
        BY <4>6 DEF k, v
    <3> HIDE DEF G
    <3>4. r[i] = <<[e \in Simd!Cube |-> G[e]], Simd!MiddleOf(size, c)>>
      <4>1. \A a \in 1 .. 3 : (Simd!Coords(i, b)[a] + zero[a]) % size = c[a] % size
        BY <3>2 DEF c
      <4>2. r[i] = Between(numbers, samples, i, b, size, zero)
        BY <2>7
      <4>3. \A e \in Simd!Cube : Within(SampleIn(i, b, size, zero, e), samples)
        BY <2>7
      <4> QED
        BY <2>1, <2>2, <2>5, <3>3, <4>1, <4>2, <4>3, BetweenSamples
    <3> QED
      BY <3>4 DEF G, c
  <2>9. CountOf(asked) = cells
    BY DEF CountOf
  <2>10. \A cell, i : Simd!InPlace(cell, i, asked) <=>
              cell = <<[e \in Simd!Cube |->
                           VectorAt(Simd!SampleAt(size, Simd!Coords(i, b), e), size, half)],
                       Simd!MiddleOf(size, Simd!Coords(i, b))>>
    BY DEF Simd!InPlace, VectorAt, half
  <2>11. cells \in Nat
    BY <2>2, CellsPositive
  <2> HIDE DEF asked, cells
  <2>12. \A i \in 0 .. CountOf(asked) - 1 : i \in DOMAIN r /\ Simd!InPlace(r[i], i, asked)
    BY <2>7, <2>8, <2>9, <2>10
  <2>13. DOMAIN r \subseteq 0 .. Simd!RoundedUp(cells, Size) - 1
    <3> DEFINE k == (cells + Size - 1) \div Size
    <3>1. Simd!RoundedUp(cells, Size) = k * Size /\ k \in Nat /\ cells <= k * Size
      BY <2>11, Rounding DEF Aligned
    <3> HIDE DEF k
    <3> QED
      BY <2>7, <2>11, <3>1 DEF Aligned
  <2> QED
    BY <2>3, <2>11, <2>12, <2>13, StoredRight
<1> QED
  BY <1>1, <1>2 DEF VectorsOf

\* Sets of vectors, of whatever width.
LEMMA VectorSetOfIs ==
  ASSUME NEW b \in Blocks3, NEW scale \in Nat, NEW sampleSize, Simd!Width \in Nat, Simd!Width > 0,
         scale > 0 => sampleSize \in Blocks3 /\ b = Simd!SamplesOf(sampleSize, Simd!Pow2(scale))
  PROVE  VectorsOf(Simd!VectorSetOf(b, Simd!Pow2(scale), scale, sampleSize))
<1> DEFINE cells == Simd!Cells(b)
           aligned == Simd!AlignedSize(cells)
           size == Simd!Pow2(scale)
           point(i) == [a \in 1 .. 3 |-> Simd!Whole(Simd!Coords(i, b)[a] * size)]
           set == Simd!VectorSetOf(b, size, scale, sampleSize)
           at == [i \in 0 .. aligned - 1 |-> IF i < cells THEN point(i) ELSE Simd!NoPoint]
<1>1. set = [size |-> cells, of |-> b, sampleScale |-> scale, sampleSize |-> sampleSize, at |-> at]
  BY DEF Simd!VectorSetOf
<1>2. cells \in Nat
  BY CellsPositive
<1>3. aligned \in Nat /\ cells <= aligned
  <2> DEFINE k == (cells + Simd!Width - 1) \div Simd!Width
  <2>1. aligned = k * Simd!Width /\ k \in Nat /\ cells <= k * Simd!Width
    BY <1>2, Rounding DEF Simd!AlignedSize
  <2> HIDE DEF k, aligned
  <2> QED
    BY <2>1
<1> HIDE DEF cells, aligned, point
<1>4. \A i \in 0 .. cells - 1 : i \in DOMAIN at /\ at[i] = point(i)
  BY <1>2, <1>3
<1> HIDE DEF at, set, size
<1>5. /\ set.size = cells /\ set.of = b /\ set.sampleScale = scale /\ set.sampleSize = sampleSize
      /\ set.at = at
  BY <1>1
<1>6. \A i \in 0 .. set.size - 1 :
          /\ i \in DOMAIN set.at
          /\ set.at[i] = [a \in 1 .. 3 |->
                              Simd!Whole(Simd!Coords(i, set.of)[a] * Simd!Pow2(set.sampleScale))]
  BY <1>4, <1>5 DEF point, size
<1>7. VectorsOf(set)
  BY <1>5, <1>6 DEF VectorsOf, cells
<1> QED
  BY <1>7 DEF set, size

LEMMA WidthPositive ==
  Simd!Width \in Nat /\ Simd!Width > 0
<1> DEFINE classes == {c \in Compiled \cap {1, 3, 4} : c <= Simd!GetSIMDLevel}
<1>1. Simd!Width = IF classes = {} THEN 1 ELSE <<1, 4, 4, 8, 16>>[Simd!Max(classes)+1]
  BY DEF Simd!Width, Simd!VectorSize, Simd!FN_SSE2, Simd!FN_AVX2, Simd!FN_AVX512
<1>2. classes \subseteq {1, 3, 4}
  OBVIOUS
<1> HIDE DEF classes
<1>3. classes # {} => Simd!Max(classes) \in {1, 3, 4}
  <2> SUFFICES ASSUME classes # {} PROVE Simd!Max(classes) \in {1, 3, 4}
    OBVIOUS
  <2>1. \E k \in classes : \A n \in classes : k >= n
    <3>1. CASE 4 \in classes
      <4>1. \A n \in classes : 4 >= n
        BY <1>2
      <4> QED
        BY <3>1, <4>1
    <3>2. CASE 4 \notin classes /\ 3 \in classes
      <4>1. \A n \in classes : 3 >= n
        BY <1>2, <3>2
      <4> QED
        BY <3>2, <4>1
    <3>3. CASE 4 \notin classes /\ 3 \notin classes
      <4>1. PICK k \in classes : TRUE
        OBVIOUS
      <4>2. \A n \in classes : n = 1
        BY <1>2, <3>3
      <4>3. \A n \in classes : k >= n
        BY <4>1, <4>2
      <4> QED
        BY <4>1, <4>3
    <3> QED
      BY <3>1, <3>2, <3>3
  <2>2. Simd!Max(classes) \in classes
    BY <2>1 DEF Simd!Max
  <2> QED
    BY <1>2, <2>2
<1> QED
  BY <1>1, <1>3

\* NewFastNoiseSIMD takes one of the classes compiled in.
LEMMA ClassChosen ==
  LET fit == {c \in Compiled : c <= Simd!GetSIMDLevel}
  IN  (IF fit = {} THEN Simd!Min(Compiled) ELSE Simd!Max(fit)) \in Compiled
<1> DEFINE fit == {c \in Compiled : c <= Simd!GetSIMDLevel}
<1>1. Compiled \subseteq 0 .. 4 /\ Compiled # {}
  BY NoiseAssumption DEF Simd!Assumption, Simd!FN_NO_SIMD_FALLBACK, Simd!FN_AVX512
<1>2. Simd!Min(Compiled) \in Compiled
  <2>1. PICK c \in Compiled : \A k \in Compiled : c <= k
    <3>1. Compiled \subseteq Nat
      BY <1>1
    <3> QED
      BY <1>1, <3>1, LeastNumber
  <2> QED
    BY <2>1 DEF Simd!Min
<1>3. fit \subseteq Compiled
  OBVIOUS
<1> HIDE DEF fit
<1>4. ASSUME fit # {} PROVE Simd!Max(fit) \in fit
  <2> DEFINE away == {4 - c : c \in fit}
  <2>1. away \subseteq Nat /\ away # {}
    <3>1. \A c \in fit : c \in 0 .. 4
      BY <1>1, <1>3
    <3>2. \A c \in fit : 4 - c \in Nat
      BY <3>1
    <3>3. away \subseteq Nat
      BY <3>2
    <3>4. PICK c \in fit : TRUE
      BY <1>4
    <3>5. 4 - c \in away
      BY <3>4
    <3> QED
      BY <3>3, <3>5
  <2>2. PICK n \in away : \A k \in away : n <= k
    BY <2>1, LeastNumber
  <2>3. PICK c \in fit : n = 4 - c
    BY <2>2
  <2>4. \A k \in fit : c >= k
    <3> SUFFICES ASSUME NEW k \in fit PROVE c >= k
      OBVIOUS
    <3>1. c \in 0 .. 4 /\ k \in 0 .. 4 /\ 4 - c <= 4 - k
      BY <1>1, <1>3, <2>2, <2>3
    <3> QED
      BY <3>1
  <2> QED
    BY <2>4 DEF Simd!Max
<1> QED
  BY <1>2, <1>3, <1>4 DEF fit

-----------------------------------------------------------------------------
(* The invariant.                                                          *)

ObjectFits == "class" \in DOMAIN m /\ m.class \in Compiled /\ level = m.class
Filling ==
    /\ m # Simd!NoObject => ObjectFits
    /\ vectorSet # Simd!NoSet => VectorsOf(vectorSet)
    /\ noiseSet # Simd!NoSet => m # Simd!NoObject /\ Right(noiseSet)
FillingInv == library = "FastNoiseSIMD" => Filling

LEMMA InstructionSets ==
  /\ Compiled \subseteq 0 .. 4
  /\ Blocks \subseteq Blocks3 /\ Starts \subseteq Triples3 /\ SampleScales \subseteq Int
  /\ "class" \notin DOMAIN Values
BY NoiseAssumption DEF Simd!Assumption, Simd!FN_NO_SIMD_FALLBACK, Simd!FN_AVX512, Simd!Triples,
   Blocks3, Triples3, Simd!Kept

LEMMA RightKept ==
  ASSUME m' = m, vectorSet' = vectorSet, Right(noiseSet')
  PROVE  Right(noiseSet)'
<1>1. \A cell, i, asked : (Simd!InPlace(cell, i, asked))' <=> Simd!InPlace(cell, i, asked)
  BY SMTT(60) DEF Simd!InPlace, Simd!PointOf, Simd!Placed
<1>2. \A asked : (CountOf(asked))' = CountOf(asked)
  BY DEF CountOf
<1> QED
  BY <1>1, <1>2 DEF Right

LEMMA FillingInit ==
  ASSUME Init
  PROVE  FillingInv
BY DEF Init, FillingInv, Filling, Simd!Init

\* A call that leaves the sets as they are, where there are none.
LEMMA SettingKeeps ==
  ASSUME Filling, NEW new, Simd!Setting(new),
         m # Simd!NoObject => "class" \in DOMAIN new /\ new.class = m.class
  PROVE  Filling'
BY DEF Filling, Simd!Setting, ObjectFits

LEMMA LevelStays ==
  ASSUME Filling, m # Simd!NoObject
  PROVE  Simd!GetSIMDLevel = level
<1>1. level \in Compiled
  BY DEF Filling, ObjectFits
<1>2. level \in 0 .. 4
  BY <1>1, InstructionSets
<1>3. ~(level < 0)
  BY <1>2
<1> QED
  BY <1>3 DEF Simd!GetSIMDLevel

LEMMA FillsKeeps ==
  ASSUME Filling, NEW set, Simd!Fills(set),
         Aligned => Right(set)
  PROVE  Filling'
<1>1. m # Simd!NoObject /\ noiseSet' = set /\ m' = m /\ vectorSet' = vectorSet /\ level' = level
  BY LevelStays DEF Simd!Fills
<1>2. Right(set)
  BY <1>1, ClassAligned DEF Filling, ObjectFits
<1>3. Right(noiseSet)'
  BY <1>1, <1>2, RightKept
<1>4. (m # Simd!NoObject => ObjectFits)'
  BY <1>1 DEF Filling, ObjectFits
<1>5. (vectorSet # Simd!NoSet => VectorsOf(vectorSet))'
  BY <1>1 DEF Filling, VectorsOf
<1> QED
  BY <1>1, <1>3, <1>4, <1>5 DEF Filling

LEMMA NewVectorSetKeeps ==
  ASSUME Filling, NEW set, Simd!NewVectorSet(set), VectorsOf(set)
  PROVE  Filling'
<1>1. noiseSet = Simd!NoSet /\ noiseSet' = noiseSet /\ m' = m /\ vectorSet' = set
  BY DEF Simd!NewVectorSet
<1>2. (m # Simd!NoObject => ObjectFits)'
  BY <1>1, LevelStays DEF Filling, ObjectFits, Simd!NewVectorSet
<1>3. VectorsOf(vectorSet)'
  BY <1>1 DEF VectorsOf
<1> QED
  BY <1>1, <1>2, <1>3 DEF Filling

LEMMA FillVectorSetKeeps ==
  ASSUME Filling, NEW b \in Blocks3, Simd!FillVectorSet(b)
  PROVE  Filling'
<1> DEFINE none == <<-1, -1, -1>>
<1>1. VectorsOf(Simd!VectorSetOf(b, Simd!Pow2(0), 0, none))
  <2>1. 0 \in Nat /\ ~(0 > 0)
    OBVIOUS
  <2> QED
    BY <2>1, WidthPositive, VectorSetOfIs
<1>2. Simd!NewVectorSet(Simd!VectorSetOf(b, Simd!Pow2(0), 0, none))
  BY Pow2Positive DEF Simd!FillVectorSet
<1> QED
  BY <1>1, <1>2, NewVectorSetKeeps

LEMMA FillingStep ==
  ASSUME Filling, Simd!Next
  PROVE  Filling'
<1>1. ASSUME NEW l \in Compiled, Simd!SetSIMDLevel(l) PROVE Filling'
  BY <1>1 DEF Filling, Simd!SetSIMDLevel
<1>2. ASSUME NEW seed \in Seeds, Simd!NewFastNoiseSIMD(seed) PROVE Filling'
  <2>1. m = Simd!NoObject /\ vectorSet' = vectorSet /\ noiseSet' = noiseSet
    BY <1>2 DEF Simd!NewFastNoiseSIMD
  <2>2. PICK class \in Compiled : m' = Simd!Defaults(class, seed) /\ level' = class
    BY <1>2, ClassChosen DEF Simd!NewFastNoiseSIMD
  <2>3. "class" \in DOMAIN m' /\ m'.class = class
    BY <2>2 DEF Simd!Defaults
  <2> QED
    BY <2>1, <2>2, <2>3 DEF Filling, ObjectFits, VectorsOf
<1>3. ASSUME NEW name \in DOMAIN Values, Simd!SetMember(name) PROVE Filling'
  <2>1. PICK value \in Values[name] : Simd!Setting([m EXCEPT ![name] = value])
    BY <1>3 DEF Simd!SetMember
  <2>2. name # "class"
    BY InstructionSets
  <2> QED
    BY <2>1, <2>2, SettingKeeps DEF Filling, ObjectFits
<1>4. ASSUME NEW n \in OctaveCounts, Simd!SetFractalOctaves(n) \/ Simd!SetPerturbFractalOctaves(n)
      PROVE  Filling'
  BY <1>4, SettingKeeps DEF Simd!SetFractalOctaves, Simd!SetPerturbFractalOctaves, Filling, ObjectFits
<1>5. ASSUME NEW g \in Gains, Simd!SetFractalGain(g) \/ Simd!SetPerturbFractalGain(g)
      PROVE  Filling'
  BY <1>5, SettingKeeps DEF Simd!SetFractalGain, Simd!SetPerturbFractalGain, Filling, ObjectFits
<1>6. ASSUME NEW amp \in Amps, Simd!SetPerturbAmp(amp) PROVE Filling'
  BY <1>6, SettingKeeps DEF Simd!SetPerturbAmp, Filling, ObjectFits
<1>7. ASSUME NEW i \in Indices, NEW j \in Indices, Simd!SetCellularDistance2Indicies(i, j)
      PROVE  Filling'
  BY <1>7, SettingKeeps DEF Simd!SetCellularDistance2Indicies, Filling, ObjectFits
<1>8. ASSUME NEW start \in Starts, NEW block \in Blocks, NEW scale \in Scales,
             Simd!GetNoiseSet(start, block, scale)
      PROVE  Filling'
  BY <1>8, InstructionSets, BlockSetRight, FillsKeeps DEF Simd!GetNoiseSet, Simd!Gets
<1>9. ASSUME NEW kind \in OtherKinds, NEW block \in Blocks,
             Simd!GetSet(kind, <<0, 0, 0>>, block, Simd!One)
      PROVE  Filling'
  <2>1. <<0, 0, 0>> \in Triples3
    BY DEF Triples3
  <2> QED
    BY <1>9, <2>1, InstructionSets, BlockSetRight, FillsKeeps DEF Simd!GetSet, Simd!Gets
<1>10. ASSUME NEW start \in Starts, NEW block \in Blocks, NEW s \in SampleScales,
              Simd!GetSampledNoiseSet(start, block, s)
       PROVE  Filling'
  BY <1>10, InstructionSets, SampledSetRight, FillsKeeps DEF Simd!GetSampledNoiseSet, Simd!Gets
<1>11. ASSUME NEW kind \in OtherKinds, NEW offset \in Offsets, Simd!FillFromVectors(kind, offset)
       PROVE  Filling'
  <2>1. VectorsOf(vectorSet)
    BY <1>11 DEF Simd!FillFromVectors, Filling
  <2> QED
    BY <1>11, <2>1, VectorNoiseSetRight, FillsKeeps DEF Simd!FillFromVectors
<1>12. ASSUME NEW offset \in Offsets, Simd!FillSampledFromVectors(offset) PROVE Filling'
  <2>1. VectorsOf(vectorSet)
    BY <1>12 DEF Simd!FillSampledFromVectors, Filling
  <2> QED
    BY <1>12, <2>1, SampledVectorNoiseSetRight, FillsKeeps DEF Simd!FillSampledFromVectors
<1>13. ASSUME NEW block \in Blocks, Simd!FillVectorSet(block) PROVE Filling'
  BY <1>13, InstructionSets, FillVectorSetKeeps
<1>14. ASSUME NEW block \in Blocks, NEW s \in SampleScales, Simd!FillSamplingVectorSet(s, block)
       PROVE  Filling'
  <2>1. block \in Blocks3 /\ s \in Int
    BY InstructionSets
  <2>2. CASE s <= 0
    BY <1>14, <2>1, <2>2, FillVectorSetKeeps DEF Simd!FillSamplingVectorSet
  <2>3. CASE s > 0
    <3> DEFINE samples == Simd!SamplesOf(block, Simd!Pow2(s))
    <3>1. s \in Nat /\ Simd!Pow2(s) \in Nat /\ Simd!Pow2(s) > 0
      BY <2>1, <2>3, Pow2Positive
    <3>2. samples \in Blocks3
      BY <2>1, <3>1, SamplesTyped
    <3>3. VectorsOf(Simd!VectorSetOf(samples, Simd!Pow2(s), s, block))
      BY <2>1, <3>1, <3>2, WidthPositive, VectorSetOfIs
    <3>4. Simd!NewVectorSet(Simd!VectorSetOf(samples, Simd!Pow2(s), s, block))
      BY <1>14, <2>1, <2>3 DEF Simd!FillSamplingVectorSet
    <3> HIDE DEF samples
    <3> QED
      BY <3>3, <3>4, NewVectorSetKeeps
  <2> QED
    BY <2>1, <2>2, <2>3
<1>15. ASSUME Simd!FreeNoiseSet PROVE Filling'
  <2>1. noiseSet' = Simd!NoSet /\ m' = m /\ vectorSet' = vectorSet
    BY <1>15 DEF Simd!FreeNoiseSet
  <2> QED
    BY <1>15, <2>1, LevelStays DEF Filling, ObjectFits, VectorsOf, Simd!FreeNoiseSet
<1>16. ASSUME Simd!FreeVectorSet PROVE Filling'
  <2>1. noiseSet' = Simd!NoSet /\ vectorSet' = Simd!NoSet /\ m' = m
    BY <1>16 DEF Simd!FreeVectorSet
  <2> QED
    BY <1>16, <2>1, LevelStays DEF Filling, ObjectFits, Simd!FreeVectorSet
<1> QED
  BY <1>1, <1>2, <1>3, <1>4, <1>5, <1>6, <1>7, <1>8, <1>9, <1>10, <1>11, <1>12, <1>13, <1>14,
     <1>15, <1>16 DEF Simd!Next

LEMMA FillingSame ==
  ASSUME FillingInv, UNCHANGED vars
  PROVE  FillingInv'
<1>1. /\ library' = library /\ m' = m /\ level' = level /\ vectorSet' = vectorSet
      /\ noiseSet' = noiseSet
  BY DEF vars
<1>2. Right(noiseSet) => Right(noiseSet)'
  BY <1>1, RightKept
<1> QED
  BY <1>1, <1>2 DEF FillingInv, Filling, ObjectFits, VectorsOf

\* Every number of a set of FastNoiseSIMD is the noise of its own cell (AXIS_RESET
\* and SET_BUILDER in FastNoiseSIMD_internal.cpp, FillSampledNoiseSet): for every
\* block and start, sampled or not, of a set of vectors or not, and by vectors of
\* every size; and no vector is stored past the set's end.
THEOREM SetsFilledCorrect ==
  Spec => []SetsFilled
<1>1. Init => FillingInv
  BY FillingInit
<1>2. FillingInv /\ [Next]_vars => FillingInv'
  <2> SUFFICES ASSUME FillingInv, [Next]_vars PROVE FillingInv'
    OBVIOUS
  <2>1. CASE Next
    <3>1. CASE library = "FastNoiseSIMD" /\ Simd!Next
      BY <3>1, FillingStep DEF FillingInv
    <3>2. CASE library = "FastNoise" /\ library' = library
      BY <3>2 DEF FillingInv
    <3> QED
      BY <2>1, <3>1, <3>2 DEF Next
  <2>2. CASE UNCHANGED vars
    BY <2>2, FillingSame
  <2> QED
    BY <2>1, <2>2
<1>3. FillingInv => SetsFilled
  BY FilledIsRight DEF FillingInv, Filling, SetsFilled
<1> QED
  BY <1>1, <1>2, <1>3, PTL DEF Spec

-----------------------------------------------------------------------------
(* Rational numbers.                                                       *)

\* The numbers that are not negative.
Rationals == Nat \X (Nat \ {0})

\* The rounds of Euclid's algorithm: what is known of Gcd after n of them.
RoundOf(g) == [x \in Nat \X Nat |-> IF x[2] = 0 THEN x[1] ELSE g[<<x[2], x[1] % x[2]>>]]

LEMMA GcdIs ==
  \A p, q \in Nat : Simd!Gcd[<<p, q>>] = IF q = 0 THEN p ELSE Simd!Gcd[<<q, p % q>>]
<1> DEFINE S == [Nat \X Nat -> Nat]
           a == [x \in Nat \X Nat |-> 0]
           step == [x \in Nat \X S |-> RoundOf(x[2])]
<1>1. PICK G : Recursive(G, a, step)
  BY RecursiveDefined
<1>2. ASSUME NEW g \in S PROVE RoundOf(g) \in S
  <2>1. \A x \in Nat \X Nat : x[1] \in Nat /\ x[2] \in Nat
    OBVIOUS
  <2>2. ASSUME NEW x \in Nat \X Nat, x[2] # 0 PROVE <<x[2], x[1] % x[2]>> \in Nat \X Nat
    <3>1. x[1] % x[2] \in Nat
      BY <2>1, <2>2, DivMod
    <3> QED
      BY <2>1, <3>1
  <2> QED
    BY <2>1, <2>2 DEF RoundOf
<1>3. a \in S
  OBVIOUS
<1>4. \A n \in Nat, s \in S : step[<<n+1, s>>] = RoundOf(s)
  OBVIOUS
<1>5. \A n \in Nat : G[n] \in S
  <2>1. \A n \in Nat, s \in S : step[<<n+1, s>>] \in S
    BY <1>2, <1>4
  <2> HIDE DEF S, a, step
  <2> QED
    BY <1>1, <1>3, <2>1, RecursiveIn
<1>6. \A n \in Nat : G[n+1] = RoundOf(G[n])
  <2> SUFFICES ASSUME NEW n \in Nat PROVE G[n+1] = RoundOf(G[n])
    OBVIOUS
  <2>1. G[n+1] = step[<<n+1, G[n]>>]
    <3> HIDE DEF step
    <3> QED
      BY <1>1 DEF Recursive
  <2> QED
    BY <1>4, <1>5, <2>1
<1> HIDE DEF S, a, step
<1>7. \A n, p, q \in Nat : G[n+1][<<p, q>>] = IF q = 0 THEN p ELSE G[n][<<q, p % q>>]
  BY <1>6 DEF RoundOf
<1> DEFINE T == {n \in Nat : \A p, q \in Nat : q < n => G[n][<<p, q>>] = G[n+1][<<p, q>>]}
<1>8. \A n \in Nat : n \in T
  <2>1. 0 \in T
    OBVIOUS
  <2>2. ASSUME NEW n \in Nat, n \in T PROVE n+1 \in T
    <3> SUFFICES ASSUME NEW p \in Nat, NEW q \in Nat, q < n+1
                 PROVE  G[n+1][<<p, q>>] = G[(n+1)+1][<<p, q>>]
      OBVIOUS
    <3>1. CASE q = 0
      <4> DEFINE k == n+1
      <4>1. k \in Nat
        OBVIOUS
      <4> HIDE DEF k
      <4>2. G[k+1][<<p, q>>] = p
        BY <1>7, <3>1, <4>1
      <4>3. G[n+1][<<p, q>>] = p
        BY <1>7, <3>1
      <4> QED
        BY <4>2, <4>3 DEF k
    <3>2. CASE q # 0
      <4> DEFINE r == p % q
      <4>1. r \in Nat /\ r < q
        BY <3>2, DivMod
      <4>2. G[n+1][<<p, q>>] = G[n][<<q, r>>]
        BY <1>7, <3>2
      <4>3. G[(n+1)+1][<<p, q>>] = G[n+1][<<q, r>>]
        <5> DEFINE k == n+1
        <5>1. k \in Nat /\ k = n+1
          OBVIOUS
        <5> HIDE DEF k, r
        <5>2. G[k+1][<<p, q>>] = G[k][<<q, p % q>>]
          BY <1>7, <3>2, <5>1
        <5> QED
          BY <5>2 DEF k, r
      <4> HIDE DEF r
      <4>4. r < n
        BY <4>1
      <4> QED
        BY <2>2, <4>1, <4>2, <4>3, <4>4
    <3> QED
      BY <3>1, <3>2
  <2> HIDE DEF T
  <2> QED
    BY <2>1, <2>2, AllNumbers
<1> DEFINE U == {n \in Nat : \A p, q \in Nat : q < n => G[n][<<p, q>>] = G[q+1][<<p, q>>]}
<1>9. \A n \in Nat : n \in U
  <2>1. 0 \in U
    OBVIOUS
  <2>2. ASSUME NEW n \in Nat, n \in U PROVE n+1 \in U
    <3> SUFFICES ASSUME NEW p \in Nat, NEW q \in Nat, q < n+1
                 PROVE  G[n+1][<<p, q>>] = G[q+1][<<p, q>>]
      OBVIOUS
    <3>1. CASE q < n
      BY <1>8, <2>2, <3>1
    <3>2. CASE q = n
      BY <3>2
    <3> QED
      BY <3>1, <3>2
  <2> HIDE DEF U
  <2> QED
    BY <2>1, <2>2, AllNumbers
<1> DEFINE g == [x \in Nat \X Nat |-> G[x[2]+1][<<x[1], x[2]>>]]
<1>10. \A p, q \in Nat : g[<<p, q>>] = IF q = 0 THEN p ELSE g[<<q, p % q>>]
  <2> SUFFICES ASSUME NEW p \in Nat, NEW q \in Nat
               PROVE  g[<<p, q>>] = IF q = 0 THEN p ELSE g[<<q, p % q>>]
    OBVIOUS
  <2>1. g[<<p, q>>] = IF q = 0 THEN p ELSE G[q][<<q, p % q>>]
    BY <1>7
  <2>2. CASE q # 0
    <3> DEFINE r == p % q
    <3>1. r \in Nat /\ r < q
      BY <2>2, DivMod
    <3> HIDE DEF r
    <3>2. G[q][<<q, r>>] = G[r+1][<<q, r>>]
      BY <1>9, <3>1
    <3>3. g[<<q, r>>] = G[r+1][<<q, r>>]
      BY <3>1
    <3> HIDE DEF g
    <3>4. g[<<p, q>>] = G[q][<<q, r>>]
      BY <2>1, <2>2 DEF r
    <3>5. g[<<p, q>>] = g[<<q, r>>]
      BY <3>2, <3>3, <3>4
    <3> QED
      BY <2>2, <3>5 DEF r
  <2> HIDE DEF g
  <2> QED
    BY <2>1, <2>2
<1>11. g = [c \in Nat \X Nat |-> IF c[2] = 0 THEN c[1] ELSE g[<<c[2], c[1] % c[2]>>]]
  <2>1. g = [c \in Nat \X Nat |-> g[c]]
    OBVIOUS
  <2> HIDE DEF g
  <2>2. \A c \in Nat \X Nat : g[c] = IF c[2] = 0 THEN c[1] ELSE g[<<c[2], c[1] % c[2]>>]
    <3> SUFFICES ASSUME NEW c \in Nat \X Nat
                 PROVE  g[c] = IF c[2] = 0 THEN c[1] ELSE g[<<c[2], c[1] % c[2]>>]
      OBVIOUS
    <3>1. PICK p \in Nat, q \in Nat : c = <<p, q>>
      OBVIOUS
    <3> QED
      BY <1>10, <3>1
  <2> QED
    BY <2>1, <2>2
<1> HIDE DEF g
<1>12. Simd!Gcd = [c \in Nat \X Nat |-> IF c[2] = 0 THEN c[1] ELSE Simd!Gcd[<<c[2], c[1] % c[2]>>]]
  BY <1>11 DEF Simd!Gcd
<1> QED
  BY <1>12

\* A common divisor of positive numbers is between 1 and the smaller of them.
LEMMA GcdBounds ==
  \A q, p \in Nat :
     /\ Simd!Gcd[<<p, q>>] \in Nat
     /\ q > 0 => 1 <= Simd!Gcd[<<p, q>>] /\ Simd!Gcd[<<p, q>>] <= q
     /\ p > 0 => 1 <= Simd!Gcd[<<p, q>>] /\ Simd!Gcd[<<p, q>>] <= p
<1> DEFINE Fits(p, q, g) == /\ g \in Nat
                            /\ q > 0 => 1 <= g /\ g <= q
                            /\ p > 0 => 1 <= g /\ g <= p
           T == {n \in Nat : \A q, p \in Nat : q <= n => Fits(p, q, Simd!Gcd[<<p, q>>])}
<1>1. 0 \in T
  <2> SUFFICES ASSUME NEW q \in Nat, NEW p \in Nat, q <= 0
               PROVE  Fits(p, q, Simd!Gcd[<<p, q>>])
    OBVIOUS
  <2>1. q = 0
    OBVIOUS
  <2>2. Simd!Gcd[<<p, q>>] = p
    BY <2>1, GcdIs
  <2> QED
    BY <2>1, <2>2
<1>2. ASSUME NEW n \in Nat, n \in T PROVE n+1 \in T
  <2> SUFFICES ASSUME NEW q \in Nat, NEW p \in Nat, q <= n+1
               PROVE  Fits(p, q, Simd!Gcd[<<p, q>>])
    OBVIOUS
  <2>1. CASE q = 0
    <3>1. Simd!Gcd[<<p, q>>] = p
      BY <2>1, GcdIs
    <3> QED
      BY <2>1, <3>1
  <2>2. CASE q # 0
    <3> DEFINE r == p % q
               k == p \div q
               g == Simd!Gcd[<<q, r>>]
    <3>1. r \in Nat /\ r < q /\ k \in Int /\ p = q * k + r
      BY <2>2, DivMod
    <3>2. Simd!Gcd[<<p, q>>] = g
      BY <2>2, GcdIs
    <3>3. Fits(q, r, g)
      <4>1. r <= n
        BY <3>1
      <4> HIDE DEF r, Fits
      <4> QED
        BY <1>2, <3>1, <4>1
    <3>4. p > 0 => r > 0 \/ q <= p
      <4> HIDE DEF r, k
      <4> SUFFICES ASSUME p > 0, r = 0 PROVE q <= p
        BY <3>1
      <4>1. p = q * k
        BY <3>1
      <4>2. k > 0
        BY <2>2, <3>1, <4>1
      <4> QED
        BY <2>2, <3>1, <4>1, <4>2
    <3>5. r <= p
      <4> HIDE DEF r, k
      <4>1. k >= 0
        <5> SUFFICES ASSUME k < 0 PROVE FALSE
          BY <3>1
        <5>1. k <= -1
          BY <3>1
        <5>2. q * k <= -q
          BY <3>1, <5>1
        <5> QED
          BY <3>1, <5>2, ProductInt
      <4>2. q * k >= 0
        BY <3>1, <4>1
      <4> QED
        BY <3>1, <4>2, ProductInt
    <3>6. r = 0 => g = q
      <4> HIDE DEF r
      <4> SUFFICES ASSUME r = 0 PROVE Simd!Gcd[<<q, r>>] = q
        OBVIOUS
      <4> QED
        BY <3>1, GcdIs
    <3> HIDE DEF r, k, g
    <3>7. g \in Nat /\ q > 0
      BY <2>2, <3>3
    <3>8. 1 <= g /\ g <= q
      BY <3>3, <3>7
    <3>9. p > 0 => g <= p
      <4>1. CASE r = 0
        BY <3>1, <3>4, <3>6, <4>1
      <4>2. CASE r > 0
        BY <3>1, <3>3, <3>5, <3>7, <4>2
      <4> QED
        BY <3>1, <4>1, <4>2
    <3> QED
      BY <3>2, <3>7, <3>8, <3>9
  <2> QED
    BY <2>1, <2>2
<1>3. \A n \in Nat : n \in T
  <2> HIDE DEF T
  <2> QED
    BY <1>1, <1>2, AllNumbers
<1>4. ASSUME NEW q \in Nat, NEW p \in Nat PROVE Fits(p, q, Simd!Gcd[<<p, q>>])
  <2>1. q \in T /\ q <= q
    BY <1>3
  <2> QED
    BY <2>1
<1> QED
  BY <1>4

LEMMA GcdSame ==
  ASSUME NEW n \in Nat, n > 0
  PROVE  Simd!Gcd[<<n, n>>] = n
<1>1. n % n = 0
  BY DivUnique
<1>2. Simd!Gcd[<<n, n>>] = Simd!Gcd[<<n, n % n>>]
  BY GcdIs
<1>3. Simd!Gcd[<<n, 0>>] = n
  BY GcdIs
<1> QED
  BY <1>1, <1>2, <1>3

LEMMA Quotients ==
  ASSUME NEW n \in Nat, NEW g \in Nat, g > 0
  PROVE  n \div g \in Nat /\ (g <= n => n \div g > 0)
<1> DEFINE q == n \div g
           r == n % g
<1>1. q \in Int /\ r \in Nat /\ r < g /\ n = g * q + r
  BY DivMod
<1> HIDE DEF q, r
<1>2. q >= 0
  <2> SUFFICES ASSUME q < 0 PROVE FALSE
    BY <1>1
  <2>1. q <= -1
    BY <1>1
  <2>2. g * q <= -g
    BY <1>1, <2>1
  <2> QED
    BY <1>1, <2>2, ProductInt
<1>3. g <= n => q > 0
  <2> SUFFICES ASSUME g <= n, q = 0 PROVE FALSE
    BY <1>1, <1>2
  <2>1. g * q = 0
    BY <1>1
  <2> QED
    BY <1>1, <2>1
<1> QED
  BY <1>1, <1>2, <1>3 DEF q

LEMMA ReducedIs ==
  ASSUME NEW n \in Nat, NEW d \in Nat, d > 0
  PROVE  /\ Simd!Q(n, d) \in Rationals
         /\ n > 0 => Simd!Q(n, d)[1] > 0
<1> DEFINE g == Simd!Gcd[<<n, d>>]
<1>1. g \in Nat /\ 1 <= g /\ g <= d /\ (n > 0 => g <= n)
  BY GcdBounds
<1>2. Simd!Magnitude(n) = n
  BY DEF Simd!Magnitude
<1>3. Simd!Q(n, d) = <<n \div g, d \div g>>
  BY <1>2 DEF Simd!Q, Simd!Reduced
<1> HIDE DEF g
<1>4. n \div g \in Nat /\ (n > 0 => n \div g > 0)
  BY <1>1, Quotients
<1>5. d \div g \in Nat /\ d \div g > 0
  BY <1>1, Quotients
<1> QED
  BY <1>3, <1>4, <1>5 DEF Rationals

LEMMA PlusIs ==
  ASSUME NEW p \in Rationals, NEW q \in Rationals
  PROVE  /\ Simd!Plus(p, q) \in Rationals
         /\ p[1] > 0 \/ q[1] > 0 => Simd!Plus(p, q)[1] > 0
<1> DEFINE a == p[1]  b == p[2]  c == q[1]  d == q[2]
           g == Simd!Gcd[<<b, d>>]
           e == d \div g
           f == b \div g
<1>1. a \in Nat /\ b \in Nat /\ b > 0 /\ c \in Nat /\ d \in Nat /\ d > 0
  BY DEF Rationals
<1>2. Simd!Plus(p, q) = Simd!Q(a * e + c * f, b * e)
  BY DEF Simd!Plus, Simd!PlusOver
<1> HIDE DEF a, b, c, d
<1>3. g \in Nat /\ 1 <= g /\ g <= d /\ g <= b
  BY <1>1, GcdBounds
<1> HIDE DEF g
<1>4. e \in Nat /\ e > 0 /\ f \in Nat /\ f > 0
  BY <1>1, <1>3, Quotients
<1> HIDE DEF e, f
<1>5. b * e \in Nat /\ b * e > 0
  BY <1>1, <1>4, ProductPositive
<1>6. a * e \in Nat /\ (a > 0 => a * e > 0)
  BY <1>1, <1>4, ProductPositive
<1>7. c * f \in Nat /\ (c > 0 => c * f > 0)
  BY <1>1, <1>4, ProductPositive
<1> DEFINE n == a * e + c * f
           k == b * e
<1>8. n \in Nat /\ k \in Nat /\ k > 0 /\ (a > 0 \/ c > 0 => n > 0)
  BY <1>5, <1>6, <1>7
<1> HIDE DEF n, k
<1>9. Simd!Q(n, k) \in Rationals /\ (n > 0 => Simd!Q(n, k)[1] > 0)
  BY <1>8, ReducedIs
<1>10. Simd!Plus(p, q) = Simd!Q(n, k)
  BY <1>2 DEF n, k
<1> QED
  BY <1>8, <1>9, <1>10 DEF a, c

LEMMA TimesIs ==
  ASSUME NEW p \in Rationals, NEW q \in Rationals
  PROVE  Simd!Times(p, q) \in Rationals
<1> DEFINE a == p[1]  b == p[2]  c == q[1]  d == q[2]
           g == Simd!Gcd[<<a, d>>]
           h == Simd!Gcd[<<c, b>>]
<1>1. a \in Nat /\ b \in Nat /\ b > 0 /\ c \in Nat /\ d \in Nat /\ d > 0
  BY DEF Rationals
<1>2. Simd!Magnitude(a) = a /\ Simd!Magnitude(c) = c
  BY <1>1 DEF Simd!Magnitude
<1>3. Simd!Times(p, q) = <<(a \div g) * (c \div h), (b \div h) * (d \div g)>>
  <2>1. Simd!Times(p, q) = Simd!TimesOver(p, q, Simd!Gcd[<<Simd!Magnitude(a), d>>],
                                                Simd!Gcd[<<Simd!Magnitude(c), b>>])
    BY DEF Simd!Times
  <2> QED
    BY <1>2, <2>1 DEF Simd!TimesOver
<1> HIDE DEF a, b, c, d
<1>4. g \in Nat /\ 1 <= g /\ g <= d /\ h \in Nat /\ 1 <= h /\ h <= b
  BY <1>1, GcdBounds
<1> HIDE DEF g, h
<1>5. a \div g \in Nat /\ c \div h \in Nat
  BY <1>1, <1>4, Quotients
<1>6. b \div h \in Nat /\ b \div h > 0 /\ d \div g \in Nat /\ d \div g > 0
  BY <1>1, <1>4, Quotients
<1> DEFINE s == a \div g  t == c \div h  u == b \div h  v == d \div g
<1> HIDE DEF s, t, u, v
<1>7. s * t \in Nat
  BY <1>5 DEF s, t
<1>8. u * v \in Nat /\ u * v > 0
  BY <1>6, ProductPositive DEF u, v
<1>9. Simd!Times(p, q) = <<s * t, u * v>>
  BY <1>3 DEF s, t, u, v
<1> QED
  BY <1>7, <1>8, <1>9 DEF Rationals

LEMMA ReciprocalTimes ==
  ASSUME NEW p \in Rationals, p[1] > 0
  PROVE  Simd!Times(Simd!Reciprocal(p), p) = Simd!One
<1> DEFINE a == p[1]  b == p[2]
           r == Simd!Reciprocal(p)
<1>1. a \in Nat /\ a > 0 /\ b \in Nat /\ b > 0
  BY DEF Rationals
<1>2. r[1] = b /\ r[2] = a
  BY DEF Simd!Reciprocal
<1>3. Simd!Magnitude(a) = a /\ Simd!Magnitude(b) = b
  BY <1>1 DEF Simd!Magnitude
<1>4. Simd!Times(r, p) = Simd!TimesOver(r, p, Simd!Gcd[<<Simd!Magnitude(r[1]), b>>],
                                              Simd!Gcd[<<Simd!Magnitude(a), r[2]>>])
  BY DEF Simd!Times
<1> HIDE DEF r
<1>5. Simd!Times(r, p) = Simd!TimesOver(r, p, Simd!Gcd[<<b, b>>], Simd!Gcd[<<a, a>>])
  BY <1>2, <1>3, <1>4
<1>6. Simd!Gcd[<<b, b>>] = b /\ Simd!Gcd[<<a, a>>] = a
  BY <1>1, GcdSame
<1>7. Simd!Times(r, p) = Simd!TimesOver(r, p, b, a)
  BY <1>5, <1>6
<1>8. Simd!TimesOver(r, p, b, a) = <<(b \div b) * (a \div a), (a \div a) * (b \div b)>>
  BY <1>2 DEF Simd!TimesOver
<1> HIDE DEF a, b
<1>9. a \div a = 1 /\ b \div b = 1
  BY <1>1, DivUnique
<1>10. <<(b \div b) * (a \div a), (a \div a) * (b \div b)>> = <<1, 1>>
  BY <1>9
<1> QED
  BY <1>7, <1>8, <1>10 DEF r, Simd!One

-----------------------------------------------------------------------------
(* Sums, amplitudes and their bounding.                                    *)

\* A function over the first numbers, into a set that the step keeps.
KeptBy(step, n, S) == \A k \in 1 .. n, s \in S : step[<<k, s>>] \in S
UpTo(f, n, S, a, step) ==
    f \in [0 .. n -> S] /\ f[0] = a /\ \A k \in 1 .. n : f[k] = step[<<k, f[k-1]>>]

LEMMA RecursiveUpTo ==
  ASSUME NEW n \in Nat, NEW S, NEW a \in S, NEW step, KeptBy(step, n, S)
  PROVE  \E f : UpTo(f, n, S, a, step)
<1>1. PICK g : Recursive(g, a, step)
  BY RecursiveDefined
<1>2. g[0] = a /\ \A k \in Nat : k # 0 => g[k] = step[<<k, g[k-1]>>]
  BY <1>1 DEF Recursive
<1> DEFINE T == {k \in Nat : k <= n => g[k] \in S}
<1>3. 0 \in T
  BY <1>2
<1>4. ASSUME NEW k \in Nat, k \in T PROVE k+1 \in T
  <2>1. CASE k+1 <= n
    <3>1. k+1 \in 1 .. n /\ k <= n /\ (k+1)-1 = k /\ k+1 # 0
      BY <2>1
    <3>2. g[k+1] = step[<<k+1, g[k]>>]
      BY <1>2, <3>1
    <3>3. g[k] \in S
      BY <1>4, <3>1
    <3> QED
      BY <3>1, <3>2, <3>3 DEF KeptBy
  <2> QED
    BY <2>1
<1>5. \A k \in Nat : k \in T
  <2> HIDE DEF T
  <2> QED
    BY <1>3, <1>4, AllNumbers
<1> DEFINE f == [k \in 0 .. n |-> g[k]]
<1>6. f \in [0 .. n -> S]
  BY <1>5
<1>7. f[0] = a
  BY <1>2
<1>8. ASSUME NEW k \in 1 .. n PROVE f[k] = step[<<k, f[k-1]>>]
  <2>1. k \in 0 .. n /\ k-1 \in 0 .. n /\ k # 0 /\ k \in Nat
    OBVIOUS
  <2>2. f[k] = g[k] /\ f[k-1] = g[k-1]
    BY <2>1
  <2> QED
    BY <1>2, <2>1, <2>2
<1> HIDE DEF f
<1> QED
  BY <1>6, <1>7, <1>8 DEF UpTo

\* What holds at the beginning and is kept by every step up to n.
LEMMA AllUpTo ==
  ASSUME NEW n \in Nat, NEW T, 0 \in T, \A k \in 1 .. n : k-1 \in T => k \in T
  PROVE  \A k \in 0 .. n : k \in T
<1> DEFINE U == {k \in Nat : k <= n => k \in T}
<1>1. 0 \in U
  OBVIOUS
<1>2. ASSUME NEW k \in Nat, k \in U PROVE k+1 \in U
  <2>1. CASE k+1 <= n
    <3>1. k+1 \in 1 .. n /\ (k+1)-1 = k /\ k <= n
      BY <2>1
    <3> QED
      BY <1>2, <3>1
  <2> QED
    BY <2>1
<1>3. \A k \in Nat : k \in U
  <2> HIDE DEF U
  <2> QED
    BY <1>1, <1>2, AllNumbers
<1> QED
  BY <1>3

LEMMA SimdCardinality ==
  ASSUME NEW S
  PROVE  Simd!Cardinality(S) = Cardinality(S)
BY DEF Simd!Cardinality, Cardinality

SumsOf(g, f, n) == g = [k \in 0 .. n |-> IF k = 0 THEN Simd!Zero ELSE Simd!Plus(f[k], g[k-1])]

LEMMA SumsDefined ==
  ASSUME NEW n \in Nat, NEW f \in [1 .. n -> Rationals]
  PROVE  \E g : SumsOf(g, f, n)
<1> DEFINE step == [x \in (1 .. n) \X Rationals |-> Simd!Plus(f[x[1]], x[2])]
<1>1. \A k \in 1 .. n, s \in Rationals :
         step[<<k, s>>] = Simd!Plus(f[k], s) /\ step[<<k, s>>] \in Rationals
  <2>1. ASSUME NEW k \in 1 .. n, NEW s \in Rationals
        PROVE  step[<<k, s>>] = Simd!Plus(f[k], s)
    OBVIOUS
  <2>2. ASSUME NEW k \in 1 .. n, NEW s \in Rationals
        PROVE  Simd!Plus(f[k], s) \in Rationals
    <3>1. f[k] \in Rationals
      OBVIOUS
    <3> QED
      BY <3>1, PlusIs
  <2> QED
    BY <2>1, <2>2
<1>2. Simd!Zero \in Rationals
  BY DEF Simd!Zero, Rationals
<1> HIDE DEF step
<1>3. PICK g : UpTo(g, n, Rationals, Simd!Zero, step)
  BY <1>1, <1>2, RecursiveUpTo DEF KeptBy
<1>4. SumsOf(g, f, n)
  <2>1. ASSUME NEW k \in 0 .. n
        PROVE  g[k] = IF k = 0 THEN Simd!Zero ELSE Simd!Plus(f[k], g[k-1])
    <3>1. CASE k # 0
      <4>1. k \in 1 .. n /\ k-1 \in 0 .. n
        BY <3>1
      <4>2. g[k-1] \in Rationals
        BY <1>3, <4>1 DEF UpTo
      <4>3. g[k] = step[<<k, g[k-1]>>]
        BY <1>3, <4>1 DEF UpTo
      <4> QED
        BY <1>1, <3>1, <4>1, <4>2, <4>3
    <3> QED
      BY <1>3, <3>1 DEF UpTo
  <2>2. g = [k \in 0 .. n |-> g[k]]
    BY <1>3 DEF UpTo
  <2> QED
    BY <2>1, <2>2 DEF SumsOf
<1> QED
  BY <1>4

LEMMA SumIs ==
  ASSUME NEW n \in Nat, n > 0, NEW f \in [1 .. n -> Rationals], f[1][1] > 0
  PROVE  Simd!SumQ(f) \in Rationals /\ Simd!SumQ(f)[1] > 0
<1> DEFINE c == Simd!Cardinality(DOMAIN f)
           sum == CHOOSE g : SumsOf(g, f, c)
<1>2. Simd!Zero \in Rationals
  BY DEF Simd!Zero, Rationals
<1>4. \E g : SumsOf(g, f, n)
  BY SumsDefined
<1>5. c = n
  <2>1. DOMAIN f = 1 .. n
    OBVIOUS
  <2>2. Cardinality(1 .. n) = n
    BY FS_Interval
  <2> QED
    BY <2>1, <2>2, SimdCardinality
<1>6. Simd!SumQ(f) = sum[c]
  BY DEF Simd!SumQ, SumsOf
<1> HIDE DEF c
<1>7. SumsOf(sum, f, c)
  BY <1>4, <1>5
<1> HIDE DEF sum
<1>8. sum[0] = Simd!Zero /\ \A k \in 1 .. n : sum[k] = Simd!Plus(f[k], sum[k-1])
  BY <1>5, <1>7 DEF SumsOf
<1> DEFINE T == {k \in Nat : sum[k] \in Rationals /\ (k > 0 => sum[k][1] > 0)}
<1>9. 0 \in T
  BY <1>2, <1>8
<1>10. ASSUME NEW k \in 1 .. n, k-1 \in T PROVE k \in T
  <2>1. f[k] \in Rationals /\ sum[k-1] \in Rationals /\ k > 0 /\ k \in Nat
    BY <1>10
  <2>2. sum[k] = Simd!Plus(f[k], sum[k-1])
    BY <1>8
  <2>3. f[k][1] > 0 \/ sum[k-1][1] > 0
    <3>1. CASE k = 1
      BY <3>1
    <3>2. CASE k # 1
      <4>1. k-1 > 0
        BY <3>2
      <4> QED
        BY <1>10, <4>1
    <3> QED
      BY <3>1, <3>2
  <2>4. sum[k] \in Rationals /\ sum[k][1] > 0
    BY <2>1, <2>2, <2>3, PlusIs
  <2> QED
    BY <2>1, <2>4
<1>11. n \in T
  <2> HIDE DEF T
  <2>1. \A k \in 0 .. n : k \in T
    BY <1>9, <1>10, AllUpTo
  <2> QED
    BY <2>1
<1> QED
  BY <1>5, <1>6, <1>11

\* The amplitudes of octaves, by their gain.
AmpsOf(amp, gain) == amp = [i \in Nat |-> IF i = 0 THEN Simd!One ELSE Simd!Times(amp[i-1], gain)]

LEMMA AmpsDefined ==
  ASSUME NEW gain \in Rationals
  PROVE  \E amp : AmpsOf(amp, gain)
<1> DEFINE step == [x \in Nat \X Rationals |-> Simd!Times(x[2], gain)]
<1>1. PICK amp : Recursive(amp, Simd!One, step)
  BY RecursiveDefined
<1>2. ASSUME NEW n \in Nat, NEW s \in Rationals
      PROVE  step[<<n, s>>] = Simd!Times(s, gain)
  OBVIOUS
<1>3. \A n \in Nat, s \in Rationals : step[<<n+1, s>>] \in Rationals
  <2> SUFFICES ASSUME NEW n \in Nat, NEW s \in Rationals PROVE step[<<n+1, s>>] \in Rationals
    OBVIOUS
  <2>1. n+1 \in Nat
    OBVIOUS
  <2>2. step[<<n+1, s>>] = Simd!Times(s, gain)
    BY <1>2, <2>1
  <2> HIDE DEF step
  <2> QED
    BY <2>2, TimesIs
<1>4. Simd!One \in Rationals
  BY DEF Simd!One, Rationals
<1> HIDE DEF step
<1>5. \A n \in Nat : amp[n] \in Rationals
  BY <1>1, <1>3, <1>4, RecursiveIn
<1>6. ASSUME NEW n \in Nat
      PROVE  amp[n] = IF n = 0 THEN Simd!One ELSE Simd!Times(amp[n-1], gain)
  <2>1. n # 0 => n-1 \in Nat
    OBVIOUS
  <2>2. amp[n] = IF n = 0 THEN Simd!One ELSE step[<<n, amp[n-1]>>]
    BY <1>1 DEF Recursive
  <2> QED
    BY <1>2, <1>5, <2>1, <2>2
<1>7. amp = [n \in Nat |-> amp[n]]
  BY <1>1 DEF Recursive
<1> QED
  BY <1>6, <1>7 DEF AmpsOf

LEMMA AmpsAre ==
  ASSUME NEW gain \in Rationals, NEW amp, AmpsOf(amp, gain)
  PROVE  /\ amp[0] = Simd!One
         /\ \A i \in Nat : amp[i+1] = Simd!Times(amp[i], gain)
         /\ \A i \in Nat : amp[i] \in Rationals
<1>1. amp[0] = Simd!One
  BY DEF AmpsOf
<1>2. ASSUME NEW i \in Nat PROVE amp[i+1] = Simd!Times(amp[i], gain)
  <2>1. i+1 \in Nat /\ i+1 # 0 /\ (i+1)-1 = i
    OBVIOUS
  <2> QED
    BY <2>1 DEF AmpsOf
<1> DEFINE T == {i \in Nat : amp[i] \in Rationals}
<1>3. 0 \in T
  BY <1>1 DEF Simd!One, Rationals
<1>4. ASSUME NEW i \in Nat, i \in T PROVE i+1 \in T
  BY <1>2, <1>4, TimesIs
<1>5. \A i \in Nat : i \in T
  <2> HIDE DEF T
  <2> QED
    BY <1>3, <1>4, AllNumbers
<1> QED
  BY <1>1, <1>2, <1>5

\* The first amplitudes, of one octave or more.
RoundsOfLoop(octaves) == IF octaves > 1 THEN octaves ELSE 1
AmpsUpTo(gain, octaves) ==
    LET amp == CHOOSE amp : AmpsOf(amp, gain)
    IN  [i \in 1 .. RoundsOfLoop(octaves) |-> amp[i-1]]

LEMMA AmpsUpToAre ==
  ASSUME NEW gain \in Rationals, NEW octaves \in Int
  PROVE  LET f == AmpsUpTo(gain, octaves)
             n == RoundsOfLoop(octaves)
         IN  /\ n \in Nat /\ n > 0
             /\ f \in [1 .. n -> Rationals] /\ f[1] = Simd!One
             /\ \A k \in 2 .. n : f[k] = Simd!Times(f[k-1], gain)
<1> DEFINE amp == CHOOSE amp : AmpsOf(amp, gain)
           n == RoundsOfLoop(octaves)
           f == [i \in 1 .. n |-> amp[i-1]]
<1>1. n \in Nat /\ n > 0
  BY DEF RoundsOfLoop
<1>2. AmpsOf(amp, gain)
  BY AmpsDefined
<1>3. AmpsUpTo(gain, octaves) = f
  BY DEF AmpsUpTo
<1> HIDE DEF amp, n
<1>4. /\ amp[0] = Simd!One
      /\ \A i \in Nat : amp[i+1] = Simd!Times(amp[i], gain)
      /\ \A i \in Nat : amp[i] \in Rationals
  BY <1>2, AmpsAre
<1>5. f \in [1 .. n -> Rationals]
  <2>1. \A i \in 1 .. n : i-1 \in Nat
    BY <1>1
  <2> QED
    BY <1>4, <2>1
<1>6. f[1] = Simd!One
  <2>1. 1 \in 1 .. n /\ 1-1 = 0
    BY <1>1
  <2> QED
    BY <1>4, <2>1
<1>7. ASSUME NEW k \in 2 .. n PROVE f[k] = Simd!Times(f[k-1], gain)
  <2>1. k \in 1 .. n /\ k-1 \in 1 .. n /\ (k-1)-1 \in Nat /\ ((k-1)-1)+1 = k-1
    BY <1>1
  <2>2. amp[((k-1)-1)+1] = Simd!Times(amp[(k-1)-1], gain)
    BY <1>4, <2>1
  <2>3. f[k] = amp[k-1] /\ f[k-1] = amp[(k-1)-1]
    BY <2>1
  <2> QED
    BY <2>1, <2>2, <2>3
<1> HIDE DEF f
<1> QED
  BY <1>1, <1>3, <1>5, <1>6, <1>7 DEF n

\* The bounding scales the amplitudes to one.
LEMMA BoundingScales ==
  ASSUME NEW gain \in Rationals, NEW octaves \in Int
  PROVE  /\ Simd!CalculateFractalBounding(gain, octaves)
                = Simd!Reciprocal(Simd!SumQ(AmpsUpTo(gain, octaves)))
         /\ Simd!Times(Simd!CalculateFractalBounding(gain, octaves),
                       Simd!SumQ(AmpsUpTo(gain, octaves))) = Simd!One
<1> DEFINE f == AmpsUpTo(gain, octaves)
           n == RoundsOfLoop(octaves)
<1>1. n \in Nat /\ n > 0 /\ f \in [1 .. n -> Rationals] /\ f[1] = Simd!One
  BY AmpsUpToAre
<1>2. Simd!CalculateFractalBounding(gain, octaves) = Simd!Reciprocal(Simd!SumQ(f))
  BY DEF Simd!CalculateFractalBounding, AmpsUpTo, AmpsOf, RoundsOfLoop
<1> HIDE DEF f, n
<1>3. f[1][1] > 0
  BY <1>1 DEF Simd!One
<1>4. Simd!SumQ(f) \in Rationals /\ Simd!SumQ(f)[1] > 0
  BY <1>1, <1>3, SumIs
<1> DEFINE s == Simd!SumQ(f)
<1> HIDE DEF s
<1>5. Simd!Times(Simd!Reciprocal(s), s) = Simd!One
  BY <1>4, ReciprocalTimes DEF s
<1> QED
  BY <1>2, <1>5 DEF f, s

-----------------------------------------------------------------------------
(* The octaves and the warps of FastNoiseSIMD.                             *)

Numbers == Int \X (Nat \ {0})

LEMMA QuotientInt ==
  ASSUME NEW n \in Int, NEW g \in Nat, g > 0
  PROVE  n \div g \in Int
BY DivMod

LEMMA ProductTyped ==
  ASSUME NEW p \in Numbers, NEW q \in Numbers
  PROVE  Simd!Times(p, q) \in Numbers
<1> DEFINE a == p[1]  b == p[2]  c == q[1]  d == q[2]
           x == Simd!Magnitude(a)  y == Simd!Magnitude(c)
           g == Simd!Gcd[<<x, d>>]
           h == Simd!Gcd[<<y, b>>]
<1>1. a \in Int /\ b \in Nat /\ b > 0 /\ c \in Int /\ d \in Nat /\ d > 0
  BY DEF Numbers
<1>2. Simd!Times(p, q) = <<(a \div g) * (c \div h), (b \div h) * (d \div g)>>
  BY DEF Simd!Times, Simd!TimesOver
<1> HIDE DEF a, b, c, d
<1>3. x \in Nat /\ y \in Nat
  BY <1>1 DEF Simd!Magnitude
<1> HIDE DEF x, y
<1>4. g \in Nat /\ 1 <= g /\ g <= d /\ h \in Nat /\ 1 <= h /\ h <= b
  BY <1>1, <1>3, GcdBounds
<1> HIDE DEF g, h
<1> DEFINE s == a \div g  t == c \div h  u == b \div h  v == d \div g
<1>5. s \in Int /\ t \in Int
  BY <1>1, <1>4, QuotientInt
<1>6. u \in Nat /\ u > 0 /\ v \in Nat /\ v > 0
  BY <1>1, <1>4, Quotients
<1>7. Simd!Times(p, q) = <<s * t, u * v>>
  BY <1>2
<1> HIDE DEF s, t, u, v
<1>8. s * t \in Int
  BY <1>5
<1>9. u * v \in Nat /\ u * v > 0
  BY <1>6, ProductPositive
<1> QED
  BY <1>7, <1>8, <1>9 DEF Numbers

OctaveRecords == [seed : Int, times : Numbers, amp : Rationals]
NextOctave(o) == [seed |-> o.seed + 1, times |-> Simd!Times(o.times, m.lacunarity),
                  amp |-> Simd!Times(o.amp, m.gain)]
OctavesOf(f) ==
    f = [i \in Simd!Rounds(m.octaves) |-> IF i = 1 THEN Simd!Octave ELSE NextOctave(f[i-1])]

NumbersTyped ==
    /\ m.seed \in Int /\ m.octaves \in Int /\ m.perturbOctaves \in Int
    /\ m.gain \in Rationals /\ m.perturbGain \in Rationals
    /\ m.lacunarity \in Numbers /\ m.perturbLacunarity \in Numbers
    /\ m.perturbFrequency \in Numbers /\ m.perturbAmp \in Numbers
    /\ m.perturbType \in Simd!PerturbTypes
    /\ m.fractalBounding = Simd!CalculateFractalBounding(m.gain, m.octaves)
    /\ m.perturbFractalBounding = Simd!CalculateFractalBounding(m.perturbGain, m.perturbOctaves)

LEMMA RoundsAre ==
  ASSUME NEW octaves \in Int
  PROVE  /\ RoundsOfLoop(octaves) \in Nat /\ RoundsOfLoop(octaves) > 0
         /\ Simd!Rounds(octaves) = 1 .. RoundsOfLoop(octaves)
BY DEF RoundsOfLoop, Simd!Rounds

LEMMA OctavesDefined ==
  ASSUME NumbersTyped
  PROVE  \E f : OctavesOf(f)
<1> DEFINE n == RoundsOfLoop(m.octaves)
           step == [x \in Nat \X OctaveRecords |-> NextOctave(x[2])]
<1>1. n \in Nat /\ n > 0 /\ Simd!Rounds(m.octaves) = 1 .. n
  BY RoundsAre DEF NumbersTyped
<1> HIDE DEF n
<1>2. ASSUME NEW o \in OctaveRecords PROVE NextOctave(o) \in OctaveRecords
  <2>1. o.seed \in Int /\ o.times \in Numbers /\ o.amp \in Rationals
    BY DEF OctaveRecords
  <2>2. Simd!Times(o.times, m.lacunarity) \in Numbers
    BY <2>1, ProductTyped DEF NumbersTyped
  <2>3. Simd!Times(o.amp, m.gain) \in Rationals
    BY <2>1, TimesIs DEF NumbersTyped
  <2> QED
    BY <2>1, <2>2, <2>3 DEF NextOctave, OctaveRecords
<1>3. Simd!Octave \in OctaveRecords
  BY DEF Simd!Octave, OctaveRecords, NumbersTyped, Simd!One, Numbers, Rationals
<1>4. \A k \in Nat, o \in OctaveRecords : step[<<k, o>>] = NextOctave(o)
  OBVIOUS
<1>5. \A k \in Nat, o \in OctaveRecords : step[<<k+1, o>>] \in OctaveRecords
  BY <1>2, <1>4
<1> HIDE DEF step
<1>6. PICK g : Recursive(g, Simd!Octave, step)
  BY RecursiveDefined
<1>7. \A k \in Nat : g[k] \in OctaveRecords
  BY <1>3, <1>5, <1>6, RecursiveIn
<1> DEFINE f == [i \in 1 .. n |-> g[i-1]]
<1>8. ASSUME NEW i \in 1 .. n
      PROVE  f[i] = IF i = 1 THEN Simd!Octave ELSE NextOctave(f[i-1])
  <2>1. f[i] = g[i-1] /\ i-1 \in Nat
    BY <1>1
  <2>2. CASE i = 1
    BY <1>6, <2>1, <2>2 DEF Recursive
  <2>3. CASE i # 1
    <3>1. i-1 \in 1 .. n /\ i-1 # 0 /\ (i-1)-1 \in Nat
      BY <1>1, <2>3
    <3>2. f[i-1] = g[(i-1)-1]
      BY <3>1
    <3>3. g[i-1] = step[<<i-1, g[(i-1)-1]>>]
      BY <1>6, <2>1, <3>1 DEF Recursive
    <3>4. g[(i-1)-1] \in OctaveRecords
      BY <1>7, <3>1
    <3>5. g[i-1] = NextOctave(g[(i-1)-1])
      BY <1>4, <2>1, <3>3, <3>4
    <3> QED
      BY <2>1, <2>3, <3>2, <3>5
  <2> QED
    BY <2>2, <2>3
<1>9. f = [i \in 1 .. n |-> f[i]]
  OBVIOUS
<1> HIDE DEF f
<1>10. OctavesOf(f)
  BY <1>1, <1>8, <1>9 DEF OctavesOf
<1> QED
  BY <1>10

LEMMA OctavesAre ==
  ASSUME NumbersTyped
  PROVE  LET n == RoundsOfLoop(m.octaves)
         IN  /\ Simd!Octaves = [k \in 1 .. n |-> Simd!Octaves[k]]
             /\ \A k \in 1 .. n : /\ Simd!Octaves[k].seed = m.seed + (k - 1)
                                  /\ Simd!Octaves[k].amp = AmpsUpTo(m.gain, m.octaves)[k]
<1> DEFINE n == RoundsOfLoop(m.octaves)
           f == CHOOSE f : OctavesOf(f)
           a == AmpsUpTo(m.gain, m.octaves)
<1>1. n \in Nat /\ n > 0 /\ Simd!Rounds(m.octaves) = 1 .. n
  BY RoundsAre DEF NumbersTyped
<1>2. Simd!Octaves = f
  BY DEF Simd!Octaves, OctavesOf, NextOctave
<1>3. OctavesOf(f)
  BY OctavesDefined
<1>4. a[1] = Simd!One /\ \A k \in 2 .. n : a[k] = Simd!Times(a[k-1], m.gain)
  BY AmpsUpToAre DEF NumbersTyped
<1> HIDE DEF n, f, a
<1>5. f = [k \in 1 .. n |-> f[k]]
  BY <1>1, <1>3 DEF OctavesOf
<1>6. f[1] = Simd!Octave
  BY <1>1, <1>3 DEF OctavesOf
<1>7. ASSUME NEW k \in 2 .. n PROVE f[k] = NextOctave(f[k-1])
  <2>1. k \in 1 .. n /\ k # 1
    OBVIOUS
  <2> QED
    BY <1>1, <1>3, <2>1 DEF OctavesOf
<1> DEFINE T == {j \in Nat : f[j+1].seed = m.seed + j /\ f[j+1].amp = a[j+1]}
<1>8. 0 \in T
  <2>1. m.seed + 0 = m.seed
    BY DEF NumbersTyped
  <2> QED
    BY <1>4, <1>6, <2>1 DEF Simd!Octave
<1>9. ASSUME NEW j \in 1 .. n-1, j-1 \in T PROVE j \in T
  <2>1. j+1 \in 2 .. n /\ (j+1)-1 = j /\ (j-1)+1 = j /\ j \in Nat
    BY <1>1
  <2>2. f[j+1] = NextOctave(f[j]) /\ a[j+1] = Simd!Times(a[j], m.gain)
    BY <1>4, <1>7, <2>1
  <2>3. f[j].seed = m.seed + (j-1) /\ f[j].amp = a[j]
    BY <1>9, <2>1
  <2>4. f[j+1].seed = f[j].seed + 1 /\ f[j+1].amp = Simd!Times(f[j].amp, m.gain)
    BY <2>2 DEF NextOctave
  <2>5. f[j+1].seed = m.seed + j
    BY <2>3, <2>4 DEF NumbersTyped
  <2> QED
    BY <2>1, <2>2, <2>3, <2>4, <2>5
<1>10. \A j \in 0 .. n-1 : j \in T
  <2>1. n-1 \in Nat
    BY <1>1
  <2> HIDE DEF T
  <2> QED
    BY <1>8, <1>9, <2>1, AllUpTo
<1>11. ASSUME NEW k \in 1 .. n PROVE f[k].seed = m.seed + (k - 1) /\ f[k].amp = a[k]
  <2>1. k-1 \in 0 .. n-1 /\ (k-1)+1 = k
    BY <1>1
  <2> QED
    BY <1>10, <2>1
<1> QED
  BY <1>2, <1>5, <1>11 DEF n, a

WarpRecords == [seed : Int, frequency : Numbers, amp : Numbers]
WarpBy(amp) == [seed |-> m.seed - 1, frequency |-> m.perturbFrequency, amp |-> amp]
FirstWarp == WarpBy(Simd!Times(m.perturbAmp, m.fractalBounding))
NextWarp(w) == [seed |-> w.seed - 1, frequency |-> Simd!Times(w.frequency, m.perturbLacunarity),
                amp |-> Simd!Times(w.amp, m.perturbGain)]
WarpsOf(f) ==
    f = [i \in Simd!Rounds(m.perturbOctaves) |-> IF i = 1 THEN FirstWarp ELSE NextWarp(f[i-1])]

LEMMA RationalsAreNumbers ==
  ASSUME NEW p \in Rationals
  PROVE  p \in Numbers
BY DEF Rationals, Numbers

LEMMA BoundingTyped ==
  ASSUME NEW gain \in Rationals, NEW octaves \in Int
  PROVE  Simd!CalculateFractalBounding(gain, octaves) \in Rationals
<1> DEFINE f == AmpsUpTo(gain, octaves)
           n == RoundsOfLoop(octaves)
<1>1. n \in Nat /\ n > 0 /\ f \in [1 .. n -> Rationals] /\ f[1] = Simd!One
  BY AmpsUpToAre
<1>2. Simd!CalculateFractalBounding(gain, octaves) = Simd!Reciprocal(Simd!SumQ(f))
  BY BoundingScales
<1> HIDE DEF f, n
<1>3. f[1][1] > 0
  BY <1>1 DEF Simd!One
<1>4. Simd!SumQ(f) \in Rationals /\ Simd!SumQ(f)[1] > 0
  BY <1>1, <1>3, SumIs
<1> DEFINE s == Simd!SumQ(f)
<1> HIDE DEF s
<1>5. Simd!Reciprocal(s) \in Rationals
  BY <1>4 DEF s, Simd!Reciprocal, Rationals
<1> QED
  BY <1>2, <1>5 DEF s

LEMMA WarpsDefined ==
  ASSUME NumbersTyped
  PROVE  \E f : WarpsOf(f)
<1> DEFINE n == RoundsOfLoop(m.perturbOctaves)
           step == [x \in Nat \X WarpRecords |-> NextWarp(x[2])]
<1>1. n \in Nat /\ n > 0 /\ Simd!Rounds(m.perturbOctaves) = 1 .. n
  BY RoundsAre DEF NumbersTyped
<1> HIDE DEF n
<1>2. ASSUME NEW o \in WarpRecords PROVE NextWarp(o) \in WarpRecords
  <2>1. o.seed \in Int /\ o.frequency \in Numbers /\ o.amp \in Numbers
    BY DEF WarpRecords
  <2>2. Simd!Times(o.frequency, m.perturbLacunarity) \in Numbers
    BY <2>1, ProductTyped DEF NumbersTyped
  <2>3. Simd!Times(o.amp, m.perturbGain) \in Numbers
    BY <2>1, ProductTyped, RationalsAreNumbers DEF NumbersTyped
  <2> QED
    BY <2>1, <2>2, <2>3 DEF NextWarp, WarpRecords
<1>3. FirstWarp \in WarpRecords
  <2>1. m.fractalBounding \in Numbers
    BY BoundingTyped, RationalsAreNumbers DEF NumbersTyped
  <2>2. Simd!Times(m.perturbAmp, m.fractalBounding) \in Numbers
    BY <2>1, ProductTyped DEF NumbersTyped
  <2> QED
    BY <2>2 DEF FirstWarp, WarpBy, WarpRecords, NumbersTyped
<1>4. \A k \in Nat, o \in WarpRecords : step[<<k, o>>] = NextWarp(o)
  OBVIOUS
<1>5. \A k \in Nat, o \in WarpRecords : step[<<k+1, o>>] \in WarpRecords
  BY <1>2, <1>4
<1> HIDE DEF step
<1>6. PICK g : Recursive(g, FirstWarp, step)
  BY RecursiveDefined
<1>7. \A k \in Nat : g[k] \in WarpRecords
  BY <1>3, <1>5, <1>6, RecursiveIn
<1> DEFINE f == [i \in 1 .. n |-> g[i-1]]
<1>8. ASSUME NEW i \in 1 .. n
      PROVE  f[i] = IF i = 1 THEN FirstWarp ELSE NextWarp(f[i-1])
  <2>1. f[i] = g[i-1] /\ i-1 \in Nat
    BY <1>1
  <2>2. CASE i = 1
    BY <1>6, <2>1, <2>2 DEF Recursive
  <2>3. CASE i # 1
    <3>1. i-1 \in 1 .. n /\ i-1 # 0 /\ (i-1)-1 \in Nat
      BY <1>1, <2>3
    <3>2. f[i-1] = g[(i-1)-1]
      BY <3>1
    <3>3. g[i-1] = step[<<i-1, g[(i-1)-1]>>]
      BY <1>6, <2>1, <3>1 DEF Recursive
    <3>4. g[(i-1)-1] \in WarpRecords
      BY <1>7, <3>1
    <3>5. g[i-1] = NextWarp(g[(i-1)-1])
      BY <1>4, <2>1, <3>3, <3>4
    <3> QED
      BY <2>1, <2>3, <3>2, <3>5
  <2> QED
    BY <2>2, <2>3
<1>9. f = [i \in 1 .. n |-> f[i]]
  OBVIOUS
<1> HIDE DEF f
<1>10. WarpsOf(f)
  BY <1>1, <1>8, <1>9 DEF WarpsOf
<1> QED
  BY <1>10

LEMMA FractalWarps ==
  ASSUME NumbersTyped, NEW f, WarpsOf(f)
  PROVE  LET n == RoundsOfLoop(m.perturbOctaves)
         IN  /\ f = [k \in 1 .. n |-> f[k]]
             /\ \A k \in 1 .. n : f[k].seed = m.seed - k
<1> DEFINE n == RoundsOfLoop(m.perturbOctaves)
<1>1. n \in Nat /\ n > 0 /\ Simd!Rounds(m.perturbOctaves) = 1 .. n
  BY RoundsAre DEF NumbersTyped
<1> HIDE DEF n
<1>2. f = [k \in 1 .. n |-> f[k]]
  BY <1>1 DEF WarpsOf
<1>3. f[1] = FirstWarp
  BY <1>1 DEF WarpsOf
<1>4. ASSUME NEW k \in 2 .. n PROVE f[k] = NextWarp(f[k-1])
  <2>1. k \in 1 .. n /\ k # 1
    OBVIOUS
  <2> QED
    BY <1>1, <2>1 DEF WarpsOf
<1> DEFINE T == {j \in Nat : f[j+1].seed = m.seed - (j+1)}
<1>5. 0 \in T
  BY <1>3 DEF FirstWarp, WarpBy
<1>6. ASSUME NEW j \in 1 .. n-1, j-1 \in T PROVE j \in T
  <2>1. j+1 \in 2 .. n /\ (j+1)-1 = j /\ (j-1)+1 = j /\ j \in Nat
    BY <1>1
  <2>2. f[j+1] = NextWarp(f[j])
    BY <1>4, <2>1
  <2>3. f[j].seed = m.seed - j
    BY <1>6, <2>1
  <2>4. f[j+1].seed = f[j].seed - 1
    BY <2>2 DEF NextWarp
  <2>5. (m.seed - j) - 1 = m.seed - (j+1)
    BY <2>1 DEF NumbersTyped
  <2> QED
    BY <2>1, <2>3, <2>4, <2>5
<1>7. \A j \in 0 .. n-1 : j \in T
  <2>1. n-1 \in Nat
    BY <1>1
  <2> HIDE DEF T
  <2> QED
    BY <1>5, <1>6, <2>1, AllUpTo
<1>8. ASSUME NEW k \in 1 .. n PROVE f[k].seed = m.seed - k
  <2>1. k-1 \in 0 .. n-1 /\ (k-1)+1 = k
    BY <1>1
  <2> QED
    BY <1>7, <2>1
<1> QED
  BY <1>2, <1>8 DEF n

\* There are as many warps as the setting says, of the seeds before the object's.
LEMMA WarpsAre ==
  ASSUME NumbersTyped
  PROVE  \E w \in Nat : /\ Simd!Warps = [k \in 1 .. w |-> Simd!Warps[k]]
                        /\ \A k \in 1 .. w : Simd!Warps[k].seed = m.seed - k
<1>1. CASE m.perturbType \in {"None", "Normalise"}
  <2>1. Simd!Warps = <<>>
    BY <1>1 DEF Simd!Warps
  <2>2. <<>> = [k \in 1 .. 0 |-> <<>>[k]]
    OBVIOUS
  <2> QED
    BY <2>1, <2>2
<1>2. CASE m.perturbType \in {"Gradient", "Gradient_Normalise"}
  <2> DEFINE f == <<WarpBy(m.perturbAmp)>>
  <2>1. Simd!Warps = f
    BY <1>2 DEF Simd!Warps, WarpBy
  <2>2. f = [k \in 1 .. 1 |-> f[k]] /\ f[1].seed = m.seed - 1
    BY DEF WarpBy
  <2> HIDE DEF f
  <2>3. \A k \in 1 .. 1 : f[k].seed = m.seed - k
    BY <2>2
  <2> QED
    BY <2>1, <2>2, <2>3
<1>3. CASE m.perturbType \in {"GradientFractal", "GradientFractal_Normalise"}
  <2> DEFINE f == CHOOSE f : WarpsOf(f)
             w == RoundsOfLoop(m.perturbOctaves)
  <2>1. Simd!Warps = f
    BY <1>3 DEF Simd!Warps, WarpsOf, FirstWarp, WarpBy, NextWarp
  <2>2. WarpsOf(f)
    BY WarpsDefined
  <2> HIDE DEF f
  <2>3. f = [k \in 1 .. w |-> f[k]] /\ \A k \in 1 .. w : f[k].seed = m.seed - k
    BY <2>2, FractalWarps
  <2>4. w \in Nat
    BY RoundsAre DEF NumbersTyped
  <2> HIDE DEF w
  <2> QED
    BY <2>1, <2>3, <2>4
<1> QED
  BY <1>1, <1>2, <1>3 DEF NumbersTyped, Simd!PerturbTypes

\* The seeds of warps and octaves follow each other.
LEMMA SeedsDiffer ==
  ASSUME NumbersTyped
  PROVE  LET seeds == {Simd!Octaves[k].seed : k \in DOMAIN Simd!Octaves}
                          \cup {Simd!Warps[k].seed : k \in DOMAIN Simd!Warps}
         IN  Simd!Cardinality(seeds) = Len(Simd!Octaves) + Len(Simd!Warps)
<1> DEFINE n == RoundsOfLoop(m.octaves)
           O == Simd!Octaves
           W == Simd!Warps
           s == m.seed
           seeds == {O[k].seed : k \in DOMAIN O} \cup {W[k].seed : k \in DOMAIN W}
<1>1. n \in Nat /\ n > 0 /\ s \in Int
  BY RoundsAre DEF NumbersTyped
<1>2. O = [k \in 1 .. n |-> O[k]] /\ \A k \in 1 .. n : O[k].seed = s + (k - 1)
  BY OctavesAre
<1>3. PICK w \in Nat : W = [k \in 1 .. w |-> W[k]] /\ \A k \in 1 .. w : W[k].seed = s - k
  BY WarpsAre
<1> HIDE DEF n, O, W, s
<1>4. DOMAIN O = 1 .. n /\ DOMAIN W = 1 .. w
  BY <1>2, <1>3
<1>5. seeds = (s - w) .. (s + n - 1)
  <2>1. ASSUME NEW x \in seeds PROVE x \in (s - w) .. (s + n - 1)
    <3>1. CASE \E k \in 1 .. n : x = s + (k - 1)
      BY <1>1, <1>3, <3>1
    <3>2. CASE \E k \in 1 .. w : x = s - k
      BY <1>1, <1>3, <3>2
    <3> QED
      BY <1>2, <1>3, <1>4, <3>1, <3>2
  <2>2. ASSUME NEW x \in (s - w) .. (s + n - 1) PROVE x \in seeds
    <3>1. CASE x >= s
      <4> DEFINE k == x - s + 1
      <4>1. k \in 1 .. n /\ s + (k - 1) = x
        BY <1>1, <1>3, <3>1
      <4> HIDE DEF k
      <4>2. x = O[k].seed /\ k \in DOMAIN O
        BY <1>2, <1>4, <4>1
      <4> QED
        BY <4>2
    <3>2. CASE x < s
      <4> DEFINE k == s - x
      <4>1. k \in 1 .. w /\ s - k = x
        BY <1>1, <1>3, <3>2
      <4> HIDE DEF k
      <4>2. x = W[k].seed /\ k \in DOMAIN W
        BY <1>3, <1>4, <4>1
      <4> QED
        BY <4>2
    <3> QED
      BY <1>1, <1>3, <3>1, <3>2
  <2> HIDE DEF seeds
  <2> QED
    BY <2>1, <2>2
<1> HIDE DEF seeds
<1>6. Cardinality(seeds) = n + w
  <2> DEFINE a == s - w  b == s + n - 1
  <2>1. a \in Int /\ b \in Int /\ ~(a > b) /\ b - a + 1 = n + w
    BY <1>1, <1>3
  <2>2. seeds = a .. b
    BY <1>5
  <2> HIDE DEF a, b
  <2>3. Cardinality(a .. b) = b - a + 1
    BY <2>1, FS_Interval
  <2> QED
    BY <2>1, <2>2, <2>3
<1>7. Len(O) = n /\ Len(W) = w
  <2>1. ASSUME NEW f, NEW k \in Nat, f = [i \in 1 .. k |-> f[i]] PROVE Len(f) = k
    BY <2>1
  <2> QED
    BY <1>1, <1>2, <1>3, <2>1
<1>8. Simd!Cardinality(seeds) = n + w
  BY <1>6, SimdCardinality
<1> QED
  BY <1>7, <1>8 DEF seeds, O, W

LEMMA OctavesAddUp ==
  ASSUME NumbersTyped
  PROVE  Simd!Times(m.fractalBounding,
                    Simd!SumQ([k \in DOMAIN Simd!Octaves |-> Simd!Octaves[k].amp])) = Simd!One
<1> DEFINE n == RoundsOfLoop(m.octaves)
           O == Simd!Octaves
           a == AmpsUpTo(m.gain, m.octaves)
           b == [k \in DOMAIN O |-> O[k].amp]
<1>1. O = [k \in 1 .. n |-> O[k]] /\ \A k \in 1 .. n : O[k].amp = a[k]
  BY OctavesAre
<1>2. a \in [1 .. n -> Rationals]
  BY AmpsUpToAre DEF NumbersTyped
<1>3. Simd!Times(m.fractalBounding, Simd!SumQ(a)) = Simd!One
  BY BoundingScales DEF NumbersTyped
<1> HIDE DEF n, O, a
<1>4. DOMAIN O = 1 .. n
  BY <1>1
<1>5. a = [k \in 1 .. n |-> a[k]]
  BY <1>2
<1>6. b = a
  BY <1>1, <1>4, <1>5
<1> QED
  BY <1>3, <1>6 DEF O

PerturbAmpsOf(f) ==
    f = [i \in Simd!Rounds(m.perturbOctaves) |->
            IF i = 1 THEN Simd!One ELSE Simd!Times(f[i-1], m.perturbGain)]

LEMMA WarpsAddUp ==
  ASSUME NumbersTyped
  PROVE  LET amps == CHOOSE f : PerturbAmpsOf(f)
         IN  Simd!Times(m.perturbFractalBounding, Simd!SumQ(amps)) = Simd!One
<1> DEFINE n == RoundsOfLoop(m.perturbOctaves)
           a == AmpsUpTo(m.perturbGain, m.perturbOctaves)
           f == CHOOSE f : PerturbAmpsOf(f)
<1>1. n \in Nat /\ n > 0 /\ Simd!Rounds(m.perturbOctaves) = 1 .. n
  BY RoundsAre DEF NumbersTyped
<1>2. /\ a \in [1 .. n -> Rationals] /\ a[1] = Simd!One
      /\ \A k \in 2 .. n : a[k] = Simd!Times(a[k-1], m.perturbGain)
  BY AmpsUpToAre DEF NumbersTyped
<1>3. Simd!Times(m.perturbFractalBounding, Simd!SumQ(a)) = Simd!One
  BY BoundingScales DEF NumbersTyped
<1> HIDE DEF n, a
<1>4. PerturbAmpsOf(a)
  <2>1. ASSUME NEW k \in 1 .. n
        PROVE  a[k] = IF k = 1 THEN Simd!One ELSE Simd!Times(a[k-1], m.perturbGain)
    <3>1. k # 1 => k \in 2 .. n
      BY <1>1
    <3> QED
      BY <1>2, <3>1
  <2>2. a = [k \in 1 .. n |-> a[k]]
    BY <1>2
  <2> QED
    BY <1>1, <2>1, <2>2 DEF PerturbAmpsOf
<1>5. PerturbAmpsOf(f)
  BY <1>4
<1> HIDE DEF f
<1>6. f = [k \in 1 .. n |-> f[k]]
  BY <1>1, <1>5 DEF PerturbAmpsOf
<1>7. f[1] = Simd!One
  BY <1>1, <1>5 DEF PerturbAmpsOf
<1>8. ASSUME NEW k \in 2 .. n PROVE f[k] = Simd!Times(f[k-1], m.perturbGain)
  <2>1. k \in 1 .. n /\ k # 1
    OBVIOUS
  <2> QED
    BY <1>1, <1>5, <2>1 DEF PerturbAmpsOf
<1> DEFINE T == {j \in Nat : f[j+1] = a[j+1]}
<1>9. 0 \in T
  BY <1>2, <1>7
<1>10. ASSUME NEW j \in 1 .. n-1, j-1 \in T PROVE j \in T
  <2>1. j+1 \in 2 .. n /\ (j+1)-1 = j /\ (j-1)+1 = j /\ j \in Nat
    BY <1>1
  <2>2. f[j+1] = Simd!Times(f[j], m.perturbGain) /\ a[j+1] = Simd!Times(a[j], m.perturbGain)
    BY <1>2, <1>8, <2>1
  <2>3. f[j] = a[j]
    BY <1>10, <2>1
  <2> QED
    BY <2>1, <2>2, <2>3
<1>11. \A j \in 0 .. n-1 : j \in T
  <2>1. n-1 \in Nat
    BY <1>1
  <2> HIDE DEF T
  <2> QED
    BY <1>9, <1>10, <2>1, AllUpTo
<1>12. \A k \in 1 .. n : f[k] = a[k]
  <2> SUFFICES ASSUME NEW k \in 1 .. n PROVE f[k] = a[k]
    OBVIOUS
  <2>1. k-1 \in 0 .. n-1 /\ (k-1)+1 = k
    BY <1>1
  <2> QED
    BY <1>11, <2>1
<1>13. a = [k \in 1 .. n |-> a[k]]
  BY <1>2
<1>14. f = a
  BY <1>6, <1>12, <1>13
<1> QED
  BY <1>3, <1>14 DEF f

IndicesOrdered ==
    /\ m.cellularDistanceIndex0 \in Int /\ m.cellularDistanceIndex1 \in Int
    /\ 0 <= m.cellularDistanceIndex0 /\ m.cellularDistanceIndex0 <= m.cellularDistanceIndex1
    /\ m.cellularDistanceIndex1 <= Simd!IndexMax

LEMMA SimdAgrees ==
  ASSUME NumbersTyped, IndicesOrdered
  PROVE  Simd!SettingsAgree
<1> DEFINE amps == CHOOSE f : PerturbAmpsOf(f)
<1>1. Simd!Times(m.perturbFractalBounding, Simd!SumQ(amps)) = Simd!One
  BY WarpsAddUp
<1>2. LET a == CHOOSE f : f = [i \in Simd!Rounds(m.perturbOctaves) |->
                    IF i = 1 THEN Simd!One ELSE Simd!Times(f[i-1], m.perturbGain)]
      IN  Simd!Times(m.perturbFractalBounding, Simd!SumQ(a)) = Simd!One
  BY <1>1 DEF PerturbAmpsOf
<1> QED
  BY <1>2, OctavesAddUp, SeedsDiffer DEF Simd!SettingsAgree, IndicesOrdered

-----------------------------------------------------------------------------
(* The settings of FastNoiseSIMD.                                          *)

\* The members that settings are computed from.
Computed == {"seed", "octaves", "gain", "lacunarity", "fractalBounding", "perturbType",
             "perturbAmp", "perturbFrequency", "perturbOctaves", "perturbLacunarity", "perturbGain",
             "perturbFractalBounding", "cellularDistanceIndex0", "cellularDistanceIndex1"}
Agreeing == m # Simd!NoObject => Computed \subseteq DOMAIN m /\ NumbersTyped /\ IndicesOrdered

LEMMA InputsTyped ==
  /\ Gains \subseteq Rationals /\ Amps \subseteq Numbers /\ Seeds \subseteq Int
  /\ OctaveCounts \subseteq Int /\ Indices \subseteq Int
  /\ \A name \in DOMAIN Values : name \notin Simd!Kept
  /\ \A name \in DOMAIN Values : \A value \in Values[name] :
        /\ name = "seed" => value \in Int
        /\ name = "perturbType" => value \in Simd!PerturbTypes
        /\ name \in {"lacunarity", "perturbFrequency", "perturbLacunarity"} => value \in Numbers
BY NoiseAssumption DEF Simd!Assumption, Rationals, Numbers

LEMMA ClampedIs ==
  ASSUME NEW i \in Int, NEW j \in Int
  PROVE  LET a == Simd!Clamped(IF i < j THEN i ELSE j)
             b == Simd!Clamped(IF i < j THEN j ELSE i)
         IN  a \in Int /\ b \in Int /\ 0 <= a /\ a <= b /\ b <= Simd!IndexMax
BY DEF Simd!Clamped, Simd!IndexMax

LEMMA CreatedAgrees ==
  ASSUME NEW class, NEW seed \in Seeds, m' = Simd!Defaults(class, seed)
  PROVE  Agreeing'
<1> DEFINE d == Simd!Defaults(class, seed)
<1>1. Computed \subseteq DOMAIN d
  BY DEF Simd!Defaults, Computed
<1>2. /\ d.seed = seed /\ d.octaves = 3 /\ d.perturbOctaves = 3
      /\ d.gain = Simd!Half /\ d.perturbGain = Simd!Half
      /\ d.lacunarity = Simd!Whole(2) /\ d.perturbLacunarity = Simd!Whole(2)
      /\ d.perturbFrequency = Simd!Half /\ d.perturbAmp = Simd!One /\ d.perturbType = "None"
      /\ d.fractalBounding = Simd!CalculateFractalBounding(Simd!Half, 3)
      /\ d.perturbFractalBounding = Simd!CalculateFractalBounding(Simd!Half, 3)
      /\ d.cellularDistanceIndex0 = 0 /\ d.cellularDistanceIndex1 = 1
  BY DEF Simd!Defaults, Simd!DefaultBounding
<1> HIDE DEF d
<1>3. m' = d
  BY DEF d
<1>4. /\ seed \in Int /\ Simd!Half \in Rationals /\ Simd!Whole(2) \in Numbers
      /\ Simd!Half \in Numbers /\ Simd!One \in Numbers
  BY InputsTyped DEF Rationals, Numbers, Simd!Half, Simd!Whole, Simd!One
<1>5. NumbersTyped'
  BY <1>2, <1>3, <1>4 DEF NumbersTyped, Simd!PerturbTypes
<1>6. IndicesOrdered'
  BY <1>2, <1>3 DEF IndicesOrdered, Simd!IndexMax
<1> QED
  BY <1>1, <1>3, <1>5, <1>6 DEF Agreeing

LEMMA AgreeingSame ==
  ASSUME Agreeing, m' = m
  PROVE  Agreeing'
BY DEF Agreeing, NumbersTyped, IndicesOrdered

LEMMA SetMemberAgrees ==
  ASSUME Agreeing, NEW name \in DOMAIN Values, Simd!SetMember(name)
  PROVE  Agreeing'
<1>1. PICK value \in Values[name] : Simd!Setting([m EXCEPT ![name] = value])
  BY DEF Simd!SetMember
<1>2. m # Simd!NoObject /\ m' = [m EXCEPT ![name] = value]
  BY <1>1 DEF Simd!Setting
<1>3. Computed \subseteq DOMAIN m /\ NumbersTyped /\ IndicesOrdered
  BY <1>2 DEF Agreeing
<1>4. DOMAIN m' = DOMAIN m
  BY <1>2
<1>5. ASSUME NEW k \in Computed PROVE m'[k] = IF k = name THEN value ELSE m[k]
  BY <1>2, <1>3
<1>6. /\ name = "seed" => value \in Int
      /\ name = "perturbType" => value \in Simd!PerturbTypes
      /\ name \in {"lacunarity", "perturbFrequency", "perturbLacunarity"} => value \in Numbers
      /\ name \notin Simd!Kept
  BY InputsTyped
<1>7. /\ m'.octaves = m.octaves /\ m'.gain = m.gain /\ m'.fractalBounding = m.fractalBounding
      /\ m'.perturbOctaves = m.perturbOctaves /\ m'.perturbGain = m.perturbGain
      /\ m'.perturbAmp = m.perturbAmp
      /\ m'.perturbFractalBounding = m.perturbFractalBounding
      /\ m'.cellularDistanceIndex0 = m.cellularDistanceIndex0
      /\ m'.cellularDistanceIndex1 = m.cellularDistanceIndex1
  BY <1>5, <1>6 DEF Computed, Simd!Kept
<1>8. /\ m'.seed \in Int /\ m'.perturbType \in Simd!PerturbTypes /\ m'.lacunarity \in Numbers
      /\ m'.perturbFrequency \in Numbers /\ m'.perturbLacunarity \in Numbers
  BY <1>3, <1>5, <1>6 DEF Computed, NumbersTyped
<1>9. NumbersTyped'
  BY <1>3, <1>7, <1>8 DEF NumbersTyped
<1>10. IndicesOrdered'
  BY <1>3, <1>7 DEF IndicesOrdered
<1> QED
  BY <1>3, <1>4, <1>9, <1>10 DEF Agreeing

LEMMA SetFractalAgrees ==
  ASSUME Agreeing, NEW gain, NEW octaves,
         Simd!Setting([m EXCEPT !.gain = gain, !.octaves = octaves,
                           !.fractalBounding = Simd!CalculateFractalBounding(gain, octaves)]),
         m # Simd!NoObject => gain \in Rationals /\ octaves \in Int
  PROVE  Agreeing'
<1> DEFINE b == Simd!CalculateFractalBounding(gain, octaves)
<1>1. m # Simd!NoObject /\ m' = [m EXCEPT !.gain = gain, !.octaves = octaves, !.fractalBounding = b]
  BY DEF Simd!Setting
<1> HIDE DEF b
<1>2. Computed \subseteq DOMAIN m /\ NumbersTyped /\ IndicesOrdered
  BY <1>1 DEF Agreeing
<1>3. DOMAIN m' = DOMAIN m
  BY <1>1
<1>4. m'.gain = gain /\ m'.octaves = octaves /\ m'.fractalBounding = b
  BY <1>1, <1>2 DEF Computed
<1>5. \A k \in Computed \ {"gain", "octaves", "fractalBounding"} : m'[k] = m[k]
  BY <1>1, <1>2
<1>6. NumbersTyped'
  BY <1>1, <1>2, <1>4, <1>5 DEF NumbersTyped, Computed, b
<1>7. IndicesOrdered'
  BY <1>2, <1>5 DEF IndicesOrdered, Computed
<1> QED
  BY <1>2, <1>3, <1>6, <1>7 DEF Agreeing

LEMMA SetPerturbAgrees ==
  ASSUME Agreeing, NEW gain, NEW octaves,
         Simd!Setting([m EXCEPT !.perturbGain = gain, !.perturbOctaves = octaves,
                           !.perturbFractalBounding = Simd!CalculateFractalBounding(gain, octaves)]),
         m # Simd!NoObject => gain \in Rationals /\ octaves \in Int
  PROVE  Agreeing'
<1> DEFINE b == Simd!CalculateFractalBounding(gain, octaves)
<1>1. m # Simd!NoObject
      /\ m' = [m EXCEPT !.perturbGain = gain, !.perturbOctaves = octaves, !.perturbFractalBounding = b]
  BY DEF Simd!Setting
<1> HIDE DEF b
<1>2. Computed \subseteq DOMAIN m /\ NumbersTyped /\ IndicesOrdered
  BY <1>1 DEF Agreeing
<1>3. DOMAIN m' = DOMAIN m
  BY <1>1
<1>4. m'.perturbGain = gain /\ m'.perturbOctaves = octaves /\ m'.perturbFractalBounding = b
  BY <1>1, <1>2 DEF Computed
<1>5. \A k \in Computed \ {"perturbGain", "perturbOctaves", "perturbFractalBounding"} : m'[k] = m[k]
  BY <1>1, <1>2
<1>6. NumbersTyped'
  BY <1>1, <1>2, <1>4, <1>5 DEF NumbersTyped, Computed, b
<1>7. IndicesOrdered'
  BY <1>2, <1>5 DEF IndicesOrdered, Computed
<1> QED
  BY <1>2, <1>3, <1>6, <1>7 DEF Agreeing

LEMMA SetFractalOctavesAgrees ==
  ASSUME Agreeing, NEW n \in Int, Simd!SetFractalOctaves(n)
  PROVE  Agreeing'
<1>1. m # Simd!NoObject
  BY DEF Simd!SetFractalOctaves, Simd!Setting
<1>2. Computed \subseteq DOMAIN m /\ NumbersTyped
  BY <1>1 DEF Agreeing
<1>3. [m EXCEPT !.gain = m.gain, !.octaves = n,
                !.fractalBounding = Simd!CalculateFractalBounding(m.gain, n)]
        = [m EXCEPT !.octaves = n, !.fractalBounding = Simd!CalculateFractalBounding(m.gain, n)]
  BY <1>2 DEF Computed
<1>4. m.gain \in Rationals
  BY <1>2 DEF NumbersTyped
<1> DEFINE gain == m.gain
<1>5. Simd!Setting([m EXCEPT !.gain = gain, !.octaves = n,
                         !.fractalBounding = Simd!CalculateFractalBounding(gain, n)])
  BY <1>3 DEF Simd!SetFractalOctaves
<1> HIDE DEF gain
<1> QED
  BY <1>4, <1>5, SetFractalAgrees DEF gain

LEMMA SetFractalGainAgrees ==
  ASSUME Agreeing, NEW g \in Rationals, Simd!SetFractalGain(g)
  PROVE  Agreeing'
<1>1. m # Simd!NoObject
  BY DEF Simd!SetFractalGain, Simd!Setting
<1>2. Computed \subseteq DOMAIN m /\ NumbersTyped
  BY <1>1 DEF Agreeing
<1>3. [m EXCEPT !.gain = g, !.octaves = m.octaves,
                !.fractalBounding = Simd!CalculateFractalBounding(g, m.octaves)]
        = [m EXCEPT !.gain = g, !.fractalBounding = Simd!CalculateFractalBounding(g, m.octaves)]
  BY <1>2 DEF Computed
<1>4. m.octaves \in Int
  BY <1>2 DEF NumbersTyped
<1> DEFINE n == m.octaves
<1>5. Simd!Setting([m EXCEPT !.gain = g, !.octaves = n,
                         !.fractalBounding = Simd!CalculateFractalBounding(g, n)])
  BY <1>3 DEF Simd!SetFractalGain
<1> HIDE DEF n
<1> QED
  BY <1>4, <1>5, SetFractalAgrees DEF n

LEMMA SetPerturbFractalOctavesAgrees ==
  ASSUME Agreeing, NEW n \in Int, Simd!SetPerturbFractalOctaves(n)
  PROVE  Agreeing'
<1>1. m # Simd!NoObject
  BY DEF Simd!SetPerturbFractalOctaves, Simd!Setting
<1>2. Computed \subseteq DOMAIN m /\ NumbersTyped
  BY <1>1 DEF Agreeing
<1>3. [m EXCEPT !.perturbGain = m.perturbGain, !.perturbOctaves = n,
                !.perturbFractalBounding = Simd!CalculateFractalBounding(m.perturbGain, n)]
        = [m EXCEPT !.perturbOctaves = n,
                    !.perturbFractalBounding = Simd!CalculateFractalBounding(m.perturbGain, n)]
  BY <1>2 DEF Computed
<1>4. m.perturbGain \in Rationals
  BY <1>2 DEF NumbersTyped
<1> DEFINE gain == m.perturbGain
<1>5. Simd!Setting([m EXCEPT !.perturbGain = gain, !.perturbOctaves = n,
                         !.perturbFractalBounding = Simd!CalculateFractalBounding(gain, n)])
  BY <1>3 DEF Simd!SetPerturbFractalOctaves
<1> HIDE DEF gain
<1> QED
  BY <1>4, <1>5, SetPerturbAgrees DEF gain

LEMMA SetPerturbFractalGainAgrees ==
  ASSUME Agreeing, NEW g \in Rationals, Simd!SetPerturbFractalGain(g)
  PROVE  Agreeing'
<1>1. m # Simd!NoObject
  BY DEF Simd!SetPerturbFractalGain, Simd!Setting
<1>2. Computed \subseteq DOMAIN m /\ NumbersTyped
  BY <1>1 DEF Agreeing
<1>3. [m EXCEPT !.perturbGain = g, !.perturbOctaves = m.perturbOctaves,
                !.perturbFractalBounding = Simd!CalculateFractalBounding(g, m.perturbOctaves)]
        = [m EXCEPT !.perturbGain = g,
                    !.perturbFractalBounding = Simd!CalculateFractalBounding(g, m.perturbOctaves)]
  BY <1>2 DEF Computed
<1>4. m.perturbOctaves \in Int
  BY <1>2 DEF NumbersTyped
<1> DEFINE n == m.perturbOctaves
<1>5. Simd!Setting([m EXCEPT !.perturbGain = g, !.perturbOctaves = n,
                         !.perturbFractalBounding = Simd!CalculateFractalBounding(g, n)])
  BY <1>3 DEF Simd!SetPerturbFractalGain
<1> HIDE DEF n
<1> QED
  BY <1>4, <1>5, SetPerturbAgrees DEF n

LEMMA SetPerturbAmpAgrees ==
  ASSUME Agreeing, NEW amp \in Numbers, Simd!SetPerturbAmp(amp)
  PROVE  Agreeing'
<1> DEFINE a == Simd!Times(amp, Simd!Reciprocal(Simd!Middle))
<1>1. a \in Numbers
  <2>1. Simd!Reciprocal(Simd!Middle) \in Numbers
    BY DEF Simd!Reciprocal, Simd!Middle, Numbers
  <2> QED
    BY <2>1, ProductTyped
<1>2. m # Simd!NoObject /\ m' = [m EXCEPT !.perturbAmp = a]
  BY DEF Simd!SetPerturbAmp, Simd!Setting
<1> HIDE DEF a
<1>3. Computed \subseteq DOMAIN m /\ NumbersTyped /\ IndicesOrdered
  BY <1>2 DEF Agreeing
<1>4. DOMAIN m' = DOMAIN m /\ m'.perturbAmp = a
  BY <1>2, <1>3 DEF Computed
<1>5. \A k \in Computed \ {"perturbAmp"} : m'[k] = m[k]
  BY <1>2, <1>3
<1>6. NumbersTyped'
  BY <1>1, <1>3, <1>4, <1>5 DEF NumbersTyped, Computed
<1>7. IndicesOrdered'
  BY <1>3, <1>5 DEF IndicesOrdered, Computed
<1> QED
  BY <1>3, <1>4, <1>6, <1>7 DEF Agreeing

LEMMA SetIndicesAgrees ==
  ASSUME Agreeing, NEW i \in Int, NEW j \in Int, Simd!SetCellularDistance2Indicies(i, j)
  PROVE  Agreeing'
<1> DEFINE a == Simd!Clamped(IF i < j THEN i ELSE j)
           b == Simd!Clamped(IF i < j THEN j ELSE i)
<1>1. a \in Int /\ b \in Int /\ 0 <= a /\ a <= b /\ b <= Simd!IndexMax
  BY ClampedIs
<1>2. m # Simd!NoObject
      /\ m' = [m EXCEPT !.cellularDistanceIndex0 = a, !.cellularDistanceIndex1 = b]
  BY DEF Simd!SetCellularDistance2Indicies, Simd!Setting
<1> HIDE DEF a, b
<1>3. Computed \subseteq DOMAIN m /\ NumbersTyped /\ IndicesOrdered
  BY <1>2 DEF Agreeing
<1>4. DOMAIN m' = DOMAIN m /\ m'.cellularDistanceIndex0 = a /\ m'.cellularDistanceIndex1 = b
  BY <1>2, <1>3 DEF Computed
<1>5. \A k \in Computed \ {"cellularDistanceIndex0", "cellularDistanceIndex1"} : m'[k] = m[k]
  BY <1>2, <1>3
<1>6. NumbersTyped'
  BY <1>3, <1>5 DEF NumbersTyped, Computed
<1>7. IndicesOrdered'
  BY <1>1, <1>4 DEF IndicesOrdered
<1> QED
  BY <1>3, <1>4, <1>6, <1>7 DEF Agreeing

LEMMA SimdStepAgrees ==
  ASSUME Agreeing, Simd!Next
  PROVE  Agreeing'
<1>1. ASSUME NEW l \in Compiled, Simd!SetSIMDLevel(l) PROVE Agreeing'
  BY <1>1, AgreeingSame DEF Simd!SetSIMDLevel
<1>2. ASSUME NEW seed \in Seeds, Simd!NewFastNoiseSIMD(seed) PROVE Agreeing'
  BY <1>2, CreatedAgrees DEF Simd!NewFastNoiseSIMD
<1>3. ASSUME NEW name \in DOMAIN Values, Simd!SetMember(name) PROVE Agreeing'
  BY <1>3, SetMemberAgrees
<1>4. ASSUME NEW n \in OctaveCounts, Simd!SetFractalOctaves(n) \/ Simd!SetPerturbFractalOctaves(n)
      PROVE  Agreeing'
  <2>1. n \in Int
    BY InputsTyped
  <2> QED
    BY <1>4, <2>1, SetFractalOctavesAgrees, SetPerturbFractalOctavesAgrees
<1>5. ASSUME NEW g \in Gains, Simd!SetFractalGain(g) \/ Simd!SetPerturbFractalGain(g)
      PROVE  Agreeing'
  <2>1. g \in Rationals
    BY InputsTyped
  <2> QED
    BY <1>5, <2>1, SetFractalGainAgrees, SetPerturbFractalGainAgrees
<1>6. ASSUME NEW amp \in Amps, Simd!SetPerturbAmp(amp) PROVE Agreeing'
  <2>1. amp \in Numbers
    BY InputsTyped
  <2> QED
    BY <1>6, <2>1, SetPerturbAmpAgrees
<1>7. ASSUME NEW i \in Indices, NEW j \in Indices, Simd!SetCellularDistance2Indicies(i, j)
      PROVE  Agreeing'
  <2>1. i \in Int /\ j \in Int
    BY InputsTyped
  <2> QED
    BY <1>7, <2>1, SetIndicesAgrees
<1>8. ASSUME NEW set, Simd!Fills(set) PROVE Agreeing'
  BY <1>8, AgreeingSame DEF Simd!Fills
<1>9. ASSUME NEW set, Simd!NewVectorSet(set) PROVE Agreeing'
  BY <1>9, AgreeingSame DEF Simd!NewVectorSet
<1>10. ASSUME NEW start, NEW block, NEW scale, Simd!GetNoiseSet(start, block, scale) PROVE Agreeing'
  BY <1>8, <1>10 DEF Simd!GetNoiseSet, Simd!Gets
<1>11. ASSUME NEW kind, NEW block, Simd!GetSet(kind, <<0, 0, 0>>, block, Simd!One) PROVE Agreeing'
  BY <1>8, <1>11 DEF Simd!GetSet, Simd!Gets
<1>12. ASSUME NEW start, NEW block, NEW s, Simd!GetSampledNoiseSet(start, block, s) PROVE Agreeing'
  BY <1>8, <1>12 DEF Simd!GetSampledNoiseSet, Simd!Gets
<1>13. ASSUME NEW kind, NEW offset, Simd!FillFromVectors(kind, offset) PROVE Agreeing'
  BY <1>8, <1>13 DEF Simd!FillFromVectors
<1>14. ASSUME NEW offset, Simd!FillSampledFromVectors(offset) PROVE Agreeing'
  BY <1>8, <1>14 DEF Simd!FillSampledFromVectors
<1>15. ASSUME NEW block, Simd!FillVectorSet(block) PROVE Agreeing'
  BY <1>9, <1>15 DEF Simd!FillVectorSet
<1>16. ASSUME NEW block, NEW s, Simd!FillSamplingVectorSet(s, block) PROVE Agreeing'
  BY <1>9, <1>15, <1>16 DEF Simd!FillSamplingVectorSet
<1>17. ASSUME Simd!FreeNoiseSet \/ Simd!FreeVectorSet PROVE Agreeing'
  BY <1>17, AgreeingSame DEF Simd!FreeNoiseSet, Simd!FreeVectorSet
<1> QED
  BY <1>1, <1>2, <1>3, <1>4, <1>5, <1>6, <1>7, <1>10, <1>11, <1>12, <1>13, <1>14, <1>15, <1>16, <1>17
     DEF Simd!Next

-----------------------------------------------------------------------------
(* FastNoise computes with the same numbers.                               *)

LEMMA GcdAlike == Fast!Gcd = Simd!Gcd
BY DEF Fast!Gcd, Simd!Gcd

LEMMA MagnitudeAlike ==
  ASSUME NEW n
  PROVE  Fast!Magnitude(n) = Simd!Magnitude(n)
BY DEF Fast!Magnitude, Simd!Magnitude

LEMMA TimesAlike ==
  ASSUME NEW p, NEW q
  PROVE  Fast!Times(p, q) = Simd!Times(p, q)
<1> DEFINE g == Simd!Gcd[<<Simd!Magnitude(p[1]), q[2]>>]
           h == Simd!Gcd[<<Simd!Magnitude(q[1]), p[2]>>]
<1>1. Fast!Times(p, q) = Fast!TimesOver(p, q, g, h)
  BY GcdAlike, MagnitudeAlike DEF Fast!Times
<1>2. Simd!Times(p, q) = Simd!TimesOver(p, q, g, h)
  BY DEF Simd!Times
<1> HIDE DEF g, h
<1>3. Fast!TimesOver(p, q, g, h) = Simd!TimesOver(p, q, g, h)
  BY DEF Fast!TimesOver, Simd!TimesOver
<1> QED
  BY <1>1, <1>2, <1>3

LEMMA QAlike ==
  ASSUME NEW n, NEW d
  PROVE  Fast!Q(n, d) = Simd!Q(n, d)
<1> DEFINE g == Simd!Gcd[<<Simd!Magnitude(n), d>>]
<1>1. Fast!Q(n, d) = Fast!Reduced(n, d, g)
  BY GcdAlike, MagnitudeAlike DEF Fast!Q
<1>2. Simd!Q(n, d) = Simd!Reduced(n, d, g)
  BY DEF Simd!Q
<1> HIDE DEF g
<1>3. Fast!Reduced(n, d, g) = Simd!Reduced(n, d, g)
  BY DEF Fast!Reduced, Simd!Reduced
<1> QED
  BY <1>1, <1>2, <1>3

LEMMA PlusAlike ==
  ASSUME NEW p, NEW q
  PROVE  Fast!Plus(p, q) = Simd!Plus(p, q)
<1> DEFINE g == Simd!Gcd[<<p[2], q[2]>>]
<1>1. Fast!Plus(p, q) = Fast!PlusOver(p, q, g)
  BY GcdAlike DEF Fast!Plus
<1>2. Simd!Plus(p, q) = Simd!PlusOver(p, q, g)
  BY DEF Simd!Plus
<1> HIDE DEF g
<1> DEFINE n == p[1] * (q[2] \div g) + q[1] * (p[2] \div g)
           d == p[2] * (q[2] \div g)
<1>3. Fast!PlusOver(p, q, g) = Fast!Q(n, d)
  BY DEF Fast!PlusOver
<1>4. Simd!PlusOver(p, q, g) = Simd!Q(n, d)
  BY DEF Simd!PlusOver
<1> HIDE DEF n, d
<1> QED
  BY <1>1, <1>2, <1>3, <1>4, QAlike

FastSumsOf(g, f, n) == g = [k \in 0 .. n |-> IF k = 0 THEN Fast!Zero ELSE Fast!Plus(f[k], g[k-1])]

LEMMA SumsAlike ==
  ASSUME NEW g, NEW f, NEW n
  PROVE  FastSumsOf(g, f, n) <=> SumsOf(g, f, n)
<1>1. Fast!Zero = Simd!Zero
  BY DEF Fast!Zero, Simd!Zero
<1>2. [k \in 0 .. n |-> IF k = 0 THEN Fast!Zero ELSE Fast!Plus(f[k], g[k-1])]
        = [k \in 0 .. n |-> IF k = 0 THEN Simd!Zero ELSE Simd!Plus(f[k], g[k-1])]
  BY <1>1, PlusAlike
<1> QED
  BY <1>2 DEF FastSumsOf, SumsOf

LEMMA SumsSame ==
  ASSUME NEW g, NEW h, NEW f, NEW n \in Nat, SumsOf(g, f, n), SumsOf(h, f, n)
  PROVE  g = h
<1>1. \A k \in 0 .. n : /\ g[k] = IF k = 0 THEN Simd!Zero ELSE Simd!Plus(f[k], g[k-1])
                        /\ h[k] = IF k = 0 THEN Simd!Zero ELSE Simd!Plus(f[k], h[k-1])
  BY DEF SumsOf
<1>2. g = [k \in 0 .. n |-> g[k]] /\ h = [k \in 0 .. n |-> h[k]]
  BY DEF SumsOf
<1> DEFINE T == {k \in Nat : g[k] = h[k]}
<1>3. 0 \in T
  BY <1>1
<1>4. \A k \in 1 .. n : k-1 \in T => k \in T
  BY <1>1
<1>5. \A k \in 0 .. n : k \in T
  <2> HIDE DEF T
  <2> QED
    BY <1>3, <1>4, AllUpTo
<1>6. \A k \in 0 .. n : g[k] = h[k]
  BY <1>5
<1> QED
  BY <1>2, <1>6

LEMMA SumAlike ==
  ASSUME NEW n \in Nat, NEW f \in [1 .. n -> Rationals]
  PROVE  Fast!SumQ(f) = Simd!SumQ(f)
<1> DEFINE c == Simd!Cardinality(DOMAIN f)
           g == CHOOSE g : FastSumsOf(g, f, c)
           h == CHOOSE h : SumsOf(h, f, c)
<1>1. c = n
  <2>1. DOMAIN f = 1 .. n
    OBVIOUS
  <2>2. Cardinality(1 .. n) = n
    BY FS_Interval
  <2> QED
    BY <2>1, <2>2, SimdCardinality
<1>2. Fast!Cardinality(DOMAIN f) = c
  BY DEF Fast!Cardinality, Simd!Cardinality
<1>3. Fast!SumQ(f) = g[c]
  <2> DEFINE d == Fast!Cardinality(DOMAIN f)
  <2>1. Fast!SumQ(f) = (CHOOSE k : FastSumsOf(k, f, d))[d]
    BY DEF Fast!SumQ, FastSumsOf
  <2>2. d = c
    BY <1>2
  <2> HIDE DEF d, c
  <2> QED
    BY <2>1, <2>2
<1>4. Simd!SumQ(f) = h[c]
  BY DEF Simd!SumQ, SumsOf
<1> HIDE DEF c
<1>5. \E k : SumsOf(k, f, c)
  BY <1>1, SumsDefined
<1>6. SumsOf(h, f, c)
  BY <1>5
<1>7. FastSumsOf(g, f, c)
  BY <1>5, SumsAlike
<1> HIDE DEF g, h
<1>8. SumsOf(g, f, c)
  BY <1>7, SumsAlike
<1>9. g = h
  BY <1>1, <1>6, <1>8, SumsSame
<1> QED
  BY <1>3, <1>4, <1>9

FastAmpsOf(amp, gain) == amp = [i \in Nat |-> IF i = 0 THEN Fast!One ELSE Fast!Times(amp[i-1], gain)]

LEMMA AmpsAlike ==
  ASSUME NEW amp, NEW gain
  PROVE  FastAmpsOf(amp, gain) <=> AmpsOf(amp, gain)
<1>1. Fast!One = Simd!One
  BY DEF Fast!One, Simd!One
<1>2. [i \in Nat |-> IF i = 0 THEN Fast!One ELSE Fast!Times(amp[i-1], gain)]
        = [i \in Nat |-> IF i = 0 THEN Simd!One ELSE Simd!Times(amp[i-1], gain)]
  BY <1>1, TimesAlike
<1> QED
  BY <1>2 DEF FastAmpsOf, AmpsOf

LEMMA AmpsSame ==
  ASSUME NEW gain \in Rationals, NEW a, NEW b, AmpsOf(a, gain), AmpsOf(b, gain)
  PROVE  a = b
<1>1. /\ a[0] = Simd!One /\ \A i \in Nat : a[i+1] = Simd!Times(a[i], gain)
      /\ b[0] = Simd!One /\ \A i \in Nat : b[i+1] = Simd!Times(b[i], gain)
  BY AmpsAre
<1>2. a = [i \in Nat |-> a[i]] /\ b = [i \in Nat |-> b[i]]
  BY DEF AmpsOf
<1> DEFINE T == {i \in Nat : a[i] = b[i]}
<1>3. 0 \in T /\ \A i \in Nat : i \in T => i+1 \in T
  BY <1>1
<1>4. \A i \in Nat : i \in T
  <2> HIDE DEF T
  <2> QED
    BY <1>3, AllNumbers
<1>5. \A i \in Nat : a[i] = b[i]
  BY <1>4
<1> QED
  BY <1>2, <1>5

\* The sum of the amplitudes, as the bounding and its property have it.
FastAmps(gain, octaves) ==
    LET amp == CHOOSE amp : FastAmpsOf(amp, gain)
    IN  [i \in 1 .. RoundsOfLoop(octaves) |-> amp[i-1]]

LEMMA FastAmpsAre ==
  ASSUME NEW gain \in Rationals, NEW octaves \in Int
  PROVE  FastAmps(gain, octaves) = AmpsUpTo(gain, octaves)
<1> DEFINE a == CHOOSE amp : FastAmpsOf(amp, gain)
           b == CHOOSE amp : AmpsOf(amp, gain)
<1>1. AmpsOf(b, gain)
  BY AmpsDefined
<1>2. \E amp : FastAmpsOf(amp, gain)
  BY <1>1, AmpsAlike
<1>3. FastAmpsOf(a, gain)
  BY <1>2
<1>4. FastAmps(gain, octaves) = [i \in 1 .. RoundsOfLoop(octaves) |-> a[i-1]]
  BY DEF FastAmps
<1>5. AmpsUpTo(gain, octaves) = [i \in 1 .. RoundsOfLoop(octaves) |-> b[i-1]]
  BY DEF AmpsUpTo
<1> HIDE DEF a, b
<1>6. a = b
  BY <1>1, <1>3, AmpsAlike, AmpsSame
<1> QED
  BY <1>4, <1>5, <1>6

LEMMA FastBoundingScales ==
  ASSUME NEW gain \in Rationals, NEW octaves \in Int
  PROVE  Fast!Times(Fast!CalculateFractalBounding(gain, octaves),
                    Fast!SumQ(FastAmps(gain, octaves))) = Fast!One
<1> DEFINE f == AmpsUpTo(gain, octaves)
           n == RoundsOfLoop(octaves)
<1>1. n \in Nat /\ n > 0 /\ f \in [1 .. n -> Rationals]
  BY AmpsUpToAre
<1>2. /\ Simd!CalculateFractalBounding(gain, octaves) = Simd!Reciprocal(Simd!SumQ(f))
      /\ Simd!Times(Simd!CalculateFractalBounding(gain, octaves), Simd!SumQ(f)) = Simd!One
  BY BoundingScales
<1>3. FastAmps(gain, octaves) = f
  BY FastAmpsAre
<1>4. Fast!CalculateFractalBounding(gain, octaves) = Fast!Reciprocal(Fast!SumQ(FastAmps(gain, octaves)))
  BY DEF Fast!CalculateFractalBounding, FastAmps, FastAmpsOf, RoundsOfLoop
<1> HIDE DEF f, n
<1>5. Fast!SumQ(f) = Simd!SumQ(f)
  BY <1>1, SumAlike
<1>6. Fast!Reciprocal(Simd!SumQ(f)) = Simd!Reciprocal(Simd!SumQ(f))
  BY DEF Fast!Reciprocal, Simd!Reciprocal
<1>7. Fast!One = Simd!One
  BY DEF Fast!One, Simd!One
<1>8. Fast!CalculateFractalBounding(gain, octaves) = Simd!CalculateFractalBounding(gain, octaves)
  BY <1>2, <1>3, <1>4, <1>5, <1>6
<1> QED
  BY <1>2, <1>3, <1>5, <1>7, <1>8, TimesAlike

-----------------------------------------------------------------------------
(* The tables of FastNoise: what a round of the shuffle leaves.            *)

Places == 0 .. 2*N-1
TableRecords == [p : [Places -> 0 .. N-1], p12 : [Places -> 0 .. Gradients-1]]
FirstTables(old) == [p |-> [i \in Places |-> IF i < N THEN i ELSE old[i]], p12 |-> [i \in Places |-> 0]]
NextTables(j, t, draw) ==
    LET k == draw[j-1]
        l == t.p[j-1]
        set == [t.p EXCEPT ![j-1] = t.p[k], ![j-1+N] = t.p[k]]
        swapped == [set EXCEPT ![k] = l]
        dir == swapped[j-1] % Gradients
    IN  [p |-> swapped, p12 |-> [t.p12 EXCEPT ![j-1] = dir, ![j-1+N] = dir]]
TablesOf(f, old, draw) ==
    f = [j \in 0 .. N |-> IF j = 0 THEN FirstTables(old) ELSE NextTables(j, f[j-1], draw)]

\* The first j places are done, in both halves; but the second half's first
\* place may be drawn later.
PlaceDone(i, t) ==
    t.p12[i] = t.p[i] % Gradients /\ t.p12[i+N] = t.p12[i] /\ (i > 0 => t.p[i+N] = t.p[i])
PlacesDone(j, t) == \A i \in 0 .. j-1 : PlaceDone(i, t)
Drawn(draw) == \A j \in 0 .. N-1 : draw[j] \in j .. N

LEMMA SizesTyped == N \in Nat /\ N > 0 /\ Gradients \in Nat /\ Gradients > 0
BY NoiseAssumption DEF Fast!Assumption

LEMMA NextTablesAre ==
  ASSUME NEW j \in 1 .. N, NEW draw, Drawn(draw), NEW t \in TableRecords
  PROVE  LET k == draw[j-1]
             u == NextTables(j, t, draw)
         IN  /\ k \in j-1 .. N
             /\ u \in TableRecords
             /\ \A i \in Places : u.p[i] = IF i = k THEN t.p[j-1]
                                           ELSE IF i = j-1 \/ i = j-1+N THEN t.p[k] ELSE t.p[i]
             /\ \A i \in Places : u.p12[i] = IF i = j-1 \/ i = j-1+N THEN u.p[j-1] % Gradients
                                             ELSE t.p12[i]
<1> DEFINE k == draw[j-1]
           l == t.p[j-1]
           set == [t.p EXCEPT ![j-1] = t.p[k], ![j-1+N] = t.p[k]]
           swapped == [set EXCEPT ![k] = l]
           dir == swapped[j-1] % Gradients
           dirs == [t.p12 EXCEPT ![j-1] = dir, ![j-1+N] = dir]
           u == NextTables(j, t, draw)
<1>1. /\ N \in Nat /\ N > 0 /\ Gradients \in Nat /\ Gradients > 0
      /\ j-1 \in Places /\ j-1+N \in Places /\ j-1 # j-1+N
  BY SizesTyped DEF Places
<1>2. k \in j-1 .. N
  BY <1>1 DEF Drawn
<1>3. k \in Places
  BY <1>1, <1>2 DEF Places
<1>4. t.p \in [Places -> 0 .. N-1] /\ t.p12 \in [Places -> 0 .. Gradients-1]
  BY DEF TableRecords
<1>5. u.p = swapped /\ u.p12 = dirs /\ u = [p |-> swapped, p12 |-> dirs]
  BY DEF NextTables
<1> HIDE DEF k, u
<1>6. \A i \in Places : set[i] = IF i = j-1 \/ i = j-1+N THEN t.p[k] ELSE t.p[i]
  BY <1>1, <1>4
<1>7. set \in [Places -> 0 .. N-1] /\ l \in 0 .. N-1
  BY <1>1, <1>3, <1>4
<1> HIDE DEF set, l
<1>8. swapped \in [Places -> 0 .. N-1]
      /\ \A i \in Places : swapped[i] = IF i = k THEN l ELSE set[i]
  BY <1>3, <1>7
<1>9. dir \in 0 .. Gradients-1
  <2>1. swapped[j-1] \in Int
    BY <1>1, <1>8
  <2> DEFINE s == swapped[j-1]
  <2> HIDE DEF s, swapped
  <2>2. s % Gradients \in Nat /\ s % Gradients < Gradients
    BY <1>1, <2>1, DivMod DEF s
  <2> QED
    BY <1>1, <2>2 DEF s
<1> DEFINE direction == dir
<1>10. dirs = [t.p12 EXCEPT ![j-1] = direction, ![j-1+N] = direction]
  OBVIOUS
<1>11. direction = u.p[j-1] % Gradients /\ direction \in 0 .. Gradients-1
  BY <1>5, <1>9
<1> HIDE DEF direction, dirs, swapped
<1>12. dirs \in [Places -> 0 .. Gradients-1]
       /\ \A i \in Places : dirs[i] = IF i = j-1 \/ i = j-1+N THEN direction ELSE t.p12[i]
  BY <1>1, <1>4, <1>10, <1>11
<1>13. u \in TableRecords
  BY <1>5, <1>8, <1>12 DEF TableRecords
<1>14. \A i \in Places : u.p[i] = IF i = k THEN t.p[j-1]
                                 ELSE IF i = j-1 \/ i = j-1+N THEN t.p[k] ELSE t.p[i]
  BY <1>5, <1>6, <1>8 DEF l
<1>15. \A i \in Places : u.p12[i] = IF i = j-1 \/ i = j-1+N THEN u.p[j-1] % Gradients ELSE t.p12[i]
  BY <1>5, <1>11, <1>12
<1> QED
  BY <1>2, <1>13, <1>14, <1>15 DEF k, u

LEMMA NextPlaceDone ==
  ASSUME NEW j \in 1 .. N, NEW draw, Drawn(draw), NEW t \in TableRecords, PlacesDone(j-1, t)
  PROVE  PlacesDone(j, NextTables(j, t, draw))
<1> DEFINE k == draw[j-1]
           u == NextTables(j, t, draw)
<1>1. N \in Nat /\ N > 0 /\ j-1 \in Places /\ j-1+N \in Places
  BY SizesTyped DEF Places
<1>2. /\ k \in j-1 .. N
      /\ \A i \in Places : u.p[i] = IF i = k THEN t.p[j-1]
                                    ELSE IF i = j-1 \/ i = j-1+N THEN t.p[k] ELSE t.p[i]
      /\ \A i \in Places : u.p12[i] = IF i = j-1 \/ i = j-1+N THEN u.p[j-1] % Gradients
                                      ELSE t.p12[i]
  BY NextTablesAre
<1> HIDE DEF k, u
<1>3. PlaceDone(j-1, u)
  <2>1. u.p12[j-1] = u.p[j-1] % Gradients /\ u.p12[j-1+N] = u.p12[j-1]
    BY <1>1, <1>2
  <2>2. j-1 > 0 => u.p[j-1+N] = u.p[j-1]
    <3> SUFFICES ASSUME j-1 > 0 PROVE u.p[j-1+N] = u.p[j-1]
      OBVIOUS
    <3>1. k # j-1+N
      BY <1>1, <1>2
    <3>2. u.p[j-1+N] = t.p[k]
      BY <1>1, <1>2, <3>1
    <3>3. u.p[j-1] = t.p[k]
      BY <1>1, <1>2
    <3> QED
      BY <3>2, <3>3
  <2> QED
    BY <2>1, <2>2 DEF PlaceDone
<1>4. ASSUME NEW i \in 0 .. j-2 PROVE PlaceDone(i, u)
  <2>1. /\ i \in Places /\ i+N \in Places /\ i \in 0 .. (j-1)-1
        /\ i # j-1 /\ i # j-1+N /\ i+N # j-1 /\ i+N # j-1+N /\ i # k /\ (i > 0 => i+N # k)
    BY <1>1, <1>2 DEF Places
  <2>2. u.p[i] = t.p[i] /\ u.p12[i] = t.p12[i] /\ u.p12[i+N] = t.p12[i+N]
        /\ (i > 0 => u.p[i+N] = t.p[i+N])
    BY <1>2, <2>1
  <2>3. PlaceDone(i, t)
    BY <2>1 DEF PlacesDone
  <2> QED
    BY <2>2, <2>3 DEF PlaceDone
<1>5. \A i \in 0 .. j-1 : i = j-1 \/ i \in 0 .. j-2
  OBVIOUS
<1> QED
  BY <1>3, <1>4, <1>5 DEF PlacesDone, u

LEMMA ShuffledDone ==
  ASSUME NEW old, \A i \in N .. 2*N-1 : old[i] \in 0 .. N-1, NEW draw, Drawn(draw)
  PROVE  Fast!Shuffled(old, draw) \in TableRecords /\ PlacesDone(N, Fast!Shuffled(old, draw))
<1> DEFINE step == [x \in (1 .. N) \X TableRecords |-> NextTables(x[1], x[2], draw)]
           loop == CHOOSE f : TablesOf(f, old, draw)
<1>1. N \in Nat /\ N > 0 /\ Gradients \in Nat /\ Gradients > 0
  BY SizesTyped
<1>2. FirstTables(old) \in TableRecords
  <2>1. \A i \in Places : i < N => i \in 0 .. N-1
    BY <1>1 DEF Places
  <2>2. \A i \in Places : ~(i < N) => i \in N .. 2*N-1
    BY <1>1 DEF Places
  <2>3. \A i \in Places : (IF i < N THEN i ELSE old[i]) \in 0 .. N-1
    BY <2>1, <2>2
  <2>4. 0 \in 0 .. Gradients-1
    BY <1>1
  <2> QED
    BY <2>3, <2>4 DEF FirstTables, TableRecords
<1>3. \A j \in 1 .. N, t \in TableRecords :
         step[<<j, t>>] = NextTables(j, t, draw) /\ NextTables(j, t, draw) \in TableRecords
  <2>1. \A j \in 1 .. N, t \in TableRecords : step[<<j, t>>] = NextTables(j, t, draw)
    OBVIOUS
  <2> QED
    BY <2>1, NextTablesAre
<1> HIDE DEF step
<1>4. KeptBy(step, N, TableRecords)
  BY <1>3 DEF KeptBy
<1>5. PICK f : UpTo(f, N, TableRecords, FirstTables(old), step)
  BY <1>1, <1>2, <1>4, RecursiveUpTo
<1>6. TablesOf(f, old, draw)
  <2>1. ASSUME NEW j \in 0 .. N
        PROVE  f[j] = IF j = 0 THEN FirstTables(old) ELSE NextTables(j, f[j-1], draw)
    <3>1. CASE j # 0
      <4>1. j \in 1 .. N /\ j-1 \in 0 .. N
        BY <1>1, <3>1
      <4>2. f[j-1] \in TableRecords /\ f[j] = step[<<j, f[j-1]>>]
        BY <1>5, <4>1 DEF UpTo
      <4> QED
        BY <1>3, <3>1, <4>1, <4>2
    <3> QED
      BY <1>5, <3>1 DEF UpTo
  <2>2. f = [j \in 0 .. N |-> f[j]]
    BY <1>5 DEF UpTo
  <2> QED
    BY <2>1, <2>2 DEF TablesOf
<1>7. TablesOf(loop, old, draw)
  BY <1>6
<1>8. Fast!Shuffled(old, draw) = loop[N]
  BY DEF Fast!Shuffled, TablesOf, FirstTables, NextTables, Places
<1> HIDE DEF loop
<1>9. \A j \in 0 .. N : loop[j] = IF j = 0 THEN FirstTables(old) ELSE NextTables(j, loop[j-1], draw)
  BY <1>7 DEF TablesOf
<1> DEFINE T == {j \in Nat : loop[j] \in TableRecords /\ PlacesDone(j, loop[j])}
<1>10. 0 \in T
  <2>1. 0 \in 0 .. N
    BY <1>1
  <2>2. loop[0] \in TableRecords
    BY <1>2, <1>9, <2>1
  <2>3. PlacesDone(0, loop[0])
    BY DEF PlacesDone
  <2> QED
    BY <2>2, <2>3
<1>11. ASSUME NEW j \in 1 .. N, j-1 \in T PROVE j \in T
  <2>1. j \in Nat /\ j \in 0 .. N /\ j # 0
    BY <1>1
  <2>2. loop[j-1] \in TableRecords /\ PlacesDone(j-1, loop[j-1])
    BY <1>11
  <2>3. loop[j] = NextTables(j, loop[j-1], draw)
    BY <1>9, <2>1
  <2>4. loop[j] \in TableRecords
    BY <1>3, <2>2, <2>3
  <2>5. PlacesDone(j, loop[j])
    BY <2>2, <2>3, NextPlaceDone
  <2> QED
    BY <2>1, <2>4, <2>5
<1>12. N \in T
  <2> HIDE DEF T
  <2>1. \A j \in 0 .. N : j \in T
    BY <1>1, <1>10, <1>11, AllUpTo
  <2> QED
    BY <1>1, <2>1
<1> QED
  BY <1>8, <1>12

-----------------------------------------------------------------------------
(* The settings of FastNoise.                                              *)

FastComputed == {"octaves", "gain", "fractalBounding", "cellularDistanceIndex0", "cellularDistanceIndex1"}
FastNumbers ==
    /\ FastComputed \subseteq DOMAIN m
    /\ m.octaves \in Int /\ m.gain \in Rationals
    /\ m.fractalBounding = Fast!CalculateFractalBounding(m.gain, m.octaves)
    /\ m.cellularDistanceIndex0 \in Int /\ m.cellularDistanceIndex1 \in Int
    /\ 0 <= m.cellularDistanceIndex0 /\ m.cellularDistanceIndex0 <= m.cellularDistanceIndex1
    /\ m.cellularDistanceIndex1 <= Fast!IndexMax
Tables == [p |-> perm, p12 |-> perm12]
FastAgreeing == FastNumbers /\ Tables \in TableRecords /\ PlacesDone(N, Tables)

LEMMA FastAgrees ==
  ASSUME FastAgreeing
  PROVE  Fast!SettingsAgree
<1>1. m.octaves \in Int /\ m.gain \in Rationals
      /\ m.fractalBounding = Fast!CalculateFractalBounding(m.gain, m.octaves)
  BY DEF FastAgreeing, FastNumbers
<1>2. Fast!Times(m.fractalBounding, Fast!SumQ(FastAmps(m.gain, m.octaves))) = Fast!One
  BY <1>1, FastBoundingScales
<1>3. LET amps == CHOOSE amps : amps = [i \in Nat |-> IF i = 0 THEN Fast!One ELSE Fast!Times(amps[i-1], m.gain)]
          rounds == IF m.octaves > 1 THEN m.octaves ELSE 1
      IN  Fast!Times(m.fractalBounding, Fast!SumQ([i \in 1 .. rounds |-> amps[i-1]])) = Fast!One
  BY <1>2 DEF FastAmps, FastAmpsOf, RoundsOfLoop
<1>4. /\ 0 <= m.cellularDistanceIndex0 /\ m.cellularDistanceIndex0 <= m.cellularDistanceIndex1
      /\ m.cellularDistanceIndex1 <= Fast!IndexMax
  BY DEF FastAgreeing, FastNumbers
<1>5. perm \in [Places -> 0 .. N-1] /\ perm12 \in [Places -> 0 .. Gradients-1]
  BY DEF FastAgreeing, TableRecords, Tables
<1>6. \A j \in 0 .. 2*N-1 : perm[j] \in 0 .. N-1 /\ perm12[j] \in 0 .. Gradients-1
  BY <1>5 DEF Places
<1>7. \A j \in 0 .. N-1 : /\ perm12[j] = perm[j] % Gradients /\ perm12[j+N] = perm12[j]
                          /\ j > 0 => perm[j+N] = perm[j]
  BY DEF FastAgreeing, PlacesDone, PlaceDone, Tables
<1> QED
  BY <1>3, <1>4, <1>6, <1>7 DEF Fast!SettingsAgree

LEMMA FastInputs ==
  /\ Gains \subseteq Rationals /\ OctaveCounts \subseteq Int /\ Indices \subseteq Int
  /\ 1 \in DOMAIN Draws /\ \A seed \in DOMAIN Draws : Drawn(Draws[seed])
BY NoiseAssumption DEF Fast!Assumption, Rationals, Drawn

LEMMA FastInitAgrees ==
  ASSUME Fast!Init
  PROVE  FastAgreeing
<1> DEFINE d == Fast!Defaults
<1>1. FastComputed \subseteq DOMAIN d
  BY DEF Fast!Defaults, FastComputed
<1>2. /\ d.seed = 1 /\ d.octaves = 3 /\ d.gain = Fast!Half
      /\ d.fractalBounding = Fast!CalculateFractalBounding(Fast!Half, 3)
      /\ d.cellularDistanceIndex0 = 0 /\ d.cellularDistanceIndex1 = 1
  BY DEF Fast!Defaults
<1> HIDE DEF d
<1>3. m = d
  BY DEF Fast!Init, d
<1>4. Fast!Half \in Rationals
  BY DEF Fast!Half, Rationals
<1>5. FastNumbers
  BY <1>1, <1>2, <1>3, <1>4 DEF FastNumbers, Fast!IndexMax
<1>6. PICK junk \in 0 .. N-1 :
         LET t == Fast!Shuffled([i \in 0 .. 2*N-1 |-> junk], Draws[d.seed])
         IN  perm = t.p /\ perm12 = t.p12
  BY DEF Fast!Init, d
<1> DEFINE old == [i \in 0 .. 2*N-1 |-> junk]
           t == Fast!Shuffled(old, Draws[1])
<1>7. perm = t.p /\ perm12 = t.p12
  BY <1>2, <1>6
<1>8. \A i \in N .. 2*N-1 : old[i] \in 0 .. N-1
  BY SizesTyped
<1>9. Drawn(Draws[1])
  BY FastInputs
<1> HIDE DEF old
<1>10. t \in TableRecords /\ PlacesDone(N, t)
  BY <1>8, <1>9, ShuffledDone
<1> HIDE DEF t
<1>11. Tables = t
  BY <1>7, <1>10 DEF Tables, TableRecords
<1> QED
  BY <1>5, <1>10, <1>11 DEF FastAgreeing

LEMMA SetSeedAgrees ==
  ASSUME FastAgreeing, NEW seed \in DOMAIN Draws, Fast!SetSeed(seed)
  PROVE  FastAgreeing'
<1> DEFINE t == Fast!Shuffled(perm, Draws[seed])
<1>1. perm' = t.p /\ perm12' = t.p12 /\ m' = [m EXCEPT !.seed = seed]
  BY DEF Fast!SetSeed
<1>2. \A i \in N .. 2*N-1 : perm[i] \in 0 .. N-1
  <2>1. perm \in [Places -> 0 .. N-1]
    BY DEF FastAgreeing, Tables, TableRecords
  <2> QED
    BY <2>1, SizesTyped DEF Places
<1>3. Drawn(Draws[seed])
  BY FastInputs
<1>4. t \in TableRecords /\ PlacesDone(N, t)
  BY <1>2, <1>3, ShuffledDone
<1> HIDE DEF t
<1>5. Tables' = t
  BY <1>1, <1>4 DEF Tables, TableRecords
<1>6. FastNumbers'
  <2>1. FastNumbers /\ DOMAIN m' = DOMAIN m
    BY <1>1 DEF FastAgreeing
  <2>2. \A k \in FastComputed : m'[k] = m[k]
    BY <1>1, <2>1 DEF FastComputed, FastNumbers
  <2> QED
    BY <2>1, <2>2 DEF FastNumbers, FastComputed
<1>7. Tables' \in TableRecords /\ PlacesDone(N, Tables')
  BY <1>4, <1>5
<1> QED
  BY <1>6, <1>7 DEF FastAgreeing, TableRecords, Places, PlacesDone, PlaceDone

LEMMA TablesKept ==
  ASSUME FastAgreeing, FastNumbers', perm' = perm, perm12' = perm12
  PROVE  FastAgreeing'
<1>1. Tables' = Tables
  BY DEF Tables
<1>2. Tables' \in TableRecords /\ PlacesDone(N, Tables')
  BY <1>1 DEF FastAgreeing
<1> QED
  BY <1>2 DEF FastAgreeing, TableRecords, Places, PlacesDone, PlaceDone

\* A setter of one member that no other is computed from.
LEMMA SetOtherAgrees ==
  ASSUME FastAgreeing, NEW name \in DOMAIN Fast!Defaults, name \notin FastComputed, NEW value,
         Fast!Setting([m EXCEPT ![name] = value])
  PROVE  FastAgreeing'
<1>1. m' = [m EXCEPT ![name] = value] /\ perm' = perm /\ perm12' = perm12
  BY DEF Fast!Setting
<1>2. FastNumbers /\ DOMAIN m' = DOMAIN m
  BY <1>1 DEF FastAgreeing
<1>3. \A k \in FastComputed : m'[k] = m[k]
  BY <1>1, <1>2 DEF FastComputed, FastNumbers
<1>4. FastNumbers'
  BY <1>2, <1>3 DEF FastNumbers, FastComputed
<1> QED
  BY <1>1, <1>4, TablesKept

LEMMA FastOctavesAgree ==
  ASSUME FastAgreeing, NEW octaves \in Int, Fast!SetFractalOctaves(octaves)
  PROVE  FastAgreeing'
<1> DEFINE b == Fast!CalculateFractalBounding(m.gain, octaves)
<1>1. /\ m' = [m EXCEPT !.octaves = octaves, !.fractalBounding = b]
      /\ perm' = perm /\ perm12' = perm12
  BY DEF Fast!SetFractalOctaves, Fast!Setting
<1> HIDE DEF b
<1>2. FastNumbers
  BY DEF FastAgreeing
<1>3. /\ DOMAIN m' = DOMAIN m /\ m'.octaves = octaves /\ m'.fractalBounding = b
      /\ m'.gain = m.gain /\ m'.cellularDistanceIndex0 = m.cellularDistanceIndex0
      /\ m'.cellularDistanceIndex1 = m.cellularDistanceIndex1
  BY <1>1, <1>2 DEF FastNumbers, FastComputed
<1>4. FastNumbers'
  BY <1>2, <1>3 DEF FastNumbers, b
<1> QED
  BY <1>1, <1>4, TablesKept

LEMMA FastGainAgrees ==
  ASSUME FastAgreeing, NEW gain \in Rationals, Fast!SetFractalGain(gain)
  PROVE  FastAgreeing'
<1> DEFINE b == Fast!CalculateFractalBounding(gain, m.octaves)
<1>1. /\ m' = [m EXCEPT !.gain = gain, !.fractalBounding = b]
      /\ perm' = perm /\ perm12' = perm12
  BY DEF Fast!SetFractalGain, Fast!Setting
<1> HIDE DEF b
<1>2. FastNumbers
  BY DEF FastAgreeing
<1>3. /\ DOMAIN m' = DOMAIN m /\ m'.gain = gain /\ m'.fractalBounding = b
      /\ m'.octaves = m.octaves /\ m'.cellularDistanceIndex0 = m.cellularDistanceIndex0
      /\ m'.cellularDistanceIndex1 = m.cellularDistanceIndex1
  BY <1>1, <1>2 DEF FastNumbers, FastComputed
<1>4. FastNumbers'
  BY <1>2, <1>3 DEF FastNumbers, b
<1> QED
  BY <1>1, <1>4, TablesKept

LEMMA FastIndicesAgree ==
  ASSUME FastAgreeing, NEW i \in Int, NEW j \in Int, Fast!SetCellularDistance2Indices(i, j)
  PROVE  FastAgreeing'
<1> DEFINE a == Fast!Clamped(IF i < j THEN i ELSE j)
           b == Fast!Clamped(IF i < j THEN j ELSE i)
<1>1. a \in Int /\ b \in Int /\ 0 <= a /\ a <= b /\ b <= Fast!IndexMax
  BY DEF Fast!Clamped, Fast!IndexMax
<1>2. /\ m' = [m EXCEPT !.cellularDistanceIndex0 = a, !.cellularDistanceIndex1 = b]
      /\ perm' = perm /\ perm12' = perm12
  BY DEF Fast!SetCellularDistance2Indices, Fast!Setting
<1> HIDE DEF a, b
<1>3. FastNumbers
  BY DEF FastAgreeing
<1>4. /\ DOMAIN m' = DOMAIN m /\ m'.gain = m.gain /\ m'.fractalBounding = m.fractalBounding
      /\ m'.octaves = m.octaves /\ m'.cellularDistanceIndex0 = a
      /\ m'.cellularDistanceIndex1 = b
  BY <1>2, <1>3 DEF FastNumbers, FastComputed
<1>5. FastNumbers'
  BY <1>1, <1>3, <1>4 DEF FastNumbers
<1> QED
  BY <1>2, <1>5, TablesKept

LEMMA FastStepAgrees ==
  ASSUME FastAgreeing, Fast!Next
  PROVE  FastAgreeing'
<1>1. ASSUME NEW seed \in DOMAIN Draws, Fast!SetSeed(seed) PROVE FastAgreeing'
  BY <1>1, SetSeedAgrees
<1>2. ASSUME NEW octaves \in OctaveCounts, Fast!SetFractalOctaves(octaves) PROVE FastAgreeing'
  BY <1>2, FastInputs, FastOctavesAgree
<1>3. ASSUME NEW gain \in Gains, Fast!SetFractalGain(gain) PROVE FastAgreeing'
  BY <1>3, FastInputs, FastGainAgrees
<1>4. ASSUME NEW i \in Indices, NEW j \in Indices, Fast!SetCellularDistance2Indices(i, j)
      PROVE  FastAgreeing'
  BY <1>4, FastInputs, FastIndicesAgree
<1> DEFINE others == {"frequency", "interp", "noiseType", "lacunarity", "fractalType",
                      "cellularDistanceFunction", "cellularReturnType", "cellularNoiseLookup",
                      "cellularJitter", "gradientPerturbAmp"}
<1>5. ASSUME NEW name \in others, NEW value, Fast!Setting([m EXCEPT ![name] = value])
      PROVE  FastAgreeing'
  <2>1. name \in DOMAIN Fast!Defaults /\ name \notin FastComputed
    BY DEF Fast!Defaults, FastComputed
  <2> HIDE DEF others
  <2> QED
    BY <1>5, <2>1, SetOtherAgrees
<1>6. ASSUME NEW f, \/ Fast!SetFrequency(f) \/ Fast!SetInterp(f) \/ Fast!SetNoiseType(f)
                    \/ Fast!SetFractalLacunarity(f) \/ Fast!SetFractalType(f)
                    \/ Fast!SetCellularDistanceFunction(f) \/ Fast!SetCellularReturnType(f)
                    \/ Fast!SetCellularNoiseLookup(f) \/ Fast!SetCellularJitter(f)
                    \/ Fast!SetGradientPerturbAmp(f)
      PROVE  FastAgreeing'
  <2>1. \E name \in others : Fast!Setting([m EXCEPT ![name] = f])
    BY <1>6 DEF Fast!SetFrequency, Fast!SetInterp, Fast!SetNoiseType, Fast!SetFractalLacunarity,
                Fast!SetFractalType, Fast!SetCellularDistanceFunction, Fast!SetCellularReturnType,
                Fast!SetCellularNoiseLookup, Fast!SetCellularJitter, Fast!SetGradientPerturbAmp
  <2> HIDE DEF others
  <2> QED
    BY <1>5, <2>1
<1> QED
  BY <1>1, <1>2, <1>3, <1>4, <1>6 DEF Fast!Next

-----------------------------------------------------------------------------
SettingsInv ==
    \/ library = "FastNoise" /\ FastAgreeing
    \/ library = "FastNoiseSIMD" /\ Agreeing

LEMMA SettingsInvInit == Init => SettingsInv
<1>1. CASE library = "FastNoise" /\ Fast!Init
  BY <1>1, FastInitAgrees DEF SettingsInv
<1>2. CASE library = "FastNoiseSIMD" /\ Simd!Init
  BY <1>2 DEF SettingsInv, Agreeing, Simd!Init
<1> QED
  BY <1>1, <1>2 DEF Init

LEMMA SettingsInvStep == SettingsInv /\ [Next]_vars => SettingsInv'
<1> SUFFICES ASSUME SettingsInv, [Next]_vars PROVE SettingsInv'
  OBVIOUS
<1>1. CASE library = "FastNoise" /\ Fast!Next /\ UNCHANGED <<library, level, vectorSet, noiseSet>>
  <2>1. library # "FastNoiseSIMD"
    BY <1>1
  <2> QED
    BY <1>1, <2>1, FastStepAgrees DEF SettingsInv
<1>2. CASE library = "FastNoiseSIMD" /\ Simd!Next /\ UNCHANGED <<library, perm, perm12>>
  <2>1. library # "FastNoise"
    BY <1>2
  <2> QED
    BY <1>2, <2>1, SimdStepAgrees DEF SettingsInv
<1>3. CASE UNCHANGED vars
  <2>1. library' = library /\ m' = m /\ perm' = perm /\ perm12' = perm12
    BY <1>3 DEF vars
  <2>2. FastAgreeing => FastAgreeing'
    <3> SUFFICES ASSUME FastAgreeing PROVE FastAgreeing'
      OBVIOUS
    <3>1. FastNumbers'
      BY <2>1 DEF FastAgreeing, FastNumbers
    <3> QED
      BY <2>1, <3>1, TablesKept
  <2>3. Agreeing => Agreeing'
    BY <2>1, AgreeingSame
  <2> QED
    BY <2>1, <2>2, <2>3 DEF SettingsInv
<1> QED
  BY <1>1, <1>2, <1>3 DEF Next

\* In every state the members that are computed from others agree with them: the
\* octaves' amplitudes, scaled by m_fractalBounding, add up to one, the indices
\* are in order and in bounds, no two of the hashes that FastNoiseSIMD makes a
\* number of have the same seed, and the tables that SetSeed shuffles are the same
\* in both halves, but for one place (FastNoise.cpp, FastNoiseSIMD_internal.cpp).
THEOREM SettingsAgreeCorrect == Spec => []SettingsAgree
<1>1. SettingsInv => SettingsAgree
  <2>1. FastAgreeing => Fast!SettingsAgree
    BY FastAgrees
  <2>2. Agreeing => Simd!SettingsAgree
    <3>1. CASE m = Simd!NoObject
      BY <3>1 DEF Simd!SettingsAgree
    <3>2. CASE m # Simd!NoObject
      BY <3>2, SimdAgrees DEF Agreeing
    <3> QED
      BY <3>1, <3>2
  <2>3. library = "FastNoiseSIMD" => library # "FastNoise"
    OBVIOUS
  <2> QED
    BY <2>1, <2>2, <2>3 DEF SettingsInv, SettingsAgree
<1> QED
  BY <1>1, SettingsInvInit, SettingsInvStep, PTL DEF Spec

-----------------------------------------------------------------------------
(* Fractions in lowest terms.                                              *)

Coprime(a, b) == \E x, y \in Int : a * x + b * y = 1
Common(p, q, g) == \E s, t, x, y \in Int : p = g * s /\ q = g * t /\ p * x + q * y = g

LEMMA CommonStep ==
  ASSUME NEW p \in Int, NEW q \in Int, NEW k \in Int, NEW r \in Int, NEW g \in Int,
         p = q * k + r, Common(q, r, g)
  PROVE  Common(p, q, g)
<1>1. PICK s \in Int, t \in Int, x \in Int, y \in Int : q = g * s /\ r = g * t /\ q * x + r * y = g
  BY DEF Common
<1> DEFINE u == s * k + t  v == x - k * y
<1>2. u \in Int /\ v \in Int
  OBVIOUS
<1>3. p = g * u
  BY <1>1
<1>4. p * y + q * v = g
  <2>1. p * y = q * k * y + r * y
    OBVIOUS
  <2>2. q * v = q * x - q * k * y
    OBVIOUS
  <2> QED
    BY <1>1, <2>1, <2>2
<1>5. q = g * s
  BY <1>1
<1> HIDE DEF u, v
<1>6. \E a, b, c, d \in Int : p = g * a /\ q = g * b /\ p * c + q * d = g
  BY <1>2, <1>3, <1>4, <1>5
<1> QED
  BY <1>6 DEF Common

LEMMA GcdCommon ==
  \A q, p \in Nat : Common(p, q, Simd!Gcd[<<p, q>>])
<1> DEFINE T == {n \in Nat : \A q, p \in Nat : q <= n => Common(p, q, Simd!Gcd[<<p, q>>])}
<1>0. ASSUME NEW p \in Nat PROVE Common(p, 0, Simd!Gcd[<<p, 0>>])
  <2>1. Simd!Gcd[<<p, 0>>] = p
    BY GcdIs
  <2>2. p = p * 1 /\ 0 = p * 0 /\ p * 1 + 0 * 0 = p
    OBVIOUS
  <2>3. Common(p, 0, p)
    BY <2>2 DEF Common
  <2> QED
    BY <2>1, <2>3
<1>1. 0 \in T
  <2> SUFFICES ASSUME NEW q \in Nat, NEW p \in Nat, q <= 0 PROVE Common(p, q, Simd!Gcd[<<p, q>>])
    OBVIOUS
  <2>1. q = 0
    OBVIOUS
  <2> QED
    BY <1>0, <2>1
<1>2. ASSUME NEW n \in Nat, n \in T PROVE n+1 \in T
  <2> SUFFICES ASSUME NEW q \in Nat, NEW p \in Nat, q <= n+1 PROVE Common(p, q, Simd!Gcd[<<p, q>>])
    OBVIOUS
  <2>1. CASE q = 0
    BY <1>0, <2>1
  <2>2. CASE q # 0
    <3> DEFINE r == p % q
               k == p \div q
               g == Simd!Gcd[<<q, r>>]
    <3>1. r \in Nat /\ r < q /\ k \in Int /\ p = q * k + r
      BY <2>2, DivMod
    <3>2. Simd!Gcd[<<p, q>>] = g
      BY <2>2, GcdIs
    <3> HIDE DEF r, k
    <3>3. Common(q, r, g)
      <4>1. r <= n
        BY <3>1
      <4> QED
        BY <1>2, <3>1, <4>1
    <3>4. g \in Int
      BY <3>1, GcdBounds
    <3> HIDE DEF g
    <3>5. p \in Int /\ q \in Int /\ r \in Int
      BY <3>1
    <3>6. Common(p, q, g)
      BY <3>1, <3>3, <3>4, <3>5, CommonStep
    <3> QED
      BY <3>2, <3>6
  <2> QED
    BY <2>1, <2>2
<1>3. \A n \in Nat : n \in T
  <2> HIDE DEF T
  <2> QED
    BY <1>1, <1>2, AllNumbers
<1>4. ASSUME NEW q \in Nat, NEW p \in Nat PROVE Common(p, q, Simd!Gcd[<<p, q>>])
  <2>1. q \in T /\ q <= q
    BY <1>3
  <2> QED
    BY <2>1
<1> QED
  BY <1>4

LEMMA Distributed ==
  ASSUME NEW g \in Int, NEW s \in Int, NEW t \in Int, NEW x \in Int, NEW y \in Int
  PROVE  (s * x + t * y) * g = (g * s) * x + (g * t) * y
OBVIOUS

LEMMA Cancel ==
  ASSUME NEW a \in Int, NEW b \in Int, NEW c \in Int, c # 0, a * c = b * c
  PROVE  a = b
OBVIOUS

\* What is left of two numbers divided by their greatest common divisor.
LEMMA DividedByGcd ==
  ASSUME NEW n \in Int, NEW d \in Nat, d > 0
  PROVE  LET g == Simd!Gcd[<<Simd!Magnitude(n), d>>]
         IN  /\ g \in Nat /\ g > 0
             /\ n \div g \in Int /\ n = g * (n \div g)
             /\ d \div g \in Nat /\ d \div g > 0 /\ d = g * (d \div g)
             /\ Coprime(n \div g, d \div g)
<1> DEFINE a == Simd!Magnitude(n)
           g == Simd!Gcd[<<a, d>>]
<1>1. a \in Nat /\ (a = n \/ a = -n)
  BY DEF Simd!Magnitude
<1> HIDE DEF a
<1>2. g \in Nat /\ g > 0 /\ g <= d
  BY <1>1, GcdBounds
<1>3. Common(a, d, g)
  BY <1>1, GcdCommon
<1> HIDE DEF g
<1>4. PICK s \in Int, t \in Int, x \in Int, y \in Int : a = g * s /\ d = g * t /\ a * x + d * y = g
  BY <1>3 DEF Common
<1>5. PICK e \in {1, -1} : n = e * a
  BY <1>1
<1>6. n = g * (e * s) + 0 /\ d = g * t + 0 /\ e * s \in Int /\ e * e = 1
  BY <1>2, <1>4, <1>5
<1>7. n \div g = e * s /\ d \div g = t
  BY <1>2, <1>6, DivUnique
<1>8. t > 0
  <2> SUFFICES ASSUME t <= 0 PROVE FALSE
    OBVIOUS
  <2>1. g * t <= 0
    BY <1>2
  <2> QED
    BY <1>4, <2>1
<1>9. (e * s) * (e * x) + t * y = 1
  <2>1. (e * s) * (e * x) = s * x
    BY <1>5
  <2> DEFINE z == s * x + t * y
  <2>2. z * g = (g * s) * x + (g * t) * y
    BY <1>2, Distributed
  <2>3. z \in Int
    OBVIOUS
  <2> HIDE DEF z
  <2>4. z * g = g
    BY <1>4, <2>2
  <2>5. z = 1
    BY <1>2, <2>3, <2>4
  <2> QED
    BY <2>1, <2>5 DEF z
<1>10. Coprime(e * s, t)
  <2> DEFINE c == e * s  u == e * x
  <2>1. u \in Int
    BY <1>5
  <2>2. c * u + t * y = 1
    BY <1>9
  <2> HIDE DEF c, u
  <2>3. Coprime(c, t)
    BY <2>1, <2>2 DEF Coprime
  <2> QED
    BY <2>3 DEF c
<1> QED
  BY <1>2, <1>6, <1>7, <1>8, <1>10 DEF g, a

Lowest == {p \in Int \X (Nat \ {0}) : Coprime(p[1], p[2])}

\* A fraction in lowest terms, of this value.
Is(p, n, d) == p \in Lowest /\ p[1] * d = n * p[2]

LEMMA LowestTyped ==
  ASSUME NEW p \in Lowest
  PROVE  p = <<p[1], p[2]>> /\ p[1] \in Int /\ p[2] \in Nat /\ p[2] > 0
BY DEF Lowest

\* Denominators of the same number divide each other.
LEMMA Divides ==
  ASSUME NEW a \in Int, NEW b \in Nat, NEW c \in Int, NEW d \in Nat, b > 0, d > 0,
         Coprime(a, b), a * d = c * b
  PROVE  b <= d
<1>1. PICK x \in Int, y \in Int : a * x + b * y = 1
  BY DEF Coprime
<1> DEFINE u == c * x + d * y
<1>2. u \in Int
  OBVIOUS
<1>3. d = b * u
  <2>1. (a * x + b * y) * d = (a * d) * x + (d * b) * y
    <3>1. \A s, t, g, h, k \in Int : (s * h + t * k) * g = (s * g) * h + (g * t) * k
      OBVIOUS
    <3> QED
      BY <3>1
  <2>2. (a * x + b * y) * d = d
    BY <1>1
  <2>3. b * (c * x + d * y) = (c * b) * x + (d * b) * y
    <3>1. \A s, t, g, h, k \in Int : g * (s * h + t * k) = (s * g) * h + (t * g) * k
      OBVIOUS
    <3> QED
      BY <3>1
  <2>4. (c * b) * x = (a * d) * x
    OBVIOUS
  <2> HIDE DEF u
  <2>5. d = (c * b) * x + (d * b) * y
    BY <2>1, <2>2, <2>4
  <2> QED
    BY <2>3, <2>5 DEF u
<1> HIDE DEF u
<1>4. u > 0
  <2> SUFFICES ASSUME u <= 0 PROVE FALSE
    BY <1>2
  <2>1. b * u <= 0
    BY <1>2
  <2> QED
    BY <1>3, <2>1
<1> QED
  BY <1>2, <1>3, <1>4

LEMMA LowestSame ==
  ASSUME NEW p \in Lowest, NEW q \in Lowest, p[1] * q[2] = q[1] * p[2]
  PROVE  p = q
<1> DEFINE a == p[1]  b == p[2]  c == q[1]  d == q[2]
<1>1. p = <<a, b>> /\ q = <<c, d>> /\ a \in Int /\ b \in Nat /\ b > 0 /\ c \in Int /\ d \in Nat /\ d > 0
  BY LowestTyped
<1>2. a * d = c * b /\ Coprime(a, b) /\ Coprime(c, d)
  BY DEF Lowest
<1> HIDE DEF a, b, c, d
<1>3. b <= d
  BY <1>1, <1>2, Divides
<1>4. d <= b
  BY <1>1, <1>2, Divides
<1>5. b = d
  BY <1>1, <1>3, <1>4
<1>6. a = c
  BY <1>1, <1>2, <1>5, Cancel
<1> QED
  BY <1>1, <1>5, <1>6

LEMMA IsSame ==
  ASSUME NEW p, NEW q, NEW n \in Int, NEW d \in Nat, NEW m1 \in Int, NEW e \in Nat, d > 0, e > 0,
         Is(p, n, d), Is(q, m1, e), n * e = m1 * d
  PROVE  p = q
<1> DEFINE a == p[1]  b == p[2]  c == q[1]  f == q[2]
<1>1. p \in Lowest /\ q \in Lowest /\ a * d = n * b /\ c * e = m1 * f
  BY DEF Is
<1>2. a \in Int /\ b \in Nat /\ b > 0 /\ c \in Int /\ f \in Nat /\ f > 0
  BY <1>1, LowestTyped
<1> HIDE DEF a, b, c, f
<1>3. (a * f) * (d * e) = (c * b) * (d * e)
  <2>1. (a * f) * (d * e) = (a * d) * (f * e)
    BY <1>2
  <2>2. (a * d) * (f * e) = (n * b) * (f * e)
    BY <1>1
  <2>3. (n * b) * (f * e) = (n * e) * (b * f)
    BY <1>2
  <2>4. (n * e) * (b * f) = (m1 * d) * (b * f)
    OBVIOUS
  <2>5. (m1 * d) * (b * f) = (m1 * f) * (b * d)
    BY <1>2
  <2>6. (m1 * f) * (b * d) = (c * e) * (b * d)
    BY <1>1
  <2>7. (c * e) * (b * d) = (c * b) * (d * e)
    BY <1>2
  <2> QED
    BY <2>1, <2>2, <2>3, <2>4, <2>5, <2>6, <2>7
<1>4. d * e \in Nat /\ d * e > 0
  BY ProductPositive
<1> DEFINE z == d * e  u == a * f  v == c * b
<1>5. z \in Int /\ z # 0 /\ u \in Int /\ v \in Int /\ u * z = v * z
  BY <1>2, <1>3, <1>4
<1> HIDE DEF z, u, v
<1>6. u = v
  BY <1>5, Cancel
<1> QED
  BY <1>1, <1>6, LowestSame DEF u, v, a, b, c, f

LEMMA FractionIs ==
  ASSUME NEW n \in Int, NEW d \in Nat, d > 0
  PROVE  Is(Simd!Q(n, d), n, d)
<1> DEFINE g == Simd!Gcd[<<Simd!Magnitude(n), d>>]
           s == n \div g
           t == d \div g
<1>1. /\ g \in Nat /\ g > 0 /\ s \in Int /\ n = g * s /\ t \in Nat /\ t > 0 /\ d = g * t
      /\ Coprime(s, t)
  BY DividedByGcd
<1>2. Simd!Q(n, d) = <<s, t>>
  BY DEF Simd!Q, Simd!Reduced
<1> HIDE DEF g, s, t
<1>3. <<s, t>> \in Lowest
  BY <1>1 DEF Lowest
<1>4. s * d = n * t
  <2>1. s * (g * t) = (g * s) * t
    BY <1>1
  <2> QED
    BY <1>1, <2>1
<1> QED
  BY <1>2, <1>3, <1>4 DEF Is

LEMMA CoprimeSwapped ==
  ASSUME NEW a \in Int, NEW b \in Int, Coprime(a, b)
  PROVE  Coprime(b, a)
<1>1. PICK x \in Int, y \in Int : a * x + b * y = 1
  BY DEF Coprime
<1>2. b * y + a * x = 1
  BY <1>1
<1> QED
  BY <1>2 DEF Coprime

LEMMA CoprimeFactors ==
  ASSUME NEW g \in Int, NEW h \in Int, NEW s \in Int, NEW u \in Int, Coprime(g * s, h * u)
  PROVE  Coprime(s, u)
<1>1. PICK x \in Int, y \in Int : (g * s) * x + (h * u) * y = 1
  BY DEF Coprime
<1> DEFINE z == g * x  w == h * y
<1>2. z \in Int /\ w \in Int
  OBVIOUS
<1>3. s * z + u * w = 1
  <2>1. s * z = (g * s) * x /\ u * w = (h * u) * y
    OBVIOUS
  <2> QED
    BY <1>1, <2>1
<1> HIDE DEF z, w
<1> QED
  BY <1>2, <1>3 DEF Coprime

LEMMA CoprimeProduct ==
  ASSUME NEW a \in Int, NEW b \in Int, NEW c \in Int, Coprime(a, c), Coprime(b, c)
  PROVE  Coprime(a * b, c)
<1>1. PICK x \in Int, y \in Int : a * x + c * y = 1
  BY DEF Coprime
<1>2. PICK z \in Int, w \in Int : b * z + c * w = 1
  BY DEF Coprime
<1> DEFINE n == x * z
           k == (a * x) * w + y * (b * z + c * w)
           p == a * b
<1>3. n \in Int /\ k \in Int
  OBVIOUS
<1>4. p * n + c * k = 1
  <2>1. p * n = (a * x) * (b * z)
    OBVIOUS
  <2>2. c * k = (a * x) * (c * w) + (c * y) * (b * z + c * w)
    <3>1. \A e, f, g, h, i \in Int : i * (e * f + g * h) = e * (i * f) + (i * g) * h
      OBVIOUS
    <3>2. a * x \in Int /\ b * z + c * w \in Int
      OBVIOUS
    <3> QED
      BY <3>1, <3>2
  <2>3. (a * x) * (b * z) + (a * x) * (c * w) = (a * x) * (b * z + c * w)
    <3>1. \A e, f, g \in Int : e * f + e * g = e * (f + g)
      OBVIOUS
    <3>2. a * x \in Int /\ b * z \in Int /\ c * w \in Int
      OBVIOUS
    <3> QED
      BY <3>1, <3>2
  <2> HIDE DEF n, k, p
  <2>4. (a * x) * (b * z + c * w) = a * x /\ (c * y) * (b * z + c * w) = c * y
    BY <1>2
  <2>5. a * x \in Int /\ c * y \in Int /\ (a * x) * (b * z) \in Int /\ (a * x) * (c * w) \in Int
    OBVIOUS
  <2> QED
    BY <1>1, <2>1, <2>2, <2>3, <2>4, <2>5
<1> HIDE DEF n, k, p
<1>5. Coprime(p, c)
  BY <1>3, <1>4 DEF Coprime
<1> QED
  BY <1>5 DEF p

LEMMA PlusOf ==
  ASSUME NEW p \in Lowest, NEW q \in Lowest
  PROVE  Is(Simd!Plus(p, q), p[1] * q[2] + q[1] * p[2], p[2] * q[2])
<1> DEFINE a == p[1]  b == p[2]  c == q[1]  d == q[2]
           g == Simd!Gcd[<<b, d>>]
           e == d \div g
           f == b \div g
           r == Simd!Plus(p, q)
<1>1. a \in Int /\ b \in Nat /\ b > 0 /\ c \in Int /\ d \in Nat /\ d > 0
  BY LowestTyped
<1>2. r = Simd!Q(a * e + c * f, b * e)
  BY DEF Simd!Plus, Simd!PlusOver
<1> HIDE DEF a, b, c, d
<1>3. Simd!Magnitude(b) = b
  BY <1>1 DEF Simd!Magnitude
<1>4. /\ g \in Nat /\ g > 0 /\ f \in Int /\ b = g * f /\ e \in Nat /\ e > 0 /\ d = g * e
  BY <1>1, <1>3, DividedByGcd
<1> HIDE DEF g, e, f
<1> DEFINE n == a * e + c * f
           k == b * e
<1>5. n \in Int /\ k \in Nat /\ k > 0
  BY <1>1, <1>4, ProductPositive
<1>6. n * g = a * d + c * b /\ k * g = b * d
  <2>1. (a * e + c * f) * g = a * (g * e) + c * (g * f)
    BY <1>1, <1>4
  <2>2. (b * e) * g = b * (g * e)
    BY <1>1, <1>4
  <2> QED
    BY <1>4, <2>1, <2>2
<1>7. r = Simd!Q(n, k)
  BY <1>2
<1> HIDE DEF n, k, r
<1>8. Is(r, n, k)
  BY <1>5, <1>7, FractionIs
<1>9. r[1] * k = n * r[2] /\ r[1] \in Int /\ r[2] \in Int
  BY <1>8, LowestTyped DEF Is
<1>10. r[1] * (k * g) = (n * g) * r[2]
  <2>1. \A x, y \in Int : x * k = n * y => x * (k * g) = (n * g) * y
    <3> SUFFICES ASSUME NEW x \in Int, NEW y \in Int, x * k = n * y PROVE x * (k * g) = (n * g) * y
      OBVIOUS
    <3>1. x * (k * g) = (x * k) * g /\ (n * g) * y = (n * y) * g
      BY <1>4, <1>5
    <3> QED
      BY <3>1
  <2> QED
    BY <1>9, <2>1
<1> QED
  BY <1>6, <1>8, <1>10 DEF Is, r, a, b, c, d

LEMMA TimesOf ==
  ASSUME NEW p \in Lowest, NEW q \in Lowest
  PROVE  Is(Simd!Times(p, q), p[1] * q[1], p[2] * q[2])
<1> DEFINE a == p[1]  b == p[2]  c == q[1]  d == q[2]
           g == Simd!Gcd[<<Simd!Magnitude(a), d>>]
           h == Simd!Gcd[<<Simd!Magnitude(c), b>>]
           s == a \div g  t == c \div h  u == b \div h  v == d \div g
           r == Simd!Times(p, q)
<1>1. a \in Int /\ b \in Nat /\ b > 0 /\ c \in Int /\ d \in Nat /\ d > 0
      /\ Coprime(a, b) /\ Coprime(c, d)
  BY LowestTyped DEF Lowest
<1>2. r = <<s * t, u * v>>
  BY DEF Simd!Times, Simd!TimesOver
<1> HIDE DEF a, b, c, d, r
<1>3. /\ g \in Nat /\ g > 0 /\ s \in Int /\ a = g * s /\ v \in Nat /\ v > 0 /\ d = g * v
      /\ Coprime(s, v)
  BY <1>1, DividedByGcd
<1>4. /\ h \in Nat /\ h > 0 /\ t \in Int /\ c = h * t /\ u \in Nat /\ u > 0 /\ b = h * u
      /\ Coprime(t, u)
  BY <1>1, DividedByGcd
<1> HIDE DEF g, h, s, t, u, v
<1>5. Coprime(s, u)
  <2>1. Coprime(g * s, h * u)
    BY <1>1, <1>3, <1>4
  <2> QED
    BY <1>3, <1>4, <2>1, CoprimeFactors
<1>6. Coprime(t, v)
  <2>1. Coprime(h * t, g * v)
    BY <1>1, <1>3, <1>4
  <2> QED
    BY <1>3, <1>4, <2>1, CoprimeFactors
<1> DEFINE n == s * t  k == u * v
<1>7. n \in Int /\ k \in Nat /\ k > 0
  BY <1>3, <1>4, ProductPositive
<1>8. Coprime(n, u)
  BY <1>3, <1>4, <1>5, CoprimeProduct
<1>9. Coprime(n, v)
  BY <1>3, <1>4, <1>6, CoprimeProduct
<1> HIDE DEF n
<1>10. Coprime(u * v, n)
  BY <1>3, <1>4, <1>7, <1>8, <1>9, CoprimeSwapped, CoprimeProduct
<1> HIDE DEF k
<1>11. Coprime(n, k)
  BY <1>7, <1>10, CoprimeSwapped DEF k
<1>12. r = <<n, k>>
  BY <1>2 DEF n, k
<1>13. r \in Lowest
  BY <1>7, <1>11, <1>12 DEF Lowest
<1>14. n * (b * d) = (a * c) * k
  <2>1. (s * t) * ((h * u) * (g * v)) = ((g * s) * (h * t)) * (u * v)
    BY <1>3, <1>4
  <2> QED
    BY <1>3, <1>4, <2>1 DEF n, k
<1> QED
  BY <1>12, <1>13, <1>14 DEF Is, r, a, b, c, d

LEMMA IsInt ==
  ASSUME NEW p, NEW n, NEW d, Is(p, n, d)
  PROVE  p \in Lowest /\ p[1] \in Int /\ p[2] \in Int /\ p[2] > 0 /\ p[2] # 0 /\ p[1] * d = n * p[2]
BY LowestTyped DEF Is

\* The sum and the product of two values, whatever the fractions they are given by.
LEMMA IsPlus ==
  ASSUME NEW p, NEW q, NEW a \in Int, NEW b \in Nat, NEW c \in Int, NEW d \in Nat,
         Is(p, a, b), Is(q, c, d)
  PROVE  Is(Simd!Plus(p, q), a * d + c * b, b * d)
<1> DEFINE r == Simd!Plus(p, q)
           x == p[1]  y == p[2]  z == q[1]  w == q[2]  s == r[1]  t == r[2]
<1>1. Is(r, x * w + z * y, y * w)
  BY PlusOf DEF Is
<1>2. /\ x \in Int /\ y \in Int /\ y # 0 /\ x * b = a * y
      /\ z \in Int /\ w \in Int /\ w # 0 /\ z * d = c * w
  BY IsInt
<1>3. r \in Lowest /\ s \in Int /\ t \in Int /\ s * (y * w) = (x * w + z * y) * t
  BY <1>1, IsInt
<1> HIDE DEF r, x, y, z, w, s, t
<1> DEFINE left == s * (b * d)  right == (a * d + c * b) * t  k == y * w
<1>4. left \in Int /\ right \in Int /\ k \in Int /\ k # 0
  BY <1>2, <1>3
<1>5. left * k = (b * d) * (s * (y * w))
  BY <1>2, <1>3
<1>6. (b * d) * ((x * w + z * y) * t) = (((x * b) * w) * d + ((z * d) * y) * b) * t
  <2>1. \A f, g, h, i, j, l, n \in Int :
            (f * g) * ((h * i + j * l) * n) = (((h * f) * i) * g + ((j * g) * l) * f) * n
    OBVIOUS
  <2> QED
    BY <1>2, <1>3, <2>1
<1>7. (((a * y) * w) * d + ((c * w) * y) * b) * t = right * k
  <2>1. \A f, g, h, i, j, l, n \in Int :
            (((f * g) * h) * i + ((j * h) * g) * l) * n = ((f * i + j * l) * n) * (g * h)
    OBVIOUS
  <2> QED
    BY <1>2, <1>3, <2>1
<1>8. left * k = right * k
  BY <1>2, <1>3, <1>5, <1>6, <1>7
<1> HIDE DEF left, right, k
<1>9. left = right
  BY <1>4, <1>8, Cancel
<1> QED
  BY <1>3, <1>9 DEF left, right, s, t, r, Is

LEMMA IsTimes ==
  ASSUME NEW p, NEW q, NEW a \in Int, NEW b \in Nat, NEW c \in Int, NEW d \in Nat,
         Is(p, a, b), Is(q, c, d)
  PROVE  Is(Simd!Times(p, q), a * c, b * d)
<1> DEFINE r == Simd!Times(p, q)
           x == p[1]  y == p[2]  z == q[1]  w == q[2]  s == r[1]  t == r[2]
<1>1. Is(r, x * z, y * w)
  BY TimesOf DEF Is
<1>2. /\ x \in Int /\ y \in Int /\ y # 0 /\ x * b = a * y
      /\ z \in Int /\ w \in Int /\ w # 0 /\ z * d = c * w
  BY IsInt
<1>3. r \in Lowest /\ s \in Int /\ t \in Int /\ s * (y * w) = (x * z) * t
  BY <1>1, IsInt
<1> HIDE DEF r, x, y, z, w, s, t
<1> DEFINE left == s * (b * d)  right == (a * c) * t  k == y * w
<1>4. left \in Int /\ right \in Int /\ k \in Int /\ k # 0
  BY <1>2, <1>3
<1>5. left * k = (b * d) * (s * (y * w))
  BY <1>2, <1>3
<1>6. (b * d) * ((x * z) * t) = ((x * b) * (z * d)) * t
  BY <1>2, <1>3
<1>7. ((a * y) * (c * w)) * t = right * k
  BY <1>2, <1>3
<1>8. left * k = right * k
  BY <1>2, <1>3, <1>5, <1>6, <1>7
<1> HIDE DEF left, right, k
<1>9. left = right
  BY <1>4, <1>8, Cancel
<1> QED
  BY <1>3, <1>9 DEF left, right, s, t, r, Is

LEMMA IsItself ==
  ASSUME NEW p \in Lowest
  PROVE  Is(p, p[1], p[2])
BY DEF Is

LEMMA SumsLowest ==
  ASSUME NEW p \in Lowest, NEW q \in Lowest
  PROVE  Simd!Plus(p, q) \in Lowest /\ Simd!Times(p, q) \in Lowest
BY PlusOf, TimesOf DEF Is

LEMMA WholeLowest ==
  ASSUME NEW n \in Int
  PROVE  Simd!Whole(n) \in Lowest
<1>1. n * 0 + 1 * 1 = 1
  OBVIOUS
<1>2. Coprime(n, 1)
  BY <1>1 DEF Coprime
<1> QED
  BY <1>2 DEF Simd!Whole, Lowest

LEMMA NegLowest ==
  ASSUME NEW p \in Lowest
  PROVE  Simd!Neg(p) \in Lowest
<1> DEFINE a == p[1]  b == p[2]
<1>1. a \in Int /\ b \in Nat /\ b > 0 /\ Coprime(a, b)
  BY LowestTyped DEF Lowest
<1> HIDE DEF a, b
<1>2. PICK x \in Int, y \in Int : a * x + b * y = 1
  BY <1>1 DEF Coprime
<1>3. (-a) * (-x) + b * y = 1 /\ -x \in Int /\ -a \in Int
  BY <1>1, <1>2
<1>4. Coprime(-a, b)
  BY <1>2, <1>3 DEF Coprime
<1>5. <<-a, b>> \in Lowest
  BY <1>1, <1>3, <1>4 DEF Lowest
<1> QED
  BY <1>5 DEF Simd!Neg, a, b

LEMMA MinusLowest ==
  ASSUME NEW p \in Lowest, NEW q \in Lowest
  PROVE  Simd!Minus(p, q) \in Lowest
BY NegLowest, SumsLowest DEF Simd!Minus

LEMMA PlusSwapped ==
  ASSUME NEW p \in Lowest, NEW q \in Lowest
  PROVE  Simd!Plus(p, q) = Simd!Plus(q, p)
<1> DEFINE a == p[1]  b == p[2]  c == q[1]  d == q[2]
<1>1. a \in Int /\ b \in Nat /\ b > 0 /\ c \in Int /\ d \in Nat /\ d > 0
  BY LowestTyped
<1>2. Is(Simd!Plus(p, q), a * d + c * b, b * d) /\ Is(Simd!Plus(q, p), c * b + a * d, d * b)
  BY PlusOf
<1> HIDE DEF a, b, c, d
<1>3. a * d + c * b = c * b + a * d /\ b * d = d * b
  BY <1>1
<1> DEFINE n == a * d + c * b  k == b * d
<1>4. n \in Int /\ k \in Nat /\ k > 0
  BY <1>1, ProductPositive
<1>5. Is(Simd!Plus(p, q), n, k) /\ Is(Simd!Plus(q, p), n, k)
  BY <1>2, <1>3
<1> HIDE DEF n, k
<1> QED
  BY <1>4, <1>5, IsSame

LEMMA TimesSwapped ==
  ASSUME NEW p \in Lowest, NEW q \in Lowest
  PROVE  Simd!Times(p, q) = Simd!Times(q, p)
<1> DEFINE a == p[1]  b == p[2]  c == q[1]  d == q[2]
<1>1. a \in Int /\ b \in Nat /\ b > 0 /\ c \in Int /\ d \in Nat /\ d > 0
  BY LowestTyped
<1>2. Is(Simd!Times(p, q), a * c, b * d) /\ Is(Simd!Times(q, p), c * a, d * b)
  BY TimesOf
<1> HIDE DEF a, b, c, d
<1>3. a * c = c * a /\ b * d = d * b
  BY <1>1
<1> DEFINE n == a * c  k == b * d
<1>4. n \in Int /\ k \in Nat /\ k > 0
  BY <1>1, ProductPositive
<1>5. Is(Simd!Times(p, q), n, k) /\ Is(Simd!Times(q, p), n, k)
  BY <1>2, <1>3
<1> HIDE DEF n, k
<1> QED
  BY <1>4, <1>5, IsSame

LEMMA PlusGrouped ==
  ASSUME NEW p \in Lowest, NEW q \in Lowest, NEW r \in Lowest
  PROVE  Simd!Plus(Simd!Plus(p, q), r) = Simd!Plus(p, Simd!Plus(q, r))
<1> DEFINE a == p[1]  b == p[2]  c == q[1]  d == q[2]  e == r[1]  f == r[2]
           u == Simd!Plus(p, q)  v == Simd!Plus(q, r)
<1>1. /\ a \in Int /\ b \in Nat /\ b > 0 /\ c \in Int /\ d \in Nat /\ d > 0
      /\ e \in Int /\ f \in Nat /\ f > 0
  BY LowestTyped
<1>2. /\ Is(u, a * d + c * b, b * d) /\ Is(v, c * f + e * d, d * f)
      /\ Is(p, a, b) /\ Is(r, e, f)
  BY PlusOf, IsItself
<1> HIDE DEF a, b, c, d, e, f, u, v
<1>3. /\ a * d + c * b \in Int /\ b * d \in Nat /\ b * d > 0
      /\ c * f + e * d \in Int /\ d * f \in Nat /\ d * f > 0
  BY <1>1, ProductPositive
<1> DEFINE n == (a * d + c * b) * f + e * (b * d)  k == (b * d) * f
<1>4. Is(Simd!Plus(u, r), n, k)
  BY <1>1, <1>2, <1>3, IsPlus
<1>5. Is(Simd!Plus(p, v), a * (d * f) + (c * f + e * d) * b, b * (d * f))
  BY <1>1, <1>2, <1>3, IsPlus
<1>6. a * (d * f) + (c * f + e * d) * b = n /\ b * (d * f) = k
  <2>1. \A g, h, i, j, l, o \in Int :
            g * (j * o) + (i * o + l * j) * h = (g * j + i * h) * o + l * (h * j)
    OBVIOUS
  <2> QED
    BY <1>1, <2>1
<1>7. n \in Int /\ k \in Nat /\ k > 0
  BY <1>1, <1>3, ProductPositive
<1>8. Is(Simd!Plus(p, v), n, k)
  BY <1>5, <1>6
<1> HIDE DEF n, k
<1>9. Simd!Plus(u, r) = Simd!Plus(p, v)
  BY <1>4, <1>7, <1>8, IsSame
<1> QED
  BY <1>9 DEF u, v

LEMMA TimesGrouped ==
  ASSUME NEW p \in Lowest, NEW q \in Lowest, NEW r \in Lowest
  PROVE  Simd!Times(Simd!Times(p, q), r) = Simd!Times(p, Simd!Times(q, r))
<1> DEFINE a == p[1]  b == p[2]  c == q[1]  d == q[2]  e == r[1]  f == r[2]
           u == Simd!Times(p, q)  v == Simd!Times(q, r)
<1>1. /\ a \in Int /\ b \in Nat /\ b > 0 /\ c \in Int /\ d \in Nat /\ d > 0
      /\ e \in Int /\ f \in Nat /\ f > 0
  BY LowestTyped
<1>2. Is(u, a * c, b * d) /\ Is(v, c * e, d * f) /\ Is(p, a, b) /\ Is(r, e, f)
  BY TimesOf, IsItself
<1> HIDE DEF a, b, c, d, e, f, u, v
<1>3. a * c \in Int /\ b * d \in Nat /\ b * d > 0 /\ c * e \in Int /\ d * f \in Nat /\ d * f > 0
  BY <1>1, ProductPositive
<1> DEFINE n == (a * c) * e  k == (b * d) * f
<1>4. Is(Simd!Times(u, r), n, k)
  BY <1>1, <1>2, <1>3, IsTimes
<1>5. Is(Simd!Times(p, v), a * (c * e), b * (d * f))
  BY <1>1, <1>2, <1>3, IsTimes
<1>6. a * (c * e) = n /\ b * (d * f) = k
  BY <1>1
<1>7. n \in Int /\ k \in Nat /\ k > 0
  BY <1>1, <1>3, ProductPositive
<1>8. Is(Simd!Times(p, v), n, k)
  BY <1>5, <1>6
<1> HIDE DEF n, k
<1>9. Simd!Times(u, r) = Simd!Times(p, v)
  BY <1>4, <1>7, <1>8, IsSame
<1> QED
  BY <1>9 DEF u, v

LEMMA ZeroPlus ==
  ASSUME NEW p \in Lowest
  PROVE  Simd!Plus(p, Simd!Zero) = p /\ Simd!Plus(Simd!Zero, p) = p
<1> DEFINE a == p[1]  b == p[2]
<1>1. a \in Int /\ b \in Nat /\ b > 0 /\ Is(p, a, b)
  BY LowestTyped, IsItself
<1>2. Simd!Zero \in Lowest /\ Simd!Zero[1] = 0 /\ Simd!Zero[2] = 1
  BY WholeLowest DEF Simd!Zero, Simd!Whole
<1>3. Is(Simd!Zero, 0, 1)
  BY <1>2, IsItself
<1> HIDE DEF a, b
<1>4. Is(Simd!Plus(p, Simd!Zero), a * 1 + 0 * b, b * 1)
  BY <1>1, <1>3, IsPlus
<1>5. a * 1 + 0 * b = a /\ b * 1 = b
  BY <1>1
<1>6. Is(Simd!Plus(p, Simd!Zero), a, b)
  BY <1>4, <1>5
<1>7. Simd!Plus(p, Simd!Zero) = p
  BY <1>1, <1>6, IsSame
<1> QED
  BY <1>2, <1>7, PlusSwapped

\* By 1, 0 and -1.
LEMMA TimesWhole ==
  ASSUME NEW p \in Lowest
  PROVE  /\ Simd!Times(p, Simd!Whole(1)) = p
         /\ Simd!Times(p, Simd!Whole(0)) = Simd!Zero
         /\ Simd!Times(p, Simd!Whole(-1)) = Simd!Neg(p)
<1> DEFINE a == p[1]  b == p[2]
<1>1. a \in Int /\ b \in Nat /\ b > 0 /\ Is(p, a, b)
  BY LowestTyped, IsItself
<1>2. \A n \in Int : Is(Simd!Whole(n), n, 1)
  <2> SUFFICES ASSUME NEW n \in Int PROVE Is(Simd!Whole(n), n, 1)
    OBVIOUS
  <2>1. Simd!Whole(n)[1] = n /\ Simd!Whole(n)[2] = 1
    BY DEF Simd!Whole
  <2> QED
    BY <2>1, WholeLowest, IsItself
<1>3. Is(Simd!Neg(p), -a, b)
  <2>1. Simd!Neg(p)[1] = -a /\ Simd!Neg(p)[2] = b
    BY DEF Simd!Neg
  <2> QED
    BY <2>1, NegLowest, IsItself
<1>4. Simd!Zero = Simd!Whole(0)
  BY DEF Simd!Zero, Simd!Whole
<1> HIDE DEF a, b
<1>5. \A n \in Int : Is(Simd!Times(p, Simd!Whole(n)), a * n, b * 1)
  BY <1>1, <1>2, IsTimes
<1>6. b * 1 = b /\ a * 1 = a /\ a * 0 = 0 /\ a * (-1) = -a /\ -a \in Int
  BY <1>1
<1>7. Is(Simd!Times(p, Simd!Whole(1)), a, b)
  BY <1>5, <1>6
<1>8. Is(Simd!Times(p, Simd!Whole(0)), 0, b)
  BY <1>5, <1>6
<1>9. Is(Simd!Times(p, Simd!Whole(-1)), -a, b)
  BY <1>5, <1>6
<1>10. Simd!Times(p, Simd!Whole(1)) = p
  BY <1>1, <1>7, IsSame
<1>11. Simd!Times(p, Simd!Whole(0)) = Simd!Whole(0)
  <2>1. Is(Simd!Whole(0), 0, 1) /\ 0 * 1 = 0 * b
    BY <1>1, <1>2
  <2> QED
    BY <1>1, <1>8, <2>1, IsSame
<1>12. Simd!Times(p, Simd!Whole(-1)) = Simd!Neg(p)
  BY <1>1, <1>3, <1>6, <1>9, IsSame
<1> QED
  BY <1>4, <1>10, <1>11, <1>12

-----------------------------------------------------------------------------
(* What the two libraries and the instruction sets compute in two ways, for *)
(* all fractions.                                                           *)

LEMMA NegAlike ==
  ASSUME NEW p
  PROVE  Fast!Neg(p) = Simd!Neg(p)
BY DEF Fast!Neg, Simd!Neg

LEMMA MinusAlike ==
  ASSUME NEW p, NEW q
  PROVE  Fast!Minus(p, q) = Simd!Minus(p, q)
BY NegAlike, PlusAlike DEF Fast!Minus, Simd!Minus

LEMMA WholeAlike ==
  ASSUME NEW n
  PROVE  Fast!Whole(n) = Simd!Whole(n)
BY DEF Fast!Whole, Simd!Whole

LEMMA QuinticAlike ==
  ASSUME NEW t \in Lowest
  PROVE  Simd!InterpQuintic(t) = Fast!InterpQuinticFunc(t)
<1> DEFINE s == Simd!Minus(Simd!Times(t, Simd!Whole(6)), Simd!Whole(15))
           r == Simd!Plus(Simd!Times(s, t), Simd!Whole(10))
           tt == Simd!Times(t, t)
<1>1. Simd!Whole(6) \in Lowest /\ Simd!Whole(15) \in Lowest /\ Simd!Whole(10) \in Lowest
  BY WholeLowest
<1>2. s \in Lowest /\ tt \in Lowest
  BY <1>1, SumsLowest, MinusLowest
<1>3. Simd!InterpQuintic(t) = Simd!Times(Simd!Times(Simd!Times(r, t), t), t)
  BY DEF Simd!InterpQuintic
<1>4. Fast!InterpQuinticFunc(t)
          = Simd!Times(Simd!Times(t, tt), Simd!Plus(Simd!Times(t, s), Simd!Whole(10)))
  BY TimesAlike, PlusAlike, MinusAlike, WholeAlike DEF Fast!InterpQuinticFunc
<1> HIDE DEF s
<1>5. Simd!Times(t, s) = Simd!Times(s, t)
  BY <1>2, TimesSwapped
<1>6. r \in Lowest
  BY <1>1, <1>2, SumsLowest
<1>7. Fast!InterpQuinticFunc(t) = Simd!Times(Simd!Times(t, tt), r)
  BY <1>4, <1>5
<1> HIDE DEF r
<1>8. Simd!Times(Simd!Times(Simd!Times(r, t), t), t) = Simd!Times(r, Simd!Times(tt, t))
  <2>1. Simd!Times(Simd!Times(r, t), t) = Simd!Times(r, tt)
    BY <1>6, TimesGrouped
  <2> HIDE DEF tt
  <2>2. Simd!Times(Simd!Times(r, tt), t) = Simd!Times(r, Simd!Times(tt, t))
    BY <1>2, <1>6, TimesGrouped
  <2> QED
    BY <2>1, <2>2
<1> HIDE DEF tt
<1>9. Simd!Times(tt, t) = Simd!Times(t, tt) /\ Simd!Times(t, tt) \in Lowest
  BY <1>2, TimesSwapped, SumsLowest
<1>10. Simd!Times(r, Simd!Times(t, tt)) = Simd!Times(Simd!Times(t, tt), r)
  BY <1>6, <1>9, TimesSwapped
<1> QED
  BY <1>3, <1>7, <1>8, <1>9, <1>10

LEMMA CubicLerpAlike ==
  ASSUME NEW p \in Lowest, NEW q \in Lowest, NEW r \in Lowest, NEW s \in Lowest, NEW t \in Lowest
  PROVE  Simd!CubicLerp(p, q, r, s, t) = Fast!CubicLerp(p, q, r, s, t)
<1> DEFINE w == Simd!Minus(Simd!Minus(s, r), Simd!Minus(p, q))
           v == Simd!Minus(Simd!Minus(p, q), w)
           tt == Simd!Times(t, t)
           a == Simd!Times(t, Simd!Times(t, Simd!Times(t, w)))
           b == Simd!Times(t, Simd!Times(t, v))
           c == Simd!Plus(Simd!Times(t, Simd!Minus(r, p)), q)
<1>1. w \in Lowest /\ v \in Lowest /\ tt \in Lowest /\ c \in Lowest
  BY MinusLowest, SumsLowest
<1>2. Simd!CubicLerp(p, q, r, s, t) = Simd!Plus(a, Simd!Plus(b, c))
  BY DEF Simd!CubicLerp
<1>3. Fast!CubicLerp(p, q, r, s, t)
          = Simd!Plus(Simd!Plus(Simd!Times(Simd!Times(t, tt), w), Simd!Times(tt, v)), c)
  BY TimesAlike, PlusAlike, MinusAlike DEF Fast!CubicLerp
<1> HIDE DEF w, v, c
<1>4. Simd!Times(t, w) \in Lowest /\ Simd!Times(t, tt) \in Lowest
  BY <1>1, SumsLowest
<1>5. Simd!Times(tt, v) = b
  BY <1>1, TimesGrouped
<1>6. Simd!Times(Simd!Times(t, tt), w) = a
  <2>1. Simd!Times(tt, w) = Simd!Times(t, Simd!Times(t, w))
    BY <1>1, TimesGrouped
  <2> HIDE DEF tt
  <2>2. Simd!Times(Simd!Times(t, tt), w) = Simd!Times(t, Simd!Times(tt, w))
    BY <1>1, TimesGrouped
  <2> QED
    BY <2>1, <2>2
<1>7. a \in Lowest /\ b \in Lowest
  BY <1>1, <1>4, SumsLowest
<1> HIDE DEF a, b, tt
<1>8. Simd!Plus(Simd!Plus(a, b), c) = Simd!Plus(a, Simd!Plus(b, c))
  BY <1>1, <1>7, PlusGrouped
<1> QED
  BY <1>2, <1>3, <1>5, <1>6, <1>8

\* The order of fractions.
Positive(p) == p[1] \in Int /\ p[2] \in Nat /\ p[2] > 0

LEMMA LeqThrough ==
  ASSUME NEW p, NEW q, NEW r, Positive(p), Positive(q), Positive(r), Simd!Leq(p, q), Simd!Leq(q, r)
  PROVE  Simd!Leq(p, r)
<1> DEFINE a == p[1]  b == p[2]  c == q[1]  d == q[2]  e == r[1]  f == r[2]
<1>1. /\ a \in Int /\ b \in Nat /\ b > 0 /\ c \in Int /\ d \in Nat /\ d > 0
      /\ e \in Int /\ f \in Nat /\ f > 0
  BY DEF Positive
<1>2. a * d <= c * b /\ c * f <= e * d
  BY DEF Simd!Leq
<1> HIDE DEF a, b, c, d, e, f
<1>3. \A x, y \in Int : \A z \in Nat : x <= y => x * z <= y * z
  OBVIOUS
<1>4. (a * d) * f <= (c * b) * f
  BY <1>1, <1>2, <1>3
<1>5. (c * f) * b <= (e * d) * b
  BY <1>1, <1>2, <1>3
<1>6. (a * f) * d <= (e * b) * d
  <2>1. (a * d) * f = (a * f) * d /\ (c * b) * f = (c * f) * b /\ (e * d) * b = (e * b) * d
    BY <1>1
  <2>2. (a * f) * d \in Int /\ (c * f) * b \in Int /\ (e * b) * d \in Int
    BY <1>1
  <2> QED
    BY <1>4, <1>5, <2>1, <2>2
<1> DEFINE x == a * f  y == e * b
<1>7. x \in Int /\ y \in Int
  BY <1>1
<1>8. x * d <= y * d
  BY <1>6
<1> HIDE DEF x, y
<1>9. x <= y
  <2> SUFFICES ASSUME y + 1 <= x PROVE FALSE
    BY <1>7
  <2>1. (y + 1) * d <= x * d /\ (y + 1) * d = y * d + d
    BY <1>1, <1>3, <1>7
  <2> QED
    BY <1>1, <1>7, <1>8, <2>1
<1> QED
  BY <1>9 DEF x, y, a, b, e, f, Simd!Leq

LEMMA LeqEither ==
  ASSUME NEW p, NEW q, Positive(p), Positive(q)
  PROVE  Simd!Leq(p, q) \/ Simd!Leq(q, p)
<1> DEFINE x == p[1] * q[2]  y == q[1] * p[2]
<1>1. x \in Int /\ y \in Int
  BY DEF Positive
<1>2. x <= y \/ y <= x
  BY <1>1
<1> QED
  BY <1>2 DEF Simd!Leq

LEMMA FourOf ==
  ASSUME NEW a, NEW b, NEW c, NEW d
  PROVE  <<a>> \o <<b, c>> \o <<d>> = <<a, b, c, d>>
<1> DEFINE S == {a, b, c, d}
           s == <<a>> \o <<b, c>>
           e == <<d>>
           t == s \o e
           u == <<a, b, c, d>>
<1>1. s \in Seq(S) /\ Len(s) = 3 /\ s[1] = a /\ s[2] = b /\ s[3] = c
  <2>1. <<a>> \in Seq(S) /\ <<b, c>> \in Seq(S)
    OBVIOUS
  <2> QED
    BY <2>1
<1>2. e \in Seq(S) /\ Len(e) = 1 /\ e[1] = d
  OBVIOUS
<1>3. u \in Seq(S) /\ Len(u) = 4 /\ u[1] = a /\ u[2] = b /\ u[3] = c /\ u[4] = d
  OBVIOUS
<1> HIDE DEF S, s, e, u
<1>4. /\ t \in Seq(S) /\ Len(t) = Len(s) + Len(e)
      /\ \A i \in 1 .. Len(s) + Len(e) : t[i] = IF i <= Len(s) THEN s[i] ELSE e[i - Len(s)]
  BY <1>1, <1>2, ConcatProperties
<1> HIDE DEF t
<1>5. Len(t) = 4 /\ \A i \in 1 .. 4 : t[i] = u[i]
  BY <1>1, <1>2, <1>3, <1>4
<1>6. t = u
  BY <1>3, <1>4, <1>5, SeqEqual
<1> QED
  BY <1>6 DEF s, e, t, u

Bit(mask) == IF mask THEN 1 ELSE 0
MasksOf(xy, yz, xz) ==
    << <<0, 0, 0>>,
       <<Bit(xy /\ xz), Bit(~xy /\ yz), Bit(~xz /\ ~yz)>>,
       <<Bit(xy \/ xz), Bit(~xy \/ yz), Bit(~(xz /\ yz))>>,
       <<1, 1, 1>> >>
BranchesOf(xy, yz, xz) ==
    IF xy THEN IF yz THEN << <<1, 0, 0>>, <<1, 1, 0>> >>
               ELSE IF xz THEN << <<1, 0, 0>>, <<1, 0, 1>> >>
                          ELSE << <<0, 0, 1>>, <<1, 0, 1>> >>
    ELSE IF ~yz THEN << <<0, 0, 1>>, <<0, 1, 1>> >>
         ELSE IF ~xz THEN << <<0, 1, 0>>, <<0, 1, 1>> >>
                     ELSE << <<0, 1, 0>>, <<1, 1, 0>> >>

LEMMA MaskedStepsAre ==
  ASSUME NEW d
  PROVE  Simd!MaskedSteps(d)
             = MasksOf(Simd!Leq(d[2], d[1]), Simd!Leq(d[3], d[2]), Simd!Leq(d[3], d[1]))
BY DEF Simd!MaskedSteps, MasksOf, Bit

LEMMA Steps3Are ==
  ASSUME NEW d
  PROVE  Fast!Steps3(d)
             = << <<0, 0, 0>> >>
               \o BranchesOf(Simd!Leq(d[2], d[1]), Simd!Leq(d[3], d[2]), Simd!Leq(d[3], d[1]))
               \o << <<1, 1, 1>> >>
BY DEF Fast!Steps3, BranchesOf, Fast!Leq, Simd!Leq

\* Of three comparisons, no two contradict the third.
LEMMA Comparisons ==
  ASSUME NEW p, NEW q, NEW r, Positive(p), Positive(q), Positive(r)
  PROVE  /\ Simd!Leq(q, p) /\ Simd!Leq(r, q) => Simd!Leq(r, p)
         /\ ~Simd!Leq(q, p) /\ ~Simd!Leq(r, q) => ~Simd!Leq(r, p)
<1>1. Simd!Leq(q, p) /\ Simd!Leq(r, q) => Simd!Leq(r, p)
  BY LeqThrough
<1>2. ASSUME ~Simd!Leq(q, p), ~Simd!Leq(r, q), Simd!Leq(r, p) PROVE FALSE
  <2>1. Simd!Leq(p, q)
    BY <1>2, LeqEither
  <2>2. Simd!Leq(r, q)
    BY <1>2, <2>1, LeqThrough
  <2> QED
    BY <1>2, <2>2
<1> QED
  BY <1>1, <1>2

LEMMA MasksAlike ==
  ASSUME NEW d \in [1 .. 3 -> Int \X (Nat \ {0})]
  PROVE  Simd!MaskedSteps(d) = Fast!Steps3(d)
<1> DEFINE xy == Simd!Leq(d[2], d[1])  yz == Simd!Leq(d[3], d[2])  xz == Simd!Leq(d[3], d[1])
<1>1. Positive(d[1]) /\ Positive(d[2]) /\ Positive(d[3])
  BY DEF Positive
<1>2. (xy /\ yz => xz) /\ (~xy /\ ~yz => ~xz)
  BY <1>1, Comparisons
<1>3. Simd!MaskedSteps(d) = MasksOf(xy, yz, xz)
  BY MaskedStepsAre
<1>4. Fast!Steps3(d) = << <<0, 0, 0>> >> \o BranchesOf(xy, yz, xz) \o << <<1, 1, 1>> >>
  BY Steps3Are
<1>5. xy \in BOOLEAN /\ yz \in BOOLEAN /\ xz \in BOOLEAN
  BY DEF Simd!Leq
<1> HIDE DEF xy, yz, xz
<1>6. CASE xy /\ yz
  <2>1. BranchesOf(xy, yz, xz) = << <<1, 0, 0>>, <<1, 1, 0>> >>
    BY <1>6 DEF BranchesOf
  <2>2. MasksOf(xy, yz, xz) = << <<0, 0, 0>>, <<1, 0, 0>>, <<1, 1, 0>>, <<1, 1, 1>> >>
    BY <1>2, <1>6 DEF MasksOf, Bit
  <2> QED
    BY <1>3, <1>4, <2>1, <2>2, FourOf
<1>7. CASE xy /\ ~yz /\ xz
  <2>1. BranchesOf(xy, yz, xz) = << <<1, 0, 0>>, <<1, 0, 1>> >>
    BY <1>7 DEF BranchesOf
  <2>2. MasksOf(xy, yz, xz) = << <<0, 0, 0>>, <<1, 0, 0>>, <<1, 0, 1>>, <<1, 1, 1>> >>
    BY <1>7 DEF MasksOf, Bit
  <2> QED
    BY <1>3, <1>4, <2>1, <2>2, FourOf
<1>8. CASE xy /\ ~yz /\ ~xz
  <2>1. BranchesOf(xy, yz, xz) = << <<0, 0, 1>>, <<1, 0, 1>> >>
    BY <1>8 DEF BranchesOf
  <2>2. MasksOf(xy, yz, xz) = << <<0, 0, 0>>, <<0, 0, 1>>, <<1, 0, 1>>, <<1, 1, 1>> >>
    BY <1>8 DEF MasksOf, Bit
  <2> QED
    BY <1>3, <1>4, <2>1, <2>2, FourOf
<1>9. CASE ~xy /\ ~yz
  <2>1. BranchesOf(xy, yz, xz) = << <<0, 0, 1>>, <<0, 1, 1>> >>
    BY <1>9 DEF BranchesOf
  <2>2. MasksOf(xy, yz, xz) = << <<0, 0, 0>>, <<0, 0, 1>>, <<0, 1, 1>>, <<1, 1, 1>> >>
    BY <1>2, <1>9 DEF MasksOf, Bit
  <2> QED
    BY <1>3, <1>4, <2>1, <2>2, FourOf
<1>10. CASE ~xy /\ yz /\ ~xz
  <2>1. BranchesOf(xy, yz, xz) = << <<0, 1, 0>>, <<0, 1, 1>> >>
    BY <1>10 DEF BranchesOf
  <2>2. MasksOf(xy, yz, xz) = << <<0, 0, 0>>, <<0, 1, 0>>, <<0, 1, 1>>, <<1, 1, 1>> >>
    BY <1>10 DEF MasksOf, Bit
  <2> QED
    BY <1>3, <1>4, <2>1, <2>2, FourOf
<1>11. CASE ~xy /\ yz /\ xz
  <2>1. BranchesOf(xy, yz, xz) = << <<0, 1, 0>>, <<1, 1, 0>> >>
    BY <1>11 DEF BranchesOf
  <2>2. MasksOf(xy, yz, xz) = << <<0, 0, 0>>, <<0, 1, 0>>, <<1, 1, 0>>, <<1, 1, 1>> >>
    BY <1>11 DEF MasksOf, Bit
  <2> QED
    BY <1>3, <1>4, <2>1, <2>2, FourOf
<1> QED
  BY <1>6, <1>7, <1>8, <1>9, <1>10, <1>11

Ordered(order, steps, d, n) ==
    \A k \in 1 .. n : /\ steps[k+1] = [steps[k] EXCEPT ![order[k]] = 1]
                      /\ steps[k][order[k]] = 0
                      /\ \A b \in 1 .. n : steps[k][b] = 0 => Simd!Leq(d[b], d[order[k]])

\* Steps that go along the axes in an order in which the distances descend.
LEMMA OrderedSteps ==
  ASSUME NEW n \in Nat, NEW d \in [1 .. n -> Int \X (Nat \ {0})], NEW steps,
         NEW order \in [1 .. n -> 1 .. n], Ordered(order, steps, d, n)
  PROVE  Fast!InOrder(d, steps)
<1>1. DOMAIN d = 1 .. n /\ Len(d) = n
  OBVIOUS
<1>2. \A p, q : Fast!Leq(p, q) <=> Simd!Leq(p, q)
  BY DEF Fast!Leq, Simd!Leq
<1>3. ASSUME NEW k \in 1 .. n
      PROVE  \E a \in 1 .. n : /\ steps[k+1] = [steps[k] EXCEPT ![a] = 1] /\ steps[k][a] = 0
                               /\ \A b \in 1 .. n : steps[k][b] = 0 => Fast!Leq(d[b], d[a])
  <2>1. order[k] \in 1 .. n
    OBVIOUS
  <2> QED
    BY <1>2, <2>1 DEF Ordered
<1> QED
  BY <1>1, <1>3 DEF Fast!InOrder

Through(steps, i, j) ==
    /\ steps[1] = <<0, 0, 0>> /\ steps[2] = [steps[1] EXCEPT ![i] = 1]
    /\ steps[3] = [steps[2] EXCEPT ![j] = 1] /\ steps[4] = <<1, 1, 1>>

LEMMA TriangleInOrder ==
  ASSUME NEW d \in [1 .. 3 -> Int \X (Nat \ {0})], NEW i \in 1 .. 3, NEW j \in 1 .. 3, NEW k \in 1 .. 3,
         i # j, j # k, i # k, Simd!Leq(d[j], d[i]), Simd!Leq(d[k], d[j]), NEW steps,
         Through(steps, i, j)
  PROVE  Fast!InOrder(d, steps)
<1> USE DEF Through
<1> DEFINE order == <<i, j, k>>
<1>1. order \in [1 .. 3 -> 1 .. 3]
  OBVIOUS
<1>2. Positive(d[i]) /\ Positive(d[j]) /\ Positive(d[k])
  BY DEF Positive
<1>3. /\ Simd!Leq(d[j], d[i]) /\ Simd!Leq(d[k], d[j]) /\ Simd!Leq(d[k], d[i])
      /\ Simd!Leq(d[i], d[i]) /\ Simd!Leq(d[j], d[j]) /\ Simd!Leq(d[k], d[k])
  BY <1>2, LeqThrough, LeqEither
<1>4. \A b \in 1 .. 3 : b = i \/ b = j \/ b = k
  OBVIOUS
<1>5. \A a, b \in 1 .. 3 : steps[1][a] = 0 /\ (steps[2][a] = 0 <=> a # i) /\ (steps[3][a] = 0 <=> a = k)
  BY <1>4
<1>6. steps[4] = [steps[3] EXCEPT ![k] = 1]
  <2>0. steps[1] = [a \in 1 .. 3 |-> 0]
    OBVIOUS
  <2>1. steps[2] = [a \in 1 .. 3 |-> IF a = i THEN 1 ELSE 0]
    BY <2>0
  <2>2. steps[3] = [a \in 1 .. 3 |-> IF a = i \/ a = j THEN 1 ELSE 0]
    BY <2>1
  <2>3. [steps[3] EXCEPT ![k] = 1] = [a \in 1 .. 3 |-> 1]
    BY <1>4, <2>2
  <2>4. <<1, 1, 1>> = [a \in 1 .. 3 |-> 1]
    OBVIOUS
  <2> QED
    BY <2>3, <2>4
<1>7. ASSUME NEW n \in 1 .. 3
      PROVE  /\ steps[n+1] = [steps[n] EXCEPT ![order[n]] = 1]
             /\ steps[n][order[n]] = 0
             /\ \A b \in 1 .. 3 : steps[n][b] = 0 => Simd!Leq(d[b], d[order[n]])
  <2>1. CASE n = 1
    <3>1. order[n] = i /\ n+1 = 2
      BY <2>1
    <3> HIDE DEF order
    <3> QED
      BY <1>3, <1>4, <1>5, <2>1, <3>1
  <2>2. CASE n = 2
    <3>1. order[n] = j /\ n+1 = 3
      BY <2>2
    <3> HIDE DEF order
    <3> QED
      BY <1>3, <1>4, <1>5, <2>2, <3>1
  <2>3. CASE n = 3
    <3>1. order[n] = k /\ n+1 = 4
      BY <2>3
    <3> HIDE DEF order
    <3> QED
      BY <1>3, <1>4, <1>5, <1>6, <2>3, <3>1
  <2> QED
    BY <2>1, <2>2, <2>3
<1> HIDE DEF order
<1>8. Ordered(order, steps, d, 3)
  BY <1>7 DEF Ordered
<1>9. 3 \in Nat
  OBVIOUS
<1> QED
  BY <1>1, <1>8, <1>9, OrderedSteps

LEMMA Steps3InOrder ==
  ASSUME NEW d \in [1 .. 3 -> Int \X (Nat \ {0})]
  PROVE  Fast!InOrder(d, Fast!Steps3(d))
<1> DEFINE xy == Simd!Leq(d[2], d[1])  yz == Simd!Leq(d[3], d[2])  xz == Simd!Leq(d[3], d[1])
           steps == Fast!Steps3(d)
<1>1. Positive(d[1]) /\ Positive(d[2]) /\ Positive(d[3])
  BY DEF Positive
<1>2. (~xy => Simd!Leq(d[1], d[2])) /\ (~yz => Simd!Leq(d[2], d[3])) /\ (~xz => Simd!Leq(d[1], d[3]))
  BY <1>1, LeqEither
<1>3. steps = << <<0, 0, 0>> >> \o BranchesOf(xy, yz, xz) \o << <<1, 1, 1>> >>
  BY Steps3Are
<1>4. 1 \in 1 .. 3 /\ 2 \in 1 .. 3 /\ 3 \in 1 .. 3
  OBVIOUS
<1> DEFINE z == <<0, 0, 0>>
<1>5. /\ [z EXCEPT ![1] = 1] = <<1, 0, 0>> /\ [z EXCEPT ![2] = 1] = <<0, 1, 0>>
      /\ [z EXCEPT ![3] = 1] = <<0, 0, 1>>
  OBVIOUS
<1>6. /\ [<<1, 0, 0>> EXCEPT ![2] = 1] = <<1, 1, 0>> /\ [<<1, 0, 0>> EXCEPT ![3] = 1] = <<1, 0, 1>>
      /\ [<<0, 1, 0>> EXCEPT ![1] = 1] = <<1, 1, 0>> /\ [<<0, 1, 0>> EXCEPT ![3] = 1] = <<0, 1, 1>>
      /\ [<<0, 0, 1>> EXCEPT ![1] = 1] = <<1, 0, 1>> /\ [<<0, 0, 1>> EXCEPT ![2] = 1] = <<0, 1, 1>>
  OBVIOUS
<1>7. xy \in BOOLEAN /\ yz \in BOOLEAN /\ xz \in BOOLEAN
  BY DEF Simd!Leq
<1> DEFINE b == BranchesOf(xy, yz, xz)
<1>8. ASSUME NEW v, NEW w, b = <<v, w>>
      PROVE  steps[1] = z /\ steps[2] = v /\ steps[3] = w /\ steps[4] = <<1, 1, 1>>
  <2>1. steps = <<z, v, w, <<1, 1, 1>> >>
    BY <1>3, <1>8, FourOf
  <2> HIDE DEF steps
  <2> QED
    BY <2>1
<1>9. /\ xy /\ yz => b = << <<1, 0, 0>>, <<1, 1, 0>> >>
      /\ xy /\ ~yz /\ xz => b = << <<1, 0, 0>>, <<1, 0, 1>> >>
      /\ xy /\ ~yz /\ ~xz => b = << <<0, 0, 1>>, <<1, 0, 1>> >>
      /\ ~xy /\ ~yz => b = << <<0, 0, 1>>, <<0, 1, 1>> >>
      /\ ~xy /\ yz /\ ~xz => b = << <<0, 1, 0>>, <<0, 1, 1>> >>
      /\ ~xy /\ yz /\ xz => b = << <<0, 1, 0>>, <<1, 1, 0>> >>
  <2> HIDE DEF xy, yz, xz
  <2> QED
    BY <1>7 DEF BranchesOf
<1> HIDE DEF steps, b
<1>10. ASSUME NEW i \in 1 .. 3, NEW j \in 1 .. 3, NEW k \in 1 .. 3,
              i # j, j # k, i # k, Simd!Leq(d[j], d[i]), Simd!Leq(d[k], d[j]),
              b = <<[z EXCEPT ![i] = 1], [[z EXCEPT ![i] = 1] EXCEPT ![j] = 1]>>
       PROVE  Fast!InOrder(d, steps)
  <2>1. /\ steps[1] = <<0, 0, 0>> /\ steps[2] = [z EXCEPT ![i] = 1]
        /\ steps[3] = [[z EXCEPT ![i] = 1] EXCEPT ![j] = 1] /\ steps[4] = <<1, 1, 1>>
    BY <1>8, <1>10
  <2> HIDE DEF z
  <2>2. z = <<0, 0, 0>>
    BY DEF z
  <2>3. steps[2] = [steps[1] EXCEPT ![i] = 1] /\ steps[3] = [steps[2] EXCEPT ![j] = 1]
    BY <2>1, <2>2
  <2> QED
    <3>1. Through(steps, i, j)
      BY <2>1, <2>3 DEF Through
    <3> QED
      BY <1>10, <3>1, TriangleInOrder
<1> HIDE DEF z
<1>11. xy /\ yz => Fast!InOrder(d, steps)
  <2> SUFFICES ASSUME xy /\ yz PROVE Fast!InOrder(d, steps)
    OBVIOUS
  <2>1. b = <<[z EXCEPT ![1] = 1], [[z EXCEPT ![1] = 1] EXCEPT ![2] = 1]>>
    BY <1>5, <1>6, <1>9
  <2> QED
    BY <1>2, <1>4, <1>10, <2>1
<1>12. xy /\ ~yz /\ xz => Fast!InOrder(d, steps)
  <2> SUFFICES ASSUME xy /\ ~yz /\ xz PROVE Fast!InOrder(d, steps)
    OBVIOUS
  <2>1. b = <<[z EXCEPT ![1] = 1], [[z EXCEPT ![1] = 1] EXCEPT ![3] = 1]>>
    BY <1>5, <1>6, <1>9
  <2> QED
    BY <1>2, <1>4, <1>10, <2>1
<1>13. xy /\ ~yz /\ ~xz => Fast!InOrder(d, steps)
  <2> SUFFICES ASSUME xy /\ ~yz /\ ~xz PROVE Fast!InOrder(d, steps)
    OBVIOUS
  <2>1. b = <<[z EXCEPT ![3] = 1], [[z EXCEPT ![3] = 1] EXCEPT ![1] = 1]>>
    BY <1>5, <1>6, <1>9
  <2> QED
    BY <1>2, <1>4, <1>10, <2>1
<1>14. ~xy /\ ~yz => Fast!InOrder(d, steps)
  <2> SUFFICES ASSUME ~xy /\ ~yz PROVE Fast!InOrder(d, steps)
    OBVIOUS
  <2>1. b = <<[z EXCEPT ![3] = 1], [[z EXCEPT ![3] = 1] EXCEPT ![2] = 1]>>
    BY <1>5, <1>6, <1>9
  <2> QED
    BY <1>2, <1>4, <1>10, <2>1
<1>15. ~xy /\ yz /\ ~xz => Fast!InOrder(d, steps)
  <2> SUFFICES ASSUME ~xy /\ yz /\ ~xz PROVE Fast!InOrder(d, steps)
    OBVIOUS
  <2>1. b = <<[z EXCEPT ![2] = 1], [[z EXCEPT ![2] = 1] EXCEPT ![3] = 1]>>
    BY <1>5, <1>6, <1>9
  <2> QED
    BY <1>2, <1>4, <1>10, <2>1
<1>16. ~xy /\ yz /\ xz => Fast!InOrder(d, steps)
  <2> SUFFICES ASSUME ~xy /\ yz /\ xz PROVE Fast!InOrder(d, steps)
    OBVIOUS
  <2>1. b = <<[z EXCEPT ![2] = 1], [[z EXCEPT ![2] = 1] EXCEPT ![1] = 1]>>
    BY <1>5, <1>6, <1>9
  <2> QED
    BY <1>2, <1>4, <1>10, <2>1
<1>17. Fast!InOrder(d, steps)
  <2> HIDE DEF xy, yz, xz
  <2> QED
    BY <1>11, <1>12, <1>13, <1>14, <1>15, <1>16
<1> QED
  BY <1>17 DEF steps

\* The rows of the table are the permutations of the ranks, each at the bits of
\* the comparisons of its ranks.
Codes == {0, 1, 3, 7, 8, 10, 11, 15, 24, 26, 30, 31, 32, 33, 37, 39, 48, 52, 53, 55, 56, 60, 62, 63}
CodeOf(xy, xz, yz, xw, yw, zw) ==
    32 * Bit(xy) + 16 * Bit(xz) + 8 * Bit(yz) + 4 * Bit(xw) + 2 * Bit(yw) + Bit(zw)
RowOf(c, r) ==
    /\ r \in [1 .. 4 -> 0 .. 3] /\ \A k \in 0 .. 3 : \E a \in 1 .. 4 : r[a] = k
    /\ c = CodeOf(r[2] < r[1], r[3] < r[1], r[3] < r[2], r[4] < r[1], r[4] < r[2], r[4] < r[3])

LEMMA RowIs ==
  ASSUME NEW c, NEW x \in 0 .. 3, NEW y \in 0 .. 3, NEW z \in 0 .. 3, NEW w \in 0 .. 3,
         \A k \in 0 .. 3 : k = x \/ k = y \/ k = z \/ k = w,
         c = CodeOf(y < x, z < x, z < y, w < x, w < y, w < z)
  PROVE  RowOf(c, <<x, y, z, w>>)
<1> DEFINE r == <<x, y, z, w>>
<1>1. r \in [1 .. 4 -> 0 .. 3] /\ r[1] = x /\ r[2] = y /\ r[3] = z /\ r[4] = w
  OBVIOUS
<1> HIDE DEF r
<1>2. \A k \in 0 .. 3 : \E a \in 1 .. 4 : r[a] = k
  BY <1>1
<1>3. RowOf(c, r)
  BY <1>1, <1>2 DEF RowOf
<1> QED
  BY <1>3 DEF r

LEMMA RowsAre ==
  ASSUME NEW c \in Codes
  PROVE  RowOf(c, Fast!SIMPLEX_4D[c])
<1>1. RowOf(0, <<0,1,2,3>>) /\ RowOf(1, <<0,1,3,2>>) /\ RowOf(3, <<0,2,3,1>>) /\ RowOf(7, <<1,2,3,0>>)
  BY RowIs DEF CodeOf, Bit
<1>2. RowOf(8, <<0,2,1,3>>) /\ RowOf(10, <<0,3,1,2>>) /\ RowOf(11, <<0,3,2,1>>) /\ RowOf(15, <<1,3,2,0>>)
  BY RowIs DEF CodeOf, Bit
<1>3. RowOf(24, <<1,2,0,3>>) /\ RowOf(26, <<1,3,0,2>>) /\ RowOf(30, <<2,3,0,1>>) /\ RowOf(31, <<2,3,1,0>>)
  BY RowIs DEF CodeOf, Bit
<1>4. RowOf(32, <<1,0,2,3>>) /\ RowOf(33, <<1,0,3,2>>) /\ RowOf(37, <<2,0,3,1>>) /\ RowOf(39, <<2,1,3,0>>)
  BY RowIs DEF CodeOf, Bit
<1>5. RowOf(48, <<2,0,1,3>>) /\ RowOf(52, <<3,0,1,2>>) /\ RowOf(53, <<3,0,2,1>>) /\ RowOf(55, <<3,1,2,0>>)
  BY RowIs DEF CodeOf, Bit
<1>6. RowOf(56, <<2,1,0,3>>) /\ RowOf(60, <<3,1,0,2>>) /\ RowOf(62, <<3,2,0,1>>) /\ RowOf(63, <<3,2,1,0>>)
  BY RowIs DEF CodeOf, Bit
<1>7. c \in 0 .. 63
  BY DEF Codes
<1> QED
  BY <1>1, <1>2, <1>3, <1>4, <1>5, <1>6, <1>7 DEF Codes, Fast!SIMPLEX_4D

\* Comparisons of which no two contradict a third.
LEMMA CodesSuffice ==
  ASSUME NEW xy \in BOOLEAN, NEW xz \in BOOLEAN, NEW yz \in BOOLEAN,
         NEW xw \in BOOLEAN, NEW yw \in BOOLEAN, NEW zw \in BOOLEAN,
         (xy /\ yz => xz) /\ (~xy /\ ~yz => ~xz), (xy /\ yw => xw) /\ (~xy /\ ~yw => ~xw),
         (xz /\ zw => xw) /\ (~xz /\ ~zw => ~xw), (yz /\ zw => yw) /\ (~yz /\ ~zw => ~yw)
  PROVE  CodeOf(xy, xz, yz, xw, yw, zw) \in Codes
BY DEF CodeOf, Bit, Codes

LEMMA CodeUnique ==
  ASSUME NEW xy \in BOOLEAN, NEW xz \in BOOLEAN, NEW yz \in BOOLEAN,
         NEW xw \in BOOLEAN, NEW yw \in BOOLEAN, NEW zw \in BOOLEAN,
         NEW ab \in BOOLEAN, NEW ac \in BOOLEAN, NEW bc \in BOOLEAN,
         NEW ad \in BOOLEAN, NEW bd \in BOOLEAN, NEW cd \in BOOLEAN,
         CodeOf(xy, xz, yz, xw, yw, zw) = CodeOf(ab, ac, bc, ad, bd, cd)
  PROVE  (xy <=> ab) /\ (xz <=> ac) /\ (yz <=> bc) /\ (xw <=> ad) /\ (yw <=> bd) /\ (zw <=> cd)
BY DEF CodeOf, Bit

LEMMA LessIs ==
  ASSUME NEW p, NEW q, Positive(p), Positive(q)
  PROVE  Simd!Less(p, q) <=> ~Simd!Leq(q, p)
<1> DEFINE x == p[1] * q[2]  y == q[1] * p[2]
<1>1. x \in Int /\ y \in Int
  BY DEF Positive
<1>2. x < y <=> ~(y <= x)
  BY <1>1
<1> QED
  BY <1>2 DEF Simd!Leq, Simd!Less

LEMMA LessComparisons ==
  ASSUME NEW p, NEW q, NEW r, Positive(p), Positive(q), Positive(r)
  PROVE  /\ Simd!Less(q, p) /\ Simd!Less(r, q) => Simd!Less(r, p)
         /\ ~Simd!Less(q, p) /\ ~Simd!Less(r, q) => ~Simd!Less(r, p)
<1>1. /\ Simd!Less(q, p) <=> ~Simd!Leq(p, q)
      /\ Simd!Less(r, q) <=> ~Simd!Leq(q, r)
      /\ Simd!Less(r, p) <=> ~Simd!Leq(p, r)
  BY LessIs
<1>2. /\ Simd!Leq(q, r) /\ Simd!Leq(p, q) => Simd!Leq(p, r)
      /\ ~Simd!Leq(q, r) /\ ~Simd!Leq(p, q) => ~Simd!Leq(p, r)
  BY Comparisons
<1> QED
  BY <1>1, <1>2

LEMMA ComparedIs ==
  ASSUME NEW d
  PROVE  Fast!Compared(d) = CodeOf(Simd!Less(d[2], d[1]), Simd!Less(d[3], d[1]), Simd!Less(d[3], d[2]),
                                   Simd!Less(d[4], d[1]), Simd!Less(d[4], d[2]), Simd!Less(d[4], d[3]))
<1>1. \A p, q : Fast!Less(p, q) <=> Simd!Less(p, q)
  BY DEF Fast!Less, Simd!Less
<1> DEFINE f(p, q, value) == IF Simd!Less(q, p) THEN value ELSE 0
<1>2. Fast!Compared(d) = f(d[1], d[2], 32) + f(d[1], d[3], 16) + f(d[2], d[3], 8)
                             + f(d[1], d[4], 4) + f(d[2], d[4], 2) + f(d[3], d[4], 1)
  BY <1>1 DEF Fast!Compared
<1>3. ASSUME NEW p, NEW q
      PROVE  /\ f(p, q, 32) = 32 * Bit(Simd!Less(q, p)) /\ f(p, q, 16) = 16 * Bit(Simd!Less(q, p))
             /\ f(p, q, 8) = 8 * Bit(Simd!Less(q, p)) /\ f(p, q, 4) = 4 * Bit(Simd!Less(q, p))
             /\ f(p, q, 2) = 2 * Bit(Simd!Less(q, p)) /\ f(p, q, 1) = Bit(Simd!Less(q, p))
  BY DEF Bit
<1> HIDE DEF f
<1> QED
  BY <1>2, <1>3 DEF CodeOf

\* The ranks are in the order of the distances.
LEMMA RanksInOrder ==
  ASSUME NEW d \in [1 .. 4 -> Int \X (Nat \ {0})]
  PROVE  LET r == Fast!Ranks(d)
         IN  /\ r \in [1 .. 4 -> 0 .. 3] /\ \A k \in 0 .. 3 : \E a \in 1 .. 4 : r[a] = k
             /\ \A a, b \in 1 .. 4 : r[b] <= r[a] => Simd!Leq(d[b], d[a])
<1> DEFINE r == Fast!Ranks(d)
           xy == Simd!Less(d[2], d[1])  xz == Simd!Less(d[3], d[1])  yz == Simd!Less(d[3], d[2])
           xw == Simd!Less(d[4], d[1])  yw == Simd!Less(d[4], d[2])  zw == Simd!Less(d[4], d[3])
           c == CodeOf(xy, xz, yz, xw, yw, zw)
<1>1. \A a \in 1 .. 4 : Positive(d[a])
  BY DEF Positive
<1>2. Positive(d[1]) /\ Positive(d[2]) /\ Positive(d[3]) /\ Positive(d[4])
  BY <1>1
<1>3. /\ (xy /\ yz => xz) /\ (~xy /\ ~yz => ~xz)
      /\ (xy /\ yw => xw) /\ (~xy /\ ~yw => ~xw)
      /\ (xz /\ zw => xw) /\ (~xz /\ ~zw => ~xw)
      /\ (yz /\ zw => yw) /\ (~yz /\ ~zw => ~yw)
  BY <1>2, LessComparisons
<1>4. /\ xy \in BOOLEAN /\ xz \in BOOLEAN /\ yz \in BOOLEAN
      /\ xw \in BOOLEAN /\ yw \in BOOLEAN /\ zw \in BOOLEAN
  BY DEF Simd!Less
<1>5. Fast!Compared(d) = c
  BY ComparedIs
<1>6. r = Fast!SIMPLEX_4D[c]
  BY <1>5 DEF Fast!Ranks
<1>7. /\ xy <=> ~Simd!Leq(d[1], d[2])
      /\ xz <=> ~Simd!Leq(d[1], d[3])
      /\ yz <=> ~Simd!Leq(d[2], d[3])
      /\ xw <=> ~Simd!Leq(d[1], d[4])
      /\ yw <=> ~Simd!Leq(d[2], d[4])
      /\ zw <=> ~Simd!Leq(d[3], d[4])
  BY <1>2, LessIs
<1> HIDE DEF r, xy, xz, yz, xw, yw, zw
<1>8. c \in Codes
  BY <1>3, <1>4, CodesSuffice
<1>9. RowOf(c, r)
  BY <1>6, <1>8, RowsAre
<1>10. r \in [1 .. 4 -> 0 .. 3] /\ \A k \in 0 .. 3 : \E a \in 1 .. 4 : r[a] = k
  BY <1>9 DEF RowOf
<1>11. /\ xy <=> r[2] < r[1]
       /\ xz <=> r[3] < r[1]
       /\ yz <=> r[3] < r[2]
       /\ xw <=> r[4] < r[1]
       /\ yw <=> r[4] < r[2]
       /\ zw <=> r[4] < r[3]
  <2> DEFINE ab == r[2] < r[1]  ac == r[3] < r[1]  bc == r[3] < r[2]
             ad == r[4] < r[1]  bd == r[4] < r[2]  cd == r[4] < r[3]
  <2>1. CodeOf(xy, xz, yz, xw, yw, zw) = CodeOf(ab, ac, bc, ad, bd, cd)
    BY <1>9 DEF RowOf
  <2>2. /\ ab \in BOOLEAN /\ ac \in BOOLEAN /\ bc \in BOOLEAN
        /\ ad \in BOOLEAN /\ bd \in BOOLEAN /\ cd \in BOOLEAN
    OBVIOUS
  <2> HIDE DEF ab, ac, bc, ad, bd, cd
  <2>3. (xy <=> ab) /\ (xz <=> ac) /\ (yz <=> bc) /\ (xw <=> ad) /\ (yw <=> bd) /\ (zw <=> cd)
    BY <1>4, <2>1, <2>2 DEF CodeOf, Bit
  <2> QED
    BY <2>3 DEF ab, ac, bc, ad, bd, cd
<1> HIDE DEF c
<1>12. \A a, b \in 1 .. 4 : a # b => r[a] # r[b]
  <2>1. PICK i \in 1 .. 4, j \in 1 .. 4, k \in 1 .. 4, l \in 1 .. 4 :
            r[i] = 0 /\ r[j] = 1 /\ r[k] = 2 /\ r[l] = 3
    BY <1>10
  <2> QED
    BY <1>10, <2>1
<1>13. \A a, b \in 1 .. 4 : a < b => /\ Simd!Leq(d[a], d[b]) <=> r[a] <= r[b]
                                     /\ r[b] <= r[a] => Simd!Leq(d[b], d[a])
  <2>1. \A a, b \in 1 .. 4 : a < b => (Simd!Leq(d[a], d[b]) <=> ~(r[b] < r[a]))
    BY <1>7, <1>11
  <2>2. \A a, b \in 1 .. 4 : ~(r[b] < r[a]) <=> r[a] <= r[b]
    BY <1>10
  <2>3. \A a, b \in 1 .. 4 : a < b /\ r[b] <= r[a] => r[b] < r[a]
    BY <1>10, <1>12
  <2>4. \A a, b \in 1 .. 4 : Simd!Leq(d[a], d[b]) \/ Simd!Leq(d[b], d[a])
    BY <1>1, LeqEither
  <2> QED
    BY <2>1, <2>2, <2>3, <2>4
<1>14. \A a \in 1 .. 4 : Simd!Leq(d[a], d[a])
  BY <1>1, LeqEither
<1>15. ASSUME NEW a \in 1 .. 4, NEW b \in 1 .. 4, r[b] <= r[a] PROVE Simd!Leq(d[b], d[a])
  <2>1. CASE a < b
    BY <1>13, <1>15, <2>1
  <2>2. CASE b < a
    BY <1>13, <1>15, <2>2
  <2>3. CASE a = b
    BY <1>14, <2>3
  <2> QED
    BY <2>1, <2>2, <2>3
<1> QED
  BY <1>10, <1>15 DEF r

LEMMA Steps4InOrder ==
  ASSUME NEW d \in [1 .. 4 -> Int \X (Nat \ {0})]
  PROVE  Fast!InOrder(d, Fast!Steps4(d))
<1> DEFINE r == Fast!Ranks(d)
           steps == Fast!Steps4(d)
           above(n) == [a \in 1 .. 4 |-> IF r[a] >= n THEN 1 ELSE 0]
           order == [n \in 1 .. 4 |-> CHOOSE a \in 1 .. 4 : r[a] = 4 - n]
<1>1. /\ r \in [1 .. 4 -> 0 .. 3] /\ \A k \in 0 .. 3 : \E a \in 1 .. 4 : r[a] = k
      /\ \A a, b \in 1 .. 4 : r[b] <= r[a] => Simd!Leq(d[b], d[a])
  BY RanksInOrder
<1>2. steps = << <<0, 0, 0, 0>>, above(3), above(2), above(1), <<1, 1, 1, 1>> >>
  BY DEF Fast!Steps4
<1> HIDE DEF r, steps
<1>3. <<0, 0, 0, 0>> = above(4) /\ <<1, 1, 1, 1>> = above(0)
  <2>1. above(4) = [a \in 1 .. 4 |-> 0] /\ above(0) = [a \in 1 .. 4 |-> 1]
    BY <1>1
  <2> HIDE DEF above
  <2> QED
    BY <2>1
<1>4. ASSUME NEW n \in 1 .. 4 PROVE order[n] \in 1 .. 4 /\ r[order[n]] = 4 - n
  <2>1. 4 - n \in 0 .. 3
    OBVIOUS
  <2>2. \E a \in 1 .. 4 : r[a] = 4 - n
    BY <1>1, <2>1
  <2> QED
    BY <2>2
<1>5. order \in [1 .. 4 -> 1 .. 4]
  BY <1>4
<1> HIDE DEF order
<1>6. \A n \in 1 .. 5 : steps[n] = above(5 - n)
  <2> HIDE DEF above
  <2> QED
    BY <1>2, <1>3
<1>7. \A a, b \in 1 .. 4 : r[a] = r[b] => a = b
  <2>1. PICK i \in 1 .. 4, j \in 1 .. 4, k \in 1 .. 4, l \in 1 .. 4 :
            r[i] = 0 /\ r[j] = 1 /\ r[k] = 2 /\ r[l] = 3
    BY <1>1
  <2> QED
    BY <1>1, <2>1
<1>8. ASSUME NEW n \in 1 .. 4
      PROVE  /\ steps[n+1] = [steps[n] EXCEPT ![order[n]] = 1]
             /\ steps[n][order[n]] = 0
             /\ \A b \in 1 .. 4 : steps[n][b] = 0 => Simd!Leq(d[b], d[order[n]])
  <2> DEFINE i == order[n]
  <2>1. i \in 1 .. 4 /\ r[i] = 4 - n
    BY <1>4
  <2>2. steps[n] = above(5 - n) /\ steps[n+1] = above(4 - n)
    <3>1. n+1 \in 1 .. 5 /\ 5 - (n+1) = 4 - n /\ n \in 1 .. 5
      OBVIOUS
    <3> HIDE DEF above
    <3> QED
      BY <1>6, <3>1
  <2> HIDE DEF i
  <2>3. \A a \in 1 .. 4 : r[a] >= 4 - n <=> (r[a] >= 5 - n \/ a = i)
    BY <1>1, <1>7, <2>1
  <2>4. above(4 - n) = [above(5 - n) EXCEPT ![i] = 1]
    BY <2>1, <2>3
  <2>5. above(5 - n)[i] = 0
    BY <2>1
  <2>6. \A b \in 1 .. 4 : above(5 - n)[b] = 0 => r[b] <= r[i]
    BY <1>1, <2>1
  <2> QED
    BY <1>1, <2>1, <2>2, <2>4, <2>5, <2>6 DEF i
<1>9. Fast!InOrder(d, steps)
  <2>1. 4 \in Nat
    OBVIOUS
  <2> HIDE DEF above
  <2>2. Ordered(order, steps, d, 4)
    BY <1>8 DEF Ordered
  <2> QED
    BY <1>5, <2>1, <2>2, OrderedSteps
<1> QED
  BY <1>9 DEF steps

\* Rounding down, also by cutting off and looking whether that was up.
LEMMA FloorUnique ==
  ASSUME NEW a \in Int, NEW b \in Nat, b > 0, NEW q \in Int, q * b <= a, a < (q + 1) * b
  PROVE  a \div b = q
<1> DEFINE r == a - q * b
<1>1. r \in Int /\ a = b * q + r
  OBVIOUS
<1>2. (q + 1) * b = q * b + b
  OBVIOUS
<1>3. r >= 0 /\ r < b
  <2> DEFINE k == q * b
  <2>1. k \in Int /\ k <= a /\ a < k + b
    BY <1>2
  <2> HIDE DEF k
  <2>2. a - k >= 0 /\ a - k < b
    BY <2>1
  <2> QED
    BY <2>2 DEF k
<1> HIDE DEF r
<1>4. r \in Nat
  BY <1>1, <1>3
<1> QED
  BY <1>1, <1>3, <1>4, DivUnique

LEMMA FloorBetween ==
  ASSUME NEW a \in Int, NEW b \in Nat, b > 0
  PROVE  LET q == a \div b IN q \in Int /\ q * b <= a /\ a < (q + 1) * b
<1> DEFINE q == a \div b  r == a % b
<1>1. q \in Int /\ r \in Nat /\ r < b /\ a = b * q + r
  BY DivMod
<1> HIDE DEF q, r
<1>2. (q + 1) * b = b * q + b /\ q * b = b * q
  BY <1>1
<1> DEFINE k == b * q
<1>3. k \in Int /\ a = k + r
  BY <1>1
<1> HIDE DEF k
<1>4. k <= a /\ a < k + b
  BY <1>1, <1>3
<1> QED
  BY <1>1, <1>2, <1>4 DEF k, q

LEMMA FloorsAlike ==
  ASSUME NEW l, NEW f, Positive(f)
  PROVE  Simd!FloorOf(l, f) = f[1] \div f[2]
<1> DEFINE a == f[1]  b == f[2]  t == Simd!Truncated(f)
<1>1. a \in Int /\ b \in Nat /\ b > 0
  BY DEF Positive
<1>2. t = IF a >= 0 THEN a \div b ELSE -((-a) \div b)
  BY DEF Simd!Truncated
<1>3. Simd!FloorOf(l, f) = IF l = Simd!FN_SSE2 THEN IF a * 1 < t * b THEN t - 1 ELSE t ELSE a \div b
  BY DEF Simd!FloorOf, Simd!Less, Simd!Whole
<1> HIDE DEF a, b, t
<1>4. CASE a >= 0
  <2>1. t = a \div b
    BY <1>2, <1>4
  <2>2. t \in Int /\ t * b <= a
    BY <1>1, <2>1, FloorBetween
  <2>3. ~(a * 1 < t * b)
    <3> DEFINE k == t * b
    <3>1. k \in Int /\ k <= a
      BY <1>1, <2>2
    <3> HIDE DEF k
    <3>2. ~(a * 1 < k)
      BY <1>1, <3>1
    <3> QED
      BY <3>2 DEF k
  <2> QED
    BY <1>3, <2>1, <2>3 DEF a, b
<1>5. CASE a < 0
  <2> DEFINE u == (-a) \div b
  <2>0. -a \in Int
    BY <1>1
  <2>1. u \in Int /\ u * b <= -a /\ -a < (u + 1) * b
    BY <1>1, <2>0, FloorBetween
  <2>2. t = -u
    BY <1>1, <1>2, <1>5
  <2> HIDE DEF u
  <2>3. t \in Int
    BY <2>1, <2>2
  <2> DEFINE k == t * b
  <2>4. k \in Int /\ a <= k /\ k - b < a
    <3>1. u * b = -k /\ (u + 1) * b = -k + b
      BY <1>1, <2>1, <2>2
    <3>2. k \in Int
      BY <1>1, <2>3
    <3> HIDE DEF k
    <3> QED
      BY <1>1, <2>1, <3>1, <3>2
  <2>5. (t - 1) * b = k - b /\ (t + 1) * b = k + b /\ ((t - 1) + 1) * b = k
    BY <1>1, <2>3
  <2>6. CASE a < k
    <3>1. a \div b = t - 1
      <4>1. t - 1 \in Int
        BY <2>3
      <4>2. (t - 1) * b <= a /\ a < ((t - 1) + 1) * b
        <5> HIDE DEF k
        <5> QED
          BY <1>1, <2>4, <2>5, <2>6
      <4> QED
        BY <1>1, <4>1, <4>2, FloorUnique
    <3>2. a * 1 < t * b
      BY <1>1, <2>6
    <3> QED
      BY <1>3, <3>1, <3>2 DEF a, b
  <2>7. CASE ~(a < k)
    <3>1. a = k
      BY <1>1, <2>4, <2>7
    <3>2. t * b <= a /\ a < (t + 1) * b
      <4>1. k < k + b
        <5> HIDE DEF k
        <5> QED
          BY <1>1, <2>4
      <4> QED
        BY <1>1, <2>4, <2>5, <3>1, <4>1
    <3>3. a \div b = t
      BY <1>1, <2>3, <3>2, FloorUnique
    <3>4. ~(a * 1 < t * b)
      BY <1>1, <2>7
    <3> QED
      BY <1>3, <3>3, <3>4 DEF a, b
  <2> QED
    BY <2>6, <2>7
<1> QED
  BY <1>1, <1>4, <1>5

LEMMA SameFloor ==
  ASSUME NEW n \in Int, NEW d \in Nat, d > 0
  PROVE  Simd!Q(n, d)[1] \div Simd!Q(n, d)[2] = n \div d /\ Positive(Simd!Q(n, d))
<1> DEFINE f == Simd!Q(n, d)
           g == Simd!Gcd[<<Simd!Magnitude(n), d>>]
           s == n \div g
           t == d \div g
           k == s \div t
<1>1. /\ g \in Nat /\ g > 0 /\ s \in Int /\ n = g * s /\ t \in Nat /\ t > 0 /\ d = g * t
  BY DividedByGcd
<1>2. f = <<s, t>>
  BY DEF Simd!Q, Simd!Reduced
<1> HIDE DEF f, g, s, t
<1>3. k \in Int /\ k * t <= s /\ s < (k + 1) * t
  BY <1>1, FloorBetween
<1>4. s \div t = k
  OBVIOUS
<1> HIDE DEF k
<1>5. \A x, y \in Int : (x <= y => g * x <= g * y) /\ (x < y => g * x < g * y)
  BY <1>1
<1>6. k * t \in Int /\ (k + 1) * t \in Int
  BY <1>1, <1>3
<1>7. g * (k * t) <= g * s /\ g * s < g * ((k + 1) * t)
  BY <1>1, <1>3, <1>5, <1>6
<1>8. g * (k * t) = k * (g * t) /\ g * ((k + 1) * t) = (k + 1) * (g * t)
  BY <1>1, <1>3
<1>9. n \div d = k
  BY <1>1, <1>3, <1>7, <1>8, FloorUnique
<1> QED
  BY <1>1, <1>2, <1>4, <1>9 DEF f, Positive

LEMMA SumOfThree ==
  ASSUME NEW f, DOMAIN f = 1 .. 3
  PROVE  Simd!SumQ(f) = Simd!Plus(f[3], Simd!Plus(f[2], Simd!Plus(f[1], Simd!Zero)))
<1> DEFINE c == Simd!Cardinality(DOMAIN f)
           sum == CHOOSE g : SumsOf(g, f, c)
           s1 == Simd!Plus(f[1], Simd!Zero)
           s2 == Simd!Plus(f[2], s1)
           s3 == Simd!Plus(f[3], s2)
           h == [k \in 0 .. 3 |-> IF k = 0 THEN Simd!Zero ELSE IF k = 1 THEN s1 ELSE IF k = 2 THEN s2 ELSE s3]
<1>1. c = 3
  <2>1. 1 \in Int /\ 3 \in Int /\ ~(1 > 3) /\ 3 - 1 + 1 = 3
    OBVIOUS
  <2>2. Cardinality(1 .. 3) = IF 1 > 3 THEN 0 ELSE 3 - 1 + 1
    BY <2>1, FS_Interval
  <2> QED
    BY <2>1, <2>2, SimdCardinality
<1>2. Simd!SumQ(f) = sum[c]
  BY DEF Simd!SumQ, SumsOf
<1> HIDE DEF c
<1>3. SumsOf(h, f, 3)
  <2>1. h[0] = Simd!Zero /\ h[1] = s1 /\ h[2] = s2 /\ h[3] = s3 /\ h = [k \in 0 .. 3 |-> h[k]]
    OBVIOUS
  <2>2. s1 = Simd!Plus(f[1], Simd!Zero) /\ s2 = Simd!Plus(f[2], s1) /\ s3 = Simd!Plus(f[3], s2)
    OBVIOUS
  <2> HIDE DEF h, s1, s2, s3
  <2>3. \A k \in 0 .. 3 : h[k] = IF k = 0 THEN Simd!Zero ELSE Simd!Plus(f[k], h[k-1])
    <3> SUFFICES ASSUME NEW k \in 0 .. 3
                 PROVE  h[k] = IF k = 0 THEN Simd!Zero ELSE Simd!Plus(f[k], h[k-1])
      OBVIOUS
    <3>1. CASE k = 0
      BY <2>1, <3>1
    <3>2. CASE k = 1
      BY <2>1, <2>2, <3>2
    <3>3. CASE k = 2
      BY <2>1, <2>2, <3>3
    <3>4. CASE k = 3
      BY <2>1, <2>2, <3>4
    <3> QED
      BY <3>1, <3>2, <3>3, <3>4
  <2> QED
    BY <2>1, <2>3 DEF SumsOf
<1> HIDE DEF h
<1>4. \E g : SumsOf(g, f, c)
  BY <1>1, <1>3
<1>5. SumsOf(sum, f, c)
  BY <1>4
<1> HIDE DEF sum
<1>6. /\ sum[0] = Simd!Zero /\ sum[1] = Simd!Plus(f[1], sum[0])
      /\ sum[2] = Simd!Plus(f[2], sum[1]) /\ sum[3] = Simd!Plus(f[3], sum[2])
  BY <1>1, <1>5 DEF SumsOf
<1> QED
  BY <1>1, <1>2, <1>6

\* A sum of three numbers of which one is 0.
LEMMA SumOfTwo ==
  ASSUME NEW p \in Lowest, NEW q \in Lowest
  PROVE  /\ Simd!Plus(Simd!Zero, Simd!Plus(q, Simd!Plus(p, Simd!Zero))) = Simd!Plus(p, q)
         /\ Simd!Plus(q, Simd!Plus(Simd!Zero, Simd!Plus(p, Simd!Zero))) = Simd!Plus(p, q)
         /\ Simd!Plus(q, Simd!Plus(p, Simd!Plus(Simd!Zero, Simd!Zero))) = Simd!Plus(p, q)
<1>1. Simd!Zero = Simd!Whole(0)
  BY DEF Simd!Zero, Simd!Whole
<1>2. Simd!Zero \in Lowest
  BY <1>1, WholeLowest
<1>3. Simd!Plus(p, Simd!Zero) = p /\ Simd!Plus(Simd!Zero, p) = p /\ Simd!Plus(Simd!Zero, Simd!Zero) = Simd!Zero
  BY <1>2, ZeroPlus
<1>4. Simd!Plus(q, p) = Simd!Plus(p, q) /\ Simd!Plus(q, p) \in Lowest
  BY PlusSwapped, SumsLowest
<1>5. Simd!Plus(Simd!Zero, Simd!Plus(q, p)) = Simd!Plus(q, p)
  BY <1>4, ZeroPlus
<1> QED
  BY <1>3, <1>4, <1>5

TableOf(x, y, z, d) ==
    Simd!Plus(Simd!Times(d[3], Simd!Whole(z)),
              Simd!Plus(Simd!Times(d[2], Simd!Whole(y)),
                        Simd!Plus(Simd!Times(d[1], Simd!Whole(x)), Simd!Zero)))
Signed(negative, p) == IF negative THEN Simd!Neg(p) ELSE p

LEMMA TableOfTwo ==
  ASSUME NEW d \in [1 .. 3 -> Lowest], NEW e \in BOOLEAN, NEW f \in BOOLEAN
  PROVE  LET sign(negative) == IF negative THEN -1 ELSE 1
             u(a) == Signed(e, d[a])  v(a) == Signed(f, d[a])
         IN  /\ TableOf(sign(e), sign(f), 0, d) = Simd!Plus(u(1), v(2))
             /\ TableOf(sign(f), sign(e), 0, d) = Simd!Plus(u(2), v(1))
             /\ TableOf(sign(e), 0, sign(f), d) = Simd!Plus(u(1), v(3))
             /\ TableOf(0, sign(e), sign(f), d) = Simd!Plus(u(2), v(3))
<1> DEFINE sign(negative) == IF negative THEN -1 ELSE 1
           u(a) == Signed(e, d[a])  v(a) == Signed(f, d[a])
<1>1. ASSUME NEW a \in 1 .. 3
      PROVE  /\ u(a) \in Lowest /\ v(a) \in Lowest
             /\ Simd!Times(d[a], Simd!Whole(sign(e))) = u(a)
             /\ Simd!Times(d[a], Simd!Whole(sign(f))) = v(a)
             /\ Simd!Times(d[a], Simd!Whole(0)) = Simd!Zero
  <2>1. d[a] \in Lowest
    OBVIOUS
  <2>2. Simd!Neg(d[a]) \in Lowest
    BY <2>1, NegLowest
  <2>3. /\ Simd!Times(d[a], Simd!Whole(1)) = d[a]
        /\ Simd!Times(d[a], Simd!Whole(0)) = Simd!Zero
        /\ Simd!Times(d[a], Simd!Whole(-1)) = Simd!Neg(d[a])
    BY <2>1, TimesWhole
  <2> QED
    BY <2>1, <2>2, <2>3 DEF Signed
<1>2. 1 \in 1 .. 3 /\ 2 \in 1 .. 3 /\ 3 \in 1 .. 3
  OBVIOUS
<1> HIDE DEF sign, u, v
<1>3. TableOf(sign(e), sign(f), 0, d) = Simd!Plus(u(1), v(2))
  BY <1>1, <1>2, SumOfTwo DEF TableOf
<1>4. TableOf(sign(f), sign(e), 0, d) = Simd!Plus(u(2), v(1))
  <2>1. TableOf(sign(f), sign(e), 0, d) = Simd!Plus(v(1), u(2))
    BY <1>1, <1>2, SumOfTwo DEF TableOf
  <2> QED
    BY <1>1, <1>2, <2>1, PlusSwapped
<1>5. TableOf(sign(e), 0, sign(f), d) = Simd!Plus(u(1), v(3))
  BY <1>1, <1>2, SumOfTwo DEF TableOf
<1>6. TableOf(0, sign(e), sign(f), d) = Simd!Plus(u(2), v(3))
  BY <1>1, <1>2, SumOfTwo DEF TableOf
<1> QED
  BY <1>3, <1>4, <1>5, <1>6 DEF sign, u, v

LEMMA GradByTableIs ==
  ASSUME NEW hash \in 0 .. 15, NEW d
  PROVE  Simd!GradByTable(hash, d)
             = TableOf(Simd!X_GRAD[16 - hash], Simd!Y_GRAD[16 - hash], Simd!Z_GRAD[16 - hash], d)
<1> DEFINE f == [a \in 1 .. 3 |->
                    Simd!Times(d[a], Simd!Whole(<<Simd!X_GRAD, Simd!Y_GRAD, Simd!Z_GRAD>>[a][16 - hash]))]
<1>1. Simd!GradByTable(hash, d) = Simd!SumQ(f)
  BY DEF Simd!GradByTable
<1>2. /\ DOMAIN f = 1 .. 3
      /\ f[1] = Simd!Times(d[1], Simd!Whole(Simd!X_GRAD[16 - hash]))
      /\ f[2] = Simd!Times(d[2], Simd!Whole(Simd!Y_GRAD[16 - hash]))
      /\ f[3] = Simd!Times(d[3], Simd!Whole(Simd!Z_GRAD[16 - hash]))
  OBVIOUS
<1> HIDE DEF f
<1> QED
  BY <1>1, <1>2, SumOfThree DEF TableOf

LEMMA GradByBitsIs ==
  ASSUME NEW hash \in 0 .. 15, NEW d
  PROVE  LET e == hash % 2 = 1
             f == (hash \div 2) % 2 = 1
         IN  Simd!GradByBits(hash, d) =
                 IF hash \in {12, 14} THEN Simd!Plus(Signed(e, d[2]), Signed(f, d[1]))
                 ELSE IF hash \in {0, 1, 2, 3} THEN Simd!Plus(Signed(e, d[1]), Signed(f, d[2]))
                 ELSE IF hash < 8 THEN Simd!Plus(Signed(e, d[1]), Signed(f, d[3]))
                 ELSE Simd!Plus(Signed(e, d[2]), Signed(f, d[3]))
BY DEF Simd!GradByBits, Signed

LEMMA DirectionsAlike ==
  ASSUME NEW hash \in 0 .. 15, NEW d \in [1 .. 3 -> Lowest]
  PROVE  Simd!GradByTable(hash, d) = Simd!GradByBits(hash, d)
<1> DEFINE e == hash % 2 = 1
           f == (hash \div 2) % 2 = 1
           sign(negative) == IF negative THEN -1 ELSE 1
           x == Simd!X_GRAD[16 - hash]  y == Simd!Y_GRAD[16 - hash]  z == Simd!Z_GRAD[16 - hash]
<1>1. e \in BOOLEAN /\ f \in BOOLEAN
  OBVIOUS
<1>2. /\ TableOf(sign(e), sign(f), 0, d) = Simd!Plus(Signed(e, d[1]), Signed(f, d[2]))
      /\ TableOf(sign(f), sign(e), 0, d) = Simd!Plus(Signed(e, d[2]), Signed(f, d[1]))
      /\ TableOf(sign(e), 0, sign(f), d) = Simd!Plus(Signed(e, d[1]), Signed(f, d[3]))
      /\ TableOf(0, sign(e), sign(f), d) = Simd!Plus(Signed(e, d[2]), Signed(f, d[3]))
  <2> HIDE DEF e, f
  <2> QED
    BY <1>1, TableOfTwo
<1>3. Simd!GradByTable(hash, d) = TableOf(x, y, z, d)
  BY GradByTableIs
<1>4. Simd!GradByBits(hash, d) =
          IF hash \in {12, 14} THEN Simd!Plus(Signed(e, d[2]), Signed(f, d[1]))
          ELSE IF hash \in {0, 1, 2, 3} THEN Simd!Plus(Signed(e, d[1]), Signed(f, d[2]))
          ELSE IF hash < 8 THEN Simd!Plus(Signed(e, d[1]), Signed(f, d[3]))
          ELSE Simd!Plus(Signed(e, d[2]), Signed(f, d[3]))
  BY GradByBitsIs
<1>5. CASE hash \in {12, 14}
  <2>1. x = sign(f) /\ y = sign(e) /\ z = 0
    BY <1>5 DEF Simd!X_GRAD, Simd!Y_GRAD, Simd!Z_GRAD
  <2> HIDE DEF e, f, sign, x, y, z
  <2> QED
    BY <1>2, <1>3, <1>4, <1>5, <2>1
<1>6. CASE hash \in {0, 1, 2, 3}
  <2>1. x = sign(e) /\ y = sign(f) /\ z = 0
    BY <1>6 DEF Simd!X_GRAD, Simd!Y_GRAD, Simd!Z_GRAD
  <2> HIDE DEF e, f, sign, x, y, z
  <2> QED
    BY <1>2, <1>3, <1>4, <1>6, <2>1
<1>7. CASE hash \in {4, 5, 6, 7}
  <2>1. x = sign(e) /\ y = 0 /\ z = sign(f)
    BY <1>7 DEF Simd!X_GRAD, Simd!Y_GRAD, Simd!Z_GRAD
  <2> HIDE DEF e, f, sign, x, y, z
  <2> QED
    BY <1>2, <1>3, <1>4, <1>7, <2>1
<1>8. CASE hash \in {8, 9, 10, 11, 13, 15}
  <2>1. x = 0 /\ y = sign(e) /\ z = sign(f)
    BY <1>8 DEF Simd!X_GRAD, Simd!Y_GRAD, Simd!Z_GRAD
  <2> HIDE DEF e, f, sign, x, y, z
  <2> QED
    BY <1>2, <1>3, <1>4, <1>8, <2>1
<1> QED
  BY <1>5, <1>6, <1>7, <1>8

\* The greatest of some levels.
LEMMA GreatestLevel ==
  ASSUME NEW S, NEW n \in S, S \subseteq Nat, \A k \in S : k <= n
  PROVE  Simd!Max(S) = n
<1>1. \A k \in S : n >= k
  OBVIOUS
<1>2. \A k \in S : (\A i \in S : k >= i) => k = n
  BY <1>1
<1> QED
  BY <1>1, <1>2 DEF Simd!Max

LEMMA FastestIs ==
  ASSUME NEW ids \in Nat, NEW has
  PROVE  LET fits(l) == Simd!Needs[l+1] \subseteq has /\ ids >= <<0, 1, 1, 7, 7>>[l+1]
         IN  Simd!GetFastestSIMD([ids |-> ids, has |-> has]) = Simd!Max({l \in 0 .. 4 : fits(l)})
<1> DEFINE cpu == [ids |-> ids, has |-> has]
           g == Simd!GetFastestSIMD(cpu)
           fits(l) == Simd!Needs[l+1] \subseteq has /\ ids >= <<0, 1, 1, 7, 7>>[l+1]
           S == {l \in 0 .. 4 : fits(l)}
           sse2 == ids >= 1 /\ "SSE2" \in has
           sse41 == sse2 /\ "SSE41" \in has
           avx == "XSAVE" \in has /\ "OSXSAVE" \in has /\ "AVX" \in has /\ "ymm saved" \in has
           fma == "FMA" \in has /\ "AVX2" \in has
           zmm == "AVX512" \in has /\ "zmm saved" \in has
           avx2 == sse41 /\ ids >= 7 /\ avx /\ fma
           avx512 == avx2 /\ zmm
<1>1. fits(0)
  BY DEF Simd!Needs
<1>2. fits(1) <=> sse2
  BY DEF Simd!Needs
<1>3. fits(2) <=> sse41
  BY DEF Simd!Needs
<1>4. fits(3) <=> avx2
  <2>1. Simd!Needs[3+1] \subseteq has <=> "SSE2" \in has /\ "SSE41" \in has /\ avx /\ fma
    <3>1. Simd!Needs[3+1] = {"SSE2", "SSE41", "XSAVE", "OSXSAVE", "AVX", "ymm saved", "FMA", "AVX2"}
      BY DEF Simd!Needs
    <3> QED
      BY <3>1
  <2>2. <<0, 1, 1, 7, 7>>[3+1] = 7
    OBVIOUS
  <2>3. ids >= 7 => ids >= 1
    OBVIOUS
  <2> HIDE DEF avx, fma
  <2> QED
    BY <2>1, <2>2, <2>3
<1>5. fits(4) <=> avx512
  <2>1. Simd!Needs[4+1] \subseteq has <=> "SSE2" \in has /\ "SSE41" \in has /\ avx /\ fma /\ zmm
    <3>1. Simd!Needs[4+1] = {"SSE2", "SSE41", "XSAVE", "OSXSAVE", "AVX", "ymm saved", "FMA", "AVX2",
                             "AVX512", "zmm saved"}
      BY DEF Simd!Needs
    <3> QED
      BY <3>1
  <2>2. <<0, 1, 1, 7, 7>>[4+1] = 7
    OBVIOUS
  <2>3. ids >= 7 => ids >= 1
    OBVIOUS
  <2> HIDE DEF avx, fma, zmm
  <2> QED
    BY <2>1, <2>2, <2>3
<1>6. g = IF ~sse2 THEN 0 ELSE IF ~sse41 THEN 1 ELSE IF ~avx2 THEN 2 ELSE IF ~avx512 THEN 3 ELSE 4
  <2>1. cpu.ids = ids /\ cpu.has = has
    OBVIOUS
  <2>2. /\ {"XSAVE", "OSXSAVE", "AVX", "ymm saved"} \subseteq has <=> avx
        /\ {"FMA", "AVX2"} \subseteq has <=> fma
        /\ {"AVX512", "zmm saved"} \subseteq has <=> zmm
    OBVIOUS
  <2>3. g = IF ids < 1 \/ "SSE2" \notin has THEN 0
            ELSE IF "SSE41" \notin has THEN 1
            ELSE IF ~({"XSAVE", "OSXSAVE", "AVX", "ymm saved"} \subseteq has) THEN 2
            ELSE IF ids < 7 \/ ~({"FMA", "AVX2"} \subseteq has) THEN 2
            ELSE IF ~({"AVX512", "zmm saved"} \subseteq has) THEN 3
            ELSE 4
    <3> HIDE DEF cpu
    <3> QED
      BY <2>1 DEF Simd!GetFastestSIMD, Simd!FN_NO_SIMD_FALLBACK, Simd!FN_SSE2, Simd!FN_SSE41,
                  Simd!FN_AVX2, Simd!FN_AVX512
  <2>4. (ids < 1 <=> ~(ids >= 1)) /\ (ids < 7 <=> ~(ids >= 7))
    OBVIOUS
  <2> HIDE DEF g, avx, fma, zmm
  <2> QED
    BY <2>2, <2>3, <2>4
<1>7. (avx512 => avx2) /\ (avx2 => sse41) /\ (sse41 => sse2)
  OBVIOUS
<1> HIDE DEF g, fits, sse2, sse41, avx, fma, zmm, avx2, avx512
<1>8. g \in S /\ \A k \in S : k <= g
  <2>1. g \in 0 .. 4
    BY <1>6
  <2>2. fits(g)
    BY <1>1, <1>2, <1>3, <1>4, <1>5, <1>6
  <2>3. ASSUME NEW k \in 0 .. 4, fits(k) PROVE k <= g
    <3>1. CASE k = 0
      BY <2>1, <3>1
    <3>2. CASE k = 1
      BY <1>2, <1>6, <1>7, <2>3, <3>2
    <3>3. CASE k = 2
      BY <1>3, <1>6, <1>7, <2>3, <3>3
    <3>4. CASE k = 3
      BY <1>4, <1>6, <1>7, <2>3, <3>4
    <3>5. CASE k = 4
      BY <1>5, <1>6, <1>7, <2>3, <3>5
    <3> QED
      BY <3>1, <3>2, <3>3, <3>4, <3>5
  <2> QED
    BY <2>1, <2>2, <2>3
<1>9. S \subseteq Nat
  OBVIOUS
<1> HIDE DEF S
<1>10. Simd!Max(S) = g
  BY <1>8, <1>9, GreatestLevel
<1> QED
  BY <1>10 DEF S, g, fits

\* Fractions, not all of them in lowest terms.
Fractions == Int \X (Nat \ {0})

\* The two libraries, and the instruction sets of one, compute alike whatever the
\* numbers: the polynomials of interpolation for all fractions in lowest terms
\* (InterpQuintic and CubicLerp, with their products and sums in another order),
\* the corners of a simplex for all distances, with every tie (branches, masks or
\* a table of ranks, from the greatest distance to the least), rounding down by
\* every instruction set, the directions of all hashes from the tables or from
\* their bits; and the instruction set that is found is the greatest that fits,
\* whatever a processor has.
THEOREM ComputedAlike ==
  /\ \A t \in Lowest :
        /\ Simd!InterpQuintic(t) = Fast!InterpQuinticFunc(t)
        /\ \A p, q, r, s \in Lowest : Simd!CubicLerp(p, q, r, s, t) = Fast!CubicLerp(p, q, r, s, t)
  /\ \A d \in [1 .. 3 -> Fractions] :
        Simd!MaskedSteps(d) = Fast!Steps3(d) /\ Fast!InOrder(d, Fast!Steps3(d))
  /\ \A d \in [1 .. 4 -> Fractions] : Fast!InOrder(d, Fast!Steps4(d))
  /\ \A l \in Simd!FN_NO_SIMD_FALLBACK .. Simd!FN_AVX512, n \in Int, d \in Nat \ {0} :
        Simd!FloorOf(l, Simd!Q(n, d)) = n \div d
  /\ \A hash \in 0 .. 15, d \in [1 .. 3 -> Lowest] :
        Simd!GradByTable(hash, d) = Simd!GradByBits(hash, d)
  /\ \A ids \in Nat, has \in SUBSET STRING :
        LET fits(l) == Simd!Needs[l+1] \subseteq has /\ ids >= <<0, 1, 1, 7, 7>>[l+1]
        IN  Simd!GetFastestSIMD([ids |-> ids, has |-> has]) = Simd!Max({l \in 0 .. 4 : fits(l)})
<1>1. ASSUME NEW t \in Lowest
      PROVE  /\ Simd!InterpQuintic(t) = Fast!InterpQuinticFunc(t)
             /\ \A p, q, r, s \in Lowest :
                   Simd!CubicLerp(p, q, r, s, t) = Fast!CubicLerp(p, q, r, s, t)
  BY QuinticAlike, CubicLerpAlike
<1>2. ASSUME NEW d \in [1 .. 3 -> Fractions]
      PROVE  Simd!MaskedSteps(d) = Fast!Steps3(d) /\ Fast!InOrder(d, Fast!Steps3(d))
  <2>1. d \in [1 .. 3 -> Int \X (Nat \ {0})]
    BY DEF Fractions
  <2> QED
    BY <2>1, MasksAlike, Steps3InOrder
<1>3. ASSUME NEW d \in [1 .. 4 -> Fractions] PROVE Fast!InOrder(d, Fast!Steps4(d))
  <2>1. d \in [1 .. 4 -> Int \X (Nat \ {0})]
    BY DEF Fractions
  <2> QED
    BY <2>1, Steps4InOrder
<1>4. ASSUME NEW l \in Simd!FN_NO_SIMD_FALLBACK .. Simd!FN_AVX512, NEW n \in Int, NEW d \in Nat \ {0}
      PROVE  Simd!FloorOf(l, Simd!Q(n, d)) = n \div d
  <2>1. d \in Nat /\ d > 0
    OBVIOUS
  <2>2. Simd!Q(n, d)[1] \div Simd!Q(n, d)[2] = n \div d /\ Positive(Simd!Q(n, d))
    BY <2>1, SameFloor
  <2> QED
    BY <2>2, FloorsAlike
<1>5. ASSUME NEW hash \in 0 .. 15, NEW d \in [1 .. 3 -> Lowest]
      PROVE  Simd!GradByTable(hash, d) = Simd!GradByBits(hash, d)
  BY DirectionsAlike
<1>6. ASSUME NEW ids \in Nat, NEW has \in SUBSET STRING
      PROVE  LET fits(l) == Simd!Needs[l+1] \subseteq has /\ ids >= <<0, 1, 1, 7, 7>>[l+1]
             IN  Simd!GetFastestSIMD([ids |-> ids, has |-> has]) = Simd!Max({l \in 0 .. 4 : fits(l)})
  BY FastestIs
<1> QED
  BY <1>1, <1>2, <1>3, <1>4, <1>5, <1>6

\* What TLC looks at for some numbers and processors.
LEMMA TablesAlike ==
  TablesAgree
<1>1. Z \in Lowest /\ I \in Lowest /\ J \in Lowest
  <2>1. Z = Simd!Whole(0) /\ I = Simd!Whole(1) /\ J = Simd!Whole(-1)
    BY DEF Z, I, J, Simd!Whole
  <2> QED
    BY <2>1, WholeLowest
<1>2. HALF \in Lowest /\ <<1, 4>> \in Lowest /\ <<1, 3>> \in Lowest /\ <<4, 5>> \in Lowest
  <2>1. /\ 1 * 1 + 2 * 0 = 1 /\ 1 * 1 + 4 * 0 = 1 /\ 1 * 1 + 3 * 0 = 1 /\ 4 * (-1) + 5 * 1 = 1
        /\ 1 \in Int /\ 0 \in Int /\ -1 \in Int
    OBVIOUS
  <2>2. Coprime(1, 2) /\ Coprime(1, 4) /\ Coprime(1, 3) /\ Coprime(4, 5)
    BY <2>1 DEF Coprime
  <2> QED
    BY <2>2 DEF HALF, Lowest
<1>3. Fast!SimplicesInOrder
  <2>1. {Fast!Zero, Fast!Half, Fast!One} \subseteq Fractions
    BY DEF Fast!Zero, Fast!Half, Fast!One, Fractions
  <2>2. {Fast!Zero, <<1, 4>>, Fast!Half, Fast!One} \subseteq Fractions
    BY DEF Fast!Zero, Fast!Half, Fast!One, Fractions
  <2>3. /\ \A d \in [1 .. 3 -> {Fast!Zero, Fast!Half, Fast!One}] : d \in [1 .. 3 -> Fractions]
        /\ \A d \in [1 .. 4 -> {Fast!Zero, <<1, 4>>, Fast!Half, Fast!One}] : d \in [1 .. 4 -> Fractions]
    BY <2>1, <2>2
  <2> QED
    BY <2>3, ComputedAlike DEF Fast!SimplicesInOrder
<1>4. \A d \in [1 .. 3 -> {Z, HALF, I}] : Simd!MaskedSteps(d) = Fast!Steps3(d)
  <2>1. {Z, HALF, I} \subseteq Fractions
    BY DEF Z, HALF, I, Fractions
  <2>2. \A d \in [1 .. 3 -> {Z, HALF, I}] : d \in [1 .. 3 -> Fractions]
    BY <2>1
  <2> QED
    BY <2>2, ComputedAlike
<1>5. \A t \in {Z, <<1, 4>>, <<1, 3>>, HALF, <<4, 5>>, I} :
         /\ Simd!InterpQuintic(t) = Fast!InterpQuinticFunc(t)
         /\ \A p, q, r, s \in {J, Z, HALF} :
               Simd!CubicLerp(p, q, r, s, t) = Fast!CubicLerp(p, q, r, s, t)
  <2>1. \A t \in {Z, <<1, 4>>, <<1, 3>>, HALF, <<4, 5>>, I} : t \in Lowest
    BY <1>1, <1>2
  <2>2. \A p \in {J, Z, HALF} : p \in Lowest
    BY <1>1, <1>2
  <2> QED
    BY <2>1, <2>2, QuinticAlike, CubicLerpAlike
<1>6. Simd!LevelsAgree
  <2>1. ASSUME NEW l \in Simd!FN_NO_SIMD_FALLBACK .. Simd!FN_AVX512, NEW n \in -9 .. 9, NEW d \in 1 .. 4
        PROVE  Simd!FloorOf(l, Simd!Q(n, d)) = n \div d
    <3>1. n \in Int /\ d \in Nat \ {0}
      OBVIOUS
    <3> QED
      BY <3>1, ComputedAlike
  <2>2. ASSUME NEW hash \in 0 .. 15, NEW d \in [1 .. 3 -> {Simd!Whole(-2), Simd!One, Simd!Whole(3)}]
        PROVE  Simd!GradByTable(hash, d) = Simd!GradByBits(hash, d)
    <3>1. Simd!One = Simd!Whole(1) /\ -2 \in Int /\ 1 \in Int /\ 3 \in Int
      BY DEF Simd!One, Simd!Whole
    <3>2. Simd!Whole(-2) \in Lowest /\ Simd!One \in Lowest /\ Simd!Whole(3) \in Lowest
      BY <3>1, WholeLowest
    <3>3. d \in [1 .. 3 -> Lowest]
      BY <3>2
    <3> QED
      BY <3>3, DirectionsAlike
  <2> QED
    BY <2>1, <2>2 DEF Simd!LevelsAgree
<1>7. Simd!FastestFits
  <2>1. ASSUME NEW ids \in {0, 1, 7}, NEW has \in SUBSET Simd!Needs[5]
        PROVE  LET fits(l) == Simd!Needs[l+1] \subseteq has /\ ids >= <<0, 1, 1, 7, 7>>[l+1]
               IN  Simd!GetFastestSIMD([ids |-> ids, has |-> has]) = Simd!Max({l \in 0 .. 4 : fits(l)})
    <3>1. ids \in Nat
      OBVIOUS
    <3> QED
      BY <3>1, FastestIs
  <2> QED
    BY <2>1 DEF Simd!FastestFits
<1> QED
  BY <1>3, <1>4, <1>5, <1>6, <1>7 DEF TablesAgree

\* Before an instruction set is chosen, and whatever follows: what TLC looks at in
\* a state without one holds in every state.
THEOREM TablesAgreeCorrect == Spec => []TablesAgree
BY TablesAlike, PTL

-----------------------------------------------------------------------------
(* Interpolation, which leads from one number to the next.                  *)

LEMMA WholeIs ==
  ASSUME NEW n \in Int
  PROVE  Is(Simd!Whole(n), n, 1)
<1>1. Simd!Whole(n)[1] = n /\ Simd!Whole(n)[2] = 1
  BY DEF Simd!Whole
<1> QED
  BY <1>1, WholeLowest, IsItself

LEMMA WholeSums ==
  ASSUME NEW a \in Int, NEW b \in Int
  PROVE  /\ Simd!Plus(Simd!Whole(a), Simd!Whole(b)) = Simd!Whole(a + b)
         /\ Simd!Minus(Simd!Whole(a), Simd!Whole(b)) = Simd!Whole(a - b)
<1>1. ASSUME NEW c \in Int PROVE Simd!Plus(Simd!Whole(a), Simd!Whole(c)) = Simd!Whole(a + c)
  <2>1. Is(Simd!Plus(Simd!Whole(a), Simd!Whole(c)), a * 1 + c * 1, 1 * 1)
    BY WholeIs, IsPlus
  <2>2. a * 1 + c * 1 = a + c /\ 1 * 1 = 1 /\ a + c \in Int
    OBVIOUS
  <2>3. Is(Simd!Plus(Simd!Whole(a), Simd!Whole(c)), a + c, 1)
    BY <2>1, <2>2
  <2>4. Is(Simd!Whole(a + c), a + c, 1)
    BY <2>2, WholeIs
  <2> QED
    BY <2>2, <2>3, <2>4, IsSame
<1>2. Simd!Neg(Simd!Whole(b)) = Simd!Whole(-b) /\ -b \in Int /\ a + (-b) = a - b
  BY DEF Simd!Neg, Simd!Whole
<1> QED
  BY <1>1, <1>2 DEF Simd!Minus

LEMMA ZeroAndOne ==
  /\ Simd!Zero = Simd!Whole(0) /\ Simd!One = Simd!Whole(1)
  /\ Simd!Zero \in Lowest /\ Simd!One \in Lowest
<1>1. Simd!Zero = Simd!Whole(0) /\ Simd!One = Simd!Whole(1)
  BY DEF Simd!Zero, Simd!One, Simd!Whole
<1> QED
  BY <1>1, WholeLowest

LEMMA ByZeroAndOne ==
  ASSUME NEW p \in Lowest
  PROVE  /\ Simd!Times(p, Simd!Zero) = Simd!Zero /\ Simd!Times(Simd!Zero, p) = Simd!Zero
         /\ Simd!Times(p, Simd!One) = p /\ Simd!Times(Simd!One, p) = p
<1>1. Simd!Times(p, Simd!Zero) = Simd!Zero /\ Simd!Times(p, Simd!One) = p
  BY ZeroAndOne, TimesWhole
<1>2. /\ Simd!Times(Simd!Zero, p) = Simd!Times(p, Simd!Zero)
      /\ Simd!Times(Simd!One, p) = Simd!Times(p, Simd!One)
  BY ZeroAndOne, TimesSwapped
<1> QED
  BY <1>1, <1>2

LEMMA MinusItself ==
  ASSUME NEW p \in Lowest
  PROVE  Simd!Minus(p, p) = Simd!Zero
<1> DEFINE a == p[1]  b == p[2]
<1>1. a \in Int /\ b \in Nat /\ b > 0 /\ Is(p, a, b)
  BY LowestTyped, IsItself
<1>2. Is(Simd!Neg(p), -a, b)
  <2>1. Simd!Neg(p)[1] = -a /\ Simd!Neg(p)[2] = b
    BY DEF Simd!Neg
  <2> QED
    BY <2>1, NegLowest, IsItself
<1> HIDE DEF a, b
<1>3. -a \in Int /\ a * b + (-a) * b = 0 /\ b * b \in Nat /\ b * b > 0
  BY <1>1, ProductPositive
<1>4. Is(Simd!Minus(p, p), a * b + (-a) * b, b * b)
  BY <1>1, <1>2, <1>3, IsPlus DEF Simd!Minus
<1> DEFINE k == b * b
<1>5. Is(Simd!Minus(p, p), 0, k) /\ k \in Nat /\ k > 0
  BY <1>3, <1>4
<1>6. Is(Simd!Zero, 0, 1)
  BY ZeroAndOne, WholeIs
<1> HIDE DEF k
<1>7. 0 * 1 = 0 * k
  BY <1>5
<1> QED
  BY <1>5, <1>6, <1>7, IsSame

\* The way from one number to another leads there.
LEMMA PlusWay ==
  ASSUME NEW p \in Lowest, NEW q \in Lowest
  PROVE  Simd!Plus(p, Simd!Minus(q, p)) = q
<1> DEFINE n == Simd!Neg(p)
<1>1. n \in Lowest
  BY NegLowest
<1>2. Simd!Minus(q, p) = Simd!Plus(q, n) /\ Simd!Plus(p, n) = Simd!Zero
  BY MinusItself DEF Simd!Minus
<1> HIDE DEF n
<1>3. Simd!Plus(q, n) \in Lowest
  BY <1>1, SumsLowest
<1>4. Simd!Plus(p, Simd!Plus(q, n)) = Simd!Plus(Simd!Plus(q, n), p)
  BY <1>3, PlusSwapped
<1>5. Simd!Plus(Simd!Plus(q, n), p) = Simd!Plus(q, Simd!Plus(n, p))
  BY <1>1, PlusGrouped
<1>6. Simd!Plus(n, p) = Simd!Zero
  BY <1>1, <1>2, PlusSwapped
<1> QED
  BY <1>2, <1>4, <1>5, <1>6, ZeroPlus

LEMMA LerpEnds ==
  ASSUME NEW p \in Lowest, NEW q \in Lowest
  PROVE  Simd!Lerp(p, q, Simd!Zero) = p /\ Simd!Lerp(p, q, Simd!One) = q
<1>1. Simd!Minus(q, p) \in Lowest
  BY MinusLowest
<1>2. /\ Simd!Times(Simd!Zero, Simd!Minus(q, p)) = Simd!Zero
      /\ Simd!Times(Simd!One, Simd!Minus(q, p)) = Simd!Minus(q, p)
  BY <1>1, ByZeroAndOne
<1> QED
  BY <1>2, PlusWay, ZeroPlus DEF Simd!Lerp

LEMMA LerpLowest ==
  ASSUME NEW p \in Lowest, NEW q \in Lowest, NEW t \in Lowest
  PROVE  Simd!Lerp(p, q, t) \in Lowest
<1>1. Simd!Minus(q, p) \in Lowest
  BY MinusLowest
<1>2. Simd!Times(t, Simd!Minus(q, p)) \in Lowest
  BY <1>1, SumsLowest
<1> QED
  BY <1>2, SumsLowest DEF Simd!Lerp

LEMMA CubicLerpLowest ==
  ASSUME NEW p \in Lowest, NEW q \in Lowest, NEW r \in Lowest, NEW s \in Lowest, NEW t \in Lowest
  PROVE  Simd!CubicLerp(p, q, r, s, t) \in Lowest
<1> DEFINE w == Simd!Minus(Simd!Minus(s, r), Simd!Minus(p, q))
           v == Simd!Minus(Simd!Minus(p, q), w)
           u == Simd!Minus(r, p)
<1>1. w \in Lowest /\ v \in Lowest /\ u \in Lowest
  BY MinusLowest
<1>2. Simd!CubicLerp(p, q, r, s, t)
          = Simd!Plus(Simd!Times(t, Simd!Times(t, Simd!Times(t, w))),
                      Simd!Plus(Simd!Times(t, Simd!Times(t, v)), Simd!Plus(Simd!Times(t, u), q)))
  BY DEF Simd!CubicLerp
<1> HIDE DEF w, v, u
<1> QED
  BY <1>1, <1>2, SumsLowest

LEMMA CubicLerpEnds ==
  ASSUME NEW p \in Lowest, NEW q \in Lowest, NEW r \in Lowest, NEW s \in Lowest
  PROVE  /\ Simd!CubicLerp(p, q, r, s, Simd!Zero) = q
         /\ Simd!CubicLerp(p, q, r, s, Simd!One) = r
<1> DEFINE d == Simd!Minus(p, q)
           w == Simd!Minus(Simd!Minus(s, r), d)
           v == Simd!Minus(d, w)
           u == Simd!Minus(r, p)
           at(t) == Simd!Plus(Simd!Times(t, Simd!Times(t, Simd!Times(t, w))),
                              Simd!Plus(Simd!Times(t, Simd!Times(t, v)), Simd!Plus(Simd!Times(t, u), q)))
<1>1. d \in Lowest /\ w \in Lowest /\ v \in Lowest /\ u \in Lowest
  BY MinusLowest
<1>2. Simd!CubicLerp(p, q, r, s, Simd!Zero) = at(Simd!Zero) /\ Simd!CubicLerp(p, q, r, s, Simd!One) = at(Simd!One)
  BY DEF Simd!CubicLerp
<1>3. Simd!Plus(w, v) = d
  <2> HIDE DEF d, w
  <2> QED
    BY <1>1, PlusWay
<1>4. Simd!Plus(q, d) = p
  BY PlusWay
<1>5. Simd!Plus(p, u) = r
  BY PlusWay
<1> HIDE DEF d, w, v, u
<1>6. at(Simd!Zero) = q
  BY <1>1, ByZeroAndOne, ZeroAndOne, ZeroPlus
<1> DEFINE x == Simd!Plus(u, q)
<1>7. at(Simd!One) = Simd!Plus(w, Simd!Plus(v, x))
  BY <1>1, ByZeroAndOne
<1>8. x \in Lowest
  BY <1>1, SumsLowest
<1>9. Simd!Plus(d, x) = r
  <2>1. Simd!Plus(x, d) = Simd!Plus(u, Simd!Plus(q, d))
    BY <1>1, PlusGrouped
  <2>2. Simd!Plus(u, p) = r
    BY <1>1, <1>5, PlusSwapped
  <2> HIDE DEF x
  <2> QED
    BY <1>1, <1>4, <1>8, <2>1, <2>2, PlusSwapped
<1> HIDE DEF x
<1>10. Simd!Plus(w, Simd!Plus(v, x)) = Simd!Plus(Simd!Plus(w, v), x)
  BY <1>1, <1>8, PlusGrouped
<1> QED
  BY <1>2, <1>3, <1>6, <1>7, <1>9, <1>10

\* The weight of a distance, by the way in which it is smoothed.
Weight(how, t) ==
    CASE how = "Linear" -> t
      [] how = "Hermite" -> Simd!Times(Simd!Times(t, t),
                                       Simd!Minus(Simd!Whole(3), Simd!Times(Simd!Whole(2), t)))
      [] how = "Quintic" -> Simd!InterpQuintic(t)

LEMMA WeightIs ==
  ASSUME NEW how \in Fast!Interps, NEW t \in Lowest
  PROVE  Weight(how, t) \in Lowest
<1>1. ASSUME NEW n \in Int PROVE Simd!Whole(n) \in Lowest
  BY <1>1, WholeLowest
<1>2. Simd!Whole(2) \in Lowest /\ Simd!Whole(3) \in Lowest /\ Simd!Whole(6) \in Lowest
      /\ Simd!Whole(15) \in Lowest /\ Simd!Whole(10) \in Lowest
  BY <1>1
<1>3. CASE how = "Linear"
  BY <1>3 DEF Weight
<1>4. CASE how = "Hermite"
  <2>1. Simd!Minus(Simd!Whole(3), Simd!Times(Simd!Whole(2), t)) \in Lowest
    BY <1>2, SumsLowest, MinusLowest
  <2> QED
    BY <1>4, <2>1, SumsLowest DEF Weight
<1>5. CASE how = "Quintic"
  <2> DEFINE s == Simd!Minus(Simd!Times(t, Simd!Whole(6)), Simd!Whole(15))
             r == Simd!Plus(Simd!Times(s, t), Simd!Whole(10))
  <2>1. s \in Lowest
    BY <1>2, SumsLowest, MinusLowest
  <2> HIDE DEF s
  <2>2. r \in Lowest
    BY <1>2, <2>1, SumsLowest
  <2>3. Simd!InterpQuintic(t) = Simd!Times(Simd!Times(Simd!Times(r, t), t), t)
    BY DEF Simd!InterpQuintic, s
  <2> HIDE DEF r
  <2>4. Simd!InterpQuintic(t) \in Lowest
    BY <2>2, <2>3, SumsLowest
  <2> QED
    BY <1>5, <2>4 DEF Weight
<1> QED
  BY <1>3, <1>4, <1>5 DEF Fast!Interps

LEMMA WeightEnds ==
  ASSUME NEW how \in Fast!Interps
  PROVE  Weight(how, Simd!Zero) = Simd!Zero /\ Weight(how, Simd!One) = Simd!One
<1>1. /\ Simd!Whole(2) \in Lowest /\ Simd!Whole(3) \in Lowest /\ Simd!Whole(6) \in Lowest
      /\ Simd!Whole(15) \in Lowest /\ Simd!Whole(10) \in Lowest /\ Simd!Whole(-9) \in Lowest
  BY WholeLowest
<1>2. CASE how = "Linear"
  BY <1>2 DEF Weight
<1>3. CASE how = "Hermite"
  <2>1. Simd!Minus(Simd!Whole(3), Simd!Whole(2)) = Simd!One
    <3>1. 3 \in Int /\ 2 \in Int /\ 3 - 2 = 1
      OBVIOUS
    <3> QED
      BY <3>1, WholeSums, ZeroAndOne
  <2>2. Weight(how, Simd!One) = Simd!One
    BY <1>1, <1>3, <2>1, ByZeroAndOne, ZeroAndOne DEF Weight
  <2>3. Simd!Minus(Simd!Whole(3), Simd!Times(Simd!Whole(2), Simd!Zero)) \in Lowest
    BY <1>1, ZeroAndOne, SumsLowest, MinusLowest
  <2>4. Weight(how, Simd!Zero) = Simd!Zero
    BY <1>3, <2>3, ByZeroAndOne, ZeroAndOne DEF Weight
  <2> QED
    BY <2>2, <2>4
<1>4. CASE how = "Quintic"
  <2> DEFINE r(t) == Simd!Plus(Simd!Times(Simd!Minus(Simd!Times(t, Simd!Whole(6)), Simd!Whole(15)), t),
                               Simd!Whole(10))
  <2>1. \A t : Weight(how, t) = Simd!Times(Simd!Times(Simd!Times(r(t), t), t), t)
    BY <1>4 DEF Weight, Simd!InterpQuintic
  <2>2. r(Simd!Zero) \in Lowest
    BY <1>1, ZeroAndOne, SumsLowest, MinusLowest
  <2>3. r(Simd!One) = Simd!One
    <3>1. 6 \in Int /\ 15 \in Int /\ 10 \in Int /\ -9 \in Int /\ 6 - 15 = -9 /\ -9 + 10 = 1
      OBVIOUS
    <3>2. /\ Simd!Minus(Simd!Whole(6), Simd!Whole(15)) = Simd!Whole(-9)
          /\ Simd!Plus(Simd!Whole(-9), Simd!Whole(10)) = Simd!Whole(1)
      BY <3>1, WholeSums
    <3>3. Simd!Times(Simd!One, Simd!Whole(6)) = Simd!Whole(6)
      BY <1>1, ByZeroAndOne
    <3>4. Simd!Times(Simd!Whole(-9), Simd!One) = Simd!Whole(-9)
      BY <1>1, ByZeroAndOne
    <3> QED
      BY <3>2, <3>3, <3>4, ZeroAndOne
  <2> HIDE DEF r
  <2>4. Weight(how, Simd!Zero) = Simd!Zero
    <3>1. Simd!Times(r(Simd!Zero), Simd!Zero) = Simd!Zero
      BY <2>2, ByZeroAndOne
    <3> QED
      BY <2>1, <3>1, ByZeroAndOne, ZeroAndOne
  <2>5. Weight(how, Simd!One) = Simd!One
    BY <2>1, <2>3, ByZeroAndOne, ZeroAndOne
  <2> QED
    BY <2>4, <2>5
<1> QED
  BY <1>2, <1>3, <1>4 DEF Fast!Interps

\* Between the numbers of the points along an axis, c being the point below.
Hows == Fast!Interps \cup {"Cubic"}
On(how, f, c, p) ==
    LET t == Simd!Minus(p, Simd!Whole(c))
    IN  IF how = "Cubic" THEN Simd!CubicLerp(f[c-1], f[c], f[c+1], f[c+2], t)
        ELSE Simd!Lerp(f[c], f[c+1], Weight(how, t))

\* On the axis a position is in a cell, or at its border.
In(c, p) == c \in Int /\ Simd!Leq(Simd!Whole(c), p) /\ Simd!Leq(p, Simd!Whole(c+1))

LEMMA OnLowest ==
  ASSUME NEW how \in Hows, NEW f \in [Int -> Lowest], NEW c \in Int, NEW p \in Lowest
  PROVE  On(how, f, c, p) \in Lowest
<1> DEFINE t == Simd!Minus(p, Simd!Whole(c))
<1>1. t \in Lowest
  BY WholeLowest, MinusLowest
<1>2. f[c-1] \in Lowest /\ f[c] \in Lowest /\ f[c+1] \in Lowest /\ f[c+2] \in Lowest
  OBVIOUS
<1>3. On(how, f, c, p) = IF how = "Cubic" THEN Simd!CubicLerp(f[c-1], f[c], f[c+1], f[c+2], t)
                         ELSE Simd!Lerp(f[c], f[c+1], Weight(how, t))
  BY DEF On
<1> HIDE DEF t
<1>4. how # "Cubic" => how \in Fast!Interps
  BY DEF Hows
<1> QED
  BY <1>1, <1>2, <1>3, <1>4, WeightIs, LerpLowest, CubicLerpLowest

LEMMA OnEnds ==
  ASSUME NEW how \in Hows, NEW f \in [Int -> Lowest], NEW c \in Int
  PROVE  On(how, f, c, Simd!Whole(c)) = f[c] /\ On(how, f, c, Simd!Whole(c+1)) = f[c+1]
<1>1. Simd!Minus(Simd!Whole(c), Simd!Whole(c)) = Simd!Zero
  BY WholeLowest, MinusItself
<1>2. Simd!Minus(Simd!Whole(c+1), Simd!Whole(c)) = Simd!One
  <2>1. c + 1 \in Int /\ (c + 1) - c = 1
    OBVIOUS
  <2> QED
    BY <2>1, WholeSums, ZeroAndOne
<1>3. f[c-1] \in Lowest /\ f[c] \in Lowest /\ f[c+1] \in Lowest /\ f[c+2] \in Lowest
  OBVIOUS
<1>4. how # "Cubic" => how \in Fast!Interps
  BY DEF Hows
<1>5. On(how, f, c, Simd!Whole(c)) =
          IF how = "Cubic" THEN Simd!CubicLerp(f[c-1], f[c], f[c+1], f[c+2], Simd!Zero)
          ELSE Simd!Lerp(f[c], f[c+1], Weight(how, Simd!Zero))
  BY <1>1 DEF On
<1>6. On(how, f, c, Simd!Whole(c+1)) =
          IF how = "Cubic" THEN Simd!CubicLerp(f[c-1], f[c], f[c+1], f[c+2], Simd!One)
          ELSE Simd!Lerp(f[c], f[c+1], Weight(how, Simd!One))
  BY <1>2 DEF On
<1> QED
  BY <1>3, <1>4, <1>5, <1>6, WeightEnds, LerpEnds, CubicLerpEnds

\* In two cells is a position only where they meet.
LEMMA InTwo ==
  ASSUME NEW p \in Lowest, NEW c, NEW d, In(c, p), In(d, p)
  PROVE  c = d \/ (d = c + 1 /\ p = Simd!Whole(d)) \/ (c = d + 1 /\ p = Simd!Whole(c))
<1> DEFINE a == p[1]  b == p[2]
<1>1. a \in Int /\ b \in Nat /\ b > 0 /\ c \in Int /\ d \in Int
  BY LowestTyped DEF In
<1>2. c * b <= a * 1 /\ a * 1 <= (c + 1) * b /\ d * b <= a * 1 /\ a * 1 <= (d + 1) * b
  BY DEF In, Simd!Leq, Simd!Whole
<1>3. ASSUME NEW n \in Int, a = n * b PROVE p = Simd!Whole(n)
  <2>1. Simd!Whole(n) \in Lowest /\ Simd!Whole(n)[1] = n /\ Simd!Whole(n)[2] = 1
    BY WholeLowest DEF Simd!Whole
  <2>2. p[1] * 1 = n * p[2]
    BY <1>1, <1>3
  <2> QED
    BY <2>1, <2>2, LowestSame
<1> HIDE DEF a, b
<1>4. ASSUME NEW i \in Int, NEW j \in Int, i <= j PROVE i * b <= j * b
  BY <1>1, <1>4
<1>5. ASSUME NEW i \in Int PROVE i * b < (i + 1) * b
  <2>1. (i + 1) * b = i * b + b /\ i * b \in Int
    BY <1>1
  <2> DEFINE k == i * b
  <2>2. k < k + b
    BY <1>1, <2>1
  <2> QED
    BY <2>1, <2>2
<1>6. ASSUME NEW i \in Int, NEW j \in Int, i * b <= a * 1, a * 1 <= (i + 1) * b,
             j * b <= a * 1, a * 1 <= (j + 1) * b, i < j
      PROVE  j = i + 1 /\ a = j * b
  <2>1. ~(i + 2 <= j)
    <3> SUFFICES ASSUME i + 2 <= j PROVE FALSE
      OBVIOUS
    <3>1. ((i + 1) + 1) * b <= j * b
      BY <1>4
    <3>2. (i + 1) * b < ((i + 1) + 1) * b
      BY <1>5
    <3> DEFINE x == (i + 1) * b  y == ((i + 1) + 1) * b  z == j * b
    <3>3. x \in Int /\ y \in Int /\ z \in Int
      BY <1>1
    <3>4. x < y /\ y <= z /\ z <= a * 1 /\ a * 1 <= x
      BY <1>6, <3>1, <3>2
    <3> HIDE DEF x, y, z
    <3> QED
      BY <1>1, <3>3, <3>4
  <2>2. j = i + 1
    BY <1>6, <2>1
  <2> DEFINE z == j * b
  <2>3. z \in Int /\ z <= a * 1 /\ a * 1 <= z
    BY <1>1, <1>6, <2>2
  <2> HIDE DEF z
  <2>4. a = z
    BY <1>1, <2>3
  <2> QED
    BY <2>2, <2>4 DEF z
<1>7. c = d \/ c < d \/ d < c
  BY <1>1
<1>8. CASE c < d
  BY <1>1, <1>2, <1>3, <1>6, <1>8
<1>9. CASE d < c
  BY <1>1, <1>2, <1>3, <1>6, <1>9
<1> QED
  BY <1>7, <1>8, <1>9

\* There both cells give the number of the point where they meet.
LEMMA OnMeets ==
  ASSUME NEW how \in Hows, NEW f \in [Int -> Lowest], NEW p \in Lowest,
         NEW c, NEW d, In(c, p), In(d, p)
  PROVE  On(how, f, c, p) = On(how, f, d, p)
<1>1. c \in Int /\ d \in Int
  BY DEF In
<1>2. ASSUME NEW i \in Int, NEW j \in Int, j = i + 1, p = Simd!Whole(j)
      PROVE  On(how, f, i, p) = f[j] /\ On(how, f, j, p) = f[j]
  BY <1>2, OnEnds
<1> QED
  BY <1>1, <1>2, InTwo

\* In the plane, and in space: along the first axis, then along the next.
Row(how, f, c, p) == [y \in Int |-> On(how, [x \in Int |-> f[<<x, y>>]], c, p)]
On2(how, f, c, p) == On(how, Row(how, f, c[1], p[1]), c[2], p[2])
Layer(how, f, c, p) == [z \in Int |-> On2(how, [e \in Int \X Int |-> f[<<e[1], e[2], z>>]], c, p)]
On3(how, f, c, p) == On(how, Layer(how, f, c, p), c[3], p[3])

LEMMA RowIn ==
  ASSUME NEW how \in Hows, NEW f \in [Int \X Int -> Lowest], NEW c \in Int, NEW p \in Lowest
  PROVE  Row(how, f, c, p) \in [Int -> Lowest]
<1>1. ASSUME NEW y \in Int PROVE On(how, [x \in Int |-> f[<<x, y>>]], c, p) \in Lowest
  <2>1. [x \in Int |-> f[<<x, y>>]] \in [Int -> Lowest]
    OBVIOUS
  <2> QED
    BY <2>1, OnLowest
<1> QED
  BY <1>1 DEF Row

LEMMA On2Lowest ==
  ASSUME NEW how \in Hows, NEW f \in [Int \X Int -> Lowest], NEW c, c[1] \in Int, c[2] \in Int,
         NEW p, p[1] \in Lowest, p[2] \in Lowest
  PROVE  On2(how, f, c, p) \in Lowest
<1>1. Row(how, f, c[1], p[1]) \in [Int -> Lowest]
  BY RowIn
<1> QED
  BY <1>1, OnLowest DEF On2

LEMMA On2Meets ==
  ASSUME NEW how \in Hows, NEW f \in [Int \X Int -> Lowest],
         NEW p, p[1] \in Lowest, p[2] \in Lowest,
         NEW c, In(c[1], p[1]), In(c[2], p[2]), NEW d, In(d[1], p[1]), In(d[2], p[2])
  PROVE  On2(how, f, c, p) = On2(how, f, d, p)
<1>1. c[1] \in Int /\ c[2] \in Int /\ d[1] \in Int /\ d[2] \in Int
  BY DEF In
<1>2. Row(how, f, c[1], p[1]) = Row(how, f, d[1], p[1])
  <2>1. ASSUME NEW y \in Int
        PROVE  On(how, [x \in Int |-> f[<<x, y>>]], c[1], p[1])
                   = On(how, [x \in Int |-> f[<<x, y>>]], d[1], p[1])
    <3>1. [x \in Int |-> f[<<x, y>>]] \in [Int -> Lowest]
      OBVIOUS
    <3> QED
      BY <3>1, OnMeets
  <2> QED
    BY <2>1 DEF Row
<1>3. Row(how, f, d[1], p[1]) \in [Int -> Lowest]
  BY <1>1, RowIn
<1> DEFINE r == Row(how, f, d[1], p[1])
<1>4. On2(how, f, c, p) = On(how, r, c[2], p[2]) /\ On2(how, f, d, p) = On(how, r, d[2], p[2])
  BY <1>2 DEF On2
<1> HIDE DEF r
<1>5. On(how, r, c[2], p[2]) = On(how, r, d[2], p[2])
  BY <1>3, OnMeets DEF r
<1> QED
  BY <1>4, <1>5

LEMMA LayerIn ==
  ASSUME NEW how \in Hows, NEW f \in [Int \X Int \X Int -> Lowest],
         NEW c, c[1] \in Int, c[2] \in Int, NEW p, p[1] \in Lowest, p[2] \in Lowest
  PROVE  Layer(how, f, c, p) \in [Int -> Lowest]
<1>1. ASSUME NEW z \in Int
      PROVE  On2(how, [e \in Int \X Int |-> f[<<e[1], e[2], z>>]], c, p) \in Lowest
  <2>1. [e \in Int \X Int |-> f[<<e[1], e[2], z>>]] \in [Int \X Int -> Lowest]
    OBVIOUS
  <2> QED
    BY <2>1, On2Lowest
<1> QED
  BY <1>1 DEF Layer

\* The cells of a point in space that is on a border.
InCell(c, p) == In(c[1], p[1]) /\ In(c[2], p[2]) /\ In(c[3], p[3])

LEMMA On3Meets ==
  ASSUME NEW how \in Hows, NEW f \in [Int \X Int \X Int -> Lowest],
         NEW p, p[1] \in Lowest, p[2] \in Lowest, p[3] \in Lowest,
         NEW c, InCell(c, p), NEW d, InCell(d, p)
  PROVE  On3(how, f, c, p) = On3(how, f, d, p)
<1>1. /\ In(c[1], p[1]) /\ In(c[2], p[2]) /\ In(c[3], p[3])
      /\ In(d[1], p[1]) /\ In(d[2], p[2]) /\ In(d[3], p[3])
  BY DEF InCell
<1>2. Layer(how, f, c, p) = Layer(how, f, d, p)
  <2>1. ASSUME NEW z \in Int
        PROVE  On2(how, [e \in Int \X Int |-> f[<<e[1], e[2], z>>]], c, p)
                   = On2(how, [e \in Int \X Int |-> f[<<e[1], e[2], z>>]], d, p)
    <3> DEFINE g == [e \in Int \X Int |-> f[<<e[1], e[2], z>>]]
    <3>1. g \in [Int \X Int -> Lowest]
      OBVIOUS
    <3> HIDE DEF g
    <3>2. On2(how, g, c, p) = On2(how, g, d, p)
      BY <1>1, <3>1, On2Meets
    <3> QED
      BY <3>2 DEF g
  <2> QED
    BY <2>1 DEF Layer
<1>3. Layer(how, f, d, p) \in [Int -> Lowest]
  BY <1>1, LayerIn DEF In
<1> DEFINE r == Layer(how, f, d, p)
<1>4. On3(how, f, c, p) = On(how, r, c[3], p[3]) /\ On3(how, f, d, p) = On(how, r, d[3], p[3])
  BY <1>2 DEF On3
<1> HIDE DEF r
<1>5. On(how, r, c[3], p[3]) = On(how, r, d[3], p[3])
  BY <1>1, <1>3, OnMeets DEF r
<1> QED
  BY <1>4, <1>5

\* What the libraries compute for a cell.

LEMMA Lerp2Is ==
  ASSUME NEW how \in Fast!Interps, NEW f \in [Int \X Int -> Lowest],
         NEW c, c[1] \in Int, c[2] \in Int, NEW p, NEW s, NEW v,
         s[1] = Weight(how, Simd!Minus(p[1], Simd!Whole(c[1]))),
         s[2] = Weight(how, Simd!Minus(p[2], Simd!Whole(c[2]))),
         \A e \in (0 .. 1) \X (0 .. 1) : v[e] = f[<<c[1] + e[1], c[2] + e[2]>>]
  PROVE  Simd!Lerp2(v, s) = On2(how, f, c, p)
<1>0. how # "Cubic"
  BY DEF Fast!Interps
<1> DEFINE x == c[1]  y == c[2]
<1>1. x \in Int /\ y \in Int /\ x + 0 = x /\ y + 0 = y
  OBVIOUS
<1>2. /\ v[<<0, 0>>] = f[<<x, y>>] /\ v[<<1, 0>>] = f[<<x + 1, y>>]
      /\ v[<<0, 1>>] = f[<<x, y + 1>>] /\ v[<<1, 1>>] = f[<<x + 1, y + 1>>]
  BY <1>1
<1> DEFINE r == Row(how, f, x, p[1])
<1>3. On2(how, f, c, p) = Simd!Lerp(r[y], r[y+1], s[2])
  BY <1>0 DEF On2, On
<1>4. ASSUME NEW j \in Int PROVE r[j] = Simd!Lerp(f[<<x, j>>], f[<<x + 1, j>>], s[1])
  BY <1>0, <1>1 DEF Row, On
<1>5. y \in Int /\ y + 1 \in Int
  BY <1>1
<1>6. Simd!Lerp2(v, s) = Simd!Lerp(Simd!Lerp(v[<<0, 0>>], v[<<1, 0>>], s[1]),
                                  Simd!Lerp(v[<<0, 1>>], v[<<1, 1>>], s[1]), s[2])
  BY DEF Simd!Lerp2
<1> HIDE DEF x, y, r
<1> QED
  BY <1>2, <1>3, <1>4, <1>5, <1>6

LEMMA Lerp3Is ==
  ASSUME NEW how \in Fast!Interps, NEW f \in [Int \X Int \X Int -> Lowest],
         NEW c, c[1] \in Int, c[2] \in Int, c[3] \in Int, NEW p, NEW s, NEW v,
         \A a \in 1 .. 3 : s[a] = Weight(how, Simd!Minus(p[a], Simd!Whole(c[a]))),
         \A e \in (0 .. 1) \X (0 .. 1) \X (0 .. 1) : v[e] = f[<<c[1] + e[1], c[2] + e[2], c[3] + e[3]>>]
  PROVE  Simd!Lerp3(v, s) = On3(how, f, c, p)
<1>0. how # "Cubic"
  BY DEF Fast!Interps
<1> DEFINE side(k) == [e \in (0 .. 1) \X (0 .. 1) |-> v[<<e[1], e[2], k>>]]
           r == Layer(how, f, c, p)
           z == c[3]
<1>1. z \in Int /\ z + 0 = z /\ z + 1 \in Int
  OBVIOUS
<1>2. Simd!Lerp3(v, s) = Simd!Lerp(Simd!Lerp2(side(0), s), Simd!Lerp2(side(1), s), s[3])
  BY DEF Simd!Lerp3, Simd!Square
<1>3. On3(how, f, c, p) = Simd!Lerp(r[z], r[z+1], s[3])
  <2>1. s[3] = Weight(how, Simd!Minus(p[3], Simd!Whole(z)))
    OBVIOUS
  <2> QED
    BY <1>0, <2>1 DEF On3, On
<1>4. ASSUME NEW k \in 0 .. 1 PROVE Simd!Lerp2(side(k), s) = r[z + k]
  <2> DEFINE g == [e \in Int \X Int |-> f[<<e[1], e[2], z + k>>]]
             w == side(k)
  <2>1. z + k \in Int
    BY <1>1
  <2>2. g \in [Int \X Int -> Lowest]
    BY <2>1
  <2>3. \A e \in (0 .. 1) \X (0 .. 1) : w[e] = g[<<c[1] + e[1], c[2] + e[2]>>]
    <3> SUFFICES ASSUME NEW i \in 0 .. 1, NEW j \in 0 .. 1
                 PROVE  w[<<i, j>>] = g[<<c[1] + i, c[2] + j>>]
      OBVIOUS
    <3>1. w[<<i, j>>] = v[<<i, j, k>>]
      OBVIOUS
    <3>2. <<i, j, k>> \in (0 .. 1) \X (0 .. 1) \X (0 .. 1)
      OBVIOUS
    <3>3. v[<<i, j, k>>] = f[<<c[1] + i, c[2] + j, z + k>>]
      BY <3>2
    <3>4. <<c[1] + i, c[2] + j>> \in Int \X Int
      OBVIOUS
    <3>5. g[<<c[1] + i, c[2] + j>>] = f[<<c[1] + i, c[2] + j, z + k>>]
      BY <3>4
    <3> QED
      BY <3>1, <3>3, <3>5
  <2>4. /\ s[1] = Weight(how, Simd!Minus(p[1], Simd!Whole(c[1])))
        /\ s[2] = Weight(how, Simd!Minus(p[2], Simd!Whole(c[2])))
    OBVIOUS
  <2>5. r[z + k] = On2(how, g, c, p)
    BY <2>1 DEF Layer
  <2> HIDE DEF g, w, r
  <2>6. Simd!Lerp2(w, s) = On2(how, g, c, p)
    BY <2>2, <2>3, <2>4, Lerp2Is
  <2> QED
    BY <2>5, <2>6 DEF w
<1>5. Simd!Lerp2(side(0), s) = r[z + 0] /\ Simd!Lerp2(side(1), s) = r[z + 1]
  <2> HIDE DEF side, r, z
  <2> QED
    BY <1>4
<1> HIDE DEF side, r, z
<1> QED
  BY <1>1, <1>2, <1>3, <1>5

LEMMA Cubic1Is ==
  ASSUME NEW v, NEW t
  PROVE  Simd!Cubic1(v, t) = Simd!CubicLerp(v[-1], v[0], v[1], v[2], t)
BY DEF Simd!Cubic1

LEMMA Cubic2Is ==
  ASSUME NEW f \in [Int \X Int -> Lowest],
         NEW c, c[1] \in Int, c[2] \in Int, NEW p, NEW t, NEW v,
         t[1] = Simd!Minus(p[1], Simd!Whole(c[1])), t[2] = Simd!Minus(p[2], Simd!Whole(c[2])),
         \A e \in (-1 .. 2) \X (-1 .. 2) : v[e] = f[<<c[1] + e[1], c[2] + e[2]>>]
  PROVE  Simd!Cubic2(v, t) = On2("Cubic", f, c, p)
<1> DEFINE x == c[1]  y == c[2]
           row(j) == [i \in -1 .. 2 |-> v[<<i, j>>]]
           w == [j \in -1 .. 2 |-> Simd!Cubic1(row(j), t[1])]
           r == Row("Cubic", f, x, p[1])
<1>1. x \in Int /\ y \in Int /\ x + 0 = x /\ y + 0 = y /\ x + (-1) = x - 1 /\ y + (-1) = y - 1
  OBVIOUS
<1>2. Simd!Cubic2(v, t) = Simd!CubicLerp(w[-1], w[0], w[1], w[2], t[2])
  BY Cubic1Is DEF Simd!Cubic2, Simd!Four
<1>3. On2("Cubic", f, c, p) = Simd!CubicLerp(r[y-1], r[y], r[y+1], r[y+2], t[2])
  BY DEF On2, On
<1>4. ASSUME NEW j \in -1 .. 2 PROVE w[j] = r[y + j]
  <2>1. w[j] = Simd!CubicLerp(v[<<-1, j>>], v[<<0, j>>], v[<<1, j>>], v[<<2, j>>], t[1])
    <3>1. w[j] = Simd!Cubic1(row(j), t[1])
      OBVIOUS
    <3>2. /\ row(j)[-1] = v[<<-1, j>>] /\ row(j)[0] = v[<<0, j>>]
          /\ row(j)[1] = v[<<1, j>>] /\ row(j)[2] = v[<<2, j>>]
      OBVIOUS
    <3> HIDE DEF w, row
    <3> QED
      BY <3>1, <3>2, Cubic1Is
  <2>2. ASSUME NEW i \in -1 .. 2 PROVE v[<<i, j>>] = f[<<x + i, y + j>>]
    <3>1. <<i, j>> \in (-1 .. 2) \X (-1 .. 2)
      OBVIOUS
    <3> QED
      BY <3>1
  <2>3. /\ v[<<-1, j>>] = f[<<x - 1, y + j>>] /\ v[<<0, j>>] = f[<<x, y + j>>]
        /\ v[<<1, j>>] = f[<<x + 1, y + j>>] /\ v[<<2, j>>] = f[<<x + 2, y + j>>]
    <3> HIDE DEF x, y
    <3> QED
      BY <1>1, <2>2
  <2>4. y + j \in Int
    BY <1>1
  <2> DEFINE k == y + j
  <2>5. r[k] = Simd!CubicLerp(f[<<x - 1, k>>], f[<<x, k>>], f[<<x + 1, k>>], f[<<x + 2, k>>], t[1])
    <3>1. r[k] = On("Cubic", [i \in Int |-> f[<<i, k>>]], x, p[1])
      BY <2>4 DEF Row
    <3>2. /\ [i \in Int |-> f[<<i, k>>]][x-1] = f[<<x - 1, k>>]
          /\ [i \in Int |-> f[<<i, k>>]][x] = f[<<x, k>>]
          /\ [i \in Int |-> f[<<i, k>>]][x+1] = f[<<x + 1, k>>]
          /\ [i \in Int |-> f[<<i, k>>]][x+2] = f[<<x + 2, k>>]
      BY <1>1
    <3> HIDE DEF r, k
    <3> QED
      BY <3>1, <3>2 DEF On
  <2> HIDE DEF w, r
  <2> QED
    BY <2>1, <2>3, <2>5
<1> HIDE DEF x, y, w, r
<1>5. w[-1] = r[y-1] /\ w[0] = r[y] /\ w[1] = r[y+1] /\ w[2] = r[y+2]
  BY <1>1, <1>4
<1> QED
  BY <1>2, <1>3, <1>5

LEMMA Cubic3Is ==
  ASSUME NEW f \in [Int \X Int \X Int -> Lowest],
         NEW c, c[1] \in Int, c[2] \in Int, c[3] \in Int, NEW p, NEW t, NEW v,
         \A a \in 1 .. 3 : t[a] = Simd!Minus(p[a], Simd!Whole(c[a])),
         \A e \in (-1 .. 2) \X (-1 .. 2) \X (-1 .. 2) :
             v[e] = f[<<c[1] + e[1], c[2] + e[2], c[3] + e[3]>>]
  PROVE  Simd!Cubic3(v, t) = On3("Cubic", f, c, p)
<1> DEFINE z == c[3]
           plane(k) == [e \in (-1 .. 2) \X (-1 .. 2) |-> v[<<e[1], e[2], k>>]]
           w == [k \in -1 .. 2 |-> Simd!Cubic2(plane(k), t)]
           r == Layer("Cubic", f, c, p)
<1>1. z \in Int /\ z + 0 = z /\ z + (-1) = z - 1
  OBVIOUS
<1>2. Simd!Cubic3(v, t) = Simd!CubicLerp(w[-1], w[0], w[1], w[2], t[3])
  BY Cubic1Is DEF Simd!Cubic3, Simd!Four
<1>3. On3("Cubic", f, c, p) = Simd!CubicLerp(r[z-1], r[z], r[z+1], r[z+2], t[3])
  <2>1. t[3] = Simd!Minus(p[3], Simd!Whole(z))
    OBVIOUS
  <2> QED
    BY <2>1 DEF On3, On
<1>4. ASSUME NEW k \in -1 .. 2 PROVE w[k] = r[z + k]
  <2> DEFINE g == [e \in Int \X Int |-> f[<<e[1], e[2], z + k>>]]
             u == plane(k)
  <2>1. z + k \in Int
    BY <1>1
  <2>2. g \in [Int \X Int -> Lowest]
    BY <2>1
  <2>3. \A e \in (-1 .. 2) \X (-1 .. 2) : u[e] = g[<<c[1] + e[1], c[2] + e[2]>>]
    <3> SUFFICES ASSUME NEW i \in -1 .. 2, NEW j \in -1 .. 2
                 PROVE  u[<<i, j>>] = g[<<c[1] + i, c[2] + j>>]
      OBVIOUS
    <3>1. u[<<i, j>>] = v[<<i, j, k>>]
      OBVIOUS
    <3>2. <<i, j, k>> \in (-1 .. 2) \X (-1 .. 2) \X (-1 .. 2)
      OBVIOUS
    <3>3. v[<<i, j, k>>] = f[<<c[1] + i, c[2] + j, z + k>>]
      BY <3>2
    <3>4. <<c[1] + i, c[2] + j>> \in Int \X Int
      OBVIOUS
    <3>5. g[<<c[1] + i, c[2] + j>>] = f[<<c[1] + i, c[2] + j, z + k>>]
      BY <3>4
    <3> QED
      BY <3>1, <3>3, <3>5
  <2>4. t[1] = Simd!Minus(p[1], Simd!Whole(c[1])) /\ t[2] = Simd!Minus(p[2], Simd!Whole(c[2]))
    OBVIOUS
  <2>5. r[z + k] = On2("Cubic", g, c, p)
    BY <2>1 DEF Layer
  <2>6. w[k] = Simd!Cubic2(u, t)
    OBVIOUS
  <2> HIDE DEF g, w, r, u
  <2>7. Simd!Cubic2(u, t) = On2("Cubic", g, c, p)
    BY <2>2, <2>3, <2>4, Cubic2Is
  <2> QED
    BY <2>5, <2>6, <2>7
<1> HIDE DEF z, w, r
<1>5. w[-1] = r[z-1] /\ w[0] = r[z] /\ w[1] = r[z+1] /\ w[2] = r[z+2]
  BY <1>1, <1>4
<1> QED
  BY <1>2, <1>3, <1>5

-----------------------------------------------------------------------------
(* FastNoise's cells.                                                       *)

LEMMA FastLerps ==
  /\ \A p, q, t : Fast!Lerp(p, q, t) = Simd!Lerp(p, q, t)
  /\ \A v, s : Fast!Lerp2(v, s) = Simd!Lerp2(v, s)
  /\ \A v, s : Fast!Lerp3(v, s) = Simd!Lerp3(v, s)
<1>1. \A p, q, t : Fast!Lerp(p, q, t) = Simd!Lerp(p, q, t)
  BY TimesAlike, PlusAlike, MinusAlike DEF Fast!Lerp, Simd!Lerp
<1>2. \A v, s : Fast!Lerp2(v, s) = Simd!Lerp2(v, s)
  BY <1>1 DEF Fast!Lerp2, Simd!Lerp2
<1>3. ASSUME NEW v, NEW s PROVE Fast!Lerp3(v, s) = Simd!Lerp3(v, s)
  <2> DEFINE side(k) == [e \in (0 .. 1) \X (0 .. 1) |-> v[<<e[1], e[2], k>>]]
  <2>1. Fast!Lerp3(v, s) = Fast!Lerp(Fast!Lerp2(side(0), s), Fast!Lerp2(side(1), s), s[3])
    BY DEF Fast!Lerp3, Fast!Square
  <2>2. Simd!Lerp3(v, s) = Simd!Lerp(Simd!Lerp2(side(0), s), Simd!Lerp2(side(1), s), s[3])
    BY DEF Simd!Lerp3, Simd!Square
  <2> HIDE DEF side
  <2> QED
    BY <1>1, <1>2, <2>1, <2>2
<1> QED
  BY <1>1, <1>2, <1>3

LEMMA FastCubic1 ==
  ASSUME NEW v, v[-1] \in Lowest, v[0] \in Lowest, v[1] \in Lowest, v[2] \in Lowest, NEW t \in Lowest
  PROVE  Fast!Cubic1(v, t) = Simd!Cubic1(v, t) /\ Simd!Cubic1(v, t) \in Lowest
<1>1. Fast!Cubic1(v, t) = Fast!CubicLerp(v[-1], v[0], v[1], v[2], t)
  BY DEF Fast!Cubic1
<1>2. Simd!Cubic1(v, t) = Simd!CubicLerp(v[-1], v[0], v[1], v[2], t)
  BY Cubic1Is
<1> DEFINE a == v[-1]  b == v[0]  c == v[1]  d == v[2]
<1>3. a \in Lowest /\ b \in Lowest /\ c \in Lowest /\ d \in Lowest
  OBVIOUS
<1>4. Fast!Cubic1(v, t) = Fast!CubicLerp(a, b, c, d, t) /\ Simd!Cubic1(v, t) = Simd!CubicLerp(a, b, c, d, t)
  BY <1>1, <1>2
<1> HIDE DEF a, b, c, d
<1> QED
  BY <1>3, <1>4, CubicLerpAlike, CubicLerpLowest

LEMMA FastCubic2 ==
  ASSUME NEW v, \A e \in (-1 .. 2) \X (-1 .. 2) : v[e] \in Lowest,
         NEW t, t[1] \in Lowest, t[2] \in Lowest
  PROVE  Fast!Cubic2(v, t) = Simd!Cubic2(v, t) /\ Simd!Cubic2(v, t) \in Lowest
<1> DEFINE row(j) == [i \in -1 .. 2 |-> v[<<i, j>>]]
           f == [j \in -1 .. 2 |-> Fast!Cubic1(row(j), t[1])]
           g == [j \in -1 .. 2 |-> Simd!Cubic1(row(j), t[1])]
<1>1. ASSUME NEW j \in -1 .. 2
      PROVE  Fast!Cubic1(row(j), t[1]) = Simd!Cubic1(row(j), t[1]) /\ Simd!Cubic1(row(j), t[1]) \in Lowest
  <2>1. ASSUME NEW i \in -1 .. 2 PROVE row(j)[i] \in Lowest
    <3>1. <<i, j>> \in (-1 .. 2) \X (-1 .. 2)
      OBVIOUS
    <3> QED
      BY <3>1
  <2> HIDE DEF row
  <2>2. row(j)[-1] \in Lowest /\ row(j)[0] \in Lowest /\ row(j)[1] \in Lowest /\ row(j)[2] \in Lowest
    BY <2>1
  <2> QED
    BY <2>2, FastCubic1
<1>2. f = g /\ \A j \in -1 .. 2 : g[j] \in Lowest
  BY <1>1
<1>3. Fast!Cubic2(v, t) = Fast!Cubic1(f, t[2]) /\ Simd!Cubic2(v, t) = Simd!Cubic1(g, t[2])
  BY DEF Fast!Cubic2, Simd!Cubic2, Fast!Four, Simd!Four
<1> HIDE DEF f, g
<1>4. g[-1] \in Lowest /\ g[0] \in Lowest /\ g[1] \in Lowest /\ g[2] \in Lowest
  BY <1>2
<1> QED
  BY <1>2, <1>3, <1>4, FastCubic1

LEMMA FastCubic3 ==
  ASSUME NEW v, \A e \in (-1 .. 2) \X (-1 .. 2) \X (-1 .. 2) : v[e] \in Lowest,
         NEW t, t[1] \in Lowest, t[2] \in Lowest, t[3] \in Lowest
  PROVE  Fast!Cubic3(v, t) = Simd!Cubic3(v, t)
<1> DEFINE plane(k) == [e \in (-1 .. 2) \X (-1 .. 2) |-> v[<<e[1], e[2], k>>]]
           f == [k \in -1 .. 2 |-> Fast!Cubic2(plane(k), t)]
           g == [k \in -1 .. 2 |-> Simd!Cubic2(plane(k), t)]
<1>1. ASSUME NEW k \in -1 .. 2
      PROVE  Fast!Cubic2(plane(k), t) = Simd!Cubic2(plane(k), t) /\ Simd!Cubic2(plane(k), t) \in Lowest
  <2>1. ASSUME NEW e \in (-1 .. 2) \X (-1 .. 2) PROVE plane(k)[e] \in Lowest
    <3>1. <<e[1], e[2], k>> \in (-1 .. 2) \X (-1 .. 2) \X (-1 .. 2)
      OBVIOUS
    <3> QED
      BY <3>1
  <2> HIDE DEF plane
  <2> QED
    BY <2>1, FastCubic2
<1>2. f = g /\ \A k \in -1 .. 2 : g[k] \in Lowest
  BY <1>1
<1>3. Fast!Cubic3(v, t) = Fast!Cubic1(f, t[3]) /\ Simd!Cubic3(v, t) = Simd!Cubic1(g, t[3])
  BY DEF Fast!Cubic3, Simd!Cubic3, Fast!Four, Simd!Four
<1> HIDE DEF f, g
<1>4. g[-1] \in Lowest /\ g[0] \in Lowest /\ g[1] \in Lowest /\ g[2] \in Lowest
  BY <1>2
<1> QED
  BY <1>2, <1>3, <1>4, FastCubic1

LEMMA SmoothIs ==
  ASSUME m.interp \in Fast!Interps, NEW t \in Lowest
  PROVE  Fast!Smooth(t) = Weight(m.interp, t)
<1>1. CASE m.interp = "Linear"
  BY <1>1 DEF Fast!Smooth, Weight
<1>2. CASE m.interp = "Hermite"
  BY <1>2, TimesAlike, MinusAlike, WholeAlike DEF Fast!Smooth, Weight, Fast!InterpHermiteFunc
<1>3. CASE m.interp = "Quintic"
  BY <1>3, QuinticAlike DEF Fast!Smooth, Weight
<1> QED
  BY <1>1, <1>2, <1>3 DEF Fast!Interps

\* The cell that a position is rounded down to.
LEMMA FastFloorIn ==
  ASSUME NEW p \in Lowest
  PROVE  In(Fast!FastFloor(p), p)
<1> DEFINE a == p[1]  b == p[2]  c == Fast!FastFloor(p)
<1>1. a \in Int /\ b \in Nat /\ b > 0
  BY LowestTyped
<1>2. c = IF 0 * b <= a * 1 THEN Fast!Truncated(p) ELSE Fast!Truncated(p) - 1
  BY DEF Fast!FastFloor, Fast!Leq, Fast!Zero
<1>3. Fast!Truncated(p) = IF a >= 0 THEN a \div b ELSE -((-a) \div b)
  BY DEF Fast!Truncated
<1>4. In(c, p) <=> c \in Int /\ c * b <= a * 1 /\ a * 1 <= (c + 1) * b
  BY DEF In, Simd!Leq, Simd!Whole
<1> HIDE DEF a, b, c
<1>5. a >= 0 => In(c, p)
  <2> SUFFICES ASSUME a >= 0 PROVE In(c, p)
    OBVIOUS
  <2> DEFINE q == a \div b
  <2>1. q \in Int /\ q * b <= a /\ a < (q + 1) * b
    BY <1>1, FloorBetween
  <2>2. c = q
    BY <1>1, <1>2, <1>3
  <2> HIDE DEF q
  <2> DEFINE x == q * b  y == (q + 1) * b
  <2>3. x \in Int /\ y \in Int /\ x <= a /\ a < y
    BY <1>1, <2>1
  <2> HIDE DEF x, y
  <2>4. x <= a * 1 /\ a * 1 <= y
    BY <1>1, <2>3
  <2> QED
    BY <1>4, <2>1, <2>2, <2>4 DEF x, y
<1>6. a < 0 => In(c, p)
  <2> SUFFICES ASSUME a < 0 PROVE In(c, p)
    OBVIOUS
  <2> DEFINE u == (-a) \div b
  <2>0. -a \in Int
    BY <1>1
  <2>1. u \in Int /\ u * b <= -a /\ -a < (u + 1) * b
    BY <1>1, <2>0, FloorBetween
  <2>2. c = -u - 1
    BY <1>1, <1>2, <1>3
  <2> HIDE DEF u
  <2> DEFINE k == u * b
  <2>3. /\ k \in Int /\ (u + 1) * b = k + b /\ c \in Int
        /\ c * b = -k - b /\ (c + 1) * b = -k
    BY <1>1, <2>1, <2>2
  <2>4. k <= -a /\ -a < k + b
    BY <2>1, <2>3
  <2> HIDE DEF k
  <2>5. -k - b <= a * 1 /\ a * 1 <= -k
    BY <1>1, <2>3, <2>4
  <2> QED
    BY <1>4, <2>3, <2>5
<1> QED
  BY <1>1, <1>5, <1>6 DEF c

LEMMA LowestTermsAre ==
  Fast!LowestTerms \subseteq Lowest /\ Simd!LowestTerms \subseteq Lowest
<1>1. ASSUME NEW p, p \in Int \X (Nat \ {0}), Simd!Q(p[1], p[2]) = p PROVE p \in Lowest
  <2>1. p[1] \in Int /\ p[2] \in Nat /\ p[2] > 0
    BY <1>1
  <2> QED
    BY <1>1, <2>1, FractionIs DEF Is
<1> QED
  BY <1>1, QAlike DEF Fast!LowestTerms, Simd!LowestTerms

LEMMA FastFractions ==
  /\ \A i \in 0 .. N-1 : VAL_LUT[i] \in Lowest
  /\ \A i \in 0 .. Gradients-1 : GRAD_X[i] \in Lowest /\ GRAD_Y[i] \in Lowest /\ GRAD_Z[i] \in Lowest
  /\ \A p \in Points2 : p \in Lowest \X Lowest
  /\ \A p \in Points3 : p \in Lowest \X Lowest \X Lowest
BY NoiseAssumption, LowestTermsAre DEF Fast!TableAssumption, Fast!PointAssumption

\* The tables' numbers, at the points of the lattice.
Values2 == [x \in Int \X Int |-> Fast!ValCoord2DFast(0, x[1], x[2])]
Values3 == [x \in Int \X Int \X Int |-> Fast!ValCoord3DFast(0, x[1], x[2], x[3])]
Grads2(q) ==
    [x \in Int \X Int |->
        Fast!GradCoord2D(0, x[1], x[2], Simd!Minus(q[1], Simd!Whole(x[1])),
                         Simd!Minus(q[2], Simd!Whole(x[2])))]
Grads3(q) ==
    [x \in Int \X Int \X Int |->
        Fast!GradCoord3D(0, x[1], x[2], x[3], Simd!Minus(q[1], Simd!Whole(x[1])),
                         Simd!Minus(q[2], Simd!Whole(x[2])), Simd!Minus(q[3], Simd!Whole(x[3])))]

LEMMA HashesIn ==
  ASSUME FastAgreeing, NEW x \in Int, NEW y \in Int, NEW z \in Int
  PROVE  /\ Fast!Index2D_256(0, x, y) \in 0 .. N-1 /\ Fast!Index3D_256(0, x, y, z) \in 0 .. N-1
         /\ Fast!Index2D_12(0, x, y) \in 0 .. Gradients-1
         /\ Fast!Index3D_12(0, x, y, z) \in 0 .. Gradients-1
<1>1. perm \in [Places -> 0 .. N-1] /\ perm12 \in [Places -> 0 .. Gradients-1]
  BY DEF FastAgreeing, TableRecords, Tables
<1>2. N \in Nat /\ N > 0
  BY SizesTyped
<1>3. ASSUME NEW i \in Int, NEW k \in 0 .. N-1
      PROVE  (i % N) + k \in Places
  <2>1. i % N \in 0 .. N-1
    BY <1>2
  <2> QED
    BY <1>2, <2>1 DEF Places
<1>4. 0 \in 0 .. N-1
  BY <1>2
<1>5. ASSUME NEW i \in Int PROVE perm[(i % N) + 0] \in 0 .. N-1
  BY <1>1, <1>3, <1>4
<1>6. ASSUME NEW i \in Int, NEW k \in 0 .. N-1
      PROVE  perm[(i % N) + k] \in 0 .. N-1 /\ perm12[(i % N) + k] \in 0 .. Gradients-1
  BY <1>1, <1>3
<1>7. perm[(y % N) + 0] \in 0 .. N-1 /\ perm[(z % N) + 0] \in 0 .. N-1
  BY <1>5
<1>8. perm[(y % N) + perm[(z % N) + 0]] \in 0 .. N-1
  BY <1>6, <1>7
<1>9. Fast!Index2D_256(0, x, y) \in 0 .. N-1 /\ Fast!Index2D_12(0, x, y) \in 0 .. Gradients-1
  BY <1>6, <1>7 DEF Fast!Index2D_256, Fast!Index2D_12
<1>10. Fast!Index3D_256(0, x, y, z) \in 0 .. N-1 /\ Fast!Index3D_12(0, x, y, z) \in 0 .. Gradients-1
  BY <1>6, <1>8 DEF Fast!Index3D_256, Fast!Index3D_12
<1> QED
  BY <1>9, <1>10

LEMMA ValuesIn ==
  ASSUME FastAgreeing
  PROVE  Values2 \in [Int \X Int -> Lowest] /\ Values3 \in [Int \X Int \X Int -> Lowest]
<1>1. ASSUME NEW x \in Int, NEW y \in Int, NEW z \in Int
      PROVE  Fast!ValCoord2DFast(0, x, y) \in Lowest /\ Fast!ValCoord3DFast(0, x, y, z) \in Lowest
  BY HashesIn, FastFractions DEF Fast!ValCoord2DFast, Fast!ValCoord3DFast
<1>2. 0 \in Int
  OBVIOUS
<1> QED
  BY <1>1, <1>2 DEF Values2, Values3

LEMMA GradsIn ==
  ASSUME FastAgreeing, NEW q
  PROVE  /\ q[1] \in Lowest /\ q[2] \in Lowest => Grads2(q) \in [Int \X Int -> Lowest]
         /\ q[1] \in Lowest /\ q[2] \in Lowest /\ q[3] \in Lowest
            => Grads3(q) \in [Int \X Int \X Int -> Lowest]
<1>1. ASSUME NEW x \in Int, NEW y \in Int, NEW d \in Lowest, NEW e \in Lowest
      PROVE  Fast!GradCoord2D(0, x, y, d, e) \in Lowest
  <2> DEFINE l == Fast!Index2D_12(0, x, y)
  <2>1. Fast!GradCoord2D(0, x, y, d, e)
            = Simd!Plus(Simd!Times(d, GRAD_X[l]), Simd!Times(e, GRAD_Y[l]))
    BY TimesAlike, PlusAlike DEF Fast!GradCoord2D
  <2>2. l \in 0 .. Gradients-1
    <3>1. 0 \in Int
      OBVIOUS
    <3> QED
      BY <3>1, HashesIn
  <2> HIDE DEF l
  <2>3. GRAD_X[l] \in Lowest /\ GRAD_Y[l] \in Lowest
    BY <2>2, FastFractions
  <2> QED
    BY <2>1, <2>3, SumsLowest
<1>2. ASSUME NEW x \in Int, NEW y \in Int, NEW z \in Int,
             NEW d \in Lowest, NEW e \in Lowest, NEW f \in Lowest
      PROVE  Fast!GradCoord3D(0, x, y, z, d, e, f) \in Lowest
  <2> DEFINE l == Fast!Index3D_12(0, x, y, z)
  <2>1. Fast!GradCoord3D(0, x, y, z, d, e, f)
            = Simd!Plus(Simd!Plus(Simd!Times(d, GRAD_X[l]), Simd!Times(e, GRAD_Y[l])),
                        Simd!Times(f, GRAD_Z[l]))
    BY TimesAlike, PlusAlike DEF Fast!GradCoord3D
  <2>2. l \in 0 .. Gradients-1
    BY HashesIn
  <2> HIDE DEF l
  <2>3. GRAD_X[l] \in Lowest /\ GRAD_Y[l] \in Lowest /\ GRAD_Z[l] \in Lowest
    BY <2>2, FastFractions
  <2>4. Simd!Times(d, GRAD_X[l]) \in Lowest /\ Simd!Times(e, GRAD_Y[l]) \in Lowest
        /\ Simd!Times(f, GRAD_Z[l]) \in Lowest
    BY <2>3, SumsLowest
  <2> QED
    BY <2>1, <2>4, SumsLowest
<1>3. ASSUME NEW a, q[a] \in Lowest, NEW n \in Int PROVE Simd!Minus(q[a], Simd!Whole(n)) \in Lowest
  BY <1>3, WholeLowest, MinusLowest
<1>4. q[1] \in Lowest /\ q[2] \in Lowest => Grads2(q) \in [Int \X Int -> Lowest]
  <2> SUFFICES ASSUME q[1] \in Lowest, q[2] \in Lowest, NEW x \in Int \X Int
               PROVE  Fast!GradCoord2D(0, x[1], x[2], Simd!Minus(q[1], Simd!Whole(x[1])),
                                       Simd!Minus(q[2], Simd!Whole(x[2]))) \in Lowest
    BY DEF Grads2
  <2>1. x[1] \in Int /\ x[2] \in Int
    OBVIOUS
  <2> QED
    BY <1>1, <1>3, <2>1
<1>5. q[1] \in Lowest /\ q[2] \in Lowest /\ q[3] \in Lowest => Grads3(q) \in [Int \X Int \X Int -> Lowest]
  <2> SUFFICES ASSUME q[1] \in Lowest, q[2] \in Lowest, q[3] \in Lowest, NEW x \in Int \X Int \X Int
               PROVE  Fast!GradCoord3D(0, x[1], x[2], x[3], Simd!Minus(q[1], Simd!Whole(x[1])),
                          Simd!Minus(q[2], Simd!Whole(x[2])), Simd!Minus(q[3], Simd!Whole(x[3]))) \in Lowest
    BY DEF Grads3
  <2>1. x[1] \in Int /\ x[2] \in Int /\ x[3] \in Int
    OBVIOUS
  <2> QED
    BY <1>2, <1>3, <2>1
<1> QED
  BY <1>4, <1>5

\* A point of two or three coordinates, or of a cell.
LEMMA Coordinates ==
  ASSUME NEW S, NEW n \in Nat, NEW q \in [1 .. n -> S]
  PROVE  Len(q) = n /\ DOMAIN q = 1 .. n
<1>1. q \in Seq(S)
  BY SeqDef
<1>2. Len(q) \in Nat /\ DOMAIN q = 1 .. Len(q)
  BY <1>1, LenProperties
<1> QED
  BY <1>2

LEMMA FastSmoothed ==
  ASSUME m.interp \in Fast!Interps, NEW n \in 2 .. 3, NEW q \in [1 .. n -> Lowest], NEW c,
         \A a \in 1 .. n : c[a] \in Int
  PROVE  \A a \in 1 .. n :
             Fast!Smoothed(c, q)[a] = Weight(m.interp, Simd!Minus(q[a], Simd!Whole(c[a])))
<1> SUFFICES ASSUME NEW a \in 1 .. n
             PROVE  Fast!Smoothed(c, q)[a] = Weight(m.interp, Simd!Minus(q[a], Simd!Whole(c[a])))
  OBVIOUS
<1>1. Fast!Smoothed(c, q)[a] = Fast!Smooth(Simd!Minus(q[a], Simd!Whole(c[a])))
  BY MinusAlike, WholeAlike DEF Fast!Smoothed
<1>2. Simd!Minus(q[a], Simd!Whole(c[a])) \in Lowest
  BY WholeLowest, MinusLowest
<1> QED
  BY <1>1, <1>2, SmoothIs

LEMMA FastValueIn ==
  ASSUME FastAgreeing, m.interp \in Fast!Interps, NEW q, NEW c
  PROVE  /\ q \in [1 .. 2 -> Lowest] /\ c[1] \in Int /\ c[2] \in Int
            => Fast!ValueIn2(0, c, q) = On2(m.interp, Values2, c, q)
         /\ q \in [1 .. 3 -> Lowest] /\ c[1] \in Int /\ c[2] \in Int /\ c[3] \in Int
            => Fast!ValueIn3(0, c, q) = On3(m.interp, Values3, c, q)
<1>1. ASSUME q \in [1 .. 2 -> Lowest], c[1] \in Int, c[2] \in Int
      PROVE  Fast!ValueIn2(0, c, q) = On2(m.interp, Values2, c, q)
  <2> DEFINE v == [e \in (0 .. 1) \X (0 .. 1) |-> Fast!ValCoord2DFast(0, c[1] + e[1], c[2] + e[2])]
             s == Fast!Smoothed(c, q)
  <2>1. Fast!ValueIn2(0, c, q) = Simd!Lerp2(v, s)
    BY FastLerps DEF Fast!ValueIn2, Fast!Square
  <2>2. \A e \in (0 .. 1) \X (0 .. 1) : v[e] = Values2[<<c[1] + e[1], c[2] + e[2]>>]
    BY <1>1 DEF Values2
  <2>3. \A a \in 1 .. 2 : s[a] = Weight(m.interp, Simd!Minus(q[a], Simd!Whole(c[a])))
    BY <1>1, FastSmoothed
  <2>4. Values2 \in [Int \X Int -> Lowest]
    BY ValuesIn
  <2> HIDE DEF v, s
  <2> QED
    BY <1>1, <2>1, <2>2, <2>3, <2>4, Lerp2Is
<1>2. ASSUME q \in [1 .. 3 -> Lowest], c[1] \in Int, c[2] \in Int, c[3] \in Int
      PROVE  Fast!ValueIn3(0, c, q) = On3(m.interp, Values3, c, q)
  <2> DEFINE v == [e \in (0 .. 1) \X (0 .. 1) \X (0 .. 1) |->
                      Fast!ValCoord3DFast(0, c[1] + e[1], c[2] + e[2], c[3] + e[3])]
             s == Fast!Smoothed(c, q)
  <2>1. Fast!ValueIn3(0, c, q) = Simd!Lerp3(v, s)
    BY FastLerps DEF Fast!ValueIn3, Fast!Cube
  <2>2. \A e \in (0 .. 1) \X (0 .. 1) \X (0 .. 1) :
            v[e] = Values3[<<c[1] + e[1], c[2] + e[2], c[3] + e[3]>>]
    BY <1>2 DEF Values3
  <2>3. \A a \in 1 .. 3 : s[a] = Weight(m.interp, Simd!Minus(q[a], Simd!Whole(c[a])))
    BY <1>2, FastSmoothed
  <2>4. Values3 \in [Int \X Int \X Int -> Lowest]
    BY ValuesIn
  <2> HIDE DEF v, s
  <2> QED
    BY <1>2, <2>1, <2>2, <2>3, <2>4, Lerp3Is
<1> QED
  BY <1>1, <1>2

LEMMA FastPerlinIn ==
  ASSUME FastAgreeing, m.interp \in Fast!Interps, NEW q, NEW c
  PROVE  /\ q \in [1 .. 2 -> Lowest] /\ c \in [1 .. 2 -> Int]
            => Fast!PerlinIn2(0, c, q) = On2(m.interp, Grads2(q), c, q)
         /\ q \in [1 .. 3 -> Lowest] /\ c \in [1 .. 3 -> Int]
            => Fast!PerlinIn3(0, c, q) = On3(m.interp, Grads3(q), c, q)
<1>1. ASSUME q \in [1 .. 2 -> Lowest], c \in [1 .. 2 -> Int]
      PROVE  Fast!PerlinIn2(0, c, q) = On2(m.interp, Grads2(q), c, q)
  <2> DEFINE at(e) == Fast!GradAt(0, Fast!CornerOf(c, e), Fast!From(Fast!CornerOf(c, e), q))
             v == [e \in (0 .. 1) \X (0 .. 1) |-> at(e)]
             s == Fast!Smoothed(c, q)
  <2>1. Fast!PerlinIn2(0, c, q) = Simd!Lerp2(v, s)
    BY FastLerps DEF Fast!PerlinIn2, Fast!Square
  <2>2. ASSUME NEW e \in (0 .. 1) \X (0 .. 1)
        PROVE  at(e) = Grads2(q)[<<c[1] + e[1], c[2] + e[2]>>]
    <3> DEFINE k == Fast!CornerOf(c, e)  d == Fast!From(k, q)
    <3>1. k \in [1 .. 2 -> Int] /\ k[1] = c[1] + e[1] /\ k[2] = c[2] + e[2]
      BY <1>1 DEF Fast!CornerOf
    <3>2. Len(k) = 2
      BY <3>1, Coordinates
    <3> HIDE DEF k
    <3>3. d[1] = Simd!Minus(q[1], Simd!Whole(k[1])) /\ d[2] = Simd!Minus(q[2], Simd!Whole(k[2]))
      BY <1>1, MinusAlike, WholeAlike DEF Fast!From
    <3> HIDE DEF d
    <3>4. Fast!GradAt(0, k, d) = Fast!GradCoord2D(0, k[1], k[2], d[1], d[2])
      BY <3>2 DEF Fast!GradAt
    <3>5. <<k[1], k[2]>> \in Int \X Int
      BY <3>1
    <3>6. Grads2(q)[<<k[1], k[2]>>] = Fast!GradCoord2D(0, k[1], k[2], d[1], d[2])
      BY <3>3, <3>5 DEF Grads2
    <3> QED
      BY <3>1, <3>4, <3>6 DEF k, d
  <2>3. \A e \in (0 .. 1) \X (0 .. 1) : v[e] = Grads2(q)[<<c[1] + e[1], c[2] + e[2]>>]
    <3> HIDE DEF at
    <3> QED
      BY <2>2
  <2>4. \A a \in 1 .. 2 : s[a] = Weight(m.interp, Simd!Minus(q[a], Simd!Whole(c[a])))
    BY <1>1, FastSmoothed
  <2>5. Grads2(q) \in [Int \X Int -> Lowest]
    BY <1>1, GradsIn
  <2> HIDE DEF v, s
  <2> QED
    BY <1>1, <2>1, <2>3, <2>4, <2>5, Lerp2Is
<1>2. ASSUME q \in [1 .. 3 -> Lowest], c \in [1 .. 3 -> Int]
      PROVE  Fast!PerlinIn3(0, c, q) = On3(m.interp, Grads3(q), c, q)
  <2> DEFINE at(e) == Fast!GradAt(0, Fast!CornerOf(c, e), Fast!From(Fast!CornerOf(c, e), q))
             v == [e \in (0 .. 1) \X (0 .. 1) \X (0 .. 1) |-> at(e)]
             s == Fast!Smoothed(c, q)
  <2>1. Fast!PerlinIn3(0, c, q) = Simd!Lerp3(v, s)
    BY FastLerps DEF Fast!PerlinIn3, Fast!Cube
  <2>2. ASSUME NEW e \in (0 .. 1) \X (0 .. 1) \X (0 .. 1)
        PROVE  at(e) = Grads3(q)[<<c[1] + e[1], c[2] + e[2], c[3] + e[3]>>]
    <3> DEFINE k == Fast!CornerOf(c, e)  d == Fast!From(k, q)
    <3>1. k \in [1 .. 3 -> Int] /\ k[1] = c[1] + e[1] /\ k[2] = c[2] + e[2] /\ k[3] = c[3] + e[3]
      BY <1>2 DEF Fast!CornerOf
    <3>2. Len(k) = 3
      BY <3>1, Coordinates
    <3> HIDE DEF k
    <3>3. /\ d[1] = Simd!Minus(q[1], Simd!Whole(k[1])) /\ d[2] = Simd!Minus(q[2], Simd!Whole(k[2]))
          /\ d[3] = Simd!Minus(q[3], Simd!Whole(k[3]))
      BY <1>2, MinusAlike, WholeAlike DEF Fast!From
    <3> HIDE DEF d
    <3>4. Fast!GradAt(0, k, d) = Fast!GradCoord3D(0, k[1], k[2], k[3], d[1], d[2], d[3])
      BY <3>2 DEF Fast!GradAt
    <3>5. <<k[1], k[2], k[3]>> \in Int \X Int \X Int
      BY <3>1
    <3>6. Grads3(q)[<<k[1], k[2], k[3]>>] = Fast!GradCoord3D(0, k[1], k[2], k[3], d[1], d[2], d[3])
      BY <3>3, <3>5 DEF Grads3
    <3> QED
      BY <3>1, <3>4, <3>6 DEF k, d
  <2>3. \A e \in (0 .. 1) \X (0 .. 1) \X (0 .. 1) :
            v[e] = Grads3(q)[<<c[1] + e[1], c[2] + e[2], c[3] + e[3]>>]
    <3> HIDE DEF at
    <3> QED
      BY <2>2
  <2>4. \A a \in 1 .. 3 : s[a] = Weight(m.interp, Simd!Minus(q[a], Simd!Whole(c[a])))
    BY <1>2, FastSmoothed
  <2>5. Grads3(q) \in [Int \X Int \X Int -> Lowest]
    BY <1>2, GradsIn
  <2> HIDE DEF v, s
  <2> QED
    BY <1>2, <2>1, <2>3, <2>4, <2>5, Lerp3Is
<1> QED
  BY <1>1, <1>2

LEMMA FastCubicIn ==
  ASSUME FastAgreeing, NEW q, NEW c
  PROVE  /\ q \in [1 .. 2 -> Lowest] /\ c[1] \in Int /\ c[2] \in Int
            => Fast!CubicIn2(0, c, q) = Fast!Times(<<4, 9>>, On2("Cubic", Values2, c, q))
         /\ q \in [1 .. 3 -> Lowest] /\ c[1] \in Int /\ c[2] \in Int /\ c[3] \in Int
            => Fast!CubicIn3(0, c, q) = Fast!Times(<<8, 27>>, On3("Cubic", Values3, c, q))
<1>1. ASSUME q \in [1 .. 2 -> Lowest], c[1] \in Int, c[2] \in Int
      PROVE  Fast!CubicIn2(0, c, q) = Fast!Times(<<4, 9>>, On2("Cubic", Values2, c, q))
  <2> DEFINE v == [e \in (-1 .. 2) \X (-1 .. 2) |-> Fast!ValCoord2DFast(0, c[1] + e[1], c[2] + e[2])]
             t == Fast!From(c, q)
  <2>1. Fast!CubicIn2(0, c, q) = Fast!Times(<<4, 9>>, Fast!Cubic2(v, t))
    BY DEF Fast!CubicIn2, Fast!Four
  <2>2. \A e \in (-1 .. 2) \X (-1 .. 2) : v[e] = Values2[<<c[1] + e[1], c[2] + e[2]>>]
    BY <1>1 DEF Values2
  <2>3. \A a \in 1 .. 2 : t[a] = Simd!Minus(q[a], Simd!Whole(c[a])) /\ t[a] \in Lowest
    BY <1>1, MinusAlike, WholeAlike, WholeLowest, MinusLowest DEF Fast!From
  <2>4. Values2 \in [Int \X Int -> Lowest]
    BY ValuesIn
  <2>5. \A e \in (-1 .. 2) \X (-1 .. 2) : v[e] \in Lowest
    <3> HIDE DEF v
    <3>1. ASSUME NEW e \in (-1 .. 2) \X (-1 .. 2) PROVE <<c[1] + e[1], c[2] + e[2]>> \in Int \X Int
      BY <1>1
    <3> QED
      BY <2>2, <2>4, <3>1
  <2> HIDE DEF v, t
  <2>6. Fast!Cubic2(v, t) = Simd!Cubic2(v, t)
    BY <2>3, <2>5, FastCubic2
  <2>7. Simd!Cubic2(v, t) = On2("Cubic", Values2, c, q)
    BY <1>1, <2>2, <2>3, <2>4, Cubic2Is
  <2> QED
    BY <2>1, <2>6, <2>7
<1>2. ASSUME q \in [1 .. 3 -> Lowest], c[1] \in Int, c[2] \in Int, c[3] \in Int
      PROVE  Fast!CubicIn3(0, c, q) = Fast!Times(<<8, 27>>, On3("Cubic", Values3, c, q))
  <2> DEFINE v == [e \in (-1 .. 2) \X (-1 .. 2) \X (-1 .. 2) |->
                      Fast!ValCoord3DFast(0, c[1] + e[1], c[2] + e[2], c[3] + e[3])]
             t == Fast!From(c, q)
  <2>1. Fast!CubicIn3(0, c, q) = Fast!Times(<<8, 27>>, Fast!Cubic3(v, t))
    BY DEF Fast!CubicIn3, Fast!Four
  <2>2. \A e \in (-1 .. 2) \X (-1 .. 2) \X (-1 .. 2) :
            v[e] = Values3[<<c[1] + e[1], c[2] + e[2], c[3] + e[3]>>]
    BY <1>2 DEF Values3
  <2>3. \A a \in 1 .. 3 : t[a] = Simd!Minus(q[a], Simd!Whole(c[a])) /\ t[a] \in Lowest
    BY <1>2, MinusAlike, WholeAlike, WholeLowest, MinusLowest DEF Fast!From
  <2>4. Values3 \in [Int \X Int \X Int -> Lowest]
    BY ValuesIn
  <2>5. \A e \in (-1 .. 2) \X (-1 .. 2) \X (-1 .. 2) : v[e] \in Lowest
    <3> HIDE DEF v
    <3>1. ASSUME NEW e \in (-1 .. 2) \X (-1 .. 2) \X (-1 .. 2)
          PROVE  <<c[1] + e[1], c[2] + e[2], c[3] + e[3]>> \in Int \X Int \X Int
      BY <1>2
    <3> QED
      BY <2>2, <2>4, <3>1
  <2> HIDE DEF v, t
  <2>6. Fast!Cubic3(v, t) = Simd!Cubic3(v, t)
    BY <2>3, <2>5, FastCubic3
  <2>7. Simd!Cubic3(v, t) = On3("Cubic", Values3, c, q)
    BY <1>2, <2>2, <2>3, <2>4, Cubic3Is
  <2> QED
    BY <2>1, <2>6, <2>7
<1> QED
  BY <1>1, <1>2

LEMMA FastMeets2 ==
  ASSUME FastAgreeing, m.interp \in Fast!Interps, NEW q \in [1 .. 2 -> Lowest],
         NEW c \in [1 .. 2 -> Int], In(c[1], q[1]), In(c[2], q[2]),
         NEW d \in [1 .. 2 -> Int], In(d[1], q[1]), In(d[2], q[2])
  PROVE  /\ Fast!ValueIn2(0, c, q) = Fast!ValueIn2(0, d, q)
         /\ Fast!PerlinIn2(0, c, q) = Fast!PerlinIn2(0, d, q)
         /\ Fast!CubicIn2(0, c, q) = Fast!CubicIn2(0, d, q)
<1>1. m.interp \in Hows /\ "Cubic" \in Hows
  BY DEF Hows
<1>2. q[1] \in Lowest /\ q[2] \in Lowest
  OBVIOUS
<1>3. ASSUME NEW how \in Hows, NEW f \in [Int \X Int -> Lowest]
      PROVE  On2(how, f, c, q) = On2(how, f, d, q)
  BY <1>2, On2Meets
<1>4. Values2 \in [Int \X Int -> Lowest] /\ Grads2(q) \in [Int \X Int -> Lowest]
  BY <1>2, ValuesIn, GradsIn
<1>5. /\ On2(m.interp, Values2, c, q) = On2(m.interp, Values2, d, q)
      /\ On2(m.interp, Grads2(q), c, q) = On2(m.interp, Grads2(q), d, q)
      /\ On2("Cubic", Values2, c, q) = On2("Cubic", Values2, d, q)
  BY <1>1, <1>3, <1>4
<1>6. c[1] \in Int /\ c[2] \in Int /\ d[1] \in Int /\ d[2] \in Int
  OBVIOUS
<1>7. Fast!ValueIn2(0, c, q) = Fast!ValueIn2(0, d, q)
  BY <1>5, <1>6, FastValueIn
<1>8. Fast!PerlinIn2(0, c, q) = Fast!PerlinIn2(0, d, q)
  BY <1>5, FastPerlinIn
<1>9. Fast!CubicIn2(0, c, q) = Fast!CubicIn2(0, d, q)
  BY <1>5, <1>6, FastCubicIn
<1> QED
  BY <1>7, <1>8, <1>9

LEMMA FastMeets3 ==
  ASSUME FastAgreeing, m.interp \in Fast!Interps, NEW q \in [1 .. 3 -> Lowest],
         NEW c \in [1 .. 3 -> Int], InCell(c, q), NEW d \in [1 .. 3 -> Int], InCell(d, q)
  PROVE  /\ Fast!ValueIn3(0, c, q) = Fast!ValueIn3(0, d, q)
         /\ Fast!PerlinIn3(0, c, q) = Fast!PerlinIn3(0, d, q)
         /\ Fast!CubicIn3(0, c, q) = Fast!CubicIn3(0, d, q)
<1>1. m.interp \in Hows /\ "Cubic" \in Hows
  BY DEF Hows
<1>2. q[1] \in Lowest /\ q[2] \in Lowest /\ q[3] \in Lowest
  OBVIOUS
<1>3. ASSUME NEW how \in Hows, NEW f \in [Int \X Int \X Int -> Lowest]
      PROVE  On3(how, f, c, q) = On3(how, f, d, q)
  BY <1>2, On3Meets
<1>4. Values3 \in [Int \X Int \X Int -> Lowest] /\ Grads3(q) \in [Int \X Int \X Int -> Lowest]
  BY <1>2, ValuesIn, GradsIn
<1>5. /\ On3(m.interp, Values3, c, q) = On3(m.interp, Values3, d, q)
      /\ On3(m.interp, Grads3(q), c, q) = On3(m.interp, Grads3(q), d, q)
      /\ On3("Cubic", Values3, c, q) = On3("Cubic", Values3, d, q)
  BY <1>1, <1>3, <1>4
<1>6. c[1] \in Int /\ c[2] \in Int /\ c[3] \in Int /\ d[1] \in Int /\ d[2] \in Int /\ d[3] \in Int
  OBVIOUS
<1>7. Fast!ValueIn3(0, c, q) = Fast!ValueIn3(0, d, q)
  BY <1>5, <1>6, FastValueIn
<1>8. Fast!PerlinIn3(0, c, q) = Fast!PerlinIn3(0, d, q)
  BY <1>5, FastPerlinIn
<1>9. Fast!CubicIn3(0, c, q) = Fast!CubicIn3(0, d, q)
  BY <1>5, <1>6, FastCubicIn
<1> QED
  BY <1>7, <1>8, <1>9

\* The settings by which FastNoise places a point.
FastPlaced == {"frequency", "interp"} \subseteq DOMAIN m /\ m.frequency \in Lowest /\ m.interp \in Fast!Interps

LEMMA FastScaled ==
  ASSUME FastPlaced, NEW n \in 2 .. 3, NEW p, DOMAIN p = 1 .. n, \A a \in 1 .. n : p[a] \in Lowest
  PROVE  LET q == Fast!Scaled(p, m.frequency)
             f == Fast!Floors(q)
         IN  /\ q \in [1 .. n -> Lowest] /\ f \in [1 .. n -> Int] /\ Len(q) = n
             /\ \A a \in 1 .. n : In(f[a], q[a])
<1> DEFINE q == Fast!Scaled(p, m.frequency)
           f == Fast!Floors(q)
<1>1. q = [a \in 1 .. n |-> Simd!Times(p[a], m.frequency)]
  BY TimesAlike DEF Fast!Scaled
<1>2. \A a \in 1 .. n : Simd!Times(p[a], m.frequency) \in Lowest
  BY SumsLowest DEF FastPlaced
<1>3. q \in [1 .. n -> Lowest]
  BY <1>1, <1>2
<1> HIDE DEF q
<1>4. f = [a \in 1 .. n |-> Fast!FastFloor(q[a])]
  BY <1>3 DEF Fast!Floors
<1>5. \A a \in 1 .. n : In(Fast!FastFloor(q[a]), q[a])
  BY <1>3, FastFloorIn
<1>6. \A a \in 1 .. n : Fast!FastFloor(q[a]) \in Int
  BY <1>5 DEF In
<1>7. f \in [1 .. n -> Int] /\ \A a \in 1 .. n : In(f[a], q[a])
  BY <1>4, <1>5, <1>6
<1>8. n \in Nat
  OBVIOUS
<1>9. Len(q) = n
  BY <1>3, <1>8, Coordinates
<1> QED
  BY <1>3, <1>7, <1>9 DEF q

LEMMA FastCells ==
  ASSUME NEW q
  PROVE  /\ \A c \in Fast!CellsOf2(q) : c \in [1 .. 2 -> Int] /\ In(c[1], q[1]) /\ In(c[2], q[2])
         /\ \A c \in Fast!CellsOf3(q) : c \in [1 .. 3 -> Int] /\ InCell(c, q)
<1>1. ASSUME NEW n, NEW x, Fast!Leq(Fast!Whole(n), x), Fast!Leq(x, Fast!Whole(n + 1)), n \in Int
      PROVE  In(n, x)
  BY <1>1 DEF In, Fast!Leq, Simd!Leq, Fast!Whole, Simd!Whole
<1>2. ASSUME NEW c \in Fast!CellsOf2(q) PROVE c \in [1 .. 2 -> Int] /\ In(c[1], q[1]) /\ In(c[2], q[2])
  <2>1. /\ c \in (-4 .. 3) \X (-4 .. 3)
        /\ \A a \in 1 .. 2 : Fast!Leq(Fast!Whole(c[a]), q[a]) /\ Fast!Leq(q[a], Fast!Whole(c[a]+1))
    BY DEF Fast!CellsOf2
  <2>2. c \in [1 .. 2 -> Int]
    BY <2>1
  <2> QED
    BY <1>1, <2>1, <2>2
<1>3. ASSUME NEW c \in Fast!CellsOf3(q) PROVE c \in [1 .. 3 -> Int] /\ InCell(c, q)
  <2>1. /\ c \in (-4 .. 3) \X (-4 .. 3) \X (-4 .. 3)
        /\ \A a \in 1 .. 3 : Fast!Leq(Fast!Whole(c[a]), q[a]) /\ Fast!Leq(q[a], Fast!Whole(c[a]+1))
    BY DEF Fast!CellsOf3
  <2>2. c \in [1 .. 3 -> Int]
    BY <2>1
  <2> QED
    BY <1>1, <2>1, <2>2 DEF InCell
<1> QED
  BY <1>2, <1>3

LEMMA FastNoiseIs ==
  ASSUME NEW q
  PROVE  /\ Len(q) = 2 =>
               /\ Fast!Noise2("Value", q) = Fast!ValueIn2(0, Fast!Floors(q), q)
               /\ Fast!Noise2("Perlin", q) = Fast!PerlinIn2(0, Fast!Floors(q), q)
               /\ Fast!Noise2("Cubic", q) = Fast!CubicIn2(0, Fast!Floors(q), q)
         /\ Len(q) = 3 =>
               /\ Fast!Noise3("Value", q) = Fast!ValueIn3(0, Fast!Floors(q), q)
               /\ Fast!Noise3("Perlin", q) = Fast!PerlinIn3(0, Fast!Floors(q), q)
               /\ Fast!Noise3("Cubic", q) = Fast!CubicIn3(0, Fast!Floors(q), q)
<1>1. ASSUME NEW type \in {"Value", "Perlin", "Cubic"}
      PROVE  /\ Fast!Noise2(type, q) = Fast!SingleNoise(type, 0, q)
             /\ Fast!Noise3(type, q) = Fast!SingleNoise(type, 0, q)
  BY DEF Fast!Noise2, Fast!Noise3, Fast!Fractals
<1>2. ASSUME Len(q) = 2
      PROVE  /\ Fast!SingleNoise("Value", 0, q) = Fast!ValueIn2(0, Fast!Floors(q), q)
             /\ Fast!SingleNoise("Perlin", 0, q) = Fast!PerlinIn2(0, Fast!Floors(q), q)
             /\ Fast!SingleNoise("Cubic", 0, q) = Fast!CubicIn2(0, Fast!Floors(q), q)
  BY <1>2 DEF Fast!SingleNoise, Fast!SingleValue2, Fast!SinglePerlin2, Fast!SingleCubic2
<1>3. ASSUME Len(q) = 3
      PROVE  /\ Fast!SingleNoise("Value", 0, q) = Fast!ValueIn3(0, Fast!Floors(q), q)
             /\ Fast!SingleNoise("Perlin", 0, q) = Fast!PerlinIn3(0, Fast!Floors(q), q)
             /\ Fast!SingleNoise("Cubic", 0, q) = Fast!CubicIn3(0, Fast!Floors(q), q)
  BY <1>3 DEF Fast!SingleNoise, Fast!SingleValue3, Fast!SinglePerlin3, Fast!SingleCubic3
<1> QED
  BY <1>1, <1>2, <1>3

LEMMA FastCellsMeet ==
  ASSUME FastAgreeing, FastPlaced
  PROVE  Fast!CellsMeet
<1> SUFFICES ASSUME m.noiseType \in {"Value", "Perlin", "Cubic"}
             PROVE  /\ \A p \in Points2 : LET q == Fast!Scaled(p, m.frequency)
                                          IN  \A c \in Fast!CellsOf2(q) :
                                                  Fast!GetNoise2(p) = Fast!NoiseIn2(m.noiseType, c, q)
                    /\ \A p \in Points3 : LET q == Fast!Scaled(p, m.frequency)
                                          IN  \A c \in Fast!CellsOf3(q) :
                                                  Fast!GetNoise3(p) = Fast!NoiseIn3(m.noiseType, c, q)
  BY DEF Fast!CellsMeet
<1>0. m.interp \in Fast!Interps
  BY DEF FastPlaced
<1>1. ASSUME NEW p \in Points2, NEW c \in Fast!CellsOf2(Fast!Scaled(p, m.frequency))
      PROVE  Fast!GetNoise2(p) = Fast!NoiseIn2(m.noiseType, c, Fast!Scaled(p, m.frequency))
  <2> DEFINE q == Fast!Scaled(p, m.frequency)
             f == Fast!Floors(q)
  <2>1. DOMAIN p = 1 .. 2 /\ (\A a \in 1 .. 2 : p[a] \in Lowest) /\ 2 \in 2 .. 3
    BY FastFractions
  <2>2. /\ q \in [1 .. 2 -> Lowest] /\ f \in [1 .. 2 -> Int] /\ Len(q) = 2
        /\ \A a \in 1 .. 2 : In(f[a], q[a])
    BY <2>1, FastScaled
  <2>3. c \in [1 .. 2 -> Int] /\ In(c[1], q[1]) /\ In(c[2], q[2])
    BY FastCells
  <2>4. Fast!GetNoise2(p) = Fast!Noise2(m.noiseType, q)
    BY DEF Fast!GetNoise2
  <2> HIDE DEF q
  <2>5. In(f[1], q[1]) /\ In(f[2], q[2])
    BY <2>2
  <2>6. /\ Fast!ValueIn2(0, f, q) = Fast!ValueIn2(0, c, q)
        /\ Fast!PerlinIn2(0, f, q) = Fast!PerlinIn2(0, c, q)
        /\ Fast!CubicIn2(0, f, q) = Fast!CubicIn2(0, c, q)
    <3> HIDE DEF f
    <3> QED
      BY <1>0, <2>2, <2>3, <2>5, FastMeets2
  <2>7. Fast!Noise2(m.noiseType, q) = Fast!NoiseIn2(m.noiseType, c, q)
    BY <2>2, <2>6, FastNoiseIs DEF Fast!NoiseIn2
  <2> QED
    BY <2>4, <2>7 DEF q
<1>2. ASSUME NEW p \in Points3, NEW c \in Fast!CellsOf3(Fast!Scaled(p, m.frequency))
      PROVE  Fast!GetNoise3(p) = Fast!NoiseIn3(m.noiseType, c, Fast!Scaled(p, m.frequency))
  <2> DEFINE q == Fast!Scaled(p, m.frequency)
             f == Fast!Floors(q)
  <2>1. DOMAIN p = 1 .. 3 /\ (\A a \in 1 .. 3 : p[a] \in Lowest) /\ 3 \in 2 .. 3
    BY FastFractions
  <2>2. /\ q \in [1 .. 3 -> Lowest] /\ f \in [1 .. 3 -> Int] /\ Len(q) = 3
        /\ \A a \in 1 .. 3 : In(f[a], q[a])
    BY <2>1, FastScaled
  <2>3. c \in [1 .. 3 -> Int] /\ InCell(c, q)
    BY FastCells
  <2>4. Fast!GetNoise3(p) = Fast!Noise3(m.noiseType, q)
    BY DEF Fast!GetNoise3
  <2> HIDE DEF q
  <2>5. InCell(f, q)
    <3>1. In(f[1], q[1]) /\ In(f[2], q[2]) /\ In(f[3], q[3])
      BY <2>2
    <3> QED
      BY <3>1 DEF InCell
  <2>6. /\ Fast!ValueIn3(0, f, q) = Fast!ValueIn3(0, c, q)
        /\ Fast!PerlinIn3(0, f, q) = Fast!PerlinIn3(0, c, q)
        /\ Fast!CubicIn3(0, f, q) = Fast!CubicIn3(0, c, q)
    <3> HIDE DEF f
    <3> QED
      BY <1>0, <2>2, <2>3, <2>5, FastMeets3
  <2>7. Fast!Noise3(m.noiseType, q) = Fast!NoiseIn3(m.noiseType, c, q)
    BY <2>2, <2>6, FastNoiseIs DEF Fast!NoiseIn3
  <2> QED
    BY <2>4, <2>7 DEF q
<1> QED
  BY <1>1, <1>2

\* The hashes' numbers, at the points of the lattice.
SimdValues(seed) == [x \in Int \X Int \X Int |-> Simd!ValCoord(seed, x)]
SimdGrads(l, seed, q) == [x \in Int \X Int \X Int |-> Simd!GradFrom(l, seed, x, q)]

LEMMA SimdCorner ==
  ASSUME NEW c \in [1 .. 3 -> Int], NEW e \in (0 .. 1) \X (0 .. 1) \X (0 .. 1) \cup (-1 .. 2) \X (-1 .. 2) \X (-1 .. 2)
  PROVE  Simd!CornerOf(c, e) = <<c[1] + e[1], c[2] + e[2], c[3] + e[3]>>
BY DEF Simd!CornerOf

LEMMA SimdValuesIn ==
  ASSUME NEW seed \in Int
  PROVE  SimdValues(seed) \in [Int \X Int \X Int -> Lowest]
<1>1. ASSUME NEW x \in Int \X Int \X Int PROVE Simd!ValCoord(seed, x) \in Lowest
  <2> DEFINE h == seed + 5 * x[1] + 19 * x[2] + 37 * x[3]
  <2>1. h \in Int
    OBVIOUS
  <2>2. Simd!ValCoord(seed, x) = Simd!Q((h % 64) - 32, 32)
    BY DEF Simd!ValCoord, Simd!HashHB
  <2> HIDE DEF h
  <2>3. (h % 64) - 32 \in Int /\ 32 \in Nat /\ 32 > 0
    BY <2>1
  <2> HIDE DEF h
  <2>4. Is(Simd!Q((h % 64) - 32, 32), (h % 64) - 32, 32)
    BY <2>3, FractionIs
  <2> QED
    BY <2>2, <2>4 DEF Is
<1> QED
  BY <1>1 DEF SimdValues

LEMMA SimdGradLowest ==
  ASSUME NEW l, NEW seed \in Int, NEW x \in Int \X Int \X Int, NEW d \in [1 .. 3 -> Lowest]
  PROVE  Simd!GradCoord(l, seed, x, d) \in Lowest
<1> DEFINE h == Simd!Hash(seed, x)
<1>1. h \in 0 .. 15
  <2> DEFINE n == seed + x[1] + 5 * x[2] + 11 * x[3]
  <2>1. n \in Int
    OBVIOUS
  <2> HIDE DEF n
  <2>2. n % 16 \in 0 .. 15
    BY <2>1
  <2> QED
    BY <2>2 DEF Simd!Hash, n
<1>2. Simd!GradCoord(l, seed, x, d)
          = IF l = Simd!FN_AVX512 THEN Simd!GradByTable(h, d) ELSE Simd!GradByBits(h, d)
  BY DEF Simd!GradCoord
<1> HIDE DEF h
<1>3. Simd!GradCoord(l, seed, x, d) = Simd!GradByBits(h, d)
  BY <1>1, <1>2, DirectionsAlike
<1>4. ASSUME NEW negative, NEW a \in 1 .. 3 PROVE Signed(negative, d[a]) \in Lowest
  BY NegLowest DEF Signed
<1>5. ASSUME NEW e, NEW f, NEW a \in 1 .. 3, NEW b \in 1 .. 3
      PROVE  Simd!Plus(Signed(e, d[a]), Signed(f, d[b])) \in Lowest
  BY <1>4, SumsLowest
<1>6. Simd!GradByBits(h, d) \in Lowest
  <2> DEFINE e == h % 2 = 1
             f == (h \div 2) % 2 = 1
  <2>1. Simd!GradByBits(h, d) =
            IF h \in {12, 14} THEN Simd!Plus(Signed(e, d[2]), Signed(f, d[1]))
            ELSE IF h \in {0, 1, 2, 3} THEN Simd!Plus(Signed(e, d[1]), Signed(f, d[2]))
            ELSE IF h < 8 THEN Simd!Plus(Signed(e, d[1]), Signed(f, d[3]))
            ELSE Simd!Plus(Signed(e, d[2]), Signed(f, d[3]))
    BY <1>1, GradByBitsIs
  <2> HIDE DEF e, f
  <2>2. /\ Simd!Plus(Signed(e, d[2]), Signed(f, d[1])) \in Lowest
        /\ Simd!Plus(Signed(e, d[1]), Signed(f, d[2])) \in Lowest
        /\ Simd!Plus(Signed(e, d[1]), Signed(f, d[3])) \in Lowest
        /\ Simd!Plus(Signed(e, d[2]), Signed(f, d[3])) \in Lowest
    BY <1>5
  <2> QED
    BY <2>1, <2>2
<1> QED
  BY <1>3, <1>6

LEMMA SimdFromIn ==
  ASSUME NEW q \in [1 .. 3 -> Lowest], NEW c, c[1] \in Int, c[2] \in Int, c[3] \in Int
  PROVE  /\ Simd!From(c, q) \in [1 .. 3 -> Lowest]
         /\ \A a \in 1 .. 3 : Simd!From(c, q)[a] = Simd!Minus(q[a], Simd!Whole(c[a]))
<1>1. Simd!From(c, q) = [a \in 1 .. 3 |-> Simd!Minus(q[a], Simd!Whole(c[a]))]
  BY DEF Simd!From
<1>2. \A a \in 1 .. 3 : c[a] \in Int
  OBVIOUS
<1>3. \A a \in 1 .. 3 : Simd!Minus(q[a], Simd!Whole(c[a])) \in Lowest
  BY <1>2, WholeLowest, MinusLowest
<1> QED
  BY <1>1, <1>3

LEMMA SimdGradsIn ==
  ASSUME NEW l, NEW seed \in Int, NEW q \in [1 .. 3 -> Lowest]
  PROVE  SimdGrads(l, seed, q) \in [Int \X Int \X Int -> Lowest]
<1>1. ASSUME NEW x \in Int \X Int \X Int PROVE Simd!GradFrom(l, seed, x, q) \in Lowest
  <2>1. Simd!From(x, q) \in [1 .. 3 -> Lowest]
    BY SimdFromIn
  <2> QED
    BY <2>1, SimdGradLowest DEF Simd!GradFrom
<1> QED
  BY <1>1 DEF SimdGrads

LEMMA SimdSmoothed ==
  ASSUME NEW c, NEW q
  PROVE  \A a \in 1 .. 3 : Simd!Smoothed(c, q)[a] = Weight("Quintic", Simd!Minus(q[a], Simd!Whole(c[a])))
BY DEF Simd!Smoothed, Weight

LEMMA SimdBlends ==
  ASSUME NEW l, NEW seed \in Int, NEW q \in [1 .. 3 -> Lowest], NEW c \in [1 .. 3 -> Int]
  PROVE  /\ Simd!ValueIn(seed, c, q) = On3("Quintic", SimdValues(seed), c, q)
         /\ Simd!PerlinIn(l, seed, c, q) = On3("Quintic", SimdGrads(l, seed, q), c, q)
         /\ Simd!CubicIn(seed, c, q) = Simd!Times(On3("Cubic", SimdValues(seed), c, q), <<8, 27>>)
<1> DEFINE s == Simd!Smoothed(c, q)
           values == SimdValues(seed)
           grads == SimdGrads(l, seed, q)
<1>1. "Quintic" \in Fast!Interps
  BY DEF Fast!Interps
<1>2. \A a \in 1 .. 3 : s[a] = Weight("Quintic", Simd!Minus(q[a], Simd!Whole(c[a])))
  BY SimdSmoothed
<1>3. values \in [Int \X Int \X Int -> Lowest] /\ grads \in [Int \X Int \X Int -> Lowest]
  BY SimdValuesIn, SimdGradsIn
<1>4. c[1] \in Int /\ c[2] \in Int /\ c[3] \in Int
  OBVIOUS
<1>5. ASSUME NEW e \in (0 .. 1) \X (0 .. 1) \X (0 .. 1) \cup (-1 .. 2) \X (-1 .. 2) \X (-1 .. 2)
      PROVE  /\ Simd!ValCoord(seed, Simd!CornerOf(c, e)) = values[<<c[1] + e[1], c[2] + e[2], c[3] + e[3]>>]
             /\ Simd!GradFrom(l, seed, Simd!CornerOf(c, e), q)
                    = grads[<<c[1] + e[1], c[2] + e[2], c[3] + e[3]>>]
  <2>1. <<c[1] + e[1], c[2] + e[2], c[3] + e[3]>> \in Int \X Int \X Int
    BY <1>4
  <2> QED
    BY <2>1, SimdCorner DEF SimdValues, SimdGrads
<1> HIDE DEF s, values, grads
<1>6. Simd!ValueIn(seed, c, q) = On3("Quintic", values, c, q)
  <2> DEFINE v == [e \in (0 .. 1) \X (0 .. 1) \X (0 .. 1) |-> Simd!ValCoord(seed, Simd!CornerOf(c, e))]
  <2>1. Simd!ValueIn(seed, c, q) = Simd!Lerp3(v, s)
    BY DEF Simd!ValueIn, Simd!Cube, s
  <2>2. \A e \in (0 .. 1) \X (0 .. 1) \X (0 .. 1) : v[e] = values[<<c[1] + e[1], c[2] + e[2], c[3] + e[3]>>]
    BY <1>5
  <2> HIDE DEF v
  <2> QED
    BY <1>1, <1>2, <1>3, <1>4, <2>1, <2>2, Lerp3Is
<1>7. Simd!PerlinIn(l, seed, c, q) = On3("Quintic", grads, c, q)
  <2> DEFINE v == [e \in (0 .. 1) \X (0 .. 1) \X (0 .. 1) |-> Simd!GradFrom(l, seed, Simd!CornerOf(c, e), q)]
  <2>1. Simd!PerlinIn(l, seed, c, q) = Simd!Lerp3(v, s)
    BY DEF Simd!PerlinIn, Simd!Cube, s
  <2>2. \A e \in (0 .. 1) \X (0 .. 1) \X (0 .. 1) : v[e] = grads[<<c[1] + e[1], c[2] + e[2], c[3] + e[3]>>]
    BY <1>5
  <2> HIDE DEF v
  <2> QED
    BY <1>1, <1>2, <1>3, <1>4, <2>1, <2>2, Lerp3Is
<1>8. Simd!CubicIn(seed, c, q) = Simd!Times(On3("Cubic", values, c, q), <<8, 27>>)
  <2> DEFINE v == [e \in (-1 .. 2) \X (-1 .. 2) \X (-1 .. 2) |-> Simd!ValCoord(seed, Simd!CornerOf(c, e))]
             t == Simd!From(c, q)
  <2>1. Simd!CubicIn(seed, c, q) = Simd!Times(Simd!Cubic3(v, t), <<8, 27>>)
    BY DEF Simd!CubicIn, Simd!Four
  <2>2. \A e \in (-1 .. 2) \X (-1 .. 2) \X (-1 .. 2) :
            v[e] = values[<<c[1] + e[1], c[2] + e[2], c[3] + e[3]>>]
    BY <1>5
  <2>3. \A a \in 1 .. 3 : t[a] = Simd!Minus(q[a], Simd!Whole(c[a]))
    BY <1>4, SimdFromIn
  <2> HIDE DEF v, t
  <2> QED
    BY <1>3, <1>4, <2>1, <2>2, <2>3, Cubic3Is
<1> QED
  BY <1>6, <1>7, <1>8 DEF values, grads

\* The settings by which FastNoiseSIMD places a point.
SimdPlaced ==
    m # Simd!NoObject =>
        /\ {"frequency", "scales"} \subseteq DOMAIN m
        /\ m.frequency \in Lowest /\ m.scales \in [1 .. 3 -> Lowest]

LEMMA SimdPlacedIn ==
  ASSUME SimdPlaced, m # Simd!NoObject, NEW p \in Points
  PROVE  Simd!Placed(p, Simd!One) \in [1 .. 3 -> Lowest]
<1>1. p \in [1 .. 3 -> Lowest]
  BY NoiseAssumption, LowestTermsAre DEF Simd!Assumption, Simd!Triples
<1>2. m.frequency \in Lowest /\ m.scales \in [1 .. 3 -> Lowest]
  BY DEF SimdPlaced
<1>3. ASSUME NEW a \in 1 .. 3
      PROVE  Simd!Times(p[a], Simd!Times(Simd!Times(Simd!One, m.frequency), m.scales[a])) \in Lowest
  <2>1. p[a] \in Lowest /\ m.scales[a] \in Lowest
    BY <1>1, <1>2
  <2>2. Simd!Times(Simd!One, m.frequency) \in Lowest
    BY <1>2, ZeroAndOne, SumsLowest
  <2>3. Simd!Times(Simd!Times(Simd!One, m.frequency), m.scales[a]) \in Lowest
    BY <2>1, <2>2, SumsLowest
  <2> QED
    BY <2>1, <2>3, SumsLowest
<1> QED
  BY <1>3 DEF Simd!Placed

LEMMA SimdCells ==
  ASSUME NEW q \in [1 .. 3 -> Lowest]
  PROVE  /\ \A l : Simd!CellOf(l, q) \in [1 .. 3 -> Int] /\ InCell(Simd!CellOf(l, q), q)
         /\ \A c \in Simd!CellsOf(q) : c \in [1 .. 3 -> Int] /\ InCell(c, q)
<1>1. ASSUME NEW a \in 1 .. 3
      PROVE  LET k == q[a][1] \div q[a][2]
             IN  /\ k \in Int /\ In(k, q[a])
                 /\ \A n \in k - 1 .. k : Simd!Leq(q[a], Simd!Whole(n + 1)) => In(n, q[a])
  <2> DEFINE x == q[a][1]  b == q[a][2]  k == x \div b
  <2>1. x \in Int /\ b \in Nat /\ b > 0
    BY LowestTyped
  <2>2. \A n : /\ Simd!Leq(Simd!Whole(n), q[a]) <=> n * b <= x * 1
               /\ Simd!Leq(q[a], Simd!Whole(n + 1)) <=> x * 1 <= (n + 1) * b
    BY DEF Simd!Leq, Simd!Whole
  <2> HIDE DEF x, b
  <2>3. k \in Int /\ k * b <= x /\ x < (k + 1) * b
    BY <2>1, FloorBetween
  <2> HIDE DEF k
  <2>4. In(k, q[a])
    <3>1. (k + 1) * b \in Int /\ k * b \in Int
      BY <2>1, <2>3
    <3> QED
      BY <2>1, <2>2, <2>3, <3>1 DEF In
  <2>5. ASSUME NEW n \in k - 1 .. k, Simd!Leq(q[a], Simd!Whole(n + 1)) PROVE In(n, q[a])
    <3>1. n \in Int /\ (n = k \/ n = k - 1)
      BY <2>3, <2>5
    <3>2. (k - 1) * b = k * b - b
      BY <2>1, <2>3
    <3>3. k * b \in Int
      BY <2>1, <2>3
    <3>4. n * b <= x * 1
      BY <2>1, <2>3, <3>1, <3>2, <3>3
    <3> QED
      BY <2>2, <2>5, <3>1, <3>4 DEF In
  <2> QED
    BY <2>3, <2>4, <2>5 DEF k, x, b
<1>2. ASSUME NEW l PROVE Simd!CellOf(l, q) \in [1 .. 3 -> Int] /\ InCell(Simd!CellOf(l, q), q)
  <2> DEFINE f == Simd!CellOf(l, q)
  <2>1. ASSUME NEW a \in 1 .. 3 PROVE Simd!FloorOf(l, q[a]) \in Int /\ In(Simd!FloorOf(l, q[a]), q[a])
    <3>1. Positive(q[a])
      BY LowestTyped DEF Positive
    <3>2. Simd!FloorOf(l, q[a]) = q[a][1] \div q[a][2]
      BY <3>1, FloorsAlike
    <3> QED
      BY <1>1, <3>2
  <2>2. f = [a \in 1 .. 3 |-> Simd!FloorOf(l, q[a])]
    BY DEF Simd!CellOf
  <2> HIDE DEF f
  <2>3. f \in [1 .. 3 -> Int] /\ In(f[1], q[1]) /\ In(f[2], q[2]) /\ In(f[3], q[3])
    BY <2>1, <2>2
  <2> QED
    BY <2>3 DEF InCell, f
<1>3. ASSUME NEW c \in Simd!CellsOf(q) PROVE c \in [1 .. 3 -> Int] /\ InCell(c, q)
  <2> DEFINE k(a) == q[a][1] \div q[a][2]
             low(a) == {n \in k(a) - 1 .. k(a) : Simd!Leq(q[a], Simd!Whole(n + 1))}
  <2>1. c \in low(1) \X low(2) \X low(3)
    BY DEF Simd!CellsOf
  <2>2. ASSUME NEW a \in 1 .. 3, NEW n \in low(a) PROVE n \in Int /\ In(n, q[a])
    BY <1>1, <2>2 DEF In
  <2> HIDE DEF low
  <2>3. c = <<c[1], c[2], c[3]>> /\ c[1] \in low(1) /\ c[2] \in low(2) /\ c[3] \in low(3)
    BY <2>1
  <2>4. c[1] \in Int /\ c[2] \in Int /\ c[3] \in Int /\ In(c[1], q[1]) /\ In(c[2], q[2]) /\ In(c[3], q[3])
    BY <2>2, <2>3
  <2>5. <<c[1], c[2], c[3]>> \in [1 .. 3 -> Int]
    BY <2>4
  <2> QED
    BY <2>3, <2>4, <2>5 DEF InCell
<1> QED
  BY <1>2, <1>3

LEMMA SimdCellsMeet ==
  ASSUME Agreeing, SimdPlaced
  PROVE  Simd!CellsMeet
<1> SUFFICES ASSUME m # Simd!NoObject, NEW p \in Points, NEW c \in Simd!CellsOf(Simd!Placed(p, Simd!One))
             PROVE  LET q == Simd!Placed(p, Simd!One)
                    IN  /\ Simd!ValueSingle(m.class, m.seed, q) = Simd!ValueIn(m.seed, c, q)
                        /\ Simd!PerlinSingle(m.class, m.seed, q) = Simd!PerlinIn(m.class, m.seed, c, q)
                        /\ Simd!CubicSingle(m.class, m.seed, q) = Simd!CubicIn(m.seed, c, q)
  BY DEF Simd!CellsMeet
<1> DEFINE q == Simd!Placed(p, Simd!One)
           f == Simd!CellOf(m.class, q)
<1>1. q \in [1 .. 3 -> Lowest]
  BY SimdPlacedIn
<1>2. m.seed \in Int
  BY DEF Agreeing, NumbersTyped
<1> HIDE DEF q
<1>3. f \in [1 .. 3 -> Int] /\ InCell(f, q) /\ c \in [1 .. 3 -> Int] /\ InCell(c, q)
  BY <1>1, SimdCells DEF q
<1>4. /\ Simd!ValueSingle(m.class, m.seed, q) = Simd!ValueIn(m.seed, f, q)
      /\ Simd!PerlinSingle(m.class, m.seed, q) = Simd!PerlinIn(m.class, m.seed, f, q)
      /\ Simd!CubicSingle(m.class, m.seed, q) = Simd!CubicIn(m.seed, f, q)
  BY DEF Simd!ValueSingle, Simd!PerlinSingle, Simd!CubicSingle
<1> HIDE DEF f
<1>5. ASSUME NEW how \in Hows, NEW g \in [Int \X Int \X Int -> Lowest]
      PROVE  On3(how, g, f, q) = On3(how, g, c, q)
  <2>1. q[1] \in Lowest /\ q[2] \in Lowest /\ q[3] \in Lowest
    BY <1>1
  <2> QED
    BY <1>3, <2>1, On3Meets
<1>6. "Quintic" \in Hows /\ "Cubic" \in Hows
  BY DEF Hows, Fast!Interps
<1>7. /\ SimdValues(m.seed) \in [Int \X Int \X Int -> Lowest]
      /\ SimdGrads(m.class, m.seed, q) \in [Int \X Int \X Int -> Lowest]
  BY <1>1, <1>2, SimdValuesIn, SimdGradsIn
<1>8. /\ On3("Quintic", SimdValues(m.seed), f, q) = On3("Quintic", SimdValues(m.seed), c, q)
      /\ On3("Quintic", SimdGrads(m.class, m.seed, q), f, q)
             = On3("Quintic", SimdGrads(m.class, m.seed, q), c, q)
      /\ On3("Cubic", SimdValues(m.seed), f, q) = On3("Cubic", SimdValues(m.seed), c, q)
  BY <1>5, <1>6, <1>7
<1>9. ASSUME NEW k \in {f, c}
      PROVE  /\ Simd!ValueIn(m.seed, k, q) = On3("Quintic", SimdValues(m.seed), k, q)
             /\ Simd!PerlinIn(m.class, m.seed, k, q) = On3("Quintic", SimdGrads(m.class, m.seed, q), k, q)
             /\ Simd!CubicIn(m.seed, k, q) = Simd!Times(On3("Cubic", SimdValues(m.seed), k, q), <<8, 27>>)
  <2>1. k \in [1 .. 3 -> Int]
    BY <1>3
  <2> QED
    BY <1>1, <1>2, <2>1, SimdBlends
<1> QED
  BY <1>4, <1>8, <1>9 DEF q

LEMMA FastInitPlaced ==
  ASSUME Fast!Init
  PROVE  FastPlaced
<1> DEFINE d == Fast!Defaults
<1>1. {"frequency", "interp"} \subseteq DOMAIN d /\ d.frequency = Fast!One /\ d.interp = "Quintic"
  BY DEF Fast!Defaults
<1> HIDE DEF d
<1>2. m = d
  BY DEF Fast!Init, d
<1> QED
  BY <1>1, <1>2, ZeroAndOne DEF FastPlaced, Fast!Interps, Fast!One, Simd!One

LEMMA FastStepPlaced ==
  ASSUME FastPlaced, Fast!Next
  PROVE  FastPlaced'
<1> DEFINE names == {"frequency", "interp"}
<1>1. ASSUME DOMAIN m' = DOMAIN m, m'.frequency \in Lowest, m'.interp \in Fast!Interps PROVE FastPlaced'
  BY <1>1 DEF FastPlaced
<1>2. ASSUME NEW name, name \notin names, NEW value, m' = [m EXCEPT ![name] = value] PROVE FastPlaced'
  <2>1. DOMAIN m' = DOMAIN m /\ m'.frequency = m.frequency /\ m'.interp = m.interp
    BY <1>2 DEF FastPlaced
  <2> QED
    BY <1>1, <2>1 DEF FastPlaced
<1>3. ASSUME NEW seed, Fast!SetSeed(seed) PROVE FastPlaced'
  BY <1>2, <1>3 DEF Fast!SetSeed
<1>4. ASSUME NEW f \in {Fast!One, Fast!Whole(2)}, Fast!SetFrequency(f) PROVE FastPlaced'
  <2>1. f \in Lowest
    <3>1. Simd!Whole(2) \in Lowest
      BY WholeLowest
    <3> QED
      BY <3>1, ZeroAndOne DEF Fast!One, Simd!One, Fast!Whole, Simd!Whole
  <2>2. DOMAIN m' = DOMAIN m /\ m'.frequency = f /\ m'.interp = m.interp
    BY <1>4 DEF Fast!SetFrequency, Fast!Setting, FastPlaced
  <2> QED
    BY <1>1, <2>1, <2>2 DEF FastPlaced
<1>5. ASSUME NEW interp \in Fast!Interps, Fast!SetInterp(interp) PROVE FastPlaced'
  <2>1. DOMAIN m' = DOMAIN m /\ m'.frequency = m.frequency /\ m'.interp = interp
    BY <1>5 DEF Fast!SetInterp, Fast!Setting, FastPlaced
  <2> QED
    BY <1>1, <2>1 DEF FastPlaced
<1>6. ASSUME NEW f, \/ Fast!SetNoiseType(f) \/ Fast!SetFractalLacunarity(f) \/ Fast!SetFractalType(f)
                    \/ Fast!SetCellularDistanceFunction(f) \/ Fast!SetCellularReturnType(f)
                    \/ Fast!SetCellularNoiseLookup(f) \/ Fast!SetCellularJitter(f)
                    \/ Fast!SetGradientPerturbAmp(f)
      PROVE  FastPlaced'
  <2>1. \E name \in {"noiseType", "lacunarity", "fractalType", "cellularDistanceFunction",
                     "cellularReturnType", "cellularNoiseLookup", "cellularJitter", "gradientPerturbAmp"} :
            m' = [m EXCEPT ![name] = f]
    BY <1>6 DEF Fast!Setting, Fast!SetNoiseType, Fast!SetFractalLacunarity, Fast!SetFractalType,
                Fast!SetCellularDistanceFunction, Fast!SetCellularReturnType,
                Fast!SetCellularNoiseLookup, Fast!SetCellularJitter, Fast!SetGradientPerturbAmp
  <2>2. PICK name \in {"noiseType", "lacunarity", "fractalType", "cellularDistanceFunction",
                       "cellularReturnType", "cellularNoiseLookup", "cellularJitter", "gradientPerturbAmp"} :
            m' = [m EXCEPT ![name] = f]
    BY <2>1
  <2>3. name \notin names
    BY <2>2
  <2> QED
    BY <1>2, <2>2, <2>3
<1>7. ASSUME NEW n, NEW value, NEW other, NEW k, n \notin names, k \notin names,
             m' = [m EXCEPT ![n] = value, ![k] = other]
      PROVE  FastPlaced'
  <2>1. DOMAIN m' = DOMAIN m /\ m'.frequency = m.frequency /\ m'.interp = m.interp
    BY <1>7 DEF FastPlaced
  <2> QED
    BY <1>1, <2>1 DEF FastPlaced
<1>8. /\ "octaves" \notin names /\ "gain" \notin names /\ "fractalBounding" \notin names
      /\ "cellularDistanceIndex0" \notin names /\ "cellularDistanceIndex1" \notin names
  OBVIOUS
<1>9. ASSUME NEW n, Fast!SetFractalOctaves(n) \/ Fast!SetFractalGain(n) PROVE FastPlaced'
  <2>1. \E b : \/ m' = [m EXCEPT !.octaves = n, !.fractalBounding = b]
               \/ m' = [m EXCEPT !.gain = n, !.fractalBounding = b]
    BY <1>9 DEF Fast!SetFractalOctaves, Fast!SetFractalGain, Fast!Setting
  <2> QED
    BY <1>7, <1>8, <2>1
<1>10. ASSUME NEW i, NEW j, Fast!SetCellularDistance2Indices(i, j) PROVE FastPlaced'
  <2>1. \E a, b : m' = [m EXCEPT !.cellularDistanceIndex0 = a, !.cellularDistanceIndex1 = b]
    BY <1>10 DEF Fast!SetCellularDistance2Indices, Fast!Setting
  <2> QED
    BY <1>7, <1>8, <2>1
<1> QED
  BY <1>3, <1>4, <1>5, <1>6, <1>9, <1>10 DEF Fast!Next

LEMMA SimdPlacedSame ==
  ASSUME SimdPlaced, m' = m
  PROVE  SimdPlaced'
BY DEF SimdPlaced

LEMMA SettingPlaces ==
  ASSUME SimdPlaced, m # Simd!NoObject, DOMAIN m' = DOMAIN m,
         m'.frequency = m.frequency, m'.scales = m.scales
  PROVE  SimdPlaced'
BY DEF SimdPlaced

LEMMA CreatedPlaces ==
  ASSUME NEW class, NEW seed, m' = Simd!Defaults(class, seed)
  PROVE  SimdPlaced'
<1> DEFINE d == Simd!Defaults(class, seed)
<1>1. /\ {"frequency", "scales"} \subseteq DOMAIN d
      /\ d.frequency = Simd!One /\ d.scales = <<Simd!One, Simd!One, Simd!One>>
  BY DEF Simd!Defaults
<1> HIDE DEF d
<1>2. m' = d
  BY DEF d
<1>3. <<Simd!One, Simd!One, Simd!One>> \in [1 .. 3 -> Lowest]
  BY ZeroAndOne
<1> QED
  BY <1>1, <1>2, <1>3, ZeroAndOne DEF SimdPlaced

LEMMA SetMemberPlaces ==
  ASSUME SimdPlaced, NEW name \in DOMAIN Values, Simd!SetMember(name)
  PROVE  SimdPlaced'
<1>1. PICK value \in Values[name] : Simd!Setting([m EXCEPT ![name] = value])
  BY DEF Simd!SetMember
<1>2. m # Simd!NoObject /\ m' = [m EXCEPT ![name] = value]
  BY <1>1 DEF Simd!Setting
<1>3. /\ {"frequency", "scales"} \subseteq DOMAIN m
      /\ m.frequency \in Lowest /\ m.scales \in [1 .. 3 -> Lowest]
  BY <1>2 DEF SimdPlaced
<1>4. /\ DOMAIN m' = DOMAIN m
      /\ m'.frequency = IF name = "frequency" THEN value ELSE m.frequency
      /\ m'.scales = IF name = "scales" THEN value ELSE m.scales
  BY <1>2, <1>3
<1>5. name = "frequency" => value \in Lowest
  BY NoiseAssumption, LowestTermsAre DEF Simd!Assumption
<1>6. name = "scales" => value \in [1 .. 3 -> Lowest]
  BY NoiseAssumption, LowestTermsAre DEF Simd!Assumption, Simd!Triples
<1> QED
  BY <1>3, <1>4, <1>5, <1>6 DEF SimdPlaced

LEMMA SimdStepPlaces ==
  ASSUME SimdPlaced, Simd!Next
  PROVE  SimdPlaced'
<1> DEFINE others == {"octaves", "gain", "fractalBounding", "perturbAmp", "perturbOctaves", "perturbGain",
                      "perturbFractalBounding", "cellularDistanceIndex0", "cellularDistanceIndex1"}
<1>1. ASSUME NEW l, Simd!SetSIMDLevel(l) PROVE SimdPlaced'
  BY <1>1, SimdPlacedSame DEF Simd!SetSIMDLevel
<1>2. ASSUME NEW seed, Simd!NewFastNoiseSIMD(seed) PROVE SimdPlaced'
  BY <1>2, CreatedPlaces DEF Simd!NewFastNoiseSIMD
<1>3. ASSUME NEW name \in DOMAIN Values, Simd!SetMember(name) PROVE SimdPlaced'
  BY <1>3, SetMemberPlaces
<1>4. ASSUME NEW n \in others, NEW k \in others, NEW v, NEW w,
             Simd!Setting([m EXCEPT ![n] = v, ![k] = w]) \/ Simd!Setting([m EXCEPT ![n] = v])
      PROVE  SimdPlaced'
  <2>1. m # Simd!NoObject /\ (m' = [m EXCEPT ![n] = v, ![k] = w] \/ m' = [m EXCEPT ![n] = v])
    BY <1>4 DEF Simd!Setting
  <2>2. {"frequency", "scales"} \subseteq DOMAIN m
    BY <2>1 DEF SimdPlaced
  <2>3. n \notin {"frequency", "scales"} /\ k \notin {"frequency", "scales"}
    OBVIOUS
  <2> HIDE DEF others
  <2>4. DOMAIN m' = DOMAIN m /\ m'.frequency = m.frequency /\ m'.scales = m.scales
    BY <2>1, <2>2, <2>3
  <2> QED
    BY <2>1, <2>4, SettingPlaces
<1>5. ASSUME NEW n, \/ Simd!SetFractalOctaves(n) \/ Simd!SetPerturbFractalOctaves(n)
                    \/ Simd!SetFractalGain(n) \/ Simd!SetPerturbFractalGain(n)
      PROVE  SimdPlaced'
  <2>1. \E b : \/ Simd!Setting([m EXCEPT !.octaves = n, !.fractalBounding = b])
               \/ Simd!Setting([m EXCEPT !.gain = n, !.fractalBounding = b])
               \/ Simd!Setting([m EXCEPT !.perturbOctaves = n, !.perturbFractalBounding = b])
               \/ Simd!Setting([m EXCEPT !.perturbGain = n, !.perturbFractalBounding = b])
    BY <1>5 DEF Simd!SetFractalOctaves, Simd!SetPerturbFractalOctaves, Simd!SetFractalGain,
                Simd!SetPerturbFractalGain
  <2>2. /\ "octaves" \in others /\ "gain" \in others /\ "fractalBounding" \in others
        /\ "perturbOctaves" \in others /\ "perturbGain" \in others /\ "perturbFractalBounding" \in others
    OBVIOUS
  <2> HIDE DEF others
  <2> QED
    BY <1>4, <2>1, <2>2
<1>6. ASSUME NEW amp, Simd!SetPerturbAmp(amp) PROVE SimdPlaced'
  <2>1. \E a : Simd!Setting([m EXCEPT !.perturbAmp = a])
    BY <1>6 DEF Simd!SetPerturbAmp
  <2>2. "perturbAmp" \in others
    OBVIOUS
  <2> HIDE DEF others
  <2> QED
    BY <1>4, <2>1, <2>2
<1>7. ASSUME NEW i, NEW j, Simd!SetCellularDistance2Indicies(i, j) PROVE SimdPlaced'
  <2>1. \E a, b : Simd!Setting([m EXCEPT !.cellularDistanceIndex0 = a, !.cellularDistanceIndex1 = b])
    BY <1>7 DEF Simd!SetCellularDistance2Indicies
  <2>2. "cellularDistanceIndex0" \in others /\ "cellularDistanceIndex1" \in others
    OBVIOUS
  <2> HIDE DEF others
  <2> QED
    BY <1>4, <2>1, <2>2
<1>8. ASSUME NEW set, Simd!Fills(set) \/ Simd!NewVectorSet(set) PROVE SimdPlaced'
  BY <1>8, SimdPlacedSame DEF Simd!Fills, Simd!NewVectorSet
<1>9. ASSUME NEW start, NEW block, NEW scale, Simd!GetNoiseSet(start, block, scale) PROVE SimdPlaced'
  BY <1>8, <1>9 DEF Simd!GetNoiseSet, Simd!Gets
<1>10. ASSUME NEW kind, NEW block, Simd!GetSet(kind, <<0, 0, 0>>, block, Simd!One) PROVE SimdPlaced'
  BY <1>8, <1>10 DEF Simd!GetSet, Simd!Gets
<1>11. ASSUME NEW start, NEW block, NEW s, Simd!GetSampledNoiseSet(start, block, s) PROVE SimdPlaced'
  BY <1>8, <1>11 DEF Simd!GetSampledNoiseSet, Simd!Gets
<1>12. ASSUME NEW kind, NEW offset, Simd!FillFromVectors(kind, offset) PROVE SimdPlaced'
  BY <1>8, <1>12 DEF Simd!FillFromVectors
<1>13. ASSUME NEW offset, Simd!FillSampledFromVectors(offset) PROVE SimdPlaced'
  BY <1>8, <1>13 DEF Simd!FillSampledFromVectors
<1>14. ASSUME NEW block, Simd!FillVectorSet(block) PROVE SimdPlaced'
  BY <1>8, <1>14 DEF Simd!FillVectorSet
<1>15. ASSUME NEW block, NEW s, Simd!FillSamplingVectorSet(s, block) PROVE SimdPlaced'
  BY <1>8, <1>14, <1>15 DEF Simd!FillSamplingVectorSet
<1>16. ASSUME Simd!FreeNoiseSet \/ Simd!FreeVectorSet PROVE SimdPlaced'
  BY <1>16, SimdPlacedSame DEF Simd!FreeNoiseSet, Simd!FreeVectorSet
<1> HIDE DEF others
<1> QED
  BY <1>1, <1>2, <1>3, <1>5, <1>6, <1>7, <1>9, <1>10, <1>11, <1>12, <1>13, <1>14, <1>15, <1>16
     DEF Simd!Next

PlacedInv ==
    \/ library = "FastNoise" /\ FastPlaced
    \/ library = "FastNoiseSIMD" /\ SimdPlaced

\* Noise of values, of gradients and by cubic interpolation is the same from every
\* cell that a point is in or at the border of, whatever the tables hold, by
\* FastNoise in the plane and in space, with each of the ways to smooth
\* (FastNoise.cpp), and by every instruction set (FastNoiseSIMD_internal.cpp).
THEOREM CellsMeetCorrect == Spec => []CellsMeet
<1>1. Init => PlacedInv
  <2>1. CASE library = "FastNoise" /\ Fast!Init
    BY <2>1, FastInitPlaced DEF PlacedInv
  <2>2. CASE library = "FastNoiseSIMD" /\ Simd!Init
    BY <2>2 DEF PlacedInv, SimdPlaced, Simd!Init
  <2> QED
    BY <2>1, <2>2 DEF Init
<1>2. PlacedInv /\ [Next]_vars => PlacedInv'
  <2> SUFFICES ASSUME PlacedInv, [Next]_vars PROVE PlacedInv'
    OBVIOUS
  <2>1. CASE library = "FastNoise" /\ Fast!Next /\ UNCHANGED <<library, level, vectorSet, noiseSet>>
    <3>1. library # "FastNoiseSIMD"
      BY <2>1
    <3> QED
      BY <2>1, <3>1, FastStepPlaced DEF PlacedInv
  <2>2. CASE library = "FastNoiseSIMD" /\ Simd!Next /\ UNCHANGED <<library, perm, perm12>>
    <3>1. library # "FastNoise"
      BY <2>2
    <3> QED
      BY <2>2, <3>1, SimdStepPlaces DEF PlacedInv
  <2>3. CASE UNCHANGED vars
    <3>1. library' = library /\ m' = m
      BY <2>3 DEF vars
    <3>2. FastPlaced => FastPlaced'
      BY <3>1 DEF FastPlaced
    <3>3. SimdPlaced => SimdPlaced'
      BY <3>1, SimdPlacedSame
    <3> QED
      BY <3>1, <3>2, <3>3 DEF PlacedInv
  <2> QED
    BY <2>1, <2>2, <2>3 DEF Next
<1>3. SettingsInv /\ PlacedInv => CellsMeet
  <2>1. ASSUME library = "FastNoise", SettingsInv, PlacedInv PROVE CellsMeet
    <3>1. FastAgreeing /\ FastPlaced
      BY <2>1 DEF SettingsInv, PlacedInv
    <3> QED
      BY <2>1, <3>1, FastCellsMeet DEF CellsMeet
  <2>2. ASSUME library = "FastNoiseSIMD", SettingsInv, PlacedInv PROVE CellsMeet
    <3>1. Agreeing /\ SimdPlaced /\ library # "FastNoise"
      BY <2>2 DEF SettingsInv, PlacedInv
    <3> QED
      BY <3>1, SimdCellsMeet DEF CellsMeet
  <2> QED
    BY <2>1, <2>2 DEF SettingsInv
<1> QED
  BY <1>1, <1>2, <1>3, SettingsInvInit, SettingsInvStep, PTL DEF Spec
=============================================================================
