--------------------------- MODULE NoiseGeometry ----------------------------
(***************************************************************************)
(* What both noise libraries do with numbers: interpolation between the    *)
(* points of the lattice of integers, the simplices that its cubes fall    *)
(* into, and the nearest of some cells.                                    *)
(***************************************************************************)
EXTENDS Integers, Sequences, FiniteSets, SequencesExt

\* FN_DECIMAL: floating-point numbers, as the rational numbers they stand for.
\* <<n, d>> is n/d in lowest terms, d > 0.  Rounding is left out.
Magnitude(n) == IF n < 0 THEN -n ELSE n

Gcd[c \in Nat \X Nat] == IF c[2] = 0 THEN c[1] ELSE Gcd[<<c[2], c[1] % c[2]>>]

Reduced(n, d, g) == <<n \div g, d \div g>>
Q(n, d) == Reduced(n, d, Gcd[<<Magnitude(n), d>>])

\* Only what the assumptions say of tables, settings and points.
LowestTerms == {p \in Int \X (Nat \ {0}) : Q(p[1], p[2]) = p}

Zero == <<0, 1>>
One == <<1, 1>>
Half == <<1, 2>>
Whole(n) == <<n, 1>>

PlusOver(p, q, g) == Q(p[1] * (q[2] \div g) + q[1] * (p[2] \div g), p[2] * (q[2] \div g))
Plus(p, q) == PlusOver(p, q, Gcd[<<p[2], q[2]>>])

Neg(p) == <<-p[1], p[2]>>
Minus(p, q) == Plus(p, Neg(q))

\* Crosswise reduced before they are multiplied, to keep the numbers small.
TimesOver(p, q, g, h) == <<(p[1] \div g) * (q[1] \div h), (p[2] \div h) * (q[2] \div g)>>
Times(p, q) == TimesOver(p, q, Gcd[<<Magnitude(p[1]), q[2]>>], Gcd[<<Magnitude(q[1]), p[2]>>])

\* 1/q for q > 0.
Reciprocal(q) == <<q[2], q[1]>>

Leq(p, q) == p[1] * q[2] <= q[1] * p[2]
Less(p, q) == p[1] * q[2] < q[1] * p[2]
Least(p, q) == IF Leq(p, q) THEN p ELSE q
Greatest(p, q) == IF Leq(p, q) THEN q ELSE p
AbsQ(p) == <<Magnitude(p[1]), p[2]>>

SumQ(p) ==
    LET sum[n \in 0 .. Cardinality(DOMAIN p)] ==
            IF n = 0 THEN Zero ELSE Plus(p[n], sum[n-1])
    IN  sum[Cardinality(DOMAIN p)]

\* (int)f: towards zero.
Truncated(p) == IF p[1] >= 0 THEN p[1] \div p[2] ELSE -((-p[1]) \div p[2])

-----------------------------------------------------------------------------

Scaled(p, factor) == [i \in DOMAIN p |-> Times(p[i], factor)]

\* A corner of a cell, and where a point is from there.
CornerOf(c, e) == [a \in DOMAIN c |-> c[a] + e[a]]
From(c, p) == [a \in DOMAIN p |-> Minus(p[a], Whole(c[a]))]

-----------------------------------------------------------------------------
Lerp(p, q, t) == Plus(p, Times(t, Minus(q, p)))

\* What is known at the corners of a square or a cube, weighted by the distances.
Square == (0 .. 1) \X (0 .. 1)
Cube == (0 .. 1) \X (0 .. 1) \X (0 .. 1)
Lerp2(v, s) ==
    Lerp(Lerp(v[<<0, 0>>], v[<<1, 0>>], s[1]), Lerp(v[<<0, 1>>], v[<<1, 1>>], s[1]), s[2])
Lerp3(v, s) ==
    LET side(k) == [e \in Square |-> v[<<e[1], e[2], k>>]]
    IN  Lerp(Lerp2(side(0), s), Lerp2(side(1), s), s[3])

\* The lattice's points along an axis that cubic interpolation is of.
Four == -1 .. 2

\* The octaves' numbers, summed, and what is made of each of them before.
BillowOf(v) == Minus(Times(AbsQ(v), Whole(2)), One)
RigidOf(v) == Minus(One, AbsQ(v))

\* m_fractalBounding for a gain and a number of octaves.
CalculateFractalBounding(gain, octaves) ==
    LET amp[i \in Nat] == IF i = 0 THEN One ELSE Times(amp[i-1], gain)
    IN  Reciprocal(SumQ([i \in 1 .. (IF octaves > 1 THEN octaves ELSE 1) |-> amp[i-1]]))

-----------------------------------------------------------------------------
\* The factors by which three dimensions are skewed and skewed back.
F3 == <<1, 3>>
G3 == <<1, 6>>

SumZ(c) == FoldSeq(LAMBDA d, sum : d + sum, 0, c)

\* How far a point is from the first corner of its skewed cell, and from the
\* corner that is step away from that one.
FromCell(p, cell, G) ==
    LET t == Times(Whole(SumZ(cell)), G)
    IN  [a \in DOMAIN p |-> Minus(p[a], Minus(Whole(cell[a]), t))]
FromCorner(d, step, G) ==
    [a \in DOMAIN d |-> Plus(Minus(d[a], Whole(step[a])), Times(Whole(SumZ(step)), G))]

\* t*t*t*t in the code: what matters here is that it grows from 0 at 0.
Falloff(t) == t

Manhattan(v) == SumQ([a \in DOMAIN v |-> AbsQ(v[a])])
SquareSum(v) == SumQ([a \in DOMAIN v |-> Times(v[a], v[a])])

-----------------------------------------------------------------------------
\* A number that there is not: an assertion fails, or 0 is divided by 0.
NoNumber == <<0, 0>>
Far == Whole(999999)
IndexMax == 3
Clamped(i) == IF i < 0 THEN 0 ELSE IF i > IndexMax THEN IndexMax ELSE i

\* The cells around a position, in the order of the code's loops.
Around2(r) == [n \in 1 .. 9 |-> <<(r[1] - 1) + (n-1) \div 3, (r[2] - 1) + ((n-1) % 3)>>]
Around3(r) ==
    [n \in 1 .. 27 |-> <<(r[1] - 1) + (n-1) \div 9,
                         (r[2] - 1) + (((n-1) \div 3) % 3), (r[3] - 1) + ((n-1) % 3)>>]

\* The first of the nearest cells, by the cells' distances.
Nearest(cells, distances) ==
    FoldLeftDomain(LAMBDA best, n : LET d == distances[n]
                                    IN  IF Less(d, best.distance) THEN [cell |-> cells[n], distance |-> d]
                                                                  ELSE best,
                   [cell |-> <<>>, distance |-> Far], cells)

\* Mutant: a nearer distance replaces all that are farther.
InsertedOverAll(distance, new, last) ==
    [i \in 0 .. IndexMax |-> IF i <= last THEN Least(distance[i], new) ELSE distance[i]]

\* The distances up to index last are kept in order: each takes a new one that
\* is nearer, but no nearer one than those before it.
Inserted(distance, new, last) ==
    [i \in 0 .. IndexMax |->
        CASE i = 0 -> Least(distance[0], new)
          [] i \in 1 .. last -> Greatest(Least(distance[i], new), distance[i-1])
          [] OTHER -> distance[i]]

NearestDistances(distances, last) ==
    FoldLeft(LAMBDA kept, d : Inserted(kept, d, last), [i \in 0 .. IndexMax |-> Far], distances)

\* What is returned for the two distances that the indices choose.
OfTwo(return, d0, d1) ==
    CASE return = "Distance2" -> d1
      [] return = "Distance2Add" -> Plus(d0, d1)
      [] return = "Distance2Sub" -> Minus(d1, d0)
      [] return = "Distance2Mul" -> Times(d0, d1)
      [] return = "Distance2Div" -> IF d1 = Zero THEN NoNumber ELSE Times(d0, Reciprocal(d1))

\* The number in the k-th place, from 0, of a sequence's numbers in order.
KthOf(distance, k) ==
    CHOOSE d \in {distance[n] : n \in DOMAIN distance} :
        /\ Cardinality({n \in DOMAIN distance : Less(distance[n], d)}) <= k
        /\ k < Cardinality({n \in DOMAIN distance : Leq(distance[n], d)})
=============================================================================
