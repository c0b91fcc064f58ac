-------------------------- MODULE RangeExprProofs --------------------------
(***************************************************************************)
(* Proofs about RangeExpr: that a list's runs denote the list, that the    *)
(* text of an expression denotes the same set, that the parser accepts the *)
(* texts of its grammar, and that the lookups agree with one another, for  *)
(* any numbers, lists and lengths of texts.                                *)
(***************************************************************************)
EXTENDS RangeExpr, SequenceTheorems, FiniteSetTheorems, FunctionTheorems, WellFoundedInduction, TLAPS

RangeType == [start : Int, end : Int, step : Int, down : BOOLEAN]

\* What IntRange makes of integers that are well formed: the end is a value.
Canonical(r) ==
    /\ r \in RangeType /\ r.step > 0 /\ r.start <= r.end
    /\ \E n \in Nat : r.end = r.start + n * r.step

\* The values of a range, from the lowest on.
Grid(r) == {v \in r.start .. r.end : \E k \in Nat : v = r.start + k * r.step}

\* A range that is iterated upwards.
Upwards(r) == [start |-> r.start, end |-> r.end, step |-> r.step, down |-> FALSE]

----------------------------------------------------------------------------
(* Numbers. *)

\* A set of naturals that is not empty has a least element.
LEMMA LeastNumber ==
    ASSUME NEW S \in SUBSET Nat, S # {}
    PROVE  \E n \in S : \A m \in S : n <= m
<1> DEFINE R == {p \in Nat \X Nat : p[1] < p[2]}
<1>1. IsWellFoundedOn(R, Nat)
      BY NatLessThanWellFounded DEF OpToRel
<1>2. \A m, n \in Nat : <<m, n>> \in R <=> m < n
      OBVIOUS
<1> HIDE DEF R
<1>3. \E n \in S : \A m \in S : ~(<<m, n>> \in R)
      BY <1>1, WFMin, Zenon
<1>4. PICK n \in S : \A m \in S : ~(<<m, n>> \in R)
      BY <1>3
<1>5. \A m \in S : ~(m < n)
      BY <1>2, <1>4
<1>q. QED  BY <1>5

\* Quotient and remainder.
LEMMA DivMod ==
    ASSUME NEW a \in Int, NEW d \in Int, d > 0
    PROVE  /\ a \div d \in Int /\ a % d \in 0 .. d - 1
           /\ a = (a \div d) * d + (a % d)
           /\ a >= 0 => a \div d >= 0
OBVIOUS

\* They are the only ones.
LEMMA DivUnique ==
    ASSUME NEW k \in Int, NEW d \in Int, d > 0, NEW r \in 0 .. d - 1
    PROVE  (k * d + r) \div d = k /\ (k * d + r) % d = r
OBVIOUS

\* A multiple is divided without a remainder.
LEMMA DivExact ==
    ASSUME NEW k \in Int, NEW d \in Int, d > 0
    PROVE  (k * d) \div d = k /\ (k * d) % d = 0
OBVIOUS

----------------------------------------------------------------------------
(* Ranges. *)

\* A multiple of the step is no larger than another exactly if there are no
\* more steps in it.
LEMMA Multiples ==
    ASSUME NEW j \in Int, NEW k \in Int, NEW d \in Int, d > 0
    PROVE  /\ j <= k <=> j * d <= k * d
           /\ j * d \in Int /\ k * d \in Int /\ (k - j) * d = k * d - j * d
           /\ (k + 1) * d = k * d + d
OBVIOUS

\* The length of a range is one more than its steps.
LEMMA LengthOfRange ==
    ASSUME NEW r, Canonical(r), NEW n \in Nat, r.end = r.start + n * r.step
    PROVE  Length(r) = n + 1
<1>1. r.start \in Int /\ r.end \in Int /\ r.step \in Int /\ r.step > 0
      BY DEF Canonical, RangeType
<1>2. r.end - r.start = n * r.step
      BY <1>1, Multiples
<1>3. (n * r.step) \div r.step = n
      BY <1>1, DivExact
<1>q. QED  BY <1>2, <1>3 DEF Length

\* Whichever way it is iterated, a range has the same values.
LEMMA ElementsOfRange ==
    ASSUME NEW r, Canonical(r)
    PROVE  /\ Elements(r) = Grid(r)
           /\ r.start \in Grid(r) /\ r.end \in Grid(r)
           /\ \A v \in Grid(r) : v \in Int /\ r.start <= v /\ v <= r.end
<1>1. r.start \in Int /\ r.end \in Int /\ r.step \in Int /\ r.step > 0 /\ r.start <= r.end
      BY DEF Canonical, RangeType
<1>2. PICK n \in Nat : r.end = r.start + n * r.step
      BY DEF Canonical
<1> DEFINE a == r.start  b == r.end  d == r.step
<1>3. Length(r) = n + 1
      BY <1>2, LengthOfRange
<1>4. Elements(r) = {Item(r, k) : k \in 0 .. n}
      BY <1>3 DEF Elements
<1>5. \A k \in Nat : k <= n => a + k * d \in a .. b
  <2> SUFFICES ASSUME NEW k \in Nat, k <= n
               PROVE  a + k * d \in a .. b
      OBVIOUS
  <2>1. 0 * d <= k * d /\ k * d <= n * d /\ k * d \in Int
        BY <1>1, Multiples
  <2>q. QED  BY <2>1, <1>1, <1>2
<1>6. \A v \in Grid(r) : \E k \in 0 .. n : v = a + k * d
  <2> SUFFICES ASSUME NEW v \in Grid(r)
               PROVE  \E k \in 0 .. n : v = a + k * d
      OBVIOUS
  <2>1. PICK k \in Nat : v = a + k * d /\ v <= b
        BY <1>1 DEF Grid
  <2>2. k * d \in Int /\ n * d \in Int
        BY <1>1, Multiples
  <2>3. k * d <= n * d
        BY <2>1, <2>2, <1>1, <1>2
  <2>4. k <= n
        BY <2>3, <1>1, Multiples
  <2>q. QED  BY <2>1, <2>4
<1>7. \A k \in 0 .. n : a + k * d \in Grid(r)
      BY <1>5 DEF Grid
<1>8. \A k \in 0 .. n : n - k \in 0 .. n /\ b - k * d = a + (n - k) * d
  <2> SUFFICES ASSUME NEW k \in 0 .. n
               PROVE  b - k * d = a + (n - k) * d
      OBVIOUS
  <2>1. (n - k) * d = n * d - k * d /\ n * d \in Int /\ k * d \in Int
        BY <1>1, Multiples
  <2>q. QED  BY <2>1, <1>1, <1>2
<1>9. Elements(r) = Grid(r)
  <2>1. CASE r.down
    <3>1. \A k \in 0 .. n : Item(r, k) = a + (n - k) * d
          BY <2>1, <1>8 DEF Item
    <3>2. \A k \in 0 .. n : Item(r, n - k) = a + k * d
      <4>1. \A k \in 0 .. n : n - k \in 0 .. n /\ n - (n - k) = k
            OBVIOUS
      <4>q. QED  BY <4>1, <3>1
    <3>3. Elements(r) \subseteq Grid(r)
          BY <3>1, <1>4, <1>7, <1>8
    <3>4. Grid(r) \subseteq Elements(r)
          BY <3>2, <1>4, <1>6, <1>8
    <3>q. QED  BY <3>3, <3>4
  <2>2. CASE ~r.down
    <3>1. \A k \in 0 .. n : Item(r, k) = a + k * d
          BY <2>2 DEF Item
    <3>q. QED  BY <3>1, <1>4, <1>6, <1>7
  <2>q. QED  BY <2>1, <2>2
<1>10. r.start \in Grid(r) /\ r.end \in Grid(r)
  <2>1. a + 0 * d = a
        BY <1>1
  <2>q. QED  BY <2>1, <1>2, <1>7
<1>11. \A v \in Grid(r) : v \in Int /\ r.start <= v /\ v <= r.end
       BY <1>1 DEF Grid
<1>q. QED  BY <1>9, <1>10, <1>11

\* Well-formed integers make a range of the values that they mean.
LEMMA RangeMeans ==
    ASSUME NEW s \in Int, NEW e \in Int, NEW c \in Int, WellFormed(s, e, c)
    PROVE  /\ Canonical(IntRange(s, e, c))
           /\ Elements(IntRange(s, e, c)) = Meaning(<<s, e, c>>)
<1> DEFINE r == IntRange(s, e, c)
<1>0. r = IntRange(s, e, c)
      OBVIOUS
<1>1. CASE c > 0
  <2> DEFINE q == (e - s) \div c
  <2>1. s <= e /\ e - s \in Nat
        BY <1>1 DEF WellFormed
  <2>2. q \in Nat /\ (e - s) % c \in 0 .. c - 1 /\ e - s = q * c + ((e - s) % c)
        BY <1>1, <2>1, DivMod
  <2> HIDE DEF q
  <2>3. q * c \in Int /\ 0 * c <= q * c
        BY <1>1, <2>2, Multiples
  <2>4. r = [start |-> s, end |-> s + q * c, step |-> c, down |-> FALSE]
        BY <1>1 DEF IntRange, q
  <2> HIDE DEF r
  <2>5. s + q * c <= e /\ s <= s + q * c
        BY <2>2, <2>3
  <2>6. Canonical(r)
        BY <1>1, <2>2, <2>3, <2>4, <2>5 DEF Canonical, RangeType
  <2>7. Meaning(<<s, e, c>>) = {v \in s .. e : (v - s) % c = 0}
        BY <1>1 DEF Meaning
  <2>8. ASSUME NEW v \in s .. e, (v - s) % c = 0
        PROVE  v \in Grid(r)
    <3> DEFINE k == (v - s) \div c
    <3>1. k \in Nat /\ v - s = k * c + 0
          BY <1>1, <2>8, DivMod
    <3> HIDE DEF k
    <3>2. k * c \in Int /\ k * c <= q * c + ((e - s) % c) /\ (q + 1) * c = q * c + c
          BY <1>1, <2>2, <2>3, <3>1, Multiples
    <3>3. ~((q + 1) * c <= k * c)
          BY <1>1, <2>2, <2>3, <3>2
    <3>4. k <= q
          BY <1>1, <2>2, <3>1, <3>3, Multiples
    <3>5. k * c <= q * c
          BY <1>1, <2>2, <3>1, <3>4, Multiples
    <3>q. QED  BY <2>3, <2>4, <3>1, <3>2, <3>5 DEF Grid
  <2>9. ASSUME NEW v \in Grid(r)
        PROVE  v \in s .. e /\ (v - s) % c = 0
    <3>1. PICK k \in Nat : v = s + k * c
          BY <2>4, <2>9 DEF Grid
    <3>2. k * c \in Int /\ (k * c) % c = 0
          BY <1>1, DivExact, Multiples
    <3>3. v \in s .. s + q * c
          BY <2>3, <2>4, <2>9 DEF Grid
    <3>q. QED  BY <2>3, <2>5, <3>1, <3>2, <3>3
  <2>10. Elements(r) = Grid(r) /\ Grid(r) = Meaning(<<s, e, c>>)
         BY <2>6, <2>7, <2>8, <2>9, ElementsOfRange
  <2>q. QED  BY <1>0, <2>6, <2>10
<1>2. CASE c < 0
  <2> DEFINE d == -c  q == (s - e) \div d
  <2>0. d \in Int /\ d > 0
        BY <1>2
  <2>1. e <= s /\ s - e \in Nat
        BY <1>2 DEF WellFormed
  <2>4. r = [start |-> s - q * d, end |-> s, step |-> d, down |-> TRUE]
        BY <1>2 DEF IntRange
  <2>7. Meaning(<<s, e, c>>) = {v \in e .. s : (s - v) % d = 0}
        BY <1>2 DEF Meaning
  <2> HIDE DEF d
  <2>2. q \in Nat /\ (s - e) % d \in 0 .. d - 1 /\ s - e = q * d + ((s - e) % d)
        BY <2>0, <2>1, DivMod
  <2> HIDE DEF q, r
  <2>3. q * d \in Int /\ 0 * d <= q * d
        BY <2>0, <2>2, Multiples
  <2>5. e <= s - q * d /\ s - q * d <= s
        BY <2>0, <2>2, <2>3
  <2>6. Canonical(r)
        BY <2>0, <2>2, <2>3, <2>4, <2>5 DEF Canonical, RangeType
  <2>8. ASSUME NEW v \in e .. s, (s - v) % d = 0
        PROVE  v \in Grid(r)
    <3> DEFINE k == (s - v) \div d
    <3>1. k \in Nat /\ s - v = k * d + 0
          BY <2>0, <2>8, DivMod
    <3> HIDE DEF k
    <3>2. k * d \in Int /\ k * d <= q * d + ((s - e) % d) /\ (q + 1) * d = q * d + d
          BY <2>0, <2>2, <2>3, <3>1, Multiples
    <3>3. ~((q + 1) * d <= k * d)
          BY <2>0, <2>2, <2>3, <3>2
    <3>4. k <= q
          BY <2>0, <2>2, <3>1, <3>3, Multiples
    <3>5. k * d <= q * d /\ (q - k) * d = q * d - k * d /\ q - k \in Nat
          BY <2>0, <2>2, <3>1, <3>4, Multiples
    <3>6. v = (s - q * d) + (q - k) * d
          BY <2>3, <3>1, <3>2, <3>5
    <3>q. QED  BY <2>3, <2>4, <3>1, <3>2, <3>5, <3>6 DEF Grid
  <2>9. ASSUME NEW v \in Grid(r)
        PROVE  v \in e .. s /\ (s - v) % d = 0
    <3>1. PICK k \in Nat : v = (s - q * d) + k * d
          BY <2>4, <2>9 DEF Grid
    <3>2. k * d \in Int /\ (q - k) * d = q * d - k * d /\ ((q - k) * d) % d = 0
          BY <2>0, <2>2, DivExact, Multiples
    <3>3. v \in s - q * d .. s
          BY <2>3, <2>4, <2>9 DEF Grid
    <3>4. s - v = (q - k) * d
          BY <2>3, <3>1, <3>2
    <3>q. QED  BY <2>3, <2>5, <3>2, <3>3, <3>4
  <2>10. Elements(r) = Grid(r) /\ Grid(r) = Meaning(<<s, e, c>>)
         BY <2>6, <2>7, <2>8, <2>9, ElementsOfRange
  <2>q. QED  BY <1>0, <2>6, <2>10
<1>q. QED  BY <1>1, <1>2 DEF WellFormed

\* A range that is made of the bounds of another is the same, but iterated
\* upwards.
LEMMA RangeAgain ==
    ASSUME NEW r, Canonical(r)
    PROVE  /\ WellFormed(r.start, r.end, r.step)
           /\ IntRange(r.start, r.end, r.step) = Upwards(r)
           /\ Canonical(Upwards(r))
           /\ Grid(Upwards(r)) = Grid(r)
<1>1. r.start \in Int /\ r.end \in Int /\ r.step \in Int /\ r.step > 0 /\ r.start <= r.end
      /\ r \in RangeType
      BY DEF Canonical, RangeType
<1>2. PICK n \in Nat : r.end = r.start + n * r.step
      BY DEF Canonical
<1>3. n * r.step \in Int /\ (n * r.step) \div r.step = n /\ r.end - r.start = n * r.step
      BY <1>1, <1>2, DivExact, Multiples
<1>4. r.start + ((r.end - r.start) \div r.step) * r.step = r.end
      BY <1>2, <1>3
<1>5. IntRange(r.start, r.end, r.step) = Upwards(r)
      BY <1>1, <1>4 DEF IntRange, Upwards
<1>6. Canonical(Upwards(r))
      BY <1>1, <1>2 DEF Canonical, RangeType, Upwards
<1>7. Grid(Upwards(r)) = Grid(r)
      BY <1>1 DEF Grid, Upwards
<1>q. QED  BY <1>1, <1>5, <1>6, <1>7 DEF WellFormed

\* A range that begins a step after the end of another continues it.
LEMMA Continued ==
    ASSUME NEW l, NEW r, Canonical(l), Canonical(r), l.step = r.step, l.end + r.step = r.start,
           NEW m, m = IntRange(l.start, r.end, r.step)
    PROVE  /\ Canonical(m) /\ m.start = l.start /\ m.end = r.end /\ m.step = r.step
           /\ Elements(m) = Elements(l) \cup Elements(r)
           /\ l.end < r.start /\ l.start <= r.end
<1> DEFINE d == r.step  x == [start |-> l.start, end |-> r.end, step |-> d, down |-> FALSE]
<1>1. /\ l.start \in Int /\ l.end \in Int /\ l.start <= l.end
      /\ r.start \in Int /\ r.end \in Int /\ r.start <= r.end /\ d \in Int /\ d > 0
      BY DEF Canonical, RangeType
<1>2. PICK i \in Nat : l.end = l.start + i * d
      BY DEF Canonical
<1>3. PICK j \in Nat : r.end = r.start + j * d
      BY DEF Canonical
<1> HIDE DEF d
<1>4. i * d \in Int /\ j * d \in Int /\ (i + 1) * d = i * d + d
      BY <1>1, Multiples
<1>5. ASSUME NEW k \in Int
      PROVE  /\ k * d \in Int /\ r.start + k * d = l.start + (i + 1 + k) * d
             /\ r.start + (k - (i + 1)) * d = l.start + k * d
  <2>1. (k - (i + 1)) * d = k * d - (i + 1) * d /\ k * d \in Int /\ (i + 1) * d \in Int
        BY <1>1, Multiples
  <2> DEFINE n == i + 1 + k
  <2>2. n \in Int /\ n - k = i + 1
        OBVIOUS
  <2> HIDE DEF n
  <2>3. (n - k) * d = n * d - k * d /\ n * d \in Int
        BY <1>1, <2>2, Multiples
  <2>4. n * d = k * d + (i + 1) * d
        BY <2>1, <2>2, <2>3
  <2>5. r.start = l.start + (i + 1) * d
        BY <1>1, <1>2, <1>4 DEF d
  <2>q. QED  BY <1>1, <2>1, <2>4, <2>5 DEF n
<1>6. r.end = l.start + (i + 1 + j) * d /\ i + 1 + j \in Nat
      BY <1>3, <1>5
<1>7. l.end < r.start /\ l.start <= r.end
      BY <1>1 DEF d
<1>8. Canonical(x)
      BY <1>1, <1>6, <1>7 DEF Canonical, RangeType
<1>9. Canonical(m) /\ m = x
      BY <1>8, RangeAgain DEF d, Upwards
<1>10. Grid(l) = {v \in l.start .. l.end : \E k \in Nat : v = l.start + k * d}
       BY DEF Grid, d
<1>11. Grid(r) = {v \in r.start .. r.end : \E k \in Nat : v = r.start + k * d}
       BY DEF Grid, d
<1>12. Grid(m) = {v \in l.start .. r.end : \E k \in Nat : v = l.start + k * d}
       BY <1>9 DEF Grid
<1>13. Grid(l) \subseteq Grid(m)
  <2>1. ASSUME NEW v \in Grid(l)
        PROVE  v \in Grid(m)
    <3>1. PICK k \in Nat : v = l.start + k * d
          BY <1>10
    <3>2. v \in l.start .. l.end
          BY <1>10
    <3>3. v \in l.start .. r.end
          BY <1>1, <1>7, <3>2
    <3>q. QED  BY <1>12, <3>1, <3>3
  <2>q. QED  BY <2>1
<1>14. Grid(r) \subseteq Grid(m)
  <2>1. ASSUME NEW v \in Grid(r)
        PROVE  v \in Grid(m)
    <3>1. PICK k \in Nat : v = r.start + k * d
          BY <1>11
    <3>2. v = l.start + (i + 1 + k) * d /\ i + 1 + k \in Nat
          BY <1>5, <3>1
    <3>3. v \in l.start .. r.end
          BY <1>1, <1>7, <1>11
    <3>q. QED  BY <1>12, <3>2, <3>3
  <2>q. QED  BY <2>1
<1>15. ASSUME NEW v \in Grid(m)
       PROVE  v \in Grid(l) \cup Grid(r)
  <2>1. PICK k \in Nat : v = l.start + k * d
        BY <1>12
  <2>2. v \in l.start .. r.end /\ k * d \in Int
        BY <1>1, <1>12, Multiples
  <2>3. CASE k <= i
    <3>1. k * d <= i * d
          BY <1>1, <2>3, Multiples
    <3>q. QED  BY <1>1, <1>2, <1>4, <1>10, <2>1, <2>2, <3>1
  <2>4. CASE ~(k <= i)
    <3>1. k - (i + 1) \in Nat /\ v = r.start + (k - (i + 1)) * d
          BY <1>5, <2>1, <2>4
    <3>2. (i + 1) * d <= k * d
          BY <1>1, <2>4, Multiples
    <3>3. r.start <= v
          BY <1>1, <1>2, <1>4, <2>1, <2>2, <3>2 DEF d
    <3>4. v \in r.start .. r.end
          BY <1>1, <2>2, <3>3
    <3>q. QED  BY <1>11, <3>1, <3>4
  <2>q. QED  BY <2>3, <2>4
<1>q. QED
  <2>1. Grid(m) = Grid(l) \cup Grid(r)
        BY <1>13, <1>14, <1>15
  <2>2. Elements(m) = Elements(l) \cup Elements(r)
        BY <1>9, <2>1, ElementsOfRange
  <2>3. m.start = l.start /\ m.end = r.end /\ m.step = r.step
        BY <1>9 DEF d
  <2>q. QED  BY <1>7, <1>9, <2>2, <2>3

----------------------------------------------------------------------------
(* The constructor. *)

AreRanges(rs) == rs \in Seq(RangeType) /\ \A i \in DOMAIN rs : Canonical(rs[i])

\* The sort is of finitely many ranges.
Bounded(rs) == \E b \in Int : \A i \in DOMAIN rs : b <= rs[i].start

\* Ranges of which one ends before the other begins.
Clear(r, s) == r.end < s.start \/ s.end < r.start
AllClear(rs, S) == \A i, j \in S : i # j => Clear(rs[i], rs[j])

Covered(rs, S) == UNION {Elements(rs[i]) : i \in S}

\* The positions that have been taken, in the order of the sort.
Taken == DOMAIN ranges \ left

\* The combined ranges are of the values of the ranges taken, and overlap
\* exactly if two of those do.
Combining ==
    /\ left \subseteq DOMAIN ranges
    /\ AreRanges(combined)
    /\ combined = <<>> <=> Taken = {}
    /\ \A i \in Taken, j \in left : ranges[i].start <= ranges[j].start
    /\ Denoted = Covered(ranges, Taken)
    /\ combined # <<>> => \E i \in Taken : ranges[i].end = Last.end
    /\ ~Overlaps => \A i \in Taken : ranges[i].end <= Last.end
    /\ ~Overlaps <=> AllClear(ranges, Taken)

\* Where a function to the integers is bounded below it has a least value.
LEMMA LeastValue ==
    ASSUME NEW S, S # {}, NEW f \in [S -> Int], NEW b \in Int, \A x \in S : b <= f[x]
    PROVE  \E x \in S : \A y \in S : f[x] <= f[y]
<1> DEFINE T == {f[x] - b : x \in S}
<1>1. T \in SUBSET Nat /\ T # {}
      OBVIOUS
<1> HIDE DEF T
<1>2. PICK n \in T : \A m \in T : n <= m
      BY <1>1, LeastNumber
<1>3. PICK x \in S : n = f[x] - b
      BY DEF T
<1>4. ASSUME NEW y \in S
      PROVE  f[x] <= f[y]
  <2>1. f[y] - b \in T
        BY DEF T
  <2>2. f[x] - b <= f[y] - b /\ f[x] \in Int /\ f[y] \in Int
        BY <1>2, <1>3, <2>1
  <2>q. QED  BY <2>2
<1>q. QED  BY <1>4

\* The sort takes a range that begins before no other one left.
LEMMA FirstIsLeast ==
    ASSUME AreRanges(ranges), Bounded(ranges), left \subseteq DOMAIN ranges, left # {}
    PROVE  FirstLeft \in left /\ \A j \in left : ranges[FirstLeft].start <= ranges[j].start
<1>1. \A i \in left : /\ ranges[i].start \in Int /\ ranges[i].end \in Int /\ ranges[i].step \in Int
                      /\ ranges[i].start <= ranges[i].end /\ 0 < ranges[i].step /\ i \in Nat
      BY SMTT(30) DEF AreRanges, Canonical, RangeType
<1>2. PICK b \in Int : \A i \in left : b <= ranges[i].start
      BY DEF Bounded
<1>3. PICK i1 \in left : \A j \in left : ranges[i1].start <= ranges[j].start
  <2> DEFINE f == [i \in left |-> ranges[i].start]
  <2>1. f \in [left -> Int] /\ \A i \in left : b <= f[i]
        BY <1>1, <1>2
  <2>2. \E x \in left : \A y \in left : f[x] <= f[y]
        BY <2>1, LeastValue
  <2>q. QED  BY <2>2
<1> DEFINE S1 == {i \in left : ranges[i].start = ranges[i1].start}
<1>4. PICK i2 \in S1 : \A j \in S1 : ranges[i2].end <= ranges[j].end
  <2> DEFINE f == [i \in S1 |-> ranges[i].end]
  <2>1. f \in [S1 -> Int] /\ S1 # {} /\ ranges[i1].start \in Int /\ \A i \in S1 : ranges[i1].start <= f[i]
        BY <1>1
  <2>2. \E x \in S1 : \A y \in S1 : f[x] <= f[y]
        BY <2>1, LeastValue
  <2>q. QED  BY <2>2
<1> DEFINE S2 == {i \in S1 : ranges[i].end = ranges[i2].end}
<1>5. PICK i3 \in S2 : \A j \in S2 : ranges[i3].step <= ranges[j].step
  <2> DEFINE f == [i \in S2 |-> ranges[i].step]
  <2>1. f \in [S2 -> Int] /\ S2 # {} /\ 0 \in Int /\ \A i \in S2 : 0 <= f[i]
        BY <1>1
  <2> HIDE DEF S2
  <2>2. \E x \in S2 : \A y \in S2 : f[x] <= f[y]
        BY <2>1, LeastValue
  <2>q. QED  BY <2>2
<1> DEFINE S3 == {i \in S2 : ranges[i].step = ranges[i3].step}
<1>6. PICK i4 \in S3 : \A j \in S3 : i4 <= j
  <2>1. S3 \in SUBSET Nat /\ S3 # {}
        BY <1>1
  <2>2. \E n \in S3 : \A m \in S3 : n <= m
        BY <2>1, LeastNumber
  <2>q. QED  BY <2>2
<1> DEFINE IsFirst(i) == \A j \in left \ {i} :
             Before(ranges[i], ranges[j]) \/ (~Before(ranges[j], ranges[i]) /\ i < j)
<1>7. IsFirst(i4) /\ i4 \in left
  <2> SUFFICES ASSUME NEW j \in left \ {i4}
               PROVE  Before(ranges[i4], ranges[j]) \/ (~Before(ranges[j], ranges[i4]) /\ i4 < j)
      OBVIOUS
  <2>1. /\ ranges[i4].start = ranges[i1].start /\ ranges[i4].end = ranges[i2].end
        /\ ranges[i4].step = ranges[i3].step /\ i4 \in left
        OBVIOUS
  <2>2. ranges[i1].start <= ranges[j].start
        BY <1>3
  <2>3. ranges[j].start = ranges[i1].start => ranges[i2].end <= ranges[j].end
        BY <1>4
  <2>4. ranges[j].start = ranges[i1].start /\ ranges[j].end = ranges[i2].end =>
          ranges[i3].step <= ranges[j].step
        BY <1>5
  <2>5. ASSUME ranges[j].start = ranges[i1].start, ranges[j].end = ranges[i2].end,
               ranges[j].step = ranges[i3].step
        PROVE  i4 <= j
    <3>1. j \in S3
          BY <2>5
    <3>q. QED  BY <1>6, <3>1
  <2>q. QED  BY <1>1, <2>1, <2>2, <2>3, <2>4, <2>5 DEF Before
<1> HIDE DEF IsFirst
<1>8. FirstLeft = CHOOSE i \in left : IsFirst(i)
      BY DEF FirstLeft, IsFirst
<1>9. FirstLeft \in left /\ IsFirst(FirstLeft)
      BY <1>7, <1>8
<1>10. ASSUME NEW j \in left
       PROVE  ranges[FirstLeft].start <= ranges[j].start
  <2>1. CASE j = FirstLeft
        BY <1>1, <1>9, <2>1
  <2>2. CASE j # FirstLeft
    <3>1. Before(ranges[FirstLeft], ranges[j]) \/ ~Before(ranges[j], ranges[FirstLeft])
          BY <1>9, <2>2 DEF IsFirst
    <3>q. QED  BY <1>1, <1>9, <3>1 DEF Before
  <2>q. QED  BY <2>1, <2>2
<1>q. QED  BY <1>9, <1>10

\* One more range is joined to the last one or follows it.
LEMMA JoinKeeps ==
    ASSUME AreRanges(ranges), Bounded(ranges), Combining, Join
    PROVE  Combining'
<1> DEFINE f == FirstLeft  r == ranges[f]  n == Len(combined)
           e == combined # <<>> /\ Last.end >= r.start
<1>1. /\ left \subseteq DOMAIN ranges /\ AreRanges(combined) /\ left # {} /\ ranges' = ranges
      /\ left' = left \ {f}
      BY DEF Combining, Join
<1>2. f \in left /\ \A j \in left : r.start <= ranges[j].start
      BY <1>1, FirstIsLeast
<1>3. /\ n \in Nat /\ DOMAIN combined = 1 .. n /\ combined \in Seq(RangeType)
      /\ combined = <<>> <=> n = 0
      /\ \A i \in 1 .. n : Canonical(combined[i])
      BY <1>1, LenProperties, EmptySeq DEF AreRanges
<1>4. \A i \in DOMAIN ranges : /\ Canonical(ranges[i]) /\ ranges[i] \in RangeType
                               /\ ranges[i].start \in Int /\ ranges[i].end \in Int
                               /\ ranges[i].start <= ranges[i].end
      BY DEF AreRanges, Canonical, RangeType
<1>5. Canonical(r) /\ r \in RangeType /\ r.start \in Int /\ r.end \in Int /\ r.start <= r.end
      BY <1>1, <1>2, <1>4
<1>6. Taken' = Taken \cup {f} /\ f \notin Taken /\ Taken \subseteq DOMAIN ranges
      BY <1>1, <1>2 DEF Taken
<1>7. \A i \in 1 .. n : combined[i].start \in Int /\ combined[i].end \in Int
      BY <1>3 DEF Canonical, RangeType
<1>8. n # 0 => Last = combined[n] /\ Last.end \in Int /\ n \in 1 .. n
      BY <1>3, <1>7 DEF Last
<1> HIDE DEF f
<1>9. /\ AreRanges(combined') /\ combined' # <<>> /\ Last'.end = r.end
      /\ Denoted' = Denoted \cup Elements(r)
      /\ Overlaps' <=> Overlaps \/ e
  <2>1. CASE combined # <<>> /\ Last.step = r.step /\ Last.end + r.step = r.start
    <3> DEFINE m == IntRange(Last.start, r.end, r.step)
    <3>1. combined' = [combined EXCEPT ![n] = m] /\ n # 0
          BY <1>3, <2>1 DEF Join, f
    <3>2. /\ Canonical(m) /\ m.start = Last.start /\ m.end = r.end
          /\ Elements(m) = Elements(Last) \cup Elements(r) /\ Last.end < r.start
          BY <1>3, <1>5, <1>8, <2>1, <3>1, Continued
    <3> HIDE DEF m
    <3>3. m \in RangeType
          BY <3>2 DEF Canonical
    <3>4. /\ combined' \in Seq(RangeType) /\ Len(combined') = n /\ DOMAIN combined' = 1 .. n
          /\ combined'[n] = m /\ \A i \in 1 .. n : i # n => combined'[i] = combined[i]
          BY <1>3, <1>8, <3>1, <3>3, ExceptSeq, LenProperties, ZenonT(30)
    <3>5. AreRanges(combined') /\ combined' # <<>> /\ Last'.end = r.end
          BY <1>3, <3>1, <3>2, <3>4 DEF AreRanges, Last
    <3>6. Denoted = UNION {Elements(combined[i]) : i \in 1 .. n}
          BY <1>3 DEF Denoted
    <3>7. Denoted' = UNION {Elements(combined'[i]) : i \in 1 .. n}
          BY <3>4 DEF Denoted
    <3>8. Denoted' = Denoted \cup Elements(r)
      <4>1. Elements(combined'[n]) = Elements(combined[n]) \cup Elements(r) /\ n \in 1 .. n
            BY <1>8, <3>1, <3>2, <3>4
      <4>2. \A i \in 1 .. n : i # n => Elements(combined'[i]) = Elements(combined[i])
            BY <3>4
      <4>q. QED  BY <3>6, <3>7, <4>1, <4>2
    <3>9. ~e
          BY <1>5, <1>8, <3>1, <3>2
    <3>10. Overlaps' <=> Overlaps
      <4>0. \A i \in 1 .. n - 1 : i \in 1 .. n /\ i # n /\ i + 1 \in 1 .. n
        <5>1. n \in Nat
              BY <1>3
        <5>q. QED  BY <5>1
      <4>1. \A i \in 1 .. n - 1 : combined'[i].end = combined[i].end
            BY <3>4, <4>0
      <4>3. \A i \in 1 .. n : combined'[i].start = combined[i].start
            BY <1>8, <3>1, <3>2, <3>4
      <4>2. \A i \in 1 .. n - 1 : combined'[i + 1].start = combined[i + 1].start
            BY <4>0, <4>3
      <4>q. QED  BY <3>4, <4>1, <4>2 DEF Overlaps
    <3>q. QED  BY <3>5, <3>8, <3>9, <3>10
  <2>2. CASE ~(combined # <<>> /\ Last.step = r.step /\ Last.end + r.step = r.start)
    <3>1. combined' = Append(combined, r)
          BY <2>2 DEF Join, f
    <3>2. /\ combined' \in Seq(RangeType) /\ Len(combined') = n + 1 /\ DOMAIN combined' = 1 .. n + 1
          /\ combined'[n + 1] = r /\ \A i \in 1 .. n : combined'[i] = combined[i]
          BY <1>3, <1>5, <3>1, AppendProperties, LenProperties
    <3>3. AreRanges(combined') /\ combined' # <<>> /\ Last'.end = r.end
          BY <1>3, <1>5, <3>2, EmptySeq DEF AreRanges, Last
    <3>4. Denoted = UNION {Elements(combined[i]) : i \in 1 .. n}
          BY <1>3 DEF Denoted
    <3>5. Denoted' = UNION {Elements(combined'[i]) : i \in 1 .. n + 1}
          BY <3>2 DEF Denoted
    <3>6. Denoted' = Denoted \cup Elements(r)
      <4>1. \A i \in 1 .. n : Elements(combined'[i]) = Elements(combined[i])
            BY <3>2
      <4>2. Elements(combined'[n + 1]) = Elements(r) /\ 1 .. n + 1 = (1 .. n) \cup {n + 1}
            BY <1>3, <3>2
      <4>q. QED  BY <3>4, <3>5, <4>1, <4>2
    <3>7. Overlaps' <=> \E i \in 1 .. n : combined'[i].end >= combined'[i + 1].start
          BY <1>3, <3>2 DEF Overlaps
    <3>8. Overlaps <=> \E i \in 1 .. n - 1 : combined[i].end >= combined[i + 1].start
          BY DEF Overlaps
    <3>9. \A i \in 1 .. n - 1 : /\ combined'[i].end = combined[i].end
                                /\ combined'[i + 1].start = combined[i + 1].start
          BY <1>3, <3>2
    <3>10. n # 0 => (e <=> combined'[n].end >= combined'[n + 1].start)
           BY <1>3, <1>8, <3>2
    <3>11. Overlaps' <=> Overlaps \/ e
      <4>1. CASE n = 0
            BY <1>3, <3>7, <3>8, <4>1
      <4>2. CASE n # 0
        <5>1. 1 .. n = (1 .. n - 1) \cup {n}
              BY <1>3, <4>2
        <5>q. QED  BY <3>7, <3>8, <3>9, <3>10, <4>2, <5>1
      <4>q. QED  BY <4>1, <4>2
    <3>q. QED  BY <3>3, <3>6, <3>11
  <2>q. QED  BY <2>1, <2>2
<1>10. ~Overlaps => (e <=> \E i \in Taken : ~Clear(ranges[i], r))
  <2> SUFFICES ASSUME ~Overlaps
               PROVE  e <=> \E i \in Taken : ~Clear(ranges[i], r)
      OBVIOUS
  <2>1. \A i \in Taken : ranges[i].end <= Last.end /\ n # 0
        BY <1>3 DEF Combining
  <2>2. ASSUME e
        PROVE  \E i \in Taken : ~Clear(ranges[i], r)
    <3>1. PICK i \in Taken : ranges[i].end = Last.end
          BY <2>2 DEF Combining
    <3>2. ranges[i].start <= r.start
          BY <1>2 DEF Combining
    <3>q. QED  BY <1>3, <1>4, <1>5, <1>6, <1>8, <2>2, <3>1, <3>2 DEF Clear
  <2>3. ASSUME ~e, NEW i \in Taken
        PROVE  Clear(ranges[i], r)
    <3>1. Last.end < r.start
          BY <1>3, <1>5, <1>8, <2>1, <2>3
    <3>q. QED  BY <1>4, <1>5, <1>6, <1>8, <2>1, <3>1 DEF Clear
  <2>q. QED  BY <2>2, <2>3
<1>11. AllClear(ranges, Taken)' <=> AllClear(ranges, Taken) /\ \A i \in Taken : Clear(ranges[i], r)
  <2>1. AllClear(ranges, Taken)' <=> \A i, j \in Taken \cup {f} : i # j => Clear(ranges[i], ranges[j])
        BY <1>1, <1>6 DEF AllClear
  <2>2. \A i, j : Clear(ranges[i], ranges[j]) <=> Clear(ranges[j], ranges[i])
        BY DEF Clear
  <2>q. QED  BY <1>6, <2>1, <2>2 DEF AllClear
<1>12. Overlaps' <=> ~AllClear(ranges, Taken)'
  <2>1. Overlaps <=> ~AllClear(ranges, Taken)
        BY DEF Combining
  <2>q. QED  BY <1>9, <1>10, <1>11, <2>1
<1>13. Denoted' = Covered(ranges, Taken)'
  <2>1. Denoted = Covered(ranges, Taken)
        BY DEF Combining
  <2>2. Covered(ranges, Taken)' = Covered(ranges, Taken) \cup Elements(r)
        BY <1>1, <1>6 DEF Covered
  <2>q. QED  BY <1>9, <2>1, <2>2
<1>14. ~Overlaps' => \A i \in Taken' : ranges'[i].end <= Last'.end
  <2> SUFFICES ASSUME ~Overlaps', NEW i \in Taken
               PROVE  ranges[i].end <= r.end
      BY <1>1, <1>5, <1>6, <1>9
  <2>1. ~Overlaps /\ ~e
        BY <1>9
  <2>2. ranges[i].end <= Last.end /\ n # 0
        BY <1>3, <2>1 DEF Combining
  <2>q. QED  BY <1>3, <1>4, <1>5, <1>6, <1>8, <2>1, <2>2
<1>15. \A i \in Taken', j \in left' : ranges'[i].start <= ranges'[j].start
  <2>1. \A i \in Taken, j \in left : ranges[i].start <= ranges[j].start
        BY DEF Combining
  <2>q. QED  BY <1>1, <1>2, <1>6, <2>1
<1>16. combined' # <<>> => \E i \in Taken' : ranges'[i].end = Last'.end
       BY <1>1, <1>6, <1>9
<1>17. left' \subseteq DOMAIN ranges' /\ AreRanges(combined)' /\ (combined' = <<>> <=> Taken' = {})
       BY <1>1, <1>6, <1>9 DEF AreRanges
<1>q. QED  BY <1>12, <1>13, <1>14, <1>15, <1>16, <1>17 DEF Combining

----------------------------------------------------------------------------
(* Lists. *)

Ascending(rs) == \A i, j \in DOMAIN rs : i < j => rs[i].end < rs[j].start

\* The range of the run that from_list has come to.
RunRange == IntRange(run.start, run.end, IF run.step = 0 THEN 1 ELSE run.step)

\* The ranges, the run and the values left are those of the list, in this order.
Running ==
    /\ run \in [start : Int, end : Int, step : Int]
    /\ run.step >= 0 /\ run.start <= run.end
    /\ run.step = 0 => run.start = run.end
    /\ run.step # 0 => \E n \in Nat : run.end = run.start + n * run.step
    /\ Ascending(ranges) /\ \A i \in DOMAIN ranges : ranges[i].end < run.start
    /\ left \subseteq Int /\ \A v \in left : run.end < v
    /\ values = Covered(ranges, DOMAIN ranges) \cup Elements(RunRange) \cup left

\* Ascending ranges are clear of one another.
LEMMA AscendingIsClear ==
    ASSUME NEW rs \in Seq(RangeType), Ascending(rs)
    PROVE  AllClear(rs, DOMAIN rs)
<1>1. ASSUME NEW i \in DOMAIN rs, NEW j \in DOMAIN rs, i # j
      PROVE  Clear(rs[i], rs[j])
  <2>1. i \in Nat /\ j \in Nat
        BY LenProperties
  <2>2. i < j \/ j < i
        BY <1>1, <2>1
  <2>q. QED  BY <2>2 DEF Ascending, Clear
<1>q. QED  BY <1>1 DEF AllClear

\* One more range.
LEMMA AppendRange ==
    ASSUME NEW rs, AreRanges(rs), Bounded(rs), NEW r, Canonical(r)
    PROVE  /\ AreRanges(Append(rs, r)) /\ Bounded(Append(rs, r)) /\ Append(rs, r) # <<>>
           /\ Len(Append(rs, r)) = Len(rs) + 1 /\ DOMAIN Append(rs, r) = 1 .. Len(rs) + 1
           /\ Append(rs, r)[Len(rs) + 1] = r /\ \A i \in DOMAIN rs : Append(rs, r)[i] = rs[i]
           /\ Covered(Append(rs, r), DOMAIN Append(rs, r)) = Covered(rs, DOMAIN rs) \cup Elements(r)
           /\ Ascending(rs) /\ (\A i \in DOMAIN rs : rs[i].end < r.start) => Ascending(Append(rs, r))
<1> DEFINE t == Append(rs, r)  n == Len(rs)
<1>1. r \in RangeType /\ r.start \in Int /\ rs \in Seq(RangeType) /\ n \in Nat /\ DOMAIN rs = 1 .. n
      BY LenProperties DEF Canonical, RangeType, AreRanges
<1>2. /\ t \in Seq(RangeType) /\ Len(t) = n + 1 /\ DOMAIN t = 1 .. n + 1
      /\ t[n + 1] = r /\ \A i \in 1 .. n : t[i] = rs[i]
      BY <1>1, AppendProperties, LenProperties
<1> HIDE DEF t, n
<1>3. 1 .. n + 1 = (1 .. n) \cup {n + 1} /\ n + 1 \notin 1 .. n
      BY <1>1
<1>4. AreRanges(t) /\ t # <<>>
  <2>1. \A i \in DOMAIN t : Canonical(t[i])
        BY <1>1, <1>2, <1>3 DEF AreRanges
  <2>2. t # <<>>
        BY <1>1, <1>2, EmptySeq
  <2>q. QED  BY <1>2, <2>1, <2>2 DEF AreRanges
<1>5. Bounded(t)
  <2>1. PICK b \in Int : \A i \in DOMAIN rs : b <= rs[i].start
        BY DEF Bounded
  <2>2. \A i \in DOMAIN rs : rs[i].start \in Int
        BY DEF AreRanges, Canonical, RangeType
  <2> DEFINE c == IF b <= r.start THEN b ELSE r.start
  <2>3. c \in Int /\ c <= b /\ c <= r.start
        BY <1>1
  <2> HIDE DEF c
  <2>4. \A i \in DOMAIN t : c <= t[i].start
        BY <1>1, <1>2, <1>3, <2>1, <2>2, <2>3
  <2>q. QED  BY <2>3, <2>4 DEF Bounded
<1>6. Covered(t, DOMAIN t) = Covered(rs, DOMAIN rs) \cup Elements(r)
      BY <1>1, <1>2, <1>3 DEF Covered
<1>7. ASSUME Ascending(rs), \A i \in DOMAIN rs : rs[i].end < r.start
      PROVE  Ascending(t)
  <2>1. ASSUME NEW i \in DOMAIN t, NEW j \in DOMAIN t, i < j
        PROVE  t[i].end < t[j].start
    <3>1. i \in 1 .. n
          BY <1>1, <1>2, <2>1
    <3>2. CASE j = n + 1
          BY <1>1, <1>2, <1>7, <3>1, <3>2
    <3>3. CASE j # n + 1
      <4>1. j \in 1 .. n
            BY <1>1, <1>2, <3>3
      <4>q. QED  BY <1>1, <1>2, <1>7, <2>1, <3>1, <4>1 DEF Ascending
    <3>q. QED  BY <3>2, <3>3
  <2>q. QED  BY <2>1 DEF Ascending
<1>q. QED  BY <1>1, <1>2, <1>4, <1>5, <1>6, <1>7 DEF t, n

\* A range of a single value.
LEMMA SingleValue ==
    ASSUME NEW a \in Int, NEW d \in Int, d > 0
    PROVE  /\ Canonical([start |-> a, end |-> a, step |-> d, down |-> FALSE])
           /\ Elements([start |-> a, end |-> a, step |-> d, down |-> FALSE]) = {a}
           /\ IntRange(a, a, d) = [start |-> a, end |-> a, step |-> d, down |-> FALSE]
           /\ Elements(IntRange(a, a, d)) = {a}
<1> DEFINE r == [start |-> a, end |-> a, step |-> d, down |-> FALSE]
<1>1. a = a + 0 * d
      OBVIOUS
<1>2. Canonical(r)
      BY <1>1 DEF Canonical, RangeType
<1>3. \A v \in Grid(r) : v = a
      BY DEF Grid
<1>4. a \in Grid(r) /\ Elements(r) = Grid(r)
      BY <1>2, ElementsOfRange
<1>5. Upwards(r) = r
      BY DEF Upwards
<1>6. IntRange(a, a, d) = r
      BY <1>2, <1>5, RangeAgain
<1>7. Elements(IntRange(a, a, d)) = {a}
      BY <1>3, <1>4, <1>6
<1>q. QED  BY <1>2, <1>3, <1>4, <1>6, <1>7

\* The range of the run has the run's bounds.
LEMMA RunIsRange ==
    ASSUME Running
    PROVE  Canonical(RunRange) /\ RunRange.start = run.start /\ RunRange.end = run.end
<1> DEFINE d == IF run.step = 0 THEN 1 ELSE run.step
           r == [start |-> run.start, end |-> run.end, step |-> d, down |-> FALSE]
<1>1. d \in Int /\ d > 0 /\ run.start \in Int /\ run.end \in Int /\ run.start <= run.end
      BY DEF Running
<1>2. \E n \in Nat : run.end = run.start + n * d
  <2>1. CASE run.step = 0
    <3>1. run.end = run.start + 0 * d
          BY <1>1, <2>1 DEF Running
    <3>q. QED  BY <3>1
  <2>2. CASE run.step # 0
        BY <2>2 DEF Running
  <2>q. QED  BY <2>1, <2>2
<1>3. Canonical(r)
      BY <1>1, <1>2 DEF Canonical, RangeType
<1>4. IntRange(r.start, r.end, r.step) = r
      BY <1>3, RangeAgain DEF Upwards
<1>5. RunRange = r
      BY <1>4 DEF RunRange
<1>q. QED  BY <1>3, <1>5

\* The next value of the list is taken into the run, or begins a new one.
LEMMA ExtendRunKeeps ==
    ASSUME AreRanges(ranges), Bounded(ranges), Running, ExtendRun
    PROVE  AreRanges(ranges)' /\ Bounded(ranges)' /\ Running'
<1>1. PICK v \in left :
        /\ \A w \in left : v <= w
        /\ left' = left \ {v} /\ values' = values
        /\ IF run.step \in {0, v - run.end}
           THEN run' = [run EXCEPT !.end = v, !.step = v - run.end] /\ UNCHANGED ranges
           ELSE /\ ranges' = Append(ranges, IntRange(run.start, run.end, run.step))
                /\ run' = [start |-> v, end |-> v, step |-> 0]
      BY DEF ExtendRun
<1>2. /\ run.start \in Int /\ run.end \in Int /\ run.step \in Int /\ run.start <= run.end
      /\ v \in Int /\ run.end < v /\ run.step >= 0
      /\ run = [start |-> run.start, end |-> run.end, step |-> run.step]
      BY <1>1 DEF Running
<1>3. Canonical(RunRange) /\ RunRange.start = run.start /\ RunRange.end = run.end
      BY RunIsRange
<1>4. left' \subseteq Int /\ left = left' \cup {v} /\ \A w \in left' : v < w
      BY <1>1, <1>2 DEF Running
<1>5. CASE run.step \in {0, v - run.end}
  <2> DEFINE d == v - run.end
             l == [start |-> run.start, end |-> run.end, step |-> d, down |-> FALSE]
             r == [start |-> v, end |-> v, step |-> d, down |-> FALSE]
  <2>1. d \in Int /\ d > 0 /\ run.end + d = v
        BY <1>2
  <2>2. /\ run' = [run EXCEPT !.end = v, !.step = d] /\ ranges' = ranges
        BY <1>1, <1>5
  <2>3. run' = [start |-> run.start, end |-> v, step |-> d]
        BY <1>2, <2>2
  <2>4. Canonical(l) /\ Elements(l) = Elements(RunRange)
    <3>1. CASE run.step = 0
      <4>1. run.start = run.end
            BY <3>1 DEF Running
      <4>2. RunRange = IntRange(run.start, run.start, 1)
            BY <3>1, <4>1 DEF RunRange
      <4>0. 1 \in Int /\ 1 > 0
            OBVIOUS
      <4>3. Elements(RunRange) = {run.start}
        <5>1. Elements(IntRange(run.start, run.start, 1)) = {run.start}
              BY <1>2, <4>0, SingleValue
        <5>q. QED  BY <4>2, <5>1
      <4>4. Canonical(l) /\ Elements(l) = {run.start}
            BY <1>2, <2>1, <4>1, SingleValue
      <4>q. QED  BY <4>3, <4>4
    <3>2. CASE run.step = d /\ run.step # 0
      <4>1. \E n \in Nat : run.end = run.start + n * d
            BY <3>2 DEF Running
      <4>2. Canonical(l)
            BY <1>2, <2>1, <4>1 DEF Canonical, RangeType
      <4>3. IntRange(l.start, l.end, l.step) = l
            BY <4>2, RangeAgain DEF Upwards
      <4>4. RunRange = l
            BY <3>2, <4>3 DEF RunRange
      <4>q. QED  BY <4>2, <4>4
    <3>q. QED  BY <1>5, <3>1, <3>2
  <2>5. Canonical(r) /\ Elements(r) = {v}
        BY <1>2, <2>1, SingleValue
  <2> DEFINE m == IntRange(run.start, v, d)
  <2>6. /\ Canonical(m) /\ m.start = run.start /\ m.end = v /\ m.step = d
        /\ Elements(m) = Elements(l) \cup Elements(r)
    <3>1. l.step = r.step /\ l.end + r.step = r.start /\ m = IntRange(l.start, r.end, r.step)
          BY <2>1
    <3> HIDE DEF l, r, m
    <3>2. /\ Canonical(m) /\ m.start = l.start /\ m.end = r.end /\ m.step = r.step
          /\ Elements(m) = Elements(l) \cup Elements(r)
          BY <2>4, <2>5, <3>1, Continued
    <3>q. QED  BY <3>2 DEF l, r
  <2>7. RunRange' = m
        BY <2>1, <2>3 DEF RunRange
  <2> HIDE DEF m, l, r
  <2>8. Elements(RunRange)' \cup left' = Elements(RunRange) \cup left
        BY <1>4, <2>4, <2>5, <2>6, <2>7
  <2>9. values' = Covered(ranges, DOMAIN ranges)' \cup Elements(RunRange)' \cup left'
        BY <1>1, <2>2, <2>8 DEF Running
  <2>10. \E n \in Nat : v = run.start + n * d
         BY <2>6 DEF Canonical
  <2>11. Ascending(ranges)' /\ \A i \in DOMAIN ranges' : ranges'[i].end < run.start
         BY <2>2 DEF Running
  <2>12. AreRanges(ranges)' /\ Bounded(ranges)'
         BY <2>2
  <2> HIDE DEF d
  <2>q. QED  BY <1>2, <1>4, <2>1, <2>3, <2>9, <2>10, <2>11, <2>12 DEF Running
<1>6. CASE run.step \notin {0, v - run.end}
  <2>1. ranges' = Append(ranges, RunRange) /\ run' = [start |-> v, end |-> v, step |-> 0]
        BY <1>1, <1>6 DEF RunRange
  <2>2. /\ AreRanges(ranges)' /\ Bounded(ranges)'
        /\ Len(ranges') = Len(ranges) + 1 /\ DOMAIN ranges' = 1 .. Len(ranges) + 1
        /\ ranges'[Len(ranges) + 1] = RunRange /\ \A i \in DOMAIN ranges : ranges'[i] = ranges[i]
        /\ Covered(ranges, DOMAIN ranges)' = Covered(ranges, DOMAIN ranges) \cup Elements(RunRange)
        /\ Ascending(ranges) /\ (\A i \in DOMAIN ranges : ranges[i].end < RunRange.start)
             => Ascending(ranges)'
        BY <1>3, <2>1, AppendRange
  <2>3. Ascending(ranges)'
        BY <1>3, <2>2 DEF Running
  <2>4. RunRange' = IntRange(v, v, 1)
        BY <2>1 DEF RunRange
  <2>5. Elements(RunRange)' = {v}
    <3>0. 1 \in Int /\ 1 > 0
          OBVIOUS
    <3>1. Elements(IntRange(v, v, 1)) = {v}
          BY <1>2, <3>0, SingleValue
    <3>2. Elements(RunRange)' = Elements(RunRange')
          BY DEF Elements
    <3>q. QED  BY <2>4, <3>1
  <2>6. values' = Covered(ranges, DOMAIN ranges)' \cup Elements(RunRange)' \cup left'
        BY <1>1, <1>4, <2>2, <2>5 DEF Running
  <2>7. ASSUME NEW i \in DOMAIN ranges'
        PROVE  ranges'[i].end < v
    <3>1. Len(ranges) \in Nat /\ DOMAIN ranges = 1 .. Len(ranges)
          BY LenProperties DEF AreRanges
    <3>2. CASE i = Len(ranges) + 1
          BY <1>2, <1>3, <2>2, <3>2
    <3>3. CASE i # Len(ranges) + 1
      <4>1. i \in DOMAIN ranges
            BY <2>2, <3>1, <3>3
      <4>2. ranges[i].end < run.start /\ ranges[i].end \in Int
            BY <4>1 DEF Running, AreRanges, Canonical, RangeType
      <4>q. QED  BY <1>2, <2>2, <4>1, <4>2
    <3>q. QED  BY <3>2, <3>3
  <2>q. QED  BY <1>2, <1>4, <2>1, <2>2, <2>3, <2>6, <2>7 DEF Running
<1>q. QED  BY <1>5, <1>6

----------------------------------------------------------------------------
(* Texts. *)

TokenType == [kind : {"hyphen", "colon", "comma", "number"}, value : Int]

\* The function with this first value and this step from a value to the next.
Iterates(f, n, T, a, h) ==
    /\ f \in [0 .. n -> T] /\ f[0] = a
    /\ \A i \in 1 .. n : f[i] = h[<<f[i - 1], i>>]

\* There is one.
LEMMA Recursion ==
    ASSUME NEW n \in Nat, NEW T, NEW a \in T, NEW h \in [T \X (1 .. n) -> T]
    PROVE  \E f : Iterates(f, n, T, a, h)
<1> DEFINE Good(m) == \E f \in [0 .. m -> T] :
                        f[0] = a /\ \A i \in 1 .. m : f[i] = h[<<f[i - 1], i>>]
           Bad == {m \in Nat : m <= n /\ ~Good(m)}
<1>1. Good(0)
  <2>1. [i \in 0 .. 0 |-> a] \in [0 .. 0 -> T] /\ [i \in 0 .. 0 |-> a][0] = a
        OBVIOUS
  <2>2. 1 .. 0 = {}
        OBVIOUS
  <2>q. QED  BY <2>1, <2>2
<1>2. ASSUME NEW m \in Nat, m + 1 <= n, Good(m)
      PROVE  Good(m + 1)
  <2>1. PICK f \in [0 .. m -> T] : f[0] = a /\ \A i \in 1 .. m : f[i] = h[<<f[i - 1], i>>]
        BY <1>2
  <2> DEFINE b == h[<<f[m], m + 1>>]
             g == [i \in 0 .. m + 1 |-> IF i = m + 1 THEN b ELSE f[i]]
  <2>2. f[m] \in T /\ m + 1 \in 1 .. n
        BY <1>2
  <2>3. b \in T
        BY <2>2
  <2> HIDE DEF b
  <2>4. g \in [0 .. m + 1 -> T]
        BY <2>3
  <2>5. g[0] = a /\ g[m + 1] = b /\ \A i \in 0 .. m : g[i] = f[i]
        BY <2>1
  <2> HIDE DEF g
  <2>6. ASSUME NEW i \in 1 .. m + 1
        PROVE  g[i] = h[<<g[i - 1], i>>]
    <3>1. CASE i = m + 1
          BY <2>5, <3>1 DEF b
    <3>2. CASE i # m + 1
      <4>1. i \in 1 .. m /\ i \in 0 .. m /\ i - 1 \in 0 .. m
            BY <3>2
      <4>q. QED  BY <2>1, <2>5, <4>1
    <3>q. QED  BY <3>1, <3>2
  <2>q. QED  BY <2>4, <2>5, <2>6
<1> HIDE DEF Good
<1>3. Bad = {}
  <2> SUFFICES ASSUME Bad # {}
               PROVE  FALSE
      OBVIOUS
  <2>1. PICK m \in Bad : \A k \in Bad : m <= k
    <3>1. Bad \in SUBSET Nat
          OBVIOUS
    <3> HIDE DEF Bad
    <3>q. QED  BY <3>1, LeastNumber
  <2>2. m \in Nat /\ m <= n /\ ~Good(m) /\ m # 0
        BY <1>1
  <2>3. m - 1 \in Nat /\ m - 1 \notin Bad /\ (m - 1) + 1 = m
        BY <2>1, <2>2
  <2>4. Good(m - 1)
        BY <2>2, <2>3
  <2>q. QED  BY <1>2, <2>2, <2>3, <2>4
<1>4. Good(n)
      BY <1>3
<1>q. QED  BY <1>4 DEF Good, Iterates

\* The text of a range is of tokens.
LEMMA RangeTextType ==
    ASSUME NEW r \in RangeType
    PROVE  RangeText(r) \in Seq(TokenType)
<1>1. ASSUME NEW n \in Int
      PROVE  Signed(n) \in Seq(TokenType)
  <2>1. Token("hyphen") \in TokenType /\ Number(n) \in TokenType /\ Number(-n) \in TokenType
        BY DEF Token, Number, TokenType
  <2>2. <<Token("hyphen"), Number(-n)>> \in Seq(TokenType) /\ <<Number(n)>> \in Seq(TokenType)
        BY <2>1
  <2>q. QED  BY <2>2 DEF Signed
<1>2. <<Token("hyphen")>> \in Seq(TokenType) /\ <<Token("comma")>> \in Seq(TokenType)
      /\ <<Token("colon")>> \in Seq(TokenType)
      BY DEF Token, TokenType
<1>3. \A s, t \in Seq(TokenType) : s \o t \in Seq(TokenType)
      OBVIOUS
<1>4. Signed(r.start) \in Seq(TokenType) /\ Signed(r.end) \in Seq(TokenType)
      /\ Signed(r.step) \in Seq(TokenType)
      BY <1>1 DEF RangeType
<1>q. QED  BY <1>2, <1>3, <1>4 DEF RangeText

\* The text of an expression is made of those of its ranges, from the left.
LEMMA TextFromLeft ==
    ASSUME NEW rs \in Seq(RangeType), rs # <<>>
    PROVE  \E u \in [1 .. Len(rs) -> Seq(TokenType)] :
             /\ u[1] = RangeText(rs[1]) /\ Text(rs) = u[Len(rs)]
             /\ \A i \in 2 .. Len(rs) : u[i] = u[i - 1] \o <<Token("comma")>> \o RangeText(rs[i])
<1> DEFINE n == Len(rs)  T == Seq(TokenType)
<1>1. n \in Nat /\ n >= 1 /\ \A i \in 1 .. n : rs[i] \in RangeType
      BY EmptySeq, LenProperties
<1> HIDE DEF n
<1>2. \A i \in 1 .. n : RangeText(rs[i]) \in T
      BY <1>1, RangeTextType
<1>3. <<Token("comma")>> \in T
      BY DEF Token, TokenType
<1> DEFINE h == [p \in T \X (1 .. n - 1) |-> p[1] \o <<Token("comma")>> \o RangeText(rs[p[2] + 1])]
<1>4. h \in [T \X (1 .. n - 1) -> T]
  <2>1. ASSUME NEW p \in T \X (1 .. n - 1)
        PROVE  p[1] \o <<Token("comma")>> \o RangeText(rs[p[2] + 1]) \in T
    <3>1. p[1] \in T /\ p[2] + 1 \in 1 .. n
          BY <1>1
    <3>2. RangeText(rs[p[2] + 1]) \in T
          BY <1>2, <3>1
    <3> HIDE DEF T
    <3>3. \A x, y \in T : x \o y \in T
          BY DEF T
    <3>q. QED  BY <1>3, <3>1, <3>2, <3>3
  <2>q. QED  BY <2>1
<1>5. PICK f \in [0 .. n - 1 -> T] : f[0] = RangeText(rs[1]) /\ \A i \in 1 .. n - 1 : f[i] = h[<<f[i - 1], i>>]
  <2> DEFINE a == RangeText(rs[1])  k == n - 1
  <2>1. k \in Nat /\ a \in T
        BY <1>1, <1>2
  <2>2. h \in [T \X (1 .. k) -> T]
        BY <1>4
  <2> HIDE DEF T, h, a, k
  <2>3. PICK f : Iterates(f, k, T, a, h)
        BY <2>1, <2>2, Recursion
  <2>4. f \in [0 .. k -> T] /\ f[0] = a /\ \A i \in 1 .. k : f[i] = h[<<f[i - 1], i>>]
        BY <2>3 DEF Iterates
  <2>q. QED  BY <2>4 DEF a, k
<1> DEFINE u == [i \in 1 .. n |-> f[i - 1]]
<1>6. u \in [1 .. n -> T] /\ u[1] = RangeText(rs[1])
      BY <1>1, <1>5
<1>7. ASSUME NEW i \in 2 .. n
      PROVE  u[i] = u[i - 1] \o <<Token("comma")>> \o RangeText(rs[i])
  <2>1. i - 1 \in 1 .. n - 1 /\ i - 1 \in 1 .. n /\ i \in 1 .. n /\ (i - 1) - 1 \in 0 .. n - 1 /\ (i - 1) + 1 = i
        BY <1>1
  <2>2. u[i] = f[i - 1] /\ u[i - 1] = f[(i - 1) - 1]
        BY <2>1
  <2>3. f[i - 1] = h[<<f[(i - 1) - 1], i - 1>>] /\ f[(i - 1) - 1] \in T
        BY <1>5, <2>1
  <2>4. h[<<f[(i - 1) - 1], i - 1>>] = f[(i - 1) - 1] \o <<Token("comma")>> \o RangeText(rs[(i - 1) + 1])
        BY <2>1, <2>3
  <2>q. QED  BY <2>1, <2>2, <2>3, <2>4
<1> HIDE DEF u, h, T
<1> DEFINE Rec(v) == v = [i \in 1 .. n |->
                           IF i = 1 THEN RangeText(rs[1])
                           ELSE v[i - 1] \o <<Token("comma")>> \o RangeText(rs[i])]
<1>8. Rec(u)
  <2>1. \A i \in 1 .. n : i # 1 => i \in 2 .. n
        BY <1>1
  <2>q. QED  BY <1>6, <1>7, <2>1
<1> DEFINE w == CHOOSE v : Rec(v)
<1>9. Rec(w) /\ Text(rs) = w[n]
  <2>1. Rec(w)
        BY <1>8
  <2>2. Text(rs) = w[n]
        BY DEF Text, n
  <2>q. QED  BY <2>1, <2>2
<1> HIDE DEF w
<1>10. \A i \in 1 .. n : w[i] = u[i]
  <2> DEFINE Bad == {i \in Nat : i \in 1 .. n /\ w[i] # u[i]}
  <2> SUFFICES ASSUME Bad # {}
               PROVE  FALSE
      BY <1>1
  <2>1. PICK i \in Bad : \A k \in Bad : i <= k
    <3>1. Bad \in SUBSET Nat
          OBVIOUS
    <3> HIDE DEF Bad
    <3>q. QED  BY <3>1, LeastNumber
  <2>2. i # 1
        BY <1>1, <1>6, <1>9
  <2>3. i \in 2 .. n /\ i - 1 \in 1 .. n /\ i \in 1 .. n
        BY <1>1, <2>2
  <2>4. w[i - 1] = u[i - 1]
        BY <2>1, <2>3
  <2>5. w[i] = w[i - 1] \o <<Token("comma")>> \o RangeText(rs[i])
        BY <1>9, <2>2, <2>3
  <2>q. QED  BY <1>7, <2>3, <2>4, <2>5
<1>11. n \in 1 .. n
       BY <1>1
<1>q. QED  BY <1>6, <1>7, <1>9, <1>10, <1>11 DEF n, T

\* The numbers of an element of a text, what it means and how it is written in
\* front of the rest of the text.
Element == {e \in Seq(Int) : Len(e) \in 1 .. 3}
StopOf(e) == IF Len(e) = 1 THEN e[1] ELSE e[2]
StepOf(e) == IF Len(e) = 3 THEN e[3] ELSE 1
RangeOf(e) == IntRange(e[1], StopOf(e), StepOf(e))
AfterSecond(e, rest) ==
    IF Len(e) = 3 THEN <<Token("colon")>> \o (Signed(e[3]) \o rest) ELSE rest
AfterFirst(e, rest) ==
    IF Len(e) = 1 THEN rest
    ELSE <<Token("hyphen")>> \o (Signed(e[2]) \o AfterSecond(e, rest))
Written(e, rest) == Signed(e[1]) \o AfterFirst(e, rest)

\* The elements of a text, in ascending order, and the text from each of them on.
CommaAnd(s) == <<Token("comma")>> \o s
Behind(m, F, j) == IF j = m THEN <<>> ELSE CommaAnd(F[j + 1])
Script(m, E, F) ==
    /\ m \in Nat /\ E \in [1 .. m -> Element] /\ F \in [1 .. m -> Seq(TokenType)]
    /\ \A j \in 1 .. m : WellFormed(E[j][1], StopOf(E[j]), StepOf(E[j]))
    /\ \A j \in 1 .. m : F[j] = Written(E[j], Behind(m, F, j))
    /\ \A i, j \in 1 .. m : i < j => RangeOf(E[i]).end < RangeOf(E[j]).start
Covers(m, E) == UNION {Elements(RangeOf(E[j])) : j \in 1 .. m}

\* Signs and digits are tokens.
LEMMA SignedType ==
    ASSUME NEW n \in Int
    PROVE  Signed(n) \in Seq(TokenType)
<1>1. Token("hyphen") \in TokenType /\ Number(n) \in TokenType /\ Number(-n) \in TokenType
      BY DEF Token, Number, TokenType
<1>2. <<Token("hyphen"), Number(-n)>> \in Seq(TokenType) /\ <<Number(n)>> \in Seq(TokenType)
      BY <1>1
<1>q. QED  BY <1>2 DEF Signed

\* So are the separators.
LEMMA SeparatorType ==
    /\ <<Token("hyphen")>> \in Seq(TokenType) /\ <<Token("comma")>> \in Seq(TokenType)
    /\ <<Token("colon")>> \in Seq(TokenType)
BY DEF Token, TokenType

\* Texts that are put together.
LEMMA Together ==
    ASSUME NEW s \in Seq(TokenType), NEW t \in Seq(TokenType)
    PROVE  /\ s \o t \in Seq(TokenType) /\ s \o <<>> = s /\ <<>> \o s = s
           /\ \A u \in Seq(TokenType) : (s \o t) \o u = s \o (t \o u)
OBVIOUS

\* Three of them, whichever are put together first.
Associate(s, t, u) == (s \o t) \o u = s \o (t \o u)
LEMMA Association ==
    ASSUME NEW s \in Seq(TokenType), NEW t \in Seq(TokenType), NEW u \in Seq(TokenType)
    PROVE  Associate(s, t, u)
BY Together DEF Associate

\* Four of them, whichever are put together first.
Regrouped(s, t, u, v) == ((s \o t) \o u) \o v = s \o (t \o (u \o v))
LEMMA Regroup ==
    ASSUME NEW s \in Seq(TokenType), NEW t \in Seq(TokenType),
           NEW u \in Seq(TokenType), NEW v \in Seq(TokenType)
    PROVE  Regrouped(s, t, u, v)
<1> DEFINE T == Seq(TokenType)  Cat(x, y) == x \o y
<1>1. \A x, y \in T : Cat(x, y) \in T
      BY Together
<1>2. \A x, y, z \in T : Cat(Cat(x, y), z) = Cat(x, Cat(y, z))
      BY Together
<1>3. s \in T /\ t \in T /\ u \in T /\ v \in T
      OBVIOUS
<1> HIDE DEF T, Cat
<1>4. Cat(s, t) \in T /\ Cat(u, v) \in T
      BY <1>1, <1>3
<1>5. Cat(Cat(Cat(s, t), u), v) = Cat(s, Cat(t, Cat(u, v)))
      BY <1>2, <1>3, <1>4
<1>q. QED  BY <1>5 DEF Cat, Regrouped

\* The numbers of an element.
LEMMA ElementParts ==
    ASSUME NEW e \in Element
    PROVE  /\ e[1] \in Int /\ StopOf(e) \in Int /\ StepOf(e) \in Int
           /\ Len(e) # 1 => e[2] \in Int
           /\ Len(e) = 3 => e[3] \in Int
<1>1. e \in Seq(Int) /\ Len(e) \in 1 .. 3 /\ \A i \in 1 .. Len(e) : e[i] \in Int
      BY DEF Element
<1>2. e[1] \in Int /\ (Len(e) # 1 => e[2] \in Int) /\ (Len(e) = 3 => e[3] \in Int)
      BY <1>1
<1>q. QED  BY <1>2 DEF StopOf, StepOf

\* An element is written in tokens.
LEMMA WrittenType ==
    ASSUME NEW e \in Element, NEW rest \in Seq(TokenType)
    PROVE  Written(e, rest) \in Seq(TokenType)
<1>1. /\ Signed(e[1]) \in Seq(TokenType)
      /\ Len(e) # 1 => Signed(e[2]) \in Seq(TokenType)
      /\ Len(e) = 3 => Signed(e[3]) \in Seq(TokenType)
      BY ElementParts, SignedType
<1>2. AfterSecond(e, rest) \in Seq(TokenType)
      BY <1>1, SeparatorType, Together DEF AfterSecond
<1>3. AfterFirst(e, rest) \in Seq(TokenType)
      BY <1>1, <1>2, SeparatorType, Together DEF AfterFirst
<1>q. QED  BY <1>1, <1>3, Together DEF Written

\* A script with one more element in front.
Fronts(e, m, E, F, E2, F2) ==
    /\ Script(m + 1, E2, F2)
    /\ E2[1] = e /\ \A j \in 1 .. m : E2[j + 1] = E[j]
    /\ F2[1] = Written(e, Behind(m, F, 0))
    /\ Covers(m + 1, E2) = Elements(RangeOf(e)) \cup Covers(m, E)

\* An element is put in front of a text.
LEMMA AddElement ==
    ASSUME NEW m, NEW E, NEW F, Script(m, E, F),
           NEW e \in Element, WellFormed(e[1], StopOf(e), StepOf(e)),
           \A j \in 1 .. m : RangeOf(e).end < RangeOf(E[j]).start
    PROVE  \E E2, F2 : Fronts(e, m, E, F, E2, F2)
<1> DEFINE w == Written(e, Behind(m, F, 0))
           E2 == [j \in 1 .. m + 1 |-> IF j = 1 THEN e ELSE E[j - 1]]
           F2 == [j \in 1 .. m + 1 |-> IF j = 1 THEN w ELSE F[j - 1]]
<1>1. m \in Nat /\ E \in [1 .. m -> Element] /\ F \in [1 .. m -> Seq(TokenType)]
      BY DEF Script
<1>2. w \in Seq(TokenType)
  <2>1. <<>> \in Seq(TokenType)
        OBVIOUS
  <2>2. m # 0 => F[0 + 1] \in Seq(TokenType)
        BY <1>1
  <2>3. Behind(m, F, 0) \in Seq(TokenType)
        BY <1>1, <2>1, <2>2, SeparatorType, Together DEF Behind, CommaAnd
  <2>q. QED  BY <2>3, WrittenType
<1> HIDE DEF w
<1>3. E2 \in [1 .. m + 1 -> Element] /\ F2 \in [1 .. m + 1 -> Seq(TokenType)]
      BY <1>1, <1>2
<1>4. /\ E2[1] = e /\ F2[1] = w
      /\ \A j \in 1 .. m : E2[j + 1] = E[j] /\ F2[j + 1] = F[j]
      BY <1>1
<1>5. \A j \in 1 .. m + 1 : j = 1 \/ \E i \in 1 .. m : j = i + 1
  <2> SUFFICES ASSUME NEW j \in 1 .. m + 1, j # 1
               PROVE  j - 1 \in 1 .. m /\ j = (j - 1) + 1
      OBVIOUS
  <2>q. QED  BY <1>1
<1> HIDE DEF E2, F2
<1>6. ASSUME NEW j \in 1 .. m + 1
      PROVE  WellFormed(E2[j][1], StopOf(E2[j]), StepOf(E2[j]))
  <2>1. CASE j = 1
        BY <1>4, <2>1
  <2>2. ASSUME NEW i \in 1 .. m, j = i + 1
        PROVE  WellFormed(E2[j][1], StopOf(E2[j]), StepOf(E2[j]))
    <3>1. WellFormed(E[i][1], StopOf(E[i]), StepOf(E[i]))
          BY DEF Script
    <3>q. QED  BY <1>4, <2>2, <3>1
  <2>q. QED  BY <1>5, <2>1, <2>2
<1>7. ASSUME NEW j \in 1 .. m + 1
      PROVE  F2[j] = Written(E2[j], Behind(m + 1, F2, j))
  <2>1. CASE j = 1
    <3>1. Behind(m + 1, F2, 1) = Behind(m, F, 0)
      <4>1. CASE m = 0
            BY <4>1 DEF Behind
      <4>2. CASE m # 0
        <5>1. 1 \in 1 .. m /\ m + 1 # 1 /\ F2[1 + 1] = F[1]
              BY <1>1, <1>4, <4>2
        <5>q. QED  BY <4>2, <5>1 DEF Behind
      <4>q. QED  BY <4>1, <4>2
    <3>q. QED  BY <1>4, <2>1, <3>1 DEF w
  <2>2. ASSUME NEW i \in 1 .. m, j = i + 1
        PROVE  F2[j] = Written(E2[j], Behind(m + 1, F2, j))
    <3>1. F[i] = Written(E[i], Behind(m, F, i))
          BY DEF Script
    <3>2. Behind(m + 1, F2, j) = Behind(m, F, i)
      <4>1. CASE i = m
            BY <2>2, <4>1 DEF Behind
      <4>2. CASE i # m
        <5>1. i + 1 \in 1 .. m /\ j # m + 1
              BY <1>1, <2>2, <4>2
        <5>2. F2[j + 1] = F[i + 1]
              BY <1>4, <2>2, <5>1
        <5>q. QED  BY <4>2, <5>1, <5>2 DEF Behind
      <4>q. QED  BY <4>1, <4>2
    <3>3. F2[j] = F[i] /\ E2[j] = E[i]
          BY <1>4, <2>2
    <3>q. QED  BY <3>1, <3>2, <3>3
  <2>q. QED  BY <1>5, <2>1, <2>2
<1>8. ASSUME NEW i \in 1 .. m + 1, NEW j \in 1 .. m + 1, i < j
      PROVE  RangeOf(E2[i]).end < RangeOf(E2[j]).start
  <2>1. PICK b \in 1 .. m : j = b + 1
        BY <1>1, <1>5, <1>8
  <2>2. CASE i = 1
        BY <1>4, <2>1, <2>2
  <2>3. ASSUME NEW a \in 1 .. m, i = a + 1
        PROVE  RangeOf(E2[i]).end < RangeOf(E2[j]).start
    <3>1. a < b
          BY <1>8, <2>1, <2>3
    <3>2. RangeOf(E[a]).end < RangeOf(E[b]).start
          BY <3>1 DEF Script
    <3>q. QED  BY <1>4, <2>1, <2>3, <3>2
  <2>q. QED  BY <1>5, <2>2, <2>3
<1>9. Script(m + 1, E2, F2)
  <2>1. m + 1 \in Nat
        BY <1>1
  <2>q. QED  BY <1>3, <1>6, <1>7, <1>8, <2>1 DEF Script
<1>10. Covers(m + 1, E2) = Elements(RangeOf(e)) \cup Covers(m, E)
  <2>1. \A v : v \in Covers(m + 1, E2) <=> \E j \in 1 .. m + 1 : v \in Elements(RangeOf(E2[j]))
        BY DEF Covers
  <2>2. \A v : v \in Covers(m, E) <=> \E j \in 1 .. m : v \in Elements(RangeOf(E[j]))
        BY DEF Covers
  <2>3. 1 \in 1 .. m + 1 /\ \A i \in 1 .. m : i + 1 \in 1 .. m + 1
        BY <1>1
  <2>4. \A v : v \in Covers(m + 1, E2) <=> v \in Elements(RangeOf(e)) \/ v \in Covers(m, E)
        BY <1>4, <1>5, <2>1, <2>2, <2>3
  <2>q. QED  BY <2>4
<1>q. QED  BY <1>4, <1>9, <1>10 DEF w, Fronts

\* An element of one number, ...
LEMMA OneNumber ==
    ASSUME NEW a \in Int, NEW rest
    PROVE  /\ <<a>> \in Element /\ <<a>>[1] = a /\ StopOf(<<a>>) = a /\ StepOf(<<a>>) = 1
           /\ Written(<<a>>, rest) = Signed(a) \o rest
<1> DEFINE x == <<a>>
<1>1. Len(x) = 1 /\ x[1] = a /\ x \in Seq(Int) /\ 1 \in 1 .. 3
      OBVIOUS
<1> HIDE DEF x
<1>2. /\ x \in Element /\ StopOf(x) = a /\ StepOf(x) = 1
      /\ Written(x, rest) = Signed(a) \o rest
      BY <1>1 DEF Element, StopOf, StepOf, Written, AfterFirst
<1>q. QED  BY <1>1, <1>2 DEF x

\* ... of two numbers ...
LEMMA TwoNumbers ==
    ASSUME NEW a \in Int, NEW b \in Int, NEW rest
    PROVE  /\ <<a, b>> \in Element /\ <<a, b>>[1] = a
           /\ StopOf(<<a, b>>) = b /\ StepOf(<<a, b>>) = 1
           /\ Written(<<a, b>>, rest) = Signed(a) \o (<<Token("hyphen")>> \o (Signed(b) \o rest))
<1> DEFINE x == <<a, b>>
<1>1. Len(x) = 2 /\ x[1] = a /\ x[2] = b /\ x \in Seq(Int) /\ 2 \in 1 .. 3
      OBVIOUS
<1> HIDE DEF x
<1>2. /\ x \in Element /\ StopOf(x) = b /\ StepOf(x) = 1
      /\ Written(x, rest) = Signed(a) \o (<<Token("hyphen")>> \o (Signed(b) \o rest))
      BY <1>1 DEF Element, StopOf, StepOf, Written, AfterFirst, AfterSecond
<1>q. QED  BY <1>1, <1>2 DEF x

\* ... and of three.
InFull(a, b, c, rest) ==
    Signed(a) \o (<<Token("hyphen")>> \o (Signed(b) \o
      (<<Token("colon")>> \o (Signed(c) \o rest))))
LEMMA ThreeNumbers ==
    ASSUME NEW a \in Int, NEW b \in Int, NEW c \in Int, NEW rest
    PROVE  /\ <<a, b, c>> \in Element /\ <<a, b, c>>[1] = a
           /\ StopOf(<<a, b, c>>) = b /\ StepOf(<<a, b, c>>) = c
           /\ Written(<<a, b, c>>, rest) = InFull(a, b, c, rest)
<1> DEFINE x == <<a, b, c>>
<1>1. /\ Len(x) = 3 /\ x[1] = a /\ x[2] = b /\ x[3] = c /\ x \in Seq(Int)
      /\ 3 \in 1 .. 3
      OBVIOUS
<1> HIDE DEF x
<1>2. x \in Element /\ StopOf(x) = b /\ StepOf(x) = c
      BY <1>1 DEF Element, StopOf, StepOf
<1>3. AfterSecond(x, rest) = <<Token("colon")>> \o (Signed(c) \o rest)
      BY <1>1 DEF AfterSecond
<1>4. Written(x, rest) = Signed(a) \o (<<Token("hyphen")>> \o (Signed(b) \o
                           (<<Token("colon")>> \o (Signed(c) \o rest))))
      BY <1>1, <1>3 DEF Written, AfterFirst
<1>q. QED  BY <1>1, <1>2, <1>4 DEF x, InFull

\* An element of one number denotes the number.
LEMMA OneDenotes ==
    ASSUME NEW a \in Int
    PROVE  /\ WellFormed(a, a, 1)
           /\ Elements(RangeOf(<<a>>)) = {a}
           /\ RangeOf(<<a>>).start = a /\ RangeOf(<<a>>).end = a
<1>0. 1 \in Int /\ 1 > 0
      OBVIOUS
<1>1. RangeOf(<<a>>) = IntRange(a, a, 1)
      BY OneNumber DEF RangeOf
<1>2. /\ Elements(IntRange(a, a, 1)) = {a}
      /\ IntRange(a, a, 1) = [start |-> a, end |-> a, step |-> 1, down |-> FALSE]
      BY <1>0, SingleValue
<1>q. QED  BY <1>1, <1>2 DEF WellFormed

\* A script with one more range in front.
FrontsRange(r, m, E, F, m2, E2, F2) ==
    /\ Script(m2, E2, F2) /\ m2 >= 1
    /\ F2[1] = RangeText(r) \o Behind(m, F, 0)
    /\ \A j \in 1 .. m2 : r.start <= RangeOf(E2[j]).start
    /\ Covers(m2, E2) = Elements(r) \cup Covers(m, E)

\* A range is put in front of a text, as one element or as two.
LEMMA AddRange ==
    ASSUME NEW m, NEW E, NEW F, Script(m, E, F), NEW r, Canonical(r),
           \A j \in 1 .. m : r.end < RangeOf(E[j]).start
    PROVE  \E m2, E2, F2 : FrontsRange(r, m, E, F, m2, E2, F2)
<1> DEFINE a == r.start  b == r.end  c == r.step  rest == Behind(m, F, 0)
<1>1. a \in Int /\ b \in Int /\ c \in Int /\ c > 0 /\ a <= b
      BY DEF Canonical, RangeType
<1>2. PICK n \in Nat : b = a + n * c
      BY DEF Canonical
<1>3. Length(r) = n + 1
      BY <1>2, LengthOfRange
<1>4. m \in Nat /\ E \in [1 .. m -> Element] /\ F \in [1 .. m -> Seq(TokenType)]
      BY DEF Script
<1>5. \A j \in 1 .. m : RangeOf(E[j]).start \in Int
  <2>1. ASSUME NEW j \in 1 .. m
        PROVE  RangeOf(E[j]).start \in Int
    <3>1. E[j] \in Element /\ WellFormed(E[j][1], StopOf(E[j]), StepOf(E[j]))
          BY <1>4 DEF Script
    <3>2. Canonical(RangeOf(E[j]))
          BY <3>1, ElementParts, RangeMeans DEF RangeOf
    <3>q. QED  BY <3>2 DEF Canonical, RangeType
  <2>q. QED  BY <2>1
<1>6. rest \in Seq(TokenType)
  <2>1. <<>> \in Seq(TokenType)
        OBVIOUS
  <2>2. m # 0 => F[0 + 1] \in Seq(TokenType)
        BY <1>4
  <2>q. QED  BY <1>4, <2>1, <2>2, SeparatorType, Together DEF Behind, CommaAnd
<1>7. Elements(r) = Grid(r)
      BY ElementsOfRange
<1>8. /\ Signed(a) \in Seq(TokenType) /\ Signed(b) \in Seq(TokenType) /\ Signed(c) \in Seq(TokenType)
      BY <1>1, SignedType
<1> HIDE DEF rest
<1>9. CASE n = 0
  <2>1. b = a /\ Length(r) = 1
        BY <1>1, <1>2, <1>3, <1>9
  <2>2. Elements(r) = {a}
    <3>1. \A v \in Grid(r) : v = a
          BY <1>1, <2>1 DEF Grid
    <3>2. a \in Grid(r)
          BY ElementsOfRange
    <3>q. QED  BY <1>7, <3>1, <3>2
  <2> DEFINE e == <<a>>
  <2>3. /\ e \in Element /\ WellFormed(e[1], StopOf(e), StepOf(e)) /\ RangeOf(e).end = a
        /\ RangeOf(e).start = a /\ Elements(RangeOf(e)) = {a} /\ Written(e, rest) = Signed(a) \o rest
        BY <1>1, OneNumber, OneDenotes
  <2> HIDE DEF e
  <2>4. \A j \in 1 .. m : RangeOf(e).end < RangeOf(E[j]).start
        BY <2>1, <2>3
  <2>5. PICK E2, F2 : /\ Script(m + 1, E2, F2)
                      /\ E2[1] = e /\ \A j \in 1 .. m : E2[j + 1] = E[j]
                      /\ F2[1] = Written(e, rest)
                      /\ Covers(m + 1, E2) = Elements(RangeOf(e)) \cup Covers(m, E)
    <3>1. PICK E2, F2 : Fronts(e, m, E, F, E2, F2)
          BY <2>3, <2>4, AddElement
    <3>q. QED  BY <3>1 DEF Fronts, rest
  <2>6. \A j \in 1 .. m + 1 : a <= RangeOf(E2[j]).start
    <3>1. ASSUME NEW j \in 1 .. m + 1
          PROVE  a <= RangeOf(E2[j]).start
      <4>1. CASE j = 1
            BY <1>1, <2>3, <2>5, <4>1
      <4>2. CASE j # 1
        <5>1. j - 1 \in 1 .. m /\ j = (j - 1) + 1
              BY <1>4, <4>2
        <5>2. E2[j] = E[j - 1] /\ b < RangeOf(E[j - 1]).start /\ RangeOf(E[j - 1]).start \in Int
              BY <1>5, <2>5, <5>1
        <5>q. QED  BY <1>1, <5>2
      <4>q. QED  BY <4>1, <4>2
    <3>q. QED  BY <3>1
  <2>7. F2[1] = RangeText(r) \o rest
        BY <2>1, <2>3, <2>5 DEF RangeText
  <2>8. m + 1 >= 1
        BY <1>4
  <2>q. QED  BY <2>2, <2>3, <2>5, <2>6, <2>7, <2>8 DEF rest, FrontsRange
<1>10. CASE n = 1
  <2>1. Length(r) = 2 /\ b = a + c /\ a < b
        BY <1>1, <1>2, <1>3, <1>10
  <2>2. Elements(r) = {a, b}
    <3>1. \A k \in Nat : a + k * c <= b => k = 0 \/ k = 1
      <4>1. ASSUME NEW k \in Nat, a + k * c <= b
            PROVE  k = 0 \/ k = 1
        <5>1. k * c \in Int /\ 1 * c = c
              BY <1>1, Multiples
        <5>2. k * c <= 1 * c
              BY <1>1, <2>1, <4>1, <5>1
        <5>3. k <= 1
              BY <1>1, <5>2, Multiples
        <5>q. QED  BY <5>3
      <4>q. QED  BY <4>1
    <3>2. 0 * c = 0 /\ 1 * c = c
          BY <1>1
    <3>3. \A v \in Grid(r) : v = a \/ v = b
      <4>1. ASSUME NEW v \in Grid(r)
            PROVE  v = a \/ v = b
        <5>1. PICK k \in Nat : v = a + k * c
              BY DEF Grid
        <5>2. v <= b
              BY ElementsOfRange
        <5>3. k = 0 \/ k = 1
              BY <3>1, <5>1, <5>2
        <5>q. QED  BY <1>1, <2>1, <3>2, <5>1, <5>3
      <4>q. QED  BY <4>1
    <3>4. a \in Grid(r) /\ b \in Grid(r)
          BY ElementsOfRange
    <3>q. QED  BY <1>7, <3>3, <3>4
  <2> DEFINE e == <<b>>
  <2>3. /\ e \in Element /\ WellFormed(e[1], StopOf(e), StepOf(e)) /\ RangeOf(e).end = b
        /\ RangeOf(e).start = b /\ Elements(RangeOf(e)) = {b} /\ Written(e, rest) = Signed(b) \o rest
        BY <1>1, OneNumber, OneDenotes
  <2> HIDE DEF e
  <2>4. \A j \in 1 .. m : RangeOf(e).end < RangeOf(E[j]).start
        BY <2>3
  <2>5. PICK E1, F1 : /\ Script(m + 1, E1, F1)
                      /\ E1[1] = e /\ \A j \in 1 .. m : E1[j + 1] = E[j]
                      /\ F1[1] = Written(e, rest)
                      /\ Covers(m + 1, E1) = Elements(RangeOf(e)) \cup Covers(m, E)
    <3>1. PICK E2, F2 : Fronts(e, m, E, F, E2, F2)
          BY <2>3, <2>4, AddElement
    <3>q. QED  BY <3>1 DEF Fronts, rest
  <2>6. ASSUME NEW j \in 1 .. m + 1
        PROVE  b <= RangeOf(E1[j]).start /\ RangeOf(E1[j]).start \in Int
    <3>1. CASE j = 1
          BY <1>1, <2>3, <2>5, <3>1
    <3>2. CASE j # 1
      <4>1. j - 1 \in 1 .. m /\ j = (j - 1) + 1
            BY <1>4, <3>2
      <4>2. E1[j] = E[j - 1] /\ b < RangeOf(E[j - 1]).start /\ RangeOf(E[j - 1]).start \in Int
            BY <1>5, <2>5, <4>1
      <4>q. QED  BY <1>1, <4>2
    <3>q. QED  BY <3>1, <3>2
  <2> DEFINE d == <<a>>  behind == Behind(m + 1, F1, 0)
  <2>7. behind = CommaAnd(F1[1]) /\ behind \in Seq(TokenType)
    <3>1. m + 1 # 0 /\ 1 \in 1 .. m + 1
          BY <1>4
    <3>2. F1[1] \in Seq(TokenType)
          BY <2>5, <3>1 DEF Script
    <3>q. QED  BY <3>1, <3>2, SeparatorType, Together DEF Behind, CommaAnd
  <2>8. /\ d \in Element /\ WellFormed(d[1], StopOf(d), StepOf(d)) /\ RangeOf(d).end = a
        /\ RangeOf(d).start = a /\ Elements(RangeOf(d)) = {a} /\ Written(d, behind) = Signed(a) \o behind
        BY <1>1, OneNumber, OneDenotes
  <2> HIDE DEF d, behind
  <2>9. \A j \in 1 .. m + 1 : RangeOf(d).end < RangeOf(E1[j]).start
        BY <1>1, <2>1, <2>6, <2>8
  <2>10. PICK E2, F2 : /\ Script((m + 1) + 1, E2, F2)
                       /\ E2[1] = d /\ \A j \in 1 .. m + 1 : E2[j + 1] = E1[j]
                       /\ F2[1] = Written(d, behind)
                       /\ Covers((m + 1) + 1, E2) = Elements(RangeOf(d)) \cup Covers(m + 1, E1)
    <3>1. PICK E2, F2 : Fronts(d, m + 1, E1, F1, E2, F2)
          BY <2>5, <2>8, <2>9, AddElement
    <3>q. QED  BY <3>1 DEF Fronts, behind
  <2>11. ASSUME NEW j \in 1 .. (m + 1) + 1
         PROVE  a <= RangeOf(E2[j]).start
    <3>1. CASE j = 1
          BY <1>1, <2>8, <2>10, <3>1
    <3>2. CASE j # 1
      <4>1. j - 1 \in 1 .. m + 1 /\ j = (j - 1) + 1
            BY <1>4, <3>2
      <4>2. E2[j] = E1[j - 1] /\ b <= RangeOf(E1[j - 1]).start /\ RangeOf(E1[j - 1]).start \in Int
            BY <2>6, <2>10, <4>1
      <4>q. QED  BY <1>1, <4>2
    <3>q. QED  BY <3>1, <3>2
  <2>12. F2[1] = RangeText(r) \o rest
    <3>1. F2[1] = Signed(a) \o (<<Token("comma")>> \o (Signed(b) \o rest))
          BY <2>3, <2>5, <2>7, <2>8, <2>10 DEF CommaAnd
    <3>2. RangeText(r) = Signed(a) \o <<Token("comma")>> \o Signed(b)
          BY <2>1 DEF RangeText
    <3>3. <<Token("comma")>> \in Seq(TokenType)
          BY SeparatorType
    <3>4. Signed(a) \o <<Token("comma")>> \in Seq(TokenType)
          BY <1>8, <3>3, Together
    <3>5. (Signed(a) \o <<Token("comma")>> \o Signed(b)) \o rest
            = (Signed(a) \o <<Token("comma")>>) \o (Signed(b) \o rest)
          BY <1>6, <1>8, <3>4, Together, SMTT(30)
    <3>6. Signed(b) \o rest \in Seq(TokenType)
          BY <1>6, <1>8, Together
    <3>7. (Signed(a) \o <<Token("comma")>>) \o (Signed(b) \o rest)
            = Signed(a) \o (<<Token("comma")>> \o (Signed(b) \o rest))
          BY <1>8, <3>3, <3>6, Together
    <3>q. QED  BY <3>1, <3>2, <3>5, <3>7
  <2>13. (m + 1) + 1 >= 1
         BY <1>4
  <2>14. Covers((m + 1) + 1, E2) = Elements(r) \cup Covers(m, E)
         BY <2>2, <2>3, <2>5, <2>8, <2>10
  <2>q. QED  BY <2>10, <2>11, <2>12, <2>13, <2>14 DEF rest, FrontsRange
<1>11. CASE n > 1
  <2> DEFINE e == IF c = 1 THEN <<a, b>> ELSE <<a, b, c>>
  <2>1. Length(r) # 1 /\ Length(r) # 2
        BY <1>3, <1>11
  <2>2. e \in Element /\ e[1] = a /\ StopOf(e) = b /\ StepOf(e) = c
    <3>1. CASE c = 1
          BY <1>1, <3>1, TwoNumbers
    <3>2. CASE c # 1
      <4>1. e = <<a, b, c>>
            BY <3>2
      <4> HIDE DEF a, b, c, e
      <4>2. /\ <<a, b, c>> \in Element /\ <<a, b, c>>[1] = a
            /\ StopOf(<<a, b, c>>) = b /\ StepOf(<<a, b, c>>) = c
            BY <1>1, ThreeNumbers
      <4>q. QED  BY <4>1, <4>2
    <3>q. QED  BY <3>1, <3>2
  <2>3. RangeOf(e) = Upwards(r) /\ WellFormed(e[1], StopOf(e), StepOf(e))
    <3> HIDE DEF e
    <3>q. QED  BY <2>2, RangeAgain DEF RangeOf
  <2>4. RangeOf(e).start = a /\ RangeOf(e).end = b
        BY <2>3 DEF Upwards
  <2>5. Elements(RangeOf(e)) = Elements(r)
        BY <1>7, <2>3, RangeAgain, ElementsOfRange
  <2>6. Written(e, rest) = RangeText(r) \o rest
    <3> DEFINE H == <<Token("hyphen")>>  K == <<Token("colon")>>  A == Signed(a)  B == Signed(b)  C == Signed(c)
               T == Seq(TokenType)
    <3>1. H \in T /\ K \in T /\ A \in T /\ B \in T /\ C \in T /\ rest \in T
          BY <1>6, <1>8, SeparatorType
    <3> DEFINE y == (A \o H) \o B  x == K \o (C \o rest)
    <3>5. RangeText(r) = IF c = 1 THEN y ELSE (y \o K) \o C
          BY <2>1 DEF RangeText
    <3> HIDE DEF A, H, B, K, C
    <3>2. A \o H \in T /\ C \o rest \in T
          BY <3>1, Together
    <3>3. y \in T /\ x \in T
          BY <3>1, <3>2, Together
    <3> HIDE DEF x
    <3>4. y \o rest = A \o (H \o (B \o rest)) /\ y \o x = A \o (H \o (B \o x))
      <4>1. Regrouped(A, H, B, rest)
            BY <3>1, Regroup
      <4>2. Regrouped(A, H, B, x)
            BY <3>1, <3>3, Regroup
      <4>q. QED  BY <4>1, <4>2 DEF Regrouped
    <3> HIDE DEF y
    <3>6. ((y \o K) \o C) \o rest = y \o x
      <4>1. Regrouped(y, K, C, rest)
            BY <3>1, <3>3, Regroup
      <4>q. QED  BY <4>1 DEF Regrouped, x
    <3>7. CASE c = 1
      <4>1. Written(e, rest) = A \o (H \o (B \o rest))
            BY <1>1, <3>7, TwoNumbers, ZenonT(30) DEF A, H, B
      <4>q. QED  BY <3>4, <3>5, <3>7, <4>1
    <3>8. CASE c # 1
      <4>1. Written(e, rest) = A \o (H \o (B \o x))
        <5>1. e = <<a, b, c>>
              BY <3>8
        <5> HIDE DEF a, b, c, e
        <5>2. Written(<<a, b, c>>, rest) = InFull(a, b, c, rest)
              BY <1>1, ThreeNumbers
        <5>q. QED  BY <5>1, <5>2 DEF A, H, B, K, C, x, InFull
      <4>q. QED  BY <3>4, <3>5, <3>6, <3>8, <4>1
    <3>q. QED  BY <3>7, <3>8
  <2> HIDE DEF e
  <2>7. \A j \in 1 .. m : RangeOf(e).end < RangeOf(E[j]).start
        BY <2>4
  <2>8. PICK E2, F2 : /\ Script(m + 1, E2, F2)
                      /\ E2[1] = e /\ \A j \in 1 .. m : E2[j + 1] = E[j]
                      /\ F2[1] = Written(e, rest)
                      /\ Covers(m + 1, E2) = Elements(RangeOf(e)) \cup Covers(m, E)
    <3>1. PICK E2, F2 : Fronts(e, m, E, F, E2, F2)
          BY <2>2, <2>3, <2>7, AddElement
    <3>q. QED  BY <3>1 DEF Fronts, rest
  <2>9. ASSUME NEW j \in 1 .. m + 1
        PROVE  a <= RangeOf(E2[j]).start
    <3>1. CASE j = 1
          BY <1>1, <2>4, <2>8, <3>1
    <3>2. CASE j # 1
      <4>1. j - 1 \in 1 .. m /\ j = (j - 1) + 1
            BY <1>4, <3>2
      <4>2. E2[j] = E[j - 1] /\ b < RangeOf(E[j - 1]).start /\ RangeOf(E[j - 1]).start \in Int
            BY <1>5, <2>8, <4>1
      <4>q. QED  BY <1>1, <4>2
    <3>q. QED  BY <3>1, <3>2
  <2>10. m + 1 >= 1
         BY <1>4
  <2>q. QED  BY <2>5, <2>6, <2>8, <2>9, <2>10 DEF rest, FrontsRange
<1>q. QED  BY <1>9, <1>10, <1>11

\* The elements of the text of an expression.
Scripts(rs, m, E, F) ==
    Script(m, E, F) /\ m >= 1 /\ F[1] = Text(rs) /\ Covers(m, E) = Covered(rs, DOMAIN rs)

\* The text of ascending ranges is of ascending elements of the same values.
LEMMA TextScript ==
    ASSUME NEW rs, AreRanges(rs), rs # <<>>, Ascending(rs)
    PROVE  \E m, E, F : Scripts(rs, m, E, F)
<1> DEFINE n == Len(rs)  C == <<Token("comma")>>
<1>1. /\ n \in Nat /\ n >= 1 /\ DOMAIN rs = 1 .. n /\ rs \in Seq(RangeType)
      /\ \A i \in 1 .. n : rs[i] \in RangeType /\ Canonical(rs[i])
                           /\ rs[i].start \in Int /\ rs[i].end \in Int /\ rs[i].start <= rs[i].end
      BY EmptySeq, LenProperties DEF AreRanges, Canonical, RangeType
<1>2. PICK u \in [1 .. n -> Seq(TokenType)] :
        /\ u[1] = RangeText(rs[1]) /\ Text(rs) = u[n]
        /\ \A i \in 2 .. n : u[i] = u[i - 1] \o C \o RangeText(rs[i])
      BY <1>1, TextFromLeft
<1>3. C \in Seq(TokenType) /\ \A i \in 1 .. n : RangeText(rs[i]) \in Seq(TokenType)
      BY <1>1, RangeTextType, SeparatorType
<1> HIDE DEF n, C
<1> DEFINE Whole(p, t) == IF p = 1 THEN t = u[n] ELSE u[p - 1] \o (C \o t) = u[n]
           Fine(p, m, E, F) == /\ Script(m, E, F) /\ m >= 1
                               /\ \A j \in 1 .. m : rs[p].start <= RangeOf(E[j]).start
                               /\ Covers(m, E) = Covered(rs, p .. n)
                               /\ Whole(p, F[1])
           Good(p) == \E m, E, F : Fine(p, m, E, F)
<1>4. Good(n)
  <2> DEFINE Z == [i \in {} |-> <<>>]
  <2>1. 1 .. 0 = {} /\ 0 \in Nat
        OBVIOUS
  <2>2. Script(0, Z, Z) /\ Covers(0, Z) = {}
        BY <2>1 DEF Script, Covers
  <2>3. Behind(0, Z, 0) = <<>>
        BY DEF Behind
  <2> HIDE DEF Z
  <2>4. Canonical(rs[n])
        BY <1>1
  <2>5. PICK m, E, F : FrontsRange(rs[n], 0, Z, Z, m, E, F)
        BY <2>1, <2>2, <2>4, AddRange
  <2>6. F[1] = RangeText(rs[n])
    <3>1. RangeText(rs[n]) \in Seq(TokenType)
          BY <1>1, <1>3
    <3>q. QED  BY <2>3, <2>5, <3>1, Together DEF FrontsRange
  <2>7. Covered(rs, n .. n) = Elements(rs[n])
    <3>1. n .. n = {n}
          BY <1>1
    <3>q. QED  BY <3>1 DEF Covered
  <2>8. Whole(n, F[1])
    <3>1. CASE n = 1
          BY <1>2, <2>6, <3>1
    <3>2. CASE n # 1
      <4>1. n \in 2 .. n /\ n - 1 \in 1 .. n /\ n \in 1 .. n
            BY <1>1, <3>2
      <4>2. u[n] = u[n - 1] \o C \o RangeText(rs[n])
            BY <1>2, <4>1
      <4>3. u[n - 1] \in Seq(TokenType) /\ RangeText(rs[n]) \in Seq(TokenType)
            BY <1>2, <1>3, <4>1
      <4>4. Associate(u[n - 1], C, RangeText(rs[n]))
            BY <1>3, <4>3, Association
      <4>q. QED  BY <2>6, <3>2, <4>2, <4>4 DEF Associate
    <3>q. QED  BY <3>1, <3>2
  <2> HIDE DEF Whole
  <2>q. QED  BY <2>2, <2>5, <2>7, <2>8 DEF FrontsRange
<1>5. ASSUME NEW p \in 1 .. n - 1, Good(p + 1)
      PROVE  Good(p)
  <2>0. p \in 1 .. n /\ p + 1 \in 1 .. n /\ p < p + 1 /\ (p + 1) - 1 = p /\ p + 1 # 1
        BY <1>1
  <2>1. PICK m, E, F : Fine(p + 1, m, E, F)
        BY <1>5
  <2>2. /\ Script(m, E, F) /\ m >= 1 /\ m \in Nat /\ F[1] \in Seq(TokenType)
        /\ \A j \in 1 .. m : rs[p + 1].start <= RangeOf(E[j]).start
        /\ Covers(m, E) = Covered(rs, p + 1 .. n)
        BY <2>1 DEF Script
  <2>3. u[p] \o (C \o F[1]) = u[n]
        BY <2>0, <2>1
  <2>4. rs[p].end < rs[p + 1].start
        BY <1>1, <2>0 DEF Ascending
  <2>5. \A j \in 1 .. m : rs[p].end < RangeOf(E[j]).start
    <3>1. ASSUME NEW j \in 1 .. m
          PROVE  rs[p].end < RangeOf(E[j]).start
      <4>1. E[j] \in Element /\ WellFormed(E[j][1], StopOf(E[j]), StepOf(E[j]))
            BY <2>2 DEF Script
      <4>2. Canonical(RangeOf(E[j]))
            BY <4>1, ElementParts, RangeMeans DEF RangeOf
      <4>3. RangeOf(E[j]).start \in Int
            BY <4>2 DEF Canonical, RangeType
      <4>q. QED  BY <1>1, <2>0, <2>2, <2>4, <4>3
    <3>q. QED  BY <3>1
  <2>6. Canonical(rs[p])
        BY <1>1, <2>0
  <2>7. PICK m2, E2, F2 : FrontsRange(rs[p], m, E, F, m2, E2, F2)
        BY <2>2, <2>5, <2>6, AddRange
  <2>8. F2[1] = RangeText(rs[p]) \o (C \o F[1])
    <3>1. Behind(m, F, 0) = C \o F[1]
          BY <2>2 DEF Behind, CommaAnd, C
    <3>q. QED  BY <2>7, <3>1 DEF FrontsRange
  <2>9. Covered(rs, p .. n) = Elements(rs[p]) \cup Covered(rs, p + 1 .. n)
    <3>1. p .. n = {p} \cup (p + 1 .. n)
          BY <1>1
    <3>q. QED  BY <3>1 DEF Covered
  <2>10. Whole(p, F2[1])
    <3>1. CASE p = 1
          BY <1>2, <2>3, <2>8, <3>1
    <3>2. CASE p # 1
      <4>1. p \in 2 .. n /\ p - 1 \in 1 .. n
            BY <1>1, <3>2
      <4>2. u[p] = (u[p - 1] \o C) \o RangeText(rs[p])
            BY <1>2, <4>1
      <4>3. u[p - 1] \in Seq(TokenType) /\ RangeText(rs[p]) \in Seq(TokenType) /\ C \o F[1] \in Seq(TokenType)
            BY <1>2, <1>3, <2>0, <2>2, <4>1, Together
      <4>4. Regrouped(u[p - 1], C, RangeText(rs[p]), C \o F[1])
            BY <1>3, <4>3, Regroup
      <4>5. u[p - 1] \o (C \o F2[1]) = u[n]
            BY <2>3, <2>8, <4>2, <4>4 DEF Regrouped
      <4>q. QED  BY <3>2, <4>5
    <3>q. QED  BY <3>1, <3>2
  <2> HIDE DEF Whole
  <2>q. QED  BY <2>2, <2>7, <2>9, <2>10 DEF FrontsRange
<1>6. Good(1)
  <2> HIDE DEF Good
  <2> DEFINE Bad == {k \in Nat : k < n /\ ~Good(n - k)}
  <2> SUFFICES ASSUME Bad # {}
               PROVE  FALSE
    <3>1. n - 1 \in Nat /\ n - 1 < n /\ n - (n - 1) = 1
          BY <1>1
    <3>q. QED  BY <3>1
  <2>1. PICK k \in Bad : \A l \in Bad : k <= l
    <3>1. Bad \in SUBSET Nat
          OBVIOUS
    <3> HIDE DEF Bad
    <3>q. QED  BY <3>1, LeastNumber
  <2>2. n - 0 = n
        BY <1>1
  <2>3. k # 0 /\ k \in Nat /\ k < n
        BY <1>4, <2>2
  <2>4. k - 1 \in Nat /\ k - 1 < n /\ k - 1 \notin Bad
        BY <1>1, <2>1, <2>3
  <2>5. n - k \in 1 .. n - 1 /\ (n - k) + 1 = n - (k - 1)
        BY <1>1, <2>3
  <2>6. Good((n - k) + 1)
        BY <2>4, <2>5
  <2>q. QED  BY <1>5, <2>5, <2>6
<1>7. PICK m, E, F : Fine(1, m, E, F)
      BY <1>6
<1>q. QED  BY <1>1, <1>2, <1>7 DEF Scripts, n

----------------------------------------------------------------------------
(* The text of an expression is read again. *)

\* What follows the first k numbers of an element.
Following(e, k, rest) ==
    IF k = 1 THEN AfterFirst(e, rest) ELSE IF k = 2 THEN AfterSecond(e, rest) ELSE rest

\* The parser is in the element at j and has read as many numbers as it has in
\* nums; todo is what follows.
Reads(m, E, F, j) ==
    /\ j \in 1 .. m /\ Len(nums) <= Len(E[j])
    /\ Len(ranges) = j - 1 /\ \A i \in 1 .. j - 1 : ranges[i] = RangeOf(E[i])
    /\ \A i \in 1 .. Len(nums) : nums[i] = E[j][i]
    /\ want = "after" => /\ Len(nums) >= 1
                         /\ todo = Following(E[j], Len(nums), Behind(m, F, j))
    /\ want = "number" => /\ Len(nums) < Len(E[j])
                          /\ todo = Signed(E[j][Len(nums) + 1])
                                      \o Following(E[j], Len(nums) + 1, Behind(m, F, j))
    /\ want = "digits" => /\ Len(nums) < Len(E[j]) /\ E[j][Len(nums) + 1] < 0
                          /\ todo = <<Number(-E[j][Len(nums) + 1])>>
                                      \o Following(E[j], Len(nums) + 1, Behind(m, F, j))
Rereading == \E m, E, F, j : Scripts(first, m, E, F) /\ Reads(m, E, F, j)

\* The sign of a number is known from its digits on.
ParserType ==
    /\ nums \in Seq(Int) /\ todo \in Seq(TokenType) /\ want \in {"number", "digits", "after"}
    /\ negative \in BOOLEAN /\ (negative <=> want = "digits")
Counted == phase = "parse" =>
    IF want = "after" THEN Len(nums) \in 1 .. 3 ELSE Len(nums) \in 0 .. 2

\* The first token and the rest.
LEMMA HeadAndTail ==
    ASSUME NEW x \in TokenType, NEW s \in Seq(TokenType)
    PROVE  <<x>> \o s # <<>> /\ Head(<<x>> \o s) = x /\ Tail(<<x>> \o s) = s
OBVIOUS

\* The types of the parts of a script.
LEMMA ScriptParts ==
    ASSUME NEW m, NEW E, NEW F, Script(m, E, F), NEW j \in 1 .. m
    PROVE  /\ m \in Nat /\ j \in Nat /\ E[j] \in Element /\ F[j] \in Seq(TokenType)
           /\ E[j] \in Seq(Int) /\ Len(E[j]) \in 1 .. 3 /\ \A i \in 1 .. Len(E[j]) : E[j][i] \in Int
           /\ Behind(m, F, j) \in Seq(TokenType)
           /\ j # m => j + 1 \in 1 .. m /\ Behind(m, F, j) = CommaAnd(F[j + 1])
           /\ \A k \in 1 .. 3 : Following(E[j], k, Behind(m, F, j)) \in Seq(TokenType)
           /\ F[j] = Signed(E[j][1]) \o Following(E[j], 1, Behind(m, F, j))
<1>1. /\ m \in Nat /\ j \in Nat /\ E[j] \in Element /\ F[j] \in Seq(TokenType)
      /\ E \in [1 .. m -> Element] /\ F \in [1 .. m -> Seq(TokenType)]
      BY DEF Script
<1>2. E[j] \in Seq(Int) /\ Len(E[j]) \in 1 .. 3 /\ \A i \in 1 .. Len(E[j]) : E[j][i] \in Int
      BY <1>1 DEF Element
<1>3. j # m => j + 1 \in 1 .. m /\ Behind(m, F, j) = CommaAnd(F[j + 1])
      BY <1>1 DEF Behind
<1> DEFINE e == E[j]  rest == Behind(m, F, j)
<1>4. rest \in Seq(TokenType)
  <2>1. CASE j = m
    <3>1. <<>> \in Seq(TokenType)
          OBVIOUS
    <3>q. QED  BY <2>1, <3>1 DEF Behind
  <2>2. CASE j # m
    <3>1. F[j + 1] \in Seq(TokenType)
          BY <1>1, <1>3, <2>2
    <3>2. CommaAnd(F[j + 1]) \in Seq(TokenType)
          BY <3>1, SeparatorType, Together DEF CommaAnd
    <3>q. QED  BY <1>3, <2>2, <3>2
  <2>q. QED  BY <2>1, <2>2
<1> HIDE DEF rest
<1>5. /\ Len(e) # 1 => Signed(e[2]) \in Seq(TokenType)
      /\ Len(e) = 3 => Signed(e[3]) \in Seq(TokenType)
      BY <1>1, ElementParts, SignedType
<1>6. AfterSecond(e, rest) \in Seq(TokenType)
      BY <1>4, <1>5, SeparatorType, Together DEF AfterSecond
<1>7. AfterFirst(e, rest) \in Seq(TokenType)
      BY <1>4, <1>5, <1>6, SeparatorType, Together DEF AfterFirst
<1>8. \A k \in 1 .. 3 : Following(e, k, rest) \in Seq(TokenType)
      BY <1>4, <1>6, <1>7 DEF Following
<1>9. F[j] = Signed(e[1]) \o Following(e, 1, rest)
      BY DEF Script, Written, Following, rest
<1>q. QED  BY <1>1, <1>2, <1>3, <1>4, <1>8, <1>9 DEF rest

\* A separator and one more number.
NumberAfter(e, k, rest) ==
    <<Token(IF k = 1 THEN "hyphen" ELSE "colon")>> \o (Signed(e[k + 1]) \o Following(e, k + 1, rest))

\* After a number comes what separates it from the next, or the next element.
LEMMA FollowingForms ==
    ASSUME NEW e \in Element, NEW rest, NEW k \in 1 .. 3, k <= Len(e)
    PROVE  /\ k = Len(e) => Following(e, k, rest) = rest
           /\ k < Len(e) => Following(e, k, rest) = NumberAfter(e, k, rest)
<1>1. Len(e) \in 1 .. 3
      BY DEF Element
<1>2. k \in {1, 2, 3}
      OBVIOUS
<1>3. CASE k = 1
  <2>1. Following(e, 1, rest) = AfterFirst(e, rest) /\ Following(e, 2, rest) = AfterSecond(e, rest)
        BY DEF Following
  <2>2. k + 1 = 2
        BY <1>3
  <2>q. QED  BY <1>1, <1>3, <2>1, <2>2 DEF AfterFirst, NumberAfter
<1>4. CASE k = 2
      BY <1>1, <1>4 DEF NumberAfter, Following, AfterSecond
<1>5. CASE k = 3
      BY <1>1, <1>5 DEF Following, NumberAfter
<1>q. QED  BY <1>2, <1>3, <1>4, <1>5

\* Places in an element.
LEMMA Places ==
    ASSUME NEW k \in Nat, NEW n \in 1 .. 3, k <= n
    PROVE  /\ k + 1 \in Nat /\ (k < n => k + 1 \in 1 .. n /\ k + 1 \in 1 .. 3 /\ k + 1 <= n)
           /\ (k < n \/ k = n) /\ (k >= 1 => k \in 1 .. 3)
           /\ k >= 1 /\ k < n => k = 1 \/ k = 2
OBVIOUS

\* What is offered after k numbers of the element e at j.
NextIs(m, F, j, e, k, rest) ==
    /\ k \in Nat /\ k <= Len(e) /\ Len(e) \in 1 .. 3
    /\ want # "after" => /\ k < Len(e) /\ e[k + 1] \in Int /\ todo # <<>>
                         /\ Following(e, k + 1, rest) \in Seq(TokenType)
    /\ want = "number" /\ e[k + 1] < 0 =>
         /\ Head(todo) = Token("hyphen")
         /\ Tail(todo) = <<Number(-e[k + 1])>> \o Following(e, k + 1, rest)
    /\ want = "number" /\ ~(e[k + 1] < 0) =>
         Head(todo) = Number(e[k + 1]) /\ Tail(todo) = Following(e, k + 1, rest)
    /\ want = "digits" =>
         /\ e[k + 1] < 0
         /\ Head(todo) = Number(-e[k + 1]) /\ Tail(todo) = Following(e, k + 1, rest)
    /\ want = "after" => k \in 1 .. 3
    /\ want = "after" /\ k < Len(e) =>
         /\ todo # <<>> /\ Head(todo) = Token(IF k = 1 THEN "hyphen" ELSE "colon")
         /\ Tail(todo) = Signed(e[k + 1]) \o Following(e, k + 1, rest)
    /\ want = "after" /\ k = Len(e) => todo = rest
    /\ todo = <<>> => want = "after" /\ k = Len(e) /\ j = m
    /\ want = "after" /\ k = Len(e) /\ j # m =>
         Head(todo) = Token("comma") /\ Tail(todo) = F[j + 1] /\ j + 1 \in 1 .. m

\* The token that is offered is the one the element has at this place.
LEMMA TokenNext ==
    ASSUME NEW m, NEW E, NEW F, Script(m, E, F), NEW j, Reads(m, E, F, j), ParserType,
           NEW e, e = E[j], NEW k, k = Len(nums), NEW rest, rest = Behind(m, F, j)
    PROVE  NextIs(m, F, j, e, k, rest)
<1>1. j \in 1 .. m
      BY DEF Reads
<1>2. /\ m \in Nat /\ j \in Nat /\ e \in Element
      /\ e \in Seq(Int) /\ Len(e) \in 1 .. 3 /\ \A i \in 1 .. Len(e) : e[i] \in Int
      /\ rest \in Seq(TokenType)
      /\ j # m => j + 1 \in 1 .. m /\ rest = CommaAnd(F[j + 1])
      /\ \A i \in 1 .. 3 : Following(e, i, rest) \in Seq(TokenType)
  <2>1. /\ m \in Nat /\ j \in Nat /\ E[j] \in Element
        /\ E[j] \in Seq(Int) /\ Len(E[j]) \in 1 .. 3 /\ \A i \in 1 .. Len(E[j]) : E[j][i] \in Int
        /\ Behind(m, F, j) \in Seq(TokenType)
        /\ j # m => j + 1 \in 1 .. m /\ Behind(m, F, j) = CommaAnd(F[j + 1])
        /\ \A i \in 1 .. 3 : Following(E[j], i, Behind(m, F, j)) \in Seq(TokenType)
        BY <1>1, ScriptParts, SMTT(30)
  <2>q. QED  BY <2>1
<1>3. k \in Nat /\ k <= Len(e) /\ want \in {"number", "digits", "after"}
      BY LenProperties DEF Reads, ParserType
<1>14. k + 1 \in Nat /\ (k < Len(e) => k + 1 \in 1 .. Len(e) /\ k + 1 \in 1 .. 3)
       /\ (k < Len(e) \/ k = Len(e)) /\ Len(e) \in 1 .. 3 /\ e \in Element /\ k <= Len(e)
       /\ (k >= 1 => k \in 1 .. 3)
  <2>1. Len(e) \in 1 .. 3 /\ e \in Element
        BY <1>2
  <2>2. k \in Nat /\ k <= Len(e)
        BY <1>3
  <2>q. QED  BY <2>1, <2>2, Places
<1>4. want # "after" => /\ k < Len(e) /\ e[k + 1] \in Int
                        /\ Following(e, k + 1, rest) \in Seq(TokenType)
  <2>1. want # "after" => k < Len(e)
        BY <1>3 DEF Reads
  <2>2. k < Len(e) => e[k + 1] \in Int
        BY <1>2, <1>14
  <2>3. k < Len(e) => Following(e, k + 1, rest) \in Seq(TokenType)
        BY <1>2, <1>14
  <2>q. QED  BY <2>1, <2>2, <2>3
<1> DEFINE v == e[k + 1]  s == Following(e, k + 1, rest)
<1>5. want = "number" => todo = Signed(v) \o s
      BY DEF Reads
<1>6. want = "digits" => todo = <<Number(-v)>> \o s /\ v < 0
      BY DEF Reads
<1>7. want = "after" => todo = Following(e, k, rest) /\ k \in 1 .. 3
  <2>1. want = "after" => todo = Following(e, k, rest) /\ k >= 1
        BY DEF Reads
  <2>q. QED  BY <1>14, <2>1
<1>8. want # "after" => Number(-v) \in TokenType /\ Number(v) \in TokenType
      BY <1>4 DEF Number, TokenType
<1>9. Token("hyphen") \in TokenType /\ Token("colon") \in TokenType /\ Token("comma") \in TokenType
      BY DEF Token, TokenType
<1> HIDE DEF v, s
<1>10. CASE want = "number"
  <2>1. v \in Int /\ s \in Seq(TokenType) /\ k < Len(e)
        BY <1>4, <1>10 DEF v, s
  <2>2. CASE v < 0
    <3> DEFINE d == <<Number(-v)>> \o s
    <3>1. d \in Seq(TokenType)
      <4>1. <<Number(-v)>> \in Seq(TokenType)
            BY <1>8, <1>10
      <4>q. QED  BY <2>1, <4>1, Together
    <3>2. todo = <<Token("hyphen")>> \o d
      <4> DEFINE x == <<Token("hyphen")>>  y == <<Number(-v)>>
      <4>1. Signed(v) = x \o y
            BY <2>2 DEF Signed
      <4>2. x \in Seq(TokenType) /\ y \in Seq(TokenType)
            BY <1>8, <1>9, <1>10
      <4> HIDE DEF x, y
      <4>3. Associate(x, y, s)
            BY <2>1, <4>2, Association
      <4>4. todo = x \o (y \o s)
            BY <1>5, <1>10, <4>1, <4>3 DEF Associate
      <4>q. QED  BY <4>4 DEF x, y
    <3> HIDE DEF d
    <3>3. todo # <<>> /\ Head(todo) = Token("hyphen") /\ Tail(todo) = d
          BY <1>9, <3>1, <3>2, HeadAndTail
    <3>q. QED  BY <1>2, <1>3, <1>10, <2>1, <2>2, <3>3 DEF d, v, s, NextIs
  <2>3. CASE ~(v < 0)
    <3>1. todo = <<Number(v)>> \o s
          BY <1>5, <1>10, <2>3 DEF Signed
    <3>2. todo # <<>> /\ Head(todo) = Number(v) /\ Tail(todo) = s
          BY <1>8, <1>10, <2>1, <3>1, HeadAndTail
    <3>q. QED  BY <1>2, <1>3, <1>10, <2>1, <2>3, <3>2 DEF v, s, NextIs
  <2>q. QED  BY <2>2, <2>3
<1>11. CASE want = "digits"
  <2>1. v \in Int /\ s \in Seq(TokenType) /\ k < Len(e)
        BY <1>4, <1>11 DEF v, s
  <2>2. todo # <<>> /\ Head(todo) = Number(-v) /\ Tail(todo) = s
        BY <1>6, <1>8, <1>11, <2>1, HeadAndTail
  <2>q. QED  BY <1>2, <1>3, <1>6, <1>11, <2>1, <2>2 DEF v, s, NextIs
<1>12. CASE want = "after"
  <2>1. todo = Following(e, k, rest) /\ k \in 1 .. 3
        BY <1>7, <1>12
  <2>2. CASE k < Len(e)
    <3> DEFINE x == Token(IF k = 1 THEN "hyphen" ELSE "colon")  y == Signed(v) \o s
    <3>1. k + 1 \in 1 .. 3 /\ v \in Int
          BY <1>2, <1>14, <2>2 DEF v
    <3>2. y \in Seq(TokenType) /\ x \in TokenType
      <4>1. Signed(v) \in Seq(TokenType) /\ s \in Seq(TokenType)
            BY <1>2, <3>1, SignedType DEF s
      <4>q. QED  BY <1>9, <4>1, Together
    <3>3. todo = <<x>> \o y
      <4>1. k <= Len(e)
            BY <1>3
      <4>2. Following(e, k, rest) = NumberAfter(e, k, rest)
            BY <1>14, <2>1, <2>2, FollowingForms
      <4>q. QED  BY <2>1, <4>2 DEF v, s, NumberAfter
    <3> HIDE DEF x, y
    <3>4. todo # <<>> /\ Head(todo) = x /\ Tail(todo) = y
          BY <3>2, <3>3, HeadAndTail
    <3>5. k # Len(e)
          BY <1>2, <1>3, <2>2
    <3>q. QED  BY <1>2, <1>3, <1>12, <2>1, <2>2, <3>4, <3>5 DEF x, y, v, s, NextIs
  <2>3. CASE k = Len(e)
    <3>1. todo = rest
          BY <1>2, <1>3, <2>1, <2>3, FollowingForms
    <3>2. CASE j = m
          BY <1>2, <1>3, <1>12, <2>1, <2>3, <3>1, <3>2 DEF NextIs
    <3>3. CASE j # m
      <4>1. F[j + 1] \in Seq(TokenType)
            BY <1>2, <3>3, ScriptParts
      <4>2. todo # <<>> /\ Head(todo) = Token("comma") /\ Tail(todo) = F[j + 1]
            BY <1>2, <1>9, <3>1, <3>3, <4>1, HeadAndTail DEF CommaAnd
      <4>q. QED  BY <1>2, <1>3, <1>12, <2>1, <2>3, <3>1, <3>3, <4>2, SMTT(30) DEF NextIs
    <3>q. QED  BY <3>2, <3>3
  <2>q. QED  BY <1>14, <2>2, <2>3
<1>15. \/ want = "number" \/ want = "digits" \/ want = "after"
       BY <1>3
<1>q. QED  BY <1>10, <1>11, <1>12, <1>15

\* The kinds of tokens.
LEMMA Kinds ==
    /\ \A n : Number(n).kind = "number" /\ Number(n).value = n
    /\ Token("hyphen").kind = "hyphen" /\ Token("colon").kind = "colon" /\ Token("comma").kind = "comma"
BY DEF Number, Token

\* Only the next token is offered.
LEMMA Offering ==
    ASSUME round = 2, NEW t \in Offered
    PROVE  todo # <<>> /\ t = Head(todo)
BY DEF Offered

\* The sign and the digits of a number are read.
LEMMA NumberIsRead ==
    ASSUME round = 2, phase = "parse", ParserType, NEW t \in Offered, Sign(t) \/ Digits(t),
           NEW m, NEW E, NEW F, NEW j, Scripts(first, m, E, F), Reads(m, E, F, j)
    PROVE  Rereading'
<1> DEFINE e == E[j]  k == Len(nums)  rest == Behind(m, F, j)
<1>1. Script(m, E, F) /\ j \in 1 .. m
      BY DEF Scripts, Reads
<1>2. t = Head(todo) /\ todo # <<>>
      BY Offering
<1>3. /\ k \in Nat /\ k <= Len(e) /\ Len(e) \in 1 .. 3
      /\ want # "after" => /\ k < Len(e) /\ e[k + 1] \in Int /\ todo # <<>>
                           /\ Following(e, k + 1, rest) \in Seq(TokenType)
      /\ want = "number" /\ e[k + 1] < 0 =>
           /\ Head(todo) = Token("hyphen")
           /\ Tail(todo) = <<Number(-e[k + 1])>> \o Following(e, k + 1, rest)
      /\ want = "number" /\ ~(e[k + 1] < 0) =>
           Head(todo) = Number(e[k + 1]) /\ Tail(todo) = Following(e, k + 1, rest)
      /\ want = "digits" =>
           /\ e[k + 1] < 0
           /\ Head(todo) = Number(-e[k + 1]) /\ Tail(todo) = Following(e, k + 1, rest)
  <2>1. NextIs(m, F, j, E[j], Len(nums), Behind(m, F, j))
        BY <1>1, TokenNext
  <2>q. QED  BY <2>1 DEF NextIs
<1>4. first' = first /\ ranges' = ranges /\ todo' = Tail(todo)
      BY DEF Sign, Digits, Consume
<1>5. /\ Len(ranges) = j - 1 /\ \A i \in 1 .. j - 1 : ranges[i] = RangeOf(E[i])
      /\ \A i \in 1 .. k : nums[i] = e[i]
      BY DEF Reads
<1>6. CASE Sign(t)
  <2>1. want = "number" /\ t.kind = "hyphen" /\ want' = "digits" /\ nums' = nums
        BY <1>6 DEF Sign
  <2>2. e[k + 1] < 0
        BY <1>2, <1>3, <2>1, Kinds
  <2>3. todo' = <<Number(-e[k + 1])>> \o Following(e, k + 1, rest) /\ k < Len(e)
        BY <1>3, <1>4, <2>1, <2>2
  <2>4. Reads(m, E, F, j)'
        BY <1>1, <1>3, <1>4, <1>5, <2>1, <2>2, <2>3 DEF Reads
  <2>5. Scripts(first, m, E, F)'
        BY <1>4 DEF Scripts
  <2>q. QED  BY <2>4, <2>5 DEF Rereading
<1>7. CASE Digits(t)
  <2>1. /\ want \in {"number", "digits"} /\ t.kind = "number" /\ want' = "after"
        /\ nums' = Append(nums, IF negative THEN -t.value ELSE t.value)
        BY <1>7 DEF Digits
  <2>2. negative <=> want = "digits"
        BY DEF ParserType
  <2>3. e[k + 1] \in Int /\ k < Len(e)
        BY <1>3, <2>1
  <2>4. want = "number" => ~(e[k + 1] < 0)
        BY <1>2, <1>3, <2>1, Kinds
  <2>5. Tail(todo) = Following(e, k + 1, rest)
        BY <1>3, <2>1, <2>4
  <2>6. (IF negative THEN -t.value ELSE t.value) = e[k + 1]
    <3>1. CASE want = "number"
      <4>1. t = Number(e[k + 1])
            BY <1>2, <1>3, <2>4, <3>1
      <4>q. QED  BY <2>2, <3>1, <4>1, Kinds
    <3>2. CASE want = "digits"
      <4>1. t.value = -e[k + 1]
            BY <1>2, <1>3, <3>2, Kinds
      <4>2. -(-e[k + 1]) = e[k + 1]
            BY <2>3
      <4>q. QED  BY <2>2, <3>2, <4>1, <4>2
    <3>q. QED  BY <2>1, <3>1, <3>2
  <2>7. /\ nums' = Append(nums, e[k + 1]) /\ nums \in Seq(Int)
        BY <2>1, <2>6 DEF ParserType
  <2>8. Len(nums') = k + 1 /\ nums'[k + 1] = e[k + 1] /\ \A i \in 1 .. k : nums'[i] = nums[i]
        BY <2>3, <2>7, AppendProperties, LenProperties
  <2>9. \A i \in 1 .. k + 1 : nums'[i] = e[i]
    <3>1. \A i \in 1 .. k + 1 : i \in 1 .. k \/ i = k + 1
      <4>1. k \in Nat
            BY <1>3
      <4> HIDE DEF k
      <4>q. QED  BY <4>1
    <3>q. QED  BY <1>5, <2>8, <3>1
  <2>10. k + 1 <= Len(e) /\ k + 1 >= 1
    <3>1. k \in Nat /\ Len(e) \in 1 .. 3 /\ k < Len(e)
          BY <1>3, <2>3
    <3> HIDE DEF k, e
    <3>q. QED  BY <3>1, Places
  <2>11. todo' = Following(e, k + 1, rest)
         BY <1>4, <2>5
  <2>12. Reads(m, E, F, j)'
         BY <1>1, <1>4, <1>5, <2>1, <2>8, <2>9, <2>10, <2>11 DEF Reads
  <2>13. Scripts(first, m, E, F)'
         BY <1>4 DEF Scripts
  <2>q. QED  BY <2>12, <2>13 DEF Rereading
<1>q. QED  BY <1>6, <1>7

\* The hyphen or the colon between two numbers of an element is read.
LEMMA SeparatorIsRead ==
    ASSUME round = 2, phase = "parse", ParserType, NEW t \in Offered, Separator(t),
           NEW m, NEW E, NEW F, NEW j, Scripts(first, m, E, F), Reads(m, E, F, j)
    PROVE  Rereading'
<1> DEFINE e == E[j]  k == Len(nums)  rest == Behind(m, F, j)
<1>1. Script(m, E, F) /\ j \in 1 .. m
      BY DEF Scripts, Reads
<1>2. t = Head(todo) /\ todo # <<>>
      BY Offering
<1>3. /\ k \in Nat /\ k <= Len(e) /\ Len(e) \in 1 .. 3
      /\ want = "after" /\ k < Len(e) => Tail(todo) = Signed(e[k + 1]) \o Following(e, k + 1, rest)
      /\ want = "after" /\ k = Len(e) => todo = rest
      /\ want = "after" /\ k = Len(e) /\ j # m => Head(todo) = Token("comma")
  <2>1. NextIs(m, F, j, E[j], Len(nums), Behind(m, F, j))
        BY <1>1, TokenNext
  <2>q. QED  BY <2>1 DEF NextIs
<1>4. /\ first' = first /\ ranges' = ranges /\ todo' = Tail(todo) /\ nums' = nums
      /\ want = "after" /\ want' = "number" /\ t.kind # "comma"
      BY DEF Separator, Consume
<1>5. /\ Len(ranges) = j - 1 /\ \A i \in 1 .. j - 1 : ranges[i] = RangeOf(E[i])
      /\ \A i \in 1 .. k : nums[i] = e[i]
      BY DEF Reads
<1>6. k # Len(e)
  <2>1. ASSUME k = Len(e)
        PROVE  FALSE
    <3>1. j # m
          BY <1>2, <1>3, <1>4, <2>1 DEF Behind
    <3>q. QED  BY <1>2, <1>3, <1>4, <2>1, <3>1, Kinds
  <2>q. QED  BY <2>1
<1>7. k < Len(e)
  <2>1. k \in Nat /\ Len(e) \in 1 .. 3 /\ k <= Len(e) /\ k # Len(e)
        BY <1>3, <1>6
  <2> HIDE DEF k, e
  <2>q. QED  BY <2>1, Places
<1>8. todo' = Signed(e[k + 1]) \o Following(e, k + 1, rest)
      BY <1>3, <1>4, <1>7
<1>9. Reads(m, E, F, j)'
      BY <1>1, <1>3, <1>4, <1>5, <1>7, <1>8 DEF Reads
<1>10. Scripts(first, m, E, F)'
       BY <1>4 DEF Scripts
<1>q. QED  BY <1>9, <1>10 DEF Rereading

\* At its end an element has been read in full.
LEMMA ElementIsRead ==
    ASSUME ParserType, NEW m, NEW E, NEW F, NEW j, Script(m, E, F), Reads(m, E, F, j),
           Len(nums) = Len(E[j])
    PROVE  /\ nums = E[j] /\ E[j] \in Element
           /\ WellFormed(nums[1], Stop, Step) /\ IntRange(nums[1], Stop, Step) = RangeOf(E[j])
<1>1. j \in 1 .. m
      BY DEF Reads
<1>2. E[j] \in Element /\ E[j] \in Seq(Int) /\ WellFormed(E[j][1], StopOf(E[j]), StepOf(E[j]))
      BY <1>1, ScriptParts DEF Script
<1>3. nums \in Seq(Int) /\ \A i \in 1 .. Len(nums) : nums[i] = E[j][i]
      BY DEF ParserType, Reads
<1>4. nums = E[j]
      BY <1>2, <1>3, SeqEqual
<1>5. Stop = StopOf(nums) /\ Step = StepOf(nums)
      BY DEF Stop, Step, StopOf, StepOf
<1>q. QED  BY <1>2, <1>4, <1>5 DEF RangeOf

\* The comma between two elements is read.
LEMMA CommaIsRead ==
    ASSUME round = 2, phase = "parse", ParserType, AreRanges(ranges), NEW t \in Offered, Comma(t),
           NEW m, NEW E, NEW F, NEW j, Scripts(first, m, E, F), Reads(m, E, F, j)
    PROVE  Rereading' /\ phase' = "parse"
<1> DEFINE e == E[j]  k == Len(nums)  rest == Behind(m, F, j)
<1>1. Script(m, E, F) /\ j \in 1 .. m
      BY DEF Scripts, Reads
<1>2. t = Head(todo) /\ todo # <<>>
      BY Offering
<1>3. /\ k \in Nat /\ k <= Len(e) /\ Len(e) \in 1 .. 3
      /\ want = "after" /\ k < Len(e) => Head(todo) = Token(IF k = 1 THEN "hyphen" ELSE "colon")
      /\ want = "after" /\ k = Len(e) => todo = rest
      /\ want = "after" /\ k = Len(e) /\ j # m => Tail(todo) = F[j + 1] /\ j + 1 \in 1 .. m
  <2>1. NextIs(m, F, j, E[j], Len(nums), Behind(m, F, j))
        BY <1>1, TokenNext
  <2>q. QED  BY <2>1 DEF NextIs
<1>4. /\ first' = first /\ todo' = Tail(todo) /\ want = "after" /\ want' = "number" /\ t.kind = "comma"
      /\ WellFormed(nums[1], Stop, Step) =>
           ranges' = Append(ranges, IntRange(nums[1], Stop, Step)) /\ nums' = <<>> /\ phase' = phase
      BY DEF Comma, Consume, EndElement
<1>5. Len(ranges) = j - 1 /\ \A i \in 1 .. j - 1 : ranges[i] = RangeOf(E[i])
      BY DEF Reads
<1>6. k = Len(e)
  <2>1. k \in Nat /\ Len(e) \in 1 .. 3 /\ k <= Len(e)
        BY <1>3
  <2>2. ~(k < Len(e))
        BY <1>2, <1>3, <1>4, Kinds
  <2> HIDE DEF k, e
  <2>q. QED  BY <2>1, <2>2, Places
<1>7. j # m
      BY <1>2, <1>3, <1>4, <1>6 DEF Behind
<1>8. j + 1 \in 1 .. m /\ todo' = F[j + 1] /\ j \in Nat
      BY <1>1, <1>3, <1>4, <1>6, <1>7, ScriptParts
<1>9. e \in Element /\ WellFormed(nums[1], Stop, Step) /\ IntRange(nums[1], Stop, Step) = RangeOf(e)
      BY <1>1, <1>6, ElementIsRead
<1>10. ranges' = Append(ranges, RangeOf(e)) /\ nums' = <<>> /\ phase' = phase
       BY <1>4, <1>9
<1>11. RangeOf(e) \in RangeType
  <2>1. WellFormed(e[1], StopOf(e), StepOf(e))
        BY <1>1 DEF Script
  <2>2. Canonical(RangeOf(e))
        BY <1>9, <2>1, ElementParts, RangeMeans DEF RangeOf
  <2>q. QED  BY <2>2 DEF Canonical
<1>12. /\ Len(ranges') = j /\ ranges'[j] = RangeOf(e)
       /\ \A i \in 1 .. j - 1 : ranges'[i] = ranges[i]
  <2>1. ranges \in Seq(RangeType) /\ Len(ranges) + 1 = j
        BY <1>5, <1>8 DEF AreRanges
  <2>q. QED  BY <1>5, <1>10, <1>11, <2>1, AppendProperties, LenProperties
<1>13. Len(ranges') = (j + 1) - 1 /\ \A i \in 1 .. (j + 1) - 1 : ranges'[i] = RangeOf(E[i])
  <2>1. (j + 1) - 1 = j /\ \A i \in 1 .. j : i \in 1 .. j - 1 \/ i = j
        BY <1>8
  <2>q. QED  BY <1>5, <1>12, <2>1
<1>14. todo' = Signed(E[j + 1][1]) \o Following(E[j + 1], 1, Behind(m, F, j + 1))
       /\ Len(E[j + 1]) \in 1 .. 3
       BY <1>1, <1>8, ScriptParts, SMTT(30)
<1>15. Len(nums') = 0 /\ Len(nums') + 1 = 1 /\ 1 .. Len(nums') = {}
       BY <1>10
<1>16. Len(nums') <= Len(E[j + 1]) /\ Len(nums') < Len(E[j + 1])
       BY <1>14, <1>15
<1>17. Reads(m, E, F, j + 1)'
       BY <1>4, <1>8, <1>13, <1>14, <1>15, <1>16 DEF Reads
<1>18. Scripts(first, m, E, F)'
       BY <1>4 DEF Scripts
<1>q. QED  BY <1>10, <1>17, <1>18 DEF Rereading

\* No token is wrong and the text does not end before it should.
LEMMA NothingIsWrong ==
    ASSUME round = 2, phase = "parse", ParserType,
           NEW m, NEW E, NEW F, NEW j, Scripts(first, m, E, F), Reads(m, E, F, j)
    PROVE  /\ \A t \in Offered : ~Wrong(t)
           /\ ~EndTooSoon
<1> DEFINE e == E[j]  k == Len(nums)  rest == Behind(m, F, j)
<1>1. Script(m, E, F) /\ j \in 1 .. m
      BY DEF Scripts, Reads
<1>2. /\ k \in Nat /\ k <= Len(e) /\ Len(e) \in 1 .. 3
      /\ want = "number" /\ e[k + 1] < 0 => Head(todo) = Token("hyphen")
      /\ want = "number" /\ ~(e[k + 1] < 0) => Head(todo) = Number(e[k + 1])
      /\ want = "digits" => Head(todo) = Number(-e[k + 1])
      /\ want = "after" => k \in 1 .. 3
      /\ want = "after" /\ k < Len(e) => Head(todo) = Token(IF k = 1 THEN "hyphen" ELSE "colon")
      /\ want = "after" /\ k = Len(e) => todo = rest
      /\ todo = <<>> => want = "after"
      /\ want = "after" /\ k = Len(e) /\ j # m => Head(todo) = Token("comma")
  <2>1. NextIs(m, F, j, E[j], Len(nums), Behind(m, F, j))
        BY <1>1, TokenNext
  <2>q. QED  BY <2>1 DEF NextIs
<1>3. ASSUME NEW t \in Offered, Wrong(t)
      PROVE  FALSE
  <2>1. t = Head(todo) /\ todo # <<>>
        BY Offering
  <2>2. CASE want = "number"
    <3>1. t.kind = "hyphen" \/ t.kind = "number"
          BY <1>2, <2>1, <2>2, Kinds
    <3>q. QED  BY <1>3, <2>2, <3>1 DEF Wrong
  <2>3. CASE want = "digits"
    <3>1. t.kind = "number"
          BY <1>2, <2>1, <2>3, Kinds
    <3>q. QED  BY <1>3, <2>3, <3>1 DEF Wrong
  <2>4. CASE want = "after"
    <3>1. CASE k = Len(e)
      <4>1. j # m
            BY <1>2, <2>1, <2>4, <3>1 DEF Behind
      <4>2. t.kind = "comma"
            BY <1>2, <2>1, <2>4, <3>1, <4>1, Kinds
      <4>q. QED  BY <1>3, <2>4, <4>2 DEF Wrong
    <3>2. CASE k < Len(e)
      <4>1. k = 1 \/ k = 2
        <5>1. k \in Nat /\ k >= 1 /\ Len(e) \in 1 .. 3 /\ k < Len(e) /\ k <= Len(e)
              BY <1>2, <2>4, <3>2, SMTT(30)
        <5> HIDE DEF k, e
        <5>q. QED  BY <5>1, Places
      <4>2. t.kind = IF k = 1 THEN "hyphen" ELSE "colon"
            BY <1>2, <2>1, <2>4, <3>2, Kinds
      <4>q. QED  BY <1>3, <2>4, <4>1, <4>2 DEF Wrong
    <3>3. k = Len(e) \/ k < Len(e)
      <4>1. k \in Nat /\ Len(e) \in 1 .. 3 /\ k <= Len(e)
            BY <1>2
      <4> HIDE DEF k, e
      <4>q. QED  BY <4>1, Places
    <3>q. QED  BY <3>1, <3>2, <3>3
  <2>q. QED  BY <2>2, <2>3, <2>4 DEF ParserType
<1>4. ASSUME EndTooSoon
      PROVE  FALSE
      BY <1>2, <1>4 DEF EndTooSoon, AtEnd
<1>q. QED  BY <1>3, <1>4

\* The text ends with its last element.
LEMMA TextIsRead ==
    ASSUME round = 2, phase = "parse", ParserType, AreRanges(ranges), EndText,
           NEW m, NEW E, NEW F, NEW j, Scripts(first, m, E, F), Reads(m, E, F, j)
    PROVE  /\ phase' = "combine" /\ left' = DOMAIN ranges' /\ ranges' # <<>>
           /\ Covered(ranges, DOMAIN ranges)' = Covered(first, DOMAIN first)
           /\ Ascending(ranges)'
<1> DEFINE e == E[j]  k == Len(nums)
<1>1. Script(m, E, F) /\ j \in 1 .. m
      BY DEF Scripts, Reads
<1>2. todo = <<>> /\ EndElement(phase' = "combine" /\ left' = DOMAIN ranges' /\ UNCHANGED error)
      BY DEF EndText, AtEnd
<1>3. k = Len(e) /\ j = m
  <2>1. NextIs(m, F, j, E[j], Len(nums), Behind(m, F, j))
        BY <1>1, TokenNext
  <2>q. QED  BY <1>2, <2>1 DEF NextIs
<1>4. e \in Element /\ WellFormed(nums[1], Stop, Step) /\ IntRange(nums[1], Stop, Step) = RangeOf(e)
      BY <1>1, <1>3, ElementIsRead
<1>5. ranges' = Append(ranges, RangeOf(e)) /\ phase' = "combine" /\ left' = DOMAIN ranges'
      BY <1>2, <1>4 DEF EndElement
<1>6. RangeOf(e) \in RangeType
  <2>1. WellFormed(e[1], StopOf(e), StepOf(e))
        BY <1>1 DEF Script
  <2>2. Canonical(RangeOf(e))
        BY <1>4, <2>1, ElementParts, RangeMeans DEF RangeOf
  <2>q. QED  BY <2>2 DEF Canonical
<1>7. /\ Len(ranges) = j - 1 /\ \A i \in 1 .. j - 1 : ranges[i] = RangeOf(E[i])
      /\ j \in Nat /\ m \in Nat /\ j >= 1
      BY <1>1 DEF Reads, Script
<1>8. /\ Len(ranges') = m /\ DOMAIN ranges' = 1 .. m /\ ranges'[m] = RangeOf(e)
      /\ \A i \in 1 .. m - 1 : ranges'[i] = ranges[i]
  <2>1. ranges \in Seq(RangeType) /\ Len(ranges) + 1 = m
        BY <1>3, <1>7 DEF AreRanges
  <2>2. ranges' \in Seq(RangeType)
        BY <1>5, <1>6, <2>1, AppendProperties
  <2>q. QED  BY <1>3, <1>5, <1>6, <1>7, <2>1, <2>2, AppendProperties, LenProperties
<1>9. \A i \in 1 .. m : ranges'[i] = RangeOf(E[i])
  <2>1. \A i \in 1 .. m : i \in 1 .. m - 1 \/ i = m
        BY <1>7
  <2>q. QED  BY <1>3, <1>7, <1>8, <2>1
<1>10. Covered(ranges, DOMAIN ranges)' = Covers(m, E)
       BY <1>8, <1>9 DEF Covered, Covers
<1>11. Ascending(ranges)'
  <2>1. \A i1, i2 \in 1 .. m : i1 < i2 => RangeOf(E[i1]).end < RangeOf(E[i2]).start
        BY <1>1 DEF Script
  <2>q. QED  BY <1>8, <1>9, <2>1 DEF Ascending
<1>12. ranges' # <<>>
  <2>1. 1 \in DOMAIN ranges'
        BY <1>3, <1>7, <1>8
  <2>q. QED  BY <2>1
<1>q. QED  BY <1>5, <1>10, <1>11, <1>12 DEF Scripts

----------------------------------------------------------------------------
(* The invariant. *)

\* The parser's variables have their types.
Types ==
    /\ phase \in {"parse", "list", "combine", "built", "failed"} /\ round \in {1, 2}
    /\ values \subseteq Int /\ AreRanges(ranges) /\ Bounded(ranges)
    /\ ParserType /\ Counted

\* What holds in each phase.
Stages ==
    /\ phase \in {"parse", "list"} => combined = <<>>
    /\ phase = "list" => round = 1 /\ values # {} /\ want # "digits" /\ Running
    /\ phase \in {"combine", "built"} => want # "digits" /\ ranges # <<>> /\ Combining
    /\ phase = "built" => left = {} /\ ~Overlaps

\* The values that the ranges should have, where they are known: those of the
\* list or those of the expression whose text is read.
Known == values # {} \/ round = 2
Target == IF round = 2 THEN Covered(first, DOMAIN first) ELSE values
Denotes ==
    /\ phase = "parse" /\ round = 1 => values = {}
    /\ phase \in {"combine", "built"} /\ Known =>
         Covered(ranges, DOMAIN ranges) = Target /\ AllClear(ranges, DOMAIN ranges)
    /\ Known => phase # "failed"
    /\ round = 2 /\ values # {} => Covered(first, DOMAIN first) = values
    /\ phase = "parse" /\ round = 2 => Rereading

Inv == Types /\ Stages /\ Denotes

\* A token that is offered has a number for its value.
LEMMA OfferedType ==
    ASSUME ParserType, round \in {1, 2}, NEW t \in Offered
    PROVE  /\ t \in TokenType
           /\ round = 2 => todo # <<>> /\ Tail(todo) \in Seq(TokenType)
<1>1. CASE round = 1
  <2>1. t \in Tokens
        BY <1>1 DEF Offered
  <2>2. \A n \in Numbers : n \in Int
        BY RangeAssumption
  <2>q. QED  BY <1>1, <2>1, <2>2 DEF Tokens, Token, Number, TokenType
<1>2. CASE round = 2
  <2>1. todo # <<>> /\ t = Head(todo) /\ todo \in Seq(TokenType)
        BY <1>2, Offering DEF ParserType
  <2>q. QED  BY <1>2, <2>1, HeadTailProperties
<1>q. QED  BY <1>1, <1>2

\* The parser's variables keep their types.
LEMMA ParserKeeps ==
    ASSUME ParserType, Counted, round \in {1, 2}, phase = "parse", NEW t \in Offered,
           Sign(t) \/ Digits(t) \/ Separator(t) \/ Comma(t) \/ Wrong(t)
    PROVE  ParserType' /\ Counted'
<1>1. t \in TokenType /\ t.value \in Int /\ -t.value \in Int
      BY OfferedType DEF TokenType
<1>2. todo' \in Seq(TokenType)
  <2>1. todo' = IF round = 1 THEN todo ELSE Tail(todo)
        BY DEF Sign, Digits, Separator, Comma, Wrong, Consume
  <2>2. round = 2 => Tail(todo) \in Seq(TokenType)
        BY OfferedType
  <2>q. QED  BY <2>1, <2>2 DEF ParserType
<1>3. nums \in Seq(Int) /\ Len(nums) \in Nat
      BY LenProperties DEF ParserType
<1>4. CASE Sign(t)
      BY <1>2, <1>4 DEF Sign, ParserType, Counted
<1>5. CASE Digits(t)
  <2> DEFINE v == IF negative THEN -t.value ELSE t.value
  <2>1. v \in Int
        BY <1>1
  <2> HIDE DEF v
  <2>2. /\ nums' = Append(nums, v) /\ want' = "after" /\ ~negative' /\ negative' \in BOOLEAN
        /\ want # "after"
        BY <1>5 DEF Digits, v
  <2>3. nums' \in Seq(Int) /\ Len(nums') = Len(nums) + 1
        BY <1>3, <2>1, <2>2, AppendProperties
  <2>4. Len(nums) \in 0 .. 2
        BY <2>2 DEF Counted
  <2>5. Len(nums') \in 1 .. 3
    <3>1. \A k \in 0 .. 2 : k + 1 \in 1 .. 3
          OBVIOUS
    <3>q. QED  BY <2>3, <2>4, <3>1
  <2>q. QED  BY <1>2, <2>2, <2>3, <2>5 DEF ParserType, Counted
<1>6. CASE Separator(t)
  <2>1. want = "after" /\ want' = "number" /\ negative' = negative /\ nums' = nums
        /\ (Len(nums) = 1 \/ Len(nums) = 2)
        BY <1>6 DEF Separator
  <2>2. Len(nums) \in 0 .. 2
        BY <1>3, <2>1
  <2>q. QED  BY <1>2, <2>1, <2>2 DEF ParserType, Counted
<1>7. CASE Comma(t)
  <2>1. want = "after" /\ want' = "number" /\ negative' = negative
        BY <1>7 DEF Comma
  <2>2. (nums' = <<>> /\ phase' = phase) \/ (nums' = nums /\ phase' = "failed")
        BY <1>7 DEF Comma, EndElement, Fail
  <2>3. <<>> \in Seq(Int) /\ Len(<<>>) = 0 /\ 0 \in 0 .. 2
        OBVIOUS
  <2>q. QED  BY <1>2, <1>3, <2>1, <2>2, <2>3 DEF ParserType, Counted
<1>8. CASE Wrong(t)
      BY <1>2, <1>8 DEF Wrong, Fail, ParserType, Counted
<1>q. QED  BY <1>4, <1>5, <1>6, <1>7, <1>8

\* The range of an element that is over.
LEMMA ElementEnds ==
    ASSUME ParserType, Len(nums) \in 1 .. 3
    PROVE  /\ nums[1] \in Int /\ Stop \in Int /\ Step \in Int
           /\ WellFormed(nums[1], Stop, Step) => Canonical(IntRange(nums[1], Stop, Step))
<1>1. nums \in Element
      BY DEF ParserType, Element
<1>2. Stop = StopOf(nums) /\ Step = StepOf(nums)
      BY DEF Stop, Step, StopOf, StepOf
<1>3. nums[1] \in Int /\ Stop \in Int /\ Step \in Int
      BY <1>1, <1>2, ElementParts
<1>q. QED  BY <1>3, RangeMeans

\* The sort may begin.
LEMMA StartsCombining ==
    ASSUME left' = DOMAIN ranges', combined' = <<>>
    PROVE  Combining'
<1>1. Taken' = {} /\ AreRanges(combined)' /\ Denoted' = {} /\ ~Overlaps'
  <2>1. <<>> \in Seq(RangeType) /\ DOMAIN <<>> = {} /\ Len(<<>>) = 0 /\ 1 .. 0 - 1 = {}
        OBVIOUS
  <2>2. Taken' = {}
        BY DEF Taken
  <2>3. AreRanges(combined)'
        BY <2>1 DEF AreRanges
  <2>4. Denoted' = {}
        BY <2>1 DEF Denoted
  <2>5. ~Overlaps'
        BY <2>1 DEF Overlaps
  <2>q. QED  BY <2>2, <2>3, <2>4, <2>5
<1>2. Covered(ranges, Taken)' = {} /\ AllClear(ranges, Taken)'
      BY <1>1 DEF Covered, AllClear
<1>q. QED  BY <1>1, <1>2 DEF Combining

\* Ranges that do not overlap ascend.
LEMMA CombinedAscend ==
    ASSUME AreRanges(combined), ~Overlaps
    PROVE  Ascending(combined)
<1> DEFINE n == Len(combined)
<1>1. /\ n \in Nat /\ DOMAIN combined = 1 .. n
      /\ \A i \in 1 .. n : /\ combined[i].start \in Int /\ combined[i].end \in Int
                           /\ combined[i].start <= combined[i].end
      BY LenProperties DEF AreRanges, Canonical, RangeType
<1>2. \A i \in 1 .. n - 1 : combined[i].end < combined[i + 1].start
  <2>1. \A i \in 1 .. n - 1 : i \in 1 .. n /\ i + 1 \in 1 .. n
        BY <1>1
  <2>2. \A i \in 1 .. n - 1 : ~(combined[i].end >= combined[i + 1].start)
        BY DEF Overlaps
  <2>3. \A i \in 1 .. n - 1 : combined[i].end \in Int /\ combined[i + 1].start \in Int
        BY <1>1, <2>1
  <2> HIDE DEF n
  <2>q. QED  BY <2>2, <2>3
<1> HIDE DEF n
<1>3. ASSUME NEW i \in 1 .. n
      PROVE  \A j \in 1 .. n : i < j => combined[i].end < combined[j].start
  <2> DEFINE Bad == {j \in Nat : j \in 1 .. n /\ i < j /\ ~(combined[i].end < combined[j].start)}
  <2> SUFFICES ASSUME Bad # {}
               PROVE  FALSE
      BY <1>1
  <2>1. PICK j \in Bad : \A k \in Bad : j <= k
    <3>1. Bad \in SUBSET Nat
          OBVIOUS
    <3> HIDE DEF Bad
    <3>q. QED  BY <3>1, LeastNumber
  <2>2. j \in 1 .. n /\ i < j /\ ~(combined[i].end < combined[j].start) /\ j \in Nat /\ i \in Nat
        OBVIOUS
  <2>3. j - 1 \in 1 .. n - 1 /\ j - 1 \in 1 .. n /\ (j - 1) + 1 = j /\ j - 1 \in Nat /\ ~(j <= j - 1)
        /\ (i < j - 1 \/ i = j - 1)
        BY <1>1, <2>2
  <2>4. combined[j - 1].end < combined[j].start
        BY <1>2, <2>3
  <2>5. i < j - 1
        BY <2>2, <2>3, <2>4
  <2>6. combined[i].end < combined[j - 1].start
        BY <2>1, <2>3, <2>5
  <2>q. QED  BY <1>1, <2>2, <2>3, <2>4, <2>6
<1>q. QED  BY <1>1, <1>3 DEF Ascending

\* The first states.
LEMMA InitInv == Init => Inv
<1> SUFFICES ASSUME Init
             PROVE  Inv
    OBVIOUS
<1>0. /\ round = 1 /\ todo = <<>> /\ want = "number" /\ negative = FALSE /\ nums = <<>>
      /\ ranges = <<>> /\ combined = <<>> /\ phase \in {"parse", "list"}
      BY DEF Init
<1>1. AreRanges(ranges) /\ Bounded(ranges) /\ Ascending(ranges)
  <2>1. <<>> \in Seq(RangeType) /\ DOMAIN <<>> = {} /\ 0 \in Int
        OBVIOUS
  <2>2. AreRanges(ranges) /\ Ascending(ranges)
        BY <1>0, <2>1 DEF AreRanges, Ascending
  <2>3. Bounded(ranges)
        BY <1>0, <2>1 DEF Bounded
  <2>q. QED  BY <2>2, <2>3
<1>2. ParserType /\ Counted
  <2>1. <<>> \in Seq(Int) /\ <<>> \in Seq(TokenType) /\ Len(<<>>) \in 0 .. 2
        OBVIOUS
  <2>q. QED  BY <1>0, <2>1 DEF ParserType, Counted
<1>3. values \subseteq Int /\ (phase = "parse" => values = {})
      BY RangeAssumption DEF Init
<1>4. phase = "list" => values # {} /\ Running
  <2> SUFFICES ASSUME phase = "list"
               PROVE  values # {} /\ Running
      OBVIOUS
  <2>1. PICK v \in values : /\ \A w \in values : v <= w
                            /\ run = [start |-> v, end |-> v, step |-> 0] /\ left = values \ {v}
        BY DEF Init
  <2>2. v \in Int /\ values \subseteq Int
        BY <1>3
  <2>3. Elements(RunRange) = {v}
    <3>1. 1 \in Int /\ 1 > 0
          OBVIOUS
    <3>2. RunRange = IntRange(v, v, 1)
          BY <2>1 DEF RunRange
    <3>q. QED  BY <2>2, <3>1, <3>2, SingleValue
  <2>4. DOMAIN ranges = {} /\ Covered(ranges, DOMAIN ranges) = {}
        BY <1>0 DEF Covered
  <2>5. values = Covered(ranges, DOMAIN ranges) \cup Elements(RunRange) \cup left
        BY <2>1, <2>3, <2>4
  <2>6. left \subseteq Int /\ \A w \in left : v < w
        BY <2>1, <2>2
  <2>q. QED  BY <1>1, <2>1, <2>2, <2>4, <2>5, <2>6 DEF Running
<1>q. QED  BY <1>0, <1>1, <1>2, <1>3, <1>4 DEF Inv, Types, Stages, Denotes, Known

\* The end of an element adds its range or is a failure.
LEMMA EndKeeps ==
    ASSUME Types, phase = "parse", want = "after", NEW go, EndElement(go)
    PROVE  /\ AreRanges(ranges)' /\ Bounded(ranges)'
           /\ \/ go /\ nums' = <<>> /\ ranges' # <<>>
              \/ phase' = "failed" /\ nums' = nums
<1>1. AreRanges(ranges) /\ Bounded(ranges) /\ ParserType /\ Len(nums) \in 1 .. 3
      BY DEF Types, Counted
<1>2. CASE WellFormed(nums[1], Stop, Step)
  <2>1. Canonical(IntRange(nums[1], Stop, Step))
        BY <1>1, <1>2, ElementEnds
  <2>2. ranges' = Append(ranges, IntRange(nums[1], Stop, Step)) /\ nums' = <<>> /\ go
        BY <1>2 DEF EndElement
  <2>q. QED  BY <1>1, <2>1, <2>2, AppendRange
<1>3. CASE ~WellFormed(nums[1], Stop, Step)
      BY <1>1, <1>3 DEF EndElement, Fail
<1>q. QED  BY <1>2, <1>3

\* Every step keeps the types.
LEMMA StepTypes ==
    ASSUME Inv, [Next]_vars
    PROVE  Types'
<1>0. Types /\ Stages /\ phase \in {"parse", "list", "combine", "built", "failed"} /\ round \in {1, 2}
      /\ values \subseteq Int /\ AreRanges(ranges) /\ Bounded(ranges) /\ ParserType /\ Counted
      BY DEF Inv, Types
<1>1. ASSUME NEW t \in Offered, Sign(t) \/ Digits(t) \/ Separator(t) \/ Comma(t) \/ Wrong(t)
      PROVE  Types'
  <2>1. phase = "parse" /\ values' = values /\ round' = round
        BY <1>1 DEF Sign, Digits, Separator, Comma, Wrong, Consume
  <2>2. ParserType' /\ Counted'
        BY <1>0, <1>1, <2>1, ParserKeeps
  <2>3. AreRanges(ranges)' /\ Bounded(ranges)' /\ phase' \in {"parse", "failed"}
    <3>1. CASE Comma(t)
      <4>1. EndElement(UNCHANGED <<phase, error, left>>) /\ want = "after"
            BY <3>1 DEF Comma
      <4>q. QED  BY <1>0, <2>1, <4>1, EndKeeps
    <3>2. CASE ~Comma(t)
          BY <1>0, <1>1, <2>1, <3>2 DEF Sign, Digits, Separator, Wrong, Fail
    <3>q. QED  BY <3>1, <3>2
  <2>q. QED  BY <1>0, <2>1, <2>2, <2>3 DEF Types
<1>2. CASE EndText
  <2>1. /\ values' = values /\ round' = round /\ todo' = todo /\ want' = want /\ negative' = negative
        /\ phase = "parse" /\ want = "after"
        BY <1>2 DEF EndText, AtEnd
  <2>2. EndElement(phase' = "combine" /\ left' = DOMAIN ranges' /\ UNCHANGED error)
        BY <1>2 DEF EndText
  <2>3. AreRanges(ranges)' /\ Bounded(ranges)'
        BY <1>0, <2>1, <2>2, EndKeeps
  <2>4. phase' \in {"combine", "failed"} /\ (nums' = <<>> \/ nums' = nums)
        BY <1>0, <2>1, <2>2, EndKeeps
  <2>5. <<>> \in Seq(Int)
        OBVIOUS
  <2>6. ParserType' /\ Counted'
        BY <1>0, <2>1, <2>4, <2>5 DEF ParserType, Counted
  <2>q. QED  BY <1>0, <2>1, <2>3, <2>4, <2>6 DEF Types
<1>3. CASE EndTooSoon
      BY <1>0, <1>3 DEF EndTooSoon, Fail, Types, ParserType, Counted, parserVars
<1>4. CASE ExtendRun
  <2>1. Running
        BY <1>0, <1>4 DEF ExtendRun, Stages
  <2>2. AreRanges(ranges)' /\ Bounded(ranges)'
        BY <1>0, <1>4, <2>1, ExtendRunKeeps
  <2>q. QED  BY <1>0, <1>4, <2>2 DEF ExtendRun, Types, ParserType, Counted, parserVars
<1>5. CASE EndList
  <2>1. ranges' = Append(ranges, RunRange) /\ Running
        BY <1>0, <1>5 DEF EndList, RunRange, Stages
  <2>2. AreRanges(ranges)' /\ Bounded(ranges)'
    <3>1. Canonical(RunRange)
          BY <2>1, RunIsRange
    <3>q. QED  BY <1>0, <2>1, <3>1, AppendRange
  <2>q. QED  BY <1>0, <1>5, <2>2 DEF EndList, Types, ParserType, Counted, parserVars
<1>6. CASE Join
      BY <1>0, <1>6 DEF Join, Types, ParserType, Counted, parserVars
<1>7. CASE Validate
      BY <1>0, <1>7 DEF Validate, Fail, Types, ParserType, Counted, parserVars
<1>8. CASE Reparse
  <2>1. /\ phase' = "parse" /\ round' = 2 /\ todo' = Text(combined) /\ want' = "number" /\ nums' = <<>>
        /\ ranges' = <<>> /\ values' = values /\ negative' = negative /\ phase = "built"
        BY <1>8 DEF Reparse
  <2>2. AreRanges(combined) /\ ~Overlaps /\ combined # <<>> /\ want # "digits"
    <3>1. Combining /\ left = {} /\ ~Overlaps /\ want # "digits" /\ ranges # <<>>
          BY <1>0, <2>1 DEF Stages
    <3>2. DOMAIN ranges # {}
          BY <1>0, <3>1, EmptySeq, LenProperties DEF AreRanges
    <3>q. QED  BY <3>1, <3>2 DEF Combining, Taken
  <2>3. Ascending(combined)
        BY <2>2, CombinedAscend
  <2>4. PICK m, E, F : Scripts(combined, m, E, F)
        BY <2>2, <2>3, TextScript
  <2>5. Text(combined) \in Seq(TokenType)
    <3>1. 1 \in 1 .. m
          BY <2>4 DEF Scripts, Script
    <3>2. F[1] \in Seq(TokenType) /\ F[1] = Text(combined)
          BY <2>4, <3>1 DEF Scripts, Script
    <3>q. QED  BY <3>2
  <2>6. /\ <<>> \in Seq(RangeType) /\ <<>> \in Seq(Int) /\ DOMAIN <<>> = {} /\ Len(<<>>) \in 0 .. 2
        /\ 0 \in Int
        OBVIOUS
  <2>7. AreRanges(ranges)' /\ Bounded(ranges)'
        BY <2>1, <2>6 DEF AreRanges, Bounded
  <2>8. ParserType' /\ Counted'
        BY <1>0, <2>1, <2>2, <2>5, <2>6 DEF ParserType, Counted
  <2>q. QED  BY <1>0, <2>1, <2>7, <2>8 DEF Types
<1>9. CASE UNCHANGED vars
      BY <1>0, <1>9 DEF vars, Types, ParserType, Counted, parserVars
<1>q. QED  BY <1>1, <1>2, <1>3, <1>4, <1>5, <1>6, <1>7, <1>8, <1>9 DEF Next

\* Every step keeps what holds in each phase.
LEMMA StepStages ==
    ASSUME Inv, [Next]_vars
    PROVE  Stages'
<1>0. Types /\ Stages /\ AreRanges(ranges) /\ Bounded(ranges) /\ ParserType
      BY DEF Inv, Types
<1>1. ASSUME NEW t \in Offered, Sign(t) \/ Digits(t) \/ Separator(t) \/ Comma(t) \/ Wrong(t)
      PROVE  Stages'
  <2>1. phase = "parse" /\ combined' = combined /\ phase' \in {"parse", "failed"}
        BY <1>1 DEF Sign, Digits, Separator, Comma, Wrong, Consume, EndElement, Fail
  <2>q. QED  BY <1>0, <2>1 DEF Stages
<1>2. CASE EndText
  <2>1. combined' = combined /\ want' = want /\ phase = "parse" /\ want = "after"
        BY <1>2 DEF EndText, AtEnd
  <2>2. EndElement(phase' = "combine" /\ left' = DOMAIN ranges' /\ UNCHANGED error)
        BY <1>2 DEF EndText
  <2>3. \/ phase' = "combine" /\ left' = DOMAIN ranges' /\ ranges' # <<>>
        \/ phase' = "failed"
        BY <1>0, <2>1, <2>2, EndKeeps
  <2>4. combined' = <<>>
        BY <1>0, <2>1 DEF Stages
  <2>5. phase' = "combine" => Combining'
        BY <2>3, <2>4, StartsCombining
  <2>q. QED  BY <2>1, <2>3, <2>4, <2>5 DEF Stages
<1>3. CASE EndTooSoon
      BY <1>3 DEF EndTooSoon, Fail, Stages
<1>4. CASE ExtendRun
  <2>1. Running /\ phase = "list"
        BY <1>0, <1>4 DEF ExtendRun, Stages
  <2>2. Running'
        BY <1>0, <1>4, <2>1, ExtendRunKeeps
  <2>q. QED  BY <1>0, <1>4, <2>1, <2>2 DEF ExtendRun, Stages, parserVars
<1>5. CASE EndList
  <2>1. ranges' = Append(ranges, RunRange) /\ Running /\ phase' = "combine" /\ phase = "list"
        /\ left' = DOMAIN ranges' /\ combined' = combined /\ want' = want
        BY <1>0, <1>5 DEF EndList, RunRange, Stages, parserVars
  <2>2. ranges' # <<>>
    <3>1. Canonical(RunRange)
          BY <2>1, RunIsRange
    <3>q. QED  BY <1>0, <2>1, <3>1, AppendRange
  <2>3. combined' = <<>>
        BY <1>0, <2>1 DEF Stages
  <2>4. Combining'
        BY <2>1, <2>3, StartsCombining
  <2>q. QED  BY <1>0, <2>1, <2>2, <2>3, <2>4 DEF Stages
<1>6. CASE Join
  <2>1. phase = "combine" /\ phase' = phase /\ want' = want /\ ranges' = ranges
        BY <1>6 DEF Join, parserVars
  <2>2. Combining'
        BY <1>0, <1>6, <2>1, JoinKeeps DEF Stages
  <2>q. QED  BY <1>0, <2>1, <2>2 DEF Stages
<1>7. CASE Validate
  <2>1. phase = "combine" /\ left = {} /\ UNCHANGED <<want, ranges, left, combined>>
        /\ (IF Overlaps THEN phase' = "failed" ELSE phase' = "built")
        BY <1>7 DEF Validate, Fail, parserVars
  <2>2. Combining' /\ (Overlaps' <=> Overlaps)
    <3>1. Combining
          BY <1>0, <2>1 DEF Stages
    <3>2. Overlaps' <=> Overlaps
          BY <2>1 DEF Overlaps
    <3>3. Denoted' = Denoted /\ Taken' = Taken /\ Last' = Last
          BY <2>1 DEF Denoted, Taken, Last
    <3>q. QED  BY <2>1, <3>1, <3>2, <3>3 DEF Combining
  <2>q. QED  BY <1>0, <2>1, <2>2 DEF Stages
<1>8. CASE Reparse
      BY <1>8 DEF Reparse, Stages
<1>9. CASE UNCHANGED vars
  <2>1. UNCHANGED <<phase, combined, want, ranges, left, round, values, run>>
        BY <1>9 DEF vars, parserVars
  <2>2. Combining' <=> Combining
    <3>1. Overlaps' <=> Overlaps
          BY <2>1 DEF Overlaps
    <3>2. Denoted' = Denoted /\ Taken' = Taken /\ Last' = Last
          BY <2>1 DEF Denoted, Taken, Last
    <3>q. QED  BY <2>1, <3>1, <3>2 DEF Combining
  <2>3. Running' <=> Running
    <3>1. RunRange' = RunRange
          BY <2>1 DEF RunRange
    <3>q. QED  BY <2>1, <3>1 DEF Running
  <2>4. Overlaps' <=> Overlaps
        BY <2>1 DEF Overlaps
  <2>q. QED  BY <1>0, <2>1, <2>2, <2>3, <2>4 DEF Stages
<1>q. QED  BY <1>1, <1>2, <1>3, <1>4, <1>5, <1>6, <1>7, <1>8, <1>9 DEF Next

\* The expression that is built has the values of all its ranges, and they are
\* clear of one another.
LEMMA BuiltDenotes ==
    ASSUME Types, Stages, phase = "built"
    PROVE  /\ AreRanges(combined) /\ combined # <<>> /\ Ascending(combined)
           /\ Denoted = Covered(ranges, DOMAIN ranges)
           /\ Denoted = Covered(combined, DOMAIN combined)
           /\ AllClear(ranges, DOMAIN ranges)
<1>1. Combining /\ left = {} /\ ~Overlaps /\ ranges # <<>> /\ AreRanges(ranges)
      BY DEF Types, Stages
<1>2. Taken = DOMAIN ranges /\ DOMAIN ranges # {}
      BY <1>1, EmptySeq, LenProperties DEF AreRanges, Taken
<1>q. QED  BY <1>1, <1>2, CombinedAscend DEF Combining, Denoted, Covered

\* Every step keeps the values that are meant.
LEMMA StepDenotes ==
    ASSUME Inv, [Next]_vars
    PROVE  Denotes'
<1>0. Types /\ Stages /\ Denotes /\ AreRanges(ranges) /\ Bounded(ranges) /\ ParserType
      /\ round \in {1, 2}
      BY DEF Inv, Types
<1>01. phase = "parse" /\ round = 2 => \E m, E, F, j : Scripts(first, m, E, F) /\ Reads(m, E, F, j)
       BY <1>0 DEF Denotes, Rereading
<1>1. ASSUME NEW t \in Offered, Sign(t) \/ Digits(t) \/ Separator(t) \/ Comma(t) \/ Wrong(t)
      PROVE  Denotes'
  <2>1. phase = "parse" /\ phase' \in {"parse", "failed"} /\ UNCHANGED <<round, values, first>>
        BY <1>1 DEF Sign, Digits, Separator, Comma, Wrong, Consume, EndElement, Fail
  <2>2. round = 2 => phase' = "parse" /\ Rereading'
    <3> SUFFICES ASSUME round = 2
                 PROVE  phase' = "parse" /\ Rereading'
        OBVIOUS
    <3>1. PICK m, E, F, j : Scripts(first, m, E, F) /\ Reads(m, E, F, j)
          BY <1>01, <2>1
    <3>2. ~Wrong(t)
          BY <1>0, <2>1, <3>1, NothingIsWrong
    <3>3. CASE Sign(t) \/ Digits(t)
      <4>1. Rereading'
            BY <1>0, <2>1, <3>1, <3>3, NumberIsRead
      <4>2. phase' = phase
            BY <3>3 DEF Sign, Digits
      <4>q. QED  BY <2>1, <4>1, <4>2
    <3>4. CASE Separator(t)
      <4>1. Rereading'
            BY <1>0, <2>1, <3>1, <3>4, SeparatorIsRead
      <4>2. phase' = phase
            BY <3>4 DEF Separator
      <4>q. QED  BY <2>1, <4>1, <4>2
    <3>5. CASE Comma(t)
          BY <1>0, <2>1, <3>1, <3>5, CommaIsRead
    <3>q. QED  BY <1>1, <3>2, <3>3, <3>4, <3>5
  <2>3. round = 1 => values = {}
        BY <1>0, <2>1 DEF Denotes
  <2>4. round = 2 /\ values # {} => Covered(first, DOMAIN first)' = values'
        BY <1>0, <2>1 DEF Denotes
  <2>q. QED  BY <1>0, <2>1, <2>2, <2>3, <2>4 DEF Denotes, Known
<1>2. CASE EndText
  <2>1. phase = "parse" /\ UNCHANGED <<round, values, first>> /\ phase' \in {"combine", "failed"}
        BY <1>2 DEF EndText, AtEnd, EndElement, Fail
  <2>2. AreRanges(ranges)'
        BY StepTypes DEF Types
  <2>3. round = 2 => /\ phase' = "combine"
                     /\ Covered(ranges, DOMAIN ranges)' = Covered(first, DOMAIN first)
                     /\ Ascending(ranges)'
    <3> SUFFICES ASSUME round = 2
                 PROVE  /\ phase' = "combine"
                        /\ Covered(ranges, DOMAIN ranges)' = Covered(first, DOMAIN first)
                        /\ Ascending(ranges)'
        OBVIOUS
    <3>1. PICK m, E, F, j : Scripts(first, m, E, F) /\ Reads(m, E, F, j)
          BY <1>01, <2>1
    <3>q. QED  BY <1>0, <1>2, <2>1, <3>1, TextIsRead
  <2>4. round = 2 => AllClear(ranges, DOMAIN ranges)'
    <3>1. ranges' \in Seq(RangeType)
          BY <2>2 DEF AreRanges
    <3>2. Ascending(ranges') => AllClear(ranges', DOMAIN ranges')
          BY <3>1, AscendingIsClear
    <3>3. round = 2 => Ascending(ranges')
          BY <2>3 DEF Ascending
    <3>4. AllClear(ranges', DOMAIN ranges') => AllClear(ranges, DOMAIN ranges)'
          BY DEF AllClear
    <3>q. QED  BY <3>2, <3>3, <3>4
  <2>5. round = 1 => values = {}
        BY <1>0, <2>1 DEF Denotes
  <2>6. round = 2 => Target' = Covered(first, DOMAIN first)
        BY <2>1 DEF Target, Covered
  <2>7. round = 2 /\ values # {} => Covered(first, DOMAIN first)' = values'
        BY <1>0, <2>1 DEF Denotes
  <2>q. QED  BY <1>0, <2>1, <2>3, <2>4, <2>5, <2>6, <2>7 DEF Denotes, Known
<1>3. CASE EndTooSoon
  <2>1. phase = "parse" /\ UNCHANGED <<round, values, first>> /\ phase' = "failed"
        BY <1>3 DEF EndTooSoon, AtEnd, Fail
  <2>2. round # 2
        BY <1>0, <1>01, <1>3, <2>1, NothingIsWrong
  <2>3. values = {}
        BY <1>0, <2>1, <2>2 DEF Denotes
  <2>q. QED  BY <1>0, <2>1, <2>2, <2>3 DEF Denotes, Known
<1>4. CASE ExtendRun
  <2>1. phase = "list" /\ UNCHANGED <<phase, round, values, first>> /\ round = 1
        BY <1>0, <1>4 DEF ExtendRun, Stages
  <2>q. QED  BY <2>1 DEF Denotes
<1>5. CASE EndList
  <2>1. /\ phase = "list" /\ phase' = "combine" /\ UNCHANGED <<round, values, first>> /\ round = 1
        /\ left = {} /\ ranges' = Append(ranges, RunRange) /\ Running
        BY <1>0, <1>5 DEF EndList, RunRange, Stages
  <2>2. Canonical(RunRange) /\ RunRange.start = run.start
        BY <2>1, RunIsRange
  <2>3. /\ Covered(Append(ranges, RunRange), DOMAIN Append(ranges, RunRange))
             = Covered(ranges, DOMAIN ranges) \cup Elements(RunRange)
        /\ Ascending(ranges) /\ (\A i \in DOMAIN ranges : ranges[i].end < RunRange.start)
             => Ascending(Append(ranges, RunRange))
        BY <1>0, <2>2, AppendRange
  <2>4. values = Covered(ranges, DOMAIN ranges) \cup Elements(RunRange)
        /\ Ascending(Append(ranges, RunRange))
        BY <2>1, <2>2, <2>3 DEF Running
  <2>5. Covered(ranges, DOMAIN ranges)' = values'
        BY <2>1, <2>3, <2>4 DEF Covered
  <2>6. AllClear(ranges, DOMAIN ranges)'
    <3>1. ranges' \in Seq(RangeType)
          BY StepTypes DEF Types, AreRanges
    <3>2. Ascending(ranges')
          BY <2>1, <2>4
    <3>3. AllClear(ranges', DOMAIN ranges')
          BY <3>1, <3>2, AscendingIsClear
    <3>q. QED  BY <3>3 DEF AllClear
  <2>7. Target' = values'
        BY <2>1 DEF Target
  <2>q. QED  BY <2>1, <2>5, <2>6, <2>7 DEF Denotes
<1>6. CASE Join
  <2>1. phase = "combine" /\ UNCHANGED <<phase, round, values, first, ranges>>
        BY <1>6 DEF Join
  <2>q. QED  BY <1>0, <2>1 DEF Denotes, Known, Target, Covered, AllClear
<1>7. CASE Validate
  <2>1. phase = "combine" /\ left = {} /\ UNCHANGED <<round, values, first, ranges>>
        /\ (IF Overlaps THEN phase' = "failed" ELSE phase' = "built")
        BY <1>7 DEF Validate, Fail
  <2>2. Known => ~Overlaps
    <3>1. Combining
          BY <1>0, <2>1 DEF Stages
    <3>2. Taken = DOMAIN ranges
          BY <2>1 DEF Taken
    <3>3. Known => AllClear(ranges, DOMAIN ranges)
          BY <1>0, <2>1 DEF Denotes
    <3>q. QED  BY <3>1, <3>2, <3>3 DEF Combining
  <2>3. Known' <=> Known
        BY <2>1 DEF Known
  <2>q. QED  BY <1>0, <2>1, <2>2, <2>3 DEF Denotes, Target, Covered, AllClear
<1>8. CASE Reparse
  <2>1. /\ phase = "built" /\ round = 1 /\ phase' = "parse" /\ round' = 2 /\ first' = combined
        /\ todo' = Text(combined) /\ want' = "number" /\ nums' = <<>> /\ ranges' = <<>>
        /\ values' = values
        BY <1>8 DEF Reparse
  <2>2. /\ AreRanges(combined) /\ combined # <<>> /\ Ascending(combined)
        /\ Covered(ranges, DOMAIN ranges) = Covered(combined, DOMAIN combined)
        BY <1>0, <2>1, BuiltDenotes
  <2>3. values # {} => Covered(first, DOMAIN first)' = values'
    <3>1. values # {} => Covered(ranges, DOMAIN ranges) = values
          BY <1>0, <2>1 DEF Denotes, Known, Target
    <3>2. Covered(first, DOMAIN first)' = Covered(combined, DOMAIN combined)
          BY <2>1 DEF Covered
    <3>q. QED  BY <2>1, <2>2, <3>1, <3>2
  <2>4. PICK m, E, F : Scripts(combined, m, E, F)
        BY <2>2, TextScript
  <2>5. Script(m, E, F) /\ 1 \in 1 .. m /\ F[1] = Text(combined)
        BY <2>4 DEF Scripts, Script
  <2>6. F[1] = Signed(E[1][1]) \o Following(E[1], 1, Behind(m, F, 1)) /\ Len(E[1]) \in 1 .. 3
        BY <2>5, ScriptParts, SMTT(30)
  <2>7. Reads(m, E, F, 1)'
    <3>1. Len(<<>>) = 0 /\ 1 - 1 = 0 /\ 0 + 1 = 1 /\ 1 .. 0 = {}
          OBVIOUS
    <3>2. 0 <= Len(E[1]) /\ 0 < Len(E[1])
          BY <2>6
    <3>q. QED  BY <2>1, <2>5, <2>6, <3>1, <3>2 DEF Reads
  <2>8. Scripts(first, m, E, F)'
        BY <2>1, <2>4 DEF Scripts
  <2>9. Rereading'
        BY <2>7, <2>8 DEF Rereading
  <2>q. QED  BY <2>1, <2>3, <2>9 DEF Denotes
<1>9. CASE UNCHANGED vars
  <2>1. UNCHANGED <<phase, round, values, first, ranges, nums, want, todo>>
        BY <1>9 DEF vars, parserVars
  <2>2. Rereading' <=> Rereading
        BY <2>1 DEF Rereading, Reads, Scripts
  <2>q. QED  BY <1>0, <2>1, <2>2 DEF Denotes, Known, Target, Covered, AllClear
<1>q. QED  BY <1>1, <1>2, <1>3, <1>4, <1>5, <1>6, <1>7, <1>8, <1>9 DEF Next

\* The invariant holds in every state.
THEOREM RangesInv == Spec => []Inv
<1>1. Inv /\ [Next]_vars => Inv'
      BY StepTypes, StepStages, StepDenotes DEF Inv
<1>q. QED  BY <1>1, InitInv, PTL DEF Spec

\* An expression that from_list makes of integers denotes the list, and so does
\* the one that its text is parsed to; neither fails.
THEOREM ListIsDenoted == Spec => []ListDenoted
<1>1. Inv => ListDenoted
  <2> SUFFICES ASSUME Inv, values # {}
               PROVE  phase # "failed" /\ (phase = "built" => Denoted = values)
      BY DEF ListDenoted
  <2>1. Types /\ Stages /\ Denotes /\ Known
        BY DEF Inv, Known
  <2>2. phase = "built" => Denoted = Covered(ranges, DOMAIN ranges)
        BY <2>1, BuiltDenotes
  <2>3. round = 2 => Covered(first, DOMAIN first) = values
        BY <2>1 DEF Denotes
  <2>q. QED  BY <2>1, <2>2, <2>3 DEF Denotes, Target
<1>q. QED  BY <1>1, RangesInv, PTL

\* The text of an expression, of a text or of a list, is parsed to an expression
\* of the same values.
THEOREM TextIsDenoted == Spec => []TextDenotes
<1>1. Inv => TextDenotes
  <2> SUFFICES ASSUME Inv, round = 2
               PROVE  /\ phase # "failed"
                      /\ phase = "built" => Denoted = UNION {Elements(first[i]) : i \in DOMAIN first}
      BY DEF TextDenotes
  <2>1. Types /\ Stages /\ Denotes /\ Known
        BY DEF Inv, Known
  <2>2. phase = "built" => Denoted = Covered(ranges, DOMAIN ranges)
        BY <2>1, BuiltDenotes
  <2>q. QED  BY <2>1, <2>2 DEF Denotes, Target, Covered
<1>q. QED  BY <1>1, RangesInv, PTL

----------------------------------------------------------------------------
(* Lookups. *)

\* Positions in ranges of these lengths, one after the other.
LEMMA Sums ==
    ASSUME NEW c \in Nat, NEW T \in [0 .. c -> Nat], NEW L \in [1 .. c -> Nat], T[0] = 0,
           \A i \in 1 .. c : L[i] >= 1 /\ T[i] = T[i - 1] + L[i]
    PROVE  /\ \A i, j \in 0 .. c : i < j => T[i] < T[j]
           /\ \A i \in 1 .. c : \A k \in 0 .. L[i] - 1 :
                /\ {a \in 1 .. c : T[a] <= T[i - 1] + k} = 1 .. i - 1
                /\ T[i - 1] + k \in 0 .. T[c] - 1
           /\ \A p \in 0 .. T[c] - 1 : \E i \in 1 .. c : p - T[i - 1] \in 0 .. L[i] - 1
<1>1. ASSUME NEW i \in 0 .. c
      PROVE  \A j \in 0 .. c : i < j => T[i] < T[j]
  <2> DEFINE Bad == {j \in Nat : j \in 0 .. c /\ i < j /\ ~(T[i] < T[j])}
  <2>0. \A j \in 0 .. c : j \in Nat
        OBVIOUS
  <2> SUFFICES ASSUME Bad # {}
               PROVE  FALSE
      BY <2>0
  <2>1. PICK j \in Bad : \A k \in Bad : j <= k
    <3>1. Bad \in SUBSET Nat
          OBVIOUS
    <3> HIDE DEF Bad
    <3>q. QED  BY <3>1, LeastNumber
  <2>2. j \in 0 .. c /\ i < j /\ ~(T[i] < T[j])
        OBVIOUS
  <2>3. j \in 1 .. c /\ j - 1 \in 0 .. c /\ j - 1 \in Nat /\ ~(j <= j - 1) /\ (i < j - 1 \/ i = j - 1)
        BY <2>2
  <2>4. T[j - 1] < T[j] /\ T[j - 1] \in Nat /\ T[j] \in Nat /\ T[i] \in Nat
        BY <2>3
  <2>5. i < j - 1
        BY <2>2, <2>3, <2>4
  <2>6. T[i] < T[j - 1]
        BY <2>1, <2>3, <2>5
  <2>q. QED  BY <2>2, <2>4, <2>6
<1>4. \A i, j \in 0 .. c : i < j => T[i] < T[j]
      BY <1>1
<1>2. ASSUME NEW i \in 1 .. c, NEW k \in 0 .. L[i] - 1
      PROVE  /\ {a \in 1 .. c : T[a] <= T[i - 1] + k} = 1 .. i - 1
             /\ T[i - 1] + k \in 0 .. T[c] - 1
  <2>1. i - 1 \in 0 .. c /\ i \in 0 .. c /\ c \in 0 .. c
        OBVIOUS
  <2>2. T[i - 1] \in Nat /\ T[i] \in Nat /\ T[c] \in Nat /\ L[i] \in Nat /\ T[i] = T[i - 1] + L[i]
        BY <2>1
  <2>3. T[i - 1] + k < T[i]
        BY <2>2
  <2>4. ASSUME NEW a \in 1 .. c
        PROVE  T[a] <= T[i - 1] + k <=> a <= i - 1
    <3>1. a \in 0 .. c /\ T[a] \in Nat
          OBVIOUS
    <3>2. a <= i - 1 => T[a] <= T[i - 1]
      <4>1. a <= i - 1 => a = i - 1 \/ a < i - 1
            OBVIOUS
      <4>2. a < i - 1 => T[a] < T[i - 1]
            BY <1>4, <2>1, <3>1
      <4>3. a < i - 1 => T[a] <= T[i - 1]
            BY <2>2, <3>1, <4>2
      <4>4. a = i - 1 => T[a] <= T[i - 1]
            BY <2>2
      <4>q. QED  BY <4>1, <4>3, <4>4
    <3>3. ~(a <= i - 1) => T[i] <= T[a]
      <4>1. ~(a <= i - 1) => a = i \/ i < a
            OBVIOUS
      <4>2. i < a => T[i] < T[a]
            BY <1>4, <2>1, <3>1
      <4>3. i < a => T[i] <= T[a]
            BY <2>2, <3>1, <4>2
      <4>4. a = i => T[i] <= T[a]
            BY <2>2
      <4>q. QED  BY <4>1, <4>3, <4>4
    <3>4. k \in Int /\ k >= 0
          BY <2>2
    <3>5. T[a] <= T[i - 1] => T[a] <= T[i - 1] + k
          BY <2>2, <3>1, <3>4
    <3>6. T[i] <= T[a] => ~(T[a] <= T[i - 1] + k)
          BY <2>2, <2>3, <3>1, <3>4, SMTT(30)
    <3>q. QED  BY <3>2, <3>3, <3>5, <3>6
  <2>5. {a \in 1 .. c : T[a] <= T[i - 1] + k} = 1 .. i - 1
    <3>1. \A a : a \in 1 .. i - 1 <=> a \in 1 .. c /\ a <= i - 1
          BY SMTT(30)
    <3> DEFINE S == {a \in 1 .. c : T[a] <= T[i - 1] + k}
    <3>2. \A a : a \in S <=> a \in 1 .. i - 1
          BY <2>4, <3>1
    <3>q. QED  BY <3>2
  <2>6. T[i] <= T[c]
    <3>1. i = c \/ i < c
          OBVIOUS
    <3>2. i < c => T[i] < T[c]
          BY <1>4, <2>1
    <3>q. QED  BY <2>2, <3>1, <3>2
  <2>7. T[i - 1] + k \in 0 .. T[c] - 1
        BY <2>2, <2>3, <2>6, SMTT(30)
  <2>q. QED  BY <2>5, <2>7
<1>3. ASSUME NEW p \in 0 .. T[c] - 1
      PROVE  \E i \in 1 .. c : p - T[i - 1] \in 0 .. L[i] - 1
  <2> DEFINE S == {i \in Nat : i \in 0 .. c /\ p < T[i]}
  <2>1. c \in S /\ S \in SUBSET Nat
        OBVIOUS
  <2>2. PICK i \in S : \A a \in S : i <= a
    <3> HIDE DEF S
    <3>q. QED  BY <2>1, LeastNumber
  <2>3. i \in 0 .. c /\ p < T[i] /\ i # 0 /\ i \in Nat
        OBVIOUS
  <2>4. i \in 1 .. c /\ i - 1 \in 0 .. c /\ i - 1 \in Nat /\ ~(i <= i - 1)
        BY <2>3
  <2>5. ~(p < T[i - 1])
        BY <2>2, <2>4
  <2>6. T[i - 1] \in Nat /\ L[i] \in Nat /\ T[i] = T[i - 1] + L[i]
        BY <2>4
  <2>7. p - T[i - 1] \in 0 .. L[i] - 1
        BY <2>3, <2>5, <2>6, SMTT(30)
  <2>q. QED  BY <2>4, <2>7
<1>q. QED  BY <1>2, <1>3, <1>4

\* The values at the positions of a range are different, and there is a least
\* one of them at least.
LEMMA ItemsDiffer ==
    ASSUME NEW r, Canonical(r)
    PROVE  /\ Length(r) \in Nat /\ Length(r) >= 1
           /\ \A j, k \in 0 .. Length(r) - 1 : Item(r, j) = Item(r, k) => j = k
<1>1. r.start \in Int /\ r.end \in Int /\ r.step \in Int /\ r.step > 0
      BY DEF Canonical, RangeType
<1>2. PICK n \in Nat : r.end = r.start + n * r.step
      BY DEF Canonical
<1>3. Length(r) = n + 1
      BY <1>2, LengthOfRange
<1>4. ASSUME NEW j \in 0 .. n, NEW k \in 0 .. n, Item(r, j) = Item(r, k)
      PROVE  j = k
  <2>1. j * r.step \in Int /\ k * r.step \in Int
        BY <1>1, Multiples
  <2>2. j * r.step = k * r.step
        BY <1>1, <1>4, <2>1 DEF Item
  <2>3. (j * r.step) \div r.step = j /\ (k * r.step) \div r.step = k
        BY <1>1, DivExact
  <2>q. QED  BY <2>2, <2>3
<1>q. QED  BY <1>3, <1>4

\* The totals are the sums of the lengths.
LEMMA TotalAdds ==
    ASSUME AreRanges(combined)
    PROVE  /\ Total \in [0 .. Len(combined) -> Nat] /\ Total[0] = 0
           /\ \A i \in 1 .. Len(combined) : Total[i] = Total[i - 1] + Length(combined[i])
<1> DEFINE c == Len(combined)
<1>1. c \in Nat /\ \A i \in 1 .. c : Length(combined[i]) \in Nat
  <2>1. c \in Nat /\ DOMAIN combined = 1 .. c
        BY LenProperties DEF AreRanges
  <2>q. QED  BY <2>1, ItemsDiffer DEF AreRanges
<1> DEFINE h == [p \in Nat \X (1 .. c) |-> p[1] + Length(combined[p[2]])]
<1>2. h \in [Nat \X (1 .. c) -> Nat]
  <2>1. \A p \in Nat \X (1 .. c) : p[1] \in Nat /\ Length(combined[p[2]]) \in Nat
        BY <1>1
  <2>q. QED  BY <2>1
<1>3. PICK f : Iterates(f, c, Nat, 0, h)
  <2> HIDE DEF h, c
  <2>1. 0 \in Nat
        OBVIOUS
  <2>q. QED  BY <1>1, <1>2, <2>1, Recursion
<1>4. f \in [0 .. c -> Nat] /\ f[0] = 0 /\ \A i \in 1 .. c : f[i] = f[i - 1] + Length(combined[i])
  <2>1. f \in [0 .. c -> Nat] /\ f[0] = 0 /\ \A i \in 1 .. c : f[i] = h[<<f[i - 1], i>>]
        BY <1>3 DEF Iterates
  <2>2. ASSUME NEW i \in 1 .. c
        PROVE  f[i] = f[i - 1] + Length(combined[i])
    <3>1. i - 1 \in 0 .. c
          BY <1>1
    <3>2. f[i - 1] \in Nat
          BY <2>1, <3>1
    <3>q. QED  BY <2>1, <3>2
  <2>q. QED  BY <2>1, <2>2
<1> DEFINE Rec(v) == v = [i \in 0 .. c |-> IF i = 0 THEN 0 ELSE v[i - 1] + Length(combined[i])]
           w == CHOOSE v : Rec(v)
<1>5. Rec(f)
  <2>1. \A i \in 0 .. c : i # 0 => i \in 1 .. c
        BY <1>1
  <2>q. QED  BY <1>4, <2>1
<1>6. Total = w
      BY DEF Total
<1>7. Rec(w)
      BY <1>5
<1> HIDE DEF w, h, c
<1>8. \A i \in 0 .. c : w[i] = f[i]
  <2> DEFINE Bad == {i \in Nat : i \in 0 .. c /\ w[i] # f[i]}
  <2> SUFFICES ASSUME Bad # {}
               PROVE  FALSE
      BY <1>1
  <2>1. PICK i \in Bad : \A k \in Bad : i <= k
    <3>1. Bad \in SUBSET Nat
          OBVIOUS
    <3> HIDE DEF Bad
    <3>q. QED  BY <3>1, LeastNumber
  <2>2. i # 0
        BY <1>4, <1>7
  <2>3. i \in 1 .. c /\ i - 1 \in 0 .. c /\ i \in 0 .. c /\ i - 1 \in Nat /\ ~(i <= i - 1)
        BY <1>1, <2>2
  <2>4. w[i - 1] = f[i - 1]
        BY <2>1, <2>3
  <2>5. w[i] = w[i - 1] + Length(combined[i])
        BY <1>7, <2>2, <2>3
  <2>6. w[i] # f[i]
        OBVIOUS
  <2>q. QED  BY <1>4, <2>3, <2>4, <2>5, <2>6
<1>9. w = f
  <2>1. DOMAIN w = 0 .. c /\ DOMAIN f = 0 .. c /\ w = [i \in 0 .. c |-> w[i]] /\ f = [i \in 0 .. c |-> f[i]]
        BY <1>4, <1>7
  <2>q. QED  BY <1>8, <2>1
<1>q. QED  BY <1>4, <1>6, <1>9 DEF c

\* A position, from the front or from the back, is one of one range.
LEMMA Positions ==
    ASSUME AreRanges(combined)
    PROVE  /\ Total[Len(combined)] \in Nat
           /\ \A i \in DOMAIN combined : \A k \in 0 .. Length(combined[i]) - 1 :
                /\ Total[i - 1] + k \in 0 .. Total[Len(combined)] - 1
                /\ GetItem(Total[i - 1] + k) = Item(combined[i], k)
                /\ GetItem(Total[i - 1] + k - Total[Len(combined)]) = Item(combined[i], k)
           /\ \A p \in 0 .. Total[Len(combined)] - 1 :
                \E i \in DOMAIN combined : p - Total[i - 1] \in 0 .. Length(combined[i]) - 1
<1> DEFINE c == Len(combined)
           T == Total
           L == [i \in 1 .. c |-> Length(combined[i])]
           n == Total[Len(combined)]
<1>1. c \in Nat /\ DOMAIN combined = 1 .. c
      BY LenProperties DEF AreRanges
<1>2. \A i \in 1 .. c : Length(combined[i]) \in Nat /\ Length(combined[i]) >= 1
      BY <1>1, ItemsDiffer DEF AreRanges
<1>3. T \in [0 .. c -> Nat] /\ T[0] = 0 /\ \A i \in 1 .. c : T[i] = T[i - 1] + Length(combined[i])
      BY TotalAdds
<1>4. /\ L \in [1 .. c -> Nat]
      /\ \A i \in 1 .. c : L[i] >= 1 /\ T[i] = T[i - 1] + L[i] /\ L[i] = Length(combined[i])
      BY <1>2, <1>3
<1>5. /\ \A i \in 1 .. c : \A k \in 0 .. L[i] - 1 :
           /\ {a \in 1 .. c : T[a] <= T[i - 1] + k} = 1 .. i - 1
           /\ T[i - 1] + k \in 0 .. T[c] - 1
      /\ \A p \in 0 .. T[c] - 1 : \E i \in 1 .. c : p - T[i - 1] \in 0 .. L[i] - 1
  <2>1. c \in Nat /\ T \in [0 .. c -> Nat] /\ L \in [1 .. c -> Nat] /\ T[0] = 0
        BY <1>1, <1>3, <1>4
  <2>2. \A i \in 1 .. c : L[i] >= 1 /\ T[i] = T[i - 1] + L[i]
        BY <1>4
  <2> HIDE DEF c, T, L
  <2>q. QED  BY <2>1, <2>2, Sums, ZenonT(30)
<1>6. n \in Nat /\ n = T[c] /\ n = Total[c]
      BY <1>1, <1>3
<1>7. ASSUME NEW i \in 1 .. c, NEW k \in 0 .. L[i] - 1
      PROVE  /\ T[i - 1] + k \in 0 .. n - 1
             /\ GetItem(T[i - 1] + k) = Item(combined[i], k)
             /\ GetItem(T[i - 1] + k - n) = Item(combined[i], k)
  <2> DEFINE p == T[i - 1] + k
             S == {a \in 1 .. c : T[a] <= p}
  <2>1. p \in 0 .. n - 1 /\ S = 1 .. i - 1
        BY <1>5, <1>6
  <2>2. Cardinality(S) = i - 1
    <3> HIDE DEF S
    <3>1. i - 1 \in Int /\ 1 \in Int /\ i - 1 >= 0
          BY <1>1
    <3>2. Cardinality(1 .. i - 1) = IF 1 > i - 1 THEN 0 ELSE i - 1 - 1 + 1
          BY <3>1, FS_Interval
    <3>q. QED  BY <2>1, <3>1, <3>2
  <2>3. i - 1 + 1 = i /\ T[i - 1] \in Nat /\ p - T[i - 1] = k
        BY <1>1, <1>3
  <2>4. p \in Int /\ ~(p < 0) /\ p - n \in Int /\ p - n < 0 /\ n + (p - n) = p
        BY <1>6, <2>1
  <2> HIDE DEF p
  <2>5. GetItem(p) = Item(combined[Cardinality(S) + 1], p - T[Cardinality(S)])
        BY <1>1, <2>4 DEF GetItem
  <2>6. GetItem(p - n) = Item(combined[Cardinality(S) + 1], p - T[Cardinality(S)])
        BY <1>1, <2>4 DEF GetItem
  <2>7. Item(combined[Cardinality(S) + 1], p - T[Cardinality(S)]) = Item(combined[i], k)
    <3> HIDE DEF S, T
    <3>q. QED  BY <2>2, <2>3 DEF p
  <2>8. GetItem(p) = Item(combined[i], k) /\ GetItem(p - n) = Item(combined[i], k)
    <3> HIDE DEF S, T, n
    <3>q. QED  BY <2>5, <2>6, <2>7
  <2>9. p = T[i - 1] + k
        BY DEF p
  <2>q1. T[i - 1] + k \in 0 .. n - 1
        BY <2>1, <2>9
  <2>q2. GetItem(T[i - 1] + k) = Item(combined[i], k)
        BY <2>8, <2>9
  <2>q3. GetItem(T[i - 1] + k - n) = Item(combined[i], k)
    <3>1. T[i - 1] + k - n = p - n
          BY <1>6, <2>3, <2>4, <2>9, SMTT(30)
    <3> HIDE DEF T, n
    <3>q. QED  BY <2>8, <3>1
  <2>q. QED  BY <2>q1, <2>q2, <2>q3
<1>q. QED  BY <1>1, <1>4, <1>5, <1>6, <1>7

\* Iteration meets every value of ascending ranges, once.
LEMMA Iterated ==
    ASSUME AreRanges(combined), Ascending(combined)
    PROVE  /\ Denoted = {GetItem(k) : k \in 0 .. Total[Len(combined)] - 1}
           /\ Total[Len(combined)] = Cardinality(Denoted)
<1> DEFINE n == Total[Len(combined)]
           P == 0 .. n - 1
           G == [k \in P |-> GetItem(k)]
<1>1. n \in Nat
      BY Positions
<1>2. ASSUME NEW i \in DOMAIN combined
      PROVE  /\ Canonical(combined[i]) /\ Length(combined[i]) \in Nat
             /\ \A k \in 0 .. Length(combined[i]) - 1 :
                  /\ Total[i - 1] + k \in P /\ G[Total[i - 1] + k] = Item(combined[i], k)
                  /\ combined[i].start <= Item(combined[i], k)
                  /\ Item(combined[i], k) <= combined[i].end
                  /\ Item(combined[i], k) \in Int
  <2>1. Canonical(combined[i])
        BY DEF AreRanges
  <2>2. Length(combined[i]) \in Nat
        BY <2>1, ItemsDiffer
  <2>3. \A v \in Elements(combined[i]) :
           v \in Int /\ combined[i].start <= v /\ v <= combined[i].end
        BY <2>1, ElementsOfRange
  <2>4. \A k \in 0 .. Length(combined[i]) - 1 : Item(combined[i], k) \in Elements(combined[i])
        BY DEF Elements
  <2>5. \A k \in 0 .. Length(combined[i]) - 1 :
           Total[i - 1] + k \in P /\ G[Total[i - 1] + k] = Item(combined[i], k)
        BY Positions
  <2>q. QED  BY <2>1, <2>2, <2>3, <2>4, <2>5
<1>3. ASSUME NEW p \in P
      PROVE  \E i \in DOMAIN combined : \E k \in 0 .. Length(combined[i]) - 1 :
               p = Total[i - 1] + k /\ G[p] = Item(combined[i], k)
  <2>1. PICK i \in DOMAIN combined : p - Total[i - 1] \in 0 .. Length(combined[i]) - 1
        BY Positions
  <2>2. Total[i - 1] \in Nat
    <3>1. Len(combined) \in Nat /\ DOMAIN combined = 1 .. Len(combined)
          BY LenProperties DEF AreRanges
    <3>2. i - 1 \in 0 .. Len(combined)
          BY <3>1
    <3>q. QED  BY <3>2, TotalAdds
  <2>3. p \in Int
        BY <1>1
  <2>4. p = Total[i - 1] + (p - Total[i - 1])
        BY <2>2, <2>3
  <2>q. QED  BY <1>2, <2>1, <2>4
<1> HIDE DEF n, P, G
<1>4. Denoted = {G[p] : p \in P}
  <2>1. ASSUME NEW v \in Denoted
        PROVE  \E p \in P : v = G[p]
    <3>1. PICK i \in DOMAIN combined : v \in Elements(combined[i])
          BY <2>1 DEF Denoted
    <3>2. PICK k \in 0 .. Length(combined[i]) - 1 : v = Item(combined[i], k)
          BY <3>1 DEF Elements
    <3>q. QED  BY <1>2, <3>2
  <2>2. ASSUME NEW p \in P
        PROVE  G[p] \in Denoted
    <3>1. PICK i \in DOMAIN combined : \E k \in 0 .. Length(combined[i]) - 1 : G[p] = Item(combined[i], k)
          BY <1>3
    <3>2. G[p] \in Elements(combined[i])
          BY <3>1 DEF Elements
    <3>q. QED  BY <3>2 DEF Denoted
  <2>q. QED  BY <2>1, <2>2
<1>5. ASSUME NEW p \in P, NEW q \in P, G[p] = G[q]
      PROVE  p = q
  <2>a. PICK i \in DOMAIN combined : \E k \in 0 .. Length(combined[i]) - 1 :
          p = Total[i - 1] + k /\ G[p] = Item(combined[i], k)
        BY <1>3
  <2>1. PICK k \in 0 .. Length(combined[i]) - 1 : p = Total[i - 1] + k /\ G[p] = Item(combined[i], k)
        BY <2>a
  <2>b. PICK j \in DOMAIN combined : \E l \in 0 .. Length(combined[j]) - 1 :
          q = Total[j - 1] + l /\ G[q] = Item(combined[j], l)
        BY <1>3
  <2>2. PICK l \in 0 .. Length(combined[j]) - 1 : q = Total[j - 1] + l /\ G[q] = Item(combined[j], l)
        BY <2>b
  <2>3. /\ combined[i].start <= G[p] /\ G[p] <= combined[i].end
        /\ combined[j].start <= G[p] /\ G[p] <= combined[j].end /\ G[p] \in Int
        BY <1>2, <1>5, <2>1, <2>2
  <2>4. /\ combined[i].start \in Int /\ combined[i].end \in Int
        /\ combined[j].start \in Int /\ combined[j].end \in Int
        BY <1>2 DEF Canonical, RangeType
  <2>5. ~(i < j) /\ ~(j < i)
    <3>1. i < j => combined[i].end < combined[j].start
          BY DEF Ascending
    <3>2. j < i => combined[j].end < combined[i].start
          BY DEF Ascending
    <3>q. QED  BY <2>3, <2>4, <3>1, <3>2
  <2>6. i = j
    <3>1. i \in Int /\ j \in Int
          BY LenProperties DEF AreRanges
    <3>q. QED  BY <2>5, <3>1
  <2>7. k = l
        BY <1>2, <1>5, <2>1, <2>2, <2>6, ItemsDiffer
  <2>q. QED  BY <2>1, <2>2, <2>6, <2>7
<1>6. G \in Bijection(P, Denoted)
  <2>1. G \in [P -> Denoted]
        BY <1>4 DEF G
  <2>2. \A p, q \in P : G[p] = G[q] => p = q
        BY <1>5
  <2>3. \A v \in Denoted : \E p \in P : G[p] = v
        BY <1>4
  <2>q. QED  BY <2>1, <2>2, <2>3, Fun_IsBij
<1>7. IsFiniteSet(P) /\ Cardinality(P) = n
  <2>1. IsFiniteSet(P) /\ Cardinality(P) = IF 0 > n - 1 THEN 0 ELSE n - 1 - 0 + 1
    <3>1. n - 1 \in Int /\ 0 \in Int
          BY <1>1
    <3>q. QED  BY <3>1, FS_Interval DEF P
  <2>q. QED  BY <1>1, <2>1
<1>8. Cardinality(Denoted) = n
  <2>1. ExistsBijection(P, Denoted)
        BY <1>6 DEF ExistsBijection
  <2>q. QED  BY <1>7, <2>1, FS_Bijection
<1>q. QED  BY <1>4, <1>8 DEF n, P, G

\* The bisection over the ends finds the one range that can have a value.
LEMMA Bisected ==
    ASSUME AreRanges(combined), Ascending(combined), NEW v \in Int
    PROVE  Contains(v) <=> v \in Denoted
<1> DEFINE c == Len(combined)
           S == {j \in DOMAIN combined : combined[j].end < v}
<1>1. c \in Nat /\ DOMAIN combined = 1 .. c
      BY LenProperties DEF AreRanges
<1>2. ASSUME NEW j \in 1 .. c
      PROVE  /\ combined[j].start \in Int /\ combined[j].end \in Int
             /\ combined[j].start <= combined[j].end
             /\ \A x \in Elements(combined[j]) : x \in Int /\ combined[j].start <= x /\ x <= combined[j].end
  <2>1. Canonical(combined[j])
        BY <1>1 DEF AreRanges
  <2>q. QED  BY <2>1, ElementsOfRange DEF Canonical, RangeType
<1>3. Cardinality(S) \in Nat
  <2>1. IsFiniteSet(1 .. c)
        BY <1>1, FS_Interval
  <2>2. S \in SUBSET (1 .. c)
        BY <1>1
  <2> HIDE DEF S, c
  <2>3. IsFiniteSet(S)
        BY <2>1, <2>2, FS_Subset
  <2>q. QED  BY <2>3, FS_CardinalityType
<1>4. Contains(v) => v \in Denoted
  <2> HIDE DEF S
  <2> SUFFICES ASSUME 1 + Cardinality(S) <= c, v \in Elements(combined[1 + Cardinality(S)])
               PROVE  v \in Denoted
      BY DEF Contains, S
  <2>1. 1 + Cardinality(S) \in DOMAIN combined
        BY <1>1, <1>3
  <2>q. QED  BY <2>1 DEF Denoted
<1>5. ASSUME NEW a \in 1 .. c, v \in Elements(combined[a])
      PROVE  Contains(v)
  <2>1. combined[a].start <= v /\ v <= combined[a].end /\ combined[a].start \in Int /\ combined[a].end \in Int
        BY <1>2, <1>5
  <2>2. ASSUME NEW j \in 1 .. c
        PROVE  combined[j].end < v <=> j <= a - 1
    <3>1. combined[j].start \in Int /\ combined[j].end \in Int /\ combined[j].start <= combined[j].end
          BY <1>2
    <3>2. j < a => combined[j].end < combined[a].start
          BY <1>1 DEF Ascending
    <3>3. a < j => combined[a].end < combined[j].start
          BY <1>1 DEF Ascending
    <3>4. j < a => combined[j].end < v
          BY <2>1, <3>1, <3>2
    <3>5. a < j => ~(combined[j].end < v)
          BY <2>1, <3>1, <3>3
    <3>6. a = j => ~(combined[j].end < v)
          BY <2>1
    <3>7. (j <= a - 1 <=> j < a) /\ (j < a \/ a < j \/ a = j) /\ ~(j < a /\ a < j)
          BY <1>1
    <3>q. QED  BY <3>4, <3>5, <3>6, <3>7
  <2>3. S = 1 .. a - 1
    <3>1. \A j : j \in 1 .. a - 1 <=> j \in 1 .. c /\ j <= a - 1
          BY <1>1
    <3>2. \A j : j \in S <=> j \in 1 .. a - 1
          BY <1>1, <2>2, <3>1
    <3>q. QED  BY <3>2
  <2>4. Cardinality(S) = a - 1
    <3> HIDE DEF S
    <3>1. a - 1 \in Int /\ 1 \in Int /\ a - 1 >= 0
          BY <1>1
    <3>2. Cardinality(1 .. a - 1) = IF 1 > a - 1 THEN 0 ELSE a - 1 - 1 + 1
          BY <3>1, FS_Interval
    <3>q. QED  BY <2>3, <3>1, <3>2
  <2>5. 1 + (a - 1) = a /\ a <= c
        BY <1>1
  <2> HIDE DEF S
  <2>6. 1 + Cardinality(S) = a
        BY <2>4, <2>5
  <2>q. QED  BY <1>5, <2>5, <2>6 DEF Contains, S
<1>q. QED  BY <1>1, <1>4, <1>5 DEF Denoted

\* The length, the values by position from either end, the iteration and the
\* containment of an expression are of one set.
THEOREM LookupsDoAgree == Spec => []LookupsAgree
<1>1. Inv => LookupsAgree
  <2> SUFFICES ASSUME Inv, phase = "built"
               PROVE  LookupsAgree
      BY DEF LookupsAgree
  <2>1. AreRanges(combined) /\ Ascending(combined) /\ combined # <<>>
        BY BuiltDenotes DEF Inv
  <2>2. /\ Total[Len(combined)] = Cardinality(Denoted)
        /\ Denoted = {GetItem(k) : k \in 0 .. Total[Len(combined)] - 1}
        BY <2>1, Iterated
  <2>3. \A i \in DOMAIN combined : \A k \in 0 .. Length(combined[i]) - 1 :
          /\ GetItem(Total[i - 1] + k) = Item(combined[i], k)
          /\ GetItem(Total[i - 1] + k - Total[Len(combined)]) = Item(combined[i], k)
        BY <2>1, Positions
  <2>4. \A v \in Int : Contains(v) <=> v \in Denoted
        BY <2>1, Bisected
  <2>5. combined[1].start - 1 .. combined[Len(combined)].end + 1 \subseteq Int
        OBVIOUS
  <2>q. QED  BY <2>2, <2>3, <2>4, <2>5 DEF LookupsAgree
<1>q. QED  BY <1>1, RangesInv, PTL

----------------------------------------------------------------------------
(* The grammar: one element. *)

\* A number, with its sign or without, between two positions of a text.
NumberAt(w, a, i) ==
    /\ i <= Len(w) + 1
    /\ \/ i = a + 2 /\ w[a + 1].kind = "number"
       \/ i = a + 3 /\ w[a + 1].kind = "hyphen" /\ w[a + 2].kind = "number"
ValueAt(w, a, i) == IF i = a + 2 THEN w[a + 1].value ELSE -w[a + 2].value

\* The tokens between two positions.
LEMMA PartOf ==
    ASSUME NEW w \in Seq(TokenType), NEW a \in 0 .. Len(w), NEW i \in 1 .. Len(w) + 1
    PROVE  /\ Part(w, a, i) \in Seq(TokenType)
           /\ Len(Part(w, a, i)) = IF a < i THEN i - 1 - a ELSE 0
           /\ \A k \in 1 .. i - 1 - a : Part(w, a, i)[k] = w[a + k]
<1>1. Len(w) \in Nat /\ \A k \in 1 .. Len(w) : w[k] \in TokenType
      OBVIOUS
<1>2. a + 1 \in Int /\ i - 1 \in Int /\ \A k \in a + 1 .. i - 1 : w[k] \in TokenType
      BY <1>1
<1>3. /\ SubSeq(w, a + 1, i - 1) \in Seq(TokenType)
      /\ Len(SubSeq(w, a + 1, i - 1)) = IF a + 1 <= i - 1 THEN i - 1 - (a + 1) + 1 ELSE 0
      /\ \A k \in 1 .. i - 1 - (a + 1) + 1 : SubSeq(w, a + 1, i - 1)[k] = w[a + 1 + k - 1]
      BY <1>2, SubSeqProperties
<1>4. i - 1 - (a + 1) + 1 = i - 1 - a /\ (a + 1 <= i - 1 => a < i)
      /\ (~(a + 1 <= i - 1) /\ a < i => i - 1 - a = 0)
      BY <1>1
<1>5. \A k \in 1 .. i - 1 - a : a + 1 + k - 1 = a + k
      BY <1>1
<1>q. QED  BY <1>3, <1>4, <1>5 DEF Part

\* The tokens between two positions are a number exactly if one is there.
LEMMA NumberBetween ==
    ASSUME NEW w \in Seq(TokenType), NEW a \in 0 .. Len(w), NEW i \in 1 .. Len(w) + 1
    PROVE  /\ IsNumber(Part(w, a, i)) <=> NumberAt(w, a, i)
           /\ NumberAt(w, a, i) => NumberOf(Part(w, a, i)) = ValueAt(w, a, i)
<1> DEFINE s == Part(w, a, i)
<1>1. /\ s \in Seq(TokenType) /\ Len(s) = IF a < i THEN i - 1 - a ELSE 0
      /\ \A k \in 1 .. i - 1 - a : s[k] = w[a + k]
      BY PartOf
<1>2. Len(w) \in Nat /\ a \in Nat /\ i \in Nat /\ i <= Len(w) + 1
      OBVIOUS
<1> HIDE DEF s
<1>3. CASE i = a + 2
  <2>1. Len(s) = 1 /\ s[1] = w[a + 1] /\ ~(i = a + 3)
        BY <1>1, <1>2, <1>3
  <2>2. IsNumber(s) <=> s[1].kind = "number"
        BY <2>1 DEF IsNumber
  <2>3. NumberOf(s) = s[1].value
        BY <2>1 DEF NumberOf
  <2>4. NumberAt(w, a, i) <=> w[a + 1].kind = "number"
        BY <1>2, <1>3, <2>1 DEF NumberAt
  <2>5. ValueAt(w, a, i) = w[a + 1].value
        BY <1>3 DEF ValueAt
  <2>q. QED  BY <2>1, <2>2, <2>3, <2>4, <2>5 DEF s
<1>4. CASE i = a + 3
  <2>1. Len(s) = 2 /\ s[1] = w[a + 1] /\ s[2] = w[a + 2] /\ ~(i = a + 2)
        BY <1>1, <1>2, <1>4
  <2>q. QED  BY <1>2, <1>4, <2>1 DEF IsNumber, NumberOf, NumberAt, ValueAt, s
<1>5. CASE i # a + 2 /\ i # a + 3
  <2>1. ~(Len(s) \in 1 .. 2)
        BY <1>1, <1>2, <1>5
  <2>q. QED  BY <1>5, <2>1 DEF IsNumber, NumberAt, s
<1>q. QED  BY <1>3, <1>4, <1>5

\* A number has one end.
LEMMA OneEnd ==
    ASSUME NEW w, NEW a, NEW i, NEW j, NumberAt(w, a, i), NumberAt(w, a, j)
    PROVE  i = j
BY DEF NumberAt

\* A reading of an element.
ReadAs(w, x) ==
    LET z == Len(w) + 1
    IN  \/ /\ NumberAt(w, 0, z)
           /\ x = <<ValueAt(w, 0, z), ValueAt(w, 0, z), 1>>
        \/ \E i \in DOMAIN w :
             /\ w[i].kind = "hyphen" /\ NumberAt(w, 0, i) /\ NumberAt(w, i, z)
             /\ x = <<ValueAt(w, 0, i), ValueAt(w, i, z), 1>>
        \/ \E i, j \in DOMAIN w :
             /\ w[i].kind = "hyphen" /\ w[j].kind = "colon"
             /\ NumberAt(w, 0, i) /\ NumberAt(w, i, j) /\ NumberAt(w, j, z)
             /\ x = <<ValueAt(w, 0, i), ValueAt(w, i, j), ValueAt(w, j, z)>>
LEMMA ReadingsAre ==
    ASSUME NEW w \in Seq(TokenType), NEW x
    PROVE  x \in Readings(w) <=> ReadAs(w, x)
<1> DEFINE z == Len(w) + 1
           N(i, j) == IsNumber(Part(w, i, j))
           V(i, j) == NumberOf(Part(w, i, j))
           M(i, j) == NumberAt(w, i, j)
           U(i, j) == ValueAt(w, i, j)
           At(kind) == {i \in DOMAIN w : w[i].kind = kind}
<1>1. z \in 1 .. Len(w) + 1 /\ 0 \in 0 .. Len(w) /\ DOMAIN w \subseteq 1 .. Len(w) + 1
      /\ DOMAIN w \subseteq 0 .. Len(w)
      OBVIOUS
<1>2. \A i \in 0 .. Len(w), j \in 1 .. Len(w) + 1 : (N(i, j) <=> M(i, j)) /\ (M(i, j) => V(i, j) = U(i, j))
      BY NumberBetween
<1>3. x \in Readings(w) <=>
        \/ N(0, z) /\ x = <<V(0, z), V(0, z), 1>>
        \/ \E i \in At("hyphen") : N(0, i) /\ N(i, z) /\ x = <<V(0, i), V(i, z), 1>>
        \/ \E i \in At("hyphen"), j \in At("colon") :
             N(0, i) /\ N(i, j) /\ N(j, z) /\ x = <<V(0, i), V(i, j), V(j, z)>>
  <2> HIDE DEF N, V, At
  <2>1. Readings(w) =
          (IF N(0, z) THEN {<<V(0, z), V(0, z), 1>>} ELSE {})
          \cup {<<V(0, i), V(i, z), 1>> : i \in {k \in At("hyphen") : N(0, k) /\ N(k, z)}}
          \cup {<<V(0, p[1]), V(p[1], p[2]), V(p[2], z)>> :
                   p \in {q \in At("hyphen") \X At("colon") : N(0, q[1]) /\ N(q[1], q[2]) /\ N(q[2], z)}}
        BY DEF Readings, N, V, At
  <2> DEFINE P == {q \in At("hyphen") \X At("colon") : N(0, q[1]) /\ N(q[1], q[2]) /\ N(q[2], z)}
             R(p) == <<V(0, p[1]), V(p[1], p[2]), V(p[2], z)>>
  <2>2. ASSUME NEW p \in P
        PROVE  \E i \in At("hyphen"), j \in At("colon") :
                 N(0, i) /\ N(i, j) /\ N(j, z) /\ R(p) = <<V(0, i), V(i, j), V(j, z)>>
        OBVIOUS
  <2>3. ASSUME NEW i \in At("hyphen"), NEW j \in At("colon"), N(0, i), N(i, j), N(j, z)
        PROVE  \E p \in P : R(p) = <<V(0, i), V(i, j), V(j, z)>>
    <3>1. <<i, j>> \in P /\ R(<<i, j>>) = <<V(0, i), V(i, j), V(j, z)>>
          BY <2>3
    <3> HIDE DEF P, R
    <3>q. QED  BY <3>1
  <2>4. (\E p \in P : x = R(p)) <=>
          \E i \in At("hyphen"), j \in At("colon") :
             N(0, i) /\ N(i, j) /\ N(j, z) /\ x = <<V(0, i), V(i, j), V(j, z)>>
    <3> HIDE DEF P, R
    <3>q. QED  BY <2>2, <2>3
  <2>5. x \in Readings(w) <=>
          \/ N(0, z) /\ x = <<V(0, z), V(0, z), 1>>
          \/ \E i \in At("hyphen") : N(0, i) /\ N(i, z) /\ x = <<V(0, i), V(i, z), 1>>
          \/ \E p \in P : x = R(p)
        BY <2>1
  <2> HIDE DEF P, R
  <2>q. QED  BY <2>4, <2>5
<1>4. ReadAs(w, x) <=>
        \/ M(0, z) /\ x = <<U(0, z), U(0, z), 1>>
        \/ \E i \in At("hyphen") : M(0, i) /\ M(i, z) /\ x = <<U(0, i), U(i, z), 1>>
        \/ \E i \in At("hyphen"), j \in At("colon") :
             M(0, i) /\ M(i, j) /\ M(j, z) /\ x = <<U(0, i), U(i, j), U(j, z)>>
      BY DEF ReadAs
<1>5. \A kind : At(kind) \subseteq 0 .. Len(w) /\ At(kind) \subseteq 1 .. Len(w) + 1
      BY <1>1
<1> HIDE DEF N, V, M, U, At, z
<1>6. N(0, z) <=> M(0, z)
      BY <1>1, <1>2
<1>q. QED  BY <1>1, <1>2, <1>3, <1>4, <1>5, <1>6

\* The first k numbers of an element are these and end in front of e, where
\* there is the separator before one more number.
EndAt(w, k, e, ns) ==
    \/ k = 0 /\ e = 0
    \/ k = 1 /\ NumberAt(w, 0, e) /\ ns[1] = ValueAt(w, 0, e)
    \/ /\ k = 2
       /\ \E i \in DOMAIN w :
            /\ w[i].kind = "hyphen" /\ NumberAt(w, 0, i) /\ NumberAt(w, i, e)
            /\ ns[1] = ValueAt(w, 0, i) /\ ns[2] = ValueAt(w, i, e)
    \/ /\ k = 3
       /\ \E i, j \in DOMAIN w :
            /\ w[i].kind = "hyphen" /\ w[j].kind = "colon"
            /\ NumberAt(w, 0, i) /\ NumberAt(w, i, j) /\ NumberAt(w, j, e)
            /\ ns[1] = ValueAt(w, 0, i) /\ ns[2] = ValueAt(w, i, j) /\ ns[3] = ValueAt(w, j, e)
Separates(w, k, e) ==
    \/ k = 0
    \/ k = 1 /\ e \in DOMAIN w /\ w[e].kind = "hyphen"
    \/ k = 2 /\ e \in DOMAIN w /\ w[e].kind = "colon"

\* An element that is over has one reading.
LEMMA OneReading ==
    ASSUME NEW w \in Seq(TokenType), NEW ns \in Seq(Int), Len(ns) \in 1 .. 3,
           EndAt(w, Len(ns), Len(w) + 1, ns)
    PROVE  Readings(w) = {<<ns[1], StopOf(ns), StepOf(ns)>>}
<1> DEFINE z == Len(w) + 1  y == <<ns[1], StopOf(ns), StepOf(ns)>>
<1>1. z \notin DOMAIN w
      BY LenProperties
<1>2. \A i, j : NumberAt(w, 0, i) /\ NumberAt(w, 0, j) => i = j
      BY OneEnd
<1>3. \A a, i, j : NumberAt(w, a, i) /\ NumberAt(w, a, j) => i = j
      BY OneEnd
<1>4. \A x : ReadAs(w, x) <=> x = y
  <2>1. CASE Len(ns) = 1
    <3>1. NumberAt(w, 0, z) /\ ns[1] = ValueAt(w, 0, z) /\ y = <<ns[1], ns[1], 1>>
          BY <2>1 DEF EndAt, StopOf, StepOf
    <3> HIDE DEF y, z
    <3>q. QED  BY <1>1, <1>3, <3>1 DEF ReadAs, z
  <2>2. CASE Len(ns) = 2
    <3>1. PICK i \in DOMAIN w :
            /\ w[i].kind = "hyphen" /\ NumberAt(w, 0, i) /\ NumberAt(w, i, z)
            /\ ns[1] = ValueAt(w, 0, i) /\ ns[2] = ValueAt(w, i, z)
          BY <2>2 DEF EndAt
    <3>2. y = <<ns[1], ns[2], 1>>
          BY <2>2 DEF StopOf, StepOf
    <3> HIDE DEF y, z
    <3>3. i # z
          BY <1>1
    <3>q. QED  BY <1>1, <1>3, <3>1, <3>2, <3>3 DEF ReadAs, z
  <2>3. CASE Len(ns) = 3
    <3>1. PICK i \in DOMAIN w, j \in DOMAIN w :
            /\ w[i].kind = "hyphen" /\ w[j].kind = "colon"
            /\ NumberAt(w, 0, i) /\ NumberAt(w, i, j) /\ NumberAt(w, j, z)
            /\ ns[1] = ValueAt(w, 0, i) /\ ns[2] = ValueAt(w, i, j) /\ ns[3] = ValueAt(w, j, z)
          BY <2>3 DEF EndAt
    <3>2. y = <<ns[1], ns[2], ns[3]>>
          BY <2>3 DEF StopOf, StepOf
    <3> HIDE DEF y, z
    <3>3. i # z /\ j # z
          BY <1>1
    <3>q. QED  BY <1>1, <1>3, <3>1, <3>2, <3>3 DEF ReadAs, z
  <2>q. QED  BY <2>1, <2>2, <2>3
<1>q. QED  BY <1>4, ReadingsAre

\* An element that cannot go on has none.
LEMMA NoReading ==
    ASSUME NEW w \in Seq(TokenType), NEW k \in 0 .. 3, NEW e \in 0 .. Len(w), NEW ns,
           EndAt(w, k, e, ns), ~Separates(w, k, e) \/ \A i : ~NumberAt(w, e, i)
    PROVE  Readings(w) = {}
<1> DEFINE z == Len(w) + 1
<1>1. z \notin DOMAIN w /\ e # z
      BY LenProperties
<1>2. \A a, i, j : NumberAt(w, a, i) /\ NumberAt(w, a, j) => i = j
      BY OneEnd
<1>3. \A i \in DOMAIN w : i # z
      BY <1>1
<1>4. ASSUME NEW x, ReadAs(w, x)
      PROVE  FALSE
  <2> HIDE DEF z
  <2>1. CASE k = 0
        BY <1>4, <2>1 DEF ReadAs, EndAt, Separates
  <2>2. CASE k = 1
    <3>1. NumberAt(w, 0, e)
          BY <2>2 DEF EndAt
    <3>2. ~NumberAt(w, 0, z)
          BY <1>1, <1>2, <3>1
    <3>3. PICK i \in DOMAIN w :
            w[i].kind = "hyphen" /\ NumberAt(w, 0, i) /\ \E j : NumberAt(w, i, j)
          BY <1>4, <3>2 DEF ReadAs, z
    <3>4. i = e
          BY <1>2, <3>1, <3>3
    <3>5. Separates(w, k, e)
          BY <2>2, <3>3, <3>4 DEF Separates
    <3>6. \E j : NumberAt(w, e, j)
          BY <3>3, <3>4
    <3>q. QED  BY <3>5, <3>6
  <2>3. CASE k = 2
    <3>1. PICK i \in DOMAIN w : NumberAt(w, 0, i) /\ NumberAt(w, i, e)
          BY <2>3 DEF EndAt
    <3>q. QED  BY <1>1, <1>2, <1>3, <1>4, <2>3, <3>1 DEF ReadAs, Separates, z
  <2>4. CASE k = 3
    <3>1. PICK i \in DOMAIN w, j \in DOMAIN w : NumberAt(w, 0, i) /\ NumberAt(w, i, j) /\ NumberAt(w, j, e)
          BY <2>4 DEF EndAt
    <3>q. QED  BY <1>1, <1>2, <1>3, <1>4, <2>4, <3>1 DEF ReadAs, z
  <2>q. QED  BY <2>1, <2>2, <2>3, <2>4
<1>q. QED  BY <1>4, ReadingsAre

\* One more token leaves the numbers that have ended, and may end another one.
LEMMA MoreNumbers ==
    ASSUME NEW w \in Seq(TokenType), NEW t \in TokenType, NEW k \in 0 .. 3, NEW e \in 0 .. Len(w) + 1,
           NEW ns \in Seq(Int), Len(ns) = k, EndAt(w, k, e, ns)
    PROVE  /\ EndAt(Append(w, t), k, e, ns)
           /\ \A v \in Int :
                /\ k # 3 /\ Separates(w, k, e) /\ NumberAt(Append(w, t), e, Len(w) + 2)
                /\ v = ValueAt(Append(w, t), e, Len(w) + 2)
                => EndAt(Append(w, t), k + 1, Len(w) + 2, Append(ns, v))
<1> DEFINE u == Append(w, t)  n == Len(w)
<1>1. /\ u \in Seq(TokenType) /\ Len(u) = n + 1 /\ n \in Nat /\ DOMAIN w = 1 .. n /\ DOMAIN u = 1 .. n + 1
      /\ \A i \in 1 .. n : u[i] = w[i]
      BY AppendProperties, LenProperties
<1>2. DOMAIN w \subseteq DOMAIN u /\ \A i \in DOMAIN w : u[i] = w[i]
      BY <1>1
<1>3. \A a \in 0 .. n + 1 : \A i \in 0 .. n + 1 :
        NumberAt(w, a, i) => NumberAt(u, a, i) /\ ValueAt(u, a, i) = ValueAt(w, a, i)
  <2> HIDE DEF u, n
  <2>1. ASSUME NEW a \in 0 .. n + 1, NEW i \in 0 .. n + 1, NumberAt(w, a, i)
        PROVE  NumberAt(u, a, i) /\ ValueAt(u, a, i) = ValueAt(w, a, i)
    <3>1. CASE i = a + 2
      <4>1. a + 1 \in 1 .. n /\ i # a + 3
            BY <1>1, <3>1
      <4>2. u[a + 1] = w[a + 1] /\ i <= Len(u) + 1
            BY <1>1, <4>1
      <4>q. QED  BY <2>1, <3>1, <4>1, <4>2 DEF NumberAt, ValueAt
    <3>2. CASE i = a + 3
      <4>1. a + 1 \in 1 .. n /\ a + 2 \in 1 .. n /\ i # a + 2
            BY <1>1, <3>2
      <4>2. u[a + 1] = w[a + 1] /\ u[a + 2] = w[a + 2] /\ i <= Len(u) + 1
            BY <1>1, <4>1
      <4>q. QED  BY <2>1, <3>2, <4>1, <4>2 DEF NumberAt, ValueAt
    <3>q. QED  BY <2>1, <3>1, <3>2 DEF NumberAt
  <2>q. QED  BY <2>1
<1>4. DOMAIN w \subseteq 0 .. n + 1 /\ 0 \in 0 .. n + 1 /\ e \in 0 .. n + 1
      BY <1>1
<1> HIDE DEF u, n
<1>5. EndAt(u, k, e, ns)
  <2>1. CASE k = 0
        BY <2>1 DEF EndAt
  <2>2. CASE k = 1
        BY <1>3, <1>4, <2>2 DEF EndAt
  <2>3. CASE k = 2
    <3>1. PICK i \in DOMAIN w :
            /\ w[i].kind = "hyphen" /\ NumberAt(w, 0, i) /\ NumberAt(w, i, e)
            /\ ns[1] = ValueAt(w, 0, i) /\ ns[2] = ValueAt(w, i, e)
          BY <2>3 DEF EndAt
    <3>q. QED  BY <1>2, <1>3, <1>4, <2>3, <3>1 DEF EndAt
  <2>4. CASE k = 3
    <3>1. PICK i \in DOMAIN w, j \in DOMAIN w :
            /\ w[i].kind = "hyphen" /\ w[j].kind = "colon"
            /\ NumberAt(w, 0, i) /\ NumberAt(w, i, j) /\ NumberAt(w, j, e)
            /\ ns[1] = ValueAt(w, 0, i) /\ ns[2] = ValueAt(w, i, j) /\ ns[3] = ValueAt(w, j, e)
          BY <2>4 DEF EndAt
    <3>q. QED  BY <1>2, <1>3, <1>4, <2>4, <3>1 DEF EndAt
  <2>q. QED  BY <2>1, <2>2, <2>3, <2>4
<1>6. ASSUME NEW v \in Int, k # 3, Separates(w, k, e), NumberAt(u, e, n + 2), v = ValueAt(u, e, n + 2)
      PROVE  EndAt(u, k + 1, n + 2, Append(ns, v))
  <2>1. /\ \A i \in 1 .. k : Append(ns, v)[i] = ns[i]
        /\ Append(ns, v)[k + 1] = v
        BY <1>6
  <2>2. CASE k = 0
        BY <1>6, <2>1, <2>2 DEF EndAt
  <2>3. CASE k = 1
    <3>1. e \in DOMAIN w /\ w[e].kind = "hyphen" /\ NumberAt(w, 0, e) /\ ns[1] = ValueAt(w, 0, e)
          BY <1>6, <2>3 DEF EndAt, Separates
    <3>2. Append(ns, v)[1] = ns[1] /\ Append(ns, v)[2] = v
      <4>1. 1 \in 1 .. k /\ k + 1 = 2
            BY <2>3
      <4>q. QED  BY <2>1, <4>1
    <3>3. e \in DOMAIN u /\ u[e].kind = "hyphen" /\ NumberAt(u, 0, e) /\ ns[1] = ValueAt(u, 0, e)
          BY <1>2, <1>3, <1>4, <3>1
    <3>4. EndAt(u, 2, n + 2, Append(ns, v))
          BY <1>6, <3>2, <3>3 DEF EndAt
    <3>5. k + 1 = 2
          BY <2>3
    <3>q. QED  BY <3>4, <3>5
  <2>4. CASE k = 2
    <3>1. e \in DOMAIN w /\ w[e].kind = "colon"
          BY <1>6, <2>4 DEF Separates
    <3>2. PICK i \in DOMAIN w :
            /\ w[i].kind = "hyphen" /\ NumberAt(w, 0, i) /\ NumberAt(w, i, e)
            /\ ns[1] = ValueAt(w, 0, i) /\ ns[2] = ValueAt(w, i, e)
          BY <2>4 DEF EndAt
    <3>3. Append(ns, v)[1] = ns[1] /\ Append(ns, v)[2] = ns[2] /\ Append(ns, v)[3] = v
      <4>1. 1 \in 1 .. k /\ 2 \in 1 .. k /\ k + 1 = 3
            BY <2>4
      <4>q. QED  BY <2>1, <4>1
    <3>4. /\ u[i].kind = "hyphen" /\ NumberAt(u, 0, i) /\ NumberAt(u, i, e)
          /\ ns[1] = ValueAt(u, 0, i) /\ ns[2] = ValueAt(u, i, e) /\ u[e].kind = "colon"
          /\ i \in DOMAIN u /\ e \in DOMAIN u
          BY <1>2, <1>3, <1>4, <3>1, <3>2
    <3>5. EndAt(u, 3, n + 2, Append(ns, v))
          BY <1>6, <3>3, <3>4 DEF EndAt
    <3>6. k + 1 = 3
          BY <2>4
    <3>q. QED  BY <3>5, <3>6
  <2>q. QED  BY <1>6, <2>2, <2>3, <2>4
<1>q. QED  BY <1>5, <1>6 DEF u, n

----------------------------------------------------------------------------
(* The grammar: the elements of a text. *)

\* The last comma of a text, or its beginning.
LastComma(s, b) ==
    /\ b \in 0 .. Len(s) /\ (b = 0 \/ s[b].kind = "comma")
    /\ \A i \in DOMAIN s : s[i].kind = "comma" => i <= b

\* The element that follows it, and those before.
LastPiece(s, b) == <<b, Part(s, b, Len(s) + 1)>>
Leads(s, i, j) == i \in Ends(s) /\ j \in Ends(s) /\ i < j /\ \A k \in Ends(s) : k <= i \/ j <= k
Early(s, b) == {p \in Pieces(s) : p[1] < b}

\* Every comma of a text, and its beginning, has one element after it.
LEMMA PiecesAre ==
    ASSUME NEW s \in Seq(TokenType), NEW p
    PROVE  p \in Pieces(s) <=> \E i, j \in 0 .. Len(s) + 1 : Leads(s, i, j) /\ p = <<i, Part(s, i, j)>>
<1> DEFINE z == Len(s) + 1
           Next1(i, j) == j \in Ends(s) /\ i < j /\ \A k \in Ends(s) : k <= i \/ j <= k
           To(i) == CHOOSE j \in Ends(s) : i < j /\ \A k \in Ends(s) : k <= i \/ j <= k
<1>1. Len(s) \in Nat /\ DOMAIN s = 1 .. Len(s)
      BY LenProperties
<1>2. Ends(s) \subseteq 0 .. z /\ Ends(s) \subseteq Nat /\ z \in Ends(s) /\ \A i \in Ends(s) : i <= z
      BY <1>1 DEF Ends
<1>3. ASSUME NEW i \in Ends(s), i # z
      PROVE  Next1(i, To(i))
  <2> DEFINE S == {j \in Nat : j \in Ends(s) /\ i < j}
  <2>1. z \in S /\ S \in SUBSET Nat
        BY <1>2, <1>3
  <2>2. PICK j \in S : \A k \in S : j <= k
    <3> HIDE DEF S
    <3>q. QED  BY <2>1, LeastNumber
  <2>3. j \in Ends(s) /\ i < j
        OBVIOUS
  <2>4. \A k \in Ends(s) : k <= i \/ j <= k
        BY <1>2, <2>2
  <2>q. QED  BY <2>3, <2>4
<1>4. \A i \in Ends(s) : \A j \in Ends(s) : \A k \in Ends(s) : Next1(i, j) /\ Next1(i, k) => j = k
      BY <1>2
<1>5. Pieces(s) = {<<i, Part(s, i, To(i))>> : i \in Ends(s) \ {z}}
      BY DEF Pieces
<1>6. \A i, j : Leads(s, i, j) <=> i \in Ends(s) /\ Next1(i, j)
      BY DEF Leads
<1>7. \A i, j : Leads(s, i, j) => i \in 0 .. z /\ j \in 0 .. z /\ i # z
      BY <1>2, <1>6
<1>8. \A i, j : Leads(s, i, j) => j = To(i)
      BY <1>3, <1>4, <1>6, <1>7
<1> HIDE DEF z, Next1, To
<1>9. p \in Pieces(s) => \E i, j \in 0 .. z : Leads(s, i, j) /\ p = <<i, Part(s, i, j)>>
  <2> SUFFICES ASSUME p \in Pieces(s)
               PROVE  \E i, j \in 0 .. z : Leads(s, i, j) /\ p = <<i, Part(s, i, j)>>
      OBVIOUS
  <2>1. PICK i \in Ends(s) \ {z} : p = <<i, Part(s, i, To(i))>>
        BY <1>5
  <2>2. Leads(s, i, To(i))
        BY <1>3, <1>6
  <2>q. QED  BY <1>7, <2>1, <2>2
<1>10. ASSUME NEW i, NEW j, Leads(s, i, j), p = <<i, Part(s, i, j)>>
       PROVE  p \in Pieces(s)
  <2>1. i \in Ends(s) \ {z} /\ j = To(i)
        BY <1>6, <1>7, <1>8, <1>10
  <2>q. QED  BY <1>5, <1>10, <2>1
<1>q. QED  BY <1>9, <1>10 DEF z

\* The elements of a text are the last one and those before it.
LEMMA PiecesSplit ==
    ASSUME NEW s \in Seq(TokenType), NEW b, LastComma(s, b)
    PROVE  /\ Pieces(s) = Early(s, b) \cup {LastPiece(s, b)}
           /\ LastPiece(s, b) \notin Early(s, b)
           /\ \A p : p \in Early(s, b) <=>
                 \E i, j \in 0 .. b : Leads(s, i, j) /\ p = <<i, Part(s, i, j)>>
<1> DEFINE z == Len(s) + 1
<1>1. Len(s) \in Nat /\ DOMAIN s = 1 .. Len(s) /\ b \in 0 .. Len(s) /\ b \in Nat /\ z \in Nat /\ b < z
      BY LenProperties DEF LastComma
<1>2. \A i : i \in Ends(s) <=> i = 0 \/ i = z \/ (i \in DOMAIN s /\ s[i].kind = "comma")
      BY DEF Ends
<1>3. b \in Ends(s) /\ z \in Ends(s) /\ \A i \in Ends(s) : i \in Nat /\ (i <= b \/ i = z)
      BY <1>1, <1>2 DEF LastComma
<1>4. Leads(s, b, z)
      BY <1>1, <1>3 DEF Leads
<1>5. \A i, j : Leads(s, i, j) => i \in Nat /\ j \in Nat /\ i < j /\ j <= z /\ (i < b => j <= b) /\ (~(i < b) => i = b /\ j = z)
      BY <1>1, <1>3 DEF Leads
<1> HIDE DEF z
<1>6. LastPiece(s, b) \in Pieces(s) /\ LastPiece(s, b)[1] = b
  <2>1. LastPiece(s, b) = <<b, Part(s, b, z)>>
        BY DEF LastPiece, z
  <2>2. b \in 0 .. z /\ z \in 0 .. z
        BY <1>1
  <2>q. QED  BY <1>4, <2>1, <2>2, PiecesAre DEF z
<1>7. ASSUME NEW p \in Pieces(s)
      PROVE  /\ p[1] < b \/ p = LastPiece(s, b)
             /\ p[1] < b => \E i, j \in 0 .. b : Leads(s, i, j) /\ p = <<i, Part(s, i, j)>>
  <2>1. PICK i, j \in 0 .. z : Leads(s, i, j) /\ p = <<i, Part(s, i, j)>>
        BY PiecesAre DEF z
  <2>2. p[1] = i
        BY <2>1
  <2>3. CASE i < b
    <3>1. i \in 0 .. b /\ j \in 0 .. b
          BY <1>1, <1>5, <2>1, <2>3
    <3>q. QED  BY <2>1, <2>2, <2>3, <3>1
  <2>4. CASE ~(i < b)
    <3>1. i = b /\ j = z
          BY <1>5, <2>1, <2>4
    <3>2. p = LastPiece(s, b)
          BY <2>1, <3>1 DEF LastPiece, z
    <3>q. QED  BY <2>2, <2>4, <3>2
  <2>q. QED  BY <2>3, <2>4
<1>8. ASSUME NEW i \in 0 .. b, NEW j \in 0 .. b, Leads(s, i, j)
      PROVE  <<i, Part(s, i, j)>> \in Early(s, b)
  <2>1. i \in 0 .. z /\ j \in 0 .. z /\ i < b
        BY <1>1, <1>5, <1>8
  <2>2. <<i, Part(s, i, j)>> \in Pieces(s)
        BY <1>8, <2>1, PiecesAre DEF z
  <2>q. QED  BY <2>1, <2>2 DEF Early
<1>9. Pieces(s) = Early(s, b) \cup {LastPiece(s, b)}
      BY <1>6, <1>7 DEF Early
<1>10. LastPiece(s, b) \notin Early(s, b)
       BY <1>1, <1>6 DEF Early
<1>11. \A p : p \in Early(s, b) <=> \E i, j \in 0 .. b : Leads(s, i, j) /\ p = <<i, Part(s, i, j)>>
  <2>1. \A p : p \in Early(s, b) => p \in Pieces(s) /\ p[1] < b
        BY DEF Early
  <2>q. QED  BY <1>7, <1>8, <2>1
<1>q. QED  BY <1>9, <1>10, <1>11

\* One more token goes to the end of the last part.
LEMMA PartGrows ==
    ASSUME NEW s \in Seq(TokenType), NEW t \in TokenType, NEW i \in 0 .. Len(s)
    PROVE  /\ \A j \in 1 .. Len(s) + 1 : Part(Append(s, t), i, j) = Part(s, i, j)
           /\ Part(Append(s, t), i, Len(s) + 2) = Append(Part(s, i, Len(s) + 1), t)
<1> DEFINE u == Append(s, t)  n == Len(s)
<1>1. /\ u \in Seq(TokenType) /\ Len(u) = n + 1 /\ n \in Nat
      /\ \A k \in 1 .. n : u[k] = s[k] /\ u[n + 1] = t
      BY AppendProperties, LenProperties
<1>11. u[n + 1] = t
       OBVIOUS
<1>12. i \in 0 .. n /\ i \in Nat
       OBVIOUS
<1> HIDE DEF u, n
<1>2. ASSUME NEW j \in 1 .. n + 1
      PROVE  Part(u, i, j) = Part(s, i, j)
  <2>1. /\ Part(s, i, j) \in Seq(TokenType) /\ Len(Part(s, i, j)) = IF i < j THEN j - 1 - i ELSE 0
        /\ \A k \in 1 .. j - 1 - i : Part(s, i, j)[k] = s[i + k]
        BY <1>12, PartOf DEF n
  <2>2. /\ Part(u, i, j) \in Seq(TokenType) /\ Len(Part(u, i, j)) = IF i < j THEN j - 1 - i ELSE 0
        /\ \A k \in 1 .. j - 1 - i : Part(u, i, j)[k] = u[i + k]
    <3>1. i \in 0 .. Len(u) /\ j \in 1 .. Len(u) + 1
          BY <1>1, <1>12
    <3>q. QED  BY <1>1, <3>1, PartOf
  <2>3. \A k \in 1 .. j - 1 - i : u[i + k] = s[i + k]
    <3>1. \A k \in 1 .. j - 1 - i : i + k \in 1 .. n
          BY <1>1, <1>12
    <3>q. QED  BY <1>1, <3>1
  <2>4. \A k \in 1 .. Len(Part(s, i, j)) : k \in 1 .. j - 1 - i
        BY <1>12, <2>1
  <2>5. Len(Part(u, i, j)) = Len(Part(s, i, j))
        BY <2>1, <2>2
  <2>6. \A k \in 1 .. Len(Part(s, i, j)) : Part(u, i, j)[k] = Part(s, i, j)[k]
        BY <2>1, <2>2, <2>3, <2>4
  <2>q. QED  BY <2>1, <2>2, <2>5, <2>6, SeqEqual
<1>3. Part(u, i, n + 2) = Append(Part(s, i, n + 1), t)
  <2> DEFINE v == Part(s, i, n + 1)
  <2>1. /\ v \in Seq(TokenType) /\ Len(v) = n - i /\ \A k \in 1 .. n - i : v[k] = s[i + k]
    <3>1. n + 1 \in 1 .. n + 1 /\ i < n + 1 /\ n + 1 - 1 - i = n - i
          BY <1>1, <1>12
    <3>q. QED  BY <1>12, <3>1, PartOf DEF n
  <2>2. /\ Part(u, i, n + 2) \in Seq(TokenType) /\ Len(Part(u, i, n + 2)) = n - i + 1
        /\ \A k \in 1 .. n - i + 1 : Part(u, i, n + 2)[k] = u[i + k]
    <3>1. n + 2 \in 1 .. Len(u) + 1 /\ i < n + 2 /\ n + 2 - 1 - i = n - i + 1 /\ i \in 0 .. Len(u)
          BY <1>1, <1>12
    <3> DEFINE j == n + 2
    <3>2. j \in 1 .. Len(u) + 1 /\ i < j /\ j - 1 - i = n - i + 1
          BY <1>1, <1>12
    <3> HIDE DEF j
    <3>3. /\ Part(u, i, j) \in Seq(TokenType)
          /\ Len(Part(u, i, j)) = IF i < j THEN j - 1 - i ELSE 0
          /\ \A k \in 1 .. j - 1 - i : Part(u, i, j)[k] = u[i + k]
          BY <1>1, <3>1, <3>2, PartOf
    <3>4. /\ Part(u, i, j) \in Seq(TokenType) /\ Len(Part(u, i, j)) = n - i + 1
          /\ \A k \in 1 .. n - i + 1 : Part(u, i, j)[k] = u[i + k]
          BY <3>2, <3>3
    <3>q. QED  BY <3>4 DEF j
  <2> HIDE DEF v
  <2>3. /\ Append(v, t) \in Seq(TokenType) /\ Len(Append(v, t)) = n - i + 1
        /\ \A k \in 1 .. n - i : Append(v, t)[k] = v[k]
        /\ Append(v, t)[n - i + 1] = t
        BY <2>1, AppendProperties
  <2>4. ASSUME NEW k \in 1 .. n - i + 1
        PROVE  Part(u, i, n + 2)[k] = Append(v, t)[k]
    <3>1. CASE k = n - i + 1
      <4>1. i + k = n + 1
            BY <1>1, <1>12, <3>1
      <4>q. QED  BY <1>11, <2>2, <2>3, <3>1, <4>1
    <3>2. CASE k # n - i + 1
      <4>1. k \in 1 .. n - i /\ i + k \in 1 .. n
            BY <1>1, <1>12, <3>2
      <4>q. QED  BY <1>1, <2>1, <2>2, <2>3, <4>1
    <3>q. QED  BY <3>1, <3>2
  <2>q. QED  BY <2>2, <2>3, <2>4, SeqEqual DEF v
<1>q. QED  BY <1>2, <1>3 DEF u, n

\* What one more token does to the elements.
LEMMA PiecesGrow ==
    ASSUME NEW s \in Seq(TokenType), NEW t \in TokenType, NEW b, LastComma(s, b)
    PROVE  /\ t.kind # "comma" => /\ LastComma(Append(s, t), b)
                                  /\ Early(Append(s, t), b) = Early(s, b)
           /\ t.kind = "comma" => /\ LastComma(Append(s, t), Len(s) + 1)
                                  /\ Early(Append(s, t), Len(s) + 1) = Early(s, b) \cup {LastPiece(s, b)}
<1> DEFINE u == Append(s, t)  n == Len(s)
<1>1. /\ u \in Seq(TokenType) /\ Len(u) = n + 1 /\ n \in Nat
      /\ DOMAIN u = 1 .. n + 1 /\ DOMAIN s = 1 .. n
      /\ \A k \in 1 .. n : u[k] = s[k]
      BY AppendProperties, LenProperties
<1>2. u[n + 1] = t
       OBVIOUS
<1>3. b \in 0 .. n /\ b \in Nat /\ b < n + 1
      BY <1>1 DEF LastComma
<1>4. \A i \in 0 .. n : \A j \in 1 .. n + 1 : Part(u, i, j) = Part(s, i, j)
      BY PartGrows
<1> HIDE DEF u
<1>5. \A i \in 0 .. n : i \in Ends(u) <=> i \in Ends(s)
      BY <1>1 DEF Ends
<1>6. /\ n + 1 \in Ends(s) /\ n + 2 \in Ends(u) /\ (n + 1 \in Ends(u) <=> t.kind = "comma")
      /\ \A i \in Ends(s) : i \in 0 .. n \/ i = n + 1
      /\ \A i \in Ends(u) : i \in 0 .. n \/ i = n + 1 \/ i = n + 2
      BY <1>1, <1>2 DEF Ends
<1>7. ASSUME NEW i \in 0 .. n, NEW j \in 0 .. n
      PROVE  Leads(u, i, j) <=> Leads(s, i, j)
  <2>1. i < j => (\A k \in Ends(s) : k <= i \/ j <= k) <=> (\A k \in Ends(u) : k <= i \/ j <= k)
    <3>1. \A k \in Ends(s) : k \in Ends(u) \/ j <= k
          BY <1>1, <1>5, <1>6
    <3>2. \A k \in Ends(u) : k \in Ends(s) \/ j <= k
          BY <1>1, <1>5, <1>6
    <3>q. QED  BY <3>1, <3>2
  <2>q. QED  BY <1>5, <2>1 DEF Leads
<1>8. \A i, j : Leads(s, i, j) => i < j
      BY DEF Leads
<1>9. ASSUME t.kind # "comma"
      PROVE  LastComma(u, b) /\ Early(u, b) = Early(s, b)
  <2>1. LastComma(u, b)
    <3>1. b = 0 \/ u[b].kind = "comma"
      <4>1. b # 0 => b \in 1 .. n
            BY <1>1, <1>3
      <4>q. QED  BY <1>1, <4>1 DEF LastComma
    <3>2. ASSUME NEW i \in DOMAIN u, u[i].kind = "comma"
          PROVE  i <= b
      <4>1. i \in 1 .. n
            BY <1>1, <1>2, <1>9, <3>2
      <4>q. QED  BY <1>1, <3>2, <4>1 DEF LastComma
    <3>q. QED  BY <1>1, <1>3, <3>1, <3>2 DEF LastComma
  <2>2. \A p : p \in Early(u, b) <=> \E i, j \in 0 .. b : Leads(u, i, j) /\ p = <<i, Part(u, i, j)>>
        BY <1>1, <2>1, PiecesSplit
  <2>3. \A p : p \in Early(s, b) <=> \E i, j \in 0 .. b : Leads(s, i, j) /\ p = <<i, Part(s, i, j)>>
        BY PiecesSplit
  <2>4. \A i, j \in 0 .. b : Leads(u, i, j) <=> Leads(s, i, j)
        BY <1>1, <1>3, <1>7
  <2>5. \A i, j \in 0 .. b : Leads(s, i, j) => Part(u, i, j) = Part(s, i, j)
    <3>1. \A i, j \in 0 .. b : i < j => i \in 0 .. n /\ j \in 1 .. n + 1
          BY <1>1, <1>3
    <3>q. QED  BY <1>4, <1>8, <3>1
  <2>6. \A p : p \in Early(u, b) <=> p \in Early(s, b)
        BY <2>2, <2>3, <2>4, <2>5
  <2>q. QED  BY <2>1, <2>6 DEF Early
<1>10. ASSUME t.kind = "comma"
       PROVE  LastComma(u, n + 1) /\ Early(u, n + 1) = Early(s, b) \cup {LastPiece(s, b)}
  <2>1. LastComma(u, n + 1)
        BY <1>1, <1>2, <1>10 DEF LastComma
  <2>2. \A p : p \in Early(u, n + 1) <=> \E i, j \in 0 .. n + 1 : Leads(u, i, j) /\ p = <<i, Part(u, i, j)>>
        BY <1>1, <2>1, PiecesSplit
  <2>3. \A p : p \in Pieces(s) <=> \E i, j \in 0 .. n + 1 : Leads(s, i, j) /\ p = <<i, Part(s, i, j)>>
        BY PiecesAre
  <2>4. Pieces(s) = Early(s, b) \cup {LastPiece(s, b)}
        BY PiecesSplit
  <2>5. \A i, j \in 0 .. n + 1 : Leads(u, i, j) <=> Leads(s, i, j)
    <3>1. ASSUME NEW i \in 0 .. n
          PROVE  Leads(u, i, n + 1) <=> Leads(s, i, n + 1)
      <4>1. (\A k \in Ends(s) : k <= i \/ n + 1 <= k) <=> (\A k \in Ends(u) : k <= i \/ n + 1 <= k)
        <5>1. \A k \in Ends(s) : k \in Ends(u) \/ n + 1 <= k
              BY <1>1, <1>5, <1>6
        <5>2. \A k \in Ends(u) : k \in Ends(s) \/ n + 1 <= k
              BY <1>1, <1>5, <1>6
        <5>q. QED  BY <5>1, <5>2
      <4>q. QED  BY <1>5, <1>6, <1>10, <4>1 DEF Leads
    <3>2. \A j \in 0 .. n + 1 : ~Leads(u, n + 1, j) /\ ~Leads(s, n + 1, j)
          BY <1>1 DEF Leads
    <3>3. \A i \in 0 .. n + 1 : i \in 0 .. n \/ i = n + 1
          BY <1>1
    <3>q. QED  BY <1>7, <3>1, <3>2, <3>3
  <2>6. \A i, j \in 0 .. n + 1 : Leads(s, i, j) => Part(u, i, j) = Part(s, i, j)
    <3>1. \A i, j \in 0 .. n + 1 : i < j => i \in 0 .. n /\ j \in 1 .. n + 1
          BY <1>1
    <3>q. QED  BY <1>4, <1>8, <3>1
  <2>7. \A p : p \in Early(u, n + 1) <=> p \in Pieces(s)
        BY <2>2, <2>3, <2>5, <2>6
  <2>q. QED  BY <2>1, <2>4, <2>7 DEF Early
<1>q. QED  BY <1>9, <1>10 DEF u

----------------------------------------------------------------------------
(* The grammar: the parser. *)

\* What the parser has seen of an element: some numbers, and what it looks for.
Halfway(w, looked, ns) ==
    \E e \in 0 .. Len(w) + 1 :
      /\ EndAt(w, Len(ns), e, ns)
      /\ looked = "after" => e = Len(w) + 1 /\ Len(ns) \in 1 .. 3
      /\ looked = "number" => e = Len(w) /\ Separates(w, Len(ns), e) /\ Len(ns) \in 0 .. 2
      /\ looked = "digits" => /\ e = Len(w) - 1 /\ Separates(w, Len(ns), e) /\ Len(ns) \in 0 .. 2
                              /\ w[Len(w)].kind = "hyphen"

\* A separator stays where it is.
LEMMA SeparatorStays ==
    ASSUME NEW w \in Seq(TokenType), NEW t \in TokenType, NEW k, NEW e, Separates(w, k, e)
    PROVE  Separates(Append(w, t), k, e)
<1>1. \A i \in DOMAIN w : i \in DOMAIN Append(w, t) /\ Append(w, t)[i] = w[i]
      BY AppendProperties, LenProperties
<1>q. QED  BY <1>1 DEF Separates

\* The sign of a number.
LEMMA SignGoesOn ==
    ASSUME NEW w \in Seq(TokenType), NEW t \in TokenType, NEW ns \in Seq(Int),
           Halfway(w, "number", ns), t.kind = "hyphen"
    PROVE  Halfway(Append(w, t), "digits", ns)
<1>1. /\ EndAt(w, Len(ns), Len(w), ns) /\ Separates(w, Len(ns), Len(w)) /\ Len(ns) \in 0 .. 2
      BY DEF Halfway
<1>2. /\ Len(Append(w, t)) = Len(w) + 1 /\ Append(w, t)[Len(w) + 1] = t /\ Len(w) \in Nat
      /\ Append(w, t) \in Seq(TokenType)
      BY AppendProperties
<1>3. Len(w) \in 0 .. Len(w) + 1 /\ Len(ns) \in 0 .. 3
      BY <1>1, <1>2
<1>4. EndAt(Append(w, t), Len(ns), Len(w), ns)
      BY <1>1, <1>3, MoreNumbers
<1>5. Separates(Append(w, t), Len(ns), Len(w))
      BY <1>1, SeparatorStays
<1>6. Len(w) \in 0 .. Len(Append(w, t)) + 1 /\ Len(w) = Len(Append(w, t)) - 1
      BY <1>2
<1>q. QED  BY <1>1, <1>2, <1>4, <1>5, <1>6 DEF Halfway

\* Its digits.
LEMMA DigitsGoOn ==
    ASSUME NEW w \in Seq(TokenType), NEW t \in TokenType, NEW ns \in Seq(Int), NEW looked \in {"number", "digits"},
           Halfway(w, looked, ns), t.kind = "number"
    PROVE  Halfway(Append(w, t), "after", Append(ns, IF looked = "digits" THEN -t.value ELSE t.value))
<1> DEFINE u == Append(w, t)  n == Len(w)  k == Len(ns)  v == IF looked = "digits" THEN -t.value ELSE t.value
<1>1. /\ Len(u) = n + 1 /\ u[n + 1] = t /\ n \in Nat /\ u \in Seq(TokenType)
      /\ \A i \in 1 .. n : u[i] = w[i]
      BY AppendProperties
<1>2. v \in Int /\ t.value \in Int
      BY DEF TokenType
<1>3. PICK e \in 0 .. n + 1 :
        /\ EndAt(w, k, e, ns) /\ Separates(w, k, e) /\ k \in 0 .. 2
        /\ looked = "number" => e = n
        /\ looked = "digits" => e = n - 1 /\ w[n].kind = "hyphen"
      BY DEF Halfway
<1> HIDE DEF u, v
<1>4. NumberAt(u, e, n + 2) /\ v = ValueAt(u, e, n + 2)
  <2>1. CASE looked = "number"
    <3>1. e = n /\ n + 2 = e + 2 /\ e + 1 = n + 1 /\ n + 2 <= Len(u) + 1
          BY <1>1, <1>3, <2>1
    <3>q. QED  BY <1>1, <2>1, <3>1 DEF NumberAt, ValueAt, v
  <2>2. CASE looked = "digits"
    <3>1. e = n - 1 /\ n + 2 = e + 3 /\ n + 2 # e + 2 /\ e + 1 = n /\ e + 2 = n + 1 /\ n + 2 <= Len(u) + 1
          /\ n \in 1 .. n
          BY <1>1, <1>3, <2>2
    <3>2. u[e + 1].kind = "hyphen" /\ u[e + 2] = t
          BY <1>1, <1>3, <2>2, <3>1
    <3>q. QED  BY <2>2, <3>1, <3>2 DEF NumberAt, ValueAt, v
  <2>q. QED  BY <2>1, <2>2
<1>5. EndAt(u, k + 1, n + 2, Append(ns, v))
  <2>1. k \in 0 .. 3 /\ k # 3
    <3>1. \A x \in 0 .. 2 : x \in 0 .. 3 /\ x # 3
          OBVIOUS
    <3>q. QED  BY <1>3, <3>1
  <2>2. \A x \in Int :
          k # 3 /\ Separates(w, k, e) /\ NumberAt(u, e, n + 2) /\ x = ValueAt(u, e, n + 2)
          => EndAt(u, k + 1, n + 2, Append(ns, x))
        BY <1>3, <2>1, MoreNumbers DEF u
  <2>q. QED  BY <1>2, <1>3, <1>4, <2>1, <2>2
<1>6. Len(Append(ns, v)) = k + 1 /\ k + 1 \in 1 .. 3
  <2>1. \A x \in 0 .. 2 : x + 1 \in 1 .. 3
        OBVIOUS
  <2>2. Len(Append(ns, v)) = k + 1
        BY <1>2, AppendProperties
  <2>q. QED  BY <1>3, <2>1, <2>2
<1>7. n + 2 \in 0 .. Len(u) + 1 /\ n + 2 = Len(u) + 1
      BY <1>1
<1>q. QED  BY <1>5, <1>6, <1>7 DEF Halfway, u, v

\* The separator between two numbers.
LEMMA SeparatorGoesOn ==
    ASSUME NEW w \in Seq(TokenType), NEW t \in TokenType, NEW ns \in Seq(Int), Halfway(w, "after", ns),
           (t.kind = "hyphen" /\ Len(ns) = 1) \/ (t.kind = "colon" /\ Len(ns) = 2)
    PROVE  Halfway(Append(w, t), "number", ns)
<1> DEFINE u == Append(w, t)  n == Len(w)  k == Len(ns)
<1>1. /\ Len(u) = n + 1 /\ u[n + 1] = t /\ n \in Nat /\ u \in Seq(TokenType) /\ DOMAIN u = 1 .. n + 1
      BY AppendProperties, LenProperties
<1>2. EndAt(w, k, n + 1, ns) /\ k \in 1 .. 3
      BY DEF Halfway
<1>3. k \in 0 .. 3 /\ k \in 0 .. 2 /\ n + 1 \in 0 .. n + 1 /\ n + 1 \in DOMAIN u
      BY <1>1, <1>2
<1>4. EndAt(u, k, n + 1, ns)
      BY <1>2, <1>3, MoreNumbers
<1>5. Separates(u, k, n + 1)
  <2> HIDE DEF u, n, k
  <2>q. QED  BY <1>1, <1>3 DEF Separates, k
<1>6. n + 1 \in 0 .. Len(u) + 1
      BY <1>1
<1>q. QED  BY <1>1, <1>3, <1>4, <1>5, <1>6 DEF Halfway

\* The end of an element that is not finished.
LEMMA Unfinished ==
    ASSUME NEW w \in Seq(TokenType), NEW ns \in Seq(Int), NEW looked \in {"number", "digits"},
           Halfway(w, looked, ns)
    PROVE  Readings(w) = {}
<1> DEFINE n == Len(w)  k == Len(ns)
<1>1. PICK e \in 0 .. n + 1 :
        /\ EndAt(w, k, e, ns) /\ k \in 0 .. 2
        /\ looked = "number" => e = n
        /\ looked = "digits" => e = n - 1 /\ w[n].kind = "hyphen"
      BY DEF Halfway
<1>2. n \in Nat /\ e \in 0 .. n /\ k \in 0 .. 3
      BY <1>1
<1>3. ASSUME NEW i, NumberAt(w, e, i)
      PROVE  FALSE
  <2>1. CASE looked = "number"
        BY <1>1, <1>2, <1>3, <2>1 DEF NumberAt
  <2>2. CASE looked = "digits"
    <3>1. e + 1 = n /\ w[e + 1].kind = "hyphen"
          BY <1>1, <1>2, <2>2
    <3>2. i <= n + 1 /\ i = e + 3
          BY <1>3, <3>1 DEF NumberAt
    <3>q. QED  BY <1>2, <3>1, <3>2
  <2>q. QED  BY <2>1, <2>2
<1>q. QED  BY <1>1, <1>2, <1>3, NoReading

\* A token that cannot follow.
LEMMA Astray ==
    ASSUME NEW w \in Seq(TokenType), NEW t \in TokenType, NEW ns \in Seq(Int), NEW looked,
           Halfway(w, looked, ns), t.kind # "comma",
           \/ looked = "number" /\ t.kind \in {"colon", "comma"}
           \/ looked = "digits" /\ t.kind # "number"
           \/ looked = "after" /\ t.kind = "hyphen" /\ Len(ns) # 1
           \/ looked = "after" /\ t.kind = "colon" /\ Len(ns) # 2
           \/ looked = "after" /\ t.kind = "number"
    PROVE  Readings(Append(w, t)) = {}
<1> DEFINE u == Append(w, t)  n == Len(w)  k == Len(ns)
<1>1. /\ Len(u) = n + 1 /\ u[n + 1] = t /\ n \in Nat /\ u \in Seq(TokenType)
      /\ \A i \in 1 .. n : u[i] = w[i]
      BY AppendProperties
<1>2. PICK e \in 0 .. n + 1 :
        /\ EndAt(w, k, e, ns) /\ k \in 0 .. 3
        /\ looked = "after" => e = n + 1 /\ k \in 1 .. 3
        /\ looked = "number" => e = n
        /\ looked = "digits" => e = n - 1 /\ w[n].kind = "hyphen"
  <2>1. 0 .. 2 \subseteq 0 .. 3 /\ 1 .. 3 \subseteq 0 .. 3
        OBVIOUS
  <2>2. looked \in {"after", "number", "digits"}
        OBVIOUS
  <2>q. QED  BY <2>1, <2>2 DEF Halfway
<1>3. EndAt(u, k, e, ns)
      BY <1>2, MoreNumbers
<1>4. e \in 0 .. Len(u)
      BY <1>1, <1>2
<1> HIDE DEF u
<1>5. ~Separates(u, k, e) \/ \A i : ~NumberAt(u, e, i)
  <2>1. CASE looked = "number"
    <3>1. e + 1 = n + 1 /\ t.kind = "colon"
          BY <1>2, <2>1
    <3>q. QED  BY <1>1, <3>1 DEF NumberAt
  <2>2. CASE looked = "digits"
    <3>1. e + 1 = n /\ e + 2 = n + 1 /\ n \in 1 .. n /\ w[n].kind = "hyphen" /\ t.kind # "number"
          BY <1>1, <1>2, <2>2
    <3>2. u[e + 1].kind = "hyphen" /\ u[e + 2].kind # "number"
          BY <1>1, <3>1
    <3>q. QED  BY <3>2 DEF NumberAt
  <2>3. CASE looked = "after"
    <3>1. k # 0 /\ u[e] = t
      <4>1. \A x \in 1 .. 3 : x # 0
            OBVIOUS
      <4>2. e = n + 1
            BY <1>2, <2>3
      <4>q. QED  BY <1>1, <1>2, <2>3, <4>1, <4>2
    <3>2. ~(k = 1 /\ t.kind = "hyphen") /\ ~(k = 2 /\ t.kind = "colon")
          BY <2>3
    <3>q. QED  BY <3>1, <3>2 DEF Separates
  <2>q. QED  BY <2>1, <2>2, <2>3
<1>q. QED  BY <1>1, <1>2, <1>3, <1>4, <1>5, NoReading DEF u

\* Ranges that are those of the elements of a text, each of one of them.
ElementOf(q, r) ==
    \E x \in Int \X Int \X Int :
      Readings(q) = {x} /\ Sensible(x) /\ r = IntRange(x[1], x[2], x[3])
Matches(f, P, rs) ==
    /\ P = {f[k] : k \in DOMAIN rs}
    /\ \A j, k \in DOMAIN rs : f[j] = f[k] => j = k
    /\ \A k \in DOMAIN rs : ElementOf(f[k][2], rs[k])
Matched(P, rs) == \E f : Matches(f, P, rs)

\* A text with an element that is no range.
Hopeless(P) == \E p \in P : \A x \in Readings(p[2]) : ~Sensible(x)

\* What the parser has made of the tokens it has read: a range for every element
\* before the last comma, and the last one in part.
ReadUpTo(b) ==
    /\ LastComma(read, b) /\ Matched(Early(read, b), ranges)
    /\ Halfway(LastPiece(read, b)[2], want, nums)
Reading == \E b : ReadUpTo(b)
Grammatical ==
    values = {} \/ round = 2 =>
      /\ read \in Seq(TokenType)
      /\ phase = "parse" => Reading
      /\ phase \in {"combine", "built"} => Matched(Pieces(read), ranges)
      /\ phase = "failed" =>
           \/ Hopeless(Pieces(read))
           \/ Matched(Pieces(read), ranges) /\ ~AllClear(ranges, DOMAIN ranges)

\* One more element and its range.
LEMMA OneMoreMatch ==
    ASSUME NEW P, NEW rs \in Seq(RangeType), Matched(P, rs), NEW p, p \notin P,
           NEW r \in RangeType, ElementOf(p[2], r)
    PROVE  Matched(P \cup {p}, Append(rs, r))
<1> DEFINE n == Len(rs)  t == Append(rs, r)
<1>1. PICK f : Matches(f, P, rs)
      BY DEF Matched
<1>2. n \in Nat /\ DOMAIN rs = 1 .. n /\ DOMAIN t = 1 .. n + 1 /\ t[n + 1] = r /\ \A k \in 1 .. n : t[k] = rs[k]
      BY AppendProperties, LenProperties
<1> DEFINE g == [k \in 1 .. n + 1 |-> IF k \in 1 .. n THEN f[k] ELSE p]
<1>3. /\ \A k \in 1 .. n : g[k] = f[k] /\ k \in 1 .. n + 1
      /\ g[n + 1] = p /\ n + 1 \in 1 .. n + 1
      /\ \A k \in 1 .. n + 1 : k \in 1 .. n \/ k = n + 1
      BY <1>2
<1>4. /\ P = {f[k] : k \in 1 .. n} /\ \A j, k \in 1 .. n : f[j] = f[k] => j = k
      /\ \A k \in 1 .. n : ElementOf(f[k][2], rs[k])
      BY <1>1, <1>2 DEF Matches
<1> HIDE DEF g, t, n
<1>5. P \cup {p} = {g[k] : k \in 1 .. n + 1}
  <2>1. \A k \in 1 .. n + 1 : g[k] \in P \cup {p}
        BY <1>3, <1>4
  <2>2. \A x \in P \cup {p} : \E k \in 1 .. n + 1 : x = g[k]
        BY <1>3, <1>4
  <2>q. QED  BY <2>1, <2>2
<1>6. \A j, k \in 1 .. n + 1 : g[j] = g[k] => j = k
  <2>1. \A k \in 1 .. n : g[k] \in P
        BY <1>3, <1>4
  <2>q. QED  BY <1>3, <1>4, <2>1
<1>7. \A k \in 1 .. n + 1 : ElementOf(g[k][2], t[k])
      BY <1>2, <1>3, <1>4
<1>8. Matches(g, P \cup {p}, t)
      BY <1>2, <1>5, <1>6, <1>7 DEF Matches
<1>q. QED  BY <1>8 DEF Matched, t

\* A text that nothing has been read of.
LEMMA NothingRead ==
    /\ LastComma(<<>>, 0) /\ Matched(Early(<<>>, 0), <<>>)
    /\ Halfway(LastPiece(<<>>, 0)[2], "number", <<>>)
    /\ Halfway(<<>>, "number", <<>>)
<1>1. <<>> \in Seq(TokenType) /\ Len(<<>>) = 0 /\ DOMAIN <<>> = {}
      OBVIOUS
<1>2. LastComma(<<>>, 0)
      BY <1>1 DEF LastComma
<1>3. Early(<<>>, 0) = {}
  <2>1. ASSUME NEW p \in Early(<<>>, 0)
        PROVE  FALSE
    <3>1. p \in Pieces(<<>>) /\ p[1] < 0
          BY DEF Early
    <3>2. PICK i, j \in 0 .. Len(<<>>) + 1 : Leads(<<>>, i, j) /\ p = <<i, Part(<<>>, i, j)>>
      <4>1. \A s \in Seq(TokenType) : p \in Pieces(s) =>
              \E i, j \in 0 .. Len(s) + 1 : Leads(s, i, j) /\ p = <<i, Part(s, i, j)>>
            BY PiecesAre
      <4>q. QED  BY <1>1, <3>1, <4>1
    <3>3. p[1] = i /\ i \in 0 .. 1
          BY <1>1, <3>2
    <3>q. QED  BY <3>1, <3>3
  <2>q. QED  BY <2>1
<1>4. Matched({}, <<>>)
  <2>1. Matches([x \in {} |-> x], {}, <<>>)
        BY <1>1 DEF Matches
  <2>q. QED  BY <2>1 DEF Matched
<1>5. LastPiece(<<>>, 0)[2] = <<>>
  <2>1. LastPiece(<<>>, 0)[2] = Part(<<>>, 0, 1)
        BY <1>1 DEF LastPiece
  <2>2. Part(<<>>, 0, 1) = <<>>
    <3>1. 0 + 1 \in Int /\ 1 - 1 \in Int /\ 1 - 1 < 0 + 1
          OBVIOUS
    <3>q. QED  BY <3>1, SubSeqEmpty DEF Part
  <2>q. QED  BY <2>1, <2>2
<1>6. Halfway(<<>>, "number", <<>>)
  <2>1. EndAt(<<>>, Len(<<>>), 0, <<>>) /\ Separates(<<>>, Len(<<>>), 0)
        BY <1>1 DEF EndAt, Separates
  <2>q. QED  BY <1>1, <2>1 DEF Halfway
<1>q. QED  BY <1>2, <1>3, <1>4, <1>5, <1>6

\* The last element of a text.
LEMMA LastElement ==
    ASSUME NEW s \in Seq(TokenType), NEW b, LastComma(s, b)
    PROVE  /\ LastPiece(s, b)[2] \in Seq(TokenType) /\ LastPiece(s, b) \in Pieces(s)
           /\ \A t \in TokenType :
                /\ t.kind # "comma" => /\ LastPiece(Append(s, t), b)[2] = Append(LastPiece(s, b)[2], t)
                                       /\ LastPiece(Append(s, t), b) \in Pieces(Append(s, t))
                /\ t.kind = "comma" => /\ LastPiece(Append(s, t), Len(s) + 1)[2] = <<>>
                                       /\ Pieces(s) = Early(Append(s, t), Len(s) + 1)
                                       /\ Pieces(s) \subseteq Pieces(Append(s, t))
<1>1. Len(s) \in Nat /\ b \in 0 .. Len(s)
      BY DEF LastComma
<1>2. LastPiece(s, b)[2] = Part(s, b, Len(s) + 1)
      BY DEF LastPiece
<1>3. LastPiece(s, b)[2] \in Seq(TokenType)
  <2>1. Len(s) + 1 \in 1 .. Len(s) + 1
        BY <1>1
  <2>q. QED  BY <1>1, <1>2, <2>1, PartOf
<1>4. LastPiece(s, b) \in Pieces(s) /\ Pieces(s) = Early(s, b) \cup {LastPiece(s, b)}
      BY PiecesSplit
<1>5. ASSUME NEW t \in TokenType
      PROVE  /\ t.kind # "comma" => /\ LastPiece(Append(s, t), b)[2] = Append(LastPiece(s, b)[2], t)
                                    /\ LastPiece(Append(s, t), b) \in Pieces(Append(s, t))
             /\ t.kind = "comma" => /\ LastPiece(Append(s, t), Len(s) + 1)[2] = <<>>
                                    /\ Pieces(s) = Early(Append(s, t), Len(s) + 1)
                                    /\ Pieces(s) \subseteq Pieces(Append(s, t))
  <2> DEFINE u == Append(s, t)
  <2>1. u \in Seq(TokenType) /\ Len(u) = Len(s) + 1 /\ Len(u) + 1 = Len(s) + 2
        BY <1>1, AppendProperties
  <2>2. \A c : LastPiece(u, c)[2] = Part(u, c, Len(s) + 2)
        BY <2>1 DEF LastPiece
  <2> HIDE DEF u
  <2>3. ASSUME t.kind # "comma"
        PROVE  LastPiece(u, b)[2] = Append(LastPiece(s, b)[2], t) /\ LastPiece(u, b) \in Pieces(u)
    <3>1. LastComma(u, b)
          BY <2>3, PiecesGrow DEF u
    <3>2. Part(u, b, Len(s) + 2) = Append(Part(s, b, Len(s) + 1), t)
          BY <1>1, PartGrows DEF u
    <3>q. QED  BY <1>2, <2>1, <2>2, <3>1, <3>2, PiecesSplit
  <2>4. ASSUME t.kind = "comma"
        PROVE  /\ LastPiece(u, Len(s) + 1)[2] = <<>>
               /\ Pieces(s) = Early(u, Len(s) + 1) /\ Pieces(s) \subseteq Pieces(u)
    <3>1. LastComma(u, Len(s) + 1) /\ Early(u, Len(s) + 1) = Early(s, b) \cup {LastPiece(s, b)}
          BY <2>4, PiecesGrow DEF u
    <3>2. Part(u, Len(s) + 1, Len(s) + 2) = <<>>
      <4>1. Len(s) + 1 + 1 \in Int /\ Len(s) + 2 - 1 \in Int /\ Len(s) + 2 - 1 < Len(s) + 1 + 1
            BY <1>1
      <4>q. QED  BY <4>1, SubSeqEmpty DEF Part
    <3>3. Pieces(u) = Early(u, Len(s) + 1) \cup {LastPiece(u, Len(s) + 1)}
          BY <2>1, <3>1, PiecesSplit
    <3>q. QED  BY <1>4, <2>2, <3>1, <3>2, <3>3
  <2>q. QED  BY <2>3, <2>4 DEF u
<1>q. QED  BY <1>3, <1>4, <1>5

\* The end of an element: it has a range, or it is none.
LEMMA ElementMatches ==
    ASSUME Types, phase = "parse", want = "after", read \in Seq(TokenType), NEW b, ReadUpTo(b),
           NEW go, EndElement(go)
    PROVE  \/ go /\ nums' = <<>> /\ Matched(Pieces(read), ranges')
           \/ phase' = "failed" /\ ranges' = ranges /\ Hopeless(Pieces(read))
<1> DEFINE w == LastPiece(read, b)[2]  x == <<nums[1], Stop, Step>>
<1>1. /\ LastComma(read, b) /\ Matched(Early(read, b), ranges) /\ Halfway(w, "after", nums)
      /\ ranges \in Seq(RangeType) /\ ParserType /\ Len(nums) \in 1 .. 3 /\ nums \in Seq(Int)
      BY DEF ReadUpTo, Types, AreRanges, ParserType, Counted
<1>2. /\ w \in Seq(TokenType) /\ LastPiece(read, b) \in Pieces(read)
      /\ Pieces(read) = Early(read, b) \cup {LastPiece(read, b)} /\ LastPiece(read, b) \notin Early(read, b)
      BY <1>1, LastElement, PiecesSplit
<1>3. x = <<nums[1], StopOf(nums), StepOf(nums)>>
      BY DEF Stop, Step, StopOf, StepOf
<1>4. Readings(w) = {x}
  <2> HIDE DEF w
  <2>1. EndAt(w, Len(nums), Len(w) + 1, nums)
        BY <1>1 DEF Halfway
  <2>q. QED  BY <1>1, <1>2, <1>3, <2>1, OneReading
<1>5. /\ nums[1] \in Int /\ Stop \in Int /\ Step \in Int
      /\ WellFormed(nums[1], Stop, Step) => Canonical(IntRange(nums[1], Stop, Step))
      BY <1>1, ElementEnds
<1>6. /\ x \in Int \X Int \X Int /\ x[1] = nums[1] /\ x[2] = Stop /\ x[3] = Step
      /\ Sensible(x) <=> WellFormed(nums[1], Stop, Step)
      BY <1>5 DEF Sensible
<1> HIDE DEF x, w
<1>7. CASE WellFormed(nums[1], Stop, Step)
  <2>1. ranges' = Append(ranges, IntRange(nums[1], Stop, Step)) /\ nums' = <<>> /\ go
        BY <1>7 DEF EndElement
  <2>2. ElementOf(w, IntRange(nums[1], Stop, Step))
        BY <1>4, <1>6, <1>7 DEF ElementOf
  <2>3. IntRange(nums[1], Stop, Step) \in RangeType
        BY <1>5, <1>7 DEF Canonical
  <2>4. Matched(Pieces(read), Append(ranges, IntRange(nums[1], Stop, Step)))
        BY <1>1, <1>2, <2>2, <2>3, OneMoreMatch DEF w
  <2>q. QED  BY <2>1, <2>4
<1>8. CASE ~WellFormed(nums[1], Stop, Step)
  <2>1. phase' = "failed" /\ ranges' = ranges
        BY <1>8 DEF EndElement, Fail
  <2>2. Hopeless(Pieces(read))
        BY <1>2, <1>4, <1>6, <1>8 DEF Hopeless, w
  <2>q. QED  BY <2>1, <2>2
<1>q. QED  BY <1>7, <1>8

\* Every token keeps what the parser has made of the text, or ends it for cause.
LEMMA TokenKeeps ==
    ASSUME Types, Grammatical, values = {} \/ round = 2, phase = "parse", NEW t \in Offered,
           Sign(t) \/ Digits(t) \/ Separator(t) \/ Comma(t) \/ Wrong(t)
    PROVE  /\ read' \in Seq(TokenType)
           /\ phase' = "parse" => Reading'
           /\ phase' \notin {"combine", "built"}
           /\ phase' = "failed" => Hopeless(Pieces(read))'
<1>1. ParserType /\ Counted /\ round \in {1, 2} /\ read \in Seq(TokenType) /\ Reading
      BY DEF Types, Grammatical
<1>2. t \in TokenType
      BY <1>1, OfferedType
<1>3. read' = Append(read, t)
      BY DEF Sign, Digits, Separator, Comma, Wrong, Consume
<1>4. Append(read, t) \in Seq(TokenType)
      BY <1>1, <1>2, AppendProperties
<1>5. PICK b : ReadUpTo(b)
      BY <1>1 DEF Reading
<1> DEFINE w == LastPiece(read, b)[2]  n == Len(read)
<1>6. /\ LastComma(read, b) /\ Matched(Early(read, b), ranges) /\ Halfway(w, want, nums)
      /\ nums \in Seq(Int) /\ want \in {"number", "digits", "after"}
      BY <1>1, <1>5 DEF ReadUpTo, ParserType
<1>7. /\ w \in Seq(TokenType) /\ LastPiece(read, b) \in Pieces(read)
      /\ t.kind # "comma" => /\ LastPiece(Append(read, t), b)[2] = Append(w, t)
                             /\ LastPiece(Append(read, t), b) \in Pieces(Append(read, t))
      /\ t.kind = "comma" => /\ LastPiece(Append(read, t), n + 1)[2] = <<>>
                             /\ Pieces(read) = Early(Append(read, t), n + 1)
                             /\ Pieces(read) \subseteq Pieces(Append(read, t))
      BY <1>1, <1>2, <1>6, LastElement
<1>8. /\ t.kind # "comma" => /\ LastComma(Append(read, t), b)
                             /\ Early(Append(read, t), b) = Early(read, b)
      /\ t.kind = "comma" => LastComma(Append(read, t), n + 1)
      BY <1>1, <1>2, <1>6, PiecesGrow
<1> HIDE DEF w, n
<1>9. ASSUME t.kind # "comma", ranges' = ranges, Halfway(Append(w, t), want', nums')
      PROVE  Reading'
  <2>1. ReadUpTo(b)'
        BY <1>3, <1>6, <1>7, <1>8, <1>9 DEF ReadUpTo
  <2>q. QED  BY <2>1 DEF Reading
<1>10. CASE Sign(t)
  <2>1. want = "number" /\ t.kind = "hyphen" /\ want' = "digits" /\ nums' = nums /\ ranges' = ranges /\ phase' = phase
        BY <1>10 DEF Sign
  <2>2. Halfway(Append(w, t), want', nums')
        BY <1>2, <1>6, <1>7, <2>1, SignGoesOn
  <2>q. QED  BY <1>3, <1>4, <1>9, <2>1, <2>2
<1>11. CASE Digits(t)
  <2>1. /\ want \in {"number", "digits"} /\ t.kind = "number" /\ want' = "after" /\ ranges' = ranges /\ phase' = phase
        /\ nums' = Append(nums, IF negative THEN -t.value ELSE t.value)
        BY <1>11 DEF Digits
  <2>2. negative <=> want = "digits"
        BY <1>1 DEF ParserType
  <2>3. Halfway(Append(w, t), "after", Append(nums, IF want = "digits" THEN -t.value ELSE t.value))
        BY <1>2, <1>6, <1>7, <2>1, DigitsGoOn
  <2>4. Halfway(Append(w, t), want', nums')
        BY <2>1, <2>2, <2>3
  <2>q. QED  BY <1>3, <1>4, <1>9, <2>1, <2>4
<1>12. CASE Separator(t)
  <2>1. /\ want = "after" /\ want' = "number" /\ nums' = nums /\ ranges' = ranges /\ phase' = phase
        /\ (t.kind = "hyphen" /\ Len(nums) = 1) \/ (t.kind = "colon" /\ Len(nums) = 2)
        BY <1>12 DEF Separator
  <2>2. Halfway(Append(w, t), want', nums')
        BY <1>2, <1>6, <1>7, <2>1, SeparatorGoesOn
  <2>q. QED  BY <1>3, <1>4, <1>9, <2>1, <2>2
<1>13. CASE Comma(t)
  <2>1. want = "after" /\ t.kind = "comma" /\ want' = "number" /\ EndElement(UNCHANGED <<phase, error, left>>)
        BY <1>13 DEF Comma
  <2>2. \/ (UNCHANGED <<phase, error, left>>) /\ nums' = <<>> /\ Matched(Pieces(read), ranges')
        \/ phase' = "failed" /\ ranges' = ranges /\ Hopeless(Pieces(read))
        BY <1>1, <1>5, <2>1, ElementMatches
  <2>3. ASSUME UNCHANGED <<phase, error, left>>, nums' = <<>>, Matched(Pieces(read), ranges')
        PROVE  phase' = "parse" /\ Reading'
    <3>1. Halfway(LastPiece(read', n + 1)[2], want', nums')
          BY <1>3, <1>7, <2>1, <2>3, NothingRead
    <3>2. LastComma(read', n + 1) /\ Matched(Early(read', n + 1), ranges')
          BY <1>3, <1>7, <1>8, <2>1, <2>3
    <3>3. \A c : LastComma(read', c) /\ Matched(Early(read', c), ranges') /\ Halfway(LastPiece(read', c)[2], want', nums')
                 => Reading'
          BY DEF ReadUpTo, Reading
    <3>q. QED  BY <2>3, <3>1, <3>2, <3>3
  <2>4. Hopeless(Pieces(read)) => Hopeless(Pieces(read'))
        BY <1>3, <1>7, <2>1 DEF Hopeless
  <2>q. QED  BY <1>3, <1>4, <2>2, <2>3, <2>4
<1>14. CASE Wrong(t)
  <2>1. phase' = "failed"
        BY <1>14 DEF Wrong, Fail
  <2>2. Hopeless(Pieces(Append(read, t)))
    <3>1. CASE t.kind = "comma"
      <4>1. want \in {"number", "digits"}
            BY <1>14, <3>1 DEF Wrong
      <4>2. Readings(w) = {}
            BY <1>6, <1>7, <4>1, Unfinished
      <4>3. LastPiece(read, b) \in Pieces(Append(read, t)) /\ Readings(LastPiece(read, b)[2]) = {}
            BY <1>7, <3>1, <4>2 DEF w
      <4>q. QED  BY <4>3 DEF Hopeless
    <3>2. CASE t.kind # "comma"
      <4>1. \/ want = "number" /\ t.kind \in {"colon", "comma"}
            \/ want = "digits" /\ t.kind # "number"
            \/ want = "after" /\ t.kind = "hyphen" /\ Len(nums) # 1
            \/ want = "after" /\ t.kind = "colon" /\ Len(nums) # 2
            \/ want = "after" /\ t.kind = "number"
            BY <1>14 DEF Wrong
      <4>2. Readings(Append(w, t)) = {}
            BY <1>2, <1>6, <1>7, <3>2, <4>1, Astray
      <4>3. LastPiece(Append(read, t), b) \in Pieces(Append(read, t))
            /\ Readings(LastPiece(Append(read, t), b)[2]) = {}
            BY <1>7, <3>2, <4>2
      <4>q. QED  BY <4>3 DEF Hopeless
    <3>q. QED  BY <3>1, <3>2
  <2>q. QED  BY <1>3, <1>4, <2>1, <2>2
<1>q. QED  BY <1>10, <1>11, <1>12, <1>13, <1>14

\* The first states.
LEMMA InitGrammar == Init => Grammatical
<1> SUFFICES ASSUME Init
             PROVE  Grammatical
    OBVIOUS
<1>1. CASE values = {}
  <2>1. phase = "parse" /\ read = <<>> /\ want = "number" /\ nums = <<>> /\ ranges = <<>>
        BY <1>1 DEF Init
  <2>2. ReadUpTo(0)
        BY <2>1, NothingRead DEF ReadUpTo
  <2>3. <<>> \in Seq(TokenType)
        OBVIOUS
  <2>q. QED  BY <2>1, <2>2, <2>3 DEF Grammatical, Reading
<1>2. CASE values # {}
  <2>1. round = 1
        BY DEF Init
  <2>q. QED  BY <1>2, <2>1 DEF Grammatical
<1>q. QED  BY <1>1, <1>2

\* Every step keeps what is known of the text.
LEMMA StepGrammar ==
    ASSUME Inv, Grammatical, [Next]_vars
    PROVE  Grammatical'
<1>0. Types /\ Stages /\ phase \in {"parse", "list", "combine", "built", "failed"} /\ ParserType /\ Counted
      /\ AreRanges(ranges)
      BY DEF Inv, Types
<1>1. ASSUME NEW t \in Offered, Sign(t) \/ Digits(t) \/ Separator(t) \/ Comma(t) \/ Wrong(t)
      PROVE  Grammatical'
  <2>1. phase = "parse" /\ values' = values /\ round' = round
        BY <1>1 DEF Sign, Digits, Separator, Comma, Wrong, Consume
  <2>q. QED  BY <1>0, <1>1, <2>1, TokenKeeps DEF Grammatical
<1>2. CASE EndText
  <2> SUFFICES ASSUME values = {} \/ round = 2
               PROVE  Grammatical'
      BY <1>2 DEF EndText, Grammatical
  <2>1. /\ phase = "parse" /\ want = "after" /\ read' = read
        /\ EndElement(phase' = "combine" /\ left' = DOMAIN ranges' /\ UNCHANGED error)
        BY <1>2 DEF EndText, AtEnd
  <2>2. read \in Seq(TokenType) /\ Reading
        BY <2>1 DEF Grammatical
  <2>3. PICK b : ReadUpTo(b)
        BY <2>2 DEF Reading
  <2>4. \/ phase' = "combine" /\ Matched(Pieces(read), ranges')
        \/ phase' = "failed" /\ ranges' = ranges /\ Hopeless(Pieces(read))
        BY <1>0, <2>1, <2>2, <2>3, ElementMatches
  <2>q. QED  BY <2>1, <2>2, <2>4 DEF Grammatical
<1>3. CASE EndTooSoon
  <2> SUFFICES ASSUME values = {} \/ round = 2
               PROVE  Grammatical'
      BY <1>3 DEF EndTooSoon, Grammatical
  <2>1. /\ phase = "parse" /\ want \in {"number", "digits"} /\ phase' = "failed" /\ read' = read
        BY <1>0, <1>3 DEF EndTooSoon, AtEnd, Fail, parserVars, ParserType
  <2>2. read \in Seq(TokenType) /\ Reading
        BY <2>1 DEF Grammatical
  <2>3. PICK b : ReadUpTo(b)
        BY <2>2 DEF Reading
  <2> DEFINE w == LastPiece(read, b)[2]
  <2>4. LastComma(read, b) /\ Halfway(w, want, nums) /\ nums \in Seq(Int)
        BY <1>0, <2>3 DEF ReadUpTo, ParserType
  <2>5. w \in Seq(TokenType) /\ LastPiece(read, b) \in Pieces(read)
        BY <2>2, <2>4, LastElement
  <2> HIDE DEF w
  <2>6. Readings(w) = {}
        BY <2>1, <2>4, <2>5, Unfinished
  <2>7. Hopeless(Pieces(read))
        BY <2>5, <2>6 DEF Hopeless, w
  <2>q. QED  BY <2>1, <2>2, <2>7 DEF Grammatical
<1>4. CASE ExtendRun
  <2>1. phase = "list" /\ round' = round /\ values' = values
        BY <1>4 DEF ExtendRun
  <2>2. values # {} /\ round = 1
        BY <1>0, <2>1 DEF Stages
  <2>q. QED  BY <2>1, <2>2 DEF Grammatical
<1>5. CASE EndList
  <2>1. phase = "list" /\ round' = round /\ values' = values
        BY <1>5 DEF EndList
  <2>2. values # {} /\ round = 1
        BY <1>0, <2>1 DEF Stages
  <2>q. QED  BY <2>1, <2>2 DEF Grammatical
<1>6. CASE Join
      BY <1>6 DEF Join, Grammatical, parserVars
<1>7. CASE Validate
  <2>1. /\ phase = "combine" /\ left = {} /\ UNCHANGED <<read, ranges, values, round>>
        /\ (IF Overlaps THEN phase' = "failed" ELSE phase' = "built")
        BY <1>7 DEF Validate, Fail, parserVars
  <2>2. Overlaps => ~AllClear(ranges, DOMAIN ranges)
        BY <1>0, <2>1 DEF Stages, Combining, Taken
  <2>q. QED  BY <2>1, <2>2 DEF Grammatical
<1>8. CASE Reparse
  <2>1. phase' = "parse" /\ read' = <<>> /\ want' = "number" /\ nums' = <<>> /\ ranges' = <<>>
        BY <1>8 DEF Reparse
  <2>2. ReadUpTo(0)'
        BY <2>1, NothingRead DEF ReadUpTo
  <2>3. <<>> \in Seq(TokenType)
        OBVIOUS
  <2>q. QED  BY <2>1, <2>2, <2>3 DEF Grammatical, Reading
<1>9. CASE UNCHANGED vars
  <2>1. UNCHANGED <<phase, round, read, want, nums, ranges, values>>
        BY <1>9 DEF vars, parserVars
  <2>2. Reading' <=> Reading
        BY <2>1 DEF Reading, ReadUpTo
  <2>q. QED  BY <2>1, <2>2 DEF Grammatical
<1>q. QED  BY <1>1, <1>2, <1>3, <1>4, <1>5, <1>6, <1>7, <1>8, <1>9 DEF Next

\* In every state the ranges and the failure are those of the text as it is
\* written: the parser has cut it where the grammar does.
THEOREM GrammarInv == Spec => [](Inv /\ Grammatical)
<1>1. Init => Inv /\ Grammatical
      BY InitInv, InitGrammar
<1>2. Inv /\ Grammatical /\ [Next]_vars => (Inv /\ Grammatical)'
      BY StepTypes, StepStages, StepDenotes, StepGrammar DEF Inv
<1>q. QED  BY <1>1, <1>2, PTL DEF Spec

\* Two ranges lie apart exactly if they are clear of one another.
LEMMA ApartIsClear ==
    ASSUME NEW r, NEW s, Canonical(r), Canonical(s)
    PROVE  Apart(Elements(r), Elements(s)) <=> Clear(r, s)
<1>1. /\ r.start \in Elements(r) /\ r.end \in Elements(r)
      /\ \A v \in Elements(r) : v \in Int /\ r.start <= v /\ v <= r.end
      BY ElementsOfRange
<1>2. /\ s.start \in Elements(s) /\ s.end \in Elements(s)
      /\ \A v \in Elements(s) : v \in Int /\ s.start <= v /\ v <= s.end
      BY ElementsOfRange
<1>3. r.start \in Int /\ r.end \in Int /\ s.start \in Int /\ s.end \in Int
      BY <1>1, <1>2
<1>4. (\A v \in Elements(r), w \in Elements(s) : v < w) <=> r.end < s.start
      BY <1>1, <1>2, <1>3
<1>5. (\A v \in Elements(r), w \in Elements(s) : v > w) <=> s.end < r.start
      BY <1>1, <1>2, <1>3
<1>q. QED  BY <1>4, <1>5 DEF Apart, Clear

\* An element of a text means the values of its range.
Means(q) == UNION {Meaning(x) : x \in Readings(q)}
LEMMA ElementMeans ==
    ASSUME NEW q, NEW r, ElementOf(q, r)
    PROVE  Means(q) = Elements(r) /\ \E x \in Readings(q) : Sensible(x)
<1>1. PICK x \in Int \X Int \X Int : Readings(q) = {x} /\ Sensible(x) /\ r = IntRange(x[1], x[2], x[3])
      BY DEF ElementOf
<1>2. x[1] \in Int /\ x[2] \in Int /\ x[3] \in Int /\ x = <<x[1], x[2], x[3]>>
      OBVIOUS
<1>3. Elements(r) = Meaning(x)
  <2>1. WellFormed(x[1], x[2], x[3])
        BY <1>1 DEF Sensible
  <2>2. Elements(IntRange(x[1], x[2], x[3])) = Meaning(<<x[1], x[2], x[3]>>)
        BY <1>2, <2>1, RangeMeans
  <2>q. QED  BY <1>1, <1>2, <2>2
<1>4. Means(q) = Meaning(x)
      BY <1>1 DEF Means
<1>q. QED  BY <1>1, <1>3, <1>4

\* Where every element has its range, the elements lie apart exactly if the
\* ranges are clear of one another, and mean the values of the ranges.
LEMMA MatchedMeans ==
    ASSUME NEW P, NEW rs, AreRanges(rs), Matched(P, rs)
    PROVE  /\ \A p \in P : \E x \in Readings(p[2]) : Sensible(x)
           /\ (\A p, q \in P : p # q => Apart(Means(p[2]), Means(q[2]))) <=> AllClear(rs, DOMAIN rs)
           /\ UNION {Means(p[2]) : p \in P} = Covered(rs, DOMAIN rs)
<1>1. PICK f : Matches(f, P, rs)
      BY DEF Matched
<1>2. /\ P = {f[k] : k \in DOMAIN rs} /\ \A j, k \in DOMAIN rs : f[j] = f[k] => j = k
      /\ \A k \in DOMAIN rs : ElementOf(f[k][2], rs[k])
      BY <1>1 DEF Matches
<1>3. \A k \in DOMAIN rs : Means(f[k][2]) = Elements(rs[k]) /\ \E x \in Readings(f[k][2]) : Sensible(x)
      BY <1>2, ElementMeans
<1>4. \A p \in P : \E x \in Readings(p[2]) : Sensible(x)
      BY <1>2, <1>3
<1>5. \A j, k \in DOMAIN rs : Apart(Means(f[j][2]), Means(f[k][2])) <=> Clear(rs[j], rs[k])
  <2>1. \A j, k \in DOMAIN rs : Apart(Elements(rs[j]), Elements(rs[k])) <=> Clear(rs[j], rs[k])
        BY ApartIsClear DEF AreRanges
  <2>q. QED  BY <1>3, <2>1
<1>6. (\A p, q \in P : p # q => Apart(Means(p[2]), Means(q[2]))) <=> AllClear(rs, DOMAIN rs)
      BY <1>2, <1>5 DEF AllClear
<1>7. UNION {Means(p[2]) : p \in P} = Covered(rs, DOMAIN rs)
  <2>1. {Means(p[2]) : p \in P} = {Elements(rs[k]) : k \in DOMAIN rs}
        BY <1>2, <1>3
  <2>q. QED  BY <2>1 DEF Covered
<1>q. QED  BY <1>4, <1>6, <1>7

\* A text gives an expression exactly if its elements are ranges that make sense
\* and lie apart, and the expression has the values that they mean.
THEOREM GrammarIsParsed == Spec => []ParsesTheGrammar
<1>1. Inv /\ Grammatical => ParsesTheGrammar
  <2> SUFFICES ASSUME Inv, Grammatical, Finished, values = {} \/ round = 2
               PROVE  ParsesTheGrammar
      BY DEF ParsesTheGrammar
  <2> DEFINE P == Pieces(read)
             Sense == \A p \in P : \E x \in Readings(p[2]) : Sensible(x)
             Separate == \A p, q \in P : p # q => Apart(Means(p[2]), Means(q[2]))
  <2>1. Types /\ Stages /\ AreRanges(ranges)
        BY DEF Inv, Types
  <2>2. Matched(P, ranges) => /\ Sense /\ (Separate <=> AllClear(ranges, DOMAIN ranges))
                              /\ UNION {Means(p[2]) : p \in P} = Covered(ranges, DOMAIN ranges)
        BY <2>1, MatchedMeans
  <2>3. phase = "built" => /\ Matched(P, ranges) /\ AllClear(ranges, DOMAIN ranges)
                           /\ Denoted = Covered(ranges, DOMAIN ranges)
        BY <2>1, BuiltDenotes DEF Grammatical
  <2>4. Hopeless(P) => ~Sense
        BY DEF Hopeless
  <2>5. phase = "failed" => Hopeless(P) \/ (Matched(P, ranges) /\ ~AllClear(ranges, DOMAIN ranges))
        BY DEF Grammatical
  <2> HIDE DEF Sense, Separate
  <2>6. phase = "built" <=> Sense /\ Separate
        BY <2>2, <2>3, <2>4, <2>5 DEF Finished
  <2>7. phase = "built" => Denoted = UNION {Means(p[2]) : p \in P}
        BY <2>2, <2>3
  <2>q. QED  BY <2>6, <2>7 DEF ParsesTheGrammar, Means, Sense, Separate
<1>q. QED  BY <1>1, GrammarInv, PTL
=============================================================================
