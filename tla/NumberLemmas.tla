----------------------------- MODULE NumberLemmas -----------------------------
(***************************************************************************)
(* Lemmas on numbers that several components need: induction, functions    *)
(* defined by recursion on an interval, quotients and remainders.          *)
(*                                                                         *)
(* What is to hold of a number is said by a set: the induction theorems of *)
(* the library take an operator, which the provers here cannot supply.     *)
(***************************************************************************)
EXTENDS Integers, WellFoundedInduction, TLAPS

-----------------------------------------------------------------------------
(* 1. Induction and recursion *)

\* A set of naturals that is not empty has a least element.
LEMMA LeastElement ==
    ASSUME NEW S \in SUBSET Nat, S # {}
    PROVE  \E m \in S : \A k \in S : m <= k
<1>1. PICK m \in S : \A k \in S : ~(<<k, m>> \in OpToRel(<, Nat))
  BY NatLessThanWellFounded, WFMin
<1>2. \A k \in S : ~(k < m)
  BY <1>1 DEF OpToRel
<1>3. QED
  BY <1>2

\* What holds at the lower end of an interval and goes from a number to the
\* next one holds in the whole interval.
LEMMA IntervalInduction ==
    ASSUME NEW lo \in Int, NEW hi \in Int, NEW S,
           lo <= hi => lo \in S,
           \A n \in lo .. hi - 1 : n \in S => n + 1 \in S
    PROVE  \A n \in lo .. hi : n \in S
<1> SUFFICES ASSUME NEW x \in lo .. hi, x \notin S
             PROVE  FALSE
  OBVIOUS
<1> DEFINE Bad == {k \in Nat : k <= hi - lo /\ lo + k \notin S}
<1>1. x - lo \in Bad
  OBVIOUS
<1>2. Bad \in SUBSET Nat /\ Bad # {}
  BY <1>1
<1> HIDE DEF Bad
<1>3. PICK k \in Bad : \A j \in Bad : k <= j
  BY <1>2, LeastElement
<1>4. k \in Nat /\ k <= hi - lo /\ lo + k \notin S
  BY <1>3 DEF Bad
<1>5. k # 0
  BY <1>4
<1>6. k - 1 \notin Bad /\ k - 1 \in Nat
  BY <1>3, <1>4, <1>5
<1>7. lo + (k - 1) \in S
  BY <1>4, <1>6 DEF Bad
<1>8. lo + (k - 1) \in lo .. hi - 1
  BY <1>4, <1>5
<1>9. QED
  BY <1>4, <1>7, <1>8

\* A function on 0 .. n may be defined by its first value and by how each value,
\* in a set T, leads to the next: Turn[i] leads from value i - 1 to value i.
Turns(n, T) == [1 .. n -> [T -> T]]
Follows(g, n, T, start, Turn) ==
    /\ g \in [0 .. n -> T] /\ g[0] = start
    /\ \A i \in 1 .. n : g[i] = Turn[i][g[i - 1]]

\* A recursion whose steps stay in T has a solution, with values in T.
LEMMA RecursionHasSolution ==
    ASSUME NEW hi \in Nat, NEW T, NEW start \in T, NEW Turn \in Turns(hi, T)
    PROVE  \E g : Follows(g, hi, T, start, Turn)
<1> DEFINE S == {n \in 0 .. hi : \E g : Follows(g, n, T, start, Turn)}
<1>1. 0 \in S
  <2> DEFINE g == [i \in 0 .. 0 |-> start]
  <2>1. Follows(g, 0, T, start, Turn)
    BY DEF Follows
  <2> HIDE DEF g
  <2>2. 0 \in 0 .. hi
    OBVIOUS
  <2>3. QED
    BY <2>1, <2>2
<1>2. ASSUME NEW n \in 0 .. hi - 1, n \in S
      PROVE  n + 1 \in S
  <2>1. PICK g : Follows(g, n, T, start, Turn)
    BY <1>2
  <2> DEFINE h == [i \in 0 .. n + 1 |-> IF i = n + 1 THEN Turn[n + 1][g[n]] ELSE g[i]]
  <2>2. n + 1 \in 1 .. hi /\ n \in 0 .. n
    OBVIOUS
  <2>3. Turn[n + 1][g[n]] \in T
    BY <2>1, <2>2 DEF Follows, Turns
  <2>4. h \in [0 .. n + 1 -> T]
    BY <2>1, <2>3 DEF Follows
  <2>5. h[0] = start
    BY <2>1, <2>2 DEF Follows
  <2>6. ASSUME NEW i \in 1 .. n + 1
        PROVE  h[i] = Turn[i][h[i - 1]]
    <3>1. CASE i = n + 1
      BY <3>1, <2>2
    <3>2. CASE i # n + 1
      <4>1. i \in 1 .. n /\ i - 1 \in 0 .. n /\ i - 1 # n + 1
        BY <3>2
      <4>2. h[i] = g[i] /\ h[i - 1] = g[i - 1]
        BY <4>1, <3>2
      <4>3. QED
        BY <2>1, <4>1, <4>2 DEF Follows
    <3>3. QED
      BY <3>1, <3>2
  <2> HIDE DEF h
  <2>7. Follows(h, n + 1, T, start, Turn)
    BY <2>4, <2>5, <2>6 DEF Follows
  <2>8. QED
    BY <2>7
<1>3. hi \in S
  <2> HIDE DEF S
  <2>1. \A n \in 0 .. hi : n \in S
    BY <1>1, <1>2, IntervalInduction
  <2>2. QED
    BY <2>1
<1>4. QED
  BY <1>3

\* A solution is the function that the recursion defines, and no step leaves T.
LEMMA FollowsSteps ==
    ASSUME NEW hi \in Nat, NEW T, NEW start, NEW Turn, NEW g, Follows(g, hi, T, start, Turn)
    PROVE  /\ \A i \in 1 .. hi : g[i - 1] \in T
           /\ g = [i \in 0 .. hi |-> IF i = 0 THEN start ELSE Turn[i][g[i - 1]]]
<1>1. \A i \in 1 .. hi : i - 1 \in 0 .. hi
  OBVIOUS
<1>2. \A i \in 0 .. hi : i # 0 => i \in 1 .. hi
  OBVIOUS
<1>3. QED
  BY <1>1, <1>2 DEF Follows

-----------------------------------------------------------------------------
(* 2. Quotients and remainders *)

\* What quotient and remainder are.
LEMMA DivMod ==
    ASSUME NEW a \in Nat, NEW d \in Nat \ {0}
    PROVE  a \div d \in Nat /\ a % d \in 0 .. d - 1 /\ a = d * (a \div d) + (a % d)
<1>1. a \div d \in Int /\ d * (a \div d) <= a /\ a < d * (a \div d) + d
  OBVIOUS
<1>2. a % d \in 0 .. d - 1
  OBVIOUS
<1>3. a = d * (a \div d) + (a % d)
  OBVIOUS
<1> DEFINE q == a \div d
<1>4. q \in Int /\ a < d * q + d
  BY <1>1
<1> HIDE DEF q
<1>5. q >= 0
  <2>1. q <= -1 => d * q <= -d
    BY <1>4
  <2>2. QED
    BY <1>4, <2>1
<1>6. QED
  BY <1>2, <1>3, <1>4, <1>5 DEF q

\* The quotient is the largest number whose product does not exceed a.
LEMMA DivFloor ==
    ASSUME NEW a \in Nat, NEW d \in Nat \ {0}
    PROVE  a \div d \in Nat /\ d * (a \div d) <= a
<1> DEFINE q == a \div d  r == a % d
<1>1. q \in Nat /\ r \in 0 .. d - 1 /\ a = d * q + r
  BY DivMod
<1> HIDE DEF q, r
<1>2. d * q <= a
  BY <1>1
<1>3. QED
  BY <1>1, <1>2 DEF q

\* A number below d * q has a quotient below q.
LEMMA DivBelow ==
    ASSUME NEW a \in Nat, NEW d \in Nat \ {0}, NEW q \in Nat, a < d * q
    PROVE  a \div d < q
BY DivMod

\* Only one quotient and one remainder make up a number.
LEMMA DivModUnique ==
    ASSUME NEW d \in Nat \ {0}, NEW q \in Nat, NEW r \in 0 .. d - 1
    PROVE  (d * q + r) \div d = q /\ (d * q + r) % d = r
<1> DEFINE a == d * q + r
<1>1. a \in Nat
  OBVIOUS
<1>2. a \div d \in Nat /\ a % d \in 0 .. d - 1 /\ a = d * (a \div d) + (a % d)
  BY <1>1, DivMod
<1> DEFINE p == a \div d  s == a % d
<1>3. p \in Nat /\ s \in 0 .. d - 1 /\ d * p + s = d * q + r
  BY <1>2
<1> HIDE DEF p, s
<1>4. d * (p - q) = r - s /\ r - s < d /\ s - r < d
  BY <1>3
<1>5. p - q = 0
  <2>1. p - q >= 1 => d * (p - q) >= d
    BY <1>3
  <2>2. p - q <= -1 => d * (p - q) <= -d
    BY <1>3
  <2>3. QED
    BY <1>3, <1>4, <2>1, <2>2
<1>6. p = q /\ s = r
  BY <1>3, <1>5
<1>7. QED
  BY <1>6 DEF p, s

\* Two digits d * q + r number the pairs of a q below n and an r below d.
LEMMA DigitsBelow ==
    ASSUME NEW d \in Nat \ {0}, NEW n \in Nat, NEW q \in 0 .. n - 1, NEW r \in 0 .. d - 1
    PROVE  d * q + r \in 0 .. d * n - 1
<1>1. q + 1 <= n /\ d * (q + 1) = d * q + d
  OBVIOUS
<1>2. d * (q + 1) <= d * n
  BY <1>1
<1>3. QED
  BY <1>1, <1>2

\* Dividing by one factor after the other.
LEMMA DivDiv ==
    ASSUME NEW a \in Nat, NEW d \in Nat \ {0}, NEW e \in Nat \ {0}
    PROVE  a \div (d * e) = (a \div d) \div e
<1> DEFINE q == a \div d  r == a % d  p == q \div e  s == q % e
<1>1. q \in Nat /\ r \in 0 .. d - 1 /\ a = d * q + r
  BY DivMod
<1>2. p \in Nat /\ s \in 0 .. e - 1 /\ q = e * p + s
  BY <1>1, DivMod
<1> HIDE DEF q, r, p, s
<1>3. d * s + r \in 0 .. d * e - 1 /\ d * e \in Nat \ {0}
  BY <1>1, <1>2, DigitsBelow
<1>4. a = (d * e) * p + (d * s + r)
  BY <1>1, <1>2
<1>5. a \div (d * e) = p
  BY <1>2, <1>3, <1>4, DivModUnique
<1>6. QED
  BY <1>5 DEF q, p

\* A multiple of d that is not above a has a factor not above the quotient.
LEMMA DivAtLeast ==
    ASSUME NEW a \in Nat, NEW d \in Nat \ {0}, NEW q \in Nat, d * q <= a
    PROVE  q <= a \div d
<1> DEFINE p == a \div d  s == a % d
<1>1. p \in Nat /\ s \in 0 .. d - 1 /\ a = d * p + s
  BY DivMod
<1> HIDE DEF p, s
<1>2. q >= p + 1 => d * q >= d * (p + 1)
  BY <1>1
<1>3. d * (p + 1) = d * p + d
  BY <1>1
<1>4. QED
  BY <1>1, <1>2, <1>3 DEF p

\* Rounding up: the numbers below n lie in (n + d - 1) \div d groups of d.
LEMMA RoundUp ==
    ASSUME NEW n \in Nat, NEW d \in Nat \ {0}
    PROVE  /\ (n + d - 1) \div d \in Nat
           /\ n > 0 => (n + d - 1) \div d > 0
           /\ n = 0 => (n + d - 1) \div d = 0
           /\ \A a \in 0 .. n - 1 : a \div d < (n + d - 1) \div d
<1>1. n + d - 1 \in Nat
  OBVIOUS
<1>2. (n + d - 1) \div d \in Nat
  BY <1>1, DivMod
<1>3. ASSUME n > 0 PROVE (n + d - 1) \div d > 0
  <2>1. d * 1 <= n + d - 1
    BY <1>3
  <2>2. 1 <= (n + d - 1) \div d
    BY <1>1, <2>1, DivAtLeast
  <2>3. QED
    BY <1>2, <2>2
<1>4. ASSUME n = 0 PROVE (n + d - 1) \div d = 0
  <2>1. n + d - 1 < d * 1
    BY <1>4
  <2>2. (n + d - 1) \div d < 1
    BY <1>1, <2>1, DivBelow
  <2>3. QED
    BY <1>2, <2>2
<1>5. ASSUME NEW a \in 0 .. n - 1 PROVE a \div d < (n + d - 1) \div d
  <2> DEFINE q == a \div d
  <2>0. a \in Nat
    OBVIOUS
  <2>1. q \in Nat /\ a % d \in 0 .. d - 1 /\ a = d * q + (a % d)
    BY <2>0, DivMod
  <2> HIDE DEF q
  <2>2. q + 1 \in Nat /\ d * (q + 1) = d * q + d
    BY <2>1
  <2>3. d * (q + 1) <= n + d - 1
    BY <2>1, <2>2
  <2>4. q + 1 <= (n + d - 1) \div d
    BY <1>1, <2>2, <2>3, DivAtLeast
  <2>5. QED
    BY <1>2, <2>1, <2>4 DEF q
<1>6. QED
  BY <1>2, <1>3, <1>4, <1>5
=============================================================================
