----------------------------- MODULE OrderLemmas -----------------------------
(***************************************************************************)
(* Least and greatest elements, what is reached step by step, and the      *)
(* first ones and the places of a finite set in a total order: what the    *)
(* proofs about limits, rankings and the lines of an answer rest on.       *)
(***************************************************************************)
EXTENDS Integers, FiniteSetTheorems, WellFoundedInduction, TLAPS

(* The elements of S that come before s in the order R, and the elements   *)
(* that fewer than n come before                                           *)
Before(S, R, s) == {t \in S : <<t, s>> \in R}
FirstOf(S, R, n) == {s \in S : Cardinality(Before(S, R, s)) < n}

TotalOrderOf(S, R) ==
  /\ \A s \in S : <<s, s>> \notin R
  /\ \A s, t, u \in S : <<s, t>> \in R /\ <<t, u>> \in R => <<s, u>> \in R
  /\ \A s, t \in S : s = t \/ <<s, t>> \in R \/ <<t, s>> \in R

(* A set of naturals has a least element, and a greatest one if it is      *)
(* bounded.                                                                *)
LEMMA LeastNatural ==
  ASSUME NEW T, T \subseteq Nat, T # {}
  PROVE  \E x \in T : \A y \in T : x <= y
<1>1. PICK x \in T : \A y \in T : ~(<<y, x>> \in OpToRel(<, Nat))
  BY NatLessThanWellFounded, WFMin
<1>2. \A y \in T : ~(y < x)
  BY <1>1 DEF OpToRel
<1> QED
  BY <1>2

LEMMA GreatestNatural ==
  ASSUME NEW T, T \subseteq Nat, T # {}, NEW n \in Nat, \A x \in T : x <= n
  PROVE  \E x \in T : \A y \in T : y <= x
<1> DEFINE gaps == {n - x : x \in T}
<1>1. gaps \subseteq Nat /\ gaps # {}
  <2>1. \A x \in T : n - x \in Nat
    OBVIOUS
  <2> QED
    BY <2>1
<1>2. PICK g \in gaps : \A h \in gaps : g <= h
  BY <1>1, LeastNatural
<1>3. PICK x \in T : g = n - x
  OBVIOUS
<1>4. ASSUME NEW y \in T PROVE y <= x
  <2>1. g <= n - y
    BY <1>2
  <2> QED
    BY <1>3, <2>1
<1> QED
  BY <1>4

(* What holds of 0 and passes from each number to the next holds up to n.  *)
LEMMA UpTo ==
  ASSUME NEW n \in Nat, NEW T, 0 \in T, \A i \in 1 .. n : i - 1 \in T => i \in T
  PROVE  \A i \in 0 .. n : i \in T
<1> SUFFICES ASSUME NEW k \in 0 .. n, k \notin T PROVE FALSE
  OBVIOUS
<1> DEFINE missing == {i \in 0 .. n : i \notin T}
<1>1. PICK m \in missing : \A i \in missing : m <= i
  <2>1. missing \subseteq Nat /\ missing # {}
    OBVIOUS
  <2> QED
    BY <2>1, LeastNatural
<1>2. m \in 1 .. n /\ m - 1 \in 0 .. n
  OBVIOUS
<1>3. m - 1 \in T
  <2>1. m - 1 \notin missing
    BY <1>1, <1>2
  <2> QED
    BY <1>2, <2>1
<1> QED
  BY <1>2, <1>3

(* A step for each number up to n that does not leave S, and the course    *)
(* these steps take from a start                                           *)
StaysIn(S, step, n) == \A i \in 1 .. n, s \in S : step[i][s] \in S

IsCourse(g, S, start, step, n) ==
  /\ g \in [0 .. n -> S] /\ g[0] = start
  /\ \A i \in 1 .. n : g[i] = step[i][g[i - 1]]

(* From a start such steps can be taken, one after the other.              *)
LEMMA Iteration ==
  ASSUME NEW S, NEW n \in Nat, NEW start \in S, NEW step, StaysIn(S, step, n)
  PROVE  \E g : IsCourse(g, S, start, step, n)
<1> DEFINE Course(g, k) == /\ g \in [0 .. k -> S] /\ g[0] = start
                           /\ \A i \in 1 .. k : g[i] = step[i][g[i - 1]]
           T == {k \in 0 .. n : \E g : Course(g, k)}
<1>1. 0 \in T
  <2> DEFINE g == [i \in 0 .. 0 |-> start]
  <2>1. Course(g, 0)
    OBVIOUS
  <2> HIDE DEF g, Course
  <2> QED
    BY <2>1
<1>2. ASSUME NEW k \in 1 .. n, k - 1 \in T PROVE k \in T
  <2>1. PICK g : Course(g, k - 1)
    BY <1>2
  <2> DEFINE h == [i \in 0 .. k |-> IF i = k THEN step[k][g[k - 1]] ELSE g[i]]
  <2>2. g[k - 1] \in S
    BY <2>1
  <2>a. step[k][g[k - 1]] \in S
    BY <2>2 DEF StaysIn
  <2>3. h \in [0 .. k -> S]
    <3> SUFFICES ASSUME NEW i \in 0 .. k PROVE h[i] \in S
      OBVIOUS
    <3>1. CASE i = k
      BY <2>a, <3>1
    <3>2. CASE i # k
      BY <2>1, <3>2
    <3> QED
      BY <3>1, <3>2
  <2>4. h[0] = start
    BY <2>1
  <2>5. ASSUME NEW i \in 1 .. k PROVE h[i] = step[i][h[i - 1]]
    <3>1. h[i - 1] = g[i - 1]
      OBVIOUS
    <3>2. CASE i = k
      BY <3>1, <3>2
    <3>3. CASE i # k
      <4>1. i \in 1 .. k - 1
        BY <3>3
      <4> QED
        BY <2>1, <3>1, <3>3, <4>1
    <3> QED
      BY <3>2, <3>3
  <2>6. Course(h, k)
    BY <2>3, <2>4, <2>5
  <2> HIDE DEF h, Course
  <2> QED
    BY <2>6
<1>3. n \in T
  <2> HIDE DEF T
  <2> QED
    BY <1>1, <1>2, UpTo
<1>4. PICK g : Course(g, n)
  BY <1>3
<1>5. IsCourse(g, S, start, step, n)
  BY <1>4 DEF IsCourse
<1> QED
  BY <1>5

(* What comes before an element comes before all that it comes before.     *)
LEMMA BeforeGrows ==
  ASSUME NEW S, IsFiniteSet(S), NEW R, TotalOrderOf(S, R)
  PROVE  /\ \A s \in S : /\ IsFiniteSet(Before(S, R, s))
                         /\ Cardinality(Before(S, R, s)) \in Nat
         /\ \A s, t \in S : <<t, s>> \in R =>
              Cardinality(Before(S, R, t)) < Cardinality(Before(S, R, s))
<1>1. ASSUME NEW s \in S
      PROVE  IsFiniteSet(Before(S, R, s)) /\ Cardinality(Before(S, R, s)) \in Nat
  <2>1. Before(S, R, s) \in SUBSET S
    BY DEF Before
  <2> QED
    BY <2>1, FS_Subset, FS_CardinalityType
<1>2. ASSUME NEW s \in S, NEW t \in S, <<t, s>> \in R
      PROVE  Cardinality(Before(S, R, t)) < Cardinality(Before(S, R, s))
  <2>1. Before(S, R, t) \in SUBSET Before(S, R, s)
    BY <1>2 DEF Before, TotalOrderOf
  <2>2. t \in Before(S, R, s) /\ t \notin Before(S, R, t)
    BY <1>2 DEF Before, TotalOrderOf
  <2>3. /\ Cardinality(Before(S, R, t)) <= Cardinality(Before(S, R, s))
        /\ Cardinality(Before(S, R, s)) # Cardinality(Before(S, R, t))
    BY <1>1, <2>1, <2>2, FS_Subset
  <2> QED
    BY <1>1, <2>3
<1> QED
  BY <1>1, <1>2

(* The first n of a finite set are n, or they are the whole set.           *)
LEMMA FirstAreAsMany ==
  ASSUME NEW S, IsFiniteSet(S), NEW R, TotalOrderOf(S, R), NEW n \in Nat
  PROVE  /\ FirstOf(S, R, n) \subseteq S /\ IsFiniteSet(FirstOf(S, R, n))
         /\ Cardinality(FirstOf(S, R, n)) \in Nat
         /\ Cardinality(FirstOf(S, R, n)) <= n
         /\ FirstOf(S, R, n) # S => Cardinality(FirstOf(S, R, n)) = n
<1> DEFINE before(s) == Before(S, R, s)
           place(s) == Cardinality(before(s))
           X == FirstOf(S, R, n)
<1>a. /\ \A s \in S : IsFiniteSet(before(s)) /\ place(s) \in Nat
      /\ \A s, t \in S : <<t, s>> \in R => place(t) < place(s)
  BY BeforeGrows
<1>b. X = {s \in S : place(s) < n}
  BY DEF FirstOf
<1>c. \A s, t \in S : t \in before(s) <=> <<t, s>> \in R
  BY DEF Before
<1>d. \A s \in S : before(s) \subseteq S
  BY DEF Before
<1> HIDE DEF before, place, X
<1>1. X \in SUBSET S /\ IsFiniteSet(X) /\ Cardinality(X) \in Nat
  BY <1>b, FS_Subset, FS_CardinalityType
<1>2. Cardinality(X) <= n
  <2>1. CASE X = {}
    BY <2>1, FS_EmptySet
  <2>2. CASE X # {}
    <3> DEFINE places == {place(s) : s \in X}
    <3>1. places \subseteq Nat /\ places # {} /\ \A p \in places : p <= n
      BY <1>a, <1>b, <2>2
    <3>2. PICK p \in places : \A q \in places : q <= p
      BY <3>1, GreatestNatural
    <3>3. PICK g \in X : p = place(g)
      OBVIOUS
    <3>4. X \in SUBSET (before(g) \cup {g})
      <4> SUFFICES ASSUME NEW x \in X, x # g PROVE x \in before(g)
        OBVIOUS
      <4>1. place(x) <= place(g) /\ place(x) \in Nat /\ place(g) \in Nat
        BY <1>a, <1>b, <3>2, <3>3
      <4>2. <<g, x>> \notin R
        BY <1>a, <1>1, <4>1
      <4> QED
        BY <1>1, <1>c, <4>2 DEF TotalOrderOf
    <3>5. /\ IsFiniteSet(before(g) \cup {g})
          /\ Cardinality(before(g) \cup {g}) <= place(g) + 1
      <4>1. IsFiniteSet(before(g)) /\ g \in S
        BY <1>1, <1>a
      <4>2. g \notin before(g)
        BY <1>c, <4>1 DEF TotalOrderOf
      <4>3. /\ IsFiniteSet(before(g) \cup {g})
            /\ Cardinality(before(g) \cup {g}) = Cardinality(before(g)) + 1
        BY <4>1, <4>2, FS_AddElement
      <4>4. place(g) \in Nat /\ place(g) = Cardinality(before(g))
        BY <1>a, <4>1 DEF place
      <4> QED
        BY <4>3, <4>4
    <3>6. Cardinality(X) <= Cardinality(before(g) \cup {g})
      BY <3>4, <3>5, FS_Subset
    <3>7. place(g) \in Nat /\ place(g) < n
      BY <1>a, <1>b
    <3>8. Cardinality(before(g) \cup {g}) \in Nat
      BY <3>5, FS_CardinalityType
    <3> QED
      BY <1>1, <3>5, <3>6, <3>7, <3>8
  <2> QED
    BY <2>1, <2>2
<1>3. ASSUME X # S PROVE n <= Cardinality(X)
  <2> DEFINE rest == S \ X
             places == {place(s) : s \in rest}
  <2>1. places \subseteq Nat /\ places # {}
    BY <1>a, <1>1, <1>3
  <2>2. PICK p \in places : \A q \in places : p <= q
    BY <2>1, LeastNatural
  <2>3. PICK m \in rest : p = place(m)
    OBVIOUS
  <2>4. before(m) \in SUBSET X
    <3> SUFFICES ASSUME NEW t \in before(m), t \notin X PROVE FALSE
      OBVIOUS
    <3>1. t \in S /\ t \in rest /\ m \in S
      BY <1>d
    <3>2. place(m) <= place(t) /\ place(t) < place(m)
      BY <1>a, <1>c, <2>2, <2>3, <3>1
    <3> QED
      BY <1>a, <3>1, <3>2
  <2>5. place(m) <= Cardinality(X)
    BY <1>1, <2>4, FS_Subset DEF place
  <2>6. place(m) \in Nat /\ ~(place(m) < n)
    BY <1>a, <1>b, <2>3
  <2> QED
    BY <1>1, <2>5, <2>6
<1> QED
  BY <1>1, <1>2, <1>3 DEF X

(* In a finite set each place is taken, by one element only.               *)
LEMMA PlacesAreTaken ==
  ASSUME NEW S, IsFiniteSet(S), NEW R, TotalOrderOf(S, R)
  PROVE  /\ Cardinality(S) \in Nat
         /\ \A s \in S : Cardinality(Before(S, R, s)) \in 0 .. Cardinality(S) - 1
         /\ \A s, t \in S :
              Cardinality(Before(S, R, s)) = Cardinality(Before(S, R, t)) => s = t
         /\ \A k \in 1 .. Cardinality(S) : \E s \in S : Cardinality(Before(S, R, s)) = k - 1
<1> DEFINE n == Cardinality(S)
           place(s) == Cardinality(Before(S, R, s))
<1>1. n \in Nat
  BY FS_CardinalityType
<1>2. \A s \in S : place(s) \in Nat
  BY BeforeGrows
<1>3. ASSUME NEW s \in S PROVE place(s) \in 0 .. n - 1
  <2>1. Before(S, R, s) \in SUBSET S /\ s \notin Before(S, R, s)
    BY DEF Before, TotalOrderOf
  <2>2. place(s) <= n /\ place(s) # n
    BY <2>1, FS_Subset
  <2> QED
    BY <1>1, <1>2, <2>2
<1>4. ASSUME NEW s \in S, NEW t \in S, place(s) = place(t) PROVE s = t
  <2>1. \A x, y \in S : <<x, y>> \in R => place(x) < place(y)
    BY BeforeGrows
  <2>2. s = t \/ <<s, t>> \in R \/ <<t, s>> \in R
    BY DEF TotalOrderOf
  <2> HIDE DEF place
  <2> QED
    BY <1>2, <1>4, <2>1, <2>2
<1>5. ASSUME NEW k \in 1 .. n PROVE \E s \in S : place(s) = k - 1
  <2> DEFINE more == FirstOf(S, R, k)
             less == FirstOf(S, R, k - 1)
  <2>1. k \in Nat /\ k - 1 \in Nat
    BY <1>1
  <2>2. /\ more \subseteq S /\ Cardinality(more) \in Nat /\ Cardinality(more) <= k
        /\ more # S => Cardinality(more) = k
    BY <2>1, FirstAreAsMany
  <2>3. /\ IsFiniteSet(less) /\ Cardinality(less) \in Nat /\ Cardinality(less) <= k - 1
    BY <2>1, FirstAreAsMany
  <2> HIDE DEF more, less
  <2>4. Cardinality(more) = k
    BY <1>1, <2>2
  <2>5. PICK s \in more : s \notin less
    <3> SUFFICES ASSUME more \in SUBSET less PROVE FALSE
      OBVIOUS
    <3>1. Cardinality(more) <= Cardinality(less)
      BY <2>3, FS_Subset
    <3> QED
      BY <2>1, <2>2, <2>3, <2>4, <3>1
  <2>6. s \in S /\ place(s) < k /\ ~(place(s) < k - 1)
    BY <2>2, <2>5 DEF more, less, FirstOf
  <2>7. place(s) \in Nat
    BY <1>2, <2>6
  <2> HIDE DEF place
  <2> QED
    BY <2>1, <2>6, <2>7
<1> QED
  BY <1>1, <1>3, <1>4, <1>5

(* A finite set of numbers has a greatest one.                             *)
LEMMA GreatestOfFinite ==
  ASSUME NEW S, S \subseteq Int, IsFiniteSet(S), S # {}
  PROVE  \E x \in S : \A y \in S : y <= x
<1> DEFINE R == {p \in S \X S : p[1] < p[2]}
<1>1. TotalOrderOf(S, R)
  BY DEF TotalOrderOf
<1>2. Cardinality(S) \in Nat /\ Cardinality(S) # 0
  BY FS_CardinalityType, FS_EmptySet
<1>3. PICK x \in S : Cardinality(Before(S, R, x)) = Cardinality(S) - 1
  <2> DEFINE n == Cardinality(S)
             place(x) == Cardinality(Before(S, R, x))
  <2>1. n \in 1 .. n
    BY <1>2
  <2>2. \A k \in 1 .. n : \E x \in S : place(x) = k - 1
    <3> HIDE DEF R
    <3> QED
      BY <1>1, PlacesAreTaken
  <2>3. \E x \in S : place(x) = n - 1
    <3> HIDE DEF n, place
    <3> QED
      BY <2>1, <2>2
  <2> QED
    BY <2>3
<1>4. ASSUME NEW y \in S, x < y PROVE FALSE
  <2>1. <<x, y>> \in R
    BY <1>4
  <2> HIDE DEF R
  <2>2. Cardinality(Before(S, R, x)) < Cardinality(Before(S, R, y))
    BY <1>1, <2>1, BeforeGrows
  <2>3. Cardinality(Before(S, R, y)) \in 0 .. Cardinality(S) - 1
    BY <1>1, PlacesAreTaken
  <2> QED
    BY <1>2, <1>3, <2>2, <2>3
<1> QED
  BY <1>4
=============================================================================
