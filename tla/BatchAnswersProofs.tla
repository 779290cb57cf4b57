-------------------------- MODULE BatchAnswersProofs --------------------------
(***************************************************************************)
(* What is made of the answers of a batch, for answers of any length: an   *)
(* ordering and a selection lose nothing and add nothing, the entities are *)
(* one of each session and source, and the lines of the work queue leave   *)
(* one candidate of each dataplane and session.                            *)
(***************************************************************************)
EXTENDS BatchAnswers, OrderLemmas, TLAPS

-----------------------------------------------------------------------------
(* Orderings, selections and sums                                          *)

(* What an order of a finite set makes of it has each element once.        *)
LEMMA InOrderHasAll ==
  ASSUME NEW S, IsFiniteSet(S), NEW R, TotalOrderOf(S, R)
  PROVE  /\ Cardinality(S) \in Nat
         /\ InOrder(S, R) \in [1 .. Cardinality(S) -> S]
         /\ \A e \in S : \E i \in 1 .. Cardinality(S) : InOrder(S, R)[i] = e
<1> DEFINE n == Cardinality(S)
           place(e) == Cardinality(Before(S, R, e))
           at(i) == CHOOSE e \in S : place(e) = i - 1
<1>1. /\ n \in Nat
      /\ \A e \in S : place(e) \in 0 .. n - 1
      /\ \A e, f \in S : place(e) = place(f) => e = f
      /\ \A i \in 1 .. n : \E e \in S : place(e) = i - 1
  BY PlacesAreTaken
<1>2. InOrder(S, R) = [i \in 1 .. n |-> at(i)]
  BY DEF InOrder, Before
<1> HIDE DEF n, place
<1>3. \A i \in 1 .. n : at(i) \in S /\ place(at(i)) = i - 1
  BY <1>1
<1>4. ASSUME NEW e \in S PROVE \E i \in 1 .. n : at(i) = e
  <2> DEFINE i == place(e) + 1
  <2>1. i \in 1 .. n /\ place(e) = i - 1
    BY <1>1
  <2> HIDE DEF i, at
  <2>2. at(i) \in S /\ place(at(i)) = place(e)
    BY <1>3, <2>1
  <2>3. at(i) = e
    BY <1>1, <2>2
  <2> QED
    BY <2>1, <2>3
<1> HIDE DEF at
<1> QED
  BY <1>1, <1>2, <1>3, <1>4 DEF n

(* So has what a finite set of numbers is in ascending order.              *)
LEMMA AscendingHasAll ==
  ASSUME NEW S, IsFiniteSet(S), S \subseteq Int
  PROVE  /\ Cardinality(S) \in Nat
         /\ Ascending(S) \in [1 .. Cardinality(S) -> S]
         /\ \A e \in S : \E i \in 1 .. Cardinality(S) : Ascending(S)[i] = e
<1> DEFINE R == {p \in S \X S : p[1] < p[2]}
<1>1. TotalOrderOf(S, R)
  BY DEF TotalOrderOf
<1>2. Ascending(S) = InOrder(S, R)
  BY DEF Ascending
<1> HIDE DEF R
<1> QED
  BY <1>1, <1>2, InOrderHasAll

(* What is selected of a sequence is what it has at those indexes.         *)
LEMMA SelectedAreThose ==
  ASSUME NEW X, NEW seq \in Seq(X), NEW at, at \subseteq DOMAIN seq
  PROVE  /\ Selected(seq, at) \in Seq(X)
         /\ \A i \in at : \E k \in DOMAIN Selected(seq, at) : Selected(seq, at)[k] = seq[i]
         /\ \A k \in DOMAIN Selected(seq, at) : \E i \in at : Selected(seq, at)[k] = seq[i]
<1> DEFINE indexes == Ascending(at)
           n == Cardinality(at)
<1>1. at \subseteq Int /\ IsFiniteSet(at)
  <2>1. DOMAIN seq = 1 .. Len(seq) /\ Len(seq) \in Nat
    OBVIOUS
  <2>2. IsFiniteSet(1 .. Len(seq))
    BY <2>1, FS_Interval
  <2>3. at \in SUBSET (1 .. Len(seq))
    BY <2>1
  <2> QED
    BY <2>2, <2>3, FS_Subset
<1>2. /\ n \in Nat /\ indexes \in [1 .. n -> at]
      /\ \A e \in at : \E i \in 1 .. n : indexes[i] = e
  BY <1>1, AscendingHasAll
<1>3. Selected(seq, at) = [k \in DOMAIN indexes |-> seq[indexes[k]]]
  BY DEF Selected
<1> HIDE DEF n, indexes
<1>4. Selected(seq, at) = [k \in 1 .. n |-> seq[indexes[k]]]
  BY <1>2, <1>3
<1>5. \A k \in 1 .. n : indexes[k] \in at /\ seq[indexes[k]] \in X
  BY <1>2
<1>6. Selected(seq, at) \in Seq(X) /\ DOMAIN Selected(seq, at) = 1 .. n
  BY <1>2, <1>4, <1>5
<1>7. \A k \in 1 .. n : Selected(seq, at)[k] = seq[indexes[k]]
  BY <1>4
<1>8. \A i \in at : \E k \in 1 .. n : Selected(seq, at)[k] = seq[i]
  BY <1>2, <1>7
<1>9. \A k \in 1 .. n : \E i \in at : Selected(seq, at)[k] = seq[i]
  BY <1>5, <1>7
<1> QED
  BY <1>6, <1>8, <1>9

(* A sum of integers is one.                                               *)
LEMMA SumIsNumber ==
  ASSUME NEW seq \in Seq(Int)
  PROVE  SumOf(seq) \in Int
<1> DEFINE n == Len(seq)
           Sums(g) == g = [i \in 0 .. n |-> IF i = 0 THEN 0 ELSE g[i - 1] + seq[i]]
           upTo == CHOOSE g : Sums(g)
           step == [i \in 1 .. n |-> [s \in Int |-> s + seq[i]]]
<1>1. n \in Nat /\ \A i \in 1 .. n : seq[i] \in Int
  OBVIOUS
<1>2. SumOf(seq) = upTo[n]
  BY DEF SumOf
<1> HIDE DEF n
<1>3. \E g : Sums(g)
  <2>a. \A i \in 1 .. n, s \in Int : step[i][s] = s + seq[i]
    OBVIOUS
  <2>b. \A i \in 1 .. n, s \in Int : step[i][s] \in Int
    BY <1>1, <2>a
  <2> HIDE DEF step
  <2>1. PICK g : IsCourse(g, Int, 0, step, n)
    <3> DEFINE Z == Int
               zero == 0
    <3>1. zero \in Z /\ StaysIn(Z, step, n)
      BY <2>b DEF StaysIn
    <3> HIDE DEF Z, zero
    <3>2. \E g : IsCourse(g, Z, zero, step, n)
      BY <1>1, <3>1, Iteration
    <3> QED
      BY <3>2 DEF Z, zero
  <2>2. g \in [0 .. n -> Int] /\ g[0] = 0 /\ \A i \in 1 .. n : g[i] = step[i][g[i - 1]]
    BY <2>1 DEF IsCourse
  <2>3. ASSUME NEW i \in 1 .. n PROVE g[i] = g[i - 1] + seq[i]
    <3>1. i - 1 \in 0 .. n
      BY <1>1
    <3>2. g[i - 1] \in Int
      BY <2>2, <3>1
    <3> QED
      BY <2>2, <2>a, <3>2
  <2>4. g = [i \in 0 .. n |-> IF i = 0 THEN 0 ELSE g[i - 1] + seq[i]]
    <3> DEFINE h == [i \in 0 .. n |-> IF i = 0 THEN 0 ELSE g[i - 1] + seq[i]]
    <3>1. \A i \in 0 .. n : g[i] = h[i]
      BY <1>1, <2>2, <2>3
    <3> QED
      BY <2>2, <3>1
  <2>5. Sums(g)
    BY <2>4
  <2> HIDE DEF Sums
  <2> QED
    BY <2>5
<1>4. Sums(upTo)
  <2> HIDE DEF Sums
  <2> QED
    BY <1>3
<1> DEFINE T == {i \in 0 .. n : upTo[i] \in Int}
<1> HIDE DEF upTo
<1>5. upTo[0] = 0 /\ \A i \in 1 .. n : upTo[i] = upTo[i - 1] + seq[i]
  BY <1>1, <1>4
<1>6. 0 \in T
  BY <1>1, <1>5
<1>7. \A i \in 1 .. n : i - 1 \in T => i \in T
  BY <1>1, <1>5
<1>8. n \in T
  <2> HIDE DEF T
  <2>1. \A i \in 0 .. n : i \in T
    BY <1>1, <1>6, <1>7, UpTo
  <2> QED
    BY <1>1, <2>1
<1> QED
  BY <1>2, <1>8

(* The greatest of what is there of some numbers is one.                   *)
LEMMA HighestIsNumber ==
  ASSUME NEW values, values \subseteq Int, IsFiniteSet(values)
  PROVE  Highest(values) \in Int
<1> DEFINE S == Present(values) \cup {0}
<1>1. S \in SUBSET (values \cup {0}) /\ 0 \in S
  BY DEF Present
<1>2. IsFiniteSet(values \cup {0})
  BY FS_AddElement
<1>3. S \subseteq Int /\ IsFiniteSet(S) /\ S # {}
  <2>1. IsFiniteSet(S)
    BY <1>1, <1>2, FS_Subset
  <2>2. S \subseteq Int /\ S # {}
    <3> HIDE DEF S
    <3> QED
      BY <1>1
  <2> QED
    BY <2>1, <2>2
<1> HIDE DEF S
<1>4. PICK x \in S : \A y \in S : y <= x
  BY <1>3, GreatestOfFinite
<1>5. \E x1 \in S : \A y \in S : x1 >= y
  BY <1>3, <1>4
<1>6. Max(S) \in S
  BY <1>5 DEF Max
<1> QED
  BY <1>3, <1>6 DEF Highest, S

(* The least and the greatest of some indexes are among them.              *)
LEMMA MinIsAmong ==
  ASSUME NEW T, T \subseteq Nat, T # {}
  PROVE  Min(T) \in T
<1>1. \E x \in T : \A y \in T : x <= y
  BY LeastNatural
<1> QED
  BY <1>1 DEF Min

LEMMA MaxIsAmong ==
  ASSUME NEW n \in Nat, NEW T, T \subseteq 1 .. n, T # {}
  PROVE  Max(T) \in T
<1>1. PICK x \in T : \A y \in T : y <= x
  <2>1. T \subseteq Nat /\ \A x \in T : x <= n
    OBVIOUS
  <2> QED
    BY <2>1, GreatestNatural
<1>2. \E x1 \in T : \A y \in T : x1 >= y
  BY <1>1
<1> QED
  BY <1>2 DEF Max

ImageOf(f, S) == {f[x] : x \in S}

(* What a function takes on is finite, and as many if it repeats nothing.  *)
LEMMA ImageIsFinite ==
  ASSUME NEW S, IsFiniteSet(S), NEW f
  PROVE  /\ IsFiniteSet(ImageOf(f, S))
         /\ (\A x, y \in S : f[x] = f[y] => x = y) => Cardinality(ImageOf(f, S)) = Cardinality(S)
<1> DEFINE g == [x \in S |-> f[x]]
           T == ImageOf(f, S)
<1>1. g \in Surjection(S, T)
  BY DEF Surjection, ImageOf
<1>2. (\A x, y \in S : f[x] = f[y] => x = y) => g \in Injection(S, T)
  BY <1>1 DEF Surjection, Injection, IsInjective
<1> HIDE DEF g, T
<1>3. /\ IsFiniteSet(T)
      /\ (\A x, y \in S : f[x] = f[y] => x = y) => Cardinality(T) = Cardinality(S)
  BY <1>1, <1>2, FS_Surjection
<1> QED
  BY <1>3 DEF T

(* Keys of numbers, of which no two elements have the same, order a set:   *)
(* of two keys the first place at which they differ decides.               *)
LEMMA KeysOrder ==
  ASSUME NEW n \in Nat, NEW S, NEW key, \A s \in S : key[s] \in [1 .. n -> Int],
         \A s, t \in S : key[s] = key[t] => s = t
  PROVE  TotalOrderOf(S, {p \in S \X S : LexicallyBefore(key[p[1]], key[p[2]])})
<1> DEFINE R == {p \in S \X S : LexicallyBefore(key[p[1]], key[p[2]])}
           Keys == [1 .. n -> Int]
           Decides(i, k, l) == k[i] < l[i] /\ \A j \in 1 .. i - 1 : k[j] = l[j]
<1>1. \A k, l \in Keys : LexicallyBefore(k, l) <=> \E i \in 1 .. n : Decides(i, k, l)
  BY DEF LexicallyBefore
<1>2. \A k \in Keys : ~LexicallyBefore(k, k)
  <2> SUFFICES ASSUME NEW k \in Keys, NEW i \in 1 .. n PROVE ~Decides(i, k, k)
    BY <1>1
  <2>1. k[i] \in Int
    OBVIOUS
  <2> QED
    BY <2>1
<1>3. ASSUME NEW k \in Keys, NEW l \in Keys, NEW m \in Keys,
             LexicallyBefore(k, l), LexicallyBefore(l, m)
      PROVE  LexicallyBefore(k, m)
  <2>1. PICK a \in 1 .. n : Decides(a, k, l)
    BY <1>1, <1>3
  <2>2. PICK b \in 1 .. n : Decides(b, l, m)
    BY <1>1, <1>3
  <2>3. k[a] \in Int /\ l[a] \in Int /\ m[a] \in Int /\ k[b] \in Int /\ l[b] \in Int /\ m[b] \in Int
    OBVIOUS
  <2>4. CASE a <= b
    <3>1. \A j \in 1 .. a - 1 : j \in 1 .. b - 1
      BY <2>4
    <3>2. l[a] = m[a] \/ l[a] < m[a]
      BY <2>2, <2>4
    <3>3. k[a] < m[a]
      BY <2>1, <2>3, <3>2
    <3>4. \A j \in 1 .. a - 1 : k[j] = m[j]
      BY <2>1, <2>2, <3>1
    <3>5. Decides(a, k, m)
      BY <3>3, <3>4
    <3> HIDE DEF Decides
    <3> QED
      BY <1>1, <3>5
  <2>5. CASE b < a
    <3>1. \A j \in 1 .. b - 1 : j \in 1 .. a - 1
      BY <2>5
    <3>2. k[b] = l[b]
      BY <2>1, <2>5
    <3>3. Decides(b, k, m)
      BY <2>1, <2>2, <2>3, <3>1, <3>2
    <3> HIDE DEF Decides
    <3> QED
      BY <1>1, <3>3
  <2> QED
    BY <2>4, <2>5
<1>4. ASSUME NEW k \in Keys, NEW l \in Keys, k # l
      PROVE  LexicallyBefore(k, l) \/ LexicallyBefore(l, k)
  <2> DEFINE apart == {i \in 1 .. n : k[i] # l[i]}
  <2>1. apart # {}
    <3> SUFFICES ASSUME \A i \in 1 .. n : k[i] = l[i] PROVE FALSE
      OBVIOUS
    <3> QED
      BY <1>4
  <2>2. PICK a \in apart : \A i \in apart : a <= i
    <3>1. apart \subseteq Nat
      OBVIOUS
    <3> HIDE DEF apart
    <3> QED
      BY <2>1, <3>1, LeastNatural
  <2>3. ASSUME NEW j \in 1 .. a - 1 PROVE k[j] = l[j]
    <3>1. j \in 1 .. n /\ ~(a <= j)
      OBVIOUS
    <3> QED
      BY <2>2, <3>1
  <2>4. a \in 1 .. n /\ k[a] \in Int /\ l[a] \in Int /\ k[a] # l[a]
    OBVIOUS
  <2>5. Decides(a, k, l) \/ Decides(a, l, k)
    BY <2>3, <2>4
  <2> HIDE DEF Decides
  <2> QED
    BY <1>1, <2>4, <2>5
<1>5. \A s, t \in S : <<s, t>> \in R <=> LexicallyBefore(key[s], key[t])
  OBVIOUS
<1> HIDE DEF R, Keys
<1>6. \A s \in S : key[s] \in Keys
  BY DEF Keys
<1>7. TotalOrderOf(S, R)
  <2>1. \A s \in S : <<s, s>> \notin R
    BY <1>2, <1>5, <1>6
  <2>2. \A s, t, u \in S : <<s, t>> \in R /\ <<t, u>> \in R => <<s, u>> \in R
    BY <1>3, <1>5, <1>6
  <2>3. \A s, t \in S : s = t \/ <<s, t>> \in R \/ <<t, s>> \in R
    BY <1>4, <1>5, <1>6
  <2> QED
    BY <2>1, <2>2, <2>3 DEF TotalOrderOf
<1> QED
  BY <1>7 DEF R

-----------------------------------------------------------------------------
(* The entities of a batch                                                 *)

(* The ranked candidates of an answer                                      *)
Candidate == [id : Int, dp : Int, pct : Int, count : Int, source : Int, noted : BOOLEAN]

(* Any of the indexes of a sequence are finitely many numbers.             *)
LEMMA SequenceIsFinite ==
  ASSUME NEW X, NEW seq \in Seq(X), NEW T, T \subseteq DOMAIN seq
  PROVE  T \subseteq Int /\ IsFiniteSet(T)
<1>1. DOMAIN seq = 1 .. Len(seq) /\ Len(seq) \in Nat
  OBVIOUS
<1>2. IsFiniteSet(1 .. Len(seq))
  BY <1>1, FS_Interval
<1>3. T \in SUBSET (1 .. Len(seq))
  BY <1>1
<1> QED
  BY <1>2, <1>3, FS_Subset

Numbered(offers) ==
  \A i \in DOMAIN offers : offers[i].pct \in Int /\ offers[i].samples \in Int

(* An entity is as its rows have it, and its ranks are numbers.            *)
LEMMA EntityParts ==
  ASSUME NEW X, NEW offers \in Seq(X), Numbered(offers), NEW found \in Seq(Candidate), NEW id
  PROVE  LET e == EntityOf(id, offers, found)
         IN /\ e.id = id
            /\ e.marked <=> \E i \in DOMAIN offers : offers[i].id = id /\ offers[i].drop
            /\ e.noted <=> \E i \in DOMAIN found : found[i].id = id /\ found[i].noted
            /\ e.strongest \in Int /\ e.samples \in Int /\ e.count \in Int
<1> DEFINE rows == {i \in DOMAIN offers : offers[i].id = id}
           queued == {i \in DOMAIN found : found[i].id = id}
           pcts == [i \in DOMAIN offers |-> IF i \in rows THEN offers[i].pct ELSE 0]
           numbers == [i \in DOMAIN offers |-> IF i \in rows THEN offers[i].samples ELSE 0]
           counts == [i \in DOMAIN found |-> IF i \in queued THEN Highest({found[i].count}) ELSE 0]
           ranked == {found[i].pct : i \in queued}
           e == EntityOf(id, offers, found)
<1>1. \A i \in DOMAIN found : found[i] \in Candidate
  OBVIOUS
<1>2. pcts \in Seq(Int) /\ numbers \in Seq(Int)
  <2>1. \A i \in DOMAIN offers : offers[i].pct \in Int /\ offers[i].samples \in Int
    BY DEF Numbered
  <2>2. DOMAIN offers = 1 .. Len(offers) /\ Len(offers) \in Nat
    OBVIOUS
  <2>3. /\ \A i \in DOMAIN offers : (IF i \in rows THEN offers[i].pct ELSE 0) \in Int
        /\ \A i \in DOMAIN offers : (IF i \in rows THEN offers[i].samples ELSE 0) \in Int
    BY <2>1
  <2> HIDE DEF rows
  <2> QED
    BY <2>2, <2>3
<1>3. counts \in Seq(Int)
  <2>1. ASSUME NEW i \in DOMAIN found PROVE Highest({found[i].count}) \in Int
    <3>1. {found[i].count} \subseteq Int
      BY <1>1 DEF Candidate
    <3> QED
      BY <3>1, FS_Singleton, HighestIsNumber
  <2>2. DOMAIN found = 1 .. Len(found) /\ Len(found) \in Nat
    OBVIOUS
  <2>3. \A i \in DOMAIN found : (IF i \in queued THEN Highest({found[i].count}) ELSE 0) \in Int
    BY <2>1
  <2> HIDE DEF queued
  <2> QED
    BY <2>2, <2>3
<1>4. ranked \subseteq Int /\ IsFiniteSet(ranked)
  <2>1. IsFiniteSet(queued)
    BY SequenceIsFinite
  <2>2. ranked \subseteq Int
    BY <1>1 DEF Candidate
  <2> DEFINE f == [i \in queued |-> found[i].pct]
  <2>3. ranked = ImageOf(f, queued)
    BY DEF ImageOf
  <2> HIDE DEF ranked, f, queued
  <2> QED
    BY <2>1, <2>2, <2>3, ImageIsFinite
<1>5. e.id = id /\ e.samples = SumOf(numbers) /\ e.count = SumOf(counts)
        /\ e.strongest = Highest({SumOf(pcts)} \cup ranked)
  BY DEF EntityOf
<1>6. /\ e.marked <=> \E i \in rows : offers[i].drop
      /\ e.noted <=> \E i \in queued : found[i].noted
  BY DEF EntityOf
<1>7. SumOf(pcts) \in Int /\ SumOf(numbers) \in Int /\ SumOf(counts) \in Int
  <2> HIDE DEF pcts, numbers, counts
  <2> QED
    BY <1>2, <1>3, SumIsNumber
<1>8. Highest({SumOf(pcts)} \cup ranked) \in Int
  <2> DEFINE total == SumOf(pcts)
             all == ranked \cup {total}
  <2> HIDE DEF ranked, total
  <2>1. total \in Int
    BY <1>7 DEF total
  <2>2. all \subseteq Int /\ IsFiniteSet(all)
    BY <1>4, <2>1, FS_AddElement
  <2>3. {total} \cup ranked = all
    OBVIOUS
  <2> HIDE DEF all
  <2>4. Highest({total} \cup ranked) \in Int
    BY <2>2, <2>3, HighestIsNumber
  <2> QED
    BY <2>4 DEF total
<1> HIDE DEF e, pcts, numbers, counts, ranked
<1>9. e.strongest \in Int /\ e.samples \in Int /\ e.count \in Int
  BY <1>5, <1>7, <1>8
<1> QED
  BY <1>5, <1>6, <1>9 DEF e

(* What two sequences have together                                        *)
LEMMA JoinedHasBoth ==
  ASSUME NEW X, NEW a \in Seq(X), NEW b \in Seq(X)
  PROVE  a \o b \in Seq(X) /\ ToSet(a \o b) = ToSet(a) \cup ToSet(b)
<1> DEFINE c == a \o b
<1>1. /\ c \in Seq(X) /\ Len(c) = Len(a) + Len(b)
      /\ \A i \in 1 .. Len(a) : c[i] = a[i]
      /\ \A j \in 1 .. Len(b) : c[Len(a) + j] = b[j]
      /\ Len(a) \in Nat /\ Len(b) \in Nat
      /\ DOMAIN a = 1 .. Len(a) /\ DOMAIN b = 1 .. Len(b) /\ DOMAIN c = 1 .. Len(c)
  OBVIOUS
<1> HIDE DEF c
<1>2. ASSUME NEW i \in DOMAIN c PROVE c[i] \in ToSet(a) \cup ToSet(b)
  <2>1. CASE i <= Len(a)
    BY <1>1, <2>1 DEF ToSet
  <2>2. CASE i > Len(a)
    <3> DEFINE j == i - Len(a)
    <3>1. j \in 1 .. Len(b) /\ i = Len(a) + j
      BY <1>1, <2>2
    <3>2. c[i] = b[j]
      BY <1>1, <3>1
    <3> QED
      BY <1>1, <3>1, <3>2 DEF ToSet
  <2> QED
    BY <1>1, <2>1, <2>2
<1>3. \A i \in DOMAIN a : i \in DOMAIN c /\ c[i] = a[i]
  BY <1>1
<1>4. \A j \in DOMAIN b : Len(a) + j \in DOMAIN c /\ c[Len(a) + j] = b[j]
  BY <1>1
<1>5. ToSet(a) \subseteq ToSet(c) /\ ToSet(b) \subseteq ToSet(c)
  BY <1>3, <1>4 DEF ToSet
<1>6. ToSet(c) \subseteq ToSet(a) \cup ToSet(b)
  BY <1>2 DEF ToSet
<1> QED
  BY <1>1, <1>5, <1>6 DEF c

(* A finite set of numbers as a sequence                                   *)
LEMMA AscendingAsSequence ==
  ASSUME NEW S, IsFiniteSet(S), S \subseteq Int, NEW X, S \subseteq X
  PROVE  Ascending(S) \in Seq(X) /\ ToSet(Ascending(S)) = S
<1>1. /\ Cardinality(S) \in Nat
      /\ Ascending(S) \in [1 .. Cardinality(S) -> S]
      /\ \A e \in S : \E i \in 1 .. Cardinality(S) : Ascending(S)[i] = e
  BY AscendingHasAll
<1> DEFINE n == Cardinality(S)
           seq == Ascending(S)
<1> HIDE DEF n, seq
<1>2. n \in Nat /\ seq \in [1 .. n -> S] /\ \A e \in S : \E i \in 1 .. n : seq[i] = e
  BY <1>1 DEF n, seq
<1>3. seq \in Seq(X) /\ DOMAIN seq = 1 .. n
  <2>1. \A i \in 1 .. n : seq[i] \in X
    BY <1>2
  <2>2. seq \in [1 .. n -> X]
    BY <1>2, <2>1
  <2> QED
    BY <1>2, <2>2
<1>4. ToSet(seq) = S
  BY <1>2, <1>3 DEF ToSet
<1> QED
  BY <1>3, <1>4 DEF seq

SeenIds(offers, found, fallback, asked) ==
  {offers[i].id : i \in DOMAIN offers} \cup {found[i].id : i \in DOMAIN found}
    \cup fallback \cup asked

AreEntities(entities, ids, offers, found) ==
  /\ Len(entities) = Cardinality(ids)
  /\ {e.id : e \in ToSet(entities)} = ids
  /\ \A e \in ToSet(entities) : e = EntityOf(e.id, offers, found)

(* The entities of a batch are one of each session and source that was     *)
(* seen, and as its rows have it.                                          *)
LEMMA EntitiesAreAll ==
  ASSUME NEW X, NEW offers \in Seq(X), Numbered(offers), NEW found \in Seq(Candidate),
         NEW fallback, fallback \subseteq Int, IsFiniteSet(fallback),
         NEW asked, asked \subseteq Int, IsFiniteSet(asked),
         NEW ids, ids = SeenIds(offers, found, fallback, asked)
  PROVE  AreEntities(Entities(offers, found, fallback, asked), ids, offers, found)
<1> DEFINE a == [i \in DOMAIN offers |-> offers[i].id]
           b == [i \in DOMAIN found |-> found[i].id]
           c == Ascending(fallback)
           d == Ascending(asked)
           seen == a \o b \o c \o d
           order(id) == Min({i \in DOMAIN seen : seen[i] = id})
           key(id) == RankingKey(EntityOf(id, offers, found), order(id))
           K(id) == [entity |-> EntityOf(id, offers, found), key |-> key(id)]
           keyed == {K(id) : id \in ToSet(seen)}
           R == {p \in keyed \X keyed : LexicallyBefore(p[1].key, p[2].key)}
           ranked == InOrder(keyed, R)
           entities == Entities(offers, found, fallback, asked)
<1>1. entities = [i \in DOMAIN ranked |-> ranked[i].entity]
  BY DEF Entities
<1>2. seen \in Seq(ids) /\ ToSet(seen) = ids
  <2>1. a \in Seq(ids) /\ ToSet(a) = {offers[i].id : i \in DOMAIN offers}
    BY DEF ToSet, SeenIds
  <2>2. b \in Seq(ids) /\ ToSet(b) = {found[i].id : i \in DOMAIN found}
    BY DEF ToSet, SeenIds
  <2>3. c \in Seq(ids) /\ ToSet(c) = fallback /\ d \in Seq(ids) /\ ToSet(d) = asked
    BY AscendingAsSequence DEF SeenIds
  <2> HIDE DEF a, b, c, d
  <2>4. a \o b \in Seq(ids) /\ ToSet(a \o b) = ToSet(a) \cup ToSet(b)
    BY <2>1, <2>2, JoinedHasBoth
  <2> DEFINE ab == a \o b
             abc == ab \o c
  <2>a. seen = abc \o d
    OBVIOUS
  <2>b. ab \in Seq(ids) /\ ToSet(ab) = ToSet(a) \cup ToSet(b)
    BY <2>4
  <2> HIDE DEF ab, seen
  <2>5. abc \in Seq(ids) /\ ToSet(abc) = ToSet(ab) \cup ToSet(c)
    BY <2>3, <2>b, JoinedHasBoth
  <2> HIDE DEF abc
  <2>6. seen \in Seq(ids) /\ ToSet(seen) = ToSet(abc) \cup ToSet(d)
    BY <2>a, <2>3, <2>5, JoinedHasBoth
  <2> QED
    BY <2>1, <2>2, <2>3, <2>b, <2>5, <2>6 DEF SeenIds
<1> HIDE DEF seen
<1>3. IsFiniteSet(ids) /\ Cardinality(ids) \in Nat
  <2>1. DOMAIN seen \subseteq Int /\ IsFiniteSet(DOMAIN seen)
    BY <1>2, SequenceIsFinite
  <2>2. ids = ImageOf(seen, DOMAIN seen)
    BY <1>2 DEF ToSet, ImageOf
  <2>3. IsFiniteSet(ids)
    BY <2>1, <2>2, ImageIsFinite
  <2> QED
    BY <2>3, FS_CardinalityType
<1>4. ASSUME NEW id \in ids
      PROVE  order(id) \in DOMAIN seen /\ seen[order(id)] = id /\ order(id) \in Int
  <2> DEFINE at == {i \in DOMAIN seen : seen[i] = id}
  <2>1. at # {}
    BY <1>2 DEF ToSet
  <2>a. at \subseteq Nat
    <3>1. DOMAIN seen = 1 .. Len(seen) /\ Len(seen) \in Nat
      BY <1>2
    <3> QED
      BY <3>1
  <2>2. Min(at) \in at
    <3> HIDE DEF at
    <3> QED
      BY <2>1, <2>a, MinIsAmong
  <2> QED
    BY <2>a, <2>2
<1> HIDE DEF order
<1>5. ASSUME NEW id \in ids PROVE key(id) \in [1 .. 6 -> Int] /\ key(id)[6] = order(id)
  <2> DEFINE e == EntityOf(id, offers, found)
             first == IF e.marked THEN 0 ELSE 1
             third == IF e.corroborated THEN 0 ELSE 1
  <2>1. e.strongest \in Int /\ e.samples \in Int /\ e.count \in Int /\ order(id) \in Int
    BY <1>4, EntityParts
  <2>2. first \in Int /\ third \in Int
    OBVIOUS
  <2>3. key(id) = <<first, -e.strongest, third, -e.samples, -e.count, order(id)>>
    BY DEF RankingKey
  <2> HIDE DEF e, first, third
  <2>4. -e.strongest \in Int /\ -e.samples \in Int /\ -e.count \in Int
    BY <2>1
  <2> DEFINE second == -e.strongest
             fourth == -e.samples
             fifth == -e.count
             last == order(id)
  <2>5. second \in Int /\ fourth \in Int /\ fifth \in Int /\ last \in Int
    BY <2>1, <2>4
  <2>6. key(id) = <<first, second, third, fourth, fifth, last>>
    BY <2>3
  <2> HIDE DEF key, second, fourth, fifth, last
  <2>7. key(id) \in [1 .. 6 -> Int] /\ key(id)[6] = last
    BY <2>2, <2>5, <2>6
  <2> QED
    BY <2>7 DEF last
<1> HIDE DEF key
<1>6. \A id \in ids : K(id).key = key(id) /\ K(id).entity = EntityOf(id, offers, found)
  OBVIOUS
<1>7. \A id, other \in ids : key(id) = key(other) => id = other
  BY <1>4, <1>5
<1>8. keyed = {K(id) : id \in ids}
  BY <1>2
<1> HIDE DEF K, keyed
<1>9. IsFiniteSet(keyed) /\ Cardinality(keyed) = Cardinality(ids)
  <2> DEFINE f == [id \in ids |-> K(id)]
  <2>1. keyed = ImageOf(f, ids)
    BY <1>8 DEF ImageOf
  <2>2. \A x, y \in ids : f[x] = f[y] => x = y
    BY <1>6, <1>7
  <2> HIDE DEF f
  <2> QED
    BY <1>3, <2>1, <2>2, ImageIsFinite
<1>10. TotalOrderOf(keyed, R)
  <2> DEFINE keyOf == [e \in keyed |-> e.key]
             n == 6
  <2>1. \A s \in keyed : keyOf[s] \in [1 .. n -> Int]
    BY <1>5, <1>6, <1>8
  <2>2. \A s, t \in keyed : keyOf[s] = keyOf[t] => s = t
    BY <1>6, <1>7, <1>8
  <2>3. R = {p \in keyed \X keyed : LexicallyBefore(keyOf[p[1]], keyOf[p[2]])}
    <3>1. \A p \in keyed \X keyed : keyOf[p[1]] = p[1].key /\ keyOf[p[2]] = p[2].key
      OBVIOUS
    <3> HIDE DEF keyOf
    <3> QED
      BY <3>1
  <2>4. n \in Nat
    OBVIOUS
  <2> HIDE DEF keyOf, R, n
  <2> QED
    BY <2>1, <2>2, <2>3, <2>4, KeysOrder
<1> HIDE DEF R
<1>11. /\ ranked \in [1 .. Cardinality(ids) -> keyed]
       /\ \A e \in keyed : \E i \in 1 .. Cardinality(ids) : ranked[i] = e
  <2>1. /\ ranked \in [1 .. Cardinality(keyed) -> keyed]
        /\ \A e \in keyed : \E i \in 1 .. Cardinality(keyed) : ranked[i] = e
    <3>1. IsFiniteSet(keyed)
      BY <1>9
    <3>2. InOrder(keyed, R) \in [1 .. Cardinality(keyed) -> keyed]
      BY <1>10, <3>1, InOrderHasAll
    <3>3. \A e \in keyed : \E i \in 1 .. Cardinality(keyed) : InOrder(keyed, R)[i] = e
      BY <1>10, <3>1, InOrderHasAll
    <3> QED
      BY <3>2, <3>3
  <2> HIDE DEF ranked
  <2> QED
    BY <1>9, <2>1
<1> HIDE DEF ranked, entities
<1>12. entities = [i \in 1 .. Cardinality(ids) |-> ranked[i].entity]
  BY <1>1, <1>11
<1>13. Len(entities) = Cardinality(ids) /\ DOMAIN entities = 1 .. Cardinality(ids)
  BY <1>3, <1>12
<1>14. ASSUME NEW i \in 1 .. Cardinality(ids)
       PROVE  \E id \in ids : entities[i] = EntityOf(id, offers, found)
  <2>1. ranked[i] \in keyed
    BY <1>11
  <2>2. PICK id \in ids : ranked[i] = K(id)
    BY <1>8, <2>1
  <2> QED
    BY <1>6, <1>12, <2>2
<1>15. ASSUME NEW id \in ids
       PROVE  \E i \in 1 .. Cardinality(ids) : entities[i] = EntityOf(id, offers, found)
  <2>1. PICK i \in 1 .. Cardinality(ids) : ranked[i] = K(id)
    BY <1>8, <1>11
  <2> QED
    BY <1>6, <1>12, <2>1
<1>16. ToSet(entities) = {entities[i] : i \in 1 .. Cardinality(ids)}
  BY <1>13 DEF ToSet
<1>17. \A id \in ids : EntityOf(id, offers, found).id = id
  BY EntityParts
<1>18. ASSUME NEW e \in ToSet(entities)
       PROVE  e.id \in ids /\ e = EntityOf(e.id, offers, found)
  <2>1. PICK id \in ids : e = EntityOf(id, offers, found)
    BY <1>14, <1>16
  <2> QED
    BY <1>17, <2>1
<1>19. \A id \in ids : \E e \in ToSet(entities) : e.id = id
  BY <1>15, <1>16, <1>17
<1>20. {e.id : e \in ToSet(entities)} = ids
  BY <1>18, <1>19
<1> QED
  BY <1>13, <1>18, <1>20 DEF entities, AreEntities

-----------------------------------------------------------------------------
(* A candidate, and those that were listed                                 *)

(* The lines of an answer about the queue, what was read when one of them  *)
(* is, and what an element is merged with                                  *)
Lines ==
  [kind : {"context"}, dp : Int] \cup [kind : {"top", "details"}]
    \cup [kind : {"header"}, notes : BOOLEAN]
    \cup [kind : {"row"}, id : Int, pct : Int, count : Int, note : BOOLEAN]
    \cup [kind : {"flow"}, id : Int, source : Int]
    \cup [kind : {"element"}, dp : Int, id : Int, pct : Int, count : Int, source : Int]

Reading ==
  [dp : Int, section : {"none", "top", "details"}, notes : BOOLEAN, candidates : Seq(Candidate)]

Fields == [source : Int] \cup [pct : Int, count : Int, source : Int]

(* What is merged stays the candidate it was, but for what it now has.     *)
LEMMA MergedIsCandidate ==
  ASSUME NEW old \in Candidate, NEW new \in Fields
  PROVE  LET c == Merged(old, new)
         IN /\ c \in Candidate
            /\ c.id = old.id /\ c.dp = old.dp /\ c.noted = old.noted
            /\ c.source = IF new.source # Missing THEN new.source ELSE old.source
<1> DEFINE c == Merged(old, new)
           of(f) == IF f \in DOMAIN new /\ new[f] # Missing THEN new[f] ELSE old[f]
<1>1. DOMAIN old = {"id", "dp", "pct", "count", "source", "noted"}
  BY DEF Candidate
<1>2. c = [f \in {"id", "dp", "pct", "count", "source", "noted"} |-> of(f)]
  BY <1>1 DEF Merged
<1>3. /\ DOMAIN new = {"source"} \/ DOMAIN new = {"pct", "count", "source"}
      /\ new["source"] = new.source
      /\ \A f \in DOMAIN new : new[f] \in Int
  BY DEF Fields
<1>4. /\ old["id"] \in Int /\ old["dp"] \in Int /\ old["pct"] \in Int /\ old["count"] \in Int
      /\ old["source"] \in Int /\ old["noted"] \in BOOLEAN
  BY DEF Candidate
<1>5. of("id") = old["id"] /\ of("dp") = old["dp"] /\ of("noted") = old["noted"]
  BY <1>3
<1>6. of("source") = IF new["source"] # Missing THEN new["source"] ELSE old["source"]
  BY <1>3
<1>7. of("pct") \in Int /\ of("count") \in Int /\ of("source") \in Int
  BY <1>3, <1>4
<1> HIDE DEF of
<1>8. c = [id |-> of("id"), dp |-> of("dp"), pct |-> of("pct"), count |-> of("count"),
           source |-> of("source"), noted |-> of("noted")]
  BY <1>2
<1> HIDE DEF c
<1>9. c \in Candidate
  BY <1>4, <1>5, <1>7, <1>8 DEF Candidate
<1>10. /\ c.id = old.id /\ c.dp = old.dp /\ c.noted = old.noted
       /\ c.source = IF new.source # Missing THEN new.source ELSE old.source
  BY <1>3, <1>5, <1>6, <1>8
<1> QED
  BY <1>9, <1>10 DEF c

(* The one of the dataplane is found if there is one, and none of another  *)
(* session, or of another dataplane if its own was named.                  *)
LEMMA MatchingTells ==
  ASSUME NEW c \in Seq(Candidate), NEW dp, NEW id
  PROVE  LET at == Matching(c, dp, id)
         IN /\ at = 0 \/ at \in DOMAIN c
            /\ (\E i \in DOMAIN c : c[i].id = id /\ c[i].dp = dp) =>
                 at \in DOMAIN c /\ c[at].id = id /\ c[at].dp = dp
            /\ (\A i \in DOMAIN c : c[i].id # id) => at = 0
            /\ dp # NoContext /\ (\A i \in DOMAIN c : c[i].id # id \/ c[i].dp # dp) => at = 0
<1> DEFINE same == {i \in DOMAIN c : c[i].id = id}
           exact == {i \in same : c[i].dp = dp}
           at == Matching(c, dp, id)
<1>1. DOMAIN c = 1 .. Len(c) /\ Len(c) \in Nat
  OBVIOUS
<1>2. at = IF exact # {} THEN Max(exact)
           ELSE IF dp = NoContext /\ Cardinality(same) = 1 THEN Max(same) ELSE 0
  BY DEF Matching
<1>3. exact # {} => Max(exact) \in exact
  BY <1>1, MaxIsAmong
<1>4. same # {} => Max(same) \in same
  BY <1>1, MaxIsAmong
<1>5. Cardinality(same) = 1 => same # {}
  <2> SUFFICES ASSUME same = {} PROVE Cardinality(same) # 1
    OBVIOUS
  <2>1. Cardinality({}) # 1
    BY FS_EmptySet
  <2> HIDE DEF same
  <2> QED
    BY <2>1
<1> HIDE DEF at
<1> QED
  BY <1>2, <1>3, <1>4, <1>5 DEF at

(* The candidates hold the pairs P and no other, each once, with its own   *)
(* flow if any, and what is noted is among N.                              *)
Pair(c) == <<c.dp, c.id>>

Lists(c, P, N) ==
  /\ c \in Seq(Candidate)
  /\ \A i \in DOMAIN c : /\ Pair(c[i]) \in P
                         /\ c[i].source \in {Missing, c[i].id + c[i].dp}
                         /\ c[i].noted => Pair(c[i]) \in N
  /\ \A p \in P : \E i \in DOMAIN c : Pair(c[i]) = p
  /\ \A i, j \in DOMAIN c : Pair(c[i]) = Pair(c[j]) => i = j

(* Another pair is listed with the others.                                 *)
LEMMA AppendLists ==
  ASSUME NEW c, NEW P, NEW N, Lists(c, P, N), NEW e \in Candidate, Pair(e) \notin P,
         e.source \in {Missing, e.id + e.dp}, e.noted => Pair(e) \in N
  PROVE  Lists(Append(c, e), P \cup {Pair(e)}, N)
<1> DEFINE d == Append(c, e)
           n == Len(c)
<1>1. /\ c \in Seq(Candidate) /\ n \in Nat /\ DOMAIN c = 1 .. n
      /\ d \in Seq(Candidate) /\ DOMAIN d = 1 .. n + 1
      /\ \A i \in 1 .. n : d[i] = c[i]
      /\ d[n + 1] = e
  BY DEF Lists
<1> HIDE DEF d, n
<1>2. \A i \in DOMAIN d : i \in DOMAIN c \/ i = n + 1
  BY <1>1
<1>3. \A i \in DOMAIN d : /\ Pair(d[i]) \in P \cup {Pair(e)}
                          /\ d[i].source \in {Missing, d[i].id + d[i].dp}
                          /\ d[i].noted => Pair(d[i]) \in N
  BY <1>1, <1>2 DEF Lists
<1>4. \A p \in P \cup {Pair(e)} : \E i \in DOMAIN d : Pair(d[i]) = p
  <2>1. \A p \in P : \E i \in DOMAIN c : Pair(c[i]) = p
    BY DEF Lists
  <2>2. n + 1 \in DOMAIN d /\ \A i \in DOMAIN c : i \in DOMAIN d /\ d[i] = c[i]
    BY <1>1
  <2> QED
    BY <1>1, <2>1, <2>2
<1>5. \A i, j \in DOMAIN d : Pair(d[i]) = Pair(d[j]) => i = j
  BY <1>1, <1>2 DEF Lists
<1> QED
  BY <1>1, <1>3, <1>4, <1>5 DEF Lists, d

(* A row that was listed is merged with its own.                           *)
LEMMA MergeLists ==
  ASSUME NEW c, NEW P, NEW N, Lists(c, P, N), NEW dp \in Int, NEW id \in Int, <<dp, id>> \in P,
         NEW new \in Fields, new.source \in {Missing, id + dp}
  PROVE  Lists(Merge(c, dp, id, new), P, N)
<1> DEFINE at == Matching(c, dp, id)
           d == Merge(c, dp, id, new)
<1>1. c \in Seq(Candidate)
  BY DEF Lists
<1>2. \E i \in DOMAIN c : c[i].id = id /\ c[i].dp = dp
  BY DEF Lists, Pair
<1>3. at \in DOMAIN c /\ c[at].id = id /\ c[at].dp = dp
  BY <1>1, <1>2, MatchingTells
<1>4. at # 0
  BY <1>1, <1>3
<1>5. d = [c EXCEPT ![at] = Merged(c[at], new)]
  BY <1>4 DEF Merge
<1>6. c[at] \in Candidate
  BY <1>1, <1>3
<1> HIDE DEF at, d
<1>7. /\ Merged(c[at], new) \in Candidate
      /\ Merged(c[at], new).id = id /\ Merged(c[at], new).dp = dp
      /\ Merged(c[at], new).noted = c[at].noted
      /\ Merged(c[at], new).source \in {new.source, c[at].source}
  BY <1>3, <1>6, MergedIsCandidate
<1>8. /\ d \in Seq(Candidate) /\ DOMAIN d = DOMAIN c
      /\ d[at] = Merged(c[at], new)
      /\ \A i \in DOMAIN c : i # at => d[i] = c[i]
  BY <1>1, <1>3, <1>5, <1>7
<1>9. \A i \in DOMAIN c : /\ Pair(d[i]) = Pair(c[i])
                          /\ d[i].noted = c[i].noted
                          /\ d[i].id = c[i].id /\ d[i].dp = c[i].dp
                          /\ d[i].source \in {c[i].source, Missing, c[i].id + c[i].dp}
  BY <1>3, <1>7, <1>8 DEF Pair
<1> QED
  BY <1>8, <1>9 DEF Lists, d

(* One that was not is a candidate of its own, unless it has no dataplane  *)
(* and another has its session.                                            *)
LEMMA NewOneLists ==
  ASSUME NEW c, NEW P, NEW N, Lists(c, P, N), NEW dp \in Int, NEW id \in Int, <<dp, id>> \notin P,
         dp # NoContext \/ \A p \in P : p[2] # id,
         NEW new \in Fields, new.source \in {Missing, id + dp}
  PROVE  Lists(Merge(c, dp, id, new), P \cup {<<dp, id>>}, N)
<1> DEFINE at == Matching(c, dp, id)
           blank == Unranked(dp, id)
           e == Merged(blank, new)
<1>1. c \in Seq(Candidate) /\ \A i \in DOMAIN c : Pair(c[i]) \in P
  BY DEF Lists
<1>2. \A i \in DOMAIN c : c[i].id # id \/ c[i].dp # dp
  BY <1>1 DEF Pair
<1>3. dp # NoContext \/ \A i \in DOMAIN c : c[i].id # id
  BY <1>1 DEF Pair
<1>4. at = 0
  <2> HIDE DEF at
  <2> QED
    BY <1>1, <1>2, <1>3, MatchingTells DEF at
<1>5. Merge(c, dp, id, new) = Append(c, e)
  BY <1>4 DEF Merge
<1>6. /\ blank \in Candidate /\ blank.id = id /\ blank.dp = dp
      /\ ~blank.noted /\ blank.source = Missing
  BY DEF Unranked, Candidate, Missing
<1> HIDE DEF blank
<1>7. /\ e \in Candidate /\ e.id = id /\ e.dp = dp /\ ~e.noted
      /\ e.source \in {Missing, id + dp}
  <2>1. /\ e \in Candidate /\ e.id = id /\ e.dp = dp /\ e.noted = blank.noted
        /\ e.source = IF new.source # Missing THEN new.source ELSE blank.source
    BY <1>6, MergedIsCandidate
  <2> HIDE DEF e
  <2> QED
    BY <1>6, <2>1
<1> HIDE DEF e
<1>8. Pair(e) = <<dp, id>>
  BY <1>7 DEF Pair
<1>9. Lists(Append(c, e), P \cup {Pair(e)}, N)
  BY <1>7, <1>8, AppendLists
<1> QED
  BY <1>5, <1>8, <1>9

-----------------------------------------------------------------------------
(* The walk over the lines of an answer                                    *)

(* A row of the ranking by dataplane is a candidate without a flow; it is  *)
(* noted only if its line is.                                              *)
LEMMA RankedIsCandidate ==
  ASSUME NEW s \in Reading, NEW l \in Lines, l.kind = "row"
  PROVE  /\ Ranked(s, l) \in Candidate
         /\ Ranked(s, l).id = l.id /\ Ranked(s, l).dp = s.dp /\ Ranked(s, l).source = Missing
         /\ Ranked(s, l).noted => l.note
<1> DEFINE noted == s.notes /\ l.note
           r == [id |-> l.id, dp |-> s.dp, pct |-> l.pct, count |-> l.count,
                 source |-> Missing, noted |-> noted]
<1>1. l.id \in Int /\ l.pct \in Int /\ l.count \in Int /\ s.dp \in Int
  BY DEF Lines, Reading
<1>2. noted \in BOOLEAN /\ (noted => l.note)
  OBVIOUS
<1>3. Ranked(s, l) = [Unranked(s.dp, l.id) EXCEPT !.pct = l.pct, !.count = l.count, !.noted = noted]
  BY Zenon DEF Ranked
<1> HIDE DEF noted
<1>4. Ranked(s, l) = r
  BY <1>3 DEF Unranked
<1>5. r \in Candidate
  BY <1>1, <1>2 DEF Candidate, Missing
<1>6. r.id = l.id /\ r.dp = s.dp /\ r.source = Missing /\ (r.noted => l.note)
  BY <1>2
<1> HIDE DEF r
<1> QED
  BY <1>4, <1>5, <1>6

(* Candidates stay candidates, whatever is merged with them.               *)
LEMMA MergeKeeps ==
  ASSUME NEW c \in Seq(Candidate), NEW dp \in Int, NEW id \in Int, NEW new \in Fields
  PROVE  Merge(c, dp, id, new) \in Seq(Candidate)
<1> DEFINE at == Matching(c, dp, id)
           blank == Unranked(dp, id)
<1>1. at = 0 \/ at \in DOMAIN c
  BY MatchingTells
<1>2. blank \in Candidate
  BY DEF Unranked, Candidate, Missing
<1>3. Merge(c, dp, id, new) =
        IF at = 0 THEN Append(c, Merged(blank, new)) ELSE [c EXCEPT ![at] = Merged(c[at], new)]
  BY DEF Merge
<1> HIDE DEF at, blank
<1>4. Merged(blank, new) \in Candidate
  BY <1>2, MergedIsCandidate
<1>5. CASE at = 0
  BY <1>3, <1>4, <1>5
<1>6. CASE at # 0
  <2>1. at \in DOMAIN c /\ c[at] \in Candidate
    BY <1>1, <1>6
  <2>2. Merged(c[at], new) \in Candidate
    BY <2>1, MergedIsCandidate
  <2> QED
    BY <1>3, <1>6, <2>1, <2>2
<1> QED
  BY <1>5, <1>6

(* So does what was read, with any line.                                   *)
LEMMA LineKeepsReading ==
  ASSUME NEW s \in Reading, NEW l \in Lines
  PROVE  ReadLine(s, l) \in Reading
<1>1. s.dp \in Int /\ s.candidates \in Seq(Candidate)
  BY DEF Reading
<1>2. ASSUME NEW c \in Seq(Candidate) PROVE [s EXCEPT !.candidates = c] \in Reading
  BY DEF Reading
<1>3. CASE l.kind = "row"
  <2>2. Ranked(s, l) \in Candidate
    BY <1>3, RankedIsCandidate
  <2>3. Append(s.candidates, Ranked(s, l)) \in Seq(Candidate)
    BY <1>1, <2>2
  <2>4. ReadLine(s, l) = IF s.section = "top"
                         THEN [s EXCEPT !.candidates = Append(s.candidates, Ranked(s, l))]
                         ELSE s
    BY <1>3 DEF ReadLine
  <2> QED
    BY <1>2, <2>3, <2>4
<1>4. CASE l.kind = "flow"
  <2> DEFINE new == [source |-> l.source]
             c == Merge(s.candidates, s.dp, l.id, new)
  <2>1. l.id \in Int /\ l.source \in Int
    BY <1>4 DEF Lines
  <2>2. new \in Fields
    BY <2>1 DEF Fields
  <2>3. ReadLine(s, l) = IF s.section = "details" THEN [s EXCEPT !.candidates = c] ELSE s
    BY <1>4 DEF ReadLine
  <2> HIDE DEF new
  <2>4. c \in Seq(Candidate)
    BY <1>1, <2>1, <2>2, MergeKeeps
  <2> HIDE DEF c
  <2> QED
    BY <1>2, <2>3, <2>4
<1>5. CASE l.kind = "element"
  <2> DEFINE new == [pct |-> l.pct, count |-> l.count, source |-> l.source]
             c == Merge(s.candidates, l.dp, l.id, new)
  <2>1. l.dp \in Int /\ l.id \in Int /\ l.pct \in Int /\ l.count \in Int /\ l.source \in Int
    BY <1>5 DEF Lines
  <2>2. new \in Fields
    BY <2>1 DEF Fields
  <2>3. ReadLine(s, l) = [s EXCEPT !.candidates = c]
    BY <1>5 DEF ReadLine, ReadElement
  <2> HIDE DEF new
  <2>4. c \in Seq(Candidate)
    BY <1>1, <2>1, <2>2, MergeKeeps
  <2> HIDE DEF c
  <2> QED
    BY <1>2, <2>3, <2>4
<1>6. CASE l.kind = "context"
  <2>1. l.dp \in Int
    BY <1>6 DEF Lines
  <2> QED
    BY <1>6, <2>1 DEF ReadLine, Reading
<1>7. CASE l.kind = "header"
  <2>1. l.notes \in BOOLEAN
    BY <1>7 DEF Lines
  <2> QED
    BY <1>7, <2>1 DEF ReadLine, Reading
<1>8. CASE l.kind \in {"top", "details"}
  BY <1>8 DEF ReadLine, Reading
<1> QED
  BY <1>3, <1>4, <1>5, <1>6, <1>7, <1>8 DEF Lines

(* What is reached line by line                                            *)
IsWalk(g, s, lines) ==
  /\ g \in [0 .. Len(lines) -> Reading] /\ g[0] = s
  /\ \A i \in 1 .. Len(lines) : g[i] = ReadLine(g[i - 1], lines[i])

(* What is read of an answer is reached that way.                          *)
LEMMA WalkIs ==
  ASSUME NEW s \in Reading, NEW lines \in Seq(Lines)
  PROVE  \E g : IsWalk(g, s, lines) /\ Walk(s, lines) = g[Len(lines)]
<1> DEFINE n == Len(lines)
           Reads(g) == g = [i \in 0 .. n |-> IF i = 0 THEN s ELSE ReadLine(g[i - 1], lines[i])]
           after == CHOOSE g : Reads(g)
           step == [i \in 1 .. n |-> [t \in Reading |-> ReadLine(t, lines[i])]]
<1>1. n \in Nat /\ \A i \in 1 .. n : lines[i] \in Lines
  OBVIOUS
<1>2. Walk(s, lines) = after[n]
  BY DEF Walk
<1> HIDE DEF n
<1>3. PICK g : IsCourse(g, Reading, s, step, n)
  <2>1. \A i \in 1 .. n, t \in Reading : step[i][t] = ReadLine(t, lines[i])
    OBVIOUS
  <2>2. StaysIn(Reading, step, n)
    BY <1>1, <2>1, LineKeepsReading DEF StaysIn
  <2> HIDE DEF step
  <2> QED
    BY <1>1, <2>2, Iteration
<1>4. g \in [0 .. n -> Reading] /\ g[0] = s /\ \A i \in 1 .. n : g[i] = step[i][g[i - 1]]
  BY <1>3 DEF IsCourse
<1>5. ASSUME NEW i \in 1 .. n PROVE g[i] = ReadLine(g[i - 1], lines[i])
  <2>1. i - 1 \in 0 .. n
    BY <1>1
  <2>2. g[i - 1] \in Reading
    BY <1>4, <2>1
  <2> QED
    BY <1>4, <2>2
<1> HIDE DEF step
<1>6. Reads(g)
  <2> DEFINE h == [i \in 0 .. n |-> IF i = 0 THEN s ELSE ReadLine(g[i - 1], lines[i])]
  <2>1. \A i \in 0 .. n : g[i] = h[i]
    BY <1>1, <1>4, <1>5
  <2> QED
    BY <1>4, <2>1
<1>7. Reads(after)
  <2> HIDE DEF Reads
  <2> QED
    BY <1>6
<1> DEFINE T == {i \in 0 .. n : after[i] = g[i]}
<1> HIDE DEF after
<1>8. after[0] = s /\ \A i \in 1 .. n : after[i] = ReadLine(after[i - 1], lines[i])
  BY <1>1, <1>7
<1>9. 0 \in T
  BY <1>1, <1>4, <1>8
<1>10. \A i \in 1 .. n : i - 1 \in T => i \in T
  BY <1>1, <1>5, <1>8
<1>11. after[n] = g[n]
  <2>1. \A i \in 0 .. n : i \in T
    <3> HIDE DEF T
    <3> QED
      BY <1>1, <1>9, <1>10, UpTo
  <2> QED
    BY <1>1, <2>1
<1>12. IsWalk(g, s, lines)
  BY <1>4, <1>5 DEF IsWalk, n
<1> QED
  BY <1>2, <1>11, <1>12 DEF n

GoesThrough(h, s, lines, n) ==
  h[0] = s /\ \A i \in 1 .. n : h[i] = ReadLine(h[i - 1], lines[i])

(* There is no other way through the same lines.                           *)
LEMMA WalksAgree ==
  ASSUME NEW s, NEW lines \in Seq(Lines), NEW g, IsWalk(g, s, lines),
         NEW n \in Nat, n <= Len(lines), NEW h, GoesThrough(h, s, lines, n)
  PROVE  g[n] = h[n]
<1> DEFINE T == {i \in 0 .. n : g[i] = h[i]}
<1>0. Len(lines) \in Nat
  OBVIOUS
<1>1. 0 \in T
  BY DEF IsWalk, GoesThrough
<1>2. ASSUME NEW i \in 1 .. n, i - 1 \in T PROVE i \in T
  <2>1. i \in 1 .. Len(lines)
    BY <1>0
  <2>2. g[i] = ReadLine(g[i - 1], lines[i])
    BY <2>1 DEF IsWalk
  <2> QED
    BY <1>2, <2>2 DEF GoesThrough
<1> HIDE DEF T
<1>3. \A i \in 0 .. n : i \in T
  BY <1>1, <1>2, UpTo
<1> QED
  BY <1>3 DEF T

(* What was read stays of its type.                                        *)
LEMMA WalkStays ==
  ASSUME NEW s \in Reading, NEW lines \in Seq(Lines)
  PROVE  Walk(s, lines) \in Reading
<1>1. PICK g : IsWalk(g, s, lines) /\ Walk(s, lines) = g[Len(lines)]
  BY WalkIs
<1>2. Len(lines) \in 0 .. Len(lines)
  OBVIOUS
<1> QED
  BY <1>1, <1>2 DEF IsWalk

(* Lines are read after those before them.                                 *)
LEMMA WalkJoined ==
  ASSUME NEW s \in Reading, NEW a \in Seq(Lines), NEW b \in Seq(Lines)
  PROVE  Walk(s, a \o b) = Walk(Walk(s, a), b)
<1> DEFINE c == a \o b
           n == Len(a)
           m == Len(b)
           t == Walk(s, a)
<1>1. /\ c \in Seq(Lines) /\ Len(c) = n + m /\ n \in Nat /\ m \in Nat
      /\ \A i \in 1 .. n : c[i] = a[i]
      /\ \A j \in 1 .. m : c[n + j] = b[j]
  OBVIOUS
<1> HIDE DEF c
<1>2. t \in Reading
  BY WalkStays
<1>3. PICK g : IsWalk(g, s, c) /\ Walk(s, c) = g[Len(c)]
  BY <1>1, WalkIs
<1>4. PICK f : IsWalk(f, s, a) /\ t = f[Len(a)]
  BY WalkIs
<1>5. PICK h : IsWalk(h, t, b) /\ Walk(t, b) = h[Len(b)]
  <2> HIDE DEF t
  <2> QED
    BY <1>2, WalkIs
<1> HIDE DEF t
<1>6. g[n] = f[n]
  <2>1. GoesThrough(f, s, c, n)
    BY <1>1, <1>4 DEF IsWalk, GoesThrough
  <2>2. c \in Seq(Lines) /\ n \in Nat /\ n <= Len(c)
    BY <1>1
  <2>3. IsWalk(g, s, c)
    BY <1>3
  <2> HIDE DEF n
  <2> QED
    BY <2>1, <2>2, <2>3, WalksAgree
<1> DEFINE k == [j \in 0 .. m |-> g[n + j]]
<1>7. k[0] = t
  BY <1>1, <1>4, <1>6
<1>8. ASSUME NEW j \in 1 .. m PROVE k[j] = ReadLine(k[j - 1], b[j])
  <2>1. n + j \in 1 .. Len(c) /\ j - 1 \in 0 .. m /\ n + (j - 1) = (n + j) - 1
    BY <1>1
  <2>2. g[n + j] = ReadLine(g[(n + j) - 1], c[n + j])
    BY <1>3, <2>1 DEF IsWalk
  <2> QED
    BY <1>1, <2>1, <2>2
<1>9. h[m] = k[m]
  <2> HIDE DEF k, m
  <2>2. GoesThrough(k, t, b, m)
    BY <1>7, <1>8 DEF GoesThrough
  <2>1. m <= Len(b) /\ m \in Nat
    BY DEF m
  <2> QED
    BY <1>5, <2>1, <2>2, WalksAgree
<1>10. k[m] = g[Len(c)]
  BY <1>1
<1> HIDE DEF k
<1> QED
  BY <1>3, <1>5, <1>9, <1>10 DEF c, t, m

(* One line, and none                                                      *)
LEMMA WalkOfOne ==
  ASSUME NEW s \in Reading, NEW l \in Lines
  PROVE  Walk(s, <<l>>) = ReadLine(s, l)
<1> DEFINE lines == <<l>>
<1>1. lines \in Seq(Lines) /\ Len(lines) = 1 /\ lines[1] = l
  OBVIOUS
<1> HIDE DEF lines
<1>2. PICK g : IsWalk(g, s, lines) /\ Walk(s, lines) = g[Len(lines)]
  BY <1>1, WalkIs
<1>3. g[0] = s /\ g[1] = ReadLine(g[0], l)
  BY <1>1, <1>2 DEF IsWalk
<1> QED
  BY <1>1, <1>2, <1>3 DEF lines

LEMMA WalkOfNone ==
  ASSUME NEW s \in Reading
  PROVE  Walk(s, <<>>) = s
<1> DEFINE lines == <<>>
<1>1. lines \in Seq(Lines) /\ Len(lines) = 0
  OBVIOUS
<1> HIDE DEF lines
<1>2. PICK g : IsWalk(g, s, lines) /\ Walk(s, lines) = g[Len(lines)]
  BY <1>1, WalkIs
<1>3. g[0] = s
  BY <1>2 DEF IsWalk
<1> QED
  BY <1>1, <1>2, <1>3 DEF lines

(* What holds of the first state and passes from line to line is reached.  *)
LEMMA WalkReaches ==
  ASSUME NEW s \in Reading, NEW lines \in Seq(Lines), NEW H, s \in H[0],
         \A i \in 1 .. Len(lines) : \A t \in Reading :
           t \in H[i - 1] => ReadLine(t, lines[i]) \in H[i]
  PROVE  Walk(s, lines) \in H[Len(lines)]
<1> DEFINE n == Len(lines)
<1>1. PICK g : IsWalk(g, s, lines) /\ Walk(s, lines) = g[n]
  BY WalkIs
<1>2. g \in [0 .. n -> Reading] /\ g[0] = s /\ \A i \in 1 .. n : g[i] = ReadLine(g[i - 1], lines[i])
  BY <1>1 DEF IsWalk
<1>3. n \in Nat
  OBVIOUS
<1> HIDE DEF n
<1> DEFINE T == {i \in 0 .. n : g[i] \in H[i]}
<1>4. 0 \in T
  BY <1>2, <1>3
<1>5. ASSUME NEW i \in 1 .. n, i - 1 \in T PROVE i \in T
  <2>1. i - 1 \in 0 .. n
    BY <1>3
  <2>2. g[i - 1] \in Reading /\ g[i - 1] \in H[i - 1]
    BY <1>2, <1>5, <2>1
  <2>3. ReadLine(g[i - 1], lines[i]) \in H[i]
    BY <2>2 DEF n
  <2> QED
    BY <1>2, <1>3, <2>3
<1> HIDE DEF T
<1>6. \A i \in 0 .. n : i \in T
  BY <1>3, <1>4, <1>5, UpTo
<1> QED
  BY <1>1, <1>3, <1>6 DEF T, n

-----------------------------------------------------------------------------
(* The lines of one dataplane                                              *)

(* The pairs of the first rows of a dataplane; its rows, each of a session *)
(* of its own                                                              *)
PairsOf(d, rows, n) == {<<d, rows[j].id>> : j \in 1 .. n}

Distinct(rows) == \A i, j \in DOMAIN rows : rows[i].id = rows[j].id => i = j

(* The lines of some rows, and of some flows, in either form               *)
IsRows(lines, d, rows, N) ==
  /\ lines \in Seq(Lines) /\ Len(lines) = Len(rows)
  /\ \A i \in 1 .. Len(rows) : /\ lines[i].kind = "row" /\ lines[i].id = rows[i].id
                               /\ lines[i].note => <<d, rows[i].id>> \in N

IsRanks(lines, d, rows) ==
  /\ lines \in Seq(Lines) /\ Len(lines) = Len(rows)
  /\ \A i \in 1 .. Len(rows) : /\ lines[i].kind = "element" /\ lines[i].id = rows[i].id
                               /\ lines[i].dp = d /\ lines[i].source = Missing

IsFlows(lines, d, P) ==
  /\ lines \in Seq(Lines)
  /\ \A i \in 1 .. Len(lines) : /\ lines[i].kind = "flow" /\ lines[i].source = lines[i].id + d
                                /\ <<d, lines[i].id>> \in P

IsFlowElements(lines, d, P) ==
  /\ lines \in Seq(Lines)
  /\ \A i \in 1 .. Len(lines) : /\ lines[i].kind = "element" /\ lines[i].source = lines[i].id + d
                                /\ lines[i].dp = d /\ <<d, lines[i].id>> \in P

(* Each row is a pair that those before it are not.                        *)
LEMMA PairsGrow ==
  ASSUME NEW X, NEW rows \in Seq(X), Distinct(rows), NEW d, NEW i \in 1 .. Len(rows)
  PROVE  /\ PairsOf(d, rows, i) = PairsOf(d, rows, i - 1) \cup {<<d, rows[i].id>>}
         /\ \A p \in PairsOf(d, rows, i - 1) : p[2] # rows[i].id
<1>1. DOMAIN rows = 1 .. Len(rows) /\ Len(rows) \in Nat /\ i \in DOMAIN rows
  OBVIOUS
<1>2. 1 .. i = (1 .. i - 1) \cup {i}
  BY <1>1
<1>3. \A j \in 1 .. i - 1 : j \in DOMAIN rows /\ j # i
  BY <1>1
<1>4. \A j \in 1 .. i - 1 : rows[j].id # rows[i].id
  BY <1>1, <1>3 DEF Distinct
<1>5. PairsOf(d, rows, i) = PairsOf(d, rows, i - 1) \cup {<<d, rows[i].id>>}
  BY <1>2 DEF PairsOf
<1> QED
  BY <1>4, <1>5 DEF PairsOf

(* The rows of a dataplane, below its header: each is a candidate.         *)
LEMMA RowsAreListed ==
  ASSUME NEW X, NEW rows \in Seq(X), Distinct(rows), NEW d \in Nat, NEW P, NEW N, NEW lines,
         IsRows(lines, d, rows, N), \A id \in Int : <<d, id>> \notin P,
         NEW s \in Reading, s.section = "top", s.dp = d, Lists(s.candidates, P, N)
  PROVE  LET t == Walk(s, lines)
         IN t \in Reading /\ t.dp = d /\ Lists(t.candidates, P \cup PairsOf(d, rows, Len(rows)), N)
<1> DEFINE n == Len(rows)
           upTo(i) == P \cup PairsOf(d, rows, i)
           H == [i \in 0 .. n |-> {t \in Reading : /\ t.section = "top" /\ t.dp = d
                                                 /\ Lists(t.candidates, upTo(i), N)}]
<1>1. n \in Nat /\ lines \in Seq(Lines) /\ Len(lines) = n
  BY DEF IsRows
<1>2. upTo(0) = P
  BY DEF PairsOf
<1>3. s \in H[0]
  <2> HIDE DEF upTo
  <2> QED
    BY <1>1, <1>2
<1>4. ASSUME NEW i \in 1 .. n, NEW t \in Reading, t \in H[i - 1]
      PROVE  ReadLine(t, lines[i]) \in H[i]
  <2> DEFINE l == lines[i]
             e == Ranked(t, l)
             c == Append(t.candidates, e)
  <2>1. i - 1 \in 0 .. n /\ i \in 0 .. n /\ n \in Nat
    BY <1>1
  <2>2. t.section = "top" /\ t.dp = d /\ Lists(t.candidates, upTo(i - 1), N)
    BY <1>4, <2>1
  <2>3. /\ l \in Lines /\ l.kind = "row" /\ l.id = rows[i].id
        /\ l.note => <<d, rows[i].id>> \in N
    BY <1>1, <2>1 DEF IsRows
  <2>4. ReadLine(t, l) = [t EXCEPT !.candidates = c]
    BY <2>2, <2>3 DEF ReadLine
  <2>5. ReadLine(t, l) \in Reading
    BY <2>3, LineKeepsReading
  <2>6. l.id \in Int
    BY <2>3 DEF Lines
  <2>7. e \in Candidate /\ e.id = l.id /\ e.dp = d /\ e.source = Missing /\ (e.noted => l.note)
    BY <2>2, <2>3, RankedIsCandidate
  <2> HIDE DEF e
  <2>8. /\ Pair(e) = <<d, rows[i].id>> /\ Pair(e) \notin upTo(i - 1)
        /\ upTo(i) = upTo(i - 1) \cup {Pair(e)}
    <3>1. Pair(e) = <<d, rows[i].id>>
      BY <2>3, <2>7 DEF Pair
    <3>2. upTo(i) = upTo(i - 1) \cup {<<d, rows[i].id>>}
      BY PairsGrow
    <3>a. \A p \in PairsOf(d, rows, i - 1) : p[2] # rows[i].id
      BY PairsGrow
    <3>3. <<d, rows[i].id>> \notin PairsOf(d, rows, i - 1)
      BY <3>a
    <3>4. <<d, rows[i].id>> \notin P
      BY <2>3, <2>6
    <3> QED
      BY <3>1, <3>2, <3>3, <3>4
  <2> HIDE DEF upTo
  <2>9. Lists(c, upTo(i), N)
    <3>1. e.noted => Pair(e) \in N
      BY <2>3, <2>7, <2>8
    <3>2. Lists(c, upTo(i - 1) \cup {Pair(e)}, N)
      <4> DEFINE before == upTo(i - 1)
                 old == t.candidates
      <4>1. /\ Lists(old, before, N) /\ e \in Candidate /\ Pair(e) \notin before
            /\ e.source \in {Missing, e.id + e.dp}
        BY <2>2, <2>7, <2>8
      <4>2. c = Append(old, e)
        OBVIOUS
      <4> HIDE DEF before, old, c
      <4>3. Lists(Append(old, e), before \cup {Pair(e)}, N)
        BY <3>1, <4>1, AppendLists
      <4> QED
        BY <4>2, <4>3 DEF before
    <3> QED
      BY <2>8, <3>2
  <2> HIDE DEF c
  <2>10. ReadLine(t, l).section = "top" /\ ReadLine(t, l).dp = d /\ ReadLine(t, l).candidates = c
    BY <2>2, <2>4 DEF Reading
  <2> QED
    BY <2>1, <2>5, <2>9, <2>10
<1>5. Walk(s, lines) \in H[n]
  <2> HIDE DEF H
  <2> QED
    BY <1>1, <1>3, <1>4, WalkReaches
<1> QED
  BY <1>1, <1>5

(* The elements of its rows: each is a candidate, if the dataplane is named*)
(* or nothing came before.                                                 *)
LEMMA RanksAreListed ==
  ASSUME NEW X, NEW rows \in Seq(X), Distinct(rows), NEW d \in Nat, NEW P, NEW N, NEW lines,
         IsRanks(lines, d, rows), \A id \in Int : <<d, id>> \notin P,
         d # NoContext \/ P = {},
         NEW s \in Reading, Lists(s.candidates, P, N)
  PROVE  LET t == Walk(s, lines)
         IN t \in Reading /\ Lists(t.candidates, P \cup PairsOf(d, rows, Len(rows)), N)
<1> DEFINE n == Len(rows)
           upTo(i) == P \cup PairsOf(d, rows, i)
           H == [i \in 0 .. n |-> {t \in Reading : Lists(t.candidates, upTo(i), N)}]
<1>1. n \in Nat /\ lines \in Seq(Lines) /\ Len(lines) = n
  BY DEF IsRanks
<1>2. upTo(0) = P
  BY DEF PairsOf
<1>3. s \in H[0]
  <2> HIDE DEF upTo
  <2> QED
    BY <1>1, <1>2
<1>4. ASSUME NEW i \in 1 .. n, NEW t \in Reading, t \in H[i - 1]
      PROVE  ReadLine(t, lines[i]) \in H[i]
  <2> DEFINE l == lines[i]
             id == rows[i].id
             new == [pct |-> l.pct, count |-> l.count, source |-> l.source]
             c == Merge(t.candidates, d, id, new)
  <2>1. i - 1 \in 0 .. n /\ i \in 0 .. n /\ n \in Nat
    BY <1>1
  <2>2. Lists(t.candidates, upTo(i - 1), N)
    BY <1>4, <2>1
  <2>3. l \in Lines /\ l.kind = "element" /\ l.id = id /\ l.dp = d /\ l.source = Missing
    BY <1>1, <2>1 DEF IsRanks
  <2>4. ReadLine(t, l) = [t EXCEPT !.candidates = c]
    BY <2>3 DEF ReadLine, ReadElement
  <2>5. ReadLine(t, l) \in Reading
    BY <2>3, LineKeepsReading
  <2>6. id \in Int /\ l.pct \in Int /\ l.count \in Int /\ l.source \in Int
    BY <2>3 DEF Lines
  <2>7. new \in Fields /\ new.source \in {Missing, id + d}
    BY <2>3, <2>6 DEF Fields
  <2>8. /\ upTo(i) = upTo(i - 1) \cup {<<d, id>>}
        /\ <<d, id>> \notin upTo(i - 1)
        /\ d # NoContext \/ \A p \in upTo(i - 1) : p[2] # id
    <3>1. /\ PairsOf(d, rows, i) = PairsOf(d, rows, i - 1) \cup {<<d, id>>}
          /\ \A p \in PairsOf(d, rows, i - 1) : p[2] # id
      BY PairsGrow
    <3>2. <<d, id>> \notin P
      BY <2>6
    <3> HIDE DEF id
    <3> QED
      BY <3>1, <3>2
  <2> HIDE DEF upTo, new, id
  <2>9. Lists(c, upTo(i), N)
    BY <2>2, <2>6, <2>7, <2>8, NewOneLists
  <2> HIDE DEF c
  <2>10. ReadLine(t, l).candidates = c
    BY <2>4 DEF Reading
  <2> QED
    BY <2>1, <2>5, <2>9, <2>10
<1>5. Walk(s, lines) \in H[n]
  <2> HIDE DEF H
  <2> QED
    BY <1>1, <1>3, <1>4, WalkReaches
<1> QED
  BY <1>1, <1>5

(* The flows below the details, and the elements that carry them, belong to*)
(* candidates that are there.                                              *)
LEMMA FlowsAreKept ==
  ASSUME NEW d \in Nat, NEW P, NEW N, NEW lines, IsFlows(lines, d, P),
         NEW s \in Reading, s.section = "details", s.dp = d, Lists(s.candidates, P, N)
  PROVE  LET t == Walk(s, lines)
         IN t \in Reading /\ Lists(t.candidates, P, N)
<1> DEFINE n == Len(lines)
           Good == {t \in Reading : t.section = "details" /\ t.dp = d /\ Lists(t.candidates, P, N)}
           H == [i \in 0 .. n |-> Good]
<1>1. n \in Nat /\ lines \in Seq(Lines)
  BY DEF IsFlows
<1>2. s \in H[0]
  BY <1>1
<1>3. ASSUME NEW i \in 1 .. n, NEW t \in Good
      PROVE  ReadLine(t, lines[i]) \in Good
  <2> DEFINE l == lines[i]
             new == [source |-> l.source]
             c == Merge(t.candidates, d, l.id, new)
  <2>1. /\ l \in Lines /\ l.kind = "flow" /\ l.source = l.id + d /\ <<d, l.id>> \in P
        /\ l.id \in Int /\ l.source \in Int
    BY <1>1 DEF IsFlows, Lines
  <2>2. ReadLine(t, l) = [t EXCEPT !.candidates = c]
    BY <2>1 DEF ReadLine
  <2>3. ReadLine(t, l) \in Reading
    BY <2>1, LineKeepsReading
  <2>4. new \in Fields /\ new.source \in {Missing, l.id + d}
    BY <2>1 DEF Fields
  <2> HIDE DEF new
  <2>5. Lists(c, P, N)
    BY <2>1, <2>4, MergeLists
  <2> HIDE DEF c
  <2>6. /\ ReadLine(t, l).candidates = c /\ ReadLine(t, l).section = "details"
        /\ ReadLine(t, l).dp = d
    BY <2>2 DEF Reading
  <2> QED
    BY <2>3, <2>5, <2>6
<1> HIDE DEF Good
<1>4. \A i \in 1 .. n : \A t \in Reading : t \in H[i - 1] => ReadLine(t, lines[i]) \in H[i]
  BY <1>1, <1>3
<1>5. Walk(s, lines) \in H[n]
  <2> HIDE DEF H
  <2> QED
    BY <1>1, <1>2, <1>4, WalkReaches
<1> QED
  BY <1>1, <1>5 DEF Good

LEMMA FlowElementsAreKept ==
  ASSUME NEW d \in Nat, NEW P, NEW N, NEW lines, IsFlowElements(lines, d, P),
         NEW s \in Reading, Lists(s.candidates, P, N)
  PROVE  LET t == Walk(s, lines)
         IN t \in Reading /\ Lists(t.candidates, P, N)
<1> DEFINE n == Len(lines)
           Good == {t \in Reading : Lists(t.candidates, P, N)}
           H == [i \in 0 .. n |-> Good]
<1>1. n \in Nat /\ lines \in Seq(Lines)
  BY DEF IsFlowElements
<1>2. s \in H[0]
  BY <1>1
<1>3. ASSUME NEW i \in 1 .. n, NEW t \in Good
      PROVE  ReadLine(t, lines[i]) \in Good
  <2> DEFINE l == lines[i]
             new == [pct |-> l.pct, count |-> l.count, source |-> l.source]
             c == Merge(t.candidates, d, l.id, new)
  <2>1. /\ l \in Lines /\ l.kind = "element" /\ l.source = l.id + d /\ <<d, l.id>> \in P
        /\ l.id \in Int /\ l.source \in Int /\ l.pct \in Int /\ l.count \in Int /\ l.dp = d
    BY <1>1 DEF IsFlowElements, Lines
  <2>2. ReadLine(t, l) = [t EXCEPT !.candidates = c]
    BY <2>1 DEF ReadLine, ReadElement
  <2>3. ReadLine(t, l) \in Reading
    BY <2>1, LineKeepsReading
  <2>4. new \in Fields /\ new.source \in {Missing, l.id + d}
    BY <2>1 DEF Fields
  <2> HIDE DEF new
  <2>5. Lists(c, P, N)
    BY <2>1, <2>4, MergeLists
  <2> HIDE DEF c
  <2>6. ReadLine(t, l).candidates = c
    BY <2>2 DEF Reading
  <2> QED
    BY <2>3, <2>5, <2>6
<1> HIDE DEF Good
<1>4. \A i \in 1 .. n : \A t \in Reading : t \in H[i - 1] => ReadLine(t, lines[i]) \in H[i]
  BY <1>1, <1>3
<1>5. Walk(s, lines) \in H[n]
  <2> HIDE DEF H
  <2> QED
    BY <1>1, <1>2, <1>4, WalkReaches
<1> QED
  BY <1>1, <1>5 DEF Good

===============================================================================
