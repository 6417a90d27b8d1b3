-------------------------- MODULE PopulationProofs --------------------------
(***************************************************************************)
(* What the operations of Population do to a population, for any number of *)
(* variables, solutions and places: a population passes its own test       *)
(* before and after, and its best solution is the best that it was given.  *)
(***************************************************************************)
EXTENDS Population, FiniteSetTheorems, SequenceTheorems, WellFoundedInduction,
        TLAPS

-----------------------------------------------------------------------------
(* Numbers.                                                                *)

\* A set of natural numbers has a least one.
LEMMA LeastNumber ==
  ASSUME NEW S \in SUBSET Nat, S # {}
  PROVE  \E m \in S : \A k \in S : m <= k
<1> DEFINE R == {p \in Nat \X Nat : p[1] < p[2]}
<1>1. IsWellFoundedOn(R, Nat)
  BY NatLessThanWellFounded, Zenon DEF OpToRel
<1>2. PICK x \in S : \A y \in S : ~(<<y, x>> \in R)
  <2> HIDE DEF R
  <2> QED
    BY <1>1, WFMin
<1>3. ASSUME NEW y \in S PROVE x <= y
  <2>1. x \in Nat /\ y \in Nat /\ ~(<<y, x>> \in R)
    BY <1>2
  <2>2. ~(y < x)
    BY <2>1, Zenon
  <2> HIDE DEF R
  <2> QED
    BY <2>1, <2>2
<1> QED
  BY <1>3

\* A set of natural numbers that has a bound has a greatest one.
LEMMA GreatestNumber ==
  ASSUME NEW N \in Nat, NEW S \in SUBSET (0..N), S # {}
  PROVE  \E m \in S : \A k \in S : k <= m
<1> DEFINE T == {N - k : k \in S}
<1>1. T \in SUBSET Nat /\ T # {}
  OBVIOUS
<1>2. PICK m \in T : \A k \in T : m <= k
  BY <1>1, LeastNumber
<1>3. PICK n \in S : m = N - n
  OBVIOUS
<1>4. \A k \in S : N - n <= N - k
  BY <1>2, <1>3
<1> QED
  BY <1>4

\* Min and Max are what they are called.
LEMMA MinIsLeast ==
  ASSUME NEW S \in SUBSET Nat, S # {}
  PROVE  Min(S) \in S /\ \A k \in S : Min(S) <= k
BY LeastNumber DEF Min

\* The same of Max.
LEMMA MaxIsGreatest ==
  ASSUME NEW N \in Nat, NEW S \in SUBSET (0..N), S # {}
  PROVE  Max(S) \in S /\ \A k \in S : k <= Max(S)
<1>1. \E m \in S : \A k \in S : m >= k
  <2>1. PICK m \in S : \A k \in S : k <= m
    BY GreatestNumber
  <2> QED
    BY <2>1
<1>2. Max(S) \in S /\ \A k \in S : Max(S) >= k
  BY <1>1 DEF Max
<1> QED
  BY <1>2

\* A finite set of which every member has all smaller numbers in it, too.
LEMMA Downward ==
  ASSUME NEW N \in Nat, NEW S \in SUBSET (1..N),
         \A k \in S : \A j \in 1..k : j \in S
  PROVE  Cardinality(S) \in 0..N /\ S = 1..Cardinality(S)
<1>1. CASE S = {}
  BY <1>1, FS_EmptySet
<1>2. CASE S # {}
  <2>0. S \in SUBSET (0..N)
    OBVIOUS
  <2>1. PICK m \in S : \A k \in S : k <= m
    BY <1>2, <2>0, GreatestNumber
  <2>2. S = 1..m
    <3>1. \A k \in 1..m : k \in S
      OBVIOUS
    <3>2. \A k \in S : k \in 1..m
      BY <2>1
    <3> QED
      BY <3>1, <3>2
  <2>3. Cardinality(1..m) = m
    BY <2>1, FS_Interval
  <2> QED
    BY <2>1, <2>2, <2>3
<1> QED
  BY <1>1, <1>2

-----------------------------------------------------------------------------
(* Sequences.                                                              *)

\* A sequence of n members of a set has all of them.
Onto(e, n, S) == \A x \in S : \E i \in 1..n : e[i] = x

\* The first n elements of r are those of s at the places e.
Picks(r, s, e, n) == \A i \in 1..n : r[i] = s[e[i]]

\* The places increase.
Increasing(e, n) == \A i, j \in 1..n : i < j => e[i] < e[j]

\* A finite set and a total order of it, as pairs.
IsOrder(S, R) ==
  /\ \A x \in S : <<x, x>> \in R
  /\ \A x, y \in S : <<x, y>> \in R /\ <<y, x>> \in R => x = y
  /\ \A x, y, z \in S : <<x, y>> \in R /\ <<y, z>> \in R => <<x, z>> \in R
  /\ \A x, y \in S : <<x, y>> \in R \/ <<y, x>> \in R

\* InOrder enumerates the set in the order: each member once.
LEMMA Enumerates ==
  ASSUME NEW S, IsFiniteSet(S), NEW R, IsOrder(S, R)
  PROVE  /\ Cardinality(S) \in Nat
         /\ InOrder(S, R) \in [1..Cardinality(S) -> S]
         /\ \A x \in S : \E i \in 1..Cardinality(S) : InOrder(S, R)[i] = x
         /\ \A i, j \in 1..Cardinality(S) :
              i < j => /\ <<InOrder(S, R)[i], InOrder(S, R)[j]>> \in R
                       /\ InOrder(S, R)[i] # InOrder(S, R)[j]
<1> DEFINE n == Cardinality(S)
<1> DEFINE Below(x) == {y \in S : <<y, x>> \in R}
<1> DEFINE pos == [x \in S |-> Cardinality(Below(x))]
<1>1. n \in Nat
  BY FS_CardinalityType
<1>2. ASSUME NEW x \in S
      PROVE  IsFiniteSet(Below(x)) /\ pos[x] \in 1..n
  <2>1. IsFiniteSet(Below(x)) /\ Cardinality(Below(x)) <= n
    BY FS_Subset
  <2>2. Cardinality(Below(x)) \in Nat
    BY <2>1, FS_CardinalityType
  <2>3. x \in Below(x)
    BY DEF IsOrder
  <2>4. Cardinality(Below(x)) # 0
    BY <2>1, <2>3, FS_EmptySet
  <2> QED
    BY <1>1, <2>1, <2>2, <2>4
<1>3. ASSUME NEW x \in S, NEW y \in S, <<x, y>> \in R, x # y
      PROVE  pos[x] < pos[y]
  <2>1. Below(x) \subseteq Below(y)
    BY <1>3 DEF IsOrder
  <2>2. y \in Below(y) /\ y \notin Below(x)
    BY <1>3 DEF IsOrder
  <2>3. IsFiniteSet(Below(y))
    BY <1>2
  <2>4. /\ Cardinality(Below(x)) <= Cardinality(Below(y))
        /\ Cardinality(Below(y)) # Cardinality(Below(x))
    <3> HIDE DEF Below
    <3> QED
      BY <2>1, <2>2, <2>3, FS_Subset
  <2>5. pos[x] \in Nat /\ pos[y] \in Nat
    BY <1>1, <1>2
  <2> QED
    BY <2>4, <2>5
<1>4. pos \in Injection(S, 1..n)
  <2>1. pos \in [S -> 1..n]
    BY <1>2
  <2>2. ASSUME NEW x \in S, NEW y \in S, pos[x] = pos[y] PROVE x = y
    <3>1. <<x, y>> \in R \/ <<y, x>> \in R
      BY DEF IsOrder
    <3>2. pos[x] \in Nat /\ pos[y] \in Nat
      BY <1>1, <2>1
    <3> HIDE DEF pos
    <3> QED
      BY <1>3, <2>2, <3>1, <3>2
  <2> HIDE DEF pos
  <2> QED
    BY <2>1, <2>2 DEF Injection, IsInjective
<1>5. \A i \in 1..n : \E x \in S : pos[x] = i
  <2>1. IsFiniteSet(1..n) /\ Cardinality(1..n) = n
    BY <1>1, FS_Interval
  <2>2. pos \in Surjection(S, 1..n)
    <3> HIDE DEF pos
    <3> QED
      BY <1>4, <2>1, FS_Injection
  <2> QED
    BY <2>2 DEF Surjection
<1> DEFINE e == InOrder(S, R)
<1>6. ASSUME NEW i \in 1..n PROVE e[i] \in S /\ pos[e[i]] = i
  <2>1. \E x \in S : Cardinality({y \in S : <<y, x>> \in R}) = i
    BY <1>5
  <2>2. e[i] = CHOOSE x \in S : Cardinality({y \in S : <<y, x>> \in R}) = i
    BY DEF InOrder
  <2> QED
    BY <2>1, <2>2
<1>7. e = [i \in 1..n |-> e[i]]
  <2> DEFINE c(i) == CHOOSE x \in S : Cardinality({y \in S : <<y, x>> \in R}) = i
  <2>1. e = [i \in 1..n |-> c(i)]
    BY DEF InOrder
  <2> HIDE DEF c, e
  <2> QED
    BY <2>1
<1> HIDE DEF e
<1>8. ASSUME NEW x \in S PROVE \E i \in 1..n : e[i] = x
  <2>1. pos[x] \in 1..n
    BY <1>2
  <2>2. pos[e[pos[x]]] = pos[x] /\ e[pos[x]] \in S
    BY <1>6, <2>1
  <2>3. e[pos[x]] = x
    <3> HIDE DEF pos
    <3> QED
      BY <2>2, <1>4 DEF Injection, IsInjective
  <2> QED
    BY <2>1, <2>3
<1>9. ASSUME NEW i \in 1..n, NEW j \in 1..n, i < j
      PROVE  <<e[i], e[j]>> \in R /\ e[i] # e[j]
  <2>1. e[i] \in S /\ e[j] \in S /\ pos[e[i]] = i /\ pos[e[j]] = j
    BY <1>6
  <2> HIDE DEF pos
  <2>2. e[i] # e[j]
    BY <1>9, <2>1, <1>1
  <2>3. <<e[i], e[j]>> \in R \/ <<e[j], e[i]>> \in R
    BY <2>1 DEF IsOrder
  <2> QED
    BY <1>1, <1>3, <1>9, <2>1, <2>2, <2>3
<1>10. e \in [1..n -> S]
  <2> HIDE DEF pos
  <2> QED
    BY <1>6, <1>7
<1> QED
  BY <1>1, <1>8, <1>9, <1>10 DEF e

\* The places of the elements that stay.
KeptPlaces(seq, gone) ==
  LET places == DOMAIN seq
  IN  InOrder(places \ gone, {jk \in places \X places : jk[1] <= jk[2]})

\* A sequence without some of its elements: the others, in their order.
LEMMA RemovesAtAll ==
  ASSUME NEW T, NEW s \in Seq(T), NEW gone
  PROVE  /\ Cardinality(DOMAIN s \ gone) \in 0..Len(s)
         /\ gone \cap DOMAIN s # {} => Cardinality(DOMAIN s \ gone) < Len(s)
         /\ RemoveAtAll(s, gone) \in Seq(T)
         /\ Len(RemoveAtAll(s, gone)) = Cardinality(DOMAIN s \ gone)
         /\ KeptPlaces(s, gone)
              \in [1..Cardinality(DOMAIN s \ gone) -> DOMAIN s \ gone]
         /\ Picks(RemoveAtAll(s, gone), s, KeptPlaces(s, gone),
                  Cardinality(DOMAIN s \ gone))
         /\ Increasing(KeptPlaces(s, gone), Cardinality(DOMAIN s \ gone))
         /\ Onto(KeptPlaces(s, gone), Cardinality(DOMAIN s \ gone),
                 DOMAIN s \ gone)
<1> DEFINE D == DOMAIN s
<1> DEFINE K == D \ gone
<1> DEFINE m == Cardinality(K)
<1> DEFINE R == {jk \in D \X D : jk[1] <= jk[2]}
<1> DEFINE e == InOrder(K, R)
<1>1. Len(s) \in Nat /\ D = 1..Len(s)
  OBVIOUS
<1>2. IsFiniteSet(D) /\ Cardinality(D) = Len(s)
  BY <1>1, FS_Interval
<1>3. IsFiniteSet(K) /\ m <= Len(s) /\ (m = Len(s) => K = D)
  BY <1>2, FS_Subset
<1>4. IsOrder(K, R)
  BY <1>1 DEF IsOrder
<1>5. /\ m \in Nat
      /\ e \in [1..m -> K]
      /\ \A x \in K : \E i \in 1..m : e[i] = x
      /\ \A i, j \in 1..m : i < j => <<e[i], e[j]>> \in R /\ e[i] # e[j]
  <2> HIDE DEF K, R
  <2> QED
    BY <1>3, <1>4, Enumerates
<1>6. RemoveAtAll(s, gone) = [i \in DOMAIN e |-> s[e[i]]]
  BY DEF RemoveAtAll
<1>6a. KeptPlaces(s, gone) = e
  BY DEF KeptPlaces
<1> HIDE DEF e
<1>7. \A i \in 1..m : e[i] \in 1..Len(s) /\ s[e[i]] \in T
  <2>1. K \subseteq 1..Len(s)
    BY <1>1
  <2>2. \A i \in 1..m : e[i] \in K
    <3> HIDE DEF K
    <3> QED
      BY <1>5
  <2>3. \A k \in 1..Len(s) : s[k] \in T
    OBVIOUS
  <2> HIDE DEF m, K
  <2> QED
    BY <2>1, <2>2, <2>3
<1>8. /\ RemoveAtAll(s, gone) = [i \in 1..m |-> s[e[i]]]
      /\ RemoveAtAll(s, gone) \in Seq(T)
      /\ Len(RemoveAtAll(s, gone)) = m
  <2>1. RemoveAtAll(s, gone) = [i \in 1..m |-> s[e[i]]]
    BY <1>5, <1>6
  <2> HIDE DEF m
  <2> QED
    BY <1>5, <1>7, <2>1
<1>9. \A i, j \in 1..m : i < j => e[i] < e[j]
  <2> SUFFICES ASSUME NEW i \in 1..m, NEW j \in 1..m, i < j
               PROVE  e[i] < e[j]
    OBVIOUS
  <2>1. <<e[i], e[j]>> \in R /\ e[i] # e[j]
    BY <1>5
  <2>2. e[i] <= e[j]
    BY <2>1
  <2>3. e[i] \in Int /\ e[j] \in Int
    <3> HIDE DEF m, R
    <3> QED
      BY <1>7
  <2> QED
    BY <2>1, <2>2, <2>3
<1>10. m \in 0..Len(s) /\ (gone \cap D # {} => m < Len(s))
  BY <1>1, <1>3, <1>5
<1>11. /\ e \in [1..m -> K]
       /\ \A i \in 1..m : RemoveAtAll(s, gone)[i] = s[e[i]]
       /\ \A k \in K : \E i \in 1..m : e[i] = k
  <2>1. \A i \in 1..m : RemoveAtAll(s, gone)[i] = s[e[i]]
    BY <1>8
  <2> QED
    BY <1>5, <2>1
<1> QED
  BY <1>6a, <1>8, <1>9, <1>10, <1>11 DEF Onto, Picks, Increasing

\* The places of the ranks in the order of their costs.
SortedPlaces(ranks) ==
  LET places == DOMAIN ranks
  IN  InOrder(places, {jk \in places \X places :
                         \/ ranks[jk[1]].cost < ranks[jk[2]].cost
                         \/ /\ ranks[jk[1]].cost = ranks[jk[2]].cost
                            /\ jk[1] <= jk[2]})

\* The ranks at these places are sorted by cost.
Sorted(s, e, n) ==
  \A i, j \in 1..n : i < j => e[i] # e[j] /\ s[e[i]].cost <= s[e[j]].cost

\* Ranks sorted by cost: the same ranks, each in one place.
LEMMA SortsByCost ==
  ASSUME NEW T, NEW s \in Seq(T), \A i \in DOMAIN s : s[i].cost \in Nat
  PROVE  /\ ByCost(s) \in Seq(T) /\ Len(ByCost(s)) = Len(s)
         /\ SortedPlaces(s) \in [1..Len(s) -> 1..Len(s)]
         /\ Picks(ByCost(s), s, SortedPlaces(s), Len(s))
         /\ Sorted(s, SortedPlaces(s), Len(s))
         /\ Onto(SortedPlaces(s), Len(s), 1..Len(s))
<1> DEFINE D == DOMAIN s
<1> DEFINE R == {jk \in D \X D :
                   \/ s[jk[1]].cost < s[jk[2]].cost
                   \/ s[jk[1]].cost = s[jk[2]].cost /\ jk[1] <= jk[2]}
<1> DEFINE e == InOrder(D, R)
<1>1. Len(s) \in Nat /\ D = 1..Len(s)
  OBVIOUS
<1>2. IsFiniteSet(D) /\ Cardinality(D) = Len(s)
  BY <1>1, FS_Interval
<1>3. IsOrder(D, R)
  <2>0. DEFINE c == [i \in D |-> s[i].cost]
  <2>1. \A i \in D : c[i] \in Nat
    OBVIOUS
  <2>2. R = {jk \in D \X D : \/ c[jk[1]] < c[jk[2]]
                             \/ c[jk[1]] = c[jk[2]] /\ jk[1] <= jk[2]}
    OBVIOUS
  <2>3. \A j, k \in D : <<j, k>> \in R <=> \/ c[j] < c[k]
                                           \/ c[j] = c[k] /\ j <= k
    BY <2>2
  <2> HIDE DEF R, c
  <2>4. \A j \in D : c[j] \in Nat /\ j \in Nat
    BY <1>1, <2>1
  <2>5. \A j \in D : <<j, j>> \in R
    BY <2>3, <2>4
  <2>6. ASSUME NEW j \in D, NEW k \in D, <<j, k>> \in R, <<k, j>> \in R
        PROVE  j = k
    <3>1. /\ c[j] < c[k] \/ (c[j] = c[k] /\ j <= k)
          /\ c[k] < c[j] \/ (c[k] = c[j] /\ k <= j)
      BY <2>3, <2>6
    <3>2. /\ c[j] \in Nat /\ c[k] \in Nat /\ j \in Nat /\ k \in Nat
      BY <2>4
    <3> QED
      BY <3>1, <3>2
  <2>7. ASSUME NEW j \in D, NEW k \in D
        PROVE  <<j, k>> \in R \/ <<k, j>> \in R
    <3>1. /\ c[j] \in Nat /\ c[k] \in Nat /\ j \in Nat /\ k \in Nat
      BY <2>4
    <3>2. \/ c[j] < c[k] \/ (c[j] = c[k] /\ j <= k)
          \/ c[k] < c[j] \/ (c[k] = c[j] /\ k <= j)
      BY <3>1
    <3> QED
      BY <2>3, <3>2
  <2>8. ASSUME NEW i \in D, NEW j \in D, NEW k \in D,
               <<i, j>> \in R, <<j, k>> \in R
        PROVE  <<i, k>> \in R
    <3>1. /\ c[i] < c[j] \/ (c[i] = c[j] /\ i <= j)
          /\ c[j] < c[k] \/ (c[j] = c[k] /\ j <= k)
      BY <2>3, <2>8
    <3>2. /\ c[i] \in Nat /\ c[j] \in Nat /\ c[k] \in Nat
          /\ i \in Nat /\ j \in Nat /\ k \in Nat
      BY <2>4
    <3>3. c[i] < c[k] \/ (c[i] = c[k] /\ i <= k)
      BY <3>1, <3>2
    <3> QED
      BY <2>3, <3>3
  <2> QED
    BY <2>5, <2>6, <2>7, <2>8 DEF IsOrder
<1>4. /\ e \in [1..Len(s) -> D]
      /\ \A x \in D : \E i \in 1..Len(s) : e[i] = x
      /\ \A i, j \in 1..Len(s) :
           i < j => <<e[i], e[j]>> \in R /\ e[i] # e[j]
  <2> HIDE DEF R
  <2> QED
    BY <1>2, <1>3, Enumerates
<1>5. ByCost(s) = [i \in DOMAIN e |-> s[e[i]]]
  BY DEF ByCost
<1>5a. SortedPlaces(s) = e
  BY DEF SortedPlaces
<1> HIDE DEF e
<1>6. /\ ByCost(s) = [i \in 1..Len(s) |-> s[e[i]]]
      /\ \A i \in 1..Len(s) : s[e[i]] \in T
  BY <1>1, <1>4, <1>5
<1>7. ByCost(s) \in Seq(T) /\ Len(ByCost(s)) = Len(s)
  BY <1>1, <1>6
<1>8. \A i, j \in 1..Len(s) : i < j => s[e[i]].cost <= s[e[j]].cost
  <2> SUFFICES ASSUME NEW i \in 1..Len(s), NEW j \in 1..Len(s), i < j
               PROVE  s[e[i]].cost <= s[e[j]].cost
    OBVIOUS
  <2>1. <<e[i], e[j]>> \in R
    BY <1>4
  <2>2. \/ s[e[i]].cost < s[e[j]].cost
        \/ s[e[i]].cost = s[e[j]].cost
    BY <2>1
  <2>3. s[e[i]].cost \in Nat /\ s[e[j]].cost \in Nat
    BY <1>1, <1>4
  <2> QED
    BY <2>2, <2>3
<1>9. /\ e \in [1..Len(s) -> 1..Len(s)]
      /\ \A i \in 1..Len(s) : ByCost(s)[i] = s[e[i]]
      /\ \A i, j \in 1..Len(s) : i < j => e[i] # e[j]
      /\ \A k \in 1..Len(s) : \E i \in 1..Len(s) : e[i] = k
  <2>1. \A i \in 1..Len(s) : ByCost(s)[i] = s[e[i]]
    BY <1>6
  <2>2. e \in [1..Len(s) -> 1..Len(s)]
    BY <1>1, <1>4
  <2>3. \A i, j \in 1..Len(s) : i < j => e[i] # e[j]
    BY <1>4
  <2>4. \A k \in 1..Len(s) : \E i \in 1..Len(s) : e[i] = k
    BY <1>1, <1>4
  <2> QED
    BY <2>1, <2>2, <2>3, <2>4
<1> QED
  BY <1>5a, <1>7, <1>8, <1>9 DEF Onto, Picks, Sorted

\* r is s with x at place i.
HasInserted(r, s, i, x) ==
  \A k \in 1..(Len(s) + 1) :
    r[k] = IF k < i THEN s[k] ELSE IF k = i THEN x ELSE s[k - 1]

\* A sequence with one element more.
LEMMA InsertsAt ==
  ASSUME NEW T, NEW s \in Seq(T), NEW x \in T, NEW i \in 1..(Len(s) + 1)
  PROVE  /\ InsertAt(s, i, x) \in Seq(T)
         /\ Len(InsertAt(s, i, x)) = Len(s) + 1
         /\ HasInserted(InsertAt(s, i, x), s, i, x)
<1> DEFINE n == Len(s)
<1> DEFINE a == SubSeq(s, 1, i - 1)
<1> DEFINE b == SubSeq(s, i, n)
<1>1. n \in Nat /\ i \in Nat \ {0} /\ i <= n + 1
  OBVIOUS
<1>2. a \in Seq(T) /\ Len(a) = i - 1 /\ \A k \in 1..(i - 1) : a[k] = s[k]
  BY <1>1
<1>3. /\ b \in Seq(T) /\ Len(b) = n - i + 1
      /\ \A k \in 1..(n - i + 1) : b[k] = s[k + i - 1]
  BY <1>1
<1> DEFINE c == a \o <<x>>
<1> HIDE DEF a, b
<1>4. /\ c \in Seq(T) /\ Len(c) = i
      /\ \A k \in 1..i : c[k] = IF k < i THEN s[k] ELSE x
  <2>1. <<x>> \in Seq(T) /\ Len(<<x>>) = 1 /\ <<x>>[1] = x
    OBVIOUS
  <2> QED
    BY <1>1, <1>2, <2>1
<1>5. InsertAt(s, i, x) = c \o b
  BY DEF InsertAt, a, b
<1> HIDE DEF c
<1>6. c \o b \in Seq(T) /\ Len(c \o b) = n + 1
  BY <1>1, <1>3, <1>4
<1>7. ASSUME NEW k \in 1..(n + 1)
      PROVE  (c \o b)[k] =
                IF k < i THEN s[k] ELSE IF k = i THEN x ELSE s[k - 1]
  <2>1. CASE k <= i
    BY <1>1, <1>3, <1>4, <2>1
  <2>2. CASE k > i
    <3>1. k - i \in 1..(n - i + 1) /\ k - i + i - 1 = k - 1
      BY <1>1, <2>2
    <3>2. (c \o b)[k] = b[k - i]
      BY <1>1, <1>3, <1>4, <2>2
    <3> QED
      BY <1>3, <2>2, <3>1, <3>2, <1>1
  <2>3. k <= i \/ k > i
    BY <1>1
  <2> QED
    BY <2>1, <2>2, <2>3
<1> QED
  BY <1>5, <1>6, <1>7 DEF HasInserted

-----------------------------------------------------------------------------
(* Populations.                                                            *)

Pools ==
  [best : [used : BOOLEAN, sol : All, cost : 0..NoCost],
   slots : Seq(All \cup {None}), ranks : Seq([slot : Nat, cost : Nat]),
   radius : 0..Vars, weight : 1..MaxWeight, reported : 0..Inf]

\* A cost of the best feasible solution stands for one, which was reported if
\* nothing better was.
BestInv(p) ==
  p.best.cost < NoCost =>
    /\ p.best.used /\ Feasible(p.best.sol)
    /\ p.best.cost = Cost(p.best.sol, p.weight)
    /\ p.reported <= Obj[p.best.sol]

\* What is true of the pool between two steps, once it has its room.
PoolInv(p) ==
  /\ PoolInvariant(p) /\ PlacesAreRanked(p)
  /\ Len(p.slots) >= MaxRanks

Sound(p) == p \in Pools /\ BestInv(p) /\ PoolInv(p)

\* p has no feasible solution, or it is known that it has none that good.
Lacks(p, obj) ==
  /\ obj < Inf
  /\ p.best.cost = NoCost \/ (Exact(obj) /\ obj < p.best.cost)

\* q has a feasible solution if p has one, which costs no more for p.
NoWorse(p, q) ==
  p.best.cost < NoCost =>
    q.best.cost < NoCost /\ Cost(q.best.sol, p.weight) <= p.best.cost

\* What a change of p may do to the cost of the best solution and to what is
\* reported: neither gets worse, and what is newly reported is not lacking.
Keeps(p, q) ==
  /\ q.weight = p.weight
  /\ q.best.cost <= p.best.cost
  /\ q.reported <= p.reported
  /\ q.reported = p.reported \/ ~Lacks(q, q.reported)

\* Adding solutions to p does no more than that.
Improves(p, q) ==
  /\ Keeps(p, q)
  /\ q.best = p.best \/ q.best.cost < NoCost

\* The constants, and what solutions cost.
LEMMA SolutionFacts ==
  /\ Vars \in Nat \ {0} /\ MaxObj \in Nat /\ Inf \in Nat /\ Inf = MaxObj + 1
  /\ MaxCost \in Nat /\ NoCost \in Nat /\ NoCost = MaxCost + 1
  /\ MaxWeight \in Nat \ {0} /\ MaxSolutions \in Nat \ {0, 1}
  /\ MaxRanks \in Nat \ {0} /\ MaxRanks = MaxSolutions - 1
  /\ None = -1 /\ None \notin All /\ Sols \subseteq All
  /\ \A s \in All : /\ Obj[s] \in 0..MaxObj /\ Excess[s] \in Nat
                    /\ At[s] \subseteq 1..Vars
                    /\ MaxWeight * Excess[s] + Obj[s] <= MaxCost
  /\ \A s : Feasible(s) => s \in Sols /\ s \in All
BY PopulationAssumption DEF All, Inf, NoCost, MaxRanks, None, Feasible

\* The cost of a solution, which is the objective of one without violations.
LEMMA CostFacts ==
  ASSUME NEW s \in All, NEW w \in 1..MaxWeight
  PROVE  /\ Cost(s, w) \in Nat /\ Cost(s, w) <= MaxCost
         /\ Cost(s, w) < NoCost /\ Cost(s, w) \in 0..NoCost
         /\ Obj[s] \in 0..MaxObj /\ Obj[s] < Inf
         /\ Exact(Obj[s]) /\ Feasible(s) => Cost(s, w) = Obj[s]
         /\ Obj[s] <= Cost(s, w)
<1> DEFINE e == Excess[s]
<1>1. /\ e \in Nat /\ Obj[s] \in 0..MaxObj /\ Obj[s] \in Nat
      /\ MaxObj \in Nat /\ MaxWeight \in Nat /\ MaxCost \in Nat
      /\ NoCost = MaxCost + 1 /\ Inf = MaxObj + 1
      /\ MaxWeight * e + Obj[s] <= MaxCost
  BY SolutionFacts
<1>2. Exact(Obj[s]) /\ Feasible(s) => e = 0
  BY DEF Exact, Feasible
<1>3. Cost(s, w) = w * e + Obj[s]
  BY DEF Cost
<1> HIDE DEF e
<1>4. w * e \in Nat /\ MaxWeight * e \in Nat /\ w * e <= MaxWeight * e
  <2>1. MaxWeight - w \in Nat
    BY <1>1
  <2>2. (MaxWeight - w) * e \in Nat
    BY <1>1, <2>1
  <2>3. (MaxWeight - w) * e = MaxWeight * e - w * e
    BY <1>1
  <2> QED
    BY <1>1, <2>2, <2>3
<1>5. e = 0 => w * e = 0
  BY <1>1
<1> QED
  BY <1>1, <1>2, <1>3, <1>4, <1>5

\* Similarity is a number and symmetric.
LEMMA RadiusFacts ==
  ASSUME NEW s \in All, NEW t \in All
  PROVE  Radius(s, t) \in 0..Vars /\ Radius(s, t) = Radius(t, s)
<1> DEFINE D == (At[s] \ At[t]) \cup (At[t] \ At[s])
<1>1. D \in SUBSET (1..Vars) /\ Vars \in Nat
  BY SolutionFacts
<1>2. IsFiniteSet(1..Vars) /\ Cardinality(1..Vars) = Vars
  BY <1>1, FS_Interval
<1>3. Cardinality(D) \in 0..Vars
  <2> HIDE DEF D
  <2>1. IsFiniteSet(D) /\ Cardinality(D) <= Vars
    BY <1>1, <1>2, FS_Subset
  <2> QED
    BY <1>1, <2>1, FS_CardinalityType
<1>4. (At[t] \ At[s]) \cup (At[s] \ At[t]) = D
  OBVIOUS
<1>5. Radius(s, t) = Vars - Cardinality(D)
  BY DEF Radius
<1>6. Radius(t, s) = Vars - Cardinality(D)
  BY <1>4 DEF Radius
<1> HIDE DEF D
<1> QED
  BY <1>1, <1>3, <1>5, <1>6

\* Similarity does not depend on which solution comes first.
LEMMA SimilarSymmetric ==
  ASSUME NEW s \in All, NEW t \in All, NEW r
  PROVE  Similar(s, t, r) <=> Similar(t, s, r)
BY RadiusFacts DEF Similar

\* The types of the parts of a population.
LEMMA PoolTypes ==
  ASSUME NEW p \in Pools
  PROVE  /\ p.best \in [used : BOOLEAN, sol : All, cost : 0..NoCost]
         /\ p.best.used \in BOOLEAN /\ p.best.sol \in All
         /\ p.best.cost \in 0..NoCost /\ p.best.cost \in Nat
         /\ p.slots \in Seq(All \cup {None})
         /\ p.ranks \in Seq([slot : Nat, cost : Nat])
         /\ p.radius \in 0..Vars /\ p.radius \in Nat
         /\ p.weight \in 1..MaxWeight /\ p.weight \in Nat
         /\ p.reported \in 0..Inf /\ p.reported \in Nat
<1>1. /\ p.best \in [used : BOOLEAN, sol : All, cost : 0..NoCost]
      /\ p.slots \in Seq(All \cup {None})
      /\ p.ranks \in Seq([slot : Nat, cost : Nat])
      /\ p.radius \in 0..Vars /\ p.weight \in 1..MaxWeight
      /\ p.reported \in 0..Inf
  BY DEF Pools
<1> QED
  BY <1>1, SolutionFacts

\* A population that is no worse lacks no more, of what is at least as good as
\* what was reported.
LEMMA LacksLess ==
  ASSUME NEW p \in Pools, NEW q \in Pools, BestInv(q), NoWorse(p, q),
         NEW obj \in Nat, obj <= q.reported, Lacks(q, obj)
  PROVE  Lacks(p, obj)
<1>1. /\ p.best.cost \in 0..NoCost /\ q.best.cost \in 0..NoCost
      /\ NoCost \in Nat /\ q.best.sol \in All /\ q.reported \in Nat
      /\ p.weight \in 1..MaxWeight /\ q.weight \in 1..MaxWeight
  BY PoolTypes, SolutionFacts
<1> SUFFICES ASSUME ~Lacks(p, obj) PROVE FALSE
  OBVIOUS
<1> DEFINE s == q.best.sol
<1>2. p.best.cost < NoCost /\ (Exact(obj) => p.best.cost <= obj)
  BY <1>1 DEF Lacks
<1>3. /\ q.best.cost < NoCost /\ Cost(s, p.weight) <= p.best.cost
      /\ Feasible(s) /\ q.best.cost = Cost(s, q.weight)
      /\ q.reported <= Obj[s]
  BY <1>2 DEF NoWorse, BestInv
<1>4. Exact(obj) /\ obj < q.best.cost
  BY <1>1, <1>3 DEF Lacks
<1>5. /\ Obj[s] \in Nat /\ Cost(s, p.weight) \in Nat
      /\ Obj[s] <= Cost(s, p.weight)
      /\ Exact(Obj[s]) => Cost(s, q.weight) = Obj[s]
  <2>1. Obj[s] \in Nat
    BY <1>1, SolutionFacts
  <2> QED
    BY <1>1, <1>3, <2>1, CostFacts
<1>6. Obj[s] = obj
  <2> HIDE DEF s
  <2> QED
    BY <1>1, <1>2, <1>3, <1>4, <1>5
<1> QED
  BY <1>1, <1>3, <1>4, <1>5, <1>6

\* What keeps is no worse.
LEMMA KeepsNoWorse ==
  ASSUME NEW p \in Pools, NEW q \in Pools, BestInv(q), Keeps(p, q)
  PROVE  NoWorse(p, q)
<1>1. p.best.cost \in Nat /\ q.best.cost \in Nat /\ NoCost \in Nat
  BY PoolTypes, SolutionFacts
<1> QED
  BY <1>1 DEF Keeps, NoWorse, BestInv

\* Who has the best of another population is no worse.
LEMMA SameBest ==
  ASSUME NEW p \in Pools, BestInv(p), NEW q, q.best = p.best
  PROVE  NoWorse(p, q)
<1>1. p.best.cost \in Nat
  BY PoolTypes
<1> QED
  BY <1>1 DEF NoWorse, BestInv

\* Improvements add up.
LEMMA KeepsMore ==
  ASSUME NEW p \in Pools, NEW q \in Pools, NEW r \in Pools, BestInv(r),
         Keeps(p, q), Keeps(q, r)
  PROVE  Keeps(p, r)
<1>1. /\ p.best.cost \in Nat /\ q.best.cost \in Nat /\ r.best.cost \in Nat
      /\ p.reported \in Nat /\ q.reported \in Nat /\ r.reported \in Nat
  BY PoolTypes
<1>2. r.reported = q.reported /\ Lacks(r, q.reported)
        => Lacks(q, q.reported)
  BY <1>1, KeepsNoWorse, LacksLess
<1> QED
  BY <1>1, <1>2 DEF Keeps

\* The same when solutions are added.
LEMMA ImprovesMore ==
  ASSUME NEW p \in Pools, NEW q \in Pools, NEW r \in Pools, BestInv(r),
         Improves(p, q), Improves(q, r)
  PROVE  Improves(p, r)
<1>1. Keeps(p, r)
  BY KeepsMore DEF Improves
<1>2. /\ p.best.cost \in Nat /\ q.best.cost \in Nat /\ r.best.cost \in Nat
      /\ r.best.cost <= q.best.cost /\ NoCost \in Nat
  BY PoolTypes, SolutionFacts DEF Improves, Keeps
<1>3. r.best = p.best \/ r.best.cost < NoCost
  BY <1>2 DEF Improves
<1> QED
  BY <1>1, <1>3 DEF Improves

\* Adding nothing.
LEMMA ImprovesNot ==
  ASSUME NEW p \in Pools
  PROVE  Improves(p, p) /\ Keeps(p, p)
<1>1. p.best.cost \in Nat /\ p.reported \in Nat
  BY PoolTypes
<1>2. p.best.cost <= p.best.cost /\ p.reported <= p.reported
  BY <1>1
<1> QED
  BY <1>2, Zenon DEF Improves, Keeps

\* run_solution_callbacks.
LEMMA CallbackFacts ==
  ASSUME NEW p \in Pools, NEW s \in All
  PROVE  LET q == RunSolutionCallbacks(p, s)
         IN  /\ q \in Pools
             /\ q = [p EXCEPT !.reported = q.reported]
             /\ q.reported <= p.reported
             /\ \/ q.reported = p.reported
                \/ Feasible(s) /\ q.reported = Obj[s]
             /\ Feasible(s) => q.reported <= Obj[s]
<1> DEFINE q == RunSolutionCallbacks(p, s)
<1>1. p.reported \in 0..Inf /\ Obj[s] \in 0..Inf /\ Inf \in Nat
  BY SolutionFacts DEF Pools
<1>2. CASE Feasible(s) /\ Obj[s] < p.reported
  <2>1. q = [p EXCEPT !.reported = Obj[s]]
    BY <1>2 DEF RunSolutionCallbacks
  <2>2. q \in Pools /\ q.reported = Obj[s]
    BY <1>1, <2>1 DEF Pools
  <2> QED
    BY <1>1, <1>2, <2>1, <2>2
<1>3. CASE ~(Feasible(s) /\ Obj[s] < p.reported)
  <2>1. q = p
    BY <1>3 DEF RunSolutionCallbacks
  <2>2. p = [p EXCEPT !.reported = p.reported]
    BY DEF Pools
  <2> QED
    BY <1>1, <1>3, <2>1, <2>2
<1> QED
  BY <1>2, <1>3

\* The best feasible solution, and what is reported.
LEMMA BestFacts ==
  ASSUME NEW p \in Pools, BestInv(p), NEW s \in All
  PROVE  LET q == WithBest(p, s)
         IN  /\ q \in Pools /\ BestInv(q) /\ Improves(p, q)
             /\ Feasible(s) => q.best.cost <= Cost(s, p.weight)
             /\ q.slots = p.slots /\ q.ranks = p.ranks
             /\ q.radius = p.radius
<1> DEFINE q == WithBest(p, s)
<1> DEFINE cost == Cost(s, p.weight)
<1>1. /\ p.best.cost \in 0..NoCost /\ Obj[s] \in 0..MaxObj
      /\ p.reported \in 0..Inf /\ p.weight \in 1..MaxWeight
      /\ Inf \in Nat /\ MaxObj \in Nat /\ Inf = MaxObj + 1
      /\ NoCost \in Nat
  BY SolutionFacts DEF Pools
<1>2. /\ cost \in Nat /\ cost < NoCost /\ cost \in 0..NoCost
      /\ Exact(Obj[s]) /\ Feasible(s) => cost = Obj[s]
  BY <1>1, CostFacts
<1>3. CASE BeatsBestFeasible(p, s)
  <2>1. Feasible(s)
    BY <1>3 DEF BeatsBestFeasible
  <2>2. cost <= p.best.cost
    BY <1>1, <1>2, <1>3 DEF BeatsBestFeasible, BestInv
  <2> DEFINE r == RunSolutionCallbacks(p, s)
  <2> DEFINE b == [used |-> TRUE, sol |-> s, cost |-> cost]
  <2>3. /\ r \in Pools /\ r = [p EXCEPT !.reported = r.reported]
        /\ r.reported <= p.reported
        /\ r.reported = p.reported \/ r.reported = Obj[s]
        /\ r.reported <= Obj[s]
    BY <2>1, CallbackFacts
  <2>4. q = [r EXCEPT !.best = b]
    BY <1>3 DEF WithBest
  <2> HIDE DEF q, r, cost
  <2>5. b \in [used : BOOLEAN, sol : All, cost : 0..NoCost]
    BY <1>2
  <2>6. /\ q \in Pools /\ q.best = b /\ q.reported = r.reported
        /\ q.slots = r.slots /\ q.ranks = r.ranks /\ q.radius = r.radius
        /\ q.weight = r.weight
    <3> HIDE DEF b
    <3> QED
      BY <2>3, <2>4, <2>5 DEF Pools
  <2>7. /\ r.slots = p.slots /\ r.ranks = p.ranks /\ r.radius = p.radius
        /\ r.weight = p.weight
    BY <2>3 DEF Pools
  <2>8. /\ q.best.cost = cost /\ q.best.used /\ q.best.sol = s
    BY <2>6
  <2>9. BestInv(q)
    BY <2>1, <2>3, <2>6, <2>7, <2>8 DEF BestInv, cost
  <2>10. q.reported = p.reported \/ ~Lacks(q, q.reported)
    BY <1>1, <1>2, <2>1, <2>3, <2>6, <2>8 DEF Lacks
  <2>11. Improves(p, q)
    BY <1>2, <2>2, <2>3, <2>6, <2>7, <2>8, <2>10 DEF Improves, Keeps
  <2>12. q.best.cost <= cost
    BY <1>2, <2>8
  <2> QED
    BY <2>6, <2>7, <2>9, <2>11, <2>12 DEF q, cost
<1>4. CASE ~BeatsBestFeasible(p, s)
  <2>1. q = p
    BY <1>4 DEF WithBest
  <2>2. Feasible(s) => p.best.cost <= cost
    BY <1>1, <1>2, <1>4 DEF BeatsBestFeasible
  <2> QED
    BY <2>1, <2>2, ImprovesNot
<1> QED
  BY <1>3, <1>4

\* Each rank names a place with a solution.
LEMMA RankFacts ==
  ASSUME NEW p \in Pools, PoolInv(p)
  PROVE  /\ Len(p.ranks) \in Nat /\ Len(p.ranks) <= MaxRanks
         /\ DOMAIN p.ranks = 1..Len(p.ranks)
         /\ Len(p.slots) \in Nat /\ Len(p.slots) >= MaxRanks
         /\ DOMAIN p.slots = 1..Len(p.slots)
         /\ \A i \in 1..Len(p.ranks) :
              /\ p.ranks[i] \in [slot : Nat, cost : Nat]
              /\ p.ranks[i].slot \in 1..Len(p.slots)
              /\ SolAt(p, i) = p.slots[p.ranks[i].slot]
              /\ SolAt(p, i) \in All
              /\ p.ranks[i].cost \in Nat
              /\ p.ranks[i].cost = Cost(SolAt(p, i), p.weight)
         /\ \A i, j \in 1..Len(p.ranks) :
              /\ p.ranks[i].slot = p.ranks[j].slot => i = j
              /\ i < j => /\ p.ranks[i].cost <= p.ranks[j].cost
                          /\ ~Similar(SolAt(p, i), SolAt(p, j), p.radius)
         /\ \A k \in 1..Len(p.slots) :
              p.slots[k] # None <=> \E i \in 1..Len(p.ranks) : p.ranks[i].slot = k
<1>1. /\ Len(p.ranks) \in Nat /\ DOMAIN p.ranks = 1..Len(p.ranks)
      /\ Len(p.slots) \in Nat /\ DOMAIN p.slots = 1..Len(p.slots)
      /\ \A i \in 1..Len(p.ranks) : p.ranks[i] \in [slot : Nat, cost : Nat]
      /\ \A k \in 1..Len(p.slots) : p.slots[k] \in All \cup {None}
  <2> DEFINE S == All \cup {None}
  <2> DEFINE T == [slot : Nat, cost : Nat]
  <2>1. p.slots \in Seq(S) /\ p.ranks \in Seq(T)
    BY PoolTypes
  <2> HIDE DEF S, T
  <2>2. /\ Len(p.ranks) \in Nat /\ DOMAIN p.ranks = 1..Len(p.ranks)
        /\ \A i \in 1..Len(p.ranks) : p.ranks[i] \in T
    BY <2>1
  <2>3. /\ Len(p.slots) \in Nat /\ DOMAIN p.slots = 1..Len(p.slots)
        /\ \A k \in 1..Len(p.slots) : p.slots[k] \in S
    BY <2>1
  <2> QED
    BY <2>2, <2>3 DEF S, T
<1>2. /\ Len(p.slots) >= MaxRanks /\ Len(p.ranks) <= MaxRanks
  BY DEF PoolInv, PoolInvariant, CurrentSize
<1>3. \A k \in 1..Len(p.slots) :
        p.slots[k] # None <=> \E i \in 1..Len(p.ranks) : p.ranks[i].slot = k
  BY <1>1 DEF PoolInv, PlacesAreRanked, FreeSlots
<1>4. ASSUME NEW i \in 1..Len(p.ranks)
      PROVE  /\ p.ranks[i].slot \in 1..Len(p.slots)
             /\ SolAt(p, i) = p.slots[p.ranks[i].slot]
             /\ SolAt(p, i) \in All
             /\ p.ranks[i].cost \in Nat
             /\ p.ranks[i].cost = Cost(SolAt(p, i), p.weight)
  <2>1. p.ranks[i].slot \in 1..Len(p.slots)
    BY <1>1, <1>4 DEF PoolInv, PlacesAreRanked, FreeSlots
  <2>2. SolAt(p, i) = p.slots[p.ranks[i].slot]
    BY DEF SolAt
  <2>3. /\ SolAt(p, i) # None
        /\ p.ranks[i].cost = Cost(SolAt(p, i), p.weight)
    BY <1>1, <1>4 DEF PoolInv, PoolInvariant
  <2> QED
    BY <1>1, <2>1, <2>2, <2>3
<1>5. ASSUME NEW i \in 1..Len(p.ranks), NEW j \in 1..Len(p.ranks)
      PROVE  /\ p.ranks[i].slot = p.ranks[j].slot => i = j
             /\ i < j => /\ p.ranks[i].cost <= p.ranks[j].cost
                         /\ ~Similar(SolAt(p, i), SolAt(p, j), p.radius)
  <2>1. p.ranks[i].slot = p.ranks[j].slot => i = j
    BY <1>1 DEF PoolInv, PlacesAreRanked
  <2>2. i < j => j \in i + 1..Len(p.ranks)
    BY <1>1
  <2>3. \A k \in i + 1..Len(p.ranks) :
          /\ p.ranks[i].cost <= p.ranks[k].cost
          /\ ~Similar(SolAt(p, i), SolAt(p, k), p.radius)
    BY <1>1 DEF PoolInv, PoolInvariant
  <2> QED
    BY <2>1, <2>2, <2>3
<1> QED
  BY <1>1, <1>2, <1>3, <1>4, <1>5

\* The same from its parts.
LEMMA PoolFromRanks ==
  ASSUME NEW p \in Pools,
         Len(p.ranks) <= MaxRanks, Len(p.slots) >= MaxRanks,
         \A i \in 1..Len(p.ranks) :
           /\ p.ranks[i].slot \in 1..Len(p.slots)
           /\ p.slots[p.ranks[i].slot] # None
           /\ p.ranks[i].cost = Cost(SolAt(p, i), p.weight),
         \A i, j \in 1..Len(p.ranks) :
           i < j => /\ p.ranks[i].slot # p.ranks[j].slot
                    /\ p.ranks[i].cost <= p.ranks[j].cost
                    /\ ~Similar(SolAt(p, i), SolAt(p, j), p.radius),
         \A k \in 1..Len(p.slots) :
           p.slots[k] # None => \E i \in 1..Len(p.ranks) : p.ranks[i].slot = k
  PROVE  PoolInv(p)
<1>1. /\ Len(p.ranks) \in Nat /\ DOMAIN p.ranks = 1..Len(p.ranks)
      /\ Len(p.slots) \in Nat /\ DOMAIN p.slots = 1..Len(p.slots)
  BY PoolTypes
<1>2. PlacesAreRanked(p)
  <2>1. ASSUME NEW i \in 1..Len(p.ranks), NEW j \in 1..Len(p.ranks),
               p.ranks[i].slot = p.ranks[j].slot
        PROVE  i = j
    <3>1. i < j \/ j < i \/ i = j
      OBVIOUS
    <3> QED
      BY <2>1, <3>1
  <2>2. DOMAIN p.slots \ FreeSlots(p)
          = {p.ranks[i].slot : i \in DOMAIN p.ranks}
    BY <1>1 DEF FreeSlots
  <2> QED
    BY <1>1, <2>1, <2>2 DEF PlacesAreRanked
<1>3. PoolInvariant(p)
  <2>1. \A i \in DOMAIN p.ranks : SolAt(p, i) # None
    BY <1>1 DEF SolAt
  <2>2. \A i \in DOMAIN p.ranks : \A j \in i + 1..Len(p.ranks) :
          /\ p.ranks[i].cost <= p.ranks[j].cost
          /\ ~Similar(SolAt(p, i), SolAt(p, j), p.radius)
    <3> SUFFICES ASSUME NEW i \in 1..Len(p.ranks),
                        NEW j \in i + 1..Len(p.ranks)
                 PROVE  /\ p.ranks[i].cost <= p.ranks[j].cost
                        /\ ~Similar(SolAt(p, i), SolAt(p, j), p.radius)
      BY <1>1
    <3>1. j \in 1..Len(p.ranks) /\ i < j
      BY <1>1
    <3> QED
      BY <3>1
  <2> QED
    BY <1>1, <2>1, <2>2 DEF PoolInvariant, CurrentSize
<1> QED
  BY <1>2, <1>3 DEF PoolInv

\* Solutions are taken out.
LEMMA RemovedFacts ==
  ASSUME NEW p \in Pools, PoolInv(p), NEW gone \in SUBSET (DOMAIN p.ranks)
  PROVE  LET q == Removed(p, gone)
         IN  /\ q \in Pools /\ PoolInv(q)
             /\ q.best = p.best /\ q.radius = p.radius
             /\ q.weight = p.weight /\ q.reported = p.reported
             /\ gone # {} => Len(q.ranks) < Len(p.ranks)
             /\ \A i \in DOMAIN q.ranks : \E k \in DOMAIN p.ranks \ gone :
                  SolAt(q, i) = SolAt(p, k)
<1> DEFINE q == Removed(p, gone)
<1> DEFINE n == Len(p.ranks)
<1> DEFINE m == Cardinality(DOMAIN p.ranks \ gone)
<1> DEFINE r == RemoveAtAll(p.ranks, gone)
<1> DEFINE t == [i \in DOMAIN p.slots |->
                   IF \E j \in gone : p.ranks[j].slot = i THEN None
                   ELSE p.slots[i]]
<1>1. /\ n \in Nat /\ n <= MaxRanks /\ DOMAIN p.ranks = 1..n
      /\ gone \subseteq 1..n
      /\ p.ranks \in Seq([slot : Nat, cost : Nat])
  BY RankFacts, PoolTypes
<1> DEFINE T == [slot : Nat, cost : Nat]
<1>2. /\ m \in 0..n /\ (gone # {} => m < n)
      /\ r \in Seq(T) /\ Len(r) = m
  <2>1. gone \cap DOMAIN p.ranks = gone
    OBVIOUS
  <2>2. p.ranks \in Seq(T)
    BY <1>1
  <2> HIDE DEF T
  <2> QED
    BY <2>1, <2>2, RemovesAtAll
<1> DEFINE e == KeptPlaces(p.ranks, gone)
<1>3. /\ e \in [1..m -> DOMAIN p.ranks \ gone]
      /\ \A i \in 1..m : r[i] = p.ranks[e[i]]
      /\ \A i, j \in 1..m : i < j => e[i] < e[j]
      /\ \A k \in DOMAIN p.ranks \ gone : \E i \in 1..m : e[i] = k
  <2>1. p.ranks \in Seq(T)
    BY <1>1
  <2> HIDE DEF T
  <2>2. e \in [1..m -> DOMAIN p.ranks \ gone]
    BY <2>1, RemovesAtAll, Zenon
  <2>3. /\ Picks(r, p.ranks, e, m) /\ Increasing(e, m)
        /\ Onto(e, m, DOMAIN p.ranks \ gone)
    BY <2>1, RemovesAtAll, Zenon
  <2> QED
    BY <2>2, <2>3 DEF Onto, Picks, Increasing
<1> HIDE DEF e
<1>4. \A i \in 1..m : e[i] \in 1..n /\ e[i] \notin gone
  BY <1>1, <1>3
<1>5. q = [p EXCEPT !.ranks = r, !.slots = t]
  BY DEF Removed
<1>6. t \in Seq(All \cup {None}) /\ Len(t) = Len(p.slots)
  <2>1. /\ Len(p.slots) \in Nat /\ DOMAIN p.slots = 1..Len(p.slots)
        /\ \A i \in 1..Len(p.slots) : p.slots[i] \in All \cup {None}
    BY RankFacts, PoolTypes
  <2> DEFINE S == All \cup {None}
  <2>2. \A i \in 1..Len(p.slots) : t[i] \in S
    BY <2>1
  <2>3. t = [i \in 1..Len(p.slots) |-> t[i]]
    BY <2>1
  <2>4. Len(p.slots) \in Nat
    BY <2>1
  <2> HIDE DEF t, S
  <2>5. t \in Seq(S) /\ Len(t) = Len(p.slots)
    BY <2>2, <2>3, <2>4
  <2> QED
    BY <2>5 DEF S
<1>7. \A i \in 1..Len(p.slots) :
        t[i] = IF \E j \in gone : p.ranks[j].slot = i THEN None
               ELSE p.slots[i]
  BY RankFacts
<1> HIDE DEF q, r, t, m
<1>8. /\ q \in Pools /\ q.ranks = r /\ q.slots = t
      /\ q.best = p.best /\ q.radius = p.radius
      /\ q.weight = p.weight /\ q.reported = p.reported
  BY <1>2, <1>5, <1>6 DEF Pools
<1>9. \A i \in 1..m :
        /\ r[i].slot \in 1..Len(t)
        /\ t[r[i].slot] = p.slots[r[i].slot]
        /\ t[r[i].slot] # None
        /\ SolAt(q, i) = SolAt(p, e[i])
  <2> SUFFICES ASSUME NEW i \in 1..m
               PROVE  /\ r[i].slot \in 1..Len(t)
                      /\ t[r[i].slot] = p.slots[r[i].slot]
                      /\ t[r[i].slot] # None
                      /\ SolAt(q, i) = SolAt(p, e[i])
    OBVIOUS
  <2>1. e[i] \in 1..n /\ e[i] \notin gone /\ r[i] = p.ranks[e[i]]
    BY <1>3, <1>4
  <2>2. /\ p.ranks[e[i]].slot \in 1..Len(p.slots)
        /\ p.slots[p.ranks[e[i]].slot] # None
    BY <2>1, RankFacts, SolutionFacts, SMTT(30)
  <2>3. ~ \E j \in gone : p.ranks[j].slot = p.ranks[e[i]].slot
    BY <1>1, <2>1, RankFacts, SMTT(30)
  <2> QED
    BY <1>6, <1>7, <1>8, <2>1, <2>2, <2>3, SMTT(30) DEF SolAt
<1>10. PoolInv(q)
  <2>1. Len(q.ranks) <= MaxRanks /\ Len(q.slots) >= MaxRanks
    BY <1>1, <1>2, <1>6, <1>8, RankFacts, SolutionFacts
  <2>2. \A i \in 1..Len(q.ranks) :
          /\ q.ranks[i].slot \in 1..Len(q.slots)
          /\ q.slots[q.ranks[i].slot] # None
          /\ q.ranks[i].cost = Cost(SolAt(q, i), q.weight)
    <3> SUFFICES ASSUME NEW i \in 1..m
                 PROVE  /\ q.ranks[i].slot \in 1..Len(q.slots)
                        /\ q.slots[q.ranks[i].slot] # None
                        /\ q.ranks[i].cost = Cost(SolAt(q, i), q.weight)
      BY <1>2, <1>8
    <3>1. p.ranks[e[i]].cost = Cost(SolAt(p, e[i]), p.weight)
      BY <1>4, RankFacts
    <3> QED
      BY <1>3, <1>8, <1>9, <3>1
  <2>3. \A i, j \in 1..Len(q.ranks) :
          i < j => /\ q.ranks[i].slot # q.ranks[j].slot
                   /\ q.ranks[i].cost <= q.ranks[j].cost
                   /\ ~Similar(SolAt(q, i), SolAt(q, j), q.radius)
    <3> SUFFICES ASSUME NEW i \in 1..m, NEW j \in 1..m, i < j
                 PROVE  /\ r[i].slot # r[j].slot
                        /\ r[i].cost <= r[j].cost
                        /\ ~Similar(SolAt(q, i), SolAt(q, j), p.radius)
      BY <1>2, <1>8
    <3>1. e[i] \in 1..n /\ e[j] \in 1..n /\ e[i] < e[j]
      BY <1>3, <1>4
    <3>2. e[i] # e[j]
      BY <1>1, <3>1
    <3>3. /\ p.ranks[e[i]].slot # p.ranks[e[j]].slot
          /\ p.ranks[e[i]].cost <= p.ranks[e[j]].cost
          /\ ~Similar(SolAt(p, e[i]), SolAt(p, e[j]), p.radius)
      BY <3>1, <3>2, RankFacts
    <3> QED
      BY <1>3, <1>9, <3>3
  <2>4. \A k \in 1..Len(q.slots) :
          q.slots[k] # None => \E i \in 1..Len(q.ranks) : q.ranks[i].slot = k
    <3> SUFFICES ASSUME NEW k \in 1..Len(p.slots), t[k] # None
                 PROVE  \E i \in 1..m : r[i].slot = k
      BY <1>2, <1>6, <1>8
    <3>1. p.slots[k] # None /\ ~ \E j \in gone : p.ranks[j].slot = k
      BY <1>7
    <3>2. PICK l \in 1..n : p.ranks[l].slot = k
      BY <3>1, RankFacts
    <3>3. l \in DOMAIN p.ranks \ gone
      BY <1>1, <3>1, <3>2
    <3>4. PICK i \in 1..m : e[i] = l
      BY <1>3, <3>3
    <3> QED
      BY <1>3, <3>2, <3>4
  <2> QED
    BY <1>8, <2>1, <2>2, <2>3, <2>4, PoolFromRanks
<1>11. \A i \in DOMAIN q.ranks : \E k \in DOMAIN p.ranks \ gone :
         SolAt(q, i) = SolAt(p, k)
  BY <1>2, <1>3, <1>8, <1>9
<1>12. gone # {} => Len(q.ranks) < Len(p.ranks)
  BY <1>2, <1>8
<1> QED
  BY <1>8, <1>10, <1>11, <1>12 DEF q

\* A population that is not full has a free place.
LEMMA FreePlace ==
  ASSUME NEW p \in Pools, PoolInv(p), Len(p.ranks) < MaxRanks
  PROVE  /\ Min(FreeSlots(p)) \in 1..Len(p.slots)
         /\ p.slots[Min(FreeSlots(p))] = None
<1> DEFINE n == Len(p.ranks)
<1> DEFINE l == Len(p.slots)
<1>1. /\ n \in Nat /\ l \in Nat /\ n < l /\ DOMAIN p.slots = 1..l
      /\ \A i \in 1..n : p.ranks[i].slot \in 1..l
      /\ \A k \in 1..l :
           p.slots[k] # None <=> \E i \in 1..n : p.ranks[i].slot = k
  <2>1. MaxRanks \in Nat
    BY SolutionFacts
  <2> QED
    BY <2>1, RankFacts
<1>2. FreeSlots(p) # {}
  <2> SUFFICES ASSUME \A k \in 1..l : p.slots[k] # None PROVE FALSE
    BY <1>1 DEF FreeSlots
  <2> DEFINE f == [i \in 1..n |-> p.ranks[i].slot]
  <2>1. f \in [1..n -> 1..l]
    BY <1>1
  <2>2. \A k \in 1..l : \E i \in 1..n : f[i] = k
    BY <1>1
  <2> HIDE DEF f
  <2>3. f \in Surjection(1..n, 1..l)
    BY <2>1, <2>2 DEF Surjection
  <2>4. \A k \in Nat : IsFiniteSet(1..k) /\ Cardinality(1..k) = k
    BY FS_Interval
  <2>5. Cardinality(1..l) <= Cardinality(1..n)
    BY <1>1, <2>3, <2>4, FS_Surjection
  <2> QED
    BY <1>1, <2>4, <2>5
<1>3. FreeSlots(p) \in SUBSET Nat
  BY <1>1 DEF FreeSlots
<1>4. Min(FreeSlots(p)) \in FreeSlots(p)
  BY <1>2, <1>3, MinIsLeast
<1> QED
  BY <1>1, <1>4 DEF FreeSlots

\* The position of a cost is behind the costs that are no greater.
LEMMA PositionFacts ==
  ASSUME NEW p \in Pools, PoolInv(p), NEW cost \in Nat
  PROVE  /\ InsertedPos(p, cost) \in 1..(Len(p.ranks) + 1)
         /\ \A i \in 1..Len(p.ranks) :
              i < InsertedPos(p, cost) <=> p.ranks[i].cost <= cost
<1> DEFINE n == Len(p.ranks)
<1> DEFINE S == {i \in DOMAIN p.ranks : p.ranks[i].cost <= cost}
<1>1. /\ n \in Nat /\ DOMAIN p.ranks = 1..n
      /\ \A i \in 1..n : p.ranks[i].cost \in Nat
      /\ \A i, j \in 1..n : i < j => p.ranks[i].cost <= p.ranks[j].cost
  BY RankFacts
<1>2. S \in SUBSET (1..n)
  BY <1>1
<1>3. \A k \in S : \A j \in 1..k : j \in S
  <2> SUFFICES ASSUME NEW k \in S, NEW j \in 1..k PROVE j \in S
    OBVIOUS
  <2>1. k \in 1..n /\ j \in 1..n /\ p.ranks[k].cost <= cost
    BY <1>1
  <2>2. j = k \/ p.ranks[j].cost <= p.ranks[k].cost
    BY <1>1, <2>1
  <2>3. p.ranks[j].cost <= cost
    BY <1>1, <2>1, <2>2
  <2> QED
    BY <1>1, <2>1, <2>3
<1>4. Cardinality(S) \in 0..n /\ S = 1..Cardinality(S)
  <2> HIDE DEF S
  <2> QED
    BY <1>1, <1>2, <1>3, Downward
<1>5. InsertedPos(p, cost) = 1 + Cardinality(S)
  BY DEF InsertedPos
<1>6. \A i \in 1..n : i \in S <=> p.ranks[i].cost <= cost
  BY <1>1
<1> HIDE DEF S
<1>7. \A i \in 1..n : i < InsertedPos(p, cost) <=> i \in S
  <2> DEFINE c == Cardinality(S)
  <2>1. c \in 0..n /\ S = 1..c
    BY <1>4
  <2> HIDE DEF c
  <2>2. \A i \in 1..n : i < 1 + c <=> i \in 1..c
    BY <1>1, <2>1
  <2> QED
    BY <1>5, <2>1, <2>2 DEF c
<1> QED
  BY <1>1, <1>4, <1>5, <1>6, <1>7

\* A solution that is similar to none of a population with room joins it.
LEMMA InsertedFacts ==
  ASSUME NEW p \in Pools, PoolInv(p), Len(p.ranks) < MaxRanks,
         NEW s \in All, SimilarTo(p, s) = {}
  PROVE  /\ Inserted(p, s).pop \in Pools /\ PoolInv(Inserted(p, s).pop)
         /\ Inserted(p, s).pop.best = p.best
         /\ Inserted(p, s).pop.weight = p.weight
         /\ Inserted(p, s).pop.reported = p.reported
         /\ Inserted(p, s).pop.ranks # <<>>
<1> DEFINE n == Len(p.ranks)
<1> DEFINE l == Len(p.slots)
<1> DEFINE cost == Cost(s, p.weight)
<1> DEFINE slot == Min(FreeSlots(p))
<1> DEFINE pos == InsertedPos(p, cost)
<1> DEFINE new == [slot |-> slot, cost |-> cost]
<1> DEFINE r == InsertAt(p.ranks, pos, new)
<1> DEFINE t == [p.slots EXCEPT ![slot] = s]
<1> DEFINE q == Inserted(p, s).pop
<1> DEFINE old(i) == IF i < pos THEN i ELSE i - 1
<1>1. /\ n \in Nat /\ l \in Nat /\ n < MaxRanks /\ MaxRanks <= l
      /\ MaxRanks \in Nat
      /\ DOMAIN p.ranks = 1..n /\ DOMAIN p.slots = 1..l
  BY RankFacts, SolutionFacts
<1>2. slot \in 1..l /\ p.slots[slot] = None
  BY FreePlace
<1>3. cost \in Nat
  BY PoolTypes, CostFacts
<1>4. /\ pos \in 1..(n + 1)
      /\ \A i \in 1..n : i < pos <=> p.ranks[i].cost <= cost
  BY <1>3, PositionFacts
<1>5. new \in [slot : Nat, cost : Nat] /\ new.slot = slot /\ new.cost = cost
  BY <1>1, <1>2, <1>3
<1>6. q = [p EXCEPT !.slots = t, !.ranks = r]
  <2>1. q = [p EXCEPT !.slots[slot] = s, !.ranks = r]
    BY DEF Inserted
  <2> QED
    BY <2>1 DEF Pools
<1> HIDE DEF q, slot, cost, pos
<1>7. /\ r \in Seq([slot : Nat, cost : Nat]) /\ Len(r) = n + 1
      /\ \A i \in 1..(n + 1) :
           r[i] = IF i < pos THEN p.ranks[i]
                  ELSE IF i = pos THEN new ELSE p.ranks[i - 1]
  <2> DEFINE T == [slot : Nat, cost : Nat]
  <2>1. p.ranks \in Seq(T) /\ new \in T
    BY <1>5, PoolTypes
  <2> HIDE DEF T, new
  <2>2. /\ r \in Seq(T) /\ Len(r) = n + 1
        /\ HasInserted(r, p.ranks, pos, new)
    BY <1>4, <2>1, InsertsAt
  <2> QED
    BY <2>2 DEF T, HasInserted
<1>8. /\ t \in Seq(All \cup {None}) /\ Len(t) = l
      /\ t[slot] = s /\ \A k \in 1..l : k # slot => t[k] = p.slots[k]
  <2> DEFINE S == All \cup {None}
  <2>1. p.slots \in Seq(S) /\ s \in S
    BY PoolTypes
  <2> HIDE DEF S
  <2>2. /\ t \in Seq(S) /\ Len(t) = l
        /\ t[slot] = s /\ \A k \in 1..l : k # slot => t[k] = p.slots[k]
    BY <1>1, <1>2, <2>1
  <2> QED
    BY <2>2 DEF S
<1> HIDE DEF new, r, t
<1>9. /\ q \in Pools /\ q.ranks = r /\ q.slots = t /\ q.best = p.best
      /\ q.weight = p.weight /\ q.reported = p.reported
      /\ q.radius = p.radius
  BY <1>6, <1>7, <1>8 DEF Pools
<1>10. \A i \in 1..(n + 1) :
         IF i = pos
         THEN r[i].slot = slot /\ r[i].cost = cost /\ SolAt(q, i) = s
         ELSE /\ old(i) \in 1..n /\ r[i] = p.ranks[old(i)]
              /\ r[i].slot \in 1..l /\ r[i].slot # slot
              /\ SolAt(q, i) = SolAt(p, old(i))
  <2> SUFFICES ASSUME NEW i \in 1..(n + 1)
               PROVE  IF i = pos
                      THEN /\ r[i].slot = slot /\ r[i].cost = cost
                           /\ SolAt(q, i) = s
                      ELSE /\ old(i) \in 1..n /\ r[i] = p.ranks[old(i)]
                           /\ r[i].slot \in 1..l /\ r[i].slot # slot
                           /\ SolAt(q, i) = SolAt(p, old(i))
    OBVIOUS
  <2>1. CASE i = pos
    <3>1. r[i] = new
      BY <1>7, <2>1
    <3> QED
      BY <1>5, <1>8, <1>9, <2>1, <3>1 DEF SolAt
  <2>2. CASE i # pos
    <3>1. old(i) \in 1..n
      BY <1>1, <1>4, <2>2
    <3>2. r[i] = p.ranks[old(i)]
      BY <1>4, <1>7, <2>2
    <3> HIDE DEF old
    <3>3. /\ p.ranks[old(i)].slot \in 1..l
          /\ SolAt(p, old(i)) = p.slots[p.ranks[old(i)].slot]
          /\ SolAt(p, old(i)) \in All
      BY <3>1, RankFacts
    <3>4. p.ranks[old(i)].slot # slot
      BY <1>2, <3>3, SolutionFacts
    <3>5. SolAt(q, i) = SolAt(p, old(i))
      BY <1>8, <1>9, <3>2, <3>3, <3>4 DEF SolAt
    <3> QED
      BY <2>2, <3>1, <3>2, <3>3, <3>4, <3>5
  <2> QED
    BY <2>1, <2>2
<1>11. \A i \in 1..n : ~Similar(s, SolAt(p, i), p.radius)
  BY <1>1 DEF SimilarTo
<1>12. ASSUME NEW i \in 1..(n + 1)
       PROVE  /\ r[i].slot \in 1..l /\ t[r[i].slot] # None
              /\ r[i].cost = Cost(SolAt(q, i), p.weight)
  <2>1. CASE i = pos
    BY <1>2, <1>8, <1>10, <2>1, SolutionFacts DEF cost
  <2>2. CASE i # pos
    <3>1. /\ old(i) \in 1..n /\ r[i] = p.ranks[old(i)] /\ r[i].slot \in 1..l
          /\ r[i].slot # slot /\ SolAt(q, i) = SolAt(p, old(i))
      BY <1>10, <2>2, Zenon
    <3> HIDE DEF old
    <3>2. /\ p.ranks[old(i)].cost = Cost(SolAt(p, old(i)), p.weight)
          /\ p.slots[p.ranks[old(i)].slot] \in All
      BY <3>1, RankFacts
    <3> QED
      BY <1>8, <3>1, <3>2, SolutionFacts
  <2> QED
    BY <2>1, <2>2
<1>13. ASSUME NEW i \in 1..(n + 1), NEW j \in 1..(n + 1), i < j
       PROVE  /\ r[i].slot # r[j].slot
              /\ r[i].cost <= r[j].cost
              /\ ~Similar(SolAt(q, i), SolAt(q, j), p.radius)
  <2>1. CASE i = pos
    <3>1. /\ old(j) = j - 1 /\ j # pos /\ ~(j - 1 < pos) /\ j - 1 \in 1..n
      BY <1>1, <1>4, <1>13, <2>1
    <3>2. /\ r[i].slot = slot /\ r[i].cost = cost /\ SolAt(q, i) = s
          /\ r[j] = p.ranks[j - 1] /\ r[j].slot # slot
          /\ SolAt(q, j) = SolAt(p, j - 1)
      BY <1>10, <2>1, <3>1
    <3>3. p.ranks[j - 1].cost \in Nat /\ ~(p.ranks[j - 1].cost <= cost)
      BY <1>4, <3>1, RankFacts
    <3> QED
      BY <1>3, <1>11, <3>1, <3>2, <3>3
  <2>2. CASE j = pos
    <3>1. /\ old(i) = i /\ i # pos /\ i < pos /\ i \in 1..n
      BY <1>1, <1>4, <1>13, <2>2
    <3>2. /\ r[j].slot = slot /\ r[j].cost = cost /\ SolAt(q, j) = s
          /\ r[i] = p.ranks[i] /\ r[i].slot # slot
          /\ SolAt(q, i) = SolAt(p, i)
      BY <1>10, <2>2, <3>1
    <3>3. p.ranks[i].cost <= cost /\ SolAt(p, i) \in All
      BY <1>4, <3>1, RankFacts
    <3>4. ~Similar(SolAt(p, i), s, p.radius)
      BY <1>11, <3>1, <3>3, SimilarSymmetric
    <3> QED
      BY <3>2, <3>3, <3>4
  <2>3. CASE i # pos /\ j # pos
    <3>1. /\ old(i) \in 1..n /\ r[i] = p.ranks[old(i)]
          /\ SolAt(q, i) = SolAt(p, old(i))
          /\ old(j) \in 1..n /\ r[j] = p.ranks[old(j)]
          /\ SolAt(q, j) = SolAt(p, old(j))
      BY <1>10, <2>3, Zenon
    <3>2. old(i) < old(j)
      BY <1>1, <1>4, <1>13, <2>3
    <3> HIDE DEF old
    <3>3. /\ p.ranks[old(i)].slot = p.ranks[old(j)].slot => old(i) = old(j)
          /\ p.ranks[old(i)].cost <= p.ranks[old(j)].cost
          /\ ~Similar(SolAt(p, old(i)), SolAt(p, old(j)), p.radius)
      BY <3>1, <3>2, RankFacts
    <3>4. old(i) # old(j)
      BY <1>1, <3>1, <3>2
    <3> QED
      BY <3>1, <3>3, <3>4
  <2> QED
    BY <2>1, <2>2, <2>3
<1>14. ASSUME NEW k \in 1..l, t[k] # None
       PROVE  \E i \in 1..(n + 1) : r[i].slot = k
  <2>1. CASE k = slot
    BY <1>4, <1>10, <2>1
  <2>2. CASE k # slot
    <3>1. PICK i \in 1..n : p.ranks[i].slot = k
      BY <1>8, <1>14, <2>2, RankFacts
    <3>2. CASE i < pos
      <4>1. i \in 1..(n + 1)
        BY <1>1
      <4>2. r[i] = p.ranks[i]
        BY <1>7, <3>2, <4>1
      <4> QED
        BY <3>1, <4>1, <4>2
    <3>3. CASE ~(i < pos)
      <4>1. PICK m \in 1..(n + 1) : m - 1 = i /\ ~(m < pos) /\ m # pos
        <5>1. i + 1 \in 1..(n + 1) /\ i + 1 > pos /\ (i + 1) - 1 = i
              /\ pos \in Nat
          BY <1>1, <1>4, <3>3
        <5> QED
          BY <5>1
      <4>2. r[m] = p.ranks[m - 1]
        BY <1>7, <4>1
      <4> QED
        BY <3>1, <4>1, <4>2
    <3> QED
      BY <3>2, <3>3
  <2> QED
    BY <2>1, <2>2
<1>15. PoolInv(q)
  <2> HIDE DEF n, l
  <2>1. /\ Len(q.ranks) = n + 1 /\ Len(q.slots) = l
        /\ n + 1 <= MaxRanks /\ l >= MaxRanks
    BY <1>1, <1>7, <1>8, <1>9
  <2>2. \A i \in 1..Len(q.ranks) :
           /\ q.ranks[i].slot \in 1..Len(q.slots)
           /\ q.slots[q.ranks[i].slot] # None
           /\ q.ranks[i].cost = Cost(SolAt(q, i), q.weight)
    BY <1>9, <1>12, <2>1
  <2>3. \A i, j \in 1..Len(q.ranks) :
           i < j => /\ q.ranks[i].slot # q.ranks[j].slot
                    /\ q.ranks[i].cost <= q.ranks[j].cost
                    /\ ~Similar(SolAt(q, i), SolAt(q, j), q.radius)
    BY <1>9, <1>13, <2>1
  <2>4. \A k \in 1..Len(q.slots) :
          q.slots[k] # None => \E i \in 1..Len(q.ranks) : q.ranks[i].slot = k
    BY <1>9, <1>14, <2>1
  <2> QED
    BY <1>9, <2>1, <2>2, <2>3, <2>4, PoolFromRanks
<1>16. q.ranks # <<>>
  <2>1. Len(q.ranks) = n + 1 /\ Len(<<>>) = 0
    BY <1>7, <1>9
  <2> QED
    BY <1>1, <2>1
<1> QED
  BY <1>9, <1>15, <1>16 DEF q

\* What is true of the pool of a population does not depend on its best
\* feasible solution.
SamePool(p, q) ==
  /\ q.slots = p.slots /\ q.ranks = p.ranks
  /\ q.radius = p.radius /\ q.weight = p.weight

\* What is true of a pool depends on nothing else of the population.
LEMMA SamePoolFacts ==
  ASSUME NEW p, NEW q, SamePool(p, q)
  PROVE  /\ PoolInv(p) => PoolInv(q)
         /\ \A s : SimilarTo(q, s) = SimilarTo(p, s)
         /\ \A i : SolAt(q, i) = SolAt(p, i)
<1>1. \A i : SolAt(q, i) = SolAt(p, i)
  BY DEF SolAt, SamePool
<1>2. \A s : SimilarTo(q, s) = SimilarTo(p, s)
  BY <1>1 DEF SimilarTo, SamePool
<1>3. PoolInvariant(p) => PoolInvariant(q)
  BY <1>1, Zenon DEF PoolInvariant, CurrentSize, SamePool
<1>4. PlacesAreRanked(p) => PlacesAreRanked(q)
  BY DEF PlacesAreRanked, FreeSlots, SamePool
<1> QED
  BY <1>1, <1>2, <1>3, <1>4 DEF PoolInv, SamePool

\* A solution replaces others, none of which stays that is similar to it.
LEMMA ReplacedFacts ==
  ASSUME NEW p \in Pools, PoolInv(p), BestInv(p),
         NEW gone \in SUBSET (DOMAIN p.ranks),
         gone # {}, NEW s \in All, SimilarTo(p, s) \subseteq gone
  PROVE  /\ Sound(Inserted(Removed(p, gone), s).pop)
         /\ Inserted(Removed(p, gone), s).pop.best = p.best
         /\ Inserted(Removed(p, gone), s).pop.weight = p.weight
         /\ Inserted(Removed(p, gone), s).pop.reported = p.reported
         /\ Inserted(Removed(p, gone), s).pop.ranks # <<>>
<1> DEFINE q == Removed(p, gone)
<1>1. /\ q \in Pools /\ PoolInv(q)
      /\ q.best = p.best /\ q.radius = p.radius
      /\ q.weight = p.weight /\ q.reported = p.reported
      /\ Len(q.ranks) < Len(p.ranks)
      /\ \A i \in DOMAIN q.ranks : \E k \in DOMAIN p.ranks \ gone :
           SolAt(q, i) = SolAt(p, k)
  BY RemovedFacts
<1> HIDE DEF q
<1>2. Len(q.ranks) < MaxRanks
  <2>1. /\ Len(p.ranks) <= MaxRanks
        /\ Len(p.ranks) \in Nat /\ Len(q.ranks) \in Nat
    BY <1>1, RankFacts
  <2> QED
    BY <1>1, <2>1, SolutionFacts
<1>3. SimilarTo(q, s) = {}
  <2> SUFFICES ASSUME NEW i \in DOMAIN q.ranks,
                      Similar(s, SolAt(q, i), q.radius)
               PROVE  FALSE
    BY DEF SimilarTo
  <2>1. PICK k \in DOMAIN p.ranks \ gone : SolAt(q, i) = SolAt(p, k)
    BY <1>1
  <2>2. k \in SimilarTo(p, s)
    BY <1>1, <2>1 DEF SimilarTo
  <2> QED
    BY <2>1, <2>2
<1> DEFINE r == Inserted(q, s).pop
<1>4. /\ r \in Pools /\ PoolInv(r) /\ r.best = q.best
      /\ r.weight = q.weight /\ r.reported = q.reported
      /\ r.ranks # <<>>
  BY <1>1, <1>2, <1>3, InsertedFacts
<1> HIDE DEF r
<1>5. BestInv(r)
  BY <1>1, <1>4 DEF BestInv
<1>6. /\ Sound(r) /\ r.best = p.best /\ r.weight = p.weight
      /\ r.reported = p.reported /\ r.ranks # <<>>
  BY <1>1, <1>4, <1>5 DEF Sound
<1> QED
  BY <1>6 DEF r, q

\* The outcomes of add_solution.
LEMMA AddSolutionCases ==
  ASSUME NEW p, NEW s
  PROVE  \/ /\ AddSolution(p, s).pop = WithBest(p, s)
            /\ IsFull(p) \/ SimilarTo(p, s) # {}
         \/ /\ SimilarTo(p, s) = {}
            /\ IF IsFull(WithBest(p, s))
               THEN AddSolution(p, s).pop =
                      Inserted(Removed(WithBest(p, s), {MaxRanks}), s).pop
               ELSE AddSolution(p, s).pop = Inserted(WithBest(p, s), s).pop
         \/ /\ SimilarTo(p, s) # {}
            /\ AddSolution(p, s).pop =
                 Inserted(Removed(WithBest(p, s), SimilarTo(p, s)), s).pop
<1>1. Rejected(WithBest(p, s)).pop = WithBest(p, s)
  BY DEF Rejected
<1> QED
  BY <1>1, Zenon DEF AddSolution

\* add_solution keeps the population in order and the best solution, and
\* leaves something in the pool.
LEMMA AddSolutionFacts ==
  ASSUME NEW p, Sound(p), NEW s \in All
  PROVE  /\ Sound(AddSolution(p, s).pop)
         /\ Improves(p, AddSolution(p, s).pop)
         /\ Feasible(s) =>
              AddSolution(p, s).pop.best.cost <= Cost(s, p.weight)
         /\ AddSolution(p, s).pop.ranks # <<>>
<1> DEFINE w == WithBest(p, s)
<1> DEFINE q == AddSolution(p, s).pop
<1>1. p \in Pools /\ BestInv(p) /\ PoolInv(p)
  BY DEF Sound
<1>2. /\ w \in Pools /\ BestInv(w) /\ Improves(p, w)
      /\ Feasible(s) => w.best.cost <= Cost(s, p.weight)
      /\ w.slots = p.slots /\ w.ranks = p.ranks
      /\ w.radius = p.radius /\ w.weight = p.weight
  BY <1>1, BestFacts DEF Improves, Keeps
<1> HIDE DEF w
<1>3. /\ PoolInv(w) /\ SimilarTo(w, s) = SimilarTo(p, s)
  <2>1. SamePool(p, w)
    BY <1>2 DEF SamePool
  <2> QED
    BY <1>1, <2>1, SamePoolFacts
<1>4. SimilarTo(w, s) \in SUBSET (DOMAIN w.ranks)
  BY DEF SimilarTo
<1>5. \/ q = w /\ q.ranks # <<>>
      \/ Sound(q) /\ q.best = w.best /\ q.weight = w.weight
           /\ q.reported = w.reported /\ q.ranks # <<>>
  <2>1. CASE /\ SimilarTo(p, s) = {} /\ IsFull(w)
             /\ q = Inserted(Removed(w, {MaxRanks}), s).pop
    <3>1. {MaxRanks} \in SUBSET (DOMAIN w.ranks)
      BY <1>2, <1>3, <2>1, RankFacts, SolutionFacts DEF IsFull, CurrentSize
    <3>2. SimilarTo(w, s) \subseteq {MaxRanks}
      BY <1>3, <2>1
    <3> HIDE DEF q
    <3> QED
      BY <1>2, <1>3, <2>1, <3>1, <3>2, ReplacedFacts
  <2>2. CASE /\ SimilarTo(p, s) = {} /\ ~IsFull(w)
             /\ q = Inserted(w, s).pop
    <3>1. Len(w.ranks) < MaxRanks
      BY <1>2, <1>3, <2>2, RankFacts, SolutionFacts DEF IsFull, CurrentSize
    <3> HIDE DEF q
    <3>2. /\ q \in Pools /\ PoolInv(q) /\ q.best = w.best
          /\ q.weight = w.weight /\ q.reported = w.reported
          /\ q.ranks # <<>>
      BY <1>2, <1>3, <2>2, <3>1, InsertedFacts
    <3> QED
      BY <1>2, <3>2 DEF Sound, BestInv
  <2>3. CASE /\ SimilarTo(p, s) # {}
             /\ q = Inserted(Removed(w, SimilarTo(p, s)), s).pop
    <3> HIDE DEF q
    <3>1. SimilarTo(w, s) # {} /\ SimilarTo(w, s) \subseteq SimilarTo(w, s)
          /\ q = Inserted(Removed(w, SimilarTo(w, s)), s).pop
      BY <1>3, <2>3
    <3> QED
      BY <1>2, <1>3, <1>4, <3>1, ReplacedFacts
  <2>4. CASE /\ q = w
             /\ IsFull(p) \/ SimilarTo(p, s) # {}
    <3>1. DOMAIN p.ranks = 1..Len(p.ranks) /\ Len(<<>>) = 0 /\ 1..0 = {}
      BY <1>1, RankFacts
    <3>2. p.ranks # <<>>
      BY <2>4, <3>1, SolutionFacts DEF IsFull, CurrentSize, SimilarTo
    <3> QED
      BY <1>2, <2>4, <3>2
  <2> QED
    BY <2>1, <2>2, <2>3, <2>4, AddSolutionCases DEF w
<1> HIDE DEF q
<1>6. Sound(q)
  BY <1>2, <1>3, <1>5 DEF Sound
<1>7. Improves(p, q) /\ (Feasible(s) => q.best.cost <= Cost(s, p.weight))
  BY <1>2, <1>5 DEF Improves, Keeps, Lacks
<1> QED
  BY <1>5, <1>6, <1>7 DEF q

-----------------------------------------------------------------------------
(* Adding several solutions.                                               *)

\* f is p with the first n of the solutions, for each n up to m.
Adds(f, p, sols, m) ==
  f = [n \in 0..m |-> IF n = 0 THEN p ELSE AddSolution(f[n - 1], sols[n]).pop]

\* There is such a function, so that AddAll is what it is defined to be.
LEMMA AddsExists ==
  ASSUME NEW p, NEW sols, NEW l \in Nat
  PROVE  \E f : Adds(f, p, sols, l)
<1> DEFINE Bad == {m \in Nat : ~ \E f : Adds(f, p, sols, m)}
<1> SUFFICES ASSUME Bad # {} PROVE FALSE
  OBVIOUS
<1>1. PICK m \in Bad : \A k \in Bad : m <= k
  BY LeastNumber
<1>2. m # 0
  <2>1. Adds([n \in 0..0 |-> p], p, sols, 0)
    <3> DEFINE f == [n \in 0..0 |-> p]
    <3> DEFINE g == [n \in 0..0 |->
                       IF n = 0 THEN p ELSE AddSolution(f[n - 1], sols[n]).pop]
    <3>1. \A n \in 0..0 : f[n] = g[n]
      OBVIOUS
    <3>2. f = g
      BY <3>1
    <3> QED
      BY <3>2 DEF Adds
  <2>2. 0 \notin Bad
    BY <2>1
  <2> QED
    BY <2>2
<1>3. m - 1 \in Nat /\ m - 1 \notin Bad
  BY <1>1, <1>2
<1>4. PICK f : Adds(f, p, sols, m - 1)
  BY <1>3
<1> DEFINE next(h, n) ==
      IF n = 0 THEN p ELSE AddSolution(h[n - 1], sols[n]).pop
<1> DEFINE g == [n \in 0..m |-> IF n = m THEN next(f, m) ELSE f[n]]
<1>5. \A n \in 0..(m - 1) : f[n] = next(f, n)
  BY <1>4, Zenon DEF Adds
<1>6. \A n \in 0..m : g[n] = next(g, n)
  <2> SUFFICES ASSUME NEW n \in 0..m PROVE g[n] = next(g, n)
    OBVIOUS
  <2>1. n # 0 => n - 1 \in 0..m /\ n - 1 # m
    BY <1>3
  <2>2. n # 0 => g[n - 1] = f[n - 1]
    BY <2>1
  <2>3. next(g, n) = next(f, n)
    BY <2>2
  <2>4. n # m => g[n] = f[n] /\ n \in 0..(m - 1)
    BY <1>3
  <2>5. n = m => g[n] = next(f, m)
    BY DEF g
  <2> HIDE DEF g, next
  <2> QED
    BY <1>5, <2>3, <2>4, <2>5
<1>7. Adds(g, p, sols, m)
  <2>1. g = [n \in 0..m |-> g[n]]
    OBVIOUS
  <2> HIDE DEF g
  <2>2. g = [n \in 0..m |-> next(g, n)]
    <3> HIDE DEF next
    <3> QED
      BY <1>6, <2>1
  <2> QED
    BY <2>2 DEF Adds
<1> QED
  BY <1>1, <1>7

\* AddAll is the last value of that function.
LEMMA AddAllIs ==
  ASSUME NEW p, NEW sols
  PROVE  AddAll(p, sols) = (CHOOSE f : Adds(f, p, sols, Len(sols)))[Len(sols)]
BY Zenon DEF AddAll, Adds

\* The population has at least the best of these solutions.
Covers(q, sols, n) ==
  \A i \in 1..n : Feasible(sols[i]) =>
    q.best.cost <= Cost(sols[i], q.weight)

\* Adding solutions keeps the population in order, and the best of them all.
LEMMA AddAllFacts ==
  ASSUME NEW p, Sound(p), NEW sols \in Seq(All)
  PROVE  /\ Sound(AddAll(p, sols)) /\ Improves(p, AddAll(p, sols))
         /\ Covers(AddAll(p, sols), sols, Len(sols))
         /\ AddAll(p, sols).ranks # <<>> \/ AddAll(p, sols) = p
<1> DEFINE l == Len(sols)
<1> DEFINE f == CHOOSE f : Adds(f, p, sols, Len(sols))
<1>0. l \in Nat /\ \A i \in 1..l : sols[i] \in All
  OBVIOUS
<1>1. Adds(f, p, sols, l)
  BY <1>0, AddsExists, Zenon
<1>2. AddAll(p, sols) = f[l]
  BY AddAllIs
<1> HIDE DEF f, l
<1>3. /\ f[0] = p
      /\ \A n \in 1..l : f[n] = AddSolution(f[n - 1], sols[n]).pop
  <2>1. \A n \in 0..l : f[n] = IF n = 0 THEN p
                               ELSE AddSolution(f[n - 1], sols[n]).pop
    BY <1>1, Zenon DEF Adds
  <2>2. 0 \in 0..l /\ \A n \in 1..l : n \in 0..l /\ n # 0
    BY <1>0
  <2> QED
    BY <2>1, <2>2
<1> DEFINE Good(n) ==
      /\ Sound(f[n]) /\ Improves(p, f[n]) /\ Covers(f[n], sols, n)
      /\ f[n].ranks # <<>> \/ f[n] = p
<1> DEFINE Bad == {n \in 0..l : ~Good(n)}
<1>4. Bad = {}
  <2> SUFFICES ASSUME Bad # {} PROVE FALSE
    OBVIOUS
  <2>1. Bad \in SUBSET Nat
    BY <1>0
  <2>2. PICK n \in Bad : \A k \in Bad : n <= k
    BY <2>1, LeastNumber
  <2>3. n \in 0..l /\ ~Good(n)
    BY <2>2
  <2>4. Good(0)
    <3>1. 1..0 = {}
      OBVIOUS
    <3> QED
      BY <1>3, <3>1, ImprovesNot DEF Sound, Covers
  <2>5. n \in 1..l /\ n - 1 \in 0..l /\ ~(n <= n - 1)
    BY <1>0, <2>3, <2>4
  <2>6. Good(n - 1)
    BY <2>2, <2>5
  <2>7. /\ Sound(f[n]) /\ Improves(f[n - 1], f[n])
        /\ Feasible(sols[n]) =>
             f[n].best.cost <= Cost(sols[n], f[n - 1].weight)
        /\ f[n].ranks # <<>>
    BY <1>0, <1>3, <2>5, <2>6, AddSolutionFacts
  <2>8. /\ f[n - 1] \in Pools /\ f[n] \in Pools /\ p \in Pools
        /\ BestInv(f[n]) /\ f[n].weight = f[n - 1].weight
    BY <2>6, <2>7 DEF Sound, Improves, Keeps
  <2>9. Improves(p, f[n])
    BY <2>6, <2>7, <2>8, ImprovesMore
  <2>10. Covers(f[n], sols, n)
    <3> SUFFICES ASSUME NEW i \in 1..n, Feasible(sols[i])
                 PROVE  f[n].best.cost <= Cost(sols[i], f[n].weight)
      BY DEF Covers
    <3>1. CASE i = n
      BY <2>7, <2>8, <3>1
    <3>2. CASE i # n
      <4>1. i \in 1..(n - 1)
        BY <2>5, <3>2
      <4>2. f[n - 1].best.cost <= Cost(sols[i], f[n].weight)
        BY <2>6, <2>8, <4>1 DEF Covers
      <4>3. f[n].best.cost <= f[n - 1].best.cost
        BY <2>7 DEF Improves, Keeps
      <4>4. f[n].best.cost \in Nat /\ f[n - 1].best.cost \in Nat
        BY <2>8, PoolTypes
      <4>5. Cost(sols[i], f[n].weight) \in Nat
        <5>1. sols[i] \in All /\ f[n].weight \in 1..MaxWeight
          BY <2>8, PoolTypes, SolutionFacts
        <5> QED
          BY <5>1, CostFacts
      <4> QED
        BY <4>2, <4>3, <4>4, <4>5
    <3> QED
      BY <3>1, <3>2
  <2> QED
    BY <2>3, <2>7, <2>9, <2>10
<1>5. Good(l)
  <2>1. l \in 0..l
    BY <1>0
  <2> QED
    BY <1>4, <2>1
<1> QED
  BY <1>2, <1>5 DEF l

-----------------------------------------------------------------------------
(* The other operations.                                                   *)

\* The solutions of a population.
LEMMA VectorFacts ==
  ASSUME NEW p, Sound(p)
  PROVE  /\ PopulationToVector(p) \in Seq(All)
         /\ p.best.used => /\ Len(PopulationToVector(p)) \in Nat \ {0}
                           /\ PopulationToVector(p)[1] = p.best.sol
<1> DEFINE r == [i \in DOMAIN p.ranks |-> SolAt(p, i)]
<1> DEFINE b == IF p.best.used THEN <<p.best.sol>> ELSE <<>>
<1>1. p \in Pools /\ PoolInv(p)
  BY DEF Sound
<1>2. p.best.sol \in All /\ p.best.used \in BOOLEAN
  BY <1>1, PoolTypes
<1>3. r \in Seq(All)
  <2>1. /\ DOMAIN p.ranks = 1..Len(p.ranks) /\ Len(p.ranks) \in Nat
        /\ \A i \in 1..Len(p.ranks) : SolAt(p, i) \in All
    BY <1>1, RankFacts
  <2> QED
    BY <2>1
<1>4. b \in Seq(All)
  BY <1>2
<1>5. PopulationToVector(p) = b \o r
  BY DEF PopulationToVector
<1>6. b \o r \in Seq(All)
  <2> HIDE DEF b, r
  <2> QED
    BY <1>3, <1>4
<1>7. ASSUME p.best.used
      PROVE  Len(b \o r) \in Nat \ {0} /\ (b \o r)[1] = p.best.sol
  <2>1. b = <<p.best.sol>>
    BY <1>7
  <2> HIDE DEF b, r
  <2>2. Len(b) = 1 /\ b[1] = p.best.sol
    BY <2>1
  <2>3. /\ Len(b \o r) = Len(b) + Len(r)
        /\ \A i \in 1..(Len(b) + Len(r)) :
             (b \o r)[i] = IF i <= Len(b) THEN b[i] ELSE r[i - Len(b)]
    BY <1>3, <1>4, ConcatProperties
  <2>4. Len(r) \in Nat
    BY <1>3
  <2> QED
    BY <2>2, <2>3, <2>4
<1> QED
  BY <1>5, <1>6, <1>7

\* A population without a pool: only its room and its best solution count.
LEMMA EmptyPool ==
  ASSUME NEW p \in Pools, p.ranks = <<>>, Len(p.slots) >= MaxRanks,
         \A i \in 1..Len(p.slots) : p.slots[i] = None
  PROVE  PoolInv(p)
<1>1. Len(p.ranks) = 0 /\ 1..0 = {} /\ MaxRanks \in Nat
  BY SolutionFacts
<1> QED
  BY <1>1, PoolFromRanks

\* The places of a sequence of free places.
LEMMA FreePlaces ==
  ASSUME NEW n \in Nat
  PROVE  /\ [i \in 1..n |-> None] \in Seq(All \cup {None})
         /\ Len([i \in 1..n |-> None]) = n
OBVIOUS

\* find_diversity, while the pool is empty.
LEMMA DiversityFacts ==
  ASSUME NEW p, Sound(p), p.ranks = <<>>, NEW sols \in Seq(All)
  PROVE  /\ Sound(FindDiversity(p, sols))
         /\ FindDiversity(p, sols).best = p.best
         /\ FindDiversity(p, sols).reported = p.reported
         /\ FindDiversity(p, sols).weight = p.weight
         /\ FindDiversity(p, sols).ranks = <<>>
<1> DEFINE D == DOMAIN sols
<1> DEFINE P == {ij \in D \X D : ij[1] < ij[2]}
<1> DEFINE R == {0} \cup {Radius(sols[ij[1]], sols[ij[2]]) : ij \in P}
<1> DEFINE x == Smaller(Max(R), MaxVarThreshold)
<1> DEFINE q == FindDiversity(p, sols)
<1>1. Vars \in Nat \ {0}
  BY SolutionFacts
<1>2. R \in SUBSET (0..Vars)
  <2>1. \A ij \in P : sols[ij[1]] \in All /\ sols[ij[2]] \in All
    <3>1. \A i \in D : sols[i] \in All
      OBVIOUS
    <3> QED
      BY <3>1
  <2>2. \A ij \in P : Radius(sols[ij[1]], sols[ij[2]]) \in 0..Vars
    BY <2>1, RadiusFacts
  <2> HIDE DEF P
  <2> QED
    BY <1>1, <2>2
<1>3. Max(R) \in 0..Vars
  <2>1. R # {}
    OBVIOUS
  <2> HIDE DEF R
  <2> QED
    BY <1>1, <1>2, <2>1, MaxIsGreatest
<1>4. q = [p EXCEPT !.radius = x]
  BY DEF FindDiversity
<1> HIDE DEF R
<1>5. x \in 0..Vars
  BY <1>1, <1>3 DEF Smaller, Larger, MaxVarThreshold
<1> HIDE DEF x, q
<1>6. p \in Pools /\ PoolInv(p) /\ BestInv(p)
  BY DEF Sound
<1>7. /\ q \in Pools /\ q.best = p.best /\ q.reported = p.reported
      /\ q.ranks = p.ranks /\ q.slots = p.slots /\ q.weight = p.weight
  BY <1>4, <1>5, <1>6 DEF Pools
<1>8. Len(p.slots) >= MaxRanks /\ \A i \in 1..Len(p.slots) : p.slots[i] = None
  <2>1. Len(p.ranks) = 0 /\ 1..0 = {}
    OBVIOUS
  <2> QED
    BY <1>6, <2>1, RankFacts
<1>9. PoolInv(q)
  BY <1>7, <1>8, EmptyPool
<1>10. BestInv(q)
  BY <1>6, <1>7 DEF BestInv
<1> QED
  BY <1>7, <1>9, <1>10 DEF Sound, q

\* A population that is emptied, but for its best solution.
LEMMA EmptiedFacts ==
  ASSUME NEW p, Sound(p), NEW q \in Pools, BestInv(q), q.ranks = <<>>,
         q.slots = [i \in DOMAIN p.slots |-> None]
  PROVE  Sound(q)
<1>1. /\ Len(p.slots) \in Nat /\ DOMAIN p.slots = 1..Len(p.slots)
      /\ Len(p.slots) >= MaxRanks
  BY RankFacts DEF Sound
<1>2. /\ Len(q.slots) = Len(p.slots)
      /\ \A i \in 1..Len(q.slots) : q.slots[i] = None
  BY <1>1, FreePlaces
<1>3. PoolInv(q)
  BY <1>1, <1>2, EmptyPool
<1> QED
  BY <1>3 DEF Sound

\* Its places.
LEMMA EmptiedPlaces ==
  ASSUME NEW p, Sound(p)
  PROVE  /\ [i \in DOMAIN p.slots |-> None] \in Seq(All \cup {None})
         /\ <<>> \in Seq([slot : Nat, cost : Nat])
<1>1. Len(p.slots) \in Nat /\ DOMAIN p.slots = 1..Len(p.slots)
  BY RankFacts DEF Sound
<1> QED
  BY <1>1, FreePlaces

\* clear.
LEMMA ClearFacts ==
  ASSUME NEW p, Sound(p)
  PROVE  /\ Sound(Clear(p))
         /\ ~Clear(p).best.used /\ Clear(p).best.cost = NoCost
         /\ Clear(p).reported = p.reported
         /\ Clear(p).weight = p.weight /\ Clear(p).ranks = <<>>
<1> DEFINE b == [p.best EXCEPT !.used = FALSE, !.cost = NoCost]
<1> DEFINE t == [i \in DOMAIN p.slots |-> None]
<1> DEFINE q == Clear(p)
<1>1. /\ p \in Pools /\ p.best \in [used : BOOLEAN, sol : All, cost : 0..NoCost]
  BY PoolTypes DEF Sound
<1>2. /\ b \in [used : BOOLEAN, sol : All, cost : 0..NoCost]
      /\ ~(b.cost < NoCost) /\ b.cost = NoCost /\ ~b.used
  <2> DEFINE c == p.best
  <2>1. c \in [used : BOOLEAN, sol : All, cost : 0..NoCost] /\ NoCost \in Nat
    BY <1>1, SolutionFacts
  <2> HIDE DEF c
  <2>2. [c EXCEPT !.used = FALSE, !.cost = NoCost]
          \in [used : BOOLEAN, sol : All, cost : 0..NoCost]
    <3> DEFINE costs == 0..NoCost
    <3>1. NoCost \in costs /\ c \in [used : BOOLEAN, sol : All, cost : costs]
      BY <2>1
    <3> HIDE DEF costs
    <3>2. [c EXCEPT !.used = FALSE, !.cost = NoCost]
            \in [used : BOOLEAN, sol : All, cost : costs]
      BY <3>1, Zenon
    <3> QED
      BY <3>2 DEF costs
  <2>3. LET d == [c EXCEPT !.used = FALSE, !.cost = NoCost]
        IN  ~(d.cost < NoCost) /\ d.cost = NoCost /\ ~d.used
    BY <2>1
  <2> QED
    BY <2>2, <2>3 DEF c
<1>3. t \in Seq(All \cup {None}) /\ <<>> \in Seq([slot : Nat, cost : Nat])
  BY EmptiedPlaces
<1>4. q = [p EXCEPT !.best = b, !.ranks = <<>>, !.slots = t]
  BY <1>1 DEF Clear, Pools
<1> HIDE DEF q, b, t
<1>6. /\ q \in Pools /\ q.ranks = <<>> /\ q.slots = t /\ q.best = b
      /\ q.reported = p.reported /\ q.weight = p.weight
  BY <1>1, <1>2, <1>3, <1>4 DEF Pools
<1>7. BestInv(q)
  BY <1>2, <1>6 DEF BestInv
<1>8. Sound(q)
  BY <1>6, <1>7, EmptiedFacts DEF t
<1> QED
  BY <1>2, <1>6, <1>8 DEF q

\* clear_except_best_feasible, and another radius.
LEMMA ClearExceptFacts ==
  ASSUME NEW p, Sound(p), NEW radius \in 0..Vars
  PROVE  LET q == [ClearExceptBestFeasible(p) EXCEPT !.radius = radius]
         IN  /\ Sound(q) /\ q.best.cost = p.best.cost
             /\ q.reported = p.reported /\ q.weight = p.weight
<1> DEFINE b == [p.best EXCEPT !.used = TRUE]
<1> DEFINE t == [i \in DOMAIN p.slots |-> None]
<1> DEFINE q == [ClearExceptBestFeasible(p) EXCEPT !.radius = radius]
<1>1. /\ p \in Pools /\ p.best \in [used : BOOLEAN, sol : All, cost : 0..NoCost]
      /\ BestInv(p)
  BY PoolTypes DEF Sound
<1>2. /\ b \in [used : BOOLEAN, sol : All, cost : 0..NoCost]
      /\ b.used /\ b.sol = p.best.sol /\ b.cost = p.best.cost
  BY <1>1
<1>3. t \in Seq(All \cup {None}) /\ <<>> \in Seq([slot : Nat, cost : Nat])
  BY EmptiedPlaces
<1>4. q = [p EXCEPT !.best = b, !.ranks = <<>>, !.slots = t,
                    !.radius = radius]
  BY <1>1 DEF ClearExceptBestFeasible, Pools
<1> HIDE DEF q, b, t
<1>6. /\ q \in Pools /\ q.ranks = <<>> /\ q.slots = t /\ q.best = b
      /\ q.reported = p.reported /\ q.weight = p.weight
  BY <1>1, <1>2, <1>3, <1>4 DEF Pools
<1>7. BestInv(q)
  BY <1>1, <1>2, <1>6 DEF BestInv
<1>8. Sound(q)
  BY <1>6, <1>7, EmptiedFacts DEF t
<1> QED
  BY <1>2, <1>6, <1>8 DEF q

\* The solutions are added again.
LEMMA AddedAgainFacts ==
  ASSUME NEW p, Sound(p), NEW vec \in Seq(All), NEW radius \in 0..Vars
  PROVE  Sound(AddedAgain(p, vec, radius)) /\ Keeps(p, AddedAgain(p, vec, radius))
<1> DEFINE q == [ClearExceptBestFeasible(p) EXCEPT !.radius = radius]
<1> DEFINE r == AddAll(q, vec)
<1>1. /\ Sound(q) /\ q.best.cost = p.best.cost /\ q.reported = p.reported
      /\ q.weight = p.weight
  BY ClearExceptFacts
<1>2. AddedAgain(p, vec, radius) = r
  BY DEF AddedAgain
<1> HIDE DEF q
<1>3. Sound(r) /\ Keeps(q, r)
  BY <1>1, AddAllFacts DEF Improves
<1>4. Keeps(p, r)
  BY <1>1, <1>3 DEF Keeps
<1> QED
  BY <1>2, <1>3, <1>4

\* A try of halve_the_population.
LEMMA ShrinkFacts ==
  ASSUME NEW p, Sound(p), NEW vec \in Seq(All)
  PROVE  Sound(Shrink(p, vec)) /\ Keeps(p, Shrink(p, vec))
<1> DEFINE radius == Larger((97 * p.radius) \div 100, Vars \div 2)
<1>1. p \in Pools /\ p.radius \in 0..Vars /\ Vars \in Nat
  BY PoolTypes, SolutionFacts DEF Sound
<1>2. radius \in 0..Vars
  BY <1>1 DEF Larger
<1> HIDE DEF radius
<1>3. Sound(AddedAgain(p, vec, radius)) /\ Keeps(p, AddedAgain(p, vec, radius))
  BY <1>2, AddedAgainFacts
<1>4. Shrink(p, vec) \in {p, AddedAgain(p, vec, radius)}
  BY DEF Shrink, radius
<1> QED
  BY <1>1, <1>3, <1>4, ImprovesNot

\* A try to have enough solutions again.
LEMMA RefillFacts ==
  ASSUME NEW p, Sound(p), NEW vec \in Seq(All)
  PROVE  Sound(Refill(p, vec)) /\ Keeps(p, Refill(p, vec))
<1> DEFINE radius == Smaller(MaxVarThreshold,
                       Smaller((97 * p.radius) \div 100,
                               (995 * Vars) \div 1000))
<1>1. p \in Pools /\ p.radius \in 0..Vars /\ Vars \in Nat \ {0}
  BY PoolTypes, SolutionFacts DEF Sound
<1>2. radius \in 0..Vars
  BY <1>1 DEF Smaller, Larger, MaxVarThreshold
<1> HIDE DEF radius
<1>3. Sound(AddedAgain(p, vec, radius)) /\ Keeps(p, AddedAgain(p, vec, radius))
  BY <1>2, AddedAgainFacts
<1>4. Refill(p, vec) \in {p, AddedAgain(p, vec, radius)}
  BY DEF Refill, radius
<1> QED
  BY <1>1, <1>3, <1>4, ImprovesNot

\* Three tries.
LEMMA Shrink3Facts ==
  ASSUME NEW p, Sound(p), NEW vec \in Seq(All)
  PROVE  Sound(Shrink3(p, vec)) /\ Keeps(p, Shrink3(p, vec))
<1> DEFINE q == Shrink(p, vec)
<1> DEFINE r == Shrink(q, vec)
<1> DEFINE s == Shrink(r, vec)
<1>1. Sound(q) /\ Keeps(p, q)
  BY ShrinkFacts
<1>2. Shrink3(p, vec) = s
  BY DEF Shrink3
<1> HIDE DEF q
<1>3. Sound(r) /\ Keeps(q, r)
  BY <1>1, ShrinkFacts
<1> HIDE DEF r
<1>4. Sound(s) /\ Keeps(r, s)
  BY <1>3, ShrinkFacts
<1> HIDE DEF s
<1>5. /\ p \in Pools /\ q \in Pools /\ r \in Pools /\ s \in Pools
      /\ BestInv(r) /\ BestInv(s)
  BY <1>1, <1>3, <1>4 DEF Sound
<1>6. Keeps(p, r)
  BY <1>1, <1>3, <1>5, KeepsMore
<1>7. Keeps(p, s)
  BY <1>4, <1>5, <1>6, KeepsMore
<1> QED
  BY <1>2, <1>4, <1>7

\* Three of them.
LEMMA Refill3Facts ==
  ASSUME NEW p, Sound(p), NEW vec \in Seq(All)
  PROVE  Sound(Refill3(p, vec)) /\ Keeps(p, Refill3(p, vec))
<1> DEFINE q == Refill(p, vec)
<1> DEFINE r == Refill(q, vec)
<1> DEFINE s == Refill(r, vec)
<1>1. Sound(q) /\ Keeps(p, q)
  BY RefillFacts
<1>2. Refill3(p, vec) = s
  BY DEF Refill3
<1> HIDE DEF q
<1>3. Sound(r) /\ Keeps(q, r)
  BY <1>1, RefillFacts
<1> HIDE DEF r
<1>4. Sound(s) /\ Keeps(r, s)
  BY <1>3, RefillFacts
<1> HIDE DEF s
<1>5. /\ p \in Pools /\ q \in Pools /\ r \in Pools /\ s \in Pools
      /\ BestInv(r) /\ BestInv(s)
  BY <1>1, <1>3, <1>4 DEF Sound
<1>6. Keeps(p, r)
  BY <1>1, <1>3, <1>5, KeepsMore
<1>7. Keeps(p, s)
  BY <1>4, <1>5, <1>6, KeepsMore
<1> QED
  BY <1>2, <1>4, <1>7

\* halve_the_population.
LEMMA HalveFacts ==
  ASSUME NEW p, Sound(p)
  PROVE  Sound(HalveThePopulation(p)) /\ Keeps(p, HalveThePopulation(p))
<1> DEFINE vec == PopulationToVector(p)
<1> DEFINE a == Shrink3(p, vec)
<1> DEFINE b == Shrink3(a, vec)
<1> DEFINE c == Refill3(b, vec)
<1> DEFINE d == Refill3(c, vec)
<1>1. vec \in Seq(All)
  BY VectorFacts
<1>2. HalveThePopulation(p) = p \/ HalveThePopulation(p) = d
  BY DEF HalveThePopulation
<1> HIDE DEF vec
<1>3. Sound(a) /\ Keeps(p, a)
  BY <1>1, Shrink3Facts
<1> HIDE DEF a
<1>4. Sound(b) /\ Keeps(a, b)
  BY <1>1, <1>3, Shrink3Facts
<1> HIDE DEF b
<1>5. Sound(c) /\ Keeps(b, c)
  BY <1>1, <1>4, Refill3Facts
<1> HIDE DEF c
<1>6. Sound(d) /\ Keeps(c, d)
  BY <1>1, <1>5, Refill3Facts
<1> HIDE DEF d
<1>7. /\ p \in Pools /\ a \in Pools /\ b \in Pools /\ c \in Pools
      /\ d \in Pools /\ BestInv(b) /\ BestInv(c) /\ BestInv(d)
  BY <1>3, <1>4, <1>5, <1>6 DEF Sound
<1>8. Keeps(p, b)
  BY <1>3, <1>4, <1>7, KeepsMore
<1>9. Keeps(p, c)
  BY <1>5, <1>7, <1>8, KeepsMore
<1>10. Keeps(p, d)
  BY <1>6, <1>7, <1>9, KeepsMore
<1> QED
  BY <1>2, <1>6, <1>7, <1>10, ImprovesNot

\* The population as it is constructed.
LEMMA EmptyPopulationFacts ==
  /\ EmptyPopulation \in Pools
  /\ EmptyPopulation.best.cost = NoCost /\ ~EmptyPopulation.best.used
  /\ EmptyPopulation.slots = <<>> /\ EmptyPopulation.ranks = <<>>
  /\ EmptyPopulation.reported = Inf
<1>1. InitialRadius \in 0..Vars
  BY SolutionFacts DEF InitialRadius, Larger
<1>2. (CHOOSE s \in Defaults : TRUE) \in All
  BY PopulationAssumption DEF All
<1>3. /\ Inf \in 0..Inf /\ NoCost \in 0..NoCost /\ 1 \in 1..MaxWeight
      /\ <<>> \in Seq(All \cup {None})
      /\ <<>> \in Seq([slot : Nat, cost : Nat])
  BY SolutionFacts
<1> QED
  BY <1>1, <1>2, <1>3 DEF EmptyPopulation, Pools

\* allocate_solutions for the first time, and once more.
LEMMA FirstAllocation ==
  ASSUME NEW p \in Pools, p.slots = <<>>, p.ranks = <<>>, p.best.cost = NoCost,
         NEW d \in Defaults
  PROVE  /\ Sound(AllocateSolutions(p, d))
         /\ AllocateSolutions(p, d).best.cost = NoCost
         /\ AllocateSolutions(p, d).best.used = p.best.used
         /\ AllocateSolutions(p, d).reported = p.reported
         /\ AllocateSolutions(p, d).weight = p.weight
         /\ AllocateSolutions(p, d).ranks = <<>>
<1> DEFINE b == [p.best EXCEPT !.sol = d]
<1> DEFINE t == [i \in 1..MaxRanks |-> None]
<1> DEFINE q == AllocateSolutions(p, d)
<1>1. /\ p.best \in [used : BOOLEAN, sol : All, cost : 0..NoCost] /\ d \in All
      /\ NoCost \in Nat /\ MaxRanks \in Nat
  BY PoolTypes, SolutionFacts DEF All
<1>2. /\ b \in [used : BOOLEAN, sol : All, cost : 0..NoCost]
      /\ b.cost = NoCost /\ b.used = p.best.used
  <2>1. b.cost = NoCost /\ b.used = p.best.used
    BY <1>1
  <2> QED
    BY <1>1, <2>1, Zenon
<1>3. /\ t \in Seq(All \cup {None}) /\ Len(t) = MaxRanks
      /\ \A i \in 1..MaxRanks : t[i] = None
  BY <1>1, FreePlaces
<1>4. q = [p EXCEPT !.best = b, !.slots = t]
  BY DEF AllocateSolutions, Pools
<1> HIDE DEF q, b, t
<1>5. /\ q \in Pools /\ q.ranks = <<>> /\ q.slots = t /\ q.best = b
      /\ q.reported = p.reported /\ q.weight = p.weight
  BY <1>2, <1>3, <1>4 DEF Pools
<1>6. PoolInv(q)
  BY <1>1, <1>3, <1>5, EmptyPool
<1>7. BestInv(q)
  BY <1>1, <1>2, <1>5 DEF BestInv
<1> QED
  BY <1>2, <1>5, <1>6, <1>7 DEF Sound, q

\* Room is allocated once more, for a population that has nothing in it.
LEMMA MoreAllocation ==
  ASSUME NEW p, Sound(p), p.ranks = <<>>, NEW d
  PROVE  /\ Sound(AllocateSolutions(p, d))
         /\ AllocateSolutions(p, d).best = p.best
         /\ AllocateSolutions(p, d).reported = p.reported
         /\ AllocateSolutions(p, d).weight = p.weight
         /\ AllocateSolutions(p, d).ranks = <<>>
<1> DEFINE u == [i \in 1..MaxSolutions |-> None]
<1> DEFINE t == p.slots \o u
<1> DEFINE q == AllocateSolutions(p, d)
<1> DEFINE S == All \cup {None}
<1>1. /\ p \in Pools /\ PoolInv(p) /\ BestInv(p)
      /\ MaxRanks \in Nat \ {0} /\ MaxSolutions \in Nat
      /\ p.slots \in Seq(S)
      /\ Len(p.slots) \in Nat /\ Len(p.slots) >= MaxRanks
  BY PoolTypes, RankFacts, SolutionFacts DEF Sound
<1>2. \A i \in 1..Len(p.slots) : p.slots[i] = None
  <2>1. Len(p.ranks) = 0 /\ 1..0 = {}
    OBVIOUS
  <2> QED
    BY <1>1, <2>1, RankFacts
<1>3. /\ u \in Seq(S) /\ Len(u) = MaxSolutions
      /\ \A i \in 1..MaxSolutions : u[i] = None
  BY <1>1, FreePlaces
<1> HIDE DEF u, S
<1>4. /\ t \in Seq(S) /\ Len(t) = Len(p.slots) + MaxSolutions
      /\ \A i \in 1..(Len(p.slots) + MaxSolutions) :
           t[i] = IF i <= Len(p.slots) THEN p.slots[i]
                  ELSE u[i - Len(p.slots)]
  <2> DEFINE v == p.slots
  <2>1. v \in Seq(S)
    BY <1>1
  <2> HIDE DEF v
  <2>2. /\ v \o u \in Seq(S) /\ Len(v \o u) = Len(v) + Len(u)
        /\ \A i \in 1..(Len(v) + Len(u)) :
             (v \o u)[i] = IF i <= Len(v) THEN v[i] ELSE u[i - Len(v)]
    BY <1>3, <2>1, ConcatProperties
  <2> QED
    BY <1>3, <2>2 DEF v
<1>5. \A i \in 1..(Len(p.slots) + MaxSolutions) : t[i] = None
  <2> SUFFICES ASSUME NEW i \in 1..(Len(p.slots) + MaxSolutions)
               PROVE  t[i] = None
    OBVIOUS
  <2>1. CASE i <= Len(p.slots)
    <3>1. i \in 1..Len(p.slots)
      BY <1>1, <2>1
    <3> HIDE DEF t
    <3> QED
      BY <1>2, <1>4, <2>1, <3>1
  <2>2. CASE ~(i <= Len(p.slots))
    <3>1. i - Len(p.slots) \in 1..MaxSolutions
      BY <1>1, <2>2
    <3> HIDE DEF t
    <3> QED
      BY <1>3, <1>4, <2>2, <3>1
  <2> QED
    BY <2>1, <2>2
<1>6. q = [p EXCEPT !.slots = t]
  <2>1. p.slots # <<>>
    BY <1>1
  <2> QED
    BY <1>1, <2>1 DEF AllocateSolutions, Pools, u
<1> HIDE DEF q, t
<1>7. /\ q \in Pools /\ q.ranks = <<>> /\ q.slots = t /\ q.best = p.best
      /\ q.reported = p.reported /\ q.weight = p.weight
  BY <1>1, <1>4, <1>6 DEF Pools, S
<1>8. Len(q.slots) >= MaxRanks /\ \A i \in 1..Len(q.slots) : q.slots[i] = None
  BY <1>1, <1>4, <1>5, <1>7
<1>9. PoolInv(q)
  BY <1>7, <1>8, EmptyPool
<1>10. BestInv(q)
  BY <1>1, <1>7 DEF BestInv
<1> QED
  BY <1>7, <1>9, <1>10 DEF Sound, q

\* update_qualities, under another weight.
LEMMA QualitiesFacts ==
  ASSUME NEW p, Sound(p), NEW w \in 1..MaxWeight,
         p.best.used => p.best.cost < NoCost,
         p.ranks = <<>> => ~p.best.used \/ w = p.weight
  PROVE  LET q == UpdateQualities([p EXCEPT !.weight = w])
         IN  /\ Sound(q)
             /\ q.best.cost < NoCost <=> p.best.cost < NoCost
             /\ q.best.used = p.best.used /\ q.best.sol = p.best.sol
             /\ q.reported = p.reported
<1> DEFINE T == [slot : Nat, cost : Nat]
<1> DEFINE n == Len(p.ranks)
<1> DEFINE o == [p EXCEPT !.weight = w]
<1> DEFINE q == UpdateQualities(o)
<1> DEFINE cost(i) == Cost(SolAt(p, i), w)
<1> DEFINE c == [i \in DOMAIN o.ranks |->
                   [o.ranks[i] EXCEPT !.cost = Cost(SolAt(o, i), o.weight)]]
<1> DEFINE r == ByCost(c)
<1> DEFINE e == SortedPlaces(c)
<1>1. /\ p \in Pools /\ PoolInv(p) /\ BestInv(p)
      /\ n \in Nat /\ n <= MaxRanks /\ DOMAIN p.ranks = 1..n
      /\ p.ranks \in Seq(T) /\ w \in Nat
      /\ \A i \in 1..n : SolAt(p, i) \in All /\ p.ranks[i] \in T
      /\ Len(p.slots) >= MaxRanks
  BY PoolTypes, RankFacts, SolutionFacts DEF Sound
<1>2. /\ o \in Pools /\ o.weight = w /\ o.ranks = p.ranks
      /\ o.slots = p.slots /\ o.best = p.best /\ o.reported = p.reported
      /\ o.radius = p.radius
  BY <1>1 DEF Pools
<1> HIDE DEF o
<1>3. \A i : SolAt(o, i) = SolAt(p, i)
  BY <1>2 DEF SolAt
<1>4. CASE p.ranks = <<>>
  <2>1. q = o
    BY <1>2, <1>4 DEF UpdateQualities
  <2>2. \A i \in 1..Len(p.slots) : p.slots[i] = None
    <3>1. Len(p.ranks) = 0 /\ 1..0 = {}
      BY <1>4
    <3> QED
      BY <1>1, <3>1, RankFacts
  <2>3. PoolInv(o)
    BY <1>1, <1>2, <1>4, <2>2, EmptyPool
  <2>4. BestInv(o)
    BY <1>1, <1>2, <1>4 DEF BestInv
  <2> HIDE DEF q
  <2>5. /\ Sound(q)
        /\ q.best.cost < NoCost <=> p.best.cost < NoCost
        /\ q.best.used = p.best.used /\ q.best.sol = p.best.sol
        /\ q.reported = p.reported
    BY <1>2, <2>1, <2>3, <2>4 DEF Sound
  <2> QED
    BY <2>5 DEF q, o
<1>5. CASE p.ranks # <<>>
  <2>1. \A i \in 1..n : /\ c[i] = [p.ranks[i] EXCEPT !.cost = cost(i)]
                        /\ cost(i) \in Nat
    BY <1>1, <1>2, <1>3, CostFacts
  <2>2. \A i \in 1..n : /\ c[i] \in T /\ c[i].cost = cost(i)
                        /\ c[i].slot = p.ranks[i].slot
    <3> HIDE DEF c, cost
    <3> QED
      BY <1>1, <2>1
  <2>3. c \in Seq(T) /\ Len(c) = n /\ DOMAIN c = 1..n
    <3>1. c = [i \in 1..n |-> c[i]]
      BY <1>1, <1>2
    <3>2. n \in Nat /\ \A i \in 1..n : c[i] \in T
      BY <1>1, <2>2
    <3> HIDE DEF c, n, T
    <3> QED
      BY <3>1, <3>2
  <2>4. \A i \in DOMAIN c : c[i].cost \in Nat
    BY <2>1, <2>2, <2>3
  <2> DEFINE b == [p.best EXCEPT !.cost = IF p.best.used
                                            THEN Cost(p.best.sol, w)
                                          ELSE p.best.cost]
  <2>5. q = [o EXCEPT !.best = b, !.ranks = r]
    BY <1>2, <1>5 DEF UpdateQualities, Pools
  <2> HIDE DEF c, q
  <2>6. /\ r \in Seq(T) /\ Len(r) = n /\ e \in [1..n -> 1..n]
        /\ Picks(r, c, e, n) /\ Sorted(c, e, n) /\ Onto(e, n, 1..n)
    <3> HIDE DEF T
    <3> QED
      BY <2>3, <2>4, SortsByCost
  <2> HIDE DEF r, e
  <2>7. /\ b \in [used : BOOLEAN, sol : All, cost : 0..NoCost]
        /\ b.cost < NoCost <=> p.best.cost < NoCost
        /\ b.used = p.best.used /\ b.sol = p.best.sol
        /\ b.used => b.cost = Cost(b.sol, w)
    <3>1. /\ p.best \in [used : BOOLEAN, sol : All, cost : 0..NoCost]
          /\ p.best.sol \in All /\ p.best.cost \in 0..NoCost
          /\ p.best.used \in BOOLEAN
      BY <1>1, PoolTypes
    <3> DEFINE x == IF p.best.used THEN Cost(p.best.sol, w)
                    ELSE p.best.cost
    <3>2. x \in 0..NoCost /\ (p.best.used => x < NoCost)
      BY <1>1, <3>1, CostFacts
    <3>3. b = [p.best EXCEPT !.cost = x]
      OBVIOUS
    <3>4. p.best.used => x = Cost(p.best.sol, w)
      OBVIOUS
    <3>5. ~p.best.used => x = p.best.cost
      OBVIOUS
    <3> HIDE DEF b, x
    <3>6. b.cost = x /\ b.used = p.best.used /\ b.sol = p.best.sol
      BY <3>1, <3>3
    <3>7. b \in [used : BOOLEAN, sol : All, cost : 0..NoCost]
      BY <3>1, <3>2, <3>3, Zenon
    <3> QED
      BY <3>2, <3>4, <3>5, <3>6, <3>7
  <2> HIDE DEF b
  <2>8. /\ q \in Pools /\ q.best = b /\ q.ranks = r /\ q.slots = p.slots
        /\ q.reported = p.reported /\ q.weight = w
        /\ q.radius = p.radius
    BY <1>2, <2>5, <2>6, <2>7 DEF Pools
  <2>9. \A i \in 1..n :
          /\ e[i] \in 1..n
          /\ r[i].slot = p.ranks[e[i]].slot /\ r[i].cost = cost(e[i])
          /\ SolAt(q, i) = SolAt(p, e[i])
    <3> SUFFICES ASSUME NEW i \in 1..n
                 PROVE  /\ e[i] \in 1..n
                        /\ r[i].slot = p.ranks[e[i]].slot
                        /\ r[i].cost = cost(e[i])
                        /\ SolAt(q, i) = SolAt(p, e[i])
      OBVIOUS
    <3>1. e[i] \in 1..n /\ r[i] = c[e[i]]
      BY <2>6 DEF Picks
    <3> HIDE DEF cost, n
    <3>2. c[e[i]].cost = cost(e[i]) /\ c[e[i]].slot = p.ranks[e[i]].slot
      BY <2>2, <3>1
    <3> QED
      BY <2>8, <3>1, <3>2 DEF SolAt
  <2>10. \A i, j \in 1..n :
           i < j => e[i] # e[j] /\ r[i].cost <= r[j].cost
    BY <2>6 DEF Sorted, Picks
  <2> HIDE DEF n
  <2>11. PoolInv(q)
    <3>1. Len(q.ranks) = n /\ n <= MaxRanks /\ Len(q.slots) >= MaxRanks
          /\ q.weight = w /\ q.radius = p.radius /\ q.slots = p.slots
          /\ q.ranks = r
      BY <1>1, <2>6, <2>8
    <3>2. \A i \in 1..n :
            /\ p.ranks[i].slot \in 1..Len(p.slots)
            /\ p.slots[p.ranks[i].slot] # None
      BY <1>1, RankFacts, SolutionFacts DEF n
    <3>3. \A i \in 1..n :
            /\ q.ranks[i].slot \in 1..Len(q.slots)
            /\ q.slots[q.ranks[i].slot] # None
            /\ q.ranks[i].cost = Cost(SolAt(q, i), q.weight)
      <4> SUFFICES ASSUME NEW i \in 1..n
                   PROVE  /\ r[i].slot \in 1..Len(p.slots)
                          /\ p.slots[r[i].slot] # None
                          /\ r[i].cost = Cost(SolAt(q, i), w)
        BY <3>1
      <4>1. /\ e[i] \in 1..n /\ r[i].slot = p.ranks[e[i]].slot
            /\ r[i].cost = Cost(SolAt(p, e[i]), w)
            /\ SolAt(q, i) = SolAt(p, e[i])
        BY <2>9
      <4> QED
        BY <3>2, <4>1
    <3>4. \A i, j \in 1..n :
            i < j => /\ q.ranks[i].slot # q.ranks[j].slot
                     /\ q.ranks[i].cost <= q.ranks[j].cost
                     /\ ~Similar(SolAt(q, i), SolAt(q, j), q.radius)
      <4> SUFFICES ASSUME NEW i \in 1..n, NEW j \in 1..n, i < j
                   PROVE  /\ r[i].slot # r[j].slot
                          /\ r[i].cost <= r[j].cost
                          /\ ~Similar(SolAt(q, i), SolAt(q, j), p.radius)
        BY <3>1
      <4>1. e[i] \in 1..n /\ e[j] \in 1..n /\ e[i] # e[j]
        BY <2>9, <2>10
      <4>2. /\ p.ranks[e[i]].slot # p.ranks[e[j]].slot
            /\ SolAt(p, e[i]) \in All /\ SolAt(p, e[j]) \in All
        <5>1. \A i1, j1 \in 1..Len(p.ranks) :
                p.ranks[i1].slot = p.ranks[j1].slot => i1 = j1
          BY <1>1, RankFacts
        <5> QED
          BY <1>1, <4>1, <5>1 DEF n
      <4>3. \/ ~Similar(SolAt(p, e[i]), SolAt(p, e[j]), p.radius)
            \/ ~Similar(SolAt(p, e[j]), SolAt(p, e[i]), p.radius)
        <5>1. e[i] < e[j] \/ e[j] < e[i]
          BY <1>1, <4>1
        <5> QED
          BY <1>1, <4>1, <5>1, RankFacts DEF n
      <4>4. ~Similar(SolAt(p, e[i]), SolAt(p, e[j]), p.radius)
        BY <4>2, <4>3, SimilarSymmetric
      <4> QED
        BY <2>9, <2>10, <4>2, <4>4
    <3>5. \A k \in 1..Len(q.slots) :
            q.slots[k] # None => \E i \in 1..n : q.ranks[i].slot = k
      <4> SUFFICES ASSUME NEW k \in 1..Len(p.slots), p.slots[k] # None
                   PROVE  \E i \in 1..n : r[i].slot = k
        BY <3>1
      <4>1. PICK j \in 1..n : p.ranks[j].slot = k
        BY <1>1, RankFacts DEF n
      <4>2. PICK i \in 1..n : e[i] = j
        BY <2>6 DEF Onto
      <4> QED
        BY <2>9, <4>1, <4>2
    <3> QED
      BY <2>8, <3>1, <3>3, <3>4, <3>5, PoolFromRanks
  <2>12. BestInv(q)
    BY <1>1, <2>7, <2>8 DEF BestInv
  <2>13. /\ Sound(q)
         /\ q.best.cost < NoCost <=> p.best.cost < NoCost
         /\ q.best.used = p.best.used /\ q.best.sol = p.best.sol
         /\ q.reported = p.reported
    BY <2>7, <2>8, <2>11, <2>12 DEF Sound
  <2> QED
    BY <2>13 DEF q, o
<1> QED
  BY <1>4, <1>5

\* update_qualities, and update_weights of a population with something in
\* it: the best solution stays, and what it costs is told anew.
LEMMA UpdateFacts ==
  ASSUME NEW p, Sound(p), p.best.used => p.best.cost < NoCost,
         NEW q, \/ q = UpdateQualities(p)
                \/ /\ q = UpdateWeights(p)
                   /\ p.best.used => p.ranks # <<>>
  PROVE  /\ Sound(q) /\ NoWorse(p, q)
         /\ q.best.used = p.best.used /\ q.best.sol = p.best.sol
         /\ q.reported = p.reported
<1>1. /\ p \in Pools /\ p.weight \in 1..MaxWeight
      /\ MaxWeight \in Nat \ {0}
  BY PoolTypes, SolutionFacts DEF Sound
<1>2. p = [p EXCEPT !.weight = p.weight]
  BY <1>1 DEF Pools
<1>3. \E w \in 1..MaxWeight :
        /\ q = UpdateQualities([p EXCEPT !.weight = w])
        /\ p.ranks = <<>> => ~p.best.used \/ w = p.weight
  <2>1. CASE q = UpdateQualities(p)
    BY <1>1, <1>2, <2>1, Zenon
  <2>2. CASE q = UpdateWeights(p) /\ (p.best.used => p.ranks # <<>>)
    <3> DEFINE w == IF Feasible(Best(p)) THEN Larger(1, p.weight - 1)
                    ELSE IncreasedWeight(p.weight)
    <3>1. w \in 1..MaxWeight
      BY <1>1 DEF Larger, Smaller, IncreasedWeight
    <3>2. q = UpdateQualities([p EXCEPT !.weight = w])
      BY <2>2, Zenon DEF UpdateWeights
    <3> HIDE DEF w
    <3> QED
      BY <2>2, <3>1, <3>2
  <2> QED
    BY <2>1, <2>2
<1>4. PICK w \in 1..MaxWeight :
        /\ q = UpdateQualities([p EXCEPT !.weight = w])
        /\ p.ranks = <<>> => ~p.best.used \/ w = p.weight
  BY <1>3
<1>5. /\ Sound(q)
      /\ q.best.cost < NoCost <=> p.best.cost < NoCost
      /\ q.best.used = p.best.used /\ q.best.sol = p.best.sol
      /\ q.reported = p.reported
  BY <1>4, QualitiesFacts
<1>6. NoWorse(p, q)
  <2>1. p.best.cost \in Nat
    BY <1>1, PoolTypes
  <2> QED
    BY <1>5, <2>1 DEF NoWorse, BestInv, Sound
<1> QED
  BY <1>5, <1>6
=============================================================================
