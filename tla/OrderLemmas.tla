---------------------------- MODULE OrderLemmas ----------------------------
(***************************************************************************)
(* Finite sets in order: in a finite set with a strict total order, the    *)
(* number of elements before an element is its place, and every place is   *)
(* taken.  So a sort by rank is a permutation that respects the order, and *)
(* a finite set of integers that is not empty has a least and a greatest   *)
(* element.  With the facts on division and multiples that the periods of  *)
(* bars and windows need.                                                  *)
(*                                                                         *)
(* Least elements give induction: a set of numbers with 0 and every        *)
(* successor holds them all, and a set of subsets with the empty one and   *)
(* every extension by an element holds every finite one.  That is how a    *)
(* recursive function and a sum over a set get their values.               *)
(***************************************************************************)
EXTENDS Integers, Functions, FiniteSetsExt, FiniteSetTheorems, FunctionTheorems, TLAPS

StrictOrder(S, R) ==
    /\ \A s \in S : <<s, s>> \notin R
    /\ \A s, t, u \in S : <<s, t>> \in R /\ <<t, u>> \in R => <<s, u>> \in R
    /\ \A s, t \in S : s = t \/ <<s, t>> \in R \/ <<t, s>> \in R

Place(S, R) == [s \in S |-> Cardinality({t \in S : <<t, s>> \in R})]

\* The element of a place.
AtPlace(S, R, k) == CHOOSE s \in S : Place(S, R)[s] = k

LEMMA PlaceType ==
    ASSUME NEW S, IsFiniteSet(S), NEW R
    PROVE  \A s \in S : Place(S, R)[s] \in Nat
<1> SUFFICES ASSUME NEW s \in S PROVE Place(S, R)[s] \in Nat
  OBVIOUS
<1> DEFINE before == {t \in S : <<t, s>> \in R}
<1>1. IsFiniteSet(before)
  BY FS_Subset
<1>2. Place(S, R)[s] = Cardinality(before)
  BY DEF Place
<1> HIDE DEF before
<1>3. QED
  BY <1>1, <1>2, FS_CardinalityType

\* Whoever comes before has the lower place.
LEMMA PlaceGrows ==
    ASSUME NEW S, IsFiniteSet(S), NEW R, StrictOrder(S, R), NEW s \in S, NEW t \in S
    PROVE  <<s, t>> \in R <=> Place(S, R)[s] < Place(S, R)[t]
<1>1. ASSUME NEW x \in S, NEW y \in S, <<x, y>> \in R
      PROVE  Place(S, R)[x] < Place(S, R)[y]
  <2> DEFINE bx == {u \in S : <<u, x>> \in R}
             by == {u \in S : <<u, y>> \in R}
  <2>1. bx \in SUBSET by /\ x \in by /\ x \notin bx
    BY <1>1 DEF StrictOrder
  <2>2. IsFiniteSet(by)
    BY FS_Subset
  <2>3. Place(S, R)[x] = Cardinality(bx) /\ Place(S, R)[y] = Cardinality(by)
    BY DEF Place
  <2> HIDE DEF bx, by
  <2>4. Cardinality(bx) <= Cardinality(by) /\ Cardinality(bx) # Cardinality(by)
    BY <2>1, <2>2, FS_Subset
  <2>5. Cardinality(bx) \in Nat /\ Cardinality(by) \in Nat
    BY <2>3, PlaceType
  <2>6. QED
    BY <2>3, <2>4, <2>5
<1>2. Place(S, R)[s] \in Nat /\ Place(S, R)[t] \in Nat
  BY PlaceType
<1>3. s = t \/ <<s, t>> \in R \/ <<t, s>> \in R
  BY DEF StrictOrder
<1>4. <<s, t>> \in R => Place(S, R)[s] < Place(S, R)[t]
  BY <1>1
<1>5. <<t, s>> \in R => Place(S, R)[t] < Place(S, R)[s]
  BY <1>1
<1>6. QED
  BY <1>2, <1>3, <1>4, <1>5

\* Every place from 0 on is taken, by one element.
LEMMA PlacesTaken ==
    ASSUME NEW S, IsFiniteSet(S), NEW R, StrictOrder(S, R)
    PROVE  /\ Cardinality(S) \in Nat
           /\ Place(S, R) \in [S -> 0..(Cardinality(S) - 1)]
           /\ \A s, t \in S : Place(S, R)[s] = Place(S, R)[t] => s = t
           /\ \A k \in 0..(Cardinality(S) - 1) : \E s \in S : Place(S, R)[s] = k
<1> DEFINE n == Cardinality(S)
           f == Place(S, R)
           T == 0..(n - 1)
<1>1. n \in Nat
  BY FS_CardinalityType
<1>2. ASSUME NEW s \in S PROVE f[s] \in T
  <2> DEFINE before == {t \in S : <<t, s>> \in R}
  <2>1. before \in SUBSET (S \ {s})
    BY DEF StrictOrder
  <2>2. IsFiniteSet(S \ {s}) /\ Cardinality(S \ {s}) = n - 1
    BY FS_RemoveElement
  <2>3. f[s] = Cardinality(before)
    BY DEF Place
  <2> HIDE DEF before
  <2>4. Cardinality(before) <= n - 1
    BY <2>1, <2>2, FS_Subset
  <2>5. f[s] \in Nat
    BY PlaceType
  <2>6. QED
    BY <1>1, <2>3, <2>4, <2>5
<1>3. f \in [S -> T]
  <2>1. f = [s \in S |-> f[s]]
    BY DEF Place
  <2> HIDE DEF f, T
  <2>2. QED
    BY <1>2, <2>1
<1>4. \A s, t \in S : f[s] = f[t] => s = t
  <2> SUFFICES ASSUME NEW s \in S, NEW t \in S, f[s] = f[t] PROVE s = t
    OBVIOUS
  <2>1. f[s] \in Nat /\ f[t] \in Nat
    BY PlaceType
  <2>2. ~(f[s] < f[t]) /\ ~(f[t] < f[s])
    BY <2>1
  <2>3. <<s, t>> \notin R /\ <<t, s>> \notin R
    BY <2>2, PlaceGrows
  <2>4. QED
    BY <2>3 DEF StrictOrder
<1> HIDE DEF f
<1>5. f \in Injection(S, T)
  BY <1>3, <1>4 DEF Injection, IsInjective
<1>6. IsFiniteSet(T) /\ Cardinality(T) = n
  <2>1. 0 \in Int /\ n - 1 \in Int /\ n - 1 - 0 + 1 = n /\ (0 > n - 1 => n = 0)
    BY <1>1
  <2>2. T = 0..(n - 1)
    OBVIOUS
  <2> HIDE DEF T, n
  <2>3. QED
    BY ONLY <2>1, <2>2, FS_Interval
<1> HIDE DEF T, n
<1>7. f \in Surjection(S, T)
  BY <1>5, <1>6, FS_Injection DEF n
<1>8. \A k \in T : \E s \in S : f[s] = k
  BY <1>7 DEF Surjection
<1>9. QED
  BY <1>1, <1>3, <1>4, <1>8 DEF f, T, n

LEMMA AtPlaceIs ==
    ASSUME NEW S, IsFiniteSet(S), NEW R, StrictOrder(S, R)
    PROVE  /\ \A k \in 0..(Cardinality(S) - 1) :
                AtPlace(S, R, k) \in S /\ Place(S, R)[AtPlace(S, R, k)] = k
           /\ \A s \in S : AtPlace(S, R, Place(S, R)[s]) = s
<1>1. ASSUME NEW k \in 0..(Cardinality(S) - 1)
      PROVE  AtPlace(S, R, k) \in S /\ Place(S, R)[AtPlace(S, R, k)] = k
  <2>1. \E s \in S : Place(S, R)[s] = k
    BY PlacesTaken
  <2>2. QED
    BY <2>1 DEF AtPlace
<1>2. ASSUME NEW s \in S PROVE AtPlace(S, R, Place(S, R)[s]) = s
  <2> DEFINE k == Place(S, R)[s]
  <2>1. k \in 0..(Cardinality(S) - 1)
    BY PlacesTaken
  <2>2. AtPlace(S, R, k) \in S /\ Place(S, R)[AtPlace(S, R, k)] = k
    BY <1>1, <2>1
  <2>3. QED
    BY <2>2, PlacesTaken
<1>3. QED
  BY <1>1, <1>2

\* A finite set in strict order has a last element.
LEMMA LastInOrder ==
    ASSUME NEW S, IsFiniteSet(S), S # {}, NEW R, StrictOrder(S, R)
    PROVE  \E s \in S : \A t \in S : t = s \/ <<t, s>> \in R
<1> DEFINE n == Cardinality(S)
           s == AtPlace(S, R, n - 1)
<1>1. n \in Nat /\ n # 0
  BY FS_CardinalityType, FS_EmptySet
<1> HIDE DEF n
<1>2. n - 1 \in 0..(n - 1)
  BY <1>1
<1>3. s \in S /\ Place(S, R)[s] = n - 1
  BY <1>2, AtPlaceIs DEF n
<1> HIDE DEF s
<1>4. ASSUME NEW t \in S PROVE t = s \/ <<t, s>> \in R
  <2>1. Place(S, R)[t] \in 0..(n - 1)
    BY PlacesTaken DEF n
  <2>2. ~(Place(S, R)[s] < Place(S, R)[t])
    BY <1>1, <1>3, <2>1
  <2>3. <<s, t>> \notin R
    BY <1>3, <2>2, PlaceGrows
  <2>4. QED
    BY <1>3, <2>3 DEF StrictOrder
<1>5. QED
  BY <1>3, <1>4

\* A finite set can be sorted by a key, whatever the order of equal keys.
LEMMA SortedExists ==
    ASSUME NEW S, IsFiniteSet(S), NEW key, \A s \in S : key[s] \in Int
    PROVE  \E f \in [1..Cardinality(S) -> S] :
              IsInjective(f) /\ \A i, j \in DOMAIN f : i < j => key[f[i]] <= key[f[j]]
<1>1. PICK n \in Nat : ExistsBijection(1..n, S)
  BY FS_NatBijection
<1>2. PICK b \in [1..n -> S] : \A s \in S : \E i \in 1..n : b[i] = s
  BY <1>1 DEF ExistsBijection, Bijection, Surjection
<1> DEFINE at == [s \in S |-> CHOOSE i \in 1..n : b[i] = s]
<1>3. \A s \in S : at[s] \in 1..n /\ b[at[s]] = s
  BY <1>2
<1>4. \A s \in S : at[s] \in Int
  BY <1>1, <1>3
<1> HIDE DEF at
<1> DEFINE R == {p \in S \X S : \/ key[p[1]] < key[p[2]]
                                \/ key[p[1]] = key[p[2]] /\ at[p[1]] < at[p[2]]}
<1>5. \A s, t \in S : <<s, t>> \in R <=> \/ key[s] < key[t]
                                         \/ key[s] = key[t] /\ at[s] < at[t]
  OBVIOUS
<1> HIDE DEF R
<1>6. StrictOrder(S, R)
  <2>1. \A s, t \in S : s = t \/ at[s] < at[t] \/ at[t] < at[s]
    BY <1>3, <1>4
  <2>2. ASSUME NEW s \in S, NEW t \in S PROVE s = t \/ <<s, t>> \in R \/ <<t, s>> \in R
    <3>1. key[s] \in Int /\ key[t] \in Int
      OBVIOUS
    <3>2. key[s] < key[t] \/ key[s] = key[t] \/ key[t] < key[s]
      BY <3>1
    <3>3. QED
      BY <1>5, <2>1, <3>2
  <2>3. \A s, t, u \in S : <<s, t>> \in R /\ <<t, u>> \in R => <<s, u>> \in R
    BY <1>4, <1>5
  <2>4. \A s \in S : <<s, s>> \notin R
    BY <1>4, <1>5
  <2>5. QED
    BY <2>2, <2>3, <2>4 DEF StrictOrder
<1> DEFINE N == Cardinality(S)
           f == [k \in 1..N |-> AtPlace(S, R, k - 1)]
<1>7. N \in Nat
  BY FS_CardinalityType
<1>8. \A k \in 1..N : f[k] \in S /\ Place(S, R)[f[k]] = k - 1
  BY <1>6, <1>7, AtPlaceIs
<1>9. f \in [1..N -> S]
  BY <1>8
<1> HIDE DEF N, f
<1>10. IsInjective(f)
  BY <1>7, <1>8, <1>9 DEF IsInjective
<1>11. ASSUME NEW i \in DOMAIN f, NEW j \in DOMAIN f, i < j PROVE key[f[i]] <= key[f[j]]
  <2>1. i \in 1..N /\ j \in 1..N /\ f[i] \in S /\ f[j] \in S
    BY <1>8, <1>9
  <2>2. Place(S, R)[f[i]] < Place(S, R)[f[j]]
    BY <1>7, <1>8, <1>11, <2>1
  <2>3. <<f[i], f[j]>> \in R
    BY <1>6, <2>1, <2>2, PlaceGrows
  <2>4. QED
    BY <1>5, <2>1, <2>3
<1>12. QED
  BY <1>9, <1>10, <1>11 DEF N

-----------------------------------------------------------------------------
\* A finite set of integers has a least and a greatest element.
LEMMA LeastAndGreatest ==
    ASSUME NEW S \in SUBSET Int, IsFiniteSet(S), S # {}
    PROVE  /\ Min(S) \in S /\ \A x \in S : Min(S) <= x
           /\ Max(S) \in S /\ \A x \in S : x <= Max(S)
<1> DEFINE R == {p \in S \X S : p[1] < p[2]}
<1>1. StrictOrder(S, R)
  BY DEF StrictOrder
<1>2. \A x, y \in S : <<x, y>> \in R <=> x < y
  OBVIOUS
<1> HIDE DEF R
<1>3. Cardinality(S) \in Nat /\ Cardinality(S) # 0
  BY FS_CardinalityType, FS_EmptySet
<1> DEFINE least == AtPlace(S, R, 0)
           most  == AtPlace(S, R, Cardinality(S) - 1)
<1>4. /\ least \in S /\ Place(S, R)[least] = 0
      /\ most \in S /\ Place(S, R)[most] = Cardinality(S) - 1
  <2>1. 0 \in 0..(Cardinality(S) - 1) /\ Cardinality(S) - 1 \in 0..(Cardinality(S) - 1)
    BY <1>3
  <2>2. QED
    BY <1>1, <2>1, AtPlaceIs
<1> HIDE DEF least, most
<1>5. \A x \in S : Place(S, R)[x] \in 0..(Cardinality(S) - 1)
  BY <1>1, PlacesTaken
<1>6. \A x \in S : least <= x /\ x <= most
  <2> SUFFICES ASSUME NEW x \in S PROVE least <= x /\ x <= most
    OBVIOUS
  <2>1. ~(Place(S, R)[x] < Place(S, R)[least]) /\ ~(Place(S, R)[most] < Place(S, R)[x])
    BY <1>3, <1>4, <1>5
  <2>2. <<x, least>> \notin R /\ <<most, x>> \notin R
    BY <1>1, <1>4, <2>1, PlaceGrows
  <2>3. QED
    BY <1>2, <1>4, <2>2
<1>7. Min(S) \in S /\ \A x \in S : Min(S) <= x
  BY <1>4, <1>6 DEF Min
<1>8. Max(S) \in S /\ \A x \in S : x <= Max(S)
  BY <1>4, <1>6 DEF Max
<1>9. QED
  BY <1>7, <1>8

\* Of two.
LEMMA OfTwo ==
    ASSUME NEW a \in Int, NEW b \in Int
    PROVE  /\ Min({a, b}) = IF a <= b THEN a ELSE b
           /\ Max({a, b}) = IF a <= b THEN b ELSE a
<1>1. \E x \in {a, b} : \A y \in {a, b} : x <= y
  OBVIOUS
<1>2. \E x \in {a, b} : \A y \in {a, b} : x >= y
  OBVIOUS
<1>3. QED
  BY <1>1, <1>2 DEF Min, Max

\* Division by a positive whole number, and the multiples of one.
LEMMA Quotient ==
    /\ \A n, m \in Nat : m > 0 =>
         n \div m \in Nat /\ (n \div m) * m <= n /\ n < (n \div m + 1) * m
    /\ \A n, m \in Nat : m > 0 /\ n >= m => n \div m >= 1
<1>1. \A n, m \in Nat : m > 0 =>
        n \div m \in Nat /\ (n \div m) * m <= n /\ n < (n \div m + 1) * m
  BY Z3
<1>2. \A n, m \in Nat : m > 0 /\ n >= m => n \div m >= 1
  BY Z3
<1>3. QED
  BY <1>1, <1>2

LEMMA Multiples ==
    /\ \A k, l, s \in Nat : k < l => k * s + s <= l * s
    /\ \A k, s \in Nat : k * s \in Nat /\ k * s = s * k
<1>1. ASSUME NEW k \in Nat, NEW l \in Nat, NEW s \in Nat, k < l PROVE k * s + s <= l * s
  <2>1. PICK d \in Nat : l = k + 1 + d
    <3>1. l - k - 1 \in Nat /\ l = k + 1 + (l - k - 1)
      BY <1>1
    <3>2. QED
      BY <3>1
  <2>2. l * s = k * s + s + d * s
    BY <2>1
  <2>3. d * s \in Nat /\ k * s \in Nat
    OBVIOUS
  <2>4. QED
    BY <2>2, <2>3
<1>2. QED
  BY <1>1

-----------------------------------------------------------------------------
(***************************************************************************)
(* Induction over sets of numbers and of subsets, which is what recursive  *)
(* functions and sums are reasoned about with.                             *)
(***************************************************************************)

\* The numbers are reached from 0, one at a time.
LEMMA Induction ==
    ASSUME NEW S, 0 \in S, \A n \in Nat : n \in S => n + 1 \in S
    PROVE  \A n \in Nat : n \in S
<1> SUFFICES ASSUME NEW n \in Nat, n \notin S PROVE FALSE
  OBVIOUS
<1> DEFINE D == {k \in 0..n : k \notin S}
<1>1. D \in SUBSET Int /\ D # {}
  <2>1. n \in D
    OBVIOUS
  <2>2. QED
    BY <2>1
<1>2. IsFiniteSet(D)
  <2>1. 0 \in Int /\ n \in Int
    OBVIOUS
  <2>2. IsFiniteSet(0..n)
    BY ONLY <2>1, FS_Interval
  <2>3. D \subseteq 0..n
    OBVIOUS
  <2>4. QED
    BY ONLY <2>2, <2>3, FS_Subset
<1>3. PICK m \in D : \A k \in D : m <= k
  <2> HIDE DEF D
  <2>1. Min(D) \in D /\ \A k \in D : Min(D) <= k
    BY <1>1, <1>2, LeastAndGreatest
  <2>2. QED
    BY <2>1
<1>4. m - 1 \in Nat /\ m - 1 \notin D /\ m - 1 \in 0..n
  <2>1. m \in 0..n /\ m # 0
    OBVIOUS
  <2>2. m - 1 \in Nat /\ m - 1 \in 0..n /\ m - 1 \in Int /\ ~(m <= m - 1)
    BY <2>1
  <2>3. QED
    BY <1>3, <2>2
<1>5. m - 1 \in S
  BY <1>4
<1>6. (m - 1) + 1 \in S /\ (m - 1) + 1 = m
  BY <1>4, <1>5
<1>7. QED
  BY <1>6

\* A finite set is reached from the empty one, an element at a time.
LEMMA SetInduction ==
    ASSUME NEW S, IsFiniteSet(S), NEW F, {} \in F,
           \A T \in SUBSET S : \A x \in S : T \in F /\ x \notin T => T \cup {x} \in F
    PROVE  S \in F
<1> DEFINE K == {n \in Nat : \A T \in SUBSET S : Cardinality(T) = n => T \in F}
<1>1. 0 \in K
  <2> SUFFICES ASSUME NEW T \in SUBSET S, Cardinality(T) = 0 PROVE T \in F
    OBVIOUS
  <2>1. IsFiniteSet(T)
    BY FS_Subset
  <2>2. QED
    BY <2>1, FS_EmptySet
<1>2. ASSUME NEW n \in Nat, n \in K PROVE n + 1 \in K
  <2> SUFFICES ASSUME NEW T \in SUBSET S, Cardinality(T) = n + 1 PROVE T \in F
    OBVIOUS
  <2>1. IsFiniteSet(T) /\ T # {}
    BY FS_Subset, FS_EmptySet
  <2>2. PICK x \in T : TRUE
    BY <2>1
  <2>3. IsFiniteSet(T \ {x}) /\ Cardinality(T \ {x}) = n
    <3>1. IsFiniteSet(T \ {x}) /\ Cardinality(T \ {x}) = Cardinality(T) - 1
      BY <2>1, <2>2, FS_RemoveElement
    <3>2. QED
      BY <3>1
  <2>4. T \ {x} \in F
    BY <1>2, <2>3
  <2>5. (T \ {x}) \cup {x} = T
    OBVIOUS
  <2>6. (T \ {x}) \cup {x} \in F
    BY <2>4
  <2>7. QED
    BY <2>5, <2>6
<1>3. \A n \in Nat : n \in K
  <2> HIDE DEF K
  <2>1. \A n \in Nat : n \in K => n + 1 \in K
    BY <1>2
  <2>2. QED
    BY ONLY <1>1, <2>1, Induction
<1>4. Cardinality(S) \in Nat
  BY FS_CardinalityType
<1>5. QED
  BY <1>3, <1>4

\* A function of the numbers up to n is made from its first value and a step.
LEMMA Iterated ==
    ASSUME NEW V, NEW base \in V, NEW n \in Nat, NEW next \in [1..n -> [V -> V]]
    PROVE  \E f \in [0..n -> V] :
              f = [k \in 0..n |-> IF k = 0 THEN base ELSE next[k][f[k - 1]]]
<1> DEFINE Made(m, f) == /\ f[0] = base
                         /\ \A k \in 1..m : f[k] = next[k][f[k - 1]]
           K == {m \in Nat : m <= n => \E f \in [0..n -> V] : Made(m, f)}
<1>1. 0 \in K
  <2>1. [k \in 0..n |-> base] \in [0..n -> V] /\ Made(0, [k \in 0..n |-> base])
    OBVIOUS
  <2>2. QED
    BY <2>1
<1>2. ASSUME NEW m \in Nat, m \in K PROVE m + 1 \in K
  <2> SUFFICES ASSUME m + 1 <= n PROVE \E f \in [0..n -> V] : Made(m + 1, f)
    OBVIOUS
  <2>1. PICK f \in [0..n -> V] : Made(m, f)
    BY <1>2
  <2>2. m \in 0..n /\ m + 1 \in 1..n /\ m + 1 \in 0..n /\ f[m] \in V
    OBVIOUS
  <2> DEFINE v == next[m + 1][f[m]]
             g == [f EXCEPT ![m + 1] = v]
  <2>3. v \in V
    BY <2>2
  <2>4. g \in [0..n -> V] /\ g[m + 1] = v /\ \A k \in 0..n : k # m + 1 => g[k] = f[k]
    BY <2>2, <2>3
  <2>5. g[0] = base
    BY <2>1, <2>4
  <2>6. ASSUME NEW k \in 1..(m + 1) PROVE g[k] = next[k][g[k - 1]]
    <3>1. k - 1 \in 0..n /\ k - 1 # m + 1 /\ k \in 0..n
      OBVIOUS
    <3>2. g[k - 1] = f[k - 1]
      BY <2>4, <3>1
    <3>3. CASE k = m + 1
      <4>1. k - 1 = m
        BY <3>3
      <4>2. QED
        BY <2>4, <3>2, <3>3, <4>1
    <3>4. CASE k # m + 1
      <4>1. k \in 1..m
        BY <3>4
      <4>2. QED
        BY <2>1, <2>4, <3>1, <3>2, <3>4, <4>1
    <3>5. QED
      BY <3>3, <3>4
  <2>7. QED
    BY <2>4, <2>5, <2>6
<1>3. n \in K
  <2> HIDE DEF K
  <2>1. \A m \in Nat : m \in K => m + 1 \in K
    BY <1>2
  <2>2. \A m \in Nat : m \in K
    BY ONLY <1>1, <2>1, Induction
  <2>3. QED
    BY <2>2
<1>4. PICK f \in [0..n -> V] : Made(n, f)
  BY <1>3
<1>5. f = [k \in 0..n |-> IF k = 0 THEN base ELSE next[k][f[k - 1]]]
  BY <1>4
<1>6. QED
  BY <1>5

-----------------------------------------------------------------------------
(***************************************************************************)
(* Sums: SumFunctionOnSet adds the values of a function at the members of  *)
(* a set, in an order of its own.                                          *)
(***************************************************************************)

\* The element a fold takes first, and the sums it makes of all subsets.
Picked(s) == CHOOSE x \in s : TRUE
Accrued(g, S) == CHOOSE iter : iter =
    [s \in SUBSET S |-> IF s = {} THEN 0 ELSE g[Picked(s)] + iter[s \ {Picked(s)}]]

LEMMA SumIsAccrued ==
    ASSUME NEW S, NEW g
    PROVE  SumFunctionOnSet(g, S) = Accrued(g, S)[S]
BY DEF SumFunctionOnSet, FoldFunctionOnSet, MapThenFoldSet, Accrued, Picked

Whole(g, S) == \A x \in S : g[x] \in Int

Accrues(f, g, s) == f[s] = IF s = {} THEN 0 ELSE g[Picked(s)] + f[s \ {Picked(s)}]
AccruesOn(f, g, S) == \A s \in SUBSET S : Accrues(f, g, s)

\* What is left when one is picked.
LEMMA PickOne ==
    ASSUME NEW S, IsFiniteSet(S), NEW s \in SUBSET S
    PROVE  /\ IsFiniteSet(s) /\ Cardinality(s) \in Nat /\ (Cardinality(s) = 0 <=> s = {})
           /\ s # {} => /\ Picked(s) \in s /\ Picked(s) \in S
                        /\ s \ {Picked(s)} \in SUBSET S
                        /\ Cardinality(s \ {Picked(s)}) = Cardinality(s) - 1
<1>1. IsFiniteSet(s) /\ Cardinality(s) \in Nat /\ (Cardinality(s) = 0 <=> s = {})
  BY FS_Subset, FS_CardinalityType, FS_EmptySet
<1>2. ASSUME s # {} PROVE Picked(s) \in s
  BY <1>2 DEF Picked
<1>3. ASSUME s # {} PROVE Cardinality(s \ {Picked(s)}) = Cardinality(s) - 1
  BY <1>1, <1>2, <1>3, FS_RemoveElement
<1>4. QED
  BY <1>1, <1>2, <1>3

\* There is one account of a set, and it is in whole numbers.
LEMMA OneAccount ==
    ASSUME NEW S, IsFiniteSet(S), NEW g, NEW f, NEW h,
           AccruesOn(f, g, S), AccruesOn(h, g, S)
    PROVE  \A s \in SUBSET S : f[s] = h[s]
<1> DEFINE K == {n \in Nat : \A s \in SUBSET S : Cardinality(s) = n => f[s] = h[s]}
<1>1. 0 \in K
  <2> SUFFICES ASSUME NEW s \in SUBSET S, Cardinality(s) = 0 PROVE f[s] = h[s]
    OBVIOUS
  <2>1. s = {}
    BY PickOne
  <2>2. QED
    BY <2>1 DEF Accrues, AccruesOn
<1>2. ASSUME NEW n \in Nat, n \in K PROVE n + 1 \in K
  <2> SUFFICES ASSUME NEW s \in SUBSET S, Cardinality(s) = n + 1 PROVE f[s] = h[s]
    OBVIOUS
  <2>1. s # {} /\ s \ {Picked(s)} \in SUBSET S /\ Cardinality(s \ {Picked(s)}) = n
    BY PickOne
  <2>2. f[s \ {Picked(s)}] = h[s \ {Picked(s)}]
    BY <1>2, <2>1
  <2>3. QED
    BY <2>1, <2>2 DEF Accrues, AccruesOn
<1>3. \A n \in Nat : n \in K
  <2> HIDE DEF K
  <2>1. \A n \in Nat : n \in K => n + 1 \in K
    BY <1>2
  <2>2. QED
    BY ONLY <1>1, <2>1, Induction
<1>4. QED
  BY <1>3, PickOne

LEMMA AccruedStep ==
    ASSUME NEW S, IsFiniteSet(S), NEW g, Whole(g, S)
    PROVE  /\ Accrued(g, S) \in [SUBSET S -> Int]
           /\ \A s \in SUBSET S : Accrues(Accrued(g, S), g, s)
<1> DEFINE UpTo(n) == {s \in SUBSET S : Cardinality(s) <= n}
           K == {n \in Nat : \E f \in [SUBSET S -> Int] : \A s \in UpTo(n) : Accrues(f, g, s)}
<1>1. ASSUME NEW s \in SUBSET S
      PROVE  IsFiniteSet(s) /\ Cardinality(s) \in Nat /\ (Cardinality(s) = 0 <=> s = {})
  BY PickOne
<1>2. ASSUME NEW s \in SUBSET S, s # {}
      PROVE  /\ g[Picked(s)] \in Int /\ s \ {Picked(s)} \in SUBSET S
             /\ Cardinality(s \ {Picked(s)}) = Cardinality(s) - 1
  BY <1>2, PickOne DEF Whole
<1>3. 0 \in K
  <2>1. [s \in SUBSET S |-> 0] \in [SUBSET S -> Int]
    OBVIOUS
  <2>2. ASSUME NEW s \in UpTo(0) PROVE Accrues([t \in SUBSET S |-> 0], g, s)
    <3>1. s = {} /\ s \in SUBSET S
      BY <1>1
    <3>2. QED
      BY <3>1 DEF Accrues
  <2>3. QED
    BY <2>1, <2>2
<1>4. ASSUME NEW n \in Nat, n \in K PROVE n + 1 \in K
  <2>1. PICK f \in [SUBSET S -> Int] : \A s \in UpTo(n) : Accrues(f, g, s)
    BY <1>4
  <2> DEFINE more == [s \in SUBSET S |->
                 IF Cardinality(s) = n + 1 THEN g[Picked(s)] + f[s \ {Picked(s)}] ELSE f[s]]
  <2>2. ASSUME NEW s \in SUBSET S PROVE more[s] \in Int
    <3>1. CASE Cardinality(s) = n + 1
      <4>1. s # {}
        BY <1>1, <3>1
      <4>2. g[Picked(s)] \in Int /\ f[s \ {Picked(s)}] \in Int
        BY <1>2, <4>1
      <4>3. QED
        BY <3>1, <4>2
    <3>2. CASE Cardinality(s) # n + 1
      BY <3>2
    <3>3. QED
      BY <3>1, <3>2
  <2>3. more \in [SUBSET S -> Int]
    BY <2>2
  <2>4. ASSUME NEW s \in UpTo(n + 1) PROVE Accrues(more, g, s)
    <3>0. s \in SUBSET S
      OBVIOUS
    <3>1. CASE s = {}
      <4>1. Cardinality(s) = 0 /\ 0 # n + 1 /\ s \in UpTo(n)
        BY <1>1, <3>1
      <4>2. QED
        BY <2>1, <3>1, <4>1 DEF Accrues
    <3>2. CASE s # {}
      <4>1. Cardinality(s \ {Picked(s)}) = Cardinality(s) - 1 /\ s \ {Picked(s)} \in SUBSET S
        BY <1>2, <3>0, <3>2
      <4>2. Cardinality(s) \in Nat /\ Cardinality(s) <= n + 1
        BY <1>1
      <4>3. more[s \ {Picked(s)}] = f[s \ {Picked(s)}]
        BY <4>1, <4>2
      <4>4. CASE Cardinality(s) = n + 1
        BY <3>2, <4>3, <4>4 DEF Accrues
      <4>5. CASE Cardinality(s) # n + 1
        <5>1. s \in UpTo(n)
          BY <4>2, <4>5
        <5>2. Accrues(f, g, s)
          BY <2>1, <5>1
        <5>3. QED
          BY <3>2, <4>3, <4>5, <5>2 DEF Accrues
      <4>6. QED
        BY <4>4, <4>5
    <3>3. QED
      BY <3>1, <3>2
  <2> HIDE DEF more, UpTo
  <2>5. QED
    BY <2>3, <2>4
<1>5. \A n \in Nat : n \in K
  <2> HIDE DEF K
  <2>1. \A n \in Nat : n \in K => n + 1 \in K
    BY <1>4
  <2>2. QED
    BY ONLY <1>3, <2>1, Induction
<1>6. Cardinality(S) \in Nat
  BY <1>1
<1>7. PICK f \in [SUBSET S -> Int] : \A s \in UpTo(Cardinality(S)) : Accrues(f, g, s)
  BY <1>5, <1>6
<1>8. \A s \in SUBSET S : s \in UpTo(Cardinality(S))
  BY FS_Subset
<1>9. f = [s \in SUBSET S |-> IF s = {} THEN 0 ELSE g[Picked(s)] + f[s \ {Picked(s)}]]
  BY <1>7, <1>8 DEF Accrues
<1>10. Accrued(g, S) =
    [s \in SUBSET S |-> IF s = {} THEN 0 ELSE g[Picked(s)] + Accrued(g, S)[s \ {Picked(s)}]]
  BY <1>9 DEF Accrued
<1> DEFINE a == Accrued(g, S)
<1> HIDE DEF a
<1>11. \A s \in SUBSET S : Accrues(a, g, s)
  BY <1>10 DEF Accrues, a
<1>12. \A s \in SUBSET S : Accrues(f, g, s)
  BY <1>7, <1>8
<1>13. \A s \in SUBSET S : a[s] = f[s]
  <2>1. AccruesOn(a, g, S) /\ AccruesOn(f, g, S)
    BY <1>11, <1>12 DEF AccruesOn
  <2>2. QED
    BY ONLY IsFiniteSet(S), <2>1, OneAccount
<1>14. a \in [SUBSET S -> Int]
  <2>1. a = [s \in SUBSET S |-> a[s]]
    BY <1>10 DEF a
  <2>2. QED
    BY <1>13, <2>1
<1>15. QED
  BY <1>11, <1>14 DEF a

\* SumFunctionOnSet, as its readers need it: nothing adds up to 0, and a
\* member adds its value.
LEMMA SumOfNone ==
    ASSUME NEW g
    PROVE  SumFunctionOnSet(g, {}) = 0
<1>1. IsFiniteSet({}) /\ Whole(g, {}) /\ {} \in SUBSET {}
  BY FS_EmptySet DEF Whole
<1>2. Accrues(Accrued(g, {}), g, {})
  BY <1>1, AccruedStep
<1>3. QED
  BY <1>2, SumIsAccrued DEF Accrues

LEMMA SumOfSubset ==
    ASSUME NEW S, IsFiniteSet(S), NEW g, Whole(g, S), NEW T \in SUBSET S
    PROVE  /\ SumFunctionOnSet(g, T) = Accrued(g, S)[T]
           /\ SumFunctionOnSet(g, T) \in Int
<1>1. IsFiniteSet(T) /\ Whole(g, T) /\ T \in SUBSET T
  BY FS_Subset DEF Whole
<1>2. AccruesOn(Accrued(g, T), g, T)
  BY <1>1, AccruedStep DEF AccruesOn
<1>3. \A s \in SUBSET S : Accrues(Accrued(g, S), g, s)
  BY AccruedStep
<1>5. AccruesOn(Accrued(g, S), g, T)
  BY <1>3 DEF AccruesOn
<1>6. \A s \in SUBSET T : Accrued(g, T)[s] = Accrued(g, S)[s]
  BY ONLY <1>1, <1>2, <1>5, OneAccount
<1>7. Accrued(g, S) \in [SUBSET S -> Int]
  BY AccruedStep
<1>8. Accrued(g, S)[T] \in Int
  BY <1>7
<1>9. QED
  BY <1>1, <1>6, <1>8, SumIsAccrued

LEMMA SumPicks ==
    ASSUME NEW S, IsFiniteSet(S), NEW g, Whole(g, S), S # {}
    PROVE  SumFunctionOnSet(g, S) = g[Picked(S)] + SumFunctionOnSet(g, S \ {Picked(S)})
<1>1. S \in SUBSET S /\ S \ {Picked(S)} \in SUBSET S
  OBVIOUS
<1>2. Accrues(Accrued(g, S), g, S)
  BY <1>1, AccruedStep
<1>3. /\ SumFunctionOnSet(g, S) = Accrued(g, S)[S]
      /\ SumFunctionOnSet(g, S \ {Picked(S)}) = Accrued(g, S)[S \ {Picked(S)}]
  BY <1>1, SumOfSubset
<1>4. QED
  BY <1>2, <1>3 DEF Accrues

LEMMA SumTakes ==
    ASSUME NEW S, IsFiniteSet(S), NEW g, Whole(g, S), NEW x \in S
    PROVE  SumFunctionOnSet(g, S) = g[x] + SumFunctionOnSet(g, S \ {x})
<1> DEFINE sum(T) == SumFunctionOnSet(g, T)
           K == {n \in Nat : \A T \in SUBSET S : Cardinality(T) = n =>
                    \A y \in T : sum(T) = g[y] + sum(T \ {y})}
<1> HIDE DEF sum
<1>0. ASSUME NEW T \in SUBSET S
      PROVE  /\ sum(T) \in Int
             /\ T # {} => sum(T) = g[Picked(T)] + sum(T \ {Picked(T)})
  <2>1. IsFiniteSet(T) /\ Whole(g, T)
    BY FS_Subset DEF Whole
  <2>2. QED
    BY <2>1, SumPicks, SumOfSubset DEF sum
<1>1. 0 \in K
  BY PickOne
<1>2. ASSUME NEW n \in Nat, n \in K PROVE n + 1 \in K
  <2> SUFFICES ASSUME NEW T \in SUBSET S, Cardinality(T) = n + 1, NEW y \in T
               PROVE  sum(T) = g[y] + sum(T \ {y})
    OBVIOUS
  <2> DEFINE c == Picked(T)
  <2>1. /\ IsFiniteSet(T) /\ c \in T /\ c \in S /\ y \in S
        /\ T \ {c} \in SUBSET S /\ Cardinality(T \ {c}) = n
        /\ T \ {y} \in SUBSET S
    BY PickOne
  <2>2. Cardinality(T \ {y}) = n
    BY <2>1, FS_RemoveElement
  <2> HIDE DEF c
  <2>3. sum(T) = g[c] + sum(T \ {c})
    BY <1>0, <2>1 DEF c
  <2>4. CASE y = c
    BY <2>3, <2>4
  <2>5. CASE y # c
    <3>1. y \in T \ {c} /\ c \in T \ {y} /\ (T \ {c}) \ {y} = (T \ {y}) \ {c}
      BY <2>1, <2>5
    <3>2. sum(T \ {c}) = g[y] + sum((T \ {c}) \ {y})
      BY <1>2, <2>1, <3>1
    <3>3. sum(T \ {y}) = g[c] + sum((T \ {y}) \ {c})
      BY <1>2, <2>1, <2>2, <3>1
    <3>4. g[c] \in Int /\ g[y] \in Int /\ sum((T \ {c}) \ {y}) \in Int
      <4>1. (T \ {c}) \ {y} \in SUBSET S
        BY <2>1
      <4>2. QED
        BY <1>0, <2>1, <4>1 DEF Whole
    <3>5. PICK rest : rest = (T \ {c}) \ {y} /\ rest = (T \ {y}) \ {c}
      BY <3>1
    <3>6. /\ sum(T \ {c}) = g[y] + sum(rest) /\ sum(T \ {y}) = g[c] + sum(rest)
          /\ sum(rest) \in Int /\ g[c] \in Int /\ g[y] \in Int
      BY <3>2, <3>3, <3>4, <3>5
    <3>7. QED
      BY <2>3, <3>6
  <2>6. QED
    BY <2>4, <2>5
<1>3. \A n \in Nat : n \in K
  <2> HIDE DEF K
  <2>1. \A n \in Nat : n \in K => n + 1 \in K
    BY <1>2
  <2>2. QED
    BY ONLY <1>1, <2>1, Induction
<1>4. Cardinality(S) \in K /\ S \in SUBSET S
  BY <1>3, FS_CardinalityType
<1>5. sum(S) = g[x] + sum(S \ {x})
  BY <1>4
<1>6. QED
  BY <1>5 DEF sum

LEMMA SumGains ==
    ASSUME NEW S, IsFiniteSet(S), NEW g, Whole(g, S), NEW x, x \notin S, g[x] \in Int
    PROVE  SumFunctionOnSet(g, S \cup {x}) = g[x] + SumFunctionOnSet(g, S)
<1>1. IsFiniteSet(S \cup {x}) /\ Whole(g, S \cup {x}) /\ (S \cup {x}) \ {x} = S
  BY FS_AddElement DEF Whole
<1>2. x \in S \cup {x}
  OBVIOUS
<1>3. SumFunctionOnSet(g, S \cup {x}) = g[x] + SumFunctionOnSet(g, (S \cup {x}) \ {x})
  BY ONLY <1>1, <1>2, SumTakes
<1>4. QED
  BY <1>1, <1>3

\* Equal values have equal sums.
LEMMA SumSame ==
    ASSUME NEW S, IsFiniteSet(S), NEW f, NEW g, Whole(g, S), \A x \in S : f[x] = g[x]
    PROVE  SumFunctionOnSet(f, S) = SumFunctionOnSet(g, S)
<1> DEFINE F == {T \in SUBSET S : SumFunctionOnSet(f, T) = SumFunctionOnSet(g, T)}
<1>1. {} \in F
  BY SumOfNone
<1>2. ASSUME NEW T \in SUBSET S, NEW x \in S, T \in F, x \notin T
      PROVE  T \cup {x} \in F
  <2>1. IsFiniteSet(T) /\ Whole(g, T) /\ Whole(f, T) /\ g[x] \in Int /\ f[x] \in Int
    BY FS_Subset DEF Whole
  <2>2. SumFunctionOnSet(g, T \cup {x}) = g[x] + SumFunctionOnSet(g, T)
    BY <1>2, <2>1, SumGains
  <2>3. SumFunctionOnSet(f, T \cup {x}) = f[x] + SumFunctionOnSet(f, T)
    BY <1>2, <2>1, SumGains
  <2>4. QED
    BY <1>2, <2>2, <2>3
<1>3. S \in F
  <2> HIDE DEF F
  <2>1. QED
    BY <1>1, <1>2, SetInduction
<1>4. QED
  BY <1>3

\* The sum of sums is the sum, of two functions that are added.
LEMMA SumAdds ==
    ASSUME NEW S, IsFiniteSet(S), NEW f, NEW g, NEW h, Whole(f, S), Whole(g, S),
           \A x \in S : h[x] = f[x] + g[x]
    PROVE  SumFunctionOnSet(h, S) = SumFunctionOnSet(f, S) + SumFunctionOnSet(g, S)
<1> DEFINE F == {T \in SUBSET S :
                   SumFunctionOnSet(h, T) = SumFunctionOnSet(f, T) + SumFunctionOnSet(g, T)}
<1>1. {} \in F
  BY SumOfNone
<1>2. ASSUME NEW T \in SUBSET S, NEW x \in S, T \in F, x \notin T
      PROVE  T \cup {x} \in F
  <2>1. /\ IsFiniteSet(T) /\ Whole(g, T) /\ Whole(f, T) /\ Whole(h, T)
        /\ g[x] \in Int /\ f[x] \in Int /\ h[x] \in Int /\ h[x] = f[x] + g[x]
    BY FS_Subset DEF Whole
  <2>2. SumFunctionOnSet(g, T \cup {x}) = g[x] + SumFunctionOnSet(g, T)
    BY <1>2, <2>1, SumGains
  <2>3. SumFunctionOnSet(f, T \cup {x}) = f[x] + SumFunctionOnSet(f, T)
    BY <1>2, <2>1, SumGains
  <2>4. SumFunctionOnSet(h, T \cup {x}) = h[x] + SumFunctionOnSet(h, T)
    BY <1>2, <2>1, SumGains
  <2>5. SumFunctionOnSet(f, T) \in Int /\ SumFunctionOnSet(g, T) \in Int
    BY <2>1, SumOfSubset
  <2>6. SumFunctionOnSet(h, T) = SumFunctionOnSet(f, T) + SumFunctionOnSet(g, T)
    BY <1>2
  <2>7. SumFunctionOnSet(h, T \cup {x})
        = SumFunctionOnSet(f, T \cup {x}) + SumFunctionOnSet(g, T \cup {x})
    BY <2>1, <2>2, <2>3, <2>4, <2>5, <2>6
  <2>8. QED
    BY <2>7
<1>3. S \in F
  <2> HIDE DEF F
  <2>1. QED
    BY <1>1, <1>2, SetInduction
<1>4. QED
  BY <1>3

\* Two sets without a common member.
LEMMA SumOfUnion ==
    ASSUME NEW S, IsFiniteSet(S), NEW T, IsFiniteSet(T), S \cap T = {},
           NEW g, Whole(g, S), Whole(g, T)
    PROVE  SumFunctionOnSet(g, S \cup T) = SumFunctionOnSet(g, S) + SumFunctionOnSet(g, T)
<1> DEFINE F == {U \in SUBSET T :
                   SumFunctionOnSet(g, S \cup U) = SumFunctionOnSet(g, S) + SumFunctionOnSet(g, U)}
<1>0. S \in SUBSET S /\ SumFunctionOnSet(g, S) \in Int
  BY SumOfSubset
<1>1. {} \in F
  <2>1. S \cup {} = S
    OBVIOUS
  <2>2. SumFunctionOnSet(g, S \cup {}) = SumFunctionOnSet(g, S) + SumFunctionOnSet(g, {})
    BY <1>0, <2>1, SumOfNone
  <2>3. QED
    BY <2>2
<1>2. ASSUME NEW U \in SUBSET T, NEW x \in T, U \in F, x \notin U
      PROVE  U \cup {x} \in F
  <2>1. /\ IsFiniteSet(U) /\ Whole(g, U) /\ g[x] \in Int
        /\ U \in SUBSET U /\ SumFunctionOnSet(g, U) \in Int
    BY FS_Subset, SumOfSubset DEF Whole
  <2>2. SumFunctionOnSet(g, U \cup {x}) = g[x] + SumFunctionOnSet(g, U)
    BY <1>2, <2>1, SumGains
  <2>3. IsFiniteSet(S \cup U)
    BY <2>1, FS_Union
  <2>4. Whole(g, S \cup U) /\ x \notin S \cup U
    BY <1>2, <2>1 DEF Whole
  <2>5. SumFunctionOnSet(g, (S \cup U) \cup {x}) = g[x] + SumFunctionOnSet(g, S \cup U)
    BY <2>1, <2>3, <2>4, SumGains
  <2>6. (S \cup U) \cup {x} = S \cup (U \cup {x})
    OBVIOUS
  <2>7. SumFunctionOnSet(g, S \cup U) = SumFunctionOnSet(g, S) + SumFunctionOnSet(g, U)
    BY <1>2
  <2>8. SumFunctionOnSet(g, S \cup (U \cup {x}))
        = g[x] + (SumFunctionOnSet(g, S) + SumFunctionOnSet(g, U))
    BY <2>5, <2>6, <2>7
  <2>9. SumFunctionOnSet(g, S \cup (U \cup {x}))
        = SumFunctionOnSet(g, S) + SumFunctionOnSet(g, U \cup {x})
    BY <1>0, <2>1, <2>2, <2>8
  <2>10. QED
    BY <2>9
<1>3. T \in F
  <2> HIDE DEF F
  <2>1. QED
    BY <1>1, <1>2, SetInduction
<1>4. QED
  BY <1>3

\* Values that are not negative add up to no less on a larger set.
LEMMA SumGrows ==
    ASSUME NEW S, IsFiniteSet(S), NEW g, \A x \in S : g[x] \in Nat, NEW T \in SUBSET S
    PROVE  /\ SumFunctionOnSet(g, T) \in Nat /\ SumFunctionOnSet(g, S) \in Nat
           /\ SumFunctionOnSet(g, T) <= SumFunctionOnSet(g, S)
<1> DEFINE F == {U \in SUBSET S : SumFunctionOnSet(g, U) \in Nat}
<1>0. Whole(g, S)
  BY DEF Whole
<1>1. {} \in F
  BY SumOfNone
<1>2. ASSUME NEW U \in SUBSET S, NEW x \in S, U \in F, x \notin U
      PROVE  U \cup {x} \in F
  <2>1. IsFiniteSet(U) /\ Whole(g, U) /\ g[x] \in Int /\ g[x] \in Nat
    BY FS_Subset DEF Whole
  <2>2. SumFunctionOnSet(g, U \cup {x}) = g[x] + SumFunctionOnSet(g, U)
    BY <1>2, <2>1, SumGains
  <2>3. QED
    BY <1>2, <2>1, <2>2
<1>3. \A U \in SUBSET S : SumFunctionOnSet(g, U) \in Nat
  <2> SUFFICES ASSUME NEW U \in SUBSET S PROVE SumFunctionOnSet(g, U) \in Nat
    OBVIOUS
  <2>1. IsFiniteSet(U) /\ \A W \in SUBSET U : \A x \in U : W \in F /\ x \notin W => W \cup {x} \in F
    <3>1. \A W \in SUBSET S : \A x \in S : W \in F /\ x \notin W => W \cup {x} \in F
      BY <1>2
    <3> HIDE DEF F
    <3>2. QED
      BY <3>1, FS_Subset
  <2>2. U \in F
    <3> HIDE DEF F
    <3>1. QED
      BY ONLY <1>1, <2>1, SetInduction
  <2>3. QED
    BY <2>2
<1>4. /\ IsFiniteSet(T) /\ IsFiniteSet(S \ T) /\ T \cap (S \ T) = {} /\ T \cup (S \ T) = S
      /\ Whole(g, T) /\ Whole(g, S \ T)
  BY FS_Subset DEF Whole
<1>5. SumFunctionOnSet(g, T \cup (S \ T)) = SumFunctionOnSet(g, T) + SumFunctionOnSet(g, S \ T)
  BY ONLY <1>4, SumOfUnion
<1>6. T \in SUBSET S /\ S \ T \in SUBSET S /\ S \in SUBSET S
  OBVIOUS
<1>7. /\ SumFunctionOnSet(g, T) \in Nat /\ SumFunctionOnSet(g, S \ T) \in Nat
      /\ SumFunctionOnSet(g, S) \in Nat
  BY <1>3, <1>6
<1>8. SumFunctionOnSet(g, S) = SumFunctionOnSet(g, T) + SumFunctionOnSet(g, S \ T)
  BY <1>4, <1>5
<1>9. QED
  BY <1>7, <1>8

\* SumFunction adds up all values of a function.
LEMMA SumOverDomain == \A f : SumFunction(f) = SumFunctionOnSet(f, DOMAIN f)
BY DEF SumFunction

\* A larger factor.
LEMMA FactorGrows ==
    \A r, a, b \in Nat : r * a \in Nat /\ (-r) * a = -(r * a) /\ (a <= b => r * a <= r * b)
<1>1. ASSUME NEW r \in Nat, NEW a \in Nat, NEW b \in Nat, a <= b PROVE r * a <= r * b
  <2>1. PICK d \in Nat : b = a + d
    <3>1. b - a \in Nat /\ b = a + (b - a)
      BY <1>1
    <3>2. QED
      BY <3>1
  <2>2. r * b = r * a + r * d
    BY <2>1
  <2>3. r * d \in Nat /\ r * a \in Nat
    OBVIOUS
  <2>4. QED
    BY <2>2, <2>3
<1>2. \A r, a \in Nat : r * a \in Nat /\ (-r) * a = -(r * a)
  BY Z3
<1>3. QED
  BY <1>1, <1>2

\* A factor from the numbers keeps an order, and a positive one can be cancelled.
LEMMA Times ==
    \A x, y \in Int, n \in Nat :
      /\ x <= y => x * n <= y * n
      /\ n > 0 /\ x * n <= y * n => x <= y
<1>1. ASSUME NEW x \in Int, NEW y \in Int, NEW n \in Nat, x <= y PROVE x * n <= y * n
  <2>1. PICK d \in Nat : y = x + d
    <3>1. y - x \in Nat /\ y = x + (y - x)
      BY <1>1
    <3>2. QED
      BY <3>1
  <2>2. y * n = x * n + d * n
    BY <2>1, Z3
  <2>3. d * n \in Nat /\ x * n \in Int
    BY Z3
  <2>4. QED
    BY <2>2, <2>3
<1>2. ASSUME NEW x \in Int, NEW y \in Int, NEW n \in Nat, n > 0, x * n <= y * n PROVE x <= y
  <2> SUFFICES ASSUME x > y PROVE FALSE
    OBVIOUS
  <2>1. y + 1 <= x
    OBVIOUS
  <2>2. (y + 1) * n <= x * n
    BY <1>1, <2>1
  <2>3. (y + 1) * n = y * n + n /\ y * n \in Int /\ x * n \in Int
    BY Z3
  <2>4. QED
    BY <1>2, <2>2, <2>3
<1>3. QED
  BY <1>1, <1>2

\* The same as Iterated, in a form that is instantiated at once.
IteratedBy(V, base, n, next) ==
    \E f \in [0..n -> V] : f = [k \in 0..n |-> IF k = 0 THEN base ELSE next[k][f[k - 1]]]

LEMMA IteratedFrom ==
    \A V : \A base \in V, n \in Nat : \A next \in [1..n -> [V -> V]] :
       IteratedBy(V, base, n, next)
BY Iterated DEF IteratedBy

\* Sums of parts of a function, of zeros and of the opposite values.
LEMMA SumPart ==
    ASSUME NEW S, IsFiniteSet(S), NEW g, Whole(g, S), NEW T \in SUBSET S, NEW f,
           DOMAIN f = T, \A x \in T : f[x] = g[x]
    PROVE  SumFunction(f) = SumFunctionOnSet(g, T) /\ SumFunction(f) \in Int
<1>1. SumFunction(f) = SumFunctionOnSet(f, T)
  BY SumOverDomain
<1>2. IsFiniteSet(T) /\ Whole(g, T)
  BY FS_Subset DEF Whole
<1>3. SumFunctionOnSet(f, T) = SumFunctionOnSet(g, T)
  BY <1>2, SumSame
<1>4. SumFunctionOnSet(g, T) \in Int
  BY SumOfSubset
<1>5. QED
  BY <1>1, <1>3, <1>4

LEMMA SumOfZeros ==
    ASSUME NEW S, IsFiniteSet(S), NEW g, \A x \in S : g[x] = 0
    PROVE  SumFunctionOnSet(g, S) = 0
<1> DEFINE F == {T \in SUBSET S : SumFunctionOnSet(g, T) = 0}
<1>1. {} \in F
  BY SumOfNone
<1>2. ASSUME NEW T \in SUBSET S, NEW x \in S, T \in F, x \notin T
      PROVE  T \cup {x} \in F
  <2>1. IsFiniteSet(T) /\ Whole(g, T) /\ g[x] \in Int /\ g[x] = 0
    BY FS_Subset DEF Whole
  <2>2. SumFunctionOnSet(g, T \cup {x}) = g[x] + SumFunctionOnSet(g, T)
    BY <1>2, <2>1, SumGains
  <2>3. QED
    BY <1>2, <2>1, <2>2
<1>3. S \in F
  <2> HIDE DEF F
  <2>1. QED
    BY <1>1, <1>2, SetInduction
<1>4. QED
  BY <1>3

LEMMA SumOpposite ==
    ASSUME NEW S, IsFiniteSet(S), NEW f, NEW g, Whole(g, S), \A x \in S : f[x] = -g[x]
    PROVE  SumFunctionOnSet(f, S) = -SumFunctionOnSet(g, S)
<1> DEFINE none == [x \in S |-> 0]
<1>1. \A x \in S : none[x] = 0 /\ none[x] = f[x] + g[x] /\ g[x] \in Int /\ f[x] \in Int
  BY DEF Whole
<1> HIDE DEF none
<1>2. Whole(f, S)
  BY <1>1 DEF Whole
<1>3. SumFunctionOnSet(none, S) = SumFunctionOnSet(f, S) + SumFunctionOnSet(g, S)
  BY <1>1, <1>2, SumAdds
<1>4. SumFunctionOnSet(none, S) = 0
  BY <1>1, SumOfZeros
<1>5. SumFunctionOnSet(f, S) \in Int /\ SumFunctionOnSet(g, S) \in Int
  BY <1>2, SumOfSubset
<1>6. QED
  BY <1>3, <1>4, <1>5

\* The sum over disjoint parts is the sum of the parts' sums.
LEMMA SumOfParts ==
    ASSUME NEW S, IsFiniteSet(S), NEW g, NEW part, NEW net,
           \A x \in S : /\ IsFiniteSet(part[x]) /\ Whole(g, part[x])
                        /\ net[x] = SumFunctionOnSet(g, part[x]),
           \A x, y \in S : x # y => part[x] \cap part[y] = {}
    PROVE  SumFunctionOnSet(net, S) = SumFunctionOnSet(g, UNION {part[x] : x \in S})
<1> DEFINE U(T) == UNION {part[x] : x \in T}
           F == {T \in SUBSET S :
                   /\ IsFiniteSet(U(T)) /\ Whole(g, U(T))
                   /\ SumFunctionOnSet(net, T) = SumFunctionOnSet(g, U(T))}
<1>1. {} \in F
  <2>1. U({}) = {}
    OBVIOUS
  <2>2. IsFiniteSet({}) /\ Whole(g, {}) /\ {} \in SUBSET S
    BY FS_EmptySet DEF Whole
  <2>3. SumFunctionOnSet(net, {}) = 0 /\ SumFunctionOnSet(g, {}) = 0
    BY SumOfNone
  <2> HIDE DEF U
  <2>4. QED
    BY <2>1, <2>2, <2>3
<1>2. ASSUME NEW T \in SUBSET S, NEW x \in S, T \in F, x \notin T PROVE T \cup {x} \in F
  <2>1. U(T \cup {x}) = U(T) \cup part[x]
    OBVIOUS
  <2>2. U(T) \cap part[x] = {}
    BY <1>2
  <2> HIDE DEF U
  <2>3. /\ IsFiniteSet(U(T)) /\ Whole(g, U(T)) /\ IsFiniteSet(part[x]) /\ Whole(g, part[x])
        /\ SumFunctionOnSet(net, T) = SumFunctionOnSet(g, U(T))
        /\ net[x] = SumFunctionOnSet(g, part[x])
    BY <1>2
  <2> HIDE DEF F
  <2>4. SumFunctionOnSet(g, U(T) \cup part[x])
        = SumFunctionOnSet(g, U(T)) + SumFunctionOnSet(g, part[x])
    BY <2>2, <2>3, SumOfUnion
  <2>5. /\ part[x] \in SUBSET part[x] /\ U(T) \in SUBSET U(T)
        /\ \A y \in S : part[y] \in SUBSET part[y]
    OBVIOUS
  <2>6. SumFunctionOnSet(g, part[x]) \in Int /\ SumFunctionOnSet(g, U(T)) \in Int
    BY <2>3, <2>5, SumOfSubset
  <2>7. Whole(net, T)
    <3>1. \A y \in S : SumFunctionOnSet(g, part[y]) \in Int
      BY <2>5, SumOfSubset
    <3>2. QED
      BY <3>1 DEF Whole
  <2>8. IsFiniteSet(T)
    BY FS_Subset
  <2>9. SumFunctionOnSet(net, T \cup {x}) = net[x] + SumFunctionOnSet(net, T)
    BY <1>2, <2>3, <2>6, <2>7, <2>8, SumGains
  <2>10. IsFiniteSet(U(T) \cup part[x]) /\ Whole(g, U(T) \cup part[x])
    BY <2>3, FS_Union DEF Whole
  <2>11. SumFunctionOnSet(net, T \cup {x}) = SumFunctionOnSet(g, U(T \cup {x}))
    <3>1. SumFunctionOnSet(net, T \cup {x})
          = SumFunctionOnSet(g, part[x]) + SumFunctionOnSet(g, U(T))
      BY <2>3, <2>9
    <3>2. SumFunctionOnSet(net, T \cup {x}) = SumFunctionOnSet(g, U(T) \cup part[x])
      BY <2>4, <2>6, <3>1
    <3>3. QED
      BY <2>1, <3>2
  <2>12. T \cup {x} \in SUBSET S
    OBVIOUS
  <2>13. QED
    BY <2>1, <2>10, <2>11, <2>12 DEF F
<1>3. S \in F
  <2> HIDE DEF F
  <2>1. QED
    BY <1>1, <1>2, SetInduction
<1>4. QED
  BY <1>3

\* A sum is no larger than the sum of the sizes of its terms.
LEMMA SumWithin ==
    ASSUME NEW T, IsFiniteSet(T), NEW f, NEW g,
           \A i \in T : f[i] \in Int /\ g[i] \in Int /\ -g[i] <= f[i] /\ f[i] <= g[i]
    PROVE  SumFunctionOnSet(f, T) \in -SumFunctionOnSet(g, T)..SumFunctionOnSet(g, T)
<1> DEFINE F == {U \in SUBSET T :
                   /\ SumFunctionOnSet(f, U) \in Int /\ SumFunctionOnSet(g, U) \in Int
                   /\ -SumFunctionOnSet(g, U) <= SumFunctionOnSet(f, U)
                   /\ SumFunctionOnSet(f, U) <= SumFunctionOnSet(g, U)}
<1>1. {} \in F
  <2>1. SumFunctionOnSet(f, {}) = 0 /\ SumFunctionOnSet(g, {}) = 0
    BY SumOfNone
  <2>2. QED
    BY <2>1
<1>2. ASSUME NEW U \in SUBSET T, NEW x \in T, U \in F, x \notin U PROVE U \cup {x} \in F
  <2> DEFINE V == U \cup {x}
  <2>1. V \in SUBSET T /\ V \ {x} = U /\ x \in V
    BY <1>2
  <2>2. IsFiniteSet(V) /\ Whole(f, V) /\ Whole(g, V)
    <3>1. IsFiniteSet(V)
      BY <2>1, FS_Subset
    <3>2. QED
      BY <2>1, <3>1 DEF Whole
  <2> HIDE DEF V
  <2>3. /\ SumFunctionOnSet(f, V) = f[x] + SumFunctionOnSet(f, U)
        /\ SumFunctionOnSet(g, V) = g[x] + SumFunctionOnSet(g, U)
    BY <2>1, <2>2, SumTakes
  <2>4. V \in F
    BY <1>2, <2>1, <2>3
  <2>5. QED
    BY <2>4 DEF V
<1>3. T \in F
  <2> HIDE DEF F
  <2>1. QED
    BY <1>1, <1>2, SetInduction
<1>4. QED
  BY <1>3

\* The numbers up to n, one after the other.
LEMMA CountsUpTo ==
    ASSUME NEW n \in Nat, NEW K, 0 \in K, \A k \in Nat : k < n /\ k \in K => k + 1 \in K
    PROVE  \A k \in 0..n : k \in K
<1> DEFINE J == {k \in Nat : k <= n => k \in K}
<1>1. 0 \in J
  OBVIOUS
<1>2. ASSUME NEW k \in Nat, k \in J PROVE k + 1 \in J
  <2>1. k + 1 <= n => k < n /\ k <= n
    OBVIOUS
  <2>2. k + 1 <= n => k + 1 \in K
    BY <1>2, <2>1
  <2>3. QED
    BY <2>2
<1>3. \A k \in Nat : k \in J => k + 1 \in J
  BY <1>2
<1>4. \A k \in Nat : k \in J
  <2> HIDE DEF J
  <2>1. QED
    BY ONLY <1>1, <1>3, Induction
<1>5. QED
  BY <1>4

\* Fractions are compared by their products, a/p at most b/q for a * q at most
\* b * p.
Positive == Nat \ {0}

LEMMA Steeper ==
    ASSUME NEW a \in Int, NEW b \in Int, NEW c \in Int,
           NEW p \in Positive, NEW q \in Positive, NEW r \in Positive,
           a * q <= b * p, b * r <= c * q
    PROVE  a * r <= c * p
<1>1. p \in Nat /\ q \in Nat /\ r \in Nat /\ q > 0
  BY DEF Positive
<1>2. a * q \in Int /\ b * p \in Int /\ b * r \in Int /\ c * q \in Int /\ a * r \in Int /\ c * p \in Int
  BY <1>1
<1>3. (a * q) * r <= (b * p) * r
  BY <1>1, <1>2, Times
<1>4. (b * r) * p <= (c * q) * p
  BY <1>1, <1>2, Times
<1>5. (b * p) * r = (b * r) * p /\ (a * q) * r = (a * r) * q /\ (c * q) * p = (c * p) * q
  BY <1>1, Z3
<1>6. /\ (b * p) * r \in Int /\ (a * q) * r \in Int /\ (c * q) * p \in Int
  BY <1>1, <1>2
<1>7. (a * r) * q <= (c * p) * q
  BY <1>3, <1>4, <1>5, <1>6
<1>8. QED
  BY <1>1, <1>2, <1>7, Times

\* a/p at most b/q and b/q at most c/r make a/p at most c/r.
SteeperBy(a, b, c, p, q, r) == a * q <= b * p /\ b * r <= c * q => a * r <= c * p

LEMMA SteeperThan ==
    \A a, b, c \in Int, p, q, r \in Positive : SteeperBy(a, b, c, p, q, r)
BY Steeper DEF SteeperBy

=============================================================================
