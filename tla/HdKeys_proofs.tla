---------------------------- MODULE HdKeys_proofs ----------------------------
(***************************************************************************)
(* Facts about sorting public keys (HdKeys): a sorted arrangement exists,  *)
(* is unique, and does not depend on the order the keys were given in,     *)
(* with repeated keys too.  A set of points and its order are parameters,  *)
(* so that the modules that sort can use the facts for the points they     *)
(* sort.                                                                   *)
(***************************************************************************)
EXTENDS HdKeys, FunctionTheorems, FiniteSetTheorems, SequenceTheorems, TLAPS

(* A permutation is a bijection of the positions.                          *)
LEMMA OrdersBijective ==
  ASSUME NEW n \in Nat, NEW p \in Orders(n)
  PROVE  /\ p \in [1 .. n -> 1 .. n]
         /\ \A k \in 1 .. n : p[k] \in 1 .. n
         /\ \A j, k \in 1 .. n : p[j] = p[k] => j = k
         /\ \A k \in 1 .. n : \E j \in 1 .. n : p[j] = k
<1>1. p \in [1 .. n -> 1 .. n] /\ \A j, k \in 1 .. n : p[j] = p[k] => j = k
  BY DEF Orders, IsInjective
<1>2. p \in Injection(1 .. n, 1 .. n)
  BY <1>1, Fun_IsInj
<1>3. IsFiniteSet(1 .. n)
  BY FS_Interval
<1>4. p \in Surjection(1 .. n, 1 .. n)
  BY <1>2, <1>3, FS_Injection
<1>5. \A k \in 1 .. n : \E j \in 1 .. n : p[j] = k
  BY <1>4 DEF Surjection
<1> QED
  BY <1>1, <1>5

(* Every permutation can be undone.                                        *)
LEMMA OrdersInverse ==
  ASSUME NEW n \in Nat, NEW p \in Orders(n)
  PROVE  \E r \in Orders(n) : \A k \in 1 .. n : r[p[k]] = k /\ p[r[k]] = k
<1> DEFINE r == [k \in 1 .. n |-> CHOOSE j \in 1 .. n : p[j] = k]
<1>1. /\ p \in [1 .. n -> 1 .. n]
      /\ \A j, k \in 1 .. n : p[j] = p[k] => j = k
      /\ \A k \in 1 .. n : \E j \in 1 .. n : p[j] = k
  BY OrdersBijective
<1>2. \A k \in 1 .. n : r[k] \in 1 .. n /\ p[r[k]] = k
  BY <1>1
<1>3. \A k \in 1 .. n : r[p[k]] = k
  BY <1>1, <1>2
<1>4. r \in Orders(n)
  BY <1>2 DEF Orders, IsInjective
<1>5. \A k \in 1 .. n : r[p[k]] = k /\ p[r[k]] = k
  BY <1>2, <1>3
<1> HIDE DEF r
<1> QED
  BY <1>4, <1>5

(* One permutation after another is a permutation.                         *)
LEMMA OrdersCompose ==
  ASSUME NEW n \in Nat, NEW p \in Orders(n), NEW q \in Orders(n)
  PROVE  [k \in 1 .. n |-> p[q[k]]] \in Orders(n)
  BY OrdersBijective DEF Orders, IsInjective

(* An arrangement is a list of the same entries.                           *)
LEMMA ArrangedTyped ==
  ASSUME NEW S, NEW s \in Seq(S), NEW p \in Orders(Len(s))
  PROVE  /\ Arranged(s, p) \in Seq(S)
         /\ Len(Arranged(s, p)) = Len(s)
         /\ DOMAIN Arranged(s, p) = 1 .. Len(s)
         /\ \A k \in 1 .. Len(s) : p[k] \in 1 .. Len(s) /\ Arranged(s, p)[k] = s[p[k]]
         /\ Range(Arranged(s, p)) = Range(s)
<1>1. Len(s) \in Nat /\ DOMAIN s = 1 .. Len(s) /\ \A k \in 1 .. Len(s) : s[k] \in S
  BY LenProperties, ElementOfSeq
<1>2. /\ p \in [1 .. Len(s) -> 1 .. Len(s)]
      /\ \A k \in 1 .. Len(s) : \E j \in 1 .. Len(s) : p[j] = k
  <2> DEFINE n == Len(s)
  <2>1. n \in Nat /\ p \in Orders(n)
    BY <1>1
  <2> HIDE DEF n
  <2>2. /\ p \in [1 .. n -> 1 .. n]
        /\ \A k \in 1 .. n : \E j \in 1 .. n : p[j] = k
    BY <2>1, OrdersBijective
  <2> QED
    BY <2>2 DEF n
<1>3. Arranged(s, p) = [k \in 1 .. Len(s) |-> s[p[k]]]
  BY <1>1 DEF Arranged
<1>4. Arranged(s, p) \in [1 .. Len(s) -> S]
  BY <1>1, <1>2, <1>3
<1>5. Arranged(s, p) \in Seq(S)
  BY <1>1, <1>4, SeqDef
<1>6. DOMAIN Arranged(s, p) = 1 .. Len(s)
  BY <1>4
<1>7. Len(Arranged(s, p)) = Len(s)
  BY <1>1, <1>5, <1>6, LenProperties
<1>8. Range(Arranged(s, p)) = Range(s)
  <2>1. \A x : x \in Range(Arranged(s, p)) <=> \E k \in 1 .. Len(s) : x = s[p[k]]
    BY <1>3 DEF Range
  <2>2. \A x : x \in Range(s) <=> \E k \in 1 .. Len(s) : x = s[k]
    BY <1>1 DEF Range
  <2>3. \A x : x \in Range(Arranged(s, p)) <=> x \in Range(s)
    BY <1>2, <2>1, <2>2
  <2> QED
    BY <2>3
<1> QED
  BY <1>2, <1>3, <1>5, <1>6, <1>7, <1>8

-----------------------------------------------------------------------------
(* A sorted arrangement exists.                                            *)

StrictOrder(R, set) ==
  \A i, j, k \in set :
    /\ <<i, i>> \notin R
    /\ i = j \/ <<i, j>> \in R \/ <<j, i>> \in R
    /\ <<i, j>> \in R /\ <<j, k>> \in R => <<i, k>> \in R

(* Positions can be numbered along any strict total order: the number of a *)
(* position is how many come before it.                                    *)
LEMMA NumberedAlong ==
  ASSUME NEW n \in Nat, NEW R, StrictOrder(R, 1 .. n)
  PROVE  \E p \in Orders(n) : \A j, k \in 1 .. n : j < k => <<p[k], p[j]>> \notin R
<1> DEFINE D == [i \in 1 .. n |-> {j \in 1 .. n : <<j, i>> \in R}]
<1>1. \A i, j \in 1 .. n :
        /\ D[i] \in SUBSET ((1 .. n) \ {i})
        /\ <<i, j>> \in R => D[i] \in SUBSET D[j] /\ i \in D[j] /\ i \notin D[i]
  BY DEF StrictOrder
<1> HIDE DEF D
<1>2. \A i \in 1 .. n : IsFiniteSet(D[i]) /\ Cardinality(D[i]) \in 0 .. (n - 1)
  <2> TAKE i \in 1 .. n
  <2> DEFINE others == (1 .. n) \ {i}
  <2>1. IsFiniteSet(1 .. n) /\ Cardinality(1 .. n) = n
    BY FS_Interval
  <2>2. IsFiniteSet(others) /\ Cardinality(others) = n - 1
    BY <2>1, FS_RemoveElement
  <2>3. D[i] \in SUBSET others
    BY <1>1
  <2> HIDE DEF others
  <2>4. IsFiniteSet(D[i]) /\ Cardinality(D[i]) <= n - 1
    BY <2>2, <2>3, FS_Subset
  <2>5. Cardinality(D[i]) \in Nat
    BY <2>4, FS_CardinalityType
  <2> QED
    BY <2>4, <2>5
<1> DEFINE rank == [i \in 1 .. n |-> Cardinality(D[i]) + 1]
<1>3. \A i \in 1 .. n : rank[i] = Cardinality(D[i]) + 1 /\ rank[i] \in 1 .. n
  BY <1>2
<1> HIDE DEF rank
<1>4. \A i, j \in 1 .. n : <<i, j>> \in R => rank[i] < rank[j]
  <2> SUFFICES ASSUME NEW i \in 1 .. n, NEW j \in 1 .. n, <<i, j>> \in R
               PROVE  rank[i] < rank[j]
    OBVIOUS
  <2>1. D[i] \in SUBSET D[j] /\ D[i] # D[j]
    BY <1>1
  <2>2. IsFiniteSet(D[j]) /\ Cardinality(D[i]) \in Int /\ Cardinality(D[j]) \in Int
    BY <1>2
  <2>3. Cardinality(D[i]) <= Cardinality(D[j]) /\ Cardinality(D[j]) # Cardinality(D[i])
    BY <2>1, <2>2, FS_Subset
  <2> QED
    BY <1>3, <2>2, <2>3
<1>5. \A i, j \in 1 .. n : rank[i] = rank[j] => i = j
  <2> SUFFICES ASSUME NEW i \in 1 .. n, NEW j \in 1 .. n, rank[i] = rank[j], i # j
               PROVE  FALSE
    OBVIOUS
  <2>1. <<i, j>> \in R \/ <<j, i>> \in R
    BY DEF StrictOrder
  <2>2. rank[i] < rank[j] \/ rank[j] < rank[i]
    BY <1>4, <2>1
  <2>3. rank[i] \in Int
    BY <1>3
  <2> QED
    BY <2>2, <2>3
<1>6. rank \in [1 .. n -> 1 .. n]
  BY <1>3 DEF rank
<1>7. rank \in Orders(n)
  BY <1>5, <1>6 DEF Orders, IsInjective
<1>8. PICK r \in Orders(n) : \A k \in 1 .. n : r[rank[k]] = k /\ rank[r[k]] = k
  BY <1>7, OrdersInverse
<1>9. \A k \in 1 .. n : r[k] \in 1 .. n
  BY OrdersBijective
<1>10. ASSUME NEW j \in 1 .. n, NEW k \in 1 .. n, j < k, <<r[k], r[j]>> \in R
       PROVE  FALSE
  <2>1. rank[r[k]] < rank[r[j]]
    BY <1>4, <1>9, <1>10
  <2> QED
    BY <1>8, <1>10, <2>1
<1> QED
  BY <1>10

(* A list of ordered points has a sorted arrangement: equal points keep    *)
(* their order.                                                            *)
LEMMA SortingOrderExists ==
  ASSUME NEW S, Ordered(S), NEW s \in Seq(S)
  PROVE  \E p \in Orders(Len(s)) : Ascending(Arranged(s, p))
<1> DEFINE n == Len(s)
           R == {e \in (1 .. n) \X (1 .. n) :
                   Before(s[e[1]], s[e[2]]) \/ (s[e[1]] = s[e[2]] /\ e[1] < e[2])}
<1>1. n \in Nat /\ DOMAIN s = 1 .. n /\ \A k \in 1 .. n : s[k] \in S
  BY LenProperties, ElementOfSeq
<1>2. \A i, j \in 1 .. n :
        <<i, j>> \in R <=> Before(s[i], s[j]) \/ (s[i] = s[j] /\ i < j)
  OBVIOUS
<1> HIDE DEF R, n
<1>3. StrictOrder(R, 1 .. n)
  <2> SUFFICES ASSUME NEW i \in 1 .. n, NEW j \in 1 .. n, NEW k \in 1 .. n
               PROVE  /\ <<i, i>> \notin R
                      /\ i = j \/ <<i, j>> \in R \/ <<j, i>> \in R
                      /\ <<i, j>> \in R /\ <<j, k>> \in R => <<i, k>> \in R
    BY DEF StrictOrder
  <2>1. s[i] \in S /\ s[j] \in S /\ s[k] \in S
    BY <1>1
  <2>2. /\ ~Before(s[i], s[i])
        /\ s[i] = s[j] \/ Before(s[i], s[j]) \/ Before(s[j], s[i])
        /\ Before(s[i], s[j]) /\ Before(s[j], s[k]) => Before(s[i], s[k])
    BY <2>1 DEF Ordered
  <2>3. i \in Int /\ j \in Int /\ k \in Int
    BY <1>1
  <2> QED
    BY <1>2, <2>2, <2>3
<1>4. PICK p \in Orders(n) : \A j, k \in 1 .. n : j < k => <<p[k], p[j]>> \notin R
  BY <1>1, <1>3, NumberedAlong
<1>5. \A k \in 1 .. n : p[k] \in 1 .. n
  BY <1>1, OrdersBijective
<1>6. \A j, k \in 1 .. n : j < k => ~Before(s[p[k]], s[p[j]])
  BY <1>2, <1>4, <1>5
<1>7. Arranged(s, p) = [k \in 1 .. n |-> s[p[k]]]
  BY <1>1 DEF Arranged
<1>8. Ascending(Arranged(s, p))
  BY <1>6, <1>7 DEF Ascending
<1> QED
  BY <1>8 DEF n

(* What Sorted() returns.                                                  *)
LEMMA SortedSorts ==
  ASSUME NEW S, Ordered(S), NEW s \in Seq(S)
  PROVE  /\ InOrder(s) \in Orders(Len(s))
         /\ Ascending(Sorted(s))
  BY SortingOrderExists DEF InOrder, Sorted

-----------------------------------------------------------------------------
(* It is the only one.                                                     *)

(* Where a list and a rearrangement of it both ascend, the rearrangement   *)
(* has nowhere a smaller point: there are not enough smaller ones for the  *)
(* places up to there.                                                     *)
LEMMA NowhereSmaller ==
  ASSUME NEW n \in Nat, NEW S, Ordered(S), NEW a \in [1 .. n -> S],
         NEW r \in Orders(n), NEW b \in [1 .. n -> S],
         \A k \in 1 .. n : b[k] = a[r[k]],
         Ascending(a), Ascending(b), NEW k \in 1 .. n
  PROVE  ~Before(b[k], a[k])
<1> SUFFICES ASSUME Before(b[k], a[k]) PROVE FALSE
  OBVIOUS
<1>1. /\ \A j \in 1 .. n : r[j] \in 1 .. n
      /\ \A i, j \in 1 .. n : r[i] = r[j] => i = j
  BY OrdersBijective, Zenon
<1>2. /\ \A i, j \in 1 .. n : i < j => ~Before(a[j], a[i])
      /\ \A i, j \in 1 .. n : i < j => ~Before(b[j], b[i])
  BY DEF Ascending
<1>3. ASSUME NEW j \in 1 .. k PROVE r[j] \in 1 .. (k - 1)
  <2>1. j \in 1 .. n /\ r[j] \in 1 .. n /\ k \in 1 .. n
    BY <1>1
  <2>2. b[j] \in S /\ b[k] \in S /\ a[k] \in S /\ b[j] = a[r[j]]
    BY <2>1
  <2>3. j = k \/ ~Before(b[k], b[j])
    BY <1>2, <2>1
  <2>4. b[j] = b[k] \/ Before(b[j], b[k])
    BY <2>2, <2>3 DEF Ordered
  <2>5. Before(b[j], a[k])
    BY <2>2, <2>4 DEF Ordered
  <2>6. r[j] # k
    BY <2>2, <2>5 DEF Ordered
  <2>7. ~(k < r[j])
    BY <1>2, <2>1, <2>2, <2>5
  <2> QED
    BY <2>1, <2>6, <2>7
<1> DEFINE f == [j \in 1 .. k |-> r[j]]
<1>4. f \in [1 .. k -> 1 .. (k - 1)]
  BY <1>3
<1>5. /\ IsFiniteSet(1 .. k) /\ Cardinality(1 .. k) = k
      /\ IsFiniteSet(1 .. (k - 1)) /\ Cardinality(1 .. (k - 1)) = k - 1
  BY FS_Interval
<1>6. \A i, j \in 1 .. k : f[i] = f[j] => i = j
  BY <1>1
<1> HIDE DEF f
<1>7. \E i, j \in 1 .. k : i # j /\ f[i] = f[j]
  <2> DEFINE A == 1 .. k
             B == 1 .. (k - 1)
  <2>1. IsFiniteSet(A) /\ IsFiniteSet(B) /\ Cardinality(B) < Cardinality(A) /\ f \in [A -> B]
    BY <1>4, <1>5
  <2> HIDE DEF A, B
  <2>2. \E i, j \in A : i # j /\ f[i] = f[j]
    BY <2>1, FS_PigeonHole
  <2> QED
    BY <2>2 DEF A
<1> QED
  BY <1>6, <1>7

(* A sorted list has one sorted arrangement: itself.                       *)
LEMMA SortedUnique ==
  ASSUME NEW S, Ordered(S), NEW s \in Seq(S), NEW q \in Orders(Len(s)),
         Ascending(s), Ascending(Arranged(s, q))
  PROVE  Arranged(s, q) = s
<1> DEFINE n == Len(s)
           t == Arranged(s, q)
<1>1. n \in Nat /\ s \in [1 .. n -> S]
  BY LenProperties
<1>2. t \in Seq(S) /\ Len(t) = n /\ \A k \in 1 .. n : q[k] \in 1 .. n /\ t[k] = s[q[k]]
  BY ArrangedTyped
<1>3. t \in [1 .. n -> S]
  BY <1>2, LenProperties
<1>4. q \in Orders(n) /\ Ascending(t)
  OBVIOUS
<1> HIDE DEF n, t
<1>5. PICK u \in Orders(n) : \A k \in 1 .. n : u[q[k]] = k /\ q[u[k]] = k
  BY <1>1, <1>4, OrdersInverse
<1>6. \A k \in 1 .. n : u[k] \in 1 .. n
  BY <1>1, OrdersBijective
<1>7. \A k \in 1 .. n : s[k] = t[u[k]]
  BY <1>2, <1>5, <1>6
<1>8. \A k \in 1 .. n : ~Before(t[k], s[k])
  BY <1>1, <1>2, <1>3, <1>4, NowhereSmaller
<1>9. \A k \in 1 .. n : ~Before(s[k], t[k])
  BY <1>1, <1>3, <1>4, <1>7, NowhereSmaller
<1>10. \A k \in 1 .. n : t[k] = s[k]
  BY <1>1, <1>3, <1>8, <1>9 DEF Ordered
<1> QED
  BY <1>1, <1>3, <1>10 DEF t

(* An arrangement of an arrangement is an arrangement.                     *)
LEMMA ArrangedTwice ==
  ASSUME NEW S, NEW s \in Seq(S), NEW p \in Orders(Len(s)), NEW q \in Orders(Len(s))
  PROVE  Arranged(Arranged(s, p), q) = Arranged(s, [k \in 1 .. Len(s) |-> p[q[k]]])
<1>1. Len(s) \in Nat /\ DOMAIN s = 1 .. Len(s)
  BY LenProperties
<1>2. DOMAIN Arranged(s, p) = 1 .. Len(s)
  BY ArrangedTyped
<1>3. \A k \in 1 .. Len(s) : q[k] \in 1 .. Len(s)
  <2> DEFINE n == Len(s)
  <2>1. n \in Nat /\ q \in Orders(n)
    BY <1>1
  <2> HIDE DEF n
  <2>2. \A k \in 1 .. n : q[k] \in 1 .. n
    BY <2>1, OrdersBijective
  <2> QED
    BY <2>2 DEF n
<1> QED
  BY <1>1, <1>2, <1>3 DEF Arranged

(* The sorted list does not depend on the order the points came in.        *)
LEMMA SortedOfArranged ==
  ASSUME NEW S, Ordered(S), NEW s \in Seq(S), NEW q \in Orders(Len(s))
  PROVE  Sorted(Arranged(s, q)) = Sorted(s)
<1> DEFINE n == Len(s)
           t == Arranged(s, q)
           p1 == InOrder(s)
           p2 == InOrder(t)
<1>1. n \in Nat /\ q \in Orders(n) /\ DOMAIN s = 1 .. n
  BY LenProperties
<1>2. t \in Seq(S) /\ Len(t) = n /\ \A k \in 1 .. n : t[k] = s[q[k]]
  BY ArrangedTyped
<1>3. p1 \in Orders(n) /\ Ascending(Arranged(s, p1))
  BY SortedSorts DEF Sorted
<1>4. p2 \in Orders(n) /\ Ascending(Arranged(t, p2))
  BY <1>2, SortedSorts DEF Sorted
<1> HIDE DEF p1, p2
<1> DEFINE x == Arranged(s, p1)
           y == Arranged(t, p2)
<1>5. x \in Seq(S) /\ Len(x) = n
  BY <1>3, ArrangedTyped
<1>6. PICK u \in Orders(n) : \A k \in 1 .. n : u[p1[k]] = k /\ p1[u[k]] = k
  <2> HIDE DEF n
  <2> QED
    BY <1>1, <1>3, OrdersInverse
<1> DEFINE v == [k \in 1 .. n |-> q[p2[k]]]
           w == [k \in 1 .. n |-> u[v[k]]]
<1>7. v \in Orders(n) /\ w \in Orders(n)
  <2> HIDE DEF n
  <2>1. v \in Orders(n)
    BY <1>1, <1>4, OrdersCompose
  <2> HIDE DEF v
  <2> QED
    BY <1>1, <1>6, <2>1, OrdersCompose
<1>8. y = Arranged(s, v)
  BY <1>1, <1>4, ArrangedTwice
<1>9. Arranged(x, w) = Arranged(s, [k \in 1 .. n |-> p1[w[k]]])
  BY <1>3, <1>7, ArrangedTwice
<1>10. \A k \in 1 .. n : p1[w[k]] = v[k]
  <2> HIDE DEF n
  <2> HIDE DEF v
  <2>1. \A k \in 1 .. n : v[k] \in 1 .. n
    BY <1>1, <1>7, OrdersBijective
  <2> QED
    BY <1>6, <2>1
<1>11. v = [k \in 1 .. n |-> p1[w[k]]]
  BY <1>10
<1>12. y = Arranged(x, w)
  BY <1>8, <1>9, <1>11
<1> HIDE DEF x, y, w, n
<1>13. Arranged(x, w) = x
  <2>1. w \in Orders(Len(x)) /\ Ascending(x) /\ Ascending(Arranged(x, w)) /\ x \in Seq(S)
    BY <1>3, <1>4, <1>5, <1>7, <1>12 DEF x, y
  <2> QED
    BY <2>1, SortedUnique
<1>14. y = x
  BY <1>12, <1>13
<1> QED
  BY <1>14 DEF x, y, p1, p2, Sorted

-----------------------------------------------------------------------------
(* Sorted lists of sets.                                                   *)

(* Sorting different points lists the set of them.                         *)
LEMMA SortedLists ==
  ASSUME NEW S, Ordered(S), NEW s \in Seq(S), IsInjective(s)
  PROVE  /\ Sorted(s) \in Seq(S)
         /\ Len(Sorted(s)) = Len(s)
         /\ Lists(Sorted(s), Range(s))
<1> DEFINE n == Len(s)
           p == InOrder(s)
           a == Sorted(s)
<1>1. n \in Nat /\ DOMAIN s = 1 .. n
  BY LenProperties
<1>2. p \in Orders(n) /\ Ascending(a)
  BY SortedSorts
<1>3. /\ a \in Seq(S) /\ Len(a) = n /\ Range(a) = Range(s) /\ DOMAIN a = 1 .. n
      /\ \A k \in 1 .. n : p[k] \in 1 .. n /\ a[k] = s[p[k]]
  BY <1>2, ArrangedTyped DEF Sorted
<1>4. \A k \in 1 .. n : a[k] \in S
  BY <1>3, ElementOfSeq
<1> HIDE DEF p, n, a
<1>5. \A j, k \in 1 .. n : p[j] = p[k] => j = k
  BY <1>1, <1>2, OrdersBijective
<1>6. \A j, k \in 1 .. n : a[j] = a[k] => j = k
  BY <1>1, <1>3, <1>5 DEF IsInjective
<1>7. \A j, k \in 1 .. n : j < k => Before(a[j], a[k])
  <2> SUFFICES ASSUME NEW j \in 1 .. n, NEW k \in 1 .. n, j < k
               PROVE  Before(a[j], a[k])
    OBVIOUS
  <2>1. ~Before(a[k], a[j])
    BY <1>2, <1>3 DEF Ascending
  <2>2. a[j] # a[k]
    BY <1>1, <1>6
  <2> QED
    BY <1>4, <2>1, <2>2 DEF Ordered
<1>8. Lists(a, Range(s))
  BY <1>3, <1>7 DEF Lists
<1> QED
  BY <1>3, <1>8 DEF a, n

(* A strictly ascending list has no entry twice, and ascends.              *)
LEMMA ListsInjective ==
  ASSUME NEW S, Ordered(S), NEW T, NEW s \in Seq(S), Lists(s, T)
  PROVE  /\ \A j, k \in 1 .. Len(s) : s[j] = s[k] => j = k
         /\ Ascending(s)
         /\ IsInjective(s)
<1>1. Len(s) \in Nat /\ DOMAIN s = 1 .. Len(s) /\ \A k \in 1 .. Len(s) : s[k] \in S
  BY LenProperties, ElementOfSeq
<1>2. \A j, k \in 1 .. Len(s) : j < k => Before(s[j], s[k])
  BY <1>1 DEF Lists
<1>3. \A j, k \in 1 .. Len(s) : j < k => s[j] # s[k] /\ ~Before(s[k], s[j])
  <2> SUFFICES ASSUME NEW j \in 1 .. Len(s), NEW k \in 1 .. Len(s), j < k
               PROVE  s[j] # s[k] /\ ~Before(s[k], s[j])
    OBVIOUS
  <2>1. Before(s[j], s[k]) /\ s[j] \in S /\ s[k] \in S
    BY <1>1, <1>2
  <2> QED
    BY <2>1 DEF Ordered
<1>4. \A j, k \in 1 .. Len(s) : s[j] = s[k] => j = k
  <2> SUFFICES ASSUME NEW j \in 1 .. Len(s), NEW k \in 1 .. Len(s), j # k
               PROVE  s[j] # s[k]
    OBVIOUS
  <2>1. j < k \/ k < j
    BY <1>1
  <2> QED
    BY <1>3, <2>1
<1> QED
  BY <1>1, <1>3, <1>4 DEF Ascending, IsInjective

(* A list without repetitions is as long as the set of its entries.        *)
LEMMA InjectiveIff ==
  ASSUME NEW S, NEW s \in Seq(S)
  PROVE  /\ IsFiniteSet(Range(s)) /\ Cardinality(Range(s)) \in Nat
         /\ IsInjective(s) <=> Cardinality(Range(s)) = Len(s)
<1> DEFINE A == 1 .. Len(s)
           B == Range(s)
<1>1. Len(s) \in Nat /\ s \in [A -> S] /\ DOMAIN s = A
  BY LenProperties
<1>2. IsFiniteSet(A) /\ Cardinality(A) = Len(s)
  BY <1>1, FS_Interval
<1>3. \A x : x \in B <=> \E k \in A : x = s[k]
  BY <1>1 DEF Range
<1> HIDE DEF A, B
<1>4. s \in [A -> B]
  BY <1>1, <1>3
<1>5. s \in Surjection(A, B)
  BY <1>3, <1>4 DEF Surjection
<1>6. s \in Injection(A, B) <=> IsInjective(s)
  BY <1>1, <1>4 DEF Injection, IsInjective
<1>7. IsFiniteSet(B) /\ (Cardinality(B) = Cardinality(A) <=> s \in Injection(A, B))
  BY <1>2, <1>5, FS_Surjection
<1>8. Cardinality(B) \in Nat
  BY <1>7, FS_CardinalityType
<1> QED
  BY <1>2, <1>6, <1>7, <1>8 DEF B

(* A set has one sorted list.                                              *)
LEMMA ListedOnce ==
  ASSUME NEW S, Ordered(S), NEW T, NEW s \in Seq(S), NEW t \in Seq(S),
         Lists(s, T), Lists(t, T)
  PROVE  s = t
<1> DEFINE n == Len(s)
<1>1. /\ n \in Nat /\ s \in [1 .. n -> S] /\ DOMAIN s = 1 .. n
      /\ \A j, k \in 1 .. n : s[j] = s[k] => j = k
      /\ Ascending(s) /\ IsInjective(s) /\ Range(s) = T
  BY LenProperties, ListsInjective DEF Lists
<1>2. /\ Len(t) \in Nat /\ t \in [1 .. Len(t) -> S] /\ DOMAIN t = 1 .. Len(t)
      /\ \A j, k \in 1 .. Len(t) : t[j] = t[k] => j = k
      /\ Ascending(t) /\ IsInjective(t) /\ Range(t) = T
  BY LenProperties, ListsInjective DEF Lists
<1>3. Len(t) = n
  BY <1>1, <1>2, InjectiveIff
<1> DEFINE q == [k \in 1 .. n |-> CHOOSE j \in 1 .. n : s[j] = t[k]]
<1>4. \A k \in 1 .. n : \E j \in 1 .. n : s[j] = t[k]
  BY <1>1, <1>2, <1>3 DEF Range
<1>5. \A k \in 1 .. n : q[k] \in 1 .. n /\ s[q[k]] = t[k]
  BY <1>4
<1>6. q \in [1 .. n -> 1 .. n]
  BY <1>5
<1> HIDE DEF q
<1>7. \A j, k \in 1 .. n : q[j] = q[k] => j = k
  BY <1>2, <1>3, <1>5
<1>8. q \in Orders(n)
  BY <1>6, <1>7 DEF Orders, IsInjective
<1>9. t = Arranged(s, q)
  BY <1>1, <1>2, <1>3, <1>5 DEF Arranged
<1> QED
  BY <1>1, <1>2, <1>8, <1>9, SortedUnique

-----------------------------------------------------------------------------
(* What is appended comes last and leaves the others in their places.      *)
LEMMA Appended ==
  ASSUME NEW s, \E S : s \in Seq(S), NEW x
  PROVE  /\ \E S : Append(s, x) \in Seq(S)
         /\ Len(s) \in Nat /\ Len(Append(s, x)) = Len(s) + 1
         /\ \A k \in 1 .. Len(s) : Append(s, x)[k] = s[k]
         /\ Append(s, x)[Len(s) + 1] = x
<1>1. PICK S : s \in Seq(S)
  OBVIOUS
<1> DEFINE T == S \union {x}
<1>2. s \in Seq(T) /\ x \in T
  BY <1>1, SeqMonotonic
<1> HIDE DEF T
<1>3. Append(s, x) \in Seq(T)
  BY <1>2, AppendProperties
<1> QED
  BY <1>2, <1>3, AppendProperties, LenProperties

(* A key whose depth is a byte has a leaf exactly within the limits of     *)
(* BIP32: the guards of two calls of child() are those of the two steps.   *)
LEMMA LeafLimits ==
  ASSUME NEW key, DepthFits(key), NEW change \in Nat, NEW index \in Nat
  PROVE  HasLeaf(key, change, index) <=> WithinLimits(key, change, index)
<1> DEFINE child == Child(key, change)
<1>1. {"depth", "point"} \subseteq DOMAIN key /\ key.depth \in 0 .. MaxDepth
  BY DEF DepthFits
<1>2. /\ child.depth = key.depth + 1
      /\ child.point = Point(key.point.seed, Append(key.point.path, change))
  BY <1>1 DEF Child
<1>3. key.depth # MaxDepth /\ key.depth + 1 # MaxDepth <=> key.depth + 2 <= MaxDepth
  BY <1>1, KeyAssumption
<1>4. \A i \in Nat : i < Hardened <=> i \in 0 .. (Hardened - 1)
  BY KeyAssumption
<1> HIDE DEF child
<1> QED
  BY <1>2, <1>3, <1>4 DEF HasLeaf, HasChild, WithinLimits, child
=============================================================================
