--------------------------- MODULE DocumentProofs ---------------------------
(***************************************************************************)
(* What rankings and documents promise for every input, proved: a ranking  *)
(* depends on the set of its candidates only, a snapshot reloads exactly   *)
(* when its documents are canonical, and a capability set answers for the  *)
(* records it was given.  All of it rests on what sorting and searching    *)
(* do, proved first.                                                       *)
(*                                                                         *)
(* DocumentsSpec asks about any input of its type, where MCFunctions       *)
(* enumerates some.                                                        *)
(***************************************************************************)
EXTENDS RankingCases, DocumentCases, FiniteSetTheorems, TLAPS

-----------------------------------------------------------------------------
(* Sorting.                                                                *)

(* A set of natural numbers that is not empty has a least one.             *)
LEMMA Least ==
  ASSUME NEW T \in SUBSET Nat, T # {}
  PROVE  \E x \in T : \A y \in T : x <= y
<1> DEFINE R == OpToRel(<, Nat)
<1>1. PICK x \in T : \A y \in T : ~(<<y, x>> \in R)
  <2>1. IsWellFoundedOn(R, Nat)
    BY NatLessThanWellFounded, Zenon
  <2> HIDE DEF R
  <2> QED BY <2>1, WFMin, Zenon
<1>2. \A y \in T : ~(y < x)
  BY <1>1, Zenon DEF OpToRel
<1> QED BY <1>2

(* A set of pairs that is a strict total order on S.                       *)
Orders(before, S) ==
  /\ \A x \in S : <<x, x>> \notin before
  /\ \A x, y, z \in S : <<x, y>> \in before /\ <<y, z>> \in before => <<x, z>> \in before
  /\ \A x, y \in S : x # y => <<x, y>> \in before \/ <<y, x>> \in before

Below(x, S, before) == {y \in S : <<y, x>> \in before}

(* The further an element is in the order, the more there are below it.    *)
LEMMA BelowGrows ==
  ASSUME NEW S, IsFiniteSet(S), NEW before, Orders(before, S)
  PROVE  /\ \A x \in S : Cardinality(Below(x, S, before)) \in 0..(Cardinality(S) - 1)
         /\ \A x, y \in S : <<x, y>> \in before =>
              Cardinality(Below(x, S, before)) < Cardinality(Below(y, S, before))
<1>1. ASSUME NEW x \in S
      PROVE  /\ IsFiniteSet(Below(x, S, before)) /\ Cardinality(Below(x, S, before)) \in Nat
             /\ Cardinality(Below(x, S, before)) < Cardinality(S)
  <2>1. Below(x, S, before) \in SUBSET S /\ Below(x, S, before) # S
    BY Zenon DEF Below, Orders
  <2> HIDE DEF Below
  <2>2. /\ IsFiniteSet(Below(x, S, before)) /\ Cardinality(Below(x, S, before)) <= Cardinality(S)
        /\ Cardinality(S) # Cardinality(Below(x, S, before))
    BY <2>1, FS_Subset
  <2>3. Cardinality(S) \in Nat /\ Cardinality(Below(x, S, before)) \in Nat
    BY <2>2, FS_CardinalityType
  <2> QED BY <2>2, <2>3
<1>2. Cardinality(S) \in Nat
  BY FS_CardinalityType
<1>3. ASSUME NEW x \in S, NEW y \in S, <<x, y>> \in before
      PROVE  Cardinality(Below(x, S, before)) < Cardinality(Below(y, S, before))
  <2>1. Below(x, S, before) \in SUBSET Below(y, S, before)
    BY <1>3 DEF Below, Orders
  <2>2. x \in Below(y, S, before) /\ x \notin Below(x, S, before)
    BY <1>3 DEF Below, Orders
  <2>3. /\ Cardinality(Below(x, S, before)) <= Cardinality(Below(y, S, before))
        /\ Cardinality(Below(y, S, before)) # Cardinality(Below(x, S, before))
    BY <2>1, <2>2, <1>1, FS_Subset
  <2> QED BY <2>3, <1>1
<1> QED BY <1>1, <1>2, <1>3

(* So that there is exactly one element for each number of elements below. *)
LEMMA OneForEachPlace ==
  ASSUME NEW S, IsFiniteSet(S), NEW before, Orders(before, S)
  PROVE  /\ \A x, y \in S : Cardinality(Below(x, S, before)) = Cardinality(Below(y, S, before)) => x = y
         /\ \A n \in 1..Cardinality(S) : \E x \in S : Cardinality(Below(x, S, before)) = n - 1
<1> DEFINE size(x) == Cardinality(Below(x, S, before))
           T == 0..(Cardinality(S) - 1)
           place == [x \in S |-> size(x)]
<1>0. Cardinality(S) \in Nat
  BY FS_CardinalityType
<1>1. /\ \A x \in S : size(x) \in T
      /\ \A x, y \in S : <<x, y>> \in before => size(x) < size(y)
  BY BelowGrows
<1> HIDE DEF size
<1>2. \A x, y \in S : size(x) = size(y) => x = y
  <2> SUFFICES ASSUME NEW x \in S, NEW y \in S, size(x) = size(y), x # y
               PROVE  FALSE
    BY Zenon
  <2>1. <<x, y>> \in before \/ <<y, x>> \in before
    BY DEF Orders
  <2> QED BY <2>1, <1>1, <1>0
<1>3. IsFiniteSet(T) /\ Cardinality(T) = Cardinality(S)
  BY <1>0, FS_Interval
<1>4. place \in Injection(S, T)
  <2>1. place \in [S -> T] /\ \A a, b \in S : place[a] = place[b] => a = b
    BY <1>1, <1>2
  <2> HIDE DEF place, T
  <2> QED BY <2>1 DEF Injection, IsInjective
<1>5. place \in Surjection(S, T)
  <2> HIDE DEF place, T
  <2> QED BY <1>3, <1>4, FS_Injection
<1>6. \A n \in T : \E x \in S : size(x) = n
  BY <1>5, Zenon DEF Surjection
<1>7. ASSUME NEW n \in 1..Cardinality(S)
      PROVE  \E x \in S : size(x) = n - 1
  <2>1. n - 1 \in T
    BY <1>0
  <2> QED BY <2>1, <1>6
<1> QED BY <1>2, <1>7 DEF size

(* InOrder lists the elements of a finite set, each once and in order.     *)
LEMMA InOrderLists ==
  ASSUME NEW S, IsFiniteSet(S), NEW before, Orders(before, S)
  PROVE  /\ Cardinality(S) \in Nat
         /\ InOrder(S, before) \in [1..Cardinality(S) -> S]
         /\ Range(InOrder(S, before)) = S
         /\ \A m, n \in 1..Cardinality(S) :
              m < n <=> <<InOrder(S, before)[m], InOrder(S, before)[n]>> \in before
<1> DEFINE f == InOrder(S, before)
           N == Cardinality(S)
           size(x) == Cardinality(Below(x, S, before))
<1>0. N \in Nat
  BY FS_CardinalityType
<1>1. f = [n \in 1..N |-> CHOOSE x \in S : size(x) = n - 1]
  BY DEF InOrder, Below
<1>2. /\ \A x \in S : size(x) \in 0..(N - 1)
      /\ \A x, y \in S : <<x, y>> \in before => size(x) < size(y)
  BY BelowGrows
<1>3. /\ \A x, y \in S : size(x) = size(y) => x = y
      /\ \A n \in 1..N : \E x \in S : size(x) = n - 1
  BY OneForEachPlace
<1> HIDE DEF size, f, N
<1>4. ASSUME NEW n \in 1..N
      PROVE  f[n] \in S /\ size(f[n]) = n - 1
  <2>1. \E x \in S : size(x) = n - 1
    BY <1>3
  <2>2. f[n] = CHOOSE x \in S : size(x) = n - 1
    BY <1>1
  <2> QED BY <2>1, <2>2
<1>5. f \in [1..N -> S]
  BY <1>1, <1>4
<1>6. Range(f) = S
  <2>1. ASSUME NEW x \in S
        PROVE  \E n \in 1..N : f[n] = x
    <3>1. size(x) + 1 \in 1..N /\ (size(x) + 1) - 1 = size(x)
      BY <1>0, <1>2
    <3>2. PICK n \in 1..N : n - 1 = size(x)
      BY <3>1
    <3>3. f[n] \in S /\ size(f[n]) = size(x)
      BY <3>2, <1>4
    <3> QED BY <3>3, <1>3
  <2> QED BY <2>1, <1>5 DEF Range
<1>7. ASSUME NEW m \in 1..N, NEW n \in 1..N
      PROVE  m < n <=> <<f[m], f[n]>> \in before
  <2>1. f[m] \in S /\ f[n] \in S /\ size(f[m]) = m - 1 /\ size(f[n]) = n - 1
    BY <1>4
  <2>2. <<f[m], f[n]>> \in before => m < n
    BY <2>1, <1>2, <1>0
  <2>3. ASSUME m < n PROVE <<f[m], f[n]>> \in before
    <3>1. f[m] # f[n]
      BY <2>1, <2>3, <1>0
    <3>2. ~(<<f[n], f[m]>> \in before)
      BY <2>1, <2>3, <1>2, <1>0
    <3> QED BY <3>1, <3>2, <2>1 DEF Orders
  <2> QED BY <2>2, <2>3
<1> QED BY <1>0, <1>5, <1>6, <1>7 DEF f, N

(* Nothing else does: a sequence of the elements of S that is in order is  *)
(* the one InOrder gives.                                                  *)
LEMMA InOrderUnique ==
  ASSUME NEW S, NEW before, Orders(before, S), NEW n \in Nat, NEW g \in [1..n -> S], Range(g) = S,
         \A i, j \in 1..n : i < j => <<g[i], g[j]>> \in before
  PROVE  IsFiniteSet(S) /\ Cardinality(S) = n /\ g = InOrder(S, before)
<1>0. \A i, j \in 1..n : <<g[i], g[j]>> \in before => i < j
  <2> SUFFICES ASSUME NEW i \in 1..n, NEW j \in 1..n, <<g[i], g[j]>> \in before, ~(i < j)
               PROVE  FALSE
    OBVIOUS
  <2>1. g[i] \in S /\ g[j] \in S
    OBVIOUS
  <2>2. CASE i = j
    BY <2>1, <2>2 DEF Orders
  <2>3. CASE j < i
    <3>1. <<g[j], g[i]>> \in before
      BY <2>3
    <3>2. <<g[i], g[i]>> \in before
      BY <2>1, <3>1 DEF Orders
    <3> QED BY <2>1, <3>2 DEF Orders
  <2> QED BY <2>2, <2>3
<1>1. \A i, j \in 1..n : g[i] = g[j] => i = j
  <2> SUFFICES ASSUME NEW i \in 1..n, NEW j \in 1..n, g[i] = g[j], i # j
               PROVE  FALSE
    OBVIOUS
  <2>1. g[i] \in S /\ (<<g[i], g[j]>> \in before \/ <<g[j], g[i]>> \in before)
    OBVIOUS
  <2> QED BY <2>1 DEF Orders
<1>2. ASSUME NEW m \in 0..n
      PROVE  /\ IsFiniteSet({g[i] : i \in 1..m}) /\ Cardinality({g[i] : i \in 1..m}) = m
  <2> DEFINE G == {g[i] : i \in 1..m}
             h == [i \in 1..m |-> g[i]]
  <2>1. h \in [1..m -> G] /\ (\A a, b \in 1..m : h[a] = h[b] => a = b) /\ \A t \in G : \E s \in 1..m : h[s] = t
    BY <1>1
  <2>2. IsFiniteSet(1..m) /\ Cardinality(1..m) = m
    BY FS_Interval
  <2> HIDE DEF G, h
  <2>3. h \in Bijection(1..m, G)
    BY <2>1 DEF Bijection, Injection, Surjection, IsInjective
  <2>4. ExistsBijection(1..m, G)
    BY <2>3 DEF ExistsBijection
  <2> QED BY <2>2, <2>4, FS_Bijection DEF G
<1>3. S = {g[i] : i \in 1..n}
  BY DEF Range
<1>4. IsFiniteSet(S) /\ Cardinality(S) = n
  <2>1. n \in 0..n
    OBVIOUS
  <2>2. IsFiniteSet({g[i] : i \in 1..n}) /\ Cardinality({g[i] : i \in 1..n}) = n
    BY <2>1, <1>2, Zenon
  <2> QED BY <2>2, <1>3, Zenon
<1>5. ASSUME NEW m \in 1..n
      PROVE  Cardinality(Below(g[m], S, before)) = m - 1
  <2>1. Below(g[m], S, before) = {g[i] : i \in 1..(m - 1)}
    <3>1. ASSUME NEW y \in S, <<y, g[m]>> \in before
          PROVE  \E i \in 1..(m - 1) : y = g[i]
      <4>1. PICK i \in 1..n : y = g[i]
        BY <1>3
      <4> QED BY <4>1, <3>1, <1>0
    <3>2. \A i \in 1..(m - 1) : g[i] \in S /\ <<g[i], g[m]>> \in before
      OBVIOUS
    <3> QED BY <3>1, <3>2 DEF Below
  <2>2. m - 1 \in 0..n
    OBVIOUS
  <2> QED BY <2>1, <2>2, <1>2, Zenon
<1>6. ASSUME NEW m \in 1..n
      PROVE  InOrder(S, before)[m] = g[m]
  <2>1. InOrder(S, before)[m] = CHOOSE x \in S : Cardinality(Below(x, S, before)) = m - 1
    BY <1>4, Zenon DEF InOrder, Below
  <2>2. g[m] \in S /\ Cardinality(Below(g[m], S, before)) = m - 1
    BY <1>5
  <2>3. \A x \in S : Cardinality(Below(x, S, before)) = m - 1 => x = g[m]
    BY <2>2, <1>4, OneForEachPlace
  <2> QED BY <2>1, <2>2, <2>3
<1>7. InOrder(S, before) \in [1..n -> S]
  BY <1>4, InOrderLists
<1> QED BY <1>4, <1>6, <1>7

(* Numbers are in order.                                                   *)
LEMMA NumbersOrdered ==
  ASSUME NEW S \in SUBSET Int
  PROVE  Orders({p \in S \X S : p[1] < p[2]}, S)
BY DEF Orders

(* Ascending lists the numbers of a finite set, each once and in order,    *)
LEMMA AscendingLists ==
  ASSUME NEW S \in SUBSET Int, IsFiniteSet(S)
  PROVE  /\ Cardinality(S) \in Nat
         /\ Ascending(S) \in [1..Cardinality(S) -> S]
         /\ Range(Ascending(S)) = S
         /\ \A m, n \in 1..Cardinality(S) : m < n <=> Ascending(S)[m] < Ascending(S)[n]
<1> DEFINE before == {p \in S \X S : p[1] < p[2]}
<1>1. Orders(before, S)
  BY NumbersOrdered
<1>2. Ascending(S) = InOrder(S, before)
  BY DEF Ascending
<1>3. \A x, y \in S : <<x, y>> \in before <=> x < y
  OBVIOUS
<1> HIDE DEF before
<1>4. /\ Cardinality(S) \in Nat
      /\ Ascending(S) \in [1..Cardinality(S) -> S]
      /\ Range(Ascending(S)) = S
      /\ \A m, n \in 1..Cardinality(S) : m < n <=> <<Ascending(S)[m], Ascending(S)[n]>> \in before
  BY <1>1, <1>2, InOrderLists
<1>5. \A m, n \in 1..Cardinality(S) : m < n <=> Ascending(S)[m] < Ascending(S)[n]
  BY <1>3, <1>4, Zenon
<1> QED BY <1>4, <1>5

(* and there is no other such list.                                        *)
LEMMA AscendingUnique ==
  ASSUME NEW S \in SUBSET Int, NEW n \in Nat, NEW g \in [1..n -> S], Range(g) = S,
         \A i, j \in 1..n : i < j => g[i] < g[j]
  PROVE  IsFiniteSet(S) /\ g = Ascending(S)
<1> DEFINE before == {p \in S \X S : p[1] < p[2]}
<1>1. Orders(before, S)
  BY NumbersOrdered
<1>2. Ascending(S) = InOrder(S, before)
  BY DEF Ascending
<1>3. \A i, j \in 1..n : i < j => <<g[i], g[j]>> \in before
  OBVIOUS
<1> HIDE DEF before
<1> QED BY <1>1, <1>2, <1>3, InOrderUnique

(* Positions told apart the way a comparison of keys does.                 *)
WeaklyOrders(less, D) ==
  /\ \A i, j \in D : <<i, j>> \in less => <<j, i>> \notin less
  /\ \A i, j, k \in D : <<i, k>> \in less => <<i, j>> \in less \/ <<j, k>> \in less

(* The order of the positions in Arranged.                                 *)
Stably(less, D) == {p \in D \X D : p \in less \/ (<<p[2], p[1]>> \notin less /\ p[1] < p[2])}

(* It is an order.                                                         *)
LEMMA StablyOrders ==
  ASSUME NEW D \in SUBSET Int, NEW less, WeaklyOrders(less, D)
  PROVE  Orders(Stably(less, D), D)
<1>1. \A x, y \in D : <<x, y>> \in Stably(less, D) <=> <<x, y>> \in less \/ (<<y, x>> \notin less /\ x < y)
  BY DEF Stably
<1>2. \A x \in D : <<x, x>> \notin Stably(less, D)
  BY <1>1 DEF WeaklyOrders
<1>3. \A x, y \in D : x # y => <<x, y>> \in Stably(less, D) \/ <<y, x>> \in Stably(less, D)
  BY <1>1
<1>4. ASSUME NEW x \in D, NEW y \in D, NEW z \in D, <<x, y>> \in Stably(less, D), <<y, z>> \in Stably(less, D)
      PROVE  <<x, z>> \in Stably(less, D)
  <2>1. <<y, x>> \notin less /\ <<z, y>> \notin less
    BY <1>1, <1>4 DEF WeaklyOrders
  <2>2. <<z, x>> \notin less
    BY <2>1 DEF WeaklyOrders
  <2>3. CASE <<x, y>> \in less \/ <<y, z>> \in less
    <3>1. <<x, z>> \in less
      BY <2>1, <2>3 DEF WeaklyOrders
    <3> QED BY <3>1, <1>1, Zenon
  <2>4. CASE <<x, y>> \notin less /\ <<y, z>> \notin less
    <3>1. x < y /\ y < z
      BY <2>4, <1>1, <1>4, Zenon
    <3> QED BY <3>1, <2>2, <1>1
  <2> QED BY <2>3, <2>4
<1> QED BY <1>2, <1>3, <1>4 DEF Orders

(* The ways to put n positions in order.                                   *)
Permutation(n) == {f \in [1..n -> 1..n] : Range(f) = 1..n /\ \A i, j \in 1..n : f[i] = f[j] => i = j}

Leaves(f, n, less) == \A i, j \in 1..n : i < j => <<f[j], f[i]>> \notin less

(* Arranged permutes, and puts nothing behind what it is less than.        *)
LEMMA ArrangedPermutes ==
  ASSUME NEW n \in Nat, NEW s, DOMAIN s = 1..n, NEW less, WeaklyOrders(less, 1..n)
  PROVE  \E f \in Permutation(n) : Arranged(s, less) = Taken(s, f) /\ Leaves(f, n, less)
<1> DEFINE f == InOrder(1..n, Stably(less, 1..n))
<1>1. Orders(Stably(less, 1..n), 1..n)
  <2>1. 1..n \in SUBSET Int
    OBVIOUS
  <2> QED BY <2>1, StablyOrders
<1>2. IsFiniteSet(1..n) /\ Cardinality(1..n) = n
  BY FS_Interval
<1>3. /\ f \in [1..n -> 1..n] /\ Range(f) = 1..n
      /\ \A i, j \in 1..n : i < j <=> <<f[i], f[j]>> \in Stably(less, 1..n)
  BY <1>1, <1>2, InOrderLists
<1>4. Arranged(s, less) = Taken(s, f)
  BY DEF Arranged, Stably
<1> HIDE DEF f
<1>5. ASSUME NEW i \in 1..n, NEW j \in 1..n, i < j
      PROVE  <<f[j], f[i]>> \notin less
  <2>1. f[i] \in 1..n /\ f[j] \in 1..n /\ <<f[i], f[j]>> \in Stably(less, 1..n)
    BY <1>3, <1>5
  <2> QED BY <2>1 DEF Stably, WeaklyOrders
<1>6. ASSUME NEW i \in 1..n, NEW j \in 1..n, f[i] = f[j]
      PROVE  i = j
  <2>1. i < j <=> j < i
    BY <1>3, <1>6, Zenon
  <2> QED BY <2>1
<1>7. f \in Permutation(n)
  BY <1>3, <1>6 DEF Permutation
<1>8. Leaves(f, n, less)
  BY <1>5 DEF Leaves
<1> QED BY <1>4, <1>7, <1>8, Zenon

(* What is in order already stays as it is.                                *)
LEMMA ArrangedStays ==
  ASSUME NEW n \in Nat, NEW s, s = [i \in 1..n |-> s[i]], NEW less, WeaklyOrders(less, 1..n),
         \A i, j \in 1..n : i < j => <<j, i>> \notin less
  PROVE  Arranged(s, less) = s
<1> DEFINE id == [i \in 1..n |-> i]
<1>0. DOMAIN s = 1..n
  OBVIOUS
<1>1. Orders(Stably(less, 1..n), 1..n)
  <2>1. 1..n \in SUBSET Int
    OBVIOUS
  <2> QED BY <2>1, StablyOrders
<1>2. id \in [1..n -> 1..n] /\ Range(id) = 1..n
  BY DEF Range
<1>3. \A i, j \in 1..n : i < j => <<id[i], id[j]>> \in Stably(less, 1..n)
  BY DEF Stably
<1>4. id = InOrder(1..n, Stably(less, 1..n))
  <2> HIDE DEF id
  <2> QED BY <1>1, <1>2, <1>3, InOrderUnique
<1>5. Arranged(s, less) = Taken(s, id)
  <2> HIDE DEF id
  <2> QED BY <1>0, <1>4 DEF Arranged, Stably
<1>6. Taken(s, id) = [i \in 1..n |-> s[i]]
  BY DEF Taken
<1> QED BY <1>5, <1>6

(* Keys that are numbers are compared as they should be.                   *)
LEMMA KeysOrder ==
  ASSUME NEW n \in Nat, NEW key \in [1..n -> Int]
  PROVE  WeaklyOrders({p \in (1..n) \X (1..n) : key[p[1]] < key[p[2]]}, 1..n)
<1> DEFINE less == {p \in (1..n) \X (1..n) : key[p[1]] < key[p[2]]}
<1>1. \A i, j \in 1..n : <<i, j>> \in less <=> key[i] < key[j]
  OBVIOUS
<1>2. \A i \in 1..n : key[i] \in Int
  OBVIOUS
<1> HIDE DEF less
<1>3. WeaklyOrders(less, 1..n)
  BY <1>1, <1>2, SMTT(30) DEF WeaklyOrders
<1> QED BY <1>3 DEF less

(* SortedBy permutes and puts the keys in order.                           *)
LEMMA SortedByPermutes ==
  ASSUME NEW n \in Nat, NEW s, DOMAIN s = 1..n, NEW key \in [1..n -> Int]
  PROVE  \E f \in Permutation(n) :
           SortedBy(s, key) = Taken(s, f) /\ \A i, j \in 1..n : i < j => key[f[i]] <= key[f[j]]
<1> DEFINE less == {p \in (1..n) \X (1..n) : key[p[1]] < key[p[2]]}
<1>1. WeaklyOrders(less, 1..n)
  BY KeysOrder
<1>2. SortedBy(s, key) = Arranged(s, less)
  BY DEF SortedBy
<1>3. \A i, j \in 1..n : <<i, j>> \in less <=> key[i] < key[j]
  OBVIOUS
<1> HIDE DEF less
<1>4. PICK f \in Permutation(n) : Arranged(s, less) = Taken(s, f) /\ Leaves(f, n, less)
  BY <1>1, ArrangedPermutes
<1>5. \A i, j \in 1..n : i < j => key[f[i]] <= key[f[j]]
  <2> TAKE i \in 1..n, j \in 1..n
  <2> HAVE i < j
  <2>1. f[i] \in 1..n /\ f[j] \in 1..n
    BY DEF Permutation
  <2>2. ~(key[f[j]] < key[f[i]])
    BY <2>1, <1>3, <1>4, Zenon DEF Leaves
  <2> QED BY <2>1, <2>2
<1> QED BY <1>2, <1>4, <1>5

(* Permuting keeps the elements and how often each occurs.                 *)
LEMMA PermutationKeeps ==
  ASSUME NEW n \in Nat, NEW s, DOMAIN s = 1..n, NEW f \in Permutation(n)
  PROVE  /\ Taken(s, f) = [i \in 1..n |-> s[f[i]]] /\ \A i \in 1..n : f[i] \in 1..n
         /\ \A k \in 1..n : \E i \in 1..n : f[i] = k
         /\ Range(Taken(s, f)) = Range(s)
         /\ IsInjective(Taken(s, f)) <=> IsInjective(s)
<1> DEFINE t == Taken(s, f)
<1>1. /\ f \in [1..n -> 1..n] /\ DOMAIN f = 1..n /\ DOMAIN s = 1..n
      /\ \A k \in 1..n : \E i \in 1..n : f[i] = k
      /\ \A i, j \in 1..n : f[i] = f[j] => i = j
  BY Zenon DEF Permutation, Range
<1>2. t = [i \in 1..n |-> s[f[i]]] /\ DOMAIN t = 1..n /\ \A i \in 1..n : t[i] = s[f[i]] /\ f[i] \in 1..n
  BY <1>1 DEF Taken
<1> HIDE DEF t
<1>3. Range(t) = Range(s)
  <2>1. Range(t) \subseteq Range(s)
    BY <1>1, <1>2 DEF Range
  <2>2. ASSUME NEW k \in 1..n PROVE s[k] \in Range(t)
    <3>1. PICK i \in 1..n : f[i] = k
      BY <1>1
    <3> QED BY <3>1, <1>2 DEF Range
  <2> QED BY <2>1, <2>2, <1>1 DEF Range
<1>4. ASSUME IsInjective(s) PROVE IsInjective(t)
  <2> SUFFICES ASSUME NEW i \in 1..n, NEW j \in 1..n, t[i] = t[j] PROVE i = j
    BY <1>2 DEF IsInjective
  <2>1. f[i] = f[j]
    BY <1>1, <1>2, <1>4 DEF IsInjective
  <2> QED BY <2>1, <1>1
<1>5. ASSUME IsInjective(t) PROVE IsInjective(s)
  <2> SUFFICES ASSUME NEW k \in 1..n, NEW l \in 1..n, s[k] = s[l] PROVE k = l
    BY <1>1 DEF IsInjective
  <2>1. PICK i \in 1..n : f[i] = k
    BY <1>1
  <2>2. PICK j \in 1..n : f[j] = l
    BY <1>1
  <2>3. t[i] = t[j]
    BY <2>1, <2>2, <1>2
  <2>4. i = j
    BY <2>3, <1>5, <1>2 DEF IsInjective
  <2> QED BY <2>1, <2>2, <2>4
<1> QED BY <1>1, <1>2, <1>3, <1>4, <1>5 DEF t

(* What has its keys in order stays as it is.                              *)
LEMMA SortedByStays ==
  ASSUME NEW n \in Nat, NEW s, s = [i \in 1..n |-> s[i]], NEW key \in [1..n -> Int],
         \A i, j \in 1..n : i < j => key[i] <= key[j]
  PROVE  SortedBy(s, key) = s
<1> DEFINE less == {p \in (1..n) \X (1..n) : key[p[1]] < key[p[2]]}
<1>1. WeaklyOrders(less, 1..n)
  BY KeysOrder
<1>2. SortedBy(s, key) = Arranged(s, less)
  <2>1. DOMAIN s = 1..n
    OBVIOUS
  <2> QED BY <2>1 DEF SortedBy
<1>3. \A i, j \in 1..n : i < j => <<j, i>> \notin less
  OBVIOUS
<1> HIDE DEF less
<1> QED BY <1>1, <1>2, <1>3, ArrangedStays

(* A sequence is a function on its indices.                                *)
LEMMA SequenceParts ==
  ASSUME NEW S, NEW s \in Seq(S)
  PROVE  Len(s) \in Nat /\ DOMAIN s = 1..Len(s) /\ s \in [1..Len(s) -> S]
OBVIOUS

(* A sorted list has the elements of the list, as often, in order.         *)
LEMMA SortedLists ==
  ASSUME NEW S \in SUBSET Int, NEW s \in Seq(S)
  PROVE  /\ Sorted(s) \in Seq(S) /\ Len(Sorted(s)) = Len(s) /\ Range(Sorted(s)) = Range(s)
         /\ \A i, j \in 1..Len(s) : i < j => Sorted(s)[i] <= Sorted(s)[j]
         /\ IsInjective(Sorted(s)) <=> IsInjective(s)
<1> DEFINE n == Len(s)
           t == Sorted(s)
<1>1. n \in Nat /\ DOMAIN s = 1..n /\ s \in [1..n -> S] /\ s \in [1..n -> Int]
  <2>1. n \in Nat /\ DOMAIN s = 1..n /\ s \in [1..n -> S]
    BY SequenceParts, Zenon
  <2>2. [1..n -> S] \subseteq [1..n -> Int]
    BY Zenon
  <2> QED BY <2>1, <2>2, Zenon
<1> HIDE DEF n
<1>2. PICK f \in Permutation(n) : t = Taken(s, f) /\ \A i, j \in 1..n : i < j => s[f[i]] <= s[f[j]]
  BY <1>1, SortedByPermutes, Zenon DEF Sorted
<1> HIDE DEF t
<1>3. /\ t \in [1..n -> S] /\ \A i \in 1..n : t[i] = s[f[i]]
      /\ Range(t) = Range(s) /\ (IsInjective(t) <=> IsInjective(s))
  <2>1. /\ Taken(s, f) = [i \in 1..n |-> s[f[i]]] /\ \A i \in 1..n : f[i] \in 1..n
        /\ Range(Taken(s, f)) = Range(s)
        /\ IsInjective(Taken(s, f)) <=> IsInjective(s)
    <3>1. n \in Nat /\ DOMAIN s = 1..n /\ f \in Permutation(n)
      BY <1>1
    <3>2. Taken(s, f) = [i \in 1..n |-> s[f[i]]]
      BY DEF Permutation, Taken
    <3>3. \A i \in 1..n : f[i] \in 1..n
      BY <3>1, PermutationKeeps
    <3>4. Range(Taken(s, f)) = Range(s)
      BY <3>1, PermutationKeeps
    <3>5. IsInjective(Taken(s, f)) <=> IsInjective(s)
      BY <3>1, PermutationKeeps
    <3> QED BY <3>2, <3>3, <3>4, <3>5
  <2> QED BY <2>1, <1>1, <1>2
<1>4. t \in Seq(S) /\ Len(t) = n
  BY <1>1, <1>3
<1>5. \A i, j \in 1..n : i < j => t[i] <= t[j]
  BY <1>2, <1>3
<1> QED BY <1>3, <1>4, <1>5 DEF n, t

(* A list in order is sorted.                                              *)
LEMMA SortedStays ==
  ASSUME NEW s \in Seq(Int), \A i, j \in 1..Len(s) : i < j => s[i] <= s[j]
  PROVE  Sorted(s) = s
<1>1. Len(s) \in Nat /\ s \in [1..Len(s) -> Int]
  OBVIOUS
<1>2. s = [i \in 1..Len(s) |-> s[i]]
  BY <1>1
<1> QED BY <1>1, <1>2, SortedByStays DEF Sorted

-----------------------------------------------------------------------------
(* Rankings.                                                               *)

ClassNames == {Classes[i] : i \in DOMAIN Classes}

(* A decision on an accelerator, the cost of moving there and what else    *)
(* ranks it.                                                               *)
Candidates ==
  [accelerator: Nat, decision: [outcome: STRING, portability: ClassNames, provenance: STRING, score: Int],
   cost: Int, distance: Int, free: Int]
(* No accelerator is a candidate twice.                                    *)
CandidateLists ==
  {cs \in Seq(Candidates) : \A i, j \in DOMAIN cs : cs[i].accelerator = cs[j].accelerator => i = j}
Rankings == [kind: {"ranking"}, dimensions: BOOLEAN, candidates: CandidateLists]
Entries == [accelerator: Nat, portability: ClassNames, score: Int]

(* The entry of a candidate and the pairs of entries in their order.       *)
Entry(c, b) ==
  [accelerator |-> c.accelerator, portability |-> c.decision.portability, score |-> RankScore(c, b, b)]
RankOrder(S) == {p \in S \X S : RanksBefore(p[1], p[2])}

(* Classes are as strong as they are only once.                            *)
LEMMA StrengthTells ==
  /\ \A c \in ClassNames : Strength(c) \in 1..10
  /\ \A c, d \in ClassNames : Strength(c) = Strength(d) => c = d
<1>1. DOMAIN Classes = 1..10
  BY DEF Classes
<1>2. ASSUME NEW c \in ClassNames
      PROVE  Strength(c) \in 1..10 /\ Classes[Strength(c)] = c
  <2>1. \E i \in DOMAIN Classes : Classes[i] = c
    BY Zenon DEF ClassNames
  <2>2. Strength(c) \in DOMAIN Classes /\ Classes[Strength(c)] = c
    BY <2>1, Zenon DEF Strength
  <2> QED BY <2>2, <1>1
<1> QED BY <1>2

(* Entries of different accelerators are in order.                         *)
LEMMA RanksOrder ==
  ASSUME NEW a \in Entries, NEW b \in Entries, NEW c \in Entries
  PROVE  /\ ~RanksBefore(a, a)
         /\ a.accelerator # b.accelerator => RanksBefore(a, b) \/ RanksBefore(b, a)
         /\ RanksBefore(a, b) /\ RanksBefore(b, c) => RanksBefore(a, c)
         /\ RanksBefore(a, b) => ~RanksBefore(b, a) /\ a.score >= b.score
<1> DEFINE s(e) == Strength(e.portability)
<1>1. \A e \in {a, b, c} : /\ e.accelerator \in Nat /\ e.score \in Int /\ e.portability \in ClassNames
                           /\ s(e) \in Int
  BY StrengthTells DEF Entries
<1>2. \A e, f \in {a, b, c} : s(e) = s(f) <=> e.portability = f.portability
  BY <1>1, StrengthTells
<1>3. \A e, f \in {a, b, c} : RanksBefore(e, f) <=>
        \/ e.score > f.score
        \/ e.score = f.score /\ s(e) > s(f)
        \/ e.score = f.score /\ s(e) = s(f) /\ e.accelerator < f.accelerator
  BY <1>2, Zenon DEF RanksBefore
<1> HIDE DEF s
<1> QED BY <1>1, <1>3

(* A ranking is the set of its entries in order.                           *)
LEMMA RankedInOrder ==
  ASSUME NEW n \in Nat, NEW s \in [1..n -> Entries],
         \A i, j \in 1..n : s[i].accelerator = s[j].accelerator => i = j
  PROVE  /\ Ranked(s) = InOrder(Range(s), RankOrder(Range(s)))
         /\ Orders(RankOrder(Range(s)), Range(s)) /\ IsFiniteSet(Range(s))
<1> DEFINE S == Range(s)
           less == {p \in (1..n) \X (1..n) : RanksBefore(s[p[1]], s[p[2]])}
<1>1. \A e \in S : \E i \in 1..n : e = s[i]
  BY DEF Range
<1>2. S \in SUBSET Entries /\ \A i \in 1..n : s[i] \in S /\ s[i] \in Entries
  BY DEF Range
<1>3. \A e, f \in S : e # f => e.accelerator # f.accelerator
  BY <1>1
<1>4. Orders(RankOrder(S), S)
  <2>1. \A e, f \in S : <<e, f>> \in RankOrder(S) <=> RanksBefore(e, f)
    BY DEF RankOrder
  <2>2. \A e \in S : <<e, e>> \notin RankOrder(S)
    BY <2>1, <1>2, RanksOrder
  <2>3. \A e, f \in S : e # f => <<e, f>> \in RankOrder(S) \/ <<f, e>> \in RankOrder(S)
    BY <2>1, <1>2, <1>3, RanksOrder
  <2>4. \A e, f, g \in S : <<e, f>> \in RankOrder(S) /\ <<f, g>> \in RankOrder(S) => <<e, g>> \in RankOrder(S)
    BY <2>1, <1>2, RanksOrder
  <2> QED BY <2>2, <2>3, <2>4, Zenon DEF Orders
<1>5. \A i, j \in 1..n : <<i, j>> \in less <=> RanksBefore(s[i], s[j])
  OBVIOUS
<1>6. Ranked(s) = Arranged(s, less)
  BY DEF Ranked
<1> HIDE DEF less, S
<1>7. WeaklyOrders(less, 1..n)
  BY <1>2, <1>5, RanksOrder DEF WeaklyOrders
<1>8. PICK f \in Permutation(n) : Arranged(s, less) = Taken(s, f) /\ Leaves(f, n, less)
  BY <1>7, ArrangedPermutes
<1> DEFINE g == Taken(s, f)
<1>9. /\ g = [i \in 1..n |-> s[f[i]]] /\ (\A i \in 1..n : f[i] \in 1..n) /\ Range(g) = S
      /\ \A i, j \in 1..n : f[i] = f[j] => i = j
  <2>1. DOMAIN s = 1..n
    OBVIOUS
  <2>2. g = [i \in 1..n |-> s[f[i]]] /\ (\A i \in 1..n : f[i] \in 1..n) /\ Range(g) = S
    <3>1. Taken(s, f) = [i \in 1..n |-> s[f[i]]] /\ \A i \in 1..n : f[i] \in 1..n
      BY DEF Permutation, Taken
    <3>2. Range(Taken(s, f)) = Range(s)
      BY <2>1, PermutationKeeps
    <3> QED BY <3>1, <3>2, Zenon DEF S
  <2> QED BY <2>2 DEF Permutation
<1> HIDE DEF g
<1>10. g \in [1..n -> S]
  BY <1>2, <1>9
<1>11. \A i, j \in 1..n : i < j => <<g[i], g[j]>> \in RankOrder(S)
  <2> TAKE i \in 1..n, j \in 1..n
  <2> HAVE i < j
  <2>1. f[i] \in 1..n /\ f[j] \in 1..n /\ g[i] = s[f[i]] /\ g[j] = s[f[j]] /\ i # j
    BY <1>9
  <2>2. f[i] # f[j]
    BY <2>1, <1>9
  <2>3. g[i].accelerator # g[j].accelerator
    BY <2>1, <2>2
  <2>4. ~RanksBefore(g[j], g[i])
    <3>1. <<f[j], f[i]>> \notin less
      BY <1>8 DEF Leaves
    <3> QED BY <3>1, <2>1, <1>5
  <2>5. g[i] \in S /\ g[j] \in S /\ g[i] \in Entries /\ g[j] \in Entries
    BY <1>2, <2>1
  <2>6. RanksBefore(g[i], g[j])
    BY <2>3, <2>4, <2>5, RanksOrder
  <2> QED BY <2>5, <2>6 DEF RankOrder
<1>12. IsFiniteSet(S) /\ g = InOrder(S, RankOrder(S))
  <2> DEFINE before == RankOrder(S)
  <2>1. Orders(before, S) /\ \A i, j \in 1..n : i < j => <<g[i], g[j]>> \in before
    BY <1>4, <1>11
  <2> HIDE DEF before
  <2>2. IsFiniteSet(S) /\ g = InOrder(S, before)
    BY <2>1, <1>9, <1>10, InOrderUnique, Zenon
  <2> QED BY <2>2 DEF before
<1> QED BY <1>4, <1>6, <1>8, <1>12 DEF g, S

(* Numbers of which none is repeated, sorted, are their set in order.      *)
LEMMA SortedAscends ==
  ASSUME NEW n \in Nat, NEW s \in [1..n -> Nat], \A i, j \in 1..n : s[i] = s[j] => i = j
  PROVE  Sorted(s) = Ascending(Range(s)) /\ IsFiniteSet(Range(s)) /\ Range(s) \in SUBSET Int
<1> DEFINE S == Range(s)
           t == Sorted(s)
<1>1. s \in Seq(Nat) /\ Len(s) = n /\ Nat \in SUBSET Int
  OBVIOUS
<1>2. IsInjective(s)
  BY DEF IsInjective
<1>3. t \in Seq(Nat) /\ Len(t) = n /\ Range(t) = S /\ \A i, j \in 1..n : i < j => t[i] <= t[j]
  BY <1>1, SortedLists, SMTT(30)
<1>4. IsInjective(t)
  BY <1>1, <1>2, SortedLists
<1> HIDE DEF t
<1>5. DOMAIN t = 1..n /\ t \in [1..n -> S] /\ S \in SUBSET Int /\ \A i \in 1..n : t[i] \in Nat
  <2>1. DOMAIN t = 1..n /\ t = [i \in 1..n |-> t[i]] /\ \A i \in 1..n : t[i] \in Nat
    BY <1>3
  <2>2. S \in SUBSET Int
    BY DEF Range
  <2>3. \A i \in 1..n : t[i] \in S
    BY <2>1, <1>3, Zenon DEF Range
  <2> HIDE DEF S
  <2> QED BY <2>1, <2>2, <2>3
<1>6. \A i, j \in 1..n : i < j => t[i] < t[j]
  <2> TAKE i \in 1..n, j \in 1..n
  <2> HAVE i < j
  <2>1. t[i] # t[j]
    BY <1>4, <1>5 DEF IsInjective
  <2> QED BY <2>1, <1>3, <1>5
<1> HIDE DEF S
<1>7. IsFiniteSet(S) /\ t = Ascending(S)
  BY <1>3, <1>5, <1>6, AscendingUnique, Zenon
<1> QED BY <1>5, <1>7 DEF S, t

(* What is selected, and that nothing is selected twice.                   *)
LEMMA PositionsSelected ==
  ASSUME NEW n \in Nat, NEW P \in SUBSET (1..n)
  PROVE  /\ Cardinality(P) \in Nat
         /\ DOMAIN Ascending(P) = 1..Cardinality(P)
         /\ \A k \in 1..Cardinality(P) : Ascending(P)[k] \in P
         /\ \A i \in P : \E k \in 1..Cardinality(P) : Ascending(P)[k] = i
         /\ \A k, l \in 1..Cardinality(P) : Ascending(P)[k] = Ascending(P)[l] => k = l
<1> DEFINE a == Ascending(P)
           m == Cardinality(P)
<1>1. P \in SUBSET Int /\ IsFiniteSet(P)
  <2>1. IsFiniteSet(1..n)
    BY FS_Interval
  <2>2. IsFiniteSet(P)
    BY <2>1, FS_Subset, Zenon
  <2> QED BY <2>2
<1>2. m \in Nat /\ a \in [1..m -> P]
  BY <1>1, AscendingLists
<1>3. Range(a) = P
  BY <1>1, AscendingLists
<1>4. \A k, l \in 1..m : k < l <=> a[k] < a[l]
  BY <1>1, AscendingLists
<1> HIDE DEF a, m
<1>7. \A i \in P : \E k \in 1..m : a[k] = i
  BY <1>2, <1>3 DEF Range
<1>8. \A k, l \in 1..m : a[k] = a[l] => k = l
  <2> TAKE k \in 1..m, l \in 1..m
  <2> HAVE a[k] = a[l]
  <2>1. a[k] \in Int /\ a[l] \in Int
    BY <1>1, <1>2, Zenon
  <2>2. ~(k < l) /\ ~(l < k)
    BY <2>1, <1>4
  <2> QED BY <2>2, <1>2
<1>9. \A k \in 1..m : a[k] \in P
  BY <1>2
<1> QED BY <1>2, <1>7, <1>8, <1>9 DEF a, m

(* The entries of the eligible candidates, and the other accelerators.     *)
RankedSet(S, b) == {Entry(c, b) : c \in {d \in S : d.decision.outcome = "Eligible"}}
ExcludedSet(S) == {c.accelerator : c \in {d \in S : d.decision.outcome # "Eligible"}}

(* An entry is of its type.                                                *)
LEMMA EntryIs ==
  ASSUME NEW c \in Candidates, NEW b \in BOOLEAN
  PROVE  Entry(c, b) \in Entries /\ Entry(c, b).accelerator = c.accelerator
<1>1. /\ c.accelerator \in Nat /\ c.decision.portability \in ClassNames
      /\ c.decision.score \in Int /\ c.cost \in Int /\ c.distance \in Int /\ c.free \in Int
  BY DEF Candidates
<1> DEFINE t == TransformationSteps(c.decision.portability)
           v == ProvenancePenalty(c.decision.provenance)
<1>2. t \in Int /\ v \in Int
  BY DEF TransformationSteps, ProvenancePenalty
<1>3. RankScore(c, b, b) \in Int
  <2> DEFINE bonus == CASE c.decision.portability = "Native" -> 1000
                        [] c.decision.portability = "LiveMigrationSupported" -> 500
                        [] OTHER -> 0
             less == IF t = 255 THEN 0 ELSE 250 * t
             far == IF b THEN 100 * c.distance ELSE 0
             free == IF b THEN 10 * c.free ELSE 0
  <2>1. bonus \in Int
    OBVIOUS
  <2>2. less \in Int /\ far \in Int /\ free \in Int
    BY <1>1, <1>2
  <2>3. RankScore(c, b, b) = c.decision.score + bonus - less - c.cost - 2 * v - far + free
    BY Zenon DEF RankScore
  <2> HIDE DEF bonus, less, far, free, t, v
  <2> QED BY <2>1, <2>2, <2>3, <1>1, <1>2
<1> QED BY <1>1, <1>3 DEF Entry, Entries

(* A ranking depends on the set of the candidates only.                    *)
LEMMA RankingOfSet ==
  ASSUME NEW cs \in CandidateLists, NEW b \in BOOLEAN
  PROVE  LET S == RankedSet(Range(cs), b)
             X == ExcludedSet(Range(cs))
         IN /\ RankCandidates(cs, b, b) = [ranked |-> InOrder(S, RankOrder(S)), excluded |-> Ascending(X)]
            /\ Orders(RankOrder(S), S) /\ IsFiniteSet(S) /\ S \in SUBSET Entries
            /\ IsFiniteSet(X) /\ X \in SUBSET Int
<1> DEFINE n == Len(cs)
           S == RankedSet(Range(cs), b)
           X == ExcludedSet(Range(cs))
           P == {i \in DOMAIN cs : cs[i].decision.outcome = "Eligible"}
           Q == (DOMAIN cs) \ P
           es == [i \in DOMAIN cs |-> Entry(cs[i], b)]
           ids == [i \in DOMAIN cs |-> cs[i].accelerator]
           e == Selected(es, P)
           x == Selected(ids, Q)
<1>1. n \in Nat /\ DOMAIN cs = 1..n /\ \A i \in 1..n : cs[i] \in Candidates
  BY DEF CandidateLists
<1>2. \A i, j \in 1..n : cs[i].accelerator = cs[j].accelerator => i = j
  BY <1>1 DEF CandidateLists
<1>3. RankCandidates(cs, b, b) = [ranked |-> Ranked(e), excluded |-> Sorted(x)]
  BY Zenon DEF RankCandidates, Entry
<1>4. P \in SUBSET (1..n) /\ Q \in SUBSET (1..n)
  BY <1>1
<1>5. ASSUME NEW i \in 1..n
      PROVE  /\ es[i] = Entry(cs[i], b) /\ es[i] \in Entries /\ es[i].accelerator = cs[i].accelerator
             /\ ids[i] = cs[i].accelerator /\ ids[i] \in Nat
  <2>1. cs[i] \in Candidates
    BY <1>1
  <2>2. es[i] = Entry(cs[i], b) /\ ids[i] = cs[i].accelerator
    BY <1>1
  <2>3. cs[i].accelerator \in Nat
    BY <2>1 DEF Candidates
  <2> HIDE DEF es, ids
  <2> QED BY <2>1, <2>2, <2>3, EntryIs
<1>6. S = {es[i] : i \in P} /\ X = {ids[i] : i \in Q}
  <2>1. \A i \in 1..n : es[i] = Entry(cs[i], b) /\ ids[i] = cs[i].accelerator
    BY <1>5
  <2> HIDE DEF es, ids
  <2>2. S = {es[i] : i \in P}
    BY <2>1, <1>1 DEF RankedSet, Range
  <2>3. X = {ids[i] : i \in Q}
    BY <2>1, <1>1 DEF ExcludedSet, Range
  <2> QED BY <2>2, <2>3
<1> HIDE DEF es, ids, n, P, Q, S, X
<1>7. Ranked(e) = InOrder(S, RankOrder(S)) /\ Orders(RankOrder(S), S) /\ IsFiniteSet(S) /\ S \in SUBSET Entries
  <2> DEFINE a == Ascending(P)
             m == Cardinality(P)
  <2>1. /\ m \in Nat /\ e = [k \in 1..m |-> es[a[k]]] /\ (\A k \in 1..m : a[k] \in P)
        /\ (\A i \in P : \E k \in 1..m : a[k] = i) /\ \A k, l \in 1..m : a[k] = a[l] => k = l
    <3>1. m \in Nat /\ (\A k \in 1..m : a[k] \in P) /\ \A i \in P : \E k \in 1..m : a[k] = i
      BY <1>1, <1>4, PositionsSelected, Zenon
    <3>2. e = [k \in 1..m |-> es[a[k]]]
      <4>1. DOMAIN a = 1..m
        BY <1>1, <1>4, PositionsSelected, Zenon
      <4>2. e = Taken(es, a)
        BY Zenon DEF Selected
      <4> HIDE DEF a, m, e
      <4> QED BY <4>1, <4>2, Zenon DEF Taken
    <3>3. \A k, l \in 1..m : a[k] = a[l] => k = l
      BY <1>1, <1>4, PositionsSelected, Zenon
    <3> QED BY <3>1, <3>2, <3>3
  <2> HIDE DEF a, m, e
  <2>2. \A k \in 1..m : a[k] \in 1..n /\ e[k] = es[a[k]]
    BY <2>1, <1>4, Zenon
  <2>3. e \in [1..m -> Entries]
    BY <2>1, <2>2, <1>5
  <2>4. \A k, l \in 1..m : e[k].accelerator = e[l].accelerator => k = l
    <3> TAKE k \in 1..m, l \in 1..m
    <3> HAVE e[k].accelerator = e[l].accelerator
    <3>1. a[k] \in 1..n /\ a[l] \in 1..n /\ cs[a[k]].accelerator = cs[a[l]].accelerator
      BY <2>2, <1>5
    <3> QED BY <3>1, <2>1, <1>2
  <2>5. Range(e) = S
    <3>1. DOMAIN e = 1..m
      BY <2>1
    <3>2. Range(e) = {e[k] : k \in 1..m}
      BY <3>1 DEF Range
    <3> QED BY <3>2, <2>1, <2>2, <1>6
  <2>6. Ranked(e) = InOrder(S, RankOrder(S))
    <3>1. Ranked(e) = InOrder(Range(e), RankOrder(Range(e)))
      BY <2>1, <2>3, <2>4, RankedInOrder, SMTT(30)
    <3> QED BY <3>1, <2>5
  <2>7. Orders(RankOrder(S), S) /\ IsFiniteSet(S)
    BY <2>1, <2>3, <2>4, <2>5, RankedInOrder
  <2>8. S \in SUBSET Entries
    BY <2>3, <2>5 DEF Range
  <2> QED BY <2>6, <2>7, <2>8
<1>8. Sorted(x) = Ascending(X) /\ IsFiniteSet(X) /\ X \in SUBSET Int
  <2> DEFINE a == Ascending(Q)
             m == Cardinality(Q)
  <2>1. /\ m \in Nat /\ x = [k \in 1..m |-> ids[a[k]]] /\ (\A k \in 1..m : a[k] \in Q)
        /\ (\A i \in Q : \E k \in 1..m : a[k] = i) /\ \A k, l \in 1..m : a[k] = a[l] => k = l
    <3>1. m \in Nat /\ (\A k \in 1..m : a[k] \in Q) /\ \A i \in Q : \E k \in 1..m : a[k] = i
      BY <1>1, <1>4, PositionsSelected, Zenon
    <3>2. x = [k \in 1..m |-> ids[a[k]]]
      <4>1. DOMAIN a = 1..m
        BY <1>1, <1>4, PositionsSelected, Zenon
      <4>2. x = Taken(ids, a)
        BY Zenon DEF Selected
      <4> HIDE DEF a, m, x
      <4> QED BY <4>1, <4>2, Zenon DEF Taken
    <3>3. \A k, l \in 1..m : a[k] = a[l] => k = l
      BY <1>1, <1>4, PositionsSelected, Zenon
    <3> QED BY <3>1, <3>2, <3>3
  <2> HIDE DEF a, m, x
  <2>2. \A k \in 1..m : a[k] \in 1..n /\ x[k] = ids[a[k]]
    BY <2>1, <1>4, Zenon
  <2>3. x \in [1..m -> Nat]
    BY <2>1, <2>2, <1>5
  <2>4. \A k, l \in 1..m : x[k] = x[l] => k = l
    BY <2>1, <2>2, <1>2, <1>5
  <2>5. Range(x) = X
    <3>1. DOMAIN x = 1..m
      BY <2>1
    <3>2. Range(x) = {x[k] : k \in 1..m}
      BY <3>1 DEF Range
    <3> QED BY <3>2, <2>1, <2>2, <1>6
  <2> QED BY <2>1, <2>3, <2>4, <2>5, SortedAscends
<1> QED BY <1>3, <1>7, <1>8 DEF S, X

(* The same candidates sorted by accelerator.                              *)
LEMMA SameCandidates ==
  ASSUME NEW cs \in CandidateLists
  PROVE  LET t == SortedBy(cs, [i \in DOMAIN cs |-> cs[i].accelerator])
         IN t \in CandidateLists /\ Range(t) = Range(cs)
<1> DEFINE n == Len(cs)
           key == [i \in DOMAIN cs |-> cs[i].accelerator]
           t == SortedBy(cs, key)
<1>1. n \in Nat /\ DOMAIN cs = 1..n /\ \A i \in 1..n : cs[i] \in Candidates
  BY DEF CandidateLists
<1>2. \A i, j \in 1..n : cs[i].accelerator = cs[j].accelerator => i = j
  BY <1>1 DEF CandidateLists
<1>3. key \in [1..n -> Int]
  <2>1. \A i \in 1..n : cs[i].accelerator \in Int
    BY <1>1 DEF Candidates
  <2> QED BY <2>1, <1>1
<1> HIDE DEF key, t, n
<1>4. PICK f \in Permutation(n) : t = Taken(cs, f)
  BY <1>1, <1>3, SortedByPermutes DEF t
<1>5. t = [i \in 1..n |-> cs[f[i]]] /\ \A i \in 1..n : f[i] \in 1..n
  BY <1>4 DEF Permutation, Taken
<1>6. Range(t) = Range(cs)
  BY <1>1, <1>4, PermutationKeeps
<1>7. t \in Seq(Candidates) /\ DOMAIN t = 1..n
  <2>1. t \in [1..n -> Candidates]
    BY <1>1, <1>5
  <2> QED BY <2>1, <1>1
<1>8. \A i, j \in 1..n : t[i].accelerator = t[j].accelerator => i = j
  <2> TAKE i \in 1..n, j \in 1..n
  <2> HAVE t[i].accelerator = t[j].accelerator
  <2>1. f[i] \in 1..n /\ f[j] \in 1..n /\ t[i] = cs[f[i]] /\ t[j] = cs[f[j]]
    BY <1>5
  <2>2. f[i] = f[j]
    BY <2>1, <1>2
  <2> QED BY <2>2 DEF Permutation
<1>9. t \in CandidateLists
  BY <1>7, <1>8, Zenon DEF CandidateLists
<1> QED BY <1>6, <1>9 DEF t, key

(* What a ranking holds.                                                   *)
LEMMA RankingHolds ==
  ASSUME NEW cs \in CandidateLists, NEW b \in BOOLEAN
  PROVE  LET r == RankCandidates(cs, b, b)
             eligible == {c.accelerator : c \in {d \in Range(cs) : d.decision.outcome = "Eligible"}}
         IN /\ {e.accelerator : e \in Range(r.ranked)} = eligible
            /\ Range(r.excluded) = {c.accelerator : c \in Range(cs)} \ eligible
            /\ \A i \in DOMAIN r.ranked : i > 1 => r.ranked[i - 1].score >= r.ranked[i].score
<1> DEFINE r == RankCandidates(cs, b, b)
           C == Range(cs)
           S == RankedSet(C, b)
           X == ExcludedSet(C)
           chosen == {d \in C : d.decision.outcome = "Eligible"}
           eligible == {c.accelerator : c \in chosen}
           m == Cardinality(S)
<1>1. C \in SUBSET Candidates /\ \A c, d \in C : c.accelerator = d.accelerator => c = d
  <2>1. DOMAIN cs = 1..Len(cs) /\ (\A i \in 1..Len(cs) : cs[i] \in Candidates)
        /\ \A i, j \in 1..Len(cs) : cs[i].accelerator = cs[j].accelerator => i = j
    BY DEF CandidateLists
  <2> QED BY <2>1 DEF Range
<1>2. /\ r = [ranked |-> InOrder(S, RankOrder(S)), excluded |-> Ascending(X)]
      /\ Orders(RankOrder(S), S) /\ IsFiniteSet(S) /\ S \in SUBSET Entries
      /\ IsFiniteSet(X) /\ X \in SUBSET Int
  BY RankingOfSet
<1>3. {e.accelerator : e \in S} = eligible
  <2>1. \A c \in chosen : Entry(c, b).accelerator = c.accelerator
    BY <1>1, EntryIs
  <2>2. S = {Entry(c, b) : c \in chosen}
    BY Zenon DEF RankedSet
  <2> HIDE DEF S, chosen
  <2> QED BY <2>1, <2>2
<1>4. X = {c.accelerator : c \in C} \ eligible
  <2>1. X = {c.accelerator : c \in {d \in C : d.decision.outcome # "Eligible"}}
    BY DEF ExcludedSet
  <2> HIDE DEF X, C
  <2> QED BY <2>1, <1>1
<1> HIDE DEF S, X, C, r
<1>5. r.ranked = InOrder(S, RankOrder(S)) /\ r.excluded = Ascending(X)
  BY <1>2
<1>6. /\ m \in Nat /\ r.ranked \in [1..m -> S] /\ Range(r.ranked) = S
      /\ \A i, j \in 1..m : i < j => <<r.ranked[i], r.ranked[j]>> \in RankOrder(S)
  <2> DEFINE before == RankOrder(S)
  <2>1. Orders(before, S) /\ r.ranked = InOrder(S, before)
    BY <1>2, <1>5
  <2> HIDE DEF before, m
  <2>2. m \in Nat /\ r.ranked \in [1..m -> S] /\ Range(r.ranked) = S
    BY <2>1, <1>2, InOrderLists, Zenon DEF m
  <2>3. \A i, j \in 1..m : i < j <=> <<r.ranked[i], r.ranked[j]>> \in before
    BY <2>1, <1>2, InOrderLists DEF m
  <2> QED BY <2>2, <2>3 DEF before
<1>7. Range(r.excluded) = X
  BY <1>2, <1>5, AscendingLists
<1> HIDE DEF m
<1>8. \A i \in DOMAIN r.ranked : i > 1 => r.ranked[i - 1].score >= r.ranked[i].score
  <2> TAKE i \in DOMAIN r.ranked
  <2> HAVE i > 1
  <2>1. i \in 1..m /\ i - 1 \in 1..m /\ i - 1 < i
    BY <1>6
  <2>2. <<r.ranked[i - 1], r.ranked[i]>> \in RankOrder(S) /\ r.ranked[i - 1] \in Entries /\ r.ranked[i] \in Entries
    BY <2>1, <1>2, <1>6
  <2>3. RanksBefore(r.ranked[i - 1], r.ranked[i])
    BY <2>2 DEF RankOrder
  <2> QED BY <2>2, <2>3, RanksOrder
<1> QED BY <1>3, <1>4, <1>6, <1>7, <1>8, Zenon DEF r, C

(* RankingIgnoresOrder for the answer to any list of candidates.           *)
LEMMA RankingIsSound ==
  ASSUME input \in Rankings, answer = AnswerRanking(input)
  PROVE  RankingIgnoresOrder
<1> DEFINE cs == input.candidates
           b == input.dimensions
           ids(s) == {s[i] : i \in DOMAIN s}
           key == [i \in DOMAIN cs |-> cs[i].accelerator]
           t == SortedBy(cs, key)
           eligible == {c.accelerator : c \in {d \in Range(cs) : d.decision.outcome = "Eligible"}}
<1>1. cs \in CandidateLists /\ b \in BOOLEAN
  BY DEF Rankings
<1>2. t \in CandidateLists /\ Range(t) = Range(cs)
  BY <1>1, SameCandidates
<1>3. answer = RankCandidates(cs, b, b)
  BY DEF AnswerRanking
<1>4. AnswerRanking([input EXCEPT !.candidates = t]) = RankCandidates(t, b, b)
  <2> HIDE DEF t
  <2>1. [input EXCEPT !.candidates = t].candidates = t /\ [input EXCEPT !.candidates = t].dimensions = b
    BY DEF Rankings
  <2> HIDE DEF b
  <2> QED BY <2>1, Zenon DEF AnswerRanking
<1>5. RankCandidates(t, b, b) = RankCandidates(cs, b, b)
  <2> HIDE DEF t, cs, b
  <2> DEFINE S(C) == RankedSet(C, b)
             X(C) == ExcludedSet(C)
  <2>1. RankCandidates(cs, b, b) =
          [ranked |-> InOrder(S(Range(cs)), RankOrder(S(Range(cs)))), excluded |-> Ascending(X(Range(cs)))]
    BY <1>1, RankingOfSet
  <2>2. RankCandidates(t, b, b) =
          [ranked |-> InOrder(S(Range(t)), RankOrder(S(Range(t)))), excluded |-> Ascending(X(Range(t)))]
    BY <1>1, <1>2, RankingOfSet
  <2> HIDE DEF S, X
  <2> QED BY <2>1, <2>2, <1>2, Zenon
<1>6. \A s : ids(s) = Range(s)
  BY Zenon DEF Range
<1>7. /\ {e.accelerator : e \in Range(answer.ranked)} = eligible
      /\ Range(answer.excluded) = {c.accelerator : c \in Range(cs)} \ eligible
      /\ \A i \in DOMAIN answer.ranked : i > 1 => answer.ranked[i - 1].score >= answer.ranked[i].score
  BY <1>1, <1>3, RankingHolds, Zenon
<1>8. Range(key) = {c.accelerator : c \in Range(cs)}
  BY Zenon DEF Range
<1> HIDE DEF cs, b, key, t, ids
<1>9. answer = AnswerRanking([input EXCEPT !.candidates = t])
  BY <1>3, <1>4, <1>5
<1>10. /\ answer = AnswerRanking([input EXCEPT !.candidates = t])
       /\ {e.accelerator : e \in ids(answer.ranked)} =
            {c.accelerator : c \in {d \in ids(cs) : d.decision.outcome = "Eligible"}}
       /\ ids(answer.excluded) = ids(key) \ {c.accelerator : c \in {d \in ids(cs) : d.decision.outcome = "Eligible"}}
       /\ \A i \in DOMAIN answer.ranked : i > 1 => answer.ranked[i - 1].score >= answer.ranked[i].score
  BY <1>6, <1>7, <1>8, <1>9, Zenon
<1> QED BY <1>10, Zenon DEF RankingIgnoresOrder, ids, cs, t, key

-----------------------------------------------------------------------------
(* The halving of std::lower_bound.                                        *)

Ranges(s) == (0..Len(s)) \X (0..Len(s))
Middle(r) == r[1] + ((r[2] - r[1]) \div 2)

(* One halving, on what is known of the shorter ranges.                    *)
Halved(s, x, bound, r) ==
  IF r[2] <= r[1] THEN r[1]
  ELSE IF s[Middle(r) + 1] < x THEN bound[<<Middle(r) + 1, r[2]>>]
  ELSE bound[<<r[1], Middle(r)>>]

Halving(s, x) == CHOOSE bound : bound = [r \in Ranges(s) |-> Halved(s, x, bound, r)]

(* LowerBound is the halving of the whole list.                            *)
LEMMA LowerBoundHalves ==
  ASSUME NEW s, NEW x
  PROVE  LowerBound(s, x) = Halving(s, x)[<<0, Len(s)>>]
BY DEF LowerBound, Halving, Halved, Middle, Ranges

(* A range is halved into shorter ones.                                    *)
LEMMA HalvesAreShorter ==
  ASSUME NEW s \in Seq(Int), NEW r \in Ranges(s), ~(r[2] <= r[1])
  PROVE  /\ r[1] \in 0..Len(s) /\ r[2] \in 0..Len(s)
         /\ Middle(r) \in r[1]..(r[2] - 1)
         /\ <<Middle(r) + 1, r[2]>> \in Ranges(s) /\ <<r[1], Middle(r)>> \in Ranges(s)
<1>1. r[1] \in 0..Len(s) /\ r[2] \in 0..Len(s) /\ Len(s) \in Nat
  BY DEF Ranges
<1>2. Middle(r) \in r[1]..(r[2] - 1)
  BY <1>1 DEF Middle
<1>3. Middle(r) + 1 \in 0..Len(s) /\ Middle(r) \in 0..Len(s)
  BY <1>1, <1>2
<1> QED BY <1>1, <1>2, <1>3 DEF Ranges

(* The ranges of at most n elements.                                       *)
Short(s, n) == {r \in Ranges(s) : r[2] - r[1] <= n}

Halves(s, x, n) == \E bound : bound = [r \in Short(s, n) |-> Halved(s, x, bound, r)]

(* The halving is defined on ranges of any length,                         *)
LEMMA HalvingDefined ==
  ASSUME NEW s \in Seq(Int), NEW x
  PROVE  \A n \in Nat : Halves(s, x, n)
<1> DEFINE Bad == {n \in Nat : ~Halves(s, x, n)}
<1> SUFFICES ASSUME Bad # {} PROVE FALSE
  OBVIOUS
<1>1. PICK n \in Bad : \A m \in Bad : n <= m
  <2>1. Bad \in SUBSET Nat
    OBVIOUS
  <2> HIDE DEF Bad
  <2> QED BY <2>1, Least, Zenon
<1>2. n \in Nat /\ ~Halves(s, x, n)
  OBVIOUS
<1>3. CASE n = 0
  <2> DEFINE bound == [r \in Short(s, n) |-> r[1]]
  <2>1. ASSUME NEW r \in Short(s, n), NEW b
        PROVE  Halved(s, x, b, r) = r[1]
    <3>1. r[1] \in Int /\ r[2] \in Int /\ r[2] - r[1] <= 0
      BY <1>3 DEF Short, Ranges
    <3> QED BY <3>1 DEF Halved
  <2>2. bound = [r \in Short(s, n) |-> Halved(s, x, bound, r)]
    BY <2>1
  <2> QED BY <2>2, <1>2, Zenon DEF Halves
<1>4. CASE n # 0
  <2>1. n - 1 \in Nat /\ n - 1 \notin Bad
    BY <1>1, <1>2, <1>4
  <2>2. Halves(s, x, n - 1)
    BY <2>1
  <2>3. PICK b : b = [r \in Short(s, n - 1) |-> Halved(s, x, b, r)]
    BY <2>2 DEF Halves
  <2> DEFINE c == [r \in Short(s, n) |-> Halved(s, x, b, r)]
  <2>4. ASSUME NEW r \in Short(s, n - 1)
        PROVE  c[r] = b[r]
    <3>1. r \in Short(s, n)
      BY <1>2 DEF Short, Ranges
    <3>2. b[r] = Halved(s, x, b, r)
      BY <2>3
    <3> QED BY <3>1, <3>2
  <2> HIDE DEF c
  <2>5. ASSUME NEW r \in Short(s, n)
        PROVE  Halved(s, x, b, r) = Halved(s, x, c, r)
    <3>1. CASE r[2] <= r[1]
      BY <3>1 DEF Halved
    <3>2. CASE ~(r[2] <= r[1])
      <4>0. r \in Ranges(s)
        BY DEF Short
      <4>5. r[2] - r[1] <= n
        BY DEF Short
      <4>1. /\ r[1] \in 0..Len(s) /\ r[2] \in 0..Len(s)
            /\ Middle(r) \in r[1]..(r[2] - 1)
            /\ <<Middle(r) + 1, r[2]>> \in Ranges(s) /\ <<r[1], Middle(r)>> \in Ranges(s)
        BY <3>2, <4>0, HalvesAreShorter
      <4>2. r[2] - (Middle(r) + 1) <= n - 1 /\ Middle(r) - r[1] <= n - 1
        <5>1. r[1] \in Int /\ r[2] \in Int /\ Middle(r) \in Int /\ r[1] <= Middle(r) /\ Middle(r) <= r[2] - 1
          BY <4>1
        <5> QED BY <5>1, <4>5, <1>2, SMTT(30)
      <4>3. <<Middle(r) + 1, r[2]>> \in Short(s, n - 1) /\ <<r[1], Middle(r)>> \in Short(s, n - 1)
        BY <4>1, <4>2 DEF Short
      <4>4. c[<<Middle(r) + 1, r[2]>>] = b[<<Middle(r) + 1, r[2]>>] /\ c[<<r[1], Middle(r)>>] = b[<<r[1], Middle(r)>>]
        BY <4>3, <2>4
      <4> QED BY <4>4 DEF Halved
    <3> QED BY <3>1, <3>2
  <2>6. c = [r \in Short(s, n) |-> Halved(s, x, c, r)]
    BY <2>5 DEF c
  <2> QED BY <2>6, <1>2 DEF Halves
<1> QED BY <1>3, <1>4

(* so that its definition may be used as an equation.                      *)
LEMMA HalvingUnfolds ==
  ASSUME NEW s \in Seq(Int), NEW x
  PROVE  \A r \in Ranges(s) : Halving(s, x)[r] = Halved(s, x, Halving(s, x), r)
<1>1. Len(s) \in Nat
  OBVIOUS
<1>2. Halves(s, x, Len(s))
  BY <1>1, HalvingDefined
<1>3. Short(s, Len(s)) = Ranges(s)
  BY <1>1 DEF Short, Ranges
<1>4. \E bound : bound = [r \in Ranges(s) |-> Halved(s, x, bound, r)]
  BY <1>2, <1>3, Zenon DEF Halves
<1>5. Halving(s, x) = [r \in Ranges(s) |-> Halved(s, x, Halving(s, x), r)]
  BY <1>4, Zenon DEF Halving
<1> QED BY <1>5

(* b divides a range into what is less than x and what is not.             *)
Divides(s, x, r, b) ==
  /\ b \in r[1]..r[2]
  /\ \A k \in (r[1] + 1)..b : s[k] < x
  /\ \A k \in (b + 1)..r[2] : ~(s[k] < x)

(* On a list in order the halving ends where x belongs.                    *)
LEMMA HalvingDivides ==
  ASSUME NEW s \in Seq(Int), NEW x \in Int, \A i, j \in 1..Len(s) : i < j => s[i] <= s[j]
  PROVE  \A r \in Ranges(s) : r[1] <= r[2] => Divides(s, x, r, Halving(s, x)[r])
<1> DEFINE b == Halving(s, x)
           Bad == {n \in Nat : \E r \in Ranges(s) : r[2] - r[1] = n /\ ~Divides(s, x, r, b[r])}
<1>0. Len(s) \in Nat /\ \A i \in 1..Len(s) : s[i] \in Int
  OBVIOUS
<1>1. \A r \in Ranges(s) : b[r] = Halved(s, x, b, r)
  BY HalvingUnfolds
<1> HIDE DEF b
<1>2. ASSUME Bad # {} PROVE FALSE
  <2>1. PICK n \in Bad : \A m \in Bad : n <= m
    <3>1. Bad \in SUBSET Nat
      OBVIOUS
    <3> HIDE DEF Bad
    <3> QED BY <3>1, <1>2, Least, Zenon
  <2>2. PICK r \in Ranges(s) : r[2] - r[1] = n /\ ~Divides(s, x, r, b[r])
    OBVIOUS
  <2>3. n \in Nat /\ r[1] \in 0..Len(s) /\ r[2] \in 0..Len(s)
    BY DEF Ranges
  <2>4. ASSUME NEW q \in Ranges(s), q[1] <= q[2], q[2] - q[1] < n
        PROVE  Divides(s, x, q, b[q])
    <3>1. q[2] - q[1] \in Nat
      BY <2>4 DEF Ranges
    <3>2. q[2] - q[1] \notin Bad
      BY <3>1, <2>1, <2>3, <2>4
    <3> QED BY <3>1, <3>2
  <2> HIDE DEF Bad
  <2>5. CASE n = 0
    <3>1. r[1] = r[2] /\ r[2] <= r[1]
      BY <2>2, <2>3, <2>5, <1>0
    <3>2. b[r] = r[1]
      BY <3>1, <1>1, Zenon DEF Halved
    <3> QED BY <3>1, <3>2, <2>2, <2>3, <1>0 DEF Divides
  <2>6. CASE n # 0
    <3> DEFINE m == Middle(r)
    <3>1. /\ m \in r[1]..(r[2] - 1)
          /\ <<m + 1, r[2]>> \in Ranges(s) /\ <<r[1], m>> \in Ranges(s)
      <4>1. ~(r[2] <= r[1])
        BY <2>2, <2>3, <2>6
      <4> QED BY <4>1, HalvesAreShorter
    <3>2. b[r] = IF s[m + 1] < x THEN b[<<m + 1, r[2]>>] ELSE b[<<r[1], m>>]
      <4>1. ~(r[2] <= r[1])
        BY <2>2, <2>3, <2>6
      <4> QED BY <4>1, <1>1 DEF Halved
    <3> HIDE DEF m
    <3>3. CASE s[m + 1] < x
      <4>1. Divides(s, x, <<m + 1, r[2]>>, b[r])
        <5> DEFINE q == <<m + 1, r[2]>>
        <5>1. q \in Ranges(s) /\ q[1] <= q[2] /\ q[2] - q[1] < n /\ b[r] = b[q]
          <6>1. b[r] = b[q]
            BY <3>2, <3>3, Zenon
          <6>2. q \in Ranges(s)
            BY <3>1
          <6>3. q[1] <= q[2] /\ q[2] - q[1] < n
            BY <3>1, <2>2, <2>3, SMTT(30)
          <6> QED BY <6>1, <6>2, <6>3, Zenon
        <5> HIDE DEF q
        <5>2. Divides(s, x, q, b[r])
          BY <5>1, <2>4
        <5> QED BY <5>2 DEF q
      <4>2. /\ b[r] \in (m + 1)..r[2]
            /\ \A k \in (m + 2)..b[r] : s[k] < x
            /\ \A k \in (b[r] + 1)..r[2] : ~(s[k] < x)
        BY <4>1, <3>1, <2>3, SMTT(30) DEF Divides
      <4>3. ASSUME NEW k \in (r[1] + 1)..(m + 1) PROVE s[k] < x
        <5>0. m \in Nat /\ m < r[2] /\ r[1] \in Nat /\ r[2] \in Nat /\ r[2] <= Len(s)
          BY <3>1, <2>3, <1>0, SMTT(30)
        <5>1. k \in 1..Len(s) /\ m + 1 \in 1..Len(s) /\ (k < m + 1 \/ k = m + 1)
          <6>1. k \in Int /\ r[1] + 1 <= k /\ k <= m + 1
            BY <5>0
          <6> QED BY <6>1, <5>0, <1>0, SMTT(30)
        <5>2. s[k] <= s[m + 1] /\ s[k] \in Int /\ s[m + 1] \in Int
          BY <5>1, <1>0
        <5> QED BY <5>2, <3>3
      <4>4. \A k \in (r[1] + 1)..b[r] : s[k] < x
        <5> TAKE k \in (r[1] + 1)..b[r]
        <5>1. k \in (r[1] + 1)..(m + 1) \/ k \in (m + 2)..b[r]
          BY <4>2, <3>1, <2>3
        <5> QED BY <5>1, <4>2, <4>3
      <4>5. b[r] \in r[1]..r[2]
        BY <4>2, <3>1, <2>3
      <4> QED BY <4>2, <4>4, <4>5, <2>2 DEF Divides
    <3>4. CASE ~(s[m + 1] < x)
      <4>1. Divides(s, x, <<r[1], m>>, b[r])
        <5> DEFINE q == <<r[1], m>>
        <5>1. q \in Ranges(s) /\ q[1] <= q[2] /\ q[2] - q[1] < n /\ b[r] = b[q]
          <6>1. b[r] = b[q]
            BY <3>2, <3>4, Zenon
          <6>2. q \in Ranges(s)
            BY <3>1
          <6>3. q[1] <= q[2] /\ q[2] - q[1] < n
            BY <3>1, <2>2, <2>3
          <6> QED BY <6>1, <6>2, <6>3, Zenon
        <5> HIDE DEF q
        <5>2. Divides(s, x, q, b[r])
          BY <5>1, <2>4
        <5> QED BY <5>2 DEF q
      <4>2. /\ b[r] \in r[1]..m
            /\ \A k \in (r[1] + 1)..b[r] : s[k] < x
            /\ \A k \in (b[r] + 1)..m : ~(s[k] < x)
        BY <4>1, <3>1, <2>3 DEF Divides
      <4>3. ASSUME NEW k \in (m + 1)..r[2] PROVE ~(s[k] < x)
        <5>0. m \in Nat /\ m < r[2] /\ r[1] \in Nat /\ r[2] \in Nat /\ r[2] <= Len(s)
          BY <3>1, <2>3, <1>0
        <5>1. k \in 1..Len(s) /\ m + 1 \in 1..Len(s) /\ (m + 1 < k \/ k = m + 1)
          BY <5>0, <1>0
        <5>2. s[m + 1] <= s[k] /\ s[k] \in Int /\ s[m + 1] \in Int
          BY <5>1, <1>0
        <5> QED BY <5>2, <3>4
      <4>4. \A k \in (b[r] + 1)..r[2] : ~(s[k] < x)
        <5> TAKE k \in (b[r] + 1)..r[2]
        <5>1. k \in (b[r] + 1)..m \/ k \in (m + 1)..r[2]
          BY <4>2, <3>1, <2>3
        <5> QED BY <5>1, <4>2, <4>3
      <4>5. b[r] \in r[1]..r[2]
        BY <4>2, <3>1, <2>3
      <4> QED BY <4>2, <4>4, <4>5, <2>2 DEF Divides
    <3> QED BY <3>3, <3>4
  <2> QED BY <2>5, <2>6
<1>3. ASSUME NEW r \in Ranges(s), r[1] <= r[2]
      PROVE  Divides(s, x, r, b[r])
  <2>1. r[2] - r[1] \in Nat
    BY <1>3 DEF Ranges
  <2> QED BY <2>1, <1>2
<1> QED BY <1>3 DEF b

(* So a binary search in a list in order finds what is in it.              *)
LEMMA SearchFinds ==
  ASSUME NEW s \in Seq(Int), NEW x \in Int, \A i, j \in 1..Len(s) : i < j => s[i] <= s[j]
  PROVE  /\ BinarySearch(s, x) <=> x \in Range(s)
         /\ BinarySearch(s, x) => LowerBound(s, x) + 1 \in 1..Len(s) /\ s[LowerBound(s, x) + 1] = x
<1> DEFINE b == LowerBound(s, x)
           r == <<0, Len(s)>>
<1>0. Len(s) \in Nat /\ DOMAIN s = 1..Len(s) /\ \A i \in 1..Len(s) : s[i] \in Int
  OBVIOUS
<1>1. Divides(s, x, r, b)
  <2>1. r \in Ranges(s) /\ r[1] <= r[2]
    BY <1>0 DEF Ranges
  <2>2. b = Halving(s, x)[r]
    BY LowerBoundHalves
  <2> HIDE DEF b, r
  <2> QED BY <2>1, <2>2, HalvingDivides
<1>2. /\ b \in 0..Len(s)
      /\ \A k \in 1..b : s[k] < x
      /\ \A k \in (b + 1)..Len(s) : ~(s[k] < x)
  <2> HIDE DEF b
  <2> QED BY <1>0, <1>1 DEF Divides
<1>3. BinarySearch(s, x) <=> b + 1 <= Len(s) /\ s[b + 1] = x
  BY DEF BinarySearch
<1> HIDE DEF b
<1>4. ASSUME x \in Range(s) PROVE b + 1 <= Len(s) /\ s[b + 1] = x
  <2>1. PICK k \in 1..Len(s) : s[k] = x
    BY <1>4, <1>0 DEF Range
  <2>2. b < k
    BY <2>1, <1>0, <1>2
  <2>3. b + 1 \in 1..Len(s) /\ (b + 1 < k \/ b + 1 = k) /\ b + 1 \in (b + 1)..Len(s)
    BY <2>1, <2>2, <1>0, <1>2
  <2>4. s[b + 1] <= s[k] /\ ~(s[b + 1] < x) /\ s[b + 1] \in Int
    BY <2>1, <2>3, <1>0, <1>2
  <2> QED BY <2>1, <2>3, <2>4
<1>5. ASSUME b + 1 <= Len(s), s[b + 1] = x PROVE x \in Range(s) /\ b + 1 \in 1..Len(s)
  BY <1>5, <1>0, <1>2 DEF Range
<1> QED BY <1>3, <1>4, <1>5 DEF b

-----------------------------------------------------------------------------
(* Policies and capability sets.                                           *)

(* Policies with lists of any tokens and names; an identity is a digest.   *)
Digests == [lists: [Lists -> Seq(Nat)], devices: Seq(Nat), minimum: Nat, classes: SUBSET STRING]
PolicyDocuments ==
  [lists: [Lists -> Seq(Nat)], devices: Seq(Nat), minimum: Nat, classes: Seq(STRING), id: Digests \cup {0}]

(* The spelling of a list that is read.                                    *)
Spelled(l, s) == [i \in DOMAIN s |-> IF l \in NameLists THEN ResolvedName(s[i]) ELSE CanonicalToken(s[i])]

(* Respelling a token or a name.                                           *)
LEMMA Respelling ==
  ASSUME NEW t \in Nat
  PROVE  /\ CanonicalToken(t) \in Nat /\ ResolvedName(t) \in Nat
         /\ WellFormed(t) => CanonicalToken(t) > Capitals
         /\ t > Capitals => CanonicalToken(t) = t /\ WellFormed(t)
         /\ ResolvedName(t) # ExtensionVariant
         /\ t # ExtensionVariant => ResolvedName(t) = t
         /\ Resolves(t) => Resolves(ResolvedName(t))
         /\ CanonicalToken(CanonicalToken(t)) = CanonicalToken(t) \/ t = 0
         /\ ResolvedName(ResolvedName(t)) = ResolvedName(t)
BY DEF CanonicalToken, ResolvedName, WellFormed, Capitals, ExtensionVariant, ExtensionName, Resolves, CoreNames

(* It keeps the number of its elements.                                    *)
LEMMA SpelledList ==
  ASSUME NEW l, NEW s \in Seq(Nat)
  PROVE  /\ Spelled(l, s) \in Seq(Nat) /\ Len(Spelled(l, s)) = Len(s)
         /\ \A i \in 1..Len(s) : Spelled(l, s)[i] = IF l \in NameLists THEN ResolvedName(s[i]) ELSE CanonicalToken(s[i])
<1>1. Len(s) \in Nat /\ DOMAIN s = 1..Len(s) /\ \A i \in 1..Len(s) : s[i] \in Nat
  OBVIOUS
<1>2. \A i \in 1..Len(s) : ResolvedName(s[i]) \in Nat /\ CanonicalToken(s[i]) \in Nat
  BY <1>1, Respelling
<1>3. Spelled(l, s) \in [1..Len(s) -> Nat]
  BY <1>1, <1>2 DEF Spelled
<1>4. Spelled(l, s) \in Seq(Nat) /\ Len(Spelled(l, s)) = Len(s)
  BY <1>1, <1>3
<1> QED BY <1>1, <1>4 DEF Spelled

(* What is read is sorted, and is spelled canonically.                     *)
LEMMA CanonicalLists ==
  ASSUME NEW p \in PolicyDocuments, NEW l \in Lists
  PROVE  LET s == p.lists[l]
             t == CanonicalPolicy(p).lists[l]
         IN /\ t = Sorted(Spelled(l, s)) /\ t \in Seq(Nat) /\ Len(t) = Len(s)
            /\ Range(t) = Range(Spelled(l, s))
            /\ \A i, j \in 1..Len(t) : i < j => t[i] <= t[j]
            /\ IsInjective(t) <=> IsInjective(Spelled(l, s))
<1>1. CanonicalPolicy(p).lists[l] = Sorted(Spelled(l, p.lists[l]))
  BY DEF CanonicalPolicy, Spelled, PolicyDocuments
<1>2. p.lists[l] \in Seq(Nat)
  BY Zenon DEF PolicyDocuments
<1>3. Spelled(l, p.lists[l]) \in Seq(Nat) /\ Len(Spelled(l, p.lists[l])) = Len(p.lists[l])
  BY <1>2, SpelledList
<1> DEFINE s == Spelled(l, p.lists[l])
<1> HIDE DEF s
<1>4. s \in Seq(Nat) /\ Nat \in SUBSET Int
  BY <1>3 DEF s
<1>5. /\ Sorted(s) \in Seq(Nat) /\ Len(Sorted(s)) = Len(s) /\ Range(Sorted(s)) = Range(s)
      /\ \A i, j \in 1..Len(s) : i < j => Sorted(s)[i] <= Sorted(s)[j]
      /\ IsInjective(Sorted(s)) <=> IsInjective(s)
  BY <1>4, SortedLists
<1> QED BY <1>1, <1>3, <1>5 DEF s

(* Reading changes the lists of a policy only.                             *)
LEMMA CanonicalKeeps ==
  ASSUME NEW p \in PolicyDocuments
  PROVE  /\ CanonicalPolicy(p) \in PolicyDocuments
         /\ CanonicalPolicy(p).devices = p.devices /\ CanonicalPolicy(p).classes = p.classes
         /\ CanonicalPolicy(p).minimum = p.minimum /\ CanonicalPolicy(p).id = p.id
<1> DEFINE q == CanonicalPolicy(p)
           lists == [l \in Lists |-> Sorted(Spelled(l, p.lists[l]))]
<1>1. q = [p EXCEPT !.lists = lists]
  BY DEF CanonicalPolicy, Spelled
<1>2. ASSUME NEW l \in Lists PROVE Sorted(Spelled(l, p.lists[l])) \in Seq(Nat)
  BY CanonicalLists
<1>3. lists \in [Lists -> Seq(Nat)]
  BY <1>2
<1> HIDE DEF lists, q
<1>4. /\ q \in PolicyDocuments
      /\ q.devices = p.devices /\ q.classes = p.classes /\ q.minimum = p.minimum /\ q.id = p.id
  BY <1>1, <1>3, Zenon DEF PolicyDocuments
<1> QED BY <1>4 DEF q

(* A list that is spelled canonically is respelled as itself;              *)
Canonically(l, s) ==
  \A t \in Range(s) : IF l \in NameLists THEN t # ExtensionVariant ELSE t > Capitals

(* A list in canonical spelling is spelled as it is.                       *)
LEMMA CanonicalIsSpelled ==
  ASSUME NEW l, NEW s \in Seq(Nat), Canonically(l, s)
  PROVE  Spelled(l, s) = s
<1>1. Len(s) \in Nat /\ DOMAIN s = 1..Len(s) /\ \A i \in 1..Len(s) : s[i] \in Nat
  OBVIOUS
<1>2. ASSUME NEW i \in 1..Len(s)
      PROVE  (IF l \in NameLists THEN ResolvedName(s[i]) ELSE CanonicalToken(s[i])) = s[i]
  <2>1. s[i] \in Range(s) /\ s[i] \in Nat
    BY <1>1 DEF Range
  <2>2. IF l \in NameLists THEN s[i] # ExtensionVariant ELSE s[i] > Capitals
    BY <2>1 DEF Canonically
  <2> QED BY <2>1, <2>2, Respelling, Zenon
<1>3. Spelled(l, s) = [i \in 1..Len(s) |-> s[i]]
  BY <1>1, <1>2 DEF Spelled
<1>4. s = [i \in 1..Len(s) |-> s[i]]
  BY <1>1
<1> QED BY <1>3, <1>4

(* and what is spelled is canonical, and repeats what the list repeats.    *)
LEMMA SpelledIsCanonical ==
  ASSUME NEW l, NEW s \in Seq(Nat), l \in NameLists \/ \A t \in Range(s) : WellFormed(t)
  PROVE  /\ Canonically(l, Spelled(l, s))
         /\ IsInjective(Spelled(l, s)) => IsInjective(s)
<1>1. Len(s) \in Nat /\ DOMAIN s = 1..Len(s) /\ \A i \in 1..Len(s) : s[i] \in Nat /\ s[i] \in Range(s)
  BY DEF Range
<1>2. /\ Spelled(l, s) \in Seq(Nat) /\ Len(Spelled(l, s)) = Len(s)
      /\ \A i \in 1..Len(s) : Spelled(l, s)[i] = IF l \in NameLists THEN ResolvedName(s[i]) ELSE CanonicalToken(s[i])
  BY SpelledList
<1>3. DOMAIN Spelled(l, s) = 1..Len(s)
  BY <1>2
<1>4. ASSUME NEW i \in 1..Len(s)
      PROVE  IF l \in NameLists THEN Spelled(l, s)[i] # ExtensionVariant ELSE Spelled(l, s)[i] > Capitals
  <2>1. s[i] \in Nat /\ (l \notin NameLists => WellFormed(s[i]))
    BY <1>1, Zenon
  <2>2. Spelled(l, s)[i] = IF l \in NameLists THEN ResolvedName(s[i]) ELSE CanonicalToken(s[i])
    BY <1>2, Zenon
  <2>3. /\ WellFormed(s[i]) => CanonicalToken(s[i]) > Capitals
        /\ ResolvedName(s[i]) # ExtensionVariant
    BY <2>1, Respelling, Zenon
  <2> QED BY <2>1, <2>2, <2>3, Zenon
<1>5. Canonically(l, Spelled(l, s))
  BY <1>3, <1>4 DEF Canonically, Range
<1>6. ASSUME IsInjective(Spelled(l, s)) PROVE IsInjective(s)
  <2> SUFFICES ASSUME NEW i \in 1..Len(s), NEW j \in 1..Len(s), s[i] = s[j] PROVE i = j
    BY <1>1 DEF IsInjective
  <2>1. Spelled(l, s)[i] = Spelled(l, s)[j]
    BY <1>2
  <2> QED BY <2>1, <1>3, <1>6 DEF IsInjective
<1> QED BY <1>5, <1>6, Zenon

(* Two policies that differ in their lists only have one digest when the   *)
(* lists are permutations of each other.                                   *)
LEMMA DigestsAgree ==
  ASSUME NEW p, NEW q, q.devices = p.devices, q.minimum = p.minimum, q.classes = p.classes
  PROVE  PolicyDigest(p) = PolicyDigest(q) <=> \A l \in Lists : Sorted(p.lists[l]) = Sorted(q.lists[l])
<1> DEFINE lp == [l \in Lists |-> Sorted(p.lists[l])]
           lq == [l \in Lists |-> Sorted(q.lists[l])]
           ds == Sorted(p.devices)
           cs == Range(p.classes)
           m == p.minimum
<1>1. PolicyDigest(p) = [lists |-> lp, devices |-> ds, minimum |-> m, classes |-> cs]
  BY DEF PolicyDigest
<1>2. PolicyDigest(q) = [lists |-> lq, devices |-> ds, minimum |-> m, classes |-> cs]
  BY DEF PolicyDigest
<1>3. lp = lq <=> \A l \in Lists : Sorted(p.lists[l]) = Sorted(q.lists[l])
  OBVIOUS
<1> HIDE DEF lp, lq, ds, cs, m
<1>4. PolicyDigest(p) = PolicyDigest(q) <=> lp = lq
  BY <1>1, <1>2
<1> QED BY <1>3, <1>4

(* The searches of validate() find what contradicts in lists in order.     *)
LEMMA SearchesFind ==
  ASSUME NEW s \in Seq(Nat), NEW t \in Seq(Nat), \A i, j \in 1..Len(t) : i < j => t[i] <= t[j]
  PROVE  (\A x \in Range(s) : ~BinarySearch(t, x)) <=> Disjoint(s, t)
<1>1. t \in Seq(Int)
  OBVIOUS
<1>2. \A x \in Range(s) : x \in Int
  BY DEF Range
<1>3. \A x \in Range(s) : BinarySearch(t, x) <=> x \in Range(t)
  BY <1>1, <1>2, SearchFinds
<1> QED BY <1>3 DEF Disjoint

(* A policy in canonical form, without repetitions or contradictions, is   *)
(* read.                                                                   *)
LEMMA ReloadableIsReadable ==
  ASSUME NEW p \in PolicyDocuments, ValidPolicy(p), p.id = PolicyDigest(p), ReloadablePolicy(p)
  PROVE  PolicyReadable(p)
<1> DEFINE q == CanonicalPolicy(p)
<1>1. \A l \in Lists : p.lists[l] \in Seq(Nat)
  BY DEF PolicyDocuments
<1>2. ASSUME NEW l \in Lists
      PROVE  Canonically(l, p.lists[l]) /\ IsInjective(p.lists[l])
  <2>1. l \in NameLists \/ l \in TokenLists
    BY DEF Lists
  <2>2. Canonically(l, p.lists[l])
    <3>1. CASE l \in NameLists
      BY <3>1 DEF ReloadablePolicy, Canonically
    <3>2. CASE l \notin NameLists
      BY <3>2, <2>1, Zenon DEF ReloadablePolicy, Canonically
    <3> QED BY <3>1, <3>2, Zenon
  <2> QED BY <2>2 DEF ReloadablePolicy
<1>3. ASSUME NEW l \in Lists
      PROVE  /\ q.lists[l] = Sorted(p.lists[l])
             /\ q.lists[l] \in Seq(Nat) /\ Len(q.lists[l]) = Len(p.lists[l]) /\ Range(q.lists[l]) = Range(p.lists[l])
             /\ \A i, j \in 1..Len(q.lists[l]) : i < j => q.lists[l][i] <= q.lists[l][j]
             /\ IsInjective(q.lists[l])
             /\ Sorted(q.lists[l]) = q.lists[l]
  <2>1. Spelled(l, p.lists[l]) = p.lists[l]
    BY <1>1, <1>2, CanonicalIsSpelled, Zenon
  <2>2. /\ q.lists[l] = Sorted(p.lists[l])
        /\ q.lists[l] \in Seq(Nat) /\ Len(q.lists[l]) = Len(p.lists[l]) /\ Range(q.lists[l]) = Range(p.lists[l])
        /\ \A i, j \in 1..Len(q.lists[l]) : i < j => q.lists[l][i] <= q.lists[l][j]
        /\ IsInjective(q.lists[l])
    BY <2>1, <1>2, CanonicalLists, Zenon
  <2> HIDE DEF q
  <2>3. q.lists[l] \in Seq(Int)
    BY <2>2
  <2> QED BY <2>2, <2>3, SortedStays
<1>4. q.devices = p.devices /\ q.minimum = p.minimum /\ q.classes = p.classes
  BY CanonicalKeeps, Zenon
<1>5. \A l \in TokenLists : \A token \in Range(p.lists[l]) : WellFormed(token)
  BY DEF ReloadablePolicy, WellFormed, Capitals
<1>6. p.id = PolicyDigest(q)
  <2> HIDE DEF q
  <2>1. \A l \in Lists : Sorted(p.lists[l]) = Sorted(q.lists[l])
    BY <1>3, Zenon
  <2> QED BY <2>1, <1>4, DigestsAgree
<1>7. ValidPolicy(q)
  <2> HIDE DEF q
  <2>0. {"required", "denied", "allowed", "forbidden"} \subseteq Lists /\ NameLists \subseteq Lists
    BY Zenon DEF Lists, TokenLists, NameLists
  <2>1. /\ \A l \in Lists : Len(q.lists[l]) <= MaxDimensions
        /\ Len(q.devices) <= MaxDimensions
    BY <1>3, <1>4, Zenon DEF ValidPolicy
  <2>2. \A l \in NameLists : \A name \in Range(q.lists[l]) : Resolves(name)
    BY <2>0, <1>3, Zenon DEF ValidPolicy
  <2>3. /\ Disjoint(q.lists["required"], q.lists["denied"])
        /\ Disjoint(q.lists["allowed"], q.lists["forbidden"])
    BY <2>0, <1>3, Zenon DEF ReloadablePolicy, Disjoint
  <2>4. /\ \A name \in Range(q.lists["required"]) : ~BinarySearch(q.lists["denied"], name)
        /\ \A vendor \in Range(q.lists["allowed"]) : ~BinarySearch(q.lists["forbidden"], vendor)
    BY <2>0, <2>3, <1>3, SearchesFind, Zenon
  <2> QED BY <2>1, <2>2, <2>4 DEF ValidPolicy
<1>8. Len(p.classes) <= MaxDimensions /\ p.minimum <= MaxString
  BY DEF ReloadablePolicy
<1>9. \A l \in Lists : IsInjective(q.lists[l])
  BY <1>3
<1> QED BY <1>5, <1>6, <1>7, <1>8, <1>9, Zenon DEF PolicyReadable

(* Only such a policy is, and what was read is one.                        *)
LEMMA ReadableIsReloadable ==
  ASSUME NEW p \in PolicyDocuments, p.id = PolicyDigest(p), PolicyReadable(p)
  PROVE  /\ ReloadablePolicy(p)
         /\ CanonicalPolicy(p) \in PolicyDocuments /\ ValidPolicy(CanonicalPolicy(p))
         /\ CanonicalPolicy(p).id = PolicyDigest(CanonicalPolicy(p))
         /\ ReloadablePolicy(CanonicalPolicy(p))
<1> DEFINE q == CanonicalPolicy(p)
<1>0. {"required", "denied", "allowed", "forbidden"} \subseteq Lists
  BY DEF Lists, TokenLists, NameLists
<1>1. \A l \in Lists : p.lists[l] \in Seq(Nat)
  BY DEF PolicyDocuments
<1>2. /\ Len(p.classes) <= MaxDimensions /\ p.minimum <= MaxString
      /\ \A l \in TokenLists : \A token \in Range(p.lists[l]) : WellFormed(token)
      /\ \A l \in Lists : IsInjective(q.lists[l])
      /\ ValidPolicy(q)
      /\ p.id = PolicyDigest(q)
  BY Zenon DEF PolicyReadable
<1>3. q \in PolicyDocuments /\ q.devices = p.devices /\ q.classes = p.classes /\ q.minimum = p.minimum /\ q.id = p.id
  BY CanonicalKeeps, ZenonT(60)
<1>4. ASSUME NEW l \in Lists
      PROVE  /\ q.lists[l] \in Seq(Nat)
             /\ Range(q.lists[l]) = Range(Spelled(l, p.lists[l]))
             /\ \A i, j \in 1..Len(q.lists[l]) : i < j => q.lists[l][i] <= q.lists[l][j]
             /\ Canonically(l, Spelled(l, p.lists[l]))
             /\ IsInjective(p.lists[l])
  <2>1. l \in NameLists \/ \A t \in Range(p.lists[l]) : WellFormed(t)
    BY <1>2, ZenonT(60) DEF Lists
  <2>2. /\ q.lists[l] \in Seq(Nat)
        /\ Range(q.lists[l]) = Range(Spelled(l, p.lists[l]))
        /\ \A i, j \in 1..Len(q.lists[l]) : i < j => q.lists[l][i] <= q.lists[l][j]
        /\ IsInjective(q.lists[l]) <=> IsInjective(Spelled(l, p.lists[l]))
    BY CanonicalLists
  <2>3. /\ Canonically(l, Spelled(l, p.lists[l]))
        /\ IsInjective(Spelled(l, p.lists[l])) => IsInjective(p.lists[l])
    BY <2>1, <1>1, SpelledIsCanonical, Zenon
  <2> QED BY <2>2, <2>3, <1>2
<1> HIDE DEF q
<1>5. ASSUME NEW l \in Lists
      PROVE  Range(q.lists[l]) = Range(p.lists[l])
  <2>1. Sorted(p.lists[l]) = Sorted(q.lists[l])
    BY <1>2, <1>3, DigestsAgree, ZenonT(40)
  <2>2. Range(Sorted(p.lists[l])) = Range(p.lists[l]) /\ Range(Sorted(q.lists[l])) = Range(q.lists[l])
    <3>1. Nat \in SUBSET Int
      OBVIOUS
    <3> QED BY <3>1, <1>1, <1>4, SortedLists
  <2> QED BY <2>1, <2>2
<1>6. ASSUME NEW l \in Lists, NEW t \in Range(p.lists[l])
      PROVE  (l \in TokenLists => t > Capitals) /\ (l \in NameLists => t # ExtensionVariant)
  <2>1. t \in Range(Spelled(l, p.lists[l]))
    BY <1>4, <1>5, Zenon
  <2>2. IF l \in NameLists THEN t # ExtensionVariant ELSE t > Capitals
    BY <2>1, <1>4 DEF Canonically
  <2>3. l \in TokenLists => l \notin NameLists
    BY Zenon DEF TokenLists, NameLists
  <2> QED BY <2>2, <2>3
<1>7. /\ Disjoint(q.lists["required"], q.lists["denied"])
      /\ Disjoint(q.lists["allowed"], q.lists["forbidden"])
  <2>1. /\ \A name \in Range(q.lists["required"]) : ~BinarySearch(q.lists["denied"], name)
        /\ \A vendor \in Range(q.lists["allowed"]) : ~BinarySearch(q.lists["forbidden"], vendor)
    BY <1>2, Zenon DEF ValidPolicy
  <2> QED BY <2>1, <1>0, <1>4, SearchesFind, Zenon
<1>8. TokenLists \subseteq Lists /\ NameLists \subseteq Lists
  BY DEF Lists
<1>9. ReloadablePolicy(p)
  <2>1. /\ Disjoint(p.lists["required"], p.lists["denied"])
        /\ Disjoint(p.lists["allowed"], p.lists["forbidden"])
    BY <1>0, <1>5, <1>7 DEF Disjoint
  <2> QED BY <1>2, <1>4, <1>6, <1>8, <2>1, Zenon DEF ReloadablePolicy
<1>10. ReloadablePolicy(q)
  BY <1>2, <1>3, <1>5, <1>6, <1>7, <1>8, Zenon DEF ReloadablePolicy
<1> QED BY <1>2, <1>3, <1>9, <1>10 DEF q

CapabilityRecords == [key: Nat, state: STRING, tokens: Seq(Nat), prerelease: Nat]

(* The tokens of a value in canonical form: each once, and in order.       *)
LEMMA TokensInOrder ==
  ASSUME NEW ts \in Seq(Nat), \A t \in Range(ts) : WellFormed(t)
  PROVE  /\ CanonicalTokens(ts) \in Seq(Nat)
         /\ Range(CanonicalTokens(ts)) = {CanonicalToken(t) : t \in Range(ts)}
         /\ \A i, j \in 1..Len(CanonicalTokens(ts)) : i < j => CanonicalTokens(ts)[i] < CanonicalTokens(ts)[j]
         /\ \A t \in Range(CanonicalTokens(ts)) : t > Capitals
         /\ ts # <<>> => CanonicalTokens(ts) # <<>>
<1> DEFINE T == {CanonicalToken(t) : t \in Range(ts)}
           n == Len(ts)
           f == [i \in 1..n |-> CanonicalToken(ts[i])]
           c == CanonicalTokens(ts)
<1>1. n \in Nat /\ DOMAIN ts = 1..n /\ \A i \in 1..n : ts[i] \in Nat /\ ts[i] \in Range(ts)
  BY DEF Range
<1>2. \A t \in Range(ts) : t \in Nat /\ CanonicalToken(t) \in Nat /\ CanonicalToken(t) > Capitals
  <2>1. \A t \in Range(ts) : t \in Nat
    BY <1>1, Zenon DEF Range
  <2> QED BY <2>1, Respelling, Zenon
<1>3. T \in SUBSET Int /\ T \in SUBSET Nat /\ \A t \in T : t > Capitals
  BY <1>2
<1>4. IsFiniteSet(T)
  <2>1. f \in [1..n -> T]
    BY <1>1
  <2>2. \A t \in T : \E i \in 1..n : f[i] = t
    BY <1>1 DEF Range
  <2>3. IsFiniteSet(1..n)
    BY <1>1, FS_Interval
  <2> HIDE DEF f, T
  <2>4. f \in Surjection(1..n, T)
    BY <2>1, <2>2 DEF Surjection
  <2> QED BY <2>3, <2>4, FS_Surjection
<1>5. c = Ascending(T)
  BY DEF CanonicalTokens
<1> DEFINE m == Cardinality(T)
<1>6. /\ m \in Nat /\ c \in [1..m -> T] /\ Range(c) = T
      /\ \A i, j \in 1..m : i < j <=> c[i] < c[j]
  <2> HIDE DEF T
  <2> QED BY <1>3, <1>4, <1>5, AscendingLists
<1> HIDE DEF c, m
<1>7. c \in Seq(Nat) /\ Len(c) = m
  <2>1. c \in [1..m -> Nat]
    <3> HIDE DEF T
    <3> QED BY <1>3, <1>6, Zenon
  <2> QED BY <2>1, <1>6
<1>8. ASSUME ts # <<>> PROVE c # <<>>
  <2>1. 1 \in 1..n
    BY <1>8, <1>1
  <2>2. CanonicalToken(ts[1]) \in T
    BY <2>1, <1>1
  <2>3. T # {}
    BY <2>2
  <2> HIDE DEF T
  <2> QED BY <2>3, <1>6 DEF Range
<1>9. Range(c) = {CanonicalToken(t) : t \in Range(ts)} /\ \A t \in Range(c) : t > Capitals
  BY <1>3, <1>6
<1> HIDE DEF T, n, f
<1> QED BY <1>6, <1>7, <1>8, <1>9 DEF c

(* The canonical form is its own.                                          *)
LEMMA TokensStay ==
  ASSUME NEW ts \in Seq(Nat), \A t \in Range(ts) : WellFormed(t)
  PROVE  CanonicalTokens(CanonicalTokens(ts)) = CanonicalTokens(ts)
<1> DEFINE c == CanonicalTokens(ts)
           T == Range(c)
<1>1. /\ c \in Seq(Nat)
      /\ \A i, j \in 1..Len(c) : i < j => c[i] < c[j]
      /\ \A t \in Range(c) : t > Capitals
  BY TokensInOrder
<1> HIDE DEF c
<1>2. Len(c) \in Nat /\ c \in [1..Len(c) -> T] /\ T \in SUBSET Int /\ T \in SUBSET Nat
  BY <1>1 DEF Range
<1>3. \A t \in T : CanonicalToken(t) = t
  BY <1>1, <1>2, Respelling
<1>4. {CanonicalToken(t) : t \in T} = T
  BY <1>3
<1>5. CanonicalTokens(c) = Ascending(T)
  BY <1>4, Zenon DEF CanonicalTokens
<1>6. c = Ascending(T)
  <2>1. Range(c) = T
    OBVIOUS
  <2> HIDE DEF T
  <2> QED BY <2>1, <1>1, <1>2, AscendingUnique, Zenon
<1> QED BY <1>5, <1>6 DEF c

(* A record in canonical form.                                             *)
LEMMA RecordCanonical ==
  ASSUME NEW r \in CapabilityRecords, RecordAccepted(r)
  PROVE  LET c == CanonicalRecord(r)
         IN /\ c \in CapabilityRecords /\ c.key = ResolvedName(r.key) /\ c.state = r.state /\ c.prerelease = r.prerelease
            /\ ResolvedName(c.key) = c.key
            /\ RecordAccepted(c)
            /\ CanonicalRecord(c) = c
<1> DEFINE k == ResolvedName(r.key)
           ts == CanonicalTokens(r.tokens)
           pre == r.prerelease
           c == CanonicalRecord(r)
<1>0. Resolves(r.key) /\ \A t \in Range(r.tokens) : WellFormed(t)
  BY DEF RecordAccepted
<1>1. r.key \in Nat /\ r.state \in STRING /\ r.tokens \in Seq(Nat) /\ pre \in Nat
  BY DEF CapabilityRecords
<1>2. k \in Nat /\ Resolves(k) /\ ResolvedName(k) = k
  BY <1>0, <1>1, Respelling, ZenonT(60)
<1>3. ts \in Seq(Nat) /\ (\A t \in Range(ts) : t > Capitals) /\ (r.tokens # <<>> => ts # <<>>)
  BY <1>0, <1>1, TokensInOrder
<1>4. CanonicalTokens(ts) = ts
  BY <1>0, <1>1, TokensStay
<1>5. c = [key |-> k, state |-> r.state, tokens |-> ts, prerelease |-> pre]
  <2>1. c = [r EXCEPT !.key = k, !.tokens = ts]
    BY DEF CanonicalRecord
  <2> HIDE DEF k, ts, c
  <2> QED BY <2>1, Zenon DEF CapabilityRecords
<1> HIDE DEF k, ts, c, pre
<1>6. c \in CapabilityRecords /\ c.key = k /\ c.state = r.state /\ c.tokens = ts /\ c.prerelease = pre
  BY <1>1, <1>2, <1>3, <1>5, Zenon DEF CapabilityRecords
<1>7. RecordAccepted(c)
  <2>1. \A t \in Range(ts) : WellFormed(t)
    BY <1>3 DEF WellFormed, Capitals
  <2>2. c.state \in {"Supported", "Degraded"} => ts # <<>> \/ pre # 0
    BY <1>3, <1>6, Zenon DEF RecordAccepted, pre
  <2> QED BY <2>1, <2>2, <1>2, <1>6, Zenon DEF RecordAccepted
<1>8. CanonicalRecord(c) = [key |-> ResolvedName(k), state |-> r.state, tokens |-> CanonicalTokens(ts), prerelease |-> pre]
  <2>1. CanonicalRecord(c) = [c EXCEPT !.key = ResolvedName(k), !.tokens = CanonicalTokens(ts)]
    BY <1>6 DEF CanonicalRecord
  <2> QED BY <2>1, <1>5, Zenon
<1>9. CanonicalRecord(c) = c
  BY <1>2, <1>4, <1>5, <1>8
<1> QED BY <1>2, <1>6, <1>7, <1>9 DEF c, k, pre

(* What a stored record keeps of the record that was given.                *)
Stands(c, r) == c.key = ResolvedName(r.key) /\ c.state = r.state /\ c.prerelease = r.prerelease

(* The records as they are stored: the canonical forms of the records that *)
(* were given, in the order of their names.                                *)
LEMMA StoredInOrder ==
  ASSUME NEW rs \in Seq(CapabilityRecords), RecordsAccepted(rs)
  PROVE  LET c == StoredRecords(rs)
         IN /\ c \in Seq(CapabilityRecords) /\ Len(c) = Len(rs) /\ RecordsAccepted(c)
            /\ \A i, j \in 1..Len(c) : i < j => c[i].key < c[j].key
            /\ \A i \in 1..Len(c) : CanonicalRecord(c[i]) = c[i] /\ ResolvedName(c[i].key) = c[i].key
            /\ \A i \in 1..Len(c) : \E k \in 1..Len(rs) : Stands(c[i], rs[k])
            /\ \A k \in 1..Len(rs) : \E i \in 1..Len(c) : Stands(c[i], rs[k])
<1> DEFINE n == Len(rs)
           can == [i \in 1..n |-> CanonicalRecord(rs[i])]
           key == [i \in 1..n |-> ResolvedName(rs[i].key)]
           c == StoredRecords(rs)
<1>1. n \in Nat /\ DOMAIN rs = 1..n /\ \A i \in 1..n : rs[i] \in CapabilityRecords
  OBVIOUS
<1>2. \A i \in 1..n : RecordAccepted(rs[i])
  <2>1. \A i \in 1..n : rs[i] \in Range(rs)
    BY <1>1 DEF Range
  <2> QED BY <2>1 DEF RecordsAccepted
<1>3. \A i, j \in 1..n : ResolvedName(rs[i].key) = ResolvedName(rs[j].key) => i = j
  BY <1>1, ZenonT(60) DEF RecordsAccepted
<1>4. ASSUME NEW i \in 1..n
      PROVE  /\ can[i] \in CapabilityRecords /\ can[i].key = key[i]
             /\ ResolvedName(can[i].key) = can[i].key
             /\ RecordAccepted(can[i])
             /\ CanonicalRecord(can[i]) = can[i]
             /\ key[i] = ResolvedName(rs[i].key)
             /\ Stands(can[i], rs[i])
  <2>1. can[i] = CanonicalRecord(rs[i]) /\ key[i] = ResolvedName(rs[i].key)
    OBVIOUS
  <2>2. rs[i] \in CapabilityRecords
    BY <1>1
  <2> HIDE DEF can, key
  <2> QED BY <2>1, <2>2, <1>2, RecordCanonical DEF Stands
<1>5. key \in [1..n -> Int] /\ DOMAIN can = 1..n
  <2>1. ASSUME NEW i \in 1..n PROVE ResolvedName(rs[i].key) \in Int
    <3>1. rs[i] \in CapabilityRecords
      BY <1>1, Zenon
    <3>2. rs[i].key \in Nat
      BY <3>1 DEF CapabilityRecords
    <3>3. ResolvedName(rs[i].key) \in Nat
      BY <3>2, Respelling, Zenon
    <3> QED BY <3>3
  <2> QED BY <2>1, Zenon
<1>6. c = SortedBy(can, key)
  BY <1>1 DEF StoredRecords
<1> HIDE DEF can, key, c, n
<1>7. PICK f \in Permutation(n) : c = Taken(can, f) /\ \A i, j \in 1..n : i < j => key[f[i]] <= key[f[j]]
  BY <1>1, <1>5, <1>6, SortedByPermutes, Zenon
<1>8. /\ f \in [1..n -> 1..n] /\ DOMAIN f = 1..n /\ (\A k \in 1..n : \E i \in 1..n : f[i] = k)
      /\ \A i, j \in 1..n : f[i] = f[j] => i = j
  BY DEF Permutation, Range
<1>9. c = [i \in 1..n |-> can[f[i]]]
  BY <1>7, <1>8 DEF Taken
<1>10. c \in Seq(CapabilityRecords) /\ Len(c) = n /\ DOMAIN c = 1..n /\ \A i \in 1..n : c[i] = can[f[i]] /\ f[i] \in 1..n
  <2>1. c \in [1..n -> CapabilityRecords] /\ \A i \in 1..n : c[i] = can[f[i]] /\ f[i] \in 1..n
    BY <1>4, <1>8, <1>9, Zenon
  <2> QED BY <2>1, <1>1
<1>11. \A i, j \in 1..n : i < j => c[i].key < c[j].key
  <2> TAKE i \in 1..n, j \in 1..n
  <2> HAVE i < j
  <2>0. i # j /\ f[i] \in 1..n /\ f[j] \in 1..n /\ c[i] = can[f[i]] /\ c[j] = can[f[j]]
    BY <1>1, <1>10
  <2>1. f[i] # f[j] /\ c[i].key = key[f[i]] /\ c[j].key = key[f[j]]
    <3>1. can[f[i]].key = key[f[i]] /\ can[f[j]].key = key[f[j]]
      BY <2>0, <1>4, Zenon
    <3>2. f[i] # f[j]
      BY <2>0, <1>8, Zenon
    <3> QED BY <3>1, <3>2, <2>0
  <2>2. key[f[i]] <= key[f[j]] /\ key[f[i]] \in Int /\ key[f[j]] \in Int
    BY <2>0, <1>5, <1>7, ZenonT(60)
  <2>3. key[f[i]] # key[f[j]]
    BY <2>0, <2>1, <1>3, <1>4
  <2> QED BY <2>1, <2>2, <2>3
<1>12. \A i \in 1..n : CanonicalRecord(c[i]) = c[i] /\ ResolvedName(c[i].key) = c[i].key
  <2> SUFFICES ASSUME NEW i \in 1..n PROVE CanonicalRecord(c[i]) = c[i] /\ ResolvedName(c[i].key) = c[i].key
    BY Zenon
  <2>1. c[i] = can[f[i]] /\ f[i] \in 1..n
    BY <1>10, Zenon
  <2>2. CanonicalRecord(can[f[i]]) = can[f[i]] /\ ResolvedName(can[f[i]].key) = can[f[i]].key
    BY <2>1, <1>4, Zenon
  <2> QED BY <2>1, <2>2, Zenon
<1>13. \A i \in 1..n : \E k \in 1..n : Stands(c[i], rs[k])
  BY <1>4, <1>10, Zenon
<1>14. \A k \in 1..n : \E i \in 1..n : Stands(c[i], rs[k])
  <2> TAKE k \in 1..n
  <2>1. PICK i \in 1..n : f[i] = k
    BY <1>8
  <2>2. c[i] = can[k]
    BY <2>1, <1>10
  <2> QED BY <2>2, <1>4
<1>15. RecordsAccepted(c)
  <2>1. \A i \in 1..n : RecordAccepted(c[i])
    BY <1>4, <1>10
  <2>2. \A r \in Range(c) : RecordAccepted(r)
    <3> SUFFICES ASSUME NEW r \in Range(c)
                 PROVE  RecordAccepted(r)
      BY Zenon
    <3>1. PICK i \in 1..n : r = c[i]
      BY <1>10 DEF Range
    <3> QED BY <3>1, <2>1, Zenon
  <2>3. \A i, j \in 1..n : ResolvedName(c[i].key) = ResolvedName(c[j].key) => i = j
    <3> TAKE i \in 1..n, j \in 1..n
    <3> HAVE ResolvedName(c[i].key) = ResolvedName(c[j].key)
    <3>0. c[i] \in CapabilityRecords
      BY <1>10
    <3>1. c[i].key = c[j].key /\ c[i].key \in Nat
      BY <3>0, <1>12 DEF CapabilityRecords
    <3>2. ~(i < j) /\ ~(j < i)
      BY <3>1, <1>11
    <3> QED BY <3>2, <1>1
  <2> QED BY <2>2, <2>3, <1>10, Zenon DEF RecordsAccepted
<1> QED BY <1>10, <1>11, <1>12, <1>13, <1>14, <1>15, ZenonT(60) DEF c, n

(* Storing them again changes nothing.                                     *)
LEMMA StoredStay ==
  ASSUME NEW rs \in Seq(CapabilityRecords), RecordsAccepted(rs)
  PROVE  StoredRecords(StoredRecords(rs)) = StoredRecords(rs)
<1> DEFINE c == StoredRecords(rs)
           can == [i \in DOMAIN c |-> CanonicalRecord(c[i])]
           key == [i \in DOMAIN c |-> ResolvedName(c[i].key)]
           n == Len(c)
<1>1. /\ c \in Seq(CapabilityRecords)
      /\ \A i, j \in 1..n : i < j => c[i].key < c[j].key
      /\ \A i \in 1..n : CanonicalRecord(c[i]) = c[i] /\ ResolvedName(c[i].key) = c[i].key
  BY StoredInOrder, Zenon
<1>2. StoredRecords(c) = SortedBy(can, key)
  BY Zenon DEF StoredRecords
<1> HIDE DEF c
<1>3. n \in Nat /\ DOMAIN c = 1..n /\ \A i \in 1..n : c[i].key \in Nat
  <2>1. n \in Nat /\ DOMAIN c = 1..n /\ \A i \in 1..n : c[i] \in CapabilityRecords
    BY <1>1
  <2> QED BY <2>1 DEF CapabilityRecords
<1>4. can = c /\ c = [i \in 1..n |-> c[i]]
  BY <1>1, <1>3
<1>5. key \in [1..n -> Int] /\ \A i, j \in 1..n : i < j => key[i] <= key[j]
  <2>1. key = [i \in 1..n |-> c[i].key]
    BY <1>1, <1>3
  <2> QED BY <2>1, <1>1, <1>3
<1> HIDE DEF can, key, n
<1>6. SortedBy(c, key) = c
  BY <1>3, <1>4, <1>5, SortedByStays, Zenon
<1> QED BY <1>2, <1>4, <1>6, Zenon DEF c

(* A capability set reads back as itself, unless a prerelease is too long. *)
LEMMA SetReadsBack ==
  ASSUME NEW rs \in Seq(CapabilityRecords), RecordsAccepted(rs),
         NEW closed \in Seq(Nat), \A t \in Range(closed) : WellFormed(t)
  PROVE  LET c == CapabilitySet(rs, closed)
         IN /\ CapabilitySet(c.records, c.closed) = c
            /\ CapabilitySetReadable(c) <=> \A r \in Range(c.records) : r.prerelease <= MaxToken
            /\ CapabilitySetReadable(c) <=> \A r \in Range(rs) : r.prerelease <= MaxToken
<1> DEFINE c == CapabilitySet(rs, closed)
           s == StoredRecords(rs)
           ns == StoredNamespaces(closed)
<1>1. c = [records |-> s, closed |-> ns, id |-> <<s, ns>>]
  BY Zenon DEF CapabilitySet
<1>2. /\ s \in Seq(CapabilityRecords) /\ RecordsAccepted(s)
      /\ \A i \in 1..Len(s) : \E k \in 1..Len(rs) : Stands(s[i], rs[k])
      /\ \A k \in 1..Len(rs) : \E i \in 1..Len(s) : Stands(s[i], rs[k])
  BY StoredInOrder, Zenon
<1>3. StoredRecords(s) = s
  BY StoredStay
<1>4. StoredNamespaces(ns) = ns
  BY TokensStay DEF StoredNamespaces
<1>5. \A t \in Range(ns) : WellFormed(t)
  <2>1. ns \in Seq(Nat) /\ \A t \in Range(ns) : t > Capitals
    BY TokensInOrder DEF StoredNamespaces
  <2> QED BY <2>1 DEF WellFormed, Capitals
<1>6. CapabilitySet(s, ns) = [records |-> s, closed |-> ns, id |-> <<s, ns>>]
  BY <1>3, <1>4, Zenon DEF CapabilitySet
<1> HIDE DEF c, s, ns
<1>7. c.records = s /\ c.closed = ns /\ c.id = <<s, ns>>
  BY <1>1
<1>8. CapabilitySet(c.records, c.closed) = c
  BY <1>1, <1>6, <1>7, Zenon
<1>9. CapabilitySetReadable(c) <=> \A r \in Range(c.records) : r.prerelease <= MaxToken
  BY <1>2, <1>5, <1>7, <1>8, Zenon DEF CapabilitySetReadable
<1>10. (\A r \in Range(s) : r.prerelease <= MaxToken) <=> \A r \in Range(rs) : r.prerelease <= MaxToken
  <2>1. DOMAIN s = 1..Len(s) /\ DOMAIN rs = 1..Len(rs)
    BY <1>2
  <2>2. ASSUME \A r \in Range(rs) : r.prerelease <= MaxToken, NEW r \in Range(s)
        PROVE  r.prerelease <= MaxToken
    <3>1. PICK i \in 1..Len(s) : r = s[i]
      BY <2>1 DEF Range
    <3>2. PICK k \in 1..Len(rs) : Stands(s[i], rs[k])
      BY <1>2, Zenon
    <3>3. rs[k] \in Range(rs)
      BY <2>1 DEF Range
    <3>4. s[i].prerelease = rs[k].prerelease
      BY <3>2 DEF Stands
    <3>5. rs[k].prerelease <= MaxToken
      BY <2>2, <3>3, Zenon
    <3> QED BY <3>1, <3>4, <3>5, Zenon
  <2>3. ASSUME \A r \in Range(s) : r.prerelease <= MaxToken, NEW r \in Range(rs)
        PROVE  r.prerelease <= MaxToken
    <3>1. PICK k \in 1..Len(rs) : r = rs[k]
      BY <2>1 DEF Range
    <3>2. PICK i \in 1..Len(s) : Stands(s[i], rs[k])
      BY <1>2, Zenon
    <3>3. s[i] \in Range(s)
      BY <2>1 DEF Range
    <3>4. s[i].prerelease = rs[k].prerelease
      BY <3>2 DEF Stands
    <3>5. s[i].prerelease <= MaxToken
      BY <2>3, <3>3, Zenon
    <3> QED BY <3>1, <3>4, <3>5, Zenon
  <2> QED BY <2>2, <2>3, Zenon
<1> QED BY <1>7, <1>8, <1>9, <1>10, Zenon DEF c

(* What lookup() answers, in terms of the records and the namespaces that  *)
(* were given.                                                             *)
LEMMA SetAnswers ==
  ASSUME NEW rs \in Seq(CapabilityRecords), RecordsAccepted(rs),
         NEW closed \in Seq(Nat), \A t \in Range(closed) : WellFormed(t),
         NEW name \in Nat, NEW namespace \in Nat
  PROVE  LET given == {r \in Range(rs) : ResolvedName(r.key) = name}
         IN LookupState(CapabilitySet(rs, closed), name, namespace)
              = IF given # {} THEN (CHOOSE r \in given : TRUE).state
                ELSE IF \E t \in Range(closed) : CanonicalToken(t) = namespace THEN "Unsupported" ELSE "Unknown"
<1> DEFINE c == CapabilitySet(rs, closed)
           s == StoredRecords(rs)
           ns == StoredNamespaces(closed)
           keys == [i \in DOMAIN s |-> s[i].key]
           given == {r \in Range(rs) : ResolvedName(r.key) = name}
           n == Len(s)
           b == LowerBound(keys, name) + 1
<1>1. c.records = s /\ c.closed = ns
  BY DEF CapabilitySet
<1>2. LookupState(c, name, namespace) =
        CASE BinarySearch(keys, name) -> s[b].state
          [] ~BinarySearch(keys, name) /\ BinarySearch(ns, namespace) -> "Unsupported"
          [] OTHER -> "Unknown"
  <2>1. LookupState(c, name, namespace) =
        CASE BinarySearch([i \in DOMAIN c.records |-> c.records[i].key], name)
               -> c.records[LowerBound([i \in DOMAIN c.records |-> c.records[i].key], name) + 1].state
          [] ~BinarySearch([i \in DOMAIN c.records |-> c.records[i].key], name) /\ BinarySearch(c.closed, namespace) -> "Unsupported"
          [] OTHER -> "Unknown"
    BY Zenon DEF LookupState
  <2> HIDE DEF c, s, ns
  <2> QED BY <2>1, <1>1, Zenon
<1>3. /\ s \in Seq(CapabilityRecords) /\ Len(s) = Len(rs)
      /\ \A i, j \in 1..Len(s) : i < j => s[i].key < s[j].key
  BY StoredInOrder, Zenon
<1>4. \A i \in 1..Len(s) : \E k \in 1..Len(rs) : s[i].key = ResolvedName(rs[k].key) /\ s[i].state = rs[k].state
  <2>1. \A i \in 1..Len(s) : \E k \in 1..Len(rs) : Stands(s[i], rs[k])
    BY StoredInOrder, Zenon
  <2> HIDE DEF s
  <2> QED BY <2>1, Zenon DEF Stands
<1>5. \A k \in 1..Len(rs) : \E i \in 1..Len(s) : s[i].key = ResolvedName(rs[k].key) /\ s[i].state = rs[k].state
  <2>1. \A k \in 1..Len(rs) : \E i \in 1..Len(s) : Stands(s[i], rs[k])
    BY StoredInOrder, Zenon
  <2> HIDE DEF s
  <2> QED BY <2>1, Zenon DEF Stands
<1>6. BinarySearch(ns, namespace) <=> \E t \in Range(closed) : CanonicalToken(t) = namespace
  <2>1. /\ ns \in Seq(Nat) /\ Range(ns) = {CanonicalToken(t) : t \in Range(closed)}
        /\ \A i, j \in 1..Len(ns) : i < j => ns[i] < ns[j]
    BY TokensInOrder DEF StoredNamespaces
  <2> HIDE DEF ns
  <2>2. ns \in Seq(Int) /\ \A i, j \in 1..Len(ns) : i < j => ns[i] <= ns[j]
    <3>1. \A i \in 1..Len(ns) : ns[i] \in Int
      BY <2>1
    <3> QED BY <2>1, <3>1
  <2>3. BinarySearch(ns, namespace) <=> namespace \in Range(ns)
    BY <2>2, SearchFinds
  <2> QED BY <2>1, <2>3, Zenon
<1> HIDE DEF s, ns, c
<1>7. n \in Nat /\ DOMAIN s = 1..n /\ \A i \in 1..n : s[i].key \in Nat
  <2>1. n \in Nat /\ DOMAIN s = 1..n /\ \A i \in 1..n : s[i] \in CapabilityRecords
    BY <1>3
  <2> QED BY <2>1 DEF CapabilityRecords
<1>8. keys \in Seq(Int) /\ Len(keys) = n /\ DOMAIN keys = 1..n /\ \A i \in 1..n : keys[i] = s[i].key
  <2>1. keys \in [1..n -> Int] /\ \A i \in 1..n : keys[i] = s[i].key
    BY <1>7
  <2> QED BY <2>1, <1>7
<1> HIDE DEF keys, n
<1>9. \A i, j \in 1..Len(keys) : i < j => keys[i] <= keys[j]
  <2>1. \A i, j \in 1..n : i < j => s[i].key < s[j].key
    BY <1>3 DEF n
  <2> TAKE i \in 1..Len(keys), j \in 1..Len(keys)
  <2> HAVE i < j
  <2>2. i \in 1..n /\ j \in 1..n /\ keys[i] = s[i].key /\ keys[j] = s[j].key
    BY <1>8, Zenon
  <2> QED BY <2>1, <2>2, <1>7
<1>10. BinarySearch(keys, name) <=> name \in Range(keys)
  <2>1. name \in Int
    OBVIOUS
  <2> QED BY <2>1, <1>8, <1>9, SearchFinds, Zenon
<1>11. BinarySearch(keys, name) => b \in 1..n /\ keys[b] = name
  <2>1. BinarySearch(keys, name) => LowerBound(keys, name) + 1 \in 1..Len(keys) /\ keys[LowerBound(keys, name) + 1] = name
    <3>1. keys \in Seq(Int) /\ name \in Int
      BY <1>8
    <3> QED BY ONLY <3>1, <1>9, SearchFinds, Zenon
  <2> QED BY <2>1, <1>8, Zenon
<1> HIDE DEF b
<1>12. DOMAIN rs = 1..Len(rs)
  OBVIOUS
<1>13. ASSUME given # {}
       PROVE  BinarySearch(keys, name) /\ s[b].state = (CHOOSE r \in given : TRUE).state
  <2> DEFINE g == CHOOSE r \in given : TRUE
  <2>1. g \in given
    BY <1>13, Zenon
  <2> HIDE DEF g
  <2>2. PICK k \in 1..Len(rs) : g = rs[k]
    BY <2>1, <1>12 DEF Range
  <2>3. ResolvedName(rs[k].key) = name
    BY <2>1, <2>2
  <2>4. PICK i \in 1..n : s[i].key = name /\ s[i].state = rs[k].state
    BY <2>3, <1>5, Zenon DEF n
  <2>5. BinarySearch(keys, name)
    BY <2>4, <1>8, <1>10, Zenon DEF Range
  <2>6. b \in 1..n /\ s[b].key = name
    BY <2>5, <1>8, <1>11
  <2>7. b = i
    <3>1. ~(b < i) /\ ~(i < b)
      BY <2>4, <2>6, <1>3, <1>7 DEF n
    <3> QED BY <3>1, <2>6, <1>7
  <2> QED BY <2>2, <2>4, <2>5, <2>7, Zenon DEF g
<1>14. ASSUME given = {}
       PROVE  ~BinarySearch(keys, name)
  <2> SUFFICES ASSUME BinarySearch(keys, name) PROVE FALSE
    OBVIOUS
  <2>1. b \in 1..n /\ s[b].key = name
    BY <1>8, <1>11
  <2>2. PICK k \in 1..Len(rs) : name = ResolvedName(rs[k].key)
    BY <2>1, <1>4 DEF n
  <2>3. rs[k] \in given
    BY <2>2, <1>12 DEF Range
  <2> QED BY <2>3, <1>14
<1>15. CASE given # {}
  <2> DEFINE g == (CHOOSE r \in given : TRUE).state
  <2>1. BinarySearch(keys, name) /\ s[b].state = g
    BY <1>13, <1>15
  <2> HIDE DEF g
  <2>2. LookupState(c, name, namespace) = g
    BY <2>1, <1>2 DEF b
  <2> QED BY <2>2, <1>15, Zenon DEF c, g
<1>16. CASE given = {}
  <2>1. ~BinarySearch(keys, name)
    BY <1>14, <1>16
  <2>2. LookupState(c, name, namespace) = IF BinarySearch(ns, namespace) THEN "Unsupported" ELSE "Unknown"
    BY <2>1, <1>2
  <2>3. LookupState(c, name, namespace) = IF \E t \in Range(closed) : CanonicalToken(t) = namespace THEN "Unsupported" ELSE "Unknown"
    BY <2>2, <1>6
  <2>4. ~(given # {})
    BY <1>16
  <2> QED BY <2>3, <2>4, Zenon DEF c
<1> QED BY <1>15, <1>16

-----------------------------------------------------------------------------
(* Snapshots.                                                              *)

(* Documents of any size.  A capability set is one set_records() made of   *)
(* records it accepts; a plan may be aborted for a reason of any length.   *)
AcceptedRecords == {rs \in Seq(CapabilityRecords) : RecordsAccepted(rs)}
Namespaces == {closed \in Seq(Nat) : \A t \in Range(closed) : WellFormed(t)}
AcceptedSets == {CapabilitySet(rs, closed) : rs \in AcceptedRecords, closed \in Namespaces}
DescriptorDocuments ==
  [caps: AcceptedSets, vendor: Nat, topology: Seq(Nat), longest: Nat, evidence: Seq(STRING), provenance: STRING,
   support: STRING]
Values == [tokens: Nat, longest: Nat, finite: BOOLEAN]
ClauseLists == Seq([op: STRING, prerelease: Nat])
ProfileDocuments ==
  [requirements: Seq([name: Nat, strength: Nat, op: Nat, weight: Nat, value: Values, range: ClauseLists]),
   tags: Seq(Nat), live: BOOLEAN, need: STRING]
DecisionDocuments == {RecordedDecision(content, reasons) : content \in STRING, reasons \in Seq(Nat)}
PlanDocuments ==
  {NewPlan(content) : content \in STRING}
    \cup {AbortedPlan(NewPlan(content), length) : content \in STRING, length \in Nat}

Snapshots ==
  [kind: {"snapshot"}, name: Nat, policy: {RefreshedPolicy(p) : p \in PolicyDocuments},
   descriptors: SUBSET DescriptorDocuments, workloads: SUBSET ProfileDocuments,
   decisions: SUBSET DecisionDocuments, plans: SUBSET PlanDocuments]
RecordLists == [kind: {"records"}, records: Seq(CapabilityRecords), closed: Seq(Nat)]

(* The policy that is stored carries its digest.                           *)
LEMMA RefreshedDigest ==
  ASSUME NEW p \in PolicyDocuments
  PROVE  /\ RefreshedPolicy(p) \in PolicyDocuments
         /\ RefreshedPolicy(p).id = PolicyDigest(RefreshedPolicy(p))
<1> DEFINE r == RefreshedPolicy(p)
           g == PolicyDigest(p)
<1>1. p \in [lists: [Lists -> Seq(Nat)], devices: Seq(Nat), minimum: Nat, classes: Seq(STRING), id: Digests \cup {0}]
  BY DEF PolicyDocuments
<1>2. r = [p EXCEPT !.id = g]
  BY DEF RefreshedPolicy
<1>3. g \in Digests
  <2>1. \A l \in Lists : Sorted(p.lists[l]) \in Seq(Nat)
    <3> TAKE l \in Lists
    <3>1. p.lists[l] \in Seq(Nat)
      BY <1>1
    <3> QED BY <3>1, SortedLists
  <2>2. Sorted(p.devices) \in Seq(Nat)
    BY <1>1, SortedLists
  <2>3. Range(p.classes) \in SUBSET STRING
    BY <1>1 DEF Range
  <2>4. p.minimum \in Nat
    BY <1>1
  <2> QED BY <2>1, <2>2, <2>3, <2>4 DEF PolicyDigest, Digests
<1> HIDE DEF g, r
<1>4. /\ r \in PolicyDocuments /\ r.id = g /\ r.lists = p.lists
      /\ r.devices = p.devices /\ r.minimum = p.minimum /\ r.classes = p.classes
  BY <1>1, <1>2, <1>3, Zenon DEF PolicyDocuments
<1>5. PolicyDigest(r) = PolicyDigest(p)
  BY <1>4, Zenon DEF PolicyDigest
<1> QED BY <1>4, <1>5 DEF r, g

(* In a list in which no reference is smaller than the one before it, none *)
(* is repeated exactly when each is larger than the one before it.         *)
LEMMA GrowingList ==
  ASSUME NEW s \in Seq(Nat), \A i \in 2..Len(s) : s[i - 1] <= s[i]
  PROVE  IsInjective(s) <=> \A i \in 2..Len(s) : s[i - 1] < s[i]
<1>1. Len(s) \in Nat /\ DOMAIN s = 1..Len(s) /\ \A i \in 1..Len(s) : s[i] \in Nat
  OBVIOUS
<1>2. ASSUME IsInjective(s), NEW i \in 2..Len(s)
      PROVE  s[i - 1] < s[i]
  <2>1. i \in 1..Len(s) /\ i - 1 \in 1..Len(s) /\ i # i - 1
    BY <1>1
  <2>2. s[i] # s[i - 1]
    BY <2>1, <1>1, <1>2, SMTT(30) DEF IsInjective
  <2> QED BY <2>1, <2>2, <1>1
<1>3. ASSUME \A i \in 2..Len(s) : s[i - 1] < s[i]
      PROVE  IsInjective(s)
  <2>1. ASSUME NEW i \in 1..Len(s)
        PROVE  \A j \in 1..Len(s) : i < j => s[i] < s[j]
    <3> DEFINE T == {j \in 1..Len(s) : i < j /\ ~(s[i] < s[j])}
    <3> SUFFICES ASSUME T # {} PROVE FALSE
      BY Zenon
    <3>1. T \in SUBSET Nat
      BY <1>1
    <3>2. PICK j \in T : \A k \in T : j <= k
      BY <3>1, Least, Zenon
    <3>3. j \in 2..Len(s) /\ j - 1 \in 1..Len(s) /\ j - 1 \in Nat /\ j \in Nat /\ i < j /\ ~(s[i] < s[j])
      BY <1>1
    <3>4. s[j - 1] < s[j] /\ s[j - 1] \in Nat /\ s[j] \in Nat /\ s[i] \in Nat
      BY <3>3, <1>1, <1>3
    <3>5. CASE i = j - 1
      BY <3>5, <3>4
    <3>6. CASE i # j - 1
      <4>1. i < j - 1
        BY <3>3, <3>6, <1>1
      <4>2. j - 1 \notin T
        BY <3>2, <3>3
      <4>3. s[i] < s[j - 1]
        BY <4>1, <4>2, <3>3
      <4> HIDE DEF T
      <4> QED BY <4>3, <3>3, <3>4
    <3> QED BY <3>5, <3>6
  <2>2. ASSUME NEW i \in 1..Len(s), NEW j \in 1..Len(s), s[i] = s[j]
        PROVE  i = j
    <3>1. ~(i < j) /\ ~(j < i)
      BY <2>1, <2>2, <1>1
    <3> QED BY <3>1, <1>1
  <2> QED BY <2>2, <1>1 DEF IsInjective
<1> QED BY <1>2, <1>3

(* An accepted descriptor is read exactly when its topology references are *)
(* short and not repeated and its capabilities describe it.                *)
LEMMA DescriptorReads ==
  ASSUME NEW d \in DescriptorDocuments, DescriptorAccepted(d)
  PROVE  DescriptorReadable(d) <=> ReloadableDescriptor(d)
<1>1. d.caps \in AcceptedSets /\ d.topology \in Seq(Nat)
  BY DEF DescriptorDocuments
<1>2. CapabilitySetReadable(d.caps) <=> \A r \in Range(d.caps.records) : r.prerelease <= MaxToken
  <2>1. PICK rs \in AcceptedRecords, closed \in Namespaces : d.caps = CapabilitySet(rs, closed)
    BY <1>1 DEF AcceptedSets
  <2>2. rs \in Seq(CapabilityRecords) /\ RecordsAccepted(rs) /\ closed \in Seq(Nat) /\ \A t \in Range(closed) : WellFormed(t)
    BY DEF AcceptedRecords, Namespaces
  <2>3. CapabilitySetReadable(CapabilitySet(rs, closed)) <=>
          \A r \in Range(CapabilitySet(rs, closed).records) : r.prerelease <= MaxToken
    BY <2>2, SetReadsBack, Zenon
  <2> QED BY <2>1, <2>3, Zenon
<1>3. ValidStructure(d)
  BY Zenon DEF DescriptorAccepted, ValidDescriptor
<1>4. IsInjective(d.topology) <=> \A i \in 2..Len(d.topology) : d.topology[i - 1] < d.topology[i]
  <2>1. \A i \in 2..Len(d.topology) : d.topology[i - 1] <= d.topology[i]
    BY <1>3, Zenon DEF ValidStructure
  <2> QED BY <2>1, <1>1, GrowingList, Zenon
<1>5. CapabilitiesDescribe(d) <=>
        /\ d.caps.records # <<>>
        /\ ~\E r \in Range(d.caps.records) : r.key = VendorName /\ r.state = "Supported" /\ r.tokens # <<d.vendor>>
  BY Zenon DEF CapabilitiesDescribe
<1> QED BY <1>2, <1>3, <1>4, <1>5, Zenon DEF DescriptorReadable, ReloadableDescriptor, ValidDescriptor

(* An accepted profile is read exactly when the values and the version     *)
(* ranges of its requirements are.                                         *)
LEMMA ProfileReads ==
  ASSUME NEW w \in ProfileDocuments, ValidProfile(w)
  PROVE  ProfileReadable(w) <=> \A r \in Range(w.requirements) : ReloadableRequirement(r)
<1>1. ASSUME NEW r
      PROVE  ValueReadable(r.value) /\ RangeReadable(r.range) <=> ReloadableRequirement(r)
  BY Zenon DEF ValueReadable, RangeReadable, ReloadableRequirement
<1> QED BY <1>1, Zenon DEF ProfileReadable

(* A recorded decision is read exactly when its reasons are.               *)
LEMMA DecisionReads ==
  ASSUME NEW d \in DecisionDocuments
  PROVE  DecisionReadable(d) <=> \A length \in Range(d.reasons) : length <= MaxText
<1>1. PICK content \in STRING, reasons \in Seq(Nat) : d = RecordedDecision(content, reasons)
  BY DEF DecisionDocuments
<1>2. d.id = DecisionFingerprint(d)
  BY <1>1 DEF RecordedDecision, DecisionFingerprint
<1> QED BY <1>2, Zenon DEF DecisionReadable, ReasonReadable

(* A plan is read exactly when the reason it was aborted for is.           *)
LEMMA PlanReads ==
  ASSUME NEW p \in PlanDocuments
  PROVE  PlanReadable(p) <=> \A length \in Range(p.reasons) : length <= MaxText
<1>0. MaxReasons \in Nat \ {0}
  BY LimitsAssumption
<1>1. Len(p.reasons) <= MaxReasons /\ p.id = <<p.content>>
  <2>1. ASSUME NEW content \in STRING, p = NewPlan(content)
        PROVE  Len(p.reasons) <= MaxReasons /\ p.id = <<p.content>>
    <3>1. p = [content |-> content, state |-> "Planned", reasons |-> <<>>, id |-> <<content>>]
      BY <2>1 DEF NewPlan, PlanFingerprint
    <3>2. p.reasons = <<>> /\ p.id = <<p.content>>
      BY <3>1
    <3> QED BY <3>2, <1>0
  <2>2. ASSUME NEW content \in STRING, NEW length \in Nat, p = AbortedPlan(NewPlan(content), length)
        PROVE  Len(p.reasons) <= MaxReasons /\ p.id = <<p.content>>
    <3>1. NewPlan(content) = [content |-> content, state |-> "Planned", reasons |-> <<>>, id |-> <<content>>]
      BY DEF NewPlan, PlanFingerprint
    <3>2. p = [content |-> content, state |-> "Aborted", reasons |-> Append(<<>>, length), id |-> <<content>>]
      <4> DEFINE q == NewPlan(content)
                 rs == Append(q.reasons, length)
      <4>1. p = [q EXCEPT !.state = "Aborted", !.reasons = rs]
        BY <2>2 DEF AbortedPlan
      <4>2. rs = Append(<<>>, length)
        BY <3>1
      <4> HIDE DEF q, rs
      <4>3. q = [content |-> content, state |-> "Planned", reasons |-> <<>>, id |-> <<content>>]
        BY <3>1 DEF q
      <4>4. p = [content |-> content, state |-> "Aborted", reasons |-> rs, id |-> <<content>>]
        BY <4>1, <4>3, Zenon
      <4> QED BY <4>2, <4>4
    <3>3. p.reasons = <<length>> /\ p.id = <<p.content>>
      BY <3>2
    <3> QED BY <3>3, <1>0
  <2> QED BY <2>1, <2>2 DEF PlanDocuments
<1> QED BY <1>1, Zenon DEF PlanReadable, PlanFingerprint, ReasonReadable

(* A snapshot of accepted documents is read exactly when it is canonical,  *)
(* and what was read is read again.                                        *)
LEMMA SnapshotReads ==
  ASSUME NEW s \in Snapshots, SnapshotAccepted(s)
  PROVE  /\ SnapshotReadable(s) <=> Reloadable(s)
         /\ SnapshotReadable(s) => SnapshotReadable(DecodedSnapshot(s))
<1> DEFINE p == s.policy
           q == CanonicalPolicy(p)
           t == DecodedSnapshot(s)
<1>1. /\ s.descriptors \in SUBSET DescriptorDocuments /\ s.workloads \in SUBSET ProfileDocuments
      /\ s.decisions \in SUBSET DecisionDocuments /\ s.plans \in SUBSET PlanDocuments
      /\ s.policy \in {RefreshedPolicy(r) : r \in PolicyDocuments}
  BY DEF Snapshots
<1>2. /\ \A d \in s.descriptors : DescriptorAccepted(d)
      /\ \A w \in s.workloads : ValidProfile(w)
      /\ ValidPolicy(p)
  BY DEF SnapshotAccepted
<1>3. p \in PolicyDocuments /\ p.id = PolicyDigest(p)
  <2>1. PICK r \in PolicyDocuments : p = RefreshedPolicy(r)
    BY <1>1
  <2> HIDE DEF p
  <2> QED BY <2>1, RefreshedDigest
<1>4. PolicyReadable(p) <=> ReloadablePolicy(p)
  <2> HIDE DEF p
  <2>1. ReloadablePolicy(p) => PolicyReadable(p)
    BY <1>2, <1>3, ReloadableIsReadable
  <2>2. PolicyReadable(p) => ReloadablePolicy(p)
    BY <1>3, ReadableIsReloadable
  <2> QED BY <2>1, <2>2, Zenon
<1>5. (\A d \in s.descriptors : DescriptorReadable(d)) <=> \A d \in s.descriptors : ReloadableDescriptor(d)
  <2>1. \A d \in s.descriptors : DescriptorReadable(d) <=> ReloadableDescriptor(d)
    BY <1>1, <1>2, DescriptorReads
  <2> QED BY <2>1, Zenon
<1>6. (\A w \in s.workloads : ProfileReadable(w)) <=>
        \A w \in s.workloads : \A r \in Range(w.requirements) : ReloadableRequirement(r)
  <2>1. \A w \in s.workloads : ProfileReadable(w) <=> \A r \in Range(w.requirements) : ReloadableRequirement(r)
    BY <1>1, <1>2, ProfileReads
  <2> QED BY <2>1, ZenonT(60)
<1>7. (\A d \in s.decisions : DecisionReadable(d)) <=> \A d \in s.decisions : \A length \in Range(d.reasons) : length <= MaxText
  <2>1. \A d \in s.decisions : DecisionReadable(d) <=> \A length \in Range(d.reasons) : length <= MaxText
    BY <1>1, DecisionReads, Zenon
  <2> QED BY <2>1, Zenon
<1>8. (\A r \in s.plans : PlanReadable(r)) <=> \A r \in s.plans : \A length \in Range(r.reasons) : length <= MaxText
  <2>1. \A r \in s.plans : PlanReadable(r) <=> \A length \in Range(r.reasons) : length <= MaxText
    BY <1>1, PlanReads, Zenon
  <2> QED BY <2>1, Zenon
<1>9. SnapshotReadable(s) <=> Reloadable(s)
  <2>1. (\A d \in s.decisions \cup s.plans : \A length \in Range(d.reasons) : length <= MaxText) <=>
          /\ \A d \in s.decisions : \A length \in Range(d.reasons) : length <= MaxText
          /\ \A d \in s.plans : \A length \in Range(d.reasons) : length <= MaxText
    BY Zenon
  <2> QED BY <2>1, <1>4, <1>5, <1>6, <1>7, <1>8, Zenon DEF SnapshotReadable, Reloadable
<1>10. ASSUME SnapshotReadable(s)
       PROVE  SnapshotReadable(t)
  <2>1. PolicyReadable(p)
    BY <1>10, Zenon DEF SnapshotReadable
  <2>2. PolicyReadable(q)
    <3> HIDE DEF p
    <3>1. q \in PolicyDocuments /\ ValidPolicy(q) /\ q.id = PolicyDigest(q) /\ ReloadablePolicy(q)
      BY <1>3, <2>1, ReadableIsReloadable
    <3> HIDE DEF q
    <3> QED BY <3>1, ReloadableIsReadable
  <2>3. t.name = s.name /\ t.policy = q /\ t.descriptors = s.descriptors /\ t.workloads = s.workloads /\ t.decisions = s.decisions /\ t.plans = s.plans
    <3>1. t = [s EXCEPT !.policy = q]
      BY DEF DecodedSnapshot
    <3> HIDE DEF q, t
    <3> QED BY <3>1 DEF Snapshots
  <2> HIDE DEF p, q, t
  <2> QED BY <1>10, <2>2, <2>3, Zenon DEF SnapshotReadable
<1> QED BY <1>9, <1>10

-----------------------------------------------------------------------------
(* Rankings and documents of any size.                                     *)

DocumentsInit == input \in Rankings \cup Snapshots \cup RecordLists /\ answer = None
DocumentsNext == answer = None /\ (RankingAnswer \/ DocumentAnswer) /\ UNCHANGED input
DocumentsSpec == DocumentsInit /\ [][DocumentsNext]_<<input, answer>>

(* The input is of its type, and the answer, once there, is the program's. *)
DocumentsInv ==
  /\ input \in Rankings \cup Snapshots \cup RecordLists
  /\ answer # None =>
       /\ input.kind = "ranking" => answer = AnswerRanking(input)
       /\ input.kind = "snapshot" => answer = SnapshotReadable(input)
       /\ input.kind = "records" => answer = RecordsAccepted(input.records)

(* DocumentsInv is an invariant.                                           *)
THEOREM DocumentsAnswer == DocumentsSpec => []DocumentsInv
<1>1. DocumentsInit => DocumentsInv
  BY Zenon DEF DocumentsInit, DocumentsInv
<1>2. DocumentsInv /\ [DocumentsNext]_<<input, answer>> => DocumentsInv'
  <2> SUFFICES ASSUME DocumentsInv, [DocumentsNext]_<<input, answer>>
               PROVE  DocumentsInv'
    OBVIOUS
  <2>1. CASE UNCHANGED <<input, answer>>
    BY <2>1, Zenon DEF DocumentsInv
  <2>2. CASE DocumentsNext
    <3>1. input' = input
      BY <2>2, Zenon DEF DocumentsNext
    <3>2. /\ input.kind = "ranking" => answer' = AnswerRanking(input)
          /\ input.kind = "snapshot" => answer' = SnapshotReadable(input)
          /\ input.kind = "records" => answer' = RecordsAccepted(input.records)
      BY <2>2 DEF DocumentsNext, RankingAnswer, DocumentAnswer
    <3> QED BY <3>1, <3>2, Zenon DEF DocumentsInv
  <2> QED BY <2>1, <2>2
<1> QED BY <1>1, <1>2, PTL DEF DocumentsSpec

(* Whatever candidates there are and however they are listed, the eligible *)
(* ones are ranked, all of them, in one order: RankingIgnoresOrder.        *)
THEOREM RankingsIgnoreOrder == DocumentsSpec => []RankingIgnoresOrder
<1>1. DocumentsInv => RankingIgnoresOrder
  <2> SUFFICES ASSUME DocumentsInv, Answered("ranking")
               PROVE  RankingIgnoresOrder
    BY ZenonT(60) DEF RankingIgnoresOrder
  <2>1. input \in Rankings
    BY DEF DocumentsInv, Answered, Rankings, Snapshots, RecordLists
  <2>2. answer = AnswerRanking(input)
    BY Zenon DEF DocumentsInv, Answered
  <2> QED BY <2>1, <2>2, RankingIsSound
<1> QED BY <1>1, DocumentsAnswer, PTL

(* Whatever policy, descriptors, workloads, decisions and plans were       *)
(* accepted, decode_snapshot() reads them back exactly when they are       *)
(* canonical: ReloadsExactlyWhenCanonical.                                 *)
THEOREM CanonicalReloads == DocumentsSpec => []ReloadsExactlyWhenCanonical
<1>1. DocumentsInv => ReloadsExactlyWhenCanonical
  <2> SUFFICES ASSUME DocumentsInv, Answered("snapshot"), SnapshotAccepted(input)
               PROVE  /\ answer <=> Reloadable(input)
                      /\ answer => SnapshotReadable(DecodedSnapshot(input))
    BY Zenon DEF ReloadsExactlyWhenCanonical
  <2>1. input \in Snapshots
    BY DEF DocumentsInv, Answered, Rankings, Snapshots, RecordLists
  <2>2. answer = SnapshotReadable(input)
    BY Zenon DEF DocumentsInv, Answered
  <2>3. SnapshotReadable(input) <=> Reloadable(input)
    BY <2>1, SnapshotReads, Zenon
  <2>4. SnapshotReadable(input) => SnapshotReadable(DecodedSnapshot(input))
    BY <2>1, SnapshotReads, Zenon
  <2> QED BY <2>2, <2>3, <2>4, Zenon
<1> QED BY <1>1, DocumentsAnswer, PTL

(* Whatever records set_records() accepts, in any number, order and        *)
(* spelling, lookup() answers for exactly these: CapabilitySetsAnswer.     *)
THEOREM SetsAnswer == DocumentsSpec => []CapabilitySetsAnswer
<1>1. DocumentsInv => CapabilitySetsAnswer
  <2> DEFINE c == CapabilitySet(input.records, input.closed)
             closed(namespace) == \E t \in Range(input.closed) : CanonicalToken(t) = namespace
             given(name) == {r \in Range(input.records) : ResolvedName(r.key) = name}
  <2> SUFFICES ASSUME DocumentsInv, Answered("records"), answer, \A t \in Range(input.closed) : WellFormed(t)
               PROVE  /\ \A name \in CoreNames \cup {ExtensionName}, namespace \in {11, 12} :
                           LookupState(c, name, namespace)
                             = IF given(name) # {} THEN (CHOOSE r \in given(name) : TRUE).state
                               ELSE IF closed(namespace) THEN "Unsupported" ELSE "Unknown"
                      /\ CapabilitySet(c.records, c.closed) = c
                      /\ CapabilitySetReadable(c) <=> \A r \in Range(input.records) : r.prerelease <= MaxToken
    BY ZenonT(60) DEF CapabilitySetsAnswer
  <2>1. input \in RecordLists
    BY DEF DocumentsInv, Answered, Rankings, Snapshots, RecordLists
  <2>2. input.records \in Seq(CapabilityRecords) /\ input.closed \in Seq(Nat)
    BY <2>1 DEF RecordLists
  <2>3. RecordsAccepted(input.records)
    <3>1. answer = RecordsAccepted(input.records)
      BY Zenon DEF DocumentsInv, Answered
    <3> QED BY <3>1, Zenon
  <2>4. CoreNames \cup {ExtensionName} \subseteq Nat /\ {11, 12} \subseteq Nat
    BY DEF CoreNames, VendorName, ExtensionName
  <2>5. ASSUME NEW name \in CoreNames \cup {ExtensionName}, NEW namespace \in {11, 12}
        PROVE  LookupState(c, name, namespace)
                 = IF given(name) # {} THEN (CHOOSE r \in given(name) : TRUE).state
                   ELSE IF closed(namespace) THEN "Unsupported" ELSE "Unknown"
    <3>1. name \in Nat /\ namespace \in Nat
      BY <2>4
    <3> QED BY <3>1, <2>2, <2>3, SetAnswers, Zenon
  <2>6. /\ CapabilitySet(c.records, c.closed) = c
        /\ CapabilitySetReadable(c) <=> \A r \in Range(input.records) : r.prerelease <= MaxToken
    BY <2>2, <2>3, SetReadsBack, Zenon
  <2> QED BY <2>5, <2>6, Zenon
<1> QED BY <1>1, DocumentsAnswer, PTL
=============================================================================
