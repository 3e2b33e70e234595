---------------------------- MODULE WizardProofs ----------------------------
(***************************************************************************)
(* For every catalog, price list, machine and choice of the controls: what    *)
(* the wizard's pages show and what the server is started with hold.           *)
(*                                                                          *)
(* The invariant is short: the types, and QuantOfModel, which the effect of    *)
(* App.tsx (QuantFor) keeps.  The recommendations, the list of models, the      *)
(* badges and the split are computed from a state of the right types, so that   *)
(* what they promise is about the planner's arithmetic alone.  It rests on four *)
(* facts about its helpers: a set of positions has a least one (so ArgMax is a   *)
(* largest element), a sum is no less than the elements it covers (Total),      *)
(* sorting leaves every member at one place (InOrder), and filtering keeps the  *)
(* places apart (AtPositions).                                                *)
(***************************************************************************)
EXTENDS Wizard, FiniteSetTheorems, WellFoundedInduction, TLAPS

(* A set of positions that is not empty has a least member. *)
LEMMA LeastPosition ==
    ASSUME NEW T, T \subseteq Nat, T # {}
    PROVE  \E x \in T : \A y \in T : x <= y
<1>1. PICK x \in T : \A y \in T : ~(<<y, x>> \in OpToRel(<, Nat))
  BY WFMin, NatLessThanWellFounded
<1>2. \A y \in T : y < x => <<y, x>> \in OpToRel(<, Nat)
  BY DEF OpToRel
<1>3. \A y \in T : ~(y < x)
  BY <1>1, <1>2
<1>4. \A y \in T : x <= y
  BY <1>3
<1> QED
  BY <1>4

(* Induction up to n, over the set T of the numbers for which the claim holds. *)
LEMMA UpTo ==
    ASSUME NEW a \in Nat, NEW n \in Nat, a <= n, NEW T, a \in T,
           \A m \in a + 1 .. n : m - 1 \in T => m \in T
    PROVE  n \in T
<1> DEFINE Bad == {m \in a .. n : m \notin T}
<1>1. SUFFICES ASSUME Bad # {}
               PROVE  FALSE
  <2>1. n \in a .. n
    OBVIOUS
  <2> QED
    BY <2>1
<1>2. PICK m \in Bad : \A k \in Bad : m <= k
  <2>1. Bad \subseteq Nat
    OBVIOUS
  <2> HIDE DEF Bad
  <2> QED
    BY <1>1, <2>1, LeastPosition
<1>3. m \in a + 1 .. n /\ m - 1 \in a .. n /\ m \notin T
  BY <1>2
<1>4. m - 1 \notin Bad
  BY <1>2, <1>3
<1> QED
  BY <1>3, <1>4

(* A sequence of integers has a largest element. *)
LEMMA Largest ==
    ASSUME NEW n \in Nat, n > 0, NEW s \in [1 .. n -> Int]
    PROVE  \E i \in 1 .. n : \A j \in 1 .. n : s[i] >= s[j]
<1> DEFINE T == {m \in 1 .. n : \E i \in 1 .. m : \A j \in 1 .. m : s[i] >= s[j]}
<1>1. 1 \in T
  OBVIOUS
<1>2. ASSUME NEW m \in 2 .. n, m - 1 \in T
      PROVE  m \in T
  <2>1. PICK i \in 1 .. m - 1 : \A j \in 1 .. m - 1 : s[i] >= s[j]
    BY <1>2
  <2>2. \A j \in 1 .. m : (j \in 1 .. m - 1 \/ j = m) /\ s[j] \in Int
    OBVIOUS
  <2>3. i \in 1 .. m /\ m \in 1 .. m
    OBVIOUS
  <2>4. CASE s[i] >= s[m]
    BY <2>1, <2>2, <2>3, <2>4
  <2>5. CASE s[m] >= s[i]
    BY <2>1, <2>2, <2>3, <2>5
  <2> QED
    BY <2>2, <2>3, <2>4, <2>5
<1>3. n \in T
  <2> HIDE DEF T
  <2>1. \A m \in 1 + 1 .. n : m - 1 \in T => m \in T
    BY <1>2
  <2> QED
    BY <1>1, <2>1, UpTo
<1> QED
  BY <1>3

(* ArgMax is the position of a largest element. *)
LEMMA ArgMaxIsLargest ==
    ASSUME NEW n \in Nat, n > 0, NEW s \in [1 .. n -> Int], Len(s) = n
    PROVE  ArgMax(s) \in 1 .. n /\ \A j \in 1 .. n : s[ArgMax(s)] >= s[j]
<1> DEFINE T == {i \in 1 .. n : \A j \in 1 .. n : s[i] >= s[j]}
<1>1. T \subseteq Nat /\ T # {}
  BY Largest
<1>2. PICK x \in T : \A y \in T : x <= y
  <2> HIDE DEF T
  <2> QED
    BY <1>1, LeastPosition
<1>3. \A j \in 1 .. x - 1 : s[x] > s[j]
  <2> SUFFICES ASSUME NEW j \in 1 .. x - 1, ~(s[x] > s[j])
               PROVE  FALSE
    OBVIOUS
  <2>1. j \in 1 .. n /\ x \in 1 .. n
    BY <1>2
  <2>2. s[j] >= s[x]
    BY <2>1
  <2>3. \A k \in 1 .. n : s[j] >= s[k]
    BY <2>1, <2>2, <1>2
  <2>4. x <= j
    BY <2>1, <2>3, <1>2
  <2> QED
    BY <2>1, <2>4
<1>4. x \in 1 .. Len(s)
  BY <1>2
<1>5. \A j \in 1 .. Len(s) : s[x] >= s[j]
  BY <1>2
<1> QED
  BY <1>3, <1>4, <1>5 DEF ArgMax
-----------------------------------------------------------------------------
(* Sums.  f is what Total computes on its way through the first n elements. *)

Sums(f, s, n) ==
    f \in [0 .. n -> Nat] /\ f[0] = 0 /\ \A i \in 1 .. n : f[i] = f[i - 1] + s[i]

(* What Total computes exists for every sequence of natural numbers.         *)
LEMMA SumExists ==
    ASSUME NEW n \in Nat, NEW s \in [1 .. n -> Nat]
    PROVE  \E f : Sums(f, s, n)
<1> DEFINE T == {m \in 0 .. n : \E f : Sums(f, s, m)}
<1>1. 0 \in T
  <2> DEFINE f == [i \in 0 .. 0 |-> 0]
  <2>1. f \in [0 .. 0 -> Nat] /\ f[0] = 0
    OBVIOUS
  <2>2. Sums(f, s, 0)
    BY <2>1 DEF Sums
  <2> QED
    BY <2>2
<1>2. ASSUME NEW m \in 1 .. n, m - 1 \in T
      PROVE  m \in T
  <2>1. PICK f : Sums(f, s, m - 1)
    BY <1>2
  <2> DEFINE g == [i \in 0 .. m |-> IF i = m THEN f[m - 1] + s[m] ELSE f[i]]
  <2>2. f[m - 1] \in Nat /\ s[m] \in Nat /\ \A i \in 0 .. m - 1 : f[i] \in Nat
    BY <2>1 DEF Sums
  <2>3. g \in [0 .. m -> Nat]
    <3>1. \A i \in 0 .. m : i = m \/ i \in 0 .. m - 1
      OBVIOUS
    <3> QED
      BY <2>2, <3>1
  <2>4. g[0] = 0
    BY <2>1 DEF Sums
  <2>5. ASSUME NEW i \in 1 .. m
        PROVE  g[i] = g[i - 1] + s[i]
    <3>1. CASE i = m
      BY <3>1
    <3>2. CASE i # m
      <4>1. i \in 1 .. m - 1 /\ g[i] = f[i] /\ g[i - 1] = f[i - 1]
        BY <3>2
      <4> QED
        BY <2>1, <4>1 DEF Sums
    <3> QED
      BY <3>1, <3>2
  <2>6. Sums(g, s, m)
    BY <2>3, <2>4, <2>5 DEF Sums
  <2> QED
    BY <2>6
<1>3. n \in T
  <2> HIDE DEF T
  <2>1. \A m \in 0 + 1 .. n : m - 1 \in T => m \in T
    BY <1>2
  <2> QED
    BY <1>1, <2>1, UpTo
<1> QED
  BY <1>3

(* Total is the last of those sums.                                          *)
LEMMA TotalIsSum ==
    ASSUME NEW n \in Nat, NEW s \in [1 .. n -> Nat], Len(s) = n
    PROVE  \E f : Sums(f, s, n) /\ Total(s) = f[n]
<1> DEFINE Rec(f) == f = [i \in 0 .. n |-> IF i = 0 THEN 0 ELSE f[i - 1] + s[i]]
           sum == CHOOSE f : Rec(f)
<1>1. PICK g : Sums(g, s, n)
  BY SumExists
<1>2. g = [i \in 0 .. n |-> g[i]] /\ \A i \in 0 .. n : g[i] = IF i = 0 THEN 0 ELSE g[i - 1] + s[i]
  BY <1>1 DEF Sums
<1>3. Rec(g)
  BY <1>2
<1>4. Rec(sum)
  BY <1>3
<1>5. Total(s) = sum[n]
  BY DEF Total
<1>6. DOMAIN sum = 0 .. n /\ sum[0] = 0 /\ \A i \in 1 .. n : sum[i] = sum[i - 1] + s[i]
  <2> HIDE DEF sum
  <2> QED
    BY <1>4
<1> HIDE DEF sum
<1>7. sum[n] = g[n]
  <2> DEFINE T == {m \in 0 .. n : sum[m] = g[m]}
  <2>1. 0 \in T
    BY <1>1, <1>6 DEF Sums
  <2>2. ASSUME NEW m \in 0 + 1 .. n, m - 1 \in T
        PROVE  m \in T
    BY <1>1, <1>6, <2>2 DEF Sums
  <2>3. n \in T
    <3> HIDE DEF T
    <3> QED
      BY <2>1, <2>2, UpTo
  <2> QED
    BY <2>3
<1> QED
  BY <1>1, <1>5, <1>7

(* The sums do not decrease. *)
LEMMA SumsGrow ==
    ASSUME NEW n \in Nat, NEW s \in [1 .. n -> Nat], NEW f, Sums(f, s, n), NEW i \in 0 .. n
    PROVE  f[i] <= f[n]
<1> DEFINE T == {m \in i .. n : f[i] <= f[m]}
<1>1. i \in T
  BY DEF Sums
<1>2. ASSUME NEW m \in i + 1 .. n, m - 1 \in T
      PROVE  m \in T
  <2>1. /\ f[m] = f[m - 1] + s[m] /\ s[m] \in Nat
        /\ f[i] \in Nat /\ f[m] \in Nat /\ f[m - 1] \in Nat
    BY DEF Sums
  <2> QED
    BY <1>2, <2>1
<1>3. n \in T
  <2> HIDE DEF T
  <2> QED
    BY <1>1, <1>2, UpTo
<1> QED
  BY <1>3

(* Each element is part of the sum. *)
LEMMA PartOfTotal ==
    ASSUME NEW n \in Nat, NEW s \in [1 .. n -> Nat], Len(s) = n
    PROVE  Total(s) \in Nat /\ \A i \in 1 .. n : s[i] <= Total(s)
<1>1. PICK f : Sums(f, s, n) /\ Total(s) = f[n]
  BY TotalIsSum
<1>2. f[n] \in Nat
  BY <1>1 DEF Sums
<1>3. ASSUME NEW i \in 1 .. n
      PROVE  s[i] <= f[n]
  <2>1. f[i] = f[i - 1] + s[i] /\ f[i] \in Nat /\ f[i - 1] \in Nat /\ s[i] \in Nat
    BY <1>1 DEF Sums
  <2>2. f[i] <= f[n]
    BY <1>1, SumsGrow
  <2> QED
    BY <1>2, <2>1, <2>2
<1> QED
  BY <1>1, <1>2, <1>3

(* Without one element the sum is smaller by that. *)
Without(e, s, k, n) ==
    e \in [1 .. n -> Nat] /\ e[k] = 0 /\ \A q \in 1 .. n : q # k => e[q] = s[q]

(* Without one element the last sum is smaller by that element.              *)
LEMMA SumWithout ==
    ASSUME NEW n \in Nat, NEW s \in [1 .. n -> Nat], NEW k \in 1 .. n, NEW f, Sums(f, s, n),
           NEW e, Without(e, s, k, n), NEW g, Sums(g, e, n)
    PROVE  g[n] = f[n] - s[k]
<1> DEFINE T == {m \in 0 .. n : g[m] = IF m < k THEN f[m] ELSE f[m] - s[k]}
<1>1. 0 \in T
  BY DEF Sums
<1>2. ASSUME NEW m \in 0 + 1 .. n, m - 1 \in T
      PROVE  m \in T
  <2>0. m \in 1 .. n /\ m - 1 \in 0 .. n /\ m \in 0 .. n
    OBVIOUS
  <2>1. /\ f[m] = f[m - 1] + s[m] /\ g[m] = g[m - 1] + e[m]
        /\ f[m - 1] \in Nat /\ s[m] \in Nat /\ s[k] \in Nat /\ f[m] \in Nat
    BY <2>0 DEF Sums
  <2>3. m = k => e[m] = 0
    BY DEF Without
  <2>4. m # k => e[m] = s[m]
    BY <2>0 DEF Without
  <2>2. g[m - 1] = IF m - 1 < k THEN f[m - 1] ELSE f[m - 1] - s[k]
    BY <1>2
  <2> QED
    BY <2>0, <2>1, <2>2, <2>3, <2>4
<1>3. n \in T
  <2> HIDE DEF T
  <2> QED
    BY <1>1, <1>2, UpTo
<1> QED
  BY <1>3

(* So an element can be taken out of a sum.                                  *)
LEMMA TakeOut ==
    ASSUME NEW n \in Nat, NEW s \in [1 .. n -> Nat], NEW k \in 1 .. n, NEW f, Sums(f, s, n)
    PROVE  \E e, g : Without(e, s, k, n) /\ Sums(g, e, n) /\ g[n] = f[n] - s[k]
<1> DEFINE e == [s EXCEPT ![k] = 0]
<1>1. Without(e, s, k, n)
  BY DEF Without
<1>2. e \in [1 .. n -> Nat]
  OBVIOUS
<1> HIDE DEF e
<1>3. PICK g : Sums(g, e, n)
  BY <1>2, SumExists
<1>4. g[n] = f[n] - s[k]
  BY <1>1, <1>3, SumWithout
<1> QED
  BY <1>1, <1>3, <1>4

(* What has something at least as large for each of its elements, another for *)
(* each, sums up to no less.                                                  *)
LEMMA TotalCovers ==
    ASSUME NEW m \in Nat, NEW n \in Nat, NEW a \in [1 .. m -> Nat], NEW b \in [1 .. n -> Nat],
           Len(a) = m, Len(b) = n,
           NEW h \in [1 .. m -> 1 .. n], \A i, j \in 1 .. m : h[i] = h[j] => i = j,
           \A i \in 1 .. m : a[i] <= b[h[i]]
    PROVE  Total(a) <= Total(b)
<1>1. PICK f : Sums(f, a, m) /\ Total(a) = f[m]
  BY TotalIsSum
<1>2. PICK g : Sums(g, b, n) /\ Total(b) = g[n]
  BY TotalIsSum
<1> DEFINE Rest(k, c) == c \in [1 .. n -> Nat] /\ \A i \in 1 .. k : a[i] <= c[h[i]]
           Covered(k) == \A c, d : Rest(k, c) /\ Sums(d, c, n) => f[k] <= d[n]
           T == {k \in 0 .. m : Covered(k)}
<1>3. 0 \in T
  <2>1. ASSUME NEW c, NEW d, Sums(d, c, n)
        PROVE  f[0] <= d[n]
    BY <1>1, <2>1 DEF Sums
  <2> QED
    BY <2>1
<1>4. ASSUME NEW k \in 0 + 1 .. m, k - 1 \in T
      PROVE  k \in T
  <2>a. k \in 1 .. m /\ k \in 0 .. m /\ Covered(k - 1)
    <3> HIDE DEF Covered
    <3> QED
      BY <1>4
  <2>b. SUFFICES ASSUME NEW c, NEW d, Rest(k, c), Sums(d, c, n)
                 PROVE  f[k] <= d[n]
    BY <2>a
  <2> DEFINE p == h[k]
  <2>1. p \in 1 .. n /\ c \in [1 .. n -> Nat]
    BY <2>a, <2>b
  <2> HIDE DEF p
  <2>3. PICK e, r : Without(e, c, p, n) /\ Sums(r, e, n) /\ r[n] = d[n] - c[p]
    <3> HIDE DEF T, Covered, Rest
    <3>1. n \in Nat /\ c \in [1 .. n -> Nat] /\ p \in 1 .. n /\ Sums(d, c, n)
      BY <2>1, <2>b
    <3> QED
      BY ONLY <3>1, TakeOut
  <2>2. Rest(k - 1, e)
    <3>1. ASSUME NEW i \in 1 .. k - 1
          PROVE  a[i] <= e[h[i]]
      <4>1. i \in 1 .. m /\ i # k /\ i \in 1 .. k /\ h[i] # p /\ h[i] \in 1 .. n
        BY <2>a DEF p
      <4> QED
        BY <2>3, <2>b, <4>1 DEF Without
    <3> QED
      BY <2>3, <3>1 DEF Without
  <2> HIDE DEF Rest
  <2>4. f[k - 1] <= r[n]
    BY <2>2, <2>3, <2>a
  <2>5. r[n] = d[n] - c[p]
    BY <2>3
  <2>6. a[k] <= c[p] /\ c[p] \in Nat /\ a[k] \in Nat /\ d[n] \in Nat
    BY <2>1, <2>a, <2>b DEF Sums, Rest, p
  <2>7. f[k] = f[k - 1] + a[k] /\ f[k - 1] \in Nat
    BY <1>1, <2>a DEF Sums
  <2> HIDE DEF p
  <2> QED
    <3> DEFINE w == r[n] x == d[n] y == c[p] z == a[k] u == f[k - 1] v == f[k]
    <3>1. u <= w /\ w = x - y /\ z <= y /\ y \in Nat /\ z \in Nat /\ x \in Nat /\ v = u + z
          /\ u \in Nat
      BY <2>4, <2>5, <2>6, <2>7
    <3> HIDE DEF u, v, w, x, y, z
    <3>2. v <= x
      BY <3>1
    <3> QED
      BY <3>2 DEF v, x
<1>5. m \in T
  <2> HIDE DEF T
  <2> QED
    BY <1>3, <1>4, UpTo
<1>6. Rest(m, b)
  OBVIOUS
<1> QED
  BY <1>1, <1>2, <1>5, <1>6
-----------------------------------------------------------------------------
(* What InOrder and AtPositions return. *)

StrictOrder(S, R) ==
    /\ \A x \in S : <<x, x>> \notin R
    /\ \A x, y \in S : x = y \/ <<x, y>> \in R \/ <<y, x>> \in R
    /\ \A x, y, z \in S : <<x, y>> \in R /\ <<y, z>> \in R => <<x, z>> \in R

(* Every member has its place, and the places are in the order R. *)
LEMMA InOrderSorts ==
    ASSUME NEW S, IsFiniteSet(S), NEW R, StrictOrder(S, R)
    PROVE  LET s == InOrder(S, R) n == Cardinality(S)
           IN  /\ n \in Nat /\ s \in [1 .. n -> S]
               /\ \A k, l \in 1 .. n : k < l => <<s[k], s[l]>> \in R
               /\ \A x \in S : \E k \in 1 .. n : s[k] = x
<1> DEFINE n == Cardinality(S)
           Below(x) == {y \in S : <<y, x>> \in R}
           place == [x \in S |-> Cardinality(Below(x)) + 1]
           s == InOrder(S, R)
<1>1. n \in Nat
  BY FS_CardinalityType
<1>2. ASSUME NEW x \in S
      PROVE  /\ IsFiniteSet(Below(x)) /\ Cardinality(Below(x)) \in Nat
             /\ Cardinality(Below(x)) < n
  <2>1. Below(x) \in SUBSET S /\ Below(x) # S
    BY DEF StrictOrder
  <2> HIDE DEF Below
  <2>2. IsFiniteSet(Below(x)) /\ Cardinality(Below(x)) <= n /\ Cardinality(Below(x)) # n
    BY <2>1, FS_Subset
  <2>3. Cardinality(Below(x)) \in Nat
    BY <2>2, FS_CardinalityType
  <2> QED
    BY <1>1, <2>2, <2>3
<1>3. ASSUME NEW x \in S, NEW y \in S, <<x, y>> \in R
      PROVE  Cardinality(Below(x)) < Cardinality(Below(y))
  <2>1. Below(x) \in SUBSET Below(y) /\ x \in Below(y) /\ x \notin Below(x)
    BY <1>3 DEF StrictOrder
  <2>2. Below(x) # Below(y)
    BY <2>1
  <2> HIDE DEF Below
  <2>3. Cardinality(Below(x)) <= Cardinality(Below(y))
        /\ Cardinality(Below(x)) # Cardinality(Below(y))
    BY <1>2, <2>1, <2>2, FS_Subset
  <2> QED
    BY <1>2, <2>3
<1> HIDE DEF Below
<1>4. place \in [S -> 1 .. n]
  BY <1>1, <1>2
<1>5. \A x, y \in S : place[x] = place[y] => x = y
  <2> SUFFICES ASSUME NEW x \in S, NEW y \in S, place[x] = place[y], x # y
               PROVE  FALSE
    OBVIOUS
  <2>1. Cardinality(Below(x)) = Cardinality(Below(y))
    BY <1>2
  <2>2. <<x, y>> \in R \/ <<y, x>> \in R
    BY DEF StrictOrder
  <2> QED
    BY <1>2, <1>3, <2>1, <2>2
<1>6. \A k \in 1 .. n : \E x \in S : place[x] = k
  <2>1. IsFiniteSet(1 .. n) /\ Cardinality(1 .. n) = n
    BY <1>1, FS_Interval
  <2>2. place \in Injection(S, 1 .. n)
    BY <1>4, <1>5 DEF Injection, IsInjective
  <2> HIDE DEF place
  <2>3. place \in Surjection(S, 1 .. n)
    BY <2>1, <2>2, FS_Injection
  <2> QED
    BY <2>3 DEF Surjection
<1>7. ASSUME NEW k \in 1 .. n
      PROVE  s[k] \in S /\ Cardinality(Below(s[k])) = k - 1
  <2>1. PICK x \in S : place[x] = k
    BY <1>6
  <2>2. Cardinality(Below(x)) = k - 1
    BY <1>2, <2>1
  <2>3. s[k] = CHOOSE z \in S : Cardinality(Below(z)) = k - 1
    BY DEF InOrder, Below
  <2> HIDE DEF s
  <2> QED
    BY <2>2, <2>3
<1>8. s \in [1 .. n -> S]
  BY <1>7 DEF InOrder
<1>9. ASSUME NEW k \in 1 .. n, NEW l \in 1 .. n, k < l
      PROVE  <<s[k], s[l]>> \in R
  <2> HIDE DEF s
  <2>1. s[k] # s[l]
    BY <1>7, <1>9, <1>1
  <2>2. <<s[k], s[l]>> \in R \/ <<s[l], s[k]>> \in R
    BY <1>7, <2>1 DEF StrictOrder
  <2>3. Cardinality(Below(s[k])) = k - 1 /\ Cardinality(Below(s[l])) = l - 1
    BY <1>7
  <2> QED
    BY <1>1, <1>3, <1>7, <1>9, <2>2, <2>3
<1>10. ASSUME NEW x \in S
       PROVE  \E k \in 1 .. n : s[k] = x
  <2>1. place[x] \in 1 .. n
    BY <1>4
  <2>2. s[place[x]] \in S /\ Cardinality(Below(s[place[x]])) = place[x] - 1
    BY <1>7, <2>1
  <2>3. place[s[place[x]]] = place[x]
    BY <1>2, <2>1, <2>2
  <2> QED
    BY <1>5, <2>1, <2>2, <2>3
<1> QED
  BY <1>1, <1>8, <1>9, <1>10
-----------------------------------------------------------------------------
(* The arithmetic keeps to whole numbers. *)

(* Products and quotients, which the solver is given as facts of their own.  *)
LEMMA Products ==
    /\ \A a, b \in Nat : a * b \in Nat
    /\ \A a \in Nat : \A b \in Nat \ {0} : a \div b \in Nat
OBVIOUS

(* Round returns a whole number.                                             *)
LEMMA RoundIsInt ==
    ASSUME NEW a \in Int, NEW b \in Nat \ {0}
    PROVE  Round(a, b) \in Int /\ (a >= 0 => Round(a, b) \in Nat)
BY DEF Round

(* Every quantisation has a size.                                            *)
LEMMA BytesPerParamIsNat == \A quant \in Quants : BytesPerParam(quant) \in Nat
BY DEF BytesPerParam, Quants

(* An entry of the catalog has the types of CatalogAssumption. *)
LEMMA ModelTypes ==
    ASSUME NEW i \in 1 .. Len(Catalog)
    PROVE  LET model == Catalog[i]
           IN  /\ model.params \in Nat /\ model.totalParams \in Nat /\ model.numLayers \in Nat
               /\ model.numKvHeads \in Nat /\ model.hiddenSize \in Nat
               /\ model.numAttentionHeads \in Nat \ {0} /\ model.maxContext \in Nat
               /\ model.popularityRank \in Nat /\ model.quantOptions \in Seq(Quants) \ {<<>>}
<1>1. Catalog[i] \in ModelEntry
  BY CatalogAssumption
<1> QED
  BY <1>1 DEF ModelEntry

(* The smallest quantisation of a model is one it has. *)
LEMMA SmallestIsOwn ==
    ASSUME NEW model, model.quantOptions \in Seq(Quants) \ {<<>>}
    PROVE  /\ \E i \in 1 .. Len(model.quantOptions) : model.quantOptions[i] = SmallestQuant(model)
           /\ SmallestQuant(model) \in Quants
<1> DEFINE q == model.quantOptions
           n == Len(q)
           size == [i \in 1 .. n |-> BytesPerParam(q[i])]
           s == [i \in 1 .. Len(size) |-> -size[i]]
<1>1. n \in Nat /\ n > 0 /\ \A i \in 1 .. n : q[i] \in Quants
  OBVIOUS
<1>2. size \in [1 .. n -> Nat] /\ Len(size) = n
  BY <1>1, BytesPerParamIsNat
<1>3. s \in [1 .. n -> Int] /\ Len(s) = n
  BY <1>1, <1>2
<1>4. ArgMax(s) \in 1 .. n
  <2> HIDE DEF s, n
  <2> QED
    BY <1>1, <1>3, ArgMaxIsLargest
<1>5. SmallestQuant(model) = q[ArgMax(s)]
  BY DEF SmallestQuant, ArgMin
<1> QED
  BY <1>1, <1>4, <1>5

(* The memory a model needs is a natural number. *)
LEMMA VramTypes ==
    ASSUME NEW i \in 1 .. Len(Catalog), NEW quant \in Quants, NEW kv, NEW context \in Nat,
           NEW users \in Nat
    PROVE  LET v == ComputeVram(Catalog[i], quant, kv, context, users)
           IN  v.weights \in Nat /\ v.kvCache \in Nat /\ v.total \in Nat
<1> DEFINE model == Catalog[i]
           weights == (model.totalParams * BytesPerParam(quant) * 9537) \div 1000
           headDim == model.hiddenSize \div model.numAttentionHeads
           perToken == IF IsEncoderOnly(model.type) THEN 0
                       ELSE 2 * model.numLayers * model.numKvHeads * headDim * BytesPerKvElement(kv)
           cache == (perToken \div 1024) * context * users
           overhead == ((weights + cache) * 12) \div 100
<1>0. /\ model.totalParams \in Nat /\ model.numLayers \in Nat /\ model.numKvHeads \in Nat
      /\ model.hiddenSize \in Nat /\ model.numAttentionHeads \in Nat \ {0}
  BY ModelTypes
<1>1. BytesPerParam(quant) \in Nat /\ BytesPerKvElement(kv) \in Nat
  BY BytesPerParamIsNat DEF BytesPerKvElement
<1> HIDE DEF model
<1>2. weights \in Nat
  <2>1. model.totalParams * BytesPerParam(quant) \in Nat
    BY <1>0, <1>1, Products
  <2> QED
    BY <2>1
<1>3. headDim \in Nat
  BY <1>0, Products
<1> HIDE DEF weights, headDim
<1>4. perToken \in Nat
  <2>1. 2 * model.numLayers * model.numKvHeads \in Nat
    BY <1>0, Products
  <2>2. 2 * model.numLayers * model.numKvHeads * headDim \in Nat
    BY <2>1, <1>3, Products
  <2>3. 2 * model.numLayers * model.numKvHeads * headDim * BytesPerKvElement(kv) \in Nat
    BY <2>2, <1>1, Products
  <2> QED
    BY <2>3
<1> HIDE DEF perToken
<1>5. cache \in Nat
  <2>1. (perToken \div 1024) * context \in Nat
    BY <1>4, Products
  <2> QED
    BY <2>1, Products
<1> HIDE DEF cache
<1>6. overhead \in Nat
  BY <1>2, <1>5
<1> HIDE DEF overhead
<1>7. ComputeVram(model, quant, kv, context, users)
      = [weights |-> weights, kvCache |-> cache, total |-> weights + cache + overhead]
  BY DEF ComputeVram, weights, headDim, perToken, cache, overhead
<1> QED
  BY <1>2, <1>5, <1>6, <1>7 DEF model
-----------------------------------------------------------------------------
(* A filtered list: from the places it has left to those it took them from, in *)
(* order and without leaving one out.                                        *)
Keeps(o, m, S) ==
    /\ o \in [1 .. m -> S] /\ \A k, l \in 1 .. m : k < l => o[k] < o[l]
    /\ \A x \in S : \E k \in 1 .. m : o[k] = x

(* AtPositions is such a filtered list, from these places. *)
Places(S) == InOrder(S, {p \in {<<i, j>> : i, j \in S} : p[1] < p[2]})

LEMMA PlacesKeep ==
    ASSUME NEW S, S \subseteq Nat, IsFiniteSet(S)
    PROVE  Cardinality(S) \in Nat /\ Keeps(Places(S), Cardinality(S), S)
<1> DEFINE R == {p \in {<<i, j>> : i, j \in S} : p[1] < p[2]}
           m == Cardinality(S)
           o == InOrder(S, R)
<1>1. \A i, j \in S : <<i, j>> \in R <=> i < j
  OBVIOUS
<1>2. StrictOrder(S, R)
  <2> HIDE DEF R
  <2> QED
    BY <1>1 DEF StrictOrder
<1>3. Places(S) = o
  BY DEF Places
<1> HIDE DEF R
<1>4. /\ m \in Nat /\ o \in [1 .. m -> S]
      /\ \A k, l \in 1 .. m : k < l => <<o[k], o[l]>> \in R
      /\ \A x \in S : \E k \in 1 .. m : o[k] = x
  BY <1>2, InOrderSorts
<1> HIDE DEF m, o
<1>5. \A k, l \in 1 .. m : k < l => o[k] < o[l]
  BY <1>1, <1>4
<1>6. Keeps(o, m, S)
  BY <1>4, <1>5 DEF Keeps
<1> QED
  BY <1>3, <1>4, <1>6 DEF m

(* A set of positions of a list is a finite set of numbers.                  *)
LEMMA FinitePositions ==
    ASSUME NEW n \in Nat, NEW S, S \subseteq 1 .. n
    PROVE  S \subseteq Nat /\ IsFiniteSet(S)
<1>1. IsFiniteSet(1 .. n)
  BY FS_Interval
<1>2. S \in SUBSET (1 .. n)
  OBVIOUS
<1>3. IsFiniteSet(S)
  BY <1>1, <1>2, FS_Subset
<1> QED
  BY <1>3

(* Different places come from different ones. *)
LEMMA KeepsApart ==
    ASSUME NEW S, S \subseteq Nat, NEW m \in Nat, NEW o, Keeps(o, m, S)
    PROVE  \A k, l \in 1 .. m : o[k] = o[l] => k = l
<1> SUFFICES ASSUME NEW k \in 1 .. m, NEW l \in 1 .. m, o[k] = o[l], k # l
             PROVE  FALSE
  OBVIOUS
<1>0. k < l \/ l < k
  OBVIOUS
<1>1. (k < l \/ l < k) /\ o[k] \in Nat
  BY <1>0 DEF Keeps
<1> QED
  BY <1>1 DEF Keeps

(* Of configurations with whole numbers there is a first in the order Sorted. *)
Sizes(configs) == \A c \in configs : c.total \in Nat /\ c.place \in Nat

(* FirstOf returns it, and none has less memory.                             *)
LEMMA FirstIsFirst ==
    ASSUME NEW configs, Sizes(configs), configs # {}
    PROVE  FirstOf(configs) \in configs /\ \A c \in configs : FirstOf(configs).total <= c.total
<1> DEFINE totals == {c.total : c \in configs}
<1>1. totals \subseteq Nat /\ totals # {}
  BY DEF Sizes
<1>2. PICK t \in totals : \A u \in totals : t <= u
  <2> HIDE DEF totals
  <2> QED
    BY <1>1, LeastPosition
<1> DEFINE smallest == {c \in configs : c.total = t}
           places == {c.place : c \in smallest}
<1>3. places \subseteq Nat /\ places # {}
  BY <1>2 DEF Sizes
<1>4. PICK p \in places : \A q \in places : p <= q
  <2> HIDE DEF places
  <2> QED
    BY <1>3, LeastPosition
<1>5. PICK c \in smallest : c.place = p
  BY <1>4
<1>6. ASSUME NEW d \in configs
      PROVE  Sorted(c, d)
  <2>1. c.total = t /\ d.total \in totals /\ t <= d.total /\ d.total \in Nat /\ t \in Nat
    BY <1>1, <1>2, <1>5 DEF Sizes
  <2>2. CASE t < d.total
    BY <2>1, <2>2 DEF Sorted
  <2>3. CASE d.total = t
    <3>1. c.place <= d.place
      BY <1>4, <1>5, <2>3
    <3> QED
      BY <2>1, <2>3, <3>1 DEF Sorted
  <2> QED
    BY <2>1, <2>2, <2>3
<1>7. \E x \in configs : \A d \in configs : Sorted(x, d)
  BY <1>5, <1>6
<1>8. FirstOf(configs) \in configs /\ \A d \in configs : Sorted(FirstOf(configs), d)
  BY <1>7 DEF FirstOf
<1> HIDE DEF totals, smallest, places
<1> QED
  BY <1>8 DEF Sizes, Sorted
-----------------------------------------------------------------------------
(* The recommended hardware. *)

(* Configurations with whole numbers, of which Leaving changes the headroom only. *)
Known(configs) ==
    Sizes(configs) /\ \A c \in configs : \A need : Leaving(c, need).total = c.total

(* The configurations of the catalog are known ones.                         *)
LEMMA AllConfigsKnown == Known(ALL_CONFIGS)
<1> SUFFICES ASSUME NEW c \in ALL_CONFIGS
             PROVE  c.total \in Nat /\ c.place \in Nat /\ \A need : Leaving(c, need).total = c.total
  BY DEF Known, Sizes
<1>1. PICK i \in 1 .. Len(Gpus), k \in 1 .. 4 :
         c = [gpu |-> Gpus[i], count |-> GPU_COUNT_OPTIONS[k], place |-> 4 * i + k,
              total |-> Gpus[i].vram * GPU_COUNT_OPTIONS[k], headroom |-> 0]
  BY DEF ALL_CONFIGS, GPU_COUNT_OPTIONS
<1>2. Gpus[i].vram \in Nat
  <2>1. Gpus[i] \in GpuEntry
    BY GpusAssumption
  <2> QED
    BY <2>1 DEF GpuEntry
<1>3. GPU_COUNT_OPTIONS[k] \in Nat
  BY DEF GPU_COUNT_OPTIONS
<1>4. Gpus[i].vram * GPU_COUNT_OPTIONS[k] \in Nat
  BY <1>2, <1>3, Products
<1>5. c.total \in Nat /\ c.place \in Nat
  BY <1>1, <1>4
<1>6. \A need : Leaving(c, need).total = c.total
  BY <1>1 DEF Leaving
<1> QED
  BY <1>5, <1>6

(* What holds a tier's workload still does with more memory; what holds that of  *)
(* a higher tier holds that of a lower.                                      *)
LEMMA FitsGrow ==
    ASSUME NEW a, NEW b, a.total \in Nat, b.total \in Nat, a.total <= b.total, NEW need \in Nat,
           NEW label \in {"minimum", "recommended", "high-end"}, Fits(a, label, need)
    PROVE  Fits(b, label, need)
<1>1. HEADROOM(label) \in {92, 65, 45}
  BY DEF HEADROOM
<1> QED
  BY <1>1 DEF Fits

(* What holds with the room of a higher tier holds with that of a lower one. *)
LEMMA FitsLower ==
    ASSUME NEW a, a.total \in Nat, NEW need \in Nat
    PROVE  /\ Fits(a, "high-end", need) => Fits(a, "recommended", need)
           /\ Fits(a, "recommended", need) => Fits(a, "minimum", need)
BY DEF Fits, HEADROOM

(* A step up leads to a larger configuration unless there is none, and to one that *)
(* holds the tier's workload if any does.                                     *)
LEMMA StepUpHolds ==
    ASSUME NEW configs, Known(configs), NEW label \in {"recommended", "high-end"}, NEW below,
           NEW need \in Nat,
           Fitting(configs, label, need) # {} => below.total \in Nat
    PROVE  LET up == StepUp(configs, label, below, need)
           IN  /\ below.total < up.total \/ LargerThan(configs, below) = {}
               /\ Fitting(configs, label, need) # {} => up.total \in Nat /\ Fits(up, label, need)
<1> DEFINE up == StepUp(configs, label, below, need)
           fitting == Fitting(configs, label, need)
           larger == LargerThan(configs, below)
           first == FirstOf(fitting)
           next == FirstOf(larger)
<1>1. fitting \subseteq configs /\ larger \subseteq configs /\ Sizes(fitting) /\ Sizes(larger)
  BY DEF Fitting, LargerThan, Known, Sizes
<1>2. fitting # {} => /\ first \in fitting /\ first.total \in Nat /\ Fits(first, label, need)
                      /\ Leaving(first, need).total = first.total
  <2>1. fitting # {} => first \in fitting
    <3> HIDE DEF fitting
    <3> QED
      BY <1>1, FirstIsFirst
  <2> HIDE DEF first
  <2> QED
    BY <2>1 DEF Fitting, Known, Sizes
<1>3. larger # {} => /\ next \in larger /\ next.total \in Nat /\ next.total > below.total
                     /\ Leaving(next, need).total = next.total
  <2>1. larger # {} => next \in larger
    <3> HIDE DEF larger
    <3> QED
      BY <1>1, FirstIsFirst
  <2> HIDE DEF next
  <2> QED
    BY <2>1 DEF LargerThan, Known, Sizes
<1> HIDE DEF first, next
<1>4. CASE fitting # {} /\ first.total > below.total
  <2>1. up = Leaving(first, need)
    BY <1>2, <1>4 DEF StepUp, first
  <2>2. up.total = first.total
    BY <1>2, <1>4, <2>1
  <2> HIDE DEF up, fitting, larger
  <2>3. Fits(up, label, need)
    BY <1>2, <1>4, <2>2 DEF Fits
  <2> QED
    BY <1>2, <1>4, <2>2, <2>3 DEF fitting, larger, up
<1>5. CASE fitting # {} /\ first.total <= below.total /\ larger = {}
  <2>1. up = Leaving(first, need)
    BY <1>2, <1>5 DEF StepUp, first
  <2>2. up.total = first.total
    BY <1>2, <1>5, <2>1
  <2> HIDE DEF up, fitting, larger
  <2>3. Fits(up, label, need)
    BY <1>2, <1>5, <2>2 DEF Fits
  <2> QED
    BY <1>2, <1>5, <2>2, <2>3 DEF fitting, larger, up
<1>6. CASE fitting = {} /\ larger = {}
  BY <1>6
<1>7. CASE larger # {} /\ (fitting # {} => ~(first.total > below.total))
  <2>1. up = Leaving(next, need)
    BY <1>7 DEF StepUp, first, next
  <2>2. up.total = next.total /\ up.total \in Nat /\ next.total > below.total
    BY <1>3, <1>7, <2>1
  <2>3. ASSUME fitting # {}
        PROVE  Fits(up, label, need)
    <3>1. first.total <= up.total
      BY <1>2, <1>7, <2>2, <2>3
    <3> HIDE DEF up, fitting, larger
    <3> QED
      BY <1>2, <2>2, <2>3, <3>1, FitsGrow
  <2>4. below.total < up.total
    BY <2>2
  <2> HIDE DEF up, fitting, larger
  <2> QED
    BY <2>2, <2>3, <2>4 DEF fitting, larger, up
<1>8. \/ fitting # {} /\ first.total > below.total
      \/ fitting # {} /\ first.total <= below.total /\ larger = {}
      \/ fitting = {} /\ larger = {}
      \/ larger # {} /\ (fitting # {} => ~(first.total > below.total))
  BY <1>2
<1> QED
  BY <1>4, <1>5, <1>6, <1>7, <1>8

(* TierConfigs: each tier has more than the one below it unless none has more, and *)
(* holds what it promises if any configuration does.                          *)
LEMMA TierConfigsHold ==
    ASSUME NEW configs, Known(configs), NEW need \in Nat
    PROVE  LET t == TierConfigs(configs, need)
           IN  /\ t.minimum.total < t.recommended.total \/ LargerThan(configs, t.minimum) = {}
               /\ t.recommended.total < t.highEnd.total \/ LargerThan(configs, t.recommended) = {}
               /\ \/ t.minimum = CPU_CONFIG
                  \/ Fitting(configs, "minimum", need) # {} => Fits(t.minimum, "minimum", need)
               /\ Fitting(configs, "recommended", need) # {} =>
                  Fits(t.recommended, "recommended", need)
               /\ Fitting(configs, "high-end", need) # {} => Fits(t.highEnd, "high-end", need)
<1> DEFINE low == MinimumConfig(configs, need)
           mid == StepUp(configs, "recommended", low, need)
           high == StepUp(configs, "high-end", mid, need)
           fitting == Fitting(configs, "minimum", need)
<1>1. /\ Fitting(configs, "high-end", need) # {} => Fitting(configs, "recommended", need) # {}
      /\ Fitting(configs, "recommended", need) # {} => fitting # {}
  BY FitsLower DEF Fitting, Known, Sizes
<1>2. need <= CPU_VIABLE_LIMIT => low = CPU_CONFIG
  BY DEF MinimumConfig, CPU_VIABLE_LIMIT
<1>3. CPU_CONFIG.total = 0
  BY DEF CPU_CONFIG
<1>4. ASSUME ~(need <= CPU_VIABLE_LIMIT), fitting # {}
      PROVE  low.total \in Nat /\ Fits(low, "minimum", need)
  <2>1. low = Leaving(FirstOf(fitting), need)
    BY <1>4 DEF MinimumConfig, CPU_VIABLE_LIMIT
  <2>2. FirstOf(fitting) \in fitting
    <3>1. Sizes(fitting)
      BY DEF Fitting, Known, Sizes
    <3> HIDE DEF fitting
    <3> QED
      BY <1>4, <3>1, FirstIsFirst
  <2>3. low.total = FirstOf(fitting).total /\ low.total \in Nat
    BY <2>1, <2>2 DEF Fitting, Known, Sizes
  <2>4. Fits(FirstOf(fitting), "minimum", need)
    BY <2>2 DEF Fitting
  <2> HIDE DEF low, fitting
  <2> QED
    BY <2>3, <2>4 DEF Fits
<1>5. fitting # {} => low.total \in Nat
  BY <1>2, <1>3, <1>4
<1> HIDE DEF low, fitting
<1>6. /\ low.total < mid.total \/ LargerThan(configs, low) = {}
      /\ Fitting(configs, "recommended", need) # {} =>
         mid.total \in Nat /\ Fits(mid, "recommended", need)
  BY <1>1, <1>5, StepUpHolds
<1> HIDE DEF mid
<1>7. /\ mid.total < high.total \/ LargerThan(configs, mid) = {}
      /\ Fitting(configs, "high-end", need) # {} => Fits(high, "high-end", need)
  BY <1>1, <1>6, StepUpHolds
<1> HIDE DEF high
<1>8. TierConfigs(configs, need) = [minimum |-> low, recommended |-> mid, highEnd |-> high]
  BY DEF TierConfigs, low, mid, high
<1> QED
  BY <1>2, <1>4, <1>6, <1>7, <1>8 DEF fitting

(* What a tier is built from. *)
LEMMA PickTiersAre ==
    ASSUME NEW model, NEW quant, NEW need,
           need = Tenths(ComputeVram(model, quant, req.kvElement, req.context,
                                     req.concurrency).total)
    PROVE  LET tiers == PickTiers(model, quant, req)
               picked == TierConfigs(ALL_CONFIGS, need)
           IN  /\ tiers[1].config = picked.minimum /\ tiers[1].label = "minimum"
               /\ tiers[2].config = picked.recommended /\ tiers[2].label = "recommended"
               /\ tiers[3].config = picked.highEnd /\ tiers[3].label = "high-end"
BY DEF PickTiers, BuildTier

(* The cheapest instance that is large enough, and what it costs. *)
LEMMA CostIsNat ==
    ASSUME NEW required, NEW requests
    PROVE  SelfHostVsApiBreakEven(required, requests).selfHostMonthly \in Nat
<1> DEFINE offers ==
             {PickCloudInstance(required, Providers[p]) : p \in 1 .. Len(Providers)} \ {NoInstance}
           costs == {CloudCost(inst) : inst \in offers}
<1>1. ASSUME NEW p \in 1 .. Len(Providers), PickCloudInstance(required, Providers[p]) # NoInstance
      PROVE  PickCloudInstance(required, Providers[p]).reserved \in Nat
  <2> DEFINE s == Providers[p]
             big == {i \in 1 .. Len(s) : InstanceVram(s[i]) >= required}
             prices == {s[i].onDemand : i \in big}
  <2>1. s \in Seq(CloudInstance) /\ big \subseteq Nat
    BY ProvidersAssumption
  <2>2. \A i \in 1 .. Len(s) : s[i].onDemand \in Nat /\ s[i].reserved \in Nat
    <3>1. \A i \in 1 .. Len(s) : s[i] \in CloudInstance
      BY <2>1
    <3> QED
      BY <3>1 DEF CloudInstance
  <2>3. big # {}
    BY <1>1 DEF PickCloudInstance
  <2> HIDE DEF s
  <2>4. PICK t \in prices : \A u \in prices : t <= u
    <3>1. prices \subseteq Nat /\ prices # {}
      BY <2>2, <2>3
    <3> HIDE DEF prices
    <3> QED
      BY <3>1, LeastPosition
  <2> DEFINE cheapest == {i \in big : s[i].onDemand = t}
  <2>5. PICK i \in cheapest : \A j \in cheapest : i <= j
    <3>1. cheapest \subseteq Nat /\ cheapest # {}
      BY <2>1, <2>4
    <3> HIDE DEF cheapest
    <3> QED
      BY <3>1, LeastPosition
  <2> DEFINE Cheaper(k, l) == s[k].onDemand < s[l].onDemand
  <2>6. ASSUME NEW j \in big
        PROVE  Cheaper(i, j) \/ (~Cheaper(j, i) /\ i <= j)
    <3>1. s[i].onDemand = t /\ s[j].onDemand \in Nat /\ t \in Nat /\ t <= s[j].onDemand
      BY <2>2, <2>4, <2>5
    <3>2. s[j].onDemand = t => i <= j
      BY <2>5
    <3> QED
      BY <3>1, <3>2
  <2>7. i \in big
    BY <2>5
  <2> DEFINE x == CHOOSE k \in big : \A j \in big : Cheaper(k, j) \/ (~Cheaper(j, k) /\ k <= j)
  <2>8. x \in big
    BY <2>6, <2>7
  <2>9. PickCloudInstance(required, s) = s[x]
    BY <2>3 DEF PickCloudInstance
  <2> HIDE DEF x
  <2> QED
    BY <2>2, <2>8, <2>9 DEF s
<1>2. \A inst \in offers : inst.reserved \in Nat
  BY <1>1
<1> HIDE DEF offers
<1>3. costs \subseteq Nat
  <2>1. \A inst \in offers : CloudCost(inst) \in Nat
    BY <1>2 DEF CloudCost, Round, HoursPerMonth, StorageMonthly
  <2> QED
    BY <2>1
<1> HIDE DEF costs
<1>4. costs # {} => (CHOOSE c \in costs : \A d \in costs : c <= d) \in costs
  BY <1>3, LeastPosition
<1> DEFINE selfHost == IF costs = {} THEN 0 ELSE CHOOSE c \in costs : \A d \in costs : c <= d
<1>5. SelfHostVsApiBreakEven(required, requests).selfHostMonthly = selfHost
  BY DEF SelfHostVsApiBreakEven, costs, offers
<1>6. selfHost \in Nat
  BY <1>3, <1>4
<1> QED
  BY <1>5, <1>6

(* Renting wins from the named volume on, and not before. *)
LEMMA BreakEvenAgrees ==
    ASSUME NEW tiers
    PROVE  FiguresAgree(tiers)
<1> DEFINE required == tiers[2].config.total
           s == SelfHostVsApiBreakEven(required, 0).selfHostMonthly
           named == BreakEven(tiers, 5000).breakEven
           above == 100 * Ceiling(named, 100)
<1>1. s \in Nat
  BY CostIsNat
<1>2. ASSUME NEW requests
      PROVE  /\ BreakEven(tiers, requests).apiMonthly = Round(150 * requests, 1000)
             /\ BreakEven(tiers, requests).selfHostMonthly = s
             /\ BreakEven(tiers, requests).breakEven = Ceiling(1000 * s, 150)
  <2>1. ApiPerDailyRequest = 150
    BY DEF ApiPerDailyRequest
  <2>2. BreakEven(tiers, requests) = SelfHostVsApiBreakEven(required, requests)
    BY DEF BreakEven
  <2> HIDE DEF required
  <2> QED
    BY <2>1, <2>2 DEF SelfHostVsApiBreakEven
<1> HIDE DEF s
<1>3. named = (1000 * s + 149) \div 150
  <2>1. named = Ceiling(1000 * s, 150)
    BY <1>2
  <2> QED
    BY <1>1, <2>1 DEF Ceiling
<1> HIDE DEF named
<1>4. named \in Nat /\ 150 * named >= 1000 * s /\ 150 * named <= 1000 * s + 149
  BY <1>1, <1>3
<1> DEFINE k == Ceiling(named, 100)
<1>5. k \in Nat /\ 100 * k >= named /\ above = 100 * k
  BY <1>4 DEF Ceiling
<1> HIDE DEF k, above
<1>6. SelfHostWins(BreakEven(tiers, above))
  <2>1. 150 * above >= 1000 * s
    BY <1>1, <1>4, <1>5
  <2>2. Round(150 * above, 1000) >= s
    BY <1>1, <1>5, <2>1 DEF Round
  <2> QED
    BY <1>2, <2>2 DEF SelfHostWins
<1>7. ASSUME above - 100 \in 0 .. named - 4
      PROVE  ~SelfHostWins(BreakEven(tiers, above - 100))
  <2> DEFINE r == above - 100
  <2>1. r = 100 * (k - 1) /\ k - 1 \in Nat /\ 150 * r <= 1000 * s - 451
    BY <1>1, <1>4, <1>5, <1>7
  <2>2. 15 * (k - 1) <= s - 1
    BY <1>1, <2>1
  <2>3. 150 * r <= 1000 * (s - 1) /\ r \in Nat
    BY <1>1, <2>1, <2>2
  <2>4. Round(150 * r, 1000) < s
    BY <1>1, <2>3 DEF Round
  <2>5. Round(150 * r, 1000) \in Int
    BY <2>3 DEF Round
  <2> HIDE DEF r
  <2>6. ~SelfHostWins(BreakEven(tiers, r))
    BY <1>1, <1>2, <2>4, <2>5 DEF SelfHostWins
  <2> QED
    BY <2>6 DEF r
<1> QED
  BY <1>6, <1>7 DEF FiguresAgree, named, above

(* The memory that is needed, in tenths of a gigabyte. *)
LEMMA NeedIsNat ==
    ASSUME TypeOK, NEW i \in 1 .. Len(Catalog)
    PROVE  Tenths(ComputeVram(Catalog[i], SmallestQuant(Catalog[i]), req.kvElement,
                              req.context, req.concurrency).total) \in Nat
<1>1. SmallestQuant(Catalog[i]) \in Quants
  BY ModelTypes, SmallestIsOwn
<1>2. req.context \in Nat /\ req.concurrency \in Nat
  BY DEF TypeOK, Requirements
<1>3. ComputeVram(Catalog[i], SmallestQuant(Catalog[i]), req.kvElement,
                  req.context, req.concurrency).total \in Nat
  BY <1>1, <1>2, VramTypes
<1> QED
  BY <1>3 DEF Tenths, Round

(* HardwareHolds follows from the types: the requirements are numbers and the *)
(* selected model is of the catalog.                                         *)
LEMMA HardwareOK == TypeOK => HardwareHolds
<1> SUFFICES ASSUME TypeOK, step = "hardware", selected # 0
             PROVE  TiersHold(Tiers) /\ FiguresAgree(Tiers)
  BY DEF HardwareHolds
<1> DEFINE need == Tenths(ComputeVram(Model, SmallestQuant(Model), req.kvElement,
                                      req.context, req.concurrency).total)
           picked == TierConfigs(ALL_CONFIGS, need)
<1>1. need \in Nat
  <2>1. selected \in 1 .. Len(Catalog)
    BY DEF TypeOK
  <2> QED
    BY <2>1, NeedIsNat DEF Model
<1>2. /\ Tiers[1].config = picked.minimum /\ Tiers[1].label = "minimum"
      /\ Tiers[2].config = picked.recommended /\ Tiers[2].label = "recommended"
      /\ Tiers[3].config = picked.highEnd /\ Tiers[3].label = "high-end"
  BY PickTiersAre DEF Tiers
<1> HIDE DEF need
<1>3. /\ picked.minimum.total < picked.recommended.total
         \/ LargerThan(ALL_CONFIGS, picked.minimum) = {}
      /\ picked.recommended.total < picked.highEnd.total
         \/ LargerThan(ALL_CONFIGS, picked.recommended) = {}
      /\ \/ picked.minimum = CPU_CONFIG
         \/ Fitting(ALL_CONFIGS, "minimum", need) # {} => Fits(picked.minimum, "minimum", need)
      /\ Fitting(ALL_CONFIGS, "recommended", need) # {} =>
         Fits(picked.recommended, "recommended", need)
      /\ Fitting(ALL_CONFIGS, "high-end", need) # {} => Fits(picked.highEnd, "high-end", need)
  BY <1>1, AllConfigsKnown, TierConfigsHold
<1> HIDE DEF picked
<1>4. TiersHold(Tiers)
  <2>1. \A t \in 1 .. 2 : \/ Tiers[t].config.total < Tiers[t + 1].config.total
                          \/ LargerThan(ALL_CONFIGS, Tiers[t].config) = {}
    <3>1. \A t \in 1 .. 2 : t = 1 \/ t = 2
      OBVIOUS
    <3> QED
      BY <1>2, <1>3, <3>1
  <2>2. \A t \in 1 .. 3 : \/ Tiers[t].config = CPU_CONFIG
                          \/ Fitting(ALL_CONFIGS, Tiers[t].label, need) # {} =>
                             Fits(Tiers[t].config, Tiers[t].label, need)
    <3>1. \A t \in 1 .. 3 : t = 1 \/ t = 2 \/ t = 3
      OBVIOUS
    <3> QED
      BY <1>2, <1>3, <3>1
  <2> QED
    BY <2>1, <2>2 DEF TiersHold, need
<1> QED
  BY <1>4, BreakEvenAgrees
-----------------------------------------------------------------------------
(* The order of the models. *)

(* A score is a whole number.                                                *)
LEMMA ScoreIsInt ==
    ASSUME TypeOK, NEW i \in 1 .. Len(Catalog)
    PROVE  Score(Catalog[i], req) \in Int /\ Popularity(Catalog[i]) \in Int
<1> DEFINE model == Catalog[i]
           v == ComputeVram(model, SmallestQuant(model), req.kvElement, req.context,
                            req.concurrency)
           room == model.maxContext
           want == Larger(req.context, 1)
<1>1. /\ model.params \in Nat /\ room \in Nat /\ model.popularityRank \in Nat
      /\ model.quantOptions \in Seq(Quants) \ {<<>>}
  BY ModelTypes
<1>2. req.context \in Nat /\ req.concurrency \in Nat /\ want \in Nat
  BY DEF TypeOK, Requirements, Larger
<1>3. Tenths(v.total) \in Nat
  BY NeedIsNat
<1> HIDE DEF model, room, want, v
<1>4. \A test, points : points \in Nat => Points(test, points) \in Nat
  BY DEF Points
<1> DEFINE length == CASE room >= 4 * want -> 120
                       [] room < 4 * want /\ room >= 2 * want -> 80
                       [] room < 2 * want /\ 4 * room >= 5 * want -> 40
                       [] OTHER -> 0
           licence == CASE model.license = "open" -> 80
                        [] model.license = "community" /\ req.commercialOk -> 30
                        [] OTHER -> 0
           p1 == Points(model.structuredOutput, 40)
           p2 == Points(model.multilingual, 20)
           p3 == Points(model.longContextProven /\ req.context >= 32, 60)
           p4 == Points(req.preferFamily = model.family, 100)
           p5 == Points(req.sizeRanges = {} /\ model.params >= 700, 60)
           p6 == Points(req.sizeRanges = {} /\ model.params <= 40, 20)
           p7 == Points(Tenths(v.total) > 1600, 80)
           p8 == Points(Tenths(v.total) <= 800, 40)
           p9 == Points(model.popularityRank > 0, Larger(0, 60 - 3 * model.popularityRank))
<1>5. length \in Int /\ licence \in Int
  BY <1>1, <1>2
<1>6. Larger(0, 60 - 3 * model.popularityRank) \in Nat
  BY <1>1 DEF Larger
<1>7. SoftScore(model, req) \in Int
  <2>1. SoftScore(model, req) = 500 + length + p1 + p2 + p3 + licence + p4 - p5 - p6 - p7 + p8 + p9
    BY DEF SoftScore, v, room, want
  <2>2. /\ p1 \in Int /\ p2 \in Int /\ p3 \in Int /\ p4 \in Int /\ p5 \in Int
        /\ p6 \in Int /\ p7 \in Int /\ p8 \in Int /\ p9 \in Int
    <3> HIDE DEF length, licence
    <3> QED
      BY <1>4, <1>6
  <2> HIDE DEF length, licence, p1, p2, p3, p4, p5, p6, p7, p8, p9
  <2> QED
    BY <1>5, <2>1, <2>2
<1>8. Score(model, req) \in Int
  <2>1. Round(Larger(0, SoftScore(model, req)), 10) \in Int
    BY <1>7 DEF Larger, Round
  <2> QED
    BY <2>1 DEF Score
<1>9. Popularity(model) \in Int
  BY <1>1 DEF Popularity
<1> QED
  BY <1>8, <1>9 DEF model

(* i stands before j in the list of the models, by what they are compared by. *)
Rank == [i \in 1 .. Len(Catalog) |-> Verdict(Catalog[i], req)]

Listed(i, j) == RanksBefore(Rank[i], Rank[j]) \/ (i < j /\ ~RanksBefore(Rank[j], Rank[i]))

(* The order of the sorted catalog is a strict total order of its positions. *)
LEMMA ListedIsStrict ==
    ASSUME NEW n \in Nat, NEW r, \A i \in 1 .. n : r[i].score \in Int /\ r[i].popularity \in Int,
           NEW R, \A i, j \in 1 .. n : <<i, j>> \in R
                      <=> RanksBefore(r[i], r[j]) \/ (i < j /\ ~RanksBefore(r[j], r[i]))
    PROVE  StrictOrder(1 .. n, R)
<1>1. ASSUME NEW x \in 1 .. n
      PROVE  <<x, x>> \notin R
  BY DEF RanksBefore
<1>2. ASSUME NEW x \in 1 .. n, NEW y \in 1 .. n
      PROVE  x = y \/ <<x, y>> \in R \/ <<y, x>> \in R
  <2>1. x = y \/ x < y \/ y < x
    OBVIOUS
  <2> QED
    BY <2>1
<1>3. ASSUME NEW x \in 1 .. n, NEW y \in 1 .. n, NEW z \in 1 .. n, <<x, y>> \in R, <<y, z>> \in R
      PROVE  <<x, z>> \in R
  <2>1. RanksBefore(r[x], r[y]) \/ (x < y /\ ~RanksBefore(r[y], r[x]))
    BY <1>3
  <2>2. RanksBefore(r[y], r[z]) \/ (y < z /\ ~RanksBefore(r[z], r[y]))
    BY <1>3
  <2>3. /\ r[x].score \in Int /\ r[x].popularity \in Int /\ r[y].score \in Int /\ r[y].popularity \in Int
        /\ r[z].score \in Int /\ r[z].popularity \in Int
    OBVIOUS
  <2>4. RanksBefore(r[x], r[z]) \/ (x < z /\ ~RanksBefore(r[z], r[x]))
    BY <2>1, <2>2, <2>3 DEF RanksBefore
  <2> QED
    BY <2>4
<1> QED
  BY <1>1, <1>2, <1>3 DEF StrictOrder

(* What RankAll returns: every model once, each behind those it is listed after. *)
LEMMA RankAllOrders ==
    ASSUME TypeOK
    PROVE  \E o : /\ Ranked = [i \in 1 .. Len(Catalog) |-> Catalog[o[i]]]
                  /\ o \in [1 .. Len(Catalog) -> 1 .. Len(Catalog)]
                  /\ \A k, l \in 1 .. Len(Catalog) : k < l => Listed(o[k], o[l]) /\ o[k] # o[l]
                  /\ \A x \in 1 .. Len(Catalog) : \E k \in 1 .. Len(Catalog) : o[k] = x
<1> DEFINE n == Len(Catalog)
           Before(i, j) == \/ RanksBefore(Rank[i], Rank[j])
                           \/ i < j /\ ~RanksBefore(Rank[j], Rank[i])
           R == {p \in {<<i, j>> : i, j \in 1 .. Len(Catalog)} : Before(p[1], p[2])}
           o == InOrder(1 .. n, R)
<1>1. n \in Nat
  BY CatalogAssumption
<1>2. Ranked = [i \in 1 .. n |-> Catalog[o[i]]]
  BY DEF Ranked, RankAll, Rank
<1>3. \A i \in 1 .. n : Rank[i].score \in Int /\ Rank[i].popularity \in Int
  BY ScoreIsInt DEF Rank, Verdict
<1>5. \A i, j \in 1 .. n : <<i, j>> \in R <=> Before(i, j)
  <2> HIDE DEF Before
  <2> QED
    OBVIOUS
<1>6. \A i, j \in 1 .. n : <<i, j>> \in R <=> Listed(i, j)
  <2> HIDE DEF R, n
  <2> QED
    BY <1>5 DEF Listed
<1> HIDE DEF R
<1>7. StrictOrder(1 .. n, R)
  <2> HIDE DEF n
  <2> QED
    BY <1>1, <1>3, <1>6, ListedIsStrict DEF Listed
<1> HIDE DEF n
<1>8. IsFiniteSet(1 .. n) /\ Cardinality(1 .. n) = n
  BY <1>1, FS_Interval
<1>9. /\ o \in [1 .. n -> 1 .. n]
      /\ \A k, l \in 1 .. n : k < l => <<o[k], o[l]>> \in R
      /\ \A x \in 1 .. n : \E k \in 1 .. n : o[k] = x
  BY <1>7, <1>8, InOrderSorts
<1> HIDE DEF o
<1>10. \A k, l \in 1 .. n : k < l => Listed(o[k], o[l]) /\ o[k] # o[l]
  BY <1>6, <1>7, <1>9 DEF StrictOrder
<1> QED
  BY <1>2, <1>9, <1>10 DEF n

(* RankedRight: what filtering the sorted catalog leaves are the included    *)
(* models, each at one place, in the order of the comparison.                *)
LEMMA RankedRightHolds == TypeOK => RankedRight
<1> SUFFICES ASSUME TypeOK
             PROVE  RankedRight
  OBVIOUS
<1> DEFINE n == Len(Catalog)
           S == {i \in 1 .. n : ExcludedBy(Ranked[i], req) = {}}
<1>0. n \in Nat /\ Catalog \in Seq(ModelEntry)
  BY CatalogAssumption
<1>1. PICK o : /\ Ranked = [i \in 1 .. n |-> Catalog[o[i]]]
               /\ o \in [1 .. n -> 1 .. n]
               /\ \A k, l \in 1 .. n : k < l => Listed(o[k], o[l]) /\ o[k] # o[l]
               /\ \A x \in 1 .. n : \E k \in 1 .. n : o[k] = x
  BY RankAllOrders
<1>2. Len(Ranked) = n /\ Included = AtPositions(Ranked, S) /\ S \in SUBSET (1 .. n)
  <2>1. Len(Ranked) = n
    BY <1>0, <1>1
  <2> QED
    BY <2>1 DEF Included, Shown
<1>3. S \subseteq Nat /\ IsFiniteSet(S)
  <2> HIDE DEF S, n
  <2> QED
    BY <1>0, <1>2, FinitePositions
<1> DEFINE m == Cardinality(S)
           q == Places(S)
<1>4. m \in Nat /\ Keeps(q, m, S) /\ Included = [k \in 1 .. m |-> Ranked[q[k]]]
  <2> HIDE DEF S
  <2>1. m \in Nat /\ Keeps(q, m, S)
    BY <1>3, PlacesKeep
  <2>2. Included = [k \in 1 .. m |-> Ranked[q[k]]]
    BY <1>2 DEF AtPositions, Places
  <2> QED
    BY <2>1, <2>2
<1> HIDE DEF m, q
<1> DEFINE rows == Included
           row(k) == o[q[k]]
<1>5. \A k \in 1 .. m : /\ q[k] \in S /\ q[k] \in 1 .. n /\ row(k) \in 1 .. n
                        /\ rows[k] = Catalog[row(k)] /\ ExcludedBy(Catalog[row(k)], req) = {}
  BY <1>1, <1>4 DEF Keeps
<1>6. DOMAIN rows = 1 .. m /\ DOMAIN Catalog = 1 .. n
  BY <1>0, <1>4
<1>7. \A x \in 1 .. n : ExcludedBy(Catalog[x], req) = {} => \E k \in 1 .. m : row(k) = x
  <2> SUFFICES ASSUME NEW x \in 1 .. n, ExcludedBy(Catalog[x], req) = {}
               PROVE  \E k \in 1 .. m : row(k) = x
    OBVIOUS
  <2>1. PICK i \in 1 .. n : o[i] = x
    BY <1>1
  <2>2. i \in S
    BY <1>1, <2>1
  <2>3. PICK k \in 1 .. m : q[k] = i
    BY <1>4, <2>2 DEF Keeps
  <2> QED
    BY <2>1, <2>3
<1>8. \A k, l \in 1 .. m : k < l => Listed(row(k), row(l)) /\ row(k) # row(l)
  <2> SUFFICES ASSUME NEW k \in 1 .. m, NEW l \in 1 .. m, k < l
               PROVE  Listed(row(k), row(l)) /\ row(k) # row(l)
    OBVIOUS
  <2>1. q[k] < q[l] /\ q[k] \in 1 .. n /\ q[l] \in 1 .. n
    BY <1>4, <1>5 DEF Keeps
  <2> QED
    BY <1>1, <2>1
<1> HIDE DEF row, rows, S, n
<1>9. {rows[i] : i \in DOMAIN rows}
      = {c \in {Catalog[i] : i \in DOMAIN Catalog} : ExcludedBy(c, req) = {}}
  BY <1>5, <1>6, <1>7
<1>10. ASSUME NEW k \in 1 .. m, NEW l \in 1 .. m, k < l
       PROVE  /\ rows[k] # rows[l] /\ Score(rows[k], req) >= Score(rows[l], req)
              /\ Score(rows[k], req) = Score(rows[l], req) =>
                 Popularity(rows[k]) <= Popularity(rows[l])
  <2> DEFINE a == row(k) b == row(l)
  <2>1. /\ a \in 1 .. n /\ b \in 1 .. n /\ a # b /\ Listed(a, b)
        /\ rows[k] = Catalog[a] /\ rows[l] = Catalog[b]
        /\ ExcludedBy(Catalog[a], req) = {} /\ ExcludedBy(Catalog[b], req) = {}
    BY <1>5, <1>8, <1>10
  <2> HIDE DEF a, b
  <2>2. /\ Rank[a] = [ok |-> TRUE, score |-> Score(Catalog[a], req),
           popularity |-> Popularity(Catalog[a])]
        /\ Rank[b] = [ok |-> TRUE, score |-> Score(Catalog[b], req),
           popularity |-> Popularity(Catalog[b])]
    BY <2>1 DEF Rank, Verdict, n
  <2>3. /\ Score(Catalog[a], req) \in Int /\ Popularity(Catalog[a]) \in Int
        /\ Score(Catalog[b], req) \in Int /\ Popularity(Catalog[b]) \in Int
    BY <2>1, ScoreIsInt DEF n
  <2>4. Catalog[a] # Catalog[b]
    BY <2>1, CatalogAssumption DEF n
  <2>5. /\ Score(Catalog[a], req) >= Score(Catalog[b], req)
        /\ Score(Catalog[a], req) = Score(Catalog[b], req) =>
           Popularity(Catalog[a]) <= Popularity(Catalog[b])
    BY <2>1, <2>2, <2>3 DEF Listed, RanksBefore
  <2> QED
    BY <2>1, <2>4, <2>5
<1> QED
  BY <1>6, <1>9, <1>10 DEF RankedRight, ListedRight, rows
-----------------------------------------------------------------------------
(* The machine's cards. *)

(* The snapshot keeps the cards that have memory. *)
Kept(cards) == {i \in 1 .. Len(cards) : cards[i].vram > 0}

(* A member of a list of cards is a card.                                    *)
LEMMA CardTypes ==
    ASSUME NEW s \in Seq(Card)
    PROVE  Len(s) \in Nat /\ \A i \in 1 .. Len(s) : s[i] \in Card
  OBVIOUS

(* What the assumption on the machines says of one.                          *)
LEMMA MachineTypes ==
    ASSUME NEW m \in Machines
    PROVE  m.gpus \in Seq(Card) /\ m.ram \in Nat
<1>1. m \in [gpus : Seq(Card), ram : Nat]
  BY MachinesAssumption
<1> QED
  BY <1>1

(* They are cards, at the places they were taken from.                       *)
LEMMA KeptCards ==
    ASSUME NEW a, a \in Seq(Card)
    PROVE  LET b == AtPositions(a, Kept(a))
           IN  /\ b \in Seq(Card)
               /\ \E q : /\ Keeps(q, Len(b), Kept(a))
                         /\ \A k \in 1 .. Len(b) : b[k] = a[q[k]]
<1> SUFFICES ASSUME NEW b, NEW S, S = Kept(a), b = AtPositions(a, S)
             PROVE  /\ b \in Seq(Card)
                    /\ \E q : Keeps(q, Len(b), S) /\ \A k \in 1 .. Len(b) : b[k] = a[q[k]]
  OBVIOUS
<1>1. Len(a) \in Nat /\ S \subseteq 1 .. Len(a) /\ \A i \in 1 .. Len(a) : a[i] \in Card
  BY DEF Kept
<1>2. S \subseteq Nat /\ IsFiniteSet(S)
  BY <1>1, FinitePositions
<1> DEFINE n == Cardinality(S)
           q == Places(S)
<1>5. b = [k \in 1 .. n |-> a[q[k]]]
  BY DEF AtPositions, Places
<1>8. n \in Nat /\ Keeps(q, n, S)
  BY <1>2, PlacesKeep
<1> HIDE DEF n, q
<1>6. \A k \in 1 .. n : a[q[k]] \in Card
  BY <1>1, <1>8 DEF Keeps
<1>7. b \in Seq(Card) /\ Len(b) = n /\ \A k \in 1 .. n : b[k] = a[q[k]]
  BY <1>5, <1>6, <1>8
<1> QED
  BY <1>7, <1>8

(* Cards of its own for each card, with no less memory. *)
HasFor(b, a) ==
    \E h \in [1 .. Len(a) -> 1 .. Len(b)] :
        /\ \A k, l \in 1 .. Len(a) : h[k] = h[l] => k = l
        /\ \A k \in 1 .. Len(a) : a[k].vram <= b[h[k]].vram

(* If each card has one of its own with no less memory, that one is kept     *)
(* whenever the card is, and so each card that is kept has one, too.         *)
LEMMA KeptCovers ==
    ASSUME NEW as \in Seq(Card), NEW bs \in Seq(Card), HasFor(bs, as)
    PROVE  HasFor(AtPositions(bs, Kept(bs)), AtPositions(as, Kept(as)))
<1> DEFINE a == AtPositions(as, Kept(as))
           b == AtPositions(bs, Kept(bs))
           A == Kept(as)
           B == Kept(bs)
<1>1. PICK f \in [1 .. Len(as) -> 1 .. Len(bs)] :
         /\ \A i, j \in 1 .. Len(as) : f[i] = f[j] => i = j
         /\ \A i \in 1 .. Len(as) : as[i].vram <= bs[f[i]].vram
  BY DEF HasFor
<1>2. a \in Seq(Card) /\ \E p : Keeps(p, Len(a), A) /\ \A k \in 1 .. Len(a) : a[k] = as[p[k]]
  BY KeptCards
<1>3. b \in Seq(Card) /\ \E q : Keeps(q, Len(b), B) /\ \A k \in 1 .. Len(b) : b[k] = bs[q[k]]
  BY KeptCards
<1> HIDE DEF a, b
<1>4. PICK p : Keeps(p, Len(a), A) /\ \A k \in 1 .. Len(a) : a[k] = as[p[k]]
  BY <1>2
<1>5. PICK q : Keeps(q, Len(b), B) /\ \A k \in 1 .. Len(b) : b[k] = bs[q[k]]
  BY <1>3
<1>6. /\ Len(as) \in Nat /\ Len(bs) \in Nat /\ Len(a) \in Nat /\ Len(b) \in Nat
      /\ \A i \in 1 .. Len(as) : as[i] \in Card
      /\ \A i \in 1 .. Len(bs) : bs[i] \in Card
  BY <1>2, <1>3, CardTypes
<1>7. \A i \in 1 .. Len(as) : as[i].vram \in Nat
  BY <1>6 DEF Card
<1>8. \A i \in 1 .. Len(bs) : bs[i].vram \in Nat
  BY <1>6 DEF Card
<1>9. A \subseteq 1 .. Len(as) /\ B \subseteq 1 .. Len(bs)
  BY DEF Kept
<1>10. \A i \in A : f[i] \in B
  <2> SUFFICES ASSUME NEW i \in A
               PROVE  f[i] \in B
    OBVIOUS
  <2>1. i \in 1 .. Len(as) /\ as[i].vram > 0
    BY DEF Kept
  <2>2. f[i] \in 1 .. Len(bs) /\ as[i].vram <= bs[f[i]].vram
    BY <1>1, <2>1
  <2>4. as[i].vram \in Nat /\ bs[f[i]].vram \in Nat
    BY <1>7, <1>8, <2>1, <2>2
  <2>3. bs[f[i]].vram > 0
    <3> DEFINE u == as[i].vram
               v == bs[f[i]].vram
    <3>1. u > 0 /\ u <= v /\ u \in Nat /\ v \in Nat
      BY <2>1, <2>2, <2>4
    <3> HIDE DEF u, v
    <3>2. v > 0
      BY <3>1
    <3> QED
      BY <3>2 DEF v
  <2> QED
    BY <2>2, <2>3 DEF Kept
<1> HIDE DEF A, B
<1> DEFINE Goes(k, l) == q[l] = f[p[k]]
           h == [k \in 1 .. Len(a) |-> CHOOSE l \in 1 .. Len(b) : Goes(k, l)]
<1>11. \A k \in 1 .. Len(a) : p[k] \in A /\ \E l \in 1 .. Len(b) : Goes(k, l)
  BY <1>4, <1>5, <1>10 DEF Keeps
<1>12. h \in [1 .. Len(a) -> 1 .. Len(b)] /\ \A k \in 1 .. Len(a) : Goes(k, h[k])
  <2> HIDE DEF Goes
  <2> QED
    BY <1>11
<1> HIDE DEF h
<1>13. A \subseteq Nat
  BY <1>6, <1>9, FinitePositions
<1>14. \A k, l \in 1 .. Len(a) : p[k] = p[l] => k = l
  <2>1. Len(a) \in Nat /\ Keeps(p, Len(a), A)
    BY <1>4, <1>6
  <2> QED
    BY ONLY <1>13, <2>1, KeepsApart, Zenon
<1>15. \A k, l \in 1 .. Len(a) : h[k] = h[l] => k = l
  <2> SUFFICES ASSUME NEW k \in 1 .. Len(a), NEW l \in 1 .. Len(a), h[k] = h[l]
               PROVE  k = l
    OBVIOUS
  <2>1. f[p[k]] = f[p[l]] /\ p[k] \in 1 .. Len(as) /\ p[l] \in 1 .. Len(as)
    BY <1>9, <1>11, <1>12
  <2>2. p[k] = p[l]
    BY <1>1, <2>1
  <2> QED
    BY <1>14, <2>2
<1>16. \A k \in 1 .. Len(a) : a[k].vram <= b[h[k]].vram
  <2> SUFFICES ASSUME NEW k \in 1 .. Len(a)
               PROVE  a[k].vram <= b[h[k]].vram
    OBVIOUS
  <2>1. h[k] \in 1 .. Len(b) /\ q[h[k]] = f[p[k]] /\ p[k] \in 1 .. Len(as)
    BY <1>9, <1>11, <1>12
  <2>2. a[k] = as[p[k]] /\ b[h[k]] = bs[f[p[k]]]
    BY <1>4, <1>5, <2>1
  <2>3. as[p[k]].vram <= bs[f[p[k]]].vram
    BY <1>1, <2>1
  <2> QED
    BY <2>2, <2>3
<1> QED
  BY <1>12, <1>15, <1>16 DEF HasFor, a, b

(* What the planner makes of a machine: its cards with memory, and its memory. *)
Hardware == [gpus : Seq(Card), ram : Nat]

(* The snapshot of a machine is hardware for the planner.                    *)
LEMMA SnapshotType ==
    ASSUME NEW m \in Machines
    PROVE  HardwareFromSnapshot(m) \in Hardware
<1>1. m.gpus \in Seq(Card) /\ m.ram \in Nat
  BY MachineTypes
<1>2. AtPositions(m.gpus, Kept(m.gpus)) \in Seq(Card)
  BY <1>1, KeptCards
<1> QED
  BY <1>1, <1>2 DEF HardwareFromSnapshot, Kept, Hardware

(* A machine that has all that another has covers its snapshot.              *)
LEMMA CoversSnapshot ==
    ASSUME NEW small \in Machines, NEW large \in Machines, Covers(large, small)
    PROVE  /\ HasFor(HardwareFromSnapshot(large).gpus, HardwareFromSnapshot(small).gpus)
           /\ HardwareFromSnapshot(large).ram >= HardwareFromSnapshot(small).ram
<1>1. small.gpus \in Seq(Card) /\ large.gpus \in Seq(Card) /\ small.ram \in Nat /\ large.ram \in Nat
  BY MachineTypes
<1>2. HasFor(large.gpus, small.gpus)
  <2>1. PICK f \in [1 .. Len(small.gpus) -> 1 .. Len(large.gpus)] :
          /\ \A i, j \in 1 .. Len(small.gpus) : f[i] = f[j] => i = j
          /\ \A i \in 1 .. Len(small.gpus) : large.gpus[f[i]].vram >= small.gpus[i].vram
    BY DEF Covers
  <2>2. \A i \in 1 .. Len(small.gpus) : small.gpus[i].vram \in Nat /\ large.gpus[f[i]].vram \in Nat
    <3>1. \A i \in 1 .. Len(small.gpus) : small.gpus[i] \in Card /\ large.gpus[f[i]] \in Card
      BY <1>1, <2>1
    <3> QED
      BY <3>1 DEF Card
  <2>3. \A i \in 1 .. Len(small.gpus) : small.gpus[i].vram <= large.gpus[f[i]].vram
    BY <2>1, <2>2
  <2> QED
    BY <2>1, <2>3 DEF HasFor
<1>3. HasFor(AtPositions(large.gpus, Kept(large.gpus)), AtPositions(small.gpus, Kept(small.gpus)))
  BY <1>1, <1>2, KeptCovers
<1> QED
  BY <1>1, <1>3 DEF HardwareFromSnapshot, Kept, Covers
-----------------------------------------------------------------------------
(* The memory of hardware, card by card, of the largest card, of all cards, and *)
(* the machine's.                                                            *)
LEMMA HardwareTypes ==
    ASSUME NEW a, a \in Hardware
    PROVE  LET n == Len(a.gpus)
           IN  /\ n \in Nat /\ a.gpus \in Seq(Card) /\ a.ram \in Nat /\ (a.gpus # <<>> <=> n > 0)
               /\ Caps(a) \in [1 .. n -> Nat] /\ Len(Caps(a)) = n
               /\ \A i \in 1 .. n : Caps(a)[i] = a.gpus[i].vram
               /\ Usable(a) \in [1 .. n -> Nat] /\ Len(Usable(a)) = n
               /\ \A i \in 1 .. n : Usable(a)[i] = Larger(0, Caps(a)[i] - PER_GPU_OVERHEAD)
<1> DEFINE n == Len(a.gpus)
<1>1. n \in Nat /\ a.gpus \in Seq(Card) /\ a.ram \in Nat /\ (a.gpus # <<>> <=> n > 0)
  BY DEF Hardware
<1>2. \A i \in 1 .. n : a.gpus[i] \in Card
  BY <1>1, CardTypes
<1>3. \A i \in 1 .. n : a.gpus[i].vram \in Nat
  BY <1>2 DEF Card
<1>4. Caps(a) \in [1 .. n -> Nat] /\ Len(Caps(a)) = n
      /\ \A i \in 1 .. n : Caps(a)[i] = a.gpus[i].vram
  BY <1>1, <1>3 DEF Caps
<1>5. \A i \in 1 .. n : Larger(0, a.gpus[i].vram - PER_GPU_OVERHEAD) \in Nat
  BY <1>3 DEF Larger, PER_GPU_OVERHEAD
<1>6. Usable(a) \in [1 .. n -> Nat] /\ Len(Usable(a)) = n
      /\ \A i \in 1 .. n : Usable(a)[i] = Larger(0, a.gpus[i].vram - PER_GPU_OVERHEAD)
  BY <1>1, <1>5 DEF Usable
<1> QED
  BY <1>1, <1>4, <1>6

(* The largest card is the largest.                                          *)
LEMMA BestCapIsLargest ==
    ASSUME NEW a, a \in Hardware
    PROVE  /\ BestCap(a) \in Nat
           /\ a.gpus # <<>> => /\ \E i \in 1 .. Len(a.gpus) : Caps(a)[i] = BestCap(a)
                               /\ \A i \in 1 .. Len(a.gpus) : Caps(a)[i] <= BestCap(a)
<1> DEFINE n == Len(a.gpus)
           s == Caps(a)
<1>1. n \in Nat /\ s \in [1 .. n -> Nat] /\ Len(s) = n /\ (a.gpus # <<>> <=> n > 0)
  BY HardwareTypes
<1>2. CASE a.gpus = <<>>
  BY <1>2 DEF BestCap
<1>3. CASE a.gpus # <<>>
  <2>1. BestCap(a) = s[ArgMax(s)]
    BY <1>3 DEF BestCap
  <2>2. n > 0 /\ s \in [1 .. n -> Int]
    BY <1>1, <1>3
  <2> HIDE DEF n, s
  <2>3. ArgMax(s) \in 1 .. n /\ \A i \in 1 .. n : s[ArgMax(s)] >= s[i]
    BY <1>1, <2>2, ArgMaxIsLargest
  <2>4. \A i \in 1 .. n : s[i] \in Nat
    BY <1>1
  <2>5. \A i \in 1 .. n : s[i] <= BestCap(a)
    BY <2>1, <2>3, <2>4
  <2> QED
    BY <2>1, <2>3, <2>4, <2>5 DEF n, s
<1> QED
  BY <1>2, <1>3

(* No card has more room than all cards together.                            *)
LEMMA AggregateIsTotal ==
    ASSUME NEW a, a \in Hardware
    PROVE  /\ Aggregate(a) \in Nat
           /\ Len(a.gpus) > 1 => \A i \in 1 .. Len(a.gpus) : Usable(a)[i] <= Aggregate(a)
<1>1. Len(a.gpus) \in Nat /\ Usable(a) \in [1 .. Len(a.gpus) -> Nat] /\ Len(Usable(a)) = Len(a.gpus)
  BY HardwareTypes
<1>2. Total(Usable(a)) \in Nat /\ \A i \in 1 .. Len(a.gpus) : Usable(a)[i] <= Total(Usable(a))
  BY <1>1, PartOfTotal
<1> QED
  BY <1>2 DEF Aggregate

(* With more of everything no amount is less. *)
LEMMA MoreIsMore ==
    ASSUME NEW a, a \in Hardware, NEW b, b \in Hardware, HasFor(b.gpus, a.gpus), b.ram >= a.ram
    PROVE  /\ a.gpus # <<>> => b.gpus # <<>>
           /\ Len(a.gpus) > 1 => Len(b.gpus) > 1
           /\ BestCap(a) <= BestCap(b) /\ Aggregate(a) <= Aggregate(b)
              /\ UsableRam(a) <= UsableRam(b)
<1> DEFINE m == Len(a.gpus)
           n == Len(b.gpus)
<1>1. /\ m \in Nat /\ (a.gpus # <<>> <=> m > 0) /\ a.ram \in Nat
      /\ Caps(a) \in [1 .. m -> Nat] /\ Usable(a) \in [1 .. m -> Nat] /\ Len(Usable(a)) = m
      /\ \A i \in 1 .. m : Caps(a)[i] = a.gpus[i].vram
      /\ \A i \in 1 .. m : Usable(a)[i] = Larger(0, Caps(a)[i] - PER_GPU_OVERHEAD)
  BY HardwareTypes
<1>2. /\ n \in Nat /\ (b.gpus # <<>> <=> n > 0) /\ b.ram \in Nat
      /\ Caps(b) \in [1 .. n -> Nat] /\ Usable(b) \in [1 .. n -> Nat] /\ Len(Usable(b)) = n
      /\ \A i \in 1 .. n : Caps(b)[i] = b.gpus[i].vram
      /\ \A i \in 1 .. n : Usable(b)[i] = Larger(0, Caps(b)[i] - PER_GPU_OVERHEAD)
  BY HardwareTypes
<1>3. PICK h \in [1 .. m -> 1 .. n] :
         /\ \A i, j \in 1 .. m : h[i] = h[j] => i = j
         /\ \A i \in 1 .. m : a.gpus[i].vram <= b.gpus[h[i]].vram
  BY DEF HasFor
<1>4. BestCap(a) \in Nat /\ BestCap(b) \in Nat /\ Aggregate(a) \in Nat /\ Aggregate(b) \in Nat
  BY BestCapIsLargest, AggregateIsTotal
<1> HIDE DEF m, n
<1>5. \A i \in 1 .. m : Caps(a)[i] <= Caps(b)[h[i]]
  BY <1>1, <1>2, <1>3
<1>6. \A i \in 1 .. m : Usable(a)[i] <= Usable(b)[h[i]]
  <2> SUFFICES ASSUME NEW i \in 1 .. m
               PROVE  Usable(a)[i] <= Usable(b)[h[i]]
    OBVIOUS
  <2> DEFINE x == Caps(a)[i]
             y == Caps(b)[h[i]]
  <2>1. x \in Nat /\ y \in Nat /\ x <= y
    BY <1>1, <1>2, <1>3, <1>5
  <2>2. Usable(a)[i] = Larger(0, x - PER_GPU_OVERHEAD)
        /\ Usable(b)[h[i]] = Larger(0, y - PER_GPU_OVERHEAD)
    BY <1>1, <1>2, <1>3
  <2> HIDE DEF x, y
  <2> QED
    BY <2>1, <2>2 DEF Larger, PER_GPU_OVERHEAD
<1>7. m > 0 => n > 0
  BY <1>1, <1>2, <1>3
<1>8. m > 1 => n > 1
  <2> SUFFICES ASSUME m > 1
               PROVE  n > 1
    OBVIOUS
  <2>1. 1 \in 1 .. m /\ 2 \in 1 .. m
    BY <1>1
  <2>2. h[1] \in 1 .. n /\ h[2] \in 1 .. n /\ h[1] # h[2]
    BY <1>3, <2>1
  <2> QED
    BY <1>2, <2>2
<1>9. BestCap(a) <= BestCap(b)
  <2>1. CASE a.gpus = <<>>
    BY <1>4, <2>1 DEF BestCap
  <2>2. CASE a.gpus # <<>>
    <3>1. PICK i \in 1 .. m : Caps(a)[i] = BestCap(a)
      BY <2>2, BestCapIsLargest DEF m
    <3>2. \A j \in 1 .. n : Caps(b)[j] <= BestCap(b)
      BY <1>1, <1>2, <1>7, <2>2, BestCapIsLargest DEF n
    <3>3. h[i] \in 1 .. n /\ Caps(b)[h[i]] \in Nat
      BY <1>2, <1>3
    <3> QED
      BY <1>4, <1>5, <3>1, <3>2, <3>3
  <2> QED
    BY <2>1, <2>2
<1>10. Aggregate(a) <= Aggregate(b)
  <2>1. CASE m > 1
    <3>1. Total(Usable(a)) <= Total(Usable(b))
      BY <1>1, <1>2, <1>3, <1>6, TotalCovers
    <3> QED
      BY <1>8, <2>1, <3>1 DEF Aggregate, m, n
  <2>2. CASE ~(m > 1)
    BY <1>4, <2>2 DEF Aggregate, m
  <2> QED
    BY <2>1, <2>2
<1>11. UsableRam(a) <= UsableRam(b)
  BY <1>1, <1>2 DEF UsableRam, Larger, RAM_OS_RESERVE
<1> QED
  BY <1>1, <1>2, <1>7, <1>8, <1>9, <1>10, <1>11 DEF m, n
-----------------------------------------------------------------------------
(* The severity ladder: how planPlacement decides on the mode. *)
OnCard(v, a) == a.gpus # <<>> /\ v.weights <= BestCap(a)
OnCards(v, a) == v.weights > BestCap(a) /\ Len(a.gpus) > 1 /\ v.weights <= Aggregate(a)

(* The mode in the five cases.                                               *)
LEMMA ModeIs ==
    ASSUME NEW v, v.weights \in Nat, v.total \in Nat, NEW a, a \in Hardware
    PROVE  LET mode == PlanPlacement(v, a).mode
           IN  /\ OnCard(v, a) /\ v.total <= BestCap(a) => mode = "single-gpu"
               /\ OnCard(v, a) /\ ~(v.total <= BestCap(a)) => mode = "partial-offload"
               /\ OnCards(v, a) => mode = "multi-gpu"
               /\ ~OnCard(v, a) /\ ~OnCards(v, a) /\ v.weights <= UsableRam(a) => mode = "cpu-only"
               /\ ~OnCard(v, a) /\ ~OnCards(v, a) /\ ~(v.weights <= UsableRam(a)) => mode = "no-fit"
<1>1. BestCap(a) \in Nat
  BY BestCapIsLargest
<1>2. \A w \in Nat : ~(w <= BestCap(a)) <=> w > BestCap(a)
  BY <1>1
<1> DEFINE one == <<[i \in 1 .. Len(a.gpus) |-> a.gpus[i].index][ArgMax(Caps(a))]>>
           all == [i \in 1 .. Len(a.gpus) |-> a.gpus[i].index]
           C1 == a.gpus # <<>> /\ v.weights <= BestCap(a) /\ v.total <= BestCap(a)
           C2 == a.gpus # <<>> /\ v.weights <= BestCap(a) /\ v.total > BestCap(a)
           C3 == v.weights > BestCap(a) /\ Len(a.gpus) > 1 /\ v.weights <= Aggregate(a)
           rest == IF v.weights <= UsableRam(a) THEN "cpu-only" ELSE "no-fit"
<1>3. PlanPlacement(v, a) =
        CASE C1 -> Plan("single-gpu", one, <<>>, v.total)
          [] C2 -> Plan("partial-offload", one, <<>>, v.total)
          [] C3 -> Plan("multi-gpu", all, Split(a), v.total)
          [] OTHER -> Plan(rest, <<>>, <<>>, v.total)
  BY DEF PlanPlacement
<1>4. /\ C1 => ~C2 /\ ~C3
      /\ C2 => ~C3
      /\ C1 <=> OnCard(v, a) /\ v.total <= BestCap(a)
      /\ C2 <=> OnCard(v, a) /\ ~(v.total <= BestCap(a))
      /\ C3 <=> OnCards(v, a)
  BY <1>1, <1>2 DEF OnCard, OnCards
<1>5. \A mode, gpus, split, used : Plan(mode, gpus, split, used).mode = mode
  BY DEF Plan
<1> HIDE DEF C1, C2, C3, one, all, rest
<1>6. /\ C1 => PlanPlacement(v, a) = Plan("single-gpu", one, <<>>, v.total)
      /\ C2 => PlanPlacement(v, a) = Plan("partial-offload", one, <<>>, v.total)
      /\ C3 => PlanPlacement(v, a) = Plan("multi-gpu", all, Split(a), v.total)
      /\ ~C1 /\ ~C2 /\ ~C3 => PlanPlacement(v, a) = Plan(rest, <<>>, <<>>, v.total)
  BY <1>3, <1>4
<1>7. /\ v.weights <= UsableRam(a) => rest = "cpu-only"
      /\ ~(v.weights <= UsableRam(a)) => rest = "no-fit"
  BY DEF rest
<1> QED
  BY <1>4, <1>5, <1>6, <1>7
(* The rungs of the ladder. *)
LEMMA RungIs ==
    ASSUME NEW v, v.weights \in Nat, v.total \in Nat, NEW a, a \in Hardware,
           NEW model, v = ComputeVram(model, SmallestQuant(model), req.kvElement, req.context,
                                      req.concurrency)
    PROVE  LET r == Rung(FitBadge(model, a))
           IN  /\ OnCard(v, a) /\ v.total <= BestCap(a) => r = 1
               /\ OnCard(v, a) /\ ~(v.total <= BestCap(a)) => r = 2
               /\ OnCards(v, a) => r = 2
               /\ ~OnCard(v, a) /\ ~OnCards(v, a) /\ v.weights <= UsableRam(a) => r = 3
               /\ ~OnCard(v, a) /\ ~OnCards(v, a) /\ ~(v.weights <= UsableRam(a)) => r = 4
<1> DEFINE mode == PlanPlacement(v, a).mode
           tight == 10 * v.total > 7 * BestCap(a)
<1>1. FitBadge(model, a) =
        CASE mode = "single-gpu" -> IF tight THEN "tight fit" ELSE "runs"
          [] mode = "multi-gpu" -> "runs across"
          [] mode = "partial-offload" -> "trim context"
          [] mode = "cpu-only" -> "mostly CPU"
          [] mode = "no-fit" -> "needs more VRAM"
  BY DEF FitBadge
<1> HIDE DEF mode, tight
<1>2. /\ mode = "single-gpu" => FitBadge(model, a) \in {"runs", "tight fit"}
      /\ mode = "multi-gpu" => FitBadge(model, a) = "runs across"
      /\ mode = "partial-offload" => FitBadge(model, a) = "trim context"
      /\ mode = "cpu-only" => FitBadge(model, a) = "mostly CPU"
      /\ mode = "no-fit" => FitBadge(model, a) = "needs more VRAM"
  BY <1>1
<1>3. /\ \A badge \in {"runs", "tight fit"} : Rung(badge) = 1
      /\ Rung("runs across") = 2 /\ Rung("trim context") = 2
      /\ Rung("mostly CPU") = 3 /\ Rung("needs more VRAM") = 4
  BY DEF Rung
<1>4. /\ OnCard(v, a) /\ v.total <= BestCap(a) => mode = "single-gpu"
      /\ OnCard(v, a) /\ ~(v.total <= BestCap(a)) => mode = "partial-offload"
      /\ OnCards(v, a) => mode = "multi-gpu"
      /\ ~OnCard(v, a) /\ ~OnCards(v, a) /\ v.weights <= UsableRam(a) => mode = "cpu-only"
      /\ ~OnCard(v, a) /\ ~OnCards(v, a) /\ ~(v.weights <= UsableRam(a)) => mode = "no-fit"
  BY ModeIs DEF mode
<1> HIDE DEF FitBadge, Rung
<1> QED
  BY <1>2, <1>3, <1>4

(* On hardware that has more of everything the rung is no worse. *)
LEMMA RungsGoDown ==
    ASSUME NEW i \in 1 .. Len(Catalog), TypeOK, NEW a, a \in Hardware, NEW b, b \in Hardware,
           HasFor(b.gpus, a.gpus), b.ram >= a.ram
    PROVE  Rung(FitBadge(Catalog[i], b)) <= Rung(FitBadge(Catalog[i], a))
<1> DEFINE model == Catalog[i]
           v == ComputeVram(model, SmallestQuant(model), req.kvElement, req.context,
                            req.concurrency)
           ra == Rung(FitBadge(model, a))
           rb == Rung(FitBadge(model, b))
           s == v.weights
           t == v.total
<1>1. s \in Nat /\ t \in Nat
  <2>1. req.context \in Nat /\ req.concurrency \in Nat
    BY DEF TypeOK, Requirements
  <2>2. SmallestQuant(model) \in Quants
    BY ModelTypes, SmallestIsOwn
  <2> QED
    BY <2>1, <2>2, VramTypes
<1> HIDE DEF v
<1>2. /\ a.gpus # <<>> => b.gpus # <<>>
      /\ Len(a.gpus) > 1 => Len(b.gpus) > 1
      /\ BestCap(a) <= BestCap(b) /\ Aggregate(a) <= Aggregate(b) /\ UsableRam(a) <= UsableRam(b)
      /\ Len(a.gpus) > 1 => a.gpus # <<>>
  <2>1. Len(a.gpus) > 1 => a.gpus # <<>>
    BY HardwareTypes
  <2> QED
    BY <2>1, MoreIsMore
<1>3. /\ BestCap(a) \in Nat /\ BestCap(b) \in Nat /\ Aggregate(a) \in Nat /\ Aggregate(b) \in Nat
      /\ UsableRam(a) \in Nat /\ UsableRam(b) \in Nat
  <2>1. a.ram \in Nat /\ b.ram \in Nat
    BY HardwareTypes
  <2> QED
    BY <2>1, BestCapIsLargest, AggregateIsTotal DEF UsableRam, Larger, RAM_OS_RESERVE
<1>4. /\ OnCard(v, a) /\ t <= BestCap(a) => ra = 1
      /\ OnCard(v, a) /\ ~(t <= BestCap(a)) => ra = 2
      /\ OnCards(v, a) => ra = 2
      /\ ~OnCard(v, a) /\ ~OnCards(v, a) /\ s <= UsableRam(a) => ra = 3
      /\ ~OnCard(v, a) /\ ~OnCards(v, a) /\ ~(s <= UsableRam(a)) => ra = 4
  BY <1>1, RungIs DEF v
<1>5. /\ OnCard(v, b) /\ t <= BestCap(b) => rb = 1
      /\ OnCard(v, b) /\ ~(t <= BestCap(b)) => rb = 2
      /\ OnCards(v, b) => rb = 2
      /\ ~OnCard(v, b) /\ ~OnCards(v, b) /\ s <= UsableRam(b) => rb = 3
      /\ ~OnCard(v, b) /\ ~OnCards(v, b) /\ ~(s <= UsableRam(b)) => rb = 4
  BY <1>1, RungIs DEF v
<1> HIDE DEF ra, rb
<1>6. OnCard(v, a) => OnCard(v, b)
  BY <1>1, <1>2, <1>3 DEF OnCard
<1>7. OnCards(v, a) => OnCard(v, b) \/ OnCards(v, b)
  BY <1>1, <1>2, <1>3 DEF OnCard, OnCards
<1>8. /\ t <= BestCap(a) => t <= BestCap(b)
      /\ s <= UsableRam(a) => s <= UsableRam(b)
  BY <1>1, <1>2, <1>3
<1>9. rb <= ra
  BY <1>4, <1>5, <1>6, <1>7, <1>8
<1> QED
  BY <1>9 DEF ra, rb

(* UpgradeNeverHurts follows from the types.                                 *)
LEMMA UpgradeOK == TypeOK => UpgradeNeverHurts
<1> SUFFICES ASSUME TypeOK, NEW m \in Machines, Covers(m, machine), NEW i \in 1 .. Len(Catalog)
             PROVE  Rung(FitBadge(Catalog[i], HardwareFromSnapshot(m)))
                    <= Rung(FitBadge(Catalog[i], Snapshot))
  BY DEF UpgradeNeverHurts
<1>1. machine \in Machines
  BY DEF TypeOK
<1>2. HardwareFromSnapshot(m) \in Hardware /\ Snapshot \in Hardware
  BY <1>1, SnapshotType DEF Snapshot
<1>3. HasFor(HardwareFromSnapshot(m).gpus, Snapshot.gpus)
      /\ HardwareFromSnapshot(m).ram >= Snapshot.ram
  BY <1>1, CoversSnapshot DEF Snapshot
<1> QED
  BY <1>2, <1>3, RungsGoDown
-----------------------------------------------------------------------------
(* The split of a server over the cards. *)

(* A share, in per cent and rounded, is of weights that fit on all cards no     *)
(* more than there is room for, but for the rounding.                          *)
LEMMA ShareFits ==
    ASSUME NEW w \in Nat, NEW all \in Nat, NEW room \in Nat, w <= all, all # 0
    PROVE  100 * room >= (Round(100 * room, all) - 1) * w
<1> DEFINE share == Round(100 * room, all)
<1>1. share \in Int /\ share = (200 * room + all) \div (2 * all)
  BY DEF Round
<1> QED
  BY <1>1

(* The shares of the cards, of which none is more than all. *)
LEMMA SharesAre ==
    ASSUME NEW a, a \in Hardware, Len(a.gpus) > 1
    PROVE  /\ Split(a) \in [1 .. Len(a.gpus) -> 0 .. 100] /\ Len(Split(a)) = Len(a.gpus)
           /\ \A w \in Nat : w <= Aggregate(a) =>
                \A i \in 1 .. Len(a.gpus) : 100 * Usable(a)[i] >= (Split(a)[i] - 1) * w
<1> DEFINE n == Len(a.gpus)
           all == Aggregate(a)
<1>1. n \in Nat /\ all \in Nat /\ \A i \in 1 .. n : Usable(a)[i] \in Nat /\ Usable(a)[i] <= all
  BY HardwareTypes, AggregateIsTotal
<1>2. Split(a) = [i \in 1 .. n |-> IF all = 0 THEN 0 ELSE Round(100 * Usable(a)[i], all)]
  BY DEF Split
<1> HIDE DEF n, all
<1>3. ASSUME all = 0
      PROVE  \A i \in 1 .. n : /\ Split(a)[i] \in 0 .. 100
                               /\ \A w \in Nat : w <= all =>
                                  100 * Usable(a)[i] >= (Split(a)[i] - 1) * w
  <2> SUFFICES ASSUME NEW i \in 1 .. n, NEW w \in Nat, w <= all
               PROVE  100 * Usable(a)[i] >= (Split(a)[i] - 1) * w
    BY <1>2, <1>3
  <2>1. w = 0 /\ Split(a)[i] = 0
    BY <1>2, <1>3
  <2> QED
    BY <1>1, <2>1
<1>4. ASSUME all # 0
      PROVE  \A i \in 1 .. n : /\ Split(a)[i] \in 0 .. 100
                               /\ \A w \in Nat : w <= all =>
                                  100 * Usable(a)[i] >= (Split(a)[i] - 1) * w
  <2> SUFFICES ASSUME NEW i \in 1 .. n
               PROVE  /\ Split(a)[i] \in 0 .. 100
                      /\ \A w \in Nat : w <= all => 100 * Usable(a)[i] >= (Split(a)[i] - 1) * w
    OBVIOUS
  <2>1. Split(a)[i] = Round(100 * Usable(a)[i], all)
    BY <1>2, <1>4
  <2>2. Usable(a)[i] \in Nat /\ Usable(a)[i] <= all /\ all \in Nat
    BY <1>1
  <2>3. Round(100 * Usable(a)[i], all) \in 0 .. 100
    <3> DEFINE room == Usable(a)[i]
    <3>1. room \in Nat /\ room <= all /\ all \in Nat /\ all # 0
      BY <1>4, <2>2
    <3> HIDE DEF room
    <3>2. Round(100 * room, all) \in 0 .. 100
      BY <3>1 DEF Round
    <3> QED
      BY <3>2 DEF room
  <2>4. \A w \in Nat : w <= all => 100 * Usable(a)[i] >= (Round(100 * Usable(a)[i], all) - 1) * w
    BY <1>4, <2>2, ShareFits
  <2> QED
    BY <2>1, <2>3, <2>4
<1>5. \A i \in 1 .. n : /\ Split(a)[i] \in 0 .. 100
                        /\ \A w \in Nat : w <= all => 100 * Usable(a)[i] >= (Split(a)[i] - 1) * w
  BY <1>3, <1>4
<1>6. Split(a) \in [1 .. n -> 0 .. 100] /\ Len(Split(a)) = n
  BY <1>1, <1>2, <1>5
<1> QED
  BY <1>5, <1>6 DEF n, all
(* A plan across cards is made only when the weights fit on them all. *)
LEMMA AcrossCards ==
    ASSUME NEW v, v.weights \in Nat, v.total \in Nat, NEW a, a \in Hardware,
           PlanPlacement(v, a).mode = "multi-gpu"
    PROVE  /\ OnCards(v, a)
           /\ PlanPlacement(v, a).tensorSplit = Split(a)
           /\ PlanPlacement(v, a).gpuIndices = [i \in 1 .. Len(a.gpus) |-> a.gpus[i].index]
<1>1. OnCards(v, a)
  <2>1. /\ OnCard(v, a) /\ v.total <= BestCap(a) => PlanPlacement(v, a).mode = "single-gpu"
        /\ OnCard(v, a) /\ ~(v.total <= BestCap(a)) => PlanPlacement(v, a).mode = "partial-offload"
        /\ ~OnCard(v, a) /\ ~OnCards(v, a) /\ v.weights <= UsableRam(a) =>
           PlanPlacement(v, a).mode = "cpu-only"
        /\ ~OnCard(v, a) /\ ~OnCards(v, a) /\ ~(v.weights <= UsableRam(a)) =>
           PlanPlacement(v, a).mode = "no-fit"
    BY ModeIs
  <2> QED
    BY <2>1
<1>2. ~(v.weights <= BestCap(a))
  BY <1>1, BestCapIsLargest DEF OnCards
<1>3. PlanPlacement(v, a) =
        Plan("multi-gpu", [i \in 1 .. Len(a.gpus) |-> a.gpus[i].index], Split(a), v.total)
  BY <1>1, <1>2 DEF PlanPlacement, OnCards
<1> QED
  BY <1>1, <1>3 DEF Plan

(* The memory that one user of the chosen context needs. *)
LEMMA ServedTypes ==
    ASSUME TypeOK, selected # 0
    PROVE  /\ ServedVram.weights \in Nat /\ ServedVram.total \in Nat
           /\ hw # None => hw \in Hardware
<1>1. selected \in 1 .. Len(Catalog) /\ config.quant \in Quants /\ config.ctxSize \in Nat
      /\ 1 \in Nat
  BY DEF TypeOK, ServeConfig
<1>2. ServedVram.weights \in Nat /\ ServedVram.total \in Nat
  BY <1>1, VramTypes DEF ServedVram, Model
<1>3. hw # None => hw \in Hardware
  BY SnapshotType DEF TypeOK, Snapshot
<1> QED
  BY <1>2, <1>3

(* SplitFits: a split is only made when the weights fit on all cards together. *)
LEMMA SplitOK == TypeOK /\ selected # 0 /\ hw # None => SplitFits
<1> SUFFICES ASSUME TypeOK, selected # 0, hw # None, config.split = NoSplit, ServeSplit # NoSplit
             PROVE  /\ Len(ServeSplit.shares) = Len(hw.gpus)
                    /\ \A i \in 1 .. Len(hw.gpus) :
                         100 * Usable(hw)[i] >= (ServeSplit.shares[i] - 1) * ServedVram.weights
  BY DEF SplitFits
<1>1. ServedVram.weights \in Nat /\ ServedVram.total \in Nat /\ hw \in Hardware
  BY ServedTypes
<1>2. ServeSplit = PlacementToServeSplit(AutoPlan)
  BY DEF ServeSplit
<1>3. AutoPlan.mode = "multi-gpu"
  BY <1>2 DEF PlacementToServeSplit
<1>4. ServeSplit.shares = AutoPlan.tensorSplit
  BY <1>2, <1>3 DEF PlacementToServeSplit
<1>5. OnCards(ServedVram, hw) /\ AutoPlan.tensorSplit = Split(hw)
  BY <1>1, <1>3, AcrossCards DEF AutoPlan
<1>6. Len(hw.gpus) > 1 /\ ServedVram.weights <= Aggregate(hw)
  BY <1>5 DEF OnCards
<1> QED
  BY <1>1, <1>4, <1>5, <1>6, SharesAre

(* All three parts of PlannerHolds.                                          *)
LEMMA PlannerOK == TypeOK => PlannerHolds
  BY RankedRightHolds, UpgradeOK, SplitOK DEF PlannerHolds
-----------------------------------------------------------------------------
(* Types. *)

(* An even share is a percentage.                                            *)
LEMMA EvenShare ==
    ASSUME NEW n \in Nat, n > 1
    PROVE  Round(100, n) \in 0 .. 100
<1>1. Round(100, n) = (200 + n) \div (2 * n)
  BY DEF Round
<1>2. 200 + n <= 101 * (2 * n)
  OBVIOUS
<1> QED
  BY <1>1, <1>2

(* The shares in effect are percentages, and of an automatic split there is one *)
(* for each card.                                                              *)
LEMMA SharesInEffect ==
    ASSUME TypeOK, selected # 0, hw # None, Len(hw.gpus) > 1
    PROVE  /\ EffectiveShares \in Seq(0 .. 100)
           /\ config.split = NoSplit => hw.gpus[ArgMax(EffectiveShares)].index \in Nat
<1>1. ServedVram.weights \in Nat /\ ServedVram.total \in Nat /\ hw \in Hardware
  BY ServedTypes
<1> DEFINE n == Len(hw.gpus)
           s == EffectiveShares
<1>2. n \in Nat /\ n > 1 /\ hw.gpus \in Seq(Card)
  BY <1>1, HardwareTypes
<1>3. CASE config.split # NoSplit
  <2>1. EffectiveShares = config.split.shares
    BY <1>3 DEF EffectiveShares
  <2>2. config.split.shares \in Seq(0 .. 100)
    BY DEF TypeOK, ServeConfig, SplitOptions
  <2> QED
    BY <1>3, <2>1, <2>2
<1>4. CASE config.split = NoSplit
  <2>1. s \in [1 .. n -> 0 .. 100] /\ Len(s) = n
    <3>1. CASE AutoPlan.mode = "multi-gpu"
      <4>1. s = AutoPlan.tensorSplit
        BY <1>4, <3>1 DEF EffectiveShares
      <4>2. AutoPlan.tensorSplit = Split(hw)
        BY <1>1, <3>1, AcrossCards DEF AutoPlan
      <4> QED
        BY <1>1, <1>2, <4>1, <4>2, SharesAre
    <3>2. CASE AutoPlan.mode # "multi-gpu"
      <4>1. s = EvenSplit(n)
        BY <1>4, <3>2 DEF EffectiveShares
      <4> HIDE DEF n
      <4>2. Round(100, n) \in 0 .. 100
        BY <1>2, EvenShare
      <4>3. EvenSplit(n) = [i \in 1 .. n |-> Round(100, n)]
        BY DEF EvenSplit
      <4> HIDE DEF s
      <4> QED
        BY <1>2, <4>1, <4>2, <4>3
    <3> QED
      BY <3>1, <3>2
  <2> HIDE DEF s, n
  <2>7. n > 0 /\ n \in Nat
    BY <1>2
  <2>8. 0 .. 100 \subseteq Int
    OBVIOUS
  <2>9. s \in [1 .. n -> Int]
    BY <2>1, <2>8, Zenon
  <2>2. s \in [1 .. n -> Int] /\ n > 0 /\ n \in Nat
    BY <2>7, <2>9
  <2>6. s \in Seq(0 .. 100)
    BY <2>1, <2>2
  <2>3. ArgMax(s) \in 1 .. n
    BY <1>2, <2>1, <2>2, ArgMaxIsLargest
  <2>4. hw.gpus[ArgMax(s)] \in Card
    BY <1>2, <2>3 DEF n
  <2>5. hw.gpus[ArgMax(s)].index \in Nat
    BY <2>4 DEF Card
  <2> QED
    BY <2>5, <2>6 DEF s
<1> QED
  BY <1>3, <1>4

(* The controls of the Plan page change a requirement to one they offer. *)
LEMMA FilterTypes == TypeOK => FilterOffers \subseteq Requirements
<1> SUFFICES ASSUME TypeOK
             PROVE  FilterOffers \subseteq Requirements
  OBVIOUS
<1>0. req \in Requirements
  BY DEF TypeOK
<1>1. \A t \in TypeChoice : [req EXCEPT !.types = Toggle(@, t)] \in Requirements
  BY <1>0 DEF Requirements, Toggle
<1>2. \A s \in SizeChoice : [req EXCEPT !.sizeRanges = Toggle(@, s)] \in Requirements
  BY <1>0 DEF Requirements, Toggle
<1>3. \A c \in ContextChoice : [req EXCEPT !.context = c] \in Requirements
  BY <1>0, ControlsAssumption DEF Requirements
<1>4. \A n \in UserChoice : [req EXCEPT !.concurrency = n] \in Requirements
  BY <1>0, ControlsAssumption DEF Requirements
<1>5. \A t \in TtftChoice : [req EXCEPT !.ttftMs = t] \in Requirements
  BY <1>0, ControlsAssumption DEF Requirements
<1>6. \A f \in FamilyChoice : [req EXCEPT !.preferFamily = f] \in Requirements
  BY <1>0 DEF Requirements
<1>7. \A flag \in FlagChoice : [req EXCEPT ![flag] = ~@] \in Requirements
  <2> SUFFICES ASSUME NEW flag \in FlagChoice
               PROVE  [req EXCEPT ![flag] = ~@] \in Requirements
    OBVIOUS
  <2>1. CASE flag = "commercialOk"
    BY <1>0, <2>1 DEF Requirements
  <2>2. CASE flag = "notGated"
    BY <1>0, <2>2 DEF Requirements
  <2>3. CASE flag = "needStructuredOutput"
    BY <1>0, <2>3 DEF Requirements
  <2>4. CASE flag = "needMultilingual"
    BY <1>0, <2>4 DEF Requirements
  <2> QED
    BY <2>1, <2>2, <2>3, <2>4, ControlsAssumption
<1> QED
  BY <1>1, <1>2, <1>3, <1>4, <1>5, <1>6, <1>7 DEF FilterOffers

(* The answers of the Help dialog make requirements, too.                    *)
LEMMA ApplyTypes == TypeOK => \A a \in HelpChoice : Apply(a) \in Requirements
<1> SUFFICES ASSUME TypeOK, NEW a \in HelpChoice
             PROVE  Apply(a) \in Requirements
  OBVIOUS
<1>1. req \in Requirements
  BY DEF TypeOK
<1>2. a.users \in Nat /\ a.context \in Nat
  BY ControlsAssumption
<1> DEFINE types == CASE a.workload = "reasoning" -> {"reasoning", "text-generation"}
                      [] a.workload = "code" -> {"code"}
                      [] OTHER -> {"text-generation"}
<1>3. types \in SUBSET (TypeChoice \cup {"text-generation", "reasoning", "code"})
  OBVIOUS
<1> HIDE DEF types
<1>4. Apply(a) = [req EXCEPT !.types = types,
                             !.needMultilingual = @ \/ a.workload = "multilingual-docs",
                             !.commercialOk = (a.licensing = "product"),
                             !.notGated = @ \/ a.licensing = "product",
                             !.concurrency = a.users, !.context = a.context]
  BY DEF Apply, types
<1> QED
  BY <1>1, <1>2, <1>3, <1>4 DEF Requirements
-----------------------------------------------------------------------------
(* The invariant. *)
WizardInv == TypeOK /\ QuantOfModel

(* What the effect makes of a quantisation is one the model has. *)
LEMMA QuantForIsOwn ==
    ASSUME NEW i \in 1 .. Len(Catalog), NEW quant
    PROVE  /\ \E k \in 1 .. Len(Catalog[i].quantOptions) :
                 Catalog[i].quantOptions[k] = QuantFor(Catalog[i], quant)
           /\ QuantFor(Catalog[i], quant) \in Quants
<1>1. Catalog[i].quantOptions \in Seq(Quants) \ {<<>>}
  BY ModelTypes
<1>2. \E k \in 1 .. Len(Catalog[i].quantOptions) :
         Catalog[i].quantOptions[k] = SmallestQuant(Catalog[i])
  BY <1>1, SmallestIsOwn
<1>3. \E k \in 1 .. Len(Catalog[i].quantOptions) :
         Catalog[i].quantOptions[k] = QuantFor(Catalog[i], quant)
  BY <1>2 DEF QuantFor
<1> QED
  BY <1>1, <1>3

(* The pages that leave the choice of model and options alone. *)
LEMMA ChoiceKept ==
    ASSUME WizardInv, UNCHANGED <<selected, config, machine>>,
           overlay' \in {"shown", "asked", "gone"}, step' \in Step \cup {None},
           catalog' \in {"loading", "loaded", "failed"}, req' \in Requirements,
           hw' \in {None, Snapshot, hw}
    PROVE  WizardInv'
<1>1. hw' = None \/ hw' = Snapshot'
  BY DEF WizardInv, TypeOK, Snapshot
<1>2. TypeOK'
  BY <1>1 DEF WizardInv, TypeOK
<1>3. QuantOfModel'
  BY DEF WizardInv, QuantOfModel, Model
<1> QED
  BY <1>2, <1>3 DEF WizardInv

(* To change another option leaves the quantisation. *)
LEMMA OtherOption ==
    ASSUME WizardInv, UNCHANGED <<overlay, step, catalog, req, selected, hw, machine>>,
           config' \in ServeConfig, config'.quant = config.quant
    PROVE  WizardInv'
<1>1. TypeOK'
  BY DEF WizardInv, TypeOK, Snapshot
<1>2. QuantOfModel'
  BY DEF WizardInv, QuantOfModel, Model
<1> QED
  BY <1>1, <1>2 DEF WizardInv

(* To select a model, or a quantisation of it, runs the effect. *)
LEMMA Effect ==
    ASSUME WizardInv, UNCHANGED <<overlay, catalog, req, machine>>, step' \in Step \cup {None},
           hw' \in {None, hw}, selected' \in 1 .. Len(Catalog), NEW q,
           config' = [config EXCEPT !.quant = QuantFor(Catalog[selected'], q)]
    PROVE  WizardInv'
<1>1. /\ QuantFor(Catalog[selected'], q) \in Quants
      /\ \E k \in 1 .. Len(Catalog[selected'].quantOptions) :
           Catalog[selected'].quantOptions[k] = QuantFor(Catalog[selected'], q)
  BY QuantForIsOwn
<1>2. config' \in ServeConfig /\ config'.quant = QuantFor(Catalog[selected'], q)
  BY <1>1 DEF WizardInv, TypeOK, ServeConfig
<1>3. TypeOK'
  BY <1>2 DEF WizardInv, TypeOK, Snapshot
<1>4. QuantOfModel'
  BY <1>1, <1>2 DEF QuantOfModel, Model
<1> QED
  BY <1>3, <1>4 DEF WizardInv

(* What the wizard starts with.                                              *)
LEMMA DefaultsTyped == DEFAULT_REQUIREMENTS \in Requirements
  BY DEF DEFAULT_REQUIREMENTS, Requirements

(* No split is a split option.                                               *)
LEMMA NoSplitTyped == NoSplit \in SplitOptions
  BY DEF NoSplit, SplitOptions

(* The invariant holds at the start.                                         *)
LEMMA WizardInit == Init => WizardInv
<1> SUFFICES ASSUME Init
             PROVE  WizardInv
  OBVIOUS
<1>1. config \in ServeConfig
  BY NoSplitTyped DEF Init, ServeConfig, Quants
<1>2. Len(Catalog) \in Nat
  BY CatalogAssumption
<1>3. TypeOK
  BY <1>1, <1>2, DefaultsTyped DEF Init, TypeOK
<1>4. QuantOfModel
  BY DEF Init, QuantOfModel
<1> QED
  BY <1>3, <1>4 DEF WizardInv

(* Every step keeps it.                                                      *)
LEMMA WizardStep == WizardInv /\ [Next]_vars => WizardInv'
<1> SUFFICES ASSUME WizardInv, [Next]_vars
             PROVE  WizardInv'
  OBVIOUS
<1>0. /\ TypeOK /\ req \in Requirements /\ config \in ServeConfig
      /\ overlay \in {"shown", "asked", "gone"} /\ step \in Step \cup {None}
      /\ catalog \in {"loading", "loaded", "failed"} /\ selected \in 0 .. Len(Catalog)
  BY DEF WizardInv, TypeOK
<1>1. CASE LoadCatalog
  BY <1>0, <1>1, ChoiceKept DEF LoadCatalog
<1>2. CASE DismissStart
  BY <1>0, <1>2, ChoiceKept DEF DismissStart
<1>3. CASE \E installed \in BOOLEAN : StartAnswered(installed)
  BY <1>0, <1>3, ChoiceKept DEF StartAnswered, Step
<1>4. CASE \E page \in Step \cup {None} : SetStep(page)
  BY <1>0, <1>4, ChoiceKept DEF SetStep
<1>5. CASE SnapshotArrives
  BY <1>0, <1>5, ChoiceKept DEF SnapshotArrives
<1>6. CASE FilterPanel
  <2>1. req' \in Requirements
    BY <1>0, <1>6, FilterTypes DEF FilterPanel
  <2> QED
    BY <1>0, <1>6, <2>1, ChoiceKept DEF FilterPanel
<1>7. CASE Reset
  <2>1. TypeOK'
    <3>1. Len(Catalog) \in Nat
      BY CatalogAssumption
    <3> QED
      BY <1>0, <1>7, <3>1, DefaultsTyped DEF Reset, TypeOK, Snapshot
  <2>2. QuantOfModel'
    BY <1>7 DEF Reset, QuantOfModel
  <2> QED
    BY <2>1, <2>2 DEF WizardInv
<1>8. CASE HelpMeChoose
  <2>1. req' \in Requirements
    BY <1>0, <1>8, ApplyTypes DEF HelpMeChoose
  <2> QED
    BY <1>0, <1>8, <2>1, ChoiceKept DEF HelpMeChoose
<1>9. CASE \E i \in 1 .. Len(Catalog) : SelectModel(i) \/ ServeOther(i)
  <2>1. PICK i \in 1 .. Len(Catalog) : SelectModel(i) \/ ServeOther(i)
    BY <1>9
  <2>2. selected' = i /\ config' = [config EXCEPT !.quant = QuantFor(Catalog[i], config.quant)]
    BY <1>0, <2>1 DEF SelectModel, ServeOther, ServeConfig
  <2>3. /\ UNCHANGED <<overlay, catalog, req, machine>>
        /\ step' \in Step \cup {None} /\ hw' \in {None, hw}
    BY <1>0, <2>1 DEF SelectModel, ServeOther, Step
  <2> QED
    BY <2>2, <2>3, Effect
<1>10. CASE ContinueToHardware
  BY <1>0, <1>10, ChoiceKept DEF ContinueToHardware, Step
<1>11. CASE WhatIfSliders
  <2>1. req' \in Requirements
    <3>1. \A n \in UserChoice : [req EXCEPT !.concurrency = n] \in Requirements
      BY <1>0, ControlsAssumption DEF Requirements
    <3>2. \A c \in ContextChoice : [req EXCEPT !.context = c] \in Requirements
      BY <1>0, ControlsAssumption DEF Requirements
    <3>3. \A k \in KvChoice : [req EXCEPT !.kvElement = k] \in Requirements
      BY <1>0 DEF Requirements
    <3> QED
      BY <1>11, <3>1, <3>2, <3>3 DEF WhatIfSliders
  <2> QED
    BY <1>0, <1>11, <2>1, ChoiceKept DEF WhatIfSliders
<1>12. CASE \E q \in Quants : PickQuant(q)
  <2>1. PICK q \in Quants : PickQuant(q)
    BY <1>12
  <2>2. /\ selected' = selected /\ selected \in 1 .. Len(Catalog)
        /\ config' = [config EXCEPT !.quant = QuantFor(Catalog[selected], q)]
    BY <1>0, <2>1 DEF PickQuant, Model
  <2>3. /\ UNCHANGED <<overlay, catalog, req, machine>>
        /\ step' \in Step \cup {None} /\ hw' \in {None, hw}
    BY <1>0, <2>1 DEF PickQuant
  <2> QED
    BY <2>2, <2>3, Effect
<1>13. CASE \E n \in ContextChoice : PickContext(n)
  <2>1. config' \in ServeConfig /\ config'.quant = config.quant
    BY <1>0, <1>13, ControlsAssumption DEF PickContext, ServeConfig
  <2> QED
    BY <1>13, <2>1, OtherOption DEF PickContext
<1>14. CASE \E n \in LayerChoice : OffloadControl(n)
  <2>1. config' \in ServeConfig /\ config'.quant = config.quant
    BY <1>0, <1>14, ControlsAssumption DEF OffloadControl, ServeConfig
  <2> QED
    BY <1>14, <2>1, OtherOption DEF OffloadControl
<1>15. CASE \E mode \in {"auto", "layer", "row"} : SplitControl(mode)
  <2>1. PICK mode \in {"auto", "layer", "row"} : SplitControl(mode)
    BY <1>15
  <2>2. /\ EffectiveShares \in Seq(0 .. 100)
        /\ config.split = NoSplit => hw.gpus[ArgMax(EffectiveShares)].index \in Nat
    BY <1>0, <2>1, SharesInEffect DEF SplitControl
  <2> DEFINE shares == EffectiveShares
             index == hw.gpus[ArgMax(EffectiveShares)].index
             split == IF mode = "auto" THEN NoSplit
                      ELSE [mode |-> mode, shares |-> shares,
                            mainGpu |-> IF config.split # NoSplit THEN config.split.mainGpu
                            ELSE index]
  <2>3. config' = [config EXCEPT !.split = split]
    BY <1>0, <2>1 DEF SplitControl, ServeConfig
  <2>4. split \in SplitOptions
    <3>1. config.split \in SplitOptions
      BY <1>0 DEF ServeConfig
    <3>2. config.split.mainGpu \in Nat
      BY <3>1 DEF SplitOptions
    <3> HIDE DEF shares, index
    <3>3. shares \in Seq(0 .. 100) /\ (config.split = NoSplit => index \in Nat)
      BY <2>2 DEF shares, index
    <3> QED
      BY <2>1, <3>2, <3>3, NoSplitTyped DEF SplitOptions
  <2> HIDE DEF split
  <2>5. config' \in ServeConfig /\ config'.quant = config.quant
    BY <1>0, <2>3, <2>4 DEF ServeConfig
  <2> QED
    BY <2>1, <2>5, OtherOption DEF SplitControl
<1>16. CASE ResetAuto
  <2> DEFINE d == [config EXCEPT !.split = NoSplit]
  <2>1. d \in ServeConfig /\ d.quant = config.quant
    BY <1>0, NoSplitTyped DEF ServeConfig
  <2>2. config' = [d EXCEPT !.nGpuLayers = 999]
    BY <1>16 DEF ResetAuto
  <2> HIDE DEF d
  <2>3. config' \in ServeConfig /\ config'.quant = config.quant
    BY <2>1, <2>2 DEF ServeConfig
  <2> QED
    BY <1>16, <2>3, OtherOption DEF ResetAuto
<1>17. CASE UNCHANGED vars
  BY <1>0, <1>17, ChoiceKept DEF vars
<1> QED
  BY <1>1, <1>2, <1>3, <1>4, <1>5, <1>6, <1>7, <1>8, <1>9, <1>10, <1>11, <1>12, <1>13, <1>14,
     <1>15, <1>16, <1>17 DEF Next

(* So it always holds.                                                       *)
LEMMA WizardAlways == Spec => []WizardInv
  BY WizardInit, WizardStep, PTL DEF Spec
-----------------------------------------------------------------------------
(* TypeOK: requirements, options and hardware keep their types, on whatever page *)
(* and in whatever order the controls were used.                             *)
THEOREM WizardTypeCorrect == Spec => []TypeOK
<1>1. WizardInv => TypeOK
  BY DEF WizardInv
<1> QED
  BY WizardAlways, <1>1, PTL

(* QuantOfModel: the quantisation the server would be started with is one of  *)
(* the selected model's, in whatever order pages and choices came.            *)
THEOREM ServedQuantExists == Spec => []QuantOfModel
<1>1. WizardInv => QuantOfModel
  BY DEF WizardInv
<1> QED
  BY WizardAlways, <1>1, PTL

(* HardwareHolds: the three recommendations get larger and hold the workload *)
(* with the room their tier promises, and the two figures of the card about  *)
(* renting agree (pickTiers, selfHostVsApiBreakEven).                        *)
THEOREM RecommendationsHold == Spec => []HardwareHolds
<1>1. WizardInv => HardwareHolds
  BY HardwareOK DEF WizardInv
<1> QED
  BY WizardAlways, <1>1, PTL

(* PlannerHolds: the list of models is the included ones in order (rankAll), a *)
(* machine with more of everything is never judged worse (planPlacement), and no *)
(* card gets a larger share than it has room for (placementToServeSplit).    *)
THEOREM PlannerIsRight == Spec => []PlannerHolds
<1>1. WizardInv => PlannerHolds
  BY PlannerOK DEF WizardInv
<1> QED
  BY WizardAlways, <1>1, PTL
=============================================================================
