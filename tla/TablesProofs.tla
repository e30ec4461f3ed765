----------------------------- MODULE TablesProofs -----------------------------
(***************************************************************************)
(* What the tables answer, for inputs of every size: every property that   *)
(* Tables states of a question is proved of the operators, and then of     *)
(* every behaviour of TablesSpec.  At the end of the module, the proofs    *)
(* about MeshAuthority, the reloads that decide which bundle the           *)
(* authority's table is built from.                                        *)
(*                                                                         *)
(* Induction is over sets of naturals (SetInduction); a recursive function *)
(* is unfolded after Iterates has shown that there is one.                 *)
(***************************************************************************)
EXTENDS Tables, MeshAuthority, SequenceTheorems, FiniteSetTheorems, WellFoundedInduction, TLAPS

-----------------------------------------------------------------------------
(* Numbers.                                                                *)

\* A set of naturals that is not empty has a least element.
LEMMA Least ==
    ASSUME NEW T, T \subseteq Nat, T # {}
    PROVE \E x \in T : \A y \in T : x <= y
  <1> DEFINE R == OpToRel(<, Nat)
  <1>1. \A x, y \in Nat : <<x, y>> \in R <=> x < y
    BY DEF OpToRel
  <1>2. IsWellFoundedOn(R, Nat)
    BY NatLessThanWellFounded
  <1> HIDE DEF R
  <1>3. PICK x \in T : \A y \in T : ~(<<y, x>> \in R)
    BY <1>2, WFMin
  <1>4. ASSUME NEW y \in T PROVE x <= y
    <2>1. x \in Nat /\ y \in Nat
      OBVIOUS
    <2>2. ~(<<y, x>> \in R)
      BY <1>3
    <2>3. ~(y < x)
      BY <2>1, <2>2, <1>1
    <2> QED
      BY <2>1, <2>3
  <1> QED
    BY <1>4

\* Induction over the naturals, stated with a set of them so that the provers
\* can use it.
LEMMA SetInduction ==
    ASSUME NEW S, 0 \in S, \A n \in Nat : n \in S => n + 1 \in S
    PROVE Nat \subseteq S
  <1> SUFFICES ASSUME Nat \ S # {} PROVE FALSE
    OBVIOUS
  <1>1. PICK x \in Nat \ S : \A y \in Nat \ S : x <= y
    BY Least
  <1>2. x # 0 /\ x - 1 \in Nat /\ x - 1 \notin Nat \ S
    BY <1>1
  <1> QED
    BY <1>1, <1>2

\* Quotient and remainder by a positive number, for negative numbers too: local
\* time before 1970 is one.
LEMMA DivModInt ==
    ASSUME NEW a \in Int, NEW d \in Nat \ {0}
    PROVE /\ a \div d \in Int /\ a % d \in 0..(d - 1)
          /\ a = d * (a \div d) + (a % d)
  OBVIOUS

\* Multiples of a positive number lie at least that number apart.
LEMMA MulLess ==
    ASSUME NEW d \in Nat \ {0}, NEW p \in Int, NEW q \in Int, p < q
    PROVE d * p + d <= d * q
  <1>1. q = p + 1 + (q - p - 1) /\ q - p - 1 \in Nat
    OBVIOUS
  <1> DEFINE e == q - p - 1
  <1>2. d * e \in Nat
    BY <1>1
  <1>3. d * q = d * p + d + d * e
    BY <1>1
  <1> QED BY <1>2, <1>3

\* A number written as a multiple and a rest below the divisor has that quotient
\* and that remainder.
LEMMA DivUnique ==
    ASSUME NEW d \in Nat \ {0}, NEW q \in Int, NEW r \in 0..(d - 1)
    PROVE (d * q + r) \div d = q /\ (d * q + r) % d = r
  <1> DEFINE a == d * q + r
  <1>0. d * q \in Int /\ a \in Int
    OBVIOUS
  <1>1. /\ a \div d \in Int /\ a % d \in 0..(d - 1)
        /\ a = d * (a \div d) + (a % d)
    BY <1>0, DivModInt
  <1> DEFINE p == a \div d
             s == a % d
  <1>2. d * q + r = d * p + s /\ p \in Int /\ s \in 0..(d - 1) /\ d * p \in Int
    BY <1>1
  <1> HIDE DEF p, s
  <1>3. CASE p < q
    <2>1. d * p + d <= d * q
      BY <1>2, <1>3, MulLess
    <2> QED BY <1>0, <1>2, <2>1
  <1>4. CASE q < p
    <2>1. d * q + d <= d * p
      BY <1>2, <1>4, MulLess
    <2> QED BY <1>0, <1>2, <2>1
  <1>5. CASE p = q
    BY <1>0, <1>2, <1>5 DEF p, s
  <1> QED BY <1>2, <1>3, <1>4, <1>5

\* Dividing twice is dividing by the product.
LEMMA DivDiv ==
    ASSUME NEW a \in Int, NEW d \in Nat \ {0}, NEW k \in Nat \ {0}
    PROVE (a \div d) \div k = a \div (d * k)
  <1> DEFINE q == a \div d
             r == a % d
             s == q \div k
             t == q % k
  <1>1. q \in Int /\ r \in 0..(d - 1) /\ a = d * q + r
    BY DivModInt
  <1>2. s \in Int /\ t \in 0..(k - 1) /\ q = k * s + t
    BY <1>1, DivModInt
  <1> HIDE DEF q, r
  <1> HIDE DEF s, t
  <1>3. d * k \in Nat \ {0}
    OBVIOUS
  <1>4. d * t + d <= d * k /\ d * t \in Nat
    BY <1>2, MulLess
  <1>5. d * t + r \in 0..(d * k - 1)
    BY <1>1, <1>3, <1>4
  <1>6. a = (d * k) * s + (d * t + r)
    BY <1>1, <1>2
  <1>7. a \div (d * k) = s
    BY <1>2, <1>3, <1>5, <1>6, DivUnique
  <1> QED BY <1>7 DEF q, s

\* Two numbers agree without their low digits exactly if their quotients agree.
LEMMA MaskEqual ==
    ASSUME NEW a \in Int, NEW b \in Int, NEW d \in Nat \ {0}
    PROVE a - (a % d) = b - (b % d) <=> a \div d = b \div d
  <1> DEFINE p == a \div d
             q == b \div d
  <1>1. p \in Int /\ a - (a % d) = d * p
    BY DivModInt
  <1>2. q \in Int /\ b - (b % d) = d * q
    BY DivModInt
  <1> HIDE DEF p, q
  <1>3. d * p = d * q <=> p = q
    <2>1. CASE p < q
      BY <1>1, <1>2, <2>1, MulLess
    <2>2. CASE q < p
      BY <1>1, <1>2, <2>2, MulLess
    <2> QED BY <1>1, <1>2, <2>1, <2>2
  <1> QED BY <1>1, <1>2, <1>3 DEF p, q

-----------------------------------------------------------------------------
(* Sequences, and selections from them.                                    *)

\* A sequence is empty exactly if it has no index.
LEMMA EmptyOrFirst ==
    ASSUME NEW S, NEW s \in Seq(S)
    PROVE s = <<>> <=> DOMAIN s = {}
  <1>1. Len(s) \in Nat /\ DOMAIN s = 1..Len(s)
    OBVIOUS
  <1>2. s = <<>> <=> Len(s) = 0
    BY EmptySeq
  <1>3. Len(s) # 0 => 1 \in 1..Len(s)
    BY <1>1
  <1>4. Len(s) = 0 => 1..Len(s) = {}
    OBVIOUS
  <1> QED BY <1>1, <1>2, <1>3, <1>4

\* What Tail leaves of a sequence.
LEMMA RestOf ==
    ASSUME NEW S, NEW s \in Seq(S), Len(s) > 0
    PROVE /\ Tail(s) \in Seq(S) /\ Len(Tail(s)) = Len(s) - 1
          /\ \A i \in 1..(Len(s) - 1) : Tail(s)[i] = s[i + 1]
  OBVIOUS

\* The end of a sequence from an index on.
LEMMA SuffixFrom ==
    ASSUME NEW S, NEW s \in Seq(S), NEW i \in 1..Len(s)
    PROVE /\ SubSeq(s, i, Len(s)) \in Seq(S)
          /\ Len(SubSeq(s, i, Len(s))) = Len(s) - i + 1
          /\ \A k \in 1..(Len(s) - i + 1) : SubSeq(s, i, Len(s))[k] = s[i + k - 1]
  <1>1. Len(s) \in Nat /\ i \in Nat
    OBVIOUS
  <1>2. \A k \in i..Len(s) : s[k] \in S
    OBVIOUS
  <1> QED BY <1>1, <1>2

\* A sequence of two.
LEMMA Pair ==
    ASSUME NEW S, NEW a \in S, NEW b \in S
    PROVE <<a, b>> \in Seq(S) /\ Len(<<a, b>>) = 2 /\ <<a, b>>[1] = a /\ <<a, b>> # <<>>
  OBVIOUS

\* An element put in front of a sequence.
LEMMA InFront ==
    ASSUME NEW S, NEW x \in S, NEW m \in Seq(S)
    PROVE /\ <<x>> \o m \in Seq(S) /\ Len(<<x>> \o m) = Len(m) + 1
          /\ \A i \in 1..Len(m) : (<<x>> \o m)[i + 1] = m[i]
  <1>1. <<x>> \in Seq(S) /\ Len(<<x>>) = 1
    OBVIOUS
  <1> DEFINE s == <<x>>
  <1> HIDE DEF s
  <1>2. s \in Seq(S) /\ Len(s) = 1
    BY <1>1 DEF s
  <1> DEFINE n == Len(m)
  <1>0. n \in Nat
    OBVIOUS
  <1>5. /\ s \o m \in Seq(S) /\ Len(s \o m) = Len(s) + n
        /\ \A i \in 1..(Len(s) + n) : (s \o m)[i] = IF i <= Len(s) THEN s[i] ELSE m[i - Len(s)]
    BY <1>2, ConcatProperties
  <1>3. s \o m \in Seq(S) /\ Len(s \o m) = n + 1
    BY <1>0, <1>2, <1>5
  <1> HIDE DEF n
  <1>4. ASSUME NEW i \in 1..n PROVE (s \o m)[i + 1] = m[i]
    <2>1. i + 1 \in 1..(1 + n) /\ ~(i + 1 <= 1) /\ (i + 1) - 1 = i
      BY <1>0
    <2> QED BY <1>2, <1>5, <2>1
  <1> QED BY <1>3, <1>4 DEF s, n

\* Min of a set of naturals that is not empty.
LEMMA LeastOf ==
    ASSUME NEW T, T \subseteq Nat, T # {}
    PROVE Min(T) \in T /\ \A y \in T : Min(T) <= y
  <1>1. \E x \in T : \A y \in T : x <= y
    BY Least
  <1>2. \E x \in T : \A y \in T : x =< y
    BY <1>1
  <1> QED BY <1>2 DEF Min

\* Max of a bounded set of naturals that is not empty.
LEMMA MaxOfBounded ==
    ASSUME NEW n \in Nat, NEW T, T \subseteq 1..n, T # {}
    PROVE Max(T) \in T /\ \A y \in T : y <= Max(T)
  <1> DEFINE R == {m \in Nat : \E x \in T : m = n - x}
  <1>1. R \subseteq Nat /\ R # {}
    <2>1. PICK x \in T : TRUE
      OBVIOUS
    <2>2. n - x \in Nat
      BY <2>1
    <2> QED BY <2>1, <2>2
  <1>2. PICK r \in R : \A y \in R : r <= y
    BY <1>1, Least
  <1>3. PICK x \in T : r = n - x
    BY <1>2
  <1>4. \A y \in T : x >= y
    <2> SUFFICES ASSUME NEW y \in T PROVE x >= y
      OBVIOUS
    <2>1. n - y \in R
      OBVIOUS
    <2>2. r <= n - y
      BY <1>2, <2>1
    <2>3. x \in 1..n /\ y \in 1..n
      OBVIOUS
    <2> QED BY <1>3, <2>2, <2>3
  <1>5. \E z \in T : \A y \in T : z >= y
    BY <1>4
  <1>6. Max(T) \in T /\ \A y \in T : Max(T) >= y
    BY <1>5 DEF Max
  <1>7. \A y \in T : y \in 1..n
    OBVIOUS
  <1> QED BY <1>6, <1>7

\* The first n naturals are finite and as many as n.
LEMMA Counting ==
    ASSUME NEW n \in Nat
    PROVE IsFiniteSet(1..n) /\ Cardinality(1..n) = n
  BY FS_Interval

\* The place of an index among those of a set grows with the index.
LEMMA PlaceGrows ==
    ASSUME NEW n \in Nat, NEW I \in SUBSET (1..n)
    PROVE /\ IsFiniteSet(I) /\ Cardinality(I) \in Nat
          /\ \A i \in I : Place(I, i) \in 1..Cardinality(I)
          /\ \A i, k \in I : i < k => Place(I, i) < Place(I, k)
  <1>1. IsFiniteSet(1..n)
    BY FS_Interval
  <1>2. IsFiniteSet(I) /\ Cardinality(I) \in Nat
    BY <1>1, FS_Subset, FS_CardinalityType
  <1> DEFINE Upto(i) == {j \in I : j <= i}
  <1>3. ASSUME NEW i \in I
        PROVE IsFiniteSet(Upto(i)) /\ Cardinality(Upto(i)) \in Nat /\ Cardinality(Upto(i)) <= Cardinality(I)
              /\ Cardinality(Upto(i)) # 0
    <2>1. Upto(i) \in SUBSET I
      OBVIOUS
    <2>2. i \in Upto(i)
      OBVIOUS
    <2> HIDE DEF Upto
    <2>3. IsFiniteSet(Upto(i)) /\ Cardinality(Upto(i)) <= Cardinality(I)
      BY <1>2, <2>1, FS_Subset
    <2>4. Cardinality(Upto(i)) \in Nat /\ Cardinality(Upto(i)) # 0
      BY <2>2, <2>3, FS_CardinalityType, FS_EmptySet
    <2> QED BY <2>3, <2>4
  <1>4. ASSUME NEW i \in I, NEW k \in I, i < k
        PROVE Cardinality(Upto(i)) < Cardinality(Upto(k))
    <2>1. Upto(i) \in SUBSET Upto(k)
      <3>1. \A j \in I : j <= i => j <= k
        BY <1>4
      <3> QED BY <3>1
    <2>2. k \in Upto(k) /\ k \notin Upto(i)
      BY <1>4
    <2> HIDE DEF Upto
    <2>3. Upto(i) # Upto(k)
      BY <2>2
    <2>4. /\ Cardinality(Upto(i)) <= Cardinality(Upto(k))
          /\ Cardinality(Upto(k)) = Cardinality(Upto(i)) => Upto(k) = Upto(i)
      BY <1>3, <2>1, FS_Subset
    <2>5. Cardinality(Upto(i)) \in Nat /\ Cardinality(Upto(k)) \in Nat
      BY <1>3
    <2> QED BY <2>3, <2>4, <2>5
  <1>5. \A i \in I : Place(I, i) = Cardinality(Upto(i))
    BY DEF Place
  <1> HIDE DEF Upto
  <1>6. \A i \in I : Place(I, i) \in 1..Cardinality(I)
    BY <1>2, <1>3, <1>5
  <1> QED BY <1>2, <1>4, <1>5, <1>6

\* Every place is taken by one index.
LEMMA PlaceOnto ==
    ASSUME NEW n \in Nat, NEW I \in SUBSET (1..n)
    PROVE /\ \A i, k \in I : Place(I, i) = Place(I, k) => i = k
          /\ \A p \in 1..Cardinality(I) : \E i \in I : Place(I, i) = p
  <1> DEFINE c == Cardinality(I)
             f == [i \in I |-> Place(I, i)]
  <1>1. /\ IsFiniteSet(I) /\ c \in Nat /\ \A i \in I : Place(I, i) \in 1..c
        /\ \A i, k \in I : i < k => Place(I, i) < Place(I, k)
    BY PlaceGrows
  <1>2. \A i, k \in I : Place(I, i) = Place(I, k) => i = k
    <2> SUFFICES ASSUME NEW i \in I, NEW k \in I, Place(I, i) = Place(I, k), i # k PROVE FALSE
      OBVIOUS
    <2>1. i < k \/ k < i
      OBVIOUS
    <2> DEFINE a == Place(I, i)
               b == Place(I, k)
    <2>2. a < b \/ b < a
      BY <1>1, <2>1
    <2>3. a \in Nat /\ b \in Nat /\ a = b
      BY <1>1
    <2> HIDE DEF a, b
    <2> QED BY <2>2, <2>3
  <1> HIDE DEF c
  <1>3. f \in Injection(I, 1..c)
    BY <1>1, <1>2 DEF Injection, IsInjective
  <1>4. IsFiniteSet(1..c) /\ Cardinality(1..c) = c
    BY <1>1, FS_Interval
  <1>5. f \in Surjection(I, 1..c)
    BY <1>3, <1>4, FS_Injection DEF c
  <1>6. \A p \in 1..c : \E i \in I : f[i] = p
    BY <1>5 DEF Surjection
  <1> QED BY <1>2, <1>6 DEF c

\* A selection holds the elements at the indices of the set, one for each, and
\* each at the place of its index.
LEMMA SelectHolds ==
    ASSUME NEW S, NEW s \in Seq(S), NEW I, I \subseteq DOMAIN s
    PROVE /\ Select(s, I) \in Seq(S)
          /\ Len(Select(s, I)) = Cardinality(I)
          /\ Cardinality(I) \in Nat /\ IsFiniteSet(I)
          /\ {Select(s, I)[k] : k \in DOMAIN Select(s, I)} = {s[i] : i \in I}
          /\ \A i \in I : Place(I, i) \in 1..Cardinality(I) /\ Select(s, I)[Place(I, i)] = s[i]
  <1> DEFINE c == Cardinality(I)
             At(k) == CHOOSE i \in I : Place(I, i) = k
             sel == [k \in 1..c |-> s[At(k)]]
  <1>0. Len(s) \in Nat /\ I \in SUBSET (1..Len(s)) /\ DOMAIN s = 1..Len(s)
    OBVIOUS
  <1>1. /\ c \in Nat /\ IsFiniteSet(I)
        /\ \A i \in I : Place(I, i) \in 1..c
        /\ \A i, k \in I : Place(I, i) = Place(I, k) => i = k
        /\ \A p \in 1..c : \E i \in I : Place(I, i) = p
    BY <1>0, PlaceGrows, PlaceOnto
  <1>2. Select(s, I) = sel
    BY DEF Select
  <1> HIDE DEF c
  <1>3. \A k \in 1..c : At(k) \in I /\ Place(I, At(k)) = k
    BY <1>1
  <1>4. \A i \in I : At(Place(I, i)) = i
    BY <1>1, <1>3
  <1> HIDE DEF At
  <1>5. sel \in Seq(S) /\ Len(sel) = c /\ DOMAIN sel = 1..c
    <2>1. \A k \in 1..c : s[At(k)] \in S
      BY <1>0, <1>3
    <2> QED BY <1>1, <2>1
  <1>6. \A i \in I : sel[Place(I, i)] = s[i]
    BY <1>1, <1>4
  <1>7. \A k \in 1..c : sel[k] = s[At(k)]
    OBVIOUS
  <1> HIDE DEF sel
  <1>8. {sel[k] : k \in DOMAIN sel} = {s[i] : i \in I}
    <2>1. ASSUME NEW i \in I PROVE s[i] \in {sel[k] : k \in DOMAIN sel}
      <3>1. Place(I, i) \in DOMAIN sel
        BY <1>1, <1>5
      <3> QED BY <1>6, <3>1
    <2>2. ASSUME NEW k \in DOMAIN sel PROVE sel[k] \in {s[i] : i \in I}
      BY <1>3, <1>5, <1>7
    <2> QED BY <2>1, <2>2
  <1> QED BY <1>1, <1>2, <1>5, <1>6, <1>8 DEF c

\* The elements of a selection, as a set.
LEMMA SelectedSet ==
    ASSUME NEW S, NEW s \in Seq(S), NEW I, I \subseteq DOMAIN s
    PROVE Select(s, I) \in Seq(S) /\ ToSet(Select(s, I)) = {s[i] : i \in I}
  BY SelectHolds DEF ToSet

\* Selecting the first indices gives the beginning of a sequence.
LEMMA SelectFirst ==
    ASSUME NEW S, NEW s \in Seq(S), NEW m \in 0..Len(s)
    PROVE Select(s, 1..m) \in Seq(S) /\ Len(Select(s, 1..m)) = m
          /\ \A i \in 1..m : Select(s, 1..m)[i] = s[i]
  <1>0. Len(s) \in Nat /\ m \in Nat /\ DOMAIN s = 1..Len(s)
    OBVIOUS
  <1>1. 1..m \subseteq DOMAIN s
    BY <1>0
  <1>2. Cardinality(1..m) = m
    BY <1>0, Counting
  <1> DEFINE I == 1..m
  <1>3. \A i \in I : Place(I, i) = i
    <2> TAKE i \in I
    <2>1. {j \in I : j <= i} = 1..i /\ i \in Nat
      BY <1>0
    <2> QED BY <2>1, Counting DEF Place
  <1> HIDE DEF I
  <1>4. /\ Select(s, I) \in Seq(S) /\ Len(Select(s, I)) = Cardinality(I)
        /\ \A i \in I : Select(s, I)[Place(I, i)] = s[i]
    BY <1>1, SelectHolds DEF I
  <1>5. \A i \in I : Select(s, I)[i] = s[i]
    BY <1>3, <1>4
  <1> QED BY <1>2, <1>4, <1>5 DEF I

\* A function iterated from a value, as a function of the number of steps.
Iteration(f, U, a, G, n) ==
    f \in [0..n -> U] /\ f[0] = a /\ \A k \in 1..n : f[k] = G[f[k - 1]]

\* Iterating exists: what lets a recursive LET be unfolded.
LEMMA Iterates ==
    ASSUME NEW U, NEW a \in U, NEW G \in [U -> U], NEW n \in Nat
    PROVE \E f : Iteration(f, U, a, G, n)
  <1> DEFINE P(m) == \E f \in [0..m -> U] : f[0] = a /\ \A k \in 1..m : f[k] = G[f[k - 1]]
             T == {m \in Nat : P(m)}
  <1>1. 0 \in T
    <2> DEFINE f == [k \in 0..0 |-> a]
    <2>1. f \in [0..0 -> U] /\ f[0] = a /\ \A k \in 1..0 : f[k] = G[f[k - 1]]
      OBVIOUS
    <2> HIDE DEF f
    <2>2. P(0)
      BY <2>1
    <2> QED BY <2>2
  <1>2. ASSUME NEW m \in Nat, m \in T PROVE m + 1 \in T
    <2>1. PICK f \in [0..m -> U] : f[0] = a /\ \A k \in 1..m : f[k] = G[f[k - 1]]
      BY <1>2
    <2> DEFINE g == [k \in 0..(m + 1) |-> IF k \in 0..m THEN f[k] ELSE G[f[m]]]
    <2>2. g \in [0..(m + 1) -> U]
      <3>1. f[m] \in U /\ G[f[m]] \in U
        BY <1>2
      <3> QED BY <3>1
    <2>3. g[0] = a
      BY <1>2, <2>1
    <2>4. ASSUME NEW k \in 1..(m + 1) PROVE g[k] = G[g[k - 1]]
      <3>0. k - 1 \in 0..m /\ k \in 0..(m + 1) /\ k - 1 \in 0..(m + 1)
        BY <1>2
      <3>1. g[k - 1] = f[k - 1]
        BY <3>0
      <3>2. CASE k \in 1..m
        <4>1. g[k] = f[k]
          BY <3>0, <3>2
        <4> HIDE DEF g
        <4> QED BY <2>1, <3>1, <3>2, <4>1
      <3>3. CASE k = m + 1
        <4>1. k \notin 0..m /\ k - 1 = m
          BY <1>2, <3>3
        <4>2. g[k] = G[f[m]]
          BY <3>0, <4>1
        <4> HIDE DEF g
        <4> QED BY <3>1, <4>1, <4>2
      <3> QED BY <1>2, <3>2, <3>3
    <2> HIDE DEF g
    <2>5. P(m + 1)
      BY <2>2, <2>3, <2>4
    <2> QED BY <1>2, <2>5
  <1> HIDE DEF T
  <1>3. Nat \subseteq T
    BY <1>1, <1>2, SetInduction
  <1>4. P(n)
    BY <1>3 DEF T
  <1> QED BY <1>4 DEF Iteration

\* Joining sequences over a set gives a sequence over that set.
LEMMA Flattened ==
    ASSUME NEW R, NEW ss \in Seq(Seq(R))
    PROVE FlattenSeq(ss) \in Seq(R)
  <1> DEFINE n == Len(ss)
             F(f) == [i \in 1..n |-> IF i = 1 THEN ss[i] ELSE f[i - 1] \o ss[i]]
             flatten == CHOOSE f : f = F(f)
  <1>0. n \in Nat /\ \A i \in 1..n : ss[i] \in Seq(R)
    OBVIOUS
  <1>1. FlattenSeq(ss) = IF n = 0 THEN ss ELSE flatten[n]
    BY DEF FlattenSeq
  <1>2. CASE n = 0
    <2>1. ss = <<>>
      BY <1>2, EmptySeq
    <2>2. <<>> \in Seq(R)
      BY EmptySeq
    <2> QED BY <1>1, <1>2, <2>1, <2>2
  <1>3. CASE n # 0
    <2> DEFINE U == [seq : Seq(R), at : Nat]
               J == [u \in U |-> IF u.at + 1 \in 1..n THEN [seq |-> u.seq \o ss[u.at + 1], at |-> u.at + 1] ELSE u]
               a == [seq |-> <<>>, at |-> 0]
    <2>1. a \in U
      BY EmptySeq
    <2>2. J \in [U -> U]
      <3>1. ASSUME NEW u \in U, u.at + 1 \in 1..n PROVE [seq |-> u.seq \o ss[u.at + 1], at |-> u.at + 1] \in U
        <4>1. ss[u.at + 1] \in Seq(R) /\ u.seq \in Seq(R)
          BY <1>0, <3>1
        <4>2. u.seq \o ss[u.at + 1] \in Seq(R) /\ u.at + 1 \in Nat
          BY <4>1
        <4> QED BY <4>2
      <3> HIDE DEF U
      <3> QED BY <3>1
    <2>3. PICK g : Iteration(g, U, a, J, n)
      <3> HIDE DEF U, a, J
      <3> QED BY <1>0, <2>1, <2>2, Iterates
    <2>4. g \in [0..n -> U] /\ g[0] = a /\ \A k \in 1..n : g[k] = J[g[k - 1]]
      <3> HIDE DEF U, a, J
      <3> QED BY <2>3 DEF Iteration
    <2> DEFINE T == {m \in Nat : m <= n => g[m].at = m}
    <2>5. 0 \in T
      BY <2>4
    <2>6. ASSUME NEW m \in Nat, m \in T PROVE m + 1 \in T
      <3> SUFFICES ASSUME m + 1 <= n PROVE g[m + 1].at = m + 1
        OBVIOUS
      <3>1. m + 1 \in 1..n /\ (m + 1) - 1 = m /\ m <= n /\ m \in 0..n
        BY <1>0
      <3>2. g[m].at = m /\ g[m] \in U
        BY <2>4, <2>6, <3>1
      <3>3. g[m + 1] = J[g[m]]
        BY <2>4, <3>1
      <3>4. J[g[m]] = [seq |-> g[m].seq \o ss[m + 1], at |-> m + 1]
        BY <3>1, <3>2
      <3> QED BY <3>3, <3>4
    <2>7. Nat \subseteq T
      <3> HIDE DEF T
      <3> QED BY <2>5, <2>6, SetInduction
    <2>8. ASSUME NEW k \in 1..n PROVE g[k].seq = g[k - 1].seq \o ss[k] /\ g[k - 1] \in U /\ g[k] \in U
      <3>1. k - 1 \in 0..n /\ k - 1 \in Nat /\ k - 1 <= n /\ (k - 1) + 1 = k /\ k \in 0..n
        BY <1>0
      <3>2. g[k - 1].at = k - 1 /\ g[k - 1] \in U /\ g[k] \in U
        BY <2>4, <2>7, <3>1
      <3>3. g[k] = J[g[k - 1]]
        BY <2>4
      <3>4. J[g[k - 1]] = [seq |-> g[k - 1].seq \o ss[k], at |-> k]
        BY <3>1, <3>2
      <3>5. g[k].seq = g[k - 1].seq \o ss[k]
        <4> DEFINE joined == g[k - 1].seq \o ss[k]
        <4>1. g[k] = [seq |-> joined, at |-> k]
          BY <3>3, <3>4
        <4> HIDE DEF joined, J, U
        <4>2. g[k].seq = joined
          BY <4>1
        <4> QED BY <4>2 DEF joined
      <3> HIDE DEF U, J
      <3> QED BY <3>2, <3>5
    <2> DEFINE h == [i \in 1..n |-> g[i].seq]
    <2>9. h = F(h)
      <3>1. ASSUME NEW i \in 1..n PROVE h[i] = IF i = 1 THEN ss[i] ELSE h[i - 1] \o ss[i]
        <4>1. CASE i = 1
          <5>1. g[0].seq = <<>>
            <6>1. g[0] = a
              BY <2>4
            <6> HIDE DEF U, J
            <6> QED BY <6>1
          <5>3. g[1].seq = g[0].seq \o ss[1]
            <6>1. 1 \in 1..n /\ 1 - 1 = 0
              BY <1>0, <4>1
            <6> HIDE DEF U, J
            <6> QED BY <2>8, <6>1
          <5>2. <<>> \o ss[1] = ss[1]
            BY <1>0, <4>1
          <5> QED BY <4>1, <5>1, <5>2, <5>3
        <4>2. CASE i # 1
          <5>1. i - 1 \in 1..n
            BY <1>0, <4>2
          <5> QED BY <2>8, <4>2, <5>1
        <4> QED BY <4>1, <4>2
      <3> HIDE DEF h
      <3>2. h = [i \in 1..n |-> h[i]]
        BY DEF h
      <3> QED BY <3>1, <3>2
    <2>10. flatten = F(flatten)
      <3> HIDE DEF F, h
      <3> QED BY <2>9
    <2>11. \A i \in 1..n : flatten[i] = IF i = 1 THEN ss[i] ELSE flatten[i - 1] \o ss[i]
      <3> HIDE DEF flatten
      <3> QED BY <2>10
    <2> HIDE DEF flatten
    <2> DEFINE V == {m \in Nat : m + 1 <= n => flatten[m + 1] \in Seq(R)}
    <2>12. 0 \in V
      BY <1>0, <1>3, <2>11
    <2>13. ASSUME NEW m \in Nat, m \in V PROVE m + 1 \in V
      <3> SUFFICES ASSUME (m + 1) + 1 <= n PROVE flatten[(m + 1) + 1] \in Seq(R)
        OBVIOUS
      <3>1. (m + 1) + 1 \in 1..n /\ (m + 1) + 1 # 1 /\ ((m + 1) + 1) - 1 = m + 1 /\ m + 1 <= n
        BY <1>0
      <3>2. flatten[(m + 1) + 1] = flatten[m + 1] \o ss[(m + 1) + 1]
        BY <2>11, <3>1
      <3>3. flatten[m + 1] \in Seq(R) /\ ss[(m + 1) + 1] \in Seq(R)
        BY <1>0, <2>13, <3>1
      <3> QED BY <3>2, <3>3
    <2>14. Nat \subseteq V
      <3> HIDE DEF V
      <3> QED BY <2>12, <2>13, SetInduction
    <2>15. n - 1 \in Nat /\ (n - 1) + 1 = n /\ (n - 1) + 1 <= n
      BY <1>0, <1>3
    <2>16. flatten[n] \in Seq(R)
      BY <2>14, <2>15
    <2> QED BY <1>1, <1>3, <2>16
  <1> QED BY <1>2, <1>3

-----------------------------------------------------------------------------
(* Names.                                                                  *)

\* A name in one spelling: a name of the same length, each label in lower case
\* if it is well formed.
LEMMA NormalisedName ==
    ASSUME NEW typed \in DnsName
    PROVE /\ normalise_name(typed) \in DnsName
          /\ Len(normalise_name(typed)) = Len(typed)
          /\ \A i \in 1..Len(typed) :
                normalise_name(typed)[i] = IF typed[i] \in DOMAIN Lower THEN Lower[typed[i]] ELSE typed[i]
          /\ normalise_name(typed) = <<>> <=> typed = <<>>
  <1> DEFINE n == Len(typed)
             f == [i \in 1..n |-> IF typed[i] \in DOMAIN Lower THEN Lower[typed[i]] ELSE typed[i]]
  <1>1. n \in Nat /\ DOMAIN typed = 1..n /\ \A i \in 1..n : typed[i] \in STRING
    BY DEF DnsName
  <1>2. normalise_name(typed) = f
    BY <1>1 DEF normalise_name
  <1>3. \A i \in 1..n : (IF typed[i] \in DOMAIN Lower THEN Lower[typed[i]] ELSE typed[i]) \in STRING
    BY <1>1, LowerAssumption
  <1>4. f \in Seq(STRING) /\ Len(f) = n
    BY <1>1, <1>3
  <1>5. f = <<>> <=> n = 0
    BY <1>1, <1>4, EmptySeq
  <1>6. typed = <<>> <=> n = 0
    BY EmptySeq DEF DnsName
  <1>7. \A i \in 1..n : f[i] = IF typed[i] \in DOMAIN Lower THEN Lower[typed[i]] ELSE typed[i]
    OBVIOUS
  <1> HIDE DEF f
  <1> QED BY <1>2, <1>4, <1>5, <1>6, <1>7 DEF DnsName

\* Whether a name ends with the labels of another.
EndsWith(name, d) ==
    /\ Len(d) <= Len(name)
    /\ \A k \in 1..Len(d) : d[k] = name[Len(name) - Len(d) + k]

\* The names a name lies below are those it ends with that are shorter and not
\* the root.
LEMMA ParentMeans ==
    ASSUME NEW name \in DnsName, NEW d \in DnsName
    PROVE d \in Parents(name) <=> Len(d) > 0 /\ Len(d) < Len(name) /\ EndsWith(name, d)
  <1>1. Len(name) \in Nat /\ Len(d) \in Nat
    BY DEF DnsName
  <1>2. ASSUME d \in Parents(name)
        PROVE Len(d) > 0 /\ Len(d) < Len(name) /\ EndsWith(name, d)
    <2>1. PICK i \in 2..Len(name) : d = SubSeq(name, i, Len(name))
      BY <1>2 DEF Parents
    <2>2. i \in 1..Len(name)
      BY <1>1, <2>1
    <2>3. /\ Len(d) = Len(name) - i + 1
          /\ \A k \in 1..(Len(name) - i + 1) : d[k] = name[i + k - 1]
      BY <2>1, <2>2, SuffixFrom DEF DnsName
    <2>4. \A k \in 1..Len(d) : Len(name) - Len(d) + k = i + k - 1
      BY <1>1, <2>2, <2>3
    <2> QED BY <1>1, <2>1, <2>3, <2>4 DEF EndsWith
  <1>3. ASSUME Len(d) > 0, Len(d) < Len(name), EndsWith(name, d)
        PROVE d \in Parents(name)
    <2> DEFINE i == Len(name) - Len(d) + 1
               e == SubSeq(name, i, Len(name))
    <2>1. i \in 2..Len(name) /\ i \in 1..Len(name)
      BY <1>1, <1>3
    <2>2. /\ e \in Seq(STRING) /\ Len(e) = Len(name) - i + 1
          /\ \A k \in 1..(Len(name) - i + 1) : e[k] = name[i + k - 1]
      BY <2>1, SuffixFrom DEF DnsName
    <2>3. Len(name) - i + 1 = Len(d)
      BY <1>1
    <2>4. \A k \in 1..Len(d) : i + k - 1 = Len(name) - Len(d) + k
      BY <1>1
    <2> HIDE DEF e, i
    <2>5. \A k \in 1..Len(d) : e[k] = d[k]
      BY <1>3, <2>2, <2>3, <2>4 DEF EndsWith
    <2>6. e = d
      BY <2>2, <2>3, <2>5, SeqEqual DEF DnsName
    <2> QED BY <2>1, <2>6 DEF Parents, e
  <1> QED BY <1>2, <1>3

\* A name read backwards.
LEMMA ReverseOf ==
    ASSUME NEW s \in DnsName
    PROVE /\ Reverse(s) \in DnsName /\ Len(Reverse(s)) = Len(s)
          /\ \A i \in 1..Len(s) : Reverse(s)[i] = s[(Len(s) - i) + 1]
  <1>1. Len(s) \in Nat /\ \A i \in 1..Len(s) : (Len(s) - i) + 1 \in 1..Len(s)
    BY DEF DnsName
  <1>2. \A i \in 1..Len(s) : s[(Len(s) - i) + 1] \in STRING
    BY <1>1 DEF DnsName
  <1> QED BY <1>1, <1>2 DEF Reverse, DnsName

\* IsSuffix, which compares the reversed sequences, says what it should.
LEMMA SuffixMeans ==
    ASSUME NEW name \in DnsName, NEW d \in DnsName
    PROVE IsSuffix(d, name) <=> EndsWith(name, d)
  <1> DEFINE a == Reverse(d)
             b == Reverse(name)
             n == Len(d)
             m == Len(name)
  <1>1. n \in Nat /\ m \in Nat
    BY DEF DnsName
  <1>2. /\ a \in Seq(STRING) /\ Len(a) = n /\ \A i \in 1..n : a[i] = d[(n - i) + 1]
        /\ b \in Seq(STRING) /\ Len(b) = m /\ \A i \in 1..m : b[i] = name[(m - i) + 1]
    BY ReverseOf DEF DnsName
  <1>3. IsSuffix(d, name) <=> n <= m /\ SubSeq(a, 1, n) = SubSeq(b, 1, n)
    BY <1>2 DEF IsSuffix, IsPrefix
  <1>4. CASE ~(n <= m)
    BY <1>3, <1>4 DEF EndsWith
  <1>5. CASE n <= m
    <2> HIDE DEF a, b
    <2>1. SubSeq(a, 1, n) = SubSeq(b, 1, n) <=> \A i \in 1..n : a[i] = b[i]
      BY <1>1, <1>2, <1>5
    <2>2. (\A i \in 1..n : a[i] = b[i]) <=> \A i \in 1..n : d[(n - i) + 1] = name[(m - i) + 1]
      <3>1. ASSUME NEW i \in 1..n PROVE a[i] = d[(n - i) + 1] /\ b[i] = name[(m - i) + 1]
        <4>1. i \in 1..m
          BY <1>1, <1>5
        <4> QED BY <1>2, <4>1
      <3> QED BY <3>1
    <2>3. ASSUME \A i \in 1..n : d[(n - i) + 1] = name[(m - i) + 1]
          PROVE \A k \in 1..n : d[k] = name[m - n + k]
      <3> TAKE k \in 1..n
      <3>1. (n - k) + 1 \in 1..n /\ (n - ((n - k) + 1)) + 1 = k /\ (m - ((n - k) + 1)) + 1 = m - n + k
        BY <1>1
      <3> QED BY <2>3, <3>1
    <2>4. ASSUME \A k \in 1..n : d[k] = name[m - n + k]
          PROVE \A i \in 1..n : d[(n - i) + 1] = name[(m - i) + 1]
      <3> TAKE i \in 1..n
      <3>1. (n - i) + 1 \in 1..n /\ m - n + ((n - i) + 1) = (m - i) + 1
        BY <1>1
      <3> QED BY <2>4, <3>1
    <2>5. EndsWith(name, d) <=> \A k \in 1..n : d[k] = name[m - n + k]
      BY <1>5 DEF EndsWith
    <2> QED BY <1>3, <1>5, <2>1, <2>2, <2>3, <2>4, <2>5
  <1> QED BY <1>4, <1>5

\* A suffix of the full length is the name itself.
LEMMA WholeSuffix ==
    ASSUME NEW name \in DnsName, NEW d \in DnsName, EndsWith(name, d), Len(d) = Len(name)
    PROVE d = name
  <1>1. Len(name) \in Nat /\ \A k \in 1..Len(d) : Len(name) - Len(d) + k = k
    BY DEF DnsName
  <1>2. \A k \in 1..Len(d) : d[k] = name[k]
    BY <1>1 DEF EndsWith
  <1> QED BY <1>2, SeqEqual DEF DnsName

\* The names strictly above a name are those it ends with and differs from.
LEMMA ProperSuffix ==
    ASSUME NEW name \in DnsName, NEW d \in DnsName, Len(d) > 0
    PROVE d \in Parents(name) <=> name # d /\ IsSuffix(d, name)
  <1>1. Len(name) \in Nat /\ Len(d) \in Nat
    BY DEF DnsName
  <1>2. ASSUME name # d, EndsWith(name, d) PROVE Len(d) < Len(name)
    <2>1. Len(d) <= Len(name)
      BY <1>2 DEF EndsWith
    <2>2. Len(d) # Len(name)
      BY <1>2, WholeSuffix
    <2> QED BY <1>1, <2>1, <2>2
  <1>3. ASSUME Len(d) < Len(name) PROVE name # d
    BY <1>1, <1>3
  <1> QED BY <1>2, <1>3, ParentMeans, SuffixMeans

-----------------------------------------------------------------------------
(* Addresses: the denylist and the anonymised client.                      *)

\* The powers of two up to the width of an address are positive.
LEMMA PowerPositive ==
    ASSUME NEW n \in Nat, n <= V6Bits
    PROVE 2^n \in Nat \ {0}
  <1> DEFINE S == {m \in Nat : m <= V6Bits => 2^m \in Nat \ {0}}
  <1>1. 0 \in S
    BY PowerAssumption
  <1>2. ASSUME NEW m \in Nat, m \in S PROVE m + 1 \in S
    <2> SUFFICES ASSUME m + 1 <= V6Bits PROVE 2^(m + 1) \in Nat \ {0}
      OBVIOUS
    <2>1. 2^m \in Nat \ {0}
      BY <1>2, AddressAssumption
    <2>2. 2^(m + 1) = 2 * 2^m
      BY PowerAssumption, AddressAssumption
    <2> QED BY <2>1, <2>2
  <1> HIDE DEF S
  <1>3. Nat \subseteq S
    BY <1>1, <1>2, SetInduction
  <1> QED BY <1>3 DEF S

\* The power of a sum is the product of the powers, up to the width of an
\* address.
LEMMA PowerSum ==
    ASSUME NEW i \in Nat, NEW j \in Nat, i + j <= V6Bits
    PROVE 2^(i + j) = 2^i * 2^j
  <1> DEFINE S == {m \in Nat : i + m <= V6Bits => 2^(i + m) = 2^i * 2^m}
  <1>1. 0 \in S
    <2>1. i <= V6Bits /\ i + 0 = i
      BY AddressAssumption
    <2>2. 2^i * 2^0 = 2^i
      BY <2>1, PowerPositive, PowerAssumption
    <2> QED BY <2>1, <2>2
  <1>2. ASSUME NEW m \in Nat, m \in S PROVE m + 1 \in S
    <2> SUFFICES ASSUME i + (m + 1) <= V6Bits PROVE 2^(i + (m + 1)) = 2^i * 2^(m + 1)
      OBVIOUS
    <2>1. 2^(i + m) = 2^i * 2^m
      BY <1>2, AddressAssumption
    <2>2. 2^(m + 1) = 2 * 2^m /\ 2^((i + m) + 1) = 2 * 2^(i + m)
      BY PowerAssumption, AddressAssumption
    <2>3. i + (m + 1) = (i + m) + 1
      OBVIOUS
    <2>4. 2^i \in Nat /\ 2^m \in Nat
      BY PowerPositive, AddressAssumption
    <2> HIDE DEF S
    <2>5. ASSUME NEW x \in Nat, NEW y \in Nat PROVE 2 * (x * y) = x * (2 * y)
      OBVIOUS
    <2> QED BY <2>1, <2>2, <2>3, <2>4, <2>5
  <1> HIDE DEF S
  <1>3. Nat \subseteq S
    BY <1>1, <1>2, SetInduction
  <1> QED BY <1>3 DEF S

\* An address is its family and its bits, and the bits fit the family.
LEMMA AddressShape ==
    ASSUME NEW ip \in Addresses
    PROVE /\ ip = [family |-> ip.family, bits |-> ip.bits]
          /\ ip.family \in {"v4", "v6"}
          /\ ip.bits \in Nat
          /\ ip.family = "v4" => ip = V4(ip.bits) /\ ip.bits < 2^V4Bits
          /\ ip.family = "v6" => ip = V6(ip.bits) /\ ip.bits < 2^V6Bits
  <1>1. 2^V4Bits \in Nat \ {0} /\ 2^V6Bits \in Nat \ {0}
    BY PowerPositive, AddressAssumption
  <1>2. CASE \E b \in 0..(2^V4Bits - 1) : ip = V4(b)
    BY <1>1, <1>2 DEF V4
  <1>3. CASE \E b \in 0..(2^V6Bits - 1) : ip = V6(b)
    BY <1>1, <1>3 DEF V6
  <1> QED BY <1>2, <1>3 DEF Addresses

\* Taking an IPv4-mapped address back to IPv4 gives an address that is not
\* mapped.
LEMMA UnmappedAddress ==
    ASSUME NEW ip \in Addresses
    PROVE Unmapped(ip) \in Addresses /\ ~IsMapped(Unmapped(ip))
  <1>1. 2^V4Bits \in Nat \ {0}
    BY PowerPositive, AddressAssumption
  <1>2. CASE IsMapped(ip)
    <2>1. ip.bits % 2^V4Bits \in 0..(2^V4Bits - 1)
      BY <1>1, AddressShape, DivModInt
    <2> QED BY <1>2, <2>1 DEF Unmapped, Addresses, IsMapped, V4
  <1>3. CASE ~IsMapped(ip)
    BY <1>3 DEF Unmapped
  <1> QED BY <1>2, <1>3

\* Mapping an IPv4 address into IPv6 and taking it back changes nothing.
LEMMA MappedAddress ==
    ASSUME NEW ip \in Addresses, ip.family = "v4"
    PROVE /\ Mapped(ip) \in Addresses /\ Mapped(ip).family = "v6"
          /\ IsMapped(Mapped(ip)) /\ Unmapped(Mapped(ip)) = ip
  <1> DEFINE n == 2^V4Bits
             k == 2^(V6Bits - V4Bits)
             m == n * MappedPrefix + ip.bits
  <1>1. V6Bits - V4Bits \in Nat /\ V4Bits + (V6Bits - V4Bits) = V6Bits
    BY AddressAssumption
  <1>2. n \in Nat \ {0} /\ k \in Nat \ {0} /\ 2^V6Bits = n * k
    BY <1>1, PowerPositive, PowerSum, AddressAssumption
  <1>3. MappedPrefix \in 0..(k - 1) /\ ip.bits \in 0..(n - 1) /\ ip = V4(ip.bits)
    BY <1>2, AddressShape, AddressAssumption
  <1>4. Mapped(ip) = V6(m)
    <2>1. MappedPrefix * 2^V4Bits = n * MappedPrefix
      BY <1>2, <1>3
    <2> QED BY <2>1 DEF Mapped
  <1> HIDE DEF n, k
  <1>5. n * MappedPrefix + n <= n * k /\ n * MappedPrefix \in Nat
    BY <1>2, <1>3, MulLess
  <1>6. m \in 0..(n * k - 1)
    BY <1>2, <1>3, <1>5
  <1>7. m \div n = MappedPrefix /\ m % n = ip.bits
    <2>1. MappedPrefix \in Int
      BY <1>3
    <2>2. (n * MappedPrefix + ip.bits) \div n = MappedPrefix
      BY <1>2, <1>3, <2>1, DivUnique
    <2>3. (n * MappedPrefix + ip.bits) % n = ip.bits
      BY <1>2, <1>3, <2>1, DivUnique
    <2> QED BY <2>2, <2>3
  <1>8. V6(m) \in Addresses
    BY <1>2, <1>6 DEF Addresses
  <1>9. IsMapped(V6(m)) /\ V6(m).family = "v6"
    BY <1>7 DEF IsMapped, V6, n
  <1>10. Unmapped(V6(m)) = V4(m % n)
    BY <1>9 DEF Unmapped, V6, n
  <1> QED BY <1>3, <1>4, <1>7, <1>8, <1>9, <1>10

\* Two addresses of a family look alike when masked exactly if they share the
\* network of that prefix.
LEMMA SameNetwork ==
    ASSUME NEW x \in Addresses, NEW y \in Addresses, x.family = y.family,
           NEW prefix \in 0..Width(x.family)
    PROVE Masked(x, prefix) = Masked(y, prefix) <=> Network(x, prefix) = Network(y, prefix)
  <1> DEFINE d == 2^(Width(x.family) - prefix)
  <1>1. Width(x.family) \in Nat /\ Width(x.family) <= V6Bits
    BY AddressAssumption DEF Width
  <1>2. d \in Nat \ {0}
    <2>1. Width(x.family) - prefix \in Nat /\ Width(x.family) - prefix <= V6Bits
      BY <1>1, AddressAssumption
    <2> QED BY <2>1, PowerPositive
  <1>3. x.bits \in Int /\ y.bits \in Int
    BY AddressShape
  <1>4. /\ Masked(x, prefix) = [x EXCEPT !.bits = x.bits - (x.bits % d)]
        /\ Masked(y, prefix) = [y EXCEPT !.bits = y.bits - (y.bits % d)]
    BY DEF Masked
  <1> HIDE DEF d
  <1>5. Masked(x, prefix) = Masked(y, prefix) <=> x.bits - (x.bits % d) = y.bits - (y.bits % d)
    BY <1>4, AddressShape
  <1>6. Network(x, prefix) = x.bits \div d /\ Network(y, prefix) = y.bits \div d
    BY DEF Network, d
  <1> QED BY <1>2, <1>3, <1>5, <1>6, MaskEqual

\* Masking keeps the family.
LEMMA MaskedFamily ==
    ASSUME NEW x \in Addresses, NEW prefix
    PROVE Masked(x, prefix).family = x.family
  BY AddressShape DEF Masked

\* Two clients look alike in the logs exactly if they are hosts of one network,
\* whichever socket family reported them (ClientId::anonymized).
THEOREM Anonymised ==
    ASSUME NEW a, NEW b, a.ip \in Addresses, b.ip \in Addresses
    PROVE AnonymisedByNetwork(a, b)
  <1> DEFINE x == Unmapped(a.ip)
             y == Unmapped(b.ip)
             kept == IF x.family = "v4" THEN V4Kept ELSE V6Kept
             other == IF y.family = "v4" THEN V4Kept ELSE V6Kept
  <1>1. x \in Addresses /\ y \in Addresses
    BY UnmappedAddress
  <1>2. anonymized(a) = Masked(x, kept) /\ anonymized(b) = Masked(y, other)
    BY DEF anonymized
  <1>3. kept \in 0..Width(x.family)
    BY <1>1, AddressShape, AddressAssumption DEF Width
  <1>4. AnonymisedByNetwork(a, b) <=>
          (anonymized(a) = anonymized(b) <=> x.family = y.family /\ Network(x, kept) = Network(y, kept))
    BY DEF AnonymisedByNetwork
  <1>5. CASE x.family = y.family
    <2>1. kept = other
      BY <1>5
    <2> HIDE DEF x, y, kept, other
    <2> QED BY <1>1, <1>2, <1>3, <1>4, <1>5, <2>1, SameNetwork
  <1>6. CASE x.family # y.family
    <2> HIDE DEF x, y, kept, other
    <2>1. Masked(x, kept) # Masked(y, other)
      BY <1>1, <1>6, MaskedFamily
    <2> QED BY <1>2, <1>4, <1>6, <2>1
  <1> QED BY <1>5, <1>6

\* Whether a parsed denylist entry contains an address of its own family
\* (IpNet::contains).
RuleHits(rule, ip) == rule.ip.family = ip.family /\ Masked(ip, rule.prefix) = rule.ip

\* An entry contains the addresses of its family that share its network.
LEMMA NativeRule ==
    ASSUME NEW x \in Addresses, NEW prefix \in 0..Width(x.family), NEW y \in Addresses
    PROVE RuleHits([ip |-> Masked(x, prefix), prefix |-> prefix], y)
            <=> y.family = x.family /\ Network(y, prefix) = Network(x, prefix)
  <1>1. Masked(x, prefix).family = x.family
    BY MaskedFamily
  <1>2. CASE y.family = x.family
    BY <1>1, <1>2, SameNetwork DEF RuleHits
  <1>3. CASE y.family # x.family
    BY <1>1, <1>3 DEF RuleHits
  <1> QED BY <1>2, <1>3

\* The bits of a network in IPv4, seen in IPv6.
LEMMA Widths ==
    ASSUME NEW p \in 0..V4Bits
    PROVE /\ p + (V6Bits - V4Bits) \in 0..V6Bits
          /\ V6Bits - (p + (V6Bits - V4Bits)) = V4Bits - p
          /\ 2^(V4Bits - p) \in Nat \ {0} /\ 2^p \in Nat \ {0}
          /\ 2^V4Bits \in Nat \ {0} /\ 2^V4Bits = 2^(V4Bits - p) * 2^p
  <1>1. /\ V4Bits - p \in Nat /\ V4Bits - p <= V6Bits /\ p \in Nat /\ p <= V6Bits
        /\ (V4Bits - p) + p = V4Bits /\ V4Bits \in Nat /\ V4Bits <= V6Bits
    BY AddressAssumption
  <1>2. 2^((V4Bits - p) + p) = 2^(V4Bits - p) * 2^p
    BY <1>1, PowerSum
  <1>3. 2^(V4Bits - p) \in Nat \ {0} /\ 2^p \in Nat \ {0} /\ 2^V4Bits \in Nat \ {0}
    BY <1>1, PowerPositive
  <1>4. p + (V6Bits - V4Bits) \in 0..V6Bits /\ V6Bits - (p + (V6Bits - V4Bits)) = V4Bits - p
    BY AddressAssumption
  <1> QED BY <1>1, <1>2, <1>3, <1>4

\* The network of a mapped address is that of the IPv4 address behind the
\* mapping prefix.
LEMMA MappedNetwork ==
    ASSUME NEW x \in Addresses, x.family = "v4", NEW p \in 0..V4Bits
    PROVE Network(Mapped(x), p + (V6Bits - V4Bits)) = 2^p * MappedPrefix + Network(x, p)
  <1> DEFINE d == 2^(V4Bits - p)
             k == 2^p
             q == x.bits \div d
             r == x.bits % d
             M == k * MappedPrefix
  <1>1. d \in Nat \ {0} /\ k \in Nat \ {0} /\ 2^V4Bits = d * k
    BY Widths
  <1>2. MappedPrefix \in Nat /\ x.bits \in Nat
    BY AddressAssumption, AddressShape, PowerPositive
  <1>3. Mapped(x).bits = MappedPrefix * 2^V4Bits + x.bits /\ Mapped(x).family = "v6"
    BY DEF Mapped, V6
  <1>4. /\ Network(x, p) = q
        /\ Network(Mapped(x), p + (V6Bits - V4Bits)) = Mapped(x).bits \div d
    BY <1>3, Widths DEF Network, Width
  <1> HIDE DEF d, k
  <1>5. q \in Int /\ r \in 0..(d - 1) /\ x.bits = d * q + r
    <2> DEFINE u == x.bits
    <2>1. u \in Int
      BY <1>2
    <2> HIDE DEF u
    <2>2. u \div d \in Int /\ u % d \in 0..(d - 1) /\ u = d * (u \div d) + (u % d)
      BY <1>1, <2>1, DivModInt
    <2> QED BY <2>2 DEF u
  <1> HIDE DEF q, r
  <1>6. MappedPrefix * (d * k) + (d * q + r) = d * (k * MappedPrefix + q) + r
    BY <1>1, <1>2, <1>5
  <1>7. M + q \in Int
    BY <1>1, <1>2, <1>5
  <1> HIDE DEF M
  <1>8. (d * (M + q) + r) \div d = M + q
    BY <1>1, <1>5, <1>7, DivUnique
  <1>9. Mapped(x).bits = d * (M + q) + r
    BY <1>1, <1>3, <1>5, <1>6 DEF M
  <1> QED BY <1>4, <1>8, <1>9 DEF M, k

\* An IPv6 address that shares a network inside the mapping prefix with a mapped
\* address is mapped itself.
LEMMA NetworkIsMapped ==
    ASSUME NEW y \in Addresses, y.family = "v6", NEW z \in Addresses, z.family = "v6", IsMapped(z),
           NEW p \in 0..V4Bits,
           Network(y, p + (V6Bits - V4Bits)) = Network(z, p + (V6Bits - V4Bits))
    PROVE IsMapped(y)
  <1> DEFINE d == 2^(V4Bits - p)
             k == 2^p
  <1>1. d \in Nat \ {0} /\ k \in Nat \ {0} /\ 2^V4Bits = d * k
    BY Widths
  <1>2. y.bits \in Int /\ z.bits \in Int
    BY AddressShape
  <1>3. y.bits \div d = z.bits \div d
    BY Widths DEF Network, Width
  <1> HIDE DEF d, k
  <1>4. y.bits \div (d * k) = z.bits \div (d * k)
    <2> DEFINE u == y.bits
               v == z.bits
    <2>1. u \in Int /\ v \in Int /\ u \div d = v \div d
      BY <1>2, <1>3
    <2> HIDE DEF u, v
    <2>2. (u \div d) \div k = u \div (d * k) /\ (v \div d) \div k = v \div (d * k)
      BY <1>1, <2>1, DivDiv
    <2> QED BY <2>1, <2>2 DEF u, v
  <1> QED BY <1>1, <1>4 DEF IsMapped

\* Mapped and Unmapped undo each other.
LEMMA UnmappedInverse ==
    ASSUME NEW z \in Addresses
    PROVE /\ z.family = "v4" => Unmapped(z) = z
          /\ IsMapped(z) => Unmapped(z).family = "v4" /\ Mapped(Unmapped(z)) = z
          /\ z.family = "v6" => Mapped(z) = z
          /\ Unmapped(z).family = "v6" => Unmapped(z) = z /\ z.family = "v6"
          /\ Unmapped(z).family = "v4" => Mapped(Unmapped(z)) = Mapped(z)
  <1>1. z.family = "v4" => Unmapped(z) = z
    BY DEF Unmapped, IsMapped
  <1>2. z.family = "v6" => Mapped(z) = z
    BY DEF Mapped
  <1>3. ASSUME IsMapped(z) PROVE Unmapped(z).family = "v4" /\ Mapped(Unmapped(z)) = z
    <2> DEFINE n == 2^V4Bits
    <2>1. n \in Nat \ {0}
      BY PowerPositive, AddressAssumption
    <2>2. z.bits \in Nat /\ z = V6(z.bits) /\ z.bits \div n = MappedPrefix
      BY <1>3, AddressShape DEF IsMapped
    <2>3. z.bits = n * MappedPrefix + (z.bits % n)
      <3> DEFINE u == z.bits
      <3>1. u \in Int /\ u \div n = MappedPrefix
        BY <2>2
      <3> HIDE DEF n, u
      <3>2. u = n * (u \div n) + (u % n)
        BY <2>1, <3>1, DivModInt
      <3> QED BY <3>1, <3>2 DEF u
    <2>4. Unmapped(z) = V4(z.bits % n)
      BY <1>3 DEF Unmapped
    <2>5. MappedPrefix * n = n * MappedPrefix
      BY <2>1, AddressAssumption
    <2>6. V4(z.bits % n).family = "v4" /\ V4(z.bits % n).bits = z.bits % n
      BY DEF V4
    <2>7. Mapped(V4(z.bits % n)) = V6(z.bits)
      BY <2>3, <2>5, <2>6 DEF Mapped
    <2> QED BY <2>2, <2>4, <2>6, <2>7
  <1>4. ~IsMapped(z) => Unmapped(z) = z
    BY DEF Unmapped
  <1>5. IsMapped(z) => z.family = "v6"
    BY DEF IsMapped
  <1>6. z.family \in {"v4", "v6"}
    BY AddressShape
  <1> QED BY <1>1, <1>2, <1>3, <1>4, <1>5, <1>6

\* An entry of the denylist that parses.
IsEntry(e) == e.ip \in Addresses /\ e.prefix \in Nat /\ EntryParses(e)

\* An entry in IPv4 contains an address, as it is or unmapped, exactly if both
\* lie in one network of the mapped range.
LEMMA EntryInIPv4 ==
    ASSUME NEW x \in Addresses, x.family = "v4", NEW p \in 0..V4Bits, NEW ip \in Addresses
    PROVE LET rule == [ip |-> Masked(x, p), prefix |-> p]
              wide == p + (V6Bits - V4Bits)
          IN  RuleHits(rule, ip) \/ RuleHits(rule, Unmapped(ip))
                <=> Network(Mapped(ip), wide) = Network(Mapped(x), wide)
  <1> DEFINE rule == [ip |-> Masked(x, p), prefix |-> p]
             wide == p + (V6Bits - V4Bits)
             h == Unmapped(ip)
  <1>1. h \in Addresses /\ ~IsMapped(h) /\ h.family \in {"v4", "v6"}
    BY UnmappedAddress, AddressShape
  <1>2. p \in 0..Width(x.family)
    BY DEF Width
  <1>3. RuleHits(rule, ip) <=> ip.family = "v4" /\ Network(ip, p) = Network(x, p)
    BY <1>2, NativeRule
  <1>4. RuleHits(rule, h) <=> h.family = "v4" /\ Network(h, p) = Network(x, p)
    BY <1>1, <1>2, NativeRule
  <1>5. ip.family = "v4" => h = ip
    BY UnmappedInverse
  <1> HIDE DEF rule
  <1>6. CASE h.family = "v4"
    <2>1. Mapped(h) = Mapped(ip)
      BY <1>6, UnmappedInverse
    <2>2. /\ Network(Mapped(h), wide) = 2^p * MappedPrefix + Network(h, p)
          /\ Network(Mapped(x), wide) = 2^p * MappedPrefix + Network(x, p)
      BY <1>1, <1>6, MappedNetwork
    <2>3. Network(h, p) \in Int /\ Network(x, p) \in Int
      <3>1. h.bits \in Int /\ x.bits \in Int
        BY <1>1, AddressShape
      <3>2. 2^(V4Bits - p) \in Nat \ {0}
        BY Widths
      <3>3. \A a \in Int : a \div 2^(V4Bits - p) \in Int
        BY <3>2, DivModInt
      <3> QED BY <1>6, <3>1, <3>3 DEF Network, Width
    <2>4. 2^p * MappedPrefix \in Int
      BY Widths, AddressAssumption
    <2>5. Network(Mapped(h), wide) = Network(Mapped(x), wide) <=> Network(h, p) = Network(x, p)
      <3> DEFINE m == 2^p * MappedPrefix
                 a == Network(h, p)
                 b == Network(x, p)
      <3>1. m \in Int /\ a \in Int /\ b \in Int
        BY <2>3, <2>4
      <3> HIDE DEF m, a, b
      <3>2. m + a = m + b <=> a = b
        BY <3>1
      <3> QED BY <2>2, <3>2 DEF m, a, b
    <2> QED BY <1>3, <1>4, <1>5, <1>6, <2>1, <2>5 DEF rule
  <1>7. CASE h.family = "v6"
    <2>1. h = ip /\ ip.family = "v6" /\ Mapped(ip) = ip
      BY <1>7, UnmappedInverse
    <2>2. Mapped(x) \in Addresses /\ Mapped(x).family = "v6" /\ IsMapped(Mapped(x))
      BY MappedAddress
    <2>3. Network(ip, wide) # Network(Mapped(x), wide)
      BY <1>1, <2>1, <2>2, NetworkIsMapped
    <2> QED BY <1>3, <1>4, <1>7, <2>1, <2>3 DEF rule
  <1> QED BY <1>1, <1>6, <1>7

\* An entry contains exactly the hosts it names, in each of the ways an entry
\* can be written (parse_entry).
LEMMA EntryMeansItsHosts ==
    ASSUME NEW e, IsEntry(e), NEW ip \in Addresses
    PROVE RuleHits(parse_entry(e), ip) \/ RuleHits(parse_entry(e), Unmapped(ip))
            <=> EntryNames(e, ip)
  <1> DEFINE D == V6Bits - V4Bits
  <1>1. /\ e.ip \in Addresses /\ e.prefix \in Nat /\ e.prefix <= Width(e.ip.family)
        /\ e.ip.family \in {"v4", "v6"} /\ ip.family \in {"v4", "v6"}
    BY AddressShape DEF IsEntry, EntryParses
  <1>2. D \in Nat /\ V6Bits \in Nat /\ V4Bits \in Nat /\ V6Bits = V4Bits + D
    BY AddressAssumption
  <1>3. CASE e.ip.family = "v4"
    <2>1. ~IsMapped(e.ip) /\ Width(e.ip.family) = V4Bits
      BY <1>3 DEF IsMapped, Width
    <2>2. parse_entry(e) = [ip |-> Masked(e.ip, e.prefix), prefix |-> e.prefix]
      BY <2>1 DEF parse_entry
    <2>3. e.prefix \in 0..V4Bits
      BY <1>1, <1>2, <2>1
    <2>4. EntryNames(e, ip) <=> Network(Mapped(ip), e.prefix + D) = Network(Mapped(e.ip), e.prefix + D)
      BY <1>3 DEF EntryNames
    <2> QED BY <1>1, <1>3, <2>2, <2>3, <2>4, EntryInIPv4
  <1>4. CASE IsMapped(e.ip) /\ e.prefix >= D
    <2> DEFINE x == Unmapped(e.ip)
               p == e.prefix - D
    <2>1. x \in Addresses /\ x.family = "v4" /\ Mapped(x) = e.ip /\ e.ip.family = "v6"
      BY <1>1, <1>4, UnmappedAddress, UnmappedInverse DEF IsMapped
    <2>2. parse_entry(e) = [ip |-> Masked(x, p), prefix |-> p]
      BY <1>4 DEF parse_entry
    <2>3. Width(e.ip.family) = V6Bits
      BY <2>1 DEF Width
    <2>4. p \in 0..V4Bits /\ p + D = e.prefix /\ ~(e.prefix < D)
      BY <1>1, <1>2, <1>4, <2>3
    <2>5. EntryNames(e, ip) <=> Network(Mapped(ip), e.prefix) = Network(Mapped(e.ip), e.prefix)
      BY <2>1, <2>4 DEF EntryNames
    <2>6. Mapped(e.ip) = e.ip
      BY <2>1 DEF Mapped
    <2> HIDE DEF x, p
    <2>7. RuleHits(parse_entry(e), ip) \/ RuleHits(parse_entry(e), Unmapped(ip))
            <=> Network(Mapped(ip), p + D) = Network(Mapped(x), p + D)
      BY <2>1, <2>2, <2>4, EntryInIPv4
    <2> QED BY <2>1, <2>4, <2>5, <2>6, <2>7
  <1>5. CASE e.ip.family = "v6" /\ ~(IsMapped(e.ip) /\ e.prefix >= D)
    <2>1. parse_entry(e) = [ip |-> Masked(e.ip, e.prefix), prefix |-> e.prefix]
      BY <1>5 DEF parse_entry
    <2>2. e.prefix \in 0..Width(e.ip.family) /\ Width(e.ip.family) = V6Bits
      BY <1>1, <1>2, <1>5 DEF Width
    <2>3. RuleHits(parse_entry(e), ip) <=>
            ip.family = "v6" /\ Network(ip, e.prefix) = Network(e.ip, e.prefix)
      BY <1>1, <1>5, <2>1, <2>2, NativeRule
    <2>4. RuleHits(parse_entry(e), Unmapped(ip)) => RuleHits(parse_entry(e), ip)
      <3>1. Unmapped(ip) \in Addresses
        BY UnmappedAddress
      <3>2. RuleHits(parse_entry(e), Unmapped(ip)) => Unmapped(ip).family = "v6"
        BY <1>1, <1>5, <2>1, <2>2, <3>1, NativeRule
      <3> QED BY <3>2, UnmappedInverse
    <2>5. CASE e.prefix < D
      <3>1. EntryNames(e, ip) <=> ip.family = "v6" /\ Network(ip, e.prefix) = Network(e.ip, e.prefix)
        BY <1>5, <2>5 DEF EntryNames
      <3> QED BY <2>3, <2>4, <3>1
    <2>6. CASE ~(e.prefix < D)
      <3> DEFINE p == e.prefix - D
      <3>1. ~IsMapped(e.ip) /\ p \in 0..V4Bits /\ p + D = e.prefix
        BY <1>1, <1>2, <1>5, <2>2, <2>6
      <3>2. EntryNames(e, ip) <=> Network(Mapped(ip), e.prefix) = Network(e.ip, e.prefix)
        BY <1>5, <2>6 DEF EntryNames, Mapped
      <3>3. CASE ip.family = "v6"
        <4>1. Mapped(ip) = ip
          BY <3>3, UnmappedInverse
        <4> QED BY <2>3, <2>4, <3>2, <3>3, <4>1
      <3>4. CASE ip.family = "v4"
        <4>1. Mapped(ip) \in Addresses /\ Mapped(ip).family = "v6" /\ IsMapped(Mapped(ip))
          BY <3>4, MappedAddress
        <4> HIDE DEF p
        <4>2. Network(Mapped(ip), p + D) # Network(e.ip, p + D)
          BY <1>1, <1>5, <3>1, <4>1, NetworkIsMapped
        <4> QED BY <2>3, <2>4, <3>1, <3>2, <3>4, <4>2
      <3> QED BY <1>1, <3>3, <3>4
    <2> QED BY <2>5, <2>6
  <1>6. IsMapped(e.ip) => e.ip.family = "v6"
    BY DEF IsMapped
  <1> QED BY <1>1, <1>3, <1>4, <1>5, <1>6

\* IpDenylist blocks exactly the hosts its entries name, in any spelling of
\* entry and host, from a single host to everything, for every width of the two
\* families.
THEOREM DenylistExact ==
    ASSUME NEW entries,
           \A i \in DOMAIN entries : entries[i].ip \in Addresses /\ entries[i].prefix \in Nat
    PROVE DenylistCovers(entries)
  <1> SUFFICES ASSUME \A i \in DOMAIN entries : EntryParses(entries[i]), NEW ip \in Addresses
               PROVE denylist_contains(DenylistOf(entries), ip)
                       <=> \E i \in DOMAIN entries : EntryNames(entries[i], ip)
    BY DEF DenylistCovers
  <1>1. \A i \in DOMAIN entries :
          RuleHits(parse_entry(entries[i]), ip) \/ RuleHits(parse_entry(entries[i]), Unmapped(ip))
            <=> EntryNames(entries[i], ip)
    BY EntryMeansItsHosts DEF IsEntry
  <1>2. \A a : Hit(DenylistOf(entries), a) <=> \E i \in DOMAIN entries : RuleHits(parse_entry(entries[i]), a)
    BY DEF Hit, DenylistOf, RuleHits
  <1>3. denylist_contains(DenylistOf(entries), ip) <=>
          Hit(DenylistOf(entries), ip) \/ Hit(DenylistOf(entries), Unmapped(ip))
    BY DEF denylist_contains
  <1> QED BY <1>1, <1>2, <1>3

-----------------------------------------------------------------------------
(* Schedules.                                                              *)

\* A quotient reaches a number exactly if the dividend reaches that multiple.
LEMMA DivAtLeast ==
    ASSUME NEW a \in Int, NEW d \in Nat \ {0}, NEW m \in Int
    PROVE m <= a \div d <=> d * m <= a
  <1> DEFINE q == a \div d
             r == a % d
  <1>1. q \in Int /\ r \in 0..(d - 1) /\ a = d * q + r
    BY DivModInt
  <1> HIDE DEF q, r
  <1>2. d * q \in Int /\ d * m \in Int
    BY <1>1
  <1>3. CASE m = q
    BY <1>1, <1>2, <1>3 DEF q
  <1>4. CASE m < q
    <2>1. d * m + d <= d * q
      BY <1>1, <1>4, MulLess
    <2> QED BY <1>1, <1>2, <1>4, <2>1 DEF q
  <1>5. CASE q < m
    <2>1. d * q + d <= d * m
      BY <1>1, <1>5, MulLess
    <2>2. ~(d * m <= a)
      BY <1>1, <1>2, <2>1
    <2>3. ~(m <= q)
      BY <1>1, <1>5
    <2> QED BY <2>2, <2>3 DEF q
  <1> QED BY <1>1, <1>3, <1>4, <1>5

\* Days, hours and minutes are not empty, and a day is its minutes.
LEMMA DaySizes ==
    /\ DayHours \in Nat \ {0} /\ HourMinutes \in Nat \ {0} /\ MinuteSecs \in Nat \ {0}
    /\ DayMinutes \in Nat \ {0} /\ DaySecs \in Nat \ {0}
    /\ DaySecs = MinuteSecs * DayMinutes
  <1>1. DayHours \in Nat \ {0} /\ HourMinutes \in Nat \ {0} /\ MinuteSecs \in Nat \ {0}
    BY ScheduleAssumption
  <1>2. \A a, b \in Nat \ {0} : a * b \in Nat \ {0} /\ a * b = b * a
    OBVIOUS
  <1>3. DayMinutes \in Nat \ {0}
    BY <1>1, <1>2 DEF DayMinutes
  <1> QED BY <1>1, <1>2, <1>3 DEF DaySecs

\* A time of day that parses lies within the day, an end at most at its end.
LEMMA TimeInDay ==
    ASSUME NEW t \in [h : Int, m : Int]
    PROVE /\ IsTime(t) => parse_hhmm(t) \in 0..(DayMinutes - 1) /\ t # Unset
          /\ IsEnd(t) => parse_hhmm(t) \in 0..DayMinutes /\ t # Unset
  <1>1. ASSUME IsTime(t) PROVE parse_hhmm(t) \in 0..(DayMinutes - 1) /\ t # Unset
    <2>1. t.h \in Int /\ t.h < DayHours /\ 0 <= t.h /\ t.m \in 0..(HourMinutes - 1)
      BY <1>1, DaySizes DEF IsTime
    <2>2. HourMinutes * t.h + HourMinutes <= HourMinutes * DayHours
      BY <2>1, DaySizes, MulLess
    <2>3. t.h * HourMinutes = HourMinutes * t.h /\ HourMinutes * t.h \in Nat
          /\ HourMinutes * DayHours = DayMinutes
      BY <2>1, DaySizes DEF DayMinutes
    <2>4. parse_hhmm(t) = HourMinutes * t.h + t.m
      BY <2>3 DEF parse_hhmm
    <2>5. parse_hhmm(t) \in 0..(DayMinutes - 1)
      BY <2>1, <2>2, <2>3, <2>4, DaySizes
    <2>6. Unset.h = -1
      BY DEF Unset
    <2> QED BY <2>1, <2>5, <2>6
  <1>2. ASSUME t = [h |-> DayHours, m |-> 0] PROVE parse_hhmm(t) \in 0..DayMinutes /\ t # Unset
    <2>1. t.h = DayHours /\ t.m = 0
      BY <1>2
    <2>2. parse_hhmm(t) = DayMinutes
      BY <2>1, DaySizes DEF parse_hhmm, DayMinutes
    <2>3. Unset.h = -1
      BY DEF Unset
    <2> QED BY <2>1, <2>2, <2>3, DaySizes
  <1>3. IsEnd(t) => IsTime(t) \/ t = [h |-> DayHours, m |-> 0]
    BY DEF IsEnd
  <1> QED BY <1>1, <1>2, <1>3, DaySizes

\* A second lies between two minutes of a day exactly if that is its day and its
\* minute does.
LEMMA MinuteBetween ==
    ASSUME NEW local \in Int, NEW d \in Int, NEW x \in 0..DayMinutes, NEW y \in 0..DayMinutes
    PROVE Between(local, d * DaySecs + x * MinuteSecs, d * DaySecs + y * MinuteSecs)
            <=> d = local \div DaySecs /\ x <= MinuteOfDay(local) /\ MinuteOfDay(local) < y
  <1> DEFINE D == local \div DaySecs
             r == local % DaySecs
             n == r \div MinuteSecs
  <1>1. D \in Int /\ r \in 0..(DaySecs - 1) /\ local = DaySecs * D + r
    BY DaySizes, DivModInt
  <1>2. n = MinuteOfDay(local)
    BY DEF MinuteOfDay
  <1> HIDE DEF D, r
  <1>3. n \in Int
    BY <1>1, DaySizes, DivModInt
  <1>4. x <= n <=> MinuteSecs * x <= r
    BY <1>1, DaySizes, DivAtLeast
  <1>5. y <= n <=> MinuteSecs * y <= r
    BY <1>1, DaySizes, DivAtLeast
  <1> HIDE DEF n
  <1>6. /\ MinuteSecs * x \in Nat /\ MinuteSecs * y \in Nat
        /\ MinuteSecs * y <= DaySecs
        /\ x * MinuteSecs = MinuteSecs * x /\ y * MinuteSecs = MinuteSecs * y
        /\ d * DaySecs = DaySecs * d /\ DaySecs * d \in Int
    <2>1. MinuteSecs * y <= MinuteSecs * DayMinutes
      <3>1. CASE y < DayMinutes
        <4>1. MinuteSecs * y + MinuteSecs <= MinuteSecs * DayMinutes
          BY <3>1, DaySizes, MulLess
        <4> QED BY <4>1, DaySizes
      <3> QED BY <3>1, DaySizes
    <2> QED BY <2>1, DaySizes
  <1>7. CASE d = D
    <2>1. Between(local, d * DaySecs + x * MinuteSecs, d * DaySecs + y * MinuteSecs)
            <=> MinuteSecs * x <= r /\ ~(MinuteSecs * y <= r)
      BY <1>1, <1>6, <1>7, DaySizes DEF Between
    <2>2. ~(y <= n) <=> n < y
      BY <1>3
    <2> QED BY <1>2, <1>4, <1>5, <1>7, <2>1, <2>2 DEF D
  <1>8. CASE d < D
    <2>1. DaySecs * d + DaySecs <= DaySecs * D
      BY <1>1, <1>8, DaySizes, MulLess
    <2>2. ~(local < d * DaySecs + y * MinuteSecs)
      BY <1>1, <1>6, <2>1, DaySizes
    <2> QED BY <1>1, <1>8, <2>2 DEF Between, D
  <1>9. CASE D < d
    <2>1. DaySecs * D + DaySecs <= DaySecs * d
      BY <1>1, <1>9, DaySizes, MulLess
    <2>2. ~(d * DaySecs + x * MinuteSecs <= local)
      BY <1>1, <1>6, <2>1, DaySizes
    <2> QED BY <1>1, <1>9, <2>2 DEF Between, D
  <1> QED BY <1>1, <1>7, <1>8, <1>9

\* The local day of a second is among those the definition of a window looks at,
\* whatever the offset.
LEMMA LocalDay ==
    ASSUME NEW secs \in Nat, NEW offset \in -DayMinutes..DayMinutes
    PROVE /\ secs + offset * MinuteSecs \in Int
          /\ (secs + offset * MinuteSecs) \div DaySecs \in -3..((secs \div DaySecs) + 3)
  <1> DEFINE o == MinuteSecs * offset
             local == secs + o
             q == secs \div DaySecs
             r == secs % DaySecs
  <1>1. o \in Int /\ offset * MinuteSecs = o
    BY DaySizes
  <1>2. -DaySecs <= o /\ o <= DaySecs
    <2>1. offset \in Int /\ -DayMinutes <= offset /\ offset <= DayMinutes /\ -DayMinutes \in Int
      BY DaySizes
    <2>2. offset = DayMinutes \/ MinuteSecs * offset + MinuteSecs <= MinuteSecs * DayMinutes
      BY <2>1, DaySizes, MulLess
    <2>3. offset = -DayMinutes \/ MinuteSecs * (-DayMinutes) + MinuteSecs <= MinuteSecs * offset
      BY <2>1, DaySizes, MulLess
    <2>4. MinuteSecs * (-DayMinutes) = -DaySecs
      BY DaySizes
    <2> QED BY <1>1, <2>2, <2>3, <2>4, DaySizes
  <1>3. q \in Int /\ r \in 0..(DaySecs - 1) /\ secs = DaySecs * q + r /\ 0 <= q
    <2>0. secs \in Int
      OBVIOUS
    <2>1. q \in Int /\ r \in 0..(DaySecs - 1) /\ secs = DaySecs * q + r
      BY <2>0, DaySizes, DivModInt
    <2>2. 0 <= q
      BY DaySizes, DivAtLeast
    <2> QED BY <2>1, <2>2
  <1> HIDE DEF o, q, r
  <1>4. local \in Int /\ local \div DaySecs \in Int
    BY <1>1, DaySizes, DivModInt
  <1>5. -3 <= local \div DaySecs
    <2>1. DaySecs * (-3) <= local
      BY <1>1, <1>2, DaySizes
    <2> HIDE DEF local
    <2> QED BY <1>4, <2>1, DaySizes, DivAtLeast
  <1>6. ~(q + 4 <= local \div DaySecs)
    <2>1. DaySecs * (q + 4) = DaySecs * q + DaySecs * 4 /\ DaySecs * q \in Int
      BY <1>3, DaySizes
    <2>2. ~(DaySecs * (q + 4) <= local)
      BY <1>1, <1>2, <1>3, <2>1, DaySizes
    <2> HIDE DEF local
    <2>3. q + 4 \in Int
      BY <1>3
    <2> QED BY <1>4, <2>2, <2>3, DaySizes, DivAtLeast
  <1>7. local \div DaySecs \in -3..(q + 3)
    <2> DEFINE l == local \div DaySecs
    <2> HIDE DEF l
    <2>1. l \in Int /\ -3 <= l /\ ~(q + 4 <= l)
      BY <1>4, <1>5, <1>6 DEF l
    <2>2. l \in -3..(q + 3)
      BY <1>3, <2>1
    <2> QED BY <2>2 DEF l
  <1> QED BY <1>1, <1>4, <1>7 DEF q

\* The minute of a day lies within the day.
LEMMA SpanOfDay ==
    ASSUME NEW local \in Int
    PROVE MinuteOfDay(local) \in 0..(DayMinutes - 1)
  <1> DEFINE r == local % DaySecs
  <1>1. r \in 0..(DaySecs - 1)
    BY DaySizes, DivModInt
  <1> HIDE DEF r
  <1>2. r \div MinuteSecs \in Int
    BY <1>1, DaySizes, DivModInt
  <1>3. 0 <= r \div MinuteSecs <=> MinuteSecs * 0 <= r
    BY <1>1, DaySizes, DivAtLeast
  <1>4. DayMinutes <= r \div MinuteSecs <=> MinuteSecs * DayMinutes <= r
    BY <1>1, DaySizes, DivAtLeast
  <1>5. 0 <= r \div MinuteSecs /\ ~(DayMinutes <= r \div MinuteSecs)
    BY <1>1, <1>3, <1>4, DaySizes
  <1> QED BY <1>2, <1>5, DaySizes DEF MinuteOfDay, r

\* A valid window has an offset of at most a day and two different times within
\* the day.
LEMMA WindowTimes ==
    ASSUME NEW w \in WindowRecord, WindowValid(w)
    PROVE /\ w.offset \in -DayMinutes..DayMinutes
          /\ w.start # Unset =>
                /\ parse_hhmm(w.start) \in 0..(DayMinutes - 1)
                /\ parse_hhmm(w.end) \in 0..DayMinutes
                /\ parse_hhmm(w.start) # parse_hhmm(w.end)
  <1>1. w.start \in [h : Int, m : Int] /\ w.end \in [h : Int, m : Int]
    BY DEF WindowRecord
  <1>2. w.start = Unset \/ (IsTime(w.start) /\ IsEnd(w.end) /\ parse_hhmm(w.start) # parse_hhmm(w.end))
    BY DEF WindowValid
  <1>3. w.offset \in -DayMinutes..DayMinutes
    BY DEF WindowValid
  <1> QED BY <1>1, <1>2, <1>3, TimeInDay

\* A window matches a second exactly if one of the intervals it was written for
\* contains it, across midnight and for every offset (window_matches).
LEMMA WindowAsMeant ==
    ASSUME NEW w \in WindowRecord, WindowValid(w), NEW secs \in Nat
    PROVE window_matches(CompileWindow(w), secs) <=> Meant(w, secs)
  <1> DEFINE local == secs + w.offset * MinuteSecs
             D == local \div DaySecs
             start == parse_hhmm(w.start)
             end == parse_hhmm(w.end)
             n == MinuteOfDay(local)
             Days == {d \in -3..((secs \div DaySecs) + 3) : (d + 3) % 7 \in parse_days(w.days)}
             At(d, minutes) == d * DaySecs + minutes * MinuteSecs
             In(d) == IF w.start = Unset THEN Between(local, At(d, 0), At(d + 1, 0))
                      ELSE IF start < end THEN Between(local, At(d, start), At(d, end))
                      ELSE Between(local, At(d, start), At(d + 1, 0)) \/ Between(local, At(d, 0), At(d, end))
  <1>1. local \in Int /\ D \in -3..((secs \div DaySecs) + 3)
    BY WindowTimes, LocalDay
  <1>2. Meant(w, secs) <=> \E d \in Days : In(d)
    BY DEF Meant
  <1>3. window_matches(CompileWindow(w), secs) <=>
          /\ (D + 3) % 7 \in parse_days(w.days)
          /\ \/ w.start = Unset
             \/ IF start < end THEN start <= n /\ n < end ELSE start <= n \/ n < end
    BY DEF window_matches, CompileWindow, LocalSecs, Weekday, InSpan
  <1>4. n \in 0..(DayMinutes - 1) /\ DayMinutes \in Nat
    BY <1>1, SpanOfDay, DaySizes
  <1> HIDE DEF local, n
  <1>5. ASSUME NEW d \in Int PROVE At(d + 1, 0) = At(d, DayMinutes)
    <2>1. (d + 1) * DaySecs = d * DaySecs + DaySecs /\ d * DaySecs \in Int
      BY DaySizes
    <2>2. DayMinutes * MinuteSecs = DaySecs /\ 0 * MinuteSecs = 0
      BY DaySizes
    <2> QED BY <2>1, <2>2, DaySizes
  <1>6. ASSUME NEW d \in Int, NEW x \in 0..DayMinutes, NEW y \in 0..DayMinutes
        PROVE Between(local, At(d, x), At(d, y)) <=> d = D /\ x <= n /\ n < y
    BY <1>1, MinuteBetween DEF n
  <1> HIDE DEF D, At
  <1>7. ASSUME NEW d \in Int
        PROVE In(d) <=> /\ d = D
                        /\ \/ w.start = Unset
                           \/ IF start < end THEN start <= n /\ n < end ELSE start <= n \/ n < end
    <2>1. 0 \in 0..DayMinutes /\ DayMinutes \in 0..DayMinutes /\ 0 <= n /\ n < DayMinutes
      BY <1>4
    <2>2. CASE w.start = Unset
      <3>1. In(d) <=> Between(local, At(d, 0), At(d, DayMinutes))
        BY <1>5, <2>2
      <3> QED BY <1>6, <2>1, <2>2, <3>1
    <2>3. CASE w.start # Unset
      <3>1. start \in 0..DayMinutes /\ end \in 0..DayMinutes
        BY <2>3, WindowTimes, DaySizes
      <3> HIDE DEF start, end
      <3>2. CASE start < end
        BY <1>6, <2>3, <3>1, <3>2
      <3>3. CASE ~(start < end)
        <4>1. In(d) <=> Between(local, At(d, start), At(d, DayMinutes)) \/ Between(local, At(d, 0), At(d, end))
          BY <1>5, <2>3, <3>3
        <4>2. Between(local, At(d, start), At(d, DayMinutes)) <=> d = D /\ start <= n
          BY <1>6, <2>1, <3>1
        <4>3. Between(local, At(d, 0), At(d, end)) <=> d = D /\ n < end
          BY <1>6, <2>1, <3>1
        <4> QED BY <2>3, <3>3, <4>1, <4>2, <4>3
      <3> QED BY <3>2, <3>3
    <2> QED BY <2>2, <2>3
  <1>8. D \in Int /\ \A d \in Days : d \in Int
    <2>1. secs \div DaySecs \in Int
      BY DaySizes, DivModInt
    <2> QED BY <1>1, <2>1
  <1>9. D \in Days <=> (D + 3) % 7 \in parse_days(w.days)
    BY <1>1
  <1> HIDE DEF In, Days, start, end
  <1> QED BY <1>2, <1>3, <1>7, <1>8, <1>9

\* BlockSchedule blocks a client at exactly the seconds its windows name, for
\* days of any length; without a believable clock a client that has any window
\* is blocked (is_blocked_at_conservative).
THEOREM BlockedExactly ==
    ASSUME NEW windows \in Seq({w \in WindowRecord : WindowValid(w)}), NEW secs \in Nat
    PROVE BlockedAsWritten(windows, secs)
  <1>0. \A i \in DOMAIN windows : windows[i] \in WindowRecord /\ WindowValid(windows[i])
    OBVIOUS
  <1>4. windows # <<>> <=> DOMAIN windows # {}
    BY EmptyOrFirst
  <1> DEFINE s == compile(windows)
  <1>1. DOMAIN s = DOMAIN windows /\ \A i \in DOMAIN windows : s[i] = CompileWindow(windows[i])
    BY DEF compile
  <1> HIDE DEF s
  <1>2. is_blocked_at(s, secs) <=> \E i \in DOMAIN windows : Meant(windows[i], secs)
    BY <1>0, <1>1, WindowAsMeant DEF is_blocked_at
  <1>3. s # <<>> <=> windows # <<>>
    <2>1. s = <<>> => DOMAIN s = {}
      OBVIOUS
    <2>2. DOMAIN s = {} => s = <<>>
      BY DEF s, compile
    <2> QED BY <1>1, <1>4, <2>1, <2>2
  <1> QED BY <1>2, <1>3 DEF BlockedAsWritten, is_blocked_at_conservative, s

\* A window and the same one turned round split each of their days: no second is
\* lost or blocked twice at a boundary (window_matches).
THEOREM DayTiled ==
    ASSUME NEW w \in WindowRecord, NEW secs \in Nat
    PROVE WindowsTileTheDay(w, secs)
  <1> DEFINE local == LocalSecs(w, secs)
             n == MinuteOfDay(local)
             s == parse_hhmm(w.start)
             e == parse_hhmm(w.end)
             t == Turned(w)
  <1> SUFFICES ASSUME WindowValid(w), WindowValid(t), w.start # Unset
               PROVE /\ is_blocked_at(compile(<<w>>), secs) \/ is_blocked_at(compile(<<t>>), secs)
                            <=> Weekday(local) \in parse_days(w.days)
                     /\ ~(is_blocked_at(compile(<<w>>), secs) /\ is_blocked_at(compile(<<t>>), secs))
    BY DEF WindowsTileTheDay
  <1>1. /\ t \in WindowRecord /\ t.start = w.end /\ t.end = w.start
        /\ t.days = w.days /\ t.offset = w.offset
    BY DEF Turned, WindowRecord
  <1>2. w.end # Unset
    <2>1. w.end \in [h : Int, m : Int]
      BY DEF WindowRecord
    <2>2. IsEnd(w.end)
      BY DEF WindowValid
    <2> QED BY <2>1, <2>2, TimeInDay
  <1>3. s \in Int /\ e \in Int /\ s # e
    BY WindowTimes, DaySizes
  <1>4. n \in Int
    <2>1. local \in Int
      BY WindowTimes, LocalDay DEF LocalSecs
    <2> QED BY <2>1, SpanOfDay
  <1>5. \A v : is_blocked_at(compile(<<v>>), secs) <=> window_matches(CompileWindow(v), secs)
    BY DEF is_blocked_at, compile
  <1>6. window_matches(CompileWindow(w), secs) <=>
          Weekday(local) \in parse_days(w.days) /\ IF s < e THEN s <= n /\ n < e ELSE s <= n \/ n < e
    BY DEF window_matches, CompileWindow, InSpan, LocalSecs
  <1>7. window_matches(CompileWindow(t), secs) <=>
          Weekday(local) \in parse_days(w.days) /\ IF e < s THEN e <= n /\ n < s ELSE e <= n \/ n < s
    BY <1>1, <1>2 DEF window_matches, CompileWindow, InSpan, LocalSecs
  <1> HIDE DEF n, s, e
  <1>8. (IF s < e THEN s <= n /\ n < e ELSE s <= n \/ n < e)
          <=> ~(IF e < s THEN e <= n /\ n < s ELSE e <= n \/ n < s)
    BY <1>3, <1>4
  <1> QED BY <1>5, <1>6, <1>7, <1>8

-----------------------------------------------------------------------------
(* Blocklists.                                                             *)

\* The formats detect_format tells apart.
Kinds == {"hosts", "plain", "rpz", "adguard"}

\* Every list is read in one of the formats.
LEMMA FormatKnown ==
    ASSUME NEW lines \in Seq(LineRecord)
    PROVE detect_format(lines) \in Kinds
  <1> DEFINE content == {i \in DOMAIN lines : lines[i].kind # "comment"}
  <1>1. detect_format(lines) = IF content = {} THEN "plain" ELSE lines[Min(content)].kind
    BY DEF detect_format
  <1>2. CASE content = {}
    BY <1>1, <1>2 DEF Kinds
  <1>3. CASE content # {}
    <2>1. content \subseteq Nat
      OBVIOUS
    <2> HIDE DEF content
    <2>2. Min(content) \in content
      BY <1>3, <2>1, LeastOf
    <2> DEFINE m == Min(content)
    <2> HIDE DEF m
    <2>3. m \in DOMAIN lines /\ lines[m].kind # "comment"
      BY <2>2 DEF content, m
    <2>4. lines[m] \in LineRecord
      BY <2>3
    <2>5. lines[m].kind \in Kinds
      BY <2>3, <2>4 DEF LineRecord, Kinds
    <2> QED BY <1>1, <1>3, <2>5 DEF m
  <1> QED BY <1>2, <1>3

\* A name of two labels or more is accepted exactly if it is well formed, to
\* block and to allow.
LEMMA LongEntry ==
    ASSUME NEW d \in DnsName, NEW name \in DnsName, Len(name) >= 2, normalise_name(d) = name
    PROVE /\ validate_block_entry(d) <=> WellFormed(d)
          /\ validate_allow_entry(d) <=> WellFormed(d)
          /\ Len(d) >= 2
  <1>1. Len(d) = Len(name) /\ Len(name) \in Nat
    BY NormalisedName DEF DnsName
  <1>2. d # <<>> /\ Len(d) >= 2
    <2>1. Len(d) >= 2
      BY <1>1
    <2>2. Len(<<>>) = 0
      OBVIOUS
    <2> QED BY <1>1, <2>1, <2>2
  <1> QED BY <1>2 DEF validate_block_entry, validate_allow_entry, validate_and_normalize

\* No name of two labels is skipped as a host file's own.
LEMMA NotSkipped ==
    ASSUME NEW d \in DnsName, Len(d) >= 2
    PROVE normalise_name(d) \notin AlwaysSkipped
  <1>1. Len(normalise_name(d)) = Len(d) /\ Len(d) \in Nat
    BY NormalisedName DEF DnsName
  <1>2. ~(Len(d) = 1)
    BY <1>1
  <1> QED BY <1>1, <1>2, SkippedAssumption

\* The block entries that are kept are the well-formed names of two labels or
\* more.
LEMMA BlockEntry ==
    ASSUME NEW d \in DnsName
    PROVE validate_block_entry(d) <=> WellFormed(d) /\ Len(d) >= 2
  <1>1. Len(d) >= 2 => d # <<>>
    <2>1. Len(<<>>) = 0
      OBVIOUS
    <2> QED BY <2>1
  <1> QED BY <1>1 DEF validate_block_entry, validate_and_normalize

\* The entries a hosts line leaves.
LEMMA ExactMeans ==
    ASSUME NEW names, names \subseteq DnsName
    PROVE ExactEntries(names) = {Entry("exact", d) : d \in {x \in names : WellFormed(x) /\ Len(x) >= 2}}
  <1>1. \A x \in names : validate_block_entry(x) /\ normalise_name(x) \notin AlwaysSkipped
                            <=> WellFormed(x) /\ Len(x) >= 2
    BY BlockEntry, NotSkipped
  <1> QED BY <1>1 DEF ExactEntries

\* The parts of an entry.
LEMMA EntryFields ==
    ASSUME NEW what, NEW d
    PROVE Entry(what, d).what = what /\ Entry(what, d).name = normalise_name(d)
  BY DEF Entry

\* The entries an exception leaves.
LEMMA AllowMeans ==
    ASSUME NEW line \in LineRecord
    PROVE AllowEntries(line) = {Entry("allow", d) : d \in {x \in ToSet(line.names) : WellFormed(x) /\ Len(x) >= 2}}
  <1>0. ToSet(line.names) \subseteq DnsName
    BY DEF LineRecord, ToSet
  <1>1. \A x \in ToSet(line.names) : validate_allow_entry(x) <=> validate_block_entry(x)
    BY DEF validate_allow_entry, validate_block_entry
  <1>2. \A x \in ToSet(line.names) : validate_allow_entry(x) <=> WellFormed(x) /\ Len(x) >= 2
    BY <1>0, <1>1, BlockEntry
  <1> QED BY <1>2 DEF AllowEntries

\* What a line makes a parser allow.
LEMMA LineAllows ==
    ASSUME NEW line \in LineRecord, NEW fmt \in Kinds, NEW name \in DnsName, Len(name) >= 2
    PROVE (\E e \in ParseLine(line, fmt) : e.what = "allow" /\ e.name = name) <=>
            /\ line.kind = fmt /\ ~line.long
            /\ line.kind \in {"rpz", "adguard"} /\ line.says = "allow"
            /\ \E d \in ToSet(line.names) : WellFormed(d) /\ normalise_name(d) = name
  <1> DEFINE good == {x \in ToSet(line.names) : WellFormed(x) /\ Len(x) >= 2}
             Here(S) == \E e \in S : e.what = "allow" /\ e.name = name
             named == \E d \in ToSet(line.names) : WellFormed(d) /\ normalise_name(d) = name
             exact == ExactEntries(ToSet(line.names))
             wild == {x \in ToSet(line.names) : x # <<>> /\ x[1] = "*"}
             below == {Entry("parent", Tail(d)) : d \in {x \in wild : validate_block_entry(Tail(x))}}
             own == ExactEntries(ToSet(line.names) \ wild)
             widened == {[e EXCEPT !.what = "parent"] : e \in exact}
  <1>1. ToSet(line.names) \subseteq DnsName
    BY DEF LineRecord, ToSet
  <1>2. Here(AllowEntries(line)) <=> named
    <2>1. \A d \in ToSet(line.names) : normalise_name(d) = name => Len(d) >= 2
      BY <1>1, LongEntry
    <2>2. Here({Entry("allow", d) : d \in good}) <=> \E d \in good : normalise_name(d) = name
      <3> HIDE DEF good
      <3>1. \A d \in good : Entry("allow", d).what = "allow" /\ Entry("allow", d).name = normalise_name(d)
        BY EntryFields
      <3> QED BY <3>1
    <2> QED BY <2>1, <2>2, AllowMeans
  <1>3. \A names : names \subseteq DnsName => ~Here(ExactEntries(names))
    <2>1. \A names : \A e \in ExactEntries(names) : e.what = "exact"
      BY EntryFields DEF ExactEntries
    <2> QED BY <2>1
  <1>4. ~Here(exact) /\ ~Here(own)
    BY <1>1, <1>3
  <1>5. ~Here(below)
    BY EntryFields
  <1>6. ~Here(widened)
    <2>1. \A e \in exact : [e EXCEPT !.what = "parent"].what = "parent"
      BY DEF ExactEntries, Entry
    <2> QED BY <2>1
  <1>7. ~Here({})
    OBVIOUS
  <1>8. Here(parse_rpz(line)) <=> line.says = "allow" /\ named
    <2>1. parse_rpz(line) = IF line.says = "allow" THEN AllowEntries(line)
                            ELSE IF line.says = "block" THEN below \cup own ELSE {}
      BY DEF parse_rpz
    <2> HIDE DEF below, own, named
    <2>2. ~Here(below \cup own)
      BY <1>4, <1>5
    <2>3. CASE line.says = "allow"
      BY <1>2, <2>1, <2>3
    <2>4. CASE line.says = "block"
      BY <2>1, <2>2, <2>4
    <2>5. CASE line.says # "allow" /\ line.says # "block"
      BY <1>7, <2>1, <2>5
    <2> QED BY <2>3, <2>4, <2>5
  <1>9. Here(parse_adguard(line)) <=> line.says = "allow" /\ named
    <2>1. parse_adguard(line) = IF line.says = "allow" THEN AllowEntries(line)
                                ELSE IF line.says = "block" THEN exact \cup widened ELSE {}
      BY DEF parse_adguard
    <2> HIDE DEF exact, widened, named
    <2>2. ~Here(exact \cup widened)
      BY <1>4, <1>6
    <2>3. CASE line.says = "allow"
      BY <1>2, <2>1, <2>3
    <2>4. CASE line.says = "block"
      BY <2>1, <2>2, <2>4
    <2>5. CASE line.says # "allow" /\ line.says # "block"
      BY <1>7, <2>1, <2>5
    <2> QED BY <2>3, <2>4, <2>5
  <1> HIDE DEF named, exact
  <1>10. CASE line.long \/ line.kind # fmt
    <2>1. ParseLine(line, fmt) = {}
      BY <1>10 DEF ParseLine
    <2> QED BY <1>10, <2>1
  <1>11. CASE ~line.long /\ line.kind = fmt
    <2>1. CASE fmt = "hosts" \/ fmt = "plain"
      <3>1. ParseLine(line, fmt) = exact
        BY <1>11, <2>1 DEF ParseLine, exact
      <3> QED BY <1>4, <1>11, <2>1, <3>1
    <2>2. CASE fmt = "rpz"
      <3>1. ParseLine(line, fmt) = parse_rpz(line)
        BY <1>11, <2>2 DEF ParseLine
      <3> QED BY <1>8, <1>11, <2>2, <3>1 DEF named
    <2>3. CASE fmt = "adguard"
      <3>1. ParseLine(line, fmt) = parse_adguard(line)
        BY <1>11, <2>3 DEF ParseLine
      <3> QED BY <1>9, <1>11, <2>3, <3>1 DEF named
    <2> QED BY <2>1, <2>2, <2>3 DEF Kinds
  <1> QED BY <1>10, <1>11

\* What a line makes a parser block, by itself or from above.
LEMMA LineBlocks ==
    ASSUME NEW line \in LineRecord, NEW fmt \in Kinds, NEW name \in DnsName, Len(name) >= 2
    PROVE (\E e \in ParseLine(line, fmt) : \/ e.what = "exact" /\ e.name = name
                                           \/ e.what = "parent" /\ e.name \in Parents(name)) <=>
            line.kind = fmt /\ ~line.long /\ LineNames(line, name)
  <1> DEFINE all == ToSet(line.names)
             good == {x \in all : WellFormed(x) /\ Len(x) >= 2}
             Here(S) == \E e \in S : \/ e.what = "exact" /\ e.name = name
                                     \/ e.what = "parent" /\ e.name \in Parents(name)
             wild == {x \in all : x # <<>> /\ x[1] = "*"}
             below == {Entry("parent", Tail(d)) : d \in {x \in wild : validate_block_entry(Tail(x))}}
             own == ExactEntries(all \ wild)
             exact == ExactEntries(all)
             widened == {[e EXCEPT !.what = "parent"] : e \in exact}
             Above(d) == name # normalise_name(d) /\ IsSuffix(normalise_name(d), name)
             Wild(d) == Len(d) > 2 /\ Len(name) >= Len(d) /\ IsSuffix(normalise_name(Tail(d)), name)
  <1>1. all \subseteq DnsName
    BY DEF LineRecord, ToSet
  <1>2. \A names : names \subseteq all =>
           (Here(ExactEntries(names)) <=> \E d \in names : d \in good /\ normalise_name(d) = name)
    <2> SUFFICES ASSUME NEW names, names \subseteq all
                 PROVE Here(ExactEntries(names)) <=> \E d \in names : d \in good /\ normalise_name(d) = name
      OBVIOUS
    <2> DEFINE some == {x \in names : WellFormed(x) /\ Len(x) >= 2}
    <2>1. ExactEntries(names) = {Entry("exact", d) : d \in some}
      BY <1>1, ExactMeans
    <2>2. \A d \in names : d \in some <=> d \in good
      OBVIOUS
    <2> HIDE DEF some, good, all
    <2>3. \A d \in some : Entry("exact", d).what = "exact" /\ Entry("exact", d).name = normalise_name(d)
      BY EntryFields
    <2>4. some \subseteq names
      BY DEF some
    <2> QED BY <2>1, <2>2, <2>3, <2>4
  <1>3. Here(exact) <=> \E d \in good : normalise_name(d) = name
    BY <1>2
  <1>4. Here(own) <=> \E d \in good : d \notin wild /\ normalise_name(d) = name
    <2>1. all \ wild \subseteq all /\ good \subseteq all
      OBVIOUS
    <2>2. Here(own) <=> \E d \in all \ wild : d \in good /\ normalise_name(d) = name
      BY <1>2, <2>1
    <2> HIDE DEF all, wild, good, own
    <2> QED BY <2>1, <2>2
  <1>5. Here(widened) <=> \E d \in good : Above(d)
    <2>1. exact = {Entry("exact", d) : d \in good}
      BY <1>1, ExactMeans
    <2>2. widened = {Entry("parent", d) : d \in good}
      <3>1. \A d : [Entry("exact", d) EXCEPT !.what = "parent"] = Entry("parent", d)
        BY DEF Entry
      <3> HIDE DEF good, exact
      <3> QED BY <2>1, <3>1
    <2>3. \A d \in good : normalise_name(d) \in Parents(name) <=> Above(d)
      <3> TAKE d \in good
      <3>1. d \in DnsName /\ Len(d) >= 2
        BY <1>1
      <3>2. normalise_name(d) \in DnsName /\ Len(normalise_name(d)) = Len(d)
        BY <3>1, NormalisedName
      <3>3. Len(normalise_name(d)) > 0
        <4>1. Len(d) \in Nat
          BY <3>1 DEF DnsName
        <4> QED BY <3>1, <3>2, <4>1
      <3> QED BY <3>2, <3>3, ProperSuffix
    <2> HIDE DEF good, widened
    <2>4. \A d \in good : Entry("parent", d).what = "parent" /\ Entry("parent", d).name = normalise_name(d)
      BY EntryFields
    <2> QED BY <2>2, <2>3, <2>4
  <1>6. Here(below) <=> \E d \in good : d \in wild /\ Wild(d)
    <2> DEFINE deep == {x \in wild : validate_block_entry(Tail(x))}
    <2>1. ASSUME NEW d \in wild
          PROVE (d \in deep /\ normalise_name(Tail(d)) \in Parents(name)) <=> (d \in good /\ Wild(d))
      <3>0. d \in DnsName /\ d # <<>> /\ d[1] = "*"
        BY <1>1
      <3>1. Len(d) \in Nat /\ Len(d) > 0 /\ Len(name) \in Nat
        BY <3>0, EmptySeq DEF DnsName
      <3>2. /\ Tail(d) \in DnsName /\ Len(Tail(d)) = Len(d) - 1
            /\ \A i \in 1..(Len(d) - 1) : Tail(d)[i] = d[i + 1]
        BY <3>0, <3>1, RestOf DEF DnsName
      <3>3. WellFormed(Tail(d)) <=> WellFormed(d)
        <4>1. DOMAIN d = 1..Len(d) /\ DOMAIN Tail(d) = 1..(Len(d) - 1)
          BY <3>0, <3>2 DEF DnsName
        <4>2. \A i \in 1..Len(d) : i = 1 \/ (i - 1 \in 1..(Len(d) - 1) /\ (i - 1) + 1 = i)
          BY <3>1
        <4>3. \A i \in 1..(Len(d) - 1) : i + 1 \in 1..Len(d)
          BY <3>1
        <4>4. ASSUME WellFormed(Tail(d)) PROVE WellFormed(d)
          <5>1. ASSUME NEW i \in 1..Len(d) PROVE d[i] \in DOMAIN Lower
            <6>1. CASE i = 1
              BY <3>0, <6>1, AsteriskAssumption
            <6>2. CASE i - 1 \in 1..(Len(d) - 1) /\ (i - 1) + 1 = i
              BY <3>2, <4>1, <4>4, <6>2 DEF WellFormed
            <6> QED BY <4>2, <6>1, <6>2
          <5> QED BY <4>1, <5>1 DEF WellFormed
        <4>5. ASSUME WellFormed(d) PROVE WellFormed(Tail(d))
          <5>1. ASSUME NEW i \in 1..(Len(d) - 1) PROVE Tail(d)[i] \in DOMAIN Lower
            BY <3>2, <4>1, <4>3, <4>5 DEF WellFormed
          <5> QED BY <4>1, <5>1 DEF WellFormed
        <4> QED BY <4>4, <4>5
      <3>4. d \in deep <=> WellFormed(d) /\ Len(d) > 2
        <4>1. Len(Tail(d)) >= 2 <=> Len(d) > 2
          BY <3>1, <3>2
        <4> QED BY <3>2, <3>3, <4>1, BlockEntry
      <3>5. d \in good /\ Len(d) > 2 <=> WellFormed(d) /\ Len(d) > 2
        <4>1. Len(d) > 2 => Len(d) >= 2
          BY <3>1
        <4> QED BY <4>1
      <3> DEFINE t == normalise_name(Tail(d))
      <3>6. t \in DnsName /\ Len(t) = Len(d) - 1
        BY <3>2, NormalisedName
      <3> HIDE DEF t, good, deep
      <3>7. Len(d) > 2 => (t \in Parents(name) <=> Len(name) >= Len(d) /\ IsSuffix(t, name))
        <4>1. t \in Parents(name) <=> Len(t) > 0 /\ Len(t) < Len(name) /\ EndsWith(name, t)
          BY <3>6, ParentMeans
        <4>2. IsSuffix(t, name) <=> EndsWith(name, t)
          BY <3>6, SuffixMeans
        <4>3. Len(d) > 2 => (Len(t) > 0 /\ (Len(t) < Len(name) <=> Len(name) >= Len(d)))
          BY <3>1, <3>6
        <4> QED BY <4>1, <4>2, <4>3
      <3> QED BY <3>4, <3>5, <3>7 DEF t
    <2>2. \A d \in deep : Entry("parent", Tail(d)).what = "parent"
                          /\ Entry("parent", Tail(d)).name = normalise_name(Tail(d))
      BY EntryFields
    <2>3. below = {Entry("parent", Tail(d)) : d \in deep} /\ deep \subseteq wild
      OBVIOUS
    <2> HIDE DEF below, good, wild, deep
    <2>4. Here(below) <=> \E d \in deep : normalise_name(Tail(d)) \in Parents(name)
      BY <2>2, <2>3
    <2> QED BY <2>1, <2>3, <2>4
  <1>7. ~Here(AllowEntries(line))
    <2>1. \A e \in AllowEntries(line) : e.what = "allow"
      BY EntryFields DEF AllowEntries
    <2> QED BY <2>1
  <1>8. LineNames(line, name) <=>
          \E d \in good :
            CASE line.kind \in {"hosts", "plain"} -> normalise_name(d) = name
              [] line.kind = "adguard" -> line.says = "block" /\ (normalise_name(d) = name \/ Above(d))
              [] line.kind = "rpz" ->
                    line.says = "block" /\ IF d # <<>> /\ d[1] = "*" THEN Wild(d) ELSE normalise_name(d) = name
              [] OTHER -> FALSE
    BY DEF LineNames
  <1> DEFINE Named == \E d \in good : normalise_name(d) = name
             NamedAbove == \E d \in good : Above(d)
             NamedWild == \E d \in good : d \in wild /\ Wild(d)
             NamedOwn == \E d \in good : d \notin wild /\ normalise_name(d) = name
  <1>9. line.kind \in {"hosts", "plain"} => (LineNames(line, name) <=> Named)
    BY <1>8
  <1>10. line.kind = "adguard" => (LineNames(line, name) <=> line.says = "block" /\ (Named \/ NamedAbove))
    BY <1>8
  <1>11. line.kind = "rpz" => (LineNames(line, name) <=> line.says = "block" /\ (NamedWild \/ NamedOwn))
    <2>1. \A d \in good : d \in wild <=> d # <<>> /\ d[1] = "*"
      OBVIOUS
    <2> HIDE DEF wild, good
    <2> QED BY <1>8, <2>1
  <1>12. Here(parse_rpz(line)) <=> line.says = "block" /\ (NamedWild \/ NamedOwn)
    <2>1. parse_rpz(line) = IF line.says = "allow" THEN AllowEntries(line)
                            ELSE IF line.says = "block" THEN below \cup own ELSE {}
      BY DEF parse_rpz
    <2> HIDE DEF below, own, NamedWild, NamedOwn
    <2>2. Here(below \cup own) <=> Here(below) \/ Here(own)
      OBVIOUS
    <2>3. Here(below \cup own) <=> NamedWild \/ NamedOwn
      BY <1>4, <1>6, <2>2 DEF NamedWild, NamedOwn
    <2>4. CASE line.says = "allow"
      BY <1>7, <2>1, <2>4
    <2>5. CASE line.says = "block"
      BY <2>1, <2>3, <2>5
    <2>6. CASE line.says # "allow" /\ line.says # "block"
      BY <2>1, <2>6
    <2> QED BY <2>4, <2>5, <2>6
  <1>13. Here(parse_adguard(line)) <=> line.says = "block" /\ (Named \/ NamedAbove)
    <2>1. parse_adguard(line) = IF line.says = "allow" THEN AllowEntries(line)
                                ELSE IF line.says = "block" THEN exact \cup widened ELSE {}
      BY DEF parse_adguard
    <2> HIDE DEF exact, widened, Named, NamedAbove
    <2>2. Here(exact \cup widened) <=> Here(exact) \/ Here(widened)
      OBVIOUS
    <2>3. Here(exact \cup widened) <=> Named \/ NamedAbove
      BY <1>3, <1>5, <2>2 DEF Named, NamedAbove
    <2>4. CASE line.says = "allow"
      BY <1>7, <2>1, <2>4
    <2>5. CASE line.says = "block"
      BY <2>1, <2>3, <2>5
    <2>6. CASE line.says # "allow" /\ line.says # "block"
      BY <2>1, <2>6
    <2> QED BY <2>4, <2>5, <2>6
  <1> HIDE DEF Named, NamedAbove, NamedWild, NamedOwn, exact
  <1>14. CASE line.long \/ line.kind # fmt
    <2>1. ParseLine(line, fmt) = {}
      BY <1>14 DEF ParseLine
    <2> QED BY <1>14, <2>1
  <1>15. CASE ~line.long /\ line.kind = fmt
    <2>1. CASE fmt = "hosts" \/ fmt = "plain"
      <3>1. ParseLine(line, fmt) = exact
        BY <1>15, <2>1 DEF ParseLine, exact
      <3> QED BY <1>3, <1>9, <1>15, <2>1, <3>1 DEF Named
    <2>2. CASE fmt = "rpz"
      <3>1. ParseLine(line, fmt) = parse_rpz(line)
        BY <1>15, <2>2 DEF ParseLine
      <3> QED BY <1>11, <1>12, <1>15, <2>2, <3>1
    <2>3. CASE fmt = "adguard"
      <3>1. ParseLine(line, fmt) = parse_adguard(line)
        BY <1>15, <2>3 DEF ParseLine
      <3> QED BY <1>10, <1>13, <1>15, <2>3, <3>1
    <2> QED BY <2>1, <2>2, <2>3 DEF Kinds
  <1> QED BY <1>14, <1>15

\* The state of the engine holds what the lines of all sources gave, and allows
\* from a source only if it is trusted (build_state).
LEMMA StateHolds ==
    ASSUME NEW sources, NEW allowlist, NEW regex
    PROVE LET state == build_state(sources, allowlist, regex)
              From(what, name) ==
                \E s \in ToSet(sources) : \E i \in DOMAIN s.lines :
                    \E e \in ParseLine(s.lines[i], detect_format(s.lines)) : e.what = what /\ e.name = name
          IN  /\ \A name : name \in state.domains <=> From("exact", name)
              /\ \A name : name \in state.parents <=> From("parent", name)
              /\ \A name : name \in state.allow.exact <=>
                    \/ name \in from_entries(allowlist).exact
                    \/ \E s \in ToSet(sources) : s.trusted /\ \E i \in DOMAIN s.lines :
                         \E e \in ParseLine(s.lines[i], detect_format(s.lines)) : e.what = "allow" /\ e.name = name
              /\ state.allow.suffixes = from_entries(allowlist).suffixes
              /\ state.regex = regex
  <1> DEFINE state == build_state(sources, allowlist, regex)
             all == ToSet(sources)
             Of(what, S) == {e.name : e \in {x \in UNION {parse(s.lines) : s \in S} : x.what = what}}
             Told(what, S, name) == \E s \in S : \E i \in DOMAIN s.lines :
                    \E e \in ParseLine(s.lines[i], detect_format(s.lines)) : e.what = what /\ e.name = name
  <1>1. /\ state.domains = Of("exact", all) /\ state.parents = Of("parent", all)
        /\ state.allow = extend_exact(from_entries(allowlist), Of("allow", {s \in all : s.trusted}))
        /\ state.regex = regex
    BY DEF build_state
  <1>2. ASSUME NEW what, NEW S, NEW name PROVE name \in Of(what, S) <=> Told(what, S, name)
    <2>1. name \in Of(what, S) <=> \E s \in S : \E e \in parse(s.lines) : e.what = what /\ e.name = name
      OBVIOUS
    <2>2. \A s \in S : \A e : e \in parse(s.lines) <=>
             \E i \in DOMAIN s.lines : e \in ParseLine(s.lines[i], detect_format(s.lines))
      BY DEF parse
    <2> QED BY <2>1, <2>2
  <1>3. /\ state.allow.exact = from_entries(allowlist).exact \cup Of("allow", {s \in all : s.trusted})
        /\ state.allow.suffixes = from_entries(allowlist).suffixes
    <2> DEFINE extra == Of("allow", {s \in all : s.trusted})
    <2>1. state.allow = extend_exact(from_entries(allowlist), extra)
      BY <1>1
    <2> HIDE DEF extra, state
    <2> QED BY <2>1 DEF extend_exact, from_entries, extra
  <1> HIDE DEF Of, state
  <1>4. \A name : Told("allow", {s \in all : s.trusted}, name) <=>
           \E s \in all : s.trusted /\ \E i \in DOMAIN s.lines :
              \E e \in ParseLine(s.lines[i], detect_format(s.lines)) : e.what = "allow" /\ e.name = name
    OBVIOUS
  <1> HIDE DEF Told
  <1> QED BY <1>1, <1>2, <1>3, <1>4 DEF state, Told

\* A query is blocked exactly if the loaded lines name it or something above it
\* and neither the operator nor a trusted source allows it, for every set of
\* lists and every spelling (parse, is_blocked).
THEOREM BlockedExactlyAsListed ==
    ASSUME NEW sources \in Seq(SourceRecord), NEW allowlist \in Seq(DnsName), NEW regex, NEW typed \in DnsName
    PROVE BlockedAsListed(sources, allowlist, regex, typed)
  <1> DEFINE name == normalise_name(typed)
             state == build_state(sources, allowlist, regex)
             named == \E s \in ToSet(sources) : \E i \in DOMAIN s.lines :
                    /\ s.lines[i].kind = detect_format(s.lines) /\ ~s.lines[i].long
                    /\ LineNames(s.lines[i], name)
             passed == \E s \in ToSet(sources) : \E i \in DOMAIN s.lines :
                    /\ s.trusted /\ s.lines[i].kind = detect_format(s.lines)
                    /\ ~s.lines[i].long /\ s.lines[i].kind \in {"rpz", "adguard"}
                    /\ s.lines[i].says = "allow"
                    /\ \E d \in ToSet(s.lines[i].names) : WellFormed(d) /\ normalise_name(d) = name
             allowed == \E e \in ToSet(allowlist) :
                    IF IsWildcard(e) THEN normalise_name(Tail(e)) \in Parents(name)
                    ELSE normalise_name(e) = name
             Made(s, i) == ParseLine(s.lines[i], detect_format(s.lines))
  <1> SUFFICES ASSUME Len(name) >= 2
               PROVE is_blocked(state, typed) <=> ~allowed /\ ~passed /\ (named \/ name \in regex)
    BY DEF BlockedAsListed
  <1>1. name \in DnsName /\ name # <<>>
    <2>1. name \in DnsName
      BY NormalisedName
    <2> HIDE DEF name
    <2>2. Len(name) \in Nat
      BY <2>1 DEF DnsName
    <2>3. name # <<>>
      <3>1. Len(<<>>) = 0
        OBVIOUS
      <3> QED BY <2>2, <3>1
    <2> QED BY <2>1, <2>3
  <1>2. ASSUME NEW s \in ToSet(sources), NEW i \in DOMAIN s.lines
        PROVE s.lines[i] \in LineRecord /\ detect_format(s.lines) \in Kinds
    <2>1. s \in SourceRecord
      BY DEF ToSet
    <2>2. s.lines \in Seq(LineRecord)
      BY <2>1 DEF SourceRecord
    <2> QED BY <2>2, FormatKnown
  <1>3. \A e \in ToSet(allowlist) : e \in DnsName
    BY DEF ToSet
  <1> HIDE DEF name
  <1>4. name \in from_entries(allowlist).exact <=>
          \E e \in ToSet(allowlist) : ~IsWildcard(e) /\ normalise_name(e) = name
    <2>1. from_entries(allowlist).exact =
            {normalise_name(e) : e \in {x \in ToSet(allowlist) : x # <<>> /\ ~IsWildcard(x)}}
      BY DEF from_entries
    <2>2. \A e \in ToSet(allowlist) : normalise_name(e) = name => e # <<>>
      BY <1>1, <1>3, NormalisedName
    <2> QED BY <2>1, <2>2
  <1>5. Parents(name) \cap from_entries(allowlist).suffixes # {} <=>
          \E e \in ToSet(allowlist) : IsWildcard(e) /\ normalise_name(Tail(e)) \in Parents(name)
    <2>1. from_entries(allowlist).suffixes =
            {normalise_name(Tail(e)) : e \in {x \in ToSet(allowlist) : IsWildcard(x)}}
      BY DEF from_entries
    <2> QED BY <2>1
  <1>6. allowed <=> \/ name \in from_entries(allowlist).exact
                    \/ Parents(name) \cap from_entries(allowlist).suffixes # {}
    BY <1>4, <1>5
  <1>7. passed <=> \E s \in ToSet(sources) : s.trusted /\ \E i \in DOMAIN s.lines :
                      \E e \in Made(s, i) : e.what = "allow" /\ e.name = name
    BY <1>1, <1>2, LineAllows
  <1>8. named <=> \E s \in ToSet(sources) : \E i \in DOMAIN s.lines :
                    \E e \in Made(s, i) : \/ e.what = "exact" /\ e.name = name
                                          \/ e.what = "parent" /\ e.name \in Parents(name)
    BY <1>1, <1>2, LineBlocks
  <1>9. is_allowed(state.allow, name) <=> allowed \/ passed
    <2>1. is_allowed(state.allow, name) <=>
            name \in state.allow.exact \/ Parents(name) \cap state.allow.suffixes # {}
      BY <1>1 DEF is_allowed
    <2>2. /\ name \in state.allow.exact <=>
               \/ name \in from_entries(allowlist).exact
               \/ \E s \in ToSet(sources) : s.trusted /\ \E i \in DOMAIN s.lines :
                         \E e \in Made(s, i) : e.what = "allow" /\ e.name = name
          /\ state.allow.suffixes = from_entries(allowlist).suffixes
      BY StateHolds
    <2> HIDE DEF state, allowed, passed
    <2> QED BY <1>6, <1>7, <2>1, <2>2
  <1>10. named <=> name \in state.domains \/ Parents(name) \cap state.parents # {}
    <2>1. /\ \A n : n \in state.domains <=> \E s \in ToSet(sources) : \E i \in DOMAIN s.lines :
                    \E e \in Made(s, i) : e.what = "exact" /\ e.name = n
          /\ \A n : n \in state.parents <=> \E s \in ToSet(sources) : \E i \in DOMAIN s.lines :
                    \E e \in Made(s, i) : e.what = "parent" /\ e.name = n
      BY StateHolds
    <2> HIDE DEF state, named, Made
    <2>2. name \in state.domains <=> \E s \in ToSet(sources) : \E i \in DOMAIN s.lines :
                    \E e \in Made(s, i) : e.what = "exact" /\ e.name = name
      BY <2>1
    <2>3. Parents(name) \cap state.parents # {} <=> \E s \in ToSet(sources) : \E i \in DOMAIN s.lines :
                    \E e \in Made(s, i) : e.what = "parent" /\ e.name \in Parents(name)
      BY <2>1
    <2> QED BY <1>8, <2>2, <2>3
  <1>11. is_blocked(state, typed) <=>
           ~is_allowed(state.allow, name) /\
             (name \in state.domains \/ Parents(name) \cap state.parents # {} \/ name \in state.regex)
    BY <1>1 DEF is_blocked, name
  <1>12. state.regex = regex
    BY StateHolds
  <1> HIDE DEF state, allowed, passed, named
  <1> QED BY <1>9, <1>10, <1>11, <1>12

-----------------------------------------------------------------------------
(* Rewrites.                                                               *)

\* A wildcard has a label below its star.
LEMMA WildcardLong ==
    ASSUME NEW typed, IsWildcard(typed)
    PROVE Len(typed) > 1
  BY DEF IsWildcard

\* A wildcard above a name has at most its length.
LEMMA AboveLength ==
    ASSUME NEW w \in DnsName, IsWildcard(w), NEW name \in DnsName, normalise_name(Tail(w)) \in Parents(name)
    PROVE Len(w) <= Len(name) /\ Len(w) > 1
  <1> DEFINE t == normalise_name(Tail(w))
  <1>1. Len(w) > 1 /\ Len(w) \in Nat /\ Len(name) \in Nat
    BY WildcardLong DEF DnsName
  <1>2. Tail(w) \in DnsName /\ Len(Tail(w)) = Len(w) - 1
    BY <1>1, RestOf DEF DnsName
  <1>3. t \in DnsName /\ Len(t) = Len(w) - 1
    BY <1>2, NormalisedName
  <1>4. Len(t) < Len(name)
    BY <1>3, ParentMeans
  <1> HIDE DEF t
  <1> QED BY <1>1, <1>3, <1>4

\* The rules for a very name.
ExactRules(rules, name) ==
    {i \in DOMAIN rules : /\ rules[i].kind # "bad"
                          /\ ~IsWildcard(rules[i].name)
                          /\ normalise_name(rules[i].name) = name}

\* Of the rules for a very name the last is in force.
LEMMA LastExact ==
    ASSUME NEW rules \in Seq(RewriteRecord), NEW name
    PROVE /\ ExactRules(rules, name) = {} => ExactAction(rules, name) = {}
          /\ ExactRules(rules, name) # {} =>
                /\ Max(ExactRules(rules, name)) \in ExactRules(rules, name)
                /\ \A y \in ExactRules(rules, name) : y <= Max(ExactRules(rules, name))
                /\ ExactAction(rules, name) = {RuleAction(rules[Max(ExactRules(rules, name))])}
  <1> DEFINE at == ExactRules(rules, name)
  <1>1. ExactAction(rules, name) = {RuleAction(rules[i]) : i \in IF at = {} THEN {} ELSE {Max(at)}}
    BY DEF ExactAction, ExactRules
  <1>2. at \subseteq 1..Len(rules) /\ Len(rules) \in Nat
    BY DEF ExactRules
  <1> HIDE DEF at
  <1>3. at # {} => Max(at) \in at /\ \A y \in at : y <= Max(at)
    BY <1>2, MaxOfBounded
  <1>4. at = {} => ExactAction(rules, name) = {}
    BY <1>1
  <1>5. at # {} => ExactAction(rules, name) = {RuleAction(rules[Max(at)])}
    BY <1>1
  <1> QED BY <1>3, <1>4, <1>5 DEF at

\* Of the wildcards above a name one is first in the order of the table, and
\* none is longer.
LEMMA FirstWildcard ==
    ASSUME NEW rules \in Seq(RewriteRecord), NEW name \in DnsName, WildcardsAbove(rules, name) # {}
    PROVE \E m \in WildcardsAbove(rules, name) :
            /\ \A y \in WildcardsAbove(rules, name) : Len(rules[m].name) >= Len(rules[y].name)
            /\ {x \in WildcardsAbove(rules, name) :
                  \A y \in WildcardsAbove(rules, name) : x = y \/ WildcardOrder(rules, x, y)} = {m}
  <1> DEFINE above == WildcardsAbove(rules, name)
             L(i) == Len(rules[i].name)
             lens == {n \in 1..Len(name) : \E i \in above : n = L(i)}
  <1>1. Len(name) \in Nat
    BY DEF DnsName
  <1>2. ASSUME NEW i \in above PROVE L(i) \in 1..Len(name) /\ i \in Nat
    <2>1. i \in DOMAIN rules /\ IsWildcard(rules[i].name) /\ normalise_name(Tail(rules[i].name)) \in Parents(name)
      BY DEF WildcardsAbove
    <2>2. rules[i] \in RewriteRecord
      BY <2>1
    <2>3. rules[i].name \in DnsName
      BY <2>2 DEF RewriteRecord
    <2>4. L(i) <= Len(name) /\ L(i) > 1
      BY <2>1, <2>3, AboveLength
    <2>5. L(i) \in Nat
      BY <2>3 DEF DnsName
    <2>6. i \in Nat
      BY <2>1
    <2> DEFINE l == L(i)
    <2> HIDE DEF l
    <2>7. l \in 1..Len(name)
      BY <1>1, <2>4, <2>5 DEF l
    <2> QED BY <2>6, <2>7 DEF l
  <1>3. lens # {} /\ lens \subseteq 1..Len(name)
    BY <1>2 DEF above
  <1> DEFINE most == Max(lens)
  <1>4. most \in lens /\ \A y \in lens : y <= most
    BY <1>1, <1>3, MaxOfBounded
  <1> HIDE DEF most
  <1> DEFINE longest == {i \in above : L(i) = most}
  <1>5. longest # {} /\ longest \subseteq Nat
    BY <1>2, <1>4
  <1> DEFINE m == Min(longest)
  <1>6. m \in longest /\ \A y \in longest : m <= y
    BY <1>5, LeastOf
  <1> HIDE DEF m
  <1>7. m \in above /\ L(m) = most
    BY <1>6
  <1>8. \A y \in above : L(y) <= most
    BY <1>2, <1>4
  <1>9. ASSUME NEW y \in above PROVE m = y \/ WildcardOrder(rules, m, y)
    <2>1. L(y) \in Nat /\ y \in Nat /\ m \in Nat /\ L(m) \in Nat /\ most \in Nat
      BY <1>2, <1>7
    <2>2. L(y) = most => m <= y
      BY <1>6
    <2> DEFINE ly == L(y)
               lm == L(m)
    <2>3. ly <= most /\ lm = most /\ ly \in Nat /\ (ly = most => m <= y)
      BY <1>7, <1>8, <2>1, <2>2
    <2> HIDE DEF ly, lm
    <2>4. m = y \/ lm > ly \/ (lm = ly /\ m < y)
      BY <2>1, <2>3
    <2> QED BY <2>4 DEF WildcardOrder, ly, lm
  <1>10. ASSUME NEW x \in above, x # m, x = m \/ WildcardOrder(rules, x, m) PROVE FALSE
    <2>1. WildcardOrder(rules, x, m) /\ WildcardOrder(rules, m, x)
      BY <1>9, <1>10
    <2>2. L(x) \in Nat /\ x \in Nat /\ m \in Nat /\ L(m) \in Nat
      BY <1>2, <1>7
    <2> DEFINE lx == L(x)
               lm == L(m)
    <2>3. (lx > lm \/ (lx = lm /\ x < m)) /\ (lm > lx \/ (lm = lx /\ m < x)) /\ lx \in Nat /\ lm \in Nat
      BY <2>1, <2>2 DEF WildcardOrder
    <2> HIDE DEF lx, lm
    <2> QED BY <2>2, <2>3
  <1>11. {x \in above : \A y \in above : x = y \/ WildcardOrder(rules, x, y)} = {m}
    BY <1>7, <1>9, <1>10
  <1>12. \A y \in above : L(m) >= L(y)
    <2> TAKE y \in above
    <2>1. L(y) \in Nat /\ most \in Nat
      BY <1>2, <1>7
    <2>2. most >= L(y)
      BY <1>8, <2>1
    <2> QED BY <1>7, <2>2
  <1> QED BY <1>7, <1>11, <1>12

\* A name that a rewrite is about is answered by the closest rule, wherever it
\* stands in the configuration, and never asked upstream (RewriteMap).
THEOREM ClosestAnswers ==
    ASSUME NEW rules \in Seq(RewriteRecord), NEW typed \in DnsName, NEW qtype
    PROVE ClosestRewriteAnswers(rules, typed, qtype)
  <1> DEFINE name == normalise_name(typed)
             about == {i \in DOMAIN rules : Closeness(rules[i], name) > 0}
             closest == {i \in about : \A j \in about :
                            Closeness(rules[i], name) >= Closeness(rules[j], name)}
             at == ExactRules(rules, name)
             above == WildcardsAbove(rules, name)
             first == {x \in above : \A y \in above : x = y \/ WildcardOrder(rules, x, y)}
             C(i) == Closeness(rules[i], name)
  <1> SUFFICES ASSUME name # <<>>
               PROVE /\ about = {} <=> rewrite_lookup(rules, typed, qtype) = {}
                     /\ about # {} => \E i \in closest : MatchingAction(rules, typed) = {RuleAction(rules[i])}
    BY DEF ClosestRewriteAnswers
  <1>1. name \in DnsName
    BY NormalisedName
  <1> HIDE DEF name
  <1>2. Len(name) \in Nat
    BY <1>1 DEF DnsName
  <1>3. ASSUME NEW i \in DOMAIN rules
        PROVE /\ i \in at => C(i) = Len(name) + 1
              /\ i \in above => C(i) = Len(rules[i].name) /\ C(i) \in 2..Len(name)
              /\ i \notin at /\ i \notin above => C(i) = 0
    <2>1. rules[i].name \in DnsName
      <3>1. rules[i] \in RewriteRecord
        OBVIOUS
      <3> QED BY <3>1 DEF RewriteRecord
    <2>2. i \in at <=> rules[i].kind # "bad" /\ ~IsWildcard(rules[i].name) /\ normalise_name(rules[i].name) = name
      BY DEF ExactRules
    <2>3. i \in above <=> rules[i].kind # "bad" /\ IsWildcard(rules[i].name)
                            /\ normalise_name(Tail(rules[i].name)) \in Parents(name)
      BY DEF WildcardsAbove
    <2>4. i \in at => C(i) = Len(name) + 1
      BY <2>2 DEF Closeness
    <2>5. i \in above => C(i) = Len(rules[i].name)
      BY <2>3 DEF Closeness
    <2>6. i \notin at /\ i \notin above => C(i) = 0
      BY <2>2, <2>3 DEF Closeness
    <2>7. i \in above => Len(rules[i].name) \in 2..Len(name)
      <3> SUFFICES ASSUME i \in above PROVE Len(rules[i].name) \in 2..Len(name)
        OBVIOUS
      <3>1. Len(rules[i].name) <= Len(name) /\ Len(rules[i].name) > 1
        BY <1>1, <2>1, <2>3, AboveLength
      <3>2. Len(rules[i].name) \in Nat
        BY <2>1 DEF DnsName
      <3> DEFINE l == Len(rules[i].name)
      <3> HIDE DEF l
      <3>3. l \in 2..Len(name)
        BY <1>2, <3>1, <3>2 DEF l
      <3> QED BY <3>3 DEF l
    <2> QED BY <2>4, <2>5, <2>6, <2>7
  <1>4. at \subseteq DOMAIN rules /\ above \subseteq DOMAIN rules
    BY DEF ExactRules, WildcardsAbove
  <1>5. about = at \cup above
    <2>1. ASSUME NEW i \in DOMAIN rules PROVE C(i) > 0 <=> i \in at \cup above
      <3> DEFINE c == C(i)
      <3> HIDE DEF c, at, above
      <3>1. CASE i \in at
        BY <1>2, <1>3, <3>1 DEF c
      <3>2. CASE i \in above
        <4>1. c \in 2..Len(name)
          BY <1>3, <3>2 DEF c
        <4>2. c > 0
          BY <1>2, <4>1
        <4> QED BY <3>2, <4>2 DEF c
      <3>3. CASE i \notin at /\ i \notin above
        BY <1>3, <3>3 DEF c
      <3> QED BY <3>1, <3>2, <3>3
    <2> HIDE DEF at, above
    <2> QED BY <1>4, <2>1
  <1>6. MatchingAction(rules, typed) =
          IF ExactAction(rules, name) # {} THEN ExactAction(rules, name) ELSE {RuleAction(rules[i]) : i \in first}
    BY DEF MatchingAction, name
  <1>7. rewrite_lookup(rules, typed, qtype) = {} <=> MatchingAction(rules, typed) = {}
    BY DEF rewrite_lookup
  <1>8. CASE at # {}
    <2> DEFINE m == Max(at)
    <2>1. m \in at /\ ExactAction(rules, name) = {RuleAction(rules[m])}
      BY <1>8, LastExact
    <2> HIDE DEF m, at, above, first
    <2>2. MatchingAction(rules, typed) = {RuleAction(rules[m])}
      BY <1>6, <2>1
    <2>3. m \in about /\ \A j \in about : C(m) >= C(j)
      <3>1. m \in about /\ C(m) = Len(name) + 1
        BY <1>3, <1>4, <1>5, <2>1
      <3>2. ASSUME NEW j \in about PROVE Len(name) + 1 >= C(j)
        <4> DEFINE c == C(j)
        <4>1. c = Len(name) + 1 \/ c \in 2..Len(name)
          BY <1>3, <1>4, <1>5
        <4> HIDE DEF c
        <4>2. Len(name) + 1 >= c
          BY <1>2, <4>1
        <4> QED BY <4>2 DEF c
      <3> QED BY <3>1, <3>2
    <2>4. m \in closest /\ about # {}
      BY <2>3
    <2> HIDE DEF closest, about
    <2> QED BY <1>7, <2>2, <2>4
  <1>9. CASE at = {} /\ above # {}
    <2>1. ExactAction(rules, name) = {}
      BY <1>9, LastExact
    <2>2. PICK m \in above : (\A y \in above : Len(rules[m].name) >= Len(rules[y].name)) /\ first = {m}
      BY <1>1, <1>9, FirstWildcard
    <2> HIDE DEF at, above, first
    <2>3. MatchingAction(rules, typed) = {RuleAction(rules[m])}
      BY <1>6, <2>1, <2>2
    <2>4. m \in about /\ \A j \in about : C(m) >= C(j)
      BY <1>3, <1>4, <1>5, <1>9, <2>2
    <2>5. m \in closest /\ about # {}
      BY <2>4
    <2> HIDE DEF closest, about
    <2> QED BY <1>7, <2>3, <2>5
  <1>10. CASE at = {} /\ above = {}
    <2>1. ExactAction(rules, name) = {}
      BY <1>10, LastExact
    <2>2. first = {}
      BY <1>10
    <2>3. MatchingAction(rules, typed) = {}
      BY <1>6, <2>1, <2>2
    <2> QED BY <1>5, <1>7, <1>10, <2>3
  <1> QED BY <1>8, <1>9, <1>10

\* The rule safe search makes for an engine.
Alias(n, t) == [name |-> n, kind |-> "cname", ip |-> V4(0), target |-> t]

\* The parts of such a rule.
LEMMA AliasFields ==
    ASSUME NEW n, NEW t
    PROVE Alias(n, t).name = n /\ Alias(n, t).kind = "cname" /\ Alias(n, t).ip = V4(0) /\ Alias(n, t).target = t
  BY DEF Alias

\* Such a rule is one an operator could have written.
LEMMA AliasRule ==
    ASSUME NEW n \in DnsName, NEW t \in DnsName
    PROVE Alias(n, t) \in RewriteRecord
  <1>1. V4(0) \in Addresses
    <2>1. 2^V4Bits \in Nat \ {0}
      BY AddressAssumption, PowerPositive
    <2>2. 0 \in 0..(2^V4Bits - 1)
      BY <2>1
    <2> QED BY <2>2 DEF Addresses
  <1> DEFINE ip == V4(0)
             kind == "cname"
  <1>2. kind \in {"address", "cname", "block", "bad"}
    OBVIOUS
  <1>3. ip \in Addresses
    BY <1>1
  <1> HIDE DEF ip, kind
  <1>4. [name |-> n, kind |-> kind, ip |-> ip, target |-> t] \in RewriteRecord
    BY <1>2, <1>3 DEF RewriteRecord
  <1> QED BY <1>4 DEF Alias, ip, kind

\* Safe search rules come first and the operator's after them
\* (combined_rewrite_rules).
LEMMA CombinedRules ==
    ASSUME NEW engines \in Seq(EngineRecord), NEW rules \in Seq(RewriteRecord)
    PROVE LET all == combined_rewrite_rules(engines, rules)
              k == Len(engines)
          IN  /\ all \in Seq(RewriteRecord)
              /\ DOMAIN all = 1..(k + Len(rules))
              /\ \A i \in 1..k : all[i] = Alias(engines[i].name, engines[i].target)
              /\ \A j \in 1..Len(rules) : all[k + j] = rules[j]
  <1> DEFINE ss == safesearch_rules(engines)
             R(i) == Alias(engines[i].name, engines[i].target)
  <1>1. Len(engines) \in Nat /\ DOMAIN engines = 1..Len(engines) /\ Len(rules) \in Nat
    OBVIOUS
  <1>3. \A i \in 1..Len(engines) : R(i) \in RewriteRecord
    <2> TAKE i \in 1..Len(engines)
    <2>1. engines[i] \in EngineRecord
      BY <1>1
    <2>2. engines[i].name \in DnsName /\ engines[i].target \in DnsName
      BY <2>1 DEF EngineRecord
    <2> QED BY <2>2, AliasRule
  <1>4. ss = [i \in 1..Len(engines) |-> R(i)]
    BY <1>1 DEF safesearch_rules, Alias
  <1>5. ss \in Seq(RewriteRecord) /\ Len(ss) = Len(engines)
    <2> HIDE DEF R, ss
    <2> QED BY <1>1, <1>3, <1>4
  <1>6. \A i \in 1..Len(engines) : ss[i] = R(i)
    BY <1>4
  <1> HIDE DEF ss, R
  <1>7. /\ ss \o rules \in Seq(RewriteRecord) /\ Len(ss \o rules) = Len(ss) + Len(rules)
        /\ \A i \in 1..Len(ss) : (ss \o rules)[i] = ss[i]
        /\ \A j \in 1..Len(rules) : (ss \o rules)[Len(ss) + j] = rules[j]
    BY <1>5
  <1>8. DOMAIN (ss \o rules) = 1..(Len(engines) + Len(rules))
    BY <1>5, <1>7
  <1> QED BY <1>5, <1>6, <1>7, <1>8 DEF combined_rewrite_rules, ss, R

\* A search engine is answered with its restricted form unless the operator has
\* a rule for that very name, which then wins (combined_rewrite_rules).
THEOREM SafeSearch ==
    ASSUME NEW engines \in Seq(EngineRecord), NEW rules \in Seq(RewriteRecord),
           \A e \in ToSet(engines) : e.name # <<>> /\ ~IsWildcard(e.name)
    PROVE SafeSearchHolds(engines, rules)
  <1> DEFINE all == combined_rewrite_rules(engines, rules)
             k == Len(engines)
             Own(name) == {i \in DOMAIN rules : /\ rules[i].kind # "bad" /\ ~IsWildcard(rules[i].name)
                                                /\ normalise_name(rules[i].name) = name}
  <1> SUFFICES ASSUME NEW e \in ToSet(engines)
               PROVE LET own == Own(normalise_name(e.name))
                         action == MatchingAction(all, e.name)
                     IN  IF own = {}
                         THEN \E a \in action : a.kind = "cname" /\ \E x \in ToSet(engines) :
                                 normalise_name(x.name) = normalise_name(e.name) /\ a.target = x.target
                         ELSE action = {RuleAction(rules[Max(own)])}
    BY DEF SafeSearchHolds
  <1> DEFINE name == normalise_name(e.name)
             own == Own(name)
             at == ExactRules(all, name)
             action == MatchingAction(all, e.name)
  <1>0. PICK n \in DOMAIN engines : e = engines[n]
    BY DEF ToSet
  <1>1. k \in Nat /\ DOMAIN engines = 1..k /\ Len(rules) \in Nat /\ DOMAIN rules = 1..Len(rules)
    OBVIOUS
  <1>2. e.name \in DnsName /\ name \in DnsName /\ name # <<>>
    <2>1. e \in EngineRecord
      BY <1>0
    <2>2. e.name \in DnsName
      BY <2>1 DEF EngineRecord
    <2> QED BY <2>2, NormalisedName
  <1>3. /\ all \in Seq(RewriteRecord) /\ DOMAIN all = 1..(k + Len(rules))
        /\ \A i \in 1..k : all[i] = Alias(engines[i].name, engines[i].target)
        /\ \A j \in 1..Len(rules) : all[k + j] = rules[j]
    BY CombinedRules
  <1> HIDE DEF all
  <1>4. \A i \in 1..k : i \in at <=> normalise_name(engines[i].name) = name
    <2> TAKE i \in 1..k
    <2>1. i \in DOMAIN all
      BY <1>1, <1>3
    <2>2. all[i].name = engines[i].name /\ all[i].kind = "cname"
      BY <1>3, AliasFields
    <2>3. ~IsWildcard(engines[i].name)
      BY <1>1 DEF ToSet
    <2> QED BY <2>1, <2>2, <2>3 DEF ExactRules
  <1>5. \A j \in 1..Len(rules) : k + j \in at <=> j \in own
    <2> TAKE j \in 1..Len(rules)
    <2>1. k + j \in DOMAIN all
      BY <1>1, <1>3
    <2> QED BY <1>1, <1>3, <2>1 DEF ExactRules
  <1>6. \A i \in at : i \in 1..k \/ (i - k \in 1..Len(rules) /\ i = k + (i - k))
    <2>1. at \subseteq 1..(k + Len(rules))
      BY <1>3 DEF ExactRules
    <2> QED BY <1>1, <2>1
  <1>7. at # {}
    BY <1>0, <1>1, <1>4
  <1> DEFINE m == Max(at)
  <1>8. m \in at /\ (\A y \in at : y <= m) /\ ExactAction(all, name) = {RuleAction(all[m])}
    BY <1>3, <1>7, LastExact
  <1> HIDE DEF m, at
  <1>9. action = {RuleAction(all[m])}
    <2>1. ExactAction(all, name) # {}
      BY <1>8
    <2> QED BY <1>2, <1>8, <2>1 DEF MatchingAction
  <1>10. CASE own = {}
    <2>1. m \in 1..k
      BY <1>5, <1>6, <1>8, <1>10
    <2>2. normalise_name(engines[m].name) = name /\ engines[m] \in ToSet(engines)
      BY <1>1, <1>4, <1>8, <2>1 DEF ToSet
    <2>3. RuleAction(all[m]).kind = "cname" /\ RuleAction(all[m]).target = engines[m].target
      <3>1. all[m].kind = "cname" /\ all[m].target = engines[m].target
        <4>1. all[m] = Alias(engines[m].name, engines[m].target)
          BY <1>3, <2>1
        <4> QED BY <4>1, AliasFields
      <3> QED BY <3>1 DEF RuleAction
    <2>4. \E a \in action : a.kind = "cname" /\ \E x \in ToSet(engines) :
                                 normalise_name(x.name) = name /\ a.target = x.target
      BY <1>9, <2>2, <2>3
    <2> QED BY <1>10, <2>4
  <1>11. CASE own # {}
    <2>1. own \subseteq 1..Len(rules)
      OBVIOUS
    <2> DEFINE l == Max(own)
    <2> HIDE DEF own
    <2>2. l \in own /\ \A y \in own : y <= l
      BY <1>1, <1>11, <2>1, MaxOfBounded
    <2> HIDE DEF l
    <2>3. k + l \in at
      BY <1>5, <2>1, <2>2
    <2>4. k + l <= m
      BY <1>8, <2>3
    <2>5. m - k \in 1..Len(rules) /\ m = k + (m - k)
      <3>1. l \in 1..Len(rules)
        BY <2>1, <2>2
      <3>2. m \in 1..k \/ (m - k \in 1..Len(rules) /\ m = k + (m - k))
        BY <1>6, <1>8
      <3> QED BY <1>1, <2>4, <3>1, <3>2
    <2>6. m - k \in own
      BY <1>5, <1>8, <2>5
    <2>7. m - k <= l
      BY <2>2, <2>6
    <2>8. m = k + l
      <3>1. l \in 1..Len(rules)
        BY <2>1, <2>2
      <3> QED BY <1>1, <2>4, <2>5, <2>7, <3>1
    <2>9. all[m] = rules[l]
      BY <1>3, <2>1, <2>2, <2>8
    <2>10. action = {RuleAction(rules[l])}
      BY <1>9, <2>9
    <2> QED BY <1>11, <2>10 DEF l, own
  <1> QED BY <1>10, <1>11

-----------------------------------------------------------------------------
(* Answers of an upstream.                                                 *)

\* The aliases among the records of an answer.
AliasesOf(records) == {r \in ToSet(records) : r.type = "CNAME"}

\* The names an answer can lead to.
Nodes(records, qname) ==
    {normalise_name(qname)} \cup {normalise_name(r.target) : r \in AliasesOf(records)}

\* One pass over the answer: the targets of the aliases at names already
\* reached.
Pass(records, X) ==
    X \cup {normalise_name(r.target) : r \in {x \in ToSet(records) : x.type = "CNAME" /\ x.name \in X}}

\* The passes of filter_out_of_bailiwick, one for each record.
Walk(f, n, records, qname) ==
    /\ f \in [0..n -> SUBSET Nodes(records, qname)]
    /\ f[0] = {normalise_name(qname)}
    /\ \A k \in 1..n : f[k] = Pass(records, f[k - 1])
    /\ Allowed(records, qname) = f[n]

\* The names the filter allows are those after the last pass.
LEMMA AllowedIterates ==
    ASSUME NEW records, NEW qname, Len(records) \in Nat
    PROVE \E f : Walk(f, Len(records), records, qname)
  <1> DEFINE n == Len(records)
  <1>0. n \in Nat
    OBVIOUS
  <1> DEFINE U == SUBSET Nodes(records, qname)
             a == {normalise_name(qname)}
             G == [X \in U |-> Pass(records, X)]
  <1>1. a \in U
    BY DEF Nodes
  <1>2. G \in [U -> U]
    <2>1. ASSUME NEW X \in U PROVE Pass(records, X) \in U
      BY DEF Pass, Nodes, AliasesOf
    <2> HIDE DEF U
    <2> QED BY <2>1
  <1>3. PICK g \in [0..n -> U] : g[0] = a /\ \A k \in 1..n : g[k] = G[g[k - 1]]
    <2> HIDE DEF U, a, G
    <2>1. PICK f : Iteration(f, U, a, G, n)
      BY <1>0, <1>1, <1>2, Iterates
    <2> QED BY <2>1 DEF Iteration
  <1> DEFINE F(f) == [k \in 0..n |-> IF k = 0 THEN a
                      ELSE f[k - 1] \cup
                             {normalise_name(r.target) :
                                r \in {x \in ToSet(records) : x.type = "CNAME" /\ x.name \in f[k - 1]}}]
             pass == CHOOSE f : f = F(f)
  <1>4. g = F(g)
    <2>1. ASSUME NEW k \in 0..n PROVE g[k] = F(g)[k]
      <3>1. CASE k = 0
        BY <1>3, <3>1
      <3>2. CASE k # 0
        <4>1. k \in 1..n /\ k - 1 \in 0..n
          BY <3>2
        <4>2. g[k] = G[g[k - 1]] /\ g[k - 1] \in U
          BY <1>3, <4>1
        <4>3. g[k] = Pass(records, g[k - 1])
          BY <4>2
        <4> QED BY <3>2, <4>3 DEF Pass
      <3> QED BY <3>1, <3>2
    <2>2. DOMAIN F(g) = 0..n /\ F(g) = [k \in 0..n |-> F(g)[k]]
      OBVIOUS
    <2>3. g = [k \in 0..n |-> g[k]]
      BY <1>3
    <2> QED BY <2>1, <2>2, <2>3
  <1>5. pass = F(pass)
    BY <1>4
  <1>6. Allowed(records, qname) = pass[n]
    BY DEF Allowed
  <1> HIDE DEF n
  <1> DEFINE T == {m \in Nat : m <= n => pass[m] = g[m]}
  <1>7. \A f : \A k \in 0..n : F(f)[k] = IF k = 0 THEN a ELSE Pass(records, f[k - 1])
    BY DEF Pass
  <1> HIDE DEF F, pass, a
  <1>8. \A k \in 0..n : /\ pass[k] = IF k = 0 THEN a ELSE Pass(records, pass[k - 1])
                       /\ g[k] = IF k = 0 THEN a ELSE Pass(records, g[k - 1])
    BY <1>4, <1>5, <1>7
  <1>9. 0 \in T
    BY <1>0, <1>8
  <1>10. ASSUME NEW m \in Nat, m \in T PROVE m + 1 \in T
    <2> SUFFICES ASSUME m + 1 <= n PROVE pass[m + 1] = g[m + 1]
      OBVIOUS
    <2>1. pass[m] = g[m]
      <3>1. m <= n
        BY <1>0
      <3> QED BY <1>10, <3>1
    <2>2. m + 1 \in 0..n /\ m + 1 # 0 /\ (m + 1) - 1 = m
      BY <1>0
    <2> QED BY <1>8, <2>1, <2>2
  <1> HIDE DEF T
  <1>11. n \in T
    BY <1>0, <1>9, <1>10, SetInduction
  <1>12. pass[n] = g[n]
    BY <1>0, <1>11 DEF T
  <1>13. \A k \in 1..n : g[k] = Pass(records, g[k - 1])
    BY <1>0, <1>8
  <1>14. Walk(g, n, records, qname)
    BY <1>3, <1>6, <1>12, <1>13 DEF a, Walk
  <1> QED BY <1>14 DEF n

\* An answer leads to at most one name more than it has records.
LEMMA NodesBounded ==
    ASSUME NEW records, NEW n \in Nat, n = Len(records), DOMAIN records = 1..n, NEW qname
    PROVE /\ IsFiniteSet(Nodes(records, qname))
          /\ Cardinality(Nodes(records, qname)) \in Nat
          /\ Cardinality(Nodes(records, qname)) <= n + 1
  <1> DEFINE f == [i \in 1..n |-> normalise_name(records[i].target)]
             T == {normalise_name(records[i].target) : i \in 1..n}
             q == normalise_name(qname)
  <1>1. f \in Surjection(1..n, T)
    BY DEF Surjection
  <1>2. IsFiniteSet(1..n) /\ Cardinality(1..n) = n
    BY Counting
  <1> HIDE DEF f
  <1>3. IsFiniteSet(T) /\ Cardinality(T) <= n
    BY <1>1, <1>2, FS_Surjection
  <1>4. Nodes(records, qname) \subseteq T \cup {q}
    BY DEF Nodes, AliasesOf, ToSet
  <1> HIDE DEF T, q
  <1>5. Cardinality(T) \in Nat /\ IsFiniteSet(T \cup {q}) /\ Cardinality(T \cup {q}) <= n + 1
    <2>1. Cardinality(T) \in Nat
      BY <1>3, FS_CardinalityType
    <2>2. /\ IsFiniteSet(T \cup {q})
          /\ Cardinality(T \cup {q}) = IF q \in T THEN Cardinality(T) ELSE Cardinality(T) + 1
      BY <1>3, FS_AddElement
    <2> DEFINE c == Cardinality(T)
               d == Cardinality(T \cup {q})
    <2>3. c \in Nat /\ c <= n /\ (d = c \/ d = c + 1)
      BY <1>3, <2>1, <2>2
    <2> HIDE DEF c, d
    <2>4. d <= n + 1
      BY <2>3
    <2> QED BY <2>1, <2>2, <2>4 DEF d
  <1> DEFINE N == Nodes(records, qname)
  <1> HIDE DEF N
  <1>6. IsFiniteSet(N) /\ Cardinality(N) <= Cardinality(T \cup {q})
    BY <1>4, <1>5, FS_Subset DEF N
  <1>7. Cardinality(N) \in Nat /\ Cardinality(T \cup {q}) \in Nat
    BY <1>5, <1>6, FS_CardinalityType
  <1>8. Cardinality(N) <= n + 1
    BY <1>5, <1>6, <1>7
  <1> QED BY <1>6, <1>7, <1>8 DEF N

\* As many passes as there are records are enough: the names allowed are all the
\* names the aliases lead to, in whatever order the answer has them.
LEMMA AllowedIsReached ==
    ASSUME NEW records \in Seq(AnswerRecord), NEW qname
    PROVE Allowed(records, qname) = Reached(records, qname)
  <1> DEFINE n == Len(records)
             q == normalise_name(qname)
             N == Nodes(records, qname)
             IsClosed(S) == /\ q \in S
                            /\ \A r \in AliasesOf(records) : r.name \in S => normalise_name(r.target) \in S
  <1>1. n \in Nat /\ DOMAIN records = 1..n
    OBVIOUS
  <1>2. PICK f \in [0..n -> SUBSET N] :
            /\ f[0] = {q} /\ (\A k \in 1..n : f[k] = Pass(records, f[k - 1]))
            /\ Allowed(records, qname) = f[n]
    <2>1. PICK g : Walk(g, Len(records), records, qname)
      BY <1>1, AllowedIterates
    <2> QED BY <2>1 DEF Walk
  <1>3. Reached(records, qname) = {x \in N : \A S \in SUBSET N : IsClosed(S) => x \in S}
    BY DEF Reached, Nodes, AliasesOf
  <1>4. IsFiniteSet(N) /\ Cardinality(N) \in Nat /\ Cardinality(N) <= n + 1
    BY <1>1, NodesBounded
  <1>5. \A X : X \subseteq Pass(records, X)
    BY DEF Pass
  <1>6. \A X, S : IsClosed(S) /\ X \subseteq S => Pass(records, X) \subseteq S
    BY DEF Pass, AliasesOf
  <1>7. \A X : Pass(records, X) = X => \A r \in AliasesOf(records) : r.name \in X => normalise_name(r.target) \in X
    BY DEF Pass, AliasesOf
  <1> HIDE DEF N, q, n
  <1>8. \A k \in 0..n : f[k] \subseteq N
    BY <1>2
  <1>9. ASSUME NEW S \in SUBSET N, IsClosed(S) PROVE f[n] \subseteq S
    <2> DEFINE T == {m \in Nat : m <= n => f[m] \subseteq S}
    <2>1. 0 \in T
      BY <1>2, <1>9
    <2>2. ASSUME NEW m \in Nat, m \in T PROVE m + 1 \in T
      <3> SUFFICES ASSUME m + 1 <= n PROVE f[m + 1] \subseteq S
        OBVIOUS
      <3>1. m + 1 \in 1..n /\ (m + 1) - 1 = m /\ m <= n
        BY <1>1
      <3>2. f[m + 1] = Pass(records, f[m])
        BY <1>2, <3>1
      <3>3. f[m] \subseteq S
        BY <2>2, <3>1
      <3> QED BY <1>6, <1>9, <3>2, <3>3
    <2> HIDE DEF T
    <2>3. n \in T
      BY <1>1, <2>1, <2>2, SetInduction
    <2> QED BY <1>1, <2>3 DEF T
  <1>10. q \in f[n]
    <2> DEFINE T == {m \in Nat : m <= n => q \in f[m]}
    <2>1. 0 \in T
      BY <1>2
    <2>2. ASSUME NEW m \in Nat, m \in T PROVE m + 1 \in T
      <3> SUFFICES ASSUME m + 1 <= n PROVE q \in f[m + 1]
        OBVIOUS
      <3>1. m + 1 \in 1..n /\ (m + 1) - 1 = m /\ m <= n
        BY <1>1
      <3>2. f[m + 1] = Pass(records, f[m])
        BY <1>2, <3>1
      <3>3. q \in f[m]
        BY <2>2, <3>1
      <3> QED BY <1>5, <3>2, <3>3
    <2> HIDE DEF T
    <2>3. n \in T
      BY <1>1, <2>1, <2>2, SetInduction
    <2> QED BY <1>1, <2>3 DEF T
  <1> DEFINE Size(m) == Cardinality(f[m])
             Ended(m) == Pass(records, f[m]) = f[m]
  <1>11. \A k \in 0..n : IsFiniteSet(f[k]) /\ Size(k) \in Nat /\ Size(k) <= Cardinality(N)
    <2> TAKE k \in 0..n
    <2>1. f[k] \in SUBSET N
      BY <1>8
    <2>2. IsFiniteSet(f[k]) /\ Cardinality(f[k]) <= Cardinality(N)
      BY <1>4, <2>1, FS_Subset
    <2> QED BY <2>2, FS_CardinalityType
  <1>12. Ended(n) \/ Size(n) >= n + 1
    <2> DEFINE T == {m \in Nat : m <= n => Ended(m) \/ Size(m) >= m + 1}
    <2>1. 0 \in T
      <3>1. Size(0) = 1
        BY <1>2, FS_Singleton
      <3>2. Size(0) >= 0 + 1
        BY <3>1
      <3> QED BY <3>2
    <2>2. ASSUME NEW m \in Nat, m \in T PROVE m + 1 \in T
      <3> SUFFICES ASSUME m + 1 <= n PROVE Ended(m + 1) \/ Size(m + 1) >= (m + 1) + 1
        OBVIOUS
      <3>1. m + 1 \in 1..n /\ (m + 1) - 1 = m /\ m <= n /\ m \in 0..n /\ m + 1 \in 0..n
        BY <1>1
      <3>2. f[m + 1] = Pass(records, f[m])
        BY <1>2, <3>1
      <3>3. CASE Ended(m)
        BY <3>2, <3>3
      <3>4. CASE ~Ended(m)
        <4>1. Size(m) >= m + 1
          BY <2>2, <3>1, <3>4
        <4>2. f[m] \in SUBSET f[m + 1] /\ f[m] # f[m + 1]
          BY <1>5, <3>2, <3>4
        <4>3. /\ Cardinality(f[m]) <= Cardinality(f[m + 1])
              /\ Cardinality(f[m + 1]) = Cardinality(f[m]) => f[m + 1] = f[m]
          BY <1>11, <3>1, <4>2, FS_Subset
        <4>4. Size(m) \in Nat /\ Size(m + 1) \in Nat /\ Size(m) <= Size(m + 1) /\ Size(m) # Size(m + 1)
          BY <1>11, <3>1, <4>2, <4>3
        <4> DEFINE a == Size(m)
                   b == Size(m + 1)
        <4>5. a \in Nat /\ b \in Nat /\ a <= b /\ a # b /\ a >= m + 1
          BY <4>1, <4>4
        <4> HIDE DEF a, b
        <4>6. b >= (m + 1) + 1
          BY <4>5
        <4> QED BY <4>6 DEF b
      <3> QED BY <3>3, <3>4
    <2> HIDE DEF T
    <2>3. n \in T
      BY <1>1, <2>1, <2>2, SetInduction
    <2>4. n <= n
      BY <1>1
    <2> QED BY <2>3, <2>4 DEF T
  <1>13. Ended(n)
    <2> SUFFICES ASSUME ~Ended(n) PROVE FALSE
      OBVIOUS
    <2> DEFINE P == Pass(records, f[n])
    <2>0. n \in 0..n
      BY <1>1
    <2>1. P \subseteq N
      <3>1. N \in SUBSET N /\ \A r \in AliasesOf(records) : normalise_name(r.target) \in N
        BY DEF N, Nodes
      <3> QED BY <1>8, <2>0, <3>1 DEF Pass, AliasesOf
    <2>2. f[n] \in SUBSET P /\ f[n] # P
      BY <1>5
    <2> HIDE DEF P
    <2>3. IsFiniteSet(P) /\ Cardinality(P) <= Cardinality(N)
      BY <1>4, <2>1, FS_Subset
    <2>4. Cardinality(P) \in Nat
      BY <2>3, FS_CardinalityType
    <2>5. Cardinality(f[n]) <= Cardinality(P) /\ Cardinality(P) # Cardinality(f[n])
      BY <2>2, <2>3, FS_Subset
    <2>6. Size(n) \in Nat /\ Size(n) >= n + 1
      BY <1>11, <1>12, <2>0
    <2> DEFINE a == Size(n)
               b == Cardinality(P)
               c == Cardinality(N)
    <2>7. a \in Nat /\ b \in Nat /\ c \in Nat /\ a >= n + 1 /\ a <= b /\ a # b /\ b <= c /\ c <= n + 1
      BY <1>4, <2>3, <2>4, <2>5, <2>6
    <2> HIDE DEF a, b, c
    <2> QED BY <1>1, <2>7
  <1>14. IsClosed(f[n]) /\ f[n] \in SUBSET N
    BY <1>1, <1>7, <1>8, <1>10, <1>13
  <1>15. Reached(records, qname) \subseteq f[n]
    BY <1>3, <1>14
  <1>16. f[n] \subseteq Reached(records, qname)
    BY <1>3, <1>9, <1>14
  <1> QED BY <1>2, <1>15, <1>16

\* Converting an upstream's answer gives records.
LEMMA RecordsTyped ==
    ASSUME NEW answers \in Seq(AnswerRecord)
    PROVE lookup_to_dns_records(answers) \in Seq(AnswerRecord)
  <1> DEFINE I == {i \in DOMAIN answers : answers[i].type \in Represented}
             known == Select(answers, I)
  <1>1. known \in Seq(AnswerRecord)
    <2>1. I \subseteq DOMAIN answers
      OBVIOUS
    <2> HIDE DEF I
    <2> QED BY <2>1, SelectedSet
  <1>2. lookup_to_dns_records(answers) = [i \in DOMAIN known |-> record_to_dns_record(known[i])]
    BY DEF lookup_to_dns_records
  <1>3. \A r \in AnswerRecord : record_to_dns_record(r) \in AnswerRecord
    <2> TAKE r \in AnswerRecord
    <2>1. r.name \in DnsName
      BY DEF AnswerRecord
    <2>2. normalise_name(r.name) \in DnsName
      BY <2>1, NormalisedName
    <2> QED BY <2>2 DEF record_to_dns_record, AnswerRecord
  <1> HIDE DEF known
  <1>4. Len(known) \in Nat /\ DOMAIN known = 1..Len(known) /\ \A i \in 1..Len(known) : known[i] \in AnswerRecord
    BY <1>1
  <1>5. \A i \in 1..Len(known) : record_to_dns_record(known[i]) \in AnswerRecord
    BY <1>3, <1>4
  <1> QED BY <1>2, <1>4, <1>5

\* Of equal records the first is kept, so that each is left exactly once.
LEMMA DedupKeepsAll ==
    ASSUME NEW S, NEW s \in Seq(S)
    PROVE /\ dedup_identical(s) \in Seq(S)
          /\ ToSet(dedup_identical(s)) = ToSet(s)
          /\ Len(dedup_identical(s)) = Cardinality(ToSet(s))
  <1> DEFINE I == {i \in DOMAIN s : \A j \in 1..(i - 1) : s[j] # s[i]}
             f == [i \in I |-> s[i]]
  <1>0. Len(s) \in Nat /\ DOMAIN s = 1..Len(s)
    OBVIOUS
  <1>1. dedup_identical(s) = Select(s, I) /\ I \subseteq DOMAIN s
    BY DEF dedup_identical
  <1>2. ASSUME NEW k \in DOMAIN s PROVE \E i \in I : s[i] = s[k]
    <2> DEFINE T == {j \in DOMAIN s : s[j] = s[k]}
    <2>1. T \subseteq Nat /\ k \in T
      BY <1>0
    <2>2. PICK i \in T : \A y \in T : i <= y
      BY <2>1, Least
    <2>3. i \in DOMAIN s /\ s[i] = s[k]
      BY <2>2
    <2>4. ASSUME NEW j \in 1..(i - 1), s[j] = s[i] PROVE FALSE
      <3>1. j \in DOMAIN s /\ j < i
        BY <1>0, <2>3
      <3>2. j \in T
        BY <2>3, <2>4, <3>1
      <3> QED BY <1>0, <2>2, <2>3, <3>1, <3>2
    <2>5. i \in I
      BY <2>3, <2>4
    <2> QED BY <2>3, <2>5
  <1>3. ASSUME NEW i \in I, NEW k \in I, s[i] = s[k] PROVE i = k
    <2>1. i \in Nat /\ k \in Nat /\ i >= 1 /\ k >= 1
      BY <1>0
    <2>2. ~(i < k)
      <3> SUFFICES ASSUME i < k PROVE FALSE
        OBVIOUS
      <3>1. i \in 1..(k - 1)
        BY <2>1
      <3> QED BY <1>3, <3>1
    <2>3. ~(k < i)
      <3> SUFFICES ASSUME k < i PROVE FALSE
        OBVIOUS
      <3>1. k \in 1..(i - 1)
        BY <2>1
      <3> QED BY <1>3, <3>1
    <2> QED BY <2>1, <2>2, <2>3
  <1>4. ToSet(s) = {s[i] : i \in I}
    BY <1>1, <1>2 DEF ToSet
  <1> HIDE DEF I
  <1>5. /\ Select(s, I) \in Seq(S) /\ Len(Select(s, I)) = Cardinality(I) /\ IsFiniteSet(I)
        /\ ToSet(Select(s, I)) = {s[i] : i \in I}
    BY <1>1, SelectHolds, SelectedSet
  <1>6. f \in Bijection(I, ToSet(s))
    <2>1. f \in Injection(I, ToSet(s))
      BY <1>3, <1>4 DEF Injection, IsInjective
    <2>2. f \in Surjection(I, ToSet(s))
      BY <1>4 DEF Surjection
    <2> QED BY <2>1, <2>2 DEF Bijection
  <1>7. Cardinality(ToSet(s)) = Cardinality(I)
    <2>1. ExistsBijection(I, ToSet(s))
      BY <1>6 DEF ExistsBijection
    <2> QED BY <1>5, <2>1, FS_Bijection
  <1> QED BY <1>1, <1>4, <1>5, <1>7

\* What filter_answer_sanity leaves: the records of the type asked for and the
\* aliases, at allowed names, each once.
LEMMA SaneRecords ==
    ASSUME NEW records \in Seq(AnswerRecord), NEW qname, NEW qtype
    PROVE LET sane == filter_answer_sanity(records, qname, qtype)
              wanted == {r \in ToSet(records) : r.name \in Allowed(records, qname) /\ r.type \in {qtype, "CNAME"}}
          IN  sane \in Seq(AnswerRecord) /\ ToSet(sane) = wanted /\ Len(sane) = Cardinality(wanted)
  <1> DEFINE allowed == Allowed(records, qname)
             I == {i \in DOMAIN records : records[i].name \in allowed}
             a == Select(records, I)
             J == {i \in DOMAIN a : a[i].type \in {qtype, "CNAME"}}
             b == Select(a, J)
             wanted == {r \in ToSet(records) : r.name \in allowed /\ r.type \in {qtype, "CNAME"}}
  <1>1. filter_answer_sanity(records, qname, qtype) = dedup_identical(b)
    BY DEF filter_answer_sanity, filter_wrong_type, filter_out_of_bailiwick
  <1> HIDE DEF allowed
  <1>2. a \in Seq(AnswerRecord) /\ ToSet(a) = {r \in ToSet(records) : r.name \in allowed}
    <2>1. I \subseteq DOMAIN records
      OBVIOUS
    <2>2. {records[i] : i \in I} = {r \in ToSet(records) : r.name \in allowed}
      BY DEF ToSet
    <2> HIDE DEF I
    <2> QED BY <2>1, <2>2, SelectedSet
  <1> HIDE DEF a
  <1>3. b \in Seq(AnswerRecord) /\ ToSet(b) = {r \in ToSet(a) : r.type \in {qtype, "CNAME"}}
    <2>1. J \subseteq DOMAIN a
      OBVIOUS
    <2>2. {a[i] : i \in J} = {r \in ToSet(a) : r.type \in {qtype, "CNAME"}}
      BY DEF ToSet
    <2> HIDE DEF J
    <2> QED BY <1>2, <2>1, <2>2, SelectedSet
  <1> HIDE DEF b
  <1>4. ToSet(b) = wanted
    BY <1>2, <1>3
  <1> HIDE DEF wanted
  <1>5. /\ dedup_identical(b) \in Seq(AnswerRecord)
        /\ ToSet(dedup_identical(b)) = wanted /\ Len(dedup_identical(b)) = Cardinality(wanted)
    BY <1>3, <1>4, DedupKeepsAll
  <1> QED BY <1>1, <1>5 DEF wanted, allowed

\* Of an upstream's answer exactly the records survive that its aliases, in any
\* order, lead to from the question (filter_answer_sanity), for answers of any
\* length.
THEOREM AnswerOnTopic ==
    ASSUME NEW answers \in Seq(AnswerRecord), NEW qname, NEW qtype
    PROVE AnswerStaysOnTopic(answers, qname, qtype)
  <1> DEFINE records == lookup_to_dns_records(answers)
  <1>1. records \in Seq(AnswerRecord)
    BY RecordsTyped
  <1>2. FilterAnswer(answers, qname, qtype, FALSE) = filter_answer_sanity(records, qname, qtype)
    BY DEF FilterAnswer
  <1>3. Allowed(records, qname) = Reached(records, qname)
    BY <1>1, AllowedIsReached
  <1> DEFINE sane == filter_answer_sanity(records, qname, qtype)
             wanted == {r \in ToSet(records) : r.name \in Reached(records, qname) /\ r.type \in {qtype, "CNAME"}}
  <1>4. ToSet(sane) = wanted /\ Len(sane) = Cardinality(wanted)
    <2> HIDE DEF records
    <2> QED BY <1>1, <1>3, SaneRecords
  <1>5. AnswerStaysOnTopic(answers, qname, qtype) <=> ToSet(sane) = wanted /\ Len(sane) = Cardinality(wanted)
    BY <1>2 DEF AnswerStaysOnTopic
  <1> QED BY <1>4, <1>5

\* An address is private exactly if it is some spelling of a private host.
LEMMA PrivateHosts ==
    ASSUME NEW ip \in Addresses
    PROVE is_private_or_internal(ip) <=>
            \E p \in {V4(b) : b \in PrivateV4} \cup
                     {V6(b) : b \in {x \in PrivateV6 : ~IsMapped(V6(x))}} : SameHost(p, ip)
  <1> DEFINE h == Unmapped(ip)
             Four == {V4(b) : b \in PrivateV4}
             Six == {V6(b) : b \in {x \in PrivateV6 : ~IsMapped(V6(x))}}
  <1>1. h \in Addresses /\ ~IsMapped(h)
    BY UnmappedAddress
  <1>2. /\ h.family \in {"v4", "v6"}
        /\ h.family = "v4" => h = V4(h.bits)
        /\ h.family = "v6" => h = V6(h.bits)
    BY <1>1, AddressShape
  <1>3. \A b : V4(b).family = "v4" /\ V4(b).bits = b /\ V6(b).family = "v6" /\ V6(b).bits = b
    BY DEF V4, V6
  <1>4. \A p \in Four : Unmapped(p) = p
    BY <1>3 DEF Unmapped, IsMapped
  <1>5. \A p \in Six : Unmapped(p) = p
    BY DEF Unmapped
  <1>6. is_private_or_internal(ip) <=> h.bits \in IF h.family = "v4" THEN PrivateV4 ELSE PrivateV6
    BY DEF is_private_or_internal
  <1> HIDE DEF h
  <1>7. h.bits \in (IF h.family = "v4" THEN PrivateV4 ELSE PrivateV6) <=> h \in Four \cup Six
    <2>1. CASE h.family = "v4"
      <3>1. h.bits \in PrivateV4 <=> h \in Four
        BY <1>2, <1>3, <2>1
      <3>2. h \notin Six
        BY <1>3, <2>1
      <3> QED BY <2>1, <3>1, <3>2
    <2>2. CASE h.family = "v6"
      <3>1. h.bits \in PrivateV6 <=> h \in Six
        BY <1>1, <1>2, <1>3, <2>2
      <3>2. h \notin Four
        BY <1>3, <2>2
      <3> QED BY <2>2, <3>1, <3>2
    <2> QED BY <1>2, <2>1, <2>2
  <1>8. h \in Four \cup Six <=> \E p \in Four \cup Six : SameHost(p, ip)
    <2>1. \A p \in Four \cup Six : SameHost(p, ip) <=> p = h
      BY <1>4, <1>5 DEF SameHost, h
    <2> HIDE DEF Four, Six
    <2> QED BY <2>1
  <1> QED BY <1>6, <1>7, <1>8

\* With the rebinding defence no address of a private host survives, in any
\* spelling, and nothing else is lost (filter_private_rdata).
THEOREM NoPrivateAnswer ==
    ASSUME NEW answers \in Seq(AnswerRecord), NEW qname, NEW qtype
    PROVE NoPrivateHost(answers, qname, qtype)
  <1> DEFINE records == lookup_to_dns_records(answers)
             sane == filter_answer_sanity(records, qname, qtype)
             Open(r) == r.type \in {"A", "AAAA"} => ~is_private_or_internal(r.ip)
             I == {i \in DOMAIN sane : Open(sane[i])}
             Private == {V4(b) : b \in PrivateV4} \cup
                        {V6(b) : b \in {x \in PrivateV6 : ~IsMapped(V6(x))}}
  <1>1. sane \in Seq(AnswerRecord)
    <2>1. records \in Seq(AnswerRecord)
      BY RecordsTyped
    <2> QED BY <2>1, SaneRecords
  <1>2. /\ FilterAnswer(answers, qname, qtype, FALSE) = sane
        /\ FilterAnswer(answers, qname, qtype, TRUE) = filter_private_rdata(sane)
    BY DEF FilterAnswer
  <1> HIDE DEF sane
  <1>3. filter_private_rdata(sane) = Select(sane, I)
    BY DEF filter_private_rdata
  <1>4. ToSet(Select(sane, I)) = {r \in ToSet(sane) : Open(r)}
    <2>1. I \subseteq DOMAIN sane
      OBVIOUS
    <2>2. {sane[i] : i \in I} = {r \in ToSet(sane) : Open(r)}
      BY DEF ToSet
    <2> HIDE DEF I
    <2> QED BY <1>1, <2>1, <2>2, SelectedSet
  <1>5. ASSUME NEW r \in ToSet(sane)
        PROVE ~Open(r) <=> r.type \in {"A", "AAAA"} /\ \E ip \in Private : SameHost(ip, r.ip)
    <2>1. r \in AnswerRecord
      BY <1>1 DEF ToSet
    <2>2. r.ip \in Addresses
      BY <2>1 DEF AnswerRecord
    <2>3. is_private_or_internal(r.ip) <=> \E ip \in Private : SameHost(ip, r.ip)
      BY <2>2, PrivateHosts
    <2> HIDE DEF Private
    <2> QED BY <2>3
  <1> HIDE DEF Private, Open
  <1>6. \A r \in ToSet(sane) : r \notin ToSet(filter_private_rdata(sane)) <=>
           r.type \in {"A", "AAAA"} /\ \E ip \in Private : SameHost(ip, r.ip)
    BY <1>3, <1>4, <1>5
  <1> QED BY <1>2, <1>6 DEF NoPrivateHost, Private

-----------------------------------------------------------------------------
(* Configurations.                                                         *)

\* Two binds that receive the packets of one address compete for it.
LEMMA CompetingReceivers ==
    ASSUME NEW a, NEW b, a.ip \in Addresses, b.ip \in Addresses,
           NEW ip \in Addresses, Receives(a, ip), Receives(b, ip)
    PROVE addrs_compete(a.ip, b.ip)
  <1> DEFINE x == Unmapped(a.ip)
             y == Unmapped(b.ip)
             h == Unmapped(ip)
  <1>1. x.family \in {"v4", "v6"} /\ y.family \in {"v4", "v6"} /\ h.family \in {"v4", "v6"}
    BY UnmappedAddress, AddressShape
  <1>2. x = h \/ (IsUnspecified(x) /\ (x.family = "v6" \/ h.family = "v4"))
    BY DEF Receives
  <1>3. y = h \/ (IsUnspecified(y) /\ (y.family = "v6" \/ h.family = "v4"))
    BY DEF Receives
  <1>4. addrs_compete(a.ip, b.ip) <=>
           \/ x.family = y.family /\ (x = y \/ IsUnspecified(x) \/ IsUnspecified(y))
           \/ x.family = "v6" /\ y.family = "v4" /\ IsUnspecified(x)
           \/ x.family = "v4" /\ y.family = "v6" /\ IsUnspecified(y)
    BY DEF addrs_compete
  <1> HIDE DEF x, y, h
  <1> QED BY <1>1, <1>2, <1>3, <1>4

\* The loopback addresses are addresses.
LEMMA LocalhostAddresses == V4(LocalhostV4) \in Addresses /\ V6(1) \in Addresses
  <1>1. LocalhostV4 \in 0..(2^V4Bits - 1)
    BY ConfigAssumption, PowerPositive, AddressAssumption
  <1>2. 1 \in 0..(2^V6Bits - 1)
    <2>1. V6Bits - 1 \in Nat /\ V6Bits - 1 <= V6Bits /\ (V6Bits - 1) + 1 = V6Bits
          /\ V6Bits - 1 \in 0..(V6Bits - 1)
      BY AddressAssumption
    <2>2. 2^(V6Bits - 1) \in Nat \ {0}
      BY <2>1, PowerPositive
    <2>3. 2^((V6Bits - 1) + 1) = 2 * 2^(V6Bits - 1)
      BY <2>1, PowerAssumption
    <2> QED BY <2>1, <2>2, <2>3
  <1> QED BY <1>1, <1>2 DEF Addresses

\* The daemon binds the metrics endpoint where the check of the configuration
\* believes it does.
LEMMA MetricsBind ==
    ASSUME NEW metrics, metrics.listen \in BindRecord
    PROVE /\ effective_listen(metrics) \in BindRecord
          /\ metrics_listen_addr(metrics) = effective_listen(metrics)
  <1>1. metrics.listen.ip \in Addresses
    BY DEF BindRecord
  <1>2. Unmapped(metrics.listen.ip) \in Addresses
    BY <1>1, UnmappedAddress
  <1>3. metrics_listen_addr(metrics) = effective_listen(metrics)
    BY DEF metrics_listen_addr, effective_listen
  <1>4. effective_listen(metrics) \in BindRecord
    <2> DEFINE to == IF IsLoopback(Unmapped(metrics.listen.ip)) THEN Unmapped(metrics.listen.ip)
                     ELSE IF Unmapped(metrics.listen.ip).family = "v6" THEN V6(1) ELSE V4(LocalhostV4)
    <2>1. to \in Addresses
      BY <1>2, LocalhostAddresses
    <2>2. effective_listen(metrics) = [metrics.listen EXCEPT !.ip = to]
      BY DEF effective_listen
    <2> HIDE DEF to
    <2> QED BY <2>1, <2>2 DEF BindRecord
  <1> QED BY <1>3, <1>4

\* A listener has one of the binds of its role.
LEMMA ListenerBinds ==
    ASSUME NEW role, NEW binds \in Seq(BindRecord), NEW l \in Listener(role, binds)
    PROVE l.at \in BindRecord /\ l = [role |-> l.role, at |-> l.at]
  <1>1. PICK i \in DOMAIN binds : l = [role |-> role, at |-> binds[i]]
    BY DEF Listener, ToSet
  <1> QED BY <1>1

\* Listeners that are apart receive no packet twice.
LEMMA ApartReceivers ==
    ASSUME NEW L, Apart(L), \A l \in L : l.at \in BindRecord,
           NEW s \in L, NEW t \in L, s.at.port = t.at.port, s.role # t.role, NEW ip \in Addresses
    PROVE ~(Receives(s.at, ip) /\ Receives(t.at, ip))
  <1>1. ~addrs_compete(s.at.ip, t.at.ip)
    BY DEF Apart
  <1>2. s.at.ip \in Addresses /\ t.at.ip \in Addresses
    BY DEF BindRecord
  <1> QED BY <1>1, <1>2, CompetingReceivers

\* No address and port of an accepted configuration is received by two roles,
\* wherever the daemon binds them in the end (validate_config,
\* effective_listen).
THEOREM ListenersKeepApart ==
    ASSUME NEW config \in ConfigRecord
    PROVE RolesApart(config)
  <1> SUFFICES ASSUME validate_config(config),
                      NEW s \in Bound(config), NEW t \in Bound(config),
                      s.transport = t.transport, s.at.port = t.at.port, s.role # t.role,
                      NEW ip \in Addresses, Receives(s.at, ip), Receives(t.at, ip)
               PROVE FALSE
    BY DEF RolesApart
  <1> DEFINE sv == config.server
             plain == Listener("plain", sv.listen)
             udp == plain \cup Listener("doq", sv.doq)
             tcp == plain \cup Listener("dot", sv.dot) \cup Listener("doh", sv.doh)
                      \cup Listener("metrics", <<effective_listen(config.metrics)>>)
             On(transport, listeners) ==
                {[transport |-> transport, role |-> l.role, at |-> l.at] : l \in listeners}
  <1>1. /\ sv.listen \in Seq(BindRecord) /\ sv.doq \in Seq(BindRecord)
        /\ sv.dot \in Seq(BindRecord) /\ sv.doh \in Seq(BindRecord)
        /\ config.metrics.listen \in BindRecord
    BY DEF ConfigRecord, ServerRecord
  <1>2. /\ effective_listen(config.metrics) \in BindRecord
        /\ metrics_listen_addr(config.metrics) = effective_listen(config.metrics)
    BY <1>1, MetricsBind
  <1>3. Apart(tcp) /\ Apart(udp)
    BY DEF validate_config, ListenersApart
  <1>4. Bound(config) = On("udp", udp) \cup On("tcp", tcp)
    BY <1>2 DEF Bound
  <1>5. <<effective_listen(config.metrics)>> \in Seq(BindRecord)
    BY <1>2
  <1> HIDE DEF sv
  <1>6. \A l \in tcp : l.at \in BindRecord
    BY <1>1, <1>5, ListenerBinds
  <1>7. \A l \in udp : l.at \in BindRecord
    BY <1>1, ListenerBinds
  <1> HIDE DEF udp, tcp
  <1>8. CASE s.transport = "udp"
    <2>1. \A b \in Bound(config) : b.transport = "udp" => \E l \in udp : b.role = l.role /\ b.at = l.at
      BY <1>4
    <2>2. PICK k \in udp : s.role = k.role /\ s.at = k.at
      BY <1>8, <2>1
    <2>3. PICK l \in udp : t.role = l.role /\ t.at = l.at
      BY <1>8, <2>1
    <2> QED BY <1>3, <1>7, <2>2, <2>3, ApartReceivers
  <1>9. CASE s.transport = "tcp"
    <2>1. \A b \in Bound(config) : b.transport = "tcp" => \E l \in tcp : b.role = l.role /\ b.at = l.at
      BY <1>4
    <2>2. PICK k \in tcp : s.role = k.role /\ s.at = k.at
      BY <1>9, <2>1
    <2>3. PICK l \in tcp : t.role = l.role /\ t.at = l.at
      BY <1>9, <2>1
    <2> QED BY <1>3, <1>6, <2>2, <2>3, ApartReceivers
  <1>10. s.transport \in {"udp", "tcp"}
    BY <1>4
  <1> QED BY <1>8, <1>9, <1>10

\* Whether a policy names a client.
Names(p, src) == \E c \in ToSet(p.client) : c.ok /\ Unmapped(c.ip) = Unmapped(src)

\* A client gets no policy, or the compiled form of one that names it.
LEMMA PolicyFound ==
    ASSUME NEW config, config.policy \in Seq(PolicyRecord), PolicyValid(config), NEW src
    PROVE \/ /\ PolicyOf(config, src) = <<>>
             /\ \A i \in DOMAIN config.policy : ~Names(config.policy[i], src)
          \/ \E i \in DOMAIN config.policy :
                /\ Names(config.policy[i], src)
                /\ PolicyOf(config, src) =
                     <<[schedule |-> compile(config.policy[i].windows), group |-> config.policy[i].group]>>
  <1> DEFINE mine == {i \in DOMAIN config.policy : Names(config.policy[i], src)}
             p == config.policy[Max(mine)]
             compiled == \A j \in DOMAIN p.windows : WindowValid(p.windows[j])
             one == [schedule |-> IF compiled THEN compile(p.windows) ELSE <<>>, group |-> p.group]
  <1>1. PolicyOf(config, src) = IF mine = {} THEN <<>> ELSE <<one>>
    BY DEF PolicyOf, Names
  <1>2. CASE mine = {}
    BY <1>1, <1>2
  <1>3. CASE mine # {}
    <2>1. mine \subseteq 1..Len(config.policy) /\ Len(config.policy) \in Nat
      OBVIOUS
    <2> HIDE DEF mine
    <2>2. Max(mine) \in mine
      BY <1>3, <2>1, MaxOfBounded
    <2>3. compiled
      BY <2>2 DEF PolicyValid, mine
    <2>4. PolicyOf(config, src) = <<[schedule |-> compile(p.windows), group |-> p.group]>>
      BY <1>1, <1>3, <2>3
    <2> QED BY <2>2, <2>4 DEF mine
  <1> QED BY <1>2, <1>3

\* The group of every policy of an accepted configuration exists.
LEMMA GroupsExist ==
    ASSUME NEW config, config.policy \in Seq(PolicyRecord), PolicyValid(config),
           NEW i \in DOMAIN config.policy, NEW other, other.blocklist.groups = config.blocklist.groups
    PROVE ListFor(other, config.policy[i].group) = config.policy[i].group
  <1> DEFINE group == config.policy[i].group
  <1>1. group \in Seq(STRING)
    <2>1. config.policy[i] \in PolicyRecord
      OBVIOUS
    <2> QED BY <2>1 DEF PolicyRecord
  <1>2. CASE ToSet(group) = {}
    <2> HIDE DEF group
    <2>1. Len(group) \in Nat /\ (Len(group) > 0 => 1 \in DOMAIN group)
      BY <1>1
    <2>2. DOMAIN group = {}
      BY <1>2 DEF ToSet
    <2>3. group = <<>>
      BY <1>1, <2>1, <2>2
    <2> QED BY <1>2, <2>3 DEF ListFor, group
  <1>3. CASE ToSet(group) # {}
    <2>1. PICK want \in ToSet(group) : TRUE
      BY <1>3
    <2>2. \E k \in DOMAIN config.blocklist.groups : config.blocklist.groups[k].name = want
      BY <2>1 DEF PolicyValid
    <2>3. \E g \in ToSet(other.blocklist.groups) : g.name = want
      BY <2>2 DEF ToSet
    <2> QED BY <2>1, <2>3 DEF ListFor
  <1> QED BY <1>2, <1>3

\* A section of which no field is reported has changed in none of them.
LEMMA Unchanged ==
    ASSUME NEW section, NEW fields, NEW old, NEW new, ChangedFields(section, fields, old, new) = {}
    PROVE \A f \in fields : old[section][f] = new[section][f]
  BY DEF ChangedFields

\* What a SIGHUP does not follow is what restart_required_changes names and the
\* changed settings it never compares.
LEMMA NotFollowedParts ==
    ASSUME NEW startup \in ConfigRecord, NEW new \in ConfigRecord,
           validate_config(startup), validate_config(new)
    PROVE NotFollowed(startup, new) =
              restart_required_changes(startup, new)
                \cup UNION {ChangedFields(section, Silent[section], startup, new) : section \in DOMAIN Silent}
  <1> DEFINE running == InForce(startup, new)
             Of(section, fields) == ChangedFields(section, fields, startup, new)
             sections == {"blocklist", "authority", "privacy"}
  <1>1. \A section \in sections : running[section] = startup[section]
    BY DEF InForce, ConfigRecord
  <1>2. \A section \in sections : \A fields : ChangedFields(section, fields, running, new) = Of(section, fields)
    BY <1>1 DEF ChangedFields
  <1>3. NotFollowed(startup, new) =
          Of("blocklist", DOMAIN new["blocklist"]) \cup Of("authority", DOMAIN new["authority"])
            \cup Of("privacy", DOMAIN new["privacy"])
    <2> HIDE DEF running, Of
    <2>1. NotFollowed(startup, new) = UNION {ChangedFields(x, DOMAIN new[x], running, new) : x \in sections}
      BY DEF NotFollowed, running
    <2>2. NotFollowed(startup, new) = UNION {Of(x, DOMAIN new[x]) : x \in sections}
      BY <1>2, <2>1
    <2> QED BY <2>2
  <1>4. UNION {Of(section, Silent[section]) : section \in DOMAIN Silent} =
          Of("blocklist", Silent.blocklist) \cup Of("authority", Silent.authority)
            \cup Of("privacy", Silent.privacy)
    <2> HIDE DEF Of
    <2>1. DOMAIN Silent = sections
      BY DEF Silent
    <2> QED BY <2>1
  <1>5. Of("blocklist", DOMAIN new["blocklist"]) = Of("blocklist", Compared.blocklist) \cup Of("blocklist", Silent.blocklist)
    <2> DEFINE all == DOMAIN new["blocklist"]
               some == Compared.blocklist
               rest == Silent.blocklist
               same == {}
    <2>1. all = some \cup rest \cup same
      BY DEF ConfigRecord, BlocklistRecord, Compared, Silent
    <2>2. \A f \in same : startup["blocklist"][f] = new["blocklist"][f]
      OBVIOUS
    <2> HIDE DEF all, some, rest, same
    <2>3. ChangedFields("blocklist", all, startup, new) =
              ChangedFields("blocklist", some, startup, new) \cup ChangedFields("blocklist", rest, startup, new)
      BY ONLY <2>1, <2>2 DEF ChangedFields
    <2> QED BY <2>3 DEF all, some, rest
  <1>6. Of("authority", DOMAIN new["authority"]) = Of("authority", Compared.authority) \cup Of("authority", Silent.authority)
    <2> DEFINE all == DOMAIN new["authority"]
               some == Compared.authority
               rest == Silent.authority
               same == {"dotted"}
    <2>1. all = some \cup rest \cup same
      BY DEF ConfigRecord, AuthorityRecord, Compared, Silent
    <2>2. \A f \in same : startup["authority"][f] = new["authority"][f]
      BY DEF validate_config, ZonesValid, ConfigRecord, AuthorityRecord
    <2> HIDE DEF all, some, rest, same
    <2>3. ChangedFields("authority", all, startup, new) =
              ChangedFields("authority", some, startup, new) \cup ChangedFields("authority", rest, startup, new)
      BY ONLY <2>1, <2>2 DEF ChangedFields
    <2> QED BY <2>3 DEF all, some, rest
  <1>7. Of("privacy", DOMAIN new["privacy"]) = Of("privacy", Compared.privacy) \cup Of("privacy", Silent.privacy)
    <2> DEFINE all == DOMAIN new["privacy"]
               some == Compared.privacy
               rest == Silent.privacy
               same == {}
    <2>1. all = some \cup rest \cup same
      BY DEF ConfigRecord, PrivacyRecord, Compared, Silent
    <2>2. \A f \in same : startup["privacy"][f] = new["privacy"][f]
      OBVIOUS
    <2> HIDE DEF all, some, rest, same
    <2>3. ChangedFields("privacy", all, startup, new) =
              ChangedFields("privacy", some, startup, new) \cup ChangedFields("privacy", rest, startup, new)
      BY ONLY <2>1, <2>2 DEF ChangedFields
    <2> QED BY <2>3 DEF all, some, rest
  <1>8. restart_required_changes(startup, new) =
          Of("blocklist", Compared.blocklist) \cup Of("authority", Compared.authority)
            \cup Of("privacy", Compared.privacy)
    BY DEF restart_required_changes
  <1> HIDE DEF Of
  <1> QED BY <1>3, <1>4, <1>5, <1>6, <1>7, <1>8 DEF Of

\* What a SIGHUP leaves as it was is what it warns of and the settings it never
\* compares; without a warning every client has the schedule, the group, the
\* allowlists, the refused addresses and the local names of the new
\* configuration (restart_required_changes), for any two accepted ones.
THEOREM ReloadIsRestart ==
    ASSUME NEW startup \in ConfigRecord, NEW new \in ConfigRecord, NEW Srcs, NEW Asked
    PROVE ReloadLikeRestart(startup, new, Srcs, Asked)
  <1> DEFINE running == InForce(startup, new)
             Local(config) == build_snapshot(config.authority, <<>>)
             Allows(config, group, name) ==
                \/ is_allowed(from_entries(config.blocklist.allowlist), name)
                \/ \E g \in ToSet(config.blocklist.groups) :
                      <<g.name>> = ListFor(config, group) /\ is_allowed(from_entries(g.allowlist), name)
             GroupOf(found) == IF found = <<>> THEN <<>> ELSE found[1].group
  <1> SUFFICES ASSUME validate_config(startup), validate_config(new), restart_required_changes(startup, new) = {}
               PROVE /\ EngineDenylist(running) = EngineDenylist(new)
                     /\ Local(running) = Local(new)
                     /\ \A src \in Srcs :
                          /\ PolicyOf(running, src) = PolicyOf(new, src)
                          /\ ListFor(running, GroupOf(PolicyOf(running, src))) = GroupOf(PolicyOf(running, src))
                          /\ \A name \in Asked :
                               Allows(running, GroupOf(PolicyOf(running, src)), name)
                                 <=> Allows(new, GroupOf(PolicyOf(running, src)), name)
    BY NotFollowedParts DEF ReloadLikeRestart, validate_only
  <1>1. /\ running.blocklist = startup.blocklist /\ running.authority = startup.authority
        /\ running.policy = new.policy
    BY DEF InForce, ConfigRecord
  <1>2. /\ startup.blocklist.allowlist = new.blocklist.allowlist
        /\ startup.blocklist.denylist = new.blocklist.denylist
        /\ startup.blocklist.groups = new.blocklist.groups
    <2>1. ChangedFields("blocklist", Compared.blocklist, startup, new) = {}
      BY DEF restart_required_changes
    <2>2. {"allowlist", "denylist", "groups"} \subseteq Compared.blocklist
      BY DEF Compared
    <2> QED BY <2>1, <2>2, Unchanged
  <1>3. /\ startup.authority.mesh = new.authority.mesh
        /\ startup.authority.zones = new.authority.zones
        /\ startup.authority.static = new.authority.static
    <2>1. ChangedFields("authority", Compared.authority, startup, new) = {}
      BY DEF restart_required_changes
    <2>2. {"mesh", "zones", "static"} \subseteq Compared.authority
      BY DEF Compared
    <2> QED BY <2>1, <2>2, Unchanged
  <1> HIDE DEF running
  <1>4. EngineDenylist(running) = EngineDenylist(new)
    BY <1>1, <1>2 DEF EngineDenylist
  <1>5. Local(running) = Local(new)
    <2>1. MeshZone(running.authority) = MeshZone(new.authority)
      BY <1>1, <1>3 DEF MeshZone
    <2>2. DeclaredZones(running.authority) = DeclaredZones(new.authority)
      BY <1>1, <1>3 DEF DeclaredZones
    <2>3. StaticRecords(running.authority) = StaticRecords(new.authority)
      BY <1>1, <1>3 DEF StaticRecords
    <2>4. StaticZones(running.authority) = StaticZones(new.authority)
      BY <2>1, <2>2, <2>3 DEF StaticZones
    <2>5. MeshRecords(running.authority, <<>>) = MeshRecords(new.authority, <<>>)
      BY <2>1 DEF MeshRecords
    <2> QED BY <2>3, <2>4, <2>5 DEF build_snapshot
  <1>6. ASSUME NEW src \in Srcs
        PROVE /\ PolicyOf(running, src) = PolicyOf(new, src)
              /\ ListFor(running, GroupOf(PolicyOf(running, src))) = GroupOf(PolicyOf(running, src))
              /\ \A name \in Asked :
                   Allows(running, GroupOf(PolicyOf(running, src)), name)
                     <=> Allows(new, GroupOf(PolicyOf(running, src)), name)
    <2> DEFINE group == GroupOf(PolicyOf(new, src))
    <2>1. PolicyOf(running, src) = PolicyOf(new, src)
      BY <1>1 DEF PolicyOf
    <2>2. new.policy \in Seq(PolicyRecord) /\ PolicyValid(new)
      BY DEF ConfigRecord, validate_config
    <2>3. ListFor(running, group) = group
      <3>1. CASE PolicyOf(new, src) = <<>>
        <4>1. group = <<>>
          BY <3>1
        <4> HIDE DEF group
        <4> QED BY <4>1 DEF ListFor
      <3>2. CASE PolicyOf(new, src) # <<>>
        <4>1. PICK i \in DOMAIN new.policy :
                PolicyOf(new, src) =
                     <<[schedule |-> compile(new.policy[i].windows), group |-> new.policy[i].group]>>
          BY <2>2, <3>2, PolicyFound
        <4>2. group = new.policy[i].group
          BY <3>2, <4>1
        <4> HIDE DEF group
        <4> QED BY <1>1, <1>2, <2>2, <4>1, <4>2, GroupsExist
      <3> QED BY <3>1, <3>2
    <2>4. \A g : ListFor(running, g) = ListFor(new, g)
      BY <1>1, <1>2 DEF ListFor
    <2>5. \A g, name : Allows(running, g, name) <=> Allows(new, g, name)
      BY <1>1, <1>2, <2>4
    <2> QED BY <2>1, <2>3, <2>5
  <1> QED BY <1>4, <1>5, <1>6

\* Stripping a leading label shortens a name by it or leaves it alone.
LEMMA StrippedLength ==
    ASSUME NEW typed \in DnsName, NEW label
    PROVE /\ Stripped(typed, label) \in DnsName
          /\ Len(Stripped(typed, label)) <= Len(typed)
          /\ Len(typed) > 0 /\ typed[1] = label => Len(Stripped(typed, label)) < Len(typed)
          /\ Len(typed) > 0 /\ typed[1] # label => Stripped(typed, label) = typed
  <1> DEFINE I == {i \in 1..Len(typed) : typed[i] # label}
             first == IF I # {} THEN Min(I) ELSE 0
  <1>1. Stripped(typed, label) = IF first = 0 THEN <<>> ELSE SubSeq(typed, first, Len(typed))
    BY DEF Stripped, SelectInSeq
  <1>2. Len(typed) \in Nat /\ <<>> \in DnsName /\ Len(<<>>) = 0
    BY EmptySeq DEF DnsName
  <1>3. CASE I = {}
    <2>1. Stripped(typed, label) = <<>>
      BY <1>1, <1>3
    <2>2. Len(typed) > 0 => 1 \in 1..Len(typed)
      BY <1>2
    <2>3. Len(typed) > 0 => ~(typed[1] # label)
      BY <1>3, <2>2
    <2> QED BY <1>2, <2>1, <2>3
  <1>4. CASE I # {}
    <2>1. I \subseteq Nat
      OBVIOUS
    <2>2. first \in I /\ \A y \in I : first <= y
      BY <1>4, <2>1, LeastOf
    <2>3. first \in 1..Len(typed) /\ first # 0
      BY <2>2
    <2>4. Stripped(typed, label) = SubSeq(typed, first, Len(typed))
      BY <1>1, <2>3
    <2>5. Len(typed) > 0 /\ typed[1] = label => first # 1
      BY <2>2
    <2>6. Len(typed) > 0 /\ typed[1] # label => first = 1
      <3>1. Len(typed) > 0 /\ typed[1] # label => 1 \in I
        BY <1>2
      <3> QED BY <2>2, <2>3, <3>1
    <2> HIDE DEF first, I
    <2>7. /\ SubSeq(typed, first, Len(typed)) \in Seq(STRING)
          /\ Len(SubSeq(typed, first, Len(typed))) = Len(typed) - first + 1
      BY <2>3, SuffixFrom DEF DnsName
    <2>8. SubSeq(typed, 1, Len(typed)) = typed
      BY SubSeqFull DEF DnsName
    <2>9. Len(typed) - first + 1 <= Len(typed) /\ (first # 1 => Len(typed) - first + 1 < Len(typed))
      BY <1>2, <2>3
    <2> QED BY <2>4, <2>5, <2>6, <2>7, <2>8, <2>9 DEF DnsName
  <1> QED BY <1>3, <1>4

\* A wildcard entry that keeps two labels without its wildcard has three.
LEMMA WildcardKeepsTwo ==
    ASSUME NEW typed \in DnsName, IsWildcard(typed), Len(Bare(typed)) > 1
    PROVE Len(typed) > 2
  <1> DEFINE none == ""
             s == Stripped(typed, "*")
  <1>1. Len(typed) > 1 /\ (typed[1] = "*" \/ typed[1] = none)
    BY DEF IsWildcard
  <1>2. Bare(typed) = Stripped(s, none)
    BY DEF Bare
  <1>3. none # "*"
    BY Zenon
  <1> HIDE DEF none
  <1>4. Len(typed) \in Nat
    BY DEF DnsName
  <1>5. s \in DnsName /\ Len(s) <= Len(typed)
    BY StrippedLength
  <1>6. Len(s) \in Nat /\ Stripped(s, none) \in DnsName /\ Len(Stripped(s, none)) <= Len(s)
    BY <1>5, StrippedLength DEF DnsName
  <1>7. Len(Stripped(s, none)) \in Nat
    BY <1>6 DEF DnsName
  <1>8. CASE typed[1] = "*"
    <2>1. Len(s) < Len(typed)
      BY <1>1, <1>4, <1>8, StrippedLength
    <2> QED BY <1>2, <1>4, <1>6, <1>7, <2>1
  <1>9. CASE typed[1] = none
    <2>1. s = typed
      BY <1>1, <1>3, <1>4, <1>9, StrippedLength
    <2>2. Len(Stripped(s, none)) < Len(s)
      BY <1>1, <1>4, <1>9, <2>1, StrippedLength
    <2> QED BY <1>2, <1>4, <1>7, <2>1, <2>2
  <1> QED BY <1>1, <1>8, <1>9

\* Addresses parse together exactly if they parse in both parts.
LEMMA AllOkOfParts ==
    ASSUME NEW a \in Seq(BindRecord), NEW b \in Seq(BindRecord)
    PROVE AllOk(a \o b) <=> AllOk(a) /\ AllOk(b)
  <1>1. /\ Len(a) \in Nat /\ Len(b) \in Nat
        /\ DOMAIN a = 1..Len(a) /\ DOMAIN b = 1..Len(b) /\ DOMAIN (a \o b) = 1..(Len(a) + Len(b))
        /\ \A i \in 1..Len(a) : (a \o b)[i] = a[i]
        /\ \A i \in 1..Len(b) : (a \o b)[Len(a) + i] = b[i]
    OBVIOUS
  <1> DEFINE c == a \o b
  <1> HIDE DEF c
  <1>2. ASSUME AllOk(c), c = a \o b PROVE AllOk(a) /\ AllOk(b)
    <2>1. ASSUME NEW i \in DOMAIN a PROVE a[i].ok
      <3>1. i \in 1..Len(a) /\ i \in 1..(Len(a) + Len(b))
        BY <1>1
      <3> QED BY <1>1, <1>2, <3>1 DEF AllOk
    <2>2. ASSUME NEW i \in DOMAIN b PROVE b[i].ok
      <3>1. i \in 1..Len(b) /\ Len(a) + i \in 1..(Len(a) + Len(b))
        BY <1>1
      <3> QED BY <1>1, <1>2, <3>1 DEF AllOk
    <2> QED BY <2>1, <2>2 DEF AllOk
  <1>3. ASSUME AllOk(a), AllOk(b), c = a \o b PROVE AllOk(c)
    <2>1. ASSUME NEW i \in DOMAIN c PROVE c[i].ok
      <3>1. i \in 1..Len(a) \/ (i - Len(a) \in 1..Len(b) /\ i = Len(a) + (i - Len(a)))
        BY <1>1, <1>3
      <3> QED BY <1>1, <1>3, <3>1 DEF AllOk
    <2> QED BY <2>1 DEF AllOk
  <1> QED BY <1>2, <1>3 DEF c

\* A configuration that logs to disk names a path.
LEMMA DiskPathSet ==
    ASSUME NEW config, PrivacyValid(config), config.privacy.to_disk
    PROVE config.privacy.path # "unset"
  <1> DEFINE p == config.privacy
  <1>1. p.to_disk => p.path = "set"
    BY DEF PrivacyValid
  <1> QED BY <1>1

\* The daemon starts with an accepted configuration exactly when nothing that
\* validation overlooks is wrong: the metrics path, the privileged ports bound
\* after drop_capabilities, the upstream URLs without a usable host (main).
THEOREM AcceptedConfigStarts ==
    ASSUME NEW config \in ConfigRecord
    PROVE AcceptedStarts(config)
  <1> DEFINE u == config.upstream
             s == config.server
             SomeUsable(urls) == \E i \in DOMAIN urls : urls[i].usable
             NoneUsable(urls) == \A i \in DOMAIN urls : ~urls[i].usable
  <1> SUFFICES ASSUME validate_config(config), Accepts(config.authority)
               PROVE Starts(config) <=> ~Overlooked(config)
    BY DEF AcceptedStarts, validate_only
  <1>1. /\ u.resolvers \in Seq(UrlRecord) /\ u.routes \in Seq(RouteRecord)
        /\ s.listen \in Seq(BindRecord) /\ s.dot \in Seq(BindRecord)
        /\ s.doq \in Seq(BindRecord) /\ s.doh \in Seq(BindRecord)
    BY DEF ConfigRecord, UpstreamRecord, ServerRecord
  <1>2. \A urls : SomeUsable(urls) <=> ~NoneUsable(urls)
    OBVIOUS
  <1>3. ResolverBuilds(config) <=>
          /\ u.protocol = "odoh" => \A i \in DOMAIN u.resolvers : u.resolvers[i].usable
          /\ u.protocol # "odoh" => SomeUsable(u.resolvers)
          /\ \A i \in DOMAIN u.routes : SomeUsable(u.routes[i].resolvers)
    <2>1. u.resolvers # <<>> /\ AllFit(u.resolvers, u.protocol) /\ (u.protocol = "odoh" => u.proxies # <<>>)
      BY DEF validate_config, UpstreamValid
    <2>2. u.protocol = "odoh" => \A i \in DOMAIN u.resolvers : u.resolvers[i].scheme = "https"
      <3>1. \A url : SchemeFits(url, "odoh") => url.scheme = "https"
        BY DEF SchemeFits
      <3> QED BY <2>1, <3>1 DEF AllFit
    <2> HIDE DEF u
    <2>3. CASE u.protocol = "odoh"
      BY <2>1, <2>2, <2>3 DEF ResolverBuilds, u
    <2>4. CASE u.protocol # "odoh"
      BY <2>4 DEF ResolverBuilds, u
    <2> QED BY <2>3, <2>4
  <1>4. config.privacy.to_disk => config.privacy.path # "unset"
    BY DiskPathSet DEF validate_config
  <1>5. config.blocklist.response = "sinkhole" => config.blocklist.sinkhole
    BY DEF validate_config, BlocklistValid
  <1>6. AllOk(s.listen \o s.dot \o s.doq \o s.doh)
    <2>1. AllOk(s.listen) /\ AllOk(s.dot \o s.doq \o s.doh)
      BY DEF validate_config, ListenersParse
    <2> HIDE DEF s
    <2>2. s.dot \o s.doq \in Seq(BindRecord) /\ s.listen \o s.dot \in Seq(BindRecord)
          /\ s.listen \o s.dot \o s.doq \in Seq(BindRecord)
      BY <1>1
    <2>3. AllOk(s.dot) /\ AllOk(s.doq) /\ AllOk(s.doh)
      BY <1>1, <2>1, <2>2, AllOkOfParts
    <2>4. AllOk(s.listen \o s.dot \o s.doq)
      BY <1>1, <2>1, <2>2, <2>3, AllOkOfParts
    <2> QED BY <1>1, <2>2, <2>3, <2>4, AllOkOfParts
  <1>7. config.metrics.listen.ok
    BY DEF validate_config, ListenersParse
  <1>8. /\ s.dot \o s.doq # <<>> => HasTls(s)
        /\ \A i \in DOMAIN s.doh : ensure_doh_bind_allowed(s.doh[i], HasTls(s))
    BY DEF validate_config, TlsCovers, ensure_doh_bind_allowed
  <1>9. metrics_listen_addr(config.metrics).port = config.metrics.listen.port
    BY DEF ConfigRecord, BindRecord, metrics_listen_addr
  <1>10. Starts(config) <=>
           /\ ResolverBuilds(config)
           /\ normalize_metrics_path(config.metrics.path)
           /\ \A i \in DOMAIN s.doh : ~Privileged(s.doh[i].port)
           /\ ~Privileged(config.metrics.listen.port)
    BY <1>4, <1>5, <1>6, <1>7, <1>8, <1>9 DEF Starts
  <1>11. ~Overlooked(config) <=>
           /\ u.protocol = "odoh" => \A i \in DOMAIN u.resolvers : u.resolvers[i].usable
           /\ u.protocol # "odoh" => SomeUsable(u.resolvers)
           /\ \A i \in DOMAIN u.routes : SomeUsable(u.routes[i].resolvers)
           /\ normalize_metrics_path(config.metrics.path)
           /\ \A i \in DOMAIN s.doh : ~Privileged(s.doh[i].port)
           /\ ~Privileged(config.metrics.listen.port)
    BY <1>2 DEF Overlooked
  <1> QED BY <1>3, <1>10, <1>11

\* A denylist has rules exactly if it has entries.
LEMMA DenylistSize ==
    ASSUME NEW d \in Seq(DenylistEntry)
    PROVE Cardinality(DenylistOf(d)) > 0 <=> d # <<>>
  <1>1. IsFiniteSet(DOMAIN d)
    <2>1. DOMAIN d = 1..Len(d) /\ Len(d) \in Int
      OBVIOUS
    <2> QED BY <2>1, FS_Interval
  <1>2. IsFiniteSet(DenylistOf(d))
    <2> DEFINE f == [i \in DOMAIN d |-> parse_entry(d[i])]
    <2>1. f \in Surjection(DOMAIN d, DenylistOf(d))
      BY DEF Surjection, DenylistOf
    <2> QED BY <1>1, <2>1, FS_Surjection
  <1>3. Cardinality(DenylistOf(d)) \in Nat /\ (Cardinality(DenylistOf(d)) = 0 <=> DenylistOf(d) = {})
    BY <1>2, FS_CardinalityType, FS_EmptySet
  <1>4. DenylistOf(d) = {} <=> DOMAIN d = {}
    BY DEF DenylistOf
  <1>5. d = <<>> <=> DOMAIN d = {}
    BY EmptyOrFirst
  <1> QED BY <1>3, <1>4, <1>5

\* The defaults the daemon falls back to when a schedule, a denylist or a group
\* cannot be used, which all restrict less, are never needed with an accepted
\* configuration (build_policy_map, BlocklistEngine::new).
THEOREM AcceptedNeedsNoDefault ==
    ASSUME NEW config \in ConfigRecord, NEW Srcs
    PROVE NothingFallsBack(config, Srcs)
  <1> DEFINE Written(src) == {i \in DOMAIN config.policy :
                                \E c \in ToSet(config.policy[i].client) : SameHost(c.ip, src)}
             Kept(found, i) == /\ Len(found[1].schedule) = Len(config.policy[i].windows)
                               /\ ListFor(config, found[1].group) = config.policy[i].group
  <1> SUFFICES ASSUME validate_config(config)
               PROVE /\ Cardinality(EngineDenylist(config)) > 0 <=> config.blocklist.denylist # <<>>
                     /\ \A src \in Srcs :
                          /\ PolicyOf(config, src) = <<>> <=> Written(src) = {}
                          /\ PolicyOf(config, src) # <<>> =>
                                \E i \in Written(src) : Kept(PolicyOf(config, src), i)
    BY DEF NothingFallsBack
  <1>1. Cardinality(EngineDenylist(config)) > 0 <=> config.blocklist.denylist # <<>>
    <2>1. config.blocklist.denylist \in Seq(DenylistEntry)
      BY DEF ConfigRecord, BlocklistRecord
    <2>2. EngineDenylist(config) = DenylistOf(config.blocklist.denylist)
      BY DEF validate_config, BlocklistValid, EngineDenylist
    <2> QED BY <2>1, <2>2, DenylistSize
  <1>2. config.policy \in Seq(PolicyRecord) /\ PolicyValid(config)
    BY DEF ConfigRecord, validate_config
  <1>3. ASSUME NEW src \in Srcs
        PROVE /\ PolicyOf(config, src) = <<>> <=> Written(src) = {}
              /\ PolicyOf(config, src) # <<>> => \E i \in Written(src) : Kept(PolicyOf(config, src), i)
    <2>1. \A i \in DOMAIN config.policy : i \in Written(src) <=> Names(config.policy[i], src)
      <3> TAKE i \in DOMAIN config.policy
      <3>1. \A c \in ToSet(config.policy[i].client) : c.ok
        BY <1>2 DEF PolicyValid, AllOk, ToSet
      <3> QED BY <3>1 DEF Names, SameHost
    <2>2. CASE PolicyOf(config, src) = <<>> /\ \A i \in DOMAIN config.policy : ~Names(config.policy[i], src)
      BY <2>1, <2>2
    <2>3. ASSUME NEW i \in DOMAIN config.policy, Names(config.policy[i], src),
                 PolicyOf(config, src) =
                     <<[schedule |-> compile(config.policy[i].windows), group |-> config.policy[i].group]>>
          PROVE /\ PolicyOf(config, src) = <<>> <=> Written(src) = {}
                /\ PolicyOf(config, src) # <<>> => \E k \in Written(src) : Kept(PolicyOf(config, src), k)
      <3> DEFINE one == [schedule |-> compile(config.policy[i].windows), group |-> config.policy[i].group]
                 found == <<one>>
      <3>1. i \in Written(src)
        BY <2>1, <2>3
      <3>2. found # <<>> /\ found[1] = one
        OBVIOUS
      <3>3. Len(one.schedule) = Len(config.policy[i].windows)
        <4>1. config.policy[i].windows \in Seq(WindowRecord)
          <5>1. config.policy[i] \in PolicyRecord
            BY <1>2
          <5> QED BY <5>1 DEF PolicyRecord
        <4>2. one.schedule = compile(config.policy[i].windows)
          OBVIOUS
        <4> DEFINE w == config.policy[i].windows
        <4> HIDE DEF w, one
        <4>3. Len(compile(w)) = Len(w)
          BY <4>1 DEF compile, w
        <4> QED BY <4>2, <4>3 DEF w
      <3>4. ListFor(config, one.group) = config.policy[i].group
        BY <1>2, GroupsExist
      <3>5. PolicyOf(config, src) = found
        BY <2>3
      <3> HIDE DEF one, found
      <3>6. Kept(found, i)
        BY <3>2, <3>3, <3>4
      <3> QED BY <3>1, <3>2, <3>5, <3>6
    <2> QED BY <1>2, <2>2, <2>3, PolicyFound
  <1> QED BY <1>1, <1>3

\* A name of two labels has only single labels above it.
LEMMA PairName ==
    ASSUME NEW a \in STRING, NEW b \in STRING
    PROVE /\ <<a, b>> \in DnsName /\ Len(<<a, b>>) = 2 /\ <<a, b>> # <<>> /\ <<a, b>>[1] = a
          /\ \A d \in DnsName : d \in Parents(<<a, b>>) => Len(d) < 2
  <1> DEFINE p == <<a, b>>
  <1>1. p \in DnsName /\ Len(p) = 2 /\ p # <<>> /\ p[1] = a
    BY Pair DEF DnsName
  <1> HIDE DEF p
  <1>2. ASSUME NEW d \in DnsName, d \in Parents(p) PROVE Len(d) < 2
    <2>1. Len(d) > 0 /\ Len(d) < Len(p)
      BY <1>1, <1>2, ParentMeans
    <2>2. Len(d) \in Nat
      BY DEF DnsName
    <2> QED BY <1>1, <2>1, <2>2
  <1> QED BY <1>1, <1>2 DEF p

\* A wildcard that is not too broad is about a name of two labels or more.
LEMMA LongTail ==
    ASSUME NEW e \in DnsName, IsWildcard(e), Len(Bare(e)) > 1
    PROVE normalise_name(Tail(e)) \in DnsName /\ Len(normalise_name(Tail(e))) >= 2
  <1>1. Len(e) > 2
    BY WildcardKeepsTwo
  <1>2. Len(e) \in Nat
    BY DEF DnsName
  <1>3. Tail(e) \in DnsName /\ Len(Tail(e)) = Len(e) - 1
    BY <1>1, <1>2, RestOf DEF DnsName
  <1>4. normalise_name(Tail(e)) \in DnsName /\ Len(normalise_name(Tail(e))) = Len(e) - 1
    BY <1>3, NormalisedName
  <1>5. Len(e) - 1 >= 2
    BY <1>1, <1>2
  <1> QED BY <1>4, <1>5

\* So it is above no name directly below a top-level label.
LEMMA TailNotAbove ==
    ASSUME NEW e \in DnsName, IsWildcard(e), Len(Bare(e)) > 1, NEW a \in STRING, NEW b \in STRING
    PROVE normalise_name(Tail(e)) \notin Parents(<<a, b>>)
  <1> DEFINE d == normalise_name(Tail(e))
  <1>1. d \in DnsName /\ Len(d) >= 2
    BY LongTail
  <1>2. d \in Parents(<<a, b>>) => Len(d) < 2
    BY <1>1, PairName
  <1> HIDE DEF d
  <1>3. Len(d) \in Nat
    BY <1>1 DEF DnsName
  <1>4. ~(Len(d) < 2)
    BY <1>1, <1>3
  <1> QED BY <1>2, <1>4 DEF d

\* A name with a label nobody wrote is no entry.
LEMMA FreshNotEntry ==
    ASSUME NEW e \in DnsName, NEW fresh \in STRING, NEW b \in STRING, NEW names, e \in names, FreshFor(fresh, names)
    PROVE normalise_name(e) # <<fresh, b>>
  <1> SUFFICES ASSUME normalise_name(e) = <<fresh, b>> PROVE FALSE
    OBVIOUS
  <1>1. Len(e) = 2
    BY NormalisedName, PairName
  <1>2. 1 \in DOMAIN e
    BY <1>1 DEF DnsName
  <1>3. normalise_name(e)[1] = fresh
    BY PairName
  <1> QED BY <1>2, <1>3 DEF FreshFor

\* Validation has looked at every allowlist, the groups' too.
LEMMA AllowlistsNarrow ==
    ASSUME NEW config, BlocklistValid(config)
    PROVE /\ reject_overbroad_allowlist(config.blocklist.allowlist)
          /\ \A i \in DOMAIN config.blocklist.groups :
                reject_overbroad_allowlist(config.blocklist.groups[i].allowlist)
  BY Zenon DEF BlocklistValid

\* An allowlist that is not too broad allows no such name.
LEMMA NotAllowed ==
    ASSUME NEW list \in Seq(DnsName), reject_overbroad_allowlist(list),
           NEW fresh \in STRING, NEW b \in STRING, NEW names, ToSet(list) \subseteq names, FreshFor(fresh, names)
    PROVE ~is_allowed(from_entries(list), <<fresh, b>>)
  <1> DEFINE allow == from_entries(list)
             p == <<fresh, b>>
  <1>0. \A e \in ToSet(list) : e \in DnsName /\ Len(Bare(e)) > 1
    BY DEF ToSet, reject_overbroad_allowlist
  <1>1. /\ allow.exact = {normalise_name(e) : e \in {x \in ToSet(list) : x # <<>> /\ ~IsWildcard(x)}}
        /\ allow.suffixes = {normalise_name(Tail(e)) : e \in {x \in ToSet(list) : IsWildcard(x)}}
    BY DEF from_entries
  <1> HIDE DEF allow
  <1>2. p \notin allow.exact
    BY <1>0, <1>1, FreshNotEntry
  <1>3. \A q \in allow.suffixes : q \notin Parents(p)
    <2>1. \A e \in ToSet(list) : IsWildcard(e) => normalise_name(Tail(e)) \notin Parents(p)
      BY <1>0, TailNotAbove
    <2> HIDE DEF p
    <2> QED BY <1>1, <2>1
  <1> QED BY <1>2, <1>3 DEF is_allowed, allow

\* No allowlist or rewrite of an accepted configuration reaches a whole top-
\* level domain, in any of the ways a wildcard can be written
\* (reject_overbroad_allowlist, validate_config).
THEOREM NoDomainTaken ==
    ASSUME NEW config \in ConfigRecord, NEW Labels, Labels \subseteq STRING, NEW fresh,
           FreshFor(fresh, NamesOf(config))
    PROVE NoWholeDomain(config, Labels, fresh)
  <1> SUFFICES ASSUME validate_config(config), NEW label \in Labels
               PROVE /\ MatchingAction(config.rewrite, <<fresh, label>>) = {}
                     /\ \A list \in {config.blocklist.allowlist} \cup
                                    {g.allowlist : g \in ToSet(config.blocklist.groups)} :
                           ~is_allowed(from_entries(list), <<fresh, label>>)
    BY DEF NoWholeDomain
  <1>0. fresh \in STRING /\ label \in STRING
    BY LowerAssumption DEF FreshFor
  <1> DEFINE p == <<fresh, label>>
             name == normalise_name(p)
  <1>1. p \in DnsName /\ Len(p) = 2 /\ p[1] = fresh
    BY <1>0, PairName
  <1>2. \E low \in STRING : name = <<fresh, low>>
    <2>1. name \in Seq(STRING) /\ Len(name) = 2 /\ name[1] = fresh
      <3>1. name \in DnsName /\ Len(name) = 2
        BY <1>1, NormalisedName
      <3>2. name[1] = IF p[1] \in DOMAIN Lower THEN Lower[p[1]] ELSE p[1]
        BY <1>1, NormalisedName
      <3> QED BY <1>1, <3>1, <3>2 DEF DnsName, FreshFor
    <2> HIDE DEF name
    <2>2. name[2] \in STRING /\ name = <<name[1], name[2]>>
      BY <2>1
    <2> QED BY <2>1, <2>2
  <1>3. PICK low \in STRING : name = <<fresh, low>>
    BY <1>2
  <1> DEFINE rules == config.rewrite
  <1>4. rules \in Seq(RewriteRecord)
    BY DEF ConfigRecord
  <1>5. ASSUME NEW i \in DOMAIN rules
        PROVE /\ rules[i].name \in DnsName /\ rules[i].name \in NamesOf(config)
              /\ IsWildcard(rules[i].name) => Len(Bare(rules[i].name)) > 1
    <2>1. rules[i] \in RewriteRecord
      BY <1>4
    <2>2. rules[i].name \in NamesOf(config)
      BY DEF NamesOf, ToSet
    <2>3. IsWildcard(rules[i].name) => Len(Bare(rules[i].name)) > 1
      BY DEF validate_config, RewriteValid
    <2> QED BY <2>1, <2>2, <2>3 DEF RewriteRecord
  <1>6. MatchingAction(rules, p) = {}
    <2> HIDE DEF rules
    <2>1. \A i \in DOMAIN rules : normalise_name(rules[i].name) # name
      BY <1>0, <1>3, <1>5, FreshNotEntry
    <2>2. \A i \in DOMAIN rules :
             IsWildcard(rules[i].name) => normalise_name(Tail(rules[i].name)) \notin Parents(name)
      BY <1>0, <1>3, <1>5, TailNotAbove
    <2> HIDE DEF name, p
    <2>3. ExactAction(rules, name) = {}
      BY <2>1 DEF ExactAction
    <2>4. WildcardsAbove(rules, name) = {}
      BY <2>2 DEF WildcardsAbove
    <2> QED BY <2>3, <2>4 DEF MatchingAction, name
  <1>7. ASSUME NEW list \in {config.blocklist.allowlist} \cup
                            {g.allowlist : g \in ToSet(config.blocklist.groups)}
        PROVE ~is_allowed(from_entries(list), p)
    <2>1. list \in Seq(DnsName) /\ reject_overbroad_allowlist(list) /\ ToSet(list) \subseteq NamesOf(config)
      <3>1. config.blocklist \in BlocklistRecord
        BY DEF ConfigRecord
      <3>2. CASE list = config.blocklist.allowlist
        <4>1. list \in Seq(DnsName)
          BY <3>1, <3>2 DEF BlocklistRecord
        <4>2. BlocklistValid(config)
          BY DEF validate_config
        <4>3. reject_overbroad_allowlist(list)
          BY <3>2, <4>2, AllowlistsNarrow
        <4>4. ToSet(list) \subseteq NamesOf(config)
          BY <3>2 DEF NamesOf
        <4> QED BY <4>1, <4>3, <4>4
      <3>3. CASE list \in {g.allowlist : g \in ToSet(config.blocklist.groups)}
        <4> DEFINE groups == config.blocklist.groups
        <4>1. PICK i \in DOMAIN groups : list = groups[i].allowlist
          BY <3>3 DEF ToSet
        <4>2. groups \in Seq(GroupRecord)
          BY <3>1 DEF BlocklistRecord
        <4>3. groups[i] \in GroupRecord
          BY <4>2
        <4>4. reject_overbroad_allowlist(groups[i].allowlist)
          BY AllowlistsNarrow DEF validate_config
        <4>5. ToSet(list) \subseteq NamesOf(config)
          BY <4>1 DEF NamesOf, ToSet
        <4> QED BY <4>1, <4>3, <4>4, <4>5 DEF GroupRecord
      <3> QED BY <3>2, <3>3
    <2> QED BY <1>0, <2>1, NotAllowed
  <1> QED BY <1>6, <1>7

-----------------------------------------------------------------------------
(* The authority's answer to a name: a chain of aliases.                   *)

\* RecordsAt finds records of the snapshot, at the name and of the type.
LEMMA Found ==
    ASSUME NEW R, NEW snap, snap.records \in Seq(R), NEW name, NEW type
    PROVE /\ RecordsAt(snap, name, type) \in Seq(R)
          /\ \A i \in 1..Len(RecordsAt(snap, name, type)) :
                LET r == RecordsAt(snap, name, type)[i]
                IN  r \in R /\ r.name = name /\ (type # "ANY" => r.type = type)
  <1> DEFINE s == snap.records
             I == {i \in DOMAIN s : s[i].name = name /\ type \in {s[i].type, "ANY"}}
  <1>1. RecordsAt(snap, name, type) = Select(s, I) /\ I \subseteq DOMAIN s
    BY DEF RecordsAt
  <1>2. \A i \in I : s[i].name = name /\ (type # "ANY" => s[i].type = type)
    OBVIOUS
  <1> HIDE DEF I, s
  <1>3. /\ Select(s, I) \in Seq(R)
        /\ {Select(s, I)[k] : k \in DOMAIN Select(s, I)} = {s[i] : i \in I}
    BY <1>1, SelectHolds DEF s
  <1> DEFINE t == Select(s, I)
  <1> HIDE DEF t
  <1>4. t \in Seq(R) /\ {t[k] : k \in DOMAIN t} = {s[i] : i \in I} /\ t = RecordsAt(snap, name, type)
    BY <1>1, <1>3 DEF t
  <1>5. ASSUME NEW k \in 1..Len(t)
        PROVE t[k] \in R /\ t[k].name = name /\ (type # "ANY" => t[k].type = type)
    <2>1. k \in DOMAIN t /\ t[k] \in R
      BY <1>4
    <2>2. PICK i \in I : t[k] = s[i]
      BY <1>4, <2>1
    <2> QED BY <1>2, <2>1, <2>2
  <1> QED BY <1>4, <1>5

\* A chain of aliases from a name: each leads to the next, each lies within the
\* zones, and no name has two of them.
ChainFrom(config, snap, R, name, c) ==
    /\ c \in Seq(R) /\ Len(c) >= 1
    /\ c[1].name = name
    /\ \A i \in 2..Len(c) : c[i].name = c[i - 1].target
    /\ \A i \in 1..Len(c) : c[i].type = "CNAME" /\ is_authoritative_for(config, snap, c[i].name)
    /\ \A i, j \in 1..Len(c) : i # j => c[i].name # c[j].name

\* The names of a chain.
Owners(c) == {c[i].name : i \in 1..Len(c)}

\* Where a chain may break off: back at a name of it, outside the zones, or at a
\* name with nothing to follow.
BreaksOff(config, snap, type, c) ==
    \/ c[Len(c)].target \in Owners(c)
    \/ ~is_authoritative_for(config, snap, c[Len(c)].target)
    \/ /\ RecordsAt(snap, c[Len(c)].target, type) = <<>>
       /\ RecordsAt(snap, c[Len(c)].target, "CNAME") = <<>>

\* The walk after turn i: a chain, where it leads, and whether it is over.
\* While it goes on, the chain has grown with every turn; once it is over, the
\* answer is the chain, or the chain and the records it ends in.
WalkAt(config, snap, R, name, type, s, i, c) ==
    /\ ChainFrom(config, snap, R, name, c)
    /\ s.next = c[Len(c)].target
    /\ s.visited = Owners(c)
    /\ \/ ~s.done /\ s.out = c /\ Len(c) = i + 1
       \/ s.done /\ s.out = c /\ Len(c) <= i /\ BreaksOff(config, snap, type, c)
       \/ /\ s.done /\ Len(c) <= i
          /\ s.out = c \o RecordsAt(snap, c[Len(c)].target, type)
          /\ RecordsAt(snap, c[Len(c)].target, type) # <<>>

\* There is such a chain.
Walks(config, snap, R, name, type, s, i) ==
    \E c : WalkAt(config, snap, R, name, type, s, i, c)

\* One turn of Chase.
Turn(config, snap, type, s) ==
    LET terminal == RecordsAt(snap, s.next, type)
        aliases == RecordsAt(snap, s.next, "CNAME")
    IN  IF \/ s.done
           \/ s.next \in s.visited
           \/ ~is_authoritative_for(config, snap, s.next)
           \/ (terminal = <<>> /\ aliases = <<>>)
        THEN [s EXCEPT !.done = TRUE]
        ELSE IF terminal # <<>>
        THEN [s EXCEPT !.out = @ \o terminal, !.done = TRUE]
        ELSE [s EXCEPT !.out = Append(@, aliases[1]),
                       !.next = aliases[1].target,
                       !.visited = @ \cup {s.next}]

\* What a walk keeps.
WalkStates(R) ==
    [ out : Seq(R), next : {r.target : r \in R},
      visited : SUBSET ({r.target : r \in R} \cup {r.name : r \in R}), done : BOOLEAN ]

\* A turn leads from such a state to another.
LEMMA TurnTyped ==
    ASSUME NEW R, NEW config, NEW snap, snap.records \in Seq(R), NEW type, NEW s \in WalkStates(R)
    PROVE Turn(config, snap, type, s) \in WalkStates(R)
  <1> DEFINE terminal == RecordsAt(snap, s.next, type)
             aliases == RecordsAt(snap, s.next, "CNAME")
  <1>1. terminal \in Seq(R) /\ aliases \in Seq(R)
    BY Found
  <1>2. aliases # <<>> => aliases[1] \in R
    BY <1>1, EmptySeq
  <1>3. Turn(config, snap, type, s) =
          IF \/ s.done
             \/ s.next \in s.visited
             \/ ~is_authoritative_for(config, snap, s.next)
             \/ (terminal = <<>> /\ aliases = <<>>)
          THEN [s EXCEPT !.done = TRUE]
          ELSE IF terminal # <<>>
          THEN [s EXCEPT !.out = @ \o terminal, !.done = TRUE]
          ELSE [s EXCEPT !.out = Append(@, aliases[1]),
                         !.next = aliases[1].target,
                         !.visited = @ \cup {s.next}]
    BY DEF Turn
  <1> HIDE DEF terminal, aliases
  <1>4. [s EXCEPT !.done = TRUE] \in WalkStates(R)
    BY DEF WalkStates
  <1>5. [s EXCEPT !.out = @ \o terminal, !.done = TRUE] \in WalkStates(R)
    <2>1. s.out \o terminal \in Seq(R)
      BY <1>1 DEF WalkStates
    <2> DEFINE joined == s.out \o terminal
    <2> HIDE DEF joined
    <2>2. [s EXCEPT !.out = joined, !.done = TRUE] \in WalkStates(R)
      BY <2>1 DEF WalkStates, joined
    <2> QED BY <2>2 DEF joined
  <1>6. ASSUME aliases # <<>>
        PROVE [s EXCEPT !.out = Append(@, aliases[1]), !.next = aliases[1].target,
                        !.visited = @ \cup {s.next}] \in WalkStates(R)
    <2> DEFINE joined == Append(s.out, aliases[1])
               next == aliases[1].target
               seen == s.visited \cup {s.next}
               T == {r.target : r \in R}
               N == {r.name : r \in R}
    <2>0. s \in [out : Seq(R), next : T, visited : SUBSET (T \cup N), done : BOOLEAN]
      BY DEF WalkStates
    <2>1. joined \in Seq(R)
      BY <1>2, <1>6, <2>0
    <2>2. next \in T
      BY <1>2, <1>6
    <2> HIDE DEF T, N
    <2>3. seen \in SUBSET (T \cup N)
      BY <2>0
    <2> HIDE DEF joined, next, seen
    <2>4. [s EXCEPT !.out = joined, !.next = next, !.visited = seen]
            \in [out : Seq(R), next : T, visited : SUBSET (T \cup N), done : BOOLEAN]
      BY <2>0, <2>1, <2>2, <2>3
    <2> QED BY <2>4 DEF WalkStates, joined, next, seen, T, N
  <1> QED BY <1>3, <1>4, <1>5, <1>6

\* A turn extends the chain, ends the walk, or does nothing once it is over.
LEMMA TurnWalks ==
    ASSUME NEW R, NEW config, NEW snap, snap.records \in Seq(R), NEW type, type # "ANY", NEW name,
           NEW s \in WalkStates(R), NEW i \in Nat,
           Walks(config, snap, R, name, type, s, i)
    PROVE Walks(config, snap, R, name, type, Turn(config, snap, type, s), i + 1)
  <1> DEFINE terminal == RecordsAt(snap, s.next, type)
             aliases == RecordsAt(snap, s.next, "CNAME")
             t == Turn(config, snap, type, s)
             auth(n) == is_authoritative_for(config, snap, n)
  <1>1. PICK c : WalkAt(config, snap, R, name, type, s, i, c)
    BY DEF Walks
  <1>2. /\ ChainFrom(config, snap, R, name, c) /\ s.next = c[Len(c)].target /\ s.visited = Owners(c)
        /\ c \in Seq(R) /\ Len(c) \in Nat /\ Len(c) >= 1
    BY <1>1 DEF WalkAt, ChainFrom
  <1>3. CASE s.done
    <2>1. t = s
      <3>1. t = [s EXCEPT !.done = TRUE]
        BY <1>3 DEF Turn
      <3>2. s.done = TRUE
        BY <1>3 DEF WalkStates
      <3> QED BY <3>1, <3>2 DEF WalkStates
    <2>2. Len(c) <= i => Len(c) <= i + 1
      BY <1>2
    <2>3. WalkAt(config, snap, R, name, type, s, i + 1, c)
      BY <1>1, <1>3, <2>2 DEF WalkAt
    <2> QED BY <2>1, <2>3 DEF Walks
  <1>4. CASE ~s.done /\ (\/ s.next \in s.visited \/ ~auth(s.next)
                         \/ (terminal = <<>> /\ aliases = <<>>))
    <2>1. t = [s EXCEPT !.done = TRUE]
      BY <1>4 DEF Turn
    <2>2. t.done = TRUE /\ t.next = s.next /\ t.visited = s.visited /\ t.out = s.out
      BY <2>1 DEF WalkStates
    <2>3. s.out = c /\ Len(c) = i + 1
      BY <1>1, <1>4 DEF WalkAt
    <2>4. Len(c) <= i + 1
      BY <2>3, <1>2
    <2>5. BreaksOff(config, snap, type, c)
      BY <1>2, <1>4 DEF BreaksOff
    <2> HIDE DEF t
    <2>6. WalkAt(config, snap, R, name, type, t, i + 1, c)
      BY <1>2, <2>2, <2>3, <2>4, <2>5 DEF WalkAt
    <2> QED BY <2>6 DEF Walks, t
  <1>5. CASE ~s.done /\ s.next \notin s.visited /\ auth(s.next) /\ terminal # <<>>
    <2>1. t = [s EXCEPT !.out = @ \o terminal, !.done = TRUE]
      BY <1>5 DEF Turn
    <2>2. t.done = TRUE /\ t.next = s.next /\ t.visited = s.visited /\ t.out = s.out \o terminal
      <3> HIDE DEF terminal, t
      <3> QED BY <2>1 DEF WalkStates
    <2>3. s.out = c /\ Len(c) = i + 1
      BY <1>1, <1>5 DEF WalkAt
    <2>4. Len(c) <= i + 1
      BY <2>3, <1>2
    <2>5. terminal = RecordsAt(snap, c[Len(c)].target, type)
      BY <1>2
    <2> HIDE DEF t, terminal
    <2>6. WalkAt(config, snap, R, name, type, t, i + 1, c)
      BY <1>2, <1>5, <2>2, <2>3, <2>4, <2>5 DEF WalkAt
    <2> QED BY <2>6 DEF Walks, t
  <1>6. CASE ~s.done /\ s.next \notin s.visited /\ auth(s.next) /\ terminal = <<>> /\ aliases # <<>>
    <2> DEFINE r == aliases[1]
               d == Append(c, r)
    <2>1. t = [s EXCEPT !.out = Append(@, r), !.next = r.target, !.visited = @ \cup {s.next}]
      BY <1>6 DEF Turn
    <2>2. /\ aliases \in Seq(R)
          /\ \A k \in 1..Len(aliases) : aliases[k] \in R /\ aliases[k].name = s.next
                                        /\ aliases[k].type = "CNAME"
      <3>1. "CNAME" # "ANY"
        OBVIOUS
      <3> QED BY Found, <3>1
    <2>3. r \in R /\ r.name = s.next /\ r.type = "CNAME"
      <3> HIDE DEF aliases
      <3>1. 1 \in 1..Len(aliases)
        BY <1>6, <2>2, EmptySeq
      <3> QED BY <2>2, <3>1
    <2> HIDE DEF aliases, r, terminal
    <2>4. t.done = s.done /\ t.next = r.target /\ t.visited = s.visited \cup {s.next} /\ t.out = Append(s.out, r)
      <3> HIDE DEF t
      <3> QED BY <2>1 DEF WalkStates
    <2>5. s.out = c /\ Len(c) = i + 1
      BY <1>1, <1>6 DEF WalkAt
    <2>6. /\ d \in Seq(R) /\ Len(d) = Len(c) + 1
          /\ \A k \in 1..Len(c) : d[k] = c[k]
          /\ d[Len(c) + 1] = r
      BY <1>2, <2>3
    <2> HIDE DEF d, t
    <2> DEFINE n == Len(c)
    <2>7. n \in Nat /\ n >= 1 /\ Len(d) = n + 1 /\ n \in 1..n
      BY <1>2, <2>6
    <2>8. Owners(d) = Owners(c) \cup {s.next}
      <3>1. 1..(n + 1) = (1..n) \cup {n + 1}
        BY <2>7
      <3>2. \A k \in 1..n : d[k] = c[k]
        BY <2>6
      <3>3. d[n + 1] = r
        BY <2>6
      <3> HIDE DEF n
      <3>4. Owners(d) = {d[k].name : k \in 1..(n + 1)} /\ Owners(c) = {c[k].name : k \in 1..n}
        BY <2>7 DEF Owners, n
      <3> QED BY <2>3, <3>1, <3>2, <3>3, <3>4
    <2>9. ChainFrom(config, snap, R, name, d)
      <3>1. /\ c[1].name = name
            /\ \A k \in 2..n : c[k].name = c[k - 1].target
            /\ \A k \in 1..n : c[k].type = "CNAME" /\ auth(c[k].name)
            /\ \A k, j \in 1..n : k # j => c[k].name # c[j].name
        BY <1>2 DEF ChainFrom
      <3>2. s.next = c[n].target /\ \A k \in 1..n : c[k].name # s.next
        BY <1>2, <1>6 DEF Owners
      <3>3. (\A k \in 1..n : d[k] = c[k]) /\ d[n + 1] = r
        BY <2>6
      <3> HIDE DEF n, auth
      <3>4. d[1].name = name
        BY <2>7, <3>1, <3>3
      <3>5. ASSUME NEW k \in 2..(n + 1) PROVE d[k].name = d[k - 1].target
        <4>1. CASE k = n + 1
          <5>1. (n + 1) - 1 = n
            BY <2>7
          <5>2. d[n + 1].name = s.next /\ d[n] = c[n]
            BY <2>3, <2>7, <3>3
          <5> QED BY <3>2, <4>1, <5>1, <5>2
        <4>2. CASE k # n + 1
          <5>1. k \in 2..n /\ k \in 1..n /\ k - 1 \in 1..n
            BY <2>7, <4>2
          <5> QED BY <3>1, <3>3, <5>1
        <4> QED BY <4>1, <4>2
      <3>6. ASSUME NEW k \in 1..(n + 1) PROVE d[k].type = "CNAME" /\ auth(d[k].name)
        <4>1. CASE k = n + 1
          BY <1>6, <2>3, <3>3, <4>1
        <4>2. CASE k # n + 1
          <5>1. k \in 1..n
            BY <2>7, <4>2
          <5> QED BY <3>1, <3>3, <5>1
        <4> QED BY <4>1, <4>2
      <3>7. ASSUME NEW k \in 1..(n + 1), NEW j \in 1..(n + 1), k # j PROVE d[k].name # d[j].name
        <4>1. (k \in 1..n \/ k = n + 1) /\ (j \in 1..n \/ j = n + 1)
          BY <2>7
        <4>2. d[n + 1].name = s.next /\ \A m \in 1..n : d[m].name = c[m].name
          BY <2>3, <3>3
        <4> QED BY <3>1, <3>2, <3>7, <4>1, <4>2
      <3>8. d \in Seq(R) /\ Len(d) = n + 1 /\ n + 1 >= 1
        BY <2>6, <2>7
      <3> QED BY <3>4, <3>5, <3>6, <3>7, <3>8 DEF ChainFrom, auth
    <2>10. d[Len(d)].target = r.target /\ Len(d) = (i + 1) + 1 /\ t.out = d
      BY <2>4, <2>5, <2>6 DEF d
    <2>11. t.visited = Owners(d) /\ t.next = d[Len(d)].target /\ ~t.done
      BY <1>2, <1>6, <2>4, <2>8, <2>10
    <2>12. WalkAt(config, snap, R, name, type, t, i + 1, d)
      BY <2>9, <2>10, <2>11 DEF WalkAt
    <2> QED BY <2>12 DEF Walks, t
  <1> QED BY <1>3, <1>4, <1>5, <1>6

\* Chase answers with the walk after the last turn.
LEMMA ChaseWalks ==
    ASSUME NEW R, NEW config, NEW snap, snap.records \in Seq(R), NEW type, type # "ANY", NEW name,
           NEW first \in R, first.name = name, first.type = "CNAME",
           is_authoritative_for(config, snap, name)
    PROVE \E s : /\ Walks(config, snap, R, name, type, s, MaxCnameDepth)
                 /\ Chase(config, snap, first, type) = s.out
  <1> DEFINE n == MaxCnameDepth
             U == WalkStates(R)
             a == [out |-> <<first>>, next |-> first.target, visited |-> {first.name}, done |-> FALSE]
             G == [s \in U |-> Turn(config, snap, type, s)]
             F(f) == [i \in 0..n |-> IF i = 0 THEN a ELSE
                        LET s == f[i - 1]
                            terminal == RecordsAt(snap, s.next, type)
                            aliases == RecordsAt(snap, s.next, "CNAME")
                        IN  IF \/ s.done
                               \/ s.next \in s.visited
                               \/ ~is_authoritative_for(config, snap, s.next)
                               \/ (terminal = <<>> /\ aliases = <<>>)
                            THEN [s EXCEPT !.done = TRUE]
                            ELSE IF terminal # <<>>
                            THEN [s EXCEPT !.out = @ \o terminal, !.done = TRUE]
                            ELSE [s EXCEPT !.out = Append(@, aliases[1]),
                                           !.next = aliases[1].target,
                                           !.visited = @ \cup {s.next}]]
             H(f) == [i \in 0..n |-> IF i = 0 THEN a ELSE Turn(config, snap, type, f[i - 1])]
             step == CHOOSE f : f = F(f)
  <1>0. n \in Nat
    BY LookupAssumption
  <1>1. a \in U
    BY DEF WalkStates
  <1>2. G \in [U -> U]
    <2>1. \A s \in U : Turn(config, snap, type, s) \in U
      BY TurnTyped
    <2> HIDE DEF U
    <2> QED BY <2>1
  <1>3. Chase(config, snap, first, type) = step[n].out
    BY DEF Chase
  <1>4. \A f : F(f) = H(f)
    BY DEF Turn
  <1>5. PICK g : Iteration(g, U, a, G, n)
    <2> HIDE DEF U, a, G, n
    <2> QED BY <1>0, <1>1, <1>2, Iterates
  <1> HIDE DEF U, a, F, n
  <1>6. g = H(g)
    <2>1. g \in [0..n -> U] /\ g[0] = a /\ \A k \in 1..n : g[k] = G[g[k - 1]]
      BY <1>5 DEF Iteration
    <2>2. ASSUME NEW k \in 0..n PROVE g[k] = IF k = 0 THEN a ELSE Turn(config, snap, type, g[k - 1])
      <3>1. CASE k = 0
        BY <2>1, <3>1
      <3>2. CASE k # 0
        <4>1. k \in 1..n /\ k - 1 \in 0..n
          BY <1>0, <3>2
        <4>2. g[k] = G[g[k - 1]] /\ g[k - 1] \in U
          BY <2>1, <4>1
        <4> QED BY <3>2, <4>2
      <3> QED BY <3>1, <3>2
    <2>3. g = [k \in 0..n |-> g[k]]
      BY <2>1
    <2> QED BY <2>2, <2>3
  <1>7. step = H(step)
    <2>1. g = F(g)
      BY <1>4, <1>6
    <2>2. step = F(step)
      <3> HIDE DEF H
      <3> QED BY <2>1
    <2> QED BY <1>4, <2>2
  <1> HIDE DEF step, G
  <1>8. step[0] = a /\ \A k \in 1..n : step[k] = Turn(config, snap, type, step[k - 1])
    BY <1>0, <1>7
  <1> HIDE DEF H
  <1> DEFINE T == {m \in Nat : m <= n => /\ step[m] \in U
                                         /\ Walks(config, snap, R, name, type, step[m], m)}
  <1>9. 0 \in T
    <2> DEFINE c == <<first>>
    <2>1. c \in Seq(R) /\ Len(c) = 1 /\ c[1] = first
      OBVIOUS
    <2>2. a.out = c /\ a.next = first.target /\ a.visited = {first.name} /\ a.done = FALSE
      BY DEF a
    <2> HIDE DEF c
    <2>3. ChainFrom(config, snap, R, name, c)
      BY <2>1 DEF ChainFrom
    <2>4. Owners(c) = {first.name}
      BY <2>1 DEF Owners
    <2>5. Len(c) = 0 + 1 /\ c[Len(c)].target = first.target
      BY <2>1
    <2>6. WalkAt(config, snap, R, name, type, a, 0, c)
      BY <2>2, <2>3, <2>4, <2>5 DEF WalkAt
    <2>7. Walks(config, snap, R, name, type, a, 0)
      BY <2>6 DEF Walks
    <2> QED BY <1>1, <1>8, <2>7
  <1>10. ASSUME NEW m \in Nat, m \in T PROVE m + 1 \in T
    <2> SUFFICES ASSUME m + 1 <= n
                 PROVE step[m + 1] \in U /\ Walks(config, snap, R, name, type, step[m + 1], m + 1)
      OBVIOUS
    <2>1. m + 1 \in 1..n /\ (m + 1) - 1 = m /\ m <= n
      BY <1>0
    <2>2. step[m] \in U /\ Walks(config, snap, R, name, type, step[m], m)
      BY <1>10, <2>1
    <2>3. step[m + 1] = Turn(config, snap, type, step[m])
      BY <1>8, <2>1
    <2>4. Turn(config, snap, type, step[m]) \in U
      BY <2>2, TurnTyped DEF U
    <2>5. Walks(config, snap, R, name, type, Turn(config, snap, type, step[m]), m + 1)
      BY <2>2, TurnWalks DEF U
    <2> QED BY <2>3, <2>4, <2>5
  <1>11. Nat \subseteq T
    <2> HIDE DEF T
    <2> QED BY <1>9, <1>10, SetInduction
  <1>12. Walks(config, snap, R, name, type, step[n], n)
    BY <1>0, <1>11
  <1> QED BY <1>3, <1>12 DEF n

\* The aliases of an answer are the chain it begins with.
LEMMA AliasesAreChain ==
    ASSUME NEW R, NEW c \in Seq(R), \A i \in 1..Len(c) : c[i].type = "CNAME",
           NEW t \in Seq(R), \A i \in 1..Len(t) : t[i].type # "CNAME"
    PROVE Aliases(c \o t) = c
  <1> DEFINE out == c \o t
             m == Len(c)
             I == {i \in DOMAIN out : out[i].type = "CNAME"}
  <1>1. /\ out \in Seq(R) /\ m \in Nat /\ Len(t) \in Nat /\ Len(out) = m + Len(t)
        /\ DOMAIN out = 1..Len(out)
        /\ \A i \in 1..m : out[i] = c[i]
        /\ \A i \in 1..Len(out) : i > m => out[i] = t[i - m]
    OBVIOUS
  <1>2. I = 1..m
    <2>1. ASSUME NEW i \in DOMAIN out PROVE i \in I <=> i \in 1..m
      <3>1. i \in 1..Len(out)
        BY <1>1
      <3>2. CASE i <= m
        <4>1. i \in 1..m
          BY <1>1, <3>1, <3>2
        <4>2. out[i].type = "CNAME"
          BY <1>1, <4>1
        <4> QED BY <4>1, <4>2
      <3>3. CASE i > m
        <4>1. i - m \in 1..Len(t) /\ i \notin 1..m
          BY <1>1, <3>1, <3>3
        <4>2. out[i].type # "CNAME"
          BY <1>1, <3>1, <3>3, <4>1
        <4> QED BY <4>1, <4>2
      <3> QED BY <1>1, <3>1, <3>2, <3>3
    <2>2. 1..m \subseteq DOMAIN out
      BY <1>1
    <2> QED BY <2>1, <2>2
  <1>3. m \in 0..Len(out)
    BY <1>1
  <1>4. Aliases(out) = Select(out, 1..m)
    BY <1>2 DEF Aliases
  <1> HIDE DEF out, I
  <1>5. /\ Select(out, 1..m) \in Seq(R) /\ Len(Select(out, 1..m)) = m
        /\ \A i \in 1..m : Select(out, 1..m)[i] = out[i]
    BY <1>1, <1>3, SelectFirst
  <1>6. Select(out, 1..m) = c
    BY <1>1, <1>5, SeqEqual
  <1> QED BY <1>4, <1>6 DEF out

\* A chain has as many names as aliases.
LEMMA OwnersCounted ==
    ASSUME NEW c, Len(c) \in Nat,
           \A i, j \in 1..Len(c) : i # j => c[i].name # c[j].name
    PROVE Cardinality(Owners(c)) = Len(c)
  <1> DEFINE I == 1..Len(c)
             f == [i \in I |-> c[i].name]
  <1>1. f \in Bijection(I, Owners(c))
    <2>1. f \in Injection(I, Owners(c))
      BY DEF Injection, IsInjective, Owners
    <2>2. f \in Surjection(I, Owners(c))
      BY DEF Surjection, Owners
    <2> QED BY <2>1, <2>2 DEF Bijection
  <1>2. IsFiniteSet(I) /\ Cardinality(I) = Len(c)
    BY Counting
  <1>3. ExistsBijection(I, Owners(c))
    BY <1>1 DEF ExistsBijection
  <1> QED BY <1>2, <1>3, FS_Bijection

\* Authority::lookup answers a name with the chain of aliases from it, without a
\* name twice, within the zones and the limit, and with the records it ends in;
\* it breaks off only where a loop, a zone's edge, the limit or a missing record
\* says so.  For every set of records, however they loop, and every limit.
THEOREM ChainAnswers ==
    ASSUME NEW R, NEW config, NEW snap, snap.records \in Seq(R), NEW typed, NEW type
    PROVE AnswerIsTheChain(config, snap, typed, type)
  <1> DEFINE name == normalise_name(typed)
             found == lookup(config, snap, typed, type)
             out == found.records
             chain == Aliases(out)
             end == End(name, out)
             owners == {chain[i].name : i \in DOMAIN chain}
             auth(n) == is_authoritative_for(config, snap, n)
             direct == RecordsAt(snap, name, type)
             aliases == RecordsAt(snap, name, "CNAME")
  <1> SUFFICES ASSUME found.claimed, type # "CNAME", type # "ANY"
      PROVE /\ chain # <<>> => chain[1].name = name
            /\ \A i \in 2..Len(chain) : chain[i].name = chain[i - 1].target
            /\ Cardinality(owners) = Len(chain)
            /\ \A n \in owners : auth(n)
            /\ Len(chain) <= MaxCnameDepth + 1
            /\ IF Len(out) > Len(chain)
               THEN out = chain \o RecordsAt(snap, end, type)
               ELSE \/ end \in owners
                    \/ ~auth(end)
                    \/ Len(chain) = MaxCnameDepth + 1
                    \/ RecordsAt(snap, end, type) \o RecordsAt(snap, end, "CNAME") = <<>>
    BY DEF AnswerIsTheChain
  <1>0. MaxCnameDepth \in Nat
    BY LookupAssumption
  <1>1. auth(name) /\ out = collect_with_cname_chain(config, snap, name, type)
    BY DEF lookup
  <1>2. /\ direct \in Seq(R) /\ aliases \in Seq(R)
        /\ \A i \in 1..Len(direct) : direct[i].type = type
        /\ \A i \in 1..Len(aliases) : /\ aliases[i] \in R /\ aliases[i].name = name
                                       /\ aliases[i].type = "CNAME"
    BY Found
  <1> HIDE DEF found, name, auth
  <1>3. CASE direct # <<>> \/ aliases = <<>>
    <2>1. out = direct
      BY <1>1, <1>3 DEF collect_with_cname_chain
    <2> HIDE DEF direct, aliases, out
    <2>2. <<>> \in Seq(R) /\ Len(<<>>) = 0 /\ <<>> \o direct = direct
      BY <1>2, EmptySeq
    <2>3. chain = <<>>
      <3>1. \A i \in 1..Len(direct) : direct[i].type # "CNAME"
        BY <1>2
      <3>2. \A i \in 1..Len(<<>>) : <<>>[i].type = "CNAME"
        BY <2>2
      <3>3. Aliases(<<>> \o direct) = <<>>
        BY <1>2, <2>2, <3>1, <3>2, AliasesAreChain
      <3> QED BY <2>1, <2>2, <3>3
    <2>4. end = name
      BY <2>3 DEF End
    <2>5. owners = {}
      BY <2>3
    <2> HIDE DEF chain, end, owners
    <2>6. Cardinality(owners) = 0
      BY <2>5, FS_EmptySet
    <2>7. Len(chain) = 0 /\ Len(chain) <= MaxCnameDepth + 1
      BY <1>0, <2>2, <2>3
    <2>8. CASE direct # <<>>
      <3>1. out = chain \o RecordsAt(snap, end, type)
        BY <2>1, <2>2, <2>3, <2>4 DEF direct
      <3>2. Len(out) > Len(chain)
        BY <1>2, <2>1, <2>7, <2>8, EmptySeq
      <3> QED BY <2>3, <2>5, <2>6, <2>7, <3>1, <3>2
    <2>9. CASE direct = <<>>
      <3>1. aliases = <<>>
        BY <1>3, <2>9
      <3>2. RecordsAt(snap, end, type) \o RecordsAt(snap, end, "CNAME") = <<>>
        BY <2>2, <2>4, <2>9, <3>1 DEF direct, aliases
      <3>3. ~(Len(out) > Len(chain))
        BY <2>1, <2>2, <2>7, <2>9
      <3> QED BY <2>3, <2>5, <2>6, <2>7, <3>2, <3>3
    <2> QED BY <2>8, <2>9
  <1>4. CASE direct = <<>> /\ aliases # <<>>
    <2> DEFINE first == aliases[1]
    <2>1. out = Chase(config, snap, first, type)
      BY <1>1, <1>4 DEF collect_with_cname_chain
    <2>2. first \in R /\ first.name = name /\ first.type = "CNAME"
      <3> HIDE DEF aliases, direct
      <3>1. 1 \in 1..Len(aliases)
        BY <1>2, <1>4, EmptySeq
      <3> QED BY <1>2, <3>1
    <2> HIDE DEF direct, aliases, out, first
    <2>3. PICK s : /\ Walks(config, snap, R, name, type, s, MaxCnameDepth)
                   /\ Chase(config, snap, first, type) = s.out
      BY <1>1, <2>2, ChaseWalks DEF auth
    <2>4. PICK c : WalkAt(config, snap, R, name, type, s, MaxCnameDepth, c)
      BY <2>3 DEF Walks
    <2>5. /\ c \in Seq(R) /\ Len(c) >= 1 /\ Len(c) \in Nat
          /\ c[1].name = name
          /\ \A i \in 2..Len(c) : c[i].name = c[i - 1].target
          /\ \A i \in 1..Len(c) : c[i].type = "CNAME" /\ auth(c[i].name)
          /\ \A i, j \in 1..Len(c) : i # j => c[i].name # c[j].name
      <3>1. ChainFrom(config, snap, R, name, c)
        BY <2>4 DEF WalkAt
      <3>2. c \in Seq(R) /\ Len(c) >= 1 /\ Len(c) \in Nat
        BY <3>1 DEF ChainFrom
      <3>3. /\ c[1].name = name
            /\ \A i \in 2..Len(c) : c[i].name = c[i - 1].target
            /\ \A i, j \in 1..Len(c) : i # j => c[i].name # c[j].name
        BY <3>1 DEF ChainFrom
      <3>4. \A i \in 1..Len(c) : c[i].type = "CNAME" /\ auth(c[i].name)
        BY <3>1 DEF ChainFrom, auth
      <3> QED BY <3>2, <3>3, <3>4
    <2> DEFINE last == c[Len(c)].target
               terminal == RecordsAt(snap, last, type)
    <2>6. terminal \in Seq(R) /\ \A i \in 1..Len(terminal) : terminal[i].type = type
      BY Found
    <2>7. \/ out = c /\ Len(c) = MaxCnameDepth + 1
          \/ out = c /\ Len(c) <= MaxCnameDepth /\ BreaksOff(config, snap, type, c)
          \/ out = c \o terminal /\ Len(c) <= MaxCnameDepth /\ terminal # <<>>
      BY <2>1, <2>3, <2>4 DEF WalkAt
    <2> HIDE DEF terminal, last
    <2>8. <<>> \in Seq(R) /\ Len(<<>>) = 0 /\ c \o <<>> = c /\ <<>> \o <<>> = <<>>
      BY <2>5, EmptySeq
    <2>9. chain = c
      <3>1. \A i \in 1..Len(terminal) : terminal[i].type # "CNAME"
        BY <2>6
      <3>2. Aliases(c \o terminal) = c
        BY <2>5, <2>6, <3>1, AliasesAreChain
      <3>3. \A i \in 1..Len(<<>>) : <<>>[i].type # "CNAME"
        BY <2>8
      <3>4. Aliases(c \o <<>>) = c
        BY <2>5, <2>8, <3>3, AliasesAreChain
      <3> QED BY <2>7, <2>8, <3>2, <3>4
    <2>10. end = last
      <3>1. c # <<>>
        BY <2>5
      <3> QED BY <2>9, <3>1 DEF End, Last, last
    <2>11. owners = Owners(c)
      BY <2>5, <2>9 DEF Owners
    <2>12. Cardinality(Owners(c)) = Len(c)
      BY <2>5, OwnersCounted
    <2>13. \A n \in Owners(c) : auth(n)
      BY <2>5 DEF Owners
    <2> HIDE DEF chain, end, owners
    <2>14. Len(c) <= MaxCnameDepth + 1
      BY <1>0, <2>5, <2>7
    <2>15. IF Len(out) > Len(chain)
           THEN out = chain \o RecordsAt(snap, end, type)
           ELSE \/ end \in owners
                \/ ~auth(end)
                \/ Len(chain) = MaxCnameDepth + 1
                \/ RecordsAt(snap, end, type) \o RecordsAt(snap, end, "CNAME") = <<>>
      <3>1. CASE out = c /\ Len(c) = MaxCnameDepth + 1
        BY <2>5, <2>9, <3>1
      <3>2. CASE out = c /\ BreaksOff(config, snap, type, c)
        <4>1. \/ end \in owners \/ ~auth(end)
              \/ RecordsAt(snap, end, type) = <<>> /\ RecordsAt(snap, end, "CNAME") = <<>>
          BY <2>10, <2>11, <3>2 DEF BreaksOff, last, auth
        <4>2. \/ end \in owners \/ ~auth(end)
              \/ RecordsAt(snap, end, type) \o RecordsAt(snap, end, "CNAME") = <<>>
          BY <2>8, <4>1
        <4>3. ~(Len(out) > Len(chain))
          BY <2>5, <2>9, <3>2
        <4> QED BY <4>2, <4>3
      <3>3. CASE out = c \o terminal /\ terminal # <<>>
        <4>1. Len(out) > Len(chain)
          BY <2>5, <2>6, <2>9, <3>3, EmptySeq
        <4>2. out = chain \o RecordsAt(snap, end, type)
          BY <2>9, <2>10, <3>3 DEF terminal
        <4> QED BY <4>1, <4>2
      <3> QED BY <2>7, <3>1, <3>2, <3>3
    <2> QED BY <2>5, <2>9, <2>11, <2>12, <2>13, <2>14, <2>15
  <1> QED BY <1>3, <1>4

-----------------------------------------------------------------------------
(* The zones the authority claims and the records it serves.               *)

\* The names a bundle can bring: one label below the mesh zone.
NamesInMesh(mesh) == {<<Lower[l]>> \o mesh : l \in DOMAIN Lower}

\* The records a bundle can bring.
MeshRecord(mesh) ==
    [name : NamesInMesh(mesh), type : {"A"}, target : {<<>>}, ttl : Nat, node : STRING]

\* The records a snapshot can hold.
HeldRecord(mesh) == {static_record_to_dns_record(sr) : sr \in StaticRecord} \cup MeshRecord(mesh)

\* A validated label is normalised to a name of one label.
LEMMA SingleLabel ==
    ASSUME NEW value \in DnsName, validate_single_label(value)
    PROVE value[1] \in DOMAIN Lower /\ normalise_name(value) = <<Lower[value[1]]>>
  <1>1. Len(value) = 1 /\ value[1] \in DOMAIN Lower
    BY DEF validate_single_label
  <1>2. /\ normalise_name(value) \in Seq(STRING) /\ Len(normalise_name(value)) = 1
        /\ normalise_name(value)[1] = Lower[value[1]]
    BY <1>1, NormalisedName DEF DnsName
  <1>3. Lower[value[1]] \in STRING
    BY <1>1, LowerAssumption
  <1> DEFINE l == Lower[value[1]]
  <1> HIDE DEF l
  <1>4. <<l>> \in Seq(STRING) /\ Len(<<l>>) = 1 /\ <<l>>[1] = l
    BY <1>3 DEF l
  <1>5. normalise_name(value) = <<l>>
    BY <1>2, <1>4, SeqEqual DEF l
  <1> QED BY <1>1, <1>5 DEF l

\* A valid entry is built into records directly below the mesh zone.
LEMMA BuiltRecords ==
    ASSUME NEW entry \in BundleRecord, EntryValid(entry), NEW mesh
    PROVE build_record(entry, mesh) \in Seq(MeshRecord(mesh))
  <1> DEFINE names == <<entry.label>> \o entry.aliases
             n == Len(names)
  <1>1. entry.label \in DnsName /\ entry.aliases \in Seq(DnsName) /\ entry.ttl \in Nat /\ entry.node \in STRING
    BY DEF BundleRecord
  <1>2. names \in Seq(DnsName) /\ n \in Nat /\ DOMAIN names = 1..n
    BY <1>1
  <1>3. ASSUME NEW i \in 1..n PROVE names[i] \in DnsName /\ validate_single_label(names[i])
    <2>1. names[i] \in DnsName
      BY <1>2
    <2>2. CASE i = 1
      <3>1. names[1] = entry.label
        BY <1>1
      <3> QED BY <2>1, <2>2, <3>1 DEF EntryValid
    <2>3. CASE i # 1
      <3>1. i - 1 \in 1..Len(entry.aliases) /\ names[i] = entry.aliases[i - 1]
        BY <1>1, <2>3
      <3>2. i - 1 \in DOMAIN entry.aliases
        BY <1>1, <3>1
      <3> QED BY <2>1, <3>1, <3>2 DEF EntryValid
    <2> QED BY <2>2, <2>3
  <1> DEFINE rec(i) == [name |-> normalise_name(names[i]) \o mesh, type |-> "A", target |-> <<>>,
                        ttl |-> entry.ttl, node |-> entry.node]
  <1>4. build_record(entry, mesh) = [i \in DOMAIN names |-> rec(i)]
    BY DEF build_record
  <1>5. ASSUME NEW i \in 1..n PROVE rec(i) \in MeshRecord(mesh)
    <2>1. PICK l \in DOMAIN Lower : normalise_name(names[i]) = <<Lower[l]>>
      BY <1>3, SingleLabel
    <2> DEFINE m == normalise_name(names[i]) \o mesh
    <2>2. m \in NamesInMesh(mesh)
      BY <2>1 DEF NamesInMesh
    <2> HIDE DEF m
    <2>3. [name |-> m, type |-> "A", target |-> <<>>, ttl |-> entry.ttl, node |-> entry.node] \in MeshRecord(mesh)
      BY <1>1, <2>2 DEF MeshRecord
    <2> QED BY <2>3 DEF m
  <1> HIDE DEF names, n, rec
  <1>6. [i \in 1..n |-> rec(i)] \in Seq(MeshRecord(mesh))
    BY <1>2, <1>5
  <1> QED BY <1>2, <1>4, <1>6

\* So is a bundle, whatever its entries.
LEMMA MeshRecordsTyped ==
    ASSUME NEW config, NEW bundle \in Seq(BundleRecord)
    PROVE MeshRecords(config, bundle) \in Seq(MeshRecord(MeshZone(config)))
  <1> DEFINE M == MeshRecord(MeshZone(config))
             n == Len(bundle)
             ss == [i \in 1..n |-> build_record(bundle[i], MeshZone(config))]
  <1>1. n \in Nat /\ DOMAIN bundle = 1..n /\ \A i \in 1..n : bundle[i] \in BundleRecord
    OBVIOUS
  <1>2. CASE \A i \in DOMAIN bundle : EntryValid(bundle[i])
    <2>1. MeshRecords(config, bundle) = FlattenSeq(ss)
      BY <1>1, <1>2 DEF MeshRecords
    <2>2. \A i \in 1..n : build_record(bundle[i], MeshZone(config)) \in Seq(M)
      BY <1>1, <1>2, BuiltRecords
    <2> HIDE DEF M
    <2>3. ss \in Seq(Seq(M))
      BY <1>1, <2>2
    <2> HIDE DEF ss
    <2>4. FlattenSeq(ss) \in Seq(M)
      BY <2>3, Flattened
    <2> QED BY <2>1, <2>4 DEF M
  <1>3. CASE ~\A i \in DOMAIN bundle : EntryValid(bundle[i])
    BY <1>3, EmptySeq DEF MeshRecords
  <1> QED BY <1>2, <1>3

\* The static records of a configuration.
LEMMA StaticTyped ==
    ASSUME NEW config \in AuthoritySection
    PROVE /\ StaticRecords(config) \in Seq({static_record_to_dns_record(sr) : sr \in StaticRecord})
          /\ ToSet(StaticRecords(config)) =
                {static_record_to_dns_record(config.static[i]) : i \in DOMAIN config.static}
          /\ \A i \in DOMAIN config.static : config.static[i] \in StaticRecord
  <1> DEFINE S == {static_record_to_dns_record(sr) : sr \in StaticRecord}
             n == Len(config.static)
  <1>1. config.static \in Seq(StaticRecord)
    BY DEF AuthoritySection
  <1>2. n \in Nat /\ DOMAIN config.static = 1..n /\ \A i \in 1..n : config.static[i] \in StaticRecord
    BY <1>1
  <1>3. StaticRecords(config) = [i \in 1..n |-> static_record_to_dns_record(config.static[i])]
    BY <1>2 DEF StaticRecords
  <1>4. \A i \in 1..n : static_record_to_dns_record(config.static[i]) \in S
    BY <1>2
  <1> HIDE DEF S, n
  <1>5. [i \in 1..n |-> static_record_to_dns_record(config.static[i])] \in Seq(S)
    BY <1>2, <1>4
  <1>6. ToSet(StaticRecords(config)) =
                {static_record_to_dns_record(config.static[i]) : i \in DOMAIN config.static}
    BY <1>2, <1>3 DEF ToSet
  <1> QED BY <1>2, <1>3, <1>5, <1>6 DEF S

\* A snapshot holds all static records and claims all their zones; beyond those
\* it claims only names directly below the mesh zone (build_snapshot).
LEMMA SnapshotTyped ==
    ASSUME NEW config \in AuthoritySection, NEW bundle \in Seq(BundleRecord)
    PROVE LET snap == build_snapshot(config, bundle) IN
          /\ snap.records \in Seq(HeldRecord(MeshZone(config)))
          /\ ToSet(StaticRecords(config)) \subseteq ToSet(snap.records)
          /\ StaticZones(config) \subseteq snap.zones
          /\ snap.zones \subseteq StaticZones(config) \cup NamesInMesh(MeshZone(config))
  <1> DEFINE mesh == MeshRecords(config, bundle)
             static == StaticRecords(config)
             M == MeshRecord(MeshZone(config))
             S == {static_record_to_dns_record(sr) : sr \in StaticRecord}
             snap == build_snapshot(config, bundle)
  <1>1. snap.records = static \o mesh /\ snap.zones = StaticZones(config) \cup {r.name : r \in ToSet(mesh)}
    BY DEF build_snapshot
  <1>2. mesh \in Seq(M) /\ static \in Seq(S)
    BY MeshRecordsTyped, StaticTyped
  <1>3. ASSUME NEW r \in ToSet(mesh) PROVE r.name \in NamesInMesh(MeshZone(config))
    <2>1. r \in M
      <3> HIDE DEF M, mesh
      <3> QED BY <1>2 DEF ToSet
    <2> QED BY <2>1 DEF MeshRecord
  <1> HIDE DEF mesh, static, M, S, snap
  <1>4. static \o mesh \in Seq(S \cup M)
    <2>1. static \in Seq(S \cup M) /\ mesh \in Seq(S \cup M)
      BY <1>2
    <2> QED BY <2>1
  <1>5. ToSet(static) \subseteq ToSet(static \o mesh)
    <2>1. ASSUME NEW i \in DOMAIN static PROVE i \in DOMAIN (static \o mesh) /\ (static \o mesh)[i] = static[i]
      BY <1>2
    <2> QED BY <2>1 DEF ToSet
  <1> QED BY <1>1, <1>3, <1>4, <1>5 DEF HeldRecord, M, S, static, snap

\* The zone a static record claims is not the root and holds the record's name
\* (static_zone_apex).
LEMMA ApexHolds ==
    ASSUME NEW name \in DnsName, name # <<>>
    PROVE /\ static_zone_apex(name) \in DnsName
          /\ static_zone_apex(name) # <<>>
          /\ name_within_zone(name, static_zone_apex(name))
          /\ Len(name) >= 2 => /\ static_zone_apex(name)[1] = name[2]
                               /\ Len(static_zone_apex(name)) = Len(name) - 1
          /\ ~(Len(name) >= 2) => static_zone_apex(name) = name /\ Len(name) = 1
  <1>1. name \in Seq(STRING) /\ Len(name) \in Nat /\ Len(name) >= 1
    BY EmptySeq DEF DnsName
  <1>2. CASE Len(name) >= 2
    <2> DEFINE t == Tail(name)
    <2>1. /\ t \in Seq(STRING) /\ Len(t) = Len(name) - 1
          /\ \A i \in 1..(Len(name) - 1) : t[i] = name[i + 1]
      BY <1>1, <1>2, RestOf
    <2>2. static_zone_apex(name) = t
      BY <1>2 DEF static_zone_apex
    <2> HIDE DEF t
    <2>3. t # <<>> /\ Len(t) >= 1 /\ Len(name) > Len(t)
      BY <1>1, <1>2, <2>1, EmptySeq
    <2>4. EndsWith(name, t)
      <3>1. ASSUME NEW k \in 1..Len(t) PROVE t[k] = name[Len(name) - Len(t) + k]
        <4>1. k \in 1..(Len(name) - 1) /\ Len(name) - Len(t) + k = k + 1
          BY <1>1, <2>1
        <4> QED BY <2>1, <4>1
      <3>2. Len(t) <= Len(name)
        BY <1>1, <2>1
      <3> QED BY <3>1, <3>2 DEF EndsWith
    <2>5. IsSuffix(t, name)
      BY <1>1, <2>1, <2>4, SuffixMeans DEF DnsName
    <2>6. t[1] = name[2]
      <3>1. 1 \in 1..(Len(name) - 1) /\ 1 + 1 = 2
        BY <1>1, <1>2
      <3> QED BY <2>1, <3>1
    <2> QED BY <1>1, <1>2, <2>1, <2>2, <2>3, <2>5, <2>6 DEF name_within_zone, DnsName
  <1>3. CASE ~(Len(name) >= 2)
    <2>0. Len(name) = 1
      <3> DEFINE n == Len(name)
      <3>1. n \in Nat /\ n >= 1 /\ ~(n >= 2)
        BY <1>1, <1>3
      <3> HIDE DEF n
      <3>2. n = 1
        BY <3>1
      <3> QED BY <3>2 DEF n
    <2>2. static_zone_apex(name) = name
      BY <1>3 DEF static_zone_apex
    <2>1. static_zone_apex(name) = name /\ Len(name) = 1
      BY <2>0, <2>2
    <2> QED BY <1>3, <2>1 DEF name_within_zone
  <1> QED BY <1>2, <1>3

\* A name a bundle brings is a label and the mesh zone.
LEMMA MeshNameShape ==
    ASSUME NEW mesh \in DnsName, NEW z \in NamesInMesh(mesh)
    PROVE /\ z \in DnsName /\ Len(z) = Len(mesh) + 1
          /\ \A i \in 1..Len(mesh) : z[i + 1] = mesh[i]
          /\ EndsWith(z, mesh)
  <1>1. PICK l \in DOMAIN Lower : z = <<Lower[l]>> \o mesh
    BY DEF NamesInMesh
  <1> DEFINE x == Lower[l]
  <1>2. x \in STRING
    BY LowerAssumption
  <1> HIDE DEF x
  <1>3. mesh \in Seq(STRING) /\ Len(mesh) \in Nat
    BY DEF DnsName
  <1>4. /\ <<x>> \o mesh \in Seq(STRING) /\ Len(<<x>> \o mesh) = Len(mesh) + 1
        /\ \A i \in 1..Len(mesh) : (<<x>> \o mesh)[i + 1] = mesh[i]
    BY <1>2, <1>3, InFront
  <1>5. z \in Seq(STRING) /\ Len(z) = Len(mesh) + 1 /\ \A i \in 1..Len(mesh) : z[i + 1] = mesh[i]
    BY <1>1, <1>4 DEF x
  <1>6. EndsWith(z, mesh)
    <2>1. ASSUME NEW k \in 1..Len(mesh) PROVE mesh[k] = z[Len(z) - Len(mesh) + k]
      <3>1. Len(z) - Len(mesh) + k = k + 1
        BY <1>3, <1>5
      <3> QED BY <1>5, <3>1
    <2> QED BY <1>3, <1>5, <2>1 DEF EndsWith
  <1> QED BY <1>5, <1>6 DEF DnsName

\* What lies within such a name lies within the mesh zone.
LEMMA BelowMeshName ==
    ASSUME NEW mesh \in DnsName, mesh # <<>>, NEW z \in NamesInMesh(mesh), NEW name \in DnsName,
           name_within_zone(name, z)
    PROVE name_within_zone(name, mesh)
  <1>1. /\ z \in DnsName /\ Len(z) = Len(mesh) + 1 /\ EndsWith(z, mesh)
        /\ Len(z) \in Nat /\ Len(mesh) \in Nat /\ Len(name) \in Nat
    BY MeshNameShape DEF DnsName
  <1>2. EndsWith(name, z)
    <2>1. CASE name = z
      <3>1. \A k \in 1..Len(z) : Len(z) - Len(z) + k = k
        BY <1>1
      <3> QED BY <1>1, <2>1, <3>1 DEF EndsWith
    <2>2. CASE name # z
      <3>1. IsSuffix(z, name)
        BY <2>2 DEF name_within_zone
      <3> QED BY <1>1, <3>1, SuffixMeans
    <2> QED BY <2>1, <2>2
  <1>3. EndsWith(name, mesh) /\ Len(name) > Len(mesh)
    <2>0. Len(z) <= Len(name)
      BY <1>2 DEF EndsWith
    <2>1. ASSUME NEW k \in 1..Len(mesh) PROVE mesh[k] = name[Len(name) - Len(mesh) + k]
      <3>1. mesh[k] = z[Len(z) - Len(mesh) + k]
        BY <1>1 DEF EndsWith
      <3>2. Len(z) - Len(mesh) + k \in 1..Len(z)
        BY <1>1
      <3>3. z[Len(z) - Len(mesh) + k] = name[Len(name) - Len(z) + (Len(z) - Len(mesh) + k)]
        BY <1>2, <3>2 DEF EndsWith
      <3>4. Len(name) - Len(z) + (Len(z) - Len(mesh) + k) = Len(name) - Len(mesh) + k
        BY <1>1
      <3> QED BY <3>1, <3>3, <3>4
    <2>2. Len(mesh) <= Len(name) /\ Len(name) > Len(mesh)
      BY <1>1, <2>0
    <2> QED BY <2>1, <2>2 DEF EndsWith
  <1>4. IsSuffix(mesh, name)
    BY <1>1, <1>3, SuffixMeans
  <1> QED BY <1>3, <1>4 DEF name_within_zone

\* The name of an accepted record is not the root, its zone is claimed, and that
\* zone is a single label only if declared.
LEMMA AcceptedNames ==
    ASSUME NEW config \in AuthoritySection, Accepts(config), NEW i \in DOMAIN config.static
    PROVE LET name == normalise_name(config.static[i].name) IN
          /\ name \in DnsName /\ name # <<>>
          /\ static_zone_apex(name) \in StaticZones(config)
          /\ Len(static_zone_apex(name)) = 1 =>
                static_zone_apex(name) \in DeclaredZones(config) \cup {MeshZone(config)}
  <1> DEFINE sr == config.static[i]
             name == normalise_name(sr.name)
             r == static_record_to_dns_record(sr)
  <1>1. sr \in StaticRecord /\ r \in ToSet(StaticRecords(config))
    BY StaticTyped
  <1>2. sr.name \in DnsName
    BY <1>1 DEF StaticRecord
  <1>3. name \in DnsName
    BY <1>2, NormalisedName
  <1>4. MayClaim(name, MeshZone(config), DeclaredZones(config))
    BY DEF Accepts
  <1>5. r.name = name
    BY DEF static_record_to_dns_record
  <1> HIDE DEF r, name
  <1>6. static_zone_apex(name) \in StaticZones(config)
    BY <1>1, <1>5 DEF StaticZones
  <1> QED BY <1>3, <1>4, <1>6 DEF MayClaim, name

\* Where a claimed zone can come from.
LEMMA ZoneKinds ==
    ASSUME NEW config \in AuthoritySection, NEW bundle \in Seq(BundleRecord),
           NEW z \in build_snapshot(config, bundle).zones \cup {MeshZone(config)}
    PROVE \/ z = MeshZone(config)
          \/ z \in DeclaredZones(config)
          \/ z \in NamesInMesh(MeshZone(config))
          \/ \E i \in DOMAIN config.static : z = static_zone_apex(normalise_name(config.static[i].name))
  <1>1. \/ z = MeshZone(config) \/ z \in StaticZones(config) \/ z \in NamesInMesh(MeshZone(config))
    BY SnapshotTyped
  <1>2. ASSUME z \in StaticZones(config), z \notin DeclaredZones(config)
        PROVE \E i \in DOMAIN config.static : z = static_zone_apex(normalise_name(config.static[i].name))
    <2>1. PICK r \in ToSet(StaticRecords(config)) : z = static_zone_apex(r.name)
      BY <1>2 DEF StaticZones
    <2>2. PICK i \in DOMAIN config.static : r = static_record_to_dns_record(config.static[i])
      BY <2>1, StaticTyped
    <2>3. r.name = normalise_name(config.static[i].name)
      BY <2>2 DEF static_record_to_dns_record
    <2> QED BY <2>1, <2>3
  <1> QED BY <1>1, <1>2

\* Whatever static records and mesh bundle are loaded, the authority claims a
\* whole top-level domain only if the operator declared it or it is the mesh
\* zone, and never the root (static_zone_apex, is_authoritative_for).
THEOREM DeclaredClaims ==
    ASSUME NEW config \in AuthoritySection, NEW bundle \in Seq(BundleRecord),
           config.mesh # <<>>, \A i \in DOMAIN config.zones : Len(config.zones[i]) = 1,
           NEW Labels, Labels \subseteq STRING,
           NEW fresh, FreshFor(fresh, SectionNames(config))
    PROVE ClaimsOnlyDeclared(config, bundle, Labels, fresh)
  <1> DEFINE snap == build_snapshot(config, bundle)
             mesh == MeshZone(config)
             auth(n) == is_authoritative_for(config, snap, n)
  <1> SUFFICES ASSUME Accepts(config)
               PROVE /\ ~auth(<<>>)
                     /\ \A label \in Labels : auth(<<fresh, label>>) => <<label>> \in DeclaredZones(config) \cup {mesh}
    BY DEF ClaimsOnlyDeclared
  <1>0. fresh \in STRING
    BY LowerAssumption DEF FreshFor
  <1>1. /\ mesh \in DnsName /\ mesh # <<>> /\ Len(mesh) \in Nat /\ Len(mesh) >= 1
        /\ \A i \in 1..Len(mesh) : mesh[i] # fresh
    <2>1. config.mesh \in DnsName
      BY DEF AuthoritySection
    <2>2. mesh \in DnsName /\ mesh # <<>> /\ Len(mesh) = Len(config.mesh)
      BY <2>1, NormalisedName DEF MeshZone
    <2>3. DOMAIN config.mesh = 1..Len(config.mesh) /\ Len(mesh) \in Nat
      BY <2>1, <2>2 DEF DnsName
    <2>4. Len(mesh) >= 1
      BY <2>2, EmptySeq DEF DnsName
    <2>5. config.mesh \in SectionNames(config)
      BY DEF SectionNames
    <2>6. \A i \in DOMAIN config.mesh : normalise_name(config.mesh)[i] # fresh
      BY <2>5 DEF FreshFor
    <2> QED BY <2>2, <2>3, <2>4, <2>6 DEF MeshZone
  <1>2. ASSUME NEW z \in DeclaredZones(config) PROVE z \in DnsName /\ Len(z) = 1
    <2>1. PICK d \in ToSet(config.zones) : z = normalise_name(d)
      BY DEF DeclaredZones
    <2>2. PICK i \in DOMAIN config.zones : d = config.zones[i]
      BY <2>1 DEF ToSet
    <2>3. config.zones \in Seq(DnsName)
      BY DEF AuthoritySection
    <2>4. d \in DnsName
      BY <2>2, <2>3
    <2>5. Len(d) = 1
      BY <2>2
    <2> QED BY <2>1, <2>4, <2>5, NormalisedName
  <1>3. ASSUME NEW z \in NamesInMesh(mesh) PROVE z \in DnsName /\ Len(z) = Len(mesh) + 1 /\ Len(z) >= 2 /\ z[2] = mesh[1]
    <2>1. /\ z \in DnsName /\ Len(z) = Len(mesh) + 1 /\ \A i \in 1..Len(mesh) : z[i + 1] = mesh[i]
      BY <1>1, MeshNameShape
    <2>2. 1 \in 1..Len(mesh) /\ 1 + 1 = 2 /\ Len(mesh) + 1 >= 2
      BY <1>1
    <2> QED BY <2>1, <2>2
  <1>4. ASSUME NEW i \in DOMAIN config.static
        PROVE LET name == normalise_name(config.static[i].name) IN
              /\ name \in DnsName /\ name # <<>> /\ \A k \in 1..Len(name) : name[k] # fresh
              /\ Len(static_zone_apex(name)) = 1 =>
                   static_zone_apex(name) \in DeclaredZones(config) \cup {mesh}
    <2> DEFINE typed == config.static[i].name
               name == normalise_name(typed)
    <2>1. /\ name \in DnsName /\ name # <<>>
          /\ Len(static_zone_apex(name)) = 1 => static_zone_apex(name) \in DeclaredZones(config) \cup {mesh}
      BY AcceptedNames
    <2>2. typed \in DnsName
      BY StaticTyped DEF StaticRecord
    <2>3. DOMAIN typed = 1..Len(typed) /\ Len(name) = Len(typed)
      BY <2>2, NormalisedName DEF DnsName
    <2>4. typed \in SectionNames(config)
      BY DEF SectionNames
    <2>5. \A k \in DOMAIN typed : normalise_name(typed)[k] # fresh
      BY <2>4 DEF FreshFor
    <2> QED BY <2>1, <2>3, <2>5
  <1>5. ASSUME NEW n, auth(n)
        PROVE \E z : /\ name_within_zone(n, z)
                     /\ \/ z = mesh \/ z \in DeclaredZones(config) \/ z \in NamesInMesh(mesh)
                        \/ \E i \in DOMAIN config.static : z = static_zone_apex(normalise_name(config.static[i].name))
    <2>1. PICK z \in snap.zones \cup {mesh} : name_within_zone(n, z)
      BY <1>5 DEF is_authoritative_for
    <2> QED BY <2>1, ZoneKinds
  <1> HIDE DEF auth, mesh, snap
  <1>6. ~auth(<<>>)
    <2> SUFFICES ASSUME auth(<<>>) PROVE FALSE
      OBVIOUS
    <2>1. PICK z : /\ name_within_zone(<<>>, z)
                   /\ \/ z = mesh \/ z \in DeclaredZones(config) \/ z \in NamesInMesh(mesh)
                      \/ \E i \in DOMAIN config.static : z = static_zone_apex(normalise_name(config.static[i].name))
      BY <1>5
    <2>2. z \in DnsName /\ z # <<>>
      <3>1. ASSUME NEW i \in DOMAIN config.static, z = static_zone_apex(normalise_name(config.static[i].name))
            PROVE z \in DnsName /\ z # <<>>
        BY <1>4, <3>1, ApexHolds
      <3>2. ASSUME z \in DnsName, Len(z) >= 1 PROVE z # <<>>
        BY <3>2
      <3>3. ASSUME z \in DeclaredZones(config) PROVE z \in DnsName /\ Len(z) >= 1
        BY <1>2, <3>3
      <3>4. ASSUME z \in NamesInMesh(mesh) PROVE z \in DnsName /\ Len(z) >= 1
        <4>1. z \in DnsName /\ Len(z) = Len(mesh) + 1
          BY <1>3, <3>4
        <4> QED BY <1>1, <4>1
      <3> QED BY <1>1, <2>1, <3>1, <3>2, <3>3, <3>4
    <2>3. Len(z) \in Nat /\ Len(<<>>) = 0
      BY <2>2 DEF DnsName
    <2>4. Len(<<>>) > Len(z)
      BY <2>1, <2>2 DEF name_within_zone
    <2> QED BY <2>3, <2>4
  <1>7. ASSUME NEW label \in Labels, auth(<<fresh, label>>)
        PROVE <<label>> \in DeclaredZones(config) \cup {mesh}
    <2> DEFINE pair == <<fresh, label>>
               one == <<label>>
    <2>1. label \in STRING
      OBVIOUS
    <2>2. /\ pair \in DnsName /\ Len(pair) = 2 /\ pair[1] = fresh /\ pair[2] = label
          /\ one \in DnsName /\ Len(one) = 1 /\ one[1] = label
      <3> HIDE <1>7
      <3> QED BY <1>0, <2>1 DEF DnsName
    <2>3. PICK z : /\ name_within_zone(pair, z)
                   /\ \/ z = mesh \/ z \in DeclaredZones(config) \/ z \in NamesInMesh(mesh)
                      \/ \E i \in DOMAIN config.static : z = static_zone_apex(normalise_name(config.static[i].name))
      BY <1>5, <1>7
    <2> HIDE DEF pair, one
    <2>4. ASSUME z \in DnsName PROVE z = pair \/ z = one
      <3> SUFFICES ASSUME z # pair PROVE z = one
        OBVIOUS
      <3>1. z # <<>> /\ Len(pair) > Len(z) /\ IsSuffix(z, pair)
        BY <2>3 DEF name_within_zone
      <3>2. EndsWith(pair, z)
        BY <2>2, <2>4, <3>1, SuffixMeans
      <3> DEFINE m == Len(z)
      <3>3. m \in Nat /\ m >= 1 /\ m < 2
        BY <2>2, <2>4, <3>1, EmptySeq DEF DnsName
      <3> HIDE DEF m
      <3>4. m = 1 /\ 1 \in 1..m /\ 2 - m + 1 = 2
        BY <3>3
      <3>5. z[1] = pair[2]
        BY <2>2, <3>2, <3>4 DEF EndsWith, m
      <3>6. Len(z) = 1 /\ z \in Seq(STRING) /\ one \in Seq(STRING) /\ \A k \in 1..1 : z[k] = one[k]
        BY <2>2, <2>4, <3>4, <3>5 DEF m, DnsName
      <3> QED BY <2>2, <3>6, SeqEqual
    <2>5. CASE z = mesh
      <3>1. z # pair
        <4>1. ASSUME z = pair PROVE FALSE
          <5>1. Len(mesh) = 2 /\ mesh[1] = fresh /\ 1 \in 1..2
            BY <2>2, <2>5, <4>1
          <5> QED BY <1>1, <5>1
        <4> QED BY <4>1
      <3> QED BY <1>1, <2>4, <2>5, <3>1 DEF one
    <2>6. CASE z \in DeclaredZones(config)
      <3>1. z \in DnsName /\ Len(z) = 1
        BY <1>2, <2>6
      <3>2. z # pair
        BY <2>2, <3>1
      <3> QED BY <2>4, <2>6, <3>1, <3>2 DEF one
    <2>7. CASE z \in NamesInMesh(mesh)
      <3>1. z \in DnsName /\ Len(z) = Len(mesh) + 1 /\ Len(z) >= 2 /\ z[2] = mesh[1]
        BY <1>3, <2>7
      <3>2. z # one
        <4> DEFINE m == Len(z)
        <4>1. m >= 2
          BY <3>1
        <4> HIDE DEF m
        <4>2. ASSUME z = one PROVE FALSE
          <5>1. m = 1
            BY <2>2, <4>2 DEF m
          <5> QED BY <4>1, <5>1
        <4> QED BY <4>2
      <3>3. z = pair
        BY <2>4, <3>1, <3>2
      <3>4. Len(mesh) + 1 = 2 /\ mesh[1] = label
        BY <2>2, <3>1, <3>3
      <3>5. Len(mesh) = 1
        <4> DEFINE m == Len(mesh)
        <4>1. m \in Nat /\ m + 1 = 2
          BY <1>1, <3>4
        <4> HIDE DEF m
        <4>2. m = 1
          BY <4>1
        <4> QED BY <4>2 DEF m
      <3>6. mesh \in Seq(STRING) /\ one \in Seq(STRING) /\ \A k \in 1..1 : mesh[k] = one[k]
        BY <1>1, <2>2, <3>4 DEF DnsName
      <3>7. mesh = one
        BY <2>2, <3>5, <3>6, SeqEqual
      <3> QED BY <3>7 DEF one
    <2>8. CASE \E i \in DOMAIN config.static : z = static_zone_apex(normalise_name(config.static[i].name))
      <3>1. PICK i \in DOMAIN config.static : z = static_zone_apex(normalise_name(config.static[i].name))
        BY <2>8
      <3> DEFINE name == normalise_name(config.static[i].name)
      <3>2. /\ name \in DnsName /\ name # <<>> /\ \A k \in 1..Len(name) : name[k] # fresh
            /\ Len(z) = 1 => z \in DeclaredZones(config) \cup {mesh}
        BY <1>4, <3>1
      <3>3. z = static_zone_apex(name)
        BY <3>1
      <3> HIDE DEF name
      <3>4. /\ z \in DnsName
            /\ Len(name) >= 2 => z[1] = name[2]
            /\ ~(Len(name) >= 2) => z = name /\ Len(name) = 1
        BY <3>2, <3>3, ApexHolds
      <3>5. z # pair
        <4> SUFFICES ASSUME z = pair PROVE FALSE
          OBVIOUS
        <4>1. Len(name) >= 2
          <5> SUFFICES ASSUME ~(Len(name) >= 2) PROVE FALSE
            OBVIOUS
          <5>1. Len(name) = 1 /\ name = pair
            BY <3>4
          <5>2. Len(name) = 2
            BY <2>2, <5>1
          <5> DEFINE m == Len(name)
          <5> HIDE DEF m
          <5>3. m = 1 /\ m = 2
            BY <5>1, <5>2 DEF m
          <5> QED BY <5>3
        <4>2. 2 \in 1..Len(name)
          BY <3>2, <4>1 DEF DnsName
        <4> QED BY <2>2, <3>2, <3>4, <4>1, <4>2
      <3>6. z = one
        BY <2>4, <3>4, <3>5
      <3> QED BY <2>2, <3>2, <3>6 DEF one
    <2> QED BY <2>3, <2>5, <2>6, <2>7, <2>8
  <1> QED BY <1>6, <1>7

\* A bundle neither hides a static record, in any spelling of its name, nor
\* extends the authority beyond the mesh zone (build_snapshot, lookup).
THEOREM StaticServed ==
    ASSUME NEW config \in AuthoritySection, NEW bundle \in Seq(BundleRecord),
           config.mesh # <<>>, NEW Asked, Asked \subseteq DnsName
    PROVE StaticAlwaysServed(config, bundle, Asked)
  <1> DEFINE snap == build_snapshot(config, bundle)
             bare == build_snapshot(config, <<>>)
             mesh == MeshZone(config)
             R == HeldRecord(mesh)
  <1> SUFFICES ASSUME Accepts(config)
      PROVE /\ \A sr \in ToSet(config.static) :
                  LET found == lookup(config, snap, sr.name, sr.type)
                  IN  found.claimed /\ static_record_to_dns_record(sr) \in ToSet(found.records)
            /\ \A typed \in Asked :
                  lookup(config, snap, typed, "ANY").claimed =>
                      \/ lookup(config, bare, typed, "ANY").claimed
                      \/ name_within_zone(normalise_name(typed), mesh)
    BY DEF StaticAlwaysServed
  <1>1. /\ snap.records \in Seq(R)
        /\ ToSet(StaticRecords(config)) \subseteq ToSet(snap.records)
        /\ StaticZones(config) \subseteq snap.zones
        /\ snap.zones \subseteq StaticZones(config) \cup NamesInMesh(mesh)
    BY SnapshotTyped
  <1>2. StaticZones(config) \subseteq bare.zones
    BY SnapshotTyped, EmptySeq
  <1>3. mesh \in DnsName /\ mesh # <<>>
    <2>1. config.mesh \in DnsName
      BY DEF AuthoritySection
    <2> QED BY <2>1, NormalisedName DEF MeshZone
  <1> HIDE DEF snap, bare, R
  <1>4. ASSUME NEW sr \in ToSet(config.static)
        PROVE LET found == lookup(config, snap, sr.name, sr.type)
              IN  found.claimed /\ static_record_to_dns_record(sr) \in ToSet(found.records)
    <2> DEFINE name == normalise_name(sr.name)
               r == static_record_to_dns_record(sr)
               s == snap.records
               I == {i \in DOMAIN s : s[i].name = name /\ sr.type \in {s[i].type, "ANY"}}
    <2>1. PICK i \in DOMAIN config.static : sr = config.static[i]
      BY DEF ToSet
    <2>2. name \in DnsName /\ name # <<>> /\ static_zone_apex(name) \in StaticZones(config)
      BY <2>1, AcceptedNames
    <2>3. r \in ToSet(StaticRecords(config))
      BY <2>1, StaticTyped
    <2>4. r.name = name /\ r.type = sr.type
      BY DEF static_record_to_dns_record
    <2> HIDE DEF r, name
    <2>5. is_authoritative_for(config, snap, name)
      <3>1. name_within_zone(name, static_zone_apex(name))
        BY <2>2, ApexHolds
      <3> QED BY <1>1, <2>2, <3>1 DEF is_authoritative_for
    <2>6. PICK k \in DOMAIN s : s[k] = r
      BY <1>1, <2>3 DEF ToSet
    <2>7. k \in I /\ I \subseteq DOMAIN s
      BY <2>4, <2>6
    <2>8. RecordsAt(snap, name, sr.type) = Select(s, I)
      BY DEF RecordsAt
    <2> HIDE DEF I, s
    <2>9. Select(s, I) \in Seq(R) /\ ToSet(Select(s, I)) = {s[j] : j \in I}
      BY <1>1, <2>7, SelectedSet DEF s
    <2> DEFINE direct == RecordsAt(snap, name, sr.type)
    <2>10. r \in ToSet(direct) /\ direct \in Seq(R)
      BY <2>6, <2>7, <2>8, <2>9
    <2>11. direct # <<>>
      BY <2>10 DEF ToSet
    <2>12. collect_with_cname_chain(config, snap, name, sr.type) = direct
      BY <2>11 DEF collect_with_cname_chain
    <2> HIDE DEF direct
    <2>13. lookup(config, snap, sr.name, sr.type) = [claimed |-> TRUE, records |-> direct]
      BY <2>5, <2>12 DEF lookup, name
    <2> QED BY <2>10, <2>13 DEF r
  <1>5. ASSUME NEW typed \in Asked, lookup(config, snap, typed, "ANY").claimed
        PROVE \/ lookup(config, bare, typed, "ANY").claimed
              \/ name_within_zone(normalise_name(typed), mesh)
    <2> DEFINE name == normalise_name(typed)
    <2>1. name \in DnsName
      BY NormalisedName
    <2>2. is_authoritative_for(config, snap, name)
      BY <1>5 DEF lookup
    <2>3. PICK z \in snap.zones \cup {mesh} : name_within_zone(name, z)
      BY <2>2 DEF is_authoritative_for
    <2> HIDE DEF name
    <2>4. CASE z = mesh
      BY <2>3, <2>4 DEF name
    <2>5. CASE z \in StaticZones(config)
      <3>1. is_authoritative_for(config, bare, name)
        BY <1>2, <2>3, <2>5 DEF is_authoritative_for
      <3> QED BY <3>1 DEF lookup, name
    <2>6. CASE z \in NamesInMesh(mesh)
      <3>1. name_within_zone(name, mesh)
        <4> HIDE DEF mesh
        <4> QED BY <1>3, <2>1, <2>3, <2>6, BelowMeshName
      <3> QED BY <3>1 DEF name
    <2> QED BY <1>1, <2>3, <2>4, <2>5, <2>6
  <1> QED BY <1>4, <1>5

-----------------------------------------------------------------------------
(* The invariants of TablesSpec.                                           *)

\* Nothing is asked, or a question with inputs of the tables.
Posed ==
    \/ asked = Nothing
    \/ \E z \in ChainZones, q \in ChainQueries :
          asked = [table |-> "chain", zone |-> z, name |-> q.name, type |-> q.type]
    \/ \E c \in AuthorityConfigs, b \in MeshBundles :
          asked = [table |-> "authority", config |-> c, bundle |-> b]
    \/ \E w \in WindowLists, t \in Instants :
          asked = [table |-> "schedule", windows |-> w, secs |-> t]
    \/ \E d \in Denylists : asked = [table |-> "denylist", entries |-> d]
    \/ \E a, b \in Clients : asked = [table |-> "client", a |-> a, b |-> b]
    \/ \E a \in Answers, q \in Questions :
          asked = [table |-> "answer", answers |-> a, name |-> q.name, type |-> q.type]
    \/ \E s \in SourceLists, a \in Allowlists, r \in Patterns :
          asked = [table |-> "blocklist", sources |-> s, allowlist |-> a, regex |-> r]
    \/ \E r \in RewriteLists : asked = [table |-> "rewrite", rules |-> r]
    \/ \E c \in Configs : asked = [table |-> "config", config |-> c]
    \/ \E c, d \in ReloadConfigs : asked = [table |-> "reload", startup |-> c, new |-> d]

\* The inputs a question is about, by its table.
LEMMA QuestionInputs ==
    ASSUME Posed
    PROVE /\ asked.table = "chain" => asked.zone \in ChainZones
          /\ asked.table = "authority" => asked.config \in AuthorityConfigs /\ asked.bundle \in MeshBundles
          /\ asked.table = "schedule" => asked.windows \in WindowLists /\ asked.secs \in Instants
          /\ asked.table = "denylist" => asked.entries \in Denylists
          /\ asked.table = "client" => asked.a \in Clients /\ asked.b \in Clients
          /\ asked.table = "answer" => asked.answers \in Answers
          /\ asked.table = "blocklist" => asked.sources \in SourceLists /\ asked.allowlist \in Allowlists
          /\ asked.table = "rewrite" => asked.rules \in RewriteLists
          /\ asked.table = "config" => asked.config \in Configs
          /\ asked.table = "reload" => asked.startup \in ReloadConfigs /\ asked.new \in ReloadConfigs
  BY DEF Posed, Nothing

\* Every question of a behaviour has inputs of the tables.
LEMMA AlwaysPosed == TablesSpec => []Posed
  <1>1. TablesInit => Posed
    BY DEF TablesInit, Posed
  <1>2. Posed /\ [TablesNext]_asked => Posed'
    <2> SUFFICES ASSUME Posed, [TablesNext]_asked PROVE Posed'
      OBVIOUS
    <2>1. CASE AskChain
      BY <2>1 DEF AskChain, Ask, Posed
    <2>2. CASE AskAuthority
      BY <2>2 DEF AskAuthority, Ask, Posed
    <2>3. CASE AskSchedule
      BY <2>3 DEF AskSchedule, Ask, Posed
    <2>4. CASE AskDenylist
      BY <2>4 DEF AskDenylist, Ask, Posed
    <2>5. CASE AskClients
      BY <2>5 DEF AskClients, Ask, Posed
    <2>6. CASE AskAnswer
      BY <2>6 DEF AskAnswer, Ask, Posed
    <2>7. CASE AskBlocklist
      BY <2>7 DEF AskBlocklist, Ask, Posed
    <2>8. CASE AskRewrite
      BY <2>8 DEF AskRewrite, Ask, Posed
    <2>9. CASE AskConfig
      BY <2>9 DEF AskConfig, Ask, Posed
    <2>10. CASE AskReload
      BY <2>10 DEF AskReload, Ask, Posed
    <2>11. CASE Answered
      BY <2>11 DEF Answered, Posed
    <2>12. CASE UNCHANGED asked
      BY <2>12 DEF Posed
    <2> QED BY <2>1, <2>2, <2>3, <2>4, <2>5, <2>6, <2>7, <2>8, <2>9, <2>10, <2>11, <2>12 DEF TablesNext
  <1> QED BY <1>1, <1>2, PTL DEF TablesSpec

\* Authority::lookup answers with the chain of aliases and what it ends in, claims
\* a whole top-level domain only if it was declared, and serves every static record
\* whatever bundle is merged: for all configurations, bundles, loops and limits.
THEOREM AuthorityAlwaysAnswers == TablesSpec => []AuthorityAnswers
  <1>1. ASSUME Posed, asked.table = "chain"
        PROVE AnswerIsTheChain(asked.zone, build_snapshot(asked.zone, <<>>), asked.name, asked.type)
    <2>1. asked.zone \in AuthoritySection
      BY <1>1, QuestionInputs, InputsAssumption
    <2>2. <<>> \in Seq(BundleRecord)
      BY EmptySeq
    <2>3. build_snapshot(asked.zone, <<>>).records \in Seq(HeldRecord(MeshZone(asked.zone)))
      BY <2>1, <2>2, SnapshotTyped
    <2> QED BY <2>3, ChainAnswers
  <1>2. ASSUME Posed, asked.table = "authority"
        PROVE /\ ClaimsOnlyDeclared(asked.config, asked.bundle, TopLabels, FreshLabel)
              /\ StaticAlwaysServed(asked.config, asked.bundle,
                                    {<<FreshLabel, l>> : l \in TopLabels} \cup Spellings)
    <2>1. asked.config \in AuthorityConfigs /\ asked.bundle \in MeshBundles
      BY <1>2, QuestionInputs
    <2>2. /\ asked.config \in AuthoritySection /\ asked.bundle \in Seq(BundleRecord)
          /\ asked.config.mesh # <<>>
          /\ \A i \in DOMAIN asked.config.zones : Len(asked.config.zones[i]) = 1
      BY <2>1, InputsAssumption
    <2>3. TopLabels \subseteq STRING /\ FreshFor(FreshLabel, SectionNames(asked.config))
      BY <2>1, LabelsAssumption
    <2>4. FreshLabel \in STRING
      BY <2>3, LowerAssumption DEF FreshFor
    <2>5. {<<FreshLabel, l>> : l \in TopLabels} \cup Spellings \subseteq DnsName
      <3>1. \A l \in TopLabels : <<FreshLabel, l>> \in DnsName
        BY <2>3, <2>4, PairName
      <3> QED BY <3>1, InputsAssumption
    <2>6. ClaimsOnlyDeclared(asked.config, asked.bundle, TopLabels, FreshLabel)
      BY <2>2, <2>3, DeclaredClaims
    <2>7. StaticAlwaysServed(asked.config, asked.bundle,
                             {<<FreshLabel, l>> : l \in TopLabels} \cup Spellings)
      BY <2>2, <2>5, StaticServed
    <2> QED BY <2>6, <2>7
  <1>3. Posed => AuthorityAnswers
    BY <1>1, <1>2 DEF AuthorityAnswers
  <1> QED BY <1>3, AlwaysPosed, PTL

\* BlockSchedule blocks at exactly the seconds the windows name, and no second is
\* lost or blocked twice at a boundary (window_matches): for all windows, instants
\* and lengths of the day.
THEOREM WindowsAlwaysHold == TablesSpec => []WindowsHold
  <1>1. ASSUME Posed, asked.table = "schedule"
        PROVE /\ BlockedAsWritten(asked.windows, asked.secs)
              /\ \A i \in DOMAIN asked.windows : WindowsTileTheDay(asked.windows[i], asked.secs)
    <2>1. asked.windows \in Seq({w \in WindowRecord : WindowValid(w)}) /\ asked.secs \in Nat
      BY <1>1, QuestionInputs, InputsAssumption
    <2>2. \A i \in DOMAIN asked.windows : asked.windows[i] \in WindowRecord
      BY <2>1
    <2> QED BY <2>1, <2>2, BlockedExactly, DayTiled
  <1>2. Posed => WindowsHold
    BY <1>1 DEF WindowsHold
  <1> QED BY <1>2, AlwaysPosed, PTL

\* The denylist blocks exactly the hosts it names and the logs tell clients apart
\* exactly by network (IpDenylist, ClientId::anonymized): for all entries, clients
\* and widths of the address families.
THEOREM AddressesAlwaysHold == TablesSpec => []AddressesHold
  <1>1. ASSUME Posed, asked.table = "denylist" PROVE DenylistCovers(asked.entries)
    <2>1. asked.entries \in Seq(DenylistEntry)
      BY <1>1, QuestionInputs, InputsAssumption
    <2>2. ASSUME NEW i \in DOMAIN asked.entries
          PROVE asked.entries[i].ip \in Addresses /\ asked.entries[i].prefix \in Nat
      <3>1. asked.entries[i] \in DenylistEntry
        BY <2>1
      <3> QED BY <3>1 DEF DenylistEntry
    <2> QED BY <2>2, DenylistExact
  <1>2. ASSUME Posed, asked.table = "client" PROVE AnonymisedByNetwork(asked.a, asked.b)
    <2>1. asked.a.ip \in Addresses /\ asked.b.ip \in Addresses
      BY <1>2, QuestionInputs, InputsAssumption
    <2> QED BY <2>1, Anonymised
  <1>3. Posed => AddressesHold
    BY <1>1, <1>2 DEF AddressesHold
  <1> QED BY <1>3, AlwaysPosed, PTL

\* An upstream's answer keeps exactly what its aliases lead to from the question,
\* without private hosts under the rebinding defence (filter_answer_sanity,
\* filter_private_rdata): for all answers.
THEOREM AnswersAlwaysFiltered == TablesSpec => []AnswersFiltered
  <1>1. ASSUME Posed, asked.table = "answer"
        PROVE /\ AnswerStaysOnTopic(asked.answers, asked.name, asked.type)
              /\ NoPrivateHost(asked.answers, asked.name, asked.type)
    <2>1. asked.answers \in Seq(AnswerRecord)
      BY <1>1, QuestionInputs, InputsAssumption
    <2> QED BY <2>1, AnswerOnTopic, NoPrivateAnswer
  <1>2. Posed => AnswersFiltered
    BY <1>1 DEF AnswersFiltered
  <1> QED BY <1>2, AlwaysPosed, PTL

\* A query is blocked exactly if the lists say so (parse, is_blocked): for all
\* sources, allowlists, patterns and spellings.
THEOREM ListsAlwaysBlock == TablesSpec => []ListsBlock
  <1>1. ASSUME Posed, asked.table = "blocklist", NEW typed \in Spellings
        PROVE BlockedAsListed(asked.sources, asked.allowlist, asked.regex, typed)
    <2>1. asked.sources \in Seq(SourceRecord) /\ asked.allowlist \in Seq(DnsName)
      BY <1>1, QuestionInputs, InputsAssumption
    <2>2. typed \in DnsName
      BY InputsAssumption
    <2> QED BY <2>1, <2>2, BlockedExactlyAsListed
  <1>2. Posed => ListsBlock
    BY <1>1 DEF ListsBlock
  <1> QED BY <1>2, AlwaysPosed, PTL

\* The closest rewrite answers, and safe search holds unless overruled by name
\* (RewriteMap, combined_rewrite_rules): for all rules and queries.
THEOREM RewritesAlwaysAnswer == TablesSpec => []RewritesAnswer
  <1>1. ASSUME Posed, asked.table = "rewrite"
        PROVE /\ \A q \in RewriteQueries : ClosestRewriteAnswers(asked.rules, q.name, q.type)
              /\ SafeSearchHolds(Engines, asked.rules)
    <2>1. asked.rules \in Seq(RewriteRecord)
      BY <1>1, QuestionInputs, InputsAssumption
    <2>2. ASSUME NEW q \in RewriteQueries PROVE ClosestRewriteAnswers(asked.rules, q.name, q.type)
      <3>1. q.name \in DnsName
        BY InputsAssumption
      <3> QED BY <2>1, <3>1, ClosestAnswers
    <2>3. Engines \in Seq(EngineRecord) /\ \A e \in ToSet(Engines) : e.name # <<>> /\ ~IsWildcard(e.name)
      BY InputsAssumption
    <2>4. SafeSearchHolds(Engines, asked.rules)
      BY <2>1, <2>3, SafeSearch
    <2> QED BY <2>2, <2>4
  <1>2. Posed => RewritesAnswer
    BY <1>1 DEF RewritesAnswer
  <1> QED BY <1>2, AlwaysPosed, PTL

\* A question about a configuration is about one.
LEMMA ConfigAsked ==
    ASSUME Posed, asked.table = "config"
    PROVE asked.config \in ConfigRecord /\ asked.config \in Configs
  BY QuestionInputs, InputsAssumption

\* No address and port of an accepted configuration is received by two roles
\* (validate_config, effective_listen): for all configurations.
THEOREM ListenersAlwaysSeparate == TablesSpec => []ListenersSeparate
  <1>1. Posed => ListenersSeparate
    BY ConfigAsked, ListenersKeepApart DEF ListenersSeparate
  <1> QED BY <1>1, AlwaysPosed, PTL

\* The daemon starts with what it accepted, needs none of its fallbacks and gives
\* no whole top-level domain away (main, build_policy_map,
\* reject_overbroad_allowlist): for all configurations.
THEOREM AcceptedAlwaysInForce == TablesSpec => []AcceptedInForce
  <1>1. ASSUME Posed, asked.table = "config"
        PROVE /\ AcceptedStarts(asked.config)
              /\ NothingFallsBack(asked.config, {c.ip : c \in Clients})
              /\ NoWholeDomain(asked.config, TopLabels, FreshLabel)
    <2>1. asked.config \in ConfigRecord /\ asked.config \in Configs
      BY <1>1, ConfigAsked
    <2>2. TopLabels \subseteq STRING /\ FreshFor(FreshLabel, NamesOf(asked.config))
      BY <2>1, LabelsAssumption
    <2>3. AcceptedStarts(asked.config)
      BY <2>1, AcceptedConfigStarts
    <2>4. NothingFallsBack(asked.config, {c.ip : c \in Clients})
      BY <2>1, AcceptedNeedsNoDefault
    <2>5. NoWholeDomain(asked.config, TopLabels, FreshLabel)
      BY <2>1, <2>2, NoDomainTaken
    <2> QED BY <2>3, <2>4, <2>5
  <1>2. Posed => AcceptedInForce
    BY <1>1 DEF AcceptedInForce
  <1> QED BY <1>2, AlwaysPosed, PTL

\* A SIGHUP reports what it does not follow, but for the settings it never
\* compares, and one that warns of nothing serves every client as a restart
\* would in all that does not depend on those (restart_required_changes): for
\* all pairs of configurations.
THEOREM ReloadsAlwaysReported == TablesSpec => []ReloadsReported
  <1>1. ASSUME Posed, asked.table = "reload"
        PROVE ReloadLikeRestart(asked.startup, asked.new, {c.ip : c \in Clients}, Spellings)
    <2>1. asked.startup \in ConfigRecord /\ asked.new \in ConfigRecord
      BY <1>1, QuestionInputs, InputsAssumption
    <2> QED BY <2>1, ReloadIsRestart
  <1>2. Posed => ReloadsReported
    BY <1>1 DEF ReloadsReported
  <1> QED BY <1>2, AlwaysPosed, PTL

-----------------------------------------------------------------------------
(* MeshAuthority, for any set of bundles, any set of reloading tasks and   *)
(* any bounds: type correctness, the watermark's agreement with the        *)
(* snapshot, and the refinement of MonotoneZone.                           *)

\* The lock is held exactly between the comparison and the second store.
LockInv ==
    \A r \in Reloaders : lock = r <=> pc[r] \in {"store", "advance"}

\* A reload past the read and before the metrics holds a bundle.
LoadedInv ==
    \A r \in Reloaders :
        pc[r] \in {"freshness", "lock", "store", "advance"} => loaded[r] \in Bundles

\* What the holder of the lock has established: before its first store the
\* snapshot and the watermark agree, after it the snapshot is its own bundle,
\* and in both cases that bundle is not older than the watermark.
HolderInv ==
    \A r \in Reloaders :
        /\ pc[r] = "store" => watermark = Version(snapshot)
        /\ pc[r] = "advance" => snapshot = loaded[r]
        /\ pc[r] \in {"store", "advance"} =>
               (watermark # NoBundle => ~Older(loaded[r], watermark))

\* Without a holder the two agree.
FreeInv == lock = Free => watermark = Version(snapshot)

IInv == TypeOK /\ LockInv /\ LoadedInv /\ HolderInv /\ FreeInv

-----------------------------------------------------------------------------
\* No version is the value that stands for None.
LEMMA VersionNotNone ==
    ASSUME NEW b \in Bundles
    PROVE  /\ b # NoBundle
           /\ Version(b) = [gen |-> b.gen, nonce |-> b.nonce]
           /\ Version(b) # NoBundle
           /\ Version(b) \in Versions
BY MeshAssumption DEF Version, Versions

\* Comparing with a bundle and comparing with its version are the same.
LEMMA OlderThanVersion ==
    ASSUME NEW a, NEW b \in Bundles
    PROVE  Older(a, Version(b)) <=> Older(a, b)
BY VersionNotNone DEF Older

\* A bundle is not older than itself.
LEMMA NotOlderThanItself ==
    ASSUME NEW b \in Bundles
    PROVE  ~Older(b, b)
BY MeshAssumption DEF Older

\* What is loaded at boot is no bundle or one that was published.
LEMMA BootBundle ==
    ASSUME NEW f \in Bundles \cup {Unloadable}, NEW now \in 0..MaxClock
    PROVE  LoadAtBoot(f, now) \in Bundles \cup {NoBundle}
BY DEF LoadAtBoot, Loadable

-----------------------------------------------------------------------------
\* The inductive invariant holds initially.
LEMMA InitIInv == Init => IInv
<1> SUFFICES ASSUME Init PROVE IInv
  OBVIOUS
<1> DEFINE b == LoadAtBoot(file, clock)
<1>1. b \in Bundles \cup {NoBundle}
  BY BootBundle DEF Init
<1>2. Version(b) \in Versions \cup {NoBundle}
  BY <1>1, VersionNotNone DEF Version
<1>3. TypeOK
  BY <1>1, <1>2, MeshAssumption DEF Init, TypeOK
<1>4. LockInv /\ LoadedInv /\ HolderInv /\ FreeInv
  BY MeshAssumption DEF Init, LockInv, LoadedInv, HolderInv, FreeInv
<1>5. QED
  BY <1>3, <1>4 DEF IInv

\* Every step of the environment and of any reload keeps the inductive invariant.
LEMMA StepIInv == IInv /\ [Next]_vars => IInv'
<1> SUFFICES ASSUME IInv, [Next]_vars PROVE IInv'
  OBVIOUS
<1> USE MeshAssumption DEF IInv
<1>1. ASSUME NEW f \in Bundles \cup {Unloadable}, Publish(f) PROVE IInv'
  BY <1>1 DEF Publish, taskVars, TypeOK, LockInv, LoadedInv, HolderInv,
              FreeInv
<1>2. ASSUME NEW t \in 0..MaxClock, ClockMoves(t) PROVE IInv'
  BY <1>2 DEF ClockMoves, taskVars, TypeOK, LockInv, LoadedInv, HolderInv,
              FreeInv
<1>3. CASE Restart
  <2> DEFINE b == LoadAtBoot(file, clock)
  <2>1. b \in Bundles \cup {NoBundle}
    BY BootBundle DEF TypeOK
  <2>2. Version(b) \in Versions \cup {NoBundle}
    BY <2>1, VersionNotNone DEF Version
  <2>3. TypeOK'
    BY <1>3, <2>1, <2>2 DEF Restart, Boot, TypeOK
  <2>4. LockInv' /\ LoadedInv' /\ HolderInv' /\ FreeInv'
    BY <1>3 DEF Restart, Boot, LockInv, LoadedInv, HolderInv, FreeInv
  <2>5. QED
    BY <2>3, <2>4
<1>4. ASSUME NEW r \in Reloaders, ReadBundle(r) PROVE IInv'
  <2>1. TypeOK'
    BY <1>4 DEF ReadBundle, Loadable, TypeOK
  <2>2. LoadedInv'
    BY <1>4 DEF ReadBundle, Loadable, TypeOK, LoadedInv
  <2>3. LockInv' /\ HolderInv' /\ FreeInv'
    BY <1>4 DEF ReadBundle, TypeOK, LockInv, HolderInv, FreeInv
  <2>4. QED
    BY <2>1, <2>2, <2>3
<1>5. ASSUME NEW r \in Reloaders, CheckFreshness(r) PROVE IInv'
  <2>1. TypeOK'
    BY <1>5 DEF CheckFreshness, TypeOK
  <2>2. LoadedInv'
    BY <1>5 DEF CheckFreshness, TypeOK, LoadedInv
  <2>3. LockInv' /\ HolderInv' /\ FreeInv'
    BY <1>5 DEF CheckFreshness, TypeOK, LockInv, HolderInv, FreeInv
  <2>4. QED
    BY <2>1, <2>2, <2>3
<1>6. ASSUME NEW r \in Reloaders, CompareWatermark(r) PROVE IInv'
  <2>1. TypeOK'
    BY <1>6 DEF CompareWatermark, TypeOK
  <2>2. LockInv' /\ LoadedInv'
    BY <1>6 DEF CompareWatermark, TypeOK, LockInv, LoadedInv
  <2>3. HolderInv'
    BY <1>6 DEF CompareWatermark, TypeOK, HolderInv, FreeInv
  <2>4. FreeInv'
    BY <1>6 DEF CompareWatermark, FreeInv
  <2>5. QED
    BY <2>1, <2>2, <2>3, <2>4
<1>7. ASSUME NEW r \in Reloaders, StoreSnapshot(r) PROVE IInv'
  <2>1. lock = r /\ loaded[r] \in Bundles
    BY <1>7 DEF StoreSnapshot, LockInv, LoadedInv
  <2>2. TypeOK'
    BY <1>7, <2>1 DEF StoreSnapshot, TypeOK
  <2>3. LockInv' /\ LoadedInv'
    BY <1>7, <2>1 DEF StoreSnapshot, TypeOK, LockInv, LoadedInv
  <2>4. HolderInv' /\ FreeInv'
    BY <1>7, <2>1 DEF StoreSnapshot, TypeOK, LockInv, HolderInv, FreeInv
  <2>5. QED
    BY <2>2, <2>3, <2>4
<1>8. ASSUME NEW r \in Reloaders, AdvanceWatermark(r) PROVE IInv'
  <2>1. lock = r /\ loaded[r] \in Bundles /\ snapshot = loaded[r]
    BY <1>8 DEF AdvanceWatermark, LockInv, LoadedInv, HolderInv
  <2>2. Version(loaded[r]) \in Versions
    BY <2>1, VersionNotNone
  <2>3. TypeOK'
    BY <1>8, <2>1, <2>2 DEF AdvanceWatermark, TypeOK
  <2>4. LockInv' /\ LoadedInv'
    BY <1>8, <2>1 DEF AdvanceWatermark, TypeOK, LockInv, LoadedInv
  <2>5. HolderInv' /\ FreeInv'
    BY <1>8, <2>1 DEF AdvanceWatermark, TypeOK, LockInv, HolderInv, FreeInv
  <2>6. QED
    BY <2>3, <2>4, <2>5
<1>9. ASSUME NEW r \in Reloaders, MarkMetrics(r) PROVE IInv'
  <2>1. gauge' \in {RecordCount(b) : b \in Bundles \cup {NoBundle}}
    BY <1>9 DEF MarkMetrics, TypeOK, RecordCount
  <2>2. TypeOK'
    BY <1>9, <2>1 DEF MarkMetrics, TypeOK
  <2>3. LockInv' /\ LoadedInv' /\ HolderInv' /\ FreeInv'
    BY <1>9 DEF MarkMetrics, TypeOK, LockInv, LoadedInv, HolderInv, FreeInv
  <2>4. QED
    BY <2>2, <2>3
<1>10. CASE UNCHANGED vars
  BY <1>10 DEF vars, taskVars, TypeOK, LockInv, LoadedInv, HolderInv, FreeInv
<1>11. QED
  BY <1>1, <1>2, <1>3, <1>4, <1>5, <1>6, <1>7, <1>8, <1>9, <1>10
     DEF Next, ReloadStep

\* The inductive invariant holds in every reachable state.
THEOREM Invariance == Spec => []IInv
BY InitIInv, StepIInv, PTL DEF Spec

\* The authority's state and the tasks' locals stay within their types.
THEOREM TypeCorrect == Spec => []TypeOK
BY Invariance, PTL DEF IInv

\* The watermark is the served version whenever the lock is free, and is
\* never ahead of the snapshot.
THEOREM WatermarkAgrees == Spec => []WatermarkTracksSnapshot
<1>1. IInv => WatermarkTracksSnapshot
  <2> SUFFICES ASSUME IInv PROVE WatermarkTracksSnapshot
    OBVIOUS
  <2> USE MeshAssumption DEF IInv
  <2>1. lock = Free => watermark = Version(snapshot)
    BY DEF FreeInv
  <2>2. ASSUME watermark # NoBundle
        PROVE  snapshot # NoBundle /\ ~Older(snapshot, watermark)
    <3>1. CASE watermark = Version(snapshot)
      BY <2>2, <3>1, OlderThanVersion, NotOlderThanItself DEF TypeOK, Version
    <3>2. ASSUME NEW r \in Reloaders, pc[r] = "advance"
          PROVE  snapshot # NoBundle /\ ~Older(snapshot, watermark)
      BY <2>2, <3>2 DEF HolderInv, LoadedInv
    <3>3. QED
      BY <3>1, <3>2 DEF TypeOK, FreeInv, LockInv, HolderInv
  <2>3. QED
    BY <2>1, <2>2 DEF WatermarkTracksSnapshot, Zone!Older, Older
<1>2. QED
  BY <1>1, Invariance, PTL

-----------------------------------------------------------------------------
\* Any interleaving of any number of reloads implements the register that is
\* never rolled back between restarts.
THEOREM Refinement == Spec => ImplementsMonotoneZone
<1>1. Init => Zone!ZoneInit
  BY BootBundle DEF Init, Zone!ZoneInit
<1>2. IInv /\ [Next]_vars => [Zone!ZoneNext]_(Zone!zoneVars)
  <2> SUFFICES ASSUME IInv, [Next]_vars
               PROVE  [Zone!ZoneNext]_(Zone!zoneVars)
    OBVIOUS
  <2> USE DEF IInv
  <2>1. CASE Restart
    BY <2>1, BootBundle DEF Restart, Boot, TypeOK, Zone!ZoneNext, Zone!Reboot
  <2>2. ASSUME NEW r \in Reloaders, StoreSnapshot(r)
        PROVE  Zone!ZoneNext
    <3>1. /\ loaded[r] \in Bundles
          /\ watermark = Version(snapshot)
          /\ watermark # NoBundle => ~Older(loaded[r], watermark)
      BY <2>2 DEF StoreSnapshot, LoadedInv, HolderInv
    <3>2. snapshot # NoBundle => ~Older(loaded[r], snapshot)
      BY <3>1, VersionNotNone, OlderThanVersion DEF TypeOK
    <3>3. Zone!Apply(loaded[r])
      BY <2>2, <3>2 DEF StoreSnapshot, Zone!Apply, Zone!Older, Older
    <3>4. QED
      BY <3>1, <3>3 DEF Zone!ZoneNext
  <2>3. CASE UNCHANGED <<snapshot, boots>>
    BY <2>3 DEF Zone!zoneVars
  <2>4. QED
    BY <2>1, <2>2, <2>3
       DEF Next, ReloadStep, Publish, ClockMoves, ReadBundle, CheckFreshness,
           CompareWatermark, AdvanceWatermark, MarkMetrics, vars
<1>3. QED
  BY <1>1, <1>2, Invariance, PTL
     DEF Spec, ImplementsMonotoneZone, Zone!ZoneSpec
=============================================================================
