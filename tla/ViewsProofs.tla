---------------------------- MODULE ViewsProofs ----------------------------
(***************************************************************************)
(* Proofs about Views, for all shapes, ranges, tensors and chains of       *)
(* calls.                                                                  *)
(***************************************************************************)
EXTENDS Views, NaturalsInduction, WellFoundedInduction, FiniteSetTheorems, TLAPS

-----------------------------------------------------------------------------
(* Arithmetic.                                                             *)

LEMMA Quotient ==
  ASSUME NEW a \in Nat, NEW b \in Nat \ {0}
  PROVE  /\ a \div b \in Nat /\ a % b \in Nat
         /\ a = b * (a \div b) + (a % b) /\ a % b < b
BY SMT

LEMMA ProductIsMonotone ==
  ASSUME NEW a \in Nat, NEW b \in Nat, NEW c \in Nat, a <= b
  PROVE  a * c <= b * c
<1>1. PICK d \in Nat : b = a + d
  <2>1. b = a + (b - a) /\ b - a \in Nat
    OBVIOUS
  <2> QED BY <2>1
<1>2. b * c = a * c + d * c /\ d * c \in Nat
  BY <1>1
<1> QED BY <1>2

LEMMA Remainder ==
  ASSUME NEW e \in Nat, NEW n \in Nat \ {0}, NEW m \in Nat, m < n,
         NEW a, a = e * n + m
  PROVE  a % n = m /\ a \div n = e
<1> DEFINE q == a \div n
<1>1. a \in Nat
  OBVIOUS
<1>2. q \in Nat /\ a % n \in Nat /\ a = n * q + (a % n) /\ a % n < n
  BY <1>1, Quotient
<1> HIDE DEF q
<1>3. e * n + m = q * n + (a % n)
  BY <1>2
<1>4. ~(e < q)
  <2> SUFFICES ASSUME e + 1 <= q PROVE FALSE
    BY <1>2
  <2>1. (e + 1) * n <= q * n
    BY <1>2, ProductIsMonotone
  <2>2. (e + 1) * n = e * n + n
    OBVIOUS
  <2> QED BY <1>2, <1>3, <2>1, <2>2
<1>5. ~(q < e)
  <2> SUFFICES ASSUME q + 1 <= e PROVE FALSE
    BY <1>2
  <2>1. (q + 1) * n <= e * n
    BY <1>2, ProductIsMonotone
  <2>2. (q + 1) * n = q * n + n
    BY <1>2
  <2> QED BY <1>2, <1>3, <2>1, <2>2
<1>6. q = e
  BY <1>2, <1>4, <1>5
<1>7. a % n = m
  BY <1>2, <1>3, <1>6
<1> QED BY <1>6, <1>7 DEF q

IsDivided(a, e, n, m) ==
  e \in Nat /\ n \in Nat \ {0} /\ m \in Nat /\ m < n /\ a = e * n + m

LEMMA RemainderOfDivided ==
  ASSUME NEW a, NEW e, NEW n, NEW m, IsDivided(a, e, n, m)
  PROVE  a % n = m /\ a \div n = e
BY Remainder DEF IsDivided

LEMMA TimesAssociates ==
  ASSUME NEW a \in Nat, NEW b \in Nat, NEW c \in Nat
  PROVE  (a * b) * c = a * (b * c)
OBVIOUS

LEMMA LeastMember ==
  ASSUME NEW T \in SUBSET Nat, T # {}
  PROVE  \E x \in T : \A y \in T : x <= y
<1> DEFINE R == OpToRel(<, Nat)
<1>1. PICK x \in T : \A y \in T : ~(<<y, x>> \in R)
  <2>1. IsWellFoundedOn(R, Nat)
    BY NatLessThanWellFounded
  <2> HIDE DEF R
  <2> QED BY <2>1, WFMin
<1>2. \A y \in T : ~(y < x)
  BY <1>1 DEF OpToRel
<1> QED BY <1>2

-----------------------------------------------------------------------------
(* Folds.  G is what the recursion of MapThenFoldSet computes, with h in   *)
(* the place of the operator.                                              *)

Folding(G, S, base, h, pick) ==
  \A s \in SUBSET S :
    G[s] = IF s = {} THEN base ELSE h[pick[s]][G[s \ {pick[s]}]]

Picks(pick, S) == \A s \in SUBSET S : s # {} => pick[s] \in s

FoldingUpTo(G, S, base, h, pick, m) ==
  \A s \in SUBSET S : Cardinality(s) <= m =>
    G[s] = IF s = {} THEN base ELSE h[pick[s]][G[s \ {pick[s]}]]

LEMMA FoldExtends ==
  ASSUME NEW S, IsFiniteSet(S), NEW V, NEW base \in V, NEW h \in [S -> [V -> V]],
         NEW pick, Picks(pick, S), NEW m \in Nat, NEW G \in [SUBSET S -> V],
         FoldingUpTo(G, S, base, h, pick, m)
  PROVE  \E H \in [SUBSET S -> V] : FoldingUpTo(H, S, base, h, pick, m + 1)
<1> DEFINE H == [s \in SUBSET S |->
                   IF s = {} THEN base ELSE h[pick[s]][G[s \ {pick[s]}]]]
<1>1. ASSUME NEW s \in SUBSET S, s # {}
      PROVE  /\ pick[s] \in S /\ pick[s] \in s /\ s \ {pick[s]} \in SUBSET S
             /\ Cardinality(s) \in Nat
             /\ Cardinality(s \ {pick[s]}) = Cardinality(s) - 1
  BY <1>1, FS_Subset, FS_CardinalityType, FS_RemoveElement DEF Picks
<1>2. H \in [SUBSET S -> V]
  <2> SUFFICES ASSUME NEW s \in SUBSET S
               PROVE  (IF s = {} THEN base ELSE h[pick[s]][G[s \ {pick[s]}]]) \in V
    OBVIOUS
  <2>1. CASE s # {}
    <3>1. h[pick[s]] \in [V -> V] /\ G[s \ {pick[s]}] \in V
      BY <1>1, <2>1
    <3> QED BY <2>1, <3>1
  <2> QED BY <2>1
<1>3. ASSUME NEW s \in SUBSET S, Cardinality(s) <= m
      PROVE  H[s] = G[s]
  BY <1>3 DEF FoldingUpTo
<1>4. ASSUME NEW s \in SUBSET S, Cardinality(s) <= m + 1
      PROVE  H[s] = IF s = {} THEN base ELSE h[pick[s]][H[s \ {pick[s]}]]
  <2>1. CASE s = {}
    BY <2>1
  <2>2. CASE s # {}
    <3> DEFINE r == s \ {pick[s]}
    <3>1. r \in SUBSET S /\ Cardinality(r) <= m
      BY <1>1, <1>4, <2>2
    <3>2. H[r] = G[r]
      BY <1>3, <3>1
    <3> QED BY <2>2, <3>2
  <2> QED BY <2>1, <2>2
<1> HIDE DEF H
<1> QED BY <1>2, <1>4 DEF FoldingUpTo

LEMMA FoldExists ==
  ASSUME NEW S, IsFiniteSet(S), NEW V, NEW base \in V, NEW h \in [S -> [V -> V]],
         NEW pick, Picks(pick, S)
  PROVE  \E G \in [SUBSET S -> V] : Folding(G, S, base, h, pick)
<1> DEFINE Bad == {m \in Nat : ~\E G \in [SUBSET S -> V] :
                                  FoldingUpTo(G, S, base, h, pick, m)}
           n == Cardinality(S)
<1>1. ASSUME NEW s \in SUBSET S
      PROVE  Cardinality(s) \in Nat /\ Cardinality(s) <= n /\ (Cardinality(s) = 0 => s = {})
  BY FS_Subset, FS_CardinalityType, FS_EmptySet
<1>2. n \in Nat
  BY FS_CardinalityType
<1>3. Bad = {}
  <2> SUFFICES ASSUME Bad # {} PROVE FALSE
    OBVIOUS
  <2>1. PICK m \in Bad : \A i \in Bad : m <= i
    BY LeastMember
  <2>2. m \in Nat
    OBVIOUS
  <2>3. m # 0
    <3> DEFINE G == [s \in SUBSET S |-> base]
    <3>1. G \in [SUBSET S -> V]
      OBVIOUS
    <3>2. FoldingUpTo(G, S, base, h, pick, 0)
      BY <1>1 DEF FoldingUpTo
    <3> HIDE DEF G
    <3> QED BY <3>1, <3>2
  <2> DEFINE k == m - 1
  <2>4. k \in Nat /\ k + 1 = m /\ ~(m <= k)
    BY <2>2, <2>3
  <2> HIDE DEF k
  <2>5. PICK G \in [SUBSET S -> V] : FoldingUpTo(G, S, base, h, pick, k)
    <3>1. k \notin Bad
      <4> HIDE DEF Bad
      <4> QED BY <2>1, <2>4
    <3> QED BY <2>4, <3>1
  <2>6. \E H \in [SUBSET S -> V] : FoldingUpTo(H, S, base, h, pick, k + 1)
    BY <2>4, <2>5, FoldExtends
  <2> QED BY <2>4, <2>6
<1>4. PICK G \in [SUBSET S -> V] : FoldingUpTo(G, S, base, h, pick, n)
  BY <1>2, <1>3
<1>5. Folding(G, S, base, h, pick)
  BY <1>1, <1>4 DEF Folding, FoldingUpTo
<1> QED BY <1>5

Agree(G, H, S, pick) ==
  /\ G[{}] = H[{}]
  /\ \A s \in SUBSET S : s # {} /\ G[s \ {pick[s]}] = H[s \ {pick[s]}] => G[s] = H[s]

LEMMA FoldUnique ==
  ASSUME NEW S, IsFiniteSet(S), NEW pick, Picks(pick, S), NEW G, NEW H,
         Agree(G, H, S, pick), NEW s \in SUBSET S
  PROVE  G[s] = H[s]
<1> DEFINE Differ == {r \in SUBSET S : G[r] # H[r]}
           Sizes == {Cardinality(r) : r \in Differ}
<1> SUFFICES ASSUME Differ # {} PROVE FALSE
  OBVIOUS
<1>1. ASSUME NEW r \in SUBSET S PROVE IsFiniteSet(r) /\ Cardinality(r) \in Nat
  BY FS_Subset, FS_CardinalityType
<1>2. Sizes # {} /\ Sizes \subseteq Nat
  BY <1>1
<1>3. PICK m \in Sizes : \A i \in Sizes : m <= i
  <2> HIDE DEF Sizes
  <2> QED BY <1>2, LeastMember
<1>4. PICK r \in Differ : Cardinality(r) = m
  OBVIOUS
<1>5. r \in SUBSET S /\ G[r] # H[r]
  OBVIOUS
<1>6. r # {}
  BY <1>5 DEF Agree
<1> DEFINE q == r \ {pick[r]}
<1>7. pick[r] \in r /\ q \in SUBSET S
  BY <1>5, <1>6 DEF Picks
<1>8. Cardinality(q) = Cardinality(r) - 1
  BY <1>1, <1>5, <1>7, FS_RemoveElement
<1>9. Cardinality(r) \in Nat /\ Cardinality(q) \in Nat
  BY <1>1, <1>5, <1>7
<1>10. q \notin Differ
  <2>1. ~(Cardinality(q) \in Sizes)
    <3> HIDE DEF Sizes, q
    <3> QED BY <1>3, <1>4, <1>8, <1>9
  <2> QED BY <2>1
<1>11. G[q] = H[q]
  BY <1>7, <1>10
<1> QED BY <1>5, <1>6, <1>11 DEF Agree

LEMMA MaxIsIn ==
  ASSUME NEW n \in Nat, NEW s \in SUBSET (1..n), s # {}
  PROVE  Max(s) \in s /\ \A y \in s : y <= Max(s)
<1> DEFINE T == {n - y : y \in s}
<1>1. T \in SUBSET Nat /\ T # {}
  <2>1. \A y \in s : n - y \in Nat
    OBVIOUS
  <2> QED BY <2>1
<1>2. PICK t \in T : \A u \in T : t <= u
  <2> HIDE DEF T
  <2> QED BY <1>1, LeastMember
<1>3. PICK x \in s : t = n - x
  OBVIOUS
<1>4. \A y \in s : x >= y
  <2> SUFFICES ASSUME NEW y \in s PROVE x >= y
    OBVIOUS
  <2>1. n - y \in T
    OBVIOUS
  <2>2. n - x <= n - y
    BY <1>2, <1>3, <2>1
  <2> QED BY <2>2
<1>5. Max(s) \in s /\ \A y \in s : Max(s) >= y
  BY <1>4 DEF Max
<1> QED BY <1>5

LEMMA MaxOfInterval ==
  ASSUME NEW n \in Nat, NEW m \in 1..n
  PROVE  /\ 1..m \in SUBSET (1..n) /\ 1..m # {}
         /\ Max(1..m) = m /\ (1..m) \ {m} = 1..m - 1 /\ m - 1 \in 0..n
<1>1. 1..m \in SUBSET (1..n) /\ m \in 1..m
  OBVIOUS
<1>2. Max(1..m) \in 1..m /\ \A y \in 1..m : y <= Max(1..m)
  BY <1>1, MaxIsIn
<1> DEFINE x == Max(1..m)
<1>3. x \in 1..m /\ m <= x
  BY <1>1, <1>2
<1> HIDE DEF x
<1>4. x = m
  BY <1>3
<1> QED BY <1>1, <1>4 DEF x

Greatest(n) == [s \in SUBSET (1..n) |-> Max(s)]

(* What a fold from the left has made of the first m, for each m.          *)
IsFoldTo(P, n, base, h, last) ==
  P[0] = base /\ P[n] = last /\ \A m \in 1..n : P[m] = h[m][P[m - 1]]

LEMMA FoldPrefixes ==
  ASSUME NEW n \in Nat, NEW S, S = 1..n, NEW pick, pick = Greatest(n),
         NEW V, NEW base \in V, NEW h \in [S -> [V -> V]],
         NEW G \in [SUBSET S -> V], Folding(G, S, base, h, pick)
  PROVE  \E P \in [0..n -> V] : IsFoldTo(P, n, base, h, G[S])
<1> DEFINE P == [m \in 0..n |-> G[1..m]]
<1>1. P \in [0..n -> V]
  <2>1. \A m \in 0..n : 1..m \in SUBSET S
    OBVIOUS
  <2> QED BY <2>1
<1>2. P[0] = base /\ P[n] = G[1..n]
  <2>1. 1..0 = {} /\ {} \in SUBSET S /\ 0 \in 0..n /\ n \in 0..n
    OBVIOUS
  <2> QED BY <2>1 DEF Folding
<1>3. ASSUME NEW m \in 1..n PROVE P[m] = h[m][P[m - 1]]
  <2>1. /\ 1..m \in SUBSET S /\ 1..m # {} /\ m \in 0..n
        /\ Max(1..m) = m /\ (1..m) \ {m} = 1..m - 1 /\ m - 1 \in 0..n
    BY MaxOfInterval
  <2>2. pick[1..m] = m
    BY <2>1 DEF Greatest
  <2>3. G[1..m] = h[m][G[(1..m) \ {m}]]
    BY <2>1, <2>2 DEF Folding
  <2> QED BY <2>1, <2>3
<1> HIDE DEF P
<1>4. IsFoldTo(P, n, base, h, G[S])
  BY <1>2, <1>3 DEF IsFoldTo
<1> QED BY <1>1, <1>2, <1>4

LEMMA GreatestPicks == ASSUME NEW n \in Nat PROVE Picks(Greatest(n), 1..n)
BY MaxIsIn DEF Picks, Greatest

-----------------------------------------------------------------------------
(* Products of shapes.                                                     *)

Factors(P, q) ==
  /\ P \in [0..Len(q) -> Nat] /\ P[0] = 1
  /\ \A m \in 1..Len(q) : P[m] = P[m - 1] * q[m]

LEMMA ProductUnfolds ==
  ASSUME NEW q \in Seq(Nat)
  PROVE  \E P : Factors(P, q) /\ Product(q) = P[Len(q)]
<1> DEFINE n == Len(q)
           pick == Greatest(n)
           h == [d \in 1..n |-> [a \in Nat |-> a * q[d]]]
           Body(g) == [s \in SUBSET DOMAIN q |->
             IF s = {} THEN 1 ELSE g[s \ {Max(s)}] * q[Max(s)]]
           iter == CHOOSE g : g = Body(g)
<1>1. Product(q) = iter[DOMAIN q]
  BY DEF Product, FoldLeft, MapThenFoldSet
<1>2. n \in Nat /\ DOMAIN q = 1..n /\ \A d \in 1..n : q[d] \in Nat
  OBVIOUS
<1> HIDE DEF n
<1>3. IsFiniteSet(1..n)
  BY <1>2, FS_Interval
<1>4. Picks(pick, 1..n)
  BY <1>2, GreatestPicks
<1>5. h \in [1..n -> [Nat -> Nat]]
  BY <1>2
<1>6. PICK G \in [SUBSET (1..n) -> Nat] : Folding(G, 1..n, 1, h, pick)
  <2>1. 1 \in Nat
    OBVIOUS
  <2> HIDE DEF h, pick
  <2> QED BY ONLY <1>3, <1>4, <1>5, <2>1, FoldExists
<1>7. \A s \in SUBSET (1..n) : s # {} => /\ pick[s] = Max(s) /\ Max(s) \in 1..n
                                         /\ s \ {Max(s)} \in SUBSET (1..n)
  BY <1>2, MaxIsIn DEF Greatest
<1>8. ASSUME NEW s \in SUBSET (1..n) PROVE G[s] = Body(G)[s]
  <2>1. CASE s # {}
    <3>1. G[s] = h[Max(s)][G[s \ {Max(s)}]] /\ G[s \ {Max(s)}] \in Nat
      BY <1>6, <1>7, <2>1 DEF Folding
    <3> QED BY <1>2, <1>7, <2>1, <3>1
  <2> QED BY <1>2, <1>6, <2>1 DEF Folding
<1>9. G = Body(G)
  BY <1>2, <1>8
<1>10. iter = Body(iter)
  BY <1>9
<1> HIDE DEF iter
<1>11. \A s \in SUBSET (1..n) :
         iter[s] = IF s = {} THEN 1 ELSE iter[s \ {Max(s)}] * q[Max(s)]
  BY <1>2, <1>10
<1>12. \A s \in SUBSET (1..n) :
         G[s] = IF s = {} THEN 1 ELSE G[s \ {Max(s)}] * q[Max(s)]
  BY <1>2, <1>9
<1>13. Agree(iter, G, 1..n, pick)
  <2>1. {} \in SUBSET (1..n)
    OBVIOUS
  <2> HIDE DEF pick
  <2>2. iter[{}] = G[{}]
    BY <1>11, <1>12, <2>1
  <2>3. \A s \in SUBSET (1..n) :
          s # {} /\ iter[s \ {pick[s]}] = G[s \ {pick[s]}] => iter[s] = G[s]
    <3> SUFFICES ASSUME NEW s \in SUBSET (1..n), s # {},
                        iter[s \ {pick[s]}] = G[s \ {pick[s]}]
                 PROVE  iter[s] = G[s]
      OBVIOUS
    <3> DEFINE x == Max(s)
    <3>1. iter[s] = iter[s \ {x}] * q[x] /\ G[s] = G[s \ {x}] * q[x] /\ pick[s] = x
      BY <1>7, <1>11, <1>12
    <3> HIDE DEF x
    <3> QED BY <3>1
  <2> QED BY <2>2, <2>3 DEF Agree
<1>14. iter[1..n] = G[1..n]
  <2>1. 1..n \in SUBSET (1..n)
    OBVIOUS
  <2> DEFINE S == 1..n
  <2>2. IsFiniteSet(S) /\ Picks(pick, S) /\ Agree(iter, G, S, pick) /\ S \in SUBSET S
    BY <1>3, <1>4, <1>13
  <2> HIDE DEF pick, S
  <2>3. iter[S] = G[S]
    BY ONLY <2>2, FoldUnique
  <2> QED BY <2>3 DEF S
<1>15. PICK P \in [0..n -> Nat] : IsFoldTo(P, n, 1, h, G[1..n])
  <2> DEFINE S == 1..n
  <2>1. /\ n \in Nat /\ S = 1..n /\ pick = Greatest(n) /\ 1 \in Nat
        /\ h \in [S -> [Nat -> Nat]] /\ G \in [SUBSET S -> Nat]
        /\ Folding(G, S, 1, h, pick)
    BY <1>2, <1>5, <1>6
  <2> HIDE DEF h, pick, S
  <2>2. \E P \in [0..n -> Nat] : IsFoldTo(P, n, 1, h, G[S])
    BY ONLY <2>1, FoldPrefixes
  <2> QED BY <2>2 DEF S
<1>16. \A m \in 1..n : P[m] = P[m - 1] * q[m]
  <2> SUFFICES ASSUME NEW m \in 1..n PROVE P[m] = P[m - 1] * q[m]
    OBVIOUS
  <2>1. m - 1 \in 0..n
    BY <1>2
  <2>2. P[m] = h[m][P[m - 1]] /\ P[m - 1] \in Nat
    BY <1>15, <2>1 DEF IsFoldTo
  <2> QED BY <2>2
<1> QED BY <1>1, <1>2, <1>14, <1>15, <1>16 DEF Factors, IsFoldTo, n

SamePrefix(q, r, n) == \A e \in 1..n : q[e] = r[e]

LEMMA FactorsAgree ==
  ASSUME NEW P, NEW q, Factors(P, q), NEW R, NEW r, Factors(R, r),
         Len(q) \in Nat, Len(r) \in Nat, NEW n \in Nat, n <= Len(q), n <= Len(r),
         SamePrefix(q, r, n)
  PROVE  P[n] = R[n]
<1> DEFINE Bad == {m \in Nat : m <= n /\ P[m] # R[m]}
<1> SUFFICES ASSUME Bad # {} PROVE FALSE
  OBVIOUS
<1>1. PICK m \in Bad : \A i \in Bad : m <= i
  BY LeastMember
<1>2. m \in Nat /\ m <= n /\ P[m] # R[m]
  OBVIOUS
<1>3. m # 0
  BY <1>2 DEF Factors
<1>4. m - 1 \in Nat /\ m - 1 <= n /\ ~(m <= m - 1) /\ m \in 1..Len(q) /\ m \in 1..Len(r)
      /\ m \in 1..n
  BY <1>2, <1>3
<1>5. m - 1 \notin Bad
  <2> HIDE DEF Bad
  <2> QED BY <1>1, <1>4
<1>6. P[m - 1] = R[m - 1]
  BY <1>4, <1>5
<1>7. P[m] = P[m - 1] * q[m] /\ R[m] = R[m - 1] * r[m] /\ q[m] = r[m]
  BY <1>4 DEF Factors, SamePrefix
<1> HIDE DEF Bad
<1> QED BY <1>2, <1>6, <1>7

LEMMA ProductIsNatural ==
  ASSUME NEW q \in Seq(Nat)
  PROVE  Product(q) \in Nat
<1>1. PICK P : Factors(P, q) /\ Product(q) = P[Len(q)]
  BY ProductUnfolds
<1>2. Len(q) \in 0..Len(q)
  OBVIOUS
<1> QED BY <1>1, <1>2 DEF Factors

IsConcat(s, q, r) ==
  /\ s \in Seq(Nat) /\ Len(s) = Len(q) + Len(r) /\ Len(q) \in Nat /\ Len(r) \in Nat
  /\ \A e \in 1..Len(q) : s[e] = q[e]
  /\ \A e \in 1..Len(r) : s[Len(q) + e] = r[e]

LEMMA ConcatFacts ==
  ASSUME NEW q \in Seq(Nat), NEW r \in Seq(Nat)
  PROVE  IsConcat(q \o r, q, r)
BY DEF IsConcat

LEMMA ProductOfConcat ==
  ASSUME NEW q \in Seq(Nat), NEW r \in Seq(Nat)
  PROVE  Product(q \o r) = Product(q) * Product(r)
<1> DEFINE s == q \o r
           k == Len(q)
           n == Len(r)
<1>1. /\ s \in Seq(Nat) /\ Len(s) = k + n /\ k \in Nat /\ n \in Nat
      /\ \A e \in 1..k : s[e] = q[e]
      /\ \A e \in 1..n : s[k + e] = r[e]
  BY ConcatFacts DEF IsConcat
<1> HIDE DEF s
<1>2. PICK P : Factors(P, q) /\ Product(q) = P[k]
  BY ProductUnfolds
<1>3. PICK R : Factors(R, r) /\ Product(r) = R[n]
  BY ProductUnfolds
<1>4. PICK S : Factors(S, s) /\ Product(s) = S[Len(s)]
  BY <1>1, ProductUnfolds
<1>5. S[k] = P[k]
  <2>1. /\ k <= Len(s) /\ k <= Len(q) /\ Len(s) \in Nat /\ Len(q) \in Nat /\ k \in Nat
        /\ SamePrefix(s, q, k)
    BY <1>1 DEF SamePrefix
  <2> HIDE DEF k
  <2> QED BY ONLY <1>2, <1>4, <2>1, FactorsAgree
<1>6. \A e \in 1..n : r[e] \in Nat
  OBVIOUS
<1>7. P[k] \in Nat
  <2>1. k \in 0..Len(q)
    BY <1>1
  <2> QED BY <1>2, <2>1 DEF Factors
<1> HIDE DEF k, n
<1>8. /\ R[0] = 1 /\ \A m \in 0..n : R[m] \in Nat
      /\ \A m \in 1..n : R[m] = R[m - 1] * r[m]
  BY <1>3 DEF Factors, n
<1>9. \A m \in 1..n : S[k + m] = S[k + m - 1] * r[m]
  <2> SUFFICES ASSUME NEW m \in 1..n PROVE S[k + m] = S[k + m - 1] * r[m]
    OBVIOUS
  <2>1. k + m \in 1..Len(s)
    BY <1>1
  <2> QED BY <1>1, <1>4, <2>1 DEF Factors
<1> DEFINE Bad == {m \in Nat : m <= n /\ S[k + m] # P[k] * R[m]}
<1>10. Bad = {}
  <2> SUFFICES ASSUME Bad # {} PROVE FALSE
    OBVIOUS
  <2>1. PICK m \in Bad : \A i \in Bad : m <= i
    BY LeastMember
  <2>2. m \in Nat /\ m <= n /\ S[k + m] # P[k] * R[m]
    OBVIOUS
  <2>3. m # 0
    <3> SUFFICES ASSUME m = 0 PROVE FALSE
      OBVIOUS
    <3>1. S[k + m] = P[k] /\ P[k] * R[m] = P[k]
      BY <1>1, <1>5, <1>7, <1>8
    <3> QED BY <2>2, <3>1
  <2> DEFINE j == m - 1
  <2>4. j \in Nat /\ j <= n /\ ~(m <= j) /\ m \in 1..n /\ k + m - 1 = k + j /\ j \in 0..n
    BY <1>1, <2>2, <2>3
  <2>5. R[m] = R[j] * r[m] /\ S[k + m] = S[k + j] * r[m]
    BY <1>8, <1>9, <2>4
  <2> HIDE DEF j
  <2>6. j \notin Bad
    <3> HIDE DEF Bad
    <3> QED BY <2>1, <2>4
  <2>7. S[k + j] = P[k] * R[j]
    BY <2>4, <2>6
  <2>8. r[m] \in Nat /\ R[j] \in Nat
    BY <1>6, <1>8, <2>4
  <2>9. (P[k] * R[j]) * r[m] = P[k] * (R[j] * r[m])
    BY <1>7, <2>8, TimesAssociates
  <2> QED BY <2>2, <2>5, <2>7, <2>9
<1>11. S[k + n] = P[k] * R[n]
  BY <1>1, <1>10
<1> QED BY <1>1, <1>2, <1>3, <1>4, <1>11 DEF s, k, n

LEMMA ProductOfEmpty == Product(<<>>) = 1
<1>1. <<>> \in Seq(Nat) /\ Len(<<>>) = 0
  OBVIOUS
<1>2. PICK P : Factors(P, <<>>) /\ Product(<<>>) = P[Len(<<>>)]
  BY <1>1, ProductUnfolds
<1> QED BY <1>1, <1>2 DEF Factors

LEMMA ProductOfOne ==
  ASSUME NEW e \in Nat
  PROVE  Product(<<e>>) = e
<1> DEFINE q == <<e>>
<1>1. q \in Seq(Nat) /\ Len(q) = 1 /\ q[1] = e
  OBVIOUS
<1> HIDE DEF q
<1>2. PICK P : Factors(P, q) /\ Product(q) = P[Len(q)]
  BY <1>1, ProductUnfolds
<1>3. P[1] = P[1 - 1] * q[1] /\ P[0] = 1
  BY <1>1, <1>2 DEF Factors
<1>4. P[1] = e
  BY <1>1, <1>3
<1> QED BY <1>1, <1>2, <1>4 DEF q

(* Behind(shape, d): how many elements a step in dimension d passes.       *)
Behind(shape, d) == Product(SubSeq(shape, d + 1, Len(shape)))

LEMMA SubSeqFacts ==
  ASSUME NEW q \in Seq(Nat), NEW a \in 1..Len(q) + 1, NEW b \in Nat, b <= Len(q),
         a <= b + 1
  PROVE  /\ SubSeq(q, a, b) \in Seq(Nat) /\ Len(SubSeq(q, a, b)) = b - a + 1
         /\ \A e \in 1..b - a + 1 : SubSeq(q, a, b)[e] = q[a + e - 1]
OBVIOUS

LEMMA SameSequence ==
  ASSUME NEW q \in Seq(Nat), NEW r \in Seq(Nat), Len(q) = Len(r),
         \A e \in 1..Len(q) : q[e] = r[e]
  PROVE  q = r
OBVIOUS

LEMMA SplitAt ==
  ASSUME NEW q \in Seq(Nat), NEW d \in 1..Len(q)
  PROVE  /\ SubSeq(q, d, Len(q)) \in Seq(Nat) /\ SubSeq(q, d + 1, Len(q)) \in Seq(Nat)
         /\ SubSeq(q, 1, d - 1) \in Seq(Nat) /\ q[d] \in Nat /\ <<q[d]>> \in Seq(Nat)
         /\ SubSeq(q, d, Len(q)) = <<q[d]>> \o SubSeq(q, d + 1, Len(q))
         /\ q = SubSeq(q, 1, d - 1) \o SubSeq(q, d, Len(q))
<1> DEFINE n == Len(q)
           u == SubSeq(q, 1, d - 1)
           v == SubSeq(q, d, n)
           w == SubSeq(q, d + 1, n)
           x == <<q[d]>>
<1>1. /\ n \in Nat /\ d \in Nat /\ 1 <= d /\ d <= n /\ \A e \in 1..n : q[e] \in Nat
  OBVIOUS
<1>2. x \in Seq(Nat) /\ Len(x) = 1 /\ x[1] = q[d]
  OBVIOUS
<1>3. u \in Seq(Nat) /\ Len(u) = d - 1 /\ \A e \in 1..d - 1 : u[e] = q[e]
  OBVIOUS
<1>4. v \in Seq(Nat) /\ Len(v) = n - d + 1 /\ \A e \in 1..n - d + 1 : v[e] = q[d + e - 1]
  OBVIOUS
<1>5. w \in Seq(Nat) /\ Len(w) = n - d /\ \A e \in 1..n - d : w[e] = q[d + e]
  OBVIOUS
<1> HIDE DEF n, u, v, w, x
<1>6. v = x \o w
  <2> DEFINE c == x \o w
  <2>1. IsConcat(c, x, w)
    BY <1>2, <1>5, ConcatFacts
  <2> HIDE DEF c
  <2>2. c \in Seq(Nat) /\ Len(c) = Len(v)
    BY <1>1, <1>2, <1>4, <1>5, <2>1 DEF IsConcat
  <2>3. ASSUME NEW e \in 1..Len(v) PROVE v[e] = c[e]
    <3>1. CASE e = 1
      <4>1. c[1] = x[1] /\ v[1] = q[d + 1 - 1] /\ d + 1 - 1 = d
        BY <1>1, <1>2, <1>4, <2>1 DEF IsConcat
      <4> QED BY <1>2, <3>1, <4>1
    <3>2. CASE e # 1
      <4> DEFINE i == e - 1
      <4>1. i \in 1..n - d /\ e = 1 + i /\ e \in 1..n - d + 1 /\ d + e - 1 = d + i
        BY <1>1, <1>4, <3>2
      <4> HIDE DEF i
      <4>2. c[1 + i] = w[i]
        BY <1>2, <1>5, <2>1, <4>1 DEF IsConcat
      <4> QED BY <1>4, <1>5, <4>1, <4>2
    <3> QED BY <3>1, <3>2
  <2> QED BY <1>4, <2>2, <2>3, SameSequence DEF c
<1>7. q = u \o v
  <2> DEFINE c == u \o v
  <2>1. IsConcat(c, u, v)
    BY <1>3, <1>4, ConcatFacts
  <2> HIDE DEF c
  <2>2. c \in Seq(Nat) /\ Len(c) = n
    BY <1>1, <1>3, <1>4, <2>1 DEF IsConcat
  <2>3. ASSUME NEW e \in 1..n PROVE q[e] = c[e]
    <3>1. CASE e < d
      <4>1. e \in 1..d - 1
        BY <1>1, <3>1
      <4> QED BY <1>3, <2>1, <4>1 DEF IsConcat
    <3>2. CASE d <= e
      <4> DEFINE i == e - d + 1
      <4>1. i \in 1..n - d + 1 /\ e = d - 1 + i /\ d + i - 1 = e
        BY <1>1, <3>2
      <4> HIDE DEF i
      <4>2. c[d - 1 + i] = v[i]
        BY <1>3, <1>4, <2>1, <4>1 DEF IsConcat
      <4> QED BY <1>4, <4>1, <4>2
    <3> QED BY <1>1, <3>1, <3>2
  <2> QED BY <2>2, <2>3, SameSequence DEF c, n
<1> QED BY <1>1, <1>2, <1>3, <1>4, <1>5, <1>6, <1>7 DEF n, u, v, w, x

LEMMA BehindFacts ==
  ASSUME NEW q \in Seq(Nat)
  PROVE  /\ \A d \in 0..Len(q) : Behind(q, d) \in Nat
         /\ Behind(q, Len(q)) = 1 /\ Behind(q, 0) = Product(q)
         /\ \A d \in 1..Len(q) : Behind(q, d - 1) = q[d] * Behind(q, d)
<1>1. \A d \in 0..Len(q) : SubSeq(q, d + 1, Len(q)) \in Seq(Nat)
  OBVIOUS
<1>2. SubSeq(q, Len(q) + 1, Len(q)) = <<>> /\ SubSeq(q, 1, Len(q)) = q
  OBVIOUS
<1>3. ASSUME NEW d \in 1..Len(q)
      PROVE  Behind(q, d - 1) = q[d] * Behind(q, d)
  <2> DEFINE r == SubSeq(q, d + 1, Len(q))
             x == <<q[d]>>
  <2>1. /\ r \in Seq(Nat) /\ q[d] \in Nat /\ x \in Seq(Nat)
        /\ SubSeq(q, d, Len(q)) = x \o r
    BY SplitAt
  <2>2. Product(x) = q[d]
    BY <2>1, ProductOfOne
  <2> HIDE DEF x, r
  <2>3. Product(x \o r) = Product(x) * Product(r)
    BY <2>1, ProductOfConcat
  <2>4. d - 1 + 1 = d
    OBVIOUS
  <2>5. Behind(q, d - 1) = Product(SubSeq(q, d, Len(q)))
    BY <2>4 DEF Behind
  <2> QED BY <2>1, <2>2, <2>3, <2>5 DEF Behind, r
<1>4. \A d \in 0..Len(q) : Behind(q, d) \in Nat
  BY <1>1, ProductIsNatural DEF Behind
<1>5. Behind(q, Len(q)) = 1 /\ Behind(q, 0) = Product(q)
  <2>1. 0 + 1 = 1
    OBVIOUS
  <2> QED BY <1>2, <2>1, ProductOfEmpty DEF Behind
<1> QED BY <1>3, <1>4, <1>5

-----------------------------------------------------------------------------
(* Positions.                                                              *)

Sums(T, stride, index) ==
  /\ T \in [0..Len(stride) -> Nat] /\ T[0] = 0
  /\ \A m \in 1..Len(stride) : T[m] = T[m - 1] + index[m] * stride[m]

LEMMA PositionUnfolds ==
  ASSUME NEW q \in Seq(Nat), NEW index \in [1..Len(q) -> Nat]
  PROVE  \E T : Sums(T, q, index) /\ Position(q, index) = T[Len(q)]
<1> DEFINE n == Len(q)
           self == [i \in DOMAIN q |-> i]
           pick == Greatest(n)
           h == [d \in 1..n |-> [a \in Nat |-> a + index[d] * q[d]]]
           Body(g) == [s \in SUBSET DOMAIN self |->
             IF s = {} THEN 0
             ELSE g[s \ {Max(s)}] + index[self[Max(s)]] * q[self[Max(s)]]]
           iter == CHOOSE g : g = Body(g)
<1>1. Position(q, index) = iter[DOMAIN self]
  BY DEF Position, FoldLeftDomain, FoldLeft, MapThenFoldSet
<1>2. /\ n \in Nat /\ DOMAIN self = 1..n
      /\ \A d \in 1..n : self[d] = d /\ q[d] \in Nat /\ index[d] \in Nat
                         /\ index[d] * q[d] \in Nat
  OBVIOUS
<1> HIDE DEF n, self
<1>3. IsFiniteSet(1..n)
  BY <1>2, FS_Interval
<1>4. Picks(pick, 1..n)
  BY <1>2, GreatestPicks
<1>5. h \in [1..n -> [Nat -> Nat]]
  <2>1. \A d \in 1..n : \A a \in Nat : a + index[d] * q[d] \in Nat
    BY <1>2
  <2> QED BY <2>1
<1>6. PICK G \in [SUBSET (1..n) -> Nat] : Folding(G, 1..n, 0, h, pick)
  <2>1. 0 \in Nat
    OBVIOUS
  <2> HIDE DEF h, pick
  <2> QED BY ONLY <1>3, <1>4, <1>5, <2>1, FoldExists
<1>7. \A s \in SUBSET (1..n) : s # {} => /\ pick[s] = Max(s) /\ Max(s) \in 1..n
                                         /\ s \ {Max(s)} \in SUBSET (1..n)
  BY <1>2, MaxIsIn DEF Greatest
<1>8. ASSUME NEW s \in SUBSET (1..n) PROVE G[s] = Body(G)[s]
  <2>1. CASE s # {}
    <3> DEFINE x == Max(s)
    <3>1. G[s] = h[x][G[s \ {x}]] /\ G[s \ {x}] \in Nat /\ x \in 1..n
      BY <1>6, <1>7, <2>1 DEF Folding
    <3> HIDE DEF x
    <3>2. G[s] = G[s \ {x}] + index[x] * q[x] /\ self[x] = x
      BY <1>2, <3>1
    <3>3. Body(G)[s] = G[s \ {x}] + index[self[x]] * q[self[x]]
      BY <1>2, <2>1 DEF x
    <3> QED BY <3>2, <3>3
  <2> QED BY <1>2, <1>6, <2>1 DEF Folding
<1>9. G = Body(G)
  BY <1>2, <1>8
<1>10. iter = Body(iter)
  BY <1>9
<1> HIDE DEF iter
<1>11. \A s \in SUBSET (1..n) :
         iter[s] = IF s = {} THEN 0
                   ELSE iter[s \ {Max(s)}] + index[self[Max(s)]] * q[self[Max(s)]]
  BY <1>2, <1>10
<1>12. \A s \in SUBSET (1..n) :
         G[s] = IF s = {} THEN 0
                ELSE G[s \ {Max(s)}] + index[self[Max(s)]] * q[self[Max(s)]]
  BY <1>2, <1>9
<1>13. Agree(iter, G, 1..n, pick)
  <2>1. {} \in SUBSET (1..n)
    OBVIOUS
  <2> HIDE DEF pick
  <2>2. iter[{}] = G[{}]
    BY <1>11, <1>12, <2>1
  <2>3. \A s \in SUBSET (1..n) :
          s # {} /\ iter[s \ {pick[s]}] = G[s \ {pick[s]}] => iter[s] = G[s]
    <3> SUFFICES ASSUME NEW s \in SUBSET (1..n), s # {},
                        iter[s \ {pick[s]}] = G[s \ {pick[s]}]
                 PROVE  iter[s] = G[s]
      OBVIOUS
    <3> DEFINE x == Max(s)
               y == index[self[x]] * q[self[x]]
    <3>1. iter[s] = iter[s \ {x}] + y /\ G[s] = G[s \ {x}] + y /\ pick[s] = x
      BY <1>7, <1>11, <1>12
    <3> HIDE DEF x, y
    <3> QED BY <3>1
  <2> QED BY <2>2, <2>3 DEF Agree
<1>14. iter[1..n] = G[1..n]
  <2> DEFINE S == 1..n
  <2>2. IsFiniteSet(S) /\ Picks(pick, S) /\ Agree(iter, G, S, pick) /\ S \in SUBSET S
    BY <1>3, <1>4, <1>13
  <2> HIDE DEF pick, S
  <2>3. iter[S] = G[S]
    BY ONLY <2>2, FoldUnique
  <2> QED BY <2>3 DEF S
<1>15. PICK T \in [0..n -> Nat] : IsFoldTo(T, n, 0, h, G[1..n])
  <2> DEFINE S == 1..n
  <2>1. /\ n \in Nat /\ S = 1..n /\ pick = Greatest(n) /\ 0 \in Nat
        /\ h \in [S -> [Nat -> Nat]] /\ G \in [SUBSET S -> Nat]
        /\ Folding(G, S, 0, h, pick)
    BY <1>2, <1>5, <1>6
  <2> HIDE DEF h, pick, S
  <2>2. \E T \in [0..n -> Nat] : IsFoldTo(T, n, 0, h, G[S])
    BY ONLY <2>1, FoldPrefixes
  <2> QED BY <2>2 DEF S
<1>16. \A m \in 1..n : T[m] = T[m - 1] + index[m] * q[m]
  <2> SUFFICES ASSUME NEW m \in 1..n PROVE T[m] = T[m - 1] + index[m] * q[m]
    OBVIOUS
  <2>1. m - 1 \in 0..n
    BY <1>2
  <2>2. T[m] = h[m][T[m - 1]] /\ T[m - 1] \in Nat
    BY <1>15, <2>1 DEF IsFoldTo
  <2> QED BY <2>2
<1> QED BY <1>1, <1>2, <1>14, <1>15, <1>16 DEF Sums, IsFoldTo, n
-----------------------------------------------------------------------------
(* Row-major order.                                                        *)

Box(shape) == {i \in [1..Len(shape) -> Nat] : \A d \in 1..Len(shape) : i[d] < shape[d]}

Split(k, s, o) == k % (s * o) = ((k \div o) % s) * o + (k % o)

LEMMA Splits ==
  ASSUME NEW o \in Nat \ {0}, NEW s \in Nat \ {0}, NEW k \in Nat
  PROVE  Split(k, s, o)
<1> DEFINE a == k \div o
           r == k % o
           b == a \div s
           e == a % s
<1>1. a \in Nat /\ r \in Nat /\ r < o /\ k = o * a + r
  BY Quotient
<1> HIDE DEF a, r
<1>2. b \in Nat /\ e \in Nat /\ e < s /\ a = s * b + e
  BY <1>1, Quotient
<1> HIDE DEF b, e
<1> DEFINE m == e * o + r
           n == s * o
<1>3. m \in Nat /\ n \in Nat \ {0}
  BY <1>1, <1>2
<1>4. m < n
  <2>1. (e + 1) * o <= s * o
    BY <1>2, ProductIsMonotone
  <2>2. (e + 1) * o = e * o + o
    BY <1>2
  <2>3. e * o \in Nat /\ s * o \in Nat
    BY <1>2
  <2> QED BY <1>1, <2>1, <2>2, <2>3
<1>5. k = b * n + m
  <2>1. o * a = (s * b + e) * o
    BY <1>1, <1>2
  <2>2. (s * b + e) * o = (s * b) * o + e * o
    BY <1>2
  <2>3. (s * b) * o = b * (s * o)
    BY <1>2, TimesAssociates
  <2>4. (s * b) * o \in Nat /\ e * o \in Nat
    BY <1>2
  <2> QED BY <1>1, <2>1, <2>2, <2>3, <2>4
<1> HIDE DEF m, n
<1>6. k % n = m
  BY <1>2, <1>3, <1>4, <1>5, Remainder
<1> QED BY <1>6 DEF Split, m, n, e, a, r

LEMMA RowMajorFacts ==
  ASSUME NEW q \in Seq(Nat)
  PROVE  /\ RowMajor(q) \in Seq(Nat) /\ Len(RowMajor(q)) = Len(q)
         /\ \A d \in 1..Len(q) : RowMajor(q)[d] = Behind(q, d)
<1>1. \A d \in 1..Len(q) : Behind(q, d) \in Nat
  BY BehindFacts
<1>2. DOMAIN q = 1..Len(q) /\ Len(q) \in Nat
  OBVIOUS
<1>3. RowMajor(q) = [d \in 1..Len(q) |-> Behind(q, d)]
  BY <1>2 DEF RowMajor, Behind
<1> DEFINE f == [d \in 1..Len(q) |-> Behind(q, d)]
<1>4. f \in [1..Len(q) -> Nat] /\ \A d \in 1..Len(q) : f[d] = Behind(q, d)
  BY <1>1
<1>5. f \in Seq(Nat) /\ Len(f) = Len(q)
  <2> HIDE DEF f
  <2> QED BY <1>2, <1>4
<1> QED BY <1>3, <1>4, <1>5

LEMMA FactorsOfPositive ==
  ASSUME NEW q \in Seq(Nat), Product(q) # 0
  PROVE  /\ \A d \in 0..Len(q) : Behind(q, d) \in Nat \ {0}
         /\ \A d \in 1..Len(q) : q[d] \in Nat \ {0}
<1> DEFINE n == Len(q)
           Bad == {m \in Nat : m <= n /\ Behind(q, m) = 0}
<1>1. /\ n \in Nat /\ \A d \in 1..n : q[d] \in Nat
      /\ \A d \in 0..n : Behind(q, d) \in Nat
      /\ Behind(q, 0) = Product(q)
      /\ \A d \in 1..n : Behind(q, d - 1) = q[d] * Behind(q, d)
  BY BehindFacts
<1> HIDE DEF n
<1>2. Bad = {}
  <2> SUFFICES ASSUME Bad # {} PROVE FALSE
    OBVIOUS
  <2>1. PICK m \in Bad : \A i \in Bad : m <= i
    BY LeastMember
  <2>2. m \in Nat /\ m <= n /\ Behind(q, m) = 0
    OBVIOUS
  <2>3. m # 0
    BY <1>1, <2>2
  <2> DEFINE j == m - 1
  <2>4. j \in Nat /\ j <= n /\ ~(m <= j) /\ m \in 1..n
    BY <1>1, <2>2, <2>3
  <2>5. Behind(q, j) = 0
    BY <1>1, <2>2, <2>4
  <2> HIDE DEF j
  <2>6. j \in Bad
    BY <2>4, <2>5
  <2> HIDE DEF Bad
  <2> QED BY <2>1, <2>4, <2>6
<1>3. ASSUME NEW d \in 0..n PROVE Behind(q, d) \in Nat \ {0}
  <2>1. d \in Nat /\ d <= n /\ Behind(q, d) \in Nat
    BY <1>1
  <2> QED BY <1>2, <2>1
<1>4. ASSUME NEW d \in 1..n PROVE q[d] \in Nat \ {0}
  <2>1. d - 1 \in 0..n
    BY <1>1
  <2>2. Behind(q, d - 1) # 0 /\ Behind(q, d) \in Nat
    BY <1>1, <1>3, <2>1
  <2> QED BY <1>1, <2>2
<1> QED BY <1>3, <1>4 DEF n

(* The part of the position that the dimensions behind d contribute is     *)
(* less than a step in d.                                                  *)
LEMMA TailOfPosition ==
  ASSUME NEW q \in Seq(Nat), NEW i \in Box(q), NEW T, Sums(T, RowMajor(q), i),
         NEW d \in 0..Len(q)
  PROVE  \E r \in Nat : r < Behind(q, d) /\ T[Len(q)] = T[d] + r
<1> DEFINE n == Len(q)
           Has(e) == \E r \in Nat : r < Behind(q, e) /\ T[n] = T[e] + r
           Bad == {m \in Nat : m <= n /\ ~Has(n - m)}
<1>1. /\ n \in Nat /\ Behind(q, n) = 1
      /\ \A e \in 0..n : Behind(q, e) \in Nat
      /\ \A e \in 1..n : Behind(q, e - 1) = q[e] * Behind(q, e)
      /\ \A e \in 1..n : q[e] \in Nat
  BY BehindFacts
<1>2. /\ \A e \in 1..n : i[e] \in Nat /\ i[e] < q[e]
  BY DEF Box
<1>3. /\ \A e \in 0..n : T[e] \in Nat
      /\ \A e \in 1..n : T[e] = T[e - 1] + i[e] * Behind(q, e)
  BY RowMajorFacts DEF Sums
<1> HIDE DEF n
<1>4. Bad = {}
  <2> SUFFICES ASSUME Bad # {} PROVE FALSE
    OBVIOUS
  <2>1. PICK m \in Bad : \A j \in Bad : m <= j
    <3> HIDE DEF Has
    <3> QED BY LeastMember
  <2>2. m \in Nat /\ m <= n /\ ~Has(n - m)
    OBVIOUS
  <2>3. m # 0
    <3> SUFFICES ASSUME m = 0 PROVE FALSE
      OBVIOUS
    <3>1. n - m = n /\ 0 \in Nat /\ 0 < Behind(q, n) /\ T[n] = T[n] + 0
      BY <1>1, <1>3
    <3>2. Has(n)
      BY <3>1
    <3> HIDE DEF Has
    <3> QED BY <2>2, <3>1, <3>2
  <2> DEFINE j == m - 1
             e == n - j
  <2>4. j \in Nat /\ j <= n /\ ~(m <= j) /\ e \in 1..n /\ n - m = e - 1 /\ e - 1 \in 0..n
    BY <1>1, <2>2, <2>3
  <2>5. Has(e)
    <3> HIDE DEF Has
    <3>1. j \notin Bad
      <4> HIDE DEF Bad, j
      <4> QED BY <2>1, <2>4
    <3> QED BY <2>4, <3>1
  <2> HIDE DEF j, e
  <2>6. PICK r \in Nat : r < Behind(q, e) /\ T[n] = T[e] + r
    BY <2>5
  <2> DEFINE b == Behind(q, e)
             x == i[e] * b
  <2>7. b \in Nat /\ i[e] \in Nat /\ i[e] + 1 <= q[e] /\ q[e] \in Nat
    <3>1. e \in 0..n
      BY <1>1, <2>4
    <3>2. i[e] \in Nat /\ i[e] < q[e] /\ q[e] \in Nat
      BY <1>1, <1>2, <2>4
    <3>3. b \in Nat
      BY <1>1, <3>1
    <3> HIDE DEF b
    <3> QED BY <3>2, <3>3
  <2>8. x + b <= q[e] * b /\ x \in Nat /\ q[e] * b \in Nat
    <3> DEFINE c == i[e]
               s == q[e]
    <3>1. b \in Nat /\ c \in Nat /\ c + 1 <= s /\ s \in Nat
      BY <2>7
    <3> HIDE DEF b, c, s
    <3>2. (c + 1) * b <= s * b
      BY <3>1, ProductIsMonotone
    <3>3. (c + 1) * b = c * b + b /\ c * b \in Nat /\ s * b \in Nat
      BY <3>1
    <3> QED BY <3>2, <3>3 DEF c, s
  <2>9. x + r \in Nat /\ x + r < q[e] * b
    <3> DEFINE y == q[e] * b
    <3>1. x + b <= y /\ x \in Nat /\ y \in Nat /\ b \in Nat /\ r < b
      BY <2>6, <2>7, <2>8
    <3> HIDE DEF x, y, b
    <3>2. x + r \in Nat /\ x + r < y
      BY <3>1
    <3> QED BY <3>2 DEF y
  <2>10. T[n] = T[e - 1] + (x + r)
    <3>1. T[e] = T[e - 1] + x /\ T[e - 1] \in Nat /\ x \in Nat
      BY <1>3, <2>4, <2>8
    <3> HIDE DEF x
    <3> QED BY <2>6, <3>1
  <2>11. Behind(q, e - 1) = q[e] * b
    BY <1>1, <2>4
  <2>12. Has(n - m)
    BY <2>4, <2>9, <2>10, <2>11
  <2> QED BY <2>2, <2>12
<1>5. d \in 0..n
  BY DEF n
<1>6. n - d \in Nat /\ n - d <= n /\ n - (n - d) = d
  BY <1>1, <1>5
<1>7. Has(d)
  <2> HIDE DEF Has
  <2> QED BY <1>4, <1>6
<1> QED BY <1>7 DEF n

(* The part up to d is a multiple of a step in d, and the index is what    *)
(* remains of the number of steps.                                         *)
LEMMA HeadOfPosition ==
  ASSUME NEW q \in Seq(Nat), NEW i \in Box(q), NEW T, Sums(T, RowMajor(q), i),
         NEW d \in 1..Len(q)
  PROVE  \E a \in Nat : T[d] = a * Behind(q, d) /\ a % q[d] = i[d]
<1> DEFINE n == Len(q)
           Has(e) == \E a \in Nat : T[e] = a * Behind(q, e)
           Bad == {m \in Nat : m <= n /\ ~Has(m)}
<1>1. /\ n \in Nat
      /\ \A e \in 0..n : Behind(q, e) \in Nat
      /\ \A e \in 1..n : Behind(q, e - 1) = q[e] * Behind(q, e)
      /\ \A e \in 1..n : q[e] \in Nat
  BY BehindFacts
<1>2. /\ \A e \in 1..n : i[e] \in Nat /\ i[e] < q[e]
  BY DEF Box
<1>3. /\ T[0] = 0
      /\ \A e \in 1..n : T[e] = T[e - 1] + i[e] * Behind(q, e)
  BY RowMajorFacts DEF Sums
<1> HIDE DEF n
<1>4. ASSUME NEW e \in 1..n, Has(e - 1)
      PROVE  \E a \in Nat : T[e] = a * Behind(q, e) /\ a % q[e] = i[e]
  <2>1. PICK c \in Nat : T[e - 1] = c * Behind(q, e - 1)
    BY <1>4
  <2> DEFINE b == Behind(q, e)
             s == q[e]
             x == i[e]
             a == c * s + x
  <2>2. b \in Nat /\ s \in Nat \ {0} /\ x \in Nat /\ x < s
    <3>1. q[e] \in Nat /\ Behind(q, e) \in Nat
      BY <1>1
    <3>2. i[e] \in Nat /\ i[e] < q[e]
      BY <1>2
    <3> HIDE DEF n, Has
    <3> QED BY <3>1, <3>2
  <2>3. T[e] = c * (s * b) + x * b
    BY <1>1, <1>3, <2>1
  <2> HIDE DEF b, s, x
  <2>4. a \in Nat /\ a * b = c * (s * b) + x * b
    <3>1. a * b = (c * s) * b + x * b
      BY <2>2
    <3>2. (c * s) * b = c * (s * b)
      BY <2>2, TimesAssociates
    <3>3. a \in Nat
      BY <2>2
    <3> QED BY <3>1, <3>2, <3>3
  <2>5. a % s = x
    <3>1. c \in Nat /\ a = c * s + x
      OBVIOUS
    <3> HIDE DEF a
    <3>2. s \in Nat \ {0} /\ x \in Nat /\ x < s
      BY <2>2
    <3>3. IsDivided(a, c, s, x)
      BY <3>1, <3>2 DEF IsDivided
    <3> QED BY ONLY <3>3, RemainderOfDivided
  <2> QED BY <2>3, <2>4, <2>5 DEF b, s, x
<1>5. Bad = {}
  <2> SUFFICES ASSUME Bad # {} PROVE FALSE
    OBVIOUS
  <2>1. PICK m \in Bad : \A j \in Bad : m <= j
    <3> HIDE DEF Has
    <3> QED BY LeastMember
  <2>2. m \in Nat /\ m <= n /\ ~Has(m)
    OBVIOUS
  <2>3. m # 0
    <3>1. 0 = 0 * Behind(q, 0)
      BY <1>1
    <3> QED BY <1>3, <2>2, <3>1
  <2> DEFINE j == m - 1
  <2>4. j \in Nat /\ j <= n /\ ~(m <= j) /\ m \in 1..n
    BY <1>1, <2>2, <2>3
  <2>5. Has(j)
    <3> HIDE DEF Has
    <3>1. j \notin Bad
      <4> HIDE DEF Bad, j
      <4> QED BY <2>1, <2>4
    <3> QED BY <2>4, <3>1
  <2> QED BY <1>4, <2>2, <2>4, <2>5
<1>6. d \in 1..n
  BY DEF n
<1>7. d - 1 \in Nat /\ d - 1 <= n
  BY <1>1, <1>6
<1>8. Has(d - 1)
  <2> HIDE DEF Has
  <2> QED BY <1>5, <1>7
<1> QED BY <1>4, <1>6, <1>8

LEMMA BoxIndex ==
  ASSUME NEW q \in Seq(Nat), NEW i \in Box(q)
  PROVE  i \in [1..Len(q) -> Nat] /\ Len(q) \in Nat /\ DOMAIN q = 1..Len(q)
BY DEF Box

(* Row-major order numbers the indices of a shape from 0.                  *)
LEMMA NumberOfIndex ==
  ASSUME NEW q \in Seq(Nat), NEW i \in Box(q)
  PROVE  /\ Position(RowMajor(q), i) \in 0..Product(q) - 1
         /\ Unflatten(q, Position(RowMajor(q), i)) = i
<1> DEFINE n == Len(q)
           p == Position(RowMajor(q), i)
<1>1. n \in Nat /\ DOMAIN q = 1..n /\ i \in [1..n -> Nat]
  BY BoxIndex
<1>2. RowMajor(q) \in Seq(Nat) /\ Len(RowMajor(q)) = n
  BY RowMajorFacts
<1>3. PICK T : Sums(T, RowMajor(q), i) /\ p = T[n]
  BY <1>1, <1>2, PositionUnfolds
<1>4. T[0] = 0
  BY <1>3 DEF Sums
<1>5. p \in 0..Product(q) - 1
  <2>1. 0 \in 0..Len(q)
    BY <1>1
  <2>2. PICK r \in Nat : r < Behind(q, 0) /\ T[n] = T[0] + r
    BY <1>3, <2>1, TailOfPosition
  <2>3. Behind(q, 0) = Product(q) /\ Product(q) \in Nat
    BY BehindFacts, ProductIsNatural
  <2> HIDE DEF p
  <2> QED BY <1>3, <1>4, <2>2, <2>3
<1>6. ASSUME NEW d \in 1..n PROVE (p \div RowMajor(q)[d]) % q[d] = i[d]
  <2>1. RowMajor(q)[d] = Behind(q, d)
    BY RowMajorFacts
  <2> DEFINE b == Behind(q, d)
  <2>2. PICK a \in Nat : T[d] = a * b /\ a % q[d] = i[d]
    BY <1>3, HeadOfPosition
  <2>3. PICK r \in Nat : r < b /\ T[n] = T[d] + r
    BY <1>1, <1>3, TailOfPosition
  <2>4. b \in Nat
    BY BehindFacts
  <2> HIDE DEF b, p
  <2>5. b \in Nat \ {0} /\ p = a * b + r
    BY <1>3, <2>2, <2>3, <2>4
  <2>6. p \div b = a
    BY <2>3, <2>5, Remainder
  <2> QED BY <2>1, <2>2, <2>6 DEF b
<1>7. Unflatten(q, p) = i
  <2>1. Unflatten(q, p) = [d \in 1..n |-> (p \div RowMajor(q)[d]) % q[d]]
    BY <1>1 DEF Unflatten
  <2> HIDE DEF p
  <2> QED BY <1>1, <1>6, <2>1
<1> QED BY <1>5, <1>7

(* And every number below the product is that of an index.                 *)
LEMMA IndexOfNumber ==
  ASSUME NEW q \in Seq(Nat), NEW k \in 0..Product(q) - 1
  PROVE  Unflatten(q, k) \in Box(q) /\ Position(RowMajor(q), Unflatten(q, k)) = k
<1> DEFINE n == Len(q)
           i == Unflatten(q, k)
<1>1. /\ n \in Nat /\ Behind(q, n) = 1 /\ Behind(q, 0) = Product(q)
      /\ \A e \in 1..n : Behind(q, e - 1) = q[e] * Behind(q, e)
  BY BehindFacts
<1>2. /\ \A d \in 0..n : Behind(q, d) \in Nat \ {0}
      /\ \A d \in 1..n : q[d] \in Nat \ {0}
  BY ProductIsNatural, FactorsOfPositive
<1>3. /\ RowMajor(q) \in Seq(Nat) /\ Len(RowMajor(q)) = n
      /\ \A d \in 1..n : RowMajor(q)[d] = Behind(q, d)
  BY RowMajorFacts
<1>4. \A d \in 1..n : i[d] = (k \div Behind(q, d)) % q[d]
  BY <1>3 DEF Unflatten
<1>5. k \in Nat /\ k < Product(q)
  BY ProductIsNatural
<1>6. ASSUME NEW d \in 1..n PROVE i[d] \in Nat /\ i[d] < q[d]
  <2>1. Behind(q, d) \in Nat \ {0} /\ q[d] \in Nat \ {0}
    BY <1>1, <1>2
  <2>2. k \div Behind(q, d) \in Nat
    BY <1>5, <2>1, Quotient
  <2> QED BY <1>4, <2>1, <2>2, Quotient
<1>7. i \in Box(q)
  <2>1. i = [d \in 1..n |-> (k \div RowMajor(q)[d]) % q[d]]
    BY DEF Unflatten
  <2>2. i \in [1..n -> Nat]
    BY <1>3, <1>4, <1>6, <2>1
  <2> HIDE DEF i
  <2> QED BY <1>6, <2>2 DEF Box
<1> HIDE DEF i
<1>8. PICK T : Sums(T, RowMajor(q), i) /\ Position(RowMajor(q), i) = T[n]
  BY <1>3, <1>7, BoxIndex, PositionUnfolds
<1>9. /\ T[0] = 0
      /\ \A e \in 1..n : T[e] = T[e - 1] + i[e] * Behind(q, e)
  BY <1>3, <1>8 DEF Sums
<1> HIDE DEF n
<1> DEFINE Has(e) == T[e] + (k % Behind(q, e)) = k /\ T[e] \in Nat
           Bad == {m \in Nat : m <= n /\ ~Has(m)}
<1>10. Bad = {}
  <2> SUFFICES ASSUME Bad # {} PROVE FALSE
    OBVIOUS
  <2>1. PICK m \in Bad : \A j \in Bad : m <= j
    <3> HIDE DEF Has
    <3> QED BY LeastMember
  <2>2. m \in Nat /\ m <= n /\ ~Has(m)
    OBVIOUS
  <2>3. m # 0
    <3>1. k = 0 * Product(q) + k /\ Product(q) \in Nat \ {0}
      BY <1>1, <1>2, <1>5
    <3>2. k % Product(q) = k
      BY <1>5, <3>1, Remainder
    <3> QED BY <1>1, <1>5, <1>9, <2>2, <3>2
  <2> DEFINE j == m - 1
  <2>4. j \in Nat /\ j <= n /\ ~(m <= j) /\ m \in 1..n /\ m \in 0..n
    BY <1>1, <2>2, <2>3
  <2>5. Has(j)
    <3> HIDE DEF Has
    <3>1. j \notin Bad
      <4> HIDE DEF Bad, j
      <4> QED BY <2>1, <2>4
    <3> QED BY <2>4, <3>1
  <2> DEFINE b == Behind(q, m)
             s == q[m]
  <2>6. b \in Nat \ {0} /\ s \in Nat \ {0} /\ Behind(q, j) = s * b
    BY <1>1, <1>2, <2>4
  <2>7. T[m] = T[j] + i[m] * b /\ i[m] = (k \div b) % s
    BY <1>4, <1>9, <2>4 DEF n
  <2>8. T[j] + (k % (s * b)) = k /\ T[j] \in Nat
    BY <2>5, <2>6
  <2> HIDE DEF j, b, s
  <2>9. k % (s * b) = i[m] * b + (k % b)
    <3>1. Split(k, s, b)
      BY <1>5, <2>6, Splits
    <3>2. k % (s * b) = ((k \div b) % s) * b + (k % b)
      BY <3>1 DEF Split
    <3> QED BY <2>7, <3>2
  <2>10. i[m] \in Nat /\ k % b \in Nat
    BY <1>5, <1>6, <2>4, <2>6, Quotient DEF n
  <2>11. i[m] * b \in Nat
    BY <2>6, <2>10
  <2> DEFINE x == i[m] * b
             y == k % b
  <2>12. T[m] = T[j] + x /\ T[j] + (x + y) = k /\ x \in Nat /\ y \in Nat
    BY <2>7, <2>8, <2>9, <2>10, <2>11
  <2> HIDE DEF x, y
  <2>13. T[m] + y = k /\ T[m] \in Nat
    BY <2>8, <2>12
  <2> QED BY <2>2, <2>13 DEF y, b
<1>11. T[n] + (k % 1) = k /\ T[n] \in Nat
  BY <1>1, <1>10
<1>12. k % 1 = 0
  BY <1>5
<1> QED BY <1>7, <1>8, <1>11, <1>12 DEF i, n
-----------------------------------------------------------------------------
(* A position is a sum over the dimensions, in whatever order.             *)

Adds(F, f, S) ==
  /\ F \in [SUBSET S -> Int] /\ F[{}] = 0
  /\ \A s \in SUBSET S : \A c \in s : F[s] = f[c] + F[s \ {c}]

LEMMA AddsExists ==
  ASSUME NEW S, IsFiniteSet(S), NEW f \in [S -> Int]
  PROVE  \E F : Adds(F, f, S)
<1> DEFINE pick == [s \in SUBSET S |-> CHOOSE x \in s : TRUE]
           h == [x \in S |-> [a \in Int |-> f[x] + a]]
<1>1. Picks(pick, S)
  BY DEF Picks
<1>2. h \in [S -> [Int -> Int]]
  OBVIOUS
<1>3. PICK F \in [SUBSET S -> Int] : Folding(F, S, 0, h, pick)
  <2>1. 0 \in Int
    OBVIOUS
  <2> HIDE DEF h, pick
  <2> QED BY ONLY IsFiniteSet(S), <1>1, <1>2, <2>1, FoldExists
<1>4. F[{}] = 0
  <2>1. {} \in SUBSET S
    OBVIOUS
  <2> QED BY <1>3, <2>1 DEF Folding
<1>5. ASSUME NEW s \in SUBSET S, s # {}
      PROVE  pick[s] \in s /\ F[s] = f[pick[s]] + F[s \ {pick[s]}]
  <2> DEFINE p == pick[s]
  <2>1. p \in s /\ p \in S /\ s \ {p} \in SUBSET S /\ F[s] = h[p][F[s \ {p}]]
    BY <1>1, <1>3, <1>5 DEF Folding, Picks
  <2> HIDE DEF p
  <2>2. F[s \ {p}] \in Int
    BY <2>1
  <2>3. F[s] = f[p] + F[s \ {p}]
    BY <2>1, <2>2
  <2> QED BY <2>1, <2>3 DEF p
<1> HIDE DEF pick, h
<1> DEFINE Bad == {s \in SUBSET S : \E c \in s : F[s] # f[c] + F[s \ {c}]}
           Sizes == {Cardinality(s) : s \in Bad}
<1>6. ASSUME NEW s \in SUBSET S PROVE IsFiniteSet(s) /\ Cardinality(s) \in Nat
  BY FS_Subset, FS_CardinalityType
<1>7. Bad = {}
  <2> SUFFICES ASSUME Bad # {} PROVE FALSE
    OBVIOUS
  <2>1. Sizes # {} /\ Sizes \subseteq Nat
    BY <1>6
  <2>2. PICK m \in Sizes : \A n \in Sizes : m <= n
    <3> HIDE DEF Sizes
    <3> QED BY <2>1, LeastMember
  <2>3. PICK s \in Bad : Cardinality(s) = m
    OBVIOUS
  <2>4. PICK c \in s : F[s] # f[c] + F[s \ {c}]
    OBVIOUS
  <2>5. s \in SUBSET S
    OBVIOUS
  <2>6. ASSUME NEW e \in s PROVE s \ {e} \in SUBSET S /\ s \ {e} \notin Bad
    <3> DEFINE r == s \ {e}
    <3>1. r \in SUBSET S /\ Cardinality(r) = Cardinality(s) - 1
      BY <1>6, <2>5, FS_RemoveElement
    <3>2. Cardinality(s) \in Nat /\ Cardinality(r) \in Nat
      BY <1>6, <2>5, <3>1
    <3>3. ~(Cardinality(r) \in Sizes)
      <4> HIDE DEF Sizes, r, Bad
      <4> QED BY <2>2, <2>3, <3>1, <3>2
    <3> QED BY <3>1, <3>3
  <2> DEFINE p == pick[s]
  <2>7. p \in s /\ F[s] = f[p] + F[s \ {p}]
    BY <1>5, <2>4, <2>5
  <2> HIDE DEF p
  <2>8. p # c
    BY <2>4, <2>7
  <2>9. F[s \ {p}] = f[c] + F[(s \ {p}) \ {c}]
    BY <2>6, <2>7, <2>8
  <2>10. F[s \ {c}] = f[p] + F[(s \ {c}) \ {p}]
    BY <2>6, <2>7, <2>8
  <2> DEFINE r == (s \ {p}) \ {c}
  <2>11. r = (s \ {c}) \ {p} /\ r \in SUBSET S /\ p \in S /\ c \in S
    BY <2>5, <2>7
  <2> HIDE DEF Bad, r
  <2>12. F[r] \in Int /\ f[p] \in Int /\ f[c] \in Int
    BY <2>11
  <2>13. F[s] = f[p] + (f[c] + F[r]) /\ F[s \ {c}] = f[p] + F[r]
    BY <2>7, <2>9, <2>10, <2>11 DEF r
  <2> QED BY <2>4, <2>12, <2>13
<1>8. Adds(F, f, S)
  BY <1>4, <1>7 DEF Adds
<1> QED BY <1>8

(* SumFunction of the community modules is such a sum.                     *)
LEMMA SumIsAdds ==
  ASSUME NEW S, IsFiniteSet(S), NEW f \in [S -> Int], NEW F, Adds(F, f, S)
  PROVE  SumFunction(f) = F[S]
<1> DEFINE Pick(s) == CHOOSE x \in s : TRUE
           pick == [s \in SUBSET S |-> Pick(s)]
           Body(g) == [s \in SUBSET S |->
             IF s = {} THEN 0 ELSE f[Pick(s)] + g[s \ {Pick(s)}]]
           iter == CHOOSE g : g = Body(g)
<1>1. SumFunction(f) = iter[S]
  BY DEF SumFunction, SumFunctionOnSet, FoldFunctionOnSet, MapThenFoldSet
<1>2. \A s \in SUBSET S : s # {} => Pick(s) \in s
  OBVIOUS
<1> HIDE DEF Pick
<1>3. Picks(pick, S)
  BY <1>2 DEF Picks
<1>4. F \in [SUBSET S -> Int]
  BY DEF Adds
<1>5. ASSUME NEW s \in SUBSET S PROVE F[s] = Body(F)[s]
  BY <1>2, <1>5 DEF Adds
<1>6. F = Body(F)
  BY <1>4, <1>5
<1>7. iter = Body(iter)
  BY <1>6
<1> HIDE DEF iter
<1>8. \A s \in SUBSET S : iter[s] = IF s = {} THEN 0 ELSE f[Pick(s)] + iter[s \ {Pick(s)}]
  BY <1>7
<1>9. \A s \in SUBSET S : F[s] = IF s = {} THEN 0 ELSE f[Pick(s)] + F[s \ {Pick(s)}]
  BY <1>6
<1>10. \A s \in SUBSET S : pick[s] = Pick(s)
  OBVIOUS
<1> HIDE DEF pick
<1>11. S \in SUBSET S /\ {} \in SUBSET S
  OBVIOUS
<1>12. \A s \in SUBSET S :
         s # {} /\ iter[s \ {pick[s]}] = F[s \ {pick[s]}] => iter[s] = F[s]
  BY <1>8, <1>9, <1>10
<1>13. iter[S] = F[S]
  <2>1. iter[{}] = F[{}]
    BY <1>8, <1>9, <1>11
  <2>2. Agree(iter, F, S, pick)
    BY <1>12, <2>1 DEF Agree
  <2> QED BY ONLY IsFiniteSet(S), <1>3, <1>11, <2>2, FoldUnique
<1> QED BY <1>1, <1>13

(* A sum of integers is an integer.                                        *)
LEMMA SumIsInteger ==
  ASSUME NEW S, IsFiniteSet(S), NEW f \in [S -> Int]
  PROVE  SumFunction(f) \in Int
<1>1. PICK F : Adds(F, f, S)
  BY AddsExists
<1>2. F[S] \in Int
  BY <1>1 DEF Adds
<1> QED BY <1>1, <1>2, SumIsAdds

Terms(q, i) == [d \in 1..Len(q) |-> i[d] * q[d]]

Image(pi, n) == {pi[k] : k \in 1..n}

Moved(r, j, q, i, pi) ==
  /\ pi \in [1..Len(r) -> 1..Len(q)]
  /\ \A a, b \in 1..Len(r) : pi[a] = pi[b] => a = b
  /\ \A k \in 1..Len(r) : r[k] = q[pi[k]] /\ j[k] = i[pi[k]]

IsSumAt(p, F, S) == p = F[S]

LEMMA TermsType ==
  ASSUME NEW q \in Seq(Nat), NEW i \in [1..Len(q) -> Nat]
  PROVE  /\ Terms(q, i) \in [1..Len(q) -> Int] /\ IsFiniteSet(1..Len(q))
         /\ \A d \in 1..Len(q) : Terms(q, i)[d] = i[d] * q[d]
<1> DEFINE n == Len(q)
<1>1. n \in Nat /\ \A d \in 1..n : i[d] \in Nat /\ q[d] \in Nat
  OBVIOUS
<1> HIDE DEF n
<1>2. \A d \in 1..n : i[d] * q[d] \in Nat
  BY <1>1
<1>3. Terms(q, i) = [d \in 1..n |-> i[d] * q[d]]
  BY DEF Terms, n
<1>4. IsFiniteSet(1..n)
  BY <1>1, FS_Interval
<1> QED BY <1>2, <1>3, <1>4 DEF n

LEMMA PositionMoved ==
  ASSUME NEW q \in Seq(Nat), NEW i \in [1..Len(q) -> Nat],
         NEW r \in Seq(Nat), NEW j \in [1..Len(r) -> Nat],
         NEW pi, Moved(r, j, q, i, pi),
         NEW F, Adds(F, Terms(q, i), 1..Len(q))
  PROVE  IsSumAt(Position(r, j), F, Image(pi, Len(r)))
<1> DEFINE n == Len(r)
<1>1. PICK T : Sums(T, r, j) /\ Position(r, j) = T[n]
  BY PositionUnfolds
<1>2. n \in Nat
  OBVIOUS
<1>3. T[0] = 0 /\ \A m \in 1..n : T[m] = T[m - 1] + j[m] * r[m]
  BY <1>1 DEF Sums
<1> DEFINE To(m) == Image(pi, m)
           Wrong == {m \in Nat : m <= n /\ T[m] # F[To(m)]}
<1> HIDE DEF n
<1>4. Wrong = {}
  <2> SUFFICES ASSUME Wrong # {} PROVE FALSE
    OBVIOUS
  <2>1. PICK m \in Wrong : \A x \in Wrong : m <= x
    BY LeastMember
  <2>2. m \in Nat /\ m <= n /\ T[m] # F[To(m)]
    OBVIOUS
  <2>3. m # 0
    <3>1. To(0) = {}
      BY DEF Image
    <3> QED BY <1>3, <2>2, <3>1 DEF Adds
  <2> DEFINE k == m - 1
  <2>4. k \in Nat /\ k <= n /\ ~(m <= k) /\ m \in 1..n /\ 1..m = (1..k) \cup {m} /\ m \notin 1..k
        /\ 1..m \subseteq 1..n
    BY <1>2, <2>2, <2>3
  <2> HIDE DEF k
  <2>5. T[k] = F[To(k)]
    <3>1. k \notin Wrong
      <4> HIDE DEF Wrong
      <4> QED BY <2>1, <2>4
    <3> QED BY <2>4, <3>1
  <2>6. T[m] = T[k] + j[m] * r[m]
    BY <1>3, <2>4 DEF k
  <2>7. /\ pi \in [1..n -> 1..Len(q)]
        /\ \A a, b \in 1..n : pi[a] = pi[b] => a = b
        /\ r[m] = q[pi[m]] /\ j[m] = i[pi[m]]
    BY <2>4 DEF Moved, n
  <2>8. To(m) \in SUBSET (1..Len(q)) /\ pi[m] \in To(m) /\ To(m) \ {pi[m]} = To(k)
    <3>1. \A a \in 1..k : pi[a] # pi[m]
      BY <2>4, <2>7
    <3>2. \A a \in 1..m : pi[a] \in 1..Len(q)
      BY <2>4, <2>7
    <3>3. To(m) = To(k) \cup {pi[m]}
      BY <2>4 DEF Image
    <3>4. pi[m] \notin To(k)
      BY <3>1 DEF Image
    <3>5. To(m) \in SUBSET (1..Len(q))
      BY <3>2 DEF Image
    <3> HIDE DEF To
    <3> QED BY <3>3, <3>4, <3>5
  <2> HIDE DEF To
  <2>9. F[To(m)] = Terms(q, i)[pi[m]] + F[To(k)]
    BY <2>8 DEF Adds
  <2>10. Terms(q, i)[pi[m]] = j[m] * r[m] /\ pi[m] \in 1..Len(q)
    <3>1. pi[m] \in 1..Len(q)
      BY <2>4, <2>7
    <3>2. Terms(q, i)[pi[m]] = i[pi[m]] * q[pi[m]]
      BY <3>1, TermsType
    <3> QED BY <2>7, <3>1, <3>2
  <2>11. To(k) \in SUBSET (1..Len(q))
    BY <2>8
  <2>12. F[To(k)] \in Int /\ j[m] * r[m] \in Int
    <3>1. F[To(k)] \in Int
      BY <2>11 DEF Adds
    <3>2. Terms(q, i)[pi[m]] \in Int
      BY <2>10, TermsType
    <3> QED BY <2>10, <3>1, <3>2
  <2> DEFINE x == j[m] * r[m]
             y == F[To(k)]
  <2>13. T[m] = y + x /\ F[To(m)] = x + y /\ x \in Int /\ y \in Int
    BY <2>5, <2>6, <2>9, <2>10, <2>12
  <2> HIDE DEF x, y
  <2> QED BY <2>2, <2>13
<1>5. T[n] = F[To(n)]
  <2>1. n \notin Wrong /\ n <= n
    <3> HIDE DEF Wrong
    <3> QED BY <1>2, <1>4
  <2> HIDE DEF To
  <2> QED BY <1>2, <2>1
<1> QED BY <1>1, <1>5 DEF n, IsSumAt

LEMMA PositionIsSum ==
  ASSUME NEW q \in Seq(Nat), NEW i \in [1..Len(q) -> Nat],
         NEW F, Adds(F, Terms(q, i), 1..Len(q))
  PROVE  Position(q, i) = F[1..Len(q)]
<1> DEFINE pi == [k \in 1..Len(q) |-> k]
<1>1. Moved(q, i, q, i, pi)
  BY DEF Moved
<1>2. Image(pi, Len(q)) = 1..Len(q)
  BY DEF Image
<1> HIDE DEF pi
<1>3. q \in Seq(Nat) /\ i \in [1..Len(q) -> Nat] /\ Adds(F, Terms(q, i), 1..Len(q))
  OBVIOUS
<1>4. IsSumAt(Position(q, i), F, Image(pi, Len(q)))
  BY ONLY <1>1, <1>3, PositionMoved
<1> QED BY <1>2, <1>4 DEF IsSumAt

(* An index and the strides permuted alike give the same position.         *)
LEMMA PositionPermuted ==
  ASSUME NEW q \in Seq(Nat), NEW i \in [1..Len(q) -> Nat],
         NEW r \in Seq(Nat), NEW j \in [1..Len(r) -> Nat],
         NEW pi, Moved(r, j, q, i, pi), Image(pi, Len(r)) = 1..Len(q)
  PROVE  Position(r, j) = Position(q, i)
<1>1. PICK F : Adds(F, Terms(q, i), 1..Len(q))
  BY TermsType, AddsExists
<1>2. IsSumAt(Position(r, j), F, Image(pi, Len(r)))
  BY <1>1, PositionMoved
<1>3. Position(q, i) = F[1..Len(q)]
  BY <1>1, PositionIsSum
<1> QED BY <1>2, <1>3 DEF IsSumAt

Past(k, d) == IF k < d THEN k ELSE k + 1

Without(i, n, d) == [k \in 1..n - 1 |-> i[Past(k, d)]]

LEMMA RemoveAtFacts ==
  ASSUME NEW q \in Seq(Nat), NEW d \in 1..Len(q)
  PROVE  /\ RemoveAt(q, d) \in Seq(Nat) /\ Len(RemoveAt(q, d)) = Len(q) - 1
         /\ \A k \in 1..Len(q) - 1 : RemoveAt(q, d)[k] = q[Past(k, d)]
<1> DEFINE n == Len(q)
           u == SubSeq(q, 1, d - 1)
           w == SubSeq(q, d + 1, n)
           c == u \o w
<1>1. n \in Nat /\ d \in Nat /\ 1 <= d /\ d <= n
  OBVIOUS
<1>2. u \in Seq(Nat) /\ Len(u) = d - 1 /\ \A e \in 1..d - 1 : u[e] = q[e]
  OBVIOUS
<1>3. w \in Seq(Nat) /\ Len(w) = n - d /\ \A e \in 1..n - d : w[e] = q[d + e]
  OBVIOUS
<1>4. RemoveAt(q, d) = c
  BY DEF RemoveAt
<1> HIDE DEF n, u, w
<1>5. IsConcat(c, u, w)
  BY <1>2, <1>3, ConcatFacts
<1> HIDE DEF c
<1>6. c \in Seq(Nat) /\ Len(c) = n - 1
  BY <1>1, <1>2, <1>3, <1>5 DEF IsConcat
<1>7. ASSUME NEW k \in 1..n - 1 PROVE c[k] = q[Past(k, d)]
  <2>1. CASE k < d
    <3>1. k \in 1..d - 1
      BY <1>1, <2>1
    <3> QED BY <1>2, <1>5, <2>1, <3>1 DEF IsConcat, Past
  <2>2. CASE d <= k
    <3> DEFINE e == k - d + 1
    <3>1. e \in 1..n - d /\ k = d - 1 + e /\ d + e = k + 1 /\ ~(k < d)
      BY <1>1, <2>2
    <3> HIDE DEF e
    <3>2. c[d - 1 + e] = w[e]
      BY <1>2, <1>3, <1>5, <3>1 DEF IsConcat
    <3> QED BY <1>3, <3>1, <3>2 DEF Past
  <2> QED BY <1>1, <2>1, <2>2
<1> QED BY <1>4, <1>6, <1>7 DEF n

LEMMA PositionWithout ==
  ASSUME NEW q \in Seq(Nat), NEW i \in [1..Len(q) -> Nat], NEW d \in 1..Len(q)
  PROVE  /\ Position(RemoveAt(q, d), Without(i, Len(q), d)) \in Nat
         /\ Position(q, i)
              = i[d] * q[d] + Position(RemoveAt(q, d), Without(i, Len(q), d))
<1> DEFINE n == Len(q)
           r == RemoveAt(q, d)
           j == Without(i, n, d)
           pi == [k \in 1..n - 1 |-> Past(k, d)]
<1>1. PICK F : Adds(F, Terms(q, i), 1..n)
  BY TermsType, AddsExists
<1>2. r \in Seq(Nat) /\ Len(r) = n - 1 /\ \A k \in 1..n - 1 : r[k] = q[Past(k, d)]
  BY RemoveAtFacts
<1>3. n \in Nat /\ d \in Nat /\ 1 <= d /\ d <= n
  OBVIOUS
<1>4. \A k \in 1..n - 1 : Past(k, d) \in 1..n /\ Past(k, d) # d
  BY <1>3 DEF Past
<1>5. \A a, b \in 1..n - 1 : Past(a, d) = Past(b, d) => a = b
  BY <1>3 DEF Past
<1>6. \A e \in (1..n) \ {d} : \E k \in 1..n - 1 : e = Past(k, d)
  <2> SUFFICES ASSUME NEW e \in (1..n) \ {d} PROVE \E k \in 1..n - 1 : e = Past(k, d)
    OBVIOUS
  <2>1. CASE e < d
    <3>1. e \in 1..n - 1 /\ e = Past(e, d)
      BY <1>3, <2>1 DEF Past
    <3> QED BY <3>1
  <2>2. CASE d < e
    <3>1. e - 1 \in 1..n - 1 /\ e = Past(e - 1, d)
      BY <1>3, <2>2 DEF Past
    <3> QED BY <3>1
  <2> QED BY <1>3, <2>1, <2>2
<1>7. j \in [1..n - 1 -> Nat] /\ \A k \in 1..n - 1 : j[k] = i[Past(k, d)]
  BY <1>4 DEF Without
<1>8. Image(pi, n - 1) = (1..n) \ {d}
  BY <1>4, <1>6 DEF Image
<1>9. Moved(r, j, q, i, pi)
  <2>1. pi \in [1..n - 1 -> 1..n]
    BY <1>4
  <2>2. \A k \in 1..n - 1 : pi[k] = Past(k, d)
    OBVIOUS
  <2> HIDE DEF pi, r, j
  <2>3. \A a, b \in 1..n - 1 : pi[a] = pi[b] => a = b
    BY <1>5, <2>2
  <2>4. \A k \in 1..n - 1 : r[k] = q[pi[k]] /\ j[k] = i[pi[k]]
    BY <1>2, <1>7, <2>2
  <2> QED BY <1>2, <2>1, <2>3, <2>4 DEF Moved
<1> HIDE DEF pi, r, j
<1>10. Position(r, j) = F[(1..n) \ {d}]
  <2>1. IsSumAt(Position(r, j), F, Image(pi, Len(r)))
    <3>1. /\ j \in [1..Len(r) -> Nat] /\ r \in Seq(Nat) /\ q \in Seq(Nat)
          /\ i \in [1..Len(q) -> Nat] /\ Adds(F, Terms(q, i), 1..Len(q))
      BY <1>1, <1>2, <1>7
    <3> QED BY ONLY <1>9, <3>1, PositionMoved
  <2> QED BY <1>2, <1>8, <2>1 DEF IsSumAt
<1>11. Position(q, i) = F[1..n]
  BY <1>1, PositionIsSum
<1>12. 1..n \in SUBSET (1..n) /\ (1..n) \ {d} \in SUBSET (1..n) /\ d \in 1..n
  BY <1>3
<1>13. F[1..n] = i[d] * q[d] + F[(1..n) \ {d}]
  <2>1. F[1..n] = Terms(q, i)[d] + F[(1..n) \ {d}]
    BY <1>1, <1>12 DEF Adds
  <2>2. Terms(q, i)[d] = i[d] * q[d]
    BY TermsType
  <2> QED BY <2>1, <2>2
<1>14. Position(r, j) \in Nat
  <2>1. j \in [1..Len(r) -> Nat]
    BY <1>2, <1>7
  <2>2. PICK T : Sums(T, r, j) /\ Position(r, j) = T[Len(r)]
    BY <1>2, <2>1, PositionUnfolds
  <2>3. Len(r) \in 0..Len(r)
    BY <1>2, <1>3
  <2> QED BY <2>2, <2>3 DEF Sums
<1> QED BY <1>10, <1>11, <1>13, <1>14 DEF r, j

IsShifted(y, x, s, stride) == y = x + s * stride

(* Starting at s in dimension d moves the positions by s strides.          *)
LEMMA PositionShifted ==
  ASSUME NEW q \in Seq(Nat), NEW i \in [1..Len(q) -> Nat], NEW d \in 1..Len(q),
         NEW s \in Nat, NEW j, j = [i EXCEPT ![d] = i[d] + s]
  PROVE  j \in [1..Len(q) -> Nat] /\ IsShifted(Position(q, j), Position(q, i), s, q[d])
<1> DEFINE n == Len(q)
<1>1. n \in Nat /\ d \in Nat /\ 1 <= d /\ d <= n /\ i \in [1..n -> Nat] /\ d \in 1..n
  OBVIOUS
<1>2. j \in [1..n -> Nat] /\ j[d] = i[d] + s /\ \A e \in (1..n) \ {d} : j[e] = i[e]
  <2> HIDE DEF n
  <2>1. i[d] + s \in Nat
    BY <1>1
  <2> QED BY <1>1, <2>1
<1>3. \A k \in 1..n - 1 : Past(k, d) \in (1..n) \ {d}
  BY <1>1 DEF Past
<1>4. Without(j, n, d) = Without(i, n, d)
  BY <1>2, <1>3 DEF Without
<1> DEFINE p == Position(RemoveAt(q, d), Without(i, n, d))
<1>5. p \in Nat /\ Position(q, i) = i[d] * q[d] + p /\ Position(q, j) = j[d] * q[d] + p
  BY <1>2, <1>4, PositionWithout
<1>6. q[d] \in Nat /\ i[d] \in Nat
  OBVIOUS
<1> HIDE DEF p
<1>7. (i[d] + s) * q[d] = i[d] * q[d] + s * q[d] /\ i[d] * q[d] \in Nat /\ s * q[d] \in Nat
  BY <1>6
<1> DEFINE x == i[d] * q[d]
           y == s * q[d]
           z == j[d] * q[d]
<1>8. z = x + y /\ x \in Nat /\ y \in Nat /\ Position(q, i) = x + p /\ Position(q, j) = z + p
  BY <1>2, <1>5, <1>7
<1> HIDE DEF x, y, z
<1>9. Position(q, j) = Position(q, i) + y
  BY <1>5, <1>8
<1> QED BY <1>2, <1>9 DEF y, IsShifted
-----------------------------------------------------------------------------
(* Where the elements of a tensor lie.  A storage is a function on D, the  *)
(* numbers from 0; what a tensor without dimensions would have as its only *)
(* address is not asked for, since it has no element.                      *)

AddressesIn(t, D) ==
  /\ \A i \in Box(t.shape) : Address(t, i) \in D
  /\ \A i, j \in Box(t.shape) : Address(t, i) = Address(t, j) => i = j

ReadsIn(t, D) == \A k \in 0..numel(t.shape) - 1 : t.offset + k \in D

Within(t, D) == (t.shape # <<>> => AddressesIn(t, D)) /\ ReadsIn(t, D)

IsTensor(t) ==
  /\ t.offset \in Nat /\ t.shape \in Seq(Nat) /\ t.stride \in Seq(Nat)
  /\ Len(t.shape) = Len(t.stride)

LEMMA NumelFacts ==
  ASSUME NEW q \in Seq(Nat)
  PROVE  numel(q) \in Nat /\ (q # <<>> => numel(q) = Product(q)) /\ (q = <<>> => numel(q) = 0)
BY ProductIsNatural DEF numel

LEMMA AddressFacts ==
  ASSUME NEW t, IsTensor(t), NEW i \in Box(t.shape)
  PROVE  /\ i \in [1..Len(t.stride) -> Nat] /\ Position(t.stride, i) \in Nat
         /\ Address(t, i) = t.offset + Position(t.stride, i)
<1>1. t.stride \in Seq(Nat) /\ i \in [1..Len(t.stride) -> Nat] /\ Len(t.stride) \in Nat
  BY DEF IsTensor, Box
<1>2. PICK T : Sums(T, t.stride, i) /\ Position(t.stride, i) = T[Len(t.stride)]
  BY <1>1, PositionUnfolds
<1>3. Position(t.stride, i) \in Nat
  BY <1>1, <1>2 DEF Sums
<1> QED BY <1>1, <1>3 DEF Address

(* As many places as elements lie between the offset and the end of the    *)
(* storage, wherever the elements are.                                     *)
LEMMA ReadsOfView ==
  ASSUME NEW t, IsTensor(t), NEW n \in Nat, t.shape # <<>>, AddressesIn(t, 0..n - 1)
  PROVE  ReadsIn(t, 0..n - 1)
<1> DEFINE q == t.shape
           K == 0..Product(q) - 1
           S == t.offset..n - 1
           f == [k \in K |-> Address(t, Unflatten(q, k))]
<1>1. q \in Seq(Nat) /\ Product(q) \in Nat /\ t.offset \in Nat /\ numel(q) = Product(q)
  BY NumelFacts, ProductIsNatural DEF IsTensor
<1>2. ASSUME NEW k \in K
      PROVE  Unflatten(q, k) \in Box(q) /\ Position(RowMajor(q), Unflatten(q, k)) = k
  BY <1>1, <1>2, IndexOfNumber
<1>3. ASSUME NEW k \in K PROVE f[k] \in S
  <2>1. Unflatten(q, k) \in Box(t.shape)
    BY <1>2
  <2>2. Address(t, Unflatten(q, k)) \in 0..n - 1
    BY <2>1 DEF AddressesIn
  <2>3. Address(t, Unflatten(q, k)) \in Int /\ t.offset <= Address(t, Unflatten(q, k))
    BY <1>1, <2>1, AddressFacts
  <2>4. f[k] = Address(t, Unflatten(q, k))
    OBVIOUS
  <2> HIDE DEF f
  <2> QED BY <1>1, <2>2, <2>3, <2>4
<1>4. \A k, l \in K : f[k] = f[l] => k = l
  <2> SUFFICES ASSUME NEW k \in K, NEW l \in K, f[k] = f[l] PROVE k = l
    OBVIOUS
  <2>1. Unflatten(q, k) \in Box(t.shape) /\ Unflatten(q, l) \in Box(t.shape)
    BY <1>2
  <2>2. Address(t, Unflatten(q, k)) = Address(t, Unflatten(q, l))
    OBVIOUS
  <2>3. Unflatten(q, k) = Unflatten(q, l)
    BY <2>1, <2>2 DEF AddressesIn
  <2> QED BY <1>2, <2>3
<1>5. f \in Injection(K, S)
  <2>1. f \in [K -> S]
    BY <1>3
  <2> HIDE DEF f, K, S
  <2> QED BY <1>4, <2>1 DEF Injection, IsInjective
<1>6. IsFiniteSet(S) /\ Cardinality(S) = IF t.offset > n - 1 THEN 0 ELSE n - 1 - t.offset + 1
  <2> DEFINE a == t.offset
             b == n - 1
  <2>1. a \in Int /\ b \in Int
    BY <1>1
  <2> HIDE DEF a, b
  <2>2. IsFiniteSet(a..b) /\ Cardinality(a..b) = IF a > b THEN 0 ELSE b - a + 1
    BY <2>1, FS_Interval
  <2> QED BY <2>2 DEF a, b
<1>7. Cardinality(K) = IF 0 > Product(q) - 1 THEN 0 ELSE Product(q) - 1 - 0 + 1
  <2> DEFINE b == Product(q) - 1
  <2>1. 0 \in Int /\ b \in Int
    BY <1>1
  <2> HIDE DEF b
  <2>2. Cardinality(0..b) = IF 0 > b THEN 0 ELSE b - 0 + 1
    BY <2>1, FS_Interval
  <2> QED BY <2>2 DEF b
<1>8. Cardinality(K) <= Cardinality(S)
  <2> HIDE DEF f, K, S
  <2> QED BY <1>5, <1>6, FS_Injection
<1>9. Product(q) = 0 \/ t.offset + Product(q) <= n
  <2> HIDE DEF q, K, S
  <2> QED BY <1>1, <1>6, <1>7, <1>8
<1> HIDE DEF q, K, S, f
<1> QED BY <1>1, <1>9 DEF ReadsIn, q

LEMMA BoxOf ==
  ASSUME NEW q \in Seq(Nat), NEW i
  PROVE  i \in Box(q) <=> /\ i \in [1..Len(q) -> Nat]
                          /\ \A d \in 1..Len(q) : i[d] < q[d]
BY DEF Box

LEMMA SequenceFacts ==
  ASSUME NEW q \in Seq(Nat)
  PROVE  /\ Len(q) \in Nat /\ DOMAIN q = 1..Len(q) /\ q \in [1..Len(q) -> Nat]
         /\ \A d \in 1..Len(q) : q[d] \in Nat
OBVIOUS

LEMMA FunctionIsSequence ==
  ASSUME NEW n \in Nat, NEW q \in [1..n -> Nat]
  PROVE  q \in Seq(Nat) /\ Len(q) = n
OBVIOUS

LEMMA SameFunction ==
  ASSUME NEW S, NEW f \in [S -> Nat], NEW g \in [S -> Nat], \A x \in S : f[x] = g[x]
  PROVE  f = g
OBVIOUS

(* Where the elements of a view lie in the tensor it is made of.           *)
Slid(v, t, d, s, i) ==
  LET j == [i EXCEPT ![d] = i[d] + s]
  IN /\ j \in Box(t.shape) /\ Address(v, i) = Address(t, j)
     /\ j[d] = i[d] + s /\ \A c \in (1..Len(t.shape)) \ {d} : j[c] = i[c]
     /\ i \in [1..Len(t.shape) -> Nat]

LEMMA SliceIndices ==
  ASSUME NEW t, IsTensor(t),
         NEW d \in 1..Len(t.shape), NEW s \in Nat, NEW e \in Nat, s <= e, e <= t.shape[d],
         NEW v, v.offset = t.offset + s * t.stride[d], v.stride = t.stride,
         v.shape = [t.shape EXCEPT ![d] = e - s]
  PROVE  /\ IsTensor(v) /\ t.shape # <<>> /\ v.shape # <<>>
         /\ \A i \in Box(v.shape) : Slid(v, t, d, s, i)
<1> DEFINE m == Len(t.shape)
           q == t.shape
           r == v.shape
<1>1. /\ m \in Nat /\ q \in Seq(Nat) /\ t.stride \in Seq(Nat) /\ Len(t.stride) = m
      /\ t.offset \in Nat /\ d \in 1..m /\ q \in [1..m -> Nat]
      /\ t.stride[d] \in Nat
  BY SequenceFacts DEF IsTensor
<1>2. r \in [1..m -> Nat] /\ r[d] = e - s /\ \A c \in (1..m) \ {d} : r[c] = q[c]
  <2>1. e - s \in Nat
    OBVIOUS
  <2> HIDE DEF m, q
  <2> QED BY <1>1, <2>1 DEF q
<1>3. r \in Seq(Nat) /\ Len(r) = m
  <2> HIDE DEF m, r
  <2> QED BY <1>1, <1>2, FunctionIsSequence
<1>4. s * t.stride[d] \in Nat
  <2> DEFINE x == t.stride[d]
  <2>1. x \in Nat /\ s \in Nat
    BY <1>1
  <2> HIDE DEF x
  <2>2. s * x \in Nat
    BY ONLY <2>1
  <2> QED BY <2>2 DEF x
<1>5. IsTensor(v)
  <2>1. v.offset \in Nat
    <3> DEFINE x == s * t.stride[d]
    <3>1. v.offset = t.offset + x /\ x \in Nat /\ t.offset \in Nat
      BY <1>1, <1>4
    <3> HIDE DEF x
    <3> QED BY ONLY <3>1
  <2> QED BY <1>1, <1>3, <2>1 DEF IsTensor
<1>6. t.shape # <<>> /\ v.shape # <<>>
  <2>1. m # 0
    BY <1>1
  <2> QED BY <1>3, <2>1
<1> DEFINE To(i) == [i EXCEPT ![d] = i[d] + s]
<1>7. ASSUME NEW i \in Box(r)
      PROVE  /\ To(i) \in Box(q) /\ Address(v, i) = Address(t, To(i))
             /\ To(i)[d] = i[d] + s /\ \A c \in (1..m) \ {d} : To(i)[c] = i[c]
             /\ i \in [1..m -> Nat]
  <2>1. i \in [1..m -> Nat] /\ \A c \in 1..m : i[c] < r[c]
    BY <1>3, BoxOf
  <2>2. /\ To(i) \in [1..m -> Nat]
        /\ Position(t.stride, To(i)) = Position(t.stride, i) + s * t.stride[d]
    <3> DEFINE w == t.stride
               j == To(i)
    <3>1. w \in Seq(Nat) /\ i \in [1..Len(w) -> Nat] /\ d \in 1..Len(w)
          /\ j = [i EXCEPT ![d] = i[d] + s]
      BY <1>1, <2>1
    <3>2. Len(w) = m
      BY <1>1
    <3> HIDE DEF w, j
    <3>3. j \in [1..Len(w) -> Nat] /\ IsShifted(Position(w, j), Position(w, i), s, w[d])
      BY <3>1, PositionShifted
    <3> QED BY <3>2, <3>3 DEF w, j, IsShifted
  <2>3. To(i)[d] = i[d] + s /\ \A c \in (1..m) \ {d} : To(i)[c] = i[c]
    BY <1>1, <2>1
  <2> HIDE DEF m, q, r, To
  <2>4. \A c \in 1..m : To(i)[c] < q[c]
    <3> SUFFICES ASSUME NEW c \in 1..m PROVE To(i)[c] < q[c]
      OBVIOUS
    <3>1. CASE c = d
      <4>1. i[d] < e - s /\ i[d] \in Nat /\ q[d] \in Nat /\ e <= q[d]
        BY <1>1, <1>2, <2>1 DEF q
      <4> QED BY <2>3, <3>1, <4>1
    <3>2. CASE c # d
      BY <1>2, <2>1, <2>3, <3>2
    <3> QED BY <3>1, <3>2
  <2>5. To(i) \in Box(q)
    BY <1>1, <2>2, <2>4, BoxOf DEF m, q
  <2>6. Address(v, i) = v.offset + Position(t.stride, i) /\ Position(t.stride, i) \in Nat
    BY <1>5, AddressFacts DEF r
  <2>7. Address(t, To(i)) = t.offset + Position(t.stride, To(i))
    BY <2>5, AddressFacts DEF q
  <2>8. Address(v, i) = Address(t, To(i))
    <3> DEFINE x == s * t.stride[d]
    <3>1. v.offset = t.offset + x /\ x \in Nat
          /\ Position(t.stride, To(i)) = Position(t.stride, i) + x
      BY <1>4, <2>2
    <3> HIDE DEF x
    <3> QED BY <1>1, <2>6, <2>7, <3>1
  <2> QED BY <2>1, <2>3, <2>5, <2>8
<1>8. ASSUME NEW i \in Box(r) PROVE Slid(v, t, d, s, i)
  BY <1>7 DEF Slid
<1> QED BY <1>5, <1>6, <1>8

LEMMA SliceWithin ==
  ASSUME NEW t, IsTensor(t), NEW n \in Nat, Within(t, 0..n - 1),
         NEW d \in 1..Len(t.shape), NEW s \in Nat, NEW e \in Nat, s <= e, e <= t.shape[d],
         NEW v, v.offset = t.offset + s * t.stride[d], v.stride = t.stride,
         v.shape = [t.shape EXCEPT ![d] = e - s]
  PROVE  IsTensor(v) /\ Within(v, 0..n - 1)
<1> DEFINE m == Len(t.shape)
           r == v.shape
           To(i) == [i EXCEPT ![d] = i[d] + s]
<1>1. IsTensor(v) /\ t.shape # <<>> /\ v.shape # <<>> /\ \A i \in Box(r) : Slid(v, t, d, s, i)
  BY SliceIndices
<1>2. m \in Nat /\ d \in 1..m
  BY SequenceFacts DEF IsTensor
<1>3. ASSUME NEW i \in Box(r)
      PROVE  /\ To(i) \in Box(t.shape) /\ Address(v, i) = Address(t, To(i))
             /\ To(i)[d] = i[d] + s /\ \A c \in (1..m) \ {d} : To(i)[c] = i[c]
             /\ i \in [1..m -> Nat]
  BY <1>1 DEF Slid
<1> HIDE DEF To
<1>4. AddressesIn(v, 0..n - 1)
  <2>1. AddressesIn(t, 0..n - 1)
    BY <1>1 DEF Within
  <2>2. \A i \in Box(r) : Address(v, i) \in 0..n - 1
    BY <1>3, <2>1 DEF AddressesIn
  <2>3. ASSUME NEW i \in Box(r), NEW j \in Box(r), Address(v, i) = Address(v, j)
        PROVE  i = j
    <3>1. To(i) = To(j)
      BY <1>3, <2>1, <2>3 DEF AddressesIn
    <3>2. /\ i \in [1..m -> Nat] /\ j \in [1..m -> Nat]
          /\ i[d] + s = j[d] + s /\ \A c \in (1..m) \ {d} : i[c] = j[c]
      <4>1. /\ i \in [1..m -> Nat] /\ To(i)[d] = i[d] + s
            /\ \A c \in (1..m) \ {d} : To(i)[c] = i[c]
        BY <1>3
      <4>2. /\ j \in [1..m -> Nat] /\ To(j)[d] = j[d] + s
            /\ \A c \in (1..m) \ {d} : To(j)[c] = j[c]
        BY <1>3
      <4> QED BY <3>1, <4>1, <4>2
    <3>3. i[d] = j[d]
      <4>1. i[d] \in Nat /\ j[d] \in Nat
        BY <1>2, <3>2
      <4> QED BY <3>2, <4>1
    <3>4. \A c \in 1..m : i[c] = j[c]
      BY <3>2, <3>3
    <3> QED BY <3>2, <3>4, SameFunction
  <2> QED BY <2>2, <2>3 DEF AddressesIn
<1> QED BY <1>1, <1>4, ReadsOfView DEF Within
Inserted(i, m, d, x) == [c \in 1..m |-> IF c < d THEN i[c] ELSE IF c = d THEN x ELSE i[c - 1]]

Chosen(v, t, d, x, i) ==
  LET m == Len(t.shape)   j == Inserted(i, m, d, x)
  IN j \in Box(t.shape) /\ Address(v, i) = Address(t, j) /\ Without(j, m, d) = i

LEMMA SelectIndices ==
  ASSUME NEW t, IsTensor(t),
         NEW d \in 1..Len(t.shape), NEW x \in Nat, x < t.shape[d],
         NEW v, v.offset = t.offset + x * t.stride[d],
         v.shape = RemoveAt(t.shape, d), v.stride = RemoveAt(t.stride, d)
  PROVE  /\ IsTensor(v) /\ t.shape # <<>>
         /\ \A i \in Box(v.shape) : Chosen(v, t, d, x, i)
<1> DEFINE m == Len(t.shape)
           q == t.shape
           w == t.stride
           r == v.shape
<1>1. /\ m \in Nat /\ q \in Seq(Nat) /\ w \in Seq(Nat) /\ Len(w) = m
      /\ t.offset \in Nat /\ d \in 1..m /\ d \in Nat /\ 1 <= d /\ d <= m
      /\ w[d] \in Nat /\ q[d] \in Nat
  BY SequenceFacts DEF IsTensor
<1>2. /\ r \in Seq(Nat) /\ Len(r) = m - 1 /\ \A k \in 1..m - 1 : r[k] = q[Past(k, d)]
  BY <1>1, RemoveAtFacts
<1>3. v.stride \in Seq(Nat) /\ Len(v.stride) = m - 1
  BY <1>1, RemoveAtFacts
<1>4. x * w[d] \in Nat
  <2> DEFINE y == w[d]
  <2>1. y \in Nat
    BY <1>1
  <2> HIDE DEF y
  <2>2. x * y \in Nat
    BY <2>1
  <2> QED BY <2>2 DEF y
<1>5. IsTensor(v)
  <2>1. v.offset \in Nat
    <3> DEFINE y == x * w[d]
    <3>1. v.offset = t.offset + y /\ y \in Nat /\ t.offset \in Nat
      BY <1>1, <1>4
    <3> HIDE DEF y
    <3> QED BY ONLY <3>1
  <2> QED BY <1>2, <1>3, <2>1 DEF IsTensor
<1>6. t.shape # <<>>
  <2>1. m # 0
    BY <1>1
  <2> QED BY <2>1
<1> DEFINE To(i) == [c \in 1..m |-> IF c < d THEN i[c] ELSE IF c = d THEN x ELSE i[c - 1]]
<1>7. ASSUME NEW i \in Box(r)
      PROVE  To(i) \in Box(q) /\ Address(v, i) = Address(t, To(i)) /\ Without(To(i), m, d) = i
  <2>1. i \in [1..m - 1 -> Nat] /\ \A c \in 1..m - 1 : i[c] < r[c]
    BY <1>2, BoxOf
  <2>2. ASSUME NEW c \in 1..m PROVE To(i)[c] \in Nat /\ To(i)[c] < q[c]
    <3> HIDE DEF q, r, m
    <3>1. CASE c < d
      <4>1. c \in 1..m - 1 /\ Past(c, d) = c
        BY <1>1, <3>1 DEF Past
      <4> QED BY <1>2, <2>1, <3>1, <4>1
    <3>2. CASE c = d
      <4>1. To(i)[c] = x
        BY <3>2
      <4> QED BY <3>2, <4>1 DEF q
    <3>3. CASE d < c
      <4> DEFINE b == c - 1
      <4>1. b \in 1..m - 1 /\ Past(b, d) = c
        BY <1>1, <3>3 DEF Past
      <4>2. To(i)[c] = i[b]
        BY <1>1, <3>3
      <4> HIDE DEF b, To
      <4> QED BY <1>2, <2>1, <4>1, <4>2
    <3> QED BY <1>1, <3>1, <3>2, <3>3
  <2>3. To(i) \in [1..m -> Nat]
    BY <2>2
  <2>4. To(i) \in Box(q)
    <3> HIDE DEF To
    <3> QED BY <1>1, <2>2, <2>3, BoxOf
  <2>5. Without(To(i), m, d) = i
    <3>1. ASSUME NEW k \in 1..m - 1 PROVE To(i)[Past(k, d)] = i[k]
      <4> HIDE DEF m
      <4>1. CASE k < d
        <5>1. Past(k, d) = k /\ k \in 1..m
          BY <1>1, <4>1 DEF Past
        <5> QED BY <4>1, <5>1
      <4>2. CASE ~(k < d)
        <5>1. Past(k, d) = k + 1 /\ k + 1 \in 1..m /\ ~(k + 1 < d) /\ k + 1 # d /\ k + 1 - 1 = k
          BY <1>1, <4>2 DEF Past
        <5> QED BY <5>1
      <4> QED BY <4>1, <4>2
    <3> HIDE DEF To, m
    <3>2. Without(To(i), m, d) = [k \in 1..m - 1 |-> i[k]]
      BY <3>1 DEF Without
    <3> QED BY <2>1, <3>2
  <2>6. To(i)[d] = x
    BY <1>1
  <2> HIDE DEF To, m, q, r, w
  <2>7. Address(v, i) = v.offset + Position(v.stride, i) /\ Position(v.stride, i) \in Nat
    BY <1>5, AddressFacts DEF r
  <2>8. Address(t, To(i)) = t.offset + Position(w, To(i))
    BY <2>4, AddressFacts DEF q, w
  <2>9. Position(w, To(i)) = x * w[d] + Position(v.stride, i)
    <3> DEFINE j == To(i)
    <3>1. w \in Seq(Nat) /\ j \in [1..Len(w) -> Nat] /\ d \in 1..Len(w)
      BY <1>1, <2>3
    <3>2. Without(j, Len(w), d) = i /\ j[d] = x
      BY <1>1, <2>5, <2>6
    <3>3. v.stride = RemoveAt(w, d)
      BY DEF w
    <3> HIDE DEF j
    <3>4. Position(w, j) = j[d] * w[d] + Position(RemoveAt(w, d), Without(j, Len(w), d))
      BY <3>1, PositionWithout
    <3> QED BY <3>2, <3>3, <3>4 DEF j
  <2>10. Address(v, i) = Address(t, To(i))
    <3> DEFINE y == x * w[d]
               p == Position(v.stride, i)
    <3>1. v.offset = t.offset + y /\ y \in Nat /\ p \in Nat
          /\ Address(v, i) = v.offset + p /\ Address(t, To(i)) = t.offset + (y + p)
      BY <1>4, <2>7, <2>8, <2>9 DEF w
    <3> HIDE DEF y, p
    <3> QED BY <1>1, <3>1
  <2> QED BY <2>4, <2>5, <2>10
<1>8. ASSUME NEW i \in Box(r) PROVE Chosen(v, t, d, x, i)
  BY <1>7 DEF Chosen, Inserted
<1> QED BY <1>5, <1>6, <1>8

LEMMA SelectWithin ==
  ASSUME NEW t, IsTensor(t), NEW n \in Nat, Within(t, 0..n - 1),
         NEW d \in 1..Len(t.shape), NEW x \in Nat, x < t.shape[d],
         NEW v, v.offset = t.offset + x * t.stride[d],
         v.shape = RemoveAt(t.shape, d), v.stride = RemoveAt(t.stride, d)
  PROVE  IsTensor(v) /\ Within(v, 0..n - 1)
<1> DEFINE m == Len(t.shape)
           r == v.shape
           To(i) == Inserted(i, m, d, x)
<1>1. IsTensor(v) /\ t.shape # <<>> /\ \A i \in Box(r) : Chosen(v, t, d, x, i)
  BY SelectIndices
<1>2. ASSUME NEW i \in Box(r)
      PROVE  To(i) \in Box(t.shape) /\ Address(v, i) = Address(t, To(i)) /\ Without(To(i), m, d) = i
  BY <1>1 DEF Chosen
<1> HIDE DEF To
<1>3. AddressesIn(v, 0..n - 1)
  <2>1. AddressesIn(t, 0..n - 1)
    BY <1>1 DEF Within
  <2>2. \A i \in Box(r) : Address(v, i) \in 0..n - 1
    BY <1>2, <2>1 DEF AddressesIn
  <2>3. ASSUME NEW i \in Box(r), NEW j \in Box(r), Address(v, i) = Address(v, j)
        PROVE  i = j
    <3>1. To(i) = To(j)
      BY <1>2, <2>1, <2>3 DEF AddressesIn
    <3> QED BY <1>2, <3>1
  <2> QED BY <2>2, <2>3 DEF AddressesIn
<1>4. ReadsIn(v, 0..n - 1)
  <2>1. CASE v.shape = <<>>
    BY <2>1 DEF ReadsIn, numel
  <2>2. CASE v.shape # <<>>
    BY <1>1, <1>3, <2>2, ReadsOfView
  <2> QED BY <2>1, <2>2
<1> QED BY <1>1, <1>3, <1>4 DEF Within

IsPermutation(p, n) ==
  p \in [1..n -> 1..n] /\ \A a, b \in 1..n : p[a] = p[b] => a = b

IsHit(e, p, n) == \E a \in 1..n : p[a] = e

LEMMA InjectionIsOnto ==
  ASSUME NEW n \in Nat, NEW p, IsPermutation(p, n), NEW e \in 1..n
  PROVE  IsHit(e, p, n)
<1> DEFINE S == 1..n
<1>1. IsFiniteSet(S)
  BY FS_Interval
<1>2. p \in [S -> S] /\ (\A a, b \in S : p[a] = p[b] => a = b) /\ e \in S
  BY DEF IsPermutation
<1> HIDE DEF S
<1>3. p \in Injection(S, S)
  BY <1>2 DEF Injection, IsInjective
<1>4. p \in Surjection(S, S)
  BY <1>1, <1>3, FS_Injection
<1> QED BY <1>2, <1>4 DEF Surjection, S, IsHit

Permuted(i, dims, m) == [e \in 1..m |-> i[CHOOSE a \in 1..m : dims[a] = e]]

Reordered(v, t, dims, i) ==
  LET m == Len(t.shape)   j == Permuted(i, dims, m)
  IN /\ j \in Box(t.shape) /\ Address(v, i) = Address(t, j)
     /\ i \in [1..m -> Nat] /\ \A a \in 1..m : i[a] = j[dims[a]]

LEMMA PermuteIndices ==
  ASSUME NEW t, IsTensor(t), NEW dims, IsPermutation(dims, Len(t.shape)),
         NEW v, v.offset = t.offset,
         v.shape = [d \in DOMAIN dims |-> t.shape[dims[d]]],
         v.stride = [d \in DOMAIN dims |-> t.stride[dims[d]]]
  PROVE  /\ IsTensor(v) /\ Len(v.shape) = Len(t.shape) /\ Len(t.shape) \in Nat
         /\ \A i \in Box(v.shape) : Reordered(v, t, dims, i)
<1> DEFINE m == Len(t.shape)
           q == t.shape
           w == t.stride
           r == v.shape
           u == v.stride
<1>1. /\ m \in Nat /\ q \in Seq(Nat) /\ w \in Seq(Nat) /\ Len(w) = m
      /\ t.offset \in Nat /\ DOMAIN dims = 1..m
      /\ \A d \in 1..m : q[d] \in Nat /\ w[d] \in Nat
  BY SequenceFacts DEF IsTensor, IsPermutation
<1>2. /\ dims \in [1..m -> 1..m]
      /\ \A a, b \in 1..m : dims[a] = dims[b] => a = b
  BY DEF IsPermutation
<1>3. /\ r = [d \in 1..m |-> q[dims[d]]] /\ u = [d \in 1..m |-> w[dims[d]]]
  BY <1>1
<1> HIDE DEF m, q, w, r, u
<1>4. r \in [1..m -> Nat] /\ u \in [1..m -> Nat]
  BY <1>1, <1>2, <1>3
<1>5. r \in Seq(Nat) /\ Len(r) = m /\ u \in Seq(Nat) /\ Len(u) = m
  BY <1>1, <1>4, FunctionIsSequence
<1>6. IsTensor(v)
  BY <1>1, <1>5 DEF IsTensor, r, u
<1> DEFINE From(e) == CHOOSE a \in 1..m : dims[a] = e
           To(i) == [e \in 1..m |-> i[From(e)]]
<1>7. ASSUME NEW e \in 1..m PROVE From(e) \in 1..m /\ dims[From(e)] = e
  <2>1. m \in Nat /\ IsPermutation(dims, m) /\ e \in 1..m
    BY <1>1, <1>2 DEF IsPermutation
  <2>2. IsHit(e, dims, m)
    BY ONLY <2>1, InjectionIsOnto
  <2> QED BY <2>2 DEF IsHit
<1>8. ASSUME NEW a \in 1..m PROVE From(dims[a]) = a /\ dims[a] \in 1..m
  BY <1>2, <1>7
<1> HIDE DEF From
<1>9. ASSUME NEW i \in Box(r)
      PROVE  /\ To(i) \in Box(q) /\ Address(v, i) = Address(t, To(i))
             /\ i \in [1..m -> Nat] /\ \A a \in 1..m : i[a] = To(i)[dims[a]]
  <2>1. i \in [1..m -> Nat] /\ \A c \in 1..m : i[c] < r[c]
    BY <1>5, BoxOf
  <2>2. \A a \in 1..m : To(i)[dims[a]] = i[a]
    BY <1>8
  <2>3. To(i) \in [1..m -> Nat]
    BY <1>7, <2>1
  <2>4. \A e \in 1..m : To(i)[e] < q[e]
    BY <1>3, <1>7, <2>1
  <2> HIDE DEF To
  <2>5. To(i) \in Box(q)
    BY <1>1, <2>3, <2>4, BoxOf DEF m, q
  <2> DEFINE j == To(i)
  <2>6. Moved(u, i, w, j, dims)
    BY <1>1, <1>2, <1>3, <1>5, <2>2 DEF Moved
  <2>7. Image(dims, Len(u)) = 1..Len(w)
    <3>1. ASSUME NEW e \in 1..m PROVE e \in Image(dims, m)
      <4>1. From(e) \in 1..m /\ dims[From(e)] = e
        BY <1>7
      <4> QED BY <4>1 DEF Image
    <3>2. ASSUME NEW e \in Image(dims, m) PROVE e \in 1..m
      <4>1. PICK k \in 1..m : e = dims[k]
        BY DEF Image
      <4> QED BY <1>2, <4>1
    <3>3. Image(dims, m) = 1..m
      BY <3>1, <3>2
    <3> QED BY <1>1, <1>5, <3>3
  <2>8. /\ w \in Seq(Nat) /\ j \in [1..Len(w) -> Nat]
        /\ u \in Seq(Nat) /\ i \in [1..Len(u) -> Nat]
    BY <1>1, <1>5, <2>1, <2>3
  <2> HIDE DEF j
  <2>9. Position(u, i) = Position(w, j)
    BY ONLY <2>6, <2>7, <2>8, PositionPermuted
  <2>10. Address(v, i) = v.offset + Position(u, i) /\ Address(t, j) = t.offset + Position(w, j)
    BY DEF Address, u, w
  <2> QED BY <2>1, <2>2, <2>5, <2>9, <2>10 DEF j
<1>10. ASSUME NEW i \in Box(r) PROVE Reordered(v, t, dims, i)
  BY <1>9 DEF Reordered, Permuted, To, From, m, q
<1> QED BY <1>1, <1>5, <1>6, <1>10 DEF m, r

LEMMA PermuteWithin ==
  ASSUME NEW t, IsTensor(t), NEW n \in Nat, Within(t, 0..n - 1),
         NEW dims, IsPermutation(dims, Len(t.shape)),
         NEW v, v.offset = t.offset,
         v.shape = [d \in DOMAIN dims |-> t.shape[dims[d]]],
         v.stride = [d \in DOMAIN dims |-> t.stride[dims[d]]]
  PROVE  IsTensor(v) /\ Within(v, 0..n - 1)
<1> DEFINE m == Len(t.shape)
           r == v.shape
           To(i) == Permuted(i, dims, m)
<1>1. /\ IsTensor(v) /\ Len(r) = m /\ m \in Nat /\ \A i \in Box(r) : Reordered(v, t, dims, i)
  BY PermuteIndices
<1>2. ASSUME NEW i \in Box(r)
      PROVE  /\ To(i) \in Box(t.shape) /\ Address(v, i) = Address(t, To(i))
             /\ i \in [1..m -> Nat] /\ \A a \in 1..m : i[a] = To(i)[dims[a]]
  BY <1>1 DEF Reordered
<1> HIDE DEF To
<1>3. v.shape # <<>> => AddressesIn(v, 0..n - 1)
  <2> SUFFICES ASSUME v.shape # <<>> PROVE AddressesIn(v, 0..n - 1)
    OBVIOUS
  <2>1. AddressesIn(t, 0..n - 1)
    <3>1. m # 0
      BY <1>1
    <3>2. t.shape # <<>>
      BY <3>1
    <3> QED BY <3>2 DEF Within
  <2>2. \A i \in Box(r) : Address(v, i) \in 0..n - 1
    BY <1>2, <2>1 DEF AddressesIn
  <2>3. ASSUME NEW i \in Box(r), NEW j \in Box(r), Address(v, i) = Address(v, j)
        PROVE  i = j
    <3>1. To(i) = To(j)
      BY <1>2, <2>1, <2>3 DEF AddressesIn
    <3> DEFINE S == 1..m
    <3>2. i \in [S -> Nat] /\ j \in [S -> Nat] /\ \A a \in S : i[a] = j[a]
      BY <1>2, <3>1
    <3> HIDE DEF S
    <3> QED BY ONLY <3>2, SameFunction
  <2> QED BY <2>2, <2>3 DEF AddressesIn
<1>4. ReadsIn(v, 0..n - 1)
  <2>1. CASE v.shape = <<>>
    BY <2>1 DEF ReadsIn, numel
  <2>2. CASE v.shape # <<>>
    BY <1>1, <1>3, <2>2, ReadsOfView
  <2> QED BY <2>1, <2>2
<1> QED BY <1>1, <1>3, <1>4 DEF Within

(* A tensor in row-major order needs numel elements from its offset on.    *)
LEMMA RowMajorWithin ==
  ASSUME NEW shape \in Seq(Nat), NEW v, v.offset \in Nat, v.shape = shape,
         v.stride = compute_row_major(shape), NEW D, ReadsIn(v, D)
  PROVE  IsTensor(v) /\ Within(v, D)
<1>1. v.stride = RowMajor(shape)
  BY DEF compute_row_major
<1>2. IsTensor(v)
  BY <1>1, RowMajorFacts DEF IsTensor
<1>3. ASSUME shape # <<>> PROVE AddressesIn(v, D)
  <2>1. ASSUME NEW i \in Box(shape)
        PROVE  /\ Position(v.stride, i) \in 0..numel(v.shape) - 1
               /\ Unflatten(shape, Position(v.stride, i)) = i
    BY <1>1, <1>3, NumberOfIndex, NumelFacts
  <2>2. ASSUME NEW i \in Box(shape)
        PROVE  Address(v, i) = v.offset + Position(v.stride, i) /\ Address(v, i) \in D
    BY <2>1 DEF Address, ReadsIn
  <2>3. ASSUME NEW i \in Box(shape), NEW j \in Box(shape), Address(v, i) = Address(v, j)
        PROVE  i = j
    <3> DEFINE x == Position(v.stride, i)
               y == Position(v.stride, j)
    <3>1. x \in Int /\ y \in Int
      BY <2>1
    <3>2. v.offset + x = v.offset + y
      BY <2>2, <2>3
    <3> HIDE DEF x, y
    <3>3. x = y
      BY <3>1, <3>2
    <3> QED BY <2>1, <3>3 DEF x, y
  <2> QED BY <2>2, <2>3 DEF AddressesIn
<1> QED BY <1>2, <1>3 DEF Within
-----------------------------------------------------------------------------
(* The invariant.                                                          *)

Storages == UNION {[0..n - 1 -> Int] : n \in Nat}

Tensors == [storage : Nat, offset : Nat, shape : Seq(Nat), stride : Seq(Nat)]

Places(t, m) ==
  /\ IsTensor(t) /\ t.storage \in 1..Len(m)
  /\ Within(t, DOMAIN m[t.storage])

Counts == Len(tensors) <= MaxTensors /\ writes \in 0..MaxWrites

ViewsInv ==
  /\ tensors \in Seq(Tensors) /\ memory \in Seq(Storages) /\ Counts
  /\ \A x \in 1..Len(tensors) : Places(tensors[x], memory)

LEMMA AppendFacts ==
  ASSUME NEW S, NEW q \in Seq(S), NEW e \in S
  PROVE  /\ Append(q, e) \in Seq(S) /\ Len(Append(q, e)) = Len(q) + 1 /\ Len(q) \in Nat
         /\ \A x \in 1..Len(q) : Append(q, e)[x] = q[x]
         /\ Append(q, e)[Len(q) + 1] = e
OBVIOUS

LEMMA MemberFacts ==
  ASSUME NEW S, NEW q \in Seq(S), NEW x \in 1..Len(q)
  PROVE  q[x] \in S
OBVIOUS

LEMMA LengthFacts ==
  ASSUME NEW S, NEW q \in Seq(S)
  PROVE  Len(q) \in Nat /\ DOMAIN q = 1..Len(q)
OBVIOUS

(* The new tensor is the last one.                                         *)
LEMMA LastTensor ==
  ASSUME ViewsInv, Len(tensors) < MaxTensors, NEW v \in Tensors,
         tensors' = Append(tensors, v), memory' \in Seq(Storages), writes' = writes,
         \A t : Places(t, memory) => Places(t, memory'), Places(v, memory')
  PROVE  ViewsInv'
<1> DEFINE n == Len(tensors)
<1>1. /\ tensors' \in Seq(Tensors) /\ Len(tensors') = n + 1 /\ n \in Nat
      /\ \A x \in 1..n : tensors'[x] = tensors[x]
      /\ tensors'[n + 1] = v
  <2>1. tensors \in Seq(Tensors)
    BY DEF ViewsInv
  <2> QED BY <2>1, AppendFacts
<1>2. Counts'
  BY <1>1, ViewsAssumption DEF ViewsInv, Counts
<1>3. ASSUME NEW x \in 1..n + 1 PROVE Places(tensors'[x], memory')
  <2>1. CASE x = n + 1
    BY <1>1, <2>1
  <2>2. CASE x # n + 1
    <3>1. x \in 1..n
      BY <1>1, <2>2
    <3> QED BY <1>1, <3>1 DEF ViewsInv
  <2> QED BY <2>1, <2>2
<1> QED BY <1>1, <1>2, <1>3 DEF ViewsInv

LEMMA ViewStep ==
  ASSUME ViewsInv, NEW x \in Tensor, NEW o, NEW q, NEW w,
         NewView(tensors[x], o, q, w), NEW v,
         v = [storage |-> tensors[x].storage, offset |-> o, shape |-> q, stride |-> w],
         \A n \in Nat : Within(tensors[x], 0..n - 1) => IsTensor(v) /\ Within(v, 0..n - 1)
  PROVE  ViewsInv'
<1> DEFINE t == tensors[x]
<1>1. tensors \in Seq(Tensors) /\ memory \in Seq(Storages)
  BY DEF ViewsInv
<1>2. x \in 1..Len(tensors)
  BY <1>1, LengthFacts DEF Tensor
<1>3. Places(t, memory) /\ t.storage \in 1..Len(memory) /\ t \in Tensors
  BY <1>1, <1>2, MemberFacts DEF ViewsInv, Places
<1>4. memory[t.storage] \in Storages
  BY <1>1, <1>3, MemberFacts
<1>5. PICK n \in Nat : memory[t.storage] \in [0..n - 1 -> Int]
  BY <1>4 DEF Storages
<1>6. DOMAIN memory[t.storage] = 0..n - 1
  BY <1>5
<1>7. v.storage = t.storage /\ v.offset = o /\ v.shape = q /\ v.stride = w
  OBVIOUS
<1>8. IsTensor(v) /\ Within(v, 0..n - 1)
  BY <1>3, <1>6 DEF Places
<1>9. Places(v, memory)
  BY <1>3, <1>6, <1>7, <1>8 DEF Places
<1>10. v \in Tensors
  <2>1. t.storage \in Nat /\ o \in Nat /\ q \in Seq(Nat) /\ w \in Seq(Nat)
    BY <1>3, <1>7, <1>8 DEF IsTensor, Tensors
  <2> QED BY <2>1 DEF Tensors
<1>11. /\ Len(tensors) < MaxTensors /\ tensors' = Append(tensors, v)
       /\ memory' = memory /\ writes' = writes
  BY DEF NewView
<1> HIDE DEF t
<1> QED BY <1>1, <1>9, <1>10, <1>11, LastTensor

LEMMA IntervalFinite ==
  ASSUME NEW a \in Int, NEW b \in Int
  PROVE  IsFiniteSet(a..b)
BY FS_Interval

LEMMA FreshStep ==
  ASSUME ViewsInv, NEW shape \in Seq(Nat), NEW f \in [0..numel(shape) - 1 -> Int],
         Len(tensors) < MaxTensors, memory' = Append(memory, f), writes' = writes,
         tensors' = Append(tensors, [storage |-> Len(memory) + 1, offset |-> 0,
                                     shape |-> shape, stride |-> compute_row_major(shape)])
  PROVE  ViewsInv'
<1> DEFINE v == [storage |-> Len(memory) + 1, offset |-> 0,
                 shape |-> shape, stride |-> compute_row_major(shape)]
           n == Len(memory)
           b == numel(shape)
<1>1. memory \in Seq(Storages) /\ n \in Nat /\ b \in Nat
  BY LengthFacts, NumelFacts DEF ViewsInv
<1>2. f \in Storages
  BY <1>1 DEF Storages
<1>3. /\ memory' \in Seq(Storages) /\ Len(memory') = n + 1
      /\ \A x \in 1..n : memory'[x] = memory[x]
      /\ memory'[n + 1] = f
  BY <1>1, <1>2, AppendFacts
<1>4. ASSUME NEW t, Places(t, memory) PROVE Places(t, memory')
  <2>1. t.storage \in 1..n /\ IsTensor(t) /\ Within(t, DOMAIN memory[t.storage])
    BY <1>4 DEF Places
  <2>2. t.storage \in 1..Len(memory')
    BY <1>1, <1>3, <2>1
  <2> QED BY <1>3, <2>1, <2>2 DEF Places
<1>5. v.storage = n + 1 /\ v.offset = 0 /\ v.shape = shape /\ v.stride = compute_row_major(shape)
  OBVIOUS
<1>6. DOMAIN memory'[v.storage] = 0..b - 1
  BY <1>3, <1>5
<1> HIDE DEF v
<1>7. ReadsIn(v, 0..b - 1)
  BY <1>1, <1>5 DEF ReadsIn, b
<1>8. IsTensor(v) /\ Within(v, 0..b - 1)
  BY <1>5, <1>7, RowMajorWithin
<1>9. Places(v, memory')
  BY <1>1, <1>3, <1>5, <1>6, <1>8 DEF Places
<1>10. v \in Tensors
  <2>1. n + 1 \in Nat /\ compute_row_major(shape) \in Seq(Nat)
    BY <1>1, <1>5, <1>8 DEF IsTensor
  <2> QED BY <2>1 DEF v, Tensors
<1>11. tensors' = Append(tensors, v)
  BY DEF v
<1> QED BY <1>3, <1>4, <1>9, <1>10, <1>11, LastTensor

(* What a tensor's loops read is an integer.                               *)
LEMMA AtIsInt ==
  ASSUME ViewsInv, NEW x \in Tensor
  PROVE  /\ tensors[x].shape \in Seq(Nat) /\ numel(tensors[x].shape) \in Nat
         /\ \A k \in 0..numel(tensors[x].shape) - 1 : At(tensors[x], k) \in Int
<1> DEFINE t == tensors[x]
<1>1. tensors \in Seq(Tensors) /\ memory \in Seq(Storages)
  BY DEF ViewsInv
<1>2. x \in 1..Len(tensors)
  BY <1>1, LengthFacts DEF Tensor
<1>3. Places(t, memory) /\ t.storage \in 1..Len(memory)
  BY <1>2 DEF ViewsInv, Places
<1>4. memory[t.storage] \in Storages
  BY <1>1, <1>3, MemberFacts
<1>5. PICK n \in Nat : memory[t.storage] \in [0..n - 1 -> Int]
  BY <1>4 DEF Storages
<1>6. DOMAIN memory[t.storage] = 0..n - 1
  BY <1>5
<1>7. t.shape \in Seq(Nat)
  BY <1>3 DEF Places, IsTensor
<1>8. ASSUME NEW k \in 0..numel(t.shape) - 1 PROVE At(t, k) \in Int
  <2>1. t.offset + k \in 0..n - 1
    BY <1>3, <1>6 DEF Places, Within, ReadsIn
  <2> QED BY <1>5, <2>1 DEF At
<1> QED BY <1>7, <1>8, NumelFacts

-----------------------------------------------------------------------------
(* The numbers the loops read at.                                          *)

LEMMA RowColumn ==
  ASSUME NEW m \in Nat, NEW n \in Nat, NEW i \in 0..m - 1, NEW k \in 0..n - 1
  PROVE  i * n + k \in 0..m * n - 1
<1>1. (i + 1) * n <= m * n
  BY ProductIsMonotone
<1>2. (i + 1) * n = i * n + n
  OBVIOUS
<1>3. i * n \in Nat /\ m * n \in Nat
  OBVIOUS
<1> QED BY <1>1, <1>2, <1>3

LEMMA RowColumnOf ==
  ASSUME NEW m \in Nat, NEW n \in Nat, NEW o \in 0..m * n - 1
  PROVE  n \in Nat \ {0} /\ o \div n \in 0..m - 1 /\ o % n \in 0..n - 1
<1>1. m * n \in Nat
  OBVIOUS
<1>2. n # 0
  <2> SUFFICES ASSUME n = 0 PROVE FALSE
    OBVIOUS
  <2>1. m * n = 0
    OBVIOUS
  <2> QED BY <2>1
<1> DEFINE a == o \div n
           r == o % n
<1>3. a \in Nat /\ r \in Nat /\ o = n * a + r /\ r < n
  BY <1>1, <1>2, Quotient
<1> HIDE DEF a, r
<1>4. ~(m <= a)
  <2> SUFFICES ASSUME m <= a PROVE FALSE
    OBVIOUS
  <2>1. m * n <= a * n /\ a * n = n * a /\ a * n \in Nat
    BY <1>3, ProductIsMonotone
  <2> QED BY <1>1, <1>3, <2>1
<1> QED BY <1>2, <1>3, <1>4 DEF a, r

(* The product of a shape, cut at a dimension.                             *)
Ahead(q, d) == Product(SubSeq(q, 1, d - 1))

LEMMA ProductAt ==
  ASSUME NEW q \in Seq(Nat), NEW d \in 1..Len(q)
  PROVE  /\ Ahead(q, d) \in Nat /\ Behind(q, d) \in Nat /\ q[d] \in Nat
         /\ Product(q) = Ahead(q, d) * (q[d] * Behind(q, d))
<1> DEFINE n == Len(q)
           u == SubSeq(q, 1, d - 1)
           v == SubSeq(q, d, n)
<1>1. u \in Seq(Nat) /\ v \in Seq(Nat) /\ q = u \o v /\ q[d] \in Nat
  BY SplitAt
<1>2. Behind(q, d - 1) = q[d] * Behind(q, d) /\ Behind(q, d) \in Nat
  BY BehindFacts
<1>3. Behind(q, d - 1) = Product(v)
  <2>1. d - 1 + 1 = d
    OBVIOUS
  <2> QED BY <2>1 DEF Behind
<1> HIDE DEF u, v
<1>4. Product(u \o v) = Product(u) * Product(v)
  BY <1>1, ProductOfConcat
<1>5. Product(u) \in Nat
  BY <1>1, ProductIsNatural
<1> QED BY <1>1, <1>2, <1>3, <1>4, <1>5 DEF Ahead, u

LEMMA ProductRemoved ==
  ASSUME NEW q \in Seq(Nat), NEW d \in 1..Len(q)
  PROVE  Product(RemoveAt(q, d)) = Ahead(q, d) * Behind(q, d)
<1> DEFINE u == SubSeq(q, 1, d - 1)
           w == SubSeq(q, d + 1, Len(q))
<1>1. u \in Seq(Nat) /\ w \in Seq(Nat)
  BY SplitAt
<1>2. RemoveAt(q, d) = u \o w
  BY DEF RemoveAt
<1> HIDE DEF u, w
<1>3. Product(u \o w) = Product(u) * Product(w)
  BY <1>1, ProductOfConcat
<1> QED BY <1>2, <1>3 DEF Ahead, Behind, u, w

LEMMA OtherLength ==
  ASSUME NEW q \in Seq(Nat), NEW d \in 1..Len(q), NEW a \in Nat
  PROVE  /\ [q EXCEPT ![d] = a] \in Seq(Nat) /\ Len([q EXCEPT ![d] = a]) = Len(q)
         /\ [q EXCEPT ![d] = a][d] = a
         /\ \A c \in 1..Len(q) : c # d => [q EXCEPT ![d] = a][c] = q[c]
OBVIOUS

LEMMA TailFacts ==
  ASSUME NEW q \in Seq(Nat), NEW d \in 1..Len(q)
  PROVE  /\ SubSeq(q, d + 1, Len(q)) \in Seq(Nat)
         /\ Len(SubSeq(q, d + 1, Len(q))) = Len(q) - d
         /\ \A c \in 1..Len(q) - d : SubSeq(q, d + 1, Len(q))[c] = q[d + c]
<1> DEFINE n == Len(q)
<1>1. n \in Nat /\ d \in 1..n
  OBVIOUS
<1>2. /\ SubSeq(q, d + 1, n) \in Seq(Nat) /\ Len(SubSeq(q, d + 1, n)) = n - (d + 1) + 1
      /\ \A c \in 1..n - (d + 1) + 1 : SubSeq(q, d + 1, n)[c] = q[d + 1 + c - 1]
  <2>1. d + 1 \in 1..Len(q) + 1 /\ n \in Nat /\ n <= Len(q) /\ d + 1 <= n + 1
    BY <1>1
  <2> QED BY <2>1, SubSeqFacts
<1> HIDE DEF n
<1>3. n - (d + 1) + 1 = n - d /\ \A c \in 1..n - d : d + 1 + c - 1 = d + c
  BY <1>1
<1> QED BY <1>2, <1>3 DEF n

LEMMA ProductOfOther ==
  ASSUME NEW q \in Seq(Nat), NEW d \in 1..Len(q)
  PROVE  Product([q EXCEPT ![d] = 1]) = Ahead(q, d) * Behind(q, d)
<1> DEFINE e == [q EXCEPT ![d] = 1]
           n == Len(q)
<1>1. /\ e \in Seq(Nat) /\ Len(e) = n /\ e[d] = 1 /\ d \in 1..n /\ n \in Nat
      /\ \A c \in 1..n : c # d => e[c] = q[c]
  <2>1. 1 \in Nat
    OBVIOUS
  <2> QED BY <2>1, OtherLength
<1> HIDE DEF e, n
<1>2. SubSeq(e, 1, d - 1) = SubSeq(q, 1, d - 1)
  <2>1. SubSeq(e, 1, d - 1) \in Seq(Nat) /\ Len(SubSeq(e, 1, d - 1)) = d - 1
        /\ \A c \in 1..d - 1 : SubSeq(e, 1, d - 1)[c] = e[c]
    BY <1>1
  <2>2. SubSeq(q, 1, d - 1) \in Seq(Nat) /\ Len(SubSeq(q, 1, d - 1)) = d - 1
        /\ \A c \in 1..d - 1 : SubSeq(q, 1, d - 1)[c] = q[c]
    BY <1>1 DEF n
  <2>3. \A c \in 1..d - 1 : e[c] = q[c]
    BY <1>1
  <2> QED BY <2>1, <2>2, <2>3, SameSequence
<1>3. SubSeq(e, d + 1, n) = SubSeq(q, d + 1, n)
  <2>1. SubSeq(e, d + 1, n) \in Seq(Nat) /\ Len(SubSeq(e, d + 1, n)) = n - d
        /\ \A c \in 1..n - d : SubSeq(e, d + 1, n)[c] = e[d + c]
    <3>1. d \in 1..Len(e) /\ Len(e) = n
      BY <1>1
    <3> QED BY <1>1, <3>1, TailFacts
  <2>2. SubSeq(q, d + 1, n) \in Seq(Nat) /\ Len(SubSeq(q, d + 1, n)) = n - d
        /\ \A c \in 1..n - d : SubSeq(q, d + 1, n)[c] = q[d + c]
    BY TailFacts DEF n
  <2>3. \A c \in 1..n - d : e[d + c] = q[d + c]
    BY <1>1
  <2> QED BY <2>1, <2>2, <2>3, SameSequence
<1>4. Ahead(e, d) = Ahead(q, d) /\ Behind(e, d) = Behind(q, d)
  BY <1>1, <1>2, <1>3 DEF Ahead, Behind, n
<1>5. Behind(e, d) \in Nat /\ Product(e) = Ahead(e, d) * (e[d] * Behind(e, d))
  BY <1>1, ProductAt
<1>6. 1 * Behind(e, d) = Behind(e, d)
  BY <1>5
<1> QED BY <1>1, <1>4, <1>5, <1>6 DEF e

LEMMA ProductOfTwo ==
  ASSUME NEW q \in Seq(Nat), Len(q) = 2
  PROVE  q[1] \in Nat /\ q[2] \in Nat /\ numel(q) = q[1] * q[2]
<1>1. 1 \in 1..Len(q) /\ 2 \in 1..Len(q) /\ q # <<>> /\ q[1] \in Nat /\ q[2] \in Nat
  <2>1. 1 \in 1..2 /\ 2 \in 1..2 /\ 1..2 = 1..Len(q)
    OBVIOUS
  <2>2. q # <<>>
    <3> DEFINE n == Len(q)
    <3>1. n # 0
      OBVIOUS
    <3> HIDE DEF n
    <3>2. q = <<>> => n = 0
      BY DEF n
    <3> QED BY <3>1, <3>2
  <2> QED BY <2>1, <2>2, SequenceFacts
<1>2. Behind(q, 0) = Product(q) /\ Behind(q, 2) = 1
      /\ \A d \in 1..Len(q) : Behind(q, d - 1) = q[d] * Behind(q, d)
  BY BehindFacts
<1>3. Behind(q, 1) = q[2] * 1 /\ Behind(q, 0) = q[1] * Behind(q, 1)
  <2>1. 2 - 1 = 1 /\ 1 - 1 = 0
    OBVIOUS
  <2> QED BY <1>1, <1>2, <2>1
<1>4. Behind(q, 1) = q[2]
  BY <1>1, <1>3
<1> QED BY <1>1, <1>2, <1>3, <1>4, NumelFacts

LEMMA Pairs ==
  ASSUME NEW a \in Nat, NEW b \in Nat
  PROVE  <<a, b>> \in Seq(Nat) /\ Len(<<a, b>>) = 2 /\ <<a, b>>[1] = a /\ <<a, b>>[2] = b
OBVIOUS

LEMMA Singles ==
  ASSUME NEW a \in Nat
  PROVE  <<a>> \in Seq(Nat)
OBVIOUS

-----------------------------------------------------------------------------
(* One lemma per operation.                                                *)

LEMMA TensorFacts ==
  ASSUME ViewsInv, NEW x \in Tensor
  PROVE  /\ IsTensor(tensors[x]) /\ tensors[x].storage \in 1..Len(memory)
         /\ DOMAIN tensors[x].shape = 1..Len(tensors[x].shape)
         /\ \A d \in 1..Len(tensors[x].shape) : tensors[x].shape[d] \in Nat
<1>1. tensors \in Seq(Tensors)
  BY DEF ViewsInv
<1>2. x \in 1..Len(tensors)
  BY <1>1, LengthFacts DEF Tensor
<1>3. Places(tensors[x], memory)
  BY <1>2 DEF ViewsInv
<1>4. IsTensor(tensors[x]) /\ tensors[x].storage \in 1..Len(memory)
  BY <1>3 DEF Places
<1>5. tensors[x].shape \in Seq(Nat)
  BY <1>4 DEF IsTensor
<1> QED BY <1>4, <1>5, SequenceFacts

LEMMA SliceStep ==
  ASSUME ViewsInv, NEW x \in Tensor, NEW d \in DOMAIN tensors[x].shape,
         NEW start \in Int, NEW end \in Int, slice(x, d, start, end)
  PROVE  ViewsInv'
<1> DEFINE t == tensors[x]
           s == normalize_index(start, t.shape[d])
           e == normalize_index(end, t.shape[d])
           o == OffsetOfStart(t, d, s)
           q == [t.shape EXCEPT ![d] = LengthOf(s, e)]
           v == [storage |-> t.storage, offset |-> o, shape |-> q, stride |-> t.stride]
<1>1. IsTensor(t) /\ d \in 1..Len(t.shape) /\ t.shape[d] \in Nat
  BY TensorFacts
<1>2. s \in Int /\ e \in Int
  BY <1>1 DEF normalize_index
<1>3. 0 <= s /\ s <= e /\ e <= t.shape[d] /\ NewView(t, o, q, t.stride)
  BY DEF slice
<1>4. v.offset = o /\ v.shape = q /\ v.stride = t.stride
  OBVIOUS
<1>5. o = t.offset + s * t.stride[d] /\ LengthOf(s, e) = e - s
  BY DEF OffsetOfStart, LengthOf
<1>6. v.offset = t.offset + s * t.stride[d] /\ v.shape = [t.shape EXCEPT ![d] = e - s]
  BY <1>4, <1>5
<1> HIDE DEF s, e, o, q, v
<1>7. ASSUME NEW n \in Nat, Within(t, 0..n - 1)
      PROVE  IsTensor(v) /\ Within(v, 0..n - 1)
  <2>1. s \in Nat /\ e \in Nat
    BY <1>2, <1>3
  <2>2. /\ IsTensor(t) /\ n \in Nat /\ Within(t, 0..n - 1) /\ d \in 1..Len(t.shape)
        /\ s \in Nat /\ e \in Nat /\ s <= e /\ e <= t.shape[d]
        /\ v.offset = t.offset + s * t.stride[d] /\ v.stride = t.stride
        /\ v.shape = [t.shape EXCEPT ![d] = e - s]
    BY <1>1, <1>3, <1>4, <1>6, <1>7, <2>1
  <2> HIDE DEF t
  <2> QED BY ONLY <2>2, SliceWithin
<1> QED BY <1>3, <1>7, ViewStep DEF v

LEMMA SelectStep ==
  ASSUME ViewsInv, NEW x \in Tensor, NEW d \in DOMAIN tensors[x].shape,
         NEW index \in Int, Select(x, d, index)
  PROVE  ViewsInv'
<1> DEFINE t == tensors[x]
           i == normalize_index(index, t.shape[d])
           o == OffsetOfStart(t, d, i)
           q == RemoveAt(t.shape, d)
           w == RemoveAt(t.stride, d)
           v == [storage |-> t.storage, offset |-> o, shape |-> q, stride |-> w]
<1>1. IsTensor(t) /\ d \in 1..Len(t.shape) /\ t.shape[d] \in Nat
  BY TensorFacts
<1>2. i \in Int
  BY <1>1 DEF normalize_index
<1>3. 0 <= i /\ i < t.shape[d] /\ NewView(t, o, q, w)
  BY DEF Select, DropStride
<1>4. v.offset = t.offset + i * t.stride[d] /\ v.shape = RemoveAt(t.shape, d)
      /\ v.stride = RemoveAt(t.stride, d)
  BY DEF OffsetOfStart
<1> HIDE DEF i, o, q, w, v
<1>5. ASSUME NEW n \in Nat, Within(t, 0..n - 1)
      PROVE  IsTensor(v) /\ Within(v, 0..n - 1)
  <2>1. i \in Nat
    BY <1>2, <1>3
  <2> QED BY <1>1, <1>3, <1>4, <1>5, <2>1, SelectWithin
<1> QED BY <1>3, <1>5, ViewStep DEF v

LEMMA PermuteStep ==
  ASSUME ViewsInv, NEW x \in Tensor,
         NEW dims \in [DOMAIN tensors[x].shape -> DOMAIN tensors[x].shape],
         \A a, b \in DOMAIN tensors[x].shape : dims[a] = dims[b] => a = b,
         Permute(x, dims)
  PROVE  ViewsInv'
<1> DEFINE t == tensors[x]
           q == [d \in DOMAIN dims |-> t.shape[dims[d]]]
           w == [d \in DOMAIN dims |-> t.stride[dims[d]]]
           v == [storage |-> t.storage, offset |-> t.offset, shape |-> q, stride |-> w]
<1>1. IsTensor(t) /\ DOMAIN t.shape = 1..Len(t.shape)
  BY TensorFacts
<1>2. IsPermutation(dims, Len(t.shape))
  BY <1>1 DEF IsPermutation
<1>3. NewView(t, t.offset, q, w)
  BY DEF Permute
<1>4. v.offset = t.offset /\ v.shape = q /\ v.stride = w
  OBVIOUS
<1> HIDE DEF v
<1>5. ASSUME NEW n \in Nat, Within(t, 0..n - 1)
      PROVE  IsTensor(v) /\ Within(v, 0..n - 1)
  <2>1. /\ IsTensor(t) /\ n \in Nat /\ Within(t, 0..n - 1)
        /\ IsPermutation(dims, Len(t.shape)) /\ v.offset = t.offset
        /\ v.shape = [d \in DOMAIN dims |-> t.shape[dims[d]]]
        /\ v.stride = [d \in DOMAIN dims |-> t.stride[dims[d]]]
    BY <1>1, <1>2, <1>4, <1>5
  <2> HIDE DEF t
  <2> QED BY ONLY <2>1, PermuteWithin
<1> HIDE DEF q, w
<1> QED BY <1>3, <1>5, ViewStep DEF v

(* That the tensor is contiguous is not needed for this.                   *)
LEMMA ReshapeStep ==
  ASSUME ViewsInv, NEW x \in Tensor, NEW shape \in Seq(Nat), Reshape(x, shape)
  PROVE  ViewsInv'
<1> DEFINE t == tensors[x]
           w == compute_row_major(shape)
           v == [storage |-> t.storage, offset |-> t.offset, shape |-> shape, stride |-> w]
<1>1. IsTensor(t) /\ t.offset \in Nat
  BY TensorFacts DEF IsTensor
<1>2. numel(shape) = numel(t.shape) /\ NewView(t, t.offset, shape, w)
  BY DEF Reshape
<1>3. v.offset = t.offset /\ v.shape = shape /\ v.stride = compute_row_major(shape)
  OBVIOUS
<1> HIDE DEF v
<1>4. ASSUME NEW n \in Nat, Within(t, 0..n - 1)
      PROVE  IsTensor(v) /\ Within(v, 0..n - 1)
  <2>1. ReadsIn(v, 0..n - 1)
    BY <1>2, <1>3, <1>4 DEF Within, ReadsIn
  <2> QED BY <1>1, <1>3, <2>1, RowMajorWithin
<1> HIDE DEF w
<1> QED BY <1>2, <1>4, ViewStep DEF v

LEMMA FullStep ==
  ASSUME ViewsInv, NEW shape \in Seq(Nat), NEW value \in Int, Full(shape, value)
  PROVE  ViewsInv'
<1> DEFINE f == [k \in 0..numel(shape) - 1 |-> value]
<1>1. f \in [0..numel(shape) - 1 -> Int]
  OBVIOUS
<1>2. /\ Len(tensors) < MaxTensors /\ memory' = Append(memory, f) /\ writes' = writes
      /\ tensors' = Append(tensors, [storage |-> Len(memory) + 1, offset |-> 0,
                             shape |-> shape, stride |-> compute_row_major(shape)])
  BY DEF Full, Result
<1> HIDE DEF f
<1> QED BY <1>1, <1>2, FreshStep

LEMMA CountIsNatural ==
  ASSUME NEW start \in Int, NEW end \in Int, NEW step \in Int, step # 0
  PROVE  Count(start, end, step) \in Nat
<1>1. ASSUME NEW n \in Int, NEW d \in Int, n > 0, d > 0 PROVE RoundUp(n, d) \in Nat
  <2> DEFINE a == n + d - 1
  <2>1. a \in Nat /\ d \in Nat \ {0}
    BY <1>1
  <2> HIDE DEF a
  <2>2. a \div d \in Nat
    BY <2>1, Quotient
  <2> QED BY <2>2 DEF RoundUp, a
<1>2. CASE step > 0 /\ end > start
  BY <1>1, <1>2 DEF Count
<1>3. CASE ~(step > 0) /\ start > end
  <2>1. -step \in Int /\ -step > 0 /\ start - end \in Int /\ start - end > 0
    BY <1>3
  <2>2. RoundUp(start - end, -step) \in Nat
    BY <1>1, <2>1
  <2> QED BY <1>3, <2>2 DEF Count
<1> QED BY <1>2, <1>3 DEF Count

LEMMA ArangeStep ==
  ASSUME ViewsInv, NEW start \in Int, NEW end \in Int, NEW step \in Int,
         Arange(start, end, step)
  PROVE  ViewsInv'
<1> DEFINE n == Count(start, end, step)
           shape == <<n>>
           f == [k \in 0..numel(shape) - 1 |-> start + k * step]
<1>1. step # 0
  BY DEF Arange
<1>2. n \in Nat
  BY <1>1, CountIsNatural
<1>3. /\ Len(tensors) < MaxTensors /\ memory' = Append(memory, f) /\ writes' = writes
      /\ tensors' = Append(tensors, [storage |-> Len(memory) + 1, offset |-> 0,
                             shape |-> shape, stride |-> compute_row_major(shape)])
  BY DEF Arange, Result
<1> HIDE DEF n
<1>4. shape \in Seq(Nat)
  BY <1>2, Singles
<1> HIDE DEF shape
<1>5. f \in [0..numel(shape) - 1 -> Int]
  <2>1. \A k \in 0..numel(shape) - 1 : start + k * step \in Int
    BY <1>4, NumelFacts
  <2> QED BY <2>1
<1> HIDE DEF f
<1> QED BY <1>3, <1>4, <1>5, FreshStep

LEMMA ElementwiseIsInt ==
  ASSUME NEW op \in {"add", "sub", "mul", "relu"}, NEW a \in Int, NEW b \in Int
  PROVE  Elementwise(op, a, b) \in Int
BY DEF Elementwise

LEMMA CopyStep ==
  ASSUME ViewsInv, NEW x \in Tensor, CopyTo(x)
  PROVE  ViewsInv'
<1> DEFINE shape == tensors[x].shape
           f == [k \in 0..numel(shape) - 1 |-> At(tensors[x], k)]
<1>1. shape \in Seq(Nat) /\ f \in [0..numel(shape) - 1 -> Int]
  BY AtIsInt
<1>2. /\ Len(tensors) < MaxTensors /\ memory' = Append(memory, f) /\ writes' = writes
      /\ tensors' = Append(tensors, [storage |-> Len(memory) + 1, offset |-> 0,
                             shape |-> shape, stride |-> compute_row_major(shape)])
  BY DEF CopyTo, Result
<1> HIDE DEF f, shape
<1> QED BY <1>1, <1>2, FreshStep

LEMMA ActivationStep ==
  ASSUME ViewsInv, NEW x \in Tensor, Activation(x)
  PROVE  ViewsInv'
<1> DEFINE t == tensors[x]
           shape == t.shape
           f == [k \in 0..numel(shape) - 1 |-> Elementwise("relu", At(t, k), At(t, k))]
<1>1. shape \in Seq(Nat) /\ \A k \in 0..numel(shape) - 1 : At(t, k) \in Int
  BY AtIsInt
<1>2. /\ Len(tensors) < MaxTensors /\ memory' = Append(memory, f) /\ writes' = writes
      /\ tensors' = Append(tensors, [storage |-> Len(memory) + 1, offset |-> 0,
                             shape |-> shape, stride |-> compute_row_major(shape)])
  BY DEF Activation, Result
<1> HIDE DEF shape, t
<1>3. \A k \in 0..numel(shape) - 1 : Elementwise("relu", At(t, k), At(t, k)) \in Int
  BY <1>1, ElementwiseIsInt
<1>4. f \in [0..numel(shape) - 1 -> Int]
  BY <1>3
<1> HIDE DEF f
<1> QED BY <1>1, <1>2, <1>4, FreshStep DEF shape

LEMMA BinaryStep ==
  ASSUME ViewsInv, NEW x \in Tensor, NEW y \in Tensor, NEW op \in {"add", "sub", "mul"},
         Binary(op, x, y)
  PROVE  ViewsInv'
<1> DEFINE t == tensors[x]
           u == tensors[y]
           shape == t.shape
           f == [k \in 0..numel(shape) - 1 |-> Elementwise(op, At(t, k), At(u, k))]
<1>1. /\ shape \in Seq(Nat) /\ \A k \in 0..numel(shape) - 1 : At(t, k) \in Int
      /\ \A k \in 0..numel(u.shape) - 1 : At(u, k) \in Int
  BY AtIsInt
<1>2. /\ shape = u.shape
      /\ Len(tensors) < MaxTensors /\ memory' = Append(memory, f) /\ writes' = writes
      /\ tensors' = Append(tensors, [storage |-> Len(memory) + 1, offset |-> 0,
                             shape |-> shape, stride |-> compute_row_major(shape)])
  BY DEF Binary, Result
<1> HIDE DEF shape, t, u
<1>3. \A k \in 0..numel(shape) - 1 : Elementwise(op, At(t, k), At(u, k)) \in Int
  BY <1>1, <1>2, ElementwiseIsInt
<1>4. f \in [0..numel(shape) - 1 -> Int]
  BY <1>3
<1> HIDE DEF f
<1> QED BY <1>1, <1>2, <1>4, FreshStep DEF shape

LEMMA SumOverInterval ==
  ASSUME NEW a \in Int, NEW b \in Int, NEW f \in [a..b -> Int]
  PROVE  SumFunction(f) \in Int
<1> DEFINE S == a..b
<1>1. IsFiniteSet(S)
  BY IntervalFinite
<1>2. f \in [S -> Int]
  OBVIOUS
<1> HIDE DEF S
<1> QED BY <1>1, <1>2, SumIsInteger

LEMMA MatmulStep ==
  ASSUME ViewsInv, NEW x \in Tensor, NEW y \in Tensor, Matmul(x, y)
  PROVE  ViewsInv'
<1> DEFINE a == tensors[x]
           b == tensors[y]
           M == a.shape[1]
           K == a.shape[2]
           N == b.shape[2]
           shape == <<M, N>>
           At2(o, k) == At(a, (o \div N) * K + k) * At(b, k * N + (o % N))
           g(o) == [k \in 0..K - 1 |-> At2(o, k)]
           f == [o \in 0..numel(shape) - 1 |-> SumFunction(g(o))]
<1>1. Len(a.shape) = 2 /\ Len(b.shape) = 2 /\ a.shape[2] = b.shape[1]
  BY DEF Matmul
<1>2. /\ a.shape \in Seq(Nat) /\ \A k \in 0..numel(a.shape) - 1 : At(a, k) \in Int
      /\ b.shape \in Seq(Nat) /\ \A k \in 0..numel(b.shape) - 1 : At(b, k) \in Int
  BY AtIsInt
<1>3. /\ Len(tensors) < MaxTensors /\ memory' = Append(memory, f) /\ writes' = writes
      /\ tensors' = Append(tensors, [storage |-> Len(memory) + 1, offset |-> 0,
                             shape |-> shape, stride |-> compute_row_major(shape)])
  BY DEF Matmul, Result
<1> HIDE DEF a, b
<1>4. /\ M \in Nat /\ K \in Nat /\ N \in Nat
      /\ numel(a.shape) = M * K /\ numel(b.shape) = K * N
  BY <1>1, <1>2, ProductOfTwo
<1> HIDE DEF M, K, N
<1>5. shape \in Seq(Nat) /\ numel(shape) = M * N
  <2>1. shape \in Seq(Nat) /\ Len(shape) = 2 /\ shape[1] = M /\ shape[2] = N
    BY <1>4, Pairs
  <2> HIDE DEF shape
  <2> QED BY <2>1, ProductOfTwo
<1> HIDE DEF shape, At2
<1>6. ASSUME NEW o \in 0..M * N - 1, NEW k \in 0..K - 1
      PROVE  At2(o, k) \in Int
  <2> DEFINE i == o \div N
             j == o % N
             u == i * K + k
             v == k * N + j
  <2>1. i \in 0..M - 1 /\ j \in 0..N - 1
    BY <1>4, RowColumnOf
  <2> HIDE DEF i, j
  <2>2. u \in 0..M * K - 1 /\ v \in 0..K * N - 1
    BY <1>4, <2>1, RowColumn
  <2>3. At2(o, k) = At(a, u) * At(b, v)
    BY DEF At2, i, j
  <2> HIDE DEF u, v
  <2>4. At(a, u) \in Int /\ At(b, v) \in Int
    BY <1>2, <1>4, <2>2
  <2> QED BY <2>3, <2>4
<1>7. ASSUME NEW o \in 0..M * N - 1 PROVE SumFunction(g(o)) \in Int
  <2>1. g(o) \in [0..K - 1 -> Int]
    BY <1>6
  <2>2. K - 1 \in Int
    BY <1>4
  <2> HIDE DEF g
  <2> QED BY <2>1, <2>2, SumOverInterval
<1> HIDE DEF g
<1>8. f \in [0..numel(shape) - 1 -> Int]
  BY <1>5, <1>7
<1> HIDE DEF f
<1> QED BY <1>3, <1>5, <1>8, FreshStep

(* A row holds as many elements as the last dimension is long, all of the  *)
(* tensor.                                                                 *)
LEMMA RowFacts ==
  ASSUME ViewsInv, NEW x \in Tensor, tensors[x].shape # <<>>,
         tensors[x].shape[Len(tensors[x].shape)] # 0,
         NEW k \in 0..numel(tensors[x].shape) - 1
  PROVE  SumFunction(Row(tensors[x], k)) \in Int /\ Len(Row(tensors[x], k)) \in Nat
<1> DEFINE t == tensors[x]
           q == t.shape
           n == Len(q)
           inner == q[n]
           m == Ahead(q, n)
<1>1. q \in Seq(Nat) /\ \A e \in 0..numel(q) - 1 : At(t, e) \in Int
  BY AtIsInt
<1>2. q # <<>> /\ inner # 0 /\ k \in 0..numel(q) - 1
  OBVIOUS
<1>3. Row(t, k) = [j \in 1..inner |-> At(t, (k \div inner) * inner + j - 1)]
  BY DEF Row
<1> HIDE DEF t, q
<1>4. n \in 1..Len(q)
  BY <1>1, <1>2
<1>5. m \in Nat /\ inner \in Nat /\ Product(q) = m * (inner * Behind(q, n)) /\ Behind(q, n) = 1
  BY <1>1, <1>4, ProductAt, BehindFacts
<1>6. numel(q) = m * inner
  <2>1. inner * 1 = inner
    BY <1>5
  <2> QED BY <1>1, <1>2, <1>5, <2>1, NumelFacts
<1> HIDE DEF n, inner, m
<1>7. ASSUME NEW j \in 1..inner PROVE At(t, (k \div inner) * inner + j - 1) \in Int
  <2> DEFINE i == k \div inner
             b == j - 1
             u == i * inner + b
  <2>1. i \in 0..m - 1
    BY <1>2, <1>5, <1>6, RowColumnOf
  <2>2. b \in 0..inner - 1
    BY <1>5
  <2> HIDE DEF i, b
  <2>3. u \in 0..numel(q) - 1 /\ i * inner \in Int /\ b \in Int
    BY <1>5, <1>6, <2>1, <2>2, RowColumn
  <2>4. i * inner + j - 1 = u
    <3> DEFINE c == i * inner
    <3>1. c \in Int
      BY <2>3
    <3> HIDE DEF c
    <3>2. c + j - 1 = c + b
      BY <3>1 DEF b
    <3> QED BY <3>2 DEF c
  <2> HIDE DEF u
  <2>5. At(t, u) \in Int
    BY <1>1, <2>3
  <2> QED BY <2>4, <2>5 DEF i
<1> DEFINE r == Row(t, k)
<1>8. r \in [1..inner -> Int]
  BY <1>3, <1>7
<1> HIDE DEF r
<1>9. SumFunction(r) \in Int /\ Len(r) \in Nat
  <2>1. SumFunction(r) \in Int
    BY <1>5, <1>8, SumOverInterval
  <2>2. Len(r) \in Nat
    BY <1>5, <1>8
  <2> QED BY <2>1, <2>2
<1> QED BY <1>9 DEF r, t

LEMMA SoftmaxStep ==
  ASSUME ViewsInv, NEW x \in Tensor, Softmax(x)
  PROVE  ViewsInv'
<1> DEFINE t == tensors[x]
           shape == t.shape
           f == [k \in 0..numel(shape) - 1 |-> Rowwise("softmax", At(t, k), Row(t, k))]
<1>1. shape # <<>> /\ shape[Len(shape)] # 0
  BY DEF Softmax
<1>2. shape \in Seq(Nat) /\ \A k \in 0..numel(shape) - 1 : At(t, k) \in Int
  BY AtIsInt
<1>3. /\ Len(tensors) < MaxTensors /\ memory' = Append(memory, f) /\ writes' = writes
      /\ tensors' = Append(tensors, [storage |-> Len(memory) + 1, offset |-> 0,
                             shape |-> shape, stride |-> compute_row_major(shape)])
  BY DEF Softmax, Result
<1>4. ASSUME NEW k \in 0..numel(shape) - 1 PROVE SumFunction(Row(t, k)) \in Int
  BY <1>1, RowFacts
<1> HIDE DEF shape, t
<1>5. \A k \in 0..numel(shape) - 1 : Rowwise("softmax", At(t, k), Row(t, k)) \in Int
  BY <1>2, <1>4 DEF Rowwise
<1>6. f \in [0..numel(shape) - 1 -> Int]
  BY <1>5
<1> HIDE DEF f
<1> QED BY <1>2, <1>3, <1>6, FreshStep

LEMMA LayerNormStep ==
  ASSUME ViewsInv, NEW x \in Tensor, NEW y \in Tensor, NEW z \in Tensor, LayerNorm(x, y, z)
  PROVE  ViewsInv'
<1> DEFINE t == tensors[x]
           g == tensors[y]
           b == tensors[z]
           shape == t.shape
           n == shape[2]
           e(k) == Rowwise("layer_norm", At(t, k), Row(t, k)) * At(g, k % n) + At(b, k % n)
           f == [k \in 0..numel(shape) - 1 |-> e(k)]
<1>1. Len(shape) = 2 /\ numel(g.shape) = n /\ numel(b.shape) = n
  BY DEF LayerNorm
<1>2. /\ shape \in Seq(Nat) /\ \A k \in 0..numel(shape) - 1 : At(t, k) \in Int
      /\ \A k \in 0..numel(g.shape) - 1 : At(g, k) \in Int
      /\ \A k \in 0..numel(b.shape) - 1 : At(b, k) \in Int
  BY AtIsInt
<1>3. /\ Len(tensors) < MaxTensors /\ memory' = Append(memory, f) /\ writes' = writes
      /\ tensors' = Append(tensors, [storage |-> Len(memory) + 1, offset |-> 0,
                             shape |-> shape, stride |-> compute_row_major(shape)])
  BY DEF LayerNorm, Result
<1>4. shape[1] \in Nat /\ n \in Nat /\ numel(shape) = shape[1] * n
  BY <1>1, <1>2, ProductOfTwo
<1>5. ASSUME NEW k \in 0..numel(shape) - 1
      PROVE  SumFunction(Row(t, k)) \in Int /\ Len(Row(t, k)) \in Nat /\ k % n \in 0..n - 1
  <2>1. n # 0 /\ k % n \in 0..n - 1
    BY <1>4, RowColumnOf
  <2>2. shape # <<>> /\ shape[Len(shape)] # 0
    <3> DEFINE c == Len(shape)
    <3>1. c # 0
      BY <1>1
    <3>2. c = 2
      BY <1>1
    <3> HIDE DEF c
    <3>3. shape = <<>> => c = 0
      BY DEF c
    <3> QED BY <2>1, <3>1, <3>2, <3>3 DEF c
  <2> QED BY <2>1, <2>2, RowFacts
<1> HIDE DEF t, g, b, n, shape
<1>6. ASSUME NEW k \in 0..numel(shape) - 1 PROVE e(k) \in Int
  <2> DEFINE s == SumFunction(Row(t, k))
             l == Len(Row(t, k))
             c == k % n
  <2>1. s \in Int /\ l \in Int /\ c \in 0..n - 1
    BY <1>5
  <2> HIDE DEF s, l, c
  <2>2. At(t, k) \in Int /\ At(g, c) \in Int /\ At(b, c) \in Int
    BY <1>1, <1>2, <2>1
  <2>3. Rowwise("layer_norm", At(t, k), Row(t, k)) = l * At(t, k) - s
    BY DEF Rowwise, s, l
  <2>4. e(k) = (l * At(t, k) - s) * At(g, c) + At(b, c)
    BY <2>3 DEF c
  <2> HIDE DEF e
  <2> QED BY <2>1, <2>2, <2>4
<1> HIDE DEF e
<1>7. f \in [0..numel(shape) - 1 -> Int]
  BY <1>6
<1> HIDE DEF f
<1> QED BY <1>2, <1>3, <1>7, FreshStep

LEMMA MeanStep ==
  ASSUME ViewsInv, NEW x \in Tensor, Mean(x)
  PROVE  ViewsInv'
<1> DEFINE t == tensors[x]
           b == numel(t.shape) - 1
           g == [k \in 0..b |-> At(t, k)]
           shape == <<1>>
           f == [o \in 0..numel(shape) - 1 |-> SumFunction(g)]
<1>1. numel(t.shape) \in Nat /\ \A k \in 0..b : At(t, k) \in Int
  BY AtIsInt
<1>2. /\ Len(tensors) < MaxTensors /\ memory' = Append(memory, f) /\ writes' = writes
      /\ tensors' = Append(tensors, [storage |-> Len(memory) + 1, offset |-> 0,
                             shape |-> shape, stride |-> compute_row_major(shape)])
  BY DEF Mean, Result
<1>3. shape \in Seq(Nat)
  BY Singles
<1>4. b \in Int
  BY <1>1
<1> HIDE DEF b, t, shape
<1>5. SumFunction(g) \in Int
  <2>1. g \in [0..b -> Int]
    BY <1>1
  <2> HIDE DEF g
  <2> QED BY <1>4, <2>1, SumOverInterval
<1> HIDE DEF g
<1>6. f \in [0..numel(shape) - 1 -> Int]
  BY <1>5
<1> HIDE DEF f
<1> QED BY <1>2, <1>3, <1>6, FreshStep

IsSwapped(r, s, n, d, e) ==
  /\ r \in [1..n -> Nat] /\ r[d] = s[e] /\ r[e] = s[d]
  /\ \A c \in 1..n : c # d /\ c # e => r[c] = s[c]

LEMMA SwapFacts ==
  ASSUME NEW n \in Nat, NEW s \in [1..n -> Nat], NEW d \in 1..n, NEW e \in 1..n
  PROVE  IsSwapped(Swap(s, d, e), s, n, d, e)
BY DEF Swap, IsSwapped

LEMMA TransposeStep ==
  ASSUME ViewsInv, NEW x \in Tensor, NEW d \in DOMAIN tensors[x].shape,
         NEW e \in DOMAIN tensors[x].shape, TransposeCopy(x, d, e)
  PROVE  ViewsInv'
<1> DEFINE t == tensors[x]
           q == t.shape
           n == Len(q)
           shape == Swap(q, d, e)
           To(k) == Position(compute_row_major(q), Swap(Unflatten(shape, k), d, e))
           f == [k \in 0..numel(shape) - 1 |-> At(t, To(k))]
<1>1. q \in Seq(Nat) /\ \A k \in 0..numel(q) - 1 : At(t, k) \in Int
  BY AtIsInt
<1>2. n \in Nat /\ DOMAIN q = 1..n /\ q \in [1..n -> Nat]
  BY <1>1, SequenceFacts
<1>3. d \in 1..n /\ e \in 1..n
  BY <1>2
<1>4. /\ Len(tensors) < MaxTensors /\ memory' = Append(memory, f) /\ writes' = writes
      /\ tensors' = Append(tensors, [storage |-> Len(memory) + 1, offset |-> 0,
                             shape |-> shape, stride |-> compute_row_major(shape)])
  BY DEF TransposeCopy, Result
<1> HIDE DEF t, q, n
<1>5. /\ shape \in [1..n -> Nat] /\ shape[d] = q[e] /\ shape[e] = q[d]
      /\ \A c \in 1..n : c # d /\ c # e => shape[c] = q[c]
  <2>1. IsSwapped(shape, q, n, d, e)
    BY <1>2, <1>3, SwapFacts
  <2> QED BY <2>1 DEF IsSwapped
<1> HIDE DEF shape
<1>6. shape \in Seq(Nat) /\ Len(shape) = n
  BY <1>2, <1>5, FunctionIsSequence
<1>7. shape # <<>> /\ q # <<>>
  <2>1. n # 0
    BY <1>2, <1>3
  <2>2. (shape = <<>> => n = 0) /\ (q = <<>> => n = 0)
    BY <1>6 DEF n
  <2> QED BY <2>1, <2>2
<1>8. ASSUME NEW k \in 0..numel(shape) - 1 PROVE At(t, To(k)) \in Int
  <2> DEFINE i == Unflatten(shape, k)
             j == Swap(i, d, e)
  <2>1. i \in Box(shape)
    BY <1>6, <1>7, IndexOfNumber, NumelFacts
  <2> HIDE DEF i
  <2>2. i \in [1..n -> Nat] /\ \A c \in 1..n : i[c] < shape[c]
    BY <1>6, <2>1, BoxOf
  <2>3. /\ j \in [1..n -> Nat] /\ j[d] = i[e] /\ j[e] = i[d]
        /\ \A c \in 1..n : c # d /\ c # e => j[c] = i[c]
    <3>1. IsSwapped(j, i, n, d, e)
      BY <1>2, <1>3, <2>2, SwapFacts
    <3> QED BY <3>1 DEF IsSwapped
  <2> HIDE DEF j
  <2>4. \A c \in 1..n : j[c] < q[c]
    BY <1>3, <1>5, <2>2, <2>3
  <2>5. j \in Box(q)
    BY <1>1, <2>3, <2>4, BoxOf DEF n
  <2>6. Position(RowMajor(q), j) \in 0..Product(q) - 1 /\ numel(q) = Product(q)
    BY <1>1, <1>7, <2>5, NumberOfIndex, NumelFacts
  <2>7. To(k) = Position(RowMajor(q), j)
    BY DEF compute_row_major, i, j
  <2> HIDE DEF To
  <2> QED BY <1>1, <2>6, <2>7
<1> HIDE DEF To
<1>9. f \in [0..numel(shape) - 1 -> Int]
  BY <1>8
<1> HIDE DEF f
<1> QED BY <1>4, <1>6, <1>9, FreshStep

LEMMA SumStep ==
  ASSUME ViewsInv, NEW x \in Tensor, NEW d \in DOMAIN tensors[x].shape,
         NEW keepdim \in BOOLEAN, SumOver(x, d, keepdim)
  PROVE  ViewsInv'
<1> DEFINE t == tensors[x]
           q == t.shape
           l == q[d]
           a == Ahead(q, d)
           inner == Product(SubSeq(q, d + 1, Len(q)))
           dims == IF keepdim THEN [q EXCEPT ![d] = 1] ELSE RemoveAt(q, d)
           To(o, k) == (o \div inner) * inner * l + k * inner + (o % inner)
           g(o) == [k \in 0..l - 1 |-> At(t, To(o, k))]
           f == [o \in 0..numel(dims) - 1 |-> SumFunction(g(o))]
<1>1. q \in Seq(Nat) /\ \A k \in 0..numel(q) - 1 : At(t, k) \in Int
  BY AtIsInt
<1>2. /\ Len(tensors) < MaxTensors /\ memory' = Append(memory, f) /\ writes' = writes
      /\ tensors' = Append(tensors, [storage |-> Len(memory) + 1, offset |-> 0,
                             shape |-> dims, stride |-> compute_row_major(dims)])
  BY DEF SumOver, Result
<1>3. d \in 1..Len(q)
  BY TensorFacts
<1> HIDE DEF t, q
<1>4. inner = Behind(q, d)
  BY DEF Behind
<1>5. dims \in Seq(Nat) /\ Product(dims) = a * inner
  <2>1. CASE keepdim
    <3>1. [q EXCEPT ![d] = 1] \in Seq(Nat)
      BY <1>1, <1>3, OtherLength
    <3>2. Product([q EXCEPT ![d] = 1]) = a * inner
      BY <1>1, <1>3, <1>4, ProductOfOther
    <3> QED BY <2>1, <3>1, <3>2
  <2>2. CASE ~keepdim
    <3>1. RemoveAt(q, d) \in Seq(Nat)
      BY <1>1, <1>3, RemoveAtFacts
    <3>2. Product(RemoveAt(q, d)) = a * inner
      BY <1>1, <1>3, <1>4, ProductRemoved
    <3> QED BY <2>2, <3>1, <3>2
  <2> QED BY <2>1, <2>2
<1>6. a \in Nat /\ inner \in Nat /\ l \in Nat /\ Product(q) = a * (l * inner)
  BY <1>1, <1>3, <1>4, ProductAt
<1>7. numel(q) = a * (l * inner)
  <2>1. q # <<>>
    <3> DEFINE n == Len(q)
    <3>1. n # 0
      BY <1>1, <1>3
    <3> HIDE DEF n
    <3>2. q = <<>> => n = 0
      BY DEF n
    <3> QED BY <3>1, <3>2
  <2> QED BY <1>1, <1>6, <2>1, NumelFacts
<1> HIDE DEF dims, a, inner, l
<1>8. ASSUME NEW o \in 0..numel(dims) - 1 PROVE o \in 0..a * inner - 1
  <2>1. dims # <<>>
    <3> SUFFICES ASSUME dims = <<>> PROVE FALSE
      OBVIOUS
    <3>1. numel(dims) = 0
      BY <1>5, NumelFacts
    <3> QED BY <3>1
  <2>2. numel(dims) = a * inner
    BY <1>5, <2>1, NumelFacts
  <2> QED BY <2>2
<1>9. ASSUME NEW o \in 0..numel(dims) - 1, NEW k \in 0..l - 1
      PROVE  At(t, To(o, k)) \in Int
  <2> DEFINE i == o \div inner
             r == o % inner
             m == l * inner
             u == k * inner + r
             v == i * m + u
  <2>1. i \in 0..a - 1 /\ r \in 0..inner - 1
    BY <1>6, <1>8, RowColumnOf
  <2>2. To(o, k) = i * inner * l + k * inner + r
    OBVIOUS
  <2> HIDE DEF i, r, To
  <2>3. u \in 0..m - 1
    BY <1>6, <2>1, RowColumn
  <2>4. m \in Nat
    BY <1>6
  <2>5. numel(q) = a * m
    BY <1>7
  <2>6. To(o, k) = i * m + u
    <3> DEFINE b == i * inner * l
               c == k * inner
    <3>1. i \in Nat /\ k \in Nat
      BY <1>6, <2>1
    <3>2. b = i * (inner * l) /\ inner * l = l * inner
      BY <1>6, <3>1, TimesAssociates
    <3>3. b \in Nat /\ c \in Nat
      BY <1>6, <3>1
    <3>4. b = i * m
      BY <3>2
    <3>5. b + c + r = b + (c + r)
      <4> HIDE DEF b, c
      <4> QED BY <2>1, <3>3
    <3> QED BY <2>2, <3>4, <3>5
  <2> HIDE DEF u, m
  <2>7. v \in 0..a * m - 1
    BY <1>6, <2>1, <2>3, <2>4, RowColumn
  <2> QED BY <1>1, <2>5, <2>6, <2>7
<1> HIDE DEF To
<1>10. ASSUME NEW o \in 0..numel(dims) - 1 PROVE SumFunction(g(o)) \in Int
  <2>1. g(o) \in [0..l - 1 -> Int]
    BY <1>9
  <2>2. l - 1 \in Int
    BY <1>6
  <2> HIDE DEF g
  <2> QED BY <2>1, <2>2, SumOverInterval
<1> HIDE DEF g
<1>11. f \in [0..numel(dims) - 1 -> Int]
  BY <1>10
<1> HIDE DEF f
<1> QED BY <1>2, <1>5, <1>11, FreshStep

LEMMA ReplaceFacts ==
  ASSUME NEW S, NEW q \in Seq(S), NEW d \in 1..Len(q), NEW e \in S
  PROVE  /\ [q EXCEPT ![d] = e] \in Seq(S) /\ Len([q EXCEPT ![d] = e]) = Len(q)
         /\ [q EXCEPT ![d] = e][d] = e
         /\ \A c \in 1..Len(q) : c # d => [q EXCEPT ![d] = e][c] = q[c]
OBVIOUS

LEMMA WriteStep ==
  ASSUME ViewsInv, NEW x \in Tensor, NEW k \in Nat, NEW value \in Int,
         WriteData(x, k, value)
  PROVE  ViewsInv'
<1> DEFINE s == tensors[x].storage
           a == tensors[x].offset + k
           f == [memory[s] EXCEPT ![a] = value]
<1>1. tensors \in Seq(Tensors) /\ memory \in Seq(Storages) /\ Len(memory) \in Nat
  BY LengthFacts DEF ViewsInv
<1>2. s \in 1..Len(memory)
  BY TensorFacts
<1>3. memory' = [memory EXCEPT ![s] = f] /\ tensors' = tensors
      /\ writes' = writes + 1 /\ writes < MaxWrites
  BY DEF WriteData
<1> HIDE DEF s, a
<1>4. memory[s] \in Storages
  BY <1>1, <1>2, MemberFacts
<1>5. PICK n \in Nat : memory[s] \in [0..n - 1 -> Int]
  BY <1>4 DEF Storages
<1>6. f \in [0..n - 1 -> Int] /\ DOMAIN f = DOMAIN memory[s]
  BY <1>5
<1>7. f \in Storages
  BY <1>6 DEF Storages
<1> HIDE DEF f
<1>8. /\ memory' \in Seq(Storages) /\ Len(memory') = Len(memory) /\ memory'[s] = f
      /\ \A c \in 1..Len(memory) : c # s => memory'[c] = memory[c]
  BY <1>1, <1>2, <1>3, <1>7, ReplaceFacts
<1>9. Counts'
  BY <1>3, ViewsAssumption DEF ViewsInv, Counts
<1>10. ASSUME NEW y \in 1..Len(tensors) PROVE Places(tensors[y], memory')
  <2> DEFINE t == tensors[y]
  <2>1. IsTensor(t) /\ t.storage \in 1..Len(memory) /\ Within(t, DOMAIN memory[t.storage])
    BY DEF ViewsInv, Places
  <2>2. DOMAIN memory'[t.storage] = DOMAIN memory[t.storage]
    BY <1>6, <1>8, <2>1
  <2> QED BY <1>8, <2>1, <2>2 DEF Places
<1> QED BY <1>1, <1>3, <1>8, <1>9, <1>10 DEF ViewsInv

LEMMA StutterStep ==
  ASSUME ViewsInv, UNCHANGED vars
  PROVE  ViewsInv'
<1>1. tensors' = tensors /\ memory' = memory /\ writes' = writes
  BY DEF vars
<1> QED BY <1>1 DEF ViewsInv, Counts

LEMMA MakeViewStep ==
  ASSUME ViewsInv, NEW x \in Tensor, MakeView(x)
  PROVE  ViewsInv'
<1> DEFINE D == DOMAIN tensors[x].shape
           n(d) == tensors[x].shape[d]
<1>1. Dims(x) = D /\ \A d \in D : n(d) \in Nat
  BY TensorFacts DEF Dims
<1>2. CASE \E d \in D : \E start, end \in -n(d)..n(d) : Slice(x, d, start, end)
  <2>1. PICK d \in D : \E start, end \in -n(d)..n(d) : Slice(x, d, start, end)
    BY <1>2
  <2>2. PICK start \in -n(d)..n(d), end \in -n(d)..n(d) : Slice(x, d, start, end)
    BY <2>1
  <2>3. start \in Int /\ end \in Int /\ slice(x, d, start, end)
    BY <2>2 DEF Slice
  <2> QED BY <2>3, SliceStep
<1>3. CASE \E d \in D : \E start \in -n(d)..n(d), length \in 0..n(d) :
             Narrow(x, d, start, length)
  <2>1. PICK d \in D : \E start \in -n(d)..n(d), length \in 0..n(d) :
               Narrow(x, d, start, length)
    BY <1>3
  <2>2. PICK start \in -n(d)..n(d), length \in 0..n(d) : Narrow(x, d, start, length)
    BY <2>1
  <2> DEFINE end == start + length
  <2>3. start \in Int /\ end \in Int /\ slice(x, d, start, end)
    BY <2>2 DEF Narrow
  <2> HIDE DEF end
  <2> QED BY <2>3, SliceStep
<1>4. CASE \E d \in D : \E index \in -n(d)..n(d) - 1 : Select(x, d, index)
  <2>1. PICK d \in D : \E index \in -n(d)..n(d) - 1 : Select(x, d, index)
    BY <1>4
  <2>2. PICK index \in -n(d)..n(d) - 1 : Select(x, d, index)
    BY <2>1
  <2>3. index \in Int
    BY <2>2
  <2> QED BY <2>2, <2>3, SelectStep
<1>5. CASE \E dims \in {p \in [D -> D] : \A i, j \in D : p[i] = p[j] => i = j} :
             Permute(x, dims)
  BY <1>5, PermuteStep
<1>6. CASE \E shape \in Reshapes : Reshape(x, shape)
  BY <1>6, ViewsAssumption, ReshapeStep
<1> QED BY <1>1, <1>2, <1>3, <1>4, <1>5, <1>6 DEF MakeView

LEMMA CreateStep ==
  ASSUME ViewsInv, Create
  PROVE  ViewsInv'
<1>1. CASE \E shape \in Fills, value \in {0, 1} : Full(shape, value)
  <2>1. PICK shape \in Fills, value \in {0, 1} : Full(shape, value)
    BY <1>1
  <2>2. shape \in Seq(Nat) /\ value \in Int
    BY ViewsAssumption
  <2> QED BY <2>1, <2>2, FullStep
<1>2. CASE \E r \in Ranges : Arange(r[1], r[2], r[3])
  <2>1. PICK r \in Ranges : Arange(r[1], r[2], r[3])
    BY <1>2
  <2>2. r \in Int \X Int \X Int
    BY ViewsAssumption
  <2>3. r[1] \in Int /\ r[2] \in Int /\ r[3] \in Int
    BY <2>2
  <2> QED BY <2>1, <2>3, ArangeStep
<1> QED BY <1>1, <1>2 DEF Create

LEMMA ComputeStep ==
  ASSUME ViewsInv, NEW x \in Tensor, Compute(x)
  PROVE  ViewsInv'
<1>1. CASE CopyTo(x) \/ Activation(x) \/ Softmax(x) \/ Mean(x)
  BY <1>1, CopyStep, ActivationStep, SoftmaxStep, MeanStep
<1>2. CASE \E y \in Tensor : \E op \in {"add", "sub", "mul"} : Binary(op, x, y)
  BY <1>2, BinaryStep
<1>3. CASE \E y \in Tensor : Matmul(x, y)
  BY <1>3, MatmulStep
<1>4. CASE \E y \in Tensor : \E z \in Tensor : LayerNorm(x, y, z)
  BY <1>4, LayerNormStep
<1>5. CASE \E d \in Dims(x) : \E keepdim \in BOOLEAN : SumOver(x, d, keepdim)
  BY <1>5, SumStep DEF Dims
<1>6. CASE \E d \in Dims(x) : \E d1 \in Dims(x) : TransposeCopy(x, d, d1)
  BY <1>6, TransposeStep DEF Dims
<1> QED BY <1>1, <1>2, <1>3, <1>4, <1>5, <1>6 DEF Compute

LEMMA ModifyStep ==
  ASSUME ViewsInv, NEW x \in Tensor, Modify(x)
  PROVE  ViewsInv'
<1>1. PICK k \in 0..numel(tensors[x].shape) - 1 : WriteData(x, k, 7)
  BY DEF Modify
<1>2. k \in Nat /\ 7 \in Int
  BY <1>1
<1> QED BY <1>1, <1>2, WriteStep

(* Every chain of calls keeps every tensor where its views and loops may   *)
(* reach: the invariant holds always.                                      *)
THEOREM ViewsInvariant == Spec => []ViewsInv
<1>1. Init => ViewsInv
  <2> SUFFICES ASSUME Init PROVE ViewsInv
    OBVIOUS
  <2>1. tensors = <<>> /\ memory = <<>> /\ writes = 0
    BY DEF Init
  <2>2. <<>> \in Seq(Tensors) /\ <<>> \in Seq(Storages) /\ Len(<<>>) = 0
    OBVIOUS
  <2>3. Counts
    BY <2>1, <2>2, ViewsAssumption DEF Counts
  <2> QED BY <2>1, <2>2, <2>3 DEF ViewsInv
<1>2. ViewsInv /\ [Next]_vars => ViewsInv'
  <2> SUFFICES ASSUME ViewsInv, [Next]_vars PROVE ViewsInv'
    OBVIOUS
  <2>1. CASE UNCHANGED vars
    BY <2>1, StutterStep
  <2>2. CASE Create
    BY <2>2, CreateStep
  <2>3. ASSUME NEW x \in Tensor, MakeView(x) PROVE ViewsInv'
    BY <2>3, MakeViewStep
  <2>4. ASSUME NEW x \in Tensor, Compute(x) PROVE ViewsInv'
    BY <2>4, ComputeStep
  <2>5. ASSUME NEW x \in Tensor, Modify(x) PROVE ViewsInv'
    BY <2>5, ModifyStep
  <2> QED BY <2>1, <2>2, <2>3, <2>4, <2>5 DEF Next
<1> QED BY <1>1, <1>2, PTL DEF Spec

(* Storage, offset, shape and stride of a tensor always fit together: its  *)
(* storage exists, a stride belongs to every length, none is negative, and *)
(* every element ever stored, also where the loops take a strided operand  *)
(* for a row-major one, is one that was computed.  (Tensor.cpp 22-619,     *)
(* slicing.cpp 24-74, shape_ops.cpp 12-77, factory.cpp 118-169)            *)
THEOREM TypeCorrect == Spec => []TypeOK
<1>1. ViewsInv => TypeOK
  <2> SUFFICES ASSUME ViewsInv PROVE TypeOK
    OBVIOUS
  <2>1. /\ tensors \in Seq(Tensors) /\ memory \in Seq(Storages)
        /\ Len(tensors) <= MaxTensors /\ writes \in 0..MaxWrites
        /\ DOMAIN memory = 1..Len(memory)
    BY LengthFacts DEF ViewsInv, Counts
  <2>2. ASSUME NEW s \in DOMAIN memory, NEW k \in DOMAIN memory[s]
        PROVE  memory[s][k] \in Int
    <3>1. memory[s] \in Storages
      BY <2>1, MemberFacts
    <3>2. PICK n \in Nat : memory[s] \in [0..n - 1 -> Int]
      BY <3>1 DEF Storages
    <3> QED BY <3>2
  <2>3. ASSUME NEW x \in Tensor
        PROVE  IsTensor(tensors[x]) /\ tensors[x].storage \in DOMAIN memory
    BY <2>1, TensorFacts
  <2> QED BY <2>1, <2>2, <2>3 DEF TypeOK, IsTensor
<1> QED BY <1>1, ViewsInvariant, PTL

(* However views of views are stacked, the elements of a tensor lie in its *)
(* storage and no two of them on one place.  (slicing.cpp 24-74,           *)
(* shape_ops.cpp 25-77)                                                    *)
THEOREM ViewsStayInStorage == Spec => []ElementsInStorage
<1>1. ViewsInv => ElementsInStorage
  <2> SUFFICES ASSUME ViewsInv, NEW x \in Tensor
               PROVE  LET t == tensors[x] IN
                        /\ \A i \in Indices(t.shape) : Address(t, i) \in DOMAIN memory[t.storage]
                        /\ \A i, j \in Indices(t.shape) : Address(t, i) = Address(t, j) => i = j
    BY DEF ElementsInStorage
  <2> DEFINE t == tensors[x]
             q == t.shape
             D == DOMAIN memory[t.storage]
  <2>1. tensors \in Seq(Tensors) /\ x \in 1..Len(tensors)
    BY LengthFacts DEF ViewsInv, Tensor
  <2>2. Places(t, memory)
    BY <2>1 DEF ViewsInv
  <2>3. q \in Seq(Nat) /\ Within(t, D)
    BY <2>2 DEF Places, IsTensor
  <2> HIDE DEF D
  <2>4. CASE q = <<>>
    <3>1. numel(q) = 0
      BY <2>3, <2>4, NumelFacts
    <3>2. Indices(q) = {}
      BY <3>1 DEF Indices
    <3> QED BY <3>2
  <2>5. CASE q # <<>>
    <3>1. AddressesIn(t, D)
      BY <2>3, <2>5 DEF Within
    <3>2. numel(q) = Product(q)
      BY <2>3, <2>5, NumelFacts
    <3>3. ASSUME NEW i \in Indices(q) PROVE i \in Box(q)
      <4> HIDE DEF q
      <4>1. PICK k \in 0..numel(q) - 1 : i = Unflatten(q, k)
        BY DEF Indices
      <4> QED BY <2>3, <3>2, <4>1, IndexOfNumber
    <3> QED BY <3>1, <3>3 DEF AddressesIn, D
  <2> QED BY <2>4, <2>5
<1> QED BY <1>1, ViewsInvariant, PTL

(* The operations ignore strides and read numel() elements from the offset *)
(* on: whatever the view, these are in its storage.  (Tensor.cpp 22-53,    *)
(* 227-249, 334-619)                                                       *)
THEOREM NothingReadPastTheEnd == Spec => []LinearReadsInStorage
<1>1. ViewsInv => LinearReadsInStorage
  <2> SUFFICES ASSUME ViewsInv, NEW x \in Tensor
               PROVE  ReadsIn(tensors[x], DOMAIN memory[tensors[x].storage])
    BY DEF LinearReadsInStorage, ReadsIn
  <2>1. tensors \in Seq(Tensors) /\ x \in 1..Len(tensors)
    BY LengthFacts DEF ViewsInv, Tensor
  <2>2. Places(tensors[x], memory)
    BY <2>1 DEF ViewsInv
  <2> QED BY <2>2 DEF Places, Within
<1> QED BY <1>1, ViewsInvariant, PTL

-----------------------------------------------------------------------------
(* Tensors behave as arrays do. Arrays is written with the operators of    *)
(* Shapes, which are the same in its instance.                             *)

LEMMA SameProduct == ASSUME NEW q PROVE A!Product(q) = Product(q)
BY DEF Product, A!Product, FoldLeft, A!FoldLeft, MapThenFoldSet, A!MapThenFoldSet, Max, A!Max

LEMMA SameRowMajor == ASSUME NEW q PROVE A!RowMajor(q) = RowMajor(q)
BY SameProduct DEF RowMajor, A!RowMajor

LEMMA SameUnflatten == ASSUME NEW q, NEW k PROVE A!Unflatten(q, k) = Unflatten(q, k)
BY SameRowMajor DEF Unflatten, A!Unflatten

LEMMA SameIndices == ASSUME NEW q PROVE A!Indices(q) = Indices(q)
BY SameProduct, SameUnflatten DEF Indices, A!Indices, A!numel, numel

LEMMA SamePosition == ASSUME NEW q, NEW i PROVE A!Position(q, i) = Position(q, i)
BY DEF Position, A!Position, FoldLeftDomain, A!FoldLeftDomain, FoldLeft, A!FoldLeft,
       MapThenFoldSet, A!MapThenFoldSet, Max, A!Max

LEMMA SameSequences ==
  ASSUME NEW s, NEW d, NEW e
  PROVE  /\ A!Last(s) = Last(s) /\ A!RemoveAt(s, d) = RemoveAt(s, d)
         /\ A!InsertAt(s, d, e) = InsertAt(s, d, e) /\ A!Swap(s, d, e) = Swap(s, d, e)
         /\ A!Range(s) = Range(s) /\ (A!IsInjective(s) <=> IsInjective(s))
BY DEF Last, A!Last, RemoveAt, A!RemoveAt, InsertAt, A!InsertAt, Swap, A!Swap, Range, A!Range,
       IsInjective, A!IsInjective

(* The last array shows the cells of a at the indices at(index). *)
NewArray == Last(AsArrays)

LEMMA SliceBridge ==
  ASSUME A!Appended, Contents' = Contents,
         call'.op = "slice",
         LET a == AsArrays[call'.of[1]]
             d == call'.by[1]
             start == A!FromEnd(call'.by[2], a.shape[d])
             new == NewArray'
             shape == [a.shape EXCEPT ![d] = A!FromEnd(call'.by[3], @) - start]
         IN /\ new.shape = shape
            /\ \A index \in Indices(shape) :
                 new.cell[index] = a.cell[[index EXCEPT ![d] = @ + start]]
  PROVE  A!Slice
<1>1. A!Appended
  OBVIOUS
<1> DEFINE a == AsArrays[call'.of[1]]
           d == call'.by[1]
           start == A!FromEnd(call'.by[2], a.shape[d])
           shape == [a.shape EXCEPT ![d] = A!FromEnd(call'.by[3], @) - start]
<1>2. UNCHANGED Contents
  OBVIOUS
<1>3. /\ NewArray'.shape = shape
      /\ \A index \in Indices(shape) :
           NewArray'.cell[index] = a.cell[[index EXCEPT ![d] = @ + start]]
  OBVIOUS
<1> HIDE DEF a, d, start, shape
<1>4. A!View(a, shape, LAMBDA index : [index EXCEPT ![d] = @ + start])
  BY ONLY <1>1, <1>2, <1>3, SameSequences, SameIndices DEF A!View, NewArray
<1> USE DEF a, d, start, shape
<1> QED BY <1>4 DEF A!Slice, A!Calls, A!Operand, A!Arg

(* The last array and the ones before it.                                  *)
LEMMA Appending ==
  ASSUME ViewsInv, NEW v \in Tensors, tensors' = Append(tensors, v)
  PROVE  A!Appended /\ NewArray' = ArrayOf(v)
<1> DEFINE n == Len(tensors)
<1>1. /\ tensors' \in Seq(Tensors) /\ Len(tensors') = n + 1 /\ n \in Nat
      /\ \A x \in 1..n : tensors'[x] = tensors[x]
      /\ tensors'[n + 1] = v
      /\ DOMAIN tensors = 1..n /\ DOMAIN tensors' = 1..n + 1
  <2>1. tensors \in Seq(Tensors)
    BY DEF ViewsInv
  <2>2. /\ tensors' \in Seq(Tensors) /\ Len(tensors') = n + 1 /\ n \in Nat
        /\ \A x \in 1..n : tensors'[x] = tensors[x]
        /\ tensors'[n + 1] = v
    BY <2>1, AppendFacts
  <2> QED BY <2>1, <2>2, LengthFacts
<1> DEFINE a == AsArrays
           b == AsArrays'
<1>2. /\ a = [x \in 1..n |-> ArrayOf(tensors[x])]
      /\ b = [x \in 1..n + 1 |-> ArrayOf(tensors'[x])]
  BY <1>1 DEF AsArrays, Tensor
<1> HIDE DEF n, a, b
<1>3. Len(a) = n /\ Len(b) = n + 1 /\ DOMAIN a = 1..n
  BY <1>1, <1>2
<1>4. \A x \in 1..n : b[x] = a[x]
  BY <1>1, <1>2
<1>5. b[n + 1] = ArrayOf(v)
  BY <1>1, <1>2
<1>6. A!Appended
  BY <1>3, <1>4 DEF A!Appended, a, b
<1>7. NewArray' = b[Len(b)]
  BY DEF NewArray, Last, b
<1> QED BY <1>3, <1>5, <1>6, <1>7

(* The indices of a shape are those of its box, none without dimension.    *)
LEMMA IndicesAreBox ==
  ASSUME NEW q \in Seq(Nat)
  PROVE  /\ q # <<>> => Indices(q) = Box(q) /\ numel(q) = Product(q)
         /\ q = <<>> => Indices(q) = {} /\ numel(q) = 0
<1>1. ASSUME q # <<>> PROVE Indices(q) = Box(q) /\ numel(q) = Product(q)
  <2>1. numel(q) = Product(q)
    BY <1>1, NumelFacts
  <2>2. ASSUME NEW i \in Indices(q) PROVE i \in Box(q)
    <3>1. PICK k \in 0..Product(q) - 1 : i = Unflatten(q, k)
      BY <2>1 DEF Indices
    <3> QED BY <3>1, IndexOfNumber
  <2>3. ASSUME NEW i \in Box(q) PROVE i \in Indices(q)
    BY <2>1, NumberOfIndex DEF Indices
  <2> QED BY <2>1, <2>2, <2>3
<1>2. ASSUME q = <<>> PROVE Indices(q) = {} /\ numel(q) = 0
  <2>1. numel(q) = 0
    BY <1>2, NumelFacts
  <2> QED BY <2>1 DEF Indices
<1> QED BY <1>1, <1>2

LEMMA IndexFacts ==
  ASSUME NEW q \in Seq(Nat), NEW i \in Indices(q)
  PROVE  /\ i \in Box(q) /\ i \in [1..Len(q) -> Nat] /\ DOMAIN i = 1..Len(q)
         /\ Position(RowMajor(q), i) \in 0..numel(q) - 1
         /\ Unflatten(q, Position(RowMajor(q), i)) = i
         /\ q # <<>>
<1>1. q # <<>> /\ numel(q) = Product(q) /\ i \in Box(q)
  BY IndicesAreBox
<1> QED BY <1>1, NumberOfIndex, BoxIndex

LEMMA NumberFacts ==
  ASSUME NEW q \in Seq(Nat), NEW k \in 0..numel(q) - 1
  PROVE  /\ Unflatten(q, k) \in Indices(q)
         /\ Position(RowMajor(q), Unflatten(q, k)) = k
         /\ q # <<>> /\ k \in 0..Product(q) - 1
<1>1. q # <<>> /\ k \in 0..Product(q) - 1
  BY IndicesAreBox
<1> QED BY <1>1, IndicesAreBox, IndexOfNumber

(* A tensor in row-major order is dense.                                   *)
LEMMA RowMajorIsDense ==
  ASSUME NEW v, v.shape \in Seq(Nat), v.stride = RowMajor(v.shape)
  PROVE  Dense(v)
<1>1. ASSUME NEW k \in 0..numel(v.shape) - 1
      PROVE  Address(v, Unflatten(v.shape, k)) = v.offset + k
  BY NumberFacts DEF Address
<1> QED BY <1>1 DEF Dense

(* Of a dense tensor the k-th element is the one at the k-th index.        *)
LEMMA DenseElement ==
  ASSUME NEW t, t.shape \in Seq(Nat), Dense(t), NEW i \in Indices(t.shape)
  PROVE  Address(t, i) = t.offset + Position(RowMajor(t.shape), i)
BY IndexFacts DEF Dense

-----------------------------------------------------------------------------
(* Views: the array of a view shows cells of the one it is made of.        *)

(* The array of tensor x.                                                  *)
LEMMA ArrayFacts ==
  ASSUME ViewsInv, NEW x \in Tensor
  PROVE  /\ AsArrays[x] = ArrayOf(tensors[x])
         /\ tensors[x] \in Tensors /\ IsTensor(tensors[x]) /\ tensors[x].shape \in Seq(Nat)
         /\ ArrayOf(tensors[x]).shape = tensors[x].shape
         /\ ArrayOf(tensors[x]).dense = Dense(tensors[x])
         /\ \A i \in Indices(tensors[x].shape) :
              ArrayOf(tensors[x]).cell[i] = <<tensors[x].storage, Address(tensors[x], i)>>
<1>1. tensors \in Seq(Tensors) /\ x \in 1..Len(tensors)
  BY LengthFacts DEF ViewsInv, Tensor
<1>2. tensors[x] \in Tensors /\ IsTensor(tensors[x]) /\ tensors[x].shape \in Seq(Nat)
  BY <1>1, MemberFacts, TensorFacts DEF IsTensor
<1> QED BY <1>2 DEF AsArrays, ArrayOf, Tensor

ShowsAt(v, t, to, q) ==
  \A i \in Indices(q) : to[i] \in Indices(t.shape) /\ Address(v, i) = Address(t, to[i])

(* v is the new tensor, a view of x.                                       *)
MakesView(x, v, to) ==
  /\ x \in Tensor /\ tensors' = Append(tensors, v) /\ memory' = memory
  /\ v \in Tensors /\ v.storage = tensors[x].storage
  /\ ShowsAt(v, tensors[x], to, v.shape)

Shown(x, q, to) ==
  /\ A!Appended /\ Contents' = Contents
  /\ NewArray'.shape = q
  /\ \A i \in Indices(q) : NewArray'.cell[i] = AsArrays[x].cell[to[i]]

(* The array of a view shows the cells of the one it is made of.           *)
LEMMA ViewArray ==
  ASSUME ViewsInv, NEW x, NEW v, NEW to, MakesView(x, v, to)
  PROVE  Shown(x, v.shape, to)
<1> DEFINE t == tensors[x]
           q == v.shape
<1>1. /\ memory' = memory /\ tensors' = Append(tensors, v)
      /\ x \in Tensor /\ v \in Tensors /\ v.storage = t.storage /\ ShowsAt(v, t, to, q)
  BY DEF MakesView
<1>2. A!Appended /\ NewArray' = ArrayOf(v)
  BY <1>1, Appending
<1> HIDE DEF t
<1>3. ASSUME NEW i \in Indices(q) PROVE ArrayOf(v).cell[i] = AsArrays[x].cell[to[i]]
  <2>1. to[i] \in Indices(t.shape) /\ Address(v, i) = Address(t, to[i])
    BY <1>1 DEF ShowsAt
  <2>2. ArrayOf(v).cell[i] = <<v.storage, Address(v, i)>>
    BY DEF ArrayOf
  <2>3. AsArrays[x].cell[to[i]] = <<t.storage, Address(t, to[i])>>
    BY <1>1, <2>1, ArrayFacts DEF t
  <2> QED BY <1>1, <2>1, <2>2, <2>3
<1>4. NewArray'.shape = q
  BY <1>2 DEF ArrayOf
<1>5. Contents' = Contents
  BY <1>1 DEF Contents
<1> HIDE DEF q
<1>6. \A i \in Indices(q) : NewArray'.cell[i] = AsArrays[x].cell[to[i]]
  BY <1>2, <1>3
<1> QED BY <1>2, <1>4, <1>5, <1>6 DEF Shown, q

(* slice(), whatever it is called from.                                    *)
Sliced(x, d, s, n) ==
  LET a == AsArrays[x]   shape == [a.shape EXCEPT ![d] = n]
  IN /\ A!Appended /\ Contents' = Contents
     /\ NewArray'.shape = shape
     /\ \A i \in Indices(shape) : NewArray'.cell[i] = a.cell[[i EXCEPT ![d] = @ + s]]

LEMMA SliceArray ==
  ASSUME ViewsInv, NEW x \in Tensor, NEW d \in DOMAIN tensors[x].shape,
         NEW start \in Int, NEW end \in Int, slice(x, d, start, end),
         NEW s, s = A!FromEnd(start, tensors[x].shape[d]),
         NEW e, e = A!FromEnd(end, tensors[x].shape[d])
  PROVE  Sliced(x, d, s, e - s) /\ s \in Int /\ e \in Int
<1> DEFINE t == tensors[x]
           o == OffsetOfStart(t, d, s)
           q == [t.shape EXCEPT ![d] = LengthOf(s, e)]
           v == [storage |-> t.storage, offset |-> o, shape |-> q, stride |-> t.stride]
           to == [i \in Indices(q) |-> [i EXCEPT ![d] = @ + s]]
<1>1. IsTensor(t) /\ d \in 1..Len(t.shape) /\ t.shape[d] \in Nat /\ t.shape \in Seq(Nat)
  BY TensorFacts, ArrayFacts
<1>2. /\ s = normalize_index(start, t.shape[d]) /\ e = normalize_index(end, t.shape[d])
      /\ s \in Int /\ e \in Int
  BY <1>1 DEF normalize_index, A!FromEnd
<1>3. 0 <= s /\ s <= e /\ e <= t.shape[d] /\ NewView(t, o, q, t.stride)
  BY <1>2 DEF slice
<1>4. v.offset = o /\ v.shape = q /\ v.stride = t.stride
  OBVIOUS
<1>5. o = t.offset + s * t.stride[d] /\ q = [t.shape EXCEPT ![d] = e - s]
  BY DEF OffsetOfStart, LengthOf
<1> HIDE DEF o, q, v
<1>7. IsTensor(v) /\ t.shape # <<>> /\ v.shape # <<>> /\ \A i \in Box(q) : Slid(v, t, d, s, i)
  <2>1. /\ IsTensor(t) /\ d \in 1..Len(t.shape)
        /\ s \in Nat /\ e \in Nat /\ s <= e /\ e <= t.shape[d]
        /\ v.offset = t.offset + s * t.stride[d] /\ v.stride = t.stride
        /\ v.shape = [t.shape EXCEPT ![d] = e - s]
    BY <1>1, <1>2, <1>3, <1>4, <1>5
  <2> HIDE DEF t
  <2>2. /\ IsTensor(v) /\ t.shape # <<>> /\ v.shape # <<>>
        /\ \A i \in Box(v.shape) : Slid(v, t, d, s, i)
    BY ONLY <2>1, SliceIndices
  <2> QED BY <1>4, <2>2
<1>8. q \in Seq(Nat) /\ Indices(q) = Box(q) /\ Indices(t.shape) = Box(t.shape)
  BY <1>1, <1>4, <1>7, IndicesAreBox DEF IsTensor
<1>9. ShowsAt(v, t, to, q)
  <2> SUFFICES ASSUME NEW i \in Indices(q)
               PROVE  to[i] \in Indices(t.shape) /\ Address(v, i) = Address(t, to[i])
    BY DEF ShowsAt
  <2>1. Slid(v, t, d, s, i)
    BY <1>7, <1>8
  <2>2. to[i] = [i EXCEPT ![d] = i[d] + s]
    OBVIOUS
  <2> HIDE DEF to, t
  <2> QED BY <1>8, <2>1, <2>2 DEF Slid
<1>10. Shown(x, q, to)
  <2>1. v \in Tensors
    <3>1. v.storage = t.storage /\ t.storage \in Nat
      BY ArrayFacts DEF v, Tensors
    <3> QED BY <1>7, <3>1 DEF v, Tensors, IsTensor
  <2>2. tensors' = Append(tensors, v) /\ memory' = memory /\ v.storage = t.storage /\ v.shape = q
    BY <1>3 DEF NewView, v
  <2> HIDE DEF to
  <2>3. MakesView(x, v, to)
    BY <1>9, <2>1, <2>2 DEF MakesView
  <2> QED BY <2>2, <2>3, ViewArray
<1>11. AsArrays[x].shape = t.shape
  BY ArrayFacts
<1>12. \A i \in Indices(q) : to[i] = [i EXCEPT ![d] = @ + s]
  OBVIOUS
<1> HIDE DEF to
<1> QED BY <1>2, <1>5, <1>10, <1>11, <1>12 DEF Sliced, Shown

LEMMA SliceImplements ==
  ASSUME ViewsInv, NEW x \in Tensor, NEW d \in DOMAIN tensors[x].shape,
         NEW start \in Int, NEW end \in Int, Slice(x, d, start, end)
  PROVE  A!Slice
<1> DEFINE s == A!FromEnd(start, tensors[x].shape[d])
           e == A!FromEnd(end, tensors[x].shape[d])
<1>1. Sliced(x, d, s, e - s)
  <2>1. slice(x, d, start, end)
    BY DEF Slice
  <2> HIDE DEF s, e
  <2> QED BY <2>1, SliceArray DEF s, e
<1>2. call' = [op |-> "slice", of |-> <<x>>, by |-> <<d, start, end>>]
  BY DEF Slice, Called
<1>3. AsArrays[x].shape = tensors[x].shape
  BY ArrayFacts
<1> HIDE DEF s, e
<1> DEFINE a == AsArrays[call'.of[1]]
           d0 == call'.by[1]
           start0 == A!FromEnd(call'.by[2], a.shape[d0])
           shape == [a.shape EXCEPT ![d0] = A!FromEnd(call'.by[3], @) - start0]
<1>4. d0 = d /\ a = AsArrays[x] /\ start0 = s /\ shape = [a.shape EXCEPT ![d] = e - s]
  <2>1. call'.of[1] = x /\ call'.by[1] = d /\ call'.by[2] = start /\ call'.by[3] = end
    BY <1>2
  <2>2. d0 = d /\ a = AsArrays[x] /\ start0 = s
    BY <1>3, <2>1 DEF s
  <2>3. shape = [a.shape EXCEPT ![d] = A!FromEnd(end, a.shape[d]) - s]
    BY <2>1, <2>2
  <2> QED BY <1>3, <2>2, <2>3 DEF e
<1> HIDE DEF a, d0, start0, shape
<1>5. /\ NewArray'.shape = shape
      /\ \A i \in Indices(shape) : NewArray'.cell[i] = a.cell[[i EXCEPT ![d0] = @ + start0]]
      /\ A!Appended /\ Contents' = Contents
  BY <1>1, <1>4 DEF Sliced
<1>6. call'.op = "slice"
  BY <1>2
<1> QED BY <1>5, <1>6, SliceBridge DEF a, d0, start0, shape

LEMMA NarrowBridge ==
  ASSUME A!Appended, Contents' = Contents,
         call'.op = "narrow",
         LET a == AsArrays[call'.of[1]]
             d == call'.by[1]
             shape == [a.shape EXCEPT ![d] = call'.by[3]]
         IN /\ NewArray'.shape = shape
            /\ \A i \in Indices(shape) :
                 NewArray'.cell[i] = a.cell[[i EXCEPT ![d] = @ + call'.by[2]]]
  PROVE  A!Narrow
<1>1. A!Appended
  OBVIOUS
<1> DEFINE a == AsArrays[call'.of[1]]
           d == call'.by[1]
           start == call'.by[2]
           shape == [a.shape EXCEPT ![d] = call'.by[3]]
<1>2. UNCHANGED Contents
  OBVIOUS
<1>3. /\ NewArray'.shape = shape
      /\ \A i \in Indices(shape) : NewArray'.cell[i] = a.cell[[i EXCEPT ![d] = @ + start]]
  OBVIOUS
<1> HIDE DEF a, d, start, shape
<1>4. A!View(a, shape, LAMBDA index : [index EXCEPT ![d] = @ + start])
  BY ONLY <1>1, <1>2, <1>3, SameSequences, SameIndices DEF A!View, NewArray
<1> USE DEF a, d, start, shape
<1> QED BY <1>4 DEF A!Narrow, A!Calls, A!Operand, A!Arg

LEMMA NarrowImplements ==
  ASSUME ViewsInv, NEW x \in Tensor, NEW d \in DOMAIN tensors[x].shape,
         NEW start \in Int, NEW length \in Nat, Narrow(x, d, start, length)
  PROVE  A!Narrow \/ A!Slice
<1> DEFINE s == A!FromEnd(start, tensors[x].shape[d])
           e == A!FromEnd(start + length, tensors[x].shape[d])
<1>1. slice(x, d, start, start + length) /\ start + length \in Int
  BY DEF Narrow
<1>2. CASE start < 0
  <2>1. Slice(x, d, start, start + length)
    BY <1>2 DEF Narrow, Slice
  <2> QED BY <1>1, <2>1, SliceImplements
<1>3. CASE start >= 0
  <2>1. call' = [op |-> "narrow", of |-> <<x>>, by |-> <<d, start, length>>]
    BY <1>3 DEF Narrow, Called
  <2>2. Sliced(x, d, s, e - s)
    <3> HIDE DEF s, e
    <3> QED BY <1>1, SliceArray DEF s, e
  <2>3. s = start /\ e = start + length
    BY <1>3 DEF A!FromEnd
  <2> HIDE DEF s, e
  <2>4. s = start /\ e - s = length
    BY <2>3
  <2> DEFINE a == AsArrays[call'.of[1]]
             d0 == call'.by[1]
             start0 == call'.by[2]
             shape == [a.shape EXCEPT ![d0] = call'.by[3]]
  <2>5. /\ d0 = d /\ a = AsArrays[x] /\ start0 = start
        /\ shape = [a.shape EXCEPT ![d] = length]
    BY <2>1
  <2> HIDE DEF a, d0, start0, shape
  <2>6. /\ NewArray'.shape = shape
        /\ \A i \in Indices(shape) : NewArray'.cell[i] = a.cell[[i EXCEPT ![d0] = @ + start0]]
        /\ A!Appended /\ Contents' = Contents
    BY <2>2, <2>4, <2>5 DEF Sliced
  <2>7. call'.op = "narrow"
    BY <2>1
  <2> QED BY <2>6, <2>7, NarrowBridge DEF a, d0, start0, shape
<1> QED BY <1>2, <1>3

LEMMA InsertAtFacts ==
  ASSUME NEW m \in Nat \ {0}, NEW s \in [1..m - 1 -> Nat], NEW d \in 1..m, NEW e \in Nat
  PROVE  InsertAt(s, d, e) = Inserted(s, m, d, e)
<1> DEFINE a == SubSeq(s, 1, d - 1)
           b == <<e>>
           c == SubSeq(s, d, Len(s))
           ab == a \o b
           r == ab \o c
<1>1. s \in Seq(Nat) /\ Len(s) = m - 1 /\ m - 1 \in Nat
  BY FunctionIsSequence
<1>2. /\ a \in Seq(Nat) /\ Len(a) = d - 1 /\ \A k \in 1..d - 1 : a[k] = s[k]
  <2> DEFINE n == d - 1
  <2>1. n \in Nat /\ n <= Len(s) /\ 1 \in 1..Len(s) + 1 /\ 1 <= n + 1 /\ n - 1 + 1 = n
    BY <1>1
  <2> HIDE DEF n
  <2>2. /\ SubSeq(s, 1, n) \in Seq(Nat) /\ Len(SubSeq(s, 1, n)) = n - 1 + 1
        /\ \A k \in 1..n - 1 + 1 : SubSeq(s, 1, n)[k] = s[1 + k - 1]
    BY ONLY <1>1, <2>1, SubSeqFacts
  <2>3. \A k \in 1..n : 1 + k - 1 = k
    BY <2>1
  <2> QED BY <2>1, <2>2, <2>3 DEF n
<1>3. /\ c \in Seq(Nat) /\ Len(c) = m - d /\ \A k \in 1..m - d : c[k] = s[d + k - 1]
  <2> DEFINE l == Len(s)
  <2>1. l \in Nat /\ l <= Len(s) /\ d \in 1..Len(s) + 1 /\ d <= l + 1 /\ l - d + 1 = m - d
    BY <1>1
  <2> HIDE DEF l
  <2>2. /\ SubSeq(s, d, l) \in Seq(Nat) /\ Len(SubSeq(s, d, l)) = l - d + 1
        /\ \A k \in 1..l - d + 1 : SubSeq(s, d, l)[k] = s[d + k - 1]
    BY ONLY <1>1, <2>1, SubSeqFacts
  <2> QED BY <2>1, <2>2 DEF l
<1>4. b \in Seq(Nat) /\ Len(b) = 1 /\ b[1] = e
  BY Singles
<1> HIDE DEF a, b, c
<1>5. IsConcat(ab, a, b)
  BY <1>2, <1>4, ConcatFacts
<1>6. IsConcat(r, ab, c)
  BY <1>3, <1>5, ConcatFacts DEF IsConcat
<1> HIDE DEF ab, r
<1>7. /\ ab \in Seq(Nat) /\ Len(ab) = d /\ \A k \in 1..d - 1 : ab[k] = s[k]
      /\ ab[d] = e
  <2>1. Len(ab) = d - 1 + 1 /\ ab \in Seq(Nat)
    BY <1>2, <1>4, <1>5 DEF IsConcat
  <2>2. ab[d - 1 + 1] = e
    <3>1. 1 \in 1..Len(b) /\ ab[Len(a) + 1] = b[1]
      BY <1>4, <1>5 DEF IsConcat
    <3> QED BY <1>2, <1>4, <3>1
  <2>3. \A k \in 1..d - 1 : ab[k] = s[k]
    BY <1>2, <1>5 DEF IsConcat
  <2> QED BY <2>1, <2>2, <2>3
<1>8. r \in Seq(Nat) /\ Len(r) = m
  BY <1>3, <1>6, <1>7 DEF IsConcat
<1>9. ASSUME NEW k \in 1..m PROVE r[k] = Inserted(s, m, d, e)[k]
  <2>1. CASE k < d
    <3>1. k \in 1..Len(ab) /\ k \in 1..d - 1
      BY <1>7, <2>1
    <3>2. r[k] = ab[k]
      BY <1>6, <3>1 DEF IsConcat
    <3> QED BY <1>7, <2>1, <3>1, <3>2 DEF Inserted
  <2>2. CASE k = d
    <3>1. d \in 1..Len(ab)
      BY <1>7
    <3>2. r[d] = ab[d]
      BY <1>6, <3>1 DEF IsConcat
    <3> QED BY <1>7, <2>2, <3>2 DEF Inserted
  <2>3. CASE d < k
    <3> DEFINE l == k - d
    <3>1. l \in 1..m - d /\ k = d + l /\ d + l - 1 = k - 1 /\ ~(k < d) /\ k # d
      BY <2>3
    <3> HIDE DEF l
    <3>2. r[Len(ab) + l] = c[l]
      BY <1>3, <1>6, <3>1 DEF IsConcat
    <3>3. r[k] = s[k - 1]
      BY <1>3, <1>7, <3>1, <3>2
    <3> QED BY <3>1, <3>3 DEF Inserted
  <2> QED BY <2>1, <2>2, <2>3
<1>10. r = InsertAt(s, d, e)
  BY DEF InsertAt, r, ab, a, b, c
<1>11. r \in [1..m -> Nat] /\ DOMAIN Inserted(s, m, d, e) = 1..m
  BY <1>8, SequenceFacts DEF Inserted
<1>12. Inserted(s, m, d, e) = [k \in 1..m |-> Inserted(s, m, d, e)[k]]
  BY DEF Inserted
<1>13. r = [k \in 1..m |-> r[k]]
  BY <1>11
<1> QED BY <1>9, <1>10, <1>12, <1>13

LEMMA SelectBridge ==
  ASSUME A!Appended, Contents' = Contents,
         call'.op = "select",
         LET a == AsArrays[call'.of[1]]
             d == call'.by[1]
             shape == RemoveAt(a.shape, d)
         IN /\ NewArray'.shape = shape
            /\ \A i \in Indices(shape) :
                 NewArray'.cell[i] = a.cell[InsertAt(i, d, A!FromEnd(call'.by[2], a.shape[d]))]
  PROVE  A!Select
<1>1. A!Appended
  OBVIOUS
<1> DEFINE a == AsArrays[call'.of[1]]
           d == call'.by[1]
           x == A!FromEnd(call'.by[2], a.shape[d])
           shape == RemoveAt(a.shape, d)
<1>2. UNCHANGED Contents
  OBVIOUS
<1>3. /\ NewArray'.shape = shape
      /\ \A i \in Indices(shape) : NewArray'.cell[i] = a.cell[InsertAt(i, d, x)]
  OBVIOUS
<1> HIDE DEF a, d, x, shape
<1>4. A!View(a, shape, LAMBDA index : InsertAt(index, d, x))
  BY ONLY <1>1, <1>2, <1>3, SameSequences, SameIndices DEF A!View, NewArray
<1> USE DEF a, d, x, shape
<1> QED BY <1>4 DEF A!Select, A!Calls, A!Operand, A!Arg,
                    A!InsertAt, InsertAt, A!RemoveAt, RemoveAt

LEMMA SelectImplements ==
  ASSUME ViewsInv, NEW x \in Tensor, NEW d \in DOMAIN tensors[x].shape,
         NEW index \in Int, Select(x, d, index)
  PROVE  A!Select
<1> DEFINE t == tensors[x]
           m == Len(t.shape)
           e == A!FromEnd(index, t.shape[d])
           o == OffsetOfStart(t, d, e)
           q == RemoveAt(t.shape, d)
           w == RemoveAt(t.stride, d)
           v == [storage |-> t.storage, offset |-> o, shape |-> q, stride |-> w]
           to == [i \in Indices(q) |-> InsertAt(i, d, e)]
<1>1. IsTensor(t) /\ d \in 1..m /\ t.shape[d] \in Nat /\ t.shape \in Seq(Nat)
  BY TensorFacts, ArrayFacts
<1>2. e = normalize_index(index, t.shape[d]) /\ e \in Int
  BY <1>1 DEF normalize_index, A!FromEnd
<1>3. 0 <= e /\ e < t.shape[d] /\ NewView(t, o, q, w)
  BY <1>2 DEF Select, DropStride
<1>4. /\ v.offset = t.offset + e * t.stride[d]
      /\ v.shape = RemoveAt(t.shape, d) /\ v.stride = RemoveAt(t.stride, d) /\ v.shape = q
  BY DEF OffsetOfStart
<1>5. e \in Nat
  BY <1>2, <1>3
<1> HIDE DEF e, o, q, w, v
<1>6. IsTensor(v) /\ t.shape # <<>> /\ \A i \in Box(q) : Chosen(v, t, d, e, i)
  BY <1>1, <1>3, <1>4, <1>5, SelectIndices
<1>7. q \in Seq(Nat) /\ Len(q) = m - 1 /\ m \in Nat \ {0}
  <2>1. m \in Nat
    BY <1>1, SequenceFacts
  <2>2. q \in Seq(Nat) /\ Len(q) = m - 1
    BY <1>1, RemoveAtFacts DEF q
  <2>3. m # 0
    BY <1>1
  <2> QED BY <2>1, <2>2, <2>3
<1>8. ShowsAt(v, t, to, q)
  <2> SUFFICES ASSUME NEW i \in Indices(q)
               PROVE  to[i] \in Indices(t.shape) /\ Address(v, i) = Address(t, to[i])
    BY DEF ShowsAt
  <2>1. i \in [1..m - 1 -> Nat] /\ i \in Box(q)
    <3> HIDE DEF m
    <3> QED BY <1>7, IndexFacts
  <2>2. to[i] = Inserted(i, m, d, e)
    <3>1. to[i] = InsertAt(i, d, e)
      OBVIOUS
    <3> HIDE DEF m, to
    <3> QED BY <1>1, <1>5, <1>7, <2>1, <3>1, InsertAtFacts
  <2>3. Indices(t.shape) = Box(t.shape)
    BY <1>1, <1>6, IndicesAreBox
  <2> HIDE DEF to, t
  <2> QED BY <1>6, <2>1, <2>2, <2>3 DEF Chosen
<1>9. Shown(x, q, to)
  <2>1. v \in Tensors
    <3>1. v.storage = t.storage /\ t.storage \in Nat
      BY ArrayFacts DEF v, Tensors
    <3> QED BY <1>6, <3>1 DEF v, Tensors, IsTensor
  <2>2. tensors' = Append(tensors, v) /\ memory' = memory /\ v.storage = t.storage /\ v.shape = q
    BY <1>3 DEF NewView, v
  <2> HIDE DEF to
  <2>3. MakesView(x, v, to)
    BY <1>8, <2>1, <2>2 DEF MakesView
  <2> QED BY <2>2, <2>3, ViewArray
<1>10. AsArrays[x].shape = t.shape
  BY ArrayFacts
<1>11. \A i \in Indices(q) : to[i] = InsertAt(i, d, e)
  OBVIOUS
<1>12. call' = [op |-> "select", of |-> <<x>>, by |-> <<d, index>>]
  BY DEF Select, Called
<1> HIDE DEF to, t
<1> DEFINE a == AsArrays[call'.of[1]]
           d0 == call'.by[1]
           y == A!FromEnd(call'.by[2], a.shape[d0])
           shape == RemoveAt(a.shape, d0)
<1>13. /\ d0 = d /\ a = AsArrays[x] /\ y = e /\ shape = q
  <2>1. call'.of[1] = x /\ call'.by[1] = d /\ call'.by[2] = index
    BY <1>12
  <2> QED BY <1>10, <2>1 DEF e, q
<1> HIDE DEF a, d0, y, shape
<1>14. /\ NewArray'.shape = shape
       /\ \A i \in Indices(shape) : NewArray'.cell[i] = a.cell[InsertAt(i, d0, y)]
  BY <1>9, <1>11, <1>13 DEF Shown
<1>15. call'.op = "select"
  BY <1>12
<1> QED BY <1>9, <1>14, <1>15, SelectBridge DEF a, d0, y, shape, Shown

Rearranged(i, dims) == [e \in DOMAIN dims |-> i[CHOOSE d \in DOMAIN dims : dims[d] = e]]

LEMMA PermuteBridge ==
  ASSUME A!Appended, Contents' = Contents,
         call'.op = "permute",
         LET a == AsArrays[call'.of[1]]
             dims == call'.by
             shape == [d \in DOMAIN dims |-> a.shape[dims[d]]]
         IN /\ NewArray'.shape = shape
            /\ \A i \in Indices(shape) : NewArray'.cell[i] = a.cell[Rearranged(i, dims)]
  PROVE  A!Permute
<1>1. A!Appended
  OBVIOUS
<1> DEFINE a == AsArrays[call'.of[1]]
           dims == call'.by
           shape == [d \in DOMAIN dims |-> a.shape[dims[d]]]
<1>2. UNCHANGED Contents
  OBVIOUS
<1>3. /\ NewArray'.shape = shape
      /\ \A i \in Indices(shape) : NewArray'.cell[i] = a.cell[Rearranged(i, dims)]
  OBVIOUS
<1> HIDE DEF a, dims, shape
<1>4. A!View(a, shape, LAMBDA index : Rearranged(index, dims))
  BY ONLY <1>1, <1>2, <1>3, SameSequences, SameIndices DEF A!View, NewArray
<1> USE DEF a, dims, shape
<1> QED BY <1>4 DEF Rearranged, A!Permute, A!Calls, A!Operand, A!Arg

LEMMA PermuteImplements ==
  ASSUME ViewsInv, NEW x \in Tensor,
         NEW dims \in [DOMAIN tensors[x].shape -> DOMAIN tensors[x].shape],
         \A a, b \in DOMAIN tensors[x].shape : dims[a] = dims[b] => a = b,
         Permute(x, dims)
  PROVE  A!Permute
<1> DEFINE t == tensors[x]
           m == Len(t.shape)
           q == [d \in DOMAIN dims |-> t.shape[dims[d]]]
           w == [d \in DOMAIN dims |-> t.stride[dims[d]]]
           v == [storage |-> t.storage, offset |-> t.offset, shape |-> q, stride |-> w]
           to == [i \in Indices(q) |-> Permuted(i, dims, m)]
<1>1. IsTensor(t) /\ t.shape \in Seq(Nat) /\ DOMAIN t.shape = 1..m /\ DOMAIN dims = 1..m
  BY TensorFacts, ArrayFacts
<1>2. IsPermutation(dims, Len(t.shape))
  BY <1>1 DEF IsPermutation
<1>3. NewView(t, t.offset, q, w)
  BY DEF Permute
<1>4. v.offset = t.offset /\ v.shape = q /\ v.stride = w
  OBVIOUS
<1> HIDE DEF v
<1>5. /\ IsTensor(v) /\ Len(v.shape) = Len(t.shape) /\ Len(t.shape) \in Nat
      /\ \A i \in Box(v.shape) : Reordered(v, t, dims, i)
  <2>1. /\ IsTensor(t) /\ IsPermutation(dims, Len(t.shape)) /\ v.offset = t.offset
        /\ v.shape = [d \in DOMAIN dims |-> t.shape[dims[d]]]
        /\ v.stride = [d \in DOMAIN dims |-> t.stride[dims[d]]]
    BY <1>1, <1>2, <1>4
  <2> HIDE DEF t
  <2> QED BY ONLY <2>1, PermuteIndices
<1> HIDE DEF q, w
<1>6. q \in Seq(Nat)
  BY <1>4, <1>5 DEF IsTensor
<1>7. ShowsAt(v, t, to, q)
  <2> SUFFICES ASSUME NEW i \in Indices(q)
               PROVE  to[i] \in Indices(t.shape) /\ Address(v, i) = Address(t, to[i])
    BY DEF ShowsAt
  <2>1. i \in Box(q) /\ q # <<>>
    BY <1>6, IndexFacts
  <2>2. t.shape # <<>>
    <3>1. Len(q) # 0
      BY <1>6, <2>1
    <3> QED BY <1>4, <1>5, <3>1
  <2>3. Indices(t.shape) = Box(t.shape)
    BY <1>1, <2>2, IndicesAreBox
  <2>4. Reordered(v, t, dims, i)
    BY <1>4, <1>5, <2>1
  <2>5. to[i] = Permuted(i, dims, m)
    OBVIOUS
  <2> HIDE DEF to, t
  <2> QED BY <2>3, <2>4, <2>5 DEF Reordered
<1>8. Shown(x, q, to)
  <2>1. v \in Tensors
    <3>1. v.storage = t.storage /\ t.storage \in Nat
      BY ArrayFacts DEF v, Tensors
    <3> QED BY <1>5, <3>1 DEF v, Tensors, IsTensor
  <2>2. tensors' = Append(tensors, v) /\ memory' = memory /\ v.storage = t.storage /\ v.shape = q
    BY <1>3 DEF NewView, v
  <2> HIDE DEF to
  <2>3. MakesView(x, v, to)
    BY <1>7, <2>1, <2>2 DEF MakesView
  <2> QED BY <2>2, <2>3, ViewArray
<1>9. AsArrays[x].shape = t.shape
  BY ArrayFacts
<1>10. \A i \in Indices(q) :
         to[i] = Rearranged(i, dims)
  BY <1>1 DEF Permuted, Rearranged
<1>11. call' = [op |-> "permute", of |-> <<x>>, by |-> dims]
  BY DEF Permute, Called
<1> HIDE DEF to
<1> DEFINE a == AsArrays[call'.of[1]]
           ds == call'.by
           shape == [d \in DOMAIN ds |-> a.shape[ds[d]]]
<1>12. a = AsArrays[x] /\ ds = dims /\ shape = q
  <2>1. call'.of[1] = x /\ call'.by = dims
    BY <1>11
  <2> QED BY <1>9, <2>1 DEF q
<1> HIDE DEF a, ds, shape, t
<1>13. /\ NewArray'.shape = shape
       /\ \A i \in Indices(shape) : NewArray'.cell[i] = a.cell[Rearranged(i, ds)]
  BY <1>8, <1>10, <1>12 DEF Shown
<1>14. call'.op = "permute"
  BY <1>11
<1> QED BY <1>8, <1>13, <1>14, PermuteBridge DEF a, ds, shape, Shown

LEMMA ReshapeBridge ==
  ASSUME A!Appended, Contents' = Contents,
         call'.op = "reshape", \A i \in DOMAIN call'.of : AsArrays[call'.of[i]].dense,
         LET a == AsArrays[call'.of[1]]
             shape == call'.by
         IN /\ NewArray'.shape = shape
            /\ \A i \in Indices(shape) :
                 NewArray'.cell[i] = a.cell[Unflatten(a.shape, Position(RowMajor(shape), i))]
  PROVE  A!Reshape
<1>1. A!Appended
  OBVIOUS
<1> DEFINE a == AsArrays[call'.of[1]]
           shape == call'.by
<1>2. UNCHANGED Contents
  OBVIOUS
<1>3. /\ NewArray'.shape = shape
      /\ \A i \in Indices(shape) :
           NewArray'.cell[i] = a.cell[A!Unflatten(a.shape, A!Position(A!RowMajor(shape), i))]
  BY SameUnflatten, SamePosition, SameRowMajor
<1> HIDE DEF a, shape
<1>4. A!View(a, shape, LAMBDA index : A!Unflatten(a.shape, A!Position(A!RowMajor(shape), index)))
  BY ONLY <1>1, <1>2, <1>3, SameSequences, SameIndices DEF A!View, NewArray
<1>5. A!AllDense
  BY DEF A!AllDense, A!Operand
<1> USE DEF a, shape
<1> QED BY <1>4, <1>5 DEF A!Reshape, A!Calls, A!Operand, A!Arg

LEMMA ReshapeImplements ==
  ASSUME ViewsInv, NEW x \in Tensor, NEW q \in Seq(Nat), Reshape(x, q)
  PROVE  A!Reshape
<1> DEFINE t == tensors[x]
           w == compute_row_major(q)
           v == [storage |-> t.storage, offset |-> t.offset, shape |-> q, stride |-> w]
           to == [i \in Indices(q) |-> Unflatten(t.shape, Position(RowMajor(q), i))]
<1>1. IsTensor(t) /\ t.shape \in Seq(Nat) /\ t.offset \in Nat
  BY ArrayFacts DEF IsTensor
<1>2. numel(q) = numel(t.shape) /\ NewView(t, t.offset, q, w) /\ t.stride = RowMajor(t.shape)
  BY DEF Reshape, is_contiguous, compute_row_major
<1>3. v.offset = t.offset /\ v.shape = q /\ v.stride = RowMajor(q)
  BY DEF compute_row_major
<1>4. Dense(t)
  BY <1>1, <1>2, RowMajorIsDense
<1> HIDE DEF v
<1>5. IsTensor(v)
  BY <1>1, <1>3, RowMajorFacts DEF IsTensor
<1>6. ShowsAt(v, t, to, q)
  <2> SUFFICES ASSUME NEW i \in Indices(q)
               PROVE  to[i] \in Indices(t.shape) /\ Address(v, i) = Address(t, to[i])
    BY DEF ShowsAt
  <2> DEFINE p == Position(RowMajor(q), i)
  <2>1. p \in 0..numel(t.shape) - 1
    BY <1>2, IndexFacts
  <2>2. to[i] = Unflatten(t.shape, p)
    OBVIOUS
  <2>3. Address(v, i) = t.offset + p
    BY <1>3 DEF Address
  <2> HIDE DEF to, t, p
  <2> QED BY <1>1, <1>4, <2>1, <2>2, <2>3, NumberFacts DEF Dense
<1> HIDE DEF w
<1>7. Shown(x, q, to)
  <2>1. v \in Tensors
    <3>1. v.storage = t.storage /\ t.storage \in Nat
      BY ArrayFacts DEF v, Tensors
    <3> QED BY <1>5, <3>1 DEF v, Tensors, IsTensor
  <2>2. tensors' = Append(tensors, v) /\ memory' = memory /\ v.storage = t.storage /\ v.shape = q
    BY <1>2 DEF NewView, v
  <2> HIDE DEF to
  <2>3. MakesView(x, v, to)
    BY <1>6, <2>1, <2>2 DEF MakesView
  <2> QED BY <2>2, <2>3, ViewArray
<1>8. AsArrays[x].shape = t.shape /\ AsArrays[x].dense
  BY <1>4, ArrayFacts
<1>9. \A i \in Indices(q) : to[i] = Unflatten(t.shape, Position(RowMajor(q), i))
  OBVIOUS
<1>10. call' = [op |-> "reshape", of |-> <<x>>, by |-> q]
  BY DEF Reshape, Called
<1> HIDE DEF to, t
<1> DEFINE a == AsArrays[call'.of[1]]
           shape == call'.by
<1>11. a = AsArrays[x] /\ shape = q
  BY <1>10
<1>12. \A i \in DOMAIN call'.of : AsArrays[call'.of[i]].dense
  BY <1>8, <1>10
<1> HIDE DEF a, shape
<1>13. /\ NewArray'.shape = shape
       /\ \A i \in Indices(shape) :
            NewArray'.cell[i] = a.cell[Unflatten(a.shape, Position(RowMajor(shape), i))]
  BY <1>7, <1>8, <1>9, <1>11 DEF Shown
<1>14. call'.op = "reshape"
  BY <1>10
<1> QED BY <1>7, <1>12, <1>13, <1>14, ReshapeBridge DEF a, shape, Shown

-----------------------------------------------------------------------------
(* Results: the array of a result has cells of its own.                    *)

ContentOf(m) == [c \in UNION {{s} \X DOMAIN m[s] : s \in DOMAIN m} |-> m[c[1]][c[2]]]

LEMMA ContentFacts ==
  ASSUME NEW m
  PROVE  /\ \A c : c \in DOMAIN ContentOf(m) <=>
                   \E s \in DOMAIN m : \E k \in DOMAIN m[s] : c = <<s, k>>
         /\ \A s \in DOMAIN m : \A k \in DOMAIN m[s] : ContentOf(m)[<<s, k>>] = m[s][k]
<1> DEFINE D == UNION {{s} \X DOMAIN m[s] : s \in DOMAIN m}
<1>1. \A c : c \in D <=> \E s \in DOMAIN m : \E k \in DOMAIN m[s] : c = <<s, k>>
  OBVIOUS
<1>2. ContentOf(m) = [c \in D |-> m[c[1]][c[2]]]
  BY DEF ContentOf
<1> HIDE DEF D
<1>3. DOMAIN ContentOf(m) = D /\ \A c \in D : ContentOf(m)[c] = m[c[1]][c[2]]
  BY <1>2
<1> QED BY <1>1, <1>3

(* The array of a result has cells of its own, with what the loop stores.  *)
IsFresh(q, f) ==
  LET new == NewArray'   old == Contents   now == Contents'
  IN /\ A!Appended
     /\ new.shape = q /\ new.dense /\ IsInjective(new.cell)
     /\ Range(new.cell) \cap DOMAIN old = {}
     /\ DOMAIN now = DOMAIN old \cup Range(new.cell)
     /\ \A c \in DOMAIN old : now[c] = old[c]
     /\ \A i \in Indices(q) : now[new.cell[i]] = f[Position(RowMajor(q), i)]

(* A result of this shape is made, with f(k) at position k.                *)
Stores(q, f) ==
  /\ memory' = Append(memory, f) /\ DOMAIN f = 0..numel(q) - 1
  /\ tensors' = Append(tensors, [storage |-> Len(memory) + 1, offset |-> 0,
                                 shape |-> q, stride |-> compute_row_major(q)])

LEMMA FreshArray ==
  ASSUME ViewsInv, NEW q \in Seq(Nat), NEW f, Stores(q, f)
  PROVE  IsFresh(q, f)
<1> DEFINE n == Len(memory)
           v == [storage |-> n + 1, offset |-> 0, shape |-> q, stride |-> compute_row_major(q)]
           b == numel(q) - 1
           old == Contents
           now == Contents'
           cell == [i \in Indices(q) |-> <<n + 1, Position(RowMajor(q), i)>>]
<1>0. /\ memory' = Append(memory, f) /\ DOMAIN f = 0..b /\ tensors' = Append(tensors, v)
  BY DEF Stores
<1>1. /\ memory \in Seq(Storages) /\ n \in Nat
      /\ Len(memory') = n + 1 /\ DOMAIN memory = 1..n /\ DOMAIN memory' = 1..n + 1
      /\ \A s \in 1..n : memory'[s] = memory[s]
      /\ memory'[n + 1] = f /\ DOMAIN f = 0..b
  <2>1. memory \in Seq(Storages) /\ n \in Nat /\ DOMAIN memory = 1..n
    BY LengthFacts DEF ViewsInv
  <2> DEFINE S == Storages \cup {f}
  <2>2. memory \in Seq(S) /\ f \in S
    BY <2>1
  <2> HIDE DEF S
  <2>3. /\ memory' \in Seq(S) /\ Len(memory') = n + 1
        /\ \A x \in 1..n : memory'[x] = memory[x]
        /\ memory'[n + 1] = f
    BY <1>0, <2>2, AppendFacts
  <2> QED BY <1>0, <2>1, <2>3, LengthFacts
<1>2. v \in Tensors /\ v.shape = q /\ v.stride = RowMajor(q) /\ v.offset = 0 /\ v.storage = n + 1
  <2>1. v.shape = q /\ v.stride = RowMajor(q) /\ v.offset = 0 /\ v.storage = n + 1
    BY DEF compute_row_major
  <2>2. n + 1 \in Nat /\ compute_row_major(q) \in Seq(Nat)
    BY <1>1, RowMajorFacts DEF compute_row_major
  <2> HIDE DEF n
  <2> QED BY <2>1, <2>2 DEF Tensors
<1>3. A!Appended /\ NewArray' = ArrayOf(v)
  BY <1>0, <1>2, Appending
<1> HIDE DEF v, n, b
<1>4. ArrayOf(v).shape = q /\ ArrayOf(v).dense /\ ArrayOf(v).cell = cell
  <2>1. Dense(v)
    BY <1>2, RowMajorIsDense
  <2>2. \A i \in Indices(q) : Address(v, i) = Position(RowMajor(q), i)
    BY <1>2, IndexFacts DEF Address
  <2> QED BY <1>2, <2>1, <2>2 DEF ArrayOf
<1>5. ASSUME NEW i \in Indices(q)
      PROVE  /\ cell[i] = <<n + 1, Position(RowMajor(q), i)>> /\ Position(RowMajor(q), i) \in 0..b
             /\ Unflatten(q, Position(RowMajor(q), i)) = i
  BY IndexFacts DEF b
<1>6. DOMAIN cell = Indices(q)
  OBVIOUS
<1> HIDE DEF cell
<1>7. IsInjective(cell)
  BY <1>5, <1>6 DEF IsInjective
<1>8. Range(cell) = {<<n + 1, k>> : k \in 0..b}
  <2>1. ASSUME NEW c \in Range(cell) PROVE c \in {<<n + 1, k>> : k \in 0..b}
    <3>1. PICK i \in Indices(q) : c = cell[i]
      BY <1>6 DEF Range
    <3> QED BY <1>5, <3>1
  <2>2. ASSUME NEW k \in 0..b PROVE <<n + 1, k>> \in Range(cell)
    <3>1. Unflatten(q, k) \in Indices(q) /\ Position(RowMajor(q), Unflatten(q, k)) = k
      BY NumberFacts DEF b
    <3>2. cell[Unflatten(q, k)] = <<n + 1, k>>
      BY <1>5, <3>1
    <3> QED BY <1>6, <3>1, <3>2 DEF Range
  <2> QED BY <2>1, <2>2
<1>9. /\ \A c : c \in DOMAIN old <=> \E s \in 1..n : \E k \in DOMAIN memory[s] : c = <<s, k>>
      /\ \A s \in 1..n : \A k \in DOMAIN memory[s] : old[<<s, k>>] = memory[s][k]
      /\ \A c : c \in DOMAIN now <=> \E s \in 1..n + 1 : \E k \in DOMAIN memory'[s] : c = <<s, k>>
      /\ \A s \in 1..n + 1 : \A k \in DOMAIN memory'[s] : now[<<s, k>>] = memory'[s][k]
  <2>1. DOMAIN memory = 1..n /\ DOMAIN memory' = 1..n + 1
    BY <1>1
  <2>2. /\ \A c : c \in DOMAIN old <=>
                  \E s \in DOMAIN memory : \E k \in DOMAIN memory[s] : c = <<s, k>>
        /\ \A s \in DOMAIN memory : \A k \in DOMAIN memory[s] : old[<<s, k>>] = memory[s][k]
    <3>1. old = ContentOf(memory)
      BY DEF Contents, ContentOf
    <3> HIDE DEF old
    <3> QED BY <3>1, ContentFacts
  <2>3. /\ \A c : c \in DOMAIN now <=>
                  \E s \in DOMAIN memory' : \E k \in DOMAIN memory'[s] : c = <<s, k>>
        /\ \A s \in DOMAIN memory' : \A k \in DOMAIN memory'[s] : now[<<s, k>>] = memory'[s][k]
    <3> DEFINE m == memory'
    <3> HIDE DEF m
    <3>1. /\ \A c : c \in DOMAIN ContentOf(m) <=>
                    \E s \in DOMAIN m : \E k \in DOMAIN m[s] : c = <<s, k>>
          /\ \A s \in DOMAIN m : \A k \in DOMAIN m[s] : ContentOf(m)[<<s, k>>] = m[s][k]
      BY ContentFacts
    <3>2. now = ContentOf(m)
      BY DEF Contents, ContentOf, m
    <3> HIDE DEF now
    <3> QED BY ONLY <3>1, <3>2 DEF m
  <2> HIDE DEF old, now
  <2>4. /\ \A c : c \in DOMAIN old <=> \E s \in 1..n : \E k \in DOMAIN memory[s] : c = <<s, k>>
        /\ \A s \in 1..n : \A k \in DOMAIN memory[s] : old[<<s, k>>] = memory[s][k]
    BY ONLY <2>1, <2>2
  <2>5. /\ \A c : c \in DOMAIN now <=>
                  \E s \in 1..n + 1 : \E k \in DOMAIN memory'[s] : c = <<s, k>>
        /\ \A s \in 1..n + 1 : \A k \in DOMAIN memory'[s] : now[<<s, k>>] = memory'[s][k]
    BY ONLY <2>1, <2>3
  <2> QED BY <2>4, <2>5
<1> HIDE DEF old, now
<1>10. n + 1 \in 1..n + 1 /\ DOMAIN memory'[n + 1] = 0..b
  <2>1. n \in Nat /\ memory'[n + 1] = f /\ DOMAIN f = 0..b
    BY <1>1
  <2> QED BY ONLY <2>1
<1>11. Range(cell) \cap DOMAIN old = {}
  <2> SUFFICES ASSUME NEW c \in Range(cell), c \in DOMAIN old PROVE FALSE
    OBVIOUS
  <2>1. PICK s \in 1..n : \E k \in DOMAIN memory[s] : c = <<s, k>>
    BY <1>9
  <2>2. PICK k \in 0..b : c = <<n + 1, k>>
    BY <1>8
  <2> QED BY <1>1, <2>1, <2>2
<1>12. DOMAIN now = DOMAIN old \cup Range(cell)
  <2>1. ASSUME NEW c \in DOMAIN now PROVE c \in DOMAIN old \cup Range(cell)
    <3>1. PICK s \in 1..n + 1 : \E k \in DOMAIN memory'[s] : c = <<s, k>>
      BY <1>9
    <3>2. PICK k \in DOMAIN memory'[s] : c = <<s, k>>
      BY <3>1
    <3>3. CASE s = n + 1
      BY <1>1, <1>8, <3>2, <3>3
    <3>4. CASE s # n + 1
      <4>1. s \in 1..n
        BY <1>1, <3>4
      <4> QED BY <1>1, <1>9, <3>2, <4>1
    <3> QED BY <3>3, <3>4
  <2>2. ASSUME NEW c \in DOMAIN old PROVE c \in DOMAIN now
    <3>1. PICK s \in 1..n : \E k \in DOMAIN memory[s] : c = <<s, k>>
      BY <1>9
    <3>2. s \in 1..n + 1
      BY <1>1
    <3> QED BY <1>1, <1>9, <3>1, <3>2
  <2>3. ASSUME NEW c \in Range(cell) PROVE c \in DOMAIN now
    <3>1. PICK k \in 0..b : c = <<n + 1, k>>
      BY <1>8
    <3>2. n + 1 \in 1..n + 1 /\ k \in DOMAIN memory'[n + 1]
      BY <1>10
    <3> QED BY <1>9, <3>1, <3>2
  <2> QED BY <2>1, <2>2, <2>3
<1>13. ASSUME NEW c \in DOMAIN old PROVE now[c] = old[c]
  <2>1. PICK s \in 1..n : \E k \in DOMAIN memory[s] : c = <<s, k>>
    BY <1>9
  <2>2. PICK k \in DOMAIN memory[s] : c = <<s, k>>
    BY <2>1
  <2>3. s \in 1..n + 1 /\ memory'[s] = memory[s]
    BY <1>1
  <2>4. now[<<s, k>>] = memory'[s][k] /\ old[<<s, k>>] = memory[s][k]
    BY <1>9, <2>2, <2>3
  <2> QED BY <2>2, <2>3, <2>4
<1>14. ASSUME NEW i \in Indices(q) PROVE now[cell[i]] = f[Position(RowMajor(q), i)]
  <2> DEFINE k == Position(RowMajor(q), i)
  <2>1. cell[i] = <<n + 1, k>> /\ k \in 0..b
    BY <1>5
  <2> HIDE DEF k
  <2>2. n + 1 \in 1..n + 1 /\ k \in DOMAIN memory'[n + 1]
    BY <1>10, <2>1
  <2>3. now[<<n + 1, k>>] = memory'[n + 1][k]
    BY <1>9, <2>2
  <2> QED BY <1>1, <2>1, <2>3 DEF k
<1> QED BY <1>3, <1>4, <1>7, <1>11, <1>12, <1>13, <1>14 DEF IsFresh, old, now

FreshWith(q, specified, g) ==
  LET new == A!Last(AsArrays')
  IN /\ A!Appended
     /\ new.shape = q /\ new.dense /\ A!IsInjective(new.cell)
     /\ A!Range(new.cell) \cap DOMAIN Contents = {}
     /\ DOMAIN Contents' = DOMAIN Contents \cup A!Range(new.cell)
     /\ \A c \in DOMAIN Contents : Contents'[c] = Contents[c]
     /\ specified => \A i \in A!Indices(q) : Contents'[new.cell[i]] = g[i]

LEMMA FreshBridge ==
  ASSUME ViewsInv, NEW q \in Seq(Nat), NEW f, Stores(q, f), NEW specified, NEW g,
         specified => \A i \in Indices(q) : g[i] = f[Position(RowMajor(q), i)]
  PROVE  FreshWith(q, specified, g)
<1>0. IsFresh(q, f)
  BY FreshArray
<1>1. A!Appended
  BY <1>0 DEF IsFresh
<1>2. /\ NewArray'.shape = q /\ NewArray'.dense /\ IsInjective(NewArray'.cell)
      /\ Range(NewArray'.cell) \cap DOMAIN Contents = {}
      /\ DOMAIN Contents' = DOMAIN Contents \cup Range(NewArray'.cell)
      /\ \A c \in DOMAIN Contents : Contents'[c] = Contents[c]
      /\ specified => \A i \in Indices(q) : Contents'[NewArray'.cell[i]] = g[i]
  BY <1>0 DEF IsFresh
<1>3. A!Last(AsArrays') = NewArray'
  BY SameSequences DEF NewArray
<1> DEFINE new == NewArray'
<1>4. /\ (A!IsInjective(new.cell) <=> IsInjective(new.cell))
      /\ A!Range(new.cell) = Range(new.cell) /\ A!Indices(q) = Indices(q)
  BY SameSequences, SameIndices
<1> HIDE DEF new
<1> QED BY ONLY <1>1, <1>2, <1>3, <1>4 DEF new, FreshWith

(* An element as Arrays sees it, and as the loops read it.                 *)
ElementOf(x, i) == Contents[AsArrays[x].cell[i]]

LEMMA ElementFacts ==
  ASSUME ViewsInv, NEW x \in Tensor, AsArrays[x].dense,
         NEW i \in Indices(tensors[x].shape)
  PROVE  ElementOf(x, i) = At(tensors[x], Position(RowMajor(tensors[x].shape), i))
<1> DEFINE t == tensors[x]
           k == Position(RowMajor(t.shape), i)
<1>1. /\ t.shape \in Seq(Nat) /\ Dense(t)
      /\ AsArrays[x].cell[i] = <<t.storage, Address(t, i)>>
  BY ArrayFacts
<1>2. Address(t, i) = t.offset + k
  BY <1>1, DenseElement
<1>3. t.storage \in DOMAIN memory /\ t.offset + k \in DOMAIN memory[t.storage]
  <2>1. memory \in Seq(Storages) /\ x \in 1..Len(tensors)
    BY LengthFacts DEF ViewsInv, Tensor
  <2>2. Places(t, memory)
    BY <2>1 DEF ViewsInv
  <2>3. k \in 0..numel(t.shape) - 1
    BY <1>1, IndexFacts
  <2> HIDE DEF t, k
  <2> QED BY <2>1, <2>2, <2>3, LengthFacts DEF Places, Within, ReadsIn
<1> HIDE DEF t, k
<1>4. Contents[<<t.storage, t.offset + k>>] = memory[t.storage][t.offset + k]
  BY <1>3, ContentFacts DEF Contents, ContentOf
<1>5. ElementOf(x, i) = At(t, k)
  BY <1>1, <1>2, <1>4 DEF ElementOf, At
<1> QED BY <1>5 DEF t, k

LEMMA AllDenseFacts ==
  A!AllDense <=> \A i \in DOMAIN call'.of : AsArrays[call'.of[i]].dense
BY DEF A!AllDense, A!Operand

LEMMA FullTail ==
  ASSUME NEW e \in Int, NEW q \in Seq(Nat)
  PROVE  Tail(<<e>> \o q) = q /\ (<<e>> \o q)[1] = e
OBVIOUS

LEMMA FullImplements ==
  ASSUME ViewsInv, NEW q \in Seq(Nat), NEW value \in Int, Full(q, value)
  PROVE  A!Filled
<1> DEFINE f == [k \in 0..numel(q) - 1 |-> value]
           g == [i \in Indices(q) |-> value]
<1>1. Stores(q, f)
  BY DEF Full, Result, Stores
<1>2. \A i \in Indices(q) : g[i] = f[Position(RowMajor(q), i)]
  BY IndexFacts
<1>3. \A i \in Indices(q) : g[i] = value
  OBVIOUS
<1> HIDE DEF f, g
<1>4. FreshWith(q, TRUE, g)
  BY <1>1, <1>2, FreshBridge
<1>5. call'.op = "full" /\ Tail(call'.by) = q /\ call'.by[1] = value
  BY FullTail DEF Full, Called
<1> DEFINE shape == Tail(call'.by)
           e == call'.by[1]
<1>6. FreshWith(shape, TRUE, g) /\ \A i \in A!Indices(shape) : g[i] = e
  BY <1>3, <1>4, <1>5, SameIndices
<1> HIDE DEF shape, e
<1> QED BY ONLY <1>5, <1>6 DEF A!Filled, A!Calls, A!Arg, FreshWith, A!Fresh, shape, e

LEMMA CopyImplements ==
  ASSUME ViewsInv, NEW x \in Tensor, CopyTo(x)
  PROVE  A!Copied
<1> DEFINE t == tensors[x]
           q == t.shape
           f == [k \in 0..numel(q) - 1 |-> At(t, k)]
           g == [i \in Indices(q) |-> ElementOf(x, i)]
           specified == A!AllDense
<1>1. Stores(q, f)
  BY DEF CopyTo, Result, Stores
<1>2. q \in Seq(Nat) /\ AsArrays[x].shape = q
  BY ArrayFacts
<1>3. call' = [op |-> "to", of |-> <<x>>, by |-> <<>>]
  BY DEF CopyTo, Called
<1>4. specified => AsArrays[x].dense
  BY <1>3, AllDenseFacts
<1>5. ASSUME AsArrays[x].dense, NEW i \in Indices(q)
      PROVE  g[i] = f[Position(RowMajor(q), i)]
  BY <1>2, <1>5, IndexFacts, ElementFacts
<1>6. \A i \in Indices(q) : g[i] = ElementOf(x, i)
  OBVIOUS
<1> HIDE DEF t, q, f, g, specified
<1>7. FreshWith(q, specified, g)
  BY <1>1, <1>2, <1>4, <1>5, FreshBridge
<1> DEFINE y == call'.of[1]
           shape == AsArrays[y].shape
<1>8. /\ FreshWith(shape, specified, g) /\ call'.op = "to"
      /\ \A i \in A!Indices(shape) : g[i] = ElementOf(y, i)
  BY <1>2, <1>3, <1>6, <1>7, SameIndices
<1> HIDE DEF y, shape
<1> QED BY ONLY <1>8 DEF A!Copied, A!Calls, A!Operand, A!Element, ElementOf, specified,
                         shape, y, FreshWith, A!Fresh

(* The operations on each element.                                         *)
Maps(op, of, x, y) ==
  /\ op \in {"add", "sub", "mul", "relu"} /\ of[1] = x /\ of[Len(of)] = y
  /\ x \in Tensor /\ y \in Tensor /\ tensors[x].shape = tensors[y].shape
  /\ Stores(tensors[x].shape, [k \in 0..numel(tensors[x].shape) - 1 |->
                                 Elementwise(op, At(tensors[x], k), At(tensors[y], k))])
  /\ call' = [op |-> op, of |-> of, by |-> <<>>]
  /\ A!AllDense => AsArrays[x].dense /\ AsArrays[y].dense

LEMMA MapImplements ==
  ASSUME ViewsInv, NEW op, NEW of, NEW x, NEW y, Maps(op, of, x, y)
  PROVE  A!Mapped
<1> DEFINE q == tensors[x].shape
           f == [k \in 0..numel(q) - 1 |-> Elementwise(op, At(tensors[x], k), At(tensors[y], k))]
           g == [i \in Indices(q) |-> Elementwise(op, ElementOf(x, i), ElementOf(y, i))]
           specified == A!AllDense
<1>1. /\ Stores(q, f) /\ x \in Tensor /\ y \in Tensor /\ tensors[y].shape = q
      /\ call'.op = op /\ call'.of = of /\ op \in {"add", "sub", "mul", "relu"}
      /\ of[1] = x /\ of[Len(of)] = y
      /\ specified => AsArrays[x].dense /\ AsArrays[y].dense
  BY DEF Maps
<1>2. q \in Seq(Nat) /\ AsArrays[x].shape = q
  BY <1>1, ArrayFacts
<1>3. ASSUME AsArrays[x].dense, AsArrays[y].dense, NEW i \in Indices(q)
      PROVE  g[i] = f[Position(RowMajor(q), i)]
  <2> DEFINE k == Position(RowMajor(q), i)
  <2>1. k \in 0..numel(q) - 1
    BY <1>2, IndexFacts
  <2>2. ElementOf(x, i) = At(tensors[x], k) /\ ElementOf(y, i) = At(tensors[y], k)
    BY <1>1, <1>2, <1>3, ElementFacts
  <2> HIDE DEF k, q
  <2> QED BY <2>1, <2>2 DEF k
<1>4. \A i \in Indices(q) : g[i] = Elementwise(op, ElementOf(x, i), ElementOf(y, i))
  OBVIOUS
<1> HIDE DEF q, f, g, specified
<1>5. FreshWith(q, specified, g)
  BY <1>1, <1>2, <1>3, FreshBridge
<1> DEFINE a == call'.of[1]
           b == call'.of[Len(call'.of)]
           shape == AsArrays[a].shape
<1>6. /\ FreshWith(shape, specified, g) /\ call'.op \in {"add", "sub", "mul", "relu"}
      /\ \A i \in A!Indices(shape) : g[i] = Elementwise(call'.op, ElementOf(a, i), ElementOf(b, i))
  BY <1>1, <1>2, <1>4, <1>5, SameIndices
<1> HIDE DEF a, b, shape
<1> QED BY ONLY <1>6 DEF A!Mapped, A!Calls, A!Operand, A!Element, ElementOf, specified,
                         shape, a, b, FreshWith, A!Fresh

LEMMA ActivationImplements ==
  ASSUME ViewsInv, NEW x \in Tensor, Activation(x)
  PROVE  A!Mapped
<1>1. call' = [op |-> "relu", of |-> <<x>>, by |-> <<>>]
  BY DEF Activation, Called
<1>2. A!AllDense => AsArrays[x].dense
  BY <1>1, AllDenseFacts
<1>3. <<x>>[1] = x /\ Len(<<x>>) = 1
  OBVIOUS
<1>4. Maps("relu", <<x>>, x, x)
  BY <1>1, <1>2, <1>3 DEF Activation, Result, Stores, Maps
<1> QED BY <1>4, MapImplements

LEMMA BinaryImplements ==
  ASSUME ViewsInv, NEW x \in Tensor, NEW y \in Tensor, NEW op \in {"add", "sub", "mul"},
         Binary(op, x, y)
  PROVE  A!Mapped
<1>1. call' = [op |-> op, of |-> <<x, y>>, by |-> <<>>]
  BY DEF Binary, Called
<1>2. A!AllDense => AsArrays[x].dense /\ AsArrays[y].dense
  <2>1. call'.of = <<x, y>> /\ DOMAIN <<x, y>> = {1, 2} /\ <<x, y>>[1] = x /\ <<x, y>>[2] = y
    BY <1>1
  <2> QED BY ONLY <2>1, AllDenseFacts
<1>3. <<x, y>>[1] = x /\ Len(<<x, y>>) = 2 /\ <<x, y>>[2] = y
  OBVIOUS
<1>4. Maps(op, <<x, y>>, x, y)
  BY <1>1, <1>2, <1>3 DEF Binary, Result, Stores, Maps
<1> QED BY <1>4, MapImplements

-----------------------------------------------------------------------------
(* The numbers that arange() lists.                                        *)

LEMMA RoundUpFacts ==
  ASSUME NEW n \in Nat \ {0}, NEW s \in Nat \ {0}
  PROVE  /\ RoundUp(n, s) \in Nat /\ RoundUp(n, s) <= n
         /\ \A k \in Nat : k * s < n <=> k < RoundUp(n, s)
<1> DEFINE a == n + s - 1
           r == a \div s
           m == a % s
<1>1. a \in Nat
  OBVIOUS
<1>2. r \in Nat /\ m \in Nat /\ a = s * r + m /\ m < s
  <2> HIDE DEF a
  <2> QED BY <1>1, Quotient
<1>3. r = RoundUp(n, s)
  BY DEF RoundUp
<1> HIDE DEF r, m
<1>4. ASSUME NEW k \in Nat PROVE k * s < n <=> k < r
  <2>1. CASE k < r
    <3>1. (k + 1) * s <= r * s
      BY <1>2, <2>1, ProductIsMonotone
    <3>2. (k + 1) * s = k * s + s /\ r * s = s * r
      BY <1>2
    <3> DEFINE x == k * s
               y == s * r
    <3>3. x \in Nat /\ y \in Nat /\ x + s <= y /\ n + s - 1 = y + m
      BY <1>2, <3>1, <3>2
    <3> HIDE DEF x, y
    <3>4. x < n
      BY <1>2, <3>3
    <3> QED BY <2>1, <3>4 DEF x
  <2>2. CASE ~(k < r)
    <3>1. r * s <= k * s
      BY <1>2, <2>2, ProductIsMonotone
    <3> DEFINE x == k * s
               y == s * r
    <3>2. x \in Nat /\ y \in Nat /\ y <= x /\ n + s - 1 = y + m
      BY <1>2, <3>1
    <3> HIDE DEF x, y
    <3>3. ~(x < n)
      BY <1>2, <3>2
    <3> QED BY <2>2, <3>3 DEF x
  <2> QED BY <2>1, <2>2
<1>5. r <= n
  <2>1. 1 * n <= s * n
    BY ProductIsMonotone
  <2>2. ~(n * s < n)
    BY <2>1
  <2>3. ~(n < r)
    BY <1>4, <2>2
  <2> QED BY <1>2, <2>3
<1> QED BY <1>2, <1>3, <1>4, <1>5

(* The numbers of the members of start, start + step, ... before end.      *)
Before(start, end, step) ==
  {k \in 0..IF end > start THEN end - start ELSE start - end :
     IF step > 0 THEN start + k * step < end ELSE start + k * step > end}

LEMMA CountIsCardinality ==
  ASSUME NEW start \in Int, NEW end \in Int, NEW step \in Int, step # 0
  PROVE  Cardinality(Before(start, end, step)) = Count(start, end, step)
<1> DEFINE c == Count(start, end, step)
           B == Before(start, end, step)
<1>1. c \in Nat
  BY CountIsNatural
<1>2. B = 0..c - 1
  <2>1. CASE step > 0 /\ end > start
    <3> DEFINE n == end - start
    <3>1. n \in Nat \ {0} /\ step \in Nat \ {0} /\ c = RoundUp(n, step)
      BY <2>1 DEF Count
    <3>2. c <= n /\ \A k \in Nat : k * step < n <=> k < c
      BY <3>1, RoundUpFacts
    <3>3. B = {k \in 0..n : start + k * step < end}
      BY <2>1 DEF Before
    <3>4. ASSUME NEW k \in Nat PROVE start + k * step < end <=> k < c
      <4> DEFINE x == k * step
      <4>1. x \in Int /\ (x < n <=> k < c)
        BY <3>2
      <4> HIDE DEF x, c
      <4>2. start + x < end <=> k < c
        BY <4>1
      <4> QED BY <4>2 DEF x
    <3> HIDE DEF B, c, n
    <3> QED BY <1>1, <3>1, <3>2, <3>3, <3>4
  <2>2. CASE ~(step > 0) /\ start > end
    <3> DEFINE n == start - end
               s == -step
    <3>1. n \in Nat \ {0} /\ s \in Nat \ {0} /\ c = RoundUp(n, s)
      BY <2>2 DEF Count
    <3> HIDE DEF c
    <3>2. c <= n /\ \A k \in Nat : k * s < n <=> k < c
      <4> HIDE DEF n, s
      <4> QED BY <3>1, RoundUpFacts
    <3>3. B = {k \in 0..n : start + k * step > end}
      BY <2>2 DEF Before
    <3>4. ASSUME NEW k \in Nat PROVE start + k * step > end <=> k < c
      <4> DEFINE x == k * step
                 y == k * s
      <4>1. x \in Int /\ y = -x /\ (y < n <=> k < c)
        BY <3>2
      <4> HIDE DEF x, y
      <4>2. start + x > end <=> k < c
        BY <4>1
      <4> QED BY <4>2 DEF x
    <3> HIDE DEF B, n
    <3> QED BY <1>1, <3>1, <3>2, <3>3, <3>4
  <2>3. CASE step > 0 /\ ~(end > start)
    <3>1. c = 0 /\ B = {k \in 0..start - end : start + k * step < end}
      BY <2>3 DEF Count, Before
    <3>2. ASSUME NEW k \in Nat PROVE ~(start + k * step < end)
      <4> DEFINE x == k * step
      <4>1. x \in Nat
        BY <2>3
      <4> HIDE DEF x
      <4>2. ~(start + x < end)
        BY <2>3, <4>1
      <4> QED BY <4>2 DEF x
    <3> HIDE DEF B, c
    <3> QED BY <3>1, <3>2
  <2>4. CASE ~(step > 0) /\ ~(start > end)
    <3> DEFINE n == IF end > start THEN end - start ELSE start - end
    <3>1. c = 0 /\ B = {k \in 0..n : start + k * step > end} /\ n \in Nat
      BY <2>4 DEF Count, Before
    <3>2. ASSUME NEW k \in Nat PROVE ~(start + k * step > end)
      <4> DEFINE x == k * step
                 y == k * (-step)
      <4>1. y \in Nat /\ x \in Int /\ x = -y
        BY <2>4
      <4> HIDE DEF x, y
      <4>2. ~(start + x > end)
        BY <2>4, <4>1
      <4> QED BY <4>2 DEF x
    <3> HIDE DEF B, c, n
    <3>3. B = {}
      <4>1. \A k \in 0..n : k \in Nat
        BY <3>1
      <4> QED BY ONLY <3>1, <3>2, <4>1
    <3> QED BY <3>1, <3>3
  <2> QED BY <2>1, <2>2, <2>3, <2>4
<1> HIDE DEF B, c
<1>3. Cardinality(0..c - 1) = c
  BY <1>1, FS_Interval
<1> QED BY <1>2, <1>3 DEF B, c

LEMMA PositionInOne ==
  ASSUME NEW q \in Seq(Nat), Len(q) = 1, NEW i \in Indices(q)
  PROVE  Position(RowMajor(q), i) = i[1] /\ i[1] \in Nat
<1> DEFINE w == RowMajor(q)
<1>1. w \in Seq(Nat) /\ Len(w) = 1 /\ w[1] = 1
  <2>1. w \in Seq(Nat) /\ Len(w) = 1 /\ w[1] = Behind(q, 1)
    BY RowMajorFacts
  <2>2. Behind(q, 1) = 1
    BY BehindFacts
  <2> QED BY <2>1, <2>2
<1>2. i \in [1..1 -> Nat]
  BY IndexFacts
<1> HIDE DEF w
<1>3. PICK T : Sums(T, w, i) /\ Position(w, i) = T[1]
  BY <1>1, <1>2, PositionUnfolds
<1>4. T[0] = 0 /\ T[1] = T[0] + i[1] * w[1]
  BY <1>1, <1>3 DEF Sums
<1>5. i[1] \in Nat
  BY <1>2
<1> QED BY <1>1, <1>3, <1>4, <1>5 DEF w

LEMMA SameCardinality == ASSUME NEW S PROVE A!Cardinality(S) = Cardinality(S)
BY DEF Cardinality, A!Cardinality

LEMMA ArangeImplements ==
  ASSUME ViewsInv, NEW start \in Int, NEW end \in Int, NEW step \in Int,
         Arange(start, end, step)
  PROVE  A!Ranged
<1> DEFINE q == <<Count(start, end, step)>>
           f == [k \in 0..numel(q) - 1 |-> start + k * step]
           g == [i \in Indices(q) |-> start + i[1] * step]
<1>1. Stores(q, f) /\ step # 0
  BY DEF Arange, Result, Stores
<1>2. q \in Seq(Nat) /\ Len(q) = 1
  BY <1>1, CountIsNatural, Singles
<1>3. call' = [op |-> "arange", of |-> <<>>, by |-> <<start, end, step>>]
  BY DEF Arange, Called
<1>4. q = <<Cardinality(Before(start, end, step))>>
  BY <1>1, CountIsCardinality
<1> HIDE DEF q
<1>5. \A i \in Indices(q) : g[i] = f[Position(RowMajor(q), i)]
  BY <1>2, PositionInOne, IndexFacts
<1>6. \A i \in Indices(q) : g[i] = start + i[1] * step
  OBVIOUS
<1> HIDE DEF f, g
<1>7. FreshWith(q, TRUE, g)
  BY <1>1, <1>2, <1>5, FreshBridge
<1> DEFINE s == call'.by[1]
           e == call'.by[2]
           d == call'.by[3]
           shape == <<A!Cardinality(Before(s, e, d))>>
<1>8. s = start /\ e = end /\ d = step /\ call'.op = "arange"
  BY <1>3
<1> HIDE DEF s, e, d
<1>9. /\ FreshWith(shape, TRUE, g)
      /\ \A i \in A!Indices(shape) : g[i] = s + i[1] * d
  BY <1>4, <1>6, <1>7, <1>8, SameIndices, SameCardinality
<1>10. call'.op = "arange"
  BY <1>8
<1> HIDE DEF shape
<1>11. A!Fresh(shape, TRUE, LAMBDA index : s + index[1] * d)
  BY ONLY <1>9 DEF FreshWith, A!Fresh
<1> QED BY ONLY <1>10, <1>11 DEF A!Ranged, A!Calls, A!Arg, shape, Before, s, e, d

-----------------------------------------------------------------------------
(* Results of two operands or of two dimensions.                           *)

SwapsTo(q, d, e) == \A i \in Indices(Swap(q, d, e)) : Swap(i, d, e) \in Indices(q)

LEMMA SwapIndices ==
  ASSUME NEW q \in Seq(Nat), NEW d \in 1..Len(q), NEW e \in 1..Len(q)
  PROVE  Swap(q, d, e) \in Seq(Nat) /\ SwapsTo(q, d, e)
<1> DEFINE n == Len(q)
           r == Swap(q, d, e)
<1>1. n \in Nat /\ DOMAIN q = 1..n /\ q \in [1..n -> Nat] /\ d \in 1..n /\ e \in 1..n
  BY SequenceFacts
<1> HIDE DEF n
<1>2. IsSwapped(r, q, n, d, e)
  BY <1>1, SwapFacts
<1> HIDE DEF r
<1>3. /\ r \in [1..n -> Nat] /\ r[d] = q[e] /\ r[e] = q[d]
      /\ \A c \in 1..n : c # d /\ c # e => r[c] = q[c]
  BY <1>2 DEF IsSwapped
<1>4. r \in Seq(Nat) /\ Len(r) = n
  BY <1>1, <1>3, FunctionIsSequence
<1>5. r # <<>> /\ q # <<>>
  <2>1. n # 0
    BY <1>1
  <2>2. (r = <<>> => n = 0) /\ (q = <<>> => n = 0)
    BY <1>4 DEF n
  <2> QED BY <2>1, <2>2
<1>6. ASSUME NEW i \in Indices(r) PROVE Swap(i, d, e) \in Indices(q)
  <2> DEFINE j == Swap(i, d, e)
  <2>1. i \in Box(r) /\ Indices(q) = Box(q)
    BY <1>4, <1>5, IndicesAreBox
  <2>2. i \in [1..n -> Nat] /\ \A c \in 1..n : i[c] < r[c]
    BY <1>4, <2>1, BoxOf
  <2>3. /\ j \in [1..n -> Nat] /\ j[d] = i[e] /\ j[e] = i[d]
        /\ \A c \in 1..n : c # d /\ c # e => j[c] = i[c]
    <3>1. IsSwapped(j, i, n, d, e)
      BY <1>1, <2>2, SwapFacts
    <3> QED BY <3>1 DEF IsSwapped
  <2> HIDE DEF j
  <2>4. \A c \in 1..n : j[c] < q[c]
    BY <1>1, <1>3, <2>2, <2>3
  <2> QED BY <2>1, <2>3, <2>4, BoxOf DEF n, j
<1> QED BY <1>4, <1>6 DEF SwapsTo, r

LEMMA TransposeImplements ==
  ASSUME ViewsInv, NEW x \in Tensor, NEW d \in DOMAIN tensors[x].shape,
         NEW e \in DOMAIN tensors[x].shape, TransposeCopy(x, d, e)
  PROVE  A!Transposed
<1> DEFINE t == tensors[x]
           p == t.shape
           q == Swap(p, d, e)
           f == [k \in 0..numel(q) - 1 |->
                   At(t, Position(compute_row_major(p), Swap(Unflatten(q, k), d, e)))]
           g == [i \in Indices(q) |-> ElementOf(x, Swap(i, d, e))]
           specified == A!AllDense
<1>1. Stores(q, f)
  BY DEF TransposeCopy, Result, Stores
<1>2. p \in Seq(Nat) /\ AsArrays[x].shape = p /\ d \in 1..Len(p) /\ e \in 1..Len(p)
  BY ArrayFacts, TensorFacts
<1>3. call' = [op |-> "transpose", of |-> <<x>>, by |-> <<d, e>>]
  BY DEF TransposeCopy, Called
<1>4. specified => AsArrays[x].dense
  BY <1>3, AllDenseFacts
<1> HIDE DEF p
<1>5. q \in Seq(Nat) /\ SwapsTo(p, d, e)
  BY <1>2, SwapIndices
<1>6. ASSUME AsArrays[x].dense, NEW i \in Indices(q)
      PROVE  g[i] = f[Position(RowMajor(q), i)]
  <2> DEFINE k == Position(RowMajor(q), i)
             j == Swap(i, d, e)
  <2>1. k \in 0..numel(q) - 1 /\ Unflatten(q, k) = i
    BY <1>5, IndexFacts
  <2>2. j \in Indices(p)
    BY <1>5 DEF SwapsTo
  <2>3. ElementOf(x, j) = At(t, Position(RowMajor(p), j))
    <3> HIDE DEF j
    <3> QED BY <1>6, <2>2, ElementFacts DEF p
  <2>4. g[i] = ElementOf(x, j)
    OBVIOUS
  <2>5. f[k] = At(t, Position(RowMajor(p), j))
    <3> HIDE DEF k, q
    <3> QED BY <2>1 DEF compute_row_major
  <2> QED BY <2>3, <2>4, <2>5
<1>7. \A i \in Indices(q) : g[i] = ElementOf(x, Swap(i, d, e))
  OBVIOUS
<1>8. q = Swap(AsArrays[x].shape, d, e)
  BY <1>2
<1> HIDE DEF t, q, f, g, specified
<1>9. FreshWith(q, specified, g)
  BY <1>1, <1>4, <1>5, <1>6, FreshBridge
<1> DEFINE y == call'.of[1]
           b == call'.by[1]
           c == call'.by[2]
           shape == A!Swap(AsArrays[y].shape, b, c)
<1>10. y = x /\ b = d /\ c = e /\ call'.op = "transpose"
  BY <1>3
<1> HIDE DEF y, b, c
<1>11. /\ FreshWith(shape, specified, g) /\ call'.op = "transpose"
       /\ \A i \in A!Indices(shape) : g[i] = ElementOf(y, A!Swap(i, b, c))
  BY <1>7, <1>8, <1>9, <1>10, SameIndices, SameSequences
<1> HIDE DEF shape
<1> QED BY ONLY <1>11 DEF A!Transposed, A!Calls, A!Operand, A!Arg, A!Element, ElementOf, specified,
                          shape, y, b, c, FreshWith, A!Fresh

LEMMA PositionInTwo ==
  ASSUME NEW q \in Seq(Nat), Len(q) = 2, NEW i \in [1..2 -> Nat]
  PROVE  Position(RowMajor(q), i) = i[1] * q[2] + i[2]
<1> DEFINE w == RowMajor(q)
<1>1. w \in Seq(Nat) /\ Len(w) = 2 /\ w[1] = q[2] /\ w[2] = 1 /\ q[2] \in Nat
  <2>1. w \in Seq(Nat) /\ Len(w) = 2 /\ w[1] = Behind(q, 1) /\ w[2] = Behind(q, 2)
    BY RowMajorFacts
  <2>2. Behind(q, 2) = 1 /\ Behind(q, 2 - 1) = q[2] * Behind(q, 2) /\ q[2] \in Nat
    <3>1. 2 \in 1..Len(q) /\ q[2] \in Nat
      OBVIOUS
    <3>2. Behind(q, Len(q)) = 1
      BY BehindFacts
    <3>3. Behind(q, 2 - 1) = q[2] * Behind(q, 2)
      BY <3>1, BehindFacts
    <3> QED BY <3>1, <3>2, <3>3
  <2> QED BY <2>1, <2>2
<1> HIDE DEF w
<1>2. PICK T : Sums(T, w, i) /\ Position(w, i) = T[2]
  BY <1>1, PositionUnfolds
<1>3. T[0] = 0 /\ T[1] = T[1 - 1] + i[1] * w[1] /\ T[2] = T[2 - 1] + i[2] * w[2]
  BY <1>1, <1>2 DEF Sums
<1>4. i[1] \in Nat /\ i[2] \in Nat
  OBVIOUS
<1>5. i[1] * q[2] \in Nat
  BY <1>1, <1>4
<1> QED BY <1>1, <1>2, <1>3, <1>4, <1>5 DEF w

(* An index of a matrix.                                                   *)
LEMMA IndexOfMatrix ==
  ASSUME NEW q \in Seq(Nat), Len(q) = 2, NEW a \in Nat, NEW b \in Nat, a < q[1], b < q[2]
  PROVE  <<a, b>> \in Indices(q) /\ Position(RowMajor(q), <<a, b>>) = a * q[2] + b
<1>1. <<a, b>> \in [1..2 -> Nat] /\ <<a, b>>[1] = a /\ <<a, b>>[2] = b
  OBVIOUS
<1> DEFINE i == <<a, b>>
<1> HIDE DEF i
<1>2. i \in Box(q)
  <2>1. i \in [1..Len(q) -> Nat] /\ \A d \in 1..Len(q) : i[d] < q[d]
    BY <1>1 DEF i
  <2> QED BY <2>1, BoxOf
<1>3. q # <<>>
  OBVIOUS
<1> QED BY <1>1, <1>2, <1>3, IndicesAreBox, PositionInTwo DEF i

LEMMA SameSum == ASSUME NEW f PROVE A!SumFunction(f) = SumFunction(f)
BY DEF SumFunction, A!SumFunction, SumFunctionOnSet, A!SumFunctionOnSet,
       FoldFunctionOnSet, A!FoldFunctionOnSet, MapThenFoldSet, A!MapThenFoldSet

LEMMA MatmulImplements ==
  ASSUME ViewsInv, NEW x \in Tensor, NEW y \in Tensor, Matmul(x, y)
  PROVE  A!Multiplied
<1> DEFINE a == tensors[x]
           b == tensors[y]
           K == a.shape[2]
           N == b.shape[2]
           q == <<a.shape[1], N>>
           f == [o \in 0..numel(q) - 1 |->
                   SumFunction([k \in 0..K - 1 |->
                      At(a, (o \div N) * K + k) * At(b, k * N + (o % N))])]
           g == [i \in Indices(q) |->
                   SumFunction([k \in 0..K - 1 |->
                      ElementOf(x, <<i[1], k>>) * ElementOf(y, <<k, i[2]>>)])]
           specified == A!AllDense
<1>1. Stores(q, f) /\ Len(a.shape) = 2 /\ Len(b.shape) = 2 /\ K = b.shape[1]
  BY DEF Matmul, Result, Stores
<1>2. /\ a.shape \in Seq(Nat) /\ b.shape \in Seq(Nat)
      /\ AsArrays[x].shape = a.shape /\ AsArrays[y].shape = b.shape
  BY ArrayFacts
<1>3. call' = [op |-> "matmul", of |-> <<x, y>>, by |-> <<>>]
  BY DEF Matmul, Called
<1>4. specified => AsArrays[x].dense /\ AsArrays[y].dense
  <2>1. call'.of = <<x, y>> /\ DOMAIN <<x, y>> = {1, 2} /\ <<x, y>>[1] = x /\ <<x, y>>[2] = y
    BY <1>3
  <2> QED BY <2>1, AllDenseFacts
<1>5. a.shape[1] \in Nat /\ K \in Nat /\ N \in Nat
  <2>1. 1 \in 1..Len(a.shape) /\ 2 \in 1..Len(a.shape) /\ 2 \in 1..Len(b.shape)
    BY <1>1
  <2> QED BY <1>2, <2>1, SequenceFacts
<1>6. q \in Seq(Nat) /\ Len(q) = 2 /\ q[1] = a.shape[1] /\ q[2] = N
  BY <1>5, Pairs
<1> HIDE DEF q, K, N
<1>7. ASSUME AsArrays[x].dense, AsArrays[y].dense, NEW i \in Indices(q)
      PROVE  g[i] = f[Position(RowMajor(q), i)]
  <2> DEFINE o == Position(RowMajor(q), i)
  <2>1. o \in 0..numel(q) - 1 /\ i \in Box(q)
    BY <1>6, IndexFacts
  <2>2. i \in [1..2 -> Nat] /\ i[1] < a.shape[1] /\ i[2] < N /\ i[1] \in Nat /\ i[2] \in Nat
    <3>1. i \in [1..Len(q) -> Nat] /\ \A d \in 1..Len(q) : i[d] < q[d]
      BY <1>6, <2>1, BoxOf
    <3>2. 1 \in 1..Len(q) /\ 2 \in 1..Len(q)
      BY <1>6
    <3> QED BY <1>6, <3>1, <3>2
  <2>3. o = i[1] * N + i[2]
    BY <1>6, <2>2, PositionInTwo
  <2> HIDE DEF o
  <2>4. o \div N = i[1] /\ (o % N) = i[2]
    <3>1. N \in Nat \ {0} /\ o \in Int /\ i[2] < N
      BY <1>5, <2>1, <2>2
    <3> DEFINE u == i[1]
               v == i[2]
    <3>2. u \in Nat /\ v \in Nat /\ v < N /\ o = u * N + v
      BY <2>2, <2>3
    <3> HIDE DEF u, v
    <3>3. IsDivided(o, u, N, v)
      BY <3>1, <3>2 DEF IsDivided
    <3>4. o \div N = u /\ (o % N) = v
      BY ONLY <3>3, RemainderOfDivided
    <3> QED BY <3>4 DEF u, v
  <2>5. ASSUME NEW k \in 0..K - 1
        PROVE  /\ ElementOf(x, <<i[1], k>>) = At(a, (o \div N) * K + k)
               /\ ElementOf(y, <<k, i[2]>>) = At(b, k * N + (o % N))
    <3>1. k \in Nat /\ k < K
      BY <1>5
    <3>2. /\ <<i[1], k>> \in Indices(a.shape)
          /\ Position(RowMajor(a.shape), <<i[1], k>>) = i[1] * K + k
      <4> DEFINE s == a.shape
      <4>1. s \in Seq(Nat) /\ Len(s) = 2 /\ i[1] < s[1] /\ k < s[2] /\ K = s[2]
        BY <1>1, <1>2, <2>2, <3>1 DEF K
      <4> HIDE DEF s
      <4>2. /\ <<i[1], k>> \in Indices(s)
            /\ Position(RowMajor(s), <<i[1], k>>) = i[1] * K + k
        BY ONLY <2>2, <3>1, <4>1, IndexOfMatrix
      <4> QED BY <4>2 DEF s
    <3>3. /\ <<k, i[2]>> \in Indices(b.shape)
          /\ Position(RowMajor(b.shape), <<k, i[2]>>) = k * N + i[2]
      <4> DEFINE s == b.shape
      <4>1. s \in Seq(Nat) /\ Len(s) = 2 /\ k < s[1] /\ i[2] < s[2] /\ N = s[2]
        BY <1>1, <1>2, <2>2, <3>1 DEF N
      <4> HIDE DEF s
      <4>2. /\ <<k, i[2]>> \in Indices(s)
            /\ Position(RowMajor(s), <<k, i[2]>>) = k * N + i[2]
        BY ONLY <2>2, <3>1, <4>1, IndexOfMatrix
      <4> QED BY <4>2 DEF s
    <3>4. ElementOf(x, <<i[1], k>>) = At(a, i[1] * K + k)
      BY <1>7, <3>2, ElementFacts
    <3>5. ElementOf(y, <<k, i[2]>>) = At(b, k * N + i[2])
      BY <1>7, <3>3, ElementFacts
    <3> QED BY <2>4, <3>4, <3>5
  <2>6. f[o] = SumFunction([k \in 0..K - 1 |->
                  At(a, (o \div N) * K + k) * At(b, k * N + (o % N))])
    BY <2>1
  <2>7. g[i] = SumFunction([k \in 0..K - 1 |->
                  ElementOf(x, <<i[1], k>>) * ElementOf(y, <<k, i[2]>>)])
    OBVIOUS
  <2> HIDE DEF a, b, f, g
  <2>8. [k \in 0..K - 1 |-> ElementOf(x, <<i[1], k>>) * ElementOf(y, <<k, i[2]>>)]
          = [k \in 0..K - 1 |-> At(a, (o \div N) * K + k) * At(b, k * N + (o % N))]
    BY <2>5
  <2> QED BY <2>6, <2>7, <2>8 DEF o
<1>8. \A i \in Indices(q) :
        g[i] = A!SumFunction([k \in 0..K - 1 |->
                  ElementOf(x, <<i[1], k>>) * ElementOf(y, <<k, i[2]>>)])
  BY SameSum
<1>9. q = <<AsArrays[x].shape[1], AsArrays[y].shape[2]>> /\ K = AsArrays[x].shape[2]
  BY <1>2 DEF q, K, N
<1> HIDE DEF a, b, f, g, specified
<1>10. FreshWith(q, specified, g)
  BY <1>1, <1>4, <1>6, <1>7, FreshBridge
<1> DEFINE u == call'.of[1]
           v == call'.of[2]
           n == AsArrays[u].shape[2]
           shape == <<AsArrays[u].shape[1], AsArrays[v].shape[2]>>
<1>11. u = x /\ v = y /\ call'.op = "matmul"
  BY <1>3
<1> HIDE DEF u, v
<1>12. shape = q /\ n = K
  BY <1>9, <1>11
<1> HIDE DEF shape, n
<1>13. /\ FreshWith(shape, specified, g) /\ call'.op = "matmul"
       /\ \A i \in A!Indices(shape) :
            g[i] = A!SumFunction([k \in 0..n - 1 |->
                      ElementOf(u, <<i[1], k>>) * ElementOf(v, <<k, i[2]>>)])
  BY <1>8, <1>10, <1>11, <1>12, SameIndices
<1> QED BY ONLY <1>13 DEF A!Multiplied, A!Calls, A!Operand, A!Element, ElementOf, specified,
                          shape, n, u, v, FreshWith, A!Fresh

-----------------------------------------------------------------------------
(* The position of an index that is put together from two parts, and what  *)
(* becomes of it when one length in the middle is replaced or taken out.   *)

IsBehindOfConcat(w, u, v) ==
  /\ \A e \in 0..Len(u) : Behind(w, e) = Behind(u, e) * Product(v)
  /\ \A e \in 0..Len(v) : Behind(w, Len(u) + e) = Behind(v, e)

LEMMA FromFacts ==
  ASSUME NEW q \in Seq(Nat), NEW d \in 0..Len(q)
  PROVE  /\ SubSeq(q, d + 1, Len(q)) \in Seq(Nat)
         /\ Len(SubSeq(q, d + 1, Len(q))) = Len(q) - d
         /\ \A c \in 1..Len(q) - d : SubSeq(q, d + 1, Len(q))[c] = q[d + c]
<1> DEFINE n == Len(q)
<1>1. n \in Nat /\ d \in 0..n
  OBVIOUS
<1>2. /\ SubSeq(q, d + 1, n) \in Seq(Nat) /\ Len(SubSeq(q, d + 1, n)) = n - (d + 1) + 1
      /\ \A c \in 1..n - (d + 1) + 1 : SubSeq(q, d + 1, n)[c] = q[d + 1 + c - 1]
  <2>1. d + 1 \in 1..Len(q) + 1 /\ n \in Nat /\ n <= Len(q) /\ d + 1 <= n + 1
    BY <1>1
  <2> QED BY <2>1, SubSeqFacts
<1> HIDE DEF n
<1>3. n - (d + 1) + 1 = n - d /\ \A c \in 1..n - d : d + 1 + c - 1 = d + c
  BY <1>1
<1> QED BY <1>2, <1>3 DEF n

LEMMA BehindOfConcat ==
  ASSUME NEW u \in Seq(Nat), NEW v \in Seq(Nat), NEW w, IsConcat(w, u, v)
  PROVE  IsBehindOfConcat(w, u, v)
<1> DEFINE m == Len(u)
           n == Len(v)
<1>1. /\ w \in Seq(Nat) /\ Len(w) = m + n /\ m \in Nat /\ n \in Nat
      /\ \A e \in 1..m : w[e] = u[e]
      /\ \A e \in 1..n : w[m + e] = v[e]
  BY DEF IsConcat
<1>2. ASSUME NEW e \in 0..m PROVE Behind(w, e) = Behind(u, e) * Product(v)
  <2> DEFINE r == SubSeq(w, e + 1, Len(w))
             s == SubSeq(u, e + 1, Len(u))
             c == s \o v
  <2>1. r \in Seq(Nat) /\ Len(r) = m + n - e /\ \A k \in 1..m + n - e : r[k] = w[e + k]
    <3>1. e \in 0..Len(w)
      BY <1>1
    <3> DEFINE l == Len(w)
    <3>2. r \in Seq(Nat) /\ Len(r) = l - e /\ \A k \in 1..l - e : r[k] = w[e + k]
      BY <1>1, <3>1, FromFacts
    <3>3. l = m + n /\ m \in Nat /\ n \in Nat /\ e \in 0..m
      BY <1>1
    <3> HIDE DEF l, m, n, r
    <3> QED BY ONLY <3>2, <3>3
  <2>2. s \in Seq(Nat) /\ Len(s) = m - e /\ \A k \in 1..m - e : s[k] = u[e + k]
    BY FromFacts
  <2> HIDE DEF r, s, m, n
  <2>3. IsConcat(c, s, v)
    BY <2>2, ConcatFacts
  <2> HIDE DEF c
  <2>4. c \in Seq(Nat) /\ Len(c) = m + n - e
    BY <1>1, <2>2, <2>3 DEF IsConcat, n
  <2>5. ASSUME NEW k \in 1..m + n - e PROVE r[k] = c[k]
    <3>1. CASE k <= m - e
      <4>1. k \in 1..m - e /\ e + k \in 1..m
        BY <1>1, <3>1
      <4>2. c[k] = s[k]
        BY <2>2, <2>3, <4>1 DEF IsConcat
      <4> QED BY <1>1, <2>1, <2>2, <4>1, <4>2
    <3>2. CASE ~(k <= m - e)
      <4> DEFINE l == k - (m - e)
      <4>1. l \in 1..n /\ e + k = m + l /\ k = m - e + l
        BY <1>1, <3>2
      <4> HIDE DEF l
      <4>2. c[m - e + l] = v[l]
        BY <2>2, <2>3, <4>1 DEF IsConcat, n
      <4> QED BY <1>1, <2>1, <4>1, <4>2
    <3> QED BY <3>1, <3>2
  <2>6. r = c
    BY <2>1, <2>4, <2>5, SameSequence
  <2>7. Product(c) = Product(s) * Product(v)
    BY <2>2, ProductOfConcat DEF c
  <2> QED BY <2>6, <2>7 DEF Behind, r, s
<1>3. ASSUME NEW e \in 0..n PROVE Behind(w, m + e) = Behind(v, e)
  <2> DEFINE a == m + e
             r == SubSeq(w, a + 1, Len(w))
             s == SubSeq(v, e + 1, Len(v))
  <2>1. a \in 0..Len(w) /\ Len(w) - a = n - e
    <3> DEFINE l == Len(w)
    <3> HIDE DEF l, m, n
    <3>1. l = m + n /\ m \in Nat /\ n \in Nat /\ e \in 0..n
      BY <1>1 DEF l
    <3>2. a \in 0..l /\ l - a = n - e
      BY ONLY <3>1
    <3> QED BY <3>2 DEF l
  <2>2. r \in Seq(Nat) /\ Len(r) = n - e /\ \A k \in 1..n - e : r[k] = w[a + k]
    <3> HIDE DEF a
    <3>1. /\ r \in Seq(Nat) /\ Len(r) = Len(w) - a
          /\ \A k \in 1..Len(w) - a : r[k] = w[a + k]
      BY <1>1, <2>1, FromFacts
    <3> QED BY <2>1, <3>1
  <2>3. s \in Seq(Nat) /\ Len(s) = n - e /\ \A k \in 1..n - e : s[k] = v[e + k]
    BY FromFacts
  <2> HIDE DEF r, s
  <2>4. ASSUME NEW k \in 1..n - e PROVE r[k] = s[k]
    <3> DEFINE l == e + k
    <3> HIDE DEF m, n
    <3>1. l \in 1..n /\ a + k = m + l
      BY <1>1
    <3> HIDE DEF a, l
    <3>2. w[m + l] = v[l]
      BY <1>1, <3>1
    <3> QED BY <2>2, <2>3, <3>1, <3>2 DEF l
  <2>5. r = s
    <3>1. Len(r) = Len(s) /\ \A k \in 1..Len(r) : r[k] = s[k]
      BY <2>2, <2>3, <2>4
    <3> QED BY <2>2, <2>3, <3>1, SameSequence
  <2> QED BY <2>5 DEF Behind, r, s
<1> QED BY <1>2, <1>3 DEF IsBehindOfConcat

(* The position of an index put together from two.                         *)
IsJoined(w, i, u, a, v, b) ==
  /\ i \in [1..Len(w) -> Nat]
  /\ Position(RowMajor(w), i)
       = Position(RowMajor(u), a) * Product(v) + Position(RowMajor(v), b)

LEMMA PositionFacts ==
  ASSUME NEW q \in Seq(Nat), NEW i \in [1..Len(q) -> Nat]
  PROVE  \E T : /\ Sums(T, RowMajor(q), i) /\ Position(RowMajor(q), i) = T[Len(q)]
                /\ T \in [0..Len(q) -> Nat] /\ T[0] = 0
                /\ \A m \in 1..Len(q) : T[m] = T[m - 1] + i[m] * Behind(q, m)
<1> DEFINE w == RowMajor(q)
<1>1. w \in Seq(Nat) /\ Len(w) = Len(q) /\ \A d \in 1..Len(q) : w[d] = Behind(q, d)
  BY RowMajorFacts
<1> HIDE DEF w
<1>2. PICK T : Sums(T, w, i) /\ Position(w, i) = T[Len(w)]
  BY <1>1, PositionUnfolds
<1>3. /\ T \in [0..Len(q) -> Nat] /\ T[0] = 0
      /\ \A m \in 1..Len(q) : T[m] = T[m - 1] + i[m] * Behind(q, m)
  BY <1>1, <1>2 DEF Sums
<1> QED BY <1>1, <1>2, <1>3 DEF w

LEMMA PositionOfConcat ==
  ASSUME NEW u \in Seq(Nat), NEW v \in Seq(Nat), NEW w, IsConcat(w, u, v),
         NEW a \in [1..Len(u) -> Nat], NEW b \in [1..Len(v) -> Nat], NEW i, IsConcat(i, a, b)
  PROVE  IsJoined(w, i, u, a, v, b)
<1> DEFINE m == Len(u)
           n == Len(v)
           p == Product(v)
<1>1. m \in Nat /\ n \in Nat /\ p \in Nat /\ w \in Seq(Nat) /\ Len(w) = m + n
  BY ProductIsNatural DEF IsConcat
<1>2. Len(a) = m /\ Len(b) = n
  BY <1>1, FunctionIsSequence
<1>3. /\ i \in Seq(Nat) /\ Len(i) = m + n
      /\ \A e \in 1..m : i[e] = a[e]
      /\ \A e \in 1..n : i[m + e] = b[e]
  BY <1>2 DEF IsConcat
<1>4. /\ \A e \in 0..m : Behind(w, e) = Behind(u, e) * p
      /\ \A e \in 0..n : Behind(w, m + e) = Behind(v, e)
  BY BehindOfConcat DEF IsBehindOfConcat
<1>5. /\ \A e \in 0..m : Behind(u, e) \in Nat
      /\ \A e \in 0..n : Behind(v, e) \in Nat
  BY BehindFacts
<1>6. i \in [1..Len(w) -> Nat]
  BY <1>1, <1>3, SequenceFacts
<1>7. PICK T : /\ Position(RowMajor(w), i) = T[m + n] /\ T \in [0..m + n -> Nat] /\ T[0] = 0
               /\ \A k \in 1..m + n : T[k] = T[k - 1] + i[k] * Behind(w, k)
  <2> DEFINE l == Len(w)
  <2>1. \E T : /\ Position(RowMajor(w), i) = T[l] /\ T \in [0..l -> Nat] /\ T[0] = 0
               /\ \A k \in 1..l : T[k] = T[k - 1] + i[k] * Behind(w, k)
    BY <1>1, <1>6, PositionFacts
  <2>2. l = m + n
    BY <1>1
  <2> HIDE DEF l, m, n
  <2> QED BY ONLY <2>1, <2>2
<1>8. PICK S : /\ Position(RowMajor(u), a) = S[m] /\ S \in [0..m -> Nat] /\ S[0] = 0
               /\ \A k \in 1..m : S[k] = S[k - 1] + a[k] * Behind(u, k)
  BY PositionFacts
<1>9. PICK R : /\ Position(RowMajor(v), b) = R[n] /\ R \in [0..n -> Nat] /\ R[0] = 0
               /\ \A k \in 1..n : R[k] = R[k - 1] + b[k] * Behind(v, k)
  BY PositionFacts
<1>10. a \in [1..m -> Nat] /\ b \in [1..n -> Nat]
  OBVIOUS
<1> HIDE DEF m, n, p
<1> DEFINE Wrong == {k \in Nat : k <= m /\ T[k] # S[k] * p}
<1>11. Wrong = {}
  <2> SUFFICES ASSUME Wrong # {} PROVE FALSE
    OBVIOUS
  <2>1. PICK k \in Wrong : \A l \in Wrong : k <= l
    BY LeastMember
  <2>2. k \in Nat /\ k <= m /\ T[k] # S[k] * p
    OBVIOUS
  <2>3. k # 0
    BY <1>1, <1>7, <1>8, <2>2
  <2> DEFINE j == k - 1
  <2>4. j \in Nat /\ j <= m /\ ~(k <= j) /\ k \in 1..m /\ k \in 1..m + n /\ j \in 0..m /\ k \in 0..m
    BY <1>1, <2>2, <2>3
  <2>5. T[k] = T[j] + i[k] * Behind(w, k) /\ S[k] = S[j] + a[k] * Behind(u, k)
    BY <1>7, <1>8, <2>4
  <2> HIDE DEF j
  <2>6. T[j] = S[j] * p
    <3>1. j \notin Wrong
      <4> HIDE DEF Wrong
      <4> QED BY <2>1, <2>4
    <3> QED BY <2>4, <3>1
  <2> DEFINE x == S[j]
             y == a[k]
             z == Behind(u, k)
  <2>7. x \in Nat /\ y \in Nat /\ z \in Nat /\ i[k] = y /\ Behind(w, k) = z * p
    BY <1>3, <1>4, <1>5, <1>8, <1>10, <2>4
  <2>8. T[k] = x * p + y * (z * p) /\ S[k] = x + y * z
    BY <2>5, <2>6, <2>7
  <2> HIDE DEF x, y, z, Wrong
  <2>9. y * (z * p) = (y * z) * p
    BY <1>1, <2>7, TimesAssociates
  <2> DEFINE c == y * z
  <2>10. c \in Nat /\ (x + c) * p = x * p + c * p
    BY <1>1, <2>7
  <2> QED BY <2>2, <2>8, <2>9, <2>10
<1>12. T[m] = S[m] * p
  <2>1. m \notin Wrong
    <3> HIDE DEF Wrong
    <3> QED BY <1>11
  <2> QED BY <1>1, <2>1
<1> HIDE DEF Wrong
<1> DEFINE Bad == {k \in Nat : k <= n /\ T[m + k] # T[m] + R[k]}
<1>13. T[m] \in Nat
  <2>1. m \in 0..m + n
    BY <1>1
  <2> QED BY <1>7, <2>1
<1>14. Bad = {}
  <2> SUFFICES ASSUME Bad # {} PROVE FALSE
    OBVIOUS
  <2>1. PICK k \in Bad : \A l \in Bad : k <= l
    BY LeastMember
  <2>2. k \in Nat /\ k <= n /\ T[m + k] # T[m] + R[k]
    OBVIOUS
  <2>3. k # 0
    BY <1>1, <1>9, <1>13, <2>2
  <2> DEFINE j == k - 1
             l == m + k
  <2>4. j \in Nat /\ j <= n /\ ~(k <= j) /\ k \in 1..n /\ j \in 0..n /\ k \in 0..n
        /\ l \in 1..m + n /\ l - 1 = m + j
    BY <1>1, <2>2, <2>3
  <2>5. T[l] = T[m + j] + i[l] * Behind(w, l) /\ R[k] = R[j] + b[k] * Behind(v, k)
    <3> HIDE DEF l
    <3>1. T[l] = T[l - 1] + i[l] * Behind(w, l)
      BY <1>7, <2>4
    <3>2. R[k] = R[k - 1] + b[k] * Behind(v, k)
      BY <1>9, <2>4
    <3> QED BY <2>4, <3>1, <3>2
  <2> HIDE DEF j
  <2>6. T[m + j] = T[m] + R[j]
    <3>1. j \notin Bad
      <4> HIDE DEF Bad
      <4> QED BY <2>1, <2>4
    <3> QED BY <2>4, <3>1
  <2> DEFINE x == R[j]
             y == b[k] * Behind(v, k)
  <2>7. x \in Nat /\ i[l] = b[k] /\ Behind(w, l) = Behind(v, k) /\ y \in Nat
    <3>1. R[j] \in Nat /\ b[k] \in Nat /\ Behind(v, k) \in Nat
      BY <1>5, <1>9, <1>10, <2>4
    <3>2. i[l] = b[k]
      BY <1>3, <2>4
    <3>3. Behind(w, l) = Behind(v, k)
      BY <1>4, <2>4
    <3>4. y \in Nat
      BY <3>1
    <3> QED BY <3>1, <3>2, <3>3, <3>4
  <2>8. T[l] = T[m] + x + y /\ R[k] = x + y
    BY <2>5, <2>6, <2>7
  <2> HIDE DEF x, y, Bad
  <2> QED BY <1>13, <2>2, <2>7, <2>8
<1>15. T[m + n] = T[m] + R[n]
  <2>1. n \notin Bad
    <3> HIDE DEF Bad
    <3> QED BY <1>14
  <2> QED BY <1>1, <2>1
<1> QED BY <1>6, <1>7, <1>8, <1>9, <1>12, <1>15 DEF IsJoined, p

LEMMA JoinInBox ==
  ASSUME NEW u \in Seq(Nat), NEW v \in Seq(Nat), NEW a \in Box(u), NEW b \in Box(v)
  PROVE  u \o v \in Seq(Nat) /\ a \o b \in Box(u \o v)
<1> DEFINE w == u \o v
           i == a \o b
           m == Len(u)
           n == Len(v)
<1>1. /\ m \in Nat /\ n \in Nat /\ a \in [1..m -> Nat] /\ b \in [1..n -> Nat]
      /\ \A d \in 1..m : a[d] < u[d]
      /\ \A d \in 1..n : b[d] < v[d]
  BY BoxOf, SequenceFacts
<1>2. IsConcat(w, u, v)
  BY ConcatFacts
<1>3. a \in Seq(Nat) /\ b \in Seq(Nat) /\ Len(a) = m /\ Len(b) = n
  BY <1>1, FunctionIsSequence
<1>4. IsConcat(i, a, b)
  BY <1>3, ConcatFacts
<1> HIDE DEF w, i
<1>5. /\ w \in Seq(Nat) /\ Len(w) = m + n
      /\ \A e \in 1..m : w[e] = u[e]
      /\ \A e \in 1..n : w[m + e] = v[e]
  BY <1>2 DEF IsConcat
<1>6. /\ i \in Seq(Nat) /\ Len(i) = m + n
      /\ \A e \in 1..m : i[e] = a[e]
      /\ \A e \in 1..n : i[m + e] = b[e]
  BY <1>3, <1>4 DEF IsConcat
<1> HIDE DEF m, n
<1>7. ASSUME NEW d \in 1..m + n PROVE i[d] < w[d]
  <2>1. CASE d \in 1..m
    BY <1>1, <1>5, <1>6, <2>1
  <2>2. CASE d \notin 1..m
    <3> DEFINE e == d - m
    <3>1. e \in 1..n /\ d = m + e
      BY <1>1, <2>2
    <3> HIDE DEF e
    <3> QED BY <1>1, <1>5, <1>6, <3>1
  <2> QED BY <2>1, <2>2
<1>8. i \in [1..Len(w) -> Nat] /\ \A d \in 1..Len(w) : i[d] < w[d]
  BY <1>5, <1>6, <1>7, SequenceFacts
<1> QED BY <1>5, <1>8, BoxOf DEF w, i

LEMMA JoinPosition ==
  ASSUME NEW u \in Seq(Nat), NEW v \in Seq(Nat), NEW a \in Box(u), NEW b \in Box(v)
  PROVE  IsJoined(u \o v, a \o b, u, a, v, b)
<1>1. a \in [1..Len(u) -> Nat] /\ b \in [1..Len(v) -> Nat] /\ Len(u) \in Nat /\ Len(v) \in Nat
  BY BoxOf, SequenceFacts
<1>2. a \in Seq(Nat) /\ b \in Seq(Nat)
  BY <1>1, FunctionIsSequence
<1>3. IsConcat(u \o v, u, v) /\ IsConcat(a \o b, a, b)
  BY <1>2, ConcatFacts
<1> DEFINE w == u \o v
           i == a \o b
<1> HIDE DEF w, i
<1>4. IsJoined(w, i, u, a, v, b)
  BY <1>1, <1>3, PositionOfConcat DEF w, i
<1> QED BY <1>4 DEF w, i

(* A shape cut at a dimension of length n, and an index of it.             *)
IsCut(q, i, u, a, n, k, v, b) ==
  /\ q \in Seq(Nat) /\ i \in Box(q)
  /\ Position(RowMajor(q), i)
       = (Position(RowMajor(u), a) * n + k) * Product(v) + Position(RowMajor(v), b)

LEMMA OneInBox ==
  ASSUME NEW n \in Nat, NEW k \in Nat, k < n
  PROVE  /\ <<n>> \in Seq(Nat) /\ <<k>> \in Box(<<n>>) /\ Product(<<n>>) = n
         /\ Position(RowMajor(<<n>>), <<k>>) = k
<1> DEFINE q == <<n>>
           i == <<k>>
<1>1. q \in Seq(Nat) /\ Len(q) = 1 /\ q[1] = n /\ Product(q) = n
  BY ProductOfOne
<1>2. i \in [1..1 -> Nat] /\ i[1] = k
  OBVIOUS
<1> HIDE DEF q, i
<1>3. i \in Box(q)
  <2>1. i \in [1..Len(q) -> Nat] /\ \A d \in 1..Len(q) : i[d] < q[d]
    BY <1>1, <1>2
  <2> QED BY <1>1, <2>1, BoxOf
<1>4. i \in Indices(q)
  <2>1. q # <<>>
    <3> SUFFICES ASSUME q = <<>> PROVE FALSE
      OBVIOUS
    <3>1. Len(q) = 0
      OBVIOUS
    <3> QED BY <1>1, <3>1
  <2> QED BY <1>1, <1>3, <2>1, IndicesAreBox
<1>5. Position(RowMajor(q), i) = k
  BY <1>1, <1>2, <1>4, PositionInOne
<1> QED BY <1>1, <1>3, <1>5 DEF q, i

LEMMA CutPosition ==
  ASSUME NEW u \in Seq(Nat), NEW v \in Seq(Nat), NEW a \in Box(u), NEW b \in Box(v),
         NEW n \in Nat, NEW k \in Nat, k < n
  PROVE  IsCut((u \o <<n>>) \o v, (a \o <<k>>) \o b, u, a, n, k, v, b)
<1> DEFINE N == <<n>>
           K == <<k>>
           w == u \o N
           i == a \o K
<1>1. N \in Seq(Nat) /\ K \in Box(N) /\ Product(N) = n /\ Position(RowMajor(N), K) = k
  BY OneInBox
<1> HIDE DEF N, K
<1>2. w \in Seq(Nat) /\ i \in Box(w) /\ IsJoined(w, i, u, a, N, K)
  BY <1>1, JoinInBox, JoinPosition
<1>3. Position(RowMajor(w), i) = Position(RowMajor(u), a) * n + k
  BY <1>1, <1>2 DEF IsJoined
<1> HIDE DEF w, i
<1> DEFINE q == w \o v
           j == i \o b
<1>4. q \in Seq(Nat) /\ j \in Box(q) /\ IsJoined(q, j, w, i, v, b)
  BY <1>2, JoinInBox, JoinPosition
<1> HIDE DEF q, j
<1>5. IsCut(q, j, u, a, n, k, v, b)
  BY <1>3, <1>4 DEF IsCut, IsJoined
<1> QED BY <1>5 DEF q, j, w, i, N, K

(* A sequence, but for its d-th member, from its parts.                    *)
LEMMA OtherParts ==
  ASSUME NEW q \in Seq(Nat), NEW d \in 1..Len(q), NEW x \in Nat
  PROVE  [q EXCEPT ![d] = x]
           = (SubSeq(q, 1, d - 1) \o <<x>>) \o SubSeq(q, d + 1, Len(q))
<1> DEFINE m == Len(q)
           a == SubSeq(q, 1, d - 1)
           b == <<x>>
           c == SubSeq(q, d + 1, Len(q))
           ab == a \o b
           r == ab \o c
           e == [q EXCEPT ![d] = x]
<1>1. m \in Nat /\ d \in 1..m
  BY SequenceFacts
<1>2. /\ e \in Seq(Nat) /\ Len(e) = m /\ e[d] = x
      /\ \A k \in 1..m : k # d => e[k] = q[k]
  BY OtherLength
<1>3. /\ a \in Seq(Nat) /\ Len(a) = d - 1 /\ \A k \in 1..d - 1 : a[k] = q[k]
  OBVIOUS
<1>4. /\ c \in Seq(Nat) /\ Len(c) = m - d /\ \A k \in 1..m - d : c[k] = q[d + k]
  BY TailFacts
<1>5. b \in Seq(Nat) /\ Len(b) = 1 /\ b[1] = x
  BY Singles
<1> HIDE DEF a, b, c, e, m
<1>6. IsConcat(ab, a, b)
  BY <1>3, <1>5, ConcatFacts
<1>7. IsConcat(r, ab, c)
  BY <1>4, <1>6, ConcatFacts DEF IsConcat
<1> HIDE DEF ab, r
<1>8. /\ ab \in Seq(Nat) /\ Len(ab) = d /\ \A k \in 1..d - 1 : ab[k] = q[k]
      /\ ab[d] = x
  <2>1. Len(ab) = d - 1 + 1 /\ ab \in Seq(Nat)
    BY <1>3, <1>5, <1>6 DEF IsConcat
  <2>2. ab[d - 1 + 1] = x
    <3>1. 1 \in 1..Len(b) /\ ab[Len(a) + 1] = b[1]
      BY <1>5, <1>6 DEF IsConcat
    <3> QED BY <1>3, <1>5, <3>1
  <2>3. \A k \in 1..d - 1 : ab[k] = q[k]
    BY <1>3, <1>6 DEF IsConcat
  <2> QED BY <1>1, <2>1, <2>2, <2>3
<1>9. r \in Seq(Nat) /\ Len(r) = m
  BY <1>1, <1>4, <1>7, <1>8 DEF IsConcat
<1>10. ASSUME NEW k \in 1..m PROVE e[k] = r[k]
  <2>1. CASE k < d
    <3>1. k \in 1..Len(ab) /\ k \in 1..d - 1
      BY <1>1, <1>8, <2>1
    <3>2. r[k] = ab[k]
      BY <1>7, <3>1 DEF IsConcat
    <3> QED BY <1>1, <1>2, <1>8, <2>1, <3>1, <3>2
  <2>2. CASE k = d
    <3>1. d \in 1..Len(ab)
      BY <1>1, <1>8
    <3>2. r[d] = ab[d]
      BY <1>7, <3>1 DEF IsConcat
    <3> QED BY <1>2, <1>8, <2>2, <3>2
  <2>3. CASE d < k
    <3> DEFINE l == k - d
    <3>1. l \in 1..m - d /\ k = d + l /\ k # d
      BY <1>1, <2>3
    <3> HIDE DEF l
    <3>2. r[Len(ab) + l] = c[l]
      BY <1>4, <1>7, <3>1 DEF IsConcat
    <3> QED BY <1>2, <1>4, <1>8, <3>1, <3>2
  <2> QED BY <1>1, <2>1, <2>2, <2>3
<1>11. e = r
  BY <1>2, <1>9, <1>10, SameSequence
<1> QED BY <1>11 DEF e, r, ab, a, b, c

(* The parts of an index that fits everywhere but at d.                    *)
LEMMA PartsInBox ==
  ASSUME NEW q \in Seq(Nat), NEW d \in 1..Len(q), NEW i \in [1..Len(q) -> Nat],
         \A c \in 1..Len(q) : c # d => i[c] < q[c]
  PROVE  /\ SubSeq(i, 1, d - 1) \in Box(SubSeq(q, 1, d - 1))
         /\ SubSeq(i, d + 1, Len(i)) \in Box(SubSeq(q, d + 1, Len(q)))
         /\ i \in Seq(Nat) /\ Len(i) = Len(q)
<1> DEFINE n == Len(q)
           u == SubSeq(q, 1, d - 1)
           v == SubSeq(q, d + 1, n)
           a == SubSeq(i, 1, d - 1)
           b == SubSeq(i, d + 1, Len(i))
<1>1. n \in Nat /\ d \in 1..n
  BY SequenceFacts
<1>2. i \in Seq(Nat) /\ Len(i) = n /\ d \in 1..Len(i)
  BY <1>1, FunctionIsSequence
<1>3. u \in Seq(Nat) /\ Len(u) = d - 1 /\ \A k \in 1..d - 1 : u[k] = q[k]
  OBVIOUS
<1>4. a \in Seq(Nat) /\ Len(a) = d - 1 /\ \A k \in 1..d - 1 : a[k] = i[k]
  BY <1>2
<1>5. v \in Seq(Nat) /\ Len(v) = n - d /\ \A k \in 1..n - d : v[k] = q[d + k]
  BY TailFacts
<1>6. b \in Seq(Nat) /\ Len(b) = n - d /\ \A k \in 1..n - d : b[k] = i[d + k]
  <2>1. b \in Seq(Nat) /\ Len(b) = Len(i) - d /\ \A k \in 1..Len(i) - d : b[k] = i[d + k]
    BY <1>2, TailFacts
  <2> QED BY <1>2, <2>1
<1>7. \A c \in 1..n : c # d => i[c] < q[c]
  OBVIOUS
<1> HIDE DEF u, v, a, b, n
<1>8. a \in Box(u)
  <2>1. \A k \in 1..d - 1 : a[k] < u[k]
    BY <1>1, <1>3, <1>4, <1>7
  <2>2. a \in [1..Len(u) -> Nat] /\ \A k \in 1..Len(u) : a[k] < u[k]
    <3>1. a \in [1..Len(a) -> Nat]
      BY <1>4, SequenceFacts
    <3> QED BY <1>3, <1>4, <2>1, <3>1
  <2> QED BY <1>3, <2>2, BoxOf
<1>9. b \in Box(v)
  <2>1. \A k \in 1..n - d : b[k] < v[k]
    <3> SUFFICES ASSUME NEW k \in 1..n - d PROVE b[k] < v[k]
      OBVIOUS
    <3>1. d + k \in 1..n /\ d + k # d
      BY <1>1
    <3> QED BY <1>5, <1>6, <1>7, <3>1
  <2>2. b \in [1..Len(v) -> Nat] /\ \A k \in 1..Len(v) : b[k] < v[k]
    <3>1. b \in [1..Len(b) -> Nat]
      BY <1>6, SequenceFacts
    <3> QED BY <1>5, <1>6, <2>1, <3>1
  <2> QED BY <1>5, <2>2, BoxOf
<1> QED BY <1>2, <1>8, <1>9 DEF u, v, a, b, n

(* The index i with k in dimension d, whatever it has there.               *)
IsAt(q, d, i, k) ==
  IsCut(q, [i EXCEPT ![d] = k], SubSeq(q, 1, d - 1), SubSeq(i, 1, d - 1), q[d], k,
        SubSeq(q, d + 1, Len(q)), SubSeq(i, d + 1, Len(i)))

LEMMA ReplacedIndex ==
  ASSUME NEW q \in Seq(Nat), NEW d \in 1..Len(q), NEW i \in [1..Len(q) -> Nat],
         \A c \in 1..Len(q) : c # d => i[c] < q[c],
         NEW k \in Nat, k < q[d]
  PROVE  IsAt(q, d, i, k)
<1> DEFINE u == SubSeq(q, 1, d - 1)
           v == SubSeq(q, d + 1, Len(q))
           a == SubSeq(i, 1, d - 1)
           b == SubSeq(i, d + 1, Len(i))
           n == q[d]
           j == [i EXCEPT ![d] = k]
<1>1. a \in Box(u) /\ b \in Box(v) /\ i \in Seq(Nat) /\ Len(i) = Len(q)
  BY PartsInBox
<1>2. u \in Seq(Nat) /\ v \in Seq(Nat) /\ n \in Nat
  BY SplitAt
<1>3. q = (u \o <<n>>) \o v
  <2>1. [q EXCEPT ![d] = n] = (u \o <<n>>) \o v
    BY <1>2, OtherParts
  <2>2. [q EXCEPT ![d] = n] = q
    OBVIOUS
  <2> QED BY <2>1, <2>2
<1>4. j = (a \o <<k>>) \o b
  <2>1. d \in 1..Len(i)
    BY <1>1
  <2> QED BY <1>1, <2>1, OtherParts
<1>5. k < n
  OBVIOUS
<1> HIDE DEF u, v, a, b, n, j
<1>6. IsCut((u \o <<n>>) \o v, (a \o <<k>>) \o b, u, a, n, k, v, b)
  BY <1>1, <1>2, <1>5, CutPosition
<1>7. IsCut(q, j, u, a, n, k, v, b)
  BY <1>3, <1>4, <1>6
<1> QED BY <1>7 DEF IsAt, u, v, a, b, n, j

LEMMA NotEmpty ==
  ASSUME NEW q \in Seq(Nat), NEW d \in 1..Len(q)
  PROVE  q # <<>> /\ Indices(q) = Box(q)
<1>1. q # <<>>
  <2> SUFFICES ASSUME q = <<>> PROVE FALSE
    OBVIOUS
  <2>1. Len(q) = 0
    OBVIOUS
  <2> QED BY <2>1
<1> QED BY <1>1, IndicesAreBox

(* In a row: the elements that differ in the last index.                   *)
InRow(q, p, i, j) ==
  /\ [i EXCEPT ![Len(q)] = j] \in Indices(q)
  /\ Position(RowMajor(q), [i EXCEPT ![Len(q)] = j]) = (p \div q[Len(q)]) * q[Len(q)] + j
  /\ (p % q[Len(q)]) = i[Len(q)] /\ i[Len(q)] \in 0..q[Len(q)] - 1

LEMMA RowIndex ==
  ASSUME NEW q \in Seq(Nat), NEW i \in Indices(q), NEW j \in Nat, j < q[Len(q)]
  PROVE  InRow(q, Position(RowMajor(q), i), i, j)
<1> DEFINE d == Len(q)
           n == q[d]
           u == SubSeq(q, 1, d - 1)
           v == SubSeq(q, d + 1, Len(q))
           a == SubSeq(i, 1, d - 1)
           b == SubSeq(i, d + 1, Len(i))
           e == i[d]
           p == Position(RowMajor(q), i)
           x == Position(RowMajor(u), a)
           y == Position(RowMajor(v), b)
<1>1. q # <<>> /\ i \in [1..d -> Nat] /\ i \in Box(q) /\ d \in Nat
  BY IndexFacts
<1>2. d \in 1..Len(q)
  <2>1. d # 0
    <3>1. q = <<>> \/ Len(q) # 0
      OBVIOUS
    <3> QED BY <1>1, <3>1
  <2> QED BY <1>1, <2>1
<1>3. \A c \in 1..d : i[c] < q[c] /\ i[c] \in Nat
  BY <1>1, BoxOf
<1>4. n \in Nat /\ e \in Nat /\ e < n /\ j < n
  <2>1. q[d] \in Nat
    BY <1>2, SequenceFacts
  <2> QED BY <1>2, <1>3, <2>1
<1>5. IsAt(q, d, i, j) /\ IsAt(q, d, i, e)
  <2>1. \A c \in 1..d : c # d => i[c] < q[c]
    BY <1>3
  <2> QED BY <1>1, <1>2, <1>4, <2>1, ReplacedIndex
<1>6. a \in Box(u) /\ b \in Box(v) /\ u \in Seq(Nat) /\ v \in Seq(Nat)
  <2>1. \A c \in 1..d : c # d => i[c] < q[c]
    BY <1>3
  <2> QED BY <1>1, <1>2, <2>1, PartsInBox, SplitAt
<1>7. Product(v) = 1
  BY BehindFacts DEF Behind
<1>8. x \in Nat /\ y = 0
  <2> HIDE DEF u, v, a, b
  <2>1. x \in 0..Product(u) - 1 /\ y \in 0..Product(v) - 1
    BY <1>6, NumberOfIndex
  <2> QED BY <1>7, <2>1
<1>9. /\ [i EXCEPT ![d] = j] \in Box(q)
      /\ Position(RowMajor(q), [i EXCEPT ![d] = j]) = (x * n + j) * Product(v) + y
      /\ Position(RowMajor(q), [i EXCEPT ![d] = e]) = (x * n + e) * Product(v) + y
  BY <1>5 DEF IsAt, IsCut
<1>10. [i EXCEPT ![d] = e] = i
  BY <1>1
<1>11. Indices(q) = Box(q)
  BY <1>1, IndicesAreBox
<1> DEFINE z == [i EXCEPT ![d] = j]
<1>12. z \in Box(q) /\ Position(RowMajor(q), z) = (x * n + j) * Product(v) + y
       /\ p = (x * n + e) * Product(v) + y
  BY <1>9, <1>10
<1> HIDE DEF x, y, n, e, u, v, a, b, z, p
<1>13. x * n \in Nat /\ (x * n + j) * 1 = x * n + j /\ (x * n + e) * 1 = x * n + e
  BY <1>4, <1>8
<1>14. Position(RowMajor(q), z) = x * n + j /\ p = x * n + e
  BY <1>4, <1>7, <1>8, <1>12, <1>13
<1>15. (p % n) = e /\ p \div n = x
  <2>1. IsDivided(p, x, n, e)
    BY <1>4, <1>8, <1>14 DEF IsDivided
  <2> QED BY <2>1, RemainderOfDivided
<1>16. z \in Indices(q) /\ Position(RowMajor(q), z) = (p \div n) * n + j
       /\ (p % n) = e /\ e \in 0..n - 1
  BY <1>4, <1>11, <1>12, <1>14, <1>15
<1> QED BY <1>16 DEF InRow, z, n, e, p

(* Where sum() finds the elements it adds for the o-th of the result.      *)
IsSummedAt(q, d, o, k, j) ==
  /\ j \in Indices(q)
  /\ Position(RowMajor(q), j)
       = (o \div Behind(q, d)) * Behind(q, d) * q[d] + k * Behind(q, d) + (o % Behind(q, d))

SamePlace(o, x, s, y, n, k) ==
  (x * n + k) * s + y = (o \div s) * s * n + k * s + (o % s)

LEMMA SummedArithmetic ==
  ASSUME NEW o, NEW x, NEW s, NEW y, IsDivided(o, x, s, y), NEW n \in Nat, NEW k \in Nat
  PROVE  SamePlace(o, x, s, y, n, k)
<1>0. x \in Nat /\ y \in Nat /\ s \in Nat
  BY DEF IsDivided
<1>1. o \div s = x /\ (o % s) = y
  BY RemainderOfDivided
<1>2. (x * n + k) * s = (x * n) * s + k * s
  BY <1>0
<1>3. (x * n) * s = x * (n * s) /\ (x * s) * n = x * (s * n) /\ n * s = s * n
  BY <1>0, TimesAssociates
<1>4. (x * n) * s = (x * s) * n
  BY <1>3
<1> QED BY <1>1, <1>2, <1>4 DEF SamePlace

LEMMA KeptIndex ==
  ASSUME NEW q \in Seq(Nat), NEW d \in 1..Len(q), NEW i \in Indices([q EXCEPT ![d] = 1]),
         NEW k \in Nat, k < q[d]
  PROVE  IsSummedAt(q, d, Position(RowMajor([q EXCEPT ![d] = 1]), i), k, [i EXCEPT ![d] = k])
<1> DEFINE r == [q EXCEPT ![d] = 1]
           u == SubSeq(q, 1, d - 1)
           v == SubSeq(q, d + 1, Len(q))
           a == SubSeq(i, 1, d - 1)
           b == SubSeq(i, d + 1, Len(i))
           n == q[d]
           s == Behind(q, d)
           o == Position(RowMajor(r), i)
           j == [i EXCEPT ![d] = k]
           x == Position(RowMajor(u), a)
           y == Position(RowMajor(v), b)
<1>1. /\ r \in Seq(Nat) /\ Len(r) = Len(q) /\ r[d] = 1
      /\ \A c \in 1..Len(q) : c # d => r[c] = q[c]
  <2>1. 1 \in Nat
    OBVIOUS
  <2> QED BY <2>1, OtherLength
<1>2. i \in [1..Len(q) -> Nat] /\ \A c \in 1..Len(q) : i[c] < r[c]
  <2>0. i \in Indices(r)
    OBVIOUS
  <2> HIDE DEF r
  <2>1. i \in Box(r)
    BY <1>1, <2>0, IndexFacts
  <2> QED BY <1>1, <2>1, BoxOf
<1>3. i[d] = 0 /\ \A c \in 1..Len(q) : c # d => i[c] < q[c]
  <2>1. i[d] \in Nat /\ i[d] < 1
    BY <1>1, <1>2
  <2> HIDE DEF r
  <2> QED BY <1>1, <1>2, <2>1
<1>4. a \in Box(u) /\ b \in Box(v) /\ i \in Seq(Nat) /\ Len(i) = Len(q)
  <2>1. q \in Seq(Nat) /\ d \in 1..Len(q) /\ i \in [1..Len(q) -> Nat]
        /\ \A c \in 1..Len(q) : c # d => i[c] < q[c]
    BY <1>2, <1>3
  <2> QED BY ONLY <2>1, PartsInBox
<1>5. u \in Seq(Nat) /\ v \in Seq(Nat) /\ n \in Nat /\ s \in Nat /\ s = Product(v)
  BY SplitAt, ProductAt DEF Behind
<1>6. x \in Nat /\ y \in Nat /\ y < s
  <2> HIDE DEF u, v, a, b
  <2>1. x \in 0..Product(u) - 1 /\ y \in 0..Product(v) - 1
    BY <1>4, <1>5, NumberOfIndex
  <2> HIDE DEF x, y, s
  <2> QED BY <1>5, <2>1
<1>7. r = (u \o <<1>>) \o v /\ i = (a \o <<0>>) \o b
  <2>1. r = (u \o <<1>>) \o v
    <3>1. 1 \in Nat
      OBVIOUS
    <3> QED BY <3>1, OtherParts
  <2>2. d \in 1..Len(i) /\ 0 \in Nat
    BY <1>4
  <2>3. [i EXCEPT ![d] = 0] = (a \o <<0>>) \o b
    BY <1>4, <2>2, OtherParts
  <2>4. [i EXCEPT ![d] = 0] = i
    BY <1>2, <1>3
  <2> QED BY <2>1, <2>3, <2>4
<1>8. IsAt(q, d, i, k)
  BY <1>2, <1>3, ReplacedIndex
<1>9. j \in Box(q) /\ Position(RowMajor(q), j) = (x * n + k) * Product(v) + y
  BY <1>8 DEF IsAt, IsCut
<1>10. Indices(q) = Box(q)
  BY NotEmpty
<1> HIDE DEF r, u, v, a, b, n, s, j, x, y
<1>11. IsCut((u \o <<1>>) \o v, (a \o <<0>>) \o b, u, a, 1, 0, v, b)
  <2>1. 0 \in Nat /\ 1 \in Nat /\ 0 < 1
    OBVIOUS
  <2> QED BY ONLY <1>4, <1>5, <2>1, CutPosition
<1>12. o = (x * 1 + 0) * s + y
  BY <1>5, <1>7, <1>11 DEF IsCut, x, y
<1> HIDE DEF o
<1>13. o = x * s + y
  <2>1. x * 1 + 0 = x
    BY <1>6
  <2> QED BY <1>12, <2>1
<1>14. (x * n + k) * s + y = (o \div s) * s * n + k * s + (o % s)
  <2>1. IsDivided(o, x, s, y) /\ n \in Nat /\ k \in Nat
    BY <1>5, <1>6, <1>13 DEF IsDivided
  <2>2. SamePlace(o, x, s, y, n, k)
    BY ONLY <2>1, SummedArithmetic
  <2> QED BY ONLY <2>2 DEF SamePlace
<1>15. j \in Indices(q) /\ Position(RowMajor(q), j) = (o \div s) * s * n + k * s + (o % s)
  BY <1>5, <1>9, <1>10, <1>14
<1> QED BY <1>15 DEF IsSummedAt, j, s, n, o, r

InsertedAtZero(i, m, d, j) ==
  /\ j \in [1..m -> Nat] /\ RemoveAt(j, d) = i
  /\ \A c \in 1..m - 1 : j[Past(c, d)] = i[c]

AreInserted(i, m, d, k, t, r) == InsertedAtZero(i, m, d, t) /\ r = [t EXCEPT ![d] = k]

LEMMA InsertedFacts ==
  ASSUME NEW m \in Nat \ {0}, NEW i \in [1..m - 1 -> Nat], NEW d \in 1..m, NEW k \in Nat,
         NEW t, t = Inserted(i, m, d, 0), NEW r, r = Inserted(i, m, d, k)
  PROVE  AreInserted(i, m, d, k, t, r)
<1> DEFINE j == Inserted(i, m, d, 0)
<1>1. j = [c \in 1..m |-> IF c < d THEN i[c] ELSE IF c = d THEN 0 ELSE i[c - 1]]
  BY DEF Inserted
<1>2. r = [j EXCEPT ![d] = k]
  <2> DEFINE h == [j EXCEPT ![d] = k]
  <2>1. r = [c \in 1..m |-> IF c < d THEN i[c] ELSE IF c = d THEN k ELSE i[c - 1]]
    BY DEF Inserted
  <2> HIDE DEF j
  <2>2. h = [c \in 1..m |-> IF c = d THEN k ELSE j[c]]
    BY <1>1
  <2>3. \A c \in 1..m : h[c] = r[c]
    BY <1>1, <2>1, <2>2
  <2> HIDE DEF h
  <2>4. h = [c \in 1..m |-> h[c]] /\ r = [c \in 1..m |-> r[c]]
    BY <2>1, <2>2
  <2>5. h = r
    BY <2>3, <2>4
  <2> QED BY <2>5 DEF h
<1>3. ASSUME NEW c \in 1..m PROVE (c < d => c \in 1..m - 1) /\ (d < c => c - 1 \in 1..m - 1)
  OBVIOUS
<1>4. j \in [1..m -> Nat]
  <2>1. ASSUME NEW c \in 1..m
        PROVE  (IF c < d THEN i[c] ELSE IF c = d THEN 0 ELSE i[c - 1]) \in Nat
    <3>1. CASE c < d
      BY <1>3, <3>1
    <3>2. CASE c = d
      BY <3>2
    <3>3. CASE d < c
      BY <1>3, <3>3
    <3> QED BY <3>1, <3>2, <3>3
  <2> QED BY <1>1, <2>1
<1>5. ASSUME NEW c \in 1..m - 1 PROVE j[Past(c, d)] = i[c]
  <2>1. CASE c < d
    BY <1>1, <2>1 DEF Past
  <2>2. CASE ~(c < d)
    <3> DEFINE e == c + 1
    <3>1. e \in 1..m /\ ~(e < d) /\ e # d /\ e - 1 = c /\ Past(c, d) = e
      BY <2>2 DEF Past
    <3> HIDE DEF e
    <3> QED BY <1>1, <3>1
  <2> QED BY <2>1, <2>2
<1> HIDE DEF j
<1>6. RemoveAt(j, d) = i
  <2>1. j \in Seq(Nat) /\ Len(j) = m
    BY <1>4, FunctionIsSequence
  <2>2. RemoveAt(j, d) \in Seq(Nat) /\ Len(RemoveAt(j, d)) = m - 1
        /\ \A c \in 1..m - 1 : RemoveAt(j, d)[c] = j[Past(c, d)]
    BY <2>1, RemoveAtFacts
  <2>3. i \in Seq(Nat) /\ Len(i) = m - 1
    <3>1. m - 1 \in Nat
      OBVIOUS
    <3> QED BY <3>1, FunctionIsSequence
  <2>4. \A c \in 1..m - 1 : RemoveAt(j, d)[c] = i[c]
    BY <1>5, <2>2
  <2> QED BY <2>2, <2>3, <2>4, SameSequence
<1> QED BY <1>2, <1>4, <1>5, <1>6 DEF AreInserted, InsertedAtZero, j

LEMMA RemovedIndex ==
  ASSUME NEW q \in Seq(Nat), NEW d \in 1..Len(q), NEW i \in Indices(RemoveAt(q, d)),
         NEW k \in Nat, k < q[d]
  PROVE  IsSummedAt(q, d, Position(RowMajor(RemoveAt(q, d)), i), k, InsertAt(i, d, k))
<1> DEFINE m == Len(q)
           r == RemoveAt(q, d)
           t == Inserted(i, m, d, 0)
           u == SubSeq(q, 1, d - 1)
           v == SubSeq(q, d + 1, m)
           a == SubSeq(t, 1, d - 1)
           b == SubSeq(t, d + 1, Len(t))
           n == q[d]
           s == Behind(q, d)
           o == Position(RowMajor(r), i)
           j == InsertAt(i, d, k)
           x == Position(RowMajor(u), a)
           y == Position(RowMajor(v), b)
<1>1. r \in Seq(Nat) /\ Len(r) = m - 1 /\ \A c \in 1..m - 1 : r[c] = q[Past(c, d)]
  BY RemoveAtFacts
<1>2. m \in Nat \ {0} /\ d \in 1..m /\ i \in [1..m - 1 -> Nat] /\ \A c \in 1..m - 1 : i[c] < r[c]
  <2>1. m \in Nat /\ d \in 1..m
    BY SequenceFacts
  <2>0. i \in Indices(r)
    OBVIOUS
  <2> HIDE DEF r
  <2>2. i \in Box(r)
    BY <1>1, <2>0, IndexFacts
  <2>3. i \in [1..Len(r) -> Nat] /\ \A c \in 1..Len(r) : i[c] < r[c]
    BY <1>1, <2>2, BoxOf
  <2> HIDE DEF m
  <2> QED BY <1>1, <2>1, <2>3
<1>3. InsertedAtZero(i, m, d, t) /\ j = [t EXCEPT ![d] = k]
  <2> HIDE DEF m, j
  <2>1. InsertAt(i, d, k) = Inserted(i, m, d, k)
    BY <1>2, InsertAtFacts
  <2>2. j = Inserted(i, m, d, k) /\ t = Inserted(i, m, d, 0)
    BY <2>1 DEF j
  <2> HIDE DEF t
  <2>3. /\ m \in Nat \ {0} /\ i \in [1..m - 1 -> Nat] /\ d \in 1..m /\ k \in Nat
    BY <1>2
  <2>4. AreInserted(i, m, d, k, t, j)
    BY ONLY <2>2, <2>3, InsertedFacts
  <2> QED BY ONLY <2>4 DEF AreInserted
<1> HIDE DEF t
<1>4. /\ t \in [1..m -> Nat] /\ RemoveAt(t, d) = i
      /\ \A c \in 1..m - 1 : t[Past(c, d)] = i[c]
  BY <1>3 DEF InsertedAtZero
<1>5. ASSUME NEW c \in 1..m, c # d PROVE t[c] < q[c]
  <2>1. PICK e \in 1..m - 1 : c = Past(e, d)
    <3> HIDE DEF m
    <3>1. CASE c < d
      <4>1. c \in 1..m - 1 /\ c = Past(c, d)
        BY <1>2, <3>1 DEF Past
      <4> QED BY <4>1
    <3>2. CASE d < c
      <4>1. c - 1 \in 1..m - 1 /\ c = Past(c - 1, d)
        BY <1>2, <3>2 DEF Past
      <4> QED BY <4>1
    <3> QED BY <1>2, <1>5, <3>1, <3>2
  <2> QED BY <1>1, <1>2, <1>4, <2>1
<1>6. a \in Box(u) /\ b \in Box(v) /\ t \in Seq(Nat) /\ Len(t) = m
  <2>1. q \in Seq(Nat) /\ d \in 1..Len(q) /\ t \in [1..Len(q) -> Nat]
        /\ \A c \in 1..Len(q) : c # d => t[c] < q[c]
    BY <1>4, <1>5
  <2> QED BY ONLY <2>1, PartsInBox
<1>7. u \in Seq(Nat) /\ v \in Seq(Nat) /\ n \in Nat /\ s \in Nat /\ s = Product(v)
  BY SplitAt, ProductAt DEF Behind
<1>8. x \in Nat /\ y \in Nat /\ y < s
  <2> HIDE DEF u, v, a, b
  <2>1. x \in 0..Product(u) - 1 /\ y \in 0..Product(v) - 1
    BY <1>6, <1>7, NumberOfIndex
  <2> HIDE DEF x, y, s
  <2> QED BY <1>7, <2>1
<1>9. r = u \o v /\ i = a \o b
  BY <1>4 DEF RemoveAt
<1>10. IsAt(q, d, t, k)
  BY <1>4, <1>5, ReplacedIndex
<1>11. j \in Box(q) /\ Position(RowMajor(q), j) = (x * n + k) * Product(v) + y
  BY <1>3, <1>10 DEF IsAt, IsCut
<1>12. Indices(q) = Box(q)
  BY NotEmpty
<1> HIDE DEF r, u, v, a, b, n, s, j, x, y
<1>13. IsJoined(u \o v, a \o b, u, a, v, b)
  BY <1>6, <1>7, JoinPosition
<1>14. o = x * s + y
  BY <1>7, <1>9, <1>13 DEF IsJoined, x, y
<1> HIDE DEF o
<1>15. (x * n + k) * s + y = (o \div s) * s * n + k * s + (o % s)
  <2>1. IsDivided(o, x, s, y) /\ n \in Nat /\ k \in Nat
    BY <1>7, <1>8, <1>14 DEF IsDivided
  <2>2. SamePlace(o, x, s, y, n, k)
    BY ONLY <2>1, SummedArithmetic
  <2> QED BY ONLY <2>2 DEF SamePlace
<1>16. j \in Indices(q) /\ Position(RowMajor(q), j) = (o \div s) * s * n + k * s + (o % s)
  BY <1>7, <1>11, <1>12, <1>15
<1> QED BY <1>16 DEF IsSummedAt, j, s, n, o, r

-----------------------------------------------------------------------------
(* Results computed from rows, columns or all elements of an operand.      *)

Placed(kept, i, d, k) == IF kept THEN [i EXCEPT ![d] = k] ELSE InsertAt(i, d, k)

SummedShape(kept, q, d) == IF kept THEN [q EXCEPT ![d] = 1] ELSE RemoveAt(q, d)

LEMMA PlacedIndex ==
  ASSUME NEW q \in Seq(Nat), NEW d \in 1..Len(q), NEW kept \in BOOLEAN,
         NEW i \in Indices(SummedShape(kept, q, d)), NEW k \in Nat, k < q[d]
  PROVE  IsSummedAt(q, d, Position(RowMajor(SummedShape(kept, q, d)), i), k,
                    Placed(kept, i, d, k))
<1>1. CASE kept
  <2>1. /\ SummedShape(kept, q, d) = [q EXCEPT ![d] = 1]
        /\ Placed(kept, i, d, k) = [i EXCEPT ![d] = k]
    BY <1>1 DEF SummedShape, Placed
  <2>2. i \in Indices([q EXCEPT ![d] = 1])
    BY <2>1
  <2>3. IsSummedAt(q, d, Position(RowMajor([q EXCEPT ![d] = 1]), i), k, [i EXCEPT ![d] = k])
    BY <2>2, KeptIndex
  <2> QED BY <2>1, <2>3
<1>2. CASE ~kept
  <2>1. /\ SummedShape(kept, q, d) = RemoveAt(q, d)
        /\ Placed(kept, i, d, k) = InsertAt(i, d, k)
    BY <1>2 DEF SummedShape, Placed
  <2>2. i \in Indices(RemoveAt(q, d))
    BY <2>1
  <2>3. IsSummedAt(q, d, Position(RowMajor(RemoveAt(q, d)), i), k, InsertAt(i, d, k))
    BY <2>2, RemovedIndex
  <2> QED BY <2>1, <2>3
<1> QED BY <1>1, <1>2

LEMMA SumImplements ==
  ASSUME ViewsInv, NEW x \in Tensor, NEW d \in DOMAIN tensors[x].shape,
         NEW kept \in BOOLEAN, SumOver(x, d, kept)
  PROVE  A!Summed
<1> DEFINE t == tensors[x]
           p == t.shape
           l == p[d]
           inner == Product(SubSeq(p, d + 1, Len(p)))
           q == SummedShape(kept, p, d)
           f == [o \in 0..numel(q) - 1 |->
                   SumFunction([k \in 0..l - 1 |->
                      At(t, (o \div inner) * inner * l + k * inner + (o % inner))])]
           g == [i \in Indices(q) |->
                   SumFunction([k \in 0..l - 1 |-> ElementOf(x, Placed(kept, i, d, k))])]
           specified == A!AllDense
<1>1. Stores(q, f)
  BY DEF SumOver, Result, Stores, SummedShape
<1>2. p \in Seq(Nat) /\ AsArrays[x].shape = p /\ d \in 1..Len(p)
  BY ArrayFacts, TensorFacts
<1>3. call' = [op |-> "sum", of |-> <<x>>, by |-> <<d, IF kept THEN 1 ELSE 0>>]
  BY DEF SumOver, Called
<1>4. specified => AsArrays[x].dense
  BY <1>3, AllDenseFacts
<1> HIDE DEF p, l, inner, q
<1>5. q \in Seq(Nat) /\ inner = Behind(p, d) /\ l = p[d] /\ l \in Nat
  <2>1. 1 \in Nat
    OBVIOUS
  <2> QED BY <1>2, <2>1, OtherLength, RemoveAtFacts, SequenceFacts
         DEF q, l, inner, Behind, SummedShape
<1>6. ASSUME AsArrays[x].dense, NEW i \in Indices(q)
      PROVE  g[i] = f[Position(RowMajor(q), i)]
  <2> DEFINE o == Position(RowMajor(q), i)
             at == [k \in 0..l - 1 |->
                      At(t, (o \div inner) * inner * l + k * inner + (o % inner))]
  <2>1. o \in 0..numel(q) - 1
    BY <1>5, IndexFacts
  <2> HIDE DEF o
  <2>2. ASSUME NEW k \in 0..l - 1
        PROVE  ElementOf(x, Placed(kept, i, d, k))
                 = At(t, (o \div inner) * inner * l + k * inner + (o % inner))
    <3> DEFINE j == Placed(kept, i, d, k)
    <3>1. k \in Nat /\ k < p[d] /\ i \in Indices(SummedShape(kept, p, d))
      BY <1>5 DEF q
    <3>2. IsSummedAt(p, d, o, k, j)
      BY <1>2, <3>1, PlacedIndex DEF o, q
    <3> HIDE DEF j
    <3>3. /\ j \in Indices(p)
          /\ Position(RowMajor(p), j) = (o \div inner) * inner * l + k * inner + (o % inner)
      BY <1>5, <3>2 DEF IsSummedAt
    <3>4. ElementOf(x, j) = At(t, Position(RowMajor(p), j))
      BY <1>6, <3>3, ElementFacts DEF p
    <3> QED BY <3>3, <3>4 DEF j
  <2>3. f[o] = SumFunction(at)
    BY <2>1
  <2>4. g[i] = SumFunction([k \in 0..l - 1 |-> ElementOf(x, Placed(kept, i, d, k))])
    OBVIOUS
  <2> HIDE DEF t, f, g
  <2>5. [k \in 0..l - 1 |-> ElementOf(x, Placed(kept, i, d, k))] = at
    BY <2>2
  <2> QED BY <2>3, <2>4, <2>5 DEF o
<1>7. \A i \in Indices(q) :
        g[i] = A!SumFunction([k \in 0..l - 1 |->
                  ElementOf(x, IF kept THEN [i EXCEPT ![d] = k] ELSE A!InsertAt(i, d, k))])
  <2> SUFFICES ASSUME NEW i \in Indices(q)
               PROVE  g[i] = A!SumFunction([k \in 0..l - 1 |->
                  ElementOf(x, IF kept THEN [i EXCEPT ![d] = k] ELSE A!InsertAt(i, d, k))])
    OBVIOUS
  <2>1. g[i] = SumFunction([k \in 0..l - 1 |-> ElementOf(x, Placed(kept, i, d, k))])
    OBVIOUS
  <2>2. \A k \in 0..l - 1 :
          Placed(kept, i, d, k) = IF kept THEN [i EXCEPT ![d] = k] ELSE A!InsertAt(i, d, k)
    BY SameSequences DEF Placed
  <2> HIDE DEF g
  <2>3. [k \in 0..l - 1 |-> ElementOf(x, Placed(kept, i, d, k))]
          = [k \in 0..l - 1 |->
               ElementOf(x, IF kept THEN [i EXCEPT ![d] = k] ELSE A!InsertAt(i, d, k))]
    BY <2>2
  <2> QED BY <2>1, <2>3, SameSum
<1>8. q = IF kept THEN [AsArrays[x].shape EXCEPT ![d] = 1] ELSE A!RemoveAt(AsArrays[x].shape, d)
  BY <1>2, SameSequences DEF q, SummedShape
<1>9. l = AsArrays[x].shape[d]
  BY <1>2, <1>5
<1> HIDE DEF t, f, g, specified
<1>10. FreshWith(q, specified, g)
  BY <1>1, <1>4, <1>5, <1>6, FreshBridge
<1> DEFINE y == call'.of[1]
           b == call'.by[1]
           keepdim == call'.by[2] = 1
           n == AsArrays[y].shape[b]
           shape == IF keepdim THEN [AsArrays[y].shape EXCEPT ![b] = 1]
                               ELSE A!RemoveAt(AsArrays[y].shape, b)
<1>11. y = x /\ b = d /\ (keepdim <=> kept) /\ call'.op = "sum"
  BY <1>3
<1> HIDE DEF y, b, keepdim
<1>12. shape = q /\ n = l
  BY <1>8, <1>9, <1>11
<1> HIDE DEF shape, n
<1>13. \A i \in A!Indices(shape) :
         g[i] = A!SumFunction([k \in 0..n - 1 |->
                  ElementOf(y, IF keepdim THEN [i EXCEPT ![b] = k] ELSE A!InsertAt(i, b, k))])
  <2> SUFFICES ASSUME NEW i \in A!Indices(shape)
               PROVE g[i] = A!SumFunction([k \in 0..n - 1 |->
                  ElementOf(y, IF keepdim THEN [i EXCEPT ![b] = k] ELSE A!InsertAt(i, b, k))])
    OBVIOUS
  <2>1. i \in Indices(q)
    BY <1>12, SameIndices
  <2>2. \A k : (IF keepdim THEN [i EXCEPT ![b] = k] ELSE A!InsertAt(i, b, k))
               = (IF kept THEN [i EXCEPT ![d] = k] ELSE A!InsertAt(i, d, k))
    BY <1>11
  <2>3. [k \in 0..n - 1 |->
           ElementOf(y, IF keepdim THEN [i EXCEPT ![b] = k] ELSE A!InsertAt(i, b, k))]
        = [k \in 0..l - 1 |->
             ElementOf(x, IF kept THEN [i EXCEPT ![d] = k] ELSE A!InsertAt(i, d, k))]
    BY <1>11, <1>12, <2>2
  <2> QED BY <1>7, <2>1, <2>3
<1>14. FreshWith(shape, specified, g) /\ call'.op = "sum"
  BY <1>10, <1>11, <1>12
<1>15. A!Fresh(shape, specified,
               LAMBDA index : A!SumFunction([k \in 0..n - 1 |->
                  ElementOf(y, IF keepdim THEN [index EXCEPT ![b] = k]
                                          ELSE A!InsertAt(index, b, k))]))
  BY ONLY <1>13, <1>14 DEF FreshWith, A!Fresh
<1> QED BY ONLY <1>14, <1>15 DEF A!Summed, A!Calls, A!Operand, A!Arg, A!Element, ElementOf,
                                 specified, shape, n, y, b, keepdim

RowAt(x, i) ==
  [j \in 1..AsArrays[x].shape[Len(AsArrays[x].shape)] |->
     ElementOf(x, [i EXCEPT ![Len(AsArrays[x].shape)] = j - 1])]

IsRowOf(x, i, p) ==
  LET q == tensors[x].shape   n == q[Len(q)]
  IN Row(tensors[x], p) = RowAt(x, i) /\ (p % n) = i[Len(q)] /\ i[Len(q)] \in 0..n - 1

LEMMA RowElements ==
  ASSUME ViewsInv, NEW x \in Tensor, AsArrays[x].dense, NEW i \in Indices(tensors[x].shape),
         tensors[x].shape[Len(tensors[x].shape)] # 0
  PROVE  IsRowOf(x, i, Position(RowMajor(tensors[x].shape), i))
<1> DEFINE t == tensors[x]
           q == t.shape
           d == Len(q)
           n == q[d]
           p == Position(RowMajor(q), i)
<1>1. q \in Seq(Nat) /\ AsArrays[x].shape = q
  BY ArrayFacts
<1>2. q # <<>> /\ p \in 0..numel(q) - 1 /\ i \in Indices(q) /\ n # 0
  BY <1>1, IndexFacts
<1>3. Row(t, p) = [j \in 1..n |-> At(t, (p \div n) * n + j - 1)]
  BY DEF Row
<1>4. RowAt(x, i) = [j \in 1..n |-> ElementOf(x, [i EXCEPT ![d] = j - 1])]
  BY <1>1 DEF RowAt
<1>5. ASSUME NEW j \in Indices(q) PROVE ElementOf(x, j) = At(t, Position(RowMajor(q), j))
  BY ElementFacts
<1> HIDE DEF q, t
<1>6. n \in Nat \ {0} /\ p \in Nat
  <2>1. d \in 1..Len(q)
    <3>1. d \in Nat /\ (q = <<>> \/ d # 0)
      BY <1>1
    <3> QED BY <1>2, <3>1
  <2>2. n \in Nat
    BY <1>1, <2>1, SequenceFacts
  <2>3. numel(q) \in Nat
    BY <1>1, NumelFacts
  <2> HIDE DEF n, p
  <2> QED BY <1>2, <2>2, <2>3
<1>7. ASSUME NEW k \in Nat, k < n
      PROVE  /\ [i EXCEPT ![d] = k] \in Indices(q)
             /\ Position(RowMajor(q), [i EXCEPT ![d] = k]) = (p \div n) * n + k
             /\ (p % n) = i[d] /\ i[d] \in 0..n - 1
  <2>1. InRow(q, p, i, k)
    BY <1>1, <1>2, <1>7, RowIndex
  <2> QED BY <2>1 DEF InRow
<1> HIDE DEF n, p, d
<1>8. (p % n) = i[d] /\ i[d] \in 0..n - 1
  <2>1. 0 \in Nat /\ 0 < n
    BY <1>6
  <2> QED BY <1>7, <2>1
<1>9. ASSUME NEW j \in 1..n
      PROVE  At(t, (p \div n) * n + j - 1) = ElementOf(x, [i EXCEPT ![d] = j - 1])
  <2> DEFINE k == j - 1
             c == (p \div n) * n
  <2>1. k \in Nat /\ k < n /\ c \in Nat
    BY <1>6
  <2>2. c + j - 1 = c + k
    <3> HIDE DEF c
    <3> QED BY <2>1, <1>6
  <2> HIDE DEF k
  <2>3. /\ [i EXCEPT ![d] = k] \in Indices(q)
        /\ Position(RowMajor(q), [i EXCEPT ![d] = k]) = c + k
    BY <1>7, <2>1
  <2>4. ElementOf(x, [i EXCEPT ![d] = k]) = At(t, c + k)
    BY <1>5, <2>3
  <2> QED BY <2>2, <2>4 DEF k
<1>10. Row(t, p) = RowAt(x, i)
  BY <1>3, <1>4, <1>9
<1> QED BY <1>8, <1>10 DEF IsRowOf, t, q, d, n, p

LEMMA SoftmaxImplements ==
  ASSUME ViewsInv, NEW x \in Tensor, Softmax(x)
  PROVE  A!RowMapped
<1> DEFINE t == tensors[x]
           q == t.shape
           f == [k \in 0..numel(q) - 1 |-> Rowwise("softmax", At(t, k), Row(t, k))]
           g == [i \in Indices(q) |-> Rowwise("softmax", ElementOf(x, i), RowAt(x, i))]
           specified == A!AllDense
<1>1. Stores(q, f) /\ q[Len(q)] # 0
  BY DEF Softmax, Result, Stores
<1>2. q \in Seq(Nat) /\ AsArrays[x].shape = q
  BY ArrayFacts
<1>3. call' = [op |-> "softmax", of |-> <<x>>, by |-> <<>>]
  BY DEF Softmax, Called
<1>4. specified => AsArrays[x].dense
  BY <1>3, AllDenseFacts
<1>5. ASSUME AsArrays[x].dense, NEW i \in Indices(q)
      PROVE  g[i] = f[Position(RowMajor(q), i)]
  <2> DEFINE k == Position(RowMajor(q), i)
  <2>1. k \in 0..numel(q) - 1 /\ ElementOf(x, i) = At(t, k)
    BY <1>2, <1>5, IndexFacts, ElementFacts
  <2>2. IsRowOf(x, i, k)
    BY <1>1, <1>5, RowElements
  <2>3. Row(t, k) = RowAt(x, i)
    BY <2>2 DEF IsRowOf
  <2> HIDE DEF k, q, t
  <2> QED BY <2>1, <2>3 DEF k
<1>6. \A i \in Indices(q) : g[i] = Rowwise("softmax", ElementOf(x, i), RowAt(x, i))
  OBVIOUS
<1> HIDE DEF t, q, f, g, specified
<1>7. FreshWith(q, specified, g)
  BY <1>1, <1>2, <1>4, <1>5, FreshBridge
<1> DEFINE y == call'.of[1]
           shape == AsArrays[y].shape
<1>8. /\ FreshWith(shape, specified, g) /\ call'.op = "softmax"
      /\ \A i \in A!Indices(shape) : g[i] = Rowwise(call'.op, ElementOf(y, i), RowAt(y, i))
  BY <1>2, <1>3, <1>6, <1>7, SameIndices
<1> HIDE DEF y, shape
<1>9. A!Fresh(shape, specified,
              LAMBDA index : Rowwise(call'.op, ElementOf(y, index), RowAt(y, index)))
  BY ONLY <1>8 DEF FreshWith, A!Fresh
<1> QED BY ONLY <1>8, <1>9 DEF A!RowMapped, A!Calls, A!Operand, A!Element, ElementOf, RowAt,
                               specified, shape, y, A!Fresh

LEMMA FlatElement ==
  ASSUME ViewsInv, NEW y \in Tensor, AsArrays[y].dense, NEW k \in 0..numel(tensors[y].shape) - 1
  PROVE  ElementOf(y, Unflatten(tensors[y].shape, k)) = At(tensors[y], k)
<1> DEFINE q == tensors[y].shape
<1>1. q \in Seq(Nat)
  BY ArrayFacts
<1>2. Unflatten(q, k) \in Indices(q) /\ Position(RowMajor(q), Unflatten(q, k)) = k
  BY <1>1, NumberFacts
<1>3. ElementOf(y, Unflatten(q, k)) = At(tensors[y], Position(RowMajor(q), Unflatten(q, k)))
  BY <1>2, ElementFacts
<1> QED BY <1>2, <1>3

FlatAt(y, k) == ElementOf(y, A!Unflatten(AsArrays[y].shape, k))

LEMMA LayerNormImplements ==
  ASSUME ViewsInv, NEW x \in Tensor, NEW y \in Tensor, NEW z \in Tensor, LayerNorm(x, y, z)
  PROVE  A!RowMapped
<1> DEFINE t == tensors[x]
           q == t.shape
           n == q[2]
           f == [k \in 0..numel(q) - 1 |->
                   Rowwise("layer_norm", At(t, k), Row(t, k)) * At(tensors[y], k % n)
                     + At(tensors[z], k % n)]
           g == [i \in Indices(q) |->
                   Rowwise("layer_norm", ElementOf(x, i), RowAt(x, i)) * FlatAt(y, i[Len(q)])
                     + FlatAt(z, i[Len(q)])]
           specified == A!AllDense
<1>1. /\ Stores(q, f) /\ Len(q) = 2
      /\ numel(tensors[y].shape) = n /\ numel(tensors[z].shape) = n
  BY DEF LayerNorm, Result, Stores
<1>2. q \in Seq(Nat) /\ AsArrays[x].shape = q
      /\ AsArrays[y].shape = tensors[y].shape /\ AsArrays[z].shape = tensors[z].shape
  BY ArrayFacts
<1>3. call' = [op |-> "layer_norm", of |-> <<x, y, z>>, by |-> <<>>]
  BY DEF LayerNorm, Called
<1>4. specified => AsArrays[x].dense /\ AsArrays[y].dense /\ AsArrays[z].dense
  <2>1. call'.of = <<x, y, z>> /\ DOMAIN <<x, y, z>> = {1, 2, 3}
        /\ <<x, y, z>>[1] = x /\ <<x, y, z>>[2] = y /\ <<x, y, z>>[3] = z
    BY <1>3
  <2> QED BY ONLY <2>1, AllDenseFacts DEF specified
<1>5. ASSUME AsArrays[x].dense, AsArrays[y].dense, AsArrays[z].dense, NEW i \in Indices(q)
      PROVE  g[i] = f[Position(RowMajor(q), i)]
  <2> DEFINE k == Position(RowMajor(q), i)
             e == i[2]
  <2>1. k \in 0..numel(q) - 1 /\ ElementOf(x, i) = At(t, k)
    BY <1>2, <1>5, IndexFacts, ElementFacts
  <2>2. n # 0
    <3>1. i \in Box(q) /\ 2 \in 1..Len(q)
      BY <1>1, <1>2, IndexFacts
    <3>2. i[2] \in Nat /\ i[2] < n
      <4>1. i \in [1..Len(q) -> Nat] /\ \A c \in 1..Len(q) : i[c] < q[c]
        BY <1>2, <3>1, BoxOf
      <4> QED BY <3>1, <4>1
    <3> HIDE DEF q, n
    <3> QED BY <3>2
  <2>3. IsRowOf(x, i, k)
    BY <1>1, <1>5, <2>2, RowElements
  <2>4. Row(t, k) = RowAt(x, i) /\ (k % n) = e /\ e \in 0..n - 1
    BY <1>1, <2>3 DEF IsRowOf
  <2>5. FlatAt(y, e) = At(tensors[y], k % n) /\ FlatAt(z, e) = At(tensors[z], k % n)
    <3> HIDE DEF e, k, n, q
    <3>1. ElementOf(y, Unflatten(tensors[y].shape, e)) = At(tensors[y], e)
      BY <1>1, <1>5, <2>4, FlatElement
    <3>2. ElementOf(z, Unflatten(tensors[z].shape, e)) = At(tensors[z], e)
      BY <1>1, <1>5, <2>4, FlatElement
    <3> QED BY <1>2, <2>4, <3>1, <3>2, SameUnflatten DEF FlatAt
  <2>6. f[k] = Rowwise("layer_norm", At(t, k), Row(t, k)) * At(tensors[y], k % n)
                 + At(tensors[z], k % n)
    BY <2>1
  <2>7. g[i] = Rowwise("layer_norm", ElementOf(x, i), RowAt(x, i)) * FlatAt(y, e) + FlatAt(z, e)
    BY <1>1
  <2> HIDE DEF k, e, q, t, n, f, g
  <2> QED BY <2>1, <2>4, <2>5, <2>6, <2>7 DEF k
<1>6. \A i \in Indices(q) :
        g[i] = Rowwise("layer_norm", ElementOf(x, i), RowAt(x, i)) * FlatAt(y, i[Len(q)])
                 + FlatAt(z, i[Len(q)])
  OBVIOUS
<1> HIDE DEF t, q, f, g, n, specified
<1>7. FreshWith(q, specified, g)
  BY <1>1, <1>2, <1>4, <1>5, FreshBridge
<1> DEFINE a == call'.of[1]
           b == call'.of[2]
           c == call'.of[3]
           shape == AsArrays[a].shape
           d == Len(shape)
<1>8. a = x /\ b = y /\ c = z /\ call'.op = "layer_norm"
  BY <1>3
<1> HIDE DEF a, b, c
<1>9. shape = q /\ d = Len(q)
  BY <1>2, <1>8
<1> HIDE DEF shape, d
<1>10. /\ FreshWith(shape, specified, g) /\ call'.op = "layer_norm"
       /\ \A i \in A!Indices(shape) :
            g[i] = Rowwise(call'.op, ElementOf(a, i), RowAt(a, i)) * FlatAt(b, i[d])
                     + FlatAt(c, i[d])
  BY <1>6, <1>7, <1>8, <1>9, SameIndices
<1>11. A!Fresh(shape, specified,
               LAMBDA index : Rowwise(call'.op, ElementOf(a, index), RowAt(a, index))
                                * FlatAt(b, index[d]) + FlatAt(c, index[d]))
  BY ONLY <1>10 DEF FreshWith, A!Fresh
<1> QED BY ONLY <1>10, <1>11 DEF A!RowMapped, A!Calls, A!Operand, A!Element, ElementOf, RowAt,
                                 FlatAt, specified, shape, d, a, b, c, A!Fresh

(* u numbers the members of S from 0.                                      *)
Numbers(u, n, S) ==
  /\ u \in [0..n - 1 -> S] /\ \A s \in S : \E k \in 0..n - 1 : s = u[k]
  /\ \A j, k \in 0..n - 1 : u[j] = u[k] => j = k

AddsOne(F, f, s, r, c) == F[s] = f[c] + F[r] /\ F[r] \in Int

LEMMA AddsMember ==
  ASSUME NEW S, NEW f, NEW F, Adds(F, f, S), NEW s, NEW c, s \subseteq S, c \in s,
         NEW r, s \ {c} = r
  PROVE  AddsOne(F, f, s, r, c)
<1>1. s \in SUBSET S /\ r \in SUBSET S
  OBVIOUS
<1> QED BY <1>1 DEF Adds, AddsOne

(* A sum is the same by number as by member.                               *)
LEMMA SumByNumber ==
  ASSUME NEW S, IsFiniteSet(S), NEW n \in Nat, NEW u, Numbers(u, n, S),
         NEW f \in [S -> Int], NEW g \in [0..n - 1 -> Int],
         \A k \in 0..n - 1 : g[k] = f[u[k]]
  PROVE  SumFunction(g) = SumFunction(f)
<1> DEFINE To(m) == {u[k] : k \in 0..m - 1}
<1>1. IsFiniteSet(0..n - 1)
  BY FS_Interval
<1>2. PICK F : Adds(F, f, S)
  BY AddsExists
<1>3. PICK G : Adds(G, g, 0..n - 1)
  BY <1>1, AddsExists
<1>4. SumFunction(f) = F[S] /\ SumFunction(g) = G[0..n - 1]
  BY <1>1, <1>2, <1>3, SumIsAdds
<1>5. To(n) = S
  BY DEF Numbers
<1> DEFINE Wrong == {m \in Nat : m <= n /\ G[0..m - 1] # F[To(m)]}
<1>6. Wrong = {}
  <2> SUFFICES ASSUME Wrong # {} PROVE FALSE
    OBVIOUS
  <2>1. PICK m \in Wrong : \A x \in Wrong : m <= x
    BY LeastMember
  <2>2. m \in Nat /\ m <= n /\ G[0..m - 1] # F[To(m)]
    OBVIOUS
  <2>3. m # 0
    <3>1. 0..0 - 1 = {} /\ To(0) = {}
      OBVIOUS
    <3> QED BY <1>2, <1>3, <2>2, <3>1 DEF Adds
  <2> DEFINE k == m - 1
  <2>4. /\ k \in Nat /\ k <= n /\ ~(m <= k) /\ k \in 0..n - 1 /\ k \in 0..m - 1
        /\ 0..m - 1 \subseteq 0..n - 1 /\ (0..m - 1) \ {k} = 0..k - 1 /\ 0..m - 1 = 0..k
    BY <2>2, <2>3
  <2> HIDE DEF k
  <2>5. G[0..k - 1] = F[To(k)]
    <3>1. k \notin Wrong
      <4> HIDE DEF Wrong
      <4> QED BY <2>1, <2>4
    <3> HIDE DEF To
    <3> QED BY <2>4, <3>1
  <2>6. G[0..m - 1] = g[k] + G[0..k - 1]
    <3>1. AddsOne(G, g, 0..m - 1, 0..k - 1, k)
      BY <1>3, <2>4, AddsMember
    <3> QED BY <3>1 DEF AddsOne
  <2>7. To(m) \subseteq S /\ u[k] \in To(m) /\ To(m) \ {u[k]} = To(k)
    <3>1. \A a \in 0..k - 1 : u[a] # u[k] /\ a \in 0..n - 1
      BY <2>2, <2>4 DEF Numbers
    <3>2. \A a \in 0..m - 1 : u[a] \in S
      BY <2>4 DEF Numbers
    <3>3. \A a \in 0..m - 1 : a = k \/ a \in 0..k - 1
      BY <2>4
    <3>4. \A a \in 0..k - 1 : a \in 0..m - 1
      BY <2>4
    <3>5. To(m) = To(k) \cup {u[k]}
      BY <2>4, <3>3, <3>4
    <3>6. u[k] \notin To(k)
      BY <3>1
    <3>7. To(m) \subseteq S
      BY <3>2
    <3> HIDE DEF To
    <3> QED BY <3>5, <3>6, <3>7
  <2> HIDE DEF To
  <2>8. F[To(m)] = f[u[k]] + F[To(k)]
    <3>1. AddsOne(F, f, To(m), To(k), u[k])
      BY <1>2, <2>7, AddsMember
    <3> QED BY <3>1 DEF AddsOne
  <2> QED BY <2>2, <2>4, <2>5, <2>6, <2>8
<1>7. G[0..n - 1] = F[To(n)]
  <2>1. n \notin Wrong /\ n <= n
    <3> HIDE DEF Wrong
    <3> QED BY <1>6
  <2> HIDE DEF To
  <2> QED BY <2>1
<1> QED BY <1>4, <1>5, <1>7

(* Unflatten numbers the indices of a shape.                               *)
LEMMA IndicesNumbered ==
  ASSUME NEW q \in Seq(Nat), NEW u, u = [k \in 0..numel(q) - 1 |-> Unflatten(q, k)]
  PROVE  /\ Numbers(u, numel(q), Indices(q)) /\ numel(q) \in Nat
         /\ IsFiniteSet(Indices(q))
<1>1. numel(q) \in Nat
  BY NumelFacts
<1>2. /\ u \in [0..numel(q) - 1 -> Indices(q)]
      /\ \A i \in Indices(q) : \E k \in 0..numel(q) - 1 : i = u[k]
  BY DEF Indices
<1>3. ASSUME NEW j \in 0..numel(q) - 1, NEW k \in 0..numel(q) - 1, u[j] = u[k]
      PROVE  j = k
  BY <1>3, NumberFacts
<1>4. IsFiniteSet(Indices(q))
  <2>1. IsFiniteSet(0..numel(q) - 1)
    BY <1>1, FS_Interval
  <2>2. u \in Surjection(0..numel(q) - 1, Indices(q))
    BY <1>2 DEF Surjection
  <2> QED BY <2>1, <2>2, FS_Surjection
<1> QED BY <1>1, <1>2, <1>3, <1>4 DEF Numbers

Total(x) == SumFunction([i \in Indices(tensors[x].shape) |-> ElementOf(x, i)])

LEMMA TotalOfDense ==
  ASSUME ViewsInv, NEW x \in Tensor, AsArrays[x].dense
  PROVE  SumFunction([k \in 0..numel(tensors[x].shape) - 1 |-> At(tensors[x], k)]) = Total(x)
<1> DEFINE t == tensors[x]
           q == t.shape
           n == numel(q)
           u == [k \in 0..n - 1 |-> Unflatten(q, k)]
           g == [k \in 0..n - 1 |-> At(t, k)]
           f == [i \in Indices(q) |-> ElementOf(x, i)]
<1>1. q \in Seq(Nat) /\ n \in Nat /\ \A k \in 0..n - 1 : At(t, k) \in Int
  BY AtIsInt
<1>2. Numbers(u, n, Indices(q)) /\ IsFiniteSet(Indices(q))
  BY <1>1, IndicesNumbered
<1>3. g \in [0..n - 1 -> Int]
  BY <1>1
<1>4. ASSUME NEW i \in Indices(q)
      PROVE  /\ ElementOf(x, i) = At(t, Position(RowMajor(q), i))
             /\ Position(RowMajor(q), i) \in 0..n - 1
  BY <1>1, ElementFacts, IndexFacts
<1>5. f \in [Indices(q) -> Int]
  BY <1>1, <1>4
<1>6. ASSUME NEW k \in 0..n - 1 PROVE g[k] = f[u[k]]
  <2>1. Unflatten(q, k) \in Indices(q) /\ Position(RowMajor(q), Unflatten(q, k)) = k
    BY <1>1, NumberFacts
  <2> QED BY <1>4, <2>1
<1> DEFINE S == Indices(q)
<1>7. /\ n \in Nat /\ Numbers(u, n, S) /\ IsFiniteSet(S) /\ f \in [S -> Int]
      /\ g \in [0..n - 1 -> Int] /\ \A k \in 0..n - 1 : g[k] = f[u[k]]
  <2> HIDE DEF u, g, f, n
  <2> QED BY <1>1, <1>2, <1>3, <1>5, <1>6
<1> HIDE DEF u, g, f, n, q, t, S
<1>8. SumFunction(g) = SumFunction(f)
  BY ONLY <1>7, SumByNumber
<1> QED BY <1>8 DEF Total, g, f, n, q, t

LEMMA MeanImplements ==
  ASSUME ViewsInv, NEW x \in Tensor, Mean(x)
  PROVE  A!Averaged
<1> DEFINE t == tensors[x]
           q == <<1>>
           e == SumFunction([k \in 0..numel(t.shape) - 1 |-> At(t, k)])
           f == [o \in 0..numel(q) - 1 |-> e]
           g == [i \in Indices(q) |-> Total(x)]
           specified == A!AllDense
<1>1. Stores(q, f)
  BY DEF Mean, Result, Stores
<1>2. q \in Seq(Nat) /\ AsArrays[x].shape = t.shape
  BY ArrayFacts
<1>3. call' = [op |-> "mean", of |-> <<x>>, by |-> <<>>]
  BY DEF Mean, Called
<1>4. specified => AsArrays[x].dense
  BY <1>3, AllDenseFacts
<1>5. ASSUME AsArrays[x].dense PROVE e = Total(x)
  BY <1>5, TotalOfDense
<1> HIDE DEF e, t
<1>6. ASSUME AsArrays[x].dense, NEW i \in Indices(q)
      PROVE  g[i] = f[Position(RowMajor(q), i)]
  <2>1. Position(RowMajor(q), i) \in 0..numel(q) - 1
    BY <1>2, IndexFacts
  <2> HIDE DEF q
  <2> QED BY <1>5, <1>6, <2>1
<1>7. \A i \in Indices(q) : g[i] = Total(x)
  OBVIOUS
<1> HIDE DEF q, f, g, specified
<1>8. FreshWith(q, specified, g)
  BY <1>1, <1>2, <1>4, <1>6, FreshBridge
<1> DEFINE y == call'.of[1]
           value == A!SumFunction([i \in A!Indices(AsArrays[y].shape) |-> ElementOf(y, i)])
<1>9. value = Total(x)
  <2>1. y = x
    BY <1>3
  <2> HIDE DEF y
  <2> QED BY <1>2, <2>1, SameIndices, SameSum DEF Total, t
<1> HIDE DEF y, value
<1>10. /\ FreshWith(<<1>>, specified, g) /\ call'.op = "mean"
       /\ \A i \in A!Indices(<<1>>) : g[i] = value
  BY <1>3, <1>7, <1>8, <1>9, SameIndices DEF q
<1>11. A!Fresh(<<1>>, specified, LAMBDA one : value)
  BY ONLY <1>10 DEF FreshWith, A!Fresh
<1> QED BY ONLY <1>10, <1>11 DEF A!Averaged, A!Calls, A!Operand, A!Element, ElementOf,
                               specified, value, y, A!Fresh

-----------------------------------------------------------------------------
(* A write in place.                                                       *)

WrittenAt(new, old, c, e) == new = [old EXCEPT ![c] = e]

(* A write to an address of a storage is one to the cell of that place.    *)
LEMMA ContentWritten ==
  ASSUME NEW m, NEW s \in DOMAIN m, NEW a \in DOMAIN m[s], NEW e,
         NEW n, n = [m EXCEPT ![s][a] = e]
  PROVE  /\ <<s, a>> \in DOMAIN ContentOf(m)
         /\ WrittenAt(ContentOf(n), ContentOf(m), <<s, a>>, e)
<1> DEFINE D == UNION {{r} \X DOMAIN m[r] : r \in DOMAIN m}
           E == UNION {{r} \X DOMAIN n[r] : r \in DOMAIN n}
<1>1. /\ DOMAIN n = DOMAIN m /\ \A r \in DOMAIN m : DOMAIN n[r] = DOMAIN m[r]
      /\ \A r \in DOMAIN m : \A k \in DOMAIN m[r] :
           n[r][k] = IF r = s /\ k = a THEN e ELSE m[r][k]
  OBVIOUS
<1>2. D = E
  BY <1>1
<1>3. ContentOf(m) = [c \in D |-> m[c[1]][c[2]]] /\ ContentOf(n) = [c \in D |-> n[c[1]][c[2]]]
  BY <1>2 DEF ContentOf
<1>4. \A c : c \in D <=> \E r \in DOMAIN m : \E k \in DOMAIN m[r] : c = <<r, k>>
  OBVIOUS
<1> HIDE DEF D, E
<1>5. <<s, a>> \in D
  BY <1>4
<1>6. ASSUME NEW c \in D
      PROVE  n[c[1]][c[2]] = IF c = <<s, a>> THEN e ELSE m[c[1]][c[2]]
  <2>1. PICK r \in DOMAIN m : \E k \in DOMAIN m[r] : c = <<r, k>>
    BY <1>4
  <2>2. PICK k \in DOMAIN m[r] : c = <<r, k>>
    BY <2>1
  <2>3. c[1] = r /\ c[2] = k /\ (c = <<s, a>> <=> r = s /\ k = a)
    BY <2>2
  <2> QED BY <1>1, <2>3
<1>7. ContentOf(n) = [ContentOf(m) EXCEPT ![<<s, a>>] = e]
  BY <1>3, <1>6
<1> QED BY <1>3, <1>5, <1>7 DEF WrittenAt

LEMMA WriteImplements ==
  ASSUME ViewsInv, NEW x \in Tensor, NEW k \in 0..numel(tensors[x].shape) - 1, NEW value,
         WriteData(x, k, value)
  PROVE  A!Write
<1> DEFINE t == tensors[x]
           c == <<t.storage, t.offset + k>>
<1>1. /\ memory' = [memory EXCEPT ![t.storage][t.offset + k] = value] /\ tensors' = tensors
      /\ call' = [op |-> "write", of |-> <<x>>, by |-> <<k, value>>]
  BY DEF WriteData, Called
<1>2. t.storage \in DOMAIN memory /\ t.offset + k \in DOMAIN memory[t.storage]
  <2>1. tensors \in Seq(Tensors) /\ x \in 1..Len(tensors) /\ memory \in Seq(Storages)
    BY LengthFacts DEF ViewsInv, Tensor
  <2>2. Places(t, memory) /\ DOMAIN memory = 1..Len(memory)
    BY <2>1, LengthFacts DEF ViewsInv
  <2> QED BY <2>2 DEF Places, Within, ReadsIn
<1>3. AsArrays[x].dense => c = AsArrays[x].cell[A!Unflatten(AsArrays[x].shape, k)]
  <2> SUFFICES ASSUME AsArrays[x].dense
               PROVE  c = AsArrays[x].cell[A!Unflatten(AsArrays[x].shape, k)]
    OBVIOUS
  <2>1. t.shape \in Seq(Nat) /\ Dense(t) /\ AsArrays[x].shape = t.shape
    BY ArrayFacts
  <2>2. Unflatten(t.shape, k) \in Indices(t.shape)
    BY <2>1, NumberFacts
  <2>3. AsArrays[x].cell[Unflatten(t.shape, k)] = <<t.storage, Address(t, Unflatten(t.shape, k))>>
    BY <2>2, ArrayFacts
  <2>4. Address(t, Unflatten(t.shape, k)) = t.offset + k
    BY <2>1 DEF Dense
  <2> QED BY <2>1, <2>3, <2>4, SameUnflatten
<1>4. UNCHANGED AsArrays
  BY <1>1 DEF AsArrays, Tensor, ArrayOf, Dense, Address
<1> HIDE DEF t
<1>5. c \in DOMAIN Contents /\ Contents' = [Contents EXCEPT ![c] = value]
  <2> DEFINE m == memory'
  <2>1. m = [memory EXCEPT ![t.storage][t.offset + k] = value]
    BY <1>1
  <2> HIDE DEF m
  <2>2. c \in DOMAIN ContentOf(memory) /\ WrittenAt(ContentOf(m), ContentOf(memory), c, value)
    BY <1>2, <2>1, ContentWritten
  <2>3. Contents = ContentOf(memory)
    BY DEF Contents, ContentOf
  <2>4. Contents' = ContentOf(m)
    BY DEF Contents, ContentOf, m
  <2> HIDE DEF c
  <2> QED BY <2>2, <2>3, <2>4 DEF WrittenAt
<1> HIDE DEF c
<1> DEFINE y == call'.of[1]
           j == call'.by[1]
           e == call'.by[2]
<1>6. y = x /\ j = k /\ e = value /\ call'.op = "write"
  BY <1>1
<1> HIDE DEF y, j, e
<1>7. /\ c \in DOMAIN Contents /\ Contents' = [Contents EXCEPT ![c] = e]
      /\ AsArrays[y].dense => c = AsArrays[y].cell[A!Unflatten(AsArrays[y].shape, j)]
  BY <1>3, <1>5, <1>6
<1> QED BY ONLY <1>4, <1>6, <1>7 DEF A!Write, A!Calls, A!Operand, A!Arg, y, j, e

-----------------------------------------------------------------------------
(* Every step of the tensors is one of the arrays.                         *)

LEMMA MakeViewImplements ==
  ASSUME ViewsInv, NEW x \in Tensor, MakeView(x)
  PROVE  A!Next
<1> DEFINE D == DOMAIN tensors[x].shape
           n(d) == tensors[x].shape[d]
<1>1. Dims(x) = D /\ \A d \in D : n(d) \in Nat
  BY TensorFacts DEF Dims
<1>2. CASE \E d \in D : \E start, end \in -n(d)..n(d) : Slice(x, d, start, end)
  <2>1. PICK d \in D : \E start, end \in -n(d)..n(d) : Slice(x, d, start, end)
    BY <1>2
  <2>2. PICK start \in -n(d)..n(d), end \in -n(d)..n(d) : Slice(x, d, start, end)
    BY <2>1
  <2>3. A!Slice
    BY <2>2, SliceImplements
  <2> QED BY <2>3 DEF A!Next
<1>3. CASE \E d \in D : \E start \in -n(d)..n(d), length \in 0..n(d) :
             Narrow(x, d, start, length)
  <2>1. PICK d \in D : \E start \in -n(d)..n(d), length \in 0..n(d) :
               Narrow(x, d, start, length)
    BY <1>3
  <2>2. PICK start \in -n(d)..n(d), length \in 0..n(d) : Narrow(x, d, start, length)
    BY <2>1
  <2>3. A!Narrow \/ A!Slice
    BY <2>2, NarrowImplements
  <2> QED BY <2>3 DEF A!Next
<1>4. CASE \E d \in D : \E index \in -n(d)..n(d) - 1 : Select(x, d, index)
  <2>1. PICK d \in D : \E index \in -n(d)..n(d) - 1 : Select(x, d, index)
    BY <1>4
  <2>2. PICK index \in -n(d)..n(d) - 1 : Select(x, d, index)
    BY <2>1
  <2>3. A!Select
    BY <2>2, SelectImplements
  <2> QED BY <2>3 DEF A!Next
<1>5. CASE \E dims \in {p \in [D -> D] : \A i, j \in D : p[i] = p[j] => i = j} :
             Permute(x, dims)
  <2>1. A!Permute
    BY <1>5, PermuteImplements
  <2> QED BY <2>1 DEF A!Next
<1>6. CASE \E shape \in Reshapes : Reshape(x, shape)
  <2>1. A!Reshape
    BY <1>6, ViewsAssumption, ReshapeImplements
  <2> QED BY <2>1 DEF A!Next
<1> QED BY <1>1, <1>2, <1>3, <1>4, <1>5, <1>6 DEF MakeView

LEMMA CreateImplements ==
  ASSUME ViewsInv, Create
  PROVE  A!Next
<1>1. CASE \E shape \in Fills, value \in {0, 1} : Full(shape, value)
  <2>1. PICK shape \in Fills, value \in {0, 1} : Full(shape, value)
    BY <1>1
  <2>2. shape \in Seq(Nat) /\ value \in Int
    BY ViewsAssumption
  <2>3. A!Filled
    BY <2>1, <2>2, FullImplements
  <2> QED BY <2>3 DEF A!Next
<1>2. CASE \E r \in Ranges : Arange(r[1], r[2], r[3])
  <2>1. PICK r \in Ranges : Arange(r[1], r[2], r[3])
    BY <1>2
  <2>2. r \in Int \X Int \X Int
    BY ViewsAssumption
  <2>3. r[1] \in Int /\ r[2] \in Int /\ r[3] \in Int
    BY <2>2
  <2>4. A!Ranged
    BY <2>1, <2>3, ArangeImplements
  <2> QED BY <2>4 DEF A!Next
<1> QED BY <1>1, <1>2 DEF Create

LEMMA ComputeImplements ==
  ASSUME ViewsInv, NEW x \in Tensor, Compute(x)
  PROVE  A!Next
<1>1. CASE CopyTo(x) \/ Activation(x) \/ Softmax(x) \/ Mean(x)
  <2>1. A!Copied \/ A!Mapped \/ A!RowMapped \/ A!Averaged
    BY <1>1, CopyImplements, ActivationImplements, SoftmaxImplements, MeanImplements
  <2> QED BY <2>1 DEF A!Next
<1>2. CASE \E y \in Tensor : \E op \in {"add", "sub", "mul"} : Binary(op, x, y)
  <2>1. A!Mapped
    BY <1>2, BinaryImplements
  <2> QED BY <2>1 DEF A!Next
<1>3. CASE \E y \in Tensor : Matmul(x, y)
  <2>1. A!Multiplied
    BY <1>3, MatmulImplements
  <2> QED BY <2>1 DEF A!Next
<1>4. CASE \E y \in Tensor : \E z \in Tensor : LayerNorm(x, y, z)
  <2>1. A!RowMapped
    BY <1>4, LayerNormImplements
  <2> QED BY <2>1 DEF A!Next
<1>5. CASE \E d \in Dims(x) : \E keepdim \in BOOLEAN : SumOver(x, d, keepdim)
  <2>1. A!Summed
    BY <1>5, SumImplements DEF Dims
  <2> QED BY <2>1 DEF A!Next
<1>6. CASE \E d \in Dims(x) : \E d1 \in Dims(x) : TransposeCopy(x, d, d1)
  <2>1. A!Transposed
    BY <1>6, TransposeImplements DEF Dims
  <2> QED BY <2>1 DEF A!Next
<1> QED BY <1>1, <1>2, <1>3, <1>4, <1>5, <1>6 DEF Compute

LEMMA ModifyImplements ==
  ASSUME ViewsInv, NEW x \in Tensor, Modify(x)
  PROVE  A!Next
<1>1. PICK k \in 0..numel(tensors[x].shape) - 1 : WriteData(x, k, 7)
  BY DEF Modify
<1>2. A!Write
  BY <1>1, WriteImplements
<1> QED BY <1>2 DEF A!Next

LEMMA InitImplements ==
  ASSUME Init
  PROVE  A!Init
<1>1. tensors = <<>> /\ memory = <<>> /\ call = [op |-> "none", of |-> <<>>, by |-> <<>>]
  BY DEF Init
<1>2. AsArrays = <<>>
  BY <1>1 DEF AsArrays, Tensor
<1>3. Contents = <<>>
  <2>1. UNION {{s} \X DOMAIN memory[s] : s \in DOMAIN memory} = {}
    BY <1>1
  <2> QED BY <2>1 DEF Contents
<1> QED BY <1>1, <1>2, <1>3 DEF A!Init

LEMMA StutterImplements ==
  ASSUME UNCHANGED vars
  PROVE  UNCHANGED A!vars
<1>1. UNCHANGED <<tensors, memory, call>>
  BY DEF vars
<1>2. UNCHANGED AsArrays
  BY <1>1 DEF AsArrays, Tensor, ArrayOf, Dense, Address
<1>3. UNCHANGED Contents
  BY <1>1 DEF Contents
<1> QED BY <1>1, <1>2, <1>3 DEF A!vars

(* Tensors behave as arrays do, for all shapes and ranges and however      *)
(* views, operations and writes are chained: a view shows the elements it  *)
(* should and shares them, an operation on dense operands computes what    *)
(* its definition says of the elements at each index, and touches no other *)
(* tensor.  (Tensor.cpp 22-619, slicing.cpp 24-74, shape_ops.cpp 12-77,    *)
(* factory.cpp 118-169)                                                    *)
THEOREM TensorsAreArrays == Spec => ImplementsArrays
<1>1. Init => A!Init
  BY InitImplements
<1>2. ViewsInv /\ [Next]_vars => [A!Next]_A!vars
  <2> SUFFICES ASSUME ViewsInv, [Next]_vars PROVE [A!Next]_A!vars
    OBVIOUS
  <2>1. CASE UNCHANGED vars
    BY <2>1, StutterImplements
  <2>2. CASE Create
    BY <2>2, CreateImplements
  <2>3. ASSUME NEW x \in Tensor, MakeView(x) PROVE A!Next
    BY <2>3, MakeViewImplements
  <2>4. ASSUME NEW x \in Tensor, Compute(x) PROVE A!Next
    BY <2>4, ComputeImplements
  <2>5. ASSUME NEW x \in Tensor, Modify(x) PROVE A!Next
    BY <2>5, ModifyImplements
  <2> QED BY <2>1, <2>2, <2>3, <2>4, <2>5 DEF Next
<1> QED BY <1>1, <1>2, ViewsInvariant, PTL DEF Spec, ImplementsArrays, A!Spec
=============================================================================
