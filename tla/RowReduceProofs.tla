--------------------------- MODULE RowReduceProofs ---------------------------
(***************************************************************************)
(* Proofs about RowReduce, for every warp, number of warps and row: the    *)
(* barriers cut each kernel into five phases, and all threads of the block *)
(* are in the same one; and what each thread leaves in out is computed     *)
(* from reductions of the whole row.                                       *)
(***************************************************************************)
EXTENDS RowReduce, NaturalsInduction, WellFoundedInduction, FiniteSetTheorems, TLAPS

Place == {"gather", "shuffle", "put", "sync", "get", "shuffle0", "broadcast", "syncTotal",
          "read", "store", "done"}

(* What lies between two barriers; each reduction has two of them.         *)
Phase(i, t) ==
  \/ i = 1 /\ pass[t] = 1 /\ pc[t] \in {"gather", "shuffle", "put", "sync"}
  \/ i = 2 /\ pass[t] = 1 /\ pc[t] \in {"get", "shuffle0", "broadcast", "syncTotal"}
  \/ i = 3 /\ pass[t] = 1 /\ pc[t] = "read"
  \/ i = 3 /\ pass[t] = 2 /\ pc[t] \in {"gather", "shuffle", "put", "sync"}
  \/ i = 4 /\ pass[t] = 2 /\ pc[t] \in {"get", "shuffle0", "broadcast", "syncTotal"}
  \/ i = 5 /\ pass[t] = 2 /\ pc[t] \in {"read", "store", "done"}

TypeInv == pc \in [Thread -> Place] /\ pass \in [Thread -> {1, 2}]

PhaseInv == \E i \in 1..5 : \A t \in Thread : Phase(i, t)

IInv == TypeInv /\ PhaseInv

-----------------------------------------------------------------------------

LEMMA InitIInv == Init => IInv
BY DEF Init, IInv, TypeInv, PhaseInv, Phase, Entry, Place

(* A step of some threads within their phase leaves all in it.             *)
LEMMA WithinPhase ==
  ASSUME IInv, TypeInv',
         \A i \in 1..5, t \in Thread : Phase(i, t) => Phase(i, t)'
  PROVE  IInv'
BY DEF IInv, PhaseInv

LEMMA StepIInv ==
  ASSUME IInv, NEW t \in Thread, Step(t)
  PROVE  IInv'
<1>1. TypeInv'
  BY DEF Step, Gather, Put, Get, Broadcast, Read, Store, IInv, TypeInv, Place, AfterPut,
     AfterBroadcast
<1>2. ASSUME NEW i \in 1..5, NEW u \in Thread, Phase(i, u)
      PROVE  Phase(i, u)'
  <2>1. CASE u # t
    <3>1. pc'[u] = pc[u] /\ pass'[u] = pass[u]
      BY <2>1 DEF Step, Gather, Put, Get, Broadcast, Read, Store, IInv, TypeInv
    <3> QED BY <1>2, <3>1 DEF Phase
  <2>2. CASE u = t
    <3>1. CASE Gather(t)
      BY <1>2, <2>2, <3>1 DEF Gather, Phase, IInv, TypeInv
    <3>2. CASE Put(t)
      BY <1>2, <2>2, <3>2 DEF Put, AfterPut, Phase, IInv, TypeInv
    <3>3. CASE Get(t)
      BY <1>2, <2>2, <3>3 DEF Get, Phase, IInv, TypeInv
    <3>4. CASE Broadcast(t)
      BY <1>2, <2>2, <3>4 DEF Broadcast, AfterBroadcast, Phase, IInv, TypeInv
    <3>5. CASE Read(t)
      BY <1>2, <2>2, <3>5 DEF Read, Phase, IInv, TypeInv
    <3>6. CASE Store(t)
      BY <1>2, <2>2, <3>6 DEF Store, Phase, IInv, TypeInv
    <3> QED BY <3>1, <3>2, <3>3, <3>4, <3>5, <3>6 DEF Step
  <2> QED BY <2>1, <2>2
<1> QED BY <1>1, <1>2, WithinPhase

LEMMA WarpReduceIInv ==
  ASSUME IInv, NEW w \in Warp, WarpReduce(w)
  PROVE  IInv'
<1>1. PICK here \in {"shuffle", "shuffle0"} :
        /\ \A l \in Lane : pc[<<w, l>>] = here
        /\ pc' = [t \in Thread |-> IF t[1] # w THEN pc[t]
                                   ELSE IF here = "shuffle" THEN "put" ELSE "broadcast"]
  BY DEF WarpReduce
<1>2. pass' = pass
  BY DEF WarpReduce
<1>3. \A t \in Thread : t[1] = w => pc[t] = here
  BY <1>1 DEF Thread
<1>4. TypeInv'
  BY <1>1, <1>2 DEF IInv, TypeInv, Place
<1>5. ASSUME NEW i \in 1..5, NEW t \in Thread, Phase(i, t)
      PROVE  Phase(i, t)'
  BY <1>1, <1>2, <1>3, <1>5 DEF Phase
<1> QED BY <1>4, <1>5, WithinPhase

LEMMA SyncThreadsIInv ==
  ASSUME IInv, SyncThreads
  PROVE  IInv'
<1>1. /\ \A t \in Thread : pc[t] \in {"sync", "syncTotal"}
      /\ pc' = [t \in Thread |-> IF pc[t] = "syncTotal" THEN "read"
                                 ELSE IF t[1] = 0 THEN "get" ELSE "broadcast"]
      /\ pass' = pass
  BY DEF SyncThreads
<1>2. TypeInv'
  BY <1>1 DEF IInv, TypeInv, Place
<1>3. PICK i \in 1..5 : \A t \in Thread : Phase(i, t)
  BY DEF IInv, PhaseInv
<1>4. CASE i = 5
  <2>1. \A t \in Thread : FALSE
    BY <1>1, <1>3, <1>4 DEF Phase
  <2> QED BY <1>2, <2>1 DEF IInv, PhaseInv
<1>5. CASE i # 5
  <2>1. i + 1 \in 1..5 /\ i \in 1..4
    BY <1>5
  <2>2. \A t \in Thread : Phase(i + 1, t)'
    BY <1>1, <1>3, <2>1 DEF Phase
  <2> QED BY <1>2, <2>1, <2>2 DEF IInv, PhaseInv
<1> QED BY <1>4, <1>5

LEMMA NextIInv == IInv /\ [Next]_vars => IInv'
<1> SUFFICES ASSUME IInv, [Next]_vars PROVE IInv'
  OBVIOUS
<1>1. CASE UNCHANGED vars
  BY <1>1 DEF vars, IInv, TypeInv, PhaseInv, Phase
<1> QED
  BY <1>1, StepIInv, WarpReduceIInv, SyncThreadsIInv DEF Next, Finished

LEMMA InvariantIInv == Spec => []IInv
BY InitIInv, NextIInv, PTL DEF Spec

-----------------------------------------------------------------------------

LEMMA OneThreadZero ==
  ASSUME NEW t \in Thread, NEW u \in Thread, threadIdx(t) = 0, threadIdx(u) = 0
  PROVE  t = u
<1>1. WarpSize \in Nat \ {0} /\ NumWarps \in Nat
  BY RowReduceAssumption
<1>2. ASSUME NEW v \in Thread, threadIdx(v) = 0 PROVE v = <<0, 0>>
  <2>1. PICK w \in 0..NumWarps - 1, l \in 0..WarpSize - 1 : v = <<w, l>>
    BY DEF Thread, Warp, Lane
  <2>2. w * WarpSize + l = 0 /\ w \in Nat /\ l \in Nat
    BY <1>1, <1>2, <2>1 DEF threadIdx
  <2>3. w * WarpSize \in Nat /\ (w > 0 => w * WarpSize > 0)
    BY <1>1, <2>2
  <2> QED BY <2>1, <2>2, <2>3
<1> QED BY <1>2

(* softmax.cu 94-130, 152-176 and layernorm.cu 68-83, 102-114: whatever    *)
(* the size of the block, the four barriers exclude every data race on     *)
(* warp_results and on the broadcast cells.                                *)
THEOREM RaceFree == Spec => []NoDataRace
<1>1. IInv => NoDataRace
  <2> SUFFICES ASSUME IInv, NEW t \in Thread, NEW u \in Thread, t # u,
                      NEW a \in Writes(t), a \in Reads(u) \cup Writes(u)
               PROVE  FALSE
    BY DEF NoDataRace
  <2>1. PICK i \in 1..5 : Phase(i, t) /\ Phase(i, u)
    BY DEF IInv, PhaseInv
  <2>2. CASE pc[t] = "put" /\ t[2] = 0 /\ a = <<"warp_results", Array(pass[t]), t[1]>>
    <3>1. pc[u] \notin {"get", "broadcast"}
      BY <2>1, <2>2 DEF Phase
    <3>2. pc[u] = "put" /\ u[2] = 0 /\ u[1] = t[1]
      BY <2>2, <3>1 DEF Reads, Writes
    <3> QED BY <2>2, <3>2 DEF Thread
  <2>3. CASE pc[t] = "broadcast" /\ threadIdx(t) = 0 /\ a = <<"s", pass[t]>>
    <3>1. pc[u] \notin {"read", "put"}
      BY <2>1, <2>3 DEF Phase
    <3>2. pc[u] = "broadcast" /\ threadIdx(u) = 0
      BY <2>3, <3>1 DEF Reads, Writes
    <3> QED BY <2>3, <3>2, OneThreadZero
  <2> QED BY <2>2, <2>3 DEF Writes
<1> QED BY <1>1, InvariantIInv, PTL

-----------------------------------------------------------------------------
(* Arithmetic.                                                             *)

LEMMA Quotient ==
  ASSUME NEW a \in Nat, NEW b \in Nat \ {0}
  PROVE  /\ a \div b \in Nat /\ a % b \in Nat
         /\ a = b * (a \div b) + (a % b) /\ a % b < b
BY SMT

LEMMA ProductIsMonotone ==
  ASSUME NEW a \in Nat, NEW b \in Nat, NEW c \in Nat, a <= b
  PROVE  a * c <= b * c
<1>1. PICK d \in Nat : b = a + d
  <2>1. b = a + (b - a) /\ b - a \in Nat
    OBVIOUS
  <2> QED BY <2>1
<1>2. b * c = a * c + d * c /\ d * c \in Nat
  BY <1>1
<1> QED BY <1>2

LEMMA Remainder ==
  ASSUME NEW e \in Nat, NEW n \in Nat \ {0}, NEW m \in Nat, m < n,
         NEW a, a = e * n + m
  PROVE  a % n = m /\ a \div n = e
<1> DEFINE q == a \div n
<1>1. a \in Nat
  OBVIOUS
<1>2. q \in Nat /\ a % n \in Nat /\ a = n * q + (a % n) /\ a % n < n
  BY <1>1, Quotient
<1> HIDE DEF q
<1>3. e * n + m = q * n + (a % n)
  BY <1>2
<1>4. ~(e < q)
  <2> SUFFICES ASSUME e + 1 <= q PROVE FALSE
    BY <1>2
  <2>1. (e + 1) * n <= q * n
    BY <1>2, ProductIsMonotone
  <2>2. (e + 1) * n = e * n + n
    OBVIOUS
  <2> QED BY <1>2, <1>3, <2>1, <2>2
<1>5. ~(q < e)
  <2> SUFFICES ASSUME q + 1 <= e PROVE FALSE
    BY <1>2
  <2>1. (q + 1) * n <= e * n
    BY <1>2, ProductIsMonotone
  <2>2. (q + 1) * n = q * n + n
    BY <1>2
  <2> QED BY <1>2, <1>3, <2>1, <2>2
<1>6. q = e
  BY <1>2, <1>4, <1>5
<1>7. a % n = m
  BY <1>2, <1>3, <1>6
<1> QED BY <1>6, <1>7 DEF q

LEMMA LeastMember ==
  ASSUME NEW T \in SUBSET Nat, T # {}
  PROVE  \E x \in T : \A y \in T : x <= y
<1> DEFINE R == OpToRel(<, Nat)
<1>1. PICK x \in T : \A y \in T : ~(<<y, x>> \in R)
  <2>1. IsWellFoundedOn(R, Nat)
    BY NatLessThanWellFounded
  <2> HIDE DEF R
  <2> QED BY <2>1, WFMin
<1>2. \A y \in T : ~(y < x)
  BY <1>1 DEF OpToRel
<1> QED BY <1>2

LEMMA Powers ==
  ASSUME NEW j \in 0..LogWarp + Scale
  PROVE  2 ^ j \in Nat \ {0}
<1> DEFINE Bad == {i \in Nat : i <= LogWarp + Scale /\ 2 ^ i \notin Nat \ {0}}
<1>1. LogWarp + Scale \in Nat
  BY RowReduceAssumption
<1>2. Bad = {}
  <2> SUFFICES ASSUME Bad # {} PROVE FALSE
    OBVIOUS
  <2>1. PICK x \in Bad : \A y \in Bad : x <= y
    BY LeastMember
  <2>2. x # 0
    <3>1. 2 ^ 0 = 1
      BY RowReduceAssumption
    <3>2. x \in Nat /\ 2 ^ x # 1
      OBVIOUS
    <3> QED BY <3>1, <3>2
  <2>3. x - 1 \in 0..LogWarp + Scale /\ x - 1 \notin Bad
    BY <1>1, <2>1, <2>2
  <2>4. 2 ^ (x - 1) \in Nat \ {0}
    BY <1>1, <2>3
  <2>5. 2 ^ (x - 1 + 1) = 2 * 2 ^ (x - 1)
    BY <2>3, RowReduceAssumption
  <2>6. x - 1 + 1 = x
    OBVIOUS
  <2> HIDE DEF Bad
  <2>7. 2 ^ x \in Nat \ {0}
    BY <2>4, <2>5, <2>6
  <2> QED BY <2>7 DEF Bad
<1> QED BY <1>1, <1>2

-----------------------------------------------------------------------------
(* The reductions.  F gives each set of columns in T its reduction, when   *)
(* taking any column away takes its term away.                             *)

Value(k) == {i \in Int : i >= Neutral(k)}

LEMMA OpFacts ==
  ASSUME NEW k, NEW a \in Value(k), NEW b \in Value(k), NEW c \in Value(k)
  PROVE  /\ Neutral(k) \in Value(k) /\ Op(k, a, b) \in Value(k)
         /\ Op(k, Neutral(k), a) = a /\ Op(k, a, b) = Op(k, b, a)
         /\ Op(k, a, Op(k, b, c)) = Op(k, b, Op(k, a, c))
BY DEF Value, Op, Neutral, NegInfinity

LEMMA OpAssociative ==
  ASSUME NEW k, NEW a \in Value(k), NEW b \in Value(k), NEW c \in Value(k)
  PROVE  Op(k, Op(k, a, b), c) = Op(k, a, Op(k, b, c))
BY DEF Value, Op, Neutral, NegInfinity

Combines(F, k, first, T) ==
  /\ F \in [SUBSET T -> Value(k)] /\ F[{}] = Neutral(k)
  /\ \A c \in T : Term(k, c, first) \in Nat
  /\ \A S \in SUBSET T : \A c \in S :
       F[S] = Op(k, Term(k, c, first), F[S \ {c}])

LEMMA NatIsValue == ASSUME NEW k PROVE Nat \subseteq Value(k) /\ Neutral(k) \in Value(k)
BY DEF Value, Neutral, NegInfinity

LEMMA CombinesExtends ==
  ASSUME NEW k, NEW first, NEW T, NEW F, Combines(F, k, first, T), NEW e, e \notin T,
         Term(k, e, first) \in Nat
  PROVE  \E G : Combines(G, k, first, T \cup {e})
<1> DEFINE U == T \cup {e}
           x(c) == Term(k, c, first)
           G == [S \in SUBSET U |-> IF e \in S THEN Op(k, x(e), F[S \ {e}]) ELSE F[S]]
<1>1. \A S \in SUBSET U : S \ {e} \in SUBSET T /\ (e \notin S => S \in SUBSET T)
  OBVIOUS
<1>2. \A S \in SUBSET T : F[S] \in Value(k)
  BY DEF Combines
<1>3. \A c \in U : x(c) \in Nat /\ x(c) \in Value(k)
  BY NatIsValue DEF Combines
<1> HIDE DEF x
<1>4. G \in [SUBSET U -> Value(k)]
  <2> SUFFICES ASSUME NEW S \in SUBSET U
               PROVE  (IF e \in S THEN Op(k, x(e), F[S \ {e}]) ELSE F[S]) \in Value(k)
    OBVIOUS
  <2>1. CASE e \in S
    BY <1>1, <1>2, <1>3, <2>1, OpFacts
  <2> QED BY <1>1, <1>2, <2>1
<1>5. G[{}] = Neutral(k)
  BY DEF Combines
<1>6. ASSUME NEW S \in SUBSET U, NEW c \in S
      PROVE  G[S] = Op(k, x(c), G[S \ {c}])
  <2>1. S \ {c} \in SUBSET U
    OBVIOUS
  <2>2. CASE e \notin S
    <3>1. G[S] = F[S] /\ G[S \ {c}] = F[S \ {c}] /\ S \in SUBSET T
      BY <1>1, <2>1, <2>2
    <3> QED BY <3>1 DEF Combines, x
  <2>3. CASE e \in S /\ c = e
    BY <2>1, <2>3
  <2>4. CASE e \in S /\ c # e
    <3>1. G[S] = Op(k, x(e), F[S \ {e}]) /\ G[S \ {c}] = Op(k, x(e), F[(S \ {c}) \ {e}])
      BY <2>1, <2>4
    <3>2. /\ S \ {e} \in SUBSET T /\ c \in S \ {e}
          /\ (S \ {c}) \ {e} = (S \ {e}) \ {c}
          /\ (S \ {c}) \ {e} \in SUBSET T
      BY <1>1, <2>4
    <3>3. F[S \ {e}] = Op(k, x(c), F[(S \ {c}) \ {e}])
      BY <3>2 DEF Combines, x
    <3>4. x(e) \in Value(k) /\ x(c) \in Value(k) /\ F[(S \ {c}) \ {e}] \in Value(k)
      BY <1>2, <1>3, <3>2
    <3> HIDE DEF G
    <3> QED BY <3>1, <3>3, <3>4, OpFacts
  <2> QED BY <2>2, <2>3, <2>4
<1> HIDE DEF G
<1>7. Combines(G, k, first, U)
  BY <1>3, <1>4, <1>5, <1>6 DEF Combines, x
<1> QED BY <1>7

LEMMA CombinesAll ==
  ASSUME NEW k, NEW first, NEW n \in Nat,
         \A c \in 0..n - 1 : Term(k, c, first) \in Nat
  PROVE  \E F : Combines(F, k, first, 0..n - 1)
<1> DEFINE Bad == {m \in Nat : m <= n /\ ~\E F : Combines(F, k, first, 0..m - 1)}
<1> SUFFICES ASSUME Bad # {} PROVE FALSE
  <2>1. n \in Bad \/ \E F : Combines(F, k, first, 0..n - 1)
    OBVIOUS
  <2> QED BY <2>1
<1>1. PICK m \in Bad : \A i \in Bad : m <= i
  BY LeastMember
<1>2. m \in Nat /\ m <= n /\ ~\E F : Combines(F, k, first, 0..m - 1)
  OBVIOUS
<1>3. m # 0
  <2> SUFFICES ASSUME m = 0 PROVE FALSE
    OBVIOUS
  <2>1. 0..m - 1 = {}
    OBVIOUS
  <2> DEFINE F == [S \in SUBSET {} |-> Neutral(k)]
  <2>2. F \in [SUBSET {} -> Value(k)] /\ F[{}] = Neutral(k)
    BY NatIsValue
  <2> HIDE DEF F, Bad
  <2>3. Combines(F, k, first, {})
    BY <2>2 DEF Combines
  <2> QED BY <1>2, <2>1, <2>3
<1>4. PICK F : Combines(F, k, first, 0..m - 2)
  <2>1. m - 1 \in Nat /\ m - 1 <= n /\ (m - 1) - 1 = m - 2 /\ ~(m <= m - 1)
    BY <1>2, <1>3
  <2>2. m - 1 \notin Bad
    <3> HIDE DEF Bad
    <3> QED BY <1>1, <2>1
  <2> QED BY <2>1, <2>2
<1>5. m - 1 \in 0..n - 1 /\ m - 1 \notin 0..m - 2 /\ 0..m - 1 = (0..m - 2) \cup {m - 1}
  BY <1>2, <1>3
<1> HIDE DEF Bad
<1>6. \E G : Combines(G, k, first, (0..m - 2) \cup {m - 1})
  BY <1>4, <1>5, CombinesExtends
<1> QED BY <1>2, <1>5, <1>6

(* Such an F is what Reduced computes by picking the columns one by one.   *)
LEMMA ReducedCombines ==
  ASSUME NEW k, NEW first, NEW T, IsFiniteSet(T), NEW F, Combines(F, k, first, T),
         NEW R \in SUBSET T
  PROVE  Reduced(k, R, first) = F[R]
<1> DEFINE Pick(S) == CHOOSE x \in S : TRUE
           Body(g) == [S \in SUBSET R |->
             IF S = {} THEN Neutral(k)
             ELSE Op(k, Term(k, Pick(S), first), g[S \ {Pick(S)}])]
           iter == CHOOSE g : g = Body(g)
           H == [S \in SUBSET R |-> F[S]]
           Differ == {S \in SUBSET R : iter[S] # F[S]}
           Sizes == {Cardinality(S) : S \in Differ}
<1>1. Reduced(k, R, first) = iter[R]
  BY DEF Reduced, FoldSet, MapThenFoldSet
<1>2. \A S \in SUBSET R : S # {} => Pick(S) \in S /\ S \ {Pick(S)} \in SUBSET R
  OBVIOUS
<1> HIDE DEF Pick
<1>3. ASSUME NEW S \in SUBSET R PROVE F[S] = Body(F)[S]
  BY <1>2 DEF Combines
<1>4. H = Body(H)
  BY <1>2, <1>3
<1>5. iter = Body(iter)
  BY <1>4
<1> HIDE DEF iter
<1>6. ASSUME NEW S \in SUBSET R PROVE IsFiniteSet(S) /\ Cardinality(S) \in Nat
  BY FS_Subset, FS_CardinalityType
<1>7. Differ = {}
  <2> SUFFICES ASSUME Differ # {} PROVE FALSE
    OBVIOUS
  <2>1. Sizes # {} /\ Sizes \subseteq Nat
    BY <1>6
  <2>2. PICK m \in Sizes : \A i \in Sizes : m <= i
    <3> HIDE DEF Sizes
    <3> QED BY <2>1, LeastMember
  <2>3. PICK S \in Differ : Cardinality(S) = m
    OBVIOUS
  <2>4. S # {}
    BY <1>5 DEF Combines
  <2> DEFINE r == S \ {Pick(S)}
  <2>5. Pick(S) \in S /\ r \in SUBSET R
    BY <1>2, <2>4
  <2>6. Cardinality(r) = Cardinality(S) - 1
    BY <1>6, <2>5, FS_RemoveElement
  <2>7. r \notin Differ
    <3>1. Cardinality(S) \in Nat /\ Cardinality(r) \in Nat
      BY <1>6, <2>5
    <3>2. ~(Cardinality(r) \in Sizes)
      BY <2>2, <2>3, <2>6, <3>1
    <3> QED BY <3>2
  <2>8. iter[r] = F[r]
    BY <2>5, <2>7
  <2>9. iter[S] = Body(iter)[S] /\ F[S] = Body(F)[S]
    BY <1>3, <1>5
  <2> QED BY <2>4, <2>8, <2>9
<1> QED BY <1>1, <1>7

(* Two sets without a common column can be reduced one by one.             *)
LEMMA CombinesUnion ==
  ASSUME NEW k, NEW first, NEW T, IsFiniteSet(T), NEW F, Combines(F, k, first, T),
         NEW A \in SUBSET T, NEW B \in SUBSET T, A \cap B = {}
  PROVE  F[A \cup B] = Op(k, F[A], F[B])
<1> DEFINE Bad == {S \in SUBSET A : F[S \cup B] # Op(k, F[S], F[B])}
           Sizes == {Cardinality(S) : S \in Bad}
<1>1. \A S \in SUBSET T : F[S] \in Value(k)
  BY DEF Combines
<1> SUFFICES ASSUME Bad # {} PROVE FALSE
  OBVIOUS
<1>2. ASSUME NEW S \in SUBSET A PROVE IsFiniteSet(S) /\ Cardinality(S) \in Nat
  BY FS_Subset, FS_CardinalityType
<1>3. Sizes # {} /\ Sizes \subseteq Nat
  BY <1>2
<1>4. PICK m \in Sizes : \A i \in Sizes : m <= i
  <2> HIDE DEF Sizes
  <2> QED BY <1>3, LeastMember
<1>5. PICK S \in Bad : Cardinality(S) = m
  OBVIOUS
<1>6. S # {}
  <2> SUFFICES ASSUME S = {} PROVE FALSE
    OBVIOUS
  <2>1. S \cup B = B /\ F[S] = Neutral(k)
    BY DEF Combines
  <2> QED BY <1>1, <2>1, OpFacts
<1>7. PICK c : c \in S
  BY <1>6
<1> DEFINE r == S \ {c}
<1>8. Cardinality(r) = Cardinality(S) - 1 /\ r \in SUBSET A
  BY <1>2, <1>7, FS_RemoveElement
<1>9. r \notin Bad
  <2>1. Cardinality(S) \in Nat /\ Cardinality(r) \in Nat
    BY <1>2, <1>8
  <2>2. ~(Cardinality(r) \in Sizes)
    <3> HIDE DEF Sizes, r, Bad
    <3> QED BY <1>4, <1>5, <1>8, <2>1
  <2> QED BY <2>2
<1>10. F[r \cup B] = Op(k, F[r], F[B])
  BY <1>8, <1>9
<1>11. S \cup B \in SUBSET T /\ c \in S \cup B /\ (S \cup B) \ {c} = r \cup B
  BY <1>7
<1> DEFINE x == Term(k, c, first)
<1>12. x \in Value(k)
  BY <1>7, NatIsValue DEF Combines
<1>13. F[S] = Op(k, x, F[r])
  BY <1>7 DEF Combines
<1>14. F[S \cup B] = Op(k, x, F[r \cup B])
  <2>1. F[S \cup B] = Op(k, x, F[(S \cup B) \ {c}])
    BY <1>11 DEF Combines
  <2> QED BY ONLY <1>11, <2>1
<1>15. F[r] \in Value(k) /\ F[B] \in Value(k)
  BY <1>1, <1>8
<1> HIDE DEF x, r
<1>16. F[S \cup B] = Op(k, F[S], F[B])
  <2>1. Op(k, x, Op(k, F[r], F[B])) = Op(k, Op(k, x, F[r]), F[B])
    BY ONLY <1>12, <1>15, OpAssociative
  <2> QED BY <1>10, <1>13, <1>14, <2>1
<1> QED BY <1>16

-----------------------------------------------------------------------------
(* What a reduction of the kernel gives for some of the columns.           *)

Input ==
  /\ kernel \in {"softmax", "layernorm"}
  /\ \E n \in Nat : row \in [0..n - 1 -> 0..Scale]

Given(k) == IF k = 1 THEN 0 ELSE Reduced(1, DOMAIN row, 0)

Part(k, S) == Reduced(k, S, Given(k))

Whole(k) == Part(k, DOMAIN row)

LEMMA AFunctionCombines ==
  ASSUME Input, NEW k, NEW first, \A c \in DOMAIN row : Term(k, c, first) \in Nat
  PROVE  /\ IsFiniteSet(DOMAIN row)
         /\ \E F : /\ Combines(F, k, first, DOMAIN row)
                  /\ \A S \in SUBSET DOMAIN row : Reduced(k, S, first) = F[S]
<1>1. PICK n \in Nat : row \in [0..n - 1 -> 0..Scale]
  BY DEF Input
<1>2. DOMAIN row = 0..n - 1 /\ IsFiniteSet(DOMAIN row)
  BY <1>1, FS_Interval
<1>3. PICK F : Combines(F, k, first, DOMAIN row)
  BY <1>2, CombinesAll
<1> QED BY <1>2, <1>3, ReducedCombines

LEMMA FirstTerms ==
  ASSUME Input, NEW c \in DOMAIN row
  PROVE  Term(1, c, 0) \in Nat /\ Term(1, c, 0) = row[c] /\ row[c] \in 0..Scale
<1>1. row[c] \in 0..Scale
  BY DEF Input
<1>2. Scale \in Nat
  BY RowReduceAssumption
<1>3. Term(1, c, 0) = row[c]
  BY DEF Term
<1> QED BY <1>1, <1>2, <1>3

(* The maximum is no less than any element, and none larger than Scale.    *)
LEMMA MaximumBounds ==
  ASSUME Input, kernel = "softmax", NEW c \in DOMAIN row
  PROVE  Reduced(1, DOMAIN row, 0) \in row[c]..Scale
<1>1. PICK F : /\ Combines(F, 1, 0, DOMAIN row)
               /\ \A S \in SUBSET DOMAIN row : Reduced(1, S, 0) = F[S]
  BY FirstTerms, AFunctionCombines
<1>2. IsFiniteSet(DOMAIN row)
  BY FirstTerms, AFunctionCombines
<1>3. \A S \in SUBSET DOMAIN row : F[S] \in Int
  BY <1>1 DEF Combines, Value
<1>4. \A S \in SUBSET DOMAIN row : \A x \in S :
        F[S] = IF row[x] < F[S \ {x}] THEN F[S \ {x}] ELSE row[x]
  <2> SUFFICES ASSUME NEW S \in SUBSET DOMAIN row, NEW x \in S
               PROVE  F[S] = IF row[x] < F[S \ {x}] THEN F[S \ {x}] ELSE row[x]
    OBVIOUS
  <2>1. F[S] = Op(1, Term(1, x, 0), F[S \ {x}])
    BY <1>1 DEF Combines
  <2>2. Term(1, x, 0) = row[x]
    BY FirstTerms
  <2> QED BY <2>1, <2>2 DEF Op, IsMax
<1>5. F[{}] = -1
  BY <1>1 DEF Combines, Neutral, IsMax, NegInfinity
<1> DEFINE Bad == {S \in SUBSET DOMAIN row : ~(F[S] <= Scale)}
           Sizes == {Cardinality(S) : S \in Bad}
<1>6. ASSUME NEW S \in SUBSET DOMAIN row PROVE IsFiniteSet(S) /\ Cardinality(S) \in Nat
  BY <1>2, FS_Subset, FS_CardinalityType
<1>7. Bad = {}
  <2> SUFFICES ASSUME Bad # {} PROVE FALSE
    OBVIOUS
  <2>1. Sizes # {} /\ Sizes \subseteq Nat
    BY <1>6
  <2>2. PICK m \in Sizes : \A i \in Sizes : m <= i
    <3> HIDE DEF Sizes
    <3> QED BY <2>1, LeastMember
  <2>3. PICK S \in Bad : Cardinality(S) = m
    OBVIOUS
  <2>4. PICK x : x \in S
    <3>1. F[{}] <= Scale
      BY <1>5, RowReduceAssumption
    <3> QED BY <3>1
  <2> DEFINE r == S \ {x}
  <2>5. Cardinality(r) = Cardinality(S) - 1 /\ r \in SUBSET DOMAIN row
    BY <1>6, <2>4, FS_RemoveElement
  <2>6. r \notin Bad
    <3>1. Cardinality(S) \in Nat /\ Cardinality(r) \in Nat
      BY <1>6, <2>5
    <3>2. ~(Cardinality(r) \in Sizes)
      <4> HIDE DEF Sizes, r, Bad
      <4> QED BY <2>2, <2>3, <2>5, <3>1
    <3> QED BY <3>2
  <2>7. row[x] <= Scale /\ row[x] \in Int
    BY <2>4, FirstTerms, RowReduceAssumption
  <2> QED BY <1>4, <2>4, <2>5, <2>6, <2>7
<1>8. F[DOMAIN row] <= Scale /\ F[DOMAIN row] \in Int
  BY <1>3, <1>7
<1>9. row[c] <= F[DOMAIN row] /\ row[c] \in Int
  <2>1. DOMAIN row \ {c} \in SUBSET DOMAIN row
    OBVIOUS
  <2>2. F[DOMAIN row \ {c}] \in Int
    BY <1>3, <2>1
  <2>3. row[c] \in Int
    BY FirstTerms
  <2> QED BY <1>4, <2>2, <2>3
<1>10. Reduced(1, DOMAIN row, 0) = F[DOMAIN row]
  BY <1>1
<1> QED BY <1>8, <1>9, <1>10, RowReduceAssumption

LEMMA TermsAreNatural ==
  ASSUME Input, NEW k \in {1, 2}, NEW c \in DOMAIN row
  PROVE  Term(k, c, Given(k)) \in Nat
<1>1. CASE k = 1
  BY <1>1, FirstTerms DEF Given
<1>2. CASE k = 2 /\ kernel = "layernorm"
  <2>1. row[c] \in Nat
    BY FirstTerms
  <2> QED BY <1>2, <2>1 DEF Term
<1>3. CASE k = 2 /\ kernel = "softmax"
  <2> DEFINE d == row[c] - Given(2)
  <2>1. row[c] \in 0..Scale /\ Given(2) \in row[c]..Scale
    BY <1>3, FirstTerms, MaximumBounds DEF Given
  <2>2. Scale + d \in 0..LogWarp + Scale
    BY <2>1, RowReduceAssumption
  <2>3. exp(d) \in Nat
    <3> HIDE DEF d
    <3> QED BY <2>2, Powers DEF exp
  <2> QED BY <1>3, <2>3 DEF Term
<1> QED BY <1>1, <1>2, <1>3 DEF Input

LEMMA PartFunction ==
  ASSUME Input, NEW k \in {1, 2}
  PROVE  /\ IsFiniteSet(DOMAIN row)
         /\ \E F : /\ Combines(F, k, Given(k), DOMAIN row)
                  /\ \A S \in SUBSET DOMAIN row : Part(k, S) = F[S]
<1>1. \A c \in DOMAIN row : Term(k, c, Given(k)) \in Nat
  BY TermsAreNatural
<1> QED BY <1>1, AFunctionCombines DEF Part

LEMMA PartEmpty ==
  ASSUME Input, NEW k \in {1, 2}
  PROVE  Part(k, {}) = Neutral(k)
BY PartFunction DEF Combines

LEMMA PartUnion ==
  ASSUME Input, NEW k \in {1, 2}, NEW A \in SUBSET DOMAIN row,
         NEW B \in SUBSET DOMAIN row, A \cap B = {}
  PROVE  Part(k, A \cup B) = Op(k, Part(k, A), Part(k, B))
<1>1. PICK F : /\ Combines(F, k, Given(k), DOMAIN row)
               /\ \A S \in SUBSET DOMAIN row : Part(k, S) = F[S]
  BY PartFunction
<1>2. IsFiniteSet(DOMAIN row)
  BY PartFunction
<1>3. A \in SUBSET DOMAIN row /\ B \in SUBSET DOMAIN row /\ A \cap B = {}
  OBVIOUS
<1>4. F[A \cup B] = Op(k, F[A], F[B])
  BY ONLY <1>1, <1>2, <1>3, CombinesUnion
<1> QED BY <1>1, <1>4

-----------------------------------------------------------------------------
(* The butterfly.  After the shuffles down to an offset, a lane holds what *)
(* the lanes at a multiple of the offset from it have brought.             *)

OfTwice(m, o) ==
  /\ (m \div o) % 2 \in {0, 1} /\ m % o \in 0..o - 1
  /\ m % (2 * o) = o * ((m \div o) % 2) + (m % o)
  /\ m = ((m \div o) \div 2) * (2 * o) + (m % (2 * o))
  /\ (m \div o) \div 2 \in Nat

LEMMA Twice == ASSUME NEW o \in Nat \ {0}, NEW m \in Nat PROVE OfTwice(m, o)
<1> DEFINE a == m \div o
           r == m % o
           b == a \div 2
           e == a % 2
<1>1. a \in Nat /\ r \in 0..o - 1 /\ m = o * a + r
  BY Quotient
<1> HIDE DEF a, r
<1>2. b \in Nat /\ e \in {0, 1} /\ a = 2 * b + e
  BY <1>1
<1> HIDE DEF b, e
<1>3. o * e \in {0, o}
  BY <1>2
<1>4. o * a = o * (2 * b) + o * e
  BY <1>2
<1>5. o * (2 * b) = b * (2 * o)
  BY <1>2
<1>6. m = b * (2 * o) + (o * e + r)
  <2> DEFINE X == o * a
             Y == o * (2 * b)
             Z == o * e
             V == b * (2 * o)
  <2>1. m = X + r /\ X = Y + Z /\ Y = V /\ V \in Nat /\ Z \in Nat /\ r \in Nat
    BY <1>1, <1>2, <1>3, <1>4, <1>5
  <2> HIDE DEF X, Y, Z, V
  <2>2. m = V + (Z + r)
    BY <2>1
  <2> QED BY <2>2 DEF V, Z
<1>7. o * e + r \in Nat /\ o * e + r < 2 * o /\ 2 * o \in Nat \ {0}
  BY <1>1, <1>3
<1>8. m % (2 * o) = o * e + r
  <2> DEFINE n == 2 * o
             x == o * e + r
  <2>1. m = b * n + x /\ x \in Nat /\ x < n /\ n \in Nat \ {0}
    BY <1>6, <1>7
  <2> HIDE DEF n, x
  <2>2. m % n = x
    BY <1>2, <2>1, Remainder
  <2> QED BY <2>2 DEF n, x
<1>9. m = b * (2 * o) + (m % (2 * o))
  BY <1>6, <1>8
<1> QED BY <1>1, <1>2, <1>8, <1>9, Zenon DEF a, r, b, e, OfTwice

(* A lane and its partner: between them they have met the lanes at every   *)
(* multiple of the offset, and none of them twice.                         *)
Meets(l, p, o, q) ==
  /\ p \in Nat /\ p < q * (2 * o) /\ l % (2 * o) # p % (2 * o)
  /\ \A m \in Nat :
       m % o = l % o <=> m % (2 * o) \in {l % (2 * o), p % (2 * o)}

LEMMA PartnerMeets ==
  ASSUME NEW o \in Nat \ {0}, NEW q \in Nat, NEW l \in Nat, l < q * (2 * o)
  PROVE  Meets(l, Partner(l, o), o, q)
<1> DEFINE a == l \div o
           r == l % o
           b == a \div 2
           p == Partner(l, o)
<1>1. a \in Nat /\ r \in 0..o - 1 /\ l = a * o + r
  BY Quotient
<1>2. /\ a % 2 \in {0, 1} /\ b \in Nat /\ l % (2 * o) = o * (a % 2) + r
      /\ l = b * (2 * o) + (l % (2 * o))
  BY Twice DEF OfTwice
<1> HIDE DEF a, r, b
<1>3. p \in Nat /\ p < q * (2 * o) /\ p % (2 * o) = o * (1 - (a % 2)) + r
  <2>1. CASE a % 2 = 0
    <3>1. p = l + o
      BY <2>1 DEF Partner, a
    <3>2. (a + 1) * o = a * o + o
      BY <1>1
    <3>3. p = (a + 1) * o + r /\ a + 1 \in Nat /\ p \in Nat
      BY <1>1, <3>1, <3>2
    <3>4. p % o = r /\ p \div o = a + 1
      <4> HIDE DEF p
      <4>1. r \in Nat /\ r < o
        BY <1>1
      <4> QED BY <3>3, <4>1, Remainder
    <3>5. (a + 1) % 2 = 1
      BY <1>1, <2>1
    <3>6. p % (2 * o) = o * 1 + r
      <4>1. p % (2 * o) = o * ((p \div o) % 2) + (p % o)
        BY <3>3, Twice DEF OfTwice
      <4> QED BY <3>4, <3>5, <4>1
    <3>7. l = b * (2 * o) + r /\ b * (2 * o) \in Nat
      BY <1>1, <1>2, <2>1
    <3>8. b < q
      <4> SUFFICES ASSUME q <= b PROVE FALSE
        BY <1>2
      <4>1. q * (2 * o) <= b * (2 * o)
        BY <1>2, ProductIsMonotone
      <4>2. q * (2 * o) \in Nat
        OBVIOUS
      <4> QED BY <1>1, <3>7, <4>1, <4>2
    <3>9. b * (2 * o) + 2 * o <= q * (2 * o)
      <4>1. b + 1 <= q
        BY <1>2, <3>8
      <4>2. (b + 1) * (2 * o) <= q * (2 * o)
        BY <1>2, <4>1, ProductIsMonotone
      <4>3. (b + 1) * (2 * o) = b * (2 * o) + 2 * o
        BY <1>2
      <4> QED BY <4>2, <4>3
    <3>10. q * (2 * o) \in Nat
      OBVIOUS
    <3> QED BY <1>1, <2>1, <3>1, <3>3, <3>6, <3>7, <3>9, <3>10
  <2>2. CASE a % 2 = 1
    <3>1. p = l - o
      BY <2>2 DEF Partner, a
    <3>2. a - 1 \in Nat /\ (a - 1) % 2 = 0
      BY <1>1, <2>2
    <3>3. (a - 1) * o = a * o - o
      BY <1>1
    <3>4. (a - 1) * o \in Nat
      BY <3>2
    <3>5. p = (a - 1) * o + r /\ p \in Nat /\ p <= l
      BY <1>1, <3>1, <3>3, <3>4
    <3>6. p % o = r /\ p \div o = a - 1
      <4> DEFINE c == a - 1
      <4>1. r \in Nat /\ r < o /\ c \in Nat /\ p = c * o + r
        BY <1>1, <3>2, <3>5
      <4> HIDE DEF p, c
      <4>2. p % o = r /\ p \div o = c
        BY <3>5, <4>1, Remainder
      <4> QED BY <4>2 DEF c
    <3>7. p % (2 * o) = o * 0 + r
      <4>1. p % (2 * o) = o * ((p \div o) % 2) + (p % o)
        BY <3>5, Twice DEF OfTwice
      <4> QED BY <3>2, <3>6, <4>1
    <3>8. q * (2 * o) \in Nat
      OBVIOUS
    <3> QED BY <2>2, <3>5, <3>7, <3>8
  <2> QED BY <1>2, <2>1, <2>2
<1> HIDE DEF p
<1>4. /\ l % (2 * o) \in {r, o + r} /\ p % (2 * o) \in {r, o + r}
      /\ l % (2 * o) # p % (2 * o)
  BY <1>1, <1>2, <1>3
<1>5. ASSUME NEW m \in Nat
      PROVE  m % o = r <=> m % (2 * o) \in {r, o + r}
  <2>1. /\ (m \div o) % 2 \in {0, 1} /\ m % o \in 0..o - 1
        /\ m % (2 * o) = o * ((m \div o) % 2) + (m % o)
    BY Twice DEF OfTwice
  <2>2. m % (2 * o) \in {m % o, o + (m % o)}
    BY <2>1
  <2>3. (m \div o) % 2 = 0 => m % (2 * o) = m % o
    BY <2>1
  <2> QED BY <1>1, <2>1, <2>2
<1>6. \A m \in Nat : m % o = l % o <=> m % (2 * o) \in {l % (2 * o), p % (2 * o)}
  <2>1. {l % (2 * o), p % (2 * o)} = {r, o + r}
    BY <1>4
  <2> QED BY <1>5, <2>1 DEF r
<1> QED BY <1>3, <1>4, <1>6 DEF p, Meets

LEMMA Divides ==
  ASSUME NEW i \in 0..LogWarp
  PROVE  \E q \in Nat : WarpSize = q * 2 ^ (LogWarp - i)
<1> DEFINE Divided(j) == \E q \in Nat : WarpSize = q * 2 ^ (LogWarp - j)
           Bad == {j \in Nat : j <= LogWarp /\ ~Divided(j)}
<1>1. LogWarp \in Nat
  BY RowReduceAssumption
<1>2. Bad = {}
  <2> SUFFICES ASSUME Bad # {} PROVE FALSE
    OBVIOUS
  <2>1. PICK x \in Bad : \A y \in Bad : x <= y
    BY LeastMember
  <2>2. x \in Nat /\ x <= LogWarp /\ ~Divided(x)
    OBVIOUS
  <2>3. x # 0
    <3>1. WarpSize = 1 * 2 ^ (LogWarp - 0) /\ 1 \in Nat
      BY <1>1, RowReduceAssumption DEF WarpSize
    <3>2. Divided(0)
      BY <3>1
    <3> HIDE DEF Divided
    <3> QED BY <2>2, <3>2
  <2>4. Divided(x - 1)
    <3>1. x - 1 \in Nat /\ x - 1 <= LogWarp /\ ~(x <= x - 1)
      BY <1>1, <2>2, <2>3
    <3> HIDE DEF Divided
    <3>2. x - 1 \notin Bad
      <4> HIDE DEF Bad
      <4> QED BY <2>1, <3>1
    <3> QED BY <3>1, <3>2
  <2>5. PICK q \in Nat : WarpSize = q * 2 ^ (LogWarp - (x - 1))
    BY <2>4
  <2> DEFINE j == LogWarp - x
  <2>6. j \in 0..LogWarp + Scale /\ LogWarp - (x - 1) = j + 1
    BY <1>1, <2>2, <2>3, RowReduceAssumption
  <2>7. 2 ^ (j + 1) = 2 * 2 ^ j /\ 2 ^ j \in Nat
    <3> HIDE DEF j
    <3> QED BY <2>6, Powers, RowReduceAssumption
  <2>8. WarpSize = q * (2 * 2 ^ j)
    <3> HIDE DEF j
    <3> QED BY <2>5, <2>6, <2>7
  <2> DEFINE o == 2 ^ j
  <2>9. WarpSize = (2 * q) * o /\ 2 * q \in Nat
    <3>1. WarpSize = q * (2 * o) /\ o \in Nat
      BY <2>7, <2>8
    <3> HIDE DEF o, j
    <3> QED BY <3>1
  <2>10. Divided(x)
    BY <2>9
  <2> HIDE DEF Divided
  <2> QED BY <2>2, <2>10
<1>3. i \in Nat /\ i <= LogWarp
  BY <1>1
<1> HIDE DEF Divided
<1>4. Divided(i)
  BY <1>2, <1>3
<1> QED BY <1>4 DEF Divided

(* The offset of round i, and the lanes a lane has met after it.           *)
Offset(i) == 2 ^ (LogWarp - i)

Met(i, l) == {m \in Lane : m % Offset(i) = l % Offset(i)}

LEMMA Offsets ==
  ASSUME NEW i \in 0..LogWarp
  PROVE  /\ Offset(i) \in Nat \ {0} /\ (i = 0 => Offset(i) = WarpSize)
         /\ (i = LogWarp => Offset(i) = 1)
         /\ i > 0 => Offset(i - 1) = 2 * Offset(i)
<1>1. LogWarp \in Nat /\ Scale \in Nat /\ 2 ^ 0 = 1
  BY RowReduceAssumption
<1>2. Offset(i) \in Nat \ {0}
  <2>1. LogWarp - i \in 0..LogWarp + Scale
    BY <1>1
  <2> QED BY <2>1, Powers DEF Offset
<1>3. i = 0 => Offset(i) = WarpSize
  BY <1>1 DEF Offset, WarpSize
<1>4. i = LogWarp => Offset(i) = 1
  BY <1>1 DEF Offset
<1>5. i > 0 => Offset(i - 1) = 2 * Offset(i)
  <2> DEFINE j == LogWarp - i
  <2>1. j \in 0..LogWarp + Scale /\ LogWarp - (i - 1) = j + 1
    BY <1>1
  <2>2. 2 ^ (j + 1) = 2 * 2 ^ j
    <3> HIDE DEF j
    <3> QED BY <2>1, RowReduceAssumption
  <2> QED BY <2>1, <2>2 DEF Offset
<1> QED BY <1>2, <1>3, <1>4, <1>5

LEMMA FirstMet == ASSUME NEW l \in Lane PROVE Met(0, l) = {l}
<1>1. WarpSize \in Nat \ {0} /\ 0 \in 0..LogWarp
  BY RowReduceAssumption
<1>2. Offset(0) = WarpSize
  BY <1>1, Offsets
<1>3. \A m \in Lane : m % WarpSize = m
  <2> SUFFICES ASSUME NEW m \in Lane PROVE m % WarpSize = m
    OBVIOUS
  <2>1. m \in Nat /\ m < WarpSize
    BY <1>1 DEF Lane
  <2> DEFINE q == m \div WarpSize
             r == m % WarpSize
  <2>2. q \in Nat /\ r \in Nat /\ m = WarpSize * q + r
    BY <1>1, <2>1, Quotient
  <2> HIDE DEF q, r
  <2>3. ~(1 <= q)
    <3> SUFFICES ASSUME 1 <= q PROVE FALSE
      OBVIOUS
    <3>1. 1 * WarpSize <= q * WarpSize
      BY <1>1, <2>2, ProductIsMonotone
    <3> QED BY <1>1, <2>1, <2>2, <3>1
  <2> QED BY <1>1, <2>2, <2>3 DEF r
<1> QED BY <1>2, <1>3 DEF Met

LEMMA LastMet == ASSUME NEW l \in Lane PROVE Met(LogWarp, l) = Lane
<1>1. LogWarp \in 0..LogWarp
  BY RowReduceAssumption
<1>2. Offset(LogWarp) = 1
  BY <1>1, Offsets
<1>3. \A m \in Lane : m % 1 = 0
  BY RowReduceAssumption DEF Lane
<1> QED BY <1>2, <1>3 DEF Met

LEMMA NextMet ==
  ASSUME NEW i \in 1..LogWarp, NEW l \in Lane
  PROVE  LET p == Partner(l, Offset(i))
         IN  /\ p \in Lane /\ Met(i, l) = Met(i - 1, l) \cup Met(i - 1, p)
             /\ Met(i - 1, l) \cap Met(i - 1, p) = {}
<1> DEFINE o == Offset(i)
           p == Partner(l, o)
<1>1. i \in 0..LogWarp /\ i > 0 /\ WarpSize \in Nat
  BY RowReduceAssumption
<1>2. o \in Nat \ {0} /\ Offset(i - 1) = 2 * o
  BY <1>1, Offsets
<1>3. PICK q \in Nat : WarpSize = q * (2 * o)
  <2>1. i - 1 \in 0..LogWarp
    BY <1>1, RowReduceAssumption
  <2>2. PICK q \in Nat : WarpSize = q * Offset(i - 1)
    BY <2>1, Divides DEF Offset
  <2> QED BY <1>2, <2>2
<1>4. l \in Nat /\ l < q * (2 * o) /\ \A m \in Lane : m \in Nat
  BY <1>1, <1>3 DEF Lane
<1> HIDE DEF o
<1>5. /\ p \in Nat /\ p < q * (2 * o) /\ l % (2 * o) # p % (2 * o)
      /\ \A m \in Nat : m % o = l % o <=> m % (2 * o) \in {l % (2 * o), p % (2 * o)}
  <2>1. Meets(l, p, o, q)
    BY <1>2, <1>4, PartnerMeets
  <2> HIDE DEF p
  <2> QED BY <2>1 DEF Meets
<1>6. p \in Lane
  BY <1>1, <1>3, <1>5 DEF Lane
<1> HIDE DEF p
<1>7. /\ Met(i - 1, l) = {m \in Lane : m % (2 * o) = l % (2 * o)}
      /\ Met(i - 1, p) = {m \in Lane : m % (2 * o) = p % (2 * o)}
      /\ Met(i, l) = {m \in Lane : m % o = l % o}
  BY <1>2 DEF Met, o
<1>8. Met(i, l) = Met(i - 1, l) \cup Met(i - 1, p) /\ Met(i - 1, l) \cap Met(i - 1, p) = {}
  BY <1>4, <1>5, <1>7
<1> QED BY <1>6, <1>8 DEF o, p

(* What the lanes of a warp have brought, each its own columns.            *)
Brought(w, k, S) ==
  /\ S \in [Lane -> SUBSET DOMAIN row]
  /\ \A l, m \in Lane : l # m => S[l] \cap S[m] = {}
  /\ pass[<<w, 0>>] = k /\ \A l \in Lane : val[<<w, l>>] = Part(k, S[l])

LEMMA ButterflyReduces ==
  ASSUME Input, NEW k \in {1, 2}, NEW w, NEW S, Brought(w, k, S), NEW l \in Lane
  PROVE  Butterfly(w)[l] = Part(k, UNION {S[m] : m \in Lane})
<1> DEFINE Columns(M) == UNION {S[m] : m \in M}
           Body(g) == [i \in 0..LogWarp |->
             IF i = 0 THEN [x \in Lane |-> val[<<w, x>>]]
             ELSE [x \in Lane |-> Op(k, g[i - 1][x], g[i - 1][Partner(x, 2 ^ (LogWarp - i))])]]
           after == CHOOSE g : g = Body(g)
           G == [i \in 0..LogWarp |-> [x \in Lane |-> Part(k, Columns(Met(i, x)))]]
           Differ == {i \in Nat : i <= LogWarp /\ after[i] # G[i]}
<1>1. Butterfly(w) = after[LogWarp]
  BY DEF Butterfly, Shuffles, Brought
<1>2. LogWarp \in Nat
  BY RowReduceAssumption
<1>3. ASSUME NEW x \in Lane PROVE G[0][x] = val[<<w, x>>]
  <2>1. Columns({x}) = S[x]
    OBVIOUS
  <2>2. G[0][x] = Part(k, Columns({x}))
    <3> HIDE DEF Columns
    <3> QED BY <1>2, FirstMet
  <2> QED BY <2>1, <2>2 DEF Brought
<1>4. ASSUME NEW i \in 1..LogWarp, NEW x \in Lane
      PROVE  G[i][x] = Op(k, G[i - 1][x], G[i - 1][Partner(x, 2 ^ (LogWarp - i))])
  <2> DEFINE p == Partner(x, Offset(i))
             A == Met(i - 1, x)
             B == Met(i - 1, p)
  <2>1. p \in Lane /\ Met(i, x) = A \cup B /\ A \cap B = {}
    BY NextMet
  <2>2. A \subseteq Lane /\ B \subseteq Lane
    BY DEF Met
  <2>3. i \in 0..LogWarp /\ i - 1 \in 0..LogWarp
    BY <1>2
  <2>4. G[i][x] = Part(k, Columns(A \cup B))
    <3> HIDE DEF Columns, p, A, B
    <3> QED BY <2>1, <2>3
  <2>5. G[i - 1][x] = Part(k, Columns(A)) /\ G[i - 1][p] = Part(k, Columns(B))
    <3> HIDE DEF Columns, p
    <3> QED BY <2>1, <2>3
  <2> HIDE DEF A, B, p
  <2>6. Columns(A \cup B) = Columns(A) \cup Columns(B)
    OBVIOUS
  <2>7. Columns(A) \in SUBSET DOMAIN row /\ Columns(B) \in SUBSET DOMAIN row
    BY <2>2 DEF Brought
  <2>8. Columns(A) \cap Columns(B) = {}
    BY <2>1, <2>2 DEF Brought
  <2> HIDE DEF Columns, G
  <2>9. Part(k, Columns(A) \cup Columns(B)) = Op(k, Part(k, Columns(A)), Part(k, Columns(B)))
    BY <2>7, <2>8, PartUnion
  <2>10. p = Partner(x, 2 ^ (LogWarp - i))
    BY DEF p, Offset
  <2> QED BY <2>4, <2>5, <2>6, <2>9, <2>10
<1> HIDE DEF Columns
<1>5. \A i \in 0..LogWarp : G[i] = Body(G)[i]
  <2> SUFFICES ASSUME NEW i \in 0..LogWarp PROVE G[i] = Body(G)[i]
    OBVIOUS
  <2>1. CASE i = 0
    <3>1. \A x \in Lane : G[i][x] = val[<<w, x>>]
      BY <1>3, <2>1
    <3>2. G[i] = [x \in Lane |-> G[i][x]]
      OBVIOUS
    <3> HIDE DEF G
    <3> QED BY <2>1, <3>1, <3>2
  <2>2. CASE i # 0
    <3>1. i \in 1..LogWarp
      BY <1>2, <2>2
    <3>2. G[i] = [x \in Lane |-> G[i][x]]
      OBVIOUS
    <3> HIDE DEF G
    <3>3. G[i] = [x \in Lane |->
                    Op(k, G[i - 1][x], G[i - 1][Partner(x, 2 ^ (LogWarp - i))])]
      BY <1>4, <3>1, <3>2
    <3> QED BY <2>2, <3>3
  <2> QED BY <2>1, <2>2
<1>6. G = Body(G)
  BY <1>5
<1>7. after = Body(after)
  <2> HIDE DEF G
  <2> QED BY <1>6
<1> HIDE DEF after, G
<1>8. Differ = {}
  <2> SUFFICES ASSUME Differ # {} PROVE FALSE
    OBVIOUS
  <2>1. PICK i \in Differ : \A j \in Differ : i <= j
    BY LeastMember
  <2>2. i \in 0..LogWarp /\ after[i] # G[i]
    BY <1>2
  <2>3. after[i] = Body(after)[i] /\ G[i] = Body(G)[i]
    BY <1>6, <1>7
  <2>4. i # 0
    BY <2>2, <2>3
  <2>5. after[i - 1] = G[i - 1]
    <3>1. i - 1 \in Nat /\ i - 1 <= LogWarp /\ ~(i <= i - 1)
      BY <1>2, <2>2, <2>4
    <3>2. i - 1 \notin Differ
      <4> HIDE DEF Differ
      <4> QED BY <2>1, <3>1
    <3> QED BY <3>1, <3>2
  <2> QED BY <2>2, <2>3, <2>4, <2>5
<1>9. after[LogWarp] = G[LogWarp]
  BY <1>2, <1>8
<1>10. G[LogWarp][l] = Part(k, Columns(Lane))
  BY <1>2, LastMet DEF G
<1> QED BY <1>1, <1>9, <1>10 DEF Columns

-----------------------------------------------------------------------------
(* The columns that the threads visit: each by one thread of one warp.     *)

WarpColumns(w) == UNION {Visits(<<w, l>>) : l \in Lane}

(* What warp 0 takes over with lane l, when it reduces the warps' results. *)
Handed(l) == IF l < NumWarps THEN WarpColumns(l) ELSE {}

LEMMA Threads ==
  /\ WarpSize \in Nat \ {0} /\ NumWarps \in Nat \ {0} /\ Warp \subseteq Lane
  /\ \A t \in Thread : /\ t = <<t[1], t[2]>> /\ t[1] \in Warp /\ t[2] \in Lane
                       /\ t[1] \in Nat /\ t[2] \in Nat /\ t[2] < WarpSize
                       /\ threadIdx(t) = t[1] * WarpSize + t[2] /\ threadIdx(t) \in Nat
  /\ <<0, 0>> \in Thread /\ threadIdx(<<0, 0>>) = 0
<1>1. WarpSize \in Nat \ {0} /\ NumWarps \in Nat \ {0} /\ NumWarps <= WarpSize
  BY RowReduceAssumption
<1>2. Warp \subseteq Lane /\ <<0, 0>> \in Thread
  BY <1>1 DEF Warp, Lane, Thread
<1>3. threadIdx(<<0, 0>>) = 0
  BY <1>1 DEF threadIdx
<1>4. ASSUME NEW t \in Thread
      PROVE  /\ t = <<t[1], t[2]>> /\ t[1] \in Warp /\ t[2] \in Lane
             /\ t[1] \in Nat /\ t[2] \in Nat /\ t[2] < WarpSize
  BY <1>1 DEF Thread, Warp, Lane
<1>5. ASSUME NEW t \in Thread
      PROVE  threadIdx(t) = t[1] * WarpSize + t[2] /\ threadIdx(t) \in Nat
  BY <1>1, <1>4 DEF threadIdx
<1> QED BY <1>1, <1>2, <1>3, <1>4, <1>5

LEMMA ThreadIdxIsInjective ==
  ASSUME NEW t \in Thread, NEW u \in Thread, threadIdx(t) = threadIdx(u)
  PROVE  t = u
<1> DEFINE x == threadIdx(t)
<1>1. x = t[1] * WarpSize + t[2] /\ x = u[1] * WarpSize + u[2]
  BY Threads
<1> HIDE DEF x
<1>2. x % WarpSize = t[2] /\ x \div WarpSize = t[1]
  BY <1>1, Threads, Remainder
<1>3. x % WarpSize = u[2] /\ x \div WarpSize = u[1]
  BY <1>1, Threads, Remainder
<1> QED BY <1>2, <1>3, Threads

LEMMA VisitsDisjoint ==
  ASSUME NEW t \in Thread, NEW u \in Thread, t # u
  PROVE  Visits(t) \cap Visits(u) = {} /\ Visits(t) \subseteq DOMAIN row
BY ThreadIdxIsInjective DEF Visits

LEMMA EveryColumnVisited ==
  ASSUME Input, NEW c \in DOMAIN row
  PROVE  \E t \in Thread : c \in Visits(t)
<1> DEFINE b == NumWarps * WarpSize
           x == c % b
           w == x \div WarpSize
           l == x % WarpSize
<1>1. WarpSize \in Nat \ {0} /\ NumWarps \in Nat \ {0}
  BY Threads
<1>2. b \in Nat \ {0}
  BY <1>1
<1>3. c \in Nat
  BY DEF Input
<1>4. x \in Nat /\ x < b
  <2> HIDE DEF b
  <2> QED BY <1>2, <1>3, Quotient
<1> HIDE DEF x
<1>5. w \in Nat /\ l \in Nat /\ x = WarpSize * w + l /\ l < WarpSize
  BY <1>1, <1>4, Quotient
<1> HIDE DEF w, l
<1>6. w < NumWarps
  <2> SUFFICES ASSUME NumWarps <= w PROVE FALSE
    BY <1>1, <1>5
  <2>1. NumWarps * WarpSize <= w * WarpSize
    BY <1>1, <1>5, ProductIsMonotone
  <2>2. w * WarpSize = WarpSize * w /\ w * WarpSize \in Nat
    BY <1>1, <1>5
  <2> QED BY <1>1, <1>4, <1>5, <2>1, <2>2
<1>7. <<w, l>> \in Thread
  BY <1>1, <1>5, <1>6 DEF Thread, Warp, Lane
<1>8. threadIdx(<<w, l>>) = x
  BY <1>1, <1>5 DEF threadIdx
<1> QED BY <1>7, <1>8 DEF Visits, x

LEMMA HandedFacts ==
  ASSUME Input
  PROVE  /\ \A l \in Lane : Handed(l) \subseteq DOMAIN row
         /\ \A l, m \in Lane : l # m => Handed(l) \cap Handed(m) = {}
         /\ UNION {Handed(l) : l \in Lane} = DOMAIN row
<1>1. \A w \in Warp, l \in Lane : <<w, l>> \in Thread
  BY DEF Thread
<1>2. \A l \in Lane : l < NumWarps => l \in Warp
  BY Threads DEF Warp, Lane
<1>3. \A l \in Lane : Handed(l) \subseteq DOMAIN row
  BY DEF Handed, WarpColumns, Visits
<1>4. ASSUME NEW l \in Lane, NEW m \in Lane, l # m, NEW c \in Handed(l), c \in Handed(m)
      PROVE  FALSE
  <2>1. l \in Warp /\ m \in Warp /\ c \in WarpColumns(l) /\ c \in WarpColumns(m)
    BY <1>2, <1>4 DEF Handed
  <2>2. PICK i \in Lane, j \in Lane : c \in Visits(<<l, i>>) /\ c \in Visits(<<m, j>>)
    BY <2>1 DEF WarpColumns
  <2> QED BY <1>1, <1>4, <2>1, <2>2, VisitsDisjoint
<1>5. ASSUME NEW c \in DOMAIN row PROVE \E l \in Lane : c \in Handed(l)
  <2>1. PICK t \in Thread : c \in Visits(t)
    BY EveryColumnVisited
  <2>2. t = <<t[1], t[2]>> /\ t[1] \in Warp /\ t[2] \in Lane /\ t[1] \in Lane
    BY Threads
  <2>3. c \in WarpColumns(t[1])
    BY <2>1, <2>2 DEF WarpColumns
  <2>4. t[1] < NumWarps
    BY <2>2, Threads DEF Warp
  <2> QED BY <2>2, <2>3, <2>4 DEF Handed
<1> QED BY <1>3, <1>4, <1>5

-----------------------------------------------------------------------------
(* What the threads, the shared cells and the output hold on the way.      *)

ShapeInv ==
  /\ DOMAIN val = Thread /\ DOMAIN totals = Thread /\ DOMAIN s = {1, 2}
  /\ DOMAIN warp_results = {1, 2} \X Warp
  /\ \A t \in Thread : DOMAIN totals[t] = {1, 2}

(* A thread's partial result is that of its columns, of its warp's, of     *)
(* the warp that it stands for in warp 0, and at last of the whole row.    *)
ResultInv(t) ==
  /\ pc[t] = "shuffle" => val[t] = Part(pass[t], Visits(t))
  /\ pc[t] = "put" => val[t] = Part(pass[t], WarpColumns(t[1]))
  /\ pc[t] \in {"get", "shuffle0"} => t[1] = 0
  /\ pc[t] = "shuffle0" => val[t] = Part(pass[t], Handed(t[2]))
  /\ pc[t] = "broadcast" /\ t[1] = 0 => val[t] = Whole(pass[t])

(* From the hand-in until the next reduction a shared cell keeps what the  *)
(* one thread that writes it has put there.                                *)
SharedInv(t) ==
  /\ t[2] = 0 /\ pc[t] \in {"sync", "get", "shuffle0", "broadcast", "syncTotal"} =>
       warp_results[<<Array(pass[t]), t[1]>>] = Part(pass[t], WarpColumns(t[1]))
  /\ threadIdx(t) = 0 /\ (pass[t] = 2 \/ pc[t] \in {"syncTotal", "read"}) =>
       s[1] = Whole(1)
  /\ threadIdx(t) = 0 /\ pass[t] = 2 /\ pc[t] \in {"syncTotal", "read", "store", "done"} =>
       s[2] = Whole(2)

TotalsInv(t) ==
  /\ totals[t][1] = Given(pass[t])
  /\ pc[t] \in {"store", "done"} => totals[t][2] = Whole(2)

Answer(c) == IF kernel = "softmax" THEN <<exp(row[c] - Whole(1)), Whole(2)>>
             ELSE <<row[c], Whole(1), Whole(2)>>

OutInv(t) ==
  \A c \in Visits(t) :
    /\ pc[t] = "done" => out[c] = Answer(c)
    /\ kernel = "softmax" /\ pass[t] = 2 /\ pc[t] \notin {"gather", "done"} =>
         out[c] = <<exp(row[c] - Whole(1))>>

ThreadInv(t) == ResultInv(t) /\ SharedInv(t) /\ TotalsInv(t) /\ OutInv(t)

VInv == IInv /\ Input /\ ShapeInv /\ \A t \in Thread : ThreadInv(t)

LEMMA GivenIsWhole == Given(1) = 0 /\ Given(2) = Whole(1)
BY DEF Given, Whole, Part

LEMMA FixedInput ==
  ASSUME kernel' = kernel, row' = row
  PROVE  /\ \A k, S : Part(k, S)' = Part(k, S)
         /\ \A k : Whole(k)' = Whole(k) /\ Given(k)' = Given(k) /\ Array(k)' = Array(k)
         /\ \A t : Visits(t)' = Visits(t)
         /\ \A w : WarpColumns(w)' = WarpColumns(w) /\ Handed(w)' = Handed(w)
         /\ \A c : Answer(c)' = Answer(c)
         /\ Input' = Input
<1>1. \A k, S, first : Reduced(k, S, first)' = Reduced(k, S, first)
  BY DEF Reduced, FoldSet, MapThenFoldSet, Op, Term, Neutral, IsMax, exp, NegInfinity
<1>2. \A k, S : Part(k, S)' = Part(k, S)
  BY <1>1 DEF Part, Given
<1>3. \A k : Whole(k)' = Whole(k) /\ Given(k)' = Given(k) /\ Array(k)' = Array(k)
  BY <1>1, <1>2 DEF Whole, Given, Array
<1>4. \A t : Visits(t)' = Visits(t)
  BY DEF Visits, threadIdx
<1>5. \A w : WarpColumns(w)' = WarpColumns(w) /\ Handed(w)' = Handed(w)
  BY <1>4 DEF WarpColumns, Handed
<1>6. \A c : Answer(c)' = Answer(c)
  BY <1>3 DEF Answer, exp
<1>7. Input' = Input
  BY DEF Input
<1> QED BY <1>2, <1>3, <1>4, <1>5, <1>6, <1>7

LEMMA InitVInv == Init => VInv
<1> SUFFICES ASSUME Init PROVE VInv
  OBVIOUS
<1>1. Input
  <2>1. row \in Rows /\ kernel \in {"softmax", "layernorm"}
    BY RowReduceAssumption DEF Init
  <2> DEFINE n == Cardinality(DOMAIN row)
  <2>2. n \in Nat /\ row \in [0..n - 1 -> 0..Scale]
    BY <2>1, FS_CardinalityType, RowReduceAssumption
  <2> QED BY <2>1, <2>2 DEF Input
<1>2. ShapeInv
  BY DEF Init, ShapeInv
<1>3. ASSUME NEW t \in Thread PROVE ThreadInv(t)
  <2>1. pc[t] = "gather" /\ pass[t] = 1 /\ totals[t][1] = 0
    BY DEF Init, Entry
  <2> QED BY <2>1, GivenIsWhole
          DEF ThreadInv, ResultInv, SharedInv, TotalsInv, OutInv
<1> QED BY <1>1, <1>2, <1>3, InitIInv DEF VInv

(* The threads that a step does not move keep what they have, when the     *)
(* cells they look at stay.                                                *)
LEMMA OthersKeep ==
  ASSUME IInv, NEW u \in Thread, ThreadInv(u), kernel' = kernel, row' = row,
         pc'[u] = pc[u], pass'[u] = pass[u], val'[u] = val[u], totals'[u] = totals[u],
         u[2] = 0 => \A a \in {1, 2} : warp_results'[<<a, u[1]>>] = warp_results[<<a, u[1]>>],
         threadIdx(u) = 0 => s' = s,
         \A c \in Visits(u) : out'[c] = out[c]
  PROVE  ThreadInv(u)'
<1>1. ResultInv(u)'
  BY FixedInput DEF ThreadInv, ResultInv
<1>2. SharedInv(u)'
  <2>1. pass[u] \in {1, 2} /\ Array(pass[u]) \in {1, 2}
    BY DEF Array, IInv, TypeInv
  <2> QED BY <2>1, FixedInput DEF ThreadInv, SharedInv, threadIdx
<1>3. TotalsInv(u)'
  BY FixedInput DEF ThreadInv, TotalsInv
<1>4. OutInv(u)'
  BY FixedInput DEF ThreadInv, OutInv, exp
<1> QED BY <1>1, <1>2, <1>3, <1>4 DEF ThreadInv

LEMMA GatherVInv ==
  ASSUME VInv, NEW t \in Thread, Gather(t)
  PROVE  ShapeInv' /\ \A u \in Thread : ThreadInv(u)'
<1> USE DEF VInv
<1>1. /\ kernel' = kernel /\ row' = row /\ pass' = pass /\ totals' = totals
      /\ warp_results' = warp_results /\ s' = s
      /\ pc[t] = "gather" /\ pc' = [pc EXCEPT ![t] = "shuffle"]
      /\ val' = [val EXCEPT ![t] = Reduced(pass[t], Visits(t), totals[t][1])]
  BY DEF Gather, shared
<1>2. pass[t] \in {1, 2} /\ pc'[t] = "shuffle" /\ pass'[t] = pass[t]
      /\ val'[t] = Reduced(pass[t], Visits(t), totals[t][1])
  BY <1>1 DEF IInv, TypeInv, ShapeInv
<1>3. ShapeInv'
  BY <1>1 DEF ShapeInv
<1>4. \A c \in DOMAIN row : out'[c] =
        IF kernel = "softmax" /\ pass[t] = 2 /\ c \in Visits(t)
        THEN <<Term(pass[t], c, totals[t][1])>> ELSE out[c]
  BY DEF Gather
<1>5. ThreadInv(t)'
  <2>1. totals[t][1] = Given(pass[t])
    BY DEF ThreadInv, TotalsInv
  <2>2. ResultInv(t)'
    BY <1>2, <2>1, FixedInput, <1>1 DEF ResultInv, Part
  <2>3. SharedInv(t)'
    BY <1>1, <1>2, FixedInput DEF ThreadInv, SharedInv, threadIdx
  <2>4. TotalsInv(t)'
    BY <1>1, <1>2, <2>1, FixedInput DEF TotalsInv
  <2>5. OutInv(t)'
    <3> SUFFICES ASSUME NEW c \in Visits(t), kernel = "softmax", pass[t] = 2
                 PROVE  out'[c] = <<exp(row[c] - Whole(1))>>
      BY <1>1, <1>2, FixedInput DEF OutInv, exp
    <3>1. out'[c] = <<Term(2, c, totals[t][1])>>
      BY <1>4 DEF Visits
    <3>2. totals[t][1] = Whole(1)
      BY <2>1, GivenIsWhole
    <3>3. Term(2, c, Whole(1)) = exp(row[c] - Whole(1))
      BY DEF Term
    <3> QED BY <3>1, <3>2, <3>3
  <2> QED BY <2>2, <2>3, <2>4, <2>5 DEF ThreadInv
<1>6. ASSUME NEW u \in Thread, u # t PROVE ThreadInv(u)'
  <2>1. pc'[u] = pc[u] /\ val'[u] = val[u]
    BY <1>1, <1>6 DEF IInv, TypeInv, ShapeInv
  <2>2. \A c \in Visits(u) : out'[c] = out[c]
    BY <1>4, <1>6, VisitsDisjoint
  <2> QED BY <1>1, <2>1, <2>2, OthersKeep
<1> QED BY <1>3, <1>5, <1>6

LEMMA PutVInv ==
  ASSUME VInv, NEW t \in Thread, Put(t)
  PROVE  ShapeInv' /\ \A u \in Thread : ThreadInv(u)'
<1> USE DEF VInv
<1>1. /\ kernel' = kernel /\ row' = row /\ pass' = pass /\ totals' = totals
      /\ val' = val /\ s' = s /\ out' = out
      /\ pc[t] = "put" /\ pc' = [pc EXCEPT ![t] = "sync"]
      /\ warp_results' = IF t[2] = 0
                         THEN [warp_results EXCEPT ![<<Array(pass[t]), t[1]>>] = val[t]]
                         ELSE warp_results
  BY DEF Put, AfterPut
<1>2. pass[t] \in {1, 2} /\ pc'[t] = "sync" /\ Array(pass[t]) \in {1, 2} /\ t[1] \in Warp
  BY <1>1, Threads DEF IInv, TypeInv, Array
<1>3. ShapeInv'
  BY <1>1 DEF ShapeInv
<1>4. <<Array(pass[t]), t[1]>> \in DOMAIN warp_results
  BY <1>2 DEF ShapeInv
<1>5. ThreadInv(t)'
  <2>1. val[t] = Part(pass[t], WarpColumns(t[1]))
    BY <1>1 DEF ThreadInv, ResultInv
  <2>2. ResultInv(t)'
    BY <1>1, <1>2 DEF ResultInv
  <2>3. t[2] = 0 => warp_results'[<<Array(pass[t]), t[1]>>] = val[t]
    BY <1>1, <1>4
  <2>4. SharedInv(t)'
    BY <1>1, <1>2, <2>1, <2>3, FixedInput DEF ThreadInv, SharedInv, threadIdx
  <2>5. TotalsInv(t)'
    BY <1>1, <1>2, FixedInput DEF ThreadInv, TotalsInv
  <2>6. OutInv(t)'
    BY <1>1, <1>2, FixedInput DEF ThreadInv, OutInv, exp
  <2> QED BY <2>2, <2>4, <2>5, <2>6 DEF ThreadInv
<1>6. ASSUME NEW u \in Thread, u # t PROVE ThreadInv(u)'
  <2>1. pc'[u] = pc[u]
    BY <1>1, <1>6 DEF IInv, TypeInv
  <2>2. ASSUME u[2] = 0, NEW a \in {1, 2}
        PROVE  warp_results'[<<a, u[1]>>] = warp_results[<<a, u[1]>>]
    <3>1. <<a, u[1]>> \in DOMAIN warp_results
      BY Threads DEF ShapeInv
    <3>2. t[2] = 0 => t[1] # u[1]
      BY <1>6, <2>2, Threads
    <3> QED BY <1>1, <3>1, <3>2
  <2> QED BY <1>1, <2>1, <2>2, OthersKeep
<1> QED BY <1>3, <1>5, <1>6

LEMMA GetVInv ==
  ASSUME VInv, NEW t \in Thread, Get(t)
  PROVE  ShapeInv' /\ \A u \in Thread : ThreadInv(u)'
<1> USE DEF VInv
<1>1. /\ kernel' = kernel /\ row' = row /\ pass' = pass /\ totals' = totals
      /\ warp_results' = warp_results /\ s' = s /\ out' = out
      /\ pc[t] = "get" /\ pc' = [pc EXCEPT ![t] = "shuffle0"]
      /\ val' = [val EXCEPT ![t] =
                   IF threadIdx(t) < NumWarps
                   THEN warp_results[<<Array(pass[t]), t[2]>>] ELSE Neutral(pass[t])]
  BY DEF Get, shared
<1>2. pass[t] \in {1, 2} /\ pc'[t] = "shuffle0" /\ t[1] = 0
  BY <1>1 DEF IInv, TypeInv, ThreadInv, ResultInv
<1>3. ShapeInv'
  BY <1>1 DEF ShapeInv
<1>4. threadIdx(t) = t[2] /\ t[2] \in Nat /\ NumWarps \in Nat
  BY <1>2, Threads
<1>5. val'[t] = Part(pass[t], Handed(t[2]))
  <2>1. CASE t[2] < NumWarps
    <3> DEFINE u == <<t[2], 0>>
    <3>1. t[2] \in Warp /\ 0 \in Lane
      BY <1>4, <2>1, Threads DEF Warp, Lane
    <3>2. u \in Thread /\ u[1] = t[2] /\ u[2] = 0
      BY <3>1 DEF Thread
    <3>3. PICK i \in 1..5 : Phase(i, t) /\ Phase(i, u)
      BY <3>2 DEF IInv, PhaseInv
    <3> HIDE DEF u
    <3>4. /\ pass[u] = pass[t]
          /\ pc[u] \in {"get", "shuffle0", "broadcast", "syncTotal"}
      BY <1>1, <3>3 DEF Phase
    <3>5. warp_results[<<Array(pass[t]), t[2]>>] = Part(pass[t], WarpColumns(t[2]))
      BY <3>2, <3>4 DEF ThreadInv, SharedInv
    <3>6. val'[t] = warp_results[<<Array(pass[t]), t[2]>>]
      BY <1>1, <1>4, <2>1 DEF ShapeInv
    <3> QED BY <2>1, <3>5, <3>6 DEF Handed
  <2>2. CASE ~(t[2] < NumWarps)
    <3>1. val'[t] = Neutral(pass[t])
      BY <1>1, <1>4, <2>2 DEF ShapeInv
    <3> QED BY <1>2, <2>2, <3>1, PartEmpty DEF Handed
  <2> QED BY <2>1, <2>2
<1>6. ThreadInv(t)'
  <2>1. ResultInv(t)'
    BY <1>1, <1>2, <1>5, FixedInput DEF ResultInv
  <2>2. SharedInv(t)'
    BY <1>1, <1>2, FixedInput DEF ThreadInv, SharedInv, threadIdx
  <2>3. TotalsInv(t)'
    BY <1>1, <1>2, FixedInput DEF ThreadInv, TotalsInv
  <2>4. OutInv(t)'
    BY <1>1, <1>2, FixedInput DEF ThreadInv, OutInv, exp
  <2> QED BY <2>1, <2>2, <2>3, <2>4 DEF ThreadInv
<1>7. ASSUME NEW u \in Thread, u # t PROVE ThreadInv(u)'
  <2>1. pc'[u] = pc[u] /\ val'[u] = val[u]
    BY <1>1, <1>7 DEF IInv, TypeInv, ShapeInv
  <2> QED BY <1>1, <2>1, OthersKeep
<1> QED BY <1>3, <1>6, <1>7

LEMMA BroadcastVInv ==
  ASSUME VInv, NEW t \in Thread, Broadcast(t)
  PROVE  ShapeInv' /\ \A u \in Thread : ThreadInv(u)'
<1> USE DEF VInv
<1>1. /\ kernel' = kernel /\ row' = row /\ pass' = pass /\ totals' = totals
      /\ val' = val /\ warp_results' = warp_results /\ out' = out
      /\ pc[t] = "broadcast" /\ pc' = [pc EXCEPT ![t] = "syncTotal"]
      /\ s' = IF threadIdx(t) = 0 THEN [s EXCEPT ![pass[t]] = val[t]] ELSE s
  BY DEF Broadcast, AfterBroadcast
<1>2. pass[t] \in {1, 2} /\ pc'[t] = "syncTotal"
  BY <1>1 DEF IInv, TypeInv
<1>3. ShapeInv'
  BY <1>1 DEF ShapeInv
<1>4. ThreadInv(t)'
  <2>1. ResultInv(t)'
    BY <1>1, <1>2 DEF ResultInv
  <2>2. SharedInv(t)'
    <3>1. CASE threadIdx(t) # 0
      BY <1>1, <1>2, <3>1, FixedInput DEF ThreadInv, SharedInv, threadIdx
    <3>2. CASE threadIdx(t) = 0
      <4>1. t = <<0, 0>>
        BY <3>2, Threads, ThreadIdxIsInjective
      <4>2. val[t] = Whole(pass[t])
        BY <1>1, <4>1 DEF ThreadInv, ResultInv
      <4>3. s'[pass[t]] = Whole(pass[t]) /\ (pass[t] = 2 => s'[1] = s[1])
        BY <1>1, <1>2, <3>2, <4>2 DEF ShapeInv
      <4>4. pass[t] = 2 => s[1] = Whole(1)
        BY <3>2 DEF ThreadInv, SharedInv
      <4>5. t[2] = 0 => warp_results[<<Array(pass[t]), t[1]>>] = Part(pass[t], WarpColumns(t[1]))
        BY <1>1 DEF ThreadInv, SharedInv
      <4> QED BY <1>1, <1>2, <4>3, <4>4, <4>5, FixedInput DEF SharedInv
    <3> QED BY <3>1, <3>2
  <2>3. TotalsInv(t)'
    BY <1>1, <1>2, FixedInput DEF ThreadInv, TotalsInv
  <2>4. OutInv(t)'
    BY <1>1, <1>2, FixedInput DEF ThreadInv, OutInv, exp
  <2> QED BY <2>1, <2>2, <2>3, <2>4 DEF ThreadInv
<1>5. ASSUME NEW u \in Thread, u # t PROVE ThreadInv(u)'
  <2>1. pc'[u] = pc[u]
    BY <1>1, <1>5 DEF IInv, TypeInv
  <2>2. threadIdx(u) = 0 => s' = s
    BY <1>1, <1>5, ThreadIdxIsInjective
  <2> QED BY <1>1, <2>1, <2>2, OthersKeep
<1> QED BY <1>3, <1>4, <1>5

LEMMA ReadVInv ==
  ASSUME VInv, NEW t \in Thread, Read(t)
  PROVE  ShapeInv' /\ \A u \in Thread : ThreadInv(u)'
<1> USE DEF VInv
<1>1. /\ kernel' = kernel /\ row' = row /\ val' = val
      /\ warp_results' = warp_results /\ s' = s /\ out' = out
      /\ pc[t] = "read" /\ pass' = [pass EXCEPT ![t] = 2]
      /\ pc' = [pc EXCEPT ![t] = IF pass[t] = 1 THEN "gather" ELSE "store"]
      /\ totals' = [totals EXCEPT ![t][pass[t]] = s[pass[t]]]
  BY DEF Read, shared
<1>2. /\ pass[t] \in {1, 2} /\ pass'[t] = 2
      /\ pc'[t] = IF pass[t] = 1 THEN "gather" ELSE "store"
  BY <1>1 DEF IInv, TypeInv
<1>3. ShapeInv'
  BY <1>1 DEF ShapeInv
<1>4. s[pass[t]] = Whole(pass[t])
  <2> DEFINE z == <<0, 0>>
  <2>1. z \in Thread /\ threadIdx(z) = 0
    BY Threads
  <2> HIDE DEF z
  <2>2. PICK i \in 1..5 : Phase(i, t) /\ Phase(i, z)
    BY <2>1 DEF IInv, PhaseInv
  <2>3. SharedInv(z)
    BY <2>1 DEF ThreadInv
  <2>4. CASE pass[t] = 1
    BY <1>1, <2>1, <2>2, <2>3, <2>4 DEF Phase, SharedInv
  <2>5. CASE pass[t] = 2
    BY <1>1, <2>1, <2>2, <2>3, <2>5 DEF Phase, SharedInv
  <2> QED BY <1>2, <2>4, <2>5
<1>5. ThreadInv(t)'
  <2>1. ResultInv(t)'
    BY <1>1, <1>2 DEF ResultInv
  <2>2. SharedInv(t)'
    <3>1. threadIdx(t) = 0 => s[1] = Whole(1) /\ (pass[t] = 2 => s[2] = Whole(2))
      BY <1>1, <1>2 DEF ThreadInv, SharedInv
    <3>2. pass[t] = 1 => pc'[t] = "gather"
      BY <1>2
    <3>3. pc'[t] \in {"gather", "store"}
      BY <1>2
    <3>4. threadIdx(t)' = threadIdx(t)
      BY DEF threadIdx
    <3> QED BY <1>1, <1>2, <3>1, <3>2, <3>3, <3>4, FixedInput DEF SharedInv
  <2>3. TotalsInv(t)'
    <3>1. totals'[t] = [totals[t] EXCEPT ![pass[t]] = Whole(pass[t])]
      BY <1>1, <1>4 DEF ShapeInv
    <3>2. DOMAIN totals[t] = {1, 2} /\ totals[t][1] = Given(pass[t])
      BY DEF ShapeInv, ThreadInv, TotalsInv
    <3>3. totals'[t][1] = Whole(1)
      BY <1>2, <3>1, <3>2, GivenIsWhole
    <3>4. pass[t] = 2 => totals'[t][2] = Whole(2)
      BY <3>1, <3>2
    <3> QED BY <1>1, <1>2, <3>3, <3>4, GivenIsWhole, FixedInput DEF TotalsInv
  <2>4. OutInv(t)'
    BY <1>1, <1>2, FixedInput DEF ThreadInv, OutInv, exp
  <2> QED BY <2>1, <2>2, <2>3, <2>4 DEF ThreadInv
<1>6. ASSUME NEW u \in Thread, u # t PROVE ThreadInv(u)'
  <2>1. pc'[u] = pc[u] /\ pass'[u] = pass[u] /\ totals'[u] = totals[u]
    BY <1>1, <1>6 DEF IInv, TypeInv, ShapeInv
  <2> QED BY <1>1, <2>1, OthersKeep
<1> QED BY <1>3, <1>5, <1>6

LEMMA AppendFacts ==
  ASSUME NEW S, NEW q \in Seq(S), NEW x \in S
  PROVE  /\ Append(q, x) \in Seq(S) /\ Len(Append(q, x)) = Len(q) + 1
         /\ \A i \in 1..Len(q) : Append(q, x)[i] = q[i]
         /\ Append(q, x)[Len(q) + 1] = x
OBVIOUS

LEMMA AppendToOne == ASSUME NEW a, NEW b PROVE Append(<<a>>, b) = <<a, b>>
<1> DEFINE S == {a, b}
           q == <<a>>
           r == Append(q, b)
<1>1. q \in Seq(S) /\ b \in S /\ Len(q) = 1 /\ q[1] = a
  OBVIOUS
<1> HIDE DEF S, q
<1>2. r \in Seq(S) /\ Len(r) = 2 /\ r[1] = q[1] /\ r[2] = b
  <2>1. /\ r \in Seq(S) /\ Len(r) = Len(q) + 1 /\ r[Len(q) + 1] = b
        /\ \A i \in 1..Len(q) : r[i] = q[i]
    BY ONLY <1>1, AppendFacts
  <2> HIDE DEF r
  <2>2. 1 \in 1..Len(q) /\ Len(q) + 1 = 2
    BY <1>1
  <2> QED BY <2>1, <2>2
<1> HIDE DEF r
<1>3. r = <<r[1], r[2]>>
  BY <1>2
<1> QED BY <1>1, <1>2, <1>3 DEF q, r

LEMMA StoreVInv ==
  ASSUME VInv, NEW t \in Thread, Store(t)
  PROVE  ShapeInv' /\ \A u \in Thread : ThreadInv(u)'
<1> USE DEF VInv
<1>1. /\ kernel' = kernel /\ row' = row /\ pass' = pass /\ val' = val
      /\ totals' = totals /\ warp_results' = warp_results /\ s' = s
      /\ pc[t] = "store" /\ pc' = [pc EXCEPT ![t] = "done"]
  BY DEF Store, shared
<1>2. pass[t] = 2 /\ pc'[t] = "done"
  BY <1>1 DEF IInv, TypeInv, PhaseInv, Phase
<1>3. \A c \in DOMAIN row : out'[c] =
        IF c \notin Visits(t) THEN out[c]
        ELSE IF kernel = "softmax" THEN Append(out[c], totals[t][2])
        ELSE <<row[c], totals[t][1], totals[t][2]>>
  BY DEF Store
<1>4. ShapeInv'
  BY <1>1 DEF ShapeInv
<1>5. ThreadInv(t)'
  <2>1. ResultInv(t)'
    BY <1>1, <1>2 DEF ResultInv
  <2>2. SharedInv(t)'
    BY <1>1, <1>2, FixedInput DEF ThreadInv, SharedInv, threadIdx
  <2>3. TotalsInv(t)'
    BY <1>1, <1>2, FixedInput DEF ThreadInv, TotalsInv
  <2>4. totals[t][1] = Whole(1) /\ totals[t][2] = Whole(2)
    BY <1>1, <1>2, GivenIsWhole DEF ThreadInv, TotalsInv
  <2>5. ASSUME NEW c \in Visits(t) PROVE out'[c] = Answer(c)
    <3>1. c \in DOMAIN row
      BY DEF Visits
    <3>2. CASE kernel = "softmax"
      <4>1. out[c] = <<exp(row[c] - Whole(1))>>
        BY <1>1, <1>2, <3>2 DEF ThreadInv, OutInv
      <4>2. out'[c] = Append(out[c], Whole(2))
        BY <1>3, <2>4, <3>1, <3>2
      <4> QED BY <3>2, <4>1, <4>2, AppendToOne DEF Answer
    <3>3. CASE kernel # "softmax"
      BY <1>3, <2>4, <3>1, <3>3 DEF Answer
    <3> QED BY <3>2, <3>3
  <2>6. OutInv(t)'
    BY <1>1, <1>2, <2>5, FixedInput DEF OutInv
  <2> QED BY <2>1, <2>2, <2>3, <2>6 DEF ThreadInv
<1>6. ASSUME NEW u \in Thread, u # t PROVE ThreadInv(u)'
  <2>1. pc'[u] = pc[u]
    BY <1>1, <1>6 DEF IInv, TypeInv
  <2>2. \A c \in Visits(u) : out'[c] = out[c]
    BY <1>3, <1>6, VisitsDisjoint
  <2> QED BY <1>1, <2>1, <2>2, OthersKeep
<1> QED BY <1>4, <1>5, <1>6

LEMMA WarpReduceVInv ==
  ASSUME VInv, NEW w \in Warp, WarpReduce(w)
  PROVE  ShapeInv' /\ \A u \in Thread : ThreadInv(u)'
<1> USE DEF VInv
<1>1. PICK here \in {"shuffle", "shuffle0"} :
        /\ \A l \in Lane : pc[<<w, l>>] = here
        /\ pc' = [t \in Thread |-> IF t[1] # w THEN pc[t]
                                   ELSE IF here = "shuffle" THEN "put" ELSE "broadcast"]
  BY DEF WarpReduce
<1>2. /\ kernel' = kernel /\ row' = row /\ pass' = pass /\ totals' = totals
      /\ warp_results' = warp_results /\ s' = s /\ out' = out
      /\ val' = [t \in Thread |-> IF t[1] = w THEN Butterfly(w)[t[2]] ELSE val[t]]
  BY DEF WarpReduce, shared
<1> DEFINE z == <<w, 0>>
           k == pass[z]
<1>3. 0 \in Lane /\ z \in Thread /\ k \in {1, 2} /\ \A l \in Lane : <<w, l>> \in Thread
  <2>1. 0 \in Lane
    BY Threads DEF Lane
  <2> QED BY <2>1 DEF Thread, IInv, TypeInv
<1>4. ASSUME NEW t \in Thread, t[1] = w PROVE pc[t] = here /\ pass[t] = k /\ t[2] \in Lane
  <2>1. t = <<w, t[2]>> /\ t[2] \in Lane
    BY <1>4, Threads
  <2>2. pc[t] = here /\ pc[z] = here
    BY <1>1, <1>3, <2>1
  <2>3. PICK i \in 1..5 : Phase(i, t) /\ Phase(i, z)
    BY <1>3 DEF IInv, PhaseInv
  <2> HIDE DEF z
  <2>4. pass[t] = pass[z]
    BY <2>2, <2>3 DEF Phase
  <2> QED BY <2>1, <2>2, <2>4
<1>5. \A t \in Thread : t[1] = w =>
        val'[t] = IF here = "shuffle" THEN Part(k, WarpColumns(w)) ELSE Whole(k)
  <2> DEFINE S == [l \in Lane |-> IF here = "shuffle" THEN Visits(<<w, l>>) ELSE Handed(l)]
  <2>1. Brought(w, k, S)
    <3>1. S \in [Lane -> SUBSET DOMAIN row]
      BY HandedFacts DEF Visits
    <3>2. ASSUME NEW l \in Lane, NEW m \in Lane, l # m PROVE S[l] \cap S[m] = {}
      <4>1. Visits(<<w, l>>) \cap Visits(<<w, m>>) = {}
        BY <1>3, <3>2, VisitsDisjoint
      <4>2. Handed(l) \cap Handed(m) = {}
        BY <3>2, HandedFacts
      <4> QED BY <4>1, <4>2
    <3>3. ASSUME NEW l \in Lane PROVE val[<<w, l>>] = Part(k, S[l])
      <4> DEFINE t == <<w, l>>
      <4>1. t \in Thread /\ t[1] = w /\ t[2] = l
        BY <1>3
      <4>2. pc[t] = here /\ pass[t] = k
        BY <1>4, <4>1
      <4>3. ResultInv(t)
        BY <4>1 DEF ThreadInv
      <4> HIDE DEF t, k
      <4>4. val[t] = Part(k, IF here = "shuffle" THEN Visits(t) ELSE Handed(l))
        BY <1>1, <4>1, <4>2, <4>3 DEF ResultInv
      <4> QED BY <4>4 DEF t
    <3> QED BY <3>1, <3>2, <3>3 DEF Brought
  <2>2. UNION {S[l] : l \in Lane} = IF here = "shuffle" THEN WarpColumns(w) ELSE DOMAIN row
    BY HandedFacts DEF WarpColumns
  <2>3. \A l \in Lane : Butterfly(w)[l] = Part(k, UNION {S[m] : m \in Lane})
    <3> HIDE DEF S, k
    <3> QED BY <1>3, <2>1, ButterflyReduces
  <2> HIDE DEF S, k
  <2>4. \A l \in Lane : Butterfly(w)[l] =
          IF here = "shuffle" THEN Part(k, WarpColumns(w)) ELSE Whole(k)
    BY <2>2, <2>3 DEF Whole
  <2> QED BY <1>2, <1>4, <2>4
<1>6. ShapeInv'
  BY <1>2 DEF ShapeInv
<1>7. ASSUME NEW t \in Thread, t[1] = w PROVE ThreadInv(t)'
  <2>1. /\ pc[t] = here /\ pass[t] = k
        /\ pc'[t] = IF here = "shuffle" THEN "put" ELSE "broadcast"
        /\ val'[t] = IF here = "shuffle" THEN Part(k, WarpColumns(w)) ELSE Whole(k)
    BY <1>1, <1>4, <1>5, <1>7
  <2> HIDE DEF k
  <2>2. ResultInv(t)'
    BY <1>1, <1>2, <1>7, <2>1, FixedInput DEF ResultInv
  <2>3. SharedInv(t)'
    BY <1>1, <1>2, <2>1, FixedInput DEF ThreadInv, SharedInv, threadIdx
  <2>4. TotalsInv(t)'
    BY <1>1, <1>2, <2>1, FixedInput DEF ThreadInv, TotalsInv
  <2>5. OutInv(t)'
    BY <1>1, <1>2, <2>1, FixedInput DEF ThreadInv, OutInv, exp
  <2> QED BY <2>2, <2>3, <2>4, <2>5 DEF ThreadInv
<1>8. ASSUME NEW u \in Thread, u[1] # w PROVE ThreadInv(u)'
  <2>1. pc'[u] = pc[u] /\ val'[u] = val[u]
    BY <1>1, <1>2, <1>8
  <2> QED BY <1>2, <2>1, OthersKeep
<1> QED BY <1>6, <1>7, <1>8

LEMMA SyncThreadsVInv ==
  ASSUME VInv, SyncThreads
  PROVE  ShapeInv' /\ \A u \in Thread : ThreadInv(u)'
<1> USE DEF VInv
<1>1. /\ \A t \in Thread : pc[t] \in {"sync", "syncTotal"}
      /\ pc' = [t \in Thread |-> IF pc[t] = "syncTotal" THEN "read"
                                 ELSE IF t[1] = 0 THEN "get" ELSE "broadcast"]
      /\ kernel' = kernel /\ row' = row /\ pass' = pass /\ val' = val /\ totals' = totals
      /\ warp_results' = warp_results /\ s' = s /\ out' = out
  BY DEF SyncThreads, shared
<1>2. ShapeInv'
  BY <1>1 DEF ShapeInv
<1>3. ASSUME NEW t \in Thread PROVE ThreadInv(t)'
  <2>1. /\ pc[t] \in {"sync", "syncTotal"} /\ pass[t] \in {1, 2}
        /\ pc'[t] = IF pc[t] = "syncTotal" THEN "read"
                    ELSE IF t[1] = 0 THEN "get" ELSE "broadcast"
    BY <1>1 DEF IInv, TypeInv
  <2>2. ResultInv(t)'
    BY <1>1, <2>1 DEF ResultInv
  <2>3. SharedInv(t)'
    <3>1. threadIdx(t)' = threadIdx(t)
      BY DEF threadIdx
    <3> QED BY <1>1, <2>1, <3>1, FixedInput DEF ThreadInv, SharedInv
  <2>4. TotalsInv(t)'
    BY <1>1, <2>1, FixedInput DEF ThreadInv, TotalsInv
  <2>5. OutInv(t)'
    BY <1>1, <2>1, FixedInput DEF ThreadInv, OutInv, exp
  <2> QED BY <2>2, <2>3, <2>4, <2>5 DEF ThreadInv
<1> QED BY <1>2, <1>3

LEMMA NextVInv == VInv /\ [Next]_vars => VInv'
<1> SUFFICES ASSUME VInv, [Next]_vars PROVE VInv'
  OBVIOUS
<1>1. IInv'
  BY NextIInv DEF VInv
<1>2. kernel' = kernel /\ row' = row
  BY DEF vars, Next, Step, SyncThreads, WarpReduce, Gather, Put, Get, Broadcast, Read,
     Store, Finished
<1>3. Input'
  BY <1>2, FixedInput DEF VInv
<1>4. CASE UNCHANGED vars
  <2>1. ShapeInv'
    BY <1>4 DEF vars, shared, VInv, ShapeInv
  <2>2. ASSUME NEW u \in Thread PROVE ThreadInv(u)'
    BY <1>4, OthersKeep DEF vars, shared, VInv
  <2> QED BY <1>1, <1>3, <2>1, <2>2 DEF VInv
<1>5. CASE Next
  <2>1. ShapeInv' /\ \A u \in Thread : ThreadInv(u)'
    <3>1. CASE Finished
      <4>1. ShapeInv'
        BY <3>1 DEF Finished, vars, shared, VInv, ShapeInv
      <4>2. ASSUME NEW u \in Thread PROVE ThreadInv(u)'
        BY <3>1, OthersKeep DEF Finished, vars, shared, VInv
      <4> QED BY <4>1, <4>2
    <3> QED BY <1>5, <3>1, SyncThreadsVInv, WarpReduceVInv, GatherVInv, PutVInv, GetVInv,
               BroadcastVInv, ReadVInv, StoreVInv DEF Next, Step
  <2> QED BY <1>1, <1>3, <2>1 DEF VInv
<1> QED BY <1>4, <1>5

(* softmax.cu 144-183 and layernorm.cu 91-128: for every warp, every       *)
(* number of warps and every row, longer and shorter than the block, each  *)
(* element that a finished thread leaves is computed from the reductions   *)
(* of all columns, each taken once.                                        *)
THEOREM RowsCorrect == Spec => []OutUsesWholeRow
<1>1. VInv => OutUsesWholeRow
  <2> SUFFICES ASSUME VInv, NEW t \in Thread, pc[t] = "done", NEW c \in Visits(t)
               PROVE  out[c] = Answer(c)
    BY DEF OutUsesWholeRow, Answer, Whole, Part, Given
  <2> QED BY DEF VInv, ThreadInv, OutInv
<1> QED BY <1>1, InitVInv, NextVInv, PTL DEF Spec
=============================================================================
