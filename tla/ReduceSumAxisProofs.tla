------------------------- MODULE ReduceSumAxisProofs -------------------------
(***************************************************************************)
(* Proofs about ReduceSumAxis, for every block the launch can choose and   *)
(* every size of the images: no data race, and where one block covers an   *)
(* image, out[c] is the sum over the channel.                              *)
(***************************************************************************)
EXTENDS ReduceSumAxis, TLAPS

(* The widths of the tree, and the threads' places at each of them.        *)
Width == {w \in {0, 1, 2, 4, 8, 16, 32, 64, 128, 256, 512, 1024} : w <= kBlock}

At(w) == IF w = kBlock THEN {"load", "sync"}
         ELSE IF w = 0 THEN {"write", "done"} ELSE {"add", "sync"}

TypeInv ==
  /\ size \in Sizes
  /\ pc \in [Thread -> {"load", "sync", "add", "write", "done"}]
  /\ s \in [Thread -> Width]
  /\ DOMAIN smem = Thread

(* The threads of a block are at one level of the tree.                    *)
LevelInv ==
  \A y \in 0..GridY - 1 : \E w \in Width :
    \A t \in Thread : t[1] = y => s[t] = w /\ pc[t] \in At(w)

IInv == TypeInv /\ LevelInv

-----------------------------------------------------------------------------

LEMMA Threads ==
  ASSUME TypeInv
  PROVE  /\ size.N \in Nat \ {0} /\ size.HW \in Nat \ {0} /\ kBlock \in Nat /\ GridY \in Int
         /\ \A t \in Thread : /\ t = <<t[1], t[2]>> /\ t[1] \in 0..GridY - 1
                              /\ t[2] \in 0..kBlock - 1
<1>1. size.N \in Nat \ {0} /\ size.HW \in Nat \ {0}
  BY ReduceAssumption DEF TypeInv
<1>2. kBlock \in Nat \ {0}
  BY ReduceAssumption
<1>3. GridY \in Int
  BY <1>1, <1>2 DEF GridY
<1> QED BY <1>1, <1>2, <1>3 DEF Thread

LEMMA Halve ==
  ASSUME NEW w \in Width, w # 0
  PROVE  /\ w \div 2 \in Width /\ w \div 2 # kBlock
         /\ w > 1 => w \div 2 # 0 /\ 2 * (w \div 2) = w
         /\ w = 1 => w \div 2 = 0
<1>1. kBlock \in Nat
  BY ReduceAssumption
<1> QED BY <1>1 DEF Width

LEMMA InitIInv == Init => IInv
<1> SUFFICES ASSUME Init PROVE IInv
  OBVIOUS
<1>1. kBlock \in Width
  BY ReduceAssumption DEF Width
<1>2. /\ size \in Sizes /\ smem = [t \in Thread |-> Absent]
      /\ pc = [t \in Thread |-> "load"] /\ s = [t \in Thread |-> kBlock]
  BY DEF Init, FirstWidth
<1>3. TypeInv
  BY <1>1, <1>2 DEF TypeInv
<1>4. \A t \in Thread : s[t] = kBlock /\ pc[t] \in At(kBlock)
  BY <1>2 DEF At
<1> QED BY <1>1, <1>3, <1>4 DEF IInv, LevelInv

LEMMA FixedThreads ==
  ASSUME size' = size
  PROVE  Thread' = Thread /\ GridY' = GridY /\ Element' = Element /\ Total' = Total
BY DEF Thread, GridY, Element, Total

LEMMA StepIInv ==
  ASSUME IInv, NEW t \in Thread, Step(t)
  PROVE  IInv'
<1>1. size' = size /\ s' = s
  BY DEF Step, Load, AddPartner, Write
<1>2. PICK place \in {"sync", "done"} :
        /\ pc' = [pc EXCEPT ![t] = place]
        /\ place = "sync" => pc[t] \in {"load", "add"}
        /\ place = "done" => pc[t] = "write"
  BY DEF Step, Load, AddPartner, Write
<1>3. DOMAIN smem' = Thread
  BY DEF Step, Load, AddPartner, Write, IInv, TypeInv
<1>4. TypeInv'
  BY <1>1, <1>2, <1>3, FixedThreads DEF IInv, TypeInv
<1>5. LevelInv'
  <2> SUFFICES ASSUME NEW y \in 0..GridY - 1
               PROVE  \E w \in Width : \A u \in Thread :
                        u[1] = y => s[u] = w /\ pc'[u] \in At(w)
    BY <1>1, FixedThreads DEF LevelInv
  <2>1. PICK w \in Width : \A u \in Thread : u[1] = y => s[u] = w /\ pc[u] \in At(w)
    BY DEF IInv, LevelInv
  <2>2. ASSUME NEW u \in Thread, u[1] = y PROVE pc'[u] \in At(w)
    BY <1>2, <2>1, <2>2 DEF At, IInv, TypeInv
  <2> QED BY <2>1, <2>2
<1> QED BY <1>4, <1>5 DEF IInv

LEMMA SyncThreadsIInv ==
  ASSUME IInv, NEW y \in 0..GridY - 1, SyncThreads(y)
  PROVE  IInv'
<1>1. /\ size' = size /\ smem' = smem /\ \A t \in Thread : t[1] = y => pc[t] = "sync"
      /\ s' = [t \in Thread |-> IF t[1] = y THEN s[t] \div 2 ELSE s[t]]
      /\ pc' = [t \in Thread |-> IF t[1] # y THEN pc[t]
                                 ELSE IF s'[t] > 0 THEN "add" ELSE "write"]
  BY DEF SyncThreads, NextLevel
<1>2. PICK w \in Width : \A t \in Thread : t[1] = y => s[t] = w /\ pc[t] \in At(w)
  BY DEF IInv, LevelInv
<1>3. CASE \E t \in Thread : t[1] = y
  <2>1. w # 0
    BY <1>1, <1>2, <1>3, ReduceAssumption DEF At
  <2>2. w \div 2 \in Width /\ w \div 2 # kBlock /\ w \div 2 \in Nat
    BY <2>1, Halve DEF Width
  <2>3. \A t \in Thread : t[1] = y => s'[t] = w \div 2 /\ pc'[t] \in At(w \div 2)
    BY <1>1, <1>2, <2>2 DEF At
  <2>4. TypeInv'
    BY <1>1, <2>2, <2>3, FixedThreads DEF IInv, TypeInv
  <2>5. ASSUME NEW z \in 0..GridY - 1, z # y
        PROVE  \E v \in Width : \A t \in Thread : t[1] = z => s'[t] = v /\ pc'[t] \in At(v)
    <3>1. PICK v \in Width : \A t \in Thread : t[1] = z => s[t] = v /\ pc[t] \in At(v)
      BY DEF IInv, LevelInv
    <3>2. \A t \in Thread : t[1] = z => s'[t] = v /\ pc'[t] \in At(v)
      BY <1>1, <2>5, <3>1
    <3> QED BY <3>2
  <2>6. LevelInv'
    BY <1>1, <2>2, <2>3, <2>5, FixedThreads DEF LevelInv
  <2> QED BY <2>4, <2>6 DEF IInv
<1>4. CASE ~\E t \in Thread : t[1] = y
  <2>1. s' = s /\ pc' = pc
    BY <1>1, <1>4 DEF IInv, TypeInv
  <2> QED BY <1>1, <2>1, FixedThreads DEF IInv, TypeInv, LevelInv
<1> QED BY <1>3, <1>4

LEMMA NextIInv == IInv /\ [Next]_vars => IInv'
<1> SUFFICES ASSUME IInv, [Next]_vars PROVE IInv'
  OBVIOUS
<1>1. CASE UNCHANGED vars
  BY <1>1, FixedThreads DEF vars, IInv, TypeInv, LevelInv
<1> QED BY <1>1, StepIInv, SyncThreadsIInv DEF Next, Finished

LEMMA InvariantIInv == Spec => []IInv
BY InitIInv, NextIInv, PTL DEF Spec

(* reduce_sum_axis.cu 73-85: at no level of the tree does a thread write a *)
(* shared cell that another reads or writes, in any block of any launch.   *)
THEOREM RaceFree == Spec => []NoDataRace
<1>1. IInv => NoDataRace
  <2> SUFFICES ASSUME IInv, NEW t \in Thread, NEW u \in Thread, t # u,
                      NEW a \in Writes(t), a \in Reads(u) \cup Writes(u)
               PROVE  FALSE
    BY DEF NoDataRace
  <2>1. a = t /\ (pc[t] = "load" \/ (pc[t] = "add" /\ t[2] < s[t]))
    BY DEF Writes
  <2>2. a = Partner(u) /\ pc[u] = "add"
    BY <2>1 DEF Reads, Writes
  <2>3. t[1] = u[1] /\ t[2] = u[2] + s[u]
    BY <2>1, <2>2 DEF Partner
  <2>4. PICK w \in Width : /\ s[t] = w /\ pc[t] \in At(w)
                           /\ s[u] = w /\ pc[u] \in At(w)
    BY <2>3, Threads DEF IInv, LevelInv
  <2>5. pc[t] = "add"
    BY <2>1, <2>2, <2>4 DEF At
  <2>6. t[2] < w /\ t[2] = u[2] + w /\ u[2] \in Nat /\ w \in Nat
    BY <2>1, <2>3, <2>4, <2>5, Threads DEF IInv, Width
  <2> QED BY <2>6
<1> QED BY <1>1, InvariantIInv, PTL

-----------------------------------------------------------------------------
(* One block: images of at most kBlock elements.                           *)

OneBlock == \A z \in Sizes : z.HW <= kBlock

Zero == <<0, 0>>

(* The cell of t holds the elements whose place is that of t, modulo m.    *)
Holds(t, m) == smem[t] = [e \in Element |-> IF e[2] % m = t[2] THEN 1 ELSE 0]

(* What a thread's cell holds at level w of the tree.                      *)
Cell(w, t) ==
  /\ w = kBlock /\ pc[t] = "sync" => Holds(t, w)
  /\ 0 < w /\ w < kBlock /\ pc[t] = "sync" /\ t[2] < w => Holds(t, w)
  /\ 0 < w /\ w < kBlock /\ (pc[t] = "add" \/ t[2] >= w) /\ t[2] < 2 * w => Holds(t, 2 * w)
  /\ w = 0 /\ t = Zero => Holds(t, 1)
  /\ pc[t] = "done" /\ t = Zero => out = Total

SumInv == IInv /\ \A t \in Thread : Cell(s[t], t)

LEMMA OneGridY ==
  ASSUME OneBlock, TypeInv
  PROVE  /\ GridY = 1 /\ \A t \in Thread : t[1] = 0 /\ t[2] \in 0..kBlock - 1
         /\ Zero \in Thread
<1>1. size.HW \in 1..kBlock
  BY Threads DEF OneBlock, TypeInv
<1>2. GridY = 1
  BY <1>1, ReduceAssumption DEF GridY
<1>3. kBlock \in Nat \ {0}
  BY ReduceAssumption
<1>4. Zero \in Thread
  BY <1>2, <1>3 DEF Thread, Zero
<1> QED BY <1>2, <1>4, Threads

(* All threads are at one level.                                           *)
LEMMA SameLevel ==
  ASSUME OneBlock, IInv
  PROVE  \E w \in Width : \A t \in Thread : s[t] = w /\ pc[t] \in At(w)
<1>1. 0 \in 0..GridY - 1 /\ \A t \in Thread : t[1] = 0
  BY OneGridY DEF IInv
<1> QED BY <1>1 DEF IInv, LevelInv

(* Two cells of one level make one of the next.                            *)
Half == {1, 2, 4, 8, 16, 32, 64, 128, 256, 512}

LEMMA HalfRemainder ==
  ASSUME NEW w \in Half, NEW i \in 0..w - 1, NEW x \in Nat
  PROVE  /\ x % w = i <=> (x % (2 * w) = i \/ x % (2 * w) = i + w)
         /\ i # i + w
BY DEF Half

LEMMA LoadSum ==
  ASSUME OneBlock, SumInv, NEW t \in Thread, Load(t)
  PROVE  SumInv'
<1>1. /\ size' = size /\ s' = s /\ out' = out /\ pc[t] = "load"
      /\ pc' = [pc EXCEPT ![t] = "sync"]
      /\ smem' = [smem EXCEPT ![t] = [e \in Element |-> IF e[2] \in Visits(t) THEN 1 ELSE 0]]
  BY DEF Load
<1>2. IInv'
  BY StepIInv DEF SumInv, Step
<1>3. s[t] = kBlock
  BY <1>1, SameLevel DEF SumInv, At
<1>4. \A e \in Element : e[2] \in Visits(t) <=> e[2] % kBlock = t[2]
  <2>1. kBlock \in Nat /\ kBlock * 1 = kBlock /\ 0 * kBlock = 0
    BY ReduceAssumption
  <2>2. kBlock * GridY = kBlock /\ t[1] * kBlock + t[2] = t[2]
    BY <2>1, OneGridY DEF SumInv, IInv
  <2> QED BY <2>2 DEF Visits, Element
<1>5. Holds(t, kBlock)'
  BY <1>1, <1>4, FixedThreads DEF Holds, SumInv, IInv, TypeInv
<1>6. \A u \in Thread : Cell(s[u], u)'
  <2> SUFFICES ASSUME NEW u \in Thread PROVE Cell(s[u], u)'
    OBVIOUS
  <2>1. CASE u = t
    BY <1>1, <1>3, <1>5, <2>1, ReduceAssumption DEF Cell, SumInv, IInv, TypeInv
  <2>2. CASE u # t
    <3>1. pc'[u] = pc[u] /\ smem'[u] = smem[u]
      BY <1>1, <2>2 DEF SumInv, IInv, TypeInv
    <3>2. Cell(s[u], u)
      BY DEF SumInv
    <3> QED BY <1>1, <3>1, <3>2, FixedThreads, SMTT(20) DEF Cell, Holds
  <2> QED BY <2>1, <2>2
<1> QED BY <1>1, <1>2, <1>6, FixedThreads DEF SumInv

LEMMA AddPartnerSum ==
  ASSUME OneBlock, SumInv, NEW t \in Thread, AddPartner(t)
  PROVE  SumInv'
<1>1. /\ size' = size /\ s' = s /\ out' = out /\ pc[t] = "add"
      /\ pc' = [pc EXCEPT ![t] = "sync"]
      /\ smem' = IF t[2] < s[t] THEN [smem EXCEPT ![t] = Plus(smem[t], smem[Partner(t)])]
                                ELSE smem
  BY DEF AddPartner
<1>2. IInv'
  BY StepIInv DEF SumInv, Step
<1>3. PICK w \in Width : \A u \in Thread : s[u] = w /\ pc[u] \in At(w)
  BY SameLevel DEF SumInv
<1>4. 0 < w /\ w < kBlock /\ w \in Half /\ w \in Nat /\ 2 * w <= kBlock
  BY <1>1, <1>3, ReduceAssumption DEF At, Width, Half
<1>5. t[2] \in Nat /\ t[2] < kBlock /\ t = <<0, t[2]>>
  BY OneGridY, Threads, ReduceAssumption DEF SumInv, IInv
<1>6. ASSUME t[2] < w PROVE Holds(t, w)'
  <2> DEFINE u == Partner(t)
  <2>1. u = <<0, t[2] + w>> /\ u \in Thread /\ u[2] = t[2] + w
    <3>1. u = <<0, t[2] + w>>
      BY <1>3, <1>5 DEF Partner
    <3>2. t[2] + w \in 0..kBlock - 1 /\ 0 \in 0..GridY - 1
      BY <1>4, <1>5, <1>6, OneGridY, ReduceAssumption DEF SumInv, IInv
    <3> QED BY <3>1, <3>2 DEF Thread
  <2>2. Holds(t, 2 * w)
    BY <1>1, <1>3, <1>4, <1>5, <1>6 DEF SumInv, Cell
  <2>3. Holds(u, 2 * w)
    <3>1. u[2] >= w /\ u[2] < 2 * w
      BY <1>4, <1>5, <1>6, <2>1
    <3> QED BY <1>3, <1>4, <2>1, <3>1 DEF SumInv, Cell
  <2>4. ASSUME NEW e \in Element
        PROVE  smem[t][e] + smem[u][e] = IF e[2] % w = t[2] THEN 1 ELSE 0
    <3>1. e[2] \in Nat
      BY Threads DEF Element, SumInv, IInv
    <3>2. smem[t][e] = IF e[2] % (2 * w) = t[2] THEN 1 ELSE 0
      BY <2>2 DEF Holds
    <3>3. smem[u][e] = IF e[2] % (2 * w) = t[2] + w THEN 1 ELSE 0
      BY <2>1, <2>3 DEF Holds
    <3>4. /\ e[2] % w = t[2] <=> (e[2] % (2 * w) = t[2] \/ e[2] % (2 * w) = t[2] + w)
          /\ t[2] # t[2] + w
      <4>1. t[2] \in 0..w - 1
        BY <1>4, <1>5, <1>6
      <4>2. w \in Half
        BY <1>4
      <4> QED BY <3>1, <4>1, <4>2, HalfRemainder
    <3> QED BY <3>2, <3>3, <3>4
  <2>5. smem'[t] = Plus(smem[t], smem[u])
    BY <1>1, <1>3, <1>6 DEF SumInv, IInv, TypeInv
  <2> HIDE DEF u
  <2> QED BY <1>1, <2>4, <2>5, FixedThreads DEF Holds, Plus
<1>7. \A u \in Thread : Cell(s[u], u)'
  <2> SUFFICES ASSUME NEW u \in Thread PROVE Cell(s[u], u)'
    OBVIOUS
  <2>1. CASE u # t
    <3>1. pc'[u] = pc[u] /\ smem'[u] = smem[u]
      BY <1>1, <2>1 DEF SumInv, IInv, TypeInv
    <3>2. \A m : Holds(u, m)' <=> Holds(u, m)
      BY <1>1, <3>1, FixedThreads DEF Holds
    <3>3. s' = s /\ out' = out /\ Total' = Total
      BY <1>1, FixedThreads
    <3> QED BY <3>1, <3>2, <3>3 DEF Cell, SumInv
  <2>2. CASE u = t /\ t[2] < w
    <3>1. pc'[t] = "sync" /\ s'[t] = w
      BY <1>1, <1>3 DEF SumInv, IInv, TypeInv
    <3> QED BY <1>4, <1>5, <1>6, <2>2, <3>1 DEF Cell
  <2>3. CASE u = t /\ ~(t[2] < w)
    <3>1. pc'[t] = "sync" /\ s'[t] = w /\ smem' = smem
      BY <1>1, <1>3, <2>3 DEF SumInv, IInv, TypeInv
    <3>2. t[2] < 2 * w => Holds(t, 2 * w)
      BY <1>1, <1>3, <1>4, <2>3 DEF SumInv, Cell
    <3>3. t[2] < 2 * w => Holds(t, 2 * w)'
      BY <1>1, <3>1, <3>2, FixedThreads DEF Holds
    <3> QED BY <1>4, <1>5, <2>3, <3>1, <3>3 DEF Cell
  <2> QED BY <2>1, <2>2, <2>3
<1> QED BY <1>1, <1>2, <1>7, FixedThreads DEF SumInv

LEMMA WriteSum ==
  ASSUME OneBlock, SumInv, NEW t \in Thread, Write(t)
  PROVE  SumInv'
<1>1. /\ size' = size /\ s' = s /\ smem' = smem /\ pc[t] = "write"
      /\ pc' = [pc EXCEPT ![t] = "done"]
      /\ out' = IF t[2] = 0 THEN smem[t] ELSE out
  BY DEF Write
<1>2. IInv'
  BY StepIInv DEF SumInv, Step
<1>3. PICK w \in Width : \A u \in Thread : s[u] = w /\ pc[u] \in At(w)
  BY SameLevel DEF SumInv
<1>4. w = 0
  BY <1>1, <1>3 DEF At
<1>5. t[2] = 0 <=> t = Zero
  BY OneGridY, Threads DEF SumInv, IInv, Zero
<1>6. Holds(Zero, 1) => smem[Zero] = Total
  <2>1. \A e \in Element : e[2] % 1 = 0
    BY Threads DEF Element, SumInv, IInv
  <2> QED BY <2>1 DEF Holds, Total, Zero
<1>7. \A u \in Thread : Cell(s[u], u)'
  <2> SUFFICES ASSUME NEW u \in Thread PROVE Cell(s[u], u)'
    OBVIOUS
  <2>1. /\ pc'[u] \in {"write", "done"} /\ (u # t => pc'[u] = pc[u])
        /\ s'[u] = 0 /\ (Holds(u, 1)' <=> Holds(u, 1))
    BY <1>1, <1>3, <1>4, FixedThreads, ReduceAssumption DEF At, Holds, SumInv, IInv, TypeInv
  <2>2. u = Zero => Holds(u, 1)
    BY <1>3, <1>4 DEF SumInv, Cell
  <2>3. pc'[u] = "done" /\ u = Zero => out' = Total
    <3>1. CASE u = t
      BY <1>1, <1>5, <1>6, <2>2, <3>1
    <3>2. CASE u # t
      BY <1>1, <1>5, <2>1, <3>2 DEF SumInv, Cell
    <3> QED BY <3>1, <3>2
  <2> QED BY <1>1, <2>1, <2>2, <2>3, FixedThreads, ReduceAssumption DEF Cell
<1> QED BY <1>1, <1>2, <1>7, FixedThreads DEF SumInv

LEMMA SyncThreadsSum ==
  ASSUME OneBlock, SumInv, NEW y \in 0..GridY - 1, SyncThreads(y)
  PROVE  SumInv'
<1>1. /\ size' = size /\ smem' = smem /\ out' = out /\ \A t \in Thread : pc[t] = "sync"
      /\ s' = [t \in Thread |-> s[t] \div 2]
      /\ pc' = [t \in Thread |-> IF s'[t] > 0 THEN "add" ELSE "write"]
  <2>1. y = 0 /\ \A t \in Thread : t[1] = 0
    BY OneGridY DEF SumInv, IInv
  <2> QED BY <2>1 DEF SyncThreads, NextLevel
<1>2. IInv'
  BY SyncThreadsIInv DEF SumInv
<1>3. PICK w \in Width : \A t \in Thread : s[t] = w /\ pc[t] \in At(w)
  BY SameLevel DEF SumInv
<1>4. w # 0
  BY <1>1, <1>3, OneGridY, ReduceAssumption DEF At, SumInv, IInv
<1>5. /\ w \div 2 \in Width /\ w \div 2 # kBlock /\ w \div 2 \in Nat /\ w \in Nat /\ w <= kBlock
      /\ w > 1 => 2 * (w \div 2) = w
      /\ w = 1 => w \div 2 = 0
  BY <1>4, Halve DEF Width
<1>6. \A t \in Thread : Cell(s[t], t)'
  <2> SUFFICES ASSUME NEW t \in Thread PROVE Cell(s[t], t)'
    OBVIOUS
  <2>1. s'[t] = w \div 2 /\ pc'[t] = IF w \div 2 > 0 THEN "add" ELSE "write"
    BY <1>1, <1>3
  <2>2. t[2] < w => Holds(t, w)
    <3>1. kBlock \in Nat
      BY ReduceAssumption
    <3> QED BY <1>1, <1>3, <1>4, <1>5, <3>1 DEF SumInv, Cell
  <2>3. t[2] < w => Holds(t, w)'
    BY <1>1, <2>2, FixedThreads DEF Holds
  <2>4. w \div 2 = 0 => w = 1
    BY <1>4, <1>5
  <2>5. t = Zero => t[2] = 0
    BY DEF Zero
  <2> QED BY <1>4, <1>5, <2>1, <2>3, <2>4, <2>5 DEF Cell
<1> QED BY <1>1, <1>2, <1>6, FixedThreads DEF SumInv

(* reduce_sum_axis.cu 57-86: where the launch takes one block for an image *)
(* the tree adds up every element of the channel exactly once.             *)
THEOREM SumCorrect == OneBlock => (Spec => []OutIsChannelSum)
<1> SUFFICES ASSUME OneBlock PROVE Spec => []OutIsChannelSum
  OBVIOUS
<1>1. Init => SumInv
  <2>1. Init => \A t \in Thread : Cell(s[t], t)
    BY ReduceAssumption DEF Init, FirstWidth, Cell
  <2> QED BY <2>1, InitIInv DEF SumInv
<1>2. SumInv /\ [Next]_vars => SumInv'
  <2> SUFFICES ASSUME SumInv, [Next]_vars PROVE SumInv'
    OBVIOUS
  <2>1. CASE UNCHANGED vars
    <3>1. IInv'
      BY <2>1, NextIInv DEF SumInv
    <3> QED BY <2>1, <3>1, FixedThreads DEF vars, SumInv, Cell, Holds
  <2> QED BY <2>1, LoadSum, AddPartnerSum, WriteSum, SyncThreadsSum DEF Next, Step, Finished
<1>3. SumInv => OutIsChannelSum
  BY OneGridY DEF SumInv, IInv, Cell, OutIsChannelSum, AllDone
<1> QED BY <1>1, <1>2, <1>3, PTL DEF Spec
=============================================================================
