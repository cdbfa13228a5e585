----------------------------- MODULE GemmProofs -----------------------------
(***************************************************************************)
(* For every tile width and every shape, the threads of gemm_tiled_kernel  *)
(* do not race and compute the matrix product.  The two barriers keep all  *)
(* threads in one phase of one tile: while some load, none accumulates.    *)
(*                                                                         *)
(* gemm_optimized_kernel computes the product for every tile width as long *)
(* as K has at most two tiles: then each of the two banks is loaded once,  *)
(* before the first barrier, and never again.  With a third tile that is   *)
(* no longer so, and the product is wrong: see MCGemmThreeTiles.           *)
(***************************************************************************)
EXTENDS GemmTiled, TLAPS

VARIABLE cur   \* the bank each thread of gemm_optimized_kernel computes on

Opt == INSTANCE GemmOptimized

-----------------------------------------------------------------------------
(* gemm_tiled_kernel.                                                      *)

Loading == {"loadA", "loadB", "loaded"}
Using   == {"mul", "used"}
Ending  == {"store", "done"}

OnePhase ==
  /\ \/ \A t \in Thread : pc[t] \in Loading
     \/ \A t \in Thread : pc[t] \in Using
     \/ \A t \in Thread : pc[t] \in Ending
  /\ \A t, u \in Thread : k0[t] = k0[u]

(* A thread's cells hold the current tile once it has loaded them, and     *)
(* still do while it is used.                                              *)
TilesLoaded ==
  \A t \in Thread :
    /\ pc[t] \in {"loadB", "loaded"} \cup Using =>
         As[<<0, t[1], t[2]>>] = ElementOfA(t[1], t[2], k0[t])
    /\ pc[t] \in {"loaded"} \cup Using =>
         Bs[<<0, t[1], t[2]>>] = ElementOfB(t[1], t[2], k0[t])

Clip(n) == IF n < shape.K THEN n ELSE shape.K

(* How much of the dot product a thread has added up.                      *)
Terms(t) == IF pc[t] \in Loading THEN k0[t]
            ELSE IF pc[t] \in Using THEN Clip(k0[t] + kk[t]) ELSE shape.K

SumsSoFar ==
  \A t \in Thread :
    /\ pc[t] \in Loading \cup Using => k0[t] < shape.K
    /\ pc[t] = "mul" => kk[t] < kTile
    /\ pc[t] = "used" => kk[t] = kTile
    /\ InBounds(t) => acc[t] = DotProduct(Terms(t))

IInv == TypeOK /\ OnePhase /\ TilesLoaded /\ SumsSoFar /\ ResultIsDotProduct

-----------------------------------------------------------------------------

(* A dot product of n terms is a sequence of n pairs.                      *)
LEMMA DotProductType ==
  ASSUME NEW n \in Nat
  PROVE  /\ DotProduct(n) \in Seq(Nat \X Nat)
         /\ Len(DotProduct(n)) = n
  <1>1. \A i \in 1..n : <<i - 1, i - 1>> \in Nat \X Nat
    OBVIOUS
  <1>2. DotProduct(n) \in [1..n -> Nat \X Nat]
    BY <1>1 DEF DotProduct
  <1> QED
    BY <1>2

(* Appending the n-th product gives the dot product of n + 1 terms.        *)
LEMMA DotProductStep ==
  ASSUME NEW n \in Nat
  PROVE  Append(DotProduct(n), <<n, n>>) = DotProduct(n + 1)
  <1> DEFINE s == Append(DotProduct(n), <<n, n>>)
             d == DotProduct(n + 1)
  <1>1. <<n, n>> \in Nat \X Nat
    OBVIOUS
  <1>2. s \in Seq(Nat \X Nat) /\ Len(s) = n + 1
    BY <1>1, DotProductType
  <1>3. d \in Seq(Nat \X Nat) /\ Len(d) = n + 1
    BY DotProductType, n + 1 \in Nat
  <1>4. ASSUME NEW i \in 1..(n + 1) PROVE s[i] = d[i]
    <2>1. CASE i = n + 1
      <3>1. s[i] = <<n, n>>
        BY <2>1, DotProductType
      <3>2. d[i] = <<n, n>>
        BY <2>1 DEF DotProduct
      <3> QED
        BY <3>1, <3>2
    <2>2. CASE i # n + 1
      <3>1. i \in 1..n
        BY <2>2
      <3>2. s[i] = DotProduct(n)[i]
        BY <3>1, DotProductType
      <3>3. DotProduct(n)[i] = <<i - 1, i - 1>> /\ d[i] = <<i - 1, i - 1>>
        BY <3>1 DEF DotProduct
      <3> QED
        BY <3>2, <3>3
    <2> QED
      BY <2>1, <2>2
  <1> HIDE DEF s, d
  <1>5. s = d
    BY <1>2, <1>3, <1>4
  <1> QED
    BY <1>5 DEF s, d

(* The threads start at the first tile with an empty sum.                  *)
LEMMA InitIInv == Init => IInv
  <1> SUFFICES ASSUME Init PROVE IInv
    OBVIOUS
  <1> USE GemmAssumption
  <1>1. shape \in Shapes /\ shape.K \in Nat \ {0} /\ shape.M \in Nat /\ shape.N \in Nat
    BY DEF Init, InitBlock
  <1>2. \A t \in Thread : /\ pc[t] = "loadA" /\ k0[t] = 0 /\ kk[t] = 0
                          /\ acc[t] = <<>> /\ C[t] = Absent
    BY DEF Init, InitBlock, Entry
  <1>3. TypeOK
    BY <1>1 DEF Init, InitBlock, Entry, TypeOK, BlockTypeOK, Labels
  <1>4. OnePhase
    BY <1>2 DEF OnePhase, Loading
  <1>5. TilesLoaded
    BY <1>2 DEF TilesLoaded, Using
  <1>6. DotProduct(0) = <<>>
    BY DEF DotProduct
  <1>7. SumsSoFar
    BY <1>1, <1>2, <1>6 DEF SumsSoFar, Terms, Loading, Using
  <1>8. ResultIsDotProduct
    BY <1>2 DEF ResultIsDotProduct
  <1> QED
    BY <1>3, <1>4, <1>5, <1>7, <1>8 DEF IInv

(* Different threads own different cells.                                  *)
LEMMA OwnCell ==
  ASSUME NEW t \in Thread, NEW u \in Thread
  PROVE  /\ t[1] \in Index /\ t[2] \in Index
         /\ <<0, t[1], t[2]>> \in Cell
         /\ t # u => <<0, t[1], t[2]>> # <<0, u[1], u[2]>>
  <1>1. /\ t[1] \in Index /\ t[2] \in Index /\ t = <<t[1], t[2]>>
        /\ u = <<u[1], u[2]>>
    BY DEF Thread
  <1>2. <<0, t[1], t[2]>> \in Cell
    BY <1>1 DEF Cell
  <1>3. ASSUME <<0, t[1], t[2]>> = <<0, u[1], u[2]>> PROVE t = u
    <2>1. t[1] = u[1] /\ t[2] = u[2]
      BY <1>3
    <2> QED
      BY <2>1, <1>1
  <1> QED
    BY <1>1, <1>2, <1>3

(* The loads fill the thread's own cells with its current tile.            *)
LEMMA LoadAIInv == ASSUME IInv, NEW t \in Thread, LoadA(t) PROVE IInv'
  <1> USE GemmAssumption
  <1>1. /\ pc[t] = "loadA" /\ pc' = [pc EXCEPT ![t] = "loadB"]
        /\ As' = [As EXCEPT ![<<0, t[1], t[2]>>] = ElementOfA(t[1], t[2], k0[t])]
        /\ UNCHANGED <<shape, Bs, k0, kk, acc, C>>
    BY DEF LoadA
  <1>2. /\ TypeOK /\ pc \in [Thread -> Labels] /\ k0 \in [Thread -> Nat]
        /\ <<0, t[1], t[2]>> \in Cell
    BY OwnCell DEF IInv, TypeOK, BlockTypeOK
  <1>3. ElementOfA(t[1], t[2], k0[t]) \in Nat \cup {Zero}
    BY <1>2 DEF ElementOfA, Thread, Index
  <1>4. TypeOK'
    BY <1>1, <1>2, <1>3 DEF TypeOK, BlockTypeOK, Labels
  <1>5. OnePhase'
    BY <1>1, <1>2 DEF IInv, OnePhase, Loading, Using, Ending
  <1>6. ASSUME NEW u \in Thread
        PROVE  /\ u # t => As'[<<0, u[1], u[2]>>] = As[<<0, u[1], u[2]>>]
               /\ As'[<<0, t[1], t[2]>>] = ElementOfA(t[1], t[2], k0[t])
    <2> DEFINE mine == <<0, t[1], t[2]>>
               yours == <<0, u[1], u[2]>>
    <2>1. /\ mine \in Cell /\ yours \in Cell
          /\ u # t => mine # yours
      BY OwnCell
    <2>2. As \in [Cell -> Nat \cup {Zero, Absent}]
      BY <1>2 DEF TypeOK, BlockTypeOK
    <2>3. As' = [As EXCEPT ![mine] = ElementOfA(t[1], t[2], k0[t])]
      BY <1>1
    <2> HIDE DEF mine, yours
    <2>4. /\ u # t => As'[yours] = As[yours]
          /\ As'[mine] = ElementOfA(t[1], t[2], k0[t])
      BY <2>1, <2>2, <2>3
    <2> QED
      BY <2>4 DEF mine, yours
  <1>7. TilesLoaded'
    BY <1>1, <1>2, <1>6 DEF IInv, TilesLoaded, Using, ElementOfA, ElementOfB
  <1>8. \A u \in Thread : Terms(u)' = Terms(u)
    BY <1>1, <1>2 DEF Terms, Loading, Using, Clip
  <1>9. SumsSoFar'
    BY <1>1, <1>2, <1>8 DEF IInv, SumsSoFar, Loading, Using, InBounds, DotProduct
  <1>10. ResultIsDotProduct'
    BY <1>1, <1>2 DEF IInv, ResultIsDotProduct, InBounds, DotProduct
  <1> QED
    BY <1>4, <1>5, <1>7, <1>9, <1>10 DEF IInv

LEMMA LoadBIInv == ASSUME IInv, NEW t \in Thread, LoadB(t) PROVE IInv'
  <1> USE GemmAssumption
  <1>1. /\ pc[t] = "loadB" /\ pc' = [pc EXCEPT ![t] = "loaded"]
        /\ Bs' = [Bs EXCEPT ![<<0, t[1], t[2]>>] = ElementOfB(t[1], t[2], k0[t])]
        /\ UNCHANGED <<shape, As, k0, kk, acc, C>>
    BY DEF LoadB
  <1>2. /\ TypeOK /\ pc \in [Thread -> Labels] /\ k0 \in [Thread -> Nat]
        /\ <<0, t[1], t[2]>> \in Cell
    BY OwnCell DEF IInv, TypeOK, BlockTypeOK
  <1>3. ElementOfB(t[1], t[2], k0[t]) \in Nat \cup {Zero}
    BY <1>2 DEF ElementOfB, Thread, Index
  <1>4. TypeOK'
    BY <1>1, <1>2, <1>3 DEF TypeOK, BlockTypeOK, Labels
  <1>5. OnePhase'
    BY <1>1, <1>2 DEF IInv, OnePhase, Loading, Using, Ending
  <1>6. ASSUME NEW u \in Thread
        PROVE  /\ u # t => Bs'[<<0, u[1], u[2]>>] = Bs[<<0, u[1], u[2]>>]
               /\ Bs'[<<0, t[1], t[2]>>] = ElementOfB(t[1], t[2], k0[t])
    <2> DEFINE mine == <<0, t[1], t[2]>>
               yours == <<0, u[1], u[2]>>
    <2>1. /\ mine \in Cell /\ yours \in Cell
          /\ u # t => mine # yours
      BY OwnCell
    <2>2. Bs \in [Cell -> Nat \cup {Zero, Absent}]
      BY <1>2 DEF TypeOK, BlockTypeOK
    <2>3. Bs' = [Bs EXCEPT ![mine] = ElementOfB(t[1], t[2], k0[t])]
      BY <1>1
    <2> HIDE DEF mine, yours
    <2>4. /\ u # t => Bs'[yours] = Bs[yours]
          /\ Bs'[mine] = ElementOfB(t[1], t[2], k0[t])
      BY <2>1, <2>2, <2>3
    <2> QED
      BY <2>4 DEF mine, yours
  <1>7. TilesLoaded'
    BY <1>1, <1>2, <1>6 DEF IInv, TilesLoaded, Using, ElementOfA, ElementOfB
  <1>8. \A u \in Thread : Terms(u)' = Terms(u)
    BY <1>1, <1>2 DEF Terms, Loading, Using, Clip
  <1>9. SumsSoFar'
    BY <1>1, <1>2, <1>8 DEF IInv, SumsSoFar, Loading, Using, InBounds, DotProduct
  <1>10. ResultIsDotProduct'
    BY <1>1, <1>2 DEF IInv, ResultIsDotProduct, InBounds, DotProduct
  <1> QED
    BY <1>4, <1>5, <1>7, <1>9, <1>10 DEF IInv

(* When all threads have come to the first barrier every cell holds the    *)
(* current tile; when all have come to the second, every sum has it.       *)
LEMMA SyncThreadsIInv == ASSUME IInv, SyncThreads PROVE IInv'
  <1> USE GemmAssumption
  <1>1. /\ \A t \in Thread : pc[t] \in {"loaded", "used"}
        /\ pc' = [t \in Thread |-> IF pc[t] = "loaded" THEN "mul" ELSE NextTile(k0[t])]
        /\ k0' = [t \in Thread |-> IF pc[t] = "loaded" THEN k0[t] ELSE k0[t] + kTile]
        /\ kk' = [t \in Thread |-> 0]
        /\ UNCHANGED <<shape, As, Bs, acc, C>>
    BY DEF SyncThreads
  <1>2. /\ TypeOK /\ k0 \in [Thread -> Nat] /\ shape.K \in Nat
        /\ \A t, u \in Thread : k0[t] = k0[u]
    BY DEF IInv, TypeOK, BlockTypeOK, OnePhase
  <1>3. TypeOK'
    BY <1>1, <1>2 DEF TypeOK, BlockTypeOK, NextTile, Labels
  <1>4. CASE \A t \in Thread : pc[t] = "loaded"
    <2>1. /\ \A t \in Thread : pc'[t] = "mul" /\ k0'[t] = k0[t] /\ kk'[t] = 0
      BY <1>1, <1>4
    <2>2. OnePhase'
      BY <1>2, <2>1 DEF OnePhase, Using
    <2>3. TilesLoaded'
      BY <1>1, <1>4, <2>1 DEF IInv, TilesLoaded, Using, ElementOfA, ElementOfB
    <2>4. \A t \in Thread : k0[t] < shape.K
      BY <1>4 DEF IInv, SumsSoFar, Loading
    <2>5. \A t \in Thread : Terms(t) = k0[t] /\ Terms(t)' = k0[t]
      BY <1>1, <1>2, <1>4, <2>1, <2>4 DEF Terms, Loading, Using, Clip
    <2>6. SumsSoFar'
      BY <1>1, <1>2, <1>4, <2>1, <2>4, <2>5
      DEF IInv, SumsSoFar, Loading, Using, InBounds, DotProduct
    <2>7. ResultIsDotProduct'
      BY <1>1, <1>4, <2>1 DEF IInv, ResultIsDotProduct, InBounds, DotProduct
    <2> QED
      BY <1>3, <2>2, <2>3, <2>6, <2>7 DEF IInv
  <1>5. CASE \A t \in Thread : pc[t] = "used"
    <2>1. \A t \in Thread : /\ pc'[t] = NextTile(k0[t]) /\ pc'[t] \in {"loadA", "store"}
                            /\ k0'[t] = k0[t] + kTile
      BY <1>1, <1>5 DEF NextTile
    <2>2. OnePhase'
      BY <1>2, <2>1 DEF OnePhase, Loading, Ending, NextTile
    <2>3. TilesLoaded'
      BY <2>1 DEF TilesLoaded, Using
    <2>4. \A t \in Thread : kk[t] = kTile
      BY <1>5 DEF IInv, SumsSoFar
    <2>5. \A t \in Thread : Terms(t)' = Terms(t) /\ (pc'[t] = "loadA" => k0'[t] < shape.K)
      BY <1>1, <1>2, <1>5, <2>1, <2>4 DEF Terms, Loading, Using, Clip, NextTile
    <2>6. SumsSoFar'
      BY <1>1, <1>2, <2>1, <2>5
      DEF IInv, SumsSoFar, Loading, Using, InBounds, DotProduct
    <2>7. ResultIsDotProduct'
      BY <1>1, <2>1 DEF IInv, ResultIsDotProduct, InBounds, DotProduct
    <2> QED
      BY <1>3, <2>2, <2>3, <2>6, <2>7 DEF IInv
  <1> QED
    BY <1>1, <1>4, <1>5 DEF IInv, OnePhase, Loading, Using, Ending

(* One iteration of the inner loop adds the next product, if there is one. *)
LEMMA AccumulateIInv == ASSUME IInv, NEW t \in Thread, Accumulate(t) PROVE IInv'
  <1> USE GemmAssumption
  <1> DEFINE row == <<t[1], kk[t]>>
             col == <<kk[t], t[2]>>
             a == As[<<0, t[1], kk[t]>>]
             b == Bs[<<0, kk[t], t[2]>>]
             k == k0[t] + kk[t]
  <1>1. /\ pc[t] = "mul"
        /\ acc' = [acc EXCEPT ![t] = PlusProduct(@, a, b)]
        /\ pc' = [pc EXCEPT ![t] = IF kk[t] + 1 < kTile THEN "mul" ELSE "used"]
        /\ kk' = [kk EXCEPT ![t] = @ + 1]
        /\ UNCHANGED <<shape, As, Bs, k0, C>>
    BY DEF Accumulate, MulAdd, AdvanceInner
  <1>2. /\ TypeOK /\ pc \in [Thread -> Labels] /\ k0 \in [Thread -> Nat]
        /\ kk \in [Thread -> 0..kTile] /\ acc \in [Thread -> Seq(Nat \X Nat)]
        /\ shape.K \in Nat /\ shape.M \in Nat /\ shape.N \in Nat
        /\ kTile \in Nat \ {0}
    BY DEF IInv, TypeOK, BlockTypeOK
  <1>3. /\ kk[t] \in Index /\ t[1] \in Index /\ t[2] \in Index /\ k \in Nat
        /\ k0[t] < shape.K
    <2>1. kk[t] < kTile /\ k0[t] < shape.K
      BY <1>1 DEF IInv, SumsSoFar, Using
    <2>2. kk[t] \in 0..kTile /\ k0[t] \in Nat
      BY <1>2
    <2>3. kk[t] \in Index
      BY <1>2, <2>1, <2>2 DEF Index
    <2>4. t[1] \in Index /\ t[2] \in Index
      BY OwnCell
    <2>5. k \in Nat
      BY <2>2
    <2> QED
      BY <2>1, <2>3, <2>4, <2>5
  <1>4. \A u \in Thread : pc[u] \in Using /\ k0[u] = k0[t]
    BY <1>1 DEF IInv, OnePhase, Loading, Using, Ending
  <1>5. a = ElementOfA(t[1], kk[t], k0[t])
    <2>1. row \in Thread /\ row[1] = t[1] /\ row[2] = kk[t]
      BY <1>3 DEF Thread
    <2>2. As[<<0, row[1], row[2]>>] = ElementOfA(row[1], row[2], k0[row])
      BY <1>4, <2>1 DEF IInv, TilesLoaded
    <2> QED
      BY <1>4, <2>1, <2>2
  <1>6. b = ElementOfB(kk[t], t[2], k0[t])
    <2>1. col \in Thread /\ col[1] = kk[t] /\ col[2] = t[2]
      BY <1>3 DEF Thread
    <2>2. Bs[<<0, col[1], col[2]>>] = ElementOfB(col[1], col[2], k0[col])
      BY <1>4, <2>1 DEF IInv, TilesLoaded
    <2> QED
      BY <1>4, <2>1, <2>2
  <1> HIDE DEF row, col, a, b
  <1>7. /\ acc'[t] = PlusProduct(acc[t], a, b)
        /\ PlusProduct(acc[t], a, b) \in Seq(Nat \X Nat)
    <2>1. a \in Nat \cup {Zero} /\ b \in Nat \cup {Zero}
      BY <1>2, <1>3, <1>5, <1>6 DEF ElementOfA, ElementOfB, Index
    <2>2. CASE a = Zero \/ b = Zero
      BY <1>1, <1>2, <2>2 DEF PlusProduct
    <2>3. CASE a \in Nat /\ b \in Nat
      <3>1. <<a, b>> \in Nat \X Nat
        BY <2>3
      <3>2. Append(acc[t], <<a, b>>) \in Seq(Nat \X Nat)
        BY <1>2, <3>1
      <3> QED
        BY <1>1, <1>2, <2>3, <3>2 DEF PlusProduct
    <2> QED
      BY <2>1, <2>2, <2>3
  <1>8. TypeOK'
    <2>1. acc' \in [Thread -> Seq(Nat \X Nat)]
      BY <1>1, <1>2, <1>7
    <2>2. kk' \in [Thread -> 0..kTile]
      <3>1. kk[t] + 1 \in 0..kTile
        BY <1>2, <1>3 DEF Index
      <3> QED
        BY ONLY <1>1, <1>2, <3>1
    <2> QED
      BY <1>1, <1>2, <2>1, <2>2 DEF TypeOK, BlockTypeOK, Labels
  <1>9. OnePhase'
    BY <1>1, <1>2, <1>4 DEF IInv, OnePhase, Using
  <1>10. TilesLoaded'
    BY <1>1, <1>2, <1>4 DEF IInv, TilesLoaded, Using, ElementOfA, ElementOfB
  <1>11. InBounds(t) => acc'[t] = DotProduct(Clip(k + 1))
    <2> SUFFICES ASSUME InBounds(t) PROVE acc'[t] = DotProduct(Clip(k + 1))
      OBVIOUS
    <2>1. acc[t] = DotProduct(Clip(k))
      BY <1>1, <1>4 DEF IInv, SumsSoFar, Terms, Using, Loading
    <2>2. CASE k < shape.K
      <3>1. a = k /\ b = k
        BY <1>5, <1>6, <2>2 DEF ElementOfA, ElementOfB, InBounds
      <3>2. acc'[t] = Append(acc[t], <<k, k>>)
        BY <1>3, <1>7, <3>1 DEF PlusProduct
      <3>3. Clip(k) = k /\ Clip(k + 1) = k + 1
        BY <1>2, <1>3, <2>2 DEF Clip
      <3> QED
        BY <1>3, <2>1, <3>2, <3>3, DotProductStep
    <2>3. CASE ~(k < shape.K)
      <3>1. a = Zero
        BY <1>5, <2>3 DEF ElementOfA
      <3>2. Clip(k) = Clip(k + 1)
        BY <1>2, <1>3, <2>3 DEF Clip
      <3> QED
        BY <1>7, <2>1, <3>1, <3>2 DEF PlusProduct
    <2> QED
      BY <2>2, <2>3
  <1>12. SumsSoFar'
    <2> SUFFICES ASSUME NEW u \in Thread
                 PROVE  /\ pc'[u] \in Loading \cup Using => k0'[u] < shape'.K
                        /\ pc'[u] = "mul" => kk'[u] < kTile
                        /\ pc'[u] = "used" => kk'[u] = kTile
                        /\ InBounds(u)' => acc'[u] = DotProduct(Terms(u))'
      BY DEF SumsSoFar
    <2>1. CASE u = t
      <3>1. /\ pc'[t] = IF kk[t] + 1 < kTile THEN "mul" ELSE "used"
            /\ kk'[t] = kk[t] + 1 /\ k0'[t] = k0[t] /\ shape' = shape
        BY <1>1, <1>2
      <3>2. Terms(t)' = Clip(k + 1)
        BY <1>2, <1>3, <3>1 DEF Terms, Loading, Using, Clip
      <3>3. InBounds(t)' => acc'[t] = DotProduct(Terms(t))'
        BY <1>11, <3>1, <3>2 DEF InBounds, DotProduct
      <3> QED
        BY <1>2, <1>3, <2>1, <3>1, <3>3 DEF Index
    <2>2. CASE u # t
      <3>1. /\ pc'[u] = pc[u] /\ kk'[u] = kk[u] /\ k0'[u] = k0[u]
            /\ acc'[u] = acc[u] /\ shape' = shape
        BY <1>1, <1>2, <2>2
      <3>2. Terms(u)' = Terms(u)
        BY <3>1 DEF Terms, Clip
      <3> QED
        BY <3>1, <3>2 DEF IInv, SumsSoFar, InBounds, DotProduct
    <2> QED
      BY <2>1, <2>2
  <1>13. ResultIsDotProduct'
    BY <1>1, <1>2 DEF IInv, ResultIsDotProduct, InBounds, DotProduct
  <1> QED
    BY <1>8, <1>9, <1>10, <1>12, <1>13 DEF IInv

(* What is stored is the complete sum.                                     *)
LEMMA StoreIInv == ASSUME IInv, NEW t \in Thread, Store(t) PROVE IInv'
  <1> USE GemmAssumption
  <1>1. /\ pc[t] = "store" /\ pc' = [pc EXCEPT ![t] = "done"]
        /\ C' = IF InBounds(t) THEN [C EXCEPT ![t] = acc[t]] ELSE C
        /\ UNCHANGED <<shape, As, Bs, k0, kk, acc>>
    BY DEF Store
  <1>2. /\ TypeOK /\ pc \in [Thread -> Labels]
        /\ acc \in [Thread -> Seq(Nat \X Nat)]
        /\ C \in [Thread -> Seq(Nat \X Nat) \cup {Absent}]
    BY DEF IInv, TypeOK, BlockTypeOK
  <1>3. TypeOK'
    BY <1>1, <1>2 DEF TypeOK, BlockTypeOK, Labels
  <1>4. \A u \in Thread : pc[u] \in Ending /\ pc'[u] \in Ending
    BY <1>1, <1>2 DEF IInv, OnePhase, Loading, Using, Ending
  <1>5. OnePhase'
    BY <1>1, <1>4 DEF IInv, OnePhase
  <1>6. TilesLoaded'
    BY <1>4 DEF TilesLoaded, Using, Ending
  <1>7. \A u \in Thread : Terms(u) = shape.K /\ Terms(u)' = shape.K
    BY <1>1, <1>4 DEF Terms, Loading, Using, Ending
  <1>8. SumsSoFar'
    BY <1>1, <1>4, <1>7 DEF IInv, SumsSoFar, Loading, Using, Ending, InBounds, DotProduct
  <1>9. InBounds(t) => acc[t] = DotProduct(shape.K) /\ acc[t] # Absent
    <2>1. InBounds(t) => acc[t] = DotProduct(shape.K)
      BY <1>7 DEF IInv, SumsSoFar
    <2> QED
      BY <1>2, <2>1
  <1>10. ResultIsDotProduct'
    BY <1>1, <1>2, <1>9 DEF IInv, ResultIsDotProduct, InBounds, DotProduct
  <1> QED
    BY <1>3, <1>5, <1>6, <1>8, <1>10 DEF IInv

LEMMA NextIInv == IInv /\ [Next]_vars => IInv'
  <1> SUFFICES ASSUME IInv, [Next]_vars PROVE IInv'
    OBVIOUS
  <1>1. CASE SyncThreads
    BY <1>1, SyncThreadsIInv
  <1>2. ASSUME NEW t \in Thread, Step(t) PROVE IInv'
    BY <1>2, LoadAIInv, LoadBIInv, AccumulateIInv, StoreIInv DEF Step
  <1>3. CASE UNCHANGED vars
    BY <1>3 DEF vars, IInv, TypeOK, BlockTypeOK, OnePhase, TilesLoaded, SumsSoFar,
                ResultIsDotProduct, Terms, Clip, InBounds, DotProduct, ElementOfA,
                ElementOfB
  <1> QED
    BY <1>1, <1>2, <1>3 DEF Next, Finished

LEMMA InvariantIInv == Spec => []IInv
  BY InitIInv, NextIInv, PTL DEF Spec

-----------------------------------------------------------------------------

(* No sum ever takes in a cell of shared memory that was not written.      *)
THEOREM TypeCorrect == Spec => []TypeOK
  <1>1. IInv => TypeOK
    BY DEF IInv
  <1> QED
    BY <1>1, InvariantIInv, PTL

(* Each element of C is the sum of its K products, whatever the width of   *)
(* the tile, the shape of the matrices and the timing of the threads.      *)
(* (gemm.cu 102-159)                                                       *)
THEOREM ProductCorrect == Spec => []ResultIsDotProduct
  <1>1. IInv => ResultIsDotProduct
    BY DEF IInv
  <1> QED
    BY <1>1, InvariantIInv, PTL

(* The two barriers exclude every data race.  (gemm.cu 129-151)            *)
THEOREM RaceFree == Spec => []NoDataRace
  <1>1. IInv => NoDataRace
    <2> SUFFICES ASSUME IInv, NEW t \in Thread, NEW u \in Thread, t # u
                 PROVE  Writes(t) \cap (Reads(u) \cup Writes(u)) = {}
      BY DEF NoDataRace
    <2>1. CASE pc[t] \in {"loadA", "loadB"}
      <3>1. Reads(u) = {}
        BY <2>1 DEF IInv, OnePhase, Loading, Using, Ending, Reads
      <3>2. <<"As", t[1], t[2]>> # <<"As", u[1], u[2]>>
        BY DEF Thread
      <3>3. <<"Bs", t[1], t[2]>> # <<"Bs", u[1], u[2]>>
        BY DEF Thread
      <3>4. \A r, c, x, y : <<"As", r, c>> # <<"Bs", x, y>>
        OBVIOUS
      <3>5. \A x \in Writes(t) : x \notin Writes(u)
        BY <2>1, <3>2, <3>3, <3>4 DEF Writes
      <3> QED
        BY <3>1, <3>5
    <2>2. CASE pc[t] \notin {"loadA", "loadB"}
      BY <2>2 DEF Writes
    <2> QED
      BY <2>1, <2>2
  <1> QED
    BY <1>1, InvariantIInv, PTL

-----------------------------------------------------------------------------
(* gemm_optimized_kernel.                                                  *)

LEMMA OptAssumption ==
  /\ kTile \in Nat \ {0}
  /\ Shapes \subseteq [M : Nat \ {0}, N : Nat \ {0}, K : Nat \ {0}]
  /\ Zero \notin Nat /\ Absent \notin Nat /\ Zero # Absent
  /\ Absent \notin Seq(Nat \X Nat)
BY GemmAssumption DEF GemmAssumption

OptLabels == {"prefetchA", "prefetchB", "loadA", "loadB", "sync", "mul", "store", "done"}

OptTypeOK == Opt!BlockTypeOK(Opt!Cell, OptLabels) /\ cur \in [Opt!Thread -> {0, 1}]

AtMostTwoTiles == \A z \in Shapes : z.K <= 2 * kTile

SecondTile == kTile < shape.K

(* The thread's own cells of a bank hold the tile that starts at base.     *)
HoldsA(t, bank, base) == As[<<bank, t[1], t[2]>>] = Opt!ElementOfA(t[1], t[2], base)
HoldsB(t, bank, base) == Bs[<<bank, t[1], t[2]>>] = Opt!ElementOfB(t[1], t[2], base)

(* A thread on its way to the first barrier.                               *)
Before(t) ==
  /\ pc[t] \in {"prefetchA", "prefetchB", "loadA", "loadB", "sync"}
  /\ k0[t] = 0 /\ cur[t] = 0 /\ acc[t] = <<>> /\ C[t] = Absent
  /\ pc[t] # "prefetchA" => HoldsA(t, 0, 0)
  /\ pc[t] \notin {"prefetchA", "prefetchB"} => HoldsB(t, 0, 0)
  /\ pc[t] \in {"loadA", "loadB"} => SecondTile
  /\ pc[t] \in {"loadB", "sync"} /\ SecondTile => HoldsA(t, 1, kTile)
  /\ pc[t] = "sync" /\ SecondTile => HoldsB(t, 1, kTile)

(* How much of the dot product a thread that passed it has added up.       *)
OptTerms(t) == IF pc[t] = "mul" THEN Clip(k0[t] + kk[t])
               ELSE IF pc[t] = "sync" THEN kTile ELSE shape.K

(* A thread that has passed the first barrier.                             *)
After(t) ==
  /\ \/ pc[t] = "mul" /\ k0[t] = 0 /\ cur[t] = 0 /\ kk[t] < kTile
     \/ pc[t] = "mul" /\ k0[t] = kTile /\ cur[t] = 1 /\ kk[t] < kTile /\ SecondTile
     \/ pc[t] = "sync" /\ k0[t] = kTile /\ cur[t] = 1 /\ SecondTile
     \/ pc[t] \in {"store", "done"}
  /\ HoldsA(t, 0, 0) /\ HoldsB(t, 0, 0)
  /\ SecondTile => HoldsA(t, 1, kTile) /\ HoldsB(t, 1, kTile)
  /\ Opt!InBounds(t) => acc[t] = Opt!DotProduct(OptTerms(t))

OptIInv == /\ OptTypeOK
           /\ (\A t \in Opt!Thread : Before(t)) \/ (\A t \in Opt!Thread : After(t))
           /\ Opt!ResultIsDotProduct

-----------------------------------------------------------------------------
LEMMA OptDotProductStep ==
  ASSUME NEW n \in Nat
  PROVE  Append(Opt!DotProduct(n), <<n, n>>) = Opt!DotProduct(n + 1)
BY DotProductStep DEF DotProduct, Opt!DotProduct

(* A thread's own cells are nobody else's, in either bank.                 *)
LEMMA OwnBankCell ==
  ASSUME NEW t \in Opt!Thread, NEW u \in Opt!Thread, NEW b \in Opt!Bank, NEW c \in Opt!Bank
  PROVE  /\ t[1] \in Opt!Index /\ t[2] \in Opt!Index
         /\ <<b, t[1], t[2]>> \in Opt!Cell
         /\ b # c \/ t # u => <<b, t[1], t[2]>> # <<c, u[1], u[2]>>
<1>1. /\ t[1] \in Opt!Index /\ t[2] \in Opt!Index /\ t = <<t[1], t[2]>>
      /\ u = <<u[1], u[2]>>
  BY DEF Opt!Thread
<1>2. <<b, t[1], t[2]>> \in Opt!Cell
  BY <1>1 DEF Opt!Cell
<1>3. ASSUME <<b, t[1], t[2]>> = <<c, u[1], u[2]>> PROVE b = c /\ t = u
  <2>1. b = c /\ t[1] = u[1] /\ t[2] = u[2]
    BY <1>3
  <2> QED BY <2>1, <1>1
<1> QED BY <1>1, <1>2, <1>3

Value == Nat \cup {Zero, Absent}

(* g is f after thread t has loaded v into its own cell of bank b.         *)
Loaded(g, f, t, b, v) == g = [f EXCEPT ![<<b, t[1], t[2]>>] = v]

(* A load of one bank changes the thread's own cell of that bank, alone.   *)
LEMMA WriteOwnCell ==
  ASSUME NEW t \in Opt!Thread, NEW u \in Opt!Thread, NEW b \in Opt!Bank, NEW c \in Opt!Bank,
         NEW f \in [Opt!Cell -> Value], NEW v \in Value, NEW g,
         Loaded(g, f, t, b, v)
  PROVE  /\ g \in [Opt!Cell -> Value]
         /\ g[<<b, t[1], t[2]>>] = v
         /\ b # c \/ t # u => g[<<c, u[1], u[2]>>] = f[<<c, u[1], u[2]>>]
<1> DEFINE mine == <<b, t[1], t[2]>>
           yours == <<c, u[1], u[2]>>
<1>1. mine \in Opt!Cell /\ yours \in Opt!Cell /\ (b # c \/ t # u => mine # yours)
  BY OwnBankCell
<1>2. g = [f EXCEPT ![mine] = v]
  BY DEF Loaded
<1> HIDE DEF mine, yours
<1>3. g \in [Opt!Cell -> Value] /\ g[mine] = v /\ (b # c \/ t # u => g[yours] = f[yours])
  BY <1>1, <1>2
<1> QED BY <1>3 DEF mine, yours

(* What is loaded is an index along K, or padding.                         *)
LEMMA ElementType ==
  ASSUME NEW t \in Opt!Thread, NEW base \in Nat
  PROVE  /\ Opt!ElementOfA(t[1], t[2], base) \in Value
         /\ Opt!ElementOfB(t[1], t[2], base) \in Value
<1>1. t[1] \in Nat /\ t[2] \in Nat
  BY OptAssumption DEF Opt!Thread, Opt!Index
<1> QED BY <1>1 DEF Opt!ElementOfA, Opt!ElementOfB, Value

LEMMA OptInitIInv == Opt!Init => OptIInv
<1> SUFFICES ASSUME Opt!Init PROVE OptIInv
  OBVIOUS
<1> USE OptAssumption
<1>1. \A t \in Opt!Thread : /\ pc[t] = "prefetchA" /\ k0[t] = 0 /\ cur[t] = 0
                            /\ acc[t] = <<>> /\ C[t] = Absent
  BY DEF Opt!Init, Opt!InitBlock, Opt!Entry
<1>2. OptTypeOK
  BY DEF Opt!Init, Opt!InitBlock, Opt!Entry, OptTypeOK, Opt!BlockTypeOK, OptLabels
<1>3. \A t \in Opt!Thread : Before(t)
  BY <1>1 DEF Before
<1>4. Opt!ResultIsDotProduct
  BY <1>1 DEF Opt!ResultIsDotProduct
<1> QED BY <1>2, <1>3, <1>4 DEF OptIInv

(* Nobody loads once the threads have passed the first barrier.            *)
LEMMA LoadersAreBefore ==
  ASSUME OptIInv, NEW t \in Opt!Thread,
         pc[t] \in {"prefetchA", "prefetchB", "loadA", "loadB"}
  PROVE  \A u \in Opt!Thread : Before(u)
BY DEF OptIInv, After

LEMMA OptPrefetchAIInv ==
  ASSUME OptIInv, NEW t \in Opt!Thread, Opt!PrefetchA(t)
  PROVE OptIInv'
<1> USE OptAssumption
<1>1. /\ pc[t] = "prefetchA" /\ pc' = [pc EXCEPT ![t] = "prefetchB"]
      /\ As' = [As EXCEPT ![<<0, t[1], t[2]>>] = Opt!ElementOfA(t[1], t[2], 0)]
      /\ UNCHANGED <<shape, Bs, k0, kk, acc, C, cur>>
  BY DEF Opt!PrefetchA
<1>2. OptTypeOK /\ \A u \in Opt!Thread : Before(u)
  BY <1>1, LoadersAreBefore DEF OptIInv
<1>3. /\ As \in [Opt!Cell -> Value] /\ pc \in [Opt!Thread -> OptLabels]
      /\ Opt!ElementOfA(t[1], t[2], 0) \in Value
  BY <1>2, ElementType DEF OptTypeOK, Opt!BlockTypeOK, Value
<1>4. /\ As' \in [Opt!Cell -> Value]
      /\ As'[<<0, t[1], t[2]>>] = Opt!ElementOfA(t[1], t[2], 0)
      /\ \A u \in Opt!Thread : u # t => \A c \in Opt!Bank :
           As'[<<c, u[1], u[2]>>] = As[<<c, u[1], u[2]>>]
  <2>0. 0 \in Opt!Bank /\ t \in Opt!Thread
    BY DEF Opt!Bank
  <2>1. Loaded(As', As, t, 0, Opt!ElementOfA(t[1], t[2], 0))
    BY <1>1 DEF Loaded
  <2>2. ASSUME NEW u \in Opt!Thread, NEW c \in Opt!Bank
        PROVE  /\ As' \in [Opt!Cell -> Value]
               /\ As'[<<0, t[1], t[2]>>] = Opt!ElementOfA(t[1], t[2], 0)
               /\ 0 # c \/ t # u => As'[<<c, u[1], u[2]>>] = As[<<c, u[1], u[2]>>]
    BY ONLY <2>1, <1>3, <2>0, WriteOwnCell
  <2> QED BY <2>2, <2>0
<1>5. OptTypeOK'
  BY <1>1, <1>2, <1>3, <1>4 DEF OptTypeOK, Opt!BlockTypeOK, OptLabels, Value
<1>6. ASSUME NEW u \in Opt!Thread PROVE Before(u)'
  BY <1>1, <1>2, <1>3, <1>4, SMTT(20)
  DEF Before, HoldsA, HoldsB, SecondTile, Opt!ElementOfA, Opt!ElementOfB
<1>7. Opt!ResultIsDotProduct'
  BY <1>1, <1>3, <1>6 DEF Before, Opt!ResultIsDotProduct
<1> QED BY <1>5, <1>6, <1>7 DEF OptIInv

LEMMA OptPrefetchBIInv ==
  ASSUME OptIInv, NEW t \in Opt!Thread, Opt!PrefetchB(t)
  PROVE OptIInv'
<1> USE OptAssumption
<1>1. /\ pc[t] = "prefetchB"
      /\ pc' = [pc EXCEPT ![t] = IF SecondTile THEN "loadA" ELSE "sync"]
      /\ Bs' = [Bs EXCEPT ![<<0, t[1], t[2]>>] = Opt!ElementOfB(t[1], t[2], 0)]
      /\ UNCHANGED <<shape, As, k0, kk, acc, C, cur>>
  <2>1. Opt!LoopHead(0) = IF SecondTile THEN "loadA" ELSE "sync"
    <3>1. 0 + kTile = kTile
      OBVIOUS
    <3> QED BY <3>1 DEF Opt!LoopHead, SecondTile
  <2> QED BY <2>1 DEF Opt!PrefetchB
<1>2. OptTypeOK /\ \A u \in Opt!Thread : Before(u)
  BY <1>1, LoadersAreBefore DEF OptIInv
<1>3. /\ Bs \in [Opt!Cell -> Value] /\ pc \in [Opt!Thread -> OptLabels]
      /\ Opt!ElementOfB(t[1], t[2], 0) \in Value
  BY <1>2, ElementType DEF OptTypeOK, Opt!BlockTypeOK, Value
<1>4. /\ Bs' \in [Opt!Cell -> Value]
      /\ Bs'[<<0, t[1], t[2]>>] = Opt!ElementOfB(t[1], t[2], 0)
      /\ \A u \in Opt!Thread : u # t => \A c \in Opt!Bank :
           Bs'[<<c, u[1], u[2]>>] = Bs[<<c, u[1], u[2]>>]
  <2>0. 0 \in Opt!Bank /\ t \in Opt!Thread
    BY DEF Opt!Bank
  <2>1. Loaded(Bs', Bs, t, 0, Opt!ElementOfB(t[1], t[2], 0))
    BY <1>1 DEF Loaded
  <2>2. ASSUME NEW u \in Opt!Thread, NEW c \in Opt!Bank
        PROVE  /\ Bs' \in [Opt!Cell -> Value]
               /\ Bs'[<<0, t[1], t[2]>>] = Opt!ElementOfB(t[1], t[2], 0)
               /\ 0 # c \/ t # u => Bs'[<<c, u[1], u[2]>>] = Bs[<<c, u[1], u[2]>>]
    BY ONLY <2>1, <1>3, <2>0, WriteOwnCell
  <2> QED BY <2>2, <2>0
<1>5. OptTypeOK'
  BY <1>1, <1>2, <1>3, <1>4 DEF OptTypeOK, Opt!BlockTypeOK, OptLabels, Value
<1>6. ASSUME NEW u \in Opt!Thread PROVE Before(u)'
  BY <1>1, <1>2, <1>3, <1>4, SMTT(20)
  DEF Before, HoldsA, HoldsB, SecondTile, Opt!ElementOfA, Opt!ElementOfB
<1>7. Opt!ResultIsDotProduct'
  BY <1>1, <1>3, <1>6 DEF Before, Opt!ResultIsDotProduct
<1> QED BY <1>5, <1>6, <1>7 DEF OptIInv

LEMMA OptLoadAIInv == ASSUME OptIInv, NEW t \in Opt!Thread, Opt!LoadA(t) PROVE OptIInv'
<1> USE OptAssumption
<1>1. OptTypeOK /\ (\A u \in Opt!Thread : Before(u)) /\ pc[t] = "loadA"
  BY LoadersAreBefore DEF OptIInv, Opt!LoadA
<1>2. /\ pc' = [pc EXCEPT ![t] = "loadB"]
      /\ As' = [As EXCEPT ![<<1, t[1], t[2]>>] = Opt!ElementOfA(t[1], t[2], kTile)]
      /\ UNCHANGED <<shape, Bs, k0, kk, acc, C, cur>>
  <2>1. Opt!Nxt(t) = 1 /\ Opt!NextBase(t) = kTile
    BY <1>1 DEF Before, Opt!Nxt, Opt!NextBase
  <2> QED BY <2>1 DEF Opt!LoadA
<1>3. /\ As \in [Opt!Cell -> Value] /\ pc \in [Opt!Thread -> OptLabels]
      /\ Opt!ElementOfA(t[1], t[2], kTile) \in Value
  BY <1>1, ElementType DEF OptTypeOK, Opt!BlockTypeOK, Value
<1>4. /\ As' \in [Opt!Cell -> Value]
      /\ As'[<<1, t[1], t[2]>>] = Opt!ElementOfA(t[1], t[2], kTile)
      /\ As'[<<0, t[1], t[2]>>] = As[<<0, t[1], t[2]>>]
      /\ \A u \in Opt!Thread : u # t => \A c \in Opt!Bank :
           As'[<<c, u[1], u[2]>>] = As[<<c, u[1], u[2]>>]
  <2>0. 0 \in Opt!Bank /\ 1 \in Opt!Bank /\ t \in Opt!Thread
    BY DEF Opt!Bank
  <2>1. Loaded(As', As, t, 1, Opt!ElementOfA(t[1], t[2], kTile))
    BY <1>2 DEF Loaded
  <2>2. ASSUME NEW u \in Opt!Thread, NEW c \in Opt!Bank
        PROVE  /\ As' \in [Opt!Cell -> Value]
               /\ As'[<<1, t[1], t[2]>>] = Opt!ElementOfA(t[1], t[2], kTile)
               /\ 1 # c \/ t # u => As'[<<c, u[1], u[2]>>] = As[<<c, u[1], u[2]>>]
    BY ONLY <2>1, <1>3, <2>0, WriteOwnCell
  <2> QED BY <2>2, <2>0
<1>5. OptTypeOK'
  BY <1>1, <1>2, <1>3, <1>4 DEF OptTypeOK, Opt!BlockTypeOK, OptLabels, Value
<1>6. ASSUME NEW u \in Opt!Thread PROVE Before(u)'
  BY <1>1, <1>2, <1>3, <1>4, SMTT(20)
  DEF Before, HoldsA, HoldsB, SecondTile, Opt!ElementOfA, Opt!ElementOfB
<1>7. Opt!ResultIsDotProduct'
  BY <1>1, <1>2, <1>3, <1>6 DEF Before, Opt!ResultIsDotProduct
<1> QED BY <1>5, <1>6, <1>7 DEF OptIInv

LEMMA OptLoadBIInv == ASSUME OptIInv, NEW t \in Opt!Thread, Opt!LoadB(t) PROVE OptIInv'
<1> USE OptAssumption
<1>1. OptTypeOK /\ (\A u \in Opt!Thread : Before(u)) /\ pc[t] = "loadB"
  BY LoadersAreBefore DEF OptIInv, Opt!LoadB
<1>2. /\ pc' = [pc EXCEPT ![t] = "sync"]
      /\ Bs' = [Bs EXCEPT ![<<1, t[1], t[2]>>] = Opt!ElementOfB(t[1], t[2], kTile)]
      /\ UNCHANGED <<shape, As, k0, kk, acc, C, cur>>
  <2>1. Opt!Nxt(t) = 1 /\ Opt!NextBase(t) = kTile
    BY <1>1 DEF Before, Opt!Nxt, Opt!NextBase
  <2> QED BY <2>1 DEF Opt!LoadB
<1>3. /\ Bs \in [Opt!Cell -> Value] /\ pc \in [Opt!Thread -> OptLabels]
      /\ Opt!ElementOfB(t[1], t[2], kTile) \in Value
  BY <1>1, ElementType DEF OptTypeOK, Opt!BlockTypeOK, Value
<1>4. /\ Bs' \in [Opt!Cell -> Value]
      /\ Bs'[<<1, t[1], t[2]>>] = Opt!ElementOfB(t[1], t[2], kTile)
      /\ Bs'[<<0, t[1], t[2]>>] = Bs[<<0, t[1], t[2]>>]
      /\ \A u \in Opt!Thread : u # t => \A c \in Opt!Bank :
           Bs'[<<c, u[1], u[2]>>] = Bs[<<c, u[1], u[2]>>]
  <2>0. 0 \in Opt!Bank /\ 1 \in Opt!Bank /\ t \in Opt!Thread
    BY DEF Opt!Bank
  <2>1. Loaded(Bs', Bs, t, 1, Opt!ElementOfB(t[1], t[2], kTile))
    BY <1>2 DEF Loaded
  <2>2. ASSUME NEW u \in Opt!Thread, NEW c \in Opt!Bank
        PROVE  /\ Bs' \in [Opt!Cell -> Value]
               /\ Bs'[<<1, t[1], t[2]>>] = Opt!ElementOfB(t[1], t[2], kTile)
               /\ 1 # c \/ t # u => Bs'[<<c, u[1], u[2]>>] = Bs[<<c, u[1], u[2]>>]
    BY ONLY <2>1, <1>3, <2>0, WriteOwnCell
  <2> QED BY <2>2, <2>0
<1>5. OptTypeOK'
  BY <1>1, <1>2, <1>3, <1>4 DEF OptTypeOK, Opt!BlockTypeOK, OptLabels, Value
<1>6. ASSUME NEW u \in Opt!Thread PROVE Before(u)'
  BY <1>1, <1>2, <1>3, <1>4, SMTT(20)
  DEF Before, HoldsA, HoldsB, SecondTile, Opt!ElementOfA, Opt!ElementOfB
<1>7. Opt!ResultIsDotProduct'
  BY <1>1, <1>2, <1>3, <1>6 DEF Before, Opt!ResultIsDotProduct
<1> QED BY <1>5, <1>6, <1>7 DEF OptIInv

(* The barrier: before it was passed, all cells are loaded; when it is     *)
(* passed again, nothing is loaded any more.                               *)
LEMMA OptSyncThreadsIInv == ASSUME OptIInv, Opt!SyncThreads PROVE OptIInv'
<1> USE OptAssumption
<1>1. /\ \A t \in Opt!Thread : pc[t] = "sync"
      /\ \A t \in Opt!Thread : pc'[t] = "mul" /\ kk'[t] = 0
      /\ UNCHANGED <<shape, As, Bs, k0, acc, C, cur>>
  BY DEF Opt!SyncThreads
<1>2. OptTypeOK'
  BY DEF OptIInv, OptTypeOK, Opt!BlockTypeOK, Opt!SyncThreads, OptLabels
<1>3. shape.K \in Nat \ {0} /\ kTile \in Nat \ {0} /\ Opt!DotProduct(0) = <<>>
  BY DEF OptIInv, OptTypeOK, Opt!BlockTypeOK, Opt!DotProduct
<1>4. ASSUME NEW t \in Opt!Thread PROVE After(t)'
  <2>1. CASE \A u \in Opt!Thread : Before(u)
    <3>1. Before(t) /\ Clip(0) = 0
      BY <2>1, <1>3 DEF Clip
    <3>2. OptTerms(t)' = 0
      BY <1>1, <1>3, <3>1 DEF Before, OptTerms, Clip
    <3>3. Opt!DotProduct(OptTerms(t))' = <<>>
      BY <3>2, <1>3 DEF Opt!DotProduct
    <3> QED
      BY <1>1, <1>3, <3>1, <3>3
      DEF Before, After, HoldsA, HoldsB, SecondTile, Opt!ElementOfA, Opt!ElementOfB
  <2>2. CASE \A u \in Opt!Thread : After(u)
    <3>1. After(t) /\ pc[t] = "sync" /\ k0[t] = kTile /\ SecondTile
      BY <1>1, <2>2 DEF After
    <3>2. OptTerms(t)' = OptTerms(t)
      BY <1>1, <1>3, <3>1 DEF OptTerms, Clip, SecondTile
    <3>3. Opt!DotProduct(OptTerms(t))' = Opt!DotProduct(OptTerms(t))
      BY <3>2 DEF Opt!DotProduct
    <3> QED
      BY <1>1, <1>3, <3>1, <3>3
      DEF After, Opt!InBounds, HoldsA, HoldsB, SecondTile, Opt!ElementOfA, Opt!ElementOfB
  <2> QED BY <2>1, <2>2 DEF OptIInv
<1>5. Opt!ResultIsDotProduct'
  BY <1>1 DEF OptIInv, Opt!ResultIsDotProduct, Opt!InBounds, Opt!DotProduct
<1> QED BY <1>2, <1>4, <1>5 DEF OptIInv

(* The bank a thread computes on holds the tile it is at, in the cells of  *)
(* every thread.                                                           *)
LEMMA BankHoldsTile ==
  ASSUME OptIInv, NEW t \in Opt!Thread, pc[t] = "mul"
  PROVE  /\ \A u \in Opt!Thread : After(u)
         /\ kk[t] \in Opt!Index /\ k0[t] \in Nat
         /\ As[<<cur[t], t[1], kk[t]>>] = Opt!ElementOfA(t[1], kk[t], k0[t])
         /\ Bs[<<cur[t], kk[t], t[2]>>] = Opt!ElementOfB(kk[t], t[2], k0[t])
<1> USE OptAssumption
<1> DEFINE row == <<t[1], kk[t]>>
           col == <<kk[t], t[2]>>
<1>1. \A u \in Opt!Thread : After(u)
  BY DEF OptIInv, Before
<1>2. kk[t] < kTile /\ kk[t] \in 0..kTile /\ k0[t] \in Nat /\ kTile \in Nat
  BY <1>1 DEF OptIInv, OptTypeOK, Opt!BlockTypeOK, After
<1>3. kk[t] \in Opt!Index /\ t[1] \in Opt!Index /\ t[2] \in Opt!Index
  BY <1>2 DEF Opt!Thread, Opt!Index
<1>4. /\ row \in Opt!Thread /\ row[1] = t[1] /\ row[2] = kk[t]
      /\ col \in Opt!Thread /\ col[1] = kk[t] /\ col[2] = t[2]
  BY <1>3 DEF Opt!Thread
<1>5. \/ k0[t] = 0 /\ cur[t] = 0
      \/ k0[t] = kTile /\ cur[t] = 1 /\ SecondTile
  BY <1>1 DEF After
<1>6. HoldsA(row, cur[t], k0[t]) /\ HoldsB(col, cur[t], k0[t])
  BY <1>1, <1>4, <1>5 DEF After
<1> QED BY <1>1, <1>2, <1>3, <1>4, <1>6 DEF HoldsA, HoldsB

(* One iteration of the inner loop adds the next product, if there is one. *)
LEMMA OneMoreTerm ==
  ASSUME OptIInv, NEW t \in Opt!Thread, pc[t] = "mul", Opt!MulAdd(t, cur[t]), UNCHANGED shape
  PROVE  /\ acc' \in [Opt!Thread -> Seq(Nat \X Nat)]
         /\ \A u \in Opt!Thread : u # t => acc'[u] = acc[u]
         /\ Opt!InBounds(t) => acc'[t] = Opt!DotProduct(Clip(k0[t] + kk[t] + 1))
<1> USE Opt!GemmAssumption
<1> DEFINE a == As[<<cur[t], t[1], kk[t]>>]
           b == Bs[<<cur[t], kk[t], t[2]>>]
           k == k0[t] + kk[t]
<1>1. /\ a = Opt!ElementOfA(t[1], kk[t], k0[t]) /\ b = Opt!ElementOfB(kk[t], t[2], k0[t])
      /\ kk[t] \in Opt!Index /\ k0[t] \in Nat /\ After(t)
  BY BankHoldsTile
<1>2. /\ acc \in [Opt!Thread -> Seq(Nat \X Nat)] /\ shape.K \in Nat
      /\ acc' = [acc EXCEPT ![t] = Opt!PlusProduct(@, a, b)]
      /\ kk[t] \in Nat /\ k \in Nat
  BY <1>1 DEF OptIInv, OptTypeOK, Opt!BlockTypeOK, Opt!MulAdd, Opt!Index
<1> HIDE DEF a, b
<1>3. Opt!PlusProduct(acc[t], a, b) \in Seq(Nat \X Nat)
  <2>1. a \in Nat \cup {Zero} /\ b \in Nat \cup {Zero}
    BY <1>1, <1>2 DEF Opt!ElementOfA, Opt!ElementOfB
  <2>2. CASE a = Zero \/ b = Zero
    BY <1>2, <2>2 DEF Opt!PlusProduct
  <2>3. CASE a \in Nat /\ b \in Nat
    <3>1. <<a, b>> \in Nat \X Nat
      BY <2>3
    <3>2. Append(acc[t], <<a, b>>) \in Seq(Nat \X Nat)
      BY <1>2, <3>1
    <3> QED BY <1>2, <2>3, <3>2 DEF Opt!PlusProduct
  <2> QED BY <2>1, <2>2, <2>3
<1>4. /\ acc' \in [Opt!Thread -> Seq(Nat \X Nat)]
      /\ acc'[t] = Opt!PlusProduct(acc[t], a, b)
      /\ \A u \in Opt!Thread : u # t => acc'[u] = acc[u]
  BY <1>2, <1>3
<1>5. ASSUME Opt!InBounds(t) PROVE acc'[t] = Opt!DotProduct(Clip(k + 1))
  <2>1. acc[t] = Opt!DotProduct(Clip(k))
    BY <1>1, <1>5 DEF After, OptTerms
  <2>2. CASE k < shape.K
    <3>1. a = k /\ b = k
      BY <1>1, <1>5, <2>2 DEF Opt!ElementOfA, Opt!ElementOfB, Opt!InBounds
    <3>2. acc'[t] = Append(acc[t], <<k, k>>)
      BY <1>2, <1>4, <3>1 DEF Opt!PlusProduct
    <3>3. Clip(k) = k /\ Clip(k + 1) = k + 1
      BY <1>2, <2>2 DEF Clip
    <3> QED BY <1>2, <2>1, <3>2, <3>3, OptDotProductStep
  <2>3. CASE ~(k < shape.K)
    <3>1. a = Zero
      BY <1>1, <2>3 DEF Opt!ElementOfA
    <3>2. Clip(k) = Clip(k + 1)
      BY <1>2, <2>3 DEF Clip
    <3> QED BY <1>4, <2>1, <3>1, <3>2 DEF Opt!PlusProduct
  <2> QED BY <2>2, <2>3
<1> QED BY <1>4, <1>5

LEMMA OptAccumulateIInv ==
  ASSUME AtMostTwoTiles, OptIInv, NEW t \in Opt!Thread, Opt!Accumulate(t) PROVE OptIInv'
<1> USE OptAssumption
<1>1. /\ pc[t] = "mul" /\ Opt!MulAdd(t, cur[t]) /\ UNCHANGED <<shape, As, Bs, C>>
  BY DEF Opt!Accumulate
<1>2. /\ OptTypeOK /\ pc \in [Opt!Thread -> OptLabels] /\ k0 \in [Opt!Thread -> Nat]
      /\ kk \in [Opt!Thread -> 0..kTile] /\ cur \in [Opt!Thread -> {0, 1}]
      /\ kTile \in Nat \ {0} /\ shape.K \in Nat \ {0} /\ shape.K <= 2 * kTile
  BY DEF OptIInv, OptTypeOK, Opt!BlockTypeOK, AtMostTwoTiles
<1>3. /\ \A u \in Opt!Thread : After(u)
      /\ kk[t] \in Nat /\ kk[t] < kTile /\ k0[t] \in Nat
  <2>1. (\A u \in Opt!Thread : After(u)) /\ kk[t] \in Opt!Index /\ k0[t] \in Nat
    BY <1>1, BankHoldsTile
  <2> QED BY <1>2, <2>1 DEF Opt!Index
<1>4. /\ acc' \in [Opt!Thread -> Seq(Nat \X Nat)]
      /\ \A u \in Opt!Thread : u # t => acc'[u] = acc[u]
      /\ Opt!InBounds(t) => acc'[t] = Opt!DotProduct(Clip(k0[t] + kk[t] + 1))
  BY <1>1, OneMoreTerm
<1>5. \/ /\ kk[t] + 1 < kTile /\ kk' = [kk EXCEPT ![t] = kk[t] + 1]
         /\ UNCHANGED <<pc, k0, cur>>
      \/ /\ kk[t] + 1 = kTile /\ kk' = [kk EXCEPT ![t] = 0]
         /\ k0[t] = 0 /\ SecondTile
         /\ k0' = [k0 EXCEPT ![t] = kTile] /\ cur' = [cur EXCEPT ![t] = 1]
         /\ pc' = [pc EXCEPT ![t] = "sync"]
      \/ /\ kk[t] + 1 = kTile /\ kk' = [kk EXCEPT ![t] = 0]
         /\ shape.K <= k0[t] + kTile
         /\ k0' = [k0 EXCEPT ![t] = k0[t] + kTile]
         /\ cur' = [cur EXCEPT ![t] = 1 - cur[t]]
         /\ pc' = [pc EXCEPT ![t] = "store"]
  <2>1. CASE kk[t] + 1 < kTile
    BY <2>1 DEF Opt!Accumulate
  <2>2. CASE ~(kk[t] + 1 < kTile)
    <3>1. /\ kk[t] + 1 = kTile /\ kk' = [kk EXCEPT ![t] = 0]
          /\ k0' = [k0 EXCEPT ![t] = k0[t] + kTile]
          /\ cur' = [cur EXCEPT ![t] = 1 - cur[t]]
          /\ pc' = [pc EXCEPT ![t] = IF k0[t] + kTile < shape.K
                                     THEN Opt!LoopHead(k0[t] + kTile) ELSE "store"]
      BY <1>3, <1>2, <2>2 DEF Opt!Accumulate, Opt!SwapBank, Opt!NextBase
    <3>2. k0[t] + kTile < shape.K => /\ k0[t] = 0 /\ cur[t] = 0 /\ SecondTile
                                     /\ Opt!LoopHead(k0[t] + kTile) = "sync"
      <4> SUFFICES ASSUME k0[t] + kTile < shape.K
                   PROVE  /\ k0[t] = 0 /\ cur[t] = 0 /\ SecondTile
                          /\ Opt!LoopHead(k0[t] + kTile) = "sync"
        OBVIOUS
      <4>1. k0[t] # kTile
        BY <1>2
      <4>2. k0[t] = 0 /\ cur[t] = 0
        BY <1>1, <1>3, <4>1 DEF After
      <4>3. SecondTile /\ ~(k0[t] + kTile + kTile < shape.K)
        BY <1>2, <4>2 DEF SecondTile
      <4> QED BY <4>2, <4>3 DEF Opt!LoopHead
    <3>3. CASE k0[t] + kTile < shape.K
      BY <3>1, <3>2, <3>3, 0 + kTile = kTile, 1 - 0 = 1
    <3>4. CASE ~(k0[t] + kTile < shape.K)
      BY <1>2, <1>3, <3>1, <3>4
    <3> QED BY <3>3, <3>4
  <2> QED BY <2>1, <2>2
<1>6. OptTypeOK'
  <2>1. pc' \in [Opt!Thread -> OptLabels]
    BY <1>2, <1>5 DEF OptLabels
  <2>4. cur' \in [Opt!Thread -> {0, 1}]
    <3>1. cur[t] \in {0, 1} /\ 1 - cur[t] \in {0, 1} /\ 1 \in {0, 1}
      BY <1>2
    <3> QED BY <1>2, <1>5, <3>1
  <2>2. k0' \in [Opt!Thread -> Nat]
    BY <1>2, <1>5
  <2>3. kk' \in [Opt!Thread -> 0..kTile]
    <3>1. kk[t] + 1 \in 0..kTile /\ 0 \in 0..kTile
      BY <1>2, <1>3
    <3> QED BY <1>2, <1>5, <3>1
  <2> QED BY <1>1, <1>2, <1>4, <2>1, <2>2, <2>3, <2>4 DEF OptTypeOK, Opt!BlockTypeOK
<1>7. OptTerms(t)' = Clip(k0[t] + kk[t] + 1)
  <2>1. shape' = shape
    BY <1>1
  <2> QED BY <1>1, <1>2, <1>3, <1>5, <2>1 DEF OptTerms, Clip, SecondTile
<1>8. ASSUME NEW u \in Opt!Thread PROVE After(u)'
  <2>1. CASE u = t
    <3>1. Opt!DotProduct(OptTerms(t))' = Opt!DotProduct(Clip(k0[t] + kk[t] + 1))
      BY <1>7 DEF Opt!DotProduct
    <3>2. Opt!InBounds(t)' => acc'[t] = Opt!DotProduct(OptTerms(t))'
      BY <1>1, <1>4, <3>1 DEF Opt!InBounds
    <3>3. /\ HoldsA(t, 0, 0)' /\ HoldsB(t, 0, 0)'
          /\ SecondTile' => HoldsA(t, 1, kTile)' /\ HoldsB(t, 1, kTile)'
      BY <1>1, <1>3 DEF After, HoldsA, HoldsB, SecondTile, Opt!ElementOfA, Opt!ElementOfB
    <3>4. \/ pc'[t] = "mul" /\ k0'[t] = 0 /\ cur'[t] = 0 /\ kk'[t] < kTile
          \/ pc'[t] = "mul" /\ k0'[t] = kTile /\ cur'[t] = 1 /\ kk'[t] < kTile /\ SecondTile'
          \/ pc'[t] = "sync" /\ k0'[t] = kTile /\ cur'[t] = 1 /\ SecondTile'
          \/ pc'[t] \in {"store", "done"}
      <4>1. SecondTile' = SecondTile
        BY <1>1 DEF SecondTile
      <4> QED BY <1>1, <1>2, <1>3, <1>5, <4>1 DEF After
    <3> QED BY <2>1, <3>2, <3>3, <3>4 DEF After
  <2>2. CASE u # t
    <3>1. /\ pc'[u] = pc[u] /\ k0'[u] = k0[u] /\ kk'[u] = kk[u] /\ cur'[u] = cur[u]
          /\ acc'[u] = acc[u] /\ UNCHANGED <<shape, As, Bs>>
      BY <1>1, <1>2, <1>4, <1>5, <2>2
    <3>2. Opt!DotProduct(OptTerms(u))' = Opt!DotProduct(OptTerms(u))
      BY <3>1 DEF Opt!DotProduct, OptTerms, Clip
    <3> QED
      BY <1>3, <3>1, <3>2
      DEF After, Opt!InBounds, HoldsA, HoldsB, SecondTile, Opt!ElementOfA, Opt!ElementOfB
  <2> QED BY <2>1, <2>2
<1>9. Opt!ResultIsDotProduct'
  BY <1>1, <1>2, <1>5 DEF OptIInv, Opt!ResultIsDotProduct, Opt!InBounds, Opt!DotProduct
<1> QED BY <1>6, <1>8, <1>9 DEF OptIInv

(* What is stored is the complete sum.                                     *)
LEMMA OptStoreIInv ==
  ASSUME OptIInv, NEW t \in Opt!Thread, Opt!Store(t), UNCHANGED cur
  PROVE OptIInv'
<1> USE OptAssumption
<1>1. /\ pc[t] = "store" /\ pc' = [pc EXCEPT ![t] = "done"]
      /\ C' = IF Opt!InBounds(t) THEN [C EXCEPT ![t] = acc[t]] ELSE C
      /\ UNCHANGED <<shape, As, Bs, k0, kk, acc, cur>>
  BY DEF Opt!Store
<1>2. /\ OptTypeOK /\ pc \in [Opt!Thread -> OptLabels]
      /\ acc \in [Opt!Thread -> Seq(Nat \X Nat)]
      /\ C \in [Opt!Thread -> Seq(Nat \X Nat) \cup {Absent}]
  BY DEF OptIInv, OptTypeOK, Opt!BlockTypeOK
<1>3. \A u \in Opt!Thread : After(u)
  BY <1>1 DEF OptIInv, Before
<1>4. OptTypeOK'
  BY <1>1, <1>2 DEF OptTypeOK, Opt!BlockTypeOK, OptLabels
<1>5. ASSUME NEW u \in Opt!Thread PROVE After(u)'
  <2>1. OptTerms(u)' = OptTerms(u)
    BY <1>1, <1>2 DEF OptTerms, Clip
  <2>2. Opt!DotProduct(OptTerms(u))' = Opt!DotProduct(OptTerms(u))
    BY <2>1 DEF Opt!DotProduct
  <2> QED
    BY <1>1, <1>2, <1>3, <2>2
    DEF After, Opt!InBounds, HoldsA, HoldsB, SecondTile, Opt!ElementOfA, Opt!ElementOfB
<1>6. Opt!InBounds(t) => acc[t] = Opt!DotProduct(shape.K) /\ acc[t] # Absent
  <2>1. Opt!InBounds(t) => acc[t] = Opt!DotProduct(shape.K)
    BY <1>1, <1>3 DEF After, OptTerms
  <2> QED BY <1>2, <2>1
<1>7. Opt!ResultIsDotProduct'
  BY <1>1, <1>2, <1>6 DEF OptIInv, Opt!ResultIsDotProduct, Opt!InBounds, Opt!DotProduct
<1> QED BY <1>4, <1>5, <1>7 DEF OptIInv

LEMMA OptNextIInv == AtMostTwoTiles /\ OptIInv /\ [Opt!Next]_(Opt!vars) => OptIInv'
<1> SUFFICES ASSUME AtMostTwoTiles, OptIInv, [Opt!Next]_(Opt!vars) PROVE OptIInv'
  OBVIOUS
<1>1. CASE Opt!SyncThreads
  BY <1>1, OptSyncThreadsIInv
<1>2. ASSUME NEW t \in Opt!Thread, Opt!Step(t) PROVE OptIInv'
  BY <1>2, OptPrefetchAIInv, OptPrefetchBIInv, OptLoadAIInv, OptLoadBIInv,
     OptAccumulateIInv, OptStoreIInv
  DEF Opt!Step
<1>3. CASE UNCHANGED Opt!vars
  BY <1>3 DEF Opt!vars, OptIInv, OptTypeOK, Opt!BlockTypeOK, Before, After,
              HoldsA, HoldsB, SecondTile, Opt!ResultIsDotProduct, OptTerms, Clip,
              Opt!InBounds, Opt!DotProduct, Opt!ElementOfA, Opt!ElementOfB
<1> QED BY <1>1, <1>2, <1>3 DEF Opt!Next, Opt!Finished

-----------------------------------------------------------------------------

(* Each element of C is the sum of its K products, whatever the width of   *)
(* the tile and the timing of the threads, when K is at most two tiles     *)
(* wide: one barrier for each tile is enough as long as no bank is loaded  *)
(* twice.  ResultIsDotProduct says nothing of the banks: it is the one     *)
(* property of either kernel.  (gemm.cu 161-254)                           *)
THEOREM OptimizedProductCorrect ==
  ASSUME AtMostTwoTiles PROVE Opt!Spec => []ResultIsDotProduct
<1>1. OptIInv => ResultIsDotProduct
  BY DEF OptIInv, Opt!ResultIsDotProduct, ResultIsDotProduct, Opt!Thread, Thread,
         Opt!Index, Index, Opt!InBounds, InBounds, Opt!DotProduct, DotProduct
<1>2. OptIInv /\ [Opt!Next]_(Opt!vars) => OptIInv'
  BY OptNextIInv
<1> QED BY <1>1, <1>2, OptInitIInv, PTL DEF Opt!Spec
=============================================================================
