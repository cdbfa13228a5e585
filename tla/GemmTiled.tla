----------------------------- MODULE GemmTiled ------------------------------
(***************************************************************************)
(* gemm_tiled_kernel: one bank, and two barriers for each tile of K, one   *)
(* before the tile is used and one before it is overwritten.               *)
(***************************************************************************)
EXTENDS GemmBlock

vars == <<shape, As, Bs, pc, k0, kk, acc, C>>

Cell == {0} \X Index \X Index

(* Every thread takes part in the loads, those outside the matrix too.     *)
ReturnOutside(t) == IF InBounds(t) THEN "loadA" ELSE "done"

Entry(t) == "loadA"

Init == InitBlock(Cell, [t \in Thread |-> Entry(t)])

LoadA(t) ==
  /\ pc[t] = "loadA"
  /\ As' = [As EXCEPT ![<<0, t[1], t[2]>>] = ElementOfA(t[1], t[2], k0[t])]
  /\ pc' = [pc EXCEPT ![t] = "loadB"]
  /\ UNCHANGED <<shape, Bs, k0, kk, acc, C>>

LoadB(t) ==
  /\ pc[t] = "loadB"
  /\ Bs' = [Bs EXCEPT ![<<0, t[1], t[2]>>] = ElementOfB(t[1], t[2], k0[t])]
  /\ pc' = [pc EXCEPT ![t] = "loaded"]
  /\ UNCHANGED <<shape, As, k0, kk, acc, C>>

(* The loop over kt.                                                       *)
DropLastTile(base) ==
  IF base + 2 * kTile <= shape.K THEN "loadA" ELSE "store"

NextTile(base) == IF base + kTile < shape.K THEN "loadA" ELSE "store"

(* __syncthreads() lets the threads go when all have come to it, whichever *)
(* of its two calls each of them made.                                     *)
SyncThreads ==
  /\ \A t \in Thread : pc[t] \in {"loaded", "used"}
  /\ pc' = [t \in Thread |-> IF pc[t] = "loaded" THEN "mul" ELSE NextTile(k0[t])]
  /\ k0' = [t \in Thread |-> IF pc[t] = "loaded" THEN k0[t] ELSE k0[t] + kTile]
  /\ kk' = [t \in Thread |-> 0]
  /\ UNCHANGED <<shape, As, Bs, acc, C>>

(* The last product of a tile takes the thread to the second barrier.      *)
SkipSecondBarrier(t) ==
  /\ pc' = [pc EXCEPT ![t] = IF kk[t] + 1 < kTile THEN "mul" ELSE NextTile(k0[t])]
  /\ kk' = [kk EXCEPT ![t] = IF @ + 1 < kTile THEN @ + 1 ELSE 0]
  /\ k0' = [k0 EXCEPT ![t] = IF kk[t] + 1 < kTile THEN @ ELSE @ + kTile]

AdvanceInner(t) ==
  /\ pc' = [pc EXCEPT ![t] = IF kk[t] + 1 < kTile THEN "mul" ELSE "used"]
  /\ kk' = [kk EXCEPT ![t] = @ + 1]
  /\ k0' = k0

Accumulate(t) ==
  /\ pc[t] = "mul"
  /\ MulAdd(t, 0)
  /\ AdvanceInner(t)
  /\ UNCHANGED <<shape, As, Bs, C>>

Step(t) == LoadA(t) \/ LoadB(t) \/ Accumulate(t) \/ Store(t)

Finished == AllDone /\ UNCHANGED vars

Next == SyncThreads \/ Finished \/ \E t \in Thread : Step(t)

(* All threads of a resident block make progress.                          *)
Fairness == WF_vars(SyncThreads) /\ \A t \in Thread : WF_vars(Step(t))

Spec == Init /\ [][Next]_vars /\ Fairness

-----------------------------------------------------------------------------

Labels == {"loadA", "loadB", "loaded", "mul", "used", "store", "done"}

TypeOK == BlockTypeOK(Cell, Labels)

Writes(t) == CASE pc[t] = "loadA" -> {<<"As", t[1], t[2]>>}
               [] pc[t] = "loadB" -> {<<"Bs", t[1], t[2]>>}
               [] OTHER -> {}

Reads(t) == IF pc[t] = "mul"
            THEN {<<"As", t[1], kk[t]>>, <<"Bs", kk[t], t[2]>>} ELSE {}

(* No thread is about to write a shared cell that another is about to read *)
(* or write: the outcome does not depend on how the hardware orders        *)
(* accesses between two barriers.  (gemm.cu 129-151)                       *)
NoDataRace ==
  \A t, u \in Thread : t # u => Writes(t) \cap (Reads(u) \cup Writes(u)) = {}

(* No thread waits for ever at a barrier the others do not come to.        *)
(* (gemm.cu 118-152)                                                       *)
BlockFinishes == <>AllDone
=============================================================================
