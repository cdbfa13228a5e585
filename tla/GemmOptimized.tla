--------------------------- MODULE GemmOptimized ----------------------------
(***************************************************************************)
(* gemm_optimized_kernel: two banks and one barrier for each tile of K.    *)
(* While a tile is used from bank cur, the next is loaded into the other.  *)
(***************************************************************************)
EXTENDS GemmBlock

VARIABLE cur     \* the bank each thread computes on

vars == <<shape, As, Bs, pc, k0, kk, acc, C, cur>>

Bank == {0, 1}
Cell == Bank \X Index \X Index

(* Every thread takes part in the loads, those outside the matrix too.     *)
Entry(t) == "prefetchA"

Init == InitBlock(Cell, [t \in Thread |-> Entry(t)]) /\ cur = [t \in Thread |-> 0]

(* The bank a thread loads into, and the tile.                             *)
Nxt(t)      == 1 - cur[t]
NextBase(t) == k0[t] + kTile

PrefetchA(t) ==
  /\ pc[t] = "prefetchA"
  /\ As' = [As EXCEPT ![<<0, t[1], t[2]>>] = ElementOfA(t[1], t[2], 0)]
  /\ pc' = [pc EXCEPT ![t] = "prefetchB"]
  /\ UNCHANGED <<shape, Bs, k0, kk, acc, C, cur>>

(* The head of the loop over kt: there is nothing to load in the last      *)
(* iteration.                                                              *)
LoopHead(base) == IF base + kTile < shape.K THEN "loadA" ELSE "sync"

PrefetchB(t) ==
  /\ pc[t] = "prefetchB"
  /\ Bs' = [Bs EXCEPT ![<<0, t[1], t[2]>>] = ElementOfB(t[1], t[2], 0)]
  /\ pc' = [pc EXCEPT ![t] = LoopHead(0)]
  /\ UNCHANGED <<shape, As, k0, kk, acc, C, cur>>

LoadA(t) ==
  /\ pc[t] = "loadA"
  /\ As' = [As EXCEPT ![<<Nxt(t), t[1], t[2]>>] = ElementOfA(t[1], t[2], NextBase(t))]
  /\ pc' = [pc EXCEPT ![t] = "loadB"]
  /\ UNCHANGED <<shape, Bs, k0, kk, acc, C, cur>>

LoadB(t) ==
  /\ pc[t] = "loadB"
  /\ Bs' = [Bs EXCEPT ![<<Nxt(t), t[1], t[2]>>] = ElementOfB(t[1], t[2], NextBase(t))]
  /\ pc' = [pc EXCEPT ![t] = "sync"]
  /\ UNCHANGED <<shape, As, k0, kk, acc, C, cur>>

SyncThreads ==
  /\ \A t \in Thread : pc[t] = "sync"
  /\ pc' = [t \in Thread |-> "mul"]
  /\ kk' = [t \in Thread |-> 0]
  /\ UNCHANGED <<shape, As, Bs, k0, acc, C, cur>>

(* cur = nxt, and back to the head of the loop, with no second barrier.    *)
KeepBank(bank) == bank

SwapBank(bank) == 1 - bank

Accumulate(t) ==
  /\ pc[t] = "mul"
  /\ MulAdd(t, cur[t])
  /\ IF kk[t] + 1 < kTile
     THEN kk' = [kk EXCEPT ![t] = @ + 1] /\ UNCHANGED <<pc, k0, cur>>
     ELSE /\ kk' = [kk EXCEPT ![t] = 0]
          /\ k0' = [k0 EXCEPT ![t] = NextBase(t)]
          /\ cur' = [cur EXCEPT ![t] = SwapBank(@)]
          /\ pc' = [pc EXCEPT ![t] = IF NextBase(t) < shape.K
                                     THEN LoopHead(NextBase(t)) ELSE "store"]
  /\ UNCHANGED <<shape, As, Bs, C>>

Step(t) ==
  \/ PrefetchA(t) \/ PrefetchB(t) \/ LoadA(t) \/ LoadB(t) \/ Accumulate(t)
  \/ Store(t) /\ UNCHANGED cur

(* No other state may be one nobody can leave: a barrier that some threads *)
(* never reach is a deadlock.                                              *)
Finished == AllDone /\ UNCHANGED vars

Next == SyncThreads \/ Finished \/ \E t \in Thread : Step(t)

Spec == Init /\ [][Next]_vars
=============================================================================
