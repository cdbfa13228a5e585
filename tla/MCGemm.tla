------------------------------- MODULE MCGemm -------------------------------
(***************************************************************************)
(* gemm_tiled_kernel, then gemm_optimized_kernel on the same matrices if K *)
(* has at most two tiles: blocks of 2 x 2 threads at the inside and at     *)
(* every edge of the matrix, with one to three tiles of K, the last of     *)
(* them whole or not.                                                      *)
(***************************************************************************)
EXTENDS GemmTiled

MCShapes == [M : {1, 3}, N : {1, 3}, K : {1, 3, 4, 5}]

VARIABLES As_opt, Bs_opt, pc_opt, k0_opt, kk_opt, acc_opt, C_opt, cur

Opt == INSTANCE GemmOptimized WITH
         As <- As_opt, Bs <- Bs_opt, pc <- pc_opt, k0 <- k0_opt, kk <- kk_opt,
         acc <- acc_opt, C <- C_opt

optVars == <<As_opt, Bs_opt, pc_opt, k0_opt, kk_opt, acc_opt, C_opt, cur>>

TwoTiles == shape.K <= 2 * kTile

MCInit == Init /\ Opt!Init

(* The block of the optimized kernel ends in its own Finished: a barrier   *)
(* that some threads never reach is a deadlock.                            *)
MCNext ==
  \/ ~ (AllDone /\ TwoTiles) /\ Next /\ UNCHANGED optVars
  \/ AllDone /\ TwoTiles /\ Opt!Next /\ UNCHANGED vars

MCSpec == MCInit /\ [][MCNext]_<<vars, optVars>> /\ Fairness

(* The same of gemm_optimized_kernel, for one tile and two.                *)
(* (gemm.cu 191-254)                                                       *)
OptimizedIsDotProduct == Opt!ResultIsDotProduct
=============================================================================
