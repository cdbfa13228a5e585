-------------------------- MODULE MCGemmOptimized ---------------------------
(***************************************************************************)
(* A block of 2 x 2 threads and three tiles of K: the first of the two     *)
(* banks is loaded again.                                                  *)
(***************************************************************************)
EXTENDS GemmOptimized

ThreeTiles == {[M |-> 2, N |-> 2, K |-> 5]}
=============================================================================
