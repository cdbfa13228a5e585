---------------------------- MODULE ReduceLaunch ----------------------------
(***************************************************************************)
(* What cuda/kernels/reduce_sum_axis.cu is launched with.                  *)
(***************************************************************************)
EXTENDS Integers

CONSTANTS kBlock,   \* threads in a block, a power of two
          Sizes     \* sizes [N, HW]: images, and elements of one channel

ASSUME ReduceAssumption ==
  /\ kBlock \in {2, 4, 8, 16, 32, 64, 128, 256, 512, 1024}
  /\ Sizes \subseteq [N : Nat \ {0}, HW : Nat \ {0}]
=============================================================================
