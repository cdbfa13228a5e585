----------------------------- MODULE GemmBlock ------------------------------
(***************************************************************************)
(* What the shared-memory kernels of cuda/kernels/gemm.cu have in common:  *)
(* one thread block, which computes one kTile x kTile tile of C = A @ B    *)
(* and walks K in tiles of kTile.  Its threads run freely between the      *)
(* calls of __syncthreads().                                               *)
(*                                                                         *)
(* A number is abstracted to where it came from: an element of A or B to   *)
(* its index k along K, a sum to the sequence of products it adds up.      *)
(* Rows and columns are counted from the block's own m0 and n0.            *)
(***************************************************************************)
EXTENDS Integers, Sequences, FiniteSets

CONSTANTS kTile,    \* the width of a tile
          Shapes,   \* the shapes [M, N, K] of the product, seen from the block
          Zero,     \* the padding of boundary tiles
          Absent    \* what a cell holds before it is written

VARIABLES
  shape,    \* the kernel's arguments M, N and K
  As, Bs,   \* the shared tiles, cells numbered <<bank, row, column>>
  pc,       \* where each thread is
  k0,       \* first k of the tile each thread is at (kt * kTile)
  kk,       \* its inner loop index
  acc,      \* its accumulator
  C         \* what it has stored to global memory

Index  == 0..(kTile - 1)
Thread == Index \X Index     \* <<ty, tx>>

(* The launchers return early unless M, N and K are positive.              *)
ASSUME GemmAssumption ==
  /\ kTile \in Nat \ {0}
  /\ Shapes \subseteq [M : Nat \ {0}, N : Nat \ {0}, K : Nat \ {0}]
  /\ Zero \notin Nat /\ Absent \notin Nat /\ Zero # Absent
  /\ Absent \notin Seq(Nat \X Nat)

InitBlock(cells, entry) ==
  /\ shape \in Shapes
  /\ As = [c \in cells |-> Absent] /\ Bs = [c \in cells |-> Absent]
  /\ pc = entry
  /\ k0 = [t \in Thread |-> 0] /\ kk = [t \in Thread |-> 0]
  /\ acc = [t \in Thread |-> <<>>]
  /\ C = [t \in Thread |-> Absent]

(* The cooperative load: each thread fetches one element of either tile.   *)
NoPadding(ty, tx, base) ==
  IF ty < shape.M /\ base + tx < shape.K THEN base + tx ELSE Absent

ElementOfA(ty, tx, base) ==
  IF ty < shape.M /\ base + tx < shape.K THEN base + tx ELSE Zero

ElementOfB(ty, tx, base) ==
  IF base + ty < shape.K /\ tx < shape.N THEN base + ty ELSE Zero

(* acc += a * b; a product with the padding adds nothing.                  *)
PlusProduct(sum, a, b) ==
  IF a = Zero \/ b = Zero THEN sum ELSE Append(sum, <<a, b>>)

(* One iteration of the inner loop over kk, on the given bank.             *)
MulAdd(t, bank) ==
  acc' = [acc EXCEPT ![t] =
            PlusProduct(@, As[<<bank, t[1], kk[t]>>], Bs[<<bank, kk[t], t[2]>>])]

(* The thread's element of C lies inside the matrix.                       *)
InBounds(t) == t[1] < shape.M /\ t[2] < shape.N

Store(t) ==
  /\ pc[t] = "store"
  /\ C' = IF InBounds(t) THEN [C EXCEPT ![t] = acc[t]] ELSE C
  /\ pc' = [pc EXCEPT ![t] = "done"]
  /\ UNCHANGED <<shape, As, Bs, k0, kk, acc>>

AllDone == \A t \in Thread : pc[t] = "done"

-----------------------------------------------------------------------------

(* A sum never takes in shared memory that nobody has written.             *)
BlockTypeOK(cells, labels) ==
  /\ shape \in Shapes
  /\ As \in [cells -> Nat \cup {Zero, Absent}]
  /\ Bs \in [cells -> Nat \cup {Zero, Absent}]
  /\ pc \in [Thread -> labels]
  /\ k0 \in [Thread -> Nat]
  /\ kk \in [Thread -> 0..kTile]
  /\ acc \in [Thread -> Seq(Nat \X Nat)]
  /\ C \in [Thread -> Seq(Nat \X Nat) \cup {Absent}]

(* The first n products of the dot product of a row and a column.          *)
DotProduct(n) == [i \in 1..n |-> <<i - 1, i - 1>>]

(* gemm.cu: "All kernels compute row-major C[M,N] = A[M,K] @ B[K,N]".  Each *)
(* element of C is the sum of its K products, each of them once, in the    *)
(* order of k whatever the threads' timing, and nothing is stored outside  *)
(* the matrix.  (gemm.cu 102-159, 191-254)                                 *)
ResultIsDotProduct ==
  \A t \in Thread :
    /\ C[t] # Absent => InBounds(t) /\ C[t] = DotProduct(shape.K)
    /\ pc[t] = "done" /\ InBounds(t) => C[t] # Absent
=============================================================================
