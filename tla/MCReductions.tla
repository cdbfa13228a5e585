---------------------------- MODULE MCReductions ----------------------------
(***************************************************************************)
(* A row kernel, then reduce_sum_axis_kernel.  Two warps of four lanes,    *)
(* and rows with fewer and with more columns than the block has threads;   *)
(* blocks of four threads for channels whose images take one block.        *)
(***************************************************************************)
EXTENDS RowReduce, ReduceLaunch

MCRows  == {[c \in 0..n - 1 |-> (3 * c) % 4] : n \in {1, 3, 9}}
MCSizes == [N : {1, 2}, HW : {1, 3, 4}]

VARIABLES size, smem, pc_sum, s_sum, out_sum

Sum == INSTANCE ReduceSumAxis WITH pc <- pc_sum, s <- s_sum, out <- out_sum

sumVars == <<size, smem, pc_sum, s_sum, out_sum>>

(* One size for each launch of a row kernel, so that all sizes occur.      *)
SizeAfter(k, columns) == [N  |-> IF k = "softmax" THEN 1 ELSE 2,
                          HW |-> IF columns = 9 THEN 4 ELSE columns]

MCInit == /\ Init /\ Sum!Init
          /\ size = SizeAfter(kernel, Cardinality(DOMAIN row))

MCNext == \/ Next /\ UNCHANGED sumVars
          \/ AllDone /\ Sum!Next /\ UNCHANGED vars

MCSpec == /\ MCInit /\ [][MCNext]_<<vars, sumVars>>
          /\ WF_vars(Next) /\ WF_sumVars(AllDone /\ Sum!Next)

(* Between two barriers no thread of reduce_sum_axis_kernel writes a       *)
(* shared cell that another reads or writes, at any level of the tree.     *)
(* (reduce_sum_axis.cu 73-85)                                              *)
SumHasNoRace == Sum!NoDataRace

(* Every element of the channel is in out[c] exactly once, where one block *)
(* covers an image.  (reduce_sum_axis.cu 57-85, 94-97)                     *)
SumIsChannelSum == Sum!OutIsChannelSum

(* Every thread of reduce_sum_axis_kernel gets through all levels of the   *)
(* tree.  (reduce_sum_axis.cu 77-82)                                       *)
SumFinishes == Sum!BlockFinishes
=============================================================================
