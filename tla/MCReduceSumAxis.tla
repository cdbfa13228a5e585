-------------------------- MODULE MCReduceSumAxis ---------------------------
(***************************************************************************)
(* Images one element larger than two blocks of two threads: a channel     *)
(* takes three blocks.                                                     *)
(***************************************************************************)
EXTENDS ReduceSumAxis

LargeImages == {[N |-> 1, HW |-> 5]}
=============================================================================
