------------------------------- MODULE Shapes -------------------------------
(***************************************************************************)
(* The arithmetic of tensor/Shape.hpp and tensor/Stride.hpp.  A shape and  *)
(* a stride are sequences of integers; dimensions count from 1 here and    *)
(* from 0 in the code.  An index is a sequence with one entry, from 0, per *)
(* dimension.                                                              *)
(***************************************************************************)
EXTENDS Integers, SequencesExt

Product(dims) == FoldLeft(LAMBDA x, y : x * y, 1, dims)

(* A shape without dimensions has no element, not one.                     *)
numel(shape) == IF shape = <<>> THEN 0 ELSE Product(shape)

RowMajor(shape) ==
  [d \in DOMAIN shape |-> Product(SubSeq(shape, d + 1, Len(shape)))]

compute_row_major(shape) == RowMajor(shape)

Position(stride, index) ==
  FoldLeftDomain(LAMBDA sum, d : sum + index[d] * stride[d], 0, stride)

(* The index of the k-th element, k from 0, in row-major order.            *)
Unflatten(shape, k) ==
  [d \in DOMAIN shape |-> (k \div RowMajor(shape)[d]) % shape[d]]

Indices(shape) == {Unflatten(shape, k) : k \in 0..numel(shape) - 1}

Swap(s, i, j) == [s EXCEPT ![i] = s[j], ![j] = s[i]]
=============================================================================
