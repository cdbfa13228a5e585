------------------------------- MODULE Views -------------------------------
(***************************************************************************)
(* Tensors on the CPU: tensor/Tensor.cpp, slicing.cpp, shape_ops.cpp and   *)
(* factory.cpp.  A tensor is an offset, a shape and a stride into a        *)
(* storage that others may share.  slice, select, narrow, permute and      *)
(* reshape make views; every other operation allocates its result, and     *)
(* reads its operands from their offset on as if they were row-major.      *)
(*                                                                         *)
(* A call that throws changes nothing and is no step.  All elements are    *)
(* Float32.  Element functions are abstracted: relu stands for sigmoid,    *)
(* tanh, leaky_relu and log; softmax and log_softmax subtract a function   *)
(* of the whole row, taken to be its sum; layer_norm loses the factor      *)
(* rstd and mean() its division.                                           *)
(***************************************************************************)
EXTENDS Shapes

CONSTANTS Fills,       \* the shapes full() is called with
          Ranges,      \* start, end and step of the calls of arange()
          Reshapes,    \* the shapes reshape() is called with
          MaxTensors,  \* bound on the number of tensors
          MaxWrites    \* bound on the writes through data()

(* A Shape takes negative lengths too; that there are none is left to the  *)
(* caller.                                                                 *)
ASSUME ViewsAssumption ==
  /\ Fills \subseteq Seq(Nat) /\ Reshapes \subseteq Seq(Nat)
  /\ Ranges \subseteq Int \X Int \X Int
  /\ MaxTensors \in Nat /\ MaxWrites \in Nat

VARIABLES tensors,   \* [storage, offset, shape, stride] in order of creation
          memory,    \* the elements of each storage, from 0
          writes,    \* counted against MaxWrites
          call       \* history: the operation last called and its arguments

vars == <<tensors, memory, writes, call>>

Tensor == DOMAIN tensors

Address(t, index) == t.offset + Position(t.stride, index)

(* data()[k].                                                              *)
At(t, k) == memory[t.storage][t.offset + k]

-----------------------------------------------------------------------------
(* Views.                                                                  *)

Called(op, of, by) == call' = [op |-> op, of |-> of, by |-> by]

NewView(t, offset, shape, stride) ==
  /\ Len(tensors) < MaxTensors
  /\ tensors' = Append(tensors, [storage |-> t.storage, offset |-> offset,
                                 shape |-> shape, stride |-> stride])
  /\ UNCHANGED <<memory, writes>>

normalize_index(i, dim_size) == IF i < 0 THEN i + dim_size ELSE i

LengthFromZero(start, end) == end

LengthOf(start, end) == end - start

OffsetOfStart(t, d, start) == t.offset + start * t.stride[d]

slice(x, d, start, end) ==
  LET t == tensors[x]
      s == normalize_index(start, t.shape[d])
      e == normalize_index(end, t.shape[d])
  IN /\ 0 <= s /\ s <= e /\ e <= t.shape[d]
     /\ NewView(t, OffsetOfStart(t, d, s), [t.shape EXCEPT ![d] = LengthOf(s, e)], t.stride)

Slice(x, d, start, end) ==
  slice(x, d, start, end) /\ Called("slice", <<x>>, <<d, start, end>>)

(* start + length is formed before a negative start is counted from the    *)
(* end, so what such a call makes is a slice like any other, seldom of the *)
(* length asked for.                                                       *)
Narrow(x, d, start, length) ==
  /\ length >= 0
  /\ slice(x, d, start, start + length)
  /\ IF start >= 0 THEN Called("narrow", <<x>>, <<d, start, length>>)
                   ELSE Called("slice", <<x>>, <<d, start, start + length>>)

KeepStrides(strides, d) == SubSeq(strides, 1, Len(strides) - 1)

DropStride(strides, d) == RemoveAt(strides, d)

Select(x, d, index) ==
  LET t == tensors[x]   i == normalize_index(index, t.shape[d])
  IN /\ 0 <= i /\ i < t.shape[d]
     /\ NewView(t, OffsetOfStart(t, d, i), RemoveAt(t.shape, d),
                DropStride(t.stride, d))
     /\ Called("select", <<x>>, <<d, index>>)

(* transpose(tensor, dim0, dim1) of shape_ops.cpp is the permutation that  *)
(* exchanges two dimensions.                                               *)
Permute(x, dims) ==
  LET t == tensors[x]
  IN /\ NewView(t, t.offset, [d \in DOMAIN dims |-> t.shape[dims[d]]],
                             [d \in DOMAIN dims |-> t.stride[dims[d]]])
     /\ Called("permute", <<x>>, dims)

AlwaysContiguous(t) == TRUE

is_contiguous(t) == t.stride = compute_row_major(t.shape)

Reshape(x, shape) ==
  LET t == tensors[x]
  IN /\ numel(shape) = numel(t.shape) /\ is_contiguous(t)
     /\ NewView(t, t.offset, shape, compute_row_major(shape))
     /\ Called("reshape", <<x>>, shape)

-----------------------------------------------------------------------------
(* Operations with a result of their own: Tensor::empty and a loop that    *)
(* stores value(k) at position k.  The storage has as many elements as the *)
(* shape, none when it has no dimension.                                   *)

Result(shape, value(_)) ==
  /\ Len(tensors) < MaxTensors
  /\ memory' = Append(memory, [k \in 0..numel(shape) - 1 |-> value(k)])
  /\ tensors' = Append(tensors, [storage |-> Len(memory) + 1, offset |-> 0,
                                 shape |-> shape, stride |-> compute_row_major(shape)])
  /\ UNCHANGED writes

Full(shape, value) ==
  Result(shape, LAMBDA k : value) /\ Called("full", <<>>, <<value>> \o shape)

RoundUp(n, d) == (n + d - 1) \div d

CountAhead(start, end, step) ==
  IF step > 0 THEN RoundUp(end - start, step) ELSE RoundUp(start - end, -step)

Count(start, end, step) ==
  IF step > 0 THEN (IF end > start THEN RoundUp(end - start, step) ELSE 0)
              ELSE (IF start > end THEN RoundUp(start - end, -step) ELSE 0)

Arange(start, end, step) ==
  /\ step # 0
  /\ Result(<<Count(start, end, step)>>, LAMBDA k : start + k * step)
  /\ Called("arange", <<>>, <<start, end, step>>)

(* Tensor::to the tensor's own device and type.                            *)
CopyTo(x) ==
  Result(tensors[x].shape, LAMBDA k : At(tensors[x], k)) /\ Called("to", <<x>>, <<>>)

Elementwise(op, a, b) == CASE op = "add" -> a + b
                         [] op = "sub" -> a - b
                         [] op = "mul" -> a * b
                         [] op = "relu" -> IF a > 0 THEN a ELSE 0

Binary(op, x, y) ==
  /\ tensors[x].shape = tensors[y].shape
  /\ Result(tensors[x].shape,
            LAMBDA k : Elementwise(op, At(tensors[x], k), At(tensors[y], k)))
  /\ Called(op, <<x, y>>, <<>>)

Activation(x) ==
  /\ Result(tensors[x].shape,
            LAMBDA k : Elementwise("relu", At(tensors[x], k), At(tensors[x], k)))
  /\ Called("relu", <<x>>, <<>>)

Matmul(x, y) ==
  LET a == tensors[x]   b == tensors[y]
  IN /\ Len(a.shape) = 2 /\ Len(b.shape) = 2 /\ a.shape[2] = b.shape[1]
     /\ LET M == a.shape[1]   K == a.shape[2]   N == b.shape[2]
        IN Result(<<M, N>>,
             LAMBDA o : SumFunction([k \in 0..K - 1 |->
                           At(a, (o \div N) * K + k) * At(b, k * N + (o % N))]))
     /\ Called("matmul", <<x, y>>, <<>>)

Rowwise(op, e, row) ==
  LET total == SumFunction(row)
  IN IF op = "softmax" THEN e - total ELSE Len(row) * e - total

Row(t, k) == LET inner == t.shape[Len(t.shape)]
             IN [j \in 1..inner |-> At(t, (k \div inner) * inner + j - 1)]

(* Only over the last dimension.  A last dimension of length 0 divides by  *)
(* zero and is left out.                                                   *)
Softmax(x) ==
  LET t == tensors[x]
  IN /\ t.shape # <<>> /\ t.shape[Len(t.shape)] # 0
     /\ Result(t.shape, LAMBDA k : Rowwise("softmax", At(t, k), Row(t, k)))
     /\ Called("softmax", <<x>>, <<>>)

LayerNorm(x, gamma, beta) ==
  LET t == tensors[x]   g == tensors[gamma]   b == tensors[beta]
  IN /\ Len(t.shape) = 2
     /\ numel(g.shape) = t.shape[2] /\ numel(b.shape) = t.shape[2]
     /\ Result(t.shape,
          LAMBDA k : Rowwise("layer_norm", At(t, k), Row(t, k))
                       * At(g, k % t.shape[2]) + At(b, k % t.shape[2]))
     /\ Called("layer_norm", <<x, gamma, beta>>, <<>>)

(* Without keepdim the sum of a tensor of one dimension has none: its      *)
(* storage is empty and the total is written past its end, so no tensor    *)
(* holds it.                                                               *)
SumOver(x, d, keepdim) ==
  LET t == tensors[x]
      inner == Product(SubSeq(t.shape, d + 1, Len(t.shape)))
      dims == IF keepdim THEN [t.shape EXCEPT ![d] = 1] ELSE RemoveAt(t.shape, d)
  IN /\ Result(dims,
          LAMBDA o : SumFunction([k \in 0..t.shape[d] - 1 |->
                        At(t, (o \div inner) * inner * t.shape[d]
                                + k * inner + (o % inner))]))
     /\ Called("sum", <<x>>, <<d, IF keepdim THEN 1 ELSE 0>>)

Mean(x) ==
  LET t == tensors[x]
  IN /\ Result(<<1>>, LAMBDA o : SumFunction([k \in 0..numel(t.shape) - 1 |-> At(t, k)]))
     /\ Called("mean", <<x>>, <<>>)

(* The member function copies, unlike the one of shape_ops.cpp.            *)
TransposeCopy(x, d0, d1) ==
  LET t == tensors[x]   shape == Swap(t.shape, d0, d1)
  IN /\ Result(shape, LAMBDA k : At(t, Position(compute_row_major(t.shape),
                                                Swap(Unflatten(shape, k), d0, d1))))
     /\ Called("transpose", <<x>>, <<d0, d1>>)

(* The client writes an element through data().                            *)
WriteData(x, k, value) ==
  /\ writes < MaxWrites
  /\ writes' = writes + 1
  /\ memory' = [memory EXCEPT ![tensors[x].storage][tensors[x].offset + k] = value]
  /\ Called("write", <<x>>, <<k, value>>)
  /\ UNCHANGED tensors

-----------------------------------------------------------------------------

Init == /\ tensors = <<>> /\ memory = <<>> /\ writes = 0
        /\ call = [op |-> "none", of |-> <<>>, by |-> <<>>]

Dims(x) == DOMAIN tensors[x].shape

MakeView(x) ==
  \/ \E d \in Dims(x) : LET n == tensors[x].shape[d] IN
       \/ \E start, end \in -n..n : Slice(x, d, start, end)
       \/ \E start \in -n..n, length \in 0..n : Narrow(x, d, start, length)
       \/ \E index \in -n..n - 1 : Select(x, d, index)
  \/ \E dims \in {p \in [Dims(x) -> Dims(x)] :
                    \A i, j \in Dims(x) : p[i] = p[j] => i = j} : Permute(x, dims)
  \/ \E shape \in Reshapes : Reshape(x, shape)

Create == \/ \E shape \in Fills, value \in {0, 1} : Full(shape, value)
          \/ \E r \in Ranges : Arange(r[1], r[2], r[3])

Compute(x) ==
  \/ CopyTo(x) \/ Activation(x) \/ Softmax(x) \/ Mean(x)
  \/ \E y \in Tensor : \/ \E op \in {"add", "sub", "mul"} : Binary(op, x, y)
                       \/ Matmul(x, y)
                       \/ \E z \in Tensor : LayerNorm(x, y, z)
  \/ \E d \in Dims(x) : \/ \E keepdim \in BOOLEAN : SumOver(x, d, keepdim)
                        \/ \E d1 \in Dims(x) : TransposeCopy(x, d, d1)

Modify(x) == \E k \in 0..numel(tensors[x].shape) - 1 : WriteData(x, k, 7)

Next == Create \/ \E x \in Tensor : MakeView(x) \/ Compute(x) \/ Modify(x)

Spec == Init /\ [][Next]_vars

-----------------------------------------------------------------------------

TypeOK ==
  /\ Len(tensors) <= MaxTensors /\ writes \in 0..MaxWrites
  /\ \A s \in DOMAIN memory : \A k \in DOMAIN memory[s] : memory[s][k] \in Int
  /\ \A x \in Tensor : LET t == tensors[x] IN
       /\ t.storage \in DOMAIN memory /\ t.offset \in Nat
       /\ t.shape \in Seq(Nat) /\ t.stride \in Seq(Nat)
       /\ Len(t.shape) = Len(t.stride)

(* However views of views are stacked, the elements of a tensor lie in its *)
(* storage and no two of them on one place, although nothing keeps the     *)
(* size of the storage in view.  (slicing.cpp 24-74, shape_ops.cpp 25-77)  *)
ElementsInStorage ==
  \A x \in Tensor : LET t == tensors[x] IN
    /\ \A i \in Indices(t.shape) : Address(t, i) \in DOMAIN memory[t.storage]
    /\ \A i, j \in Indices(t.shape) : Address(t, i) = Address(t, j) => i = j

(* The operations ignore strides and read numel() elements from the offset *)
(* on.  For a strided view these are not its elements, but they are in its *)
(* storage: no view, however made, is read past the end.                   *)
(* (Tensor.cpp 22-53, 227-249, 334-619)                                    *)
LinearReadsInStorage ==
  \A x \in Tensor : LET t == tensors[x] IN
    \A k \in 0..numel(t.shape) - 1 : t.offset + k \in DOMAIN memory[t.storage]

Dense(t) == \A k \in 0..numel(t.shape) - 1 :
              Address(t, Unflatten(t.shape, k)) = t.offset + k

(* The refinement mapping: a tensor is an array of places in storages.     *)
ArrayOf(t) ==
  [shape |-> t.shape, dense |-> Dense(t),
   cell |-> [i \in Indices(t.shape) |-> <<t.storage, Address(t, i)>>]]

AsArrays == [x \in Tensor |-> ArrayOf(tensors[x])]

Contents == [c \in UNION {{s} \X DOMAIN memory[s] : s \in DOMAIN memory} |->
               memory[c[1]][c[2]]]

A == INSTANCE Arrays WITH arrays <- AsArrays, content <- Contents

(* Tensors behave as arrays do: a view shows the elements it should and    *)
(* shares them, an operation on dense operands computes what its           *)
(* definition says of the elements at each index, and touches no other     *)
(* tensor.  (Tensor.cpp 22-619, slicing.cpp 24-74, shape_ops.cpp 12-77,    *)
(* factory.cpp 118-169)                                                    *)
ImplementsArrays == A!Spec
=============================================================================
