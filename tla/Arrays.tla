------------------------------- MODULE Arrays -------------------------------
(***************************************************************************)
(* What tensors promise, without storage, offsets or strides: an array is  *)
(* a shape and a cell for each of its indices; two arrays may share cells, *)
(* and then a write through one is seen through the other.  Views make an  *)
(* array of old cells, operations one of new cells.                        *)
(*                                                                         *)
(* dense says that the cells lie one after another in row-major order.     *)
(* The operations take their operands to be so, and the result of any      *)
(* other has the right shape and unspecified elements.                     *)
(***************************************************************************)
EXTENDS Shapes

CONSTANTS Elementwise(_, _, _),  \* an operation on two elements, by its name
          Rowwise(_, _, _)     \* on an element and its row

VARIABLES arrays,   \* arrays[i] = [shape, cell, dense]
          content,  \* the element in each cell
          call      \* the operation that made the last array

vars == <<arrays, content, call>>

Element(a, index) == content[a.cell[index]]

Appended ==
  /\ Len(arrays') = Len(arrays) + 1
  /\ \A i \in DOMAIN arrays : arrays'[i] = arrays[i]

(* The new array has the cell at(index) of a at each index.                *)
View(a, shape, at(_)) ==
  /\ Appended /\ UNCHANGED content
  /\ LET new == Last(arrays')
     IN /\ new.shape = shape
        /\ \A index \in Indices(shape) : new.cell[index] = a.cell[at(index)]

(* The new array has cells of its own, with the elements of value.         *)
Fresh(shape, specified, value(_)) ==
  /\ Appended
  /\ LET new == Last(arrays')
     IN /\ new.shape = shape /\ new.dense
        /\ IsInjective(new.cell)
        /\ Range(new.cell) \cap DOMAIN content = {}
        /\ DOMAIN content' = DOMAIN content \cup Range(new.cell)
        /\ \A c \in DOMAIN content : content'[c] = content[c]
        /\ specified => \A index \in Indices(shape) :
                          content'[new.cell[index]] = value(index)

Calls(op) == call'.op = op
Operand(i) == arrays[call'.of[i]]
Arg(i) == call'.by[i]
AllDense == \A i \in DOMAIN call'.of : Operand(i).dense

FromEnd(i, n) == IF i < 0 THEN i + n ELSE i

Slice ==
  /\ Calls("slice")
  /\ LET a == Operand(1)   d == Arg(1)
         start == FromEnd(Arg(2), a.shape[d])
     IN View(a, [a.shape EXCEPT ![d] = FromEnd(Arg(3), @) - start],
             LAMBDA index : [index EXCEPT ![d] = @ + start])

Narrow ==
  /\ Calls("narrow")
  /\ LET a == Operand(1)   d == Arg(1)
     IN View(a, [a.shape EXCEPT ![d] = Arg(3)],
             LAMBDA index : [index EXCEPT ![d] = @ + Arg(2)])

Select ==
  /\ Calls("select")
  /\ LET a == Operand(1)   d == Arg(1)
     IN View(a, RemoveAt(a.shape, d),
             LAMBDA index : InsertAt(index, d, FromEnd(Arg(2), a.shape[d])))

Permute ==
  /\ Calls("permute")
  /\ LET a == Operand(1)   dims == call'.by
     IN View(a, [d \in DOMAIN dims |-> a.shape[dims[d]]],
             LAMBDA index : [e \in DOMAIN dims |->
                               index[CHOOSE d \in DOMAIN dims : dims[d] = e]])

Reshape ==
  /\ Calls("reshape") /\ AllDense
  /\ View(Operand(1), call'.by,
          LAMBDA index : Unflatten(Operand(1).shape,
                                   Position(RowMajor(call'.by), index)))

Filled == Calls("full") /\ Fresh(Tail(call'.by), TRUE, LAMBDA index : Arg(1))

(* The numbers start, start + step, ... that lie before end.               *)
Ranged ==
  /\ Calls("arange")
  /\ LET start == Arg(1)   end == Arg(2)   step == Arg(3)
         Before(x) == IF step > 0 THEN x < end ELSE x > end
         span == IF end > start THEN end - start ELSE start - end
     IN Fresh(<<Cardinality({k \in 0..span : Before(start + k * step)})>>, TRUE,
              LAMBDA index : start + index[1] * step)

Copied ==
  /\ Calls("to")
  /\ Fresh(Operand(1).shape, AllDense, LAMBDA index : Element(Operand(1), index))

Mapped ==
  /\ call'.op \in {"add", "sub", "mul", "relu"}
  /\ LET a == Operand(1)   b == Operand(Len(call'.of))
     IN Fresh(a.shape, AllDense,
              LAMBDA index : Elementwise(call'.op, Element(a, index), Element(b, index)))

Multiplied ==
  /\ Calls("matmul")
  /\ LET a == Operand(1)   b == Operand(2)
     IN Fresh(<<a.shape[1], b.shape[2]>>, AllDense,
              LAMBDA index : SumFunction([k \in 0..a.shape[2] - 1 |->
                               Element(a, <<index[1], k>>) * Element(b, <<k, index[2]>>)]))

(* Each element from its row, the elements that differ in the last index.  *)
(* layer_norm scales and shifts it by an element of gamma and of beta.     *)
RowMapped ==
  /\ call'.op \in {"softmax", "layer_norm"}
  /\ LET a == Operand(1)   d == Len(a.shape)
         Row(index) == [j \in 1..a.shape[d] |-> Element(a, [index EXCEPT ![d] = j - 1])]
         Flat(b, k) == Element(b, Unflatten(b.shape, k))
     IN Fresh(a.shape, AllDense,
              LAMBDA index :
                LET y == Rowwise(call'.op, Element(a, index), Row(index))
                IN IF call'.op = "softmax" THEN y
                   ELSE y * Flat(Operand(2), index[d]) + Flat(Operand(3), index[d]))

Summed ==
  /\ Calls("sum")
  /\ LET a == Operand(1)   d == Arg(1)   keepdim == Arg(2) = 1
     IN Fresh(IF keepdim THEN [a.shape EXCEPT ![d] = 1] ELSE RemoveAt(a.shape, d),
              AllDense,
              LAMBDA index :
                SumFunction([k \in 0..a.shape[d] - 1 |->
                   Element(a, IF keepdim THEN [index EXCEPT ![d] = k]
                              ELSE InsertAt(index, d, k))]))

Averaged ==
  /\ Calls("mean")
  /\ Fresh(<<1>>, AllDense,
           LAMBDA one : SumFunction([index \in Indices(Operand(1).shape) |->
                                       Element(Operand(1), index)]))

(* A view, as Tensor.hpp 118-119 documents it, or a copy, as Tensor.cpp    *)
(* makes it.                                                               *)
Transposed ==
  /\ Calls("transpose")
  /\ LET a == Operand(1)
         shape == Swap(a.shape, Arg(1), Arg(2))
     IN \/ View(a, shape, LAMBDA index : Swap(index, Arg(1), Arg(2)))
        \/ Fresh(shape, AllDense, LAMBDA index : Element(a, Swap(index, Arg(1), Arg(2))))

(* A write in place reaches one cell: that of the k-th element in          *)
(* row-major order, if the array is dense.                                 *)
Write ==
  /\ Calls("write") /\ UNCHANGED arrays
  /\ LET a == Operand(1)
     IN \E c \in DOMAIN content :
          /\ a.dense => c = a.cell[Unflatten(a.shape, Arg(1))]
          /\ content' = [content EXCEPT ![c] = Arg(2)]

Init == arrays = <<>> /\ content = <<>> /\ call = [op |-> "none", of |-> <<>>, by |-> <<>>]

Next ==
  \/ Slice \/ Narrow \/ Select \/ Permute \/ Reshape \/ Filled \/ Ranged \/ Copied
  \/ Mapped \/ Multiplied \/ RowMapped \/ Summed \/ Averaged \/ Transposed
  \/ Write

Spec == Init /\ [][Next]_vars
=============================================================================
