------------------------------ MODULE Autograd ------------------------------
(***************************************************************************)
(* The forward side of autograd/TensorAutograd.cpp composed with Engine:   *)
(* a client calls tensor operations, whose wirers record backward nodes,   *)
(* toggles requires_grad, writes to parameters in place and calls          *)
(* backward(), which runs the engine over the graph recorded so far.       *)
(*                                                                         *)
(* A tensor has one integer element; tensors are numbered in the order of  *)
(* their creation.  Each has at most one AccumulateGrad and one grad_fn,   *)
(* which are the nodes <<"acc", t>> and <<"fn", t>>.                       *)
(***************************************************************************)
EXTENDS Integers, Sequences, FiniteSets

CONSTANTS Ops,           \* the operations the client uses
          LeafValues,    \* the elements of the tensors that exist at the start
          MaxTensors,    \* bound on the number of tensors
          MaxToggles,    \* bound on the calls of requires_grad(bool)
          MaxWrites,     \* bound on the in-place writes and calls of bump_version()
          MaxPasses,     \* bound on the calls of backward()
          NoNode, Absent, Taken

VARIABLES
  tensors,        \* history of creation: op, operands, element, flags
  version,        \* Storage::version_counter_ of each tensor
  tangent,        \* reference: derivative of each tensor by each leaf
  toggles, writes, passes,  \* counted against the bounds
  switched_off_use,         \* history: see LeafGradIsDerivative
  unannounced,              \* history: see Backward
  next_edges, grad, status, root, to_visit, dependencies, input_buffers,
  ready_queue, node, cursor, input_grads, received   \* see Engine

clientVars == <<tensors, version, tangent, toggles, writes, passes,
                switched_off_use, unannounced>>
passVars   == <<grad, status, root, to_visit, dependencies, input_buffers,
                ready_queue, node, cursor, input_grads, received>>
vars       == <<clientVars, next_edges, passVars>>

TensorId == 1..MaxTensors
Created  == 1..Len(tensors)
Leaves   == 1..Len(LeafValues)

Acc(t) == <<"acc", t>>
Fn(t)  == <<"fn", t>>
Node   == {"acc", "fn"} \X TensorId
Accumulator == {"acc"} \X TensorId

-----------------------------------------------------------------------------
(* The operations, all of them on a row of one column: there softmax is 1  *)
(* whatever its operand, and layernorm, which takes the mean of the row    *)
(* from it first, leaves beta.  sigmoid stands for the operations with an  *)
(* empty wirer; which function they compute is not material.               *)

Binary == {"add", "mul", "matmul"}
Unary  == {"relu", "sum", "transpose", "softmax", "sigmoid"}

ASSUME AutogradAssumption ==
  /\ Ops \subseteq Binary \cup Unary \cup {"layernorm"}
  /\ LeafValues \in Seq(Int) /\ MaxTensors \in Nat /\ Len(LeafValues) <= MaxTensors
  /\ MaxToggles \in Nat /\ MaxWrites \in Nat /\ MaxPasses \in Nat
  /\ NoNode \notin Node /\ Absent \notin Int /\ Taken \notin Int /\ Absent # Taken

Operands(op, T) == CASE op \in Binary -> T \X T
                     [] op \in Unary -> {<<x>> : x \in T}
                     [] op = "layernorm" -> T \X T \X T

Element(op, v) ==
  CASE op = "add"                -> v[1] + v[2]
    [] op \in {"mul", "matmul"}  -> v[1] * v[2]
    [] op = "relu"               -> IF v[1] > 0 THEN v[1] ELSE 0
    [] op = "softmax"            -> 1
    [] op = "sigmoid"            -> v[1] + 1
    [] op \in {"sum", "transpose"} -> v[1]
    [] op = "layernorm"          -> LET mean == v[1] IN (v[1] - mean) * v[2] + v[3]

(* What apply() multiplies the upstream gradient by, from the elements v   *)
(* of the operands and y of the result, for each operand.  LayerNorm's     *)
(* gradient of x is gamma, without the correction for mean and variance,   *)
(* and those of gamma and beta are zero: placeholders, but they are there. *)
WithoutPlaceholders(op, v, y) ==
  CASE op = "add" -> <<1, 1>>
    [] op \in {"mul", "matmul"} -> <<v[2], v[1]>>
    [] op \in {"sum", "transpose"} -> <<1>>
    [] op = "relu" -> <<IF v[1] > 0 THEN 1 ELSE 0>>
    [] op = "softmax" -> <<y * (1 - y)>>
    [] op = "layernorm" -> <<v[2]>>

Derivatives(op, v, y) ==
  CASE op = "add" -> <<1, 1>>
    [] op \in {"mul", "matmul"} -> <<v[2], v[1]>>
    [] op \in {"sum", "transpose"} -> <<1>>
    [] op = "relu" -> <<IF v[1] > 0 THEN 1 ELSE 0>>
    [] op = "softmax" -> <<y * (1 - y)>>
    [] op = "layernorm" -> <<v[2], 0, 0>>

(* Reference: the slope of an operation in its i-th operand, from below,   *)
(* which is exact for these operations on integers.                        *)
Slope(op, v, i) == Element(op, v) - Element(op, [v EXCEPT ![i] = @ - 1])

(* The tensors a backward node keeps in SavedTensors.                      *)
Saves(op, args, out) == CASE op \in {"mul", "matmul"} -> {args[1], args[2]}
                          [] op \in {"relu", "sum"} -> {args[1]}
                          [] op = "softmax" -> {out}
                          [] op = "layernorm" -> {args[1], args[2]}
                          [] OTHER -> {}

-----------------------------------------------------------------------------
(* The graph and the SavedTensors as the engine meets them.                *)

RequiresGrad(t) == tensors[t].requires_grad
HasAcc(t) == tensors[t].has_acc
HasFn(t)  == tensors[t].has_fn

ElementsOf(args) == [i \in 1..Len(args) |-> tensors[args[i]].element]

partials ==
  [n \in Node |->
     IF n[1] = "fn" /\ n[2] \in Created /\ HasFn(n[2])
     THEN LET t == tensors[n[2]]
          IN Derivatives(t.op, ElementsOf(t.args), t.element)
     ELSE <<1>>]

(* SavedTensor::unpack compares the version now with the one it saved.     *)
VersionMismatch(s) == version[s.tensor] # s.version_at_save

stale == {n \in Node : /\ n[1] = "fn" /\ n[2] \in Created /\ HasFn(n[2])
                       /\ \E s \in tensors[n[2]].saved : VersionMismatch(s)}

(* The client keeps its tensors; all gradients are Float32, of one shape.  *)
live == {n \in Accumulator : n[2] \in Created}

E == INSTANCE Engine WITH MaxInputs <- 3, Graphs <- {},
                          unaddable <- {}

-----------------------------------------------------------------------------

Leaf(i, req) == [op |-> "leaf", args |-> <<>>, element |-> LeafValues[i],
                 requires_grad |-> req, has_acc |-> req, has_fn |-> FALSE, saved |-> {}]

Init ==
  /\ \E params \in SUBSET Leaves :
       tensors = [i \in Leaves |-> Leaf(i, i \in params)]
  /\ version = [t \in TensorId |-> 0]
  /\ tangent = [t \in TensorId |-> [x \in Leaves |-> IF t = x THEN 1 ELSE 0]]
  /\ toggles = 0 /\ writes = 0 /\ passes = 0
  /\ switched_off_use = FALSE /\ unannounced = {}
  /\ next_edges = [n \in Node |-> <<>>]
  /\ grad = [n \in Accumulator |-> Absent]
  /\ status = "idle" /\ root = NoNode
  /\ to_visit = <<>> /\ ready_queue = <<>> /\ input_grads = <<>>
  /\ dependencies = [n \in Node |-> Absent]
  /\ input_buffers = [n \in Node |-> Absent]
  /\ received = [n \in Node |-> Absent]
  /\ node = NoNode /\ cursor = 1

(* The client's thread is not inside backward().                           *)
Idle == status \in {"idle", "done", "threw"}

(* The accumulator is made once and stays.                                 *)
DropAccumulator(has_acc, req) == req

KeepAccumulator(has_acc, req) == has_acc \/ req

(* Tensor::requires_grad(bool).                                            *)
SetRequiresGrad(t, req) ==
  /\ Idle /\ toggles < MaxToggles
  /\ toggles' = toggles + 1
  /\ tensors' = [tensors EXCEPT ![t].requires_grad = req,
                                ![t].has_acc = KeepAccumulator(@, req)]
  /\ UNCHANGED <<version, tangent, writes, passes, switched_off_use,
                 unannounced, next_edges, passVars>>

AccOf(x) == IF HasAcc(x) THEN Acc(x) ELSE NoNode

(* wire_unary_helper, wire_sum and wire_transpose go to the operand's      *)
(* grad_fn when it has one; the other wirers always to its accumulator.    *)
Source(op, x) ==
  IF op \in {"relu", "sum", "transpose"} /\ HasFn(x) THEN Fn(x) ELSE AccOf(x)

(* chain_to_grad_fn: the engine walks through the accumulator of an        *)
(* intermediate tensor to the node that computed it.                       *)
LeaveUnchained(edges, out) == edges

ChainToGradFn(edges, out) == [edges EXCEPT ![Acc(out)] = <<Fn(out)>>]

(* The wirer does something when an operand requires a gradient.           *)
Wired(op, args) == op # "sigmoid" /\ \E i \in DOMAIN args : RequiresGrad(args[i])

Forward(op, args) ==
  /\ Idle /\ Len(tensors) < MaxTensors
  /\ LET out   == Len(tensors) + 1
         v     == ElementsOf(args)
         y     == Element(op, v)
         wired == Wired(op, args)
     IN /\ tensors' = Append(tensors,
             [op |-> op, args |-> args, element |-> y,
              requires_grad |-> wired, has_acc |-> wired, has_fn |-> wired,
              saved |-> IF wired
                        THEN {[tensor |-> s, version_at_save |-> version[s],
                               element |-> IF s = out THEN y ELSE tensors[s].element] :
                                s \in Saves(op, args, out)}
                        ELSE {}])
        /\ next_edges' =
             IF wired
             THEN ChainToGradFn([next_edges EXCEPT ![Fn(out)] =
                                   [i \in 1..Len(args) |-> Source(op, args[i])]],
                                out)
             ELSE next_edges
        /\ tangent' = [tangent EXCEPT ![out] = [x \in Leaves |->
             LET through(i) == IF wired /\ i <= Len(args) /\ RequiresGrad(args[i])
                               THEN Slope(op, v, i) * tangent[args[i]][x] ELSE 0
             IN through(1) + through(2) + through(3)]]
  /\ switched_off_use' =
       (switched_off_use \/ \E i \in DOMAIN args :
                              HasAcc(args[i]) /\ ~RequiresGrad(args[i]))
  /\ UNCHANGED <<version, toggles, writes, passes, unannounced, passVars>>

(* An in-place update of a parameter, through data() as all of them are.   *)
(* No version is bumped.                                                   *)
WriteInPlace(x) ==
  /\ Idle /\ writes < MaxWrites
  /\ writes' = writes + 1
  /\ tensors' = [tensors EXCEPT ![x].element = @ + 1]
  /\ UNCHANGED <<version, tangent, toggles, passes, switched_off_use,
                 unannounced, next_edges, passVars>>

(* Tensor::bump_version(): the announcement of a write is a call of its    *)
(* own, which the library and its examples never make and its tests do.    *)
BumpVersion(x) ==
  /\ Idle /\ writes < MaxWrites
  /\ writes' = writes + 1
  /\ version' = [version EXCEPT ![x] = @ + 1]
  /\ UNCHANGED <<tensors, tangent, toggles, passes, switched_off_use,
                 unannounced, next_edges, passVars>>

(* Overwritten since it was saved, and its version does not tell.          *)
Unannounced(s) ==
  /\ tensors[s.tensor].element # s.element
  /\ version[s.tensor] = s.version_at_save

HoldsUnannounced ==
  {n \in Node : /\ n[1] = "fn" /\ n[2] \in Created /\ HasFn(n[2])
               /\ \E s \in tensors[n[2]].saved : Unannounced(s)}

(* Tensor::backward; without a grad_fn it throws and changes nothing.  The *)
(* history keeps the nodes that held such an element when it was called.   *)
Backward(t) ==
  /\ HasFn(t) /\ passes < MaxPasses
  /\ passes' = passes + 1
  /\ unannounced' = HoldsUnannounced
  /\ UNCHANGED <<tensors, version, tangent, toggles, writes, switched_off_use>>
  /\ E!Execute(Fn(t))

EngineStep == UNCHANGED clientVars /\ (E!CountStep \/ E!RunStep)

ClientStep ==
  \/ \E t \in Created, req \in BOOLEAN : SetRequiresGrad(t, req)
  \/ \E op \in Ops : \E args \in Operands(op, Created) : Forward(op, args)
  \/ \E x \in Leaves : WriteInPlace(x) \/ BumpVersion(x)
  \/ \E t \in Created : Backward(t)

Next == ClientStep \/ EngineStep

Spec == Init /\ [][Next]_vars /\ WF_vars(EngineStep)

-----------------------------------------------------------------------------

TypeOK ==
  /\ Len(tensors) \in Len(LeafValues)..MaxTensors
  /\ \A t \in Created :
       /\ tensors[t].element \in Int
       /\ tensors[t].requires_grad \in BOOLEAN /\ tensors[t].has_acc \in BOOLEAN
       /\ tensors[t].requires_grad => tensors[t].has_acc
       /\ HasFn(t) => tensors[t].has_acc
  /\ version \in [TensorId -> Nat]
  /\ toggles \in 0..MaxToggles /\ writes \in 0..MaxWrites /\ passes \in 0..MaxPasses
  /\ switched_off_use \in BOOLEAN /\ unannounced \subseteq Node
  /\ E!TypeOK

(* Every graph execute() is given is one Engine's theorems speak of: it    *)
(* has no cycle, although an accumulator points forward to a newer node,   *)
(* and no node has more edges than its apply() returns gradients, so none  *)
(* is starved by the loop bound of Engine.cpp 50.  Only nodes with an edge *)
(* can lie on a cycle.                                                     *)
(* (TensorAutograd.cpp 78-281)                                             *)
GraphFitsEngine ==
  status = "counting" /\ to_visit = <<root>> =>
    /\ \A S \in SUBSET {n \in Node : next_edges[n] # <<>>} : S # {} =>
         \E n \in S : \A m \in S : \A i \in DOMAIN next_edges[m] : next_edges[m][i] # n
    /\ \A n \in Node : Len(next_edges[n]) <= Len(partials[n]) /\ Len(partials[n]) <= 3
    /\ \A n \in Accumulator : partials[n] = <<1>>

(* The nodes that do not compute the derivative of what the forward pass   *)
(* computed: layernorm's, whose gradients LayerNormBackward.hpp calls      *)
(* simplified and placeholders, and those with an element overwritten      *)
(* with no version to tell it (see AppliesOnlyWhatWasSaved).               *)
Inexact == unannounced \cup {Fn(t) : t \in {u \in Created : tensors[u].op = "layernorm"}}

(* After t.backward(), the grad of every leaf is the derivative of t by    *)
(* that leaf, taken over the operations that were recorded; a leaf that    *)
(* the pass did not touch has derivative zero.  The wirers take three      *)
(* different routes past an intermediate tensor and no path may be lost or *)
(* counted twice; an element overwritten and announced since it was saved  *)
(* makes the pass throw, never end with a wrong gradient; and a pass       *)
(* replaces what an earlier one left.  Left out are passes that applied an *)
(* Inexact node, and programs that use a tensor after requires_grad(false) *)
(* while it still has its accumulator: its edge is recorded nevertheless.  *)
(* (TensorAutograd.cpp 53-146, 181-281, SavedTensor.cpp 7-13)              *)
LeafGradIsDerivative ==
  status = "done" /\ ~switched_off_use /\ (\A n \in Inexact : received[n] = Absent) =>
    \A x \in Leaves :
      IF received[Acc(x)] # Absent
      THEN grad[Acc(x)] = tangent[root[2]][x]
      ELSE tangent[root[2]][x] = 0

(* SavedTensor.hpp 10-11: "unpack() errors if the underlying storage was   *)
(* mutated after saving".  No backward node would then compute with an     *)
(* element other than the one the forward pass saved.                      *)
(* (SavedTensor.cpp 7-13)                                                  *)
AppliesOnlyWhatWasSaved ==
  status \in E!Running =>
    \A t \in {u \in Created : HasFn(u) /\ received[Fn(u)] # Absent} :
      \A s \in tensors[t].saved : tensors[s.tensor].element = s.element
=============================================================================
