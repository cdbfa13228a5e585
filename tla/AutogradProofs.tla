--------------------------- MODULE AutogradProofs ---------------------------
(***************************************************************************)
(* Proofs about Autograd, for every set of operations, every number of     *)
(* tensors and every client: the graphs the wirers record are what the     *)
(* engine's theorems assume, so these hold of every backward pass, and a   *)
(* pass that ends leaves the derivatives in the leaves.                    *)
(***************************************************************************)
EXTENDS Autograd, FiniteSetTheorems, WellFoundedInduction, TLAPS

EP == INSTANCE EngineProofs WITH MaxInputs <- 3, Graphs <- {}, unaddable <- {}

-----------------------------------------------------------------------------

Arity(op) == IF op \in Binary THEN 2 ELSE IF op \in Unary THEN 1 ELSE 3

Wirable == (Binary \cup Unary \cup {"layernorm"}) \ {"sigmoid"}

SavedRecord == [tensor : TensorId, version_at_save : Nat, element : Int]

TensorRecord ==
  [op : Binary \cup Unary \cup {"layernorm", "leaf"}, args : Seq(TensorId),
   element : Int, requires_grad : BOOLEAN, has_acc : BOOLEAN, has_fn : BOOLEAN,
   saved : SUBSET SavedRecord]

TensorsInv ==
  /\ tensors \in Seq(TensorRecord)
  /\ Len(LeafValues) <= Len(tensors) /\ Len(tensors) <= MaxTensors
  /\ version \in [TensorId -> Nat]
  /\ toggles \in 0..MaxToggles /\ writes \in 0..MaxWrites /\ passes \in 0..MaxPasses
  /\ switched_off_use \in BOOLEAN /\ unannounced \subseteq Node
  /\ \A t \in Created :
       /\ tensors[t].requires_grad => tensors[t].has_acc
       /\ HasFn(t) => /\ tensors[t].has_acc /\ tensors[t].op \in Wirable
                      /\ tensors[t].args \in Seq(Created)
                      /\ Len(tensors[t].args) = Arity(tensors[t].op)
       /\ \A s \in tensors[t].saved : s.tensor \in Created

(* A backward node has an edge for each operand, to a node of an older     *)
(* tensor; an accumulator has at most the edge to its own tensor's node.   *)
GraphInv ==
  /\ next_edges \in [Node -> Seq(Node \cup {NoNode})]
  /\ \A t \in TensorId :
       /\ next_edges[Acc(t)] \in {<<>>, <<Fn(t)>>}
       /\ \A i \in 1..Len(next_edges[Fn(t)]) :
            next_edges[Fn(t)][i] \in {NoNode} \cup ({"acc", "fn"} \X (1..(t - 1)))
       /\ next_edges[Fn(t)] # <<>> \/ next_edges[Acc(t)] # <<>> =>
            t \in Created /\ HasFn(t)
       /\ t \in Created /\ HasFn(t) =>
            Len(next_edges[Fn(t)]) = Len(tensors[t].args)

(* A pass keeps to the nodes of tensors that exist.                        *)
VisitedInv == \A n \in Node : dependencies[n] # Absent => n[2] \in Created

IInv == TensorsInv /\ GraphInv /\ VisitedInv /\ EP!IInv

-----------------------------------------------------------------------------
(* The constants meet the assumptions of Engine.                           *)

LEMMA TensorIdIsFinite == IsFiniteSet(TensorId)
BY AutogradAssumption, FS_Interval, 1 \in Int DEF TensorId

LEMMA NodeIsFinite == IsFiniteSet(Node)
<1>1. IsFiniteSet({"acc", "fn"})
  <2>1. IsFiniteSet({} \cup {"acc"})
    BY FS_EmptySet, FS_AddElement
  <2>2. IsFiniteSet(({} \cup {"acc"}) \cup {"fn"})
    BY <2>1, FS_AddElement
  <2>3. {"acc", "fn"} = ({} \cup {"acc"}) \cup {"fn"}
    OBVIOUS
  <2> QED BY <2>2, <2>3
<1> QED BY <1>1, TensorIdIsFinite, FS_Product DEF Node

LEMMA EngineNextIInv == EP!IInv /\ [EP!Next]_(EP!vars) => EP!IInv'
<1>1. EP!IsFiniteSet(Node)
  BY NodeIsFinite DEF IsFiniteSet, EP!IsFiniteSet
<1>2. Accumulator \subseteq Node
  BY DEF Accumulator, Node
<1> QED
  BY <1>1, <1>2, AutogradAssumption, EP!NextIInv DEF EP!NextIInv

(* The engine of EngineProofs is the one Autograd runs.                    *)
LEMMA SameExecute == ASSUME NEW r \in Node \ Accumulator, E!Execute(r) PROVE EP!Next
<1>1. EP!Execute(r)
  BY DEF E!Execute, EP!Execute, E!graph, EP!graph, E!faults, EP!faults
<1> QED BY <1>1 DEF EP!Next

LEMMA SameStep == ASSUME E!CountStep \/ E!RunStep PROVE EP!Next
<1> USE DEF E!graph, EP!graph, E!faults, EP!faults, E!task, EP!task
<1>1. CASE E!CountStep
  <2>1. E!VisitNode => EP!VisitNode
    BY DEF E!VisitNode, EP!VisitNode
  <2>2. E!CountEdge => EP!CountEdge
    BY DEF E!CountEdge, EP!CountEdge, E!CountInboundEdge, EP!CountInboundEdge
  <2>3. E!LeaveNode => EP!LeaveNode
    BY DEF E!LeaveNode, EP!LeaveNode
  <2> QED BY <1>1, <2>1, <2>2, <2>3 DEF E!CountStep, EP!CountStep, EP!Next
<1>2. CASE E!RunStep
  <2> USE DEF E!MoreToDeliver, EP!MoreToDeliver
  <2>1. E!SeedRoot => EP!SeedRoot
    BY DEF E!SeedRoot, EP!SeedRoot
  <2>2. E!PopReady => EP!PopReady
    BY DEF E!PopReady, EP!PopReady
  <2>3. E!ApplyNode => EP!ApplyNode
    BY DEF E!ApplyNode, EP!ApplyNode, E!WritesGrad, EP!WritesGrad
  <2>4. E!ApplyThrows => EP!ApplyThrows
    BY DEF E!ApplyThrows, EP!ApplyThrows
  <2>5. E!SkipNullEdge => EP!SkipNullEdge
    BY DEF E!SkipNullEdge, EP!SkipNullEdge
  <2>6. E!DeliverGrad => EP!DeliverGrad
    BY DEF E!DeliverGrad, EP!DeliverGrad, E!AddThrows, EP!AddThrows, E!AddToBuffer,
           EP!AddToBuffer, E!ReadyAt, EP!ReadyAt
  <2>7. E!DeliverThrows => EP!DeliverThrows
    BY DEF E!DeliverThrows, EP!DeliverThrows, E!AddThrows, EP!AddThrows
  <2>8. E!FinishNode => EP!FinishNode
    BY DEF E!FinishNode, EP!FinishNode
  <2>9. E!Return => EP!Return
    BY DEF E!Return, EP!Return
  <2> QED
    BY <1>2, <2>1, <2>2, <2>3, <2>4, <2>5, <2>6, <2>7, <2>8, <2>9
    DEF E!RunStep, EP!RunStep, EP!Next
<1> QED BY <1>1, <1>2

-----------------------------------------------------------------------------
(* Operations.                                                             *)

LEMMA OperandsType ==
  ASSUME NEW op \in Binary \cup Unary \cup {"layernorm"}, NEW T, NEW args \in Operands(op, T)
  PROVE  args \in Seq(T) /\ Len(args) = Arity(op) /\ Len(args) \in 1..3
<1>1. CASE op \in Binary
  <2>1. Operands(op, T) = T \X T /\ Arity(op) = 2
    BY <1>1 DEF Operands, Arity, Binary, Unary
  <2>2. PICK x \in T, y \in T : args = <<x, y>>
    BY <2>1
  <2> QED BY <2>1, <2>2
<1>2. CASE op \in Unary
  <2>1. Operands(op, T) = {<<x>> : x \in T} /\ Arity(op) = 1
    BY <1>2 DEF Operands, Arity, Binary, Unary
  <2>2. PICK x \in T : args = <<x>>
    BY <2>1
  <2> QED BY <2>1, <2>2
<1>3. CASE op = "layernorm"
  <2>1. Operands(op, T) = T \X T \X T /\ Arity(op) = 3
    BY <1>3 DEF Operands, Arity, Binary, Unary
  <2>2. PICK x \in T, y \in T, z \in T : args = <<x, y, z>>
    BY <2>1
  <2> QED BY <2>1, <2>2
<1> QED BY <1>1, <1>2, <1>3

LEMMA ElementType ==
  ASSUME NEW op \in Binary \cup Unary \cup {"layernorm"}, NEW v \in Seq(Int),
         Len(v) = Arity(op)
  PROVE  Element(op, v) \in Int
BY DEF Element, Arity, Binary, Unary

(* Every backward node returns a gradient for each of its operands.        *)
LEMMA DerivativesType ==
  ASSUME NEW op \in Wirable, NEW v \in Seq(Int), Len(v) = Arity(op), NEW y \in Int
  PROVE  Derivatives(op, v, y) \in Seq(Int) /\ Len(Derivatives(op, v, y)) = Arity(op)
<1>1. CASE op \in Binary
  BY <1>1 DEF Derivatives, Arity, Binary, Unary
<1>2. CASE op \in Unary
  BY <1>2 DEF Derivatives, Arity, Binary, Unary, Wirable
<1>3. CASE op = "layernorm"
  <2>1. Derivatives(op, v, y) = <<v[2], 0, 0>> /\ Len(v) = 3
    BY <1>3 DEF Derivatives, Arity, Binary, Unary
  <2>2. Arity(op) = 3
    BY <1>3 DEF Arity, Binary, Unary
  <2>3. v[2] \in Int
    <3>1. 2 \in 1..Len(v)
      BY <2>1
    <3>2. v \in [1..Len(v) -> Int]
      OBVIOUS
    <3> QED BY <3>1, <3>2
  <2> QED BY <2>1, <2>2, <2>3
<1> QED BY <1>1, <1>2, <1>3 DEF Wirable

LEMMA TensorTypes ==
  ASSUME TensorsInv, NEW t \in Created
  PROVE  /\ tensors[t] \in TensorRecord /\ t \in TensorId
         /\ tensors[t].element \in Int /\ tensors[t].args \in Seq(TensorId)
         /\ tensors[t].saved \in SUBSET SavedRecord
<1>1. tensors \in Seq(TensorRecord) /\ t \in 1..Len(tensors) /\ Len(tensors) <= MaxTensors
  BY DEF TensorsInv, Created
<1>2. tensors[t] \in TensorRecord /\ t \in TensorId
  BY <1>1, AutogradAssumption DEF TensorId
<1> QED BY <1>2 DEF TensorRecord

LEMMA ElementsOfType ==
  ASSUME TensorsInv, NEW args \in Seq(Created)
  PROVE  ElementsOf(args) \in Seq(Int) /\ Len(ElementsOf(args)) = Len(args)
<1>1. ASSUME NEW i \in 1..Len(args) PROVE tensors[args[i]].element \in Int
  <2>1. args[i] \in Created
    OBVIOUS
  <2> QED BY <2>1, TensorTypes
<1>2. ElementsOf(args) \in [1..Len(args) -> Int]
  BY <1>1 DEF ElementsOf
<1> QED BY <1>2, Len(args) \in Nat

-----------------------------------------------------------------------------
(* The recorded graph.                                                     *)

LEMMA NodeForm ==
  ASSUME NEW n \in Node
  PROVE  n[2] \in TensorId /\ ((n = Acc(n[2]) /\ n[1] = "acc") \/ (n = Fn(n[2]) /\ n[1] = "fn"))
<1>1. n[1] \in {"acc", "fn"} /\ n[2] \in TensorId /\ n = <<n[1], n[2]>>
  BY DEF Node
<1>2. CASE n[1] = "acc"
  BY <1>1, <1>2 DEF Acc
<1>3. CASE n[1] = "fn"
  BY <1>1, <1>3 DEF Fn
<1> QED BY <1>1, <1>2, <1>3

LEMMA PartialsType ==
  ASSUME TensorsInv
  PROVE  /\ partials \in [Node -> Seq(Int)]
         /\ \A n \in Accumulator : partials[n] = <<1>>
         /\ \A t \in Created : HasFn(t) => Len(partials[Fn(t)]) = Len(tensors[t].args)
<1>1. ASSUME NEW t \in Created, HasFn(t)
      PROVE  LET d == Derivatives(tensors[t].op, ElementsOf(tensors[t].args),
                                  tensors[t].element)
             IN d \in Seq(Int) /\ Len(d) = Len(tensors[t].args)
  <2>1. /\ tensors[t].op \in Wirable /\ tensors[t].element \in Int
        /\ tensors[t].args \in Seq(Created)
        /\ Len(tensors[t].args) = Arity(tensors[t].op)
    BY <1>1, TensorTypes DEF TensorsInv
  <2> QED BY <2>1, ElementsOfType, DerivativesType
<1>2. <<1>> \in Seq(Int)
  OBVIOUS
<1>3. partials \in [Node -> Seq(Int)]
  BY <1>1, <1>2 DEF partials
<1>4. \A n \in Accumulator : n \in Node /\ n[1] # "fn"
  BY DEF Accumulator, Node
<1>5. \A t \in Created : Fn(t) \in Node /\ Fn(t)[1] = "fn" /\ Fn(t)[2] = t
  BY AutogradAssumption DEF Fn, Node, TensorId, Created, TensorsInv
<1> QED BY <1>1, <1>3, <1>4, <1>5 DEF partials

(* A set of natural numbers has a least member.                            *)
LEMMA LeastMember ==
  ASSUME NEW T \in SUBSET Nat, T # {}
  PROVE  \E x \in T : \A y \in T : x <= y
<1> DEFINE R == OpToRel(<, Nat)
<1>1. IsWellFoundedOn(R, Nat)
  BY NatLessThanWellFounded
<1>2. PICK x \in T : \A y \in T : ~(<<y, x>> \in R)
  <2> HIDE DEF R
  <2> QED BY <1>1, WFMin
<1>3. \A y \in T : ~(y < x)
  BY <1>2 DEF OpToRel
<1> QED BY <1>3

(* Along an edge the rank falls.                                           *)
Rank(n) == IF n[1] = "acc" THEN 2 * n[2] + 1 ELSE 2 * n[2]

LEMMA RankFalls ==
  ASSUME GraphInv, NEW m \in Node, NEW i \in 1..Len(next_edges[m]), next_edges[m][i] \in Node
  PROVE  Rank(next_edges[m][i]) < Rank(m)
<1>1. CASE m = Acc(m[2])
  <2>1. next_edges[m] = <<Fn(m[2])>>
    BY <1>1, NodeForm DEF GraphInv
  <2>2. next_edges[m][i] = Fn(m[2]) /\ m[2] \in Nat /\ m[1] = "acc"
    BY <1>1, <2>1, NodeForm DEF TensorId, Acc
  <2> QED BY <2>2 DEF Rank, Fn
<1>2. CASE m = Fn(m[2])
  <2>1. next_edges[m][i] \in {"acc", "fn"} \X (1..(m[2] - 1))
    BY <1>2, NodeForm, AutogradAssumption DEF GraphInv
  <2>2. m[2] \in Nat /\ m[1] = "fn"
    BY <1>2, NodeForm DEF TensorId, Fn
  <2>3. PICK k \in {"acc", "fn"}, t \in 1..(m[2] - 1) : next_edges[m][i] = <<k, t>>
    BY <2>1
  <2> QED BY <2>2, <2>3 DEF Rank
<1> QED BY <1>1, <1>2, NodeForm

(* The graph has no cycle: in a set of nodes none can have an edge to one  *)
(* of greatest rank.                                                       *)
LEMMA NoCycle ==
  ASSUME GraphInv, NEW S \in SUBSET Node, S # {}
  PROVE  \E n \in S : \A m \in S : \A i \in 1..Len(next_edges[m]) : next_edges[m][i] # n
<1> DEFINE Below(n) == 2 * MaxTensors + 1 - Rank(n)
           T == {Below(n) : n \in S}
<1>1. ASSUME NEW n \in S PROVE Rank(n) \in Nat /\ Below(n) \in Nat
  BY NodeForm, AutogradAssumption, SMTT(20) DEF TensorId, Rank
<1>2. PICK x \in T : \A y \in T : x <= y
  <2>1. T \in SUBSET Nat /\ T # {}
    BY <1>1
  <2> HIDE DEF T
  <2> QED BY <2>1, LeastMember
<1>3. PICK n \in S : x = Below(n)
  BY <1>2
<1>4. ASSUME NEW m \in S, NEW i \in 1..Len(next_edges[m]), next_edges[m][i] = n
      PROVE  FALSE
  <2>1. Rank(n) < Rank(m)
    BY <1>4, RankFalls
  <2>2. Below(n) <= Below(m)
    BY <1>2, <1>3
  <2>3. Rank(n) \in Nat /\ Rank(m) \in Nat /\ MaxTensors \in Nat
    BY <1>1, AutogradAssumption
  <2> QED BY ONLY <2>1, <2>2, <2>3
<1> QED BY <1>4

LEMMA GraphFits ==
  ASSUME TensorsInv, GraphInv
  PROVE  EP!GraphOK /\ GraphFitsEngine
<1>1. ASSUME NEW n \in Node
      PROVE  /\ Len(next_edges[n]) <= Len(partials[n])
             /\ Len(partials[n]) \in 1..3 /\ Len(next_edges[n]) \in Nat
  <2> DEFINE t == n[2]
  <2>1. t \in TensorId /\ Len(next_edges[n]) \in Nat
    BY NodeForm DEF GraphInv
  <2>2. CASE t \in Created /\ HasFn(t) /\ n = Fn(t)
    <3>1. Len(tensors[t].args) = Arity(tensors[t].op)
      BY <2>2 DEF TensorsInv
    <3>2. Len(tensors[t].args) \in 1..3
      BY <3>1 DEF Arity
    <3>3. Len(next_edges[Fn(t)]) = Len(tensors[t].args)
      BY <2>1, <2>2 DEF GraphInv
    <3> QED BY <2>1, <2>2, <3>2, <3>3, PartialsType
  <2>3. CASE ~(t \in Created /\ HasFn(t) /\ n = Fn(t))
    <3>1. partials[n] = <<1>>
      BY <2>3, NodeForm DEF partials
    <3>2. next_edges[n] \in {<<>>, <<Fn(t)>>}
      BY <2>1, <2>3, NodeForm DEF GraphInv
    <3>3. Len(next_edges[n]) \in 0..1
      <4>1. CASE next_edges[n] = <<>>
        BY <4>1
      <4>2. CASE next_edges[n] = <<Fn(t)>>
        BY <4>2
      <4> QED BY <3>2, <4>1, <4>2
    <3>4. Len(partials[n]) = 1
      BY <3>1
    <3>5. \A a \in 0..1 : \A b : b = 1 => a <= b /\ b \in 1..3 /\ a \in Nat
      OBVIOUS
    <3> QED BY <3>3, <3>4, <3>5
  <2> QED BY <2>2, <2>3
<1>2. EP!Acyclic(next_edges)
  BY NoCycle DEF EP!Acyclic
<1>3. \A n \in Node : DOMAIN next_edges[n] = 1..Len(next_edges[n])
  BY DEF GraphInv
<1>4. ASSUME NEW n \in Node PROVE Len(next_edges[n]) <= 3 /\ Len(partials[n]) <= 3
  <2> DEFINE a == Len(next_edges[n])
             b == Len(partials[n])
  <2>1. a \in Nat /\ b \in 1..3 /\ a <= b
    BY <1>1
  <2> HIDE DEF a, b
  <2>2. a <= 3 /\ b <= 3
    BY <2>1
  <2> QED BY <2>2 DEF a, b
<1>5. EP!GraphOK
  BY <1>1, <1>2, <1>4 DEF EP!GraphOK
<1>6. ASSUME NEW S \in SUBSET {n \in Node : next_edges[n] # <<>>}, S # {}
      PROVE  \E n \in S : \A m \in S : \A i \in DOMAIN next_edges[m] : next_edges[m][i] # n
  <2>1. S \in SUBSET Node /\ \A m \in S : DOMAIN next_edges[m] = 1..Len(next_edges[m])
    BY <1>3
  <2>2. PICK n \in S : \A m \in S : \A i \in 1..Len(next_edges[m]) : next_edges[m][i] # n
    BY <1>6, <2>1, NoCycle
  <2> QED BY <2>1, <2>2
<1>7. GraphFitsEngine
  BY <1>1, <1>4, <1>6, PartialsType DEF GraphFitsEngine
<1> QED BY <1>5, <1>7

LEMMA GraphFitsEverywhere ==
  TensorsInv /\ GraphInv => EP!GraphOK /\ partials \in [Node -> Seq(Int)]
BY GraphFits, PartialsType

(* The same of the next state.                                             *)
LEMMA GraphFitsNext ==
  ASSUME TensorsInv', GraphInv'
  PROVE  EP!GraphOK' /\ partials' \in [Node -> Seq(Int)]
<1>1. (TensorsInv /\ GraphInv => EP!GraphOK /\ partials \in [Node -> Seq(Int)])'
  BY GraphFitsEverywhere, PTL
<1> QED BY <1>1

-----------------------------------------------------------------------------
(* Steps of the engine.                                                    *)

LEMMA TargetExists ==
  ASSUME TensorsInv, GraphInv, NEW m \in Node, m[2] \in Created,
         NEW i \in 1..Len(next_edges[m]), next_edges[m][i] # NoNode
  PROVE  next_edges[m][i] \in Node /\ next_edges[m][i][2] \in Created
<1>1. CASE m = Acc(m[2])
  <2>1. next_edges[m] = <<Fn(m[2])>>
    BY <1>1, NodeForm DEF GraphInv
  <2>2. next_edges[m][i] = Fn(m[2])
    BY <2>1
  <2> QED BY <2>2, NodeForm DEF Fn, Node
<1>2. CASE m = Fn(m[2])
  <2>1. next_edges[m][i] \in {"acc", "fn"} \X (1..(m[2] - 1))
    BY <1>2, NodeForm DEF GraphInv
  <2>2. PICK k \in {"acc", "fn"}, t \in 1..(m[2] - 1) : next_edges[m][i] = <<k, t>>
    BY <2>1
  <2>3. t \in Created /\ t \in TensorId
    BY NodeForm, AutogradAssumption DEF Created, TensorId, TensorsInv
  <2> QED BY <2>2, <2>3 DEF Node
<1> QED BY <1>1, <1>2, NodeForm

LEMMA EngineKeepsClient ==
  ASSUME IInv, UNCHANGED <<tensors, version, toggles, writes, switched_off_use, next_edges>>,
         passes' \in 0..MaxPasses, unannounced' \subseteq Node
  PROVE  TensorsInv' /\ GraphInv'
<1>1. Created' = Created /\ \A t : HasFn(t)' = HasFn(t)
  BY DEF Created, HasFn
<1>2. TensorsInv'
  BY <1>1 DEF IInv, TensorsInv
<1>3. GraphInv'
  BY <1>1 DEF IInv, GraphInv
<1> QED BY <1>2, <1>3

(* Nodes that are visited, applied or queued.                              *)
LEMMA NodeAtHandExists ==
  ASSUME IInv, node # NoNode, status \in {"counting", "delivering"}
  PROVE  node \in Node /\ node[2] \in Created
<1>1. node \in Node
  BY DEF IInv, EP!IInv, EP!TypeOK
<1>2. CASE status = "counting"
  <2>1. node \in EP!Visited
    BY <1>2 DEF IInv, EP!IInv, EP!CountingInv
  <2> QED BY <1>1, <2>1 DEF EP!Visited, IInv, VisitedInv
<1>3. CASE status = "delivering"
  <2>1. node \in EP!Applied
    BY <1>3 DEF IInv, EP!IInv, EP!RunningInv, EP!Running
  <2>2. node \in EP!Visited
    BY <1>1, <1>3, <2>1 DEF IInv, EP!IInv, EP!RunningInv, EP!Running, EP!Ready
  <2> QED BY <1>1, <2>2 DEF EP!Visited, IInv, VisitedInv
<1> QED BY <1>2, <1>3

LEMMA EngineStepIInv ==
  ASSUME IInv, EngineStep
  PROVE  IInv'
<1>1. EP!IInv'
  BY SameStep, EngineNextIInv DEF IInv, EngineStep
<1>2. next_edges' = next_edges
  BY DEF EngineStep, E!CountStep, E!RunStep, E!VisitNode, E!CountEdge, E!LeaveNode,
         E!SeedRoot, E!PopReady, E!ApplyNode, E!ApplyThrows, E!SkipNullEdge,
         E!DeliverGrad, E!DeliverThrows, E!FinishNode, E!Return, E!graph
<1>3. TensorsInv' /\ GraphInv'
  BY <1>2, EngineKeepsClient DEF EngineStep, clientVars, IInv, TensorsInv
<1>4. Created' = Created
  BY DEF EngineStep, clientVars, Created
<1>5. dependencies' = dependencies \/ E!CountEdge \/ E!DeliverGrad
  BY DEF EngineStep, E!CountStep, E!RunStep, E!VisitNode, E!LeaveNode,
         E!SeedRoot, E!PopReady, E!ApplyNode, E!ApplyThrows, E!SkipNullEdge,
         E!DeliverThrows, E!FinishNode, E!Return, E!task
<1>6. ASSUME NEW next \in Node, next[2] \in Created, NEW count,
             dependencies' = [dependencies EXCEPT ![next] = count]
      PROVE  VisitedInv'
  BY <1>4, <1>6 DEF IInv, VisitedInv
<1>7. VisitedInv'
  <2>1. CASE dependencies' = dependencies
    BY <1>4, <2>1 DEF IInv, VisitedInv
  <2>2. CASE E!CountEdge
    <3> DEFINE next == next_edges[node][cursor]
    <3>1. node # NoNode /\ status = "counting" /\ cursor <= Len(next_edges[node])
      BY <2>2 DEF E!CountEdge
    <3>2. node \in Node /\ node[2] \in Created
      BY <3>1, NodeAtHandExists
    <3>3. cursor \in 1..Len(next_edges[node])
      BY <3>1, <3>2 DEF IInv, GraphInv, EP!IInv, EP!TypeOK
    <3>4. CASE next = NoNode
      BY <2>1, <2>2, <3>4 DEF E!CountEdge
    <3>5. CASE next # NoNode
      <4>1. next \in Node /\ next[2] \in Created
        BY <3>2, <3>3, <3>5, TargetExists DEF IInv
      <4> QED BY <1>6, <2>2, <3>5, <4>1 DEF E!CountEdge, E!CountInboundEdge
    <3> QED BY <3>4, <3>5
  <2>3. CASE E!DeliverGrad
    <3> DEFINE next == next_edges[node][cursor]
    <3>1. /\ next # NoNode /\ status = "delivering" /\ cursor <= Len(next_edges[node])
          /\ dependencies' = [dependencies EXCEPT ![next] = @ - 1]
      BY <2>3 DEF E!DeliverGrad, E!MoreToDeliver
    <3>2. node \in Node /\ node[2] \in Created
      <4>1. node \in EP!Applied
        BY <3>1 DEF IInv, EP!IInv, EP!RunningInv, EP!Running
      <4>2. node # NoNode
        BY <4>1, AutogradAssumption DEF EP!Applied
      <4> QED BY <3>1, <4>2, NodeAtHandExists
    <3>3. cursor \in 1..Len(next_edges[node])
      BY <3>1, <3>2 DEF IInv, GraphInv, EP!IInv, EP!TypeOK
    <3>4. next \in Node /\ next[2] \in Created
      BY <3>1, <3>2, <3>3, TargetExists DEF IInv
    <3> QED BY <1>6, <3>1, <3>4
  <2> QED BY <1>5, <2>1, <2>2, <2>3
<1> QED BY <1>1, <1>3, <1>7 DEF IInv

LEMMA BackwardIInv ==
  ASSUME IInv, NEW t \in Created, Backward(t)
  PROVE  IInv'
<1>1. Fn(t) \in Node \ Accumulator /\ Fn(t)[2] = t
  BY TensorTypes DEF IInv, Fn, Node, Accumulator
<1>2. EP!IInv'
  BY <1>1, SameExecute, EngineNextIInv DEF IInv, Backward
<1>3. TensorsInv' /\ GraphInv'
  <2>1. passes' \in 0..MaxPasses
    BY AutogradAssumption DEF Backward, IInv, TensorsInv
  <2>2. unannounced' \subseteq Node
    BY DEF Backward, HoldsUnannounced
  <2> QED BY <2>1, <2>2, EngineKeepsClient DEF Backward, E!Execute, E!graph
<1>4. VisitedInv'
  BY <1>1 DEF Backward, E!Execute, VisitedInv, Created
<1> QED BY <1>2, <1>3, <1>4 DEF IInv

-----------------------------------------------------------------------------
(* Steps of the client outside a pass.                                     *)

LEMMA IdleKeepsEngine ==
  ASSUME IInv, Idle, UNCHANGED passVars, TensorsInv', GraphInv',
         \A n \in Node : n[2] \in Created => next_edges'[n] = next_edges[n]
  PROVE  EP!IInv'
<1>1. EP!GraphOK' /\ partials' \in [Node -> Seq(Int)]
  BY GraphFitsNext
<1>2. EP!TypeOK'
  <2>1. stale' \subseteq Node /\ live' \subseteq Accumulator
    BY DEF stale, live
  <2>2. next_edges' \in [Node -> Seq(Node \cup {NoNode})]
    BY DEF GraphInv
  <2> QED BY <1>1, <2>1, <2>2 DEF IInv, EP!IInv, EP!TypeOK, EP!Running, passVars
<1>3. EP!CountingInv'
  BY DEF Idle, passVars, EP!CountingInv
<1>4. EP!NoRepeats(ready_queue)'
  BY DEF IInv, EP!IInv, passVars, EP!NoRepeats
<1>5. ASSUME status = "done" PROVE EP!RunningInv'
  <2>1. /\ EP!Visited' = EP!Visited /\ EP!Applied' = EP!Applied
        /\ \A e : EP!Delivered(e)' <=> EP!Delivered(e)
        /\ \A n : EP!Ready(n)' <=> EP!Ready(n)
        /\ \A n : EP!In(n, ready_queue)' <=> EP!In(n, ready_queue)
    BY DEF passVars, EP!Visited, EP!Applied, EP!Delivered, EP!Ready, EP!In
  <2>2. \A n \in EP!Visited : n \in Node /\ next_edges'[n] = next_edges[n]
    BY DEF IInv, VisitedInv, EP!Visited
  <2>3. \A e : /\ e \in EP!Edges' /\ e[1] \in EP!Visited <=>
                    e \in EP!Edges /\ e[1] \in EP!Visited
               /\ e[1] \in EP!Visited => EP!Target(e)' = EP!Target(e)
    BY <2>2 DEF EP!Edges, EP!Target
  <2>4. \A n : EP!Undelivered(n)' = EP!Undelivered(n)
    BY <2>1, <2>3 DEF EP!Undelivered
  <2> QED
    BY <1>5, <2>1, <2>3, <2>4 DEF IInv, EP!IInv, EP!RunningInv, passVars, EP!Running,
       EP!NoRepeats
<1>6. EP!RunningInv'
  BY <1>5 DEF Idle, passVars, EP!RunningInv, EP!Running
<1> QED BY <1>1, <1>2, <1>3, <1>4, <1>6 DEF EP!IInv

LEMMA SetRequiresGradIInv ==
  ASSUME IInv, NEW t \in Created, NEW req \in BOOLEAN, SetRequiresGrad(t, req)
  PROVE  IInv'
<1> DEFINE new == [tensors[t] EXCEPT !.requires_grad = req,
                                     !.has_acc = KeepAccumulator(@, req)]
<1>1. new \in TensorRecord
  BY TensorTypes DEF IInv, TensorRecord, KeepAccumulator
<1>2. tensors' = [tensors EXCEPT ![t] = new]
  BY DEF SetRequiresGrad, IInv, TensorsInv
<1>3. /\ Len(tensors') = Len(tensors) /\ tensors' \in Seq(TensorRecord)
      /\ Created' = Created
  BY <1>1, <1>2 DEF Created, IInv, TensorsInv
<1>4. ASSUME NEW u \in Created
      PROVE  /\ HasFn(u)' = HasFn(u) /\ tensors'[u].args = tensors[u].args
             /\ tensors'[u].op = tensors[u].op /\ tensors'[u].saved = tensors[u].saved
             /\ tensors'[u].requires_grad => tensors'[u].has_acc
             /\ tensors[u].has_acc => tensors'[u].has_acc
  <2>1. tensors[u] \in TensorRecord /\ u \in DOMAIN tensors
    BY TensorTypes DEF IInv, TensorsInv, Created
  <2>2. tensors[u].requires_grad => tensors[u].has_acc
    BY DEF IInv, TensorsInv
  <2>3. CASE u = t
    <3>1. tensors'[u] = new
      BY <1>2, <2>1, <2>3
    <3>2. /\ new.has_fn = tensors[u].has_fn /\ new.args = tensors[u].args
          /\ new.op = tensors[u].op /\ new.saved = tensors[u].saved
          /\ new.requires_grad = req /\ new.has_acc = KeepAccumulator(tensors[u].has_acc, req)
      BY <2>1, <2>3 DEF TensorRecord
    <3>3. (req => new.has_acc) /\ (tensors[u].has_acc => new.has_acc)
      BY <3>2 DEF KeepAccumulator
    <3> HIDE DEF new
    <3> QED BY <3>1, <3>2, <3>3 DEF HasFn
  <2>4. CASE u # t
    <3>1. tensors'[u] = tensors[u]
      BY <1>2, <2>1, <2>4
    <3> QED BY <2>2, <3>1 DEF HasFn
  <2> QED BY <2>3, <2>4
<1>5. TensorsInv'
  <2>1. /\ toggles' \in 0..MaxToggles
        /\ UNCHANGED <<version, writes, passes, switched_off_use, unannounced>>
    BY AutogradAssumption DEF SetRequiresGrad, IInv, TensorsInv
  <2> QED BY <1>3, <1>4, <2>1 DEF IInv, TensorsInv
<1>6. GraphInv'
  BY <1>3, <1>4 DEF SetRequiresGrad, IInv, GraphInv
<1>7. VisitedInv'
  BY <1>3 DEF SetRequiresGrad, passVars, IInv, VisitedInv
<1> QED BY <1>5, <1>6, <1>7, IdleKeepsEngine DEF IInv, SetRequiresGrad

LEMMA WriteInPlaceIInv ==
  ASSUME IInv, NEW x \in Leaves, WriteInPlace(x)
  PROVE  IInv'
<1>0. x \in Created
  BY AutogradAssumption DEF Leaves, Created, IInv, TensorsInv
<1> DEFINE new == [tensors[x] EXCEPT !.element = @ + 1]
<1>1. new \in TensorRecord
  BY <1>0, TensorTypes DEF IInv, TensorRecord
<1>2. tensors' = [tensors EXCEPT ![x] = new]
  BY DEF WriteInPlace, IInv, TensorsInv
<1>3. /\ Len(tensors') = Len(tensors) /\ tensors' \in Seq(TensorRecord)
      /\ Created' = Created
  BY <1>0, <1>1, <1>2 DEF Created, IInv, TensorsInv
<1>4. ASSUME NEW u \in Created
      PROVE  /\ HasFn(u)' = HasFn(u) /\ tensors'[u].args = tensors[u].args
             /\ tensors'[u].op = tensors[u].op /\ tensors'[u].saved = tensors[u].saved
             /\ tensors'[u].requires_grad = tensors[u].requires_grad
             /\ tensors'[u].has_acc = tensors[u].has_acc
  <2>1. tensors[u] \in TensorRecord
    BY TensorTypes DEF IInv
  <2> QED BY <1>0, <1>2, <2>1, TensorTypes, SMTT(20)
          DEF HasFn, IInv, TensorsInv, TensorRecord, Created
<1>5. version' \in [TensorId -> Nat]
  <2>1. x \in TensorId
    BY <1>0, TensorTypes DEF IInv
  <2> QED BY <2>1 DEF WriteInPlace, IInv, TensorsInv
<1>6. TensorsInv'
  BY <1>3, <1>4, <1>5, AutogradAssumption, SMTT(20) DEF WriteInPlace, IInv, TensorsInv
<1>7. GraphInv'
  BY <1>3, <1>4 DEF WriteInPlace, IInv, GraphInv
<1>8. VisitedInv'
  BY <1>3 DEF WriteInPlace, passVars, IInv, VisitedInv
<1> QED BY <1>6, <1>7, <1>8, IdleKeepsEngine DEF IInv, WriteInPlace

LEMMA BumpVersionIInv ==
  ASSUME IInv, NEW x \in Leaves, BumpVersion(x)
  PROVE  IInv'
<1>1. x \in Created /\ x \in TensorId
  <2>1. x \in Created
    BY AutogradAssumption DEF Leaves, Created, IInv, TensorsInv
  <2> QED BY <2>1, TensorTypes DEF IInv
<1>2. UNCHANGED <<tensors, next_edges, passVars, toggles, passes, switched_off_use, unannounced>>
  BY DEF BumpVersion
<1>3. Created' = Created /\ \A t : HasFn(t)' = HasFn(t)
  BY <1>2 DEF Created, HasFn
<1>4. version' \in [TensorId -> Nat]
  BY <1>1 DEF BumpVersion, IInv, TensorsInv
<1>5. writes' \in 0..MaxWrites
  BY AutogradAssumption DEF BumpVersion, IInv, TensorsInv
<1>6. TensorsInv'
  BY <1>2, <1>3, <1>4, <1>5 DEF IInv, TensorsInv
<1>7. GraphInv'
  BY <1>2, <1>3 DEF IInv, GraphInv
<1>8. VisitedInv'
  BY <1>2, <1>3 DEF passVars, IInv, VisitedInv
<1> QED BY <1>2, <1>6, <1>7, <1>8, IdleKeepsEngine DEF IInv, BumpVersion

LEMMA SavesType ==
  ASSUME NEW op \in Binary \cup Unary \cup {"layernorm"}, NEW T, NEW args \in Seq(T),
         Len(args) = Arity(op), NEW out
  PROVE  Saves(op, args, out) \subseteq T \cup {out}
<1>1. CASE op \in Binary
  BY <1>1 DEF Saves, Arity, Binary, Unary
<1>2. CASE op \in Unary
  BY <1>2 DEF Saves, Arity, Binary, Unary
<1>3. CASE op = "layernorm"
  <2>1. Len(args) = 3
    BY <1>3 DEF Arity, Binary, Unary
  <2>2. Saves(op, args, out) = {args[1], args[2]}
    BY <1>3 DEF Saves
  <2> QED BY <2>1, <2>2
<1> QED BY <1>1, <1>2, <1>3

(* The record a tensor operation makes of its result.                      *)
Result(op, args) ==
  LET out   == Len(tensors) + 1
      y     == Element(op, ElementsOf(args))
      wired == Wired(op, args)
  IN [op |-> op, args |-> args, element |-> y,
      requires_grad |-> wired, has_acc |-> wired, has_fn |-> wired,
      saved |-> IF wired
                THEN {[tensor |-> s, version_at_save |-> version[s],
                       element |-> IF s = out THEN y ELSE tensors[s].element] :
                        s \in Saves(op, args, out)}
                ELSE {}]

LEMMA ResultType ==
  ASSUME IInv, Len(tensors) < MaxTensors, NEW op \in Ops, NEW args \in Operands(op, Created)
  PROVE  /\ args \in Seq(Created) /\ Len(args) = Arity(op)
         /\ Len(tensors) + 1 \in TensorId /\ Len(tensors) + 1 \notin Created
         /\ Element(op, ElementsOf(args)) \in Int /\ Wired(op, args) \in BOOLEAN
         /\ Result(op, args) \in TensorRecord
         /\ Saves(op, args, Len(tensors) + 1) \subseteq Created \cup {Len(tensors) + 1}
<1> DEFINE out == Len(tensors) + 1
           y == Element(op, ElementsOf(args))
<1>1. op \in Binary \cup Unary \cup {"layernorm"}
  BY AutogradAssumption
<1>2. args \in Seq(Created) /\ Len(args) = Arity(op)
  BY <1>1, OperandsType
<1>3. Len(tensors) \in Nat /\ out \in TensorId /\ out \notin Created
  BY AutogradAssumption DEF IInv, TensorsInv, TensorId, Created
<1>4. y \in Int
  BY <1>1, <1>2, ElementsOfType, ElementType DEF IInv
<1>5. Saves(op, args, out) \subseteq Created \cup {out}
  BY <1>1, <1>2, SavesType
<1>6. ASSUME NEW s \in Saves(op, args, out)
      PROVE  [tensor |-> s, version_at_save |-> version[s],
              element |-> IF s = out THEN y ELSE tensors[s].element] \in SavedRecord
  <2>1. s \in TensorId /\ (s # out => tensors[s].element \in Int)
    BY <1>3, <1>5, TensorTypes DEF IInv
  <2> QED BY <1>4, <2>1 DEF SavedRecord, IInv, TensorsInv
<1>7. Wired(op, args) \in BOOLEAN
  BY DEF Wired
<1>8. args \in Seq(TensorId)
  <2>1. Created \subseteq TensorId
    BY TensorTypes DEF IInv
  <2> QED BY <1>2, <2>1
<1>9. Result(op, args) \in TensorRecord
  BY <1>1, <1>4, <1>6, <1>7, <1>8 DEF Result, TensorRecord
<1> QED BY <1>2, <1>3, <1>4, <1>5, <1>7, <1>9

LEMMA SourceType ==
  ASSUME IInv, NEW op, NEW x \in Created
  PROVE  Source(op, x) \in {NoNode} \cup ({"acc", "fn"} \X {x})
BY DEF Source, AccOf, Acc, Fn

LEMMA ForwardTensors ==
  ASSUME IInv, NEW op \in Ops, NEW args \in Operands(op, Created), Forward(op, args)
  PROVE  /\ TensorsInv' /\ Created' = Created \cup {Len(tensors) + 1}
         /\ \A u \in Created : tensors'[u] = tensors[u]
         /\ tensors'[Len(tensors) + 1] = Result(op, args)
<1> DEFINE out == Len(tensors) + 1
           new == Result(op, args)
<1>1. /\ args \in Seq(Created) /\ Len(args) = Arity(op)
      /\ out \in TensorId /\ out \notin Created
      /\ new \in TensorRecord
      /\ Saves(op, args, out) \subseteq Created \cup {out}
  BY ResultType DEF Forward
<1>2. tensors' = Append(tensors, new)
  BY DEF Forward, Result
<1>3. /\ tensors' \in Seq(TensorRecord) /\ Len(tensors') = Len(tensors) + 1
      /\ tensors'[out] = new /\ \A u \in Created : tensors'[u] = tensors[u]
  <2> HIDE DEF new
  <2> QED BY <1>1, <1>2 DEF IInv, TensorsInv, Created
<1>4. Created' = Created \cup {out} /\ Len(tensors') <= MaxTensors
  BY <1>3, AutogradAssumption DEF Created, IInv, TensorsInv, Forward
<1>5. new.has_fn => op \in Wirable
  BY AutogradAssumption DEF Result, Wired, Wirable
<1>6. \A s \in new.saved : s.tensor \in Created \cup {out}
  BY <1>1 DEF Result
<1>7. args \in Seq(Created \cup {out})
  BY <1>1
<1>8. ASSUME NEW u \in Created'
      PROVE  /\ tensors'[u].requires_grad => tensors'[u].has_acc
             /\ HasFn(u)' => /\ tensors'[u].has_acc /\ tensors'[u].op \in Wirable
                             /\ tensors'[u].args \in Seq(Created')
                             /\ Len(tensors'[u].args) = Arity(tensors'[u].op)
             /\ \A s \in tensors'[u].saved : s.tensor \in Created'
  <2>1. CASE u \in Created
    <3>1. tensors[u].args \in Seq(Created) => tensors[u].args \in Seq(Created')
      BY <1>4
    <3> QED BY <1>3, <1>4, <2>1, <3>1 DEF IInv, TensorsInv, HasFn
  <2>2. CASE u = out
    <3>1. /\ new.has_acc = new.requires_grad /\ new.has_fn = new.requires_grad
          /\ new.args = args /\ new.op = op
      BY DEF Result
    <3> HIDE DEF new
    <3> QED BY <1>1, <1>3, <1>4, <1>5, <1>6, <1>7, <2>2, <3>1 DEF HasFn
  <2> QED BY <1>4, <2>1, <2>2
<1>9. switched_off_use' \in BOOLEAN
  BY DEF Forward, IInv, TensorsInv
<1>10. UNCHANGED <<version, toggles, writes, passes, unannounced>>
  BY DEF Forward, passVars
<1>11. TensorsInv'
  BY <1>3, <1>4, <1>8, <1>9, <1>10 DEF IInv, TensorsInv
<1> QED BY <1>3, <1>4, <1>11

LEMMA ForwardGraph ==
  ASSUME IInv, NEW op \in Ops, NEW args \in Operands(op, Created), Forward(op, args)
  PROVE  /\ GraphInv'
         /\ \A n \in Node : n[2] \in Created => next_edges'[n] = next_edges[n]
         /\ Wired(op, args) =>
              /\ next_edges'[Fn(Len(tensors) + 1)] = [i \in 1..Len(args) |-> Source(op, args[i])]
              /\ next_edges'[Acc(Len(tensors) + 1)] = <<Fn(Len(tensors) + 1)>>
<1> DEFINE out == Len(tensors) + 1
           wired == Wired(op, args)
           edges == [i \in 1..Len(args) |-> Source(op, args[i])]
<1>1. /\ args \in Seq(Created) /\ Len(args) = Arity(op)
      /\ out \in TensorId /\ out \notin Created
  BY ResultType DEF Forward
<1>2. /\ Created' = Created \cup {out} /\ \A u \in Created : tensors'[u] = tensors[u]
      /\ tensors'[out].has_fn = wired /\ tensors'[out].args = args
  <2>1. Result(op, args).has_fn = wired /\ Result(op, args).args = args
    BY DEF Result
  <2> QED BY <2>1, ForwardTensors
<1>3. next_edges' = IF wired
                    THEN [[next_edges EXCEPT ![Fn(out)] = edges] EXCEPT ![Acc(out)] = <<Fn(out)>>]
                    ELSE next_edges
  BY DEF Forward, ChainToGradFn
<1>4. ASSUME NEW i \in 1..Len(args)
      PROVE  edges[i] \in {NoNode} \cup ({"acc", "fn"} \X (1..(out - 1)))
  <2>1. args[i] \in Created /\ Created = 1..(out - 1)
    BY <1>1 DEF Created, IInv, TensorsInv
  <2>2. edges[i] \in {NoNode} \cup ({"acc", "fn"} \X {args[i]})
    BY <2>1, SourceType
  <2> QED BY <2>1, <2>2
<1>5. {"acc", "fn"} \X (1..(out - 1)) \subseteq Node
  BY <1>1, AutogradAssumption DEF Node, TensorId
<1>6. edges \in Seq(Node \cup {NoNode}) /\ Len(edges) = Len(args)
  <2>1. edges \in [1..Len(args) -> Node \cup {NoNode}] /\ Len(args) \in Nat
    BY <1>1, <1>4, <1>5
  <2> HIDE DEF edges
  <2> QED BY <2>1
<1>7. Fn(out) \in Node /\ Acc(out) \in Node /\ Fn(out) # Acc(out)
  BY <1>1 DEF Fn, Acc, Node
<1>8. wired => /\ next_edges'[Fn(out)] = edges /\ next_edges'[Acc(out)] = <<Fn(out)>>
  <2> HIDE DEF edges, out, wired
  <2> QED BY <1>3, <1>7 DEF IInv, GraphInv
<1>9. \A n \in Node : n[2] # out => next_edges'[n] = next_edges[n]
  <2>1. \A n \in Node : n[2] # out => n # Fn(out) /\ n # Acc(out)
    BY DEF Fn, Acc
  <2> HIDE DEF edges, out, wired
  <2> QED BY <1>3, <2>1 DEF IInv, GraphInv
<1>10. ~wired => next_edges' = next_edges
  BY <1>3
<1>11. next_edges' \in [Node -> Seq(Node \cup {NoNode})]
  <2>1. <<Fn(out)>> \in Seq(Node \cup {NoNode})
    BY <1>7
  <2> HIDE DEF edges, out, wired
  <2> QED BY <1>3, <1>6, <2>1 DEF IInv, GraphInv
<1>12. ASSUME NEW t \in TensorId
       PROVE  /\ next_edges'[Acc(t)] \in {<<>>, <<Fn(t)>>}
              /\ \A i \in 1..Len(next_edges'[Fn(t)]) :
                   next_edges'[Fn(t)][i] \in {NoNode} \cup ({"acc", "fn"} \X (1..(t - 1)))
              /\ next_edges'[Fn(t)] # <<>> \/ next_edges'[Acc(t)] # <<>> =>
                   t \in Created' /\ HasFn(t)'
              /\ t \in Created' /\ HasFn(t)' =>
                   Len(next_edges'[Fn(t)]) = Len(tensors'[t].args)
  <2>1. CASE t # out
    <3>1. /\ Fn(t) \in Node /\ Fn(t)[2] = t /\ Acc(t) \in Node /\ Acc(t)[2] = t
      BY DEF Fn, Acc, Node
    <3>2. next_edges'[Fn(t)] = next_edges[Fn(t)] /\ next_edges'[Acc(t)] = next_edges[Acc(t)]
      BY <1>9, <2>1, <3>1
    <3>3. t \in Created' <=> t \in Created
      BY <1>2, <2>1
    <3>4. t \in Created => HasFn(t)' = HasFn(t) /\ tensors'[t].args = tensors[t].args
      BY <1>2 DEF HasFn
    <3> QED BY <3>2, <3>3, <3>4 DEF IInv, GraphInv
  <2>2. CASE t = out /\ wired
    <3> HIDE DEF edges, out, wired
    <3> QED BY <1>2, <1>4, <1>6, <1>8, <2>2 DEF HasFn
  <2>3. CASE t = out /\ ~wired
    <3>1. next_edges[Fn(t)] = <<>> /\ next_edges[Acc(t)] = <<>>
      BY <1>1, <2>3 DEF IInv, GraphInv
    <3> HIDE DEF edges, out, wired
    <3> QED BY <1>2, <1>10, <2>3, <3>1 DEF HasFn
  <2> QED BY <2>1, <2>2, <2>3
<1>13. GraphInv'
  BY <1>11, <1>12 DEF GraphInv
<1> QED BY <1>1, <1>8, <1>9, <1>13

LEMMA ForwardIInv ==
  ASSUME IInv, NEW op \in Ops, NEW args \in Operands(op, Created), Forward(op, args)
  PROVE  IInv'
<1>1. TensorsInv' /\ Created \subseteq Created'
  BY ForwardTensors
<1>2. VisitedInv'
  BY <1>1 DEF Forward, passVars, IInv, VisitedInv
<1>3. EP!IInv'
  BY <1>1, ForwardGraph, IdleKeepsEngine DEF Forward
<1> QED BY <1>1, <1>2, <1>3, ForwardGraph DEF IInv

-----------------------------------------------------------------------------

LEMMA InitIInv == Init => IInv
<1> SUFFICES ASSUME Init PROVE IInv
  OBVIOUS
<1>1. PICK params \in SUBSET Leaves : tensors = [i \in Leaves |-> Leaf(i, i \in params)]
  BY DEF Init
<1>2. ASSUME NEW i \in Leaves
      PROVE  tensors[i] \in TensorRecord /\ tensors[i].saved = {} /\ ~tensors[i].has_fn
             /\ (tensors[i].requires_grad => tensors[i].has_acc)
  BY <1>1, AutogradAssumption DEF Leaf, TensorRecord, Leaves
<1>3. tensors \in Seq(TensorRecord) /\ Len(tensors) = Len(LeafValues) /\ Created = Leaves
  <2>1. tensors \in [1..Len(LeafValues) -> TensorRecord] /\ Len(LeafValues) \in Nat
    BY <1>1, <1>2, AutogradAssumption DEF Leaves
  <2> QED BY <2>1 DEF Created, Leaves
<1>4. TensorsInv
  <2>1. \A t \in Created :
          /\ tensors[t].requires_grad => tensors[t].has_acc
          /\ HasFn(t) => /\ tensors[t].has_acc /\ tensors[t].op \in Wirable
                         /\ tensors[t].args \in Seq(Created)
                         /\ Len(tensors[t].args) = Arity(tensors[t].op)
          /\ \A s \in tensors[t].saved : s.tensor \in Created
    BY <1>2, <1>3 DEF HasFn
  <2>2. /\ version \in [TensorId -> Nat]
        /\ toggles \in 0..MaxToggles /\ writes \in 0..MaxWrites /\ passes \in 0..MaxPasses
        /\ switched_off_use \in BOOLEAN /\ unannounced \subseteq Node
    <3>1. /\ toggles = 0 /\ writes = 0 /\ passes = 0 /\ switched_off_use = FALSE
          /\ unannounced = {}
          /\ version = [t \in TensorId |-> 0]
      BY DEF Init
    <3>2. MaxToggles \in Nat /\ MaxWrites \in Nat /\ MaxPasses \in Nat
      BY AutogradAssumption
    <3>3. version \in [TensorId -> Nat]
      BY <3>1
    <3>4. toggles \in 0..MaxToggles /\ writes \in 0..MaxWrites /\ passes \in 0..MaxPasses
      BY <3>1, <3>2
    <3>5. switched_off_use \in BOOLEAN /\ unannounced \subseteq Node
      BY <3>1
    <3> QED BY <3>3, <3>4, <3>5
  <2>3. Len(LeafValues) <= Len(tensors) /\ Len(tensors) <= MaxTensors
    BY <1>3, AutogradAssumption
  <2> QED BY <1>3, <2>1, <2>2, <2>3 DEF TensorsInv
<1>5. GraphInv
  <2>1. \A t \in TensorId : Fn(t) \in Node /\ Acc(t) \in Node
    BY DEF Fn, Acc, Node
  <2>2. \A t \in Created : ~HasFn(t)
    BY <1>2, <1>3 DEF HasFn
  <2> QED BY <2>1, <2>2 DEF Init, GraphInv
<1>6. VisitedInv
  BY DEF Init, VisitedInv
<1>7. EP!TypeOK
  <2>1. partials \in [Node -> Seq(Int)] /\ next_edges \in [Node -> Seq(Node \cup {NoNode})]
    BY <1>4, PartialsType DEF Init
  <2>2. stale \subseteq Node /\ live \subseteq Accumulator
    BY DEF stale, live
  <2> QED BY <2>1, <2>2 DEF Init, EP!TypeOK
<1>8. EP!IInv
  BY <1>4, <1>5, <1>7, GraphFits DEF Init, EP!IInv, EP!CountingInv, EP!RunningInv,
     EP!Running, EP!NoRepeats
<1> QED BY <1>4, <1>5, <1>6, <1>8 DEF IInv

LEMMA NextIInv == IInv /\ [Next]_vars => IInv'
<1> SUFFICES ASSUME IInv, [Next]_vars PROVE IInv'
  OBVIOUS
<1>1. ASSUME NEW t \in Created, NEW req \in BOOLEAN, SetRequiresGrad(t, req) PROVE IInv'
  BY <1>1, SetRequiresGradIInv
<1>2. ASSUME NEW op \in Ops, NEW args \in Operands(op, Created), Forward(op, args) PROVE IInv'
  BY <1>2, ForwardIInv
<1>3. ASSUME NEW x \in Leaves, WriteInPlace(x) PROVE IInv'
  BY <1>3, WriteInPlaceIInv
<1>7. ASSUME NEW x \in Leaves, BumpVersion(x) PROVE IInv'
  BY <1>7, BumpVersionIInv
<1>4. ASSUME NEW t \in Created, Backward(t) PROVE IInv'
  BY <1>4, BackwardIInv
<1>5. CASE EngineStep
  BY <1>5, EngineStepIInv
<1>6. CASE UNCHANGED vars
  <2>1. UNCHANGED <<next_edges, passVars, tensors, version, toggles, writes, passes,
                    switched_off_use, unannounced>>
    BY <1>6 DEF vars, clientVars
  <2>2. /\ Created' = Created /\ partials' = partials /\ stale' = stale /\ live' = live
    BY <2>1 DEF Created, partials, stale, live, HasFn, ElementsOf, VersionMismatch
  <2>3. UNCHANGED EP!vars
    BY <2>1, <2>2 DEF EP!vars, EP!graph, EP!faults, EP!task, passVars
  <2>4. EP!IInv'
    BY <2>3, EngineNextIInv DEF IInv
  <2>5. TensorsInv' /\ GraphInv'
    BY <2>1, EngineKeepsClient DEF IInv, TensorsInv
  <2>6. VisitedInv'
    BY <2>1, <2>2 DEF IInv, VisitedInv, passVars
  <2> QED BY <2>4, <2>5, <2>6 DEF IInv
<1> QED BY <1>1, <1>2, <1>3, <1>4, <1>5, <1>6, <1>7 DEF Next, ClientStep

LEMMA InvariantIInv == Spec => []IInv
BY InitIInv, NextIInv, PTL DEF Spec

(* TensorAutograd.cpp and Engine.cpp: whatever the client does, every      *)
(* variable of the client and of the engine keeps its type.                *)
THEOREM TypeCorrect == Spec => []TypeOK
<1>1. IInv => TypeOK
  <2> SUFFICES ASSUME IInv PROVE TypeOK
    OBVIOUS
  <2>1. E!TypeOK
    BY DEF IInv, EP!IInv, EP!TypeOK, E!TypeOK, E!Running, EP!Running
  <2>2. \A t \in Created : /\ tensors[t].element \in Int
                           /\ tensors[t].requires_grad \in BOOLEAN
                           /\ tensors[t].has_acc \in BOOLEAN
    BY TensorTypes DEF IInv, TensorRecord
  <2> QED BY <2>1, <2>2 DEF IInv, TensorsInv, TypeOK
<1> QED BY <1>1, InvariantIInv, PTL

(* TensorAutograd.cpp: every graph a client can record is acyclic and      *)
(* returns a gradient for each edge, as Engine's theorems assume.          *)
THEOREM GraphsFit == Spec => []GraphFitsEngine
<1>1. IInv => GraphFitsEngine
  BY GraphFits DEF IInv
<1> QED BY <1>1, InvariantIInv, PTL

LEMMA AllApplied == IInv => EP!DoneMeansAllApplied
BY NodeIsFinite, AutogradAssumption, Accumulator \subseteq Node, EP!NoneLeftOver
DEF EP!NoneLeftOver, EP!IsFiniteSet, IsFiniteSet, Accumulator, Node, IInv

(* The engine's promises, kept for whatever the client records: a node is  *)
(* applied once and only to its whole gradient, and backward() returns     *)
(* when it has applied every node below the tensor it was called on.       *)
(* (TensorAutograd.cpp 53-281 with Engine.cpp 11-67)                       *)
THEOREM PassIsComplete == Spec => [](E!AppliedOnceAndComplete /\ E!DoneMeansAllApplied)
<1>1. IInv => E!AppliedOnceAndComplete
  BY DEF IInv, EP!IInv, EP!RunningInv, EP!Running, EP!Ready, EP!Applied, EP!Undelivered,
     EP!Edges, EP!Visited, EP!Target, EP!Delivered, E!AppliedOnceAndComplete, E!Applied,
     E!Undelivered, E!Edges, E!Visited, E!Target, E!Delivered
<1>2. IInv => E!DoneMeansAllApplied
  <2>1. EP!DoneMeansAllApplied => E!DoneMeansAllApplied
    BY DEF EP!DoneMeansAllApplied, E!DoneMeansAllApplied, EP!Visited, E!Visited,
       EP!Applied, E!Applied
  <2> QED BY <2>1, AllApplied
<1> QED BY <1>1, <1>2, InvariantIInv, PTL

-----------------------------------------------------------------------------
(* The elements that the nodes saved and those found there now.  A write   *)
(* adds one, so an element overwritten never becomes what it was again.    *)

SavedInv ==
  \A t \in Created : \A s \in tensors[t].saved : s.element <= tensors[s.tensor].element

(* What the client did to the saved elements before backward() is known as *)
(* long as the pass runs.                                                  *)
NoticedInv ==
  status \in EP!Running \cup {"counting"} => unannounced = HoldsUnannounced

LEMMA WriteKeepsSaved ==
  ASSUME IInv, SavedInv, NEW x \in Leaves, WriteInPlace(x)
  PROVE  SavedInv'
<1>1. x \in Created
  BY AutogradAssumption DEF Leaves, Created, IInv, TensorsInv
<1>2. /\ Created' = Created
      /\ \A u \in Created : /\ tensors'[u].saved = tensors[u].saved
                            /\ tensors[u].element \in Int
                            /\ tensors[u].element <= tensors'[u].element
                            /\ tensors'[u].element \in Int
  <2>1. tensors' = [tensors EXCEPT ![x].element = @ + 1] /\ tensors \in Seq(TensorRecord)
    BY DEF WriteInPlace, IInv, TensorsInv
  <2>2. Len(tensors') = Len(tensors)
    BY <2>1
  <2>3. \A u \in Created : tensors[u] \in TensorRecord
    BY TensorTypes DEF IInv
  <2> QED BY <1>1, <2>1, <2>2, <2>3 DEF Created, TensorRecord
<1> SUFFICES ASSUME NEW t \in Created, NEW s \in tensors[t].saved
             PROVE  s.element <= tensors'[s.tensor].element
  BY <1>2 DEF SavedInv
<1>3. s.tensor \in Created /\ s.element \in Int /\ s.element <= tensors[s.tensor].element
  BY TensorTypes DEF IInv, TensorsInv, SavedRecord, SavedInv
<1> QED BY <1>2, <1>3

LEMMA ForwardKeepsSaved ==
  ASSUME IInv, SavedInv, NEW op \in Ops, NEW args \in Operands(op, Created),
         Forward(op, args)
  PROVE  SavedInv'
<1> DEFINE out == Len(tensors) + 1
<1>1. /\ Created' = Created \cup {out} /\ out \notin Created
      /\ \A u \in Created : tensors'[u] = tensors[u]
      /\ tensors'[out] = Result(op, args)
      /\ Saves(op, args, out) \subseteq Created \cup {out}
      /\ Element(op, ElementsOf(args)) \in Int
  BY ForwardTensors, ResultType DEF Forward
<1> SUFFICES ASSUME NEW t \in Created', NEW s \in tensors'[t].saved
             PROVE  s.element <= tensors'[s.tensor].element
  BY DEF SavedInv
<1>2. CASE t \in Created
  <2>1. s \in tensors[t].saved /\ s.tensor \in Created
    BY <1>1, <1>2 DEF IInv, TensorsInv
  <2> QED BY <1>1, <1>2, <2>1 DEF SavedInv
<1>3. CASE t = out
  <2>1. s \in Result(op, args).saved
    BY <1>1, <1>3
  <2>2. PICK u \in Saves(op, args, out) :
          s = [tensor |-> u, version_at_save |-> version[u],
               element |-> IF u = out THEN Element(op, ElementsOf(args))
                                      ELSE tensors[u].element]
    BY <2>1 DEF Result
  <2>3. Result(op, args).element = Element(op, ElementsOf(args))
    BY DEF Result
  <2>4. s.tensor = u /\ s.element = tensors'[u].element
    BY <1>1, <2>2, <2>3
  <2>5. s.element \in Int
    BY <1>1, <2>2, TensorTypes DEF IInv
  <2> QED BY <2>4, <2>5
<1> QED BY <1>1, <1>2, <1>3

LEMMA SetRequiresGradKeepsSaved ==
  ASSUME IInv, SavedInv, NEW t \in Created, NEW req \in BOOLEAN, SetRequiresGrad(t, req)
  PROVE  SavedInv'
<1>1. tensors \in Seq(TensorRecord) /\
      tensors' = [tensors EXCEPT ![t].requires_grad = req,
                                 ![t].has_acc = KeepAccumulator(@, req)]
  BY DEF SetRequiresGrad, IInv, TensorsInv
<1>2. Len(tensors') = Len(tensors) /\ Created' = Created
  BY <1>1 DEF Created
<1>3. ASSUME NEW u \in Created
      PROVE  /\ tensors'[u].saved = tensors[u].saved
             /\ tensors'[u].element = tensors[u].element
  <2>1. tensors[u] \in TensorRecord /\ tensors[t] \in TensorRecord
    BY TensorTypes DEF IInv
  <2> QED BY <1>1, <2>1 DEF TensorRecord, Created
<1>4. \A u \in Created : \A s \in tensors[u].saved : s.tensor \in Created
  BY DEF IInv, TensorsInv
<1> QED BY <1>2, <1>3, <1>4 DEF SavedInv

LEMMA SavedNext ==
  ASSUME IInv, SavedInv, NoticedInv, [Next]_vars
  PROVE  SavedInv' /\ NoticedInv'
<1>1. ASSUME tensors' = tensors PROVE SavedInv'
  BY <1>1 DEF SavedInv, Created
<1>2. ASSUME tensors' = tensors, version' = version
      PROVE  HoldsUnannounced' = HoldsUnannounced
  BY <1>2 DEF HoldsUnannounced, Unannounced, Created, HasFn
<1>3. ASSUME Idle, passVars' = passVars PROVE NoticedInv'
  BY <1>3 DEF NoticedInv, Idle, passVars, EP!Running
<1>4. ASSUME NEW t \in Created, NEW req \in BOOLEAN, SetRequiresGrad(t, req)
      PROVE  SavedInv' /\ NoticedInv'
  BY <1>3, <1>4, SetRequiresGradKeepsSaved DEF SetRequiresGrad
<1>5. ASSUME NEW op \in Ops, NEW args \in Operands(op, Created), Forward(op, args)
      PROVE  SavedInv' /\ NoticedInv'
  BY <1>3, <1>5, ForwardKeepsSaved DEF Forward
<1>6. ASSUME NEW x \in Leaves, WriteInPlace(x) PROVE SavedInv' /\ NoticedInv'
  BY <1>3, <1>6, WriteKeepsSaved DEF WriteInPlace
<1>7. ASSUME NEW x \in Leaves, BumpVersion(x) PROVE SavedInv' /\ NoticedInv'
  BY <1>1, <1>3, <1>7 DEF BumpVersion
<1>8. ASSUME NEW t \in Created, Backward(t) PROVE SavedInv' /\ NoticedInv'
  BY <1>1, <1>2, <1>8 DEF Backward, NoticedInv
<1>9. CASE EngineStep
  <2>1. UNCHANGED <<tensors, version, unannounced>>
    BY <1>9 DEF EngineStep, clientVars
  <2>2. status \in EP!Running \cup {"counting"}
    BY <1>9 DEF EngineStep, E!CountStep, E!RunStep, E!VisitNode, E!CountEdge, E!LeaveNode,
           E!SeedRoot, E!PopReady, E!ApplyNode, E!ApplyThrows, E!SkipNullEdge,
           E!DeliverGrad, E!DeliverThrows, E!FinishNode, E!Return, EP!Running
  <2> QED BY <1>1, <1>2, <2>1, <2>2 DEF NoticedInv
<1>10. CASE UNCHANGED vars
  BY <1>1, <1>2, <1>10 DEF vars, clientVars, passVars, NoticedInv
<1> QED BY <1>4, <1>5, <1>6, <1>7, <1>8, <1>9, <1>10 DEF Next, ClientStep

-----------------------------------------------------------------------------
(* The derivatives a pass leaves in the leaves.  The tangent of a tensor   *)
(* by a leaf x is what x weighs at the tensor's nodes; a node that has no  *)
(* edge on to anything weighs nothing.                                     *)

Weight(n, x) == IF n[1] = "fn" /\ ~HasFn(n[2]) THEN 0 ELSE tangent[n[2]][x]

(* What goes on to x over the i-th edge of n.                              *)
Flow(n, i, x) ==
  IF i <= Len(next_edges[n]) /\ next_edges[n][i] # NoNode
  THEN partials[n][i] * Weight(next_edges[n][i], x) ELSE 0

IsTangent(t) ==
  \A x \in Leaves :
    tangent[t][x] = Flow(Fn(t), 1, x) + Flow(Fn(t), 2, x) + Flow(Fn(t), 3, x)

(* What the wirers record of a tensor.                                     *)
RecordInv ==
  /\ tangent \in [TensorId -> [Leaves -> Int]]
  /\ \A t \in Leaves : ~HasFn(t)
  /\ \A t \in Created :
       IF HasFn(t)
       THEN /\ next_edges[Acc(t)] = <<Fn(t)>>
            /\ \A u \in Saves(tensors[t].op, tensors[t].args, t) :
                 \E s \in tensors[t].saved : s.tensor = u
       ELSE \A x \in Leaves : tangent[t][x] = IF t = x THEN 1 ELSE 0

(* Nobody overwrote what the node of t saved, and its apply() computes the *)
(* derivative of the operation.                                            *)
Intact(t) ==
  /\ tensors[t].op # "layernorm"
  /\ \A s \in tensors[t].saved : tensors[s.tensor].element = s.element

(* The chain rule at each such node.                                       *)
TangentInv ==
  ~switched_off_use => \A t \in Created : HasFn(t) /\ Intact(t) => IsTangent(t)

ChainInv == RecordInv /\ TangentInv

LEMMA ProductSlope ==
  \A a, b \in Int : a * b - (a - 1) * b = b /\ a * b - a * (b - 1) = a
OBVIOUS

LEMMA SlopeType ==
  ASSUME NEW op \in Wirable, NEW v \in Seq(Int), Len(v) = Arity(op), NEW i \in 1..Arity(op)
  PROVE  Slope(op, v, i) \in Int
<1> DEFINE w == [v EXCEPT ![i] = @ - 1]
<1>1. i \in 1..Len(v) /\ v[i] - 1 \in Int
  OBVIOUS
<1>2. w \in Seq(Int) /\ Len(w) = Arity(op)
  BY <1>1
<1>3. Element(op, v) \in Int /\ Element(op, w) \in Int
  <2> HIDE DEF w
  <2> QED BY <1>2, ElementType DEF Wirable
<1>4. Slope(op, v, i) = Element(op, v) - Element(op, w)
  BY DEF Slope
<1> HIDE DEF w
<1> QED BY <1>3, <1>4

LEMMA SlopeIsDerivative ==
  ASSUME NEW op \in Wirable \ {"layernorm"}, NEW v \in Seq(Int), Len(v) = Arity(op), NEW i \in 1..Arity(op)
  PROVE  Slope(op, v, i) = Derivatives(op, v, Element(op, v))[i]
<1>1. CASE op = "add"
  <2>1. Arity(op) = 2
    BY <1>1 DEF Arity, Binary
  <2>2. v[1] \in Int /\ v[2] \in Int /\ i \in {1, 2}
    BY <2>1
  <2>3. Derivatives(op, v, Element(op, v))[i] = 1
    BY <1>1, <2>2 DEF Derivatives
  <2> DEFINE w == [v EXCEPT ![i] = @ - 1]
  <2>4. w[i] = v[i] - 1 /\ \A j \in {1, 2} : j # i => w[j] = v[j]
    BY <2>1, <2>2
  <2>5. Slope(op, v, i) = Element(op, v) - Element(op, w)
    BY <1>1 DEF Slope
  <2>6. Element(op, v) = v[1] + v[2] /\ Element(op, w) = w[1] + w[2]
    BY <1>1 DEF Element
  <2> HIDE DEF w
  <2> QED BY <2>2, <2>3, <2>4, <2>5, <2>6
<1>2. CASE op \in {"mul", "matmul"}
  <2>1. Arity(op) = 2
    BY <1>2 DEF Arity, Binary
  <2>2. v[1] \in Int /\ v[2] \in Int /\ i \in {1, 2}
    BY <2>1
  <2>3. Derivatives(op, v, Element(op, v)) = <<v[2], v[1]>>
    BY <1>2 DEF Derivatives
  <2> DEFINE w == [v EXCEPT ![i] = @ - 1]
  <2>4. w[i] = v[i] - 1 /\ \A j \in {1, 2} : j # i => w[j] = v[j]
    BY <2>1, <2>2
  <2>5. Slope(op, v, i) = Element(op, v) - Element(op, w)
    BY <1>2 DEF Slope
  <2>6. Element(op, v) = v[1] * v[2] /\ Element(op, w) = w[1] * w[2]
    BY <1>2 DEF Element
  <2> HIDE DEF w
  <2>7. CASE i = 1
    <3>1. w[1] = v[1] - 1 /\ w[2] = v[2]
      BY <2>4, <2>7
    <3>2. v[1] * v[2] - (v[1] - 1) * v[2] = v[2]
      BY ONLY <2>2, ProductSlope, Zenon
    <3>3. Slope(op, v, i) = v[2]
      BY <2>5, <2>6, <3>1, <3>2, Zenon
    <3> QED BY <2>3, <2>7, <3>3
  <2>8. CASE i = 2
    <3>1. w[1] = v[1] /\ w[2] = v[2] - 1
      BY <2>4, <2>8
    <3>2. v[1] * v[2] - v[1] * (v[2] - 1) = v[1]
      BY ONLY <2>2, ProductSlope, Zenon
    <3>3. Slope(op, v, i) = v[1]
      BY <2>5, <2>6, <3>1, <3>2, Zenon
    <3> QED BY <2>3, <2>8, <3>3
  <2> QED BY <2>2, <2>7, <2>8
<1>3. CASE op \in {"relu", "sum", "transpose"}
  <2>1. Arity(op) = 1
    BY <1>3 DEF Arity, Binary, Unary
  <2>2. v[1] \in Int /\ i = 1
    BY <2>1
  <2> QED BY <1>3, <2>1, <2>2 DEF Slope, Derivatives, Element
<1>4. CASE op = "softmax"
  <2>1. i = 1
    BY <1>4 DEF Arity, Binary, Unary
  <2>2. Derivatives(op, v, Element(op, v)) = <<1 * (1 - 1)>> /\ Slope(op, v, i) = 1 - 1
    BY <1>4 DEF Derivatives, Element, Slope
  <2> QED BY <2>1, <2>2
<1> QED BY <1>1, <1>2, <1>3, <1>4 DEF Wirable, Binary, Unary

(* A node's derivatives depend on what it saved only.                      *)
LEMMA DerivativesOfSaved ==
  ASSUME NEW op \in Wirable, NEW T, NEW args \in Seq(T), Len(args) = Arity(op), NEW t,
         NEW v \in Seq(Int), NEW w \in Seq(Int), NEW y,
         \A i \in 1..Len(args) : args[i] \in Saves(op, args, t) => v[i] = w[i]
  PROVE  Derivatives(op, v, y) = Derivatives(op, w, y)
<1>1. CASE op \in {"mul", "matmul"}
  <2>1. Len(args) = 2 /\ Saves(op, args, t) = {args[1], args[2]}
    BY <1>1 DEF Arity, Binary, Saves
  <2>2. v[1] = w[1] /\ v[2] = w[2]
    BY <2>1
  <2> QED BY <1>1, <2>2 DEF Derivatives
<1>2. CASE op = "relu"
  <2>1. Len(args) = 1 /\ Saves(op, args, t) = {args[1]}
    BY <1>2 DEF Arity, Binary, Unary, Saves
  <2>2. v[1] = w[1]
    BY <2>1
  <2> QED BY <1>2, <2>2 DEF Derivatives
<1>3. CASE op = "layernorm"
  <2>1. Len(args) = 3 /\ Saves(op, args, t) = {args[1], args[2]}
    BY <1>3 DEF Arity, Binary, Unary, Saves
  <2>2. v[2] = w[2]
    BY <2>1
  <2> QED BY <1>3, <2>2 DEF Derivatives
<1>4. CASE op \in {"add", "sum", "transpose", "softmax"}
  BY <1>4 DEF Derivatives
<1> QED BY <1>1, <1>2, <1>3, <1>4 DEF Wirable, Binary, Unary

(* What a step must leave alone for the chain rule at t to stay.           *)
SameTensor(t) ==
  /\ HasFn(t)' = HasFn(t)
  /\ tensors'[t].op = tensors[t].op /\ tensors'[t].args = tensors[t].args
  /\ tensors'[t].saved = tensors[t].saved

LEMMA ElementsAreIntegers == TensorsInv => \A u \in Created : tensors[u].element \in Int
BY TensorTypes

LEMMA PartialsStay ==
  ASSUME TensorsInv, TensorsInv', Created \subseteq Created',
         NEW t \in Created, HasFn(t), SameTensor(t), tensors'[t].element = tensors[t].element,
         \A u \in Created : u \in Saves(tensors[t].op, tensors[t].args, t) =>
           tensors'[u].element = tensors[u].element
  PROVE  partials'[Fn(t)] = partials[Fn(t)]
<1> DEFINE op == tensors[t].op
           args == tensors[t].args
           y == tensors[t].element
           v == ElementsOf(args)
           w == [i \in 1..Len(args) |-> tensors'[args[i]].element]
<1>1. /\ op \in Wirable /\ args \in Seq(Created) /\ Len(args) = Arity(op)
      /\ t \in TensorId
  BY TensorTypes DEF TensorsInv
<1>2. \A u \in Created : tensors'[u].element \in Int
  <2>1. (TensorsInv => \A u \in Created : tensors[u].element \in Int)'
    BY ElementsAreIntegers, PTL
  <2> QED BY <2>1
<1>3. v \in Seq(Int) /\ w \in Seq(Int)
  <2>1. v \in Seq(Int)
    BY <1>1, ElementsOfType
  <2>2. w \in [1..Len(args) -> Int] /\ Len(args) \in Nat
    BY <1>1, <1>2
  <2> QED BY <2>1, <2>2
<1>4. \A i \in 1..Len(args) : args[i] \in Saves(op, args, t) => v[i] = w[i]
  BY <1>1 DEF ElementsOf
<1>5. Derivatives(op, v, y) = Derivatives(op, w, y)
  <2> HIDE DEF op, args, y, v, w
  <2> QED BY <1>1, <1>3, <1>4, DerivativesOfSaved
<1>6. /\ partials[Fn(t)] = Derivatives(op, v, y)
      /\ partials'[Fn(t)] = Derivatives(op, w, y)
  <2>1. Fn(t) \in Node /\ Fn(t)[1] = "fn" /\ Fn(t)[2] = t
    BY <1>1 DEF Fn, Node
  <2> QED BY <2>1 DEF partials, SameTensor, ElementsOf
<1> QED BY <1>5, <1>6

LEMMA TangentStays ==
  ASSUME IInv, TensorsInv', Created \subseteq Created',
         NEW t \in Created, HasFn(t), SameTensor(t), tensors'[t].element = tensors[t].element,
         \A u \in Created : u \in Saves(tensors[t].op, tensors[t].args, t) =>
           tensors'[u].element = tensors[u].element,
         \A u \in Created : HasFn(u)' = HasFn(u) /\ tangent'[u] = tangent[u],
         next_edges'[Fn(t)] = next_edges[Fn(t)], IsTangent(t)
  PROVE  IsTangent(t)'
<1>1. Fn(t) \in Node /\ Fn(t)[2] = t /\ next_edges[Fn(t)] \in Seq(Node \cup {NoNode})
  BY TensorTypes DEF IInv, GraphInv, Fn, Node
<1>2. partials'[Fn(t)] = partials[Fn(t)]
  BY PartialsStay DEF IInv
<1>3. ASSUME NEW x, NEW i \in {1, 2, 3}
      PROVE  Flow(Fn(t), i, x)' = Flow(Fn(t), i, x)
  <2> DEFINE m == next_edges[Fn(t)][i]
  <2>1. CASE i <= Len(next_edges[Fn(t)]) /\ m # NoNode
    <3>1. m \in Node /\ m[2] \in Created
      <4>1. i \in 1..Len(next_edges[Fn(t)])
        BY <1>1, <2>1
      <4> QED BY <1>1, <2>1, <4>1, TargetExists DEF IInv
    <3>2. Weight(m, x)' = Weight(m, x)
      BY <3>1 DEF Weight
    <3> QED BY <1>2, <2>1, <3>2 DEF Flow, Weight
  <2>2. CASE ~(i <= Len(next_edges[Fn(t)]) /\ m # NoNode)
    BY <2>2 DEF Flow
  <2> QED BY <2>1, <2>2
<1>4. \A x : /\ Flow(Fn(t), 1, x)' = Flow(Fn(t), 1, x)
             /\ Flow(Fn(t), 2, x)' = Flow(Fn(t), 2, x)
             /\ Flow(Fn(t), 3, x)' = Flow(Fn(t), 3, x)
  BY <1>3
<1> QED BY <1>4 DEF IsTangent

LEMMA RecordStays ==
  ASSUME RecordInv, Created \subseteq Created', tangent' \in [TensorId -> [Leaves -> Int]],
         Leaves \subseteq Created,
         \A u \in Created : /\ SameTensor(u) /\ tangent'[u] = tangent[u]
                            /\ next_edges'[Acc(u)] = next_edges[Acc(u)]
  PROVE  /\ \A t \in Leaves : ~HasFn(t)'
         /\ \A t \in Created :
              IF HasFn(t)'
              THEN /\ next_edges'[Acc(t)] = <<Fn(t)>>
                   /\ \A u \in Saves(tensors'[t].op, tensors'[t].args, t) :
                        \E s \in tensors'[t].saved : s.tensor = u
              ELSE \A x \in Leaves : tangent'[t][x] = IF t = x THEN 1 ELSE 0
<1>1. \A t \in Leaves : ~HasFn(t)'
  BY DEF RecordInv, SameTensor
<1>2. ASSUME NEW t \in Created, HasFn(t)'
      PROVE  /\ next_edges'[Acc(t)] = <<Fn(t)>>
             /\ \A u \in Saves(tensors'[t].op, tensors'[t].args, t) :
                  \E s \in tensors'[t].saved : s.tensor = u
  <2>1. /\ HasFn(t) /\ tensors'[t].op = tensors[t].op /\ tensors'[t].args = tensors[t].args
        /\ tensors'[t].saved = tensors[t].saved
    BY <1>2 DEF SameTensor
  <2>2. /\ next_edges[Acc(t)] = <<Fn(t)>>
        /\ \A u \in Saves(tensors[t].op, tensors[t].args, t) :
             \E s \in tensors[t].saved : s.tensor = u
    BY <2>1 DEF RecordInv
  <2> QED BY <2>1, <2>2
<1>3. ASSUME NEW t \in Created, ~HasFn(t)'
      PROVE  \A x \in Leaves : tangent'[t][x] = IF t = x THEN 1 ELSE 0
  BY <1>3 DEF RecordInv, SameTensor
<1> QED BY <1>1, <1>2, <1>3

LEMMA LeavesExist == TensorsInv => Leaves \subseteq Created
BY AutogradAssumption DEF TensorsInv, Leaves, Created

LEMMA IntactStays ==
  ASSUME IInv, NEW t \in Created, SameTensor(t), Intact(t)',
         \A u \in Created : tensors'[u].element = tensors[u].element
  PROVE  Intact(t)
BY DEF Intact, SameTensor, IInv, TensorsInv

LEMMA SetRequiresGradChain ==
  ASSUME IInv, ChainInv, NEW t \in Created, NEW req \in BOOLEAN, SetRequiresGrad(t, req)
  PROVE  ChainInv'
<1>1. TensorsInv'
  BY SetRequiresGradIInv DEF IInv
<1>2. UNCHANGED <<tangent, next_edges, switched_off_use>>
  BY DEF SetRequiresGrad
<1>3. /\ Created' = Created
      /\ \A u \in Created : SameTensor(u) /\ tensors'[u].element = tensors[u].element
  <2>1. /\ tensors \in Seq(TensorRecord)
        /\ tensors' = [tensors EXCEPT ![t].requires_grad = req,
                                      ![t].has_acc = KeepAccumulator(@, req)]
    BY DEF SetRequiresGrad, IInv, TensorsInv
  <2>2. Len(tensors') = Len(tensors)
    BY <2>1
  <2>3. \A u \in Created : tensors[u] \in TensorRecord
    BY TensorTypes DEF IInv
  <2> QED BY <2>1, <2>2, <2>3 DEF Created, TensorRecord, SameTensor, HasFn
<1>4. RecordInv'
  <2>1. Leaves \subseteq Created
    BY LeavesExist DEF IInv
  <2> QED BY <1>2, <1>3, <2>1, RecordStays DEF ChainInv, RecordInv
<1>5. ASSUME ~switched_off_use, NEW u \in Created, HasFn(u), Intact(u)'
      PROVE  IsTangent(u)'
  <2>1. IsTangent(u)
    BY <1>3, <1>5, IntactStays DEF ChainInv, TangentInv
  <2>2. \A v \in Created : HasFn(v)' = HasFn(v)
    BY <1>3 DEF SameTensor
  <2> QED BY <1>1, <1>2, <1>3, <1>5, <2>1, <2>2, TangentStays
<1>6. TangentInv'
  BY <1>2, <1>3, <1>5 DEF TangentInv, SameTensor
<1> QED BY <1>4, <1>6 DEF ChainInv

(* Whoever saved what is overwritten is not intact from then on.           *)
LEMMA WriteInPlaceChain ==
  ASSUME IInv, SavedInv, ChainInv, NEW x \in Leaves, WriteInPlace(x)
  PROVE  ChainInv'
<1>1. TensorsInv' /\ x \in Created /\ x \in TensorId
  <2>1. x \in Created
    BY LeavesExist DEF IInv
  <2> QED BY <2>1, WriteInPlaceIInv, TensorTypes DEF IInv
<1>2. UNCHANGED <<tangent, next_edges, switched_off_use>>
  BY DEF WriteInPlace
<1>3. /\ Created' = Created /\ tensors'[x].element = tensors[x].element + 1
      /\ tensors[x].element \in Int
      /\ \A u \in Created : SameTensor(u)
      /\ \A u \in Created \ {x} : tensors'[u].element = tensors[u].element
  <2>1. /\ tensors \in Seq(TensorRecord)
        /\ tensors' = [tensors EXCEPT ![x].element = @ + 1]
    BY DEF WriteInPlace, IInv, TensorsInv
  <2>2. Len(tensors') = Len(tensors)
    BY <2>1
  <2>3. \A u \in Created : tensors[u] \in TensorRecord
    BY TensorTypes DEF IInv
  <2> QED BY <1>1, <2>1, <2>2, <2>3 DEF Created, TensorRecord, SameTensor, HasFn
<1>4. RecordInv'
  <2>1. Leaves \subseteq Created
    BY LeavesExist DEF IInv
  <2> QED BY <1>2, <1>3, <2>1, RecordStays DEF ChainInv, RecordInv
<1>5. ASSUME ~switched_off_use, NEW u \in Created, HasFn(u), Intact(u)'
      PROVE  IsTangent(u)'
  <2>1. \A s \in tensors[u].saved :
          /\ s.tensor \in Created /\ s.element \in Int
          /\ s.element <= tensors[s.tensor].element /\ s.element = tensors'[s.tensor].element
    BY <1>3, <1>5, TensorTypes
    DEF IInv, TensorsInv, SavedRecord, SavedInv, Intact, SameTensor
  <2>4. \A s \in tensors[u].saved : s.tensor # x
    BY <1>3, <2>1
  <2>5. Intact(u)
    BY <1>3, <1>5, <2>1, <2>4 DEF Intact, SameTensor
  <2>6. IsTangent(u)
    BY <1>5, <2>5 DEF ChainInv, TangentInv
  <2>7. x \notin Saves(tensors[u].op, tensors[u].args, u)
    BY <1>5, <2>4 DEF ChainInv, RecordInv
  <2>8. u # x
    BY <1>5 DEF ChainInv, RecordInv
  <2>9. \A v \in Created : HasFn(v)' = HasFn(v)
    BY <1>3 DEF SameTensor
  <2> QED BY <1>1, <1>2, <1>3, <1>5, <2>6, <2>7, <2>8, <2>9, TangentStays
<1>6. TangentInv'
  BY <1>2, <1>3, <1>5 DEF TangentInv, SameTensor
<1> QED BY <1>4, <1>6 DEF ChainInv

(* Where no operand has an accumulator without requiring a gradient, a     *)
(* wirer records the operands that do.                                     *)
LEMMA SourceWeight ==
  ASSUME IInv, NEW op, NEW a \in Created, HasAcc(a) => RequiresGrad(a), NEW x
  PROVE  /\ Source(op, a) # NoNode <=> RequiresGrad(a)
         /\ RequiresGrad(a) => /\ Weight(Source(op, a), x) = tangent[a][x]
                               /\ Source(op, a)[2] = a
                               /\ Source(op, a)[1] = "fn" => HasFn(a)
<1>1. a \in TensorId /\ Fn(a) \in Node /\ Acc(a) \in Node /\ NoNode \notin Node
  BY TensorTypes, AutogradAssumption DEF IInv, Fn, Acc, Node
<1>2. (RequiresGrad(a) => HasAcc(a)) /\ (HasFn(a) => HasAcc(a))
  BY DEF IInv, TensorsInv, RequiresGrad, HasAcc
<1>3. CASE op \in {"relu", "sum", "transpose"} /\ HasFn(a)
  BY <1>1, <1>2, <1>3 DEF Source, Weight, Fn
<1>4. CASE ~(op \in {"relu", "sum", "transpose"} /\ HasFn(a))
  <2>1. Source(op, a) = IF HasAcc(a) THEN Acc(a) ELSE NoNode
    BY <1>4 DEF Source, AccOf
  <2>2. Acc(a)[1] = "acc" /\ Acc(a)[2] = a
    BY DEF Acc
  <2> QED BY <1>1, <1>2, <2>1, <2>2 DEF Weight
<1> QED BY <1>3, <1>4

Through(op, args, i, x) ==
  IF Wired(op, args) /\ i <= Len(args) /\ RequiresGrad(args[i])
  THEN Slope(op, ElementsOf(args), i) * tangent[args[i]][x] ELSE 0

LEMMA ForwardSlopes ==
  ASSUME IInv, RecordInv, NEW op \in Ops, NEW args \in Operands(op, Created), Forward(op, args),
         NEW i \in {1, 2, 3}, NEW x \in Leaves
  PROVE  /\ Through(op, args, i, x) \in Int
         /\ Wired(op, args) /\ i <= Len(args) /\ op # "layernorm" =>
              Slope(op, ElementsOf(args), i) =
                Derivatives(op, ElementsOf(args), Element(op, ElementsOf(args)))[i]
<1>1. /\ args \in Seq(Created) /\ Len(args) = Arity(op)
      /\ Element(op, ElementsOf(args)) \in Int
  BY ResultType DEF Forward
<1>2. ElementsOf(args) \in Seq(Int) /\ Len(ElementsOf(args)) = Arity(op)
  BY <1>1, ElementsOfType DEF IInv
<1>3. ASSUME Wired(op, args), i <= Len(args)
      PROVE  /\ op # "layernorm" =>
                  Slope(op, ElementsOf(args), i) =
                    Derivatives(op, ElementsOf(args), Element(op, ElementsOf(args)))[i]
             /\ Slope(op, ElementsOf(args), i) \in Int
             /\ tangent[args[i]][x] \in Int
  <2>1. op \in Wirable /\ i \in 1..Arity(op)
    BY <1>1, <1>3, AutogradAssumption DEF Wired, Wirable
  <2>2. args[i] \in TensorId
    <3>1. args[i] \in Created
      BY <1>1, <2>1
    <3> QED BY <3>1, TensorTypes DEF IInv
  <2> HIDE DEF Operands
  <2>3. op # "layernorm" =>
          Slope(op, ElementsOf(args), i) =
            Derivatives(op, ElementsOf(args), Element(op, ElementsOf(args)))[i]
    BY <1>2, <2>1, SlopeIsDerivative
  <2>4. Slope(op, ElementsOf(args), i) \in Int
    BY <1>2, <2>1, SlopeType
  <2> QED BY <2>2, <2>3, <2>4 DEF RecordInv
<1>4. Through(op, args, i, x) \in Int
  BY <1>3 DEF Through
<1> QED BY <1>3, <1>4

(* What the wirer of an operation leaves behind.                            *)
Recorded(op, args, out) ==
  /\ out \in TensorId /\ out \notin Created /\ Created' = Created \cup {out} /\ TensorsInv'
  /\ args \in Seq(Created) /\ Len(args) \in Nat
  /\ \A u \in Created : /\ tensors'[u] = tensors[u] /\ tangent'[u] = tangent[u]
                        /\ next_edges'[Fn(u)] = next_edges[Fn(u)]
                        /\ next_edges'[Acc(u)] = next_edges[Acc(u)]
  /\ HasFn(out)' = Wired(op, args)
  /\ tensors'[out].op = op /\ tensors'[out].args = args
  /\ tensors'[out].element = Element(op, ElementsOf(args))
  /\ Wired(op, args) =>
       /\ next_edges'[Fn(out)] = [i \in 1..Len(args) |-> Source(op, args[i])]
       /\ next_edges'[Acc(out)] = <<Fn(out)>>
       /\ \A u \in Saves(op, args, out) : \E s \in tensors'[out].saved : s.tensor = u
  /\ tangent' \in [TensorId -> [Leaves -> Int]]
  /\ \A x \in Leaves : tangent'[out][x] = Through(op, args, 1, x) + Through(op, args, 2, x)
                                            + Through(op, args, 3, x)
  /\ version' = version

LEMMA ForwardRecord ==
  ASSUME IInv, RecordInv, NEW op \in Ops, NEW args \in Operands(op, Created), Forward(op, args),
         NEW out, out = Len(tensors) + 1
  PROVE  Recorded(op, args, out)
<1> DEFINE y == Element(op, ElementsOf(args))
           new == [x \in Leaves |-> Through(op, args, 1, x) + Through(op, args, 2, x)
                                      + Through(op, args, 3, x)]
           saved == {[tensor |-> s, version_at_save |-> version[s],
                      element |-> IF s = out THEN y ELSE tensors[s].element] :
                        s \in Saves(op, args, out)}
<1>1. /\ args \in Seq(Created) /\ Len(args) \in Nat
      /\ out \in TensorId /\ out \notin Created
  BY ResultType DEF Forward
<1>2. /\ TensorsInv' /\ Created' = Created \cup {out}
      /\ \A u \in Created : tensors'[u] = tensors[u]
      /\ tensors'[out] = Result(op, args)
  BY ForwardTensors
<1>3. /\ \A u \in Created : /\ next_edges'[Fn(u)] = next_edges[Fn(u)]
                            /\ next_edges'[Acc(u)] = next_edges[Acc(u)]
      /\ Wired(op, args) => /\ next_edges'[Fn(out)] = [i \in 1..Len(args) |-> Source(op, args[i])]
                            /\ next_edges'[Acc(out)] = <<Fn(out)>>
  <2>1. \A u \in Created : /\ Fn(u) \in Node /\ Fn(u)[2] = u
                           /\ Acc(u) \in Node /\ Acc(u)[2] = u
    BY TensorTypes DEF IInv, Fn, Acc, Node
  <2> QED BY <2>1, ForwardGraph
<1>4. tangent' = [tangent EXCEPT ![out] = new] /\ version' = version
  BY DEF Forward, Through
<1>5. new \in [Leaves -> Int]
  BY ForwardSlopes
<1>6. /\ tangent' \in [TensorId -> [Leaves -> Int]] /\ tangent'[out] = new
      /\ \A u \in Created : tangent'[u] = tangent[u]
  <2> HIDE DEF new
  <2> QED BY <1>1, <1>4, <1>5 DEF RecordInv
<1>7. /\ Result(op, args).has_fn = Wired(op, args)
      /\ Result(op, args).op = op /\ Result(op, args).args = args
      /\ Result(op, args).element = y
      /\ Wired(op, args) => Result(op, args).saved = saved
  <2> HIDE DEF y, saved
  <2>1. Result(op, args) =
          [op |-> op, args |-> args, element |-> y,
           requires_grad |-> Wired(op, args), has_acc |-> Wired(op, args),
           has_fn |-> Wired(op, args), saved |-> IF Wired(op, args) THEN saved ELSE {}]
    BY DEF Result, y, saved
  <2> QED BY <2>1
<1>8. ASSUME NEW u \in Saves(op, args, out) PROVE \E s \in saved : s.tensor = u
  <2> DEFINE s == [tensor |-> u, version_at_save |-> version[u],
                   element |-> IF u = out THEN y ELSE tensors[u].element]
  <2>1. s \in saved /\ s.tensor = u
    OBVIOUS
  <2> QED BY <2>1
<1>9. HasFn(out)' = tensors'[out].has_fn
  BY DEF HasFn
<1> HIDE DEF y, saved
<1>10. \A x \in Leaves : tangent'[out][x] = Through(op, args, 1, x) + Through(op, args, 2, x)
                                              + Through(op, args, 3, x)
  BY <1>6
<1> HIDE DEF new
<1>11. Element(op, ElementsOf(args)) = y
  BY DEF y
<1> QED BY <1>1, <1>2, <1>3, <1>4, <1>6, <1>7, <1>8, <1>9, <1>10, <1>11 DEF Recorded

LEMMA ForwardRecordInv ==
  ASSUME IInv, RecordInv, NEW op \in Ops, NEW args \in Operands(op, Created), Forward(op, args)
  PROVE  RecordInv'
<1>1. PICK out : out = Len(tensors) + 1
  OBVIOUS
<1>2. /\ out \notin Created /\ Created' = Created \cup {out}
      /\ \A u \in Created : /\ tensors'[u] = tensors[u] /\ tangent'[u] = tangent[u]
                            /\ next_edges'[Acc(u)] = next_edges[Acc(u)]
      /\ HasFn(out)' = Wired(op, args)
      /\ tensors'[out].op = op /\ tensors'[out].args = args
      /\ Wired(op, args) =>
           /\ next_edges'[Acc(out)] = <<Fn(out)>>
           /\ \A u \in Saves(op, args, out) : \E s \in tensors'[out].saved : s.tensor = u
      /\ tangent' \in [TensorId -> [Leaves -> Int]]
      /\ \A x \in Leaves : tangent'[out][x] = Through(op, args, 1, x) + Through(op, args, 2, x)
                                                + Through(op, args, 3, x)
  <2>1. Recorded(op, args, out)
    BY <1>1, ForwardRecord
  <2> QED BY <2>1 DEF Recorded
<1>3. Leaves \subseteq Created
  BY LeavesExist DEF IInv
<1>4. \A u \in Created : SameTensor(u)
  BY <1>2 DEF SameTensor, HasFn
<1>5. /\ \A t \in Leaves : ~HasFn(t)'
      /\ \A t \in Created :
           IF HasFn(t)'
           THEN /\ next_edges'[Acc(t)] = <<Fn(t)>>
                /\ \A u \in Saves(tensors'[t].op, tensors'[t].args, t) :
                     \E s \in tensors'[t].saved : s.tensor = u
           ELSE \A x \in Leaves : tangent'[t][x] = IF t = x THEN 1 ELSE 0
  BY <1>2, <1>3, <1>4, RecordStays
<1>6. ~HasFn(out)' => \A x \in Leaves : tangent'[out][x] = IF out = x THEN 1 ELSE 0
  <2> SUFFICES ASSUME ~Wired(op, args), NEW x \in Leaves
               PROVE  tangent'[out][x] = IF out = x THEN 1 ELSE 0
    BY <1>2
  <2>1. /\ Through(op, args, 1, x) = 0 /\ Through(op, args, 2, x) = 0
        /\ Through(op, args, 3, x) = 0
    BY DEF Through
  <2>2. out # x
    BY <1>2, <1>3
  <2> QED BY <1>2, <2>1, <2>2
<1>7. HasFn(out)' =>
        /\ next_edges'[Acc(out)] = <<Fn(out)>>
        /\ \A u \in Saves(tensors'[out].op, tensors'[out].args, out) :
             \E s \in tensors'[out].saved : s.tensor = u
  BY <1>2
<1>8. \A t \in Created' :
        IF HasFn(t)'
        THEN /\ next_edges'[Acc(t)] = <<Fn(t)>>
             /\ \A u \in Saves(tensors'[t].op, tensors'[t].args, t) :
                  \E s \in tensors'[t].saved : s.tensor = u
        ELSE \A x \in Leaves : tangent'[t][x] = IF t = x THEN 1 ELSE 0
  <2> SUFFICES ASSUME NEW t \in Created'
               PROVE  IF HasFn(t)'
                      THEN /\ next_edges'[Acc(t)] = <<Fn(t)>>
                           /\ \A u \in Saves(tensors'[t].op, tensors'[t].args, t) :
                                \E s \in tensors'[t].saved : s.tensor = u
                      ELSE \A x \in Leaves : tangent'[t][x] = IF t = x THEN 1 ELSE 0
    OBVIOUS
  <2>1. CASE t \in Created
    BY <1>5, <2>1
  <2>2. CASE t = out
    BY <1>6, <1>7, <2>2
  <2> QED BY <1>2, <2>1, <2>2
<1> QED BY <1>2, <1>5, <1>8 DEF RecordInv

(* The new tensor's node distributes what the wirer says it does.          *)
LEMMA ForwardTangent ==
  ASSUME IInv, ChainInv, NEW op \in Ops, NEW args \in Operands(op, Created), Forward(op, args),
         NEW out, out = Len(tensors) + 1, Wired(op, args), ~switched_off_use',
         op # "layernorm",
         NEW x \in Leaves, NEW i \in {1, 2, 3}
  PROVE  Flow(Fn(out), i, x)' = Through(op, args, i, x)
<1> DEFINE v == ElementsOf(args)
<1>1. /\ out \in TensorId /\ out \notin Created /\ Created' = Created \cup {out}
      /\ args \in Seq(Created) /\ Len(args) \in Nat
      /\ \A u \in Created : tensors'[u] = tensors[u] /\ tangent'[u] = tangent[u]
      /\ HasFn(out)' = Wired(op, args)
      /\ tensors'[out].op = op /\ tensors'[out].args = args
      /\ tensors'[out].element = Element(op, v)
      /\ next_edges'[Fn(out)] = [j \in 1..Len(args) |-> Source(op, args[j])]
  <2>1. Recorded(op, args, out)
    BY ForwardRecord DEF ChainInv
  <2> QED BY <2>1 DEF Recorded
<1>2. Len(next_edges'[Fn(out)]) = Len(args)
  BY <1>1
<1>3. CASE i > Len(args)
  BY <1>1, <1>2, <1>3 DEF Flow, Through
<1>4. CASE i <= Len(args)
  <2>1. args[i] \in Created /\ i \in DOMAIN args /\ i \in 1..Len(args)
    BY <1>1, <1>4
  <2>2. HasAcc(args[i]) => RequiresGrad(args[i])
    BY <2>1 DEF Forward
  <2>3. PICK s : s = Source(op, args[i])
    OBVIOUS
  <2>4. next_edges'[Fn(out)][i] = s
    BY <1>1, <2>1, <2>3
  <2>5. Flow(Fn(out), i, x)' = IF s # NoNode THEN partials'[Fn(out)][i] * Weight(s, x)' ELSE 0
    BY <1>2, <1>4, <2>4 DEF Flow, Weight
  <2>6. CASE ~RequiresGrad(args[i])
    <3>1. s = NoNode
      BY <2>1, <2>2, <2>3, <2>6, SourceWeight
    <3> QED BY <2>5, <2>6, <3>1 DEF Through
  <2>7. CASE RequiresGrad(args[i])
    <3>1. /\ s # NoNode /\ s[2] = args[i] /\ (s[1] = "fn" => HasFn(args[i]))
      BY <2>1, <2>2, <2>3, <2>7, SourceWeight
    <3>2. Weight(s, x)' = tangent[args[i]][x]
      BY <1>1, <2>1, <3>1 DEF Weight, HasFn
    <3>3. partials'[Fn(out)] = Derivatives(op, v, Element(op, v))
      <4>1. Fn(out) \in Node /\ Fn(out)[1] = "fn" /\ Fn(out)[2] = out
        BY <1>1 DEF Fn, Node
      <4>2. [j \in 1..Len(args) |-> tensors'[args[j]].element] = v
        BY <1>1 DEF ElementsOf
      <4>3. partials'[Fn(out)] =
              Derivatives(tensors'[out].op,
                          [j \in 1..Len(tensors'[out].args) |-> tensors'[tensors'[out].args[j]].element],
                          tensors'[out].element)
        BY <1>1, <4>1 DEF partials, ElementsOf
      <4> HIDE DEF v
      <4> QED BY <1>1, <4>2, <4>3
    <3>4. Slope(op, v, i) = Derivatives(op, v, Element(op, v))[i]
      <4> HIDE DEF Operands
      <4> QED BY <1>4, ForwardSlopes DEF ChainInv
    <3>5. Through(op, args, i, x) = Slope(op, v, i) * tangent[args[i]][x]
      BY <1>4, <2>7 DEF Through
    <3> HIDE DEF v
    <3> QED BY <2>5, <3>1, <3>2, <3>3, <3>4, <3>5, Zenon
  <2> QED BY <2>6, <2>7
<1> QED BY <1>1, <1>3, <1>4

LEMMA ForwardChain ==
  ASSUME IInv, ChainInv, NEW op \in Ops, NEW args \in Operands(op, Created), Forward(op, args)
  PROVE  ChainInv'
<1>1. RecordInv'
  <2> HIDE DEF Operands
  <2> QED BY ForwardRecordInv DEF ChainInv
<1>2. PICK out : out = Len(tensors) + 1
  OBVIOUS
<1>3. /\ Created' = Created \cup {out} /\ out \notin Created /\ TensorsInv'
      /\ \A u \in Created : /\ tensors'[u] = tensors[u] /\ tangent'[u] = tangent[u]
                            /\ next_edges'[Fn(u)] = next_edges[Fn(u)]
      /\ HasFn(out)' = Wired(op, args) /\ tensors'[out].op = op
      /\ \A x \in Leaves : tangent'[out][x] = Through(op, args, 1, x) + Through(op, args, 2, x)
                                                + Through(op, args, 3, x)
  <2>1. Recorded(op, args, out)
    BY <1>2, ForwardRecord DEF ChainInv
  <2> QED BY <2>1 DEF Recorded
<1>4. \A u \in Created : SameTensor(u) /\ tensors'[u].element = tensors[u].element
  BY <1>3 DEF SameTensor, HasFn
<1>5. ASSUME ~switched_off_use', NEW u \in Created, HasFn(u)', Intact(u)'
      PROVE  IsTangent(u)'
  <2>1. ~switched_off_use /\ u \in Created' /\ HasFn(u)
    BY <1>3, <1>4, <1>5 DEF Forward, SameTensor
  <2>2. IsTangent(u)
    BY <1>4, <1>5, <2>1, IntactStays DEF ChainInv, TangentInv
  <2>3. \A w \in Created : HasFn(w)' = HasFn(w)
    BY <1>4 DEF SameTensor
  <2>4. Created \subseteq Created'
    BY <1>3
  <2> QED BY <1>3, <1>4, <1>5, <2>1, <2>2, <2>3, <2>4, TangentStays
<1>6. ASSUME ~switched_off_use', HasFn(out)', Intact(out)'
      PROVE  IsTangent(out)'
  <2>1. op # "layernorm" /\ Wired(op, args) /\ ~switched_off_use'
    BY <1>3, <1>6 DEF Intact
  <2>2. ASSUME NEW x \in Leaves, NEW i \in {1, 2, 3}
        PROVE  Flow(Fn(out), i, x)' = Through(op, args, i, x)
    <3> HIDE DEF Operands
    <3> QED BY <1>2, <2>1, ForwardTangent
  <2>3. ASSUME NEW x \in Leaves
        PROVE  tangent'[out][x] = Flow(Fn(out), 1, x)' + Flow(Fn(out), 2, x)' + Flow(Fn(out), 3, x)'
    BY <1>3, <2>2
  <2> QED BY <2>3 DEF IsTangent
<1>7. TangentInv'
  <2> SUFFICES ASSUME ~switched_off_use', NEW u \in Created', HasFn(u)', Intact(u)'
               PROVE  IsTangent(u)'
    BY DEF TangentInv
  <2>1. CASE u \in Created
    BY <1>5, <2>1
  <2>2. CASE u = out
    BY <1>6, <2>2
  <2> QED BY <1>3, <2>1, <2>2
<1> QED BY <1>1, <1>7 DEF ChainInv

LEMMA ChainUnchanged ==
  ASSUME ChainInv, UNCHANGED <<tensors, tangent, switched_off_use, next_edges>>
  PROVE  ChainInv'
<1>1. /\ Created' = Created /\ \A t : HasFn(t)' = HasFn(t) /\ Intact(t)' = Intact(t)
      /\ partials' = partials
  BY DEF Created, HasFn, Intact, partials, ElementsOf
<1>2. RecordInv'
  BY <1>1 DEF ChainInv, RecordInv
<1>3. \A t : IsTangent(t) => IsTangent(t)'
  BY <1>1 DEF IsTangent, Flow, Weight
<1>4. TangentInv'
  BY <1>1, <1>3 DEF ChainInv, TangentInv
<1> QED BY <1>2, <1>4 DEF ChainInv

LEMMA InitChain == Init => ChainInv
<1> SUFFICES ASSUME Init PROVE ChainInv
  OBVIOUS
<1>1. Created = Leaves /\ \A t \in Created : ~HasFn(t)
  BY AutogradAssumption DEF Init, Leaf, Created, Leaves, HasFn
<1>2. Created \subseteq TensorId
  BY <1>1, AutogradAssumption DEF Leaves, TensorId
<1> QED BY <1>1, <1>2 DEF Init, ChainInv, RecordInv, TangentInv

-----------------------------------------------------------------------------
(* During a pass: what is in the buffers, or still to be delivered from    *)
(* the node at hand, weighted by what it is worth at x, always adds up to  *)
(* the tangent of the root.                                                *)

Pending(i, x) ==
  IF /\ cursor <= i /\ i <= Len(next_edges[node]) /\ i <= Len(input_grads)
     /\ next_edges[node][i] # NoNode
  THEN input_grads[i] * Weight(next_edges[node][i], x) ELSE 0

InHand(n, x) ==
  IF status = "delivering" /\ node = n THEN Pending(1, x) + Pending(2, x) + Pending(3, x) ELSE 0

InBuffer(n, x) == IF input_buffers[n] \in Int THEN input_buffers[n] * Weight(n, x) ELSE 0

Held(x) ==
  [n \in Node |-> IF received[n] = Absent THEN InBuffer(n, x)
                  ELSE IF n = Acc(x) THEN received[n]
                  ELSE InHand(n, x)]

(* No Inexact node was applied, nor a tensor used with requires_grad off.  *)
Trusted == ~switched_off_use /\ \A n \in Inexact : received[n] = Absent

AdjointInv ==
  Trusted /\ status \in EP!Running =>
    \A x \in Leaves : EP!IsSum(tangent[root[2]][x], Held(x), Node)

StartInv ==
  /\ status \in EP!Running \cup {"counting", "done"} =>
       /\ root \in Node /\ root[1] = "fn" /\ root[2] \in Created /\ HasFn(root[2])
  /\ status = "counting" => \A n \in Node : input_buffers[n] = Absent
  /\ status \in EP!Running =>
       \A n \in Node : dependencies[n] = Absent => input_buffers[n] = Absent

GradInv ==
  status \in EP!Running \cup {"done"} =>
    \A x \in Leaves : received[Acc(x)] # Absent => grad[Acc(x)] = received[Acc(x)]

LEMMA AdjointPrimed ==
  ASSUME \A x \in Leaves : EP!IsSum(tangent'[root'[2]][x], Held(x)', Node)
  PROVE  AdjointInv'
BY DEF AdjointInv, EP!IsSum, EP!Additive

LEMMA WeightType == ASSUME RecordInv, NEW n \in Node, NEW x \in Leaves PROVE Weight(n, x) \in Int
<1>1. n[2] \in TensorId
  BY DEF Node
<1> QED BY <1>1 DEF Weight, RecordInv

LEMMA EdgeTypes ==
  ASSUME IInv, NEW n \in Node, NEW i \in Nat \ {0}, i <= Len(next_edges[n])
  PROVE  /\ next_edges[n][i] \in Node \cup {NoNode} /\ partials[n][i] \in Int
         /\ i <= Len(partials[n]) /\ i \in {1, 2, 3}
<1>1. /\ next_edges[n] \in Seq(Node \cup {NoNode}) /\ partials[n] \in Seq(Int)
      /\ Len(next_edges[n]) <= 3 /\ Len(next_edges[n]) <= Len(partials[n])
  BY DEF IInv, EP!IInv, EP!TypeOK, EP!GraphOK
<1>2. i \in 1..Len(next_edges[n]) /\ i \in 1..Len(partials[n])
  BY <1>1
<1> QED BY <1>1, <1>2

LEMMA FlowType ==
  ASSUME IInv, RecordInv, NEW n \in Node, NEW i \in {1, 2, 3}, NEW x \in Leaves
  PROVE  Flow(n, i, x) \in Int
<1>1. CASE i <= Len(next_edges[n]) /\ next_edges[n][i] # NoNode
  <2>1. next_edges[n][i] \in Node /\ partials[n][i] \in Int
    BY <1>1, EdgeTypes
  <2> QED BY <1>1, <2>1, WeightType DEF Flow
<1>2. CASE ~(i <= Len(next_edges[n]) /\ next_edges[n][i] # NoNode)
  BY <1>2 DEF Flow
<1> QED BY <1>1, <1>2

(* A leaf's accumulator ends every path.                                   *)
LEMMA LeafNode ==
  ASSUME IInv, RecordInv, NEW x \in Leaves
  PROVE  /\ Acc(x) \in Node /\ Acc(x) \in live /\ Len(next_edges[Acc(x)]) = 0
         /\ Weight(Acc(x), x) = 1
<1>1. x \in Created /\ x \in TensorId /\ ~HasFn(x)
  BY LeavesExist, TensorTypes DEF IInv, RecordInv
<1>2. next_edges[Acc(x)] = <<>>
  BY <1>1 DEF IInv, GraphInv
<1>3. tangent[x][x] = 1
  BY <1>1 DEF RecordInv
<1> QED BY <1>1, <1>2, <1>3 DEF Weight, Acc, Node, live, Accumulator

LEMMA NodeFlow ==
  ASSUME IInv, ChainInv, ~switched_off_use, NEW n \in Node, n[2] \in Created,
         n[1] = "fn" /\ HasFn(n[2]) => Intact(n[2]),
         NEW x \in Leaves, n # Acc(x)
  PROVE  Weight(n, x) = Flow(n, 1, x) + Flow(n, 2, x) + Flow(n, 3, x)
<1>1. n = Fn(n[2]) \/ n = Acc(n[2])
  BY NodeForm
<1>2. CASE n = Fn(n[2]) /\ HasFn(n[2])
  <2>1. IsTangent(n[2])
    BY <1>2 DEF ChainInv, TangentInv, Fn
  <2>2. Weight(n, x) = tangent[n[2]][x]
    BY <1>2 DEF Weight
  <2> QED BY <1>2, <2>1, <2>2 DEF IsTangent
<1>3. CASE ~HasFn(n[2])
  <2>1. next_edges[n] = <<>>
    BY <1>1, <1>3, TensorTypes DEF IInv, GraphInv
  <2>2. Flow(n, 1, x) = 0 /\ Flow(n, 2, x) = 0 /\ Flow(n, 3, x) = 0
    BY <2>1 DEF Flow
  <2>3. Weight(n, x) = 0
    <3>1. CASE n = Fn(n[2])
      BY <1>3, <3>1 DEF Weight, Fn
    <3>2. CASE n = Acc(n[2])
      <4>1. n[1] = "acc" /\ n[2] # x
        BY <3>2 DEF Acc
      <4>2. tangent[n[2]][x] = 0
        BY <1>3, <4>1 DEF ChainInv, RecordInv
      <4> QED BY <4>1, <4>2 DEF Weight
    <3> QED BY <1>1, <3>1, <3>2
  <2> QED BY <2>2, <2>3
<1>4. CASE n = Acc(n[2]) /\ HasFn(n[2])
  <2>1. next_edges[n] = <<Fn(n[2])>>
    BY <1>4 DEF ChainInv, RecordInv
  <2>2. partials[n] = <<1>> /\ n[1] = "acc"
    BY <1>4 DEF partials, Acc
  <2>3. Fn(n[2]) \in Node /\ Fn(n[2])[1] = "fn" /\ Fn(n[2])[2] = n[2]
    BY TensorTypes DEF IInv, Fn, Node
  <2>4. Weight(Fn(n[2]), x) = tangent[n[2]][x] /\ Weight(n, x) = tangent[n[2]][x]
    BY <1>4, <2>2, <2>3 DEF Weight
  <2>5. Weight(n, x) \in Int
    BY WeightType DEF ChainInv
  <2>6. Flow(n, 2, x) = 0 /\ Flow(n, 3, x) = 0
    BY <2>1 DEF Flow
  <2>7. Flow(n, 1, x) = 1 * Weight(Fn(n[2]), x)
    BY <2>1, <2>2, <2>3, AutogradAssumption DEF Flow
  <2> QED BY <2>4, <2>5, <2>6, <2>7
<1> QED BY <1>1, <1>2, <1>3, <1>4

LEMMA ScaledFlow == \A g, p, w \in Int : (p * g) * w = g * (p * w)
OBVIOUS

LEMMA ScaledSum == \A g, a, b, c \in Int : g * a + g * b + g * c = g * (a + b + c)
OBVIOUS

LEMMA TwoGradients == \A a, b, w \in Int : (a + b) * w = a * w + b * w
OBVIOUS

LEMMA EngineKeepsWeights ==
  ASSUME EngineStep
  PROVE  /\ UNCHANGED <<tensors, version, tangent, switched_off_use, next_edges>>
         /\ Created' = Created /\ partials' = partials /\ Inexact' = Inexact
         /\ \A n, x : Weight(n, x)' = Weight(n, x)
<1>1. UNCHANGED <<tensors, version, tangent, switched_off_use, unannounced, next_edges>>
  BY DEF EngineStep, clientVars, E!CountStep, E!RunStep, E!VisitNode, E!CountEdge, E!LeaveNode,
         E!SeedRoot, E!PopReady, E!ApplyNode, E!ApplyThrows, E!SkipNullEdge,
         E!DeliverGrad, E!DeliverThrows, E!FinishNode, E!Return, E!graph
<1>2. Created' = Created /\ \A t : HasFn(t)' = HasFn(t)
  BY <1>1 DEF Created, HasFn
<1>3. partials' = partials /\ Inexact' = Inexact
  BY <1>1, <1>2 DEF partials, ElementsOf, Inexact
<1>4. \A n, x : Weight(n, x)' = Weight(n, x)
  BY <1>1, <1>2 DEF Weight
<1> QED BY <1>1, <1>2, <1>3, <1>4

(* Nodes with a gradient in hand or to come exist.                         *)
LEMMA VisitedExists ==
  ASSUME IInv, NEW n \in EP!Visited PROVE n \in Node /\ n[2] \in Created
BY DEF IInv, VisitedInv, EP!Visited

LEMMA EngineAssumptions ==
  /\ EP!IsFiniteSet(Node) /\ NoNode \notin Node /\ Accumulator \subseteq Node /\ 3 \in Nat
  /\ Absent \notin Int /\ Taken \notin Int /\ Absent # Taken
BY NodeIsFinite, AutogradAssumption DEF IsFiniteSet, EP!IsFiniteSet, Accumulator, Node

(* The sums of EngineProofs.                                               *)
LEMMA SumOfZeros ==
  \A T, w : (\A n \in T : w[n] = 0) => EP!IsSum(0, w, T)
BY EngineAssumptions, EP!SumOfZeros DEF EP!SumOfZeros

LEMMA SameWeights ==
  \A T, w, v, x : EP!IsSum(x, w, T) /\ (\A n \in T : v[n] = w[n]) => EP!IsSum(x, v, T)
BY EngineAssumptions, EP!SameWeights DEF EP!SameWeights

LEMMA OneWeightChanges ==
  \A T, w, v, x : \A a \in T :
    EP!IsSum(x, w, T) /\ EP!ChangedAt(v, w, T, a) => EP!IsSum(x - w[a] + v[a], v, T)
BY EngineAssumptions, EP!OneWeightChanges DEF EP!OneWeightChanges

LEMMA WeightMoves ==
  \A T, w, v, x : \A a, b \in T : \A c \in Int :
    /\ EP!IsSum(x, w, T) /\ a # b /\ v[a] = w[a] - c /\ v[b] = w[b] + c
    /\ \A n \in T \ {a, b} : v[n] = w[n]
    => EP!IsSum(x, v, T)
BY EngineAssumptions, EP!WeightMoves DEF EP!WeightMoves

LEMMA SoleWeight ==
  \A w, x : \A a \in Node :
    EP!IsSum(x, w, Node) /\ (\A n \in Node \ {a} : w[n] = 0) => x = w[a]
BY EngineAssumptions, EP!SoleWeight DEF EP!SoleWeight

LEMMA SeedRootAdjoint ==
  ASSUME IInv, ChainInv, StartInv, EngineStep, E!SeedRoot
  PROVE  AdjointInv'
<1>1. /\ status = "counting" /\ status' = "popping" /\ received' = received /\ root' = root
      /\ input_buffers' = [input_buffers EXCEPT ![root] = 1]
  BY DEF E!SeedRoot
<1>2. /\ root \in Node /\ root[1] = "fn" /\ HasFn(root[2])
      /\ \A n \in Node : input_buffers[n] = Absent
  BY <1>1 DEF StartInv
<1>3. \A n \in Node : received[n] = Absent
  BY <1>1 DEF IInv, EP!IInv, EP!CountingInv, EP!Applied
<1>4. input_buffers'[root] = 1 /\ \A n \in Node \ {root} : input_buffers'[n] = Absent
  <2>1. input_buffers \in [Node -> Int \cup {Absent, Taken}]
    BY DEF IInv, EP!IInv, EP!TypeOK
  <2> QED BY <1>1, <1>2, <2>1
<1>5. ASSUME NEW x \in Leaves PROVE EP!IsSum(tangent'[root'[2]][x], Held(x)', Node)
  <2>1. PICK v : v = Held(x)'
    OBVIOUS
  <2>2. PICK w : w = [n \in Node |-> 0]
    OBVIOUS
  <2>3. /\ tangent' = tangent /\ \A n : Weight(n, x)' = Weight(n, x)
    BY EngineKeepsWeights
  <2>4. \A n \in Node : v[n] = InBuffer(n, x)'
    BY <1>1, <1>3, <2>1 DEF Held
  <2>5. \A n \in Node \ {root} : v[n] = 0
    BY <1>4, <2>4, AutogradAssumption DEF InBuffer
  <2>6. v[root] = tangent[root[2]][x]
    <3>1. Weight(root, x) = tangent[root[2]][x] /\ Weight(root, x) \in Int
      BY <1>2, WeightType DEF Weight, ChainInv
    <3>2. PICK r : r = root
      OBVIOUS
    <3>3. InBuffer(r, x)' = 1 * Weight(r, x)
      BY <1>1, <1>4, <2>3, <3>2 DEF InBuffer
    <3> QED BY <1>2, <2>4, <3>1, <3>2, <3>3
  <2>7. v[root] \in Int
    BY <1>2, <2>6, WeightType DEF Weight, ChainInv
  <2>8. EP!IsSum(0, w, Node)
    BY <2>2, SumOfZeros
  <2>9. EP!IsSum(0 - w[root] + v[root], v, Node)
    <3>1. EP!ChangedAt(v, w, Node, root)
      BY <2>2, <2>5, <2>7 DEF EP!ChangedAt
    <3> QED BY <1>2, <2>8, <3>1, OneWeightChanges
  <2>10. 0 - w[root] + v[root] = tangent[root[2]][x]
    BY <1>2, <2>2, <2>6, <2>7
  <2> QED BY <1>1, <2>1, <2>3, <2>9, <2>10
<1> QED BY <1>5, AdjointPrimed

(* A node that was applied stays applied until the next pass.              *)
LEMMA TrustedStays ==
  ASSUME IInv, EngineStep
  PROVE  Trusted' => Trusted
<1>1. switched_off_use' = switched_off_use /\ Inexact' = Inexact
  BY EngineKeepsWeights
<1>2. ASSUME NEW n, received'[n] = Absent, n \in Node PROVE received[n] = Absent
  <2>1. CASE E!ApplyNode
    <3>1. received[node] = Absent
      BY <2>1 DEF E!ApplyNode, IInv, EP!IInv, EP!RunningInv, EP!Running, EP!Applied, EP!Ready
    <3>2. /\ received' = [received EXCEPT ![node] = input_buffers[node]]
          /\ received \in [Node -> Int \cup {Absent}]
      BY <2>1 DEF E!ApplyNode, IInv, EP!IInv, EP!TypeOK
    <3> QED BY <1>2, <3>1, <3>2
  <2>2. CASE ~E!ApplyNode
    <3>1. received' = received
      BY <2>2 DEF EngineStep, E!CountStep, E!RunStep, E!VisitNode, E!CountEdge, E!LeaveNode,
           E!SeedRoot, E!PopReady, E!ApplyThrows, E!SkipNullEdge,
           E!DeliverGrad, E!DeliverThrows, E!FinishNode, E!Return
    <3> QED BY <1>2, <3>1
  <2> QED BY <2>1, <2>2
<1>3. Inexact \subseteq Node
  <2>1. \A t \in Created : Fn(t) \in Node
    BY TensorTypes DEF IInv, Fn, Node
  <2> QED BY <2>1 DEF Inexact, IInv, TensorsInv
<1> QED BY <1>1, <1>2, <1>3 DEF Trusted

(* What is applied without throwing, and is not Inexact, is Intact.        *)
LEMMA AppliesIntact ==
  ASSUME IInv, NoticedInv, EngineStep, E!ApplyNode, Trusted', node \in Node,
         node[2] \in Created, received'[node] # Absent, node[1] = "fn", HasFn(node[2])
  PROVE  Intact(node[2])
<1>1. node \notin Inexact /\ node \notin stale /\ unannounced = HoldsUnannounced
  <2>1. Inexact' = Inexact
    BY EngineKeepsWeights
  <2>2. \A n \in Inexact' : received'[n] = Absent
    BY DEF Trusted
  <2> QED BY <2>1, <2>2 DEF E!ApplyNode, NoticedInv, EP!Running
<1>2. node = Fn(node[2])
  BY DEF Node, Fn
<1>3. tensors[node[2]].op # "layernorm" /\ node \notin HoldsUnannounced
  BY <1>1, <1>2 DEF Inexact
<1>4. \A s \in tensors[node[2]].saved : ~Unannounced(s) /\ ~VersionMismatch(s)
  BY <1>1, <1>3 DEF HoldsUnannounced, stale
<1> QED BY <1>3, <1>4 DEF Intact, Unannounced, VersionMismatch

(* A step that leaves what each node holds as it was.                      *)
LEMMA SameHeldAdjoint ==
  ASSUME IInv, AdjointInv, EngineStep, status \in EP!Running, root' = root,
         \A x \in Leaves : \A n \in Node : Held(x)'[n] = Held(x)[n]
  PROVE  AdjointInv'
<1>1. tangent' = tangent
  BY EngineKeepsWeights
<1>2. CASE ~Trusted'
  BY <1>2 DEF AdjointInv
<1>3. CASE Trusted'
  <2>1. ASSUME NEW x \in Leaves PROVE EP!IsSum(tangent'[root'[2]][x], Held(x)', Node)
    <3>1. EP!IsSum(tangent[root[2]][x], Held(x), Node)
      BY <1>3, TrustedStays DEF AdjointInv
    <3>2. EP!IsSum(tangent[root[2]][x], Held(x)', Node)
      BY <3>1, SameWeights
    <3> QED BY <1>1, <3>2
  <2> QED BY <2>1, AdjointPrimed
<1> QED BY <1>2, <1>3

LEMMA PopReadyAdjoint ==
  ASSUME IInv, AdjointInv, EngineStep, E!PopReady
  PROVE  AdjointInv'
<1>1. /\ status = "popping" /\ status' \in {"popping", "applying"} /\ root' = root
      /\ received' = received /\ input_buffers' = input_buffers
  BY DEF E!PopReady
<1>2. \A n, x : InBuffer(n, x)' = InBuffer(n, x) /\ InHand(n, x)' = InHand(n, x)
  BY <1>1, EngineKeepsWeights DEF InBuffer, InHand
<1>3. \A x \in Leaves : \A n \in Node : Held(x)'[n] = Held(x)[n]
  BY <1>1, <1>2 DEF Held
<1> QED BY <1>1, <1>3, SameHeldAdjoint DEF EP!Running

LEMMA ApplyNodeAdjoint ==
  ASSUME IInv, ChainInv, NoticedInv, AdjointInv, EngineStep, E!ApplyNode
  PROVE  AdjointInv'
<1>1. PICK g : g = input_buffers[node]
  OBVIOUS
<1>2. /\ status = "applying" /\ status' = "delivering" /\ node \notin stale
      /\ input_grads' = [i \in 1..Len(partials[node]) |-> partials[node][i] * g]
      /\ received' = [received EXCEPT ![node] = g]
      /\ input_buffers' = [input_buffers EXCEPT ![node] = Taken]
      /\ cursor' = 1 /\ root' = root /\ node' = node
  BY <1>1 DEF E!ApplyNode
<1>3. /\ node \in Node /\ received[node] = Absent /\ g \in Int /\ node[2] \in Created
  <2>1. node \in Node \ EP!Applied /\ input_buffers[node] \in Int /\ EP!Ready(node)
    BY <1>2 DEF IInv, EP!IInv, EP!RunningInv, EP!Running, EP!Ready
  <2>2. node \in EP!Visited
    BY <1>2, <2>1 DEF IInv, EP!IInv, EP!RunningInv, EP!Running
  <2> QED BY <1>1, <2>1, <2>2, VisitedExists DEF EP!Applied
<1>4. /\ received'[node] = g /\ \A n \in Node \ {node} : received'[n] = received[n]
      /\ \A n \in Node \ {node} : input_buffers'[n] = input_buffers[n]
  BY <1>2, <1>3 DEF IInv, EP!IInv, EP!TypeOK
<1>5. next_edges' = next_edges /\ \A n, x : Weight(n, x)' = Weight(n, x)
  BY EngineKeepsWeights
<1>6. CASE ~Trusted'
  BY <1>6 DEF AdjointInv
<1>7. ASSUME NEW x \in Leaves, NEW i \in {1, 2, 3}
      PROVE  Pending(i, x)' = g * Flow(node, i, x)
  <2>1. Pending(i, x)' = IF i <= Len(next_edges[node]) /\ i <= Len(input_grads')
                            /\ next_edges[node][i] # NoNode
                         THEN input_grads'[i] * Weight(next_edges[node][i], x) ELSE 0
    BY <1>2, <1>5 DEF Pending
  <2>2. CASE i <= Len(next_edges[node]) /\ next_edges[node][i] # NoNode
    <3>1. /\ next_edges[node][i] \in Node /\ partials[node][i] \in Int
          /\ i <= Len(partials[node]) /\ partials[node] \in Seq(Int)
      BY <1>3, <2>2, EdgeTypes DEF IInv, EP!IInv, EP!TypeOK
    <3>2. i <= Len(input_grads') /\ input_grads'[i] = partials[node][i] * g
      BY <1>2, <3>1
    <3>3. Weight(next_edges[node][i], x) \in Int
      BY <3>1, WeightType DEF ChainInv
    <3>4. PICK p, w : p = partials[node][i] /\ w = Weight(next_edges[node][i], x)
      OBVIOUS
    <3>5. Pending(i, x)' = (p * g) * w
      BY <2>1, <2>2, <3>2, <3>4
    <3>6. Flow(node, i, x) = p * w
      BY <2>2, <3>4 DEF Flow
    <3>7. (p * g) * w = g * (p * w)
      BY <1>3, <3>1, <3>3, <3>4, ScaledFlow
    <3> QED BY <3>5, <3>6, <3>7, Zenon
  <2>3. CASE ~(i <= Len(next_edges[node]) /\ next_edges[node][i] # NoNode)
    BY <1>3, <2>1, <2>3 DEF Flow
  <2> QED BY <2>2, <2>3
<1>8. ASSUME Trusted', NEW x \in Leaves
      PROVE  \A n \in Node : Held(x)'[n] = Held(x)[n]
  <2> SUFFICES ASSUME NEW n \in Node PROVE Held(x)'[n] = Held(x)[n]
    OBVIOUS
  <2>1. CASE n # node
    <3>1. InBuffer(n, x)' = InBuffer(n, x) /\ InHand(n, x)' = InHand(n, x)
      BY <1>2, <1>4, <1>5, <2>1 DEF InBuffer, InHand
    <3> QED BY <1>4, <2>1, <3>1 DEF Held
  <2>2. CASE n = node
    <3>1. Held(x)[n] = g * Weight(n, x) /\ Weight(n, x) \in Int
      BY <1>1, <1>3, <2>2, WeightType DEF Held, InBuffer, ChainInv
    <3>2. received'[n] = g /\ g # Absent
      BY <1>3, <1>4, <2>2, AutogradAssumption
    <3>3. CASE n = Acc(x)
      <4>1. Weight(n, x) = 1
        BY <3>3, LeafNode DEF ChainInv
      <4>2. Held(x)'[n] = g
        BY <3>2, <3>3 DEF Held
      <4> QED BY <1>3, <3>1, <4>1, <4>2
    <3>4. CASE n # Acc(x)
      <4>1. Held(x)'[n] = Pending(1, x)' + Pending(2, x)' + Pending(3, x)'
        BY <1>2, <2>2, <3>2, <3>4 DEF Held, InHand
      <4>2. PICK a, b, c : a = Flow(n, 1, x) /\ b = Flow(n, 2, x) /\ c = Flow(n, 3, x)
        OBVIOUS
      <4>3. a \in Int /\ b \in Int /\ c \in Int
        BY <4>2, FlowType DEF ChainInv
      <4>4. Held(x)'[n] = g * a + g * b + g * c
        <5>1. /\ Pending(1, x)' = g * a /\ Pending(2, x)' = g * b
              /\ Pending(3, x)' = g * c
          BY <1>7, <1>8, <2>2, <4>2
        <5> QED BY <4>1, <5>1, Zenon
      <4>5. g * a + g * b + g * c = g * (a + b + c)
        BY <1>3, <4>3, ScaledSum
      <4>6. Weight(n, x) = a + b + c
        <5>1. n[1] = "fn" /\ HasFn(n[2]) => Intact(n[2])
          BY <1>3, <1>8, <2>2, <3>2, AppliesIntact
        <5>2. ~switched_off_use
          BY <1>8, TrustedStays DEF Trusted
        <5> QED BY <1>3, <2>2, <3>4, <4>2, <5>1, <5>2, NodeFlow
      <4> QED BY <3>1, <4>4, <4>5, <4>6, Zenon
    <3> QED BY <3>3, <3>4
  <2> QED BY <2>1, <2>2
<1>9. CASE Trusted'
  BY <1>2, <1>8, <1>9, SameHeldAdjoint DEF EP!Running
<1> QED BY <1>6, <1>9

LEMMA SkipNullEdgeAdjoint ==
  ASSUME IInv, AdjointInv, EngineStep, E!SkipNullEdge
  PROVE  AdjointInv'
<1>1. /\ status = "delivering" /\ status' = status /\ root' = root /\ node' = node
      /\ received' = received /\ input_buffers' = input_buffers /\ input_grads' = input_grads
      /\ cursor' = cursor + 1 /\ next_edges[node][cursor] = NoNode
  BY DEF E!SkipNullEdge
<1>2. cursor \in Nat \ {0}
  BY DEF IInv, EP!IInv, EP!TypeOK
<1>3. next_edges' = next_edges /\ \A n, x : Weight(n, x)' = Weight(n, x)
  BY EngineKeepsWeights
<1>4. ASSUME NEW x, NEW i \in {1, 2, 3} PROVE Pending(i, x)' = Pending(i, x)
  <2>1. Pending(i, x)' = IF /\ cursor + 1 <= i /\ i <= Len(next_edges[node])
                            /\ i <= Len(input_grads) /\ next_edges[node][i] # NoNode
                         THEN input_grads[i] * Weight(next_edges[node][i], x) ELSE 0
    BY <1>1, <1>3 DEF Pending
  <2>2. CASE i = cursor
    BY <1>1, <1>2, <2>1, <2>2 DEF Pending
  <2>3. CASE i # cursor
    <3>1. cursor + 1 <= i <=> cursor <= i
      BY <1>2, <2>3
    <3> QED BY <2>1, <3>1 DEF Pending
  <2> QED BY <2>2, <2>3
<1>5. \A n, x : InBuffer(n, x)' = InBuffer(n, x) /\ InHand(n, x)' = InHand(n, x)
  BY <1>1, <1>3, <1>4 DEF InBuffer, InHand
<1>6. \A x \in Leaves : \A n \in Node : Held(x)'[n] = Held(x)[n]
  BY <1>1, <1>5 DEF Held
<1> QED BY <1>1, <1>6, SameHeldAdjoint DEF EP!Running

LEMMA FinishNodeAdjoint ==
  ASSUME IInv, AdjointInv, EngineStep, E!FinishNode
  PROVE  AdjointInv'
<1>1. /\ status = "delivering" /\ status' = "popping" /\ root' = root
      /\ received' = received /\ input_buffers' = input_buffers
      /\ ~(cursor <= Len(next_edges[node]) /\ cursor <= Len(input_grads))
  BY DEF E!FinishNode, E!MoreToDeliver
<1>2. /\ cursor \in Nat \ {0} /\ node \in Node /\ Len(next_edges[node]) <= Len(input_grads)
      /\ Len(next_edges[node]) \in Nat /\ Len(input_grads) \in Nat
  <2>1. node \in Node /\ Len(next_edges[node]) <= Len(input_grads)
    BY <1>1 DEF IInv, EP!IInv, EP!RunningInv, EP!Running, EP!Applied
  <2> QED BY <2>1 DEF IInv, EP!IInv, EP!TypeOK
<1>3. \A n, x : Weight(n, x)' = Weight(n, x)
  BY EngineKeepsWeights
<1>4. ASSUME NEW x, NEW i \in {1, 2, 3} PROVE Pending(i, x) = 0
  <2>1. ~(cursor <= i /\ i <= Len(next_edges[node]))
    BY <1>1, <1>2
  <2> QED BY <2>1 DEF Pending
<1>5. \A n, x : InBuffer(n, x)' = InBuffer(n, x)
  BY <1>1, <1>3 DEF InBuffer
<1>6. \A n, x : InHand(n, x) = 0
  BY <1>4 DEF InHand
<1>7. \A n, x : InHand(n, x)' = 0
  BY <1>1 DEF InHand
<1>8. \A x \in Leaves : \A n \in Node : Held(x)'[n] = Held(x)[n]
  BY <1>1, <1>5, <1>6, <1>7 DEF Held
<1> QED BY <1>1, <1>8, SameHeldAdjoint DEF EP!Running

(* Delivering a gradient takes it from the node at hand and adds it to the *)
(* buffer of the next, at the weight of the next.                          *)
LEMMA DeliverGradAdjoint ==
  ASSUME IInv, ChainInv, AdjointInv, EngineStep, E!DeliverGrad
  PROVE  AdjointInv'
<1>1. PICK n, c, b : n = node /\ c = cursor /\ b = next_edges[node][cursor]
  OBVIOUS
<1>2. PICK a : a = input_grads[c]
  OBVIOUS
<1>3. /\ status = "delivering" /\ status' = status /\ root' = root /\ node' = node
      /\ received' = received /\ input_grads' = input_grads /\ cursor' = c + 1
      /\ c <= Len(next_edges[n]) /\ c <= Len(input_grads) /\ next_edges[n][c] = b /\ b # NoNode
      /\ input_buffers' = [input_buffers EXCEPT ![b] = E!AddToBuffer(@, a)]
  BY <1>1, <1>2 DEF E!DeliverGrad, E!MoreToDeliver
<1>4. /\ n \in EP!Applied /\ n \in Node /\ Len(next_edges[n]) <= Len(input_grads)
  BY <1>1, <1>3 DEF IInv, EP!IInv, EP!RunningInv, EP!Running, EP!Applied
<1>5. /\ c \in {1, 2, 3} /\ b \in Node /\ a \in Int
  <2>1. c \in Nat \ {0} /\ input_grads \in Seq(Int)
    BY <1>1 DEF IInv, EP!IInv, EP!TypeOK
  <2> QED BY <1>2, <1>3, <1>4, <2>1, EdgeTypes
<1>6. b \notin EP!Applied
  <2>1. n \in EP!Visited
    BY <1>3, <1>4 DEF IInv, EP!IInv, EP!RunningInv, EP!Running, EP!Ready
  <2>2. <<n, c>> \in EP!Edges /\ EP!Target(<<n, c>>) = b
    BY <1>3, <1>4, <1>5 DEF EP!Edges, EP!Target
  <2>3. ~EP!Delivered(<<n, c>>)
    BY <1>1, <1>3, <1>5 DEF EP!Delivered
  <2>4. <<n, c>> \in EP!Undelivered(b)
    BY <2>1, <2>2, <2>3 DEF EP!Undelivered
  <2>5. b \in EP!Visited
    BY <1>3, <2>1, <2>2 DEF IInv, EP!IInv, EP!RunningInv, EP!Running
  <2> QED BY <1>3, <2>4, <2>5 DEF IInv, EP!IInv, EP!RunningInv, EP!Running, EP!Ready
<1>7. received[n] # Absent /\ received[b] = Absent /\ n # b
  BY <1>4, <1>5, <1>6 DEF EP!Applied
<1>8. /\ input_buffers'[b] = E!AddToBuffer(input_buffers[b], a)
      /\ \A m \in Node \ {b} : input_buffers'[m] = input_buffers[m]
      /\ input_buffers[b] \in Int \cup {Absent, Taken}
  BY <1>3, <1>5 DEF IInv, EP!IInv, EP!TypeOK
<1>9. next_edges' = next_edges /\ \A m, x : Weight(m, x)' = Weight(m, x)
  BY EngineKeepsWeights
<1>10. ASSUME Trusted', NEW x \in Leaves
       PROVE  EP!IsSum(tangent[root[2]][x], Held(x)', Node)
  <2>1. PICK w, v, W : w = Held(x) /\ v = Held(x)' /\ W = Weight(b, x)
    OBVIOUS
  <2>2. EP!IsSum(tangent[root[2]][x], w, Node)
    BY <1>3, <1>10, <2>1, TrustedStays DEF AdjointInv, EP!Running
  <2>3. W \in Int /\ a * W \in Int
    <3>1. W \in Int
      BY <1>5, <2>1, WeightType DEF ChainInv
    <3> QED BY <1>5, <3>1
  <2>4. v[n] = w[n] - a * W
    <3>1. n # Acc(x)
      BY <1>3, <1>5, LeafNode DEF ChainInv
    <3>2. /\ w[n] = Pending(1, x) + Pending(2, x) + Pending(3, x)
          /\ v[n] = Pending(1, x)' + Pending(2, x)' + Pending(3, x)'
      BY <1>1, <1>3, <1>4, <1>7, <2>1, <3>1 DEF Held, InHand
    <3>3. ASSUME NEW i \in {1, 2, 3}
          PROVE  /\ Pending(i, x) \in Int
                 /\ Pending(i, x)' = IF i = c THEN 0 ELSE Pending(i, x)
      <4>1. Pending(i, x)' = IF /\ c + 1 <= i /\ i <= Len(next_edges[n])
                                /\ i <= Len(input_grads) /\ next_edges[n][i] # NoNode
                             THEN input_grads[i] * Weight(next_edges[n][i], x) ELSE 0
        BY <1>1, <1>3, <1>9 DEF Pending
      <4>2. Pending(i, x) = IF /\ c <= i /\ i <= Len(next_edges[n])
                               /\ i <= Len(input_grads) /\ next_edges[n][i] # NoNode
                            THEN input_grads[i] * Weight(next_edges[n][i], x) ELSE 0
        BY <1>1 DEF Pending
      <4>3. Pending(i, x) \in Int
        <5>1. CASE i <= Len(next_edges[n]) /\ i <= Len(input_grads) /\ next_edges[n][i] # NoNode
          <6>1. Weight(next_edges[n][i], x) \in Int
            BY <1>4, <5>1, EdgeTypes, WeightType DEF ChainInv
          <6>2. input_grads[i] \in Int
            BY <5>1 DEF IInv, EP!IInv, EP!TypeOK
          <6> QED BY <4>2, <6>1, <6>2
        <5>2. CASE ~(i <= Len(next_edges[n]) /\ i <= Len(input_grads) /\ next_edges[n][i] # NoNode)
          BY <4>2, <5>2
        <5> QED BY <5>1, <5>2
      <4>4. CASE i = c
        BY <1>5, <4>1, <4>3, <4>4
      <4>5. CASE i # c
        <5>1. c + 1 <= i <=> c <= i
          BY <1>5, <4>5
        <5> QED BY <4>1, <4>2, <4>3, <4>5, <5>1
      <4> QED BY <4>4, <4>5
    <3>4. Pending(c, x) = a * W
      BY <1>1, <1>2, <1>3, <1>5, <2>1 DEF Pending
    <3>5. PICK p1, p2, p3, aw : /\ p1 = Pending(1, x) /\ p2 = Pending(2, x) /\ p3 = Pending(3, x)
                                /\ aw = a * W
      OBVIOUS
    <3>6. p1 \in Int /\ p2 \in Int /\ p3 \in Int
      BY <3>3, <3>5
    <3>7. w[n] = p1 + p2 + p3
      BY <3>2, <3>5
    <3>8. v[n] = (IF c = 1 THEN 0 ELSE p1) + (IF c = 2 THEN 0 ELSE p2) + (IF c = 3 THEN 0 ELSE p3)
      BY <3>2, <3>3, <3>5
    <3>9. aw = IF c = 1 THEN p1 ELSE IF c = 2 THEN p2 ELSE p3
      BY <1>5, <3>4, <3>5
    <3>10. v[n] = w[n] - aw
      BY <1>5, <3>6, <3>7, <3>8, <3>9
    <3> QED BY <3>5, <3>10
  <2>5. v[b] = w[b] + a * W
    <3>1. w[b] = InBuffer(b, x) /\ v[b] = InBuffer(b, x)'
      BY <1>3, <1>5, <1>7, <2>1 DEF Held
    <3>2. CASE input_buffers[b] \in Int
      <4>1. PICK o : o = input_buffers[b]
        OBVIOUS
      <4>2. input_buffers'[b] = o + a
        BY <1>8, <3>2, <4>1, AutogradAssumption DEF E!AddToBuffer
      <4>3. w[b] = o * W
        BY <2>1, <3>1, <3>2, <4>1 DEF InBuffer
      <4>4. v[b] = (o + a) * W
        BY <1>5, <1>9, <2>1, <3>1, <3>2, <4>1, <4>2 DEF InBuffer
      <4>5. (o + a) * W = o * W + a * W
        BY <1>5, <2>3, <3>2, <4>1, TwoGradients
      <4> QED BY <4>3, <4>4, <4>5, Zenon
    <3>3. CASE input_buffers[b] \notin Int
      <4>1. input_buffers'[b] = a
        BY <1>8, <3>3 DEF E!AddToBuffer
      <4>2. w[b] = 0
        BY <3>1, <3>3 DEF InBuffer
      <4>3. v[b] = a * W
        BY <1>5, <1>9, <2>1, <3>1, <4>1 DEF InBuffer
      <4> QED BY <2>3, <4>2, <4>3
    <3> QED BY <3>2, <3>3
  <2>6. ASSUME NEW m \in Node \ {n, b} PROVE v[m] = w[m]
    <3>1. InBuffer(m, x)' = InBuffer(m, x) /\ InHand(m, x)' = InHand(m, x)
      BY <1>1, <1>3, <1>8, <1>9, <2>6 DEF InBuffer, InHand
    <3> QED BY <1>3, <2>1, <2>6, <3>1 DEF Held
  <2>7. EP!IsSum(tangent[root[2]][x], v, Node)
    BY <1>4, <1>5, <1>7, <2>2, <2>3, <2>4, <2>5, <2>6, WeightMoves
  <2> QED BY <2>1, <2>7
<1>11. tangent' = tangent
  BY EngineKeepsWeights
<1>12. CASE ~Trusted'
  BY <1>12 DEF AdjointInv
<1>13. CASE Trusted'
  BY <1>3, <1>10, <1>11, <1>13, AdjointPrimed
<1> QED BY <1>12, <1>13

PassInv == StartInv /\ GradInv /\ AdjointInv

LEMMA EngineStepStart ==
  ASSUME IInv, StartInv, EngineStep
  PROVE  StartInv'
<1> USE DEF E!task
<1>1. Created' = Created /\ \A t : HasFn(t)' = HasFn(t)
  BY EngineKeepsWeights DEF HasFn
<1>2. root' = root
  BY DEF EngineStep, E!CountStep, E!RunStep, E!VisitNode, E!CountEdge, E!LeaveNode,
         E!SeedRoot, E!PopReady, E!ApplyNode, E!ApplyThrows, E!SkipNullEdge,
         E!DeliverGrad, E!DeliverThrows, E!FinishNode, E!Return
<1>3. status \in EP!Running \cup {"counting"}
  BY DEF EngineStep, E!CountStep, E!RunStep, E!VisitNode, E!CountEdge, E!LeaveNode,
         E!SeedRoot, E!PopReady, E!ApplyNode, E!ApplyThrows, E!SkipNullEdge,
         E!DeliverGrad, E!DeliverThrows, E!FinishNode, E!Return, EP!Running
<1>4. root' \in Node /\ root'[1] = "fn" /\ root'[2] \in Created' /\ HasFn(root[2])'
  <2>1. root \in Node /\ root[1] = "fn" /\ root[2] \in Created /\ HasFn(root[2])
    BY <1>3 DEF StartInv
  <2>2. PICK r : r = root
    OBVIOUS
  <2>3. HasFn(r[2])' = HasFn(r[2])
    BY <1>1
  <2> QED BY <1>1, <1>2, <2>1, <2>2, <2>3 DEF HasFn
<1>5. input_buffers \in [Node -> Int \cup {Absent, Taken}]
      /\ dependencies \in [Node -> Nat \cup {Absent}]
  BY DEF IInv, EP!IInv, EP!TypeOK
<1>6. ASSUME status' = "counting" PROVE \A n \in Node : input_buffers'[n] = Absent
  <2>1. status = "counting" /\ input_buffers' = input_buffers
    BY <1>6 DEF EngineStep, E!CountStep, E!RunStep, E!VisitNode, E!CountEdge, E!LeaveNode,
         E!SeedRoot, E!PopReady, E!ApplyNode, E!ApplyThrows, E!SkipNullEdge,
         E!DeliverGrad, E!DeliverThrows, E!FinishNode, E!Return, EP!Running
  <2> QED BY <2>1 DEF StartInv
<1>7. ASSUME status' \in EP!Running, NEW n \in Node, dependencies'[n] = Absent
      PROVE  input_buffers'[n] = Absent
  <2>1. CASE E!CountStep
    BY <1>7, <2>1 DEF E!CountStep, E!VisitNode, E!CountEdge, E!LeaveNode, EP!Running
  <2>2. CASE E!SeedRoot
    <3>1. root \in EP!Visited
      BY <2>2 DEF E!SeedRoot, IInv, EP!IInv, EP!CountingInv
    <3>2. n # root /\ input_buffers[n] = Absent
      BY <1>7, <2>2, <3>1 DEF E!SeedRoot, EP!Visited, StartInv
    <3> QED BY <1>5, <2>2, <3>2 DEF E!SeedRoot
  <2>3. CASE E!ApplyNode
    <3>1. node \in EP!Visited /\ dependencies' = dependencies /\ status \in EP!Running
          /\ input_buffers' = [input_buffers EXCEPT ![node] = Taken]
      BY <2>3 DEF E!ApplyNode, IInv, EP!IInv, EP!RunningInv, EP!Running, EP!Ready
    <3>2. n # node
      BY <1>7, <3>1 DEF EP!Visited
    <3> QED BY <1>5, <1>7, <3>1, <3>2 DEF StartInv
  <2>4. CASE E!DeliverGrad
    <3>1. PICK b : b = next_edges[node][cursor]
      OBVIOUS
    <3>2. /\ status = "delivering" /\ cursor <= Len(next_edges[node]) /\ b # NoNode
          /\ dependencies' = [dependencies EXCEPT ![b] = @ - 1]
          /\ input_buffers' = [input_buffers EXCEPT ![b] = E!AddToBuffer(@, input_grads[cursor])]
      BY <2>4, <3>1 DEF E!DeliverGrad, E!MoreToDeliver
    <3>3. dependencies[b] \in Nat /\ b \in Node
      <4>1. node \in EP!Visited /\ node \in Node
        BY <3>2 DEF IInv, EP!IInv, EP!RunningInv, EP!Running, EP!Applied, EP!Ready
      <4>2. cursor \in Nat \ {0}
        BY DEF IInv, EP!IInv, EP!TypeOK
      <4>3. cursor \in {1, 2, 3} /\ b \in Node
        BY <3>1, <3>2, <4>1, <4>2, EdgeTypes
      <4>4. <<node, cursor>> \in EP!Edges /\ EP!Target(<<node, cursor>>) = b
        BY <3>1, <3>2, <4>1, <4>3 DEF EP!Edges, EP!Target
      <4>5. b \in EP!Visited
        BY <3>2, <4>1, <4>4 DEF IInv, EP!IInv, EP!RunningInv, EP!Running
      <4> QED BY <1>5, <4>5 DEF EP!Visited
    <3>4. n # b
      <4>1. dependencies'[b] = dependencies[b] - 1 /\ dependencies[b] - 1 \in Int
        BY <1>5, <3>2, <3>3
      <4> QED BY <1>7, <4>1, AutogradAssumption
    <3>5. dependencies[n] = Absent /\ input_buffers'[n] = input_buffers[n]
      BY <1>5, <1>7, <3>2, <3>4
    <3> QED BY <3>2, <3>5 DEF StartInv, EP!Running
  <2>5. CASE \/ E!PopReady \/ E!ApplyThrows \/ E!SkipNullEdge \/ E!DeliverThrows
             \/ E!FinishNode \/ E!Return
    <3>1. dependencies' = dependencies /\ input_buffers' = input_buffers /\ status \in EP!Running
      BY <2>5 DEF E!PopReady, E!ApplyThrows, E!SkipNullEdge, E!DeliverThrows,
         E!FinishNode, E!Return, EP!Running
    <3> QED BY <1>7, <3>1 DEF StartInv
  <2> QED BY <2>1, <2>2, <2>3, <2>4, <2>5 DEF EngineStep, E!RunStep
<1> QED BY <1>4, <1>6, <1>7 DEF StartInv

LEMMA EngineStepGrad ==
  ASSUME IInv, RecordInv, GradInv, EngineStep
  PROVE  GradInv'
<1>1. CASE E!CountStep
  BY <1>1 DEF E!CountStep, E!VisitNode, E!CountEdge, E!LeaveNode, GradInv, EP!Running
<1>2. CASE E!SeedRoot
  <2>1. status = "counting" /\ received' = received
    BY <1>2 DEF E!SeedRoot
  <2>2. \A n \in Node : received[n] = Absent
    BY <2>1 DEF IInv, EP!IInv, EP!CountingInv, EP!Applied
  <2>3. \A x \in Leaves : Acc(x) \in Node
    BY LeafNode
  <2> QED BY <2>1, <2>2, <2>3 DEF GradInv
<1>3. CASE E!ApplyNode
  <2>1. PICK g : g = input_buffers[node]
    OBVIOUS
  <2>2. /\ status = "applying" /\ received' = [received EXCEPT ![node] = g]
        /\ grad' = IF node \in Accumulator \cap live THEN [grad EXCEPT ![node] = g] ELSE grad
    BY <1>3, <2>1 DEF E!ApplyNode, E!WritesGrad
  <2>3. /\ received \in [Node -> Int \cup {Absent}] /\ grad \in [Accumulator -> Int \cup {Absent}]
    BY DEF IInv, EP!IInv, EP!TypeOK
  <2>4. ASSUME NEW x \in Leaves, received'[Acc(x)] # Absent
        PROVE  grad'[Acc(x)] = received'[Acc(x)]
    <3>1. Acc(x) \in Node /\ Acc(x) \in Accumulator /\ Acc(x) \in live
      BY LeafNode DEF Acc, Accumulator, Node
    <3>2. CASE node = Acc(x)
      BY <2>2, <2>3, <3>1, <3>2
    <3>3. CASE node # Acc(x)
      <4>1. received'[Acc(x)] = received[Acc(x)] /\ grad'[Acc(x)] = grad[Acc(x)]
        BY <2>2, <2>3, <3>1, <3>3
      <4> QED BY <2>2, <2>4, <4>1 DEF GradInv, EP!Running
    <3> QED BY <3>2, <3>3
  <2> QED BY <2>4 DEF GradInv, Acc
<1>4. CASE \/ E!PopReady \/ E!ApplyThrows \/ E!SkipNullEdge \/ E!DeliverGrad
           \/ E!DeliverThrows \/ E!FinishNode \/ E!Return
  <2>1. /\ received' = received /\ grad' = grad /\ status \in EP!Running
    BY <1>4 DEF E!PopReady, E!ApplyThrows, E!SkipNullEdge, E!DeliverGrad, E!DeliverThrows,
       E!FinishNode, E!Return, EP!Running
  <2> QED BY <2>1 DEF GradInv
<1> QED BY <1>1, <1>2, <1>3, <1>4 DEF EngineStep, E!RunStep

LEMMA EngineStepAdjoint ==
  ASSUME IInv, ChainInv, NoticedInv, StartInv, AdjointInv, EngineStep
  PROVE  AdjointInv'
<1>1. ASSUME status' \notin EP!Running PROVE AdjointInv'
  BY <1>1 DEF AdjointInv
<1>2. CASE E!CountStep
  BY <1>1, <1>2 DEF E!CountStep, E!VisitNode, E!CountEdge, E!LeaveNode, EP!Running
<1>3. CASE E!ApplyThrows \/ E!DeliverThrows \/ E!Return
  BY <1>1, <1>3 DEF E!ApplyThrows, E!DeliverThrows, E!Return, EP!Running
<1> QED BY <1>2, <1>3, SeedRootAdjoint, PopReadyAdjoint, ApplyNodeAdjoint, SkipNullEdgeAdjoint,
           DeliverGradAdjoint, FinishNodeAdjoint DEF EngineStep, E!RunStep

(* When the queue is empty everything is in the leaves.                    *)
LEMMA ReturnLeavesDerivative ==
  ASSUME IInv, IInv', ChainInv, StartInv, GradInv, AdjointInv, EngineStep, E!Return
  PROVE  LeafGradIsDerivative'
<1>1. /\ status = "popping" /\ status' = "done" /\ received' = received /\ grad' = grad
      /\ root' = root /\ dependencies' = dependencies
  BY DEF E!Return, E!task
<1>2. tangent' = tangent
  BY EngineKeepsWeights
<1>3. \A n \in Node : dependencies[n] # Absent <=> received[n] # Absent
  <2>1. (IInv => EP!DoneMeansAllApplied)'
    BY AllApplied, PTL
  <2> QED BY <1>1, <2>1 DEF EP!DoneMeansAllApplied, EP!Visited, EP!Applied
<1>4. ASSUME Trusted, NEW x \in Leaves
      PROVE  IF received[Acc(x)] # Absent THEN grad[Acc(x)] = tangent[root[2]][x]
                                          ELSE tangent[root[2]][x] = 0
  <2>1. Acc(x) \in Node
    BY LeafNode DEF ChainInv
  <2>2. EP!IsSum(tangent[root[2]][x], Held(x), Node)
    BY <1>1, <1>4 DEF AdjointInv, EP!Running
  <2>3. ASSUME NEW n \in Node, received[n] = Absent PROVE Held(x)[n] = 0
    <3>1. input_buffers[n] = Absent
      BY <1>1, <1>3, <2>3 DEF StartInv, EP!Running
    <3> QED BY <2>3, <3>1, AutogradAssumption DEF Held, InBuffer
  <2>4. ASSUME NEW n \in Node, received[n] # Absent, n # Acc(x) PROVE Held(x)[n] = 0
    BY <1>1, <2>4 DEF Held, InHand
  <2>5. tangent[root[2]][x] = Held(x)[Acc(x)]
    <3>1. \A n \in Node \ {Acc(x)} : Held(x)[n] = 0
      BY <2>3, <2>4
    <3> QED BY <2>1, <2>2, <3>1, SoleWeight
  <2>6. CASE received[Acc(x)] = Absent
    BY <2>1, <2>3, <2>5, <2>6
  <2>7. CASE received[Acc(x)] # Absent
    <3>1. Held(x)[Acc(x)] = received[Acc(x)]
      BY <2>1, <2>7 DEF Held
    <3>2. grad[Acc(x)] = received[Acc(x)]
      BY <1>1, <2>7 DEF GradInv, EP!Running
    <3> QED BY <2>5, <2>7, <3>1, <3>2
  <2> QED BY <2>6, <2>7
<1> QED
  <2>1. Trusted' => Trusted
    BY TrustedStays
  <2>2. ASSUME Trusted'
        PROVE  \A x \in Leaves : IF received'[Acc(x)] # Absent
                                THEN grad'[Acc(x)] = tangent'[root'[2]][x]
                                ELSE tangent'[root'[2]][x] = 0
    BY <1>1, <1>2, <1>4, <2>1, <2>2
  <2> QED BY <2>2 DEF LeafGradIsDerivative, Trusted, Acc

LEMMA EngineStepDerivative ==
  ASSUME IInv, IInv', ChainInv, PassInv, EngineStep
  PROVE  LeafGradIsDerivative'
<1>1. CASE E!Return
  BY <1>1, ReturnLeavesDerivative DEF PassInv
<1>2. CASE ~E!Return
  <2>1. status' # "done"
    BY <1>2 DEF EngineStep, E!CountStep, E!RunStep, E!VisitNode, E!CountEdge, E!LeaveNode,
         E!SeedRoot, E!PopReady, E!ApplyNode, E!ApplyThrows, E!SkipNullEdge,
         E!DeliverGrad, E!DeliverThrows, E!FinishNode
  <2> QED BY <2>1 DEF LeafGradIsDerivative
<1> QED BY <1>1, <1>2

(* What the client does between passes leaves the last one's root alone.   *)
LEMMA IdleKeepsPass ==
  ASSUME PassInv, LeafGradIsDerivative, Idle, UNCHANGED passVars,
         switched_off_use => switched_off_use', Inexact \subseteq Inexact',
         \A t \in Created : t \in Created' /\ HasFn(t)' = HasFn(t) /\ tangent'[t] = tangent[t]
  PROVE  PassInv' /\ LeafGradIsDerivative'
<1>1. status \in {"idle", "done", "threw"} /\ status' = status
  BY DEF Idle, passVars
<1>2. AdjointInv'
  BY <1>1 DEF AdjointInv, EP!Running
<1>3. GradInv'
  BY <1>1 DEF PassInv, GradInv, passVars, EP!Running
<1>4. status = "done" => /\ root \in Node /\ root[1] = "fn" /\ root[2] \in Created
                         /\ HasFn(root[2]) /\ root' = root
  BY DEF PassInv, StartInv, passVars
<1>5. StartInv'
  <2>1. status = "done" => root'[2] \in Created' /\ HasFn(root[2])'
    <3>1. PICK r : r = root
      OBVIOUS
    <3>2. status = "done" => r[2] \in Created' /\ HasFn(r[2])'
      BY <1>4, <3>1
    <3> QED BY <1>4, <3>1, <3>2 DEF HasFn
  <2> QED BY <1>1, <1>4, <2>1 DEF StartInv, EP!Running
<1>6. LeafGradIsDerivative'
  <2>1. status = "done" => tangent'[root'[2]] = tangent[root[2]]
    BY <1>4
  <2>2. received' = received /\ grad' = grad /\ root' = root
    BY DEF passVars
  <2>3. Trusted' => Trusted
    BY <2>2 DEF Trusted
  <2>4. ASSUME status = "done", Trusted, NEW x \in Leaves
        PROVE  IF received[Acc(x)] # Absent THEN grad[Acc(x)] = tangent[root[2]][x]
                                            ELSE tangent[root[2]][x] = 0
    BY <2>4 DEF LeafGradIsDerivative, Trusted
  <2> QED BY <1>1, <2>1, <2>2, <2>3, <2>4 DEF LeafGradIsDerivative, Trusted, Acc
<1> QED BY <1>2, <1>3, <1>5, <1>6 DEF PassInv

LEMMA InexactGrows ==
  ASSUME unannounced' = unannounced,
         \A u \in Created : u \in Created' /\ tensors'[u].op = tensors[u].op
  PROVE  Inexact \subseteq Inexact'
BY DEF Inexact, Fn

DerivativeInv ==
  IInv /\ SavedInv /\ NoticedInv /\ ChainInv /\ PassInv /\ LeafGradIsDerivative

LEMMA DerivativeNext ==
  ASSUME DerivativeInv, [Next]_vars
  PROVE  DerivativeInv'
<1>1. IInv /\ IInv' /\ SavedInv' /\ NoticedInv'
  BY NextIInv, SavedNext DEF DerivativeInv
<1>2. ASSUME NEW t \in Created, NEW req \in BOOLEAN, SetRequiresGrad(t, req) PROVE DerivativeInv'
  <2>1. ChainInv'
    BY <1>1, <1>2, SetRequiresGradChain DEF DerivativeInv
  <2>2. \A u \in Created : u \in Created' /\ HasFn(u)' = HasFn(u) /\ tangent'[u] = tangent[u]
    <3>1. /\ tensors \in Seq(TensorRecord) /\ tangent' = tangent
          /\ tensors' = [tensors EXCEPT ![t].requires_grad = req,
                                        ![t].has_acc = KeepAccumulator(@, req)]
      BY <1>1, <1>2 DEF SetRequiresGrad, IInv, TensorsInv
    <3>2. Len(tensors') = Len(tensors) /\ \A u \in Created : tensors[u] \in TensorRecord
      BY <1>1, <3>1, TensorTypes DEF IInv
    <3> QED BY <3>1, <3>2 DEF Created, TensorRecord, HasFn
  <2>4. Inexact \subseteq Inexact'
    <3>1. /\ tensors \in Seq(TensorRecord) /\ unannounced' = unannounced
          /\ tensors' = [tensors EXCEPT ![t].requires_grad = req,
                                        ![t].has_acc = KeepAccumulator(@, req)]
      BY <1>1, <1>2 DEF SetRequiresGrad, IInv, TensorsInv
    <3>2. Len(tensors') = Len(tensors) /\ \A u \in Created : tensors[u] \in TensorRecord
      BY <1>1, <3>1, TensorTypes DEF IInv
    <3>3. \A u \in Created : u \in Created' /\ tensors'[u].op = tensors[u].op
      BY <3>1, <3>2 DEF Created, TensorRecord
    <3> QED BY <3>1, <3>3, InexactGrows
  <2>3. PassInv' /\ LeafGradIsDerivative'
    BY <1>2, <2>2, <2>4, IdleKeepsPass DEF SetRequiresGrad, DerivativeInv
  <2> QED BY <1>1, <2>1, <2>3 DEF DerivativeInv
<1>3. ASSUME NEW op \in Ops, NEW args \in Operands(op, Created), Forward(op, args)
      PROVE  DerivativeInv'
  <2>1. ChainInv'
    BY <1>1, <1>3, ForwardChain DEF DerivativeInv
  <2>2. \A u \in Created : u \in Created' /\ HasFn(u)' = HasFn(u) /\ tangent'[u] = tangent[u]
    <3>1. PICK out : out = Len(tensors) + 1
      OBVIOUS
    <3>2. Recorded(op, args, out)
      BY <1>1, <1>3, <3>1, ForwardRecord DEF DerivativeInv, ChainInv
    <3> QED BY <3>2 DEF Recorded, HasFn
  <2>5. Inexact \subseteq Inexact'
    <3>1. PICK out : out = Len(tensors) + 1
      OBVIOUS
    <3>2. Recorded(op, args, out)
      BY <1>1, <1>3, <3>1, ForwardRecord DEF DerivativeInv, ChainInv
    <3>3. \A u \in Created : u \in Created' /\ tensors'[u].op = tensors[u].op
      BY <3>2 DEF Recorded
    <3>4. unannounced' = unannounced
      BY <1>3 DEF Forward
    <3> QED BY <3>3, <3>4, InexactGrows
  <2>3. Idle /\ UNCHANGED passVars /\ (switched_off_use => switched_off_use')
    BY <1>3 DEF Forward
  <2>4. PassInv' /\ LeafGradIsDerivative'
    BY <2>2, <2>3, <2>5, IdleKeepsPass DEF DerivativeInv
  <2> QED BY <1>1, <2>1, <2>4 DEF DerivativeInv
<1>4. ASSUME NEW x \in Leaves, WriteInPlace(x) PROVE DerivativeInv'
  <2>1. ChainInv'
    BY <1>1, <1>4, WriteInPlaceChain DEF DerivativeInv
  <2>2. \A u \in Created : u \in Created' /\ HasFn(u)' = HasFn(u) /\ tangent'[u] = tangent[u]
    <3>1. /\ tensors \in Seq(TensorRecord) /\ tangent' = tangent
          /\ tensors' = [tensors EXCEPT ![x].element = @ + 1]
      BY <1>1, <1>4 DEF WriteInPlace, IInv, TensorsInv
    <3>2. Len(tensors') = Len(tensors) /\ \A u \in Created : tensors[u] \in TensorRecord
      BY <1>1, <3>1, TensorTypes DEF IInv
    <3> QED BY <3>1, <3>2 DEF Created, TensorRecord, HasFn
  <2>4. Inexact \subseteq Inexact'
    <3>1. /\ tensors \in Seq(TensorRecord) /\ unannounced' = unannounced
          /\ tensors' = [tensors EXCEPT ![x].element = @ + 1]
      BY <1>1, <1>4 DEF WriteInPlace, IInv, TensorsInv
    <3>2. Len(tensors') = Len(tensors) /\ \A u \in Created : tensors[u] \in TensorRecord
      BY <1>1, <3>1, TensorTypes DEF IInv
    <3>3. \A u \in Created : u \in Created' /\ tensors'[u].op = tensors[u].op
      BY <3>1, <3>2 DEF Created, TensorRecord
    <3> QED BY <3>1, <3>3, InexactGrows
  <2>3. PassInv' /\ LeafGradIsDerivative'
    BY <1>4, <2>2, <2>4, IdleKeepsPass DEF WriteInPlace, DerivativeInv
  <2> QED BY <1>1, <2>1, <2>3 DEF DerivativeInv
<1>8. ASSUME NEW x \in Leaves, BumpVersion(x) PROVE DerivativeInv'
  <2>1. /\ UNCHANGED <<tensors, tangent, switched_off_use, unannounced, next_edges, passVars>>
        /\ Idle
    BY <1>8 DEF BumpVersion
  <2>2. ChainInv'
    BY <2>1, ChainUnchanged DEF DerivativeInv
  <2>3. \A u \in Created : u \in Created' /\ HasFn(u)' = HasFn(u) /\ tangent'[u] = tangent[u]
    BY <2>1 DEF Created, HasFn
  <2>4. Inexact \subseteq Inexact'
    BY <2>1, InexactGrows DEF Created
  <2>5. PassInv' /\ LeafGradIsDerivative'
    BY <2>1, <2>3, <2>4, IdleKeepsPass DEF DerivativeInv
  <2> QED BY <1>1, <2>2, <2>5 DEF DerivativeInv
<1>5. ASSUME NEW t \in Created, Backward(t) PROVE DerivativeInv'
  <2>1. /\ HasFn(t) /\ UNCHANGED <<tensors, version, tangent, switched_off_use, next_edges>>
        /\ status' = "counting" /\ root' = Fn(t)
        /\ input_buffers' = [n \in Node |-> Absent]
    BY <1>5 DEF Backward, E!Execute, E!graph
  <2>2. ChainInv'
    BY <2>1, ChainUnchanged DEF DerivativeInv
  <2>3. Fn(t) \in Node /\ Fn(t)[1] = "fn" /\ Fn(t)[2] = t
    BY <1>1, TensorTypes DEF IInv, Fn, Node
  <2>4. Created' = Created /\ HasFn(t)' = HasFn(t)
    BY <2>1 DEF Created, HasFn
  <2>5. StartInv'
    BY <2>1, <2>3, <2>4 DEF StartInv, EP!Running, HasFn
  <2>6. GradInv' /\ AdjointInv' /\ LeafGradIsDerivative'
    BY <2>1 DEF GradInv, AdjointInv, LeafGradIsDerivative, EP!Running
  <2> QED BY <1>1, <2>2, <2>5, <2>6 DEF DerivativeInv, PassInv
<1>6. CASE EngineStep
  <2>1. ChainInv'
    BY <1>6, EngineKeepsWeights, ChainUnchanged DEF DerivativeInv
  <2>2. StartInv' /\ GradInv' /\ AdjointInv'
    BY <1>1, <1>6, EngineStepStart, EngineStepGrad, EngineStepAdjoint
    DEF DerivativeInv, PassInv, ChainInv
  <2>3. LeafGradIsDerivative'
    BY <1>1, <1>6, EngineStepDerivative DEF DerivativeInv
  <2> QED BY <1>1, <2>1, <2>2, <2>3 DEF DerivativeInv, PassInv
<1>7. CASE UNCHANGED vars
  <2>1. UNCHANGED <<tensors, version, tangent, switched_off_use, unannounced, next_edges>>
    BY <1>7 DEF vars, clientVars
  <2>2. UNCHANGED <<grad, status, root, dependencies, input_buffers, node, cursor,
                    input_grads, received>>
    BY <1>7 DEF vars, passVars
  <2>3. ChainInv'
    BY <2>1, ChainUnchanged DEF DerivativeInv
  <2>4. /\ Created' = Created /\ Trusted' = Trusted /\ Inexact' = Inexact
        /\ \A t : HasFn(t)' = HasFn(t)
    BY <2>1, <2>2 DEF Created, HasFn, Trusted, Inexact
  <2>5. StartInv' /\ GradInv' /\ LeafGradIsDerivative'
    BY <2>1, <2>2, <2>4 DEF StartInv, GradInv, LeafGradIsDerivative, DerivativeInv, PassInv, HasFn
  <2>6. AdjointInv'
    <3>1. \A x : Held(x)' = Held(x)
      BY <2>1, <2>2, <2>4 DEF Held, InBuffer, InHand, Pending, Weight
    <3>2. AdjointInv
      BY DEF DerivativeInv, PassInv
    <3>3. CASE Trusted /\ status \in EP!Running
      BY <2>1, <2>2, <3>1, <3>2, <3>3, AdjointPrimed DEF AdjointInv
    <3>4. CASE ~(Trusted /\ status \in EP!Running)
      BY <2>2, <2>4, <3>4 DEF AdjointInv
    <3> QED BY <3>3, <3>4
  <2> QED BY <1>1, <2>3, <2>5, <2>6 DEF DerivativeInv, PassInv
<1> QED BY <1>2, <1>3, <1>4, <1>5, <1>6, <1>7, <1>8 DEF Next, ClientStep

(* TensorAutograd.cpp 53-146, 181-281 with Engine.cpp, AccumulateGrad.cpp   *)
(* and SavedTensor.cpp: whatever was recorded, toggled, overwritten, bumped *)
(* and run before, a pass that ends has left in every leaf the derivative   *)
(* of the tensor it was called on, unless it applied layernorm's node or    *)
(* one whose operand was overwritten with no version to tell it, or a       *)
(* tensor was used with its requires_grad switched off.                     *)
THEOREM GradientsAreDerivatives == Spec => []LeafGradIsDerivative
<1>1. Init => DerivativeInv
  <2> SUFFICES ASSUME Init PROVE DerivativeInv
    OBVIOUS
  <2>1. \A t \in Created : tensors[t].saved = {}
    BY AutogradAssumption DEF Init, Leaf, Created, Leaves
  <2>2. IInv /\ SavedInv /\ NoticedInv
    BY <2>1, InitIInv DEF SavedInv, NoticedInv, Init, EP!Running
  <2>3. PassInv /\ LeafGradIsDerivative
    BY DEF Init, PassInv, StartInv, GradInv, AdjointInv, LeafGradIsDerivative, EP!Running
  <2> QED BY <2>2, <2>3, InitChain DEF DerivativeInv
<1>2. DerivativeInv /\ [Next]_vars => DerivativeInv'
  BY DerivativeNext
<1>3. DerivativeInv => LeafGradIsDerivative
  BY DEF DerivativeInv
<1> QED BY <1>1, <1>2, <1>3, PTL DEF Spec
=============================================================================
