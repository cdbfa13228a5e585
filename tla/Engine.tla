------------------------------- MODULE Engine -------------------------------
(***************************************************************************)
(* The backward engine of autograd/Engine.cpp: GraphTask, InputBuffer,     *)
(* compute_dependencies and execute, with AccumulateGrad::apply.           *)
(*                                                                         *)
(* The engine is one thread, so the order of steps is the program's.  A    *)
(* step is one iteration of an inner loop: the places where the code can   *)
(* throw, and where a count, a buffer and the queue must agree, are then   *)
(* between steps.  A gradient is the single number of a one-element tensor *)
(* and a backward node multiplies it by one partial derivative per input,  *)
(* which is what every apply() does: all of them are linear in their       *)
(* upstream gradient.                                                      *)
(***************************************************************************)
EXTENDS Integers, Sequences, FiniteSets

CONSTANTS Node,         \* the Node objects of the backward graph
          Accumulator,  \* those that are AccumulateGrad nodes
          MaxInputs,    \* longest next_edges_ (3: LayerNormBackward)
          Graphs,       \* the graphs execute() may be given
          NoNode,       \* a null Edge::function, and "no node at hand"
          Absent,       \* find(...) == end()
          Taken         \* an InputBuffer emptied by take()

VARIABLES
  next_edges,     \* Node::next_edges_
  partials,       \* what apply() multiplies its gradient by, per input
  stale,          \* nodes with a SavedTensor whose version check fails
  unaddable,      \* nodes whose incoming gradients add_tensors refuses
  live,           \* accumulators whose weak meta_ can still be locked
  grad,           \* AutogradMeta::grad_ behind each accumulator
  status,         \* where execute() is
  root,           \* its argument
  to_visit,       \* queue of compute_dependencies
  dependencies,   \* GraphTask::dependencies_
  input_buffers,  \* GraphTask::input_buffers_
  ready_queue,    \* queue of execute()
  node,           \* the local `node` of whichever loop is running
  cursor,         \* its loop index i, counted from 1
  input_grads,    \* what apply() returned
  received        \* history: the gradient each node was applied to

graph  == <<next_edges, partials>>
faults == <<stale, unaddable, live>>
task   == <<to_visit, dependencies, input_buffers, ready_queue, node, cursor,
            input_grads>>
vars   == <<graph, faults, grad, status, root, task, received>>

-----------------------------------------------------------------------------

(* A directed graph is acyclic when every non-empty set of nodes has a     *)
(* member that no edge from the set enters.                                *)
Acyclic(edges) ==
  \A S \in SUBSET Node : S # {} =>
    \E n \in S : \A m \in S : \A i \in 1..Len(edges[m]) : edges[m][i] # n

ASSUME ConstantsAssumption ==
  /\ IsFiniteSet(Node) /\ NoNode \notin Node /\ Accumulator \subseteq Node
  /\ MaxInputs \in Nat
  /\ Absent \notin Int /\ Taken \notin Int /\ Absent # Taken

(* What the forward pass builds: a DAG in which every node returns a       *)
(* gradient for each of its edges and an AccumulateGrad passes its         *)
(* gradient on unchanged.                                                  *)
ASSUME GraphsAssumption ==
  \A g \in Graphs :
    /\ g.next_edges \in [Node -> Seq(Node \cup {NoNode})]
    /\ g.partials \in [Node -> Seq(Int)]
    /\ \A n \in Node : /\ Len(g.next_edges[n]) <= MaxInputs
                       /\ Len(g.next_edges[n]) <= Len(g.partials[n])
    /\ \A n \in Accumulator : g.partials[n] = <<1>>
    /\ Acyclic(g.next_edges)

Running == {"popping", "applying", "delivering"}

Init ==
  /\ \E g \in Graphs : next_edges = g.next_edges /\ partials = g.partials
  /\ stale \in SUBSET (Node \ Accumulator)
  /\ unaddable \in SUBSET Node
  /\ live \in SUBSET Accumulator
  /\ grad = [n \in Accumulator |-> Absent]
  /\ status = "idle"
  /\ root = NoNode
  /\ to_visit = <<>> /\ ready_queue = <<>> /\ input_grads = <<>>
  /\ dependencies = [n \in Node |-> Absent]
  /\ input_buffers = [n \in Node |-> Absent]
  /\ received = [n \in Node |-> Absent]
  /\ node = NoNode
  /\ cursor = 1

(* execute() makes a fresh GraphTask and enters compute_dependencies.      *)
Execute(r) ==
  /\ status \in {"idle", "done", "threw"}
  /\ status' = "counting"
  /\ root' = r
  /\ to_visit' = <<r>>
  /\ dependencies' = [n \in Node |-> IF n = r THEN 0 ELSE Absent]
  /\ input_buffers' = [n \in Node |-> Absent]
  /\ received' = [n \in Node |-> Absent]
  /\ ready_queue' = <<>> /\ input_grads' = <<>>
  /\ node' = NoNode /\ cursor' = 1
  /\ UNCHANGED <<graph, faults, grad>>

-----------------------------------------------------------------------------
(* compute_dependencies: breadth-first from the root.                      *)

VisitNode ==
  /\ status = "counting" /\ node = NoNode /\ to_visit # <<>>
  /\ node' = Head(to_visit)
  /\ to_visit' = Tail(to_visit)
  /\ cursor' = 1
  /\ UNCHANGED <<graph, faults, grad, status, root, dependencies,
                 input_buffers, ready_queue, input_grads, received>>

CountFirstEdgeOnly(counts, n) ==
  [counts EXCEPT ![n] = IF @ = Absent THEN 1 ELSE @]

CountInboundEdge(counts, n) ==
  [counts EXCEPT ![n] = IF @ = Absent THEN 1 ELSE @ + 1]

CountEdge ==
  /\ status = "counting" /\ node # NoNode
  /\ cursor <= Len(next_edges[node])
  /\ LET next == next_edges[node][cursor]
     IN IF next = NoNode
        THEN UNCHANGED <<dependencies, to_visit>>
        ELSE /\ dependencies' = CountInboundEdge(dependencies, next)
             /\ to_visit' = IF dependencies[next] = Absent
                            THEN Append(to_visit, next) ELSE to_visit
  /\ cursor' = cursor + 1
  /\ UNCHANGED <<graph, faults, grad, status, root, input_buffers,
                 ready_queue, node, input_grads, received>>

LeaveNode ==
  /\ status = "counting" /\ node # NoNode
  /\ cursor > Len(next_edges[node])
  /\ node' = NoNode
  /\ UNCHANGED <<graph, faults, grad, status, root, to_visit, dependencies,
                 input_buffers, ready_queue, cursor, input_grads, received>>

-----------------------------------------------------------------------------
(* execute: Tensor::backward seeds the root with a gradient of ones.       *)

SeedRoot ==
  /\ status = "counting" /\ node = NoNode /\ to_visit = <<>>
  /\ status' = "popping"
  /\ input_buffers' = [input_buffers EXCEPT ![root] = 1]
  /\ ready_queue' = <<root>>
  /\ UNCHANGED <<graph, faults, grad, root, to_visit, dependencies, node,
                 cursor, input_grads, received>>

(* A node without a buffer is dropped: the loop continues.                 *)
PopReady ==
  /\ status = "popping" /\ ready_queue # <<>>
  /\ ready_queue' = Tail(ready_queue)
  /\ IF input_buffers[Head(ready_queue)] = Absent
     THEN UNCHANGED <<status, node>>
     ELSE status' = "applying" /\ node' = Head(ready_queue)
  /\ UNCHANGED <<graph, faults, grad, root, to_visit, dependencies,
                 input_buffers, cursor, input_grads, received>>

(* AccumulateGrad::apply assigns grad_; it does not add to what is there.  *)
(* A node whose variable is gone only passes the gradient on.              *)
WritesGrad(n) == n \in Accumulator \cap live

ApplyNode ==
  /\ status = "applying"
  /\ node \notin stale /\ input_buffers[node] # Taken
  /\ LET g == input_buffers[node]
     IN /\ input_grads' =
             [i \in 1..Len(partials[node]) |-> partials[node][i] * g]
        /\ received' = [received EXCEPT ![node] = g]
        /\ grad' = IF WritesGrad(node) THEN [grad EXCEPT ![node] = g]
                                       ELSE grad
  /\ input_buffers' = [input_buffers EXCEPT ![node] = Taken]
  /\ status' = "delivering"
  /\ cursor' = 1
  /\ UNCHANGED <<graph, faults, root, to_visit, dependencies, ready_queue,
                 node>>

(* SavedTensor::unpack finds another version, or apply() has no gradient.  *)
ApplyThrows ==
  /\ status = "applying"
  /\ node \in stale \/ input_buffers[node] = Taken
  /\ status' = "threw"
  /\ UNCHANGED <<graph, faults, grad, root, task, received>>

MoreToDeliver ==
  cursor <= Len(next_edges[node]) /\ cursor <= Len(input_grads)

(* add_tensors throws on a second gradient it cannot add: not Float32, or  *)
(* of another shape.                                                       *)
AddThrows(n) == n \in unaddable /\ input_buffers[n] \in Int

OverwriteBuffer(buffer, g) == g

AddToBuffer(buffer, g) == IF buffer \in {Absent, Taken} THEN g ELSE buffer + g

ReadyOneEarly(count) == count <= 1

ReadyPostDecrement(count) == count + 1 = 0

ReadyAt(count) == count = 0

SpinOnNullEdge ==
  /\ status = "delivering" /\ MoreToDeliver
  /\ next_edges[node][cursor] = NoNode
  /\ UNCHANGED vars

SkipNullEdge ==
  /\ status = "delivering" /\ MoreToDeliver
  /\ next_edges[node][cursor] = NoNode
  /\ cursor' = cursor + 1
  /\ UNCHANGED <<graph, faults, grad, status, root, to_visit, dependencies,
                 input_buffers, ready_queue, node, input_grads, received>>

DeliverGrad ==
  /\ status = "delivering" /\ MoreToDeliver
  /\ next_edges[node][cursor] # NoNode
  /\ LET next == next_edges[node][cursor]
     IN /\ ~AddThrows(next)
        /\ input_buffers' =
             [input_buffers EXCEPT ![next] = AddToBuffer(@, input_grads[cursor])]
        /\ dependencies' = [dependencies EXCEPT ![next] = @ - 1]
        /\ ready_queue' = IF ReadyAt(dependencies'[next])
                          THEN Append(ready_queue, next) ELSE ready_queue
  /\ cursor' = cursor + 1
  /\ UNCHANGED <<graph, faults, grad, status, root, to_visit, node,
                 input_grads, received>>

DeliverThrows ==
  /\ status = "delivering" /\ MoreToDeliver
  /\ next_edges[node][cursor] # NoNode
  /\ AddThrows(next_edges[node][cursor])
  /\ status' = "threw"
  /\ UNCHANGED <<graph, faults, grad, root, task, received>>

(* The call to release_saved() that follows is Node's empty one: no        *)
(* backward node overrides it.                                             *)
FinishNode ==
  /\ status = "delivering" /\ ~MoreToDeliver
  /\ status' = "popping"
  /\ node' = NoNode
  /\ UNCHANGED <<graph, faults, grad, root, to_visit, dependencies,
                 input_buffers, ready_queue, cursor, input_grads, received>>

Return ==
  /\ status = "popping" /\ ready_queue = <<>>
  /\ status' = "done"
  /\ UNCHANGED <<graph, faults, grad, root, task, received>>

CountStep == VisitNode \/ CountEdge \/ LeaveNode

RunStep ==
  \/ SeedRoot \/ PopReady \/ ApplyNode \/ ApplyThrows \/ SkipNullEdge
  \/ DeliverGrad \/ DeliverThrows \/ FinishNode \/ Return

Next == (\E r \in Node \ Accumulator : Execute(r)) \/ CountStep \/ RunStep

(* execute() is a plain loop: once called it runs on until it returns.     *)
Fairness == WF_vars(CountStep \/ RunStep)

Spec == Init /\ [][Next]_vars /\ Fairness

-----------------------------------------------------------------------------

TypeOK ==
  /\ next_edges \in [Node -> Seq(Node \cup {NoNode})]
  /\ partials \in [Node -> Seq(Int)]
  /\ stale \subseteq Node /\ unaddable \subseteq Node /\ live \subseteq Accumulator
  /\ grad \in [Accumulator -> Int \cup {Absent}]
  /\ status \in Running \cup {"idle", "counting", "done", "threw"}
  /\ root \in Node \cup {NoNode}
  /\ to_visit \in Seq(Node) /\ ready_queue \in Seq(Node)
  /\ dependencies \in [Node -> Nat \cup {Absent}]
  /\ input_buffers \in [Node -> Int \cup {Absent, Taken}]
  /\ node \in Node \cup {NoNode}
  /\ cursor \in Nat \ {0}
  /\ input_grads \in Seq(Int)
  /\ received \in [Node -> Int \cup {Absent}]

Visited == {n \in Node : dependencies[n] # Absent}
Applied == {n \in Node : received[n] # Absent}

(* The i-th edge of n, when its function is not null.                      *)
Edges == {e \in Node \X (1..MaxInputs) :
            /\ e[2] <= Len(next_edges[e[1]])
            /\ next_edges[e[1]][e[2]] # NoNode}
Target(e) == next_edges[e[1]][e[2]]

Delivered(e) ==
  /\ e[1] \in Applied
  /\ status = "delivering" /\ node = e[1] => e[2] < cursor

Undelivered(n) ==
  {e \in Edges : e[1] \in Visited /\ Target(e) = n /\ ~Delivered(e)}

(* Every count in GraphTask::dependencies_ is exactly the number of        *)
(* in-edges, of the part of the graph this backward pass covers, over      *)
(* which no gradient has come yet.  (Engine.cpp 14-24 makes the counts, 62 *)
(* uses them.)                                                             *)
DependenciesAreUndeliveredEdges ==
  status \in Running \cup {"done"} =>
    \A n \in Visited : dependencies[n] = Cardinality(Undelivered(n))

(* A node is applied at most once in a pass, and only when every gradient  *)
(* it will ever get has been added to its buffer.  Applied early, it would *)
(* use a partial sum and AccumulateGrad would publish it; applied twice,   *)
(* everything below it would count twice.  (Engine.cpp 38-65)              *)
AppliedOnceAndComplete ==
  status = "applying" => /\ node \notin Applied
                         /\ Undelivered(node) = {}
                         /\ input_buffers[node] \in Int

(* The queue never holds a node twice, nor one that has run.               *)
(* (Engine.cpp 35-40, 62-64)                                               *)
ReadyQueueHasNoRepeats ==
  /\ \A i, j \in 1..Len(ready_queue) :
       ready_queue[i] = ready_queue[j] => i = j
  /\ status \in Running =>
       \A i \in 1..Len(ready_queue) : ready_queue[i] \notin Applied \cup {node}

(* An empty queue means the pass is complete: no reachable node has been   *)
(* left behind waiting for a gradient.  (Engine.cpp 38)                    *)
DoneMeansAllApplied == status = "done" => Visited = Applied

(* What a pass promises, with the engine's own stages hidden.              *)
Promise == INSTANCE Backward WITH
  status <- IF status \in Running \cup {"counting"} THEN "running" ELSE status
=============================================================================
