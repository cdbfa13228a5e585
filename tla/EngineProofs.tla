---------------------------- MODULE EngineProofs ----------------------------
(***************************************************************************)
(* Proofs about Engine, for every finite set of nodes and every set of     *)
(* acyclic graphs over it: its invariants, and that it implements the      *)
(* safety part of Backward.                                                *)
(***************************************************************************)
EXTENDS Engine, FiniteSetTheorems, WellFoundedInduction, TLAPS

In(n, queue) == \E i \in 1..Len(queue) : queue[i] = n

NoRepeats(queue) ==
  \A i, j \in 1..Len(queue) : queue[i] = queue[j] => i = j

GraphOK ==
  /\ \A n \in Node : /\ Len(next_edges[n]) <= MaxInputs
                     /\ Len(next_edges[n]) <= Len(partials[n])
  /\ Acyclic(next_edges)

-----------------------------------------------------------------------------
(* While compute_dependencies runs.                                        *)

(* The edges the two nested loops have been over.                          *)
Counted(e) ==
  /\ e[1] \in Visited
  /\ ~In(e[1], to_visit)
  /\ e[1] = node => e[2] < cursor

CountedInto(n) == {e \in Edges : Counted(e) /\ Target(e) = n}

CountingInv ==
  status = "counting" =>
    /\ root \in Visited
    /\ Applied = {}
    /\ ready_queue = <<>>
    /\ NoRepeats(to_visit)
    /\ \A n \in Node : In(n, to_visit) => n \in Visited /\ n # node
    /\ node # NoNode => node \in Visited
    /\ \A e \in Edges : Counted(e) => Target(e) \in Visited
    /\ \A n \in Visited : dependencies[n] = Cardinality(CountedInto(n))
    /\ \A n \in Visited \ {root} : CountedInto(n) # {}

-----------------------------------------------------------------------------
(* While the main loop of execute runs.                                    *)

(* The nodes whose last gradient has come in.                              *)
Ready(n) == n \in Applied \/ In(n, ready_queue) \/ (status = "applying" /\ n = node)

RunningInv ==
  status \in Running \cup {"done"} =>
    /\ \A e \in Edges : e[1] \in Visited => Target(e) \in Visited
    /\ \A n \in Visited : dependencies[n] = Cardinality(Undelivered(n))
    /\ \A n \in Node : Ready(n) => n \in Visited
    /\ \A n \in Visited : Ready(n) <=> Undelivered(n) = {}
    /\ NoRepeats(ready_queue)
    /\ \A n \in Node : In(n, ready_queue) =>
         n \notin Applied /\ n # node /\ input_buffers[n] \in Int
    /\ status = "popping" => node = NoNode
    /\ status = "applying" => /\ node \in Node \ Applied
                              /\ input_buffers[node] \in Int
    /\ status = "delivering" => /\ node \in Applied
                                /\ Len(next_edges[node]) <= Len(input_grads)
    /\ status = "done" => ready_queue = <<>> /\ node = NoNode

IInv == TypeOK /\ GraphOK /\ CountingInv /\ RunningInv /\ NoRepeats(ready_queue)

-----------------------------------------------------------------------------
(* Queues.                                                                 *)

LEMMA AppendToQueue ==
  ASSUME NEW S, NEW q \in Seq(S), NEW x \in S
  PROVE  /\ Append(q, x) \in Seq(S)
         /\ \A n : In(n, Append(q, x)) <=> In(n, q) \/ n = x
         /\ NoRepeats(q) /\ ~In(x, q) => NoRepeats(Append(q, x))
<1> DEFINE r == Append(q, x)
<1>1. /\ r \in Seq(S) /\ Len(r) = Len(q) + 1 /\ Len(q) \in Nat
      /\ r[Len(q) + 1] = x
      /\ \A i \in 1..Len(q) : r[i] = q[i]
  OBVIOUS
<1>2. ASSUME NEW n PROVE In(n, r) <=> In(n, q) \/ n = x
  <2>1. \A i \in 1..Len(r) : i \in 1..Len(q) \/ i = Len(q) + 1
    BY <1>1
  <2>2. 1..Len(q) \subseteq 1..Len(r) /\ Len(q) + 1 \in 1..Len(r)
    BY <1>1
  <2> HIDE DEF r
  <2> QED BY <1>1, <2>1, <2>2 DEF In
<1>3. ASSUME NoRepeats(q), ~In(x, q) PROVE NoRepeats(r)
  <2> HIDE DEF r
  <2> QED BY <1>1, <1>3 DEF NoRepeats, In
<1> QED BY <1>1, <1>2, <1>3

LEMMA PopFromQueue ==
  ASSUME NEW S, NEW q \in Seq(S), q # <<>>, NoRepeats(q)
  PROVE  /\ Head(q) \in S /\ In(Head(q), q)
         /\ Tail(q) \in Seq(S)
         /\ NoRepeats(Tail(q))
         /\ \A n : In(n, Tail(q)) <=> In(n, q) /\ n # Head(q)
<1> DEFINE r == Tail(q)
<1>1. /\ r \in Seq(S) /\ Len(r) = Len(q) - 1 /\ Len(q) \in Nat /\ Len(q) > 0
      /\ \A i \in 1..Len(r) : r[i] = q[i + 1]
      /\ Head(q) = q[1] /\ q[1] \in S
  OBVIOUS
<1>2. NoRepeats(r)
  <2> HIDE DEF r
  <2> QED BY <1>1 DEF NoRepeats
<1>3. ASSUME NEW n PROVE In(n, r) <=> In(n, q) /\ n # q[1]
  <2> HIDE DEF r
  <2>1. ASSUME In(n, r) PROVE In(n, q) /\ n # q[1]
    <3>1. PICK i \in 1..Len(r) : r[i] = n  BY <2>1 DEF In
    <3>2. i + 1 \in 1..Len(q) /\ q[i + 1] = n /\ 1 \in 1..Len(q) /\ i + 1 # 1
      BY <1>1, <3>1
    <3> QED BY <3>2 DEF In, NoRepeats
  <2>2. ASSUME In(n, q), n # q[1] PROVE In(n, r)
    <3>1. PICK i \in 1..Len(q) : q[i] = n  BY <2>2 DEF In
    <3>2. i - 1 \in 1..Len(r) /\ r[i - 1] = n  BY <1>1, <2>2, <3>1
    <3> QED BY <3>2 DEF In
  <2> QED BY <2>1, <2>2
<1>4. In(q[1], q)  BY <1>1 DEF In
<1> QED BY <1>1, <1>2, <1>3, <1>4

LEMMA EmptyQueue == NoRepeats(<<>>) /\ \A n : ~In(n, <<>>)
BY DEF NoRepeats, In

LEMMA QueueOfOne ==
  ASSUME NEW x
  PROVE  NoRepeats(<<x>>) /\ \A n : In(n, <<x>>) <=> n = x
BY DEF NoRepeats, In

-----------------------------------------------------------------------------
(* Edges.                                                                  *)

LEMMA EdgesAreFinite == IsFiniteSet(Edges)
<1>1. IsFiniteSet(1..MaxInputs)
  <2>1. 1 \in Int /\ MaxInputs \in Int  BY ConstantsAssumption
  <2> QED BY <2>1, FS_Interval
<1>2. IsFiniteSet(Node)  BY ConstantsAssumption
<1>3. IsFiniteSet(Node \X (1..MaxInputs))  BY <1>1, <1>2, FS_Product
<1>4. Edges \subseteq Node \X (1..MaxInputs)  BY DEF Edges
<1> QED BY <1>3, <1>4, FS_Subset

LEMMA EdgeAtHand ==
  ASSUME TypeOK, GraphOK, node \in Node, cursor <= Len(next_edges[node]),
         next_edges[node][cursor] # NoNode
  PROVE  /\ <<node, cursor>> \in Edges
         /\ Target(<<node, cursor>>) = next_edges[node][cursor]
         /\ next_edges[node][cursor] \in Node
<1>1. /\ next_edges[node] \in Seq(Node \cup {NoNode})
      /\ cursor \in 1..Len(next_edges[node])
      /\ Len(next_edges[node]) <= MaxInputs
      /\ Len(next_edges[node]) \in Nat
  BY DEF TypeOK, GraphOK
<1>2. next_edges[node][cursor] \in Node \cup {NoNode}
  BY <1>1
<1>3. cursor \in 1..MaxInputs
  BY <1>1, ConstantsAssumption
<1> QED BY <1>1, <1>2, <1>3 DEF Edges, Target

-----------------------------------------------------------------------------
(* The first loop.                                                         *)

LEMMA InitIInv == Init => IInv
<1> SUFFICES ASSUME Init PROVE IInv
  OBVIOUS
<1> USE ConstantsAssumption DEF Init
<1>1. PICK g \in Graphs : next_edges = g.next_edges /\ partials = g.partials
  OBVIOUS
<1>2. GraphOK /\ next_edges \in [Node -> Seq(Node \cup {NoNode})]
        /\ partials \in [Node -> Seq(Int)]
  BY <1>1, GraphsAssumption DEF GraphOK
<1>3. TypeOK
  BY <1>2 DEF TypeOK, Running
<1>4. CountingInv /\ RunningInv
  BY DEF CountingInv, RunningInv, Running
<1> QED BY <1>2, <1>3, <1>4, EmptyQueue DEF IInv

LEMMA GraphIsFixed ==
  ASSUME GraphOK, UNCHANGED graph
  PROVE  GraphOK'
BY DEF GraphOK, graph, Acyclic

LEMMA ExecuteIInv ==
  ASSUME IInv, NEW r \in Node, Execute(r)
  PROVE  IInv'
<1> USE DEF IInv, Execute
<1>1. TypeOK'
  <2>1. <<r>> \in Seq(Node) /\ <<>> \in Seq(Node) /\ <<>> \in Seq(Int)
    OBVIOUS
  <2> QED BY <2>1, ConstantsAssumption DEF TypeOK, Running, graph, faults
<1>2. GraphOK'
  BY GraphIsFixed
<1>3. CountingInv'
  <2>1. Visited' = {r} /\ Applied' = {}
    BY ConstantsAssumption DEF Visited, Applied
  <2>2. NoRepeats(to_visit') /\ \A n : In(n, to_visit') <=> n = r
    BY QueueOfOne
  <2>3. ASSUME NEW n \in Node PROVE CountedInto(n)' = {}
    BY <2>1, <2>2 DEF CountedInto, Counted
  <2>4. \A e \in Edges' : ~Counted(e)'
    BY <2>1, <2>2 DEF Counted
  <2>5. dependencies'[r] = Cardinality(CountedInto(r)')
    BY <2>3, FS_EmptySet
  <2> QED BY <2>1, <2>2, <2>3, <2>4, <2>5, EmptyQueue, ConstantsAssumption
          DEF CountingInv
<1>4. RunningInv'
  BY DEF RunningInv, Running
<1> QED BY <1>1, <1>2, <1>3, <1>4, EmptyQueue

LEMMA VisitNodeIInv ==
  ASSUME IInv, VisitNode
  PROVE  IInv'
<1> USE DEF IInv, VisitNode
<1> DEFINE head == Head(to_visit)
<1>1. /\ head \in Node /\ In(head, to_visit)
      /\ to_visit' \in Seq(Node) /\ NoRepeats(to_visit')
      /\ \A n : In(n, to_visit') <=> In(n, to_visit) /\ n # head
  BY PopFromQueue DEF TypeOK, CountingInv
<1>2. TypeOK'
  BY <1>1, SMTT(20) DEF TypeOK, graph, faults
<1>3. GraphOK'
  BY GraphIsFixed
<1>4. CountingInv'
  <2>1. Visited' = Visited /\ Applied' = Applied /\ Edges' = Edges
    BY DEF Visited, Applied, Edges, graph
  <2>2. \A e \in Edges : Target(e)' = Target(e)
    BY DEF Target, graph
  <2>3. \A e \in Edges : Counted(e)' <=> Counted(e)
    <3> SUFFICES ASSUME NEW e \in Edges PROVE Counted(e)' <=> Counted(e)
      OBVIOUS
    <3>1. e[1] \in Node /\ e[2] \in Nat /\ e[2] >= 1
      BY ConstantsAssumption DEF Edges
    <3> QED BY <1>1, <2>1, <3>1, ConstantsAssumption DEF Counted
  <2>4. \A n \in Node : CountedInto(n)' = CountedInto(n)
    BY <2>1, <2>2, <2>3 DEF CountedInto
  <2>5. Visited \subseteq Node
    BY DEF Visited
  <2> QED BY <1>1, <2>1, <2>2, <2>3, <2>4, <2>5 DEF CountingInv
<1>5. RunningInv'
  BY DEF RunningInv, Running
<1> QED BY <1>2, <1>3, <1>4, <1>5

LEMMA LeaveNodeIInv ==
  ASSUME IInv, LeaveNode
  PROVE  IInv'
<1> USE DEF IInv, LeaveNode
<1>1. TypeOK'
  BY DEF TypeOK, graph, faults
<1>2. GraphOK'
  BY GraphIsFixed
<1>3. CountingInv'
  <2>1. /\ Visited' = Visited /\ Applied' = Applied /\ Edges' = Edges
        /\ Visited \subseteq Node
    BY DEF Visited, Applied, Edges, graph
  <2>2. \A e \in Edges : Target(e)' = Target(e)
    BY DEF Target, graph
  <2>3. \A e \in Edges : Counted(e)' <=> Counted(e)
    <3> SUFFICES ASSUME NEW e \in Edges PROVE Counted(e)' <=> Counted(e)
      OBVIOUS
    <3>1. /\ e[1] \in Node /\ e[2] \in Nat /\ e[2] <= Len(next_edges[e[1]])
          /\ Len(next_edges[e[1]]) \in Nat /\ cursor \in Nat
      BY ConstantsAssumption DEF Edges, TypeOK
    <3>2. e[1] = node => e[2] < cursor
      BY <3>1
    <3> QED BY <2>1, <3>1, <3>2, ConstantsAssumption DEF Counted
  <2>4. \A n \in Node : CountedInto(n)' = CountedInto(n)
    BY <2>1, <2>2, <2>3 DEF CountedInto
  <2> QED BY <2>1, <2>2, <2>3, <2>4, ConstantsAssumption DEF CountingInv
<1>4. RunningInv'
  BY DEF RunningInv, Running
<1> QED BY <1>1, <1>2, <1>3, <1>4

LEMMA CountEdgeIInv ==
  ASSUME IInv, CountEdge
  PROVE  IInv'
<1> USE DEF IInv, CountEdge
<1> DEFINE next == next_edges[node][cursor]
           edge == <<node, cursor>>
<1>1. GraphOK'
  BY GraphIsFixed
<1>2. RunningInv'
  BY DEF RunningInv, Running
<1>3. /\ Edges' = Edges /\ Applied' = Applied
      /\ \A e \in Edges : Target(e)' = Target(e)
      /\ node \in Node /\ Visited \subseteq Node
      /\ cursor \in Nat /\ cursor' = cursor + 1 /\ cursor <= Len(next_edges[node])
      /\ status' = "counting" /\ root' = root /\ node' = node
  BY DEF Edges, Applied, Target, graph, TypeOK, Visited
<1>4. /\ root \in Visited
      /\ \A n \in Visited : dependencies[n] = Cardinality(CountedInto(n))
      /\ \A n \in Visited \ {root} : CountedInto(n) # {}
  BY DEF CountingInv
<1>5. CASE next = NoNode
  <2>1. TypeOK' /\ Visited' = Visited
    BY <1>5, <1>3 DEF TypeOK, Visited, graph, faults
  <2>2. edge \notin Edges
    BY <1>5 DEF Edges
  <2>3. \A e \in Edges : Counted(e)' <=> Counted(e)
    <3> SUFFICES ASSUME NEW e \in Edges PROVE Counted(e)' <=> Counted(e)
      OBVIOUS
    <3>1. e = <<e[1], e[2]>> /\ e[2] \in Nat
      BY ConstantsAssumption DEF Edges
    <3>2. e[1] = node => (e[2] < cursor <=> e[2] < cursor + 1)
      BY <3>1, <2>2, <1>3
    <3> QED BY <1>3, <1>5, <2>1, <3>2 DEF Counted
  <2>4. \A n \in Node : CountedInto(n)' = CountedInto(n)
    BY <1>3, <2>3 DEF CountedInto
  <2>5. CountingInv'
    BY <1>3, <1>5, <2>1, <2>3, <2>4 DEF CountingInv
  <2> QED BY <1>1, <1>2, <2>1, <2>5
<1>6. CASE next # NoNode
  <2>1. edge \in Edges /\ Target(edge) = next /\ next \in Node
    BY <1>3, <1>6, EdgeAtHand
  <2>2. /\ dependencies' = CountInboundEdge(dependencies, next)
        /\ to_visit' = IF next \notin Visited THEN Append(to_visit, next)
                                              ELSE to_visit
    BY <1>6, <2>1 DEF Visited
  <2>3. /\ dependencies' \in [Node -> Nat \cup {Absent}]
        /\ dependencies'[next] = IF next \in Visited THEN dependencies[next] + 1 ELSE 1
        /\ \A n \in Node \ {next} : dependencies'[n] = dependencies[n]
        /\ Visited' = Visited \cup {next}
    BY <2>1, <2>2, ConstantsAssumption DEF TypeOK, CountInboundEdge, Visited
  <2>4. /\ to_visit' \in Seq(Node) /\ NoRepeats(to_visit')
        /\ \A n : In(n, to_visit') <=> In(n, to_visit) \/ (n = next /\ n \notin Visited)
    BY <2>1, <2>2, AppendToQueue DEF CountingInv, TypeOK
  <2>5. TypeOK'
    BY <2>3, <2>4, <1>3 DEF TypeOK, graph, faults
  <2>6. ASSUME NEW e \in Edges PROVE Counted(e)' <=> Counted(e) \/ e = edge
    <3>1. e = <<e[1], e[2]>> /\ e[2] \in Nat
      BY ConstantsAssumption DEF Edges
    <3>2. e[1] = node => (e[2] < cursor + 1 <=> e[2] < cursor \/ e = edge)
      BY <3>1, <1>3
    <3>3. node \in Visited /\ ~In(node, to_visit)
      BY <1>3, ConstantsAssumption DEF CountingInv
    <3>4. Counted(e)' <=> /\ e[1] \in Visited /\ ~In(e[1], to_visit)
                          /\ e[1] = node => e[2] < cursor + 1
      BY <2>3, <2>4, <1>3 DEF Counted
    <3> QED BY <3>1, <3>2, <3>3, <3>4 DEF Counted
  <2>7. ~Counted(edge)
    BY <1>3 DEF Counted
  <2>8. \A n \in Node : CountedInto(n)' =
            IF n = next THEN CountedInto(n) \cup {edge} ELSE CountedInto(n)
    BY <1>3, <2>1, <2>6 DEF CountedInto
  <2>9. /\ IsFiniteSet(CountedInto(next)) /\ edge \notin CountedInto(next)
        /\ Cardinality(CountedInto(next) \cup {edge}) = Cardinality(CountedInto(next)) + 1
    <3>1. IsFiniteSet(CountedInto(next))
      BY EdgesAreFinite, FS_Subset DEF CountedInto
    <3>2. edge \notin CountedInto(next)
      BY <2>7 DEF CountedInto
    <3> QED BY <3>1, <3>2, FS_AddElement
  <2>10. next \notin Visited => Cardinality(CountedInto(next)) = 0
    <3>1. next \notin Visited => CountedInto(next) = {}
      BY DEF CountingInv, CountedInto
    <3> QED BY <3>1, FS_EmptySet
  <2>11. \A n \in Visited' : dependencies'[n] = Cardinality(CountedInto(n)')
    <3> SUFFICES ASSUME NEW n \in Visited'
                 PROVE  dependencies'[n] = Cardinality(CountedInto(n)')
      OBVIOUS
    <3> HIDE DEF IInv, CountEdge, next, edge
    <3>1. CASE n = next
      <4>1. CountedInto(n)' = CountedInto(n) \cup {edge} /\ n \in Node
        BY <3>1, <2>1, <2>8
      <4>2. /\ Cardinality(CountedInto(n) \cup {edge}) = Cardinality(CountedInto(n)) + 1
            /\ n \notin Visited => Cardinality(CountedInto(n)) = 0
        BY <3>1, <2>9, <2>10
      <4>3. dependencies'[n] = IF n \in Visited THEN dependencies[n] + 1 ELSE 1
        BY <3>1, <2>3
      <4> QED BY <4>1, <4>2, <4>3, <1>4
    <3>2. CASE n # next
      <4>1. n \in Visited /\ n \in Node  BY <3>2, <1>3, <2>3
      <4> QED BY <3>2, <4>1, <1>4, <2>3, <2>8
    <3> QED BY <3>1, <3>2
  <2>12. CountingInv'
    <3>1. \A n \in Visited' \ {root'} : CountedInto(n)' # {}
      <4> HIDE DEF IInv, CountEdge, next, edge
      <4> SUFFICES ASSUME NEW n \in Visited' \ {root'} PROVE CountedInto(n)' # {}
        OBVIOUS
      <4>1. CASE n = next
        BY <4>1, <2>1, <2>8
      <4>2. CASE n # next
        <5>1. n \in Visited \ {root} /\ n \in Node  BY <4>2, <1>3, <2>3
        <5> QED BY <4>2, <5>1, <1>4, <2>8
      <4> QED BY <4>1, <4>2
    <3>2. \A e \in Edges' : Counted(e)' => Target(e)' \in Visited'
      BY <1>3, <2>1, <2>3, <2>6 DEF CountingInv
    <3>3. \A n \in Node : In(n, to_visit') => n \in Visited' /\ n # node'
      BY <1>3, <2>3, <2>4, ConstantsAssumption DEF CountingInv
    <3> QED BY <1>3, <2>3, <2>4, <2>11, <3>1, <3>2, <3>3 DEF CountingInv
  <2> QED BY <1>1, <1>2, <2>5, <2>12
<1> QED BY <1>5, <1>6

-----------------------------------------------------------------------------
(* The main loop.                                                          *)

LEMMA SeedRootIInv ==
  ASSUME IInv, SeedRoot
  PROVE  IInv'
<1> USE DEF IInv, SeedRoot
<1>1. GraphOK'
  BY GraphIsFixed
<1>2. CountingInv'
  BY DEF CountingInv
<1>3. /\ Edges' = Edges /\ Applied' = {} /\ Visited' = Visited
      /\ \A e \in Edges : Target(e)' = Target(e)
      /\ Visited \subseteq Node /\ root \in Visited
  BY DEF Edges, Applied, Target, graph, TypeOK, Visited, CountingInv
<1>4. TypeOK'
  <2>1. <<root>> \in Seq(Node)
    BY <1>3
  <2> QED BY <1>3, <2>1 DEF TypeOK, graph, faults, Running
<1>5. NoRepeats(ready_queue') /\ \A n : In(n, ready_queue') <=> n = root
  BY QueueOfOne
<1>6. \A e \in Edges : Counted(e) <=> e[1] \in Visited
  BY EmptyQueue, ConstantsAssumption DEF Counted, Edges
<1>7. \A n \in Node : Undelivered(n)' = CountedInto(n)
  BY <1>3, <1>6 DEF Undelivered, CountedInto, Delivered
<1>8. CountedInto(root) = {}
  <2>1. PICK n \in Visited : \A m \in Visited :
               \A i \in 1..Len(next_edges[m]) : next_edges[m][i] # n
    BY <1>3 DEF GraphOK, Acyclic
  <2>2. CountedInto(n) = {}
    <3> SUFFICES ASSUME NEW e \in CountedInto(n) PROVE FALSE
      OBVIOUS
    <3>1. e \in Edges /\ e[1] \in Visited /\ Target(e) = n
      BY <1>6 DEF CountedInto
    <3>2. /\ e[2] \in 1..MaxInputs /\ e[2] <= Len(next_edges[e[1]])
          /\ e[1] \in Node
      BY <3>1 DEF Edges
    <3>3. Len(next_edges[e[1]]) \in Nat
      BY <3>2 DEF TypeOK
    <3>4. e[2] \in 1..Len(next_edges[e[1]]) /\ next_edges[e[1]][e[2]] = n
      BY <3>1, <3>2, <3>3, ConstantsAssumption DEF Target
    <3> QED BY <2>1, <3>1, <3>4
  <2>3. n = root
    BY <2>2 DEF CountingInv
  <2> QED BY <2>2, <2>3
<1>9. \A n \in Node : Ready(n)' <=> n = root
  BY <1>3, <1>5 DEF Ready
<1>10. RunningInv'
  <2>1. \A e \in Edges' : e[1] \in Visited' => Target(e)' \in Visited'
    BY <1>3, <1>6 DEF CountingInv
  <2>2. \A n \in Visited' : dependencies'[n] = Cardinality(Undelivered(n)')
    BY <1>3, <1>7 DEF CountingInv
  <2>3. \A n \in Visited' : Ready(n)' <=> Undelivered(n)' = {}
    BY <1>3, <1>7, <1>8, <1>9 DEF CountingInv
  <2>4. \A n \in Node : In(n, ready_queue') =>
          n \notin Applied' /\ n # node' /\ input_buffers'[n] \in Int
    <3>1. input_buffers'[root] = 1 /\ root # NoNode /\ node' = NoNode
      BY <1>3, ConstantsAssumption DEF TypeOK
    <3> QED BY <1>3, <1>5, <3>1
  <2> QED BY <1>3, <1>5, <1>9, <2>1, <2>2, <2>3, <2>4 DEF RunningInv, Running
<1> QED BY <1>1, <1>2, <1>4, <1>5, <1>10

(* A step that neither applies a node nor moves a gradient leaves every    *)
(* edge as it was.                                                         *)
LEMMA SameEdges ==
  ASSUME TypeOK, UNCHANGED <<graph, dependencies, received>>,
         \A e \in Edges : Delivered(e)' <=> Delivered(e)
  PROVE  /\ Edges' = Edges /\ Visited' = Visited /\ Applied' = Applied
         /\ Visited \subseteq Node /\ Applied \subseteq Node
         /\ \A e \in Edges : Target(e)' = Target(e)
         /\ \A n \in Node : Undelivered(n)' = Undelivered(n)
<1>1. /\ Edges' = Edges /\ Visited' = Visited /\ Applied' = Applied
      /\ Visited \subseteq Node /\ Applied \subseteq Node
      /\ \A e \in Edges : Target(e)' = Target(e)
  BY DEF Edges, Visited, Applied, Target, graph
<1> QED BY <1>1 DEF Undelivered

LEMMA PopReadyIInv ==
  ASSUME IInv, PopReady
  PROVE  IInv'
<1> USE DEF IInv, PopReady
<1> DEFINE head == Head(ready_queue)
<1>1. /\ head \in Node /\ In(head, ready_queue)
      /\ ready_queue' \in Seq(Node) /\ NoRepeats(ready_queue')
      /\ \A n : In(n, ready_queue') <=> In(n, ready_queue) /\ n # head
  BY PopFromQueue DEF TypeOK
<1>2. input_buffers[head] \in Int /\ head \notin Applied /\ node = NoNode
  BY <1>1 DEF RunningInv, Running
<1>3. status' = "applying" /\ node' = head
  BY <1>2, ConstantsAssumption
<1>4. TypeOK'
  BY <1>1, <1>3 DEF TypeOK, graph, faults, Running
<1>5. GraphOK'
  BY GraphIsFixed
<1>6. CountingInv'
  BY <1>3 DEF CountingInv
<1>7. \A e \in Edges : Delivered(e)' <=> Delivered(e)
  BY <1>3 DEF Delivered, Applied
<1>8. \A n \in Node : Ready(n)' <=> Ready(n)
  BY <1>1, <1>3 DEF Ready, Applied
<1>9. RunningInv'
  <2> HIDE DEF PopReady
  <2>1. UNCHANGED <<graph, dependencies, received, input_buffers>>
    BY DEF PopReady
  <2> QED BY <1>1, <1>2, <1>3, <1>7, <1>8, <2>1, SameEdges DEF RunningInv, Running, PopReady
<1> QED BY <1>1, <1>4, <1>5, <1>6, <1>9

(* No gradient has been delivered from a node that is only now applied.    *)
LEMMA ApplyNodeEdges ==
  ASSUME IInv, ApplyNode
  PROVE  /\ node \in Node /\ node \notin Applied /\ input_buffers[node] \in Int
         /\ Edges' = Edges /\ Visited' = Visited /\ Applied' = Applied \cup {node}
         /\ \A e \in Edges : Target(e)' = Target(e) /\ (Delivered(e)' <=> Delivered(e))
<1> USE DEF IInv, ApplyNode
<1>1. node \in Node /\ node \notin Applied /\ input_buffers[node] \in Int
  BY DEF RunningInv, Running
<1>2. /\ Edges' = Edges /\ Visited' = Visited /\ Applied' = Applied \cup {node}
      /\ \A e \in Edges : Target(e)' = Target(e)
  BY <1>1, ConstantsAssumption DEF Edges, Visited, Applied, Target, graph, TypeOK
<1>3. \A e \in Edges : Delivered(e)' <=> Delivered(e)
  <2> SUFFICES ASSUME NEW e \in Edges PROVE Delivered(e)' <=> Delivered(e)
    OBVIOUS
  <2>1. e[2] \in Nat /\ ~(e[2] < 1)
    BY ConstantsAssumption DEF Edges
  <2> QED BY <1>1, <1>2, <2>1 DEF Delivered
<1> QED BY <1>1, <1>2, <1>3

LEMMA ApplyNodeIInv ==
  ASSUME IInv, ApplyNode
  PROVE  IInv'
<1> USE DEF IInv, ApplyNode
<1>1. /\ node \in Node /\ node \notin Applied /\ input_buffers[node] \in Int
      /\ ~In(node, ready_queue)
  BY DEF RunningInv, Running
<1>2. /\ partials[node] \in Seq(Int) /\ Len(partials[node]) \in Nat
      /\ Len(next_edges[node]) <= Len(partials[node])
  BY <1>1 DEF TypeOK, GraphOK
<1>3. input_grads' \in Seq(Int) /\ Len(input_grads') = Len(partials[node])
  <2>1. \A i \in 1..Len(partials[node]) : partials[node][i] * input_buffers[node] \in Int
    BY <1>1, <1>2
  <2> QED BY <1>2, <2>1
<1>4. TypeOK'
  BY <1>1, <1>3 DEF TypeOK, graph, faults, Running, WritesGrad
<1>5. GraphOK' /\ CountingInv'
  BY GraphIsFixed DEF CountingInv
<1>6. /\ Edges' = Edges /\ Visited' = Visited /\ Applied' = Applied \cup {node}
      /\ Visited \subseteq Node
      /\ \A e \in Edges : Target(e)' = Target(e)
  BY ApplyNodeEdges DEF Visited
<1>7. \A e \in Edges : Delivered(e)' <=> Delivered(e)
  BY ApplyNodeEdges
<1>8. \A n \in Node : Undelivered(n)' = Undelivered(n) /\ (Ready(n)' <=> Ready(n))
  BY <1>6, <1>7 DEF Undelivered, Ready
<1>9. RunningInv'
  <2>1. \A n \in Node : In(n, ready_queue) =>
          n \notin Applied' /\ n # node /\ input_buffers'[n] \in Int
    BY <1>1, <1>6 DEF RunningInv, Running, TypeOK
  <2>2. \A n \in Visited : dependencies[n] = Cardinality(Undelivered(n)')
    BY <1>6, <1>8 DEF RunningInv, Running
  <2>3. \A e \in Edges' : e[1] \in Visited' => Target(e)' \in Visited'
    BY <1>6 DEF RunningInv, Running
  <2>4. /\ \A n \in Node : Ready(n)' => n \in Visited'
        /\ \A n \in Visited' : Ready(n)' <=> Undelivered(n)' = {}
    BY <1>6, <1>8 DEF RunningInv, Running
  <2>5. /\ status' = "delivering" /\ node' \in Applied' /\ ready_queue' = ready_queue
        /\ Len(next_edges'[node']) <= Len(input_grads')
        /\ node' = node /\ dependencies' = dependencies
    BY <1>2, <1>3, <1>6 DEF graph
  <2> HIDE DEF ApplyNode
  <2> QED BY <1>6, <2>1, <2>2, <2>3, <2>4, <2>5 DEF RunningInv, Running
<1> QED BY <1>4, <1>5, <1>9

LEMMA ThrowIInv ==
  ASSUME IInv, ApplyThrows \/ DeliverThrows
  PROVE  IInv'
<1>1. /\ status' = "threw" /\ UNCHANGED <<graph, faults, grad, root, task, received>>
  BY DEF ApplyThrows, DeliverThrows
<1>2. TypeOK' /\ GraphOK'
  BY <1>1, GraphIsFixed DEF IInv, TypeOK, graph, faults, task, Running
<1>3. CountingInv' /\ RunningInv'
  BY <1>1 DEF CountingInv, RunningInv, Running
<1>4. NoRepeats(ready_queue')
  BY <1>1 DEF IInv, task
<1> QED BY <1>2, <1>3, <1>4 DEF IInv

(* SkipNullEdge, FinishNode and Return: no edge changes hands and no node  *)
(* becomes ready.                                                          *)
LEMMA QuietStepIInv ==
  ASSUME IInv, TypeOK', status \in Running, status' \in {"popping", "delivering", "done"},
         UNCHANGED <<graph, dependencies, received, input_buffers, ready_queue>>,
         \A e \in Edges : Delivered(e)' <=> Delivered(e),
         status # "applying",
         status' = "popping" => node' = NoNode,
         status' = "delivering" => /\ node' = node /\ status = "delivering"
                                   /\ input_grads' = input_grads,
         status' = "done" => ready_queue' = <<>> /\ node' = NoNode
  PROVE  IInv'
<1> USE DEF IInv
<1>1. GraphOK' /\ CountingInv' /\ NoRepeats(ready_queue')
  BY GraphIsFixed DEF CountingInv
<1>2. /\ Edges' = Edges /\ Visited' = Visited /\ Applied' = Applied
      /\ Visited \subseteq Node /\ Applied \subseteq Node
      /\ \A e \in Edges : Target(e)' = Target(e)
      /\ \A n \in Node : Undelivered(n)' = Undelivered(n)
  BY SameEdges
<1>3. \A n \in Node : Ready(n)' <=> Ready(n)
  BY <1>2 DEF Ready
<1>4. \A n \in Node : In(n, ready_queue') =>
          n \notin Applied' /\ n # node' /\ input_buffers'[n] \in Int
  BY <1>2, ConstantsAssumption DEF RunningInv, Running
<1>5. \A n \in Visited' : dependencies'[n] = Cardinality(Undelivered(n)')
  BY <1>2 DEF RunningInv
<1>6. /\ \A e \in Edges' : e[1] \in Visited' => Target(e)' \in Visited'
      /\ \A n \in Node : Ready(n)' => n \in Visited'
      /\ \A n \in Visited' : Ready(n)' <=> Undelivered(n)' = {}
  BY <1>2, <1>3 DEF RunningInv
<1>7. status' = "delivering" => /\ node' \in Applied'
                                /\ Len(next_edges'[node']) <= Len(input_grads')
  BY <1>2 DEF RunningInv, graph
<1>8. RunningInv'
  BY <1>1, <1>4, <1>5, <1>6, <1>7 DEF RunningInv, Running
<1> QED BY <1>1, <1>8

LEMMA SkipNullEdgeDelivered ==
  ASSUME IInv, SkipNullEdge
  PROVE  \A e \in Edges : Delivered(e)' <=> Delivered(e)
<1> USE DEF SkipNullEdge
<1> SUFFICES ASSUME NEW e \in Edges PROVE Delivered(e)' <=> Delivered(e)
  OBVIOUS
<1>1. e = <<e[1], e[2]>> /\ e[2] \in Nat /\ cursor \in Nat
  BY ConstantsAssumption DEF Edges, IInv, TypeOK
<1>2. <<node, cursor>> \notin Edges
  BY DEF Edges
<1>3. e[1] = node => (e[2] < cursor <=> e[2] < cursor + 1)
  BY <1>1, <1>2
<1> QED BY <1>3 DEF Delivered, Applied

LEMMA SkipNullEdgeIInv ==
  ASSUME IInv, SkipNullEdge
  PROVE  IInv'
<1>1. TypeOK'
  BY DEF IInv, TypeOK, SkipNullEdge, graph, faults
<1> QED BY <1>1, SkipNullEdgeDelivered, QuietStepIInv DEF SkipNullEdge, Running

LEMMA FinishNodeDelivered ==
  ASSUME IInv, FinishNode
  PROVE  \A e \in Edges : Delivered(e)' <=> Delivered(e)
<1> USE DEF FinishNode
<1>1. node \in Applied /\ node \in Node /\ Len(next_edges[node]) <= Len(input_grads)
  BY DEF IInv, RunningInv, Running, Applied
<1> SUFFICES ASSUME NEW e \in Edges PROVE Delivered(e)' <=> Delivered(e)
  OBVIOUS
<1>2. /\ cursor \in Nat /\ e[2] \in Nat /\ e[2] <= Len(next_edges[e[1]])
      /\ Len(next_edges[node]) \in Nat /\ Len(input_grads) \in Nat
  BY <1>1, ConstantsAssumption DEF Edges, IInv, TypeOK
<1>3. e[1] = node => e[2] < cursor
  BY <1>1, <1>2 DEF MoreToDeliver
<1> QED BY <1>3 DEF Delivered, Applied

LEMMA FinishNodeIInv ==
  ASSUME IInv, FinishNode
  PROVE  IInv'
<1>1. TypeOK'
  BY DEF IInv, TypeOK, FinishNode, graph, faults, Running
<1> QED BY <1>1, FinishNodeDelivered, QuietStepIInv DEF FinishNode, Running

LEMMA ReturnIInv ==
  ASSUME IInv, Return
  PROVE  IInv'
<1> USE DEF Return
<1>1. TypeOK'
  BY DEF IInv, TypeOK, graph, faults, task, Running
<1>2. \A e \in Edges : Delivered(e)' <=> Delivered(e)
  BY DEF Delivered, Applied, task
<1>3. node' = NoNode
  BY DEF IInv, RunningInv, Running, task
<1> QED BY <1>1, <1>2, <1>3, QuietStepIInv DEF Running, task

(* A delivery takes one edge to a node that has been waiting for it.       *)
LEMMA DeliverGradEdges ==
  ASSUME IInv, DeliverGrad
  PROVE  LET next == next_edges[node][cursor]
             edge == <<node, cursor>>
         IN /\ node \in Node /\ node \in Applied /\ ~Delivered(edge)
            /\ edge \in Edges /\ Target(edge) = next /\ next \in Node
            /\ next \in Visited /\ node \in Visited
            /\ Edges' = Edges /\ Applied' = Applied
            /\ \A e \in Edges : /\ Target(e)' = Target(e)
                                /\ Delivered(e)' <=> Delivered(e) \/ e = edge
<1> USE DEF IInv, DeliverGrad
<1> DEFINE next == next_edges[node][cursor]
           edge == <<node, cursor>>
<1>1. /\ node \in Applied /\ node \in Node /\ cursor \in Nat
      /\ cursor <= Len(next_edges[node])
      /\ cursor' = cursor + 1 /\ node' = node /\ status = "delivering"
      /\ status' = status
  BY DEF RunningInv, Running, Applied, MoreToDeliver, TypeOK
<1>2. edge \in Edges /\ Target(edge) = next /\ next \in Node
  BY <1>1, EdgeAtHand
<1>3. /\ Edges' = Edges /\ Applied' = Applied
      /\ \A e \in Edges : Target(e)' = Target(e)
  BY DEF Edges, Applied, Target, graph
<1>4. \A e \in Edges : Delivered(e)' <=> Delivered(e) \/ e = edge
  <2> SUFFICES ASSUME NEW e \in Edges PROVE Delivered(e)' <=> Delivered(e) \/ e = edge
    OBVIOUS
  <2>1. e = <<e[1], e[2]>> /\ e[2] \in Nat
    BY ConstantsAssumption DEF Edges
  <2>2. e[1] = node => (e[2] < cursor + 1 <=> e[2] < cursor \/ e = edge)
    BY <1>1, <2>1
  <2> QED BY <1>1, <1>3, <2>1, <2>2 DEF Delivered
<1>5. node \in Visited /\ next \in Visited /\ ~Delivered(edge)
  <2>1. node \in Visited
    BY <1>1 DEF RunningInv, Running, Ready
  <2>2. next \in Visited
    BY <1>2, <2>1 DEF RunningInv, Running
  <2> QED BY <1>1, <2>1, <2>2 DEF Delivered
<1> QED BY <1>1, <1>2, <1>3, <1>4, <1>5

LEMMA DeliverGradIInv ==
  ASSUME IInv, DeliverGrad
  PROVE  IInv'
<1> DEFINE next == next_edges[node][cursor]
           edge == <<node, cursor>>
<1>0. /\ Edges' = Edges /\ Applied' = Applied /\ next \in Visited /\ ~Delivered(edge)
      /\ node \in Visited
      /\ \A e \in Edges : /\ Target(e)' = Target(e)
                          /\ Delivered(e)' <=> Delivered(e) \/ e = edge
  BY DeliverGradEdges
<1> USE DEF IInv, DeliverGrad
<1>1. /\ node \in Applied /\ node \in Node /\ cursor \in Nat
      /\ cursor <= Len(next_edges[node]) /\ cursor <= Len(input_grads)
      /\ cursor' = cursor + 1 /\ node' = node /\ status = "delivering"
      /\ status' = status
  BY DEF RunningInv, Running, Applied, MoreToDeliver, TypeOK
<1>2. edge \in Edges /\ Target(edge) = next /\ next \in Node
  BY <1>1, EdgeAtHand
<1>3. input_grads[cursor] \in Int
  BY <1>1 DEF TypeOK
<1>4. /\ Edges' = Edges /\ Visited \subseteq Node /\ Applied' = Applied
      /\ \A e \in Edges : Target(e)' = Target(e)
  BY <1>0 DEF Visited
<1>5. \A e \in Edges : Delivered(e)' <=> Delivered(e) \/ e = edge
  BY <1>0
<1>6. edge \in Undelivered(next) /\ next \in Visited
  BY <1>0, <1>2 DEF Undelivered
(* The count of the target is positive and drops by one.                   *)
<1>7. /\ dependencies[next] \in Nat \ {0}
      /\ dependencies[next] - 1 = Cardinality(Undelivered(next) \ {edge})
      /\ dependencies[next] - 1 = 0 <=> Undelivered(next) \ {edge} = {}
  <2>1. IsFiniteSet(Undelivered(next))
    BY EdgesAreFinite, FS_Subset DEF Undelivered
  <2>2. /\ IsFiniteSet(Undelivered(next) \ {edge})
        /\ Cardinality(Undelivered(next) \ {edge}) = Cardinality(Undelivered(next)) - 1
    BY <1>6, <2>1, FS_RemoveElement
  <2>3. dependencies[next] = Cardinality(Undelivered(next))
    BY <1>6 DEF RunningInv, Running
  <2>4. Cardinality(Undelivered(next) \ {edge}) \in Nat
    BY <2>2, FS_CardinalityType
  <2>5. Cardinality(Undelivered(next)) \in Nat
    BY <2>1, FS_CardinalityType
  <2>6. Cardinality(Undelivered(next) \ {edge}) = 0 <=> Undelivered(next) \ {edge} = {}
    BY <2>2, FS_EmptySet
  <2> HIDE DEF IInv, DeliverGrad, next, edge
  <2> QED BY <2>2, <2>3, <2>4, <2>5, <2>6
<1>8. /\ dependencies' \in [Node -> Nat \cup {Absent}]
      /\ \A n \in Node : dependencies'[n] =
            IF n = next THEN dependencies[next] - 1 ELSE dependencies[n]
      /\ Visited' = Visited
  <2>1. dependencies' = [dependencies EXCEPT ![next] = @ - 1]
    OBVIOUS
  <2>2. dependencies \in [Node -> Nat \cup {Absent}]
    BY DEF TypeOK
  <2>3. dependencies[next] - 1 \in Nat
    BY <1>7
  <2> HIDE DEF IInv, DeliverGrad, next, edge
  <2>4. /\ dependencies' \in [Node -> Nat \cup {Absent}]
        /\ \A n \in Node : dependencies'[n] =
              IF n = next THEN dependencies[next] - 1 ELSE dependencies[n]
    BY <1>2, <2>1, <2>2, <2>3
  <2>5. dependencies[next] # Absent /\ dependencies[next] - 1 # Absent
    BY <1>7, <2>3, ConstantsAssumption
  <2> QED BY <1>2, <2>4, <2>5 DEF Visited
<1>9. /\ input_buffers' \in [Node -> Int \cup {Absent, Taken}]
      /\ input_buffers'[next] \in Int
      /\ \A n \in Node \ {next} : input_buffers'[n] = input_buffers[n]
  BY <1>2, <1>3, ConstantsAssumption, SMTT(20) DEF TypeOK, AddToBuffer
<1>10. /\ ~Ready(next) /\ next # node
       /\ next \notin Applied /\ ~In(next, ready_queue)
  <2>1. ~Ready(next)
    BY <1>6 DEF RunningInv, Running
  <2> QED BY <1>1, <2>1 DEF Ready
<1>11. /\ ready_queue' \in Seq(Node) /\ NoRepeats(ready_queue')
       /\ \A n : In(n, ready_queue') <=>
            In(n, ready_queue) \/ (n = next /\ dependencies[next] - 1 = 0)
  <2>1. ready_queue' = IF dependencies[next] - 1 = 0
                       THEN Append(ready_queue, next) ELSE ready_queue
    BY <1>2, <1>8 DEF ReadyAt
  <2> QED BY <1>2, <1>10, <2>1, AppendToQueue DEF TypeOK
<1>12. TypeOK'
  <2>1. cursor' \in Nat \ {0} /\ status' \in Running /\ TypeOK
    BY <1>1 DEF Running
  <2>2. UNCHANGED <<graph, faults, grad, root, to_visit, node, input_grads, received>>
    OBVIOUS
  <2> HIDE DEF IInv, DeliverGrad, next, edge
  <2> QED BY <1>8, <1>9, <1>11, <2>1, <2>2 DEF TypeOK, graph, faults
<1>13. GraphOK' /\ CountingInv'
  BY <1>1, GraphIsFixed DEF CountingInv
<1>14. \A n \in Node : Undelivered(n)' =
          IF n = next THEN Undelivered(n) \ {edge} ELSE Undelivered(n)
  BY <1>2, <1>4, <1>5, <1>8 DEF Undelivered
<1>15. \A n \in Node : Ready(n)' <=>
          Ready(n) \/ (n = next /\ dependencies[next] - 1 = 0)
  BY <1>1, <1>4, <1>11 DEF Ready
<1>16. RunningInv'
  <2>1. /\ \A e \in Edges : e[1] \in Visited => Target(e) \in Visited
        /\ \A n \in Visited : dependencies[n] = Cardinality(Undelivered(n))
        /\ \A n \in Node : Ready(n) => n \in Visited
        /\ \A n \in Visited : Ready(n) <=> Undelivered(n) = {}
        /\ \A n \in Node : In(n, ready_queue) =>
             n \notin Applied /\ n # node /\ input_buffers[n] \in Int
        /\ Len(next_edges[node]) <= Len(input_grads)
        /\ UNCHANGED <<next_edges, input_grads>>
    BY <1>1 DEF RunningInv, Running, graph
  <2> HIDE DEF IInv, DeliverGrad, next, edge
  <2>2. \A n \in Visited' : dependencies'[n] = Cardinality(Undelivered(n)')
    <3> SUFFICES ASSUME NEW n \in Visited
                 PROVE  dependencies'[n] = Cardinality(Undelivered(n)')
      BY <1>8
    <3>1. CASE n = next
      BY <3>1, <1>2, <1>7, <1>8, <1>14
    <3>2. CASE n # next
      BY <3>2, <1>4, <1>8, <1>14, <2>1
    <3> QED BY <3>1, <3>2
  <2>3. \A n \in Visited' : Ready(n)' <=> Undelivered(n)' = {}
    <3> SUFFICES ASSUME NEW n \in Visited PROVE Ready(n)' <=> Undelivered(n)' = {}
      BY <1>8
    <3>1. CASE n = next
      BY <3>1, <1>2, <1>7, <1>10, <1>14, <1>15
    <3>2. CASE n # next
      BY <3>2, <1>4, <1>14, <1>15, <2>1
    <3> QED BY <3>1, <3>2
  <2>4. \A n \in Node : Ready(n)' => n \in Visited'
    BY <1>6, <1>8, <1>15, <2>1
  <2>5. \A n \in Node : In(n, ready_queue') =>
          n \notin Applied' /\ n # node' /\ input_buffers'[n] \in Int
    BY <1>1, <1>4, <1>9, <1>10, <1>11, <2>1
  <2>6. \A e \in Edges' : e[1] \in Visited' => Target(e)' \in Visited'
    BY <1>4, <1>8, <2>1
  <2> QED BY <1>1, <1>4, <1>11, <2>1, <2>2, <2>3, <2>4, <2>5, <2>6 DEF RunningInv
<1> QED BY <1>11, <1>12, <1>13, <1>16

-----------------------------------------------------------------------------

LEMMA StutterIInv ==
  ASSUME IInv, UNCHANGED vars
  PROVE  IInv'
<1>1. /\ Edges' = Edges /\ Visited' = Visited /\ Applied' = Applied
      /\ \A e : Delivered(e)' <=> Delivered(e)
      /\ \A e : Counted(e)' <=> Counted(e)
      /\ \A e : Target(e)' = Target(e)
      /\ \A n : Ready(n)' <=> Ready(n)
  BY DEF vars, graph, faults, task, Edges, Visited, Applied, Delivered, Counted,
         Target, Ready
<1>2. \A n : Undelivered(n)' = Undelivered(n) /\ CountedInto(n)' = CountedInto(n)
  BY <1>1 DEF Undelivered, CountedInto
<1>3. TypeOK' /\ GraphOK' /\ NoRepeats(ready_queue')
  BY GraphIsFixed DEF IInv, TypeOK, vars, graph, faults, task
<1>4. CountingInv'
  BY <1>1, <1>2 DEF IInv, CountingInv, vars, task
<1>5. RunningInv'
  BY <1>1, <1>2 DEF IInv, RunningInv, vars, task, graph
<1> QED BY <1>3, <1>4, <1>5 DEF IInv

(* IInv is inductive.                                                      *)
LEMMA NextIInv == IInv /\ [Next]_vars => IInv'
<1> SUFFICES ASSUME IInv, [Next]_vars PROVE IInv'
  OBVIOUS
<1>1. ASSUME NEW r \in Node \ Accumulator, Execute(r) PROVE IInv'
  BY <1>1, ExecuteIInv
<1>2. CASE CountStep
  BY <1>2, VisitNodeIInv, CountEdgeIInv, LeaveNodeIInv DEF CountStep
<1>3. CASE RunStep
  BY <1>3, SeedRootIInv, PopReadyIInv, ApplyNodeIInv, ThrowIInv, SkipNullEdgeIInv,
     DeliverGradIInv, FinishNodeIInv, ReturnIInv DEF RunStep
<1>4. CASE UNCHANGED vars
  BY <1>4, StutterIInv
<1> QED BY <1>1, <1>2, <1>3, <1>4 DEF Next

LEMMA InvariantIInv == Spec => []IInv
BY InitIInv, NextIInv, PTL DEF Spec

(* Every variable keeps its type: in particular no dependency count ever   *)
(* drops below zero and no node is applied to an empty buffer.             *)
THEOREM TypeCorrect == Spec => []TypeOK
<1>1. IInv => TypeOK  BY DEF IInv
<1> QED BY <1>1, InvariantIInv, PTL

(* Engine.cpp: the counts in GraphTask::dependencies_ are exact.           *)
THEOREM DependenciesCorrect == Spec => []DependenciesAreUndeliveredEdges
<1>1. IInv => DependenciesAreUndeliveredEdges
  BY DEF IInv, RunningInv, DependenciesAreUndeliveredEdges
<1> QED BY <1>1, InvariantIInv, PTL

(* Engine.cpp: no node is applied twice, or before its gradient is whole.  *)
THEOREM AppliedCorrect == Spec => []AppliedOnceAndComplete
<1>1. IInv => AppliedOnceAndComplete
  BY DEF IInv, RunningInv, Running, AppliedOnceAndComplete, Ready, Applied
<1> QED BY <1>1, InvariantIInv, PTL

(* Engine.cpp: the ready queue holds each node at most once.               *)
THEOREM ReadyQueueCorrect == Spec => []ReadyQueueHasNoRepeats
<1>1. IInv => ReadyQueueHasNoRepeats
  <2> SUFFICES ASSUME IInv PROVE ReadyQueueHasNoRepeats
    OBVIOUS
  <2>1. ASSUME status \in Running, NEW i \in 1..Len(ready_queue)
        PROVE  ready_queue[i] \notin Applied \cup {node}
    <3>1. ready_queue[i] \in Node /\ In(ready_queue[i], ready_queue)
      BY DEF IInv, TypeOK, In
    <3> QED BY <2>1, <3>1 DEF IInv, RunningInv
  <2> QED BY <2>1 DEF IInv, NoRepeats, ReadyQueueHasNoRepeats
<1> QED BY <1>1, InvariantIInv, PTL

(* When the loop runs out of ready nodes it has applied every node below   *)
(* the root.  A node left over would, the graph being acyclic, have one    *)
(* above it that is left over too, or else be in the queue.                *)
LEMMA NoneLeftOver == IInv => DoneMeansAllApplied
<1> SUFFICES ASSUME IInv, status = "done" PROVE Visited = Applied
  BY DEF DoneMeansAllApplied
<1>1. Applied \subseteq Visited
  BY DEF IInv, RunningInv, Ready, Applied
<1>2. ASSUME Visited \ Applied # {} PROVE FALSE
  <2>1. Visited \ Applied \in SUBSET Node
    BY DEF Visited
  <2>2. PICK n \in Visited \ Applied : \A m \in Visited \ Applied :
               \A i \in 1..Len(next_edges[m]) : next_edges[m][i] # n
    BY <1>2, <2>1 DEF IInv, GraphOK, Acyclic
  <2>3. Undelivered(n) = {}
    <3> SUFFICES ASSUME NEW e \in Undelivered(n) PROVE FALSE
      OBVIOUS
    <3>1. /\ e \in Edges /\ e[1] \in Visited /\ e[1] \in Node
          /\ Target(e) = n /\ ~Delivered(e)
      BY DEF Undelivered, Visited
    <3>2. e[1] \notin Applied
      BY <3>1 DEF Delivered
    <3>3. /\ e[2] \in 1..MaxInputs /\ e[2] <= Len(next_edges[e[1]])
          /\ Len(next_edges[e[1]]) \in Nat
      BY <3>1 DEF Edges, IInv, TypeOK
    <3>4. e[2] \in 1..Len(next_edges[e[1]]) /\ next_edges[e[1]][e[2]] = n
      BY <3>1, <3>3, ConstantsAssumption DEF Target
    <3> QED BY <2>2, <3>1, <3>2, <3>4
  <2>4. Ready(n)
    BY <2>3 DEF IInv, RunningInv
  <2>5. ready_queue = <<>>
    BY DEF IInv, RunningInv
  <2> QED BY <2>2, <2>4, <2>5, EmptyQueue DEF Ready
<1> QED BY <1>1, <1>2

(* Engine.cpp: execute() returns only when it has applied every node below *)
(* the root.                                                               *)
THEOREM DoneCorrect == Spec => []DoneMeansAllApplied
BY NoneLeftOver, InvariantIInv, PTL

-----------------------------------------------------------------------------
(* Engine implements Backward: the steps of a pass, their counts, buffers  *)
(* and queues hidden, are those of a topological evaluation by the chain   *)
(* rule.                                                                   *)

LEMMA LeastMember ==
  ASSUME NEW T \in SUBSET Nat, T # {}
  PROVE  \E x \in T : \A y \in T : x <= y
<1> DEFINE R == OpToRel(<, Nat)
<1>1. IsWellFoundedOn(R, Nat)
  BY NatLessThanWellFounded
<1>2. PICK x \in T : \A y \in T : ~(<<y, x>> \in R)
  <2> HIDE DEF R
  <2> QED BY <1>1, WFMin
<1>3. \A y \in T : ~(y < x)
  BY <1>2 DEF OpToRel
<1> QED BY <1>3

-----------------------------------------------------------------------------
(* Sums over finite sets.  F gives each subset of T the sum of its         *)
(* members' weights when taking any member away takes its weight away.     *)

Additive(F, w, T) ==
  /\ F \in [SUBSET T -> Int] /\ F[{}] = 0
  /\ \A x \in T : w[x] \in Int
  /\ \A s \in SUBSET T : \A x \in s : F[s] = w[x] + F[s \ {x}]

(* G does so for one more element.                                         *)
Weighable(w, e) == w[e] \in Int

Extends(G, F, w, T, e) ==
  Additive(G, w, T \cup {e}) /\ G[T \cup {e}] = F[T] + w[e]

LEMMA AdditiveExtends ==
  ASSUME NEW T, NEW e, e \notin T, NEW w, Weighable(w, e), NEW F, Additive(F, w, T)
  PROVE  \E G : Extends(G, F, w, T, e)
<1> DEFINE U == T \cup {e}
           G == [s \in SUBSET U |-> IF e \in s THEN F[s \ {e}] + w[e] ELSE F[s]]
<1> USE DEF Weighable
<1>1. \A s \in SUBSET U : s \ {e} \in SUBSET T /\ (e \notin s => s \in SUBSET T)
  OBVIOUS
<1>2. \A s \in SUBSET T : F[s] \in Int
  BY DEF Additive
<1>3. G \in [SUBSET U -> Int]
  BY <1>1, <1>2
<1>4. G[{}] = 0
  BY DEF Additive
<1>5. ASSUME NEW s \in SUBSET U, NEW x \in s PROVE G[s] = w[x] + G[s \ {x}]
  <2>1. s \ {x} \in SUBSET U
    OBVIOUS
  <2>2. CASE e \notin s
    <3>1. G[s] = F[s] /\ G[s \ {x}] = F[s \ {x}] /\ s \in SUBSET T
      BY <1>1, <2>1, <2>2
    <3> QED BY <3>1 DEF Additive
  <2>3. CASE e \in s /\ x = e
    <3>1. G[s] = F[s \ {e}] + w[e] /\ G[s \ {x}] = F[s \ {e}]
      BY <2>1, <2>3
    <3> QED BY <1>1, <1>2, <2>3, <3>1
  <2>4. CASE e \in s /\ x # e
    <3>1. G[s] = F[s \ {e}] + w[e] /\ G[s \ {x}] = F[(s \ {x}) \ {e}] + w[e]
      BY <2>1, <2>4
    <3>2. /\ s \ {e} \in SUBSET T /\ x \in s \ {e}
          /\ (s \ {x}) \ {e} = (s \ {e}) \ {x}
          /\ (s \ {x}) \ {e} \in SUBSET T
      BY <1>1, <2>4
    <3>3. F[s \ {e}] = w[x] + F[(s \ {e}) \ {x}]
      BY <3>2 DEF Additive
    <3>4. w[x] \in Int /\ F[(s \ {e}) \ {x}] \in Int
      BY <1>2, <2>4, <3>2 DEF Additive
    <3>5. F[s \ {e}] + w[e] = w[x] + (F[(s \ {e}) \ {x}] + w[e])
      BY <3>3, <3>4
    <3> HIDE DEF G
    <3> QED BY <3>1, <3>2, <3>5
  <2> QED BY <2>2, <2>3, <2>4
<1>6. G[U] = F[T] + w[e]
  <2>1. U \ {e} = T
    OBVIOUS
  <2> QED BY <2>1
<1>7. \A x \in U : w[x] \in Int
  BY DEF Additive
<1> HIDE DEF G
<1> QED BY <1>3, <1>4, <1>5, <1>6, <1>7 DEF Additive, Extends

(* Such an F is the sum that the community modules compute by picking the  *)
(* members one by one: a smallest set on which they differ would, without  *)
(* the member picked first, be a smaller one.                              *)
LEMMA SumIsAdditive ==
  ASSUME NEW T, IsFiniteSet(T), NEW w, NEW F, Additive(F, w, T),
         \A e \in T : w[e] = partials[e[1]][e[2]] * received[e[1]]
  PROVE  \A n : Promise!Upstream(n, T) = (IF n = root THEN 1 ELSE 0) + F[T]
<1> DEFINE Pick(s) == CHOOSE x \in s : TRUE
           Body(g) == [s \in SUBSET T |->
             IF s = {} THEN 0
             ELSE partials[Pick(s)[1]][Pick(s)[2]] * received[Pick(s)[1]] + g[s \ {Pick(s)}]]
           iter == CHOOSE g : g = Body(g)
           Differ == {s \in SUBSET T : iter[s] # F[s]}
           Sizes == {Cardinality(s) : s \in Differ}
<1>1. \A n : Promise!Upstream(n, T) = (IF n = root THEN 1 ELSE 0) + iter[T]
  BY DEF Promise!Upstream, Promise!MapThenSumSet, Promise!MapThenFoldSet
<1>2. \A s \in SUBSET T : s # {} => Pick(s) \in s /\ s \ {Pick(s)} \in SUBSET T
  OBVIOUS
<1> HIDE DEF Pick
<1>3. \A s \in SUBSET T : F[s] = Body(F)[s]
  <2> SUFFICES ASSUME NEW s \in SUBSET T PROVE F[s] = Body(F)[s]
    OBVIOUS
  <2>1. CASE s = {}
    BY <2>1 DEF Additive
  <2>2. CASE s # {}
    <3>1. F[s] = w[Pick(s)] + F[s \ {Pick(s)}]
      BY <1>2, <2>2 DEF Additive
    <3>2. w[Pick(s)] = partials[Pick(s)[1]][Pick(s)[2]] * received[Pick(s)[1]]
      BY <1>2, <2>2
    <3> QED BY <2>2, <3>1, <3>2
  <2> QED BY <2>1, <2>2
<1>4. F = Body(F)
  BY <1>3 DEF Additive
<1>5. iter = Body(iter)
  BY <1>4
<1> HIDE DEF iter
<1>6. ASSUME NEW s \in SUBSET T PROVE IsFiniteSet(s) /\ Cardinality(s) \in Nat
  BY FS_Subset, FS_CardinalityType
<1>7. Differ = {}
  <2> SUFFICES ASSUME Differ # {} PROVE FALSE
    OBVIOUS
  <2>1. Sizes # {} /\ Sizes \subseteq Nat
    BY <1>6
  <2>2. PICK k \in Sizes : \A m \in Sizes : k <= m
    <3> HIDE DEF Sizes
    <3> QED BY <2>1, LeastMember
  <2>3. PICK s \in Differ : Cardinality(s) = k
    OBVIOUS
  <2>4. s # {}
    <3>1. iter[{}] = 0
      BY <1>5
    <3> QED BY <3>1 DEF Additive
  <2> DEFINE r == s \ {Pick(s)}
  <2>5. Pick(s) \in s /\ r \in SUBSET T
    BY <1>2, <2>4
  <2>6. Cardinality(r) = Cardinality(s) - 1
    BY <1>6, <2>5, FS_RemoveElement
  <2>7. r \notin Differ
    <3>1. Cardinality(s) \in Nat /\ Cardinality(r) \in Nat
      BY <1>6, <2>5
    <3>2. ~(Cardinality(r) \in Sizes)
      BY <2>2, <2>3, <2>6, <3>1
    <3> QED BY <3>2
  <2>8. iter[r] = F[r]
    BY <2>5, <2>7
  <2>9. /\ iter[s] = Body(iter)[s] /\ F[s] = Body(F)[s]
    BY <1>3, <1>5
  <2> QED BY <2>4, <2>8, <2>9
<1> QED BY <1>1, <1>7

LEMMA NothingToAdd == ASSUME NEW w PROVE \E F : Additive(F, w, {}) /\ F[{}] = 0
<1> DEFINE F == [s \in SUBSET {} |-> 0]
<1>1. F \in [SUBSET {} -> Int] /\ F[{}] = 0
  OBVIOUS
<1>2. Additive(F, w, {})
  BY <1>1 DEF Additive
<1> QED BY <1>1, <1>2

-----------------------------------------------------------------------------
(* The sum x of the weights of T, and how it changes with one of them.     *)

IsSum(x, w, T) == \E F : Additive(F, w, T) /\ x = F[T]

ChangedAt(v, w, T, a) == v[a] \in Int /\ \A n \in T \ {a} : v[n] = w[n]

LEMMA SameWeights ==
  ASSUME NEW T, NEW w, NEW v, NEW x, IsSum(x, w, T), \A n \in T : v[n] = w[n]
  PROVE  IsSum(x, v, T)
<1>1. PICK F : Additive(F, w, T) /\ x = F[T]
  BY DEF IsSum
<1>2. Additive(F, v, T)
  BY <1>1 DEF Additive
<1> QED BY <1>1, <1>2 DEF IsSum

LEMMA SumOfZeros ==
  ASSUME NEW T, NEW w, \A n \in T : w[n] = 0
  PROVE  IsSum(0, w, T)
<1> DEFINE F == [s \in SUBSET T |-> 0]
<1>1. F \in [SUBSET T -> Int] /\ \A s \in SUBSET T : F[s] = 0
  OBVIOUS
<1>2. \A s \in SUBSET T : \A n \in s : s \ {n} \in SUBSET T /\ n \in T
  OBVIOUS
<1> HIDE DEF F
<1>3. Additive(F, w, T) /\ F[T] = 0
  BY <1>1, <1>2 DEF Additive
<1> QED BY <1>3 DEF IsSum

LEMMA OneWeightChanges ==
  ASSUME NEW T, NEW a \in T, NEW w, NEW v, NEW x, IsSum(x, w, T), ChangedAt(v, w, T, a)
  PROVE  IsSum(x - w[a] + v[a], v, T)
<1>1. PICK F : Additive(F, w, T) /\ x = F[T]
  BY DEF IsSum
<1> DEFINE G == [s \in SUBSET T |-> IF a \in s THEN F[s] - w[a] + v[a] ELSE F[s]]
<1>2. /\ \A s \in SUBSET T : F[s] \in Int
      /\ \A n \in T : w[n] \in Int /\ v[n] \in Int
  BY <1>1 DEF Additive, ChangedAt
<1>3. G \in [SUBSET T -> Int] /\ G[{}] = 0 /\ G[T] = F[T] - w[a] + v[a]
  BY <1>1, <1>2 DEF Additive
<1>4. ASSUME NEW s \in SUBSET T, NEW n \in s PROVE G[s] = v[n] + G[s \ {n}]
  <2>1. s \ {n} \in SUBSET T /\ n \in T
    OBVIOUS
  <2>2. /\ F[s] = w[n] + F[s \ {n}] /\ F[s \ {n}] \in Int /\ w[n] \in Int
        /\ w[a] \in Int /\ v[a] \in Int /\ v[n] \in Int
    BY <1>1, <1>2, <2>1 DEF Additive
  <2>3. CASE n = a
    <3>1. G[s] = F[s] - w[a] + v[a] /\ G[s \ {n}] = F[s \ {n}]
      BY <2>1, <2>3
    <3> HIDE DEF G
    <3> QED BY <2>2, <2>3, <3>1
  <2>4. CASE n # a /\ a \in s
    <3>1. G[s] = F[s] - w[a] + v[a] /\ G[s \ {n}] = F[s \ {n}] - w[a] + v[a]
      BY <2>1, <2>4
    <3>2. v[n] = w[n]
      BY <2>1, <2>4 DEF ChangedAt
    <3> HIDE DEF G
    <3> QED BY <2>2, <3>1, <3>2
  <2>5. CASE a \notin s
    <3>1. G[s] = F[s] /\ G[s \ {n}] = F[s \ {n}]
      BY <2>1, <2>5
    <3>2. v[n] = w[n]
      BY <2>1, <2>5 DEF ChangedAt
    <3> HIDE DEF G
    <3> QED BY <2>2, <3>1, <3>2
  <2> QED BY <2>3, <2>4, <2>5
<1> HIDE DEF G
<1>5. Additive(G, v, T)
  BY <1>2, <1>3, <1>4 DEF Additive
<1> QED BY <1>1, <1>3, <1>5 DEF IsSum

(* Weight moved from one member to another leaves the sum as it is.        *)
LEMMA WeightMoves ==
  ASSUME NEW T, NEW a \in T, NEW b \in T, a # b, NEW c \in Int,
         NEW w, NEW v, NEW x, IsSum(x, w, T),
         v[a] = w[a] - c, v[b] = w[b] + c, \A n \in T \ {a, b} : v[n] = w[n]
  PROVE  IsSum(x, v, T)
<1> DEFINE u == [n \in T |-> IF n = a THEN w[a] - c ELSE w[n]]
<1>1. w[a] \in Int /\ w[b] \in Int /\ x \in Int
  BY DEF IsSum, Additive
<1>2. u[a] = w[a] - c /\ \A n \in T \ {a} : u[n] = w[n]
  OBVIOUS
<1> HIDE DEF u
<1>3. IsSum(x - w[a] + u[a], u, T)
  BY <1>1, <1>2, OneWeightChanges DEF ChangedAt
<1>4. x - w[a] + u[a] = x - c
  BY <1>1, <1>2
<1>5. ChangedAt(v, u, T, b)
  BY <1>1, <1>2 DEF ChangedAt
<1>6. IsSum((x - c) - u[b] + v[b], v, T)
  BY <1>3, <1>4, <1>5, OneWeightChanges
<1>7. (x - c) - u[b] + v[b] = x
  BY <1>1, <1>2
<1> QED BY <1>6, <1>7

(* Where all weights but one are zero the sum is that one: no smallest set *)
(* without it can have another sum than zero.                              *)
LEMMA SoleWeight ==
  ASSUME NEW T, IsFiniteSet(T), NEW a \in T, NEW w, NEW x, IsSum(x, w, T),
         \A n \in T \ {a} : w[n] = 0
  PROVE  x = w[a]
<1>1. PICK F : Additive(F, w, T) /\ x = F[T]
  BY DEF IsSum
<1> DEFINE Bad == {s \in SUBSET (T \ {a}) : F[s] # 0}
           Sizes == {Cardinality(s) : s \in Bad}
<1>2. \A s \in Bad : IsFiniteSet(s) /\ Cardinality(s) \in Nat
  BY FS_Subset, FS_CardinalityType
<1>3. Bad = {}
  <2> SUFFICES ASSUME Bad # {} PROVE FALSE
    OBVIOUS
  <2>1. Sizes # {} /\ Sizes \subseteq Nat
    BY <1>2
  <2>2. PICK k \in Sizes : \A m \in Sizes : k <= m
    <3> HIDE DEF Sizes
    <3> QED BY <2>1, LeastMember
  <2>3. PICK s \in Bad : Cardinality(s) = k
    OBVIOUS
  <2>4. s # {}
    BY <1>1 DEF Additive
  <2>5. PICK n \in s : TRUE
    BY <2>4
  <2>6. F[s] = w[n] + F[s \ {n}] /\ w[n] = 0 /\ F[s \ {n}] \in Int
    <3>1. s \in SUBSET T /\ s \ {n} \in SUBSET T /\ n \in T \ {a}
      OBVIOUS
    <3> QED BY <1>1, <3>1 DEF Additive
  <2>7. s \ {n} \in Bad
    BY <2>6
  <2>8. Cardinality(s \ {n}) = Cardinality(s) - 1
    BY <1>2, FS_RemoveElement
  <2>9. Cardinality(s \ {n}) \in Nat /\ Cardinality(s) \in Nat
    BY <1>2, <2>7
  <2>10. Cardinality(s) <= Cardinality(s \ {n})
    BY <2>2, <2>3, <2>7
  <2> QED BY <2>8, <2>9, <2>10
<1>4. F[T \ {a}] = 0
  BY <1>3
<1>5. F[T] = w[a] + F[T \ {a}] /\ w[a] \in Int
  BY <1>1 DEF Additive
<1> QED BY <1>1, <1>4, <1>5

-----------------------------------------------------------------------------

Contribution ==
  [e \in Edges |->
     IF e[1] \in Applied THEN partials[e[1]][e[2]] * received[e[1]] ELSE 0]

ArrivedAt(n) == {e \in Edges : e[1] \in Visited /\ Target(e) = n /\ Delivered(e)}

Seed(n) == IF n = root THEN 1 ELSE 0

(* x is what has been added up in the buffer of n.                         *)
IsSumAt(x, n) ==
  \E F : Additive(F, Contribution, ArrivedAt(n)) /\ x = Seed(n) + F[ArrivedAt(n)]

(* compute_dependencies visits nothing that is not below the root.         *)
BelowInv ==
  status \in Running \cup {"counting", "done"} =>
    root \in Visited /\ Visited \subseteq Promise!Reachable(root)

(* A buffer is the sum of what has been delivered to it; none is there     *)
(* when nothing has.                                                       *)
BufferInv ==
  /\ status = "counting" => \A n \in Node : input_buffers[n] = Absent
  /\ status \in Running =>
       \A n \in Visited \ Applied :
         \/ input_buffers[n] = Absent /\ n # root /\ ArrivedAt(n) = {}
         \/ IsSumAt(input_buffers[n], n)
  /\ status = "delivering" =>
       input_grads = [i \in 1..Len(partials[node]) |-> partials[node][i] * received[node]]

PromiseInv == BelowInv /\ BufferInv

-----------------------------------------------------------------------------
(* What is below the root.                                                 *)

LEMMA RootIsReachable ==
  ASSUME NEW r \in Node PROVE r \in Promise!Reachable(r)
BY DEF Promise!Reachable

LEMMA ReachableIsClosed ==
  ASSUME NEW r \in Node, NEW m \in Promise!Reachable(r), NEW i \in DOMAIN next_edges[m],
         next_edges[m][i] \in Node
  PROVE  next_edges[m][i] \in Promise!Reachable(r)
BY ConstantsAssumption DEF Promise!Reachable

LEMMA SameReachable ==
  ASSUME UNCHANGED next_edges, NEW r
  PROVE  Promise!Reachable(r)' = Promise!Reachable(r)
BY DEF Promise!Reachable

(* Once counting is done, what was visited is all that is below the root.  *)
LEMMA VisitedIsReachable ==
  ASSUME IInv, BelowInv, status \in Running \cup {"done"}
  PROVE  Promise!Reachable(root) = Visited
<1>1. root \in Visited /\ Visited \subseteq Promise!Reachable(root)
  BY DEF BelowInv
<1>2. Visited \in SUBSET Node
  BY DEF Visited
<1>3. ASSUME NEW m \in Visited, NEW i \in DOMAIN next_edges[m]
      PROVE  next_edges[m][i] \in Visited \cup {NoNode}
  <2> SUFFICES ASSUME next_edges[m][i] # NoNode PROVE next_edges[m][i] \in Visited
    OBVIOUS
  <2>1. /\ next_edges[m] \in Seq(Node \cup {NoNode}) /\ Len(next_edges[m]) \in Nat
        /\ Len(next_edges[m]) <= MaxInputs
    BY <1>2, SMTT(20) DEF IInv, TypeOK, GraphOK
  <2>2. i \in 1..Len(next_edges[m]) /\ i \in 1..MaxInputs
    BY <2>1, ConstantsAssumption
  <2>3. <<m, i>> \in Edges /\ Target(<<m, i>>) = next_edges[m][i]
    BY <1>2, <2>2 DEF Edges, Target
  <2> QED BY <2>3 DEF IInv, RunningInv
<1>4. Promise!Reachable(root) \subseteq Visited
  BY <1>1, <1>2, <1>3 DEF Promise!Reachable
<1> QED BY <1>1, <1>4

-----------------------------------------------------------------------------
(* The steps that do not touch a buffer.                                   *)

(* Nothing of a sum depends on anything but what has been applied and      *)
(* delivered.                                                              *)
LEMMA SameSums ==
  ASSUME UNCHANGED <<graph, received, root>>, Visited' = Visited,
         \A e \in Edges : Delivered(e)' <=> Delivered(e), NEW n \in Node, NEW x
  PROVE  /\ ArrivedAt(n)' = ArrivedAt(n)
         /\ IsSumAt(x, n) => \E F : /\ Additive(F, Contribution', ArrivedAt(n)')
                                    /\ x = Seed(n)' + F[ArrivedAt(n)']
<1>1. /\ Edges' = Edges /\ Applied' = Applied /\ Seed(n)' = Seed(n)
      /\ \A e \in Edges : Target(e)' = Target(e)
  BY DEF Edges, Applied, Target, Seed, graph
<1>2. ArrivedAt(n)' = ArrivedAt(n) /\ Contribution' = Contribution
  BY <1>1 DEF ArrivedAt, Contribution, graph
<1> QED BY <1>1, <1>2 DEF IsSumAt

LEMMA QuietPromise ==
  ASSUME PromiseInv, status \in Running, status' \in Running \cup {"done"},
         UNCHANGED <<graph, received, root, dependencies, input_buffers>>,
         \A e \in Edges : Delivered(e)' <=> Delivered(e),
         status' = "delivering" => UNCHANGED <<status, node, input_grads>>
  PROVE  PromiseInv'
<1>1. Visited' = Visited /\ Applied' = Applied /\ Visited \subseteq Node
  BY DEF Visited, Applied
<1>2. BelowInv'
  BY <1>1, SameReachable DEF PromiseInv, BelowInv, graph
<1>3. ASSUME NEW n \in Visited' \ Applied'
      PROVE  \/ (input_buffers[n] = Absent /\ n # root /\ ArrivedAt(n) = {})'
             \/ IsSumAt(input_buffers[n], n)'
  <2>1. ArrivedAt(n)' = ArrivedAt(n)
    BY <1>1, SameSums
  <2>2. IsSumAt(input_buffers[n], n) => IsSumAt(input_buffers[n], n)'
    BY <1>1, SameSums DEF IsSumAt
  <2> QED BY <1>1, <2>1, <2>2 DEF PromiseInv, BufferInv
<1>4. BufferInv'
  BY <1>3 DEF PromiseInv, BufferInv, graph, Running
<1> QED BY <1>2, <1>4 DEF PromiseInv

LEMMA ThrowPromise ==
  ASSUME PromiseInv, status' \notin Running \cup {"counting", "done"}
  PROVE  PromiseInv'
BY DEF PromiseInv, BelowInv, BufferInv, Running

-----------------------------------------------------------------------------
(* The other steps.                                                        *)

LEMMA ExecutePromise ==
  ASSUME NEW r \in Node, Execute(r)
  PROVE  PromiseInv'
<1> USE DEF Execute
<1>1. Visited' = {r} /\ root' = r
  BY ConstantsAssumption DEF Visited
<1>2. BelowInv'
  BY <1>1, RootIsReachable, SameReachable DEF BelowInv, graph
<1>3. BufferInv'
  BY DEF BufferInv, Running
<1> QED BY <1>2, <1>3 DEF PromiseInv

LEMMA CountStepPromise ==
  ASSUME IInv, PromiseInv, CountStep
  PROVE  PromiseInv'
<1>1. /\ status = "counting" /\ status' = "counting"
      /\ UNCHANGED <<graph, root, input_buffers>>
  BY DEF CountStep, VisitNode, CountEdge, LeaveNode
<1>2. BufferInv'
  BY <1>1 DEF PromiseInv, BufferInv, Running
<1>3. Promise!Reachable(root)' = Promise!Reachable(root)
  BY <1>1, SameReachable DEF graph
<1>4. BelowInv'
  <2>1. root \in Visited /\ Visited \subseteq Promise!Reachable(root)
    BY <1>1 DEF PromiseInv, BelowInv
  <2>2. CASE VisitNode \/ LeaveNode
    <3>1. Visited' = Visited
      BY <2>2 DEF VisitNode, LeaveNode, Visited
    <3> QED BY <1>1, <1>3, <2>1, <3>1 DEF BelowInv
  <2>3. CASE CountEdge
    <3> DEFINE next == next_edges[node][cursor]
    <3>1. /\ node \in Visited /\ cursor \in DOMAIN next_edges[node]
          /\ next \in Node \cup {NoNode}
      <4>1. node \in Visited /\ node \in Node
        BY <1>1, <2>3 DEF CountEdge, IInv, CountingInv, Visited
      <4>2. next_edges[node] \in Seq(Node \cup {NoNode}) /\ cursor \in Nat \ {0}
        BY <4>1 DEF IInv, TypeOK
      <4>3. cursor \in 1..Len(next_edges[node])
        BY <2>3, <4>2 DEF CountEdge
      <4> QED BY <4>1, <4>2, <4>3
    <3>2. CASE next = NoNode
      <4>1. Visited' = Visited
        BY <2>3, <3>2 DEF CountEdge, Visited
      <4> QED BY <1>1, <1>3, <2>1, <4>1 DEF BelowInv
    <3>3. CASE next \in Node
      <4>1. next \in Promise!Reachable(root)
        <5>1. root \in Node
          BY <2>1 DEF Visited
        <5> QED BY <2>1, <3>1, <3>3, <5>1, ReachableIsClosed
      <4>2. Visited \subseteq Visited' /\ Visited' \subseteq Visited \cup {next}
        <5>1. dependencies' = CountInboundEdge(dependencies, next)
          BY <2>3, <3>3, ConstantsAssumption DEF CountEdge
        <5>2. dependencies \in [Node -> Nat \cup {Absent}]
          BY DEF IInv, TypeOK
        <5>3. dependencies'[next] # Absent
          BY <3>3, <5>1, <5>2, ConstantsAssumption DEF CountInboundEdge
        <5>4. \A n \in Node \ {next} : dependencies'[n] = dependencies[n]
          BY <5>1, <5>2 DEF CountInboundEdge
        <5> QED BY <5>3, <5>4 DEF Visited
      <4> QED BY <1>1, <1>3, <2>1, <4>1, <4>2 DEF BelowInv
    <3> QED BY <3>1, <3>2, <3>3
  <2> QED BY <2>2, <2>3 DEF CountStep
<1> QED BY <1>2, <1>4 DEF PromiseInv

(* The root's gradient is the one that backward() is called with; nothing  *)
(* has been delivered yet.                                                 *)
LEMMA SeedRootPromise ==
  ASSUME IInv, PromiseInv, SeedRoot
  PROVE  PromiseInv'
<1>1. /\ status = "counting" /\ status' = "popping" /\ Applied = {}
      /\ input_buffers' = [input_buffers EXCEPT ![root] = 1]
      /\ UNCHANGED <<graph, root, dependencies, received>>
  BY DEF SeedRoot, IInv, CountingInv
<1>2. /\ root \in Visited /\ Visited \subseteq Node
      /\ \A n \in Node : input_buffers[n] = Absent
      /\ Visited' = Visited /\ Applied' = {}
  BY <1>1 DEF PromiseInv, BelowInv, BufferInv, Visited, Applied
<1>3. BelowInv'
  BY <1>1, <1>2, SameReachable DEF PromiseInv, BelowInv, graph
<1>4. \A n : ArrivedAt(n)' = {}
  BY <1>2 DEF ArrivedAt, Delivered
<1>5. IsSumAt(1, root)'
  <2>1. PICK F : Additive(F, Contribution', {}) /\ F[{}] = 0
    BY NothingToAdd
  <2>2. Seed(root)' = 1
    BY DEF Seed
  <2> QED BY <1>4, <2>1, <2>2 DEF IsSumAt
<1>6. /\ input_buffers'[root] = 1
      /\ \A n \in Node \ {root} : input_buffers'[n] = Absent
  BY <1>1, <1>2 DEF IInv, TypeOK
<1>7. ASSUME NEW n \in Visited' \ Applied'
      PROVE  \/ (input_buffers[n] = Absent /\ n # root /\ ArrivedAt(n) = {})'
             \/ IsSumAt(input_buffers[n], n)'
  <2>1. CASE n = root
    <3>1. n = root'
      BY <1>1, <2>1
    <3> QED BY <1>1, <1>5, <1>6, <2>1, <3>1 DEF IsSumAt, Seed, ArrivedAt
  <2>2. CASE n # root
    BY <1>1, <1>2, <1>4, <1>6, <2>2
  <2> QED BY <2>1, <2>2
<1>8. BufferInv'
  BY <1>1, <1>7 DEF BufferInv
<1> QED BY <1>3, <1>8 DEF PromiseInv

(* Applying a node changes no sum of another: it has delivered nothing.    *)
LEMMA ApplyNodePromise ==
  ASSUME IInv, PromiseInv, ApplyNode
  PROVE  PromiseInv'
<1>1. /\ status = "applying" /\ status' = "delivering" /\ node' = node
      /\ input_grads' = [i \in 1..Len(partials[node]) |->
                            partials[node][i] * input_buffers[node]]
      /\ received' = [received EXCEPT ![node] = input_buffers[node]]
      /\ input_buffers' = [input_buffers EXCEPT ![node] = Taken]
      /\ UNCHANGED <<graph, root, dependencies>>
  BY DEF ApplyNode
<1>2. /\ node \in Node /\ node \notin Applied
      /\ Edges' = Edges /\ Visited' = Visited /\ Applied' = Applied \cup {node}
      /\ \A e \in Edges : Target(e)' = Target(e) /\ (Delivered(e)' <=> Delivered(e))
  BY ApplyNodeEdges
<1>3. BelowInv'
  BY <1>1, <1>2, SameReachable DEF PromiseInv, BelowInv, graph, Running
<1>4. \A n : ArrivedAt(n)' = ArrivedAt(n)
  BY <1>2 DEF ArrivedAt
<1>5. received'[node] = input_buffers[node] /\ \A n \in Node \ {node} :
        received'[n] = received[n] /\ input_buffers'[n] = input_buffers[n]
  BY <1>1, <1>2 DEF IInv, TypeOK
<1>6. \A n : \A e \in ArrivedAt(n) : Contribution'[e] = Contribution[e]
  <2> SUFFICES ASSUME NEW n, NEW e \in ArrivedAt(n)
               PROVE  Contribution'[e] = Contribution[e]
    OBVIOUS
  <2>1. e \in Edges /\ e[1] \in Applied /\ e[1] # node /\ e[1] \in Node
    BY <1>2 DEF ArrivedAt, Delivered, Applied
  <2> QED BY <1>1, <1>2, <1>5, <2>1 DEF Contribution, graph
<1>7. ASSUME NEW n \in Node, NEW x, IsSumAt(x, n) PROVE IsSumAt(x, n)'
  <2>1. PICK F : Additive(F, Contribution, ArrivedAt(n)) /\ x = Seed(n) + F[ArrivedAt(n)]
    BY <1>7 DEF IsSumAt
  <2>2. Additive(F, Contribution', ArrivedAt(n))
    BY <1>6, <2>1 DEF Additive
  <2>3. Seed(n)' = Seed(n)
    BY <1>1 DEF Seed
  <2> QED BY <1>4, <2>1, <2>2, <2>3 DEF IsSumAt
<1>8. ASSUME NEW n \in Visited' \ Applied'
      PROVE  \/ (input_buffers[n] = Absent /\ n # root /\ ArrivedAt(n) = {})'
             \/ IsSumAt(input_buffers[n], n)'
  <2>1. n \in Node \ {node} /\ n \in Visited \ Applied
    BY <1>2 DEF Visited
  <2>2. input_buffers'[n] = input_buffers[n] /\ root' = root
    BY <1>1, <1>5, <2>1
  <2>3. IsSumAt(input_buffers[n], n) => IsSumAt(input_buffers[n], n)'
    BY <1>7, <2>1, <2>2 DEF IsSumAt
  <2> QED BY <1>1, <1>4, <2>1, <2>2, <2>3 DEF PromiseInv, BufferInv, Running
<1>9. BufferInv'
  BY <1>1, <1>5, <1>8 DEF BufferInv, graph
<1> QED BY <1>3, <1>9 DEF PromiseInv

(* A delivery adds one contribution to one sum.                            *)
LEMMA DeliverGradPromise ==
  ASSUME IInv, PromiseInv, DeliverGrad
  PROVE  PromiseInv'
<1>0. PICK next, edge, g : /\ next = next_edges[node][cursor]
                           /\ edge = <<node, cursor>> /\ g = input_grads[cursor]
  OBVIOUS
<1>1. /\ status = "delivering" /\ status' = "delivering"
      /\ input_buffers' = [input_buffers EXCEPT ![next] = AddToBuffer(@, g)]
      /\ dependencies' = [dependencies EXCEPT ![next] = @ - 1]
      /\ UNCHANGED <<graph, root, node, input_grads, received>>
  BY <1>0 DEF DeliverGrad
<1>2. /\ node \in Node /\ node \in Applied /\ ~Delivered(edge)
      /\ edge \in Edges /\ Target(edge) = next /\ next \in Node
      /\ next \in Visited /\ node \in Visited /\ Edges' = Edges /\ Applied' = Applied
      /\ \A e \in Edges : Target(e)' = Target(e)
      /\ \A e \in Edges : Delivered(e)' <=> Delivered(e) \/ e = edge
  BY <1>0, DeliverGradEdges
<1>3. next \notin Applied
  <2>1. edge \in Undelivered(next)
    BY <1>0, <1>2 DEF Undelivered
  <2>2. ~Ready(next)
    BY <1>1, <1>2, <2>1 DEF IInv, RunningInv, Running
  <2> QED BY <2>2 DEF Ready
<1>4. cursor \in DOMAIN input_grads /\ g \in Int
  <2>1. cursor \in Nat \ {0} /\ input_grads \in Seq(Int) /\ cursor <= Len(input_grads)
    BY DEF IInv, TypeOK, DeliverGrad, MoreToDeliver
  <2> QED BY <1>0, <2>1
<1>5. g = partials[node][cursor] * received[node]
  <2>1. input_grads = [i \in 1..Len(partials[node]) |-> partials[node][i] * received[node]]
    BY <1>1 DEF PromiseInv, BufferInv
  <2>2. \A i \in DOMAIN input_grads : input_grads[i] = partials[node][i] * received[node]
    BY <2>1
  <2> QED BY <1>0, <1>4, <2>2
<1>6. Contribution[edge] = g /\ edge[1] \in Visited
  BY <1>0, <1>2, <1>5 DEF Contribution
<1>7. Visited' = Visited
  <2>1. dependencies \in [Node -> Nat \cup {Absent}]
    BY DEF IInv, TypeOK
  <2>2. dependencies[next] \in Nat
    BY <1>2, <2>1 DEF Visited
  <2>3. dependencies[next] - 1 # Absent
    BY <2>2, ConstantsAssumption
  <2>4. \A n \in Node : dependencies'[n] = IF n = next THEN dependencies[next] - 1
                                                       ELSE dependencies[n]
    BY <1>1, <2>1
  <2> QED BY <1>2, <2>3, <2>4 DEF Visited
<1>8. BelowInv'
  BY <1>1, <1>7, SameReachable DEF PromiseInv, BelowInv, graph, Running
<1>9. /\ Contribution' = Contribution
      /\ \A n : Seed(n)' = Seed(n)
      /\ \A n : n # next => ArrivedAt(n)' = ArrivedAt(n)
      /\ ArrivedAt(next)' = ArrivedAt(next) \cup {edge}
      /\ edge \notin ArrivedAt(next)
  <2>1. Contribution' = Contribution /\ \A n : Seed(n)' = Seed(n)
    BY <1>1, <1>2 DEF Contribution, Seed, graph
  <2>2. \A n : n # next => ArrivedAt(n)' = ArrivedAt(n)
    BY <1>2, <1>7 DEF ArrivedAt
  <2>3. ArrivedAt(next)' = ArrivedAt(next) \cup {edge} /\ edge \notin ArrivedAt(next)
    BY <1>2, <1>6, <1>7 DEF ArrivedAt
  <2> QED BY <2>1, <2>2, <2>3
<1>10. /\ input_buffers'[next] = AddToBuffer(input_buffers[next], g)
       /\ \A n \in Node \ {next} : input_buffers'[n] = input_buffers[n]
  BY <1>1, <1>2 DEF IInv, TypeOK
<1>11. ASSUME NEW n \in Visited', n \notin Applied'
       PROVE  \/ (input_buffers[n] = Absent /\ n # root /\ ArrivedAt(n) = {})'
              \/ IsSumAt(input_buffers[n], n)'
  <2>1. /\ n \in Node /\ n \in Visited \ Applied
        /\ \/ input_buffers[n] = Absent /\ n # root /\ ArrivedAt(n) = {}
           \/ IsSumAt(input_buffers[n], n)
    BY <1>1, <1>2, <1>7, <1>11 DEF PromiseInv, BufferInv, Running, Visited
  <2>2. CASE n # next
    <3>1. input_buffers'[n] = input_buffers[n]
      BY <1>10, <2>1, <2>2
    <3> QED BY <1>1, <1>9, <2>1, <2>2, <3>1 DEF IsSumAt
  <2>3. CASE n = next
    <3>1. \E F : /\ Additive(F, Contribution, ArrivedAt(n))
                 /\ input_buffers'[n] = Seed(n) + (F[ArrivedAt(n)] + g)
      <4>1. CASE input_buffers[n] = Absent /\ n # root /\ ArrivedAt(n) = {}
        <5>1. PICK F : Additive(F, Contribution, {}) /\ F[{}] = 0
          BY NothingToAdd
        <5>2. input_buffers'[n] = g
          BY <1>10, <2>3, <4>1 DEF AddToBuffer
        <5>3. Seed(n) = 0 /\ g = 0 + (0 + g)
          BY <1>4, <4>1 DEF Seed
        <5> QED BY <4>1, <5>1, <5>2, <5>3
      <4>2. CASE IsSumAt(input_buffers[n], n)
        <5>1. PICK F : /\ Additive(F, Contribution, ArrivedAt(n))
                       /\ input_buffers[n] = Seed(n) + F[ArrivedAt(n)]
          BY <4>2 DEF IsSumAt
        <5>2. F[ArrivedAt(n)] \in Int /\ Seed(n) \in Int
          BY <5>1 DEF Additive, Seed
        <5>3. input_buffers'[n] = input_buffers[n] + g
          BY <1>10, <2>3, <5>1, <5>2, ConstantsAssumption DEF AddToBuffer
        <5>4. input_buffers'[n] = Seed(n) + (F[ArrivedAt(n)] + g)
          BY <1>4, <5>1, <5>2, <5>3
        <5> QED BY <5>1, <5>4
      <4> QED BY <2>1, <4>1, <4>2
    <3>2. PICK F : /\ Additive(F, Contribution, ArrivedAt(n))
                   /\ input_buffers'[n] = Seed(n) + (F[ArrivedAt(n)] + g)
      BY <3>1
    <3>3. PICK G : Extends(G, F, Contribution, ArrivedAt(n), edge)
      <4>1. edge \notin ArrivedAt(n) /\ Weighable(Contribution, edge)
        BY <1>4, <1>6, <1>9, <2>3 DEF Weighable
      <4> QED BY <4>1, <3>2, AdditiveExtends
    <3>4. ArrivedAt(n)' = ArrivedAt(n) \cup {edge}
      BY <1>9, <2>3
    <3> QED BY <1>6, <1>9, <3>2, <3>3, <3>4 DEF IsSumAt, Extends
  <2> QED BY <2>2, <2>3
<1>12. BufferInv'
  BY <1>1, <1>11 DEF PromiseInv, BufferInv, graph
<1> QED BY <1>8, <1>12 DEF PromiseInv

LEMMA InitPromise == Init => PromiseInv
BY DEF Init, PromiseInv, BelowInv, BufferInv, Running

LEMMA NextPromise == IInv /\ PromiseInv /\ [Next]_vars => PromiseInv'
<1> SUFFICES ASSUME IInv, PromiseInv, [Next]_vars PROVE PromiseInv'
  OBVIOUS
<1>1. ASSUME NEW r \in Node \ Accumulator, Execute(r) PROVE PromiseInv'
  BY <1>1, ExecutePromise
<1>2. CASE CountStep
  BY <1>2, CountStepPromise
<1>3. CASE PopReady
  <2>1. \A e \in Edges : Delivered(e)' <=> Delivered(e)
    BY <1>3 DEF PopReady, Delivered, Applied
  <2> QED BY <1>3, <2>1, QuietPromise DEF PopReady, Running
<1>4. CASE SkipNullEdge
  BY <1>4, SkipNullEdgeDelivered, QuietPromise DEF SkipNullEdge, Running
<1>5. CASE FinishNode
  BY <1>5, FinishNodeDelivered, QuietPromise DEF FinishNode, Running
<1>6. CASE Return
  <2>1. \A e \in Edges : Delivered(e)' <=> Delivered(e)
    BY <1>6 DEF Return, Delivered, Applied, task
  <2> QED BY <1>6, <2>1, QuietPromise DEF Return, Running, task
<1>7. CASE ApplyThrows \/ DeliverThrows
  BY <1>7, ThrowPromise DEF ApplyThrows, DeliverThrows, Running
<1>8. CASE UNCHANGED vars
  <2>1. UNCHANGED <<graph, status, root, task, received>>
    BY <1>8 DEF vars
  <2>2. CASE status \in Running
    <3>1. \A e \in Edges : Delivered(e)' <=> Delivered(e)
      BY <2>1 DEF Delivered, Applied, task
    <3> QED BY <2>1, <2>2, <3>1, QuietPromise DEF task
  <2>3. CASE status \notin Running
    <3>1. Visited' = Visited /\ Promise!Reachable(root)' = Promise!Reachable(root)
      BY <2>1, SameReachable DEF Visited, task, graph
    <3> QED BY <2>1, <2>3, <3>1 DEF PromiseInv, BelowInv, BufferInv, Running, task
  <2> QED BY <2>2, <2>3
<1> QED
  BY <1>1, <1>2, <1>3, <1>4, <1>5, <1>6, <1>7, <1>8, SeedRootPromise, ApplyNodePromise,
     DeliverGradPromise
  DEF Next, RunStep

-----------------------------------------------------------------------------
(* Every step of the engine is one of Backward, or none.                   *)

LEMMA InEdgesAreEdges ==
  ASSUME IInv, BelowInv, status \in Running, NEW n \in Node
  PROVE  Promise!InEdges(n) = {e \in Edges : e[1] \in Visited /\ Target(e) = n}
<1>1. /\ Promise!Reachable(root) = Visited /\ Visited \subseteq Node
  BY VisitedIsReachable DEF Visited
<1>2. \A m \in Visited : \A i : i \in DOMAIN next_edges[m] /\ next_edges[m][i] = n
                               <=> <<m, i>> \in Edges /\ Target(<<m, i>>) = n
  <2> SUFFICES ASSUME NEW m \in Visited, NEW i
               PROVE  i \in DOMAIN next_edges[m] /\ next_edges[m][i] = n
                      <=> <<m, i>> \in Edges /\ Target(<<m, i>>) = n
    OBVIOUS
  <2>1. /\ next_edges[m] \in Seq(Node \cup {NoNode}) /\ Len(next_edges[m]) \in Nat
        /\ Len(next_edges[m]) <= MaxInputs /\ DOMAIN next_edges[m] = 1..Len(next_edges[m])
    BY <1>1 DEF IInv, TypeOK, GraphOK
  <2>2. i \in DOMAIN next_edges[m] <=> i \in 1..MaxInputs /\ i <= Len(next_edges[m])
    BY <2>1, ConstantsAssumption
  <2> QED BY <1>1, <2>2, ConstantsAssumption DEF Edges, Target
<1>3. \A e \in Edges : e = <<e[1], e[2]>>
  BY DEF Edges
<1> QED BY <1>1, <1>2, <1>3 DEF Promise!InEdges

LEMMA ApplyNodeIsEvaluate ==
  ASSUME IInv, PromiseInv, ApplyNode
  PROVE  Promise!Next
<1> DEFINE T == ArrivedAt(node)
<1>1. /\ status = "applying" /\ node \in Node /\ node \notin Applied
      /\ Undelivered(node) = {} /\ node \in Visited /\ input_buffers[node] \in Int
  BY DEF ApplyNode, IInv, RunningInv, Running, Ready
<1>2. Promise!Reachable(root) = Visited
  BY <1>1, VisitedIsReachable DEF PromiseInv, Running
<1>3. Promise!InEdges(node) = T
  <2>1. T = {e \in Edges : e[1] \in Visited /\ Target(e) = node}
    BY <1>1 DEF ArrivedAt, Undelivered
  <2> QED BY <1>1, <2>1, InEdgesAreEdges DEF PromiseInv, Running
<1>4. PICK F : Additive(F, Contribution, T) /\ input_buffers[node] = Seed(node) + F[T]
  <2>1. IsSumAt(input_buffers[node], node)
    BY <1>1, ConstantsAssumption DEF PromiseInv, BufferInv, Running
  <2> QED BY <2>1 DEF IsSumAt
<1>5. Promise!Upstream(node, T) = input_buffers[node]
  <2>1. IsFiniteSet(T)
    BY EdgesAreFinite, FS_Subset DEF ArrivedAt
  <2>2. \A e \in T : Contribution[e] = partials[e[1]][e[2]] * received[e[1]]
    BY DEF ArrivedAt, Delivered, Contribution
  <2> HIDE DEF T
  <2>3. \A n : Promise!Upstream(n, T) = (IF n = root THEN 1 ELSE 0) + F[T]
    BY <1>4, <2>1, <2>2, SumIsAdditive
  <2> QED BY <1>4, <2>3 DEF Seed
<1>6. \A e \in T : e[1] \in Promise!Evaluated
  BY DEF ArrivedAt, Delivered, Applied, Promise!Evaluated
<1>7. /\ status' = "delivering" /\ UNCHANGED <<graph, faults, root>>
      /\ received' = [received EXCEPT ![node] = input_buffers[node]]
      /\ grad' = IF WritesGrad(node) THEN [grad EXCEPT ![node] = input_buffers[node]]
                                     ELSE grad
  BY DEF ApplyNode
<1>8. received'[node] = input_buffers[node]
  BY <1>1, <1>7 DEF IInv, TypeOK
<1>9. Promise!Evaluate(node)
  BY <1>1, <1>2, <1>3, <1>5, <1>6, <1>7, <1>8
  DEF Promise!Evaluate, WritesGrad, Running, graph, faults
<1>10. node \notin Promise!Evaluated
  BY <1>1 DEF Applied, Promise!Evaluated
<1> QED BY <1>1, <1>9, <1>10 DEF Promise!Next, Promise!Pass

LEMMA ReturnIsFinish ==
  ASSUME IInv, IInv', PromiseInv, Return
  PROVE  Promise!Next
<1>1. /\ status = "popping" /\ status' = "done"
      /\ UNCHANGED <<graph, faults, grad, root, task, received>>
  BY DEF Return
<1>2. Promise!Reachable(root) = Visited
  BY <1>1, VisitedIsReachable DEF PromiseInv, Running
<1>3. Visited = Applied
  <2>1. DoneMeansAllApplied'
    BY NoneLeftOver, PTL
  <2> QED BY <1>1, <2>1 DEF DoneMeansAllApplied, Visited, Applied, task
<1>4. Promise!Finish
  BY <1>1, <1>2, <1>3
  DEF Promise!Finish, Promise!Evaluated, Applied, Running, graph, faults
<1> QED BY <1>4 DEF Promise!Next, Promise!Pass

LEMMA StepImplements ==
  IInv /\ IInv' /\ PromiseInv /\ [Next]_vars => [Promise!Next]_(Promise!vars)
<1> SUFFICES ASSUME IInv, IInv', PromiseInv, [Next]_vars
             PROVE  [Promise!Next]_(Promise!vars)
  OBVIOUS
<1>1. ASSUME NEW r \in Node \ Accumulator, Execute(r) PROVE Promise!Next
  <2>1. Promise!Start(r)
    BY <1>1 DEF Execute, Promise!Start, Running, graph, faults
  <2> QED BY <2>1 DEF Promise!Next
<1>2. CASE ApplyThrows \/ DeliverThrows
  <2>1. Promise!Fail
    BY <1>2 DEF ApplyThrows, DeliverThrows, Promise!Fail, Running, graph, faults
  <2> QED BY <2>1 DEF Promise!Next, Promise!Pass
<1>3. CASE CountStep \/ SeedRoot \/ PopReady \/ SkipNullEdge \/ DeliverGrad \/ FinishNode
  BY <1>3
  DEF CountStep, VisitNode, CountEdge, LeaveNode, SeedRoot, PopReady, SkipNullEdge,
      DeliverGrad, FinishNode, Promise!vars, Running, graph, faults
<1>4. CASE UNCHANGED vars
  BY <1>4 DEF vars, Promise!vars, graph, faults
<1> QED
  BY <1>1, <1>2, <1>3, <1>4, ApplyNodeIsEvaluate, ReturnIsFinish DEF Next, RunStep

(* Engine implements what Backward allows: every node below the root is    *)
(* evaluated at most once, after all that feed it, on the sum the chain    *)
(* rule asks for, and the whole of it goes to grad; a pass that returns    *)
(* has evaluated them all.  That each pass ends is left to the runs.       *)
(* (Engine.cpp 5-71)                                                       *)
THEOREM KeepsPromiseSafely == Spec => Promise!Safety
<1>1. Init => Promise!Init
  BY DEF Init, Promise!Init, Running
<1>2. IInv /\ PromiseInv /\ [Next]_vars => IInv' /\ PromiseInv'
  BY NextIInv, NextPromise
<1>3. Init => IInv /\ PromiseInv
  BY InitIInv, InitPromise
<1> QED BY <1>1, <1>2, <1>3, StepImplements, PTL DEF Spec, Promise!Safety
=============================================================================
