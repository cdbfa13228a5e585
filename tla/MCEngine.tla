------------------------------ MODULE MCEngine ------------------------------
(***************************************************************************)
(* Small backward graphs of the shapes the autograd wirers build: f1 is a  *)
(* binary or unary backward node, a2 the accumulator of an intermediate    *)
(* tensor that may be chained to its grad_fn f3, a4 and a5 accumulators of *)
(* leaves.  Every way of aiming the edges is tried, with f1 reaching f3    *)
(* directly, through a2, or both ways, with null edges, and with both      *)
(* edges on one node.                                                      *)
(***************************************************************************)
EXTENDS Engine, FiniteSetsExt, TLC

CONSTANTS f1, a2, f3, a4, a5,
          MaxFaults   \* how many nodes may be faulty at once

MCNode == {f1, a2, f3, a4, a5}
MCAccumulator == {a2, a4, a5}

(* Distinct primes, so that two different sets of paths have different     *)
(* sums.                                                                   *)
MCPartials == [n \in MCNode |-> CASE n = f1 -> <<2, 3>>
                                  [] n = f3 -> <<5, 7>>
                                  [] OTHER  -> <<1>>]

(* A wirer runs only when some input needs a gradient, so no node has only *)
(* null edges.  One of a4 and a5 is as good as the other: f3 has a4.       *)
Pairs(S) == (S \X S) \ {<<NoNode, NoNode>>}

MCGraphs ==
  {[next_edges |-> (f1 :> e1) @@ (a2 :> e2) @@ (f3 :> e3)
                     @@ (a4 :> <<>>) @@ (a5 :> <<>>),
    partials   |-> MCPartials] :
     e1 \in Pairs({a2, f3, a4, a5, NoNode}),
     e2 \in {<<>>, <<f3>>},
     e3 \in {<<a4, a5>>, <<a4, a4>>, <<a4, NoNode>>, <<NoNode, a4>>}}

MCInit ==
  /\ Init
  /\ Cardinality(stale) + Cardinality(unaddable)
       + Cardinality(Accumulator \ live) <= MaxFaults

MCSpec == MCInit /\ [][Next]_vars /\ Fairness

-----------------------------------------------------------------------------

(* The engine keeps the promise of Backward: whatever the order in which   *)
(* it pops nodes and moves gradients, each pass is a topological           *)
(* evaluation by the chain rule that ends or throws.  (Engine.cpp 5-71)    *)
KeepsPromise == Promise!Spec

(* The sum, over all paths from the root to n, of the product of the       *)
(* partial derivatives on the path.                                        *)
PathSum ==
  LET total[n \in Node] ==
        (IF n = root THEN 1 ELSE 0)
          + MapThenSumSet(LAMBDA e : partials[e[1]][e[2]] * total[e[1]],
                          {e \in Edges : Target(e) = n /\ e[1] \in Visited})
  IN total

(* Whatever backward writes to a leaf's grad is the whole derivative, even *)
(* in a pass that throws half-way: never the part of it that had come in   *)
(* so far.  (AccumulateGrad.cpp 16-24, InputBuffer.cpp 32-41)              *)
GradWritesAreWhole ==
  [][\A a \in Accumulator : grad'[a] # grad[a] => grad'[a] = PathSum[a]]_vars

(* A backward pass ends, normally or by throwing.  (Engine.cpp 10, 38)     *)
EveryPassEnds == status = "counting" ~> status \in {"done", "threw"}
=============================================================================
