------------------------------ MODULE Backward ------------------------------
(***************************************************************************)
(* What a backward pass promises, whatever order and bookkeeping it uses:  *)
(* every node below the root is evaluated once, after all the nodes that   *)
(* feed it, on the sum of what they send, and a leaf's gradient is only    *)
(* ever replaced by a whole one.  A pass may fail between two evaluations. *)
(* Engine refines this.                                                    *)
(***************************************************************************)
EXTENDS Integers, Sequences, FiniteSets, FiniteSetsExt

CONSTANTS Node, Accumulator, NoNode, Absent

VARIABLES next_edges, partials, live, grad, status, root, received

vars == <<next_edges, partials, live, grad, status, root, received>>

(* The nodes in every set that holds r and is closed under the edges.      *)
Reachable(r) ==
  {n \in Node : \A S \in SUBSET Node :
     (r \in S /\ \A m \in S : \A i \in DOMAIN next_edges[m] :
                   next_edges[m][i] \in S \cup {NoNode}) => n \in S}

(* The edges of this pass that end at n.                                   *)
InEdges(n) ==
  LET below == Reachable(root)
  IN UNION {{<<m, i>> : i \in {j \in DOMAIN next_edges[m] : next_edges[m][j] = n}} :
              m \in below}

Evaluated == {n \in Node : received[n] # Absent}

(* The chain rule at n, summed over its in-edges.                          *)
Upstream(n, edges) ==
  (IF n = root THEN 1 ELSE 0)
    + MapThenSumSet(LAMBDA e : partials[e[1]][e[2]] * received[e[1]], edges)

Init ==
  /\ status = "idle" /\ root = NoNode
  /\ grad = [n \in Accumulator |-> Absent]
  /\ received = [n \in Node |-> Absent]

Start(r) ==
  /\ status # "running"
  /\ status' = "running" /\ root' = r
  /\ received' = [n \in Node |-> Absent]
  /\ UNCHANGED <<next_edges, partials, live, grad>>

Evaluate(n) ==
  /\ status = "running"
  /\ n \in Reachable(root)
  /\ LET edges == InEdges(n)
     IN /\ \A e \in edges : e[1] \in Evaluated
        /\ received' = [received EXCEPT ![n] = Upstream(n, edges)]
  /\ grad' = IF n \in Accumulator \cap live
             THEN [grad EXCEPT ![n] = received'[n]] ELSE grad
  /\ UNCHANGED <<next_edges, partials, live, status, root>>

Finish ==
  /\ status = "running" /\ Evaluated = Reachable(root)
  /\ status' = "done"
  /\ UNCHANGED <<next_edges, partials, live, grad, root, received>>

Fail ==
  /\ status = "running"
  /\ status' = "threw"
  /\ UNCHANGED <<next_edges, partials, live, grad, root, received>>

Pass == Finish \/ Fail \/ \E n \in Node \ Evaluated : Evaluate(n)

Next == Pass \/ \E r \in Node \ Accumulator : Start(r)

(* A pass does nothing wrong; and it ends.                                 *)
Safety == Init /\ [][Next]_vars

Spec == Safety /\ WF_vars(Pass)
=============================================================================
