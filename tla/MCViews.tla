------------------------------ MODULE MCViews ------------------------------
(***************************************************************************)
(* Chains of calls: create, reshape, view, then a second view or an        *)
(* operation, which may use the earlier tensors too.                       *)
(***************************************************************************)
EXTENDS Views

MCFills == {<<2, 1, 2>>, <<2>>}
MCRanges == {<<0, 6, 1>>, <<-3, 4, 2>>, <<5, 0, -2>>, <<3, 0, 1>>, <<1, 4, 1>>}
MCReshapes == {<<2, 3>>, <<3, 2>>, <<1, 2, 3>>, <<4>>, <<1, 3>>}

Newest == Len(tensors)

(* A third tensor only from a view or a matrix, a fourth from a view of a  *)
(* reshaped tensor; and nothing after a write.                             *)
Chain ==
  /\ writes = 0
  /\ Newest = 2 => call.op \in {"slice", "narrow", "select", "permute", "reshape"}
  /\ Newest = 3 => /\ call.op \in {"slice", "narrow", "select", "permute", "reshape"}
                   /\ Len(tensors[2].shape) > Len(tensors[1].shape)

(* Indices are counted from the end in the first two views only.           *)
CountsForward ==
  Newest' = 4 /\ call'.op \in {"slice", "narrow", "select"} => call'.by[2] >= 0
                  /\ (call'.op = "slice" => call'.by[3] >= 0)

MCNext ==
  \/ Newest = 0 /\ Create
  \/ Newest > 0 /\ Chain /\ (MakeView(Newest) \/ Compute(Newest)) /\ CountsForward
  \/ Newest \in 2..3 /\ Chain /\ \E x \in Tensor : Modify(x)

MCSpec == Init /\ [][MCNext]_vars
=============================================================================
