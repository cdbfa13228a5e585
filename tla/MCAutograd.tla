----------------------------- MODULE MCAutograd -----------------------------
(***************************************************************************)
(* Short client programs over two leaves.  Every operation but the first   *)
(* uses the tensor made last, so each program computes one expression,     *)
(* and backward() may be called on any part of it at any time.             *)
(***************************************************************************)
EXTENDS Autograd

MCLeafValues == <<-2, 3>>

(* The bounds depend on one another: two operations of any kind, run       *)
(* backward once; two of the Few, with three calls of requires_grad(), of  *)
(* an in-place write, of bump_version() and of backward(); or three of the *)
(* Few, run once.                                                          *)
Few == {"leaf", "mul", "relu", "softmax"}

Affordable(ops, n) ==
  /\ toggles + writes + passes <= 3
  /\ n = 5 \/ ~(ops \subseteq Few) => toggles + writes = 0 /\ passes <= 1
  /\ n = 5 => ops \subseteq Few

OpsUsed == {tensors[t].op : t \in Created}

Budget == Affordable(OpsUsed, Len(tensors))

OneExpression(args) ==
  Len(tensors) > Len(LeafValues) => \E i \in DOMAIN args : args[i] = Len(tensors)

MCForward ==
  \E op \in Ops :
    /\ Affordable(OpsUsed \cup {op}, Len(tensors) + 1)
    /\ \E args \in Operands(op, Created) : OneExpression(args) /\ Forward(op, args)

MCNext ==
  \/ MCForward
  \/ \E t \in Created, req \in BOOLEAN : SetRequiresGrad(t, req)
  \/ \E x \in Leaves : WriteInPlace(x) \/ BumpVersion(x)
  \/ \E t \in Created : Backward(t)
  \/ EngineStep

MCSpec == Init /\ [][MCNext]_vars
=============================================================================
