------------------------------ MODULE FusionIR ------------------------------
(***************************************************************************)
(* The expressions of fusion/ir.py and the text generated from them.  An   *)
(* expression is <<op, operands>>; a constant counts ten-millionths.       *)
(***************************************************************************)
EXTENDS Integers, Sequences

(* An expression as text: "%.6f" rounds a constant to millionths.          *)
RECURSIVE codegen(_)
codegen(e) ==
  CASE e[1] = "const" -> <<"const", ((e[2] + 5) \div 10) * 10>>
    [] e[1] \in {"input", "unknown"} -> e
    [] OTHER -> [j \in DOMAIN e |-> IF j = 1 THEN e[1] ELSE codegen(e[j])]

(* nvcc rejects a name other than x; a file with nothing in it is fine.    *)
RECURSIVE Compiles(_)
Compiles(text) ==
  CASE text[1] = "unknown" -> FALSE
    [] text[1] \in {"input", "const", "nothing"} -> TRUE
    [] OTHER -> \A j \in 2..Len(text) : Compiles(text[j])
=============================================================================
