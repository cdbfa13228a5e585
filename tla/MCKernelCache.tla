--------------------------- MODULE MCKernelCache ---------------------------
(***************************************************************************)
(* Two processes.  relu(2 x + 3) is the expression of fusion/demo.py, and  *)
(* one whose constant differs by less than is printed has the same source; *)
(* Input("y") does not compile.                                            *)
(***************************************************************************)
EXTENDS KernelCache, FusionIR

Relu(slope) == <<"relu", <<"add", <<"mul", <<"input">>, <<"const", slope>>>>,
                                  <<"const", 30000000>>>>>>
Tanh(x) == <<"tanh", x>>

Ask(expr, arch, force) == [expr |-> expr, arch |-> arch, force |-> force, nvcc |-> TRUE]

MCCalls == {Ask(Relu(20000000), "sm_80", FALSE), Ask(Relu(20000000), "sm_80", TRUE),
            Ask(Relu(20000001), "sm_90", FALSE), Ask(Relu(20000010), "sm_80", FALSE),
            Ask(Tanh(<<"unknown">>), "sm_80", FALSE),
            [Ask(Relu(20000000), "sm_80", FALSE) EXCEPT !.nvcc = FALSE]}
=============================================================================
