------------------------------ MODULE MCDevice ------------------------------
(***************************************************************************)
(* Two threads with convolutions and additions to do.                      *)
(***************************************************************************)
EXTENDS Device, MCDeviceJobs

CONSTANT Worker

(* Two additions; a convolution alone, or beside an addition on the stream *)
(* the library registered; and two small convolutions at once, whose       *)
(* copies meet in the null stream.                                         *)
MCInit ==
  /\ Init
  /\ \/ \A t \in Thread : Job(t).name = "add"
     \/ \A t \in Thread : Job(t).g = Tiny
     \/ /\ Job(Worker).name \in {"forward", "backward"}
        /\ \/ Job(Loader) = Idle
           \/ Job(Loader) = Add(TRUE, FALSE) /\ Job(Worker).g = Layers[1]

MCSpec == MCInit /\ [][Next]_vars
=============================================================================
