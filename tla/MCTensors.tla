----------------------------- MODULE MCTensors ------------------------------
(***************************************************************************)
(* The two backends of Tensor, which share nothing: a client that uses     *)
(* views and operations on the CPU, or clients of a device.                *)
(***************************************************************************)
EXTENDS MCViews

CONSTANTS Garbage, Thread, Loader, Worker, Null, Jobs, BlockDim, MaxGrid, kBlock

VARIABLES device,              \* is it the device that is used?
          job, pc, mem, queue

Dev == INSTANCE MCDevice

Programs == INSTANCE MCDeviceJobs

MCJobs == Programs!MCJobs

deviceVars == <<job, pc, mem, queue>>

TensorsInit ==
  /\ device \in BOOLEAN /\ Init /\ Dev!MCInit
  /\ ~ device => \A t \in Thread : Dev!Job(t) = Dev!Idle

(* A client of the CPU may stop at any time.                               *)
TensorsNext ==
  /\ UNCHANGED device
  /\ \/ ~ device /\ (MCNext \/ UNCHANGED vars) /\ UNCHANGED deviceVars
     \/ device /\ Dev!Next /\ UNCHANGED vars

TensorsSpec == TensorsInit /\ [][TensorsNext]_<<device, vars, deviceVars>>

(* Device's types: in particular only copies are in the null stream, and   *)
(* a program counter never passes its program's end.                       *)
DeviceTypeOK == Dev!TypeOK

(* What the client reads after forward() is the convolution, whatever the  *)
(* timing of host and stream.  (Conv2d.cpp 69-138, im2col.cu 58-95,        *)
(* bias_add.cu)                                                            *)
ForwardIsConvolution == Dev!ForwardIsConvolution

(* What the client reads after backward() are the derivatives of the       *)
(* convolution, that of the bias for channels of one block.  (Conv2d.cpp   *)
(* 140-259, col2im.cu 51-82, transpose.cu 29-36, reduce_sum_axis.cu 91-97) *)
BackwardIsDerivative == Dev!BackwardIsDerivative
=============================================================================
