------------------------------- MODULE Device -------------------------------
(***************************************************************************)
(* Host threads, their CUDA streams and device memory: cuda/CudaContext,   *)
(* the copies of cuda/memory/CudaStorageAllocator.cpp, and the stream that *)
(* cuda/kernels/elementwise.cu registers for the operations of Tensor.     *)
(*                                                                         *)
(* Every thread has a stream of its own, created on first use; a stream    *)
(* executes what is queued in order and streams do not wait for one        *)
(* another, nor for the null stream, since they are non-blocking.  All     *)
(* host memory is pageable: a copy to the device takes its data at the     *)
(* call and reaches the device later, a copy from the device returns when  *)
(* it is done.  A thread has blocks of its own, which nobody frees: no     *)
(* code of the library calls allocator_dispatch::free_storage.             *)
(***************************************************************************)
EXTENDS Conv2d

CONSTANTS Thread,
          Loader,       \* the thread that loads the library
          Null,         \* the null stream, which cudaMemcpy uses
          Jobs,         \* the sequence of what threads may be given to do
          BlockDim,     \* kBlockSize of elementwise.cu
          MaxGrid       \* 65535 there

VARIABLES job,     \* which of Jobs each thread does
          pc,      \* its next command
          mem,     \* its blocks, and the host's vectors
          queue    \* what is pending in each stream

vars == <<job, pc, mem, queue>>

Stream == Thread \cup {Null}

Job(t) == Jobs[job[t]]

(* DeviceContext::current().current_stream in thread t.                    *)
current_stream(t) == t

NullStream(t) == Null

(* register_current_stream is called once, while the library loads.        *)
RegisteredStream(t) == Loader

-----------------------------------------------------------------------------
(* The host's data, and memory before anything is written to it.           *)

Data(block) == CASE block = "input" -> 1 [] block = "weight" -> 2
                 [] block = "bias" -> 50 [] block = "grad_output" -> 3
                 [] block = "x" -> 5 [] block = "y" -> 7

HostArray(block, size) == [i \in Below(size) |-> Data(block) + i * (i + 1)]

(* Tensor::empty: allocate() does not clear what cudaMallocAsync returns.  *)
Size(g, n) ==
  [input |-> g.N * g.Cin * g.H * g.W, weight |-> g.Cout * g.K, bias |-> g.Cout,
   grad_output |-> g.N * g.Cout * g.spatial, out_flat |-> g.N * g.Cout * g.spatial,
   col |-> ColSize(g), col_grad |-> ColSize(g), grad_input |-> g.N * g.Cin * g.H * g.W,
   w_T |-> g.Cout * g.K, col_n_T |-> g.K * g.spatial, gw_acc |-> g.Cout * g.K,
   grad_weight |-> g.Cout * g.K, grad_bias |-> g.Cout,
   gw_h |-> g.Cout * g.K, acc_h |-> g.Cout * g.K, x |-> n, y |-> n, z |-> n, read |-> 0,
   read_input |-> 0, read_weight |-> 0, read_bias |-> 0]

Sizes == [j \in DOMAIN Jobs |-> Size(Jobs[j].g, Jobs[j].n)]

Empty(size) == [i \in Below(size) |-> Garbage]

Init ==
  /\ job \in [Thread -> DOMAIN Jobs]
  /\ pc = [t \in Thread |-> 1]
  /\ mem = [t \in Thread |-> [b \in DOMAIN Sizes[job[t]] |-> Empty(Sizes[job[t]][b])]]
  /\ queue = [s \in Stream |-> <<>>]

-----------------------------------------------------------------------------
(* The commands of the host.                                               *)

Command(t) == Job(t).program[pc[t]]

Does(t, what) ==
  /\ pc[t] <= Len(Job(t).program) /\ Command(t).do = what
  /\ pc' = [pc EXCEPT ![t] = @ + 1]
  /\ UNCHANGED job

Enqueue(s, op) == queue' = [queue EXCEPT ![s] = Append(@, op)]

(* cuda_copy_dispatch, host to device.                                     *)
CopyIn(t) ==
  LET c == Command(t) IN
  /\ \/ /\ Does(t, "upload")
        /\ Enqueue(current_stream(t),
                   [of |-> t, op |-> "write", block |-> c.block,
                    value |-> HostArray(c.block, Sizes[job[t]][c.block])])
     \/ /\ Does(t, "zeros")
        /\ Enqueue(current_stream(t),
                   [of |-> t, op |-> "write", block |-> c.block,
                    value |-> [i \in Below(Sizes[job[t]][c.block]) |-> 0]])
  /\ UNCHANGED mem

(* cuda_copy_dispatch, device to host.                                     *)
CopyOut(t) ==
  /\ Does(t, "read") /\ queue[current_stream(t)] = <<>>
  /\ mem' = [mem EXCEPT ![t].read = mem[t][Command(t).block]]
  /\ UNCHANGED queue

LaunchKernel(t) ==
  /\ Does(t, "launch")
  /\ Enqueue(current_stream(t), [of |-> t, op |-> Command(t).kernel, n |-> Command(t).n])
  /\ UNCHANGED mem

(* Tensor::operator+ and its like pass g_current_stream.  A type no kernel *)
(* is compiled for falls through the switch and launches nothing.          *)
LaunchElementwise(t) ==
  /\ Does(t, "add")
  /\ IF Command(t).supported
     THEN Enqueue(RegisteredStream(t), [of |-> t, op |-> "add", n |-> Job(t).n])
     ELSE UNCHANGED queue
  /\ UNCHANGED mem

SynchronizeStream(t) ==
  /\ Does(t, "synchronize") /\ queue[current_stream(t)] = <<>>
  /\ UNCHANGED <<mem, queue>>

(* cudaDeviceSynchronize, which only clients call.                         *)
SynchronizeDevice(t) ==
  /\ Does(t, "device_synchronize") /\ \A s \in Stream : queue[s] = <<>>
  /\ UNCHANGED <<mem, queue>>

(* cudaMemcpy, through the null stream.                                    *)
MemcpySync(t) ==
  LET c == Command(t) IN
  /\ Does(t, "memcpy") /\ queue[Null] = <<>>
  /\ IF c.from = "gw_h"
     THEN /\ Enqueue(Null, [of |-> t, op |-> "write", block |-> c.to,
                            value |-> mem[t][c.from]])
          /\ UNCHANGED mem
     ELSE mem' = [mem EXCEPT ![t][c.to] = mem[t][c.from]] /\ UNCHANGED queue

HostAdd(t) ==
  /\ Does(t, "add_on_host")
  /\ mem' = [mem EXCEPT ![t].gw_h = [i \in DOMAIN @ |-> Plus(@[i], mem[t].acc_h[i])]]
  /\ UNCHANGED queue

HostStep(t) ==
  \/ CopyIn(t) \/ CopyOut(t) \/ LaunchKernel(t) \/ LaunchElementwise(t)
  \/ SynchronizeStream(t) \/ SynchronizeDevice(t) \/ MemcpySync(t) \/ HostAdd(t)

-----------------------------------------------------------------------------
(* The device.                                                             *)

Lowest(a, b) == IF a < b THEN a ELSE b

(* Thread i of the grid takes elements i, i + stride, ...                  *)
GridStride(i, size, threads) == {e \in Below(size) : e >= i /\ (e - i) % threads = 0}

Covered(size) ==
  LET grid == Lowest((size + BlockDim - 1) \div BlockDim, MaxGrid)
  IN UNION {GridStride(i, size, grid * BlockDim) : i \in Below(grid * BlockDim)}

elementwise_add(m, size) ==
  [m EXCEPT !.z = [e \in DOMAIN @ |-> IF e \in Covered(size) THEN Plus(m.x[e], m.y[e])
                                                             ELSE @[e]]]

Run(op, m, last) ==
  CASE op.op = "write" -> [m EXCEPT ![op.block] = op.value]
    [] op.op = "add"   -> elementwise_add(m, op.n)
    [] OTHER           -> Effect(Job(op.of).g, m, op.op, op.n, last)

StreamStep(s) ==
  /\ queue[s] # <<>>
  /\ queue' = [queue EXCEPT ![s] = Tail(@)]
  /\ LET op == Head(queue[s])
     IN \E last \in Outcomes(Job(op.of).g, op.op) : mem' = [mem EXCEPT ![op.of] = Run(op, @, last)]
  /\ UNCHANGED <<job, pc>>

Finished(t) == pc[t] > Len(Job(t).program)

(* Everything has ended.  This is the only state from which no other step  *)
(* is possible and every other step advances a program or shortens a       *)
(* queue, so that every client gets to its end.                            *)
AllDone == /\ \A t \in Thread : Finished(t)
           /\ \A s \in Stream : queue[s] = <<>>
           /\ UNCHANGED vars

Next == \/ \E t \in Thread : HostStep(t)
        \/ \E s \in Stream : StreamStep(s)
        \/ AllDone

Spec == Init /\ [][Next]_vars

-----------------------------------------------------------------------------

Element == Int \cup {Garbage}

TypeOK ==
  /\ \A t \in Thread : /\ job[t] \in DOMAIN Jobs
                       /\ pc[t] \in 1..Len(Job(t).program) + 1
                       /\ \A b \in DOMAIN mem[t] : \A i \in DOMAIN mem[t][b] :
                            mem[t][b][i] \in Element
  /\ \A s \in Stream : \A i \in DOMAIN queue[s] : queue[s][i].of \in Thread
  /\ \A i \in DOMAIN queue[Null] : queue[Null][i].op = "write"

Value(t, block) == HostArray(block, Sizes[job[t]][block])

(* What the client reads after forward() is the convolution, as the        *)
(* definition in Conv2dModule.cpp computes it, whatever the timing of host *)
(* and stream: im2col, the products per sample and the bias fit together,  *)
(* at the borders, with stride, padding, dilation and for windows larger   *)
(* than the input.  (Conv2d.cpp 69-138, im2col.cu 58-95, bias_add.cu)      *)
ForwardIsConvolution ==
  \A t \in Thread : Job(t).name = "forward" /\ Finished(t) =>
    mem[t].read = cpu_conv2d(Job(t).g, Value(t, "input"), Value(t, "weight"),
                             Value(t, "bias"))

(* Every product input[p] * weight[q] of output o, with its o.             *)
AllProducts(g) ==
  UNION {{<<o, p[1], p[2]>> : p \in ProductsAt(g, o)} : o \in Below(g.N * g.Cout * g.spatial)}

(* What the client reads after backward() are the derivatives of the       *)
(* convolution, weighted by grad_output.  The gradient of the weight goes  *)
(* to the host and back through another stream than the kernels' for every *)
(* sample, while they are under way.  The gradient of the bias is claimed  *)
(* for channels of one block only: a larger one loses terms, as the run    *)
(* reduce_large shows, and the rest is right beside it.  (Conv2d.cpp       *)
(* 140-259, col2im.cu 51-82, transpose.cu 29-36, reduce_sum_axis.cu 91-97) *)
BackwardIsDerivative ==
  \A t \in Thread : Job(t).name = "backward" /\ Finished(t) =>
    LET g == Job(t).g
        products == AllProducts(g)
        go == Value(t, "grad_output")
        Along(F, i) == {x \in products : x[F] = i}
    IN /\ mem[t].read_input =
            [p \in Below(g.N * g.Cin * g.H * g.W) |->
               SumOf(LAMBDA x : go[x[1]] * Value(t, "weight")[x[3]], Along(2, p))]
       /\ mem[t].read_weight =
            [q \in Below(g.Cout * g.K) |->
               SumOf(LAMBDA x : go[x[1]] * Value(t, "input")[x[2]], Along(3, q))]
       /\ ~ g.bias_enabled => mem[t].read_bias = [c \in Below(g.Cout) |-> 0]
       /\ g.bias_enabled /\ g.spatial <= kBlock =>
            mem[t].read_bias =
              [c \in Below(g.Cout) |->
                 SumOf(LAMBDA o : go[o],
                       {o \in DOMAIN go : (o \div g.spatial) % g.Cout = c})]

(* elementwise.cu 304-305: "Periodic refresh of the current-stream pointer *)
(* so the g++ side always sees the latest one".  Then what a client reads  *)
(* of a sum is the sum, its copies and the kernel being in one stream.     *)
(* There is no refresh after the one while the library loads, so another   *)
(* thread's operations run on a stream that does not wait for its copies,  *)
(* nor its copies for them.  (elementwise.cu 306-336, Tensor.cpp 107-120)  *)
ElementwiseIsSum ==
  \A t \in Thread : Job(t).name = "add" /\ Finished(t) /\ Job(t).supported =>
    mem[t].read = [i \in Below(Job(t).n) |-> Value(t, "x")[i] + Value(t, "y")[i]]
=============================================================================
