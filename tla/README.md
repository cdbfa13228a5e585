# A verification project for TensorForge

TensorForge is a small C++20/CUDA tensor library: tensors over reference-counted
storage, a reverse-mode autograd engine, hand-written CUDA kernels, a few neural
network modules with an SGD optimizer, a Python code generator for fused kernels
and two dataset loaders. This directory holds TLA+ modules that model parts of it,
TLC configurations that check the models on small instances, and theorems about
them proved with TLAPS. Paths below are relative to the repository's root; in the
modules' comments a property is followed by the lines whose behaviour it is about.

## 1. Inventory

| Part | State it keeps | Operations | What makes it correct |
|---|---|---|---|
| Backward engine (`autograd/Engine`, `InputBuffer`, `AccumulateGrad`, `Node`) | per pass a `GraphTask`: `dependencies_`, `input_buffers_`, and the ready queue; across passes the `grad_` behind each accumulator | `execute`, `compute_dependencies`, `InputBuffer::add/take`, `AccumulateGrad::apply` | every reachable node is applied once, on the sum of all the gradients sent to it; the pass ends; what reaches a leaf is whole |
| Wirers and saved tensors (`autograd/TensorAutograd.cpp`, `SavedTensor`, `autograd/ops`) | `AutogradMeta` of each tensor (`grad_fn_`, `grad_accumulator_`, `requires_grad_`), edges of each node, version counters | `requires_grad`, `wire_*`, `backward`, `unpack`, `bump_version` | the graph recorded is acyclic and covers every path once; a backward node uses what the forward pass saved or throws |
| GEMM kernels (`cuda/kernels/gemm.cu`) | shared tiles, per-thread accumulators | naive, tiled and double-buffered kernel | C = A @ B whatever the threads' timing; no race; every thread reaches every barrier |
| Reduction kernels (`reduce_sum_axis.cu`, `softmax.cu`, `layernorm.cu`) | shared partial sums, output cells | tree and warp reductions | every element is counted once; shared cells are not reused too early |
| Convolution (`nn/Conv2d.cpp`, `nn/Conv2dModule.cpp`, `im2col.cu`, `col2im.cu`, `transpose.cu`, `bias_add.cu`) | blocks of device memory, two vectors on the host | `forward`, `backward`: launches, copies and additions on the host | forward is the convolution and backward its derivatives, at borders and whatever the timing of host and streams |
| CUDA contexts, streams, allocator, element-wise kernels (`cuda/CudaContext`, `cuda/memory`, `elementwise.cu`) | a stream per thread, the null stream, the stream registered for operations of `Tensor` | allocate, free, copy, launch, synchronize | what a client reads is what the work before it has computed |
| Tensors, views, factories (`tensor/`) | storage, offset, shape, stride | slice, narrow, select, reshape, permute, transpose, arithmetic, reductions, `to`, `full`, `arange` | a view shows the elements it should and stays in its storage; operations compute what they say |
| Modules, optimizer, training programs (`nn/`, `nn/optim`, `examples/`) | parameters, gradients, velocities; the loops' counters | `parameters`, `step`, `zero_grad`, the loops over epochs and batches | a step moves each parameter once by the gradient of this batch, and the parameter stays trainable; every sample is used |
| Fusion generator (`fusion/`) | a directory of compiled kernels, shared by processes | `codegen`, `compile_and_load` | the kernel loaded is the one asked for, and whole; it is compiled once |
| Dataset loaders (`data/`) | file contents | parse, concatenate | images and labels agree; damaged files are refused |

How they interact. A tensor operation computes its result, on the CPU or through a
registered kernel, and then calls its *wirer*, which records a backward node and its
edges. `Tensor::backward` creates an `Engine` on the stack and gives it the graph
below the tensor's `grad_fn_`. The engine calls `apply()` of each node, which calls
`SavedTensor::unpack` and tensor operations in turn, and ends in the accumulators,
which assign `AutogradMeta::grad_`. The optimizer reads those. Autograd is single
threaded: its hard behaviours are order, counts that must agree with one another,
stale saved values and passes that throw half-way. Concurrency is in the kernels
(threads of a block between barriers, blocks of one grid), in CUDA streams, of which
every host thread has its own and the runtime a null stream that does not wait for
them, and between processes that share the fusion cache.

`PROJECT.json` lists every component with its status, and under `hazards` each
place in the code where something can go wrong that a test would hardly reach.

## 2. Plan

In the order of importance; 1 to 10 exist.

1. `Engine`, abstract specification `Backward`, proofs in `EngineProofs`.
2. `Autograd`, which composes the wirers, version counters and `Engine`.
3. `GemmBlock`, `GemmTiled`, `GemmOptimized`, proofs in `GemmProofs`.
4. `ReduceSumAxis`.
5. `RowReduce`, the block reductions of softmax and layernorm.
6. `Shapes` and `Views`, abstract specification `Arrays`.
7. `Conv2d` and `Device`: the convolution as a program of commands, and the threads,
   streams and memory that run it.
8. `Loader` and `Training`: data files through the loaders into the training loops.
9. `KernelCache`: the fusion cache under several processes.
10. Proofs about the modules above, one `...Proofs` module for each; section 5 says what
    is proved and what is left. Only `Device` has none.
11. Ownership of the graph: `shared_ptr` cycles (`softmax` saves its own output), weak
    `meta_`, gradients that carry graphs of their own because `apply()` of mul,
    matmul and relu runs wired operations. Property: what the client drops is freed.

## 3. Modules

**Engine** models `Engine::execute` and everything it calls. Its variables carry the
names of the C++ members and locals. A step is one iteration of an inner loop:
`VisitNode`, `CountEdge` and `LeaveNode` are the two nested loops of
`compute_dependencies`; `SeedRoot`, `PopReady`, `ApplyNode`, `SkipNullEdge`,
`DeliverGrad`, `FinishNode` and `Return` are `execute`. `ApplyThrows` (a version
check fails) and `DeliverThrows` (`add_tensors` refuses a second gradient) leave the
pass half done, as the exceptions do; `Execute` may start the next one afterwards.
A gradient is a number and a node multiplies it by one partial derivative per
input, since every `apply()` is linear in its upstream gradient. Nodes whose saved
tensors are stale, nodes whose gradients cannot be added and accumulators whose
variable is gone are chosen in the initial state. `release_saved()` is called but
does nothing, because no node overrides it.

**Backward** is the abstract specification: a pass evaluates each reachable node
once, after all nodes that feed it, on the sum the chain rule gives, and ends or
fails. It has no queue, counts or buffers. `Engine` instantiates it as `Promise`, with
its own stages mapped to "running". `KeepsPromise` checks `Promise!Spec`, which says
that passes end; the theorem is about `Promise!Safety`, the same without fairness.

**Autograd** composes the client's operations with `Engine` by `INSTANCE`: the
engine's `stale`, `partials` and `live` are defined from the tensors instead of
chosen. `Forward` is a tensor operation with its wirer; `Source` is the three
different routes the wirers take to an operand (its accumulator, or its `grad_fn_`
for relu, sum and transpose), `ChainToGradFn` the edge from an intermediate tensor's
accumulator to the node that computed it. `SetRequiresGrad` may come at any time
between passes, so may `WriteInPlace`, a write through `data()` as all writes of the
library are, which bumps no version, and `BumpVersion`, a call of its own that only the
tests make. Tensors have one element, a row of one column. `Element` computes each
operation by its definition there: softmax is 1, and layernorm subtracts the row's mean
before it scales, which leaves beta. The reference for a gradient, `tangent`, takes its
slopes from `Element`, as differences, and `Derivatives` is what each `apply()`
multiplies by. The two agree but for layernorm, whose gradients `LayerNormBackward.hpp:7-16`
calls simplified and placeholders. They reach the leaves in the model as they do in the
code; what is claimed of passes leaves out those that applied such a node (`Inexact`).
In one column softmax has derivative 0, so its node shows that a route exists and
carries the right value, not how two columns act on each other. It stands for
log_softmax too, sigmoid for all operations with an empty wirer.

**GemmBlock** is what the two shared-memory kernels have in common: the tile
elements a thread loads, with the padding at the edges, the inner product and the
guarded store. A number is abstracted to the index of the element it came from, so
a wrong sum is visible as a wrong sequence of products. **GemmTiled** and
**GemmOptimized** add the order of loads, barriers and inner loops of their kernels.
Each access to shared memory is a step of one thread, so every interleaving of
threads between barriers is explored; threads are scheduled independently, which is
what CUDA promises since Volta. `kt * kTile` is kept as `k0`. **MCGemm** runs one kernel
after the other on the same matrices.

**ReduceSumAxis** is one channel of `reduce_sum_axis_kernel` with the grid its
launcher takes: the shares of the threads, the tree reduction with its barriers, and
the assignment of `out[c]` by every block. An element is the index it is read from
and a partial sum counts, for each index, how often it is in: an element left out or
added twice shows. **ReduceLaunch** holds the constants of a launch.

**RowReduce** is one block, which is one row, of `softmax_kernel` and
`layernorm_kernel`. They differ in what they reduce and in that layernorm's two
reductions share `warp_results`. A shuffle is one step of all lanes of a warp, as
its full mask requires; everything else is a step of one thread. The butterfly over
the offsets is computed as the code does. exp is a power of two, and a stored element is
the tuple of the numbers it is computed from. **MCReductions** launches a row kernel and
then the sum over a channel.

**Shapes** is the arithmetic of shapes and strides. **Views** is a client of the
library's tensors on the CPU: a tensor is a storage, an offset, a shape and a stride,
as in `Tensor.hpp`, and `memory` holds the storages. `Slice`, `Select`, `Narrow`,
`Permute` and `Reshape` are the view functions of `slicing.cpp` and `shape_ops.cpp`
(transpose there is a permutation); all other actions are operations of `Tensor.cpp`
and `factory.cpp` with a storage of their own, which read `data()[k]` for
k = 0, 1, ... as the code does. Calls that throw change nothing and are no steps.
relu stands for the other activations; softmax and log_softmax subtract the sum of the
row for the sake of small numbers, so which elements are read is exact and what is
computed of them is not. The actions leave out a last dimension of length 0 for
softmax (`Tensor.cpp:382` divides by it), and `sum` of one dimension without keepdim
gives, as in the code, a tensor without elements.

**Arrays** is the abstract specification: arrays with cells for their indices, no
offsets or strides. A view makes an array of old cells; an operation one of new cells,
with the elements its definition says if its operands are dense, that is if their cells
lie one after another. `Views` implements it (`ImplementsArrays`). `Narrow` from a
negative start is mapped to the slice it makes. A transposed array may be a view or a
copy: the header of `Tensor` says one and the code does the other (section 6).

**Conv2d** has the kernels of a convolution as functions on blocks of memory, one per
`.cu` file, and `forward` and `backward` as the sequences of commands their code
issues: launches, uploads of zeros, copies through the null stream, additions on the
host, one synchronisation per sample. `cpu_conv2d` is the definition in
`Conv2dModule.cpp`. Stride, padding and dilation have a value for each axis. What the
threads of a block do inside a kernel is not repeated here: `GemmTiled` and
`ReduceSumAxis` model it; the Float32 col2im adds atomically, and integer additions
come to the same in any order. The blocks of one channel in `reduce_sum_axis` are: each
assigns its own sum, and which is the last is chosen when the kernel runs
(`LastBlocks`). **Device** runs such programs on host threads: each
thread's commands go into its stream, a stream executes in order, and nothing orders
different streams. `MemcpySync` is `cudaMemcpy` on the null stream, which waits for
that stream alone because the threads' streams are non-blocking; a copy to the device
from pageable memory takes its data and returns before the device has it.
`LaunchElementwise` queues in the stream that the library registered when it was
loaded, not the caller's. A block nobody has written holds `Garbage`, which spreads
through sums and products. Each thread works on blocks of its own. **MCTensors** puts
`Views` and `Device` side by side: they are the two backends of one class, which share
nothing, so a behaviour uses either.

**Loader** is the two dataset loaders on files of bytes; a file that makes the code
throw gives no result. **Training** composes it with the loops of `train_mlp`,
`train_cnn` and of a client that calls `zero_grad`, `forward`, `backward` and `step` as
`SGD.hpp` asks. Its `Pass` takes the result of a backward pass from `Autograd`: each
parameter that is used and requires a gradient gets the gradient of this batch at the
present parameters. `train_cnn` takes the first `MaxSamples` only, and `train_mlp` tests
once more after its epochs. A parameter's value is the sequence of its updates, so that
omitted, repeated or stale updates are visible. `OptimizerStep` is one iteration of
`SGD::step`: products with a tensor of shape {1} throw for every parameter of another
shape, and the difference that replaces the parameter requires no gradient.
`parameters()` lists the parameters of a module in any order, because its map is
unordered; a module's come after those of the one before it (`ParameterLists`).

**FusionIR** is the expression a kernel is generated from and the code generator's
text for it, over the constants `Text` and `Accepts` of `KernelCache`, which say what
text a kernel has and what the compiler takes. **KernelCache** is `compile_and_load` in
several processes: the test of the shared
object, the removal, the truncation and the writing of the source, the compiler's start
and end and the loading are separate steps; a call that finds no nvcc raises before any of
them. nvcc and dlopen are external: the compiler
reads the source when it starts and replaces the output, the loader gives back a
library the process has open. `Kill` ends a process and its compiler anywhere in a call.

## 4. Runs

| Run | Checks | Shows |
|---|---|---|
| `engine` | invariants of `Engine`, `GradWritesAreWhole`, `EveryPassEnds`, `KeepsPromise` | 192 graphs over two backward nodes and three accumulators, with null edges, double edges, direct and indirect routes and at most one faulty node; repeated passes from every backward node |
| `autograd` | `TypeOK`, `GraphFitsEngine`, `LeafGradIsDerivative` | expressions of up to three operations, toggles, writes, calls of `bump_version()` and passes in any order: the graphs meet the assumptions of the engine's theorems, and a pass that ends leaves exact derivatives in the leaves |
| `autograd_silent_writes` | `AppliesOnlyWhatWasSaved` (violated) | nothing tells a backward node that its operand was written through `data()` |
| `gemm` | type, product and race freedom of the tiled kernel, termination; `OptimizedIsDotProduct`, no deadlock | the tiled kernel, inside and at each edge of the matrix, K of one to three tiles; the double-buffered kernel for one and two |
| `gemm_three_tiles` | `ResultIsDotProduct` (violated) | with three tiles a fast thread overwrites the bank a slow one still reads |
| `reductions` | race freedom, row results, termination; `SumHasNoRace`, `SumIsChannelSum`, `SumFinishes` | softmax and layernorm, rows with fewer and with more columns than the block has threads; the sum over a channel of one block |
| `reduce_large` | `OutIsChannelSum` (violated) | several blocks per channel overwrite each other's partial sums |
| `tensors` | types, `ElementsInStorage`, `LinearReadsInStorage`, `ImplementsArrays`; `ForwardIsConvolution`, `BackwardIsDerivative`, no deadlock | on the CPU, views of views stay in their storage, even when operations ignore their strides, and on dense operands every operation is right; on the device, convolutions with padding, stride and dilation that differ between the axes, several samples and channels, alone and beside other work: the host's summation over samples needs its one synchronisation |
| `device_registered_stream` | `ElementwiseIsSum` (violated) | a thread that did not load the library reads a sum that another stream has yet to compute |
| `training` | `LoadedIsWhatFilesHold`, `EachSampleOncePerEpoch`, `FollowsGradientDescent`, `MlpGetsToTheEnd` | damaged files are refused; train_mlp follows gradient descent to its end, and what a client of SGD steps before an exception follows it too |
| `training_optimizer` | `OptimizerGetsToTheEnd` (violated) | after one `SGD::step` the next `backward()` throws |
| `fusion` | type, `NeverAnotherKernel`, `UndisturbedCallsReturnTheKernel`, `CompiledOnce`, no deadlock | what processes that share the cache may get of each other's files: the kernel, an error, or an empty library, never another kernel |

Each property of a passing run has a mutant in `PROJECT.json`: a plausible bug in one
definition under which the property fails.

Bounds. `engine`: the counts and buffers of different nodes meet only at shared
targets; five nodes are enough for a node with two and three in-edges, for a
shared leaf at different depths, and for the direct route and the route through an
accumulator to the same node. Partial derivatives are distinct primes, so different
sets of paths give different sums. Faults of different nodes do not meet: one that
throws ends the pass, and a dead accumulator only skips its own assignment.
`MaxTensors`, `MaxToggles`, `MaxWrites` (in-place writes and calls of `bump_version()`
together) and `MaxPasses` bound the client of `Autograd`; two passes are the least in which one meets what another left, and `OneExpression`
keeps programs connected. The bounds of `autograd` depend on each other (`Affordable`):
either two operations of any kind and one pass, or two of a few kinds with three calls
in between, or three of the few, so that routes past two intermediate tensors fork and
join. GEMM: a block of 2 x 2 threads has threads that share
a row, a column, and neither; three tiles are the least in which a bank is used
twice. Reductions: four threads give a tree of two levels; two warps of four lanes give
two shuffles, and lanes of warp 0 that have no warp to read.

`tensors`: `MaxTensors` of four is a storage, a reshape or view of it, a view of that and
an operation or a further view, which is where offsets and strides of several views add
up; up to three dimensions, of lengths one to three, negative indices in all but
the last view, and `MaxWrites` of one. On the device, two threads are the least in which streams are not ordered;
two samples the least in which `grad_weight` goes to the host and back; the geometries
are one per case of the index arithmetic, among them a window larger than the input
with a stride above one, where the quotient of a negative number rounds up to an
output; in each a parameter or a length differs between the axes, so that exchanging
them shows. `kBlock` is 4: one geometry has six elements in a channel, two blocks, where
`BackwardIsDerivative` claims nothing of the bias and `reduce_large` shows why. Two convolutions at once are the smallest there are, one beside an addition is
of two samples. A grid of at most two blocks of two threads for seven elements makes a
thread take several. `training`: images of 2 x 2 with every kind of damage to either
file; three samples in batches of two, so that the last is short; two epochs, the least
in which gradients of one could reach the next; modules of two parameters in both
orders. `MaxSamples` is 1, below the number of samples, as 1000 is below CIFAR's; no
step of train_cnn depends on it, because the program throws at its first batch.
`fusion`: two processes, three calls, one kind of them without an nvcc, and one kill: a caller, one that disturbs
it, and one that meets what the two left. Programs of `autograd` and `training` stop at
their bounds or throw, so deadlock is not checked there; so do those of `Views`, to which
`MCTensors` allows stopping anywhere.

`LeafGradIsDerivative` leaves out programs that use a tensor after
`requires_grad(false)` while it keeps its accumulator: the wirers record an edge to
it and it receives a gradient. Nothing in the repository says whether it should.

Fairness. `Engine` and `Autograd` assume weak fairness of the steps inside a pass,
because `execute` is a plain loop on the caller's thread; nothing is assumed of the
client. The kernels assume that a thread of a resident block that can go on does,
and that a barrier all threads have come to opens. `Training` assumes weak fairness of
its one sequential program. `GemmOptimized`, `Device` and `KernelCache` have no
fairness and no liveness property: deadlock is checked instead, with a stuttering step
once everything has ended. In the first two every other step brings a thread or a
queue nearer to its end, so that this amounts to termination.

## 5. Proofs

All theorems hold for every value of the constants that satisfies the assumptions
the modules name; a hypothesis beyond those is part of the theorem. Where an argument
would be an induction over data (along the edges of a graph, over the size of a
set), it takes a least or greatest member instead (`LeastMember`).

`EngineProofs` proves the five invariants of `Engine` under `ConstantsAssumption` (a
finite set of nodes) and `GraphsAssumption` (what the forward pass builds is acyclic
and a node returns a gradient for each edge). None of the five is inductive. `IInv`
adds: while counting, each count is
the number of in-edges the two loops have been over (`CountingInv`); while running,
a node is ready, queued or applied exactly when none of its in-edges is undelivered
(`RunningInv`). With that, a count that reaches zero queues a node which is neither
queued nor applied, and `DependenciesCorrect`, `AppliedCorrect` and
`ReadyQueueCorrect` follow. For `DoneCorrect` consider the nodes that were visited
but not applied when the queue is empty: if there are any, acyclicity gives one that
no other of them feeds, so all its in-edges are delivered and it was ready.

The same module proves that `Engine` implements `Promise!Safety` step by step
(`KeepsPromiseSafely`). `BufferInv` is what the mapping needs beyond `IInv`: the
buffer of a node is its seed and the sum of what has been delivered to it. A sum over a
finite set is a function on its subsets that loses a member's weight with the
member (`Additive`); `SumIsAdditive` shows that the library's fold is one. When
`ApplyNode` reads a buffer, all its in-edges are delivered, so that it is the chain
rule's sum over the nodes above; what a delivery or a failed one leaves is a stutter.

`AutogradProofs` proves of every program a client can write (`IInv`) that the nodes of
a tensor have edges to nodes of older tensors only, and an accumulator at most to the
backward node of its own tensor (`GraphInv`). With nodes ranked by age, and an
accumulator above the backward node of the same tensor, every edge goes down: no cycle
(`GraphsFit`). So the graphs meet the assumptions of the engine's theorems, which are
used here through an `INSTANCE` of their module, and every pass on every graph a
client can record applies each node once and completely (`PassIsComplete`).

`GradientsAreDerivatives` is what the whole of the library is for: a pass that ends has
put the derivative of its root into every leaf, whatever the client wrote and announced
before. It makes no assumption on writes. `LeafGradIsDerivative` exempts only the passes
that applied a node which cannot be right, an `Inexact` one (`Trusted`), and the programs
that use a tensor with requires_grad switched off. Two invariants deal with writes: an
element only grows, so that one which differs from the saved one never becomes equal
again (`SavedInv`), and what was overwritten unannounced when `backward()` was called is
what is while it runs (`NoticedInv`). If the pass applied a node then what it
saved was either not overwritten, or overwritten and announced, and unpack has thrown, or
the node is Inexact; so the nodes applied in a pass that ends are `Intact`. `DerivativeInv` has
three more parts. `ChainInv`: the tangent of a
tensor, computed in `Forward` from the definition of its operation, is the sum over its
node's edges of partial derivative times tangent, as long as the
node is Intact; this is where each wirer and each route past an intermediate tensor is
examined. `AdjointInv`, in the pass: weigh every buffered gradient, every one in hand
but not delivered, and every one that arrived at a leaf by the tangent of where it is;
the weighted sum over all nodes is at all times the tangent of the root. Applying a
node exchanges its buffer for gradients of the same weight, a delivery moves one
(`OneWeightChanges`, `WeightMoves`). When the pass ends nothing is left but what
arrived at the leaves (`SoleWeight`), because of `DoneCorrect`. `StartInv` and `GradInv`
link a pass to the client's state: every pass starts with empty buffers.

`GemmProofs` proves, for every tile width and shape, that the tiled kernel stores
the product (`ProductCorrect`) and has no race on shared memory (`RaceFree`). `IInv`
says that all threads are in one phase (loading, using or storing) of one tile, that
a thread's cells hold the current tile from its load to the end of the use, and
how many terms of its dot product each thread has. The second barrier is what makes
the first of these inductive.

It proves the same of the double-buffered kernel (`Opt`, an `INSTANCE` of
`GemmOptimized`) under the hypothesis
`AtMostTwoTiles`: then all threads are before the one barrier that matters (`Before`,
which says what each has loaded) or all behind it (`After`, which says how much each
has added up), and a bank is loaded once. With a third tile a bank is loaded again
without a barrier; `gemm_three_tiles` shows that the product may then be wrong, so the
hypothesis is the exact limit in tiles.

`ReduceSumAxisProofs`: all threads of a block are at the same width of the tree
(`LevelInv`), at which those that write are below the width and those that are read
above it (`RaceFree`, for any number of blocks). Under `OneBlock`, images of at most
`kBlock` elements, the cells below the width hold the elements equal to their index
modulo the width, once each (`SumInv`); at width one that is the sum (`SumCorrect`).
`reduce_large` refutes it for larger images.

`RowReduceProofs`: the barriers cut each kernel into five phases and all threads are in
the same (`PhaseInv`), for any number of warps and columns; no two kinds of access of
one phase meet in a cell (`RaceFree`). That every output uses the whole row
(`RowsCorrect`) rests on lemmas about the fold that defines a reduction: it may be taken
in any order (`CombinesAll`), over two disjoint sets one after the other
(`CombinesUnion`), and a maximum or a sum of bounded terms stays in its bounds. With
them `ResultInv` says what a thread holds in the butterfly of shuffles: after `l`
levels, the reduction over the columns of the `2 ^ l` lanes that differ from its own
in the low `l` bits (`Met`). `SharedInv` and `TotalsInv` carry this over the shared
cells to the block, `OutInv` to the output. `RowReduceAssumption` names the powers of two
that the butterfly uses, since the provers know none.

`ViewsProofs` takes shapes of any number of dimensions and any chain of calls. `Within` is
what is known of a tensor and its storage: the addresses of its indices are in the
storage and all different, and so are the `numel` places from its offset on. The second
part follows from the first, not from any property of strides: `numel` different
addresses that are all at or after the offset leave `numel` places after the offset
(`ReadsOfView`, a pigeonhole argument), and so a loop that ignores strides cannot leave
the storage of a slice or a permutation. For `slice`, `select` and `permute`
(`SliceWithin`, `SelectWithin`, `PermuteWithin`) every index of the view is mapped to an
index of the tensor it was made from, at the same address; permuting needs that the
position of an index, a fold over the dimensions, is a sum in which their order does not
matter (`PositionIsSum`). A result of its own is in row-major order, where numbering the
indices and finding the index of a number are inverse to each other (`NumberOfIndex`,
`IndexOfNumber`): lemmas on mixed-radix numbers that rest on how the library's folds
unwind (`FoldUnique`, `ProductUnfolds`, `PositionUnfolds`). `reshape` turns out to need
only the equal `numel` for this; that the tensor is contiguous matters for which
elements the view shows, which is `ImplementsArrays`. Each loop's index arithmetic
(`matmul`, `sum` over a dimension, rows of `softmax` and `layer_norm`, the copying
`transpose`) has a lemma of its own (`MatmulStep`, `SumStep`, ...). The lengths of
shapes are taken to be natural numbers (`ViewsAssumption`).

The same module proves that `Views` implements `Arrays` (`TensorsAreArrays`): what
an operation stores is what its definition asks for, at every index, for all shapes. The
mapping makes of a tensor the array of the places its indices have (`AsArrays`) and of
the storages the content of these places (`Contents`). `ViewsInv` is the only invariant
it needs. Each action of `Views` has a lemma that makes it an action of `Arrays`
(`SliceImplements`, `MatmulImplements`, ...), and there are three kinds:

* A view (`ViewArray`): every index of it has the place of an index of the tensor it was
  made from; the lemmas that kept it in the storage say of which. Here `reshape` needs
  that its operand is contiguous.
* A result (`FreshArray`): its cells are new, one for each index, and hold what the loop
  stores at the position of the index. What is left to show is that of dense operands
  the loop reads the elements the definition names (`ElementFacts`). For `sum`, `softmax`
  and `layer_norm` an index is cut into what comes before the reduced dimension, its
  index there and what comes behind (`CutPosition`); the position is then the arithmetic
  the loop does with `inner` and the length of the row (`RowIndex`, `RemovedIndex`).
  `arange` counts as many numbers as lie before its end (`CountIsCardinality`), and
  `mean` adds the same elements by number as by index (`SumByNumber`).
* A write (`ContentWritten`), which changes one cell, whoever shows it.

`KernelCacheProofs` takes any number of processes, calls and kills, any `Text` and any
`Accepts`. `TInv`: what lies under a key, as source or library, was written from that
key's text or is empty, and a library is partial only while its linker runs or after
a kill (`TypeCorrect`, `HandlesAreTheRightOnes`). To this `Undisturbed` adds, for each
key that was never in the hands of two calls or killed in one: at each point of the
call, what files its process may rely on (`Stage`); outside of a call, that the library
is absent or whole. `UndisturbedCallsSucceed` and `NvccIsSkipped` follow.

`TrainingProofs` takes any files, programs with any finite set of parameters in any
order, and any numbers of epochs and batch sizes; `TrainingAssumption` asks beyond this only
that the marks `None` and `Zero` differ and are no gradients. `DataInv`: what was loaded
has a natural number of samples, which for CIFAR is a sum over the files. `LoopInv`:
within an epoch `i` is `m` batches in and `steps` counts the batches of the epochs before
and these `m`; the batches so far are the samples up to `i`, or to the end when the last
batch is short (`BatchesCoverData`, `SamplesJoin`). Hence `SamplesCorrect`. `ParamInv`
distinguishes the parameters the step under way has been over (`Moved`): these have one
update more than the others, whose gradient at hand is the book's next one, although
it is cleared once per epoch only: `Pass` replaces it. Hence `DescentCorrect`. For the
clients of `SGD::step` it says also that a parameter loses its autograd meta with its
first update and that no second pass gets as far as a step, so that their progress, as
far as it goes, is by the book too.

`LoadedCorrect` is about the data itself, for every content of the files and any number
of them. `DataIsRead`, inductive on its own: what is loaded is what `load` made of the
directory. What `load_mnist` makes is `Faithful` because the two counts that agree have
the same four bytes (`DigitsAreUnique`). For CIFAR, `Layout(A, f, n)` says that `n`
pieces of `f[b]` elements lie one after the other, piece `b` behind `A[b - 1]` others;
the pieces do not overlap and leave no gap (`LayoutSeparates`, `LayoutFinds`). The bytes
of all files (`FlattenInOrder`), the labels and the pixels that `concat_into` copies
(`JoinedInOrder`) are three such layouts, with widths of a record, one and an image
(`LayoutScales`): so record `n` of all is record `m` of a file `b` in each of them
(`RecordFacts`), and within a file the three planes of a record are where
`parse_record` puts them (`BatchFacts`).

Only model-checked:

* Liveness, which is out of the prover's reach: `EveryPassEnds`, `BlockFinishes`,
  `MlpGetsToTheEnd`, the fairness of `KeepsPromise`; and deadlock freedom (`ENABLED`).
* `GradWritesAreWhole`: its reference is a sum over paths, a recursion over the graph.
  What it is about is proved in another form: `KeepsPromiseSafely` and
  `GradientsAreDerivatives`.
* `Device`: `ForwardIsConvolution` and `BackwardIsDerivative` compare memory with
  convolutions, which are nested folds; they and the type are also
  about programs of many commands, each of which would need an invariant of its own.


## 6. Disagreements found

* `cuda/kernels/gemm.cu:246`: no barrier between the use of a bank and the load of
  the tile after next into it; wrong products for K > 2 * kTile are possible.
* `cuda/kernels/reduce_sum_axis.cu:84`: every block of a channel assigns `out[c]`;
  images of more than 256 pixels lose all partial sums but one, in the gradient of a
  convolution's bias for instance.
* `autograd/SavedTensor.hpp:10-11` promises an error when a saved tensor was mutated;
  writes through `data()`, which is how `train_mlp.cpp:153-157` and `SGD.cpp:70` write, are
  not seen.
* `cuda/kernels/elementwise.cu:304-305` speaks of a periodic refresh of the current stream;
  there is one registration, while the library loads (line 328).
* `nn/optim/SGD.hpp:33-38` offers `step` and `zero_grad` for use in every iteration; the
  parameters `step()` leaves require no gradient any more (`SGD.cpp:54-56`), and the second
  `backward()` throws.

Shown by these runs. The rest was met while modelling and follows from the code as
quoted:

* `autograd/AccumulateGrad.hpp:16` promises that leaf sinks are scheduled last; the
  engine never reads `sequence_nr_`.
* `nn/optim/SGD.cpp:54-56`: every product is with a tensor of shape {1}, so `step()`
  throws for all parameters of another shape, after it has stepped those before.
* `examples/train_cnn.cpp:7-9` and 102 expect a failure in `backward()`. The program
  ends before: its convolutions have no padding and give 32 * 14 * 14 features, so
  `reshape` at line 97 throws.
* `examples/train_mlp.cpp:5` and `README.md:15` name lr = 0.1 and momentum 0.9; the
  loop steps by hand with lr = 0.05 and no momentum, as SGD cannot.
* `cuda/kernels/col2im.cu:8-10` says that additions are atomic; those of the
  half-precision kernel (line 112) are not.
* `tensor/Tensor.hpp:118-119` calls the result of `transpose` a view over the same storage;
  `Tensor.cpp:588-612` copies.
* `tensor/slicing.cpp:73`: `narrow` from a negative start that reaches the end throws or
  returns nothing.
* `tensor/Tensor.cpp:554`: `sum` of one dimension without keepdim writes its result past
  an empty storage.
* `cuda/kernels/elementwise.cu:200`: integer tensors on the device are added by nobody,
  and the result is what the allocator returned.
* `fusion/codegen.py:181`: `write_text` truncates a source another process may be
  compiling; an empty library then stays in the cache, although `codegen.py:90` says that
  what is returned has everything needed to invoke the kernel.
* `fusion/codegen.py:148` documents `arch` as the target; the library's name does not
  contain it (line 174), so one compiled for another target is a hit.
* `fusion/codegen.py:190`: a compiler that is killed leaves a truncated library in the
  cache, and every later call raises until one is forced.
* `ARCHITECTURE.md:120` on the release of storage: nothing calls
  `allocator_dispatch::free_storage`, so no storage is ever released.

## 7. Not modelled

The ownership of the graph (11 in the plan); half-precision and integer elements;
floating-point rounding (sums are exact); tensor shapes inside the autograd model; the
naive GEMM kernel (its threads share nothing); the release of device memory, which no
code of the library asks for; the replacement of a registered module; the loss and the
accuracy as numbers; the CPU allocator, which is one malloc per block; benchmarks,
scripts, `hello` and vendored headers.

Run a configuration with `tlc -config <run's cfg> <module>` and a proof with
`tlapm <module>.tla`.
