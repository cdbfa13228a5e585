------------------------------ MODULE Training ------------------------------
(***************************************************************************)
(* The training loops: examples/train_mlp.cpp, examples/train_cnn.cpp and  *)
(* the loop that nn/optim/SGD.hpp asks of its clients, over the loaders of *)
(* Loader, the parameters that nn/Module.cpp lists and nn/optim/SGD.cpp.   *)
(*                                                                         *)
(* A parameter's value is the sequence of the updates subtracted from it.  *)
(* An update is a sequence of gradients, the last of weight one and those  *)
(* before it decayed by the momentum; a gradient says of which parameter,  *)
(* over which samples and at which parameters it was taken.  What backward *)
(* computes is the subject of Autograd.                                    *)
(***************************************************************************)
EXTENDS Loader, FiniteSets, FiniteSetsExt

CONSTANTS
  Programs,     \* [kind, data, modules, used, wide, momentum]: see MCTraining
  Directories,  \* what the data directory may hold: [train, test]
  Epochs, BatchSize, EvalBatch,
  MaxSamples,   \* 1000 in train_cnn, a time budget
  None,         \* no gradient: a tensor with no elements
  Zero          \* a gradient that zero_grad() cleared

VARIABLES
  program, directory,
  parameters,      \* SGD::parameters_
  status,
  train, test,     \* the data sets, as sets of none or one
  epoch, i,        \* the loops of main; i is also the loop of eval_accuracy
  k,               \* the loop over the parameters
  value, grad, velocity,
  requires_grad,   \* does the parameter still have its autograd meta?
  steps,           \* history: the steps completed
  trained, tested  \* history: the samples used in this epoch

data == <<train, test>>
loop == <<epoch, i, k>>
params == <<value, grad, velocity, requires_grad>>
history == <<steps, trained, tested>>
vars == <<program, directory, parameters, status, data, loop, params, history>>

Param == DOMAIN grad

-----------------------------------------------------------------------------
(* Module::parameters lists every parameter once: the maps have no order   *)
(* of their own, a module comes after the one before it.                   *)

ParametersOf(modules) == UNION Range(modules)

Precedes(modules, p, q) ==
  \E m, n \in DOMAIN modules : m < n /\ p \in modules[m] /\ q \in modules[n]

ParameterLists(modules) ==
  LET P == ParametersOf(modules)
  IN {list \in Bijection(1..Cardinality(P), P) :
        \A a, b \in DOMAIN list : Precedes(modules, list[a], list[b]) => a < b}

(* What a gradient says: see above.                                        *)
Gradients(prog) ==
  [of : ParametersOf(prog.modules), samples : Seq(Nat), at : [prog.used -> Nat]]

Holds(split, kind) ==
  IF kind = "mnist" THEN split.images \in File /\ split.labels \in File
  ELSE split \in Seq(File)

ASSUME TrainingAssumption ==
  /\ Epochs \in Nat /\ BatchSize \in Nat \ {0} /\ EvalBatch \in Nat \ {0}
  /\ MaxSamples \in Nat
  /\ None # Zero
  /\ \A p \in Programs :
       /\ p.kind \in {"mlp", "cnn", "user"} /\ p.momentum \in BOOLEAN
       /\ IsFiniteSet(ParametersOf(p.modules)) /\ p.used \subseteq ParametersOf(p.modules)
       /\ \A mark \in {None, Zero} : mark \notin Gradients(p)
  /\ \A d \in Directories :
       d.kind \in {"mnist", "cifar"} /\ Holds(d.train, d.kind) /\ Holds(d.test, d.kind)

Init ==
  /\ program \in Programs /\ directory \in Directories
  /\ directory.kind = program.data
  /\ parameters \in ParameterLists(program.modules)
  /\ status = "loading" /\ train = {} /\ test = {}
  /\ epoch = 0 /\ i = 0 /\ k = 1
  /\ LET P == ParametersOf(program.modules)
     IN /\ value = [p \in P |-> <<>>]
        /\ grad = [p \in P |-> None]
        /\ velocity = [p \in P |-> <<>>]
        /\ requires_grad = [p \in P |-> TRUE]
  /\ steps = 0 /\ trained = <<>> /\ tested = <<>>

load(split) == IF program.data = "mnist" THEN load_mnist(split) ELSE load_cifar(split)

Load ==
  /\ status = "loading"
  /\ train' = load(directory.train) /\ test' = load(directory.test)
  /\ status' = IF {} \in {train', test'} THEN "threw" ELSE "epoch"
  /\ UNCHANGED <<program, directory, parameters, loop, params, history>>

-----------------------------------------------------------------------------

Count(split) == (CHOOSE d \in split : TRUE).count

(* How many samples an epoch trains on: train_cnn stops early.             *)
max_samples ==
  IF program.kind = "cnn" THEN Min({Count(train), MaxSamples}) ELSE Count(train)

(* SGD::zero_grad.                                                         *)
Cleared == [p \in Param |-> IF grad[p] = None THEN None ELSE Zero]

StartEpoch ==
  /\ status = "epoch" /\ epoch < Epochs
  /\ grad' = Cleared
  /\ i' = 0 /\ trained' = <<>> /\ tested' = <<>> /\ status' = "training"
  /\ UNCHANGED <<program, directory, parameters, data, epoch, k, value, velocity,
                 requires_grad, steps>>

WholeBatch(start, size, n) == start + size <= n

(* The condition of the loops over the samples.                            *)
More(start, size, n) == start < n

BatchEnd(start, size, n) == Min({start + size, n})

Samples(start, end) == [s \in 1..end - start |-> start + s]

(* The loss has a grad_fn when an operation recorded it: CrossEntropyLoss  *)
(* computes by hand, and nothing is recorded of parameters that require no *)
(* gradient.                                                               *)
Recorded == /\ program.kind # "cnn"
            /\ \E p \in program.used : requires_grad[p]

(* train_cnn flattens what its two convolutions make of an image of 32 x   *)
(* 32 to 32 * 7 * 7 features.                                              *)
Conv == INSTANCE Conv2d WITH Garbage <- None, kBlock <- 256

FeaturesFit ==
  program.kind = "cnn" =>
    LET side == Conv!OutSize(Conv!OutSize(32, 3, 1, 0, 1), 3, 2, 0, 1)
    IN 32 * side * side = 32 * 7 * 7

AddToGrad(old, new) == IF old \in {None, Zero} THEN new ELSE [new EXCEPT !.samples = old.samples \o @]

(* AccumulateGrad::apply.                                                  *)
ReplaceGrad(old, new) == new

(* forward() and backward() on the next batch.                             *)
Pass ==
  /\ status = "training" /\ More(i, BatchSize, max_samples)
  /\ LET end    == BatchEnd(i, BatchSize, max_samples)
         before == IF program.kind = "user" THEN Cleared ELSE grad
     IN IF ~FeaturesFit \/ ~Recorded
        THEN /\ status' = "threw"
             /\ grad' = before
             /\ UNCHANGED <<k, trained>>
        ELSE /\ status' = "stepping" /\ k' = 1
             /\ grad' = [p \in Param |->
                  IF p \in program.used /\ requires_grad[p]
                  THEN ReplaceGrad(before[p],
                         [of |-> p, samples |-> Samples(i, end),
                          at |-> [q \in program.used |-> Len(value[q])]])
                  ELSE before[p]]
             /\ trained' = trained \o Samples(i, end)
  /\ UNCHANGED <<program, directory, parameters, data, epoch, i, value, velocity,
                 requires_grad, steps, tested>>

Subtract(p, update) ==
  value' = IF \A j \in DOMAIN update : update[j] = Zero THEN value
           ELSE [value EXCEPT ![p] = Append(@, update)]

(* `p = p - ...` gives p the meta of a difference: none.                   *)
Rebound(meta) == FALSE

(* `pp[k] -= ...` leaves the tensor as it is.                              *)
InPlace(meta) == meta

(* manual_sgd_step, for the next parameter.                                *)
ManualStep ==
  /\ status = "stepping" /\ k <= Len(parameters) /\ program.kind = "mlp"
  /\ LET p == parameters[k]
     IN IF grad[p] = None THEN UNCHANGED <<value, requires_grad>>
        ELSE /\ Subtract(p, <<grad[p]>>)
             /\ requires_grad' = [requires_grad EXCEPT ![p] = InPlace(@)]
  /\ k' = k + 1
  /\ UNCHANGED <<program, directory, parameters, status, data, epoch, i, grad, velocity,
                 history>>

(* SGD::step, for the next parameter.  Every product is with a tensor of   *)
(* shape {1}: a parameter of another shape throws before it is touched.    *)
OptimizerStep ==
  /\ status = "stepping" /\ k <= Len(parameters) /\ program.kind # "mlp"
  /\ LET p == parameters[k]
     IN CASE grad[p] = None ->
               UNCHANGED <<status, params>> /\ k' = k + 1
          [] grad[p] # None /\ p \in program.wide ->
               status' = "threw" /\ UNCHANGED <<params, k>>
          [] OTHER ->
               LET update == IF program.momentum THEN Append(velocity[p], grad[p])
                                                 ELSE <<grad[p]>>
               IN /\ Subtract(p, update)
                  /\ velocity' = IF program.momentum
                                 THEN [velocity EXCEPT ![p] = update] ELSE velocity
                  /\ requires_grad' = [requires_grad EXCEPT ![p] = Rebound(@)]
                  /\ grad' = [grad EXCEPT ![p] = IF requires_grad'[p] THEN @ ELSE None]
                  /\ k' = k + 1 /\ UNCHANGED status
  /\ UNCHANGED <<program, directory, parameters, data, epoch, i, history>>

EndBatch ==
  /\ status = "stepping" /\ k > Len(parameters)
  /\ status' = "training" /\ i' = i + BatchSize /\ steps' = steps + 1
  /\ UNCHANGED <<program, directory, parameters, data, epoch, k, params, trained, tested>>

EndEpoch ==
  /\ status = "training" /\ ~More(i, BatchSize, max_samples)
  /\ IF program.kind = "mlp"
     THEN status' = "evaluating" /\ i' = 0 /\ UNCHANGED epoch
     ELSE status' = "epoch" /\ epoch' = epoch + 1 /\ UNCHANGED i
  /\ UNCHANGED <<program, directory, parameters, data, k, params, history>>

(* One batch of eval_accuracy, or its return, to the epoch or, from the    *)
(* last evaluation, to the end of main.                                    *)
Evaluate ==
  /\ status \in {"evaluating", "final"}
  /\ IF More(i, EvalBatch, Count(test))
     THEN LET end == BatchEnd(i, EvalBatch, Count(test))
          IN /\ tested' = tested \o Samples(i, end) /\ i' = i + EvalBatch
             /\ UNCHANGED <<status, epoch>>
     ELSE /\ IF status = "final" THEN status' = "done" /\ UNCHANGED epoch
                                ELSE status' = "epoch" /\ epoch' = epoch + 1
          /\ UNCHANGED <<tested, i>>
  /\ UNCHANGED <<program, directory, parameters, data, k, params, steps, trained>>

(* train_mlp tests once more.                                              *)
Finish ==
  /\ status = "epoch" /\ epoch = Epochs
  /\ IF program.kind = "mlp" THEN status' = "final" /\ i' = 0 /\ tested' = <<>>
                             ELSE status' = "done" /\ UNCHANGED <<i, tested>>
  /\ UNCHANGED <<program, directory, parameters, data, epoch, k, params, steps, trained>>

Next == \/ Load \/ StartEpoch \/ Pass \/ ManualStep \/ OptimizerStep \/ EndBatch
        \/ EndEpoch \/ Evaluate \/ Finish

Spec == Init /\ [][Next]_vars /\ WF_vars(Next)

-----------------------------------------------------------------------------

(* What a data set should be, by the bytes of its files.                   *)
WellFormed(d, split) ==
  IF program.data = "mnist"
  THEN /\ Len(d.labels) = d.count /\ Len(d.pixels) = d.count * Plane
       /\ SubSeq(split.images, 5, 8) = SubSeq(split.labels, 5, 8)
       /\ d.count = 256 * (256 * (256 * split.images[5] + split.images[6])
                             + split.images[7]) + split.images[8]
       /\ d.labels = SubSeq(split.labels, 9, 8 + d.count)
       /\ \A n \in 1..d.count * Plane : d.pixels[n] = <<1, split.images[16 + n]>>
  ELSE LET bytes == FlattenSeq(split)
       IN /\ Len(bytes) = d.count * RecordBytes
          /\ Len(d.labels) = d.count /\ Len(d.pixels) = d.count * 3 * Plane
          /\ \A n \in 1..d.count :
               LET record == SubSeq(bytes, (n - 1) * RecordBytes + 1, n * RecordBytes)
               IN /\ d.labels[n] = record[1]
                  /\ SubSeq(d.pixels, (n - 1) * 3 * Plane + 1, n * 3 * Plane) =
                       [e \in 1..3 * Plane |-> <<(e - 1) \div Plane + 1, record[e + 1]>>]

(* Data that was loaded is all of the files' data, every label beside the  *)
(* pixels of its own image, in range; files that are truncated, of another *)
(* format or of different lengths are refused.                             *)
(* (MnistLoader.cpp 30-150, CifarLoader.cpp 40-154)                        *)
LoadedIsWhatFilesHold ==
  status \notin {"loading", "threw"} =>
    \A s \in {<<train, directory.train>>, <<test, directory.test>>} :
      \A d \in s[1] : /\ WellFormed(d, s[2])
                      /\ \A n \in DOMAIN d.labels : d.labels[n] \in 0..9

(* An epoch trains on every sample of the data set once, in order, and     *)
(* tests on every one, also when the last batch is short, and so does the  *)
(* last evaluation; of train_cnn's data it takes the first MaxSamples.     *)
(* (train_mlp.cpp 85-104, 163-185, 195, train_cnn.cpp 83-93)               *)
EachSampleOncePerEpoch ==
  /\ status = "evaluating" => trained = Samples(0, max_samples)
  /\ status = "epoch" /\ epoch > 0 =>
       /\ trained = Samples(0, max_samples)
       /\ program.kind = "mlp" => tested = Samples(0, Count(test))
  /\ status = "done" /\ program.kind = "mlp" => tested = Samples(0, Count(test))

-----------------------------------------------------------------------------
(* Gradient descent by the book.                                           *)

BatchesPerEpoch == (max_samples + BatchSize - 1) \div BatchSize

BookGradient(p, j) ==
  LET start == ((j - 1) % BatchesPerEpoch) * BatchSize
  IN [of |-> p, samples |-> Samples(start, Min({start + BatchSize, max_samples})),
      at |-> [q \in program.used |-> j - 1]]

BookUpdate(p, j) ==
  IF program.momentum /\ program.kind # "mlp" THEN [m \in 1..j |-> BookGradient(p, m)]
  ELSE <<BookGradient(p, j)>>

(* Every parameter the model uses is where gradient descent over the       *)
(* batches so far puts it, at most one step ahead while a step is under    *)
(* way or when it threw half-way; the gradients are of this batch alone,   *)
(* though main clears them only once per epoch, and at the parameters of   *)
(* the last step.  A parameter forward() leaves out does not move.         *)
(* (train_mlp.cpp 145-175, SGD.cpp 35-73, AccumulateGrad.cpp 16-24)        *)
FollowsGradientDescent ==
  \A p \in Param :
    LET n == Len(value[p])
    IN IF p \notin program.used THEN n = 0
       ELSE /\ \A j \in 1..n : value[p][j] = BookUpdate(p, j)
            /\ n \in {steps, steps + 1}
            /\ status \notin {"stepping", "threw"} => n = steps

(* SGD.hpp 33-38: step() is to "update every parameter in-place using its  *)
(* current gradient", zero_grad() to be called "once per step, before      *)
(* backward()".  A client who does so, with parameters of one element,     *)
(* would get through its epochs, an update of every parameter for every    *)
(* batch.  But step() leaves tensors that require no gradient, and the     *)
(* next backward() throws.  (SGD.cpp 54-56, Tensor.cpp 153-168)            *)
OptimizerGetsToTheEnd ==
  (program.kind = "user" /\ program.wide = {} /\ status = "epoch")
    ~> /\ status = "done"
       /\ \A p \in program.used : Len(value[p]) = Epochs * BatchesPerEpoch

(* With files that can be read, train_mlp gets through all of its epochs.  *)
(* (train_mlp.cpp 109-199)                                                 *)
MlpGetsToTheEnd ==
  (program.kind = "mlp" /\ status = "epoch") ~> (status = "done" /\ epoch = Epochs)
=============================================================================
