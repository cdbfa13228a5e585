--------------------------- MODULE TrainingProofs ---------------------------
(***************************************************************************)
(* Proofs about Training, for every program, every content of the files,   *)
(* every number of epochs and every batch size.                            *)
(***************************************************************************)
EXTENDS Training, FiniteSetTheorems, WellFoundedInduction, TLAPS

Of == ParametersOf(program.modules)

Gradient == Gradients(program)

TypeInv ==
  /\ program \in Programs /\ directory \in Directories /\ directory.kind = program.data
  /\ parameters \in ParameterLists(program.modules)
  /\ status \in {"loading", "epoch", "training", "stepping", "evaluating", "final", "done", "threw"}
  /\ epoch \in 0..Epochs /\ i \in Nat /\ k \in Nat \ {0} /\ steps \in Nat
  /\ value \in [Of -> Seq(Seq(Gradient))]
  /\ grad \in [Of -> Gradient \cup {None, Zero}]
  /\ velocity \in [Of -> Seq(Gradient)]
  /\ requires_grad \in [Of -> BOOLEAN]

DataInv ==
  /\ train # {} => max_samples \in Nat
  /\ test # {} => Count(test) \in Nat
  /\ status \notin {"loading", "threw"} => train # {} /\ test # {}

(* Batch m of the epoch is the next one, or the one whose step is under    *)
(* way.                                                                    *)
InBatch(m) ==
  /\ i = m * BatchSize /\ steps = epoch * BatchesPerEpoch + m
  /\ status = "training" => trained = Samples(0, Min({i, max_samples}))
  /\ status = "stepping" =>
       m < BatchesPerEpoch /\ trained = Samples(0, Min({i + BatchSize, max_samples}))

LoopInv ==
  /\ status = "loading" => epoch = 0 /\ steps = 0
  /\ status = "epoch" => /\ steps = epoch * BatchesPerEpoch
                         /\ epoch > 0 => trained = Samples(0, max_samples)
                         /\ epoch > 0 /\ program.kind = "mlp" => tested = Samples(0, Count(test))
  /\ status \in {"training", "stepping"} =>
       epoch < Epochs /\ \E m \in 0..BatchesPerEpoch : InBatch(m)
  /\ status = "training" => tested = <<>>
  /\ status = "stepping" => tested = <<>>
  /\ status = "evaluating" =>
       /\ epoch < Epochs /\ steps = (epoch + 1) * BatchesPerEpoch
       /\ trained = Samples(0, max_samples)
       /\ tested = Samples(0, Min({i, Count(test)}))
  /\ status = "final" => /\ steps = Epochs * BatchesPerEpoch /\ program.kind = "mlp"
                         /\ tested = Samples(0, Min({i, Count(test)}))
  /\ status = "done" => /\ steps = Epochs * BatchesPerEpoch
                        /\ program.kind = "mlp" => tested = Samples(0, Count(test))

(* The step under way has been over p.                                     *)
Moved(p) == status = "stepping" /\ \E j \in 1..k - 1 : parameters[j] = p

Progress(p) ==
  IF status = "threw" THEN {steps, steps + 1}
  ELSE IF Moved(p) THEN {steps + 1} ELSE {steps}

UsedInv(p) ==
  /\ Len(value[p]) \in Progress(p)
  /\ \A j \in 1..Len(value[p]) : value[p][j] = BookUpdate(p, j)
  /\ status = "stepping" /\ ~Moved(p) =>
       grad[p] \in Gradient /\ grad[p] = BookGradient(p, steps + 1)
  /\ requires_grad[p] <=> (program.kind = "mlp" \/ Len(value[p]) = 0)
  /\ program.kind # "mlp" /\ Len(value[p]) = 0 => velocity[p] = <<>>

ParamInv ==
  /\ \A p \in Of \ program.used : grad[p] = None /\ Len(value[p]) = 0
  /\ \A p \in program.used : UsedInv(p)
  /\ program.kind # "mlp" => steps <= 1 /\ (status = "stepping" => steps = 0)

IInv == TypeInv /\ DataInv /\ LoopInv /\ ParamInv

-----------------------------------------------------------------------------
(* Arithmetic.                                                             *)

LEMMA Quotient ==
  ASSUME NEW a \in Nat, NEW b \in Nat \ {0}
  PROVE  /\ a \div b \in Nat /\ a % b \in Nat
         /\ a = b * (a \div b) + (a % b) /\ a % b < b
BY SMT

LEMMA ProductIsMonotone ==
  ASSUME NEW a \in Nat, NEW b \in Nat, NEW c \in Nat, a <= b
  PROVE  a * c <= b * c
<1>1. PICK d \in Nat : b = a + d
  <2>1. b = a + (b - a) /\ b - a \in Nat
    OBVIOUS
  <2> QED BY <2>1
<1>2. b * c = a * c + d * c /\ d * c \in Nat
  BY <1>1
<1> QED BY <1>2

LEMMA Remainder ==
  ASSUME NEW e \in Nat, NEW n \in Nat \ {0}, NEW m \in Nat, m < n
  PROVE  (e * n + m) % n = m /\ (e * n + m) \div n = e
<1> DEFINE a == e * n + m
           q == a \div n
<1>1. a \in Nat
  OBVIOUS
<1> HIDE DEF a
<1>2. q \in Nat /\ a % n \in Nat /\ a = n * q + (a % n) /\ a % n < n
  BY <1>1, Quotient
<1> HIDE DEF q
<1>3. e * n + m = q * n + (a % n)
  BY <1>2 DEF a
<1>4. ~(e < q)
  <2> SUFFICES ASSUME e + 1 <= q PROVE FALSE
    BY <1>2
  <2>1. (e + 1) * n <= q * n
    BY <1>2, ProductIsMonotone
  <2>2. (e + 1) * n = e * n + n
    OBVIOUS
  <2> QED BY <1>2, <1>3, <2>1, <2>2
<1>5. ~(q < e)
  <2> SUFFICES ASSUME q + 1 <= e PROVE FALSE
    BY <1>2
  <2>1. (q + 1) * n <= e * n
    BY <1>2, ProductIsMonotone
  <2>2. (q + 1) * n = q * n + n
    BY <1>2
  <2> QED BY <1>2, <1>3, <2>1, <2>2
<1>6. q = e
  BY <1>2, <1>4, <1>5
<1>7. a % n = m /\ q = e
  BY <1>2, <1>3, <1>6
<1> QED BY <1>7 DEF a, q

LEMMA BatchesCoverData ==
  ASSUME NEW c \in Nat, NEW n, n = (c + BatchSize - 1) \div BatchSize
  PROVE  /\ n \in Nat
         /\ \A m \in Nat : m < n <=> m * BatchSize < c
<1> DEFINE b == BatchSize
<1>1. b \in Nat \ {0}
  BY TrainingAssumption
<1>2. n = (c + b - 1) \div b /\ c + b - 1 \in Nat
  BY <1>1
<1> HIDE DEF b
<1>3. PICK r \in Nat : n \in Nat /\ c + b - 1 = b * n + r /\ r < b
  BY <1>1, <1>2, Quotient
<1>4. n * b = b * n /\ n * b \in Nat
  BY <1>1, <1>3
<1>5. ASSUME NEW m \in Nat, m < n PROVE m * b < c
  <2>1. (m + 1) * b <= n * b
    BY <1>1, <1>3, <1>5, ProductIsMonotone
  <2>2. (m + 1) * b = m * b + b /\ m * b \in Nat
    BY <1>1
  <2> QED BY <1>1, <1>3, <1>4, <2>1, <2>2
<1>6. ASSUME NEW m \in Nat, n <= m PROVE ~(m * b < c)
  <2>1. n * b <= m * b
    BY <1>1, <1>3, <1>6, ProductIsMonotone
  <2>2. m * b \in Nat
    BY <1>1
  <2> QED BY <1>1, <1>3, <1>4, <2>1, <2>2
<1>7. n \in Nat /\ \A m \in Nat : m < n <=> m * b < c
  BY <1>3, <1>5, <1>6
<1> QED BY <1>7 DEF b

LEMMA Minimum ==
  ASSUME NEW a \in Int, NEW b \in Int
  PROVE  Min({a, b}) = IF a <= b THEN a ELSE b
<1> DEFINE m == IF a <= b THEN a ELSE b
           IsLeast(x) == x \in {a, b} /\ \A y \in {a, b} : x <= y
<1>1. IsLeast(m) /\ \A x : IsLeast(x) => x = m
  OBVIOUS
<1> QED BY <1>1 DEF Min

LEMMA SecondPart ==
  ASSUME NEW p \in Seq(Nat), NEW q \in Seq(Nat), NEW s \in 1..Len(p) + Len(q), Len(p) < s
  PROVE  (p \o q)[s] = q[s - Len(p)]
OBVIOUS

LEMMA SamplesJoin ==
  ASSUME NEW a \in Nat, NEW b \in Nat, a <= b
  PROVE  Samples(0, a) \o Samples(a, b) = Samples(0, b)
<1>1. /\ Samples(0, a) = [s \in 1..a |-> s] /\ Samples(0, a) \in Seq(Nat)
      /\ Len(Samples(0, a)) = a
  BY DEF Samples
<1>2. /\ Samples(a, b) = [s \in 1..b - a |-> a + s] /\ Samples(a, b) \in Seq(Nat)
      /\ Len(Samples(a, b)) = b - a
  BY DEF Samples
<1>3. Samples(0, b) = [s \in 1..b |-> s]
  BY DEF Samples
<1> DEFINE joined == Samples(0, a) \o Samples(a, b)
<1> HIDE DEF Samples
<1>4. DOMAIN joined = 1..b /\ joined \in Seq(Nat)
  BY <1>1, <1>2
<1>5. \A s \in 1..b : joined[s] = s
  <2> SUFFICES ASSUME NEW s \in 1..b PROVE joined[s] = s
    OBVIOUS
  <2>1. CASE s <= a
    BY <1>1, <1>2, <2>1
  <2>2. CASE ~(s <= a)
    <3>1. s - a \in 1..b - a /\ a + (s - a) = s
      BY <2>2
    <3>2. joined[s] = Samples(a, b)[s - a]
      <4>1. s \in 1..Len(Samples(0, a)) + Len(Samples(a, b)) /\ Len(Samples(0, a)) < s
        BY <1>1, <1>2, <2>2
      <4>2. Samples(0, a) \in Seq(Nat) /\ Samples(a, b) \in Seq(Nat)
        BY <1>1, <1>2
      <4>3. joined[s] = Samples(a, b)[s - Len(Samples(0, a))]
        BY ONLY <4>1, <4>2, SecondPart
      <4> QED BY <1>1, <4>3
    <3> QED BY <1>2, <3>1, <3>2
  <2> QED BY <2>1, <2>2
<1>6. joined = [s \in 1..b |-> joined[s]]
  <2> HIDE DEF joined
  <2> QED BY <1>4
<1> HIDE DEF joined
<1>7. [s \in 1..b |-> joined[s]] = [s \in 1..b |-> s]
  BY <1>5
<1> QED BY <1>3, <1>6, <1>7 DEF joined

LEMMA SamplesType ==
  ASSUME NEW a \in Nat, NEW b \in Nat, a <= b
  PROVE  Samples(a, b) \in Seq(Nat)
BY DEF Samples

LEMMA NoSamples == Samples(0, 0) = <<>>
BY DEF Samples

-----------------------------------------------------------------------------
(* The data that the loaders give has a number of samples.                 *)

LEMMA LeastMember ==
  ASSUME NEW T \in SUBSET Nat, T # {}
  PROVE  \E x \in T : \A y \in T : x <= y
<1> DEFINE R == OpToRel(<, Nat)
<1>1. PICK x \in T : \A y \in T : ~(<<y, x>> \in R)
  <2>1. IsWellFoundedOn(R, Nat)
    BY NatLessThanWellFounded
  <2> HIDE DEF R
  <2> QED BY <2>1, WFMin
<1>2. \A y \in T : ~(y < x)
  BY <1>1 DEF OpToRel
<1> QED BY <1>2

(* f[x] pairs for each x in s: there are as many as the sum of f over s.   *)
Pairs(f, s) == UNION {{x} \X (1..f[x]) : x \in s}

LEMMA PairsCount ==
  ASSUME NEW S, IsFiniteSet(S), NEW f \in [S -> Nat], NEW s \in SUBSET S
  PROVE  /\ IsFiniteSet(Pairs(f, s)) /\ Cardinality(Pairs(f, s)) \in Nat
         /\ Pairs(f, {}) = {}
         /\ \A x \in s : Cardinality(Pairs(f, s)) = f[x] + Cardinality(Pairs(f, s \ {x}))
<1>1. ASSUME NEW x \in S
      PROVE  IsFiniteSet({x} \X (1..f[x])) /\ Cardinality({x} \X (1..f[x])) = f[x]
  <2>1. f[x] \in Nat
    OBVIOUS
  <2>2. IsFiniteSet(1..f[x]) /\ Cardinality(1..f[x]) = f[x]
    BY <2>1, FS_Interval
  <2>3. IsFiniteSet({x}) /\ Cardinality({x}) = 1
    BY FS_Singleton
  <2>4. /\ IsFiniteSet({x} \X (1..f[x]))
        /\ Cardinality({x} \X (1..f[x])) = Cardinality({x}) * Cardinality(1..f[x])
    BY <2>2, <2>3, FS_Product
  <2> QED BY <2>1, <2>2, <2>3, <2>4
<1>2. ASSUME NEW r \in SUBSET S PROVE IsFiniteSet(Pairs(f, r))
  <2> DEFINE g == [x \in r |-> {x} \X (1..f[x])]
             T == {{x} \X (1..f[x]) : x \in r}
  <2>1. g \in Surjection(r, T)
    BY DEF Surjection
  <2>2. IsFiniteSet(r)
    BY FS_Subset
  <2>3. IsFiniteSet(T)
    <3> HIDE DEF g, T
    <3> QED BY <2>1, <2>2, FS_Surjection
  <2>4. \A p \in T : IsFiniteSet(p)
    BY <1>1
  <2>5. IsFiniteSet(UNION T)
    <3> HIDE DEF T
    <3> QED BY <2>3, <2>4, FS_UNION
  <2> QED BY <2>5 DEF Pairs
<1>3. ASSUME NEW x \in s
      PROVE  Cardinality(Pairs(f, s)) = f[x] + Cardinality(Pairs(f, s \ {x}))
  <2> DEFINE a == {x} \X (1..f[x])
             b == Pairs(f, s \ {x})
  <2>1. /\ Pairs(f, s) = a \cup b
        /\ a \cap b = {}
    BY DEF Pairs
  <2>2. IsFiniteSet(a) /\ Cardinality(a) = f[x]
    BY <1>1
  <2>3. s \ {x} \in SUBSET S
    OBVIOUS
  <2>4. IsFiniteSet(b)
    BY <1>2, <2>3
  <2>5. f[x] \in Nat
    OBVIOUS
  <2> HIDE DEF a, b
  <2>6. Cardinality(b) \in Nat
    BY <2>4, FS_CardinalityType
  <2>7. Cardinality(a \cup b) = Cardinality(a) + Cardinality(b) - Cardinality({})
    BY <2>1, <2>2, <2>4, FS_Union
  <2>8. Cardinality(Pairs(f, s)) = f[x] + Cardinality(b)
    BY <2>1, <2>2, <2>5, <2>6, <2>7, FS_EmptySet
  <2> QED BY <2>8 DEF b
<1>4. Pairs(f, {}) = {}
  BY DEF Pairs
<1> QED BY <1>2, <1>3, <1>4, FS_CardinalityType

LEMMA SumCounts ==
  ASSUME NEW T, IsFiniteSet(T), NEW f \in [T -> Nat], NEW S \in SUBSET T
  PROVE  SumFunctionOnSet(f, S) = Cardinality(Pairs(f, S))
<1> DEFINE Pick(s) == CHOOSE x \in s : TRUE
           Body(g) == [s \in SUBSET S |->
             IF s = {} THEN 0 ELSE f[Pick(s)] + g[s \ {Pick(s)}]]
           iter == CHOOSE g : g = Body(g)
           F == [s \in SUBSET S |-> Cardinality(Pairs(f, s))]
           Bad == {s \in SUBSET S : iter[s] # F[s]}
           Sizes == {Cardinality(s) : s \in Bad}
<1>0. IsFiniteSet(S)
  BY FS_Subset
<1>1. SumFunctionOnSet(f, S) = iter[S]
  BY DEF SumFunctionOnSet, FoldFunctionOnSet, MapThenFoldSet
<1>2. \A s \in SUBSET S : s # {} => Pick(s) \in s /\ s \ {Pick(s)} \in SUBSET S
  OBVIOUS
<1> HIDE DEF Pick
<1>3. ASSUME NEW s \in SUBSET S PROVE F[s] = Body(F)[s]
  <2>1. CASE s = {}
    BY <2>1, PairsCount, FS_EmptySet
  <2>2. CASE s # {}
    <3>1. F[s] = f[Pick(s)] + Cardinality(Pairs(f, s \ {Pick(s)}))
      BY <1>2, <2>2, PairsCount
    <3> QED BY <1>2, <2>2, <3>1
  <2> QED BY <2>1, <2>2
<1>4. F = Body(F)
  BY <1>3
<1>5. iter = Body(iter)
  BY <1>4
<1> HIDE DEF iter
<1>6. ASSUME NEW s \in SUBSET S PROVE IsFiniteSet(s) /\ Cardinality(s) \in Nat
  BY <1>0, FS_Subset, FS_CardinalityType
<1>7. Bad = {}
  <2> SUFFICES ASSUME Bad # {} PROVE FALSE
    OBVIOUS
  <2>1. Sizes # {} /\ Sizes \subseteq Nat
    BY <1>6
  <2>2. PICK m \in Sizes : \A n \in Sizes : m <= n
    <3> HIDE DEF Sizes
    <3> QED BY <2>1, LeastMember
  <2>3. PICK s \in Bad : Cardinality(s) = m
    OBVIOUS
  <2>4. s # {}
    BY <1>4, <1>5, <2>3
  <2> DEFINE r == s \ {Pick(s)}
  <2>5. Pick(s) \in s /\ r \in SUBSET S
    BY <1>2, <2>4
  <2>6. Cardinality(r) = Cardinality(s) - 1
    BY <1>6, <2>5, FS_RemoveElement
  <2>7. r \notin Bad
    <3>1. Cardinality(s) \in Nat /\ Cardinality(r) \in Nat
      BY <1>6, <2>5
    <3>2. ~(Cardinality(r) \in Sizes)
      BY <2>2, <2>3, <2>6, <3>1
    <3> QED BY <3>2
  <2>8. iter[r] = F[r]
    BY <2>5, <2>7
  <2>9. iter[s] = f[Pick(s)] + iter[r] /\ F[s] = f[Pick(s)] + F[r]
    BY <1>4, <1>5, <2>4, <2>5
  <2>10. iter[s] # F[s]
    BY <2>3
  <2> QED BY <2>8, <2>9, <2>10
<1>8. iter[S] = F[S]
  BY <1>7
<1> QED BY <1>1, <1>8

LEMMA SumIsNatural ==
  ASSUME NEW S, IsFiniteSet(S), NEW f \in [S -> Nat]
  PROVE  SumFunction(f) \in Nat
<1>1. DOMAIN f = S /\ S \in SUBSET S
  OBVIOUS
<1>2. SumFunctionOnSet(f, S) = Cardinality(Pairs(f, S))
  BY <1>1, SumCounts
<1> QED BY <1>1, <1>2, PairsCount DEF SumFunction

LEMMA SequenceIsFunction ==
  ASSUME NEW S, NEW q \in Seq(S)
  PROVE  Len(q) \in Nat /\ q \in [1..Len(q) -> S]
OBVIOUS

LEMMA MnistCount ==
  ASSUME NEW split, Holds(split, "mnist"), NEW d \in load_mnist(split)
  PROVE  d.count \in Nat
<1> DEFINE images == split.images
<1>1. PICK both \in read_idx_images(images) \X read_idx_labels(split.labels) :
        d = [count |-> both[1].count, pixels |-> both[1].pixels, labels |-> both[2]]
  BY DEF load_mnist
<1>2. both[1] \in read_idx_images(images)
  BY <1>1
<1>3. images # NoFile /\ ~(Len(images) < 16) /\ both[1].count = read_be_u32(images, 4)
  BY <1>2 DEF read_idx_images
<1>4. images \in Seq(0..255)
  BY <1>3 DEF Holds, File
<1> HIDE DEF images
<1>5. images \in [1..Len(images) -> 0..255] /\ \A b \in 5..8 : b \in 1..Len(images)
  <2>1. Len(images) \in Nat /\ images \in [1..Len(images) -> 0..255]
    BY <1>4, SequenceIsFunction
  <2>2. 16 <= Len(images)
    BY <1>3, <2>1
  <2> QED BY <2>1, <2>2
<1>6. images[4 + 1] \in Nat /\ images[4 + 2] \in Nat /\ images[4 + 3] \in Nat /\ images[4 + 4] \in Nat
  <2>1. \A b \in 5..8 : images[b] \in 0..255
    BY <1>5
  <2> QED BY <2>1
<1>7. read_be_u32(images, 4) \in Nat
  BY <1>6 DEF read_be_u32
<1> QED BY <1>1, <1>3, <1>7

LEMMA CifarCount ==
  ASSUME NEW files, Holds(files, "cifar"), NEW d \in load_cifar(files)
  PROVE  d.count \in Nat
<1> DEFINE batches == [b \in DOMAIN files |-> read_batch_file(files[b])]
           chosen == [b \in DOMAIN files |-> CHOOSE r \in batches[b] : TRUE]
           counts == [b \in DOMAIN chosen |-> chosen[b].count]
<1>1. files \in Seq(File) /\ DOMAIN files = 1..Len(files) /\ Len(files) \in Nat
  BY DEF Holds
<1>2. d = concat_into(chosen) /\ \A b \in DOMAIN files : batches[b] # {}
  BY DEF load_cifar
<1>3. ASSUME NEW b \in DOMAIN files PROVE chosen[b].count \in Nat
  <2> DEFINE n == Len(files[b]) \div RecordBytes
  <2>1. files[b] \in File /\ chosen[b] \in read_batch_file(files[b])
    BY <1>1, <1>2
  <2>2. files[b] # NoFile /\ chosen[b] = parse_records(files[b], n)
    BY <2>1 DEF read_batch_file
  <2>3. Len(files[b]) \in Nat
    BY <2>1, <2>2 DEF File
  <2>4. RecordBytes \in Nat \ {0}
    BY LoaderAssumption DEF RecordBytes, Plane
  <2>5. n \in Nat
    BY <2>3, <2>4, Quotient
  <2>6. parse_records(files[b], n).count = n
    BY DEF parse_records
  <2> HIDE DEF chosen, n
  <2> QED BY <2>2, <2>5, <2>6
<1>4. counts \in [DOMAIN files -> Nat]
  BY <1>3
<1>5. IsFiniteSet(DOMAIN files)
  BY <1>1, FS_Interval
<1>6. d.count = SumFunction(counts)
  BY <1>2 DEF concat_into
<1> HIDE DEF counts
<1> QED BY <1>4, <1>5, <1>6, SumIsNatural

LEMMA LoadedCount ==
  ASSUME program \in Programs, directory \in Directories, directory.kind = program.data,
         NEW split \in {directory.train, directory.test}, load(split) # {}
  PROVE  Count(load(split)) \in Nat
<1>1. Holds(split, directory.kind) /\ directory.kind \in {"mnist", "cifar"}
  BY TrainingAssumption
<1>2. \A d \in load(split) : d.count \in Nat
  BY <1>1, MnistCount, CifarCount DEF load
<1> QED BY <1>2 DEF Count

-----------------------------------------------------------------------------
(* What no step after Load changes.                                        *)

Fixed == UNCHANGED <<program, directory, parameters, data>>

LEMMA FixedValues ==
  ASSUME Fixed
  PROVE  /\ Of' = Of /\ Gradient' = Gradient
         /\ max_samples' = max_samples /\ Count(test)' = Count(test)
         /\ BatchesPerEpoch' = BatchesPerEpoch
         /\ \A p, j : BookUpdate(p, j)' = BookUpdate(p, j)
         /\ \A p, j : BookGradient(p, j)' = BookGradient(p, j)
BY DEF Fixed, data, Of, Gradient, Count, max_samples, BatchesPerEpoch, BookUpdate, BookGradient

LEMMA CappedCount ==
  ASSUME NEW n \in Nat
  PROVE  Min({n, MaxSamples}) \in Nat
BY Minimum, TrainingAssumption

LEMMA FixedData ==
  ASSUME IInv, Fixed, status \notin {"loading", "threw"}
  PROVE  DataInv'
BY FixedValues DEF IInv, DataInv, Fixed, data

LEMMA Batches ==
  ASSUME DataInv, train # {}
  PROVE  /\ max_samples \in Nat /\ BatchesPerEpoch \in Nat
         /\ \A m \in Nat : m < BatchesPerEpoch <=> m * BatchSize < max_samples
<1>1. max_samples \in Nat
  BY DEF DataInv
<1> QED BY <1>1, BatchesCoverData DEF BatchesPerEpoch

LEMMA Listed ==
  ASSUME TypeInv
  PROVE  /\ Len(parameters) \in Nat
         /\ \A j \in 1..Len(parameters) : parameters[j] \in Of
         /\ \A a, b \in 1..Len(parameters) : parameters[a] = parameters[b] => a = b
         /\ \A p \in Of : \E j \in 1..Len(parameters) : parameters[j] = p
<1> DEFINE n == Cardinality(Of)
<1>1. parameters \in Bijection(1..n, Of)
  BY DEF TypeInv, ParameterLists, Of
<1>2. n \in Nat
  BY TrainingAssumption, FS_CardinalityType DEF TypeInv, Of
<1> HIDE DEF n
<1>3. /\ parameters \in [1..n -> Of]
      /\ \A a, b \in 1..n : parameters[a] = parameters[b] => a = b
      /\ \A p \in Of : \E j \in 1..n : parameters[j] = p
  BY <1>1 DEF Bijection, Injection, Surjection, IsInjective
<1>4. Len(parameters) = n
  BY <1>2, <1>3
<1> QED BY <1>2, <1>3, <1>4

LEMMA StepMoves ==
  ASSUME TypeInv, status = "stepping", k <= Len(parameters),
         status' = "stepping", k' = k + 1, Fixed
  PROVE  /\ parameters[k] \in Of /\ ~Moved(parameters[k])
         /\ \A q : Moved(q)' <=> Moved(q) \/ q = parameters[k]
<1>1. k \in 1..Len(parameters)
  BY Listed DEF TypeInv
<1>2. ~Moved(parameters[k])
  BY <1>1, Listed DEF Moved, TypeInv
<1>3. \A q : (\E j \in 1..k' - 1 : parameters'[j] = q)
                <=> (\E j \in 1..k - 1 : parameters[j] = q) \/ q = parameters[k]
  BY DEF Fixed, TypeInv
<1> QED BY <1>1, <1>2, <1>3, Listed DEF Moved

LEMMA UsedIsOf ==
  ASSUME TypeInv
  PROVE  /\ program.used \subseteq Of /\ Param = Of
         /\ program.kind \in {"mlp", "cnn", "user"} /\ program.momentum \in BOOLEAN
         /\ None \notin Gradient /\ Zero \notin Gradient /\ None # Zero
BY TrainingAssumption DEF TypeInv, Param, Of, Gradient

-----------------------------------------------------------------------------

LEMMA InitIInv == Init => IInv
<1> SUFFICES ASSUME Init PROVE IInv
  OBVIOUS
<1>1. TypeInv
  BY TrainingAssumption DEF Init, TypeInv, Of
<1>2. DataInv
  BY DEF Init, DataInv
<1>3. LoopInv
  BY DEF Init, LoopInv
<1>4. ParamInv
  BY <1>1, UsedIsOf DEF Init, ParamInv, UsedInv, Progress, Moved, Of
<1> QED BY <1>1, <1>2, <1>3, <1>4 DEF IInv

LEMMA LoadIInv ==
  ASSUME IInv, Load
  PROVE  IInv'
<1>1. Of' = Of /\ Gradient' = Gradient
  BY DEF Load, Of, Gradient
<1>2. TypeInv'
  BY <1>1 DEF Load, IInv, TypeInv, loop, params, history
<1>3. DataInv'
  <2>1. /\ (train # {} => Count(train) \in Nat)' /\ (test # {} => Count(test) \in Nat)'
        /\ (status \notin {"loading", "threw"} => train # {} /\ test # {})'
    BY LoadedCount DEF Load, IInv, TypeInv, DataInv
  <2> QED BY <2>1, CappedCount DEF DataInv, max_samples
<1>4. LoopInv'
  <2>1. epoch' = 0 /\ steps' = 0 /\ status' \in {"threw", "epoch"}
    BY DEF Load, IInv, LoopInv, loop, history
  <2>2. status' = "epoch" => (max_samples \in Nat)'
    BY <1>3 DEF DataInv
  <2>3. status' = "epoch" => BatchesPerEpoch' \in Nat
    BY <2>2, BatchesCoverData DEF BatchesPerEpoch
  <2> QED BY <2>1, <2>3 DEF LoopInv
<1>5. ParamInv'
  <2>1. steps = 0 /\ steps' = 0 /\ UNCHANGED <<program, params>>
        /\ status' \in {"threw", "epoch"} /\ status = "loading"
    BY DEF Load, IInv, LoopInv, history
  <2>2. ASSUME NEW p \in program.used PROVE UsedInv(p)'
    <3>1. UsedInv(p)
      BY DEF IInv, ParamInv
    <3>2. Len(value[p]) = 0
      BY <2>1, <3>1 DEF UsedInv, Progress, Moved
    <3>3. Len(value'[p]) = 0
      BY <2>1, <3>2 DEF params
    <3> QED BY <2>1, <3>1, <3>3 DEF UsedInv, Progress, Moved, params
  <2> QED BY <1>1, <2>1, <2>2 DEF IInv, ParamInv, params
<1> QED BY <1>2, <1>3, <1>4, <1>5 DEF IInv
-----------------------------------------------------------------------------
(* Between the steps of the optimizer.                                     *)

LEMMA QuietParams ==
  ASSUME IInv, Fixed, UNCHANGED <<value, velocity, requires_grad, steps>>,
         status \notin {"stepping", "threw"}, status' \notin {"stepping", "threw"},
         \A p \in Of \ program.used : grad'[p] = None
  PROVE  ParamInv'
<1>1. ASSUME NEW p \in program.used PROVE UsedInv(p)'
  <2>1. UsedInv(p)
    BY DEF IInv, ParamInv
  <2> QED BY <2>1, FixedValues DEF UsedInv, Progress, Moved, Fixed
<1> QED BY <1>1, FixedValues DEF IInv, ParamInv, Fixed

LEMMA StartEpochIInv ==
  ASSUME IInv, StartEpoch
  PROVE  IInv'
<1>1. Fixed /\ status = "epoch" /\ status' = "training" /\ epoch' = epoch /\ epoch < Epochs
      /\ i' = 0 /\ steps' = steps /\ trained' = <<>> /\ tested' = <<>> /\ grad' = Cleared
      /\ k' = k /\ UNCHANGED <<value, velocity, requires_grad>>
  BY DEF StartEpoch, Fixed
<1>2. TypeInv'
  BY <1>1, FixedValues, UsedIsOf DEF IInv, TypeInv, Cleared, Fixed
<1>3. DataInv'
  BY <1>1, FixedData
<1>4. LoopInv'
  <2>1. max_samples \in Nat /\ BatchesPerEpoch \in Nat
    BY <1>1, Batches DEF IInv, DataInv
  <2>2. steps = epoch * BatchesPerEpoch + 0 /\ 0 * BatchSize = 0
    BY <1>1, <2>1, TrainingAssumption DEF IInv, TypeInv, LoopInv
  <2>3. Min({0, max_samples}) = 0
    BY <2>1, Minimum
  <2>4. InBatch(0)'
    BY <1>1, <2>2, <2>3, FixedValues, NoSamples DEF InBatch
  <2>5. \E m \in 0..BatchesPerEpoch' : InBatch(m)'
    BY <1>1, <2>1, <2>4, FixedValues
  <2> QED BY <1>1, <2>5 DEF LoopInv
<1>5. ParamInv'
  <2>1. \A p \in Of \ program.used : grad'[p] = None
    BY <1>1, UsedIsOf DEF IInv, ParamInv, Cleared
  <2> QED BY <1>1, <2>1, QuietParams
<1> QED BY <1>2, <1>3, <1>4, <1>5 DEF IInv

LEMMA EndEpochIInv ==
  ASSUME IInv, EndEpoch
  PROVE  IInv'
<1>1. /\ Fixed /\ status = "training" /\ UNCHANGED <<k, params, steps, trained, tested>>
      /\ ~(i < max_samples)
      /\ \/ /\ program.kind = "mlp" /\ status' = "evaluating" /\ i' = 0 /\ epoch' = epoch
         \/ /\ program.kind # "mlp" /\ status' = "epoch" /\ i' = i /\ epoch' = epoch + 1
  BY DEF EndEpoch, Fixed, More, history
<1>2. epoch < Epochs /\ epoch \in Nat /\ i \in Nat /\ BatchSize \in Nat \ {0} /\ Epochs \in Nat
  BY <1>1, TrainingAssumption DEF IInv, LoopInv, TypeInv
<1>3. TypeInv'
  BY <1>1, <1>2, FixedValues DEF IInv, TypeInv, Fixed, params
<1>4. DataInv'
  BY <1>1, FixedData
<1>5. LoopInv'
  <2>1. /\ max_samples \in Nat /\ BatchesPerEpoch \in Nat /\ Count(test) \in Nat
        /\ \A m \in Nat : m < BatchesPerEpoch <=> m * BatchSize < max_samples
    BY <1>1, Batches DEF IInv, DataInv
  <2>2. PICK m \in 0..BatchesPerEpoch : InBatch(m)
    BY <1>1 DEF IInv, LoopInv
  <2>3. m \in Nat /\ ~(m * BatchSize < max_samples)
    BY <1>1, <2>1, <2>2 DEF InBatch
  <2>4. m = BatchesPerEpoch
    BY <2>1, <2>2, <2>3
  <2>5. steps = epoch * BatchesPerEpoch + BatchesPerEpoch
    BY <2>2, <2>4 DEF InBatch
  <2>6. steps = (epoch + 1) * BatchesPerEpoch
    BY <1>2, <2>1, <2>5
  <2>7. trained = Samples(0, max_samples)
    <3>1. Min({i, max_samples}) = max_samples
      BY <1>1, <1>2, <2>1, Minimum
    <3> QED BY <1>1, <2>2, <3>1 DEF InBatch
  <2>8. tested = Samples(0, Min({0, Count(test)}))
    <3>1. Min({0, Count(test)}) = 0
      BY <2>1, Minimum
    <3> QED BY <1>1, <3>1, NoSamples DEF IInv, LoopInv
  <2> QED BY <1>1, <1>2, <2>6, <2>7, <2>8, FixedValues DEF LoopInv, Fixed
<1>6. ParamInv'
  BY <1>1, QuietParams DEF IInv, ParamInv, params
<1> QED BY <1>3, <1>4, <1>5, <1>6 DEF IInv

LEMMA EvaluateIInv ==
  ASSUME IInv, Evaluate
  PROVE  IInv'
<1> DEFINE c == Count(test)
           end == BatchEnd(i, EvalBatch, c)
<1>1. /\ Fixed /\ status \in {"evaluating", "final"} /\ UNCHANGED <<k, params, steps, trained>>
      /\ \/ /\ i < c /\ status' = status /\ epoch' = epoch
            /\ tested' = tested \o Samples(i, end) /\ i' = i + EvalBatch
         \/ /\ ~(i < c) /\ tested' = tested /\ i' = i
            /\ \/ status = "evaluating" /\ status' = "epoch" /\ epoch' = epoch + 1
               \/ status = "final" /\ status' = "done" /\ epoch' = epoch
  BY DEF Evaluate, Fixed, More
<1>2. /\ status = "evaluating" => epoch < Epochs
      /\ epoch \in Nat /\ Epochs \in Nat /\ i \in Nat
      /\ EvalBatch \in Nat \ {0} /\ c \in Nat
  BY <1>1, TrainingAssumption DEF IInv, LoopInv, TypeInv, DataInv
<1>3. TypeInv'
  BY <1>1, <1>2, FixedValues DEF IInv, TypeInv, Fixed, params
<1>4. DataInv'
  BY <1>1, FixedData
<1>5. LoopInv'
  <2>1. c' = c /\ tested = Samples(0, Min({i, c}))
    BY <1>1, FixedValues DEF IInv, LoopInv
  <2>2. CASE i < c
    <3>1. Min({i, c}) = i /\ end = Min({i + EvalBatch, c})
      BY <1>2, <2>2, Minimum DEF BatchEnd
    <3>2. end \in Nat /\ i <= end
      BY <1>2, <2>2, <3>1, Minimum
    <3>3. tested' = Samples(0, end)
      <4> HIDE DEF end, c
      <4> QED BY <1>1, <1>2, <2>1, <2>2, <3>1, <3>2, SamplesJoin
    <3>4. tested' = Samples(0, Min({i', c'}))
      BY <1>1, <2>1, <2>2, <3>1, <3>3
    <3> QED BY <1>1, <2>2, <3>4, FixedValues DEF IInv, LoopInv, Fixed
  <2>3. CASE ~(i < c)
    <3>1. Min({i, c}) = c
      BY <1>2, <2>3, Minimum
    <3> QED BY <1>1, <1>2, <2>1, <2>3, <3>1, FixedValues DEF IInv, LoopInv, Fixed
  <2> QED BY <2>2, <2>3
<1>6. ParamInv'
  BY <1>1, QuietParams DEF IInv, ParamInv, params
<1> QED BY <1>3, <1>4, <1>5, <1>6 DEF IInv

LEMMA FinishIInv ==
  ASSUME IInv, Finish
  PROVE  IInv'
<1>1. /\ Fixed /\ status = "epoch" /\ epoch = Epochs
      /\ \/ program.kind = "mlp" /\ status' = "final" /\ i' = 0 /\ tested' = <<>>
         \/ program.kind # "mlp" /\ status' = "done" /\ i' = i /\ tested' = tested
      /\ UNCHANGED <<epoch, k, params, steps, trained>>
  BY DEF Finish, Fixed
<1>2. TypeInv'
  BY <1>1, FixedValues DEF IInv, TypeInv, Fixed, params
<1>3. DataInv'
  BY <1>1, FixedData
<1>4. LoopInv'
  <2>1. <<>> = Samples(0, Min({0, Count(test)}))
    <3>1. Count(test) \in Nat
      BY <1>1 DEF IInv, DataInv
    <3>2. Min({0, Count(test)}) = 0
      BY <3>1, Minimum
    <3> QED BY <3>2, NoSamples
  <2> QED BY <1>1, <2>1, FixedValues DEF IInv, LoopInv, Fixed
<1>5. ParamInv'
  BY <1>1, QuietParams DEF IInv, ParamInv, params
<1> QED BY <1>2, <1>3, <1>4, <1>5 DEF IInv

-----------------------------------------------------------------------------
(* A batch.                                                                *)

Before == IF program.kind = "user" THEN Cleared ELSE grad

LEMMA BeforeType ==
  ASSUME IInv
  PROVE  /\ Before \in [Of -> Gradient \cup {None, Zero}]
         /\ \A p \in Of \ program.used : Before[p] = None
BY UsedIsOf DEF IInv, TypeInv, ParamInv, Before, Cleared

LEMMA PassThrowsIInv ==
  ASSUME IInv, Fixed, status = "training", status' = "threw", grad' = Before,
         UNCHANGED <<k, trained, epoch, i, value, velocity, requires_grad, steps, tested>>
  PROVE  IInv'
<1>1. TypeInv'
  BY BeforeType, FixedValues DEF IInv, TypeInv, Fixed
<1>2. DataInv'
  BY FixedData
<1>3. LoopInv'
  BY DEF LoopInv
<1>4. ASSUME NEW p \in program.used PROVE UsedInv(p)'
  <2>1. UsedInv(p)
    BY DEF IInv, ParamInv
  <2> QED BY <2>1, FixedValues DEF UsedInv, Progress, Moved, Fixed, IInv, TypeInv
<1>5. ParamInv'
  BY <1>4, BeforeType, FixedValues DEF IInv, ParamInv, Fixed
<1> QED BY <1>1, <1>2, <1>3, <1>5 DEF IInv

(* The batch that Pass computes the gradients of is the next one of the    *)
(* epoch.                                                                  *)
LEMMA BatchAtHand ==
  ASSUME IInv, status = "training", i < max_samples
  PROVE  \E m \in Nat :
           /\ m < BatchesPerEpoch /\ InBatch(m)
           /\ steps % BatchesPerEpoch = m
           /\ Min({i, max_samples}) = i
           /\ BatchEnd(i, BatchSize, max_samples) = Min({i + BatchSize, max_samples})
           /\ BatchEnd(i, BatchSize, max_samples) \in Nat
           /\ i <= BatchEnd(i, BatchSize, max_samples)
<1>1. /\ max_samples \in Nat /\ BatchesPerEpoch \in Nat
      /\ \A m \in Nat : m < BatchesPerEpoch <=> m * BatchSize < max_samples
  BY Batches DEF IInv, DataInv
<1>2. i \in Nat /\ BatchSize \in Nat \ {0} /\ epoch \in Nat /\ steps \in Nat
  BY TrainingAssumption DEF IInv, TypeInv
<1>3. PICK m \in 0..BatchesPerEpoch : InBatch(m)
  BY DEF IInv, LoopInv
<1>4. m \in Nat /\ m < BatchesPerEpoch
  BY <1>1, <1>3 DEF InBatch
<1>5. steps % BatchesPerEpoch = m
  <2>1. steps = epoch * BatchesPerEpoch + m
    BY <1>3 DEF InBatch
  <2>2. BatchesPerEpoch \in Nat \ {0}
    BY <1>1, <1>4
  <2> QED BY <1>2, <1>4, <2>1, <2>2, Remainder
<1>6. Min({i, max_samples}) = i
  BY <1>1, <1>2, Minimum
<1>7. /\ BatchEnd(i, BatchSize, max_samples) = Min({i + BatchSize, max_samples})
      /\ BatchEnd(i, BatchSize, max_samples) \in Nat
      /\ i <= BatchEnd(i, BatchSize, max_samples)
  BY <1>1, <1>2, Minimum DEF BatchEnd
<1> QED BY <1>3, <1>4, <1>5, <1>6, <1>7

NewGradient(p) ==
  [of |-> p, samples |-> Samples(i, BatchEnd(i, BatchSize, max_samples)),
   at |-> [q \in program.used |-> Len(value[q])]]

LEMMA PassStepsIInv ==
  ASSUME IInv, Fixed, status = "training", i < max_samples, Recorded, status' = "stepping",
         k' = 1, grad' = [p \in Param |-> IF p \in program.used /\ requires_grad[p]
                                          THEN NewGradient(p) ELSE Before[p]],
         trained' = trained \o Samples(i, BatchEnd(i, BatchSize, max_samples)),
         UNCHANGED <<epoch, i, value, velocity, requires_grad, steps, tested>>
  PROVE  IInv'
<1> DEFINE end == BatchEnd(i, BatchSize, max_samples)
<1>1. PICK m \in Nat :
        /\ m < BatchesPerEpoch /\ InBatch(m) /\ steps % BatchesPerEpoch = m
        /\ Min({i, max_samples}) = i
        /\ end = Min({i + BatchSize, max_samples}) /\ end \in Nat /\ i <= end
  BY BatchAtHand
<1>2. steps \in Nat /\ i \in Nat
  BY DEF IInv, TypeInv
<1>3. ASSUME NEW p \in program.used PROVE UsedInv(p) /\ Len(value[p]) = steps
  BY <1>3 DEF IInv, ParamInv, UsedInv, Progress, Moved
<1>4. program.kind # "mlp" => steps = 0
  <2>1. PICK p \in program.used : requires_grad[p]
    BY DEF Recorded
  <2> QED BY <1>3, <2>1 DEF UsedInv
<1>5. \A p \in program.used : requires_grad[p]
  BY <1>3, <1>4 DEF UsedInv
<1>6. ASSUME NEW p \in program.used
      PROVE  NewGradient(p) \in Gradient /\ NewGradient(p) = BookGradient(p, steps + 1)
  <2>1. Samples(i, end) \in Seq(Nat)
    <3> HIDE DEF end
    <3> QED BY <1>1, <1>2, SamplesType
  <2>2. /\ [q \in program.used |-> Len(value[q])] \in [program.used -> Nat]
        /\ [q \in program.used |-> Len(value[q])] = [q \in program.used |-> steps]
    BY <1>2, <1>3
  <2>3. p \in ParametersOf(program.modules)
    BY UsedIsOf DEF IInv, Of
  <2>4. ((steps + 1) - 1) = steps
    BY <1>2
  <2>5. (((steps + 1) - 1) % BatchesPerEpoch) * BatchSize = i
    BY <1>1, <2>4 DEF InBatch
  <2>6. NewGradient(p) = BookGradient(p, steps + 1)
    BY <1>1, <2>2, <2>4, <2>5 DEF NewGradient, BookGradient
  <2> QED BY <2>1, <2>2, <2>3, <2>6 DEF NewGradient, Gradient, Gradients
<1>7. \A p \in program.used : p \in Of /\ grad'[p] = NewGradient(p)
  BY <1>5, UsedIsOf DEF IInv
<1>8. TypeInv'
  <2>1. grad' \in [Of -> Gradient \cup {None, Zero}]
    BY <1>6, BeforeType, UsedIsOf DEF IInv
  <2> QED BY <2>1, FixedValues DEF IInv, TypeInv, Fixed
<1>9. DataInv'
  BY FixedData
<1>10. LoopInv'
  <2>1. epoch < Epochs /\ tested = <<>> /\ BatchesPerEpoch \in Nat
    BY Batches DEF IInv, LoopInv, DataInv
  <2>2. trained' = Samples(0, end)
    <3>1. trained = Samples(0, i)
      BY <1>1 DEF InBatch
    <3> HIDE DEF end
    <3> QED BY <1>1, <1>2, <3>1, SamplesJoin DEF end
  <2>3. InBatch(m)'
    BY <1>1, <2>2, FixedValues DEF InBatch
  <2>4. \E b \in 0..BatchesPerEpoch' : InBatch(b)'
    BY <1>1, <2>1, <2>3, FixedValues
  <2> QED BY <2>1, <2>4 DEF LoopInv
<1>11. ParamInv'
  <2>1. ASSUME NEW p \in program.used PROVE UsedInv(p)'
    <3>1. (grad[p] \in Gradient /\ grad[p] = BookGradient(p, steps + 1))'
      BY <1>6, <1>7, FixedValues
    <3>2. ~Moved(p)'
      BY DEF Moved
    <3> QED BY <1>3, <3>1, <3>2, FixedValues DEF UsedInv, Progress, Fixed
  <2>2. \A p \in Of \ program.used : grad'[p] = None
    BY BeforeType, UsedIsOf DEF IInv
  <2> QED BY <1>4, <2>1, <2>2, FixedValues DEF IInv, ParamInv, Fixed
<1> QED BY <1>8, <1>9, <1>10, <1>11 DEF IInv

LEMMA PassIInv ==
  ASSUME IInv, Pass
  PROVE  IInv'
<1>1. /\ Fixed /\ status = "training" /\ i < max_samples
      /\ UNCHANGED <<epoch, i, value, velocity, requires_grad, steps, tested>>
  BY DEF Pass, Fixed, More
<1>2. CASE ~FeaturesFit \/ ~Recorded
  BY <1>1, <1>2, PassThrowsIInv DEF Pass, Before
<1>3. CASE ~(~FeaturesFit \/ ~Recorded)
  <2>1. /\ status' = "stepping" /\ k' = 1
        /\ grad' = [p \in Param |-> IF p \in program.used /\ requires_grad[p]
                                    THEN NewGradient(p) ELSE Before[p]]
        /\ trained' = trained \o Samples(i, BatchEnd(i, BatchSize, max_samples))
    BY <1>3 DEF Pass, ReplaceGrad, NewGradient, Before
  <2> QED BY <1>1, <1>3, <2>1, PassStepsIInv
<1> QED BY <1>2, <1>3

-----------------------------------------------------------------------------
(* The optimizer's step, parameter by parameter.                           *)

LEMMA StepLoop ==
  ASSUME IInv, Fixed, status = "stepping", status' \in {"stepping", "threw"},
         UNCHANGED <<epoch, i, steps, trained, tested>>
  PROVE  DataInv' /\ LoopInv'
<1>1. DataInv'
  BY FixedData
<1>2. \A m : InBatch(m) => InBatch(m)'
  BY FixedValues DEF InBatch
<1> QED BY <1>1, <1>2, FixedValues DEF IInv, LoopInv

(* The next parameter has no gradient, and is left as it is.               *)
LEMMA SkipParam ==
  ASSUME IInv, Fixed, status = "stepping", status' = "stepping", k <= Len(parameters),
         k' = k + 1, parameters[k] \notin program.used, UNCHANGED <<params, steps>>
  PROVE  ParamInv'
<1>1. \A p \in program.used : Moved(p)' <=> Moved(p)
  BY StepMoves DEF IInv
<1>2. ASSUME NEW p \in program.used PROVE UsedInv(p)'
  <2>1. UsedInv(p)
    BY DEF IInv, ParamInv
  <2>2. Moved(p)' <=> Moved(p)
    BY <1>1
  <2> QED BY <2>1, <2>2, FixedValues DEF UsedInv, Progress, Fixed, params
<1> QED BY <1>2, FixedValues DEF IInv, ParamInv, Fixed, params

(* The next parameter has one, and moves as the book says.                 *)
LEMMA UpdateParam ==
  ASSUME IInv, Fixed, status = "stepping", status' = "stepping", k <= Len(parameters),
         k' = k + 1, steps' = steps, NEW p \in program.used, p = parameters[k],
         value' = [value EXCEPT ![p] = Append(value[p], BookUpdate(p, steps + 1))],
         requires_grad'[p] <=> program.kind = "mlp",
         \A q \in Of \ {p} : /\ grad'[q] = grad[q] /\ velocity'[q] = velocity[q]
                             /\ requires_grad'[q] = requires_grad[q]
  PROVE  ParamInv'
<1>1. /\ ~Moved(p) /\ UsedInv(p) /\ Len(value[p]) = steps /\ steps \in Nat
      /\ value[p] \in Seq(Seq(Gradient)) /\ p \in DOMAIN value
  <2>1. ~Moved(p) /\ UsedInv(p)
    BY StepMoves DEF IInv, ParamInv
  <2>2. p \in Of /\ value \in [Of -> Seq(Seq(Gradient))] /\ steps \in Nat
    BY UsedIsOf DEF IInv, TypeInv
  <2> QED BY <2>1, <2>2 DEF UsedInv, Progress
<1>2. /\ Len(value'[p]) = steps + 1
      /\ \A j \in 1..steps : value'[p][j] = value[p][j]
      /\ value'[p][steps + 1] = BookUpdate(p, steps + 1)
  <2>1. value'[p] = Append(value[p], BookUpdate(p, steps + 1))
    BY <1>1
  <2> QED BY <1>1, <2>1
<1>3. Moved(p)' /\ \A q \in program.used \ {p} : Moved(q)' <=> Moved(q)
  BY StepMoves DEF IInv
<1>4. UsedInv(p)'
  <2>1. \A j \in 1..steps + 1 : value'[p][j] = BookUpdate(p, j)
    <3> SUFFICES ASSUME NEW j \in 1..steps + 1 PROVE value'[p][j] = BookUpdate(p, j)
      OBVIOUS
    <3>1. CASE j = steps + 1
      BY <1>2, <3>1
    <3>2. CASE j # steps + 1
      <4>1. j \in 1..steps
        BY <1>1, <3>2
      <4> QED BY <1>1, <1>2, <4>1 DEF UsedInv
    <3> QED BY <3>1, <3>2
  <2>2. \A j \in 1..steps + 1 : (value[p][j] = BookUpdate(p, j))'
    <3> SUFFICES ASSUME NEW j \in 1..steps + 1 PROVE (value[p][j] = BookUpdate(p, j))'
      OBVIOUS
    <3>1. value'[p][j] = BookUpdate(p, j)
      BY <2>1
    <3>2. BookUpdate(p, j)' = BookUpdate(p, j)
      BY FixedValues
    <3> QED BY <3>1, <3>2
  <2>3. steps + 1 # 0
    BY <1>1
  <2> QED BY <1>2, <1>3, <2>2, <2>3 DEF UsedInv, Progress, Fixed
<1>5. ASSUME NEW q \in program.used \ {p} PROVE UsedInv(q)'
  <2>1. UsedInv(q)
    BY DEF IInv, ParamInv
  <2>2. q \in Of /\ value'[q] = value[q]
    BY UsedIsOf DEF IInv, TypeInv
  <2>3. Moved(q)' <=> Moved(q)
    BY <1>3
  <2> QED BY <2>1, <2>2, <2>3, FixedValues DEF UsedInv, Progress, Fixed
<1>6. \A q \in Of \ program.used : grad'[q] = None /\ Len(value'[q]) = 0
  BY DEF IInv, ParamInv, TypeInv
<1> QED BY <1>4, <1>5, <1>6, FixedValues DEF IInv, ParamInv, Fixed

(* A gradient of the batch at hand, and what the two steps make of it.     *)
LEMMA GradientAtHand ==
  ASSUME IInv, Fixed, status = "stepping", k <= Len(parameters), k \in Nat \ {0}
  PROVE  LET p == parameters[k]
         IN /\ p \in Of
            /\ p \notin program.used => grad[p] = None
            /\ p \in program.used => /\ grad[p] \in Gradient /\ grad[p] # None /\ grad[p] # Zero
                                     /\ grad[p] = BookGradient(p, steps + 1)
<1> DEFINE p == parameters[k]
<1>1. p \in Of
  BY Listed DEF IInv
<1>2. p \notin program.used => grad[p] = None
  BY <1>1 DEF IInv, ParamInv
<1>3. ASSUME p \in program.used
      PROVE  grad[p] \in Gradient /\ grad[p] = BookGradient(p, steps + 1)
  <2>1. k \in 1..Len(parameters)
    BY Listed DEF IInv
  <2>2. ~Moved(p)
    BY <2>1, Listed DEF Moved, IInv
  <2> QED BY <1>3, <2>2 DEF IInv, ParamInv, UsedInv
<1> QED BY <1>1, <1>2, <1>3, UsedIsOf DEF IInv

LEMMA ManualStepIInv ==
  ASSUME IInv, ManualStep
  PROVE  IInv'
<1> DEFINE p == parameters[k]
<1>1. /\ Fixed /\ status = "stepping" /\ status' = "stepping" /\ k <= Len(parameters)
      /\ k' = k + 1 /\ program.kind = "mlp"
      /\ UNCHANGED <<epoch, i, grad, velocity, steps, trained, tested>>
      /\ \/ grad[p] = None /\ UNCHANGED <<value, requires_grad>>
         \/ /\ grad[p] # None /\ Subtract(p, <<grad[p]>>)
            /\ requires_grad' = [requires_grad EXCEPT ![p] = requires_grad[p]]
  BY DEF ManualStep, Fixed, history, InPlace
<1>2. k \in Nat \ {0} /\ p \in Of /\ requires_grad \in [Of -> BOOLEAN]
  BY <1>1, GradientAtHand DEF IInv, TypeInv
<1>3. requires_grad' = requires_grad
  BY <1>1, <1>2
<1>4. CASE p \notin program.used
  <2>1. grad[p] = None
    BY <1>1, <1>2, <1>4, GradientAtHand
  <2>2. UNCHANGED params
    BY <1>1, <2>1 DEF params
  <2>3. ParamInv'
    BY <1>1, <1>4, <2>2, SkipParam
  <2>4. TypeInv'
    BY <1>1, <1>2, <2>2, FixedValues DEF IInv, TypeInv, Fixed, params
  <2> QED BY <1>1, <2>3, <2>4, StepLoop DEF IInv
<1>5. CASE p \in program.used
  <2>1. /\ grad[p] \in Gradient /\ grad[p] # None /\ grad[p] # Zero
        /\ grad[p] = BookGradient(p, steps + 1)
    BY <1>1, <1>2, <1>5, GradientAtHand
  <2>2. BookUpdate(p, steps + 1) = <<grad[p]>>
    BY <1>1, <2>1 DEF BookUpdate
  <2>3. value' = [value EXCEPT ![p] = Append(value[p], <<grad[p]>>)]
    BY <1>1, <2>1 DEF Subtract
  <2>4. value' \in [Of -> Seq(Seq(Gradient))]
    <3>1. <<grad[p]>> \in Seq(Gradient) /\ value[p] \in Seq(Seq(Gradient))
      BY <1>2, <2>1 DEF IInv, TypeInv
    <3>2. Append(value[p], <<grad[p]>>) \in Seq(Seq(Gradient))
      BY <3>1
    <3> QED BY <1>2, <2>3, <3>2 DEF IInv, TypeInv
  <2>5. requires_grad'[p]
    BY <1>1, <1>3, <1>5 DEF IInv, ParamInv, UsedInv
  <2>6. ParamInv'
    BY <1>1, <1>3, <1>5, <2>2, <2>3, <2>5, UpdateParam
  <2>7. TypeInv'
    BY <1>1, <1>2, <1>3, <2>4, FixedValues DEF IInv, TypeInv, Fixed
  <2> QED BY <1>1, <2>6, <2>7, StepLoop DEF IInv
<1> QED BY <1>4, <1>5

LEMMA OptimizerStepIInv ==
  ASSUME IInv, OptimizerStep
  PROVE  IInv'
<1> DEFINE p == parameters[k]
           update == IF program.momentum THEN Append(velocity[p], grad[p]) ELSE <<grad[p]>>
<1>1. /\ Fixed /\ status = "stepping" /\ k <= Len(parameters) /\ program.kind # "mlp"
      /\ UNCHANGED <<epoch, i, steps, trained, tested>>
  BY DEF OptimizerStep, Fixed, history
<1>2. \/ grad[p] = None /\ UNCHANGED <<status, params>> /\ k' = k + 1
      \/ grad[p] # None /\ status' = "threw" /\ UNCHANGED <<params, k>>
      \/ /\ grad[p] # None /\ Subtract(p, update)
         /\ velocity' = IF program.momentum THEN [velocity EXCEPT ![p] = update] ELSE velocity
         /\ requires_grad' = [requires_grad EXCEPT ![p] = FALSE]
         /\ grad' = [grad EXCEPT ![p] = IF requires_grad'[p] THEN grad[p] ELSE None]
         /\ k' = k + 1 /\ status' = status
  BY DEF OptimizerStep, Rebound
<1>3. k \in Nat \ {0} /\ p \in Of /\ requires_grad \in [Of -> BOOLEAN] /\ steps = 0
      /\ grad \in [Of -> Gradient \cup {None, Zero}] /\ velocity \in [Of -> Seq(Gradient)]
      /\ value \in [Of -> Seq(Seq(Gradient))]
  BY <1>1, GradientAtHand DEF IInv, TypeInv, ParamInv
<1>4. CASE grad[p] = None /\ UNCHANGED <<status, params>> /\ k' = k + 1
  <2>1. p \notin program.used
    BY <1>1, <1>3, <1>4, GradientAtHand
  <2>2. ParamInv'
    BY <1>1, <1>4, <2>1, SkipParam
  <2>3. TypeInv'
    BY <1>1, <1>3, <1>4, FixedValues DEF IInv, TypeInv, Fixed, params
  <2> QED BY <1>1, <1>4, <2>2, <2>3, StepLoop DEF IInv
<1>5. CASE grad[p] # None /\ status' = "threw" /\ UNCHANGED <<params, k>>
  <2>1. ASSUME NEW q \in program.used PROVE UsedInv(q)'
    <3>1. UsedInv(q)
      BY DEF IInv, ParamInv
    <3> QED BY <1>1, <1>3, <1>5, <3>1, FixedValues DEF UsedInv, Progress, Moved, Fixed, params
  <2>2. ParamInv'
    BY <1>1, <1>5, <2>1, FixedValues DEF IInv, ParamInv, Fixed, params
  <2>3. TypeInv'
    BY <1>1, <1>5, FixedValues DEF IInv, TypeInv, Fixed, params
  <2> QED BY <1>1, <1>5, <2>2, <2>3, StepLoop DEF IInv
<1>6. CASE /\ grad[p] # None /\ Subtract(p, update)
           /\ velocity' = IF program.momentum THEN [velocity EXCEPT ![p] = update] ELSE velocity
           /\ requires_grad' = [requires_grad EXCEPT ![p] = FALSE]
           /\ grad' = [grad EXCEPT ![p] = IF requires_grad'[p] THEN grad[p] ELSE None]
           /\ k' = k + 1 /\ status' = status
  <2>1. /\ p \in program.used /\ grad[p] \in Gradient /\ grad[p] # Zero
        /\ grad[p] = BookGradient(p, steps + 1)
    BY <1>1, <1>3, <1>6, GradientAtHand
  <2>2. velocity[p] = <<>>
    <3>1. UsedInv(p)
      BY <2>1 DEF IInv, ParamInv
    <3>2. ~Moved(p)
      BY <1>1, <1>6, StepMoves DEF IInv
    <3>3. Len(value[p]) = 0
      BY <1>1, <1>3, <3>1, <3>2 DEF UsedInv, Progress
    <3> QED BY <1>1, <3>1, <3>3 DEF UsedInv
  <2>3. update = <<grad[p]>>
    BY <2>2
  <2>4. BookUpdate(p, steps + 1) = <<grad[p]>>
    <3>1. [m \in 1..1 |-> BookGradient(p, m)] = <<BookGradient(p, 1)>>
      OBVIOUS
    <3> QED BY <1>1, <1>3, <2>1, <3>1 DEF BookUpdate
  <2>5. value' = [value EXCEPT ![p] = Append(value[p], <<grad[p]>>)]
    <3>1. Subtract(p, <<grad[p]>>)
      <4> HIDE DEF update
      <4> QED BY <1>6, <2>3
    <3>2. <<grad[p]>>[1] # Zero /\ 1 \in DOMAIN <<grad[p]>>
      BY <2>1
    <3> QED BY <3>1, <3>2 DEF Subtract
  <2>6. <<grad[p]>> \in Seq(Gradient) /\ value[p] \in Seq(Seq(Gradient))
    BY <1>3, <2>1
  <2>7. value' \in [Of -> Seq(Seq(Gradient))]
    <3>1. Append(value[p], <<grad[p]>>) \in Seq(Seq(Gradient))
      BY <2>6
    <3> QED BY <1>3, <2>5, <3>1
  <2>8. /\ grad' \in [Of -> Gradient \cup {None, Zero}] /\ velocity' \in [Of -> Seq(Gradient)]
        /\ requires_grad' \in [Of -> BOOLEAN]
    BY <1>3, <1>6, <2>3, <2>6
  <2>9. /\ ~requires_grad'[p]
        /\ \A q \in Of \ {p} : /\ grad'[q] = grad[q] /\ velocity'[q] = velocity[q]
                               /\ requires_grad'[q] = requires_grad[q]
    BY <1>3, <1>6
  <2>10. ParamInv'
    BY <1>1, <1>6, <2>1, <2>4, <2>5, <2>9, UpdateParam
  <2>11. TypeInv'
    BY <1>1, <1>3, <1>6, <2>7, <2>8, FixedValues DEF IInv, TypeInv, Fixed
  <2> QED BY <1>1, <1>6, <2>10, <2>11, StepLoop DEF IInv
<1> QED BY <1>2, <1>4, <1>5, <1>6

LEMMA EndBatchIInv ==
  ASSUME IInv, EndBatch
  PROVE  IInv'
<1>1. /\ Fixed /\ status = "stepping" /\ status' = "training" /\ k > Len(parameters)
      /\ i' = i + BatchSize /\ steps' = steps + 1 /\ UNCHANGED <<epoch, k, params, trained, tested>>
  BY DEF EndBatch, Fixed
<1>2. i \in Nat /\ BatchSize \in Nat \ {0} /\ steps \in Nat /\ k \in Nat
  BY TrainingAssumption DEF IInv, TypeInv
<1>3. TypeInv'
  BY <1>1, <1>2, FixedValues DEF IInv, TypeInv, Fixed, params
<1>4. DataInv'
  BY <1>1, FixedData
<1>5. LoopInv'
  <2>1. PICK m \in 0..BatchesPerEpoch : InBatch(m)
    BY <1>1 DEF IInv, LoopInv
  <2>2. BatchesPerEpoch \in Nat /\ epoch \in Nat
    BY <1>1, Batches DEF IInv, DataInv, TypeInv
  <2>3. m \in Nat /\ m + 1 \in 0..BatchesPerEpoch
    BY <1>1, <2>1, <2>2 DEF InBatch
  <2>4. PICK next \in 0..BatchesPerEpoch : next = m + 1
    BY <2>3
  <2>5. next * BatchSize = m * BatchSize + BatchSize
    BY <1>2, <2>3, <2>4
  <2>6. InBatch(next)'
    BY <1>1, <2>1, <2>2, <2>3, <2>4, <2>5, FixedValues DEF InBatch
  <2>7. BatchesPerEpoch' = BatchesPerEpoch
    BY <1>1, FixedValues
  <2>8. \E b \in 0..BatchesPerEpoch' : InBatch(b)'
    <3>1. next \in 0..BatchesPerEpoch'
      BY <2>4, <2>7
    <3> QED BY <2>6, <3>1
  <2> QED BY <1>1, <2>8 DEF IInv, LoopInv
<1>6. ParamInv'
  <2>1. ASSUME NEW p \in program.used PROVE Moved(p) /\ UsedInv(p)'
    <3>1. PICK j \in 1..Len(parameters) : parameters[j] = p
      BY Listed, UsedIsOf DEF IInv
    <3>2. j \in 1..k - 1
      BY <1>1, <1>2, Listed DEF IInv
    <3>3. Moved(p)
      BY <1>1, <3>1, <3>2 DEF Moved
    <3>4. UsedInv(p)
      BY DEF IInv, ParamInv
    <3> QED BY <1>1, <3>3, <3>4, FixedValues DEF UsedInv, Progress, Moved, Fixed, params
  <2>2. program.kind # "mlp" => steps = 0
    BY <1>1 DEF IInv, ParamInv
  <2> QED BY <1>1, <2>1, <2>2, FixedValues DEF IInv, ParamInv, Fixed, params
<1> QED BY <1>3, <1>4, <1>5, <1>6 DEF IInv

-----------------------------------------------------------------------------

LEMMA StutterIInv ==
  ASSUME IInv, UNCHANGED vars
  PROVE  IInv'
<1>1. Fixed /\ UNCHANGED <<status, loop, params, history>>
  BY DEF vars, Fixed
<1>2. TypeInv'
  BY <1>1, FixedValues DEF IInv, TypeInv, Fixed, loop, params, history
<1>3. DataInv'
  BY <1>1, FixedValues DEF IInv, DataInv, Fixed, data
<1>4. LoopInv'
  <2>1. \A m : InBatch(m) => InBatch(m)'
    BY <1>1, FixedValues DEF InBatch, loop, history
  <2> QED BY <1>1, <2>1, FixedValues DEF IInv, LoopInv, Fixed, loop, history
<1>5. ParamInv'
  <2>1. ASSUME NEW p \in program.used PROVE UsedInv(p)'
    <3>1. UsedInv(p)
      BY DEF IInv, ParamInv
    <3>2. Moved(p)' <=> Moved(p)
      BY <1>1 DEF Moved, Fixed, loop
    <3> QED BY <1>1, <3>1, <3>2, FixedValues DEF UsedInv, Progress, Fixed, params, history
  <2> QED BY <1>1, <2>1, FixedValues DEF IInv, ParamInv, Fixed, params, history
<1> QED BY <1>2, <1>3, <1>4, <1>5 DEF IInv

LEMMA InvariantIInv == Spec => []IInv
<1>1. IInv /\ [Next]_vars => IInv'
  BY LoadIInv, StartEpochIInv, PassIInv, ManualStepIInv, OptimizerStepIInv, EndBatchIInv,
     EndEpochIInv, EvaluateIInv, FinishIInv, StutterIInv DEF Next
<1> QED BY <1>1, InitIInv, PTL DEF Spec

(* train_mlp.cpp 78-105, 163-195, train_cnn.cpp 83-93: for every amount of *)
(* data and every batch size an epoch trains on each sample once, in order *)
(* (train_cnn on each of the first MaxSamples), and tests on each.         *)
THEOREM SamplesCorrect == Spec => []EachSampleOncePerEpoch
<1>1. IInv => EachSampleOncePerEpoch
  BY DEF IInv, LoopInv, EachSampleOncePerEpoch
<1> QED BY <1>1, InvariantIInv, PTL

(* train_mlp.cpp 145-175, SGD.cpp 35-73: whatever the parameters and their *)
(* order, the momentum, the data and the batches, every parameter is where *)
(* gradient descent by the book puts it.                                   *)
THEOREM DescentCorrect == Spec => []FollowsGradientDescent
<1>1. IInv => FollowsGradientDescent
  <2> SUFFICES ASSUME IInv, NEW p \in Of
               PROVE  LET n == Len(value[p])
                      IN IF p \notin program.used THEN n = 0
                         ELSE /\ \A j \in 1..n : value[p][j] = BookUpdate(p, j)
                              /\ n \in {steps, steps + 1}
                              /\ status \notin {"stepping", "threw"} => n = steps
    BY UsedIsOf DEF FollowsGradientDescent, IInv
  <2>1. CASE p \notin program.used
    BY <2>1 DEF IInv, ParamInv
  <2>2. CASE p \in program.used
    BY <2>2 DEF IInv, ParamInv, UsedInv, Progress, Moved
  <2> QED BY <2>1, <2>2
<1> QED BY <1>1, InvariantIInv, PTL

-----------------------------------------------------------------------------
(* Where the pieces of what is joined lie: piece b of f[b] elements comes  *)
(* after A[b - 1] others.                                                  *)

Layout(A, f, n) ==
  /\ A \in [0..n -> Nat] /\ f \in [1..n -> Nat] /\ A[0] = 0
  /\ \A b \in 1..n : A[b] = A[b - 1] + f[b]

LEMMA LayoutGrows ==
  ASSUME NEW n \in Nat, NEW A, NEW f, Layout(A, f, n), NEW a \in 0..n, NEW b \in 0..n, a <= b
  PROVE  A[a] <= A[b]
<1> DEFINE Wrong == {c \in Nat : a <= c /\ c <= n /\ ~(A[a] <= A[c])}
<1>1. Wrong = {}
  <2> SUFFICES ASSUME Wrong # {} PROVE FALSE
    OBVIOUS
  <2>1. PICK c \in Wrong : \A x \in Wrong : c <= x
    BY LeastMember
  <2>2. c \in Nat /\ a <= c /\ c <= n /\ ~(A[a] <= A[c])
    OBVIOUS
  <2> DEFINE z == c - 1
  <2>3. A \in [0..n -> Nat]
    BY DEF Layout
  <2>4. c # a
    BY <2>2, <2>3
  <2>5. z \in Nat /\ a <= z /\ z <= n /\ ~(c <= z) /\ c \in 1..n
    BY <2>2, <2>4
  <2>6. A[c] = A[z] + f[c] /\ f[c] \in Nat
    BY <2>5 DEF Layout
  <2>7. A[a] \in Nat /\ A[z] \in Nat
    BY <2>3, <2>5
  <2> HIDE DEF z
  <2>8. z \notin Wrong
    <3> HIDE DEF Wrong
    <3> QED BY <2>1, <2>5
  <2>9. A[a] <= A[z]
    BY <2>5, <2>8
  <2> QED BY <2>2, <2>6, <2>7, <2>9
<1>2. b \notin Wrong /\ b \in Nat /\ b <= n
  <2> HIDE DEF Wrong
  <2> QED BY <1>1
<1> QED BY <1>2

(* Every place lies in one piece, and in one only.                         *)
IsAt(z, A, b, m) == z = A[b - 1] + m
IsFound(z, A, f, n) == \E b \in 1..n : \E m \in 1..f[b] : IsAt(z, A, b, m)

LEMMA LayoutFinds ==
  ASSUME NEW n \in Nat, NEW A, NEW f, Layout(A, f, n), NEW z \in 1..A[n]
  PROVE  IsFound(z, A, f, n)
<1> DEFINE Late == {b \in Nat : b <= n /\ z <= A[b]}
<1>1. A \in [0..n -> Nat] /\ A[0] = 0
  BY DEF Layout
<1>2. n \in Late
  BY <1>1
<1>3. PICK b \in Late : \A x \in Late : b <= x
  BY <1>2, LeastMember
<1>4. b \in Nat /\ b <= n /\ z <= A[b]
  OBVIOUS
<1>5. b # 0
  BY <1>1, <1>4
<1> DEFINE a == b - 1
<1>6. a \in Nat /\ a <= n /\ ~(b <= a) /\ b \in 1..n
  BY <1>4, <1>5
<1>7. A[b] = A[a] + f[b] /\ f[b] \in Nat
  BY <1>6 DEF Layout
<1>8. A[a] \in Nat
  BY <1>1, <1>6
<1> HIDE DEF a
<1>9. a \notin Late
  <2> HIDE DEF Late
  <2> QED BY <1>3, <1>6
<1>10. ~(z <= A[a])
  BY <1>6, <1>9
<1> DEFINE m == z - A[a]
<1>11. m \in 1..f[b] /\ z = A[a] + m
  BY <1>4, <1>7, <1>8, <1>10
<1> QED BY <1>6, <1>11 DEF a, IsFound, IsAt

Lies(A, f, b, z) == z - A[b - 1] \in 1..f[b]

LEMMA LayoutSeparates ==
  ASSUME NEW n \in Nat, NEW A, NEW f, Layout(A, f, n), NEW b \in 1..n, NEW c \in 1..n,
         NEW z \in Int, Lies(A, f, b, z), Lies(A, f, c, z)
  PROVE  c = b
<1>1. A \in [0..n -> Nat] /\ f \in [1..n -> Nat]
  BY DEF Layout
<1>2. /\ A[b] = A[b - 1] + f[b] /\ A[c] = A[c - 1] + f[c]
      /\ A[b] \in Nat /\ A[c] \in Nat /\ A[b - 1] \in Nat /\ A[c - 1] \in Nat
      /\ f[b] \in Nat /\ f[c] \in Nat
  BY <1>1 DEF Layout
<1>3. CASE b < c
  <2>1. A[b] <= A[c - 1]
    BY <1>3, LayoutGrows
  <2> QED BY <1>2, <2>1 DEF Lies
<1>4. CASE c < b
  <2>1. A[c] <= A[b - 1]
    BY <1>4, LayoutGrows
  <2> QED BY <1>2, <2>1 DEF Lies
<1> QED BY <1>3, <1>4

Scaled(g, w) == [b \in DOMAIN g |-> w * g[b]]

LEMMA LayoutScales ==
  ASSUME NEW n \in Nat, NEW A, NEW f, Layout(A, f, n), NEW w \in Nat
  PROVE  Layout(Scaled(A, w), Scaled(f, w), n)
<1>1. A \in [0..n -> Nat] /\ f \in [1..n -> Nat] /\ A[0] = 0
  BY DEF Layout
<1>2. DOMAIN A = 0..n /\ DOMAIN f = 1..n
  BY <1>1
<1>3. ASSUME NEW x \in Nat PROVE w * x \in Nat
  OBVIOUS
<1>4. Scaled(A, w) \in [0..n -> Nat] /\ Scaled(f, w) \in [1..n -> Nat]
  BY <1>1, <1>2, <1>3 DEF Scaled
<1>5. Scaled(A, w)[0] = 0
  BY <1>1, <1>2 DEF Scaled
<1>6. ASSUME NEW b \in 1..n
      PROVE  Scaled(A, w)[b] = Scaled(A, w)[b - 1] + Scaled(f, w)[b]
  <2>1. b \in 0..n /\ b - 1 \in 0..n
    OBVIOUS
  <2>2. A[b] = A[b - 1] + f[b] /\ A[b - 1] \in Nat /\ f[b] \in Nat
    BY <1>1, <2>1 DEF Layout
  <2>3. w * (A[b - 1] + f[b]) = w * A[b - 1] + w * f[b]
    BY <2>2
  <2> QED BY <1>2, <2>1, <2>2, <2>3 DEF Scaled
<1> QED BY <1>4, <1>5, <1>6 DEF Layout

IsPairsStep(f, s, x) == Cardinality(Pairs(f, s)) = f[x] + Cardinality(Pairs(f, s \ {x}))

LEMMA PairsStep ==
  ASSUME NEW S, IsFiniteSet(S), NEW f \in [S -> Nat], NEW s \in SUBSET S, NEW x \in s
  PROVE  IsPairsStep(f, s, x)
BY PairsCount DEF IsPairsStep

(* The sums of the counts.                                                 *)
Sums(f, n) == [m \in 0..n |-> SumFunctionOnSet(f, 1..m)]

LEMMA SumLayout ==
  ASSUME NEW n \in Nat, NEW f \in [1..n -> Nat]
  PROVE  Layout(Sums(f, n), f, n) /\ SumFunction(f) = Sums(f, n)[n]
<1> DEFINE A == Sums(f, n)
<1> USE DEF Sums
<1>1. IsFiniteSet(1..n) /\ DOMAIN f = 1..n
  BY FS_Interval
<1>2. ASSUME NEW m \in 0..n
      PROVE  /\ 1..m \in SUBSET (1..n) /\ A[m] = Cardinality(Pairs(f, 1..m))
             /\ Cardinality(Pairs(f, 1..m)) \in Nat
  <2>1. 1..m \in SUBSET (1..n)
    OBVIOUS
  <2>2. SumFunctionOnSet(f, 1..m) = Cardinality(Pairs(f, 1..m))
    BY <1>1, <2>1, SumCounts
  <2>3. f \in [1..n -> Nat]
    OBVIOUS
  <2>4. Cardinality(Pairs(f, 1..m)) \in Nat
    BY ONLY <1>1, <2>1, <2>3, PairsCount
  <2>5. A[m] = SumFunctionOnSet(f, 1..m)
    OBVIOUS
  <2> QED BY <2>1, <2>2, <2>4, <2>5
<1>6. SumFunction(f) = A[n]
  BY <1>1 DEF SumFunction
<1>5. A \in [0..n -> Nat]
  <2>1. A = [m \in 0..n |-> A[m]]
    OBVIOUS
  <2> HIDE DEF A
  <2> QED BY <1>2, <2>1
<1> HIDE DEF A
<1>3. A[0] = 0
  <2>1. 1..0 = {} /\ 0 \in 0..n
    OBVIOUS
  <2> QED BY <1>1, <1>2, <2>1, PairsCount, FS_EmptySet
<1>4. ASSUME NEW b \in 1..n PROVE A[b] = A[b - 1] + f[b]
  <2>1. b \in 0..n /\ b - 1 \in 0..n /\ b \in 1..b /\ (1..b) \ {b} = 1..(b - 1)
    OBVIOUS
  <2>2. 1..b \in SUBSET (1..n)
    OBVIOUS
  <2>3. f \in [1..n -> Nat]
    OBVIOUS
  <2> DEFINE P(s) == Cardinality(Pairs(f, s))
             r == 1..(b - 1)
  <2>4. P(1..b) = f[b] + P((1..b) \ {b})
    <3> DEFINE q == 1..b
               S == 1..n
    <3>1. b \in q /\ q \in SUBSET S /\ f \in [S -> Nat] /\ IsFiniteSet(S)
      BY <1>1, <2>1, <2>2
    <3> HIDE DEF q, S
    <3>2. IsPairsStep(f, q, b)
      BY ONLY <3>1, PairsStep
    <3> QED BY <3>2 DEF q, IsPairsStep
  <2>5. A[b] = P(1..b) /\ A[b - 1] = P(r)
    BY <1>2, <2>1
  <2>6. A[b] \in Nat /\ A[b - 1] \in Nat /\ f[b] \in Nat
    BY <1>5, <2>1
  <2>7. P((1..b) \ {b}) = P(r)
    BY <2>1
  <2> HIDE DEF P, r
  <2> QED BY <2>4, <2>5, <2>6, <2>7
<1> QED BY <1>3, <1>4, <1>5, <1>6 DEF Layout, A

-----------------------------------------------------------------------------
(* What concat_into makes: element m of chunk b is at A[b - 1] + m.        *)

LEMMA MaxIsIn ==
  ASSUME NEW n \in Nat, NEW s \in SUBSET (1..n), s # {}
  PROVE  Max(s) \in s /\ \A y \in s : y <= Max(s)
<1> DEFINE T == {n - y : y \in s}
<1>1. T \in SUBSET Nat /\ T # {}
  <2>1. \A y \in s : n - y \in Nat
    OBVIOUS
  <2> QED BY <2>1
<1>2. PICK t \in T : \A u \in T : t <= u
  <2> HIDE DEF T
  <2> QED BY <1>1, LeastMember
<1>3. PICK x \in s : t = n - x
  OBVIOUS
<1>4. \A y \in s : x >= y
  <2> SUFFICES ASSUME NEW y \in s PROVE x >= y
    OBVIOUS
  <2>1. n - y \in T
    OBVIOUS
  <2>2. n - x <= n - y
    BY <1>2, <1>3, <2>1
  <2> QED BY <2>2
<1>5. Max(s) \in s /\ \A y \in s : Max(s) >= y
  BY <1>4 DEF Max
<1> QED BY <1>5

(* The last of the chunks s that cover place z.                            *)
Covers(chunks, at, b, z) == z - at[b] \in DOMAIN chunks[b]
Covering(chunks, at, s, z) == {b \in s : Covers(chunks, at, b, z)}

Filled(chunks, at, size, s) ==
  [z \in 1..size |->
     LET H == Covering(chunks, at, s, z)
     IN IF H = {} THEN 0 ELSE chunks[Max(H)][z - at[Max(H)]]]

LEMMA FilledByLast ==
  ASSUME NEW n \in Nat, NEW s \in SUBSET (1..n), s # {}, NEW chunks, NEW at, NEW size
  PROVE  Filled(chunks, at, size, s) =
           Placed(Filled(chunks, at, size, s \ {Max(s)}), at[Max(s)], chunks[Max(s)])
<1> DEFINE x == Max(s)
           r == s \ {x}
           H(t, z) == Covering(chunks, at, t, z)
           V(t, z) == IF H(t, z) = {} THEN 0 ELSE chunks[Max(H(t, z))][z - at[Max(H(t, z))]]
<1>1. x \in s /\ \A y \in s : y <= x
  BY MaxIsIn
<1>2. \A t : Filled(chunks, at, size, t) = [z \in 1..size |-> V(t, z)]
  BY DEF Filled
<1> HIDE DEF x
<1>3. ASSUME NEW z \in 1..size
      PROVE  V(s, z) = IF z - at[x] \in DOMAIN chunks[x] THEN chunks[x][z - at[x]] ELSE V(r, z)
  <2>1. CASE Covers(chunks, at, x, z)
    <3> DEFINE h == H(s, z)
    <3>1. x \in h /\ h \in SUBSET (1..n) /\ h # {} /\ h \subseteq s
      BY <1>1, <2>1 DEF Covering
    <3> HIDE DEF h
    <3>2. Max(h) \in h /\ x <= Max(h)
      BY <3>1, MaxIsIn
    <3>3. Max(h) = x
      <4> DEFINE top == Max(h)
      <4>1. top \in s /\ top \in 1..n /\ x \in 1..n
        BY <3>1, <3>2
      <4>2. x <= top
        BY <3>2
      <4> HIDE DEF top
      <4>3. top <= x
        BY <1>1, <4>1
      <4>4. top = x
        BY <4>1, <4>2, <4>3
      <4> QED BY <4>4 DEF top
    <3>4. h = H(s, z)
      BY DEF h
    <3> QED BY <2>1, <3>1, <3>3, <3>4 DEF Covers
  <2>2. CASE ~Covers(chunks, at, x, z)
    <3>1. H(s, z) = H(r, z)
      BY <2>2 DEF Covering
    <3> HIDE DEF H
    <3> QED BY <2>2, <3>1 DEF Covers
  <2> QED BY <2>1, <2>2
<1> HIDE DEF V
<1>4. Placed([z \in 1..size |-> V(r, z)], at[x], chunks[x]) =
        [z \in 1..size |-> IF z - at[x] \in DOMAIN chunks[x] THEN chunks[x][z - at[x]] ELSE V(r, z)]
  BY DEF Placed
<1>5. [z \in 1..size |-> V(s, z)] =
        [z \in 1..size |-> IF z - at[x] \in DOMAIN chunks[x] THEN chunks[x][z - at[x]] ELSE V(r, z)]
  BY <1>3
<1>6. Filled(chunks, at, size, s) = Placed(Filled(chunks, at, size, r), at[x], chunks[x])
  BY <1>2, <1>4, <1>5
<1> QED BY <1>6 DEF x

LEMMA JoinedIsFilled ==
  ASSUME NEW n \in Nat, NEW chunks, DOMAIN chunks = 1..n, NEW at, NEW size
  PROVE  Joined(chunks, at, size) = Filled(chunks, at, size, 1..n)
<1> DEFINE zeros == [z \in 1..size |-> 0]
           Body(g) == [s \in SUBSET (1..n) |->
             IF s = {} THEN zeros ELSE Placed(g[s \ {Max(s)}], at[Max(s)], chunks[Max(s)])]
           iter == CHOOSE g : g = Body(g)
           F == [s \in SUBSET (1..n) |-> Filled(chunks, at, size, s)]
           Bad == {s \in SUBSET (1..n) : iter[s] # F[s]}
           Sizes == {Cardinality(s) : s \in Bad}
<1>1. ASSUME NEW s \in SUBSET (1..n), s # {}
      PROVE  Max(s) \in s /\ Max(s) \in 1..n /\ s \ {Max(s)} \in SUBSET (1..n)
  BY <1>1, MaxIsIn
<1>2. Joined(chunks, at, size) = iter[1..n]
  <2> DEFINE d == [e \in 1..n |-> e]
             Raw(g) == [s \in SUBSET (1..n) |->
               IF s = {} THEN zeros ELSE Placed(g[s \ {Max(s)}], at[d[Max(s)]], chunks[d[Max(s)]])]
  <2>1. DOMAIN d = 1..n
    OBVIOUS
  <2>2. Joined(chunks, at, size) = (CHOOSE g : g = Raw(g))[1..n]
    BY <2>1 DEF Joined, FoldLeftDomain, FoldLeft, MapThenFoldSet
  <2>3. ASSUME NEW g PROVE Raw(g) = Body(g)
    BY <1>1
  <2>4. (CHOOSE g : g = Raw(g)) = iter
    <3> HIDE DEF Raw, Body
    <3> QED BY <2>3
  <2> QED BY <2>2, <2>4
<1>3. ASSUME NEW s \in SUBSET (1..n) PROVE F[s] = Body(F)[s]
  <2>1. CASE s = {}
    <3>1. {} \in SUBSET (1..n) /\ Filled(chunks, at, size, {}) = zeros
      BY DEF Filled, Covering
    <3> QED BY <2>1, <3>1
  <2>2. CASE s # {}
    BY <1>1, <2>2, FilledByLast
  <2> QED BY <2>1, <2>2
<1>4. F = Body(F)
  BY <1>3
<1>5. iter = Body(iter)
  BY <1>4
<1> HIDE DEF iter
<1>6. IsFiniteSet(1..n)
  BY FS_Interval
<1>7. ASSUME NEW s \in SUBSET (1..n) PROVE IsFiniteSet(s) /\ Cardinality(s) \in Nat
  BY <1>6, FS_Subset, FS_CardinalityType
<1>8. Bad = {}
  <2> SUFFICES ASSUME Bad # {} PROVE FALSE
    OBVIOUS
  <2>1. Sizes # {} /\ Sizes \subseteq Nat
    BY <1>7
  <2>2. PICK m \in Sizes : \A x \in Sizes : m <= x
    <3> HIDE DEF Sizes
    <3> QED BY <2>1, LeastMember
  <2>3. PICK s \in Bad : Cardinality(s) = m
    OBVIOUS
  <2>4. s \in SUBSET (1..n) /\ iter[s] # F[s]
    OBVIOUS
  <2>5. iter[s] = Body(iter)[s] /\ F[s] = Body(F)[s]
    BY <1>4, <1>5
  <2>6. s # {}
    BY <2>4, <2>5
  <2> DEFINE r == s \ {Max(s)}
  <2>7. Max(s) \in s /\ r \in SUBSET (1..n)
    BY <1>1, <2>4, <2>6
  <2>8. Cardinality(r) = Cardinality(s) - 1
    BY <1>7, <2>4, <2>7, FS_RemoveElement
  <2>9. r \notin Bad
    <3>1. Cardinality(s) \in Nat /\ Cardinality(r) \in Nat
      BY <1>7, <2>4, <2>7
    <3>2. ~(Cardinality(r) \in Sizes)
      <4> HIDE DEF Sizes, r
      <4> QED BY <2>2, <2>3, <2>8, <3>1
    <3> QED BY <3>2
  <2>10. iter[r] = F[r]
    BY <2>7, <2>9
  <2>11. Body(iter)[s] = Body(F)[s]
    BY <2>4, <2>6, <2>10
  <2> QED BY <2>4, <2>5, <2>11
<1>9. iter[1..n] = F[1..n] /\ 1..n \in SUBSET (1..n)
  BY <1>8
<1> QED BY <1>2, <1>9

InOrder(chunks, J, A, f, n) ==
  /\ DOMAIN J = 1..A[n] /\ J = [z \in DOMAIN J |-> J[z]]
  /\ \A b \in 1..n : \A m \in 1..f[b] : J[A[b - 1] + m] = chunks[b][m]

LEMMA JoinedInOrder ==
  ASSUME NEW n \in Nat, NEW A, NEW f, Layout(A, f, n), NEW chunks, NEW at,
         DOMAIN chunks = 1..n, \A b \in 1..n : DOMAIN chunks[b] = 1..f[b] /\ at[b] = A[b - 1]
  PROVE  InOrder(chunks, Joined(chunks, at, A[n]), A, f, n)
<1> DEFINE J == Joined(chunks, at, A[n])
<1>1. J = Filled(chunks, at, A[n], 1..n)
  BY JoinedIsFilled
<1> HIDE DEF J
<1>2. DOMAIN J = 1..A[n] /\ J = [z \in DOMAIN J |-> J[z]]
  BY <1>1 DEF Filled
<1>3. ASSUME NEW b \in 1..n, NEW m \in 1..f[b] PROVE J[A[b - 1] + m] = chunks[b][m]
  <2> DEFINE z == A[b - 1] + m
             H == Covering(chunks, at, 1..n, z)
  <2>1. /\ A \in [0..n -> Nat] /\ f \in [1..n -> Nat] /\ A[b] = A[b - 1] + f[b]
        /\ A[b] <= A[n]
    <3>1. b \in 0..n /\ n \in 0..n /\ b <= n
      OBVIOUS
    <3> QED BY <3>1, LayoutGrows DEF Layout
  <2>2. A[b - 1] \in Nat /\ A[b] \in Nat /\ A[n] \in Nat /\ f[b] \in Nat
    BY <2>1
  <2>3. z \in 1..A[n] /\ z - A[b - 1] = m
    BY <2>1, <2>2
  <2>4. b \in H
    BY <2>3 DEF Covering, Covers
  <2>5. ASSUME NEW c \in H PROVE c = b
    <3>1. c \in 1..n /\ z - at[c] \in DOMAIN chunks[c]
      BY DEF Covering, Covers
    <3>2. Lies(A, f, c, z)
      BY <3>1 DEF Lies
    <3>3. Lies(A, f, b, z) /\ z \in Int
      BY <2>3 DEF Lies
    <3> HIDE DEF z
    <3> QED BY <3>1, <3>2, <3>3, LayoutSeparates
  <2>6. H \in SUBSET (1..n) /\ H # {}
    BY <2>4 DEF Covering
  <2>7. Max(H) = b
    <3> HIDE DEF H
    <3> QED BY <2>5, <2>6, MaxIsIn
  <2>8. J[z] = chunks[b][z - at[b]]
    <3> HIDE DEF z
    <3> QED BY <1>1, <2>3, <2>6, <2>7 DEF Filled
  <2>9. at[b] = A[b - 1]
    OBVIOUS
  <2> QED BY <2>3, <2>8, <2>9
<1> QED BY <1>2, <1>3 DEF J, InOrder

-----------------------------------------------------------------------------
(* The bytes of several files, one file after the other.                   *)

Flattens(g, seqs, m) == \A b \in 1..m : g[b] = IF b = 1 THEN seqs[b] ELSE g[b - 1] \o seqs[b]

LEMMA FlattenExists ==
  ASSUME NEW X, NEW seqs \in Seq(Seq(X)), NEW n \in Nat, n = Len(seqs)
  PROVE  \E g : DOMAIN g = 1..n /\ Flattens(g, seqs, n)
<1> DEFINE Has(m) == \E g : DOMAIN g = 1..n /\ Flattens(g, seqs, m)
           Bad == {m \in Nat : m <= n /\ ~Has(m)}
<1>1. Bad = {}
  <2> SUFFICES ASSUME Bad # {} PROVE FALSE
    OBVIOUS
  <2>1. PICK m \in Bad : \A x \in Bad : m <= x
    BY LeastMember
  <2>2. m \in Nat /\ m <= n /\ ~Has(m)
    OBVIOUS
  <2>3. m # 0
    <3>1. DOMAIN [b \in 1..n |-> b] = 1..n /\ Flattens([b \in 1..n |-> b], seqs, 0)
      BY DEF Flattens
    <3>2. Has(0)
      BY <3>1
    <3> HIDE DEF Has
    <3> QED BY <2>2, <3>2
  <2> DEFINE z == m - 1
  <2>4. z \in Nat /\ z <= n /\ ~(m <= z) /\ m \in 1..n /\ 1..m = (1..z) \cup {m}
    BY <2>2, <2>3
  <2>5. Has(z)
    <3>1. z \notin Bad
      <4> HIDE DEF Bad, z
      <4> QED BY <2>1, <2>4
    <3> HIDE DEF Has, z
    <3> QED BY <2>4, <3>1
  <2>6. PICK g : DOMAIN g = 1..n /\ Flattens(g, seqs, z)
    BY <2>5
  <2> DEFINE h == [b \in 1..n |-> IF b # m THEN g[b]
                                  ELSE IF b = 1 THEN seqs[b] ELSE g[b - 1] \o seqs[b]]
  <2>7. \A b \in 1..m : b \in 1..n /\ (b # m => b \in 1..z) /\ (b # 1 => b - 1 \in 1..n /\ b - 1 # m)
    BY <2>4
  <2>8. Flattens(h, seqs, m)
    <3> SUFFICES ASSUME NEW b \in 1..m
                 PROVE  h[b] = IF b = 1 THEN seqs[b] ELSE h[b - 1] \o seqs[b]
      BY DEF Flattens
    <3>1. b # 1 => h[b - 1] = g[b - 1]
      BY <2>7
    <3>2. h[b] = IF b = 1 THEN seqs[b] ELSE g[b - 1] \o seqs[b]
      BY <2>6, <2>7 DEF Flattens
    <3> HIDE DEF h
    <3> QED BY <3>1, <3>2
  <2>9. DOMAIN h = 1..n
    OBVIOUS
  <2> HIDE DEF h
  <2> QED BY <2>2, <2>8, <2>9
<1>2. Has(n)
  <2>1. n \notin Bad
    <3> HIDE DEF Bad
    <3> QED BY <1>1
  <2> HIDE DEF Has
  <2> QED BY <2>1
<1> QED BY <1>2

LEMMA FlattenUnfolds ==
  ASSUME NEW X, NEW seqs \in Seq(Seq(X)), NEW n \in Nat, n = Len(seqs), n # 0
  PROVE  \E g : Flattens(g, seqs, n) /\ FlattenSeq(seqs) = g[n]
<1> DEFINE Body(g) == [b \in 1..n |-> IF b = 1 THEN seqs[b] ELSE g[b - 1] \o seqs[b]]
           iter == CHOOSE g : g = Body(g)
<1>1. FlattenSeq(seqs) = iter[n]
  BY DEF FlattenSeq
<1>2. PICK g : DOMAIN g = 1..n /\ Flattens(g, seqs, n)
  BY FlattenExists
<1> DEFINE G == [b \in 1..n |-> g[b]]
<1>3. ASSUME NEW b \in 1..n PROVE G[b] = Body(G)[b]
  <2>1. b # 1 => b - 1 \in 1..n
    OBVIOUS
  <2>2. g[b] = IF b = 1 THEN seqs[b] ELSE g[b - 1] \o seqs[b]
    BY <1>2 DEF Flattens
  <2> QED BY <2>1, <2>2
<1>4. G = Body(G)
  BY <1>3
<1> HIDE DEF G
<1>5. iter = Body(iter)
  BY <1>4
<1> HIDE DEF iter
<1>6. Flattens(iter, seqs, n)
  BY <1>5 DEF Flattens
<1> QED BY <1>1, <1>6

IsPair(X, p, q) == p \in Seq(X) /\ q \in Seq(X)

LEMMA ConcatFacts ==
  ASSUME NEW X, NEW p, NEW q, IsPair(X, p, q)
  PROVE  /\ p \o q \in Seq(X) /\ Len(p \o q) = Len(p) + Len(q)
         /\ \A e \in 1..Len(p) : (p \o q)[e] = p[e]
         /\ \A e \in 1..Len(q) : (p \o q)[Len(p) + e] = q[e]
BY DEF IsPair

Flat(p, X, seqs, A, f, m) ==
  /\ p \in Seq(X) /\ Len(p) = A[m]
  /\ \A b \in 1..m : \A e \in 1..f[b] : p[A[b - 1] + e] = seqs[b][e]

LEMMA FlattenStep ==
  ASSUME NEW X, NEW seqs \in Seq(Seq(X)), NEW n \in Nat, n = Len(seqs),
         NEW A, NEW f, Layout(A, f, n), \A b \in 1..n : Len(seqs[b]) = f[b],
         NEW m \in 2..n, NEW p, Flat(p, X, seqs, A, f, m - 1)
  PROVE  Flat(p \o seqs[m], X, seqs, A, f, m)
<1> DEFINE q == seqs[m]
           r == p \o q
           z == m - 1
<1>1. /\ m \in 1..n /\ z \in 1..n /\ z \in 0..n /\ 1..m = (1..z) \cup {m}
      /\ A \in [0..n -> Nat] /\ f \in [1..n -> Nat]
  BY DEF Layout
<1>2. p \in Seq(X) /\ Len(p) = A[z] /\ q \in Seq(X) /\ Len(q) = f[m] /\ A[m] = A[z] + f[m]
  BY <1>1 DEF Flat, Layout
<1> HIDE DEF q
<1>0. /\ p \o q \in Seq(X) /\ Len(p \o q) = Len(p) + Len(q)
      /\ \A x \in 1..Len(p) : (p \o q)[x] = p[x]
      /\ \A x \in 1..Len(q) : (p \o q)[Len(p) + x] = q[x]
  <2>1. IsPair(X, p, q)
    BY ONLY <1>2 DEF IsPair
  <2> QED BY ONLY <2>1, ConcatFacts
<1>3. r \in Seq(X) /\ Len(r) = A[m]
  BY <1>0, <1>2
<1>4. ASSUME NEW b \in 1..m, NEW e \in 1..f[b] PROVE r[A[b - 1] + e] = seqs[b][e]
  <2>1. CASE b = m
    <3> HIDE DEF r, z
    <3>1. (p \o q)[Len(p) + e] = q[e]
      BY <1>0, <1>2, <2>1
    <3> QED BY <1>2, <2>1, <3>1 DEF r, q, z
  <2>2. CASE b # m
    <3>1. b \in 1..z /\ b \in 0..n /\ b <= z
      BY <1>1, <2>2
    <3> DEFINE d == A[b - 1] + e
    <3>2. A[b] <= A[z]
      <4> HIDE DEF z
      <4> QED BY <1>1, <3>1, LayoutGrows
    <3>3. d \in 1..Len(p)
      <4>1. b \in 1..n /\ b - 1 \in 0..n /\ e \in 1..f[b]
        BY <1>1, <3>1
      <4>2. f[b] \in Nat /\ A[b - 1] \in Nat /\ A[z] \in Nat
        BY <1>1, <4>1
      <4>3. A[b] = A[b - 1] + f[b]
        BY <4>1 DEF Layout
      <4> HIDE DEF z
      <4>4. d \in 1..A[z]
        BY ONLY <3>2, <4>1, <4>2, <4>3
      <4> QED BY <1>2, <4>4
    <3>4. p[d] = seqs[b][e]
      BY <3>1 DEF Flat
    <3> HIDE DEF d
    <3>5. (p \o q)[d] = p[d]
      BY <1>0, <3>3
    <3> QED BY <3>4, <3>5 DEF d
  <2> QED BY <2>1, <2>2
<1> QED BY <1>3, <1>4 DEF Flat, q

LEMMA FlattenInOrder ==
  ASSUME NEW X, NEW seqs \in Seq(Seq(X)), NEW n \in Nat, n = Len(seqs), n # 0,
         NEW A, NEW f, Layout(A, f, n), \A b \in 1..n : Len(seqs[b]) = f[b]
  PROVE  Flat(FlattenSeq(seqs), X, seqs, A, f, n)
<1>1. PICK g : Flattens(g, seqs, n) /\ FlattenSeq(seqs) = g[n]
  BY FlattenUnfolds
<1> DEFINE Bad == {m \in Nat : m \in 1..n /\ ~Flat(g[m], X, seqs, A, f, m)}
<1>2. Bad = {}
  <2> SUFFICES ASSUME Bad # {} PROVE FALSE
    OBVIOUS
  <2>1. PICK m \in Bad : \A x \in Bad : m <= x
    BY LeastMember
  <2>2. m \in 1..n /\ ~Flat(g[m], X, seqs, A, f, m)
    OBVIOUS
  <2>3. CASE m = 1
    <3>0. 1 \in 1..n /\ 1..1 = {1} /\ 1 - 1 = 0
      BY <2>2, <2>3
    <3>1. g[1] = seqs[1] /\ seqs[1] \in Seq(X) /\ 1 \in 1..n /\ 1..1 = {1} /\ 1 - 1 = 0
      BY <1>1, <3>0 DEF Flattens
    <3>2. A[0] = 0 /\ A[1] = A[0] + f[1] /\ f[1] \in Nat
      BY <3>1 DEF Layout
    <3>3. Len(seqs[1]) = f[1] /\ A[1] = f[1]
      BY <3>1, <3>2
    <3>4. ASSUME NEW e \in 1..f[1] PROVE A[1 - 1] + e = e
      BY <3>2
    <3> QED BY <2>2, <2>3, <3>1, <3>3, <3>4 DEF Flat
  <2>4. CASE m # 1
    <3> DEFINE z == m - 1
    <3>1. z \in Nat /\ z \in 1..n /\ ~(m <= z) /\ m \in 2..n
      BY <2>2, <2>4
    <3>2. g[m] = g[z] \o seqs[m]
      BY <1>1, <2>2, <2>4 DEF Flattens
    <3> HIDE DEF z
    <3>3. z \notin Bad
      <4> HIDE DEF Bad
      <4> QED BY <2>1, <3>1
    <3>4. Flat(g[z], X, seqs, A, f, z)
      BY <3>1, <3>3
    <3>5. Flat(g[z] \o seqs[m], X, seqs, A, f, m)
      BY <3>1, <3>4, FlattenStep DEF z
    <3> QED BY <2>2, <3>2, <3>5
  <2> QED BY <2>3, <2>4
<1>3. n \notin Bad /\ n \in 1..n
  <2> HIDE DEF Bad
  <2> QED BY <1>2
<1>4. Flat(g[n], X, seqs, A, f, n)
  BY <1>3
<1> QED BY <1>1, <1>4

-----------------------------------------------------------------------------
(* What load_mnist returns is what the two files hold.                     *)

Digits(a, b, c, d) == 256 * (256 * (256 * a + b) + c) + d

SameDigits(a, x, b, y) ==
  a \in Nat /\ b \in Nat /\ x \in 0..255 /\ y \in 0..255 /\ 256 * a + x = 256 * b + y

LEMMA LastDigit ==
  ASSUME NEW a, NEW b, NEW x, NEW y, SameDigits(a, x, b, y)
  PROVE  a = b /\ x = y
BY DEF SameDigits

SameNumber(a, b, c, d, p, q, r, s) ==
  /\ {a, b, c, d, p, q, r, s} \subseteq 0..255
  /\ Digits(a, b, c, d) = Digits(p, q, r, s)

LEMMA DigitsAreUnique ==
  ASSUME NEW a, NEW b, NEW c, NEW d, NEW p, NEW q, NEW r, NEW s,
         SameNumber(a, b, c, d, p, q, r, s)
  PROVE  a = p /\ b = q /\ c = r /\ d = s
<1>0. /\ a \in 0..255 /\ b \in 0..255 /\ c \in 0..255 /\ d \in 0..255
      /\ p \in 0..255 /\ q \in 0..255 /\ r \in 0..255 /\ s \in 0..255
  BY DEF SameNumber
<1> DEFINE two(x, y) == 256 * x + y
           three(x, y, v) == 256 * two(x, y) + v
<1>1. /\ two(a, b) \in Nat /\ two(p, q) \in Nat
      /\ three(a, b, c) \in Nat /\ three(p, q, r) \in Nat
  BY <1>0
<1>2. SameDigits(three(a, b, c), d, three(p, q, r), s)
  <2>1. 256 * three(a, b, c) + d = 256 * three(p, q, r) + s
    BY DEF SameNumber, Digits
  <2> HIDE DEF three
  <2> QED BY <1>0, <1>1, <2>1 DEF SameDigits
<1>3. d = s /\ three(a, b, c) = three(p, q, r)
  <2> HIDE DEF three
  <2> QED BY <1>2, LastDigit
<1>4. SameDigits(two(a, b), c, two(p, q), r)
  <2>1. 256 * two(a, b) + c = 256 * two(p, q) + r
    BY <1>3
  <2> HIDE DEF two
  <2> QED BY <1>0, <1>1, <2>1 DEF SameDigits
<1> HIDE DEF two, three
<1>5. c = r /\ two(a, b) = two(p, q)
  BY <1>4, LastDigit
<1>6. SameDigits(a, b, p, q)
  BY <1>0, <1>5 DEF two, SameDigits
<1>7. a = p /\ b = q
  BY <1>6, LastDigit
<1> QED BY <1>3, <1>5, <1>7

IsPiece(X, q, a, b) ==
  q \in Seq(X) /\ a \in 1..Len(q) + 1 /\ b \in Nat /\ a <= b + 1 /\ b <= Len(q)

PieceIs(p, X, q, a, b) ==
  /\ p \in Seq(X) /\ Len(p) = b - a + 1 /\ DOMAIN p = 1..b - a + 1
  /\ \A e \in 1..b - a + 1 : p[e] = q[a + e - 1]

LEMMA SubSeqFacts ==
  ASSUME NEW X, NEW q, NEW a, NEW b, IsPiece(X, q, a, b)
  PROVE  PieceIs(SubSeq(q, a, b), X, q, a, b)
<1>1. q \in Seq(X) /\ a \in 1..Len(q) + 1 /\ b \in Nat /\ a <= b + 1 /\ b <= Len(q)
  BY DEF IsPiece
<1>2. /\ SubSeq(q, a, b) \in Seq(X) /\ Len(SubSeq(q, a, b)) = b - a + 1
      /\ \A e \in 1..b - a + 1 : SubSeq(q, a, b)[e] = q[a + e - 1]
  BY ONLY <1>1
<1>3. DOMAIN SubSeq(q, a, b) = 1..Len(SubSeq(q, a, b))
  BY ONLY <1>2
<1> QED BY <1>2, <1>3 DEF PieceIs

LEMMA ElementOf ==
  ASSUME NEW X, NEW q \in Seq(X), NEW e \in 1..Len(q)
  PROVE  q[e] \in X
OBVIOUS

Count32(file) == read_be_u32(file, 4)

LEMMA CountField ==
  ASSUME NEW file \in Seq(0..255), 8 <= Len(file)
  PROVE  /\ \A e \in 5..8 : file[e] \in 0..255
         /\ Count32(file) \in Nat
         /\ Count32(file) = Digits(file[5], file[6], file[7], file[8])
<1>1. ASSUME NEW e \in 5..8 PROVE file[e] \in 0..255
  <2>1. e \in 1..Len(file) /\ file \in Seq(0..255)
    OBVIOUS
  <2> QED BY ONLY <2>1, ElementOf
<1> DEFINE a == file[5]
           b == file[6]
           c == file[7]
           d == file[8]
<1>2. a \in 0..255 /\ b \in 0..255 /\ c \in 0..255 /\ d \in 0..255
  BY <1>1
<1>3. Count32(file) = d + 256 * (c + 256 * (b + 256 * a))
  BY DEF Count32, read_be_u32
<1> HIDE DEF a, b, c, d
<1>4. Count32(file) \in Nat /\ Count32(file) = Digits(a, b, c, d)
  BY <1>2, <1>3 DEF Digits
<1> QED BY <1>1, <1>4 DEF a, b, c, d

LEMMA SameCount ==
  ASSUME NEW q \in Seq(0..255), 8 <= Len(q), NEW r \in Seq(0..255), 8 <= Len(r),
         Count32(q) = Count32(r)
  PROVE  SubSeq(q, 5, 8) = SubSeq(r, 5, 8)
<1>1. ASSUME NEW file \in Seq(0..255), 8 <= Len(file)
      PROVE  SubSeq(file, 5, 8) = [e \in 1..4 |-> file[4 + e]]
  <2> DEFINE s == SubSeq(file, 5, 8)
  <2>1. /\ 8 - 5 + 1 = 4 /\ 5 \in 1..Len(file) + 1 /\ 8 \in Nat /\ 5 <= 8 + 1
        /\ file \in Seq(0..255) /\ 8 <= Len(file)
    BY <1>1
  <2>2. /\ s \in Seq(0..255) /\ Len(s) = 8 - 5 + 1 /\ DOMAIN s = 1..8 - 5 + 1
        /\ \A e \in 1..8 - 5 + 1 : s[e] = file[5 + e - 1]
    <3>1. IsPiece(0..255, file, 5, 8)
      BY ONLY <2>1 DEF IsPiece
    <3>2. PieceIs(s, 0..255, file, 5, 8)
      BY <3>1, SubSeqFacts
    <3> HIDE DEF s
    <3> QED BY <3>2 DEF PieceIs
  <2>3. s = [e \in 1..Len(s) |-> s[e]]
    <3> HIDE DEF s
    <3> QED BY <2>2
  <2> HIDE DEF s
  <2>4. s = [e \in 1..4 |-> s[e]] /\ \A e \in 1..4 : s[e] = file[4 + e]
    BY <2>1, <2>2, <2>3
  <2> QED BY <2>4 DEF s
<1>2. q[5] = r[5] /\ q[6] = r[6] /\ q[7] = r[7] /\ q[8] = r[8]
  <2>1. \A e \in 5..8 : q[e] \in 0..255 /\ r[e] \in 0..255
    BY CountField
  <2> DEFINE a == q[5]
             b == q[6]
             c == q[7]
             d == q[8]
             s == r[5]
             t == r[6]
             u == r[7]
             v == r[8]
  <2>2. Digits(a, b, c, d) = Digits(s, t, u, v)
    BY CountField
  <2>3. /\ a \in 0..255 /\ b \in 0..255 /\ c \in 0..255 /\ d \in 0..255
        /\ s \in 0..255 /\ t \in 0..255 /\ u \in 0..255 /\ v \in 0..255
    BY <2>1
  <2> HIDE DEF a, b, c, d, s, t, u, v
  <2>4. SameNumber(a, b, c, d, s, t, u, v)
    BY ONLY <2>2, <2>3 DEF SameNumber
  <2>5. a = s /\ b = t /\ c = u /\ d = v
    BY ONLY <2>4, DigitsAreUnique
  <2> QED BY <2>5 DEF a, b, c, d, s, t, u, v
<1>3. \A e \in 1..4 : q[4 + e] = r[4 + e]
  BY <1>2
<1>4. [e \in 1..4 |-> q[4 + e]] = [e \in 1..4 |-> r[4 + e]]
  BY <1>3
<1> QED BY <1>1, <1>4

(* What WellFormed and the range of the labels come to.                    *)
Faithful(d, split) == WellFormed(d, split) /\ \A n \in DOMAIN d.labels : d.labels[n] \in 0..9

LEMMA MnistFaithful ==
  ASSUME NEW split, Holds(split, "mnist"), program.data = "mnist", NEW d \in load_mnist(split)
  PROVE  Faithful(d, split)
<1> DEFINE images == split.images
           file == split.labels
<1>1. PICK both \in {r \in read_idx_images(images) \X read_idx_labels(file) :
                       r[1].count = Len(r[2])} :
        d = [count |-> both[1].count, pixels |-> both[1].pixels, labels |-> both[2]]
  BY DEF load_mnist
<1>2. both[1] \in read_idx_images(images) /\ both[2] \in read_idx_labels(file)
      /\ both[1].count = Len(both[2])
  BY <1>1
<1>3. d.count = both[1].count /\ d.pixels = both[1].pixels /\ d.labels = both[2]
  BY <1>1
<1> DEFINE c == Count32(images)
           l == Count32(file)
<1>4. /\ images \in Seq(0..255) /\ ~(Len(images) < 16)
      /\ both[1] = [count |-> c, pixels |-> [z \in 1..c * Plane |-> normalized(1, images[16 + z])]]
  BY <1>2 DEF read_idx_images, Holds, File, Count32
<1>5. /\ file \in Seq(0..255) /\ ~(Len(file) < 8) /\ ~(Len(file) - 8 < l)
      /\ ~(\E z \in 1..l : file[8 + z] > 9) /\ both[2] = SubSeq(file, 9, 8 + l)
  BY <1>2 DEF read_idx_labels, Holds, File, Count32
<1> HIDE DEF images, file
<1>6. Len(images) \in Nat /\ Len(file) \in Nat /\ 8 <= Len(images) /\ 8 <= Len(file)
  <2>1. Len(images) \in Nat /\ Len(file) \in Nat
    BY <1>4, <1>5
  <2> QED BY <1>4, <1>5, <2>1
<1>7. /\ c \in Nat /\ l \in Nat
      /\ c = 256 * (256 * (256 * images[5] + images[6]) + images[7]) + images[8]
  BY <1>4, <1>5, <1>6, CountField DEF Digits
<1>8. c = l => SubSeq(images, 5, 8) = SubSeq(file, 5, 8)
  BY <1>4, <1>5, <1>6, SameCount
<1> HIDE DEF c, l
<1>9. /\ Len(SubSeq(file, 9, 8 + l)) = l /\ DOMAIN SubSeq(file, 9, 8 + l) = 1..l
      /\ \A z \in 1..l : SubSeq(file, 9, 8 + l)[z] = file[8 + z]
  <2> DEFINE b == 8 + l
             q == SubSeq(file, 9, b)
  <2>1. 9 \in 1..Len(file) + 1 /\ b \in Nat /\ 9 <= b + 1 /\ b <= Len(file)
    BY <1>5, <1>6, <1>7
  <2>2. b - 9 + 1 = l /\ \A z \in 1..l : 9 + z - 1 = 8 + z
    BY <1>7
  <2>3. Len(q) = b - 9 + 1 /\ DOMAIN q = 1..b - 9 + 1
        /\ \A e \in 1..b - 9 + 1 : q[e] = file[9 + e - 1]
    <3> HIDE DEF b
    <3>1. IsPiece(0..255, file, 9, b)
      BY <1>5, <2>1 DEF IsPiece
    <3>2. PieceIs(q, 0..255, file, 9, b)
      BY <3>1, SubSeqFacts
    <3> HIDE DEF q
    <3> QED BY <3>2 DEF PieceIs
  <2> HIDE DEF q
  <2>4. Len(q) = l /\ DOMAIN q = 1..l /\ \A z \in 1..l : q[z] = file[8 + z]
    BY <2>2, <2>3
  <2> QED BY <2>4 DEF q
<1>10. l = c
  <2>1. both[1].count = c
    BY <1>4
  <2>2. Len(both[2]) = l
    BY <1>5, <1>9
  <2> QED BY <1>2, <2>1, <2>2
<1>11. SubSeq(images, 5, 8) = SubSeq(file, 5, 8)
  BY <1>8, <1>10
<1>12. d.count = c /\ d.labels = SubSeq(file, 9, 8 + c)
       /\ d.pixels = [z \in 1..c * Plane |-> <<1, images[16 + z]>>]
  BY <1>3, <1>4, <1>5, <1>10 DEF normalized
<1>13. Len(d.labels) = c /\ DOMAIN d.labels = 1..c
  BY <1>9, <1>10, <1>12
<1>14. Plane \in Nat
  BY LoaderAssumption DEF Plane
<1>15. c * Plane \in Nat
  BY <1>7, <1>14
<1>16. Len(d.pixels) = c * Plane
       /\ \A n \in 1..c * Plane : d.pixels[n] = <<1, images[16 + n]>>
  <2> DEFINE s == c * Plane
             q == [z \in 1..s |-> <<1, images[16 + z]>>]
  <2>1. s \in Nat /\ d.pixels = q
    BY <1>12, <1>15
  <2> HIDE DEF s
  <2>2. Len(q) = s
    BY <2>1
  <2>3. \A n \in 1..s : q[n] = <<1, images[16 + n]>>
    OBVIOUS
  <2> HIDE DEF q
  <2> QED BY <2>1, <2>2, <2>3 DEF s
<1>17. ASSUME NEW n \in 1..c PROVE d.labels[n] \in 0..9
  <2>1. d.labels[n] = file[8 + n] /\ ~(file[8 + n] > 9)
    BY <1>5, <1>9, <1>10, <1>12
  <2>2. 8 + n \in 1..Len(file)
    BY <1>5, <1>6, <1>7, <1>10
  <2>3. file[8 + n] \in 0..255
    BY ONLY <1>5, <2>2, ElementOf
  <2> DEFINE v == file[8 + n]
  <2>4. d.labels[n] = v /\ ~(v > 9) /\ v \in 0..255
    BY <2>1, <2>3
  <2> HIDE DEF v
  <2>5. v \in 0..9
    BY <2>4
  <2> QED BY <2>4, <2>5
<1>18. WellFormed(d, split)
  BY <1>7, <1>11, <1>12, <1>13, <1>16 DEF WellFormed, images, file
<1> QED BY <1>13, <1>17, <1>18 DEF Faithful

-----------------------------------------------------------------------------
(* What read_batch_file returns is what its file holds.                    *)

IsDivided(a, e, n, m) ==
  e \in Nat /\ n \in Nat \ {0} /\ m \in Nat /\ m < n /\ a = e * n + m

LEMMA Divided ==
  ASSUME NEW a, NEW e, NEW n, NEW m, IsDivided(a, e, n, m)
  PROVE  a % n = m /\ a \div n = e
<1>1. (e * n + m) % n = m /\ (e * n + m) \div n = e
  BY Remainder DEF IsDivided
<1> QED BY <1>1 DEF IsDivided

Pixels == 3 * Plane

LEMMA PixelFacts ==
  /\ Plane \in Nat /\ Pixels \in Nat /\ RecordBytes \in Nat \ {0}
  /\ RecordBytes = Pixels + 1
BY LoaderAssumption DEF Plane, RecordBytes, Pixels

(* Pixel y of a batch is pixel e of record m.                              *)
IsPixel(y, m, e) == m \in Nat \ {0} /\ e \in 1..Pixels /\ y = Pixels * (m - 1) + e

LEMMA PixelPlace ==
  ASSUME NEW y, NEW m, NEW e, IsPixel(y, m, e)
  PROVE  /\ (y - 1) \div Pixels = m - 1 /\ (y - 1) % Pixels = e - 1
         /\ (e - 1) \div Plane \in Nat /\ (y - 1) % Plane \in Nat
         /\ ((e - 1) \div Plane) * Plane + ((y - 1) % Plane) = e - 1
<1> DEFINE u == m - 1
           v == e - 1
           q == v \div Plane
           r == v % Plane
<1>1. u \in Nat /\ v \in Nat /\ Plane \in Nat \ {0} /\ v < Pixels /\ Pixels \in Nat \ {0}
      /\ y \in Int
  BY PixelFacts DEF IsPixel, Pixels
<1>2. y - 1 = u * Pixels + v
  <2>1. Pixels * u = u * Pixels /\ Pixels * u \in Nat
    BY <1>1
  <2> QED BY <1>1, <2>1 DEF IsPixel
<1> HIDE DEF u, v
<1>3. (y - 1) \div Pixels = u /\ (y - 1) % Pixels = v
  <2>1. IsDivided(y - 1, u, Pixels, v)
    BY <1>1, <1>2 DEF IsDivided
  <2> QED BY <2>1, Divided
<1>4. q \in Nat /\ r \in Nat /\ v = Plane * q + r /\ r < Plane
  BY <1>1, Quotient
<1> HIDE DEF q, r
<1>5. (y - 1) % Plane = r
  <2> DEFINE w == u * 3 + q
  <2>1. w \in Nat /\ u * 3 * Plane \in Nat
    BY <1>1, <1>4
  <2>2. w * Plane = u * 3 * Plane + q * Plane
    BY <1>1, <1>4
  <2>3. u * Pixels = u * 3 * Plane /\ q * Plane = Plane * q /\ Plane * q \in Nat
    BY <1>1, <1>4 DEF Pixels
  <2>4. y - 1 = w * Plane + r
    <3> HIDE DEF w
    <3> QED BY <1>2, <1>4, <2>1, <2>2, <2>3
  <2>5. IsDivided(y - 1, w, Plane, r)
    <3> HIDE DEF w
    <3> QED BY <1>1, <1>4, <2>1, <2>4 DEF IsDivided
  <2> QED BY <2>5, Divided
<1>6. q * Plane + r = v
  BY <1>1, <1>4
<1> QED BY <1>3, <1>4, <1>5, <1>6 DEF u, v, q, r

IsBatch(out, file) ==
  /\ file \in Seq(0..255) /\ out.count \in Nat /\ Len(file) = RecordBytes * out.count
  /\ DOMAIN out.labels = 1..out.count /\ DOMAIN out.pixels = 1..Pixels * out.count
  /\ \A m \in 1..out.count : /\ out.labels[m] = file[RecordBytes * (m - 1) + 1]
                             /\ out.labels[m] \in 0..9
  /\ \A m \in 1..out.count : \A e \in 1..Pixels :
       out.pixels[Pixels * (m - 1) + e] =
         <<(e - 1) \div Plane + 1, file[RecordBytes * (m - 1) + (e + 1)]>>

(* A place in the piece, and the same place in what is joined.             *)
IsPlace(x, w, c, m, e) == x = w * (m - 1) + e /\ x \in 1..w * c

LEMMA PlaceInPiece ==
  ASSUME NEW w \in Nat, NEW c \in Nat, NEW m \in 1..c, NEW e \in 1..w
  PROVE  IsPlace(w * (m - 1) + e, w, c, m, e)
<1> DEFINE u == m - 1
<1>1. u \in Nat /\ u + 1 <= c /\ w * u \in Nat
  OBVIOUS
<1>2. w * (u + 1) <= w * c
  <2>1. (u + 1) * w <= c * w
    BY <1>1, ProductIsMonotone
  <2>2. (u + 1) * w = w * (u + 1) /\ c * w = w * c
    BY <1>1
  <2> QED BY <2>1, <2>2
<1>3. w * (u + 1) = w * u + w
  BY <1>1
<1>4. w * c \in Nat
  OBVIOUS
<1> HIDE DEF u
<1>5. w * u + e \in 1..w * c
  BY <1>1, <1>2, <1>3, <1>4
<1> QED BY <1>5 DEF u, IsPlace

LEMMA BatchFacts ==
  ASSUME NEW file \in File, NEW out \in read_batch_file(file)
  PROVE  IsBatch(out, file)
<1> DEFINE n == Len(file) \div RecordBytes
<1>1. file # NoFile /\ Len(file) % RecordBytes = 0 /\ out = parse_records(file, n)
      /\ ~(\E e \in DOMAIN out.labels : out.labels[e] > 9)
  BY DEF read_batch_file
<1>2. file \in Seq(0..255) /\ Len(file) \in Nat
  BY <1>1 DEF File
<1>3. n \in Nat /\ Len(file) = RecordBytes * n
  <2> DEFINE l == Len(file)
  <2>1. l \in Nat
    BY <1>2
  <2> HIDE DEF l
  <2>2. /\ l \div RecordBytes \in Nat /\ l % RecordBytes \in Nat
        /\ l = RecordBytes * (l \div RecordBytes) + (l % RecordBytes)
    BY <2>1, PixelFacts, Quotient
  <2>3. l % RecordBytes = 0
    BY <1>1 DEF l
  <2> DEFINE q == l \div RecordBytes
  <2>4. RecordBytes * q \in Nat
    BY <2>2, PixelFacts
  <2>5. l = RecordBytes * q
    <3> HIDE DEF q
    <3> QED BY <2>2, <2>3, <2>4 DEF q
  <2> QED BY <2>2, <2>5 DEF l
<1> HIDE DEF n
<1>4. out.count = n
  BY <1>1 DEF parse_records
<1>5. out.labels = [e \in 1..n |-> file[(e - 1) * RecordBytes + 1]]
  BY <1>1 DEF parse_records
<1> DEFINE Pixel(y) ==
             normalized(((y - 1) % Pixels) \div Plane + 1,
                        file[((y - 1) \div Pixels) * RecordBytes + 1
                             + (((y - 1) % Pixels) \div Plane) * Plane + ((y - 1) % Plane) + 1])
<1>6. out.pixels = [y \in 1..n * 3 * Plane |-> Pixel(y)]
  BY <1>1 DEF parse_records, Pixels
<1>7. n * 3 * Plane = Pixels * n
  BY <1>3, PixelFacts DEF Pixels
<1>8. DOMAIN out.labels = 1..n /\ DOMAIN out.pixels = 1..Pixels * n
  BY <1>5, <1>6, <1>7
<1>9. ASSUME NEW m \in 1..n
      PROVE  out.labels[m] = file[RecordBytes * (m - 1) + 1] /\ out.labels[m] \in 0..9
  <2>1. (m - 1) * RecordBytes = RecordBytes * (m - 1) /\ m \in Nat
    BY <1>3, PixelFacts
  <2> DEFINE x == RecordBytes * (m - 1) + 1
             v == file[x]
  <2>2. out.labels[m] = v
    BY <1>5, <2>1
  <2>3. x \in 1..Len(file)
    <3>1. 1 \in 1..RecordBytes
      BY PixelFacts
    <3>2. IsPlace(x, RecordBytes, n, m, 1)
      BY <1>3, <3>1, PixelFacts, PlaceInPiece
    <3> HIDE DEF x
    <3> QED BY <1>3, <3>2 DEF IsPlace
  <2> HIDE DEF x
  <2>4. v \in 0..255
    BY ONLY <1>2, <2>3, ElementOf
  <2>5. ~(out.labels[m] > 9)
    BY <1>1, <1>8
  <2> HIDE DEF v
  <2>6. v \in 0..9
    BY <2>2, <2>4, <2>5
  <2> QED BY <2>2, <2>6 DEF v, x
<1>10. ASSUME NEW m \in 1..n, NEW e \in 1..Pixels
       PROVE  out.pixels[Pixels * (m - 1) + e] =
                <<(e - 1) \div Plane + 1, file[RecordBytes * (m - 1) + (e + 1)]>>
  <2> DEFINE y == Pixels * (m - 1) + e
  <2>1. y \in 1..Pixels * n
    <3>1. IsPlace(y, Pixels, n, m, e)
      BY <1>3, PixelFacts, PlaceInPiece
    <3> HIDE DEF y
    <3> QED BY <3>1 DEF IsPlace
  <2>2. IsPixel(y, m, e)
    BY <1>3 DEF IsPixel
  <2> HIDE DEF y
  <2>3. out.pixels[y] = Pixel(y)
    BY <1>6, <1>7, <2>1
  <2>4. /\ (y - 1) \div Pixels = m - 1 /\ (y - 1) % Pixels = e - 1
        /\ (e - 1) \div Plane \in Nat /\ (y - 1) % Plane \in Nat
        /\ ((e - 1) \div Plane) * Plane + ((y - 1) % Plane) = e - 1
    BY <2>2, PixelPlace
  <2> DEFINE c == (e - 1) \div Plane
             p == (y - 1) % Plane
  <2>5. Pixel(y) = <<c + 1, file[(m - 1) * RecordBytes + 1 + c * Plane + p + 1]>>
    BY <2>4 DEF normalized
  <2>6. c \in Nat /\ p \in Nat /\ c * Plane + p = e - 1
    BY <2>4
  <2> HIDE DEF c, p
  <2>7. (m - 1) * RecordBytes + 1 + c * Plane + p + 1 = RecordBytes * (m - 1) + (e + 1)
    <3>1. c * Plane \in Nat /\ (m - 1) * RecordBytes = RecordBytes * (m - 1)
          /\ RecordBytes * (m - 1) \in Nat
      BY <1>3, <2>6, PixelFacts
    <3> DEFINE a == c * Plane
               b == RecordBytes * (m - 1)
    <3>2. b + 1 + a + p + 1 = b + (e + 1)
      <4>1. a \in Nat /\ b \in Nat /\ a + p = e - 1
        BY <2>6, <3>1
      <4> HIDE DEF a, b
      <4> QED BY <2>6, <4>1
    <3> QED BY <3>1, <3>2
  <2> QED BY <2>3, <2>5, <2>7 DEF y, c
<1> QED BY <1>2, <1>3, <1>4, <1>8, <1>9, <1>10 DEF IsBatch

-----------------------------------------------------------------------------
(* What load_cifar returns is what its files hold, one after the other.    *)

LEMMA LengthOfFunction ==
  ASSUME NEW n \in Nat, NEW J, NEW X, J \in [1..n -> X]
  PROVE  J \in Seq(X) /\ Len(J) = n
OBVIOUS

(* Element e of the record that is the n-th of all, and the m-th of its    *)
(* file.                                                                   *)
IsPlaceOf(A, f, w, b, m, e, n) ==
  /\ w * (n - 1) + e = Scaled(A, w)[b - 1] + (w * (m - 1) + e)
  /\ w * (m - 1) + e \in 1..Scaled(f, w)[b]

LEMMA PlaceOfRecord ==
  ASSUME NEW s \in Nat, NEW A, NEW f, Layout(A, f, s), NEW w \in Nat,
         NEW b \in 1..s, NEW m \in 1..f[b], NEW e \in 1..w, NEW n, IsAt(n, A, b, m)
  PROVE  IsPlaceOf(A, f, w, b, m, e, n)
<1>0. A \in [0..s -> Nat] /\ f \in [1..s -> Nat]
  BY DEF Layout
<1>1. /\ A \in [0..s -> Nat] /\ f \in [1..s -> Nat] /\ b \in 1..s /\ b - 1 \in 0..s
      /\ DOMAIN A = 0..s /\ DOMAIN f = 1..s
  BY <1>0
<1> DEFINE a == A[b - 1]
           c == f[b]
           u == m - 1
<1>2. a \in Nat /\ c \in Nat /\ m \in 1..c
  BY <1>1
<1>3. Scaled(A, w)[b - 1] = w * a /\ Scaled(f, w)[b] = w * c
  BY <1>1 DEF Scaled
<1>4. n - 1 = a + u /\ u \in Nat
  BY <1>2 DEF IsAt
<1> HIDE DEF a, c
<1>5. IsPlace(w * (m - 1) + e, w, c, m, e)
  BY <1>2, PlaceInPiece
<1> HIDE DEF u
<1>6. w * (a + u) = w * a + w * u /\ w * a \in Nat /\ w * u \in Nat
  BY <1>2, <1>4
<1>7. w * (n - 1) + e = w * a + (w * u + e)
  BY <1>4, <1>6
<1> QED BY <1>3, <1>5, <1>7 DEF IsPlace, IsPlaceOf, u

Parsed(files) == [b \in DOMAIN files |-> CHOOSE r \in read_batch_file(files[b]) : TRUE]

CountsOf(files) == [b \in DOMAIN files |-> Parsed(files)[b].count]

LEMMA BatchesFacts ==
  ASSUME NEW files, Holds(files, "cifar"), NEW d \in load_cifar(files)
  PROVE  /\ files \in Seq(Seq(0..255)) /\ Len(files) # 0
         /\ DOMAIN Parsed(files) = 1..Len(files) /\ d = concat_into(Parsed(files))
         /\ CountsOf(files) \in [1..Len(files) -> Nat]
         /\ \A b \in 1..Len(files) : /\ IsBatch(Parsed(files)[b], files[b])
                                     /\ CountsOf(files)[b] = Parsed(files)[b].count
<1> DEFINE n == Len(files)
<1>1. files \in Seq(File) /\ DOMAIN files = 1..n /\ n \in Nat
  BY DEF Holds
<1>2. /\ files # <<>> /\ \A b \in DOMAIN files : read_batch_file(files[b]) # {}
      /\ d = concat_into(Parsed(files))
  <2> DEFINE batches == [b \in DOMAIN files |-> read_batch_file(files[b])]
             chosen == [b \in DOMAIN files |-> CHOOSE r \in batches[b] : TRUE]
  <2>1. /\ files # <<>> /\ \A b \in DOMAIN files : batches[b] # {}
        /\ d = concat_into(chosen)
    BY DEF load_cifar
  <2>2. \A b \in DOMAIN files : batches[b] = read_batch_file(files[b])
    OBVIOUS
  <2>3. chosen = Parsed(files)
    BY <2>2 DEF Parsed
  <2> HIDE DEF batches, chosen
  <2> QED BY <2>1, <2>2, <2>3
<1>3. n # 0
  BY <1>1, <1>2
<1>4. ASSUME NEW b \in 1..n PROVE IsBatch(Parsed(files)[b], files[b])
  <2>1. files[b] \in File
    BY <1>1
  <2>2. Parsed(files)[b] \in read_batch_file(files[b])
    BY <1>1, <1>2 DEF Parsed
  <2> QED BY <2>1, <2>2, BatchFacts
<1>5. ASSUME NEW b \in 1..n
      PROVE  /\ files[b] \in Seq(0..255) /\ Parsed(files)[b].count \in Nat
             /\ CountsOf(files)[b] = Parsed(files)[b].count
  BY <1>1, <1>4 DEF IsBatch, CountsOf
<1>6. files \in Seq(Seq(0..255))
  <2>1. files \in [1..n -> Seq(0..255)]
    BY <1>1, <1>5
  <2> HIDE DEF n
  <2> QED BY <1>1, <2>1, LengthOfFunction
<1>7. CountsOf(files) \in [1..n -> Nat]
  <2>1. CountsOf(files) = [b \in 1..n |-> CountsOf(files)[b]]
    BY <1>1 DEF CountsOf
  <2> HIDE DEF n
  <2> QED BY <1>5, <2>1
<1>8. DOMAIN Parsed(files) = 1..n
  BY <1>1 DEF Parsed
<1> QED BY <1>2, <1>3, <1>4, <1>5, <1>6, <1>7, <1>8

Chunks(batches, field) == [b \in DOMAIN batches |-> batches[b][field]]

Places(count, width) == [b \in DOMAIN count |-> width * OffsetOf(count, b)]

LEMMA ConcatUnfolds ==
  ASSUME NEW files, Holds(files, "cifar"), NEW d \in load_cifar(files)
  PROVE  d = LET B == Parsed(files)
                 c == CountsOf(files)
                 total == SumFunction(c)
             IN [count |-> total,
                 labels |-> Joined(Chunks(B, "labels"), Places(c, 1), total * 1),
                 pixels |-> Joined(Chunks(B, "pixels"), Places(c, Pixels), total * Pixels)]
<1>1. d = concat_into(Parsed(files)) /\ DOMAIN Parsed(files) = DOMAIN files
  BY BatchesFacts DEF Parsed
<1>2. [b \in DOMAIN Parsed(files) |-> Parsed(files)[b].count] = CountsOf(files)
      /\ DOMAIN CountsOf(files) = DOMAIN Parsed(files)
  BY <1>1 DEF CountsOf
<1> QED BY <1>1, <1>2 DEF concat_into, Chunks, Places, Pixels

LEMMA PlacesFacts ==
  ASSUME NEW n \in Nat, NEW c \in [1..n -> Nat], NEW w \in Nat, NEW b \in 1..n
  PROVE  Places(c, w)[b] = Scaled(Sums(c, n), w)[b - 1]
<1>1. b \in DOMAIN c /\ b - 1 \in 0..n
  OBVIOUS
<1>2. Places(c, w)[b] = w * SumFunctionOnSet(c, 1..b - 1)
  BY <1>1 DEF Places, OffsetOf
<1>3. Scaled(Sums(c, n), w)[b - 1] = w * SumFunctionOnSet(c, 1..b - 1)
  BY <1>1 DEF Scaled, Sums
<1> QED BY <1>2, <1>3

(* The two tensors of d, and the bytes of all the files.                   *)
Concatenation(d, files, B, A, c) ==
  /\ d.count = A[Len(files)]
  /\ InOrder(Chunks(B, "labels"), d.labels, A, c, Len(files))
  /\ InOrder(Chunks(B, "pixels"), d.pixels, Scaled(A, Pixels), Scaled(c, Pixels), Len(files))
  /\ Flat(FlattenSeq(files), 0..255, files, Scaled(A, RecordBytes), Scaled(c, RecordBytes),
          Len(files))

LEMMA ConcatInOrder ==
  ASSUME NEW files, Holds(files, "cifar"), NEW d \in load_cifar(files)
  PROVE  \E A : /\ Layout(A, CountsOf(files), Len(files))
                /\ Concatenation(d, files, Parsed(files), A, CountsOf(files))
<1> DEFINE n == Len(files)
           B == Parsed(files)
           c == CountsOf(files)
           A == Sums(c, n)
<1>1. /\ files \in Seq(Seq(0..255)) /\ n # 0 /\ DOMAIN B = 1..n /\ c \in [1..n -> Nat]
      /\ \A b \in 1..n : IsBatch(B[b], files[b]) /\ c[b] = B[b].count
  BY BatchesFacts
<1>2. n \in Nat
  BY <1>1
<1> DEFINE total == SumFunction(c)
<1>3. d = [count |-> total,
           labels |-> Joined(Chunks(B, "labels"), Places(c, 1), total * 1),
           pixels |-> Joined(Chunks(B, "pixels"), Places(c, Pixels), total * Pixels)]
  BY ConcatUnfolds
<1> HIDE DEF n, B, c
<1>4. Layout(A, c, n) /\ total = A[n]
  BY <1>1, <1>2, SumLayout
<1>5. \A b \in 1..n : \A w \in Nat : Places(c, w)[b] = Scaled(A, w)[b - 1]
  BY <1>1, <1>2, PlacesFacts
<1> HIDE DEF A, total
<1>6. /\ A \in [0..n -> Nat] /\ A[n] \in Nat /\ n \in 0..n
      /\ DOMAIN A = 0..n /\ DOMAIN c = 1..n
  <2>1. A \in [0..n -> Nat]
    BY <1>4 DEF Layout
  <2> QED BY <1>1, <1>2, <2>1
<1>7. d.count = A[n] /\ d.labels = Joined(Chunks(B, "labels"), Places(c, 1), total * 1)
      /\ d.pixels = Joined(Chunks(B, "pixels"), Places(c, Pixels), total * Pixels)
  BY <1>3, <1>4
<1>8. InOrder(Chunks(B, "labels"), d.labels, A, c, n)
  <2> DEFINE x == Chunks(B, "labels")
             at == Places(c, 1)
  <2>1. DOMAIN x = 1..n /\ \A b \in 1..n : x[b] = B[b].labels
    BY <1>1 DEF Chunks
  <2>2. ASSUME NEW b \in 1..n PROVE DOMAIN x[b] = 1..c[b] /\ at[b] = A[b - 1]
    <3>1. DOMAIN x[b] = 1..c[b]
      BY <1>1, <2>1 DEF IsBatch
    <3>2. at[b] = Scaled(A, 1)[b - 1] /\ b - 1 \in 0..n
      <4>1. 1 \in Nat /\ b - 1 \in 0..n
        BY <1>2
      <4>2. \A w \in Nat : Places(c, w)[b] = Scaled(A, w)[b - 1]
        BY <1>5
      <4> QED BY <4>1, <4>2
    <3>3. A[b - 1] \in Nat /\ 1 * A[b - 1] = A[b - 1]
      BY <1>6, <3>2
    <3> QED BY <1>6, <3>1, <3>2, <3>3 DEF Scaled
  <2>3. total * 1 = A[n]
    BY <1>4, <1>6
  <2> HIDE DEF x, at
  <2>4. InOrder(x, Joined(x, at, A[n]), A, c, n)
    BY <1>2, <1>4, <2>1, <2>2, JoinedInOrder
  <2> QED BY <1>7, <2>3, <2>4 DEF x, at
<1>9. InOrder(Chunks(B, "pixels"), d.pixels, Scaled(A, Pixels), Scaled(c, Pixels), n)
  <2> DEFINE x == Chunks(B, "pixels")
             at == Places(c, Pixels)
             P == Scaled(A, Pixels)
             f == Scaled(c, Pixels)
  <2>1. DOMAIN x = 1..n /\ \A b \in 1..n : x[b] = B[b].pixels
    BY <1>1 DEF Chunks
  <2>2. Layout(P, f, n)
    BY <1>2, <1>4, LayoutScales, PixelFacts
  <2>3. ASSUME NEW b \in 1..n PROVE DOMAIN x[b] = 1..f[b] /\ at[b] = P[b - 1]
    <3>1. f[b] = Pixels * c[b]
      BY <1>6 DEF Scaled
    <3>2. DOMAIN x[b] = 1..f[b]
      BY <1>1, <2>1, <3>1 DEF IsBatch
    <3>3. at[b] = P[b - 1]
      BY <1>5, PixelFacts
    <3> QED BY <3>2, <3>3
  <2>4. total * Pixels = P[n]
    BY <1>4, <1>6, PixelFacts DEF Scaled
  <2> HIDE DEF x, at, P, f
  <2>5. InOrder(x, Joined(x, at, P[n]), P, f, n)
    BY <1>2, <2>1, <2>2, <2>3, JoinedInOrder
  <2> QED BY <1>7, <2>4, <2>5 DEF x, at, P, f
<1>10. Flat(FlattenSeq(files), 0..255, files, Scaled(A, RecordBytes), Scaled(c, RecordBytes), n)
  <2> DEFINE P == Scaled(A, RecordBytes)
             f == Scaled(c, RecordBytes)
             X == 0..255
  <2>1. Layout(P, f, n)
    BY <1>2, <1>4, LayoutScales, PixelFacts
  <2>2. ASSUME NEW b \in 1..n PROVE Len(files[b]) = f[b]
    <3>1. f[b] = RecordBytes * c[b]
      BY <1>6 DEF Scaled
    <3> QED BY <1>1, <3>1 DEF IsBatch
  <2>3. files \in Seq(Seq(X)) /\ n = Len(files) /\ n \in Nat /\ n # 0
    BY <1>1, <1>2 DEF n
  <2> HIDE DEF P, f, X
  <2>4. Flat(FlattenSeq(files), X, files, P, f, n)
    BY <2>1, <2>2, <2>3, FlattenInOrder
  <2> QED BY <2>4 DEF X, P, f
<1>11. Concatenation(d, files, B, A, c)
  BY <1>7, <1>8, <1>9, <1>10 DEF Concatenation, n
<1> QED BY <1>4, <1>11 DEF n, B, c

(* Record n of all is record m of file b.                                  *)
IsRecordOf(d, files, B, b, m, n) ==
  /\ d.labels[n] = B[b].labels[m]
  /\ \A e \in 1..Pixels :
       d.pixels[Pixels * (n - 1) + e] = B[b].pixels[Pixels * (m - 1) + e]
  /\ \A e \in 1..RecordBytes :
       FlattenSeq(files)[RecordBytes * (n - 1) + e] = files[b][RecordBytes * (m - 1) + e]

LEMMA RecordFacts ==
  ASSUME NEW files \in Seq(Seq(0..255)), NEW d, NEW B, NEW A, NEW c,
         Layout(A, c, Len(files)), Concatenation(d, files, B, A, c),
         \A b \in 1..Len(files) : IsBatch(B[b], files[b]) /\ c[b] = B[b].count,
         DOMAIN B = 1..Len(files), NEW n \in 1..d.count
  PROVE  \E b \in 1..Len(files) : \E m \in 1..c[b] : IsRecordOf(d, files, B, b, m, n)
<1> DEFINE s == Len(files)
           bytes == FlattenSeq(files)
<1>1. s \in Nat /\ d.count = A[s]
  BY DEF Concatenation
<1>2. PICK b \in 1..s : \E m \in 1..c[b] : IsAt(n, A, b, m)
  <2> HIDE DEF s
  <2> QED BY <1>1, LayoutFinds DEF s, IsFound
<1>3. PICK m \in 1..c[b] : IsAt(n, A, b, m)
  BY <1>2
<1>4. d.labels[n] = B[b].labels[m]
  BY <1>3 DEF Concatenation, InOrder, Chunks, IsAt
<1>5. ASSUME NEW w \in Nat, NEW e \in 1..w
      PROVE  /\ w * (n - 1) + e = Scaled(A, w)[b - 1] + (w * (m - 1) + e)
             /\ w * (m - 1) + e \in 1..Scaled(c, w)[b]
  <2>1. IsPlaceOf(A, c, w, b, m, e, n)
    BY <1>1, <1>3, PlaceOfRecord
  <2> QED BY <2>1 DEF IsPlaceOf
<1>6. ASSUME NEW e \in 1..Pixels
      PROVE  d.pixels[Pixels * (n - 1) + e] = B[b].pixels[Pixels * (m - 1) + e]
  <2> DEFINE x == Pixels * (m - 1) + e
             y == Pixels * (n - 1) + e
  <2>1. y = Scaled(A, Pixels)[b - 1] + x /\ x \in 1..Scaled(c, Pixels)[b]
    BY <1>5, PixelFacts
  <2> HIDE DEF x, y
  <2>2. d.pixels[Scaled(A, Pixels)[b - 1] + x] = Chunks(B, "pixels")[b][x]
    BY <2>1 DEF Concatenation, InOrder
  <2>3. Chunks(B, "pixels")[b] = B[b].pixels
    BY DEF Chunks
  <2> QED BY <2>1, <2>2, <2>3 DEF x, y
<1>7. ASSUME NEW e \in 1..RecordBytes
      PROVE  bytes[RecordBytes * (n - 1) + e] = files[b][RecordBytes * (m - 1) + e]
  <2> DEFINE x == RecordBytes * (m - 1) + e
             y == RecordBytes * (n - 1) + e
  <2>1. y = Scaled(A, RecordBytes)[b - 1] + x /\ x \in 1..Scaled(c, RecordBytes)[b]
    BY <1>5, PixelFacts
  <2> HIDE DEF x, y
  <2>2. bytes[Scaled(A, RecordBytes)[b - 1] + x] = files[b][x]
    BY <2>1 DEF Concatenation, Flat
  <2> QED BY <2>1, <2>2 DEF x, y
<1> QED BY <1>4, <1>6, <1>7 DEF IsRecordOf

(* The piece n of width w of a sequence.                                   *)
LEMMA PieceFacts ==
  ASSUME NEW X, NEW q \in Seq(X), NEW w \in Nat, NEW c \in Nat, Len(q) = w * c, NEW n \in 1..c
  PROVE  LET p == SubSeq(q, w * (n - 1) + 1, w * n)
         IN /\ p = [e \in 1..w |-> q[w * (n - 1) + e]]
            /\ \A e \in 1..w : p[e] = q[w * (n - 1) + e]
<1> DEFINE u == n - 1
           a == w * u
<1>1. u \in Nat /\ a \in Nat /\ w * n = a + w /\ u + 1 <= c
  <2>1. u \in Nat /\ n = u + 1
    OBVIOUS
  <2>2. w * (u + 1) = w * u + w /\ w * u \in Nat
    BY <2>1
  <2> QED BY <2>1, <2>2
<1>2. a + w <= Len(q)
  <2>1. n * w <= c * w
    BY ProductIsMonotone
  <2>2. n * w = w * n /\ c * w = w * c
    OBVIOUS
  <2> QED BY <1>1, <2>1, <2>2
<1> DEFINE b == w * n
           p == SubSeq(q, a + 1, b)
<1>3. b = a + w
  BY <1>1
<1> HIDE DEF u, a, b
<1>4. a + 1 \in 1..Len(q) + 1 /\ b \in Nat /\ a + 1 <= b + 1 /\ b <= Len(q)
      /\ b - (a + 1) + 1 = w
  BY <1>1, <1>2, <1>3
<1>5. /\ p \in Seq(X) /\ Len(p) = b - (a + 1) + 1 /\ DOMAIN p = 1..b - (a + 1) + 1
      /\ \A e \in 1..b - (a + 1) + 1 : p[e] = q[a + 1 + e - 1]
  <2>1. IsPiece(X, q, a + 1, b)
    BY <1>4 DEF IsPiece
  <2>2. PieceIs(p, X, q, a + 1, b)
    BY <2>1, SubSeqFacts
  <2> HIDE DEF p
  <2> QED BY <2>2 DEF PieceIs
<1>6. p = [e \in 1..Len(p) |-> p[e]]
  <2> HIDE DEF p
  <2> QED BY <1>5
<1> HIDE DEF p
<1>7. p = [e \in 1..w |-> p[e]] /\ \A e \in 1..w : p[e] = q[a + e]
  <2>1. Len(p) = w
    BY <1>4, <1>5
  <2>2. \A e \in 1..w : p[e] = q[a + 1 + e - 1]
    BY <1>4, <1>5
  <2>3. \A e \in 1..w : a + 1 + e - 1 = a + e
    BY <1>1
  <2> QED BY <1>6, <2>1, <2>2, <2>3
<1>8. p = [e \in 1..w |-> q[a + e]] /\ \A e \in 1..w : p[e] = q[a + e]
  BY <1>7
<1> QED BY <1>8 DEF p, a, u, b

LEMMA TotalFacts ==
  ASSUME NEW s \in Nat, NEW A, NEW f, Layout(A, f, s), NEW w \in Nat
  PROVE  A[s] \in Nat /\ Scaled(A, w)[s] = w * A[s] /\ w * A[s] \in Nat
<1>1. A \in [0..s -> Nat] /\ s \in 0..s
  BY DEF Layout
<1>2. A[s] \in Nat /\ DOMAIN A = 0..s
  BY <1>1
<1>3. Scaled(A, w)[s] = w * A[s]
  BY <1>1, <1>2 DEF Scaled
<1> QED BY <1>2, <1>3

(* The bytes of record n, and the pixels that were read of it.             *)
RecordOf(bytes, n) == SubSeq(bytes, (n - 1) * RecordBytes + 1, n * RecordBytes)

PixelsOf(d, n) == SubSeq(d.pixels, (n - 1) * 3 * Plane + 1, n * 3 * Plane)

LEMMA RecordIs ==
  ASSUME NEW bytes \in Seq(0..255), NEW c \in Nat, Len(bytes) = RecordBytes * c, NEW n \in 1..c
  PROVE  \A e \in 1..RecordBytes : RecordOf(bytes, n)[e] = bytes[RecordBytes * (n - 1) + e]
<1>1. (n - 1) * RecordBytes = RecordBytes * (n - 1) /\ n * RecordBytes = RecordBytes * n
      /\ RecordBytes \in Nat
  BY PixelFacts
<1>2. RecordOf(bytes, n) = SubSeq(bytes, RecordBytes * (n - 1) + 1, RecordBytes * n)
  BY <1>1 DEF RecordOf
<1> QED BY <1>1, <1>2, PieceFacts

LEMMA PixelsAre ==
  ASSUME NEW X, NEW d, d.pixels \in Seq(X), NEW c \in Nat, Len(d.pixels) = Pixels * c,
         NEW n \in 1..c
  PROVE  PixelsOf(d, n) = [e \in 1..Pixels |-> d.pixels[Pixels * (n - 1) + e]]
<1>1. (n - 1) * 3 * Plane = Pixels * (n - 1) /\ n * 3 * Plane = Pixels * n
      /\ Pixels \in Nat
  BY PixelFacts DEF Pixels
<1>2. PixelsOf(d, n) = SubSeq(d.pixels, Pixels * (n - 1) + 1, Pixels * n)
  BY <1>1 DEF PixelsOf
<1> QED BY <1>1, <1>2, PieceFacts

LEMMA CifarFaithful ==
  ASSUME NEW split, Holds(split, "cifar"), program.data # "mnist", NEW d \in load_cifar(split)
  PROVE  Faithful(d, split)
<1> DEFINE s == Len(split)
           B == Parsed(split)
           f == CountsOf(split)
           bytes == FlattenSeq(split)
           N == d.count
<1>1. /\ split \in Seq(Seq(0..255)) /\ DOMAIN B = 1..s /\ f \in [1..s -> Nat]
      /\ \A b \in 1..s : IsBatch(B[b], split[b]) /\ f[b] = B[b].count
  BY BatchesFacts
<1>2. s \in Nat
  BY <1>1
<1>3. PICK A : Layout(A, f, s) /\ Concatenation(d, split, B, A, f)
  BY ConcatInOrder
<1>4. ASSUME NEW n \in 1..N
      PROVE  \E b \in 1..s : \E m \in 1..f[b] : IsRecordOf(d, split, B, b, m, n)
  <2> HIDE DEF B, f
  <2> QED BY <1>1, <1>3, RecordFacts
<1>5. /\ N = A[s]
      /\ InOrder(Chunks(B, "labels"), d.labels, A, f, s)
      /\ InOrder(Chunks(B, "pixels"), d.pixels, Scaled(A, Pixels), Scaled(f, Pixels), s)
      /\ Flat(bytes, 0..255, split, Scaled(A, RecordBytes), Scaled(f, RecordBytes), s)
  BY <1>3 DEF Concatenation
<1> HIDE DEF s, B, f, bytes, N
<1>6. /\ N \in Nat /\ Scaled(A, Pixels)[s] = Pixels * N /\ Pixels * N \in Nat
      /\ Scaled(A, RecordBytes)[s] = RecordBytes * N /\ RecordBytes * N \in Nat
  BY <1>2, <1>3, <1>5, TotalFacts, PixelFacts
<1>7. bytes \in Seq(0..255) /\ Len(bytes) = RecordBytes * N
  BY <1>5, <1>6 DEF Flat
<1>8. DOMAIN d.labels = 1..N /\ Len(d.labels) = N
  <2> DEFINE q == d.labels
             X == {q[z] : z \in DOMAIN q}
  <2>1. DOMAIN q = 1..N /\ q = [z \in DOMAIN q |-> q[z]]
    BY <1>5 DEF InOrder
  <2> HIDE DEF q
  <2>2. q \in [1..N -> X]
    BY <2>1
  <2> HIDE DEF X
  <2>3. Len(q) = N
    BY <1>6, <2>2, LengthOfFunction
  <2> QED BY <2>1, <2>3 DEF q
<1>9. \E X : d.pixels \in Seq(X) /\ Len(d.pixels) = Pixels * N
  <2> DEFINE q == d.pixels
             l == Pixels * N
             X == {q[z] : z \in DOMAIN q}
  <2>1. DOMAIN q = 1..l /\ q = [z \in DOMAIN q |-> q[z]] /\ l \in Nat
    BY <1>5, <1>6 DEF InOrder
  <2> HIDE DEF q, l
  <2>2. q \in [1..l -> X]
    BY <2>1
  <2> HIDE DEF X
  <2>3. q \in Seq(X) /\ Len(q) = l
    BY <2>1, <2>2, LengthOfFunction
  <2> QED BY <2>3 DEF q, l
<1>10. ASSUME NEW n \in 1..N
       PROVE  /\ d.labels[n] = RecordOf(bytes, n)[1] /\ d.labels[n] \in 0..9
              /\ PixelsOf(d, n) =
                   [e \in 1..3 * Plane |-> <<(e - 1) \div Plane + 1, RecordOf(bytes, n)[e + 1]>>]
  <2>1. PICK b \in 1..s : \E m \in 1..f[b] : IsRecordOf(d, split, B, b, m, n)
    BY <1>4
  <2>2. PICK m \in 1..f[b] : IsRecordOf(d, split, B, b, m, n)
    BY <2>1
  <2>0. /\ d.labels[n] = B[b].labels[m]
        /\ \A e \in 1..Pixels :
             d.pixels[Pixels * (n - 1) + e] = B[b].pixels[Pixels * (m - 1) + e]
        /\ \A e \in 1..RecordBytes :
             bytes[RecordBytes * (n - 1) + e] = split[b][RecordBytes * (m - 1) + e]
    BY <2>2 DEF IsRecordOf, bytes
  <2>3. m \in 1..B[b].count /\ IsBatch(B[b], split[b])
    BY <1>1
  <2> DEFINE at(e) == RecordBytes * (m - 1) + e
  <2>4. ASSUME NEW e \in 1..RecordBytes
        PROVE  RecordOf(bytes, n)[e] = split[b][at(e)]
    <3>1. RecordOf(bytes, n)[e] = bytes[RecordBytes * (n - 1) + e]
      BY <1>6, <1>7, RecordIs
    <3> QED BY <2>0, <3>1
  <2>5. /\ B[b].labels[m] = split[b][at(1)] /\ B[b].labels[m] \in 0..9
        /\ \A e \in 1..Pixels : B[b].pixels[Pixels * (m - 1) + e] =
                                  <<(e - 1) \div Plane + 1, split[b][at(e + 1)]>>
    BY <2>3 DEF IsBatch
  <2>6. 1 \in 1..RecordBytes /\ \A e \in 1..Pixels : e + 1 \in 1..RecordBytes
    BY PixelFacts
  <2>7. d.labels[n] = RecordOf(bytes, n)[1] /\ d.labels[n] \in 0..9
    BY <2>0, <2>4, <2>5, <2>6
  <2>8. PixelsOf(d, n) = [e \in 1..Pixels |-> d.pixels[Pixels * (n - 1) + e]]
    BY <1>6, <1>9, PixelsAre
  <2>9. ASSUME NEW e \in 1..Pixels
        PROVE  d.pixels[Pixels * (n - 1) + e] =
                 <<(e - 1) \div Plane + 1, RecordOf(bytes, n)[e + 1]>>
    <3>1. d.pixels[Pixels * (n - 1) + e] = <<(e - 1) \div Plane + 1, split[b][at(e + 1)]>>
      BY <2>0, <2>5
    <3>2. RecordOf(bytes, n)[e + 1] = split[b][at(e + 1)]
      <4> HIDE DEF at
      <4> QED BY <2>4, <2>6
    <3> QED BY <3>1, <3>2
  <2>10. PixelsOf(d, n) =
           [e \in 1..Pixels |-> <<(e - 1) \div Plane + 1, RecordOf(bytes, n)[e + 1]>>]
    BY <2>8, <2>9
  <2> QED BY <2>7, <2>10 DEF Pixels
<1>11. WellFormed(d, split)
  <2>1. N * RecordBytes = RecordBytes * N /\ N * 3 * Plane = Pixels * N
    BY <1>6, PixelFacts DEF Pixels
  <2>2. Len(bytes) = d.count * RecordBytes /\ Len(d.labels) = d.count
        /\ Len(d.pixels) = d.count * 3 * Plane
    BY <1>7, <1>8, <1>9, <2>1 DEF N
  <2>3. \A n \in 1..d.count :
          /\ d.labels[n] = RecordOf(bytes, n)[1]
          /\ PixelsOf(d, n) =
               [e \in 1..3 * Plane |-> <<(e - 1) \div Plane + 1, RecordOf(bytes, n)[e + 1]>>]
    BY <1>10 DEF N
  <2> QED BY <2>2, <2>3 DEF WellFormed, RecordOf, PixelsOf, bytes
<1>12. \A n \in DOMAIN d.labels : d.labels[n] \in 0..9
  BY <1>8, <1>10
<1> QED BY <1>11, <1>12 DEF Faithful

-----------------------------------------------------------------------------
(* What is loaded stays what load made of the directory.                   *)

DataIsRead == train \subseteq load(directory.train) /\ test \subseteq load(directory.test)

LEMMA InvariantDataIsRead == Spec => []DataIsRead
<1>1. Init => DataIsRead
  BY DEF Init, DataIsRead
<1>2. DataIsRead /\ [Next]_vars => DataIsRead'
  <2> SUFFICES ASSUME DataIsRead, [Next]_vars PROVE DataIsRead'
    OBVIOUS
  <2>1. CASE Load
    BY <2>1 DEF Load, DataIsRead, load
  <2>2. CASE Fixed
    BY <2>2 DEF Fixed, data, DataIsRead, load
  <2>3. \/ StartEpoch \/ Pass \/ ManualStep \/ OptimizerStep \/ EndBatch \/ EndEpoch
        \/ Evaluate \/ Finish \/ UNCHANGED vars
        => Fixed
    BY DEF StartEpoch, Pass, ManualStep, OptimizerStep, EndBatch, EndEpoch, Evaluate, Finish,
           vars, Fixed
  <2> QED BY <2>1, <2>2, <2>3 DEF Next
<1> QED BY <1>1, <1>2, PTL DEF Spec

LEMMA ReadIsFaithful ==
  ASSUME TypeInv, NEW split \in {directory.train, directory.test}, NEW d \in load(split)
  PROVE  Faithful(d, split)
<1>1. Holds(split, program.data) /\ program.data \in {"mnist", "cifar"}
  BY TrainingAssumption DEF TypeInv
<1>2. CASE program.data = "mnist"
  BY <1>1, <1>2, MnistFaithful DEF load
<1>3. CASE program.data # "mnist"
  BY <1>1, <1>3, CifarFaithful DEF load
<1> QED BY <1>2, <1>3

(* MnistLoader.cpp 30-150, CifarLoader.cpp 40-154: whatever the files hold *)
(* and however many there are, a data set that was loaded is all of their  *)
(* data, every label in range and beside the pixels of its own image.      *)
THEOREM LoadedCorrect == Spec => []LoadedIsWhatFilesHold
<1>1. IInv /\ DataIsRead => LoadedIsWhatFilesHold
  <2> SUFFICES ASSUME IInv, DataIsRead,
                      NEW s \in {<<train, directory.train>>, <<test, directory.test>>},
                      NEW d \in s[1]
               PROVE  /\ WellFormed(d, s[2])
                      /\ \A n \in DOMAIN d.labels : d.labels[n] \in 0..9
    BY DEF LoadedIsWhatFilesHold
  <2>1. d \in load(s[2]) /\ s[2] \in {directory.train, directory.test}
    BY DEF DataIsRead
  <2>2. Faithful(d, s[2])
    BY <2>1, ReadIsFaithful DEF IInv
  <2> QED BY <2>2 DEF Faithful
<1> QED BY <1>1, InvariantIInv, InvariantDataIsRead, PTL
=============================================================================
