------------------------------- MODULE Loader -------------------------------
(***************************************************************************)
(* data/MnistLoader.cpp and data/CifarLoader.cpp.  A file is a sequence of *)
(* bytes, or NoFile.  A result is the set of the one thing that was read,  *)
(* or empty when the code throws.  A pixel is normalised by its own        *)
(* channel's statistics, which only the channel tells apart.               *)
(***************************************************************************)
EXTENDS Integers, Sequences, SequencesExt

CONSTANTS NoFile,
          Side     \* rows and columns of an image: 28 for MNIST, 32 for CIFAR

ASSUME LoaderAssumption == Side \in Nat

File == Seq(0..255) \cup {NoFile}

Plane == Side * Side

normalized(channel, byte) == <<channel, byte>>

-----------------------------------------------------------------------------
(* MNIST: magic | count | rows | cols | pixels and magic | count | labels. *)

kMagicImage == 2051
kMagicLabel == 2049

read_be_u32(bytes, at) ==
  bytes[at + 4] + 256 * (bytes[at + 3] + 256 * (bytes[at + 2] + 256 * bytes[at + 1]))

read_idx_images(file) ==
  IF \/ file = NoFile \/ Len(file) < 16
     \/ read_be_u32(file, 0) # kMagicImage
     \/ read_be_u32(file, 8) # Side \/ read_be_u32(file, 12) # Side
     \/ Len(file) - 16 < read_be_u32(file, 4) * Plane
  THEN {}
  ELSE {[count |-> read_be_u32(file, 4),
         pixels |-> [k \in 1..read_be_u32(file, 4) * Plane |-> normalized(1, file[16 + k])]]}

read_idx_labels(file) ==
  IF \/ file = NoFile \/ Len(file) < 8
     \/ read_be_u32(file, 0) # kMagicLabel
     \/ Len(file) - 8 < read_be_u32(file, 4)
     \/ \E k \in 1..read_be_u32(file, 4) : file[8 + k] > 9
  THEN {}
  ELSE {SubSeq(file, 9, 8 + read_be_u32(file, 4))}

(* load_split of MnistLoader.                                              *)
load_mnist(split) ==
  {[count |-> both[1].count, pixels |-> both[1].pixels, labels |-> both[2]] :
     both \in {r \in read_idx_images(split.images) \X read_idx_labels(split.labels) :
                 r[1].count = Len(r[2])}}

-----------------------------------------------------------------------------
(* CIFAR-10: records of a label and three planes, in several files.        *)

RecordBytes == 1 + 3 * Plane

(* parse_record writes plane c of record i where NCHW has it.              *)
parse_records(file, n) ==
  [count |-> n,
   labels |-> [i \in 1..n |-> file[(i - 1) * RecordBytes + 1]],
   pixels |-> [k \in 1..n * 3 * Plane |->
                 LET i == (k - 1) \div (3 * Plane)
                     c == ((k - 1) % (3 * Plane)) \div Plane
                     p == (k - 1) % Plane
                 IN normalized(c + 1, file[i * RecordBytes + 1 + c * Plane + p + 1])]]

read_batch_file(file) ==
  IF file = NoFile \/ Len(file) % RecordBytes # 0 THEN {}
  ELSE LET out == parse_records(file, Len(file) \div RecordBytes)
       IN IF \E i \in DOMAIN out.labels : out.labels[i] > 9 THEN {} ELSE {out}

FirstAtZero(count, b) == 0

(* Where concat_into puts batch b: after those before it.                  *)
OffsetOf(count, b) == SumFunctionOnSet(count, 1..b - 1)

(* memcpy of chunk to out + at.                                            *)
Placed(out, at, chunk) ==
  [k \in DOMAIN out |-> IF k - at \in DOMAIN chunk THEN chunk[k - at] ELSE out[k]]

(* memcpy of every chunk to its place in a new tensor of zeros.            *)
Joined(chunks, at, size) ==
  FoldLeftDomain(LAMBDA out, b : Placed(out, at[b], chunks[b]), [k \in 1..size |-> 0], chunks)

concat_into(batches) ==
  LET count == [b \in DOMAIN batches |-> batches[b].count]
      total == SumFunction(count)
      All(field, width) == Joined([b \in DOMAIN batches |-> batches[b][field]],
                                  [b \in DOMAIN batches |-> width * OffsetOf(count, b)],
                                  total * width)
  IN [count |-> total, labels |-> All("labels", 1), pixels |-> All("pixels", 3 * Plane)]

(* load_split of CifarLoader.                                              *)
load_cifar(files) ==
  LET batches == [b \in DOMAIN files |-> read_batch_file(files[b])]
  IN IF files = <<>> \/ \E b \in DOMAIN files : batches[b] = {} THEN {}
     ELSE {concat_into([b \in DOMAIN files |-> CHOOSE r \in batches[b] : TRUE])}
=============================================================================
