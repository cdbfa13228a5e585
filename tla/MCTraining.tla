----------------------------- MODULE MCTraining -----------------------------
(***************************************************************************)
(* Small data directories, whole and damaged, and the programs: train_mlp, *)
(* train_cnn, and clients of SGD with one-element and other parameters.    *)
(***************************************************************************)
EXTENDS Training

Linear(name) == {<<name, "weight">>, <<name, "bias">>}
Weight(name) == <<name, "weight">>

Mlp == [kind |-> "mlp", data |-> "mnist", modules |-> <<Linear("fc1"), Linear("fc2")>>,
        used |-> {Weight("fc1"), Weight("fc2")}, wide |-> Linear("fc1") \cup Linear("fc2"),
        momentum |-> TRUE]

Cnn == [Mlp EXCEPT !.kind = "cnn", !.data = "cifar",
          !.modules = <<Linear("conv1"), Linear("fc1")>>,
          !.used = Linear("conv1") \cup {Weight("fc1")},
          !.wide = Linear("conv1") \cup Linear("fc1")]

User(wide, momentum) ==
  [kind |-> "user", data |-> "cifar", modules |-> <<{"a", "b", "unused"}>>,
   used |-> {"a", "b"}, wide |-> wide, momentum |-> momentum]

MCPrograms == {Mlp, Cnn} \cup {User(w, m) : w \in SUBSET {"a", "b"}, m \in BOOLEAN}

U32(n) == <<0, 0, n \div 256, n % 256>>

Images(magic, n, rows, pixels) ==
  U32(magic) \o U32(n) \o U32(rows) \o U32(Side) \o [b \in 1..pixels |-> 10 * b]
Labels(magic, n, first, bytes) == U32(magic) \o U32(n) \o [b \in 1..bytes |-> first + b]

(* Whole; with bytes to spare; cut off; with another magic or size.        *)
MnistImages == {Images(2051, 3, Side, 3 * Plane), Images(2051, 3, Side, 3 * Plane + 1),
                Images(2051, 0, Side, 0), Images(2051, 3, Side, 3 * Plane - 1),
                Images(2049, 3, Side, 3 * Plane), Images(2051, 3, Side + 1, 3 * Plane),
                U32(2051) \o U32(3), NoFile}
MnistLabels == {Labels(2049, 3, 0, 3), Labels(2049, 2, 0, 3), Labels(2049, 0, 0, 0),
                Labels(2049, 3, 0, 2), Labels(2051, 3, 0, 3), Labels(2049, 3, 8, 3),
                <<0, 0, 8>>, NoFile}

Record(label, first) == <<label>> \o [b \in 1..3 * Plane |-> first + b]
CifarFiles == {<<>>, Record(7, 0), Record(1, 0) \o Record(2, 20), Record(3, 0) \o <<4>>,
               Record(10, 0), NoFile}

Mnist == [images |-> Images(2051, 3, Side, 3 * Plane), labels |-> Labels(2049, 3, 0, 3)]

MCDirectories ==
  {[kind |-> "mnist", train |-> [images |-> f, labels |-> l], test |-> Mnist] :
     f \in MnistImages, l \in MnistLabels}
    \cup {[kind |-> "mnist", train |-> Mnist, test |-> [Mnist EXCEPT !.labels = l]] :
            l \in MnistLabels}
    \cup {[kind |-> "cifar", train |-> f, test |-> <<Record(0, 0)>>] :
            f \in CifarFiles \X CifarFiles}
=============================================================================
