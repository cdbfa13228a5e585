-------------------------- MODULE KernelCacheProofs --------------------------
(***************************************************************************)
(* Proofs about KernelCache, for every number of processes, calls and      *)
(* kills, every way of generating source from an expression and every      *)
(* compiler.                                                               *)
(***************************************************************************)
EXTENDS KernelCache, TLAPS

Place == {"idle", "force", "unlink", "check", "empty_cu", "compiling", "linking", "load"}

Architecture == {c.arch : c \in Calls}

Error == {"nothing yet", "FileNotFoundError", "RuntimeError", "OSError", "killed"}

Outcome == [raised : Error] \cup [handle : Library]

Types ==
  /\ pc \in [Process -> Place]
  /\ call \in [Process -> Calls \cup {NoCall}]
  /\ \A p \in Process : ~Idle(p) => call[p] \in Calls /\ call[p].nvcc
  /\ read \in [Process -> Sources \cup {Nothing}]
  /\ result \in [Process -> Outcome]
  /\ opened \in [Process -> [Keys -> {NoFile} \cup Library]]
  /\ cu \in [Keys -> Sources \cup {NoFile, Nothing}]
  /\ so \in [Keys -> File]
  /\ kills \in Nat
  /\ compiled \in [Keys -> Nat]
  /\ forced \in [Keys -> BOOLEAN] /\ disturbed \in [Keys -> BOOLEAN]
  /\ architectures \in [Keys -> SUBSET Architecture]

(* A file that its linker has not finished has a linker, or had one.       *)
PartialInv ==
  \A k \in Keys, p \in Process :
    so[k] = [partial |-> p] => (p \in Inside(k) /\ pc[p] = "linking") \/ kills > 0

(* Whatever lies under a key was written for that key, or is empty.        *)
Holds(k) == [text : {k, Nothing}, arch : Architecture]

TextInv ==
  /\ \A k \in Keys : cu[k] \in {NoFile, Nothing, k}
  /\ \A k \in Keys : so[k] \in {NoFile} \cup [partial : Process] \cup Holds(k)
  /\ \A p \in Process, k \in Keys : opened[p][k] \in {NoFile} \cup Holds(k)
  /\ \A p \in Process :
       /\ read[p] # Nothing => pc[p] = "linking" /\ read[p] = MyKey(p)
       /\ pc[p] \in {"empty_cu", "compiling"} => cu[MyKey(p)] # NoFile
       /\ Idle(p) => result[p] \in [raised : Error] \cup [handle : Holds(MyKey(p))]

TInv == Types /\ PartialInv /\ TextInv

-----------------------------------------------------------------------------
(* A key nobody has disturbed.                                             *)

Kernel(k) == [text : {k}, arch : architectures[k]]

(* What the one process inside may rely on.                                *)
Stage(p, k) ==
  /\ pc[p] \in {"force", "check"} => so[k] \in {NoFile} \cup Kernel(k)
  /\ pc[p] \in {"unlink", "load"} => so[k] \in Kernel(k)
  /\ pc[p] \in {"empty_cu", "compiling"} => so[k] = NoFile
  /\ pc[p] = "compiling" => cu[k] = k
  /\ pc[p] = "linking" => so[k] = [partial |-> p] /\ read[p] = k
  /\ ~forced[k] => pc[p] \notin {"force", "unlink"}

(* The last call of p got as far as the cache, for k.                      *)
Called(p, k) == call[p] # NoCall /\ call[p].nvcc /\ MyKey(p) = k

Undisturbed(k) ==
  /\ \A p, q \in Inside(k) : p = q
  /\ \A p \in Inside(k) : Stage(p, k)
  /\ Inside(k) = {} => so[k] \in {NoFile} \cup Kernel(k)
  /\ \A p \in Process :
       /\ opened[p][k] \in {NoFile} \cup Kernel(k)
       /\ Called(p, k) => call[p].arch \in architectures[k]
       /\ Called(p, k) /\ Idle(p) /\ Accepts(k) => result[p] \in [handle : Kernel(k)]
  /\ ~forced[k] => compiled[k] = 0 \/ (compiled[k] = 1 /\ so[k] \in Kernel(k))

IInv == TInv /\ \A k \in Keys : ~disturbed[k] => Undisturbed(k)

-----------------------------------------------------------------------------

LEMMA Distinct ==
  ASSUME NEW k \in Keys
  PROVE  /\ k # NoFile /\ k # Nothing /\ Nothing # NoFile
         /\ NoFile \notin Library /\ NoFile \notin Holds(k)
         /\ \A p \in Process : [partial |-> p] # NoFile /\ [partial |-> p] \notin Holds(k)
         /\ Holds(k) \subseteq Library
<1>1. k \in Sources /\ Keys = Sources
  BY DEF Keys, Sources, Key
<1>2. Holds(k) \subseteq Library
  BY <1>1 DEF Holds, Library, Architecture
<1>3. \A p \in Process : [partial |-> p] \notin Holds(k)
  <2>1. \A p : "text" \notin DOMAIN [partial |-> p]
    OBVIOUS
  <2>2. \A f \in Holds(k) : "text" \in DOMAIN f
    BY DEF Holds
  <2> QED BY <2>1, <2>2
<1> QED BY <1>1, <1>2, <1>3, KernelCacheAssumption

(* dlopen's test of a file.                                                *)
LEMMA WholeFiles ==
  ASSUME NEW f \in File
  PROVE  Whole(f) <=> f \in Library
<1>1. CASE f = NoFile
  BY <1>1, KernelCacheAssumption DEF Whole
<1>2. CASE f \in [partial : Process]
  <2>1. PICK p \in Process : f = [partial |-> p]
    BY <1>2
  <2>2. "text" \notin DOMAIN f
    BY <2>1
  <2>3. \A g \in Library : "text" \in DOMAIN g
    BY DEF Library
  <2> QED BY <2>2, <2>3 DEF Whole
<1>3. CASE f \in Library
  <2>1. "text" \in DOMAIN f
    BY <1>3 DEF Library
  <2> QED BY <1>3, <2>1, KernelCacheAssumption DEF Whole
<1> QED BY <1>1, <1>2, <1>3 DEF File

LEMMA CallTypes ==
  ASSUME NEW c \in Calls
  PROVE  Key(c) \in Keys /\ Key(c) = Source(c) /\ c.arch \in Architecture
BY DEF Key, Keys, Architecture

LEMMA Busy ==
  ASSUME TInv, NEW p \in Process, ~Idle(p)
  PROVE  /\ call[p] \in Calls /\ MyKey(p) \in Keys /\ p \in Inside(MyKey(p))
         /\ MySource(p) = MyKey(p) /\ Called(p, MyKey(p))
BY CallTypes, KernelCacheAssumption DEF TInv, Types, MyKey, MySource, Inside, Called

-----------------------------------------------------------------------------
(* A step of a process that is in a call touches its own state and the     *)
(* files of its own key.                                                   *)

Local(p) ==
  /\ ~Idle(p) /\ call' = call
  /\ \A q \in Process \ {p} : /\ pc'[q] = pc[q] /\ read'[q] = read[q]
                              /\ result'[q] = result[q] /\ opened'[q] = opened[q]
  /\ \A k \in Keys \ {MyKey(p)} :
       /\ so'[k] = so[k] /\ cu'[k] = cu[k] /\ compiled'[k] = compiled[k]
       /\ disturbed'[k] = disturbed[k] /\ opened'[p][k] \in {NoFile, opened[p][k]}
  /\ forced' = forced /\ architectures' = architectures

LEMMA InsideNext ==
  ASSUME TInv, NEW p \in Process, Local(p)
  PROVE  /\ \A q \in Process : MyKey(q)' = MyKey(q)
         /\ \A k \in Keys : Inside(k)' = IF pc'[p] = "idle" THEN Inside(k) \ {p} ELSE Inside(k)
<1>1. \A q \in Process : MyKey(q)' = MyKey(q)
  BY DEF Local, MyKey, Key, Source
<1> QED BY <1>1 DEF Local, Inside, Idle

LEMMA Elsewhere ==
  ASSUME IInv, NEW p \in Process, Local(p), NEW k \in Keys, k # MyKey(p), ~disturbed'[k]
  PROVE  Undisturbed(k)'
<1>1. Undisturbed(k)
  BY DEF IInv, Local
<1>2. p \notin Inside(k) /\ ~Called(p, k)
  BY DEF Inside, Called
<1>3. Inside(k)' = Inside(k) /\ \A q \in Process : Called(q, k)' <=> Called(q, k)
  <2>1. Inside(k)' = Inside(k)
    BY <1>2, InsideNext DEF IInv
  <2>2. \A q \in Process : Called(q, k)' <=> Called(q, k)
    BY InsideNext DEF IInv, Called, Local
  <2> QED BY <2>1, <2>2
<1>4. Kernel(k)' = Kernel(k) /\ so'[k] = so[k] /\ cu'[k] = cu[k] /\ compiled'[k] = compiled[k]
      /\ forced'[k] = forced[k]
  BY DEF Local, Kernel
<1>5. \A q \in Inside(k) : Stage(q, k)'
  <2>1. \A q \in Inside(k) : q \in Process /\ pc'[q] = pc[q] /\ read'[q] = read[q]
    BY <1>2 DEF Local, Inside
  <2> QED BY <1>1, <1>4, <2>1 DEF Undisturbed, Stage
<1>6. ASSUME NEW q \in Process
      PROVE  /\ opened'[q][k] \in {NoFile} \cup Kernel(k)
             /\ Called(q, k) => call'[q].arch \in architectures'[k]
             /\ Called(q, k) /\ Idle(q)' /\ Accepts(k) => result'[q] \in [handle : Kernel(k)]
  <2>1. CASE q = p
    BY <1>1, <1>2, <2>1 DEF Undisturbed, Local
  <2>2. CASE q # p
    BY <1>1, <2>2 DEF Undisturbed, Local, Idle
  <2> QED BY <2>1, <2>2
<1> QED BY <1>1, <1>3, <1>4, <1>5, <1>6 DEF Undisturbed

(* At its own key the process is alone, and keeps the others' rely.        *)
LEMMA Here ==
  ASSUME IInv, NEW p \in Process, Local(p), NEW k, k = MyKey(p), ~disturbed[k],
         pc'[p] # "idle" => Stage(p, k)',
         pc'[p] = "idle" => /\ so'[k] \in {NoFile} \cup Kernel(k)
                            /\ Accepts(k) => result'[p] \in [handle : Kernel(k)],
         opened'[p][k] \in {NoFile} \cup Kernel(k),
         ~forced[k] => compiled'[k] = 0 \/ (compiled'[k] = 1 /\ so'[k] \in Kernel(k))
  PROVE  Undisturbed(k)'
<1>1. k \in Keys /\ p \in Inside(k) /\ Called(p, k)
  BY Busy DEF IInv, Local
<1>2. Undisturbed(k)
  BY <1>1 DEF IInv
<1>3. \A q \in Inside(k) : q = p
  BY <1>1, <1>2 DEF Undisturbed
<1>4. Inside(k)' = IF pc'[p] = "idle" THEN {} ELSE {p}
  BY <1>1, <1>3, InsideNext DEF IInv
<1>5. \A q \in Process : Called(q, k)' <=> Called(q, k)
  BY InsideNext DEF IInv, Called, Local
<1>6. Kernel(k)' = Kernel(k) /\ forced'[k] = forced[k]
  BY DEF Local, Kernel
<1>7. ASSUME NEW q \in Process
      PROVE  /\ opened'[q][k] \in {NoFile} \cup Kernel(k)
             /\ Called(q, k) => call'[q].arch \in architectures'[k]
             /\ Called(q, k) /\ Idle(q)' /\ Accepts(k) => result'[q] \in [handle : Kernel(k)]
  <2>1. CASE q = p
    BY <1>2, <2>1 DEF Undisturbed, Local, Idle
  <2>2. CASE q # p
    BY <1>2, <2>2 DEF Undisturbed, Local, Idle
  <2> QED BY <2>1, <2>2
<1> QED BY <1>4, <1>5, <1>6, <1>7 DEF Undisturbed

LEMMA Alone ==
  ASSUME IInv, NEW p \in Process, ~Idle(p), ~disturbed[MyKey(p)]
  PROVE  Stage(p, MyKey(p)) /\ Undisturbed(MyKey(p))
BY Busy DEF IInv, Undisturbed

LEMMA LocalStep ==
  ASSUME IInv, NEW p \in Process, Local(p), NEW k, k = MyKey(p), TInv',
         ~disturbed'[k] => Undisturbed(k)'
  PROVE  IInv'
<1> SUFFICES ASSUME NEW j \in Keys, ~disturbed'[j] PROVE Undisturbed(j)'
  BY DEF IInv
<1>1. CASE j = k
  BY <1>1
<1>2. CASE j # k
  BY <1>2, Elsewhere
<1> QED BY <1>1, <1>2

-----------------------------------------------------------------------------
(* The steps of a call.                                                    *)

LEMMA Raised == \A e \in Error : [raised |-> e] \in [raised : Error]
OBVIOUS

LEMMA ForceRecompileIInv ==
  ASSUME IInv, NEW p \in Process, ForceRecompile(p), NEW k, k = MyKey(p)
  PROVE  IInv'
<1>1. /\ pc[p] = "force" /\ ~Idle(p)
      /\ pc' = [pc EXCEPT ![p] = IF so[k] # NoFile THEN "unlink" ELSE "check"]
      /\ UNCHANGED <<call, read, result, opened, so, cu, kills, compiled, forced, disturbed,
                     architectures>>
  BY DEF ForceRecompile, Goto, Idle, files, history
<1>2. /\ k \in Keys /\ pc'[p] = IF so[k] # NoFile THEN "unlink" ELSE "check"
      /\ \A q \in Process \ {p} : pc'[q] = pc[q]
  BY <1>1, Busy DEF IInv, TInv, Types
<1>3. Local(p)
  BY <1>1, <1>2 DEF Local
<1>4. Types'
  BY <1>1, <1>2 DEF IInv, TInv, Types, Place, Idle
<1>5. PartialInv'
  BY <1>1, <1>2, <1>3, InsideNext DEF IInv, TInv, PartialInv
<1>6. TextInv'
  BY <1>1, <1>2, <1>3, InsideNext DEF IInv, TInv, TextInv, Idle
<1>7. ASSUME ~disturbed[k] PROVE Undisturbed(k)'
  <2>1. Stage(p, k)'
    BY <1>1, <1>2, <1>7, Alone DEF Stage, Kernel
  <2> QED BY <1>1, <1>2, <1>3, <1>7, <2>1, Alone, Here DEF Undisturbed
<1> QED BY <1>1, <1>3, <1>4, <1>5, <1>6, <1>7, LocalStep DEF TInv

LEMMA UnlinkIInv ==
  ASSUME IInv, NEW p \in Process, Unlink(p), NEW k, k = MyKey(p)
  PROVE  IInv'
<1>1. /\ pc[p] = "unlink" /\ ~Idle(p) /\ k \in Keys
      /\ UNCHANGED <<call, read, opened, cu, kills, compiled, forced, disturbed, architectures>>
  BY Busy DEF Unlink, Idle, history, IInv
<1>2. CASE so[k] = NoFile
  <2>1. /\ pc' = [pc EXCEPT ![p] = "idle"] /\ so' = so
        /\ result' = [result EXCEPT ![p] = [raised |-> "FileNotFoundError"]]
    BY <1>2 DEF Unlink, Return, Goto
  <2>2. /\ pc'[p] = "idle" /\ result'[p] = [raised |-> "FileNotFoundError"]
        /\ \A q \in Process \ {p} : pc'[q] = pc[q] /\ result'[q] = result[q]
    BY <2>1 DEF IInv, TInv, Types
  <2>3. Local(p)
    BY <1>1, <2>1, <2>2 DEF Local
  <2>4. Types'
    <3>1. result' \in [Process -> Outcome]
      BY <2>1, Raised DEF Error, IInv, TInv, Types, Outcome
    <3> QED BY <1>1, <2>1, <2>2, <3>1 DEF IInv, TInv, Types, Place, Idle
  <2>5. PartialInv'
    BY <1>1, <2>1, <2>2, <2>3, InsideNext DEF IInv, TInv, PartialInv
  <2>6. TextInv'
    <3>1. \A q \in Process : Idle(q)' =>
            result'[q] \in [raised : Error] \cup [handle : Holds(MyKey(q))]
      BY <2>2, Raised DEF Error, IInv, TInv, TextInv, Idle
    <3> QED BY <1>1, <2>1, <2>2, <2>3, <3>1, InsideNext DEF IInv, TInv, TextInv, Idle
  <2>7. ASSUME ~disturbed[k] PROVE FALSE
    <3>1. so[k] \in Kernel(k)
      BY <1>1, <2>7, Alone DEF Stage
    <3> QED BY <1>1, <1>2, <3>1, Distinct DEF Kernel, Holds, Architecture, IInv, TInv, Types
  <2> QED BY <1>1, <2>3, <2>4, <2>5, <2>6, <2>7, LocalStep DEF TInv
<1>3. CASE so[k] # NoFile
  <2>1. /\ pc' = [pc EXCEPT ![p] = "check"] /\ result' = result
        /\ so' = [so EXCEPT ![k] = NoFile]
    BY <1>3 DEF Unlink, Goto
  <2>2. /\ pc'[p] = "check" /\ \A q \in Process \ {p} : pc'[q] = pc[q]
        /\ so'[k] = NoFile /\ \A j \in Keys \ {k} : so'[j] = so[j]
    BY <1>1, <2>1 DEF IInv, TInv, Types
  <2>3. Local(p)
    BY <1>1, <2>1, <2>2 DEF Local
  <2>4. Types'
    BY <1>1, <2>1, <2>2 DEF IInv, TInv, Types, Place, Idle, File
  <2>5. PartialInv'
    BY <1>1, <2>1, <2>2, <2>3, InsideNext, Distinct DEF IInv, TInv, PartialInv
  <2>6. TextInv'
    BY <1>1, <2>1, <2>2, <2>3, InsideNext DEF IInv, TInv, TextInv, Idle
  <2>7. ASSUME ~disturbed[k] PROVE Undisturbed(k)'
    <3>1. forced[k]
      BY <1>1, <2>7, Alone DEF Stage
    <3>2. Stage(p, k)'
      BY <1>1, <2>2, <3>1 DEF Stage
    <3> QED BY <1>1, <2>2, <2>3, <2>7, <3>1, <3>2, Alone, Here DEF Undisturbed
  <2> QED BY <1>1, <2>3, <2>4, <2>5, <2>6, <2>7, LocalStep DEF TInv
<1> QED BY <1>2, <1>3

LEMMA CheckIInv ==
  ASSUME IInv, NEW p \in Process, Check(p), NEW k, k = MyKey(p)
  PROVE  IInv'
<1>1. /\ pc[p] = "check" /\ ~Idle(p) /\ k \in Keys
      /\ UNCHANGED <<call, read, result, opened, so, kills, compiled, forced, disturbed,
                     architectures>>
  BY Busy DEF Check, Idle, history, IInv
<1>2. PICK place \in {"load", "empty_cu"} :
        /\ pc' = [pc EXCEPT ![p] = place]
        /\ place = "load" <=> so[k] # NoFile
        /\ cu' = IF place = "load" THEN cu ELSE [cu EXCEPT ![k] = Nothing]
  BY DEF Check, Hit, Goto
<1>3. /\ pc'[p] = place /\ \A q \in Process \ {p} : pc'[q] = pc[q]
      /\ place = "empty_cu" => cu'[k] = Nothing
      /\ \A j \in Keys \ {k} : cu'[j] = cu[j]
      /\ cu'[k] \in {cu[k], Nothing}
  BY <1>1, <1>2 DEF IInv, TInv, Types
<1>4. Local(p)
  BY <1>1, <1>3 DEF Local
<1>5. Types'
  BY <1>1, <1>2, <1>3 DEF IInv, TInv, Types, Place, Idle
<1>6. PartialInv'
  BY <1>1, <1>3, <1>4, InsideNext DEF IInv, TInv, PartialInv
<1>7. TextInv'
  <2>1. \A j \in Keys : cu'[j] \in {NoFile, Nothing, j} /\ (cu[j] # NoFile => cu'[j] # NoFile)
    BY <1>1, <1>3, Distinct DEF IInv, TInv, TextInv
  <2>2. \A q \in Process : ~Idle(q) => MyKey(q) \in Keys
    BY Busy DEF IInv
  <2>3. pc'[p] = "empty_cu" => cu'[k] # NoFile
    BY <1>1, <1>3, Distinct
  <2> QED BY <1>1, <1>3, <1>4, <2>1, <2>2, <2>3, InsideNext DEF IInv, TInv, TextInv, Idle
<1>8. ASSUME ~disturbed[k] PROVE Undisturbed(k)'
  <2>1. Stage(p, k)'
    BY <1>1, <1>2, <1>3, <1>8, Alone DEF Stage, Kernel
  <2> QED BY <1>1, <1>3, <1>4, <1>8, <2>1, Alone, Here DEF Undisturbed
<1> QED BY <1>1, <1>4, <1>5, <1>6, <1>7, <1>8, LocalStep DEF TInv

LEMMA WriteSourceIInv ==
  ASSUME IInv, NEW p \in Process, WriteSource(p), NEW k, k = MyKey(p)
  PROVE  IInv'
<1>1. /\ pc[p] = "empty_cu" /\ ~Idle(p) /\ k \in Keys
      /\ pc' = [pc EXCEPT ![p] = "compiling"] /\ cu' = [cu EXCEPT ![k] = k]
      /\ UNCHANGED <<call, read, result, opened, so, kills, compiled, forced, disturbed,
                     architectures>>
  BY Busy DEF WriteSource, Goto, Idle, history, IInv
<1>2. /\ pc'[p] = "compiling" /\ \A q \in Process \ {p} : pc'[q] = pc[q]
      /\ cu'[k] = k /\ \A j \in Keys \ {k} : cu'[j] = cu[j]
  BY <1>1 DEF IInv, TInv, Types
<1>3. Local(p)
  BY <1>1, <1>2 DEF Local
<1>4. Types'
  <2>1. k \in Sources
    BY <1>1 DEF Keys, Sources, Key
  <2> QED BY <1>1, <1>2, <2>1 DEF IInv, TInv, Types, Place, Idle
<1>5. PartialInv'
  BY <1>1, <1>2, <1>3, InsideNext DEF IInv, TInv, PartialInv
<1>6. TextInv'
  <2>1. \A j \in Keys : cu'[j] \in {NoFile, Nothing, j} /\ (cu[j] # NoFile => cu'[j] # NoFile)
    BY <1>1, <1>2, Distinct DEF IInv, TInv, TextInv
  <2>2. \A q \in Process : ~Idle(q) => MyKey(q) \in Keys
    BY Busy DEF IInv
  <2>3. cu'[k] # NoFile
    BY <1>1, <1>2, Distinct
  <2> QED BY <1>1, <1>2, <1>3, <2>1, <2>2, <2>3, InsideNext DEF IInv, TInv, TextInv, Idle
<1>7. ASSUME ~disturbed[k] PROVE Undisturbed(k)'
  <2>1. Stage(p, k)'
    BY <1>1, <1>2, <1>7, Alone DEF Stage
  <2> QED BY <1>1, <1>2, <1>3, <1>7, <2>1, Alone, Here DEF Undisturbed
<1> QED BY <1>1, <1>3, <1>4, <1>5, <1>6, <1>7, LocalStep DEF TInv

LEMMA StartLinkIInv ==
  ASSUME IInv, NEW p \in Process, StartLink(p), NEW k, k = MyKey(p)
  PROVE  IInv'
<1>1. /\ pc[p] = "compiling" /\ ~Idle(p) /\ k \in Keys /\ k \in Sources
      /\ UNCHANGED <<call, opened, cu, kills, compiled, forced, disturbed, architectures>>
  BY Busy DEF StartLink, Idle, history, IInv, Keys, Sources, Key
<1>2. cu[k] \in {Nothing, k} /\ cu[k] \in Sources \cup {Nothing}
  BY <1>1 DEF IInv, TInv, TextInv
<1>3. CASE Accepts(cu[k])
  <2> DEFINE file == [partial |-> p]
  <2>1. /\ pc' = [pc EXCEPT ![p] = "linking"] /\ result' = result
        /\ so' = [so EXCEPT ![k] = file] /\ read' = [read EXCEPT ![p] = cu[k]]
    BY <1>3 DEF StartLink, AwaitCompiler, Created, Goto
  <2>2. /\ pc'[p] = "linking" /\ read'[p] = cu[k] /\ so'[k] = file
        /\ \A q \in Process \ {p} : pc'[q] = pc[q] /\ read'[q] = read[q]
        /\ \A j \in Keys \ {k} : so'[j] = so[j]
    BY <1>1, <2>1 DEF IInv, TInv, Types
  <2>3. file \in [partial : Process] /\ \A q : file = [partial |-> q] => q = p
    <3>1. file.partial = p /\ \A q : [partial |-> q].partial = q
      OBVIOUS
    <3> QED BY <3>1
  <2> HIDE DEF file
  <2>4. Local(p)
    BY <1>1, <2>1, <2>2 DEF Local
  <2>5. Types'
    BY <1>1, <1>2, <2>1, <2>2, <2>3 DEF IInv, TInv, Types, Place, Idle, File
  <2>6. PartialInv'
    <3>1. p \in Inside(k)'
      BY <1>1, <2>2, <2>4, InsideNext, Busy DEF IInv
    <3> QED BY <1>1, <2>1, <2>2, <2>3, <2>4, <3>1, InsideNext DEF IInv, TInv, PartialInv
  <2>7. TextInv'
    BY <1>1, <1>2, <2>1, <2>2, <2>3, <2>4, InsideNext DEF IInv, TInv, TextInv, Idle
  <2>8. ASSUME ~disturbed[k] PROVE Undisturbed(k)'
    <3>1. so[k] = NoFile /\ cu[k] = k /\ so[k] \notin Kernel(k)
      <4>1. so[k] = NoFile /\ cu[k] = k
        BY <1>1, <2>8, Alone DEF Stage
      <4>2. Kernel(k) \subseteq Holds(k)
        BY <1>1 DEF Kernel, Holds, IInv, TInv, Types
      <4> QED BY <1>1, <4>1, <4>2, Distinct
    <3>2. Stage(p, k)'
      BY <1>1, <2>2, <3>1 DEF Stage, file
    <3> QED BY <1>1, <2>1, <2>2, <2>4, <2>8, <3>1, <3>2, Alone, Here DEF Undisturbed
  <2> QED BY <1>1, <2>4, <2>5, <2>6, <2>7, <2>8, LocalStep DEF TInv
<1>4. CASE ~Accepts(cu[k])
  <2>1. /\ pc' = [pc EXCEPT ![p] = "idle"] /\ so' = [so EXCEPT ![k] = so[k]] /\ read' = read
        /\ result' = [result EXCEPT ![p] = [raised |-> "RuntimeError"]]
    BY <1>4 DEF StartLink, OnFailure, Return, Created, Goto
  <2>2. /\ pc'[p] = "idle" /\ result'[p] = [raised |-> "RuntimeError"] /\ so' = so
        /\ \A q \in Process \ {p} : pc'[q] = pc[q] /\ result'[q] = result[q]
    BY <1>1, <2>1 DEF IInv, TInv, Types
  <2>3. Local(p)
    BY <1>1, <2>1, <2>2 DEF Local
  <2>4. Types'
    <3>1. result' \in [Process -> Outcome]
      BY <2>1, Raised DEF Error, IInv, TInv, Types, Outcome
    <3> QED BY <1>1, <2>1, <2>2, <3>1 DEF IInv, TInv, Types, Place, Idle
  <2>5. PartialInv'
    BY <1>1, <2>1, <2>2, <2>3, InsideNext DEF IInv, TInv, PartialInv
  <2>6. TextInv'
    <3>1. \A q \in Process : Idle(q)' =>
            result'[q] \in [raised : Error] \cup [handle : Holds(MyKey(q))]
      BY <2>2, Raised DEF Error, IInv, TInv, TextInv, Idle
    <3> QED BY <1>1, <2>1, <2>2, <2>3, <3>1, InsideNext DEF IInv, TInv, TextInv, Idle
  <2>7. ASSUME ~disturbed[k] PROVE Undisturbed(k)'
    <3>1. so[k] = NoFile /\ cu[k] = k
      BY <1>1, <2>7, Alone DEF Stage
    <3> QED BY <1>1, <1>4, <2>2, <2>3, <2>7, <3>1, Alone, Here DEF Undisturbed
  <2> QED BY <1>1, <2>3, <2>4, <2>5, <2>6, <2>7, LocalStep DEF TInv
<1> QED BY <1>3, <1>4

LEMMA EndLinkIInv ==
  ASSUME IInv, NEW p \in Process, EndLink(p), NEW k, k = MyKey(p)
  PROVE  IInv'
<1> DEFINE file == [text |-> read[p], arch |-> call[p].arch]
<1>1. /\ pc[p] = "linking" /\ ~Idle(p) /\ k \in Keys /\ call[p] \in Calls
      /\ UNCHANGED <<call, result, opened, cu, kills, forced, disturbed, architectures>>
  BY Busy DEF EndLink, Idle, IInv
<1>2. /\ pc' = [pc EXCEPT ![p] = "load"] /\ read' = [read EXCEPT ![p] = Nothing]
      /\ compiled' = [compiled EXCEPT ![k] = @ + 1]
      /\ so' = [so EXCEPT ![k] = IF so[k] = [partial |-> p] THEN file ELSE so[k]]
  BY DEF EndLink, Goto
<1>3. /\ pc'[p] = "load" /\ read'[p] = Nothing /\ compiled'[k] = compiled[k] + 1
      /\ so'[k] = IF so[k] = [partial |-> p] THEN file ELSE so[k]
      /\ \A q \in Process \ {p} : pc'[q] = pc[q] /\ read'[q] = read[q]
      /\ \A j \in Keys \ {k} : so'[j] = so[j] /\ compiled'[j] = compiled[j]
  BY <1>1, <1>2 DEF IInv, TInv, Types
<1>4. /\ read[p] \in {k, Nothing} /\ call[p].arch \in Architecture
      /\ read[p] \in Sources \cup {Nothing}
  BY <1>1 DEF IInv, TInv, Types, TextInv, Architecture
<1>5. file \in Holds(k) /\ file \in Library /\ file # NoFile
  <2>1. file \in Holds(k)
    BY <1>4 DEF Holds
  <2> HIDE DEF file
  <2> QED BY <1>1, <2>1, Distinct
<1>6. Local(p)
  BY <1>1, <1>3 DEF Local
<1>7. Types'
  <2>1. so' \in [Keys -> File]
    <3> HIDE DEF file
    <3> QED BY <1>2, <1>5 DEF IInv, TInv, Types, File
  <2>2. compiled' \in [Keys -> Nat]
    BY <1>1, <1>2 DEF IInv, TInv, Types
  <2> QED BY <1>1, <1>2, <1>3, <2>1, <2>2 DEF IInv, TInv, Types, Place, Idle
<1>8. PartialInv'
  <2> SUFFICES ASSUME NEW j \in Keys, NEW q \in Process, so'[j] = [partial |-> q], ~(kills > 0)
               PROVE  q \in Inside(j)' /\ pc'[q] = "linking"
    BY <1>1 DEF PartialInv
  <2>1. \A r \in Process : [partial |-> r] \notin Holds(k)
    BY <1>1, Distinct
  <2>2. so[j] = [partial |-> q] /\ (j = k => so[k] # [partial |-> p])
    <3> HIDE DEF file
    <3> QED BY <1>3, <1>5, <2>1
  <2>3. q \in Inside(j) /\ pc[q] = "linking"
    BY <2>2 DEF IInv, TInv, PartialInv
  <2>4. q # p
    BY <2>2, <2>3 DEF Inside
  <2> QED BY <1>3, <1>6, <2>3, <2>4, InsideNext DEF IInv
<1>9. TextInv'
  <2>1. \A j \in Keys : so'[j] \in {NoFile} \cup [partial : Process] \cup Holds(j)
    <3> HIDE DEF file
    <3> QED BY <1>3, <1>5 DEF IInv, TInv, TextInv
  <2> QED BY <1>1, <1>3, <1>6, <2>1, InsideNext DEF IInv, TInv, TextInv, Idle
<1>10. ASSUME ~disturbed[k] PROVE Undisturbed(k)'
  <2>1. so[k] = [partial |-> p] /\ read[p] = k
    BY <1>1, <1>10, Alone DEF Stage
  <2>2. call[p].arch \in architectures[k]
    BY <1>1, <1>10, Alone, Busy DEF Undisturbed, IInv
  <2>3. file \in Kernel(k) /\ so'[k] \in Kernel(k)
    BY <1>3, <2>1, <2>2 DEF Kernel
  <2>4. so[k] \notin Kernel(k)
    <3>1. Kernel(k) \subseteq Holds(k)
      BY <1>1 DEF Kernel, Holds, IInv, TInv, Types
    <3> QED BY <1>1, <2>1, <3>1, Distinct
  <2>5. ~forced[k] => compiled'[k] = 1
    BY <1>1, <1>3, <1>10, <2>4, Alone DEF Undisturbed
  <2> HIDE DEF file
  <2>6. Stage(p, k)'
    BY <1>1, <1>3, <2>3 DEF Stage, Kernel
  <2> QED BY <1>1, <1>3, <1>6, <1>10, <2>3, <2>5, <2>6, Alone, Here DEF Undisturbed
<1> QED BY <1>1, <1>6, <1>7, <1>8, <1>9, <1>10, LocalStep DEF TInv

LEMMA LoadIInv ==
  ASSUME IInv, NEW p \in Process, Load(p), NEW k, k = MyKey(p)
  PROVE  IInv'
<1>1. /\ pc[p] = "load" /\ ~Idle(p) /\ k \in Keys
      /\ UNCHANGED <<call, read, so, cu, kills, compiled, forced, disturbed, architectures>>
  BY Busy DEF Load, Idle, history, files, IInv
<1>2. so[k] \in File /\ (Whole(so[k]) <=> so[k] \in Library)
  BY <1>1, WholeFiles DEF IInv, TInv, Types
<1>3. PICK r : /\ pc' = [pc EXCEPT ![p] = "idle"] /\ result' = [result EXCEPT ![p] = r]
               /\ \/ r = [handle |-> opened[p][k]] /\ opened[p][k] # NoFile /\ opened' = opened
                  \/ /\ r = [handle |-> so[k]] /\ so[k] \in Library
                     /\ opened' = [opened EXCEPT ![p][k] = so[k]]
                  \/ r = [raised |-> "OSError"] /\ so[k] \notin Library /\ opened' = opened
                     /\ opened[p][k] = NoFile
  BY <1>2 DEF Load, Return, Goto
<1>4. /\ pc'[p] = "idle" /\ result'[p] = r
      /\ \A q \in Process \ {p} : /\ pc'[q] = pc[q] /\ result'[q] = result[q]
                                  /\ opened'[q] = opened[q]
      /\ \A j \in Keys \ {k} : opened'[p][j] = opened[p][j]
      /\ opened'[p][k] \in {opened[p][k], so[k]}
      /\ opened' = opened \/ (opened'[p][k] = so[k] /\ so[k] \in Library)
  BY <1>1, <1>3 DEF IInv, TInv, Types
<1>5. Local(p)
  BY <1>1, <1>4 DEF Local
<1>6. so[k] \in Library => so[k] \in Holds(k)
  <2>1. so[k] \in {NoFile} \cup [partial : Process] \cup Holds(k)
    BY <1>1 DEF IInv, TInv, TextInv
  <2>2. ASSUME NEW f \in [partial : Process] PROVE f \notin Library
    <3>1. "text" \notin DOMAIN f
      <4>1. PICK q \in Process : f = [partial |-> q]
        OBVIOUS
      <4> QED BY <4>1
    <3>2. \A g \in Library : "text" \in DOMAIN g
      BY DEF Library
    <3> QED BY <3>1, <3>2
  <2> QED BY <1>1, <2>1, <2>2, Distinct
<1>7. r \in [raised : Error] \cup [handle : Holds(k)]
  <2>1. opened[p][k] \in {NoFile} \cup Holds(k)
    BY <1>1 DEF IInv, TInv, TextInv
  <2>2. \A f \in Holds(k) : [handle |-> f] \in [handle : Holds(k)]
    OBVIOUS
  <2>3. [raised |-> "OSError"] \in [raised : Error]
    BY Raised DEF Error
  <2>4. CASE r = [raised |-> "OSError"]
    BY <2>3, <2>4
  <2>5. CASE r # [raised |-> "OSError"]
    <3>1. PICK f \in Holds(k) : r = [handle |-> f]
      BY <1>3, <1>6, <2>1, <2>5
    <3> QED BY <2>2, <3>1
  <2> QED BY <2>4, <2>5
<1>8. Types'
  <2>1. r \in Outcome
    BY <1>1, <1>7, Distinct DEF Outcome
  <2>2. opened' \in [Process -> [Keys -> {NoFile} \cup Library]]
    <3>1. opened \in [Process -> [Keys -> {NoFile} \cup Library]]
      BY DEF IInv, TInv, Types
    <3>2. CASE opened' = opened
      BY <3>1, <3>2
    <3>3. CASE opened' = [opened EXCEPT ![p][k] = so[k]] /\ so[k] \in Library
      BY <1>1, <3>1, <3>3
    <3> QED BY <1>3, <3>2, <3>3
  <2>3. result' \in [Process -> Outcome]
    BY <1>3, <2>1 DEF IInv, TInv, Types
  <2> QED BY <1>1, <1>3, <1>4, <2>2, <2>3 DEF IInv, TInv, Types, Place, Idle
<1>9. PartialInv'
  BY <1>1, <1>4, <1>5, InsideNext DEF IInv, TInv, PartialInv
<1>10. TextInv'
  <2>1. \A q \in Process : Idle(q)' =>
          result'[q] \in [raised : Error] \cup [handle : Holds(MyKey(q))]
    BY <1>4, <1>7 DEF IInv, TInv, TextInv, Idle
  <2>2. \A q \in Process, j \in Keys : opened'[q][j] \in {NoFile} \cup Holds(j)
    BY <1>1, <1>4, <1>6 DEF IInv, TInv, TextInv
  <2> QED BY <1>1, <1>4, <1>5, <2>1, <2>2, InsideNext DEF IInv, TInv, TextInv, Idle
<1>11. ASSUME ~disturbed[k] PROVE Undisturbed(k)'
  <2>1. so[k] \in Kernel(k) /\ opened[p][k] \in {NoFile} \cup Kernel(k)
    BY <1>1, <1>11, Alone DEF Stage, Undisturbed
  <2>2. Kernel(k) \subseteq Library
    <3>1. Kernel(k) \subseteq Holds(k)
      BY <1>1 DEF Kernel, Holds, IInv, TInv, Types
    <3> QED BY <1>1, <3>1, Distinct
  <2>3. r \in [handle : Kernel(k)]
    BY <1>3, <2>1, <2>2
  <2>4. opened'[p][k] \in {NoFile} \cup Kernel(k)
    BY <1>4, <2>1
  <2> QED BY <1>1, <1>4, <1>5, <1>11, <2>1, <2>3, <2>4, Alone, Here DEF Undisturbed
<1> QED BY <1>1, <1>5, <1>8, <1>9, <1>10, <1>11, LocalStep DEF TInv

(* A process is killed; its key counts as disturbed from then on.          *)
LEMMA KillIInv ==
  ASSUME IInv, NEW p \in Process, Kill(p), NEW k, k = MyKey(p)
  PROVE  IInv'
<1> DEFINE none == [j \in Keys |-> NoFile]
<1>1. /\ ~Idle(p) /\ k \in Keys /\ kills' = kills + 1 /\ kills' \in Nat /\ kills' > 0
      /\ UNCHANGED <<call, so, cu, compiled, forced, architectures>>
  BY Busy DEF Kill, files, IInv, TInv, Types
<1>2. /\ pc' = [pc EXCEPT ![p] = "idle"] /\ read' = [read EXCEPT ![p] = Nothing]
      /\ result' = [result EXCEPT ![p] = [raised |-> "killed"]]
      /\ opened' = [opened EXCEPT ![p] = none]
      /\ disturbed' = [disturbed EXCEPT ![k] = TRUE]
  BY DEF Kill, Return, Goto
<1>3. /\ pc'[p] = "idle" /\ read'[p] = Nothing /\ result'[p] = [raised |-> "killed"]
      /\ \A j \in Keys : opened'[p][j] = NoFile
      /\ disturbed'[k] /\ \A j \in Keys \ {k} : disturbed'[j] = disturbed[j]
      /\ \A q \in Process \ {p} : /\ pc'[q] = pc[q] /\ read'[q] = read[q]
                                  /\ result'[q] = result[q] /\ opened'[q] = opened[q]
  BY <1>1, <1>2 DEF IInv, TInv, Types
<1>4. Local(p)
  BY <1>1, <1>3 DEF Local
<1>5. Types'
  <2>1. result' \in [Process -> Outcome]
    BY <1>2, Raised DEF Error, IInv, TInv, Types, Outcome
  <2>2. disturbed' \in [Keys -> BOOLEAN]
    BY <1>2 DEF IInv, TInv, Types
  <2>3. opened' \in [Process -> [Keys -> {NoFile} \cup Library]]
    <3>1. none \in [Keys -> {NoFile} \cup Library]
      OBVIOUS
    <3> HIDE DEF none
    <3> QED BY <1>2, <3>1 DEF IInv, TInv, Types
  <2> QED BY <1>1, <1>2, <1>3, <2>1, <2>2, <2>3 DEF IInv, TInv, Types, Place, Idle
<1>6. PartialInv'
  BY <1>1 DEF PartialInv
<1>7. TextInv'
  <2>1. \A q \in Process : Idle(q)' =>
          result'[q] \in [raised : Error] \cup [handle : Holds(MyKey(q))]
    <3>1. result'[p] \in [raised : Error]
      BY <1>3, Raised DEF Error
    <3>2. \A q \in Process \ {p} :
            Idle(q)' => result'[q] \in [raised : Error] \cup [handle : Holds(MyKey(q))]
      BY <1>3 DEF IInv, TInv, TextInv, Idle
    <3> QED BY <3>1, <3>2
  <2> QED BY <1>1, <1>3, <1>4, <2>1, InsideNext DEF IInv, TInv, TextInv, Idle
<1> QED BY <1>3, <1>4, <1>5, <1>6, <1>7, LocalStep DEF TInv

-----------------------------------------------------------------------------

LEMMA NvccNotFoundIInv ==
  ASSUME IInv, NEW p \in Process, NvccNotFound(p)
  PROVE  IInv'
<1>1. PICK c \in Calls : ~c.nvcc /\ call' = [call EXCEPT ![p] = c]
  BY DEF NvccNotFound
<1>2. /\ pc[p] = "idle" /\ Idle(p) /\ pc' = [pc EXCEPT ![p] = "idle"]
      /\ result' = [result EXCEPT ![p] = [raised |-> "RuntimeError"]]
      /\ UNCHANGED <<read, opened, so, cu, kills, compiled, forced, disturbed, architectures>>
  BY DEF NvccNotFound, Return, Goto, Idle, files
<1>3. /\ pc' = pc /\ call'[p] = c /\ c # NoCall /\ result'[p] \in [raised : Error]
      /\ \A q \in Process \ {p} : /\ call'[q] = call[q] /\ MyKey(q)' = MyKey(q)
                                  /\ result'[q] = result[q]
  BY <1>1, <1>2, Raised, KernelCacheAssumption
     DEF IInv, TInv, Types, MyKey, Key, Source, Error
<1>4. \A k \in Keys : Inside(k)' = Inside(k) /\ Kernel(k)' = Kernel(k)
  BY <1>2, <1>3 DEF Inside, Idle, Kernel
<1>5. \A k \in Keys : /\ ~Called(p, k)'
                      /\ \A q \in Process \ {p} : Called(q, k)' <=> Called(q, k)
  BY <1>1, <1>3 DEF Called
<1>6. Types'
  <2>1. call' \in [Process -> Calls \cup {NoCall}] /\ result' \in [Process -> Outcome]
    BY <1>1, <1>2, Raised DEF IInv, TInv, Types, Outcome, Error
  <2> QED BY <1>2, <1>3, <2>1 DEF IInv, TInv, Types, Idle
<1>7. PartialInv'
  BY <1>2, <1>3, <1>4 DEF IInv, TInv, PartialInv
<1>8. TextInv'
  BY <1>2, <1>3 DEF IInv, TInv, TextInv, Idle
<1>9. ASSUME NEW k \in Keys, ~disturbed'[k] PROVE Undisturbed(k)'
  <2>1. Undisturbed(k)
    BY <1>2, <1>9 DEF IInv
  <2>2. \A q \in Inside(k) : Stage(q, k)'
    BY <1>2, <1>3, <1>4, <2>1 DEF Undisturbed, Stage
  <2>3. ASSUME NEW q \in Process
        PROVE  /\ opened'[q][k] \in {NoFile} \cup Kernel(k)
               /\ Called(q, k)' => call'[q].arch \in architectures'[k]
               /\ Called(q, k)' /\ Idle(q)' /\ Accepts(k) => result'[q] \in [handle : Kernel(k)]
    <3>1. CASE q = p
      BY <1>2, <1>5, <2>1, <3>1 DEF Undisturbed
    <3>2. CASE q # p
      BY <1>2, <1>3, <1>5, <2>1, <3>2 DEF Undisturbed, Idle
    <3> QED BY <3>1, <3>2
  <2> QED BY <1>2, <1>4, <2>1, <2>2, <2>3 DEF Undisturbed
<1> QED BY <1>6, <1>7, <1>8, <1>9 DEF IInv, TInv

LEMMA BeginIInv ==
  ASSUME IInv, NEW p \in Process, Begin(p)
  PROVE  IInv'
<1>1. PICK c \in Calls :
        /\ c.nvcc /\ call' = [call EXCEPT ![p] = c]
        /\ forced' = [forced EXCEPT ![Key(c)] = @ \/ c.force]
        /\ disturbed' = [disturbed EXCEPT ![Key(c)] = @ \/ Inside(Key(c)) # {}]
        /\ architectures' = [architectures EXCEPT ![Key(c)] = @ \cup {c.arch}]
        /\ pc' = [pc EXCEPT ![p] = IF c.force THEN "force" ELSE "check"]
  BY DEF Begin, Goto
<1>2. PICK k \in Keys : k = Key(c) /\ c.arch \in Architecture
  BY CallTypes
<1>3. /\ pc[p] = "idle" /\ Idle(p)
      /\ UNCHANGED <<read, result, opened, so, cu, kills, compiled>>
  BY DEF Begin, Idle, files
<1>4. /\ pc'[p] = IF c.force THEN "force" ELSE "check"
      /\ call'[p] = c /\ c # NoCall /\ MyKey(p)' = k /\ ~Idle(p)'
      /\ \A q \in Process \ {p} : pc'[q] = pc[q] /\ call'[q] = call[q] /\ MyKey(q)' = MyKey(q)
      /\ \A j \in Keys \ {k} : /\ disturbed'[j] = disturbed[j] /\ forced'[j] = forced[j]
                              /\ architectures'[j] = architectures[j]
      /\ disturbed'[k] = (disturbed[k] \/ Inside(k) # {})
      /\ forced'[k] = (forced[k] \/ c.force)
      /\ architectures'[k] = architectures[k] \cup {c.arch}
  BY <1>1, <1>2, KernelCacheAssumption DEF IInv, TInv, Types, MyKey, Key, Source, Idle
<1>5. \A j \in Keys : Inside(j)' = IF j = k THEN Inside(j) \cup {p} ELSE Inside(j)
  BY <1>3, <1>4 DEF Inside, Idle
<1>6. Types'
  <2>1. /\ forced' \in [Keys -> BOOLEAN] /\ disturbed' \in [Keys -> BOOLEAN]
        /\ architectures' \in [Keys -> SUBSET Architecture]
    BY <1>1, <1>2 DEF IInv, TInv, Types
  <2>2. pc' \in [Process -> Place]
    BY <1>1 DEF IInv, TInv, Types, Place
  <2> QED BY <1>1, <1>3, <1>4, <2>1, <2>2 DEF IInv, TInv, Types, Idle
<1>7. PartialInv'
  BY <1>3, <1>4, <1>5 DEF IInv, TInv, PartialInv
<1>8. TextInv'
  BY <1>3, <1>4 DEF IInv, TInv, TextInv, Idle
<1>9. ASSUME NEW j \in Keys, ~disturbed'[j] PROVE Undisturbed(j)'
  <2>1. ~disturbed[j] /\ Undisturbed(j) /\ (j = k => Inside(j) = {})
    BY <1>4, <1>9 DEF IInv
  <2>2. /\ architectures[j] \subseteq architectures'[j] /\ Kernel(j) \subseteq Kernel(j)'
        /\ [handle : Kernel(j)] \subseteq [handle : Kernel(j)']
    BY <1>4 DEF Kernel
  <2>3. ~forced'[j] => ~forced[j]
    BY <1>4 DEF IInv, TInv, Types
  <2>4. \A q, r \in Inside(j)' : q = r
    BY <1>5, <2>1 DEF Undisturbed
  <2>5. ASSUME NEW q \in Inside(j)' PROVE Stage(q, j)'
    <3>1. CASE j = k
      <4>1. q = p /\ so[j] \in {NoFile} \cup Kernel(j)
        BY <1>5, <2>1, <2>5, <3>1 DEF Undisturbed
      <4> QED BY <1>3, <1>4, <2>2, <3>1, <4>1 DEF Stage
    <3>2. CASE j # k
      <4>1. q \in Inside(j) /\ q # p /\ q \in Process
        BY <1>3, <1>5, <2>5, <3>2 DEF Inside
      <4> QED BY <1>3, <1>4, <2>1, <2>2, <2>3, <4>1 DEF Undisturbed, Stage
    <3> QED BY <3>1, <3>2
  <2>6. Inside(j)' = {} => so'[j] \in {NoFile} \cup Kernel(j)'
    BY <1>3, <1>5, <2>1, <2>2 DEF Undisturbed
  <2>7. ASSUME NEW q \in Process
        PROVE  /\ opened'[q][j] \in {NoFile} \cup Kernel(j)'
               /\ Called(q, j)' => call'[q].arch \in architectures'[j]
               /\ Called(q, j)' /\ Idle(q)' /\ Accepts(j) => result'[q] \in [handle : Kernel(j)']
    <3>1. CASE q = p
      BY <1>3, <1>4, <2>1, <2>2, <3>1 DEF Undisturbed, Called
    <3>2. CASE q # p
      BY <1>3, <1>4, <2>1, <2>2, <3>2 DEF Undisturbed, Called, Idle
    <3> QED BY <3>1, <3>2
  <2>8. ~forced'[j] => compiled'[j] = 0 \/ (compiled'[j] = 1 /\ so'[j] \in Kernel(j)')
    BY <1>3, <2>1, <2>2, <2>3 DEF Undisturbed
  <2> QED BY <2>4, <2>5, <2>6, <2>7, <2>8 DEF Undisturbed
<1> QED BY <1>6, <1>7, <1>8, <1>9 DEF IInv, TInv

LEMMA InitIInv == Init => IInv
<1> SUFFICES ASSUME Init PROVE IInv
  OBVIOUS
<1>1. Types
  <2>1. result \in [Process -> Outcome]
    BY Raised DEF Error, Init, Outcome
  <2> QED BY <2>1 DEF Init, Types, Place, Idle, File
<1>2. \A p \in Process, k \in Keys : ~Called(p, k) /\ Inside(k) = {}
  BY DEF Init, Called, Inside, Idle
<1>3. PartialInv
  BY Distinct DEF Init, PartialInv
<1>4. TextInv
  BY Raised DEF Error, Init, TextInv
<1>5. ASSUME NEW k \in Keys PROVE Undisturbed(k)
  <2>1. compiled[k] = 0 /\ so[k] = NoFile /\ \A p \in Process : opened[p][k] = NoFile
    BY DEF Init
  <2>2. \A p \in Process : p \notin Inside(k) /\ ~Called(p, k)
    BY <1>2
  <2>3. \A p \in Inside(k) : p \in Process
    BY DEF Inside
  <2> QED BY <2>1, <2>2, <2>3 DEF Undisturbed
<1> QED BY <1>1, <1>3, <1>4, <1>5 DEF IInv, TInv

LEMMA StutterIInv ==
  ASSUME IInv, UNCHANGED vars
  PROVE  IInv'
<1>1. UNCHANGED <<pc, call, read, result, opened, cu, so, kills, compiled, forced, disturbed,
                  architectures>>
  BY DEF vars, files, history
<1>2. /\ \A p \in Process : MyKey(p)' = MyKey(p) /\ (Idle(p)' <=> Idle(p))
      /\ \A k \in Keys : Inside(k)' = Inside(k) /\ Kernel(k)' = Kernel(k)
  BY <1>1 DEF MyKey, Key, Source, Idle, Inside, Kernel
<1>3. TInv'
  BY <1>1, <1>2 DEF IInv, TInv, Types, PartialInv, TextInv
<1>4. ASSUME NEW k \in Keys, ~disturbed'[k] PROVE Undisturbed(k)'
  <2>1. Undisturbed(k)
    BY <1>1, <1>4 DEF IInv
  <2>2. \A p \in Process : Called(p, k)' <=> Called(p, k)
    BY <1>1, <1>2 DEF Called
  <2>3. \A p \in Inside(k) : Stage(p, k)'
    BY <1>1, <1>2, <2>1 DEF Undisturbed, Stage
  <2> QED BY <1>1, <1>2, <2>1, <2>2, <2>3 DEF Undisturbed
<1> QED BY <1>3, <1>4 DEF IInv

(* IInv is inductive.                                                      *)
LEMMA NextIInv == IInv /\ [Next]_vars => IInv'
<1> SUFFICES ASSUME IInv, [Next]_vars PROVE IInv'
  OBVIOUS
<1>1. CASE UNCHANGED vars
  BY <1>1, StutterIInv
<1>2. CASE Rest
  BY <1>2, StutterIInv DEF Rest
<1>3. ASSUME NEW p \in Process, NvccNotFound(p) \/ Begin(p) PROVE IInv'
  BY <1>3, NvccNotFoundIInv, BeginIInv
<1>4. ASSUME NEW p \in Process, Step(p) PROVE IInv'
  BY <1>4, ForceRecompileIInv, UnlinkIInv, CheckIInv, WriteSourceIInv, StartLinkIInv,
     EndLinkIInv, LoadIInv DEF Step
<1>5. ASSUME NEW p \in Process, Kill(p) PROVE IInv'
  BY <1>5, KillIInv
<1> QED BY <1>1, <1>2, <1>3, <1>4, <1>5 DEF Next

LEMMA InvariantIInv == Spec => []IInv
BY InitIInv, NextIInv, PTL DEF Spec

-----------------------------------------------------------------------------

(* codegen.py 132-214: the files and handles of the cache keep their form, *)
(* and a file that is cut off has a linker at work, or a process was       *)
(* killed.                                                                 *)
THEOREM TypeCorrect == Spec => []TypeOK
<1>1. IInv => TypeOK
  <2> SUFFICES ASSUME IInv PROVE TypeOK
    OBVIOUS
  <2>1. \A p \in Process, k \in Keys : opened[p][k] = NoFile \/ Whole(opened[p][k])
    BY WholeFiles DEF IInv, TInv, Types, File
  <2> QED BY <2>1 DEF IInv, TInv, Types, PartialInv, TypeOK
<1> QED BY <1>1, InvariantIInv, PTL

(* codegen.py 170-207: however many processes share the cache, in whatever *)
(* order they compile, replace and open its files, a handle is never of    *)
(* the kernel of another expression.                                       *)
THEOREM HandlesAreTheRightOnes == Spec => []NeverAnotherKernel
<1>1. IInv => NeverAnotherKernel
  <2> SUFFICES ASSUME IInv, NEW p \in Process, Returned(p)
               PROVE  result[p].handle.text \in {MySource(p), Nothing}
    BY DEF NeverAnotherKernel
  <2>1. result[p] \in [raised : Error] \cup [handle : Holds(MyKey(p))]
    BY DEF Returned, IInv, TInv, TextInv
  <2>2. \A r \in [raised : Error] : "handle" \notin DOMAIN r
    OBVIOUS
  <2>3. result[p].handle \in Holds(MyKey(p))
    BY <2>1, <2>2 DEF Returned
  <2> QED BY <2>3 DEF Holds, MyKey, MySource, Key
<1> QED BY <1>1, InvariantIInv, PTL

(* codegen.py 163-207: a call that finds nvcc, and that no other call for  *)
(* the same source and no kill disturbs, returns a whole kernel of it.     *)
THEOREM UndisturbedCallsSucceed == Spec => []UndisturbedCallsReturnTheKernel
<1>1. IInv => UndisturbedCallsReturnTheKernel
  <2> SUFFICES ASSUME IInv, NEW p \in Process, Idle(p), call[p] # NoCall, call[p].nvcc,
                      Accepts(MySource(p)), ~disturbed[MyKey(p)]
               PROVE  /\ Returned(p) /\ result[p].handle.text = MySource(p)
                      /\ architectures[MyKey(p)] = {call[p].arch} =>
                           result[p].handle.arch = call[p].arch
    BY DEF UndisturbedCallsReturnTheKernel
  <2>1. MyKey(p) \in Keys /\ MySource(p) = MyKey(p) /\ Called(p, MyKey(p))
    BY CallTypes DEF IInv, TInv, Types, MyKey, MySource, Called
  <2>2. result[p] \in [handle : Kernel(MyKey(p))]
    BY <2>1 DEF IInv, Undisturbed
  <2>3. PICK f \in Kernel(MyKey(p)) : result[p] = [handle |-> f]
    BY <2>2
  <2> QED BY <2>1, <2>3 DEF Returned, Kernel
<1> QED BY <1>1, InvariantIInv, PTL

(* codegen.py 14-17, 180: a source that is not forced and not disturbed is *)
(* compiled once, however many processes ask for it.                       *)
THEOREM NvccIsSkipped == Spec => []CompiledOnce
<1>1. IInv => CompiledOnce
  BY DEF IInv, Undisturbed, CompiledOnce
<1> QED BY <1>1, InvariantIInv, PTL
=============================================================================
