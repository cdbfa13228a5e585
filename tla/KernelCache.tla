---------------------------- MODULE KernelCache ----------------------------
(***************************************************************************)
(* compile_and_load of fusion/codegen.py, called by several processes that *)
(* share the cache directory, with the expressions of fusion/ir.py.  nvcc  *)
(* and dlopen are external: nvcc reads the .cu file, lets the linker       *)
(* create the output file and fills it; dlopen returns the handle a        *)
(* process already has for a path before it looks at the file.             *)
(*                                                                         *)
(* A key is the text of a kernel, of which the file name is a hash.        *)
(***************************************************************************)
EXTENDS Integers, Sequences, FiniteSets

CONSTANTS Process,
          Calls,       \* what may be asked: [expr, arch, force, nvcc]; nvcc: is it found?
          MaxCalls,    \* bound on the calls of all processes
          MaxKills,    \* bound on the processes that are killed
          Text(_),     \* the source generated from an expression: see FusionIR
          Accepts(_),  \* whether nvcc compiles a source
          NoFile, NoCall

VARIABLES
  pc,       \* where each process is in compile_and_load
  call,     \* its arguments
  read,     \* what the compiler of the process has read of the .cu file
  result,   \* of the last call: [handle] or [raised]
  opened,   \* the libraries each process has open, by key
  cu, so,   \* the files of the cache, by key
  made, kills,           \* counted against the bounds
  compiled,              \* history: how often each key was compiled
  forced, disturbed, architectures  \* history, by key: see the properties

files == <<cu, so>>
history == <<made, kills, compiled, forced, disturbed, architectures>>
vars == <<pc, call, read, result, opened, files, history>>

-----------------------------------------------------------------------------

Source(c) == Text(c.expr)

NameOnly(c) == "fused"

(* The file name: a hash of the whole source, beside the kernel's name.    *)
Key(c) == Source(c)

Keys == {Key(c) : c \in Calls}
Sources == {Source(c) : c \in Calls}

(* A .cu file that has been opened and not yet written.                    *)
Nothing == <<"nothing">>

Library == [text : Sources \cup {Nothing}, arch : {c.arch : c \in Calls}]

File == {NoFile} \cup [partial : Process] \cup Library

ASSUME KernelCacheAssumption ==
  /\ MaxCalls \in Nat /\ MaxKills \in Nat
  /\ \A c \in Calls : c.force \in BOOLEAN /\ c.nvcc \in BOOLEAN
  /\ NoCall \notin Calls /\ Nothing \notin Sources
  /\ NoFile \notin Sources \cup {Nothing} \cup [partial : Process] \cup Library

MyKey(p)    == Key(call[p])
MySource(p) == Source(call[p])

Init ==
  /\ pc = [p \in Process |-> "idle"]
  /\ call = [p \in Process |-> NoCall]
  /\ read = [p \in Process |-> Nothing]
  /\ result = [p \in Process |-> [raised |-> "nothing yet"]]
  /\ opened = [p \in Process |-> [k \in Keys |-> NoFile]]
  /\ cu = [k \in Keys |-> NoFile] /\ so = [k \in Keys |-> NoFile]
  /\ made = 0 /\ kills = 0
  /\ compiled = [k \in Keys |-> 0]
  /\ forced = [k \in Keys |-> FALSE] /\ disturbed = [k \in Keys |-> FALSE]
  /\ architectures = [k \in Keys |-> {}]

-----------------------------------------------------------------------------

Idle(p) == pc[p] = "idle"

Goto(p, place) == pc' = [pc EXCEPT ![p] = place]

Return(p, r) ==
  /\ Goto(p, "idle")
  /\ result' = [result EXCEPT ![p] = r]

(* The processes in a call for source k.                                   *)
Inside(k) == {p \in Process : ~Idle(p) /\ MyKey(p) = k}

(* Without an nvcc a call raises, also for a source whose library is in    *)
(* the cache.                                                              *)
NvccNotFound(p) ==
  /\ Idle(p) /\ made < MaxCalls
  /\ \E c \in Calls : ~c.nvcc /\ call' = [call EXCEPT ![p] = c]
  /\ Return(p, [raised |-> "RuntimeError"])
  /\ made' = made + 1
  /\ UNCHANGED <<read, opened, files, kills, compiled, forced, disturbed, architectures>>

Begin(p) ==
  /\ Idle(p) /\ made < MaxCalls
  /\ \E c \in {d \in Calls : d.nvcc} :
       /\ call' = [call EXCEPT ![p] = c]
       /\ forced' = [forced EXCEPT ![Key(c)] = @ \/ c.force]
       /\ disturbed' = [disturbed EXCEPT ![Key(c)] = @ \/ Inside(Key(c)) # {}]
       /\ architectures' = [architectures EXCEPT ![Key(c)] = @ \cup {c.arch}]
       /\ Goto(p, IF c.force THEN "force" ELSE "check")
  /\ made' = made + 1
  /\ UNCHANGED <<read, result, opened, files, kills, compiled>>

(* force_recompile and so_path.exists(), then so_path.unlink().            *)
ForceRecompile(p) ==
  /\ pc[p] = "force"
  /\ Goto(p, IF so[MyKey(p)] # NoFile THEN "unlink" ELSE "check")
  /\ UNCHANGED <<call, read, result, opened, files, history>>

Unlink(p) ==
  /\ pc[p] = "unlink"
  /\ IF so[MyKey(p)] = NoFile
     THEN Return(p, [raised |-> "FileNotFoundError"]) /\ UNCHANGED so
     ELSE /\ so' = [so EXCEPT ![MyKey(p)] = NoFile]
          /\ Goto(p, "check") /\ UNCHANGED result
  /\ UNCHANGED <<call, read, opened, cu, history>>

NeverHit(file) == FALSE

Hit(file) == file # NoFile

(* The test of so_path, and on a miss the .cu file is opened, empty.       *)
Check(p) ==
  /\ pc[p] = "check"
  /\ IF Hit(so[MyKey(p)])
     THEN Goto(p, "load") /\ UNCHANGED cu
     ELSE /\ cu' = [cu EXCEPT ![MyKey(p)] = Nothing]
          /\ Goto(p, "empty_cu")
  /\ UNCHANGED <<call, read, result, opened, so, history>>

WriteSource(p) ==
  /\ pc[p] = "empty_cu"
  /\ cu' = [cu EXCEPT ![MyKey(p)] = MySource(p)]
  /\ Goto(p, "compiling")
  /\ UNCHANGED <<call, read, result, opened, so, history>>

OnFailure(p) == Return(p, [raised |-> "RuntimeError"])

CreatedFirst(compiles, file, p) == [partial |-> p]

Created(compiles, file, p) == IF compiles THEN [partial |-> p] ELSE file

DoNotWait(p) == Goto(p, "load")

(* subprocess.run returns when nvcc has ended.                             *)
AwaitCompiler(p) == Goto(p, "linking")

(* nvcc reads the source and either fails or creates the output file,      *)
(* replacing one that is there.                                            *)
StartLink(p) ==
  /\ pc[p] = "compiling"
  /\ LET compiles == Accepts(cu[MyKey(p)])
     IN /\ so' = [so EXCEPT ![MyKey(p)] = Created(compiles, @, p)]
        /\ IF compiles
           THEN /\ read' = [read EXCEPT ![p] = cu[MyKey(p)]]
                /\ AwaitCompiler(p) /\ UNCHANGED result
           ELSE OnFailure(p) /\ UNCHANGED read
  /\ UNCHANGED <<call, opened, cu, history>>

(* The output is whole, if the path still names it.                        *)
EndLink(p) ==
  /\ pc[p] = "linking"
  /\ so' = [so EXCEPT ![MyKey(p)] =
              IF @ = [partial |-> p] THEN [text |-> read[p], arch |-> call[p].arch] ELSE @]
  /\ compiled' = [compiled EXCEPT ![MyKey(p)] = @ + 1]
  /\ read' = [read EXCEPT ![p] = Nothing]
  /\ Goto(p, "load")
  /\ UNCHANGED <<call, result, opened, cu, made, kills, forced, disturbed,
                 architectures>>

Whole(file) == file # NoFile /\ "text" \in DOMAIN file

(* CDLL, which raises on a file that is missing or cut off.                *)
Load(p) ==
  LET k == MyKey(p) IN
  /\ pc[p] = "load"
  /\ IF opened[p][k] # NoFile
     THEN Return(p, [handle |-> opened[p][k]]) /\ UNCHANGED opened
     ELSE IF Whole(so[k])
     THEN Return(p, [handle |-> so[k]]) /\ opened' = [opened EXCEPT ![p][k] = so[k]]
     ELSE Return(p, [raised |-> "OSError"]) /\ UNCHANGED opened
  /\ UNCHANGED <<call, read, files, history>>

Step(p) == \/ ForceRecompile(p) \/ Unlink(p) \/ Check(p) \/ WriteSource(p)
           \/ StartLink(p) \/ EndLink(p) \/ Load(p)

(* A process is killed with its compiler, and another takes its place.     *)
Kill(p) ==
  /\ ~Idle(p) /\ kills < MaxKills
  /\ kills' = kills + 1
  /\ disturbed' = [disturbed EXCEPT ![MyKey(p)] = TRUE]
  /\ Return(p, [raised |-> "killed"])
  /\ opened' = [opened EXCEPT ![p] = [k \in Keys |-> NoFile]]
  /\ read' = [read EXCEPT ![p] = Nothing]
  /\ UNCHANGED <<call, files, made, compiled, forced, architectures>>

(* Only when no call is under way need nothing happen.                     *)
Rest == made = MaxCalls /\ (\A p \in Process : Idle(p)) /\ UNCHANGED vars

Next == Rest \/ \E p \in Process : NvccNotFound(p) \/ Begin(p) \/ Step(p) \/ Kill(p)

Spec == Init /\ [][Next]_vars

-----------------------------------------------------------------------------

TypeOK ==
  /\ \A p \in Process : call[p] \in Calls \cup {NoCall} /\ (~Idle(p) => call[p] \in Calls)
  /\ read \in [Process -> Sources \cup {Nothing}]
  /\ cu \in [Keys -> Sources \cup {NoFile, Nothing}]
  /\ so \in [Keys -> File]
  /\ \A k \in Keys : \A p \in Process :
       so[k] = [partial |-> p] => (p \in Inside(k) /\ pc[p] = "linking") \/ kills > 0
  /\ \A p \in Process, k \in Keys : opened[p][k] = NoFile \/ Whole(opened[p][k])

Returned(p) == Idle(p) /\ "handle" \in DOMAIN result[p]

(* A handle is of the source that was asked for, or, when two processes    *)
(* met in the cache, of nothing at all: never of another expression, in    *)
(* whatever order processes compile, replace and open files.  "keyed by a  *)
(* SHA-256 hash of the generated source".  (codegen.py 170-175, 180-207)   *)
NeverAnotherKernel ==
  \A p \in Process : Returned(p) => result[p].handle.text \in {MySource(p), Nothing}

(* Unless two calls for the same source overlapped or one was killed, a    *)
(* call that finds nvcc, for a source that compiles, returns a whole       *)
(* kernel, of the architecture asked for if nobody asked for another one   *)
(* of it: no call meets a file that is missing, empty or cut off.          *)
(* (codegen.py 163-207)                                                    *)
UndisturbedCallsReturnTheKernel ==
  \A p \in Process :
    /\ Idle(p) /\ call[p] # NoCall /\ call[p].nvcc
    /\ Accepts(MySource(p)) /\ ~disturbed[MyKey(p)]
    =>
      /\ Returned(p)
      /\ result[p].handle.text = MySource(p)
      /\ architectures[MyKey(p)] = {call[p].arch} => result[p].handle.arch = call[p].arch

(* "Repeat calls with the same expression skip nvcc entirely": without     *)
(* force_recompile and disturbance a source is compiled once, whichever    *)
(* processes ask for it and however often.  (codegen.py 14-17, 180)        *)
CompiledOnce ==
  \A k \in Keys : ~forced[k] /\ ~disturbed[k] => compiled[k] <= 1
=============================================================================
