----------------------------- MODULE RowReduce ------------------------------
(***************************************************************************)
(* softmax_kernel and layernorm_kernel (cuda/kernels/softmax.cu and        *)
(* layernorm.cu): one block for a row, and two block reductions one after  *)
(* the other, each within the warps by shuffles, across the warps through  *)
(* warp_results, and broadcast through one more shared cell.               *)
(*                                                                         *)
(* Elements are small integers, exp is a power of two, and a result is the *)
(* tuple of the numbers it is computed from.                               *)
(***************************************************************************)
EXTENDS Integers, Sequences, FiniteSets, FiniteSetsExt

CONSTANTS LogWarp,   \* a warp has 2^LogWarp lanes (code: 5)
          NumWarps,  \* warps in the block (code: 8)
          Kernels,   \* those to look at, of "softmax" and "layernorm"
          Rows,      \* the rows, functions on 0..(cols - 1)
          Scale,     \* the largest element
          Absent     \* memory before it is written

WarpSize == 2 ^ LogWarp
Lane   == 0..WarpSize - 1
Warp   == 0..NumWarps - 1
Thread == Warp \X Lane

(* The launch takes a block of at most WarpSize whole warps.  What is said *)
(* of powers is for the provers, which do not know them.                   *)
ASSUME RowReduceAssumption ==
  /\ LogWarp \in Nat /\ WarpSize \in Nat \ {0} /\ NumWarps \in 1..WarpSize
  /\ 2 ^ 0 = 1 /\ \A j \in 0..LogWarp + Scale : 2 ^ (j + 1) = 2 * 2 ^ j
  /\ Kernels \subseteq {"softmax", "layernorm"}
  /\ Scale \in Nat /\ Absent \notin Int
  /\ \A r \in Rows : /\ IsFiniteSet(DOMAIN r) /\ DOMAIN r # {}
                     /\ r \in [0..Cardinality(DOMAIN r) - 1 -> 0..Scale]

VARIABLES
  kernel, row,    \* which kernel runs, and its input
  pc,             \* where each thread is
  pass,           \* whether it is at the first or at the second reduction
  val,            \* its partial result
  totals,         \* what it read of the broadcast results
  warp_results,   \* shared, one cell per warp in each array
  s,              \* the shared cells s_max / s_sum and s_sum / s_sumsq
  out             \* row_out, in global memory

shared == <<warp_results, s>>
vars   == <<kernel, row, pc, pass, val, totals, shared, out>>

threadIdx(t) == t[1] * WarpSize + t[2]

Visits(t) == {c \in DOMAIN row : c % (NumWarps * WarpSize) = threadIdx(t)}

-----------------------------------------------------------------------------
(* The reductions: softmax takes a maximum first, all others are sums.     *)

IsMax(k) == kernel = "softmax" /\ k = 1

NegInfinity == -1

Neutral(k) == IF IsMax(k) THEN NegInfinity ELSE 0

Op(k, a, b) == IF ~IsMax(k) THEN a + b ELSE IF a < b THEN b ELSE a

exp(d) == 2 ^ (Scale + d)

(* What element c adds to the k-th reduction, given the first one's result.*)
Term(k, c, first) == CASE k = 1 -> row[c]
                       [] k = 2 /\ kernel = "softmax" -> exp(row[c] - first)
                       [] k = 2 /\ kernel = "layernorm" -> row[c] * row[c]

Reduced(k, S, first) ==
  FoldSet(LAMBDA c, sum : Op(k, Term(k, c, first), sum), Neutral(k), S)

(* block_reduce_max and block_reduce_sum have an array each, the two       *)
(* calls of layernorm's block_reduce_sum share one.                        *)
Array(k) == IF kernel = "softmax" THEN k ELSE 1

-----------------------------------------------------------------------------

ReturnIdle(r, t) == IF threadIdx(t) \in DOMAIN r THEN "gather" ELSE "done"

Entry(r, t) == "gather"

Init ==
  /\ kernel \in Kernels /\ row \in Rows
  /\ pc = [t \in Thread |-> Entry(row, t)]
  /\ pass = [t \in Thread |-> 1]
  /\ val = [t \in Thread |-> 0]
  /\ totals = [t \in Thread |-> <<0, 0>>]
  /\ warp_results = [a \in {1, 2} \X Warp |-> Absent]
  /\ s = [k \in {1, 2} |-> Absent]
  /\ out = [c \in DOMAIN row |-> Absent]

(* The strided loop over the row.  softmax leaves the exponentials in      *)
(* row_out on its second way.                                              *)
Gather(t) ==
  LET k == pass[t]
  IN /\ pc[t] = "gather"
     /\ val' = [val EXCEPT ![t] = Reduced(k, Visits(t), totals[t][1])]
     /\ out' = [c \in DOMAIN row |->
                  IF kernel = "softmax" /\ k = 2 /\ c \in Visits(t)
                  THEN <<Term(k, c, totals[t][1])>> ELSE out[c]]
     /\ pc' = [pc EXCEPT ![t] = "shuffle"]
     /\ UNCHANGED <<kernel, row, pass, totals, shared>>

(* warp_reduce: after the shuffles over all offsets every lane of the warp *)
(* has the result of all.                                                  *)
Partner(l, offset) == IF (l \div offset) % 2 = 0 THEN l + offset ELSE l - offset

OffsetAboveOne == LogWarp - 1

Shuffles == LogWarp

Butterfly(w) ==
  LET k == pass[<<w, 0>>]
      after[i \in 0..LogWarp] ==
        IF i = 0 THEN [l \in Lane |-> val[<<w, l>>]]
        ELSE [l \in Lane |-> Op(k, after[i - 1][l],
                                after[i - 1][Partner(l, 2 ^ (LogWarp - i))])]
  IN after[Shuffles]

WarpReduce(w) ==
  /\ \E here \in {"shuffle", "shuffle0"} :
       /\ \A l \in Lane : pc[<<w, l>>] = here
       /\ pc' = [t \in Thread |-> IF t[1] # w THEN pc[t]
                                  ELSE IF here = "shuffle" THEN "put" ELSE "broadcast"]
  /\ val' = [t \in Thread |-> IF t[1] = w THEN Butterfly(w)[t[2]] ELSE val[t]]
  /\ UNCHANGED <<kernel, row, pass, totals, shared, out>>

(* Lane 0 of each warp hands in the warp's result.                         *)
AfterPut(t) == "sync"

Put(t) ==
  /\ pc[t] = "put"
  /\ warp_results' = IF t[2] = 0
                     THEN [warp_results EXCEPT ![<<Array(pass[t]), t[1]>>] = val[t]]
                     ELSE warp_results
  /\ pc' = [pc EXCEPT ![t] = AfterPut(t)]
  /\ UNCHANGED <<kernel, row, pass, val, totals, s, out>>

(* __syncthreads(), either call: then warp 0 reduces the warps' results,   *)
(* or everybody reads the broadcast one.                                   *)
SyncThreads ==
  /\ \A t \in Thread : pc[t] \in {"sync", "syncTotal"}
  /\ pc' = [t \in Thread |-> IF pc[t] = "syncTotal" THEN "read"
                             ELSE IF t[1] = 0 THEN "get" ELSE "broadcast"]
  /\ UNCHANGED <<kernel, row, pass, val, totals, shared, out>>

Get(t) ==
  /\ pc[t] = "get"
  /\ val' = [val EXCEPT ![t] =
               IF threadIdx(t) < NumWarps
               THEN warp_results[<<Array(pass[t]), t[2]>>] ELSE Neutral(pass[t])]
  /\ pc' = [pc EXCEPT ![t] = "shuffle0"]
  /\ UNCHANGED <<kernel, row, pass, totals, shared, out>>

LayernormSkipsBarrier == IF kernel = "layernorm" THEN "read" ELSE "syncTotal"

AfterBroadcast == "syncTotal"

Broadcast(t) ==
  /\ pc[t] = "broadcast"
  /\ s' = IF threadIdx(t) = 0 THEN [s EXCEPT ![pass[t]] = val[t]] ELSE s
  /\ pc' = [pc EXCEPT ![t] = AfterBroadcast]
  /\ UNCHANGED <<kernel, row, pass, val, totals, warp_results, out>>

Read(t) ==
  /\ pc[t] = "read"
  /\ totals' = [totals EXCEPT ![t][pass[t]] = s[pass[t]]]
  /\ pass' = [pass EXCEPT ![t] = 2]
  /\ pc' = [pc EXCEPT ![t] = IF pass[t] = 1 THEN "gather" ELSE "store"]
  /\ UNCHANGED <<kernel, row, val, shared, out>>

(* softmax divides its exponential by the sum, layernorm normalizes with   *)
(* the sums of elements and of squares.                                    *)
Store(t) ==
  /\ pc[t] = "store"
  /\ out' = [c \in DOMAIN row |->
               IF c \notin Visits(t) THEN out[c]
               ELSE IF kernel = "softmax" THEN Append(out[c], totals[t][2])
               ELSE <<row[c], totals[t][1], totals[t][2]>>]
  /\ pc' = [pc EXCEPT ![t] = "done"]
  /\ UNCHANGED <<kernel, row, pass, val, totals, shared>>

AllDone == \A t \in Thread : pc[t] = "done"

Finished == AllDone /\ UNCHANGED vars

Step(t) == Gather(t) \/ Put(t) \/ Get(t) \/ Broadcast(t) \/ Read(t) \/ Store(t)

Next ==
  \/ SyncThreads
  \/ \E w \in Warp : WarpReduce(w)
  \/ \E t \in Thread : Step(t)
  \/ Finished

(* The hardware lets some thread go on as long as one can.                 *)
Spec == Init /\ [][Next]_vars /\ WF_vars(Next)

-----------------------------------------------------------------------------

Writes(t) ==
  CASE pc[t] = "put" /\ t[2] = 0 -> {<<"warp_results", Array(pass[t]), t[1]>>}
    [] pc[t] = "broadcast" /\ threadIdx(t) = 0 -> {<<"s", pass[t]>>}
    [] OTHER -> {}

Reads(t) ==
  CASE pc[t] = "get" /\ threadIdx(t) < NumWarps ->
         {<<"warp_results", Array(pass[t]), t[2]>>}
    [] pc[t] = "read" -> {<<"s", pass[t]>>}
    [] OTHER -> {}

(* No thread is about to write a shared cell another is about to read or   *)
(* write.  In particular no warp hands in its second result while warp 0   *)
(* still reads the first ones: only the barrier after the broadcast keeps  *)
(* them apart.  (softmax.cu 94-130, 152-176, layernorm.cu 68-83, 102-114)  *)
NoDataRace ==
  \A t, u \in Thread : t # u => Writes(t) \cap (Reads(u) \cup Writes(u)) = {}

(* softmax.cu: "out[r, c] = exp(in[r, c] - row_max[r]) / sum_c' exp(in[r,  *)
(* c'] - row_max[r])"; layernorm.cu: the mean and the mean square of the   *)
(* whole row.  Every element is computed from reductions that hold every   *)
(* column exactly once, for rows shorter and longer than the block.        *)
(* (softmax.cu 144-183, layernorm.cu 91-128)                               *)
OutUsesWholeRow ==
  LET first  == Reduced(1, DOMAIN row, 0)
      second == Reduced(2, DOMAIN row, first)
  IN \A t \in Thread : pc[t] = "done" =>
       \A c \in Visits(t) :
         out[c] = IF kernel = "softmax" THEN <<exp(row[c] - first), second>>
                  ELSE <<row[c], first, second>>

(* Every thread gets through all four barriers, also where the row has     *)
(* fewer columns than the block has threads.                               *)
(* (softmax.cu 149-176, layernorm.cu 97-113)                               *)
BlockFinishes == <>AllDone
=============================================================================
