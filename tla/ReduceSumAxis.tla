--------------------------- MODULE ReduceSumAxis ----------------------------
(***************************************************************************)
(* reduce_sum_axis_kernel and its launch (cuda/kernels/reduce_sum_axis.cu) *)
(* for one channel c: GridY blocks of kBlock threads, each of which adds   *)
(* up its share of the channel and joins a tree reduction in the shared    *)
(* memory of its block.                                                    *)
(*                                                                         *)
(* A sum is the function that tells how often each element of the channel  *)
(* is in it: the order of the additions is left out, what is added is not. *)
(***************************************************************************)
EXTENDS ReduceLaunch, FiniteSets

CONSTANT Absent    \* memory before it is written

VARIABLES
  size,    \* the arguments N and H * W
  smem,    \* the shared memory of each block
  pc,      \* where each thread is
  s,       \* its loop variable s, doubled until the first barrier
  out      \* out[c], in global memory

vars == <<size, smem, pc, s, out>>

(* The launch takes one block in y for each kBlock elements of an image.   *)
GridY == (size.HW + kBlock - 1) \div kBlock

Thread == (0..GridY - 1) \X (0..kBlock - 1)   \* <<blockIdx.y, threadIdx.x>>

Element == (0..size.N - 1) \X (0..size.HW - 1)   \* <<n, h * W + w>>

Total == [e \in Element |-> 1]

Plus(a, b) == [e \in Element |-> a[e] + b[e]]

(* The elements of an image a thread visits.                               *)
Visits(t) ==
  {i \in 0..size.HW - 1 : i % (kBlock * GridY) = t[1] * kBlock + t[2]}

FirstWidth == kBlock

Init ==
  /\ size \in Sizes
  /\ smem = [t \in Thread |-> Absent]
  /\ pc = [t \in Thread |-> "load"]
  /\ s = [t \in Thread |-> FirstWidth]
  /\ out = Absent

(* The local sum goes to the thread's cell.                                *)
Load(t) ==
  /\ pc[t] = "load"
  /\ smem' = [smem EXCEPT ![t] = [e \in Element |-> IF e[2] \in Visits(t) THEN 1 ELSE 0]]
  /\ pc' = [pc EXCEPT ![t] = "sync"]
  /\ UNCHANGED <<size, s, out>>

(* __syncthreads(), and the head of the reduction loop after it.           *)
StopEarly(half) == half > 1

NeverStop(half) == half >= 0

NextLevel(half) == half > 0

SyncThreads(y) ==
  LET block == {t \in Thread : t[1] = y}
  IN /\ \A t \in block : pc[t] = "sync"
     /\ s' = [t \in Thread |-> IF t \in block THEN s[t] \div 2 ELSE s[t]]
     /\ pc' = [t \in Thread |-> IF t \notin block THEN pc[t]
                                ELSE IF NextLevel(s'[t]) THEN "add" ELSE "write"]
     /\ UNCHANGED <<size, smem, out>>

(* The upper half of the threads only comes to the barrier.                *)
PartnerBelow(t) == <<t[1], t[2] + s[t] - 1>>

Partner(t) == <<t[1], t[2] + s[t]>>

AddPartner(t) ==
  /\ pc[t] = "add"
  /\ smem' = IF t[2] < s[t] THEN [smem EXCEPT ![t] = Plus(@, smem[Partner(t)])]
                            ELSE smem
  /\ pc' = [pc EXCEPT ![t] = "sync"]
  /\ UNCHANGED <<size, s, out>>

(* Thread 0 of every block assigns out[c].                                 *)
Write(t) ==
  /\ pc[t] = "write"
  /\ out' = IF t[2] = 0 THEN smem[t] ELSE out
  /\ pc' = [pc EXCEPT ![t] = "done"]
  /\ UNCHANGED <<size, smem, s>>

AllDone == \A t \in Thread : pc[t] = "done"

Finished == AllDone /\ UNCHANGED vars

Step(t) == Load(t) \/ AddPartner(t) \/ Write(t)

Next ==
  \/ \E y \in 0..GridY - 1 : SyncThreads(y)
  \/ \E t \in Thread : Step(t)
  \/ Finished

(* The hardware lets some thread go on as long as one can.                 *)
Spec == Init /\ [][Next]_vars /\ WF_vars(Next)

-----------------------------------------------------------------------------

Writes(t) == CASE pc[t] = "load" -> {t}
               [] pc[t] = "add" /\ t[2] < s[t] -> {t}
               [] OTHER -> {}

Reads(t) == CASE pc[t] = "add" /\ t[2] < s[t] -> {t, Partner(t)}
              [] pc[t] = "write" /\ t[2] = 0 -> {t}
              [] OTHER -> {}

(* Between two barriers no thread writes a shared cell that another reads  *)
(* or writes, at any level of the tree.  (reduce_sum_axis.cu 73-85)        *)
NoDataRace ==
  \A t, u \in Thread : t # u => Writes(t) \cap (Reads(u) \cup Writes(u)) = {}

(* reduce_sum_axis.cu: "out[c] = sum over (n, h, w) of x[n, c, h, w]".     *)
(* When all blocks have ended, every element of the channel is in out[c]   *)
(* exactly once.  (reduce_sum_axis.cu 57-85, 94-97)                        *)
OutIsChannelSum == AllDone => out = Total

(* Every thread gets through all levels of the tree.                       *)
(* (reduce_sum_axis.cu 77-82)                                              *)
BlockFinishes == <>AllDone
=============================================================================
