---------------------------------- MODULE Rcu ----------------------------------
(***************************************************************************)
(* The read-copy-update scheme of XIndex: one progress counter per worker, *)
(* bumped when an index operation begins, and rcu_barrier, which snapshots *)
(* the counters and spins until each one has moved.  The state is the      *)
(* global config object, which outlives the XIndex instances of a process. *)
(***************************************************************************)
EXTENDS Naturals, FiniteSets

CONSTANTS Threads,       \* threads that run index operations
          Callers,       \* background threads, which call rcu_barrier
          worker_n,      \* config.worker_n, the length of config.rcu_status
          SlotOf,        \* parlay::worker_id() of each thread
          MaxInstances,  \* bound: XIndex objects built by the process
          MaxStatus      \* bound: value of a progress counter

Slots == 0 .. worker_n - 1

ASSUME WorkerNAssumption == worker_n \in Nat \ {0}
ASSUME SlotOfAssumption == SlotOf \in [Threads -> Slots]
ASSUME BoundAssumption == MaxInstances \in Nat /\ MaxStatus \in Nat

VARIABLES status,     \* config.rcu_status[s].status
          exited,     \* config.exited
          alive,      \* an XIndex object exists
          instances,  \* how many have been built
          inOp,       \* threads executing an index operation
          pc,         \* pc[c]: "out" of rcu_barrier, in its "snap" or "spin" loop
          w_i,        \* the loop variable of the loop c is in
          prev,       \* prev_status of c
          old         \* history: operations already running when c called

vars == <<status, exited, alive, instances, inOp, pc, w_i, prev, old>>

Init ==
  /\ status = [s \in Slots |-> 0]
  /\ exited = FALSE
  /\ alive = FALSE
  /\ instances = 0
  /\ inOp = {}
  /\ pc = [c \in Callers |-> "out"]
  /\ w_i = [c \in Callers |-> 0]
  /\ prev = [c \in Callers |-> [s \in Slots |-> 0]]
  /\ old = [c \in Callers |-> {}]

(* XIndex::XIndex.  rcu_init allocates and zeroes the counters the first   *)
(* time only, so a second instance inherits them, and exited.              *)
Construct ==
  /\ ~alive
  /\ instances < MaxInstances
  /\ alive' = TRUE
  /\ instances' = instances + 1
  /\ UNCHANGED <<status, exited, inOp, pc, w_i, prev, old>>

(* XIndex::~XIndex, called once the worker threads are done with the       *)
(* index.  The background threads are not joined: they go on.              *)
Destroy ==
  /\ alive
  /\ inOp = {}
  /\ alive' = FALSE
  /\ exited' = TRUE
  /\ UNCHANGED <<status, instances, inOp, pc, w_i, prev, old>>

(* rcu_progress, at the start of an operation and of each retry of put.    *)
rcu_progress(t) ==
  /\ alive
  /\ status[SlotOf[t]] < MaxStatus
  /\ status' = [status EXCEPT ![SlotOf[t]] = @ + 1]
  /\ inOp' = inOp \cup {t}
  /\ old' = [c \in Callers |-> old[c] \ {t}]
  /\ UNCHANGED <<exited, alive, instances, pc, w_i, prev>>

(* An operation of t returns to the benchmark. *)
OpReturn(t) ==
  /\ t \in inOp
  /\ inOp' = inOp \ {t}
  /\ old' = [c \in Callers |-> old[c] \ {t}]
  /\ UNCHANGED <<status, exited, alive, instances, pc, w_i, prev>>

BarrierCall(c) ==
  /\ pc[c] = "out"
  /\ instances > 0
  /\ pc' = [pc EXCEPT ![c] = "snap"]
  /\ w_i' = [w_i EXCEPT ![c] = 0]
  /\ old' = [old EXCEPT ![c] = inOp]
  /\ UNCHANGED <<status, exited, alive, instances, inOp, prev>>

(* One iteration of the loop that fills prev_status. *)
BarrierSnapshot(c) ==
  /\ pc[c] = "snap"
  /\ prev' = [prev EXCEPT ![c][w_i[c]] = status[w_i[c]]]
  /\ IF w_i[c] + 1 = worker_n
       THEN pc' = [pc EXCEPT ![c] = "spin"] /\ w_i' = [w_i EXCEPT ![c] = 0]
       ELSE w_i' = [w_i EXCEPT ![c] = @ + 1] /\ UNCHANGED pc
  /\ UNCHANGED <<status, exited, alive, instances, inOp, old>>

(* Fault: the spin loop compares with < instead of <=. *)
BarrierPass_Equal(c) ==
  /\ pc[c] = "spin"
  /\ w_i[c] < worker_n
  /\ status[w_i[c]] >= prev[c][w_i[c]] \/ exited
  /\ w_i' = [w_i EXCEPT ![c] = @ + 1]
  /\ UNCHANGED <<status, exited, alive, instances, inOp, pc, prev, old>>

(* The while condition of the second loop fails for slot w_i. *)
BarrierPass(c) ==
  /\ pc[c] = "spin"
  /\ w_i[c] < worker_n
  /\ status[w_i[c]] > prev[c][w_i[c]] \/ exited
  /\ w_i' = [w_i EXCEPT ![c] = @ + 1]
  /\ UNCHANGED <<status, exited, alive, instances, inOp, pc, prev, old>>

(* Fault: the spin loop leaves out the last worker. *)
BarrierReturn_Early(c) ==
  /\ pc[c] = "spin"
  /\ w_i[c] >= worker_n - 1
  /\ pc' = [pc EXCEPT ![c] = "out"]
  /\ old' = [old EXCEPT ![c] = {}]
  /\ UNCHANGED <<status, exited, alive, instances, inOp, w_i, prev>>

BarrierReturn(c) ==
  /\ pc[c] = "spin"
  /\ w_i[c] = worker_n
  /\ pc' = [pc EXCEPT ![c] = "out"]
  /\ old' = [old EXCEPT ![c] = {}]
  /\ UNCHANGED <<status, exited, alive, instances, inOp, w_i, prev>>

Next ==
  \/ Construct
  \/ Destroy
  \/ \E t \in Threads : rcu_progress(t) \/ OpReturn(t)
  \/ \E c \in Callers : \/ BarrierCall(c)
                        \/ BarrierSnapshot(c)
                        \/ BarrierPass(c)
                        \/ BarrierReturn(c)

Spec == Init /\ [][Next]_vars

-------------------------------------------------------------------------------
(* Every variable has its type. *)
TypeOK ==
  /\ status \in [Slots -> Nat]
  /\ exited \in BOOLEAN
  /\ alive \in BOOLEAN
  /\ instances \in Nat
  /\ inOp \in SUBSET Threads
  /\ pc \in [Callers -> {"out", "snap", "spin"}]
  /\ w_i \in [Callers -> Nat]
  /\ prev \in [Callers -> [Slots -> Nat]]
  /\ old \in [Callers -> SUBSET Threads]

(* The comment on rcu_barrier, "wait for all workers": when a call is      *)
(* about to return, every operation that was running when it was called    *)
(* has ended, so nobody holds a pointer unlinked before the call.          *)
GracePeriod ==
  \A c \in Callers : pc[c] = "spin" /\ w_i[c] = worker_n => old[c] = {}

(* Why GracePeriod holds: an old operation still running has not moved its *)
(* counter since the snapshot, and the spin loop has not passed its slot.  *)
OldNotPassed ==
  \A c \in Callers : \A t \in old[c] :
    /\ t \in inOp
    /\ pc[c] = "snap" /\ SlotOf[t] < w_i[c]
         => status[SlotOf[t]] = prev[c][SlotOf[t]]
    /\ pc[c] = "spin"
         => /\ w_i[c] <= SlotOf[t]
            /\ status[SlotOf[t]] = prev[c][SlotOf[t]]
    /\ pc[c] # "out"

(* The counters a caller snapshotted never run backwards, and a slot the   *)
(* spin loop has passed really moved, unless the index is exiting.         *)
SnapshotBelow ==
  \A c \in Callers : \A s \in Slots :
    /\ pc[c] = "snap" /\ s < w_i[c] => prev[c][s] <= status[s]
    /\ pc[c] = "spin" => prev[c][s] <= status[s]
    /\ pc[c] = "spin" /\ s < w_i[c] => prev[c][s] < status[s] \/ exited

(* The waiting set of Quiescence, read off the counters. *)
NeedOf(c) ==
  CASE pc[c] = "out" -> {}
    [] pc[c] = "snap" -> {s \in Slots : s >= w_i[c] \/ status[s] <= prev[c][s]}
    [] pc[c] = "spin" -> {s \in Slots : status[s] <= prev[c][s]}

Q == INSTANCE Quiescence WITH
       calling <- [c \in Callers |-> pc[c] # "out"],
       need <- [c \in Callers |-> NeedOf(c)]

(* rcu_barrier with its counters implements the waiting set that the group *)
(* model relies on: it returns only after every slot moved since the call. *)
ImplementsQuiescence == Q!QSpec
================================================================================
