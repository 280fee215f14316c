------------------------------- MODULE Rcu_proofs -------------------------------
(***************************************************************************)
(* Proofs about Rcu: its type invariant, the refinement of Quiescence by   *)
(* the counters, and the grace period of rcu_barrier.                      *)
(***************************************************************************)
EXTENDS Rcu, TLAPS

(* The loop variable of rcu_barrier stays inside the arrays it indexes. *)
LoopBound ==
  \A c \in Callers : /\ pc[c] = "snap" => w_i[c] \in Slots
                     /\ pc[c] = "spin" => w_i[c] <= worker_n

(* The inductive invariant behind the refinement. *)
CounterInv == TypeOK /\ LoopBound /\ SnapshotBelow

(* Init establishes the counter invariant of rcu_barrier. *)
LEMMA CounterInit == Init => CounterInv
<1> SUFFICES ASSUME Init
             PROVE  CounterInv
  OBVIOUS
<1>1. TypeOK
  BY DEF Init, TypeOK
<1>2. LoopBound
  BY DEF Init, LoopBound
<1>3. SnapshotBelow
  BY DEF Init, SnapshotBelow
<1> QED
  BY <1>1, <1>2, <1>3 DEF CounterInv

(* Every step of the progress counters, the barrier loops and the          *)
(* instance lifecycle keeps the counter invariant.                         *)
LEMMA CounterStep == CounterInv /\ [Next]_vars => CounterInv'
<1> SUFFICES ASSUME CounterInv, [Next]_vars
             PROVE  CounterInv'
  OBVIOUS
<1> USE WorkerNAssumption, SlotOfAssumption
        DEF CounterInv, TypeOK, LoopBound, SnapshotBelow, Slots
<1>1. CASE Construct
  BY <1>1 DEF Construct
<1>2. CASE Destroy
  BY <1>2 DEF Destroy
<1>3. ASSUME NEW t \in Threads, rcu_progress(t)
      PROVE  CounterInv'
  <2>1. SlotOf[t] \in Slots /\ status[SlotOf[t]] \in Nat
    OBVIOUS
  <2>2. \A s \in Slots : status'[s] \in Nat /\ status[s] <= status'[s]
    BY <1>3, <2>1 DEF rcu_progress
  <2>3. TypeOK'
    BY <1>3, <2>2 DEF rcu_progress
  <2>4. LoopBound'
    BY <1>3 DEF rcu_progress
  <2>5. ASSUME NEW c \in Callers, NEW s \in Slots
        PROVE  /\ pc'[c] = "snap" /\ s < w_i'[c] => prev'[c][s] <= status'[s]
               /\ pc'[c] = "spin" => prev'[c][s] <= status'[s]
               /\ pc'[c] = "spin" /\ s < w_i'[c]
                    => prev'[c][s] < status'[s] \/ exited'
    <3>1. prev[c][s] \in Nat /\ status[s] \in Nat /\ status'[s] \in Nat
      BY <2>2
    <3>2. pc' = pc /\ w_i' = w_i /\ prev' = prev /\ exited' = exited
      BY <1>3 DEF rcu_progress
    <3>3. status[s] <= status'[s]
      BY <2>2
    <3>4. /\ pc[c] = "snap" /\ s < w_i[c] => prev[c][s] <= status[s]
          /\ pc[c] = "spin" => prev[c][s] <= status[s]
          /\ pc[c] = "spin" /\ s < w_i[c] => prev[c][s] < status[s] \/ exited
      OBVIOUS
    <3> HIDE DEF CounterInv, TypeOK, LoopBound, SnapshotBelow, Slots
    <3>5. /\ prev[c][s] <= status[s] => prev[c][s] <= status'[s]
          /\ prev[c][s] < status[s] => prev[c][s] < status'[s]
      BY <3>1, <3>3
    <3> QED
      BY <3>2, <3>4, <3>5, Zenon
  <2>6. SnapshotBelow'
    BY <2>5
  <2> QED
    BY <2>3, <2>4, <2>6
<1>4. ASSUME NEW t \in Threads, OpReturn(t)
      PROVE  CounterInv'
  BY <1>4 DEF OpReturn
<1>5. ASSUME NEW c \in Callers, BarrierCall(c)
      PROVE  CounterInv'
  BY <1>5 DEF BarrierCall
<1>6. ASSUME NEW c \in Callers, BarrierSnapshot(c)
      PROVE  CounterInv'
  <2>1. w_i[c] \in Slots /\ status[w_i[c]] \in Nat
    BY <1>6 DEF BarrierSnapshot
  <2>2. TypeOK'
    <3>1. prev' \in [Callers -> [Slots -> Nat]]
      BY <1>6, <2>1 DEF BarrierSnapshot
    <3>2. pc' \in [Callers -> {"out", "snap", "spin"}]
      BY <1>6 DEF BarrierSnapshot
    <3>3. \/ w_i' = [w_i EXCEPT ![c] = 0]
          \/ w_i' = [w_i EXCEPT ![c] = w_i[c] + 1]
      BY <1>6 DEF BarrierSnapshot
    <3>4. w_i' \in [Callers -> Nat]
      <4>1. w_i[c] + 1 \in Nat /\ w_i \in [Callers -> Nat]
        BY <2>1
      <4>2. CASE w_i' = [w_i EXCEPT ![c] = 0]
        BY <4>1, <4>2
      <4>3. CASE w_i' = [w_i EXCEPT ![c] = w_i[c] + 1]
        BY <4>1, <4>3
      <4> QED
        BY <3>3, <4>2, <4>3
    <3> QED
      BY <1>6, <3>1, <3>2, <3>4 DEF BarrierSnapshot
  <2>3. ASSUME NEW d \in Callers
        PROVE  /\ pc'[d] = "snap" => w_i'[d] \in Slots
               /\ pc'[d] = "spin" => w_i'[d] <= worker_n
    <3>1. CASE d # c
      BY <1>6, <3>1 DEF BarrierSnapshot
    <3>2. CASE d = c /\ w_i[c] + 1 = worker_n
      BY <1>6, <3>2 DEF BarrierSnapshot
    <3>3. CASE d = c /\ w_i[c] + 1 # worker_n
      BY <1>6, <2>1, <3>3 DEF BarrierSnapshot
    <3> QED
      BY <3>1, <3>2, <3>3
  <2>4. \A d \in Callers : \A s \in Slots :
          prev'[d][s] = IF d = c /\ s = w_i[c] THEN status[s] ELSE prev[d][s]
    BY <1>6, <2>1 DEF BarrierSnapshot
  <2>5. \A s \in Slots : status' = status /\ status[s] \in Nat
    BY <1>6 DEF BarrierSnapshot
  <2>6. ASSUME NEW d \in Callers, NEW s \in Slots
        PROVE  /\ pc'[d] = "snap" /\ s < w_i'[d] => prev'[d][s] <= status'[s]
               /\ pc'[d] = "spin" => prev'[d][s] <= status'[s]
               /\ pc'[d] = "spin" /\ s < w_i'[d]
                    => prev'[d][s] < status'[s] \/ exited'
    <3>1. CASE d # c
      BY <1>6, <2>4, <3>1 DEF BarrierSnapshot
    <3>2. CASE d = c /\ w_i[c] + 1 = worker_n
      <4>1. pc'[c] = "spin" /\ w_i'[c] = 0
        BY <1>6, <3>2 DEF BarrierSnapshot
      <4>2. s < w_i[c] \/ s = w_i[c]
        BY <3>2
      <4> QED
        BY <1>6, <2>4, <2>5, <3>2, <4>1, <4>2 DEF BarrierSnapshot
    <3>3. CASE d = c /\ w_i[c] + 1 # worker_n
      <4>1. pc'[c] = "snap" /\ w_i'[c] = w_i[c] + 1
        BY <1>6, <3>3 DEF BarrierSnapshot
      <4>2. s < w_i'[c] => s < w_i[c] \/ s = w_i[c]
        BY <2>1, <4>1
      <4> QED
        BY <1>6, <2>4, <2>5, <3>3, <4>1, <4>2 DEF BarrierSnapshot
    <3> QED
      BY <3>1, <3>2, <3>3
  <2>7. SnapshotBelow'
    BY <2>6
  <2> QED
    BY <2>2, <2>3, <2>7
<1>7. ASSUME NEW c \in Callers, BarrierPass(c)
      PROVE  CounterInv'
  <2>1. /\ w_i' = [w_i EXCEPT ![c] = w_i[c] + 1]
        /\ w_i[c] \in Slots
        /\ status[w_i[c]] > prev[c][w_i[c]] \/ exited
    BY <1>7 DEF BarrierPass
  <2>2. TypeOK' /\ LoopBound'
    <3>1. w_i' \in [Callers -> Nat]
      BY <2>1
    <3>2. w_i'[c] <= worker_n
      BY <2>1
    <3> QED
      BY <1>7, <2>1, <3>1, <3>2 DEF BarrierPass
  <2>3. ASSUME NEW d \in Callers, NEW s \in Slots
        PROVE  /\ pc'[d] = "snap" /\ s < w_i'[d] => prev'[d][s] <= status'[s]
               /\ pc'[d] = "spin" => prev'[d][s] <= status'[s]
               /\ pc'[d] = "spin" /\ s < w_i'[d]
                    => prev'[d][s] < status'[s] \/ exited'
    <3>1. /\ pc' = pc /\ prev' = prev /\ status' = status /\ exited' = exited
          /\ pc[c] = "spin"
      BY <1>7 DEF BarrierPass
    <3>2. CASE d # c
      BY <2>1, <3>1, <3>2
    <3>3. CASE d = c
      <4>1. s < w_i'[c] => s < w_i[c] \/ s = w_i[c]
        BY <2>1
      <4>2. prev[c][s] \in Nat /\ status[s] \in Nat
        OBVIOUS
      <4> QED
        BY <2>1, <3>1, <3>3, <4>1, <4>2
    <3> QED
      BY <3>2, <3>3
  <2>4. SnapshotBelow'
    BY <2>3
  <2> QED
    BY <2>2, <2>4
<1>8. ASSUME NEW c \in Callers, BarrierReturn(c)
      PROVE  CounterInv'
  BY <1>8 DEF BarrierReturn
<1>9. CASE UNCHANGED vars
  BY <1>9 DEF vars
<1> QED
  BY <1>1, <1>2, <1>3, <1>4, <1>5, <1>6, <1>7, <1>8, <1>9 DEF Next

(* The type invariant of the RCU state, and the counter invariant that     *)
(* makes it inductive, hold in every reachable state.                      *)
THEOREM RcuCounters == Spec => []CounterInv
BY CounterInit, CounterStep, PTL DEF Spec

(* Every variable of the RCU model keeps its type. *)
THEOREM RcuTypeOK == Spec => []TypeOK
<1>1. CounterInv => TypeOK
  BY DEF CounterInv
<1> QED
  BY <1>1, RcuCounters, PTL

-------------------------------------------------------------------------------
(* The abstract variables start as Quiescence says. *)
LEMMA RefinesInit == Init => Q!QInit
BY DEF Init, Q!QInit, NeedOf

(* Every step of the counters is a step of Quiescence or changes nothing   *)
(* it can see: the snapshot loop is a stutter, and a bump of a counter is  *)
(* noticed by exactly the callers whose waiting set it shrinks.            *)
LEMMA RefinesStep == CounterInv /\ [Next]_vars => [Q!QNext]_(Q!qvars)
<1> SUFFICES ASSUME CounterInv, [Next]_vars
             PROVE  Q!QNext \/ UNCHANGED Q!qvars
  OBVIOUS
<1> USE WorkerNAssumption, SlotOfAssumption DEF CounterInv
<1> DEFINE calling == [c \in Callers |-> pc[c] # "out"]
           need == [c \in Callers |-> NeedOf(c)]
<1>1. CASE Construct
  BY <1>1 DEF Construct, Q!qvars, NeedOf
<1>2. CASE Destroy
  <2>1. exited' = TRUE /\ calling' = calling /\ need' = need
    BY <1>2 DEF Destroy, NeedOf
  <2>2. Q!Exit
    BY <2>1 DEF Q!Exit
  <2> QED
    BY <2>2 DEF Q!QNext
<1>3. ASSUME NEW t \in Threads, rcu_progress(t)
      PROVE  Q!QNext
  <2> DEFINE S == {c \in Callers : SlotOf[t] \notin NeedOf(c)'}
  <2>1. calling' = calling /\ exited' = exited
    BY <1>3 DEF rcu_progress
  <2>2. SlotOf[t] \in Slots
    OBVIOUS
  <2>3. ASSUME NEW c \in Callers
        PROVE  NeedOf(c)' = IF c \in S THEN NeedOf(c) \ {SlotOf[t]} ELSE NeedOf(c)
    <3>1. pc' = pc /\ w_i' = w_i /\ prev' = prev
      BY <1>3 DEF rcu_progress
    <3>2. \A s \in Slots : s # SlotOf[t] => status'[s] = status[s]
      BY <1>3 DEF rcu_progress, TypeOK
    <3>3. status[SlotOf[t]] \in Nat /\ status'[SlotOf[t]] = status[SlotOf[t]] + 1
      BY <1>3, <2>2 DEF rcu_progress, TypeOK
    <3>4. prev[c][SlotOf[t]] \in Nat
      BY <2>2 DEF TypeOK
    <3>5. \A s \in Slots : s # SlotOf[t] => (s \in NeedOf(c)' <=> s \in NeedOf(c))
      BY <3>1, <3>2 DEF NeedOf
    <3>6. SlotOf[t] \in NeedOf(c)' => SlotOf[t] \in NeedOf(c)
      <4>1. status'[SlotOf[t]] <= prev[c][SlotOf[t]]
              => status[SlotOf[t]] <= prev[c][SlotOf[t]]
        BY <3>3, <3>4
      <4>2. pc[c] \in {"out", "snap", "spin"}
        BY DEF TypeOK
      <4> QED
        BY <2>2, <3>1, <4>1, <4>2 DEF NeedOf
    <3>7. NeedOf(c) \subseteq Slots /\ NeedOf(c)' \subseteq Slots
      BY <3>1 DEF NeedOf, TypeOK
    <3> QED
      BY <2>2, <3>5, <3>6, <3>7
  <2>4. need' = [c \in Callers |-> IF c \in S THEN need[c] \ {SlotOf[t]} ELSE need[c]]
    BY <2>3
  <2>5. Q!ProgressSeen(SlotOf[t], S)
    BY <2>1, <2>4 DEF Q!ProgressSeen
  <2>6. Q!Progress(SlotOf[t])
    BY <2>5 DEF Q!Progress
  <2> QED
    BY <2>2, <2>6 DEF Q!QNext
<1>4. ASSUME NEW t \in Threads, OpReturn(t)
      PROVE  UNCHANGED Q!qvars
  BY <1>4 DEF OpReturn, Q!qvars, NeedOf
<1>5. ASSUME NEW c \in Callers, BarrierCall(c)
      PROVE  Q!QNext
  <2>1. calling' = [calling EXCEPT ![c] = TRUE] /\ ~calling[c]
    BY <1>5 DEF BarrierCall, TypeOK
  <2>2. NeedOf(c)' = Slots
    BY <1>5 DEF BarrierCall, NeedOf, TypeOK, Slots
  <2>3. \A d \in Callers : d # c => NeedOf(d)' = NeedOf(d)
    BY <1>5 DEF BarrierCall, NeedOf, TypeOK
  <2>4. need' = [need EXCEPT ![c] = Slots]
    BY <2>2, <2>3
  <2>5. Q!Call(c)
    BY <1>5, <2>1, <2>4 DEF Q!Call, BarrierCall
  <2> QED
    BY <2>5 DEF Q!QNext
<1>6. ASSUME NEW c \in Callers, BarrierSnapshot(c)
      PROVE  UNCHANGED Q!qvars
  <2>1. calling' = calling /\ exited' = exited
    BY <1>6 DEF BarrierSnapshot, TypeOK
  <2>2. \A d \in Callers : d # c => NeedOf(d)' = NeedOf(d)
    BY <1>6 DEF BarrierSnapshot, NeedOf, TypeOK
  <2>3. /\ w_i[c] \in Slots /\ status[w_i[c]] \in Nat
        /\ pc[c] = "snap" /\ status' = status
    BY <1>6 DEF BarrierSnapshot, LoopBound, TypeOK
  <2>4. \A s \in Slots :
          prev'[c][s] = IF s = w_i[c] THEN status[s] ELSE prev[c][s]
    BY <1>6, <2>3 DEF BarrierSnapshot, TypeOK
  <2>5. ASSUME NEW s \in Slots
        PROVE  s \in NeedOf(c)' <=> s \in NeedOf(c)
    <3>1. s \in NeedOf(c) <=> s >= w_i[c] \/ status[s] <= prev[c][s]
      BY <2>3 DEF NeedOf
    <3>2. s \in Nat /\ w_i[c] \in Nat /\ status[s] \in Nat
      BY <2>3 DEF Slots, TypeOK
    <3>3. CASE w_i[c] + 1 = worker_n
      <4>1. s \in NeedOf(c)' <=> status[s] <= prev'[c][s]
        BY <1>6, <2>3, <3>3 DEF BarrierSnapshot, NeedOf, TypeOK
      <4>2. s <= w_i[c]
        BY <3>3, <2>3 DEF Slots
      <4> QED
        BY <2>4, <3>1, <3>2, <4>1, <4>2
    <3>4. CASE w_i[c] + 1 # worker_n
      <4>1. s \in NeedOf(c)' <=> s >= w_i[c] + 1 \/ status[s] <= prev'[c][s]
        BY <1>6, <2>3, <3>4 DEF BarrierSnapshot, NeedOf, TypeOK
      <4>2. s >= w_i[c] + 1 <=> s > w_i[c]
        BY <3>2
      <4> QED
        BY <2>4, <3>1, <3>2, <4>1, <4>2
    <3> QED
      BY <3>3, <3>4
  <2>6. NeedOf(c) \subseteq Slots /\ NeedOf(c)' \subseteq Slots
    <3>1. pc'[c] \in {"snap", "spin"}
      BY <1>6 DEF BarrierSnapshot, TypeOK
    <3> QED
      BY <2>3, <3>1 DEF NeedOf
  <2>7. need' = need
    BY <2>2, <2>5, <2>6
  <2> QED
    BY <2>1, <2>7 DEF Q!qvars
<1>7. ASSUME NEW c \in Callers, BarrierPass(c)
      PROVE  UNCHANGED Q!qvars
  <2>1. /\ pc' = pc /\ prev' = prev /\ status' = status /\ exited' = exited
        /\ pc[c] = "spin" /\ w_i' = [w_i EXCEPT ![c] = @ + 1]
    BY <1>7 DEF BarrierPass
  <2>2. \A d \in Callers : NeedOf(d)' = NeedOf(d)
    BY <2>1 DEF NeedOf, TypeOK
  <2> QED
    BY <2>1, <2>2 DEF Q!qvars
<1>8. ASSUME NEW c \in Callers, BarrierReturn(c)
      PROVE  Q!QNext
  <2>1. /\ pc[c] = "spin" /\ w_i[c] = worker_n
        /\ pc' = [pc EXCEPT ![c] = "out"] /\ exited' = exited
    BY <1>8 DEF BarrierReturn
  <2>2. calling[c] /\ calling' = [calling EXCEPT ![c] = FALSE]
    BY <2>1 DEF TypeOK
  <2>3. NeedOf(c) = {} \/ exited
    <3>1. \A s \in Slots : s < worker_n /\ status[s] \in Nat /\ prev[c][s] \in Nat
      BY DEF Slots, TypeOK
    <3> QED
      BY <2>1, <3>1 DEF NeedOf, SnapshotBelow
  <2>4. NeedOf(c)' = {}
    BY <2>1 DEF NeedOf, TypeOK
  <2>5. \A d \in Callers : d # c => NeedOf(d)' = NeedOf(d)
    BY <1>8 DEF BarrierReturn, NeedOf, TypeOK
  <2>6. need' = [need EXCEPT ![c] = {}]
    BY <2>4, <2>5
  <2>7. Q!Return(c)
    BY <2>1, <2>2, <2>3, <2>6 DEF Q!Return
  <2> QED
    BY <2>7 DEF Q!QNext
<1>9. CASE UNCHANGED vars
  BY <1>9 DEF vars, Q!qvars, NeedOf
<1> QED
  BY <1>1, <1>2, <1>3, <1>4, <1>5, <1>6, <1>7, <1>8, <1>9 DEF Next

(* The snapshot and spin loops of rcu_barrier implement the waiting set of *)
(* Quiescence, for any number of workers, background threads and index     *)
(* instances and for any assignment of threads to slots.                   *)
THEOREM RcuImplementsQuiescence == Spec => ImplementsQuiescence
<1>1. Init => Q!QInit
  BY RefinesInit
<1>2. CounterInv /\ [Next]_vars => [Q!QNext]_(Q!qvars)
  BY RefinesStep
<1> QED
  BY <1>1, <1>2, RcuCounters, PTL DEF Spec, ImplementsQuiescence, Q!QSpec

-------------------------------------------------------------------------------
(* What the grace period needs of the process: one XIndex object in its    *)
(* lifetime, and a worker id of its own for every thread.                  *)
OneInstance == MaxInstances = 1
OwnSlot == \A t, u \in Threads : SlotOf[t] = SlotOf[u] => t = u

(* Once exited is set nobody is in an operation, and nobody will be.       *)
Lifecycle ==
  /\ exited => ~alive
  /\ ~alive => inOp = {}
  /\ alive \/ exited => instances >= 1

GraceInv == CounterInv /\ OldNotPassed /\ Lifecycle

(* Before the first instance exists no barrier runs and nothing is old. *)
LEMMA GraceInit == Init => GraceInv
BY CounterInit DEF Init, GraceInv, OldNotPassed, Lifecycle

(* The grace-period invariant is inductive: a caller's old operations are  *)
(* those whose own counter still has the value of the snapshot.            *)
LEMMA GraceStep ==
  ASSUME OneInstance, OwnSlot, GraceInv, [Next]_vars
  PROVE  GraceInv'
<1> USE WorkerNAssumption, SlotOfAssumption, BoundAssumption DEF GraceInv
<1>0. CounterInv'
  BY CounterStep
<1>a. TypeOK /\ LoopBound
  BY DEF CounterInv
<1>b. Lifecycle'
  <2>1. CASE Construct
    BY <1>a, <2>1 DEF Construct, Lifecycle, OneInstance, TypeOK
  <2>2. CASE Destroy
    BY <1>a, <2>2 DEF Destroy, Lifecycle, TypeOK
  <2>3. ASSUME NEW t \in Threads, rcu_progress(t) \/ OpReturn(t)
        PROVE  Lifecycle'
    BY <1>a, <2>3 DEF rcu_progress, OpReturn, Lifecycle, TypeOK
  <2>4. ASSUME NEW c \in Callers,
               \/ BarrierCall(c) \/ BarrierSnapshot(c)
               \/ BarrierPass(c) \/ BarrierReturn(c)
        PROVE  Lifecycle'
    BY <2>4 DEF BarrierCall, BarrierSnapshot, BarrierPass, BarrierReturn, Lifecycle
  <2>5. CASE UNCHANGED vars
    BY <2>5 DEF vars, Lifecycle
  <2> QED
    BY <2>1, <2>2, <2>3, <2>4, <2>5 DEF Next
<1>c. OldNotPassed'
  <2>1. CASE Construct
    BY <2>1 DEF Construct, OldNotPassed
  <2>2. CASE Destroy
    BY <2>2 DEF Destroy, OldNotPassed
  <2>3. ASSUME NEW t \in Threads, rcu_progress(t)
        PROVE  OldNotPassed'
    <3>1. ASSUME NEW c \in Callers, NEW u \in old'[c]
          PROVE  u \in old[c] /\ u \in inOp' /\ status'[SlotOf[u]] = status[SlotOf[u]]
      <4>1. u \in old[c] /\ u # t
        BY <2>3, <3>1 DEF rcu_progress
      <4>2. u \in Threads
        BY <1>a, <4>1 DEF TypeOK
      <4>3. SlotOf[u] # SlotOf[t] /\ SlotOf[u] \in Slots /\ SlotOf[t] \in Slots
        BY <4>1, <4>2 DEF OwnSlot
      <4> QED
        BY <1>a, <2>3, <4>1, <4>3 DEF rcu_progress, OldNotPassed, TypeOK
    <3>2. pc' = pc /\ w_i' = w_i /\ prev' = prev
      BY <2>3 DEF rcu_progress
    <3> QED
      BY <3>1, <3>2 DEF OldNotPassed
  <2>4. ASSUME NEW t \in Threads, OpReturn(t)
        PROVE  OldNotPassed'
    BY <2>4 DEF OpReturn, OldNotPassed
  <2>5. ASSUME NEW c \in Callers, BarrierCall(c)
        PROVE  OldNotPassed'
    <3>1. ASSUME NEW t \in Threads
          PROVE  SlotOf[t] \in Nat
      BY DEF Slots
    <3> QED
      BY <1>a, <2>5, <3>1 DEF BarrierCall, OldNotPassed, TypeOK
  <2>6. ASSUME NEW c \in Callers, BarrierSnapshot(c)
        PROVE  OldNotPassed'
    <3>1. /\ pc[c] = "snap" /\ w_i[c] \in Slots
          /\ status' = status /\ inOp' = inOp /\ old' = old
      BY <1>a, <2>6 DEF BarrierSnapshot, LoopBound
    <3>2. ASSUME NEW d \in Callers, NEW t \in old[d], d # c
          PROVE  /\ pc'[d] = pc[d] /\ w_i'[d] = w_i[d] /\ prev'[d] = prev[d]
      BY <1>a, <2>6, <3>2 DEF BarrierSnapshot, TypeOK
    <3>3. ASSUME NEW t \in old[c]
          PROVE  /\ t \in inOp'
                 /\ pc'[c] = "snap" /\ SlotOf[t] < w_i'[c]
                      => status'[SlotOf[t]] = prev'[c][SlotOf[t]]
                 /\ pc'[c] = "spin"
                      => /\ w_i'[c] <= SlotOf[t]
                         /\ status'[SlotOf[t]] = prev'[c][SlotOf[t]]
                 /\ pc'[c] # "out"
      <4>1. t \in Threads /\ SlotOf[t] \in Slots
        BY <1>a DEF TypeOK
      <4>2. prev'[c][SlotOf[t]] = IF SlotOf[t] = w_i[c] THEN status[SlotOf[t]]
                                  ELSE prev[c][SlotOf[t]]
        BY <1>a, <2>6, <3>1, <4>1 DEF BarrierSnapshot, TypeOK
      <4>3. t \in inOp /\ (SlotOf[t] < w_i[c] => status[SlotOf[t]] = prev[c][SlotOf[t]])
        BY <3>1 DEF OldNotPassed
      <4>4. CASE w_i[c] + 1 = worker_n
        <5>1. pc'[c] = "spin" /\ w_i'[c] = 0
          BY <1>a, <2>6, <4>4 DEF BarrierSnapshot, TypeOK
        <5>2. SlotOf[t] < w_i[c] \/ SlotOf[t] = w_i[c]
          BY <3>1, <4>1, <4>4 DEF Slots
        <5>3. 0 <= SlotOf[t]
          BY <4>1 DEF Slots
        <5> QED
          BY <3>1, <4>2, <4>3, <5>1, <5>2, <5>3
      <4>5. CASE w_i[c] + 1 # worker_n
        <5>1. pc'[c] = "snap" /\ w_i'[c] = w_i[c] + 1
          BY <1>a, <2>6, <4>5 DEF BarrierSnapshot, TypeOK
        <5>2. SlotOf[t] < w_i[c] + 1 => SlotOf[t] < w_i[c] \/ SlotOf[t] = w_i[c]
          BY <3>1, <4>1 DEF Slots
        <5> QED
          BY <3>1, <4>2, <4>3, <5>1, <5>2
      <4> QED
        BY <4>4, <4>5
    <3> QED
      BY <3>1, <3>2, <3>3 DEF OldNotPassed
  <2>7. ASSUME NEW c \in Callers, BarrierPass(c)
        PROVE  OldNotPassed'
    <3>1. /\ pc' = pc /\ prev' = prev /\ status' = status /\ inOp' = inOp
          /\ old' = old /\ w_i' = [w_i EXCEPT ![c] = @ + 1] /\ pc[c] = "spin"
          /\ status[w_i[c]] > prev[c][w_i[c]] \/ exited
      BY <2>7 DEF BarrierPass
    <3>2. ASSUME NEW t \in old[c]
          PROVE  w_i[c] + 1 <= SlotOf[t]
      <4>1. t \in Threads /\ t \in inOp /\ SlotOf[t] \in Slots
        BY <1>a DEF TypeOK, OldNotPassed
      <4>2. w_i[c] <= SlotOf[t] /\ status[SlotOf[t]] = prev[c][SlotOf[t]]
        BY <3>1 DEF OldNotPassed
      <4>3. ~exited
        BY <4>1 DEF Lifecycle
      <4>4. status[SlotOf[t]] \in Nat /\ w_i[c] \in Nat /\ SlotOf[t] \in Nat
        BY <1>a, <4>1 DEF TypeOK, Slots
      <4>5. w_i[c] # SlotOf[t]
        BY <3>1, <4>2, <4>3, <4>4
      <4> QED
        BY <4>2, <4>4, <4>5
    <3> QED
      BY <1>a, <3>1, <3>2 DEF OldNotPassed, TypeOK
  <2>8. ASSUME NEW c \in Callers, BarrierReturn(c)
        PROVE  OldNotPassed'
    BY <1>a, <2>8 DEF BarrierReturn, OldNotPassed, TypeOK
  <2>9. CASE UNCHANGED vars
    BY <2>9 DEF vars, OldNotPassed
  <2> QED
    BY <2>1, <2>2, <2>3, <2>4, <2>5, <2>6, <2>7, <2>8, <2>9 DEF Next
<1> QED
  BY <1>0, <1>b, <1>c

(* "wait for all workers": when rcu_barrier returns, every operation that  *)
(* was running at the call has ended, for any number of workers and of     *)
(* background threads, provided the process builds one index and no two    *)
(* threads share a worker id.                                              *)
THEOREM RcuGracePeriod == OneInstance /\ OwnSlot => (Spec => []GracePeriod)
<1> SUFFICES ASSUME OneInstance, OwnSlot
             PROVE  Spec => []GracePeriod
  OBVIOUS
<1>1. GraceInv /\ [Next]_vars => GraceInv'
  BY GraceStep
<1>2. GraceInv => GracePeriod
  <2> SUFFICES ASSUME GraceInv, NEW c \in Callers, pc[c] = "spin",
                      w_i[c] = worker_n, NEW t \in old[c]
               PROVE  FALSE
    BY DEF GracePeriod
  <2>1. t \in Threads /\ SlotOf[t] \in Slots
    BY SlotOfAssumption DEF GraceInv, CounterInv, TypeOK
  <2>2. worker_n <= SlotOf[t]
    BY DEF GraceInv, OldNotPassed
  <2> QED
    BY <2>1, <2>2, WorkerNAssumption DEF Slots
<1> QED
  BY <1>1, <1>2, GraceInit, PTL DEF Spec
=================================================================================
