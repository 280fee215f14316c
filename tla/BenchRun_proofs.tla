---------------------------- MODULE BenchRun_proofs ----------------------------
(***************************************************************************)
(* For every number of threads and operations and every chunk size: the    *)
(* team executes each operation exactly once and before end_time, and its  *)
(* races on the shared slot lose successes but never invent one.           *)
(***************************************************************************)
EXTENDS BenchRun, FiniteSetTheorems, TLAPS

(* A run has a master, and the slot of every thread is gathered. *)
LEMMA TeamFacts ==
  ASSUME run_i \in Runs
  PROVE  /\ thread_nums[run_i] \in Nat \ {0}
         /\ 0 \in Team
         /\ \A t \in Team : worker_id(t) \in Slots
BY ScheduleAssumption DEF Runs, Team, Slots, worker_id

(* A counter record starts at zero. *)
LEMMA ZeroType == Zero \in [Counters -> Nat]
BY DEF Zero

(* No run has begun in an initial state. *)
LEMMA TypeInit == Init => TypeOK
<1> SUFFICES ASSUME Init PROVE TypeOK
  OBVIOUS
<1>1. phase # "end" => run_i \in Runs
  BY ScheduleAssumption DEF Init, Runs
<1>2. ran \in [OpIds -> Nat]
  BY DEF Init
<1>3. next \in 0 .. operations_num
  BY OperationsAssumption DEF Init
<1> QED
  BY <1>1, <1>2, <1>3 DEF Init, TypeOK, Active

(* Every step of the loop keeps the types: a chunk ends at operations_num. *)
LEMMA TypeStep == TypeOK /\ [Next]_vars => TypeOK'
<1> SUFFICES ASSUME TypeOK, [Next]_vars PROVE TypeOK'
  OBVIOUS
<1>a. ASSUME phase # "end" PROVE /\ run_i \in Runs
                                 /\ 0 \in Team
                                 /\ \A t \in Team : worker_id(t) \in Slots
  BY <1>a, TeamFacts DEF TypeOK
<1>1. CASE Prepare
  <2>1. th' \in [Team -> Locals] /\ \A t \in Team : th'[t].pc = "enter"
    BY <1>1, OperationsAssumption DEF Prepare, Locals, Pcs, Counters
  <2>2. params' \in [Slots -> [Counters -> Nat]] /\ won' \in [Counters -> Nat]
    BY <1>1, ZeroType DEF Prepare, Slots
  <2>3. ran' \in [OpIds -> Nat] /\ next' \in 0 .. operations_num
    BY <1>1, OperationsAssumption DEF Prepare
  <2>4. Team' = Team /\ Slots' = Slots
    BY <1>1 DEF Prepare, Team, Slots
  <2> QED
    BY <1>1, <1>a, <2>1, <2>2, <2>3, <2>4 DEF Prepare, TypeOK
<1>2. ASSUME NEW m \in Pcs, NEW o \in Pcs, phase = "team", EachTo(m, o),
             m \notin {"op", "load", "store", "sample"},
             o \notin {"op", "load", "store", "sample"},
             UNCHANGED <<run_i, phase, next, params, ran, won>>
      PROVE  TypeOK'
  <2>1. Team' = Team /\ Slots' = Slots
    BY <1>2 DEF Team, Slots
  <2>2. th' \in [Team -> Locals]
    BY <1>2 DEF TypeOK, Active, EachTo, Locals
  <2>3. \A t \in Team : th'[t].pc \in {m, o}
    BY <1>2 DEF TypeOK, Active, EachTo, Locals
  <2> QED
    BY <1>2, <2>1, <2>2, <2>3 DEF TypeOK, Active
<1>3. CASE Barrier
  BY <1>2, <1>3 DEF Barrier, Pcs
<1>4. CASE EndLoop
  BY <1>2, <1>4 DEF EndLoop, Pcs
<1>5. ASSUME NEW t \in Team, NEW p \in Pcs, phase = "team",
             th' = [th EXCEPT ![t].pc = p],
             p \notin {"op", "load", "store", "sample"},
             UNCHANGED <<run_i, phase, next, params, ran, won>>
      PROVE  TypeOK'
  <2>1. Team' = Team /\ Slots' = Slots
    BY <1>5 DEF Team, Slots
  <2>2. th' \in [Team -> Locals]
    BY <1>5 DEF TypeOK, Active, Locals
  <2>3. \A u \in Team : th'[u].pc \in {"op", "load", "store", "sample"}
                         => u # t /\ th'[u] = th[u]
    BY <1>5 DEF TypeOK, Active, Locals
  <2> QED
    BY <1>5, <2>1, <2>2, <2>3 DEF TypeOK, Active
<1>6. CASE StartTime
  BY <1>5, <1>6, <1>a DEF StartTime, Pcs
<1>7. CASE EndTime
  BY <1>5, <1>7, <1>a DEF EndTime, Pcs
<1>8. CASE Join
  BY <1>8 DEF Join, TypeOK, Active, Team, Slots
<1>9. CASE Gather
  BY <1>9 DEF Gather, TypeOK, Active, Team, Slots
<1>10. CASE print_stat
  <2>1. run_i' = run_i + 1 /\ phase' = IF run_i + 1 \in Runs THEN "prepare" ELSE "end"
    BY <1>10 DEF print_stat, NextRun
  <2> QED
    BY <1>10, <2>1 DEF print_stat, TypeOK, Active
<1>13. CASE Crash
  BY <1>13 DEF Crash, TypeOK, Active
<1>11. ASSUME phase = "team", NEW t \in Team, ThreadStep(t) PROVE TypeOK'
  <2>0. /\ th \in [Team -> Locals] /\ th[t] \in Locals
        /\ params \in [Slots -> [Counters -> Nat]] /\ won \in [Counters -> Nat]
        /\ next \in 0 .. operations_num /\ operations_num \in Nat /\ ran \in [OpIds -> Nat]
        /\ worker_id(t) \in Slots
    BY <1>11, <1>a, OperationsAssumption DEF TypeOK, Active
  <2>a. ASSUME th[t].pc \in {"op", "load", "store", "sample"}
        PROVE  /\ th[t].i \in OpIds /\ th[t].i < th[t].last
               /\ Operations[th[t].i] \in Counters
    <3>1. th[t].i < th[t].last
      BY <1>11, <2>a DEF TypeOK, Active
    <3>2. th[t].i \in OpIds
      BY <2>0, <3>1 DEF Locals, OpIds
    <3>3. Operations[th[t].i] \in Counters
      BY <3>2, OperationsAssumption DEF Counters
    <3> QED
      BY <3>1, <3>2, <3>3
  <2>1. CASE Enter(t)
    BY <1>5, <2>1, <1>11 DEF Enter, Pcs
  <2>7. CASE Reserved(t)
    BY <1>5, <2>7, <1>11 DEF Reserved, Pcs
  <2>2. CASE Fetch(t)
    <3>1. CASE next < operations_num
      <4> DEFINE last == IF next + ChunkSize < operations_num
                           THEN next + ChunkSize ELSE operations_num
      <4>1. last \in 0 .. operations_num /\ next < last /\ next \in Nat
        BY <2>0, <3>1, ScheduleAssumption
      <4>2. th' = [th EXCEPT ![t].pc = "op", ![t].i = next, ![t].last = last] /\ next' = last
        BY <2>2, <3>1 DEF Fetch
      <4> HIDE DEF last
      <4>3. th' \in [Team -> Locals] /\ th'[t].i < th'[t].last
        BY <2>0, <4>1, <4>2 DEF Locals, Pcs
      <4>4. \A u \in Team \ {t} : th'[u] = th[u]
        BY <2>0, <4>2
      <4>5. Team' = Team /\ Slots' = Slots
        BY <2>2 DEF Fetch, Team, Slots
      <4> QED
        BY <2>2, <4>1, <4>2, <4>3, <4>4, <4>5 DEF Fetch, TypeOK, Active
    <3>2. CASE ~(next < operations_num)
      BY <1>5, <2>2, <3>2, <1>11 DEF Fetch, Pcs
    <3> QED
      BY <3>1, <3>2
  <2>3. CASE Execute(t)
    <3> DEFINE op == Operations[th[t].i]
    <3>1. th[t].pc = "op" /\ op \in Counters /\ th[t].i \in OpIds
      BY <2>3, <2>a DEF Execute
    <3>2. PICK ret \in {0, 1} :
            /\ ran' = [ran EXCEPT ![th[t].i] = @ + 1]
            /\ won' = [won EXCEPT ![op] = @ + ret]
            /\ th' = [th EXCEPT ![t].cnt = op, ![t].ret = ret,
                        ![t].pc = IF op = "SCAN" /\ ret = 0 THEN "sample" ELSE "load"]
      BY <2>3 DEF Execute
    <3> HIDE DEF op
    <3>3. ran' \in [OpIds -> Nat]
      BY <2>0, <3>1, <3>2
    <3>4. won' \in [Counters -> Nat]
      BY <2>0, <3>1, <3>2
    <3>5. th' \in [Team -> Locals] /\ th'[t].i = th[t].i /\ th'[t].last = th[t].last
      BY <2>0, <3>1, <3>2 DEF Locals, Pcs
    <3>6. \A u \in Team \ {t} : th'[u] = th[u]
      BY <2>0, <3>2
    <3>7. Team' = Team /\ Slots' = Slots
      BY <2>3 DEF Execute, Team, Slots
    <3> QED
      BY <2>3, <2>a, <3>1, <3>3, <3>4, <3>5, <3>6, <3>7 DEF Execute, TypeOK, Active
  <2>4. CASE LoadCounter(t)
    <3>1. params[worker_id(t)][th[t].cnt] \in Nat
      BY <2>0 DEF Locals
    <3>2. th' \in [Team -> Locals] /\ th'[t].i = th[t].i /\ th'[t].last = th[t].last
      BY <2>0, <2>4, <3>1 DEF LoadCounter, Locals, Pcs
    <3>3. \A u \in Team \ {t} : th'[u] = th[u]
      BY <2>0, <2>4 DEF LoadCounter
    <3>4. Team' = Team /\ Slots' = Slots
      BY <2>4 DEF LoadCounter, Team, Slots
    <3> QED
      BY <2>4, <2>a, <3>2, <3>3, <3>4 DEF LoadCounter, TypeOK, Active
  <2>b. ASSUME th[t].pc \in {"op", "load", "store", "sample"}
        PROVE  /\ Iterated(t) \in Locals
               /\ Iterated(t).pc \in {"op", "load", "store", "sample"} =>
                    Iterated(t).i < Iterated(t).last
    <3> DEFINE p == IF th[t].i + 1 < th[t].last THEN "op" ELSE "fetch"
    <3>1. p \in Pcs /\ th[t].i + 1 \in Nat
      BY <2>0 DEF Locals, Pcs
    <3>2. Iterated(t) = [th[t] EXCEPT !.i = @ + 1, !.ret = 0, !.reg = 0, !.pc = p]
      BY DEF Iterated
    <3>3. p = "op" => th[t].i + 1 < th[t].last
      OBVIOUS
    <3>4. p \in {"op", "fetch"}
      OBVIOUS
    <3> HIDE DEF p
    <3>5. Iterated(t) \in Locals
      <4>1. th[t] \in Locals /\ th[t].last \in 0 .. operations_num /\ th[t].cnt \in Counters
        BY <2>0 DEF Locals
      <4>2. Iterated(t) = [pc |-> p, i |-> th[t].i + 1, last |-> th[t].last,
                           cnt |-> th[t].cnt, ret |-> 0, reg |-> 0]
        BY <3>2, <4>1 DEF Locals
      <4> QED
        BY <3>1, <4>1, <4>2 DEF Locals
    <3>6. /\ Iterated(t).pc = p /\ Iterated(t).i = th[t].i + 1
          /\ Iterated(t).last = th[t].last
      BY <2>0, <3>2 DEF Locals
    <3>7. Iterated(t).pc = "op" => Iterated(t).i < Iterated(t).last
      BY <3>3, <3>6
    <3>8. Iterated(t).pc \in {"op", "fetch"}
      BY <3>4, <3>6
    <3> QED
      BY <3>5, <3>7, <3>8
  <2>5. CASE StoreCounter(t)
    <3>1. th[t].reg + th[t].ret \in Nat /\ th[t].cnt \in Counters
      BY <2>0 DEF Locals
    <3>2. params' \in [Slots -> [Counters -> Nat]]
      BY <2>0, <2>5, <3>1 DEF StoreCounter
    <3>a. th[t].pc = "store" /\ th[t].i < th[t].last
      BY <2>5, <2>a DEF StoreCounter
    <3> DEFINE new == IF th[t].cnt = Latency THEN Iterated(t)
                      ELSE [th[t] EXCEPT !.reg = 0, !.pc = "sample"]
    <3>b. /\ new \in Locals
          /\ new.pc \in {"op", "load", "store", "sample"} => new.i < new.last
      <4>1. CASE th[t].cnt = Latency
        BY <2>b, <3>a, <4>1
      <4>2. CASE th[t].cnt # Latency
        BY <2>0, <3>a, <4>2 DEF Locals, Pcs
      <4> QED
        BY <4>1, <4>2
    <3>c. th' = [th EXCEPT ![t] = new]
      BY <2>5 DEF StoreCounter
    <3> HIDE DEF new
    <3>3. /\ th' \in [Team -> Locals]
          /\ th'[t].pc \in {"op", "load", "store", "sample"} => th'[t].i < th'[t].last
      BY <2>0, <3>b, <3>c
    <3>4. \A u \in Team \ {t} : th'[u] = th[u]
      BY <2>0, <3>c
    <3>5. Team' = Team /\ Slots' = Slots
      BY <2>5 DEF StoreCounter, Team, Slots
    <3> QED
      BY <2>5, <3>2, <3>3, <3>4, <3>5 DEF StoreCounter, TypeOK, Active
  <2>6. CASE Sample(t)
    <3>0. th[t].pc = "sample" /\ th[t].i < th[t].last /\ Latency \in Counters
      BY <2>6, <2>a DEF Sample, Counters
    <3>1. won' \in [Counters -> Nat]
      BY <2>0, <2>6, <3>0 DEF Sample
    <3>2. PICK new \in Locals :
            /\ th' = [th EXCEPT ![t] = new]
            /\ new.pc \in {"op", "load", "store", "sample"} => new.i < new.last
      <4>1. CASE Sampled(th[t].i)
        <5> DEFINE new == [th[t] EXCEPT !.cnt = Latency, !.ret = 1, !.pc = "load"]
        <5>1. new \in Locals /\ new.i = th[t].i /\ new.last = th[t].last
          BY <2>0, <3>0 DEF Locals, Pcs
        <5>2. th' = [th EXCEPT ![t] = new]
          BY <2>6, <4>1 DEF Sample
        <5> HIDE DEF new
        <5> QED
          BY <3>0, <5>1, <5>2
      <4>2. CASE ~Sampled(th[t].i)
        BY <2>6, <2>b, <3>0, <4>2 DEF Sample
      <4> QED
        BY <4>1, <4>2
    <3>3. /\ th' \in [Team -> Locals]
          /\ th'[t].pc \in {"op", "load", "store", "sample"} => th'[t].i < th'[t].last
      BY <2>0, <3>2
    <3>4. \A u \in Team \ {t} : th'[u] = th[u]
      BY <2>0, <3>2
    <3>5. Team' = Team /\ Slots' = Slots
      BY <2>6 DEF Sample, Team, Slots
    <3> QED
      BY <2>6, <3>1, <3>3, <3>4, <3>5 DEF Sample, TypeOK, Active
  <2> QED
    BY <1>11, <2>1, <2>2, <2>3, <2>4, <2>5, <2>6, <2>7 DEF ThreadStep
<1>12. CASE UNCHANGED vars
  BY <1>12 DEF vars, TypeOK, Active, Team, Slots
<1> QED
  BY <1>1, <1>3, <1>4, <1>6, <1>7, <1>8, <1>9, <1>10, <1>11, <1>12, <1>13 DEF Next

(* run's loop is well typed: a thread that is in an iteration is in one of *)
(* the generated operations.                                               *)
THEOREM BenchTypeOK == Spec => []TypeOK
BY TypeInit, TypeStep, PTL DEF Spec
--------------------------------------------------------------------------------
(* Thread t has taken operation i from the schedule and not yet called the *)
(* index with it.                                                          *)
Owes(t, i) ==
  /\ i < th[t].last
  /\ \/ th[t].pc = "op" /\ th[t].i <= i
     \/ th[t].pc \in {"load", "store", "sample"} /\ th[t].i < i

(* An operation not yet executed is with the schedule or owed by one       *)
(* thread.                                                                 *)
Schedule ==
  /\ \A i \in OpIds : ran[i] = 0 <=> next <= i \/ \E t \in Team : Owes(t, i)
  /\ \A t \in Team, i \in OpIds : Owes(t, i) => i < next
  /\ \A t, u \in Team, i \in OpIds : Owes(t, i) /\ Owes(u, i) => t = u

(* Threads leave the loop when the schedule is empty, and pass its end     *)
(* together.                                                               *)
Closing ==
  /\ \A t \in Team : th[t].pc \in {"loopend", "stop", "joined"} => next = operations_num
  /\ \A t, u \in Team : th[t].pc \in {"stop", "joined"} => th[u].pc \in {"stop", "joined"}
  /\ "end_time" \in timed => th[0].pc = "joined"
  /\ phase # "team" => AllAt("joined")

AtMostOnce == \A i \in OpIds : ran[i] <= 1
LoopInv == TypeOK /\ AtMostOnce /\ (Active => Schedule /\ Closing)

(* Nothing has been executed before the first run. *)
LEMMA LoopInit == Init => LoopInv
<1> SUFFICES ASSUME Init PROVE LoopInv
  OBVIOUS
<1>1. TypeOK
  BY TypeInit
<1>2. AtMostOnce
  BY DEF Init, AtMostOnce
<1>3. ~Active
  BY DEF Init, Active
<1> QED
  BY <1>1, <1>2, <1>3 DEF LoopInv

(* A step that changes no counter and no debt keeps the schedule.          *)
LEMMA ScheduleKept ==
  ASSUME Schedule, UNCHANGED <<run_i, next, ran>>,
         \A t \in Team, i \in OpIds : Owes(t, i)' <=> Owes(t, i)
  PROVE  Schedule'
<1>1. Team' = Team
  BY DEF Team
<1>2. ASSUME NEW i \in OpIds PROVE (ran[i] = 0 <=> next <= i \/ \E t \in Team : Owes(t, i))'
  BY <1>1, <1>2 DEF Schedule
<1>3. ASSUME NEW t \in Team, NEW i \in OpIds, Owes(t, i)' PROVE i < next'
  BY <1>3 DEF Schedule
<1>4. ASSUME NEW t \in Team, NEW u \in Team, NEW i \in OpIds, Owes(t, i)', Owes(u, i)'
      PROVE  t = u
  BY <1>4 DEF Schedule
<1> QED
  BY <1>1, <1>2, <1>3, <1>4 DEF Schedule

(* When every thread has left the loop, every operation has been executed. *)
LEMMA AllRan ==
  ASSUME LoopInv, Active, \A t \in Team : th[t].pc \in {"loopend", "stop", "joined"}
  PROVE  \A i \in OpIds : ran[i] = 1
<1>1. run_i \in Runs
  BY DEF LoopInv, TypeOK, Active
<1>2. next = operations_num
  BY <1>1, TeamFacts DEF LoopInv, Closing
<1>3. \A t \in Team, i \in OpIds : ~Owes(t, i)
  BY DEF Owes
<1>4. ASSUME NEW i \in OpIds PROVE ran[i] = 1
  <2>1. ran[i] # 0
    BY <1>2, <1>3, OperationsAssumption DEF LoopInv, Schedule, OpIds
  <2>2. ran[i] \in Nat /\ ran[i] <= 1
    BY DEF LoopInv, AtMostOnce, TypeOK
  <2> QED
    BY <2>1, <2>2
<1> QED
  BY <1>4

(* Each step keeps the invariant of the loop.  Only Fetch and Execute      *)
(* change what is owed: Fetch moves a chunk from the schedule to a thread, *)
(* Execute pays one operation.                                             *)
LEMMA LoopStep == LoopInv /\ [Next]_vars => LoopInv'
<1> SUFFICES ASSUME LoopInv, [Next]_vars PROVE LoopInv'
  OBVIOUS
<1>t. TypeOK /\ TypeOK'
  BY TypeStep DEF LoopInv
<1>a. ASSUME phase # "end" PROVE run_i \in Runs /\ 0 \in Team
  BY <1>a, <1>t, TeamFacts DEF TypeOK
<1>b. ASSUME Active
      PROVE  th \in [Team -> Locals] /\ Schedule /\ Closing
  BY <1>b DEF LoopInv, TypeOK
<1>c. ASSUME UNCHANGED ran PROVE AtMostOnce'
  BY <1>c DEF LoopInv, AtMostOnce
<1>1. CASE Prepare
  <2>1. Team' = Team /\ Active'
    BY <1>1 DEF Prepare, Team, Active
  <2>2. \A t \in Team : th'[t].pc = "enter"
    BY <1>1 DEF Prepare
  <2>3. \A t \in Team, i \in OpIds : ~Owes(t, i)'
    BY <2>2 DEF Owes
  <2>4. \A i \in OpIds : ran'[i] = 0 /\ next' <= i
    BY <1>1 DEF Prepare, OpIds
  <2>5. AtMostOnce'
    BY <2>4 DEF AtMostOnce
  <2>6. Schedule'
    BY <2>1, <2>3, <2>4 DEF Schedule
  <2>7. Closing'
    BY <1>1, <2>1, <2>2 DEF Prepare, Closing
  <2> QED
    BY <1>t, <2>5, <2>6, <2>7 DEF LoopInv
<1>2. ASSUME NEW m \in Pcs, NEW o \in Pcs, phase = "team", EachTo(m, o), AllAt("ready"),
             m \notin {"op", "load", "store", "sample", "loopend", "stop", "joined"},
             o \notin {"op", "load", "store", "sample", "loopend", "stop", "joined"},
             UNCHANGED <<run_i, phase, next, ran, timed>>
      PROVE  LoopInv'
  <2>1. Team' = Team /\ Active /\ 0 \in Team
    BY <1>2, <1>a DEF Team, Active
  <2>2. \A t \in Team : th'[t].pc \in {m, o} /\ th[t].pc = "ready"
    BY <1>2, <1>b, <2>1 DEF EachTo, Locals, AllAt
  <2>3. \A t \in Team, i \in OpIds : Owes(t, i)' <=> Owes(t, i)
    BY <1>2, <2>2 DEF Owes
  <2>4. Schedule'
    BY <1>2, <1>b, <2>1, <2>3, ScheduleKept
  <2>5. Closing'
    BY <1>2, <1>b, <2>1, <2>2 DEF Closing
  <2> QED
    BY <1>2, <1>c, <1>t, <2>4, <2>5 DEF LoopInv
<1>3. CASE Barrier
  BY <1>2, <1>3 DEF Barrier, Pcs
<1>4. CASE EndLoop
  <2>1. Team' = Team /\ Active /\ 0 \in Team
    BY <1>4, <1>a DEF EndLoop, Team, Active
  <2>2. \A t \in Team : th'[t].pc \in {"stop", "joined"} /\ th[t].pc = "loopend"
    BY <1>4, <1>b, <2>1 DEF EndLoop, EachTo, Locals, AllAt
  <2>3. \A t \in Team, i \in OpIds : Owes(t, i)' <=> Owes(t, i)
    BY <2>2 DEF Owes
  <2>4. Schedule'
    BY <1>4, <1>b, <2>1, <2>3, ScheduleKept DEF EndLoop
  <2>5. "end_time" \notin timed
    BY <1>b, <2>1, <2>2 DEF Closing
  <2>6. Closing'
    BY <1>4, <1>b, <2>1, <2>2, <2>5 DEF EndLoop, Closing
  <2> QED
    BY <1>4, <1>c, <1>t, <2>4, <2>6 DEF EndLoop, LoopInv
<1>5. CASE StartTime
  <2>1. Team' = Team /\ Active /\ 0 \in Team
    BY <1>5, <1>a DEF StartTime, Team, Active
  <2>2. /\ \A t \in Team \ {0} : th'[t] = th[t]
        /\ th'[0].pc = "fetch" /\ th[0].pc = "start"
    BY <1>5, <1>b, <2>1 DEF StartTime, Locals
  <2>3. \A t \in Team, i \in OpIds : Owes(t, i)' <=> Owes(t, i)
    BY <2>2 DEF Owes
  <2>4. Schedule'
    BY <1>5, <1>b, <2>1, <2>3, ScheduleKept DEF StartTime
  <2>5. "end_time" \notin timed'
    BY <1>5, <1>b, <2>1, <2>2 DEF StartTime, Closing
  <2>6. \A u \in Team : th[u].pc \notin {"stop", "joined"}
    BY <1>b, <2>1, <2>2 DEF Closing
  <2>7. Closing'
    BY <1>5, <1>b, <2>1, <2>2, <2>5, <2>6 DEF StartTime, Closing
  <2> QED
    BY <1>5, <1>c, <1>t, <2>4, <2>7 DEF StartTime, LoopInv
<1>6. CASE EndTime
  <2>1. Team' = Team /\ Active /\ 0 \in Team
    BY <1>6, <1>a DEF EndTime, Team, Active
  <2>2. /\ \A t \in Team \ {0} : th'[t] = th[t]
        /\ th'[0].pc = "joined" /\ th[0].pc = "stop"
    BY <1>6, <1>b, <2>1 DEF EndTime, Locals
  <2>3. \A t \in Team, i \in OpIds : Owes(t, i)' <=> Owes(t, i)
    BY <2>2 DEF Owes
  <2>4. Schedule'
    BY <1>6, <1>b, <2>1, <2>3, ScheduleKept DEF EndTime
  <2>5. \A u \in Team : th[u].pc \in {"stop", "joined"} /\ th'[u].pc \in {"stop", "joined"}
    BY <1>b, <2>1, <2>2 DEF Closing
  <2>6. Closing'
    BY <1>6, <1>b, <2>1, <2>2, <2>5 DEF EndTime, Closing
  <2> QED
    BY <1>6, <1>c, <1>t, <2>4, <2>6 DEF EndTime, LoopInv
<1>7. CASE Join
  <2>1. Team' = Team /\ Active
    BY <1>7 DEF Join, Team, Active
  <2>2. Schedule'
    BY <1>7, <1>b, <2>1, ScheduleKept DEF Join, Owes
  <2>3. Closing'
    BY <1>7, <1>b, <2>1 DEF Join, Closing, AllAt
  <2> QED
    BY <1>7, <1>c, <1>t, <2>2, <2>3 DEF Join, LoopInv
<1>8. CASE Gather
  <2>1. Team' = Team /\ Active
    BY <1>8 DEF Gather, Team, Active
  <2>2. Schedule'
    BY <1>8, <1>b, <2>1, ScheduleKept DEF Gather, Owes
  <2>3. Closing'
    BY <1>8, <1>b, <2>1 DEF Gather, Closing, AllAt
  <2> QED
    BY <1>8, <1>c, <1>t, <2>2, <2>3 DEF Gather, LoopInv
<1>9. CASE print_stat
  <2>1. ~Active'
    BY <1>9 DEF print_stat, NextRun, Active
  <2> QED
    BY <1>9, <1>c, <1>t, <2>1 DEF print_stat, LoopInv
<1>12. CASE Crash
  BY <1>12, <1>c, <1>t DEF Crash, Active, LoopInv
<1>11. CASE UNCHANGED vars
  <2>1. Team' = Team /\ (Active' <=> Active)
    BY <1>11 DEF vars, Team, Active
  <2>2. Active => Schedule'
    BY <1>11, <1>b, ScheduleKept DEF vars, Owes
  <2>3. Active => Closing'
    BY <1>11, <1>b, <2>1 DEF vars, Closing, AllAt
  <2> QED
    BY <1>11, <1>c, <1>t, <2>1, <2>2, <2>3 DEF vars, LoopInv
<1>10. ASSUME phase = "team", NEW t \in Team, ThreadStep(t) PROVE LoopInv'
  <2>0. /\ Team' = Team /\ Active /\ 0 \in Team
        /\ phase' = phase /\ timed' = timed /\ run_i' = run_i
    BY <1>10, <1>a DEF ThreadStep, Enter, Reserved, Fetch, Execute, LoadCounter, StoreCounter,
                       Sample, Team, Active
  <2>1. /\ th \in [Team -> Locals] /\ th[t] \in Locals /\ Schedule /\ Closing
        /\ operations_num \in Nat /\ next \in Nat /\ next <= operations_num
        /\ ran \in [OpIds -> Nat] /\ next' \in Nat /\ next' <= operations_num
    BY <1>b, <1>t, <2>0, OperationsAssumption DEF TypeOK
  <2>2. /\ th[t].pc \in {"enter", "reserve", "fetch", "op", "load", "store", "sample"}
        /\ \A u \in Team \ {t} : th'[u] = th[u]
    BY <1>10, <2>1 DEF ThreadStep, Enter, Reserved, Fetch, Execute, LoadCounter, StoreCounter,
                       Sample
  <2>3. \A u \in Team : th[u].pc \notin {"stop", "joined"}
    BY <2>1, <2>2 DEF Closing
  <2>4. "end_time" \notin timed
    BY <2>0, <2>1, <2>3 DEF Closing
  <2>5. ASSUME th'[t].pc \notin {"stop", "joined"}, next <= next',
               th'[t].pc = "loopend" => next = operations_num
        PROVE  Closing'
    BY <1>10, <2>0, <2>1, <2>2, <2>3, <2>4, <2>5 DEF Closing
  <2>6. ASSUME UNCHANGED <<next, ran>>, \A i \in OpIds : Owes(t, i)' <=> Owes(t, i)
        PROVE  Schedule'
    <3>1. \A u \in Team, i \in OpIds : Owes(u, i)' <=> Owes(u, i)
      BY <2>2, <2>6 DEF Owes
    <3> QED
      BY <2>0, <2>1, <2>6, <3>1, ScheduleKept
  <2>7. CASE Enter(t) \/ Reserved(t)
    <3>1. th'[t].pc \in {"reserve", "ready"} /\ th[t].pc \in {"enter", "reserve"}
      BY <2>1, <2>7 DEF Enter, Reserved, Locals
    <3>2. \A i \in OpIds : Owes(t, i)' <=> Owes(t, i)
      BY <3>1 DEF Owes
    <3> QED
      BY <1>c, <1>t, <2>1, <2>5, <2>6, <2>7, <3>1, <3>2 DEF Enter, Reserved, LoopInv
  <2>8. CASE LoadCounter(t)
    <3>1. /\ th'[t].pc = "store" /\ th[t].pc = "load"
          /\ th'[t].i = th[t].i /\ th'[t].last = th[t].last
      BY <2>1, <2>8 DEF LoadCounter, Locals
    <3>2. \A i \in OpIds : Owes(t, i)' <=> Owes(t, i)
      BY <3>1 DEF Owes
    <3> QED
      BY <1>c, <1>t, <2>1, <2>5, <2>6, <2>8, <3>1, <3>2 DEF LoadCounter, LoopInv
  <2>a. ASSUME th[t].pc \in {"load", "store", "sample"}, th'[t] = Iterated(t)
        PROVE  /\ \A i \in OpIds : Owes(t, i)' <=> Owes(t, i)
               /\ th'[t].pc \in {"op", "fetch"}
    <3>1. /\ th'[t].pc = IF th[t].i + 1 < th[t].last THEN "op" ELSE "fetch"
          /\ th'[t].i = th[t].i + 1 /\ th'[t].last = th[t].last
      BY <2>1, <2>a DEF Iterated, Locals
    <3>2. th[t].i \in Nat /\ th[t].last \in Nat
      BY <2>1 DEF Locals
    <3> QED
      BY <2>a, <3>1, <3>2 DEF Owes, OpIds
  <2>9. CASE StoreCounter(t)
    <3>1. CASE th[t].cnt # Latency
      <4>1. /\ th'[t].pc = "sample" /\ th[t].pc = "store"
            /\ th'[t].i = th[t].i /\ th'[t].last = th[t].last
        BY <2>1, <2>9, <3>1 DEF StoreCounter, Locals
      <4>2. \A i \in OpIds : Owes(t, i)' <=> Owes(t, i)
        BY <4>1 DEF Owes
      <4> QED
        BY <1>c, <1>t, <2>1, <2>5, <2>6, <2>9, <4>1, <4>2 DEF StoreCounter, LoopInv
    <3>2. CASE th[t].cnt = Latency
      <4>1. th'[t] = Iterated(t) /\ th[t].pc = "store"
        BY <2>1, <2>9, <3>2 DEF StoreCounter
      <4> QED
        BY <1>c, <1>t, <2>1, <2>5, <2>6, <2>9, <2>a, <4>1 DEF StoreCounter, LoopInv
    <3> QED
      BY <3>1, <3>2
  <2>10. CASE Sample(t)
    <3>1. CASE Sampled(th[t].i)
      <4>1. /\ th'[t].pc = "load" /\ th[t].pc = "sample"
            /\ th'[t].i = th[t].i /\ th'[t].last = th[t].last
        BY <2>1, <2>10, <3>1 DEF Sample, Locals
      <4>2. \A i \in OpIds : Owes(t, i)' <=> Owes(t, i)
        BY <4>1 DEF Owes
      <4> QED
        BY <1>c, <1>t, <2>1, <2>5, <2>6, <2>10, <4>1, <4>2 DEF Sample, LoopInv
    <3>2. CASE ~Sampled(th[t].i)
      <4>1. th'[t] = Iterated(t) /\ th[t].pc = "sample"
        BY <2>1, <2>10, <3>2 DEF Sample
      <4> QED
        BY <1>c, <1>t, <2>1, <2>5, <2>6, <2>10, <2>a, <4>1 DEF Sample, LoopInv
    <3> QED
      BY <3>1, <3>2
  <2>11. CASE Fetch(t)
    <3>1. CASE ~(next < operations_num)
      <4>1. th'[t].pc = "loopend" /\ th[t].pc = "fetch" /\ next' = next
        BY <2>1, <2>11, <3>1 DEF Fetch, Locals
      <4>2. \A i \in OpIds : Owes(t, i)' <=> Owes(t, i)
        BY <4>1 DEF Owes
      <4> QED
        BY <1>c, <1>t, <2>1, <2>5, <2>6, <2>11, <3>1, <4>1, <4>2 DEF Fetch, LoopInv
    <3>2. CASE next < operations_num
      <4>1. /\ th'[t].pc = "op" /\ th'[t].i = next /\ th'[t].last = next'
            /\ th[t].pc = "fetch" /\ ran' = ran
        BY <2>1, <2>11, <3>2 DEF Fetch, Locals
      <4>2. next <= next'
        BY <2>1, <2>11, <3>2, ScheduleAssumption DEF Fetch
      <4>3. \A i \in OpIds : /\ ~Owes(t, i)
                             /\ Owes(t, i)' <=> next <= i /\ i < next'
        BY <4>1 DEF Owes
      <4>4. \A u \in Team \ {t}, i \in OpIds : Owes(u, i)' <=> Owes(u, i)
        BY <2>2 DEF Owes
      <4>5. ASSUME NEW i \in OpIds
            PROVE  (ran[i] = 0 <=> next <= i \/ \E u \in Team : Owes(u, i))'
        <5>1. ran[i] = 0 <=> next <= i \/ \E u \in Team : Owes(u, i)
          BY <2>1 DEF Schedule
        <5>2. i \in Nat
          BY DEF OpIds
        <5>3. (\E u \in Team : Owes(u, i)') <=>
                (next <= i /\ i < next') \/ \E u \in Team : Owes(u, i)
          BY <4>3, <4>4
        <5>4. next <= i <=> (next <= i /\ i < next') \/ next' <= i
          BY <2>1, <4>2, <5>2
        <5> QED
          BY <2>0, <4>1, <5>1, <5>3, <5>4
      <4>6. ASSUME NEW u \in Team, NEW i \in OpIds, Owes(u, i)' PROVE i < next'
        <5>1. i \in Nat
          BY DEF OpIds
        <5>2. CASE u = t
          BY <4>3, <4>6, <5>2
        <5>3. CASE u # t
          <6>1. i < next
            BY <2>1, <4>4, <4>6, <5>3 DEF Schedule
          <6> QED
            BY <2>1, <4>2, <5>1, <6>1
        <5> QED
          BY <5>2, <5>3
      <4>7. ASSUME NEW u \in Team, NEW v \in Team, NEW i \in OpIds, Owes(u, i)', Owes(v, i)'
            PROVE  u = v
        <5>1. i \in Nat
          BY DEF OpIds
        <5>2. \A w \in Team \ {t} : Owes(w, i)' => i < next
          BY <2>1, <4>4 DEF Schedule
        <5>3. Owes(t, i)' => ~(i < next)
          BY <2>1, <4>3, <5>1
        <5>4. u # t /\ v # t => u = v
          BY <2>1, <4>4, <4>7 DEF Schedule
        <5> QED
          BY <4>7, <5>2, <5>3, <5>4
      <4>8. Schedule'
        BY <2>0, <4>5, <4>6, <4>7 DEF Schedule
      <4> QED
        BY <1>c, <1>t, <2>5, <4>1, <4>2, <4>8 DEF LoopInv
    <3> QED
      BY <3>1, <3>2
  <2>12. CASE Execute(t)
    <3>0. th[t].i \in OpIds /\ th[t].pc = "op" /\ th[t].i < th[t].last
      <4>1. th[t].pc = "op"
        BY <2>12 DEF Execute
      <4>2. th[t].i < th[t].last
        BY <1>t, <2>0, <4>1 DEF TypeOK
      <4>3. th[t].i \in Nat /\ th[t].last \in 0 .. operations_num
        BY <2>1 DEF Locals
      <4> QED
        BY <2>1, <4>1, <4>2, <4>3 DEF OpIds
    <3>1. PICK j \in OpIds : j = th[t].i
      BY <3>0
    <3>2. /\ th'[t].pc \in {"load", "sample"}
          /\ th'[t].i = j /\ th'[t].last = th[t].last
      BY <2>1, <2>12, <3>1 DEF Execute, Locals
    <3>3. next' = next /\ ran' = [ran EXCEPT ![j] = @ + 1]
      BY <2>12, <3>1 DEF Execute
    <3>4. Owes(t, j) /\ j \in Nat
      BY <3>0, <3>1 DEF Owes, OpIds
    <3>5. ran[j] = 0 /\ j < next
      BY <2>1, <3>4 DEF Schedule
    <3>6. ran'[j] = 1 /\ \A i \in OpIds \ {j} : ran'[i] = ran[i]
      BY <2>1, <3>3, <3>5
    <3>7. \A i \in OpIds : Owes(t, i)' <=> Owes(t, i) /\ i # j
      BY <3>0, <3>1, <3>2 DEF Owes, OpIds
    <3>8. \A u \in Team \ {t}, i \in OpIds : Owes(u, i)' <=> Owes(u, i)
      BY <2>2 DEF Owes
    <3>9. \A u \in Team : ~Owes(u, j)'
      <4>1. ASSUME NEW u \in Team \ {t} PROVE ~Owes(u, j)
        BY <2>1, <3>4 DEF Schedule
      <4> QED
        BY <3>7, <3>8, <4>1
    <3>10. ASSUME NEW i \in OpIds
           PROVE  (ran[i] = 0 <=> next <= i \/ \E u \in Team : Owes(u, i))'
      <4>1. CASE i = j
        BY <2>0, <2>1, <3>3, <3>4, <3>5, <3>6, <3>9, <4>1
      <4>2. CASE i # j
        <5>1. \A u \in Team : Owes(u, i)' <=> Owes(u, i)
          BY <3>7, <3>8, <4>2
        <5>2. ran[i] = 0 <=> next <= i \/ \E u \in Team : Owes(u, i)
          BY <2>1 DEF Schedule
        <5> QED
          BY <2>0, <3>3, <3>6, <4>2, <5>1, <5>2
      <4> QED
        BY <4>1, <4>2
    <3>11. ASSUME NEW u \in Team, NEW i \in OpIds, Owes(u, i)' PROVE Owes(u, i)
      BY <3>7, <3>8, <3>11
    <3>12. Schedule'
      BY <2>0, <2>1, <3>3, <3>10, <3>11 DEF Schedule
    <3>13. AtMostOnce'
      BY <3>6 DEF LoopInv, AtMostOnce
    <3>14. Closing'
      BY <2>1, <2>5, <3>2, <3>3
    <3> QED
      BY <1>t, <3>12, <3>13, <3>14 DEF LoopInv
  <2> QED
    BY <1>10, <2>7, <2>8, <2>9, <2>10, <2>11, <2>12 DEF ThreadStep
<1> QED
  BY <1>1, <1>3, <1>4, <1>5, <1>6, <1>7, <1>8, <1>9, <1>10, <1>11, <1>12 DEF Next

(* No operation is executed twice, and none is left out: the dynamic       *)
(* schedule of run's loop, whatever the interleaving of the team.          *)
THEOREM BenchExactlyOnce == Spec => []ExactlyOnce
<1>1. LoopInv => ExactlyOnce
  <2> SUFFICES ASSUME LoopInv PROVE ExactlyOnce
    OBVIOUS
  <2>1. ASSUME phase \in {"gather", "print"} PROVE \A i \in OpIds : ran[i] = 1
    <3>1. Active
      BY <2>1 DEF Active
    <3>2. \A t \in Team : th[t].pc = "joined"
      BY <2>1, <3>1 DEF LoopInv, Closing, AllAt
    <3> QED
      BY <3>1, <3>2, AllRan
  <2> QED
    BY <2>1 DEF ExactlyOnce, LoopInv, AtMostOnce
<1> QED
  BY <1>1, LoopInit, LoopStep, PTL DEF Spec

(* end_time is read by the master after every operation of the run.        *)
THEOREM BenchEndAfterAll == Spec => []EndAfterAll
<1>1. LoopInv => EndAfterAll
  <2> SUFFICES ASSUME LoopInv, "end_time" \in timed, Active
               PROVE  /\ \A i \in OpIds : ran[i] = 1
                      /\ \A t \in Team : th[t].pc \in {"loopend", "stop", "joined"}
    BY DEF EndAfterAll
  <2>1. 0 \in Team
    BY TeamFacts DEF LoopInv, TypeOK, Active
  <2>2. \A t \in Team : th[t].pc \in {"stop", "joined"}
    BY <2>1 DEF LoopInv, Closing
  <2>3. \A t \in Team : th[t].pc \in {"loopend", "stop", "joined"}
    BY <2>2
  <2> QED
    BY <2>3, AllRan
<1> QED
  BY <1>1, LoopInit, LoopStep, PTL DEF Spec
--------------------------------------------------------------------------------
(* The threads with a success of kind k in hand: counted in won, not yet   *)
(* stored in the slot.                                                     *)
Pending(k) ==
  {t \in Team : th[t].pc \in {"load", "store"} /\ th[t].cnt = k /\ th[t].ret = 1}

(* The slot, and every copy of it a thread is about to store, leaves room  *)
(* for the successes that are still in hand.                               *)
Room(k) ==
  /\ params[0][k] + Cardinality(Pending(k)) <= won[k]
  /\ \A t \in Team : th[t].pc = "store" /\ th[t].cnt = k =>
       th[t].reg + Cardinality(Pending(k)) <= won[k]

(* A thread alone finds the slot as it left it. *)
Alone(k) ==
  Team = {0} =>
    /\ params[0][k] + Cardinality(Pending(k)) = won[k]
    /\ th[0].pc = "store" /\ th[0].cnt = k => th[0].reg = params[0][k]

CountInv == LoopInv /\ (Active => \A k \in Counters : Room(k) /\ Alone(k))

(* Sets of threads are finite: a thread more or less is one more or less.  *)
LEMMA TeamSets ==
  ASSUME run_i \in Runs, NEW S \in SUBSET Team
  PROVE  /\ Cardinality(S) \in Nat
         /\ \A t \in Team \ S : Cardinality(S \cup {t}) = Cardinality(S) + 1
         /\ \A t \in S : Cardinality(S \ {t}) = Cardinality(S) - 1
<1>1. IsFiniteSet(Team)
  BY TeamFacts, FS_Interval DEF Team
<1>2. IsFiniteSet(S)
  BY <1>1, FS_Subset
<1> QED
  BY <1>2, FS_CardinalityType, FS_AddElement, FS_RemoveElement

(* What a thread that holds no success and no copy of the slot does        *)
(* without counting leaves the counts as they are.                         *)
LEMMA CountKept ==
  ASSUME NEW k, Room(k), Alone(k), UNCHANGED <<run_i, params>>, won'[k] = won[k],
         \A t \in Team : \/ th'[t] = th[t]
                         \/ /\ th[t].pc \notin {"load", "store"} \/ th[t].cnt # k
                            /\ \/ th'[t].pc \notin {"load", "store"}
                               \/ th'[t].cnt # k
                               \/ th'[t].pc = "load" /\ th'[t].ret = 0
  PROVE  Room(k)' /\ Alone(k)'
<1>1. Team' = Team
  BY DEF Team
<1>2. Pending(k)' = Pending(k)
  BY <1>1 DEF Pending
<1>3. \A t \in Team : th'[t].pc = "store" /\ th'[t].cnt = k => th'[t] = th[t]
  OBVIOUS
<1>4. Room(k)'
  BY <1>1, <1>2, <1>3 DEF Room
<1>5. Alone(k)'
  BY <1>1, <1>2, <1>3 DEF Alone
<1> QED
  BY <1>4, <1>5

(* A success taken in hand is counted in won. *)
LEMMA CountWon ==
  ASSUME run_i \in Runs, th \in [Team -> Locals], params \in [Slots -> [Counters -> Nat]],
         NEW k \in Counters, Room(k), Alone(k), UNCHANGED <<run_i, params>>,
         won[k] \in Nat, won'[k] = won[k] + 1, NEW t \in Team,
         th[t].pc \notin {"load", "store"},
         th'[t].pc = "load", th'[t].cnt = k, th'[t].ret = 1,
         \A u \in Team \ {t} : th'[u] = th[u]
  PROVE  Room(k)' /\ Alone(k)'
<1>0. Team' = Team /\ Pending(k) \in SUBSET Team
  BY DEF Team, Pending
<1>1. Pending(k)' = Pending(k) \cup {t} /\ t \in Team \ Pending(k)
  BY <1>0 DEF Pending
<1>2. Cardinality(Pending(k)') = Cardinality(Pending(k)) + 1 /\ Cardinality(Pending(k)) \in Nat
  BY <1>0, <1>1, TeamSets
<1>3. params[0][k] \in Nat /\ \A u \in Team : th[u].reg \in Nat
  BY TeamFacts DEF Slots, Locals
<1>4. \A u \in Team : th'[u].pc = "store" => th'[u] = th[u]
  OBVIOUS
<1>5. Room(k)'
  BY <1>0, <1>2, <1>3, <1>4 DEF Room
<1>6. Alone(k)'
  BY <1>0, <1>2, <1>3, <1>4 DEF Alone
<1> QED
  BY <1>5, <1>6

(* The copy a thread loads leaves as much room as the slot. *)
LEMMA CountLoad ==
  ASSUME run_i \in Runs, th \in [Team -> Locals],
         NEW k \in Counters, Room(k), Alone(k), NEW t \in Team, LoadCounter(t)
  PROVE  Room(k)' /\ Alone(k)'
<1>0. Team' = Team /\ params' = params /\ won' = won
  BY DEF LoadCounter, Team
<1>1. /\ th[t].pc = "load" /\ th'[t].pc = "store"
      /\ th'[t].cnt = th[t].cnt /\ th'[t].ret = th[t].ret
      /\ th'[t].reg = params[0][th[t].cnt]
      /\ \A u \in Team \ {t} : th'[u] = th[u]
  BY DEF LoadCounter, Locals, worker_id
<1>2. Pending(k)' = Pending(k)
  BY <1>0, <1>1 DEF Pending
<1>3. Room(k)'
  BY <1>0, <1>1, <1>2 DEF Room
<1>4. Alone(k)'
  BY <1>0, <1>1, <1>2 DEF Alone
<1> QED
  BY <1>3, <1>4

(* Whatever copy a thread stores, its own success was in hand. *)
LEMMA CountStore ==
  ASSUME run_i \in Runs, th \in [Team -> Locals], params \in [Slots -> [Counters -> Nat]],
         won \in [Counters -> Nat],
         NEW k \in Counters, Room(k), Alone(k), NEW t \in Team, StoreCounter(t)
  PROVE  Room(k)' /\ Alone(k)'
<1> DEFINE c == Cardinality(Pending(k))
<1> DEFINE d == Cardinality(Pending(k)')
<1>0. Team' = Team /\ won' = won /\ Pending(k) \in SUBSET Team /\ 0 \in Slots
  BY TeamFacts DEF StoreCounter, Team, Pending, Slots
<1>1. /\ th[t].pc = "store" /\ th'[t].pc \in {"op", "fetch", "sample"}
      /\ \A u \in Team \ {t} : th'[u] = th[u]
  BY DEF StoreCounter, Locals, Iterated
<1>2. th[t] \in Locals /\ th[t].reg \in Nat /\ th[t].ret \in {0, 1} /\ th[t].cnt \in Counters
  BY DEF Locals
<1>3. /\ params'[0] = [params[0] EXCEPT ![th[t].cnt] = th[t].reg + th[t].ret]
      /\ params[0] \in [Counters -> Nat]
  BY <1>0 DEF StoreCounter, worker_id
<1>4. /\ params'[0][k] = IF k = th[t].cnt THEN th[t].reg + th[t].ret ELSE params[0][k]
      /\ params[0][k] \in Nat /\ won[k] \in Nat
  BY <1>3
<1>5. Pending(k)' = Pending(k) \ {t}
  BY <1>0, <1>1 DEF Pending
<1>6. t \in Pending(k) <=> k = th[t].cnt /\ th[t].ret = 1
  BY <1>1 DEF Pending
<1>7. /\ c \in Nat /\ d \in Nat
      /\ d = IF k = th[t].cnt THEN c - th[t].ret ELSE c
  <2>1. CASE t \in Pending(k)
    <3>1. d = c - 1 /\ c \in Nat
      BY <1>0, <1>5, <2>1, TeamSets
    <3>2. d \in Nat
      BY <1>0, <1>5, TeamSets
    <3> QED
      BY <1>6, <2>1, <3>1, <3>2
  <2>2. CASE t \notin Pending(k)
    <3>1. d = c /\ c \in Nat
      BY <1>0, <1>5, <2>2, TeamSets
    <3> QED
      BY <1>2, <1>6, <2>2, <3>1
  <2> QED
    BY <2>1, <2>2
<1> HIDE DEF c, d
<1>8. k = th[t].cnt => th[t].reg + c <= won[k]
  BY <1>1 DEF Room, c
<1>9. \A u \in Team : th'[u].pc = "store" => th'[u] = th[u] /\ u # t
  BY <1>1
<1>10. \A u \in Team : th[u].reg \in Nat
  BY DEF Locals
<1>11. params'[0][k] + d <= won[k]
  BY <1>2, <1>4, <1>7, <1>8 DEF Room, c
<1>12. ASSUME NEW u \in Team, th'[u].pc = "store", th'[u].cnt = k
       PROVE  th'[u].reg + d <= won[k]
  <2>1. th[u].reg + c <= won[k]
    BY <1>9, <1>12 DEF Room, c
  <2> QED
    BY <1>2, <1>4, <1>7, <1>9, <1>10, <1>12, <2>1
<1>13. Room(k)'
  BY <1>0, <1>11, <1>12 DEF Room, d
<1>14. ASSUME Team = {0} PROVE params'[0][k] + d = won[k] /\ th'[0].pc # "store"
  <2>1. t = 0 /\ params[0][k] + c = won[k] /\ (th[0].cnt = k => th[0].reg = params[0][k])
    BY <1>1, <1>14 DEF Alone, c
  <2> QED
    BY <1>1, <1>2, <1>4, <1>7, <2>1
<1>15. Alone(k)'
  BY <1>0, <1>14 DEF Alone, d
<1> QED
  BY <1>13, <1>15

(* Every step keeps the room for the successes in hand. *)
LEMMA CountStep == CountInv /\ [Next]_vars => CountInv'
<1> SUFFICES ASSUME CountInv, [Next]_vars PROVE CountInv'
  OBVIOUS
<1>t. LoopInv /\ LoopInv' /\ TypeOK /\ TypeOK'
  BY LoopStep DEF CountInv, LoopInv
<1>a. ASSUME phase # "end" PROVE run_i \in Runs /\ 0 \in Team
  BY <1>a, <1>t, TeamFacts DEF TypeOK
<1>b. ASSUME Active
      PROVE  /\ th \in [Team -> Locals] /\ \A k \in Counters : Room(k) /\ Alone(k)
             /\ params \in [Slots -> [Counters -> Nat]] /\ won \in [Counters -> Nat]
             /\ run_i \in Runs /\ 0 \in Team
  BY <1>a, <1>b, <1>t DEF CountInv, TypeOK, Active
<1>c. ASSUME Active, UNCHANGED <<run_i, params, won>>,
             \A t \in Team : \/ th'[t] = th[t]
                             \/ /\ th[t].pc \notin {"load", "store"}
                                /\ th'[t].pc \notin {"load", "store"}
      PROVE  CountInv'
  <2>1. \A k \in Counters : Room(k)' /\ Alone(k)'
    BY <1>b, <1>c, CountKept
  <2> QED
    BY <1>t, <2>1 DEF CountInv
<1>1. CASE Prepare
  <2>1. /\ Team' = Team /\ 0 \in Slots /\ 0 \in Team /\ run_i \in Runs
        /\ \A t \in Team : th'[t].pc = "enter"
    BY <1>1, <1>a DEF Prepare, Team, Slots
  <2>2. params'[0] = Zero /\ won' = Zero
    BY <1>1, <2>1 DEF Prepare
  <2>3. ASSUME NEW k \in Counters PROVE Room(k)' /\ Alone(k)'
    <3>1. Pending(k)' = {}
      BY <2>1 DEF Pending
    <3>2. Cardinality(Pending(k)') = 0
      BY <3>1, FS_EmptySet
    <3>3. params'[0][k] = 0 /\ won'[k] = 0
      BY <2>2 DEF Zero
    <3> QED
      BY <2>1, <3>2, <3>3 DEF Room, Alone
  <2> QED
    BY <1>t, <2>3 DEF CountInv
<1>2. CASE Barrier \/ EndLoop
  <2>1. Active /\ UNCHANGED <<run_i, params, won>>
    BY <1>2 DEF Barrier, EndLoop, Active
  <2>2. \A t \in Team : /\ th[t].pc \in {"ready", "loopend"}
                        /\ th'[t].pc \in {"start", "fetch", "stop", "joined"}
    BY <1>2, <1>b, <2>1 DEF Barrier, EndLoop, EachTo, AllAt, Locals
  <2> QED
    BY <1>c, <2>1, <2>2
<1>3. CASE StartTime \/ EndTime
  <2>1. Active /\ UNCHANGED <<run_i, params, won>>
    BY <1>3 DEF StartTime, EndTime, Active
  <2>2. /\ \A t \in Team \ {0} : th'[t] = th[t]
        /\ th[0].pc \notin {"load", "store"} /\ th'[0].pc \notin {"load", "store"}
    BY <1>3, <1>b, <2>1 DEF StartTime, EndTime, Locals
  <2> QED
    BY <1>c, <2>1, <2>2
<1>4. CASE Join \/ Gather
  BY <1>4, <1>c DEF Join, Gather, Active
<1>5. CASE print_stat \/ Crash
  <2>1. ~Active'
    BY <1>5 DEF print_stat, NextRun, Crash, Active
  <2> QED
    BY <1>t, <2>1 DEF CountInv
<1>6. CASE UNCHANGED vars
  <2>1. CASE Active
    BY <1>6, <1>c, <2>1 DEF vars
  <2>2. CASE ~Active
    BY <1>6, <1>t, <2>2 DEF vars, Active, CountInv
  <2> QED
    BY <2>1, <2>2
<1>7. ASSUME phase = "team", NEW t \in Team, ThreadStep(t) PROVE CountInv'
  <2>0. Active /\ run_i' = run_i
    BY <1>7 DEF ThreadStep, Enter, Reserved, Fetch, Execute, LoadCounter, StoreCounter, Sample,
                Active
  <2>1. /\ th \in [Team -> Locals] /\ th[t] \in Locals /\ run_i \in Runs
        /\ params \in [Slots -> [Counters -> Nat]] /\ won \in [Counters -> Nat]
        /\ \A k \in Counters : Room(k) /\ Alone(k)
    BY <1>b, <1>7, <2>0
  <2>2. ASSUME \A k \in Counters : Room(k)' /\ Alone(k)' PROVE CountInv'
    BY <1>t, <2>2 DEF CountInv
  <2>3. CASE Enter(t) \/ Reserved(t) \/ Fetch(t)
    <3>1. /\ th[t].pc \notin {"load", "store"} /\ th'[t].pc \notin {"load", "store"}
          /\ \A u \in Team \ {t} : th'[u] = th[u]
      BY <2>1, <2>3 DEF Enter, Reserved, Fetch, Locals
    <3>2. UNCHANGED <<run_i, params, won>>
      BY <2>3 DEF Enter, Reserved, Fetch
    <3> QED
      BY <1>c, <2>0, <3>1, <3>2
  <2>4. ASSUME NEW op \in Counters, NEW ret \in {0, 1}, params' = params,
               won' = [won EXCEPT ![op] = @ + ret],
               th[t].pc \notin {"load", "store"}, th'[t].cnt = op, th'[t].ret = ret,
               th'[t].pc \in {"load", "sample"}, ret = 1 => th'[t].pc = "load",
               \A u \in Team \ {t} : th'[u] = th[u]
        PROVE  CountInv'
    <3>1. ASSUME NEW k \in Counters, k # op \/ ret = 0 PROVE Room(k)' /\ Alone(k)'
      <4>1. won'[k] = won[k]
        BY <2>1, <2>4, <3>1
      <4> QED
        BY <2>0, <2>1, <2>4, <3>1, <4>1, CountKept
    <3>2. ASSUME ret = 1 PROVE Room(op)' /\ Alone(op)'
      <4>1. won'[op] = won[op] + 1 /\ won[op] \in Nat
        BY <2>1, <2>4, <3>2
      <4> QED
        BY <1>7, <2>0, <2>1, <2>4, <3>2, <4>1, CountWon
    <3> QED
      BY <2>2, <3>1, <3>2
  <2>5. CASE Execute(t)
    <3>1. th[t].pc = "op" /\ Operations[th[t].i] \in Counters
      <4>1. th[t].pc = "op"
        BY <2>5 DEF Execute
      <4>2. th[t].i < th[t].last
        BY <1>t, <2>0, <4>1 DEF TypeOK
      <4>3. th[t].i \in OpIds
        BY <2>1, <4>2, OperationsAssumption DEF Locals, OpIds
      <4> QED
        BY <4>1, <4>3, OperationsAssumption DEF Counters
    <3>2. PICK op \in Counters : op = Operations[th[t].i]
      BY <3>1
    <3>3. PICK ret \in {0, 1} :
            /\ won' = [won EXCEPT ![op] = @ + ret]
            /\ th' = [th EXCEPT ![t].cnt = op, ![t].ret = ret,
                        ![t].pc = IF op = "SCAN" /\ ret = 0 THEN "sample" ELSE "load"]
      BY <2>5, <3>2 DEF Execute
    <3>4. /\ th'[t].cnt = op /\ th'[t].ret = ret
          /\ th'[t].pc \in {"load", "sample"} /\ (ret = 1 => th'[t].pc = "load")
          /\ \A u \in Team \ {t} : th'[u] = th[u]
      BY <2>1, <3>3 DEF Locals
    <3>5. params' = params
      BY <2>5 DEF Execute
    <3> QED
      BY <2>4, <3>1, <3>3, <3>4, <3>5
  <2>6. CASE LoadCounter(t)
    BY <1>7, <2>1, <2>2, <2>6, CountLoad
  <2>7. CASE StoreCounter(t)
    BY <1>7, <2>1, <2>2, <2>7, CountStore
  <2>8. CASE Sample(t)
    <3>1. CASE Sampled(th[t].i)
      <4>1. /\ th[t].pc = "sample" /\ th'[t].pc = "load"
            /\ th'[t].cnt = Latency /\ th'[t].ret = 1
            /\ \A u \in Team \ {t} : th'[u] = th[u]
        BY <2>1, <2>8, <3>1 DEF Sample, Locals
      <4>2. params' = params /\ won' = [won EXCEPT ![Latency] = @ + 1]
        BY <2>8, <3>1 DEF Sample
      <4>3. Latency \in Counters
        BY DEF Counters
      <4> QED
        BY <2>4, <4>1, <4>2, <4>3
    <3>2. CASE ~Sampled(th[t].i)
      <4>1. /\ th[t].pc = "sample" /\ th'[t].pc \in {"op", "fetch"}
            /\ \A u \in Team \ {t} : th'[u] = th[u]
        BY <2>1, <2>8, <3>2 DEF Sample, Iterated, Locals
      <4>2. UNCHANGED <<run_i, params, won>>
        BY <2>8, <3>2 DEF Sample
      <4> QED
        BY <1>c, <2>0, <4>1, <4>2
    <3> QED
      BY <3>1, <3>2
  <2> QED
    BY <1>7, <2>3, <2>5, <2>6, <2>7, <2>8 DEF ThreadStep
<1> QED
  BY <1>1, <1>2, <1>3, <1>4, <1>5, <1>6, <1>7 DEF Next

(* The threads of a team of any size race on the counters of slot 0: what  *)
(* run gathers is at most what they achieved, and all of it if the team is *)
(* one thread.                                                             *)
THEOREM BenchSlotBounded == Spec => []SlotBounded
<1>1. Init => CountInv
  <2>1. Init => ~Active
    BY DEF Init, Active
  <2> QED
    BY <2>1, LoopInit DEF CountInv
<1>2. CountInv => SlotBounded
  <2> SUFFICES ASSUME CountInv, phase = "gather", NEW k \in Counters
               PROVE  params[0][k] <= won[k] /\ (Team = {0} => params[0][k] = won[k])
    BY DEF SlotBounded
  <2>1. Active /\ run_i \in Runs /\ Room(k) /\ Alone(k)
    BY DEF CountInv, LoopInv, TypeOK, Active
  <2>2. params[0][k] \in Nat
    BY <2>1, TeamFacts DEF CountInv, LoopInv, TypeOK, Slots
  <2>3. Pending(k) = {}
    BY <2>1 DEF CountInv, LoopInv, Closing, AllAt, Pending
  <2>4. Cardinality(Pending(k)) = 0
    BY <2>3, FS_EmptySet
  <2> QED
    BY <2>1, <2>2, <2>4 DEF Room, Alone
<1> QED
  BY <1>1, <1>2, CountStep, PTL DEF Spec
================================================================================
