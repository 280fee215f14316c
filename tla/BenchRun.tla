-------------------------------- MODULE BenchRun --------------------------------
(***************************************************************************)
(* The measuring loop of the micro-benchmark: run_benchmark executes run   *)
(* once for every index type and thread count.  run starts an OpenMP team, *)
(* which takes the generated operations in chunks from a dynamic schedule; *)
(* each thread counts successes and collects latencies in                  *)
(* params[parlay::worker_id()], which is slot 0 for every OpenMP thread,   *)
(* so a team of two or more races on it.  After the join the slots are     *)
(* gathered into stat, which print_stat reports and clears.                *)
(***************************************************************************)
EXTENDS Naturals, Sequences, Functions

CONSTANTS Operations,      \* the kind of each generated operation, from 0
          operations_num,  \* how many there are
          ChunkSize,       \* schedule(dynamic, 10000)
          thread_nums,     \* thread_num of each run, in order
          latency_sample,  \* the flag of that name
          latency_sample_interval

Kinds == {"READ", "INSERT", "UPDATE", "SCAN", "DELETE"}
Latency == "latency"
Counters == Kinds \cup {Latency}
Runs == 1 .. Len(thread_nums)
OpIds == 0 .. operations_num - 1

ASSUME OperationsAssumption ==
  operations_num \in Nat /\ Operations \in [OpIds -> Kinds]
ASSUME ScheduleAssumption ==
  /\ ChunkSize \in Nat \ {0}
  /\ thread_nums \in Seq(Nat \ {0})
ASSUME SampleAssumption ==
  latency_sample \in BOOLEAN /\ latency_sample_interval \in Nat \ {0}

VARIABLES run_i,     \* the run under way
          phase,     \* "prepare", "team", "gather", "print", "end" or "crash"
          next,      \* first operation the schedule has not handed out
          th,        \* local state of the team's threads
          params,    \* params[s]: the ThreadParam of slot s
          stat,      \* the Stat of the benchmark
          rows,      \* what print_stat reported of each run
          timed,     \* which of start_time and end_time the master has taken
          ran,       \* history: how often each operation was executed
          won,       \* history: what the team achieved in this run
          truth      \* history: what it achieved in each run gathered

vars == <<run_i, phase, next, th, params, stat, rows, timed, ran, won, truth>>

Team == 0 .. thread_nums[run_i] - 1
Slots == Team
Zero == [k \in Counters |-> 0]
Total(f, k) == FoldFunction(LAMBDA p, n : p[k] + n, 0, f)

(* parlay::worker_id() in a thread that parlay did not create: the thread  *)
(* becomes worker 0 of a scheduler of its own.                             *)
worker_id(t) == 0

AllAt(pc) == \A t \in Team : th[t].pc = pc
EachTo(master, others) ==
  th' = [t \in Team |-> [th[t] EXCEPT !.pc = IF t = 0 THEN master ELSE others]]

Init ==
  /\ run_i = 1
  /\ phase = IF Runs = {} THEN "end" ELSE "prepare"
  /\ next = 0
  /\ th = <<>> /\ params = <<>>
  /\ stat = Zero /\ won = Zero
  /\ rows = <<>> /\ truth = <<>>
  /\ timed = {}
  /\ ran = [i \in OpIds |-> 0]

(* prepare builds and loads the index; run allocates the slots and starts  *)
(* the team.                                                               *)
Prepare ==
  /\ phase = "prepare"
  /\ phase' = "team"
  /\ next' = 0
  /\ th' = [t \in Team |-> [pc |-> "enter", i |-> 0, last |-> 0,
                              cnt |-> Latency, ret |-> 0, reg |-> 0]]
  /\ params' = [s \in Slots |-> Zero]
  /\ won' = Zero
  /\ ran' = [i \in OpIds |-> 0]
  /\ timed' = {}
  /\ UNCHANGED <<run_i, stat, rows, truth>>

(* thread_param.latency.reserve. *)
Enter(t) ==
  /\ phase = "team" /\ th[t].pc = "enter"
  /\ th' = [th EXCEPT ![t].pc = "reserve"]
  /\ UNCHANGED <<run_i, phase, next, params, stat, rows, timed, ran, won, truth>>

(* omp barrier: "waiting all thread ready". *)
Reserved(t) ==
  /\ phase = "team" /\ th[t].pc = "reserve"
  /\ th' = [th EXCEPT ![t].pc = "ready"]
  /\ UNCHANGED <<run_i, phase, next, params, stat, rows, timed, ran, won, truth>>

Barrier ==
  /\ phase = "team" /\ AllAt("ready")
  /\ EachTo("start", "fetch")
  /\ UNCHANGED <<run_i, phase, next, params, stat, rows, timed, ran, won, truth>>

(* omp master: the other threads do not wait for it. *)
StartTime ==
  /\ phase = "team" /\ th[0].pc = "start"
  /\ timed' = timed \cup {"start_time"}
  /\ th' = [th EXCEPT ![0].pc = "fetch"]
  /\ UNCHANGED <<run_i, phase, next, params, stat, rows, ran, won, truth>>

(* Fault: consecutive chunks overlap. *)
Fetch_Overlap(t) ==
  /\ phase = "team" /\ th[t].pc = "fetch"
  /\ IF next < operations_num
       THEN LET last == IF next + ChunkSize < operations_num
                          THEN next + ChunkSize ELSE operations_num
            IN /\ next' = next + 1
               /\ th' = [th EXCEPT ![t].pc = "op", ![t].i = next, ![t].last = last]
       ELSE /\ th' = [th EXCEPT ![t].pc = "loopend"]
            /\ UNCHANGED next
  /\ UNCHANGED <<run_i, phase, params, stat, rows, timed, ran, won, truth>>

(* omp for schedule(dynamic, ChunkSize): the next chunk, or the implicit   *)
(* barrier at the end of the loop.                                         *)
Fetch(t) ==
  /\ phase = "team" /\ th[t].pc = "fetch"
  /\ IF next < operations_num
       THEN LET last == IF next + ChunkSize < operations_num
                          THEN next + ChunkSize ELSE operations_num
            IN /\ next' = last
               /\ th' = [th EXCEPT ![t].pc = "op", ![t].i = next, ![t].last = last]
       ELSE /\ th' = [th EXCEPT ![t].pc = "loopend"]
            /\ UNCHANGED next
  /\ UNCHANGED <<run_i, phase, params, stat, rows, timed, ran, won, truth>>

(* The call of the index.  Every kind but SCAN adds its result, which may  *)
(* be 0; a scan increments its counter when it found too few keys.         *)
Execute(t) ==
  /\ phase = "team" /\ th[t].pc = "op"
  /\ LET i == th[t].i
         op == Operations[i]
     IN \E ret \in {0, 1} :
          /\ ran' = [ran EXCEPT ![i] = @ + 1]
          /\ won' = [won EXCEPT ![op] = @ + ret]
          /\ th' = [th EXCEPT ![t].cnt = op, ![t].ret = ret,
                      ![t].pc = IF op = "SCAN" /\ ret = 0 THEN "sample" ELSE "load"]
  /\ UNCHANGED <<run_i, phase, next, params, stat, rows, timed, truth>>

Iterated(t) ==
  [th[t] EXCEPT !.i = @ + 1, !.ret = 0, !.reg = 0,
                !.pc = IF th[t].i + 1 < th[t].last THEN "op" ELSE "fetch"]

(* thread_param.success_... += ret and thread_param.latency.push_back:     *)
(* each loads a counter (the end of the vector) and stores it.             *)
LoadCounter(t) ==
  /\ phase = "team" /\ th[t].pc = "load"
  /\ th' = [th EXCEPT ![t].reg = params[worker_id(t)][th[t].cnt], ![t].pc = "store"]
  /\ UNCHANGED <<run_i, phase, next, params, stat, rows, timed, ran, won, truth>>

StoreCounter(t) ==
  /\ phase = "team" /\ th[t].pc = "store"
  /\ params' = [params EXCEPT ![worker_id(t)][th[t].cnt] = th[t].reg + th[t].ret]
  /\ th' = [th EXCEPT ![t] = IF th[t].cnt = Latency THEN Iterated(t)
                             ELSE [th[t] EXCEPT !.reg = 0, !.pc = "sample"]]
  /\ UNCHANGED <<run_i, phase, next, stat, rows, timed, ran, won, truth>>

(* The end of an iteration: a latency sample is pushed, or none is due. *)
Sampled(i) == latency_sample /\ i % latency_sample_interval = 0
Sample(t) ==
  /\ phase = "team" /\ th[t].pc = "sample"
  /\ IF Sampled(th[t].i)
       THEN /\ won' = [won EXCEPT ![Latency] = @ + 1]
            /\ th' = [th EXCEPT ![t].cnt = Latency, ![t].ret = 1, ![t].pc = "load"]
       ELSE /\ th' = [th EXCEPT ![t] = Iterated(t)]
            /\ UNCHANGED won
  /\ UNCHANGED <<run_i, phase, next, params, stat, rows, timed, ran, truth>>

(* reserve, and a push_back beyond what was reserved, replace the storage  *)
(* of the vector: done while another thread is inside the same vector,     *)
(* they may corrupt the heap.                                              *)
Capacity == operations_num \div latency_sample_interval
Pushing(t) == th[t].pc = "store" /\ th[t].cnt = Latency
Growing(t) == th[t].pc = "reserve" \/ (Pushing(t) /\ th[t].reg >= Capacity)
Crash ==
  /\ phase = "team"
  /\ \E t, u \in Team : /\ t # u /\ worker_id(t) = worker_id(u)
                        /\ Growing(t) /\ (Growing(u) \/ Pushing(u))
  /\ phase' = "crash"
  /\ UNCHANGED <<run_i, next, th, params, stat, rows, timed, ran, won, truth>>

(* Fault: the loop has no barrier at its end (nowait). *)
EndLoop_NoWait ==
  /\ phase = "team"
  /\ \E t \in Team : /\ th[t].pc = "loopend"
                     /\ th' = [th EXCEPT ![t].pc = IF t = 0 THEN "stop" ELSE "joined"]
  /\ UNCHANGED <<run_i, phase, next, params, stat, rows, timed, ran, won, truth>>

EndLoop ==
  /\ phase = "team" /\ AllAt("loopend")
  /\ EachTo("stop", "joined")
  /\ UNCHANGED <<run_i, phase, next, params, stat, rows, timed, ran, won, truth>>

EndTime ==
  /\ phase = "team" /\ th[0].pc = "stop"
  /\ timed' = timed \cup {"end_time"}
  /\ th' = [th EXCEPT ![0].pc = "joined"]
  /\ UNCHANGED <<run_i, phase, next, params, stat, rows, ran, won, truth>>

Join ==
  /\ phase = "team" /\ AllAt("joined")
  /\ phase' = "gather"
  /\ UNCHANGED <<run_i, next, th, params, stat, rows, timed, ran, won, truth>>

(* "gather thread local variable". *)
Gather ==
  /\ phase = "gather"
  /\ phase' = "print"
  /\ stat' = [k \in Counters |-> stat[k] + Total(params, k)]
  /\ truth' = Append(truth, won)
  /\ UNCHANGED <<run_i, next, th, params, rows, timed, ran, won>>

(* run_benchmark deletes the index and goes on with the next thread count  *)
(* or index type.                                                          *)
NextRun ==
  /\ run_i' = run_i + 1
  /\ phase' = IF run_i + 1 \in Runs THEN "prepare" ELSE "end"
  /\ th' = <<>> /\ params' = <<>> /\ won' = Zero

(* if (clear_flag) stat.clear(), with the default of clear_flag. *)
clear == stat' = Zero

(* Fault: stat is not cleared. *)
print_stat_NoClear ==
  /\ phase = "print"
  /\ rows' = Append(rows, stat)
  /\ NextRun
  /\ UNCHANGED <<next, stat, timed, ran, truth>>

(* print_stat reports the counts of the run, and the latencies behind its  *)
(* average and percentiles.                                                *)
print_stat ==
  /\ phase = "print"
  /\ rows' = Append(rows, stat)
  /\ clear
  /\ NextRun
  /\ UNCHANGED <<next, timed, ran, truth>>

ThreadStep(t) ==
  \/ Enter(t) \/ Reserved(t) \/ Fetch(t) \/ Execute(t)
  \/ LoadCounter(t) \/ StoreCounter(t) \/ Sample(t)

Next ==
  \/ Prepare \/ Barrier \/ StartTime \/ EndLoop \/ EndTime \/ Join \/ Gather \/ print_stat
  \/ Crash
  \/ phase = "team" /\ \E t \in Team : ThreadStep(t)

Spec == Init /\ [][Next]_vars
--------------------------------------------------------------------------------
Pcs == {"enter", "reserve", "ready", "start", "fetch", "op", "load", "store", "sample", "loopend",
        "stop", "joined"}
Locals == [pc : Pcs, i : Nat, last : 0 .. operations_num,
           cnt : Counters, ret : {0, 1}, reg : Nat]
Active == phase \in {"team", "gather", "print"}

(* Types; the iteration a thread is in is one of the loop. *)
TypeOK ==
  /\ run_i \in Nat \ {0}
  /\ phase \in {"prepare", "team", "gather", "print", "end", "crash"}
  /\ phase # "end" => run_i \in Runs
  /\ next \in 0 .. operations_num
  /\ ran \in [OpIds -> Nat]
  /\ Active =>
       /\ th \in [Team -> Locals]
       /\ params \in [Slots -> [Counters -> Nat]]
       /\ won \in [Counters -> Nat]
       /\ \A t \in Team :
            th[t].pc \in {"op", "load", "store", "sample"} => th[t].i < th[t].last

(* The dynamic schedule hands out every generated operation exactly once:  *)
(* none is executed twice, and none is missing once the team has joined.   *)
ExactlyOnce ==
  \A i \in OpIds :
    /\ ran[i] <= 1
    /\ phase \in {"gather", "print"} => ran[i] = 1

(* end_time is taken after the last operation and its counting: the        *)
(* throughput never divides by less time than the tail of the work took.   *)
EndAfterAll ==
  "end_time" \in timed /\ Active =>
    /\ \A i \in OpIds : ran[i] = 1
    /\ \A t \in Team : th[t].pc \in {"loopend", "stop", "joined"}

(* The unsynchronised += of the team may lose a success but never invents  *)
(* one: when the slots are gathered, the slot they share counts at most    *)
(* what the team achieved, and exactly that if the team is one thread.     *)
SlotBounded ==
  phase = "gather" =>
    \A k \in Counters : /\ params[0][k] <= won[k]
                        /\ Team = {0} => params[0][k] = won[k]

(* No report claims more than its own run achieved, and that of a run with *)
(* one thread claims all of it: nothing leaks in from an earlier index or  *)
(* thread count, and no race adds a success or a latency.                  *)
CountsBounded ==
  \A r \in 1 .. Len(rows) : \A k \in Counters :
    /\ rows[r][k] <= truth[r][k]
    /\ thread_nums[r] = 1 => rows[r][k] = truth[r][k]

(* Every report says what its run achieved: not so for a team of two,      *)
(* which counts in one slot of what run calls thread local variables.      *)
RowsExact == \A r \in 1 .. Len(rows) : rows[r] = truth[r]
================================================================================
