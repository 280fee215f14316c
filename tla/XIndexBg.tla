-------------------------------- MODULE XIndexBg --------------------------------
(***************************************************************************)
(* The background threads of XIndex: the master thread, which runs rounds  *)
(* of structure updates and replaces the root, and the bg_num threads that *)
(* adjust the groups of their part of the root's array, with the flags of  *)
(* BGInfo between them, and the end of the index.  XIndex.tla has the      *)
(* steps of one adjustment; here it is one stay in rcu_barrier with the    *)
(* slots it rewrites.                                                      *)
(***************************************************************************)
EXTENDS Naturals, Sequences, FiniteSets, SequencesExt

CONSTANTS bg_num,      \* threads that run do_adjustment
          Workers,     \* worker slots rcu_barrier waits for
          InitGroups,  \* numbers of groups Root::init may choose
          MaxGroups,   \* bound: groups of the index
          MaxRoots,    \* bound: roots built
          Freed        \* the memory of the XIndex object is reused after ~XIndex

ASSUME BgAssumption ==
  /\ bg_num \in Nat \ {0} /\ InitGroups \subseteq 1 .. MaxGroups
  /\ MaxGroups \in Nat /\ MaxRoots \in Nat /\ Freed \in BOOLEAN

VARIABLES root,        \* index.root: roots are numbered
          chain,       \* chain[i]: groups chained in slot i of the current root
          info,        \* BGInfo of each thread
          master,      \* local state of the thread in XIndex::background
          th,          \* local state of the threads in do_adjustment
          bg_running, exited,
          working,     \* the worker threads still call the index
          alive,       \* the XIndex object exists
          need,        \* workers whose progress a rcu_barrier still waits for
          visits       \* history: how often each slot was visited in this round

vars == <<root, chain, info, master, th, bg_running, exited, working, alive, need, visits>>

Bg == 0 .. bg_num - 1
Master_i == bg_num   \* the master as a caller of rcu_barrier
Callers == 0 .. bg_num
group_n == Len(chain)

Rcu == INSTANCE Quiescence WITH
         Slots <- Workers,
         calling <- [c \in Callers |-> IF c \in Bg THEN th[c].pc = "barrier"
                                       ELSE master.pc \in {"root_barrier", "barrier"}]

Sum(s) == FoldLeft(LAMBDA a, b : a + b, 0, s)
Ones(n) == [i \in 1 .. n |-> 1]

(* A thread that is in no round. *)
Outside == [pc |-> "loop", root |-> 0, i |-> 0, end |-> 0, kind |-> "none", touch |-> {}]

Init ==
  /\ root = 1
  /\ chain \in {Ones(n) : n \in InitGroups}
  /\ info = [b \in Bg |-> [started |-> FALSE, finished |-> FALSE, running |-> TRUE,
                           should_update_array |-> FALSE]]
  /\ master = [pc |-> "check", i |-> 0, update |-> FALSE]
  /\ th = [b \in Bg |-> Outside]
  /\ bg_running = TRUE /\ exited = FALSE /\ working = TRUE /\ alive = TRUE
  /\ need = [c \in Callers |-> {}]
  /\ visits = [i \in DOMAIN chain |-> 0]
-------------------------------------------------------------------------------
(* The master thread: XIndex::background. *)
flags == <<bg_running, exited, working, alive>>
Master(pc, i) == master' = [master EXCEPT !.pc = pc, !.i = i]
(* The next of the bg_num iterations of a loop, or what follows the loop. *)
Loop(pc, then) == IF master.i + 1 < bg_num THEN Master(pc, master.i + 1) ELSE Master(then, 0)

(* while (index.bg_running).  Memory that was freed reads as anything. *)
CheckRunning ==
  /\ master.pc = "check"
  /\ \E r \in IF alive THEN {bg_running} ELSE BOOLEAN : Master(IF r THEN "start" ELSE "stop", 0)
  /\ UNCHANGED <<root, chain, info, th, flags, need, visits>>

StartThread ==
  /\ master.pc = "start"
  /\ info' = [info EXCEPT ![master.i].started = TRUE]
  /\ visits' = IF master.i = 0 THEN [i \in DOMAIN chain |-> 0] ELSE visits
  /\ Loop("start", "poll")
  /\ UNCHANGED <<root, chain, th, flags, need>>

(* Wait for the threads to finish: from the first one on, after a sleep. *)
Poll ==
  /\ master.pc = "poll"
  /\ IF info[master.i].finished THEN Loop("poll", "collect") ELSE Master("poll", 0)
  /\ UNCHANGED <<root, chain, info, th, flags, need, visits>>

(* Fault: the flag of the last thread decides. *)
Collect_Last ==
  /\ master.pc = "collect"
  /\ LET update == info[master.i].should_update_array
         last == master.i + 1 = bg_num
     IN master' = [pc |-> IF ~last THEN "collect" ELSE IF update THEN "new_root" ELSE "end_round",
                   i |-> IF last THEN 0 ELSE master.i + 1, update |-> update /\ ~last]
  /\ info' = [info EXCEPT ![master.i].finished = FALSE, ![master.i].should_update_array = FALSE]
  /\ UNCHANGED <<root, chain, th, flags, need, visits>>

Collect ==
  /\ master.pc = "collect"
  /\ LET update == master.update \/ info[master.i].should_update_array
         last == master.i + 1 = bg_num
     IN master' = [pc |-> IF ~last THEN "collect" ELSE IF update THEN "new_root" ELSE "end_round",
                   i |-> IF last THEN 0 ELSE master.i + 1, update |-> update /\ ~last]
  /\ info' = [info EXCEPT ![master.i].finished = FALSE, ![master.i].should_update_array = FALSE]
  /\ UNCHANGED <<root, chain, th, flags, need, visits>>

(* create_new_root gives every group a slot of its own; a group still      *)
(* leads to the ones chained behind it until trim_root cuts the chains,    *)
(* after the barrier and before old_root is deleted.                       *)
CreateRoot ==
  /\ master.pc = "new_root"
  /\ root' = root + 1
  /\ chain' = FlattenSeq([i \in DOMAIN chain |->
                            [j \in 1 .. chain[i] |-> chain[i] + 1 - j]])
  /\ Master("root_barrier", 0)
  /\ UNCHANGED <<info, th, bg_running, working, alive, visits>>
  /\ Rcu!Call(Master_i)

TrimRoot ==
  /\ master.pc = "root_barrier"
  /\ chain' = Ones(group_n)
  /\ Master("end_round", 0)
  /\ UNCHANGED <<root, info, th, bg_running, working, alive, visits>>
  /\ Rcu!Return(Master_i)

EndRound ==
  /\ master.pc = "end_round"
  /\ Master("barrier", 0)
  /\ UNCHANGED <<root, chain, info, th, bg_running, working, alive, visits>>
  /\ Rcu!Call(Master_i)
RoundBarrier ==
  /\ master.pc = "barrier"
  /\ Master("check", 0)
  /\ UNCHANGED <<root, chain, info, th, bg_running, working, alive, visits>>
  /\ Rcu!Return(Master_i)

(* Fault: only the first thread is told to stop. *)
StopThread_First ==
  /\ master.pc = "stop"
  /\ info' = [info EXCEPT ![0].running = FALSE]
  /\ Master("join", 0)
  /\ UNCHANGED <<root, chain, th, flags, need, visits>>

StopThread ==
  /\ master.pc = "stop"
  /\ info' = [info EXCEPT ![master.i].running = FALSE]
  /\ Loop("stop", "join")
  /\ UNCHANGED <<root, chain, th, flags, need, visits>>
JoinThread ==
  /\ master.pc = "join"
  /\ th[master.i].pc = "exited"
  /\ Loop("join", "done")
  /\ UNCHANGED <<root, chain, info, th, flags, need, visits>>

MasterStep ==
  \/ CheckRunning \/ StartThread \/ Poll \/ Collect \/ CreateRoot \/ TrimRoot
  \/ EndRound \/ RoundBarrier \/ StopThread \/ JoinThread
-------------------------------------------------------------------------------
(* Thread b: Root::do_adjustment. *)
(* Slots are counted from 1 here, so thread b has begin + 1 .. end. *)
begin_group_i(b) == (b * group_n) \div bg_num

(* Fault: the last thread is given its share and not the rest. *)
end_group_i_Rounded(b) == (b + 1) * (group_n \div bg_num)

end_group_i(b) == IF b = bg_num - 1 THEN group_n ELSE ((b + 1) * group_n) \div bg_num

ThreadLoop(b) ==
  /\ th[b].pc = "loop"
  /\ th' = [th EXCEPT ![b].pc = IF info[b].running THEN "idle" ELSE "exited"]
  /\ UNCHANGED <<root, chain, info, master, flags, need, visits>>

(* if (started) started = false; then the range of the current root. *)
ThreadStarted(b) ==
  /\ th[b].pc = "idle"
  /\ info' = [info EXCEPT ![b].started = FALSE]
  /\ th' = [th EXCEPT ![b].pc = IF info[b].started THEN "read_root" ELSE "loop"]
  /\ UNCHANGED <<root, chain, master, flags, need, visits>>

ReadRoot(b) ==
  /\ th[b].pc = "read_root"
  /\ th' = [th EXCEPT ![b] = [pc |-> "slot", root |-> root, i |-> begin_group_i(b) + 1,
                              end |-> end_group_i(b), kind |-> "none", touch |-> {}]]
  /\ UNCHANGED <<root, chain, info, master, flags, need, visits>>

(* Fault: a group is merged with the first one of the next thread. *)
HasNextGroup_Beyond(b) == th[b].i < group_n /\ chain[th[b].i + 1] # 0

(* There is a group in the next slot of the thread's range to merge with. *)
HasNextGroup(b) == th[b].i < th[b].end /\ chain[th[b].i + 1] # 0

(* What the thread does with a group that needs it: model split or merge   *)
(* or compaction in place, group split, or merge with the next group.      *)
Kinds(b) ==
  {"in_place"}
    \cup (IF root < MaxRoots /\ Sum(chain) < MaxGroups THEN {"split"} ELSE {})
    \cup (IF root < MaxRoots /\ HasNextGroup(b) THEN {"merge"} ELSE {})

Visit(b) == visits' = [visits EXCEPT ![th[b].i] = @ + 1]

(* The slot is empty, or its group needs nothing. *)
SkipSlot(b) ==
  /\ th[b].pc = "slot" /\ th[b].i <= th[b].end
  /\ th' = [th EXCEPT ![b].i = @ + 1]
  /\ Visit(b)
  /\ UNCHANGED <<root, chain, info, master, flags, need>>

(* The new groups are stored in the slots, and the old ones are freed      *)
(* after rcu_barrier.                                                      *)
AdjustSlot(b) ==
  /\ th[b].pc = "slot" /\ th[b].i <= th[b].end
  /\ chain[th[b].i] # 0
  /\ \E k \in Kinds(b) :
       th' = [th EXCEPT ![b].pc = "barrier", ![b].kind = k,
                        ![b].touch = th[b].i .. th[b].i + (IF k = "merge" THEN 1 ELSE 0)]
  /\ Visit(b)
  /\ UNCHANGED <<root, chain, info, master, bg_running, working, alive>>
  /\ Rcu!Call(b)

Adjusted(b) ==
  /\ th[b].pc = "barrier"
  /\ LET i == th[b].i
         k == th[b].kind
     IN /\ chain' = CASE k = "split" -> [chain EXCEPT ![i] = @ + 1]
                      [] k = "merge" -> [chain EXCEPT ![i + 1] = 0]
                      [] OTHER -> chain
        /\ info' = IF k = "in_place" THEN info
                   ELSE [info EXCEPT ![b].should_update_array = TRUE]
        /\ th' = [th EXCEPT ![b].pc = "slot", ![b].i = @ + 1, ![b].kind = "none",
                         ![b].touch = {}]
  /\ UNCHANGED <<root, master, bg_running, working, alive, visits>>
  /\ Rcu!Return(b)

(* Fault: a thread with no slots leaves the round early. *)
Finish_Early(b) ==
  /\ th[b].pc = "slot" /\ th[b].i > th[b].end
  /\ info' = [info EXCEPT ![b].finished = begin_group_i(b) < end_group_i(b)]
  /\ th' = [th EXCEPT ![b] = Outside]
  /\ UNCHANGED <<root, chain, master, flags, need, visits>>

Finish(b) ==
  /\ th[b].pc = "slot" /\ th[b].i > th[b].end
  /\ info' = [info EXCEPT ![b].finished = TRUE]
  /\ th' = [th EXCEPT ![b] = Outside]
  /\ UNCHANGED <<root, chain, master, flags, need, visits>>

Thread(b) ==
  \/ ThreadLoop(b) \/ ThreadStarted(b) \/ ReadRoot(b)
  \/ SkipSlot(b) \/ AdjustSlot(b) \/ Adjusted(b) \/ Finish(b)
-------------------------------------------------------------------------------
(* The owner of the index and its workers. *)
WorkerProgress(w) ==
  /\ working
  /\ UNCHANGED <<root, chain, info, master, th, bg_running, working, alive, visits>>
  /\ Rcu!Progress(w)

(* ~XIndex runs terminate_bg after the workers are done: config.exited,    *)
(* then bg_running.  The adapter then frees the object, and nobody joins   *)
(* the master.                                                             *)
SetExited ==
  /\ ~exited
  /\ working' = FALSE
  /\ UNCHANGED <<root, chain, info, master, th, bg_running, alive, visits>>
  /\ Rcu!Exit
ClearRunning ==
  /\ exited /\ bg_running
  /\ bg_running' = FALSE
  /\ alive' = ~Freed
  /\ UNCHANGED <<root, chain, info, master, th, exited, working, need, visits>>

Owner == (\E w \in Workers : WorkerProgress(w)) \/ SetExited \/ ClearRunning

AllDone == master.pc = "done" /\ ~bg_running /\ UNCHANGED vars

Next == MasterStep \/ (\E b \in Bg : Thread(b)) \/ Owner \/ AllDone

Spec == Init /\ [][Next]_vars

(* The scheduler runs the master and every thread, and an owner that has   *)
(* begun terminate_bg ends it.  Nobody has to call the index or destroy it.*)
FairSpec ==
  /\ Spec
  /\ WF_vars(MasterStep) /\ WF_vars(ClearRunning)
  /\ \A b \in Bg : WF_vars(Thread(b))
-------------------------------------------------------------------------------
TypeOK ==
  /\ root \in 1 .. MaxRoots /\ chain \in Seq(0 .. MaxGroups)
  /\ info \in [Bg -> [started : BOOLEAN, finished : BOOLEAN, running : BOOLEAN,
                       should_update_array : BOOLEAN]]
  /\ master.i \in Bg /\ master.update \in BOOLEAN
  /\ \A b \in Bg : th[b].end \in 0 .. group_n /\ th[b].touch \subseteq 1 .. group_n
  /\ need \in [Callers -> SUBSET Workers]
  /\ {bg_running, exited, working, alive} \subseteq BOOLEAN

Adjusting(b) == th[b].pc \in {"slot", "barrier"}

(* Two threads of do_adjustment never rewrite the same slot of the root    *)
(* array, and they do it in the array the workers see: the ranges split    *)
(* the array, a merge stops at the end of the range, and the master        *)
(* replaces and deletes the root only between two rounds.                  *)
OneAdjuster ==
  /\ \A b, c \in Bg : b # c => th[b].touch \cap th[c].touch = {}
  /\ \A b \in Bg : Adjusting(b) => th[b].root = root /\ master.pc \in {"start", "poll"}

(* When the master has seen all threads finished, every slot of the array  *)
(* was visited exactly once in the round, whatever the numbers of groups   *)
(* and of threads.                                                         *)
RoundCovers ==
  master.pc = "collect" => \A i \in DOMAIN chain : visits[i] = 1

(* A split or a merge is never left in the array for the next round: when  *)
(* the master starts one, every slot has one group with no other behind    *)
(* it.  This is what lets the master dereference every slot and            *)
(* do_adjustment take the group after its own from the next slot.          *)
RoundStartsFlat == master.pc \in {"check", "start"} /\ master.i = 0 => chain = Ones(group_n)

(* No thread reads index.bg_running or index.root after the index is       *)
(* freed.                                                                  *)
IndexOutlivesThreads ==
  ~alive => /\ master.pc \in {"stop", "join", "done"}
            /\ \A b \in Bg : th[b].pc # "read_root"

(* Once terminate_bg has been called, every adjusting thread leaves its    *)
(* loop and the master joins them all, also when the workers have stopped  *)
(* in the middle of a round: rcu_barrier gives up when config.exited.      *)
BackgroundEnds == exited ~> master.pc = "done"

(* A round that was started is collected, as long as every worker keeps    *)
(* calling the index, so that each rcu_barrier sees it in the end: no      *)
(* flag of BGInfo is lost between the master and a thread.                 *)
RoundsEnd ==
  (\A c \in Callers : []<>(need[c] = {})) => (master.pc = "poll" ~> master.pc = "collect")
================================================================================
