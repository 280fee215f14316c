--------------------------------- MODULE XIndex ---------------------------------
(***************************************************************************)
(* XIndex as its worker threads and its background thread share it: the    *)
(* root's array of group pointers, the groups with their sorted array,     *)
(* their buffer and, during a structure update, their second buffer, the   *)
(* operations get, put, remove and scan, and the background adjustments    *)
(* (model split and merge, group split, group merge, compaction, new root) *)
(* with their rcu_barrier calls.  A step is one access to shared memory.   *)
(* seq = false, as in the adapter of this framework.                       *)
(***************************************************************************)
EXTENDS Integers, Sequences, FiniteSets, FiniteSetsExt, SequencesExt

CONSTANTS Workers,      \* threads that call the index, each with its own rcu slot
          Keys,         \* a set of naturals, from key_t::min() = 0 to key_t::max()
          MaxKey,       \* key_t::max()
          OpKeys,       \* the keys the workers use
          Scenarios,    \* records of load: the key sets of the groups that Root::init
                        \* builds, in order; put: the keys put in their buffers
                        \* since; ops: the operations the workers call; kinds:
                        \* the adjustments do_adjustment may choose
          MaxAdjust,    \* bound: adjustments of the background thread
          MaxOps,       \* bound: operations of one worker, the others have one less,
                        \* when Endless is FALSE
          Endless,      \* TRUE: the workers never run out of operations
          ScanArgs      \* pairs of the first key and the number of records of a scan

ASSUME LoadAssumption ==
  /\ MaxKey \in Nat /\ Keys \subseteq 0 .. MaxKey /\ OpKeys \subseteq Keys
  /\ \A sc \in Scenarios :
       /\ sc.ops \subseteq {"get", "put", "remove", "scan"}
       /\ sc.kinds \subseteq {"model", "compact", "merge", "split"}
       /\ sc.load # <<>> /\ \A i \in DOMAIN sc.load : sc.load[i] # {} /\ sc.load[i] \subseteq Keys
       /\ DOMAIN sc.put = DOMAIN sc.load
       /\ \A i \in DOMAIN sc.put : \A k \in sc.put[i] :
            k \in Keys \ sc.load[i] /\ i = Max({j \in DOMAIN sc.load : j = 1 \/ Min(sc.load[j]) <= k})
       /\ \A i \in 2 .. Len(sc.load) : Max(sc.load[i - 1]) < Min(sc.load[i])
ASSUME BoundsAssumption ==
  /\ MaxAdjust \in Nat /\ MaxOps \in Nat /\ Endless \in BOOLEAN
  /\ ScanArgs \subseteq Keys \X (Nat \ {0})

VARIABLES scenario, \* the one of this behaviour
          root,    \* XIndex::root
          roots,   \* Root objects: groups[i].first, groups[i].second
          grp,     \* Group objects
          mem,     \* arrays of records and buffers: a record per key
          dead,    \* objects that were deleted
          need,    \* workers whose progress rcu_barrier still waits for
          bg,      \* local state of the background thread
          wk,      \* local state of the workers
          view,    \* history: the logical content of the index
          seen,    \* history: values the key of an operation has had
          recs     \* history: records the index has had during a scan

vars == <<scenario, root, roots, grp, mem, dead, need, bg, wk, view, seen, recs>>
heap == <<scenario, root, roots, grp, mem, dead>>

Null == 0
MinKey == 0
Wild == -1   \* a pointer read from behind an array
Absent == "absent"
bgThread == "bg"

-------------------------------------------------------------------------------
(* Records: a key is not in the store, or its AtomicVal holds a value, is  *)
(* marked removed, or points to the record of the same key in store s.     *)
NoRec == [is |-> "none"]
Val(v) == [is |-> "val", v |-> v]
Removed == [is |-> "removed"]
Ptr(s) == [is |-> "ptr", s |-> s]
NoStore == [k \in Keys |-> NoRec]

(* What AtomicVal::read returns: follow the pointer, if there is one. *)
Read(s, k) == IF mem[s][k].is = "ptr" THEN mem[mem[s][k].s][k] ELSE mem[s][k]
Live(s, k) == Read(s, k).is = "val"
(* The record that AtomicVal::update and remove change. *)
Target(s, k) == IF mem[s][k].is = "ptr" THEN mem[s][k].s ELSE s
WriteRec(s, k, rec) == mem' = [mem EXCEPT ![Target(s, k)][k] = rec]

Group(pivot, data, buffer, next) ==
  [pivot |-> pivot, data |-> data, buffer |-> buffer, buffer_temp |-> Null,
   buf_frozen |-> FALSE, next |-> next]

(* Result of the search in locate_group_pt1: the last slot whose pivot is  *)
(* at most the key; the first slot takes the keys below every pivot.       *)
SlotFor(r, k) ==
  LET le == {i \in DOMAIN roots[r] : roots[r][i].first <= k}
  IN IF le = {} THEN 1 ELSE Max(le)

(* The group an operation that runs alone would use, and what it would see *)
(* there: the logical content of the index.                                *)
GroupOf(k) ==
  LET back[i \in DOMAIN roots[root]] ==
        LET g == roots[root][i].second IN IF i > 1 /\ g = Null THEN back[i - 1] ELSE g
      walk[g \in DOMAIN grp] ==
        LET nx == grp[g].next
        IN IF nx # Null /\ grp[nx].pivot <= k THEN walk[nx] ELSE g
  IN walk[back[SlotFor(root, k)]]
View(k) ==
  LET g == grp[GroupOf(k)]
      places == SelectSeq(<<g.data, g.buffer, g.buffer_temp>>,
                          LAMBDA s : s # Null /\ Live(s, k))
  IN IF places = <<>> THEN Absent ELSE Read(Head(places), k).v

(* A group split or merge is under way. *)
Restructuring == bg.mid # Null \/ Len(bg.old) = 2
Restructured == <<Null, "restructured">>

(* The history: the content, the values that the key of an unfinished call *)
(* has had, and the records that a scan may return.                        *)
Unfinished(w) == wk[w].op \in {"get", "put", "remove"} /\ wk[w].pc # "done"
Records == {<<k, view[k]>> : k \in OpKeys}
             \cup (IF Restructuring THEN {Restructured} ELSE {})
Observe ==
  /\ view' = IF heap' = heap THEN view ELSE [k \in OpKeys |-> View(k)']
  /\ seen' = [w \in Workers |->
                IF Unfinished(w)' THEN seen[w] \cup {view[wk[w].key]'} ELSE {}]
  /\ recs' = [w \in Workers |-> IF wk'[w].op = "scan" THEN recs[w] \cup Records' ELSE {}]

Rcu == INSTANCE Quiescence WITH
         Slots <- Workers, Callers <- {bgThread},
         calling <- [c \in {bgThread} |-> bg.pc = "barrier"],
         exited <- FALSE
-------------------------------------------------------------------------------
(* Locals of Root::scan and of the group's scan_2_way or scan_3_way: the   *)
(* unread positions of the array are those of the keys from pos on, base   *)
(* is the record that was read ahead from it, buf and tmp are copies of    *)
(* the records of the buffers.                                             *)
NoScan == [root |-> Null, group_i |-> Null, remaining |-> 0, next_begin |-> MinKey,
           latest |-> MinKey, three_way |-> FALSE, pos |-> MinKey, base |-> <<>>,
           buf |-> <<>>, tmp |-> <<>>, result |-> <<>>]

(* Root::init and Group::init: one group per part of the loaded keys.      *)
(* Workers may have put keys into the buffers before.                      *)
Init ==
  /\ scenario \in Scenarios
  /\ root = 1
  /\ roots = << [i \in DOMAIN scenario.load |-> [first |-> Min(scenario.load[i]), second |-> i]] >>
  /\ grp = [i \in DOMAIN scenario.load |-> Group(Min(scenario.load[i]), 2 * i - 1, 2 * i, Null)]
  /\ mem = [s \in 1 .. 2 * Len(scenario.load) |->
              [k \in Keys |-> IF k \in (IF s % 2 = 1 THEN scenario.load ELSE scenario.put)[(s + 1) \div 2]
                                THEN Val("loaded") ELSE NoRec]]
  /\ dead = {}
  /\ need = [c \in {bgThread} |-> {}]
  /\ bg = [pc |-> "round", ret |-> "", loc |-> <<>>, old |-> <<>>, mid |-> Null,
           new |-> <<>>, nloc |-> <<>>, cur |-> <<>>, rec |-> NoRec, todo |-> {},
           update |-> FALSE, left |-> MaxAdjust]
  /\ wk = [w \in Workers |-> [pc |-> "idle", op |-> "none", key |-> Null, at |-> Null,
                              i |-> Null, res |-> Absent, begun |-> 0,
                              scanned |-> FALSE, scan |-> NoScan]]
  /\ view = [k \in OpKeys |-> View(k)]
  /\ seen = [w \in Workers |-> {}]
  /\ recs = [w \in Workers |-> {}]
-------------------------------------------------------------------------------
(* Worker threads. *)
Goto(w, pc) == wk' = [wk EXCEPT ![w].pc = pc]
Finish(w, r) == wk' = [wk EXCEPT ![w].pc = "done", ![w].res = r, ![w].at = Null]
Done(w, r) == Finish(w, r) /\ UNCHANGED <<heap, need, bg>>
Step(w, pc) == Goto(w, pc) /\ UNCHANGED <<heap, need, bg>>
At(w, pc, op) == wk[w].pc = pc /\ wk[w].op = op
g_(w) == grp[wk[w].at]

(* compact_phase_2 is in the middle of replace_pointer and holds the lock. *)
Locked(s, k) == bg.pc = "replace" /\ bg.cur = <<s, k>>

MayBegin(w) ==
  /\ wk[w].begun < MaxOps
  /\ wk[w].begun + 1 = MaxOps => \A v \in Workers \ {w} : wk[v].begun < MaxOps

(* A scan writes nothing: one per behaviour is enough. *)
MayScan == \A w \in Workers : ~wk[w].scanned

(* XIndex::get, put, remove, scan: rcu_progress, then the root's operation. *)
Begin(w) ==
  /\ wk[w].pc = "idle"
  /\ Endless \/ MayBegin(w)
  /\ \E op \in {o \in scenario.ops : o = "scan" => MayScan} :
       \E <<k, n>> \in IF op = "scan" THEN ScanArgs ELSE OpKeys \X {0} :
         wk' = [wk EXCEPT ![w].pc = "root", ![w].op = op, ![w].key = k,
                          ![w].scan.remaining = n, ![w].scan.next_begin = IF n = 0 THEN MinKey ELSE k,
                          ![w].scanned = @ \/ op = "scan",
                          ![w].begun = IF Endless THEN @ ELSE @ + 1]
  /\ UNCHANGED <<heap, bg>>
  /\ Rcu!ProgressSeen(w, {bgThread})
  /\ Observe

(* An operation on a key of a group outside the model: all that matters    *)
(* here is its rcu_progress.                                               *)
Elsewhere(w) ==
  /\ wk[w].pc = "idle"
  /\ UNCHANGED <<heap, bg, wk>>
  /\ Rcu!ProgressSeen(w, {bgThread})
  /\ Observe

(* Fault: the loop in XIndex::put does not call rcu_progress. *)
Retry_NoProgress(w) ==
  /\ wk[w].pc = "retry"
  /\ Goto(w, "root")
  /\ UNCHANGED <<heap, need, bg>> /\ Observe

(* The loop in XIndex::put. *)
Retry(w) ==
  /\ wk[w].pc = "retry"
  /\ Goto(w, "root")
  /\ UNCHANGED <<heap, bg>>
  /\ Rcu!ProgressSeen(w, {bgThread})
  /\ Observe

ReadRoot(w) ==
  /\ wk[w].pc = "root"
  /\ wk' = [wk EXCEPT ![w].pc = "slot", ![w].at = root]
  /\ UNCHANGED <<heap, need, bg>> /\ Observe

(* locate_group_pt1: predict, search the pivots, and step back from slots  *)
(* that a group merge has emptied.                                         *)
locate_group_pt1(w) ==
  /\ wk[w].pc = "slot"
  /\ LET r == wk[w].at
         i == IF wk[w].i = Null THEN SlotFor(r, wk[w].key) ELSE wk[w].i
         g == roots[r][i].second
     IN wk' = IF i > 1 /\ g = Null
                THEN [wk EXCEPT ![w].i = i - 1]
                ELSE [wk EXCEPT ![w].pc = "next", ![w].at = g, ![w].i = Null,
                                ![w].scan = IF wk[w].op = "scan"
                                              THEN [@ EXCEPT !.root = r, !.group_i = i] ELSE @]
  /\ UNCHANGED <<heap, need, bg>> /\ Observe

(* locate_group_pt2: one hop along the chain, or arrival. *)
locate_group_pt2(w) ==
  /\ wk[w].pc = "next"
  /\ LET nx == g_(w).next
     IN IF nx # Null /\ grp[nx].pivot <= wk[w].key
          THEN wk' = [wk EXCEPT ![w].at = nx]
          ELSE Goto(w, IF wk[w].op = "scan" THEN "s_loop" ELSE "array")
  /\ UNCHANGED <<heap, need, bg>> /\ Observe

(* Group::get: get_from_array, through the pointer if the record has one,  *)
(* then buffer, then buffer_temp.                                          *)
get_from_array(w) ==
  /\ At(w, "array", "get")
  /\ LET s == g_(w).data
         rec == mem[s][wk[w].key]
     IN /\ ~Locked(s, wk[w].key)
        /\ CASE rec.is = "val" -> Finish(w, rec.v)
             [] rec.is = "ptr" -> wk' = [wk EXCEPT ![w].pc = "deref", ![w].i = rec.s]
             [] OTHER -> Goto(w, "buffer")
  /\ UNCHANGED <<heap, need, bg>> /\ Observe

get_through_ptr(w) ==
  /\ wk[w].pc = "deref"
  /\ LET rec == mem[wk[w].i][wk[w].key]
     IN wk' = IF rec.is = "val"
                THEN [wk EXCEPT ![w].pc = "done", ![w].res = rec.v,
                                ![w].at = Null, ![w].i = Null]
                ELSE [wk EXCEPT ![w].pc = "buffer", ![w].i = Null]
  /\ UNCHANGED <<heap, need, bg>> /\ Observe

get_from_buffer(w) ==
  /\ At(w, "buffer", "get")
  /\ LET rec == mem[g_(w).buffer][wk[w].key]
     IN IF rec.is = "val" THEN Finish(w, rec.v) ELSE Goto(w, "temp")
  /\ UNCHANGED <<heap, need, bg>> /\ Observe

get_from_buffer_temp(w) ==
  /\ At(w, "temp", "get")
  /\ LET t == g_(w).buffer_temp
     IN IF t # Null /\ Live(t, wk[w].key)
          THEN Finish(w, mem[t][wk[w].key].v) ELSE Finish(w, Absent)
  /\ UNCHANGED <<heap, need, bg>> /\ Observe

(* Group::remove: the same places in the same order. *)
MarkRemoved(w, s) ==
  /\ WriteRec(s, wk[w].key, Removed)
  /\ Finish(w, "ok")
  /\ UNCHANGED <<scenario, root, roots, grp, dead, need, bg>>

remove_from_array(w) ==
  /\ At(w, "array", "remove")
  /\ LET s == g_(w).data
     IN /\ ~Locked(s, wk[w].key)
        /\ IF Live(s, wk[w].key) THEN MarkRemoved(w, s) ELSE Step(w, "buffer")
  /\ Observe

remove_from_buffer(w) ==
  /\ At(w, "buffer", "remove")
  /\ LET s == g_(w).buffer
     IN IF Live(s, wk[w].key) THEN MarkRemoved(w, s) ELSE Step(w, "temp")
  /\ Observe

remove_from_buffer_temp(w) ==
  /\ At(w, "temp", "remove")
  /\ LET s == g_(w).buffer_temp
     IN IF s # Null /\ Live(s, wk[w].key) THEN MarkRemoved(w, s) ELSE Done(w, Absent)
  /\ Observe

(* Group::put.  w writes its own identity as the value. *)
PutAt(w, s) ==
  /\ WriteRec(s, wk[w].key, Val(w))
  /\ Finish(w, "ok")
  /\ UNCHANGED <<scenario, root, roots, grp, dead, need, bg>>

update_to_array(w) ==
  /\ At(w, "array", "put")
  /\ LET s == g_(w).data
     IN /\ ~Locked(s, wk[w].key)
        /\ IF Live(s, wk[w].key) THEN PutAt(w, s) ELSE Step(w, "has_temp")
  /\ Observe

PutReadTemp(w) ==
  /\ wk[w].pc = "has_temp"
  /\ Step(w, IF g_(w).buffer_temp = Null THEN "frozen" ELSE "update")
  /\ Observe

PutReadFrozen(w) ==
  /\ wk[w].pc = "frozen"
  /\ IF g_(w).buf_frozen
       THEN wk' = [wk EXCEPT ![w].pc = "retry", ![w].at = Null]
       ELSE Goto(w, "insert")
  /\ UNCHANGED <<heap, need, bg>> /\ Observe

insert_to_buffer(w) ==
  /\ wk[w].pc = "insert"
  /\ PutAt(w, g_(w).buffer)
  /\ Observe

update_to_buffer(w) ==
  /\ wk[w].pc = "update"
  /\ IF Live(g_(w).buffer, wk[w].key)
       THEN PutAt(w, g_(w).buffer) ELSE Step(w, "insert_temp")
  /\ Observe

insert_to_buffer_temp(w) ==
  /\ wk[w].pc = "insert_temp"
  /\ PutAt(w, g_(w).buffer_temp)
  /\ Observe

(* Root::scan.  s is the new value of its locals. *)
Scan(w, pc, s) == wk' = [wk EXCEPT ![w].pc = pc, ![w].scan = s]
sc_(w) == wk[w].scan

(* Fault: what read_ignoring_ptr answers is ignored. *)
CopyOf_Removed(s, b) ==
  LET ks == SetToSortSeq({k \in Keys : k >= b /\ mem[s][k] # NoRec}, <)
  IN [i \in DOMAIN ks |-> <<ks[i], IF Live(s, ks[i]) THEN Read(s, ks[i]).v ELSE "stale">>]

(* The records that are live in store s from key b on, in key order: what  *)
(* DataSource copies.  The buffers of an instance have one leaf.           *)
CopyOf(s, b) ==
  LET ks == SetToSortSeq({k \in Keys : k >= b /\ Live(s, k)}, <)
  IN [i \in DOMAIN ks |-> <<ks[i], Read(s, ks[i]).v>>]

(* Fault: a group is scanned whenever it is met. *)
Unvisited_Always(w) == TRUE

(* "avoid re-entry".  latest starts at key_t::min(), so a group with that  *)
(* pivot counts as visited.                                                *)
Unvisited(w) == g_(w).pivot > sc_(w).latest

ScanMore(w) == sc_(w).remaining > 0 /\ wk[w].at # Null /\ Unvisited(w)

(* Fault: the second buffer is not looked at. *)
ScanGroup_TwoWay(w) ==
  /\ wk[w].pc = "s_loop" /\ ScanMore(w)
  /\ Scan(w, "s_buf", [sc_(w) EXCEPT !.pos = sc_(w).next_begin])
  /\ UNCHANGED <<heap, need, bg>> /\ Observe

(* group->scan reads buffer_temp once to choose its variant. *)
ScanGroup(w) ==
  /\ wk[w].pc = "s_loop" /\ ScanMore(w)
  /\ Scan(w, "s_buf", [sc_(w) EXCEPT !.three_way = g_(w).buffer_temp # Null,
                                     !.pos = sc_(w).next_begin])
  /\ UNCHANGED <<heap, need, bg>> /\ Observe

(* group_i++ and groups[group_i].second, which after the last slot is      *)
(* whatever lies behind the array; then the condition of the outer loop.   *)
ScanSlot(w) ==
  /\ wk[w].pc = "s_loop" /\ ~ScanMore(w)
  /\ LET r == roots[sc_(w).root]
         i == sc_(w).group_i + 1
         end == sc_(w).remaining = 0 \/ i > Len(r)
     IN wk' = [wk EXCEPT ![w].at = IF i \in DOMAIN r THEN r[i].second ELSE Wild,
                         ![w].scan.group_i = i,
                         ![w].pc = IF end THEN "done" ELSE @,
                         ![w].res = IF end THEN "ok" ELSE @]
  /\ UNCHANGED <<heap, need, bg>> /\ Observe

ScanCopyBuffer(w) ==
  /\ wk[w].pc = "s_buf"
  /\ Scan(w, IF sc_(w).three_way THEN "s_tmp" ELSE "s_array",
          [sc_(w) EXCEPT !.buf = CopyOf(g_(w).buffer, sc_(w).next_begin)])
  /\ UNCHANGED <<heap, need, bg>> /\ Observe

ScanCopyTemp(w) ==
  /\ wk[w].pc = "s_tmp"
  /\ Scan(w, "s_array", [sc_(w) EXCEPT !.tmp = CopyOf(g_(w).buffer_temp, sc_(w).next_begin)])
  /\ UNCHANGED <<heap, need, bg>> /\ Observe

(* ArrayDataSource::advance_to_next_valid: one record of the array, with   *)
(* one more read if it is a pointer.                                       *)
ArrayAhead(w) == {k \in Keys : k >= sc_(w).pos /\ mem[g_(w).data][k] # NoRec}
Advanced(w, k, rec) ==
  wk' = [wk EXCEPT ![w].pc = IF rec.is = "val" THEN "s_merge" ELSE "s_array", ![w].i = Null,
                   ![w].scan.pos = k + 1,
                   ![w].scan.base = IF rec.is = "val" THEN <<<<k, rec.v>>>> ELSE <<>>]

ScanArray(w) ==
  /\ wk[w].pc = "s_array"
  /\ IF ArrayAhead(w) = {} THEN Goto(w, "s_merge")
     ELSE LET k == Min(ArrayAhead(w))
              rec == mem[g_(w).data][k]
          IN /\ ~Locked(g_(w).data, k)
             /\ IF rec.is = "ptr"
                  THEN wk' = [wk EXCEPT ![w].pc = "s_deref", ![w].i = rec.s]
                  ELSE Advanced(w, k, rec)
  /\ UNCHANGED <<heap, need, bg>> /\ Observe

ScanThroughPtr(w) ==
  /\ wk[w].pc = "s_deref"
  /\ LET k == Min(ArrayAhead(w)) IN Advanced(w, k, mem[wk[w].i][k])
  /\ UNCHANGED <<heap, need, bg>> /\ Observe

(* The source whose record comes next: the sources that have one are       *)
(* compared two by two, or all three in the first loop of scan_3_way.      *)
Sources(w) == {src \in {"base", "buf", "tmp"} : sc_(w)[src] # <<>>}
NextSource(w) ==
  LET Before(x, y) == Head(sc_(w)[x])[1] < Head(sc_(w)[y])[1]
      later == CHOOSE y \in Sources(w) \ {"base"} : y = "tmp" \/ "tmp" \notin Sources(w)
      First(x) == \A y \in Sources(w) \ {x} : Before(x, y)
  IN CASE "base" \in Sources(w) /\ First("base") -> "base"
       [] "buf" \in Sources(w) /\ First("buf") -> "buf"
       [] OTHER -> later

(* Group::scan ends before the key_t::max() that it passes as end. *)
InRange(w) == Sources(w) # {} /\ Head(sc_(w)[NextSource(w)])[1] < MaxKey

ScanEmit(w) ==
  /\ wk[w].pc = "s_merge" /\ sc_(w).remaining > 0 /\ InRange(w)
  /\ LET src == NextSource(w)
     IN Scan(w, IF src = "base" THEN "s_array" ELSE "s_merge",
             [sc_(w) EXCEPT ![src] = Tail(@), !.remaining = @ - 1,
                            !.result = Append(@, Head(sc_(w)[src]))])
  /\ UNCHANGED <<heap, need, bg>> /\ Observe

(* The end of Group::scan, and group = group->next. *)
ScanNext(w) ==
  /\ wk[w].pc = "s_merge" /\ (sc_(w).remaining = 0 \/ ~InRange(w))
  /\ wk' = [wk EXCEPT ![w].pc = "s_loop", ![w].at = g_(w).next,
                      ![w].scan = [@ EXCEPT !.latest = g_(w).pivot, !.next_begin = MinKey,
                                            !.pos = MinKey, !.three_way = FALSE, !.base = <<>>, !.buf = <<>>, !.tmp = <<>>]]
  /\ UNCHANGED <<heap, need, bg>> /\ Observe

ScanStep(w) ==
  \/ ScanGroup(w) \/ ScanSlot(w) \/ ScanCopyBuffer(w) \/ ScanCopyTemp(w)
  \/ ScanArray(w) \/ ScanThroughPtr(w) \/ ScanEmit(w) \/ ScanNext(w)

Return(w) ==
  /\ wk[w].pc = "done"
  /\ wk' = [wk EXCEPT ![w].pc = "idle", ![w].op = "none", ![w].key = Null, ![w].at = Null,
                      ![w].res = Absent, ![w].scan = NoScan]
  /\ UNCHANGED <<heap, need, bg>> /\ Observe

WorkerStep(w) ==
  \/ Retry(w) \/ ReadRoot(w) \/ locate_group_pt1(w) \/ locate_group_pt2(w)
  \/ get_from_array(w) \/ get_through_ptr(w)
  \/ get_from_buffer(w) \/ get_from_buffer_temp(w)
  \/ remove_from_array(w) \/ remove_from_buffer(w) \/ remove_from_buffer_temp(w)
  \/ update_to_array(w) \/ PutReadTemp(w) \/ PutReadFrozen(w) \/ insert_to_buffer(w)
  \/ update_to_buffer(w) \/ insert_to_buffer_temp(w)
  \/ ScanStep(w) \/ Return(w)
-------------------------------------------------------------------------------
(* The background thread: do_adjustment, and the master's root update.  A  *)
(* location <<i, g>> is the pointer variable it may overwrite: the slot i  *)
(* of the root when g is Null, else the next field of group g, met while   *)
(* following the chain of slot i.                                          *)
Deref(loc) == IF loc[2] = Null THEN roots[root][loc[1]].second ELSE grp[loc[2]].next
StoredRoots(loc, g) ==
  IF loc[2] = Null THEN [roots EXCEPT ![root][loc[1]].second = g] ELSE roots
StoredNext(gs, loc, g) == IF loc[2] = Null THEN gs ELSE [gs EXCEPT ![loc[2]].next = g]

(* Replace the groups by gs and make the pointer at loc point to g. *)
Publish(gs, loc, g) ==
  /\ grp' = StoredNext(gs, loc, g)
  /\ roots' = StoredRoots(loc, g)

(* memory_fence(); rcu_barrier(); then go on at ret. *)
Barrier(b, ret) ==
  /\ bg' = [b EXCEPT !.pc = "barrier", !.ret = ret]
  /\ Rcu!Call(bgThread)
BgGoto(b, pc) == bg' = [b EXCEPT !.pc = pc] /\ UNCHANGED need

LeaveBarrier ==
  /\ bg.pc = "barrier"
  /\ bg' = [bg EXCEPT !.pc = bg.ret, !.ret = ""]
  /\ Rcu!Return(bgThread)
  /\ UNCHANGED <<heap, wk>> /\ Observe

(* started is set by the master; the thread begins with its first slot. *)
StartRound ==
  /\ bg.pc = "round"
  /\ bg.left > 0
  /\ BgGoto([bg EXCEPT !.loc = <<1, Null>>, !.update = FALSE], "visit")
  /\ UNCHANGED <<heap, wk>> /\ Observe

(* End of a slot's chain: the next slot, or the end of the round. *)
NextSlot ==
  /\ bg.pc = "visit"
  /\ Deref(bg.loc) = Null
  /\ IF bg.loc[1] < Len(roots[root])
       THEN BgGoto([bg EXCEPT !.loc = <<bg.loc[1] + 1, Null>>], "visit")
       ELSE BgGoto([bg EXCEPT !.loc = <<>>], "finish")
  /\ UNCHANGED <<heap, wk>> /\ Observe

(* No threshold is exceeded: do next (in the chain). *)
NoAdjustment ==
  /\ bg.pc = "visit"
  /\ Deref(bg.loc) # Null
  /\ BgGoto([bg EXCEPT !.loc = <<bg.loc[1], Deref(bg.loc)>>], "visit")
  /\ UNCHANGED <<heap, wk>> /\ Observe

May(kind) ==
  /\ bg.pc = "visit"
  /\ Deref(bg.loc) # Null
  /\ kind \in scenario.kinds
  /\ bg.left > 0

(* split_model and merge_model differ in the models only: a new group over *)
(* the same array and buffers takes the old one's place.                   *)
ModelChange ==
  /\ May("model")
  /\ LET g == Deref(bg.loc)
     IN /\ Publish(Append(grp, [grp[g] EXCEPT !.buf_frozen = FALSE]), bg.loc, Len(grp) + 1)
        /\ Barrier([bg EXCEPT !.old = <<g>>, !.left = @ - 1], "delete")
  /\ UNCHANGED <<scenario, root, mem, dead, wk>> /\ Observe

DeleteOld ==
  /\ bg.pc = "delete"
  /\ dead' = dead \cup {<<"group", bg.old[1]>>}
  /\ BgGoto([bg EXCEPT !.old = <<>>], "visit")
  /\ UNCHANGED <<scenario, root, roots, grp, mem, wk>> /\ Observe

(* Fault: merge_group does not freeze next_group. *)
Freeze_FirstOnly(gs, b) ==
  /\ grp' = [grp EXCEPT ![gs[1]].buf_frozen = TRUE]
  /\ Barrier([b EXCEPT !.old = gs, !.left = @ - 1], "temp")

(* compact_phase_1 and merge_group begin alike: freeze, then a barrier.    *)
Freeze(gs, b) ==
  /\ grp' = [g \in DOMAIN grp |->
               IF g \in ToSet(gs) THEN [grp[g] EXCEPT !.buf_frozen = TRUE] ELSE grp[g]]
  /\ Barrier([b EXCEPT !.old = gs, !.left = @ - 1], "temp")

compact_freeze ==
  /\ May("compact")
  /\ Freeze(<<Deref(bg.loc)>>, bg)
  /\ UNCHANGED <<scenario, root, roots, mem, dead, wk>> /\ Observe

(* The group after g in its chain, or the head of the following slot. *)
NextLoc ==
  IF grp[Deref(bg.loc)].next # Null THEN <<bg.loc[1], Deref(bg.loc)>>
  ELSE <<bg.loc[1] + 1, Null>>
HasNext == NextLoc[2] # Null \/ NextLoc[1] <= Len(roots[root])

merge_freeze ==
  /\ May("merge")
  /\ HasNext
  /\ Deref(NextLoc) # Null
  /\ Freeze(<<Deref(bg.loc), Deref(NextLoc)>>, [bg EXCEPT !.nloc = NextLoc])
  /\ UNCHANGED <<scenario, root, roots, mem, dead, wk>> /\ Observe

(* Records of array and buffer that merge_refs_internal walks over. *)
RefsOf(g) ==
  {<<s, k>> \in {grp[g].data, grp[g].buffer} \X Keys : mem[s][k] # NoRec}

(* After the barrier: a second buffer for the inserts that find the first  *)
(* one frozen, and the new group, still private.                           *)
NewTemp ==
  /\ bg.pc = "temp"
  /\ LET t == Len(mem) + 1
         n == Len(grp) + 1
         gs == [g \in DOMAIN grp |-> IF g \in ToSet(bg.old)
                                       THEN [grp[g] EXCEPT !.buffer_temp = t] ELSE grp[g]]
     IN /\ mem' = mem \o <<NoStore, NoStore>>
        /\ grp' = Append(gs, Group(grp[bg.old[1]].pivot, t + 1, t, grp[Last(bg.old)].next))
        /\ BgGoto([bg EXCEPT !.new = <<n>>,
                             !.todo = UNION {RefsOf(g) : g \in ToSet(bg.old)}], "merge")
  /\ UNCHANGED <<scenario, root, roots, dead, wk>> /\ Observe

(* split_group_pt1: two groups over the old array and buffer, frozen, each *)
(* with a second buffer of its own, replace the old group at once.         *)
SortedKeys(s) == SetToSortSeq({k \in Keys : mem[s][k] # NoRec}, <)
split_group_pt1 ==
  /\ May("split")
  /\ SortedKeys(grp[Deref(bg.loc)].data) # <<>>
  /\ LET g == Deref(bg.loc)
         n == Len(grp) + 1
         t == Len(mem) + 1
         keys == SortedKeys(grp[g].data)
         half == [grp[g] EXCEPT !.buf_frozen = TRUE]
     IN /\ mem' = mem \o <<NoStore, NoStore>>
        /\ Publish(grp \o << [half EXCEPT !.buffer_temp = t, !.next = n + 1],
                             [half EXCEPT !.buffer_temp = t + 1,
                                          !.pivot = keys[Len(keys) \div 2 + 1]] >>,
                   bg.loc, n)
        /\ Barrier([bg EXCEPT !.old = <<g>>, !.mid = n, !.left = @ - 1], "split2")
  /\ UNCHANGED <<scenario, root, dead, wk>> /\ Observe

(* split_group_pt2: merge_refs_n_split into two new arrays. *)
split_group_pt2 ==
  /\ bg.pc = "split2"
  /\ LET m1 == grp[bg.mid]
         m2 == grp[bg.mid + 1]
         n == Len(grp) + 1
         d == Len(mem) + 1
     IN /\ mem' = mem \o <<NoStore, NoStore>>
        /\ grp' = grp \o << Group(m1.pivot, d, m1.buffer_temp, n + 1),
                            Group(m2.pivot, d + 1, m2.buffer_temp, m2.next) >>
        /\ BgGoto([bg EXCEPT !.new = <<n, n + 1>>, !.todo = RefsOf(bg.mid)], "merge")
  /\ UNCHANGED <<scenario, root, roots, dead, wk>> /\ Observe

(* The new group whose array receives the reference to key k. *)
NewFor(k) ==
  IF Len(bg.new) = 2 /\ grp[bg.new[2]].pivot <= k THEN bg.new[2] ELSE bg.new[1]

(* merge_refs_internal: each source is read in key order; a record that is *)
(* not removed yields a pointer to it in the new array.                    *)
merge_refs_internal ==
  /\ bg.pc = "merge"
  /\ \E <<s, k>> \in bg.todo :
       /\ \A <<t, j>> \in bg.todo : t = s => k <= j
       /\ mem' = IF Live(s, k) THEN [mem EXCEPT ![grp[NewFor(k)].data][k] = Ptr(s)] ELSE mem
       /\ BgGoto([bg EXCEPT !.todo = @ \ {<<s, k>>}], "merge")
  /\ UNCHANGED <<scenario, root, roots, grp, dead, wk>> /\ Observe

(* *group = new_group, then a barrier; a group merge first redirects the   *)
(* second pointer as well.                                                 *)
PublishNew ==
  /\ bg.pc = "merge"
  /\ bg.todo = {}
  /\ Publish(grp, bg.loc, bg.new[1])
  /\ IF Len(bg.old) = 2 THEN BgGoto(bg, "publish_next") ELSE Barrier(bg, "refs")
  /\ UNCHANGED <<scenario, root, mem, dead, wk>> /\ Observe

(* Fault: no barrier before the old next is nullified. *)
PublishNext_NoBarrier ==
  /\ bg.pc = "publish_next"
  /\ Publish(grp, bg.nloc, bg.new[1])
  /\ BgGoto(bg, "nullify")
  /\ UNCHANGED <<scenario, root, mem, dead, wk>> /\ Observe

PublishNext ==
  /\ bg.pc = "publish_next"
  /\ Publish(grp, bg.nloc, bg.new[1])
  /\ Barrier(bg, "nullify")
  /\ UNCHANGED <<scenario, root, mem, dead, wk>> /\ Observe

NullifyNext ==
  /\ bg.pc = "nullify"
  /\ Publish(grp, bg.nloc, Null)
  /\ BgGoto([bg EXCEPT !.nloc = <<>>], "refs")
  /\ UNCHANGED <<scenario, root, mem, dead, wk>> /\ Observe

(* Fault: compact_phase_2 skips the records that were removed meanwhile. *)
StartPhase2_LiveOnly ==
  /\ bg.pc = "refs"
  /\ BgGoto([bg EXCEPT !.todo =
       {<<s, k>> \in {grp[g].data : g \in ToSet(bg.new)} \X Keys :
          mem[s][k] # NoRec /\ Live(s, k)}], "phase2")
  /\ UNCHANGED <<heap, wk>> /\ Observe

(* compact_phase_2: replace_pointer on every record of the new arrays,     *)
(* under the record's lock: read through the pointer, then overwrite it.   *)
StartPhase2 ==
  /\ bg.pc = "refs"
  /\ BgGoto([bg EXCEPT !.todo =
       {<<s, k>> \in {grp[g].data : g \in ToSet(bg.new)} \X Keys : mem[s][k] # NoRec}], "phase2")
  /\ UNCHANGED <<heap, wk>> /\ Observe

ReplaceRead ==
  /\ bg.pc = "phase2"
  /\ \E <<s, k>> \in bg.todo :
       /\ \A <<t, j>> \in bg.todo : k <= j
       /\ bg' = [bg EXCEPT !.pc = "replace", !.cur = <<s, k>>, !.rec = Read(s, k)]
  /\ UNCHANGED <<heap, need, wk>> /\ Observe

ReplaceWrite ==
  /\ bg.pc = "replace"
  /\ mem' = [mem EXCEPT ![bg.cur[1]][bg.cur[2]] = bg.rec]
  /\ BgGoto([bg EXCEPT !.cur = <<>>, !.rec = NoRec, !.todo = @ \ {bg.cur}], "phase2")
  /\ UNCHANGED <<scenario, root, roots, grp, dead, wk>> /\ Observe

(* Fault: the old data is freed without the last barrier. *)
EndPhase2_NoBarrier ==
  /\ bg.pc = "phase2"
  /\ bg.todo = {}
  /\ BgGoto(bg, "free")
  /\ UNCHANGED <<heap, wk>> /\ Observe

EndPhase2 ==
  /\ bg.pc = "phase2"
  /\ bg.todo = {}
  /\ Barrier(bg, "free")
  /\ UNCHANGED <<heap, wk>> /\ Observe

(* free_data, free_buffer and delete of the replaced groups. *)
FreeOld ==
  /\ bg.pc = "free"
  /\ dead' = dead \cup {<<"group", g>> : g \in ToSet(bg.old)}
                  \cup {<<"store", grp[g].data>> : g \in ToSet(bg.old)}
                  \cup {<<"store", grp[g].buffer>> : g \in ToSet(bg.old)}
                  \cup (IF bg.mid = Null THEN {}
                        ELSE {<<"group", bg.mid>>, <<"group", bg.mid + 1>>})
  /\ BgGoto([bg EXCEPT !.loc = <<bg.loc[1], Last(bg.new)>>, !.old = <<>>, !.new = <<>>,
                       !.mid = Null, !.update = @ \/ Len(bg.old) + Len(bg.new) > 2],
            "visit")
  /\ UNCHANGED <<scenario, root, roots, grp, mem, wk>> /\ Observe

(* create_new_root: one slot per group.                                    *)
Chain(g) ==
  LET from[h \in {Null} \cup DOMAIN grp] ==
        IF h = Null THEN <<>> ELSE <<h>> \o from[grp[h].next]
  IN from[g]

(* adjust_rmi calls train_rmi, which deletes the second stage models: the  *)
(* new root has copied the pointer to them from the old one.               *)
train_rmi == dead' = dead \cup {<<"rmi", root>>}

create_new_root ==
  /\ bg.pc = "finish"
  /\ bg.update
  /\ LET gs == FlattenSeq([i \in DOMAIN roots[root] |-> Chain(roots[root][i].second)])
     IN roots' = Append(roots, [i \in DOMAIN gs |->
                                  [first |-> grp[gs[i]].pivot, second |-> gs[i]]])
  /\ train_rmi
  /\ BgGoto(bg, "swap")
  /\ UNCHANGED <<scenario, root, grp, mem, wk>> /\ Observe

SwapRoot ==
  /\ bg.pc = "swap"
  /\ root' = Len(roots)
  /\ Barrier(bg, "trim")
  /\ UNCHANGED <<scenario, roots, grp, mem, dead, wk>> /\ Observe

(* trim_root, delete old_root, and the barrier that ends the round. *)
trim_root ==
  /\ bg.pc = "trim"
  /\ grp' = [g \in DOMAIN grp |->
               IF \E i \in DOMAIN roots[root] : roots[root][i].second = g
                 THEN [grp[g] EXCEPT !.next = Null] ELSE grp[g]]
  /\ dead' = dead \cup {<<"root", root - 1>>}
  /\ Barrier(bg, "round")
  /\ UNCHANGED <<scenario, root, roots, mem, wk>> /\ Observe

NoRootUpdate ==
  /\ bg.pc = "finish"
  /\ ~bg.update
  /\ Barrier(bg, "round")
  /\ UNCHANGED <<heap, wk>> /\ Observe

BgStep ==
  \/ LeaveBarrier \/ StartRound \/ NextSlot \/ NoAdjustment
  \/ ModelChange \/ DeleteOld
  \/ compact_freeze \/ merge_freeze \/ NewTemp
  \/ split_group_pt1 \/ split_group_pt2
  \/ merge_refs_internal \/ PublishNew \/ PublishNext \/ NullifyNext
  \/ StartPhase2 \/ ReplaceRead \/ ReplaceWrite \/ EndPhase2 \/ FreeOld
  \/ create_new_root \/ SwapRoot \/ trim_root \/ NoRootUpdate

Next == BgStep \/ \E w \in Workers : Begin(w) \/ Elsewhere(w) \/ WorkerStep(w)

Spec == Init /\ [][Next]_vars

(* Threads are scheduled: a worker inside an operation takes its next      *)
(* step, and so does the background thread.  A worker need not begin       *)
(* another operation.                                                      *)
FairSpec == Spec /\ WF_vars(BgStep) /\ \A w \in Workers : WF_vars(WorkerStep(w))

(* In addition every worker keeps calling the index. *)
BusySpec == FairSpec /\ \A w \in Workers : WF_vars(Begin(w))
-------------------------------------------------------------------------------
(* Every variable has its type. *)
TypeOK ==
  LET Values == {"loaded"} \cup Workers
      Recs == [is : {"none", "removed"}] \cup [is : {"val"}, v : Values]
                   \cup [is : {"ptr"}, s : DOMAIN mem]
      GroupPtr == {Null} \cup DOMAIN grp
  IN /\ root \in DOMAIN roots
     /\ \A r \in DOMAIN roots : \A i \in DOMAIN roots[r] :
          roots[r][i] \in [first : Keys, second : GroupPtr]
     /\ \A g \in DOMAIN grp :
          grp[g] \in [pivot : Keys, data : DOMAIN mem, buffer : DOMAIN mem,
                      buffer_temp : {Null} \cup DOMAIN mem, buf_frozen : BOOLEAN,
                      next : GroupPtr]
     /\ \A s \in DOMAIN mem : mem[s] \in [Keys -> Recs]
     /\ need[bgThread] \subseteq Workers
     /\ \A w \in Workers : wk[w].key \in {Null} \cup Keys
     /\ \A w \in Workers : seen[w] \subseteq {Absent} \cup Values
     /\ \A w \in Workers :
          recs[w] \subseteq (Keys \X ({Absent} \cup Values)) \cup {Restructured}

(* Stores a worker reads or writes in its next step. *)
Touches(w) ==
  LET g == g_(w)
  IN CASE wk[w].pc = "array" -> {g.data, Target(g.data, wk[w].key)}
       [] wk[w].pc = "s_array" -> {g.data}
       [] wk[w].pc \in {"deref", "s_deref"} -> {wk[w].i}
       [] wk[w].pc \in {"buffer", "update", "insert", "s_buf"} -> {g.buffer}
       [] wk[w].pc \in {"temp", "insert_temp", "s_tmp"} -> {g.buffer_temp} \ {Null}
       [] OTHER -> {}

(* "make sure no one is accessing the old data" (Root::do_adjustment): no  *)
(* worker ever touches a root, a group, an array or a buffer that the      *)
(* background thread has freed, however its operation interleaves with the *)
(* structure updates, nor follows a pointer from behind the last slot.     *)
NoUseAfterFree ==
  \A w \in Workers :
    /\ wk[w].pc = "slot" => <<"root", wk[w].at>> \notin dead
    /\ wk[w].pc = "s_loop" => <<"root", sc_(w).root>> \notin dead
    /\ wk[w].pc \in {"next", "array", "deref", "buffer", "temp", "has_temp", "frozen",
                     "insert", "update", "insert_temp",
                     "s_loop", "s_buf", "s_tmp", "s_array", "s_deref", "s_merge"}
         => /\ wk[w].at # Wild /\ <<"group", wk[w].at>> \notin dead
            /\ wk[w].pc = "next" => <<"group", g_(w).next>> \notin dead
            /\ \A s \in Touches(w) : <<"store", s>> \notin dead

(* A worker that is about to predict in the root it read finds the second  *)
(* stage models of that root still allocated.                              *)
NoDanglingModels ==
  \A w \in Workers :
    wk[w].pc = "slot" /\ wk[w].i = Null => <<"rmi", wk[w].at>> \notin dead

(* The places of the group that serves key k in which the key is live. *)
PlacesOf(k) ==
  LET g == grp[GroupOf(k)] IN {s \in {g.data, g.buffer, g.buffer_temp} \ {Null} : Live(s, k)}

(* assert(base_key != buf_key) in merge_refs_internal and the scans,       *)
(* "since update are inplaced": in the group that serves a key, the key is *)
(* live in at most one of the array, the buffer and the second buffer.     *)
UpdatesInPlace == \A k \in OpKeys : Cardinality(PlacesOf(k)) <= 1

(* The freeze and its barrier keep updates in place during compactions,    *)
(* model changes and group merges.  Splits are not covered:                *)
(* split_group_pt1 publishes frozen halves while puts still insert in the  *)
(* old group, and UpdatesInPlace fails.                                    *)
OnePlace == "split" \in scenario.kinds \/ UpdatesInPlace

(* A pointer record points to a plain record of a store that still exists: *)
(* compact_phase_2 has resolved all pointers before the next merge makes   *)
(* new ones, and before the old stores are freed.                          *)
FlatPointers ==
  \A k \in Keys :
    LET rec == mem[grp[GroupOf(k)].data][k]
    IN rec.is = "ptr" => /\ mem[rec.s][k].is \in {"val", "removed"}
                         /\ <<"store", rec.s>> \notin dead

(* assert(split_pos != intermediate_size ...) in merge_refs_n_split: when  *)
(* a group has been split, the upper half received at least one record.    *)
UpperHalfNotEmpty ==
  bg.pc = "merge" /\ bg.todo = {} /\ Len(bg.new) = 2
    => \E k \in Keys : mem[grp[bg.new[2]].data][k] # NoRec

Map == INSTANCE ConcurrentMap WITH
         map <- view,
         Keys <- OpKeys,
         pend <- [w \in Workers |->
                    IF wk[w].pc = "idle" \/ wk[w].op = "scan" THEN [op |-> "none"]
                    ELSE [op |-> wk[w].op, key |-> wk[w].key,
                          done |-> wk[w].pc = "done", res |-> wk[w].res]]

(* XIndex is linearizable: get, put and remove behave as one atomic step   *)
(* each, while compactions, model changes, merges and root updates go on.  *)
ImplementsMap == Map!MSpec

(* A scan that has ended, its result, and the keys that were in the index  *)
(* from its beginning to its end.                                          *)
Scanned(w) == wk[w].op = "scan" /\ wk[w].pc = "done"
ResultKeys(w) == [i \in DOMAIN sc_(w).result |-> sc_(w).result[i][1]]
Stable(w) ==
  {k \in OpKeys : <<k, Absent>> \notin recs[w]}
    \cup (UNION Range(scenario.load \o scenario.put) \ OpKeys)

(* A scan returns no record that was never in the index while it ran, also *)
(* in the middle of compactions, splits, merges and root updates.          *)
ScanSound ==
  \A w \in Workers : Scanned(w) =>
    \A i \in DOMAIN sc_(w).result :
      LET rec == sc_(w).result[i]
      IN rec \in recs[w] \/ (rec[1] \notin OpKeys /\ rec[1] \in Stable(w) /\ rec[2] = "loaded")

(* "avoid re-entry" in Root::scan, "to avoid double read during merge" in  *)
(* scan_2_way and scan_3_way: unless a group split or merge overlaps it,   *)
(* a scan returns its records in key order, and none twice but for a key   *)
(* that was removed and put back while it ran.                             *)
ScanOrdered ==
  \A w \in Workers : Scanned(w) /\ Restructured \notin recs[w] =>
    LET keys == ResultKeys(w)
    IN \A i, j \in DOMAIN keys : i < j =>
         keys[i] < keys[j] \/ (keys[i] = keys[j] /\ keys[i] \notin Stable(w))

(* assert(buf_key != tmp_buf_key), "removed values are skipped": no key is *)
(* returned twice.                                                         *)
ScanNoRepeat ==
  \A w \in Workers : Scanned(w) /\ Restructured \notin recs[w] => IsInjective(ResultKeys(w))

(* Key k is below the range of the scan, in its result, or beyond the      *)
(* records that were asked for.                                            *)
Covers(w, k) ==
  \/ k < wk[w].key
  \/ k \in Range(ResultKeys(w))
  \/ sc_(w).remaining = 0 /\ \A j \in Range(ResultKeys(w)) : j < k

(* Unless a group split or merge overlaps it, a scan that begins in a      *)
(* group Root::scan does not take for visited leaves out no key of its     *)
(* range below key_t::max() that was in the index all the time.            *)
ScanComplete ==
  \A w \in Workers :
    Scanned(w) /\ Restructured \notin recs[w] /\ grp[GroupOf(wk[w].key)].pivot # MinKey =>
      \A k \in Stable(w) \ {MaxKey} : Covers(w, k)

(* What TestRead compares a scan with, "entries[i + j] == result[j]": all  *)
(* keys of the range.  It fails in a group whose pivot is key_t::min()     *)
(* and for the key key_t::max().                                           *)
ScanReturnsAll ==
  \A w \in Workers : Scanned(w) /\ Restructured \notin recs[w] =>
    \A k \in Stable(w) : Covers(w, k)

(* A put returns, however often it has to retry on a frozen buffer. *)
PutReturns ==
  \A w \in Workers : (wk[w].op = "put" /\ wk[w].pc # "idle") ~> (wk[w].pc = "done")
=================================================================================
