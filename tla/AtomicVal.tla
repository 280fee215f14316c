------------------------------- MODULE AtomicVal -------------------------------
(***************************************************************************)
(* The record word of XIndex: a value (or a pointer to another record) and *)
(* a status word with a version, a lock bit, a removed bit and a pointer   *)
(* bit.  Two records of one key are modelled, as they exist while a        *)
(* compaction is under way: "old", a plain record of the old array or      *)
(* buffer, and "new", which points to it until replace_pointer copies the  *)
(* value over.  A step is one load or store of a word.                     *)
(***************************************************************************)
EXTENDS Naturals

CONSTANTS Threads,     \* worker threads
          Ops,         \* operations the workers perform
          MaxVersion   \* bound: version of a record (60 bits in the code)

ASSUME VersionAssumption == MaxVersion \in Nat
ASSUME OpsAssumption == Ops \subseteq {"read", "read_ignoring_ptr", "update", "remove"}
ASSUME ThreadsAssumption == {"old", "loaded", "absent", "ok"} \cap Threads = {}

VARIABLES status,   \* status[c]: version, lock, removed and pointer bits
          val,      \* val[c]: a value or the name of the record pointed to
          th,       \* local state of the workers
          bg,       \* local state of the thread that runs compact_phase_2
          seen      \* history: contents an operation may answer with

vars == <<status, val, th, bg, seen>>

Cells == {"old", "new"}
Absent == "absent"
Unlocked(c) == ~status[c].lock

Fresh == [version |-> 0, lock |-> FALSE, removed |-> FALSE, ptr |-> FALSE]

(* The value an undisturbed read of the new record returns. *)
CellContent(c) == IF status[c].removed THEN Absent ELSE val[c]
Content == IF status["new"].ptr THEN CellContent("old") ELSE CellContent("new")
Observe ==
  seen' = [t \in Threads |-> IF th'[t].pc = "idle" THEN {} ELSE seen[t] \cup {Content'}]

Init ==
  /\ status = [c \in Cells |-> [Fresh EXCEPT !.ptr = c = "new"]]
  /\ val = [c \in Cells |-> IF c = "new" THEN "old" ELSE "loaded"]
  /\ th = [t \in Threads |-> [pc |-> "idle", op |-> "none", via |-> "none", cell |-> "none",
                              s |-> Fresh, v |-> Absent, res |-> Absent]]
  /\ bg = [pc |-> "wait", s |-> Fresh, v |-> Absent]
  /\ seen = [t \in Threads |-> {}]

Set(t, r) == th' = [th EXCEPT ![t] = r]
Goto(t, pc) == Set(t, [th[t] EXCEPT !.pc = pc])
Answer(t, r) == Set(t, [th[t] EXCEPT !.pc = "done", !.res = r, !.v = Absent, !.s = Fresh])
SetStatus(c, field, b) == status' = [status EXCEPT ![c][field] = b]

(* A worker whose group is the old one uses the old record; that stops     *)
(* before replace_pointer, behind an rcu_barrier.                          *)
Begin(t) ==
  /\ th[t].pc = "idle"
  /\ \E op \in Ops, c \in Cells :
       /\ c = "old" => bg.pc = "wait"
       /\ op = "read_ignoring_ptr" => c = "old"
       /\ op \in {"update", "remove"} => status[c].version < MaxVersion
       /\ Set(t, [th[t] EXCEPT !.op = op, !.via = c, !.cell = c,
                    !.pc = IF op \in {"update", "remove"} THEN "lock" ELSE "status"])
  /\ UNCHANGED <<status, val, bg>> /\ Observe

(* read and read_ignoring_ptr: status, value, status again. *)
LoadStatus(t) ==
  /\ th[t].pc = "status"
  /\ Set(t, [th[t] EXCEPT !.pc = "value", !.s = status[th[t].cell]])
  /\ UNCHANGED <<status, val, bg>> /\ Observe

LoadValue(t) ==
  /\ th[t].pc = "value"
  /\ Set(t, [th[t] EXCEPT !.v = val[th[t].cell],
               !.pc = IF th[t].op = "read_ignoring_ptr" /\ th[t].s.lock
                        THEN "status" ELSE "check"])
  /\ UNCHANGED <<status, val, bg>> /\ Observe

(* Fault: the lock bit is not checked. *)
Checked_NoLock(c, s, op) ==
  CASE s.version = status[c].version /\ s.ptr /\ op = "read" -> "follow"
    [] s.version # status[c].version -> "again"
    [] OTHER -> "return"

(* Outcome of the check of read: try again, follow the pointer, or return. *)
Checked(c, s, op) ==
  CASE op = "read" /\ status[c].lock -> "again"
    [] op = "read" /\ ~status[c].lock /\ s.version = status[c].version /\ s.ptr -> "follow"
    [] ~(op = "read" /\ status[c].lock) /\ s.version # status[c].version -> "again"
    [] OTHER -> "return"

(* Fault: the removed flag is not looked at. *)
read_check_IgnoresRemoved(t) ==
  /\ th[t].pc = "check"
  /\ LET r == th[t]
     IN CASE Checked(r.cell, r.s, r.op) = "again" -> Goto(t, "status")
          [] Checked(r.cell, r.s, r.op) = "follow" ->
               Set(t, [r EXCEPT !.pc = "status", !.cell = r.v])
          [] OTHER -> Answer(t, r.v)
  /\ UNCHANGED <<status, val, bg>> /\ Observe

read_check(t) ==
  /\ th[t].pc = "check"
  /\ LET r == th[t]
     IN CASE Checked(r.cell, r.s, r.op) = "again" -> Goto(t, "status")
          [] Checked(r.cell, r.s, r.op) = "follow" ->
               Set(t, [r EXCEPT !.pc = "status", !.cell = r.v])
          [] OTHER -> Answer(t, IF r.s.removed THEN Absent ELSE r.v)
  /\ UNCHANGED <<status, val, bg>> /\ Observe

(* update and remove: lock, act on the record or on the one it points to,  *)
(* bump the version, unlock.                                               *)
Lock(t) ==
  /\ th[t].pc = "lock"
  /\ Unlocked(th[t].cell)
  /\ SetStatus(th[t].cell, "lock", TRUE)
  /\ Goto(t, "act")
  /\ UNCHANGED <<val, bg>> /\ Observe

FollowToWrite(t) ==
  /\ th[t].pc = "act"
  /\ status[th[t].cell].ptr
  /\ Set(t, [th[t] EXCEPT !.pc = "lock", !.cell = val[th[t].cell]])
  /\ UNCHANGED <<status, val, bg>> /\ Observe

(* A thread writes its own identity as the value. *)
Act(t) ==
  /\ th[t].pc = "act"
  /\ LET c == th[t].cell
     IN /\ ~status[c].ptr
        /\ IF status[c].removed
             THEN UNCHANGED <<status, val>>
             ELSE IF th[t].op = "update"
                    THEN val' = [val EXCEPT ![c] = t] /\ UNCHANGED status
                    ELSE SetStatus(c, "removed", TRUE) /\ UNCHANGED val
        /\ Set(t, [th[t] EXCEPT !.pc = "version",
                     !.res = IF status[c].removed THEN Absent ELSE "ok"])
  /\ UNCHANGED bg /\ Observe

incr_version(t) ==
  /\ th[t].pc = "version"
  /\ SetStatus(th[t].cell, "version", status[th[t].cell].version + 1)
  /\ Goto(t, "unlock")
  /\ UNCHANGED <<val, bg>> /\ Observe

(* Fault: the record the write went through stays locked. *)
Unlock_InnerOnly(t) ==
  /\ th[t].pc = "unlock"
  /\ SetStatus(th[t].cell, "lock", FALSE)
  /\ Goto(t, "done")
  /\ UNCHANGED <<val, bg>> /\ Observe

Unlock(t) ==
  /\ th[t].pc = "unlock"
  /\ SetStatus(th[t].cell, "lock", FALSE)
  /\ Set(t, IF th[t].cell # th[t].via
              THEN [th[t] EXCEPT !.pc = "version", !.cell = th[t].via]
              ELSE [th[t] EXCEPT !.pc = "done"])
  /\ UNCHANGED <<val, bg>> /\ Observe

Return(t) ==
  /\ th[t].pc = "done"
  /\ Set(t, [th[t] EXCEPT !.pc = "idle", !.op = "none", !.via = "none", !.cell = "none",
                          !.res = Absent])
  /\ UNCHANGED <<status, val, bg>> /\ Observe

(* replace_pointer, run on the new record by compact_phase_2 once no       *)
(* worker can be in an operation it began on the old record.               *)
ReplaceLock ==
  /\ bg.pc = "wait"
  /\ \A t \in Threads : th[t].via # "old"
  /\ Unlocked("new")
  /\ SetStatus("new", "lock", TRUE)
  /\ bg' = [bg EXCEPT !.pc = "status"]
  /\ UNCHANGED <<val, th>> /\ Observe

ReplaceLoadStatus ==
  /\ bg.pc = "status"
  /\ bg' = [bg EXCEPT !.pc = "value", !.s = status["old"]]
  /\ UNCHANGED <<status, val, th>> /\ Observe

ReplaceLoadValue ==
  /\ bg.pc = "value"
  /\ bg' = [bg EXCEPT !.pc = "check", !.v = val["old"]]
  /\ UNCHANGED <<status, val, th>> /\ Observe

(* The read lands in the union that held the pointer. *)
ReplaceStore ==
  /\ bg.pc = "check"
  /\ IF Checked("old", bg.s, "read") = "again"
       THEN bg' = [bg EXCEPT !.pc = "status"] /\ UNCHANGED val
       ELSE bg' = [bg EXCEPT !.pc = "removed"] /\ val' = [val EXCEPT !["new"] = bg.v]
  /\ UNCHANGED <<status, th>> /\ Observe

(* Fault: the removed flag is not copied. *)
ReplaceSetRemoved_Skip ==
  /\ bg.pc = "removed"
  /\ bg' = [bg EXCEPT !.pc = "unset"]
  /\ UNCHANGED <<status, val, th>> /\ Observe

ReplaceSetRemoved ==
  /\ bg.pc = "removed"
  /\ SetStatus("new", "removed", bg.s.removed)
  /\ bg' = [bg EXCEPT !.pc = "unset"]
  /\ UNCHANGED <<val, th>> /\ Observe

unset_is_ptr ==
  /\ bg.pc = "unset"
  /\ SetStatus("new", "ptr", FALSE)
  /\ bg' = [bg EXCEPT !.pc = "version"]
  /\ UNCHANGED <<val, th>> /\ Observe

ReplaceVersion ==
  /\ bg.pc = "version"
  /\ SetStatus("new", "version", status["new"].version + 1)
  /\ bg' = [bg EXCEPT !.pc = "unlock"]
  /\ UNCHANGED <<val, th>> /\ Observe

ReplaceUnlock ==
  /\ bg.pc = "unlock"
  /\ SetStatus("new", "lock", FALSE)
  /\ bg' = [pc |-> "replaced", s |-> Fresh, v |-> Absent]
  /\ UNCHANGED <<val, th>> /\ Observe

Step(t) ==
  \/ LoadStatus(t) \/ LoadValue(t) \/ read_check(t)
  \/ Lock(t) \/ FollowToWrite(t) \/ Act(t) \/ incr_version(t) \/ Unlock(t)
  \/ Return(t)

replace_pointer ==
  \/ ReplaceLock \/ ReplaceLoadStatus \/ ReplaceLoadValue \/ ReplaceStore
  \/ ReplaceSetRemoved \/ unset_is_ptr \/ ReplaceVersion \/ ReplaceUnlock

Next == replace_pointer \/ \E t \in Threads : Begin(t) \/ Step(t)

Spec == Init /\ [][Next]_vars
--------------------------------------------------------------------------------
Contents == Threads \cup {"loaded", Absent}
Status == [version : Nat, lock : BOOLEAN, removed : BOOLEAN, ptr : BOOLEAN]

(* Records hold values, only the new one ever a pointer. *)
TypeOK ==
  /\ status \in [Cells -> Status]
  /\ val \in [Cells -> Contents \cup {"old"}]
  /\ \A t \in Threads :
       /\ th[t].pc \in {"idle", "status", "value", "check", "lock", "act", "version",
                        "unlock", "done"}
       /\ th[t].cell \in Cells \cup {"none"} /\ th[t].via \in Cells \cup {"none"}
       /\ th[t].s \in Status
       /\ th[t].res \in Contents \cup {"ok"}
  /\ seen \in [Threads -> SUBSET Contents]

(* "atomically read the value and the `removed` flag": an operation        *)
(* answers with a pair the record had at one moment of the operation, and  *)
(* an update or removal fails only if the key was absent at some moment,   *)
(* and succeeds only if it was present.                                    *)
AtomicAnswers ==
  \A t \in Threads :
    th[t].pc = "done" =>
      IF th[t].res = "ok" THEN seen[t] # {Absent} ELSE th[t].res \in seen[t]

(* No read follows a word that is not a pointer, though replace_pointer    *)
(* overwrites the pointer before it clears the pointer bit; and no reader  *)
(* or writer meets a record that is both a pointer and removed (the        *)
(* asserts of read, update and remove).                                    *)
PointersAreFollowedSafely ==
  \A t \in Threads :
    LET c == th[t].cell
    IN /\ th[t].pc = "check" /\ Checked(c, th[t].s, th[t].op) = "follow"
            => th[t].v = "old" /\ ~th[t].s.removed
       /\ th[t].pc = "act" /\ status[c].ptr => val[c] = "old" /\ ~status[c].removed

(* What the key holds is changed only by a successful update or removal,   *)
(* never by replace_pointer, and a removed record is never revived.        *)
OnlyWritersChange ==
  [][Content' # Content =>
       /\ Content # Absent
       /\ \E t \in Threads : /\ th[t].pc = "act" /\ th'[t].res = "ok"
                             /\ Content' = IF th[t].op = "update" THEN t ELSE Absent]_vars

(* The records whose lock thread t holds: a write through a pointer keeps  *)
(* the lock of the record it came by.                                      *)
Holds(t) ==
  IF th[t].op \notin {"update", "remove"} \/ th[t].pc = "done" THEN {}
  ELSE (IF th[t].pc = "lock" THEN {} ELSE {th[t].cell})
         \cup (IF th[t].cell = th[t].via THEN {} ELSE {th[t].via})
ReplaceHolds == IF bg.pc \in {"wait", "replaced"} THEN {} ELSE {"new"}

(* The lock bits stay exact though unlock and incr_version are plain       *)
(* stores: a set bit has one owner, a clear bit none, and no owner of the  *)
(* old record's lock waits for another, so that the nested locks of update *)
(* and remove cannot deadlock with each other or with replace_pointer.     *)
LocksOwned ==
  /\ \A c \in Cells :
       LET owners == {t \in Threads : c \in Holds(t)}
       IN IF status[c].lock
            THEN IF c \in ReplaceHolds THEN owners = {} ELSE \E t \in owners : owners = {t}
            ELSE c \notin ReplaceHolds /\ owners = {}
  /\ \A t \in Threads : th[t].pc = "lock" => "old" \notin Holds(t)
================================================================================
