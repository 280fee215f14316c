---------------------------- MODULE AtomicVal_proofs ----------------------------
(***************************************************************************)
(* The record protocol is correct for any number of threads and versions.  *)
(* The inductive invariant says which thread may be where in the protocol  *)
(* (Control), what the two records hold at each stage of replace_pointer   *)
(* (Memory, Copy), who owns the lock bits (Locks), what a reader knows     *)
(* that has loaded a status word (LoadedBy), and what an operation has     *)
(* seen of the content (SeenBy).                                           *)
(***************************************************************************)
EXTENDS AtomicVal, TLAPS

Values == Threads \cup {"loaded"}
Reading == {"status", "value", "check"}
Writing == {"lock", "act", "version", "unlock"}
WriteOps == {"update", "remove"}
AllOps == {"read", "read_ignoring_ptr", "update", "remove"}

(* Before replace_pointer overwrites the pointer. *)
Before == {"wait", "status", "value", "check"}
BgPcs == Before \cup {"removed", "unset", "version", "unlock", "replaced"}

ThreadState ==
  [pc : {"idle", "done"} \cup Reading \cup Writing, op : AllOps \cup {"none"},
   via : Cells \cup {"none"}, cell : Cells \cup {"none"}, s : Status,
   v : Values \cup {"old", Absent}, res : Contents \cup {"ok"}]

Types ==
  /\ status \in [Cells -> Status]
  /\ val \in [Cells -> Values \cup {"old"}]
  /\ th \in [Threads -> ThreadState]
  /\ bg \in [pc : BgPcs, s : Status, v : Values \cup {"old", Absent}]

(* A thread reaches the old record by a pointer or in the old array; the   *)
(* latter ends before replace_pointer, and no writer is on the old record  *)
(* once that has begun.                                                    *)
ThreadControl(r, stage) ==
  /\ r.pc = "idle" => r.op = "none" /\ r.via = "none" /\ r.cell = "none"
  /\ r.pc # "idle" => r.via \in Cells /\ r.cell \in Cells
  /\ r.pc \in Reading => r.op \in {"read", "read_ignoring_ptr"}
  /\ r.op = "read_ignoring_ptr" => r.cell = "old"
  /\ r.pc \in Writing => r.op \in WriteOps
  /\ r.cell # r.via => r.cell = "old" /\ r.via = "new"
  /\ r.via = "old" => stage = "wait"
  /\ r.pc \in Writing /\ r.cell = "old" => stage = "wait"
Control == \A t \in Threads : ThreadControl(th[t], bg.pc)

(* What the records hold. *)
Memory ==
  /\ ~status["old"].ptr /\ val["old"] \in Values
  /\ bg.pc \in Before =>
       status["new"].ptr /\ ~status["new"].removed /\ val["new"] = "old"
  /\ bg.pc \notin Before => val["new"] \in Values
  /\ bg.pc \in {"removed", "unset"} => status["new"].ptr
  /\ bg.pc \in {"version", "unlock", "replaced"} => ~status["new"].ptr

(* What replace_pointer has read is what the old record holds. *)
Copy ==
  /\ bg.pc \in {"value", "check", "removed"} => bg.s = status["old"]
  /\ bg.pc = "check" => bg.v = val["old"]
  /\ bg.pc \in {"removed", "unset"} => val["new"] = val["old"]
  /\ bg.pc = "unset" => status["new"].removed = status["old"].removed

Locks ==
  /\ \A t \in Threads, c \in Cells : c \in Holds(t) => status[c].lock
  /\ \A t, u \in Threads : t # u => Holds(t) \cap Holds(u) = {}
  /\ \A c \in ReplaceHolds : status[c].lock /\ \A t \in Threads : c \notin Holds(t)
  /\ \A c \in Cells :
       status[c].lock => c \in ReplaceHolds \/ \E t \in Threads : c \in Holds(t)

(* A reader that saw the pointer bit holds the pointer, unless the record  *)
(* is locked by replace_pointer or has a new version since.                *)
LoadedBy(t) ==
  th[t].pc \in {"value", "check"} =>
    LET r == th[t]
    IN /\ r.s.version <= status[r.cell].version
       /\ ~r.s.ptr => ~status[r.cell].ptr
       /\ r.s.ptr =>
            /\ r.cell = "new"
            /\ bg.pc \in Before => ~r.s.removed /\ (r.pc = "check" => r.v = "old")
            /\ bg.pc \in {"unlock", "replaced"} => r.s.version < status["new"].version

(* A reader on the old record has seen its content, a reader that saw no   *)
(* pointer bit has seen what its record holds, and a result was seen.      *)
SeenBy(t) ==
  LET r == th[t]
  IN /\ r.pc # "idle" => Content \in seen[t]
     /\ r.pc \in Reading /\ r.cell = "old" => CellContent("old") \in seen[t]
     /\ r.pc \in {"value", "check"} /\ ~r.s.ptr =>
          IF r.s.removed THEN Absent \in seen[t] ELSE val[r.cell] \in seen[t]
     /\ r.pc = "check" /\ ~r.s.ptr /\ ~r.s.removed => r.v \in seen[t]
     /\ r.pc \in {"version", "unlock", "done"} =>
          IF r.res = "ok" THEN \E x \in seen[t] : x # Absent ELSE r.res \in seen[t]

Seen == seen \in [Threads -> SUBSET Contents]
Readers == \A t \in Threads : LoadedBy(t) /\ SeenBy(t)

RecordInv == Types /\ Control /\ Memory /\ Copy /\ Locks /\ Seen /\ Readers
--------------------------------------------------------------------------------
(* The content is a value or absent, also when the new record points to    *)
(* the old one.                                                            *)
LEMMA ContentType == Types /\ Memory => Content \in Contents
  BY DEF Types, Memory, Content, CellContent, Contents, Values, Before, BgPcs, Cells, Status

(* A step leaves an operation with what it had seen and with the content   *)
(* after the step.                                                         *)
LEMMA Observed ==
  ASSUME Seen, Observe, Content' \in Contents
  PROVE  /\ Seen'
         /\ \A t \in Threads : th'[t].pc # "idle" =>
              /\ \A x \in seen[t] : x \in seen'[t]
              /\ Content' \in seen'[t]
  BY DEF Observe, Seen

(* The initial state. *)
LEMMA RecordInit == Init => RecordInv
  <1> SUFFICES ASSUME Init PROVE RecordInv
    OBVIOUS
  <1> USE DEF Init, Fresh, Cells, Absent, Values, Before
  <1>1. Types
    BY DEF Types, ThreadState, Status, Contents, Reading, Writing, AllOps, BgPcs
  <1>2. Control /\ Memory /\ Copy
    BY DEF Control, ThreadControl, Memory, Copy, Reading, Writing
  <1>3. Locks
    BY DEF Locks, Holds, ReplaceHolds
  <1>4. Seen /\ Readers
    BY DEF Seen, Readers, LoadedBy, SeenBy, Reading
  <1> QED
    BY <1>1, <1>2, <1>3, <1>4 DEF RecordInv

(* A step of thread t that leaves the records, replace_pointer and the     *)
(* locks alone.                                                            *)
LEMMA QuietStep ==
  ASSUME RecordInv, NEW t \in Threads, UNCHANGED <<status, val, bg>>, Observe,
         th' \in [Threads -> ThreadState], \A u \in Threads \ {t} : th'[u] = th[u],
         ThreadControl(th'[t], bg.pc), Holds(t)' = Holds(t), LoadedBy(t)', SeenBy(t)'
  PROVE  RecordInv'
  <1> USE DEF RecordInv
  <1>1. Types' /\ Memory' /\ Copy'
    BY DEF Types, Memory, Copy
  <1>2. Control'
    BY DEF Control
  <1>3. Locks'
    <2>1. \A u \in Threads : Holds(u)' = Holds(u)
      BY DEF Holds
    <2> QED
      BY <2>1 DEF Locks, ReplaceHolds
  <1>4. Content' = Content /\ Content' \in Contents /\ CellContent("old")' = CellContent("old")
    BY ContentType DEF Content, CellContent
  <1>5. /\ Seen'
        /\ \A u \in Threads : th'[u].pc # "idle" =>
             Content' \in seen'[u] /\ \A x \in seen[u] : x \in seen'[u]
    BY <1>4, Observed
  <1>6. ASSUME NEW u \in Threads \ {t} PROVE LoadedBy(u)' /\ SeenBy(u)'
    <2>1. LoadedBy(u) /\ SeenBy(u) /\ th'[u] = th[u]
      BY DEF Readers
    <2>2. LoadedBy(u)'
      BY <2>1 DEF LoadedBy
    <2>3. SeenBy(u)'
      BY <2>1, <1>4, <1>5 DEF SeenBy, Reading
    <2> QED
      BY <2>2, <2>3
  <1> QED
    BY <1>1, <1>2, <1>3, <1>5, <1>6 DEF Readers

(* What a quiet step of t has to show of t's view, from what it had seen.  *)
LEMMA QuietView ==
  ASSUME RecordInv, UNCHANGED <<status, val, bg>>, Observe, NEW t \in Threads,
         th'[t].pc # "idle"
  PROVE  /\ Content' \in seen'[t] /\ Content' = Content
         /\ \A x \in seen[t] : x \in seen'[t]
         /\ CellContent("old")' = CellContent("old")
         /\ status["new"].ptr => CellContent("old") \in seen'[t]
  <1> USE DEF RecordInv
  <1>1. /\ Content' = Content /\ Content' \in Contents
        /\ CellContent("old")' = CellContent("old")
        /\ status["new"].ptr => CellContent("old") = Content
    BY ContentType DEF Content, CellContent
  <1> QED
    BY <1>1, Observed

(* Begin: an operation starts with the content as what it has seen.        *)
LEMMA BeginStep ==
  ASSUME RecordInv, NEW t \in Threads, Begin(t)
  PROVE  RecordInv'
  <1> USE DEF RecordInv
  <1>1. PICK op \in Ops, c \in Cells :
          /\ c = "old" => bg.pc = "wait"
          /\ op = "read_ignoring_ptr" => c = "old"
          /\ Set(t, [th[t] EXCEPT !.op = op, !.via = c, !.cell = c,
                      !.pc = IF op \in {"update", "remove"} THEN "lock" ELSE "status"])
    BY DEF Begin
  <1> DEFINE pc == IF op \in {"update", "remove"} THEN "lock" ELSE "status"
  <1>2. UNCHANGED <<status, val, bg>> /\ Observe /\ th[t].pc = "idle"
    BY DEF Begin
  <1>3. th[t] \in ThreadState /\ op \in AllOps
    BY OpsAssumption DEF Types, AllOps
  <1>4. /\ th'[t].op = op /\ th'[t].via = c /\ th'[t].cell = c
        /\ th'[t].pc = pc /\ th'[t] \in ThreadState
        /\ th' = [th EXCEPT ![t] = th'[t]]
    <2>1. pc \in {"lock", "status"}
      OBVIOUS
    <2>2. th' = [th EXCEPT ![t] = [th[t] EXCEPT !.op = op, !.via = c, !.cell = c, !.pc = pc]]
      BY <1>1 DEF Set
    <2> HIDE DEF pc
    <2>3. th'[t] = [th[t] EXCEPT !.op = op, !.via = c, !.cell = c, !.pc = pc]
      BY <2>2 DEF Types
    <2>4. th'[t] \in ThreadState
      BY <1>3, <2>1, <2>3 DEF ThreadState, Reading, Writing
    <2>5. /\ th'[t].op = op /\ th'[t].via = c /\ th'[t].cell = c
          /\ th'[t].pc = pc
      BY <1>3, <2>3 DEF ThreadState
    <2> QED
      BY <2>2, <2>3, <2>4, <2>5
  <1>5. th' \in [Threads -> ThreadState] /\ \A u \in Threads \ {t} : th'[u] = th[u]
    BY <1>4 DEF Types
  <1>6. ThreadControl(th'[t], bg.pc)
    BY <1>1, <1>3, <1>4 DEF ThreadControl, Reading, Writing, WriteOps, AllOps, Cells
  <1>7. Holds(t) = {} /\ Holds(t)' = {}
    BY <1>2, <1>4 DEF Holds, Control, ThreadControl
  <1>8. LoadedBy(t)'
    BY <1>4 DEF LoadedBy
  <1>9. SeenBy(t)'
    BY <1>1, <1>2, <1>4, QuietView DEF SeenBy, Reading, Memory, Before
  <1> QED
    BY <1>2, <1>5, <1>6, <1>7, <1>8, <1>9, QuietStep

(* read loads a status word: what the word says of the record is still so. *)
LEMMA LoadStatusStep ==
  ASSUME RecordInv, NEW t \in Threads, LoadStatus(t)
  PROVE  RecordInv'
  <1> USE DEF RecordInv
  <1> DEFINE c == th[t].cell
  <1>1. /\ UNCHANGED <<status, val, bg>> /\ Observe /\ th[t].pc = "status"
        /\ th' = [th EXCEPT ![t] = [th[t] EXCEPT !.pc = "value", !.s = status[c]]]
    BY DEF LoadStatus, Set
  <1>2. th[t] \in ThreadState /\ ThreadControl(th[t], bg.pc) /\ c \in Cells /\ status[c] \in Status
    BY <1>1 DEF Types, Control, ThreadControl
  <1>3. /\ th'[t].op = th[t].op /\ th'[t].via = th[t].via /\ th'[t].cell = c
        /\ th'[t].pc = "value" /\ th'[t].s = status[c]
        /\ th'[t] \in ThreadState
    BY <1>1, <1>2 DEF Types, ThreadState, Reading, Writing
  <1>4. th' \in [Threads -> ThreadState] /\ \A u \in Threads \ {t} : th'[u] = th[u]
    BY <1>1, <1>3 DEF Types
  <1>5. ThreadControl(th'[t], bg.pc)
    BY <1>1, <1>2, <1>3 DEF ThreadControl, Reading, Writing, WriteOps, Cells
  <1>6. Holds(t) = {} /\ Holds(t)' = {}
    BY <1>1, <1>2, <1>3 DEF Holds, ThreadControl, Reading
  <1>7. LoadedBy(t)'
    BY <1>1, <1>2, <1>3 DEF LoadedBy, Memory, Before, Status, Cells
  <1>8. SeenBy(t)'
    <2>1. SeenBy(t)
      BY DEF Readers
    <2>2. Content \in seen'[t] /\ Content' = Content
      BY <1>1, <1>3, QuietView
    <2>3. c = "old" => CellContent("old") \in seen'[t]
      BY <1>1, <1>3, <2>1, QuietView DEF SeenBy, Reading
    <2>4. ~status[c].ptr => CellContent(c) \in seen'[t]
      BY <1>2, <2>2, <2>3 DEF Content, Cells
    <2> QED
      BY <1>1, <1>3, <2>2, <2>3, <2>4, QuietView DEF SeenBy, Reading, CellContent
  <1> QED
    BY <1>1, <1>4, <1>5, <1>6, <1>7, <1>8, QuietStep

(* read loads the value, or the pointer if the word it loaded said so.     *)
LEMMA LoadValueStep ==
  ASSUME RecordInv, NEW t \in Threads, LoadValue(t)
  PROVE  RecordInv'
  <1> USE DEF RecordInv
  <1> DEFINE c == th[t].cell
             pc == IF th[t].op = "read_ignoring_ptr" /\ th[t].s.lock THEN "status" ELSE "check"
  <1>1. /\ UNCHANGED <<status, val, bg>> /\ Observe /\ th[t].pc = "value"
        /\ th' = [th EXCEPT ![t] = [th[t] EXCEPT !.v = val[c], !.pc = pc]]
        /\ pc \in {"status", "check"}
    BY DEF LoadValue, Set
  <1> HIDE DEF pc
  <1>2. /\ th[t] \in ThreadState /\ ThreadControl(th[t], bg.pc) /\ c \in Cells
        /\ val[c] \in Values \cup {"old"}
    BY <1>1 DEF Types, Control, ThreadControl
  <1>3. /\ th'[t].op = th[t].op /\ th'[t].via = th[t].via /\ th'[t].cell = c
        /\ th'[t].pc = pc /\ th'[t].s = th[t].s /\ th'[t].v = val[c]
        /\ th'[t] \in ThreadState
    BY <1>1, <1>2 DEF Types, ThreadState, Reading, Writing
  <1>4. th' \in [Threads -> ThreadState] /\ \A u \in Threads \ {t} : th'[u] = th[u]
    BY <1>1, <1>3 DEF Types
  <1>5. ThreadControl(th'[t], bg.pc)
    BY <1>1, <1>2, <1>3 DEF ThreadControl, Reading, Writing, WriteOps, Cells
  <1>6. Holds(t) = {} /\ Holds(t)' = {}
    BY <1>1, <1>2, <1>3 DEF Holds, ThreadControl, Reading
  <1>7. LoadedBy(t)'
    <2>1. LoadedBy(t)
      BY DEF Readers
    <2> QED
      BY <1>1, <1>2, <1>3, <2>1 DEF LoadedBy, Memory
  <1>8. SeenBy(t)'
    <2>1. SeenBy(t)
      BY DEF Readers
    <2> QED
      BY <1>1, <1>2, <1>3, <2>1, QuietView DEF SeenBy, Reading
  <1> QED
    BY <1>1, <1>4, <1>5, <1>6, <1>7, <1>8, QuietStep

(* A reader that follows holds the pointer, and the pointer still leads to *)
(* the content.                                                            *)
LEMMA Followed ==
  ASSUME RecordInv, NEW t \in Threads, th[t].pc = "check",
         Checked(th[t].cell, th[t].s, th[t].op) = "follow"
  PROVE  /\ th[t].cell = "new" /\ th[t].v = "old" /\ ~th[t].s.removed
         /\ th[t].op = "read" /\ bg.pc \in Before
  <1> USE DEF RecordInv
  <1>1. /\ th[t].op = "read" /\ ~status[th[t].cell].lock /\ th[t].s.ptr
        /\ th[t].s.version = status[th[t].cell].version
    BY DEF Checked
  <1>2. LoadedBy(t) /\ th[t].cell = "new"
    BY <1>1 DEF Readers, LoadedBy
  <1>3. bg.pc \in {"removed", "unset", "version"} => status["new"].lock
    BY DEF Locks, ReplaceHolds
  <1>4. status["new"].version \in Nat /\ th[t].s.version \in Nat /\ bg.pc \in BgPcs
    BY DEF Types, Status, ThreadState, Cells
  <1>5. bg.pc \in Before
    BY <1>1, <1>2, <1>3, <1>4 DEF LoadedBy, BgPcs
  <1> QED
    BY <1>1, <1>2, <1>5 DEF LoadedBy

(* The check of read: try again, follow the pointer, or answer.            *)
LEMMA ReadCheckStep ==
  ASSUME RecordInv, NEW t \in Threads, read_check(t)
  PROVE  RecordInv'
  <1> USE DEF RecordInv
  <1> DEFINE r == th[t]
             outcome == Checked(r.cell, r.s, r.op)
  <1>1. UNCHANGED <<status, val, bg>> /\ Observe /\ r.pc = "check"
    BY DEF read_check
  <1>2. r \in ThreadState /\ ThreadControl(r, bg.pc) /\ r.cell \in Cells
    BY <1>1 DEF Types, Control, ThreadControl
  <1>3. LoadedBy(t) /\ SeenBy(t)
    BY DEF Readers
  <1>4. CASE outcome = "again"
    <2>1. th' = [th EXCEPT ![t] = [r EXCEPT !.pc = "status"]]
      BY <1>4 DEF read_check, Goto, Set
    <2>2. /\ th'[t].op = r.op /\ th'[t].via = r.via /\ th'[t].cell = r.cell
          /\ th'[t].pc = "status" /\ th'[t] \in ThreadState
      BY <1>2, <2>1 DEF Types, ThreadState, Reading, Writing
    <2>3. th' \in [Threads -> ThreadState] /\ \A u \in Threads \ {t} : th'[u] = th[u]
      BY <2>1, <2>2 DEF Types
    <2>4. ThreadControl(th'[t], bg.pc)
      BY <1>1, <1>2, <2>2 DEF ThreadControl, Reading, Writing, WriteOps, Cells
    <2>5. Holds(t) = {} /\ Holds(t)' = {}
      BY <1>1, <1>2, <2>2 DEF Holds, ThreadControl, Reading
    <2>6. LoadedBy(t)' /\ SeenBy(t)'
      BY <1>1, <1>3, <2>2, QuietView DEF LoadedBy, SeenBy, Reading
    <2> QED
      BY <1>1, <2>3, <2>4, <2>5, <2>6, QuietStep
  <1>5. CASE outcome = "follow"
    <2>1. th' = [th EXCEPT ![t] = [r EXCEPT !.pc = "status", !.cell = r.v]]
      BY <1>5 DEF read_check, Set
    <2>2. /\ r.cell = "new" /\ r.v = "old" /\ r.op = "read" /\ bg.pc \in Before
          /\ status["new"].ptr
      BY <1>1, <1>5, Followed DEF Memory
    <2>3. /\ th'[t].op = "read" /\ th'[t].via = r.via /\ th'[t].cell = "old"
          /\ th'[t].pc = "status" /\ th'[t] \in ThreadState
      BY <1>2, <2>1, <2>2 DEF Types, ThreadState, Reading, Writing, Cells
    <2>4. th' \in [Threads -> ThreadState] /\ \A u \in Threads \ {t} : th'[u] = th[u]
      BY <2>1, <2>3 DEF Types
    <2>5. ThreadControl(th'[t], bg.pc)
      BY <1>1, <1>2, <2>2, <2>3 DEF ThreadControl, Reading, Writing, WriteOps, Cells
    <2>6. Holds(t) = {} /\ Holds(t)' = {}
      BY <1>1, <1>2, <2>3 DEF Holds, ThreadControl, Reading
    <2>7. LoadedBy(t)' /\ SeenBy(t)'
      BY <1>1, <1>3, <2>2, <2>3, QuietView DEF LoadedBy, SeenBy, Reading
    <2> QED
      BY <1>1, <2>4, <2>5, <2>6, <2>7, QuietStep
  <1>6. CASE outcome \notin {"again", "follow"}
    <2> DEFINE res == IF r.s.removed THEN Absent ELSE r.v
    <2>1. th' = [th EXCEPT ![t] = [r EXCEPT !.pc = "done", !.res = res, !.v = Absent, !.s = Fresh]]
      BY <1>6 DEF read_check, Answer, Set
    <2>2. ~r.s.ptr
      <3>1. r.op = "read" => ~r.s.ptr
        BY <1>6 DEF Checked
      <3>2. r.op = "read_ignoring_ptr" => r.cell = "old"
        BY <1>2 DEF ThreadControl
      <3> QED
        BY <1>1, <1>2, <1>3, <3>1, <3>2 DEF LoadedBy, ThreadControl, Reading
    <2>3. res \in seen[t] /\ res \in Contents /\ res # "ok"
      BY <1>1, <1>3, <2>2, ThreadsAssumption DEF SeenBy, Seen, Contents, Absent
    <2> HIDE DEF res
    <2>4. /\ th'[t].op = r.op /\ th'[t].via = r.via /\ th'[t].cell = r.cell
          /\ th'[t].pc = "done" /\ th'[t].res = res /\ th'[t] \in ThreadState
      <3>1. Fresh \in Status
        BY DEF Fresh, Status
      <3> QED
        BY <1>2, <2>1, <2>3, <3>1 DEF Types, ThreadState
    <2>5. th' \in [Threads -> ThreadState] /\ \A u \in Threads \ {t} : th'[u] = th[u]
      BY <2>1, <2>4 DEF Types
    <2>6. ThreadControl(th'[t], bg.pc)
      BY <1>1, <1>2, <2>4 DEF ThreadControl, Reading, Writing, WriteOps, Cells
    <2>7. Holds(t) = {} /\ Holds(t)' = {}
      BY <1>1, <1>2, <2>4 DEF Holds, ThreadControl, Reading
    <2>8. LoadedBy(t)' /\ SeenBy(t)'
      BY <1>1, <1>3, <2>3, <2>4, QuietView DEF LoadedBy, SeenBy, Reading
    <2> QED
      BY <1>1, <2>5, <2>6, <2>7, <2>8, QuietStep
  <1> QED
    BY <1>4, <1>5, <1>6

(* The operation returns to the caller.                                    *)
LEMMA ReturnStep ==
  ASSUME RecordInv, NEW t \in Threads, Return(t)
  PROVE  RecordInv'
  <1> USE DEF RecordInv
  <1>1. /\ UNCHANGED <<status, val, bg>> /\ Observe /\ th[t].pc = "done"
        /\ th' = [th EXCEPT ![t] = [th[t] EXCEPT !.pc = "idle", !.op = "none", !.via = "none",
                                      !.cell = "none", !.res = Absent]]
    BY DEF Return, Set
  <1>2. th[t] \in ThreadState
    BY DEF Types
  <1>3. /\ th'[t].op = "none" /\ th'[t].via = "none" /\ th'[t].cell = "none"
        /\ th'[t].pc = "idle" /\ th'[t] \in ThreadState
    <2>1. th'[t] = [th[t] EXCEPT !.pc = "idle", !.op = "none", !.via = "none",
                                 !.cell = "none", !.res = Absent]
      BY <1>1 DEF Types
    <2>2. th'[t] \in ThreadState
      BY <1>2, <2>1 DEF ThreadState, Contents
    <2> QED
      BY <1>2, <2>1, <2>2 DEF ThreadState
  <1>4. th' \in [Threads -> ThreadState] /\ \A u \in Threads \ {t} : th'[u] = th[u]
    BY <1>1, <1>3 DEF Types
  <1>5. ThreadControl(th'[t], bg.pc)
    BY <1>3 DEF ThreadControl, Reading, Writing
  <1>6. Holds(t) = {} /\ Holds(t)' = {}
    BY <1>1, <1>3 DEF Holds
  <1>7. LoadedBy(t)' /\ SeenBy(t)'
    BY <1>3 DEF LoadedBy, SeenBy, Reading
  <1> QED
    BY <1>1, <1>4, <1>5, <1>6, <1>7, QuietStep
(* Who holds the lock of the new record keeps replace_pointer out.         *)
LEMMA HolderAlone ==
  ASSUME RecordInv, NEW t \in Threads, th[t].pc \in {"act", "version", "unlock"}
  PROVE  /\ th[t] \in ThreadState /\ ThreadControl(th[t], bg.pc)
         /\ th[t].cell \in Cells /\ th[t].via \in Cells /\ th[t].op \in WriteOps
         /\ th[t].cell \in Holds(t) /\ status[th[t].cell].lock
         /\ th[t].cell = "old" => bg.pc = "wait"
         /\ th[t].cell = "new" => bg.pc \in {"wait", "replaced"}
  <1> USE DEF RecordInv
  <1>1. /\ th[t] \in ThreadState /\ ThreadControl(th[t], bg.pc) /\ bg.pc \in BgPcs
        /\ th[t].cell \in Cells /\ th[t].via \in Cells /\ th[t].op \in WriteOps
    BY DEF Types, Control, ThreadControl, Writing
  <1>2. th[t].cell \in Holds(t)
    BY <1>1 DEF Holds, WriteOps
  <1>3. th[t].cell = "old" => bg.pc = "wait"
    BY <1>1 DEF ThreadControl, Writing
  <1>4. th[t].cell = "new" => bg.pc \in {"wait", "replaced"}
    BY <1>2 DEF Locks, ReplaceHolds
  <1> QED
    BY <1>1, <1>2, <1>3, <1>4 DEF Locks

(* update and remove meet a pointer only where it leads to the old record. *)
LEMMA PointerToOld ==
  ASSUME RecordInv, NEW t \in Threads, th[t].pc = "act", status[th[t].cell].ptr
  PROVE  /\ th[t].cell = "new" /\ th[t].via = "new" /\ bg.pc = "wait"
         /\ val["new"] = "old" /\ ~status["new"].removed
  <1>1. th[t].cell = "new" /\ bg.pc = "wait"
    BY HolderAlone DEF RecordInv, Memory, Cells
  <1>2. th[t].via = "new"
    BY <1>1 DEF RecordInv, Control, ThreadControl
  <1> QED
    BY <1>1, <1>2 DEF RecordInv, Memory, Before

(* update and remove go on to the record pointed to, keeping the lock.     *)
LEMMA FollowToWriteStep ==
  ASSUME RecordInv, NEW t \in Threads, FollowToWrite(t)
  PROVE  RecordInv'
  <1> USE DEF RecordInv
  <1>1. /\ UNCHANGED <<status, val, bg>> /\ Observe /\ th[t].pc = "act"
        /\ status[th[t].cell].ptr
        /\ th' = [th EXCEPT ![t] = [th[t] EXCEPT !.pc = "lock", !.cell = val[th[t].cell]]]
    BY DEF FollowToWrite, Set
  <1>2. /\ th[t].cell = "new" /\ th[t].via = "new" /\ bg.pc = "wait" /\ val["new"] = "old"
        /\ th[t].op \in WriteOps /\ th[t] \in ThreadState
    BY <1>1, PointerToOld, HolderAlone
  <1>3. /\ th'[t].op = th[t].op /\ th'[t].via = "new" /\ th'[t].cell = "old"
        /\ th'[t].pc = "lock" /\ th'[t] \in ThreadState
    BY <1>1, <1>2 DEF Types, ThreadState, Writing, Cells
  <1>4. th' \in [Threads -> ThreadState] /\ \A u \in Threads \ {t} : th'[u] = th[u]
    BY <1>1, <1>3 DEF Types
  <1>5. ThreadControl(th'[t], bg.pc)
    BY <1>2, <1>3 DEF ThreadControl, Reading, Writing, WriteOps, Cells
  <1>6. Holds(t) = {"new"} /\ Holds(t)' = {"new"}
    BY <1>1, <1>2, <1>3 DEF Holds, WriteOps
  <1>7. LoadedBy(t)' /\ SeenBy(t)'
    BY <1>1, <1>3, QuietView DEF LoadedBy, SeenBy, Reading
  <1> QED
    BY <1>1, <1>4, <1>5, <1>6, <1>7, QuietStep

(* A step of a writing thread: what it writes becomes the content, versions *)
(* do not go back, and the pointer bits stay.                               *)
LEMMA WriteStep ==
  ASSUME RecordInv, NEW t \in Threads, UNCHANGED bg, Observe,
         Types', \A u \in Threads \ {t} : th'[u] = th[u],
         ThreadControl(th'[t], bg.pc), th'[t].pc \in Writing \cup {"done"},
         Memory', Copy', Locks',
         \A c \in Cells : /\ status'[c].ptr = status[c].ptr
                          /\ status'[c].version >= status[c].version
                          /\ val'[c] \in {val[c], Content'},
         CellContent("old")' \in {CellContent("old"), Content'},
         th'[t].pc \in {"version", "unlock", "done"} =>
           IF th'[t].res = "ok" THEN \E x \in seen[t] : x # Absent ELSE th'[t].res \in seen[t]
  PROVE  RecordInv'
  <1> USE DEF RecordInv
  <1>1. Control'
    BY DEF Control
  <1>2. Content' \in Contents
    BY DEF Types, Memory, Content, CellContent, Contents, Values, Before, BgPcs, Cells, Status
  <1>3. /\ Seen'
        /\ \A u \in Threads : th'[u].pc # "idle" =>
             Content' \in seen'[u] /\ \A x \in seen[u] : x \in seen'[u]
    BY <1>2, Observed
  <1>4. LoadedBy(t)' /\ SeenBy(t)'
    BY <1>3 DEF LoadedBy, SeenBy, Reading, Writing
  <1>5. ASSUME NEW u \in Threads \ {t} PROVE LoadedBy(u)' /\ SeenBy(u)'
    <2>1. LoadedBy(u) /\ SeenBy(u) /\ th'[u] = th[u] /\ ThreadControl(th[u], bg.pc)
      BY DEF Readers, Control
    <2>2. LoadedBy(u)'
      <3>1. th[u].pc \in {"value", "check"} => th[u].cell \in Cells
        BY <2>1 DEF ThreadControl
      <3>2. \A c \in Cells : status[c].version \in Nat /\ status'[c].version \in Nat
        BY DEF Types, Status
      <3>3. th[u].s.version \in Nat
        BY DEF Types, ThreadState, Status
      <3> QED
        BY <2>1, <3>1, <3>2, <3>3 DEF LoadedBy, Cells
    <2>3. SeenBy(u)'
      <3>1. th[u].pc \in {"value", "check"} => th[u].cell \in Cells
        BY <2>1 DEF ThreadControl
      <3> QED
        BY <2>1, <3>1, <1>3 DEF SeenBy, Reading
    <2> QED
      BY <2>2, <2>3
  <1> QED
    BY <1>1, <1>3, <1>4, <1>5 DEF Readers

(* lock: the bit was clear, so nobody owned it.                            *)
LEMMA LockStep ==
  ASSUME RecordInv, NEW t \in Threads, Lock(t)
  PROVE  RecordInv' /\ Content' = Content
  <1> USE DEF RecordInv
  <1> DEFINE c == th[t].cell
  <1>1. /\ UNCHANGED <<val, bg>> /\ Observe /\ th[t].pc = "lock" /\ ~status[c].lock
        /\ status' = [status EXCEPT ![c]["lock"] = TRUE]
        /\ th' = [th EXCEPT ![t] = [th[t] EXCEPT !.pc = "act"]]
    BY DEF Lock, Unlocked, SetStatus, Goto, Set
  <1>2. /\ th[t] \in ThreadState /\ ThreadControl(th[t], bg.pc)
        /\ c \in Cells /\ th[t].via \in Cells /\ th[t].op \in WriteOps
    BY <1>1 DEF Types, Control, ThreadControl, Writing
  <1>3. /\ th'[t].op = th[t].op /\ th'[t].via = th[t].via /\ th'[t].cell = c
        /\ th'[t].pc = "act" /\ th'[t] \in ThreadState
    BY <1>1, <1>2 DEF Types, ThreadState, Writing
  <1>4. /\ th' \in [Threads -> ThreadState]
        /\ \A u \in Threads \ {t} : th'[u] = th[u]
    BY <1>1, <1>3 DEF Types
  <1>5. /\ status' \in [Cells -> Status] /\ status'[c].lock
        /\ \A d \in Cells : /\ status'[d].ptr = status[d].ptr
                            /\ status'[d].version = status[d].version
                            /\ status'[d].removed = status[d].removed
                            /\ d # c => status'[d] = status[d]
    BY <1>1, <1>2 DEF Types, Status
  <1>6. Types'
    BY <1>1, <1>4, <1>5 DEF Types
  <1>7. ThreadControl(th'[t], bg.pc)
    BY <1>1, <1>2, <1>3 DEF ThreadControl, Reading, Writing, WriteOps, Cells
  <1>8. Memory'
    BY <1>1, <1>5 DEF Memory, Cells
  <1>9. Copy'
    BY <1>1, <1>2, <1>5 DEF Copy, ThreadControl, Writing, Cells
  <1>10. Locks'
    <2>1. Holds(t)' = Holds(t) \cup {c}
      BY <1>1, <1>2, <1>3 DEF Holds, WriteOps
    <2>2. \A u \in Threads \ {t} : Holds(u)' = Holds(u)
      BY <1>4 DEF Holds
    <2>3. ReplaceHolds' = ReplaceHolds /\ ReplaceHolds \subseteq Cells
      BY <1>1 DEF ReplaceHolds, Cells
    <2>4. c \notin ReplaceHolds /\ \A u \in Threads : c \notin Holds(u)
      BY <1>1, <1>2 DEF Locks
    <2> QED
      BY <1>2, <1>5, <2>1, <2>2, <2>3, <2>4 DEF Locks
  <1>11. CellContent("old")' = CellContent("old") /\ Content' = Content
    BY <1>1, <1>5 DEF Content, CellContent, Cells
  <1>12. \A d \in Cells : status'[d].version >= status[d].version
    BY <1>5 DEF Types, Status
  <1> QED
    BY <1>1, <1>3, <1>4, <1>5, <1>6, <1>7, <1>8, <1>9, <1>10, <1>11, <1>12, WriteStep DEF Writing

(* Lock bits and owners that do not change keep the locks exact.           *)
LEMMA SameLocks ==
  ASSUME Locks, NEW t \in Threads, \A u \in Threads \ {t} : th'[u] = th[u],
         Holds(t)' = Holds(t), UNCHANGED bg,
         \A c \in Cells : status'[c].lock = status[c].lock
  PROVE  Locks'
  <1>1. \A u \in Threads : Holds(u)' = Holds(u)
    BY DEF Holds
  <1>2. ReplaceHolds' = ReplaceHolds /\ ReplaceHolds \subseteq Cells
    BY DEF ReplaceHolds, Cells
  <1> QED
    BY <1>1, <1>2 DEF Locks

(* update or remove writes the record that holds the content: no other     *)
(* step changes the content, and a removed record is left alone.           *)
LEMMA ActStep ==
  ASSUME RecordInv, NEW t \in Threads, Act(t)
  PROVE  /\ RecordInv'
         /\ Content' # Content =>
              /\ Content # Absent /\ th[t].pc = "act" /\ th'[t].res = "ok"
              /\ Content' = IF th[t].op = "update" THEN t ELSE Absent
  <1> USE DEF RecordInv
  <1> DEFINE c == th[t].cell
             res == IF status[c].removed THEN Absent ELSE "ok"
  <1>1. /\ UNCHANGED bg /\ Observe /\ th[t].pc = "act" /\ ~status[c].ptr
        /\ IF status[c].removed
             THEN UNCHANGED <<status, val>>
             ELSE IF th[t].op = "update"
                    THEN val' = [val EXCEPT ![c] = t] /\ UNCHANGED status
                    ELSE status' = [status EXCEPT ![c]["removed"] = TRUE] /\ UNCHANGED val
        /\ th' = [th EXCEPT ![t] = [th[t] EXCEPT !.pc = "version", !.res = res]]
    BY DEF Act, SetStatus, Set
  <1>2. /\ th[t] \in ThreadState /\ ThreadControl(th[t], bg.pc)
        /\ c \in Cells /\ th[t].via \in Cells /\ th[t].op \in WriteOps
        /\ c = "old" => bg.pc = "wait" /\ status["new"].ptr
        /\ c = "new" => bg.pc = "replaced"
    BY <1>1, HolderAlone DEF Memory, Before
  <1>3. res \in {Absent, "ok"}
    OBVIOUS
  <1>4. /\ th'[t].op = th[t].op /\ th'[t].via = th[t].via /\ th'[t].cell = c
        /\ th'[t].pc = "version" /\ th'[t].res = res /\ th'[t] \in ThreadState
    <2> HIDE DEF res
    <2> QED
      BY <1>1, <1>2, <1>3 DEF Types, ThreadState, Writing, Contents
  <1>5. /\ th' \in [Threads -> ThreadState]
        /\ \A u \in Threads \ {t} : th'[u] = th[u]
    BY <1>1, <1>4 DEF Types
  <1>6. /\ status' \in [Cells -> Status]
        /\ \A d \in Cells : /\ status'[d].ptr = status[d].ptr
                            /\ status'[d].version = status[d].version
                            /\ status'[d].lock = status[d].lock
                            /\ d # c => status'[d] = status[d]
    <2>1. CASE UNCHANGED status
      BY <2>1 DEF Types
    <2>2. CASE status' = [status EXCEPT ![c]["removed"] = TRUE]
      BY <1>2, <2>2 DEF Types, Status
    <2> QED
      BY <1>1, <2>1, <2>2
  <1>7. /\ val' \in [Cells -> Values \cup {"old"}]
        /\ \A d \in Cells : d # c => val'[d] = val[d]
        /\ val'[c] \in {val[c], t}
    BY <1>1, <1>2 DEF Types, Values
  <1>8. Types'
    BY <1>1, <1>5, <1>6, <1>7 DEF Types
  <1>9. ThreadControl(th'[t], bg.pc)
    BY <1>1, <1>2, <1>4 DEF ThreadControl, Reading, Writing, WriteOps, Cells
  <1>10. Memory'
    BY <1>1, <1>2, <1>6, <1>7 DEF Memory, Cells, Values, Before
  <1>11. Copy'
    BY <1>1, <1>2, <1>6, <1>7 DEF Copy, Cells
  <1>12. Locks'
    <2>1. Holds(t)' = Holds(t)
      BY <1>1, <1>2, <1>4 DEF Holds, WriteOps
    <2> QED
      BY <1>1, <1>5, <1>6, <2>1, SameLocks
  <1>13. Content = CellContent(c) /\ Content' = CellContent(c)'
    BY <1>1, <1>2, <1>4, <1>6 DEF Content, Cells, CellContent
  <1>14. val'[c] \in {val[c], Content'}
    BY <1>1, <1>2, <1>6, <1>13 DEF CellContent, Types
  <1>15. CellContent("old")' \in {CellContent("old"), Content'}
    BY <1>2, <1>4, <1>6, <1>7, <1>13 DEF CellContent, Cells
  <1>16. IF res = "ok" THEN \E x \in seen[t] : x # Absent ELSE res \in seen[t]
    <2>1. Content \in seen[t]
      BY <1>1 DEF Readers, SeenBy
    <2>2. status[c].removed => Content = Absent
      BY <1>13 DEF CellContent
    <2>3. ~status[c].removed => Content # Absent
      BY <1>2, <1>13, ThreadsAssumption
         DEF CellContent, Memory, Values, Absent, Cells, Before
    <2> QED
      BY <2>1, <2>2, <2>3 DEF Absent
  <1>17. \A d \in Cells : /\ status'[d].ptr = status[d].ptr
                         /\ status'[d].version >= status[d].version
                         /\ val'[d] \in {val[d], Content'}
    BY <1>6, <1>7, <1>14 DEF Types, Status
  <1>18. RecordInv'
    BY <1>1, <1>4, <1>5, <1>8, <1>9, <1>10, <1>11, <1>12, <1>15, <1>16, <1>17, WriteStep
       DEF Writing
  <1>19. status[c].removed => Content' = Content
    BY <1>1, <1>4, <1>13 DEF CellContent
  <1>20. ~status[c].removed =>
           /\ Content # Absent /\ th'[t].res = "ok"
           /\ Content' = IF th[t].op = "update" THEN t ELSE Absent
    <2> SUFFICES ASSUME ~status[c].removed
                 PROVE  /\ Content # Absent /\ th'[t].res = "ok"
                        /\ Content' = IF th[t].op = "update" THEN t ELSE Absent
      OBVIOUS
    <2>1. Content = val[c] /\ val[c] \in Values
      BY <1>2, <1>13 DEF CellContent, Memory, Cells, Before
    <2>2. Content # Absent
      BY <2>1, ThreadsAssumption DEF Values, Absent
    <2>3. CASE th[t].op = "update"
      BY <1>1, <1>2, <1>4, <1>13, <2>2, <2>3 DEF CellContent, Types
    <2>4. CASE th[t].op # "update"
      BY <1>1, <1>2, <1>4, <1>13, <2>2, <2>4 DEF CellContent, Types, Status
    <2> QED
      BY <2>3, <2>4
  <1>21. th[t].pc = "act"
    BY <1>1
  <1> QED
    BY <1>18, <1>19, <1>20, <1>21

(* incr_version keeps the lock bit that its owner holds.                   *)
LEMMA IncrVersionStep ==
  ASSUME RecordInv, NEW t \in Threads, incr_version(t)
  PROVE  RecordInv' /\ Content' = Content
  <1> USE DEF RecordInv
  <1> DEFINE c == th[t].cell
  <1>1. /\ UNCHANGED <<val, bg>> /\ Observe /\ th[t].pc = "version"
        /\ status' = [status EXCEPT ![c]["version"] = status[c].version + 1]
        /\ th' = [th EXCEPT ![t] = [th[t] EXCEPT !.pc = "unlock"]]
    BY DEF incr_version, SetStatus, Goto, Set
  <1>2. /\ th[t] \in ThreadState /\ ThreadControl(th[t], bg.pc)
        /\ c \in Cells /\ th[t].via \in Cells /\ th[t].op \in WriteOps
        /\ c = "old" => bg.pc = "wait"
    BY <1>1, HolderAlone
  <1>3. /\ th'[t].op = th[t].op /\ th'[t].via = th[t].via /\ th'[t].cell = c
        /\ th'[t].pc = "unlock" /\ th'[t].res = th[t].res /\ th'[t] \in ThreadState
    BY <1>1, <1>2 DEF Types, ThreadState, Writing
  <1>4. /\ th' \in [Threads -> ThreadState]
        /\ \A u \in Threads \ {t} : th'[u] = th[u]
    BY <1>1, <1>3 DEF Types
  <1>5. /\ status' \in [Cells -> Status]
        /\ \A d \in Cells : /\ status'[d].ptr = status[d].ptr
                            /\ status'[d].lock = status[d].lock
                            /\ status'[d].removed = status[d].removed
                            /\ status'[d].version >= status[d].version
                            /\ d # c => status'[d] = status[d]
    BY <1>1, <1>2 DEF Types, Status
  <1>6. Types'
    BY <1>1, <1>4, <1>5 DEF Types
  <1>7. ThreadControl(th'[t], bg.pc)
    BY <1>1, <1>2, <1>3 DEF ThreadControl, Reading, Writing, WriteOps, Cells
  <1>8. Memory' /\ Copy'
    BY <1>1, <1>2, <1>5 DEF Memory, Copy, Cells
  <1>9. Locks'
    <2>1. Holds(t)' = Holds(t)
      BY <1>1, <1>2, <1>3 DEF Holds, WriteOps
    <2> QED
      BY <1>1, <1>4, <1>5, <2>1, SameLocks
  <1>10. CellContent("old")' = CellContent("old") /\ Content' = Content
    BY <1>1, <1>5 DEF Content, CellContent, Cells
  <1>11. IF th[t].res = "ok" THEN \E x \in seen[t] : x # Absent ELSE th[t].res \in seen[t]
    BY <1>1 DEF Readers, SeenBy
  <1> QED
    BY <1>1, <1>3, <1>4, <1>5, <1>6, <1>7, <1>8, <1>9, <1>10, <1>11, WriteStep DEF Writing

(* unlock: the inner record first, then the one the write came by.         *)
LEMMA UnlockStep ==
  ASSUME RecordInv, NEW t \in Threads, Unlock(t)
  PROVE  RecordInv' /\ Content' = Content
  <1> USE DEF RecordInv
  <1> DEFINE c == th[t].cell
  <1>1. /\ UNCHANGED <<val, bg>> /\ Observe /\ th[t].pc = "unlock"
        /\ status' = [status EXCEPT ![c]["lock"] = FALSE]
        /\ th' = [th EXCEPT ![t] =
                    IF c # th[t].via THEN [th[t] EXCEPT !.pc = "version", !.cell = th[t].via]
                                     ELSE [th[t] EXCEPT !.pc = "done"]]
    BY DEF Unlock, SetStatus, Set
  <1>2. /\ th[t] \in ThreadState /\ ThreadControl(th[t], bg.pc)
        /\ c \in Cells /\ th[t].via \in Cells /\ th[t].op \in WriteOps
        /\ c = "old" => bg.pc = "wait"
        /\ c \in Holds(t)
    BY <1>1, HolderAlone
  <1>3. /\ th'[t].op = th[t].op /\ th'[t].via = th[t].via /\ th'[t].cell = th[t].via
        /\ th'[t].pc = IF c # th[t].via THEN "version" ELSE "done"
        /\ th'[t].res = th[t].res /\ th'[t] \in ThreadState
    <2>1. CASE c # th[t].via
      <3>1. th'[t] = [th[t] EXCEPT !.pc = "version", !.cell = th[t].via]
        BY <1>1, <2>1 DEF Types
      <3> QED
        BY <1>2, <2>1, <3>1 DEF ThreadState, Writing
    <2>2. CASE c = th[t].via
      <3>1. th'[t] = [th[t] EXCEPT !.pc = "done"]
        BY <1>1, <2>2 DEF Types
      <3> QED
        BY <1>2, <2>2, <3>1 DEF ThreadState, Writing
    <2> QED
      BY <2>1, <2>2
  <1>4. /\ th' \in [Threads -> ThreadState]
        /\ \A u \in Threads \ {t} : th'[u] = th[u]
    <2>1. \A u \in Threads \ {t} : th'[u] = th[u]
      BY <1>1 DEF Types
    <2>2. th' = [u \in Threads |-> th'[u]]
      BY <1>1 DEF Types
    <2> QED
      BY <1>3, <2>1, <2>2 DEF Types
  <1>5. /\ status' \in [Cells -> Status] /\ ~status'[c].lock
        /\ \A d \in Cells : /\ status'[d].ptr = status[d].ptr
                            /\ status'[d].version = status[d].version
                            /\ status'[d].removed = status[d].removed
                            /\ d # c => status'[d] = status[d]
    BY <1>1, <1>2 DEF Types, Status
  <1>6. Types'
    BY <1>1, <1>4, <1>5 DEF Types
  <1>7. ThreadControl(th'[t], bg.pc)
    BY <1>1, <1>2, <1>3 DEF ThreadControl, Reading, Writing, WriteOps, Cells
  <1>8. Memory' /\ Copy'
    BY <1>1, <1>2, <1>5 DEF Memory, Copy, Cells
  <1>9. Locks'
    <2>1. Holds(t)' = Holds(t) \ {c}
      BY <1>1, <1>2, <1>3 DEF Holds, WriteOps
    <2>2. \A u \in Threads \ {t} : Holds(u)' = Holds(u)
      BY <1>4 DEF Holds
    <2>3. ReplaceHolds' = ReplaceHolds /\ ReplaceHolds \subseteq Cells
      BY <1>1 DEF ReplaceHolds, Cells
    <2>4. c \notin ReplaceHolds /\ \A u \in Threads \ {t} : c \notin Holds(u)
      BY <1>2 DEF Locks
    <2> QED
      BY <1>2, <1>5, <2>1, <2>2, <2>3, <2>4 DEF Locks
  <1>10. CellContent("old")' = CellContent("old") /\ Content' = Content
    BY <1>1, <1>5 DEF Content, CellContent, Cells
  <1>11. IF th[t].res = "ok" THEN \E x \in seen[t] : x # Absent ELSE th[t].res \in seen[t]
    BY <1>1 DEF Readers, SeenBy
  <1>12. \A d \in Cells : status'[d].version >= status[d].version
    BY <1>5 DEF Types, Status
  <1> QED
    BY <1>1, <1>3, <1>4, <1>5, <1>6, <1>7, <1>8, <1>9, <1>10, <1>11, <1>12, WriteStep
       DEF Writing
(* A step of replace_pointer: the content stays, versions do not go back,  *)
(* and a pointer bit once clear is never set again.                        *)
LEMMA ReplaceStep ==
  ASSUME RecordInv, UNCHANGED th, Observe, Types', Control', Memory', Copy', Locks',
         Content' = Content, CellContent("old")' = CellContent("old"),
         val'["old"] = val["old"], status["new"].ptr \/ val'["new"] = val["new"],
         \A c \in Cells : /\ status'[c].version >= status[c].version
                          /\ ~status[c].ptr => ~status'[c].ptr,
         bg'.pc \in Before => bg.pc \in Before,
         bg'.pc \in {"unlock", "replaced"} =>
           bg.pc \in {"unlock", "replaced"} \/ status'["new"].version > status["new"].version
  PROVE  RecordInv'
  <1> USE DEF RecordInv
  <1>1. Content' \in Contents
    BY ContentType
  <1>2. /\ Seen'
        /\ \A t \in Threads : th'[t].pc # "idle" =>
             Content' \in seen'[t] /\ \A x \in seen[t] : x \in seen'[t]
    BY <1>1, Observed
  <1>3. ASSUME NEW t \in Threads PROVE LoadedBy(t)' /\ SeenBy(t)'
    <2>1. LoadedBy(t) /\ SeenBy(t) /\ th'[t] = th[t]
      BY DEF Readers
    <2>2. th[t].pc \in {"value", "check"} => th[t].cell \in Cells
      BY DEF Control, ThreadControl
    <2>3. \A c \in Cells : status[c].version \in Nat /\ status'[c].version \in Nat
      BY DEF Types, Status
    <2>4. th[t].s.version \in Nat
      BY DEF Types, ThreadState, Status
    <2>5. LoadedBy(t)'
      BY <2>1, <2>2, <2>3, <2>4 DEF LoadedBy, Cells
    <2>6. SeenBy(t)'
      <3>1. th[t].pc \in {"value", "check"} /\ ~th[t].s.ptr =>
              val'[th[t].cell] = val[th[t].cell]
        BY <2>1, <2>2 DEF LoadedBy, Cells
      <3> QED
        BY <1>2, <2>1, <3>1 DEF SeenBy, Reading
    <2> QED
      BY <2>5, <2>6
  <1> QED
    BY <1>2, <1>3 DEF Readers

(* Once replace_pointer has begun, no operation runs on the old array and  *)
(* no writer is on the old record, and that stays so.                      *)
LEMMA ReplaceControl ==
  ASSUME RecordInv, UNCHANGED th, bg.pc # "wait"
  PROVE  Control'
  BY DEF RecordInv, Control, ThreadControl

(* Lock bits stay exact while replace_pointer holds its lock.              *)
LEMMA ReplaceLocks ==
  ASSUME RecordInv, UNCHANGED th, bg.pc \notin {"wait", "replaced"},
         bg'.pc \notin {"wait", "replaced"},
         \A c \in Cells : status'[c].lock = status[c].lock
  PROVE  Locks'
  <1>1. \A t \in Threads : Holds(t)' = Holds(t)
    BY DEF Holds
  <1>2. ReplaceHolds' = ReplaceHolds /\ ReplaceHolds \subseteq Cells
    BY DEF ReplaceHolds, Cells
  <1> QED
    BY <1>1, <1>2 DEF RecordInv, Locks

(* replace_pointer takes the lock: no write through the pointer is under   *)
(* way, since it would hold that lock.                                     *)
LEMMA ReplaceLockStep == RecordInv /\ ReplaceLock => RecordInv' /\ Content' = Content
  <1> SUFFICES ASSUME RecordInv, ReplaceLock PROVE RecordInv' /\ Content' = Content
    OBVIOUS
  <1> USE DEF RecordInv
  <1>1. /\ UNCHANGED <<val, th>> /\ Observe /\ bg.pc = "wait" /\ ~status["new"].lock
        /\ status' = [status EXCEPT !["new"]["lock"] = TRUE]
        /\ bg' = [bg EXCEPT !.pc = "status"]
        /\ \A t \in Threads : th[t].via # "old"
    BY DEF ReplaceLock, Unlocked, SetStatus
  <1>2. bg'.pc = "status" /\ bg' \in [pc : BgPcs, s : Status, v : Values \cup {"old", Absent}]
    BY <1>1 DEF Types, BgPcs, Before
  <1>3. /\ status' \in [Cells -> Status] /\ status'["new"].lock
        /\ status'["old"] = status["old"]
        /\ status'["new"].ptr = status["new"].ptr
        /\ status'["new"].version = status["new"].version
        /\ status'["new"].removed = status["new"].removed
    BY <1>1 DEF Types, Status, Cells
  <1>4. Types'
    BY <1>1, <1>2, <1>3 DEF Types
  <1>5. \A t \in Threads : "new" \notin Holds(t)
    BY <1>1 DEF Locks, Cells
  <1>6. Control'
    <2> SUFFICES ASSUME NEW t \in Threads PROVE ThreadControl(th[t], "status")
      BY <1>1, <1>2 DEF Control
    <2>1. ThreadControl(th[t], bg.pc)
      BY DEF Control
    <2>2. ~(th[t].pc \in Writing /\ th[t].cell = "old")
      <3>1. SUFFICES ASSUME th[t].pc \in Writing, th[t].cell = "old" PROVE FALSE
        OBVIOUS
      <3>2. th[t].via = "new" /\ th[t].op \in WriteOps
        BY <1>1, <2>1, <3>1 DEF ThreadControl, Writing, Cells
      <3> QED
        BY <1>5, <3>1, <3>2 DEF Holds, WriteOps, Writing
    <2> QED
      BY <1>1, <2>1, <2>2 DEF ThreadControl
  <1>7. Memory' /\ Copy'
    BY <1>1, <1>2, <1>3 DEF Memory, Copy, Before
  <1>8. Locks'
    <2>1. \A t \in Threads : Holds(t)' = Holds(t)
      BY <1>1 DEF Holds
    <2>2. ReplaceHolds = {} /\ ReplaceHolds' = {"new"}
      BY <1>1, <1>2 DEF ReplaceHolds
    <2> QED
      BY <1>3, <1>5, <2>1, <2>2 DEF Locks, Cells
  <1>9. Content' = Content /\ CellContent("old")' = CellContent("old")
    BY <1>1, <1>3 DEF Content, CellContent
  <1>10. \A c \in Cells : status'[c].version >= status[c].version
    BY <1>3 DEF Types, Status, Cells
  <1> QED
    BY <1>1, <1>2, <1>3, <1>4, <1>6, <1>7, <1>8, <1>9, <1>10, ReplaceStep DEF Cells, Before
(* The steps in which replace_pointer reads the old record.                *)
LEMMA ReplaceReadStep ==
  RecordInv /\ (ReplaceLoadStatus \/ ReplaceLoadValue \/ ReplaceStore) => RecordInv' /\ Content' = Content
  <1> SUFFICES ASSUME RecordInv, ReplaceLoadStatus \/ ReplaceLoadValue \/ ReplaceStore
               PROVE  RecordInv' /\ Content' = Content
    OBVIOUS
  <1> USE DEF RecordInv
  <1> DEFINE BgState == [pc : BgPcs, s : Status, v : Values \cup {"old", Absent}]
  <1>1. /\ UNCHANGED <<status, th>> /\ Observe /\ bg.pc \in {"status", "value", "check"}
        /\ bg \in BgState /\ status["old"] \in Status /\ val["old"] \in Values
    BY DEF ReplaceLoadStatus, ReplaceLoadValue, ReplaceStore, Types, Cells, Memory
  <1>2. /\ bg' \in BgState /\ val' \in [Cells -> Values \cup {"old"}]
        /\ bg'.pc \in {"status", "value", "check", "removed"}
        /\ val'["old"] = val["old"] /\ Memory' /\ Copy'
    <2>1. CASE ReplaceLoadStatus
      <3>1. UNCHANGED val /\ bg' = [bg EXCEPT !.pc = "value", !.s = status["old"]]
        BY <2>1 DEF ReplaceLoadStatus
      <3>2. bg' \in BgState /\ bg'.pc = "value" /\ bg'.s = status["old"]
        BY <1>1, <3>1 DEF BgPcs, Before
      <3> QED
        BY <1>1, <3>1, <3>2 DEF Types, Memory, Copy, Before
    <2>2. CASE ReplaceLoadValue
      <3>1. UNCHANGED val /\ bg.pc = "value" /\ bg' = [bg EXCEPT !.pc = "check", !.v = val["old"]]
        BY <2>2 DEF ReplaceLoadValue
      <3>2. bg' \in BgState /\ bg'.pc = "check" /\ bg'.s = bg.s /\ bg'.v = val["old"]
        BY <1>1, <3>1 DEF BgPcs, Before
      <3> QED
        BY <1>1, <3>1, <3>2 DEF Types, Memory, Copy, Before
    <2>3. CASE ReplaceStore /\ bg'.pc = "status"
      <3>1. UNCHANGED val /\ bg' = [bg EXCEPT !.pc = "status"]
        BY <1>1, <2>3 DEF ReplaceStore
      <3>2. bg' \in BgState
        BY <1>1, <3>1 DEF BgPcs, Before
      <3> QED
        BY <1>1, <2>3, <3>1, <3>2 DEF Types, Memory, Copy, Before
    <2>4. CASE ReplaceStore /\ bg'.pc # "status"
      <3>1. /\ bg.pc = "check" /\ bg' = [bg EXCEPT !.pc = "removed"]
            /\ val' = [val EXCEPT !["new"] = bg.v]
        BY <1>1, <2>4 DEF ReplaceStore
      <3>2. bg' \in BgState /\ bg'.pc = "removed" /\ bg'.s = bg.s
        BY <1>1, <3>1 DEF BgPcs, Before
      <3>3. bg.v = val["old"] /\ bg.s = status["old"]
        BY <3>1 DEF Copy
      <3>4. /\ val'["new"] = val["old"] /\ val'["old"] = val["old"]
            /\ val' \in [Cells -> Values \cup {"old"}]
        BY <1>1, <3>1, <3>3 DEF Types, Cells
      <3> QED
        BY <1>1, <3>1, <3>2, <3>3, <3>4 DEF Memory, Copy, Before
    <2> QED
      BY <1>1, <2>1, <2>2, <2>3, <2>4
  <1>3. Types'
    BY <1>1, <1>2 DEF Types
  <1>4. Control' /\ Locks'
    BY <1>1, <1>2, ReplaceControl, ReplaceLocks
  <1>5. status["new"].ptr
    BY <1>1 DEF Memory, Before
  <1>6. Content' = Content /\ CellContent("old")' = CellContent("old")
    BY <1>1, <1>2, <1>5 DEF Content, CellContent
  <1>7. \A c \in Cells : status'[c].version >= status[c].version
    BY <1>1 DEF Types, Status
  <1> QED
    BY <1>1, <1>2, <1>3, <1>4, <1>5, <1>6, <1>7, ReplaceStep DEF Before

(* The steps in which replace_pointer rewrites the new record's status.    *)
LEMMA ReplaceWriteStep ==
  RecordInv /\ (ReplaceSetRemoved \/ unset_is_ptr \/ ReplaceVersion) => RecordInv' /\ Content' = Content
  <1> SUFFICES ASSUME RecordInv, ReplaceSetRemoved \/ unset_is_ptr \/ ReplaceVersion
               PROVE  RecordInv' /\ Content' = Content
    OBVIOUS
  <1> USE DEF RecordInv
  <1> DEFINE BgState == [pc : BgPcs, s : Status, v : Values \cup {"old", Absent}]
  <1>1. /\ UNCHANGED <<val, th>> /\ Observe /\ bg.pc \in {"removed", "unset", "version"}
        /\ bg \in BgState /\ status["new"] \in Status /\ status["old"] \in Status
    BY DEF ReplaceSetRemoved, unset_is_ptr, ReplaceVersion, Types, Cells
  <1>2. /\ bg' \in BgState /\ bg'.pc \in {"unset", "version", "unlock"}
        /\ bg'.pc = "unlock" => status'["new"].version > status["new"].version
        /\ status' \in [Cells -> Status] /\ status'["old"] = status["old"]
        /\ status'["new"].lock = status["new"].lock
        /\ status'["new"].version >= status["new"].version
        /\ ~status["new"].ptr => ~status'["new"].ptr
        /\ Memory' /\ Copy' /\ Content' = Content
    <2>1. CASE ReplaceSetRemoved
      <3>1. /\ bg.pc = "removed" /\ bg' = [bg EXCEPT !.pc = "unset"]
            /\ status' = [status EXCEPT !["new"]["removed"] = bg.s.removed]
        BY <2>1 DEF ReplaceSetRemoved, SetStatus
      <3>2. bg' \in BgState /\ bg'.pc = "unset" /\ bg.s = status["old"]
        BY <1>1, <3>1 DEF BgPcs, Copy
      <3>3. /\ status' \in [Cells -> Status] /\ status'["old"] = status["old"]
            /\ status'["new"] = [status["new"] EXCEPT !.removed = status["old"].removed]
        BY <1>1, <3>1, <3>2 DEF Types, Status, Cells
      <3>4. /\ status'["new"].removed = status["old"].removed
            /\ status'["new"].ptr = status["new"].ptr
            /\ status'["new"].lock = status["new"].lock
            /\ status'["new"].version = status["new"].version
            /\ status["new"].version \in Nat
        BY <1>1, <3>3 DEF Status
      <3> QED
        BY <1>1, <3>1, <3>2, <3>3, <3>4 DEF Memory, Copy, Before, Content, CellContent
    <2>2. CASE unset_is_ptr
      <3>1. /\ bg.pc = "unset" /\ bg' = [bg EXCEPT !.pc = "version"]
            /\ status' = [status EXCEPT !["new"]["ptr"] = FALSE]
        BY <2>2 DEF unset_is_ptr, SetStatus
      <3>2. bg' \in BgState /\ bg'.pc = "version"
        BY <1>1, <3>1 DEF BgPcs
      <3>3. /\ status' \in [Cells -> Status] /\ status'["old"] = status["old"]
            /\ status'["new"] = [status["new"] EXCEPT !.ptr = FALSE]
        BY <1>1, <3>1 DEF Types, Status, Cells
      <3>4. /\ ~status'["new"].ptr
            /\ status'["new"].removed = status["new"].removed
            /\ status'["new"].lock = status["new"].lock
            /\ status'["new"].version = status["new"].version
            /\ status["new"].version \in Nat
        BY <1>1, <3>3 DEF Status
      <3> QED
        BY <1>1, <3>1, <3>2, <3>3, <3>4 DEF Memory, Copy, Before, Content, CellContent
    <2>3. CASE ReplaceVersion
      <3>1. /\ bg.pc = "version" /\ bg' = [bg EXCEPT !.pc = "unlock"]
            /\ status' = [status EXCEPT !["new"]["version"] = status["new"].version + 1]
        BY <2>3 DEF ReplaceVersion, SetStatus
      <3>2. bg' \in BgState /\ bg'.pc = "unlock"
        BY <1>1, <3>1 DEF BgPcs
      <3>3. /\ status' \in [Cells -> Status] /\ status'["old"] = status["old"]
            /\ status'["new"] = [status["new"] EXCEPT !.version = status["new"].version + 1]
        BY <1>1, <3>1 DEF Types, Status, Cells
      <3>4. /\ status'["new"].ptr = status["new"].ptr
            /\ status'["new"].removed = status["new"].removed
            /\ status'["new"].lock = status["new"].lock
            /\ status'["new"].version > status["new"].version
            /\ status'["new"].version >= status["new"].version
        BY <1>1, <3>3 DEF Status
      <3> QED
        BY <1>1, <3>1, <3>2, <3>3, <3>4 DEF Memory, Copy, Before, Content, CellContent
    <2> QED
      BY <2>1, <2>2, <2>3
  <1>3. Types'
    BY <1>1, <1>2 DEF Types
  <1>4. Control' /\ Locks'
    BY <1>1, <1>2, ReplaceControl, ReplaceLocks DEF Cells
  <1>5. CellContent("old")' = CellContent("old")
    BY <1>1, <1>2 DEF CellContent
  <1>6. status'["old"].version >= status["old"].version
    BY <1>1, <1>2 DEF Status
  <1> QED
    BY <1>1, <1>2, <1>3, <1>4, <1>5, <1>6, ReplaceStep DEF Before, Cells

(* replace_pointer gives the lock back.                                    *)
LEMMA ReplaceUnlockStep == RecordInv /\ ReplaceUnlock => RecordInv' /\ Content' = Content
  <1> SUFFICES ASSUME RecordInv, ReplaceUnlock PROVE RecordInv' /\ Content' = Content
    OBVIOUS
  <1> USE DEF RecordInv
  <1>1. /\ UNCHANGED <<val, th>> /\ Observe /\ bg.pc = "unlock"
        /\ status' = [status EXCEPT !["new"]["lock"] = FALSE]
        /\ bg' = [pc |-> "replaced", s |-> Fresh, v |-> Absent]
    BY DEF ReplaceUnlock, SetStatus
  <1>2. bg'.pc = "replaced" /\ bg' \in [pc : BgPcs, s : Status, v : Values \cup {"old", Absent}]
    <2>1. Fresh \in Status
      BY DEF Fresh, Status
    <2> QED
      BY <1>1, <2>1 DEF BgPcs
  <1>3. /\ status' \in [Cells -> Status] /\ ~status'["new"].lock
        /\ status'["old"] = status["old"]
        /\ status'["new"].ptr = status["new"].ptr
        /\ status'["new"].version = status["new"].version
        /\ status'["new"].removed = status["new"].removed
    BY <1>1 DEF Types, Status, Cells
  <1>4. Types'
    BY <1>1, <1>2, <1>3 DEF Types
  <1>5. Control'
    BY <1>1, ReplaceControl
  <1>6. Memory' /\ Copy'
    BY <1>1, <1>2, <1>3 DEF Memory, Copy, Before
  <1>7. Locks'
    <2>1. \A t \in Threads : Holds(t)' = Holds(t)
      BY <1>1 DEF Holds
    <2>2. ReplaceHolds = {"new"} /\ ReplaceHolds' = {}
      BY <1>1, <1>2 DEF ReplaceHolds
    <2> QED
      BY <1>3, <2>1, <2>2 DEF Locks, Cells
  <1>8. Content' = Content /\ CellContent("old")' = CellContent("old")
    BY <1>1, <1>3 DEF Content, CellContent
  <1>9. \A c \in Cells : status'[c].version >= status[c].version
    BY <1>3 DEF Types, Status, Cells
  <1> QED
    BY <1>1, <1>2, <1>3, <1>4, <1>5, <1>6, <1>7, <1>8, <1>9, ReplaceStep DEF Cells, Before

(* A stuttering step. *)
LEMMA RecordStutter == RecordInv /\ UNCHANGED vars => RecordInv'
  <1> SUFFICES ASSUME RecordInv, UNCHANGED vars PROVE RecordInv'
    OBVIOUS
  <1> USE DEF RecordInv, vars
  <1>1. Types' /\ Memory' /\ Copy' /\ Seen'
    BY DEF Types, Memory, Copy, Seen
  <1>2. Control'
    BY DEF Control
  <1>3. Locks'
    <2>1. \A t \in Threads : Holds(t)' = Holds(t)
      BY DEF Holds
    <2>2. ReplaceHolds' = ReplaceHolds
      BY DEF ReplaceHolds
    <2> QED
      BY <2>1, <2>2 DEF Locks
  <1>4. Content' = Content /\ CellContent("old")' = CellContent("old")
    BY DEF Content, CellContent
  <1>5. Readers'
    BY <1>4 DEF Readers, LoadedBy, SeenBy
  <1> QED
    BY <1>1, <1>2, <1>3, <1>5

(* The invariant of the record protocol. *)
LEMMA RecordInvariant == Spec => []RecordInv
  <1>1. RecordInv /\ [Next]_vars => RecordInv'
    <2> SUFFICES ASSUME RecordInv, Next PROVE RecordInv'
      BY RecordStutter
    <2>1. CASE replace_pointer
      BY <2>1, ReplaceLockStep, ReplaceReadStep, ReplaceWriteStep, ReplaceUnlockStep
         DEF replace_pointer
    <2>2. ASSUME NEW t \in Threads, Begin(t) \/ Step(t) PROVE RecordInv'
      BY <2>2, BeginStep, LoadStatusStep, LoadValueStep, ReadCheckStep, LockStep,
         FollowToWriteStep, ActStep, IncrVersionStep, UnlockStep, ReturnStep DEF Step
    <2> QED
      BY <2>1, <2>2 DEF Next
  <1> QED
    BY <1>1, RecordInit, PTL DEF Spec
--------------------------------------------------------------------------------
(* Records hold values, only the new one ever a pointer, and the local     *)
(* state of every operation keeps its type (AtomicVal of xindex_util.h).   *)
THEOREM AtomicValTypeOK == Spec => []TypeOK
  <1>1. RecordInv => TypeOK
    BY DEF RecordInv, Types, Seen, TypeOK, ThreadState, Reading, Writing, Values, Contents
  <1> QED
    BY <1>1, RecordInvariant, PTL

(* The lock bits that lock and unlock keep are exact for any number of     *)
(* threads, and no owner of the old record's lock waits for a lock.        *)
THEOREM AtomicValLocks == Spec => []LocksOwned
  <1>1. RecordInv => LocksOwned
    <2> SUFFICES ASSUME RecordInv PROVE LocksOwned
      OBVIOUS
    <2> USE DEF RecordInv
    <2>1. ASSUME NEW c \in Cells
          PROVE  LET owners == {t \in Threads : c \in Holds(t)}
                 IN IF status[c].lock
                      THEN IF c \in ReplaceHolds THEN owners = {}
                                                 ELSE \E t \in owners : owners = {t}
                      ELSE c \notin ReplaceHolds /\ owners = {}
      <3> DEFINE owners == {t \in Threads : c \in Holds(t)}
      <3>1. status[c].lock /\ c \in ReplaceHolds => owners = {}
        BY DEF Locks
      <3>2. status[c].lock /\ c \notin ReplaceHolds => \E t \in owners : owners = {t}
        <4> SUFFICES ASSUME status[c].lock, c \notin ReplaceHolds
                     PROVE  \E t \in owners : owners = {t}
          OBVIOUS
        <4>1. PICK t \in Threads : c \in Holds(t)
          BY DEF Locks
        <4>2. \A u \in owners : u = t
          BY <4>1 DEF Locks
        <4> QED
          BY <4>1, <4>2
      <3>3. ~status[c].lock => c \notin ReplaceHolds /\ owners = {}
        BY DEF Locks
      <3> QED
        BY <3>1, <3>2, <3>3
    <2>2. ASSUME NEW t \in Threads, th[t].pc = "lock" PROVE "old" \notin Holds(t)
      <3>1. ThreadControl(th[t], bg.pc)
        BY DEF Control
      <3> QED
        BY <2>2, <3>1 DEF ThreadControl, Holds
    <2> QED
      BY <2>1, <2>2 DEF LocksOwned
  <1> QED
    BY <1>1, RecordInvariant, PTL

(* read, update and remove follow only words that are pointers, though     *)
(* replace_pointer overwrites the pointer before it clears the bit.        *)
THEOREM AtomicValPointers == Spec => []PointersAreFollowedSafely
  <1>1. RecordInv => PointersAreFollowedSafely
    BY Followed, PointerToOld DEF PointersAreFollowedSafely
  <1> QED
    BY <1>1, RecordInvariant, PTL

(* Every operation answers with a content the key had during it, however   *)
(* many threads write and wherever replace_pointer stands.                 *)
THEOREM AtomicValAnswers == Spec => []AtomicAnswers
  <1>1. RecordInv => AtomicAnswers
    BY DEF RecordInv, Readers, SeenBy, AtomicAnswers
  <1> QED
    BY <1>1, RecordInvariant, PTL
(* The key's content is changed only by an update or removal that          *)
(* succeeds: no step of replace_pointer, of a read or of the locking       *)
(* changes it, and a removed key is not revived.                           *)
THEOREM AtomicValOnlyWriters == Spec => OnlyWritersChange
  <1> DEFINE Written ==
        Content' # Content =>
          /\ Content # Absent
          /\ \E t \in Threads : /\ th[t].pc = "act" /\ th'[t].res = "ok"
                                /\ Content' = IF th[t].op = "update" THEN t ELSE Absent
  <1>1. RecordInv /\ [Next]_vars => [Written]_vars
    <2> SUFFICES ASSUME RecordInv, Next PROVE Written
      OBVIOUS
    <2>1. CASE replace_pointer
      BY <2>1, ReplaceLockStep, ReplaceReadStep, ReplaceWriteStep, ReplaceUnlockStep
         DEF replace_pointer
    <2>2. ASSUME NEW t \in Threads, Begin(t) \/ Step(t) PROVE Written
      <3>1. CASE Begin(t) \/ LoadStatus(t) \/ LoadValue(t) \/ read_check(t)
                 \/ FollowToWrite(t) \/ Return(t)
        <4>1. UNCHANGED <<status, val>>
          BY <3>1 DEF Begin, LoadStatus, LoadValue, read_check, FollowToWrite, Return
        <4> QED
          BY <4>1 DEF Content, CellContent
      <3>2. CASE Lock(t) \/ incr_version(t) \/ Unlock(t)
        BY <3>2, LockStep, IncrVersionStep, UnlockStep
      <3>3. CASE Act(t)
        BY <3>3, ActStep
      <3> QED
        BY <2>2, <3>1, <3>2, <3>3 DEF Step
    <2> QED
      BY <2>1, <2>2 DEF Next
  <1> QED
    BY <1>1, RecordInvariant, PTL DEF Spec, OnlyWritersChange
================================================================================
