------------------------------- MODULE TestDriver -------------------------------
(***************************************************************************)
(* The correctness test of the repository: main loads the entries of a     *)
(* dataset (key, position in key order) and runs TestRead or               *)
(* TestReadWrite.  The iterations of a parallel_for run in any order.  The *)
(* index under test is a map that may answer wrongly.                      *)
(***************************************************************************)
EXTENDS Naturals, Sequences, SequencesExt

CONSTANTS Datasets,  \* contents of dataset files
          Draws,     \* what the generator of --dataset=uniform may draw
          DefaultKeys, \* 200000000: keys drawn when num_keys is 0
          Settings,  \* flags of main, and whether the index may answer wrongly
          NDEBUG     \* asserts are compiled out

ASSUME SettingsAssumption ==
  /\ NDEBUG \in BOOLEAN /\ DefaultKeys \in Nat \ {0}
  /\ Settings \subseteq [uniform : BOOLEAN, num_keys : Nat, test_type : {"ro", "rw"},
                         round : Nat, faulty : BOOLEAN]

VARIABLES setting,
          pc,       \* the loop main is in, or how the program ended
          entries,  \* entries[i]: key of the i-th entry; its value is i
          source,   \* history: the keys of the file, or those drawn
          index,    \* what the index should hold
          late,     \* positions of the entries put after bulk_load (e2)
          todo,     \* iterations left of the current parallel_for
          good, r,  \* locals of TestRead
          wrong     \* history: some answer of the index was wrong

vars == <<setting, pc, entries, source, index, late, todo, good, r, wrong>>
locals == <<late, todo, good, r, wrong>>

uniform == setting.uniform
num_keys == setting.num_keys
test_type == setting.test_type
round == setting.round
Faulty == setting.faulty

Min2(a, b) == IF a < b THEN a ELSE b
Sorted(S) == [j \in 1 .. Cardinality(S) |->
                CHOOSE x \in S : Cardinality({y \in S : y < x}) = j - 1]
Zeros(n) == [j \in 1 .. n |-> 0]
Positions == DOMAIN entries

Init ==
  /\ setting \in Settings
  /\ pc = "load"
  /\ entries = <<>> /\ source = {} /\ index = <<>>
  /\ late = {} /\ todo = {} /\ good = TRUE /\ r = 0 /\ wrong = FALSE

(* LoadEntries: the limit is compared with the size of the file, and       *)
(* resize pads with zeros when fewer keys are left.                        *)
Limited(data) ==
  LET unique == ToSet(data)
      size == Cardinality(unique)
  IN IF num_keys > 0 /\ num_keys < Len(data)
       THEN {Zeros(num_keys - Min2(num_keys, size)) \o Sorted(S) :
               S \in {T \in SUBSET unique : Cardinality(T) = Min2(num_keys, size)}}
       ELSE {Sorted(unique)}

LoadEntries ==
  /\ pc = "load" /\ ~uniform
  /\ pc' = "check"
  /\ \E data \in Datasets : entries' \in Limited(data) /\ source' = ToSet(data)
  /\ UNCHANGED <<setting, index, locals>>

(* UniformRandomEntries: n draws in a vector a tenth longer, the rest      *)
(* zeros; sorted, made unique, and cut to n.                               *)
drawn == IF num_keys = 0 THEN DefaultKeys ELSE num_keys
UniformRandomEntries ==
  /\ pc = "load" /\ uniform
  /\ \E data \in {d \in Draws : Len(d) = drawn} :
       LET zero == IF (drawn * 11) \div 10 > drawn THEN {0} ELSE {}
           keys == Sorted(ToSet(data) \cup zero)
       IN /\ source' = ToSet(data)
          /\ IF Len(keys) < drawn
               THEN /\ pc' = IF NDEBUG THEN "undefined" ELSE "abort"
                    /\ UNCHANGED entries
               ELSE pc' = "check" /\ entries' = SubSeq(keys, 1, drawn)
  /\ UNCHANGED <<setting, index, locals>>

Increasing == \A j \in 2 .. Len(entries) : entries[j] > entries[j - 1]
AssertFails(b) == ~b /\ ~NDEBUG

(* main: assert(entries[i].first > entries[i - 1].first). *)
CheckEntries ==
  /\ pc = "check"
  /\ pc' = IF AssertFails(Increasing) THEN "abort" ELSE "bulk"
  /\ UNCHANGED <<setting, entries, source, index, locals>>

(* A map of the entries at positions P; of equal keys the last one stays.  *)
MapOf(P) == [k \in {entries[p] : p \in P} |->
               CHOOSE p \in P : entries[p] = k /\ \A q \in P : entries[q] = k => q <= p]

TestReadLoad ==
  /\ pc = "bulk" /\ test_type = "ro"
  /\ index' = MapOf(Positions)
  /\ todo' = Positions
  /\ pc' = IF round = 0 THEN "report" ELSE "read"
  /\ UNCHANGED <<setting, entries, source, late, good, r, wrong>>

(* The entries are shuffled and split: the first half is bulk loaded. *)
TestReadWriteLoad ==
  /\ pc = "bulk" /\ test_type = "rw"
  /\ \E P \in SUBSET Positions :
       /\ Cardinality(P) = Len(entries) \div 2
       /\ index' = MapOf(P)
       /\ late' = Positions \ P
       /\ todo' = Positions \ P
  /\ pc' = "put"
  /\ UNCHANGED <<setting, entries, source, good, r, wrong>>

(* A call of the index answers b, or anything if the index is faulty. *)
Answers(b) == IF Faulty THEN BOOLEAN ELSE {b}
Found(p) == entries[p] \in DOMAIN index /\ index[entries[p]] = p

(* One iteration of TestRead's loop: res[i] = (ok && val == ids[i]). *)
ReadTask(p) ==
  /\ pc = "read" /\ p \in todo
  /\ \E ok \in Answers(Found(p)) :
       /\ good' = (good /\ ok)
       /\ wrong' = (wrong \/ ~ok)
  /\ todo' = todo \ {p}
  /\ UNCHANGED <<setting, pc, entries, source, index, late, r>>

(* Fault: a round forgets the verdict of the rounds before. *)
NextRound_Forget ==
  /\ pc = "read" /\ todo = {}
  /\ r' = r + 1
  /\ IF r + 1 < round
       THEN todo' = Positions /\ good' = TRUE /\ UNCHANGED pc
       ELSE pc' = "report" /\ UNCHANGED <<todo, good>>
  /\ UNCHANGED <<setting, entries, source, index, late, wrong>>

NextRound ==
  /\ pc = "read" /\ todo = {}
  /\ r' = r + 1
  /\ IF r + 1 < round
       THEN todo' = Positions /\ UNCHANGED pc
       ELSE pc' = "report" /\ UNCHANGED todo
  /\ UNCHANGED <<setting, entries, source, index, late, good, wrong>>

(* The iterations of TestReadWrite's three loops. *)
Task(p, ok) ==
  /\ todo' = todo \ {p}
  /\ wrong' = (wrong \/ ~ok)
  /\ pc' = IF AssertFails(ok) THEN "abort" ELSE pc
  /\ UNCHANGED <<setting, entries, source, late, good, r>>

PutTask(p) ==
  /\ pc = "put" /\ p \in todo
  /\ \E ok \in Answers(entries[p] \notin DOMAIN index) : Task(p, ok)
  /\ index' = [k \in DOMAIN index \cup {entries[p]} |-> IF k = entries[p] THEN p ELSE index[k]]

GetTask(p) ==
  /\ pc = "get" /\ p \in todo
  /\ \E ok \in Answers(Found(p)) : Task(p, ok)
  /\ UNCHANGED index

RemoveTask(p) ==
  /\ pc = "remove" /\ p \in todo
  /\ \E ok \in Answers(entries[p] \in DOMAIN index) : Task(p, ok)
  /\ index' = [k \in DOMAIN index \ {entries[p]} |-> index[k]]

(* Fault: a loop is left before its iterations are joined. *)
NextLoop_NoJoin ==
  /\ pc \in {"put", "get", "remove"}
  /\ pc' = CASE pc = "put" -> "get" [] pc = "get" -> "remove" [] pc = "remove" -> "report"
  /\ todo' = CASE pc = "put" -> Positions [] pc = "get" -> late [] pc = "remove" -> {}
  /\ UNCHANGED <<setting, entries, source, index, late, good, r, wrong>>

(* The join of a parallel_for and the start of the next one. *)
NextLoop ==
  /\ pc \in {"put", "get", "remove"} /\ todo = {}
  /\ pc' = CASE pc = "put" -> "get" [] pc = "get" -> "remove" [] pc = "remove" -> "report"
  /\ todo' = CASE pc = "put" -> Positions [] pc = "get" -> late [] pc = "remove" -> {}
  /\ UNCHANGED <<setting, entries, source, index, late, good, r, wrong>>

Next ==
  \/ LoadEntries \/ UniformRandomEntries \/ CheckEntries
  \/ TestReadLoad \/ TestReadWriteLoad \/ NextRound \/ NextLoop
  \/ \E p \in Positions : ReadTask(p) \/ PutTask(p) \/ GetTask(p) \/ RemoveTask(p)

Spec == Init /\ [][Next]_vars
--------------------------------------------------------------------------------
(* The program printed "good: true" or "All good!". *)
Praised == pc = "report" /\ good

(* Positions stay within the entries, and the index holds values of        *)
(* entries only.                                                           *)
TypeOK ==
  /\ pc \in {"load", "check", "bulk", "read", "put", "get", "remove", "report", "abort",
             "undefined"}
  /\ late \subseteq Positions /\ todo \subseteq Positions
  /\ \A k \in DOMAIN index : index[k] \in Positions /\ entries[index[k]] = k
  /\ {good, wrong} \subseteq BOOLEAN /\ r \in 0 .. round

(* main asserts that the keys of the entries are strictly increasing.      *)
EntriesIncrease == pc \notin {"load"} => Increasing

(* The program says that all is good only if the index gave no wrong       *)
(* answer in any round, whatever the order of the iterations.              *)
GoodMeansRight == Praised => ~wrong

(* More keys were asked for than the source has different ones.            *)
Short == Cardinality(source) < IF uniform THEN drawn ELSE num_keys

(* An index that behaves like a map is never blamed: it gives no wrong     *)
(* answer, the test ends with praise, and an assert fails only before the  *)
(* index is built and because LoadEntries or UniformRandomEntries ran out  *)
(* of different keys and padded with zeros.                                *)
NoFalseAlarm ==
  ~Faulty => /\ ~wrong
             /\ pc = "report" => Praised
             /\ pc = "abort" => Short /\ index = <<>>
================================================================================
