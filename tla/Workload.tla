-------------------------------- MODULE Workload --------------------------------
(***************************************************************************)
(* How the micro-benchmark makes its workload out of its command line      *)
(* (module Flags): load_keys reads the key file and chooses the keys that  *)
(* are bulk loaded; generate_operations draws the operations.  After a row *)
(* of measurements (module BenchRun), which does not touch the keys, run   *)
(* computes the metric of the dataset (module PgmMetric).                  *)
(***************************************************************************)
EXTENDS Flags, PgmMetric

CONSTANTS Files,   \* for every path the contents its file may have
          Printed  \* load_keys prints this many keys (10)

ASSUME PrintedAssumption == Printed \in Nat

(* The kinds in the order generate_operations tries them, and their flags. *)
Kinds == <<"READ", "INSERT", "UPDATE", "SCAN", "DELETE">>
Ratio(n) == ratio[<<"read", "insert", "update", "scan", "delete">>[n]]

VARIABLES pc, file, init_keys, operations_num, operations, i, insert_counter, delete_counter

counters == <<insert_counter, delete_counter>>
loaded == <<file, init_keys>>
workload == <<pc, loaded, keys, operations, i, counters, metricvars>>
vars == <<flagvars, workload, operations_num>>

table_size == Len(keys)
init_table_size == Len(init_keys)
Sorted(s) == SortSeq(s, <)
InitSize(n) == (number["init_table_ratio"] * n) \div Unit
Shuffles(s) == {[j \in DOMAIN s |-> s[p[j]]] :
                  p \in {q \in [DOMAIN s -> DOMAIN s] : IsInjective(q)}}
OfKind(kinds) == {j \in DOMAIN operations : operations[j][1] \in kinds}

Init ==
  /\ ParseInit
  /\ pc = "load" /\ file = <<>>
  /\ keys = <<>> /\ init_keys = <<>>
  /\ operations_num = 0 /\ operations = <<>> /\ i = 0
  /\ insert_counter = 0 /\ delete_counter = 0
  /\ MetricInit(0)

(* main parses the command line first. *)
ParseFlag == parse_flags /\ UNCHANGED <<workload, operations_num>>
ParseArgs ==
  /\ parse_args
  /\ operations_num' = number'["operations_num"]
  /\ UNCHANGED workload

(* load_binary_data and load_text_data: the whole file, or its first       *)
(* table_size keys.                                                        *)
LoadLength(f) ==
  IF number["table_size"] < 0 \/ number["table_size"] > Len(f) THEN Len(f)
                                                             ELSE number["table_size"]

KnownType == get_with_default("keys_file_type", "binary") \in {"binary", "text"}

(* Fault: duplicates of the file are kept. *)
Arranged_Duplicates(s) == IF data_shift THEN {s} ELSE Shuffles(s)

(* Without data_shift the keys are sorted, made unique and shuffled. *)
Arranged(s) == IF data_shift THEN {s} ELSE SetToSeqs(ToSet(s))

(* Printing the first keys of a shorter table reads past its end. *)
load_keys ==
  /\ pc = "load" /\ outcome = "run"
  /\ file' \in Files[keys_file_path]
  /\ IF ~KnownType \/ LoadLength(file') <= 0
       THEN pc' = "exit" /\ UNCHANGED <<keys, init_keys>>
       ELSE /\ keys' \in Arranged(SubSeq(file', 1, LoadLength(file')))
            /\ pc' = IF Len(keys') < Printed THEN "undefined" ELSE "prepare"
            /\ init_keys' = Sorted(SubSeq(keys', 1, InitSize(Len(keys'))))
  /\ UNCHANGED <<flagvars, operations_num, operations, i, counters, metricvars>>

(* generate_operations up to its loop.  Sampling from no keys is           *)
(* undefined.  With data_shift the keys that are left to insert are sorted *)
(* and shuffled.                                                           *)
generate_operations ==
  /\ pc = "prepare"
  /\ pc' = IF init_table_size = 0 THEN "undefined" ELSE "generate"
  /\ insert_counter' = init_table_size
  /\ delete_counter' = (table_size * (Unit - number["del_table_ratio"])) \div Unit
  /\ IF data_shift
       THEN \E rest \in Shuffles(SubSeq(keys, init_table_size + 1, table_size)) :
              keys' = SubSeq(keys, 1, init_table_size) \o rest
       ELSE UNCHANGED keys
  /\ UNCHANGED <<flagvars, loaded, operations_num, operations, i, metricvars>>

(* The kind a draw below Unit selects: the ratios are stacked in the order *)
(* of Kinds, and DELETE takes what is left.                                *)
Below(prob, n) == prob < FoldSeq(+, 0, [j \in 1 .. n |-> Ratio(j)])
Drawn(kind) ==
  \E prob \in 0 .. Unit - 1 :
    \E n \in 1 .. 5 :
      /\ Kinds[n] = kind
      /\ \A m \in 1 .. n - 1 : ~Below(prob, m)
      /\ n = 5 \/ Below(prob, n)

Drawing(kind) == pc = "generate" /\ i < operations_num /\ Drawn(kind)
Push(kind, key) ==
  /\ operations' = Append(operations, <<kind, key>>)
  /\ i' = i + 1
  /\ UNCHANGED <<pc, operations_num>>
(* Fault: operations_num keeps its old value. *)
Truncate_KeepNum ==
  /\ pc' = "done"
  /\ UNCHANGED <<operations_num, operations, i>>

Truncate ==
  /\ operations_num' = i
  /\ pc' = "done"
  /\ UNCHANGED <<operations, i>>

(* READ, UPDATE and SCAN take a key sampled from init_keys. *)
GenerateSampled(kind) ==
  /\ Drawing(kind)
  /\ \E key \in ToSet(init_keys) : Push(kind, key)
  /\ UNCHANGED <<flagvars, loaded, keys, counters, metricvars>>

(* INSERT takes the next key that was not bulk loaded; when there is none  *)
(* the workload ends here.                                                 *)
GenerateInsert ==
  /\ Drawing("INSERT")
  /\ IF insert_counter >= table_size
       THEN Truncate /\ UNCHANGED counters
       ELSE /\ Push("INSERT", keys[insert_counter + 1])
            /\ insert_counter' = insert_counter + 1
            /\ UNCHANGED delete_counter
  /\ UNCHANGED <<flagvars, loaded, keys, metricvars>>

GenerateDelete ==
  /\ Drawing("DELETE")
  /\ IF delete_counter >= table_size
       THEN Truncate /\ UNCHANGED counters
       ELSE /\ Push("DELETE", keys[delete_counter + 1])
            /\ delete_counter' = delete_counter + 1
            /\ UNCHANGED insert_counter
  /\ UNCHANGED <<flagvars, loaded, keys, metricvars>>

Finish ==
  /\ pc = "generate" /\ i >= operations_num
  /\ pc' = "done"
  /\ UNCHANGED <<flagvars, loaded, keys, operations_num, operations, i, counters, metricvars>>

generated == <<flagvars, loaded, operations_num, operations, i, counters>>

(* After the first row: run sorts the keys in place and measures them.     *)
(* Later rows do it again, on keys that are sorted already.                *)
StartStatistic ==
  /\ pc = "done" /\ dataset_statistic /\ lists["index"] # <<>>
  /\ pc' = "metric"
  /\ keys' = Sorted(keys)
  /\ StartMetric(number["error_bound"])
  /\ UNCHANGED generated

(* PGM_metric, point by point; nothing catches what add_point throws.      *)
MeasurePoint ==
  /\ pc = "metric" /\ (AddPoint \/ BeginSegment)
  /\ UNCHANGED <<generated, pc, keys>>
ThrowStatistic ==
  /\ pc = "metric" /\ NotIncreasing
  /\ pc' = "terminated"
  /\ UNCHANGED <<generated, keys, metricvars>>
EndStatistic ==
  /\ pc = "metric" /\ ~More
  /\ pc' = "measured"
  /\ UNCHANGED <<generated, keys, metricvars>>

Next ==
  \/ ParseFlag \/ ParseArgs \/ load_keys \/ generate_operations
  \/ \E kind \in {"READ", "UPDATE", "SCAN"} : GenerateSampled(kind)
  \/ GenerateInsert \/ GenerateDelete \/ Finish
  \/ StartStatistic \/ MeasurePoint \/ ThrowStatistic \/ EndStatistic

Spec == Init /\ [][Next]_vars
--------------------------------------------------------------------------------
(* Operations are made of keys of the file, and the sizes agree with the   *)
(* arrays.                                                                 *)
TypeOK ==
  /\ pc \in {"load", "exit", "prepare", "generate", "done", "undefined",
             "metric", "terminated", "measured"}
  /\ ToSet(keys) \subseteq ToSet(file)
  /\ init_table_size \in 0 .. table_size /\ rank \in 0 .. table_size
  /\ ToSet(operations) \subseteq ToSet(Kinds) \X ToSet(keys)
  /\ i = Len(operations) /\ operations_num \in 0 .. number["operations_num"]
  /\ insert_counter \in 0 .. table_size /\ delete_counter \in 0 .. table_size

(* run executes operations[0 .. operations_num - 1]: they exist, also when *)
(* the keys ran out before operations_num operations were drawn.           *)
OperationsExist == pc = "done" => Len(operations) = operations_num

(* An inserted key was neither loaded nor inserted before, no key is       *)
(* deleted twice, and a key that is looked up was loaded.  Without deletes *)
(* the outcome of every operation is then the same in whatever order the   *)
(* threads execute them.  data_shift keeps the duplicates of the file, but *)
(* loads its first keys and inserts the others, each as often as it occurs *)
(* there: the shift from one dataset to the other happens between loading  *)
(* and inserting.                                                          *)
Occurrences(s, k) == Cardinality({j \in DOMAIN s : s[j] = k})
FreshKeys ==
  /\ ~data_shift =>
       /\ \A j, k \in OfKind({"INSERT"}) : operations[j] = operations[k] => j = k
       /\ \A j \in OfKind({"INSERT"}) : operations[j][2] \notin ToSet(init_keys)
       /\ \A j, k \in OfKind({"DELETE"}) : operations[j] = operations[k] => j = k
       /\ \A j \in OfKind({"READ", "UPDATE", "SCAN"}) : operations[j][2] \in ToSet(init_keys)
  /\ data_shift /\ pc \in {"generate", "done"} =>
       /\ init_keys = Sorted(SubSeq(file, 1, init_table_size))
       /\ \A k \in ToSet(file) :
            Cardinality({j \in OfKind({"INSERT"}) : operations[j][2] = k})
              <= Occurrences(SubSeq(file, init_table_size + 1, Len(file)), k)

(* The metric that is reported with a row is the least number of segments  *)
(* the dataset can be cut into with this error bound, and it is reported   *)
(* unless data_shift kept duplicates of the file for add_point to throw on.*)
MetricMinimal ==
  /\ pc = "measured" => metric = MinSegments
  /\ pc = "terminated" => data_shift

(* "Calculate data hardness (PLA-metric) with specified model error bound  *)
(* of the input dataset" (README.md): the program lives to report it.      *)
MetricReported == pc # "terminated"

(* "delete_ratio  the ratio of delete operation": none is generated when   *)
(* the ratio is 0.                                                         *)
NoUnaskedDelete == outcome = "run" /\ ratio["delete"] = 0 => OfKind({"DELETE"}) = {}

(* --data_shift is "preserving the order in the key file": the keys are    *)
(* inserted in that order.                                                 *)
FileOrderKept ==
  data_shift /\ pc = "done" =>
    [j \in 1 .. Cardinality(OfKind({"INSERT"})) |->
       SelectSeq(operations, LAMBDA o : o[1] = "INSERT")[j][2]]
    = SubSeq(file, init_table_size + 1, init_table_size + Cardinality(OfKind({"INSERT"})))
================================================================================
