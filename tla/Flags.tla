---------------------------------- MODULE Flags ----------------------------------
(***************************************************************************)
(* The command line of the micro-benchmark: parse_flags turns the          *)
(* arguments into a map, parse_args reads the map into the parameters of   *)
(* the benchmark and checks them.  An argument is a flag (it begins with   *)
(* "--") or not, a key, and a value, NoValue if it has no "=".  Ratios are *)
(* in steps of 1 / Unit.  The steps are composed in module Workload.       *)
(***************************************************************************)
EXTENDS Integers, Sequences, Functions, SequencesExt

CONSTANTS CommandLines,  \* command lines: sequences of arguments
          Unit,          \* steps of a ratio
          Slack,         \* how far from 1 the ratios may sum up, in steps
          Defaults,      \* default of each number
          NoValue

RatioFlags == {"read", "insert", "delete", "update", "scan"}
NumberFlags == {"operations_num", "table_size", "init_table_ratio", "del_table_ratio",
                "scan_num", "latency_sample_ratio", "error_bound", "seed"}

ASSUME FlagAssumption ==
  /\ Unit \in Nat \ {0} /\ Slack \in Nat
  /\ Defaults \in [NumberFlags -> Int]

VARIABLES argv, arg, flags, ratio, number, lists, outcome

flagvars == <<argv, arg, flags, ratio, number, lists, outcome>>
parsed == <<ratio, number, lists>>

ParseInit ==
  /\ argv \in CommandLines
  /\ arg = 1
  /\ flags = <<>>
  /\ ratio = [f \in RatioFlags |-> 0]
  /\ number = Defaults
  /\ lists = [f \in {"thread_num", "index"} |-> <<>>]
  /\ outcome = "parsing"

(* Fault: the first argument for a flag wins.                              *)
parse_flags_FirstWins ==
  /\ outcome = "parsing" /\ arg <= Len(argv)
  /\ arg' = arg + 1
  /\ flags' = IF argv[arg].flag
                THEN [k \in DOMAIN flags \cup {argv[arg].key} |->
                        IF k \in DOMAIN flags THEN flags[k] ELSE argv[arg].value]
                ELSE flags
  /\ UNCHANGED <<argv, parsed, outcome>>

(* One iteration of parse_flags; an argument that is no flag is skipped.   *)
parse_flags ==
  /\ outcome = "parsing" /\ arg <= Len(argv)
  /\ arg' = arg + 1
  /\ flags' = IF argv[arg].flag
                THEN [k \in DOMAIN flags \cup {argv[arg].key} |->
                        IF k = argv[arg].key THEN argv[arg].value ELSE flags[k]]
                ELSE flags
  /\ UNCHANGED <<argv, parsed, outcome>>

Has(key) == key \in DOMAIN flags
get_with_default(key, default) == IF Has(key) THEN flags[key] ELSE default
get_comma_separated(key) == IF get_with_default(key, NoValue) = NoValue THEN <<>> ELSE flags[key]

(* get_boolean_flag: whatever its value. *)
data_shift == Has("data_shift")
dataset_statistic == Has("dataset_statistic")
keys_file_path == flags["keys_file"]

(* stod and stoi of a flag without a value throw, get_required of a flag   *)
(* that is not there dereferences end(), a failed INVARIANT aborts.        *)
Throws ==
  \/ \E f \in RatioFlags : get_with_default(f, 0) = NoValue
  \/ \E f \in NumberFlags : get_with_default(f, Defaults[f]) = NoValue
Invariants(r, threads) ==
  /\ r["insert"] = 0 \/ r["delete"] = 0
  /\ FoldFunction(+, 0, r) > Unit - Slack /\ FoldFunction(+, 0, r) < Unit + Slack
  /\ get_with_default("sample_distribution", "uniform") \in {"zipf", "uniform"}
  /\ Len(threads) > 0

parse_args ==
  /\ outcome = "parsing" /\ arg > Len(argv)
  /\ CASE ~Has("keys_file") \/ ~Has("read") ->
            outcome' = "undefined" /\ UNCHANGED parsed
       [] Has("keys_file") /\ Has("read") /\ Throws ->
            outcome' = "abort" /\ UNCHANGED parsed
       [] OTHER ->
            /\ ratio' = [f \in RatioFlags |-> get_with_default(f, 0)]
            /\ number' = [f \in NumberFlags |-> get_with_default(f, Defaults[f])]
            /\ lists' = [f \in {"thread_num", "index"} |-> get_comma_separated(f)]
            /\ outcome' = IF Invariants(ratio', lists'["thread_num"]) THEN "run" ELSE "abort"
  /\ UNCHANGED <<argv, arg, flags>>
--------------------------------------------------------------------------------
(* The last argument that gives a flag. *)
Given(key) == {j \in DOMAIN argv : argv[j].flag /\ argv[j].key = key}
LastOf(key) == argv[CHOOSE j \in Given(key) : \A k \in Given(key) : k <= j].value

(* A benchmark that runs has the ratios and the numbers of the command     *)
(* line, each by the last argument for it and its default if there is      *)
(* none, and the ratios make a workload: they sum up to one, give or take  *)
(* the slack, and do not mix inserts with deletes.                         *)
RunsAsAsked ==
  outcome = "run" =>
    /\ \A f \in RatioFlags : ratio[f] = IF Given(f) = {} THEN 0 ELSE LastOf(f)
    /\ \A f \in NumberFlags : number[f] = IF Given(f) = {} THEN Defaults[f] ELSE LastOf(f)
    /\ FoldFunction(+, 0, ratio) \in Unit - Slack + 1 .. Unit + Slack - 1
    /\ ratio["insert"] = 0 \/ ratio["delete"] = 0

(* README.md, range query: "--scan_ratio=1 --scan_num=100".                *)
ScanRatioHonoured ==
  outcome = "run" /\ Given("scan_ratio") # {} => ratio["scan"] = LastOf("scan_ratio")

(* all_index_type is marked "required": no benchmark runs without it.      *)
IndexRequired == outcome = "run" => Len(lists["index"]) > 0
================================================================================
