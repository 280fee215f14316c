------------------------------ MODULE MCWorkload -------------------------------
(* Instances of Workload for TLC: ratios in quarters. *)
EXTENDS Workload

Flag(k, v) == [flag |-> TRUE, key |-> k, value |-> v]
NoFlag(k, v) == [flag |-> FALSE, key |-> k, value |-> v]

(* Three operations of the whole file unless the command line says more. *)
FewOperations ==
  [f \in NumberFlags |-> CASE f = "operations_num" -> 3 [] f = "table_size" -> -1 [] f = "error_bound" -> 1 [] OTHER -> 2]

(* A path and a thread number, and up to two arguments out of few: flags   *)
(* given twice, without "--", without a value, or missing.                 *)
Base == <<Flag("keys_file", "path"), Flag("thread_num", <<1, 2>>)>>
Short ==
  {Base \o s : s \in UNION {[1 .. n ->
     {Flag("read", 4), Flag("read", 2), Flag("insert", 2), Flag("insert", NoValue),
      NoFlag("read", 4)}] : n \in 0 .. 2}}

Reads == Base \o <<Flag("read", 4)>>
Inserts == Base \o <<Flag("read", 2), Flag("insert", 2)>>
(* All kinds but insert, on three keys of the file. *)
Deletes ==
  Base \o <<Flag("read", 1), Flag("update", 1), Flag("scan", 1), Flag("delete", 1),
            Flag("table_size", 3), Flag("del_table_ratio", 3)>>
Shift == Inserts \o <<Flag("data_shift", NoValue)>>

(* The metric of the dataset: of shuffled short files with duplicates, and *)
(* of long files as they are.                                              *)
Statistic == <<Flag("read", 4), Flag("index", <<"xindex">>), Flag("operations_num", 0),
               Flag("dataset_statistic", NoValue)>>
Whole == <<Flag("keys_file", "long"), Flag("thread_num", <<1>>), Flag("data_shift", NoValue),
           Flag("init_table_ratio", 4)>>
Metrics == {Base \o Statistic} \cup
           {Whole \o Statistic \o <<Flag("error_bound", e)>> : e \in 0 .. 2}

Lines ==
  Metrics \cup
  Short \cup
  {Deletes, Shift, <<Flag("read", 4)>>, <<Flag("keys_file", "path"), Flag("read", 4)>>,
   Inserts \o <<Flag("delete", 2)>>, Reads \o <<Flag("init_table_ratio", 0)>>,
   Reads \o <<Flag("table_size", 0)>>, Reads \o <<Flag("keys_file_type", "csv")>>,
   Reads \o <<Flag("sample_distribution", "normal")>>,
   Reads \o <<Flag("operations_num", 1), Flag("operations_num", 2)>>}

(* Key files with up to four keys, duplicates included. *)
ShortFiles == UNION {[1 .. n -> 1 .. 3] : n \in 0 .. 4}
(* Seven and eight keys with gaps, the first 0 (the metric depends on the  *)
(* differences), and a file with a duplicate.                              *)
Ascending(ks) ==
  [j \in 1 .. Cardinality(ks) |-> CHOOSE k \in ks : Cardinality({l \in ks : l < k}) = j - 1]
LongFiles ==
  {<<1, 2, 2>>} \cup
  {Ascending({0} \cup ks) : ks \in {ks \in SUBSET (1 .. 12) : Cardinality(ks) \in 6 .. 7}}
AllFiles == [path |-> ShortFiles, long |-> LongFiles]

(* Command lines of the counterexamples: inserts in file order; a sum of   *)
(* 0.99995 in steps of 0.00005; the range query of README.md; no index.    *)
OneFile == [path |-> {<<3, 1, 2>>}]
ShiftOnly == {Base \o <<Flag("read", 0), Flag("insert", 4), Flag("data_shift", NoValue)>>}
Short9s == {Base \o <<Flag("read", 19999), Flag("init_table_ratio", 10000),
                      Flag("del_table_ratio", 10000)>>}
ShiftedStatistic == {Base \o Statistic \o <<Flag("data_shift", NoValue)>>}
Readme == {Base \o <<Flag("read", 4), Flag("scan_ratio", 4)>>}
================================================================================
