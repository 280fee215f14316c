------------------------------ MODULE MCBenchRun -------------------------------
(* Instances of BenchRun for TLC. *)
EXTENDS BenchRun, TLC

(* Five operations, so that the last chunk is cut short, three of them of  *)
(* one kind, so that two threads meet in its counter.                      *)
Reads == (0 :> "READ") @@ (1 :> "SCAN") @@ (2 :> "READ") @@ (3 :> "INSERT") @@ (4 :> "READ")

OneThenTwo == <<1, 2>>
================================================================================
