--------------------------------- MODULE MCRcu ---------------------------------
(* Instances of Rcu for TLC. *)
EXTENDS Rcu, TLC

CONSTANTS t1, t2, m1, m2

(* Each thread counts in a slot of its own, as parlay's workers do. *)
DistinctSlots == (t1 :> 0) @@ (t2 :> 1)
================================================================================
