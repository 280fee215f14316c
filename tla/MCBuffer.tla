-------------------------------- MODULE MCBuffer --------------------------------
(* Instances of Buffer for TLC. *)
EXTENDS Buffer, TLC

CONSTANTS t1, t2, t3

ThreadSymmetry == Permutations(Threads)

Ascending(n) == [i \in 1 .. n |-> 2 * i]
Scenario(n, ops) == [load |-> Ascending(n), ops |-> ops]

(* The only leaf is full: a put of a new key makes the first root. *)
OneLeaf == Scenario(3, {<<"put", 5>>, <<"put", 6>>, <<"get", 6>>, <<"remove", 6>>})
(* Two full leaves: a scan and updates while the first one splits. *)
TwoLeaves == Scenario(6, {<<"put", 5>>, <<"scan", 4>>, <<"remove", 6>>, <<"update", 6>>})
(* The root is full too: splits of two leaves meet in it. *)
FullRoot == Scenario(12, {<<"put", 3>>, <<"put", 15>>, <<"put", 25>>, <<"get", 18>>})

AllScenarios == {OneLeaf, TwoLeaves, FullRoot}
=================================================================================
