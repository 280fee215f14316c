--------------------------------- MODULE Search ---------------------------------
(***************************************************************************)
(* What the two searches of a lookup share: the key that is looked for,    *)
(* and sorted arrays, counted from 0.                                      *)
(***************************************************************************)
EXTENDS Integers, FiniteSets

CONSTANT Keys         \* keys searched for
VARIABLE key

(* Each key once, in order. *)
Increasing(n, d) == \A i, j \in 0 .. n - 1 : i < j => d[i] < d[j]

Size(d) == Cardinality(DOMAIN d)
=================================================================================
