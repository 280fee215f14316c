-------------------------------- MODULE MCLookup --------------------------------
(* Instances of Lookup for TLC: every content of keys of 1 .. 5, every way *)
(* to cut it into groups, keys below, at and above them, any predictions.  *)
EXTENDS Lookup

ArrayOf(S) == [i \in 0 .. Cardinality(S) - 1 |->
                 CHOOSE k \in S : Cardinality({l \in S : l < k}) = i]
AllContents == SUBSET (1 .. 5) \ {{}}
AllArrays == {ArrayOf(S) : S \in SUBSET (1 .. 5)}
AllPivots == {ArrayOf(S) : S \in AllContents}
AllKeys == 0 .. 6
AllPredictions == -1 .. 5
AllPositions == 0 .. 5
=================================================================================
