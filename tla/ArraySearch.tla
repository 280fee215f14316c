------------------------------- MODULE ArraySearch -------------------------------
(***************************************************************************)
(* Group::exponential_search_key: where a key is, or belongs, in the       *)
(* sorted array of a group, starting from the position a linear model      *)
(* predicts.  One behaviour is one call; one action is one loop iteration. *)
(* Nothing is assumed of the model: it may predict any position.           *)
(***************************************************************************)
EXTENDS Search

CONSTANTS Arrays,     \* arrays of keys
          Positions   \* predictions

ASSUME SearchAssumption ==
  /\ \A d \in Arrays :
       Size(d) \in Nat /\ d \in [0 .. Size(d) - 1 -> Int] /\ Increasing(Size(d), d)
  /\ Keys \subseteq Int /\ Positions \subseteq Nat

VARIABLES array_size, data, pos, begin_i, end_i, step, pc

vars == <<array_size, data, key, pos, begin_i, end_i, step, pc>>
input == <<array_size, data, key>>

Init ==
  /\ data \in Arrays
  /\ array_size = Size(data)
  /\ key \in Keys /\ pos \in Positions
  /\ begin_i = 0 /\ end_i = 0 /\ step = 1
  /\ pc = "start"

Clamp(p) == IF p >= array_size THEN array_size - 1 ELSE p

Empty ==
  /\ pc = "start" /\ array_size = 0
  /\ pc' = "done"
  /\ UNCHANGED <<input, pos, begin_i, end_i, step>>

Start ==
  /\ pc = "start" /\ array_size # 0
  /\ pos' = Clamp(pos)
  /\ \/ /\ data[pos'] <= key
        /\ begin_i' = pos' /\ end_i' = pos' + step
        /\ pc' = "up"
     \/ /\ data[pos'] > key
        /\ end_i' = pos' /\ begin_i' = pos' - step
        /\ pc' = "down"
  /\ UNCHANGED <<input, step>>

(* The loops double the step until the key is between begin_i and end_i.   *)
MoreUp == end_i < array_size /\ data[end_i] <= key
MoreDown == begin_i >= 0 /\ data[begin_i] > key

GallopUp ==
  /\ pc = "up" /\ MoreUp
  /\ step' = step * 2
  /\ begin_i' = end_i /\ end_i' = end_i + step'
  /\ UNCHANGED <<input, pos, pc>>

EndUp ==
  /\ pc = "up" /\ ~MoreUp
  /\ end_i' = (IF end_i >= array_size THEN array_size - 1 ELSE end_i) + 1
  /\ pc' = "bisect"
  /\ UNCHANGED <<input, pos, begin_i, step>>

GallopDown ==
  /\ pc = "down" /\ MoreDown
  /\ step' = step * 2
  /\ end_i' = begin_i /\ begin_i' = begin_i - step'
  /\ UNCHANGED <<input, pos, pc>>

EndDown ==
  /\ pc = "down" /\ ~MoreDown
  /\ begin_i' = IF begin_i < 0 THEN 0 ELSE begin_i
  /\ end_i' = end_i + 1
  /\ pc' = "bisect"
  /\ UNCHANGED <<input, pos, step>>

mid == (begin_i + end_i) \div 2

(* Fault: the range need not shrink. *)
Bisect_Stuck ==
  /\ pc = "bisect" /\ end_i > begin_i
  /\ \/ data[mid] < key /\ begin_i' = mid /\ UNCHANGED end_i
     \/ data[mid] >= key /\ end_i' = mid /\ UNCHANGED begin_i
  /\ UNCHANGED <<input, pos, step, pc>>

Bisect ==
  /\ pc = "bisect" /\ end_i > begin_i
  /\ \/ data[mid] < key /\ begin_i' = mid + 1 /\ UNCHANGED end_i
     \/ data[mid] >= key /\ end_i' = mid /\ UNCHANGED begin_i
  /\ UNCHANGED <<input, pos, step, pc>>

Return ==
  /\ pc = "bisect" /\ end_i <= begin_i
  /\ pc' = "done"
  /\ UNCHANGED <<input, pos, begin_i, end_i, step>>

Next == Empty \/ Start \/ GallopUp \/ EndUp \/ GallopDown \/ EndDown \/ Bisect \/ Return

Spec == Init /\ [][Next]_vars
--------------------------------------------------------------------------------
(* The state, and the assertions on the range before and after the         *)
(* bisection: begin_i >= 0, end_i < array_size before it is incremented,   *)
(* begin_i <= end_i.                                                       *)
TypeOK ==
  /\ array_size \in Nat /\ key \in Int /\ pos \in Nat
  /\ data \in [0 .. array_size - 1 -> Int] /\ Increasing(array_size, data)
  /\ begin_i \in Int /\ end_i \in Int /\ step \in Nat \ {0}
  /\ pc \in {"start", "up", "down", "bisect", "done"}
  /\ pc \in {"bisect", "done"} => 0 <= begin_i /\ begin_i <= end_i /\ end_i <= array_size

(* exponential_search_key reads the array only within its bounds, whatever *)
(* the model predicted.                                                    *)
InBounds ==
  /\ pc = "up" /\ end_i < array_size => end_i \in DOMAIN data
  /\ pc = "down" /\ begin_i >= 0 => begin_i \in DOMAIN data
  /\ pc = "bisect" /\ end_i > begin_i => mid \in DOMAIN data

(* It returns the number of keys smaller than the key: the key's position  *)
(* if the array has it, the position to insert it at otherwise.            *)
LowerBound ==
  pc = "done" =>
    /\ end_i \in 0 .. array_size
    /\ \A i \in 0 .. array_size - 1 : i < end_i <=> data[i] < key

(* "in case infinte loop": the call returns. *)
Returns == <>(pc = "done")
================================================================================
