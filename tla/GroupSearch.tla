------------------------------- MODULE GroupSearch -------------------------------
(***************************************************************************)
(* Root::locate_group_pt1: the group slot responsible for a key, starting  *)
(* from the slot the two-stage model predicts, while a group merge of the  *)
(* background thread empties slots of the same root.  One behaviour is one *)
(* call; one action is one loop iteration or one read of a slot.           *)
(***************************************************************************)
EXTENDS Search

CONSTANTS Pivots,        \* pivot arrays of roots
          Predictions    \* what predict returns, as an int

ASSUME RootAssumption ==
  /\ \A d \in Pivots :
       Size(d) \in Nat \ {0} /\ d \in [0 .. Size(d) - 1 -> Int] /\ Increasing(Size(d), d)
  /\ Keys \subseteq Int /\ Predictions \subseteq Int

VARIABLES group_n, pivot,
          present,       \* slots whose group pointer is not null
          group_i, begin_group_i, end_group_i, group_step, group_pc,
          group          \* the pointer last read from groups[group_i].second

search == <<key, group_i, begin_group_i, end_group_i, group_step, group_pc, group>>
groupVars == <<group_n, pivot, present, search>>
fixed == <<group_n, pivot, present, key>>

GroupInit ==
  /\ pivot \in Pivots
  /\ group_n = Size(pivot)
  /\ present = 0 .. group_n - 1
  /\ key \in Keys /\ group_i \in Predictions
  /\ begin_group_i = 0 /\ end_group_i = 0 /\ group_step = 1
  /\ group_pc = "start" /\ group = "null"

ClampLow(i) == IF i < 0 THEN 0 ELSE i
ClampSlot(i) == ClampLow(IF i > group_n - 1 THEN group_n - 1 ELSE i)

GroupStart ==
  /\ group_pc = "start"
  /\ group_i' = ClampSlot(group_i)
  /\ \/ /\ pivot[group_i'] <= key
        /\ begin_group_i' = group_i' /\ end_group_i' = group_i' + group_step
        /\ group_pc' = "up"
     \/ /\ pivot[group_i'] > key
        /\ end_group_i' = group_i' /\ begin_group_i' = group_i' - group_step
        /\ group_pc' = "down"
  /\ UNCHANGED <<fixed, group_step, group>>

GroupMoreUp == end_group_i < group_n /\ pivot[end_group_i] <= key
GroupMoreDown == begin_group_i >= 0 /\ pivot[begin_group_i] > key

GroupGallopUp ==
  /\ group_pc = "up" /\ GroupMoreUp
  /\ group_step' = group_step * 2
  /\ begin_group_i' = end_group_i /\ end_group_i' = end_group_i + group_step'
  /\ UNCHANGED <<fixed, group_i, group_pc, group>>

GroupEndUp ==
  /\ group_pc = "up" /\ ~GroupMoreUp
  /\ end_group_i' = IF end_group_i > group_n - 1 THEN group_n - 1 ELSE end_group_i
  /\ group_pc' = "bisect"
  /\ UNCHANGED <<fixed, group_i, begin_group_i, group_step, group>>

GroupGallopDown ==
  /\ group_pc = "down" /\ GroupMoreDown
  /\ group_step' = group_step * 2
  /\ end_group_i' = begin_group_i /\ begin_group_i' = begin_group_i - group_step'
  /\ UNCHANGED <<fixed, group_i, group_pc, group>>

GroupEndDown ==
  /\ group_pc = "down" /\ ~GroupMoreDown
  /\ begin_group_i' = IF begin_group_i < 0 THEN -1 ELSE begin_group_i
  /\ group_pc' = "bisect"
  /\ UNCHANGED <<fixed, group_i, end_group_i, group_step, group>>

(* Fault: without the "+2" (the division of -1 by 2 gives 0). *)
group_mid_Low == ClampLow((end_group_i + begin_group_i) \div 2)

group_mid == (end_group_i + begin_group_i + 2) \div 2

GroupBisect ==
  /\ group_pc = "bisect" /\ end_group_i # begin_group_i
  /\ \/ pivot[group_mid] <= key /\ begin_group_i' = group_mid /\ UNCHANGED end_group_i
     \/ pivot[group_mid] > key /\ end_group_i' = group_mid - 1 /\ UNCHANGED begin_group_i
  /\ UNCHANGED <<fixed, group_i, group_step, group_pc, group>>

Found ==
  /\ group_pc = "bisect" /\ end_group_i = begin_group_i
  /\ group_i' = ClampLow(end_group_i)
  /\ group_pc' = "walk"
  /\ UNCHANGED <<fixed, begin_group_i, end_group_i, group_step, group>>

groups_second(i) == IF i \in present THEN "group" ELSE "null"

(* Fault: an empty slot is returned. *)
WalkBack_No ==
  /\ group_pc = "walk"
  /\ group' = groups_second(group_i)
  /\ group_pc' = "done" /\ UNCHANGED group_i
  /\ UNCHANGED <<fixed, begin_group_i, end_group_i, group_step>>

(* One read of groups[group_i].second. *)
WalkBack ==
  /\ group_pc = "walk"
  /\ group' = groups_second(group_i)
  /\ \/ group_i > 0 /\ group' = "null" /\ group_i' = group_i - 1 /\ UNCHANGED group_pc
     \/ (group_i = 0 \/ group' # "null") /\ group_pc' = "done" /\ UNCHANGED group_i
  /\ UNCHANGED <<fixed, begin_group_i, end_group_i, group_step>>

(* A group merge empties the slot after a slot that is in use.  It walks   *)
(* its range upwards and skips empty slots, so that the next one stays.    *)
NullifyNext(i) ==
  /\ i - 1 \in present /\ i \in present
  /\ i = group_n - 1 \/ i + 1 \in present
  /\ present' = present \ {i}
  /\ UNCHANGED <<group_n, pivot, search>>

GroupSearchStep ==
  \/ GroupStart \/ GroupGallopUp \/ GroupEndUp \/ GroupGallopDown \/ GroupEndDown
  \/ GroupBisect \/ Found \/ WalkBack
GroupNext == GroupSearchStep \/ \E i \in 1 .. group_n - 1 : NullifyNext(i)

GroupSpec == GroupInit /\ [][GroupNext]_groupVars
--------------------------------------------------------------------------------
(* The state; the bisection's result "falls in [-1, group_n - 1]".         *)
GroupTypeOK ==
  /\ group_n \in Nat \ {0} /\ key \in Int /\ group_i \in Int
  /\ pivot \in [0 .. group_n - 1 -> Int] /\ Increasing(group_n, pivot)
  /\ present \subseteq 0 .. group_n - 1
  /\ begin_group_i \in Int /\ end_group_i \in Int /\ group_step \in Nat \ {0}
  /\ group_pc \in {"start", "up", "down", "bisect", "walk", "done"} /\ group \in {"null", "group"}
  /\ group_pc = "bisect" => /\ -1 <= begin_group_i /\ begin_group_i <= end_group_i
                      /\ end_group_i <= group_n - 1
  /\ group_pc \in {"walk", "done"} => group_i \in 0 .. group_n - 1

(* locate_group_pt1 reads no slot outside the array, whatever was          *)
(* predicted.                                                              *)
GroupInBounds ==
  /\ group_pc = "up" /\ end_group_i < group_n => end_group_i \in DOMAIN pivot
  /\ group_pc = "down" /\ begin_group_i >= 0 => begin_group_i \in DOMAIN pivot
  /\ group_pc = "bisect" /\ end_group_i # begin_group_i => group_mid \in DOMAIN pivot

(* It returns a group, not null, from the last slot that is in use and     *)
(* whose pivot is not larger than the key, or from the first slot: all     *)
(* slots between are empty, however the merges interleaved with the        *)
(* search.                                                                 *)
FindsSlot ==
  group_pc = "done" =>
    /\ group # "null"
    /\ group_i = 0 \/ pivot[group_i] <= key
    /\ \A j \in group_i + 1 .. group_n - 1 : pivot[j] <= key => j \notin present

(* assert(groups[0].second != nullptr), and the walk back over empty slots *)
(* ends after one step: merges never empty two neighbours of one root.     *)
ShortWalk ==
  /\ 0 \in present
  /\ group_pc \in {"walk", "done"} => ClampLow(end_group_i) - group_i \in {0, 1}
================================================================================
