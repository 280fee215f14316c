-------------------------------- MODULE MCXIndex --------------------------------
(* Instances of XIndex for TLC. *)
EXTENDS XIndex, TLC

CONSTANTS w1, w2

WorkerSymmetry == Permutations(Workers)

AllOps == {"get", "put", "remove"}
Scenario(load, ops, kinds) ==
  [load |-> load, put |-> [i \in DOMAIN load |-> {}], ops |-> ops, kinds |-> kinds]

Merge == {Scenario(<<{1}, {2}>>, AllOps, {"merge"})}
Split == {Scenario(<<{1, 2}>>, AllOps, {"split"})}

(* A split during which key 2 is inserted, in the lower or the upper half. *)
SplitWithInserts ==
  {Scenario(load, {"get", "put"}, {"split"}) : load \in {<<{1, 3}>>, <<{0, 1}>>}}

(* Every structure update.  During a split a key is inserted and updated,  *)
(* or a key of the array is removed: two inserts of a key leave it in two  *)
(* buffers, which puts and gets do not notice, but a remove does.          *)
Updates ==
  Merge \cup SplitWithInserts \cup
  {Scenario(<<{2}>>, AllOps, {"compact", "model"}),
   Scenario(<<{1, 2}>>, {"get", "remove"}, {"split"})}

(* Scans during and after every structure update, of a key that is in a    *)
(* buffer, in an array or in none; of an index that holds key_t::max(),    *)
(* and of one whose first pivot is key_t::min().                           *)
Scans ==
  {[Scenario(<<{1, 3}>>, {"scan", "put", "remove"}, {"compact"}) EXCEPT !.put = <<{2}>>],
   Scenario(<<{1, 2, 4}>>, {"scan", "remove"}, {"compact"}),
   Scenario(<<{1, 2}, {3}>>, {"scan", "put"}, {"merge"}),
   Scenario(<<{1, 2, 3}>>, {"scan", "put"}, {"split"}),
   Scenario(<<{0, 1}, {2, 4}>>, {"scan", "put"}, {"compact"})}
ScansOfMovingKeys ==
  {[Scenario(<<{1}>>, {"scan", "put", "remove"}, {"compact"}) EXCEPT !.put = <<{2}>>]}
ScansOfExtremes == {Scenario(<<{0, 1}, {2, 4}>>, {"scan"}, {"compact"})}
NoScans == {<<1, 1>>}
ShortAndLong == {<<1, 4>>, <<2, 1>>}

PutsOnly == {Scenario(<<{1}>>, {"put"}, {"compact"})}
=================================================================================
