----------------------------- MODULE MCTestDriver ------------------------------
(* Instances of TestDriver for TLC. *)
EXTENDS TestDriver

Set(u, n, t, rounds, f) ==
  [uniform |-> u, num_keys |-> n, test_type |-> t, round |-> rounds, faulty |-> f]

(* Both tests, over an index that is a map and over any other; without a   *)
(* limit, with a limit of one key, and with one of three, which may exceed *)
(* the different keys of a file; and the read test on generated keys.      *)
AllSettings ==
  {Set(FALSE, k, t, 2, f) : k \in {0, 1, 3}, t \in {"ro", "rw"}, f \in BOOLEAN}
    \cup {Set(FALSE, 0, "ro", 0, FALSE), Set(TRUE, 10, "ro", 1, FALSE),
          Set(TRUE, 0, "ro", 1, FALSE), Set(TRUE, 3, "rw", 0, FALSE)}
LimitOfFour == {Set(FALSE, 4, "ro", 1, FALSE)}
ReadWrite == {Set(FALSE, 0, "rw", 0, TRUE)}

(* Dataset files with up to five keys, duplicates and the key 0 included. *)
Files == UNION {[1 .. n -> 0 .. 3] : n \in 0 .. 5}

(* The 64-bit generator: three or ten numbers, all different or with one   *)
(* or two repeated.  Only a vector of ten or more has a zero to spare.     *)
SomeDraws ==
  {<<7, 3, 9, 12, 5, 4, 20, 11, 8, 6>>, <<7, 3, 9, 12, 5, 4, 20, 11, 8, 7>>,
   <<7, 3, 9, 12, 5, 4, 20, 11, 3, 7>>, <<7, 3, 9, 12, 0, 4, 20, 11, 8, 7>>,
   <<7, 3, 9>>, <<7, 0, 7>>}
================================================================================
