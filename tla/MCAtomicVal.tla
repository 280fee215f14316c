------------------------------ MODULE MCAtomicVal ------------------------------
(* AtomicVal for TLC. *)
EXTENDS AtomicVal, TLC
ThreadSymmetry == Permutations(Threads)
================================================================================
