------------------------------- MODULE MCXIndexBg -------------------------------
(* XIndexBg for TLC: three threads, and fewer, as many and more groups. *)
EXTENDS XIndexBg

CONSTANT w1

MCInitGroups == 1 .. 3
================================================================================
