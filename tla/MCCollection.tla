---------------------------- MODULE MCCollection ----------------------------
(***************************************************************************)
(* A small instance of Collection: two threads that may receive the same   *)
(* bytes, bytes that differ, and bytes that are rejected outright.         *)
(***************************************************************************)
EXTENDS Collection, TLC

CONSTANTS udp, tcp, a, b, empty

ThreadSymmetry == Permutations({udp, tcp})
=============================================================================
