-------------------------- MODULE MCRetryScheduler --------------------------
(***************************************************************************)
(* Small instances of RetryScheduler.                                      *)
(***************************************************************************)
EXTENDS RetryScheduler, TLC

CONSTANTS w1, w2, q1, q2

\* One partition on which records queue up, one on which they do not.
Uneven == [q \in Partitions |-> IF q = q1 THEN 2 ELSE 1]

WorkerSymmetry == Permutations({w1, w2})
=============================================================================
