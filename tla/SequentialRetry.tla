--------------------------- MODULE SequentialRetry ---------------------------
(***************************************************************************)
(* What the retry topic promises, had it one worker that never fails and   *)
(* never waits: each partition is served in order.  The next record is     *)
(* written to the topic of its stage or to the dead letters, at least      *)
(* once, and only then committed; nothing beyond it is written before.     *)
(* docs/container-stack.md calls this "at-least-once processing, not an    *)
(* exactly-once delivery claim".                                           *)
(***************************************************************************)
EXTENDS Naturals

CONSTANT Partitions

VARIABLES arrived,  \* how many records each partition has received
          written,  \* the offsets whose output was written at least once
          done      \* the committed offset

serving == <<arrived, written, done>>

Init ==
    /\ arrived = [p \in Partitions |-> 0]
    /\ written = [p \in Partitions |-> {}]
    /\ done = [p \in Partitions |-> 0]

\* Some stage asks for a retry.
Arrive(p) ==
    /\ arrived' = [arrived EXCEPT ![p] = @ + 1]
    /\ UNCHANGED <<written, done>>

\* The first record that is not done is written; until it is, perhaps again.
Write(p) ==
    /\ done[p] < arrived[p]
    /\ written' = [written EXCEPT ![p] = @ \cup {done[p] + 1}]
    /\ UNCHANGED <<arrived, done>>

\* It is done once it has been written.
Finish(p) ==
    /\ done[p] + 1 \in written[p]
    /\ done' = [done EXCEPT ![p] = @ + 1]
    /\ UNCHANGED <<arrived, written>>

Next == \E p \in Partitions : Arrive(p) \/ Write(p) \/ Finish(p)

Spec == Init /\ [][Next]_serving
=============================================================================
