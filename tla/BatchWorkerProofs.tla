------------------------- MODULE BatchWorkerProofs -------------------------
(***************************************************************************)
(* What the batch commit of files/worker.py guarantees for every number of *)
(* messages, every commit interval and every set of refused messages.      *)
(***************************************************************************)
EXTENDS BatchWorker, TLAPS

\* The initial state satisfies the inductive invariant.
LEMMA InitIInv == Init => IInv
<1> SUFFICES ASSUME Init PROVE IInv
  OBVIOUS
<1>1. TypeOK
  <2>1. /\ seeks \in BOOLEAN /\ errors \in BOOLEAN
        /\ running \in BOOLEAN /\ stopped \in BOOLEAN
    BY Zenon DEF Init
  <2>2. from \in 0 .. Count /\ Start \in 0 .. Count
    BY ConstantsAssumption DEF Init, Start
  <2>3. QED
    BY <2>1, <2>2, ConstantsAssumption DEF Init, TypeOK
<1>2. committed = 0 /\ (~seeks => from = 0) /\ stored = from
  BY DEF Init, Start
<1>3. from + 1 .. committed = {} /\ from + 1 .. stored = {}
  BY <1>1, <1>2 DEF TypeOK
<1>4. QED
  BY <1>1, <1>2, <1>3
  DEF Init, IInv, OnlyRefusedUndelivered, Covered, Accounted, CommittedPolled, BatchPolled

\* A commit of the stored offset is safe: with nothing in flight and no error, all
\* that was polled is kept or refused.
LEMMA StoredIsSafe ==
    ASSUME IInv, Alive, pc # "process", Flushed
    PROVE  (from + 1 .. stored) \ Refused \subseteq durable
  BY DEF IInv, Accounted, Flushed

\* Every step keeps the inductive invariant.
LEMMA NextIInv == IInv /\ [Next]_vars => IInv'
<1> SUFFICES ASSUME IInv, [Next]_vars PROVE IInv'
  OBVIOUS
<1> USE ConstantsAssumption
    DEF IInv, TypeOK, OnlyRefusedUndelivered, Covered, Accounted, CommittedPolled,
        BatchPolled, Messages, Metrics, Alive, seek
<1>1. CASE UNCHANGED vars
  BY <1>1 DEF vars
<1>2. ASSUME NEW m \in {Metrics} \cup Messages, Ack(m) PROVE IInv'
  BY <1>2 DEF Ack
<1>3. ASSUME NEW m \in {Metrics} \cup Messages, Nack(m) PROVE IInv'
  BY <1>3 DEF Nack, Fault
<1>4. CASE Terminate
  BY <1>4 DEF Terminate
<1>5. CASE Crash
  BY <1>5 DEF Crash, Ends, Fault
<1>6. CASE Restart
  <2>1. TypeOK'
    <3>1. errors' \in BOOLEAN /\ running' \in BOOLEAN
      BY <1>6, Zenon DEF Restart
    <3>2. Start \in 0 .. Count
      BY DEF Start
    <3>3. QED
      BY <1>6, <3>1, <3>2 DEF Restart
  <2>2. OnlyRefusedUndelivered' /\ Accounted'
    BY <1>6 DEF Restart, Start
  <2>3. CommittedPolled' /\ BatchPolled'
    BY <1>6 DEF Restart, Start
  <2>4. QED
    BY <2>1, <2>2, <2>3
<1>7. CASE Poll
  BY <1>7 DEF Poll
<1>8. CASE PollEmpty
  BY <1>8 DEF PollEmpty
<1>9. CASE LoopEnds
  BY <1>9 DEF LoopEnds
<1>10. CASE Process
  BY <1>10 DEF Process
<1>11. CASE ProcessEscapes
  BY <1>11 DEF ProcessEscapes
<1>12. CASE FlushMetrics
  BY <1>12 DEF FlushMetrics
<1>13. CASE MaybeCommit
  <2>1. CASE CommitStored
    BY <1>13, <2>1, StoredIsSafe DEF MaybeCommit, CommitStored, Withheld, StopsOnError
  <2>2. CASE Withheld
    BY <1>13, <2>2 DEF MaybeCommit, Withheld
  <2>3. CASE StopsOnError
    BY <1>13, <2>3 DEF MaybeCommit, StopsOnError
  <2>4. QED
    BY <1>13, <2>1, <2>2, <2>3 DEF MaybeCommit
<1>14. CASE CommitRaises
  <2>1. (from + 1 .. stored) \ Refused \subseteq durable /\ pc # "process"
    BY <1>14, StoredIsSafe DEF CommitRaises
  <2>2. /\ stored' = stored /\ uncommitted' = uncommitted /\ errors' = errors
        /\ running' = running /\ stopped' = stopped /\ faults' \in 0 .. MaxFaults
        /\ seeks' = seeks /\ from' = from
        /\ committed' \in {committed, stored}
    BY <1>14 DEF CommitRaises, Fault
  <2>3. /\ pc' \in {"raising", "failed"}
        /\ durable \subseteq durable' /\ durable' \subseteq Messages
        /\ queue' \subseteq queue
    BY <1>14 DEF CommitRaises, Ends
  <2>4. QED
    BY <2>1, <2>2, <2>3
<1>15. CASE Close
  <2>1. CASE CommitStored
    BY <1>15, <2>1, StoredIsSafe DEF Close, CommitStored, Ends
  <2>2. CASE UNCHANGED <<committed, uncommitted>>
    BY <1>15, <2>2 DEF Close, Ends
  <2>3. QED
    BY <1>15, <2>1, <2>2 DEF Close
<1>16. QED
  BY <1>1, <1>2, <1>3, <1>4, <1>5, <1>6, <1>7, <1>8, <1>9, <1>10, <1>11, <1>12,
     <1>13, <1>14, <1>15 DEF Next

\* The inductive invariant holds in every behaviour of the batching worker.
THEOREM Invariant == Spec => []IInv
  BY InitIInv, NextIInv, PTL DEF Spec

\* Every variable of the worker keeps its type; in particular the committed
\* offset never leaves the partition.
THEOREM TypeCorrect == Spec => []TypeOK
<1>1. IInv => TypeOK
  BY DEF IInv
<1>2. QED
  BY <1>1, Invariant, PTL

\* A batch commit passes no message but a refused one whose output is not kept,
\* however deliveries, crashes and failed commits fall.
THEOREM BatchCommitSafe == Spec => []OnlyRefusedUndelivered
<1>1. IInv => OnlyRefusedUndelivered
  BY DEF IInv
<1>2. QED
  BY <1>1, Invariant, PTL

\* Rule 1 of the worker as it is written, when produce() refuses no dead letter.
THEOREM RuleOneUnlessRefused ==
    ASSUME Refused = {}
    PROVE  Spec => []NeverPastUndelivered
<1>1. IInv => NeverPastUndelivered
  BY Refused = {} DEF IInv, OnlyRefusedUndelivered, NeverPastUndelivered, Covered
<1>2. QED
  BY <1>1, Invariant, PTL

\* No step moves the committed offset back, a replay that starts again excepted.
THEOREM CommitsGrow == Spec => CommittedGrows
<1>1. IInv /\ [Next]_vars => [committed' >= committed \/ seeks]_vars
  <2> SUFFICES ASSUME IInv, [Next]_vars, ~UNCHANGED vars PROVE committed' >= committed \/ seeks
    OBVIOUS
  <2> USE DEF IInv, TypeOK, CommittedPolled
  <2>1. CASE MaybeCommit
    BY <2>1 DEF MaybeCommit, CommitStored, Withheld, StopsOnError
  <2>2. CASE CommitRaises
    BY <2>2 DEF CommitRaises
  <2>3. CASE Close
    BY <2>3 DEF Close, CommitStored
  <2>4. QED
    BY <2>1, <2>2, <2>3
    DEF Next, Ack, Nack, Terminate, Crash, Restart, Poll, PollEmpty, LoopEnds, Process,
        ProcessEscapes, FlushMetrics
<1>2. QED
  BY <1>1, Invariant, PTL DEF Spec, CommittedGrows

\* A failed delivery blocks every commit until the process has been replaced.
THEOREM ErrorsBlockCommits == Spec => NoCommitAfterError
<1>1. [Next]_vars => [errors => UNCHANGED committed]_vars
  <2> SUFFICES ASSUME [Next]_vars, ~UNCHANGED vars, errors PROVE UNCHANGED committed
    OBVIOUS
  <2>1. CASE MaybeCommit
    BY <2>1 DEF MaybeCommit, CommitStored, Flushed, Withheld, StopsOnError
  <2>2. CASE CommitRaises
    BY <2>2 DEF CommitRaises, Flushed
  <2>3. CASE Close
    BY <2>3 DEF Close, CommitStored, Flushed
  <2>4. QED
    BY <2>1, <2>2, <2>3
    DEF Next, Ack, Nack, Terminate, Crash, Restart, Poll, PollEmpty, LoopEnds, Process,
        ProcessEscapes, FlushMetrics
<1>2. QED
  BY <1>1, PTL DEF Spec, NoCommitAfterError
=============================================================================
