-------------------------- MODULE CollectionProofs --------------------------
(***************************************************************************)
(* What the collector guarantees of its evidence for every number of       *)
(* threads, events and faults, and with either publisher.                  *)
(***************************************************************************)
EXTENDS Collection, FiniteSetTheorems, TLAPS

\* An insertion into a finite set adds at most one to its cardinality.
LEMMA OneMore ==
    ASSUME NEW S, NEW x, IsFiniteSet(S)
    PROVE  Cardinality(S) \in Nat /\ Cardinality(S \cup {x}) <= Cardinality(S) + 1
<1>1. Cardinality(S) \in Nat
  BY FS_CardinalityType
<1>2. Cardinality(S \cup {x}) = IF x \in S THEN Cardinality(S) ELSE Cardinality(S) + 1
  BY FS_AddElement
<1>3. QED
  BY <1>1, <1>2

\* The events behind torn lines are finitely many.
LEMMA SwallowedFinite == StateTypes => IsFiniteSet(swallowed) /\ Cardinality(swallowed) \in Nat
<1>1. IsFiniteSet(Ids)
  BY ConstantsAssumption, FS_Interval DEF Ids
<1>2. QED
  BY <1>1, FS_Subset, FS_CardinalityType DEF StateTypes

\* The initial state satisfies the inductive invariant.
LEMMA InitIInv == Init => IInv
<1> SUFFICES ASSUME Init PROVE IInv
  OBVIOUS
<1> USE ConstantsAssumption DEF Init
<1>1. StateTypes
  BY DEF StateTypes, Steps, Reasons, Outcomes, Files
<1>2. OwnJobs /\ Untouched /\ FilesInHand /\ SentInHand /\ RecordInHand
  BY DEF OwnJobs, Untouched, FilesInHand, SentInHand, RecordInHand
<1>3. TornByFaults
  BY FS_EmptySet DEF TornByFaults
<1>4. PublishedIsArchived /\ AcceptedPublished /\ FailedPublishReplayable /\ RejectionsExplained
  BY Zenon DEF PublishedIsArchived, AcceptedPublished, FailedPublishReplayable,
         RejectionsExplained, Reasons
<1>5. QED
  BY <1>1, <1>2, <1>3, <1>4 DEF IInv

\* Every step keeps the inductive invariant.
LEMMA NextIInv == IInv /\ [Next]_vars => IInv'
<1> SUFFICES ASSUME IInv, [Next]_vars PROVE IInv'
  OBVIOUS
<1>0. Cardinality(swallowed) \in Nat
  BY SwallowedFinite DEF IInv
<1> USE ConstantsAssumption
    DEF IInv, StateTypes, OwnJobs, Untouched, FilesInHand, SentInHand, RecordInHand,
        PublishedIsArchived, AcceptedPublished, FailedPublishReplayable, RejectionsExplained,
        Replayable, Steps, Reasons, Outcomes, Files, Goes, Fault, event, archive, broker,
        stream, rejected, TornByFaults
<1>1. CASE UNCHANGED vars
  BY <1>1 DEF vars
<1>2. ASSUME NEW t \in Threads, Receive(t) PROVE IInv'
  BY <1>2 DEF Receive, Arrives
<1>3. ASSUME NEW t \in Threads, RejectFrame(t) PROVE IInv'
  BY <1>3 DEF RejectFrame, Arrives, Refuses
<1>4. ASSUME NEW t \in Threads, RejectUnfit(t) PROVE IInv'
  BY <1>4 DEF RejectUnfit, Refuses
<1>5. ASSUME NEW t \in Threads, CheckAndAdd(t) PROVE IInv'
  BY <1>5 DEF CheckAndAdd
<1>6. ASSUME NEW t \in Threads, StoreRaw(t) PROVE IInv'
  BY <1>6 DEF StoreRaw
<1>7. ASSUME NEW t \in Threads, StoreMeta(t) PROVE IInv'
  BY <1>7 DEF StoreMeta
<1>8. ASSUME NEW t \in Threads, StoreFails(t) PROVE IInv'
  BY <1>0, <1>8 DEF StoreFails, Torn, Refuses
<1>9. ASSUME NEW t \in Threads, Produce(t) PROVE IInv'
  BY <1>9 DEF Produce
<1>10. ASSUME NEW t \in Threads, PublishFails(t) PROVE IInv'
  BY <1>0, <1>10 DEF PublishFails, PublishMayFail, Refuses
<1>11. ASSUME NEW t \in Threads, AppendLine(t) PROVE IInv'
  <2>1. CASE tail = "line"
    BY <1>11, <2>1 DEF AppendLine
  <2>2. CASE tail = "torn"
    <3>1. TornByFaults'
      <4>1. Cardinality(swallowed \cup {job[t]}) <= Cardinality(swallowed) + 1
        BY SwallowedFinite, OneMore
      <4>2. Cardinality(swallowed \cup {job[t]}) \in Nat
        BY SwallowedFinite, FS_AddElement, FS_CardinalityType
      <4>3. swallowed' = swallowed \cup {job[t]} /\ tail' = "line" /\ faults' = faults
        BY <1>11, <2>2 DEF AppendLine
      <4>4. QED
        BY <1>0, <2>2, <4>1, <4>2, <4>3
    <3>2. swallowed' = swallowed \cup {job[t]} /\ topic' = topic
      BY <1>11, <2>2 DEF AppendLine
    <3>3. QED
      BY <1>11, <2>2, <3>1, <3>2 DEF AppendLine
  <2>3. QED
    BY <2>1, <2>2
<1>12. ASSUME NEW t \in Threads, AppendFails(t) PROVE IInv'
  BY <1>0, <1>12 DEF AppendFails, Refuses
<1>13. ASSUME NEW t \in Threads, Flushed(t) PROVE IInv'
  BY <1>13 DEF Flushed, Accepts, Refuses
<1>14. ASSUME NEW t \in Threads, CountDuplicate(t) PROVE IInv'
  BY <1>14 DEF CountDuplicate
<1>15. ASSUME NEW t \in Threads, Record(t) PROVE IInv'
  <2>1. CASE why[t] = "unfit"
    BY <1>15, <2>1 DEF Record, Recorded, Returns
  <2>2. CASE why[t] # "unfit"
    BY <1>15, <2>2 DEF Record, Recorded
  <2>3. QED
    BY <2>1, <2>2
<1>16. ASSUME NEW t \in Threads, RecordFails(t) PROVE IInv'
  <2>1. CASE why[t] = "unfit"
    BY <1>0, <1>16, <2>1 DEF RecordFails, Recorded, Returns
  <2>2. CASE why[t] # "unfit"
    BY <1>0, <1>16, <2>2 DEF RecordFails, Recorded
  <2>3. QED
    BY <2>1, <2>2
<1>17. ASSUME NEW t \in Threads, CountRejected(t) PROVE IInv'
  BY <1>17 DEF CountRejected, Returns
<1>18. ASSUME NEW i \in Ids, Delivered(i) PROVE IInv'
  BY <1>18 DEF Delivered
<1>19. ASSUME NEW i \in Ids, DeliveryFails(i) PROVE IInv'
  BY <1>0, <1>19 DEF DeliveryFails
<1>20. ASSUME NEW i \in Ids, Replay(i) PROVE IInv'
  BY <1>20 DEF Replay
<1>21. CASE Crash
  BY <1>0, <1>21 DEF Crash, Torn, CutShort
<1>22. QED
  BY <1>1, <1>2, <1>3, <1>4, <1>5, <1>6, <1>7, <1>8, <1>9, <1>10, <1>11, <1>12, <1>13,
     <1>14, <1>15, <1>16, <1>17, <1>18, <1>19, <1>20, <1>21 DEF Next, Proceed, Publish

\* The inductive invariant holds in every behaviour of the collector.
THEOREM Invariant == Spec => []IInv
  BY InitIInv, NextIInv, PTL DEF Spec

\* Whatever is in the raw topic, in the producer's queue or on the stream file is
\* archived whole.
THEOREM PublishedAreArchived == Spec => []PublishedIsArchived
<1>1. IInv => PublishedIsArchived
  BY DEF IInv
<1>2. QED
  BY <1>1, Invariant, PTL

\* An event reported as accepted is archived and published, and at most one of them
\* per fault is hidden behind a torn line.
THEOREM AcceptanceIsDurable == Spec => []AcceptedIsDurable
<1>1. IInv => AcceptedIsDurable
  <2> SUFFICES ASSUME IInv PROVE AcceptedIsDurable
    OBVIOUS
  <2>1. Cardinality(swallowed) \in Nat
    BY SwallowedFinite DEF IInv
  <2>2. Cardinality(swallowed) <= faults
    BY <2>1 DEF IInv, TornByFaults, StateTypes
  <2>3. QED
    BY <2>2 DEF IInv, AcceptedIsDurable
<1>2. QED
  BY <1>1, Invariant, PTL

\* A publishing failure never costs the evidence.
THEOREM FailuresAreReplayable == Spec => []FailedPublishReplayable
<1>1. IInv => FailedPublishReplayable
  BY DEF IInv
<1>2. QED
  BY <1>1, Invariant, PTL

\* Every rejection has a record of its reason, or one that could not be written, and
\* no accepted event has one.
THEOREM RejectionsAreExplained == Spec => []RejectionsExplained
<1>1. IInv => RejectionsExplained
  BY DEF IInv
<1>2. QED
  BY <1>1, Invariant, PTL

\* An event that can be replayed, or is published, stays so.
THEOREM EvidenceIsKept == Spec => EvidenceKept
<1>1. IInv /\ [Next]_vars => [KeepsEvidence]_vars
  <2> SUFFICES ASSUME IInv, [Next]_vars, ~UNCHANGED vars PROVE KeepsEvidence
    OBVIOUS
  <2> USE ConstantsAssumption
      DEF IInv, KeepsEvidence, StateTypes, OwnJobs, FilesInHand, Replayable, Steps, archive, broker
  <2>1. ASSUME NEW t \in Threads, StoreRaw(t) PROVE KeepsEvidence
    BY <2>1 DEF StoreRaw
  <2>2. ASSUME NEW t \in Threads, StoreMeta(t) PROVE KeepsEvidence
    BY <2>2 DEF StoreMeta
  <2>3. ASSUME NEW t \in Threads, StoreFails(t) PROVE KeepsEvidence
    BY <2>3 DEF StoreFails, Torn
  <2>4. ASSUME NEW t \in Threads, AppendLine(t) PROVE KeepsEvidence
    BY <2>4 DEF AppendLine
  <2>5. ASSUME NEW i \in Ids, Delivered(i) \/ Replay(i) PROVE KeepsEvidence
    BY <2>5 DEF Delivered, Replay
  <2>6. CASE Crash
    BY <2>6 DEF Crash, Torn
  <2>7. QED
    BY <2>1, <2>2, <2>3, <2>4, <2>5, <2>6
    DEF Next, Proceed, Publish, Receive, RejectFrame, RejectUnfit, CheckAndAdd, Produce, PublishFails, AppendFails,
        Flushed, CountDuplicate, Record, RecordFails, CountRejected, DeliveryFails
<1>2. QED
  BY <1>1, Invariant, PTL DEF Spec, EvidenceKept

\* The custody of an event nothing was published of without its archive.
LEMMA CustodyForm ==
    IInv => \A i \in Ids :
                CustodyOf(i) = IF ~Replayable(i) THEN "outside"
                               ELSE IF i \in topic THEN "settled" ELSE "held"
  BY DEF IInv, PublishedIsArchived, CustodyOf

\* The same after a step.
LEMMA CustodyFormNext ==
    (IInv => \A i \in Ids :
                CustodyOf(i) = IF ~Replayable(i) THEN "outside"
                               ELSE IF i \in topic THEN "settled" ELSE "held")'
  BY CustodyForm, PTL

CustodyBar == [i \in Ids |-> CustodyOf(i)]

\* A step that keeps the evidence and archives nothing settles what it publishes.
LEMMA PublishingSettles ==
    ASSUME IInv, IInv', KeepsEvidence, \A i \in Ids : Replayable(i)' => Replayable(i)
    PROVE  [D!Next]_CustodyBar
<1> DEFINE resting == {i \in Ids : i \in topic' /\ i \notin topic}
<1>1. \A i \in resting : Replayable(i) /\ CustodyOf(i) = "held"
  <2>1. \A i \in resting : Replayable(i)
    BY DEF IInv, PublishedIsArchived
  <2> QED
    BY <2>1, CustodyForm
<1>2. \A i \in Ids : CustodyOf(i)' = IF i \in resting THEN "settled" ELSE CustodyOf(i)
  BY <1>1, CustodyForm, CustodyFormNext DEF KeepsEvidence
<1>3. D!Settle(resting)
  <2>1. CustodyBar' = [i \in Ids |-> IF i \in resting THEN "settled" ELSE CustodyBar[i]]
    BY <1>2 DEF CustodyBar
  <2> QED
    BY <1>1, <2>1 DEF D!Settle, CustodyBar
<1> QED
  BY <1>3 DEF D!Next

\* Writing the second archive file takes the event into custody.
LEMMA StoringAccepts ==
    ASSUME IInv, IInv', NEW t \in Threads, StoreMeta(t)
    PROVE  [D!Next]_CustodyBar
<1>1. PICK j \in Ids : j = job[t]
  BY DEF StoreMeta, IInv, OwnJobs
<1>2. /\ ~Replayable(j) /\ Replayable(j)' /\ UNCHANGED topic
      /\ \A i \in Ids \ {j} : Replayable(i)' <=> Replayable(i)
  BY <1>1 DEF StoreMeta, IInv, StateTypes, FilesInHand, Replayable, broker
<1>3. j \notin topic
  BY <1>2 DEF IInv, PublishedIsArchived
<1>4. /\ CustodyOf(j) = "outside" /\ CustodyOf(j)' = "held"
      /\ \A i \in Ids \ {j} : CustodyOf(i)' = CustodyOf(i)
  BY <1>2, <1>3, CustodyForm, CustodyFormNext
<1>5. D!Accept(j)
  BY <1>4 DEF D!Accept, CustodyBar
<1> QED
  BY <1>5 DEF D!Next

\* The collector implements the custody specification, as the streaming path does.
THEOREM CollectorDelivers == Spec => ImplementsDelivery
<1>1. Init => D!Init
  BY DEF Init, D!Init, CustodyOf, Replayable
<1>2. IInv /\ IInv' /\ [KeepsEvidence]_vars /\ [Next]_vars => [D!Next]_CustodyBar
  <2> SUFFICES ASSUME IInv, IInv', [KeepsEvidence]_vars, [Next]_vars
               PROVE  [D!Next]_CustodyBar
    OBVIOUS
  <2>1. CASE UNCHANGED vars
    BY <2>1 DEF vars, archive, broker, CustodyBar, CustodyOf, Replayable
  <2>2. ASSUME NEW t \in Threads, StoreMeta(t)
        PROVE  [D!Next]_CustodyBar
    BY <2>2, StoringAccepts
  <2>3. ASSUME \A i \in Ids : Replayable(i)' => Replayable(i), ~UNCHANGED vars
        PROVE  [D!Next]_CustodyBar
    BY <2>3, PublishingSettles
  <2>4. ASSUME NEW t \in Threads, StoreRaw(t) \/ StoreFails(t)
        PROVE  \A i \in Ids : Replayable(i)' => Replayable(i)
    BY <2>4 DEF IInv, StateTypes, FilesInHand, StoreRaw, StoreFails, Torn, Replayable
  <2>5. CASE Crash
    <3> \A i \in Ids : Replayable(i)' => Replayable(i)
      BY <2>5 DEF IInv, StateTypes, Crash, Torn, Replayable
    <3> QED
      BY <2>1, <2>3
  <2>6. CASE UNCHANGED archive
    <3> \A i \in Ids : Replayable(i)' => Replayable(i)
      BY <2>6 DEF archive, Replayable
    <3> QED
      BY <2>1, <2>3
  <2> QED
    BY <2>1, <2>2, <2>3, <2>4, <2>5, <2>6
    DEF Next, Proceed, Publish, Receive, RejectFrame, RejectUnfit, CheckAndAdd, Produce, PublishFails, AppendLine,
        AppendFails, Flushed, CountDuplicate, Record, RecordFails, CountRejected, Delivered,
        DeliveryFails, Replay
<1>3. D!SafeSpec <=> D!Init /\ [][D!Next]_CustodyBar
  BY DEF D!SafeSpec, CustodyBar
<1> QED
  BY <1>1, <1>2, <1>3, Invariant, EvidenceIsKept, PTL DEF Spec, EvidenceKept, ImplementsDelivery

\* The publisher is chosen once, and the other one is never used.
LEMMA PublisherStays == OnePublisher /\ [Next]_vars => OnePublisher' /\ UNCHANGED publisher
  BY Zenon DEF OnePublisher, Next, Proceed, Publish, vars, Receive, RejectFrame, RejectUnfit,
         CheckAndAdd, StoreRaw, StoreMeta, StoreFails, Produce, PublishFails, PublishMayFail,
         AppendLine, AppendFails, Flushed, CountDuplicate, Record, RecordFails, CountRejected,
         Delivered, DeliveryFails, Replay, Crash, CutShort, broker, stream

\* So throughout.
LEMMA OneIsUsed == Spec => []OnePublisher
<1>1. Init => OnePublisher
  BY DEF Init, OnePublisher
<1> QED
  BY <1>1, PublisherStays, PTL DEF Spec

\* What reaches the broker's topic is archived, and is settled for the collector by that.
LEMMA PublishingIsOfArchived ==
    ASSUME IInv, IInv', OnePublisher, NEW j \in Ids, Publish(j)
    PROVE  /\ publisher = "kafka" /\ topic' = topic \cup {j}
           /\ CustodyOf(j) # "outside" /\ CustodyOf(j)' = "settled"
           /\ \A i \in Ids \ {j} : CustodyOf(i)' = CustodyOf(i)
<1>1. publisher = "kafka" /\ topic' = topic \cup {j} /\ Replayable(j) /\ UNCHANGED archive
  BY DEF Publish, Delivered, Replay, OnePublisher, IInv, PublishedIsArchived
<1>2. \A i \in Ids : Replayable(i)' <=> Replayable(i)
  BY <1>1 DEF Replayable, archive
<1> QED
  BY <1>1, <1>2, CustodyForm, CustodyFormNext

\* The sets that are counted are finite, and an element more or less counts one.
LEMMA ThreadSets ==
    ASSUME NEW S \in SUBSET Threads, NEW t \in Threads
    PROVE  /\ Cardinality(S) \in Nat
           /\ t \notin S => Cardinality(S \cup {t}) = Cardinality(S) + 1
           /\ t \in S => Cardinality(S) = Cardinality(S \ {t}) + 1
           /\ Cardinality(S \ {t}) \in Nat
<1>1. IsFiniteSet(S) /\ IsFiniteSet(S \ {t})
  BY ConstantsAssumption, FS_Subset
<1>2. Cardinality(S) \in Nat /\ Cardinality(S \ {t}) \in Nat
  BY <1>1, FS_CardinalityType
<1>3. Cardinality(S \cup {t}) = IF t \in S THEN Cardinality(S) ELSE Cardinality(S) + 1
  BY <1>1, FS_AddElement
<1>4. Cardinality(S \ {t}) = IF t \in S THEN Cardinality(S) - 1 ELSE Cardinality(S)
  BY <1>1, FS_RemoveElement
<1>5. QED
  BY <1>2, <1>3, <1>4

\* Every step keeps the counters in balance.
LEMMA NextCounts == IInv /\ CountsInv /\ [Next]_vars => CountsInv'
<1> SUFFICES ASSUME IInv, CountsInv, [Next]_vars PROVE CountsInv'
  OBVIOUS
<1>1. Busy \in SUBSET Threads /\ Counting \in SUBSET Threads
  BY DEF Busy, Counting
<1>2. /\ at \in [Threads -> Steps]
      /\ why \in [Threads -> {"none"} \cup Reasons]
      /\ counts \in [Counters -> Nat]
  BY DEF IInv, StateTypes, CountsInv
<1> USE DEF Goes
<1>3. ASSUME NEW t \in Threads, Receive(t) \/ RejectFrame(t) PROVE CountsInv'
  <2>1. t \notin Busy /\ Busy' = Busy \cup {t} /\ Counting' = Counting
    BY <1>2, <1>3 DEF Receive, RejectFrame, Arrives, Refuses, Busy, Counting
  <2>2. counts' = [counts EXCEPT !["received"] = @ + 1]
    BY <1>3 DEF Receive, RejectFrame
  <2>3. Cardinality(Busy) \in Nat /\ Cardinality(Busy') = Cardinality(Busy) + 1
    BY <1>1, <2>1, ThreadSets
  <2>4. QED
    BY <1>2, <2>1, <2>2, <2>3 DEF CountsInv, Counters
<1>4. ASSUME NEW t \in Threads, RejectUnfit(t) \/ CountRejected(t) PROVE CountsInv'
  <2>1. t \in Busy /\ Busy' = Busy \ {t} /\ Counting' = Counting
    BY <1>2, <1>4 DEF RejectUnfit, CountRejected, Refuses, Returns, Busy, Counting
  <2>2. counts' = [counts EXCEPT !["rejected"] = @ + 1]
    BY <1>4 DEF RejectUnfit, CountRejected
  <2>3. Cardinality(Busy') \in Nat /\ Cardinality(Busy) = Cardinality(Busy') + 1
    BY <1>1, <2>1, ThreadSets
  <2>4. QED
    BY <1>2, <2>1, <2>2, <2>3 DEF CountsInv, Counters
<1>5. ASSUME NEW t \in Threads, Flushed(t), job[t] \notin failed PROVE CountsInv'
  <2>1. t \in Busy /\ Busy' = Busy \ {t}
    BY <1>2, <1>5 DEF Flushed, Accepts, Busy
  <2>2. t \notin Counting /\ (Counting' = Counting \/ Counting' = Counting \cup {t})
    BY <1>2, <1>5 DEF Flushed, Accepts, Counting
  <2>3. counts' = [counts EXCEPT !["accepted"] = @ + 1]
    BY <1>5 DEF Flushed, Accepts
  <2>4. Cardinality(Busy') \in Nat /\ Cardinality(Busy) = Cardinality(Busy') + 1
    BY <1>1, <2>1, ThreadSets
  <2>5. /\ Cardinality(Counting) \in Nat /\ Cardinality(Counting') \in Nat
        /\ Cardinality(Counting') <= Cardinality(Counting) + 1
    <3>1. /\ Cardinality(Counting) \in Nat
          /\ Cardinality(Counting \cup {t}) = Cardinality(Counting) + 1
      BY <1>1, <2>2, ThreadSets
    <3>2. CASE Counting' = Counting
      BY <3>1, <3>2
    <3>3. CASE Counting' = Counting \cup {t}
      BY <3>1, <3>3
    <3>4. QED
      BY <2>2, <3>2, <3>3
  <2>6. QED
    BY <1>2, <2>3, <2>4, <2>5 DEF CountsInv, Counters
<1>6. ASSUME NEW t \in Threads, CountDuplicate(t) PROVE CountsInv'
  <2>1. t \in Counting /\ Counting' = Counting \ {t} /\ Busy' = Busy
    BY <1>2, <1>6 DEF CountDuplicate, Busy, Counting
  <2>2. counts' = [counts EXCEPT !["duplicates"] = @ + 1]
    BY <1>6 DEF CountDuplicate
  <2>3. Cardinality(Counting') \in Nat /\ Cardinality(Counting) = Cardinality(Counting') + 1
    BY <1>1, <2>1, ThreadSets
  <2>4. QED
    BY <1>2, <2>1, <2>2, <2>3 DEF CountsInv, Counters
<1>7. CASE Crash
  <2>1. Busy' = {} /\ Counting' = {}
    BY <1>7 DEF Crash, Busy, Counting
  <2>2. counts' = [c \in Counters |-> 0]
    BY <1>7 DEF Crash
  <2>3. QED
    BY <2>1, <2>2, FS_EmptySet DEF CountsInv, Counters
<1>8. ASSUME Busy' = Busy, Counting' = Counting, counts' = counts PROVE CountsInv'
  BY <1>8 DEF CountsInv
<1>9. ASSUME NEW t \in Threads,
             \/ CheckAndAdd(t) \/ StoreRaw(t) \/ StoreMeta(t) \/ StoreFails(t) \/ Produce(t)
             \/ PublishFails(t) \/ AppendLine(t) \/ AppendFails(t)
             \/ Flushed(t) /\ job[t] \in failed
             \/ Record(t) \/ RecordFails(t)
      PROVE  CountsInv'
  <2>1. Busy' = Busy /\ Counting' = Counting
    BY <1>2, <1>9
    DEF CheckAndAdd, StoreRaw, StoreMeta, StoreFails, Produce, PublishFails, PublishMayFail,
        AppendLine, AppendFails, Flushed, Record, RecordFails, Recorded, Returns, Refuses,
        Busy, Counting, Steps
  <2>2. counts' = counts
    BY <1>9
    DEF CheckAndAdd, StoreRaw, StoreMeta, StoreFails, Produce, PublishFails, AppendLine,
        AppendFails, Flushed, Record, RecordFails
  <2>3. QED
    BY <1>8, <2>1, <2>2
<1>10. ASSUME NEW i \in Ids, Delivered(i) \/ DeliveryFails(i) \/ Replay(i) PROVE CountsInv'
  BY <1>8, <1>10 DEF Delivered, DeliveryFails, Replay, Busy, Counting
<1>11. CASE UNCHANGED vars
  BY <1>8, <1>11 DEF vars, Busy, Counting
<1>12. QED
  BY <1>3, <1>4, <1>5, <1>6, <1>7, <1>9, <1>10, <1>11 DEF Next, Proceed, Publish

\* Whenever they are read, the counters of the collector add up.
THEOREM CountersAlwaysAddUp == Spec => []CountersAddUp
<1>1. Init => CountsInv
  <2> SUFFICES ASSUME Init PROVE CountsInv
    OBVIOUS
  <2>1. Busy = {} /\ Counting = {}
    BY DEF Init, Busy, Counting
  <2>2. QED
    BY <2>1, FS_EmptySet DEF Init, CountsInv, Counters
<1>2. CountsInv => CountersAddUp
  <2> SUFFICES ASSUME CountsInv PROVE CountersAddUp
    OBVIOUS
  <2>1. Cardinality(Counting) \in Nat
    BY ConstantsAssumption, FS_Subset, FS_CardinalityType DEF Counting
  <2>2. QED
    BY <2>1 DEF CountsInv, CountersAddUp, Counters
<1>3. QED
  BY <1>1, <1>2, Invariant, NextCounts, PTL DEF Spec

\* The cache after a payload was seen: one place p is given up, the payload's own or, when
\* it is new to a full cache, the oldest; the others keep their order before it.
LEMMA TouchedShape ==
    ASSUME cache \in Seq(Payloads), Len(cache) <= CacheSize, NEW h \in Payloads,
           \A p, q \in 1 .. Len(cache) : cache[p] = cache[q] => p = q
    PROVE  \E p \in 1 .. Len(cache) + 1 :
             /\ Touched(h) \in Seq(Payloads) /\ Len(Touched(h)) <= CacheSize
             /\ Len(Touched(h)) = IF p <= Len(cache) THEN Len(cache) ELSE Len(cache) + 1
             /\ Touched(h)[Len(Touched(h))] = h
             /\ \A k \in 1 .. Len(Touched(h)) - 1 :
                   Touched(h)[k] = IF k < p THEN cache[k] ELSE cache[k + 1]
             /\ \A k \in 1 .. Len(cache) : k # p => cache[k] # h
             /\ \/ p <= Len(cache) /\ cache[p] = h
                \/ p = 1 /\ Len(cache) = CacheSize
                \/ p = Len(cache) + 1
<1> DEFINE L == Len(cache)
<1>1. L \in Nat /\ CacheSize \in Nat \ {0} /\ L <= CacheSize
      /\ \A k \in 1 .. L : cache[k] \in Payloads
  BY ConstantsAssumption
<1> HIDE DEF L
<1>2. CASE InCache(h)
  <2> DEFINE p == CHOOSE k \in 1 .. L : cache[k] = h
             w == [k \in 1 .. L - 1 |-> IF k < p THEN cache[k] ELSE cache[k + 1]]
  <2>1. p \in 1 .. L /\ cache[p] = h
    BY <1>2 DEF InCache, L
  <2>2. Without(h) = w
    BY <1>2 DEF Without, L
  <2> HIDE DEF p
  <2>3. w \in Seq(Payloads) /\ Len(w) = L - 1
    <3>1. L - 1 \in Nat
      BY <1>1, <2>1
    <3>2. w \in [1 .. L - 1 -> Payloads]
      BY <1>1, <2>1
    <3>3. ASSUME NEW n \in Nat, NEW f \in [1 .. n -> Payloads]
          PROVE  f \in Seq(Payloads) /\ Len(f) = n
      OBVIOUS
    <3> HIDE DEF w
    <3> QED  BY <3>1, <3>2, <3>3
  <2>4. \A k \in 1 .. L - 1 : w[k] = IF k < p THEN cache[k] ELSE cache[k + 1]
    OBVIOUS
  <2> HIDE DEF w
  <2> DEFINE c == Append(w, h)
  <2>5. c \in Seq(Payloads) /\ Len(c) = L /\ c[L] = h
        /\ \A k \in 1 .. L - 1 : c[k] = w[k]
    BY <1>1, <2>1, <2>3
  <2> HIDE DEF c
  <2>6. Touched(h) = c
    BY <1>1, <2>2, <2>5 DEF Touched, c
  <2>7. \A k \in 1 .. L : k # p => cache[k] # h
    BY <2>1 DEF L
  <2>8. p \in 1 .. L + 1 /\ p <= L
    BY <1>1, <2>1
  <2> QED  BY <1>1, <2>1, <2>4, <2>5, <2>6, <2>7, <2>8 DEF L
<1>3. CASE ~InCache(h)
  <2> DEFINE w == Append(cache, h)
  <2>1. Without(h) = cache
    BY <1>3 DEF Without
  <2>2. w \in Seq(Payloads) /\ Len(w) = L + 1 /\ w[L + 1] = h
        /\ \A k \in 1 .. L : w[k] = cache[k]
    BY DEF L
  <2>3. \A k \in 1 .. L : cache[k] # h
    BY <1>3 DEF InCache, L
  <2> HIDE DEF w
  <2>4. CASE L < CacheSize
    <3>1. Touched(h) = w
      BY <1>1, <2>1, <2>2, <2>4 DEF Touched, w
    <3>2. L + 1 \in 1 .. L + 1 /\ ~(L + 1 <= L) /\ L + 1 <= CacheSize
          /\ \A k \in 1 .. L : k < L + 1
      BY <1>1, <2>4
    <3> QED  BY <1>1, <2>2, <2>3, <3>1, <3>2 DEF L
  <2>5. CASE L = CacheSize
    <3> DEFINE c == Tail(w)
    <3>1. w # <<>> /\ Len(w) > CacheSize
      BY <1>1, <2>2, <2>5
    <3>2. c \in Seq(Payloads) /\ Len(c) = L /\ \A k \in 1 .. L : c[k] = w[k + 1]
      BY <1>1, <2>2, <3>1
    <3>3. Touched(h) = c
      BY <2>1, <3>1 DEF Touched, w
    <3> HIDE DEF c
    <3>4. c[L] = h /\ \A k \in 1 .. L - 1 : c[k] = cache[k + 1]
      BY <1>1, <2>2, <2>5, <3>2
    <3>5. 1 \in 1 .. L + 1 /\ 1 <= L /\ \A k \in 1 .. L - 1 : ~(k < 1)
      BY <1>1, <2>5
    <3> QED  BY <1>1, <2>3, <2>5, <3>2, <3>3, <3>4, <3>5 DEF L
  <2> QED  BY <1>1, <2>4, <2>5
<1> QED  BY <1>2, <1>3

\* What the cache remembers and forgets when a payload is seen.
LEMMA TouchedIs ==
    ASSUME cache \in Seq(Payloads), Len(cache) <= CacheSize, NEW h \in Payloads,
           \A p, q \in 1 .. Len(cache) : cache[p] = cache[q] => p = q,
           cache' = Touched(h)
    PROVE  /\ cache' \in Seq(Payloads) /\ Len(cache') <= CacheSize /\ Len(cache') \in Nat \ {0}
           /\ cache'[Len(cache')] = h
           /\ \A k, m \in 1 .. Len(cache') : cache'[k] = cache'[m] => k = m
           /\ \A k \in 1 .. Len(cache') - 1 : \E q \in 1 .. Len(cache) :
                 /\ cache'[k] = cache[q]
                 /\ {cache'[r] : r \in k + 1 .. Len(cache')} = Behind(q) \cup {h}
           /\ \A q \in 1 .. Len(cache) :
                 \/ cache[q] \in {cache'[r] : r \in 1 .. Len(cache')}
                 \/ q = 1 /\ Len(cache) = CacheSize
                    /\ {cache'[r] : r \in 1 .. Len(cache')} \subseteq Behind(1) \cup {h}
           /\ Len(cache) = CacheSize => Len(cache') = CacheSize
           /\ {cache'[r] : r \in 1 .. Len(cache')} \subseteq Behind(0) \cup {h}
<1> DEFINE L == Len(cache)
           M == Len(cache')
<1>1. PICK p \in 1 .. L + 1 :
        /\ cache' \in Seq(Payloads) /\ M <= CacheSize
        /\ M = IF p <= L THEN L ELSE L + 1
        /\ cache'[M] = h
        /\ \A k \in 1 .. M - 1 : cache'[k] = IF k < p THEN cache[k] ELSE cache[k + 1]
        /\ \A k \in 1 .. L : k # p => cache[k] # h
        /\ \/ p <= L /\ cache[p] = h
           \/ p = 1 /\ L = CacheSize
           \/ p = L + 1
  <2> DEFINE c == Touched(h)
  <2>1. cache' = c
    OBVIOUS
  <2>2. \E p \in 1 .. L + 1 :
          /\ c \in Seq(Payloads) /\ Len(c) <= CacheSize
          /\ Len(c) = IF p <= L THEN L ELSE L + 1
          /\ c[Len(c)] = h
          /\ \A k \in 1 .. Len(c) - 1 : c[k] = IF k < p THEN cache[k] ELSE cache[k + 1]
          /\ \A k \in 1 .. L : k # p => cache[k] # h
          /\ \/ p <= L /\ cache[p] = h
             \/ p = 1 /\ L = CacheSize
             \/ p = L + 1
    BY TouchedShape, Zenon
  <2> HIDE DEF c
  <2> QED  BY <2>1, <2>2, Zenon
<1>2. /\ L \in Nat /\ p \in Nat /\ 1 <= p /\ p <= L + 1 /\ CacheSize \in Nat \ {0}
      /\ \A k, m \in 1 .. L : cache[k] = cache[m] => k = m
  BY ConstantsAssumption
<1>3. \A q : Behind(q) = {cache[r] : r \in q + 1 .. L}
  BY DEF Behind
<1> HIDE DEF L, M
<1>4. M \in Nat \ {0} /\ (p <= L => M = L) /\ (p = L + 1 => M = L + 1)
  BY <1>1, <1>2
<1>5. ASSUME NEW k \in 1 .. M - 1
      PROVE  \E q \in 1 .. L : /\ q = (IF k < p THEN k ELSE k + 1)
                               /\ cache'[k] = cache[q] /\ q # p /\ cache[q] # h
  <2>1. CASE k < p
    BY <1>1, <1>2, <1>4, <2>1
  <2>2. CASE ~(k < p)
    <3>1. k + 1 \in 1 .. L /\ k + 1 # p
      BY <1>2, <1>4, <2>2
    <3> QED  BY <1>1, <2>2, <3>1
  <2> QED  BY <2>1, <2>2
<1>6. ASSUME NEW r \in 1 .. L, r # p
      PROVE  \E k \in 1 .. M - 1 : k = (IF r < p THEN r ELSE r - 1) /\ cache'[k] = cache[r]
  <2>1. CASE r < p
    <3>1. r \in 1 .. M - 1
      BY <1>2, <1>4, <2>1
    <3> QED  BY <1>1, <2>1, <3>1
  <2>2. CASE ~(r < p)
    <3>1. r - 1 \in 1 .. M - 1 /\ ~(r - 1 < p) /\ (r - 1) + 1 = r
      BY <1>2, <1>4, <1>6, <2>2
    <3> QED  BY <1>1, <2>2, <3>1
  <2> QED  BY <2>1, <2>2
<1>7. ASSUME NEW k \in 1 .. M, NEW m \in 1 .. M, cache'[k] = cache'[m]  PROVE k = m
  <2>1. \A n \in 1 .. M : n = M \/ n \in 1 .. M - 1
    BY <1>4
  <2>2. CASE k = M /\ m = M
    BY <2>2
  <2>3. CASE k \in 1 .. M - 1 /\ m = M
    BY <1>1, <1>5, <1>7, <2>3, Zenon
  <2>4. CASE k = M /\ m \in 1 .. M - 1
    BY <1>1, <1>5, <1>7, <2>4, Zenon
  <2>5. CASE k \in 1 .. M - 1 /\ m \in 1 .. M - 1
    <3>1. PICK q \in 1 .. L : q = (IF k < p THEN k ELSE k + 1) /\ cache'[k] = cache[q] /\ q # p
      BY <1>5, <2>5
    <3>2. PICK r \in 1 .. L : r = (IF m < p THEN m ELSE m + 1) /\ cache'[m] = cache[r] /\ r # p
      BY <1>5, <2>5
    <3>3. q = r
      BY <1>2, <1>7, <3>1, <3>2
    <3> QED  BY <1>2, <2>5, <3>1, <3>2, <3>3
  <2> QED  BY <2>1, <2>2, <2>3, <2>4, <2>5
<1>8. ASSUME NEW k \in 1 .. M - 1
      PROVE  \E q \in 1 .. L : /\ cache'[k] = cache[q]
                               /\ {cache'[r] : r \in k + 1 .. M} = Behind(q) \cup {h}
  <2>1. PICK q \in 1 .. L : /\ q = (IF k < p THEN k ELSE k + 1)
                            /\ cache'[k] = cache[q] /\ q # p
    BY <1>5
  <2>2. ASSUME NEW r \in k + 1 .. M  PROVE cache'[r] \in Behind(q) \cup {h}
    <3>1. CASE r = M
      BY <1>1, <3>1
    <3>2. CASE r # M
      <4>1. r \in 1 .. M - 1
        BY <1>4, <3>2
      <4>2. PICK s \in 1 .. L : s = (IF r < p THEN r ELSE r + 1) /\ cache'[r] = cache[s]
        BY <1>5, <4>1
      <4>3. s \in q + 1 .. L
        BY <1>2, <2>1, <4>1, <4>2
      <4> QED  BY <1>3, <4>2, <4>3
    <3> QED  BY <3>1, <3>2
  <2>3. ASSUME NEW s \in q + 1 .. L
        PROVE  \E r \in k + 1 .. M : cache'[r] = cache[s]
    <3>1. s \in 1 .. L /\ M \in k + 1 .. M
      BY <1>2, <1>4, <2>1
    <3>2. CASE s = p
      <4>1. cache[p] = h
        BY <1>1, <1>2, <2>1, <3>1, <3>2
      <4> QED  BY <1>1, <3>1, <3>2, <4>1
    <3>3. CASE s # p
      <4>1. PICK r \in 1 .. M - 1 : r = (IF s < p THEN s ELSE s - 1) /\ cache'[r] = cache[s]
        BY <1>6, <3>1, <3>3
      <4>2. r \in k + 1 .. M
        BY <1>2, <1>4, <2>1, <3>1, <3>3, <4>1
      <4> QED  BY <4>1, <4>2
    <3> QED  BY <3>2, <3>3
  <2>4. \E r \in k + 1 .. M : cache'[r] = h
    <3>1. M \in k + 1 .. M
      BY <1>4
    <3> QED  BY <1>1, <3>1
  <2>5. {cache'[r] : r \in k + 1 .. M} = {cache[s] : s \in q + 1 .. L} \cup {h}
    BY <1>3, <2>2, <2>3, <2>4
  <2> QED  BY <1>3, <2>1, <2>5
<1>9. ASSUME NEW q \in 1 .. L, q # p  PROVE cache[q] \in {cache'[r] : r \in 1 .. M}
  <2>1. PICK k \in 1 .. M - 1 : cache'[k] = cache[q]
    BY <1>6, <1>9
  <2>2. k \in 1 .. M
    BY <1>4
  <2> QED  BY <2>1, <2>2
<1>10. ASSUME NEW r \in 1 .. M
       PROVE  cache'[r] \in Behind(0) \cup {h} /\ (p = 1 => cache'[r] \in Behind(1) \cup {h})
  <2>1. CASE r = M
    BY <1>1, <2>1
  <2>2. CASE r # M
    <3>1. r \in 1 .. M - 1
      BY <1>4, <2>2
    <3>2. PICK q \in 1 .. L : /\ q = (IF r < p THEN r ELSE r + 1)
                              /\ cache'[r] = cache[q] /\ q # p
      BY <1>5, <3>1
    <3>3. q \in 0 + 1 .. L /\ (p = 1 => q \in 1 + 1 .. L)
      BY <1>2, <3>1, <3>2
    <3> QED  BY <1>3, <3>2, <3>3
  <2> QED  BY <2>1, <2>2
<1>11. p \in 1 .. L => \/ cache[p] \in {cache'[r] : r \in 1 .. M}
                       \/ p = 1 /\ L = CacheSize
                          /\ {cache'[r] : r \in 1 .. M} \subseteq Behind(1) \cup {h}
  <2>1. CASE p = L + 1
    BY <1>2, <2>1
  <2>2. CASE p <= L /\ cache[p] = h
    <3>1. M \in 1 .. M
      BY <1>4
    <3> QED  BY <1>1, <2>2, <3>1
  <2>3. CASE p = 1 /\ L = CacheSize
    BY <1>10, <2>3
  <2> QED  BY <1>1, <2>1, <2>2, <2>3
<1>12. L = CacheSize => M = CacheSize
  BY <1>1, <1>2, <1>4
<1>13. {cache'[r] : r \in 1 .. M} \subseteq Behind(0) \cup {h}
  BY <1>10
<1>14. ASSUME NEW q \in 1 .. L
       PROVE  \/ cache[q] \in {cache'[r] : r \in 1 .. M}
              \/ q = 1 /\ L = CacheSize
                 /\ {cache'[r] : r \in 1 .. M} \subseteq Behind(1) \cup {h}
  BY <1>9, <1>11
<1>15. cache' \in Seq(Payloads) /\ M <= CacheSize /\ cache'[M] = h
  BY <1>1
<1> QED  BY <1>4, <1>7, <1>8, <1>12, <1>13, <1>14, <1>15, Zenon DEF L, M

\* A payload is in the cache exactly when it was seen and fewer than CacheSize others since.
LEMMA CacheRemembers ==
    ASSUME CacheIsRecent, CheckedOnce, NEW h \in Payloads
    PROVE  InCache(h) <=> \E j \in 1 .. Len(checked) :
                            Seen(j) = h /\ Cardinality(Since(j) \ {h}) < CacheSize
<1> DEFINE L == Len(cache)
           n == Len(checked)
<1>1. /\ L \in Nat /\ L <= CacheSize /\ CacheSize \in Nat \ {0} /\ n \in Nat
      /\ \A k \in 1 .. L : cache[k] \in Payloads
      /\ \A p, q \in 1 .. L : cache[p] = cache[q] => p = q
  BY ConstantsAssumption DEF CacheIsRecent, CheckedOnce
<1>2. \A q : Behind(q) = {cache[r] : r \in q + 1 .. L}
  BY DEF Behind
<1>3. ASSUME NEW p \in 1 .. L, cache[p] = h
      PROVE  \E j \in 1 .. n : Seen(j) = h /\ Cardinality(Since(j) \ {h}) < CacheSize
  <2>1. PICK j \in 1 .. n : Seen(j) = h /\ Since(j) = Behind(p)
    BY <1>3 DEF CacheIsRecent
  <2> DEFINE S == p + 1 .. L
             T == Behind(p)
             f == [q \in S |-> cache[q]]
  <2>2. f \in Surjection(S, T)
    BY <1>2 DEF Surjection
  <2>3. IsFiniteSet(S) /\ Cardinality(S) = IF p + 1 > L THEN 0 ELSE L - (p + 1) + 1
    <3>1. p + 1 \in Int /\ L \in Int
      BY <1>1
    <3> QED  BY <3>1, FS_Interval
  <2> HIDE DEF S, T, f
  <2>4. IsFiniteSet(T) /\ Cardinality(T) <= Cardinality(S)
    BY <2>2, <2>3, FS_Surjection
  <2>5. IsFiniteSet(T \ {h}) /\ Cardinality(T \ {h}) <= Cardinality(T)
    BY <2>4, FS_Subset
  <2>6. Cardinality(T) \in Nat /\ Cardinality(T \ {h}) \in Nat
    BY <2>4, <2>5, FS_CardinalityType
  <2>7. Cardinality(S) < CacheSize /\ Cardinality(S) \in Nat
    BY <1>1, <2>3
  <2>8. Cardinality(T \ {h}) < CacheSize
    BY <1>1, <2>4, <2>5, <2>6, <2>7
  <2> QED  BY <2>1, <2>8 DEF T
<1>4. ASSUME NEW j \in 1 .. n, Seen(j) = h, Cardinality(Since(j) \ {h}) < CacheSize, ~InCache(h)
      PROVE  FALSE
  <2>1. h \notin Behind(0)
    BY <1>2, <1>4 DEF InCache
  <2>2. L = CacheSize /\ Behind(0) \subseteq Since(j)
    BY <1>4, <2>1 DEF CacheIsRecent
  <2> DEFINE S == 1 .. L
             T == Since(j) \ {h}
             f == [q \in S |-> cache[q]]
  <2>3. f \in Injection(S, T)
    <3>1. ASSUME NEW q \in S  PROVE cache[q] \in T
      <4>1. q \in 0 + 1 .. L
        BY <1>1
      <4> QED  BY <1>2, <2>1, <2>2, <4>1
    <3> QED  BY <1>1, <3>1 DEF Injection, IsInjective
  <2>4. IsFiniteSet(T)
    <3> DEFINE I == j + 1 .. n
               g == [m \in I |-> Seen(m)]
    <3>1. g \in Surjection(I, Since(j))
      BY DEF Surjection, Since
    <3>2. IsFiniteSet(I)
      <4>1. j + 1 \in Int /\ n \in Int
        BY <1>1
      <4> QED  BY <4>1, FS_Interval
    <3> HIDE DEF I, g
    <3>3. IsFiniteSet(Since(j))
      BY <3>1, <3>2, FS_Surjection
    <3> QED  BY <3>3, FS_Subset
  <2>5. Cardinality(S) = L
    <3>1. 1 \in Int /\ L \in Int /\ (IF 1 > L THEN 0 ELSE L - 1 + 1) = L
      BY <1>1
    <3> QED  BY <3>1, FS_Interval
  <2> HIDE DEF S, T, f
  <2>6. Cardinality(S) <= Cardinality(T) /\ Cardinality(T) \in Nat
    BY <2>3, <2>4, FS_Injection, FS_CardinalityType
  <2>7. Cardinality(T) < CacheSize
    BY <1>4 DEF T
  <2> QED  BY <1>1, <2>2, <2>5, <2>6, <2>7
<1> QED  BY <1>3, <1>4 DEF InCache

\* Nothing that concerns the cache changes, and no thread is about to check an event that
\* was checked before.
LEMMA CacheUnchanged ==
    ASSUME CacheInv, cache' = cache, checked' = checked, duplicate' = duplicate,
           \A i \in Ids : body[i] \in Payloads => body'[i] = body[i],
           \A t \in Threads : at'[t] = "classify" =>
              \A j \in 1 .. Len(checked) : checked[j] # job'[t]
    PROVE  CacheInv'
<1>1. /\ checked \in Seq(Ids) /\ Len(checked) \in Nat
      /\ \A j \in 1 .. Len(checked) : checked[j] \in Ids /\ body[checked[j]] \in Payloads
  BY DEF CacheInv, CheckedOnce, Seen
<1>2. \A j \in 1 .. Len(checked) : body'[checked[j]] = body[checked[j]]
  BY <1>1
<1>3. ASSUME NEW j \in 0 .. Len(checked)  PROVE Since(j)' = Since(j)
  <2>1. \A m \in j + 1 .. Len(checked) : m \in 1 .. Len(checked)
    BY <1>1
  <2> QED  BY <1>2, <2>1 DEF Since, Seen
<1>4. ASSUME NEW p  PROVE Behind(p)' = Behind(p)
  BY DEF Behind
<1>5. ASSUME NEW j \in 1 .. Len(checked)  PROVE Seen(j)' = Seen(j) /\ Since(j)' = Since(j)
  <2>1. j \in 0 .. Len(checked)
    BY <1>1
  <2> QED  BY <1>2, <1>3, <2>1 DEF Seen
<1>6. CacheIsRecent'
  BY <1>4, <1>5 DEF CacheInv, CacheIsRecent
<1>7. CheckedOnce'
  BY <1>1, <1>5 DEF CacheInv, CheckedOnce
<1>8. DuplicateFlagExact'
  <2>1. ASSUME NEW k \in 1 .. Len(checked), NEW j \in 1 .. k - 1
        PROVE  Between(j, k)' = Between(j, k) /\ body'[checked[j]] = body[checked[j]]
    <3>1. \A m \in j + 1 .. k - 1 : m \in 1 .. Len(checked)
      BY <1>1
    <3>2. j \in 1 .. Len(checked)
      BY <1>1
    <3> QED  BY <1>2, <3>1, <3>2 DEF Between
  <2> QED  BY <1>2, <2>1 DEF CacheInv, DuplicateFlagExact
<1> QED  BY <1>6, <1>7, <1>8 DEF CacheInv

\* The check itself: the flag says what the cache remembers, and the cache remembers what
\* was seen last.
LEMMA CheckKeeps ==
    ASSUME IInv, CacheInv, NEW t \in Threads, CheckAndAdd(t)
    PROVE  CacheInv'
<1> DEFINE i == job[t]
           h == body[i]
           n == Len(checked)
<1>1. /\ at[t] = "classify" /\ h \in Payloads /\ body' = body
      /\ duplicate' = [duplicate EXCEPT ![i] = InCache(h)]
      /\ cache' = Touched(h)
      /\ checked' = Append(checked, i)
      /\ at' = [at EXCEPT ![t] = "raw"] /\ job' = job
  BY DEF CheckAndAdd, Goes
<1>2. /\ checked \in Seq(Ids) /\ n \in Nat /\ i \in Ids
      /\ \A j \in 1 .. n : checked[j] \in Ids /\ checked[j] # i /\ body[checked[j]] \in Payloads
      /\ \A j, k \in 1 .. n : checked[j] = checked[k] => j = k
      /\ at \in [Threads -> Steps] /\ duplicate \in [Ids -> BOOLEAN]
  BY <1>1 DEF CacheInv, CheckedOnce, Seen, IInv, OwnJobs, StateTypes
<1>3. /\ cache \in Seq(Payloads) /\ Len(cache) <= CacheSize /\ Len(cache) \in Nat
      /\ \A p, q \in 1 .. Len(cache) : cache[p] = cache[q] => p = q
      /\ \A p \in 1 .. Len(cache) : \E j \in 1 .. n : Seen(j) = cache[p] /\ Since(j) = Behind(p)
      /\ \A j \in 1 .. n : \/ Seen(j) \in Behind(0)
                           \/ Len(cache) = CacheSize /\ Behind(0) \subseteq Since(j)
  BY DEF CacheInv, CacheIsRecent
<1>4. h \in Payloads /\ cache' = Touched(h)
  BY <1>1
<1>5. \A u \in Threads : u # t /\ at[u] = "classify" => job[u] # i
  BY <1>1 DEF IInv, OwnJobs
<1>6. InCache(h) <=> \E j \in 1 .. n : Seen(j) = h /\ Cardinality(Since(j) \ {h}) < CacheSize
  BY <1>1, CacheRemembers DEF CacheInv
<1>7. h = body[i] /\ i = job[t]
  OBVIOUS
<1> HIDE DEF h, i
<1>8. /\ cache' \in Seq(Payloads) /\ Len(cache') <= CacheSize /\ Len(cache') \in Nat \ {0}
      /\ cache'[Len(cache')] = h
      /\ \A k, m \in 1 .. Len(cache') : cache'[k] = cache'[m] => k = m
      /\ \A k \in 1 .. Len(cache') - 1 : \E q \in 1 .. Len(cache) :
            /\ cache'[k] = cache[q]
            /\ {cache'[r] : r \in k + 1 .. Len(cache')} = Behind(q) \cup {h}
      /\ \A q \in 1 .. Len(cache) :
            \/ cache[q] \in {cache'[r] : r \in 1 .. Len(cache')}
            \/ q = 1 /\ Len(cache) = CacheSize
               /\ {cache'[r] : r \in 1 .. Len(cache')} \subseteq Behind(1) \cup {h}
      /\ Len(cache) = CacheSize => Len(cache') = CacheSize
      /\ {cache'[r] : r \in 1 .. Len(cache')} \subseteq Behind(0) \cup {h}
  BY <1>3, <1>4, TouchedIs
<1>9. ASSUME NEW k \in Nat
      PROVE  Behind(k)' = {cache'[r] : r \in k + 1 .. Len(cache')}
  BY DEF Behind
<1>10. /\ checked' \in Seq(Ids) /\ Len(checked') = n + 1 /\ checked'[n + 1] = i
       /\ \A j \in 1 .. n : checked'[j] = checked[j]
  BY <1>1, <1>2
<1>11. ASSUME NEW j \in 1 .. n  PROVE Seen(j)' = Seen(j) /\ Since(j)' = Since(j) \cup {h}
  <2>1. /\ \A m \in j + 1 .. n + 1 : m = n + 1 \/ m \in j + 1 .. n
        /\ \A m \in j + 1 .. n : m \in 1 .. n /\ m \in j + 1 .. n + 1
        /\ n + 1 \in j + 1 .. n + 1
    BY <1>2
  <2>2. \A m \in 1 .. n : body'[checked'[m]] = body[checked[m]]
    BY <1>1, <1>10
  <2>3. body'[checked'[n + 1]] = h
    BY <1>1, <1>7, <1>10
  <2>4. Since(j)' = {body'[checked'[m]] : m \in j + 1 .. n + 1}
    BY <1>10 DEF Since, Seen
  <2>5. Since(j) = {body[checked[m]] : m \in j + 1 .. n}
    BY DEF Since, Seen
  <2> QED  BY <2>1, <2>2, <2>3, <2>4, <2>5 DEF Seen
<1>12. ASSUME NEW j \in 1 .. n + 1, j = n + 1  PROVE Seen(j)' = h /\ Since(j)' = {}
  <2>1. j + 1 .. n + 1 = {}
    BY <1>2, <1>12
  <2>2. Since(j)' = {Seen(m)' : m \in {}}
    BY <1>10, <2>1 DEF Since
  <2> QED  BY <1>1, <1>7, <1>10, <1>12, <2>2 DEF Seen
<1>13. \A j \in 1 .. n + 1 : j \in 1 .. n \/ j = n + 1
  BY <1>2
<1>14. n + 1 \in 1 .. n + 1 /\ \A j \in 1 .. n : j \in 1 .. n + 1
  BY <1>2
<1>15. CacheIsRecent'
  <2>1. ASSUME NEW k \in 1 .. Len(cache')
        PROVE  \E j \in 1 .. n + 1 : Seen(j)' = cache'[k] /\ Since(j)' = Behind(k)'
    <3>1. CASE k = Len(cache')
      <4>1. k + 1 .. Len(cache') = {}
        BY <1>8, <3>1
      <4>2. Behind(k)' = {}
        BY <1>8, <1>9, <4>1
      <4>3. PICK j \in 1 .. n + 1 : j = n + 1
        BY <1>14
      <4> QED  BY <1>8, <1>12, <3>1, <4>2, <4>3
    <3>2. CASE k # Len(cache')
      <4>1. k \in 1 .. Len(cache') - 1 /\ k \in Nat
        BY <1>8, <3>2
      <4>2. \E q \in 1 .. Len(cache) :
               cache'[k] = cache[q] /\ {cache'[r] : r \in k + 1 .. Len(cache')} = Behind(q) \cup {h}
        BY <1>8, <4>1
      <4>3. Behind(k)' = {cache'[r] : r \in k + 1 .. Len(cache')}
        BY <1>9, <4>1
      <4>4. PICK q \in 1 .. Len(cache) : cache'[k] = cache[q] /\ Behind(k)' = Behind(q) \cup {h}
        BY ONLY <4>2, <4>3
      <4>5. PICK j \in 1 .. n : Seen(j) = cache[q] /\ Since(j) = Behind(q)
        BY <1>3
      <4> QED  BY <1>11, <1>14, <4>4, <4>5
    <3> QED  BY <3>1, <3>2
  <2>2. Behind(0)' = {cache'[r] : r \in 1 .. Len(cache')}
    BY <1>9
  <2>3. ASSUME NEW j \in 1 .. n, Seen(j) # h, Seen(j) \notin Behind(0)'
        PROVE  Len(cache') = CacheSize /\ Behind(0)' \subseteq Since(j) \cup {h}
    <3>1. CASE Seen(j) \notin Behind(0)
      BY <1>3, <1>8, <2>2, <3>1
    <3>2. CASE Seen(j) \in Behind(0)
      <4>1. PICK q \in 0 + 1 .. Len(cache) : cache[q] = Seen(j)
        BY <3>2 DEF Behind
      <4>2. q = 1 /\ q \in 1 .. Len(cache) /\ Len(cache) = CacheSize
            /\ Behind(0)' \subseteq Behind(1) \cup {h}
        <5>1. q \in 1 .. Len(cache)
          BY <1>3
        <5>2. cache[q] \notin {cache'[r] : r \in 1 .. Len(cache')}
          BY <2>2, <2>3, <4>1
        <5> QED  BY <1>8, <2>2, <5>1, <5>2
      <4>3. PICK k \in 1 .. n : Seen(k) = cache[1] /\ Since(k) = Behind(1)
        BY <1>3, <4>2
      <4>4. cache[1] \notin Behind(1)
        <5>1. \A r \in 1 + 1 .. Len(cache) : r \in 1 .. Len(cache) /\ r # 1
          BY <1>3
        <5> QED  BY <1>3, <4>2, <5>1 DEF Behind
      <4>5. ~(k < j)
        <5>1. k < j => j \in k + 1 .. n
          BY <1>2
        <5>2. k < j => Seen(j) \in Since(k)
          BY <5>1 DEF Since
        <5> QED  BY <4>1, <4>2, <4>3, <4>4, <5>2
      <4>6. \A m \in k + 1 .. n : m \in j + 1 .. n
        BY <1>2, <4>5
      <4>7. Since(k) \subseteq Since(j)
        BY <4>6 DEF Since
      <4> QED  BY <1>8, <4>2, <4>3, <4>7
    <3> QED  BY <3>1, <3>2
  <2>4. h \in Behind(0)'
    <3>1. Len(cache') \in 1 .. Len(cache')
      BY <1>8
    <3> QED  BY <1>8, <2>2, <3>1
  <2>5. ASSUME NEW j \in 1 .. n + 1
        PROVE  \/ Seen(j)' \in Behind(0)'
               \/ Len(cache') = CacheSize /\ Behind(0)' \subseteq Since(j)'
    <3>1. CASE j = n + 1
      BY <1>12, <2>4, <3>1
    <3>2. CASE j \in 1 .. n
      BY <1>11, <2>3, <2>4, <3>2
    <3> QED  BY <1>13, <3>1, <3>2
  <2> QED  BY <1>8, <1>10, <2>1, <2>5 DEF CacheIsRecent
<1>16. CheckedOnce'
  <2>1. ASSUME NEW j \in 1 .. n + 1  PROVE Seen(j)' \in Payloads
    <3>1. CASE j = n + 1
      BY <1>4, <1>12, <3>1
    <3>2. CASE j \in 1 .. n
      BY <1>2, <1>11, <3>2 DEF Seen
    <3> QED  BY <1>13, <3>1, <3>2
  <2>2. ASSUME NEW j \in 1 .. n + 1, NEW k \in 1 .. n + 1, checked'[j] = checked'[k]
        PROVE  j = k
    BY <1>2, <1>10, <1>13, <2>2
  <2>3. ASSUME NEW u \in Threads, at'[u] = "classify", NEW j \in 1 .. n + 1
        PROVE  checked'[j] # job'[u]
    <3>1. u # t /\ at[u] = "classify" /\ job'[u] = job[u]
      BY <1>1, <1>2, <2>3
    <3>2. CASE j = n + 1
      BY <1>5, <1>10, <3>1, <3>2
    <3>3. CASE j \in 1 .. n
      BY <1>10, <3>1, <3>3 DEF CacheInv, CheckedOnce
    <3> QED  BY <1>13, <3>2, <3>3
  <2> QED  BY <1>10, <2>1, <2>2, <2>3 DEF CheckedOnce
<1>17. DuplicateFlagExact'
  <2>1. ASSUME NEW k \in 1 .. n + 1, NEW j \in 1 .. k - 1
        PROVE  /\ j \in 1 .. n /\ body'[checked'[j]] = Seen(j)
               /\ k \in 1 .. n => Between(j, k)' = Between(j, k)
               /\ k = n + 1 => Between(j, k)' = Since(j) \ {h}
    <3>1. j \in 1 .. n /\ \A m \in j + 1 .. k - 1 : m \in 1 .. n
      BY <1>2
    <3>2. \A m \in 1 .. n : body'[checked'[m]] = body[checked[m]]
      BY <1>1, <1>10
    <3>3. k \in 1 .. n => Between(j, k)' = Between(j, k)
      BY <3>1, <3>2 DEF Between
    <3>4. ASSUME k = n + 1  PROVE Between(j, k)' = Since(j) \ {h}
      <4>1. j + 1 .. k - 1 = j + 1 .. n
        BY <1>2, <3>4
      <4>2. body'[checked'[k]] = h
        BY <1>1, <1>7, <1>10, <3>4
      <4> QED  BY <3>1, <3>2, <4>1, <4>2 DEF Between, Since, Seen
    <3> QED  BY <3>1, <3>2, <3>3, <3>4 DEF Seen
  <2>2. ASSUME NEW k \in 1 .. n
        PROVE  duplicate'[checked'[k]] <=>
                 \E j \in 1 .. k - 1 : /\ body'[checked'[j]] = body'[checked'[k]]
                                       /\ Cardinality(Between(j, k)') < CacheSize
    <3>1. duplicate'[checked'[k]] = duplicate[checked[k]]
      BY <1>1, <1>2, <1>10
    <3>2. duplicate[checked[k]] <=>
            \E j \in 1 .. k - 1 : /\ body[checked[j]] = body[checked[k]]
                                  /\ Cardinality(Between(j, k)) < CacheSize
      BY DEF CacheInv, DuplicateFlagExact
    <3>3. k \in 1 .. n + 1 /\ body'[checked'[k]] = body[checked[k]]
      BY <1>1, <1>10, <1>14
    <3> QED  BY <2>1, <3>1, <3>2, <3>3 DEF Seen
  <2>3. ASSUME NEW k \in 1 .. n + 1, k = n + 1
        PROVE  duplicate'[checked'[k]] <=>
                 \E j \in 1 .. k - 1 : /\ body'[checked'[j]] = body'[checked'[k]]
                                       /\ Cardinality(Between(j, k)') < CacheSize
    <3>1. duplicate'[checked'[k]] = InCache(h)
      BY <1>1, <1>2, <1>10, <2>3
    <3>2. body'[checked'[k]] = h /\ 1 .. k - 1 = 1 .. n
      BY <1>1, <1>2, <1>7, <1>10, <2>3
    <3>3. ASSUME NEW j \in 1 .. n
          PROVE  /\ body'[checked'[j]] = Seen(j)
                 /\ Between(j, k)' = Since(j) \ {h}
      <4>1. j \in 1 .. k - 1
        BY <3>2
      <4> QED  BY <2>1, <2>3, <4>1
    <3> QED  BY <1>6, <3>1, <3>2, <3>3
  <2>4. ASSUME NEW k \in 1 .. n + 1
        PROVE  duplicate'[checked'[k]] <=>
                 \E j \in 1 .. k - 1 : /\ body'[checked'[j]] = body'[checked'[k]]
                                       /\ Cardinality(Between(j, k)') < CacheSize
    BY <1>13, <2>2, <2>3
  <2> QED  BY <1>10, <2>4 DEF DuplicateFlagExact
<1>18. duplicate' \in [Ids -> BOOLEAN]
  BY <1>1, <1>2 DEF InCache
<1> QED  BY <1>15, <1>16, <1>17, <1>18 DEF CacheInv

\* Every step keeps what the flags rest on.
LEMMA NextCacheInv == IInv /\ CacheInv /\ [Next]_vars => CacheInv'
<1> SUFFICES ASSUME IInv, CacheInv, [Next]_vars  PROVE CacheInv'
  OBVIOUS
<1>1. /\ at \in [Threads -> Steps] /\ body \in [Ids -> Payloads \cup Unfit \cup {None}]
      /\ job \in [Threads -> Ids \cup {None}]
      /\ \A t \in Threads : at[t] = "classify" =>
            \A j \in 1 .. Len(checked) : checked[j] # job[t]
      /\ \A j \in 1 .. Len(checked) : checked[j] \in Ids /\ body[checked[j]] \in Payloads
  BY DEF IInv, StateTypes, CacheInv, CheckedOnce, Seen
<1> USE DEF Goes
<1>2. ASSUME NEW t \in Threads, Receive(t) \/ RejectFrame(t)  PROVE CacheInv'
  <2>1. /\ cache' = cache /\ checked' = checked /\ duplicate' = duplicate
        /\ \E b : Arrives(t, b)
        /\ \A u \in Threads \ {t} : at'[u] = at[u]
    BY <1>1, <1>2 DEF Receive, RejectFrame, Refuses
  <2>2. PICK i \in Ids : /\ body[i] = None /\ job' = [job EXCEPT ![t] = i]
                         /\ \A k \in Ids \ {i} : body'[k] = body[k]
    BY <1>1, <2>1 DEF Arrives
  <2>3. \A k \in Ids : body[k] \in Payloads => body'[k] = body[k]
    BY <2>2, ConstantsAssumption
  <2>4. \A j \in 1 .. Len(checked) : checked[j] # i
    BY <1>1, <2>2, ConstantsAssumption
  <2>5. \A u \in Threads : at'[u] = "classify" =>
           \A j \in 1 .. Len(checked) : checked[j] # job'[u]
    BY <1>1, <2>1, <2>2, <2>4
  <2> QED  BY <2>1, <2>3, <2>5, CacheUnchanged
<1>3. ASSUME NEW t \in Threads, CheckAndAdd(t)  PROVE CacheInv'
  BY <1>3, CheckKeeps
<1>4. ASSUME NEW t \in Threads,
             \/ RejectUnfit(t) \/ StoreRaw(t) \/ StoreMeta(t) \/ StoreFails(t) \/ Produce(t)
             \/ PublishFails(t) \/ AppendLine(t) \/ AppendFails(t) \/ Flushed(t)
             \/ CountDuplicate(t) \/ Record(t) \/ RecordFails(t) \/ CountRejected(t)
      PROVE  CacheInv'
  <2>1. /\ cache' = cache /\ checked' = checked /\ duplicate' = duplicate /\ body' = body
        /\ \A u \in Threads : at'[u] = "classify" => at[u] = "classify" /\ job'[u] = job[u]
    BY <1>1, <1>4
    DEF RejectUnfit, StoreRaw, StoreMeta, StoreFails, Produce, PublishFails, AppendLine,
        AppendFails, Flushed, Accepts, CountDuplicate, Record, RecordFails, Recorded, Returns,
        Refuses, CountRejected, event
  <2>2. \A u \in Threads : at'[u] = "classify" =>
           \A j \in 1 .. Len(checked) : checked[j] # job'[u]
    BY <1>1, <2>1
  <2> QED  BY <2>1, <2>2, CacheUnchanged
<1>5. ASSUME \/ UNCHANGED vars
             \/ \E i \in Ids : Delivered(i) \/ DeliveryFails(i) \/ Replay(i)
      PROVE  CacheInv'
  <2>1. UNCHANGED <<cache, checked, duplicate, body, at, job>>
    BY <1>5 DEF vars, event, Delivered, DeliveryFails, Replay
  <2>2. \A u \in Threads : at'[u] = "classify" =>
           \A j \in 1 .. Len(checked) : checked[j] # job'[u]
    BY <1>1, <2>1
  <2> QED  BY <2>1, <2>2, CacheUnchanged
<1>6. CASE Crash
  <2>1. cache' = <<>> /\ checked' = <<>> /\ duplicate' = duplicate
        /\ Len(cache') = 0 /\ Len(checked') = 0
    BY <1>6 DEF Crash, event
  <2>2. CacheIsRecent' /\ CheckedOnce' /\ DuplicateFlagExact'
    BY <2>1, ConstantsAssumption DEF CacheIsRecent, CheckedOnce, DuplicateFlagExact
  <2> QED  BY <2>1, <2>2 DEF CacheInv
<1> QED  BY <1>2, <1>3, <1>4, <1>5, <1>6 DEF Next, Proceed, Publish

LEMMA InitCacheInv == Init => CacheInv
<1> SUFFICES ASSUME Init  PROVE CacheInv
  OBVIOUS
<1>1. cache = <<>> /\ checked = <<>> /\ Len(cache) = 0 /\ Len(checked) = 0
      /\ duplicate \in [Ids -> BOOLEAN]
  BY DEF Init
<1>2. CacheIsRecent /\ CheckedOnce /\ DuplicateFlagExact
  BY <1>1, ConstantsAssumption DEF CacheIsRecent, CheckedOnce, DuplicateFlagExact
<1> QED  BY <1>1, <1>2 DEF CacheInv

\* The flag of an event says exactly whether its bytes were among the last CacheSize
\* payloads the cache had seen, for any cache size and any interleaving of the threads.
THEOREM FlagsAreExact == Spec => []DuplicateFlagExact
<1>1. CacheInv => DuplicateFlagExact
  BY DEF CacheInv
<1> QED  BY <1>1, InitCacheInv, NextCacheInv, Invariant, PTL DEF Spec

\* The types of the whole state.
THEOREM TypeCorrect == Spec => []TypeOK
<1>1. Init => OtherTypes /\ CountsInv
  <2> SUFFICES ASSUME Init PROVE OtherTypes /\ CountsInv
    OBVIOUS
  <2>1. Busy = {} /\ Counting = {}
    BY DEF Init, Busy, Counting
  <2>2. CountsInv
    BY <2>1, FS_EmptySet DEF Init, CountsInv, Counters
  <2> QED  BY <2>2, ConstantsAssumption DEF Init, OtherTypes
<1>2. IInv /\ OtherTypes /\ [Next]_vars => OtherTypes'
  <2> SUFFICES ASSUME IInv, OtherTypes, [Next]_vars PROVE OtherTypes'
    OBVIOUS
  <2>1. publisher' = publisher
    BY Zenon DEF Next, Proceed, Publish, vars, Receive, RejectFrame, RejectUnfit, CheckAndAdd, StoreRaw, StoreMeta,
           StoreFails, Produce, PublishFails, AppendLine, AppendFails, Flushed, CountDuplicate,
           Record, RecordFails, CountRejected, Delivered, DeliveryFails, Replay, Crash
  <2>2. faults' = faults \/ (faults < MaxFaults /\ faults' = faults + 1)
    <3>1. ASSUME NEW t \in Threads,
                 \/ Receive(t) \/ RejectFrame(t) \/ RejectUnfit(t) \/ CheckAndAdd(t)
                 \/ StoreRaw(t) \/ StoreMeta(t) \/ Produce(t) \/ AppendLine(t) \/ Flushed(t)
                 \/ CountDuplicate(t) \/ Record(t) \/ CountRejected(t)
          PROVE  faults' = faults
      BY <3>1 DEF Receive, RejectFrame, RejectUnfit, CheckAndAdd, StoreRaw, StoreMeta, Produce,
                  AppendLine, Flushed, CountDuplicate, Record, CountRejected
    <3>2. ASSUME NEW t \in Threads,
                 StoreFails(t) \/ PublishFails(t) \/ AppendFails(t) \/ RecordFails(t)
          PROVE  faults < MaxFaults /\ faults' = faults + 1
      BY <3>2 DEF StoreFails, PublishFails, AppendFails, RecordFails, Fault
    <3>3. ASSUME NEW i \in Ids, Delivered(i) \/ DeliveryFails(i) \/ Replay(i)
          PROVE  faults' = faults \/ (faults < MaxFaults /\ faults' = faults + 1)
      BY <3>3 DEF Delivered, DeliveryFails, Replay, Fault
    <3>4. CASE Crash
      BY <3>4 DEF Crash, Fault
    <3>5. CASE UNCHANGED vars
      BY <3>5 DEF vars
    <3> QED  BY <3>1, <3>2, <3>3, <3>4, <3>5 DEF Next, Proceed, Publish
  <2>3. unlogged' \subseteq Ids
    <3>1. \/ unlogged' = unlogged
          \/ \E t \in Threads : at[t] = "record" /\ unlogged' = unlogged \cup {job[t]}
      BY Zenon DEF Next, Proceed, Publish, vars, Receive, RejectFrame, RejectUnfit, CheckAndAdd, StoreRaw, StoreMeta,
             StoreFails, Produce, PublishFails, AppendLine, AppendFails, Flushed, CountDuplicate,
             Record, RecordFails, CountRejected, Delivered, DeliveryFails, Replay, Crash,
             CutShort, rejected
    <3> QED  BY <3>1 DEF OtherTypes, IInv, OwnJobs
  <2>4. failed' \subseteq Ids
    <3>1. failed' \in {failed, {}} \/ \E i \in Ids : failed' = failed \cup {i}
      BY Zenon DEF Next, Proceed, Publish, vars, Receive, RejectFrame, RejectUnfit, CheckAndAdd, StoreRaw, StoreMeta,
             StoreFails, Produce, PublishFails, AppendLine, AppendFails, Flushed, CountDuplicate,
             Record, RecordFails, CountRejected, Delivered, DeliveryFails, Replay, Crash, broker
    <3> QED  BY <3>1 DEF OtherTypes
  <2> QED  BY <2>1, <2>2, <2>3, <2>4, ConstantsAssumption DEF OtherTypes
<1>3. IInv /\ CacheInv /\ OtherTypes /\ CountsInv => TypeOK
  BY DEF IInv, StateTypes, CacheInv, CacheIsRecent, CheckedOnce, OtherTypes, CountsInv, TypeOK
<1> QED
  BY <1>1, <1>2, <1>3, InitCacheInv, NextCacheInv, NextCounts, Invariant, PTL DEF Spec
=============================================================================
