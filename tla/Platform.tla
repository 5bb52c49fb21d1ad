------------------------------ MODULE Platform ------------------------------
(***************************************************************************)
(* The platform from the transports to the resting places: the collector   *)
(* of module Collection, the workers of module StreamPipeline, and between *)
(* them the raw-event topic, which the one publishes to and the other's    *)
(* parser consumes.  They share nothing else and fail on their own.        *)
(*                                                                         *)
(* Without a broker the collector appends to a file, which is where its    *)
(* events rest: no worker reads it.                                        *)
(***************************************************************************)
EXTENDS Naturals, Sequences, FiniteSets

CONSTANTS Threads, Payloads, Unfit, CacheSize, MaxEvents,   \* the collector's
          Malformed, Flaky, Poison, Rejected, Workers, RoleOf, MaxAttempts,  \* the workers'
          MaxFaults,  \* bound: faults per behaviour, of either half
          None

VARIABLES publisher, at, job, why, body, duplicate, outcome, cache, rawFile, metaFile,
          rejections, queue, failed, topic, tail, swallowed, counts, checked, unlogged,
          collectorFaults,
          records, committed, owner, pc, pos, assigned, newest, workerFaults

Collector == INSTANCE CollectionProofs WITH log <- rejections, faults <- collectorFaults

Stream == INSTANCE StreamPipelineProofs
    WITH Events <- 1 .. MaxEvents, log <- records, faults <- workerFaults

ASSUME ConstantsAssumption ==
    /\ IsFiniteSet(Threads)
    /\ CacheSize \in Nat \ {0} /\ MaxEvents \in Nat /\ MaxFaults \in Nat
    /\ Payloads \cap Unfit = {}
    /\ None \notin Payloads \cup Unfit \cup (1 .. MaxEvents) \cup Workers
    /\ Malformed \in [Stream!Stages -> SUBSET (1 .. MaxEvents)]
    /\ Flaky \in [Stream!Stages -> SUBSET (1 .. MaxEvents)]
    /\ Poison \in [Stream!Stages -> SUBSET (1 .. MaxEvents)]
    /\ Rejected \subseteq 1 .. MaxEvents
    /\ RoleOf \in [Workers -> Stream!Roles]
    /\ MaxAttempts \in Nat

Ids == 1 .. MaxEvents

collectorVars ==
    <<publisher, at, job, why, body, duplicate, outcome, cache, rawFile, metaFile, rejections,
      queue, failed, topic, tail, swallowed, counts, checked, unlogged, collectorFaults>>

workerVars == <<records, committed, owner, pc, pos, assigned, newest, workerFaults>>

vars == <<collectorVars, workerVars>>

Init == Collector!Init /\ Stream!Init

\* The collector on its own.  What the broker has received of a queue when the process
\* dies was received before, event by event.
Collects ==
    /\ Collector!Proceed
    /\ publisher = "kafka" => topic' = topic
    /\ UNCHANGED workerVars

\* A published or replayed envelope is a record of the raw topic; a stream file is not.
HandsOver(i) ==
    /\ Collector!Publish(i)
    /\ Stream!Enter(i)

\* The workers never write to the archive, nor to anything else of the collector's.
Works(w) ==
    /\ Stream!Work(w)
    /\ UNCHANGED collectorVars

Next ==
    \/ Collects
    \/ \E i \in Ids : HandsOver(i)
    \/ \E w \in Workers : Works(w)

Spec == Init /\ [][Next]_vars
-----------------------------------------------------------------------------
\* The custody of an event across both halves.  The collector has it once it is archived,
\* the stream once it is published to the broker; it is settled where the stream says so
\* or on the stream file.  Every other combination means that the event is lost: a record
\* of what was never archived, a publication that no worker will see, a last record that
\* was committed without an output.
CustodyOf(i) ==
    LET collected == Collector!CustodyOf(i)
        processed == Stream!CustodyOf(i)
    IN  CASE collected = "outside" /\ processed = "outside"                       -> "outside"
          [] collected = "held"    /\ processed = "outside"                       -> "held"
          [] collected = "settled" /\ processed = "held"                          -> "held"
          [] collected = "settled" /\ processed = "outside" /\ publisher = "file" -> "settled"
          [] collected = "settled" /\ processed = "settled"                       -> "settled"
          [] OTHER                                                                -> "lost"

Whole == INSTANCE Delivery WITH Events <- Ids, custody <- [i \in Ids |-> CustodyOf(i)]

\* From the archive to the tables or the dead letters, whatever fails in either half: each
\* step takes one event into custody, settles what is in it or changes no custody.
ImplementsDelivery == Whole!SafeSpec

\* An event answered as accepted is with the workers, or rests where they put it, in spite
\* of every fault between the answer and its end; without a broker it is archived, which
\* is all that can be said of a file without a reader.
AcceptedReachesWorkers ==
    \A i \in Ids : outcome[i] = "accepted" =>
        IF publisher = "kafka" THEN Stream!CustodyOf(i) \in {"held", "settled"}
                               ELSE Collector!CustodyOf(i) \in {"held", "settled"}

\* What the two halves have in common: the raw topic is the records that entered the stream.
TopicIsRaw ==
    \A i \in Ids : Stream!CustodyOf(i) # "outside" <=> publisher = "kafka" /\ i \in topic
=============================================================================
