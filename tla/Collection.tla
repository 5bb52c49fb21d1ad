----------------------------- MODULE Collection -----------------------------
(***************************************************************************)
(* The collector of src/collection: transport threads that call            *)
(* CollectionPipeline.ingest concurrently and share the duplicate cache,   *)
(* the counters, the archive, the log of rejections and one publisher; and *)
(* the replay command, which republishes archived events.  The publisher   *)
(* is a Kafka producer, or the file that stands in for the topic where no  *)
(* broker is configured.                                                   *)
(*                                                                         *)
(* The broker is external: an event in flight is delivered or fails at any *)
(* time, also after the thread that produced it has given up waiting.      *)
(* The process may be killed between any two steps; the archive survives.  *)
(***************************************************************************)
EXTENDS Naturals, Sequences, FiniteSets

CONSTANTS Threads,    \* transport threads
          Payloads,   \* bytes that may be ingested, by their hash
          Unfit,      \* bytes that are empty or oversized
          CacheSize,  \* dedup_max_entries
          MaxEvents,  \* bound: events received
          MaxFaults,  \* bound: faults per behaviour
          None        \* no event, no payload

ASSUME ConstantsAssumption ==
    /\ IsFiniteSet(Threads)
    /\ CacheSize \in Nat \ {0} /\ MaxEvents \in Nat /\ MaxFaults \in Nat
    /\ Payloads \cap Unfit = {}
    /\ None \notin Payloads \cup Unfit \cup (1 .. MaxEvents)

\* Event identities, in the order they are received.
Ids == 1 .. MaxEvents

VARIABLES publisher, \* what build_pipeline chose
          at,        \* where each thread is in ingest()
          job,       \* the event it is ingesting
          why,       \* the reason it is about to reject it for
          body,      \* the bytes of each event
          duplicate, \* metadata["duplicate"] of each event
          outcome,   \* what ingest() returned for it: "none" if it never did
          cache,     \* _seen_hashes, oldest first
          rawFile,   \* archive: <event_id>.raw
          metaFile,  \* archive: <event_id>.json
          log,       \* RejectedEventLog: the reason in the record of each event
          queue,     \* events in the producer's queue
          failed,    \* events whose delivery report was an error
          topic,     \* events in the raw-event topic, or on a line of the stream file
          tail,      \* how the stream file ends: "line", or "torn" in the middle of one
          swallowed, \* events that were written behind a torn line
          counts,    \* CollectorMetrics
          checked,   \* history: events in the order the cache saw them
          unlogged,  \* history: events whose record could not be written
          faults

event == <<body, duplicate>>
archive == <<rawFile, metaFile>>
broker == <<queue, failed, topic>>
stream == <<tail, swallowed>>
rejected == <<log, unlogged>>
vars == <<publisher, at, job, why, event, outcome, cache, archive, rejected, broker, stream,
          counts, checked, faults>>

Steps == {"idle", "classify", "raw", "meta", "produce", "flush", "record", "count", "duplicate"}
Reasons == {"unfit", "incomplete_frame", "archive_failed", "publish_failed"}
Outcomes == {"none", "accepted"} \cup Reasons
Files == {"absent", "torn", "whole"}
Counters == {"received", "accepted", "rejected", "duplicates"}

TypeOK ==
    /\ publisher \in {"kafka", "file"}
    /\ at \in [Threads -> Steps]
    /\ why \in [Threads -> {"none"} \cup Reasons]
    /\ job \in [Threads -> Ids \cup {None}]
    /\ body \in [Ids -> Payloads \cup Unfit \cup {None}]
    /\ duplicate \in [Ids -> BOOLEAN]
    /\ outcome \in [Ids -> Outcomes]
    /\ cache \in Seq(Payloads) /\ Len(cache) <= CacheSize
    /\ rawFile \in [Ids -> Files]
    /\ metaFile \in [Ids -> Files]
    /\ log \in [Ids -> {"absent", "torn"} \cup Reasons] /\ unlogged \subseteq Ids
    /\ tail \in {"line", "torn"} /\ swallowed \subseteq Ids
    /\ queue \subseteq Ids /\ failed \subseteq Ids /\ topic \subseteq Ids
    /\ counts \in [Counters -> Nat]
    /\ checked \in Seq(Ids)
    /\ faults \in 0 .. MaxFaults

Init ==
    /\ publisher \in {"kafka", "file"}
    /\ at = [t \in Threads |-> "idle"]
    /\ job = [t \in Threads |-> None]
    /\ why = [t \in Threads |-> "none"]
    /\ body = [i \in Ids |-> None]
    /\ duplicate = [i \in Ids |-> FALSE]
    /\ outcome = [i \in Ids |-> "none"]
    /\ cache = <<>>
    /\ rawFile = [i \in Ids |-> "absent"]
    /\ metaFile = [i \in Ids |-> "absent"]
    /\ log = [i \in Ids |-> "absent"] /\ unlogged = {}
    /\ queue = {} /\ failed = {} /\ topic = {}
    /\ tail = "line" /\ swallowed = {}
    /\ counts = [c \in Counters |-> 0]
    /\ checked = <<>>
    /\ faults = 0

Fault == faults < MaxFaults /\ faults' = faults + 1

Goes(t, step) == at' = [at EXCEPT ![t] = step]

(***************************************************************************)
(* ingest(), up to the archive.                                            *)
(***************************************************************************)
\* The next event arrives; record_received.
Arrives(t, b) == \E i \in Ids :
    /\ at[t] = "idle"
    /\ body[i] = None /\ \A j \in 1 .. i - 1 : body[j] # None
    /\ body' = [body EXCEPT ![i] = b]
    /\ job' = [job EXCEPT ![t] = i]

\* A frame, datagram or line: the transports call ingest().
Receive(t) == \E b \in Payloads \cup Unfit :
    /\ Arrives(t, b)
    /\ counts' = [counts EXCEPT !["received"] = @ + 1]
    /\ Goes(t, "classify")
    /\ UNCHANGED <<publisher, why, duplicate, outcome, cache, archive, rejected, broker, stream,
                   checked, faults>>

\* The outcome of the event is settled, its rejection is still to be recorded.
Refuses(t, reason) ==
    /\ why' = [why EXCEPT ![t] = reason]
    /\ Goes(t, "record")

\* The frame of a connection that timed out: the collector calls reject().
RejectFrame(t) == \E b \in Payloads :
    /\ Arrives(t, b)
    /\ counts' = [counts EXCEPT !["received"] = @ + 1]
    /\ Refuses(t, "incomplete_frame")
    /\ UNCHANGED <<publisher, duplicate, outcome, cache, archive, rejected, broker, stream,
                   checked, faults>>

\* Empty or oversized: only here is the rejection counted before it is recorded.
RejectUnfit(t) ==
    /\ at[t] = "classify"
    /\ body[job[t]] \in Unfit
    /\ counts' = [counts EXCEPT !["rejected"] = @ + 1]
    /\ Refuses(t, "unfit")
    /\ UNCHANGED <<publisher, job, event, outcome, cache, archive, rejected, broker, stream,
                   checked, faults>>

\* ingest() or reject() returns.
Returns(t) ==
    /\ outcome' = [outcome EXCEPT ![job[t]] = why[t]]
    /\ job' = [job EXCEPT ![t] = None]
    /\ why' = [why EXCEPT ![t] = "none"]
    /\ Goes(t, "idle")

\* What follows the attempt to record the rejection.
Recorded(t) ==
    IF why[t] = "unfit" THEN Returns(t)
    ELSE Goes(t, "count") /\ UNCHANGED <<job, why, outcome>>

\* _record_rejection: RejectedEventLog.record writes a file of its own.
Record(t) ==
    /\ at[t] = "record"
    /\ log' = [log EXCEPT ![job[t]] = why[t]]
    /\ Recorded(t)
    /\ UNCHANGED <<publisher, event, cache, archive, unlogged, broker, stream, counts, checked,
                   faults>>

\* The write fails, which must not replace the outcome.
RecordFails(t) == \E left \in {"absent", "torn"} :
    /\ at[t] = "record"
    /\ Fault
    /\ log' = [log EXCEPT ![job[t]] = left]
    /\ unlogged' = unlogged \cup {job[t]}
    /\ Recorded(t)
    /\ UNCHANGED <<publisher, event, cache, archive, broker, stream, counts, checked>>

\* record_rejected, of a rejection that is counted last.
CountRejected(t) ==
    /\ at[t] = "count"
    /\ counts' = [counts EXCEPT !["rejected"] = @ + 1]
    /\ Returns(t)
    /\ UNCHANGED <<publisher, event, cache, archive, rejected, broker, stream, checked, faults>>

InCache(h) == \E k \in 1 .. Len(cache) : cache[k] = h

\* The cache without h: what was behind it moves up.
Without(h) ==
    LET p == CHOOSE k \in 1 .. Len(cache) : cache[k] = h
    IN  IF InCache(h)
        THEN [k \in 1 .. Len(cache) - 1 |-> IF k < p THEN cache[k] ELSE cache[k + 1]]
        ELSE cache

\* Seeded fault: nothing is ever evicted.
TouchedForever(h) == Append(Without(h), h)

\* The cache once h is its most recent entry and the oldest are evicted.
Touched(h) ==
    LET recent == Append(Without(h), h)
    IN  IF Len(recent) > CacheSize THEN Tail(recent) ELSE recent

\* Seeded fault: the duplicate is counted when it is seen, not when it is accepted.
CheckAndCount(t) ==
    /\ at[t] = "classify"
    /\ body[job[t]] \in Payloads
    /\ duplicate' = [duplicate EXCEPT ![job[t]] = InCache(body[job[t]])]
    /\ counts' = [counts EXCEPT !["duplicates"] = @ + IF InCache(body[job[t]]) THEN 1 ELSE 0]
    /\ cache' = Touched(body[job[t]])
    /\ checked' = Append(checked, job[t])
    /\ Goes(t, "raw")
    /\ UNCHANGED <<publisher, job, why, body, outcome, archive, rejected, broker, stream, faults>>

\* BoundedHashCache.check_and_add, under its lock; the envelope carries the answer.
CheckAndAdd(t) ==
    /\ at[t] = "classify"
    /\ body[job[t]] \in Payloads
    /\ duplicate' = [duplicate EXCEPT ![job[t]] = InCache(body[job[t]])]
    /\ cache' = Touched(body[job[t]])
    /\ checked' = Append(checked, job[t])
    /\ Goes(t, "raw")
    /\ UNCHANGED <<publisher, job, why, body, outcome, archive, rejected, broker, stream, counts,
                   faults>>

StoreRaw(t) ==
    /\ at[t] = "raw"
    /\ rawFile' = [rawFile EXCEPT ![job[t]] = "whole"]
    /\ Goes(t, "meta")
    /\ UNCHANGED <<publisher, job, why, event, outcome, cache, metaFile, rejected, broker, stream,
                   counts, checked, faults>>

StoreMeta(t) ==
    /\ at[t] = "meta"
    /\ metaFile' = [metaFile EXCEPT ![job[t]] = "whole"]
    /\ Goes(t, "produce")
    /\ UNCHANGED <<publisher, job, why, event, outcome, cache, rawFile, rejected, broker, stream,
                   counts, checked, faults>>

\* The files being written when a write or the whole process fails.
Torn(writing) ==
    /\ \E k \in {"absent", "torn"} :
           rawFile' = [i \in Ids |-> IF \E t \in writing : at[t] = "raw" /\ job[t] = i
                                     THEN k ELSE rawFile[i]]
    /\ \E k \in {"absent", "torn"} :
           metaFile' = [i \in Ids |-> IF \E t \in writing : at[t] = "meta" /\ job[t] = i
                                      THEN k ELSE metaFile[i]]

\* Seeded fault: a failed archive write is only logged.
StoreFailsSilently(t) ==
    /\ at[t] \in {"raw", "meta"}
    /\ Fault
    /\ Torn({t})
    /\ Goes(t, "produce")
    /\ UNCHANGED <<publisher, job, why, event, outcome, cache, rejected, broker, stream, counts,
                   checked>>

\* Seeded fault: the failure is answered without being recorded.
StoreFailsUnrecorded(t) ==
    /\ at[t] \in {"raw", "meta"}
    /\ Fault
    /\ Torn({t})
    /\ why' = [why EXCEPT ![t] = "archive_failed"]
    /\ Goes(t, "count")
    /\ UNCHANGED <<publisher, job, event, outcome, cache, rejected, broker, stream, counts, checked>>

StoreFails(t) ==
    /\ at[t] \in {"raw", "meta"}
    /\ Fault
    /\ Torn({t})
    /\ Refuses(t, "archive_failed")
    /\ UNCHANGED <<publisher, job, event, outcome, cache, rejected, broker, stream, counts, checked>>

(***************************************************************************)
(* publish(), and the rest of ingest().                                    *)
(***************************************************************************)
\* KafkaStreamPublisher puts the event in the producer's queue.
Produce(t) ==
    /\ at[t] = "produce" /\ publisher = "kafka"
    /\ queue' = queue \cup {job[t]}
    /\ Goes(t, "flush")
    /\ UNCHANGED <<publisher, job, why, event, outcome, cache, archive, failed, topic, rejected,
                   stream, counts, checked, faults>>

\* FileStreamPublisher appends a line, whatever the file ends with.
AppendLine(t) ==
    /\ at[t] = "produce" /\ publisher = "file"
    /\ IF tail = "line"
       THEN topic' = topic \cup {job[t]} /\ UNCHANGED swallowed
       ELSE swallowed' = swallowed \cup {job[t]} /\ UNCHANGED topic
    /\ tail' = "line"
    /\ Goes(t, "flush")
    /\ UNCHANGED <<publisher, job, why, event, outcome, cache, archive, queue, failed, rejected,
                   counts, checked, faults>>

\* The append fails, perhaps in the middle of the line.
AppendFails(t) ==
    /\ at[t] = "produce" /\ publisher = "file"
    /\ Fault
    /\ tail' \in {tail, "torn"}
    /\ Refuses(t, "publish_failed")
    /\ UNCHANGED <<publisher, job, event, outcome, cache, archive, broker, swallowed, rejected,
                   counts, checked>>

\* produce() may raise, and flush() may time out with something still queued, be it
\* another thread's event.
PublishMayFail(t) ==
    /\ publisher = "kafka"
    /\ \/ at[t] = "produce"
       \/ at[t] = "flush" /\ queue # {}

\* Seeded fault: the archived files of an event that was not published are removed.
PublishFailsAndDiscards(t) ==
    /\ PublishMayFail(t)
    /\ Fault
    /\ Refuses(t, "publish_failed")
    /\ rawFile' = [rawFile EXCEPT ![job[t]] = "absent"]
    /\ metaFile' = [metaFile EXCEPT ![job[t]] = "absent"]
    /\ UNCHANGED <<publisher, job, event, outcome, cache, rejected, broker, stream, counts, checked>>

PublishFails(t) ==
    /\ PublishMayFail(t)
    /\ Fault
    /\ Refuses(t, "publish_failed")
    /\ UNCHANGED <<publisher, job, event, outcome, cache, archive, rejected, broker, stream,
                   counts, checked>>

\* record_accepted, and the end of ingest() unless a duplicate is to be counted.
Accepts(t) ==
    /\ outcome' = [outcome EXCEPT ![job[t]] = "accepted"]
    /\ counts' = [counts EXCEPT !["accepted"] = @ + 1]
    /\ Goes(t, IF duplicate[job[t]] THEN "duplicate" ELSE "idle")
    /\ job' = IF duplicate[job[t]] THEN job ELSE [job EXCEPT ![t] = None]
    /\ UNCHANGED why

\* Seeded fault: the delivery report is not looked at.
FlushedBlindly(t) ==
    /\ at[t] = "flush"
    /\ queue = {}
    /\ Accepts(t)
    /\ UNCHANGED <<publisher, event, cache, archive, rejected, broker, stream, checked, faults>>

\* flush() empties the queue: the event is accepted unless its report was an error.
\* (The file has no queue and no reports: publish() just returns.)
Flushed(t) ==
    /\ at[t] = "flush"
    /\ queue = {}
    /\ IF job[t] \in failed
       THEN Refuses(t, "publish_failed") /\ UNCHANGED <<job, outcome, counts>>
       ELSE Accepts(t)
    /\ UNCHANGED <<publisher, event, cache, archive, rejected, broker, stream, checked, faults>>

\* record_duplicate, a lock of its own after record_accepted.
CountDuplicate(t) ==
    /\ at[t] = "duplicate"
    /\ counts' = [counts EXCEPT !["duplicates"] = @ + 1]
    /\ job' = [job EXCEPT ![t] = None]
    /\ Goes(t, "idle")
    /\ UNCHANGED <<publisher, why, event, outcome, cache, archive, rejected, broker, stream,
                   checked, faults>>

(***************************************************************************)
(* The broker, the operator and the end of the process.                    *)
(***************************************************************************)
Delivered(i) ==
    /\ i \in queue
    /\ queue' = queue \ {i}
    /\ topic' = topic \cup {i}
    /\ UNCHANGED <<publisher, at, job, why, event, outcome, cache, archive, failed, rejected,
                   stream, counts, checked, faults>>

DeliveryFails(i) ==
    /\ i \in queue
    /\ Fault
    /\ queue' = queue \ {i}
    /\ failed' = failed \cup {i}
    /\ UNCHANGED <<publisher, at, job, why, event, outcome, cache, archive, topic, rejected,
                   stream, counts, checked>>

\* retrieve() finds both files, the metadata parses and the hash agrees.
Replayable(i) == rawFile[i] = "whole" /\ metaFile[i] = "whole"

\* The replay command publishes an archived event again; it needs a broker.
Replay(i) ==
    /\ Replayable(i) /\ publisher = "kafka"
    /\ topic' = topic \cup {i}
    /\ UNCHANGED <<publisher, at, job, why, event, outcome, cache, archive, queue, failed,
                   rejected, stream, counts, checked, faults>>

\* What a killed process leaves of the line and of the record it was writing.
CutShort ==
    /\ tail' \in IF publisher = "file" /\ \E t \in Threads : at[t] = "produce"
                 THEN {tail, "torn"} ELSE {tail}
    /\ \E left \in {"absent", "torn"} :
           log' = [i \in Ids |-> IF \E t \in Threads : at[t] = "record" /\ job[t] = i
                                 THEN left ELSE log[i]]
    /\ UNCHANGED <<swallowed, unlogged>>

\* The process is killed and started again; part of the queue may have been sent.
Crash ==
    /\ Fault
    /\ \E sent \in SUBSET queue : topic' = topic \cup sent
    /\ queue' = {} /\ failed' = {}
    /\ Torn(Threads)
    /\ CutShort
    /\ at' = [t \in Threads |-> "idle"]
    /\ job' = [t \in Threads |-> None]
    /\ why' = [t \in Threads |-> "none"]
    /\ cache' = <<>> /\ checked' = <<>>
    /\ counts' = [c \in Counters |-> 0]
    /\ UNCHANGED <<publisher, event, outcome>>

\* What reaches the raw topic one by one, and what the collector does besides.
Publish(i) == Delivered(i) \/ Replay(i)

Proceed ==
    \/ \E t \in Threads :
          \/ Receive(t) \/ RejectFrame(t) \/ RejectUnfit(t) \/ CheckAndAdd(t)
          \/ StoreRaw(t) \/ StoreMeta(t) \/ StoreFails(t)
          \/ Produce(t) \/ PublishFails(t) \/ AppendLine(t) \/ AppendFails(t)
          \/ Flushed(t) \/ CountDuplicate(t)
          \/ Record(t) \/ RecordFails(t) \/ CountRejected(t)
    \/ \E i \in Ids : DeliveryFails(i)
    \/ Crash

Next == Proceed \/ \E i \in Ids : Publish(i)

Spec == Init /\ [][Next]_vars
-----------------------------------------------------------------------------
\* The archive is the authoritative evidence: whatever is in the raw topic or the
\* stream file, or on its way there, is archived whole, so it can be verified and
\* replayed.
PublishedIsArchived == \A i \in queue \cup topic \cup swallowed : Replayable(i)

\* An event reported as accepted is archived and published, although the queue
\* ingest() flushes is shared with the other threads.  The stream file can hide one
\* accepted event behind each line an earlier fault has torn, and never more.
AcceptedPublished ==
    \A i \in Ids : outcome[i] = "accepted" => Replayable(i) /\ i \in topic \cup swallowed

AcceptedIsDurable == AcceptedPublished /\ Cardinality(swallowed) <= faults

\* A publishing failure is surfaced without giving up the evidence: whatever is
\* answered, or only recorded, as such can be replayed.
FailedPublishReplayable ==
    \A i \in Ids : "publish_failed" \in {outcome[i], log[i]} => Replayable(i)

\* The reason of every rejection can be told after the fact (class RejectedEventLog):
\* an event answered as rejected has a record with that very reason, unless the
\* record could not be written; and an accepted event has no record.
RejectionsExplained == \A i \in Ids :
    /\ outcome[i] \in Reasons => log[i] = outcome[i] \/ i \in unlogged
    /\ outcome[i] = "accepted" => log[i] = "absent"

\* What was received and is counted neither as accepted nor as rejected yet.
Busy == {t \in Threads : /\ at[t] \notin {"idle", "duplicate"}
                         /\ ~(at[t] = "record" /\ why[t] = "unfit")}

\* Whenever health() reads them the counters add up: what was received is
\* accepted, rejected or still being ingested, and duplicates are accepted events.
CountersAddUp ==
    /\ counts["received"] = counts["accepted"] + counts["rejected"] + Cardinality(Busy)
    /\ counts["duplicates"] <= counts["accepted"]

\* Since the process started an event is flagged as a duplicate exactly when the
\* cache has seen its bytes before and fewer than CacheSize other payloads since,
\* whatever thread saw them.
Between(j, k) == {body[checked[m]] : m \in j + 1 .. k - 1} \ {body[checked[k]]}

DuplicateFlagExact ==
    \A k \in 1 .. Len(checked) :
        duplicate[checked[k]] <=>
            \E j \in 1 .. k - 1 : /\ body[checked[j]] = body[checked[k]]
                                  /\ Cardinality(Between(j, k)) < CacheSize

\* What is archived whole or published stays so, through crashes and replays.
KeepsEvidence == \A i \in Ids : /\ Replayable(i) => Replayable(i)'
                                /\ i \in topic => i \in topic'

EvidenceKept == [][KeepsEvidence]_vars

\* The custody of each event, as the abstract specification sees it: the collector has
\* it once both archive files are whole, and is done with it when it is published; an
\* event published without them would be none of its states.  One that is hidden behind
\* a torn line is still only held.
CustodyOf(i) ==
    CASE Replayable(i) /\ i \in topic     -> "settled"
      [] Replayable(i) /\ i \notin topic  -> "held"
      [] ~Replayable(i) /\ i \notin topic -> "outside"
      [] OTHER                            -> "lost"

D == INSTANCE Delivery WITH Events <- Ids, custody <- [i \in Ids |-> CustodyOf(i)]

\* Whatever threads, broker, operator and crashes do, each step takes one event into
\* custody, publishes what is in it or leaves the custody of all events alone: nothing
\* is published that is not archived, and nothing archived is given up.
ImplementsDelivery == D!SafeSpec

(***************************************************************************)
(* The inductive invariant behind the properties of the evidence: where    *)
(* each thread is tells what exists of its event, and no two threads have  *)
(* the same event.                                                         *)
(***************************************************************************)
StateTypes ==
    /\ at \in [Threads -> Steps]
    /\ why \in [Threads -> {"none"} \cup Reasons]
    /\ job \in [Threads -> Ids \cup {None}]
    /\ body \in [Ids -> Payloads \cup Unfit \cup {None}]
    /\ outcome \in [Ids -> Outcomes]
    /\ rawFile \in [Ids -> Files] /\ metaFile \in [Ids -> Files]
    /\ log \in [Ids -> {"absent", "torn"} \cup Reasons]
    /\ tail \in {"line", "torn"} /\ swallowed \subseteq Ids
    /\ queue \subseteq Ids /\ topic \subseteq Ids
    /\ faults \in Nat

\* Threads have events of their own, that have arrived.
OwnJobs ==
    /\ \A t \in Threads : at[t] # "idle" => job[t] \in Ids /\ body[job[t]] # None
    /\ \A t, u \in Threads : at[t] # "idle" /\ at[u] # "idle" /\ job[t] = job[u] => t = u

\* Nothing exists of an event that has not arrived.
Untouched == \A i \in Ids :
    body[i] = None => outcome[i] = "none" /\ log[i] = "absent" /\ metaFile[i] = "absent"

\* The archive files of the event in hand.
FilesInHand == \A t \in Threads :
    /\ at[t] \in {"classify", "raw", "meta"} => metaFile[job[t]] = "absent"
    /\ at[t] = "meta" => rawFile[job[t]] = "whole"
    /\ at[t] \in {"produce", "flush", "duplicate"} => Replayable(job[t])
    /\ at[t] \in {"record", "count"} => why[t] \in Reasons
    /\ at[t] \in {"record", "count"} /\ why[t] = "publish_failed" => Replayable(job[t])

\* Where the event in hand has got to.
SentInHand == \A t \in Threads :
    at[t] = "flush" => job[t] \in queue \cup failed \cup topic \cup swallowed

\* Its outcome and its record.
RecordInHand == \A t \in Threads :
    /\ at[t] \notin {"idle", "duplicate"} => outcome[job[t]] = "none"
    /\ at[t] \notin {"idle", "count"} => log[job[t]] = "absent"
    /\ at[t] = "count" => log[job[t]] = why[t] \/ job[t] \in unlogged

\* Every torn line, and every event behind one, has cost a fault.
TornByFaults == Cardinality(swallowed) + (IF tail = "torn" THEN 1 ELSE 0) <= faults

IInv == /\ StateTypes /\ OwnJobs /\ Untouched /\ FilesInHand /\ SentInHand /\ RecordInHand
        /\ TornByFaults /\ PublishedIsArchived /\ AcceptedPublished
        /\ FailedPublishReplayable /\ RejectionsExplained

\* One publisher is in use: no file hides what went to a broker, nothing queues for a file.
OnePublisher == \/ publisher = "kafka" /\ swallowed = {}
                \/ publisher = "file" /\ queue = {}

\* The threads that have counted an acceptance and not yet that it was a duplicate.
Counting == {t \in Threads : at[t] = "duplicate"}

\* What CountersAddUp needs besides: duplicates that are still to be counted are accepted.
CountsInv ==
    /\ counts \in [Counters -> Nat]
    /\ counts["received"] = counts["accepted"] + counts["rejected"] + Cardinality(Busy)
    /\ counts["duplicates"] + Cardinality(Counting) <= counts["accepted"]

(***************************************************************************)
(* What DuplicateFlagExact needs besides: the cache lists the payloads     *)
(* that were seen last, the most recent at its end, and whatever it has    *)
(* forgotten was followed by as many others as it can hold.                *)
(***************************************************************************)
Seen(j) == body[checked[j]]
Since(j) == {Seen(m) : m \in j + 1 .. Len(checked)}
Behind(p) == {cache[q] : q \in p + 1 .. Len(cache)}

CacheIsRecent ==
    /\ cache \in Seq(Payloads) /\ Len(cache) <= CacheSize
    /\ \A p, q \in 1 .. Len(cache) : cache[p] = cache[q] => p = q
    /\ \A p \in 1 .. Len(cache) : \E j \in 1 .. Len(checked) :
           Seen(j) = cache[p] /\ Since(j) = Behind(p)
    /\ \A j \in 1 .. Len(checked) :
           \/ Seen(j) \in Behind(0)
           \/ Len(cache) = CacheSize /\ Behind(0) \subseteq Since(j)

\* An event is checked once, and keeps its bytes and its flag from then on.
CheckedOnce ==
    /\ checked \in Seq(Ids) /\ \A j \in 1 .. Len(checked) : Seen(j) \in Payloads
    /\ \A j, k \in 1 .. Len(checked) : checked[j] = checked[k] => j = k
    /\ \A t \in Threads : at[t] = "classify" => \A j \in 1 .. Len(checked) : checked[j] # job[t]

CacheInv ==
    /\ duplicate \in [Ids -> BOOLEAN]
    /\ CacheIsRecent /\ CheckedOnce /\ DuplicateFlagExact

\* The types of what no other invariant mentions.
OtherTypes ==
    /\ publisher \in {"kafka", "file"}
    /\ unlogged \subseteq Ids /\ failed \subseteq Ids
    /\ faults \in 0 .. MaxFaults
=============================================================================
