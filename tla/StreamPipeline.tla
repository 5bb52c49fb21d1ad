--------------------------- MODULE StreamPipeline ---------------------------
(***************************************************************************)
(* The streaming backbone of src/streaming and src/storage/worker.py:      *)
(* parser, normalizer, retry and sink workers that consume one topic each, *)
(* write exactly one durable output per input and commit the input offset  *)
(* only afterwards.                                                        *)
(*                                                                         *)
(* The broker, the consumer group and the ClickHouse server are external:  *)
(* a topic is an append-only log, a group has a committed offset, and an   *)
(* assignment is fenced (a commit from a superseded assignment fails).     *)
(* Covered failures: process crashes, delivery reports and commits whose   *)
(* outcome is unknown to the worker, rebalances that leave a worker        *)
(* holding a record it no longer owns, and replays from the archive.  All  *)
(* of them draw on the budget MaxFaults.                                   *)
(*                                                                         *)
(* One partition per topic: a worker's only state per partition is its     *)
(* position, except for the retry worker's held records, which module      *)
(* RetryScheduler treats with several partitions.                          *)
(***************************************************************************)
EXTENDS Naturals, Sequences, FiniteSets

CONSTANTS Events,       \* events, by the identity that follows them everywhere
          Malformed,    \* [Stages -> SUBSET Events]: payload the stage's contract rejects
          Flaky,        \* likewise: events on which the stage may raise TransientProcessingError
          Poison,       \* likewise: events on which the stage raises any other exception
          Rejected,     \* events whose normalized form does not validate
          Workers,      \* worker processes
          RoleOf,       \* [Workers -> Roles]: the role argument of run()
          MaxAttempts,  \* _RetryPolicy.max_attempts
          MaxFaults,    \* bound: how many faults a behaviour may contain
          None          \* no worker

Stages == {"parser", "normalizer"}
Roles == Stages \cup {"retry", "sink"}

\* The topics the workers consume, and the places where a record rests.
StageTopics == {"raw", "parsed", "normalized", "retry"}
Resting == {"deadLetter", "events_v1", "quarantine_v1"}
Topics == StageTopics \cup Resting

InputTopic == [parser |-> "raw", normalizer |-> "parsed",
               retry |-> "retry", sink |-> "normalized"]

OutputTopic == [parser |-> "parsed", normalizer |-> "normalized"]

ErrorCodes == {"none", "INVALID_CONTRACT", "TRANSIENT", "EXHAUSTED"}

\* A record: the event it carries and the headers that matter.
Record == [event : Events, attempt : 0 .. MaxAttempts,
           stage : Stages \cup {"none"}, code : ErrorCodes]

ASSUME ConstantsAssumption ==
    /\ Malformed \in [Stages -> SUBSET Events]
    /\ Flaky \in [Stages -> SUBSET Events]
    /\ Poison \in [Stages -> SUBSET Events]
    /\ Rejected \subseteq Events
    /\ RoleOf \in [Workers -> Roles]
    /\ MaxAttempts \in Nat
    /\ MaxFaults \in Nat
    /\ None \notin Workers

VARIABLES log,        \* [Topics -> Seq(Record)]: every record ever appended
          committed,  \* [Roles -> Nat]: records the role's group has committed
          owner,      \* the worker whose assignment is current, per role
          pc,         \* "down", "idle", "inHand" or "durable", per worker
          pos,        \* offset of the last record the worker took, per worker
          assigned,   \* the worker believes it owns its partition
          newest,     \* history: place of the latest record of each event
          faults      \* faults so far

vars == <<log, committed, owner, pc, pos, assigned, newest, faults>>

workerVars == <<committed, owner, pc, pos, assigned>>

In(w) == InputTopic[RoleOf[w]]

\* The record worker w has in hand.
Current(w) == log[In(w)][pos[w]]

\* The offset at in topic t; offsets count from 1, so Nowhere is no place.
Place(t, i) == [topic |-> t, at |-> i]

Nowhere == Place("raw", 0)

TypeOK ==
    /\ log \in [Topics -> Seq(Record)]
    /\ committed \in [Roles -> Nat]
    /\ owner \in [Roles -> Workers \cup {None}]
    /\ pc \in [Workers -> {"down", "idle", "inHand", "durable"}]
    /\ pos \in [Workers -> Nat]
    /\ assigned \in [Workers -> BOOLEAN]
    /\ newest \in [Events -> [topic : Topics, at : Nat]]
    /\ faults \in 0 .. MaxFaults

Init ==
    /\ log = [t \in Topics |-> <<>>]
    /\ committed = [r \in Roles |-> 0]
    /\ owner = [r \in Roles |-> None]
    /\ pc = [w \in Workers |-> "down"]
    /\ pos = [w \in Workers |-> 0]
    /\ assigned = [w \in Workers |-> FALSE]
    /\ newest = [e \in Events |-> Nowhere]
    /\ faults = 0

(***************************************************************************)
(* Records and decisions.                                                  *)
(***************************************************************************)
Appended(t, r) ==
    /\ log' = [log EXCEPT ![t] = Append(@, r)]
    /\ newest' = [newest EXCEPT ![r.event] = Place(t, Len(log[t]) + 1)]

Out(t, e, k, s, c) ==
    [topic |-> t, record |-> [event |-> e, attempt |-> k, stage |-> s, code |-> c]]

InvalidContract(r) == Out("deadLetter", r.event, r.attempt, "none", "INVALID_CONTRACT")

\* Seeded fault: the comparison lets one attempt too many through.
RetryBeyondBudget(stage, r) ==
    IF r.attempt > MaxAttempts
    THEN Out("deadLetter", r.event, r.attempt, stage, "EXHAUSTED")
    ELSE Out("retry", r.event, r.attempt + 1, stage, "TRANSIENT")

\* Seeded fault: the attempt being made is counted as if it had failed already.
GiveUpEarly(stage, r) ==
    IF r.attempt + 1 >= MaxAttempts
    THEN Out("deadLetter", r.event, r.attempt, stage, "EXHAUSTED")
    ELSE Out("retry", r.event, r.attempt + 1, stage, "TRANSIENT")

RetryOrDeadLetter(stage, r) ==
    IF r.attempt >= MaxAttempts
    THEN Out("deadLetter", r.event, r.attempt, stage, "EXHAUSTED")
    ELSE Out("retry", r.event, r.attempt + 1, stage, "TRANSIENT")

\* Seeded fault: the next stage starts with a fresh attempt header.
ForwardFresh(stage, r) == Out(OutputTopic[stage], r.event, 0, "none", "none")

Forward(stage, r) == Out(OutputTopic[stage], r.event, r.attempt, "none", "none")

\* The decisions a stage may reach on r; none when all its code can do is to
\* raise something other than a contract error or a TransientProcessingError.
StageDecisions(stage, r) ==
    IF r.event \in Malformed[stage]
    THEN {InvalidContract(r)}
    ELSE (IF r.event \in Poison[stage] THEN {} ELSE {Forward(stage, r)})
         \cup (IF r.event \in Flaky[stage] THEN {RetryOrDeadLetter(stage, r)} ELSE {})

\* The sink keeps nothing but the event: the tables have no attempt column.
SinkDecision(r) ==
    IF r.event \in Rejected
    THEN Out("quarantine_v1", r.event, 0, "none", "none")
    ELSE Out("events_v1", r.event, 0, "none", "none")

\* The retry role hands the record back to the stage named in its header.
StageFor(role, r) == IF role = "retry" THEN r.stage ELSE role

Decisions(role, r) ==
    IF role = "sink" THEN {SinkDecision(r)} ELSE StageDecisions(StageFor(role, r), r)

(***************************************************************************)
(* The edge of the pipeline.                                               *)
(***************************************************************************)
Fault == faults < MaxFaults /\ faults' = faults + 1

RawRecord(e) == [event |-> e, attempt |-> 0, stage |-> "none", code |-> "none"]

\* A collector's publish reaches the raw topic.
Submit(e) ==
    /\ newest[e] = Nowhere
    /\ Appended("raw", RawRecord(e))
    /\ UNCHANGED <<workerVars, faults>>

\* A replay publishes the archived envelope again, under the same identity.
Replay(e) ==
    /\ newest[e] # Nowhere
    /\ Fault
    /\ Appended("raw", RawRecord(e))
    /\ UNCHANGED workerVars

(***************************************************************************)
(* The consumer group, as the workers see it.                              *)
(***************************************************************************)
\* The container runtime (re)starts the process.
Start(w) ==
    /\ pc[w] = "down"
    /\ pc' = [pc EXCEPT ![w] = "idle"]
    /\ UNCHANGED <<log, committed, owner, pos, assigned, newest, faults>>

\* Seeded fault: the worker resumes where it stopped itself.
TakesWhereItStopped(w) ==
    /\ pc[w] = "idle"
    /\ ~assigned[w]
    /\ owner' = [owner EXCEPT ![RoleOf[w]] = w]
    /\ assigned' = [assigned EXCEPT ![w] = TRUE]
    /\ UNCHANGED <<log, committed, pc, pos, newest>>

\* The group gives w the partition, at the committed offset; w is in poll().
Takes(w) ==
    /\ pc[w] = "idle"
    /\ ~assigned[w]
    /\ owner' = [owner EXCEPT ![RoleOf[w]] = w]
    /\ assigned' = [assigned EXCEPT ![w] = TRUE]
    /\ pos' = [pos EXCEPT ![w] = committed[RoleOf[w]]]
    /\ UNCHANGED <<log, committed, pc, newest>>

Assign(w) ==
    /\ owner[RoleOf[w]] = None
    /\ Takes(w)
    /\ UNCHANGED faults

\* The group takes the partition from a live owner, which has not noticed yet.
Rebalance(w) ==
    /\ owner[RoleOf[w]] # None
    /\ Fault
    /\ Takes(w)

\* A superseded worker polls and learns of it.  Only the retry role's held
\* record lets it poll with a record in hand: on_revoke drops that record.
Revoke(w) ==
    /\ assigned[w]
    /\ owner[RoleOf[w]] # w
    /\ pc[w] = "idle" \/ (pc[w] = "inHand" /\ RoleOf[w] = "retry")
    /\ pc' = [pc EXCEPT ![w] = "idle"]
    /\ assigned' = [assigned EXCEPT ![w] = FALSE]
    /\ UNCHANGED <<log, committed, owner, pos, newest, faults>>

\* Seeded fault: the process ends without leaving the group.
ExitsSilently(w) ==
    /\ pc' = [pc EXCEPT ![w] = "down"]
    /\ assigned' = [assigned EXCEPT ![w] = FALSE]
    /\ UNCHANGED <<owner, pos>>

\* The process ends; what it held stays uncommitted.
Exits(w) ==
    /\ pc' = [pc EXCEPT ![w] = "down"]
    /\ assigned' = [assigned EXCEPT ![w] = FALSE]
    /\ owner' = [owner EXCEPT ![RoleOf[w]] = IF @ = w THEN None ELSE @]
    /\ UNCHANGED pos

Crash(w) ==
    /\ pc[w] # "down"
    /\ Fault
    /\ Exits(w)
    /\ UNCHANGED <<log, committed, newest>>

(***************************************************************************)
(* One iteration of run(): poll, process_one, commit.                      *)
(***************************************************************************)
\* Seeded fault: the offset is committed when the record is handed over.
FetchAndCommit(w) ==
    /\ pc[w] = "idle"
    /\ assigned[w]
    /\ pos[w] < Len(log[In(w)])
    /\ pc' = [pc EXCEPT ![w] = "inHand"]
    /\ pos' = [pos EXCEPT ![w] = @ + 1]
    /\ committed' = [committed EXCEPT ![RoleOf[w]] = pos[w] + 1]
    /\ UNCHANGED <<log, owner, assigned, newest, faults>>

Fetch(w) ==
    /\ pc[w] = "idle"
    /\ assigned[w]
    /\ pos[w] < Len(log[In(w)])
    /\ pc' = [pc EXCEPT ![w] = "inHand"]
    /\ pos' = [pos EXCEPT ![w] = @ + 1]
    /\ UNCHANGED <<log, committed, owner, assigned, newest, faults>>

\* produce() and a clean flush(), or the ClickHouse insert.
Deliver(w) ==
    /\ pc[w] = "inHand"
    /\ \E d \in Decisions(RoleOf[w], Current(w)) : Appended(d.topic, d.record)
    /\ pc' = [pc EXCEPT ![w] = "durable"]
    /\ UNCHANGED <<committed, owner, pos, assigned, faults>>

\* Seeded fault: the offset is committed whatever the delivery report says.
CommitsAnyway(w) ==
    /\ pc[w] = "inHand"
    /\ Fault
    /\ \E d \in Decisions(RoleOf[w], Current(w)) :
           Appended(d.topic, d.record) \/ UNCHANGED <<log, newest>>
    /\ committed' = [committed EXCEPT ![RoleOf[w]] = pos[w]]
    /\ Exits(w)

\* The delivery report or the insert fails, although the output may have been
\* kept: process_one returns False and run() raises.
DeliverFails(w) ==
    /\ pc[w] = "inHand"
    /\ Fault
    /\ \E d \in Decisions(RoleOf[w], Current(w)) :
           Appended(d.topic, d.record) \/ UNCHANGED <<log, newest>>
    /\ Exits(w)
    /\ UNCHANGED committed

\* Seeded fault: a record that cannot be processed is skipped.
RaisesAndSkips(w) ==
    /\ pc[w] = "inHand"
    /\ RoleOf[w] # "sink"
    /\ LET stage == StageFor(RoleOf[w], Current(w))
       IN  Current(w).event \in Poison[stage] \ Malformed[stage]
    /\ committed' = [committed EXCEPT ![RoleOf[w]] = pos[w]]
    /\ Exits(w)
    /\ UNCHANGED <<log, newest, faults>>

\* The stage raises: the exception leaves process_one and ends run().
Raises(w) ==
    /\ pc[w] = "inHand"
    /\ RoleOf[w] # "sink"
    /\ LET stage == StageFor(RoleOf[w], Current(w))
       IN  Current(w).event \in Poison[stage] \ Malformed[stage]
    /\ Exits(w)
    /\ UNCHANGED <<log, committed, newest, faults>>

\* Seeded fault: commits are not tied to an assignment.
CommitUnfenced(w) ==
    /\ pc[w] = "durable"
    /\ committed' = [committed EXCEPT ![RoleOf[w]] = pos[w]]
    /\ pc' = [pc EXCEPT ![w] = "idle"]
    /\ UNCHANGED <<log, owner, pos, assigned, newest, faults>>

Commit(w) ==
    /\ pc[w] = "durable"
    /\ owner[RoleOf[w]] = w
    /\ committed' = [committed EXCEPT ![RoleOf[w]] = pos[w]]
    /\ pc' = [pc EXCEPT ![w] = "idle"]
    /\ UNCHANGED <<log, owner, pos, assigned, newest, faults>>

\* Seeded fault: a refused commit makes the worker write its output again.
RetriesAfterRefusal(w) ==
    /\ pc[w] = "durable"
    /\ owner[RoleOf[w]] # w
    /\ pc' = [pc EXCEPT ![w] = "inHand"]
    /\ UNCHANGED <<log, committed, owner, pos, assigned, newest, faults>>

\* A commit from a superseded assignment is refused, and the exception ends run().
CommitRefused(w) ==
    /\ pc[w] = "durable"
    /\ owner[RoleOf[w]] # w
    /\ Exits(w)
    /\ UNCHANGED <<log, committed, newest, faults>>

\* The commit takes effect but its answer is lost: it raises all the same.
CommitUncertain(w) ==
    /\ pc[w] = "durable"
    /\ owner[RoleOf[w]] = w
    /\ Fault
    /\ committed' = [committed EXCEPT ![RoleOf[w]] = pos[w]]
    /\ Exits(w)
    /\ UNCHANGED <<log, newest>>

\* What collection does to the pipeline, and what the workers and the group do.
Enter(e) == Submit(e) \/ Replay(e)

Work(w) ==
    \/ Start(w) \/ Assign(w) \/ Rebalance(w) \/ Revoke(w) \/ Crash(w)
    \/ Fetch(w) \/ Deliver(w) \/ DeliverFails(w) \/ Raises(w)
    \/ Commit(w) \/ CommitRefused(w) \/ CommitUncertain(w)

Next ==
    \/ \E e \in Events : Enter(e)
    \/ \E w \in Workers : Work(w)

\* run() is a loop that only a fault leaves, `restart: unless-stopped` brings
\* the process back, and the group assigns a free partition to a live member.
Fairness ==
    /\ \A w \in Workers : /\ WF_vars(Start(w))
                          /\ WF_vars(Revoke(w))
                          /\ WF_vars(Fetch(w))
                          /\ WF_vars(Deliver(w))
                          /\ WF_vars(Raises(w))
                          /\ WF_vars(Commit(w))
                          /\ WF_vars(CommitRefused(w))
    /\ \A r \in Roles : WF_vars(\E w \in Workers : RoleOf[w] = r /\ Assign(w))

Spec == Init /\ [][Next]_vars

FairSpec == Spec /\ Fairness
-----------------------------------------------------------------------------
(***************************************************************************)
(* Properties.                                                             *)
(***************************************************************************)
Offsets(t) == 1 .. Len(log[t])

At(t, e) == {i \in Offsets(t) : log[t][i].event = e}

Settled(e) == \E t \in Resting : At(t, e) # {}

\* Some group still has a record of e ahead of its committed offset.
Waiting(e) == \E r \in Roles : \E i \in At(InputTopic[r], e) : i > committed[r]

Accepted(e) == \E t \in Topics : At(t, e) # {}

\* An event that ever reached the raw topic rests in a table or in the
\* dead-letter topic, or some group has yet to commit a record of it: whatever
\* crashes, rebalances and lost answers do, committing never drops the last copy.
NothingLost == \A e \in Events : Accepted(e) => Settled(e) \/ Waiting(e)

\* The current owner of a partition never reads past a record it has not
\* committed: its position is the committed offset, or one past it while the
\* record at that position is in hand.
OwnerSkipsNothing ==
    \A r \in Roles : \A w \in Workers : owner[r] = w =>
        pos[w] = committed[r] + (IF pc[w] = "idle" THEN 0 ELSE 1)

\* An event is dead-lettered for exhaustion only after its whole attempt budget,
\* and for its contract only if some stage really rejects its payload.
DeadLettersJustified ==
    \A i \in Offsets("deadLetter") : LET r == log["deadLetter"][i] IN
        \/ r.code = "EXHAUSTED" /\ r.attempt = MaxAttempts /\ r.event \in Flaky[r.stage]
        \/ r.code = "INVALID_CONTRACT" /\ \E s \in Stages : r.event \in Malformed[s]

\* Every duplicate is paid for by a fault: the pipeline never holds more resting
\* copies of one event than one plus the faults so far.
Copies(e) == UNION {{t} \X At(t, e) : t \in Resting}

DuplicatesBounded == \A e \in Events : Cardinality(Copies(e)) <= 1 + faults

\* The attempt header travels from the parser's output into the normalizer, so
\* one budget covers both stages: in a fault-free run at most MaxAttempts
\* records of an event ever enter the retry topic.
RetryBudgetShared ==
    faults = 0 => \A e \in Events : Cardinality(At("retry", e)) <= MaxAttempts

\* A superseded worker never moves a group backwards: committed offsets only grow.
CommitsOnlyAdvance == [][\A r \in Roles : committed'[r] >= committed[r]]_vars

PoisonEvents == UNION {Poison[s] : s \in Stages}

\* An event on which a stage always raises reaches the dead-letter topic.
PoisonEntersDeadLetter ==
    \A e \in PoisonEvents : Accepted(e) ~> At("deadLetter", e) # {}

\* The custody of each event, as the abstract specification sees it; an
\* accepted event that is neither settled nor waiting would be none of its states.
CustodyOf(e) ==
    CASE Settled(e)                -> "settled"
      [] ~Settled(e) /\ Waiting(e) -> "held"
      [] ~Accepted(e)              -> "outside"
      [] OTHER                     -> "lost"

D == INSTANCE Delivery WITH custody <- [e \in Events |-> CustodyOf(e)]

\* Every step of the pipeline accepts one event, settles one event or leaves the
\* custody of all events alone.
ImplementsDelivery == D!SafeSpec

\* Under the pipeline's fairness every event it holds settles, unless an event was accepted
\* on which a stage raises: that one stays, and so does what is behind it in the partition.
EventuallySettled == [](\A e \in PoisonEvents : ~Accepted(e)) => D!Liveness

(***************************************************************************)
(* The inductive invariant behind NothingLost.  The newest record of an    *)
(* event is never behind a committed offset unless it rests: a worker may  *)
(* only commit a record once a newer one of the same event exists.         *)
(***************************************************************************)
Superseded(t, i) == newest[log[t][i].event] # Place(t, i)

OffsetsInLog ==
    /\ \A r \in Roles : committed[r] <= Len(log[InputTopic[r]])
    /\ \A w \in Workers : /\ pos[w] <= Len(log[In(w)])
                          /\ pc[w] \in {"inHand", "durable"} => pos[w] >= 1

OwnerAssigned ==
    \A r \in Roles : \A w \in Workers : owner[r] = w =>
        RoleOf[w] = r /\ assigned[w] /\ pc[w] # "down"

RetryNamesStage == \A i \in Offsets("retry") : log["retry"][i].stage \in Stages

NewestIsThere ==
    /\ \A e \in Events : newest[e] # Nowhere =>
           newest[e].at \in At(newest[e].topic, e)
    /\ \A t \in Topics : \A i \in Offsets(t) : newest[log[t][i].event] # Nowhere

DurableSuperseded == \A w \in Workers : pc[w] = "durable" => Superseded(In(w), pos[w])

CommittedSuperseded ==
    \A r \in Roles : \A i \in 1 .. committed[r] : Superseded(InputTopic[r], i)

IInv ==
    /\ TypeOK
    /\ OffsetsInLog
    /\ OwnerAssigned
    /\ OwnerSkipsNothing
    /\ RetryNamesStage
    /\ NewestIsThere
    /\ DurableSuperseded
    /\ CommittedSuperseded
(***************************************************************************)
(* What DuplicatesBounded and RetryBudgetShared need besides.  An event is *)
(* as many tokens as it can still come to resting copies: its resting      *)
(* copies, the records of it that some group has yet to process, and the   *)
(* workers whose partition has gone to another while they hold a record of *)
(* it, or may still take one.  A step that is no fault never adds one, but *)
(* for the first submission.                                               *)
(***************************************************************************)
\* The record at offset i is written out and only its commit is missing.
Handled(r, i) == \E w \in Workers : owner[r] = w /\ pc[w] = "durable" /\ pos[w] = i

Awaited(r, i) == i > committed[r] /\ ~Handled(r, i)

Pending(e) ==
    UNION {{InputTopic[r]} \X {i \in At(InputTopic[r], e) : Awaited(r, i)} : r \in Roles}

MayTake(w, e) ==
    /\ owner[RoleOf[w]] # w
    /\ \/ pc[w] = "idle" /\ assigned[w]
       \/ pc[w] = "inHand" /\ Current(w).event = e

Stray(e) == {"hand"} \X {w \in Workers : MayTake(w, e)}

Tokens(e) == Copies(e) \cup Pending(e) \cup Stray(e)

TokensPaid == \A e \in Events :
    /\ IsFiniteSet(Tokens(e))
    /\ Cardinality(Tokens(e)) <= faults + (IF newest[e] = Nowhere THEN 0 ELSE 1)

\* A process that ended is no member of its group.
ExitsLetGo == \A w \in Workers : pc[w] = "down" => ~assigned[w]

\* Without a fault an assignment is lost only by the worker's own exit.
FirmAssignments ==
    faults = 0 => \A w \in Workers :
        /\ pc[w] \in {"inHand", "durable"} => assigned[w]
        /\ assigned[w] => owner[RoleOf[w]] = w

\* Without a fault no record is processed twice: one that is not committed is the
\* latest of its event until its output is written.
FreshAhead ==
    faults = 0 => \A r \in Roles : \A i \in Offsets(InputTopic[r]) :
        i > committed[r] => ~Superseded(InputTopic[r], i) \/ Handled(r, i)

\* Without a fault the attempt header of an event only rises, from one retry
\* record to the next, and the record under way carries it along.
AttemptsRise ==
    faults = 0 => \A i \in Offsets("retry") : LET r == log["retry"][i]
                                                  p == newest[r.event] IN
        /\ r.attempt >= 1
        /\ p.topic \in StageTopics => r.attempt <= log[p.topic][p.at].attempt
        /\ \A j \in Offsets("retry") : LET q == log["retry"][j] IN
              i < j /\ q.event = r.event => r.attempt < q.attempt

FaultFree == FirmAssignments /\ FreshAhead /\ AttemptsRise
=============================================================================
