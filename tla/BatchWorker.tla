---------------------------- MODULE BatchWorker ----------------------------
(***************************************************************************)
(* The batching worker of files/worker.py: it produces the output of each  *)
(* message without waiting, and commits the stored offsets of a whole      *)
(* batch once a flush finds nothing in flight and no delivery error.       *)
(*                                                                         *)
(* Kafka and the container runtime are external.  One worker and one       *)
(* partition: what a rebalance does to a commit is module StreamPipeline's *)
(* subject; here it is which offsets a batch commit covers.  In the replay *)
(* role the worker assigns itself the partition and may seek, at every     *)
(* start, to the first offset after a given time; its group is then the    *)
(* one given with --group-id, which a new process keeps.                   *)
(***************************************************************************)
EXTENDS Naturals, FiniteSets

CONSTANTS Count,       \* messages in the partition, offsets 1 .. Count
          Failing,     \* messages on which _process_one raises
          Refused,     \* of those, the ones whose dead letter produce() refuses as well
          Interval,    \* COMMIT_INTERVAL_MESSAGES
          MaxFaults    \* bound: failed deliveries, failed commits, crashes

ASSUME ConstantsAssumption ==
    /\ Count \in Nat /\ Interval \in Nat \ {0} /\ MaxFaults \in Nat
    /\ Failing \subseteq 1 .. Count
    /\ Refused \subseteq Failing

Messages == 1 .. Count

\* The report _maybe_flush_metrics sends through the same producer.
Metrics == 0

VARIABLES seeks,        \* a replay that seeks to a time; otherwise any role
          from,         \* where it seeks to: the offset before the first it reads
          committed,    \* the group's committed offset
          stored,       \* the stored offset: the last message poll() returned
          uncommitted,  \* _uncommitted
          queue,        \* outputs in flight, by the message they belong to
          errors,       \* _produce_errors is not empty
          running,      \* _running
          pc,           \* see TypeOK
          durable,      \* history: messages whose output the broker has kept
          stopped,      \* history: somebody asked the worker to stop
          faults

seek == <<seeks, from>>
vars == <<seek, committed, stored, uncommitted, queue, errors, running, pc, durable, stopped,
          faults>>

\* "exited" is exit status 0, "failed" any other end.
TypeOK ==
    /\ seeks \in BOOLEAN
    /\ from \in 0 .. Count
    /\ committed \in 0 .. Count
    /\ stored \in 0 .. Count
    /\ uncommitted \in 0 .. Count
    /\ queue \subseteq {Metrics} \cup Messages
    /\ errors \in BOOLEAN
    /\ running \in BOOLEAN
    /\ pc \in {"poll", "process", "commit", "metrics", "closing", "raising",
               "exited", "failed"}
    /\ durable \subseteq Messages
    /\ stopped \in BOOLEAN
    /\ faults \in 0 .. MaxFaults

\* _subscribe: from the time asked for, or from the committed offset.
Start == IF seeks THEN from ELSE committed

Init ==
    /\ seeks \in BOOLEAN
    /\ from \in IF seeks THEN 0 .. Count ELSE {0}
    /\ committed = 0 /\ stored = Start /\ uncommitted = 0
    /\ queue = {} /\ errors = FALSE /\ running = TRUE
    /\ pc = "poll"
    /\ durable = {}
    /\ stopped = FALSE
    /\ faults = 0

Fault == faults < MaxFaults /\ faults' = faults + 1

(***************************************************************************)
(* The broker answers, at any time; flush() serves every answer it has.    *)
(***************************************************************************)
Ack(m) ==
    /\ m \in queue
    /\ queue' = queue \ {m}
    /\ durable' = durable \cup ({m} \ {Metrics})
    /\ UNCHANGED <<seek, committed, stored, uncommitted, errors, running, pc, stopped, faults>>

\* Seeded fault: the delivery callback only logs.
NackLogged(m) ==
    /\ m \in queue
    /\ Fault
    /\ queue' = queue \ {m}
    /\ UNCHANGED <<seek, committed, stored, uncommitted, errors, running, pc, durable, stopped>>

Nack(m) ==
    /\ m \in queue
    /\ Fault
    /\ queue' = queue \ {m}
    /\ errors' = TRUE
    /\ UNCHANGED <<seek, committed, stored, uncommitted, running, pc, durable, stopped>>

\* SIGTERM or SIGINT.
Terminate ==
    /\ pc \notin {"exited", "failed"}
    /\ running' = FALSE
    /\ stopped' = TRUE
    /\ UNCHANGED <<seek, committed, stored, uncommitted, queue, errors, pc, durable, faults>>

\* The process is gone: of what was in flight the broker keeps any part.
Ends(status) ==
    /\ pc' = status
    /\ \E kept \in SUBSET (queue \ {Metrics}) : durable' = durable \cup kept
    /\ queue' = {}

Crash ==
    /\ pc \notin {"exited", "failed"}
    /\ Fault
    /\ Ends("failed")
    /\ UNCHANGED <<seek, committed, stored, uncommitted, errors, running, stopped>>

\* Seeded fault: a new process starts from the beginning of the topic.
RestartFromEarliest ==
    /\ pc = "failed"
    /\ stored' = 0
    /\ uncommitted' = 0
    /\ errors' = FALSE
    /\ running' = TRUE
    /\ pc' = "poll"
    /\ UNCHANGED <<seek, committed, queue, durable, stopped, faults>>

\* The container runtime's restart policy, condition: on-failure.
Restart ==
    /\ pc = "failed"
    /\ stored' = Start
    /\ uncommitted' = 0
    /\ errors' = FALSE
    /\ running' = TRUE
    /\ pc' = "poll"
    /\ UNCHANGED <<seek, committed, queue, durable, stopped, faults>>

(***************************************************************************)
(* The loop of run().                                                      *)
(***************************************************************************)
\* poll() stores the offset of the message it returns.
Poll ==
    /\ pc = "poll" /\ running
    /\ stored < Count
    /\ stored' = stored + 1
    /\ pc' = "process"
    /\ UNCHANGED <<seek, committed, uncommitted, queue, errors, running, durable, stopped, faults>>

\* No message within the timeout, whether or not there is one.
PollEmpty ==
    /\ pc = "poll" /\ running
    /\ pc' = "commit"
    /\ UNCHANGED <<seek, committed, stored, uncommitted, queue, errors, running, durable,
                   stopped, faults>>

LoopEnds ==
    /\ pc = "poll" /\ ~running
    /\ pc' = "closing"
    /\ UNCHANGED <<seek, committed, stored, uncommitted, queue, errors, running, durable,
                   stopped, faults>>

\* _process_one produces the output (or the record itself, where the retry handler
\* finds it too early), or raises and _route_dead_letter produces the raw bytes.
Process ==
    /\ pc = "process"
    /\ stored \notin Refused
    /\ queue' = queue \cup {stored}
    /\ uncommitted' = uncommitted + 1
    /\ pc' = "commit"
    /\ UNCHANGED <<seek, committed, stored, errors, running, durable, stopped, faults>>

\* produce() raises inside _route_dead_letter: the exception leaves the loop.
ProcessEscapes ==
    /\ pc = "process"
    /\ stored \in Refused
    /\ pc' = "raising"
    /\ UNCHANGED <<seek, committed, stored, uncommitted, queue, errors, running, durable,
                   stopped, faults>>

\* A report when the metrics interval has passed.
FlushMetrics ==
    /\ pc = "metrics"
    /\ queue' = queue \cup {Metrics} \/ UNCHANGED queue
    /\ pc' = "poll"
    /\ UNCHANGED <<seek, committed, stored, uncommitted, errors, running, durable, stopped, faults>>

(***************************************************************************)
(* _maybe_commit: in the loop, where it need not be due, and forced in     *)
(* run()'s finally clause, after a flush of its own.                       *)
(***************************************************************************)
\* flush(30) answered for everything, and nothing went wrong.
Flushed == queue = {} /\ ~errors

\* Seeded fault: the stored offset is taken for that of the message just returned.
CommitStoredNext ==
    /\ uncommitted > 0
    /\ Flushed
    /\ committed' = stored + 1
    /\ uncommitted' = 0

CommitStored ==
    /\ uncommitted > 0
    /\ Flushed
    /\ committed' = stored
    /\ uncommitted' = 0

\* Not due, nothing to commit, or flush() timed out.
Withheld ==
    /\ uncommitted < Interval \/ queue # {}
    /\ UNCHANGED <<committed, uncommitted, running>>

\* A delivery error stops the loop.
StopsOnError ==
    /\ uncommitted > 0 /\ queue = {} /\ errors
    /\ running' = FALSE
    /\ UNCHANGED <<committed, uncommitted>>

MaybeCommit ==
    /\ pc = "commit"
    /\ (CommitStored /\ UNCHANGED running) \/ Withheld \/ StopsOnError
    /\ pc' = "metrics"
    /\ UNCHANGED <<seek, stored, queue, errors, durable, stopped, faults>>

\* The commit raises, in the loop or in the finally clause, and its outcome is unknown.
CommitRaises ==
    /\ pc \in {"commit", "closing", "raising"}
    /\ uncommitted > 0 /\ Flushed
    /\ Fault
    /\ committed' \in {committed, stored}
    /\ IF pc = "commit"
       THEN pc' = "raising" /\ UNCHANGED <<queue, durable>>
       ELSE Ends("failed")
    /\ UNCHANGED <<seek, stored, uncommitted, errors, running, stopped>>

\* Seeded fault: closing does not look at the delivery errors.
CloseCommitsAll ==
    /\ pc \in {"closing", "raising"}
    /\ IF uncommitted > 0 THEN committed' = stored /\ uncommitted' = 0
                          ELSE UNCHANGED <<committed, uncommitted>>
    /\ Ends(IF pc = "closing" THEN "exited" ELSE "failed")
    /\ UNCHANGED <<seek, stored, errors, running, stopped, faults>>

\* The finally clause; afterwards main() returns, or the exception goes on.
Close ==
    /\ pc \in {"closing", "raising"}
    /\ \/ CommitStored
       \/ (uncommitted = 0 \/ queue # {} \/ errors) /\ UNCHANGED <<committed, uncommitted>>
    /\ Ends(IF pc = "closing" THEN "exited" ELSE "failed")
    /\ UNCHANGED <<seek, stored, errors, running, stopped, faults>>

Next ==
    \/ \E m \in {Metrics} \cup Messages : Ack(m) \/ Nack(m)
    \/ Terminate \/ Crash \/ Restart
    \/ Poll \/ PollEmpty \/ LoopEnds \/ Process \/ ProcessEscapes \/ FlushMetrics
    \/ MaybeCommit \/ CommitRaises \/ Close

Spec == Init /\ [][Next]_vars

\* The broker answers, the loop goes on, a forced or overdue commit is made, and
\* the runtime restarts a process that has failed.
Fairness ==
    /\ \A m \in {Metrics} \cup Messages : WF_vars(Ack(m))
    /\ WF_vars(Poll) /\ WF_vars(PollEmpty) /\ WF_vars(LoopEnds)
    /\ WF_vars(Process) /\ WF_vars(ProcessEscapes) /\ WF_vars(FlushMetrics)
    /\ WF_vars(MaybeCommit) /\ WF_vars(Close) /\ WF_vars(Restart)

FairSpec == Spec /\ Fairness
-----------------------------------------------------------------------------
\* What the committed offset says is done; a replay that seeks leaves the rest alone.
Covered == from + 1 .. committed

\* Rule 1 of files/worker.py: the committed offset never passes a message whose
\* output (parsed event, retry or dead letter) the broker has not kept.
NeverPastUndelivered == Covered \subseteq durable

\* What holds of rule 1: every message below the committed offset has an output the
\* broker has kept, unless produce() refused both its output and its dead letter.
OnlyRefusedUndelivered == Covered \ Refused \subseteq durable

\* The committed offset never moves backwards, across restarts too; only a replay
\* that is started again begins its range anew.
CommittedGrows == [][committed' >= committed \/ seeks]_vars

\* Once a delivery has failed, nothing is committed until the process has been
\* replaced: neither by a later batch nor on the way out.
NoCommitAfterError == [][errors => UNCHANGED committed]_vars

\* A worker that stops because a delivery failed is restarted from its last
\* committed offset, unless somebody asked it to stop.
RestartsAfterError == errors /\ ~running ~> ~errors \/ stopped

(***************************************************************************)
(* The inductive invariant behind OnlyRefusedUndelivered: while a process  *)
(* lives and has seen no delivery error, every message it has polled is    *)
(* kept, in flight, refused, or the one it is about to process.            *)
(***************************************************************************)
Alive == pc \notin {"exited", "failed"}

Accounted ==
    Alive /\ ~errors =>
        \A m \in (from + 1 .. stored) \ Refused :
            m \in durable \cup queue \/ (pc = "process" /\ m = stored)

CommittedPolled == seeks \/ committed <= stored

\* A message counts towards the batch only once it has been processed.
BatchPolled == uncommitted + (IF pc = "process" THEN 1 ELSE 0) <= stored

IInv == TypeOK /\ OnlyRefusedUndelivered /\ Accounted /\ CommittedPolled /\ BatchPolled
=============================================================================
