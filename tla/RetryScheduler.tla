--------------------------- MODULE RetryScheduler ---------------------------
(***************************************************************************)
(* The retry role of src/streaming/retry.py inside the loop of             *)
(* src/streaming/run.py: a worker holds at most one early record per       *)
(* partition, pauses that partition, keeps polling the others, and retries *)
(* the record once its deadline has passed.  An offset is committed only   *)
(* after the retry's output is durable.                                    *)
(*                                                                         *)
(* Kafka is external: partitions are logs, the group has a generation, an  *)
(* assignment belongs to a generation, and a commit from an older one is   *)
(* refused.  A new assignment starts at the committed offsets with nothing *)
(* paused.  Time is counted in ticks; a producing stage's clock may run up *)
(* to Skew ticks ahead of the retry worker's.                              *)
(***************************************************************************)
EXTENDS Naturals, Sequences, FiniteSets

CONSTANTS Workers, Partitions,
          Cap,         \* backoff_cap_seconds: the longest delay a stage asks for
          Slack,       \* what the deadline horizon allows beyond Cap
          Skew,        \* bound: how far a stage's clock is ahead of a worker's
          MaxTime,     \* bound: the last tick
          MaxRecords,  \* [Partitions -> Nat], bound: records of each partition
          MaxFaults,   \* bound: faults per behaviour
          None         \* no owner, no partition

ASSUME ConstantsAssumption ==
    /\ Cap \in Nat \ {0} /\ Slack \in Nat /\ Skew \in Nat /\ Skew <= Slack
    /\ MaxTime \in Nat /\ MaxFaults \in Nat
    /\ MaxRecords \in [Partitions -> Nat]
    /\ None \notin Workers \cup Partitions

Horizon == Cap + Slack

\* A deadline no clock of the model comes near.
Far == MaxTime + Horizon + 1

\* A record's headers: whether they name a stage and a deadline, and the deadline.
Record == [readable : BOOLEAN, due : 0 .. Far]

VARIABLES log,         \* [Partitions -> Seq(Record)]
          committed,   \* [Partitions -> Nat]
          owner,       \* the worker each partition is assigned to
          generation,  \* the group's current generation
          joined,      \* the generation each worker last joined, 0 for none
          mine,        \* the partitions it was assigned then
          pos,         \* offset of the last record it took, per worker and partition
          held,        \* _pending: offset of the record it holds, 0 for none
          paused,      \* the partitions its consumer has paused
          pc,          \* "down", "due", "poll", "deliver" or "commit"
          todo,        \* what process_due has yet to visit in this pass
          hand,        \* the partition whose record it is processing
          sent,        \* history: outputs, with the tick they were written at
          now, faults

vars == <<log, committed, owner, generation, joined, mine, pos, held, paused,
          pc, todo, hand, sent, now, faults>>
environment == <<log, owner, generation, now>>
assignment == <<joined, mine>>
holding == <<held, paused>>
local == <<joined, mine, pos, held, paused, pc, todo, hand>>

TypeOK ==
    /\ log \in [Partitions -> Seq(Record)]
    /\ committed \in [Partitions -> Nat]
    /\ \A p \in Partitions : committed[p] <= Len(log[p])
    /\ owner \in [Partitions -> Workers \cup {None}]
    /\ generation \in Nat
    /\ joined \in [Workers -> Nat]
    /\ mine \in [Workers -> SUBSET Partitions]
    /\ pos \in [Workers -> [Partitions -> Nat]]
    /\ held \in [Workers -> [Partitions -> Nat]]
    /\ paused \in [Workers -> SUBSET Partitions]
    /\ pc \in [Workers -> {"down", "due", "poll", "deliver", "commit"}]
    /\ todo \in [Workers -> SUBSET Partitions]
    /\ hand \in [Workers -> Partitions \cup {None}]
    /\ sent \subseteq [part : Partitions, at : Nat, kind : {"retried", "dead"}, tick : Nat]
    /\ now \in 0 .. MaxTime
    /\ faults \in 0 .. MaxFaults

Init ==
    /\ log = [p \in Partitions |-> <<>>]
    /\ committed = [p \in Partitions |-> 0]
    /\ owner = [p \in Partitions |-> None]
    /\ generation = 1
    /\ joined = [w \in Workers |-> 0]
    /\ mine = [w \in Workers |-> {}]
    /\ pos = [w \in Workers |-> [p \in Partitions |-> 0]]
    /\ held = [w \in Workers |-> [p \in Partitions |-> 0]]
    /\ paused = [w \in Workers |-> {}]
    /\ pc = [w \in Workers |-> "down"]
    /\ todo = [w \in Workers |-> {}]
    /\ hand = [w \in Workers |-> None]
    /\ sent = {}
    /\ now = 0
    /\ faults = 0

Held(w) == {p \in Partitions : held[w][p] # 0}

\* The offset of the record in w's hand, and the record.
HandAt(w) == pos[w][hand[w]]
InHand(w) == log[hand[w]][HandAt(w)]

\* Seeded fault: a deadline within the slack counts as passed.
AlmostDue(r) == r.due > now + Slack

Early(r) == r.due > now

\* Seeded fault: the horizon leaves no room for clocks that disagree.
BeyondCap(r) == r.due > now + Cap

BeyondHorizon(r) == r.due > now + Horizon
Retryable(r) == r.readable /\ ~BeyondHorizon(r)

(***************************************************************************)
(* The environment: stages that ask for retries, foreign records, the      *)
(* clock, and the consumer group.                                          *)
(***************************************************************************)
Fault == faults < MaxFaults /\ faults' = faults + 1

Add(p, r) ==
    /\ Len(log[p]) < MaxRecords[p]
    /\ log' = [log EXCEPT ![p] = Append(@, r)]
    /\ UNCHANGED <<committed, owner, generation, local, sent, now, faults>>

\* _RetryPolicy: now, by the stage's clock, plus the backoff delay.
Schedule(p) == \E delay \in 1 .. Cap, ahead \in 0 .. Skew :
    /\ now + ahead + delay <= MaxTime
    /\ Add(p, [readable |-> TRUE, due |-> now + ahead + delay])

\* A record nobody's retry policy wrote.
Foreign(p) ==
    \/ Add(p, [readable |-> FALSE, due |-> 0])
    \/ Add(p, [readable |-> TRUE, due |-> Far])

Tick ==
    /\ now < MaxTime
    /\ now' = now + 1
    /\ UNCHANGED <<log, committed, owner, generation, local, sent, faults>>

\* The group is rebalancing while some partition has no owner.
Rebalancing == \E p \in Partitions : owner[p] = None

\* A rebalance begins: a member joins or leaves.
Disturb ==
    /\ ~Rebalancing
    /\ Fault
    /\ owner' = [p \in Partitions |-> None]
    /\ UNCHANGED <<log, committed, generation, local, sent, now>>

\* Members miss their heartbeats and a new generation starts without waiting for
\* any of them: each learns of it in its next poll.
Supersede ==
    /\ ~Rebalancing
    /\ Fault
    /\ owner' \in [Partitions -> {w \in Workers : pc[w] # "down"}]
    /\ generation' = generation + 1
    /\ UNCHANGED <<log, committed, local, sent, now>>

\* The new generation starts once every live member has polled and given up its
\* partitions or, as a fault, without one that has not polled in time.
Rebalance ==
    /\ Rebalancing
    /\ LET live == {w \in Workers : pc[w] # "down"}
       IN  /\ IF \A w \in live : joined[w] = 0 THEN UNCHANGED faults ELSE Fault
           /\ owner' \in [Partitions -> live]
    /\ generation' = generation + 1
    /\ UNCHANGED <<log, committed, local, sent, now>>

Start(w) ==
    /\ pc[w] = "down"
    /\ pc' = [pc EXCEPT ![w] = "poll"]
    /\ UNCHANGED <<environment, committed, assignment, pos, holding, todo, hand, sent, faults>>

\* The process ends and its memory is gone; nothing is committed on the way out.
Exits(w) ==
    /\ pc' = [pc EXCEPT ![w] = "down"]
    /\ joined' = [joined EXCEPT ![w] = 0]
    /\ mine' = [mine EXCEPT ![w] = {}]
    /\ pos' = [pos EXCEPT ![w] = [p \in Partitions |-> 0]]
    /\ held' = [held EXCEPT ![w] = [p \in Partitions |-> 0]]
    /\ paused' = [paused EXCEPT ![w] = {}]
    /\ todo' = [todo EXCEPT ![w] = {}]
    /\ hand' = [hand EXCEPT ![w] = None]
    /\ owner' = IF \E p \in Partitions : owner[p] = w
                THEN [p \in Partitions |-> None] ELSE owner
    /\ UNCHANGED <<log, generation, now>>

Crash(w) ==
    /\ pc[w] # "down"
    /\ Fault
    /\ Exits(w)
    /\ UNCHANGED <<committed, sent>>

(***************************************************************************)
(* One iteration of run(): process_due, poll, process_one.                 *)
(***************************************************************************)
\* process_due takes up a held record whose deadline has passed.
TakeDue(w) == \E p \in todo[w] :
    /\ pc[w] = "due"
    /\ ~Early(log[p][held[w][p]])
    /\ hand' = [hand EXCEPT ![w] = p]
    /\ pc' = [pc EXCEPT ![w] = "deliver"]
    /\ UNCHANGED <<environment, committed, assignment, pos, holding, todo, sent, faults>>

\* process_due passes over one that is still early.
SkipEarly(w) == \E p \in todo[w] :
    /\ pc[w] = "due"
    /\ Early(log[p][held[w][p]])
    /\ todo' = [todo EXCEPT ![w] = @ \ {p}]
    /\ UNCHANGED <<environment, committed, assignment, pos, holding, pc, hand, sent, faults>>

PassEnds(w) ==
    /\ pc[w] = "due"
    /\ todo[w] = {}
    /\ pc' = [pc EXCEPT ![w] = "poll"]
    /\ UNCHANGED <<environment, committed, assignment, pos, holding, todo, hand, sent, faults>>

\* The loop comes round: process_due will visit the records held by then, and
\* does nothing when there are none.
NextPass(w, keys) ==
    /\ pc' = [pc EXCEPT ![w] = IF keys = {} THEN "poll" ELSE "due"]
    /\ todo' = [todo EXCEPT ![w] = keys]

\* Seeded fault: no on_revoke is registered; the client forgets its pauses.
DropNothing(w) ==
    /\ paused' = [paused EXCEPT ![w] = {}]
    /\ UNCHANGED held

\* Seeded fault: a pause outlives the assignment it was made under.
KeepPaused(w) ==
    /\ held' = [held EXCEPT ![w] = [p \in Partitions |-> 0]]
    /\ UNCHANGED paused

\* on_revoke: what w holds of its partitions is dropped, uncommitted.
DropHeld(w) ==
    /\ held' = [held EXCEPT ![w] = [p \in Partitions |-> 0]]
    /\ paused' = [paused EXCEPT ![w] = {}]

\* poll() serves the revocation that starts a rebalance.
Revoke(w) ==
    /\ pc[w] = "poll"
    /\ Rebalancing
    /\ joined[w] # 0
    /\ joined' = [joined EXCEPT ![w] = 0]
    /\ mine' = [mine EXCEPT ![w] = {}]
    /\ DropHeld(w)
    /\ UNCHANGED <<environment, committed, pos, pc, todo, hand, sent, faults>>

\* poll() serves the new assignment, after the revocation of one that was lost;
\* it starts where the group has committed.
Join(w) ==
    /\ pc[w] = "poll"
    /\ ~Rebalancing
    /\ joined[w] # generation
    /\ joined' = [joined EXCEPT ![w] = generation]
    /\ mine' = [mine EXCEPT ![w] = {p \in Partitions : owner[p] = w}]
    /\ pos' = [pos EXCEPT ![w] = committed]
    /\ DropHeld(w)
    /\ UNCHANGED <<environment, committed, pc, todo, hand, sent, faults>>

Fetchable(w) == {p \in mine[w] \ paused[w] : pos[w][p] < Len(log[p])}

Fetched(w, p) == log[p][pos[w][p] + 1]

\* Seeded fault: the partition of a held record is not paused.
PauseNothing(w, p) == UNCHANGED paused

Pause(w, p) == paused' = [paused EXCEPT ![w] = @ \cup {p}]

\* process_one on an early record: pause its partition and hold it.
Hold(w) == \E p \in Fetchable(w) :
    /\ pc[w] = "poll"
    /\ joined[w] = generation
    /\ Retryable(Fetched(w, p)) /\ Early(Fetched(w, p))
    /\ pos' = [pos EXCEPT ![w][p] = @ + 1]
    /\ held' = [held EXCEPT ![w][p] = pos[w][p] + 1]
    /\ Pause(w, p)
    /\ NextPass(w, Held(w) \cup {p})
    /\ UNCHANGED <<environment, committed, assignment, hand, sent, faults>>

\* process_one on a record that is due, or that cannot be retried at all.
Take(w) == \E p \in Fetchable(w) :
    /\ pc[w] = "poll"
    /\ joined[w] = generation
    /\ ~(Retryable(Fetched(w, p)) /\ Early(Fetched(w, p)))
    /\ pos' = [pos EXCEPT ![w][p] = @ + 1]
    /\ hand' = [hand EXCEPT ![w] = p]
    /\ pc' = [pc EXCEPT ![w] = "deliver"]
    /\ UNCHANGED <<environment, committed, assignment, holding, todo, sent, faults>>

PollEmpty(w) ==
    /\ pc[w] = "poll"
    /\ \/ joined[w] = 0 /\ Rebalancing
       \/ joined[w] = generation /\ ~Rebalancing /\ Fetchable(w) = {}
    /\ NextPass(w, Held(w))
    /\ UNCHANGED <<environment, committed, assignment, pos, holding, hand, sent, faults>>

(***************************************************************************)
(* CanonicalKafkaWorker.process_one: write the output, then commit.        *)
(***************************************************************************)
\* The metadata checks were made when the record was fetched: a deadline within
\* the horizon stays there, and nothing comes near the one that is Far.
Output(w) ==
    [part |-> hand[w], at |-> HandAt(w), tick |-> now,
     kind |-> IF hand[w] \in Held(w) \/ Retryable(InHand(w)) THEN "retried" ELSE "dead"]

Deliver(w) ==
    /\ pc[w] = "deliver"
    /\ sent' = sent \cup {Output(w)}
    /\ pc' = [pc EXCEPT ![w] = "commit"]
    /\ UNCHANGED <<environment, committed, assignment, pos, holding, todo, hand, faults>>

\* The output is not known to be durable: run() raises.
DeliverFails(w) ==
    /\ pc[w] = "deliver"
    /\ Fault
    /\ sent' = sent \/ sent' = sent \cup {Output(w)}
    /\ Exits(w)
    /\ UNCHANGED committed

\* Seeded fault: commit() is given an offset that already points past the record.
OnePast(w) == HandAt(w) + 1

CommitOffset(w) == HandAt(w)

\* The commit of the record in hand, at the record's own offset; process_due
\* then forgets the record and resumes its partition.
Commit(w) ==
    /\ pc[w] = "commit"
    /\ joined[w] = generation
    /\ committed' = [committed EXCEPT ![hand[w]] = CommitOffset(w)]
    /\ held' = [held EXCEPT ![w][hand[w]] = 0]
    /\ paused' = [paused EXCEPT ![w] = @ \ {hand[w]}]
    /\ hand' = [hand EXCEPT ![w] = None]
    /\ IF hand[w] \in Held(w)
       THEN todo' = [todo EXCEPT ![w] = @ \ {hand[w]}] /\ pc' = [pc EXCEPT ![w] = "due"]
       ELSE NextPass(w, Held(w))
    /\ UNCHANGED <<environment, assignment, pos, sent, faults>>

CommitRefused(w) ==
    /\ pc[w] = "commit"
    /\ joined[w] # generation
    /\ Exits(w)
    /\ UNCHANGED <<committed, sent, faults>>

WorkerStep(w) ==
    \/ Start(w) \/ TakeDue(w) \/ SkipEarly(w) \/ PassEnds(w)
    \/ Revoke(w) \/ Join(w) \/ Hold(w) \/ Take(w) \/ PollEmpty(w)
    \/ Deliver(w) \/ Commit(w) \/ CommitRefused(w)

Next ==
    \/ \E p \in Partitions : Schedule(p) \/ Foreign(p)
    \/ Tick \/ Disturb \/ Supersede \/ Rebalance
    \/ \E w \in Workers : WorkerStep(w) \/ Crash(w) \/ DeliverFails(w)

\* run() loops until a fault ends it, the runtime restarts it, the group finds a
\* live owner for every partition, and time passes.
Fairness ==
    /\ \A w \in Workers : WF_vars(WorkerStep(w))
    /\ WF_vars(Tick)
    /\ WF_vars(Rebalance)

Spec == Init /\ [][Next]_vars

FairSpec == Spec /\ Fairness
-----------------------------------------------------------------------------
\* A retry is never written before its deadline, by the retry worker's clock,
\* whatever happened to the record while it was held.
NeverEarly ==
    \A s \in sent : s.kind = "retried" => s.tick >= log[s.part][s.at].due

\* A deadline some stage's retry policy computed is never taken for one outside
\* the supported horizon: only foreign records are discarded.
ScheduledNeverDiscarded ==
    \A s \in sent : s.kind = "dead" =>
        LET r == log[s.part][s.at] IN ~r.readable \/ r.due = Far

\* Rebalances and crashes leave deferred offsets to the next owner: every record
\* up to the committed offset has been written out, held or not.
NothingDeferredIsLost ==
    \A p \in Partitions : \A i \in 1 .. committed[p] :
        \E s \in sent : s.part = p /\ s.at = i

\* A partition with a held record is paused and nothing beyond that record has
\* been taken from it, so process_one's fail-closed check never fires.
OneHeldPerPartition ==
    \A w \in Workers : \A p \in Partitions :
        /\ p \in paused[w] <=> held[w][p] # 0
        /\ held[w][p] # 0 => held[w][p] = pos[w][p]

\* As long as its assignment is current, a worker's held record is the first one
\* the group has not committed: no commit ever overtakes it.
HeldIsFirstUncommitted ==
    \A w \in Workers : \A p \in Held(w) :
        joined[w] = generation => held[w][p] = committed[p] + 1

\* However many workers hold, crash and are superseded, each partition is served as
\* by one worker that takes its records in order: the next record is written, perhaps
\* more than once, then committed, and nothing beyond the first uncommitted record is
\* ever written.
Written(p) == {s.at : s \in {r \in sent : r.part = p}}

Q == INSTANCE SequentialRetry WITH
        arrived <- [p \in Partitions |-> Len(log[p])],
        written <- [p \in Partitions |-> Written(p)],
        done <- committed

ImplementsSequential == Q!Spec

\* Every record of the retry topic is eventually written out and committed,
\* however long other partitions wait for their deadlines.
EventuallyRetried ==
    \A p \in Partitions : \A i \in 1 .. MaxRecords[p] :
        Len(log[p]) >= i ~> committed[p] >= i
(***************************************************************************)
(* The inductive invariant: what has to hold between any two steps for the *)
(* safety properties above to be kept.                                     *)
(***************************************************************************)
\* w's assignment is of the group's current generation.
Current(w) == joined[w] = generation

\* A policy's deadline is within reach of the clock from the day it is written.
Deadlines ==
    \A p \in Partitions : \A i \in 1 .. Len(log[p]) :
        \/ ~log[p][i].readable
        \/ log[p][i].due = Far
        \/ log[p][i].due <= now + Skew + Cap

\* A partition has one current holder, and the group gives it to nobody else.
Ownership ==
    \A w \in Workers :
        /\ joined[w] <= generation
        /\ Current(w) => \A p \in mine[w] : owner[p] \in {w, None}
        /\ \A v \in Workers \ {w} :
              Current(w) /\ Current(v) => mine[w] \cap mine[v] = {}

\* What a worker holds or has in hand is a record of its assignment, and only a
\* pass over held records has any to visit.
Bookkeeping ==
    \A w \in Workers :
        /\ \A p \in Partitions : pos[w][p] <= Len(log[p])
        /\ Held(w) \subseteq mine[w]
        /\ todo[w] \subseteq Held(w)
        /\ pc[w] \in {"poll", "down"} => todo[w] = {}
        /\ pc[w] \in {"deliver", "commit"} <=> hand[w] # None
        /\ hand[w] # None => hand[w] \in mine[w] /\ HandAt(w) # 0

\* A current worker is past what the group has committed by the record it holds
\* or has in hand, and by nothing else.
OneAhead ==
    \A w \in Workers : \A p \in mine[w] :
        Current(w) =>
            IF p \in Held(w) \/ hand[w] = p THEN pos[w][p] = committed[p] + 1
                                           ELSE pos[w][p] = committed[p]

\* The record to deliver was early at no time since it was taken up, unless it
\* can never be retried; the one to commit has its output.
HandReady ==
    \A w \in Workers :
        /\ pc[w] = "deliver" =>
              \/ ~Early(InHand(w))
              \/ hand[w] \notin Held(w) /\ (~InHand(w).readable \/ InHand(w).due = Far)
        /\ pc[w] = "commit" => \E s \in sent : s.part = hand[w] /\ s.at = HandAt(w)

\* An output is the output of a record of the log.
SentOfLog == \A s \in sent : s.at \in 1 .. Len(log[s.part])

IInv ==
    /\ TypeOK /\ Deadlines /\ Ownership /\ Bookkeeping /\ OneAhead /\ HandReady
    /\ SentOfLog /\ OneHeldPerPartition
    /\ NeverEarly /\ ScheduledNeverDiscarded /\ NothingDeferredIsLost

\* A worker whose assignment was lost has taken no more than its successor may: no
\* record beyond the first uncommitted one of any partition is in its hand or held.
Reach == \A w \in Workers : \A p \in mine[w] : pos[w][p] <= committed[p] + 1
=============================================================================
