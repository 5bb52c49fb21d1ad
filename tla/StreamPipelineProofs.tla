------------------------ MODULE StreamPipelineProofs ------------------------
(***************************************************************************)
(* Theorems about StreamPipeline, for any events, workers, attempt budget  *)
(* and number of faults.                                                   *)
(***************************************************************************)
EXTENDS StreamPipeline, FiniteSetTheorems, TLAPS

\* Topics, roles and stages are the finite sets their definitions list.
LEMMA Names ==
    /\ InputTopic \in [Roles -> StageTopics]
    /\ OutputTopic \in [Stages -> StageTopics \ {"retry"}]
    /\ StageTopics \subseteq Topics /\ Resting \subseteq Topics
    /\ \A t \in Topics : t \in Resting \/ \E r \in Roles : t = InputTopic[r]
    /\ \A w \in Workers : RoleOf[w] \in Roles /\ In(w) \in Topics
  BY ConstantsAssumption DEF InputTopic, OutputTopic, Roles, Stages, StageTopics,
     Topics, Resting, In

\* Whatever a role decides about a record is a well-formed record for a topic,
\* carries the same event, and names a stage if it goes to the retry topic.
LEMMA DecisionsTyped ==
    ASSUME NEW role \in Roles, NEW r \in Record,
           role = "retry" => r.stage \in Stages,
           NEW d \in Decisions(role, r)
    PROVE  /\ d.topic \in Topics
           /\ d.record \in Record
           /\ d.record.event = r.event
           /\ d.topic = "retry" => d.record.stage \in Stages
<1>1. CASE role = "sink"
  BY <1>1, Names, ConstantsAssumption
     DEF Decisions, SinkDecision, Out, Record, Resting, Stages, ErrorCodes
<1>2. CASE role # "sink"
  <2> DEFINE s == StageFor(role, r)
  <2>1. s \in Stages
    BY <1>2 DEF StageFor, Roles
  <2>2. CASE d = InvalidContract(r)
    BY <2>2, Names DEF InvalidContract, Out, Record, Resting, Stages, ErrorCodes
  <2>3. CASE d = Forward(s, r)
    BY <2>1, <2>3, Names DEF Forward, Out, Record, ErrorCodes
  <2>4. CASE d = RetryOrDeadLetter(s, r)
    <3>1. CASE r.attempt >= MaxAttempts
      BY <2>1, <2>4, <3>1, Names DEF RetryOrDeadLetter, Out, Record, Resting, ErrorCodes
    <3>2. CASE ~(r.attempt >= MaxAttempts)
      <4>1. r.attempt + 1 \in 0 .. MaxAttempts
        BY <3>2, ConstantsAssumption DEF Record
      <4> QED
        BY <2>1, <2>4, <3>2, <4>1, Names
           DEF RetryOrDeadLetter, Out, Record, StageTopics, ErrorCodes
    <3> QED  BY <3>1, <3>2
  <2> HIDE DEF s
  <2> QED
    BY <1>2, <2>2, <2>3, <2>4 DEF Decisions, StageDecisions, s
<1> QED  BY <1>1, <1>2

\* Appending keeps every record where it was, and supersedes the older records
\* of the event it carries.
LEMMA AppendStep ==
    ASSUME TypeOK, NewestIsThere, NEW t \in Topics, NEW r \in Record, Appended(t, r)
    PROVE  /\ log' \in [Topics -> Seq(Record)]
           /\ newest' \in [Events -> [topic : Topics, at : Nat]]
           /\ \A u \in Topics : Len(log'[u]) >= Len(log[u])
           /\ \A u \in Topics : \A i \in Offsets(u) : log'[u][i] = log[u][i]
           /\ \A u \in Topics : \A i \in Offsets(u)' :
                  i \in Offsets(u) \/ (u = t /\ log'[u][i] = r)
           /\ \A u \in Topics : \A i \in Offsets(u) : Superseded(u, i) => Superseded(u, i)'
           /\ \A u \in Topics : \A i \in Offsets(u) :
                  log[u][i].event = r.event => Superseded(u, i)'
           /\ NewestIsThere'
<1> DEFINE n == Len(log[t]) + 1
<1>1. log[t] \in Seq(Record) /\ n \in Nat /\ r.event \in Events
  <2>1. log[t] \in Seq(Record)  BY DEF TypeOK
  <2>2. r.event \in Events  BY DEF Record
  <2> QED  BY <2>1, <2>2
<1>2. /\ log' \in [Topics -> Seq(Record)]
      /\ log'[t] = Append(log[t], r)
      /\ \A u \in Topics \ {t} : log'[u] = log[u]
  BY <1>1 DEF TypeOK, Appended
<1>3. /\ newest' \in [Events -> [topic : Topics, at : Nat]]
      /\ newest'[r.event] = Place(t, n)
      /\ \A e \in Events \ {r.event} : newest'[e] = newest[e]
  BY <1>1 DEF TypeOK, Appended, Place
<1>4. /\ Len(log'[t]) = n
      /\ log'[t][n] = r
      /\ \A i \in 1 .. Len(log[t]) : log'[t][i] = log[t][i]
  BY <1>1, <1>2
<1>5. \A u \in Topics : Len(log'[u]) >= Len(log[u]) /\ Len(log[u]) \in Nat
  <2>1. \A u \in Topics : log[u] \in Seq(Record) /\ Len(log[u]) \in Nat
    BY DEF TypeOK
  <2> QED  BY <1>1, <1>2, <1>4, <2>1
<1>6. \A u \in Topics : \A i \in Offsets(u) : i \in Offsets(u)' /\ log'[u][i] = log[u][i]
  BY <1>2, <1>4, <1>5 DEF Offsets
<1>7. \A u \in Topics : \A i \in Offsets(u)' : i \in Offsets(u) \/ (u = t /\ i = n)
  BY <1>1, <1>2, <1>4 DEF Offsets
<1>8. \A u \in Topics : \A i \in Offsets(u) : Place(u, i) # Place(t, n)
  BY <1>1 DEF Place, Offsets
<1>9. \A u \in Topics : \A i \in Offsets(u) : log[u][i].event \in Events
  <2>1. \A u \in Topics : log[u] \in Seq(Record)  BY DEF TypeOK
  <2>2. \A u \in Topics : \A i \in Offsets(u) : log[u][i] \in Record
    BY <2>1 DEF Offsets
  <2> QED  BY <2>2 DEF Record
<1>10. \A u \in Topics : \A i \in Offsets(u) :
           log[u][i].event = r.event => Superseded(u, i)'
  BY <1>3, <1>6, <1>8 DEF Superseded, Place
<1>11. \A u \in Topics : \A i \in Offsets(u) : Superseded(u, i) => Superseded(u, i)'
  BY <1>3, <1>6, <1>9, <1>10 DEF Superseded, Place
<1>12. NewestIsThere'
  <2>1. Place(t, n) # Nowhere
    BY <1>1 DEF Place, Nowhere
  <2>2. ASSUME NEW e \in Events, newest'[e] # Nowhere
        PROVE  (newest[e].at \in At(newest[e].topic, e))'
    <3>1. CASE e = r.event
      <4>1. newest'[e].topic = t /\ newest'[e].at = n
        BY <1>3, <3>1 DEF Place
      <4>2. n \in 1 .. Len(log'[t]) /\ log'[t][n].event = e
        BY <1>1, <1>4, <3>1
      <4> QED  BY <4>1, <4>2 DEF At, Offsets
    <3>2. CASE e # r.event
      <4>1. newest'[e] = newest[e] /\ newest[e].topic \in Topics
        BY <1>3, <3>2 DEF TypeOK
      <4>2. newest[e].at \in At(newest[e].topic, e)
        BY <2>2, <4>1 DEF NewestIsThere
      <4> QED  BY <1>6, <4>1, <4>2 DEF At
    <3> QED  BY <3>1, <3>2
  <2>3. ASSUME NEW u \in Topics, NEW i \in Offsets(u)'
        PROVE  newest'[log'[u][i].event] # Nowhere
    <3>1. CASE i \in Offsets(u)
      BY <1>3, <1>6, <1>9, <2>1, <3>1 DEF NewestIsThere
    <3>2. CASE u = t /\ i = n
      BY <1>3, <1>4, <2>1, <3>2
    <3> QED  BY <1>7, <3>1, <3>2
  <2> QED  BY <2>2, <2>3 DEF NewestIsThere, Nowhere, Place
<1> QED
  BY <1>2, <1>3, <1>4, <1>5, <1>6, <1>7, <1>10, <1>11, <1>12

\* The parts of the invariant that speak of workers and offsets only; together
\* with Positions' and the log's they are the whole of IInv.
Positions == OffsetsInLog /\ OwnerAssigned /\ OwnerSkipsNothing

\* A step that leaves the log alone keeps the log's part of the invariant, and
\* keeps what was superseded superseded.
LEMMA QuietStep ==
    ASSUME IInv, UNCHANGED <<log, newest>>, TypeOK', Positions',
           \A w \in Workers : pc'[w] = "durable" => pc[w] = "durable" /\ pos'[w] = pos[w],
           \A r \in Roles : \A i \in 1 .. committed'[r] :
               i \in 1 .. committed[r] \/ Superseded(InputTopic[r], i)
    PROVE  IInv'
<1>1. RetryNamesStage' /\ NewestIsThere'
  BY DEF IInv, RetryNamesStage, NewestIsThere, Offsets, At
<1>2. DurableSuperseded'
  BY DEF IInv, DurableSuperseded, Superseded, In
<1>3. CommittedSuperseded'
  BY DEF IInv, CommittedSuperseded, Superseded
<1> QED
  BY <1>1, <1>2, <1>3 DEF IInv, Positions

\* A step that appends a well-formed record and commits nothing keeps the
\* invariant, if a worker it makes durable had a record of the same event.
LEMMA AppendingStep ==
    ASSUME IInv, NEW t \in Topics, NEW r \in Record, Appended(t, r),
           t = "retry" => r.stage \in Stages,
           TypeOK', Positions', UNCHANGED committed,
           \A w \in Workers : pc'[w] = "durable" =>
               /\ pos'[w] = pos[w]
               /\ pc[w] \in {"inHand", "durable"}
               /\ pc[w] = "durable" \/ Current(w).event = r.event
    PROVE  IInv'
<1>1. /\ TypeOK /\ NewestIsThere /\ OffsetsInLog
      /\ \A u \in Topics : Len(log[u]) \in Nat
  BY DEF IInv, TypeOK
<1>2. NewestIsThere'
  BY <1>1, AppendStep
<1>3. \A u \in Topics : \A i \in Offsets(u) : Superseded(u, i) => Superseded(u, i)'
  BY <1>1, AppendStep
<1>4. \A u \in Topics : \A i \in Offsets(u) : log[u][i].event = r.event => Superseded(u, i)'
  BY <1>1, AppendStep
<1>5. RetryNamesStage'
  <2>1. \A i \in Offsets("retry")' :
            (i \in Offsets("retry") /\ log'["retry"][i] = log["retry"][i])
            \/ ("retry" = t /\ log'["retry"][i] = r)
    <3>1. "retry" \in Topics  BY DEF Topics, StageTopics
    <3>2. \A u \in Topics : \A i \in Offsets(u) : log'[u][i] = log[u][i]
      BY <1>1, AppendStep
    <3>3. \A u \in Topics : \A i \in Offsets(u)' :
              i \in Offsets(u) \/ (u = t /\ log'[u][i] = r)
      BY <1>1, AppendStep
    <3> QED  BY <3>1, <3>2, <3>3
  <2> QED  BY <2>1 DEF IInv, RetryNamesStage
<1>6. DurableSuperseded'
  <2> SUFFICES ASSUME NEW w \in Workers, pc'[w] = "durable"
               PROVE  Superseded(In(w), pos[w])'
    BY DEF DurableSuperseded, In
  <2>1. In(w) \in Topics /\ pos[w] \in Offsets(In(w)) /\ pos'[w] = pos[w]
    BY <1>1, Names DEF OffsetsInLog, Offsets, TypeOK
  <2>2. CASE pc[w] = "durable"
    BY <1>3, <2>1, <2>2 DEF IInv, DurableSuperseded, Superseded
  <2>3. CASE Current(w).event = r.event
    BY <1>4, <2>1, <2>3 DEF Current, Superseded
  <2> QED  BY <2>2, <2>3
<1>7. CommittedSuperseded'
  <2> SUFFICES ASSUME NEW q \in Roles, NEW i \in 1 .. committed[q]
               PROVE  Superseded(InputTopic[q], i)'
    BY DEF CommittedSuperseded
  <2>1. InputTopic[q] \in Topics /\ i \in Offsets(InputTopic[q])
    BY <1>1, Names DEF OffsetsInLog, Offsets, TypeOK
  <2> QED  BY <1>3, <2>1 DEF IInv, CommittedSuperseded
<1> QED
  BY <1>2, <1>5, <1>6, <1>7 DEF IInv, Positions

\* Topics only grow.
LEMMA LogGrows ==
    ASSUME IInv, TypeOK', NEW t \in Topics, NEW r \in Record, Appended(t, r)
    PROVE  \A u \in Topics : Len(log'[u]) >= Len(log[u]) /\ Len(log[u]) \in Nat
                             /\ Len(log'[u]) \in Nat
<1>1. \A u \in Topics : Len(log'[u]) >= Len(log[u])
  BY AppendStep DEF IInv
<1>2. \A u \in Topics : Len(log[u]) \in Nat /\ Len(log'[u]) \in Nat
  BY DEF IInv, TypeOK
<1> QED  BY <1>1, <1>2

\* The invariant holds before anything runs.
LEMMA InitInv == Init => IInv
<1> SUFFICES ASSUME Init PROVE IInv  OBVIOUS
<1>1. TypeOK
  BY ConstantsAssumption
     DEF Init, TypeOK, Nowhere, Place, Topics, StageTopics
<1>2. \A t \in Topics : Offsets(t) = {}
  BY DEF Init, Offsets
<1>3. OffsetsInLog /\ OwnerAssigned /\ OwnerSkipsNothing
  BY Names, ConstantsAssumption DEF Init, OffsetsInLog, OwnerAssigned, OwnerSkipsNothing
<1>4. RetryNamesStage /\ NewestIsThere
  BY <1>2 DEF Init, RetryNamesStage, NewestIsThere, Topics, StageTopics
<1>5. DurableSuperseded /\ CommittedSuperseded
  BY DEF Init, DurableSuperseded, CommittedSuperseded
<1> QED  BY <1>1, <1>3, <1>4, <1>5 DEF IInv

\* A worker that exits takes its ownership with it.
LEMMA ExitingStep ==
    ASSUME IInv, NEW w \in Workers, Exits(w),
           \A r \in Roles : committed'[r] = committed[r] \/ (r = RoleOf[w] /\ owner[r] = w)
    PROVE  /\ pc' \in [Workers -> {"down", "idle", "inHand", "durable"}]
           /\ pos' = pos
           /\ assigned' \in [Workers -> BOOLEAN]
           /\ owner' \in [Roles -> Workers \cup {None}]
           /\ \A v \in Workers : pc'[v] = pc[v] \/ pc'[v] = "down"
           /\ OwnerAssigned' /\ OwnerSkipsNothing'
<1>1. TypeOK /\ RoleOf[w] \in Roles /\ None \notin Workers
  BY Names, ConstantsAssumption DEF IInv
<1>2. /\ pc' \in [Workers -> {"down", "idle", "inHand", "durable"}]
      /\ pos' = pos
      /\ assigned' \in [Workers -> BOOLEAN]
      /\ owner' \in [Roles -> Workers \cup {None}]
  BY <1>1 DEF TypeOK, Exits
<1>3. \A v \in Workers : pc'[v] = pc[v] \/ pc'[v] = "down"
  BY <1>1 DEF TypeOK, Exits
<1>4. ASSUME NEW r \in Roles, NEW v \in Workers, owner'[r] = v
      PROVE  /\ v # w /\ owner[r] = v /\ pc'[v] = pc[v] /\ assigned'[v] = assigned[v]
             /\ committed'[r] = committed[r]
  <2>1. owner[r] = v
    BY <1>1, <1>4 DEF TypeOK, Exits
  <2>2. v # w
    <3>1. CASE r = RoleOf[w]
      BY <1>1, <1>4, <3>1 DEF TypeOK, Exits
    <3>2. CASE r # RoleOf[w]
      BY <2>1, <3>2 DEF IInv, OwnerAssigned
    <3> QED  BY <3>1, <3>2
  <2> QED
    BY <1>1, <2>1, <2>2 DEF TypeOK, Exits
<1>5. OwnerAssigned'
  BY <1>4 DEF IInv, OwnerAssigned
<1>6. OwnerSkipsNothing'
  BY <1>2, <1>4 DEF IInv, OwnerSkipsNothing
<1> QED  BY <1>2, <1>3, <1>5, <1>6

\* The invariant is inductive: one step per action.
LEMMA NextInv == IInv /\ [Next]_vars => IInv'
<1> SUFFICES ASSUME IInv, [Next]_vars PROVE IInv'  OBVIOUS
<1> USE Names, ConstantsAssumption
<1>0. TypeOK /\ OffsetsInLog /\ OwnerAssigned /\ OwnerSkipsNothing /\ RetryNamesStage
  BY DEF IInv
<1>1. ASSUME NEW e \in Events, UNCHANGED workerVars, faults' \in 0 .. MaxFaults,
             Appended("raw", RawRecord(e))
      PROVE  IInv'
  <2>1. RawRecord(e) \in Record /\ "raw" \in Topics
    BY DEF RawRecord, Record, ErrorCodes, Topics, StageTopics
  <2>2. TypeOK'
    BY <1>0, <1>1, <2>1, AppendStep DEF IInv, TypeOK, workerVars
  <2>3. Positions'
    <3>1. \A u \in Topics : Len(log'[u]) >= Len(log[u]) /\ Len(log[u]) \in Nat
                             /\ Len(log'[u]) \in Nat
      BY <1>1, <2>1, <2>2, LogGrows
    <3>2. OffsetsInLog'
      BY <1>0, <1>1, <3>1 DEF OffsetsInLog, TypeOK, workerVars, In
    <3> QED
      BY <1>0, <1>1, <3>2 DEF Positions, OwnerAssigned, OwnerSkipsNothing, workerVars
  <2> QED
    BY <1>1, <2>1, <2>2, <2>3, AppendingStep DEF workerVars
<1>2. ASSUME NEW w \in Workers, Start(w)  PROVE IInv'
  <2>1. TypeOK' /\ Positions'
    BY <1>0, <1>2 DEF Start, TypeOK, Positions, OffsetsInLog, OwnerAssigned,
       OwnerSkipsNothing, In
  <2> QED
    BY <1>0, <1>2, <2>1, QuietStep DEF Start, TypeOK, IInv, CommittedSuperseded
<1>3. ASSUME NEW w \in Workers, Takes(w), faults' \in 0 .. MaxFaults  PROVE IInv'
  <2>1. TypeOK'
    BY <1>0, <1>3 DEF Takes, TypeOK
  <2>2. OffsetsInLog'
    BY <1>0, <1>3 DEF Takes, TypeOK, OffsetsInLog, In
  <2>3. OwnerAssigned' /\ OwnerSkipsNothing'
    BY <1>0, <1>3 DEF Takes, TypeOK, OwnerAssigned, OwnerSkipsNothing
  <2> QED
    BY <1>0, <1>3, <2>1, <2>2, <2>3, QuietStep, Zenon
       DEF Takes, TypeOK, IInv, CommittedSuperseded, Positions
<1>4. ASSUME NEW w \in Workers, Revoke(w)  PROVE IInv'
  <2>1. TypeOK' /\ OffsetsInLog'
    BY <1>0, <1>4 DEF Revoke, TypeOK, OffsetsInLog, In
  <2>2. OwnerAssigned' /\ OwnerSkipsNothing'
    BY <1>0, <1>4 DEF Revoke, TypeOK, OwnerAssigned, OwnerSkipsNothing
  <2> QED
    BY <1>0, <1>4, <2>1, <2>2, QuietStep
       DEF Revoke, TypeOK, IInv, CommittedSuperseded, Positions
<1>5. ASSUME NEW w \in Workers, Exits(w), UNCHANGED <<log, committed, newest>>,
             faults' \in 0 .. MaxFaults
      PROVE  IInv'
  <2>1. /\ TypeOK' /\ OwnerAssigned' /\ OwnerSkipsNothing' /\ pos' = pos
        /\ \A v \in Workers : pc'[v] = pc[v] \/ pc'[v] = "down"
    BY <1>0, <1>5, ExitingStep DEF TypeOK
  <2>2. OffsetsInLog'
    BY <1>0, <1>5, <2>1 DEF OffsetsInLog, In
  <2> QED
    BY <1>5, <2>1, <2>2, QuietStep DEF IInv, CommittedSuperseded, Positions
<1>6. ASSUME NEW w \in Workers, Fetch(w)  PROVE IInv'
  <2>1. In(w) \in Topics /\ log[In(w)] \in Seq(Record) /\ pos[w] \in Nat
    BY <1>0 DEF TypeOK
  <2>2. TypeOK'
    BY <1>0, <1>6, <2>1 DEF Fetch, TypeOK
  <2>3. OffsetsInLog'
    BY <1>0, <1>6, <2>1 DEF Fetch, TypeOK, OffsetsInLog, In
  <2>4. OwnerAssigned' /\ OwnerSkipsNothing'
    BY <1>0, <1>6, <2>1 DEF Fetch, TypeOK, OwnerAssigned, OwnerSkipsNothing
  <2> QED
    BY <1>0, <1>6, <2>2, <2>3, <2>4, QuietStep
       DEF Fetch, TypeOK, IInv, CommittedSuperseded, Positions
<1>7. ASSUME NEW w \in Workers, pc[w] = "inHand"
      PROVE  /\ Current(w) \in Record
             /\ RoleOf[w] = "retry" => Current(w).stage \in Stages
  <2>1. In(w) \in Topics /\ log[In(w)] \in Seq(Record) /\ pos[w] \in Offsets(In(w))
    BY <1>0, <1>7 DEF TypeOK, OffsetsInLog, Offsets
  <2>2. RoleOf[w] = "retry" => In(w) = "retry"
    BY DEF In, InputTopic
  <2> QED
    BY <1>0, <2>1, <2>2 DEF Current, RetryNamesStage, Offsets
<1>8. ASSUME NEW w \in Workers, Deliver(w)  PROVE IInv'
  <2>1. PICK d \in Decisions(RoleOf[w], Current(w)) : Appended(d.topic, d.record)
    BY <1>8 DEF Deliver
  <2>2. /\ d.topic \in Topics /\ d.record \in Record
        /\ d.record.event = Current(w).event
        /\ d.topic = "retry" => d.record.stage \in Stages
    BY <1>7, <1>8, DecisionsTyped DEF Deliver
  <2>3. TypeOK'
    BY <1>0, <1>8, <2>1, <2>2, AppendStep DEF IInv, Deliver, TypeOK
  <2>4. OffsetsInLog'
    <3>1. \A u \in Topics : Len(log'[u]) >= Len(log[u]) /\ Len(log[u]) \in Nat
                             /\ Len(log'[u]) \in Nat
      BY <2>1, <2>2, <2>3, LogGrows
    <3> QED
      BY <1>0, <1>8, <3>1 DEF Deliver, OffsetsInLog, TypeOK, In
  <2>5. OwnerAssigned' /\ OwnerSkipsNothing'
    BY <1>0, <1>8 DEF Deliver, TypeOK, OwnerAssigned, OwnerSkipsNothing
  <2>6. \A v \in Workers : pc'[v] = "durable" =>
            /\ pos'[v] = pos[v]
            /\ pc[v] \in {"inHand", "durable"}
            /\ pc[v] = "durable" \/ Current(v).event = d.record.event
    BY <1>0, <1>8, <2>2 DEF Deliver, TypeOK
  <2> QED
    BY <1>8, <2>1, <2>2, <2>3, <2>4, <2>5, <2>6, AppendingStep DEF Deliver, Positions
<1>9. ASSUME NEW w \in Workers, DeliverFails(w)  PROVE IInv'
  <2>1. /\ faults' \in 0 .. MaxFaults /\ Exits(w) /\ committed' = committed
        /\ pc[w] = "inHand"
    BY <1>0, <1>9 DEF DeliverFails, Fault, TypeOK
  <2>2. CASE UNCHANGED <<log, newest>>
    BY <1>5, <2>1, <2>2
  <2>3. CASE \E d \in Decisions(RoleOf[w], Current(w)) : Appended(d.topic, d.record)
    <3>1. PICK d \in Decisions(RoleOf[w], Current(w)) : Appended(d.topic, d.record)
      BY <2>3
    <3>2. /\ d.topic \in Topics /\ d.record \in Record
          /\ d.topic = "retry" => d.record.stage \in Stages
      BY <1>7, <2>1, DecisionsTyped
    <3>3. /\ pc' \in [Workers -> {"down", "idle", "inHand", "durable"}]
          /\ pos' = pos
          /\ assigned' \in [Workers -> BOOLEAN]
          /\ owner' \in [Roles -> Workers \cup {None}]
          /\ OwnerAssigned' /\ OwnerSkipsNothing'
          /\ \A v \in Workers : pc'[v] = pc[v] \/ pc'[v] = "down"
      BY <2>1, ExitingStep
    <3>4. TypeOK'
      BY <1>0, <2>1, <3>1, <3>2, <3>3, AppendStep DEF IInv, TypeOK
    <3>5. OffsetsInLog'
      <4>1. \A u \in Topics : Len(log'[u]) >= Len(log[u]) /\ Len(log[u]) \in Nat
                               /\ Len(log'[u]) \in Nat
        BY <3>1, <3>2, <3>4, LogGrows
      <4> QED
        BY <1>0, <2>1, <3>3, <4>1 DEF OffsetsInLog, TypeOK, In
    <3> QED
      BY <2>1, <3>1, <3>2, <3>3, <3>4, <3>5, AppendingStep DEF Positions
  <2> QED
    BY <1>9, <2>2, <2>3 DEF DeliverFails
<1>10. ASSUME NEW w \in Workers, pc[w] = "durable", owner[RoleOf[w]] = w,
              committed' = [committed EXCEPT ![RoleOf[w]] = pos[w]],
              UNCHANGED log
       PROVE  /\ committed' \in [Roles -> Nat]
              /\ pos[w] = committed[RoleOf[w]] + 1
              /\ \A r \in Roles : committed'[r] <= Len(log'[InputTopic[r]])
              /\ \A r \in Roles : \A i \in 1 .. committed'[r] :
                     i \in 1 .. committed[r] \/ Superseded(InputTopic[r], i)
  <2>1. pos[w] = committed[RoleOf[w]] + 1 /\ committed' \in [Roles -> Nat]
    BY <1>0, <1>10 DEF TypeOK, OwnerSkipsNothing
  <2>2. Superseded(InputTopic[RoleOf[w]], pos[w])
    BY <1>10 DEF IInv, DurableSuperseded, In
  <2>3. \A r \in Roles : committed'[r] <= Len(log'[InputTopic[r]])
    BY <1>0, <1>10 DEF OffsetsInLog, TypeOK, In
  <2>4. ASSUME NEW r \in Roles, NEW i \in 1 .. committed'[r]
        PROVE  i \in 1 .. committed[r] \/ Superseded(InputTopic[r], i)
    <3>1. CASE r = RoleOf[w]
      BY <1>0, <1>10, <2>1, <2>2, <2>4, <3>1 DEF TypeOK
    <3>2. CASE r # RoleOf[w]
      BY <1>0, <1>10, <2>4, <3>2 DEF TypeOK
    <3> QED  BY <3>1, <3>2
  <2> QED  BY <2>1, <2>3, <2>4
<1>11. ASSUME NEW w \in Workers, Commit(w)  PROVE IInv'
  <2>1. TypeOK' /\ OffsetsInLog'
    BY <1>0, <1>10, <1>11 DEF Commit, TypeOK, OffsetsInLog, In
  <2>2. OwnerAssigned' /\ OwnerSkipsNothing'
    BY <1>0, <1>11 DEF Commit, TypeOK, OwnerAssigned, OwnerSkipsNothing
  <2>3. \A v \in Workers : pc'[v] = "durable" => pc[v] = "durable" /\ pos'[v] = pos[v]
    BY <1>0, <1>11 DEF Commit, TypeOK
  <2> QED
    BY <1>10, <1>11, <2>1, <2>2, <2>3, QuietStep DEF Commit, Positions
<1>12. ASSUME NEW w \in Workers, CommitUncertain(w)  PROVE IInv'
  <2>1. /\ Exits(w) /\ UNCHANGED <<log, newest>> /\ faults' \in 0 .. MaxFaults
        /\ \A r \in Roles : committed'[r] = committed[r] \/ (r = RoleOf[w] /\ owner[r] = w)
    BY <1>0, <1>12 DEF CommitUncertain, Fault, TypeOK
  <2>2. /\ pc' \in [Workers -> {"down", "idle", "inHand", "durable"}]
        /\ pos' = pos
        /\ assigned' \in [Workers -> BOOLEAN]
        /\ owner' \in [Roles -> Workers \cup {None}]
        /\ OwnerAssigned' /\ OwnerSkipsNothing'
        /\ \A v \in Workers : pc'[v] = pc[v] \/ pc'[v] = "down"
    BY <2>1, ExitingStep
  <2>3. TypeOK' /\ OffsetsInLog'
    BY <1>0, <1>10, <1>12, <2>1, <2>2, Zenon DEF CommitUncertain, TypeOK, OffsetsInLog, In
  <2> QED
    BY <1>10, <1>12, <2>1, <2>2, <2>3, QuietStep DEF CommitUncertain, Positions
<1>13. CASE UNCHANGED vars
  <2>1. TypeOK' /\ Positions'
    BY <1>0, <1>13 DEF vars, TypeOK, Positions, OffsetsInLog, OwnerAssigned,
       OwnerSkipsNothing, In
  <2> QED
    BY <1>13, <2>1, QuietStep DEF vars, IInv, CommittedSuperseded
<1>14. ASSUME Fault  PROVE faults' \in 0 .. MaxFaults
  BY <1>0, <1>14 DEF Fault, TypeOK
<1>15. ASSUME UNCHANGED faults  PROVE faults' \in 0 .. MaxFaults
  BY <1>0, <1>15 DEF TypeOK
<1>16. ASSUME NEW e \in Events, Submit(e) \/ Replay(e)  PROVE IInv'
  BY <1>1, <1>14, <1>15, <1>16 DEF Submit, Replay, workerVars
<1>17. ASSUME NEW w \in Workers, Assign(w) \/ Rebalance(w)  PROVE IInv'
  BY <1>3, <1>14, <1>15, <1>17 DEF Assign, Rebalance
<1>18. ASSUME NEW w \in Workers, Crash(w) \/ Raises(w) \/ CommitRefused(w)  PROVE IInv'
  BY <1>5, <1>14, <1>15, <1>18 DEF Crash, Raises, CommitRefused
<1> QED
  BY <1>2, <1>4, <1>6, <1>8, <1>9, <1>11, <1>12, <1>13, <1>16, <1>17, <1>18 DEF Next, Enter, Work

\* The inductive invariant holds throughout.
THEOREM Invariant == Spec => []IInv
  BY InitInv, NextInv, PTL DEF Spec

\* Type correctness.
THEOREM TypeCorrect == Spec => []TypeOK
<1>1. IInv => TypeOK  BY DEF IInv
<1> QED  BY <1>1, Invariant, PTL

\* A current owner is never more than one record past its committed offset.
THEOREM OwnerNeverSkips == Spec => []OwnerSkipsNothing
<1>1. IInv => OwnerSkipsNothing  BY DEF IInv
<1> QED  BY <1>1, Invariant, PTL

\* The newest record of an accepted event rests or is still to be committed.
LEMMA CustodyKept == IInv => NothingLost
<1> SUFFICES ASSUME IInv, NEW e \in Events, Accepted(e)
             PROVE  Settled(e) \/ Waiting(e)
  BY DEF NothingLost
<1> USE Names
<1> DEFINE t == newest[e].topic
           i == newest[e].at
<1>1. newest[e] # Nowhere
  BY DEF Accepted, At, IInv, NewestIsThere
<1>2. t \in Topics /\ i \in At(t, e) /\ newest[e] = Place(t, i)
  BY <1>1 DEF IInv, NewestIsThere, TypeOK, Place
<1>3. CASE t \in Resting
  BY <1>2, <1>3 DEF Settled
<1>4. CASE \E r \in Roles : t = InputTopic[r]
  <2>1. PICK r \in Roles : t = InputTopic[r]  BY <1>4
  <2>2. i \notin 1 .. committed[r]
    BY <1>2, <2>1 DEF IInv, CommittedSuperseded, Superseded, At
  <2>3. i > committed[r]
    BY <1>2, <2>1, <2>2 DEF IInv, TypeOK, At, Offsets
  <2> QED  BY <1>2, <2>1, <2>3 DEF Waiting
<1> QED  BY <1>2, <1>3, <1>4

\* No accepted event is ever lost: it rests, or a group has yet to commit it.
THEOREM NothingEverLost == Spec => []NothingLost
  BY Invariant, CustodyKept, PTL

\* Committed offsets never move backwards, whoever commits.
THEOREM CommitsAdvance == Spec => CommitsOnlyAdvance
<1>1. IInv /\ [Next]_vars => [\A r \in Roles : committed'[r] >= committed[r]]_vars
  <2> SUFFICES ASSUME IInv, Next, NEW r \in Roles  PROVE committed'[r] >= committed[r]
    OBVIOUS
  <2> USE Names
  <2>1. TypeOK /\ OwnerSkipsNothing /\ committed[r] \in Nat
    BY DEF IInv, TypeOK
  <2>2. ASSUME NEW w \in Workers, Commit(w) \/ CommitUncertain(w)
        PROVE  committed'[r] >= committed[r]
    <3>1. /\ pos[w] = committed[RoleOf[w]] + 1
          /\ committed' = [committed EXCEPT ![RoleOf[w]] = pos[w]]
      BY <2>1, <2>2 DEF Commit, CommitUncertain, OwnerSkipsNothing
    <3> QED  BY <2>1, <3>1 DEF TypeOK
  <2>3. ASSUME UNCHANGED committed  PROVE committed'[r] >= committed[r]
    BY <2>1, <2>3
  <2> QED
    BY <2>2, <2>3 DEF Next, Enter, Work, Submit, Replay, workerVars, Start, Assign, Rebalance, Takes,
       Revoke, Crash, Fetch, Deliver, DeliverFails, Raises, CommitRefused
<1> QED  BY <1>1, Invariant, PTL DEF Spec, CommitsOnlyAdvance

\* Under the invariant an event is settled, else held, else not yet accepted.
LEMMA CustodyForm ==
    IInv => \A e \in Events :
        CustodyOf(e) = IF Settled(e) THEN "settled"
                       ELSE IF Accepted(e) THEN "held" ELSE "outside"
<1> SUFFICES ASSUME IInv, NEW e \in Events
             PROVE  CustodyOf(e) = IF Settled(e) THEN "settled"
                                   ELSE IF Accepted(e) THEN "held" ELSE "outside"
  OBVIOUS
<1>1. Settled(e) \/ Waiting(e) => Accepted(e)
  BY Names DEF Settled, Waiting, Accepted
<1>2. Accepted(e) => Settled(e) \/ Waiting(e)
  BY CustodyKept DEF NothingLost
<1> QED  BY <1>1, <1>2 DEF CustodyOf

CustodyBar == [e \in Events |-> CustodyOf(e)]

\* A step that leaves the log alone changes no event's custody.
LEMMA QuietCustody ==
    ASSUME IInv, IInv', UNCHANGED log
    PROVE  UNCHANGED CustodyBar
<1>1. (IInv => \A e \in Events :
           CustodyOf(e) = IF Settled(e) THEN "settled"
                          ELSE IF Accepted(e) THEN "held" ELSE "outside")'
  BY CustodyForm, PTL
<1>2. ASSUME NEW e \in Events  PROVE CustodyOf(e)' = CustodyOf(e)
  <2>1. (Settled(e)' <=> Settled(e)) /\ (Accepted(e)' <=> Accepted(e))
    BY DEF Settled, Accepted, At, Offsets
  <2> QED  BY <1>1, <2>1, CustodyForm
<1> QED  BY <1>2 DEF CustodyBar

\* An appended record changes the custody of its event only: the first one, in the raw
\* topic, accepts it, and one in a resting place settles it.
LEMMA AppendMoves ==
    ASSUME IInv, IInv', NEW t \in Topics, NEW r \in Record, NEW o \in Events,
           o = r.event, Appended(t, r), Accepted(o) \/ t = "raw"
    PROVE  /\ \A e \in Events \ {o} : CustodyOf(e)' = CustodyOf(e)
           /\ IF CustodyOf(o) = "outside" THEN t = "raw" /\ CustodyOf(o)' = "held"
              ELSE \/ CustodyOf(o)' = CustodyOf(o)
                   \/ t # "raw" /\ CustodyOf(o) = "held" /\ CustodyOf(o)' = "settled"
<1>2. (IInv => \A e \in Events :
           CustodyOf(e) = IF Settled(e) THEN "settled"
                          ELSE IF Accepted(e) THEN "held" ELSE "outside")'
  BY CustodyForm, PTL
<1>3. /\ \A u \in Topics : \A i \in Offsets(u) : log'[u][i] = log[u][i]
      /\ \A u \in Topics : \A i \in Offsets(u)' :
             i \in Offsets(u) \/ (u = t /\ log'[u][i] = r)
  BY AppendStep DEF IInv
<1>4. \A u \in Topics : Offsets(u) \subseteq Offsets(u)'
  <2>1. \A u \in Topics : Len(log'[u]) >= Len(log[u]) /\ Len(log[u]) \in Nat
                           /\ Len(log'[u]) \in Nat
    BY LogGrows DEF IInv
  <2> QED  BY <2>1 DEF Offsets
<1>5. ASSUME NEW e \in Events, NEW u \in Topics
      PROVE  /\ At(u, e) # {} => At(u, e)' # {}
             /\ (e # o \/ u # t) => (At(u, e)' # {} => At(u, e) # {})
  BY <1>3, <1>4 DEF At
<1>6. \A e \in Events : /\ Settled(e) => Settled(e)'
                        /\ Accepted(e) => Accepted(e)'
  BY <1>5, Names DEF Settled, Accepted
<1>7. \A e \in Events \ {o} : /\ Settled(e)' => Settled(e)
                              /\ Accepted(e)' => Accepted(e)
  BY <1>5, Names DEF Settled, Accepted
<1>8. \A e \in Events \ {o} : CustodyOf(e)' = CustodyOf(e)
  BY <1>2, <1>6, <1>7, CustodyForm
<1>9. t = "raw" => (Settled(o)' => Settled(o))
  BY <1>5, Names DEF Settled, Resting
<1>10. Accepted(o)'
  <2>1. At(t, o)' # {}
    <3>1. Len(log[t]) + 1 \in Offsets(t)' /\ log'[t][Len(log[t]) + 1] = r
      <4>1. log[t] \in Seq(Record) /\ log'[t] = Append(log[t], r)
        BY DEF IInv, TypeOK, Appended
      <4> QED  BY <4>1 DEF Offsets
    <3> QED  BY <3>1 DEF At
  <2> QED  BY <2>1 DEF Accepted
<1> QED
  BY <1>2, <1>6, <1>8, <1>9, <1>10, CustodyForm

\* Only the first record of an event, in the raw topic, brings it into custody.
LEMMA EnterMoves ==
    ASSUME IInv, IInv', NEW e \in Events, Enter(e)
    PROVE  /\ \A o \in Events \ {e} : CustodyOf(o)' = CustodyOf(o)
           /\ CustodyOf(e)' = IF CustodyOf(e) = "outside" THEN "held" ELSE CustodyOf(e)
<1>1. RawRecord(e) \in Record /\ RawRecord(e).event = e /\ "raw" \in Topics
  BY ConstantsAssumption DEF RawRecord, Record, ErrorCodes, Topics, StageTopics
<1>2. Appended("raw", RawRecord(e))
  BY DEF Enter, Submit, Replay
<1> QED
  BY <1>1, <1>2, AppendMoves

\* What the workers do settles an event or changes no custody.
LEMMA WorkMoves ==
    ASSUME IInv, IInv', NEW w \in Workers, Work(w)
    PROVE  \A e \in Events : \/ CustodyOf(e)' = CustodyOf(e)
                             \/ CustodyOf(e) = "held" /\ CustodyOf(e)' = "settled"
<1>1. CASE UNCHANGED log
  BY <1>1, QuietCustody DEF CustodyBar
<1>2. CASE Deliver(w) \/ DeliverFails(w)
  <2>1. /\ In(w) \in Topics /\ log[In(w)] \in Seq(Record)
        /\ pos[w] \in Offsets(In(w)) /\ RoleOf[w] \in Roles
    BY <1>2, Names DEF Deliver, DeliverFails, IInv, TypeOK, OffsetsInLog, Offsets
  <2>2. /\ Current(w) \in Record
        /\ RoleOf[w] = "retry" => Current(w).stage \in Stages
    <3>1. RoleOf[w] = "retry" => In(w) = "retry"
      BY DEF In, InputTopic
    <3> QED  BY <2>1, <3>1 DEF Current, IInv, RetryNamesStage, Offsets
  <2>3. Accepted(Current(w).event) /\ Current(w).event \in Events
    BY <2>1, <2>2 DEF Current, Accepted, At, Record
  <2>4. CustodyOf(Current(w).event) # "outside"
    BY <2>3, CustodyForm
  <2>5. CASE \E d \in Decisions(RoleOf[w], Current(w)) : Appended(d.topic, d.record)
    <3>1. PICK d \in Decisions(RoleOf[w], Current(w)) : Appended(d.topic, d.record)
      BY <2>5
    <3>2. d.topic \in Topics /\ d.record \in Record /\ d.record.event = Current(w).event
      BY <2>1, <2>2, DecisionsTyped
    <3> QED  BY <2>3, <2>4, <3>1, <3>2, AppendMoves
  <2> QED  BY <1>1, <1>2, <2>5 DEF Deliver, DeliverFails
<1> QED
  BY <1>1, <1>2 DEF Work, Start, Assign, Rebalance, Takes, Revoke, Crash, Fetch, Raises,
     Commit, CommitRefused, CommitUncertain

\* The pipeline implements the custody specification.
THEOREM PipelineDelivers == Spec => ImplementsDelivery
<1>1. Init => D!Init
  <2> SUFFICES ASSUME Init  PROVE \A e \in Events : CustodyOf(e) = "outside"
    BY DEF D!Init
  <2>1. IInv  BY InitInv
  <2>2. \A e \in Events : ~Accepted(e)
    BY DEF Init, Accepted, At, Offsets
  <2>3. \A e \in Events : ~Settled(e)
    BY <2>2, Names DEF Settled, Accepted
  <2> QED  BY <2>1, <2>2, <2>3, CustodyForm
<1>2. IInv /\ IInv' /\ [Next]_vars => [D!Next]_CustodyBar
  <2> SUFFICES ASSUME IInv, IInv', [Next]_vars  PROVE [D!Next]_CustodyBar
    OBVIOUS
  <2>1. ASSUME NEW e \in Events, Enter(e)  PROVE [D!Next]_CustodyBar
    <3>1. CASE CustodyOf(e) = "outside"
      <4>1. D!Accept(e)
        BY <2>1, <3>1, EnterMoves DEF D!Accept, CustodyBar
      <4> QED  BY <4>1 DEF D!Next
    <3>2. CASE CustodyOf(e) # "outside"
      BY <2>1, <3>2, EnterMoves DEF CustodyBar
    <3> QED  BY <3>1, <3>2
  <2>2. ASSUME NEW w \in Workers, Work(w)  PROVE [D!Next]_CustodyBar
    <3> DEFINE resting == {e \in Events : CustodyOf(e)' # CustodyOf(e)}
    <3>1. D!Settle(resting)
      BY <2>2, WorkMoves DEF D!Settle, CustodyBar
    <3> QED  BY <3>1 DEF D!Next
  <2>3. CASE UNCHANGED vars
    BY <2>3, QuietCustody DEF vars
  <2> QED
    BY <2>1, <2>2, <2>3 DEF Next
<1>3. D!SafeSpec <=> D!Init /\ [][D!Next]_CustodyBar
  BY DEF D!SafeSpec, CustodyBar
<1> QED
  BY <1>1, <1>2, <1>3, Invariant, PTL DEF Spec, ImplementsDelivery
-----------------------------------------------------------------------------
(***************************************************************************)
(* What the pipeline spends: dead letters are justified, the attempt       *)
(* budget of an event is shared by its stages, and every duplicate is paid *)
(* for by a fault.                                                         *)
(***************************************************************************)
\* A worker with a record in hand has a record of its input topic; in the retry
\* topic one that names a stage.
LEMMA HandIsRecord ==
    ASSUME IInv, NEW w \in Workers, pc[w] = "inHand"
    PROVE  /\ RoleOf[w] \in Roles /\ In(w) \in StageTopics /\ In(w) \in Topics
           /\ pos[w] \in Offsets(In(w))
           /\ Current(w) \in Record
           /\ RoleOf[w] = "retry" => Current(w).stage \in Stages
<1>1. RoleOf[w] \in Roles /\ In(w) \in StageTopics /\ In(w) \in Topics
  BY ConstantsAssumption, Names DEF In
<1>2. log[In(w)] \in Seq(Record) /\ pos[w] \in Offsets(In(w))
  BY <1>1 DEF IInv, TypeOK, OffsetsInLog, Offsets
<1>3. RoleOf[w] = "retry" => In(w) = "retry"
  BY DEF In, InputTopic
<1> QED
  BY <1>1, <1>2, <1>3 DEF Current, IInv, RetryNamesStage, Offsets

\* What entitles a record to rest in the dead-letter topic.
Justified(r) ==
    \/ r.code = "EXHAUSTED" /\ r.attempt = MaxAttempts /\ r.event \in Flaky[r.stage]
    \/ r.code = "INVALID_CONTRACT" /\ \E s \in Stages : r.event \in Malformed[s]

\* No decision sends a record to the dead-letter topic without a reason.
LEMMA DecisionsJustified ==
    ASSUME NEW role \in Roles, NEW r \in Record,
           role = "retry" => r.stage \in Stages,
           NEW d \in Decisions(role, r), d.topic = "deadLetter"
    PROVE  Justified(d.record)
<1>1. CASE role = "sink"
  BY <1>1 DEF Decisions, SinkDecision, Out
<1>2. CASE role # "sink"
  <2> DEFINE s == StageFor(role, r)
  <2>1. s \in Stages
    BY <1>2 DEF StageFor, Roles
  <2>2. CASE d = InvalidContract(r) /\ r.event \in Malformed[s]
    BY <2>1, <2>2 DEF InvalidContract, Out, Justified
  <2>3. d # Forward(s, r)
    BY <2>1, Names DEF Forward, Out, StageTopics
  <2>4. CASE d = RetryOrDeadLetter(s, r) /\ r.event \in Flaky[s]
    <3>1. r.attempt >= MaxAttempts
      BY <2>4 DEF RetryOrDeadLetter, Out
    <3>2. r.attempt = MaxAttempts
      BY <3>1, ConstantsAssumption DEF Record
    <3> QED
      BY <2>4, <3>1, <3>2 DEF RetryOrDeadLetter, Out, Justified
  <2> HIDE DEF s
  <2> QED
    BY <1>2, <2>2, <2>3, <2>4 DEF Decisions, StageDecisions, s
<1> QED  BY <1>1, <1>2

\* A record is appended by a submission, a replay or a delivery, and by nothing else.
LEMMA WhoAppends ==
    ASSUME IInv, [Next]_vars
    PROVE  \/ UNCHANGED <<log, newest>>
           \/ \E e \in Events : Appended("raw", RawRecord(e))
           \/ \E w \in Workers : \E d \in Decisions(RoleOf[w], Current(w)) :
                  pc[w] = "inHand" /\ Appended(d.topic, d.record)
  BY DEF Next, Enter, Work, vars, Submit, Replay, Start, Assign, Rebalance, Takes, Revoke, Crash,
     Fetch, Deliver, DeliverFails, Raises, Commit, CommitRefused, CommitUncertain

\* An event is dead-lettered for exhaustion only after its whole attempt budget,
\* and for its contract only if some stage rejects its payload.
THEOREM DeadLettersAreJustified == Spec => []DeadLettersJustified
<1>1. Init => DeadLettersJustified
  BY DEF Init, DeadLettersJustified, Offsets, Topics, Resting
<1>2. IInv /\ DeadLettersJustified /\ [Next]_vars => DeadLettersJustified'
  <2> SUFFICES ASSUME IInv, DeadLettersJustified, [Next]_vars, NEW i \in Offsets("deadLetter")'
               PROVE  Justified(log'["deadLetter"][i])
    BY DEF DeadLettersJustified, Justified
  <2>1. "deadLetter" \in Topics /\ "raw" \in Topics
    BY DEF Topics, Resting, StageTopics
  <2>2. ASSUME i \in Offsets("deadLetter"), log'["deadLetter"][i] = log["deadLetter"][i]
        PROVE  Justified(log'["deadLetter"][i])
    BY <2>2 DEF DeadLettersJustified, Justified
  <2>3. CASE UNCHANGED <<log, newest>>
    BY <2>2, <2>3 DEF Offsets
  <2>4. ASSUME NEW t \in Topics, NEW r \in Record, Appended(t, r),
               t = "deadLetter" => Justified(r)
        PROVE  Justified(log'["deadLetter"][i])
    <3>1. /\ \A j \in Offsets("deadLetter") : log'["deadLetter"][j] = log["deadLetter"][j]
          /\ i \in Offsets("deadLetter") \/ ("deadLetter" = t /\ log'["deadLetter"][i] = r)
      BY <2>1, <2>4, AppendStep DEF IInv
    <3> QED
      BY <2>2, <2>4, <3>1
  <2>5. ASSUME NEW e \in Events, Appended("raw", RawRecord(e))
        PROVE  Justified(log'["deadLetter"][i])
    <3>1. RawRecord(e) \in Record
      BY ConstantsAssumption DEF RawRecord, Record, ErrorCodes
    <3> QED
      BY <2>1, <2>4, <2>5, <3>1
  <2>6. ASSUME NEW w \in Workers, NEW d \in Decisions(RoleOf[w], Current(w)),
               pc[w] = "inHand", Appended(d.topic, d.record)
        PROVE  Justified(log'["deadLetter"][i])
    BY <2>4, <2>6, HandIsRecord, DecisionsTyped, DecisionsJustified
  <2> QED
    BY <2>3, <2>5, <2>6, WhoAppends
<1> QED
  BY <1>1, <1>2, Invariant, PTL DEF Spec
(***************************************************************************)
(* Behaviours without a fault.                                             *)
(***************************************************************************)
\* A decision that keeps the event under way carries its attempts on: one more in
\* the retry topic, the same in the next stage's.
LEMMA DecisionAttempts ==
    ASSUME NEW role \in Roles, NEW r \in Record, role = "retry" => r.stage \in Stages,
           NEW d \in Decisions(role, r), d.topic \in StageTopics
    PROVE  d.record.attempt = IF d.topic = "retry" THEN r.attempt + 1 ELSE r.attempt
<1>1. CASE role = "sink"
  BY <1>1 DEF Decisions, SinkDecision, Out, StageTopics
<1>2. CASE role # "sink"
  <2> DEFINE s == StageFor(role, r)
  <2>1. s \in Stages
    BY <1>2 DEF StageFor, Roles
  <2>2. d # InvalidContract(r)
    BY DEF InvalidContract, Out, StageTopics
  <2>3. CASE d = Forward(s, r)
    BY <2>1, <2>3, Names DEF Forward, Out
  <2>4. CASE d = RetryOrDeadLetter(s, r)
    BY <2>4 DEF RetryOrDeadLetter, Out, StageTopics
  <2> HIDE DEF s
  <2> QED
    BY <1>2, <2>2, <2>3, <2>4 DEF Decisions, StageDecisions, s
<1> QED  BY <1>1, <1>2

\* What an appended record changes: the new place is the newest of its event, the
\* records before it stay, and so do the newest places of the other events.
LEMMA AppendFacts ==
    ASSUME IInv, NEW t \in Topics, NEW r \in Record, Appended(t, r)
    PROVE  LET n == Len(log[t]) + 1 IN
           /\ n \in Nat \ {0} /\ n \notin Offsets(t)
           /\ Offsets(t)' = Offsets(t) \cup {n} /\ log'[t][n] = r
           /\ \A u \in Topics \ {t} : log'[u] = log[u] /\ Offsets(u)' = Offsets(u)
           /\ \A u \in Topics : \A i \in Offsets(u) : log'[u][i] = log[u][i]
           /\ newest'[r.event] = Place(t, n)
           /\ \A e \in Events \ {r.event} : newest'[e] = newest[e]
<1> DEFINE n == Len(log[t]) + 1
<1>1. log[t] \in Seq(Record) /\ Len(log[t]) \in Nat /\ r.event \in Events
  <2>1. log[t] \in Seq(Record)  BY DEF IInv, TypeOK
  <2>2. r.event \in Events  BY DEF Record
  <2> QED  BY <2>1, <2>2
<1>2. log'[t] = Append(log[t], r) /\ \A u \in Topics \ {t} : log'[u] = log[u]
  BY DEF IInv, TypeOK, Appended
<1>3. Len(log'[t]) = n /\ log'[t][n] = r /\ \A i \in 1 .. Len(log[t]) : log'[t][i] = log[t][i]
  BY <1>1, <1>2
<1>4. newest'[r.event] = Place(t, n) /\ \A e \in Events \ {r.event} : newest'[e] = newest[e]
  BY <1>1 DEF IInv, TypeOK, Appended
<1>5. n \in Nat \ {0} /\ n \notin Offsets(t) /\ Offsets(t)' = Offsets(t) \cup {n}
  BY <1>1, <1>3 DEF Offsets
<1>6. \A u \in Topics \ {t} : log'[u] = log[u] /\ Offsets(u)' = Offsets(u)
  BY <1>2 DEF Offsets
<1>7. \A u \in Topics : \A i \in Offsets(u) : log'[u][i] = log[u][i]
  BY <1>2, <1>3 DEF Offsets
<1> QED
  BY <1>3, <1>4, <1>5, <1>6, <1>7

\* Records carry events, and a place with a record has a newest one of its event.
LEMMA LogFacts ==
    ASSUME IInv, NEW t \in Topics, NEW i \in Offsets(t)
    PROVE  log[t][i] \in Record /\ log[t][i].event \in Events /\ newest[log[t][i].event] # Nowhere
<1>1. log[t] \in Seq(Record)
  BY DEF IInv, TypeOK
<1>2. log[t][i] \in Record
  BY <1>1 DEF Offsets
<1> QED
  BY <1>2 DEF Record, IInv, NewestIsThere

\* Without a fault the record in a worker's hand is the newest of its event.
LEMMA HandIsNewest ==
    ASSUME IInv, FaultFree, faults = 0, NEW w \in Workers, pc[w] = "inHand"
    PROVE  newest[Current(w).event] = Place(In(w), pos[w])
<1>1. RoleOf[w] \in Roles /\ pos[w] \in Offsets(In(w)) /\ In(w) = InputTopic[RoleOf[w]]
  BY HandIsRecord DEF In
<1>2. owner[RoleOf[w]] = w
  BY DEF FaultFree, FirmAssignments
<1>3. pos[w] = committed[RoleOf[w]] + 1
  BY <1>1, <1>2 DEF IInv, OwnerSkipsNothing
<1>4. ~Handled(RoleOf[w], pos[w])
  BY <1>2 DEF Handled
<1>5. pos[w] > committed[RoleOf[w]]
  BY <1>1, <1>3 DEF IInv, TypeOK
<1> QED
  BY <1>1, <1>4, <1>5 DEF FaultFree, FreshAhead, Superseded, Current

\* Assignments stay firm.
LEMMA NextFirm ==
    ASSUME IInv, IInv', FaultFree, faults = 0, faults' = 0, [Next]_vars
    PROVE  FirmAssignments'
<1> USE ConstantsAssumption, Names DEF IInv, TypeOK, FaultFree, FirmAssignments
<1>1. CASE UNCHANGED workerVars
  BY <1>1 DEF workerVars
<1>2. ASSUME NEW w \in Workers, Start(w) \/ Fetch(w) \/ Deliver(w) \/ Commit(w)
      PROVE  FirmAssignments'
  <2>1. Start(w) => FirmAssignments'
    BY DEF Start
  <2>2. Fetch(w) => FirmAssignments'
    BY DEF Fetch
  <2>3. Deliver(w) => FirmAssignments'
    BY DEF Deliver
  <2>4. Commit(w) => FirmAssignments'
    BY DEF Commit
  <2> QED  BY <1>2, <2>1, <2>2, <2>3, <2>4
<1>3. ASSUME NEW w \in Workers, Assign(w)
      PROVE  FirmAssignments'
  BY <1>3 DEF Assign, Takes
<1>4. ASSUME NEW w \in Workers, Exits(w)
      PROVE  FirmAssignments'
  BY <1>4 DEF Exits
<1>5. \A w \in Workers : ~(Revoke(w) \/ Rebalance(w) \/ CommitRefused(w) \/ CommitUncertain(w)
                            \/ DeliverFails(w) \/ Crash(w))
  BY DEF Revoke, Rebalance, CommitRefused, CommitUncertain, DeliverFails, Crash, Fault
<1> QED
  BY <1>1, <1>2, <1>3, <1>4, <1>5 DEF Next, Enter, Work, vars, workerVars, Submit, Replay, Raises

\* Records are processed once.
LEMMA NextFresh ==
    ASSUME IInv, IInv', FaultFree, faults = 0, faults' = 0, [Next]_vars
    PROVE  FreshAhead'
<1> SUFFICES ASSUME NEW r \in Roles, NEW i \in Offsets(InputTopic[r])', i > committed'[r],
                    Superseded(InputTopic[r], i)'
             PROVE  Handled(r, i)'
  BY DEF FreshAhead
<1> DEFINE t == InputTopic[r]
<1>1. t \in Topics /\ committed[r] \in Nat /\ committed'[r] \in Nat /\ i \in Nat
  BY Names DEF IInv, TypeOK, Offsets
<1>2. ASSUME UNCHANGED <<log, newest, committed>>  PROVE Handled(r, i)
  BY <1>2 DEF FaultFree, FreshAhead, Superseded, Offsets
<1>3. CASE UNCHANGED <<log, newest, committed, owner, pc, pos>>
  BY <1>2, <1>3 DEF Handled
<1>4. ASSUME NEW e \in Events, Submit(e)  PROVE Handled(r, i)'
  <2>1. RawRecord(e) \in Record /\ "raw" \in Topics /\ RawRecord(e).event = e
    BY ConstantsAssumption DEF RawRecord, Record, ErrorCodes, Topics, StageTopics
  <2>2. Appended("raw", RawRecord(e)) /\ newest[e] = Nowhere /\ UNCHANGED workerVars
    BY <1>4 DEF Submit
  <2>3. CASE i \in Offsets(t)
    <3>1. log'[t][i] = log[t][i] /\ log[t][i].event \in Events \ {e}
      BY <1>1, <2>1, <2>2, <2>3, AppendFacts, LogFacts
    <3>2. newest'[log[t][i].event] = newest[log[t][i].event]
      BY <2>1, <2>2, <3>1, AppendFacts
    <3> QED
      BY <2>2, <2>3, <3>1, <3>2 DEF workerVars, FaultFree, FreshAhead, Superseded, Handled
  <2>4. CASE i \notin Offsets(t)
    <3>1. t = "raw" /\ i = Len(log[t]) + 1 /\ log'[t][i] = RawRecord(e)
      BY <1>1, <2>1, <2>2, <2>4, AppendFacts
    <3> QED
      BY <2>1, <2>2, <3>1, AppendFacts DEF Superseded
  <2> QED  BY <2>3, <2>4
<1>5. ASSUME NEW w \in Workers, Start(w) \/ Fetch(w)  PROVE Handled(r, i)'
  <2>1. Handled(r, i)
    BY <1>2, <1>5 DEF Start, Fetch
  <2> QED
    BY <1>5, <2>1 DEF IInv, TypeOK, Start, Fetch, Handled
<1>6. ASSUME NEW w \in Workers, Assign(w)  PROVE Handled(r, i)'
  <2>1. Handled(r, i)
    BY <1>2, <1>6 DEF Assign, Takes
  <2> QED
    BY <1>6, <2>1, ConstantsAssumption, Names DEF IInv, TypeOK, Assign, Takes, Handled
<1>7. ASSUME NEW w \in Workers, Deliver(w)  PROVE Handled(r, i)'
  <2>1. PICK d \in Decisions(RoleOf[w], Current(w)) : Appended(d.topic, d.record)
    BY <1>7 DEF Deliver
  <2>2. /\ pc[w] = "inHand" /\ pc' = [pc EXCEPT ![w] = "durable"]
        /\ UNCHANGED <<committed, owner, pos, assigned, faults>>
    BY <1>7 DEF Deliver
  <2>3. /\ d.topic \in Topics /\ d.record \in Record
        /\ d.record.event = Current(w).event
    BY <2>2, HandIsRecord, DecisionsTyped
  <2>4. newest[Current(w).event] = Place(In(w), pos[w]) /\ owner[RoleOf[w]] = w
    BY <2>2, HandIsNewest DEF FaultFree, FirmAssignments
  <2>5. CASE i \notin Offsets(t)
    <3>1. t = d.topic /\ i = Len(log[t]) + 1 /\ log'[t][i] = d.record
      BY <1>1, <2>1, <2>3, <2>5, AppendFacts
    <3> QED
      BY <2>1, <2>3, <3>1, AppendFacts DEF Superseded
  <2>6. CASE i \in Offsets(t) /\ log[t][i].event # Current(w).event
    <3>1. log'[t][i] = log[t][i] /\ log[t][i].event \in Events
      BY <1>1, <2>1, <2>3, <2>6, AppendFacts, LogFacts
    <3>2. newest'[log[t][i].event] = newest[log[t][i].event]
      BY <2>1, <2>3, <2>6, <3>1, AppendFacts
    <3>3. Handled(r, i)
      BY <2>2, <2>6, <3>1, <3>2 DEF FaultFree, FreshAhead, Superseded
    <3> QED
      BY <2>2, <3>3 DEF IInv, TypeOK, Handled
  <2>7. CASE i \in Offsets(t) /\ log[t][i].event = Current(w).event /\ Place(t, i) # Place(In(w), pos[w])
    <3>1. Handled(r, i)
      BY <2>2, <2>4, <2>7 DEF FaultFree, FreshAhead, Superseded
    <3> QED
      BY <2>2, <3>1 DEF IInv, TypeOK, Handled
  <2>8. CASE Place(t, i) = Place(In(w), pos[w])
    <3>1. t = In(w) /\ i = pos[w]
      BY <2>8 DEF Place
    <3>2. r = RoleOf[w]
      BY <3>1, ConstantsAssumption DEF In, InputTopic, Roles, Stages
    <3> QED
      BY <2>2, <2>4, <3>1, <3>2 DEF IInv, TypeOK, Handled
  <2> QED  BY <2>5, <2>6, <2>7, <2>8
<1>8. ASSUME NEW w \in Workers, Raises(w)  PROVE Handled(r, i)'
  <2>1. Handled(r, i)
    BY <1>2, <1>8 DEF Raises
  <2>2. pc[w] = "inHand" /\ owner[RoleOf[w]] = w
    BY <1>8 DEF Raises, FaultFree, FirmAssignments
  <2>3. PICK v \in Workers : owner[r] = v /\ pc[v] = "durable" /\ pos[v] = i
    BY <2>1 DEF Handled
  <2>4. v # w /\ r # RoleOf[w]
    BY <2>2, <2>3
  <2>5. owner'[r] = v /\ pc'[v] = "durable" /\ pos'[v] = i
    BY <1>8, <2>3, <2>4, Names DEF Raises, Exits, IInv, TypeOK
  <2> QED  BY <2>5 DEF Handled
<1>9. ASSUME NEW w \in Workers, Commit(w)  PROVE Handled(r, i)'
  <2>1. /\ pc[w] = "durable" /\ owner[RoleOf[w]] = w /\ UNCHANGED <<log, newest, owner, pos>>
        /\ pc' = [pc EXCEPT ![w] = "idle"]
        /\ committed' = [committed EXCEPT ![RoleOf[w]] = pos[w]]
    BY <1>9 DEF Commit
  <2>2. committed[r] <= committed'[r]
    <3>1. pos[w] = committed[RoleOf[w]] + 1
      BY <2>1, Names DEF IInv, OwnerSkipsNothing
    <3> QED
      BY <2>1, <3>1, Names DEF IInv, TypeOK
  <2>3. i > committed[r]
    BY <1>1, <2>2
  <2>4. Handled(r, i)
    BY <2>1, <2>3 DEF FaultFree, FreshAhead, Superseded, Offsets
  <2>5. PICK v \in Workers : owner[r] = v /\ pc[v] = "durable" /\ pos[v] = i
    BY <2>4 DEF Handled
  <2>6. v # w
    <3> SUFFICES ASSUME v = w  PROVE FALSE
      OBVIOUS
    <3>1. r = RoleOf[w]
      BY <2>5 DEF IInv, OwnerAssigned
    <3>2. committed'[r] = i
      BY <2>1, <2>5, <3>1 DEF IInv, TypeOK
    <3> QED  BY <1>1, <3>2
  <2>7. owner'[r] = v /\ pc'[v] = "durable" /\ pos'[v] = i
    BY <2>1, <2>5, <2>6 DEF IInv, TypeOK
  <2> QED  BY <2>7 DEF Handled
<1>10. \A w \in Workers : ~(Revoke(w) \/ Rebalance(w) \/ CommitRefused(w) \/ CommitUncertain(w)
                            \/ DeliverFails(w) \/ Crash(w))
  BY DEF Revoke, Rebalance, CommitRefused, CommitUncertain, DeliverFails, Crash, Fault,
         FaultFree, FirmAssignments
<1>11. \A e \in Events : ~Replay(e)
  BY DEF Replay, Fault
<1> QED
  BY <1>3, <1>4, <1>5, <1>6, <1>7, <1>8, <1>9, <1>10, <1>11 DEF Next, Enter, Work, vars
\* What AttemptsRise says of one record of the retry topic: its attempt counts from
\* one, and the newest record of its event, if a stage is still to read it, and every
\* later retry of that event carry no lower one.
LEMMA RetryBelow ==
    ASSUME IInv, AttemptsRise, faults = 0, NEW i \in Offsets("retry")
    PROVE  LET r == log["retry"][i]
               p == newest[r.event] IN
           /\ r \in Record /\ r.event \in Events
           /\ p.topic \in Topics /\ p.at \in Offsets(p.topic)
           /\ r.attempt >= 1
           /\ p.topic \in StageTopics => r.attempt <= log[p.topic][p.at].attempt
           /\ \A j \in Offsets("retry") : LET q == log["retry"][j] IN
                 i < j /\ q.event = r.event => r.attempt < q.attempt
<1>1. "retry" \in Topics
  BY DEF Topics, StageTopics
<1> DEFINE r == log["retry"][i]
           p == newest[r.event]
<1>2. r \in Record /\ r.event \in Events /\ p # Nowhere
  BY <1>1, LogFacts, Zenon
<1>3. /\ r.attempt >= 1
      /\ p.topic \in StageTopics => r.attempt <= log[p.topic][p.at].attempt
      /\ \A j \in Offsets("retry") : LET q == log["retry"][j] IN
            i < j /\ q.event = r.event => r.attempt < q.attempt
  BY Zenon DEF AttemptsRise
<1> HIDE DEF r
<1>4. p \in [topic : Topics, at : Nat] /\ p.at \in At(p.topic, r.event)
  BY <1>2 DEF IInv, TypeOK, NewestIsThere
<1>5. p.topic \in Topics /\ p.at \in Offsets(p.topic)
  BY <1>4 DEF At
<1> QED  BY <1>2, <1>3, <1>5, Zenon DEF r

\* A retry whose event got no record in the step stays no higher than the newest one.
LEMMA RetryStaysBelow ==
    ASSUME IInv, AttemptsRise, faults = 0, NEW i \in Offsets("retry"),
           newest'[log["retry"][i].event] = newest[log["retry"][i].event],
           \A u \in Topics : \A k \in Offsets(u) : log'[u][k] = log[u][k]
    PROVE  LET p == newest'[log["retry"][i].event] IN
           p.topic \in StageTopics => log["retry"][i].attempt <= log'[p.topic][p.at].attempt
<1> DEFINE least == log["retry"][i].attempt
           p == newest[log["retry"][i].event]
<1>1. /\ p.topic \in Topics /\ p.at \in Offsets(p.topic)
      /\ p.topic \in StageTopics => least <= log[p.topic][p.at].attempt
  BY RetryBelow, Zenon
<1>2. newest'[log["retry"][i].event] = p
  OBVIOUS
<1> HIDE DEF least, p
<1>3. log'[p.topic][p.at] = log[p.topic][p.at]
  BY <1>1
<1> QED  BY <1>1, <1>2, <1>3, Zenon DEF least

\* An attempt header only rises, as long as each record is processed once.
LEMMA NextRise ==
    ASSUME IInv, IInv', FaultFree, faults = 0, faults' = 0, [Next]_vars
    PROVE  AttemptsRise'
<1>1. "retry" \in Topics /\ "retry" \in StageTopics /\ StageTopics \subseteq Topics
  BY Zenon DEF Topics, StageTopics
<1> DEFINE lr == log["retry"]
<1>0. AttemptsRise
  BY Zenon DEF FaultFree
<1>2. CASE UNCHANGED <<log, newest>>
  BY <1>0, <1>2 DEF AttemptsRise, Offsets
<1>3. ASSUME NEW t \in Topics, NEW r \in Record, Appended(t, r),
             t # "retry",
             \A i \in Offsets("retry") : lr[i].event = r.event =>
                 (t \in StageTopics => lr[i].attempt <= r.attempt)
      PROVE  AttemptsRise'
  <2>1. Offsets("retry")' = Offsets("retry") /\ log'["retry"] = lr
    BY <1>1, <1>3, AppendFacts
  <2>2. ASSUME NEW i \in Offsets("retry")
        PROVE  LET p == newest'[lr[i].event] IN
               p.topic \in StageTopics => lr[i].attempt <= log'[p.topic][p.at].attempt
    <3>1. lr[i].event \in Events /\ newest[lr[i].event] # Nowhere
      BY <1>1, LogFacts
    <3>2. CASE lr[i].event = r.event
      <4>1. newest'[lr[i].event] = Place(t, Len(log[t]) + 1) /\ log'[t][Len(log[t]) + 1] = r
        BY <1>3, <3>2, AppendFacts
      <4> QED  BY <1>3, <3>2, <4>1 DEF Place
    <3>3. CASE lr[i].event # r.event
      <4>1. newest'[lr[i].event] = newest[lr[i].event]
        BY <1>3, <3>1, <3>3, AppendFacts
      <4>2. \A u \in Topics : \A k \in Offsets(u) : log'[u][k] = log[u][k]
        BY <1>3, AppendFacts, Zenon
      <4> QED  BY <1>0, <4>1, <4>2, RetryStaysBelow, Zenon
    <3> QED  BY <3>2, <3>3, Zenon
  <2>3. ASSUME NEW i \in Offsets("retry")
        PROVE  /\ lr[i].attempt >= 1
               /\ \A j \in Offsets("retry") :
                     i < j /\ lr[j].event = lr[i].event => lr[i].attempt < lr[j].attempt
    BY <1>0, RetryBelow
  <2> HIDE DEF lr
  <2> QED
    BY <2>1, <2>2, <2>3 DEF AttemptsRise
<1>4. ASSUME NEW e \in Events, Submit(e)  PROVE AttemptsRise'
  <2>1. RawRecord(e) \in Record /\ "raw" \in Topics /\ RawRecord(e).event = e
    BY ConstantsAssumption DEF RawRecord, Record, ErrorCodes, Topics, StageTopics
  <2>2. \A i \in Offsets("retry") : lr[i].event # e
    BY <1>1, <1>4, LogFacts DEF Submit
  <2> QED
    BY <1>3, <1>4, <2>1, <2>2 DEF Submit
<1>5. ASSUME NEW w \in Workers, Deliver(w)  PROVE AttemptsRise'
  <2>1. PICK d \in Decisions(RoleOf[w], Current(w)) : Appended(d.topic, d.record)
    BY <1>5 DEF Deliver
  <2>2. pc[w] = "inHand"
    BY <1>5 DEF Deliver
  <2>3. /\ d.topic \in Topics /\ d.record \in Record
        /\ d.record.event = Current(w).event
        /\ d.topic \in StageTopics => d.record.attempt =
               IF d.topic = "retry" THEN Current(w).attempt + 1 ELSE Current(w).attempt
    BY <2>2, HandIsRecord, DecisionsTyped, DecisionAttempts
  <2>4. newest[Current(w).event] = Place(In(w), pos[w]) /\ In(w) \in StageTopics
    BY <2>2, HandIsNewest, HandIsRecord
  <2>5. Current(w).attempt \in Nat /\ \A i \in Offsets("retry") : lr[i].attempt \in Nat
    <3>1. Current(w) \in Record /\ \A i \in Offsets("retry") : lr[i] \in Record
      BY <1>1, <2>2, HandIsRecord, LogFacts
    <3> QED  BY <3>1, ConstantsAssumption DEF Record
  <2>6. \A i \in Offsets("retry") : lr[i].event = Current(w).event
                                      => lr[i].attempt <= Current(w).attempt
    <3> SUFFICES ASSUME NEW i \in Offsets("retry"), lr[i].event = Current(w).event
                 PROVE  lr[i].attempt <= Current(w).attempt
      OBVIOUS
    <3> DEFINE p == newest[lr[i].event]
    <3>1. p.topic \in StageTopics => lr[i].attempt <= log[p.topic][p.at].attempt
      BY <1>0, RetryBelow
    <3>2. p.topic = In(w) /\ p.at = pos[w] /\ In(w) \in StageTopics
      BY <2>4 DEF Place
    <3> HIDE DEF p
    <3> QED  BY <3>1, <3>2 DEF Current
  <2>7. CASE d.topic # "retry"
    BY <1>3, <2>1, <2>3, <2>6, <2>7
  <2>8. CASE d.topic = "retry"
    <3> DEFINE n == Len(lr) + 1
    <3>1. /\ n \in Nat \ {0} /\ Offsets("retry")' = Offsets("retry") \cup {n}
          /\ log'["retry"][n] = d.record
          /\ \A u \in Topics : \A i \in Offsets(u) : log'[u][i] = log[u][i]
          /\ newest'[d.record.event] = Place("retry", n)
          /\ \A e \in Events \ {d.record.event} : newest'[e] = newest[e]
      BY <2>1, <2>3, <2>8, AppendFacts
    <3>2. \A i \in Offsets("retry") : i < n
      BY <3>1 DEF Offsets, IInv, TypeOK
    <3>3. d.record.attempt = Current(w).attempt + 1 /\ d.record.attempt >= 1
      BY <1>1, <2>3, <2>5, <2>8
    <3>4. ASSUME NEW i \in Offsets("retry")
          PROVE  LET p == newest'[lr[i].event] IN
                 p.topic \in StageTopics => lr[i].attempt <= log'[p.topic][p.at].attempt
      <4>1. lr[i].event \in Events /\ newest[lr[i].event] # Nowhere
        BY <1>1, LogFacts
      <4>2. CASE lr[i].event = d.record.event
        BY <2>3, <2>5, <2>6, <3>1, <3>3, <4>2 DEF Place
      <4>3. CASE lr[i].event # d.record.event
        <5>1. newest'[lr[i].event] = newest[lr[i].event]
          BY <3>1, <4>1, <4>3
        <5>2. \A u \in Topics : \A k \in Offsets(u) : log'[u][k] = log[u][k]
          BY <3>1
        <5> QED  BY <1>0, <5>1, <5>2, RetryStaysBelow, Zenon
      <4> QED  BY <4>2, <4>3, Zenon
    <3>5. \A i \in Offsets("retry") : lr[i].event = d.record.event => lr[i].attempt < d.record.attempt
      BY <2>3, <2>5, <2>6, <3>3
    <3>6. \A i \in Offsets("retry") : log'["retry"][i] = lr[i] /\ i \in Nat
      BY <1>1, <3>1 DEF Offsets
    <3>7. ASSUME NEW i \in Offsets("retry")'
          PROVE  LET r == log'["retry"][i]
                     p == newest'[r.event] IN
                 /\ r.attempt >= 1
                 /\ p.topic \in StageTopics => r.attempt <= log'[p.topic][p.at].attempt
                 /\ \A j \in Offsets("retry")' : LET q == log'["retry"][j] IN
                       i < j /\ q.event = r.event => r.attempt < q.attempt
      <4>1. CASE i \in Offsets("retry")
        <5>1. /\ lr[i].attempt >= 1
              /\ \A j \in Offsets("retry") :
                    i < j /\ lr[j].event = lr[i].event => lr[i].attempt < lr[j].attempt
          BY <1>0, <4>1, RetryBelow
        <5>2. \A j \in Offsets("retry")' : j \in Offsets("retry") \/ j = n
          BY <3>1
        <5>3. log'["retry"][i] = lr[i]
          BY <3>6, <4>1
        <5>4. ASSUME NEW j \in Offsets("retry")',
                     i < j, log'["retry"][j].event = lr[i].event
              PROVE  lr[i].attempt < log'["retry"][j].attempt
          <6>1. CASE j = n
            BY <3>1, <3>5, <4>1, <5>4, <6>1
          <6>2. CASE j \in Offsets("retry")
            BY <3>6, <5>1, <5>4, <6>2
          <6> QED  BY <5>2, <6>1, <6>2
        <5> HIDE DEF lr
        <5> QED  BY <3>4, <4>1, <5>1, <5>3, <5>4, Zenon
      <4>2. CASE i = n
        <5>1. d.record.attempt \in Nat
          BY <2>5, <3>3
        <5>2. ASSUME NEW j \in Offsets("retry")'  PROVE ~(n < j)
          BY <1>1, <3>1, <3>2, <3>6, <5>2
        <5>3. log'["retry"][i] = d.record
          BY <3>1, <4>2
        <5>4. newest'[d.record.event] = Place("retry", i)
          BY <3>1, <4>2
        <5>5. newest'[d.record.event].topic = "retry" /\ newest'[d.record.event].at = i
          BY <5>4 DEF Place
        <5>6. log'["retry"][i].attempt >= 1
          BY <3>3, <5>3
        <5>7. LET p == newest'[log'["retry"][i].event] IN
              log'["retry"][i].attempt <= log'[p.topic][p.at].attempt
          BY <5>1, <5>3, <5>5
        <5>8. \A j \in Offsets("retry")' : ~(i < j)
          BY <4>2, <5>2
        <5> QED  BY <5>6, <5>7, <5>8, Zenon
      <4> QED  BY <3>1, <4>1, <4>2, Zenon
    <3> QED
      BY <3>7, Zenon DEF AttemptsRise
  <2> QED  BY <2>7, <2>8
<1>6. \A w \in Workers : ~DeliverFails(w)
  BY DEF DeliverFails, Fault
<1>7. \A e \in Events : ~Replay(e)
  BY DEF Replay, Fault
<1> QED
  BY <1>2, <1>4, <1>5, <1>6, <1>7 DEF Next, Enter, Work, vars, Start, Assign, Rebalance, Takes, Revoke,
     Crash, Fetch, Raises, Commit, CommitRefused, CommitUncertain

\* Without a fault every record is processed once, under an assignment that holds.
LEMMA FaultFreeHolds == Spec => []FaultFree
<1>1. Init => FaultFree
  BY Names DEF Init, FaultFree, FirmAssignments, FreshAhead, AttemptsRise, Offsets, Topics,
     StageTopics
<1>2. IInv /\ IInv' /\ FaultFree /\ [Next]_vars => FaultFree'
  <2> SUFFICES ASSUME IInv, IInv', FaultFree, [Next]_vars  PROVE FaultFree'
    OBVIOUS
  <2>1. faults \in Nat /\ faults' \in Nat
    BY DEF IInv, TypeOK
  <2>2. CASE faults' # 0
    BY <2>2 DEF FaultFree, FirmAssignments, FreshAhead, AttemptsRise
  <2>3. CASE faults' = 0
    <3>1. faults = 0
      BY <2>1, <2>3 DEF Next, Enter, Work, vars, Submit, Replay, Start, Assign, Rebalance, Revoke, Crash,
         Fetch, Deliver, DeliverFails, Raises, Commit, CommitRefused, CommitUncertain, Fault
    <3> QED
      BY <2>3, <3>1, NextFirm, NextFresh, NextRise DEF FaultFree
  <2> QED  BY <2>2, <2>3
<1> QED
  BY <1>1, <1>2, Invariant, PTL DEF Spec

\* One attempt budget covers both stages: without a fault at most MaxAttempts
\* records of an event ever enter the retry topic, each with an attempt of its own.
THEOREM OneBudget == Spec => []RetryBudgetShared
<1>1. IInv /\ FaultFree => RetryBudgetShared
  <2> SUFFICES ASSUME IInv, FaultFree, faults = 0, NEW e \in Events
               PROVE  Cardinality(At("retry", e)) <= MaxAttempts
    BY DEF RetryBudgetShared
  <2> DEFINE f == [i \in At("retry", e) |-> log["retry"][i].attempt]
  <2>1. "retry" \in Topics
    BY DEF Topics, StageTopics
  <2>2. \A i \in At("retry", e) :
            /\ i \in Nat /\ i \in Offsets("retry") /\ log["retry"][i].event = e
            /\ log["retry"][i].attempt \in 1 .. MaxAttempts
    <3> SUFFICES ASSUME NEW i \in At("retry", e)
                 PROVE  /\ i \in Nat /\ i \in Offsets("retry") /\ log["retry"][i].event = e
                        /\ log["retry"][i].attempt \in 1 .. MaxAttempts
      OBVIOUS
    <3>1. i \in Nat /\ i \in Offsets("retry") /\ log["retry"][i].event = e
      BY DEF At, Offsets
    <3>2. log["retry"][i].attempt >= 1
      BY <3>1, Zenon DEF FaultFree, AttemptsRise
    <3>3. log["retry"][i].attempt \in 0 .. MaxAttempts
      BY <2>1, <3>1, LogFacts, Zenon DEF Record
    <3> QED  BY <3>1, <3>2, <3>3, ConstantsAssumption
  <2>3. \A i, j \in At("retry", e) : i < j => f[i] < f[j]
    BY <2>2 DEF FaultFree, AttemptsRise
  <2>4. f \in Injection(At("retry", e), 1 .. MaxAttempts)
    <3>1. f \in [At("retry", e) -> 1 .. MaxAttempts]
      BY <2>2
    <3>2. ASSUME NEW i \in At("retry", e), NEW j \in At("retry", e), f[i] = f[j]
          PROVE  i = j
      BY <2>2, <2>3, <3>2
    <3> QED  BY <3>1, <3>2 DEF Injection, IsInjective
  <2>5. IsFiniteSet(1 .. MaxAttempts) /\ Cardinality(1 .. MaxAttempts) = MaxAttempts
    BY FS_Interval, ConstantsAssumption
  <2> QED
    BY <2>4, <2>5, FS_Injection
<1> QED
  BY <1>1, Invariant, FaultFreeHolds, PTL
(***************************************************************************)
(* The account of duplicates: tokens come with faults.                     *)
(***************************************************************************)
\* The tokens of e after a step, from the records it adds to e's, the records it
\* makes a group process again and the workers it leaves behind: all must be in
\* Y, and what the step uses up in X.
LEMMA TokensStep ==
    ASSUME NEW e, NEW X, NEW Y,
           \A t \in Topics : \A i \in At(t, e)' : i \in At(t, e) \/ <<t, i>> \in Y,
           \A t \in Resting : \A i : <<t, i>> \notin X,
           \A r \in Roles : \A i \in At(InputTopic[r], e) : Awaited(r, i)' =>
               \/ Awaited(r, i) /\ <<InputTopic[r], i>> \notin X
               \/ <<InputTopic[r], i>> \in Y,
           \A w \in Workers : MayTake(w, e)' =>
               \/ MayTake(w, e) /\ <<"hand", w>> \notin X
               \/ <<"hand", w>> \in Y
    PROVE  Tokens(e)' \subseteq (Tokens(e) \ X) \cup Y
<1> SUFFICES ASSUME NEW x \in Tokens(e)', x \notin Y
             PROVE  x \in Tokens(e) \ X
  OBVIOUS
<1>1. CASE x \in Copies(e)'
  <2>1. PICK t \in Resting : \E i \in At(t, e)' : x = <<t, i>>
    BY <1>1 DEF Copies
  <2> PICK i \in At(t, e)' : x = <<t, i>>
    BY <2>1
  <2>2. i \in At(t, e) /\ x \notin X
    BY <2>1, Names
  <2> QED  BY <2>1, <2>2 DEF Tokens, Copies
<1>2. CASE x \in Pending(e)'
  <2>1. PICK r \in Roles : x \in {InputTopic[r]} \X
                                   {i \in At(InputTopic[r], e)' : Awaited(r, i)'}
    BY <1>2 DEF Pending
  <2>2. PICK i \in At(InputTopic[r], e)' : Awaited(r, i)' /\ x = <<InputTopic[r], i>>
    BY <2>1
  <2>3. i \in At(InputTopic[r], e)
    BY <2>2, Names
  <2>4. Awaited(r, i) /\ x \notin X
    BY <2>2, <2>3
  <2>5. x \in {InputTopic[r]} \X {j \in At(InputTopic[r], e) : Awaited(r, j)}
    BY <2>2, <2>3, <2>4
  <2> QED  BY <2>4, <2>5 DEF Tokens, Pending
<1>3. CASE x \in Stray(e)'
  <2>1. PICK w \in Workers : x = <<"hand", w>> /\ MayTake(w, e)'
    BY <1>3 DEF Stray
  <2>2. MayTake(w, e) /\ x \notin X
    BY <2>1
  <2> QED  BY <2>1, <2>2 DEF Tokens, Stray
<1> QED
  BY <1>1, <1>2, <1>3 DEF Tokens

\* Where the records of an event are after an append, and what is in hand.
LEMMA AppendAt ==
    ASSUME IInv, NEW t \in Topics, NEW r \in Record, Appended(t, r), NEW e \in Events
    PROVE  /\ \A u \in Topics : \A i \in At(u, e)' :
                  i \in At(u, e) \/ (r.event = e /\ <<u, i>> = <<t, Len(log[t]) + 1>>)
           /\ \A v \in Workers : pc[v] = "inHand" /\ pos'[v] = pos[v] => Current(v)' = Current(v)
           /\ newest[e] # Nowhere => newest'[e] # Nowhere
           /\ newest'[r.event] # Nowhere
<1>1. /\ \A u \in Topics \ {t} : log'[u] = log[u] /\ Offsets(u)' = Offsets(u)
      /\ Offsets(t)' = Offsets(t) \cup {Len(log[t]) + 1} /\ log'[t][Len(log[t]) + 1] = r
      /\ \A u \in Topics : \A i \in Offsets(u) : log'[u][i] = log[u][i]
      /\ newest'[r.event] = Place(t, Len(log[t]) + 1) /\ Len(log[t]) + 1 # 0
      /\ \A f \in Events \ {r.event} : newest'[f] = newest[f]
  BY AppendFacts
<1>2. \A u \in Topics : \A i \in At(u, e)' :
          i \in At(u, e) \/ (r.event = e /\ <<u, i>> = <<t, Len(log[t]) + 1>>)
  BY <1>1 DEF At
<1>3. ASSUME NEW v \in Workers, pc[v] = "inHand", pos'[v] = pos[v]
      PROVE  Current(v)' = Current(v)
  BY <1>1, <1>3, HandIsRecord DEF Current, In
<1> QED
  BY <1>1, <1>2, <1>3 DEF Nowhere, Place

\* The topics tell the roles apart.
LEMMA InputsDiffer ==
    /\ \A r, s \in Roles : InputTopic[r] = InputTopic[s] => r = s
    /\ \A r \in Roles : InputTopic[r] \notin Resting
    /\ "hand" \notin Topics
  BY DEF InputTopic, Roles, Stages, Topics, Resting, StageTopics

\* How a step accounts for the tokens of e: a fault pays for one, the first
\* submission brings one, a delivery turns one into another, all else keeps them.
Spends(e) == faults' = faults + 1 /\ \E y : Tokens(e)' \subseteq Tokens(e) \cup {y}

Begins(e) ==
    /\ faults' = faults /\ newest[e] = Nowhere /\ newest'[e] # Nowhere
    /\ \E y : Tokens(e)' \subseteq Tokens(e) \cup {y}

Turns(e) ==
    faults' = faults /\ \E x \in Tokens(e) : \E y : Tokens(e)' \subseteq (Tokens(e) \ {x}) \cup {y}

Keeps(e) == faults' = faults /\ Tokens(e)' \subseteq Tokens(e)

Accounted(e) == Spends(e) \/ Begins(e) \/ Turns(e) \/ Keeps(e)

\* What a step does to the log of e's records, as TokensStep wants it.
LogStep(e, Y) ==
    /\ \A t \in Topics : \A i \in At(t, e)' : i \in At(t, e) \/ <<t, i>> \in Y
    /\ \A v \in Workers : pc[v] = "inHand" /\ pos'[v] = pos[v] => Current(v)' = Current(v)

LEMMA LogKept ==
    ASSUME UNCHANGED log, NEW e, NEW Y
    PROVE  LogStep(e, Y)
  BY DEF LogStep, At, Offsets, Current, In

\* The other workers notice nothing of a step of w.
OnlyWorker(w) ==
    \A v \in Workers \ {w} :
        /\ UNCHANGED <<pc[v], pos[v], assigned[v]>>
        /\ \A r \in Roles : owner'[r] = v <=> owner[r] = v

\* When only w steps, the records awaited afresh are those whose output w had
\* written, and the stray workers are those from before and perhaps w.
LEMMA WorkerStep ==
    ASSUME IInv, NEW w \in Workers, OnlyWorker(w), NEW e, NEW Y, LogStep(e, Y),
           \A r \in Roles : committed'[r] >= committed[r],
           owner[RoleOf[w]] = w /\ pc[w] = "durable" =>
               \/ owner'[RoleOf[w]] = w /\ pc'[w] = "durable" /\ pos'[w] = pos[w]
               \/ committed'[RoleOf[w]] >= pos[w]
               \/ <<In(w), pos[w]>> \in Y,
           MayTake(w, e)' => MayTake(w, e) \/ <<"hand", w>> \in Y,
           committed' \in [Roles -> Nat]
    PROVE  Tokens(e)' \subseteq Tokens(e) \cup Y
<1>1. ASSUME NEW r \in Roles, NEW i \in At(InputTopic[r], e), Awaited(r, i)'
      PROVE  Awaited(r, i) \/ <<InputTopic[r], i>> \in Y
  <2>1. i \in Nat /\ committed[r] \in Nat /\ committed'[r] \in Nat
    BY DEF At, Offsets, IInv, TypeOK
  <2>2. i > committed[r] /\ i > committed'[r] /\ ~Handled(r, i)'
    BY <1>1, <2>1 DEF Awaited
  <2>3. ASSUME Handled(r, i)  PROVE <<InputTopic[r], i>> \in Y
    <3>1. PICK v \in Workers : owner[r] = v /\ pc[v] = "durable" /\ pos[v] = i
      BY <2>3 DEF Handled
    <3>2. v = w
      BY <2>2, <3>1 DEF Handled, OnlyWorker
    <3>3. RoleOf[w] = r
      BY <3>1, <3>2 DEF IInv, OwnerAssigned
    <3>4. ~(owner'[r] = w /\ pc'[w] = "durable" /\ pos'[w] = i)
      BY <2>2 DEF Handled
    <3>5. ~(committed'[r] >= i)
      BY <2>1, <2>2
    <3> QED  BY <3>1, <3>2, <3>3, <3>4, <3>5 DEF In
  <2> QED  BY <2>2, <2>3 DEF Awaited
<1>2. ASSUME NEW v \in Workers, MayTake(v, e)'
      PROVE  MayTake(v, e) \/ <<"hand", v>> \in Y
  <2>1. CASE v = w
    BY <1>2, <2>1
  <2>2. CASE v # w
    <3>1. /\ pc'[v] = pc[v] /\ pos'[v] = pos[v] /\ assigned'[v] = assigned[v]
          /\ owner'[RoleOf[v]] = v <=> owner[RoleOf[v]] = v
      BY <2>2, Names DEF OnlyWorker
    <3>2. pc[v] = "inHand" => Current(v)' = Current(v)
      BY <3>1 DEF LogStep
    <3> QED  BY <1>2, <3>1, <3>2 DEF MayTake
  <2> QED  BY <2>1, <2>2
<1>3. Tokens(e)' \subseteq (Tokens(e) \ {}) \cup Y
  <2> DEFINE X == {}
  <2>1. /\ \A t \in Topics : \A i \in At(t, e)' : i \in At(t, e) \/ <<t, i>> \in Y
        /\ \A t \in Resting : \A i : <<t, i>> \notin X
        /\ \A r \in Roles : \A i \in At(InputTopic[r], e) : Awaited(r, i)' =>
               \/ Awaited(r, i) /\ <<InputTopic[r], i>> \notin X
               \/ <<InputTopic[r], i>> \in Y
        /\ \A v \in Workers : MayTake(v, e)' =>
               \/ MayTake(v, e) /\ <<"hand", v>> \notin X
               \/ <<"hand", v>> \in Y
    BY <1>1, <1>2 DEF LogStep
  <2> HIDE DEF X
  <2>2. Tokens(e)' \subseteq (Tokens(e) \ X) \cup Y
    BY <2>1, TokensStep
  <2> QED  BY <2>2 DEF X
<1> QED  BY <1>3

\* A worker that ends leaves its own assignment and nothing else.
LEMMA ExitAlone ==
    ASSUME IInv, NEW w \in Workers, Exits(w)
    PROVE  /\ OnlyWorker(w) /\ pos' = pos
           /\ pc'[w] = "down" /\ \A e : ~MayTake(w, e)'
<1>1. pos' = pos /\ pc'[w] = "down" /\ \A v \in Workers \ {w} : pc'[v] = pc[v] /\ assigned'[v] = assigned[v]
  BY DEF Exits, IInv, TypeOK
<1>2. \A r \in Roles : \A v \in Workers \ {w} : owner'[r] = v <=> owner[r] = v
  BY ConstantsAssumption, Names DEF Exits, IInv, TypeOK
<1> QED
  BY <1>1, <1>2 DEF OnlyWorker, MayTake

\* A record that some role decided on keeps its event.
LEMMA DecisionFacts ==
    ASSUME IInv, NEW w \in Workers, pc[w] = "inHand",
           NEW d \in Decisions(RoleOf[w], Current(w))
    PROVE  d.topic \in Topics /\ d.record \in Record /\ d.record.event = Current(w).event
  BY HandIsRecord, DecisionsTyped

\* A submission begins the account of its event; a replay is a fault.
LEMMA SubmitAccounted ==
    ASSUME IInv, NEW f \in Events, Appended("raw", RawRecord(f)), UNCHANGED workerVars,
           NEW e \in Events
    PROVE  /\ \E y : Tokens(e)' \subseteq Tokens(e) \cup {y}
           /\ e # f => Tokens(e)' \subseteq Tokens(e)
           /\ newest'[f] # Nowhere
<1>1. RawRecord(f) \in Record /\ "raw" \in Topics /\ RawRecord(f).event = f
  BY ConstantsAssumption DEF RawRecord, Record, ErrorCodes, Topics, StageTopics
<1> DEFINE y == <<"raw", Len(log["raw"]) + 1>>
<1>2. /\ \A Y : (e = f => y \in Y) => LogStep(e, Y)
      /\ newest'[f] # Nowhere
  BY <1>1, AppendAt DEF LogStep, workerVars
<1>3. ASSUME NEW Y, e = f => y \in Y
      PROVE  Tokens(e)' \subseteq Tokens(e) \cup Y
  <2>1. LogStep(e, Y)
    BY <1>2, <1>3
  <2>2. \A r \in Roles : \A i \in At(InputTopic[r], e) : Awaited(r, i)' => Awaited(r, i)
    BY DEF Awaited, Handled, workerVars
  <2>3. \A v \in Workers : MayTake(v, e)' => MayTake(v, e)
    <3> SUFFICES ASSUME NEW v \in Workers, MayTake(v, e)'  PROVE MayTake(v, e)
      OBVIOUS
    <3>1. pc[v] = "inHand" => Current(v)' = Current(v)
      BY <2>1 DEF LogStep, workerVars
    <3> QED  BY <3>1 DEF MayTake, workerVars
  <2> DEFINE X == {}
  <2>4. /\ \A t \in Topics : \A i \in At(t, e)' : i \in At(t, e) \/ <<t, i>> \in Y
        /\ \A t \in Resting : \A i : <<t, i>> \notin X
        /\ \A r \in Roles : \A i \in At(InputTopic[r], e) : Awaited(r, i)' =>
               \/ Awaited(r, i) /\ <<InputTopic[r], i>> \notin X
               \/ <<InputTopic[r], i>> \in Y
        /\ \A v \in Workers : MayTake(v, e)' =>
               \/ MayTake(v, e) /\ <<"hand", v>> \notin X
               \/ <<"hand", v>> \in Y
    BY <2>1, <2>2, <2>3 DEF LogStep
  <2> HIDE DEF X
  <2>5. Tokens(e)' \subseteq (Tokens(e) \ X) \cup Y
    BY <2>4, TokensStep
  <2> QED  BY <2>5 DEF X
<1>4. Tokens(e)' \subseteq Tokens(e) \cup {y}
  BY <1>3
<1>5. e # f => Tokens(e)' \subseteq Tokens(e)
  <2>1. e # f => Tokens(e)' \subseteq Tokens(e) \cup {}
    BY <1>3
  <2> QED  BY <2>1
<1> QED  BY <1>2, <1>4, <1>5

\* A worker that starts, is assigned a free partition, learns that it was
\* superseded or takes the next record keeps every account.
LEMMA PollKeeps ==
    ASSUME IInv, IInv', ExitsLetGo, NEW w \in Workers,
           Start(w) \/ Assign(w) \/ Revoke(w) \/ Fetch(w), NEW e \in Events
    PROVE  Keeps(e)
<1>1. UNCHANGED <<log, committed, faults>>
  BY DEF Start, Assign, Takes, Revoke, Fetch
<1>2. OnlyWorker(w)
  <2>1. CASE Start(w) \/ Revoke(w) \/ Fetch(w)
    BY <2>1 DEF OnlyWorker, Start, Revoke, Fetch, IInv, TypeOK
  <2>2. CASE Assign(w)
    BY <2>2, ConstantsAssumption, Names DEF OnlyWorker, Assign, Takes, IInv, TypeOK
  <2> QED  BY <2>1, <2>2
<1>3. MayTake(w, e)' => MayTake(w, e)
  <2>1. CASE Start(w)
    BY <2>1 DEF Start, MayTake, ExitsLetGo, IInv, TypeOK
  <2>2. CASE Assign(w)
    BY <2>2, Names DEF Assign, Takes, MayTake, IInv, TypeOK
  <2>3. CASE Revoke(w)
    BY <2>3 DEF Revoke, MayTake, IInv, TypeOK
  <2>4. CASE Fetch(w)
    BY <2>4 DEF Fetch, MayTake, IInv, TypeOK
  <2> QED  BY <2>1, <2>2, <2>3, <2>4
<1>4. ~(owner[RoleOf[w]] = w /\ pc[w] = "durable")
  BY DEF Start, Assign, Takes, Revoke, Fetch
<1>5. \A r \in Roles : committed'[r] >= committed[r]
  BY <1>1 DEF IInv, TypeOK
<1>6. LogStep(e, {})
  BY <1>1, LogKept
<1>7. committed' \in [Roles -> Nat]
  BY DEF IInv, TypeOK
<1>8. Tokens(e)' \subseteq Tokens(e) \cup {}
  BY <1>2, <1>3, <1>4, <1>5, <1>6, <1>7, WorkerStep
<1> QED
  BY <1>1, <1>8 DEF Keeps

\* What the owner of a partition has written out is one past the committed offset.
LEMMA OwnersPlace ==
    ASSUME IInv, NEW w \in Workers, owner[RoleOf[w]] = w, pc[w] \in {"inHand", "durable"}
    PROVE  pos[w] = committed[RoleOf[w]] + 1 /\ pos[w] > committed[RoleOf[w]] /\ pos[w] \in Nat
<1>1. pos[w] = committed[RoleOf[w]] + 1
  BY Names DEF IInv, OwnerSkipsNothing
<1> QED
  BY <1>1, Names DEF IInv, TypeOK

\* A commit keeps every account: what it commits had its output written.
LEMMA CommitKeeps ==
    ASSUME IInv, IInv', NEW w \in Workers, Commit(w), NEW e \in Events
    PROVE  Keeps(e)
<1>1. UNCHANGED <<log, owner, pos, assigned, faults>> /\ committed'[RoleOf[w]] = pos[w]
  BY Names DEF Commit, IInv, TypeOK
<1>2. OnlyWorker(w)
  BY <1>1 DEF OnlyWorker, Commit, IInv, TypeOK
<1>3. ~MayTake(w, e)'
  BY DEF MayTake, Commit
<1>4. \A r \in Roles : committed'[r] >= committed[r]
  BY OwnersPlace DEF Commit, IInv, TypeOK
<1>5. LogStep(e, {})
  BY <1>1, LogKept
<1>6. committed' \in [Roles -> Nat] /\ pos[w] \in Nat
  BY DEF IInv, TypeOK
<1>7. committed'[RoleOf[w]] >= pos[w]
  BY <1>1, <1>6
<1>8. Tokens(e)' \subseteq Tokens(e) \cup {}
  BY <1>2, <1>3, <1>4, <1>5, <1>6, <1>7, WorkerStep
<1> QED
  BY <1>1, <1>8 DEF Keeps

\* A worker that raises, or whose commit is refused, leaves its record to the group.
LEMMA ExitKeeps ==
    ASSUME IInv, IInv', NEW w \in Workers, Raises(w) \/ CommitRefused(w), NEW e \in Events
    PROVE  Keeps(e)
<1>1. UNCHANGED <<log, committed, faults>> /\ Exits(w)
  BY DEF Raises, CommitRefused
<1>2. OnlyWorker(w) /\ ~MayTake(w, e)'
  BY <1>1, ExitAlone
<1>3. ~(owner[RoleOf[w]] = w /\ pc[w] = "durable")
  BY DEF Raises, CommitRefused
<1>4. \A r \in Roles : committed'[r] >= committed[r]
  BY <1>1 DEF IInv, TypeOK
<1>5. LogStep(e, {})
  BY <1>1, LogKept
<1>6. committed' \in [Roles -> Nat]
  BY DEF IInv, TypeOK
<1>7. Tokens(e)' \subseteq Tokens(e) \cup {}
  BY <1>2, <1>3, <1>4, <1>5, <1>6, WorkerStep
<1> QED
  BY <1>1, <1>7 DEF Keeps

\* A crash costs at most a second copy of the output its worker had written.
LEMMA CrashSpends ==
    ASSUME IInv, IInv', NEW w \in Workers, Crash(w) \/ CommitUncertain(w), NEW e \in Events
    PROVE  Spends(e)
<1> DEFINE y == <<In(w), pos[w]>>
<1>1. log' = log /\ faults' = faults + 1 /\ Exits(w)
  BY DEF Crash, CommitUncertain, Fault
<1>2. OnlyWorker(w) /\ ~MayTake(w, e)'
  BY <1>1, ExitAlone
<1>3. \A r \in Roles : committed'[r] >= committed[r]
  <2>1. CASE Crash(w)
    BY <2>1 DEF Crash, IInv, TypeOK
  <2>2. CASE CommitUncertain(w)
    BY <2>2, OwnersPlace DEF CommitUncertain, IInv, TypeOK
  <2> QED  BY <2>1, <2>2
<1>4. LogStep(e, {y})
  BY <1>1, LogKept
<1>5. committed' \in [Roles -> Nat]
  BY DEF IInv, TypeOK
<1>6. Tokens(e)' \subseteq Tokens(e) \cup {y}
  BY <1>2, <1>3, <1>4, <1>5, WorkerStep
<1> QED
  BY <1>1, <1>6 DEF Spends

\* A delivery of unknown outcome costs at most the copy it may have left.
LEMMA DeliverFailsSpends ==
    ASSUME IInv, IInv', NEW w \in Workers, DeliverFails(w), NEW e \in Events
    PROVE  Spends(e)
<1>1. /\ pc[w] = "inHand" /\ faults' = faults + 1 /\ Exits(w) /\ committed' = committed
      /\ \E d \in Decisions(RoleOf[w], Current(w)) :
             Appended(d.topic, d.record) \/ UNCHANGED <<log, newest>>
  BY DEF DeliverFails, Fault
<1>2. OnlyWorker(w) /\ ~MayTake(w, e)'
  BY <1>1, ExitAlone
<1>3. PICK y : LogStep(e, {y})
  <2>1. PICK d \in Decisions(RoleOf[w], Current(w)) :
             Appended(d.topic, d.record) \/ UNCHANGED <<log, newest>>
    BY <1>1
  <2> DEFINE y == <<d.topic, Len(log[d.topic]) + 1>>
  <2>2. d.topic \in Topics /\ d.record \in Record
    BY <1>1, DecisionFacts
  <2>3. CASE Appended(d.topic, d.record)
    <3>1. LogStep(e, {y})
      BY <2>2, <2>3, AppendAt DEF LogStep
    <3> QED  BY <3>1
  <2>4. CASE UNCHANGED <<log, newest>>
    <3>1. LogStep(e, {y})
      BY <2>4, LogKept
    <3> QED  BY <3>1
  <2> QED  BY <2>1, <2>3, <2>4
<1>4. (\A r \in Roles : committed'[r] >= committed[r]) /\ committed' \in [Roles -> Nat]
  <2>1. committed' = committed
    BY <1>1, Zenon
  <2> QED  BY <2>1 DEF IInv, TypeOK
<1>5. ~(owner[RoleOf[w]] = w /\ pc[w] = "durable")
  BY <1>1, Zenon
<1>6. Tokens(e)' \subseteq Tokens(e) \cup {y}
  BY <1>2, <1>3, <1>4, <1>5, WorkerStep
<1> QED
  BY <1>1, <1>6 DEF Spends

\* A rebalance costs at most one more copy of what the old owner has, or may take.
LEMMA RebalanceSpends ==
    ASSUME IInv, IInv', NEW w \in Workers, Rebalance(w), NEW e \in Events
    PROVE  Spends(e)
<1> DEFINE v == owner[RoleOf[w]]
           y == IF pc[v] = "durable" THEN <<In(v), pos[v]>> ELSE <<"hand", v>>
<1>1. /\ UNCHANGED <<log, committed, pc>> /\ faults' = faults + 1
      /\ pc[w] = "idle" /\ ~assigned[w] /\ RoleOf[w] \in Roles
      /\ owner'[RoleOf[w]] = w /\ \A r \in Roles \ {RoleOf[w]} : owner'[r] = owner[r]
      /\ \A u \in Workers \ {w} : pos'[u] = pos[u] /\ assigned'[u] = assigned[u]
  BY Names DEF Rebalance, Takes, Fault, IInv, TypeOK
<1>2. v \in Workers /\ RoleOf[v] = RoleOf[w] /\ v # w
  BY <1>1 DEF Rebalance, IInv, TypeOK, OwnerAssigned
<1>3. ASSUME NEW r \in Roles, NEW i \in At(InputTopic[r], e), Awaited(r, i)'
      PROVE  Awaited(r, i) \/ <<InputTopic[r], i>> = y
  <2>1. i > committed[r] /\ ~Handled(r, i)'
    BY <1>1, <1>3 DEF Awaited
  <2>2. ASSUME Handled(r, i)  PROVE <<InputTopic[r], i>> = y
    <3>1. PICK u \in Workers : owner[r] = u /\ pc[u] = "durable" /\ pos[u] = i
      BY <2>2 DEF Handled
    <3>2. r = RoleOf[w]
      BY <1>1, <2>1, <3>1 DEF Handled
    <3> QED  BY <1>2, <3>1, <3>2 DEF In
  <2> QED  BY <2>1, <2>2 DEF Awaited
<1>4. ASSUME NEW u \in Workers, MayTake(u, e)'
      PROVE  MayTake(u, e) \/ <<"hand", u>> = y
  <2>1. u # w
    BY <1>1, <1>4 DEF MayTake
  <2>2. CASE u = v
    BY <1>1, <1>4, <2>2 DEF MayTake
  <2>3. CASE u # v
    <3>1. owner[RoleOf[u]] # u
      BY <1>1, <1>4, <2>1, <2>3, Names DEF MayTake
    <3>2. pc[u] = "inHand" => Current(u)' = Current(u)
      BY <1>1, <2>1 DEF Current, In
    <3> QED  BY <1>1, <1>4, <2>1, <3>1, <3>2 DEF MayTake
  <2> QED  BY <2>2, <2>3
<1>5. \A t \in Topics : \A i \in At(t, e)' : i \in At(t, e)
  BY <1>1 DEF At, Offsets
<1> DEFINE X == {}
<1> HIDE DEF y, v, X
<1>6. Tokens(e)' \subseteq (Tokens(e) \ X) \cup {y}
  <2>1. \A t \in Resting : \A i : <<t, i>> \notin X
    BY DEF X
  <2>2. /\ \A t \in Topics : \A i \in At(t, e)' : i \in At(t, e) \/ <<t, i>> \in {y}
        /\ \A r \in Roles : \A i \in At(InputTopic[r], e) : Awaited(r, i)' =>
               \/ Awaited(r, i) /\ <<InputTopic[r], i>> \notin X
               \/ <<InputTopic[r], i>> \in {y}
        /\ \A u \in Workers : MayTake(u, e)' =>
               \/ MayTake(u, e) /\ <<"hand", u>> \notin X
               \/ <<"hand", u>> \in {y}
    BY <1>3, <1>4, <1>5 DEF X
  <2> QED  BY <2>1, <2>2, TokensStep
<1> QED
  BY <1>1, <1>6 DEF Spends, X

\* A delivery turns one token of its event into another: the record awaited, or the
\* stray worker, into the output.
LEMMA DeliverTurns ==
    ASSUME IInv, IInv', NEW w \in Workers, Deliver(w), NEW e \in Events
    PROVE  Turns(e) \/ Keeps(e)
<1>1. /\ pc[w] = "inHand" /\ UNCHANGED <<committed, owner, pos, assigned, faults>>
      /\ pc'[w] = "durable" /\ \A v \in Workers \ {w} : pc'[v] = pc[v]
  BY DEF Deliver, IInv, TypeOK
<1>2. PICK d \in Decisions(RoleOf[w], Current(w)) : Appended(d.topic, d.record)
  BY DEF Deliver
<1>3. d.topic \in Topics /\ d.record \in Record /\ d.record.event = Current(w).event
  BY <1>1, DecisionFacts
<1>4. /\ RoleOf[w] \in Roles /\ In(w) = InputTopic[RoleOf[w]] /\ In(w) \notin Resting
      /\ pos[w] \in Offsets(In(w))
  BY <1>1, HandIsRecord, InputsDiffer, Names DEF In
<1> DEFINE x == IF owner[RoleOf[w]] = w THEN <<In(w), pos[w]>> ELSE <<"hand", w>>
           y == <<d.topic, Len(log[d.topic]) + 1>>
<1>5. ASSUME NEW r \in Roles, NEW i \in At(InputTopic[r], e), Awaited(r, i)'
      PROVE  Awaited(r, i) /\ <<InputTopic[r], i>> # x
  <2>1. i > committed[r] /\ ~Handled(r, i)'
    BY <1>1, <1>5 DEF Awaited
  <2>2. ~Handled(r, i)
    BY <1>1, <2>1 DEF Handled
  <2>3. <<InputTopic[r], i>> # x
    <3>1. CASE owner[RoleOf[w]] = w
      <4>1. ~(r = RoleOf[w] /\ i = pos[w])
        BY <1>1, <2>1, <3>1 DEF Handled
      <4> QED  BY <1>4, <3>1, <4>1, InputsDiffer
    <3>2. CASE owner[RoleOf[w]] # w
      BY <3>2, InputsDiffer, Names
    <3> QED  BY <3>1, <3>2
  <2> QED  BY <2>1, <2>2, <2>3 DEF Awaited
<1>6. ASSUME NEW v \in Workers, MayTake(v, e)'
      PROVE  MayTake(v, e) /\ <<"hand", v>> # x
  <2>1. v # w
    BY <1>1, <1>6 DEF MayTake
  <2>2. pc[v] = "inHand" => Current(v)' = Current(v)
    BY <1>1, <1>2, <1>3, AppendAt
  <2>3. MayTake(v, e)
    BY <1>1, <1>6, <2>1, <2>2 DEF MayTake
  <2> QED  BY <1>4, <2>1, <2>3, InputsDiffer, Names
<1>7. \A t \in Topics : \A i \in At(t, e)' :
          i \in At(t, e) \/ (Current(w).event = e /\ <<t, i>> = y)
  BY <1>2, <1>3, AppendAt
<1>8. \A t \in Resting : \A i : <<t, i>> # x
  BY <1>4, InputsDiffer, Names
<1>9. CASE Current(w).event = e
  <2>1. x \in Tokens(e)
    <3>1. CASE owner[RoleOf[w]] = w
      <4>1. pos[w] \in At(In(w), e)
        BY <1>4, <1>9 DEF At, Current
      <4>2. ~Handled(RoleOf[w], pos[w])
        BY <1>1, <3>1 DEF Handled
      <4>3. Awaited(RoleOf[w], pos[w])
        BY <1>1, <3>1, <4>2, OwnersPlace DEF Awaited
      <4>4. x \in {InputTopic[RoleOf[w]]} \X
                     {i \in At(InputTopic[RoleOf[w]], e) : Awaited(RoleOf[w], i)}
        BY <1>4, <3>1, <4>1, <4>3
      <4>5. x \in Pending(e)
        BY <1>4, <4>4 DEF Pending
      <4> QED  BY <4>5 DEF Tokens
    <3>2. CASE owner[RoleOf[w]] # w
      <4>1. MayTake(w, e)
        BY <1>1, <1>9, <3>2 DEF MayTake
      <4> QED  BY <3>2, <4>1 DEF Tokens, Stray
    <3> QED  BY <3>1, <3>2
  <2> HIDE DEF x, y
  <2>2. Tokens(e)' \subseteq (Tokens(e) \ {x}) \cup {y}
    <3>1. /\ \A t \in Topics : \A i \in At(t, e)' : i \in At(t, e) \/ <<t, i>> \in {y}
          /\ \A t \in Resting : \A i : <<t, i>> \notin {x}
          /\ \A r \in Roles : \A i \in At(InputTopic[r], e) : Awaited(r, i)' =>
                 \/ Awaited(r, i) /\ <<InputTopic[r], i>> \notin {x}
                 \/ <<InputTopic[r], i>> \in {y}
          /\ \A v \in Workers : MayTake(v, e)' =>
                 \/ MayTake(v, e) /\ <<"hand", v>> \notin {x}
                 \/ <<"hand", v>> \in {y}
      BY <1>5, <1>6, <1>7, <1>8
    <3> QED  BY <3>1, TokensStep
  <2> QED  BY <1>1, <2>1, <2>2 DEF Turns
<1>10. CASE Current(w).event # e
  <2> DEFINE X == {}
  <2>1. /\ \A t \in Topics : \A i \in At(t, e)' : i \in At(t, e) \/ <<t, i>> \in X
        /\ \A t \in Resting : \A i : <<t, i>> \notin X
        /\ \A r \in Roles : \A i \in At(InputTopic[r], e) : Awaited(r, i)' =>
               \/ Awaited(r, i) /\ <<InputTopic[r], i>> \notin X
               \/ <<InputTopic[r], i>> \in X
        /\ \A v \in Workers : MayTake(v, e)' =>
               \/ MayTake(v, e) /\ <<"hand", v>> \notin X
               \/ <<"hand", v>> \in X
    BY <1>5, <1>6, <1>7, <1>10
  <2> HIDE DEF X
  <2>2. Tokens(e)' \subseteq (Tokens(e) \ X) \cup X
    BY <2>1, TokensStep
  <2> QED  BY <1>1, <2>2 DEF Keeps, X
<1> QED  BY <1>9, <1>10

\* Every step accounts for the tokens of every event.
LEMMA NextAccounted ==
    ASSUME IInv, IInv', ExitsLetGo, [Next]_vars, NEW e \in Events
    PROVE  Accounted(e) /\ (newest[e] # Nowhere => newest'[e] # Nowhere)
<1>1. CASE UNCHANGED vars
  <2>1. Tokens(e)' = Tokens(e)
    BY <1>1 DEF vars, Tokens, Copies, Pending, Stray, At, Offsets, Awaited, Handled, MayTake,
       Current, In
  <2> QED  BY <1>1, <2>1 DEF vars, Accounted, Keeps
<1>2. ASSUME NEW f \in Events, Submit(f)  PROVE Accounted(e)
  <2>1. faults' = faults /\ newest[f] = Nowhere
        /\ Appended("raw", RawRecord(f)) /\ UNCHANGED workerVars
    BY <1>2 DEF Submit
  <2> QED  BY <2>1, SubmitAccounted DEF Accounted, Begins, Keeps
<1>3. ASSUME NEW f \in Events, Replay(f)  PROVE Accounted(e)
  <2>1. faults' = faults + 1 /\ Appended("raw", RawRecord(f)) /\ UNCHANGED workerVars
    BY <1>3 DEF Replay, Fault
  <2> QED  BY <2>1, SubmitAccounted DEF Accounted, Spends
<1>4. newest[e] # Nowhere => newest'[e] # Nowhere
  <2>1. ASSUME NEW t \in Topics, NEW r \in Record, Appended(t, r)
        PROVE  newest[e] # Nowhere => newest'[e] # Nowhere
    BY <2>1, AppendAt
  <2>2. \A f \in Events : "raw" \in Topics /\ RawRecord(f) \in Record
    BY ConstantsAssumption DEF RawRecord, Record, ErrorCodes, Topics, StageTopics
  <2> QED
    BY <2>1, <2>2, WhoAppends, DecisionFacts
<1> QED
  BY <1>1, <1>2, <1>3, <1>4, PollKeeps, CommitKeeps, ExitKeeps, CrashSpends,
     DeliverFailsSpends, RebalanceSpends, DeliverTurns DEF Next, Enter, Work, Accounted

\* The account is always covered: one token for the submission, one for each fault.
LEMMA TokensArePaid == Spec => [](ExitsLetGo /\ TokensPaid)
<1>1. Init => ExitsLetGo /\ TokensPaid
  <2> SUFFICES ASSUME Init  PROVE ExitsLetGo /\ TokensPaid
    OBVIOUS
  <2>1. \A t \in Topics : \A e \in Events : At(t, e) = {}
    BY DEF Init, At, Offsets
  <2>2. \A e \in Events : Tokens(e) = {}
    <3> SUFFICES ASSUME NEW e \in Events, NEW x \in Tokens(e)  PROVE FALSE
      OBVIOUS
    <3>1. x \notin Copies(e) /\ x \notin Pending(e)
      BY <2>1, Names DEF Copies, Pending
    <3>2. x \notin Stray(e)
      BY DEF Init, Stray, MayTake
    <3> QED  BY <3>1, <3>2 DEF Tokens
  <2>3. IsFiniteSet({}) /\ Cardinality({}) = 0
    BY FS_EmptySet
  <2>4. TokensPaid
    <3> SUFFICES ASSUME NEW e \in Events
                 PROVE  /\ IsFiniteSet(Tokens(e))
                        /\ Cardinality(Tokens(e)) <= faults + (IF newest[e] = Nowhere THEN 0 ELSE 1)
      BY DEF TokensPaid
    <3>1. faults = 0 /\ newest[e] = Nowhere
      BY DEF Init
    <3>2. IsFiniteSet(Tokens(e)) /\ Cardinality(Tokens(e)) = 0
      BY <2>2, <2>3
    <3> QED  BY <3>1, <3>2
  <2>5. ExitsLetGo
    BY DEF Init, ExitsLetGo
  <2> QED
    BY <2>4, <2>5
<1>2. IInv /\ IInv' /\ ExitsLetGo /\ [Next]_vars => ExitsLetGo'
  BY DEF IInv, TypeOK, ExitsLetGo, Next, Enter, Work, vars, Submit, Replay, workerVars, Start, Assign,
     Rebalance, Takes, Revoke, Crash, Exits, Fetch, Deliver, DeliverFails, Raises, Commit,
     CommitRefused, CommitUncertain
<1>3. IInv /\ IInv' /\ ExitsLetGo /\ TokensPaid /\ [Next]_vars => TokensPaid'
  <2> SUFFICES ASSUME IInv, IInv', ExitsLetGo, TokensPaid, [Next]_vars, NEW e \in Events
               PROVE  /\ IsFiniteSet(Tokens(e)')
                      /\ Cardinality(Tokens(e)') <= faults' + (IF newest'[e] = Nowhere THEN 0 ELSE 1)
    BY DEF TokensPaid
  <2> DEFINE T == Tokens(e)
             U == Tokens(e)'
  <2>1. IsFiniteSet(T) /\ Cardinality(T) <= faults + (IF newest[e] = Nowhere THEN 0 ELSE 1)
    BY DEF TokensPaid
  <2>2. Accounted(e) /\ (newest[e] # Nowhere => newest'[e] # Nowhere)
    BY NextAccounted
  <2>3. faults \in Nat /\ faults' \in Nat /\ Cardinality(T) \in Nat
    BY <2>1, FS_CardinalityType DEF IInv, TypeOK
  <2> HIDE DEF T, U
  <2>4. ASSUME NEW y, U \subseteq T \cup {y}
        PROVE  IsFiniteSet(U) /\ Cardinality(U) \in Nat /\ Cardinality(U) <= Cardinality(T) + 1
    <3>1. /\ IsFiniteSet(T \cup {y})
          /\ Cardinality(T \cup {y}) = IF y \in T THEN Cardinality(T) ELSE Cardinality(T) + 1
      BY <2>1, FS_AddElement
    <3>2. IsFiniteSet(U) /\ Cardinality(U) <= Cardinality(T \cup {y})
      BY <2>4, <3>1, FS_Subset
    <3>3. Cardinality(U) \in Nat
      BY <3>2, FS_CardinalityType
    <3> QED  BY <2>3, <3>1, <3>2, <3>3
  <2>5. CASE Spends(e)
    BY <2>1, <2>2, <2>3, <2>4, <2>5 DEF Spends, T, U
  <2>6. CASE Begins(e)
    BY <2>1, <2>2, <2>3, <2>4, <2>6 DEF Begins, T, U
  <2>7. CASE Turns(e)
    <3>1. PICK x \in T : \E y : U \subseteq (T \ {x}) \cup {y}
      BY <2>7 DEF Turns, T, U
    <3>2. PICK y : U \subseteq (T \ {x}) \cup {y}
      BY <3>1
    <3>3. IsFiniteSet(T \ {x}) /\ Cardinality(T \ {x}) = Cardinality(T) - 1
      BY <2>1, FS_RemoveElement
    <3> DEFINE R == T \ {x}
    <3> HIDE DEF R
    <3>4. /\ IsFiniteSet(R \cup {y})
          /\ Cardinality(R \cup {y}) = IF y \in R THEN Cardinality(R) ELSE Cardinality(R) + 1
      BY <3>3, FS_AddElement DEF R
    <3>5. IsFiniteSet(U) /\ Cardinality(U) <= Cardinality(R \cup {y})
      BY <3>2, <3>4, FS_Subset DEF R
    <3>6. Cardinality(U) \in Nat /\ faults' = faults
      BY <2>7, <3>5, FS_CardinalityType DEF Turns
    <3>7. Cardinality(R) = Cardinality(T) - 1
      BY <3>3 DEF R
    <3>8. Cardinality(U) <= Cardinality(T)
      BY <2>3, <3>4, <3>5, <3>6, <3>7
    <3> QED  BY <2>1, <2>2, <2>3, <3>5, <3>6, <3>8 DEF U
  <2>8. CASE Keeps(e)
    <3>1. IsFiniteSet(U) /\ Cardinality(U) <= Cardinality(T) /\ faults' = faults
      BY <2>1, <2>8, FS_Subset DEF Keeps, T, U
    <3>2. Cardinality(U) \in Nat
      BY <3>1, FS_CardinalityType
    <3> QED  BY <2>1, <2>2, <2>3, <3>1, <3>2 DEF U
  <2> QED
    BY <2>2, <2>5, <2>6, <2>7, <2>8 DEF Accounted
<1> QED
  BY <1>1, <1>2, <1>3, Invariant, PTL DEF Spec

\* Every duplicate is paid for by a fault: however the workers' steps interleave
\* with crashes, rebalances, uncertain deliveries and replays, no event ever has
\* more resting copies than one and the faults so far.
THEOREM DuplicatesArePaid == Spec => []DuplicatesBounded
<1>1. IInv /\ TokensPaid => DuplicatesBounded
  <2> SUFFICES ASSUME IInv, TokensPaid, NEW e \in Events
               PROVE  Cardinality(Copies(e)) <= 1 + faults
    BY DEF DuplicatesBounded
  <2>1. IsFiniteSet(Tokens(e)) /\ Copies(e) \in SUBSET Tokens(e)
        /\ Cardinality(Tokens(e)) <= faults + (IF newest[e] = Nowhere THEN 0 ELSE 1)
    BY DEF TokensPaid, Tokens
  <2>2. IsFiniteSet(Copies(e)) /\ Cardinality(Copies(e)) <= Cardinality(Tokens(e))
    BY <2>1, FS_Subset
  <2>3. Cardinality(Copies(e)) \in Nat /\ Cardinality(Tokens(e)) \in Nat /\ faults \in Nat
    BY <2>1, <2>2, FS_CardinalityType DEF IInv, TypeOK
  <2> QED  BY <2>1, <2>2, <2>3
<1> QED
  BY <1>1, TokensArePaid, Invariant, PTL
=============================================================================
