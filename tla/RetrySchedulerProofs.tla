----------------------- MODULE RetrySchedulerProofs -----------------------
(***************************************************************************)
(* What the retry scheduler guarantees for every number of workers,        *)
(* partitions, records and faults, and every backoff cap and clock skew.   *)
(***************************************************************************)
EXTENDS RetryScheduler, TLAPS

\* The initial state satisfies the inductive invariant.
LEMMA InitIInv == Init => IInv
<1> SUFFICES ASSUME Init PROVE IInv
  OBVIOUS
<1>1. TypeOK
  BY ConstantsAssumption DEF Init, TypeOK
<1>2. Deadlines /\ Ownership /\ Bookkeeping
  BY ConstantsAssumption DEF Init, Deadlines, Ownership, Bookkeeping, Held, Current, HandAt
<1>3. OneAhead /\ HandReady /\ SentOfLog /\ OneHeldPerPartition
  BY DEF Init, OneAhead, HandReady, SentOfLog, OneHeldPerPartition
<1>4. NeverEarly /\ ScheduledNeverDiscarded /\ NothingDeferredIsLost
  BY DEF Init, NeverEarly, ScheduledNeverDiscarded, NothingDeferredIsLost
<1>5. QED
  BY <1>1, <1>2, <1>3, <1>4 DEF IInv

\* The history a step leaves behind depends on the logs, the outputs, the committed
\* offsets and the clock alone, and the clock only moves forward.
LEMMA HistoryKept ==
    ASSUME TypeOK, TypeOK', Deadlines, SentOfLog,
           NeverEarly, ScheduledNeverDiscarded, NothingDeferredIsLost,
           log' = log, sent' = sent, committed' = committed, now' \in {now, now + 1}
    PROVE  /\ Deadlines' /\ SentOfLog'
           /\ NeverEarly' /\ ScheduledNeverDiscarded' /\ NothingDeferredIsLost'
<1>1. Deadlines'
  <2> SUFFICES ASSUME NEW p \in Partitions, NEW i \in 1 .. Len(log[p]),
                      log[p][i].readable, log[p][i].due # Far
               PROVE  log[p][i].due <= now' + Skew + Cap
    BY DEF Deadlines
  <2>1. log[p][i] \in Record
    BY DEF TypeOK
  <2>2. log[p][i].due \in Nat
    BY <2>1, ConstantsAssumption DEF Record, Far, Horizon
  <2>3. log[p][i].due <= now + Skew + Cap
    BY DEF Deadlines
  <2>4. /\ now \in Nat /\ Skew \in Nat /\ Cap \in Nat
    BY ConstantsAssumption DEF TypeOK
  <2>5. QED
    BY <2>2, <2>3, <2>4
<1>2. SentOfLog' /\ NothingDeferredIsLost'
  BY DEF SentOfLog, NothingDeferredIsLost
<1>3. NeverEarly' /\ ScheduledNeverDiscarded'
  BY DEF NeverEarly, ScheduledNeverDiscarded
<1>4. QED
  BY <1>1, <1>2, <1>3

\* What a worker has in hand is a record of the log.
LEMMA HandTyped ==
    ASSUME TypeOK, Bookkeeping, NEW w \in Workers, hand[w] # None
    PROVE  /\ hand[w] \in Partitions /\ HandAt(w) \in 1 .. Len(log[hand[w]])
           /\ InHand(w) \in Record /\ InHand(w).due \in Nat
<1>1. hand[w] \in Partitions /\ HandAt(w) \in 1 .. Len(log[hand[w]])
  BY DEF TypeOK, Bookkeeping, HandAt
<1>2. InHand(w) \in Record
  BY <1>1 DEF TypeOK, InHand
<1>3. QED
  BY <1>1, <1>2, ConstantsAssumption DEF Record, Far, Horizon

\* A retry is written when its deadline has passed, a dead letter for a record
\* that no policy scheduled.
LEMMA OutputHonest ==
    ASSUME TypeOK, Deadlines, Bookkeeping, HandReady, NEW w \in Workers, pc[w] = "deliver"
    PROVE  LET s == Output(w)
               r == log[s.part][s.at]
           IN  /\ s.kind = "retried" => s.tick >= r.due
               /\ s.kind = "dead" => ~r.readable \/ r.due = Far
<1> DEFINE r == InHand(w)
<1>1. hand[w] # None
  BY DEF Bookkeeping
<1>2. /\ r \in Record /\ r.due \in Nat /\ hand[w] \in Partitions
      /\ HandAt(w) \in 1 .. Len(log[hand[w]])
  BY <1>1, HandTyped
<1>3. /\ Output(w).part = hand[w] /\ Output(w).at = HandAt(w) /\ Output(w).tick = now
      /\ Output(w).kind = IF hand[w] \in Held(w) \/ Retryable(r) THEN "retried" ELSE "dead"
  BY DEF Output
<1>4. ~r.readable \/ r.due = Far \/ r.due <= now + Skew + Cap
  BY <1>2 DEF Deadlines, InHand
<1>5. ~Early(r) \/ (hand[w] \notin Held(w) /\ (~r.readable \/ r.due = Far))
  BY DEF HandReady
<1>6. r.due = Far => BeyondHorizon(r)
  BY ConstantsAssumption DEF TypeOK, BeyondHorizon, Far, Horizon
<1>7. hand[w] \in Held(w) \/ Retryable(r) => now >= r.due
  BY <1>2, <1>5, <1>6 DEF TypeOK, Early, Retryable
<1>8. ~(hand[w] \in Held(w) \/ Retryable(r)) => ~r.readable \/ r.due = Far
  BY <1>2, <1>4, ConstantsAssumption DEF TypeOK, Retryable, BeyondHorizon, Horizon
<1>9. QED
  BY <1>3, <1>7, <1>8 DEF InHand

\* What a step of one worker leaves of everybody's books, if it keeps its own in order.
LEMMA BooksOfOne ==
    ASSUME Bookkeeping, NEW w \in Workers, log' = log,
           \A v \in Workers \ {w} :
              UNCHANGED <<pc[v], todo[v], hand[v], mine[v], pos[v], held[v]>>,
           \A p \in Partitions : pos'[w][p] <= Len(log[p]),
           Held(w)' \subseteq mine'[w], todo'[w] \subseteq Held(w)',
           pc'[w] \in {"poll", "down"} => todo'[w] = {},
           pc'[w] \in {"deliver", "commit"} <=> hand'[w] # None,
           hand'[w] # None => hand'[w] \in mine'[w] /\ HandAt(w)' # 0
    PROVE  Bookkeeping'
<1>1. \A v \in Workers \ {w} : UNCHANGED <<Held(v), HandAt(v)>>
  BY DEF Held, HandAt
<1> SUFFICES ASSUME NEW v \in Workers
             PROVE  /\ \A p \in Partitions : pos'[v][p] <= Len(log'[p])
                    /\ Held(v)' \subseteq mine'[v]
                    /\ todo'[v] \subseteq Held(v)'
                    /\ pc'[v] \in {"poll", "down"} => todo'[v] = {}
                    /\ pc'[v] \in {"deliver", "commit"} <=> hand'[v] # None
                    /\ hand'[v] # None => hand'[v] \in mine'[v] /\ HandAt(v)' # 0
  BY DEF Bookkeeping
<1>2. CASE v = w
  BY <1>2
<1>3. CASE v # w
  BY <1>1, <1>3 DEF Bookkeeping
<1> QED
  BY <1>2, <1>3

\* A step of one worker that leaves it with nothing in hand disturbs nobody's record.
LEMMA ReadyKept ==
    ASSUME HandReady, NEW w \in Workers, log' = log, now' = now, sent \subseteq sent',
           pc'[w] \notin {"deliver", "commit"},
           \A v \in Workers \ {w} : UNCHANGED <<pc[v], hand[v], pos[v], held[v]>>
    PROVE  HandReady'
<1>1. \A v \in Workers \ {w} : UNCHANGED <<Held(v), HandAt(v), InHand(v)>>
  BY DEF Held, HandAt, InHand
<1> QED
  BY <1>1 DEF HandReady, Early

\* A worker that exits has nothing in hand.
LEMMA ExitsKeepReady ==
    ASSUME TypeOK, HandReady, NEW w \in Workers, Exits(w), sent \subseteq sent'
    PROVE  HandReady'
<1>1. /\ log' = log /\ now' = now /\ pc'[w] = "down"
      /\ \A v \in Workers \ {w} : UNCHANGED <<pc[v], hand[v], pos[v], held[v]>>
  BY DEF TypeOK, Exits
<1> QED
  BY <1>1, ReadyKept

\* A worker that exits leaves nothing behind, and the others' books as they were.
LEMMA ExitsKeepBooks ==
    ASSUME TypeOK, Bookkeeping, NEW w \in Workers, Exits(w)
    PROVE  Bookkeeping'
<1>1. /\ pc'[w] = "down" /\ todo'[w] = {} /\ hand'[w] = None /\ mine'[w] = {}
      /\ \A p \in Partitions : pos'[w][p] = 0 /\ held'[w][p] = 0
      /\ log' = log
  BY DEF TypeOK, Exits
<1>2. \A v \in Workers \ {w} :
        UNCHANGED <<pc[v], todo[v], hand[v], mine[v], pos[v], held[v]>>
  BY DEF TypeOK, Exits
<1>3. Held(w)' = {}
  BY <1>1 DEF Held
<1>4. \A p \in Partitions : Len(log[p]) \in Nat
  BY DEF TypeOK
<1>5. QED
  BY <1>1, <1>2, <1>3, <1>4, BooksOfOne

\* Every step keeps the inductive invariant.
LEMMA NextIInv == IInv /\ [Next]_vars => IInv'
<1> SUFFICES ASSUME IInv, [Next]_vars PROVE IInv'
  OBVIOUS
<1> USE ConstantsAssumption DEF IInv
<1>1. CASE UNCHANGED vars
  <2>1. TypeOK' /\ Deadlines' /\ SentOfLog'
    BY <1>1 DEF vars, TypeOK, Deadlines, SentOfLog
  <2>2. Ownership' /\ Bookkeeping' /\ OneHeldPerPartition'
    BY <1>1 DEF vars, Ownership, Bookkeeping, OneHeldPerPartition, Current, Held, HandAt
  <2>3. OneAhead' /\ HandReady'
    BY <1>1 DEF vars, OneAhead, HandReady, Current, Held, HandAt, InHand, Early
  <2>4. NeverEarly' /\ ScheduledNeverDiscarded' /\ NothingDeferredIsLost'
    BY <1>1 DEF vars, NeverEarly, ScheduledNeverDiscarded, NothingDeferredIsLost
  <2> QED
    BY <2>1, <2>2, <2>3, <2>4
<1>2. CASE Tick
  <2>1. TypeOK'
    BY <1>2 DEF TypeOK, Tick, local
  <2>2. /\ Deadlines' /\ SentOfLog'
        /\ NeverEarly' /\ ScheduledNeverDiscarded' /\ NothingDeferredIsLost'
    <3>1. UNCHANGED <<log, sent, committed>> /\ now' \in {now, now + 1}
      BY <1>2 DEF TypeOK, Tick, local
    <3>2. QED
      BY <2>1, <3>1, HistoryKept
  <2>3. Ownership'
    BY <1>2 DEF TypeOK, Tick, local, Ownership, Current
  <2>4. Bookkeeping'
    BY <1>2 DEF TypeOK, Tick, local, Bookkeeping, Held, HandAt
  <2>5. OneHeldPerPartition'
    BY <1>2 DEF TypeOK, Tick, local, OneHeldPerPartition, Held
  <2>6. OneAhead'
    BY <1>2 DEF TypeOK, Tick, local, OneAhead, Ownership, Current, Held
  <2>7. HandReady'
    <3>1. UNCHANGED <<log, pos, held, hand, pc, sent>> /\ now' = now + 1
      BY <1>2 DEF Tick, local
    <3>2. \A w \in Workers : hand[w] # None => InHand(w).due \in Nat
      BY HandTyped
    <3>3. QED
      BY <3>1, <3>2 DEF TypeOK, HandReady, Bookkeeping, HandAt, InHand, Held, Early
  <2>8. QED
    BY <2>1, <2>2, <2>3, <2>4, <2>5, <2>6, <2>7
<1>3. CASE Disturb
  <2>1. TypeOK'
    BY <1>3 DEF TypeOK, Disturb, Fault, local
  <2>2. /\ Deadlines' /\ SentOfLog'
        /\ NeverEarly' /\ ScheduledNeverDiscarded' /\ NothingDeferredIsLost'
    <3>1. UNCHANGED <<log, sent, committed>> /\ now' \in {now, now + 1}
      BY <1>3 DEF TypeOK, Disturb, Fault, local
    <3>2. QED
      BY <2>1, <3>1, HistoryKept
  <2>3. Ownership'
    BY <1>3 DEF TypeOK, Disturb, Fault, local, Ownership, Current
  <2>4. Bookkeeping'
    BY <1>3 DEF TypeOK, Disturb, Fault, local, Bookkeeping, Held, HandAt
  <2>5. OneHeldPerPartition'
    BY <1>3 DEF TypeOK, Disturb, Fault, local, OneHeldPerPartition, Held
  <2>6. OneAhead'
    BY <1>3 DEF TypeOK, Disturb, Fault, local, OneAhead, Ownership, Current, Held
  <2>7. HandReady'
    BY <1>3 DEF TypeOK, Disturb, Fault, local, HandReady, HandAt, InHand, Held, Early
  <2>8. QED
    BY <2>1, <2>2, <2>3, <2>4, <2>5, <2>6, <2>7
<1>4. CASE Supersede
  <2>1. TypeOK'
    BY <1>4 DEF TypeOK, Supersede, Fault, local
  <2>2. /\ Deadlines' /\ SentOfLog'
        /\ NeverEarly' /\ ScheduledNeverDiscarded' /\ NothingDeferredIsLost'
    <3>1. UNCHANGED <<log, sent, committed>> /\ now' \in {now, now + 1}
      BY <1>4 DEF TypeOK, Supersede, Fault, local
    <3>2. QED
      BY <2>1, <3>1, HistoryKept
  <2>3. Ownership'
    BY <1>4 DEF TypeOK, Supersede, Fault, local, Ownership, Current
  <2>4. Bookkeeping'
    BY <1>4 DEF TypeOK, Supersede, Fault, local, Bookkeeping, Held, HandAt
  <2>5. OneHeldPerPartition'
    BY <1>4 DEF TypeOK, Supersede, Fault, local, OneHeldPerPartition, Held
  <2>6. OneAhead'
    BY <1>4 DEF TypeOK, Supersede, Fault, local, OneAhead, Ownership, Current, Held
  <2>7. HandReady'
    BY <1>4 DEF TypeOK, Supersede, Fault, local, HandReady, HandAt, InHand, Held, Early
  <2>8. QED
    BY <2>1, <2>2, <2>3, <2>4, <2>5, <2>6, <2>7
<1>5. CASE Rebalance
  <2>1. TypeOK'
    BY <1>5 DEF TypeOK, Rebalance, Fault, local
  <2>2. /\ Deadlines' /\ SentOfLog'
        /\ NeverEarly' /\ ScheduledNeverDiscarded' /\ NothingDeferredIsLost'
    <3>1. UNCHANGED <<log, sent, committed>> /\ now' \in {now, now + 1}
      BY <1>5 DEF TypeOK, Rebalance, Fault, local
    <3>2. QED
      BY <2>1, <3>1, HistoryKept
  <2>3. Ownership'
    BY <1>5 DEF TypeOK, Rebalance, Fault, local, Ownership, Current
  <2>4. Bookkeeping'
    BY <1>5 DEF TypeOK, Rebalance, Fault, local, Bookkeeping, Held, HandAt
  <2>5. OneHeldPerPartition'
    BY <1>5 DEF TypeOK, Rebalance, Fault, local, OneHeldPerPartition, Held
  <2>6. OneAhead'
    BY <1>5 DEF TypeOK, Rebalance, Fault, local, OneAhead, Ownership, Current, Held
  <2>7. HandReady'
    BY <1>5 DEF TypeOK, Rebalance, Fault, local, HandReady, HandAt, InHand, Held, Early
  <2>8. QED
    BY <2>1, <2>2, <2>3, <2>4, <2>5, <2>6, <2>7
<1>6. ASSUME NEW w \in Workers, Start(w) PROVE IInv'
  <2>1. TypeOK'
    BY <1>6, Zenon DEF TypeOK, Start, environment, assignment, holding
  <2>2. /\ Deadlines' /\ SentOfLog'
        /\ NeverEarly' /\ ScheduledNeverDiscarded' /\ NothingDeferredIsLost'
    <3>1. UNCHANGED <<log, sent, committed>> /\ now' \in {now, now + 1}
      BY <1>6 DEF TypeOK, Start, environment, assignment, holding
    <3>2. QED
      BY <2>1, <3>1, HistoryKept
  <2>3. Ownership'
    BY <1>6 DEF TypeOK, Start, environment, assignment, holding, Ownership, Current
  <2>4. Bookkeeping'
    BY <1>6 DEF TypeOK, Start, environment, assignment, holding, Bookkeeping, Held, HandAt
  <2>5. OneHeldPerPartition'
    BY <1>6 DEF TypeOK, Start, environment, assignment, holding, OneHeldPerPartition, Held
  <2>6. OneAhead'
    BY <1>6 DEF TypeOK, Start, environment, assignment, holding, OneAhead, Ownership, Current, Held
  <2>7. HandReady'
    BY <1>6 DEF TypeOK, Start, environment, assignment, holding, HandReady, HandAt, InHand, Held, Early
  <2>8. QED
    BY <2>1, <2>2, <2>3, <2>4, <2>5, <2>6, <2>7
<1>7. ASSUME NEW w \in Workers, TakeDue(w) PROVE IInv'
  <2>1. PICK p \in todo[w] :
           /\ pc[w] = "due"
           /\ ~Early(log[p][held[w][p]])
           /\ hand' = [hand EXCEPT ![w] = p]
           /\ pc' = [pc EXCEPT ![w] = "deliver"]
           /\ UNCHANGED <<log, now, sent, committed, owner, generation, faults, joined, mine, pos, held, paused, todo>>
    BY <1>7 DEF TakeDue, environment, assignment, holding
  <2>2. /\ p \in Partitions /\ p \in Held(w) /\ p \in mine[w] /\ p # None
        /\ held[w][p] = pos[w][p] /\ held[w][p] # 0 /\ hand[w] = None
    BY <2>1, Zenon DEF TypeOK, Bookkeeping, OneHeldPerPartition, Held
  <2>3. TypeOK'
    BY <2>1, <2>2 DEF TypeOK
  <2>4. /\ Deadlines' /\ SentOfLog'
        /\ NeverEarly' /\ ScheduledNeverDiscarded' /\ NothingDeferredIsLost'
    <3>1. UNCHANGED <<log, sent, committed>> /\ now' \in {now, now + 1}
      BY <2>1, <2>2 DEF TypeOK
    <3>2. QED
      BY <2>3, <3>1, HistoryKept
  <2>5. Ownership'
    BY <2>1, <2>2 DEF TypeOK, Ownership, Current
  <2>6. Bookkeeping'
    <3>1. \A v \in Workers \ {w} :
            UNCHANGED <<pc[v], todo[v], hand[v], mine[v], pos[v], held[v]>>
      BY <2>1 DEF TypeOK
    <3>2. /\ pc'[w] = "deliver" /\ hand'[w] = p /\ Held(w)' = Held(w)
          /\ pos' = pos /\ mine' = mine /\ todo' = todo
      BY <2>1, <2>2 DEF TypeOK, Held
    <3>3. HandAt(w)' # 0
      BY <2>2, <3>2 DEF HandAt
    <3>4. /\ \A q \in Partitions : pos[w][q] <= Len(log[q])
          /\ Held(w) \subseteq mine[w] /\ todo[w] \subseteq Held(w)
      BY DEF Bookkeeping
    <3> QED
      BY <2>1, <2>2, <3>1, <3>2, <3>3, <3>4, BooksOfOne
  <2>7. OneHeldPerPartition'
    BY <2>1, <2>2 DEF TypeOK, OneHeldPerPartition, Held, Bookkeeping
  <2>8. OneAhead'
    BY <2>1, <2>2 DEF TypeOK, OneAhead, Ownership, Current, Held, HandAt, Bookkeeping, OneHeldPerPartition
  <2>9. HandReady'
    <3>1. /\ ~Early(InHand(w))'
      BY <2>1, <2>2 DEF TypeOK, InHand, HandAt, Early
    <3>2. pc'[w] = "deliver"
      BY <2>1 DEF TypeOK
    <3>3. \A v \in Workers \ {w} : UNCHANGED <<pc[v], hand[v], InHand(v), Held(v), HandAt(v)>>
      BY <2>1 DEF TypeOK, InHand, Held, HandAt
    <3>4. QED
      BY <2>1, <3>1, <3>2, <3>3 DEF HandReady, Early
  <2>10. QED
    BY <2>1, <2>2, <2>3, <2>4, <2>5, <2>6, <2>7, <2>8, <2>9
<1>8. ASSUME NEW w \in Workers, SkipEarly(w) PROVE IInv'
  <2>1. TypeOK'
    <3>1. /\ \E p \in todo[w] : todo' = [todo EXCEPT ![w] = @ \ {p}]
          /\ UNCHANGED <<log, now, owner, generation, joined, mine, pos, held, paused,
                         pc, hand, sent, committed, faults>>
      BY <1>8 DEF SkipEarly, environment, assignment, holding
    <3>2. todo' \in [Workers -> SUBSET Partitions]
      BY <3>1 DEF TypeOK
    <3> QED
      BY <3>1, <3>2 DEF TypeOK
  <2>2. /\ Deadlines' /\ SentOfLog'
        /\ NeverEarly' /\ ScheduledNeverDiscarded' /\ NothingDeferredIsLost'
    <3>1. UNCHANGED <<log, sent, committed>> /\ now' \in {now, now + 1}
      BY <1>8 DEF TypeOK, SkipEarly, environment, assignment, holding
    <3>2. QED
      BY <2>1, <3>1, HistoryKept
  <2>3. Ownership'
    BY <1>8 DEF TypeOK, SkipEarly, environment, assignment, holding, Ownership, Current
  <2>4. Bookkeeping'
    <3>1. /\ pc[w] = "due" /\ \E p \in todo[w] : todo' = [todo EXCEPT ![w] = @ \ {p}]
          /\ UNCHANGED <<log, mine, pos, held, pc, hand>>
      BY <1>8 DEF SkipEarly, environment, assignment, holding
    <3>2. /\ \A v \in Workers \ {w} : todo'[v] = todo[v]
          /\ todo'[w] \subseteq todo[w]
      BY <3>1 DEF TypeOK
    <3>3. /\ Held(w)' = Held(w) /\ HandAt(w)' = HandAt(w)
          /\ mine' = mine /\ hand' = hand /\ pc' = pc /\ pos' = pos
      BY <3>1 DEF Held, HandAt
    <3>4. /\ \A p \in Partitions : pos[w][p] <= Len(log[p])
          /\ Held(w) \subseteq mine[w] /\ todo[w] \subseteq Held(w)
          /\ pc[w] \in {"deliver", "commit"} <=> hand[w] # None
          /\ hand[w] # None => hand[w] \in mine[w] /\ HandAt(w) # 0
      BY DEF Bookkeeping
    <3> QED
      BY <3>1, <3>2, <3>3, <3>4, BooksOfOne
  <2>5. OneHeldPerPartition'
    BY <1>8 DEF TypeOK, SkipEarly, environment, assignment, holding, OneHeldPerPartition, Held
  <2>6. OneAhead'
    BY <1>8 DEF TypeOK, SkipEarly, environment, assignment, holding, OneAhead, Ownership, Current, Held
  <2>7. HandReady'
    BY <1>8 DEF TypeOK, SkipEarly, environment, assignment, holding, HandReady, HandAt, InHand, Held, Early
  <2>8. QED
    BY <2>1, <2>2, <2>3, <2>4, <2>5, <2>6, <2>7
<1>9. ASSUME NEW w \in Workers, PassEnds(w) PROVE IInv'
  <2>1. TypeOK'
    BY <1>9 DEF TypeOK, PassEnds, environment, assignment, holding
  <2>2. /\ Deadlines' /\ SentOfLog'
        /\ NeverEarly' /\ ScheduledNeverDiscarded' /\ NothingDeferredIsLost'
    <3>1. UNCHANGED <<log, sent, committed>> /\ now' \in {now, now + 1}
      BY <1>9 DEF TypeOK, PassEnds, environment, assignment, holding
    <3>2. QED
      BY <2>1, <3>1, HistoryKept
  <2>3. Ownership'
    BY <1>9 DEF TypeOK, PassEnds, environment, assignment, holding, Ownership, Current
  <2>4. Bookkeeping'
    BY <1>9 DEF TypeOK, PassEnds, environment, assignment, holding, Bookkeeping, Held, HandAt
  <2>5. OneHeldPerPartition'
    BY <1>9 DEF TypeOK, PassEnds, environment, assignment, holding, OneHeldPerPartition, Held
  <2>6. OneAhead'
    BY <1>9 DEF TypeOK, PassEnds, environment, assignment, holding, OneAhead, Ownership, Current, Held
  <2>7. HandReady'
    BY <1>9 DEF TypeOK, PassEnds, environment, assignment, holding, HandReady, HandAt, InHand, Held, Early
  <2>8. QED
    BY <2>1, <2>2, <2>3, <2>4, <2>5, <2>6, <2>7
<1>10. ASSUME NEW w \in Workers, Revoke(w) PROVE IInv'
  <2>1. TypeOK'
    BY <1>10, Zenon DEF TypeOK, Revoke, environment, DropHeld
  <2>2. /\ Deadlines' /\ SentOfLog'
        /\ NeverEarly' /\ ScheduledNeverDiscarded' /\ NothingDeferredIsLost'
    <3>1. UNCHANGED <<log, sent, committed>> /\ now' \in {now, now + 1}
      BY <1>10 DEF TypeOK, Revoke, environment, DropHeld
    <3>2. QED
      BY <2>1, <3>1, HistoryKept
  <2>3. Ownership'
    BY <1>10 DEF TypeOK, Revoke, environment, DropHeld, Ownership, Current
  <2>4. Bookkeeping'
    BY <1>10 DEF TypeOK, Revoke, environment, DropHeld, Bookkeeping, Held, HandAt
  <2>5. OneHeldPerPartition'
    BY <1>10 DEF TypeOK, Revoke, environment, DropHeld, OneHeldPerPartition, Held
  <2>6. OneAhead'
    BY <1>10 DEF TypeOK, Revoke, environment, DropHeld, OneAhead, Ownership, Current, Held, HandAt, Bookkeeping, OneHeldPerPartition
  <2>7. HandReady'
    BY <1>10 DEF TypeOK, Revoke, environment, DropHeld, HandReady, HandAt, InHand, Held, Early
  <2>8. QED
    BY <2>1, <2>2, <2>3, <2>4, <2>5, <2>6, <2>7
<1>11. ASSUME NEW w \in Workers, Join(w) PROVE IInv'
  <2>1. TypeOK'
    BY <1>11 DEF TypeOK, Join, environment, DropHeld, Rebalancing
  <2>2. /\ Deadlines' /\ SentOfLog'
        /\ NeverEarly' /\ ScheduledNeverDiscarded' /\ NothingDeferredIsLost'
    <3>1. UNCHANGED <<log, sent, committed>> /\ now' \in {now, now + 1}
      BY <1>11 DEF TypeOK, Join, environment, DropHeld, Rebalancing
    <3>2. QED
      BY <2>1, <3>1, HistoryKept
  <2>3. Ownership'
    BY <1>11 DEF TypeOK, Join, environment, DropHeld, Rebalancing, Ownership, Current
  <2>4. Bookkeeping'
    BY <1>11 DEF TypeOK, Join, environment, DropHeld, Rebalancing, Bookkeeping, Held, HandAt
  <2>5. OneHeldPerPartition'
    BY <1>11 DEF TypeOK, Join, environment, DropHeld, Rebalancing, OneHeldPerPartition, Held
  <2>6. OneAhead'
    <3>1. pc[w] = "poll" /\ hand[w] = None /\ \A p \in Partitions : owner[p] # None
      BY <1>11 DEF Join, Rebalancing, Bookkeeping, TypeOK
    <3>2. /\ UNCHANGED <<committed, generation, hand>>
          /\ \A p \in Partitions : pos'[w][p] = committed[p] /\ held'[w][p] = 0
          /\ \A v \in Workers \ {w} :
                UNCHANGED <<joined[v], mine[v], pos[v], held[v]>>
          /\ mine'[w] \subseteq Partitions
      BY <1>11 DEF TypeOK, Join, DropHeld, environment
    <3>3. ASSUME NEW p \in mine'[w] PROVE hand'[w] # p
      BY <3>1, <3>2
    <3>4. ASSUME NEW v \in Workers \ {w}, NEW p \in mine[v], Current(v)
          PROVE  IF p \in Held(v)' \/ hand[v] = p THEN pos[v][p] = committed[p] + 1
                                                 ELSE pos[v][p] = committed[p]
      BY <3>2, <3>4 DEF OneAhead, Held
    <3>5. \A p \in mine'[w] : p \notin Held(w)' /\ pos'[w][p] = committed'[p]
      BY <3>2 DEF Held
    <3>6. QED
      BY <3>2, <3>3, <3>4, <3>5 DEF OneAhead, Current
  <2>7. HandReady'
    BY <1>11, Zenon DEF TypeOK, Join, environment, DropHeld, Rebalancing, HandReady, HandAt, InHand, Held, Early
  <2>8. QED
    BY <2>1, <2>2, <2>3, <2>4, <2>5, <2>6, <2>7
<1>12. ASSUME NEW w \in Workers, Hold(w) PROVE IInv'
  <2>1. PICK p \in mine[w] \ paused[w] :
           /\ pos[w][p] < Len(log[p])
           /\ pc[w] = "poll"
           /\ Current(w)
           /\ pos' = [pos EXCEPT ![w][p] = @ + 1]
           /\ held' = [held EXCEPT ![w][p] = pos[w][p] + 1]
           /\ paused' = [paused EXCEPT ![w] = @ \cup {p}]
           /\ pc' = [pc EXCEPT ![w] = "due"]
           /\ todo' = [todo EXCEPT ![w] = Held(w) \cup {p}]
           /\ UNCHANGED <<log, now, sent, committed, owner, generation, faults, joined, mine, hand>>
    BY <1>12 DEF Hold, environment, assignment, Fetchable, Fetched, Current, Pause, NextPass
  <2>2. /\ p \in Partitions /\ p \in mine[w] /\ p # None /\ held[w][p] = 0
        /\ pos[w][p] + 1 \in 1 .. Len(log[p]) /\ pos[w][p] = committed[p]
        /\ hand[w] = None /\ todo[w] = {}
    <3>1. hand[w] = None /\ todo[w] = {}
      BY <2>1 DEF TypeOK, Bookkeeping
    <3>2. /\ p \in Partitions /\ p \in mine[w] /\ p # None /\ held[w][p] = 0
          /\ p \notin Held(w)
      BY <2>1 DEF TypeOK, OneHeldPerPartition, Held
    <3>3. pos[w][p] = committed[p]
      BY <2>1, <3>1, <3>2 DEF OneAhead, Current
    <3>4. QED
      BY <2>1, <3>1, <3>2, <3>3 DEF TypeOK
  <2>3. TypeOK'
    <3>1. Held(w) \cup {p} \subseteq Partitions /\ pos[w][p] + 1 \in Nat
      BY <2>2 DEF Held, TypeOK
    <3>2. /\ pos' \in [Workers -> [Partitions -> Nat]]
          /\ held' \in [Workers -> [Partitions -> Nat]]
      BY <2>1, <2>2, <3>1 DEF TypeOK
    <3>3. /\ paused' \in [Workers -> SUBSET Partitions]
          /\ todo' \in [Workers -> SUBSET Partitions]
          /\ pc' \in [Workers -> {"down", "due", "poll", "deliver", "commit"}]
      BY <2>1, <2>2, <3>1 DEF TypeOK
    <3> QED
      BY <2>1, <3>2, <3>3 DEF TypeOK
  <2>4. /\ Deadlines' /\ SentOfLog'
        /\ NeverEarly' /\ ScheduledNeverDiscarded' /\ NothingDeferredIsLost'
    <3>1. UNCHANGED <<log, sent, committed>> /\ now' \in {now, now + 1}
      BY <2>1, <2>2 DEF TypeOK, NextPass
    <3>2. QED
      BY <2>3, <3>1, HistoryKept
  <2>5. Ownership'
    BY <2>1, <2>2 DEF TypeOK, NextPass, Ownership, Current
  <2>6. Bookkeeping'
    <3>1. \A v \in Workers \ {w} :
            UNCHANGED <<pc[v], todo[v], hand[v], mine[v], pos[v], held[v]>>
      BY <2>1 DEF TypeOK
    <3>2. \A q \in Partitions : pos'[w][q] = IF q = p THEN pos[w][p] + 1 ELSE pos[w][q]
      BY <2>1, <2>2 DEF TypeOK
    <3>3. \A q \in Partitions : pos'[w][q] <= Len(log[q])
      BY <2>2, <3>2 DEF Bookkeeping
    <3>4. \A q \in Partitions : held'[w][q] = IF q = p THEN pos[w][p] + 1 ELSE held[w][q]
      BY <2>1, <2>2 DEF TypeOK
    <3>5. Held(w)' = Held(w) \cup {p}
      BY <2>2, <3>4 DEF Held
    <3>6. /\ pc'[w] = "due" /\ todo'[w] = Held(w) \cup {p}
          /\ mine'[w] = mine[w] /\ hand'[w] = None
      BY <2>1, <2>2 DEF TypeOK
    <3>7. Held(w)' \subseteq mine'[w]
      BY <2>2, <3>5, <3>6 DEF Bookkeeping
    <3> QED
      BY <2>1, <3>1, <3>3, <3>5, <3>6, <3>7, BooksOfOne
  <2>7. OneHeldPerPartition'
    <3>1. /\ \A q \in Partitions : pos'[w][q] = IF q = p THEN pos[w][p] + 1 ELSE pos[w][q]
          /\ \A q \in Partitions : held'[w][q] = IF q = p THEN pos[w][p] + 1 ELSE held[w][q]
          /\ paused'[w] = paused[w] \cup {p}
      BY <2>1, <2>2 DEF TypeOK
    <3>2. \A v \in Workers \ {w} : UNCHANGED <<paused[v], pos[v], held[v]>>
      BY <2>1 DEF TypeOK
    <3> QED
      BY <2>2, <3>1, <3>2 DEF OneHeldPerPartition
  <2>8. OneAhead'
    <3>1. /\ \A q \in Partitions : pos'[w][q] = IF q = p THEN committed[p] + 1 ELSE pos[w][q]
          /\ Held(w)' = Held(w) \cup {p} /\ hand'[w] = None /\ mine' = mine /\ committed' = committed
      BY <2>1, <2>2 DEF TypeOK, Held
    <3>2. \A v \in Workers : Current(v)' <=> Current(v)
      BY <2>1 DEF Current
    <3>3. \A v \in Workers \ {w} : UNCHANGED <<pos[v], hand[v], Held(v)>>
      BY <2>1 DEF TypeOK, Held
    <3>4. mine[w] \subseteq Partitions
      BY DEF TypeOK
    <3>5. ASSUME NEW v \in Workers, NEW q \in mine[v], Current(v)
          PROVE  IF q \in Held(v)' \/ hand'[v] = q THEN pos'[v][q] = committed[q] + 1
                                                   ELSE pos'[v][q] = committed[q]
      <4>1. IF q \in Held(v) \/ hand[v] = q THEN pos[v][q] = committed[q] + 1
                                           ELSE pos[v][q] = committed[q]
        BY <3>5 DEF OneAhead
      <4>2. CASE v # w
        BY <3>3, <4>1, <4>2
      <4>3. CASE v = w /\ q = p
        BY <2>2, <3>1, <4>3
      <4>4. CASE v = w /\ q # p
        <5>1. q \in Partitions /\ q # None
          BY <3>4, <4>4, ConstantsAssumption
        <5> QED
          BY <2>2, <3>1, <4>1, <4>4, <5>1
      <4> QED
        BY <4>2, <4>3, <4>4
    <3> QED
      BY <3>1, <3>2, <3>5 DEF OneAhead
  <2>9. HandReady'
    <3>1. /\ pc'[w] = "due"
          /\ \A v \in Workers \ {w} : UNCHANGED <<pc[v], hand[v], pos[v], held[v]>>
      BY <2>1 DEF TypeOK
    <3> QED
      BY <2>1, <3>1, ReadyKept
  <2>10. QED
    BY <2>1, <2>2, <2>3, <2>4, <2>5, <2>6, <2>7, <2>8, <2>9
<1>13. ASSUME NEW w \in Workers, Take(w) PROVE IInv'
  <2>1. PICK p \in mine[w] \ paused[w] :
           /\ pos[w][p] < Len(log[p])
           /\ pc[w] = "poll"
           /\ Current(w)
           /\ ~(Retryable(log[p][pos[w][p] + 1]) /\ Early(log[p][pos[w][p] + 1]))
           /\ pos' = [pos EXCEPT ![w][p] = @ + 1]
           /\ hand' = [hand EXCEPT ![w] = p]
           /\ pc' = [pc EXCEPT ![w] = "deliver"]
           /\ UNCHANGED <<log, now, sent, committed, owner, generation, faults, joined, mine, held, paused, todo>>
    BY <1>13 DEF Take, environment, assignment, holding, Fetchable, Fetched, Current
  <2>2. /\ p \in Partitions /\ p \in mine[w] /\ p # None /\ held[w][p] = 0
        /\ pos[w][p] + 1 \in 1 .. Len(log[p]) /\ pos[w][p] = committed[p]
        /\ hand[w] = None /\ todo[w] = {}
    <3>1. hand[w] = None /\ todo[w] = {}
      BY <2>1 DEF TypeOK, Bookkeeping
    <3>2. /\ p \in Partitions /\ p \in mine[w] /\ p # None /\ held[w][p] = 0
          /\ p \notin Held(w)
      BY <2>1 DEF TypeOK, OneHeldPerPartition, Held
    <3>3. pos[w][p] = committed[p]
      BY <2>1, <3>1, <3>2 DEF OneAhead, Current
    <3>4. QED
      BY <2>1, <3>1, <3>2, <3>3 DEF TypeOK
  <2>3. TypeOK'
    <3>1. pos' \in [Workers -> [Partitions -> Nat]]
      BY <2>1, <2>2 DEF TypeOK
    <3>2. /\ hand' \in [Workers -> Partitions \cup {None}]
          /\ pc' \in [Workers -> {"down", "due", "poll", "deliver", "commit"}]
      BY <2>1, <2>2 DEF TypeOK
    <3> QED
      BY <2>1, <3>1, <3>2 DEF TypeOK
  <2>4. /\ Deadlines' /\ SentOfLog'
        /\ NeverEarly' /\ ScheduledNeverDiscarded' /\ NothingDeferredIsLost'
    <3>1. UNCHANGED <<log, sent, committed>> /\ now' \in {now, now + 1}
      BY <2>1, <2>2 DEF TypeOK
    <3>2. QED
      BY <2>3, <3>1, HistoryKept
  <2>5. Ownership'
    BY <2>1, <2>2 DEF TypeOK, Ownership, Current
  <2>6. Bookkeeping'
    <3>1. \A v \in Workers \ {w} :
            UNCHANGED <<pc[v], todo[v], hand[v], mine[v], pos[v], held[v]>>
      BY <2>1 DEF TypeOK
    <3>2. /\ pc'[w] = "deliver" /\ hand'[w] = p /\ Held(w)' = Held(w)
          /\ mine' = mine /\ todo' = todo
          /\ \A q \in Partitions : pos'[w][q] = IF q = p THEN pos[w][p] + 1 ELSE pos[w][q]
      BY <2>1, <2>2 DEF TypeOK, Held
    <3>3. HandAt(w)' # 0
      BY <2>2, <3>2 DEF HandAt
    <3>4. /\ \A q \in Partitions : pos[w][q] <= Len(log[q])
          /\ Held(w) \subseteq mine[w] /\ todo[w] \subseteq Held(w)
      BY DEF Bookkeeping
    <3>5. \A q \in Partitions : pos'[w][q] <= Len(log[q])
      BY <2>2, <3>2, <3>4
    <3>6. log' = log /\ pc[w] = "poll" /\ todo[w] = {} /\ p \in mine[w] /\ p # None
      BY <2>1, <2>2, <3>4, ConstantsAssumption DEF Bookkeeping
    <3>7. /\ Held(w)' \subseteq mine'[w] /\ todo'[w] \subseteq Held(w)'
          /\ pc'[w] \in {"poll", "down"} => todo'[w] = {}
      BY <3>2, <3>4
    <3>8. /\ pc'[w] \in {"deliver", "commit"} <=> hand'[w] # None
          /\ hand'[w] # None => hand'[w] \in mine'[w] /\ HandAt(w)' # 0
      BY <3>2, <3>3, <3>6
    <3> QED
      BY <3>1, <3>5, <3>6, <3>7, <3>8, BooksOfOne
  <2>7. OneHeldPerPartition'
    BY <2>1, <2>2 DEF TypeOK, OneHeldPerPartition, Held, Bookkeeping
  <2>8. OneAhead'
    <3>1. /\ \A q \in Partitions : pos'[w][q] = IF q = p THEN committed[p] + 1 ELSE pos[w][q]
          /\ Held(w)' = Held(w) /\ hand'[w] = p /\ mine' = mine /\ committed' = committed
      BY <2>1, <2>2 DEF TypeOK, Held
    <3>2. \A v \in Workers : Current(v)' <=> Current(v)
      BY <2>1 DEF Current
    <3>3. \A v \in Workers \ {w} : UNCHANGED <<pos[v], hand[v], Held(v)>>
      BY <2>1 DEF TypeOK, Held
    <3>4. mine[w] \subseteq Partitions
      BY DEF TypeOK
    <3>5. ASSUME NEW v \in Workers, NEW q \in mine[v], Current(v)
          PROVE  IF q \in Held(v)' \/ hand'[v] = q THEN pos'[v][q] = committed[q] + 1
                                                   ELSE pos'[v][q] = committed[q]
      <4>1. IF q \in Held(v) \/ hand[v] = q THEN pos[v][q] = committed[q] + 1
                                           ELSE pos[v][q] = committed[q]
        BY <3>5 DEF OneAhead
      <4>2. CASE v # w
        BY <3>3, <4>1, <4>2
      <4>3. CASE v = w /\ q = p
        BY <2>2, <3>1, <4>3
      <4>4. CASE v = w /\ q # p
        <5>1. q \in Partitions /\ q # None
          BY <3>4, <4>4, ConstantsAssumption
        <5> QED
          BY <2>2, <3>1, <4>1, <4>4, <5>1
      <4> QED
        BY <4>2, <4>3, <4>4
    <3> QED
      BY <3>1, <3>2, <3>5 DEF OneAhead
  <2>9. HandReady'
    <3>1. /\ pc'[w] = "deliver" /\ hand'[w] = p /\ p \notin Held(w)'
          /\ InHand(w)' = log[p][pos[w][p] + 1]
      BY <2>1, <2>2 DEF TypeOK, InHand, HandAt, Held
    <3>2. \/ ~Early(InHand(w)')
          \/ ~(InHand(w)').readable
          \/ BeyondHorizon(InHand(w)')
      BY <2>1, <3>1 DEF Retryable
    <3>3. InHand(w)' \in Record
      BY <2>2, <3>1 DEF TypeOK
    <3>4. /\ (InHand(w)').due \in Nat
          /\ \/ ~(InHand(w)').readable
             \/ (InHand(w)').due = Far
             \/ (InHand(w)').due <= now + Skew + Cap
      <4>1. (InHand(w)').due \in Nat
        BY <3>3 DEF Record, Far, Horizon
      <4> QED
        BY <2>2, <3>1, <4>1 DEF Deadlines
    <3>5. \/ ~Early(InHand(w)')
          \/ ~(InHand(w)').readable
          \/ (InHand(w)').due = Far
      BY <3>2, <3>4 DEF TypeOK, BeyondHorizon, Horizon
    <3>6. \A v \in Workers \ {w} : UNCHANGED <<pc[v], hand[v], InHand(v), Held(v), HandAt(v)>>
      BY <2>1 DEF TypeOK, InHand, Held, HandAt
    <3>7. QED
      BY <2>1, <3>1, <3>5, <3>6 DEF HandReady, Early
  <2>10. QED
    BY <2>1, <2>2, <2>3, <2>4, <2>5, <2>6, <2>7, <2>8, <2>9
<1>14. ASSUME NEW w \in Workers, PollEmpty(w) PROVE IInv'
  <2>1. TypeOK'
    BY <1>14 DEF TypeOK, PollEmpty, environment, assignment, holding, NextPass, Held, HandAt
  <2>2. /\ Deadlines' /\ SentOfLog'
        /\ NeverEarly' /\ ScheduledNeverDiscarded' /\ NothingDeferredIsLost'
    <3>1. UNCHANGED <<log, sent, committed>> /\ now' \in {now, now + 1}
      BY <1>14 DEF TypeOK, PollEmpty, environment, assignment, holding, NextPass
    <3>2. QED
      BY <2>1, <3>1, HistoryKept
  <2>3. Ownership'
    BY <1>14 DEF TypeOK, PollEmpty, environment, assignment, holding, NextPass, Ownership, Current
  <2>4. Bookkeeping'
    BY <1>14, Zenon DEF TypeOK, PollEmpty, environment, assignment, holding, NextPass, Bookkeeping, Held, HandAt
  <2>5. OneHeldPerPartition'
    BY <1>14 DEF TypeOK, PollEmpty, environment, assignment, holding, NextPass, OneHeldPerPartition, Held
  <2>6. OneAhead'
    BY <1>14 DEF TypeOK, PollEmpty, environment, assignment, holding, NextPass, OneAhead, Ownership, Current, Held
  <2>7. HandReady'
    BY <1>14 DEF TypeOK, PollEmpty, environment, assignment, holding, NextPass, HandReady, HandAt, InHand, Held, Early
  <2>8. QED
    BY <2>1, <2>2, <2>3, <2>4, <2>5, <2>6, <2>7
<1>15. ASSUME NEW w \in Workers, Deliver(w) PROVE IInv'
  <2>1. TypeOK'
    BY <1>15 DEF TypeOK, Deliver, environment, assignment, holding, Output, HandAt, Bookkeeping
  <2>2. Deadlines' /\ NothingDeferredIsLost'
    BY <1>15 DEF TypeOK, Deliver, environment, assignment, holding, Deadlines, NothingDeferredIsLost
  <2>3. SentOfLog'
    BY <1>15 DEF TypeOK, Deliver, environment, assignment, holding, SentOfLog, Output, HandAt, Bookkeeping
  <2>4. NeverEarly' /\ ScheduledNeverDiscarded'
    BY <1>15, OutputHonest, Zenon DEF TypeOK, Deliver, environment, NeverEarly, ScheduledNeverDiscarded
  <2>5. Ownership'
    BY <1>15 DEF TypeOK, Deliver, environment, assignment, holding, Ownership, Current
  <2>6. Bookkeeping'
    BY <1>15 DEF TypeOK, Deliver, environment, assignment, holding, Bookkeeping, Held, HandAt
  <2>7. OneHeldPerPartition'
    BY <1>15 DEF TypeOK, Deliver, environment, assignment, holding, OneHeldPerPartition, Held
  <2>8. OneAhead'
    BY <1>15 DEF TypeOK, Deliver, environment, assignment, holding, OneAhead, Ownership, Current, Held
  <2>9. HandReady'
    <3>1. Output(w).part = hand[w] /\ Output(w).at = HandAt(w) /\ Output(w) \in sent'
      BY <1>15 DEF Deliver, Output
    <3>2. /\ UNCHANGED <<log, now, pos, hand, held>> /\ sent \subseteq sent'
          /\ pc'[w] = "commit" /\ \A v \in Workers \ {w} : pc'[v] = pc[v]
      BY <1>15 DEF TypeOK, Deliver, environment, holding
    <3>3. QED
      BY <3>1, <3>2 DEF HandReady, HandAt, InHand, Held, Early
  <2>10. QED
    BY <2>1, <2>2, <2>3, <2>4, <2>5, <2>6, <2>7, <2>8, <2>9
<1>16. ASSUME NEW w \in Workers, Commit(w) PROVE IInv'
  <2>1. TypeOK'
    <3>1. /\ hand[w] \in Partitions /\ HandAt(w) \in Nat
          /\ HandAt(w) <= Len(log[hand[w]])
      <4>1. hand[w] # None
        BY <1>16 DEF Commit, Bookkeeping
      <4>2. hand[w] \in Partitions /\ HandAt(w) \in 1 .. Len(log[hand[w]])
        BY <4>1, HandTyped
      <4>3. Len(log[hand[w]]) \in Nat
        BY <4>2 DEF TypeOK
      <4> QED
        BY <4>2, <4>3
    <3>2. committed' \in [Partitions -> Nat] /\ \A p \in Partitions : committed'[p] <= Len(log[p])
      BY <1>16, <3>1 DEF TypeOK, Commit, CommitOffset
    <3>3. Held(w) \subseteq Partitions
      BY DEF Held
    <3>4. pc' \in [Workers -> {"down", "due", "poll", "deliver", "commit"}]
      <4>1. pc' = [pc EXCEPT ![w] = "due"] \/ pc' = [pc EXCEPT ![w] = "poll"]
        BY <1>16 DEF Commit, NextPass
      <4> QED
        BY <4>1 DEF TypeOK
    <3>5. todo' \in [Workers -> SUBSET Partitions]
      <4>1. CASE hand[w] \in Held(w)
        <5>1. todo' = [todo EXCEPT ![w] = @ \ {hand[w]}]
          BY <1>16, <4>1 DEF Commit
        <5>2. QED
          BY <5>1 DEF TypeOK
      <4>2. CASE hand[w] \notin Held(w)
        <5>1. todo' = [todo EXCEPT ![w] = Held(w)]
          BY <1>16, <4>2 DEF Commit, NextPass
        <5>2. QED
          BY <3>3, <5>1 DEF TypeOK
      <4>3. QED
        BY <4>1, <4>2
    <3>6. /\ held' \in [Workers -> [Partitions -> Nat]]
          /\ paused' \in [Workers -> SUBSET Partitions]
          /\ hand' \in [Workers -> Partitions \cup {None}]
      BY <1>16 DEF TypeOK, Commit
    <3>7. QED
      BY <1>16, <3>2, <3>4, <3>5, <3>6 DEF TypeOK, Commit, environment, assignment
  <2>2. Deadlines' /\ SentOfLog' /\ NeverEarly' /\ ScheduledNeverDiscarded'
    BY <1>16 DEF TypeOK, Commit, environment, assignment, NextPass, CommitOffset, Deadlines, SentOfLog, NeverEarly, ScheduledNeverDiscarded
  <2>3. NothingDeferredIsLost'
    <3>1. /\ hand[w] \in mine[w] /\ hand[w] \in Partitions /\ Current(w)
          /\ HandAt(w) = committed[hand[w]] + 1 /\ committed[hand[w]] \in Nat
      BY <1>16 DEF TypeOK, Commit, Bookkeeping, OneAhead, Current, HandAt
    <3>2. PICK s \in sent : s.part = hand[w] /\ s.at = HandAt(w)
      BY <1>16 DEF Commit, HandReady
    <3>3. /\ sent' = sent
          /\ \A p \in Partitions :
                committed'[p] = IF p = hand[w] THEN committed[hand[w]] + 1 ELSE committed[p]
      BY <1>16, <3>1 DEF TypeOK, Commit, CommitOffset
    <3>4. ASSUME NEW p \in Partitions, NEW i \in 1 .. committed'[p]
          PROVE  \E r \in sent : r.part = p /\ r.at = i
      <4>1. CASE i \in 1 .. committed[p]
        BY <4>1 DEF NothingDeferredIsLost
      <4>2. CASE i \notin 1 .. committed[p]
        <5>1. p = hand[w] /\ i = HandAt(w)
          BY <3>1, <3>3, <4>2
        <5> QED
          BY <3>2, <5>1
      <4> QED
        BY <4>1, <4>2
    <3> QED
      BY <3>3, <3>4 DEF NothingDeferredIsLost
  <2>4. Ownership'
    BY <1>16 DEF TypeOK, Commit, environment, assignment, NextPass, CommitOffset, Ownership, Current
  <2>5. Bookkeeping'
    <3>1. \A v \in Workers \ {w} :
            UNCHANGED <<pc[v], todo[v], hand[v], mine[v], pos[v], held[v]>>
      BY <1>16 DEF TypeOK, Commit, NextPass, assignment
    <3>2. /\ log' = log /\ pos' = pos /\ mine' = mine /\ hand'[w] = None
          /\ \A q \in Partitions : held'[w][q] = IF q = hand[w] THEN 0 ELSE held[w][q]
      BY <1>16 DEF TypeOK, Commit, environment, assignment
    <3>3. Held(w)' = Held(w) \ {hand[w]}
      BY <3>2 DEF Held
    <3>4. /\ \A q \in Partitions : pos[w][q] <= Len(log[q])
          /\ Held(w) \subseteq mine[w] /\ todo[w] \subseteq Held(w)
      BY DEF Bookkeeping
    <3>5. CASE hand[w] \in Held(w)
      <4>1. pc'[w] = "due" /\ todo'[w] = todo[w] \ {hand[w]}
        BY <1>16, <3>5 DEF TypeOK, Commit
      <4> QED
        BY <3>1, <3>2, <3>3, <3>4, <4>1, BooksOfOne
    <3>6. CASE hand[w] \notin Held(w)
      <4>1. pc'[w] = (IF Held(w) = {} THEN "poll" ELSE "due") /\ todo'[w] = Held(w)
        BY <1>16, <3>6 DEF TypeOK, Commit, NextPass
      <4> QED
        BY <3>1, <3>2, <3>3, <3>4, <3>6, <4>1, BooksOfOne
    <3> QED
      BY <3>5, <3>6
  <2>6. OneHeldPerPartition'
    <3>1. /\ pos' = pos /\ paused'[w] = paused[w] \ {hand[w]}
          /\ \A q \in Partitions : held'[w][q] = IF q = hand[w] THEN 0 ELSE held[w][q]
      BY <1>16 DEF TypeOK, Commit
    <3>2. \A v \in Workers \ {w} : UNCHANGED <<paused[v], held[v]>>
      BY <1>16 DEF TypeOK, Commit
    <3>3. ASSUME NEW v \in Workers, NEW q \in Partitions
          PROVE  /\ q \in paused'[v] <=> held'[v][q] # 0
                 /\ held'[v][q] # 0 => held'[v][q] = pos'[v][q]
      <4>1. CASE v = w
        BY <3>1, <4>1 DEF OneHeldPerPartition
      <4>2. CASE v # w
        BY <3>1, <3>2, <4>2 DEF OneHeldPerPartition
      <4> QED
        BY <4>1, <4>2
    <3> QED
      BY <3>3 DEF OneHeldPerPartition
  <2>7. OneAhead'
    <3>1. /\ hand[w] # None /\ hand[w] \in mine[w] /\ hand[w] \in Partitions /\ Current(w)
          /\ CommitOffset(w) = pos[w][hand[w]]
      BY <1>16 DEF TypeOK, Commit, Bookkeeping, Current, CommitOffset, HandAt
    <3>2. pos[w][hand[w]] = committed[hand[w]] + 1
      BY <3>1 DEF OneAhead
    <3>3. /\ pos' = pos /\ mine' = mine /\ hand'[w] = None
          /\ \A p \in Partitions :
                committed'[p] = IF p = hand[w] THEN pos[w][hand[w]] ELSE committed[p]
          /\ \A p \in Partitions : held'[w][p] = IF p = hand[w] THEN 0 ELSE held[w][p]
      <4>1. /\ committed' = [committed EXCEPT ![hand[w]] = pos[w][hand[w]]]
            /\ held' = [held EXCEPT ![w][hand[w]] = 0]
            /\ hand' = [hand EXCEPT ![w] = None]
            /\ pos' = pos /\ mine' = mine
        BY <1>16, <3>1 DEF Commit, assignment
      <4>2. hand'[w] = None
        BY <4>1 DEF TypeOK
      <4>3. \A p \in Partitions :
               committed'[p] = IF p = hand[w] THEN pos[w][hand[w]] ELSE committed[p]
        BY <4>1 DEF TypeOK
      <4>4. \A p \in Partitions : held'[w][p] = IF p = hand[w] THEN 0 ELSE held[w][p]
        BY <4>1 DEF TypeOK
      <4> QED
        BY <4>1, <4>2, <4>3, <4>4
    <3>4. \A v \in Workers : Current(v)' <=> Current(v)
      <4>1. joined' = joined /\ generation' = generation
        BY <1>16 DEF Commit, assignment, environment
      <4> QED
        BY <4>1 DEF Current
    <3>5. \A v \in Workers \ {w} : hand'[v] = hand[v] /\ Held(v)' = Held(v)
      BY <1>16 DEF TypeOK, Commit, Held
    <3>6. Held(w)' = Held(w) \ {hand[w]}
      BY <3>3 DEF Held
    <3>7. ASSUME NEW v \in Workers, NEW p \in mine[v], Current(v)
          PROVE  IF p \in Held(v)' \/ hand'[v] = p THEN pos[v][p] = committed'[p] + 1
                                                   ELSE pos[v][p] = committed'[p]
      <4>1. p \in Partitions /\ p # None
        BY ConstantsAssumption DEF TypeOK
      <4>2. IF p \in Held(v) \/ hand[v] = p THEN pos[v][p] = committed[p] + 1
                                           ELSE pos[v][p] = committed[p]
        BY <3>7 DEF OneAhead
      <4>3. CASE v = w /\ p = hand[w]
        BY <3>3, <3>6, <4>1, <4>3
      <4>4. CASE v = w /\ p # hand[w]
        BY <3>3, <3>6, <4>1, <4>2, <4>4
      <4>5. CASE v # w
        <5>1. mine[v] \cap mine[w] = {}
          BY <3>1, <3>7, <4>5 DEF Ownership
        <5>2. p # hand[w]
          BY <3>1, <5>1
        <5> QED
          BY <3>3, <3>5, <4>1, <4>2, <4>5, <5>2
      <4> QED
        BY <4>3, <4>4, <4>5
    <3> QED
      BY <3>3, <3>4, <3>7 DEF OneAhead
  <2>8. HandReady'
    <3>1. pc'[w] \in {"poll", "due"}
      BY <1>16 DEF TypeOK, Commit, NextPass
    <3>2. /\ UNCHANGED <<log, now, sent>>
          /\ \A v \in Workers \ {w} :
                UNCHANGED <<pc[v], hand[v], InHand(v), Held(v), HandAt(v)>>
      BY <1>16 DEF TypeOK, Commit, NextPass, environment, InHand, Held, HandAt
    <3>3. QED
      BY <3>1, <3>2 DEF HandReady, Early
  <2>9. QED
    BY <2>1, <2>2, <2>3, <2>4, <2>5, <2>6, <2>7, <2>8
<1>17. ASSUME NEW w \in Workers, CommitRefused(w) PROVE IInv'
  <2>1. TypeOK'
    BY <1>17 DEF TypeOK, CommitRefused, Exits
  <2>2. /\ Deadlines' /\ SentOfLog'
        /\ NeverEarly' /\ ScheduledNeverDiscarded' /\ NothingDeferredIsLost'
    <3>1. UNCHANGED <<log, sent, committed>> /\ now' \in {now, now + 1}
      BY <1>17 DEF TypeOK, CommitRefused, Exits
    <3>2. QED
      BY <2>1, <3>1, HistoryKept
  <2>3. Ownership'
    BY <1>17 DEF TypeOK, CommitRefused, Exits, Ownership, Current
  <2>4. Bookkeeping'
    BY <1>17, ExitsKeepBooks DEF CommitRefused
  <2>5. OneHeldPerPartition'
    BY <1>17 DEF TypeOK, CommitRefused, Exits, OneHeldPerPartition, Held
  <2>6. OneAhead'
    BY <1>17 DEF TypeOK, CommitRefused, Exits, OneAhead, Ownership, Current, Held
  <2>7. HandReady'
    BY <1>17, ExitsKeepReady DEF CommitRefused
  <2>8. QED
    BY <2>1, <2>2, <2>3, <2>4, <2>5, <2>6, <2>7
<1>18. ASSUME NEW w \in Workers, Crash(w) PROVE IInv'
  <2>1. TypeOK'
    BY <1>18 DEF TypeOK, Crash, Exits, Fault
  <2>2. /\ Deadlines' /\ SentOfLog'
        /\ NeverEarly' /\ ScheduledNeverDiscarded' /\ NothingDeferredIsLost'
    <3>1. UNCHANGED <<log, sent, committed>> /\ now' \in {now, now + 1}
      BY <1>18 DEF TypeOK, Crash, Exits, Fault
    <3>2. QED
      BY <2>1, <3>1, HistoryKept
  <2>3. Ownership'
    BY <1>18 DEF TypeOK, Crash, Exits, Fault, Ownership, Current
  <2>4. Bookkeeping'
    BY <1>18, ExitsKeepBooks DEF Crash
  <2>5. OneHeldPerPartition'
    BY <1>18 DEF TypeOK, Crash, Exits, Fault, OneHeldPerPartition, Held
  <2>6. OneAhead'
    BY <1>18 DEF TypeOK, Crash, Exits, Fault, OneAhead, Ownership, Current, Held
  <2>7. HandReady'
    BY <1>18, ExitsKeepReady DEF Crash
  <2>8. QED
    BY <2>1, <2>2, <2>3, <2>4, <2>5, <2>6, <2>7
<1>19. ASSUME NEW w \in Workers, DeliverFails(w) PROVE IInv'
  <2>1. TypeOK'
    BY <1>19 DEF TypeOK, DeliverFails, Exits, Fault, Output, HandAt, Bookkeeping
  <2>2. Deadlines' /\ NothingDeferredIsLost'
    BY <1>19 DEF TypeOK, DeliverFails, Exits, Fault, Deadlines, NothingDeferredIsLost
  <2>3. SentOfLog'
    BY <1>19 DEF TypeOK, DeliverFails, Exits, Fault, SentOfLog, Output, HandAt, Bookkeeping
  <2>4. NeverEarly' /\ ScheduledNeverDiscarded'
    BY <1>19, OutputHonest DEF TypeOK, DeliverFails, Exits, NeverEarly, ScheduledNeverDiscarded
  <2>5. Ownership'
    BY <1>19 DEF TypeOK, DeliverFails, Exits, Fault, Ownership, Current
  <2>6. Bookkeeping'
    BY <1>19, ExitsKeepBooks DEF DeliverFails
  <2>7. OneHeldPerPartition'
    BY <1>19 DEF TypeOK, DeliverFails, Exits, Fault, OneHeldPerPartition, Held
  <2>8. OneAhead'
    BY <1>19 DEF TypeOK, DeliverFails, Exits, Fault, OneAhead, Ownership, Current, Held
  <2>9. HandReady'
    <3>1. Exits(w) /\ sent \subseteq sent'
      BY <1>19 DEF DeliverFails
    <3> QED
      BY <3>1, ExitsKeepReady
  <2>10. QED
    BY <2>1, <2>2, <2>3, <2>4, <2>5, <2>6, <2>7, <2>8, <2>9
<1>20. ASSUME NEW p \in Partitions, Schedule(p) \/ Foreign(p) PROVE IInv'
  <2>1. PICK r \in Record : /\ Add(p, r)
                            /\ ~r.readable \/ r.due = Far \/ r.due <= now + Skew + Cap
    <3>1. CASE Schedule(p)
      <4>1. PICK delay \in 1 .. Cap, ahead \in 0 .. Skew :
              /\ now + ahead + delay <= MaxTime
              /\ Add(p, [readable |-> TRUE, due |-> now + ahead + delay])
        BY <3>1 DEF Schedule
      <4>2. /\ now + ahead + delay \in 0 .. Far
            /\ now + ahead + delay <= now + Skew + Cap
        BY <4>1 DEF TypeOK, Far, Horizon
      <4>3. QED
        BY <4>1, <4>2, [readable |-> TRUE, due |-> now + ahead + delay] \in Record DEF Record
    <3>2. CASE Foreign(p)
      <4>1. Far \in 0 .. Far /\ 0 \in 0 .. Far
        BY DEF Far, Horizon
      <4>2. QED
        BY <3>2, <4>1, [readable |-> FALSE, due |-> 0] \in Record,
           [readable |-> TRUE, due |-> Far] \in Record
        DEF Foreign, Record
    <3>3. QED
      BY <1>20, <3>1, <3>2
  <2>2. TypeOK'
    BY <2>1 DEF TypeOK, Add, local
  <2>3. /\ Len(log[p]) \in Nat /\ Len(log'[p]) = Len(log[p]) + 1
        /\ log'[p][Len(log[p]) + 1] = r
        /\ \A i \in 1 .. Len(log[p]) : log'[p][i] = log[p][i]
        /\ \A q \in Partitions \ {p} : log'[q] = log[q]
    BY <2>1 DEF Add, TypeOK
  <2>4. /\ UNCHANGED <<committed, owner, generation, sent, now>>
        /\ UNCHANGED <<joined, mine, pos, held, paused, pc, todo, hand>>
    BY <2>1 DEF Add, local
  <2>5. \A q \in Partitions : \A i \in 1 .. Len(log[q]) :
          i \in 1 .. Len(log'[q]) /\ log'[q][i] = log[q][i]
    BY <2>3
  <2>6. Deadlines'
    <3> SUFFICES ASSUME NEW q \in Partitions, NEW i \in 1 .. Len(log'[q])
                 PROVE  \/ ~log'[q][i].readable
                        \/ log'[q][i].due = Far
                        \/ log'[q][i].due <= now + Skew + Cap
      BY <2>4 DEF Deadlines
    <3>1. CASE q = p /\ i = Len(log[p]) + 1
      BY <2>1, <2>3, <3>1
    <3>2. CASE ~(q = p /\ i = Len(log[p]) + 1)
      <4>1. i \in 1 .. Len(log[q]) /\ log'[q][i] = log[q][i]
        BY <2>3, <3>2
      <4>2. QED
        BY <4>1 DEF Deadlines
    <3>3. QED
      BY <3>1, <3>2
  <2>7. SentOfLog' /\ NothingDeferredIsLost'
    BY <2>4, <2>5 DEF TypeOK, SentOfLog, NothingDeferredIsLost
  <2>8. NeverEarly' /\ ScheduledNeverDiscarded'
    <3>1. \A x \in sent : x.part \in Partitions /\ log'[x.part][x.at] = log[x.part][x.at]
      BY <2>5 DEF TypeOK, SentOfLog
    <3>2. QED
      BY <2>4, <3>1 DEF NeverEarly, ScheduledNeverDiscarded
  <2>9. Ownership' /\ OneHeldPerPartition' /\ OneAhead'
    BY <2>4 DEF Ownership, OneHeldPerPartition, OneAhead, Current, Held
  <2>10. Bookkeeping'
    <3>1. \A q \in Partitions : Len(log[q]) \in Nat /\ Len(log'[q]) \in Nat /\ Len(log[q]) <= Len(log'[q])
      <4>1. \A q \in Partitions : Len(log[q]) \in Nat /\ Len(log'[q]) \in Nat
        BY <2>2 DEF TypeOK
      <4>2. QED
        BY <2>3, <4>1
    <3>2. \A w \in Workers, q \in Partitions : pos[w][q] <= Len(log'[q])
      BY <3>1 DEF Bookkeeping, TypeOK
    <3>3. QED
      BY <2>4, <3>2 DEF Bookkeeping, Held, HandAt
  <2>11. HandReady'
    <3>1. \A w \in Workers : hand[w] # None => InHand(w)' = InHand(w)
      BY <2>4, <2>5, HandTyped DEF InHand, HandAt
    <3>2. QED
      BY <2>4, <3>1 DEF HandReady, Held, Early, HandAt, Bookkeeping
  <2>12. QED
    BY <2>2, <2>6, <2>7, <2>8, <2>9, <2>10, <2>11
<1>21. QED
  BY <1>1, <1>2, <1>3, <1>4, <1>5, <1>6, <1>7, <1>8, <1>9, <1>10, <1>11, <1>12, <1>13, <1>14, <1>15, <1>16, <1>17, <1>18, <1>19, <1>20 DEF Next, WorkerStep

\* The inductive invariant holds in every behaviour of the retry role.
THEOREM Invariant == Spec => []IInv
  BY InitIInv, NextIInv, PTL DEF Spec

\* Every variable keeps its type, and no committed offset passes the end of its
\* partition.
THEOREM TypeCorrect == Spec => []TypeOK
<1>1. IInv => TypeOK
  BY DEF IInv
<1>2. QED
  BY <1>1, Invariant, PTL

\* process_one's fail-closed check never fires: a partition with a held record is
\* paused, and nothing beyond that record has been taken from it.
THEOREM HoldsOne == Spec => []OneHeldPerPartition
<1>1. IInv => OneHeldPerPartition
  BY DEF IInv
<1>2. QED
  BY <1>1, Invariant, PTL

\* No commit of a current assignment overtakes a held record, whoever else joined,
\* left or was superseded meanwhile.
THEOREM HeldFirst == Spec => []HeldIsFirstUncommitted
<1>1. IInv => HeldIsFirstUncommitted
  <2> SUFFICES ASSUME IInv, NEW w \in Workers, NEW p \in Held(w), Current(w)
               PROVE  held[w][p] = committed[p] + 1
    BY DEF HeldIsFirstUncommitted, Current
  <2>1. p \in mine[w] /\ p \in Partitions
    BY DEF IInv, Bookkeeping, Held
  <2>2. held[w][p] = pos[w][p]
    BY <2>1 DEF IInv, OneHeldPerPartition, Held
  <2>3. QED
    BY <2>1, <2>2 DEF IInv, OneAhead
<1>2. QED
  BY <1>1, Invariant, PTL

\* What a worker held when it crashed or lost its partitions is written by a later
\* owner before any commit passes it.
THEOREM NothingLost == Spec => []NothingDeferredIsLost
<1>1. IInv => NothingDeferredIsLost
  BY DEF IInv
<1>2. QED
  BY <1>1, Invariant, PTL

\* No retry is written before its deadline, across crashes and reassignments.
THEOREM RetriesOnTime == Spec => []NeverEarly
<1>1. IInv => NeverEarly
  BY DEF IInv
<1>2. QED
  BY <1>1, Invariant, PTL

\* With a slack that covers the clock skew, no deadline a policy computed is taken
\* for one outside the supported horizon.
THEOREM ScheduledKept == Spec => []ScheduledNeverDiscarded
<1>1. IInv => ScheduledNeverDiscarded
  BY DEF IInv
<1>2. QED
  BY <1>1, Invariant, PTL

\* A commit is of the first uncommitted record of its partition.
LEMMA CommitIsNext ==
    ASSUME IInv, NEW w \in Workers, Commit(w)
    PROVE  /\ hand[w] \in Partitions
           /\ HandAt(w) = committed[hand[w]] + 1
           /\ committed' = [committed EXCEPT ![hand[w]] = @ + 1]
<1>1. hand[w] # None /\ hand[w] \in mine[w] /\ hand[w] \in Partitions /\ Current(w)
  BY DEF IInv, TypeOK, Bookkeeping, Commit, Current
<1>2. HandAt(w) = committed[hand[w]] + 1
  BY <1>1 DEF IInv, OneAhead, HandAt
<1> QED
  BY <1>1, <1>2 DEF Commit, CommitOffset

\* Only a commit moves a committed offset.
LEMMA OthersCommitNothing ==
    ASSUME [Next]_vars, ~\E w \in Workers : Commit(w)
    PROVE  UNCHANGED committed
<1>1. ASSUME NEW w \in Workers, WorkerStep(w) PROVE UNCHANGED committed
  BY <1>1 DEF WorkerStep, Start, TakeDue, SkipEarly, PassEnds, Revoke, Join, Hold, Take,
       PollEmpty, Deliver, CommitRefused
<1>2. ASSUME NEW w \in Workers, Crash(w) \/ DeliverFails(w) PROVE UNCHANGED committed
  BY <1>2 DEF Crash, DeliverFails
<1>3. ASSUME NEW p \in Partitions, Schedule(p) \/ Foreign(p) PROVE UNCHANGED committed
  BY <1>3 DEF Schedule, Foreign, Add
<1>4. ASSUME Tick \/ Disturb \/ Supersede \/ Rebalance PROVE UNCHANGED committed
  BY <1>4 DEF Tick, Disturb, Supersede, Rebalance
<1> QED
  BY <1>1, <1>2, <1>3, <1>4 DEF Next, vars

\* Commits are made offset by offset: none skips a record of the partition and
\* none goes back, although assignments and generations come and go.
THEOREM CommitsInOrder ==
    Spec => [][\A p \in Partitions : committed'[p] \in {committed[p], committed[p] + 1}]_vars
<1>1. IInv /\ [Next]_vars
        => [\A p \in Partitions : committed'[p] \in {committed[p], committed[p] + 1}]_vars
  <2> SUFFICES ASSUME IInv, [Next]_vars
               PROVE  \A p \in Partitions : committed'[p] \in {committed[p], committed[p] + 1}
    OBVIOUS
  <2>1. ASSUME NEW w \in Workers, Commit(w)
        PROVE  \A p \in Partitions : committed'[p] \in {committed[p], committed[p] + 1}
    BY <2>1, CommitIsNext DEF IInv, TypeOK
  <2> QED
    BY <2>1, OthersCommitNothing
<1> QED
  BY <1>1, Invariant, PTL DEF Spec

\* A step that takes nothing leaves each worker's place, or the worker without any.
LEMMA ReachKept ==
    ASSUME IInv, Reach, [Next]_vars
    PROVE  Reach'
<1>1. /\ committed \in [Partitions -> Nat] /\ pos \in [Workers -> [Partitions -> Nat]]
      /\ mine \in [Workers -> SUBSET Partitions]
  BY DEF IInv, TypeOK
<1>2. \A p \in Partitions : committed'[p] \in Nat /\ committed[p] <= committed'[p]
  <2>1. CASE \E w \in Workers : Commit(w)
    BY <1>1, <2>1, CommitIsNext
  <2> QED
    BY <1>1, <2>1, OthersCommitNothing
<1>3. CASE UNCHANGED <<mine, pos>>
  BY <1>1, <1>2, <1>3 DEF Reach
<1>4. ASSUME NEW w \in Workers, Hold(w) \/ Take(w)
      PROVE  Reach'
  <2>1. PICK p \in mine[w] \ paused[w] :
           /\ joined[w] = generation /\ pc[w] = "poll"
           /\ pos' = [pos EXCEPT ![w][p] = @ + 1]
           /\ UNCHANGED <<mine, committed>>
    BY <1>4 DEF Hold, Take, Fetchable, assignment
  <2>2. p \in Partitions /\ pos[w][p] = committed[p]
    <3>1. p \in Partitions /\ p \notin Held(w)
      BY <1>1, <2>1 DEF IInv, OneHeldPerPartition, Held
    <3>2. hand[w] # p
      BY <1>1, <2>1, <3>1, ConstantsAssumption DEF IInv, Bookkeeping
    <3> QED
      BY <2>1, <3>1, <3>2 DEF IInv, OneAhead, Current
  <2> QED
    BY <1>1, <2>1, <2>2 DEF Reach
<1>5. ASSUME NEW w \in Workers, Join(w)
      PROVE  Reach'
  <2>1. /\ pos' = [pos EXCEPT ![w] = committed] /\ UNCHANGED committed
        /\ mine' = [mine EXCEPT ![w] = {p \in Partitions : owner[p] = w}]
    BY <1>5 DEF Join
  <2> QED
    BY <1>1, <2>1 DEF Reach
<1>6. ASSUME NEW w \in Workers, mine' = [mine EXCEPT ![w] = {}],
             \A v \in Workers \ {w} : pos'[v] = pos[v]
      PROVE  Reach'
  BY <1>1, <1>2, <1>6 DEF Reach
<1>7. ASSUME NEW w \in Workers, Revoke(w) \/ Exits(w)
      PROVE  Reach'
  <2>1. mine' = [mine EXCEPT ![w] = {}] /\ \A v \in Workers \ {w} : pos'[v] = pos[v]
    BY <1>1, <1>7 DEF Revoke, Exits
  <2> QED
    BY <1>6, <2>1
<1>8. CASE \E p \in Partitions : Schedule(p) \/ Foreign(p)
  BY <1>3, <1>8 DEF Schedule, Foreign, Add, local
<1>9. CASE Tick \/ Disturb \/ Supersede \/ Rebalance \/ UNCHANGED vars
  BY <1>3, <1>9 DEF Tick, Disturb, Supersede, Rebalance, local, vars
<1>10. ASSUME NEW w \in Workers,
              \/ Start(w) \/ TakeDue(w) \/ SkipEarly(w) \/ PassEnds(w)
              \/ PollEmpty(w) \/ Deliver(w) \/ Commit(w)
       PROVE  Reach'
  BY <1>3, <1>10 DEF Start, TakeDue, SkipEarly, PassEnds, PollEmpty, Deliver, Commit, assignment
<1>11. ASSUME NEW w \in Workers, CommitRefused(w) \/ Crash(w) \/ DeliverFails(w)
       PROVE  Reach'
  BY <1>7, <1>11 DEF CommitRefused, Crash, DeliverFails
<1> QED
  BY <1>4, <1>5, <1>7, <1>8, <1>9, <1>10, <1>11 DEF Next, WorkerStep

\* The state of the one sequential worker that the group of workers stands for.
ArrivedBar == [p \in Partitions |-> Len(log[p])]
WrittenBar == [p \in Partitions |-> Written(p)]
ServingBar == <<ArrivedBar, WrittenBar, committed>>

\* What is in a worker's hand is a record that is committed, or the next one.
LEMMA WritesTheNext ==
    ASSUME IInv, Reach, NEW w \in Workers, pc[w] = "deliver",
           sent' = sent \cup {Output(w)}, UNCHANGED <<log, committed>>
    PROVE  [Q!Next]_ServingBar
<1>1. PICK p \in Partitions, i \in Nat :
        /\ p = hand[w] /\ i = HandAt(w) /\ i = pos[w][p]
        /\ p \in mine[w] /\ i \in 1 .. Len(log[p])
        /\ Len(log[p]) \in Nat /\ committed[p] \in Nat
  <2>1. TypeOK /\ Bookkeeping
    BY DEF IInv
  <2>2. hand[w] # None /\ hand[w] \in mine[w]
    BY <2>1 DEF Bookkeeping
  <2>3. hand[w] \in Partitions /\ HandAt(w) \in 1 .. Len(log[hand[w]])
    BY <2>1, <2>2, HandTyped
  <2>4. \A q \in Partitions : Len(log[q]) \in Nat /\ committed[q] \in Nat
    BY <2>1 DEF TypeOK
  <2>5. HandAt(w) \in Nat /\ HandAt(w) = pos[w][hand[w]]
    BY <2>3, <2>4 DEF HandAt
  <2> QED
    BY <2>2, <2>3, <2>4, <2>5, Zenon
<1>2. i <= committed[p] + 1
  BY <1>1 DEF Reach
<1>3. \A q \in Partitions : Written(q)' = IF q = p THEN Written(q) \cup {i} ELSE Written(q)
  <2>1. Output(w).part = p /\ Output(w).at = i
    BY <1>1 DEF Output
  <2>2. \A q \in Partitions : Written(q)' = {s.at : s \in {r \in sent \cup {Output(w)} : r.part = q}}
    BY DEF Written
  <2>3. {r \in sent \cup {Output(w)} : r.part = p} = {r \in sent : r.part = p} \cup {Output(w)}
    BY <2>1
  <2>4. ASSUME NEW q \in Partitions, q # p
        PROVE  {r \in sent \cup {Output(w)} : r.part = q} = {r \in sent : r.part = q}
    BY <2>1, <2>4
  <2>5. Written(p)' = Written(p) \cup {i}
    BY <2>1, <2>2, <2>3 DEF Written
  <2>6. ASSUME NEW q \in Partitions, q # p
        PROVE  Written(q)' = Written(q)
    BY <2>2, <2>4, <2>6 DEF Written
  <2> QED
    BY <2>5, <2>6
<1>4. UNCHANGED ArrivedBar
  BY DEF ArrivedBar
<1>5. CASE i <= committed[p]
  <2>1. i \in Written(p)
    BY <1>1, <1>5 DEF IInv, NothingDeferredIsLost, Written
  <2> QED
    BY <1>3, <1>4, <2>1 DEF ServingBar, WrittenBar
<1>6. CASE i = committed[p] + 1
  <2>1. WrittenBar' = [WrittenBar EXCEPT ![p] = @ \cup {committed[p] + 1}]
    BY <1>1, <1>3, <1>6 DEF WrittenBar
  <2>2. committed[p] < ArrivedBar[p]
    BY <1>1, <1>6 DEF ArrivedBar
  <2>3. Q!Write(p)
    BY <1>4, <2>1, <2>2 DEF Q!Write, ArrivedBar, WrittenBar
  <2> QED
    BY <1>1, <2>3 DEF Q!Next
<1> QED
  BY <1>1, <1>2, <1>5, <1>6

\* A step that leaves logs, outputs and commits alone is none of the sequential worker's.
LEMMA QuietServing ==
    ASSUME UNCHANGED <<log, sent, committed>>
    PROVE  UNCHANGED ServingBar
  BY DEF ServingBar, ArrivedBar, WrittenBar, Written

\* Each step of the group is a step of the sequential worker, or none.
LEMMA StepServes ==
    ASSUME IInv, Reach, [Next]_vars
    PROVE  [Q!Next]_ServingBar
<1>1. ASSUME NEW p \in Partitions, Schedule(p) \/ Foreign(p)
      PROVE  [Q!Next]_ServingBar
  <2>1. PICK r : log' = [log EXCEPT ![p] = Append(@, r)] /\ UNCHANGED <<sent, committed>>
    BY <1>1 DEF Schedule, Foreign, Add
  <2>2. ArrivedBar' = [ArrivedBar EXCEPT ![p] = @ + 1]
    <3>1. \A q \in Partitions : Len(log'[q]) = IF q = p THEN Len(log[q]) + 1 ELSE Len(log[q])
      BY <2>1 DEF IInv, TypeOK
    <3> QED
      BY <3>1 DEF ArrivedBar
  <2>3. UNCHANGED WrittenBar
    BY <2>1 DEF WrittenBar, Written
  <2>4. Q!Arrive(p)
    BY <2>1, <2>2, <2>3 DEF Q!Arrive, ArrivedBar, WrittenBar
  <2> QED
    BY <2>4 DEF Q!Next
<1>2. ASSUME NEW w \in Workers, Deliver(w) \/ DeliverFails(w)
      PROVE  [Q!Next]_ServingBar
  <2>1. pc[w] = "deliver" /\ UNCHANGED <<log, committed>>
    BY <1>2 DEF Deliver, DeliverFails, Exits, environment
  <2>2. CASE sent' = sent \cup {Output(w)}
    BY <2>1, <2>2, WritesTheNext
  <2>3. CASE UNCHANGED sent
    BY <2>1, <2>3, QuietServing
  <2> QED
    BY <1>2, <2>2, <2>3 DEF Deliver, DeliverFails
<1>3. ASSUME NEW w \in Workers, Commit(w)
      PROVE  [Q!Next]_ServingBar
  <2> DEFINE p == hand[w]
  <2>1. /\ p \in Partitions /\ HandAt(w) = committed[p] + 1
        /\ committed' = [committed EXCEPT ![p] = @ + 1]
    BY <1>3, CommitIsNext
  <2>2. committed[p] + 1 \in WrittenBar[p]
    BY <1>3, <2>1 DEF Commit, IInv, HandReady, WrittenBar, Written
  <2>3. UNCHANGED <<ArrivedBar, WrittenBar>>
    BY <1>3 DEF Commit, environment, ArrivedBar, WrittenBar, Written
  <2>4. Q!Finish(p)
    BY <2>1, <2>2, <2>3 DEF Q!Finish, ArrivedBar, WrittenBar
  <2> QED
    BY <2>1, <2>4 DEF Q!Next
<1>4. ASSUME NEW w \in Workers,
             \/ WorkerStep(w) /\ ~Deliver(w) /\ ~Commit(w)
             \/ Crash(w)
      PROVE  UNCHANGED <<log, sent, committed>>
  BY <1>4 DEF WorkerStep, Start, TakeDue, SkipEarly, PassEnds, Revoke, Join, Hold, Take,
       PollEmpty, CommitRefused, Crash, Exits, environment
<1>5. ASSUME Tick \/ Disturb \/ Supersede \/ Rebalance \/ UNCHANGED vars
      PROVE  UNCHANGED <<log, sent, committed>>
  BY <1>5 DEF Tick, Disturb, Supersede, Rebalance, vars
<1> QED
  BY <1>1, <1>2, <1>3, <1>4, <1>5, QuietServing DEF Next

\* To whoever watches the retry topic, its outputs and the committed offsets, any number
\* of workers that hold records, crash, are superseded and lose their partitions is one
\* worker that writes the next record of a partition and then commits it.
THEOREM ServesInSequence == Spec => ImplementsSequential
<1>1. Init => Reach /\ Q!Init
  <2> SUFFICES ASSUME Init PROVE Reach /\ Q!Init
    OBVIOUS
  <2>1. Reach
    BY DEF Init, Reach
  <2>2. \A p \in Partitions : Written(p) = {} /\ Len(log[p]) = 0
    BY DEF Init, Written
  <2> QED
    BY <2>1, <2>2 DEF Init, Q!Init
<1>2. IInv /\ Reach /\ [Next]_vars => Reach' /\ [Q!Next]_ServingBar
  BY ReachKept, StepServes
<1>3. Q!Spec <=> Q!Init /\ [][Q!Next]_ServingBar
  BY DEF Q!Spec, Q!serving, ServingBar, ArrivedBar, WrittenBar
<1> QED
  BY <1>1, <1>2, <1>3, Invariant, PTL DEF Spec, ImplementsSequential
=============================================================================
