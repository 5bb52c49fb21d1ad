--------------------------- MODULE PlatformProofs ---------------------------
(***************************************************************************)
(* From acceptance to rest: what the theorems about the collector and      *)
(* about the workers give together.                                        *)
(***************************************************************************)
EXTENDS Platform, TLAPS

\* To the collector every step of the platform is a step of its own or none.
LEMMA CollectorRuns == Spec => Collector!Spec
<1>1. Init => Collector!Init
  BY DEF Init
<1>2. UNCHANGED collectorVars => UNCHANGED Collector!vars
  BY DEF collectorVars, Collector!vars, Collector!event, Collector!archive, Collector!rejected,
         Collector!broker, Collector!stream
<1>3. [Next]_vars => [Collector!Next]_(Collector!vars)
  BY <1>2 DEF Next, vars, Collects, HandsOver, Works, Collector!Next, Ids, Collector!Ids
<1> QED
  BY <1>1, <1>3, PTL DEF Spec, Collector!Spec

\* Likewise for the workers.
LEMMA StreamRuns == Spec => Stream!Spec
<1>1. Init => Stream!Init
  BY DEF Init
<1>2. UNCHANGED workerVars => UNCHANGED Stream!vars
  BY DEF workerVars, Stream!vars
<1>3. [Next]_vars => [Stream!Next]_(Stream!vars)
  BY <1>2 DEF Next, vars, Collects, HandsOver, Works, Stream!Next, Ids
<1> QED
  BY <1>1, <1>3, PTL DEF Spec, Stream!Spec

\* The assumptions of both are those of the platform.
LEMMA ConstantsFit ==
    /\ Collector!IsFiniteSet(Threads)
    /\ CacheSize \in Nat \ {0} /\ MaxEvents \in Nat /\ MaxFaults \in Nat
    /\ Payloads \cap Unfit = {}
    /\ None \notin Payloads \cup Unfit \cup (1 .. MaxEvents)
    /\ None \notin Workers
  BY ConstantsAssumption DEF IsFiniteSet, Collector!IsFiniteSet

BothInvariants == Collector!IInv /\ Collector!OnePublisher /\ Stream!IInv

\* So their invariants hold throughout.
LEMMA Invariants == Spec => []BothInvariants
<1>1. Collector!Spec => []Collector!IInv
  BY ConstantsFit, Collector!Invariant, PTL
<1>2. Collector!Spec => []Collector!OnePublisher
  BY ConstantsFit, Collector!OneIsUsed, PTL
<1>3. Stream!Spec => []Stream!IInv
  BY ConstantsFit, ConstantsAssumption, Stream!Invariant, PTL
<1> QED
  BY <1>1, <1>2, <1>3, CollectorRuns, StreamRuns, PTL DEF BothInvariants

\* What the collector does besides publishing changes nothing for the workers.
LEMMA CollectingMoves ==
    ASSUME BothInvariants, BothInvariants', Collects
    PROVE  /\ \A i \in Ids : Stream!CustodyOf(i)' = Stream!CustodyOf(i)
           /\ UNCHANGED publisher /\ (publisher = "kafka" => UNCHANGED topic)
<1>1. UNCHANGED Stream!CustodyBar
  BY ConstantsFit, ConstantsAssumption, Stream!QuietCustody
  DEF BothInvariants, Collects, workerVars
<1>2. \A i \in Ids : Stream!CustodyOf(i)' = Stream!CustodyOf(i)
  BY <1>1 DEF Stream!CustodyBar, Ids
<1>3. UNCHANGED publisher
  BY ConstantsFit, Collector!PublisherStays DEF BothInvariants, Collects, Collector!Next
<1> QED
  BY <1>2, <1>3 DEF Collects

\* A publication to the broker brings its event to the workers, unless they had it already.
LEMMA HandingMoves ==
    ASSUME BothInvariants, BothInvariants', NEW i \in Ids, HandsOver(i)
    PROVE  /\ publisher = "kafka" /\ UNCHANGED publisher /\ topic' = topic \cup {i}
           /\ Collector!CustodyOf(i) # "outside" /\ Collector!CustodyOf(i)' = "settled"
           /\ Stream!CustodyOf(i)' = IF Stream!CustodyOf(i) = "outside" THEN "held"
                                     ELSE Stream!CustodyOf(i)
           /\ \A j \in Ids \ {i} : /\ Collector!CustodyOf(j)' = Collector!CustodyOf(j)
                                   /\ Stream!CustodyOf(j)' = Stream!CustodyOf(j)
<1>1. UNCHANGED publisher
  BY ConstantsFit, Collector!PublisherStays
  DEF BothInvariants, HandsOver, Collector!Next, Ids, Collector!Ids
<1>2. /\ publisher = "kafka" /\ topic' = topic \cup {i}
      /\ Collector!CustodyOf(i) # "outside" /\ Collector!CustodyOf(i)' = "settled"
      /\ \A j \in Ids \ {i} : Collector!CustodyOf(j)' = Collector!CustodyOf(j)
  BY ConstantsFit, Collector!PublishingIsOfArchived
  DEF BothInvariants, HandsOver, Ids, Collector!Ids
<1>3. /\ Stream!CustodyOf(i)' = IF Stream!CustodyOf(i) = "outside" THEN "held"
                                ELSE Stream!CustodyOf(i)
      /\ \A j \in Ids \ {i} : Stream!CustodyOf(j)' = Stream!CustodyOf(j)
  BY ConstantsFit, ConstantsAssumption, Stream!EnterMoves DEF BothInvariants, HandsOver, Ids
<1> QED
  BY <1>1, <1>2, <1>3

\* The workers settle events or change no custody, and leave the collector's alone.
LEMMA WorkingMoves ==
    ASSUME BothInvariants, BothInvariants', NEW w \in Workers, Works(w)
    PROVE  /\ \A i \in Ids : /\ Collector!CustodyOf(i)' = Collector!CustodyOf(i)
                            /\ \/ Stream!CustodyOf(i)' = Stream!CustodyOf(i)
                               \/ /\ Stream!CustodyOf(i) = "held"
                                  /\ Stream!CustodyOf(i)' = "settled"
           /\ UNCHANGED <<publisher, topic>>
<1>1. \A i \in Ids : \/ Stream!CustodyOf(i)' = Stream!CustodyOf(i)
                     \/ Stream!CustodyOf(i) = "held" /\ Stream!CustodyOf(i)' = "settled"
  BY ConstantsFit, ConstantsAssumption, Stream!WorkMoves DEF BothInvariants, Works, Ids
<1>2. UNCHANGED <<publisher, topic, rawFile, metaFile>>
  BY DEF Works, collectorVars
<1>3. \A i \in Ids : Collector!CustodyOf(i)' = Collector!CustodyOf(i)
  BY <1>2 DEF Collector!CustodyOf, Collector!Replayable
<1> QED
  BY <1>1, <1>2, <1>3

\* Both are given an event they did not have, or they both were not.
LEMMA TopicKept == BothInvariants /\ BothInvariants' /\ TopicIsRaw /\ [Next]_vars => TopicIsRaw'
<1> SUFFICES ASSUME BothInvariants, BothInvariants', TopicIsRaw, [Next]_vars
             PROVE  TopicIsRaw'
  OBVIOUS
<1>1. CASE Collects
  BY <1>1, CollectingMoves DEF TopicIsRaw
<1>2. ASSUME NEW i \in Ids, HandsOver(i)  PROVE TopicIsRaw'
  BY <1>2, HandingMoves DEF TopicIsRaw
<1>3. ASSUME NEW w \in Workers, Works(w)  PROVE TopicIsRaw'
  BY <1>3, WorkingMoves DEF TopicIsRaw
<1>4. CASE UNCHANGED vars
  <2>1. UNCHANGED Stream!CustodyBar
    BY <1>4, ConstantsFit, ConstantsAssumption, Stream!QuietCustody
    DEF BothInvariants, vars, workerVars
  <2>2. \A i \in Ids : Stream!CustodyOf(i)' = Stream!CustodyOf(i)
    BY <2>1 DEF Stream!CustodyBar, Ids
  <2>3. UNCHANGED <<publisher, topic>>
    BY <1>4 DEF vars, collectorVars
  <2> QED  BY <2>2, <2>3 DEF TopicIsRaw
<1> QED  BY <1>1, <1>2, <1>3, <1>4 DEF Next

\* The raw topic of the collector is the one the workers consume: an event is among the
\* workers exactly when it was published to the broker.
THEOREM HalvesMeet == Spec => []TopicIsRaw
<1>1. Init => Collector!Init /\ Stream!Init
  BY DEF Init
<1>2. Init /\ BothInvariants => TopicIsRaw
  <2> SUFFICES ASSUME Init, BothInvariants  PROVE TopicIsRaw
    OBVIOUS
  <2>1. topic = {} /\ records = [t \in Stream!Topics |-> <<>>]
    BY <1>1 DEF Collector!Init, Stream!Init
  <2>2. \A i \in Ids : ~Stream!Accepted(i)
    BY <2>1 DEF Stream!Accepted, Stream!At, Stream!Offsets
  <2>3. \A i \in Ids : Stream!CustodyOf(i) = "outside"
    BY <2>2, ConstantsFit, ConstantsAssumption, Stream!Names DEF Stream!CustodyOf, Stream!Settled, Stream!Waiting,
       Stream!Accepted
  <2> QED  BY <2>1, <2>3 DEF TopicIsRaw
<1> QED
  BY <1>2, TopicKept, Invariants, PTL DEF Spec

\* The custody of an event is the workers' once they have it, and the collector's until then.
LEMMA CustodyForm ==
    BothInvariants /\ TopicIsRaw => \A i \in Ids :
        /\ CustodyOf(i) = IF Stream!CustodyOf(i) = "outside" THEN Collector!CustodyOf(i)
                          ELSE Stream!CustodyOf(i)
        /\ Collector!CustodyOf(i) \in {"outside", "held", "settled"}
        /\ Stream!CustodyOf(i) \in {"outside", "held", "settled"}
        /\ Collector!CustodyOf(i) = "settled" <=> i \in topic
        /\ Stream!CustodyOf(i) # "outside" => i \in topic
<1> SUFFICES ASSUME BothInvariants, TopicIsRaw, NEW i \in Ids
             PROVE  /\ CustodyOf(i) = IF Stream!CustodyOf(i) = "outside"
                                       THEN Collector!CustodyOf(i) ELSE Stream!CustodyOf(i)
                    /\ Collector!CustodyOf(i) \in {"outside", "held", "settled"}
                    /\ Stream!CustodyOf(i) \in {"outside", "held", "settled"}
                    /\ Collector!CustodyOf(i) = "settled" <=> i \in topic
                    /\ Stream!CustodyOf(i) # "outside" => i \in topic
  OBVIOUS
<1>1. Collector!CustodyOf(i) = IF ~Collector!Replayable(i) THEN "outside"
                               ELSE IF i \in topic THEN "settled" ELSE "held"
  BY ConstantsFit, Collector!CustodyForm DEF BothInvariants, Ids, Collector!Ids
<1>2. i \in topic => Collector!Replayable(i)
  BY DEF BothInvariants, Collector!IInv, Collector!PublishedIsArchived
<1>3. Stream!CustodyOf(i) \in {"outside", "held", "settled"}
  BY ConstantsFit, ConstantsAssumption, Stream!CustodyForm DEF BothInvariants, Ids
<1>4. Stream!CustodyOf(i) # "outside" <=> publisher = "kafka" /\ i \in topic
  BY DEF TopicIsRaw
<1>5. publisher \in {"kafka", "file"}
  BY DEF BothInvariants, Collector!OnePublisher
<1> QED
  BY <1>1, <1>2, <1>3, <1>4, <1>5 DEF CustodyOf

\* The same after a step.
LEMMA CustodyFormNext ==
   (BothInvariants /\ TopicIsRaw => \A i \in Ids :
        /\ CustodyOf(i) = IF Stream!CustodyOf(i) = "outside" THEN Collector!CustodyOf(i)
                          ELSE Stream!CustodyOf(i)
        /\ Collector!CustodyOf(i) \in {"outside", "held", "settled"}
        /\ Stream!CustodyOf(i) \in {"outside", "held", "settled"}
        /\ Collector!CustodyOf(i) = "settled" <=> i \in topic
        /\ Stream!CustodyOf(i) # "outside" => i \in topic)'
  BY CustodyForm, PTL

CustodyBar == [i \in Ids |-> CustodyOf(i)]

\* What the collector takes into custody, or publishes to its file, it does for both.
LEMMA CollectingDelivers ==
    ASSUME BothInvariants, BothInvariants', TopicIsRaw, TopicIsRaw', Collects,
           [Collector!D!Next]_(Collector!CustodyBar)
    PROVE  [Whole!Next]_CustodyBar
<1>1. \A i \in Ids : Stream!CustodyOf(i)' = Stream!CustodyOf(i)
  BY CollectingMoves
<1>2. ASSUME UNCHANGED Collector!CustodyBar
      PROVE  UNCHANGED CustodyBar
  <2>1. \A i \in Ids : Collector!CustodyOf(i)' = Collector!CustodyOf(i)
    BY <1>2 DEF Collector!CustodyBar, Ids, Collector!Ids
  <2>2. \A i \in Ids : CustodyOf(i)' = CustodyOf(i)
    BY <1>1, <2>1, CustodyForm, CustodyFormNext
  <2> QED  BY <2>2 DEF CustodyBar
<1>3. ASSUME NEW e \in Collector!Ids, Collector!D!Accept(e)
      PROVE  Whole!Accept(e)
  <2>1. /\ e \in Ids
        /\ Collector!CustodyOf(e) = "outside" /\ Collector!CustodyOf(e)' = "held"
        /\ \A i \in Ids \ {e} : Collector!CustodyOf(i)' = Collector!CustodyOf(i)
    BY <1>3 DEF Collector!D!Accept, Ids, Collector!Ids
  <2>2. /\ CustodyOf(e) = "outside" /\ CustodyOf(e)' = "held"
        /\ \A i \in Ids \ {e} : CustodyOf(i)' = CustodyOf(i)
    BY <1>1, <2>1, CustodyForm, CustodyFormNext
  <2> QED  BY <2>1, <2>2 DEF Whole!Accept
<1>4. ASSUME NEW resting \in SUBSET Collector!Ids, Collector!D!Settle(resting)
      PROVE  Whole!Settle(resting)
  <2>1. /\ resting \in SUBSET Ids
        /\ \A i \in resting : Collector!CustodyOf(i) = "held"
        /\ \A i \in Ids : Collector!CustodyOf(i)' = IF i \in resting THEN "settled"
                                                   ELSE Collector!CustodyOf(i)
    BY <1>4 DEF Collector!D!Settle, Ids, Collector!Ids
  <2>2. /\ \A i \in resting : CustodyOf(i) = "held"
        /\ \A i \in Ids : CustodyOf(i)' = IF i \in resting THEN "settled" ELSE CustodyOf(i)
    BY <1>1, <2>1, CustodyForm, CustodyFormNext
  <2> QED  BY <2>1, <2>2 DEF Whole!Settle
<1> QED
  BY <1>2, <1>3, <1>4 DEF Collector!D!Next, Whole!Next, Ids, Collector!Ids

\* A publication passes custody from the one half to the other.
LEMMA HandingDelivers ==
    ASSUME BothInvariants, BothInvariants', TopicIsRaw, TopicIsRaw',
           NEW i \in Ids, HandsOver(i)
    PROVE  UNCHANGED CustodyBar
<1>1. \A j \in Ids \ {i} : CustodyOf(j)' = CustodyOf(j)
  BY HandingMoves, CustodyForm, CustodyFormNext
<1>2. CustodyOf(i)' = CustodyOf(i)
  BY HandingMoves, CustodyForm, CustodyFormNext DEF TopicIsRaw
<1> QED
  BY <1>1, <1>2 DEF CustodyBar

\* The workers settle what is in custody.
LEMMA WorkingDelivers ==
    ASSUME BothInvariants, BothInvariants', TopicIsRaw, TopicIsRaw',
           NEW w \in Workers, Works(w)
    PROVE  [Whole!Next]_CustodyBar
<1> DEFINE resting == {i \in Ids : CustodyOf(i)' # CustodyOf(i)}
<1>1. \A i \in Ids : \/ CustodyOf(i)' = CustodyOf(i)
                     \/ CustodyOf(i) = "held" /\ CustodyOf(i)' = "settled"
  BY WorkingMoves, CustodyForm, CustodyFormNext
<1>2. Whole!Settle(resting)
  BY <1>1 DEF Whole!Settle
<1> QED
  BY <1>2 DEF Whole!Next

\* From the archive to the tables or the dead letters no accepted event is given up:
\* the collector and the workers together implement the custody specification that each
\* of them implements for its part.
THEOREM PlatformDelivers == Spec => ImplementsDelivery
<1>1. Init /\ BothInvariants /\ TopicIsRaw => Whole!Init
  <2> SUFFICES ASSUME Init, BothInvariants, TopicIsRaw  PROVE Whole!Init
    OBVIOUS
  <2>1. topic = {} /\ rawFile = [i \in Ids |-> "absent"]
    BY DEF Init, Collector!Init, Ids, Collector!Ids
  <2>2. \A i \in Ids : Collector!CustodyOf(i) = "outside"
    BY <2>1 DEF Collector!CustodyOf, Collector!Replayable
  <2>3. \A i \in Ids : CustodyOf(i) = "outside"
    BY <2>1, <2>2, CustodyForm
  <2> QED  BY <2>3 DEF Whole!Init
<1>2. /\ BothInvariants /\ BothInvariants' /\ TopicIsRaw /\ TopicIsRaw'
      /\ [Collector!D!Next]_(Collector!CustodyBar) /\ [Next]_vars
      => [Whole!Next]_CustodyBar
  <2> SUFFICES ASSUME BothInvariants, BothInvariants', TopicIsRaw, TopicIsRaw',
                      [Collector!D!Next]_(Collector!CustodyBar), [Next]_vars
               PROVE  [Whole!Next]_CustodyBar
    OBVIOUS
  <2>1. CASE Collects
    BY <2>1, CollectingDelivers
  <2>2. ASSUME NEW i \in Ids, HandsOver(i)  PROVE UNCHANGED CustodyBar
    BY <2>2, HandingDelivers
  <2>3. ASSUME NEW w \in Workers, Works(w)  PROVE [Whole!Next]_CustodyBar
    BY <2>3, WorkingDelivers
  <2>4. CASE UNCHANGED vars
    <3>1. UNCHANGED <<publisher, topic, rawFile, metaFile>> /\ UNCHANGED Stream!vars
      BY <2>4 DEF vars, collectorVars, workerVars, Stream!vars
    <3>2. UNCHANGED Stream!CustodyBar
      BY <3>1, ConstantsFit, ConstantsAssumption, Stream!QuietCustody
      DEF BothInvariants, Stream!vars
    <3>3. \A i \in Ids : /\ Stream!CustodyOf(i)' = Stream!CustodyOf(i)
                         /\ Collector!CustodyOf(i)' = Collector!CustodyOf(i)
      BY <3>1, <3>2 DEF Stream!CustodyBar, Ids, Collector!CustodyOf, Collector!Replayable
    <3>4. \A i \in Ids : CustodyOf(i)' = CustodyOf(i)
      BY <3>3, CustodyForm, CustodyFormNext
    <3> QED  BY <3>4 DEF CustodyBar
  <2> QED  BY <2>1, <2>2, <2>3, <2>4 DEF Next
<1>3. Collector!Spec => Collector!ImplementsDelivery
  BY ConstantsFit, Collector!CollectorDelivers, PTL
<1>4. Collector!ImplementsDelivery => [][Collector!D!Next]_(Collector!CustodyBar)
  BY DEF Collector!ImplementsDelivery, Collector!D!SafeSpec, Collector!CustodyBar
<1>5. Whole!SafeSpec <=> Whole!Init /\ [][Whole!Next]_CustodyBar
  BY DEF Whole!SafeSpec, CustodyBar
<1> QED
  BY <1>1, <1>2, <1>3, <1>4, <1>5, CollectorRuns, Invariants, HalvesMeet, PTL
  DEF Spec, ImplementsDelivery

\* Whoever is told that an event is accepted can rely on that custody: with a broker the
\* workers have the event until it rests, without one it is in the archive.
THEOREM AcceptedArrive == Spec => []AcceptedReachesWorkers
<1>1. BothInvariants /\ TopicIsRaw => AcceptedReachesWorkers
  <2> SUFFICES ASSUME BothInvariants, TopicIsRaw, NEW i \in Ids, outcome[i] = "accepted"
               PROVE  IF publisher = "kafka" THEN Stream!CustodyOf(i) \in {"held", "settled"}
                      ELSE Collector!CustodyOf(i) \in {"held", "settled"}
    BY DEF AcceptedReachesWorkers
  <2>1. Collector!Replayable(i) /\ i \in topic \cup swallowed
    BY DEF BothInvariants, Collector!IInv, Collector!AcceptedPublished, Ids, Collector!Ids
  <2>2. publisher = "kafka" => i \in topic
    BY <2>1 DEF BothInvariants, Collector!OnePublisher
  <2>3. publisher = "kafka" => Stream!CustodyOf(i) # "outside"
    BY <2>2 DEF TopicIsRaw
  <2>4. Collector!CustodyOf(i) # "outside"
    BY <2>1 DEF Collector!CustodyOf
  <2> QED
    BY <2>3, <2>4, CustodyForm
<1> QED
  BY <1>1, Invariants, HalvesMeet, PTL
=============================================================================
