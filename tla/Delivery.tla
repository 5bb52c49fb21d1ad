------------------------------ MODULE Delivery ------------------------------
(***************************************************************************)
(* What each half of the platform promises to whoever hands it an event.   *)
(* Once an event is accepted it stays in custody until it settles: the     *)
(* collector keeps it in its archive until it is published, the streaming  *)
(* path in a topic until it rests in the analytical tables or among the    *)
(* dead letters.  There is no third outcome: nothing is lost, and nothing  *)
(* that settled becomes unsettled.  docs/container-stack.md calls this     *)
(* "at-least-once processing, not an exactly-once delivery claim".         *)
(***************************************************************************)
CONSTANT Events

VARIABLE custody

CustodyState == {"outside", "held", "settled"}

TypeOK == custody \in [Events -> CustodyState]

Init == custody = [e \in Events |-> "outside"]

\* The event is handed over.
Accept(e) ==
    /\ custody[e] = "outside"
    /\ custody' = [custody EXCEPT ![e] = "held"]

\* Events reach their resting place, one by one or, when a process ends, together.
Settle(resting) ==
    /\ \A e \in resting : custody[e] = "held"
    /\ custody' = [e \in Events |-> IF e \in resting THEN "settled" ELSE custody[e]]

Next ==
    \/ \E e \in Events : Accept(e)
    \/ \E resting \in SUBSET Events : Settle(resting)

SafeSpec == Init /\ [][Next]_custody

\* The promise to whoever is still waiting: custody ends.
Liveness == \A e \in Events : (custody[e] = "held") ~> (custody[e] = "settled")
=============================================================================
