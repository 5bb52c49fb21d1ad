-------------------------- MODULE MCStreamPipeline --------------------------
(***************************************************************************)
(* Small instances of StreamPipeline.  e1 is an ordinary event on which    *)
(* a stage may fail transiently; e2 is one whose payload does not satisfy  *)
(* a contract; e3 is one on which a stage always raises.                   *)
(***************************************************************************)
EXTENDS StreamPipeline, TLC

CONSTANTS e1, e2, e3, p1, p2, n1, r1, s1

AllRoles == [w \in Workers |-> CASE w \in {p1, p2} -> "parser"
                                 [] w = n1         -> "normalizer"
                                 [] w = r1         -> "retry"
                                 [] OTHER          -> "sink"]

NoEvents == [s \in Stages |-> {}]

FlakyEverywhere == [s \in Stages |-> {e1}]

FlakyNormalizing == [s \in Stages |-> IF s = "normalizer" THEN {e1} ELSE {}]

\* A raw envelope that does not satisfy its contract.
BadEnvelope == [s \in Stages |-> IF s = "parser" THEN {e2} ELSE {}]

\* A Suricata record whose timestamp has no time zone: the normalizer compares
\* it with an aware one and raises TypeError.
NaiveTimestamp == [s \in Stages |-> IF s = "normalizer" THEN {e3} ELSE {}]

ParserSymmetry == Permutations({p1, p2})
=============================================================================
