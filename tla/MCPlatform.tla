----------------------------- MODULE MCPlatform -----------------------------
(***************************************************************************)
(* A small instance of Platform: one transport thread, a parser, a         *)
(* normalizer and a sink, one event they all understand and one that the   *)
(* normalizer always raises on.                                            *)
(***************************************************************************)
EXTENDS Platform

CONSTANTS tcp, a, empty, p1, n1, s1

AllRoles == [w \in Workers |-> CASE w = p1 -> "parser"
                                 [] w = n1 -> "normalizer"
                                 [] OTHER  -> "sink"]

NoEvents == [s \in {"parser", "normalizer"} |-> {}]

NormalizerRaises == [s \in {"parser", "normalizer"} |-> IF s = "normalizer" THEN {2} ELSE {}]
=============================================================================
