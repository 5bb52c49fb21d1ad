--------------------------- MODULE Normalization ---------------------------
(***************************************************************************)
(* From a ParsedEvent to a UnifiedEvent: the mappings of                   *)
(* src/normalization/mappings, UniversalNormalizer.normalize, and the      *)
(* rules validate_event checks.  Pure operators.                           *)
(*                                                                         *)
(* A unified event keeps the sections the rules relate to one another;     *)
(* names, messages, addresses and extensions are present or absent.        *)
(***************************************************************************)
EXTENDS SourcePacks

Labels == {"informational", "low", "medium", "high", "critical", "unknown"}

\* SYSLOG_SEVERITY: score and label by syslog code.
SyslogSeverity == [c \in 0 .. 7 |->
    CASE c = 0 -> <<10, "critical">>  [] c = 1 -> <<9, "critical">>
      [] c = 2 -> <<8, "high">>       [] c = 3 -> <<7, "high">>
      [] c = 4 -> <<5, "medium">>     [] c = 5 -> <<4, "medium">>
      [] c = 6 -> <<2, "low">>        [] c = 7 -> <<0, "informational">>]

UnknownSeverity == <<0, "unknown">>
NoSeverity == "Source severity is missing or unrecognized"

\* syslog_severity: the severity, and the warning that goes with an unknown one.
SyslogScore(code) ==
    IF code \in DOMAIN SyslogSeverity THEN [sev |-> SyslogSeverity[code], warn |-> {}]
    ELSE [sev |-> UnknownSeverity, warn |-> {NoSeverity}]

\* FORTINET_SEVERITY, for the levels the lines tell apart.
FortinetSeverity == [w \in {"warning", "debug"} |->
    IF w = "warning" THEN <<5, "medium">> ELSE <<0, "informational">>]

\* SURICATA_SEVERITY, by alert.severity.
SuricataSeverity == [r \in {"1", "3"} |-> IF r = "1" THEN <<8, "high">> ELSE <<2, "low">>]

\* MappingResult.  src, dst: the endpoint has an IP address; network: the section exists.
Mapping(category, action, sev, src, dst, network, threat, auth, time, missing, warnings) ==
    [category |-> category, action |-> action, sev |-> sev, src |-> src, dst |-> dst,
     network |-> network, threat |-> threat, auth |-> auth, time |-> time,
     missing |-> missing, warnings |-> warnings]

UnknownAction == <<"unknown", "unknown">>

Lacking(src, dst, transport) ==
    (IF src THEN {} ELSE {"source.ip"}) \cup (IF dst THEN {} ELSE {"destination.ip"})
    \cup (IF transport THEN {} ELSE {"network.transport"})
NoMessage(text) == IF text THEN {} ELSE {"event.message"}

AsaAction(verb) ==
    CASE verb \in {"Deny"} -> <<"deny", "failure">>
      [] verb \in {"Built", "permitted"} -> <<"allow", "success">>
      [] verb = "Teardown" -> <<"disconnect", "success">>
      [] OTHER -> UnknownAction

\* CiscoASAMapping.map.  A denied ACL hit says "denied", which holds no "deny".
CiscoMapping(e) ==
    LET full == e.fields = "all"
        ip == full /\ e.line.ips
        lacking == Lacking(ip, ip, full /\ e.line.tcp)
        score == IF e.fields = "none" THEN SyslogScore(-1) ELSE SyslogScore(e.line.sev)
    IN Mapping(IF lacking = {} THEN "network" ELSE "unknown",
               IF full THEN AsaAction(e.line.verb) ELSE UnknownAction,
               score.sev, ip, ip, lacking = {}, FALSE, "none", "none",
               lacking \cup NoMessage(e.fields # "none"), score.warn)

\* FortinetFortigateMapping.map.
FortinetMapping(e) ==
    LET l == e.line
        full == e.fields = "all"
        networkFamily == full /\ l.type = "traffic"
        lacking == IF networkFamily THEN Lacking(l.src, l.dst, l.tcp) ELSE {}
        isNetwork == networkFamily /\ lacking = {}
        login == full /\ l.verb = "login" /\ l.user
        outcome == CASE l.status = "failed" -> "failure"
                     [] l.status = "success" -> "success"
                     [] OTHER -> "unknown"
        rated == full /\ l.level \in DOMAIN FortinetSeverity
    IN Mapping(IF login THEN "authentication"
               ELSE IF isNetwork THEN "network"
               ELSE IF networkFamily THEN "unknown" ELSE "system",
               IF login THEN <<"authenticate", outcome>>
               ELSE IF full /\ l.verb = "deny" THEN <<"block", "failure">>
               ELSE IF full /\ l.verb = "accept" THEN <<"allow", "success">>
               ELSE UnknownAction,
               IF rated THEN FortinetSeverity[l.level] ELSE UnknownSeverity,
               full /\ l.src, full /\ l.dst, isNetwork, FALSE,
               IF login THEN outcome ELSE "none", "none",
               lacking \cup NoMessage(full /\ l.text),
               IF rated THEN {} ELSE {NoSeverity})

\* GenericLinuxSyslogMapping.map.  Lines of another kind carry a PRI of severity 5.
LinuxMapping(e) ==
    LET full == e.fields = "all"
        score == IF ~full THEN SyslogScore(-1)
                 ELSE SyslogScore(IF e.line.kind = "sys" THEN e.line.sev ELSE 5)
        text == full /\ (e.line.kind = "sys" => e.line.text)
    IN Mapping("system", UnknownAction, score.sev, FALSE, FALSE, FALSE, FALSE, "none", "none",
               NoMessage(text), score.warn)

\* SuricataEveMapping._action, _severity.
EveAction(l) == IF l.type # "alert" THEN <<"connect", "success">>
                ELSE IF l.body = "object" /\ l.blocked THEN <<"block", "failure">>
                ELSE <<"detect", "success">>
EveSeverity(l) == IF l.type # "alert" THEN <<0, "informational">>
                  ELSE IF l.body = "object" /\ l.rating \in DOMAIN SuricataSeverity
                  THEN SuricataSeverity[l.rating] ELSE UnknownSeverity

\* SuricataEveMapping._message: only an alert without a signature has a body and no text.
EveText(l) == l.type \in EveTypes /\ l.body = "object" /\ (l.type = "alert" => l.text)

\* SuricataEveMapping.map.  Lines without an address have no port or interface either.
SuricataMapping(e) ==
    LET l == e.line
        full == e.fields = "all"
        type == IF full THEN l.type ELSE "none"
        category == CASE type = "alert" -> "intrusion_detection"
                      [] type \in {"flow", "dns"} -> "network"
                      [] type = "http" -> "web"
                      [] OTHER -> "unknown"
    IN Mapping(IF category = "network" /\ ~(l.src /\ l.dst) THEN "unknown" ELSE category,
               IF full THEN EveAction(l) ELSE <<"connect", "success">>,
               IF full THEN EveSeverity(l) ELSE <<0, "informational">>,
               full /\ l.src, full /\ l.dst, TRUE, type = "alert", "none",
               IF full /\ l.time \in {"past", "future"} THEN l.time ELSE "none",
               (IF type \in {"flow", "dns"} THEN Lacking(l.src, l.dst, TRUE) ELSE {})
                 \cup NoMessage(full /\ EveText(l)), {})

\* UniversalNormalizer._unknown_mapping.
UnknownMapping ==
    Mapping("unknown", UnknownAction, UnknownSeverity, FALSE, FALSE, FALSE, FALSE, "none", "none",
            {"normalization.mapping"}, {"No normalization mapping is registered"})

\* NormalizationRegistry.get and map(): the packs default_registry() registers.
MappingOf(e) == CASE e.pack = "cisco_asa" -> CiscoMapping(e)
                  [] e.pack = "fortinet_fortigate" -> FortinetMapping(e)
                  [] e.pack = "generic_linux_syslog" -> LinuxMapping(e)
                  [] e.pack = "suricata_eve" -> SuricataMapping(e)
                  [] OTHER -> UnknownMapping

\* What leaves normalize() as an exception: a body without .get(), a rating that cannot be a
\* dictionary key, a timestamp without a zone compared with one that has it.
NormalizerRaises(e) ==
    /\ e.pack = "suricata_eve" /\ e.fields = "all"
    /\ \/ e.line.type = "alert" /\ e.line.body = "scalar"
       \/ e.line.type = "alert" /\ e.line.body = "object" /\ e.line.rating = "list"
       \/ e.line.time = "naive"
-----------------------------------------------------------------------------
\* _quality_status.
QualityStatus(status, missing, warnings) ==
    IF status = "failed" THEN "invalid"
    ELSE IF status = "unrecognized" THEN "unknown"
    ELSE IF status = "partial" \/ missing \cup warnings # {} THEN "partial" ELSE "valid"

\* _confidence, in tenths.
Confidence(status, missing, warnings) ==
    IF status \in {"failed", "unrecognized"} THEN 0
    ELSE IF status = "partial" \/ missing \cup warnings # {} THEN 5 ELSE 10

Latest(a, b) == IF a >= b THEN a ELSE b

\* A clock reading: when the envelope, the parser and the normalizer read the time.
\* Clocks are not monotonic, and envelope and parser may be on other hosts.
Readings == [ingested : Int, parsed : Int, now : Int]

\* The source's own timestamp, relative to the ingestion it is compared with.
SourceTime(m, at) == CASE m.time = "past" -> at.ingested - 1
                       [] m.time = "future" -> at.ingested + 1
                       [] OTHER -> at.ingested

\* Seeded fault: the source's timestamp is taken as it is.
ObservedAtTrusted(m, at) == SourceTime(m, at)

\* The time section: a source that is ahead of the ingestion is not trusted.
ObservedAt(m, at) ==
    IF SourceTime(m, at) > at.ingested THEN at.ingested ELSE SourceTime(m, at)
NormalizedAt(at) == Latest(at.now, Latest(at.parsed, at.ingested))

\* Missing fields and warnings, as normalize() collects them before it rates the event.
Unnamed(e) == IF e.pack = NoPack THEN {"observer.vendor", "observer.product"} ELSE {}
MissingOf(e, m) == m.missing \cup Unnamed(e)
WarningsOf(e, m, at) ==
    m.warnings \cup e.issues \cup Unnamed(e)
    \cup (IF SourceTime(m, at) > at.ingested THEN {"Source timestamp was not trusted"} ELSE {})

\* normalize() up to the validation.
Unified(e, at) ==
    LET m == MappingOf(e)
        missing == MissingOf(e, m)
        warnings == WarningsOf(e, m, at)
    IN [pack |-> e.pack, category |-> m.category, action |-> m.action, sev |-> m.sev,
        src |-> m.src, dst |-> m.dst, network |-> m.network, threat |-> m.threat,
        auth |-> m.auth, observed |-> ObservedAt(m, at), ingested |-> at.ingested,
        normalized |-> NormalizedAt(at), missing |-> missing, warnings |-> warnings,
        confidence |-> Confidence(e.status, missing, warnings),
        status |-> QualityStatus(e.status, missing, warnings)]

Rule(broken, name) == IF broken THEN {name} ELSE {}

\* validate_structure: the sections the schema requires of a category.
StructureRules(u) ==
    Rule(u.category = "network" /\ ~(u.src /\ u.dst /\ u.network), "required")
    \cup Rule(u.category = "intrusion_detection" /\ ~u.threat, "required")
    \cup Rule(u.category = "authentication" /\ u.auth = "none", "required")

\* The label a score calls for.
LabelFor(score) == CASE score = 0 -> "informational"
                     [] score \in 1 .. 3 -> "low"
                     [] score \in 4 .. 6 -> "medium"
                     [] score \in 7 .. 8 -> "high"
                     [] OTHER -> "critical"

SeverityRules(u) ==
    Rule(u.sev[2] # "unknown" /\ u.sev[2] # LabelFor(u.sev[1]), "severity_consistency")
    \cup Rule(u.sev[2] = "unknown" /\ u.warnings = {}, "severity_uncertainty")

CategoryRules(u) ==
    Rule(u.category = "network" /\ ~(u.src /\ u.dst), "network_endpoint")
    \cup Rule(u.category = "intrusion_detection" /\ ~u.threat, "category_requirement")
    \cup Rule(u.category = "authentication" /\ u.auth = "none", "category_requirement")

OutcomeRules(u) ==
    Rule(u.action[1] \in {"deny", "block"} /\ u.action[2] = "success", "action_consistency")
    \cup Rule({u.auth, u.action[2]} = {"success", "failure"}, "outcome_consistency")

\* validate_semantics.
SemanticRules(u) ==
    Rule(~(u.observed <= u.ingested /\ u.ingested <= u.normalized), "timestamp_order")
    \cup CategoryRules(u) \cup OutcomeRules(u) \cup SeverityRules(u)
    \cup Rule(u.status = "partial" /\ u.missing \cup u.warnings = {}, "partial_explanation")

\* validate_event.
Violated(u) == StructureRules(u) \cup SemanticRules(u)

\* What normalize() does with the result, and the runner once more.
Rated(u) == IF Violated(u) = {} THEN u
            ELSE [u EXCEPT !.status = "invalid", !.warnings = @ \cup Violated(u)]

Normalize(e, at) == Rated(Unified(e, at))

\* write_batch of both stores: what goes to quarantine.
Quarantined(u) == Violated(u) # {} \/ u.status = "invalid"
-----------------------------------------------------------------------------
(***************************************************************************)
(* The route before the contract migration, which core/cisco_asa_pack.py   *)
(* and pipeline/normalizer.py keep: bytes in, a mutable ParsedEvent, and   *)
(* an adapter back to the canonical one.                                   *)
(***************************************************************************)
\* SourcePackRegistry.min_confidence, in hundredths.
MinConfidence == 50

\* ParsedEvent.unrecognized of the legacy model: its identity is the SHA-256 of the bytes.
LegacyUnrecognized(l) ==
    [event_id |-> "sha256", source_pack_id |-> "none", parse_status |-> "unrecognized",
     parse_errors |-> {"NO_SOURCE_PACK_MATCH"}, extracted_fields |-> "none", raw_event |-> l]

\* Seeded fault: the parser's issues are dropped, as if the status told enough.
ToLegacyWithoutErrors(e) ==
    [event_id |-> "uuid", source_pack_id |-> e.pack, parse_status |-> e.status,
     parse_errors |-> {}, extracted_fields |-> e.fields, raw_event |-> e.line]

\* CiscoASASourcePack._to_legacy_event.
ToLegacy(e) ==
    [event_id |-> "uuid", source_pack_id |-> e.pack, parse_status |-> e.status,
     parse_errors |-> e.issues, extracted_fields |-> e.fields, raw_event |-> e.line]

\* SourcePackRegistry.route with the Cisco pack registered.
LegacyRoute(l) ==
    IF AsaConfidence(l) < MinConfidence THEN LegacyUnrecognized(l) ELSE ToLegacy(AsaParse(l))

\* _canonical_from_legacy: only the Cisco pack's parser has an identity, and an identity
\* that is no UUID is replaced; both are told in an issue.
FromLegacy(e) ==
    LET known == e.source_pack_id = "cisco_asa"
        unproven == IF known THEN {} ELSE {"LEGACY_PARSER_PROVENANCE_UNKNOWN"}
        renamed == IF e.event_id = "uuid" THEN {} ELSE {"LEGACY_EVENT_ID_NOT_UUID"}
    IN Parsed(IF known THEN "cisco_asa" ELSE NoPack, e.parse_status,
              e.parse_errors \cup unproven \cup renamed, e.extracted_fields, e.raw_event)

\* normalize_cisco_asa_event.
LegacyNormalize(e, at) == Normalize(FromLegacy(e), at)
-----------------------------------------------------------------------------
(***************************************************************************)
(* How the parts fit together, over every line, every pack that may be     *)
(* asked to parse it and clocks that disagree.  ApiServer states the       *)
(* properties of the packs a server has loaded.                            *)
(***************************************************************************)
CONSTANT Clocks  \* readings that are tried

ASSUME ClocksAssumption == Clocks \subseteq Readings

\* What the engine can hand to the normalizer when it asks p: a line p detects, of any
\* format for a pack that is dropped in, or any line at all when no pack does.
ParsesOf(p) ==
    CASE p = NoPack -> {Unrecognized(l) : l \in Lines}
      [] p = "site" -> {EngineParse(p, f, l) : f \in Formats, l \in {t \in TxtLines : t.site}}
      [] OTHER -> {EngineParse(p, "syslog", l) : l \in {k \in Lines \ TxtLines : Detects(p, k)}}

\* An alert whose rating is outside the table, and no other warning: the mapping sets the
\* label "unknown" without a word of why, which severity_uncertainty does not accept.
UnexplainedRating(e) ==
    /\ e.pack = "suricata_eve" /\ e.status = "success"
    /\ e.line.type = "alert" /\ e.line.rating \notin DOMAIN SuricataSeverity
    /\ e.line.time # "future"

\* Events that are quarantined though they could be used, or stored though they could not.
Misrated(e) == \E at \in Clocks :
    /\ ~NormalizerRaises(e)
    /\ Quarantined(Normalize(e, at)) # (e.status = "failed" \/ UnexplainedRating(e))
MisratedBy == [p \in Packs \cup {NoPack} |-> {e \in ParsesOf(p) : Misrated(e)}]

\* ASA lines of which the two routes make different events.  With no more than the bare tag
\* the one route leaves the line unrecognized and the other quarantines it.
Differs(l, at) ==
    LET legacy == LegacyNormalize(LegacyRoute(l), at)
        canonical == Normalize(EngineParse("cisco_asa", "syslog", l), at)
    IN IF l.tag = "full" THEN legacy # canonical
       ELSE ~(legacy.status = "unknown" /\ Quarantined(canonical))
LegacyDiffers == {l \in AsaLines : \E at \in Clocks : Differs(l, at)}
=============================================================================
