---------------------- MODULE AnalyticalStoresProofs -----------------------
(***************************************************************************)
(* What the normalizer makes, and what the stores answer.                  *)
(*                                                                         *)
(* The mappings, the quality rules and the validation rules fit together:  *)
(* for every line, every pack and every reading of the clocks, what is     *)
(* quarantined is what no parser could read and the alerts whose rating is *)
(* not explained.  And the route before the migration and the canonical    *)
(* one make the same event of a Cisco line.                                *)
(*                                                                         *)
(* After the same writes the answers of the two analytical stores differ   *)
(* by the entries that only the memory store answers from and by the order *)
(* a limit follows, for every number of events and deliveries, however     *)
(* often, in whatever order and with whatever age an event is redelivered. *)
(***************************************************************************)
EXTENDS AnalyticalStores, FiniteSetTheorems, WellFoundedInduction, TLAPS

\* What the validation rules ask of a mapping, but for an unexplained severity.
Coherent(m) ==
    /\ m.category = "network" => m.src /\ m.dst /\ m.network
    /\ m.category = "intrusion_detection" => m.threat
    /\ m.category = "authentication" => m.auth # "none"
    /\ ~(m.action[1] \in {"deny", "block"} /\ m.action[2] = "success")
    /\ {m.auth, m.action[2]} # {"success", "failure"}
    /\ m.sev[2] # "unknown" => m.sev[2] = LabelFor(m.sev[1])

Unexplained(e, at) == MappingOf(e).sev[2] = "unknown" /\ WarningsOf(e, MappingOf(e), at) = {}

\* However the clocks disagree, the time section is in order.
LEMMA TimesInOrder ==
    ASSUME NEW e, NEW at \in Readings
    PROVE  LET u == Unified(e, at) IN u.observed <= u.ingested /\ u.ingested <= u.normalized
<1> DEFINE m == MappingOf(e)
<1>1. at.ingested \in Int /\ at.parsed \in Int /\ at.now \in Int
  BY DEF Readings
<1>2. SourceTime(m, at) \in Int
  BY <1>1 DEF SourceTime
<1> HIDE DEF m
<1>3. ObservedAt(m, at) <= at.ingested
  BY <1>1, <1>2 DEF ObservedAt
<1>4. at.ingested <= NormalizedAt(at)
  BY <1>1 DEF NormalizedAt, Latest
<1> QED  BY <1>3, <1>4 DEF Unified, m

\* With a coherent mapping at most the rule on unexplained severities is broken.
LEMMA OnlySeverityBroken ==
    ASSUME NEW e, NEW at \in Readings, Coherent(MappingOf(e)),
           e.status = "partial" => e.issues # {}
    PROVE  Violated(Unified(e, at)) = IF Unexplained(e, at) THEN {"severity_uncertainty"} ELSE {}
<1> DEFINE m == MappingOf(e)
           u == Unified(e, at)
<1>1. /\ u.category = m.category /\ u.action = m.action /\ u.sev = m.sev /\ u.src = m.src
      /\ u.dst = m.dst /\ u.network = m.network /\ u.threat = m.threat /\ u.auth = m.auth
      /\ u.missing = MissingOf(e, m) /\ u.warnings = WarningsOf(e, m, at)
      /\ u.status = QualityStatus(e.status, u.missing, u.warnings)
  BY DEF Unified
<1>2. StructureRules(u) = {}
  BY <1>1 DEF StructureRules, Rule, Coherent
<1>3. CategoryRules(u) = {}
  BY <1>1 DEF CategoryRules, Rule, Coherent
<1>4. OutcomeRules(u) = {}
  BY <1>1 DEF OutcomeRules, Rule, Coherent
<1>5. SeverityRules(u) = IF Unexplained(e, at) THEN {"severity_uncertainty"} ELSE {}
  BY <1>1 DEF SeverityRules, Rule, Coherent, Unexplained
<1>6. Rule(~(u.observed <= u.ingested /\ u.ingested <= u.normalized), "timestamp_order") = {}
  BY TimesInOrder DEF Rule
<1>7. Rule(u.status = "partial" /\ u.missing \cup u.warnings = {}, "partial_explanation") = {}
  <2>1. e.issues \subseteq u.warnings
    BY <1>1 DEF WarningsOf
  <2>2. u.status = "partial" => e.status = "partial" \/ u.missing \cup u.warnings # {}
    BY <1>1 DEF QualityStatus
  <2> QED  BY <2>1, <2>2 DEF Rule
<1> QED
  BY <1>2, <1>3, <1>4, <1>5, <1>6, <1>7 DEF Violated, SemanticRules

\* So what is quarantined failed to parse, or has an unexplained severity.
LEMMA QuarantineReasons ==
    ASSUME NEW e, NEW at \in Readings, Coherent(MappingOf(e)),
           e.status = "partial" => e.issues # {}
    PROVE  Quarantined(Normalize(e, at)) <=> e.status = "failed" \/ Unexplained(e, at)
<1> DEFINE u == Unified(e, at)
<1>1. Violated(u) = IF Unexplained(e, at) THEN {"severity_uncertainty"} ELSE {}
  BY OnlySeverityBroken
<1>2. u.status = QualityStatus(e.status, u.missing, u.warnings)
  BY DEF Unified
<1>3. u.status = "invalid" <=> e.status = "failed"
  <2> HIDE DEF u
  <2>1. e.status = "failed" => u.status = "invalid"
    BY <1>2 DEF QualityStatus
  <2>2. ASSUME e.status # "failed"  PROVE u.status # "invalid"
    <3>1. CASE e.status = "unrecognized"
      BY <1>2, <2>2, <3>1 DEF QualityStatus
    <3>2. CASE e.status # "unrecognized" /\ (e.status = "partial" \/ u.missing \cup u.warnings # {})
      BY <1>2, <2>2, <3>2 DEF QualityStatus
    <3>3. CASE e.status # "unrecognized" /\ ~(e.status = "partial" \/ u.missing \cup u.warnings # {})
      BY <1>2, <2>2, <3>3 DEF QualityStatus
    <3> QED  BY <3>1, <3>2, <3>3
  <2> QED  BY <2>1, <2>2
<1>4. CASE Unexplained(e, at)
  <2>1. Violated(u) # {} /\ Normalize(e, at).status = "invalid"
    BY <1>1, <1>4 DEF Normalize, Rated, Unified
  <2> QED  BY <1>4, <2>1 DEF Quarantined
<1>5. CASE ~Unexplained(e, at)
  BY <1>1, <1>3, <1>5 DEF Normalize, Rated, Quarantined
<1> QED  BY <1>4, <1>5

\* The severity tables are in step with the labels.
LEMMA SyslogLabels ==
    ASSUME NEW c
    PROVE  LET s == SyslogScore(c) IN
           /\ s.sev[2] # "unknown" => s.sev[2] = LabelFor(s.sev[1])
           /\ s.sev[2] = "unknown" => s.warn # {}
<1>1. CASE c \in 0 .. 7
  <2>1. SyslogScore(c).sev = SyslogSeverity[c]
    BY <1>1 DEF SyslogScore, SyslogSeverity
  <2>2. c = 0 \/ c = 1 \/ c = 2 \/ c = 3 \/ c = 4 \/ c = 5 \/ c = 6 \/ c = 7
    BY <1>1
  <2>3. SyslogSeverity[c] \in {<<10, "critical">>, <<9, "critical">>, <<8, "high">>, <<7, "high">>,
                               <<5, "medium">>, <<4, "medium">>, <<2, "low">>, <<0, "informational">>}
    BY <2>2 DEF SyslogSeverity
  <2> QED  BY <2>1, <2>3 DEF LabelFor
<1>2. CASE c \notin 0 .. 7
  BY <1>2 DEF SyslogScore, SyslogSeverity, UnknownSeverity
<1> QED  BY <1>1, <1>2

\* The pack and the line of a parse, and that a partial one says why.
LEMMA ParsesTyped ==
    ASSUME NEW p \in Packs \cup {NoPack}, NEW e \in ParsesOf(p)
    PROVE  /\ e.pack = p /\ e.line \in Lines
           /\ e.status = "partial" => e.issues # {}
           /\ \E f \in Formats : e = EngineParse(p, f, e.line)
<1>1. TxtLines \subseteq Lines
  BY DEF Lines
<1>2. PICK f \in Formats, l \in Lines : e = EngineParse(p, f, l)
  <2>1. "syslog" \in Formats
    BY DEF Formats
  <2> QED  BY <1>1, <2>1 DEF ParsesOf, EngineParse
<1>3. CASE p = NoPack
  BY <1>2, <1>3 DEF EngineParse, Unrecognized, Parsed
<1>4. ASSUME NEW q \in Packs, NEW g, e = DeclarativeParse(q, g, l), p = q
      PROVE  e.pack = p /\ e.line = l /\ (e.status = "partial" => e.issues # {})
  BY <1>4 DEF DeclarativeParse, FailedEvent, Parsed
<1>5. CASE p = "cisco_asa"
  <2>1. e = AsaParse(l)
    BY <1>2, <1>5 DEF EngineParse, PackParse, NoPack
  <2> QED  BY <1>2, <1>5, <2>1 DEF AsaParse, Parsed
<1>6. CASE p = "suricata_eve"
  <2>1. e = EveParse(l)
    BY <1>2, <1>6 DEF EngineParse, PackParse, NoPack
  <2> QED  BY <1>2, <1>6, <2>1 DEF EveParse, FailedEvent, Parsed
<1>7. CASE p \in {"fortinet_fortigate", "generic_linux_syslog", "site"}
  <2>1. \E g : e = DeclarativeParse(p, g, l)
    BY <1>2, <1>7 DEF EngineParse, PackParse, NoPack, FortinetParse, LinuxParse
  <2> QED  BY <1>2, <1>4, <1>7, <2>1 DEF Packs
<1> QED
  BY <1>2, <1>3, <1>5, <1>6, <1>7 DEF Packs

\* Each mapping is coherent, whatever the parser left in the event.
LEMMA CiscoCoherent ==
    ASSUME NEW e
    PROVE  LET m == CiscoMapping(e) IN
           Coherent(m) /\ (m.sev[2] = "unknown" => m.warnings # {})
<1> DEFINE ip == e.fields = "all" /\ e.line.ips
           lacking == Lacking(ip, ip, e.fields = "all" /\ e.line.tcp)
           score == IF e.fields = "none" THEN SyslogScore(-1) ELSE SyslogScore(e.line.sev)
           action == IF e.fields = "all" THEN AsaAction(e.line.verb) ELSE UnknownAction
           m == CiscoMapping(e)
<1>1. /\ m.category = IF lacking = {} THEN "network" ELSE "unknown"
      /\ m.action = action /\ m.sev = score.sev /\ m.src = ip /\ m.dst = ip
      /\ m.network = (lacking = {}) /\ m.threat = FALSE /\ m.auth = "none"
      /\ m.warnings = score.warn
  BY DEF CiscoMapping, Mapping
<1>2. lacking = {} => ip
  BY DEF Lacking
<1>3. /\ score.sev[2] # "unknown" => score.sev[2] = LabelFor(score.sev[1])
      /\ score.sev[2] = "unknown" => score.warn # {}
  BY SyslogLabels
<1>4. ~(action[1] \in {"deny", "block"} /\ action[2] = "success")
  BY DEF AsaAction, UnknownAction
<1> HIDE DEF ip, lacking, score, action, m
<1>5. m.category # "intrusion_detection" /\ m.category # "authentication"
  BY <1>1
<1>6. {m.auth, m.action[2]} # {"success", "failure"}
  BY <1>1
<1> QED  BY <1>1, <1>2, <1>3, <1>4, <1>5, <1>6 DEF Coherent, m

LEMMA FortinetCoherent ==
    ASSUME NEW e
    PROVE  LET m == FortinetMapping(e) IN
           Coherent(m) /\ (m.sev[2] = "unknown" => m.warnings # {})
<1> DEFINE l == e.line
           full == e.fields = "all"
           family == full /\ l.type = "traffic"
           lacking == IF family THEN Lacking(l.src, l.dst, l.tcp) ELSE {}
           isNetwork == family /\ lacking = {}
           login == full /\ l.verb = "login" /\ l.user
           outcome == CASE l.status = "failed" -> "failure"
                        [] l.status = "success" -> "success"
                        [] OTHER -> "unknown"
           rated == full /\ l.level \in DOMAIN FortinetSeverity
           m == FortinetMapping(e)
<1>1. /\ m.category = IF login THEN "authentication" ELSE IF isNetwork THEN "network"
                      ELSE IF family THEN "unknown" ELSE "system"
      /\ m.action = IF login THEN <<"authenticate", outcome>>
                    ELSE IF full /\ l.verb = "deny" THEN <<"block", "failure">>
                    ELSE IF full /\ l.verb = "accept" THEN <<"allow", "success">>
                    ELSE UnknownAction
      /\ m.sev = IF rated THEN FortinetSeverity[l.level] ELSE UnknownSeverity
      /\ m.src = (full /\ l.src) /\ m.dst = (full /\ l.dst) /\ m.network = isNetwork
      /\ m.auth = IF login THEN outcome ELSE "none"
      /\ m.warnings = IF rated THEN {} ELSE {NoSeverity}
  BY DEF FortinetMapping, Mapping
<1>2. outcome \in {"failure", "success", "unknown"}
  OBVIOUS
<1>3. isNetwork => full /\ l.src /\ l.dst
  BY DEF Lacking
<1>4. \/ m.sev \in {<<5, "medium">>, <<0, "informational">>}
      \/ m.sev = UnknownSeverity /\ m.warnings # {}
  <2> DEFINE F == FortinetSeverity
             S == {<<5, "medium">>, <<0, "informational">>}
  <2>1. \A w \in DOMAIN F : F[w] \in S
    BY DEF FortinetSeverity
  <2>2. CASE rated
    <3>1. m.sev = FortinetSeverity[l.level] /\ l.level \in DOMAIN FortinetSeverity
      BY <1>1, <2>2
    <3> HIDE DEF m, l, F, S
    <3>2. m.sev \in S
      BY <2>1, <3>1 DEF F
    <3> QED  BY <3>2 DEF S
  <2>3. CASE ~rated
    BY <1>1, <2>3
  <2> QED  BY <2>2, <2>3
<1> HIDE DEF l, full, family, lacking, isNetwork, login, outcome, rated, m
<1>5. m.category = "network" => m.src /\ m.dst /\ m.network
  BY <1>1, <1>3
<1>6. m.category # "intrusion_detection" /\ (m.category = "authentication" => m.auth # "none")
  BY <1>1, <1>2
<1>7. ~(m.action[1] \in {"deny", "block"} /\ m.action[2] = "success")
  BY <1>1 DEF UnknownAction
<1>8. {m.auth, m.action[2]} # {"success", "failure"}
  BY <1>1, <1>2
<1>9. m.sev[2] # "unknown" => m.sev[2] = LabelFor(m.sev[1])
  BY <1>4 DEF UnknownSeverity, LabelFor
<1>10. m.sev[2] = "unknown" => m.warnings # {}
  BY <1>4
<1> QED  BY <1>5, <1>6, <1>7, <1>8, <1>9, <1>10 DEF Coherent, m

LEMMA LinuxCoherent ==
    ASSUME NEW e
    PROVE  LET m == LinuxMapping(e) IN
           Coherent(m) /\ (m.sev[2] = "unknown" => m.warnings # {})
<1> DEFINE score == IF e.fields # "all" THEN SyslogScore(-1)
                    ELSE SyslogScore(IF e.line.kind = "sys" THEN e.line.sev ELSE 5)
           m == LinuxMapping(e)
<1>1. /\ m.category = "system" /\ m.action = UnknownAction /\ m.sev = score.sev
      /\ m.auth = "none" /\ m.warnings = score.warn
  BY DEF LinuxMapping, Mapping
<1>2. /\ score.sev[2] # "unknown" => score.sev[2] = LabelFor(score.sev[1])
      /\ score.sev[2] = "unknown" => score.warn # {}
  BY SyslogLabels
<1> HIDE DEF score, m
<1> QED  BY <1>1, <1>2 DEF Coherent, UnknownAction, m

LEMMA SuricataCoherent ==
    ASSUME NEW e
    PROVE  Coherent(SuricataMapping(e))
<1> DEFINE l == e.line
           full == e.fields = "all"
           type == IF full THEN l.type ELSE "none"
           category == CASE type = "alert" -> "intrusion_detection"
                         [] type \in {"flow", "dns"} -> "network"
                         [] type = "http" -> "web"
                         [] OTHER -> "unknown"
           m == SuricataMapping(e)
<1>1. /\ m.category = IF category = "network" /\ ~(l.src /\ l.dst) THEN "unknown" ELSE category
      /\ m.action = IF full THEN EveAction(l) ELSE <<"connect", "success">>
      /\ m.sev = IF full THEN EveSeverity(l) ELSE <<0, "informational">>
      /\ m.src = (full /\ l.src) /\ m.dst = (full /\ l.dst) /\ m.network = TRUE
      /\ m.threat = (type = "alert") /\ m.auth = "none"
  BY DEF SuricataMapping, Mapping
<1>2. /\ category = "network" => full
      /\ category = "intrusion_detection" => type = "alert"
      /\ category # "authentication"
  OBVIOUS
<1>3. m.sev \in {<<0, "informational">>, <<8, "high">>, <<2, "low">>, UnknownSeverity}
  BY <1>1 DEF EveSeverity, SuricataSeverity
<1>4. m.action \in {<<"connect", "success">>, <<"block", "failure">>, <<"detect", "success">>}
  BY <1>1 DEF EveAction
<1> HIDE DEF l, full, type, category, m
<1>5. m.category = "network" => m.src /\ m.dst /\ m.network
  BY <1>1, <1>2
<1>6. (m.category = "intrusion_detection" => m.threat) /\ m.category # "authentication"
  BY <1>1, <1>2
<1>7. ~(m.action[1] \in {"deny", "block"} /\ m.action[2] = "success")
  BY <1>4
<1>8. {m.auth, m.action[2]} # {"success", "failure"}
  BY <1>1
<1>9. m.sev[2] # "unknown" => m.sev[2] = LabelFor(m.sev[1])
  BY <1>3 DEF UnknownSeverity, LabelFor
<1> QED  BY <1>5, <1>6, <1>7, <1>8, <1>9 DEF Coherent, m

LEMMA UnknownCoherent == Coherent(UnknownMapping) /\ UnknownMapping.warnings # {}
<1> DEFINE m == UnknownMapping
<1>1. /\ m.category = "unknown" /\ m.action = <<"unknown", "unknown">> /\ m.auth = "none"
      /\ m.sev = <<0, "unknown">> /\ m.warnings # {}
  BY DEF UnknownMapping, Mapping, UnknownAction, UnknownSeverity
<1> HIDE DEF m
<1> QED  BY <1>1 DEF Coherent, m

\* Nothing but an alert's rating can leave a severity unexplained.
LEMMA OnlyRatingsUnexplained ==
    ASSUME NEW p \in Packs \cup {NoPack}, NEW e \in ParsesOf(p), NEW at \in Readings
    PROVE  /\ Coherent(MappingOf(e))
           /\ e.status # "failed" => (Unexplained(e, at) <=> UnexplainedRating(e))
<1> DEFINE m == MappingOf(e)
<1>1. e.pack = p /\ m.warnings \cup e.issues \subseteq WarningsOf(e, m, at)
  BY ParsesTyped DEF WarningsOf
<1>2. CASE p \in {"cisco_asa", "fortinet_fortigate", "generic_linux_syslog"}
  <2>1. Coherent(m) /\ (m.sev[2] = "unknown" => m.warnings # {})
    BY <1>1, <1>2, CiscoCoherent, FortinetCoherent, LinuxCoherent DEF MappingOf
  <2>2. ~UnexplainedRating(e)
    BY <1>1, <1>2 DEF UnexplainedRating
  <2> HIDE DEF m
  <2> QED  BY <1>1, <2>1, <2>2 DEF Unexplained, m
<1>3. CASE p \in {"site", NoPack}
  <2>1. m = UnknownMapping
    BY <1>1, <1>3 DEF MappingOf, NoPack
  <2>2. Coherent(m) /\ m.warnings # {}
    BY <2>1, UnknownCoherent
  <2>3. ~UnexplainedRating(e)
    BY <1>1, <1>3 DEF UnexplainedRating, NoPack
  <2> HIDE DEF m
  <2> QED  BY <1>1, <2>2, <2>3 DEF Unexplained, m
<1>4. CASE p = "suricata_eve"
  <2> DEFINE l == e.line
  <2>1. m = SuricataMapping(e)
    BY <1>1, <1>4 DEF MappingOf
  <2>2. Coherent(m)
    BY <2>1, SuricataCoherent
  <2>3. e = EveParse(l)
    BY <1>4, ParsesTyped DEF EngineParse, PackParse, NoPack
  <2>4. ASSUME e.status # "failed"
        PROVE  Unexplained(e, at) <=> UnexplainedRating(e)
    <3>1. e.status = "success" /\ e.fields = "all" /\ e.issues = {} /\ EveIssues(l) = {}
      <4>1. l.kind = "eve" /\ ~l.pri /\ EveIssues(l) = {}
        BY <2>3, <2>4 DEF EveParse, FailedEvent, Parsed
      <4>2. e = Parsed("suricata_eve", "success", {}, "all", l)
        BY <2>3, <4>1 DEF EveParse
      <4> QED  BY <4>1, <4>2 DEF Parsed
    <3>2. l.type \in EveTypes /\ l.body = "object"
      BY <3>1 DEF EveIssues
    <3>3. m.sev = EveSeverity(l) /\ m.warnings = {}
          /\ m.time = IF l.time \in {"past", "future"} THEN l.time ELSE "none"
      BY <2>1, <3>1 DEF SuricataMapping, Mapping
    <3>4. m.sev[2] = "unknown" <=> l.type = "alert" /\ l.rating \notin DOMAIN SuricataSeverity
      <4>1. DOMAIN SuricataSeverity = {"1", "3"} /\ SuricataSeverity["1"] = <<8, "high">>
            /\ SuricataSeverity["3"] = <<2, "low">>
        BY DEF SuricataSeverity
      <4> HIDE DEF m, l
      <4>2. CASE l.type = "alert" /\ l.rating \in DOMAIN SuricataSeverity
        <5>1. m.sev = SuricataSeverity[l.rating] /\ l.rating \in {"1", "3"}
          BY <3>2, <3>3, <4>1, <4>2 DEF EveSeverity
        <5> QED  BY <4>1, <4>2, <5>1
      <4>3. CASE ~(l.type = "alert" /\ l.rating \in DOMAIN SuricataSeverity)
        BY <3>2, <3>3, <4>3 DEF EveSeverity, UnknownSeverity
      <4> QED  BY <4>2, <4>3
    <3>5. WarningsOf(e, m, at) = {} <=> l.time # "future"
      <4>1. at.ingested \in Int
        BY DEF Readings
      <4>2. SourceTime(m, at) > at.ingested <=> l.time = "future"
        BY <3>3, <4>1 DEF SourceTime
      <4>3. Unnamed(e) = {}
        BY <1>1, <1>4 DEF Unnamed, NoPack
      <4> HIDE DEF m, l
      <4> QED  BY <3>1, <3>3, <4>2, <4>3 DEF WarningsOf
    <3> QED
      BY <1>1, <1>4, <3>1, <3>4, <3>5 DEF Unexplained, UnexplainedRating
  <2> QED  BY <2>2, <2>4
<1> QED
  BY <1>2, <1>3, <1>4 DEF Packs

\* Whatever a source sends, whichever pack parses it and however the clocks disagree:
\* what the stores quarantine is what no parser could read, and the alerts whose rating
\* is not explained.
THEOREM NothingMisrated == \A p \in Packs \cup {NoPack} : MisratedBy[p] = {}
<1> SUFFICES ASSUME NEW p \in Packs \cup {NoPack}, NEW e \in ParsesOf(p), Misrated(e)
             PROVE  FALSE
  BY DEF MisratedBy
<1>1. PICK at \in Clocks :
          Quarantined(Normalize(e, at)) # (e.status = "failed" \/ UnexplainedRating(e))
  BY DEF Misrated
<1>2. at \in Readings
  BY ClocksAssumption
<1>3. Coherent(MappingOf(e)) /\ (e.status = "partial" => e.issues # {})
  BY <1>2, OnlyRatingsUnexplained, ParsesTyped
<1>4. Quarantined(Normalize(e, at)) <=> e.status = "failed" \/ Unexplained(e, at)
  BY <1>2, <1>3, QuarantineReasons
<1>5. e.status # "failed" => (Unexplained(e, at) <=> UnexplainedRating(e))
  BY <1>2, OnlyRatingsUnexplained
<1> QED
  BY <1>1, <1>4, <1>5 DEF Quarantined, UnexplainedRating

\* The route from before the migration and the canonical one make the same event of an
\* ASA line with the full tag; with a bare tag the one leaves it unrecognized and the
\* other quarantines it.
THEOREM RoutesAgree == LegacyDiffers = {}
<1> SUFFICES ASSUME NEW l \in AsaLines, NEW at \in Clocks  PROVE ~Differs(l, at)
  BY DEF LegacyDiffers
<1>1. l.kind = "asa" /\ l.tag \in {"full", "weak"} /\ at \in Readings
  BY ClocksAssumption DEF AsaLines
<1> DEFINE e == AsaParse(l)
           g == FromLegacy(LegacyRoute(l))
<1>2. EngineParse("cisco_asa", "syslog", l) = e
  BY DEF EngineParse, PackParse, NoPack
<1>3. CASE l.tag = "full"
  <2>1. LegacyRoute(l) = ToLegacy(e)
    BY <1>1, <1>3 DEF LegacyRoute, AsaConfidence, MinConfidence
  <2>2. e.pack = "cisco_asa" /\ e = Parsed(e.pack, e.status, e.issues, e.fields, e.line)
    BY DEF AsaParse, Parsed
  <2>3. g = e
    BY <2>1, <2>2 DEF FromLegacy, ToLegacy, Parsed
  <2> QED
    BY <1>2, <1>3, <2>3 DEF Differs, LegacyNormalize
<1>4. CASE l.tag = "weak"
  <2>1. LegacyRoute(l) = LegacyUnrecognized(l)
    BY <1>1, <1>4 DEF LegacyRoute, AsaConfidence, MinConfidence
  <2>2. g.pack = NoPack /\ g.status = "unrecognized" /\ g.issues # {}
    BY <2>1 DEF FromLegacy, LegacyUnrecognized, Parsed
  <2>3. MappingOf(g) = UnknownMapping
    BY <2>2 DEF MappingOf, NoPack
  <2>4. Coherent(MappingOf(g))
    BY <2>3, UnknownCoherent
  <2>5. ~Unexplained(g, at)
    BY <2>2 DEF Unexplained, WarningsOf
  <2> HIDE DEF g
  <2>6. Violated(Unified(g, at)) = {}
    BY <1>1, <2>2, <2>4, <2>5, OnlySeverityBroken
  <2>7. Normalize(g, at).status = "unknown"
    BY <2>2, <2>6 DEF Normalize, Rated, Unified, QualityStatus
  <2>8. e.status = "failed"
    BY <1>4 DEF AsaParse, AsaHeader, Parsed
  <2>9. Quarantined(Normalize(e, at))
    <3>1. e.pack = "cisco_asa"
      BY DEF AsaParse, Parsed
    <3>2. Coherent(MappingOf(e))
      BY <3>1, CiscoCoherent DEF MappingOf
    <3> HIDE DEF e
    <3> QED  BY <1>1, <2>8, <3>2, QuarantineReasons
  <2> QED
    BY <1>2, <1>4, <2>7, <2>9 DEF Differs, LegacyNormalize, g
<1> QED  BY <1>1, <1>3, <1>4

(***************************************************************************)
(* Orders.  Counting what comes before it numbers the elements of a finite *)
(* set that a relation orders.                                             *)
(***************************************************************************)
Before(S, R, x) == {j \in S : <<j, x>> \in R}
Rank(S, R, x) == Cardinality(Before(S, R, x)) + 1

LEMMA Ranked ==
    ASSUME NEW S, IsFiniteSet(S), NEW R,
           \A x, y \in S : x = y \/ <<x, y>> \in R \/ <<y, x>> \in R,
           \A x \in S : <<x, x>> \notin R,
           \A x, y, z \in S : <<x, y>> \in R /\ <<y, z>> \in R => <<x, z>> \in R
    PROVE  /\ \A x \in S : Rank(S, R, x) \in 1 .. Cardinality(S)
           /\ \A x, y \in S : <<x, y>> \in R => Rank(S, R, x) < Rank(S, R, y)
           /\ \A k \in 1 .. Cardinality(S) : \E x \in S : Rank(S, R, x) = k
<1> DEFINE N == Cardinality(S)
<1>1. N \in Nat
  BY FS_CardinalityType
<1>2. ASSUME NEW x \in S
      PROVE  IsFiniteSet(Before(S, R, x)) /\ Cardinality(Before(S, R, x)) \in Nat
  <2>1. Before(S, R, x) \in SUBSET S
    BY DEF Before
  <2> QED  BY <2>1, FS_Subset, FS_CardinalityType
<1>3. ASSUME NEW x \in S, NEW y \in S, <<x, y>> \in R  PROVE Rank(S, R, x) < Rank(S, R, y)
  <2> DEFINE B == Before(S, R, x)
             C == B \cup {x}
  <2>1. x \notin B /\ C \in SUBSET Before(S, R, y)
    BY <1>3 DEF Before
  <2>2. Cardinality(C) = Cardinality(B) + 1
    <3>1. IsFiniteSet(B) /\ x \notin B
      BY <1>2, <2>1
    <3> HIDE DEF B
    <3>2. Cardinality(B \cup {x}) = IF x \in B THEN Cardinality(B) ELSE Cardinality(B) + 1
      BY <3>1, FS_AddElement
    <3> QED  BY <3>1, <3>2
  <2> HIDE DEF C
  <2>3. Cardinality(C) <= Cardinality(Before(S, R, y))
    BY <1>2, <2>1, FS_Subset
  <2>4. Cardinality(B) \in Nat /\ Cardinality(Before(S, R, y)) \in Nat
    BY <1>2
  <2> QED  BY <2>2, <2>3, <2>4 DEF Rank
<1>4. ASSUME NEW x \in S  PROVE Rank(S, R, x) \in 1 .. N
  <2> DEFINE Others == S \ {x}
  <2>1. Before(S, R, x) \in SUBSET Others
    BY DEF Before
  <2>2. Cardinality(Others) = N - 1 /\ IsFiniteSet(Others)
    <3>1. Cardinality(S \ {x}) = IF x \in S THEN Cardinality(S) - 1 ELSE Cardinality(S)
      BY FS_RemoveElement
    <3>2. IsFiniteSet(S \ {x})
      BY FS_Subset
    <3> QED  BY <3>1, <3>2
  <2> HIDE DEF Others, N
  <2>3. Cardinality(Before(S, R, x)) <= N - 1
    <3>1. Cardinality(Before(S, R, x)) <= Cardinality(Others)
      BY <2>1, <2>2, FS_Subset
    <3> QED  BY <2>2, <3>1
  <2> QED  BY <1>1, <1>2, <2>3 DEF Rank
<1> DEFINE f == [x \in S |-> Rank(S, R, x)]
           T == 1 .. N
<1>5. f \in Injection(S, T)
  <2> HIDE DEF N
  <2>1. f \in [S -> T]
    BY <1>4
  <2>2. ASSUME NEW x \in S, NEW y \in S, f[x] = f[y]  PROVE x = y
    <3>1. Rank(S, R, x) = Rank(S, R, y)
      BY <2>2
    <3>2. Rank(S, R, x) \in 1 .. N /\ Rank(S, R, y) \in 1 .. N
      BY <1>4
    <3>3. /\ <<x, y>> \in R => Rank(S, R, x) < Rank(S, R, y)
          /\ <<y, x>> \in R => Rank(S, R, y) < Rank(S, R, x)
      BY <1>3
    <3>4. <<x, y>> \notin R /\ <<y, x>> \notin R
      BY <1>1, <3>1, <3>2, <3>3
    <3> QED  BY <3>4
  <2> HIDE DEF f, T
  <2> QED  BY <2>1, <2>2 DEF Injection, IsInjective
<1>6. IsFiniteSet(T) /\ Cardinality(T) = N
  <2> HIDE DEF N
  <2>1. 1 \in Int /\ N \in Int /\ (IF 1 > N THEN 0 ELSE N - 1 + 1) = N
    BY <1>1
  <2> QED  BY <2>1, FS_Interval
<1>7. f \in Surjection(S, T)
  <2>1. Cardinality(S) = Cardinality(T)
    BY <1>6
  <2> HIDE DEF f, T
  <2> QED  BY <1>5, <1>6, <2>1, FS_Injection
<1>8. \A k \in 1 .. N : \E x \in S : Rank(S, R, x) = k
  BY <1>7 DEF Surjection
<1> QED  BY <1>3, <1>4, <1>8

\* Numbers up to n have a least and a greatest.
LEMMA Extremes ==
    ASSUME NEW n \in Nat, NEW S \in SUBSET (1 .. n), S # {}
    PROVE  /\ \E x \in S : \A y \in S : x <= y
           /\ \E x \in S : \A y \in S : y <= x
<1>1. ASSUME NEW T \in SUBSET Nat, T # {}  PROVE \E x \in T : \A y \in T : x <= y
  <2>1. PICK x \in T : \A y \in T : ~(<<y, x>> \in OpToRel(<, Nat))
    BY <1>1, WFMin, NatLessThanWellFounded
  <2>2. \A y \in T : ~(y < x) /\ y \in Nat /\ x \in Nat
    BY <2>1 DEF OpToRel
  <2> QED  BY <2>2
<1>2. S \subseteq Nat /\ \A x \in S : x <= n
  OBVIOUS
<1> DEFINE T == {n - x : x \in S}
<1>3. T \in SUBSET Nat /\ T # {}
  BY <1>2
<1>4. PICK m \in T : \A k \in T : m <= k
  <2> HIDE DEF T
  <2> QED  BY <1>1, <1>3
<1>5. PICK x \in S : m = n - x
  OBVIOUS
<1>6. \A y \in S : y <= x
  <2>1. \A y \in S : n - x <= n - y /\ y \in Nat /\ x \in Nat
    BY <1>2, <1>4, <1>5
  <2> QED  BY <2>1
<1> QED  BY <1>1, <1>2, <1>6

\* Chosen walks through the chosen positions from the first to the last.
Walks(f, n, P) ==
    /\ f \in [1 .. n -> P] /\ \A x \in P : \E k \in 1 .. n : f[k] = x
    /\ \A j, k \in 1 .. n : j < k => f[j] < f[k]

LEMMA ChosenWalks ==
    ASSUME NEW n \in Nat, NEW s, NEW P \in SUBSET (1 .. n)
    PROVE  /\ IsFiniteSet(P) /\ Cardinality(P) \in Nat /\ Cardinality(P) <= n
           /\ \E f : /\ Walks(f, Cardinality(P), P)
                     /\ Chosen(s, P) = [k \in 1 .. Cardinality(P) |-> s[f[k]]]
<1>1. IsFiniteSet(1 .. n) /\ Cardinality(1 .. n) = n
  <2>1. 1 \in Int /\ n \in Int /\ (IF 1 > n THEN 0 ELSE n - 1 + 1) = n
    OBVIOUS
  <2> QED  BY <2>1, FS_Interval
<1>2. IsFiniteSet(P) /\ Cardinality(P) <= n /\ Cardinality(P) \in Nat
  BY <1>1, FS_Subset, FS_CardinalityType, Zenon
<1> DEFINE R == {r \in P \X P : r[1] < r[2]}
           N == Cardinality(P)
           rank(x) == Cardinality({j \in P : j < x}) + 1
<1>3. ASSUME NEW x \in P  PROVE Rank(P, R, x) = rank(x)
  <2>1. Before(P, R, x) = {j \in P : j < x}
    BY DEF Before
  <2> QED  BY <2>1 DEF Rank
<1>4. P \subseteq Int /\ \A x, y \in P : <<x, y>> \in R <=> x < y
  OBVIOUS
<1>5. /\ \A x \in P : Rank(P, R, x) \in 1 .. N
      /\ \A x, y \in P : <<x, y>> \in R => Rank(P, R, x) < Rank(P, R, y)
      /\ \A k \in 1 .. N : \E x \in P : Rank(P, R, x) = k
  <2> HIDE DEF R
  <2>1. /\ \A x, y \in P : x = y \/ <<x, y>> \in R \/ <<y, x>> \in R
        /\ \A x \in P : <<x, x>> \notin R
        /\ \A x, y, z \in P : <<x, y>> \in R /\ <<y, z>> \in R => <<x, z>> \in R
    BY <1>4
  <2> QED  BY <1>2, <2>1, Ranked, Zenon
<1> HIDE DEF rank
<1>6. /\ \A x \in P : rank(x) \in 1 .. N
      /\ \A x, y \in P : x < y => rank(x) < rank(y)
      /\ \A k \in 1 .. N : \E x \in P : rank(x) = k
  <2>1. \A x, y \in P : x < y => <<x, y>> \in R
    BY <1>4
  <2> HIDE DEF R, N
  <2>2. \A x \in P : rank(x) = Rank(P, R, x)
    BY <1>3
  <2>3. \A x \in P : rank(x) \in 1 .. N
    BY <1>5, <2>2
  <2>4. \A x, y \in P : x < y => rank(x) < rank(y)
    BY <1>5, <2>1, <2>2
  <2>5. \A k \in 1 .. N : \E x \in P : rank(x) = k
    BY <1>5, <2>2
  <2> QED  BY <2>3, <2>4, <2>5
<1> DEFINE nth(k) == CHOOSE i \in P : rank(i) = k
           f == [k \in 1 .. N |-> nth(k)]
<1>7. Chosen(s, P) = [k \in 1 .. N |-> s[nth(k)]]
  BY DEF Chosen, rank
<1>8. \A k \in 1 .. N : nth(k) \in P /\ rank(nth(k)) = k
  BY <1>6
<1> HIDE DEF nth
<1>9. \A k \in 1 .. N : f[k] = nth(k) /\ f[k] \in P /\ rank(f[k]) = k
  BY <1>8
<1>10. f \in [1 .. N -> P]
  BY <1>8
<1>11. Chosen(s, P) = [k \in 1 .. N |-> s[f[k]]]
  BY <1>7, <1>9
<1> HIDE DEF f
<1>12. ASSUME NEW x \in P  PROVE \E k \in 1 .. N : f[k] = x
  <2> DEFINE k == rank(x)
             y == f[k]
  <2>1. k \in 1 .. N /\ y \in P /\ rank(y) = rank(x)
    BY <1>6, <1>9
  <2>2. ~(x < y) /\ ~(y < x) /\ x \in Int /\ y \in Int
    <3> HIDE DEF y, k
    <3>1. \A z \in P : rank(z) \in Int
      BY <1>2, <1>6
    <3> QED  BY <1>4, <1>6, <2>1, <3>1
  <2>3. x = y
    BY <2>2
  <2> QED  BY <2>1, <2>3
<1>13. ASSUME NEW j \in 1 .. N, NEW k \in 1 .. N, j < k  PROVE f[j] < f[k]
  <2> DEFINE x == f[j]
             y == f[k]
  <2>1. x \in P /\ y \in P /\ rank(x) = j /\ rank(y) = k /\ x \in Int /\ y \in Int
    BY <1>4, <1>9
  <2> HIDE DEF x, y
  <2>2. x # y /\ ~(y < x)
    BY <1>2, <1>6, <1>13, <2>1
  <2>3. x < y
    BY <2>1, <2>2
  <2> QED  BY <2>3 DEF x, y
<1>14. Walks(f, N, P)
  BY <1>10, <1>12, <1>13 DEF Walks
<1> QED  BY <1>2, <1>11, <1>14

\* So it keeps to the elements of its sequence, at most as many.
LEMMA ChosenIs ==
    ASSUME NEW X, NEW s \in Seq(X), NEW P \in SUBSET (1 .. Len(s))
    PROVE  /\ Chosen(s, P) \in Seq(X) /\ Len(Chosen(s, P)) = Cardinality(P)
           /\ Len(Chosen(s, P)) <= Len(s)
<1>1. Len(s) \in Nat
  OBVIOUS
<1>2. Cardinality(P) \in Nat /\ Cardinality(P) <= Len(s)
  BY <1>1, ChosenWalks
<1>3. PICK f : /\ Walks(f, Cardinality(P), P)
               /\ Chosen(s, P) = [k \in 1 .. Cardinality(P) |-> s[f[k]]]
  <2>1. \E f : /\ Walks(f, Cardinality(P), P)
               /\ Chosen(s, P) = [k \in 1 .. Cardinality(P) |-> s[f[k]]]
    BY <1>1, ChosenWalks, Zenon
  <2> QED  BY <2>1
<1> DEFINE c == [k \in 1 .. Cardinality(P) |-> s[f[k]]]
<1>4. c \in [1 .. Cardinality(P) -> X]
  <2>1. \A k \in 1 .. Cardinality(P) : f[k] \in 1 .. Len(s)
    BY <1>3 DEF Walks
  <2>2. \A i \in 1 .. Len(s) : s[i] \in X
    OBVIOUS
  <2> QED  BY <2>1, <2>2
<1>5. ASSUME NEW n \in Nat, NEW g \in [1 .. n -> X]  PROVE g \in Seq(X) /\ Len(g) = n
  OBVIOUS
<1> HIDE DEF c
<1> QED  BY <1>2, <1>3, <1>4, <1>5 DEF c

(***************************************************************************)
(* Redeliveries.  What an event is delivered as differs in when it was     *)
(* normalized, and in nothing else that decides where it is kept.          *)
(***************************************************************************)
\* The rating of an event does not depend on when it was normalized.
LEMMA SameRating ==
    ASSUME NEW e, NEW at \in Readings, NEW at2 \in Readings, at.ingested = at2.ingested
    PROVE  /\ Normalize(e, at).observed = Normalize(e, at2).observed
           /\ Quarantined(Normalize(e, at)) <=> Quarantined(Normalize(e, at2))
<1> DEFINE u == Unified(e, at)
           v == Unified(e, at2)
           m == MappingOf(e)
<1>1. /\ SourceTime(m, at) = SourceTime(m, at2)
      /\ u.observed = ObservedAt(m, at) /\ v.observed = ObservedAt(m, at2)
      /\ u.warnings = WarningsOf(e, m, at) /\ v.warnings = WarningsOf(e, m, at2)
      /\ u.missing = v.missing
  BY DEF Unified, SourceTime
<1>2. u.observed = v.observed /\ u.warnings = v.warnings
  BY <1>1 DEF ObservedAt, WarningsOf
<1>3. /\ u.category = v.category /\ u.action = v.action /\ u.sev = v.sev /\ u.src = v.src
      /\ u.dst = v.dst /\ u.network = v.network /\ u.threat = v.threat /\ u.auth = v.auth
      /\ u.status = QualityStatus(e.status, u.missing, u.warnings)
      /\ v.status = QualityStatus(e.status, v.missing, v.warnings)
  BY DEF Unified
<1>4. u.status = v.status
  BY <1>1, <1>2, <1>3
<1>5. u.observed <= u.ingested /\ u.ingested <= u.normalized
  BY TimesInOrder
<1>6. v.observed <= v.ingested /\ v.ingested <= v.normalized
  BY TimesInOrder
<1>7. /\ "status" \in DOMAIN u /\ "warnings" \in DOMAIN u /\ "observed" \in DOMAIN u
      /\ "status" \in DOMAIN v /\ "warnings" \in DOMAIN v /\ "observed" \in DOMAIN v
  BY DEF Unified
<1> HIDE DEF u, v, m
<1>8. Violated(u) = Violated(v)
  <2>1. StructureRules(u) = StructureRules(v)
    BY <1>3 DEF StructureRules
  <2>2. CategoryRules(u) = CategoryRules(v)
    BY <1>3 DEF CategoryRules
  <2>3. OutcomeRules(u) = OutcomeRules(v)
    BY <1>3 DEF OutcomeRules
  <2>4. SeverityRules(u) = SeverityRules(v)
    BY <1>2, <1>3 DEF SeverityRules
  <2>5. Rule(~(u.observed <= u.ingested /\ u.ingested <= u.normalized), "timestamp_order")
          = Rule(~(v.observed <= v.ingested /\ v.ingested <= v.normalized), "timestamp_order")
    BY <1>5, <1>6 DEF Rule
  <2>6. Rule(u.status = "partial" /\ u.missing \cup u.warnings = {}, "partial_explanation")
          = Rule(v.status = "partial" /\ v.missing \cup v.warnings = {}, "partial_explanation")
    BY <1>1, <1>2, <1>4
  <2> QED  BY <2>1, <2>2, <2>3, <2>4, <2>5, <2>6 DEF Violated, SemanticRules
<1>9. ASSUME NEW w, "status" \in DOMAIN w, "warnings" \in DOMAIN w, "observed" \in DOMAIN w
      PROVE  /\ Rated(w).observed = w.observed
             /\ Quarantined(Rated(w)) <=> Violated(w) # {} \/ w.status = "invalid"
  <2>1. CASE Violated(w) = {}
    BY <2>1 DEF Rated, Quarantined
  <2>2. CASE Violated(w) # {}
    <3>1. Rated(w) = [w EXCEPT !.status = "invalid", !.warnings = @ \cup Violated(w)]
      BY <2>2 DEF Rated
    <3>2. Rated(w).status = "invalid" /\ Rated(w).observed = w.observed
      BY <1>9, <3>1
    <3> QED  BY <2>2, <3>2 DEF Quarantined
  <2> QED  BY <2>1, <2>2
<1>10. Normalize(e, at) = Rated(u) /\ Normalize(e, at2) = Rated(v)
  BY DEF Normalize, u, v
<1>11. /\ Rated(u).observed = u.observed /\ Rated(v).observed = v.observed
       /\ Quarantined(Rated(u)) <=> Violated(u) # {} \/ u.status = "invalid"
       /\ Quarantined(Rated(v)) <=> Violated(v) # {} \/ v.status = "invalid"
  BY <1>7, <1>9
<1> QED  BY <1>2, <1>4, <1>8, <1>10, <1>11

\* Rating does not touch the time section.
LEMMA NormalizedWhen ==
    ASSUME NEW e, NEW at
    PROVE  Normalize(e, at).normalized = NormalizedAt(at)
<1>1. Unified(e, at).normalized = NormalizedAt(at)
  BY DEF Unified
<1>2. Rated(Unified(e, at)).normalized = Unified(e, at).normalized
  BY DEF Rated, Unified
<1> QED  BY <1>1, <1>2 DEF Normalize

\* Rows of one event are of one rating and one observed time; those that were normalized at
\* one time are the same.
Redelivered(rows) ==
    /\ \A k \in 1 .. Len(rows) : rows[k].u.normalized \in Int
    /\ \A j, k \in 1 .. Len(rows) : rows[j].id = rows[k].id =>
         /\ rows[j].u.observed = rows[k].u.observed
         /\ IsAccepted(rows[j]) <=> IsAccepted(rows[k])
         /\ rows[j].u.normalized = rows[k].u.normalized => rows[j] = rows[k]

\* The rows at some places of a list.
RowsAt(rows, places) == {rows[k] : k \in places}

\* What is written of any deliveries is a list of such rows.
LEMMA WrittenIs ==
    ASSUME NEW n \in Nat, NEW X, NEW body \in [1 .. n -> X],
           NEW D, \A x \in D : x.id \in 1 .. n /\ x.at \in Nat, NEW d \in Seq(D)
    PROVE  LET rows == WrittenRows(body, d) IN
           /\ rows \in Seq(RowsAt(rows, 1 .. Len(d))) /\ Len(rows) = Len(d)
           /\ Redelivered(rows)
<1> DEFINE rows == WrittenRows(body, d)
           e(i) == EngineParse(Match(AllPacks, body[i]), "cef", body[i])
           at(k) == [ingested |-> d[k].id, parsed |-> d[k].id, now |-> Len(body) + d[k].at]
           N == Len(d)
<1>1. N \in Nat /\ DOMAIN d = 1 .. N /\ Len(body) = n
  OBVIOUS
<1>2. rows = [k \in 1 .. N |-> Row(d[k].id, Normalize(e(d[k].id), at(k)))]
  BY <1>1 DEF WrittenRows
<1>3. ASSUME NEW k \in 1 .. N
      PROVE  /\ at(k) \in Readings /\ at(k).ingested = d[k].id
             /\ NormalizedAt(at(k)) = n + d[k].at /\ d[k].at \in Int
  <2>1. d[k].id \in 1 .. n /\ d[k].at \in Nat /\ d[k].id \in Int /\ d[k].id <= n
    <3>1. d[k] \in D
      BY <1>1
    <3> QED  BY <3>1
  <2>2. at(k) \in Readings
    BY <1>1, <2>1 DEF Readings
  <2>3. at(k).ingested = d[k].id /\ at(k).parsed = d[k].id /\ at(k).now = n + d[k].at
    BY <1>1
  <2> HIDE DEF at
  <2>4. NormalizedAt(at(k)) = n + d[k].at
    BY <2>1, <2>3 DEF NormalizedAt, Latest
  <2> QED  BY <2>1, <2>2, <2>3, <2>4
<1>4. ASSUME NEW k \in 1 .. N
      PROVE  /\ rows[k] = Row(d[k].id, Normalize(e(d[k].id), at(k)))
             /\ rows[k].id = d[k].id /\ rows[k].u = Normalize(e(d[k].id), at(k))
             /\ rows[k].u.normalized = n + d[k].at
  <2> HIDE DEF e, at
  <2>1. rows[k] = Row(d[k].id, Normalize(e(d[k].id), at(k)))
    BY <1>2
  <2>2. rows[k].id = d[k].id /\ rows[k].u = Normalize(e(d[k].id), at(k))
    BY <2>1 DEF Row
  <2> QED  BY <1>3, <2>1, <2>2, NormalizedWhen
<1>5. rows \in Seq(RowsAt(rows, 1 .. N)) /\ Len(rows) = N
  <2>1. ASSUME NEW X2, NEW g \in [1 .. N -> X2]  PROVE g \in Seq(X2) /\ Len(g) = N
    <3> HIDE DEF N
    <3> QED  BY <1>1
  <2>2. ASSUME NEW g, DOMAIN g = 1 .. N, g = [k \in 1 .. N |-> g[k]]
        PROVE  g \in [1 .. N -> RowsAt(g, 1 .. N)]
    BY <2>2 DEF RowsAt
  <2>3. DOMAIN rows = 1 .. N /\ rows = [k \in 1 .. N |-> rows[k]]
    BY <1>2
  <2> HIDE DEF rows, N
  <2>4. rows \in [1 .. N -> RowsAt(rows, 1 .. N)]
    BY <2>2, <2>3, Zenon
  <2> QED  BY <2>1, <2>4, Zenon
<1> HIDE DEF rows
<1>6. ASSUME NEW k \in 1 .. N  PROVE rows[k].u.normalized \in Int
  <2>1. rows[k].u.normalized = n + d[k].at /\ d[k].at \in Int
    BY <1>3, <1>4, Zenon
  <2> QED  BY <2>1
<1>7. ASSUME NEW j \in 1 .. N, NEW k \in 1 .. N, rows[j].id = rows[k].id
      PROVE  /\ rows[j].u.observed = rows[k].u.observed
             /\ IsAccepted(rows[j]) <=> IsAccepted(rows[k])
             /\ rows[j].u.normalized = rows[k].u.normalized => rows[j] = rows[k]
  <2>1. d[j].id = d[k].id
    BY <1>4, <1>7
  <2>2. at(j) \in Readings /\ at(k) \in Readings /\ at(j).ingested = at(k).ingested
    BY <1>3, <2>1
  <2>3. rows[j].u.normalized = rows[k].u.normalized => at(j) = at(k)
    <3>1. /\ rows[j].u.normalized = n + d[j].at /\ rows[k].u.normalized = n + d[k].at
          /\ d[j].at \in Int /\ d[k].at \in Int
      BY <1>3, <1>4, Zenon
    <3>2. rows[j].u.normalized = rows[k].u.normalized => d[j].at = d[k].at
      BY <3>1
    <3> QED  BY <2>1, <3>2
  <2> HIDE DEF e, at
  <2>4. rows[j].u = Normalize(e(d[k].id), at(j)) /\ rows[k].u = Normalize(e(d[k].id), at(k))
    BY <1>4, <2>1
  <2>5. /\ Normalize(e(d[k].id), at(j)).observed = Normalize(e(d[k].id), at(k)).observed
        /\ Quarantined(Normalize(e(d[k].id), at(j)))
             <=> Quarantined(Normalize(e(d[k].id), at(k)))
    BY <2>2, SameRating
  <2>6. rows[j].u.normalized = rows[k].u.normalized => rows[j] = rows[k]
    BY <1>4, <2>1, <2>3
  <2> QED  BY <2>4, <2>5, <2>6 DEF IsAccepted
<1>8. Redelivered(rows)
  BY <1>5, <1>6, <1>7 DEF Redelivered
<1> QED  BY <1>5, <1>8 DEF rows

(***************************************************************************)
(* What each store holds of them.                                          *)
(***************************************************************************)
LEMMA StoresHold ==
    ASSUME NEW X, NEW rows \in Seq(X)
    PROVE  /\ InMemory(rows) = rows
           /\ InClickHouse(rows).events = Chosen(rows, Accepted(rows))
           /\ InClickHouse(rows).quarantine = Chosen(rows, Refused(rows))
           /\ Accepted(rows) \in SUBSET (1 .. Len(rows)) /\ Len(rows) \in Nat
           /\ Refused(rows) = (1 .. Len(rows)) \ Accepted(rows)
<1>1. DOMAIN rows = 1 .. Len(rows) /\ Len(rows) \in Nat
  OBVIOUS
<1>2. /\ Accepted(rows) \in SUBSET (1 .. Len(rows))
      /\ Refused(rows) = (1 .. Len(rows)) \ Accepted(rows)
  BY <1>1 DEF Accepted, Refused
<1>3. \A s \in Seq(X) : <<>> \o s = s
  OBVIOUS
<1>4. InMemory(rows) = rows
  BY <1>3 DEF InMemory, MemoryWrite, WriteResult
<1> DEFINE valid == Chosen(rows, Accepted(rows))
           refused == Chosen(rows, Refused(rows))
<1>5. valid \in Seq(X) /\ refused \in Seq(X)
  <2>1. Refused(rows) \in SUBSET (1 .. Len(rows))
    BY <1>2
  <2> QED  BY <1>2, <2>1, ChosenIs
<1>6. InClickHouse(rows).events = <<>> \o valid /\ InClickHouse(rows).quarantine = <<>> \o refused
  BY DEF InClickHouse, ClickHouseWrite, WriteResult, Inserted, EmptyClickHouse
<1> HIDE DEF valid, refused
<1> QED  BY <1>1, <1>2, <1>3, <1>4, <1>5, <1>6 DEF valid, refused

\* What is current of the list: of each accepted event the delivery that nothing replaces.
Current(rows) == Accepted(rows) \ Replaced(rows)
Replaces(rows, j, k) ==
    /\ rows[j].id = rows[k].id
    /\ \/ rows[j].u.normalized > rows[k].u.normalized
       \/ rows[j].u.normalized = rows[k].u.normalized /\ j > k

\* There is one of each accepted event, and it was normalized last.
LEMMA CurrentOfEach ==
    ASSUME NEW X, NEW rows \in Seq(X), Redelivered(rows)
    PROVE  /\ Current(rows) \in SUBSET (1 .. Len(rows))
           /\ OnlyInMemory(rows) = (1 .. Len(rows)) \ Current(rows)
           /\ \A k \in Accepted(rows) : \E m \in Current(rows) : rows[m].id = rows[k].id
           /\ \A k, m \in Current(rows) : rows[k].id = rows[m].id => k = m
           /\ \A m \in Current(rows), j \in 1 .. Len(rows) : rows[j].id = rows[m].id =>
                rows[j].u.normalized <= rows[m].u.normalized
<1> DEFINE N == Len(rows)
           A == Accepted(rows)
<1>1. A \in SUBSET (1 .. N) /\ N \in Nat /\ Refused(rows) = (1 .. N) \ A /\ DOMAIN rows = 1 .. N
  BY StoresHold
<1>2. \A k : k \in Current(rows) <=> k \in A /\ \A j \in 1 .. N : ~Replaces(rows, j, k)
  BY <1>1 DEF Current, Replaced, Replaces
<1>3. OnlyInMemory(rows) = (1 .. N) \ Current(rows)
  <2>1. Replaced(rows) \subseteq A
    BY DEF Replaced
  <2> QED  BY <1>1, <2>1 DEF OnlyInMemory, Current
<1>4. \A k \in 1 .. N : rows[k].u.normalized \in Int /\ k \in Int
  BY DEF Redelivered
<1>5. ASSUME NEW k \in A  PROVE \E m \in Current(rows) : rows[m].id = rows[k].id
  <2> DEFINE S == {j \in 1 .. N : rows[j].id = rows[k].id}
             R == {r \in S \X S : Replaces(rows, r[2], r[1])}
             C == Cardinality(S)
  <2>1. S \in SUBSET (1 .. N) /\ k \in S
    BY <1>1
  <2>2. IsFiniteSet(S) /\ C \in Nat
    <3> HIDE DEF S
    <3> QED  BY <1>1, <2>1, ChosenWalks
  <2>3. \A x, y : <<x, y>> \in R <=> x \in S /\ y \in S /\ Replaces(rows, y, x)
    OBVIOUS
  <2>4. \A x, y \in S : x = y \/ <<x, y>> \in R \/ <<y, x>> \in R
    <3> SUFFICES ASSUME NEW x \in S, NEW y \in S, x # y
                 PROVE  Replaces(rows, y, x) \/ Replaces(rows, x, y)
      BY <2>3
    <3>1. /\ rows[x].id = rows[y].id /\ x \in Int /\ y \in Int
          /\ rows[x].u.normalized \in Int /\ rows[y].u.normalized \in Int
      BY <1>4
    <3> QED  BY <3>1 DEF Replaces
  <2>5. \A x \in S : <<x, x>> \notin R
    BY <1>4, <2>3 DEF Replaces
  <2>6. \A x, y, z \in S : <<x, y>> \in R /\ <<y, z>> \in R => <<x, z>> \in R
    <3> SUFFICES ASSUME NEW x \in S, NEW y \in S, NEW z \in S,
                        Replaces(rows, y, x), Replaces(rows, z, y)
                 PROVE  Replaces(rows, z, x)
      BY <2>3
    <3>1. /\ x \in Int /\ y \in Int /\ z \in Int /\ rows[x].u.normalized \in Int
          /\ rows[y].u.normalized \in Int /\ rows[z].u.normalized \in Int
      BY <1>4
    <3> QED  BY <3>1 DEF Replaces
  <2> HIDE DEF S, R
  <2>7. /\ \A x \in S : Rank(S, R, x) \in 1 .. C
        /\ \A x, y \in S : <<x, y>> \in R => Rank(S, R, x) < Rank(S, R, y)
        /\ \A i \in 1 .. C : \E x \in S : Rank(S, R, x) = i
    BY <2>2, <2>4, <2>5, <2>6, Ranked, Zenon
  <2>8. C \in 1 .. C
    BY <2>1, <2>2, <2>7
  <2>9. PICK m \in S : Rank(S, R, m) = C
    BY <2>7, <2>8
  <2>10. \A j \in S : <<m, j>> \notin R
    BY <2>2, <2>7, <2>9
  <2>11. m \in 1 .. N /\ rows[m].id = rows[k].id
    BY DEF S
  <2>12. m \in A
    BY <1>1, <2>11 DEF Redelivered, Accepted
  <2>13. \A j \in 1 .. N : ~Replaces(rows, j, m)
    BY <2>3, <2>10, <2>11 DEF S, Replaces
  <2> QED  BY <1>2, <2>11, <2>12, <2>13
<1>6. ASSUME NEW k \in Current(rows), NEW m \in Current(rows), rows[k].id = rows[m].id
      PROVE  k = m
  <2>1. k \in 1 .. N /\ m \in 1 .. N /\ ~Replaces(rows, k, m) /\ ~Replaces(rows, m, k)
    BY <1>1, <1>2
  <2> QED  BY <1>4, <1>6, <2>1 DEF Replaces
<1>7. ASSUME NEW m \in Current(rows), NEW j \in 1 .. N, rows[j].id = rows[m].id
      PROVE  rows[j].u.normalized <= rows[m].u.normalized
  <2>1. m \in 1 .. N /\ ~Replaces(rows, j, m)
    BY <1>1, <1>2
  <2> QED  BY <1>4, <1>7, <2>1 DEF Replaces
<1>8. Current(rows) \in SUBSET (1 .. N)
  BY <1>1, <1>2
<1> QED  BY <1>3, <1>5, <1>6, <1>7, <1>8

\* FINAL leaves the current row of each event.
LEMMA FinalIsCurrent ==
    ASSUME NEW X, NEW rows \in Seq(X), Redelivered(rows)
    PROVE  Final(Chosen(rows, Accepted(rows))) = RowsAt(rows, Current(rows))
<1> DEFINE A == Accepted(rows)
           M == Cardinality(A)
           c == Chosen(rows, A)
<1>1. A \in SUBSET (1 .. Len(rows)) /\ Len(rows) \in Nat
  BY StoresHold
<1>2. M \in Nat
  BY <1>1, ChosenWalks
<1>3. PICK f : Walks(f, M, A) /\ c = [k \in 1 .. M |-> rows[f[k]]]
  BY <1>1, ChosenWalks
<1> HIDE DEF A, M, c
<1>4. DOMAIN c = 1 .. M /\ \A k \in 1 .. M : c[k] = rows[f[k]]
  BY <1>3
<1>5. /\ \A k \in 1 .. M : f[k] \in A /\ f[k] \in 1 .. Len(rows) /\ f[k] \in Int /\ k \in Int
      /\ \A j, k \in 1 .. M : j < k => f[j] < f[k]
      /\ \A x \in A : \E k \in 1 .. M : f[k] = x
  <2>1. \A k \in 1 .. M : f[k] \in A /\ k \in Int
    BY <1>2, <1>3 DEF Walks
  <2>2. \A x \in A : x \in 1 .. Len(rows) /\ x \in Int
    BY <1>1
  <2>3. \A j, k \in 1 .. M : j < k => f[j] < f[k]
    BY <1>3 DEF Walks
  <2>4. \A x \in A : \E k \in 1 .. M : f[k] = x
    BY <1>3 DEF Walks
  <2> QED  BY <2>1, <2>2, <2>3, <2>4
<1> DEFINE key(i) == <<c[i].u.observed, c[i].id>>
           replaces(j, i) == \/ c[j].u.normalized > c[i].u.normalized
                             \/ c[j].u.normalized = c[i].u.normalized /\ j > i
           left == {k \in 1 .. M : ~\E j \in 1 .. M : key(j) = key(k) /\ replaces(j, k)}
<1>6. Final(c) = {c[i] : i \in left}
  BY <1>4 DEF Final
<1>7. ASSUME NEW j \in 1 .. M, NEW k \in 1 .. M
      PROVE  key(j) = key(k) /\ replaces(j, k) <=> Replaces(rows, f[j], f[k])
  <2>1. c[j] = rows[f[j]] /\ c[k] = rows[f[k]]
    BY <1>4
  <2>2. key(j) = key(k) <=> rows[f[j]].id = rows[f[k]].id
    <3>1. f[j] \in 1 .. Len(rows) /\ f[k] \in 1 .. Len(rows)
      BY <1>5
    <3>2. rows[f[j]].id = rows[f[k]].id => rows[f[j]].u.observed = rows[f[k]].u.observed
      BY <3>1, Zenon DEF Redelivered
    <3> QED  BY <2>1, <3>2
  <2>3. f[j] \in Int /\ f[k] \in Int /\ j \in Int /\ k \in Int
    BY <1>5
  <2>4. j > k <=> f[j] > f[k]
    <3>1. (j < k => f[j] < f[k]) /\ (k < j => f[k] < f[j])
      BY <1>5
    <3> QED  BY <2>3, <3>1
  <2> HIDE DEF key
  <2> QED  BY <2>1, <2>2, <2>4 DEF Replaces
<1> HIDE DEF key, replaces
<1>8. ASSUME NEW k \in 1 .. M  PROVE k \in left <=> f[k] \in Current(rows)
  <2>1. f[k] \in Current(rows) <=> \A j \in 1 .. Len(rows) : ~Replaces(rows, j, f[k])
    <3>1. f[k] \in A /\ DOMAIN rows = 1 .. Len(rows)
      BY <1>5
    <3> QED  BY <3>1 DEF Current, Replaced, Replaces, A
  <2>2. k \in left <=> \A j \in 1 .. M : ~Replaces(rows, f[j], f[k])
    BY <1>7
  <2>3. ASSUME NEW i \in 1 .. Len(rows), Replaces(rows, i, f[k])
        PROVE  \E j \in 1 .. M : Replaces(rows, f[j], f[k])
    <3>1. f[k] \in 1 .. Len(rows) /\ IsAccepted(rows[f[k]]) /\ DOMAIN rows = 1 .. Len(rows)
      BY <1>5 DEF A, Accepted
    <3>2. i \in A
      BY <2>3, <3>1, Zenon DEF Replaces, Redelivered, A, Accepted
    <3>3. PICK j \in 1 .. M : f[j] = i
      BY <1>5, <3>2
    <3> QED  BY <2>3, <3>3
  <2> QED  BY <1>5, <2>1, <2>2, <2>3, Zenon
<1>9. {c[i] : i \in left} = RowsAt(rows, Current(rows))
  <2>1. left \subseteq 1 .. M /\ Current(rows) \subseteq A
    BY DEF Current, A
  <2> HIDE DEF left
  <2>2. \A i \in left : c[i] = rows[f[i]] /\ f[i] \in Current(rows)
    BY <1>4, <1>8, <2>1
  <2>3. \A m \in Current(rows) : \E i \in left : rows[m] = c[i]
    <3>1. ASSUME NEW m \in Current(rows)  PROVE \E i \in left : rows[m] = c[i]
      <4>1. PICK k \in 1 .. M : f[k] = m
        BY <1>5, <2>1
      <4> QED  BY <1>4, <1>8, <4>1
    <3> QED  BY <3>1
  <2> QED  BY <2>2, <2>3 DEF RowsAt
<1> QED  BY <1>6, <1>9 DEF c, A

(***************************************************************************)
(* Every answer in turn.                                                   *)
(***************************************************************************)
\* Sets that a function matches one to one are of one size.
LEMMA SameSize ==
    ASSUME NEW S, IsFiniteSet(S), NEW T, NEW f \in [S -> T],
           \A y \in T : \E x \in S : f[x] = y,
           \A x, y \in S : f[x] = f[y] => x = y
    PROVE  IsFiniteSet(T) /\ Cardinality(T) = Cardinality(S)
<1>1. f \in Surjection(S, T) /\ f \in Injection(S, T)
  BY DEF Surjection, Injection, IsInjective
<1> QED  BY <1>1, FS_Surjection

\* The list has one entry for each identity, each refused event and each replaced delivery.
LEMMA ListCounted ==
    ASSUME NEW X, NEW rows \in Seq(X), Redelivered(rows)
    PROVE  Len(InMemory(rows)) = ClickHouseCount(InClickHouse(rows))
             + Len(InClickHouse(rows).quarantine) + Cardinality(Replaced(rows))
<1> DEFINE A == Accepted(rows)
           N == Len(rows)
           Again == Replaced(rows)
           Now == Current(rows)
           events == InClickHouse(rows).events
           ids == {events[i].id : i \in DOMAIN events}
<1>1. A \in SUBSET (1 .. N) /\ N \in Nat /\ Refused(rows) = (1 .. N) \ A
  BY StoresHold
<1>2. IsFiniteSet(1 .. N) /\ Cardinality(1 .. N) = N
  <2>1. 1 \in Int /\ N \in Int /\ (IF 1 > N THEN 0 ELSE N - 1 + 1) = N
    BY <1>1
  <2> QED  BY <2>1, FS_Interval
<1>3. IsFiniteSet(A) /\ Cardinality(A) \in Nat
  BY <1>1, <1>2, FS_Subset, FS_CardinalityType
<1>4. Len(InClickHouse(rows).quarantine) = N - Cardinality(A)
  <2>1. Refused(rows) \in SUBSET (1 .. N)
    BY <1>1
  <2>2. Len(InClickHouse(rows).quarantine) = Cardinality(Refused(rows))
    BY <2>1, StoresHold, ChosenIs
  <2>3. (1 .. N) \cap A = A
    BY <1>1
  <2>4. Cardinality((1 .. N) \ A) = Cardinality(1 .. N) - Cardinality((1 .. N) \cap A)
    BY <1>2, FS_Difference
  <2> QED  BY <1>1, <1>2, <2>2, <2>3, <2>4
<1>5. Cardinality(Now) = Cardinality(A) - Cardinality(Again) /\ IsFiniteSet(Now)
      /\ Cardinality(Again) \in Nat /\ Now \subseteq A
  <2>1. Again \subseteq A /\ Now = A \ Again
    BY DEF Replaced, Current
  <2>2. A \cap Again = Again
    BY <2>1
  <2> HIDE DEF A, Again, Now
  <2>3. Cardinality(A \ Again) = Cardinality(A) - Cardinality(A \cap Again) /\ IsFiniteSet(A \ Again)
    BY <1>3, FS_Difference
  <2>4. Cardinality(Again) \in Nat
    BY <1>3, <2>1, FS_Subset, FS_CardinalityType
  <2> QED  BY <2>1, <2>2, <2>3, <2>4
<1>6. ids = {rows[k].id : k \in A}
  <2>1. PICK f : Walks(f, Cardinality(A), A) /\ events = [k \in 1 .. Cardinality(A) |-> rows[f[k]]]
    <3>1. events = Chosen(rows, A)
      BY StoresHold
    <3> HIDE DEF events, A
    <3> QED  BY <1>1, <3>1, ChosenWalks
  <2> HIDE DEF A, events
  <2>2. \A k \in 1 .. Cardinality(A) : f[k] \in A /\ events[k] = rows[f[k]]
    BY <2>1 DEF Walks
  <2>3. \A x \in A : \E k \in 1 .. Cardinality(A) : f[k] = x
    BY <2>1 DEF Walks
  <2>4. DOMAIN events = 1 .. Cardinality(A)
    BY <2>1
  <2> QED  BY <2>2, <2>3, <2>4
<1>7. /\ \A k \in A : \E m \in Now : rows[m].id = rows[k].id
      /\ \A k, m \in Now : rows[k].id = rows[m].id => k = m
  BY CurrentOfEach
<1> DEFINE g == [k \in Now |-> rows[k].id]
<1> HIDE DEF A, Again, Now, events, ids
<1>8. g \in [Now -> ids] /\ \A k \in Now : g[k] = rows[k].id
  BY <1>5, <1>6
<1>9. \A y \in ids : \E k \in Now : g[k] = y
  BY <1>6, <1>7, <1>8
<1>10. \A j, k \in Now : g[j] = g[k] => j = k
  BY <1>7, <1>8
<1> HIDE DEF g
<1>11. Cardinality(ids) = Cardinality(Now)
  BY <1>5, <1>8, <1>9, <1>10, SameSize
<1>12. ClickHouseCount(InClickHouse(rows)) = Cardinality(ids) /\ Len(InMemory(rows)) = N
  BY StoresHold DEF ClickHouseCount, ids, events
<1> HIDE DEF N
<1>13. N = Cardinality(ids) + (N - Cardinality(A)) + Cardinality(Again)
  BY <1>1, <1>3, <1>5, <1>11
<1> QED  BY <1>4, <1>12, <1>13 DEF Again

\* The newest row of an accepted event is found in ClickHouse, the last one of any in memory.
LEMMA LookupsCompared ==
    ASSUME NEW X, NEW rows \in Seq(X), Redelivered(rows)
    PROVE  LookupsReconcile(rows)
<1> SUFFICES ASSUME NEW k \in 1 .. Len(rows)
             PROVE  LET last == MemoryById(InMemory(rows), rows[k].id)
                        newest == ClickHouseById(InClickHouse(rows), rows[k].id)
                    IN /\ last # {} /\ (newest = {} <=> \A q \in last : ~IsAccepted(q))
                       /\ \A q \in last, r \in newest : q = r \/ q.u.normalized < r.u.normalized
  BY DEF LookupsReconcile
<1> DEFINE id == rows[k].id
           S == {j \in 1 .. Len(rows) : rows[j].id = id}
           R == RowsAt(rows, Current(rows))
           found == {r \in R : r.id = id}
<1>1. DOMAIN rows = 1 .. Len(rows) /\ Len(rows) \in Nat /\ InMemory(rows) = rows
  BY StoresHold
<1>2. PICK p \in S : \A j \in S : j <= p
  <2>1. S \in SUBSET (1 .. Len(rows)) /\ S # {}
    OBVIOUS
  <2> HIDE DEF S
  <2> QED  BY <1>1, <2>1, Extremes
<1>3. MemoryById(InMemory(rows), id) = {rows[p]}
  <2> DEFINE last(i) == rows[i].id = id /\ \A j \in i + 1 .. Len(rows) : rows[j].id # id
  <2>1. last(p)
    BY <1>1, <1>2
  <2>2. ASSUME NEW i \in 1 .. Len(rows), last(i)  PROVE i = p
    <3>1. i <= p
      BY <1>2, <2>2
    <3>2. ~(i < p)
      <4>1. i < p => p \in i + 1 .. Len(rows)
        BY <1>1, <1>2
      <4> QED  BY <1>2, <2>2, <4>1
    <3> QED  BY <1>1, <1>2, <3>1, <3>2
  <2>3. {i \in 1 .. Len(rows) : last(i)} = {p}
    <3> HIDE DEF last
    <3> QED  BY <1>2, <2>1, <2>2
  <2>4. MemoryById(rows, id) = {rows[i] : i \in {i \in 1 .. Len(rows) : last(i)}}
    BY <1>1 DEF MemoryById
  <2> HIDE DEF last, id
  <2> QED  BY <1>1, <2>3, <2>4
<1>4. ClickHouseById(InClickHouse(rows), id)
        = {r \in found : \A q \in found : q.u.normalized <= r.u.normalized}
  <2>1. Final(InClickHouse(rows).events) = R
    BY StoresHold, FinalIsCurrent
  <2> HIDE DEF R
  <2> QED  BY <2>1 DEF ClickHouseById
<1>5. p \in 1 .. Len(rows) /\ rows[p].id = id
  BY <1>2
<1>6. CASE IsAccepted(rows[p])
  <2>1. p \in Accepted(rows)
    BY <1>1, <1>5, <1>6 DEF Accepted
  <2>2. PICK m \in Current(rows) : rows[m].id = id
    BY <1>5, <2>1, CurrentOfEach
  <2>3. m \in 1 .. Len(rows) /\ rows[m].u.normalized \in Int /\ rows[p].u.normalized \in Int
    BY <1>5, <2>2, CurrentOfEach DEF Redelivered
  <2>4. found = {rows[m]}
    <3>1. \A i \in Current(rows) : rows[i].id = id => i = m
      BY <2>2, CurrentOfEach
    <3> HIDE DEF id
    <3> QED  BY <2>2, <3>1 DEF RowsAt
  <2>5. ClickHouseById(InClickHouse(rows), id) = {rows[m]}
    <3> HIDE DEF found, id
    <3> QED  BY <1>4, <2>3, <2>4
  <2>6. rows[p].u.normalized <= rows[m].u.normalized
    BY <1>5, <2>2, CurrentOfEach
  <2>7. rows[p].u.normalized = rows[m].u.normalized => rows[p] = rows[m]
    BY <1>5, <2>2, <2>3 DEF Redelivered
  <2>8. rows[p] = rows[m] \/ rows[p].u.normalized < rows[m].u.normalized
    BY <2>3, <2>6, <2>7
  <2> QED  BY <1>3, <1>6, <2>5, <2>8
<1>7. CASE ~IsAccepted(rows[p])
  <2>1. found = {}
    <3> SUFFICES ASSUME NEW m \in Current(rows), rows[m].id = id  PROVE FALSE
      BY DEF RowsAt
    <3>1. m \in 1 .. Len(rows) /\ IsAccepted(rows[m])
      BY CurrentOfEach DEF Current, Accepted
    <3> QED  BY <1>5, <1>7, <3>1 DEF Redelivered
  <2>2. ClickHouseById(InClickHouse(rows), id) = {}
    <3> HIDE DEF found, id
    <3> QED  BY <1>4, <2>1
  <2> QED  BY <1>3, <1>7, <2>2
<1> QED  BY <1>6, <1>7
\* FINAL leaves finitely many.
LEMMA CurrentFinite ==
    ASSUME NEW X, NEW rows \in Seq(X), Redelivered(rows)
    PROVE  IsFiniteSet(RowsAt(rows, Current(rows)))
<1> DEFINE L == Current(rows)
           g == [k \in L |-> rows[k]]
<1>1. IsFiniteSet(L)
  <2>1. L \in SUBSET (1 .. Len(rows)) /\ Len(rows) \in Nat
    BY StoresHold, CurrentOfEach
  <2> HIDE DEF L
  <2> QED  BY <2>1, ChosenWalks
<1> HIDE DEF L
<1>2. g \in Surjection(L, RowsAt(rows, L))
  BY DEF Surjection, RowsAt
<1> HIDE DEF g
<1>3. IsFiniteSet(RowsAt(rows, L))
  BY <1>1, <1>2, FS_Surjection
<1> QED  BY <1>3 DEF L

\* The entries of a list, and the rows of a set, that are among some.
ListWithin(s, Z) == Cardinality({i \in DOMAIN s : s[i] \in Z})
RowsWithin(rows, Z) == Cardinality({r \in rows : r \in Z})

\* What is counted of the list is counted of FINAL's rows and of the other entries.
LEMMA CountSplit ==
    ASSUME NEW X, NEW rows \in Seq(X), Redelivered(rows), NEW Z
    PROVE  LET c == Chosen(rows, OnlyInMemory(rows)) IN
           /\ ListWithin(rows, Z) = RowsWithin(RowsAt(rows, Current(rows)), Z) + ListWithin(c, Z)
           /\ \A i \in DOMAIN c : \E k \in DOMAIN rows : c[i] = rows[k]
<1> DEFINE N == Len(rows)
           L == Current(rows)
           E == OnlyInMemory(rows)
           c == Chosen(rows, E)
           R == RowsAt(rows, L)
           Q == {i \in 1 .. N : rows[i] \in Z}
<1>1. N \in Nat /\ DOMAIN rows = 1 .. N
  BY StoresHold
<1>2. L \in SUBSET (1 .. N) /\ E = (1 .. N) \ L /\ \A j, k \in L : rows[j].id = rows[k].id => j = k
  BY CurrentOfEach
<1> HIDE DEF N, L, E
<1>3. IsFiniteSet(1 .. N)
  <2>1. 1 \in Int /\ N \in Int
    BY <1>1
  <2> QED  BY <2>1, FS_Interval
<1>4. IsFiniteSet(Q)
  <2>1. Q \in SUBSET (1 .. N)
    OBVIOUS
  <2> HIDE DEF Q
  <2> QED  BY <1>3, <2>1, FS_Subset
<1>5. Cardinality(Q) = Cardinality(Q \cap L) + Cardinality(Q \cap E)
      /\ IsFiniteSet(Q \cap L) /\ IsFiniteSet(Q \cap E)
  <2>1. Q \cap E = Q \ L
    BY <1>2
  <2> HIDE DEF Q
  <2>2. Cardinality(Q \ L) = Cardinality(Q) - Cardinality(Q \cap L) /\ IsFiniteSet(Q \ L)
    BY <1>4, FS_Difference
  <2>3. IsFiniteSet(Q \cap L) /\ Cardinality(Q \cap L) \in Nat /\ Cardinality(Q) \in Nat
    BY <1>4, FS_Subset, FS_CardinalityType
  <2>4. Cardinality(Q \cap E) = Cardinality(Q) - Cardinality(Q \cap L) /\ IsFiniteSet(Q \cap E)
    BY <2>1, <2>2, Zenon
  <2>5. Cardinality(Q) = Cardinality(Q \cap L) + Cardinality(Q \cap E)
    BY <2>3, <2>4
  <2> QED  BY <2>3, <2>4, <2>5
<1>6. Cardinality({r \in R : r \in Z}) = Cardinality(Q \cap L)
  <2> DEFINE T == {r \in R : r \in Z}
             S == Q \cap L
             g == [k \in S |-> rows[k]]
  <2>1. g \in [S -> T] /\ \A k \in S : g[k] = rows[k] /\ k \in L
    BY DEF RowsAt
  <2>2. \A y \in T : \E k \in S : g[k] = y
    BY <1>2 DEF RowsAt
  <2>3. \A j, k \in S : g[j] = g[k] => j = k
    BY <1>2, <2>1
  <2> HIDE DEF g, S, T
  <2>4. IsFiniteSet(S)
    BY <1>5 DEF S
  <2>5. Cardinality(T) = Cardinality(S)
    BY <2>1, <2>2, <2>3, <2>4, SameSize
  <2> QED  BY <2>5 DEF S, T
<1>7. E \in SUBSET (1 .. N)
  BY <1>2
<1>8. PICK f : Walks(f, Cardinality(E), E) /\ c = [k \in 1 .. Cardinality(E) |-> rows[f[k]]]
  BY <1>1, <1>7, ChosenWalks
<1>9. Cardinality(E) \in Nat
  BY <1>1, <1>7, ChosenWalks
<1> HIDE DEF c, Q
<1>10. /\ DOMAIN c = 1 .. Cardinality(E)
       /\ \A k \in 1 .. Cardinality(E) : c[k] = rows[f[k]] /\ f[k] \in E /\ k \in Int
       /\ \A x \in E : \E k \in 1 .. Cardinality(E) : f[k] = x
  BY <1>8, <1>9 DEF Walks
<1>11. Cardinality({i \in DOMAIN c : c[i] \in Z}) = Cardinality(Q \cap E)
  <2> DEFINE S == {i \in DOMAIN c : c[i] \in Z}
             T == Q \cap E
             g == [k \in S |-> f[k]]
  <2>1. IsFiniteSet(S)
    <3>1. S \in SUBSET (1 .. Cardinality(E))
      BY <1>10
    <3>2. IsFiniteSet(1 .. Cardinality(E))
      <4>1. 1 \in Int /\ Cardinality(E) \in Int
        BY <1>9
      <4> QED  BY <4>1, FS_Interval
    <3> HIDE DEF S
    <3> QED  BY <3>1, <3>2, FS_Subset
  <2>2. g \in [S -> T] /\ \A k \in S : g[k] = f[k] /\ k \in 1 .. Cardinality(E)
    BY <1>7, <1>10 DEF Q
  <2>3. \A y \in T : \E k \in S : g[k] = y
    <3> SUFFICES ASSUME NEW y \in T  PROVE \E k \in S : g[k] = y
      OBVIOUS
    <3>1. PICK k \in 1 .. Cardinality(E) : f[k] = y
      BY <1>10
    <3>2. c[k] \in Z
      BY <1>10, <3>1 DEF Q
    <3> QED  BY <1>10, <3>1, <3>2
  <2>4. \A j, k \in S : g[j] = g[k] => j = k
    <3> SUFFICES ASSUME NEW j \in S, NEW k \in S, g[j] = g[k]  PROVE j = k
      OBVIOUS
    <3>1. f[j] = f[k] /\ j \in 1 .. Cardinality(E) /\ k \in 1 .. Cardinality(E)
      BY <2>2
    <3>2. f[j] \in Int
      <4>1. f[j] \in 1 .. N
        BY <1>7, <1>10, <3>1
      <4> QED  BY <1>1, <4>1
    <3>3. ~(j < k) /\ ~(k < j)
      BY <1>8, <3>1, <3>2 DEF Walks
    <3> QED  BY <1>9, <3>1, <3>3
  <2> HIDE DEF g, S, T
  <2>5. Cardinality(T) = Cardinality(S)
    BY <2>1, <2>2, <2>3, <2>4, SameSize
  <2> QED  BY <2>5 DEF S, T
<1>12. \A i \in DOMAIN c : \E k \in DOMAIN rows : c[i] = rows[k]
  BY <1>1, <1>7, <1>10
<1>13. Cardinality({i \in DOMAIN rows : rows[i] \in Z}) = Cardinality(Q)
  BY <1>1 DEF Q
<1>14. ListWithin(rows, Z) = RowsWithin(R, Z) + ListWithin(c, Z)
  BY <1>5, <1>6, <1>11, <1>13 DEF ListWithin, RowsWithin
<1> QED  BY <1>12, <1>14 DEF c, E, L

\* The two keys of a source tell the same sources apart.
LEMMA LabelsMatch == \A x, y : MemoryLabel(x) = MemoryLabel(y) <=> ClickHouseLabel(x) = ClickHouseLabel(y)
<1> SUFFICES ASSUME NEW x, NEW y
             PROVE  MemoryLabel(x) = MemoryLabel(y) <=> ClickHouseLabel(x) = ClickHouseLabel(y)
  OBVIOUS
<1> QED  BY DEF MemoryLabel, ClickHouseLabel

\* The entries of a list, and the rows of a set, that a counter counts.
ListInGroup(s, group) == Cardinality({i \in DOMAIN s : ActionGroup(s[i]) = group})
ListHaving(s, c, v) == Cardinality({i \in DOMAIN s : Column(s[i], c) = v})
ListFrom(s, label) == Cardinality({i \in DOMAIN s : MemoryLabel(s[i].u.pack) = label})
RowsActing(rows, actions) == Cardinality({r \in rows : r.u.action[1] \in actions})
RowsHaving(rows, c, v) == Cardinality({r \in rows : Column(r, c) = v})
RowsFrom(rows, label) == Cardinality({r \in rows : ClickHouseLabel(r.u.pack) = label})

\* What the counters of either store say: where no entry has a label there is no key.
LEMMA MemoryShows ==
    ASSUME NEW s
    PROVE  LET shown == MemoryAggregations(s) IN
           /\ shown.total = Len(s)
           /\ \A a \in {"allow", "deny"} : shown.action[a] = ListInGroup(s, a)
           /\ \A v \in Labels : shown.severity[v] = ListHaving(s, "severity", v)
           /\ \A v \in Qualities : shown.quality[v] = ListHaving(s, "quality", v)
           /\ \A l : Shown(shown.source, l) = ListFrom(s, l)
<1> DEFINE label(i) == MemoryLabel(s[i].u.pack)
           keys == {label(i) : i \in DOMAIN s}
           shown == MemoryAggregations(s)
<1>1. /\ shown.total = Len(s)
      /\ shown.action = [a \in {"allow", "deny"} |-> ListInGroup(s, a)]
      /\ shown.severity = [v \in Labels |-> ListHaving(s, "severity", v)]
      /\ shown.quality = [v \in Qualities |-> ListHaving(s, "quality", v)]
      /\ shown.source = [l \in keys |-> ListFrom(s, l)]
  BY DEF MemoryAggregations, Dashboard, MemoryTotal, ListInGroup, ListHaving, ListFrom
<1>2. \A l : l \notin keys => ListFrom(s, l) = 0
  <2>1. \A l : l \notin keys => {i \in DOMAIN s : label(i) = l} = {}
    OBVIOUS
  <2> QED  BY <2>1, FS_EmptySet DEF ListFrom
<1> HIDE DEF shown, keys
<1>3. \A l : Shown(shown.source, l) = ListFrom(s, l)
  BY <1>1, <1>2 DEF Shown
<1> QED  BY <1>1, <1>3 DEF shown

\* The same of ClickHouse, for the rows R that FINAL leaves.
LEMMA ClickHouseShows ==
    ASSUME NEW tables, NEW R, Final(tables.events) = R
    PROVE  LET shown == ClickHouseAggregations(tables) IN
           /\ shown.total = Cardinality({r.id : r \in R})
           /\ shown.action["allow"] = RowsActing(R, {"allow", "connect", "authenticate"})
           /\ shown.action["deny"] = RowsActing(R, {"deny", "block"})
           /\ \A v \in Labels : shown.severity[v] = RowsHaving(R, "severity", v)
           /\ \A v \in Qualities : shown.quality[v] = RowsHaving(R, "quality", v)
           /\ \A l : Shown(shown.source, l) = RowsFrom(R, l)
<1> DEFINE label(r) == ClickHouseLabel(r.u.pack)
           keys == {label(r) : r \in R}
           shown == ClickHouseAggregations(tables)
<1>1. /\ shown.total = Cardinality({r.id : r \in R})
      /\ shown.action = [a \in {"allow", "deny"} |-> IF a = "allow"
           THEN RowsActing(R, {"allow", "connect", "authenticate"})
           ELSE RowsActing(R, {"deny", "block"})]
      /\ shown.severity = [v \in Labels |-> RowsHaving(R, "severity", v)]
      /\ shown.quality = [v \in Qualities |-> RowsHaving(R, "quality", v)]
      /\ shown.source = [l \in keys |-> RowsFrom(R, l)]
  BY DEF ClickHouseAggregations, Dashboard, ClickHouseTotal, RowsActing, RowsHaving, RowsFrom
<1>2. \A l : l \notin keys => RowsFrom(R, l) = 0
  <2>1. \A l : l \notin keys => {r \in R : label(r) = l} = {}
    OBVIOUS
  <2> QED  BY <2>1, FS_EmptySet DEF RowsFrom
<1> HIDE DEF shown, keys
<1>3. \A l : Shown(shown.source, l) = RowsFrom(R, l)
  BY <1>1, <1>2 DEF Shown
<1> QED  BY <1>1, <1>3 DEF shown

\* Each number the memory store shows is ClickHouse's and the other entries'.
LEMMA CountersCompared ==
    ASSUME NEW X, NEW rows \in Seq(X), Redelivered(rows)
    PROVE  CountersReconcile(rows)
<1> DEFINE c == Chosen(rows, OnlyInMemory(rows))
           R == RowsAt(rows, Current(rows))
           Y == RowsAt(rows, DOMAIN rows)
           tables == InClickHouse(rows)
           all(Z) == ListWithin(rows, Z)
           now(Z) == RowsWithin(R, Z)
           rest(Z) == ListWithin(c, Z)
<1>1. InMemory(rows) = rows /\ DOMAIN rows = 1 .. Len(rows) /\ Len(rows) \in Nat
  BY StoresHold
<1>2. Final(tables.events) = R
  BY StoresHold, FinalIsCurrent
<1>3. /\ \A i \in DOMAIN rows : rows[i] \in Y
      /\ \A r \in R : r \in Y
      /\ \A i \in DOMAIN c : c[i] \in Y
  <2>1. \A i \in DOMAIN c : \E k \in DOMAIN rows : c[i] = rows[k]
    BY CountSplit
  <2>2. Current(rows) \subseteq DOMAIN rows
    BY <1>1, CurrentOfEach
  <2> HIDE DEF c
  <2> QED  BY <2>1, <2>2 DEF RowsAt
<1>4. \A Z : all(Z) = now(Z) + rest(Z)
  BY CountSplit
<1>5. Current(rows) \in SUBSET (1 .. Len(rows)) /\ \A j, k \in Current(rows) : rows[j].id = rows[k].id => j = k
  BY CurrentOfEach
<1>6. OnlyInMemory(rows) \in SUBSET (1 .. Len(rows))
  BY CurrentOfEach
<1>7. DOMAIN c = 1 .. Len(c) /\ Len(c) \in Nat
  BY <1>1, <1>6, ChosenIs
<1> HIDE DEF c, R, Y, tables
<1>8. MemoryTotal(rows) = ClickHouseTotal(tables) + MemoryTotal(c)
  <2>1. \A n \in Nat : Cardinality(1 .. n) = n
    <3> SUFFICES ASSUME NEW n \in Nat  PROVE Cardinality(1 .. n) = n
      OBVIOUS
    <3>1. 1 \in Int /\ n \in Int /\ (IF 1 > n THEN 0 ELSE n - 1 + 1) = n
      OBVIOUS
    <3> QED  BY <3>1, FS_Interval
  <2>2. {i \in DOMAIN rows : rows[i] \in Y} = 1 .. Len(rows) /\ {r \in R : r \in Y} = R
        /\ {i \in DOMAIN c : c[i] \in Y} = 1 .. Len(c)
    BY <1>1, <1>3, <1>7
  <2>3. all(Y) = Len(rows) /\ rest(Y) = Len(c) /\ now(Y) = Cardinality(R)
    BY <1>1, <1>7, <2>1, <2>2 DEF ListWithin, RowsWithin
  <2>4. Cardinality({r.id : r \in R}) = Cardinality(R)
    <3> DEFINE ids == {r.id : r \in R}
               g == [r \in R |-> r.id]
    <3>1. IsFiniteSet(R)
      BY CurrentFinite DEF R
    <3>2. g \in [R -> ids] /\ \A r \in R : g[r] = r.id
      OBVIOUS
    <3>3. \A y \in ids : \E r \in R : g[r] = y
      OBVIOUS
    <3>4. \A q, r \in R : g[q] = g[r] => q = r
      BY <1>5, <3>2 DEF R, RowsAt
    <3> HIDE DEF g, ids
    <3>5. Cardinality(ids) = Cardinality(R)
      BY <3>1, <3>2, <3>3, <3>4, SameSize
    <3> QED  BY <3>5 DEF ids
  <2> HIDE DEF all, now, rest
  <2> QED  BY <1>2, <1>4, <2>3, <2>4 DEF MemoryTotal, ClickHouseTotal
<1> HIDE DEF all, now, rest
<1> DEFINE memory == MemoryAggregations(rows)
           clickhouse == ClickHouseAggregations(tables)
           others == MemoryAggregations(c)
<1>9. ASSUME NEW a, NEW actions, \A r : ActionGroup(r) = a <=> r.u.action[1] \in actions
      PROVE  ListInGroup(rows, a) = RowsActing(R, actions) + ListInGroup(c, a)
  <2> DEFINE Z == {r \in Y : ActionGroup(r) = a}
  <2>1. /\ {i \in DOMAIN rows : ActionGroup(rows[i]) = a} = {i \in DOMAIN rows : rows[i] \in Z}
        /\ {r \in R : r.u.action[1] \in actions} = {r \in R : r \in Z}
        /\ {i \in DOMAIN c : ActionGroup(c[i]) = a} = {i \in DOMAIN c : c[i] \in Z}
    BY <1>3, <1>9
  <2>2. all(Z) = now(Z) + rest(Z)
    BY <1>4
  <2> HIDE DEF Z
  <2> QED  BY <2>1, <2>2 DEF all, now, rest, ListWithin, RowsWithin, ListInGroup, RowsActing
<1>10. \A a \in {"allow", "deny"} : memory.action[a] = clickhouse.action[a] + others.action[a]
  <2>1. /\ \A r : ActionGroup(r) = "allow" <=> r.u.action[1] \in {"allow", "connect", "authenticate"}
        /\ \A r : ActionGroup(r) = "deny" <=> r.u.action[1] \in {"deny", "block"}
    <3> SUFFICES ASSUME NEW r
                 PROVE  /\ ActionGroup(r) = "allow" <=> r.u.action[1] \in {"allow", "connect", "authenticate"}
                        /\ ActionGroup(r) = "deny" <=> r.u.action[1] \in {"deny", "block"}
      OBVIOUS
    <3> DEFINE x == r.u.action[1]
    <3>1. CASE x \in {"allow", "connect", "authenticate"}
      BY <3>1 DEF ActionGroup
    <3>2. CASE x \in {"deny", "block"}
      BY <3>2 DEF ActionGroup
    <3>3. CASE x \notin {"allow", "connect", "authenticate", "deny", "block"}
      BY <3>3 DEF ActionGroup
    <3> QED  BY <3>1, <3>2, <3>3
  <2>2. /\ clickhouse.action["allow"] = RowsActing(R, {"allow", "connect", "authenticate"})
        /\ clickhouse.action["deny"] = RowsActing(R, {"deny", "block"})
    BY <1>2, ClickHouseShows
  <2>3. \A a \in {"allow", "deny"} : /\ memory.action[a] = ListInGroup(rows, a)
                                    /\ others.action[a] = ListInGroup(c, a)
    BY MemoryShows
  <2> HIDE DEF memory, clickhouse, others
  <2>4. memory.action["allow"] = clickhouse.action["allow"] + others.action["allow"]
    BY <1>9, <2>1, <2>2, <2>3
  <2>5. memory.action["deny"] = clickhouse.action["deny"] + others.action["deny"]
    BY <1>9, <2>1, <2>2, <2>3
  <2> QED  BY <2>4, <2>5
<1>11. \A col, v : ListHaving(rows, col, v) = RowsHaving(R, col, v) + ListHaving(c, col, v)
  <2> SUFFICES ASSUME NEW col, NEW v
               PROVE  ListHaving(rows, col, v) = RowsHaving(R, col, v) + ListHaving(c, col, v)
    OBVIOUS
  <2> DEFINE Z == {r \in Y : Column(r, col) = v}
  <2>1. /\ {i \in DOMAIN rows : Column(rows[i], col) = v} = {i \in DOMAIN rows : rows[i] \in Z}
        /\ {r \in R : Column(r, col) = v} = {r \in R : r \in Z}
        /\ {i \in DOMAIN c : Column(c[i], col) = v} = {i \in DOMAIN c : c[i] \in Z}
    BY <1>3
  <2>2. all(Z) = now(Z) + rest(Z)
    BY <1>4
  <2> HIDE DEF Z
  <2> QED  BY <2>1, <2>2 DEF all, now, rest, ListWithin, RowsWithin, ListHaving, RowsHaving
<1>12. /\ \A v \in Labels : memory.severity[v] = clickhouse.severity[v] + others.severity[v]
       /\ \A v \in Qualities : memory.quality[v] = clickhouse.quality[v] + others.quality[v]
  <2>1. /\ \A v \in Labels : clickhouse.severity[v] = RowsHaving(R, "severity", v)
        /\ \A v \in Qualities : clickhouse.quality[v] = RowsHaving(R, "quality", v)
    BY <1>2, ClickHouseShows
  <2>2. /\ \A v \in Labels : /\ memory.severity[v] = ListHaving(rows, "severity", v)
                             /\ others.severity[v] = ListHaving(c, "severity", v)
        /\ \A v \in Qualities : /\ memory.quality[v] = ListHaving(rows, "quality", v)
                                /\ others.quality[v] = ListHaving(c, "quality", v)
    BY MemoryShows
  <2> HIDE DEF memory, clickhouse, others
  <2> QED  BY <1>11, <2>1, <2>2
<1>13. ASSUME NEW p
       PROVE  Shown(memory.source, MemoryLabel(p))
                = Shown(clickhouse.source, ClickHouseLabel(p)) + Shown(others.source, MemoryLabel(p))
  <2> DEFINE Z == {r \in Y : MemoryLabel(r.u.pack) = MemoryLabel(p)}
  <2>1. /\ {i \in DOMAIN rows : MemoryLabel(rows[i].u.pack) = MemoryLabel(p)}
             = {i \in DOMAIN rows : rows[i] \in Z}
        /\ {i \in DOMAIN c : MemoryLabel(c[i].u.pack) = MemoryLabel(p)} = {i \in DOMAIN c : c[i] \in Z}
        /\ {r \in R : ClickHouseLabel(r.u.pack) = ClickHouseLabel(p)} = {r \in R : r \in Z}
    BY <1>3, LabelsMatch
  <2>2. all(Z) = now(Z) + rest(Z)
    BY <1>4
  <2> HIDE DEF Z, memory, clickhouse, others
  <2>3. ListFrom(rows, MemoryLabel(p)) = RowsFrom(R, ClickHouseLabel(p)) + ListFrom(c, MemoryLabel(p))
    BY <2>1, <2>2 DEF all, now, rest, ListWithin, RowsWithin, ListFrom, RowsFrom
  <2> USE DEF memory, clickhouse, others
  <2> QED  BY <1>2, <2>3, MemoryShows, ClickHouseShows
<1>14. memory.total = clickhouse.total + Cardinality(OnlyInMemory(rows))
  <2>1. MemoryTotal(c) = Cardinality(OnlyInMemory(rows))
    BY <1>1, <1>6, ChosenIs DEF MemoryTotal, c
  <2> QED  BY <1>8, <2>1 DEF MemoryAggregations, ClickHouseAggregations, Dashboard
<1>15. Len(InMemory(rows)) = ClickHouseCount(tables) + Len(tables.quarantine)
                               + Cardinality(Replaced(rows))
  BY ListCounted DEF tables
<1> HIDE DEF memory, clickhouse, others
<1> QED
  BY <1>1, <1>10, <1>12, <1>13, <1>14, <1>15
  DEF CountersReconcile, c, tables, memory, clickhouse, others

\* A filter that both stores read alike.
Shared(f) == (\A x \in Columns : f[x] # "") /\ f.text \in {"absent", "name", "address"}

LEMMA FiltersAreShared == \A g \in SharedFilters : Shared(g)
<1> SUFFICES ASSUME NEW g \in SharedFilters  PROVE Shared(g)
  OBVIOUS
<1>1. Shared(NoFilter)
  BY DEF Shared, NoFilter, Columns
<1>2. ASSUME NEW q \in Qualities \cup {"all"}  PROVE Shared([NoFilter EXCEPT !.quality = q])
  <2> DEFINE f == [NoFilter EXCEPT !.quality = q]
  <2>1. q # ""
    BY <1>2 DEF Qualities
  <2>2. /\ f.quality = q /\ f.text = "absent" /\ f.vendor = "absent"
        /\ f.category = "absent" /\ f.action = "absent" /\ f.severity = "absent"
    BY DEF NoFilter
  <2> HIDE DEF f
  <2>3. Shared(f)
    BY <2>1, <2>2 DEF Shared, Columns
  <2> QED  BY <2>3 DEF f
<1>3. ASSUME NEW s \in Labels  PROVE Shared([NoFilter EXCEPT !.severity = s])
  <2> DEFINE f == [NoFilter EXCEPT !.severity = s]
  <2>1. s # ""
    BY <1>3 DEF Labels
  <2>2. /\ f.severity = s /\ f.text = "absent" /\ f.vendor = "absent"
        /\ f.category = "absent" /\ f.action = "absent" /\ f.quality = "absent"
    BY DEF NoFilter
  <2> HIDE DEF f
  <2>3. Shared(f)
    BY <2>1, <2>2 DEF Shared, Columns
  <2> QED  BY <2>3 DEF f
<1>4. /\ Shared([NoFilter EXCEPT !.vendor = "cisco_asa", !.text = "address"])
      /\ Shared([NoFilter EXCEPT !.action = "block", !.from = 2])
      /\ Shared([NoFilter EXCEPT !.category = "network", !.to = 2])
  BY DEF Shared, NoFilter, Columns
<1> QED  BY <1>1, <1>2, <1>3, <1>4 DEF SharedFilters

\* Whatever cuts the pages, what only one of them has is accounted for.
LEMMA PagesCompared ==
    ASSUME NEW X, NEW rows \in Seq(X), Redelivered(rows)
    PROVE  PagesReconcile(rows)
<1> DEFINE N == Len(rows)
           L == Current(rows)
           E == OnlyInMemory(rows)
           R == RowsAt(rows, L)
<1>1. DOMAIN rows = 1 .. N /\ N \in Nat /\ InMemory(rows) = rows
  BY StoresHold
<1>2. L \in SUBSET (1 .. N) /\ E = (1 .. N) \ L
      /\ \A j, k \in L : rows[j].id = rows[k].id => j = k
  BY CurrentOfEach
<1>3. Final(InClickHouse(rows).events) = R
  BY StoresHold, FinalIsCurrent
<1>4. IsFiniteSet(R)
  BY CurrentFinite
<1> HIDE DEF N, L, E
<1> SUFFICES ASSUME NEW f \in SharedFilters, NEW limit \in 1 .. N, NEW cap \in 1 .. N,
                    NEW shown \in ClickHouseSearch(InClickHouse(rows), f, limit, cap)
             PROVE  /\ \A i \in MemoryPage(rows, f, limit) \ E : rows[i] \notin shown =>
                         /\ Cardinality(shown) = Fewer(limit, cap)
                         /\ \A r \in shown : rows[i].u.observed <= r.u.observed
                    /\ \A r \in shown : (\A i \in MemoryPage(rows, f, limit) : rows[i] # r) =>
                         \E i \in MemoryPage(rows, f, limit) :
                            \/ i \in E
                            \/ rows[i] \notin shown /\ rows[i].u.observed <= r.u.observed
  BY <1>1 DEF PagesReconcile, E
<1> DEFINE found == {i \in 1 .. N : MemoryKeeps(f, rows[i])}
           kept == {r \in R : ClickHouseKeeps(f, r)}
           later(i) == {j \in found : j > i}
           page == {i \in found : Cardinality(later(i)) < limit}
           top == Fewer(limit, cap)
<1>5. MemoryPage(rows, f, limit) = page
  BY <1>1 DEF MemoryPage
<1>6. \A r : MemoryKeeps(f, r) <=> ClickHouseKeeps(f, r)
  <2>1. Shared(f)
    BY FiltersAreShared
  <2> QED  BY <2>1 DEF MemoryKeeps, ClickHouseKeeps, Shared, MemoryFinds, ClickHouseFinds
<1>7. top \in Nat /\ top <= limit /\ limit \in Nat
  BY <1>1 DEF Fewer
<1>8. shown \in NewestOf(kept, top)
  <2> HIDE DEF R
  <2> QED  BY <1>3 DEF ClickHouseSearch
<1>9. /\ shown \subseteq kept /\ Cardinality(shown) = Fewer(top, Cardinality(kept))
      /\ \A r \in shown, q \in kept \ shown : r.u.observed >= q.u.observed
  <2> HIDE DEF kept, top
  <2> QED  BY <1>8 DEF NewestOf
<1>10. IsFiniteSet(kept) /\ Cardinality(kept) \in Nat
  <2>1. kept \in SUBSET R
    OBVIOUS
  <2> HIDE DEF kept
  <2> QED  BY <1>4, <2>1, FS_Subset, FS_CardinalityType
<1>11. \A i \in L : i \in found <=> rows[i] \in kept
  BY <1>2, <1>6 DEF RowsAt
<1>12. \A r \in kept : \E m \in L : rows[m] = r /\ m \in found
  BY <1>2, <1>6 DEF RowsAt
<1> HIDE DEF R, kept, top, page
<1>13. IsFiniteSet(shown) /\ Cardinality(shown) \in Nat /\ Cardinality(shown) <= top
  <2>1. IsFiniteSet(shown) /\ Cardinality(shown) \in Nat
    BY <1>9, <1>10, FS_Subset, FS_CardinalityType
  <2> QED  BY <1>7, <1>9, <1>10, <2>1 DEF Fewer
<1>14. ASSUME NEW i \in page \ E, rows[i] \notin shown
       PROVE  rows[i] \in kept \ shown
  <2>1. i \in found /\ i \in 1 .. N
    BY DEF page
  <2>2. i \in L
    BY <1>2, <2>1
  <2> QED  BY <1>11, <1>14, <2>1, <2>2
<1>15. ASSUME NEW i \in page \ E, rows[i] \notin shown
       PROVE  /\ Cardinality(shown) = top
              /\ \A r \in shown : rows[i].u.observed <= r.u.observed
  <2>1. rows[i] \in kept \ shown
    BY <1>14, <1>15
  <2>2. Cardinality(shown) < Cardinality(kept)
    <3>1. shown \in SUBSET (kept \ {rows[i]})
      BY <1>9, <2>1
    <3>2. IsFiniteSet(kept \ {rows[i]}) /\ Cardinality(kept \ {rows[i]}) = Cardinality(kept) - 1
      BY <1>10, <2>1, FS_RemoveElement
    <3>3. Cardinality(shown) <= Cardinality(kept \ {rows[i]})
      BY <3>1, <3>2, FS_Subset
    <3> QED  BY <1>10, <1>13, <3>2, <3>3
  <2>3. Cardinality(shown) = top
    BY <1>7, <1>9, <1>10, <2>2 DEF Fewer
  <2> QED  BY <1>9, <2>1, <2>3
<1>16. ASSUME NEW r \in shown, \A i \in page : rows[i] # r,
              \A i \in page : i \notin E /\ (rows[i] \in shown \/ ~(rows[i].u.observed <= r.u.observed))
       PROVE  FALSE
  <2>1. \A i \in page : i \in L /\ rows[i] \in shown \ {r}
    <3> SUFFICES ASSUME NEW i \in page  PROVE i \in L /\ rows[i] \in shown \ {r}
      OBVIOUS
    <3>1. i \in L
      BY <1>2, <1>16 DEF page
    <3>2. rows[i] \in shown
      BY <1>15, <1>16
    <3> QED  BY <1>16, <3>1, <3>2
  <2>2. page \in SUBSET (1 .. N) /\ found \in SUBSET (1 .. N)
    BY DEF page
  <2>3. IsFiniteSet(1 .. N)
    <3>1. 1 \in Int /\ N \in Int
      BY <1>1
    <3> QED  BY <3>1, FS_Interval
  <2>4. IsFiniteSet(page) /\ Cardinality(page) \in Nat
    BY <2>2, <2>3, FS_Subset, FS_CardinalityType
  <2>5. Cardinality(page) < limit
    <3> DEFINE g == [i \in page |-> rows[i]]
               T == shown \ {r}
    <3>1. IsFiniteSet(T) /\ Cardinality(T) = Cardinality(shown) - 1
      BY <1>13, FS_RemoveElement
    <3>2. g \in Injection(page, T)
      <4>1. g \in [page -> T]
        BY <2>1
      <4>2. \A j, k \in page : g[j] = g[k] => j = k
        BY <1>2, <2>1
      <4> HIDE DEF g, T
      <4> QED  BY <4>1, <4>2 DEF Injection, IsInjective
    <3> HIDE DEF g, T
    <3>3. Cardinality(page) <= Cardinality(T)
      BY <3>1, <3>2, FS_Injection
    <3> QED  BY <1>7, <1>13, <2>4, <3>1, <3>3
  <2>6. PICK m \in found : rows[m] = r
    BY <1>9, <1>12
  <2>7. m \notin page
    BY <1>16, <2>6
  <2>8. PICK x \in found \ page : \A y \in found \ page : y <= x
    <3>1. found \ page \in SUBSET (1 .. N) /\ found \ page # {}
      BY <2>2, <2>6, <2>7
    <3> HIDE DEF found
    <3> QED  BY <1>1, <3>1, Extremes
  <2>9. later(x) \subseteq page
    BY <2>2, <2>8
  <2> HIDE DEF later
  <2>10. Cardinality(later(x)) <= Cardinality(page) /\ Cardinality(later(x)) \in Nat
    BY <2>4, <2>9, FS_Subset, FS_CardinalityType
  <2>11. Cardinality(later(x)) < limit
    BY <1>7, <2>4, <2>5, <2>10
  <2> QED  BY <2>8, <2>11 DEF page
<1> QED
  <2>1. \A i \in page \ E : rows[i] \notin shown =>
           /\ Cardinality(shown) = top /\ \A r \in shown : rows[i].u.observed <= r.u.observed
    BY <1>15
  <2>2. \A r \in shown : (\A i \in page : rows[i] # r) =>
           \E i \in page : \/ i \in E
                           \/ rows[i] \notin shown /\ rows[i].u.observed <= r.u.observed
    BY <1>16
  <2> HIDE DEF page
  <2> QED  BY <1>5, <2>1, <2>2 DEF top

(***************************************************************************)
(* However many events are delivered, how often, in which order and        *)
(* however renormalized: the memory store answers what ClickHouse does and *)
(* what its further entries, the quarantined events and the replaced       *)
(* deliveries, come to.                                                    *)
(***************************************************************************)
THEOREM StoresReconciled ==
    ASSUME NEW n \in Nat, NEW X, NEW body \in [1 .. n -> X],
           NEW d \in Seq([id : 1 .. n, at : Nat])
    PROVE  Reconciles(WrittenRows(body, d))
<1> DEFINE rows == WrittenRows(body, d)
           D == [id : 1 .. n, at : Nat]
<1>1. rows \in Seq(RowsAt(rows, 1 .. Len(d))) /\ Redelivered(rows)
  <2>1. \A x \in D : x.id \in 1 .. n /\ x.at \in Nat
    OBVIOUS
  <2> HIDE DEF D
  <2>2. d \in Seq(D)
    BY DEF D
  <2>3. LET written == WrittenRows(body, d) IN
        written \in Seq(RowsAt(written, 1 .. Len(d))) /\ Redelivered(written)
    BY <2>1, <2>2, WrittenIs
  <2> QED  BY <2>3, Zenon
<1> HIDE DEF rows
<1>2. CountersReconcile(rows) /\ LookupsReconcile(rows) /\ PagesReconcile(rows)
  BY <1>1, CountersCompared, LookupsCompared, PagesCompared
<1> QED  BY <1>2 DEF Reconciles, rows

\* So the deliveries that ApiServer has the checker go through leave no difference open.
LEMMA NothingUnreconciled == Unreconciled = {}
<1> SUFFICES ASSUME NEW body \in [1 .. 2 -> Storable],
                    NEW d \in UNION {[1 .. n -> Deliveries] : n \in 1 .. 3}
             PROVE  Reconciles(WrittenRows(body, d))
  <2>1. \A c \in [1 .. 2 -> Storable] \X UNION {[1 .. n -> Deliveries] : n \in 1 .. 3} :
           c[1] \in [1 .. 2 -> Storable] /\ c[2] \in UNION {[1 .. n -> Deliveries] : n \in 1 .. 3}
    OBVIOUS
  <2> QED  BY <2>1, Zenon DEF Unreconciled
<1>1. PICK n \in 1 .. 3 : d \in [1 .. n -> Deliveries]
  OBVIOUS
<1>2. d \in Seq([id : 1 .. 2, at : Nat])
  <2>1. Deliveries \subseteq [id : 1 .. 2, at : Nat]
    BY DEF Deliveries
  <2> DEFINE D == [id : 1 .. 2, at : Nat]
  <2>2. d \in [1 .. n -> D]
    BY <1>1, <2>1
  <2> HIDE DEF D
  <2>3. d \in Seq(D)
    BY <2>2
  <2> QED  BY <2>3 DEF D
<1> QED  BY <1>2, StoresReconciled
=============================================================================
