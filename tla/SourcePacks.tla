---------------------------- MODULE SourcePacks ----------------------------
(***************************************************************************)
(* The parsing engine of core/ and the packs of source_packs/: which pack  *)
(* a line is routed to, and what its parser makes of it.  Pure operators;  *)
(* the registry's state is a variable of ApiServer.                        *)
(*                                                                         *)
(* A line is a record of what detection, parsing and normalization tell    *)
(* apart in it.  Which texts match a regular expression is abstracted to   *)
(* such a field; the vendor syntax itself stays out.                       *)
(***************************************************************************)
EXTENDS Integers, Sequences, FiniteSets

(***************************************************************************)
(* Lines.  "pri": the line begins with a syslog header <PRI>.              *)
(***************************************************************************)
Verbs == [i \in {"106023", "302013", "106100", "999999"} |->
            CASE i = "106023" -> {"Deny"}
              [] i = "302013" -> {"Built", "Teardown"}
              [] i = "106100" -> {"permitted", "denied"}
              [] OTHER -> {"other"}]

AsaLines == UNION {[kind : {"asa"}, pri : BOOLEAN, tag : {"full", "weak"},
                    header : {"none", "dated", "bsd"}, sev : 0 .. 9, id : {i}, body : BOOLEAN,
                    verb : Verbs[i], tcp : BOOLEAN, ips : BOOLEAN] : i \in DOMAIN Verbs}

EveTypes == {"alert", "flow", "dns", "http"}

EveLines == {l \in [kind : {"eve"}, pri : BOOLEAN, type : EveTypes \cup {"stats", "none"},
                    flowId : BOOLEAN, time : {"none", "garbled", "naive", "past", "future"},
                    src : BOOLEAN, dst : BOOLEAN, body : {"object", "scalar", "none"},
                    rating : {"1", "3", "4", "list"}, blocked : BOOLEAN, text : BOOLEAN] :
               l.type # "alert" => l.rating = "1" /\ ~l.blocked}

FgtLines == {l \in [kind : {"fgt"}, pri : BOOLEAN, name : BOOLEAN,
                    type : {"traffic", "event", "none"}, src : BOOLEAN, dst : BOOLEAN,
                    tcp : BOOLEAN, level : {"warning", "debug", "odd"},
                    verb : {"deny", "accept", "login", "odd"},
                    user : BOOLEAN, status : {"success", "failed", "odd"}, text : BOOLEAN] :
               l.verb # "login" => ~l.user /\ l.status = "odd"}

SysLines == {l \in [kind : {"sys"}, pri : BOOLEAN, word : BOOLEAN, header : {"none", "bsd"},
                    sev : 0 .. 7, text : BOOLEAN] : l.pri \/ l.word}

\* Lines for a pack that is dropped in beside the shipped ones, in any format.
Texts == {"cef", "cef_bare", "cef_short", "csv", "csv_short", "blank", "json", "json_list",
          "json_prefixed", "braces", "pattern", "unnamed", "pairs", "plain"}
TxtLines == [kind : {"txt"}, pri : {FALSE}, site : BOOLEAN, text : Texts]

Lines == AsaLines \cup EveLines \cup FgtLines \cup SysLines \cup TxtLines

(***************************************************************************)
(* Packs.  "site" is a declarative pack without a class of its own; its    *)
(* format is any built-in one.                                             *)
(***************************************************************************)
Packs == {"cisco_asa", "suricata_eve", "fortinet_fortigate", "site", "generic_linux_syslog"}
Formats == {"syslog", "json", "key_value", "csv", "cef", "regex", "unknown"}
NoPack == "no pack"

Priority == [p \in Packs |-> CASE p = "cisco_asa" -> 100
                               [] p = "suricata_eve" -> 90
                               [] p = "fortinet_fortigate" -> 60
                               [] p = "site" -> 50
                               [] OTHER -> 10]

\* DetectionRule.matches, any rule: the regex and keyword rules of a manifest.
RuleMatches(p, l) ==
    \/ p = "suricata_eve" /\ l.kind = "eve" /\ (l.type \in EveTypes \/ l.flowId)
    \/ p = "fortinet_fortigate" /\ l.kind = "fgt"
    \/ p = "site" /\ l.kind = "txt" /\ l.site
    \/ /\ p = "generic_linux_syslog"
       /\ \/ l.pri /\ (l.kind = "asa" => l.header # "none")
          \/ l.kind = "sys" /\ l.word

\* CiscoASASourcePack._detection_confidence, in hundredths.
AsaConfidence(l) == IF l.kind # "asa" THEN 0 ELSE IF l.tag = "full" THEN 98 ELSE 40

\* Whether registry.match() takes what a pack's detect() returns for a match.
Detects(p, l) == IF p = "cisco_asa" THEN AsaConfidence(l) > 0 ELSE RuleMatches(p, l)

(***************************************************************************)
(* Loading a pack from its directory.  A manifest is what a scan finds:    *)
(* text: how the file reads; shape: validate_manifest accepts it; class:   *)
(* what its implementation entry leads to; fits: the object has the pack's *)
(* id, a numeric priority and both methods.                                *)
(***************************************************************************)
Manifests == [text : {"absent", "yaml", "not_yaml", "not_utf8"}, shape : BOOLEAN,
              class : {"none", "found", "outside", "no_module", "no_class", "raises"},
              fits : BOOLEAN]

\* read_text and safe_load of load_source_pack: a decoding error is no OSError.
ManifestRead(m) == CASE m.text = "yaml" -> IF m.shape THEN "valid" ELSE "refused"
                     [] m.text = "not_utf8" -> "escapes"
                     [] OTHER -> "refused"

\* _load_local_class, and whatever the module or the constructor raises.
LocalClass(m) == IF m.class = "found" THEN "valid" ELSE "refused"

\* _validate_runtime_pack.
RuntimePack(m) == IF m.fits THEN "loaded" ELSE "refused"

\* SourcePackBase.__init__ of a declarative pack reads the manifest again, outside
\* the try block: only its own validation error is of the kind reload() expects.
ReadAgain(m) == CASE m.text = "yaml" -> IF m.shape THEN RuntimePack(m) ELSE "refused"
                  [] OTHER -> "escapes"

\* load_source_pack: "again" when a declarative pack is to be read a second time.
LoadSourcePack(m) ==
    IF ManifestRead(m) # "valid" THEN ManifestRead(m)
    ELSE IF m.class = "none" THEN "again"
    ELSE IF LocalClass(m) # "valid" THEN "refused" ELSE RuntimePack(m)

\* The elements of a sequence at some of its positions, in their order.
Chosen(s, places) ==
    LET earlier(i) == Cardinality({j \in places : j < i})
    IN [k \in 1 .. Cardinality(places) |-> s[CHOOSE i \in places : earlier(i) + 1 = k]]

\* loaded.sort(key=priority, reverse=True): stable, so equal priorities keep
\* the order of the directory.
Sorted(loaded) ==
    LET before(i, j) == \/ Priority[loaded[i]] > Priority[loaded[j]]
                        \/ Priority[loaded[i]] = Priority[loaded[j]] /\ i < j
        rank(i) == Cardinality({j \in DOMAIN loaded : before(j, i)}) + 1
    IN [k \in 1 .. Len(loaded) |-> loaded[CHOOSE i \in DOMAIN loaded : rank(i) = k]]

\* registry.match() run to its end over one list of packs.
Match(list, l) ==
    LET hits == {i \in DOMAIN list : Detects(list[i], l)}
    IN IF hits = {} THEN NoPack ELSE list[CHOOSE i \in hits : \A j \in hits : i <= j]
-----------------------------------------------------------------------------
(***************************************************************************)
(* Format parsers: the keys of the dictionary each returns, or Unparsable  *)
(* when it raises FormatParsingError.                                      *)
(***************************************************************************)
Unparsable == {"FormatParsingError"}

SyslogKeys(l) ==
    IF l.pri /\ (l.kind \in {"asa", "sys"} => l.header = "bsd")
    THEN {"hostname", "message", "severity_code", "facility"} ELSE Unparsable

KeyValueKeys(l) ==
    CASE l.kind = "fgt" -> {"level"} \cup (IF l.name THEN {"devname"} ELSE {})
                                     \cup (IF l.type # "none" THEN {"type"} ELSE {})
      [] l.kind = "txt" /\ l.text \in {"pairs", "cef"} -> {"src"}
      [] OTHER -> Unparsable

\* The header needs all eight fields; a malformed extension is only empty.
CefKeys(l) ==
    CASE l.text = "cef" -> {"name", "extension.src"}
      [] l.text = "cef_bare" -> {"name"}
      [] OTHER -> Unparsable

\* Rows that are too short are padded, so every declared column is there.
CsvKeys(l) == IF l.text = "blank" THEN Unparsable ELSE {"host", "message"}

JsonKeys(l) ==
    CASE l.text \in {"json", "json_prefixed"} -> {"host"}
      [] l.text = "json_list" -> {"value"}
      [] OTHER -> Unparsable

\* The first pattern that matches decides, also when it has no named groups.
RegexKeys(l) == IF l.text = "pattern" THEN {"host"} ELSE Unparsable

FallbackKeys(l) == {"message"}

\* get_parser and parse, for the format a manifest names.
FormatKeys(f, l) ==
    CASE f = "syslog" -> SyslogKeys(l)
      [] f = "key_value" -> KeyValueKeys(l)
      [] f = "cef" -> CefKeys(l)
      [] f = "csv" -> CsvKeys(l)
      [] f = "json" -> JsonKeys(l)
      [] f = "regex" -> RegexKeys(l)
      [] OTHER -> FallbackKeys(l)

\* The required field rules of the manifests, by the key they read.
Required(p, f) ==
    IF p = "fortinet_fortigate" THEN {"devname", "type"}
    ELSE IF p = "generic_linux_syslog" THEN {"hostname", "message"}
    ELSE CASE f = "cef" -> {"extension.src"}
           [] f = "key_value" -> {"src"}
           [] f \in {"csv", "syslog", "unknown"} -> {"message"}
           [] OTHER -> {"host"}
-----------------------------------------------------------------------------
(***************************************************************************)
(* ParsedEvent.  fields says how much of the line was extracted: nothing,  *)
(* a header, or everything the parser takes from such a line.              *)
(***************************************************************************)
Statuses == {"success", "partial", "failed", "unrecognized"}

Parsed(p, status, issues, fields, l) ==
    [pack |-> p, status |-> status, issues |-> issues, fields |-> fields, line |-> l]

\* ParsedEvent.unrecognized.
Unrecognized(l) == Parsed(NoPack, "unrecognized", {"NO_SOURCE_PACK_MATCH"}, "none", l)

\* ParsingEngine._failed_event: what any exception of a pack's parse() becomes.
FailedEvent(p, l) == Parsed(p, "failed", {"SOURCE_PACK_FAILED"}, "none", l)

\* SourcePackBase.parse: every field rule is tried, and each that fails is an issue.
DeclarativeParse(p, f, l) ==
    LET keys == FormatKeys(f, l)
        lacking == Required(p, f) \ keys
    IN IF keys = Unparsable THEN FailedEvent(p, l)
       ELSE IF lacking = {} THEN Parsed(p, "success", {}, "all", l)
       ELSE Parsed(p, "partial", {"FIELD_EXTRACTION_FAILED"}, "all", l)

\* FortinetFortigatePack.parse and GenericLinuxSyslogPack.parse add derived fields to what
\* the base class returns or raises; no rule and no mapping reads them.
FortinetParse(l) == DeclarativeParse("fortinet_fortigate", "key_value", l)
LinuxParse(l) == DeclarativeParse("generic_linux_syslog", "syslog", l)

\* The Cisco header grammar: the full tag, after a header with a year or none at all.
AsaHeader(l) == l.kind = "asa" /\ l.tag = "full" /\ l.header # "bsd"

\* _MESSAGE_PARSERS and _parse_106023, _parse_302013_302014, _parse_106100.
AsaMessage(l) == IF l.id = "999999" THEN {"ASA_UNKNOWN_MESSAGE_ID"}
                 ELSE IF l.body THEN {} ELSE {"ASA_MESSAGE_BODY_NO_MATCH"}

\* CiscoASASourcePack._parse_canonical.
AsaParse(l) ==
    IF ~AsaHeader(l) THEN Parsed("cisco_asa", "failed", {"ASA_HEADER_NO_MATCH"}, "none", l)
    ELSE IF AsaMessage(l) = {} THEN Parsed("cisco_asa", "success", {}, "all", l)
    ELSE Parsed("cisco_asa", "partial", AsaMessage(l), "header", l)

\* SuricataEveSourcePack._validate: every rule is checked, and each breach is an issue.
EveIssues(l) ==
    (IF l.type \in EveTypes THEN {} ELSE {"SURICATA_EVENT_TYPE_INVALID"})
    \cup (CASE l.time = "none" -> {"SURICATA_TIMESTAMP_MISSING"}
            [] l.time \in {"garbled", "naive"} -> {"SURICATA_TIMESTAMP_INVALID"}
            [] OTHER -> {})
    \cup (IF l.src /\ l.dst THEN {} ELSE {"SURICATA_IP_INVALID"})
    \cup (IF l.type \in EveTypes /\ l.body # "object"
          THEN {"SURICATA_EVENT_BODY_MISSING"} ELSE {})

\* SuricataEveSourcePack.parse: a line whose header hides the JSON raises; an object that
\* breaks a rule fails, and keeps every field it has.
EveParse(l) ==
    IF l.kind # "eve" \/ l.pri THEN FailedEvent("suricata_eve", l)
    ELSE Parsed("suricata_eve", IF EveIssues(l) = {} THEN "success" ELSE "failed",
                EveIssues(l), "all", l)

\* pack.parse(), by pack.
PackParse(p, f, l) ==
    CASE p = "cisco_asa" -> AsaParse(l)
      [] p = "suricata_eve" -> EveParse(l)
      [] p = "fortinet_fortigate" -> FortinetParse(l)
      [] p = "generic_linux_syslog" -> LinuxParse(l)
      [] p = "site" -> DeclarativeParse(p, f, l)

\* ParsingEngine.process, once match() has named a pack.
EngineParse(p, f, l) == IF p = NoPack THEN Unrecognized(l) ELSE PackParse(p, f, l)
=============================================================================
