---------------------------- MODULE MCApiServer ----------------------------
(***************************************************************************)
(* A small server for TLC: sample lines, a pack directory of three packs,  *)
(* and the edits an operator may make.                                     *)
(***************************************************************************)
EXTENDS ApiServer

CONSTANTS t1, t2

MCThreads == {t1, t2}
ThreadSymmetry == Permutations(MCThreads)

\* A denied connection, as ASA firewalls log it; the same under a bare tag.
AsaDeny == [kind |-> "asa", pri |-> TRUE, tag |-> "full", header |-> "dated", sev |-> 4,
            id |-> "106023", body |-> TRUE, verb |-> "Deny", tcp |-> TRUE, ips |-> TRUE]
AsaWeak == [AsaDeny EXCEPT !.tag = "weak"]

\* A blocked intrusion, older than its ingestion; one with a list where its rating should be.
Alert == [kind |-> "eve", pri |-> FALSE, type |-> "alert", flowId |-> TRUE, time |-> "past",
          src |-> TRUE, dst |-> TRUE, body |-> "object", rating |-> "1", blocked |-> TRUE,
          text |-> TRUE]
AlertList == [Alert EXCEPT !.rating = "list"]
AlertUnrated == [Alert EXCEPT !.rating = "4"]

Cron == [kind |-> "sys", pri |-> TRUE, word |-> TRUE, header |-> "bsd", sev |-> 6,
         text |-> TRUE]
Plain == [kind |-> "txt", pri |-> FALSE, site |-> FALSE, text |-> "plain"]

MCSampleLines == {AsaDeny, AsaWeak, Alert, AlertList, AlertUnrated, Cron, Plain}
MCPostedLines == {AsaDeny, AlertList, Plain}
MCParsedLines == {AsaDeny}

\* Clocks in step; the parser's behind or ahead of the envelope's; the normalizer's.
Clock(i, p, n) == [ingested |-> i, parsed |-> p, now |-> n]
MCClocks == {Clock(5, 5, 5), Clock(5, 4, 4), Clock(5, 7, 4), Clock(5, 4, 7)}

Sound == [text |-> "yaml", shape |-> TRUE, class |-> "found", fits |-> TRUE]
Declarative == [Sound EXCEPT !.class = "none"]
Garbled == [Sound EXCEPT !.text = "not_yaml"]
Undecodable == [Sound EXCEPT !.text = "not_utf8"]

MCDirectory == <<"cisco_asa", "generic_linux_syslog", "suricata_eve">>
MCFirstDir == [cisco_asa |-> Sound, generic_linux_syslog |-> Declarative, suricata_eve |-> Sound]
MCEdits == {<<"cisco_asa", Garbled>>, <<"generic_linux_syslog", Undecodable>>}
=============================================================================
