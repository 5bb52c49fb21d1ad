-------------------------- MODULE AnalyticalStores --------------------------
(***************************************************************************)
(* The two analytical stores behind the API: the list kept in memory       *)
(* (pipeline/storage.py) and the ClickHouse tables (storage/clickhouse.py  *)
(* with deploy/clickhouse/init).  Operators on the stored rows; the state  *)
(* is a variable of ApiServer.                                             *)
(*                                                                         *)
(* A row is an event under its identity.  ClickHouse itself is external:   *)
(* an insert is done, refused, or done and reported as failed; events_v1   *)
(* is a ReplacingMergeTree, read through FINAL.                            *)
(***************************************************************************)
EXTENDS Normalization, TLC

Row(id, u) == [id |-> id, u |-> u]

\* WriteResult, and what the write leaves in the store.
WriteResult(store, valid, quarantine, failed) ==
    [store |-> store, valid |-> valid, quarantine |-> quarantine, failed |-> failed]

IsAccepted(row) == ~Quarantined(row.u)
Accepted(batch) == {i \in DOMAIN batch : IsAccepted(batch[i])}
Refused(batch) == DOMAIN batch \ Accepted(batch)

\* AnalyticalVisibilityStore.write_batch: both kinds are indexed, and counted apart.
MemoryWrite(listed, batch) ==
    WriteResult(listed \o batch, Cardinality(Accepted(batch)), Cardinality(Refused(batch)), 0)

EmptyClickHouse == [events |-> <<>>, quarantine |-> <<>>]

InsertOutcomes == {"done", "refused", "unsure"}

\* client.insert: what the table holds afterwards.  Without rows there is no insert.
Inserted(table, rows, outcome) == IF outcome = "refused" THEN table ELSE table \o rows
Reported(rows, outcome) == IF outcome = "done" THEN Len(rows) ELSE 0

\* ClickHouseEventStore.write_batch: two tables, two inserts, each with its own outcome.
ClickHouseWrite(tables, batch, events, quarantine) ==
    LET valid == Chosen(batch, Accepted(batch))
        refused == Chosen(batch, Refused(batch))
        done == Reported(valid, events) + Reported(refused, quarantine)
    IN WriteResult([events |-> Inserted(tables.events, valid, events),
                    quarantine |-> Inserted(tables.quarantine, refused, quarantine)],
                   Reported(valid, events), Reported(refused, quarantine), Len(batch) - done)

\* Seeded fault: the table is read without FINAL.
FinalMissing(events) == {events[i] : i \in DOMAIN events}

\* SELECT ... FINAL: of the rows under one sorting key the newest normalized_at is left.
Final(events) ==
    LET key(i) == <<events[i].u.observed, events[i].id>>
        replaces(j, i) == \/ events[j].u.normalized > events[i].u.normalized
                          \/ events[j].u.normalized = events[i].u.normalized /\ j > i
    IN {events[i] : i \in {k \in DOMAIN events :
                             ~\E j \in DOMAIN events : key(j) = key(k) /\ replaces(j, k)}}
-----------------------------------------------------------------------------
(***************************************************************************)
(* Searching.  A filter compares columns, bounds the observed time and     *)
(* looks for a text; text says where in the event it occurs.               *)
(***************************************************************************)
Columns == {"vendor", "category", "action", "severity", "quality"}
Unbounded == 0
NoFilter == [vendor |-> "absent", category |-> "absent", action |-> "absent",
             severity |-> "absent", quality |-> "absent", text |-> "absent",
             from |-> Unbounded, to |-> Unbounded]

\* map_unified_event: the projected columns.
Column(row, c) == CASE c = "vendor" -> row.u.pack
                    [] c = "category" -> row.u.category
                    [] c = "action" -> row.u.action[1]
                    [] c = "severity" -> row.u.sev[2]
                    [] c = "quality" -> row.u.status

InWindow(f, row) == /\ f.from # Unbounded => row.u.observed >= f.from
                    /\ f.to # Unbounded => row.u.observed < f.to

\* Text in the extensions is only in the JSON; a quotation mark is escaped there.
MemoryFinds(f, row) == \/ f.text \in {"absent", "name", "quoted"}
                       \/ f.text = "address" /\ (row.u.src \/ row.u.dst)
ClickHouseFinds(f, row) == \/ f.text \in {"absent", "name", "extension"}
                           \/ f.text = "address" /\ (row.u.src \/ row.u.dst)

\* search() of the memory store: an empty value is no filter.
MemoryKeeps(f, row) ==
    /\ \A c \in Columns : f[c] \in {"absent", "", "all"} \/ f[c] = Column(row, c)
    /\ InWindow(f, row) /\ MemoryFinds(f, row)

\* search() of ClickHouse: an empty value is a filter that nothing passes.
ClickHouseKeeps(f, row) ==
    /\ \A c \in Columns : f[c] \in {"absent", "all"} \/ f[c] = Column(row, c)
    /\ InWindow(f, row) /\ ClickHouseFinds(f, row)

Fewer(a, b) == IF a <= b THEN a ELSE b

\* Where the list is when the loop over it, from its end, has the limit; and the answer.
MemoryPage(listed, f, limit) ==
    LET found == {i \in DOMAIN listed : MemoryKeeps(f, listed[i])}
    IN {i \in found : Cardinality({j \in found : j > i}) < limit}
MemorySearch(listed, f, limit) == {listed[i] : i \in MemoryPage(listed, f, limit)}

\* ORDER BY observed_at DESC LIMIT: rows of equal time are in no order.
NewestOf(rows, n) ==
    {s \in SUBSET rows : /\ Cardinality(s) = Fewer(n, Cardinality(rows))
                         /\ \A r \in s, q \in rows \ s : r.u.observed >= q.u.observed}

\* The possible answers; limit is clamped to the cap.
ClickHouseSearch(tables, f, limit, cap) ==
    NewestOf({r \in Final(tables.events) : ClickHouseKeeps(f, r)}, Fewer(limit, cap))

\* get_by_event_id: the last one indexed, or the newest of the events table; or none.
MemoryById(listed, id) ==
    {listed[i] : i \in {k \in DOMAIN listed :
        listed[k].id = id /\ \A j \in k + 1 .. Len(listed) : listed[j].id # id}}
ClickHouseById(tables, id) ==
    LET rows == {r \in Final(tables.events) : r.id = id}
    IN {r \in rows : \A q \in rows : q.u.normalized <= r.u.normalized}

\* event_count, without FINAL.
ClickHouseCount(tables) == Cardinality({tables.events[i].id : i \in DOMAIN tables.events})
-----------------------------------------------------------------------------
\* The first thing get_aggregations takes: the length of the list, or the identities.
MemoryTotal(listed) == Len(listed)
ClickHouseTotal(tables) == Cardinality({r.id : r \in Final(tables.events)})

\* The dashboard's counters.  Percentages and labels follow from them.
Dashboard(total, action, severity, quality, source) ==
    [total |-> total, action |-> action, severity |-> severity, quality |-> quality,
     source |-> source]

Qualities == {"valid", "partial", "invalid", "unknown"}
Sources == Packs \cup {NoPack}

\* Keys of events_by_source: vendor.capitalize() and product.upper(), against the vendor
\* and the product as the manifest writes them.
MemoryLabel(p) == CASE p = "cisco_asa" -> "Cisco ASA"
                    [] p = "suricata_eve" -> "Oisf SURICATA"
                    [] p = "fortinet_fortigate" -> "Fortinet FORTIGATE"
                    [] p = "generic_linux_syslog" -> "Generic LINUX SYSLOG (RSYSLOG/SYSLOG-NG)"
                    [] p = "site" -> "Site DEVICE"
                    [] OTHER -> "Unknown UNKNOWN"
ClickHouseLabel(p) == CASE p = "cisco_asa" -> "Cisco ASA"
                        [] p = "suricata_eve" -> "OISF Suricata"
                        [] p = "fortinet_fortigate" -> "Fortinet FortiGate"
                        [] p = "generic_linux_syslog" -> "Generic Linux Syslog (rsyslog/syslog-ng)"
                        [] p = "site" -> "Site Device"
                        [] OTHER -> "unknown unknown"

ActionGroup(row) ==
    CASE row.u.action[1] \in {"allow", "connect", "authenticate"} -> "allow"
      [] row.u.action[1] \in {"deny", "block"} -> "deny"
      [] OTHER -> "other"

\* get_aggregations of the memory store: one pass over the list, counter by counter.
MemoryAggregations(listed) ==
    LET in(group) == Cardinality({i \in DOMAIN listed : ActionGroup(listed[i]) = group})
        by(c, v) == Cardinality({i \in DOMAIN listed : Column(listed[i], c) = v})
        label(i) == MemoryLabel(listed[i].u.pack)
    IN Dashboard(MemoryTotal(listed),
                 [a \in {"allow", "deny"} |-> in(a)],
                 [s \in Labels |-> by("severity", s)],
                 [q \in Qualities |-> by("quality", q)],
                 [l \in {label(i) : i \in DOMAIN listed} |->
                    Cardinality({i \in DOMAIN listed : label(i) = l})])

\* get_aggregations of ClickHouse: identities for the total, rows for the groups.
ClickHouseAggregations(tables) ==
    LET rows == Final(tables.events)
        in(actions) == Cardinality({r \in rows : r.u.action[1] \in actions})
        by(c, v) == Cardinality({r \in rows : Column(r, c) = v})
        label(r) == ClickHouseLabel(r.u.pack)
    IN Dashboard(ClickHouseTotal(tables),
                 [a \in {"allow", "deny"} |-> IF a = "allow"
                    THEN in({"allow", "connect", "authenticate"}) ELSE in({"deny", "block"})],
                 [s \in Labels |-> by("severity", s)],
                 [q \in Qualities |-> by("quality", q)],
                 [l \in {label(r) : r \in rows} |-> Cardinality({r \in rows : label(r) = l})])
-----------------------------------------------------------------------------
(***************************************************************************)
(* The same writes to both stores.  An identity belongs to one line.  What *)
(* is delivered again is the same row, or one that was normalized at       *)
(* another time; a rewound stream may bring an older one last.             *)
(***************************************************************************)
CONSTANT SampleLines  \* lines that are posted

ASSUME SampleAssumption == SampleLines \subseteq Lines

\* The packs in the order the registry keeps them when all of them load.
AllPacks == <<"cisco_asa", "suricata_eve", "fortinet_fortigate", "site", "generic_linux_syslog">>

Storable == {l \in SampleLines : ~NormalizerRaises(EngineParse(Match(AllPacks, l), "cef", l))}

\* The rows of the deliveries d, each of an identity as it was normalized at some time.
WrittenRows(body, d) == [k \in DOMAIN d |->
    LET id == d[k].id IN
    Row(id, Normalize(EngineParse(Match(AllPacks, body[id]), "cef", body[id]),
                      [ingested |-> id, parsed |-> id, now |-> Len(body) + d[k].at]))]
InMemory(rows) == MemoryWrite(<<>>, rows).store
InClickHouse(rows) == ClickHouseWrite(EmptyClickHouse, rows, "done", "done").store

\* What the memory store answers from and ClickHouse does not: the quarantined events, and
\* each delivery that another one replaces.
Replaced(rows) == {k \in Accepted(rows) : \E j \in DOMAIN rows :
    /\ rows[j].id = rows[k].id
    /\ \/ rows[j].u.normalized > rows[k].u.normalized
       \/ rows[j].u.normalized = rows[k].u.normalized /\ j > k}
OnlyInMemory(rows) == Refused(rows) \cup Replaced(rows)

Shown(source, label) == IF label \in DOMAIN source THEN source[label] ELSE 0

\* The memory store counts those on top of what ClickHouse counts, so the two dashboards are
\* of one total only without them; and each of its other numbers is the one ClickHouse shows
\* and what those come to.
CountersReconcile(rows) ==
    LET listed == InMemory(rows)
        tables == InClickHouse(rows)
        memory == MemoryAggregations(listed)
        clickhouse == ClickHouseAggregations(tables)
        rest == MemoryAggregations(Chosen(listed, OnlyInMemory(rows)))
    IN /\ Len(listed) = ClickHouseCount(tables) + Len(tables.quarantine) + Cardinality(Replaced(rows))
       /\ memory.total = clickhouse.total + Cardinality(OnlyInMemory(rows))
       /\ \A a \in {"allow", "deny"} : memory.action[a] = clickhouse.action[a] + rest.action[a]
       /\ \A s \in Labels : memory.severity[s] = clickhouse.severity[s] + rest.severity[s]
       /\ \A q \in Qualities : memory.quality[q] = clickhouse.quality[q] + rest.quality[q]
       /\ \A p \in Sources : Shown(memory.source, MemoryLabel(p)) =
            Shown(clickhouse.source, ClickHouseLabel(p)) + Shown(rest.source, MemoryLabel(p))

\* ClickHouse finds what is not quarantined, and as it was normalized last; the memory store
\* finds everything, and as it was delivered last.
LookupsReconcile(rows) ==
    \A id \in {rows[k].id : k \in DOMAIN rows} :
        LET last == MemoryById(InMemory(rows), id)
            newest == ClickHouseById(InClickHouse(rows), id)
        IN /\ last # {} /\ (newest = {} <=> \A q \in last : ~IsAccepted(q))
           /\ \A q \in last, r \in newest : q = r \/ q.u.normalized < r.u.normalized

\* Filters both stores read alike: no empty value, a text that both look for.
SharedFilters ==
    {NoFilter} \cup {[NoFilter EXCEPT !.quality = q] : q \in Qualities \cup {"all"}}
    \cup {[NoFilter EXCEPT !.severity = s] : s \in Labels}
    \cup {[NoFilter EXCEPT !.vendor = "cisco_asa", !.text = "address"],
          [NoFilter EXCEPT !.action = "block", !.from = 2],
          [NoFilter EXCEPT !.category = "network", !.to = 2]}

\* What one page has and the other has not, under any limit: of the memory store's page a
\* place that ClickHouse does not answer from, or an event too old for ClickHouse's page,
\* which is full; of ClickHouse's page an event that such a place, or one that was observed
\* no later but delivered after it, keeps from the memory store's.
PagesReconcile(rows) ==
    LET listed == InMemory(rows)
        tables == InClickHouse(rows)
        beside == OnlyInMemory(rows)
    IN \A f \in SharedFilters, limit, cap \in DOMAIN rows :
         LET page == MemoryPage(listed, f, limit)
         IN \A shown \in ClickHouseSearch(tables, f, limit, cap) :
              /\ \A i \in page \ beside : rows[i] \notin shown =>
                   /\ Cardinality(shown) = Fewer(limit, cap)
                   /\ \A r \in shown : rows[i].u.observed <= r.u.observed
              /\ \A r \in shown : (\A i \in page : rows[i] # r) =>
                   \E i \in page : \/ i \in beside
                                   \/ rows[i] \notin shown /\ rows[i].u.observed <= r.u.observed

Reconciles(rows) == CountersReconcile(rows) /\ LookupsReconcile(rows) /\ PagesReconcile(rows)

Deliveries == [id : 1 .. 2, at : 1 .. 2]
Unreconciled == {c \in [1 .. 2 -> Storable] \X UNION {[1 .. n -> Deliveries] : n \in 1 .. 3} :
                   ~Reconciles(WrittenRows(c[1], c[2]))}
=============================================================================
