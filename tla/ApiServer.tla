----------------------------- MODULE ApiServer ------------------------------
(***************************************************************************)
(* The API process of main.py: threads of the server's pool that run one   *)
(* request each, over the pack registry, the collection pipeline, the      *)
(* analytical store and the export directory they share; operators who     *)
(* edit the pack directory meanwhile; crashes and restarts.                *)
(*                                                                         *)
(* The collection pipeline appears by its outcomes, Collection has its     *)
(* steps.  What a thread computes on its own is part of the step before it *)
(* next touches something shared.                                          *)
(***************************************************************************)
EXTENDS DataLake

CONSTANTS Threads,      \* threads of the pool
          PostedLines,  \* lines that are posted to the running server
          ParsedLines,  \* lines that are posted to be parsed only
          Directory,    \* order of the entries in the pack directory
          FirstDir,     \* the manifests that are there when the server is set up
          Edits,        \* <<entry, manifest>>: what an operator may change
          ExportLimit,  \* export_data_lake: list_events(limit=1000)
          SearchCap,    \* ClickHouseEventStore.search: at most 500
          MaxRequests, MaxEdits, MaxFaults  \* bounds

ASSUME ServerAssumption ==
    /\ PostedLines \cup ParsedLines \subseteq SampleLines
    /\ Directory \in Seq(Packs)
    /\ FirstDir \in [{Directory[i] : i \in DOMAIN Directory} -> Manifests]
    /\ Edits \subseteq (DOMAIN FirstDir) \X Manifests
    /\ ExportLimit \in Nat \ {0} /\ SearchCap \in Nat \ {0}
    /\ MaxRequests \in Nat /\ MaxEdits \in Nat /\ MaxFaults \in Nat

\* Requests, in the order they arrive; an event's identity is that of its request.
Requests == 1 .. MaxRequests
Entries == DOMAIN FirstDir

VARIABLES up,         \* the process runs
          backend,    \* what build_analytical_store chose
          dir,        \* manifest.yaml of each entry of the pack directory
          packs,      \* SourcePackRegistry._packs
          pc,         \* where each thread is
          job,        \* what it holds of its request
          archived,   \* events in the raw archive
          published,  \* events in the raw-event stream
          mem,        \* AnalyticalVisibilityStore._events
          ch,         \* ClickHouse
          files,      \* export directory: the two JSON-Lines files
          parts,      \* the Parquet files, by the export and the partition they are of
          manifest,   \* the manifest of the JSON-Lines export
          summary,    \* the older manifest beside it
          lake,       \* the manifest of the Parquet export
          answer,     \* of each request
          taken,      \* requests that have arrived
          past,       \* history: how many of them before the last crash
          settled,    \* history: no export has begun since one ran alone to its end
          exported,   \* history: the rows of the last complete JSON-Lines export
          edits, faults

disk == <<files, parts, manifest, summary, lake, settled, exported>>
stores == <<mem, ch>>
stream == <<archived, published>>
world == <<up, backend, dir, edits, faults>>
vars == <<world, packs, pc, job, stream, stores, disk, answer, taken, past>>

Steps == {"idle", "collect", "engine", "match", "store", "scan", "reread", "publish",
          "total", "count", "counted", "write", "describe", "manifest", "summary",
          "part", "lake"}

NoJob == [id |-> 0, kind |-> "none", line |-> "none", list |-> <<>>, next |-> 0,
          pack |-> NoPack, entries |-> <<>>, touched |-> {}, rows |-> {}, total |-> 0,
          counted |-> {}, todo |-> {}, made |-> {}, alone |-> FALSE]

Answers == {"none", "200", "201", "413", "422", "500", "503"}
NoSummary == Summary(NoManifest)

TypeOK ==
    /\ up \in BOOLEAN /\ backend \in {"memory", "clickhouse"}
    /\ dir \in [Entries -> Manifests]
    /\ Len(packs) <= Len(Directory) /\ \A i \in DOMAIN packs : packs[i] \in Entries
    /\ pc \in [Threads -> Steps]
    /\ \A t \in Threads : job[t].id \in 0 .. MaxRequests
    /\ archived \subseteq Requests /\ published \subseteq Requests
    /\ files["normalized"].ids \cup files["quarantine"].ids \subseteq Requests
    /\ answer \in [Requests -> Answers] /\ past <= taken /\ taken <= MaxRequests
    /\ settled \in BOOLEAN
    /\ edits \in 0 .. MaxEdits /\ faults \in 0 .. MaxFaults

Fault == faults < MaxFaults /\ faults' = faults + 1

Goes(t, step) == pc' = [pc EXCEPT ![t] = step]
Answered(t, a) == answer' = [answer EXCEPT ![job[t].id] = a]
Done(t) == Goes(t, "idle") /\ job' = [job EXCEPT ![t] = NoJob]

(***************************************************************************)
(* The pack directory and its registry.                                    *)
(***************************************************************************)
\* What a scan of one entry comes to when nobody edits it meanwhile.
Loads(m) == LET r == LoadSourcePack(m)
            IN IF r = "again" THEN ReadAgain(m) ELSE r
IsLoaded(e) == Loads(dir[e]) = "loaded"

\* SourcePackRegistry.__init__ reloads before the process serves anything.
Scanned == Sorted(Chosen(Directory, {i \in DOMAIN Directory : IsLoaded(Directory[i])}))

Init ==
    /\ up = TRUE /\ backend \in {"memory", "clickhouse"}
    /\ dir = FirstDir /\ packs = Scanned
    /\ pc = [t \in Threads |-> "idle"]
    /\ job = [t \in Threads |-> NoJob]
    /\ archived = {} /\ published = {}
    /\ mem = <<>> /\ ch = EmptyClickHouse
    /\ files = [n \in {"normalized", "quarantine"} |-> NoFile] /\ parts = <<>>
    /\ manifest = NoManifest /\ summary = NoSummary /\ lake = NoManifest
    /\ settled = FALSE /\ exported = {}
    /\ answer = [i \in Requests |-> "none"] /\ taken = 0 /\ past = 0
    /\ edits = 0 /\ faults = 0

\* An operator replaces, adds or removes a manifest.
Edit(e, m) ==
    /\ edits < MaxEdits /\ dir[e] # m
    /\ dir' = [dir EXCEPT ![e] = m]
    /\ edits' = edits + 1
    /\ job' = [t \in Threads |-> IF job[t].kind # "reload" THEN job[t]
                                ELSE [job[t] EXCEPT !.touched = @ \cup {e}]]
    /\ UNCHANGED <<up, backend, faults, packs, pc, stream, stores, disk, answer, taken, past>>

(***************************************************************************)
(* A request arrives and a free thread takes it.                           *)
(***************************************************************************)
Take(t, new, step) ==
    /\ up /\ pc[t] = "idle" /\ taken < MaxRequests
    /\ taken' = taken + 1
    /\ job' = [job EXCEPT ![t] = [new EXCEPT !.id = taken']]
    /\ Goes(t, step)
    /\ UNCHANGED <<world, packs, stream, stores, answer, past>>

\* POST /v1/events, and the deprecated endpoint that calls it; POST /v1/parse.
PostEvent(t) == \E l \in PostedLines :
    /\ Take(t, [NoJob EXCEPT !.kind = "event", !.line = l], "collect")
    /\ UNCHANGED disk
PostParse(t) == \E l \in ParsedLines :
    /\ Take(t, [NoJob EXCEPT !.kind = "parse", !.line = l], "engine")
    /\ UNCHANGED disk

\* POST /packs/reload: the entries in the order of the directory.
PostReload(t) ==
    /\ Take(t, [NoJob EXCEPT !.kind = "reload", !.entries = Directory], "scan")
    /\ UNCHANGED disk

\* What search() may return for the first n events.
Newest(n) == IF backend = "memory" THEN {MemorySearch(mem, NoFilter, n)}
             ELSE ClickHouseSearch(ch, NoFilter, n, SearchCap)

\* GET /v1/analytics/events, whose limit is at most the cap: the events come first.
GetAnalytics(t) == \E rows \in Newest(SearchCap) :
    /\ Take(t, [NoJob EXCEPT !.kind = "analytics", !.rows = rows], "total")
    /\ UNCHANGED disk

Exporting == {t \in Threads : job[t].kind = "export"}

\* POST /v1/export/data-lake: the events are listed, then the files are replaced.
PostExport(t) == \E rows \in Newest(ExportLimit) :
    /\ up /\ pc[t] = "idle" /\ taken < MaxRequests
    /\ taken' = taken + 1
    /\ job' = [u \in Threads |->
                 IF u = t THEN [NoJob EXCEPT !.kind = "export", !.id = taken', !.rows = rows,
                                             !.entries = JsonlFiles, !.alone = Exporting = {}]
                 ELSE IF u \in Exporting THEN [job[u] EXCEPT !.alone = FALSE] ELSE job[u]]
    /\ Goes(t, "write")
    /\ settled' = FALSE
    /\ UNCHANGED <<world, packs, stream, stores, files, parts, manifest, summary, lake,
                   exported, answer, past>>

\* ParquetExporter.export of the same rows; no endpoint calls it, a job may.
ExportParquet(t) == \E rows \in Newest(ExportLimit) :
    /\ Take(t, [NoJob EXCEPT !.kind = "parquet", !.rows = rows, !.todo = Partitions(rows)],
            "part")
    /\ UNCHANGED disk

(***************************************************************************)
(* process_event and PipelineRunner.process.                               *)
(***************************************************************************)
\* Seeded fault: an event the stream did not take is answered as accepted.
CollectAnyway(t) ==
    /\ pc[t] = "collect" /\ job[t].kind = "event"
    /\ archived' = archived \cup {job[t].id}
    /\ published' = published
    /\ Goes(t, "engine")
    /\ UNCHANGED <<world, packs, job, stores, disk, answer, taken, past>>

\* CollectionPipeline.ingest accepts: archived, then published.
Collect(t) ==
    /\ pc[t] = "collect"
    /\ archived' = archived \cup {job[t].id}
    /\ published' = published \cup {job[t].id}
    /\ Goes(t, "engine")
    /\ UNCHANGED <<world, packs, job, stores, disk, answer, taken, past>>

\* It does not: empty or oversized bytes, or Base64 that cannot be decoded.
CollectUnfit(t) == \E a \in {"413", "422"} :
    /\ pc[t] = "collect"
    /\ Answered(t, a) /\ Done(t)
    /\ UNCHANGED <<world, packs, stream, stores, disk, taken, past>>

\* The archive or the stream fails: CollectionRejectedError, which is answered as 422 too.
CollectFails(t) == \E kept \in {{}, {job[t].id}} :
    /\ pc[t] = "collect"
    /\ Fault
    /\ archived' = archived \cup kept
    /\ Answered(t, "422") /\ Done(t)
    /\ UNCHANGED <<up, backend, dir, edits, packs, published, stores, disk, taken, past>>

\* registry.match() begins: it iterates over the list that is published now.
BeginMatch(t) ==
    /\ pc[t] = "engine"
    /\ job' = [job EXCEPT ![t].list = packs, ![t].next = 1]
    /\ Goes(t, "match")
    /\ UNCHANGED <<world, packs, stream, stores, disk, answer, taken, past>>

\* match() has an answer.  POST /v1/parse returns the parsed event; the runner goes on.
Matched(t, pack) ==
    IF job[t].kind = "parse" THEN Answered(t, "200") /\ Done(t)
    ELSE /\ job' = [job EXCEPT ![t].pack = pack]
         /\ Goes(t, "store")
         /\ UNCHANGED answer

\* Seeded fault: every turn of the loop looks at the list that is published then.
AskPackPublished(t) ==
    /\ pc[t] = "match"
    /\ IF job[t].next > Len(packs) THEN Matched(t, NoPack)
       ELSE IF Detects(packs[job[t].next], job[t].line) THEN Matched(t, packs[job[t].next])
       ELSE /\ job' = [job EXCEPT ![t].next = @ + 1]
            /\ UNCHANGED <<pc, answer>>
    /\ UNCHANGED <<world, packs, stream, stores, disk, taken, past>>

\* One turn of match(): the next pack of the list is asked.
AskPack(t) ==
    /\ pc[t] = "match"
    /\ LET list == job[t].list IN
       IF job[t].next > Len(list) THEN Matched(t, NoPack)
       ELSE IF Detects(list[job[t].next], job[t].line) THEN Matched(t, list[job[t].next])
       ELSE /\ job' = [job EXCEPT ![t].next = @ + 1]
            /\ UNCHANGED <<pc, answer>>
    /\ UNCHANGED <<world, packs, stream, stores, disk, taken, past>>

ParsedBy(t) == EngineParse(job[t].pack, "cef", job[t].line)
\* The clock moves with the requests.
UnifiedOf(t) == Normalize(ParsedBy(t), [ingested |-> job[t].id, parsed |-> job[t].id,
                                        now |-> job[t].id])

\* normalize() raises: nothing catches it, and the event was accepted long ago.
NormalizeRaises(t) ==
    /\ pc[t] = "store" /\ NormalizerRaises(ParsedBy(t))
    /\ Answered(t, "500") /\ Done(t)
    /\ UNCHANGED <<world, packs, stream, stores, disk, taken, past>>

\* Parsing, normalization, validation and store.write_batch([unified]).
Store(t) ==
    /\ pc[t] = "store" /\ ~NormalizerRaises(ParsedBy(t))
    /\ LET row == <<Row(job[t].id, UnifiedOf(t))>> IN
       IF backend = "memory"
       THEN /\ mem' = MemoryWrite(mem, row).store
            /\ Answered(t, "201")
            /\ UNCHANGED <<ch, faults>>
       ELSE \E o \in InsertOutcomes :
            /\ o # "done" => faults < MaxFaults
            /\ faults' = IF o = "done" THEN faults ELSE faults + 1
            /\ LET result == ClickHouseWrite(ch, row, o, o) IN
               /\ ch' = result.store
               /\ Answered(t, IF result.failed > 0 THEN "503" ELSE "201")
            /\ UNCHANGED mem
    /\ Done(t)
    /\ UNCHANGED <<up, backend, dir, edits, packs, stream, disk, taken, past>>

(***************************************************************************)
(* SourcePackRegistry.reload().                                            *)
(***************************************************************************)
Entry(t) == Head(job[t].entries)
Passed(t) == job' = [job EXCEPT ![t].entries = Tail(@)]
\* Seeded fault: a pack that loads is appended twice.
LoadedTwice(t) ==
    job' = [job EXCEPT ![t].entries = Tail(@), ![t].list = @ \o <<Entry(t), Entry(t)>>]

LoadedEntry(t) ==
    job' = [job EXCEPT ![t].entries = Tail(@), ![t].list = Append(@, Entry(t))]
Escapes(t) == Answered(t, "500") /\ Done(t)

\* What one load attempt does to the scan: an expected error is logged, others escape.
Outcome(t, result) ==
    CASE result = "loaded" -> LoadedEntry(t) /\ Goes(t, "scan") /\ UNCHANGED answer
      [] result = "refused" -> Passed(t) /\ Goes(t, "scan") /\ UNCHANGED answer
      [] result = "again" -> Goes(t, "reread") /\ UNCHANGED <<job, answer>>
      [] result = "escapes" -> Escapes(t)

\* Seeded fault: the error of one entry ends the loop.
ScanEntryStops(t) ==
    /\ pc[t] = "scan" /\ job[t].entries # <<>>
    /\ IF LoadSourcePack(dir[Entry(t)]) = "refused"
       THEN job' = [job EXCEPT ![t].entries = <<>>] /\ UNCHANGED <<pc, answer>>
       ELSE Outcome(t, LoadSourcePack(dir[Entry(t)]))
    /\ UNCHANGED <<world, packs, stream, stores, disk, taken, past>>

\* load_source_pack of the next entry, as its manifest is now.
ScanEntry(t) ==
    /\ pc[t] = "scan" /\ job[t].entries # <<>>
    /\ Outcome(t, LoadSourcePack(dir[Entry(t)]))
    /\ UNCHANGED <<world, packs, stream, stores, disk, taken, past>>

\* The constructor of a declarative pack opens the manifest once more.
RereadEntry(t) ==
    /\ pc[t] = "reread"
    /\ Outcome(t, ReadAgain(dir[Entry(t)]))
    /\ UNCHANGED <<world, packs, stream, stores, disk, taken, past>>

\* The sorted list is published in one assignment.
PublishPacks(t) ==
    /\ pc[t] = "scan" /\ job[t].entries = <<>>
    /\ packs' = Sorted(job[t].list)
    /\ Answered(t, "200") /\ Done(t)
    /\ UNCHANGED <<world, stream, stores, disk, taken, past>>

(***************************************************************************)
(* get_aggregations(), after the events of the page were searched.         *)
(***************************************************************************)
Stored == IF backend = "memory" THEN {mem[i] : i \in DOMAIN mem} ELSE Final(ch.events)
Total == IF backend = "memory" THEN MemoryTotal(mem) ELSE ClickHouseTotal(ch)

\* The length of the list, or the first of the four queries.
TakeTotal(t) ==
    /\ pc[t] = "total"
    /\ job' = [job EXCEPT ![t].total = Total]
    /\ Goes(t, "count")
    /\ UNCHANGED <<world, packs, stream, stores, disk, answer, taken, past>>

\* Seeded fault: the page is searched last, after the total was taken.
CountThenSearch(t) == \E rows \in Newest(SearchCap) :
    /\ pc[t] = "count"
    /\ job' = [job EXCEPT ![t].counted = Ids(Stored), ![t].rows = rows]
    /\ Goes(t, "counted")
    /\ UNCHANGED <<world, packs, stream, stores, disk, answer, taken, past>>

\* The loop over the list, or the other queries.
CountGroups(t) ==
    /\ pc[t] = "count"
    /\ job' = [job EXCEPT ![t].counted = Ids(Stored)]
    /\ Goes(t, "counted")
    /\ UNCHANGED <<world, packs, stream, stores, disk, answer, taken, past>>

AnswerAnalytics(t) ==
    /\ pc[t] = "counted"
    /\ Answered(t, "200") /\ Done(t)
    /\ UNCHANGED <<world, packs, stream, stores, disk, taken, past>>

(***************************************************************************)
(* JsonlExporter.export and DataLakeExporter.export_events.                *)
(***************************************************************************)
FileName(t) == Head(job[t].entries)

\* atomic_write of the next file: the rename replaces whoever's file is there.
WriteFile(t) ==
    /\ pc[t] = "write"
    /\ files' = [files EXCEPT ![FileName(t)] = File(JsonlRecords(job[t].rows, FileName(t)))]
    /\ Goes(t, "describe")
    /\ UNCHANGED <<world, packs, job, stream, stores, parts, manifest, summary, lake, settled,
                   exported, answer, taken, past>>

\* describe_file reads the file that is there now.
DescribeFile(t) ==
    /\ pc[t] = "describe"
    /\ LET name == FileName(t)
           found == Describe(name, JsonlRecords(job[t].rows, name), files[name].ids,
                             name = "quarantine")
       IN job' = [job EXCEPT ![t].made = @ \cup {found}, ![t].entries = Tail(@)]
    /\ Goes(t, IF Len(job[t].entries) > 1 THEN "write" ELSE "manifest")
    /\ UNCHANGED <<world, packs, stream, stores, disk, answer, taken, past>>

WriteManifest(t) ==
    /\ pc[t] = "manifest"
    /\ manifest' = Manifest(job[t].rows, job[t].made)
    /\ Goes(t, "summary")
    /\ UNCHANGED <<world, packs, job, stream, stores, files, parts, summary, lake, settled,
                   exported, answer, taken, past>>

\* The older manifest, which the answer repeats.
WriteSummary(t) ==
    /\ pc[t] = "summary"
    /\ summary' = Summary(Manifest(job[t].rows, job[t].made))
    /\ settled' = job[t].alone
    /\ exported' = job[t].rows
    /\ Answered(t, "200") /\ Done(t)
    /\ UNCHANGED <<world, packs, stream, stores, files, parts, manifest, lake, taken, past>>

\* A write fails: the temporary file is removed, the files before it stay.
ExportFails(t) ==
    /\ pc[t] \in {"write", "manifest", "summary", "part", "lake"}
    /\ Fault
    /\ Answered(t, "500") /\ Done(t)
    /\ UNCHANGED <<up, backend, dir, edits, packs, stream, stores, disk, taken, past>>

\* _write_atomic_parquet and describe_file of one partition: its name is nobody else's.
WritePart(t) == \E p \in job[t].todo :
    /\ pc[t] = "part"
    /\ LET records == InPartition(job[t].rows, p)
           name == <<job[t].id, p>>
       IN /\ parts' = [n \in DOMAIN parts \cup {name} |->
                         IF n = name THEN File(records) ELSE parts[n]]
          /\ job' = [job EXCEPT ![t].todo = @ \ {p},
                                ![t].made = @ \cup {Describe(name, records, Ids(records),
                                                             p.quarantine)}]
    /\ UNCHANGED <<world, packs, pc, stream, stores, files, manifest, summary, lake, settled,
                   exported, answer, taken, past>>

WriteLakeManifest(t) ==
    /\ pc[t] = "part" /\ job[t].todo = {}
    /\ lake' = Manifest(job[t].rows, job[t].made)
    /\ Answered(t, "200") /\ Done(t)
    /\ UNCHANGED <<world, packs, stream, stores, files, parts, manifest, summary, settled,
                   exported, taken, past>>

(***************************************************************************)
(* The process dies and is started again.                                  *)
(***************************************************************************)
Crash ==
    /\ up /\ Fault
    /\ up' = FALSE /\ packs' = <<>>
    /\ pc' = [t \in Threads |-> "idle"]
    /\ job' = [t \in Threads |-> NoJob]
    /\ mem' = <<>>
    /\ past' = taken
    /\ UNCHANGED <<backend, dir, edits, stream, ch, disk, answer, taken>>

\* ParsingEngine is built on import: while a manifest's error escapes there is no server.
Restart ==
    /\ ~up /\ \A e \in Entries : Loads(dir[e]) # "escapes"
    /\ up' = TRUE /\ packs' = Scanned
    /\ UNCHANGED <<backend, dir, edits, faults, pc, job, stream, stores, disk, answer, taken,
                   past>>

Arrives(t) == \/ PostEvent(t) \/ PostParse(t) \/ PostReload(t) \/ GetAnalytics(t)
              \/ PostExport(t) \/ ExportParquet(t)
Handles(t) ==
    \/ Collect(t) \/ CollectUnfit(t) \/ CollectFails(t) \/ BeginMatch(t) \/ AskPack(t)
    \/ NormalizeRaises(t) \/ Store(t)
    \/ ScanEntry(t) \/ RereadEntry(t) \/ PublishPacks(t)
    \/ TakeTotal(t) \/ CountGroups(t) \/ AnswerAnalytics(t)
    \/ WriteFile(t) \/ DescribeFile(t) \/ WriteManifest(t) \/ WriteSummary(t)
    \/ WritePart(t) \/ WriteLakeManifest(t) \/ ExportFails(t)

Next == \/ \E t \in Threads : Arrives(t) \/ Handles(t)
        \/ \E c \in Edits : Edit(c[1], c[2])
        \/ Crash \/ Restart

Spec == Init /\ [][Next]_vars
-----------------------------------------------------------------------------
(***************************************************************************)
(* Properties.                                                             *)
(***************************************************************************)
IsStored(i) == i \in Ids(Stored) \/ \E k \in DOMAIN ch.quarantine : ch.quarantine[k].id = i

\* What the API answers about an event is true of the raw archive, the stream and the store,
\* whatever failed where and whichever request ran meanwhile: 201 only for an event all three
\* have; a refused one was never passed on; and an event that the server gave up on with 500
\* or 503 is still in the archive and the stream, from where it can be processed again.
AnswersKept == \A i \in Requests :
    /\ i \in published => i \in archived
    /\ IsStored(i) => i \in published
    /\ answer[i] = "201" => i \in published
                            /\ (IsStored(i) \/ (backend = "memory" /\ i <= past))
    /\ answer[i] \in {"413", "422"} => i \notin published
    /\ answer[i] = "503" => i \in published
    /\ answer[i] = "500" => ~IsStored(i)

\* A line is routed as one published list of packs routes it, however often the registry is
\* reloaded between two detections: never by the first half of one and the rest of another.
RoutedByOneGeneration == \A t \in Threads :
    pc[t] = "store" => job[t].pack = Match(job[t].list, job[t].line)

\* "A single broken pack must never take down the engine or prevent other packs from loading"
\* (registry.py:53): a reload that publishes lists every entry that loads, and no other,
\* among those nobody edited while it was scanning, in the order of their priorities.
PublishedListHonest ==
    [][packs' # packs /\ up /\ up' =>
         LET listed == {packs'[i] : i \in DOMAIN packs'} IN
         \E t \in Threads :
            /\ job[t].kind = "reload"
            /\ \A e \in Entries \ job[t].touched : e \in listed <=> IsLoaded(e)
            /\ \A i, j \in DOMAIN packs' : i < j => Priority[packs'[i]] >= Priority[packs'[j]]
      ]_vars

\* The dashboard never shows an event that its own counters leave out, although page, total
\* and groups are read one after the other while events are being stored.
ShownIsCounted == \A t \in Threads :
    pc[t] = "counted" => /\ Ids(job[t].rows) \subseteq job[t].counted
                         /\ Cardinality(job[t].rows) <= job[t].total
                         /\ job[t].total <= Cardinality(job[t].counted)

\* Every event of an export is in exactly one of its files, the valid ones apart, and the
\* manifests describe the files as they are; this holds from the end of an export that no
\* other overlapped until the next one begins, and of Parquet exports always, as no two of
\* them share a file.
ExportsReconcile ==
    /\ settled =>
         /\ Verifies(manifest, files)
         /\ summary = Summary(manifest)
         /\ files["normalized"].ids = Ids({r \in exported : IsValid(r)})
         /\ files["quarantine"].ids = Ids({r \in exported : ~IsValid(r)})
    /\ lake.there => Verifies(lake, parts)

Listed == {packs[i] : i \in DOMAIN packs}

\* Whatever a source sends and however the clocks of collector, parser and normalizer
\* disagree, the mappings, the quality rules and the validation rules fit together for every
\* pack the registry lists: what the stores quarantine is what no parser could read, and the
\* alerts whose rating is not explained; nothing else is refused by validate_event.
OnlyUnusableQuarantined == \A p \in Listed \cup {NoPack} : MisratedBy[p] = {}

\* While the Cisco pack is listed, and so is the first to be asked, the route from before the
\* migration and the canonical one make the same event of a line with the full ASA tag,
\* through two event models and back, and lose none with a bare tag.
LegacyAgrees == "cisco_asa" \in Listed => LegacyDiffers = {}

\* A server runs with either store, and main.py asks both the same.  That they give "the same
\* dashboard projection" (storage/clickhouse.py:251) is not so: whatever is delivered, how
\* often and in which order, the answers differ by the quarantined events and the replaced
\* deliveries, which only the memory store has, by the keys of events_by_source, and, where
\* a limit cuts, by the order it follows: delivered last, or observed last.
StoresReconcile == up => Unreconciled = {}
-----------------------------------------------------------------------------
(***************************************************************************)
(* The inductive invariant behind them: what a thread holds belongs to its *)
(* step and to a request of its own, a row is stored once, and a scan has  *)
(* dealt with the entries it has passed.                                   *)
(***************************************************************************)
\* What the normalizer may make of the lines that are posted.
Routes == {r \in (Packs \cup {NoPack}) \X PostedLines :
             /\ r[1] = NoPack \/ Detects(r[1], r[2])
             /\ ~NormalizerRaises(EngineParse(r[1], "cef", r[2]))}
NormalizedAs(pack, line, i) ==
    Normalize(EngineParse(pack, "cef", line), [ingested |-> i, parsed |-> i, now |-> i])
NormalizedEvents == {NormalizedAs(r[1], r[2], i) : r \in Routes, i \in Requests}
Rows == [id : Requests, u : NormalizedEvents]

\* The steps of each kind of request.
Stages == [event |-> {"collect", "engine", "match", "store"}, parse |-> {"engine", "match"},
           reload |-> {"scan", "reread"}, analytics |-> {"total", "count", "counted"},
           export |-> {"write", "describe", "manifest", "summary"}, parquet |-> {"part"}]

StateTypes ==
    /\ up \in BOOLEAN /\ backend \in {"memory", "clickhouse"}
    /\ dir \in [Entries -> Manifests]
    /\ packs \in Seq(Entries) /\ Len(packs) <= Len(Directory)
    /\ pc \in [Threads -> Steps]
    /\ archived \subseteq Requests /\ published \subseteq Requests
    /\ DOMAIN files = {"normalized", "quarantine"}
    /\ files["normalized"].ids \subseteq Requests /\ files["quarantine"].ids \subseteq Requests
    /\ answer \in [Requests -> Answers]
    /\ taken \in 0 .. MaxRequests /\ past \in 0 .. taken
    /\ settled \in BOOLEAN
    /\ edits \in 0 .. MaxEdits /\ faults \in 0 .. MaxFaults

IsJob(j) ==
    /\ DOMAIN j = DOMAIN NoJob
    /\ j.id \in 0 .. MaxRequests /\ j.list \in Seq(Entries) /\ j.alone \in BOOLEAN
    /\ Ids(j.rows) \subseteq Requests
JobTypes == DOMAIN job = Threads /\ \A t \in Threads : IsJob(job[t])

\* A thread that is not idle has a request of its own, which nobody has answered.
OwnRequest(t) ==
    IF pc[t] = "idle" THEN job[t] = NoJob
    ELSE /\ up /\ job[t].kind \in DOMAIN Stages /\ pc[t] \in Stages[job[t].kind]
         /\ job[t].id \in past + 1 .. taken /\ answer[job[t].id] = "none"
         /\ job[t].kind = "event" => job[t].line \in PostedLines
OwnRequests ==
    /\ \A t \in Threads : OwnRequest(t)
    /\ \A t, u \in Threads : pc[t] # "idle" /\ pc[u] # "idle" /\ job[t].id = job[u].id => t = u

\* Nothing exists of a request that has not arrived.
NothingYet == \A i \in Requests :
    i > taken => answer[i] = "none" /\ i \notin archived \cup published /\ ~IsStored(i)

\* How far the event in hand has got.
EventInHand(t) == pc[t] # "idle" =>
    /\ ~IsStored(job[t].id)
    /\ pc[t] = "collect" => job[t].id \notin published
    /\ job[t].kind = "event" /\ pc[t] # "collect" => job[t].id \in published

StoredOnce ==
    /\ mem \in Seq(Rows) /\ \A i, j \in 1 .. Len(mem) : mem[i].id = mem[j].id => i = j
    /\ DOMAIN ch = {"events", "quarantine"}
    /\ ch.events \in Seq(Rows) /\ ch.quarantine \in Seq(Rows)
    /\ \A i, j \in 1 .. Len(ch.events) : ch.events[i].id = ch.events[j].id => i = j

\* The packs that a detection has passed did not take the line.
Detecting(t) == pc[t] = "match" =>
    /\ job[t].next \in 1 .. Len(job[t].list) + 1
    /\ \A i \in 1 .. job[t].next - 1 : ~Detects(job[t].list[i], job[t].line)

\* The page of a dashboard is in the store, and in the total.
Showing(t) ==
    /\ pc[t] \in {"total", "count"} => /\ IsFiniteSet(job[t].rows)
                                      /\ Ids(job[t].rows) \subseteq Ids(Stored)
    /\ pc[t] = "total" => Cardinality(job[t].rows) <= Total
    /\ pc[t] = "count" => /\ Cardinality(job[t].rows) <= job[t].total
                         /\ job[t].total \in Nat /\ job[t].total <= Total

\* A scan that has passed n entries has those that load, of the ones nobody has edited.
HasScanned(n, list, touched) ==
    /\ Len(list) <= n
    /\ \A e \in Entries \ touched :
         (\E i \in 1 .. Len(list) : list[i] = e)
            <=> IsLoaded(e) /\ \E i \in 1 .. n : Directory[i] = e
Scanning(t) == pc[t] \in Stages.reload =>
    \E n \in 0 .. Len(Directory) :
       /\ job[t].entries = SubSeq(Directory, n + 1, Len(Directory))
       /\ HasScanned(n, job[t].list, job[t].touched)
       /\ pc[t] = "reread" =>
            /\ n < Len(Directory)
            /\ Directory[n + 1] \in job[t].touched
                 \/ LoadSourcePack(dir[Directory[n + 1]]) = "again"

\* An export has both files to write, or the second.
Writing(t) ==
    pc[t] \in {"write", "describe"} => job[t].entries \in {JsonlFiles, <<"quarantine">>}

IInv ==
    /\ StateTypes /\ JobTypes /\ OwnRequests /\ NothingYet /\ StoredOnce
    /\ \A t \in Threads : /\ EventInHand(t) /\ Detecting(t) /\ Showing(t)
                          /\ Scanning(t) /\ Writing(t)
    /\ RoutedByOneGeneration /\ ShownIsCounted /\ AnswersKept
-----------------------------------------------------------------------------
(***************************************************************************)
(* The inductive invariant of the exports, beside the one above: what an   *)
(* export has described is on disk as described, unless another overlaps;  *)
(* and no two Parquet exports share a name.                                *)
(***************************************************************************)
\* The files an export has written and read back, and what it says of them.
Described(t) == {"normalized", "quarantine"} \ {job[t].entries[i] : i \in DOMAIN job[t].entries}
FileRecord(rows, name) ==
    Describe(name, JsonlRecords(rows, name), Ids(JsonlRecords(rows, name)), name = "quarantine")
HoldsRecords(rows, name) == files[name] = File(JsonlRecords(rows, name))

ExportInHand(t) == pc[t] \in Stages.export =>
    /\ IsFiniteSet(job[t].rows) /\ ~settled
    /\ pc[t] \in {"manifest", "summary"} => job[t].entries = <<>>
    /\ job[t].alone =>
         /\ Exporting = {t}
         /\ job[t].made = {FileRecord(job[t].rows, n) : n \in Described(t)}
         /\ \A n \in Described(t) : HoldsRecords(job[t].rows, n)
         /\ pc[t] = "describe" => HoldsRecords(job[t].rows, FileName(t))
         /\ pc[t] = "summary" => manifest = Manifest(job[t].rows, job[t].made)

\* The files of the partitions that are not to do any more.
PartRecord(id, rows, p) ==
    Describe(<<id, p>>, InPartition(rows, p), Ids(InPartition(rows, p)), p.quarantine)
ParquetInHand(t) == pc[t] = "part" =>
    LET rows == job[t].rows
        written == Partitions(rows) \ job[t].todo
    IN /\ IsFiniteSet(rows) /\ job[t].todo \subseteq Partitions(rows)
       /\ job[t].made = {PartRecord(job[t].id, rows, p) : p \in written}
       /\ \A p \in written : /\ <<job[t].id, p>> \in DOMAIN parts
                             /\ parts[<<job[t].id, p>>] = File(InPartition(rows, p))
       /\ \A p \in job[t].todo : <<job[t].id, p>> \notin DOMAIN parts

PartsArePast == \A name \in DOMAIN parts : name[1] \in 1 .. taken
LakeOnDisk == lake.there => \A f \in lake.described : f.name \in DOMAIN parts

ExportsInv ==
    /\ \A t \in Threads : ExportInHand(t) /\ ParquetInHand(t)
    /\ PartsArePast /\ LakeOnDisk /\ ExportsReconcile
=============================================================================
