------------------------------ MODULE DataLake ------------------------------
(***************************************************************************)
(* What the data-lake exporters of src/exports and pipeline/exporter.py    *)
(* write: which event goes to which file, what a manifest says of the      *)
(* files, and when verify_manifest accepts it.  Operators on values; the   *)
(* steps of an export are actions of ApiServer.                            *)
(*                                                                         *)
(* A file holds the identities of its events.  Lines and Parquet rows are  *)
(* determined by the event, so two files with the same identities have the *)
(* same bytes and the same digest.                                         *)
(***************************************************************************)
EXTENDS AnalyticalStores

Ids(rows) == {r.id : r \in rows}

\* _is_valid: not the stores' notion, a partial event is not valid here.
IsValid(row) == row.u.status = "valid"

\* The two files of an export, in the order they are written.
JsonlFiles == <<"normalized", "quarantine">>

\* Seeded fault: only what validation refused counts as quarantined in the first list.
JsonlRecordsLax(rows, file) ==
    {r \in rows : IF file = "normalized" THEN r.u.status # "invalid" ELSE ~IsValid(r)}

\* JsonlExporter.export: the records of each file.
JsonlRecords(rows, file) == {r \in rows : IsValid(r) <=> file = "normalized"}

NoFile == [there |-> FALSE, ids |-> {}]
File(rows) == [there |-> TRUE, ids |-> Ids(rows)]

\* describe_file: the count is the exporter's own, size and digest are read back.
Describe(name, records, content, quarantine) ==
    [name |-> name, rows |-> Cardinality(records), digest |-> content, quarantine |-> quarantine]

NoManifest == [there |-> FALSE, total |-> 0, valid |-> 0, quarantine |-> 0, described |-> {}]
Manifest(rows, described) ==
    [there |-> TRUE, total |-> Cardinality(rows),
     valid |-> Cardinality({r \in rows : IsValid(r)}),
     quarantine |-> Cardinality({r \in rows : ~IsValid(r)}), described |-> described]

\* The manifest DataLakeExporter derives from that result.
Summary(m) == [total |-> m.total, valid |-> m.valid, quarantine |-> m.quarantine]

RowSum(described) ==
    LET sum[s \in SUBSET described] ==
          IF s = {} THEN 0 ELSE LET f == CHOOSE f \in s : TRUE IN f.rows + sum[s \ {f}]
    IN sum[described]

\* verify_manifest, against the files that are there.
Verifies(m, disk) ==
    LET quarantined == {f \in m.described : f.quarantine}
    IN /\ m.total = m.valid + m.quarantine
       /\ RowSum(m.described) = m.total
       /\ RowSum(quarantined) = m.quarantine
       /\ RowSum(m.described \ quarantined) = m.valid
       /\ \A f \in m.described : disk[f.name].there /\ disk[f.name].ids = f.digest
-----------------------------------------------------------------------------
\* ParquetExporter.export: events are grouped by validity, day and category.
Partition(row) == [quarantine |-> ~IsValid(row), day |-> row.u.observed,
                   category |-> row.u.category]
Partitions(rows) == {Partition(r) : r \in rows}
InPartition(rows, p) == {r \in rows : Partition(r) = p}
=============================================================================
