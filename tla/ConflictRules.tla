--------------------------- MODULE ConflictRules ---------------------------
(***************************************************************************)
(* What DuckLake's optimistic concurrency control calls a conflict.        *)
(*                                                                         *)
(* A transaction is summarised by its change information: which kinds of   *)
(* changes it made to which tables (TransactionChangeInformation).  At     *)
(* commit the summary is stored with the snapshot (changes_made, one       *)
(* "kind:table_id" item per change); a transaction that has to retry reads *)
(* the summaries of every snapshot committed since it began and compares   *)
(* them with its own, kind by kind (CheckForConflicts).                    *)
(***************************************************************************)
CONSTANT Tables

\* The kinds that are stored in ducklake_snapshot_changes, under the names
\* that the stored text gives them.
RecordedKinds ==
    {"inserted_into_table", "inlined_insert", "set_not_null",
     "deleted_from_table", "inlined_delete", "inline_flush",
     "merge_adjacent", "rewrite_delete", "altered_table", "dropped_table"}

\* The kinds that only the transaction itself knows of: a DELETE or UPDATE
\* that ran (even when it matched no row), and a rename.
LocalKinds == {"delete_attempted", "renamed_table"}

Kinds == RecordedKinds \cup LocalKinds

\* A transaction's change information: a set of <<kind, table>>.
ChangeInfo == SUBSET (Kinds \X Tables)

RecordedChanges == SUBSET (RecordedKinds \X Tables)

Changed(kind, tables) == {kind} \X tables

\* (mutation) The summary is written as it is.
WriteAllChanges(changes) == changes

\* What the snapshot's row in ducklake_snapshot_changes keeps of a summary.
WriteSnapshotChanges(changes) == {x \in changes : x[1] \in RecordedKinds}

\* new_tables or dropped_tables is not empty, so the commit takes a new schema
\* version: every kind of ALTER, a rename and a DROP.
SchemaChangesMade(changes) ==
    \E x \in changes : x[1] \in {"altered_table", "renamed_table", "dropped_table"}

\* A data change and a compaction in the same transaction: WriteSnapshotChanges
\* refuses to write it.
MixesCompaction(changes) ==
    \E x, y \in WriteSnapshotChanges(changes) :
        /\ x[1] \in {"merge_adjacent", "rewrite_delete"}
        /\ y[1] \notin {"merge_adjacent", "rewrite_delete"}

----------------------------------------------------------------------------
(* The rules: <<mine, other>> says that my change of the first kind        *)
(* conflicts with another transaction's change of the second kind to the   *)
(* same table.                                                             *)

DropRules == {<<"dropped_table", "dropped_table">>}

InsertRules ==
    {"inserted_into_table", "inlined_insert"} \X
    {"dropped_table", "altered_table", "deleted_from_table", "inlined_delete", "set_not_null"}

SetNotNullRules ==
    {"set_not_null"} \X {"inserted_into_table", "inlined_insert"}

\* (mutation) Deletions do not look for compactions.
DeleteRulesWithoutCompaction ==
    {"deleted_from_table"} \X
    {"dropped_table", "altered_table", "inserted_into_table", "inlined_insert"}

DeleteRules ==
    {"deleted_from_table"} \X
    {"dropped_table", "altered_table", "merge_adjacent", "rewrite_delete",
     "inserted_into_table", "inlined_insert"}

DeleteAttemptRules ==
    {"delete_attempted"} \X {"inserted_into_table", "inlined_insert"}

InlinedDeleteRules ==
    {"inlined_delete"} \X
    {"dropped_table", "altered_table", "inlined_delete", "inline_flush",
     "inserted_into_table", "inlined_insert"}

FlushRules ==
    {"inline_flush"} \X {"dropped_table", "inlined_delete", "inline_flush"}

CompactionRules ==
    {"merge_adjacent", "rewrite_delete"} \X
    {"dropped_table", "deleted_from_table", "merge_adjacent", "rewrite_delete"}

AlterRules ==
    {"altered_table", "renamed_table"} \X {"dropped_table", "altered_table"}

Rules ==
    UNION {DropRules, InsertRules, SetNotNullRules, DeleteRules, DeleteAttemptRules,
           InlinedDeleteRules, FlushRules, CompactionRules, AlterRules}

\* Some rule finds both of its kinds on one table.
ConflictCheck(mine, other) ==
    \E x \in mine, y \in other : x[2] = y[2] /\ <<x[1], y[1]>> \in Rules

\* Both transactions deleted from a table with delete files: whether they
\* conflict is then decided file by file.
DeletesMayMatch(mine, other) ==
    \E x \in mine \cap other : x[1] = "deleted_from_table"
============================================================================
