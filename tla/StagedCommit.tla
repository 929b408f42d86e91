---------------------------- MODULE StagedCommit ----------------------------
(***************************************************************************)
(* The commit through a metadata server (the quack backend).               *)
(*                                                                         *)
(* A transaction that only changes data is not committed by its client:    *)
(* the client copies its local changes, row by row, into temporary tables  *)
(* of its session on the server and calls ducklake_commit there.  The      *)
(* server rebuilds the local changes from these tables and runs the whole  *)
(* commit loop, retries included, next to the metadata database.  All the  *)
(* transactions of one attached catalog share one session; the temporary   *)
(* tables outlive a batch, and the next batch truncates them.  Every other *)
(* transaction runs the commit loop on the client.                         *)
(*                                                                         *)
(* A transaction is a record of its local changes:                         *)
(*   name             tells transactions apart                             *)
(*   data_files       the new data files, table by table                   *)
(*   compactions      the compactions, table by table                      *)
(*   inlined          the new inlined rows of a table: their row ids, with *)
(*                    Local for the rows whose id the commit draws         *)
(*   inlined_deletes  <<table, inlined table, row id>>                     *)
(*   file_deletes     <<table, data file id, position>>, kept inlined      *)
(*   delete_files     the new delete files of committed data files         *)
(*   dropped_files    the data file ids of dropped files                   *)
(*   deleted_from, delete_attempted                                        *)
(*   name_maps        the new name maps, each a forest of columns that is  *)
(*                    listed in preorder as <<depth, name>>                *)
(*   altered          the tables it alters                                 *)
(*   client_side      it flushed inlined data or needs a new inlined table *)
(* An aspect of a file that only travels with it (sizes, format, key,      *)
(* partition values, column statistics) is its column_stats.               *)
(***************************************************************************)
EXTENDS Integers, SequencesExt, ConflictRules

CONSTANTS
    Clients,          \* the transactions' connections
    SessionOf,        \* the server session that a client's catalog uses
    Transactions,     \* the transactions that clients may run, each at most once
    InitialFiles,     \* the data files of the first snapshot: id -> table and rows
    Local,            \* TRANSACTION_LOCAL_ROW_ID_START
    MaxRetryCount,    \* ducklake_max_retry_count
    MaxTransactions   \* bound on the number of transactions

ASSUME TablesAreOrdered == Tables \subseteq Nat

VARIABLES
    log,       \* the committed snapshots
    txn,       \* the transaction of each client
    staged,    \* session -> the rows of its temporary tables, in insertion order
    disk,      \* the files in the data path and the external files
    started    \* (history) the transactions that have been started

vars == <<log, txn, staged, disk, started>>

Sessions == {SessionOf[c] : c \in Clients}

None == -1

Map(s, Op(_)) == [i \in DOMAIN s |-> Op(s[i])]

\* The rows in the files of a sequence.
RowsIn(files) == FoldLeft(LAMBDA n, f : n + f.rows, 0, files)

----------------------------------------------------------------------------
(* What the commit writes: CommitChanges, for local changes that are the   *)
(* transaction's own (client) or rebuilt from the staged rows (server).    *)

\* AddTableChanges and, for the tables of whole-file drops and attempted
\* deletes, the transaction's own sets.
Changes(w) ==
    UNION {
        {<<"inserted_into_table", w.data_files[i].table>> : i \in DOMAIN w.data_files},
        {<<"inlined_insert", w.inlined[i].table>> : i \in DOMAIN w.inlined},
        {<<"deleted_from_table", w.delete_files[i].table>> : i \in DOMAIN w.delete_files},
        {<<"inlined_delete", d[1]>> : d \in w.inlined_deletes \cup w.file_deletes},
        {<<w.compactions[i].type, w.compactions[i].table>> : i \in DOMAIN w.compactions},
        Changed("deleted_from_table", w.deleted_from),
        Changed("delete_attempted", w.delete_attempted),
        Changed("altered_table", w.altered)}

\* GetNewNameMaps: a map takes its id from the file ids; ConvertNameMapColumn
\* numbers the columns in preorder and names the parent of each.
GetNewNameMaps(w, next) ==
    [i \in DOMAIN w.name_maps |->
        LET columns == w.name_maps[i].columns IN
        [id |-> next + i - 1, table |-> w.name_maps[i].table,
         columns |-> [n \in DOMAIN columns |->
            [name |-> columns[n][2],
             parent |-> Max({None} \cup {p \in 1 .. n - 1 : columns[p][1] = columns[n][1] - 1})]]]]

\* RemapMappingIndex: a new map's index becomes the id that it was given.
RemapMappingIndex(w, mapping, next) ==
    IF \E i \in DOMAIN w.name_maps : w.name_maps[i].id = mapping
    THEN next + (CHOOSE i \in DOMAIN w.name_maps : w.name_maps[i].id = mapping) - 1
    ELSE mapping

\* The tables that get inlined rows and no file: each uses up a file id.
InlinedOnly(w) ==
    {w.inlined[i].table : i \in DOMAIN w.inlined} \
    {w.data_files[i].table : i \in DOMAIN w.data_files}

\* The file ids that the name maps and the new data take, and the delete files.
DataFileIds(w) ==
    Len(w.name_maps) + Len(w.data_files) + Cardinality(InlinedOnly(w))

DeleteFileIds(w) ==
    Len(w.delete_files) + Len(FlattenSeq(Map(w.data_files, LAMBDA f : f.attached)))

\* GetNewDataFiles: ids and row ids are handed out table by table.
GetNewDataFiles(w, next, stats) ==
    [i \in DOMAIN w.data_files |->
        LET f == w.data_files[i]
            before == SelectSeq(SubSeq(w.data_files, 1, i - 1), LAMBDA g : g.table = f.table)
        IN  [id |-> next + Len(w.name_maps) + i - 1
                    + Cardinality({t \in InlinedOnly(w) : t < f.table}),
             table |-> f.table, path |-> f.path, rows |-> f.rows,
             column_stats |-> f.column_stats,
             mapping |-> RemapMappingIndex(w, f.mapping, next),
             row_id_start |-> stats[f.table].next_row_id + RowsIn(before)]]

\* The row ids of a table's new inlined rows follow those of its new files.
FormatInlinedDataInsert(w, i, stats) ==
    LET entry == w.inlined[i]
        files == SelectSeq(w.data_files, LAMBDA f : f.table = entry.table)
        start == stats[entry.table].next_row_id + RowsIn(files)
    IN  [table |-> entry.table,
         row_ids |-> [n \in DOMAIN entry.row_ids |->
            IF entry.row_ids[n] # Local THEN entry.row_ids[n]
            ELSE start + Cardinality({m \in 1 .. n - 1 : entry.row_ids[m] = Local})],
         column_stats |-> entry.column_stats]

\* GetNewDeleteFiles: the deletions from committed files, then the delete files
\* that the transaction attached to its own new files.
GetNewDeleteFiles(w, next, stats) ==
    LET files == GetNewDataFiles(w, next, stats)
        attached == FlattenSeq([i \in DOMAIN w.data_files |->
            Map(w.data_files[i].attached,
                LAMBDA d : [table |-> files[i].table, data_file |-> files[i].id, path |-> d,
                            overwrites |-> None])])
        all == w.delete_files \o attached
    IN  [i \in DOMAIN all |-> [file |-> all[i], id |-> next + DataFileIds(w) + i - 1]]

\* GetCompactionChanges: the outputs, and of every source its id, its last delete
\* file and the number of its rows that are still live.
GetCompactionChanges(w, next) ==
    LET first == next + DataFileIds(w) + DeleteFileIds(w)
        outputs(i) == Len(FlattenSeq(Map(SubSeq(w.compactions, 1, i - 1), LAMBDA k : k.outputs)))
    IN  [i \in DOMAIN w.compactions |->
            LET k == w.compactions[i] IN
            [table |-> k.table, type |-> k.type,
             outputs |-> [o \in DOMAIN k.outputs |->
                [id |-> first + outputs(i) + o - 1, path |-> k.outputs[o].path,
                 rows |-> k.outputs[o].rows, column_stats |-> k.outputs[o].column_stats]],
             sources |-> Map(k.sources, LAMBDA s :
                [file |-> s.file,
                 delete_file |-> IF s.deletes = << >> THEN None ELSE Last(s.deletes).id,
                 live |-> s.rows - Cardinality(s.inlined)
                          - (IF s.deletes = << >> THEN 0 ELSE Last(s.deletes).rows)])]]

\* ApplyDroppedFileStats and MergeFileStats: the statistics after the commit.
NewStats(w, stats) ==
    [t \in Tables |->
        LET files == SelectSeq(w.data_files, LAMBDA f : f.table = t)
            inlined == FlattenSeq(Map(SelectSeq(w.inlined, LAMBDA e : e.table = t), LAMBDA e : e.row_ids))
            new == SelectSeq(inlined, LAMBDA r : r = Local)
        IN  [record_count |-> stats[t].record_count + RowsIn(files) + Len(inlined)
                - MapThenSumSet(LAMBDA id : InitialFiles[id].rows,
                                {id \in w.dropped_files : InitialFiles[id].table = t}),
             next_row_id |-> stats[t].next_row_id + RowsIn(files) + Len(new)]]

\* The metadata that a commit of w adds on top of a snapshot.
CommitChanges(w, next, stats) ==
    [name_maps |-> GetNewNameMaps(w, next),
     data_files |-> GetNewDataFiles(w, next, stats),
     inlined |-> [i \in DOMAIN w.inlined |-> FormatInlinedDataInsert(w, i, stats)],
     delete_files |-> GetNewDeleteFiles(w, next, stats),
     inlined_deletes |-> w.inlined_deletes,
     file_deletes |-> w.file_deletes,
     dropped_files |-> w.dropped_files,
     compactions |-> GetCompactionChanges(w, next),
     changes |-> WriteSnapshotChanges(Changes(w)),
     stats |-> NewStats(w, stats)]

\* The file ids that a commit of w uses up.
FileIds(w) ==
    DataFileIds(w) + DeleteFileIds(w)
    + Len(FlattenSeq(Map(w.compactions, LAMBDA k : k.outputs)))

NewSnapshot(w, own, base, stats) ==
    [own |-> own,                               \* (history) the transaction
     batch |-> CommitChanges(w, log[base].next_file_id, stats),
     next_file_id |-> log[base].next_file_id + FileIds(w)]

----------------------------------------------------------------------------
(* The rows that the client stages (DuckLakeStagedCommit) and what the     *)
(* server reads back from them (DuckLakeServerSideCommit).                 *)

Row(table, values) == [into |-> table, row |-> values]

EmitDataFileRow(f, local_file_id, compaction_id) ==
    << Row("data_file", [file_id |-> local_file_id, table |-> f.table, path |-> f.path,
                         rows |-> f.rows, mapping |-> f.mapping,
                         compaction |-> compaction_id]),
       Row("data_file_column_stats", [file_id |-> local_file_id,
                                      column_stats |-> f.column_stats]) >>

EmitAttachedDeleteRow(path, table, local_file_id) ==
    Row("delete_file", [table |-> table, data_file |-> None, path |-> path,
                        overwrites |-> None, attached |-> local_file_id])

EmitDataFiles(w) ==
    FlattenSeq([i \in DOMAIN w.data_files |->
        LET f == w.data_files[i] IN
        EmitDataFileRow(f, i - 1, None) \o
        Map(f.attached, LAMBDA d : EmitAttachedDeleteRow(d, f.table, i - 1))])

\* The local file ids go on from those of the data files.  A source keeps the
\* number of its inlined deletions, not which they are, and its last delete file.
EmitCompactions(w) ==
    LET outputs(i) == Len(FlattenSeq(Map(SubSeq(w.compactions, 1, i - 1), LAMBDA k : k.outputs)))
        source(i, s) ==
            Row("compaction_source",
                [compaction |-> i - 1, file |-> s.file, rows |-> s.rows,
                 inlined_count |-> Cardinality(s.inlined),
                 last_delete |-> IF s.deletes = << >> THEN << >> ELSE << Last(s.deletes) >>])
    IN  FlattenSeq([i \in DOMAIN w.compactions |->
            LET k == w.compactions[i] IN
            FlattenSeq([o \in DOMAIN k.outputs |->
                EmitDataFileRow(k.outputs[o], Len(w.data_files) + outputs(i) + o - 1, i - 1)])
            \o << Row("compaction", [compaction |-> i - 1, table |-> k.table, type |-> k.type]) >>
            \o Map(k.sources, LAMBDA s : source(i, s))])

\* A row that an UPDATE moves keeps its row id; a row id of the transaction's own
\* is staged as NULL.
HasPreservedRowIds(entry) == \E i \in DOMAIN entry.row_ids : entry.row_ids[i] # Local

EmitInlinedData(w) ==
    FlattenSeq([i \in DOMAIN w.inlined |->
        LET e == w.inlined[i] IN
        << Row("inlined_data", [table |-> e.table, preserved |-> HasPreservedRowIds(e)]) >>
        \o Map(e.row_ids, LAMBDA r : Row("inlined_row",
                [table |-> e.table, row_id |-> IF r = Local THEN None ELSE r]))
        \o << Row("inlined_column_stats", [table |-> e.table, column_stats |-> e.column_stats]) >>])

EmitInlinedDeletes(w) ==
    Map(SetToSeq(w.inlined_deletes), LAMBDA d : Row("inlined_delete", d))

EmitInlinedFileDeletes(w) ==
    Map(SetToSeq(w.file_deletes), LAMBDA d : Row("inlined_file_delete", d))

EmitDeleteFiles(w) ==
    Map(w.delete_files, LAMBDA d : Row("delete_file",
        [table |-> d.table, data_file |-> d.data_file, path |-> d.path,
         overwrites |-> d.overwrites, attached |-> None]))

EmitDroppedFiles(w) ==
    Map(SetToSeq(w.dropped_files), LAMBDA id : Row("dropped_file", id)) \o
    Map(SetToSeq(w.deleted_from), LAMBDA t : Row("tables_deleted_from", t)) \o
    Map(SetToSeq(w.delete_attempted), LAMBDA t : Row("tables_delete_attempted", t))

\* FlattenNameMapEntry: the entries of a map in preorder, each with its parent.
EmitNameMaps(w) ==
    FlattenSeq(Map(w.name_maps, LAMBDA m :
        << Row("name_map", [id |-> m.id, table |-> m.table]) >> \o
        [n \in DOMAIN m.columns |->
            Row("name_map_entry",
                [id |-> m.id, entry |-> n - 1, name |-> m.columns[n][2],
                 parent |-> Max({None} \cup {p - 1 : p \in
                    {q \in 1 .. n - 1 : m.columns[q][1] = m.columns[n][1] - 1}})])]))

EmitCommitHeader(snapshot) == << Row("commit_header", snapshot) >>

\* The batch that the client sends, after the CREATEs and TRUNCATEs.
Build(w, snapshot) ==
    EmitCommitHeader(snapshot) \o EmitDataFiles(w) \o EmitCompactions(w)
    \o EmitInlinedData(w) \o EmitInlinedDeletes(w) \o EmitInlinedFileDeletes(w)
    \o EmitDeleteFiles(w) \o EmitDroppedFiles(w) \o EmitNameMaps(w)

ScanStagedTable(rows, table) ==
    Map(SelectSeq(rows, LAMBDA r : r.into = table), LAMBDA r : r.row)

ReadCommitHeader(rows) == ScanStagedTable(rows, "commit_header")[1]

\* The data files with the statistics and the attached deletes that carry their
\* local file id.  Whether the file was created by DuckLake is not staged, and is
\* true in a new DuckLakeDataFile.
ReadStagedFiles(rows, compaction_id) ==
    LET stats == ScanStagedTable(rows, "data_file_column_stats")
        attached(id) == SelectSeq(ScanStagedTable(rows, "delete_file"), LAMBDA d : d.attached = id)
    IN  Map(SelectSeq(ScanStagedTable(rows, "data_file"), LAMBDA f : f.compaction = compaction_id),
            LAMBDA f :
            [table |-> f.table, path |-> f.path, rows |-> f.rows, mapping |-> f.mapping,
             column_stats |-> SelectSeq(stats, LAMBDA s : s.file_id = f.file_id)[1].column_stats,
             attached |-> Map(attached(f.file_id), LAMBDA d : d.path),
             created_by_ducklake |-> TRUE])

ReadStagedDataFiles(rows) == ReadStagedFiles(rows, None)

\* The inlined deletions of a source become the numbers below their count.
ReadStagedCompactions(rows) ==
    Map(ScanStagedTable(rows, "compaction"), LAMBDA k :
        [table |-> k.table, type |-> k.type,
         outputs |-> ReadStagedFiles(rows, k.compaction),
         sources |->
            Map(SelectSeq(ScanStagedTable(rows, "compaction_source"),
                          LAMBDA s : s.compaction = k.compaction),
                LAMBDA s : [file |-> s.file, rows |-> s.rows, deletes |-> s.last_delete,
                            inlined |-> 0 .. s.inlined_count - 1])])

ReadStagedInlinedData(rows) ==
    Map(ScanStagedTable(rows, "inlined_data"), LAMBDA e :
        [table |-> e.table,
         row_ids |->
            Map(SelectSeq(ScanStagedTable(rows, "inlined_row"), LAMBDA r : r.table = e.table),
                LAMBDA r : IF ~e.preserved \/ r.row_id = None THEN Local ELSE r.row_id),
         column_stats |->
            SelectSeq(ScanStagedTable(rows, "inlined_column_stats"),
                      LAMBDA s : s.table = e.table)[1].column_stats])

ReadStagedDeleteFiles(rows) ==
    Map(SelectSeq(ScanStagedTable(rows, "delete_file"), LAMBDA d : d.attached = None),
        LAMBDA d : [table |-> d.table, data_file |-> d.data_file, path |-> d.path,
                    overwrites |-> d.overwrites])

\* BuildNameMapEntry puts the children of an entry below it, in the order of
\* their ids: the depth of an entry is one more than that of its parent.
ReadStagedNameMaps(rows) ==
    Map(ScanStagedTable(rows, "name_map"), LAMBDA m :
        LET entries == SelectSeq(ScanStagedTable(rows, "name_map_entry"), LAMBDA e : e.id = m.id)
            depth[n \in DOMAIN entries] ==
                IF entries[n].parent = None THEN 0 ELSE depth[entries[n].parent + 1] + 1
        IN  [id |-> m.id, table |-> m.table,
             columns |-> [n \in DOMAIN entries |-> <<depth[n], entries[n].name>>]])

StagedSet(rows, table) == ToSet(ScanStagedTable(rows, table))

\* The local changes as the server rebuilds them.
ReadStaged(rows) ==
    [data_files |-> ReadStagedDataFiles(rows),
     compactions |-> ReadStagedCompactions(rows),
     inlined |-> ReadStagedInlinedData(rows),
     inlined_deletes |-> StagedSet(rows, "inlined_delete"),
     file_deletes |-> StagedSet(rows, "inlined_file_delete"),
     delete_files |-> ReadStagedDeleteFiles(rows),
     dropped_files |-> StagedSet(rows, "dropped_file"),
     deleted_from |-> StagedSet(rows, "tables_deleted_from"),
     delete_attempted |-> StagedSet(rows, "tables_delete_attempted"),
     name_maps |-> ReadStagedNameMaps(rows),
     altered |-> {}]

----------------------------------------------------------------------------
(* The protocol.                                                           *)

NoChanges ==
    [data_files |-> << >>, compactions |-> << >>, inlined |-> << >>, inlined_deletes |-> {},
     file_deletes |-> {}, delete_files |-> << >>, dropped_files |-> {}, deleted_from |-> {},
     delete_attempted |-> {}, name_maps |-> << >>, altered |-> {}]

InitialRows(t) ==
    MapThenSumSet(LAMBDA id : InitialFiles[id].rows,
                  {id \in DOMAIN InitialFiles : InitialFiles[id].table = t})

InitialStats ==
    [t \in Tables |-> [record_count |-> InitialRows(t), next_row_id |-> InitialRows(t)]]

NoTransaction ==
    [phase |-> "idle", work |-> NoChanges, local |-> NoChanges, snap |-> 0, base |-> 0,
     attempt |-> 0, stats |-> InitialStats]

\* The files that the transaction names as its own; LocalTableChanges::CleanupFiles
\* removes them, except for data files that DuckLake did not create.
OwnFiles(w) ==
    UNION {
        {w.data_files[i].path : i \in {j \in DOMAIN w.data_files : w.data_files[j].created_by_ducklake}},
        UNION {ToSet(w.data_files[i].attached) : i \in DOMAIN w.data_files},
        {w.delete_files[i].path : i \in DOMAIN w.delete_files},
        UNION {ToSet(Map(w.compactions[i].outputs, LAMBDA f : f.path)) : i \in DOMAIN w.compactions}}

\* The files that a user wrote and some transaction may add to a table.
ExternalFiles ==
    UNION {{w.data_files[i].path : i \in {j \in DOMAIN w.data_files :
                                           ~w.data_files[j].created_by_ducklake}}
           : w \in Transactions}

Init ==
    /\ log = << [own |-> NoChanges, batch |-> CommitChanges(NoChanges, 0, InitialStats),
                 next_file_id |-> Max(DOMAIN InitialFiles) + 1] >>
    /\ txn = [c \in Clients |-> NoTransaction]
    /\ staged = [s \in Sessions |-> << >>]
    /\ disk = ExternalFiles
    /\ started = {}

\* The committed data files that a transaction deletes from, drops or compacts.
FilesOf(w) ==
    UNION {
        w.dropped_files,
        {d[2] : d \in w.file_deletes},
        {w.delete_files[i].data_file : i \in DOMAIN w.delete_files},
        UNION {ToSet(Map(w.compactions[i].sources, LAMBDA s : s.file)) : i \in DOMAIN w.compactions}}

\* The files that committed transactions dropped or compacted.
GoneFiles ==
    UNION {log[k].own.dropped_files \cup
           UNION {ToSet(Map(log[k].own.compactions[i].sources, LAMBDA s : s.file))
                  : i \in DOMAIN log[k].own.compactions}
           : k \in DOMAIN log}

\* A client runs the statements of a transaction on the newest snapshot: binding
\* a table reads it, so that the commit never finds a transaction without one.
Begin(c, w) ==
    /\ txn[c].phase = "idle"
    /\ Cardinality(started) < MaxTransactions
    /\ w \notin started
    /\ FilesOf(w) \cap GoneFiles = {}
    /\ txn' = [txn EXCEPT ![c] = [NoTransaction EXCEPT !.phase = "open", !.work = w,
                                                       !.snap = Len(log)]]
    /\ disk' = disk \cup OwnFiles(w)
    /\ started' = started \cup {w}
    /\ UNCHANGED <<log, staged>>

\* IsDataOnlyCommit and RequiresClientSideCommit.
RunsClientSide(w) == w.altered # {} \/ w.client_side

\* The metadata query lock: one batch at a time uses the session, from the first
\* staged row until ducklake_commit has answered.
SessionFree(c) ==
    ~\E d \in Clients :
        /\ SessionOf[d] = SessionOf[c]
        /\ txn[d].phase \in {"staged", "read", "executing", "backoff"}
        /\ ~RunsClientSide(txn[d].work)

EndTransaction(c) == txn' = [txn EXCEPT ![c] = NoTransaction]

\* (mutation) The tables are created if they are missing, and not truncated.
RestageWithoutTruncate(s, rows) == staged[s] \o rows

\* CreateAllSql and TruncateAllSql, then the INSERTs.
Restage(s, rows) == rows

\* FlushChangesServerSide sends the batch.
Stage(c) ==
    /\ txn[c].phase = "open"
    /\ ~RunsClientSide(txn[c].work)
    /\ SessionFree(c)
    /\ staged' = [staged EXCEPT ![SessionOf[c]] = Restage(SessionOf[c], Build(txn[c].work, txn[c].snap))]
    /\ txn' = [txn EXCEPT ![c].phase = "staged"]
    /\ UNCHANGED <<log, disk, started>>

\* A statement of the batch fails: the rows before it stay in the session, and the
\* transaction's files are nobody's to remove (a failed commit never reaches Rollback).
StageFails(c) ==
    /\ txn[c].phase = "open"
    /\ ~RunsClientSide(txn[c].work)
    /\ SessionFree(c)
    /\ LET batch == Build(txn[c].work, txn[c].snap) IN
       \E n \in {0, Len(batch)} :
           staged' = [staged EXCEPT ![SessionOf[c]] = Restage(SessionOf[c], SubSeq(batch, 1, n))]
    /\ EndTransaction(c)
    /\ UNCHANGED <<log, disk, started>>

\* ducklake_commit reads the header and rebuilds the local changes.
ReadStagedTables(c) ==
    /\ txn[c].phase = "staged"
    /\ txn' = [txn EXCEPT ![c].phase = "read",
                           ![c].local = ReadStaged(staged[SessionOf[c]]),
                           ![c].snap = ReadCommitHeader(staged[SessionOf[c]])]
    /\ UNCHANGED <<log, staged, disk, started>>

\* ReadExistingTableStats, outside of the transaction of the commit.
ReadExistingTableStats(c) ==
    /\ txn[c].phase = "read"
    /\ txn' = [txn EXCEPT ![c].phase = "executing", ![c].base = txn[c].snap,
                           ![c].stats = Last(log).batch.stats]
    /\ UNCHANGED <<log, staged, disk, started>>

\* RunCommitLoop on the client, with the statistics of its own snapshot.
CommitClientSide(c) ==
    /\ txn[c].phase = "open"
    /\ RunsClientSide(txn[c].work)
    /\ txn' = [txn EXCEPT ![c].phase = "executing", ![c].local = txn[c].work,
                           ![c].base = txn[c].snap,
                           ![c].stats = log[txn[c].snap].batch.stats]
    /\ UNCHANGED <<log, staged, disk, started>>

\* A statement of a client-side commit waits for the session too.
MayExecute(c) == RunsClientSide(txn[c].work) => SessionFree(c)

ExecuteCommitBatch(c) ==
    /\ txn[c].phase = "executing"
    /\ MayExecute(c)
    /\ Len(log) = txn[c].base
    /\ log' = Append(log, NewSnapshot(txn[c].local, txn[c].work, txn[c].base, txn[c].stats))
    /\ EndTransaction(c)
    /\ UNCHANGED <<staged, disk, started>>

CleanupFiles(c) == disk' = disk \ OwnFiles(txn[c].local)

\* (mutation) Every failed attempt removes the files.
RetryAfterCleanup(c) ==
    /\ CleanupFiles(c)
    /\ \/ /\ txn[c].attempt < MaxRetryCount
          /\ txn' = [txn EXCEPT ![c].phase = "backoff"]
       \/ /\ txn[c].attempt >= MaxRetryCount
          /\ EndTransaction(c)

RetryOrGiveUp(c) ==
    \/ /\ txn[c].attempt < MaxRetryCount
       /\ txn' = [txn EXCEPT ![c].phase = "backoff"]
       /\ UNCHANGED disk
    \/ /\ txn[c].attempt >= MaxRetryCount
       /\ CleanupFiles(c)
       /\ EndTransaction(c)

SnapshotIdTaken(c) ==
    /\ txn[c].phase = "executing"
    /\ MayExecute(c)
    /\ Len(log) # txn[c].base
    /\ RetryOrGiveUp(c)
    /\ UNCHANGED <<log, staged, started>>

\* The data files that a commit deletes from with delete files, or drops.
DeletedFiles(w) ==
    w.dropped_files \cup {w.delete_files[i].data_file : i \in DOMAIN w.delete_files}

Conflict(c) ==
    \E k \in txn[c].snap + 1 .. Len(log) :
        \/ ConflictCheck(Changes(txn[c].local), log[k].batch.changes)
        \/ /\ DeletesMayMatch(Changes(txn[c].local), log[k].batch.changes)
           /\ DeletedFiles(txn[c].local) \cap DeletedFiles(log[k].own) # {}

\* The next attempt: look for conflicts, and read the newest snapshot and statistics
\* in the same query.
CheckForConflicts(c) ==
    /\ txn[c].phase = "backoff"
    /\ MayExecute(c)
    /\ ~Conflict(c)
    /\ txn' = [txn EXCEPT ![c].phase = "executing", ![c].attempt = @ + 1,
                           ![c].base = Len(log), ![c].stats = Last(log).batch.stats]
    /\ UNCHANGED <<log, staged, disk, started>>

\* A conflict is final: the loop removes the files and the client gets the error.
ConflictFound(c) ==
    /\ txn[c].phase = "backoff"
    /\ MayExecute(c)
    /\ Conflict(c)
    /\ CleanupFiles(c)
    /\ EndTransaction(c)
    /\ UNCHANGED <<log, staged, started>>

Next ==
    \E c \in Clients :
        \/ \E w \in Transactions : Begin(c, w)
        \/ Stage(c)
        \/ StageFails(c)
        \/ ReadStagedTables(c)
        \/ ReadExistingTableStats(c)
        \/ CommitClientSide(c)
        \/ ExecuteCommitBatch(c)
        \/ SnapshotIdTaken(c)
        \/ CheckForConflicts(c)
        \/ ConflictFound(c)

Spec == Init /\ [][Next]_vars

----------------------------------------------------------------------------
(* Properties.                                                             *)

\* Whatever the session held from earlier batches, and whichever attempt got
\* through, the newest snapshot holds what the client's own commit loop would have written
\* for that transaction on top of the snapshot before it: the same files with the
\* same statistics, deletions and maps, row ids that continue those of the
\* snapshot before, and the same record of changes for later conflict checks.
ServerCommitsTheTransaction ==
    Len(log) > 1 =>
        LET k == Len(log) IN
        log[k].batch = CommitChanges(log[k].own, log[k - 1].next_file_id, log[k - 1].batch.stats)

\* A commit loop that fails removes files on its own; none of them is registered
\* by a snapshot.
RegisteredFilesExist ==
    \A k \in DOMAIN log :
        ToSet(Map(log[k].batch.data_files, LAMBDA f : f.path)) \cup OwnFiles(log[k].own) \subseteq disk

\* A file that DuckLake did not create is never removed because the transaction
\* that adds it fails.
ExternalFilesKept == ExternalFiles \subseteq disk
============================================================================
