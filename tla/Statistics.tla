---------------------------- MODULE Statistics ----------------------------
(***************************************************************************)
(* The global statistics of a table: ducklake_table_stats and              *)
(* ducklake_table_column_stats.                                            *)
(*                                                                         *)
(* They are one row per table and per column, not versioned.  Every commit *)
(* that inserts merges the statistics of its files into them, a commit     *)
(* that drops files subtracts, and a rewrite of deletes computes them      *)
(* anew.  A process caches them by next_file_id.  Readers prune with the   *)
(* bounds, and answer MIN and MAX from them when record_count is the       *)
(* number of live rows.  One table with one column is modelled.            *)
(***************************************************************************)
EXTENDS ConflictRules, Integers, SequencesExt, FiniteSetsExt, TLC

CONSTANTS
    Clients,
    ProcessOf,      \* the process of each client
    Values,         \* the values that are inserted, Null may be one of them
    Null,
    Bounded,        \* whether the files that are inserted have bounds: a set of Booleans
    None,           \* no bound, no row, nothing cached
    MaxRows,        \* bound on the rows of an INSERT
    MaxRowId,       \* bound on the rows ever inserted
    MaxSnapshot,    \* bound on the snapshots
    MaxStatements,  \* bound on the statements of a transaction
    UncountedRows,  \* whether rows that are not counted may be flushed: see CountsRows
    EmptyRewrites   \* whether files without live rows may be rewritten: see Rewrite

ASSUME StatisticsAssumption ==
    /\ Values \ {Null} \subseteq Int /\ IsFiniteSet(Values)
    /\ DOMAIN ProcessOf = Clients
    /\ Bounded \subseteq BOOLEAN
    /\ \E table \in Tables : Tables = {table}
    /\ UncountedRows \in BOOLEAN /\ EmptyRewrites \in BOOLEAN

VARIABLES
    db,     \* the metadata database
    txn,    \* the transaction of each client
    cache   \* cache[p][n]: the statistics that process p has cached under next_file_id = n

statisticsVars == <<db, txn, cache>>

NoTransaction ==
    [open |-> FALSE, view |-> None, statements |-> 0,
     others |-> {},             \* the changes of the snapshots since it began
     new_files |-> <<>>,        \* [values, bounded]
     new_inlined |-> <<>>,      \* new_inlined_data: values
     delete_files |-> {},       \* [file, rids]
     file_deletes |-> {},       \* new_inlined_file_deletes: [file, rids]
     inlined_deletes |-> {},    \* row ids
     dropped_files |-> {},
     rewrites |-> {},           \* the data files that are rewritten
     flush |-> {}]              \* the inlined rows that are flushed

StatisticsInit ==
    /\ db = [snapshot |-> 1, next_file_id |-> 1,
             data_file |-> {},  \* [id, rows, deleted, inlined_deleted, bounded]
             inlined |-> {},    \* [rid, val, live]
             stats |-> None]
    /\ txn = [c \in Clients |-> NoTransaction]
    /\ cache = [p \in Range(ProcessOf) |-> [n \in {} |-> None]]

----------------------------------------------------------------------------
(* The table.                                                              *)

Rid(rows) == {r.rid : r \in rows}

LiveIn(f) == {r \in f.rows : r.rid \notin f.deleted \cup f.inlined_deleted}

LiveInlined(view) == {r \in view.inlined : r.live}

LiveValues(view) ==
    {r.val : r \in (UNION {LiveIn(f) : f \in view.data_file}) \cup LiveInlined(view)}

RowCount(f) == Cardinality(f.rows)

\* (mutation) Only delete files are subtracted.
NetOfDeleteFiles(view) ==
    MapThenSumSet(LAMBDA f : RowCount(f) - Cardinality(f.deleted), view.data_file)

\* GetNetDataFileRowCountSql: the deletions of delete files and the inlined ones
\* are subtracted one after the other.
NetDataFileRowCount(view) ==
    MapThenSumSet(LAMBDA f : RowCount(f) - Cardinality(f.deleted) - Cardinality(f.inlined_deleted),
                  view.data_file)

NetInlinedRowCount(view) == Cardinality(LiveInlined(view))

----------------------------------------------------------------------------
(* Column statistics.                                                      *)

\* The statistics that a writer returns with a file.  A file may have no bounds
\* (a type without them, a NaN, skip_stats_columns).  any_valid stands for
\* AnyValid(): some value is not NULL.
FileStats(values, bounded) ==
    LET valid == values \ {Null} IN
    [nulls |-> IF Null \in values THEN "yes" ELSE "no",
     min |-> IF bounded /\ valid # {} THEN Min(valid) ELSE None,
     max |-> IF bounded /\ valid # {} THEN Max(valid) ELSE None,
     any_valid |-> valid # {}, bounds_unknown |-> FALSE]

StatsOf(f) == FileStats({r.val : r \in f.rows}, f.bounded)

\* A DuckLakeColumnStats that nothing has been merged into.
EmptyStats(any_valid) ==
    [nulls |-> "unknown", min |-> None, max |-> None,
     any_valid |-> any_valid, bounds_unknown |-> FALSE]

MergeNulls(a, b) ==
    IF "unknown" \in {a, b} THEN "unknown" ELSE IF "yes" \in {a, b} THEN "yes" ELSE "no"

\* A side without the bound takes it away from the other.
MergeBound(a, b, Pick(_)) == IF None \in {a, b} THEN None ELSE Pick({a, b})

\* DuckLakeColumnStats::MergeStats
MergeStats(a, b) ==
    LET merged == [a EXCEPT !.nulls = MergeNulls(a.nulls, b.nulls)] IN
    IF ~b.any_valid \/ (~a.any_valid /\ a.bounds_unknown) THEN merged
    ELSE IF ~a.any_valid
    THEN [merged EXCEPT !.min = b.min, !.max = b.max, !.any_valid = TRUE]
    ELSE [merged EXCEPT !.min = MergeBound(a.min, b.min, Min), !.max = MergeBound(a.max, b.max, Max)]

\* The same over any number of files; their order does not matter.
MergeAll(a, stats) ==
    FoldSet(LAMBDA b, merged : IF merged = None THEN b ELSE MergeStats(merged, b), a, stats)

----------------------------------------------------------------------------
(* Table statistics.                                                       *)

\* ConstructStatsMap, FromGlobalStats: a column that has no bounds although the
\* table has rows has lost them, and must not get them from a later file.
FromGlobalStats(column, table_has_rows) ==
    LET valid == column.min # None \/ column.max # None IN
    [nulls |-> column.nulls, min |-> column.min, max |-> column.max,
     any_valid |-> valid, bounds_unknown |-> ~valid /\ table_has_rows]

LoadStats(stats) ==
    IF stats = None THEN None
    ELSE [stats EXCEPT !.column =
            IF @ = None THEN None ELSE FromGlobalStats(@, stats.record_count > 0)]

\* The cache of a process after it asked for the statistics of a snapshot.
LookUp(cached, view) ==
    [n \in DOMAIN cached \cup {view.next_file_id} |->
        IF n \in DOMAIN cached THEN cached[n] ELSE view.stats]

\* DuckLakeCatalog::GetTableStats
GetTableStats(c, view) == LoadStats(LookUp(cache[ProcessOf[c]], view)[view.next_file_id])

Cached(c, view) == [cache EXCEPT ![ProcessOf[c]] = LookUp(@, view)]

ConvertNewGlobalStats(column) == [nulls |-> column.nulls, min |-> column.min, max |-> column.max]

\* UpdateGlobalTableStatsSql: a row that does not exist is only inserted with the
\* statistics of the table.
UpdateGlobalTableStats(old, initialized, new) ==
    [new EXCEPT !.column =
        IF initialized /\ old.column = None THEN None
        ELSE IF @ = None THEN (IF initialized THEN old.column ELSE None)
        ELSE ConvertNewGlobalStats(@)]

NoRows == [record_count |-> 0, next_row_id |-> 0, column |-> None]

\* What the planner learns of a column: nothing is said of NULLs that may not be.
ToStats(column) == [min |-> column.min, max |-> column.max, has_null |-> column.nulls # "no"]

\* DuckLakeTableEntry::GetStatistics
GetStatistics(stats) == IF stats = None \/ stats.column = None THEN None ELSE ToStats(stats.column)

\* DuckLakeGetPartitionStats: record_count is the number of live rows.
MinMaxIsExact(stats, view) ==
    stats # None /\ stats.record_count = NetDataFileRowCount(view) + NetInlinedRowCount(view)

----------------------------------------------------------------------------
(* Statements.                                                             *)

Begin(c) ==
    /\ ~txn[c].open
    /\ txn' = [txn EXCEPT ![c] = [NoTransaction EXCEPT !.open = TRUE, !.view = db]]
    /\ UNCHANGED <<db, cache>>

\* GetTransactionChanges, AddTableChanges
Changes(t) ==
    LET kinds == {k \in RecordedKinds :
            \/ k = "inserted_into_table" /\ t.new_files # <<>>
            \/ k = "inlined_insert" /\ t.new_inlined # <<>>
            \/ k = "deleted_from_table" /\ (t.delete_files # {} \/ t.dropped_files # {})
            \/ k = "inlined_delete" /\ (t.file_deletes # {} \/ t.inlined_deletes # {})
            \/ k = "rewrite_delete" /\ t.rewrites # {}
            \/ k = "inline_flush" /\ t.flush # {}}
    IN  kinds \X Tables

\* Bounds: a transaction may do more only if its snapshot will fit.
RoomFor(c) ==
    /\ txn[c].open
    /\ txn[c].statements < MaxStatements
    /\ db.snapshot + Cardinality({d \in Clients \ {c} : Changes(txn[d]) # {}}) < MaxSnapshot

Statement(c, t) ==
    /\ txn' = [txn EXCEPT ![c] = [t EXCEPT !.statements = @ + 1]]
    /\ UNCHANGED db

\* The planner asks for the statistics; a transaction with local inserts goes without.
Read(c) ==
    /\ RoomFor(c)
    /\ txn[c].new_files = <<>> /\ txn[c].new_inlined = <<>>
    /\ cache' = Cached(c, txn[c].view)
    /\ cache' # cache
    /\ Statement(c, txn[c])

\* The rows that have been inserted, committed or not.
Inserted ==
    (IF db.stats = None THEN 0 ELSE db.stats.next_row_id) +
    MapThenSumSet(LAMBDA c : Len(txn[c].new_inlined) +
                             MapThenSumSet(LAMBDA i : Len(txn[c].new_files[i].values), DOMAIN txn[c].new_files),
                  Clients)

NewValues == {SetToSeq(v) : v \in {w \in SUBSET Values : Cardinality(w) \in 1..MaxRows}}

Insert(c) ==
    /\ RoomFor(c)
    /\ \E v \in NewValues :
         /\ Inserted + Len(v) <= MaxRowId
         /\ \/ \E bounded \in Bounded :
                 Statement(c, [txn[c] EXCEPT !.new_files = Append(@, [values |-> v, bounded |-> bounded])])
            \/ Statement(c, [txn[c] EXCEPT !.new_inlined = @ \o v])
    /\ UNCHANGED cache

DeleteInlined(c) ==
    /\ RoomFor(c)
    /\ txn[c].flush = {}
    /\ \E r \in LiveInlined(txn[c].view) :
         /\ r.rid \notin txn[c].inlined_deletes
         /\ Statement(c, [txn[c] EXCEPT !.inlined_deletes = @ \cup {r.rid}])
    /\ UNCHANGED cache

\* DuckLakeDelete::FlushDelete for one file: a file that loses its last rows is
\* dropped, unless it has deletions already and the new ones are inlined.
DeleteFromFile(c) ==
    /\ RoomFor(c)
    /\ \E f \in txn[c].view.data_file, inlined \in BOOLEAN :
         /\ f.id \notin txn[c].dropped_files
         /\ \A d \in txn[c].delete_files \cup txn[c].file_deletes : d.file # f.id
         /\ \E rids \in SUBSET Rid(LiveIn(f)) :
              LET all == LiveIn(f) = {r \in f.rows : r.rid \in rids}
                  whole == f.deleted = {} /\ f.inlined_deleted = {}
                  d == [file |-> f.id, rids |-> rids]
              IN  /\ rids # {}
                  /\ IF all /\ (whole \/ ~inlined)
                     THEN Statement(c, [txn[c] EXCEPT !.dropped_files = @ \cup {f.id}])
                     ELSE IF inlined
                     THEN Statement(c, [txn[c] EXCEPT !.file_deletes = @ \cup {d}])
                     ELSE Statement(c, [txn[c] EXCEPT !.delete_files = @ \cup {d}])
    /\ UNCHANGED cache

\* ducklake_rewrite_data_files.  A file that has no live rows is rewritten to none,
\* which takes no file id, and readers of the snapshots before would find the new
\* statistics in the cache of their process; only with EmptyRewrites.
Rewrite(c) ==
    /\ RoomFor(c)
    /\ \E f \in txn[c].view.data_file :
         /\ f.deleted \cup f.inlined_deleted # {}
         /\ f.id \notin txn[c].rewrites
         /\ EmptyRewrites \/ LiveIn(f) # {}
         /\ Statement(c, [txn[c] EXCEPT !.rewrites = @ \cup {f.id}])
    /\ UNCHANGED cache

\* ducklake_flush_inlined_data: all rows are written, the dead ones too.
Flush(c) ==
    /\ RoomFor(c)
    /\ txn[c].flush = {} /\ txn[c].inlined_deletes = {}
    /\ txn[c].view.inlined # {}
    /\ Statement(c, [txn[c] EXCEPT !.flush = txn[c].view.inlined])
    /\ UNCHANGED cache

----------------------------------------------------------------------------
(* Commit.                                                                 *)

FilesById(view, ids) == {f \in view.data_file : f.id \in ids}

FilesDeletedFrom(t) ==
    {f.id : f \in {g \in t.view.data_file :
        g.id \in t.dropped_files \/ \E d \in t.delete_files : d.file = g.id}}

\* CheckForConflicts, GetFilesDeletedOrDroppedAfterSnapshot
Conflicts(t) ==
    \E other \in t.others :
        \/ ConflictCheck(Changes(t), other.changes)
        \/ /\ DeletesMayMatch(Changes(t), other.changes)
           /\ FilesDeletedFrom(t) \cap other.files # {}

\* (mutation) The snapshot of the transaction is kept for the retries.
SnapshotOfTransaction(t) == t.view

\* prepare_retry resets the snapshot: every attempt reads the metadata as they are.
SnapshotOfAttempt(t) == db

\* The first attempt takes the statistics from the cache, a retry those that were
\* read with the changes of the other transactions.
CurrentStats(c, t) ==
    IF t.view.snapshot = db.snapshot THEN GetTableStats(c, SnapshotOfAttempt(t)) ELSE LoadStats(db.stats)

DroppedRowCount(t) == MapThenSumSet(RowCount, FilesById(t.view, t.dropped_files))

LiveRowsRemain(t, stats) == t.dropped_files # {} /\ stats.record_count > DroppedRowCount(t)

\* ApplyDroppedFileStats
ApplyDroppedFileStats(t, stats) ==
    IF t.dropped_files = {} THEN stats
    ELSE [stats EXCEPT !.record_count = @ - DroppedRowCount(t),
                       !.column = IF @ = None \/ LiveRowsRemain(t, stats) THEN @ ELSE EmptyStats(FALSE)]

\* The rows in the first i new files.
RowsUpTo(files) ==
    LET upTo[i \in 0..Len(files)] == IF i = 0 THEN 0 ELSE upTo[i - 1] + Len(files[i].values)
    IN  upTo

NewFileRows(t) == RowsUpTo(t.new_files)[Len(t.new_files)]

\* MergeFileStats and the merge of inlined data.  A flushed file holds rows that
\* were counted when they were inlined.
MergeNewData(t, stats) ==
    LET files == {FileStats(ToSet(t.new_files[i].values), t.new_files[i].bounded) : i \in DOMAIN t.new_files}
        flushed == IF t.flush = {} THEN {} ELSE {FileStats({r.val : r \in t.flush}, TRUE)}
        inlined == IF t.new_inlined = <<>> THEN {} ELSE {FileStats(ToSet(t.new_inlined), TRUE)}
        rows == NewFileRows(t) + Len(t.new_inlined)
    IN  [record_count |-> stats.record_count + rows,
         next_row_id |-> stats.next_row_id + rows,
         column |-> MergeAll(stats.column, files \cup flushed \cup inlined)]

ChangesStats(t) == t.new_files # <<>> \/ t.new_inlined # <<>> \/ t.flush # {} \/ t.dropped_files # {}

\* GetNewDataFiles, UpdateStatsForDroppedFiles: the column statistics are deleted
\* when files were dropped and rows remain.
StatsAfterChanges(c, t) ==
    LET current == CurrentStats(c, t)
        stats == IF current = None THEN NoRows ELSE current
        new == UpdateGlobalTableStats(db.stats, current # None,
                                      MergeNewData(t, ApplyDroppedFileStats(t, stats)))
    IN  IF ~ChangesStats(t) THEN db.stats
        ELSE IF LiveRowsRemain(t, stats) THEN [new EXCEPT !.column = None]
        ELSE new

\* The files that are rewritten and have rows left.
RewrittenFiles(t) == {f \in FilesById(t.view, t.rewrites) : LiveIn(f) # {}}

\* The files that the rewrites make of them, numbered in their order.
Rewritten(t, id) ==
    {[id |-> id + Cardinality({g \in RewrittenFiles(t) : g.id < f.id}), rows |-> LiveIn(f),
      deleted |-> {}, inlined_deleted |-> {}, bounded |-> f.bounded] : f \in RewrittenFiles(t)}

\* (mutation) The rows are numbered anew.
RowIdRecomputed(current, count) == count

\* next_row_id is carried forward, never recomputed.
RowIdAfterRewrite(current, count) == current.next_row_id

\* TryMergeInlinedStats: the aggregates of the live inlined rows.
InlinedStats(view) ==
    IF LiveInlined(view) = {} THEN {} ELSE {FileStats({r.val : r \in LiveInlined(view)}, TRUE)}

\* RecomputeGlobalStatsAfterRewrite: only if no deletion is left in the files.
RecomputeGlobalStats(c, t) ==
    LET view == SnapshotOfAttempt(t)
        current == GetTableStats(c, view)
        files == {f \in view.data_file : f.id \notin t.rewrites} \cup Rewritten(t, view.next_file_id)
        gross == MapThenSumSet(RowCount, files)
        column == MergeAll(None, {StatsOf(f) : f \in files} \cup InlinedStats(view))
    IN  IF current = None \/ gross # NetDataFileRowCount(view) THEN db.stats
        ELSE UpdateGlobalTableStats(db.stats, TRUE,
                [record_count |-> gross + NetInlinedRowCount(view),
                 next_row_id |-> RowIdAfterRewrite(current, gross + NetInlinedRowCount(view)),
                 column |-> IF column = None THEN EmptyStats(TRUE) ELSE column])

NewRows(values, start) == {[rid |-> start + i, val |-> values[i]] : i \in DOMAIN values}

\* GetNewDataFile: the rows are numbered from next_row_id, file by file.
NewDataFiles(t, id, start) ==
    {[id |-> id + i - 1,
      rows |-> NewRows(t.new_files[i].values, start + RowsUpTo(t.new_files)[i - 1]),
      deleted |-> {}, inlined_deleted |-> {}, bounded |-> t.new_files[i].bounded] : i \in DOMAIN t.new_files}

FlushedFile(t, id) ==
    IF t.flush = {} THEN {}
    ELSE {[id |-> id, rows |-> {[rid |-> r.rid, val |-> r.val] : r \in t.flush},
           deleted |-> Rid({r \in t.flush : ~r.live}), inlined_deleted |-> {}, bounded |-> TRUE]}

\* WriteNewDeleteFiles, WriteNewInlinedFileDeletes
WithDeletes(f, t) ==
    LET rids(deletes) == UNION {d.rids : d \in {e \in deletes : e.file = f.id}} IN
    [f EXCEPT !.deleted = @ \cup rids(t.delete_files), !.inlined_deleted = @ \cup rids(t.file_deletes)]

\* The file ids of flushed and of rewritten files.
IdsOfMovedRows(t) == (IF t.flush = {} THEN 0 ELSE 1) + Cardinality(RewrittenFiles(t))

\* Inlined rows alone take one as well, so that the statistics cached before are not used.
FileIdsTaken(t) ==
    Cardinality(t.delete_files) + Len(t.new_files) + IdsOfMovedRows(t) +
    (IF t.new_inlined # <<>> /\ t.new_files = <<>> THEN 1 ELSE 0)

KeptFiles(view, t) ==
    {WithDeletes(f, t) : f \in {g \in view.data_file : g.id \notin t.dropped_files \cup t.rewrites}}

KeptInlined(view, t) ==
    {[r EXCEPT !.live = @ /\ r.rid \notin t.inlined_deletes] :
        r \in {q \in view.inlined : q.rid \notin Rid(t.flush)}}

NewInlined(t, start) ==
    {[rid |-> r.rid, val |-> r.val, live |-> TRUE] : r \in NewRows(t.new_inlined, start)}

CommitTo(c, t) ==
    LET id == db.next_file_id
        start == IF CurrentStats(c, t) = None THEN 0 ELSE CurrentStats(c, t).next_row_id
    IN  [snapshot |-> db.snapshot + 1,
         next_file_id |-> id + FileIdsTaken(t),
         data_file |-> UNION {KeptFiles(db, t), FlushedFile(t, id), Rewritten(t, id),
                              NewDataFiles(t, id + IdsOfMovedRows(t), start)},
         inlined |-> KeptInlined(db, t) \cup NewInlined(t, start + NewFileRows(t)),
         stats |-> IF t.rewrites # {} THEN RecomputeGlobalStats(c, t) ELSE StatsAfterChanges(c, t)]

AllRows(view) == MapThenSumSet(RowCount, view.data_file) + Cardinality(view.inlined)

\* record_count counts the dead rows too, but a recompute leaves out the inlined
\* rows that are dead, and a flush writes them to a file.  Unless UncountedRows,
\* flushes are limited to tables whose rows are counted.
CountsRows(c, t) ==
    (~UncountedRows /\ t.flush # {}) => AllRows(db) <= CurrentStats(c, t).record_count

\* SubtractDroppedFileStat throws if the count would become negative.
DroppedRowsCounted(c, t) ==
    t.dropped_files # {} => DroppedRowCount(t) <= CurrentStats(c, t).record_count

\* What the snapshot tells the transactions that have to retry.
Published(t) == [changes |-> WriteSnapshotChanges(Changes(t)), files |-> FilesDeletedFrom(t)]

\* The first attempt looks up the statistics that the transaction would read, and
\* each attempt of a rewrite those of its snapshot.
LookedUp(cached, t) ==
    LET first == IF ChangesStats(t) \/ t.rewrites # {} THEN LookUp(cached, t.view) ELSE cached
    IN  IF t.rewrites = {} THEN first ELSE LookUp(first, SnapshotOfAttempt(t))

\* A commit that drops files forgets the statistics that its process had cached.
Forget(cached, t, id) ==
    IF t.dropped_files = {} THEN cached ELSE [n \in DOMAIN cached \ {id} |-> cached[n]]

\* The commit loop, all attempts together.
Commit(c) ==
    LET t == txn[c] IN
    /\ t.open
    /\ Changes(t) # {}
    /\ ~MixesCompaction(Changes(t))
    /\ ~Conflicts(t)
    /\ CountsRows(c, t)
    /\ DroppedRowsCounted(c, t)
    /\ db' = CommitTo(c, t)
    /\ cache' = [cache EXCEPT ![ProcessOf[c]] = Forget(LookedUp(@, t), t, db'.next_file_id)]
    /\ txn' = [d \in Clients |->
                 IF d = c THEN NoTransaction
                 ELSE IF txn[d].open THEN [txn[d] EXCEPT !.others = @ \cup {Published(t)}]
                 ELSE txn[d]]

\* A conflict, a commit that is refused after an attempt, ROLLBACK, or COMMIT without changes.
End(c) ==
    /\ txn[c].open
    /\ txn' = [txn EXCEPT ![c] = NoTransaction]
    /\ \/ UNCHANGED cache
       \/ /\ ChangesStats(txn[c]) \/ txn[c].rewrites # {}
          /\ cache' = Cached(c, txn[c].view)
    /\ UNCHANGED db

StatisticsNext ==
    \E c \in Clients :
        \/ Begin(c) \/ Read(c) \/ Insert(c) \/ DeleteInlined(c) \/ DeleteFromFile(c)
        \/ Rewrite(c) \/ Flush(c) \/ Commit(c) \/ End(c)

StatisticsSpec == StatisticsInit /\ [][StatisticsNext]_statisticsVars

----------------------------------------------------------------------------
(* Properties.                                                             *)

\* CanUseGlobalStats: what the scans of a client may be planned for, a transaction
\* that it begins now and the open one while it has no local changes.
Views(c) ==
    {db} \cup {t.view : t \in {u \in {txn[c]} : u.open /\ Changes(u) = {}}}

\* The statistics that any process uses to plan a scan, cached or not, cover the
\* rows of the snapshot it reads: no live value lies outside of the bounds, and
\* none is NULL if the column is said to have no NULLs.
StatsCoverLiveRows ==
    \A c \in Clients : \A view \in Views(c) :
        LET column == GetStatistics(GetTableStats(c, view)) IN
        column # None =>
            /\ Null \in LiveValues(view) => column.has_null
            /\ \A v \in LiveValues(view) \ {Null} :
                 /\ column.min # None => column.min <= v
                 /\ column.max # None => column.max >= v

\* When DuckLakeGetPartitionStats lets MIN and MAX be answered from the statistics,
\* they are the minimum and the maximum of the live rows.
MinMaxAreExact ==
    \A c \in Clients : \A view \in Views(c) :
        LET stats == GetTableStats(c, view)
            column == GetStatistics(stats)
            valid == LiveValues(view) \ {Null}
        IN  (column # None /\ MinMaxIsExact(stats, view)) =>
                /\ column.min # None => valid # {} /\ column.min = Min(valid)
                /\ column.max # None => valid # {} /\ column.max = Max(valid)

\* No row id is given twice: rows are numbered from next_row_id, which a stale
\* read of the statistics must not take back.
RowIdsAreFresh ==
    /\ \A rows \in {f.rows : f \in db.data_file} \cup {db.inlined} :
         /\ \A r \in rows : r.rid <= db.stats.next_row_id
         /\ \A r, q \in rows : r.rid = q.rid => r = q
    /\ \A f \in db.data_file :
         /\ Rid(f.rows) \cap Rid(db.inlined) = {}
         /\ \A g \in db.data_file : f # g => Rid(f.rows) \cap Rid(g.rows) = {}
============================================================================
