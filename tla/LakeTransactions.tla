------------------------- MODULE LakeTransactions --------------------------
(***************************************************************************)
(* What DuckLake transactions do to the contents of tables.                *)
(*                                                                         *)
(* The commit protocol is SnapshotCommit; this module adds the metadata    *)
(* tables that describe data files and the deletions from them, and the    *)
(* uncommitted changes of each transaction.  Every action below is an      *)
(* action of SnapshotCommit together with its effect on these.             *)
(*                                                                         *)
(* A row is identified by the file it was first written to and its place   *)
(* there; files hold sets of rows, delete files sets of deleted rows.      *)
(***************************************************************************)
EXTENDS SnapshotCommit, SequencesExt

CONSTANTS
    Positions,     \* the places of the rows in the file that an INSERT writes
    MaxChanges,    \* bound on the changes that a transaction collects
    Workload,      \* the kinds of statements that clients issue
    NoTable        \* the contents of a table that does not exist

StatementKinds ==
    {"insert", "delete", "delete_local", "delete_more", "delete_again", "inline_delete",
     "delete_nothing", "merge", "rewrite", "compact_again", "alter", "drop_table"}

ASSUME PathsOrdered == Paths \subseteq Nat
ASSUME PositionsFinite == IsFiniteSet(Positions) /\ Positions # {}
\* What SnapshotCommit lets a transaction do includes every statement below.
ASSUME AllChangeSets == ChangeSets = ChangeInfo
ASSUME WorkloadType == Workload \subseteq StatementKinds
\* A missing table is told apart from any set of rows.
ASSUME NoTableIsNoContents == \A rows \in SUBSET (Paths \X Positions) : rows # NoTable

VARIABLES
    versions,   \* versions[k]: the file metadata as the commit of snapshot k left it
    local       \* the uncommitted changes of each transaction (LocalTableChanges)

lakeVars == <<commitVars, versions, local>>

Null == 0   \* SQL NULL in the columns end_snapshot, begin_snapshot, partial_max

NoMetadata ==
    [data_file |-> {},       \* ducklake_data_file
     delete_file |-> {},     \* ducklake_delete_file
     inlined_delete |-> {},  \* ducklake_inlined_delete_<table>
     table_end |-> [t \in Tables |-> Null],   \* ducklake_table.end_snapshot
     scheduled |-> {}]       \* ducklake_files_scheduled_for_deletion

NoLocalChanges ==
    [new_data_files |-> {}, new_delete_files |-> {}, dropped_files |-> {},
     inlined_file_deletes |-> {}, compactions |-> {},
     altered_tables |-> {}, dropped_tables |-> {}, delete_attempted |-> {}]

LakeInit ==
    /\ CommitInit
    /\ versions = <<NoMetadata>>
    /\ local = [c \in Clients |-> NoLocalChanges]

----------------------------------------------------------------------------
(* Reading: which rows a table has at snapshot s according to metadata m.  *)

Visible(x, s) == x.begin <= s /\ (x.end = Null \/ s < x.end)

\* GenerateFileListQuery: the files of the table at the snapshot, each joined
\* with the delete files that it has there.
FileList(m, t, s) ==
    UNION {LET deletes == {d \in m.delete_file : d.file = f.id /\ Visible(d, s)} IN
           IF deletes = {} THEN {[file |-> f, delete |-> {}]}
           ELSE {[file |-> f, delete |-> {d}] : d \in deletes} :
           f \in {g \in m.data_file : g.table = t /\ Visible(g, s)}}

\* The rows of a file at the snapshot: a file with partial_max holds rows of
\* several snapshots and is filtered by the snapshot stored with each row.
RowsAt(f, s) == {r.row : r \in {q \in f.rows : f.partial_max > s => q.snap <= s}}

\* DuckLakeDeleteData::Filter: a position that carries a snapshot counts from
\* that snapshot on.
DeletedAt(positions, s) == {p.row : p \in {q \in positions : q.snap <= s}}

\* ReadInlinedFileDeletions
InlinedAt(m, f, s) == {x.row : x \in {y \in m.inlined_delete : y.file = f.id /\ y.begin <= s}}

EntryRows(m, e, s) ==
    (RowsAt(e.file, s) \ UNION {DeletedAt(d.positions, s) : d \in e.delete})
        \ InlinedAt(m, e.file, s)

TableExists(m, t, s) == m.table_end[t] = Null \/ s < m.table_end[t]

\* What SELECT ... FROM t AT (VERSION => s) returns.
Contents(m, t, s) ==
    IF TableExists(m, t, s) THEN UNION {EntryRows(m, e, s) : e \in FileList(m, t, s)} ELSE NoTable

----------------------------------------------------------------------------
(* Reading inside a transaction: its snapshot with its own changes on top. *)

\* The metadata as the transaction's connection to the metadata database sees it.
View(c) == versions[txn[c].snap]

CommittedDelete(c, f) == {d \in View(c).delete_file : d.file = f.id /\ Visible(d, txn[c].snap)}

LocalDelete(c, f) == {d \in local[c].new_delete_files : d.file = f.id}

LocalInlined(c, f) == {x.row : x \in {y \in local[c].inlined_file_deletes : y.file = f.id}}

\* The committed files that the transaction still reads from.
ReadableFiles(c, t) ==
    {f \in View(c).data_file :
        /\ f.table = t
        /\ Visible(f, txn[c].snap)
        /\ [file |-> f.id, table |-> t] \notin local[c].dropped_files}

\* A local delete file replaces the committed one, and is not filtered by snapshot.
ReadableRows(c, f) ==
    LET s == txn[c].snap
        deleted == IF LocalDelete(c, f) # {}
                   THEN {p.row : p \in UNION {d.positions : d \in LocalDelete(c, f)}}
                   ELSE UNION {DeletedAt(d.positions, s) : d \in CommittedDelete(c, f)}
    IN  ((RowsAt(f, s) \ deleted) \ InlinedAt(View(c), f, s)) \ LocalInlined(c, f)

TableReadable(c, t) ==
    TableExists(View(c), t, txn[c].snap) /\ t \notin local[c].dropped_tables

TransactionContents(c, t) ==
    IF TableReadable(c, t)
    THEN (UNION {ReadableRows(c, f) : f \in ReadableFiles(c, t)}) \cup
         (UNION {n.rows \ n.deleted : n \in {m \in local[c].new_data_files : m.table = t}})
    ELSE NoTable

----------------------------------------------------------------------------
(* Statements.                                                             *)

\* GetTransactionChanges and AddTableChanges
TransactionChanges(l) ==
    LET TablesOf(S) == {x.table : x \in S} IN
    UNION {Changed("inserted_into_table", TablesOf(l.new_data_files)),
           Changed("deleted_from_table", TablesOf(l.new_delete_files) \cup TablesOf(l.dropped_files)),
           Changed("inlined_delete", TablesOf(l.inlined_file_deletes)),
           Changed("merge_adjacent", TablesOf({x \in l.compactions : x.type = "merge"})),
           Changed("rewrite_delete", TablesOf({x \in l.compactions : x.type = "rewrite"})),
           Changed("altered_table", l.altered_tables),
           Changed("dropped_table", l.dropped_tables),
           Changed("delete_attempted", l.delete_attempted)}

\* How many changes there are, for the bound MaxChanges.
ChangeCount(l) ==
    Cardinality(l.new_data_files) + Cardinality(l.new_delete_files) + Cardinality(l.dropped_files)
    + Cardinality(l.inlined_file_deletes) + Cardinality(l.compactions)
    + Cardinality(l.altered_tables) + Cardinality(l.dropped_tables)

\* A statement on table t leaves client c with the local changes l.
Statement(c, t, l, new, gone) ==
    /\ RoomFor(c)
    /\ ChangeCount(l) <= MaxChanges
    /\ TableReadable(c, t)
    /\ Work(c, TransactionChanges(l), new, gone)
    /\ local' = [local EXCEPT ![c] = l]
    /\ UNCHANGED versions

\* Names are drawn at random by the code: any that was never used will do.
FreshPaths == Paths \ (KnownFiles \cup Last(versions).scheduled)

FreshPath == CHOOSE p \in FreshPaths : TRUE

CanWriteFile == FreshPaths # {}

\* AppendFiles
Insert(c, t) ==
    /\ "insert" \in Workload
    /\ CanWriteFile
    /\ LET file == [path |-> FreshPath, table |-> t,
                    rows |-> {<<FreshPath, i>> : i \in Positions},
                    deleted |-> {}, delete_path |-> {}]
       IN  Statement(c, t, [local[c] EXCEPT !.new_data_files = @ \cup {file}], {FreshPath}, {})

\* A DELETE that matches nothing still marks the table.
DeleteNothing(c, t) ==
    /\ "delete_nothing" \in Workload
    /\ Statement(c, t, [local[c] EXCEPT !.delete_attempted = @ \cup {t}], {}, {})

\* DELETE of rows that this transaction inserted: a file whose rows are all gone
\* is removed with its delete file, otherwise a new delete file replaces the old.
DeleteFromLocalFile(c, n, R) ==
    /\ "delete_local" \in Workload
    /\ LET t == n.table
           deleted == n.deleted \cup R
           others == local[c].new_data_files \ {n}
           attempted == [local[c] EXCEPT !.delete_attempted = @ \cup {t}]
       IN  IF deleted = n.rows
           THEN Statement(c, t, [attempted EXCEPT !.new_data_files = others],
                          {}, {n.path} \cup n.delete_path)
           ELSE /\ CanWriteFile
                /\ LET file == [n EXCEPT !.deleted = deleted, !.delete_path = {FreshPath}]
                   IN  Statement(c, t, [attempted EXCEPT !.new_data_files = others \cup {file}],
                                 {FreshPath}, n.delete_path)

\* (mutation) The deletions that are already there are given the new snapshot too.
NewPositionsAllNew(c, f, R) ==
    LET old == UNION {d.positions : d \in IF LocalDelete(c, f) # {} THEN LocalDelete(c, f)
                                          ELSE CommittedDelete(c, f)}
        rows == {p.row : p \in old} \cup R
    IN  {[row |-> r, snap |-> IF CommittedDelete(c, f) = {} THEN Null ELSE txn[c].snap + 1] : r \in rows}

\* The positions that a new delete file for f holds.  Once f has a committed
\* delete file each position carries a snapshot, and the new ones the snapshot
\* after the transaction's (FlushDeleteWithSnapshots).
NewPositions(c, f, R) ==
    LET committed == CommittedDelete(c, f)
        old == UNION {d.positions : d \in IF LocalDelete(c, f) # {} THEN LocalDelete(c, f)
                                          ELSE committed}
    IN  IF committed = {}
        THEN old \cup {[row |-> r, snap |-> Null] : r \in R}
        ELSE LET fallback == (CHOOSE d \in committed : TRUE).begin
             IN  {[p EXCEPT !.snap = IF @ = Null THEN fallback ELSE @] : p \in old} \cup
                 {[row |-> r, snap |-> txn[c].snap + 1] : r \in R}

\* The begin_snapshot of a new delete file: the smallest snapshot in it, or NULL
\* for the snapshot of the commit (WriteDeleteFileInternal).
BeginOf(positions) ==
    CHOOSE s \in {p.snap : p \in positions} : \A p \in positions : s <= p.snap

\* What the new delete file overwrites: the committed delete file's id, with the
\* path of the delete file that the transaction reads.
Overwritten(c, f) ==
    {[id |-> d.id, path |-> e.path] :
        d \in CommittedDelete(c, f),
        e \in IF LocalDelete(c, f) # {} THEN LocalDelete(c, f) ELSE CommittedDelete(c, f)}

\* TryDropFullyDeletedFile and DropFile
DropFile(c, f) ==
    Statement(c, f.table,
              [local[c] EXCEPT !.dropped_files = @ \cup {[file |-> f.id, table |-> f.table]},
                               !.delete_attempted = @ \cup {f.table}], {}, {})

\* AddDeletesToMap: the delete file replaces one that the transaction wrote before.
WriteDeleteFile(c, f, positions) ==
    /\ CanWriteFile
    /\ LET old == LocalDelete(c, f)
           file == [file |-> f.id, table |-> f.table, path |-> FreshPath, positions |-> positions,
                    begin |-> BeginOf(positions), overwritten |-> Overwritten(c, f)]
       IN  Statement(c, f.table,
                     [local[c] EXCEPT !.new_delete_files = (@ \ old) \cup {file},
                                      !.delete_attempted = @ \cup {f.table}],
                     {FreshPath}, {d.path : d \in old})

\* FlushDelete for a committed file, without inlining.
DeleteFromFile(c, f, R) ==
    /\ "delete" \in Workload
    /\ CommittedDelete(c, f) # {} => "delete_more" \in Workload
    /\ CommittedDelete(c, f) # {} /\ LocalDelete(c, f) # {} => "delete_again" \in Workload
    /\ LET positions == NewPositions(c, f, R) IN
       IF Cardinality(positions) = Cardinality(f.rows)
       THEN DropFile(c, f)
       ELSE WriteDeleteFile(c, f, positions)

\* FlushDelete for a committed file when data_inlining_row_limit admits the rows:
\* they are stored in the metadata database instead of a delete file.
InlineDelete(c, f, R) ==
    /\ "inline_delete" \in Workload
    /\ CommittedDelete(c, f) # {} \/ LocalDelete(c, f) # {} \/ Cardinality(R) # Cardinality(f.rows)
    /\ Statement(c, f.table,
                 [local[c] EXCEPT !.inlined_file_deletes = @ \cup {[file |-> f.id, table |-> f.table, row |-> r] : r \in R},
                                  !.delete_attempted = @ \cup {f.table}], {}, {})

AlterTable(c, t) ==
    /\ "alter" \in Workload
    /\ Statement(c, t, [local[c] EXCEPT !.altered_tables = @ \cup {t}], {}, {})

\* DropTable of a committed table: files that the transaction wrote for it stay.
DropTable(c, t) ==
    /\ "drop_table" \in Workload
    /\ Statement(c, t, [local[c] EXCEPT !.dropped_tables = @ \cup {t}], {}, {})

\* The files that this transaction has already compacted.
CompactedFiles(c) == UNION {x.sources : x \in local[c].compactions}

\* GetFilesForCompaction: files that are live and, for a merge, without deletions;
\* for a rewrite, with some.  The transaction's own changes are not looked at.
MergeCandidates(c, t) ==
    {f \in View(c).data_file :
        /\ f.table = t
        /\ f.end = Null
        /\ ~\E d \in View(c).delete_file : d.file = f.id
        /\ InlinedAt(View(c), f, txn[c].snap) = {}}

LiveDelete(c, f) == {d \in View(c).delete_file : d.file = f.id /\ d.end = Null}

RewriteCandidates(c, t) ==
    {f \in View(c).data_file :
        /\ f.table = t
        /\ f.end = Null
        /\ LiveDelete(c, f) # {} \/ InlinedAt(View(c), f, txn[c].snap) # {}}

\* The snapshot a row carries into a merged file: its own, or that of its file.
RowSnapshots(f) ==
    IF f.partial_max # Null THEN f.rows ELSE {[r EXCEPT !.snap = f.begin] : r \in f.rows}

LastSnapshot(f) == IF f.partial_max # Null THEN f.partial_max ELSE f.begin

Compact(c, t, compaction) ==
    /\ "compact_again" \in Workload \/ compaction.sources \cap CompactedFiles(c) = {}
    /\ Statement(c, t, [local[c] EXCEPT !.compactions = @ \cup {compaction}], compaction.path, {})

MergeAdjacentFiles(c, t, S) ==
    /\ "merge" \in Workload
    /\ CanWriteFile
    /\ Cardinality(S) >= 2
    /\ LET first == CHOOSE f \in S : \A g \in S : f.begin <= g.begin
           last == CHOOSE f \in S : \A g \in S : LastSnapshot(f) >= LastSnapshot(g)
       IN  Compact(c, t, [type |-> "merge", table |-> t, sources |-> S, deletes |-> {},
                          path |-> {FreshPath}, rows |-> UNION {RowSnapshots(f) : f \in S},
                          begin |-> first.begin, partial_max |-> LastSnapshot(last)])

\* Without rows left there is no output file.
RewriteDeletes(c, t, S) ==
    /\ "rewrite" \in Workload
    /\ S # {}
    /\ LET s == txn[c].snap
           LiveRows(f) == {r \in f.rows : /\ r.row \notin UNION {DeletedAt(d.positions, s) : d \in LiveDelete(c, f)}
                                          /\ r.row \notin InlinedAt(View(c), f, s)}
           rows == {[r EXCEPT !.snap = Null] : r \in UNION {LiveRows(f) : f \in S}}
       IN  /\ rows # {} => CanWriteFile
           /\ Compact(c, t, [type |-> "rewrite", table |-> t, sources |-> S,
                             deletes |-> UNION {LiveDelete(c, f) : f \in S},
                             path |-> IF rows = {} THEN {} ELSE {FreshPath}, rows |-> rows,
                             begin |-> Null, partial_max |-> Null])

AnyStatement(c) ==
    /\ txn[c].phase = "active"
    /\ \E t \in Tables :
        \/ Insert(c, t)
        \/ DeleteNothing(c, t)
        \/ \E n \in {m \in local[c].new_data_files : m.table = t} :
              \E R \in (SUBSET (n.rows \ n.deleted)) \ {{}} : DeleteFromLocalFile(c, n, R)
        \/ \E f \in ReadableFiles(c, t) : \E R \in (SUBSET ReadableRows(c, f)) \ {{}} :
              DeleteFromFile(c, f, R) \/ InlineDelete(c, f, R)
        \/ \E S \in SUBSET MergeCandidates(c, t) : MergeAdjacentFiles(c, t, S)
        \/ \E S \in SUBSET RewriteCandidates(c, t) : RewriteDeletes(c, t, S)
        \/ AlterTable(c, t)
        \/ DropTable(c, t)

----------------------------------------------------------------------------
(* Committing: CommitChanges writes the local changes l as snapshot k, in  *)
(* this order, handing out file ids from id on.                            *)

\* FlushDrop: end_snapshot of the rows that satisfy P and have none yet.
Ended(rows, k, P(_)) == {IF x.end = Null /\ P(x) THEN [x EXCEPT !.end = k] ELSE x : x \in rows}

DropTables(m, ts, k) ==
    LET Dropped(x) == x.table \in ts IN
    [m EXCEPT !.table_end = [t \in Tables |-> IF t \in ts /\ @[t] = Null THEN k ELSE @[t]],
              !.data_file = Ended(@, k, Dropped),
              !.delete_file = Ended(@, k, Dropped)]

\* The id of path p when the paths in S take consecutive ids from id on.
IdOf(p, S, id) == id + Cardinality({q \in S : q < p})

DataPaths(l) == {n.path : n \in l.new_data_files}

DeletePaths(l) ==
    {d.path : d \in l.new_delete_files} \cup UNION {n.delete_path : n \in l.new_data_files}

OutputPaths(l) == UNION {x.path : x \in l.compactions}

\* GetNewDataFiles
WriteNewDataFiles(m, l, k, id) ==
    [m EXCEPT !.data_file = @ \cup
        {[id |-> IdOf(n.path, DataPaths(l), id), table |-> n.table, path |-> n.path,
          rows |-> {[row |-> r, snap |-> Null] : r \in n.rows},
          begin |-> k, end |-> Null, partial_max |-> Null] : n \in l.new_data_files}]

\* DropDataFiles: the delete files of a dropped file stay as they are.
DropDataFiles(m, l, k) ==
    LET Dropped(f) == [file |-> f.id, table |-> f.table] \in l.dropped_files IN
    [m EXCEPT !.data_file = Ended(@, k, Dropped)]

\* (mutation) The overwritten delete files are not scheduled for deletion.
DeleteOverwrittenUnscheduled(m, l) ==
    LET old == UNION {d.overwritten : d \in l.new_delete_files} IN
    [m EXCEPT !.delete_file = {d \in @ : d.id \notin {o.id : o \in old}}]

DeleteOverwrittenDeleteFiles(m, l) ==
    LET old == UNION {d.overwritten : d \in l.new_delete_files} IN
    [m EXCEPT !.delete_file = {d \in @ : d.id \notin {o.id : o \in old}},
              !.scheduled = @ \cup {o.path : o \in old}]

\* GetNewDeleteFiles and WriteNewDeleteFiles: the delete files of committed data
\* files, and those of the data files that this commit adds.
WriteNewDeleteFiles(m, l, k, id) ==
    LET first == id + Cardinality(DataPaths(l))
        Id(p) == IdOf(p, DeletePaths(l), first)
        deleting == {n \in l.new_data_files : n.delete_path # {}}
    IN  [m EXCEPT !.delete_file = @ \cup
            {[id |-> Id(d.path), file |-> d.file, table |-> d.table, path |-> d.path,
              positions |-> d.positions, begin |-> IF d.begin = Null THEN k ELSE d.begin,
              end |-> Null] : d \in l.new_delete_files} \cup
            {LET p == CHOOSE q \in n.delete_path : TRUE IN
             [id |-> Id(p), file |-> IdOf(n.path, DataPaths(l), id), table |-> n.table, path |-> p,
              positions |-> {[row |-> r, snap |-> Null] : r \in n.deleted},
              begin |-> k, end |-> Null] : n \in deleting}]

WriteNewInlinedFileDeletes(m, l, k) ==
    [m EXCEPT !.inlined_delete = @ \cup
        {[file |-> x.file, row |-> x.row, begin |-> k] : x \in l.inlined_file_deletes}]

\* GetCompactionChanges: the output files of the compactions.
OutputFiles(l, type, k, id) ==
    LET first == id + Cardinality(DataPaths(l)) + Cardinality(DeletePaths(l))
        written == {x \in l.compactions : x.type = type /\ x.path # {}}
        Output(x) == LET p == CHOOSE q \in x.path : TRUE IN
            [id |-> IdOf(p, OutputPaths(l), first), table |-> x.table, path |-> p, rows |-> x.rows,
             begin |-> IF type = "rewrite" THEN k ELSE x.begin, end |-> Null,
             partial_max |-> x.partial_max]
    IN  {Output(x) : x \in written}

SourceFiles(l, type) == UNION {x.sources : x \in {y \in l.compactions : y.type = type}}

\* The source files and everything known of them are removed.
WriteMergeAdjacent(m, l, k, id) ==
    LET sources == SourceFiles(l, "merge")
        ids == {f.id : f \in sources}
    IN  [m EXCEPT !.data_file = {f \in @ : f.id \notin ids} \cup OutputFiles(l, "merge", k, id),
                  !.delete_file = {d \in @ : d.file \notin ids},
                  !.scheduled = @ \cup {f.path : f \in sources}]

\* (mutation) Only the delete files of the sources are ended.
WriteDeleteRewritesKeepingSources(m, l, k, id) ==
    LET deletes == {d.id : d \in UNION {x.deletes : x \in l.compactions}}
    IN  [m EXCEPT !.data_file = @ \cup OutputFiles(l, "rewrite", k, id),
                  !.delete_file = {IF d.id \in deletes THEN [d EXCEPT !.end = k] ELSE d : d \in @}]

\* The source files and their delete files end with this snapshot.
WriteDeleteRewrites(m, l, k, id) ==
    LET ids == {f.id : f \in SourceFiles(l, "rewrite")}
        deletes == {d.id : d \in UNION {x.deletes : x \in l.compactions}}
    IN  [m EXCEPT !.data_file = {IF f.id \in ids THEN [f EXCEPT !.end = k] ELSE f : f \in @}
                                    \cup OutputFiles(l, "rewrite", k, id),
                  !.delete_file = {IF d.id \in deletes THEN [d EXCEPT !.end = k] ELSE d : d \in @}]

CommitChanges(m0, l, k, id) ==
    LET m1 == DropTables(m0, l.dropped_tables, k)
        m2 == WriteNewDataFiles(m1, l, k, id)
        m3 == DropDataFiles(m2, l, k)
        m4 == DeleteOverwrittenDeleteFiles(m3, l)
        m5 == WriteNewDeleteFiles(m4, l, k, id)
        m6 == WriteNewInlinedFileDeletes(m5, l, k)
        m7 == WriteMergeAdjacent(m6, l, k, id)
    IN  WriteDeleteRewrites(m7, l, k, id)

\* (mutation) Only dropped files are looked at.
DroppedMeanwhile(c) ==
    LET mine == {d.file : d \in local[c].new_delete_files} \cup
                {f.file : f \in local[c].dropped_files}
    IN  mine \cap {f.id : f \in {g \in Last(versions).data_file : g.end > txn[c].snap}} # {}

\* A file the transaction deletes from was deleted from or dropped after its
\* snapshot, as GetFilesDeletedOrDroppedAfterSnapshot tells from the metadata.
DeletedMeanwhile(c) ==
    LET m == Last(versions)
        s == txn[c].snap
        later == {d.file : d \in {e \in m.delete_file : e.begin > s}} \cup
                 {f.id : f \in {g \in m.data_file : g.end > s}}
        mine == {d.file : d \in local[c].new_delete_files} \cup
                {f.file : f \in local[c].dropped_files}
    IN  mine \cap later # {}

Commit(c) ==
    /\ ExecuteCommitBatch(c)
    /\ versions' = Append(versions, CommitChanges(Last(versions), local[c], Len(log) + 1,
                                                  log[txn[c].base].next_file_id))

\* The other steps of the protocol leave the metadata alone.
OtherStep(c) ==
    /\ \/ Begin(c)
       \/ Rollback(c)
       \/ CommitNothing(c)
       \/ CommitStart(c)
       \/ SnapshotIdTaken(c)
       \/ TransientError(c)
       \/ FatalError(c)
       \/ Retry(c, DeletedMeanwhile(c))
       \/ AbortOnConflict(c, DeletedMeanwhile(c))
       \/ Crash(c)
    /\ UNCHANGED versions

\* The local changes end with the transaction.
LakeNext ==
    \E c \in Clients :
        \/ AnyStatement(c)
        \/ /\ Commit(c) \/ OtherStep(c)
           /\ local' = [local EXCEPT ![c] = IF txn'[c].phase = "idle" THEN NoLocalChanges ELSE @]

LakeSpec == LakeInit /\ [][LakeNext]_lakeVars

----------------------------------------------------------------------------
(* Properties.                                                             *)

Now == Last(versions)

Snapshots == 1 .. Len(log)

\* The history of the tables as it can be read now: each snapshot by time travel
\* through the newest metadata, each open transaction by its own queries.
Isolation ==
    INSTANCE SnapshotIsolation WITH
        history <- [k \in Snapshots |-> [t \in Tables |-> Contents(Now, t, k)]],
        session <- [c \in Clients |->
            IF txn[c].phase = "idle" THEN [open |-> FALSE]
            ELSE [open |-> TRUE, snap |-> txn[c].snap,
                  work |-> [t \in Tables |-> TransactionContents(c, t)]]]

\* Snapshot isolation with time travel: a commit adds to the newest contents what
\* its transaction changed, rows that it deleted being still there, and neither
\* it nor a compaction changes what an earlier snapshot shows.
ImplementsSnapshotIsolation == Isolation!Spec

\* A query at a snapshot returns no row twice: a row is in one file of the file
\* list, and that file is listed once.
NoRowReadTwice ==
    \A k \in Snapshots, t \in Tables : \A e1, e2 \in FileList(Now, t, k) :
        e1 # e2 => EntryRows(Now, e1, k) \cap EntryRows(Now, e2, k) = {}

CatalogPaths == {f.path : f \in Now.data_file} \cup {d.path : d \in Now.delete_file}

\* The files that the metadata refers to exist, and every other file on disk is
\* scheduled for deletion, belongs to an open transaction, or was left by a crash.
FilesMatchCatalog ==
    /\ CatalogPaths \subseteq disk
    /\ disk \subseteq CatalogPaths \cup Now.scheduled \cup OpenFiles \cup orphans

\* A file id identifies one row of ducklake_data_file or ducklake_delete_file, at
\* most one delete file is live for a data file, and every delete file refers to
\* a data file that the metadata has.
MetadataConsistent ==
    LET files == Now.data_file
        deletes == Now.delete_file
    IN  /\ \A f, g \in files : f.id = g.id => f = g
        /\ \A d, e \in deletes : d.id = e.id => d = e
        /\ \A d, e \in deletes : d.file = e.file /\ d.end = Null /\ e.end = Null => d = e
        /\ \A d \in deletes : \E f \in files : f.id = d.file
============================================================================
