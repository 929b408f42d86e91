---------------------------- MODULE InlinedData ----------------------------
(***************************************************************************)
(* Data inlining: small changes to a table are kept as rows of the         *)
(* metadata database until they are flushed to files.                      *)
(*                                                                         *)
(* Inserted rows go to the inlined table of the newest schema version      *)
(* (ducklake_inlined_data_<table>_<version>), deletions from files to      *)
(* ducklake_inlined_delete_<table>.  ducklake_flush_inlined_data writes    *)
(* the rows, the dead ones too, to a file whose rows and deletions carry   *)
(* the snapshots they belong to, and removes them from the inlined table;  *)
(* afterwards an inlined table that is empty and superseded is dropped, in *)
(* a metadata transaction of its own that makes no snapshot.  One table is *)
(* modelled; every transaction keeps the metadata as it saw it first.      *)
(***************************************************************************)
EXTENDS ConflictRules, Integers, SequencesExt

CONSTANTS
    Clients,
    Flushers,       \* the clients that call ducklake_flush_inlined_data
    MaxSnapshot,    \* bound on the snapshots
    MaxValues,      \* bound on the row versions written
    MaxRows,        \* bound on the rows of an INSERT
    MaxStatements,  \* bound on the statements of a transaction
    NotCached

ASSUME InlinedAssumption ==
    /\ Flushers \subseteq Clients
    /\ Cardinality(Tables) = 1
    /\ MaxSnapshot \in Nat \ {0}

VARIABLES
    db,       \* the metadata database
    txn,      \* the transaction of each client
    dropping, \* the clients that have committed a flush and not dropped tables yet
    cached,   \* cached[s]: the inlined tables that the catalog has cached for snapshot s
    pinned,   \* the same for a catalog that is attached at a snapshot: [snap, tables]
    values,   \* how many row versions have been written
    history   \* (history) history[s]: the rows of the table at snapshot s

inlinedVars == <<db, txn, dropping, cached, pinned, values, history>>

Null == 0

Table == CHOOSE t \in Tables : TRUE

NoTransaction ==
    [open |-> FALSE, view |-> <<>>, statements |-> 0,
     data |-> <<>>,            \* new_inlined_data: [rid, val], rid Null until commit
     inlined_deletes |-> {},   \* new_inlined_data_deletes: [ver, rid]
     file_deletes |-> {},      \* new_inlined_file_deletes: [file, pos]
     dropped_files |-> {}, altered |-> FALSE,
     flush_files |-> {}, flushed |-> {},   \* flushed_inlined_tables
     flush_deletes |-> {}, deletes_flushed |-> FALSE,
     gone |-> {}]              \* (history) the committed row versions it deleted

\* A table created with inlining has an inlined table, one that was created
\* before inlining was switched on has none.
InlinedInit ==
    /\ \E tables \in {{}, {1}} :
         db = [snapshot |-> 1, schema_version |-> <<1>>, changes |-> <<{}>>,
               next_row_id |-> 1, next_file_id |-> 1,
               inlined_tables |-> tables, rows |-> {},
               data_file |-> {}, delete_file |-> {}, inlined_delete |-> {}]
    /\ txn = [c \in Clients |-> NoTransaction]
    /\ dropping = {}
    /\ cached = [s \in 1..MaxSnapshot |-> NotCached]
    /\ pinned = NotCached
    /\ values = 0
    /\ history = <<{}>>

----------------------------------------------------------------------------
(* Reading.                                                                *)

Visible(x, s) == x.begin <= s /\ (x.end = Null \/ s < x.end)

Version(x) == [rid |-> x.rid, val |-> x.val]

\* (mutation) Only a list of several tables is compared with the registry.
StillRegisteredIfSeveral(tables, view, s, at_snapshot) ==
    IF Cardinality(tables) > 1 THEN tables \cap view.inlined_tables ELSE tables

\* DuckLakeTableEntry::GetInlinedDataTables: a list that may have been cached
\* before a table was dropped is compared with the registry.
StillRegistered(tables, view, s, at_snapshot) ==
    LET may_be_dropped ==
            \/ Cardinality(tables) > 1
            \/ /\ Cardinality(tables) = 1
               /\ at_snapshot \/ view.schema_version[s] < Last(view.schema_version)
    IN  IF may_be_dropped THEN tables \cap view.inlined_tables ELSE tables

\* ReadInlinedData, over the tables of the scan; each row with its place.
InlinedRowsAt(view, tables, s) ==
    {[ver |-> r.ver, row |-> Version(r)] : r \in {q \in view.rows : q.ver \in tables /\ Visible(q, s)}}

\* A file joined with its delete files: its rows at the snapshot, each with its
\* position and the delete file that was applied.
FileRowsAt(view, s) ==
    UNION {LET deletes == {d \in view.delete_file : d.file = f.id /\ Visible(d, s)}
               inlined == {x.pos : x \in {y \in view.inlined_delete : y.file = f.id /\ y.begin <= s}}
               live(gone) == {i \in DOMAIN f.rows : f.rows[i].snap <= s} \ (gone \cup inlined)
               entry(i, d) == [file |-> f.id, pos |-> i, delete |-> d, row |-> Version(f.rows[i])]
           IN  IF deletes = {} THEN {entry(i, Null) : i \in live({})}
               ELSE UNION {{entry(i, d.id) : i \in live({p.pos : p \in {q \in d.positions : q.snap <= s}})} :
                           d \in deletes} :
           f \in {g \in view.data_file : Visible(g, s)}}

\* SELECT ... AT (VERSION => s): every row of the snapshot, exactly once, and no
\* table that is not there.
ReadsExactly(view, tables, s) ==
    LET places == InlinedRowsAt(view, tables, s) \cup FileRowsAt(view, s) IN
    /\ tables \subseteq view.inlined_tables
    /\ {p.row : p \in places} = history[s]
    /\ Cardinality(places) = Cardinality(history[s])

\* DuckLakeCatalog::GetInlinedDataTables: by the transaction's snapshot.
CachedTables(cache, s, view) == IF cache[s] = NotCached THEN view.inlined_tables ELSE cache[s]

TablesOf(c, s) ==
    LET view == txn[c].view IN
    StillRegistered(CachedTables(cached, view.snapshot, view), view, s, FALSE)

----------------------------------------------------------------------------
(* Statements.                                                             *)

Begin(c) ==
    /\ ~txn[c].open
    /\ c \notin dropping
    /\ txn' = [txn EXCEPT ![c] = [NoTransaction EXCEPT !.open = TRUE, !.view = db]]
    /\ UNCHANGED <<db, dropping, cached, pinned, values, history>>

\* GetTransactionChanges, AddTableChanges
Changes(t) ==
    LET kinds == {k \in RecordedKinds :
            \/ k = "inlined_insert" /\ t.data # <<>>
            \/ k = "inlined_delete" /\ t.inlined_deletes \cup t.file_deletes # {}
            \/ k = "inline_flush" /\ t.flush_files # {}
            \/ k = "deleted_from_table" /\ t.flush_deletes \cup t.dropped_files # {}
            \/ k = "altered_table" /\ t.altered}
    IN  kinds \X Tables

\* Bounds: a transaction may do more only if its snapshot will fit.
RoomFor(c) ==
    /\ txn[c].open
    /\ txn[c].statements < MaxStatements
    /\ db.snapshot + Cardinality({d \in Clients \ {c} : Changes(txn[d]) # {}}) < MaxSnapshot

Statement(c, t) ==
    /\ txn' = [txn EXCEPT ![c] = [t EXCEPT !.statements = @ + 1]]
    /\ UNCHANGED <<db, dropping, pinned, history>>

ScanTable(c) ==
    LET view == txn[c].view IN
    cached' = [cached EXCEPT ![view.snapshot] = CachedTables(cached, view.snapshot, view)]

\* SELECT; it leaves the list of inlined tables in the cache.
Read(c) ==
    /\ RoomFor(c)
    /\ ScanTable(c)
    /\ cached' # cached
    /\ Statement(c, txn[c])
    /\ UNCHANGED values

\* The n-th row version that a statement writes.
NewVersion(rid, n) == [rid |-> rid, val |-> values + n]

Write(n) ==
    /\ values + n <= MaxValues
    /\ values' = values + n

\* DuckLakeInlineData::OperatorFinalize
Insert(c) ==
    /\ RoomFor(c)
    /\ \E n \in 1..MaxRows :
         /\ Write(n)
         /\ Statement(c, [txn[c] EXCEPT !.data = @ \o [i \in 1..n |-> NewVersion(Null, i)]])
    /\ UNCHANGED cached

\* An ALTER that changes the columns.
Alter(c) ==
    /\ RoomFor(c)
    /\ ~txn[c].altered
    /\ Statement(c, [txn[c] EXCEPT !.altered = TRUE])
    /\ UNCHANGED <<cached, values>>

\* What DuckLakeDelete::FlushDelete does with one row of each kind of source.
InlinedRows(c) ==
    LET s == txn[c].view.snapshot IN
    {p \in InlinedRowsAt(txn[c].view, TablesOf(c, s), s) :
        [ver |-> p.ver, rid |-> p.row.rid] \notin txn[c].inlined_deletes}

FileRows(c) ==
    {p \in FileRowsAt(txn[c].view, txn[c].view.snapshot) :
        /\ [file |-> p.file, pos |-> p.pos] \notin txn[c].file_deletes
        /\ p.file \notin txn[c].dropped_files}

DeleteInlined(t, p) ==
    [t EXCEPT !.inlined_deletes = @ \cup {[ver |-> p.ver, rid |-> p.row.rid]},
              !.gone = @ \cup {p.row.val}]

\* A file that loses all its rows at once, and has no delete file, is dropped.
DeleteFromFile(t, p) ==
    LET f == CHOOSE g \in t.view.data_file : g.id = p.file
        whole == Len(f.rows) = 1 /\ p.delete = Null
    IN  [t EXCEPT !.dropped_files = IF whole THEN @ \cup {p.file} ELSE @,
                  !.file_deletes = IF whole THEN @ ELSE @ \cup {[file |-> p.file, pos |-> p.pos]},
                  !.gone = @ \cup {p.row.val}]

\* DeleteFromLocalInlinedData
DeleteLocal(t, i) == [t EXCEPT !.data = RemoveAt(@, i)]

NotFlushed(c) == txn[c].flushed = {} /\ ~txn[c].deletes_flushed

Delete(c) ==
    /\ RoomFor(c)
    /\ NotFlushed(c)
    /\ \/ \E p \in InlinedRows(c) : Statement(c, DeleteInlined(txn[c], p))
       \/ \E p \in FileRows(c) : Statement(c, DeleteFromFile(txn[c], p))
       \/ \E i \in DOMAIN txn[c].data : Statement(c, DeleteLocal(txn[c], i))
    /\ ScanTable(c)
    /\ UNCHANGED values

\* UPDATE: the new version is inlined under the row id of the old one.
Update(c) ==
    /\ RoomFor(c)
    /\ NotFlushed(c)
    /\ Write(1)
    /\ \/ \E p \in InlinedRows(c) :
            Statement(c, [DeleteInlined(txn[c], p) EXCEPT !.data = Append(@, NewVersion(p.row.rid, 1))])
       \/ \E p \in FileRows(c) :
            Statement(c, [DeleteFromFile(txn[c], p) EXCEPT !.data = Append(@, NewVersion(p.row.rid, 1))])
    /\ ScanTable(c)

----------------------------------------------------------------------------
(* ducklake_flush_inlined_data.                                            *)

MinOf(S) == CHOOSE x \in S : \A y \in S : x <= y
MaxOf(S) == CHOOSE x \in S : \A y \in S : x >= y

InRowOrder(a, b) == a.rid < b.rid \/ (a.rid = b.rid /\ a.begin < b.begin)

\* ReadAllInlinedDataForFlush
AllRowsForFlush(view, v) ==
    {r \in view.rows : r.ver = v /\ r.begin <= view.snapshot}

\* DuckLakeFlushData::Finalize: the dead rows, by their place in the file.
DeadPositions(rows) ==
    {[pos |-> i, snap |-> rows[i].end] : i \in {j \in DOMAIN rows : rows[j].end # Null}}

\* GenerateFlushCommand: the file of one inlined table, in the order of row ids
\* and snapshots, both of which are written with the rows.
FlushTable(view, v) ==
    LET found == AllRowsForFlush(view, v)
        rows == SetToSortSeq(found, InRowOrder)
    IN  IF found = {} THEN {}
        ELSE {[rows |-> [i \in DOMAIN rows |->
                            [rid |-> rows[i].rid, val |-> rows[i].val, snap |-> rows[i].begin]],
               begin |-> MinOf({r.begin : r \in found}),
               positions |-> DeadPositions(rows)]}

\* The delete file of a data file when the file was last visible.
ExistingDelete(view, f) ==
    {d \in view.delete_file :
        /\ d.file = f.id /\ d.begin <= view.snapshot
        /\ d.end = Null \/ d.end >= (IF f.end = Null THEN view.snapshot + 1 ELSE f.end)}

\* FlushInlinedFileDeletions: the deletions of a file are merged with those of
\* its delete file, each with its snapshot, and the new file replaces the old.
FlushFileDeletions(view) ==
    {LET old == ExistingDelete(view, f)
         positions == {[pos |-> x.pos, snap |-> x.begin] :
                         x \in {y \in view.inlined_delete : y.file = f.id /\ y.begin <= view.snapshot}}
                      \cup UNION {d.positions : d \in old}
     IN  [file |-> f.id, positions |-> positions, replaces |-> {d.id : d \in old}] :
     f \in {g \in view.data_file : \E y \in view.inlined_delete : y.file = g.id}}

\* FlushInlinedDataBind; a transaction that has deleted from the table is left out.
Flush(c) ==
    /\ RoomFor(c)
    /\ c \in Flushers
    /\ NotFlushed(c)
    /\ txn[c].inlined_deletes \cup txn[c].file_deletes \cup txn[c].dropped_files = {}
    /\ LET view == txn[c].view
           tables == TablesOf(c, view.snapshot)
           deletes == FlushFileDeletions(view)
       IN  /\ tables # {} \/ deletes # {}
           /\ Statement(c, [txn[c] EXCEPT
                 !.flush_files = UNION {FlushTable(view, v) : v \in tables},
                 !.flushed = tables,
                 !.flush_deletes = deletes,
                 !.deletes_flushed = deletes # {}])
    /\ ScanTable(c)
    /\ UNCHANGED values

----------------------------------------------------------------------------
(* Commit.                                                                 *)

\* GetFilesDeletedOrDroppedAfterSnapshot
DeletedFromFiles(s) ==
    {d.file : d \in {e \in db.delete_file : e.begin > s}} \cup
    {f.id : f \in {g \in db.data_file : g.end > s}}

\* CheckForConflicts, against every snapshot since the transaction began.
Conflicts(c) ==
    \E s \in txn[c].view.snapshot + 1 .. db.snapshot :
        \/ ConflictCheck(Changes(txn[c]), db.changes[s])
        \/ /\ DeletesMayMatch(Changes(txn[c]), db.changes[s])
           /\ ({d.file : d \in txn[c].flush_deletes} \cup txn[c].dropped_files)
                \cap DeletedFromFiles(txn[c].view.snapshot) # {}

\* A flush deletes from every table that it has read, in the order of the batch:
\* a table that was dropped meanwhile makes the commit fail.
TablesGone(c) == ~ (txn[c].flushed \subseteq db.inlined_tables)

\* WriteNewInlinedTables, WriteNewInlinedData: an ALTER makes a new inlined table;
\* otherwise the newest one is used, or one is made if there is none.
MakesTable(t) == t.altered \/ (t.data # <<>> /\ db.inlined_tables = {})

NewSchemaVersion(t) ==
    IF MakesTable(t) THEN Last(db.schema_version) + 1 ELSE Last(db.schema_version)

InlinedTables(t) ==
    IF MakesTable(t) THEN db.inlined_tables \cup {NewSchemaVersion(t)} ELSE db.inlined_tables

\* FormatInlinedDataInsert: rows without an id are numbered from next_row_id.
NewRows(t, s) ==
    LET rid(i) == IF t.data[i].rid # Null THEN t.data[i].rid
                  ELSE db.next_row_id + Cardinality({j \in 1..i-1 : t.data[j].rid = Null})
    IN  {[ver |-> MaxOf(InlinedTables(t)), rid |-> rid(i), val |-> t.data[i].val, begin |-> s, end |-> Null] :
            i \in DOMAIN t.data}

\* (mutation) The flushed tables are emptied.
DeleteAllInlinedData(rows, t) == {r \in rows : r.ver \notin t.flushed}

\* GenerateDeleteFlushedInlinedData: what the flush had read.
DeleteFlushedInlinedData(rows, t) ==
    {r \in rows : r.ver \notin t.flushed \/ r.begin > t.view.snapshot}

\* WriteNewInlinedDeletes
WriteNewInlinedDeletes(rows, t, s) ==
    {IF [ver |-> r.ver, rid |-> r.rid] \in t.inlined_deletes /\ r.end = Null /\ r.begin # s
     THEN [r EXCEPT !.end = s] ELSE r : r \in rows}

\* The files of the flush and the delete files, numbered in any order.
FileNumbers(t) ==
    LET new == {[data |-> f] : f \in t.flush_files} \cup {[deletes |-> d] : d \in t.flush_deletes} IN
    CHOOSE id \in [new -> db.next_file_id .. db.next_file_id + Cardinality(new) - 1] :
        \A x, y \in new : x # y => id[x] # id[y]

NewDeleteFile(id, file, positions) ==
    [id |-> id, file |-> file, positions |-> positions,
     begin |-> MinOf({p.snap : p \in positions}), end |-> Null]

CommitFiles(t, s) ==
    LET id == FileNumbers(t)
        data(f) == id[[data |-> f]]
    IN  [data_file |->
            {IF f.id \in t.dropped_files THEN [f EXCEPT !.end = s] ELSE f : f \in db.data_file} \cup
            {[id |-> data(f), rows |-> f.rows, begin |-> f.begin, end |-> Null] : f \in t.flush_files},
         delete_file |->
            {d \in db.delete_file : \A e \in t.flush_deletes : d.id \notin e.replaces} \cup
            {NewDeleteFile(-data(f), data(f), f.positions) : f \in {g \in t.flush_files : g.positions # {}}} \cup
            {NewDeleteFile(id[[deletes |-> e]], e.file, e.positions) : e \in t.flush_deletes}]

\* WriteNewInlinedFileDeletes, after the flushed deletions are removed.
InlinedFileDeletes(t, s) ==
    {x \in db.inlined_delete : ~t.deletes_flushed \/ x.begin > t.view.snapshot}
    \cup {[file |-> x.file, pos |-> x.pos, begin |-> s] : x \in t.file_deletes}

CommitTo(t, s) ==
    LET rows == DeleteFlushedInlinedData(db.rows \cup NewRows(t, s), t)
        files == CommitFiles(t, s)
    IN  [snapshot |-> s,
         schema_version |-> Append(db.schema_version, NewSchemaVersion(t)),
         changes |-> Append(db.changes, WriteSnapshotChanges(Changes(t))),
         next_row_id |-> db.next_row_id + Cardinality({i \in DOMAIN t.data : t.data[i].rid = Null}),
         next_file_id |-> db.next_file_id + Cardinality(t.flush_files) + Cardinality(t.flush_deletes),
         inlined_tables |-> InlinedTables(t),
         rows |-> WriteNewInlinedDeletes(rows, t, s),
         data_file |-> files.data_file, delete_file |-> files.delete_file,
         inlined_delete |-> InlinedFileDeletes(t, s)]

Close(c) == txn' = [txn EXCEPT ![c] = NoTransaction]

\* The commit loop, all attempts together; an empty transaction makes no snapshot.
Commit(c) ==
    /\ txn[c].open
    /\ Changes(txn[c]) # {}
    /\ ~Conflicts(c) /\ ~TablesGone(c)
    /\ LET t == txn[c]
           s == db.snapshot + 1
       IN  /\ db' = CommitTo(t, s)
           /\ history' = Append(history,
                 {r \in Last(history) : r.val \notin t.gone} \cup {Version(r) : r \in NewRows(t, s)})
           /\ dropping' = IF t.flushed # {} THEN dropping \cup {c} ELSE dropping
    /\ Close(c)
    /\ UNCHANGED <<cached, pinned, values>>

\* A conflict, a failed batch, ROLLBACK, or the COMMIT of a transaction without
\* changes, which drops tables if it has flushed empty ones.
End(c) ==
    /\ txn[c].open
    /\ dropping' = IF Changes(txn[c]) = {} /\ txn[c].flushed # {} THEN dropping \cup {c} ELSE dropping
    /\ Close(c)
    /\ UNCHANGED <<db, cached, pinned, values, history>>

\* The superseded tables that hold no rows.
EmptySupersededTables ==
    {v \in db.inlined_tables :
        /\ \E w \in db.inlined_tables : v < w
        /\ \A r \in db.rows : r.ver # v}

\* DropEmptySupersededInlinedTables, after the commit of a flush; an error or a
\* crash leaves the tables to the next flush.
DropTables(c) ==
    /\ c \in dropping
    /\ dropping' = dropping \ {c}
    /\ \/ db' = [db EXCEPT !.inlined_tables = @ \ EmptySupersededTables,
                           !.rows = {r \in @ : r.ver \notin EmptySupersededTables}]
       \/ UNCHANGED db
    /\ UNCHANGED <<txn, cached, pinned, values, history>>

\* A SELECT in a catalog that is attached AT (VERSION => s).
PinnedRead(s) ==
    /\ s <= db.snapshot
    /\ pinned = NotCached
    /\ pinned' = [snap |-> s, tables |-> db.inlined_tables]
    /\ UNCHANGED <<db, txn, dropping, cached, values, history>>

InlinedNext ==
    \/ \E c \in Clients :
         \/ Begin(c) \/ Read(c) \/ Insert(c) \/ Alter(c) \/ Delete(c) \/ Update(c)
         \/ Flush(c) \/ Commit(c) \/ End(c) \/ DropTables(c)
    \/ \E s \in 1..MaxSnapshot : PinnedRead(s)

InlinedSpec == InlinedInit /\ [][InlinedNext]_inlinedVars

----------------------------------------------------------------------------
(* Properties.                                                             *)

\* Whatever is inserted, updated, deleted, flushed and dropped, in whatever
\* order the transactions commit, every snapshot keeps exactly its rows: a flush
\* moves rows between the inlined tables and files without losing, doubling or
\* reviving one at any snapshot (Finalize, GenerateDeleteFlushedInlinedData).
SnapshotsKeepTheirRows ==
    \A s \in 1..db.snapshot : ReadsExactly(db, db.inlined_tables, s)

\* A transaction that runs, at its own snapshot or one that it travels back to,
\* and a catalog attached at a snapshot read exactly the rows of the snapshot,
\* although the list of inlined tables comes from a cache that the dropping of
\* tables does not clear (GetInlinedDataTables).
CachedTablesSuffice ==
    /\ \A c \in Clients :
         txn[c].open => \A s \in 1..txn[c].view.snapshot : ReadsExactly(txn[c].view, TablesOf(c, s), s)
    /\ pinned # NotCached =>
         ReadsExactly(db, StillRegistered(pinned.tables, db, pinned.snap, TRUE), pinned.snap)
============================================================================
