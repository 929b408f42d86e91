---------------------------- MODULE Maintenance ----------------------------
(***************************************************************************)
(* Expiry of snapshots and removal of files.                               *)
(*                                                                         *)
(* A data or delete file is written by a transaction, referred to by rows  *)
(* of the metadata from its commit on, scheduled for deletion when the     *)
(* last row goes (a merge, an overwritten delete file, the expiry of the   *)
(* snapshots that could see it), and removed by cleanup_old_files.  Files  *)
(* that a crash left are removed by delete_orphaned_files.                 *)
(*                                                                         *)
(* Maintenance functions work on the metadata as it was when they began    *)
(* (the metadata database isolates them), and their changes are refused if *)
(* a row that they delete has meanwhile been changed.  Which commits are   *)
(* refused is the subject of SnapshotCommit: a commit here changes rows    *)
(* that are live.                                                          *)
(***************************************************************************)
EXTENDS Naturals, FiniteSets

CONSTANTS
    Clients,       \* connections that run transactions
    Maintainers,   \* connections that run maintenance functions
    Duties,        \* the functions that each of them runs
    Holdable,      \* bound on the snapshots that are protected
    Tables,
    Paths,         \* names of files
    MaxSnapshot    \* bound on the snapshot ids

Operations == {"expire", "protect", "release", "cleanup", "orphans"}

ASSUME DutiesType == Duties \in [Maintainers -> SUBSET Operations]

VARIABLES
    db,        \* the metadata database
    disk,      \* the files in the data path
    txn,       \* the transaction of each client
    task,      \* the maintenance function that each maintainer runs
    used,      \* the names drawn so far (UUIDs are not drawn twice)
    orphans    \* (history) files whose owner crashed

vars == <<db, disk, txn, task, used, orphans>>

Null == 0   \* SQL NULL in end_snapshot

TableRow == [table : Tables, begin : Nat, end : Nat]
DataFile == [path : Paths, table : Tables, begin : Nat, end : Nat]
DeleteFile == [path : Paths, file : Paths, table : Tables, begin : Nat, end : Nat]

\* A row of ducklake_files_scheduled_for_deletion.  waits are the transactions
\* that were open when it was written: cleanup takes the row once it is older than
\* delete_older_than, which is to exceed the length of any transaction.
Scheduled == [path : Paths, waits : SUBSET Clients]

Database ==
    [snapshots : SUBSET Nat,             \* ducklake_snapshot
     protected : SUBSET Nat,             \* ducklake_snapshot_protection
     table : SUBSET TableRow,            \* ducklake_table
     data_file : SUBSET DataFile,        \* ducklake_data_file
     delete_file : SUBSET DeleteFile,    \* ducklake_delete_file
     scheduled : SUBSET Scheduled]       \* ducklake_files_scheduled_for_deletion

\* reads: the files of all snapshots that the transaction can query.
Transaction == [open : BOOLEAN, reads : SUBSET Paths, files : SUBSET Paths]

NoTransaction == [open |-> FALSE, reads |-> {}, files |-> {}]

\* What a maintenance function found when it was bound, and will delete or insert.
Task ==
    [op : Operations \cup {"none"},
     snapshots : SUBSET Nat,
     holds : SUBSET Nat,
     table : SUBSET TableRow,
     data_file : SUBSET DataFile,
     delete_file : SUBSET DeleteFile,
     scheduled : SUBSET Scheduled,
     paths : SUBSET Paths]     \* files that it has yet to remove

NoTask ==
    [op |-> "none", snapshots |-> {}, holds |-> {}, table |-> {}, data_file |-> {},
     delete_file |-> {}, scheduled |-> {}, paths |-> {}]

Init ==
    /\ db = [snapshots |-> {1}, protected |-> {},
             table |-> [table : Tables, begin : {1}, end : {Null}],
             data_file |-> {}, delete_file |-> {}, scheduled |-> {}]
    /\ disk = {}
    /\ txn = [c \in Clients |-> NoTransaction]
    /\ task = [m \in Maintainers |-> NoTask]
    /\ used = {}
    /\ orphans = {}

PathsOf(rows) == {x.path : x \in rows}

CatalogPaths(d) == PathsOf(d.data_file) \cup PathsOf(d.delete_file)

OpenFiles == UNION {txn[c].files : c \in Clients}

OpenClients == {c \in Clients : txn[c].open}

Newest(d) == CHOOSE s \in d.snapshots : \A r \in d.snapshots : r <= s

----------------------------------------------------------------------------
(* Transactions.                                                           *)

\* The first query fixes what the transaction's metadata connection sees.
Begin(c) ==
    /\ ~txn[c].open
    /\ txn' = [txn EXCEPT ![c] = [open |-> TRUE, reads |-> CatalogPaths(db), files |-> {}]]
    /\ UNCHANGED <<db, disk, task, used, orphans>>

WriteFile(c, p) ==
    /\ txn[c].open
    /\ p \notin used
    /\ txn' = [txn EXCEPT ![c].files = @ \cup {p}]
    /\ disk' = disk \cup {p}
    /\ used' = used \cup {p}
    /\ UNCHANGED <<db, task, orphans>>

\* The end of transaction c, as the age of the scheduled files sees it.
NoLongerWaits(scheduled, c) == {[path |-> e.path, waits |-> e.waits \ {c}] : e \in scheduled}

Rollback(c) ==
    /\ txn[c].open
    /\ disk' = disk \ txn[c].files
    /\ txn' = [txn EXCEPT ![c] = NoTransaction]
    /\ db' = [db EXCEPT !.scheduled = NoLongerWaits(@, c)]
    /\ UNCHANGED <<task, used, orphans>>

Crash(c) ==
    /\ txn[c].open
    /\ orphans' = orphans \cup txn[c].files
    /\ txn' = [txn EXCEPT ![c] = NoTransaction]
    /\ db' = [db EXCEPT !.scheduled = NoLongerWaits(@, c)]
    /\ UNCHANGED <<disk, task, used>>

LiveTable(t) == \E x \in db.table : x.table = t /\ x.end = Null

LiveFiles == {f \in db.data_file : f.end = Null /\ LiveTable(f.table)}

\* FlushDrop: rows that are live end with snapshot k.
Ended(rows, which, k) == {IF x \in which /\ x.end = Null THEN [x EXCEPT !.end = k] ELSE x : x \in rows}

NewDataFiles(paths, t, begin) == [path : paths, table : {t}, begin : {begin}, end : {Null}]

NewSchedule(paths, waits) == [path : paths, waits : {waits}]

\* A transaction commits snapshot k: tables, files and deletes are the new rows of
\* the metadata, gone the paths that it schedules for deletion.
Commit(c, k, tables, files, deletes, gone) ==
    /\ txn[c].open
    /\ k <= MaxSnapshot
    /\ db' = [snapshots |-> db.snapshots \cup {k},
              protected |-> db.protected,
              table |-> tables,
              data_file |-> files,
              delete_file |-> deletes,
              scheduled |-> NoLongerWaits(db.scheduled, c)
                                \cup NewSchedule(gone, OpenClients \ {c})]
    /\ txn' = [txn EXCEPT ![c] = NoTransaction]
    /\ UNCHANGED <<disk, task, used, orphans>>

NextSnapshot == Newest(db) + 1

CommitInsert(c, t) ==
    /\ LiveTable(t)
    /\ txn[c].files # {}
    /\ Commit(c, NextSnapshot, db.table,
              db.data_file \cup NewDataFiles(txn[c].files, t, NextSnapshot), db.delete_file, {})

\* A delete file replaces the committed one of the same data file, whose row goes
\* at once: the new file has its deletions too, and its begin_snapshot.
CommitDelete(c, f) ==
    LET old == {d \in db.delete_file : d.file = f.path /\ d.end = Null}
        begins == IF old = {} THEN {NextSnapshot} ELSE {d.begin : d \in old}
    IN  /\ \E p \in Paths : txn[c].files = {p}
        /\ Commit(c, NextSnapshot, db.table, db.data_file,
                  (db.delete_file \ old) \cup
                      [path : txn[c].files, file : {f.path}, table : {f.table},
                       begin : begins, end : {Null}],
                  PathsOf(old))

\* A file whose rows are all deleted, or that is rewritten without its deleted rows:
\* it ends with its delete files.
CommitEndFile(c, f) ==
    Commit(c, NextSnapshot, db.table,
           Ended(db.data_file, {f}, NextSnapshot)
               \cup NewDataFiles(txn[c].files, f.table, NextSnapshot),
           Ended(db.delete_file, {d \in db.delete_file : d.file = f.path}, NextSnapshot), {})

\* merge_adjacent_files takes files that never had a delete file; the merged file
\* takes their place in all snapshots.
CommitMerge(c, S) ==
    /\ Cardinality(S) >= 2
    /\ \A f, g \in S : f.table = g.table
    /\ \A f \in S : ~\E d \in db.delete_file : d.file = f.path
    /\ \E p \in Paths : txn[c].files = {p}
    /\ \E first \in S :
        /\ \A f \in S : first.begin <= f.begin
        /\ Commit(c, NextSnapshot, db.table,
                  (db.data_file \ S) \cup NewDataFiles(txn[c].files, first.table, first.begin),
                  db.delete_file, PathsOf(S))

\* A renamed table has a second row.
CommitRename(c, t) ==
    /\ LiveTable(t)
    /\ txn[c].files = {}
    /\ Commit(c, NextSnapshot,
              Ended(db.table, {x \in db.table : x.table = t}, NextSnapshot)
                  \cup [table : {t}, begin : {NextSnapshot}, end : {Null}],
              db.data_file, db.delete_file, {})

\* DROP TABLE: the files that the transaction itself wrote for the table are
\* registered after DropTables, and stay live.
CommitDrop(c, t) ==
    /\ LiveTable(t)
    /\ Commit(c, NextSnapshot,
              Ended(db.table, {x \in db.table : x.table = t}, NextSnapshot),
              Ended(db.data_file, {f \in db.data_file : f.table = t}, NextSnapshot)
                  \cup NewDataFiles(txn[c].files, t, NextSnapshot),
              Ended(db.delete_file, {d \in db.delete_file : d.table = t}, NextSnapshot), {})

----------------------------------------------------------------------------
(* Maintenance functions.                                                  *)

\* The row is visible at one of the snapshots.
Covers(x, snapshots) == \E s \in snapshots : x.begin <= s /\ (x.end = Null \/ s < x.end)

DeadRows(rows, snapshots) == {x \in rows : x.end # Null /\ ~Covers(x, snapshots)}

\* (mutation) A table is dead if one of its rows is.
DeadTableRowsOfAny(d, snapshots) ==
    {x \in d.table : \E y \in DeadRows(d.table, snapshots) : y.table = x.table}

\* The rows of the tables that no row makes visible any more.
DeadTableRows(d, snapshots) ==
    {x \in d.table : {y \in d.table : y.table = x.table} \subseteq DeadRows(d.table, snapshots)}

\* (mutation) The delete files of dead data files are not looked for.
DeleteSnapshotsOnly(d, expired) ==
    LET kept == d.snapshots \ expired
        tables == DeadTableRows(d, kept)
        dead == {x.table : x \in tables}
        files == DeadRows(d.data_file, kept) \cup {f \in d.data_file : f.table \in dead}
        deletes == {}
    IN  [op |-> "expire", snapshots |-> expired, holds |-> expired \cap d.protected,
         table |-> tables, data_file |-> files, delete_file |-> deletes,
         scheduled |-> {}, paths |-> {}]

\* DeleteSnapshots: the snapshots with their holds, and everything that no
\* remaining snapshot can see.
DeleteSnapshots(d, expired) ==
    LET kept == d.snapshots \ expired
        tables == DeadTableRows(d, kept)
        dead == {x.table : x \in tables}
        files == DeadRows(d.data_file, kept) \cup {f \in d.data_file : f.table \in dead}
        deletes == DeadRows(d.delete_file, kept) \cup
                   {x \in d.delete_file : x.table \in dead \/ x.file \in PathsOf(files)}
    IN  [op |-> "expire", snapshots |-> expired, holds |-> expired \cap d.protected,
         table |-> tables, data_file |-> files, delete_file |-> deletes,
         scheduled |-> {}, paths |-> {}]

\* A maintenance function is bound to what it will do.
Bind(m, t) ==
    /\ task[m].op = "none"
    /\ t.op \in Duties[m]
    /\ task' = [task EXCEPT ![m] = t]
    /\ UNCHANGED <<db, disk, txn, used, orphans>>

\* (mutation) The newest snapshot may be expired.
ExpirableAll(force) == db.snapshots \ (IF force THEN {} ELSE db.protected)

\* Never the newest snapshot, and protected ones only by force.
Expirable(force) ==
    (db.snapshots \ {Newest(db)}) \ (IF force THEN {} ELSE db.protected)

ExpireSnapshots(m, selected) ==
    /\ selected # {}
    /\ Bind(m, DeleteSnapshots(db, selected))

\* Snapshots that do not exist or already have a hold are left out.
ProtectSnapshots(m, selected) ==
    /\ selected \subseteq db.snapshots \ db.protected
    /\ selected # {}
    /\ Bind(m, [NoTask EXCEPT !.op = "protect", !.holds = selected])

ReleaseSnapshots(m, selected) ==
    /\ selected \subseteq db.snapshots \cap db.protected
    /\ selected # {}
    /\ Bind(m, [NoTask EXCEPT !.op = "release", !.holds = selected])

\* (mutation) The age of the scheduled files is not looked at.
OldFilesOfAnyAge == db.scheduled

\* GetOldFilesForCleanup
OldFiles == {e \in db.scheduled : e.waits = {}}

CleanupOldFiles(m) ==
    /\ OldFiles # {}
    /\ Bind(m, [NoTask EXCEPT !.op = "cleanup", !.scheduled = OldFiles, !.paths = PathsOf(OldFiles)])

\* (mutation) Delete files are not known.
KnownFilesWithoutDeletes ==
    LET tables == {x.table : x \in db.table} IN
    PathsOf({f \in db.data_file : f.table \in tables}) \cup PathsOf(db.scheduled)

\* GetKnownFilesForCleanupQuery: the rows of files joined with those of their tables.
KnownFiles ==
    LET tables == {x.table : x \in db.table} IN
    PathsOf({f \in db.data_file : f.table \in tables}) \cup
    PathsOf({d \in db.delete_file : d.table \in tables}) \cup
    PathsOf(db.scheduled)

\* The files on disk that the metadata does not know and that are old: their
\* transactions have ended.
OrphanFiles == (disk \ OpenFiles) \ KnownFiles

DeleteOrphanedFiles(m) ==
    /\ OrphanFiles # {}
    /\ Bind(m, [NoTask EXCEPT !.op = "orphans", !.paths = OrphanFiles])

\* Files are removed before the metadata transaction commits.
RemoveFiles(m) ==
    /\ task[m].paths # {}
    /\ disk' = disk \ task[m].paths
    /\ task' = [task EXCEPT ![m].paths = {}]
    /\ UNCHANGED <<db, txn, used, orphans>>

\* The rows that the task deletes are as it saw them, and a hold that it inserts
\* is new: otherwise the metadata database refuses the transaction.
CanCommit(t) ==
    /\ t.paths = {}
    /\ t.snapshots \subseteq db.snapshots
    /\ t.table \subseteq db.table
    /\ t.data_file \subseteq db.data_file
    /\ t.delete_file \subseteq db.delete_file
    /\ t.scheduled \subseteq db.scheduled
    /\ IF t.op = "protect" THEN t.holds \cap db.protected = {} ELSE t.holds \subseteq db.protected

\* (mutation) Delete files are not scheduled.
CommitTaskForgettingDeletes(m) ==
    LET t == task[m] IN
    /\ t.op # "none"
    /\ CanCommit(t)
    /\ db' = [snapshots |-> db.snapshots \ t.snapshots,
              protected |-> IF t.op = "protect" THEN db.protected \cup t.holds
                            ELSE db.protected \ t.holds,
              table |-> db.table \ t.table,
              data_file |-> db.data_file \ t.data_file,
              delete_file |-> db.delete_file \ t.delete_file,
              scheduled |-> (db.scheduled \ t.scheduled)
                  \cup NewSchedule(PathsOf(t.data_file), OpenClients)]
    /\ task' = [task EXCEPT ![m] = NoTask]
    /\ UNCHANGED <<disk, txn, used, orphans>>

\* The transaction of the maintenance function commits; files whose rows go are
\* scheduled for deletion.
CommitTask(m) ==
    LET t == task[m] IN
    /\ t.op # "none"
    /\ CanCommit(t)
    /\ db' = [snapshots |-> db.snapshots \ t.snapshots,
              protected |-> IF t.op = "protect" THEN db.protected \cup t.holds
                            ELSE db.protected \ t.holds,
              table |-> db.table \ t.table,
              data_file |-> db.data_file \ t.data_file,
              delete_file |-> db.delete_file \ t.delete_file,
              scheduled |-> (db.scheduled \ t.scheduled)
                  \cup NewSchedule(PathsOf(t.data_file) \cup PathsOf(t.delete_file), OpenClients)]
    /\ task' = [task EXCEPT ![m] = NoTask]
    /\ UNCHANGED <<disk, txn, used, orphans>>

\* A refused commit, a ROLLBACK, or a crash, also between the removal of files and
\* the commit.
AbandonTask(m) ==
    /\ task[m].op # "none"
    /\ task' = [task EXCEPT ![m] = NoTask]
    /\ UNCHANGED <<db, disk, txn, used, orphans>>

----------------------------------------------------------------------------

TransactionStep(c) ==
    \/ Begin(c)
    \/ \E p \in Paths : WriteFile(c, p)
    \/ Rollback(c)
    \/ Crash(c)
    \/ \E t \in Tables : CommitInsert(c, t) \/ CommitRename(c, t) \/ CommitDrop(c, t)
    \/ \E f \in LiveFiles : CommitDelete(c, f) \/ CommitEndFile(c, f)
    \/ \E S \in SUBSET LiveFiles : CommitMerge(c, S)

TaskStep(m) ==
    \/ \E force \in BOOLEAN : \E S \in SUBSET Expirable(force) : ExpireSnapshots(m, S)
    \/ \E S \in SUBSET (db.snapshots \cap Holdable) : ProtectSnapshots(m, S) \/ ReleaseSnapshots(m, S)
    \/ CleanupOldFiles(m)
    \/ DeleteOrphanedFiles(m)
    \/ RemoveFiles(m)
    \/ CommitTask(m)
    \/ AbandonTask(m)

Next == (\E c \in Clients : TransactionStep(c)) \/ (\E m \in Maintainers : TaskStep(m))

Spec == Init /\ [][Next]_vars

----------------------------------------------------------------------------
(* Properties.                                                             *)

\* The variables have their types, and a path has one row.
TypeOK ==
    /\ db \in Database
    /\ \A x, y \in db.data_file : x.path = y.path => x = y
    /\ \A x, y \in db.delete_file : x.path = y.path => x = y
    /\ disk \subseteq Paths
    /\ txn \in [Clients -> Transaction]
    /\ task \in [Maintainers -> Task]
    /\ used \subseteq Paths
    /\ orphans \subseteq Paths

\* Every file that the metadata refers to is on disk: neither cleanup takes one
\* that a retained snapshot needs, whatever is committed, expired or cleaned up
\* between the time it chooses its files and the time it removes them.
CatalogFilesExist == CatalogPaths(db) \subseteq disk

\* A transaction finds every file of the snapshots it began with, although they may
\* have been merged, overwritten or expired since.
ReadersFindFiles == \A c \in Clients : txn[c].reads \subseteq disk

\* Every file on disk is referred to, scheduled, or part of an open transaction,
\* but for those that a crash left: expiry loses track of none.
EveryFileHasAnOwner ==
    disk \subseteq CatalogPaths(db) \cup PathsOf(db.scheduled) \cup OpenFiles \cup orphans

\* What a query at snapshot s reads.
VisibleAt(d, s) ==
    LET tables == {x.table : x \in {y \in d.table : Covers(y, {s})}}
        files == {f \in d.data_file : f.table \in tables /\ Covers(f, {s})}
    IN  [tables |-> tables, files |-> files,
         deletes |-> {x \in d.delete_file : x.file \in PathsOf(files) /\ Covers(x, {s})}]

\* Expiring snapshots changes nothing at those that remain, not even if others
\* commit while the expiry runs: only a commit changes what a snapshot shows.
ExpiryKeepsOtherSnapshots ==
    [][db'.snapshots \subseteq db.snapshots =>
        \A s \in db'.snapshots : VisibleAt(db', s) = VisibleAt(db, s)]_vars

\* The rows of files that no retained snapshot can see are gone, so the files are
\* scheduled: an expiry misses none.
NothingDeadIsKept ==
    /\ DeadRows(db.data_file, db.snapshots) = {}
    /\ DeadRows(db.delete_file, db.snapshots) = {}
    /\ \A x \in db.data_file \cup db.delete_file :
        \E y \in db.table : y.table = x.table /\ (y.end = Null \/ Covers(y, db.snapshots))

\* The newest snapshot is never expired, so the next commit does not use its id
\* again for other contents.
SnapshotIdsNotReused ==
    [][\E s \in db'.snapshots : \A r \in db.snapshots : r <= s]_vars

============================================================================
