-------------------------- MODULE SnapshotCommit ---------------------------
(***************************************************************************)
(* The commit protocol of DuckLake transactions.                           *)
(*                                                                         *)
(* All clients share one metadata database and one store of data files.    *)
(* ducklake_snapshot has one row per committed snapshot, with the snapshot *)
(* id as its primary key; a transaction commits by inserting the row whose *)
(* id is one above the snapshot it last read, so that of two transactions  *)
(* with the same predecessor one gets a primary key error, rolls back, and *)
(* after a pause tries again on top of the other, if what it did does not  *)
(* conflict with what has been committed since it began.                   *)
(*                                                                         *)
(* log[k] is what the metadata database holds of snapshot k; the contents  *)
(* of the tables are left to the modules that extend this one, which       *)
(* conjoin their own state changes to the actions below.                   *)
(***************************************************************************)
EXTENDS Naturals, Sequences, FiniteSets, ConflictRules

CONSTANTS
    Clients,        \* connections that run DuckLake transactions
    Paths,          \* names of data and delete files (drawn as UUIDs by the code)
    ChangeSets,     \* the change informations that transactions may have
    MaxRetryCount,  \* the setting ducklake_max_retry_count
    CanFail,        \* whether processes and the metadata database may fail
    MaxSnapshot     \* bound on the number of snapshots

ASSUME PathsFinite == IsFiniteSet(Paths)
ASSUME ChangeSetsType == ChangeSets \subseteq ChangeInfo
ASSUME MaxRetryCountType == MaxRetryCount \in Nat
ASSUME CanFailType == CanFail \in BOOLEAN

VARIABLES
    log,      \* the committed snapshots with their changes
    txn,      \* the transaction of each client
    disk,     \* the files in the data path
    orphans   \* (history) files whose owner crashed before it committed or cleaned up

commitVars == <<log, txn, disk, orphans>>

Phases == {"idle", "active", "executing", "backoff"}

Transaction ==
    [phase : Phases,
     snap : Nat,                  \* the snapshot the transaction reads
     base : Nat,                  \* the snapshot this attempt builds on
     attempt : Nat,               \* i of the loop in Commit
     faults : Nat,                \* (history) the attempts that the database itself failed
     changes : ChangeInfo,        \* GetTransactionChanges
     files : SUBSET Paths]        \* the files the transaction has written

Snapshot ==
    [snap : Nat,                  \* (history) the snapshot its transaction read
     own : ChangeInfo,            \* (history) all the changes of its transaction
     changes : RecordedChanges,   \* ducklake_snapshot_changes
     files : SUBSET Paths,        \* (history) the files it registered
     first_file_id : Nat,         \* (history) the first file id it handed out
     next_file_id : Nat,
     schema_version : Nat]

NoTransaction ==
    [phase |-> "idle", snap |-> 0, base |-> 0, attempt |-> 0, faults |-> 0,
     changes |-> {}, files |-> {}]

NewTransaction(snapshot) ==
    [phase |-> "active", snap |-> snapshot, base |-> 0, attempt |-> 0, faults |-> 0,
     changes |-> {}, files |-> {}]

\* ChangesMade: a DELETE that was attempted but matched nothing is no change.
ChangesMade(changes) ==
    \E x \in changes : x[1] # "delete_attempted"

\* Snapshot 1: the tables have been created and are empty.
CommitInit ==
    /\ log = << [snap |-> 0, own |-> {}, changes |-> {}, files |-> {},
                 first_file_id |-> 0, next_file_id |-> 0, schema_version |-> 1] >>
    /\ txn = [c \in Clients |-> NoTransaction]
    /\ disk = {}
    /\ orphans = {}

\* DuckLakeTransaction::GetSnapshot reads the newest snapshot, once per transaction.
Begin(c) ==
    /\ txn[c].phase = "idle"
    /\ txn' = [txn EXCEPT ![c] = NewTransaction(Len(log))]
    /\ UNCHANGED <<log, disk, orphans>>

RegisteredFiles == UNION {log[k].files : k \in 1 .. Len(log)}

OpenFiles == UNION {txn[c].files : c \in Clients}

\* The names in use.  A new name is a fresh UUID.
KnownFiles == disk \cup RegisteredFiles \cup OpenFiles \cup orphans

\* A statement of the transaction: it writes the files new, removes the files
\* gone that the transaction wrote earlier, and leaves it with the changes ch.
Work(c, ch, new, gone) ==
    /\ txn[c].phase = "active"
    /\ new \cap KnownFiles = {}
    /\ gone \subseteq txn[c].files
    /\ txn' = [txn EXCEPT ![c].changes = ch, ![c].files = (@ \ gone) \cup new]
    /\ disk' = (disk \ gone) \cup new
    /\ UNCHANGED <<log, orphans>>

\* CleanupFiles removes the files the transaction wrote.
CleanupFiles(c) ==
    disk' = disk \ txn[c].files

EndTransaction(c) ==
    txn' = [txn EXCEPT ![c] = NoTransaction]

Rollback(c) ==
    /\ txn[c].phase = "active"
    /\ CleanupFiles(c)
    /\ EndTransaction(c)
    /\ UNCHANGED <<log, orphans>>

\* COMMIT of a transaction without changes only ends it.  The files are those of
\* changes that the transaction has itself undone: there are none left.
CommitNothing(c) ==
    /\ txn[c].phase = "active"
    /\ ~ChangesMade(txn[c].changes)
    /\ EndTransaction(c)
    /\ UNCHANGED <<log, disk, orphans>>

\* FlushChanges: the first attempt builds on the transaction's own snapshot and
\* is made without looking for conflicts.
CommitStart(c) ==
    /\ txn[c].phase = "active"
    /\ ChangesMade(txn[c].changes)
    /\ txn' = [txn EXCEPT ![c].phase = "executing", ![c].base = txn[c].snap]
    /\ UNCHANGED <<log, disk, orphans>>

\* (mutation) A retry continues the counters of the transaction's own snapshot.
NewSnapshotFromOwnCounters(t) ==
    LET previous == log[t.snap] IN
    [snap |-> t.snap,
     own |-> t.changes,
     changes |-> WriteSnapshotChanges(t.changes),
     files |-> t.files,
     first_file_id |-> previous.next_file_id,
     next_file_id |-> previous.next_file_id + Cardinality(t.files),
     schema_version |-> previous.schema_version + (IF SchemaChangesMade(t.changes) THEN 1 ELSE 0)]

\* The row of the new snapshot: the counters continue those of the snapshot the
\* attempt builds on, and each file takes one file id.
NewSnapshot(t) ==
    LET previous == log[t.base] IN
    [snap |-> t.snap,
     own |-> t.changes,
     changes |-> WriteSnapshotChanges(t.changes),
     files |-> t.files,
     first_file_id |-> previous.next_file_id,
     next_file_id |-> previous.next_file_id + Cardinality(t.files),
     schema_version |-> previous.schema_version + (IF SchemaChangesMade(t.changes) THEN 1 ELSE 0)]

\* The batch is executed and committed: no row has the new snapshot's id yet.
ExecuteCommitBatch(c) ==
    /\ txn[c].phase = "executing"
    /\ Len(log) = txn[c].base
    /\ ~MixesCompaction(txn[c].changes)
    /\ log' = Append(log, NewSnapshot(txn[c]))
    /\ EndTransaction(c)
    /\ UNCHANGED <<disk, orphans>>

\* (mutation) The files are removed before it is known that there is no retry.
RetryAfterCleanup(c, fault) ==
    /\ CleanupFiles(c)
    /\ \/ /\ txn[c].attempt < MaxRetryCount
          /\ txn' = [txn EXCEPT ![c].phase = "backoff", ![c].faults = @ + fault]
       \/ /\ txn[c].attempt >= MaxRetryCount
          /\ EndTransaction(c)

\* The handler of an error that may be retried: pause, or give up after the
\* last permitted attempt.
RetryOrGiveUp(c, fault) ==
    \/ /\ txn[c].attempt < MaxRetryCount
       /\ txn' = [txn EXCEPT ![c].phase = "backoff", ![c].faults = @ + fault]
       /\ UNCHANGED disk
    \/ /\ txn[c].attempt >= MaxRetryCount
       /\ CleanupFiles(c)
       /\ EndTransaction(c)

\* Another transaction committed first: inserting the snapshot row violates the
\* primary key.
SnapshotIdTaken(c) ==
    /\ txn[c].phase = "executing"
    /\ Len(log) # txn[c].base
    /\ ~MixesCompaction(txn[c].changes)
    /\ RetryOrGiveUp(c, 0)
    /\ UNCHANGED <<log, orphans>>

\* The metadata database reports some other error that is worth a retry.
TransientError(c) ==
    /\ CanFail
    /\ txn[c].phase = "executing"
    /\ RetryOrGiveUp(c, 1)
    /\ UNCHANGED <<log, orphans>>

\* An error that is not, or any error while the next attempt looks for conflicts:
\* the commit is abandoned.
FatalError(c) ==
    /\ \/ CanFail /\ txn[c].phase \in {"executing", "backoff"}
       \/ txn[c].phase = "executing" /\ MixesCompaction(txn[c].changes)
    /\ CleanupFiles(c)
    /\ EndTransaction(c)
    /\ UNCHANGED <<log, orphans>>

\* (mutation) The first foreign snapshot is skipped.
CommittedSinceButOne(t) == (t.snap + 2) .. Len(log)

\* The snapshots committed since transaction t began.
CommittedSince(t) == (t.snap + 1) .. Len(log)

\* CheckForConflicts.  deletedFiles says whether a file that the transaction
\* deletes from is among the files that were deleted from or dropped meanwhile.
HasConflict(t, deletedFiles) ==
    \E k \in CommittedSince(t) :
        \/ ConflictCheck(t.changes, log[k].changes)
        \/ DeletesMayMatch(t.changes, log[k].changes) /\ deletedFiles

\* (mutation) Each attempt is counted as the first.
RetryAfresh(c, deletedFiles) ==
    /\ txn[c].phase = "backoff"
    /\ ~HasConflict(txn[c], deletedFiles)
    /\ txn' = [txn EXCEPT ![c].phase = "executing", ![c].base = Len(log),
                          ![c].attempt = 0, ![c].faults = 0]
    /\ UNCHANGED <<log, disk, orphans>>

\* (mutation) The next attempt builds on the snapshot that the last one built on.
RetryOnSameBase(c, deletedFiles) ==
    /\ txn[c].phase = "backoff"
    /\ ~HasConflict(txn[c], deletedFiles)
    /\ txn' = [txn EXCEPT ![c].phase = "executing", ![c].attempt = @ + 1]
    /\ UNCHANGED <<log, disk, orphans>>

\* The next iteration of the loop in Commit, up to the batch.
Retry(c, deletedFiles) ==
    /\ txn[c].phase = "backoff"
    /\ ~HasConflict(txn[c], deletedFiles)
    /\ txn' = [txn EXCEPT ![c].phase = "executing", ![c].base = Len(log),
                          ![c].attempt = @ + 1]
    /\ UNCHANGED <<log, disk, orphans>>

\* (mutation) A conflict ends the transaction without CleanupFiles.
AbortWithoutCleanup(c, deletedFiles) ==
    /\ txn[c].phase = "backoff"
    /\ HasConflict(txn[c], deletedFiles)
    /\ EndTransaction(c)
    /\ UNCHANGED <<log, disk, orphans>>

AbortOnConflict(c, deletedFiles) ==
    /\ txn[c].phase = "backoff"
    /\ HasConflict(txn[c], deletedFiles)
    /\ CleanupFiles(c)
    /\ EndTransaction(c)
    /\ UNCHANGED <<log, orphans>>

\* The process dies; the metadata database rolls its transaction back.
Crash(c) ==
    /\ CanFail
    /\ txn[c].phase # "idle"
    /\ orphans' = orphans \cup txn[c].files
    /\ EndTransaction(c)
    /\ UNCHANGED <<log, disk>>

----------------------------------------------------------------------------
\* Bound on the log: as many transactions may have changes as there is room for
\* snapshots.
RoomFor(c) ==
    Len(log) + Cardinality({d \in Clients \ {c} : ChangesMade(txn[d].changes)}) < MaxSnapshot

\* Any statement, for a client whose tables this module does not know.
AnyWork(c) ==
    /\ RoomFor(c)
    /\ \E ch \in ChangeSets, new \in SUBSET Paths, gone \in SUBSET txn[c].files :
        /\ ~ChangesMade(ch) => (txn[c].files \ gone) \cup new = {}
        /\ Work(c, ch, new, gone)

CommitNext ==
    \E c \in Clients :
        \/ Begin(c)
        \/ AnyWork(c)
        \/ Rollback(c)
        \/ CommitNothing(c)
        \/ CommitStart(c)
        \/ ExecuteCommitBatch(c)
        \/ SnapshotIdTaken(c)
        \/ TransientError(c)
        \/ FatalError(c)
        \/ \E deletedFiles \in BOOLEAN : Retry(c, deletedFiles)
        \/ \E deletedFiles \in BOOLEAN : AbortOnConflict(c, deletedFiles)
        \/ Crash(c)

CommitSpec == CommitInit /\ [][CommitNext]_commitVars

\* A COMMIT runs to its end on the thread of the client that issued it: the loop
\* takes its next step whenever it can.
CommitLoop(c) ==
    \/ ExecuteCommitBatch(c)
    \/ SnapshotIdTaken(c)
    \/ TransientError(c)
    \/ FatalError(c)
    \/ \E deletedFiles \in BOOLEAN : Retry(c, deletedFiles) \/ AbortOnConflict(c, deletedFiles)

FairCommitSpec == CommitSpec /\ \A c \in Clients : WF_commitVars(CommitLoop(c))

----------------------------------------------------------------------------
(* Properties.                                                             *)

\* The variables have their types; in particular ducklake_snapshot_changes holds
\* only the kinds of changes that ParseChangesMade knows.
CommitTypeOK ==
    /\ log \in Seq(Snapshot)
    /\ txn \in [Clients -> Transaction]
    /\ disk \subseteq Paths
    /\ orphans \subseteq Paths

\* First committer wins.  A snapshot never holds a change that conflicts, by the
\* rules of CheckForConflicts, with a snapshot that was committed after its
\* transaction had read its own: not when the first attempt succeeds without any
\* check, and not when others commit between a check and the next attempt.
FirstCommitterWins ==
    \A j \in 1 .. Len(log) : \A i \in (log[j].snap + 1) .. (j - 1) :
        ~ConflictCheck(log[j].own, log[i].changes)

\* File ids are never handed out twice: the ids that a commit takes from
\* next_file_id lie above those of every earlier snapshot, whatever the number
\* of attempts it needed.
FileIdsUnique ==
    \A i, j \in 1 .. Len(log) : i < j => log[i].next_file_id <= log[j].first_file_id

\* A schema version stands for one schema: the catalog caches the schema under
\* its version, so no schema change may lie between two snapshots that have the
\* same schema_version.
SchemaVersionKeysSchema ==
    \A i, j \in 1 .. Len(log) :
        i < j /\ log[i].schema_version = log[j].schema_version =>
            \A k \in (i + 1) .. j : ~SchemaChangesMade(log[k].own)

\* A file that a committed snapshot registers is on disk: no rollback, retry or
\* abort of this or another client has removed it.
RegisteredFilesExist == RegisteredFiles \subseteq disk

\* Every file on disk is registered, belongs to a transaction that is still
\* open, or was left behind by a crash: an error path of the commit loop leaks none.
NoLeakedFiles == disk \subseteq RegisteredFiles \cup OpenFiles \cup orphans

\* A transaction only has to retry when another one has committed since: of the
\* attempts that failed, each that was not failed by the database itself means one
\* more foreign snapshot.
RetriesMeanCommits ==
    \A c \in Clients :
        /\ txn[c].phase = "executing" =>
              txn[c].snap + txn[c].attempt <= txn[c].base + txn[c].faults
        /\ txn[c].phase = "backoff" =>
              txn[c].snap + txn[c].attempt < Len(log) + txn[c].faults

\* A COMMIT ends, with success or with an error, however often it is overtaken.
CommitEnds ==
    \A c \in Clients : txn[c].phase = "executing" ~> txn[c].phase = "idle"
============================================================================
