----------------------- MODULE SnapshotCommitProofs ------------------------
(***************************************************************************)
(* Proofs about the commit protocol, for any number of clients, tables,    *)
(* files, retries and snapshots.                                           *)
(***************************************************************************)
EXTENDS SnapshotCommit, FiniteSetTheorems, TLAPS

\* A transaction reads a snapshot of the log, and an attempt builds on that
\* snapshot or a later one of the log.
SnapshotsInLog ==
    /\ Len(log) \in Nat \ {0}
    /\ \A c \in Clients : txn[c].phase # "idle" => txn[c].snap \in 1 .. Len(log)
    /\ \A c \in Clients : txn[c].phase = "executing" => txn[c].base \in txn[c].snap .. Len(log)

\* The type invariant with what it needs to be inductive.
TypeInv == CommitTypeOK /\ SnapshotsInLog

----------------------------------------------------------------------------
(* The operators.                                                          *)

LEMMA NoTransactionType == NoTransaction \in Transaction
BY DEF NoTransaction, Transaction, Phases, ChangeInfo

\* What a commit writes is a row of the right type: its counters continue those
\* of a row that the log has.
LEMMA NewSnapshotType ==
    ASSUME TypeInv, NEW t \in Transaction, t.base \in 1 .. Len(log)
    PROVE  NewSnapshot(t) \in Snapshot
<1>1. log[t.base] \in Snapshot
  BY DEF TypeInv, CommitTypeOK
<1>2. IsFiniteSet(t.files)
  BY PathsFinite, FS_Subset DEF Transaction
<1>3. Cardinality(t.files) \in Nat
  BY <1>2, FS_CardinalityType
<1>4. t.changes \in ChangeInfo /\ WriteSnapshotChanges(t.changes) \in RecordedChanges
  BY DEF Transaction, ChangeInfo, RecordedChanges, WriteSnapshotChanges
<1>5. log[t.base].next_file_id \in Nat /\ log[t.base].schema_version \in Nat
  BY <1>1 DEF Snapshot
<1>6. (IF SchemaChangesMade(t.changes) THEN 1 ELSE 0) \in Nat
  OBVIOUS
<1> QED
  BY <1>3, <1>4, <1>5, <1>6, SMTT(60) DEF NewSnapshot, Snapshot, Transaction

\* A step leaves the log as it is, or is the batch of one client that appends a row.
LEMMA LogGrowsByCommits ==
    ASSUME [CommitNext]_commitVars
    PROVE  \/ log' = log
           \/ \E c \in Clients : ExecuteCommitBatch(c)
<1>1. CASE UNCHANGED commitVars
  BY <1>1, SMTT(60) DEF commitVars
<1>2. CASE CommitNext
  BY <1>2, ZenonT(60) DEF CommitNext, Begin, AnyWork, Work, Rollback, CommitNothing, CommitStart,
       SnapshotIdTaken, TransientError, FatalError, Retry, AbortOnConflict, Crash
<1> QED
  BY <1>1, <1>2

----------------------------------------------------------------------------
(* The type invariant.                                                     *)

LEMMA TypeInvInit == CommitInit => TypeInv
<1> SUFFICES ASSUME CommitInit PROVE TypeInv
  OBVIOUS
<1> DEFINE first == [snap |-> 0, own |-> {}, changes |-> {}, files |-> {},
                     first_file_id |-> 0, next_file_id |-> 0, schema_version |-> 1]
<1>1. first \in Snapshot
  BY DEF Snapshot, ChangeInfo, RecordedChanges
<1>2. log = <<first>>
  BY DEF CommitInit
<1>3. log \in Seq(Snapshot) /\ Len(log) = 1
  BY <1>1, <1>2
<1>4. txn \in [Clients -> Transaction] /\ \A c \in Clients : txn[c].phase = "idle"
  BY NoTransactionType DEF CommitInit, NoTransaction
<1> QED
  BY <1>3, <1>4 DEF CommitInit, TypeInv, CommitTypeOK, SnapshotsInLog

LEMMA TypeInvNext == TypeInv /\ [CommitNext]_commitVars => TypeInv'
<1> SUFFICES ASSUME TypeInv, [CommitNext]_commitVars PROVE TypeInv'
  OBVIOUS
<1> USE NoTransactionType DEF TypeInv, CommitTypeOK, SnapshotsInLog
<1>1. CASE UNCHANGED commitVars
  BY <1>1 DEF commitVars
<1>2. ASSUME NEW c \in Clients, Begin(c) PROVE TypeInv'
  <2>1. NewTransaction(Len(log)) \in Transaction
    BY DEF NewTransaction, Transaction, Phases, ChangeInfo
  <2> QED
    BY <1>2, <2>1 DEF Begin, NewTransaction
<1>3. ASSUME NEW c \in Clients, AnyWork(c) PROVE TypeInv'
  <2>1. PICK ch \in ChangeSets, new \in SUBSET Paths, gone \in SUBSET txn[c].files : Work(c, ch, new, gone)
    BY <1>3 DEF AnyWork
  <2>2. ch \in ChangeInfo
    BY ChangeSetsType
  <2> QED
    BY <2>1, <2>2, ZenonT(60) DEF Work, Transaction
<1>4. ASSUME NEW c \in Clients, Rollback(c) PROVE TypeInv'
  BY <1>4 DEF Rollback, CleanupFiles, EndTransaction, NoTransaction
<1>5. ASSUME NEW c \in Clients, CommitNothing(c) PROVE TypeInv'
  BY <1>5 DEF CommitNothing, EndTransaction, NoTransaction
<1>6. ASSUME NEW c \in Clients, CommitStart(c) PROVE TypeInv'
  <2>1. txn' \in [Clients -> Transaction]
    BY <1>6, ZenonT(60) DEF CommitStart, Transaction, Phases
  <2>2. /\ txn'[c].snap = txn[c].snap
        /\ txn'[c].base = txn[c].snap
        /\ \A d \in Clients \ {c} : txn'[d] = txn[d]
    BY <1>6 DEF CommitStart
  <2>3. SnapshotsInLog'
    BY <1>6, <2>2, SMTT(60) DEF CommitStart, Transaction
  <2> QED
    BY <1>6, <2>1, <2>3 DEF CommitStart
<1>7. ASSUME NEW c \in Clients, ExecuteCommitBatch(c) PROVE TypeInv'
  <2>1. NewSnapshot(txn[c]) \in Snapshot
    BY <1>7, NewSnapshotType DEF ExecuteCommitBatch
  <2> QED
    BY <1>7, <2>1 DEF ExecuteCommitBatch, EndTransaction, NoTransaction
<1>8. ASSUME NEW c \in Clients, SnapshotIdTaken(c) \/ TransientError(c) PROVE TypeInv'
  <2>1. PICK fault \in {0, 1} :
           txn[c].phase = "executing" /\ RetryOrGiveUp(c, fault) /\ UNCHANGED <<log, orphans>>
    BY <1>8 DEF SnapshotIdTaken, TransientError
  <2>2. CASE txn' = [txn EXCEPT ![c].phase = "backoff", ![c].faults = @ + fault] /\ UNCHANGED disk
    <3>1. txn[c].faults + fault \in Nat
      BY DEF Transaction
    <3> QED
      BY <2>1, <2>2, <3>1, ZenonT(60) DEF Transaction, Phases
  <2>3. CASE CleanupFiles(c) /\ EndTransaction(c)
    BY <2>1, <2>3 DEF CleanupFiles, EndTransaction, NoTransaction
  <2> QED
    BY <2>1, <2>2, <2>3 DEF RetryOrGiveUp
<1>9. ASSUME NEW c \in Clients, FatalError(c) PROVE TypeInv'
  BY <1>9 DEF FatalError, CleanupFiles, EndTransaction, NoTransaction
<1>10. ASSUME NEW c \in Clients, NEW deletedFiles \in BOOLEAN, Retry(c, deletedFiles) PROVE TypeInv'
  <2>1. txn[c].attempt + 1 \in Nat /\ Len(log) \in Nat
    BY DEF Transaction
  <2>2. txn' \in [Clients -> Transaction]
    BY <1>10, <2>1, SMTT(60) DEF Retry, Transaction, Phases
  <2>3. /\ txn'[c].snap = txn[c].snap
        /\ txn'[c].base = Len(log)
        /\ \A d \in Clients \ {c} : txn'[d] = txn[d]
    BY <1>10 DEF Retry
  <2>4. SnapshotsInLog'
    BY <1>10, <2>3, SMTT(60) DEF Retry, Transaction
  <2> QED
    BY <1>10, <2>2, <2>4 DEF Retry
<1>11. ASSUME NEW c \in Clients, NEW deletedFiles \in BOOLEAN, AbortOnConflict(c, deletedFiles) PROVE TypeInv'
  BY <1>11 DEF AbortOnConflict, CleanupFiles, EndTransaction, NoTransaction
<1>12. ASSUME NEW c \in Clients, Crash(c) PROVE TypeInv'
  BY <1>12 DEF Crash, EndTransaction, NoTransaction, Transaction
<1> QED
  BY <1>1, <1>2, <1>3, <1>4, <1>5, <1>6, <1>7, <1>8, <1>9, <1>10, <1>11, <1>12 DEF CommitNext

LEMMA TypeInvariance == CommitSpec => []TypeInv
BY TypeInvInit, TypeInvNext, PTL DEF CommitSpec

\* The variables of the protocol always have their types.
THEOREM TypeCorrect == CommitSpec => []CommitTypeOK
BY TypeInvariance, PTL DEF TypeInv

----------------------------------------------------------------------------
(* The counters of the snapshots.                                          *)

LEMMA CounterTypes ==
    ASSUME TypeInv, NEW i \in 1 .. Len(log)
    PROVE  /\ log[i].snap \in Nat
           /\ log[i].first_file_id \in Nat
           /\ log[i].next_file_id \in Nat
           /\ log[i].schema_version \in Nat
<1>1. log[i] \in Snapshot
  BY DEF TypeInv, CommitTypeOK
<1> QED
  BY <1>1 DEF Snapshot

\* A commit adds one row, whose counters continue those of the last row.
LEMMA CommitAppends ==
    ASSUME TypeInv, NEW c \in Clients, ExecuteCommitBatch(c)
    PROVE  LET n == Len(log)
               files == Cardinality(txn[c].files)
               change == IF SchemaChangesMade(txn[c].changes) THEN 1 ELSE 0
           IN  /\ n \in Nat \ {0}
               /\ Len(log') = n + 1
               /\ \A i \in 1 .. n : log'[i] = log[i]
               /\ log'[n + 1] = NewSnapshot(txn[c])
               /\ files \in Nat
               /\ log'[n + 1].own = txn[c].changes
               /\ log'[n + 1].first_file_id = log[n].next_file_id
               /\ log'[n + 1].next_file_id = log[n].next_file_id + files
               /\ log'[n + 1].schema_version = log[n].schema_version + change
<1> DEFINE n == Len(log)
<1>1. n \in Nat \ {0} /\ log \in Seq(Snapshot) /\ txn[c] \in Transaction
  BY DEF TypeInv, CommitTypeOK, SnapshotsInLog
<1>2. log' = Append(log, NewSnapshot(txn[c])) /\ txn[c].base = n
  BY DEF ExecuteCommitBatch
<1>3. NewSnapshot(txn[c]) \in Snapshot
  BY <1>1, <1>2, NewSnapshotType
<1>4. /\ Len(log') = n + 1
      /\ \A i \in 1 .. n : log'[i] = log[i]
      /\ log'[n + 1] = NewSnapshot(txn[c])
  BY <1>1, <1>2, <1>3
<1>5. Cardinality(txn[c].files) \in Nat
  BY <1>1, PathsFinite, FS_Subset, FS_CardinalityType DEF Transaction
<1> QED
  BY <1>1, <1>2, <1>4, <1>5 DEF NewSnapshot

\* File ids and schema versions never go back, and a schema change takes a
\* schema version above all earlier ones.
CountersGrow ==
    /\ \A i \in 1 .. Len(log) : log[i].first_file_id <= log[i].next_file_id
    /\ FileIdsUnique
    /\ \A i, j \in 1 .. Len(log) : i <= j => log[i].schema_version <= log[j].schema_version
    /\ \A i, j \in 1 .. Len(log) :
          i < j /\ SchemaChangesMade(log[j].own) => log[i].schema_version < log[j].schema_version

LEMMA CountersGrowNext == TypeInv /\ CountersGrow /\ [CommitNext]_commitVars => CountersGrow'
<1> SUFFICES ASSUME TypeInv, CountersGrow, [CommitNext]_commitVars PROVE CountersGrow'
  OBVIOUS
<1>1. CASE log' = log
  BY <1>1 DEF CountersGrow, FileIdsUnique
<1>2. ASSUME NEW c \in Clients, ExecuteCommitBatch(c) PROVE CountersGrow'
  <2> DEFINE n == Len(log)
             files == Cardinality(txn[c].files)
             change == IF SchemaChangesMade(txn[c].changes) THEN 1 ELSE 0
  <2>1. /\ n \in Nat \ {0}
        /\ Len(log') = n + 1
        /\ \A i \in 1 .. n : log'[i] = log[i]
        /\ files \in Nat
        /\ log'[n + 1].own = txn[c].changes
        /\ log'[n + 1].first_file_id = log[n].next_file_id
        /\ log'[n + 1].next_file_id = log[n].next_file_id + files
        /\ log'[n + 1].schema_version = log[n].schema_version + change
    BY <1>2, CommitAppends
  <2>2. \A i \in 1 .. n : /\ log[i].first_file_id \in Nat
                           /\ log[i].next_file_id \in Nat
                           /\ log[i].schema_version \in Nat
    BY CounterTypes
  <2> HIDE DEF n, files
  <2>3. \A i \in 1 .. n + 1 : log'[i].first_file_id <= log'[i].next_file_id
    BY <2>1, <2>2 DEF CountersGrow, n
  <2>4. FileIdsUnique'
    <3>1. \A i \in 1 .. n : log[i].next_file_id <= log[n].next_file_id
      BY <2>1, <2>2, SMTT(60) DEF CountersGrow, FileIdsUnique, n
    <3>2. \A i \in 1 .. n : log'[i].next_file_id <= log'[n + 1].first_file_id
      BY <2>1, <3>1
    <3>3. \A i, j \in 1 .. n : i < j => log'[i].next_file_id <= log'[j].first_file_id
      BY <2>1 DEF CountersGrow, FileIdsUnique, n
    <3> QED
      BY <2>1, <3>2, <3>3 DEF FileIdsUnique
  <2>5. \A i, j \in 1 .. n + 1 : i <= j => log'[i].schema_version <= log'[j].schema_version
    <3>1. \A i, j \in 1 .. n : i <= j => log'[i].schema_version <= log'[j].schema_version
      BY <2>1 DEF CountersGrow, n
    <3>2. \A i \in 1 .. n : log'[i].schema_version <= log[n].schema_version
      BY <2>1, <3>1
    <3>3. log[n].schema_version <= log'[n + 1].schema_version
      BY <2>1, <2>2
    <3>4. \A i \in 1 .. n : log'[i].schema_version <= log'[n + 1].schema_version
      BY <2>1, <2>2, <3>2, <3>3, SMTT(60)
    <3> QED
      BY <2>1, <2>2, <3>1, <3>4
  <2>6. \A i, j \in 1 .. n + 1 :
          i < j /\ SchemaChangesMade(log'[j].own) => log'[i].schema_version < log'[j].schema_version
    <3>1. \A i, j \in 1 .. n : i < j /\ SchemaChangesMade(log'[j].own) =>
              log'[i].schema_version < log'[j].schema_version
      BY <2>1 DEF CountersGrow, n
    <3>2. ASSUME SchemaChangesMade(log'[n + 1].own)
          PROVE  log'[n + 1].schema_version = log[n].schema_version + 1
      BY <2>1, <3>2
    <3>3. \A i \in 1 .. n : log[i].schema_version <= log[n].schema_version
      BY <2>1 DEF CountersGrow, n
    <3>4. ASSUME NEW i \in 1 .. n, SchemaChangesMade(log'[n + 1].own)
          PROVE  log'[i].schema_version < log'[n + 1].schema_version
      BY <2>1, <2>2, <3>2, <3>3, <3>4
    <3> QED
      BY <2>1, <3>1, <3>4
  <2> QED
    BY <2>1, <2>3, <2>4, <2>5, <2>6 DEF CountersGrow
<1> QED
  BY <1>1, <1>2, LogGrowsByCommits

LEMMA CountersGrowInvariance == CommitSpec => []CountersGrow
<1>1. CommitInit => CountersGrow
  BY DEF CommitInit, CountersGrow, FileIdsUnique
<1> QED
  BY <1>1, TypeInvariance, CountersGrowNext, PTL DEF CommitSpec

\* However many attempts a commit needs, the file ids that it takes have not been
\* handed out before.
THEOREM FileIdsAreUnique == CommitSpec => []FileIdsUnique
BY CountersGrowInvariance, PTL DEF CountersGrow

\* A schema version never stands for two schemas.
THEOREM SchemaVersionsKeySchemas == CommitSpec => []SchemaVersionKeysSchema
<1>1. TypeInv /\ CountersGrow => SchemaVersionKeysSchema
  <2> SUFFICES ASSUME TypeInv, CountersGrow,
                      NEW i \in 1 .. Len(log), NEW j \in 1 .. Len(log), i < j,
                      log[i].schema_version = log[j].schema_version,
                      NEW k \in (i + 1) .. j, SchemaChangesMade(log[k].own)
               PROVE  FALSE
    BY DEF SchemaVersionKeysSchema
  <2>1. Len(log) \in Nat /\ k \in 1 .. Len(log) /\ i < k /\ k <= j
    BY DEF TypeInv, SnapshotsInLog
  <2>2. /\ log[i].schema_version \in Nat
        /\ log[j].schema_version \in Nat
        /\ log[k].schema_version \in Nat
    BY <2>1, CounterTypes
  <2>3. log[i].schema_version < log[k].schema_version /\ log[k].schema_version <= log[j].schema_version
    BY <2>1 DEF CountersGrow
  <2> QED
    BY <2>2, <2>3
<1> QED
  BY <1>1, TypeInvariance, CountersGrowInvariance, PTL

----------------------------------------------------------------------------
(* First committer wins.                                                   *)

\* An attempt that is being executed was found free of conflicts with every
\* snapshot up to the one it builds on.
CheckedUpToBase ==
    \A c \in Clients : txn[c].phase = "executing" =>
        \A i \in (txn[c].snap + 1) .. txn[c].base : ~ConflictCheck(txn[c].changes, log[i].changes)

\* A transaction is executing after a step if it was before, or because its
\* first attempt or a retry has just begun.
LEMMA HowExecutingBegins ==
    ASSUME TypeInv, [CommitNext]_commitVars, NEW d \in Clients, txn'[d].phase = "executing"
    PROVE  \/ txn'[d] = txn[d]
           \/ txn'[d].base = txn'[d].snap /\ txn'[d].snap \in Nat
           \/ \E deletedFiles \in BOOLEAN : Retry(d, deletedFiles)
<1> USE DEF TypeInv, CommitTypeOK
<1>1. CASE UNCHANGED commitVars
  BY <1>1 DEF commitVars
<1>2. ASSUME NEW c \in Clients, Begin(c) PROVE txn'[d] = txn[d]
  BY <1>2 DEF Begin, NewTransaction
<1>3. ASSUME NEW c \in Clients, AnyWork(c) PROVE txn'[d] = txn[d]
  BY <1>3 DEF AnyWork, Work, Transaction
<1>4. ASSUME NEW c \in Clients,
             \/ Rollback(c) \/ CommitNothing(c) \/ ExecuteCommitBatch(c) \/ FatalError(c) \/ Crash(c)
             \/ \E deletedFiles \in BOOLEAN : AbortOnConflict(c, deletedFiles)
      PROVE  txn'[d] = txn[d]
  <2>1. EndTransaction(c)
    BY <1>4 DEF Rollback, CommitNothing, ExecuteCommitBatch, FatalError, Crash, AbortOnConflict
  <2> QED
    BY <2>1 DEF EndTransaction, NoTransaction
<1>5. ASSUME NEW c \in Clients, SnapshotIdTaken(c) \/ TransientError(c) PROVE txn'[d] = txn[d]
  <2>1. PICK fault \in {0, 1} : RetryOrGiveUp(c, fault)
    BY <1>5 DEF SnapshotIdTaken, TransientError
  <2> QED
    BY <2>1 DEF RetryOrGiveUp, EndTransaction, NoTransaction, Transaction
<1>6. ASSUME NEW c \in Clients, CommitStart(c)
      PROVE  txn'[d] = txn[d] \/ (txn'[d].base = txn'[d].snap /\ txn'[d].snap \in Nat)
  BY <1>6 DEF CommitStart, Transaction
<1>7. ASSUME NEW c \in Clients, NEW deletedFiles \in BOOLEAN, Retry(c, deletedFiles)
      PROVE  txn'[d] = txn[d] \/ d = c
  BY <1>7 DEF Retry
<1> QED
  BY <1>1, <1>2, <1>3, <1>4, <1>5, <1>6, <1>7 DEF CommitNext

LEMMA OldRowsStay ==
    ASSUME TypeInv, [CommitNext]_commitVars
    PROVE  \A i \in 1 .. Len(log) : log'[i] = log[i]
BY LogGrowsByCommits, CommitAppends

LEMMA CheckedUpToBaseNext == TypeInv /\ CheckedUpToBase /\ [CommitNext]_commitVars => CheckedUpToBase'
<1> SUFFICES ASSUME TypeInv, CheckedUpToBase, [CommitNext]_commitVars,
                    NEW d \in Clients, txn'[d].phase = "executing",
                    NEW i \in (txn'[d].snap + 1) .. txn'[d].base
             PROVE  ~ConflictCheck(txn'[d].changes, log'[i].changes)
  BY DEF CheckedUpToBase
<1>1. CASE txn'[d] = txn[d]
  <2>1. i \in 1 .. Len(log)
    BY <1>1 DEF TypeInv, SnapshotsInLog
  <2> QED
    BY <1>1, <2>1, OldRowsStay DEF CheckedUpToBase
<1>2. CASE txn'[d].base = txn'[d].snap /\ txn'[d].snap \in Nat
  BY <1>2
<1>3. ASSUME NEW deletedFiles \in BOOLEAN, Retry(d, deletedFiles)
      PROVE  ~ConflictCheck(txn'[d].changes, log'[i].changes)
  <2>1. /\ txn'[d].snap = txn[d].snap
        /\ txn'[d].changes = txn[d].changes
        /\ txn'[d].base = Len(log)
        /\ log' = log
    BY <1>3 DEF Retry, TypeInv, CommitTypeOK, Transaction
  <2>2. i \in CommittedSince(txn[d])
    BY <2>1 DEF CommittedSince
  <2> QED
    BY <1>3, <2>1, <2>2 DEF Retry, HasConflict
<1> QED
  BY <1>1, <1>2, <1>3, HowExecutingBegins

LEMMA FirstCommitterWinsNext ==
    TypeInv /\ CheckedUpToBase /\ FirstCommitterWins /\ [CommitNext]_commitVars => FirstCommitterWins'
<1> SUFFICES ASSUME TypeInv, CheckedUpToBase, FirstCommitterWins, [CommitNext]_commitVars
             PROVE  FirstCommitterWins'
  OBVIOUS
<1>1. CASE log' = log
  BY <1>1 DEF FirstCommitterWins
<1>2. ASSUME NEW c \in Clients, ExecuteCommitBatch(c) PROVE FirstCommitterWins'
  <2> DEFINE n == Len(log)
  <2>1. /\ n \in Nat \ {0}
        /\ Len(log') = n + 1
        /\ \A i \in 1 .. n : log'[i] = log[i]
        /\ log'[n + 1] = NewSnapshot(txn[c])
    BY <1>2, CommitAppends
  <2>2. /\ log'[n + 1].own = txn[c].changes
        /\ log'[n + 1].snap = txn[c].snap
        /\ txn[c].phase = "executing"
        /\ txn[c].base = n
    BY <1>2, <2>1 DEF NewSnapshot, ExecuteCommitBatch
  <2>3. ASSUME NEW j \in 1 .. n, NEW i \in (log'[j].snap + 1) .. (j - 1)
        PROVE  ~ConflictCheck(log'[j].own, log'[i].changes)
    <3>1. log'[j] = log[j] /\ log[j].snap \in Nat
      BY <2>1, CounterTypes
    <3>2. i \in 1 .. n
      BY <2>1, <3>1
    <3> QED
      BY <2>1, <3>1, <3>2 DEF FirstCommitterWins
  <2>4. ASSUME NEW i \in (txn[c].snap + 1) .. n
        PROVE  ~ConflictCheck(txn[c].changes, log'[i].changes)
    <3>1. i \in 1 .. n
      BY <2>2 DEF TypeInv, SnapshotsInLog
    <3> QED
      BY <2>1, <2>2, <3>1 DEF CheckedUpToBase
  <2> HIDE DEF n
  <2>5. ASSUME NEW j \in 1 .. Len(log'), NEW i \in (log'[j].snap + 1) .. (j - 1)
        PROVE  ~ConflictCheck(log'[j].own, log'[i].changes)
    <3>1. CASE j \in 1 .. n
      BY <2>3, <3>1
    <3>2. CASE j = n + 1
      <4>1. i \in (txn[c].snap + 1) .. n
        BY <2>1, <2>2, <3>2
      <4> QED
        BY <2>2, <2>4, <3>2, <4>1
    <3> QED
      BY <2>1, <3>1, <3>2
  <2> QED
    BY <2>5 DEF FirstCommitterWins
<1> QED
  BY <1>1, <1>2, LogGrowsByCommits

\* No snapshot holds a change that conflicts with a snapshot committed after its
\* transaction had begun, whatever the interleaving of checks and commits.
THEOREM FirstCommitterAlwaysWins == CommitSpec => []FirstCommitterWins
<1>1. CommitInit => CheckedUpToBase /\ FirstCommitterWins
  BY DEF CommitInit, CheckedUpToBase, FirstCommitterWins, NoTransaction
<1> QED
  BY <1>1, TypeInvariance, CheckedUpToBaseNext, FirstCommitterWinsNext, PTL DEF CommitSpec

----------------------------------------------------------------------------
(* Files on disk.                                                          *)

\* Only a transaction with changes has files.
FilesComeWithChanges ==
    \A c \in Clients :
        /\ txn[c].phase = "idle" => ~ChangesMade(txn[c].changes)
        /\ ~ChangesMade(txn[c].changes) => txn[c].files = {}

LEMMA FilesComeWithChangesNext ==
    TypeInv /\ FilesComeWithChanges /\ [CommitNext]_commitVars => FilesComeWithChanges'
<1> SUFFICES ASSUME TypeInv, FilesComeWithChanges, [CommitNext]_commitVars PROVE FilesComeWithChanges'
  OBVIOUS
<1> USE DEF TypeInv, CommitTypeOK, FilesComeWithChanges
<1>0. ~ChangesMade({})
  BY DEF ChangesMade
<1>1. CASE UNCHANGED commitVars
  BY <1>1 DEF commitVars
<1>2. ASSUME NEW c \in Clients, Begin(c) PROVE FilesComeWithChanges'
  BY <1>0, <1>2 DEF Begin, NewTransaction
<1>3. ASSUME NEW c \in Clients, AnyWork(c) PROVE FilesComeWithChanges'
  <2>1. PICK ch \in ChangeSets, new \in SUBSET Paths, gone \in SUBSET txn[c].files :
          /\ ~ChangesMade(ch) => (txn[c].files \ gone) \cup new = {}
          /\ Work(c, ch, new, gone)
    BY <1>3 DEF AnyWork
  <2>2. /\ txn'[c].phase = "active"
        /\ txn'[c].changes = ch
        /\ txn'[c].files = (txn[c].files \ gone) \cup new
        /\ \A d \in Clients \ {c} : txn'[d] = txn[d]
    BY <2>1 DEF Work, Transaction
  <2> QED
    BY <2>1, <2>2
<1>4. ASSUME NEW c \in Clients, EndTransaction(c) PROVE FilesComeWithChanges'
  BY <1>0, <1>4 DEF EndTransaction, NoTransaction
<1>5. ASSUME NEW c \in Clients, NEW ph \in {"executing", "backoff"},
             /\ txn'[c].phase = ph
             /\ txn'[c].changes = txn[c].changes
             /\ txn'[c].files = txn[c].files
             /\ \A d \in Clients \ {c} : txn'[d] = txn[d]
      PROVE  FilesComeWithChanges'
  BY <1>5
<1>6. ASSUME NEW c \in Clients, CommitStart(c) PROVE FilesComeWithChanges'
  BY <1>5, <1>6, ZenonT(60) DEF CommitStart, Transaction
<1>7. ASSUME NEW c \in Clients, SnapshotIdTaken(c) \/ TransientError(c) PROVE FilesComeWithChanges'
  BY <1>4, <1>5, <1>7, ZenonT(60) DEF SnapshotIdTaken, TransientError, RetryOrGiveUp, Transaction
<1>8. ASSUME NEW c \in Clients, NEW deletedFiles \in BOOLEAN, Retry(c, deletedFiles)
      PROVE  FilesComeWithChanges'
  BY <1>5, <1>8, SMTT(60) DEF Retry, Transaction
<1> QED
  BY <1>1, <1>2, <1>3, <1>4, <1>6, <1>7, <1>8
  DEF CommitNext, Rollback, CommitNothing, ExecuteCommitBatch, FatalError, AbortOnConflict, Crash

\* What a step can do with the files of one client: write some and remove some of
\* its own, remove all of them, register them, or leave them behind.
OnlyFilesOf(c, files) ==
    /\ txn'[c].files = files
    /\ \A d \in Clients \ {c} : txn'[d].files = txn[d].files

KeepsFiles ==
    /\ \A d \in Clients : txn'[d].files = txn[d].files
    /\ UNCHANGED <<log, disk, orphans>>

WritesFiles(c, new, gone) ==
    /\ new \cap KnownFiles = {}
    /\ gone \subseteq txn[c].files
    /\ OnlyFilesOf(c, (txn[c].files \ gone) \cup new)
    /\ disk' = (disk \ gone) \cup new
    /\ UNCHANGED <<log, orphans>>

DiscardsFiles(c) ==
    /\ OnlyFilesOf(c, {})
    /\ disk' = disk \ txn[c].files
    /\ UNCHANGED <<log, orphans>>

AbandonsFiles(c) ==
    /\ OnlyFilesOf(c, {})
    /\ orphans' = orphans \cup txn[c].files
    /\ UNCHANGED <<log, disk>>

RegistersFiles(c) ==
    /\ OnlyFilesOf(c, {})
    /\ RegisteredFiles' = RegisteredFiles \cup txn[c].files
    /\ UNCHANGED <<disk, orphans>>

LEMMA CommitRegistersFiles ==
    ASSUME TypeInv, NEW c \in Clients, ExecuteCommitBatch(c)
    PROVE  RegistersFiles(c)
<1>1. OnlyFilesOf(c, {}) /\ UNCHANGED <<disk, orphans>>
  BY DEF TypeInv, CommitTypeOK, ExecuteCommitBatch, EndTransaction, NoTransaction, OnlyFilesOf
<1> DEFINE n == Len(log)
<1>2. /\ n \in Nat \ {0}
      /\ Len(log') = n + 1
      /\ \A i \in 1 .. n : log'[i] = log[i]
      /\ log'[n + 1] = NewSnapshot(txn[c])
  BY CommitAppends
<1>3. log'[n + 1].files = txn[c].files
  BY <1>2 DEF NewSnapshot
<1>4. RegisteredFiles' = UNION {log'[k].files : k \in 1 .. n + 1}
  BY <1>2 DEF RegisteredFiles
<1>5. RegisteredFiles = UNION {log'[k].files : k \in 1 .. n}
  BY <1>2 DEF RegisteredFiles
<1>6. 1 .. n + 1 = (1 .. n) \cup {n + 1}
  BY <1>2
<1> HIDE DEF n
<1>7. RegisteredFiles' = RegisteredFiles \cup txn[c].files
  BY <1>3, <1>4, <1>5, <1>6
<1> QED
  BY <1>1, <1>7 DEF RegistersFiles

LEMMA FileSteps ==
    ASSUME TypeInv, FilesComeWithChanges, [CommitNext]_commitVars
    PROVE  \/ KeepsFiles
           \/ \E c \in Clients :
                \/ \E new, gone \in SUBSET Paths : WritesFiles(c, new, gone)
                \/ DiscardsFiles(c)
                \/ AbandonsFiles(c)
                \/ RegistersFiles(c)
<1> USE DEF TypeInv, CommitTypeOK
<1>1. CASE UNCHANGED commitVars
  BY <1>1 DEF commitVars, KeepsFiles
<1>2. ASSUME NEW c \in Clients, Begin(c) PROVE KeepsFiles
  BY <1>2 DEF Begin, NewTransaction, KeepsFiles, FilesComeWithChanges
<1>3. ASSUME NEW c \in Clients, AnyWork(c)
      PROVE  \E new, gone \in SUBSET Paths : WritesFiles(c, new, gone)
  <2>1. PICK ch \in ChangeSets, new \in SUBSET Paths, gone \in SUBSET txn[c].files : Work(c, ch, new, gone)
    BY <1>3 DEF AnyWork
  <2>2. gone \in SUBSET Paths
    BY DEF Transaction
  <2>3. WritesFiles(c, new, gone)
    BY <2>1 DEF Work, WritesFiles, OnlyFilesOf, Transaction
  <2> QED
    BY <2>2, <2>3
<1>4. ASSUME NEW c \in Clients, EndTransaction(c) PROVE OnlyFilesOf(c, {})
  BY <1>4 DEF EndTransaction, NoTransaction, OnlyFilesOf
<1>5. ASSUME NEW c \in Clients,
             Rollback(c) \/ FatalError(c) \/ \E deletedFiles \in BOOLEAN : AbortOnConflict(c, deletedFiles)
      PROVE  DiscardsFiles(c)
  BY <1>4, <1>5 DEF Rollback, FatalError, AbortOnConflict, CleanupFiles, DiscardsFiles
<1>6. ASSUME NEW c \in Clients, CommitNothing(c) PROVE KeepsFiles
  BY <1>6 DEF CommitNothing, EndTransaction, NoTransaction, KeepsFiles, FilesComeWithChanges
<1>7. ASSUME NEW c \in Clients, CommitStart(c) PROVE KeepsFiles
  BY <1>7 DEF CommitStart, KeepsFiles, Transaction
<1>8. ASSUME NEW c \in Clients, SnapshotIdTaken(c) \/ TransientError(c)
      PROVE  KeepsFiles \/ DiscardsFiles(c)
  <2>1. PICK fault \in {0, 1} : RetryOrGiveUp(c, fault) /\ UNCHANGED <<log, orphans>>
    BY <1>8 DEF SnapshotIdTaken, TransientError
  <2>2. CASE txn' = [txn EXCEPT ![c].phase = "backoff", ![c].faults = @ + fault] /\ UNCHANGED disk
    BY <2>1, <2>2 DEF KeepsFiles, Transaction
  <2>3. CASE CleanupFiles(c) /\ EndTransaction(c)
    BY <1>4, <2>1, <2>3 DEF CleanupFiles, DiscardsFiles
  <2> QED
    BY <2>1, <2>2, <2>3 DEF RetryOrGiveUp
<1>9. ASSUME NEW c \in Clients, NEW deletedFiles \in BOOLEAN, Retry(c, deletedFiles) PROVE KeepsFiles
  BY <1>9 DEF Retry, KeepsFiles, Transaction
<1>10. ASSUME NEW c \in Clients, Crash(c) PROVE AbandonsFiles(c)
  BY <1>4, <1>10 DEF Crash, AbandonsFiles
<1> QED
  BY <1>1, <1>2, <1>3, <1>5, <1>6, <1>7, <1>8, <1>9, <1>10, CommitRegistersFiles DEF CommitNext

\* The files of an open transaction are on disk, and are nobody else's.
FilesApart ==
    /\ \A c \in Clients : txn[c].files \subseteq disk
    /\ \A c \in Clients : txn[c].files \cap RegisteredFiles = {}
    /\ \A c, d \in Clients : c # d => txn[c].files \cap txn[d].files = {}

DiskInv == FilesApart /\ RegisteredFilesExist /\ NoLeakedFiles

LEMMA DiskInvNext == TypeInv /\ FilesComeWithChanges /\ DiskInv /\ [CommitNext]_commitVars => DiskInv'
<1> SUFFICES ASSUME TypeInv, FilesComeWithChanges, DiskInv, [CommitNext]_commitVars PROVE DiskInv'
  OBVIOUS
<1> USE DEF DiskInv, FilesApart, RegisteredFilesExist, NoLeakedFiles, OpenFiles
<1>0. log' = log => RegisteredFiles' = RegisteredFiles
  BY DEF RegisteredFiles
<1>1. CASE KeepsFiles
  BY <1>0, <1>1 DEF KeepsFiles
<1>2. ASSUME NEW c \in Clients, NEW new \in SUBSET Paths, NEW gone \in SUBSET Paths, WritesFiles(c, new, gone)
      PROVE  DiskInv'
  <2>1. /\ RegisteredFiles' = RegisteredFiles /\ orphans' = orphans
        /\ disk' = (disk \ gone) \cup new
        /\ gone \subseteq txn[c].files
        /\ txn'[c].files = (txn[c].files \ gone) \cup new
        /\ \A d \in Clients \ {c} : txn'[d].files = txn[d].files
    BY <1>0, <1>2 DEF WritesFiles, OnlyFilesOf
  <2>2. new \cap disk = {} /\ new \cap RegisteredFiles = {} /\ \A d \in Clients : new \cap txn[d].files = {}
    BY <1>2 DEF WritesFiles, KnownFiles
  <2>3. FilesApart'
    BY <2>1, <2>2
  <2>4. RegisteredFilesExist'
    BY <2>1
  <2>5. NoLeakedFiles'
    BY <2>1
  <2> QED
    BY <2>3, <2>4, <2>5
<1>3. ASSUME NEW c \in Clients, DiscardsFiles(c) PROVE DiskInv'
  <2>1. /\ RegisteredFiles' = RegisteredFiles /\ orphans' = orphans
        /\ disk' = disk \ txn[c].files
        /\ txn'[c].files = {}
        /\ \A d \in Clients \ {c} : txn'[d].files = txn[d].files
    BY <1>0, <1>3 DEF DiscardsFiles, OnlyFilesOf
  <2>2. FilesApart'
    BY <2>1
  <2>3. RegisteredFilesExist'
    BY <2>1
  <2>4. NoLeakedFiles'
    BY <2>1
  <2> QED
    BY <2>2, <2>3, <2>4
<1>4. ASSUME NEW c \in Clients, AbandonsFiles(c) PROVE DiskInv'
  <2>1. /\ RegisteredFiles' = RegisteredFiles /\ disk' = disk
        /\ orphans' = orphans \cup txn[c].files
        /\ txn'[c].files = {}
        /\ \A d \in Clients \ {c} : txn'[d].files = txn[d].files
    BY <1>0, <1>4 DEF AbandonsFiles, OnlyFilesOf
  <2> QED
    BY <2>1
<1>5. ASSUME NEW c \in Clients, RegistersFiles(c) PROVE DiskInv'
  <2>1. /\ RegisteredFiles' = RegisteredFiles \cup txn[c].files
        /\ disk' = disk /\ orphans' = orphans
        /\ txn'[c].files = {}
        /\ \A d \in Clients \ {c} : txn'[d].files = txn[d].files
    BY <1>5 DEF RegistersFiles, OnlyFilesOf
  <2> QED
    BY <2>1
<1> QED
  BY <1>1, <1>2, <1>3, <1>4, <1>5, FileSteps

LEMMA DiskInvariance == CommitSpec => []DiskInv
<1>1. CommitInit => DiskInv /\ FilesComeWithChanges
  BY DEF CommitInit, DiskInv, FilesApart, RegisteredFilesExist, NoLeakedFiles, RegisteredFiles,
       FilesComeWithChanges, ChangesMade, NoTransaction
<1> QED
  BY <1>1, TypeInvariance, FilesComeWithChangesNext, DiskInvNext, PTL DEF CommitSpec

\* A file that a snapshot has registered is never removed by the commit protocol,
\* though every error path removes files.
THEOREM RegisteredFilesStay == CommitSpec => []RegisteredFilesExist
BY DiskInvariance, PTL DEF DiskInv

\* No path through the commit loop leaves a file behind: only a crash does.
THEOREM NoFilesLeak == CommitSpec => []NoLeakedFiles
BY DiskInvariance, PTL DEF DiskInv

----------------------------------------------------------------------------
(* Retries.                                                                *)

RetryInvOf(c) ==
    /\ txn[c].phase \in {"idle", "active"} => txn[c].attempt = 0
    /\ txn[c].phase = "executing" => txn[c].snap + txn[c].attempt <= txn[c].base + txn[c].faults
    /\ txn[c].phase = "backoff" => txn[c].snap + txn[c].attempt < Len(log) + txn[c].faults

RetryInv == \A c \in Clients : RetryInvOf(c)

LEMMA RetryInvNext == TypeInv /\ RetryInv /\ [CommitNext]_commitVars => RetryInv'
<1> SUFFICES ASSUME TypeInv, RetryInv, [CommitNext]_commitVars, NEW d \in Clients
             PROVE  RetryInvOf(d)'
  BY DEF RetryInv
<1> USE DEF RetryInvOf
<1>0. /\ txn \in [Clients -> Transaction]
      /\ Len(log) \in Nat
      /\ txn[d].snap \in Nat /\ txn[d].base \in Nat
      /\ txn[d].attempt \in Nat /\ txn[d].faults \in Nat
      /\ txn[d].phase = "executing" => txn[d].base <= Len(log)
      /\ RetryInvOf(d)
  BY DEF TypeInv, CommitTypeOK, SnapshotsInLog, Transaction, RetryInv
<1>1. CASE UNCHANGED commitVars
  BY <1>0, <1>1 DEF commitVars
<1>2. CASE txn'[d] = txn[d] /\ Len(log') \in Nat /\ Len(log) <= Len(log')
  BY <1>0, <1>2
<1>3. ASSUME NEW c \in Clients, EndTransaction(c), Len(log') \in Nat, Len(log) <= Len(log')
      PROVE  RetryInvOf(d)'
  BY <1>0, <1>2, <1>3 DEF EndTransaction, NoTransaction
<1>4. ASSUME NEW c \in Clients, Begin(c) PROVE RetryInvOf(d)'
  BY <1>0, <1>2, <1>4 DEF Begin, NewTransaction
<1>5. ASSUME NEW c \in Clients, AnyWork(c) PROVE RetryInvOf(d)'
  <2>1. PICK ch \in ChangeSets, new \in SUBSET Paths, gone \in SUBSET txn[c].files : Work(c, ch, new, gone)
    BY <1>5 DEF AnyWork
  <2> QED
    BY <1>0, <1>2, <2>1 DEF Work, Transaction
<1>6. ASSUME NEW c \in Clients, CommitStart(c) PROVE RetryInvOf(d)'
  <2>1. /\ log' = log /\ txn[c].phase = "active"
        /\ d # c => txn'[d] = txn[d]
        /\ txn'[c].phase = "executing" /\ txn'[c].attempt = txn[c].attempt
        /\ txn'[c].faults = txn[c].faults
        /\ txn'[c].snap = txn[c].snap /\ txn'[c].base = txn[c].snap
    BY <1>0, <1>6 DEF CommitStart, Transaction
  <2> QED
    BY <1>0, <1>2, <2>1
<1>7. ASSUME NEW c \in Clients, SnapshotIdTaken(c) \/ TransientError(c) PROVE RetryInvOf(d)'
  <2>1. PICK fault \in {0, 1} :
           /\ log' = log /\ txn[c].phase = "executing" /\ RetryOrGiveUp(c, fault)
           /\ fault = 0 => Len(log) # txn[c].base
    BY <1>7 DEF SnapshotIdTaken, TransientError
  <2>2. CASE txn' = [txn EXCEPT ![c].phase = "backoff", ![c].faults = @ + fault]
    <3>1. /\ d # c => txn'[d] = txn[d]
          /\ txn'[c].phase = "backoff" /\ txn'[c].attempt = txn[c].attempt
          /\ txn'[c].faults = txn[c].faults + fault
          /\ txn'[c].snap = txn[c].snap
      BY <1>0, <2>2 DEF Transaction
    <3> QED
      BY <1>0, <1>2, <2>1, <3>1, SMTT(60)
  <2>3. CASE EndTransaction(c)
    BY <1>0, <1>3, <2>1, <2>3
  <2> QED
    BY <2>1, <2>2, <2>3 DEF RetryOrGiveUp
<1>8. ASSUME NEW c \in Clients, NEW deletedFiles \in BOOLEAN, Retry(c, deletedFiles) PROVE RetryInvOf(d)'
  <2>1. /\ log' = log /\ txn[c].phase = "backoff"
        /\ d # c => txn'[d] = txn[d]
        /\ txn'[c].phase = "executing" /\ txn'[c].attempt = txn[c].attempt + 1
        /\ txn'[c].faults = txn[c].faults
        /\ txn'[c].snap = txn[c].snap /\ txn'[c].base = Len(log)
    BY <1>0, <1>8 DEF Retry, Transaction
  <2> QED
    BY <1>0, <1>2, <2>1, SMTT(60)
<1>9. ASSUME NEW c \in Clients, ExecuteCommitBatch(c) PROVE RetryInvOf(d)'
  <2>1. Len(log') = Len(log) + 1
    BY <1>9, CommitAppends
  <2> QED
    BY <1>0, <1>3, <1>9, <2>1 DEF ExecuteCommitBatch
<1>10. ASSUME NEW c \in Clients,
             \/ Rollback(c) \/ CommitNothing(c) \/ FatalError(c) \/ Crash(c)
             \/ \E deletedFiles \in BOOLEAN : AbortOnConflict(c, deletedFiles)
      PROVE  RetryInvOf(d)'
  <2>1. EndTransaction(c) /\ log' = log
    BY <1>10 DEF Rollback, CommitNothing, FatalError, Crash, AbortOnConflict
  <2> QED
    BY <1>0, <1>3, <2>1
<1> QED
  BY <1>1, <1>4, <1>5, <1>6, <1>7, <1>8, <1>9, <1>10 DEF CommitNext

\* Every retry is paid for by a commit of somebody else or a failure of the
\* database: without failures, a transaction that runs out of attempts has been
\* overtaken by more snapshots than it was allowed retries.
THEOREM RetriesAreProgress == CommitSpec => []RetriesMeanCommits
<1>1. CommitInit => RetryInv
  BY DEF CommitInit, RetryInv, RetryInvOf, NoTransaction
<1>2. RetryInv => RetriesMeanCommits
  BY DEF RetryInv, RetryInvOf, RetriesMeanCommits
<1> QED
  BY <1>1, <1>2, TypeInvariance, RetryInvNext, PTL DEF CommitSpec
============================================================================
