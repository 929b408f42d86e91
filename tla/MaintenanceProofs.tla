------------------------- MODULE MaintenanceProofs -------------------------
(***************************************************************************)
(* Proofs about Maintenance, for any clients, maintainers, tables and      *)
(* files, any division of duties and any number of snapshots.              *)
(***************************************************************************)
EXTENDS Maintenance, TLAPS

HasNewest(d) == \E s \in d.snapshots : \A r \in d.snapshots : r <= s

\* The types, without the keys.
TypeInv ==
    /\ db \in Database
    /\ disk \subseteq Paths
    /\ txn \in [Clients -> Transaction]
    /\ task \in [Maintainers -> Task]
    /\ used \subseteq Paths
    /\ orphans \subseteq Paths

\* Whatever is about to be expired is older than the newest snapshot.
SnapshotInv ==
    /\ HasNewest(db)
    /\ \A m \in Maintainers : \A s \in task[m].snapshots : s < Newest(db)

\* Newest chooses the greatest snapshot id.
LEMMA NewestFact ==
    ASSUME NEW d, HasNewest(d)
    PROVE  Newest(d) \in d.snapshots /\ \A r \in d.snapshots : r <= Newest(d)
BY DEF HasNewest, Newest

\* A set of numbers has one newest.
LEMMA NewestUnique ==
    ASSUME NEW d, d.snapshots \subseteq Nat, NEW s \in d.snapshots,
           \A r \in d.snapshots : r <= s
    PROVE  HasNewest(d) /\ Newest(d) = s
<1>1. HasNewest(d)
  BY DEF HasNewest
<1>2. Newest(d) \in d.snapshots /\ \A r \in d.snapshots : r <= Newest(d)
  BY <1>1, NewestFact
<1>3. Newest(d) \in Nat /\ s \in Nat /\ s <= Newest(d) /\ Newest(d) <= s
  BY <1>2
<1> QED
  BY <1>1, <1>3

\* The id of the next commit is above all that exist.
LEMMA NextSnapshotFact ==
    ASSUME TypeInv, SnapshotInv
    PROVE  /\ Newest(db) \in Nat
           /\ NextSnapshot \in Nat
           /\ NextSnapshot # Null
           /\ \A r \in db.snapshots : r < NextSnapshot
<1>1. Newest(db) \in db.snapshots /\ \A r \in db.snapshots : r <= Newest(db)
  BY NewestFact DEF SnapshotInv
<1>2. db.snapshots \subseteq Nat
  BY DEF TypeInv, Database
<1> QED
  BY <1>1, <1>2 DEF NextSnapshot, Null

\* A commit keeps the types.
LEMMA CommitTypes ==
    ASSUME TypeInv, SnapshotInv, NEW c \in Clients,
           NEW T \in SUBSET TableRow, NEW F \in SUBSET DataFile, NEW D \in SUBSET DeleteFile,
           NEW G \in SUBSET Paths,
           Commit(c, NextSnapshot, T, F, D, G)
    PROVE  TypeInv'
<1>1. db.snapshots \cup {NextSnapshot} \subseteq Nat
  BY NextSnapshotFact DEF TypeInv, Database
<1>2. NoLongerWaits(db.scheduled, c) \subseteq Scheduled
  BY DEF TypeInv, Database, Scheduled, NoLongerWaits
<1>3. NewSchedule(G, OpenClients \ {c}) \subseteq Scheduled
  BY DEF NewSchedule, Scheduled, OpenClients
<1>4. db' \in Database
  <2>1. db.protected \in SUBSET Nat
    BY DEF TypeInv, Database
  <2> QED
    BY <1>1, <1>2, <1>3, <2>1 DEF Commit, Database
<1>5. txn' \in [Clients -> Transaction]
  BY DEF TypeInv, Commit, NoTransaction, Transaction
<1> QED
  BY <1>4, <1>5 DEF TypeInv, Commit

\* A commit adds the newest snapshot.
LEMMA CommitSnapshots ==
    ASSUME TypeInv, SnapshotInv, NEW c \in Clients, NEW T, NEW F, NEW D, NEW G,
           Commit(c, NextSnapshot, T, F, D, G)
    PROVE  SnapshotInv' /\ Newest(db') = NextSnapshot
<1>1. db'.snapshots = db.snapshots \cup {NextSnapshot}
  BY DEF Commit
<1>2. db'.snapshots \subseteq Nat
  BY <1>1, NextSnapshotFact DEF TypeInv, Database
<1>3. \A r \in db'.snapshots : r <= NextSnapshot
  BY <1>1, <1>2, NextSnapshotFact
<1>4. HasNewest(db') /\ Newest(db') = NextSnapshot
  BY <1>1, <1>2, <1>3, NewestUnique
<1>5. ASSUME NEW m \in Maintainers, NEW s \in task'[m].snapshots
      PROVE  s < Newest(db')
  <2>1. s \in task[m].snapshots
    BY <1>5 DEF Commit
  <2>2. s \in Nat /\ s < Newest(db)
    BY <2>1, <1>5 DEF TypeInv, Task, SnapshotInv
  <2> QED
    BY <2>2, <1>4, NextSnapshotFact DEF NextSnapshot
<1> QED
  BY <1>4, <1>5 DEF SnapshotInv

----------------------------------------------------------------------------
(* Rows.                                                                   *)

UniquePaths(rows) == \A x, y \in rows : x.path = y.path => x = y

\* What ending rows does to data files.
LEMMA EndedData ==
    ASSUME NEW rows \in SUBSET DataFile, NEW which, NEW k \in Nat
    PROVE  /\ Ended(rows, which, k) \in SUBSET DataFile
           /\ PathsOf(Ended(rows, which, k)) = PathsOf(rows)
           /\ UniquePaths(rows) => UniquePaths(Ended(rows, which, k))
           /\ \A x \in Ended(rows, which, k) : \E y \in rows :
                 /\ x.path = y.path /\ x.table = y.table /\ (y \notin which => x = y)
                 /\ x.end \in {y.end, k} /\ (x.end = Null /\ k # Null => x = y)
<1> DEFINE E(y) == IF y \in which /\ y.end = Null THEN [y EXCEPT !.end = k] ELSE y
<1>1. ASSUME NEW y \in rows
      PROVE  /\ E(y) \in DataFile /\ E(y).path = y.path /\ E(y).table = y.table
             /\ y \notin which => E(y) = y
             /\ E(y).end \in {y.end, k} /\ (E(y).end = Null /\ k # Null => E(y) = y)
  BY DEF DataFile
<1>2. Ended(rows, which, k) = {E(y) : y \in rows}
  BY DEF Ended
<1> HIDE DEF E
<1> QED
  BY <1>1, <1>2 DEF UniquePaths, PathsOf

\* What ending rows does to delete files.
LEMMA EndedDeletes ==
    ASSUME NEW rows \in SUBSET DeleteFile, NEW which, NEW k \in Nat
    PROVE  /\ Ended(rows, which, k) \in SUBSET DeleteFile
           /\ PathsOf(Ended(rows, which, k)) = PathsOf(rows)
           /\ UniquePaths(rows) => UniquePaths(Ended(rows, which, k))
           /\ \A x \in Ended(rows, which, k) : \E y \in rows :
                 /\ x.path = y.path /\ x.table = y.table /\ x.file = y.file /\ (y \notin which => x = y)
                 /\ x.end \in {y.end, k} /\ (x.end = Null /\ k # Null => x = y)
<1> DEFINE E(y) == IF y \in which /\ y.end = Null THEN [y EXCEPT !.end = k] ELSE y
<1>1. ASSUME NEW y \in rows
      PROVE  /\ E(y) \in DeleteFile /\ E(y).path = y.path /\ E(y).table = y.table /\ E(y).file = y.file
             /\ y \notin which => E(y) = y
             /\ E(y).end \in {y.end, k} /\ (E(y).end = Null /\ k # Null => E(y) = y)
  BY DEF DeleteFile
<1>2. Ended(rows, which, k) = {E(y) : y \in rows}
  BY DEF Ended
<1> HIDE DEF E
<1> QED
  BY <1>1, <1>2 DEF UniquePaths, PathsOf

\* What ending rows does to tables.
LEMMA EndedTables ==
    ASSUME NEW rows \in SUBSET TableRow, NEW which, NEW k \in Nat
    PROVE  /\ Ended(rows, which, k) \in SUBSET TableRow
           /\ \A x \in Ended(rows, which, k) : \E y \in rows :
                 /\ x.table = y.table /\ (y \notin which => x = y)
                 /\ x.end \in {y.end, k} /\ (x.end = Null /\ k # Null => x = y)
                 /\ y \in which => x.end # Null \/ k = Null
           /\ \A y \in rows : \E x \in Ended(rows, which, k) : x.table = y.table
<1> DEFINE E(y) == IF y \in which /\ y.end = Null THEN [y EXCEPT !.end = k] ELSE y
<1>1. ASSUME NEW y \in rows
      PROVE  /\ E(y) \in TableRow /\ E(y).table = y.table /\ (y \notin which => E(y) = y)
             /\ E(y).end \in {y.end, k} /\ (E(y).end = Null /\ k # Null => E(y) = y)
             /\ y \in which => E(y).end # Null \/ k = Null
  BY DEF TableRow
<1>2. Ended(rows, which, k) = {E(y) : y \in rows}
  BY DEF Ended
<1> HIDE DEF E
<1> QED
  BY <1>1, <1>2

\* The rows of new data files.
LEMMA NewData ==
    ASSUME NEW P \in SUBSET Paths, NEW t \in Tables, NEW b \in Nat
    PROVE  /\ NewDataFiles(P, t, b) \in SUBSET DataFile
           /\ PathsOf(NewDataFiles(P, t, b)) = P
           /\ UniquePaths(NewDataFiles(P, t, b))
           /\ \A x \in NewDataFiles(P, t, b) : x.table = t /\ x.end = Null
<1>1. Null \in Nat
  BY DEF Null
<1>2. \A x \in NewDataFiles(P, t, b) : x \in DataFile /\ x.path \in P /\ x.table = t /\ x.end = Null
  BY <1>1 DEF NewDataFiles, DataFile
<1>3. \A p \in P : [path |-> p, table |-> t, begin |-> b, end |-> Null] \in NewDataFiles(P, t, b)
  BY DEF NewDataFiles
<1>4. UniquePaths(NewDataFiles(P, t, b))
  BY DEF UniquePaths, NewDataFiles
<1>5. NewDataFiles(P, t, b) \in SUBSET DataFile
  BY <1>2
<1>6. PathsOf(NewDataFiles(P, t, b)) \subseteq P
  BY <1>2 DEF PathsOf
<1>7. ASSUME NEW p \in P
      PROVE  p \in PathsOf(NewDataFiles(P, t, b))
  <2> DEFINE x == [path |-> p, table |-> t, begin |-> b, end |-> Null]
  <2>1. x \in NewDataFiles(P, t, b) /\ x.path = p
    BY <1>3
  <2> HIDE DEF x
  <2> QED
    BY <2>1 DEF PathsOf
<1> QED
  BY <1>2, <1>4, <1>5, <1>6, <1>7

\* The paths of a union.
LEMMA PathsOfUnion ==
    ASSUME NEW A, NEW B
    PROVE  PathsOf(A \cup B) = PathsOf(A) \cup PathsOf(B)
BY DEF PathsOf

\* Rows with keys of their own can be added.
LEMMA UniqueUnion ==
    ASSUME NEW A, NEW B, UniquePaths(A), UniquePaths(B), PathsOf(A) \cap PathsOf(B) = {}
    PROVE  UniquePaths(A \cup B)
BY DEF UniquePaths, PathsOf

\* Removing rows removes their paths, if paths are keys.
LEMMA PathsOfDifference ==
    ASSUME NEW A, NEW B \in SUBSET A, UniquePaths(A)
    PROVE  /\ PathsOf(A \ B) = PathsOf(A) \ PathsOf(B)
           /\ UniquePaths(A \ B)
BY DEF UniquePaths, PathsOf

\* The paths of scheduled files.
LEMMA SchedulePaths ==
    ASSUME NEW S \in SUBSET Scheduled, NEW c, NEW G \in SUBSET Paths, NEW W \in SUBSET Clients
    PROVE  /\ PathsOf(NoLongerWaits(S, c)) = PathsOf(S)
           /\ PathsOf(NewSchedule(G, W)) = G
           /\ \A e \in NewSchedule(G, W) : e.path \in G /\ e.waits = W
           /\ \A e \in NoLongerWaits(S, c) : \E x \in S : e.path = x.path /\ e.waits = x.waits \ {c}
<1> DEFINE E(x) == [path |-> x.path, waits |-> x.waits \ {c}]
           N(p) == [path |-> p, waits |-> W]
<1>1. \A x \in S : E(x).path = x.path /\ E(x).waits = x.waits \ {c}
  OBVIOUS
<1>2. NoLongerWaits(S, c) = {E(x) : x \in S}
  BY DEF NoLongerWaits
<1>3. \A p \in G : N(p) \in NewSchedule(G, W) /\ N(p).path = p
  BY DEF NewSchedule
<1>4. \A e \in NewSchedule(G, W) : e.path \in G /\ e.waits = W
  BY DEF NewSchedule
<1> HIDE DEF E, N
<1>5. PathsOf(NewSchedule(G, W)) = G
  BY <1>3, <1>4 DEF PathsOf
<1> QED
  BY <1>1, <1>2, <1>4, <1>5 DEF PathsOf

----------------------------------------------------------------------------
(* The inductive invariant.                                                *)

\* Paths are keys, and a data file has one live delete file.
KeyInv ==
    /\ UniquePaths(db.data_file)
    /\ UniquePaths(db.delete_file)
    /\ PathsOf(db.data_file) \cap PathsOf(db.delete_file) = {}
    /\ \A d, e \in db.delete_file : d.file = e.file /\ d.end = Null /\ e.end = Null => d = e

\* Rows of files refer to tables that exist, and deletes to files that have been
\* committed.
ReferenceInv ==
    /\ \A x \in db.data_file \cup db.delete_file : \E y \in db.table : y.table = x.table
    /\ \A d \in db.delete_file :
        /\ d.file \in used
        /\ \A c \in Clients : d.file \notin txn[c].files
        /\ \A f \in db.data_file : d.file = f.path => d.table = f.table

\* A file is new, committed, or scheduled, and only one of them; there is none else.
PathInv ==
    /\ CatalogPaths(db) \subseteq disk
    /\ disk \subseteq used
    /\ PathsOf(db.scheduled) \subseteq used
    /\ PathsOf(db.scheduled) \cap CatalogPaths(db) = {}
    /\ \A c \in Clients :
        /\ txn[c].files \subseteq disk
        /\ txn[c].files \cap CatalogPaths(db) = {}
        /\ txn[c].files \cap PathsOf(db.scheduled) = {}
        /\ \A b \in Clients \ {c} : txn[b].files \cap txn[c].files = {}
    /\ \A p \in disk :
        \/ p \in CatalogPaths(db) \cup PathsOf(db.scheduled) \cup orphans
        \/ \E c \in Clients : p \in txn[c].files

\* What is about to be removed is neither committed nor new, and a row of
\* ducklake_files_scheduled_for_deletion goes after its file.
RemovalInv ==
    \A m \in Maintainers :
        /\ task[m].paths \subseteq used
        /\ task[m].paths \cap CatalogPaths(db) = {}
        /\ \A c \in Clients : task[m].paths \cap txn[c].files = {}
        /\ \A e \in task[m].scheduled :
            /\ e.waits = {}
            /\ e.path \in used
            /\ e.path \in task[m].paths \/ e.path \notin disk

\* The files of a reader are committed, or scheduled by someone who saw the reader.
ReaderInv ==
    \A c \in Clients :
        /\ txn[c].reads # {} => txn[c].open
        /\ txn[c].reads \subseteq disk
        /\ txn[c].reads \subseteq CatalogPaths(db) \cup PathsOf(db.scheduled)
        /\ \A e \in db.scheduled : e.path \in txn[c].reads => c \in e.waits
        /\ \A m \in Maintainers : task[m].paths \cap txn[c].reads = {}

\* Only an open transaction has files.
OpenInv == \A c \in Clients : ~txn[c].open => txn[c].files = {}

\* Tables that are about to be expired stay dead, and nothing is added to them.
ExpiryInv ==
    \A m \in Maintainers : \A y \in task[m].table :
        /\ ~LiveTable(y.table)
        /\ \A f \in db.data_file : f.table = y.table => f \in task[m].data_file
        /\ \A d \in db.delete_file : d.table = y.table => d \in task[m].delete_file

\* No row ends after the newest snapshot.
RangeInv == \A x \in db.table \cup db.data_file \cup db.delete_file : x.end <= Newest(db)

\* The row has ended, and no snapshot but the expired ones can see it.
Dead(x, expired) ==
    /\ x.end # Null
    /\ x.end <= Newest(db)
    /\ \A s \in db.snapshots \ expired : ~Covers(x, {s})

\* Whatever is about to be expired is seen by no other snapshot, those that have
\* been committed meanwhile included.
DeadInv ==
    \A m \in Maintainers :
        /\ \A y \in task[m].table, z \in db.table :
            z.table = y.table => Dead(z, task[m].snapshots)
        /\ \A f \in task[m].data_file :
            \/ \E y \in task[m].table : y.table = f.table
            \/ Dead(f, task[m].snapshots)
        /\ \A d \in task[m].delete_file :
            \/ \E y \in task[m].table : y.table = d.table
            \/ \E f \in task[m].data_file : f.path = d.file
            \/ Dead(d, task[m].snapshots)

IInv == /\ TypeInv
        /\ SnapshotInv
        /\ KeyInv
        /\ ReferenceInv
        /\ PathInv
        /\ RemovalInv
        /\ ReaderInv
        /\ OpenInv
        /\ ExpiryInv
        /\ RangeInv
        /\ DeadInv

\* What is dead stays dead as long as no snapshot is added.
LEMMA DeadStays ==
    ASSUME Newest(db') = Newest(db), db'.snapshots \subseteq db.snapshots
    PROVE  \A x, X : Dead(x, X) => Dead(x, X)'
BY DEF Dead

----------------------------------------------------------------------------
(* Commits.                                                                *)

\* What all commits have in common.
CommitFacts(c, T, F, D, G) ==
    /\ T \in SUBSET TableRow
    /\ F \in SUBSET DataFile
    /\ D \in SUBSET DeleteFile
    /\ G \in SUBSET Paths
    /\ UniquePaths(F)
    /\ UniquePaths(D)
    /\ PathsOf(F) \cap PathsOf(D) = {}
    /\ \A d, e \in D : d.file = e.file /\ d.end = Null /\ e.end = Null => d = e
    /\ G \subseteq CatalogPaths(db)
    /\ G \cap (PathsOf(F) \cup PathsOf(D)) = {}
    /\ PathsOf(F) \cup PathsOf(D) \cup G = CatalogPaths(db) \cup txn[c].files
    /\ \A x \in F \cup D : \E y \in T : y.table = x.table
    /\ \A d \in D : \/ \E e \in db.delete_file : d.file = e.file
                    \/ d.file \in PathsOf(db.data_file)
    /\ \A d \in D, f \in F : d.file = f.path => d.table = f.table
    /\ \A x \in T \cup F \cup D : x.end <= NextSnapshot
    /\ \A t : ~LiveTable(t) =>
        /\ \A x \in T : x.table = t => x \in db.table
        /\ \A x \in F : x.table = t => x \in db.data_file
        /\ \A x \in D : x.table = t => x \in db.delete_file

\* Facts that the commits start from.
LEMMA RowTypes ==
    ASSUME IInv, NEW c \in Clients
    PROVE  /\ db.table \in SUBSET TableRow
           /\ db.data_file \in SUBSET DataFile
           /\ db.delete_file \in SUBSET DeleteFile
           /\ txn[c].files \in SUBSET Paths
           /\ NextSnapshot \in Nat
           /\ NextSnapshot # Null
           /\ {} \in SUBSET Paths
           /\ PathsOf(db.data_file) \cap txn[c].files = {}
           /\ PathsOf(db.delete_file) \cap txn[c].files = {}
           /\ \A x \in db.table \cup db.data_file \cup db.delete_file : x.end <= NextSnapshot
           /\ Null <= NextSnapshot
<1>1. NextSnapshot \in Nat /\ NextSnapshot # Null
  BY NextSnapshotFact DEF IInv
<1>2. txn[c].files \cap CatalogPaths(db) = {}
  BY DEF IInv, PathInv
<1>3. txn[c].files \in SUBSET Paths
  BY DEF IInv, TypeInv, Transaction
<1>4. /\ db.table \in SUBSET TableRow
      /\ db.data_file \in SUBSET DataFile
      /\ db.delete_file \in SUBSET DeleteFile
  BY DEF IInv, TypeInv, Database
<1>5. ASSUME NEW x \in db.table \cup db.data_file \cup db.delete_file
      PROVE  x.end <= NextSnapshot
  <2>1. x.end <= Newest(db) /\ Newest(db) \in Nat
    BY NextSnapshotFact DEF IInv, RangeInv
  <2>2. x.end \in Nat
    BY <1>4 DEF TableRow, DataFile, DeleteFile
  <2> QED
    BY <2>1, <2>2 DEF NextSnapshot
<1>6. Null <= NextSnapshot
  BY <1>1 DEF Null
<1> QED
  BY <1>1, <1>2, <1>3, <1>4, <1>5, <1>6 DEF CatalogPaths

\* The files of an INSERT become rows of a live table.
LEMMA InsertFacts ==
    ASSUME IInv, NEW c \in Clients, NEW t \in Tables, CommitInsert(c, t)
    PROVE  \E T, F, D, G : CommitFacts(c, T, F, D, G) /\ Commit(c, NextSnapshot, T, F, D, G)
<1> DEFINE N == NewDataFiles(txn[c].files, t, NextSnapshot)
           F == db.data_file \cup N
<1>1. Commit(c, NextSnapshot, db.table, F, db.delete_file, {})
  BY DEF CommitInsert
<1>2. /\ N \in SUBSET DataFile
      /\ PathsOf(N) = txn[c].files
      /\ UniquePaths(N)
      /\ \A x \in N : x.table = t /\ x.end = Null
  BY NewData, RowTypes
<1> HIDE DEF N
<1>3. LiveTable(t)
  BY DEF CommitInsert
<1>4. F \in SUBSET DataFile
  BY <1>2, RowTypes
<1>5. PathsOf(F) = PathsOf(db.data_file) \cup txn[c].files
  BY <1>2, PathsOfUnion
<1>6. UniquePaths(F)
  BY <1>2, RowTypes, UniqueUnion DEF IInv, KeyInv
<1>7. \A x \in F \cup db.delete_file : \E y \in db.table : y.table = x.table
  BY <1>2, <1>3 DEF IInv, ReferenceInv, LiveTable
<1>8. ASSUME NEW d \in db.delete_file, NEW f \in F, d.file = f.path
      PROVE  d.table = f.table
  <2>1. f \notin N
    BY <1>2, <1>8 DEF IInv, ReferenceInv, PathsOf
  <2> QED
    BY <2>1, <1>8 DEF IInv, ReferenceInv
<1>9. CommitFacts(c, db.table, F, db.delete_file, {})
  <2>1. PathsOf(F) \cap PathsOf(db.delete_file) = {}
    BY <1>5, RowTypes DEF IInv, KeyInv
  <2>2. \A u : ~LiveTable(u) => \A x \in F : x.table = u => x \in db.data_file
    BY <1>2, <1>3
  <2>3. PathsOf(F) \cup PathsOf(db.delete_file) \cup {} = CatalogPaths(db) \cup txn[c].files
    BY <1>5 DEF CatalogPaths
  <2>4. \A x \in db.table \cup F \cup db.delete_file : x.end <= NextSnapshot
    BY <1>2, RowTypes
  <2> HIDE DEF F
  <2> QED
    BY <1>4, <1>6, <1>7, <1>8, <2>1, <2>2, <2>3, <2>4, RowTypes DEF CommitFacts, IInv, KeyInv
<1> HIDE DEF F
<1> QED
  BY <1>1, <1>9

\* A rename touches rows of its table only.
LEMMA RenameFacts ==
    ASSUME IInv, NEW c \in Clients, NEW t \in Tables, CommitRename(c, t)
    PROVE  \E T, F, D, G : CommitFacts(c, T, F, D, G) /\ Commit(c, NextSnapshot, T, F, D, G)
<1> DEFINE W == {x \in db.table : x.table = t}
           E == Ended(db.table, W, NextSnapshot)
           N == [table : {t}, begin : {NextSnapshot}, end : {Null}]
           T == E \cup N
<1>1. Commit(c, NextSnapshot, T, db.data_file, db.delete_file, {})
  BY DEF CommitRename
<1>2. N \in SUBSET TableRow /\ \A x \in N : x.table = t /\ x.end = Null
  BY RowTypes DEF TableRow, Null
<1>5. \A y \in W : y.table = t
  OBVIOUS
<1> HIDE DEF W
<1>3. /\ E \in SUBSET TableRow
      /\ \A x \in E : \E y \in db.table : /\ x.table = y.table /\ (y \notin W => x = y)
                                        /\ x.end \in {y.end, NextSnapshot}
      /\ \A y \in db.table : \E x \in E : x.table = y.table
  BY EndedTables, RowTypes
<1>4. LiveTable(t) /\ txn[c].files = {}
  BY DEF CommitRename
<1> HIDE DEF N, E
<1>6. \A u : ~LiveTable(u) => \A x \in T : x.table = u => x \in db.table
  BY <1>2, <1>3, <1>4, <1>5
<1>7. \A x \in db.data_file \cup db.delete_file : \E y \in T : y.table = x.table
  BY <1>3 DEF IInv, ReferenceInv
<1>8. T \in SUBSET TableRow
  BY <1>2, <1>3
<1>9. PathsOf(db.data_file) \cup PathsOf(db.delete_file) \cup {} = CatalogPaths(db) \cup txn[c].files
  BY <1>4 DEF CatalogPaths
<1>10. \A x \in T \cup db.data_file \cup db.delete_file : x.end <= NextSnapshot
  BY <1>2, <1>3, RowTypes
<1> HIDE DEF T
<1>11. CommitFacts(c, T, db.data_file, db.delete_file, {})
  BY <1>6, <1>7, <1>8, <1>9, <1>10, RowTypes DEF CommitFacts, IInv, KeyInv, ReferenceInv
<1> QED
  BY <1>1, <1>11

\* A DROP ends rows, and adds those of the transaction's own files.
LEMMA DropFacts ==
    ASSUME IInv, NEW c \in Clients, NEW t \in Tables, CommitDrop(c, t)
    PROVE  \E T, F, D, G : CommitFacts(c, T, F, D, G) /\ Commit(c, NextSnapshot, T, F, D, G)
<1> DEFINE WT == {x \in db.table : x.table = t}
           WF == {f \in db.data_file : f.table = t}
           WD == {d \in db.delete_file : d.table = t}
           T == Ended(db.table, WT, NextSnapshot)
           E == Ended(db.data_file, WF, NextSnapshot)
           N == NewDataFiles(txn[c].files, t, NextSnapshot)
           F == E \cup N
           D == Ended(db.delete_file, WD, NextSnapshot)
<1>1. Commit(c, NextSnapshot, T, F, D, {})
  BY DEF CommitDrop
<1>2. /\ \A y \in WT : y.table = t
      /\ \A y \in WF : y.table = t
      /\ \A y \in WD : y.table = t
  OBVIOUS
<1> HIDE DEF WT, WF, WD
<1>3. /\ T \in SUBSET TableRow
      /\ \A x \in T : \E y \in db.table : /\ x.table = y.table /\ (y \notin WT => x = y)
                                        /\ x.end \in {y.end, NextSnapshot}
      /\ \A y \in db.table : \E x \in T : x.table = y.table
  BY EndedTables, RowTypes
<1>4. /\ E \in SUBSET DataFile
      /\ PathsOf(E) = PathsOf(db.data_file)
      /\ UniquePaths(db.data_file) => UniquePaths(E)
      /\ \A x \in E : \E y \in db.data_file :
            /\ x.path = y.path /\ x.table = y.table /\ (y \notin WF => x = y)
            /\ x.end \in {y.end, NextSnapshot}
  BY EndedData, RowTypes
<1>5. /\ D \in SUBSET DeleteFile
      /\ PathsOf(D) = PathsOf(db.delete_file)
      /\ UniquePaths(db.delete_file) => UniquePaths(D)
      /\ \A x \in D : \E y \in db.delete_file :
            /\ x.path = y.path /\ x.table = y.table /\ x.file = y.file /\ (y \notin WD => x = y)
            /\ x.end \in {y.end, NextSnapshot} /\ (x.end = Null => x = y)
  BY EndedDeletes, RowTypes
<1>6. /\ N \in SUBSET DataFile
      /\ PathsOf(N) = txn[c].files
      /\ UniquePaths(N)
      /\ \A x \in N : x.table = t /\ x.end = Null
  BY NewData, RowTypes
<1>7. LiveTable(t)
  BY DEF CommitDrop
<1> HIDE DEF T, E, N, D
<1>8. F \in SUBSET DataFile
  BY <1>4, <1>6
<1>9. PathsOf(F) = PathsOf(db.data_file) \cup txn[c].files
  BY <1>4, <1>6, PathsOfUnion
<1>10. UniquePaths(F)
  BY <1>4, <1>6, RowTypes, UniqueUnion DEF IInv, KeyInv
<1>11. ASSUME NEW x \in F \cup D
       PROVE  \E y \in T : y.table = x.table
  BY <1>3, <1>4, <1>5, <1>6, <1>7 DEF IInv, ReferenceInv, LiveTable
<1>12. ASSUME NEW d \in D, NEW f \in F, d.file = f.path
       PROVE  d.table = f.table
  <2>1. PICK e \in db.delete_file : d.table = e.table /\ d.file = e.file
    BY <1>5
  <2>2. f \notin N
    BY <2>1, <1>6, <1>12 DEF IInv, ReferenceInv, PathsOf
  <2>3. PICK g \in db.data_file : f.path = g.path /\ f.table = g.table
    BY <2>2, <1>4
  <2> QED
    BY <2>1, <2>3, <1>12 DEF IInv, ReferenceInv
<1>13. \A u : ~LiveTable(u) => /\ \A x \in T : x.table = u => x \in db.table
                               /\ \A x \in F : x.table = u => x \in db.data_file
                               /\ \A x \in D : x.table = u => x \in db.delete_file
  BY <1>2, <1>3, <1>4, <1>5, <1>6, <1>7
<1>14. \A d, e \in D : d.file = e.file /\ d.end = Null /\ e.end = Null => d = e
  BY <1>5 DEF IInv, KeyInv
<1>15. PathsOf(F) \cap PathsOf(D) = {}
  BY <1>5, <1>9, RowTypes DEF IInv, KeyInv
<1>16. PathsOf(F) \cup PathsOf(D) \cup {} = CatalogPaths(db) \cup txn[c].files
  BY <1>5, <1>9 DEF CatalogPaths
<1>17. UniquePaths(D)
  BY <1>5 DEF IInv, KeyInv
<1>18. \A d \in D : \E e \in db.delete_file : d.file = e.file
  BY <1>5
<1>19. \A x \in T \cup F \cup D : x.end <= NextSnapshot
  BY <1>3, <1>4, <1>5, <1>6, RowTypes
<1> HIDE DEF F
<1>20. CommitFacts(c, T, F, D, {})
  BY <1>3, <1>5, <1>8, <1>10, <1>11, <1>12, <1>13, <1>14, <1>15, <1>16, <1>17, <1>18, <1>19
     DEF CommitFacts
<1> QED
  BY <1>1, <1>20

\* A file that ends takes its delete files with it, and they are of its table.
LEMMA EndFileFacts ==
    ASSUME IInv, NEW c \in Clients, NEW f \in LiveFiles, CommitEndFile(c, f)
    PROVE  \E T, F, D, G : CommitFacts(c, T, F, D, G) /\ Commit(c, NextSnapshot, T, F, D, G)
<1> DEFINE WF == {f}
           WD == {d \in db.delete_file : d.file = f.path}
           E == Ended(db.data_file, WF, NextSnapshot)
           N == NewDataFiles(txn[c].files, f.table, NextSnapshot)
           F == E \cup N
           D == Ended(db.delete_file, WD, NextSnapshot)
<1>1. Commit(c, NextSnapshot, db.table, F, D, {})
  BY DEF CommitEndFile
<1>2. f \in db.data_file /\ LiveTable(f.table) /\ f.table \in Tables
  BY RowTypes DEF LiveFiles, DataFile
<1>3. \A y \in WD : y.table = f.table
  BY <1>2 DEF IInv, ReferenceInv
<1> HIDE DEF WD
<1>4. /\ E \in SUBSET DataFile
      /\ PathsOf(E) = PathsOf(db.data_file)
      /\ UniquePaths(db.data_file) => UniquePaths(E)
      /\ \A x \in E : \E y \in db.data_file :
            /\ x.path = y.path /\ x.table = y.table /\ (y \notin WF => x = y)
            /\ x.end \in {y.end, NextSnapshot}
  <2> HIDE DEF WF
  <2> QED
    BY EndedData, RowTypes
<1>5. /\ D \in SUBSET DeleteFile
      /\ PathsOf(D) = PathsOf(db.delete_file)
      /\ UniquePaths(db.delete_file) => UniquePaths(D)
      /\ \A x \in D : \E y \in db.delete_file :
            /\ x.path = y.path /\ x.table = y.table /\ x.file = y.file /\ (y \notin WD => x = y)
            /\ x.end \in {y.end, NextSnapshot} /\ (x.end = Null => x = y)
  BY EndedDeletes, RowTypes, SMTT(60)
<1>6. /\ N \in SUBSET DataFile
      /\ PathsOf(N) = txn[c].files
      /\ UniquePaths(N)
      /\ \A x \in N : x.table = f.table /\ x.end = Null
  BY <1>2, NewData, RowTypes
<1> HIDE DEF E, N, D
<1>8. F \in SUBSET DataFile
  BY <1>4, <1>6
<1>9. PathsOf(F) = PathsOf(db.data_file) \cup txn[c].files
  BY <1>4, <1>6, PathsOfUnion
<1>10. UniquePaths(F)
  BY <1>4, <1>6, RowTypes, UniqueUnion DEF IInv, KeyInv
<1>11. ASSUME NEW x \in F \cup D
       PROVE  \E y \in db.table : y.table = x.table
  BY <1>2, <1>4, <1>5, <1>6 DEF IInv, ReferenceInv, LiveTable
<1>12. ASSUME NEW d \in D, NEW g \in F, d.file = g.path
       PROVE  d.table = g.table
  <2>1. PICK e \in db.delete_file : d.table = e.table /\ d.file = e.file
    BY <1>5
  <2>2. g \notin N
    BY <2>1, <1>6, <1>12 DEF IInv, ReferenceInv, PathsOf
  <2>3. PICK h \in db.data_file : g.path = h.path /\ g.table = h.table
    BY <2>2, <1>4
  <2> QED
    BY <2>1, <2>3, <1>12 DEF IInv, ReferenceInv
<1>13. \A u : ~LiveTable(u) => /\ \A x \in F : x.table = u => x \in db.data_file
                               /\ \A x \in D : x.table = u => x \in db.delete_file
  BY <1>2, <1>3, <1>4, <1>5, <1>6
<1>14. \A d, e \in D : d.file = e.file /\ d.end = Null /\ e.end = Null => d = e
  BY <1>5 DEF IInv, KeyInv
<1>15. PathsOf(F) \cap PathsOf(D) = {}
  BY <1>5, <1>9, RowTypes DEF IInv, KeyInv
<1>16. PathsOf(F) \cup PathsOf(D) \cup {} = CatalogPaths(db) \cup txn[c].files
  BY <1>5, <1>9 DEF CatalogPaths
<1>17. UniquePaths(D)
  BY <1>5 DEF IInv, KeyInv
<1>18. \A d \in D : \E e \in db.delete_file : d.file = e.file
  BY <1>5
<1>19. \A x \in db.table \cup F \cup D : x.end <= NextSnapshot
  BY <1>4, <1>5, <1>6, RowTypes
<1> HIDE DEF F
<1>20. CommitFacts(c, db.table, F, D, {})
  BY <1>5, <1>8, <1>10, <1>11, <1>12, <1>13, <1>14, <1>15, <1>16, <1>17, <1>18, <1>19, RowTypes
     DEF CommitFacts
<1> QED
  BY <1>1, <1>20

\* A delete file takes the place of the only live one.
LEMMA DeleteFacts ==
    ASSUME IInv, NEW c \in Clients, NEW f \in LiveFiles, CommitDelete(c, f)
    PROVE  \E T, F, D, G : CommitFacts(c, T, F, D, G) /\ Commit(c, NextSnapshot, T, F, D, G)
<1> DEFINE old == {d \in db.delete_file : d.file = f.path /\ d.end = Null}
           begins == IF old = {} THEN {NextSnapshot} ELSE {d.begin : d \in old}
           N == [path : txn[c].files, file : {f.path}, table : {f.table},
                 begin : begins, end : {Null}]
           D == (db.delete_file \ old) \cup N
<1>1. Commit(c, NextSnapshot, db.table, db.data_file, D, PathsOf(old))
  BY DEF CommitDelete
<1>2. /\ f \in db.data_file
      /\ LiveTable(f.table)
      /\ f.table \in Tables
      /\ f.path \in Paths
  BY RowTypes DEF LiveFiles, DataFile
<1>3. \E b \in Nat : begins = {b}
  <2>1. \A d, e \in old : d = e
    BY DEF IInv, KeyInv
  <2>2. CASE old = {}
    BY <2>2, RowTypes
  <2>3. CASE old # {}
    <3>1. PICK d \in old : TRUE
      BY <2>3
    <3>2. d.begin \in Nat
      BY <3>1, RowTypes DEF DeleteFile
    <3>3. begins = {d.begin}
      BY <3>1, <2>1
    <3> QED
      BY <3>2, <3>3
  <2> QED
    BY <2>2, <2>3
<1>4. PICK p \in Paths : txn[c].files = {p}
  BY DEF CommitDelete
<1>5. PICK b \in Nat : begins = {b}
  BY <1>3
<1> DEFINE r == [path |-> p, file |-> f.path, table |-> f.table, begin |-> b, end |-> Null]
<1> HIDE DEF begins
<1>6. N = {r}
  <2>1. r \in N
    BY <1>4, <1>5
  <2>2. \A x \in N : x = r
    BY <1>4, <1>5
  <2> HIDE DEF N, r
  <2> QED
    BY <2>1, <2>2
<1>7. /\ r \in DeleteFile /\ r.path = p /\ r.file = f.path /\ r.table = f.table /\ r.end = Null
      /\ PathsOf(N) = txn[c].files
      /\ UniquePaths(N)
  <2>1. r \in DeleteFile /\ r.path = p /\ r.file = f.path /\ r.table = f.table /\ r.end = Null
    BY <1>2, <1>4, <1>5 DEF DeleteFile, Null
  <2> HIDE DEF r, N
  <2> QED
    BY <1>4, <1>6, <2>1 DEF PathsOf, UniquePaths
<1>8. /\ old \in SUBSET db.delete_file
      /\ \A d \in old : d.file = f.path /\ d.end = Null
      /\ \A d \in db.delete_file \ old : ~(d.file = f.path /\ d.end = Null)
  OBVIOUS
<1> HIDE DEF r, N, old
<1>9. PathsOf(db.delete_file \ old) = PathsOf(db.delete_file) \ PathsOf(old)
         /\ UniquePaths(db.delete_file \ old)
  BY <1>8, PathsOfDifference DEF IInv, KeyInv
<1>10. PathsOf(D) = (PathsOf(db.delete_file) \ PathsOf(old)) \cup txn[c].files
  BY <1>7, <1>9, PathsOfUnion
<1>11. UniquePaths(D)
  BY <1>7, <1>9, RowTypes, UniqueUnion, ZenonT(60)
<1>12. D \in SUBSET DeleteFile
  BY <1>6, <1>7, <1>8, RowTypes
<1>13. PathsOf(old) \subseteq PathsOf(db.delete_file)
  BY <1>8 DEF PathsOf
<1>14. /\ PathsOf(old) \in SUBSET Paths
       /\ PathsOf(old) \subseteq CatalogPaths(db)
       /\ PathsOf(old) \cap (PathsOf(db.data_file) \cup PathsOf(D)) = {}
       /\ PathsOf(db.data_file) \cup PathsOf(D) \cup PathsOf(old)
             = CatalogPaths(db) \cup txn[c].files
       /\ PathsOf(db.data_file) \cap PathsOf(D) = {}
  <2>1. PathsOf(db.delete_file) \in SUBSET Paths
    BY RowTypes DEF PathsOf, DeleteFile
  <2> QED
    BY <1>10, <1>13, <2>1, RowTypes DEF CatalogPaths, IInv, KeyInv
<1>15. \A x \in db.data_file \cup D : \E y \in db.table : y.table = x.table
  BY <1>2, <1>6, <1>7, <1>8 DEF IInv, ReferenceInv
<1>16. \A d \in D : (\E e \in db.delete_file : d.file = e.file) \/ d.file \in PathsOf(db.data_file)
  BY <1>2, <1>6, <1>7, <1>8 DEF PathsOf
<1>17. \A d \in D, g \in db.data_file : d.file = g.path => d.table = g.table
  BY <1>2, <1>6, <1>7, <1>8 DEF IInv, ReferenceInv, KeyInv, UniquePaths
<1>18. \A d, e \in D : d.file = e.file /\ d.end = Null /\ e.end = Null => d = e
  BY <1>6, <1>7, <1>8 DEF IInv, KeyInv
<1>19. \A u : ~LiveTable(u) => \A x \in D : x.table = u => x \in db.delete_file
  BY <1>2, <1>6, <1>7, <1>8
<1>20. \A x \in db.table \cup db.data_file \cup D : x.end <= NextSnapshot
  BY <1>6, <1>7, <1>8, RowTypes
<1> HIDE DEF D
<1>21. CommitFacts(c, db.table, db.data_file, D, PathsOf(old))
  BY <1>11, <1>12, <1>14, <1>15, <1>16, <1>17, <1>18, <1>19, <1>20, RowTypes
     DEF CommitFacts, IInv, KeyInv
<1> QED
  BY <1>1, <1>21

\* A merge swaps rows of one live table for one new row.
LEMMA MergeFacts ==
    ASSUME IInv, NEW c \in Clients, NEW S \in SUBSET LiveFiles, CommitMerge(c, S)
    PROVE  \E T, F, D, G : CommitFacts(c, T, F, D, G) /\ Commit(c, NextSnapshot, T, F, D, G)
<1>1. PICK first \in S :
          Commit(c, NextSnapshot, db.table,
                 (db.data_file \ S) \cup NewDataFiles(txn[c].files, first.table, first.begin),
                 db.delete_file, PathsOf(S))
  BY DEF CommitMerge
<1> DEFINE N == NewDataFiles(txn[c].files, first.table, first.begin)
           F == (db.data_file \ S) \cup N
<1>2. /\ S \in SUBSET db.data_file
      /\ first \in DataFile
      /\ LiveTable(first.table)
  BY RowTypes DEF LiveFiles
<1>3. /\ N \in SUBSET DataFile
      /\ PathsOf(N) = txn[c].files
      /\ UniquePaths(N)
      /\ \A x \in N : x.table = first.table /\ x.end = Null
  BY <1>2, NewData, RowTypes DEF DataFile
<1> HIDE DEF N
<1>4. PathsOf(db.data_file \ S) = PathsOf(db.data_file) \ PathsOf(S)
         /\ UniquePaths(db.data_file \ S)
  BY <1>2, PathsOfDifference DEF IInv, KeyInv
<1>5. PathsOf(F) = (PathsOf(db.data_file) \ PathsOf(S)) \cup txn[c].files
  BY <1>3, <1>4, PathsOfUnion
<1>6. UniquePaths(F)
  BY <1>3, <1>4, RowTypes, UniqueUnion, ZenonT(60)
<1>7. F \in SUBSET DataFile
  BY <1>3, RowTypes
<1>8. PathsOf(S) \subseteq PathsOf(db.data_file)
  BY <1>2 DEF PathsOf
<1>9. /\ PathsOf(S) \in SUBSET Paths
      /\ PathsOf(S) \subseteq CatalogPaths(db)
      /\ PathsOf(S) \cap (PathsOf(F) \cup PathsOf(db.delete_file)) = {}
      /\ PathsOf(F) \cup PathsOf(db.delete_file) \cup PathsOf(S)
            = CatalogPaths(db) \cup txn[c].files
      /\ PathsOf(F) \cap PathsOf(db.delete_file) = {}
  <2>1. PathsOf(db.data_file) \in SUBSET Paths
    BY RowTypes DEF PathsOf, DataFile
  <2> QED
    BY <1>5, <1>8, <2>1, RowTypes DEF CatalogPaths, IInv, KeyInv
<1>10. \A x \in F \cup db.delete_file : \E y \in db.table : y.table = x.table
  BY <1>2, <1>3 DEF IInv, ReferenceInv, LiveTable
<1>11. ASSUME NEW d \in db.delete_file, NEW g \in F, d.file = g.path
       PROVE  d.table = g.table
  <2>1. g \notin N
    BY <1>3, <1>11 DEF IInv, ReferenceInv, PathsOf
  <2> QED
    BY <2>1, <1>11 DEF IInv, ReferenceInv
<1>12. \A u : ~LiveTable(u) => \A x \in F : x.table = u => x \in db.data_file
  BY <1>2, <1>3
<1>13. \A x \in db.table \cup F \cup db.delete_file : x.end <= NextSnapshot
  BY <1>3, RowTypes
<1> HIDE DEF F
<1>14. CommitFacts(c, db.table, F, db.delete_file, PathsOf(S))
  BY <1>6, <1>7, <1>9, <1>10, <1>11, <1>12, <1>13, RowTypes DEF CommitFacts, IInv, KeyInv
<1> QED
  BY <1>1, <1>14 DEF F, N

\* A commit keeps the invariant.
LEMMA CommitInv ==
    ASSUME IInv, NEW c \in Clients, NEW T, NEW F, NEW D, NEW G,
           CommitFacts(c, T, F, D, G), Commit(c, NextSnapshot, T, F, D, G)
    PROVE  IInv'
<1> DEFINE W == OpenClients \ {c}
           S == NoLongerWaits(db.scheduled, c)
           N == NewSchedule(G, W)
<1>1. /\ db'.table = T /\ db'.data_file = F /\ db'.delete_file = D
      /\ db'.scheduled = S \cup N
      /\ disk' = disk /\ task' = task /\ used' = used /\ orphans' = orphans
      /\ txn[c].open
  BY DEF Commit
<1>2. /\ txn'[c] = NoTransaction
      /\ \A b \in Clients \ {c} : txn'[b] = txn[b]
  BY DEF Commit, IInv, TypeInv
<1>3. /\ PathsOf(S) = PathsOf(db.scheduled)
      /\ PathsOf(N) = G
      /\ \A e \in N : e.path \in G /\ e.waits = W
      /\ \A e \in S : \E x \in db.scheduled : e.path = x.path /\ e.waits = x.waits \ {c}
  <2>1. db.scheduled \in SUBSET Scheduled /\ G \in SUBSET Paths /\ W \in SUBSET Clients
    BY DEF IInv, TypeInv, Database, CommitFacts, OpenClients
  <2> HIDE DEF W
  <2> QED
    BY <2>1, SchedulePaths
<1> HIDE DEF S, N
<1>4. PathsOf(db'.scheduled) = PathsOf(db.scheduled) \cup G
  BY <1>1, <1>3, PathsOfUnion
<1>5. /\ CatalogPaths(db') = PathsOf(F) \cup PathsOf(D)
      /\ CatalogPaths(db') \subseteq CatalogPaths(db) \cup txn[c].files
      /\ CatalogPaths(db') \cup G = CatalogPaths(db) \cup txn[c].files
      /\ CatalogPaths(db') \cap G = {}
      /\ G \subseteq CatalogPaths(db)
  BY <1>1 DEF CatalogPaths, CommitFacts
<1>6. /\ txn'[c].files = {} /\ txn'[c].reads = {}
      /\ \A b \in Clients : txn'[b].files \subseteq txn[b].files
  BY <1>2 DEF NoTransaction
<1>7. TypeInv' /\ SnapshotInv'
  BY CommitTypes, CommitSnapshots DEF IInv, CommitFacts
<1>8. KeyInv'
  BY <1>1 DEF KeyInv, CommitFacts
<1>9. ReferenceInv'
  <2>1. \A x \in F \cup D : \E y \in T : y.table = x.table
    BY DEF CommitFacts
  <2>2. ASSUME NEW d \in D
        PROVE  /\ d.file \in used
               /\ \A b \in Clients : d.file \notin txn[b].files
               /\ \A f \in F : d.file = f.path => d.table = f.table
    <3>1. CASE \E e \in db.delete_file : d.file = e.file
      BY <3>1, <2>2 DEF CommitFacts, IInv, ReferenceInv
    <3>2. CASE d.file \in PathsOf(db.data_file)
      BY <3>2, <2>2 DEF CommitFacts, IInv, PathInv, CatalogPaths
    <3> QED
      BY <3>1, <3>2 DEF CommitFacts
  <2> QED
    BY <1>1, <1>6, <2>1, <2>2 DEF ReferenceInv
<1>10. PathInv'
  <2>1. CatalogPaths(db') \subseteq disk /\ disk \subseteq used
    BY <1>5 DEF IInv, PathInv
  <2>2. PathsOf(db'.scheduled) \subseteq used
    BY <1>4, <1>5 DEF IInv, PathInv
  <2>3. PathsOf(db'.scheduled) \cap CatalogPaths(db') = {}
    BY <1>4, <1>5 DEF IInv, PathInv
  <2>4. ASSUME NEW b \in Clients
        PROVE  /\ txn'[b].files \subseteq disk
               /\ txn'[b].files \cap CatalogPaths(db') = {}
               /\ txn'[b].files \cap PathsOf(db'.scheduled) = {}
               /\ \A a \in Clients \ {b} : txn'[a].files \cap txn'[b].files = {}
    <3>1. CASE b = c
      BY <3>1, <1>6
    <3>2. CASE b # c
      <4>1. txn[b].files \cap (CatalogPaths(db) \cup txn[c].files) = {}
        BY <3>2 DEF IInv, PathInv
      <4>2. txn[b].files \subseteq disk /\ txn[b].files \cap PathsOf(db.scheduled) = {}
        BY DEF IInv, PathInv
      <4>3. \A a \in Clients \ {b} : txn[a].files \cap txn[b].files = {}
        BY DEF IInv, PathInv
      <4> QED
        BY <4>1, <4>2, <4>3, <1>4, <1>5, <1>6
    <3> QED
      BY <3>1, <3>2
  <2>5. ASSUME NEW p \in disk
        PROVE  \/ p \in CatalogPaths(db') \cup PathsOf(db'.scheduled) \cup orphans
               \/ \E b \in Clients : p \in txn'[b].files
    BY <1>2, <1>4, <1>5 DEF IInv, PathInv
  <2> QED
    BY <1>1, <2>1, <2>2, <2>3, <2>4, <2>5 DEF PathInv
<1>11. RemovalInv'
  <2>1. ASSUME NEW m \in Maintainers
        PROVE  task[m].paths \cap CatalogPaths(db') = {}
    BY <1>5 DEF IInv, RemovalInv
  <2> QED
    BY <1>1, <1>6, <2>1 DEF IInv, RemovalInv
<1>12. ReaderInv'
  <2>1. ASSUME NEW b \in Clients
        PROVE  /\ txn'[b].reads # {} => txn'[b].open
               /\ txn'[b].reads \subseteq disk
               /\ txn'[b].reads \subseteq CatalogPaths(db') \cup PathsOf(db'.scheduled)
               /\ \A e \in db'.scheduled : e.path \in txn'[b].reads => b \in e.waits
               /\ \A m \in Maintainers : task[m].paths \cap txn'[b].reads = {}
    <3>1. CASE b = c
      BY <3>1, <1>6
    <3>2. CASE b # c
      <4>1. /\ txn[b].reads # {} => txn[b].open
            /\ txn[b].reads \subseteq disk
            /\ txn[b].reads \subseteq CatalogPaths(db) \cup PathsOf(db.scheduled)
            /\ \A m \in Maintainers : task[m].paths \cap txn[b].reads = {}
        BY DEF IInv, ReaderInv
      <4>2. txn[b].reads \subseteq CatalogPaths(db') \cup PathsOf(db'.scheduled)
        BY <4>1, <1>4, <1>5
      <4>3. ASSUME NEW e \in db'.scheduled, e.path \in txn[b].reads
            PROVE  b \in e.waits
        <5>1. CASE e \in S
          BY <5>1, <4>3, <3>2, <1>3 DEF IInv, ReaderInv
        <5>2. CASE e \in N
          <6>1. txn[b].open /\ e.waits = W
            BY <5>2, <4>1, <4>3, <1>3
          <6> QED
            BY <6>1, <3>2 DEF OpenClients
        <5> QED
          BY <5>1, <5>2, <1>1
      <4> QED
        BY <4>1, <4>2, <4>3, <3>2, <1>2
    <3> QED
      BY <3>1, <3>2
  <2> QED
    BY <1>1, <2>1 DEF ReaderInv
<1>13. ExpiryInv'
  <2>1. ASSUME NEW m \in Maintainers, NEW y \in task[m].table
        PROVE  /\ ~LiveTable(y.table)'
               /\ \A f \in F : f.table = y.table => f \in task[m].data_file
               /\ \A d \in D : d.table = y.table => d \in task[m].delete_file
    <3>1. ~LiveTable(y.table)
      BY DEF IInv, ExpiryInv
    <3>2. /\ \A x \in T : x.table = y.table => x \in db.table
          /\ \A x \in F : x.table = y.table => x \in db.data_file
          /\ \A x \in D : x.table = y.table => x \in db.delete_file
      BY <3>1 DEF CommitFacts
    <3>3. ~LiveTable(y.table)'
      BY <3>1, <3>2, <1>1 DEF LiveTable
    <3> QED
      BY <3>2, <3>3 DEF IInv, ExpiryInv
  <2> QED
    BY <1>1, <2>1 DEF ExpiryInv
<1>14. OpenInv'
  BY <1>2 DEF OpenInv, IInv, NoTransaction
<1>15. Newest(db') = NextSnapshot /\ db'.snapshots = db.snapshots \cup {NextSnapshot}
  BY CommitSnapshots DEF IInv, Commit
<1>16. RangeInv'
  BY <1>1, <1>15 DEF RangeInv, CommitFacts
<1>17. ASSUME NEW x, NEW X, x.end \in Nat, Dead(x, X)
       PROVE  Dead(x, X)'
  <2>1. Newest(db) \in Nat /\ NextSnapshot = Newest(db) + 1
    BY NextSnapshotFact DEF IInv, NextSnapshot
  <2>2. x.end # Null /\ x.end <= Newest(db)
    BY <1>17 DEF Dead
  <2>3. ~Covers(x, {NextSnapshot})
    BY <2>1, <2>2, <1>17 DEF Covers
  <2>4. x.end <= NextSnapshot
    BY <2>1, <2>2, <1>17
  <2>5. \A s \in db'.snapshots \ X : ~Covers(x, {s})
    BY <2>3, <1>15, <1>17 DEF Dead
  <2> QED
    BY <2>2, <2>4, <2>5, <1>15 DEF Dead
<1>18. DeadInv'
  <2>1. ASSUME NEW m \in Maintainers
        PROVE  /\ \A y \in task[m].table, z \in T :
                     z.table = y.table => Dead(z, task[m].snapshots)'
               /\ \A f \in task[m].data_file :
                     \/ \E y \in task[m].table : y.table = f.table
                     \/ Dead(f, task[m].snapshots)'
               /\ \A d \in task[m].delete_file :
                     \/ \E y \in task[m].table : y.table = d.table
                     \/ \E f \in task[m].data_file : f.path = d.file
                     \/ Dead(d, task[m].snapshots)'
    <3>1. /\ \A z \in db.table : z.end \in Nat
          /\ \A f \in task[m].data_file : f.end \in Nat
          /\ \A d \in task[m].delete_file : d.end \in Nat
      BY DEF IInv, TypeInv, Database, Task, TableRow, DataFile, DeleteFile
    <3>2. \A y \in task[m].table, z \in T : z.table = y.table => z \in db.table
      BY DEF IInv, ExpiryInv, CommitFacts
    <3>3. /\ \A y \in task[m].table, z \in T :
                z.table = y.table => Dead(z, task[m].snapshots)
          /\ \A f \in task[m].data_file :
                \/ \E y \in task[m].table : y.table = f.table
                \/ Dead(f, task[m].snapshots)
          /\ \A d \in task[m].delete_file :
                \/ \E y \in task[m].table : y.table = d.table
                \/ \E f \in task[m].data_file : f.path = d.file
                \/ Dead(d, task[m].snapshots)
      BY <3>2 DEF IInv, DeadInv
    <3>4. /\ \A z \in db.table : Dead(z, task[m].snapshots) => Dead(z, task[m].snapshots)'
          /\ \A f \in task[m].data_file : Dead(f, task[m].snapshots) => Dead(f, task[m].snapshots)'
          /\ \A d \in task[m].delete_file : Dead(d, task[m].snapshots) => Dead(d, task[m].snapshots)'
      BY <3>1, <1>17, <1>1
    <3> QED
      BY <3>2, <3>3, <3>4
  <2> QED
    BY <1>1, <2>1 DEF DeadInv
<1> QED
  BY <1>7, <1>8, <1>9, <1>10, <1>11, <1>12, <1>13, <1>14, <1>16, <1>18 DEF IInv

----------------------------------------------------------------------------
(* The other steps of transactions.                                        *)

\* A transaction begins to read files that are neither scheduled nor about to go.
LEMMA BeginInv ==
    ASSUME IInv, NEW c \in Clients, Begin(c)
    PROVE  IInv'
<1>1. /\ db' = db /\ disk' = disk /\ task' = task /\ used' = used /\ orphans' = orphans
  BY DEF Begin
<1> DEFINE C == CatalogPaths(db)
<1>2. /\ txn'[c].open = TRUE /\ txn'[c].reads = C /\ txn'[c].files = {}
      /\ \A b \in Clients \ {c} : txn'[b] = txn[b]
  BY DEF Begin, IInv, TypeInv
<1> HIDE DEF C
<1>3. C \subseteq Paths
  BY DEF C, IInv, PathInv, TypeInv
<1>4. TypeInv'
  <2>1. txn' \in [Clients -> Transaction]
    BY <1>3 DEF C, Begin, IInv, TypeInv, Transaction
  <2> QED
    BY <1>1, <2>1 DEF IInv, TypeInv
<1>5. SnapshotInv' /\ KeyInv' /\ ExpiryInv' /\ RangeInv' /\ DeadInv'
  BY <1>1 DEF IInv, SnapshotInv, KeyInv, ExpiryInv, LiveTable, RangeInv, DeadInv, Dead
<1>6. /\ \A b \in Clients : txn'[b].files \subseteq txn[b].files
      /\ \A p : (\E b \in Clients : p \in txn[b].files) =>
                    p \in txn[c].files \/ \E b \in Clients : p \in txn'[b].files
  BY <1>2
<1>7. ReferenceInv'
  BY <1>1, <1>6 DEF IInv, ReferenceInv
<1>8. PathInv'
  <2>1. txn[c].files = {}
    BY DEF Begin, IInv, OpenInv
  <2> QED
    BY <1>1, <1>6, <2>1 DEF IInv, PathInv
<1>9. RemovalInv'
  BY <1>1, <1>6 DEF IInv, RemovalInv
<1>10. ReaderInv'
  <2>1. ASSUME NEW b \in Clients
        PROVE  /\ txn'[b].reads # {} => txn'[b].open
               /\ txn'[b].reads \subseteq disk
               /\ txn'[b].reads \subseteq CatalogPaths(db) \cup PathsOf(db.scheduled)
               /\ \A e \in db.scheduled : e.path \in txn'[b].reads => b \in e.waits
               /\ \A m \in Maintainers : task[m].paths \cap txn'[b].reads = {}
    <3>1. CASE b = c
      <4>1. C \subseteq disk /\ C \cap PathsOf(db.scheduled) = {}
        BY DEF C, IInv, PathInv
      <4>2. \A m \in Maintainers : task[m].paths \cap C = {}
        BY DEF C, IInv, RemovalInv
      <4>3. \A e \in db.scheduled : e.path \in PathsOf(db.scheduled)
        BY DEF PathsOf
      <4> QED
        BY <3>1, <4>1, <4>2, <4>3, <1>2 DEF C
    <3>2. CASE b # c
      BY <3>2, <1>2 DEF IInv, ReaderInv
    <3> QED
      BY <3>1, <3>2
  <2> QED
    BY <1>1, <2>1 DEF ReaderInv
<1>11. OpenInv'
  BY <1>2 DEF OpenInv, IInv
<1> QED
  BY <1>4, <1>5, <1>7, <1>8, <1>9, <1>10, <1>11 DEF IInv

\* A new file has a name that nothing refers to.
LEMMA WriteFileInv ==
    ASSUME IInv, NEW c \in Clients, NEW p \in Paths, WriteFile(c, p)
    PROVE  IInv'
<1>1. /\ db' = db /\ task' = task /\ orphans' = orphans
      /\ disk' = disk \cup {p} /\ used' = used \cup {p} /\ p \notin used
  BY DEF WriteFile
<1>2. /\ txn[c].open
      /\ txn'[c].open = txn[c].open /\ txn'[c].reads = txn[c].reads
      /\ txn'[c].files = txn[c].files \cup {p}
      /\ \A b \in Clients \ {c} : txn'[b] = txn[b]
  BY DEF WriteFile, IInv, TypeInv, Transaction
<1>3. TypeInv'
  <2>1. txn' \in [Clients -> Transaction]
    BY DEF WriteFile, IInv, TypeInv, Transaction
  <2> QED
    BY <1>1, <2>1 DEF IInv, TypeInv
<1>4. SnapshotInv' /\ KeyInv' /\ ExpiryInv' /\ RangeInv' /\ DeadInv'
  BY <1>1, ZenonT(60) DEF IInv, SnapshotInv, KeyInv, ExpiryInv, LiveTable, RangeInv, DeadInv, Dead
<1>5. /\ \A b \in Clients : txn'[b].reads = txn[b].reads /\ txn'[b].open = txn[b].open
      /\ \A b \in Clients : txn'[b].files \subseteq txn[b].files \cup {p}
      /\ \A b \in Clients : txn[b].files \subseteq txn'[b].files
  BY <1>2
<1>6. ReferenceInv'
  BY <1>1, <1>5 DEF IInv, ReferenceInv
<1>7. /\ p \notin disk /\ p \notin CatalogPaths(db) /\ p \notin PathsOf(db.scheduled)
      /\ \A b \in Clients : p \notin txn[b].files
  BY <1>1 DEF IInv, PathInv
<1>8. PathInv'
  <2>1. ASSUME NEW b \in Clients
        PROVE  /\ txn'[b].files \subseteq disk'
               /\ txn'[b].files \cap CatalogPaths(db) = {}
               /\ txn'[b].files \cap PathsOf(db.scheduled) = {}
               /\ \A a \in Clients \ {b} : txn'[a].files \cap txn'[b].files = {}
    <3>1. /\ txn[b].files \subseteq disk
          /\ txn[b].files \cap CatalogPaths(db) = {}
          /\ txn[b].files \cap PathsOf(db.scheduled) = {}
      BY DEF IInv, PathInv
    <3>2. ASSUME NEW a \in Clients \ {b}
          PROVE  txn'[a].files \cap txn'[b].files = {}
      <4>1. txn[a].files \cap txn[b].files = {}
        BY DEF IInv, PathInv
      <4> QED
        BY <4>1, <1>2, <1>7
    <3> QED
      BY <3>1, <3>2, <1>1, <1>5, <1>7
  <2>2. ASSUME NEW q \in disk'
        PROVE  \/ q \in CatalogPaths(db) \cup PathsOf(db.scheduled) \cup orphans
               \/ \E b \in Clients : q \in txn'[b].files
    BY <1>1, <1>2, <1>5 DEF IInv, PathInv
  <2>3. /\ CatalogPaths(db) \subseteq disk'
        /\ disk' \subseteq used'
        /\ PathsOf(db.scheduled) \subseteq used'
        /\ PathsOf(db.scheduled) \cap CatalogPaths(db) = {}
    BY <1>1 DEF IInv, PathInv
  <2> QED
    BY <1>1, <2>1, <2>2, <2>3 DEF PathInv
<1>9. RemovalInv'
  BY <1>1, <1>5 DEF IInv, RemovalInv
<1>10. ReaderInv'
  BY <1>1, <1>5 DEF IInv, ReaderInv
<1>11. OpenInv'
  BY <1>2 DEF OpenInv, IInv
<1> QED
  BY <1>3, <1>4, <1>6, <1>8, <1>9, <1>10, <1>11 DEF IInv

\* The end of a transaction whose files are removed, or left as orphans.
LEMMA TransactionEndInv ==
    ASSUME IInv, NEW c \in Clients, Rollback(c) \/ Crash(c)
    PROVE  IInv'
<1> DEFINE S == NoLongerWaits(db.scheduled, c)
<1>1. /\ db' = [db EXCEPT !.scheduled = S]
      /\ task' = task /\ used' = used
      /\ disk' \subseteq disk
      /\ orphans \subseteq orphans'
      /\ orphans' \subseteq orphans \cup txn[c].files
      /\ disk \ txn[c].files \subseteq disk'
      /\ disk' \cap txn[c].files \subseteq orphans'
      /\ txn' = [txn EXCEPT ![c] = NoTransaction]
  BY DEF Rollback, Crash
<1>2. db.scheduled \in SUBSET Scheduled
  BY DEF IInv, TypeInv, Database
<1>3. /\ PathsOf(S) = PathsOf(db.scheduled)
      /\ \A e \in S : \E x \in db.scheduled : e.path = x.path /\ e.waits = x.waits \ {c}
  BY <1>2, SchedulePaths
<1>4. S \in SUBSET Scheduled
  BY <1>2 DEF NoLongerWaits, Scheduled
<1> HIDE DEF S
<1>5. /\ db'.snapshots = db.snapshots /\ db'.table = db.table
      /\ db'.data_file = db.data_file /\ db'.delete_file = db.delete_file
      /\ db'.scheduled = S
      /\ db' \in Database
  BY <1>1, <1>4 DEF IInv, TypeInv, Database
<1>6. /\ txn'[c] = NoTransaction
      /\ \A b \in Clients \ {c} : txn'[b] = txn[b]
      /\ txn' \in [Clients -> Transaction]
  BY <1>1 DEF IInv, TypeInv, Transaction, NoTransaction
<1>7. /\ txn'[c].files = {} /\ txn'[c].reads = {}
      /\ \A b \in Clients : txn'[b].files \subseteq txn[b].files
      /\ \A b \in Clients : txn'[b].reads \subseteq txn[b].reads
  BY <1>6 DEF NoTransaction
<1>8. CatalogPaths(db') = CatalogPaths(db) /\ PathsOf(db'.scheduled) = PathsOf(db.scheduled)
  BY <1>3, <1>5 DEF CatalogPaths
<1>9. TypeInv'
  BY <1>1, <1>5, <1>6 DEF IInv, TypeInv, Transaction
<1>10. SnapshotInv'
  BY <1>1, <1>5 DEF IInv, SnapshotInv, HasNewest, Newest
<1>11. KeyInv' /\ ExpiryInv'
  BY <1>1, <1>5 DEF IInv, KeyInv, ExpiryInv, LiveTable
<1>12. ReferenceInv'
  BY <1>1, <1>5, <1>7 DEF IInv, ReferenceInv
<1>13. PathInv'
  <2>1. /\ CatalogPaths(db') \subseteq disk'
        /\ disk' \subseteq used'
        /\ PathsOf(db'.scheduled) \subseteq used'
        /\ PathsOf(db'.scheduled) \cap CatalogPaths(db') = {}
    BY <1>1, <1>8 DEF IInv, PathInv
  <2>2. ASSUME NEW b \in Clients
        PROVE  /\ txn'[b].files \subseteq disk'
               /\ txn'[b].files \cap CatalogPaths(db') = {}
               /\ txn'[b].files \cap PathsOf(db'.scheduled) = {}
               /\ \A a \in Clients \ {b} : txn'[a].files \cap txn'[b].files = {}
    <3>1. /\ txn[b].files \subseteq disk
          /\ txn[b].files \cap CatalogPaths(db) = {}
          /\ txn[b].files \cap PathsOf(db.scheduled) = {}
          /\ \A a \in Clients \ {b} : txn[a].files \cap txn[b].files = {}
      BY DEF IInv, PathInv
    <3> QED
      BY <3>1, <1>1, <1>6, <1>7, <1>8
  <2>3. ASSUME NEW p \in disk'
        PROVE  \/ p \in CatalogPaths(db') \cup PathsOf(db'.scheduled) \cup orphans'
               \/ \E b \in Clients : p \in txn'[b].files
    BY <1>1, <1>6, <1>8 DEF IInv, PathInv
  <2> QED
    BY <2>1, <2>2, <2>3 DEF PathInv
<1>14. RemovalInv'
  BY <1>1, <1>7, <1>8 DEF IInv, RemovalInv
<1>15. ReaderInv'
  <2>1. ASSUME NEW b \in Clients
        PROVE  /\ txn'[b].reads # {} => txn'[b].open
               /\ txn'[b].reads \subseteq disk'
               /\ txn'[b].reads \subseteq CatalogPaths(db') \cup PathsOf(db'.scheduled)
               /\ \A e \in db'.scheduled : e.path \in txn'[b].reads => b \in e.waits
               /\ \A m \in Maintainers : task[m].paths \cap txn'[b].reads = {}
    <3>1. CASE b = c
      BY <3>1, <1>7
    <3>2. CASE b # c
      <4>1. /\ txn[b].reads # {} => txn[b].open
            /\ txn[b].reads \subseteq disk
            /\ txn[b].reads \subseteq CatalogPaths(db) \cup PathsOf(db.scheduled)
            /\ \A e \in db.scheduled : e.path \in txn[b].reads => b \in e.waits
            /\ \A m \in Maintainers : task[m].paths \cap txn[b].reads = {}
        BY DEF IInv, ReaderInv
      <4>2. txn[b].reads \cap txn[c].files = {}
        BY <4>1 DEF IInv, PathInv
      <4>3. \A e \in db'.scheduled : e.path \in txn[b].reads => b \in e.waits
        BY <4>1, <1>3, <1>5, <3>2
      <4> QED
        BY <4>1, <4>2, <4>3, <3>2, <1>1, <1>6, <1>8
    <3> QED
      BY <3>1, <3>2
  <2> QED
    BY <1>1, <2>1 DEF ReaderInv
<1>16. OpenInv'
  BY <1>6 DEF OpenInv, IInv, NoTransaction
<1>17. Newest(db') = Newest(db)
  BY <1>5 DEF Newest
<1>18. RangeInv'
  BY <1>5, <1>17 DEF IInv, RangeInv
<1>19. DeadInv'
  <2>1. \A x, X : Dead(x, X) => Dead(x, X)'
    BY <1>5, <1>17, DeadStays
  <2> QED
    BY <2>1, <1>1, <1>5 DEF IInv, DeadInv
<1> QED
  BY <1>9, <1>10, <1>11, <1>12, <1>13, <1>14, <1>15, <1>16, <1>18, <1>19 DEF IInv

----------------------------------------------------------------------------
(* Maintenance functions.                                                  *)

\* What a task that is bound now satisfies.
TaskFacts(t) ==
    /\ t \in Task
    /\ \A s \in t.snapshots : s < Newest(db)
    /\ t.paths \subseteq used
    /\ t.paths \cap CatalogPaths(db) = {}
    /\ \A c \in Clients : t.paths \cap txn[c].files = {} /\ t.paths \cap txn[c].reads = {}
    /\ \A e \in t.scheduled : e.waits = {} /\ e.path \in used /\ (e.path \in t.paths \/ e.path \notin disk)
    /\ \A y \in t.table :
        /\ ~LiveTable(y.table)
        /\ \A f \in db.data_file : f.table = y.table => f \in t.data_file
        /\ \A d \in db.delete_file : d.table = y.table => d \in t.delete_file
        /\ \A z \in db.table : z.table = y.table => Dead(z, t.snapshots)
    /\ \A f \in t.data_file :
        (\E y \in t.table : y.table = f.table) \/ Dead(f, t.snapshots)
    /\ \A d \in t.delete_file :
        \/ \E y \in t.table : y.table = d.table
        \/ \E f \in t.data_file : f.path = d.file
        \/ Dead(d, t.snapshots)

\* Giving a maintainer another task.
LEMMA TaskInv ==
    ASSUME IInv, NEW m \in Maintainers, NEW t, TaskFacts(t),
           task' = [task EXCEPT ![m] = t], UNCHANGED <<db, disk, txn, used, orphans>>
    PROVE  IInv'
<1>1. /\ task' \in [Maintainers -> Task]
      /\ task'[m] = t
      /\ \A n \in Maintainers \ {m} : task'[n] = task[n]
  BY DEF IInv, TypeInv, TaskFacts
<1>2. TypeInv'
  BY <1>1 DEF IInv, TypeInv
<1>3. SnapshotInv'
  BY <1>1 DEF IInv, SnapshotInv, TaskFacts
<1>4. KeyInv' /\ ReferenceInv' /\ PathInv' /\ OpenInv'
  BY DEF IInv, KeyInv, ReferenceInv, PathInv, OpenInv
<1>5. RemovalInv'
  BY <1>1 DEF IInv, RemovalInv, TaskFacts
<1>6. ReaderInv'
  BY <1>1 DEF IInv, ReaderInv, TaskFacts
<1>7. ExpiryInv'
  BY <1>1 DEF IInv, ExpiryInv, TaskFacts, LiveTable
<1>8. RangeInv'
  BY DEF IInv, RangeInv
<1>9. DeadInv'
  <2>1. \A x, X : Dead(x, X) => Dead(x, X)'
    BY DeadStays
  <2> QED
    BY <2>1, <1>1 DEF IInv, DeadInv, TaskFacts
<1> QED
  BY <1>2, <1>3, <1>4, <1>5, <1>6, <1>7, <1>8, <1>9 DEF IInv

\* No task is a task that does nothing.
LEMMA NoTaskFacts ==
    TaskFacts(NoTask)
BY DEF TaskFacts, NoTask, Task

\* What an expiry takes is dead, and the newest snapshot is not part of it.
LEMMA ExpireInv ==
    ASSUME IInv, NEW m \in Maintainers, NEW force \in BOOLEAN, NEW S \in SUBSET Expirable(force),
           ExpireSnapshots(m, S)
    PROVE  IInv'
<1> DEFINE kept == db.snapshots \ S
           tables == DeadTableRows(db, kept)
           dead == {x.table : x \in tables}
           files == DeadRows(db.data_file, kept) \cup {f \in db.data_file : f.table \in dead}
           deletes == DeadRows(db.delete_file, kept) \cup
                      {x \in db.delete_file : x.table \in dead \/ x.file \in PathsOf(files)}
           t == DeleteSnapshots(db, S)
<1>1. t = [op |-> "expire", snapshots |-> S, holds |-> S \cap db.protected,
           table |-> tables, data_file |-> files, delete_file |-> deletes,
           scheduled |-> {}, paths |-> {}]
  BY DEF DeleteSnapshots
<1>2. db.snapshots \subseteq Nat /\ db.protected \subseteq Nat
  BY DEF IInv, TypeInv, Database
<1>3. /\ tables \in SUBSET TableRow
      /\ files \in SUBSET DataFile
      /\ deletes \in SUBSET DeleteFile
  <2>1. /\ db.table \in SUBSET TableRow
        /\ db.data_file \in SUBSET DataFile
        /\ db.delete_file \in SUBSET DeleteFile
    BY DEF IInv, TypeInv, Database
  <2> QED
    BY <2>1 DEF DeadTableRows, DeadRows
<1>4. S \subseteq db.snapshots /\ \A s \in S : s < Newest(db)
  <2>1. Newest(db) \in db.snapshots /\ \A r \in db.snapshots : r <= Newest(db)
    BY NewestFact DEF IInv, SnapshotInv
  <2>2. S \subseteq db.snapshots /\ Newest(db) \notin S
    BY DEF Expirable
  <2> QED
    BY <2>1, <2>2, <1>2
<1>5. ASSUME NEW y \in tables
      PROVE  /\ ~LiveTable(y.table)
             /\ \A f \in db.data_file : f.table = y.table => f \in files
             /\ \A d \in db.delete_file : d.table = y.table => d \in deletes
  <2>1. \A x \in db.table : x.table = y.table => x.end # Null
    BY DEF DeadTableRows, DeadRows
  <2>2. y.table \in dead
    OBVIOUS
  <2>3. ~LiveTable(y.table)
    BY <2>1 DEF LiveTable
  <2> HIDE DEF dead, tables
  <2> QED
    BY <2>2, <2>3
<1>6. t \in Task
  <2> HIDE DEF t, tables, files, deletes
  <2> QED
    BY <1>1, <1>2, <1>3, <1>4 DEF Task, Operations
<1>7. ASSUME NEW x \in db.table \cup db.data_file \cup db.delete_file,
             x.end # Null, ~Covers(x, kept)
      PROVE  Dead(x, S)
  <2>1. x.end <= Newest(db)
    BY DEF IInv, RangeInv
  <2>2. \A s \in db.snapshots \ S : ~Covers(x, {s})
    BY <1>7 DEF Covers
  <2> QED
    BY <2>1, <2>2, <1>7 DEF Dead
<1>8. \A y \in tables, z \in db.table : z.table = y.table => Dead(z, S)
  BY <1>7 DEF DeadTableRows, DeadRows
<1>9. \A f \in files : (\E y \in tables : y.table = f.table) \/ Dead(f, S)
  <2> HIDE DEF tables
  <2> QED
    BY <1>7 DEF DeadRows
<1>10. ASSUME NEW d \in deletes
       PROVE  \/ \E y \in tables : y.table = d.table
              \/ \E f \in files : f.path = d.file
              \/ Dead(d, S)
  <2>1. \/ d \in DeadRows(db.delete_file, kept)
        \/ d.table \in dead
        \/ d.file \in PathsOf(files)
    OBVIOUS
  <2>2. d \in DeadRows(db.delete_file, kept) => Dead(d, S)
    BY <1>7 DEF DeadRows
  <2> HIDE DEF tables, files
  <2> QED
    BY <2>1, <2>2 DEF PathsOf
<1>11. TaskFacts(t)
  <2> HIDE DEF t, tables, files, deletes
  <2> QED
    BY <1>1, <1>4, <1>5, <1>6, <1>8, <1>9, <1>10 DEF TaskFacts
<1>12. task' = [task EXCEPT ![m] = t] /\ UNCHANGED <<db, disk, txn, used, orphans>>
  BY DEF ExpireSnapshots, Bind
<1> HIDE DEF t
<1> QED
  BY <1>11, <1>12, TaskInv

\* Holds protect snapshots and change nothing else.
LEMMA HoldInv ==
    ASSUME IInv, NEW m \in Maintainers, NEW S \in SUBSET db.snapshots,
           ProtectSnapshots(m, S) \/ ReleaseSnapshots(m, S)
    PROVE  IInv'
<1>1. PICK op \in {"protect", "release"} : Bind(m, [NoTask EXCEPT !.op = op, !.holds = S])
  BY DEF ProtectSnapshots, ReleaseSnapshots
<1> DEFINE t == [NoTask EXCEPT !.op = op, !.holds = S]
<1>2. S \subseteq Nat
  BY DEF IInv, TypeInv, Database
<1>3. t \in [op : {op}, snapshots : {{}}, holds : {S}, table : {{}}, data_file : {{}},
           delete_file : {{}}, scheduled : {{}}, paths : {{}}]
  BY DEF NoTask
<1>4. task' = [task EXCEPT ![m] = t] /\ UNCHANGED <<db, disk, txn, used, orphans>>
  BY <1>1 DEF Bind
<1> HIDE DEF t
<1>5. TaskFacts(t)
  BY <1>1, <1>2, <1>3 DEF TaskFacts, Task, Operations
<1> QED
  BY <1>4, <1>5, TaskInv

\* Scheduled files that nobody waits for are read by nobody.
LEMMA CleanupInv ==
    ASSUME IInv, NEW m \in Maintainers, CleanupOldFiles(m)
    PROVE  IInv'
<1> DEFINE P == PathsOf(OldFiles)
           t == [NoTask EXCEPT !.op = "cleanup", !.scheduled = OldFiles, !.paths = P]
<1>1. task' = [task EXCEPT ![m] = t] /\ UNCHANGED <<db, disk, txn, used, orphans>>
  BY DEF CleanupOldFiles, Bind
<1>2. t \in [op : {"cleanup"}, snapshots : {{}}, holds : {{}}, table : {{}}, data_file : {{}},
           delete_file : {{}}, scheduled : {OldFiles}, paths : {P}]
  BY DEF NoTask
<1>3. OldFiles \in SUBSET Scheduled /\ OldFiles \subseteq db.scheduled /\ \A e \in OldFiles : e.waits = {}
  BY DEF OldFiles, IInv, TypeInv, Database
<1>4. P \subseteq Paths /\ P \subseteq PathsOf(db.scheduled) /\ \A e \in OldFiles : e.path \in P
  BY <1>3 DEF PathsOf, Scheduled
<1>5. /\ P \subseteq used
      /\ P \cap CatalogPaths(db) = {}
      /\ \A c \in Clients : P \cap txn[c].files = {}
  BY <1>4 DEF IInv, PathInv
<1>6. ASSUME NEW c \in Clients, NEW p \in P
      PROVE  p \notin txn[c].reads
  <2>1. PICK e \in OldFiles : e.path = p
    BY DEF PathsOf
  <2> QED
    BY <2>1, <1>3 DEF IInv, ReaderInv
<1> HIDE DEF t, P
<1>7. t \in Task
  BY <1>2, <1>3, <1>4 DEF Task, Operations
<1>8. TaskFacts(t)
  BY <1>2, <1>3, <1>4, <1>5, <1>6, <1>7 DEF TaskFacts
<1> QED
  BY <1>1, <1>8, TaskInv

\* Every file that is referred to is known to the orphan collection.
LEMMA OrphanInv ==
    ASSUME IInv, NEW m \in Maintainers, DeleteOrphanedFiles(m)
    PROVE  IInv'
<1> DEFINE P == OrphanFiles
           t == [NoTask EXCEPT !.op = "orphans", !.paths = P]
<1>1. task' = [task EXCEPT ![m] = t] /\ UNCHANGED <<db, disk, txn, used, orphans>>
  BY DEF DeleteOrphanedFiles, Bind
<1>2. t \in [op : {"orphans"}, snapshots : {{}}, holds : {{}}, table : {{}}, data_file : {{}},
           delete_file : {{}}, scheduled : {{}}, paths : {P}]
  BY DEF NoTask
<1>3. P \subseteq disk /\ P \cap KnownFiles = {} /\ P \cap OpenFiles = {}
  BY DEF OrphanFiles
<1>4. CatalogPaths(db) \cup PathsOf(db.scheduled) \subseteq KnownFiles
  <2> DEFINE tables == {x.table : x \in db.table}
  <2>1. \A x \in db.data_file \cup db.delete_file : x.table \in tables
    BY DEF IInv, ReferenceInv
  <2>2. /\ db.data_file = {f \in db.data_file : f.table \in tables}
        /\ db.delete_file = {d \in db.delete_file : d.table \in tables}
    BY <2>1
  <2>3. KnownFiles = PathsOf(db.data_file) \cup PathsOf(db.delete_file) \cup PathsOf(db.scheduled)
    BY <2>2 DEF KnownFiles
  <2> QED
    BY <2>3 DEF CatalogPaths
<1>5. \A c \in Clients : txn[c].files \subseteq OpenFiles
  BY DEF OpenFiles
<1> HIDE DEF t, P
<1>6. /\ P \subseteq used
      /\ P \subseteq Paths
      /\ P \cap CatalogPaths(db) = {}
      /\ \A c \in Clients : P \cap txn[c].files = {}
      /\ \A c \in Clients : P \cap txn[c].reads = {}
  BY <1>3, <1>4, <1>5 DEF IInv, TypeInv, PathInv, ReaderInv
<1>7. t \in Task
  BY <1>2, <1>6 DEF Task, Operations
<1>8. TaskFacts(t)
  BY <1>2, <1>6, <1>7 DEF TaskFacts
<1> QED
  BY <1>1, <1>8, TaskInv

\* Files that are removed are needed by nobody.
LEMMA RemoveFilesInv ==
    ASSUME IInv, NEW m \in Maintainers, RemoveFiles(m)
    PROVE  IInv'
<1> DEFINE P == task[m].paths
<1>1. /\ db' = db /\ txn' = txn /\ used' = used /\ orphans' = orphans /\ disk' = disk \ P
  BY DEF RemoveFiles
<1>2. /\ task' \in [Maintainers -> Task]
      /\ task'[m].paths = {}
      /\ \A n \in Maintainers :
            /\ task'[n].snapshots = task[n].snapshots /\ task'[n].table = task[n].table
            /\ task'[n].data_file = task[n].data_file /\ task'[n].delete_file = task[n].delete_file
            /\ task'[n].scheduled = task[n].scheduled
      /\ \A n \in Maintainers \ {m} : task'[n].paths = task[n].paths
  BY DEF RemoveFiles, IInv, TypeInv, Task
<1> HIDE DEF P
<1>3. TypeInv'
  BY <1>1, <1>2 DEF IInv, TypeInv
<1>4. /\ SnapshotInv' /\ KeyInv' /\ ReferenceInv' /\ OpenInv' /\ ExpiryInv'
      /\ RangeInv'
  BY <1>1, <1>2 DEF IInv, SnapshotInv, KeyInv, ReferenceInv, OpenInv, ExpiryInv, LiveTable,
                    RangeInv
<1>5. PathInv'
  <2>1. P \cap CatalogPaths(db) = {} /\ \A c \in Clients : P \cap txn[c].files = {}
    BY DEF P, IInv, RemovalInv
  <2> QED
    BY <2>1, <1>1 DEF IInv, PathInv
<1>6. RemovalInv'
  <2>1. ASSUME NEW n \in Maintainers, NEW e \in task[n].scheduled
        PROVE  e.path \in task'[n].paths \/ e.path \notin disk'
    <3>1. e.path \in task[n].paths \/ e.path \notin disk
      BY DEF IInv, RemovalInv
    <3> QED
      BY <3>1, <1>1, <1>2 DEF P
  <2>2. \A n \in Maintainers : task'[n].paths \subseteq task[n].paths
    BY <1>2
  <2> QED
    BY <2>1, <2>2, <1>1, <1>2 DEF IInv, RemovalInv
<1>7. ReaderInv'
  <2>1. \A c \in Clients : P \cap txn[c].reads = {}
    BY DEF P, IInv, ReaderInv
  <2>2. \A n \in Maintainers : task'[n].paths \subseteq task[n].paths
    BY <1>2
  <2> QED
    BY <2>1, <2>2, <1>1 DEF IInv, ReaderInv
<1>8. DeadInv'
  <2>1. \A x, X : Dead(x, X) => Dead(x, X)'
    BY <1>1, DeadStays
  <2> QED
    BY <2>1, <1>1, <1>2 DEF IInv, DeadInv
<1> QED
  BY <1>3, <1>4, <1>5, <1>6, <1>7, <1>8 DEF IInv

\* A maintenance function commits, however long ago it was bound.
LEMMA CommitTaskInv ==
    ASSUME IInv, NEW m \in Maintainers, CommitTask(m)
    PROVE  IInv'
<1> DEFINE t == task[m]
           G == PathsOf(t.data_file) \cup PathsOf(t.delete_file)
           N == NewSchedule(G, OpenClients)
<1>1. /\ t.paths = {}
      /\ t.data_file \subseteq db.data_file
      /\ t.delete_file \subseteq db.delete_file
      /\ t.scheduled \subseteq db.scheduled
  BY DEF CommitTask, CanCommit
<1>2. /\ db'.snapshots = db.snapshots \ t.snapshots
      /\ db'.table = db.table \ t.table
      /\ db'.data_file = db.data_file \ t.data_file
      /\ db'.delete_file = db.delete_file \ t.delete_file
      /\ db'.scheduled = (db.scheduled \ t.scheduled) \cup N
      /\ disk' = disk /\ txn' = txn /\ used' = used /\ orphans' = orphans
      /\ task' = [task EXCEPT ![m] = NoTask]
  BY DEF CommitTask
<1>3. t \in Task /\ db \in Database /\ OpenClients \in SUBSET Clients
  BY DEF IInv, TypeInv, OpenClients
<1>4. /\ PathsOf(t.data_file) \subseteq PathsOf(db.data_file)
      /\ PathsOf(t.delete_file) \subseteq PathsOf(db.delete_file)
      /\ G \in SUBSET Paths
  <2>1. t.data_file \in SUBSET DataFile /\ t.delete_file \in SUBSET DeleteFile
    BY <1>3 DEF Task
  <2> HIDE DEF t
  <2> QED
    BY <1>1, <2>1 DEF PathsOf, DataFile, DeleteFile
<1>5. PathsOf(N) = G /\ \A e \in N : e.path \in G /\ e.waits = OpenClients
  <2>1. {} \in SUBSET Scheduled
    OBVIOUS
  <2> HIDE DEF G
  <2> QED
    BY <1>3, <1>4, <2>1, SchedulePaths
<1>6. db' \in Database
  <2>1. N \subseteq Scheduled
    <3> HIDE DEF G
    <3> QED
      BY <1>3, <1>4 DEF NewSchedule, Scheduled
  <2>2. /\ db.snapshots \ t.snapshots \in SUBSET Nat
        /\ db.table \ t.table \in SUBSET TableRow
        /\ db.data_file \ t.data_file \in SUBSET DataFile
        /\ db.delete_file \ t.delete_file \in SUBSET DeleteFile
        /\ (db.scheduled \ t.scheduled) \cup N \in SUBSET Scheduled
    BY <1>3, <2>1 DEF Database
  <2> DEFINE H == IF t.op = "protect" THEN db.protected \cup t.holds ELSE db.protected \ t.holds
  <2>3. H \in SUBSET Nat
    BY <1>3 DEF Database, Task
  <2>4. db' = [snapshots |-> db.snapshots \ t.snapshots, protected |-> H,
               table |-> db.table \ t.table, data_file |-> db.data_file \ t.data_file,
               delete_file |-> db.delete_file \ t.delete_file,
               scheduled |-> (db.scheduled \ t.scheduled) \cup N]
    BY DEF CommitTask
  <2> HIDE DEF N, t, H
  <2> QED
    BY <2>2, <2>3, <2>4 DEF Database
<1> HIDE DEF N, t
<1>7. /\ task' \in [Maintainers -> Task]
      /\ task'[m] = NoTask
      /\ \A n \in Maintainers \ {m} : task'[n] = task[n]
  BY <1>2 DEF IInv, TypeInv, Task, NoTask
<1>8. TypeInv'
  BY <1>2, <1>6, <1>7 DEF IInv, TypeInv
<1>9. /\ task'[m].snapshots = {} /\ task'[m].table = {} /\ task'[m].scheduled = {}
      /\ task'[m].paths = {}
  BY <1>7 DEF NoTask
<1>10. /\ PathsOf(db'.data_file) = PathsOf(db.data_file) \ PathsOf(t.data_file)
       /\ PathsOf(db'.delete_file) = PathsOf(db.delete_file) \ PathsOf(t.delete_file)
       /\ UniquePaths(db'.data_file)
       /\ UniquePaths(db'.delete_file)
  <2>1. UniquePaths(db.data_file) /\ UniquePaths(db.delete_file)
    BY DEF IInv, KeyInv
  <2>2. /\ PathsOf(db.data_file \ t.data_file) = PathsOf(db.data_file) \ PathsOf(t.data_file)
        /\ UniquePaths(db.data_file \ t.data_file)
    BY <2>1, <1>1, PathsOfDifference
  <2>3. /\ PathsOf(db.delete_file \ t.delete_file) = PathsOf(db.delete_file) \ PathsOf(t.delete_file)
        /\ UniquePaths(db.delete_file \ t.delete_file)
    BY <2>1, <1>1, PathsOfDifference
  <2> QED
    BY <2>2, <2>3, <1>2
<1>11. /\ CatalogPaths(db') \subseteq CatalogPaths(db)
       /\ CatalogPaths(db) \subseteq CatalogPaths(db') \cup G
       /\ CatalogPaths(db') \cap G = {}
       /\ G \subseteq CatalogPaths(db)
  BY <1>4, <1>10 DEF CatalogPaths, IInv, KeyInv
<1> HIDE DEF G
<1>12. Newest(db') = Newest(db) /\ HasNewest(db')
  <2>1. Newest(db) \in db.snapshots /\ \A r \in db.snapshots : r <= Newest(db)
    BY NewestFact DEF IInv, SnapshotInv
  <2>2. db.snapshots \subseteq Nat
    BY DEF IInv, TypeInv, Database
  <2>3. ~(Newest(db) \in t.snapshots)
    BY <2>1, <2>2 DEF t, IInv, SnapshotInv
  <2> QED
    BY <2>1, <2>2, <2>3, <1>2, NewestUnique
<1>13. KeyInv'
  <2>1. PathsOf(db'.data_file) \cap PathsOf(db'.delete_file) = {}
    BY <1>10 DEF IInv, KeyInv
  <2>2. \A d, e \in db'.delete_file : d.file = e.file /\ d.end = Null /\ e.end = Null => d = e
    BY <1>2 DEF IInv, KeyInv
  <2> QED
    BY <1>10, <2>1, <2>2 DEF KeyInv
<1>14. ReferenceInv'
  <2>1. ASSUME NEW x \in db'.data_file \cup db'.delete_file
        PROVE  \E y \in db'.table : y.table = x.table
    <3>1. PICK y \in db.table : y.table = x.table
      BY <1>2 DEF IInv, ReferenceInv
    <3>2. y \notin t.table
      BY <3>1, <1>2 DEF t, IInv, ExpiryInv
    <3> QED
      BY <3>1, <3>2, <1>2
  <2> QED
    BY <2>1, <1>2 DEF IInv, ReferenceInv
<1>15. \A e \in t.scheduled : e.path \notin disk /\ e.waits = {}
  BY <1>1 DEF t, IInv, RemovalInv
<1>16. /\ PathsOf(db'.scheduled) \subseteq PathsOf(db.scheduled) \cup G
       /\ G \subseteq PathsOf(db'.scheduled)
       /\ PathsOf(db.scheduled) \cap disk \subseteq PathsOf(db'.scheduled)
  <2>1. PathsOf(db'.scheduled) = PathsOf(db.scheduled \ t.scheduled) \cup G
    BY <1>2, <1>5, PathsOfUnion
  <2>2. /\ PathsOf(db.scheduled \ t.scheduled) \subseteq PathsOf(db.scheduled)
        /\ PathsOf(db.scheduled) \cap disk \subseteq PathsOf(db.scheduled \ t.scheduled)
    BY <1>15 DEF PathsOf
  <2> QED
    BY <2>1, <2>2
<1>17. PathInv'
  <2>1. /\ CatalogPaths(db') \subseteq disk
        /\ PathsOf(db'.scheduled) \subseteq used
        /\ PathsOf(db'.scheduled) \cap CatalogPaths(db') = {}
    BY <1>11, <1>16 DEF IInv, PathInv
  <2>2. ASSUME NEW c \in Clients
        PROVE  /\ txn[c].files \cap CatalogPaths(db') = {}
               /\ txn[c].files \cap PathsOf(db'.scheduled) = {}
    BY <1>11, <1>16 DEF IInv, PathInv
  <2>3. ASSUME NEW p \in disk
        PROVE  \/ p \in CatalogPaths(db') \cup PathsOf(db'.scheduled) \cup orphans
               \/ \E c \in Clients : p \in txn[c].files
    BY <1>11, <1>16 DEF IInv, PathInv
  <2> QED
    BY <2>1, <2>2, <2>3, <1>2 DEF IInv, PathInv
<1>18. RemovalInv'
  BY <1>2, <1>7, <1>9, <1>11 DEF IInv, RemovalInv
<1>19. ReaderInv'
  <2>1. ASSUME NEW c \in Clients
        PROVE  /\ txn[c].reads \subseteq CatalogPaths(db') \cup PathsOf(db'.scheduled)
               /\ \A e \in db'.scheduled : e.path \in txn[c].reads => c \in e.waits
    <3>1. /\ txn[c].reads \subseteq CatalogPaths(db) \cup PathsOf(db.scheduled)
          /\ txn[c].reads \subseteq disk
          /\ txn[c].reads # {} => txn[c].open
          /\ \A e \in db.scheduled : e.path \in txn[c].reads => c \in e.waits
      BY DEF IInv, ReaderInv
    <3>2. \A e \in N : e.path \in txn[c].reads => c \in e.waits
      BY <3>1, <1>5 DEF OpenClients
    <3> QED
      BY <3>1, <3>2, <1>2, <1>11, <1>16
  <2> QED
    BY <2>1, <1>2, <1>7, <1>9 DEF IInv, ReaderInv
<1>20. OpenInv'
  BY <1>2 DEF IInv, OpenInv
<1>21. ExpiryInv'
  <2>1. ASSUME NEW n \in Maintainers, NEW y \in task'[n].table
        PROVE  /\ ~LiveTable(y.table)'
               /\ \A f \in db'.data_file : f.table = y.table => f \in task'[n].data_file
               /\ \A d \in db'.delete_file : d.table = y.table => d \in task'[n].delete_file
    <3>1. n # m /\ task'[n] = task[n]
      BY <1>7, <1>9
    <3>2. ~LiveTable(y.table)
      BY <3>1 DEF IInv, ExpiryInv
    <3> QED
      BY <3>1, <3>2, <1>2 DEF IInv, ExpiryInv, LiveTable
  <2> QED
    BY <2>1 DEF ExpiryInv
<1>22. SnapshotInv'
  BY <1>7, <1>9, <1>12 DEF IInv, SnapshotInv
<1>23. RangeInv'
  BY <1>2, <1>12 DEF IInv, RangeInv
<1>24. DeadInv'
  <2>1. task'[m].data_file = {} /\ task'[m].delete_file = {}
    BY <1>7 DEF NoTask
  <2>2. \A x, X : Dead(x, X) => Dead(x, X)'
    BY <1>2, <1>12, DeadStays
  <2> QED
    BY <2>1, <2>2, <1>2, <1>7, <1>9 DEF IInv, DeadInv
<1> QED
  BY <1>8, <1>13, <1>14, <1>17, <1>18, <1>19, <1>20, <1>21, <1>22, <1>23, <1>24 DEF IInv

----------------------------------------------------------------------------
(* The theorems.                                                           *)

\* The new lake satisfies the invariant.
LEMMA InitInv ==
    Init => IInv
<1> SUFFICES ASSUME Init PROVE IInv
  OBVIOUS
<1> DEFINE T == [table : Tables, begin : {1}, end : {Null}]
<1>1. /\ db.snapshots = {1} /\ db.data_file = {} /\ db.delete_file = {} /\ db.scheduled = {}
      /\ disk = {} /\ used = {} /\ orphans = {}
      /\ \A c \in Clients : txn[c].files = {} /\ txn[c].reads = {} /\ txn[c].open = FALSE
      /\ \A m \in Maintainers : /\ task[m].snapshots = {} /\ task[m].table = {}
                                /\ task[m].data_file = {} /\ task[m].delete_file = {}
                                /\ task[m].scheduled = {} /\ task[m].paths = {}
  BY DEF Init, NoTransaction, NoTask
<1>2. PathsOf({}) = {} /\ CatalogPaths(db) = {}
  BY <1>1 DEF PathsOf, CatalogPaths
<1>3. TypeInv
  <2>1. T \in SUBSET TableRow
    BY DEF TableRow, Null
  <2>2. db = [snapshots |-> {1}, protected |-> {}, table |-> T, data_file |-> {},
              delete_file |-> {}, scheduled |-> {}]
    BY DEF Init
  <2> HIDE DEF T
  <2>3. db \in Database
    BY <2>1, <2>2 DEF Database
  <2>4. txn \in [Clients -> Transaction] /\ task \in [Maintainers -> Task]
    BY DEF Init, NoTransaction, Transaction, NoTask, Task
  <2> QED
    BY <2>3, <2>4, <1>1 DEF TypeInv
<1>4. SnapshotInv
  BY <1>1 DEF SnapshotInv, HasNewest
<1>5. KeyInv /\ ReferenceInv /\ OpenInv /\ ExpiryInv
  BY <1>1, <1>2 DEF KeyInv, UniquePaths, ReferenceInv, OpenInv, ExpiryInv
<1>6. PathInv /\ RemovalInv /\ ReaderInv
  BY <1>1, <1>2 DEF PathInv, RemovalInv, ReaderInv
<1>7. RangeInv
  <2>1. \A x \in db.table : x.end = 0
    BY DEF Init, Null
  <2>2. Newest(db) \in {1}
    BY <1>1, <1>4, NewestFact DEF SnapshotInv
  <2> QED
    BY <1>1, <2>1, <2>2 DEF RangeInv
<1>8. DeadInv
  BY <1>1 DEF DeadInv
<1> QED
  BY <1>3, <1>4, <1>5, <1>6, <1>7, <1>8 DEF IInv

\* One case for each action.
LEMMA NextInv ==
    ASSUME IInv, Next
    PROVE  IInv'
<1>1. ASSUME NEW c \in Clients, TransactionStep(c)
      PROVE  IInv'
  <2>1. CASE Begin(c)
    BY <2>1, BeginInv
  <2>2. CASE \E p \in Paths : WriteFile(c, p)
    BY <2>2, WriteFileInv
  <2>3. CASE Rollback(c) \/ Crash(c)
    BY <2>3, TransactionEndInv
  <2>4. ASSUME \E T, F, D, G : CommitFacts(c, T, F, D, G) /\ Commit(c, NextSnapshot, T, F, D, G)
        PROVE  IInv'
    BY <2>4, CommitInv
  <2>5. CASE \E t \in Tables : CommitInsert(c, t)
    BY <2>4, <2>5, InsertFacts
  <2>6. CASE \E t \in Tables : CommitRename(c, t)
    BY <2>4, <2>6, RenameFacts
  <2>7. CASE \E t \in Tables : CommitDrop(c, t)
    BY <2>4, <2>7, DropFacts
  <2>8. CASE \E f \in LiveFiles : CommitDelete(c, f)
    BY <2>4, <2>8, DeleteFacts
  <2>9. CASE \E f \in LiveFiles : CommitEndFile(c, f)
    BY <2>4, <2>9, EndFileFacts
  <2>10. CASE \E S \in SUBSET LiveFiles : CommitMerge(c, S)
    BY <2>4, <2>10, MergeFacts
  <2> QED
    BY <1>1, <2>1, <2>2, <2>3, <2>5, <2>6, <2>7, <2>8, <2>9, <2>10 DEF TransactionStep
<1>2. ASSUME NEW m \in Maintainers, TaskStep(m)
      PROVE  IInv'
  <2>1. CASE \E force \in BOOLEAN : \E S \in SUBSET Expirable(force) : ExpireSnapshots(m, S)
    BY <2>1, ExpireInv
  <2>2. CASE \E S \in SUBSET (db.snapshots \cap Holdable) :
                ProtectSnapshots(m, S) \/ ReleaseSnapshots(m, S)
    BY <2>2, HoldInv
  <2>3. CASE CleanupOldFiles(m)
    BY <2>3, CleanupInv
  <2>4. CASE DeleteOrphanedFiles(m)
    BY <2>4, OrphanInv
  <2>5. CASE RemoveFiles(m)
    BY <2>5, RemoveFilesInv
  <2>6. CASE CommitTask(m)
    BY <2>6, CommitTaskInv
  <2>7. CASE AbandonTask(m)
    BY <2>7, NoTaskFacts, TaskInv DEF AbandonTask
  <2> QED
    BY <1>2, <2>1, <2>2, <2>3, <2>4, <2>5, <2>6, <2>7 DEF TaskStep
<1> QED
  BY <1>1, <1>2 DEF Next

\* Nothing changes.
LEMMA StutterInv ==
    ASSUME IInv, UNCHANGED vars
    PROVE  IInv'
<1>1. TypeInv' /\ SnapshotInv' /\ KeyInv' /\ ReferenceInv' /\ PathInv' /\ OpenInv' /\ RangeInv'
  BY DEF vars, IInv, TypeInv, SnapshotInv, KeyInv, ReferenceInv, PathInv, OpenInv, RangeInv
<1>2. RemovalInv' /\ ReaderInv' /\ ExpiryInv'
  BY DEF vars, IInv, RemovalInv, ReaderInv, ExpiryInv, LiveTable
<1>3. DeadInv'
  <2>1. \A x, X : Dead(x, X) => Dead(x, X)'
    BY DeadStays DEF vars
  <2> QED
    BY <2>1 DEF vars, IInv, DeadInv
<1> QED
  BY <1>1, <1>2, <1>3 DEF IInv

\* The inductive invariant holds throughout: every step of a transaction, commit
\* and maintenance function keeps it, whatever the others have begun.
THEOREM Invariance ==
    Spec => []IInv
<1>1. IInv /\ [Next]_vars => IInv'
  BY NextInv, StutterInv
<1> QED
  BY <1>1, InitInv, PTL DEF Spec

\* The variables have their types, and a path keeps being the key of one row,
\* whatever is written, merged and deleted.
THEOREM TypeCorrect ==
    Spec => []TypeOK
<1>1. IInv => TypeOK
  BY DEF IInv, TypeInv, KeyInv, UniquePaths, TypeOK
<1> QED
  BY <1>1, Invariance, PTL

\* No cleanup removes a file that a row of the metadata refers to.
THEOREM CatalogSafe ==
    Spec => []CatalogFilesExist
<1>1. IInv => CatalogFilesExist
  BY DEF IInv, PathInv, CatalogFilesExist
<1> QED
  BY <1>1, Invariance, PTL

\* No cleanup removes a file that an open transaction may still read.
THEOREM ReadersSafe ==
    Spec => []ReadersFindFiles
<1>1. IInv => ReadersFindFiles
  BY DEF IInv, ReaderInv, ReadersFindFiles
<1> QED
  BY <1>1, Invariance, PTL

\* No commit, expiry or cleanup loses track of a file.
THEOREM NoFileForgotten ==
    Spec => []EveryFileHasAnOwner
<1>1. ASSUME IInv, NEW p \in disk
      PROVE  p \in CatalogPaths(db) \cup PathsOf(db.scheduled) \cup OpenFiles \cup orphans
  <2>1. \A c \in Clients : txn[c].files \subseteq OpenFiles
    BY DEF OpenFiles
  <2> QED
    BY <1>1, <2>1 DEF IInv, PathInv
<1>2. IInv => EveryFileHasAnOwner
  BY <1>1 DEF EveryFileHasAnOwner
<1> QED
  BY <1>2, Invariance, PTL

\* What a step does to the rows of the metadata: a commit, the commit of a
\* maintenance function, or nothing.
LEMMA Steps ==
    ASSUME IInv, [Next]_vars
    PROVE  \/ NextSnapshot \in db'.snapshots
           \/ \E m \in Maintainers : CommitTask(m)
           \/ /\ db'.snapshots = db.snapshots
              /\ db'.table = db.table
              /\ db'.data_file = db.data_file
              /\ db'.delete_file = db.delete_file
<1> DEFINE Same == /\ db'.snapshots = db.snapshots
                   /\ db'.table = db.table
                   /\ db'.data_file = db.data_file
                   /\ db'.delete_file = db.delete_file
<1>1. db' = db => Same
  OBVIOUS
<1>2. ASSUME NEW S, db' = [db EXCEPT !.scheduled = S]
      PROVE  Same
  BY <1>2 DEF IInv, TypeInv, Database
<1> HIDE DEF Same
<1>3. ASSUME NEW c \in Clients, TransactionStep(c)
      PROVE  NextSnapshot \in db'.snapshots \/ Same
  <2>1. CASE Begin(c) \/ \E p \in Paths : WriteFile(c, p)
    BY <2>1, <1>1 DEF Begin, WriteFile
  <2>2. CASE Rollback(c) \/ Crash(c)
    BY <2>2, <1>2 DEF Rollback, Crash
  <2>3. ASSUME NEW T, NEW F, NEW D, NEW G, Commit(c, NextSnapshot, T, F, D, G)
        PROVE  NextSnapshot \in db'.snapshots
    BY <2>3 DEF Commit
  <2>4. CASE \E t \in Tables : CommitInsert(c, t) \/ CommitRename(c, t) \/ CommitDrop(c, t)
    BY <2>3, <2>4, InsertFacts, RenameFacts, DropFacts
  <2>5. CASE \E f \in LiveFiles : CommitDelete(c, f) \/ CommitEndFile(c, f)
    BY <2>3, <2>5, DeleteFacts, EndFileFacts
  <2>6. CASE \E S \in SUBSET LiveFiles : CommitMerge(c, S)
    BY <2>3, <2>6, MergeFacts, SMTT(60)
  <2> QED
    BY <1>3, <2>1, <2>2, <2>4, <2>5, <2>6 DEF TransactionStep
<1>4. ASSUME NEW m \in Maintainers, TaskStep(m)
      PROVE  CommitTask(m) \/ Same
  BY <1>4, <1>1, Zenon DEF TaskStep, ExpireSnapshots, ProtectSnapshots, ReleaseSnapshots,
                    CleanupOldFiles, DeleteOrphanedFiles, Bind, RemoveFiles, AbandonTask
<1>5. CASE UNCHANGED vars
  BY <1>5, <1>1 DEF vars, Same
<1> QED
  BY <1>3, <1>4, <1>5 DEF Next, Same

\* An expiry never takes the newest snapshot, even one chosen before others
\* committed, so no commit uses the id of an expired snapshot again.
THEOREM IdsNotReused ==
    Spec => SnapshotIdsNotReused
<1>1. ASSUME IInv, [Next]_vars
      PROVE  \E s \in db'.snapshots : \A r \in db.snapshots : r <= s
  <2>1. /\ Newest(db) \in db.snapshots
        /\ \A r \in db.snapshots : r <= Newest(db)
        /\ db.snapshots \subseteq Nat
    BY <1>1, NewestFact DEF IInv, SnapshotInv, TypeInv, Database
  <2>2. CASE NextSnapshot \in db'.snapshots
    <3>1. \A r \in db.snapshots : r <= NextSnapshot
      BY <2>1 DEF NextSnapshot
    <3> QED
      BY <2>2, <3>1
  <2>3. ASSUME NEW m \in Maintainers, CommitTask(m)
        PROVE  Newest(db) \in db'.snapshots
    <3>1. Newest(db) \notin task[m].snapshots
      BY <1>1, <2>1 DEF IInv, SnapshotInv
    <3>2. db'.snapshots = db.snapshots \ task[m].snapshots
      BY <2>3 DEF CommitTask
    <3> QED
      BY <3>1, <3>2, <2>1
  <2> QED
    BY <1>1, <2>1, <2>2, <2>3, Steps
<1>2. IInv /\ [Next]_vars => [\E s \in db'.snapshots : \A r \in db.snapshots : r <= s]_vars
  BY <1>1
<1> QED
  BY <1>2, Invariance, PTL DEF Spec, SnapshotIdsNotReused

\* The commit of a maintenance function leaves the snapshots that remain as they
\* were: what it deletes none of them can see.
LEMMA CommitTaskKeeps ==
    ASSUME IInv, NEW m \in Maintainers, CommitTask(m), NEW s \in db'.snapshots
    PROVE  VisibleAt(db', s) = VisibleAt(db, s)
<1> DEFINE t == task[m]
           R(d) == {y \in d.table : Covers(y, {s})}
           T(d) == {x.table : x \in R(d)}
           F(d) == {f \in d.data_file : f.table \in T(d) /\ Covers(f, {s})}
           D(d) == {x \in d.delete_file : x.file \in PathsOf(F(d)) /\ Covers(x, {s})}
<1>1. /\ db'.snapshots = db.snapshots \ t.snapshots
      /\ db'.table = db.table \ t.table
      /\ db'.data_file = db.data_file \ t.data_file
      /\ db'.delete_file = db.delete_file \ t.delete_file
      /\ t.table \subseteq db.table
      /\ t.data_file \subseteq db.data_file
      /\ t.delete_file \subseteq db.delete_file
  BY DEF CommitTask, CanCommit
<1>2. \A x : Dead(x, t.snapshots) => ~Covers(x, {s})
  BY <1>1 DEF Dead
<1>3. \A y \in t.table, z \in db.table : z.table = y.table => ~Covers(z, {s})
  BY <1>2 DEF IInv, DeadInv
<1> HIDE DEF t
<1>4. R(db') = R(db)
  BY <1>1, <1>3
<1>5. T(db') = T(db)
  BY <1>4
<1>6. ASSUME NEW y \in t.table
      PROVE  y.table \notin T(db)
  BY <1>3
<1>7. \A f \in t.data_file : ~(f.table \in T(db) /\ Covers(f, {s}))
  <2>1. \A f \in t.data_file : (\E y \in t.table : y.table = f.table) \/ Dead(f, t.snapshots)
    BY DEF t, IInv, DeadInv
  <2> HIDE DEF T
  <2> QED
    BY <2>1, <1>2, <1>6
<1>8. F(db') = F(db)
  <2> HIDE DEF T
  <2> QED
    BY <1>1, <1>5, <1>7
<1>9. ASSUME NEW d \in t.delete_file
      PROVE  ~(d.file \in PathsOf(F(db)) /\ Covers(d, {s}))
  <2>1. SUFFICES ASSUME d.file \in PathsOf(F(db)), Covers(d, {s}) PROVE FALSE
    OBVIOUS
  <2>2. PICK g \in F(db) : g.path = d.file
    BY <2>1 DEF PathsOf
  <2>3. g \in db.data_file /\ g.table \in T(db) /\ g \notin t.data_file
    <3> HIDE DEF T
    <3> QED
      BY <1>7
  <2>4. d \in db.delete_file /\ d.table = g.table
    BY <1>1, <2>2, <2>3 DEF IInv, ReferenceInv
  <2>5. \/ \E y \in t.table : y.table = d.table
        \/ \E f \in t.data_file : f.path = d.file
        \/ Dead(d, t.snapshots)
    BY DEF t, IInv, DeadInv
  <2>6. ~\E f \in t.data_file : f.path = d.file
    BY <2>2, <2>3, <1>1 DEF IInv, KeyInv, UniquePaths
  <2> HIDE DEF T
  <2> QED
    BY <2>1, <2>3, <2>4, <2>5, <2>6, <1>2, <1>6
<1>10. D(db') = D(db)
  <2> HIDE DEF F
  <2> QED
    BY <1>1, <1>8, <1>9
<1>11. \A d : VisibleAt(d, s) = [tables |-> T(d), files |-> F(d), deletes |-> D(d)]
  BY DEF VisibleAt
<1> HIDE DEF T, F, D
<1> QED
  BY <1>5, <1>8, <1>10, <1>11

\* An expiry shows the same tables, files and deletes at every remaining snapshot,
\* whatever was committed since it chose what to delete.
THEOREM ExpirySafe ==
    Spec => ExpiryKeepsOtherSnapshots
<1>1. ASSUME IInv, [Next]_vars, db'.snapshots \subseteq db.snapshots, NEW s \in db'.snapshots
      PROVE  VisibleAt(db', s) = VisibleAt(db, s)
  <2>1. NextSnapshot \notin db'.snapshots
    <3>1. NextSnapshot \notin db.snapshots
      BY <1>1, NextSnapshotFact DEF IInv, TypeInv, Database
    <3> QED
      BY <3>1, <1>1
  <2>2. CASE \E m \in Maintainers : CommitTask(m)
    BY <1>1, <2>2, CommitTaskKeeps
  <2>3. CASE /\ db'.table = db.table
             /\ db'.data_file = db.data_file
             /\ db'.delete_file = db.delete_file
    BY <2>3 DEF VisibleAt
  <2> QED
    BY <1>1, <2>1, <2>2, <2>3, Steps
<1>2. IInv /\ [Next]_vars =>
        [db'.snapshots \subseteq db.snapshots =>
            \A s \in db'.snapshots : VisibleAt(db', s) = VisibleAt(db, s)]_vars
  BY <1>1
<1> QED
  BY <1>2, Invariance, PTL DEF Spec, ExpiryKeepsOtherSnapshots

----------------------------------------------------------------------------
(* Nothing dead is kept.                                                   *)

\* Only one maintainer expires snapshots.  Two expiries at a time can each keep a
\* row for the sake of the snapshot that the other takes; it goes with the next.
OneExpirer == \A m, n \in Maintainers : "expire" \in Duties[m] \cap Duties[n] => m = n

\* Some row of the table of x is live, or seen by one of the snapshots.
TableSeen(x, T, S) == \E y \in T : y.table = x.table /\ (y.end = Null \/ Covers(y, S))

\* NothingDeadIsKept, of the rows and snapshots given.
Kept(T, F, D, S) ==
    /\ \A x \in F \cup D : x.end = Null \/ Covers(x, S)
    /\ \A x \in F \cup D : TableSeen(x, T, S)

\* No row begins after the newest snapshot.
BeginRange == \A x \in db.table \cup db.data_file \cup db.delete_file : x.begin <= Newest(db)

\* A task is one of its maintainer's duties, and only an expiry takes rows of files
\* and tables.
DutyInv ==
    \A m \in Maintainers :
        /\ task[m].op # "none" => task[m].op \in Duties[m]
        /\ task[m].op # "expire" => /\ task[m].snapshots = {}
                                    /\ task[m].table = {}
                                    /\ task[m].data_file = {}
                                    /\ task[m].delete_file = {}

\* An expiry would leave nothing dead if it committed now, whatever has been
\* committed since it was bound.
PendingInv ==
    \A m \in Maintainers :
        Kept(db.table \ task[m].table, db.data_file \ task[m].data_file,
             db.delete_file \ task[m].delete_file, db.snapshots \ task[m].snapshots)

KInv == /\ BeginRange
        /\ Kept(db.table, db.data_file, db.delete_file, db.snapshots)
        /\ DutyInv
        /\ PendingInv

\* The invariant says it of the database.
LEMMA KeptIsEnough ==
    ASSUME KInv
    PROVE  NothingDeadIsKept
BY DEF KInv, Kept, TableSeen, NothingDeadIsKept, DeadRows

\* The rows of files that a commit leaves are old, live, or ended by it, and every
\* row of a table stays or ends with it.
RowsMove ==
    /\ \A x \in db'.data_file :
        x \in db.data_file \/ x.end = Null \/ (x.begin <= Newest(db) /\ x.end = NextSnapshot)
    /\ \A x \in db'.delete_file :
        x \in db.delete_file \/ x.end = Null \/ (x.begin <= Newest(db) /\ x.end = NextSnapshot)
    /\ \A x \in db'.table \cup db'.data_file \cup db'.delete_file : x.begin <= NextSnapshot
    /\ \A y \in db.table :
        \/ y \in db'.table
        \/ /\ y.end = Null
           /\ \E z \in db'.table : z.table = y.table /\ z.begin = y.begin /\ z.end = NextSnapshot

\* Ending rows keeps where they begin.
LEMMA EndedRows ==
    ASSUME NEW rows, NEW which, NEW k,
           \A y \in rows : {"table", "begin", "end"} \subseteq DOMAIN y
    PROVE  /\ \A x \in Ended(rows, which, k) :
                x \in rows \/ \E y \in rows : x.begin = y.begin /\ x.end = k
           /\ \A y \in rows :
                \/ y \in Ended(rows, which, k)
                \/ /\ y.end = Null
                   /\ \E z \in Ended(rows, which, k) :
                        z.table = y.table /\ z.begin = y.begin /\ z.end = k
<1> DEFINE E(y) == IF y \in which /\ y.end = Null THEN [y EXCEPT !.end = k] ELSE y
<1>1. ASSUME NEW y \in rows
      PROVE  \/ E(y) = y
             \/ y.end = Null /\ E(y).begin = y.begin /\ E(y).end = k /\ E(y).table = y.table
  OBVIOUS
<1>2. Ended(rows, which, k) = {E(y) : y \in rows}
  BY DEF Ended
<1> HIDE DEF E
<1> QED
  BY <1>1, <1>2

\* Rows of any kind have a table, a begin and an end.
LEMMA RowDomains ==
    ASSUME IInv
    PROVE  /\ \A y \in db.table : {"table", "begin", "end"} \subseteq DOMAIN y
           /\ \A y \in db.data_file : {"table", "begin", "end"} \subseteq DOMAIN y
           /\ \A y \in db.delete_file : {"table", "begin", "end"} \subseteq DOMAIN y
<1>1. /\ db.table \in SUBSET TableRow
      /\ db.data_file \in SUBSET DataFile
      /\ db.delete_file \in SUBSET DeleteFile
  BY DEF IInv, TypeInv, Database
<1> QED
  BY <1>1 DEF TableRow, DataFile, DeleteFile

\* The rows that there are begin before the next snapshot.
LEMMA BeginTypes ==
    ASSUME IInv, BeginRange
    PROVE  /\ \A x \in db.table \cup db.data_file \cup db.delete_file :
                x.begin \in Nat /\ x.begin <= Newest(db) /\ x.begin <= NextSnapshot
           /\ Newest(db) \in Nat
           /\ NextSnapshot \in Nat
           /\ Newest(db) < NextSnapshot
           /\ NextSnapshot # Null
<1>1. /\ db.table \in SUBSET TableRow
      /\ db.data_file \in SUBSET DataFile
      /\ db.delete_file \in SUBSET DeleteFile
  BY DEF IInv, TypeInv, Database
<1>2. Newest(db) \in Nat /\ NextSnapshot # Null
  BY NextSnapshotFact DEF IInv
<1>3. \A x \in db.table \cup db.data_file \cup db.delete_file : x.begin \in Nat
  BY <1>1 DEF TableRow, DataFile, DeleteFile
<1> QED
  BY <1>2, <1>3 DEF BeginRange, NextSnapshot

\* An INSERT adds live rows.
LEMMA InsertRows ==
    ASSUME IInv, BeginRange, NEW c \in Clients, NEW t \in Tables, CommitInsert(c, t)
    PROVE  RowsMove
<1>1. /\ db'.table = db.table /\ db'.delete_file = db.delete_file
      /\ db'.data_file = db.data_file \cup NewDataFiles(txn[c].files, t, NextSnapshot)
  BY DEF CommitInsert, Commit
<1>2. \A x \in NewDataFiles(txn[c].files, t, NextSnapshot) : x.begin = NextSnapshot /\ x.end = Null
  BY DEF NewDataFiles
<1> QED
  BY <1>1, <1>2, BeginTypes DEF RowsMove

\* A rename ends the row of the table, and adds one.
LEMMA RenameRows ==
    ASSUME IInv, BeginRange, NEW c \in Clients, NEW t \in Tables, CommitRename(c, t)
    PROVE  RowsMove
<1> DEFINE W == {x \in db.table : x.table = t}
           E == Ended(db.table, W, NextSnapshot)
           N == [table : {t}, begin : {NextSnapshot}, end : {Null}]
<1>1. /\ db'.table = E \cup N /\ db'.delete_file = db.delete_file
      /\ db'.data_file = db.data_file
  BY DEF CommitRename, Commit
<1>2. \A x \in N : x.begin = NextSnapshot
  OBVIOUS
<1> HIDE DEF W, N
<1>3. /\ \A x \in E : x \in db.table \/ \E y \in db.table : x.begin = y.begin
      /\ \A y \in db.table :
            \/ y \in E
            \/ /\ y.end = Null
               /\ \E z \in E : z.table = y.table /\ z.begin = y.begin /\ z.end = NextSnapshot
  BY RowDomains, EndedRows
<1> HIDE DEF E
<1> QED
  BY <1>1, <1>2, <1>3, BeginTypes DEF RowsMove

\* A DROP ends rows, and adds live ones.
LEMMA DropRows ==
    ASSUME IInv, BeginRange, NEW c \in Clients, NEW t \in Tables, CommitDrop(c, t)
    PROVE  RowsMove
<1> DEFINE WT == {x \in db.table : x.table = t}
           WF == {f \in db.data_file : f.table = t}
           WD == {d \in db.delete_file : d.table = t}
           T == Ended(db.table, WT, NextSnapshot)
           E == Ended(db.data_file, WF, NextSnapshot)
           N == NewDataFiles(txn[c].files, t, NextSnapshot)
           D == Ended(db.delete_file, WD, NextSnapshot)
<1>1. db'.table = T /\ db'.data_file = E \cup N /\ db'.delete_file = D
  BY DEF CommitDrop, Commit
<1>2. \A x \in N : x.begin = NextSnapshot /\ x.end = Null
  BY DEF NewDataFiles
<1> HIDE DEF WT, WF, WD, N
<1>3. /\ \A x \in T : x \in db.table \/ \E y \in db.table : x.begin = y.begin
      /\ \A y \in db.table :
            \/ y \in T
            \/ /\ y.end = Null
               /\ \E z \in T : z.table = y.table /\ z.begin = y.begin /\ z.end = NextSnapshot
  BY RowDomains, EndedRows
<1>4. \A x \in E : x \in db.data_file \/ \E y \in db.data_file : x.begin = y.begin /\ x.end = NextSnapshot
  BY RowDomains, EndedRows
<1>5. \A x \in D : x \in db.delete_file \/ \E y \in db.delete_file : x.begin = y.begin /\ x.end = NextSnapshot
  BY RowDomains, EndedRows
<1> HIDE DEF T, E, D
<1> QED
  BY <1>1, <1>2, <1>3, <1>4, <1>5, BeginTypes DEF RowsMove

\* The end of a file ends its row and those of its deletes.
LEMMA EndFileRows ==
    ASSUME IInv, BeginRange, NEW c \in Clients, NEW f \in LiveFiles, CommitEndFile(c, f)
    PROVE  RowsMove
<1> DEFINE WF == {f}
           WD == {d \in db.delete_file : d.file = f.path}
           E == Ended(db.data_file, WF, NextSnapshot)
           N == NewDataFiles(txn[c].files, f.table, NextSnapshot)
           D == Ended(db.delete_file, WD, NextSnapshot)
<1>1. db'.table = db.table /\ db'.data_file = E \cup N /\ db'.delete_file = D
  BY DEF CommitEndFile, Commit
<1>2. \A x \in N : x.begin = NextSnapshot /\ x.end = Null
  BY DEF NewDataFiles
<1> HIDE DEF WF, WD, N
<1>4. \A x \in E : x \in db.data_file \/ \E y \in db.data_file : x.begin = y.begin /\ x.end = NextSnapshot
  BY RowDomains, EndedRows
<1>5. \A x \in D : x \in db.delete_file \/ \E y \in db.delete_file : x.begin = y.begin /\ x.end = NextSnapshot
  BY RowDomains, EndedRows
<1> HIDE DEF E, D
<1> QED
  BY <1>1, <1>2, <1>4, <1>5, BeginTypes DEF RowsMove

\* A delete file takes the place, and the begin, of the one before.
LEMMA DeleteRows ==
    ASSUME IInv, BeginRange, NEW c \in Clients, NEW f \in LiveFiles, CommitDelete(c, f)
    PROVE  RowsMove
<1> DEFINE old == {d \in db.delete_file : d.file = f.path /\ d.end = Null}
           begins == IF old = {} THEN {NextSnapshot} ELSE {d.begin : d \in old}
           N == [path : txn[c].files, file : {f.path}, table : {f.table},
                 begin : begins, end : {Null}]
<1>1. /\ db'.table = db.table /\ db'.data_file = db.data_file
      /\ db'.delete_file = (db.delete_file \ old) \cup N
  BY DEF CommitDelete, Commit
<1>2. \A b \in begins : b <= NextSnapshot
  BY BeginTypes
<1>3. \A x \in N : x.begin \in begins /\ x.end = Null
  OBVIOUS
<1> HIDE DEF N, begins, old
<1> QED
  BY <1>1, <1>2, <1>3, BeginTypes DEF RowsMove

\* A merged file begins with the first of its sources.
LEMMA MergeRows ==
    ASSUME IInv, BeginRange, NEW c \in Clients, NEW S \in SUBSET LiveFiles, CommitMerge(c, S)
    PROVE  RowsMove
<1>1. PICK first \in S :
        Commit(c, NextSnapshot, db.table,
               (db.data_file \ S) \cup NewDataFiles(txn[c].files, first.table, first.begin),
               db.delete_file, PathsOf(S))
  BY DEF CommitMerge
<1>2. /\ db'.table = db.table /\ db'.delete_file = db.delete_file
      /\ db'.data_file = (db.data_file \ S) \cup NewDataFiles(txn[c].files, first.table, first.begin)
  BY <1>1 DEF Commit
<1>3. \A x \in NewDataFiles(txn[c].files, first.table, first.begin) : x.begin = first.begin /\ x.end = Null
  BY DEF NewDataFiles
<1>4. first.begin <= NextSnapshot
  BY BeginTypes DEF LiveFiles
<1> QED
  BY <1>2, <1>3, <1>4, BeginTypes DEF RowsMove

\* A commit leaves nothing dead, and neither would the expiry that is under way.
LEMMA CommitKept ==
    ASSUME IInv, KInv, NEW c \in Clients, NEW T, NEW F, NEW D, NEW G,
           CommitFacts(c, T, F, D, G), Commit(c, NextSnapshot, T, F, D, G), RowsMove,
           NEW TT, NEW TF, NEW TD, NEW TS,
           Kept(db.table \ TT, db.data_file \ TF, db.delete_file \ TD, db.snapshots \ TS),
           Newest(db) \notin TS,
           \A y \in TT : ~LiveTable(y.table)
    PROVE  Kept(db'.table \ TT, db'.data_file \ TF, db'.delete_file \ TD, db'.snapshots \ TS)
<1> DEFINE k == NextSnapshot
           N == Newest(db)
           S == db'.snapshots \ TS
<1>1. /\ N \in Nat /\ k \in Nat /\ N < k /\ k # Null
      /\ \A x \in db.table : x.begin <= N
  BY BeginTypes DEF KInv
<1>2. db.snapshots \ TS \subseteq S /\ N \in S
  BY NewestFact DEF Commit, IInv, SnapshotInv
<1>3. db'.table = T /\ db'.data_file = F /\ db'.delete_file = D
  BY DEF Commit
<1> HIDE DEF k, N, S
<1>4. \A x : Covers(x, db.snapshots \ TS) => Covers(x, S)
  BY <1>2 DEF Covers
<1>5. \A x : x.begin <= N /\ x.end = k => Covers(x, S)
  BY <1>1, <1>2 DEF Covers
<1>6. ASSUME NEW x \in (db'.data_file \ TF) \cup (db'.delete_file \ TD)
      PROVE  x.end = Null \/ Covers(x, S)
  <2>1. \/ x \in (db.data_file \ TF) \cup (db.delete_file \ TD)
        \/ x.end = Null
        \/ x.begin <= N /\ x.end = k
    BY DEF RowsMove, N, k
  <2> QED
    BY <2>1, <1>4, <1>5 DEF Kept
<1>7. ASSUME NEW y \in db.table \ TT, y.end = Null \/ Covers(y, db.snapshots \ TS)
      PROVE  \E z \in db'.table \ TT : z.table = y.table /\ (z.end = Null \/ Covers(z, S))
  <2>1. CASE y \in db'.table
    BY <2>1, <1>4, <1>7
  <2>2. ASSUME y.end = Null, NEW z \in db'.table, z.table = y.table, z.begin = y.begin, z.end = k
        PROVE  z \in db'.table \ TT /\ Covers(z, S)
    <3>1. LiveTable(z.table)
      BY <2>2 DEF LiveTable
    <3>2. z.begin <= N
      BY <2>2, <1>1
    <3> QED
      BY <3>1, <3>2, <2>2, <1>5
  <2> QED
    BY <2>1, <2>2 DEF RowsMove, k
<1>8. ASSUME NEW x \in (db'.data_file \ TF) \cup (db'.delete_file \ TD)
      PROVE  TableSeen(x, db'.table \ TT, S)
  <2>1. \E y \in db.table \ TT : y.table = x.table /\ (y.end = Null \/ Covers(y, db.snapshots \ TS))
    <3>1. CASE x \in (db.data_file \ TF) \cup (db.delete_file \ TD)
      BY <3>1 DEF Kept, TableSeen
    <3>2. CASE x \notin (db.data_file \ TF) \cup (db.delete_file \ TD)
      <4>1. LiveTable(x.table)
        BY <3>2, <1>3, <1>8 DEF CommitFacts
      <4> QED
        BY <4>1 DEF LiveTable
    <3> QED
      BY <3>1, <3>2
  <2> QED
    BY <2>1, <1>7 DEF TableSeen
<1> QED
  BY <1>6, <1>8 DEF Kept, S

\* A commit keeps the invariant.
LEMMA CommitK ==
    ASSUME IInv, KInv, NEW c \in Clients, NEW T, NEW F, NEW D, NEW G,
           CommitFacts(c, T, F, D, G), Commit(c, NextSnapshot, T, F, D, G), RowsMove
    PROVE  KInv'
<1>1. task' = task
  BY DEF Commit
<1>2. Newest(db') = NextSnapshot
  BY CommitSnapshots DEF IInv
<1>3. BeginRange'
  BY <1>2 DEF BeginRange, RowsMove
<1>4. DutyInv'
  BY <1>1 DEF KInv, DutyInv
<1>5. Kept(db'.table, db'.data_file, db'.delete_file, db'.snapshots)
  <2>1. /\ db.table \ {} = db.table /\ db.data_file \ {} = db.data_file
        /\ db.delete_file \ {} = db.delete_file /\ db.snapshots \ {} = db.snapshots
        /\ db'.table \ {} = db'.table /\ db'.data_file \ {} = db'.data_file
        /\ db'.delete_file \ {} = db'.delete_file /\ db'.snapshots \ {} = db'.snapshots
    OBVIOUS
  <2>2. Kept(db.table \ {}, db.data_file \ {}, db.delete_file \ {}, db.snapshots \ {})
    BY <2>1 DEF KInv
  <2>3. Kept(db'.table \ {}, db'.data_file \ {}, db'.delete_file \ {}, db'.snapshots \ {})
    BY <2>2, CommitKept
  <2> QED
    BY <2>1, <2>3
<1>6. ASSUME NEW m \in Maintainers
      PROVE  Kept(db'.table \ task[m].table, db'.data_file \ task[m].data_file,
                  db'.delete_file \ task[m].delete_file, db'.snapshots \ task[m].snapshots)
  <2>1. Kept(db.table \ task[m].table, db.data_file \ task[m].data_file,
             db.delete_file \ task[m].delete_file, db.snapshots \ task[m].snapshots)
    BY DEF KInv, PendingInv
  <2>2. Newest(db) \notin task[m].snapshots
    <3>1. Newest(db) \in Nat
      BY NextSnapshotFact DEF IInv
    <3> QED
      BY <3>1 DEF IInv, SnapshotInv
  <2>3. \A y \in task[m].table : ~LiveTable(y.table)
    BY DEF IInv, ExpiryInv
  <2> QED
    BY <2>1, <2>2, <2>3, CommitKept
<1> QED
  BY <1>1, <1>3, <1>4, <1>5, <1>6 DEF KInv, PendingInv

\* Steps that leave the rows and the snapshots alone.
LEMMA SameK ==
    ASSUME KInv,
           db'.table = db.table, db'.data_file = db.data_file,
           db'.delete_file = db.delete_file, db'.snapshots = db.snapshots, DutyInv',
           \A m \in Maintainers :
               \/ /\ task'[m].table = task[m].table /\ task'[m].data_file = task[m].data_file
                  /\ task'[m].delete_file = task[m].delete_file
                  /\ task'[m].snapshots = task[m].snapshots
               \/ /\ task'[m].table = {} /\ task'[m].data_file = {}
                  /\ task'[m].delete_file = {} /\ task'[m].snapshots = {}
               \/ Kept(db.table \ task'[m].table, db.data_file \ task'[m].data_file,
                       db.delete_file \ task'[m].delete_file, db.snapshots \ task'[m].snapshots)
    PROVE  KInv'
<1>1. Newest(db') = Newest(db)
  BY DEF Newest
<1>2. BeginRange'
  BY <1>1 DEF KInv, BeginRange
<1>3. Kept(db.table, db.data_file, db.delete_file, db.snapshots)
  BY DEF KInv
<1>4. Kept(db'.table, db'.data_file, db'.delete_file, db'.snapshots)
  BY <1>3
<1>5. ASSUME NEW m \in Maintainers
      PROVE  Kept(db'.table \ task'[m].table, db'.data_file \ task'[m].data_file,
                  db'.delete_file \ task'[m].delete_file, db'.snapshots \ task'[m].snapshots)
  <2>1. Kept(db.table \ task[m].table, db.data_file \ task[m].data_file,
             db.delete_file \ task[m].delete_file, db.snapshots \ task[m].snapshots)
    BY DEF KInv, PendingInv
  <2>2. CASE /\ task'[m].table = {} /\ task'[m].data_file = {}
             /\ task'[m].delete_file = {} /\ task'[m].snapshots = {}
    <3>1. /\ db.table \ {} = db.table /\ db.data_file \ {} = db.data_file
          /\ db.delete_file \ {} = db.delete_file /\ db.snapshots \ {} = db.snapshots
      OBVIOUS
    <3> QED
      BY <3>1, <2>2, <1>3
  <2> QED
    BY <2>1, <2>2
<1> QED
  BY <1>2, <1>4, <1>5 DEF KInv, PendingInv

\* An expiry takes whatever the snapshots that it leaves cannot see.
LEMMA ExpireK ==
    ASSUME IInv, KInv, NEW m \in Maintainers, NEW force \in BOOLEAN, NEW S \in SUBSET Expirable(force),
           ExpireSnapshots(m, S)
    PROVE  KInv'
<1> DEFINE kept == db.snapshots \ S
           tables == DeadTableRows(db, kept)
           dead == {x.table : x \in tables}
           files == DeadRows(db.data_file, kept) \cup {f \in db.data_file : f.table \in dead}
           deletes == DeadRows(db.delete_file, kept) \cup
                      {x \in db.delete_file : x.table \in dead \/ x.file \in PathsOf(files)}
           t == DeleteSnapshots(db, S)
<1>1. t = [op |-> "expire", snapshots |-> S, holds |-> S \cap db.protected,
           table |-> tables, data_file |-> files, delete_file |-> deletes,
           scheduled |-> {}, paths |-> {}]
  BY DEF DeleteSnapshots
<1>2. /\ task' = [task EXCEPT ![m] = t] /\ UNCHANGED <<db, disk, txn, used, orphans>>
      /\ t.op \in Duties[m]
  BY DEF ExpireSnapshots, Bind
<1>3. ASSUME NEW x \in (db.data_file \ files) \cup (db.delete_file \ deletes)
      PROVE  /\ x.end = Null \/ Covers(x, kept)
             /\ x.table \notin dead
  <2> HIDE DEF dead, kept
  <2> QED
    BY DEF DeadRows
<1>4. ASSUME NEW x \in db.data_file \cup db.delete_file, x.table \notin dead
      PROVE  TableSeen(x, db.table \ tables, kept)
  <2>1. PICK y \in db.table : y.table = x.table
    BY DEF IInv, ReferenceInv
  <2>2. y \notin tables
    BY <1>4, <2>1
  <2>3. PICK z \in db.table : z.table = y.table /\ z \notin DeadRows(db.table, kept)
    BY <2>2 DEF DeadTableRows
  <2>4. z \notin tables
    BY <1>4, <2>1, <2>3
  <2> HIDE DEF tables, kept
  <2> QED
    BY <2>1, <2>3, <2>4 DEF TableSeen, DeadRows
<1>5. Kept(db.table \ tables, db.data_file \ files, db.delete_file \ deletes, kept)
  <2> HIDE DEF tables, files, deletes, kept, dead
  <2> QED
    BY <1>3, <1>4 DEF Kept
<1>6. /\ t.op = "expire" /\ t.snapshots = S /\ t.table = tables
      /\ t.data_file = files /\ t.delete_file = deletes
  <2> HIDE DEF t, tables, files, deletes
  <2> QED
    BY <1>1
<1> HIDE DEF t, tables, files, deletes
<1>7. task'[m] = t /\ \A n \in Maintainers \ {m} : task'[n] = task[n]
  BY <1>2 DEF IInv, TypeInv
<1>8. DutyInv'
  BY <1>2, <1>6, <1>7 DEF KInv, DutyInv
<1> QED
  BY <1>2, <1>5, <1>6, <1>7, <1>8, SameK

\* Any other task takes no rows of files or tables, and neither does none.
LEMMA OtherTaskK ==
    ASSUME IInv, KInv, NEW m \in Maintainers, NEW t, t.op \in Duties[m] \cup {"none"}, t.op # "expire",
           t.snapshots = {}, t.table = {}, t.data_file = {}, t.delete_file = {},
           task' = [task EXCEPT ![m] = t], db' = db
    PROVE  KInv'
<1>1. task'[m] = t /\ \A n \in Maintainers \ {m} : task'[n] = task[n]
  BY DEF IInv, TypeInv
<1>2. DutyInv'
  BY <1>1 DEF KInv, DutyInv
<1> QED
  BY <1>1, <1>2, SameK

\* The expiry commits: the database is as it would leave it.  No other expiry is
\* under way.
LEMMA CommitTaskK ==
    ASSUME OneExpirer, IInv, KInv, NEW m \in Maintainers, CommitTask(m)
    PROVE  KInv'
<1>1. /\ db'.snapshots = db.snapshots \ task[m].snapshots
      /\ db'.table = db.table \ task[m].table
      /\ db'.data_file = db.data_file \ task[m].data_file
      /\ db'.delete_file = db.delete_file \ task[m].delete_file
      /\ task' = [task EXCEPT ![m] = NoTask]
      /\ task[m].op # "none"
  BY DEF CommitTask
<1>2. task'[m] = NoTask /\ \A n \in Maintainers \ {m} : task'[n] = task[n]
  BY <1>1 DEF IInv, TypeInv
<1>3. /\ NoTask.op = "none" /\ NoTask.snapshots = {} /\ NoTask.table = {}
      /\ NoTask.data_file = {} /\ NoTask.delete_file = {}
  BY DEF NoTask
<1>4. DutyInv'
  BY <1>2, <1>3 DEF KInv, DutyInv
<1>5. Kept(db'.table, db'.data_file, db'.delete_file, db'.snapshots)
  BY <1>1 DEF KInv, PendingInv
<1>6. Newest(db') = Newest(db)
  <2>1. Newest(db) \in db.snapshots /\ \A r \in db.snapshots : r <= Newest(db)
    BY NewestFact DEF IInv, SnapshotInv
  <2>2. db.snapshots \subseteq Nat
    BY DEF IInv, TypeInv, Database
  <2>3. ~(Newest(db) \in task[m].snapshots)
    BY <2>1, <2>2 DEF IInv, SnapshotInv
  <2> QED
    BY <2>1, <2>2, <2>3, <1>1, NewestUnique
<1>7. BeginRange'
  BY <1>1, <1>6 DEF KInv, BeginRange
<1>8. CASE task[m].op = "expire"
  <2>1. ASSUME NEW n \in Maintainers
        PROVE  /\ task'[n].snapshots = {} /\ task'[n].table = {}
               /\ task'[n].data_file = {} /\ task'[n].delete_file = {}
    <3>1. CASE n = m
      BY <3>1, <1>2, <1>3
    <3>2. CASE n # m
      <4>1. task[n].op # "expire"
        BY <3>2, <1>8 DEF KInv, DutyInv, OneExpirer
      <4> QED
        BY <4>1, <3>2, <1>2 DEF KInv, DutyInv
    <3> QED
      BY <3>1, <3>2
  <2>2. /\ db'.table \ {} = db'.table /\ db'.data_file \ {} = db'.data_file
        /\ db'.delete_file \ {} = db'.delete_file /\ db'.snapshots \ {} = db'.snapshots
    OBVIOUS
  <2>3. PendingInv'
    BY <2>1, <2>2, <1>5 DEF PendingInv
  <2> QED
    BY <2>3, <1>4, <1>5, <1>7 DEF KInv
<1>9. CASE task[m].op # "expire"
  <2>1. /\ task[m].snapshots = {} /\ task[m].table = {}
        /\ task[m].data_file = {} /\ task[m].delete_file = {}
    BY <1>9 DEF KInv, DutyInv
  <2>2. /\ db'.table = db.table /\ db'.data_file = db.data_file
        /\ db'.delete_file = db.delete_file /\ db'.snapshots = db.snapshots
    BY <1>1, <2>1
  <2> QED
    BY <2>2, <1>2, <1>3, <1>4, SameK
<1> QED
  BY <1>8, <1>9

\* The new lake keeps nothing dead.
LEMMA InitK ==
    Init => KInv
<1> SUFFICES ASSUME Init PROVE KInv
  OBVIOUS
<1>1. /\ db.snapshots = {1} /\ db.data_file = {} /\ db.delete_file = {}
      /\ \A x \in db.table : x.begin = 1
      /\ \A m \in Maintainers : /\ task[m].op = "none" /\ task[m].snapshots = {} /\ task[m].table = {}
                                /\ task[m].data_file = {} /\ task[m].delete_file = {}
  BY DEF Init, NoTask
<1>2. Newest(db) = 1
  BY <1>1, NewestUnique
<1>3. BeginRange
  BY <1>1, <1>2 DEF BeginRange
<1>4. Kept(db.table, db.data_file, db.delete_file, db.snapshots)
  BY <1>1 DEF Kept
<1>5. DutyInv
  BY <1>1 DEF DutyInv
<1>6. PendingInv
  BY <1>1 DEF PendingInv, Kept
<1> QED
  BY <1>3, <1>4, <1>5, <1>6 DEF KInv

\* One case for each action.
LEMMA NextK ==
    ASSUME OneExpirer, IInv, KInv, Next
    PROVE  KInv'
<1>0. BeginRange
  BY DEF KInv
<1>1. ASSUME NEW c \in Clients, TransactionStep(c)
      PROVE  KInv'
  <2>1. CASE Begin(c) \/ \E p \in Paths : WriteFile(c, p)
    <3>1. db' = db /\ task' = task
      BY <2>1 DEF Begin, WriteFile
    <3>2. DutyInv'
      BY <3>1 DEF KInv, DutyInv
    <3> QED
      BY <3>1, <3>2, SameK
  <2>2. CASE Rollback(c) \/ Crash(c)
    <3>1. db' = [db EXCEPT !.scheduled = NoLongerWaits(@, c)] /\ task' = task
      BY <2>2 DEF Rollback, Crash
    <3>2. /\ db'.table = db.table /\ db'.data_file = db.data_file
          /\ db'.delete_file = db.delete_file /\ db'.snapshots = db.snapshots
      BY <3>1 DEF IInv, TypeInv, Database
    <3>3. DutyInv'
      BY <3>1 DEF KInv, DutyInv
    <3> QED
      BY <3>1, <3>2, <3>3, SameK
  <2>3. ASSUME \E T, F, D, G : CommitFacts(c, T, F, D, G) /\ Commit(c, NextSnapshot, T, F, D, G),
               RowsMove
        PROVE  KInv'
    BY <2>3, CommitK
  <2>4. ASSUME NEW t \in Tables, CommitInsert(c, t) PROVE KInv'
    BY <1>0, <2>3, <2>4, InsertFacts, InsertRows
  <2>5. ASSUME NEW t \in Tables, CommitRename(c, t) PROVE KInv'
    BY <1>0, <2>3, <2>5, RenameFacts, RenameRows
  <2>6. ASSUME NEW t \in Tables, CommitDrop(c, t) PROVE KInv'
    BY <1>0, <2>3, <2>6, DropFacts, DropRows
  <2>7. ASSUME NEW f \in LiveFiles, CommitDelete(c, f) PROVE KInv'
    BY <1>0, <2>3, <2>7, DeleteFacts, DeleteRows
  <2>8. ASSUME NEW f \in LiveFiles, CommitEndFile(c, f) PROVE KInv'
    BY <1>0, <2>3, <2>8, EndFileFacts, EndFileRows
  <2>9. ASSUME NEW S \in SUBSET LiveFiles, CommitMerge(c, S) PROVE KInv'
    BY <1>0, <2>3, <2>9, MergeFacts, MergeRows
  <2> QED
    BY <1>1, <2>1, <2>2, <2>4, <2>5, <2>6, <2>7, <2>8, <2>9 DEF TransactionStep
<1>2. ASSUME NEW m \in Maintainers, TaskStep(m)
      PROVE  KInv'
  <2>1. CASE \E force \in BOOLEAN : \E S \in SUBSET Expirable(force) : ExpireSnapshots(m, S)
    BY <2>1, ExpireK
  <2>2. ASSUME NEW S, ProtectSnapshots(m, S) \/ ReleaseSnapshots(m, S)
        PROVE  KInv'
    <3>1. PICK op \in {"protect", "release"} : Bind(m, [NoTask EXCEPT !.op = op, !.holds = S])
      BY <2>2 DEF ProtectSnapshots, ReleaseSnapshots
    <3> DEFINE t == [NoTask EXCEPT !.op = op, !.holds = S]
    <3>2. /\ t.op = op /\ t.snapshots = {} /\ t.table = {} /\ t.data_file = {} /\ t.delete_file = {}
          /\ t.op \in Duties[m] /\ task' = [task EXCEPT ![m] = t] /\ db' = db
      BY <3>1 DEF NoTask, Bind
    <3>3. t.op # "expire"
      BY <3>1, <3>2
    <3> HIDE DEF t
    <3> QED
      BY <3>2, <3>3, OtherTaskK
  <2>3. CASE CleanupOldFiles(m)
    <3> DEFINE t == [NoTask EXCEPT !.op = "cleanup", !.scheduled = OldFiles, !.paths = PathsOf(OldFiles)]
    <3>1. /\ t.op # "expire" /\ t.snapshots = {} /\ t.table = {} /\ t.data_file = {} /\ t.delete_file = {}
      BY DEF NoTask
    <3>2. t.op \in Duties[m] /\ task' = [task EXCEPT ![m] = t] /\ db' = db
      BY <2>3 DEF CleanupOldFiles, Bind
    <3> HIDE DEF t
    <3> QED
      BY <3>1, <3>2, OtherTaskK
  <2>4. CASE DeleteOrphanedFiles(m)
    <3> DEFINE t == [NoTask EXCEPT !.op = "orphans", !.paths = OrphanFiles]
    <3>1. /\ t.op # "expire" /\ t.snapshots = {} /\ t.table = {} /\ t.data_file = {} /\ t.delete_file = {}
      BY DEF NoTask
    <3>2. t.op \in Duties[m] /\ task' = [task EXCEPT ![m] = t] /\ db' = db
      BY <2>4 DEF DeleteOrphanedFiles, Bind
    <3> HIDE DEF t
    <3> QED
      BY <3>1, <3>2, OtherTaskK
  <2>5. CASE RemoveFiles(m)
    <3>1. /\ db' = db
          /\ \A n \in Maintainers :
                /\ task'[n].snapshots = task[n].snapshots /\ task'[n].table = task[n].table
                /\ task'[n].data_file = task[n].data_file /\ task'[n].delete_file = task[n].delete_file
                /\ task'[n].op = task[n].op
      BY <2>5 DEF RemoveFiles, IInv, TypeInv, Task
    <3>2. DutyInv'
      BY <3>1 DEF KInv, DutyInv
    <3> QED
      BY <3>1, <3>2, SameK
  <2>6. CASE CommitTask(m)
    BY <2>6, CommitTaskK
  <2>7. CASE AbandonTask(m)
    <3>1. /\ NoTask.op = "none" /\ NoTask.snapshots = {} /\ NoTask.table = {}
          /\ NoTask.data_file = {} /\ NoTask.delete_file = {}
      BY DEF NoTask
    <3> QED
      BY <2>7, <3>1, OtherTaskK DEF AbandonTask
  <2> QED
    BY <1>2, <2>1, <2>2, <2>3, <2>4, <2>5, <2>6, <2>7 DEF TaskStep
<1> QED
  BY <1>1, <1>2 DEF Next

\* An expiry leaves no row that no snapshot can see, whatever is committed while it
\* runs, if there is one expiry at a time.
THEOREM NothingDeadKept ==
    ASSUME OneExpirer
    PROVE  Spec => []NothingDeadIsKept
<1>1. IInv /\ KInv /\ [Next]_vars => KInv'
  <2>1. ASSUME IInv, KInv, UNCHANGED vars
        PROVE  KInv'
    <3>1. db' = db /\ task' = task
      BY <2>1 DEF vars
    <3>2. DutyInv'
      BY <3>1, <2>1 DEF KInv, DutyInv
    <3> QED
      BY <3>1, <3>2, <2>1, SameK
  <2> QED
    BY <2>1, NextK
<1>2. KInv => NothingDeadIsKept
  BY KeptIsEnough
<1> QED
  BY <1>1, <1>2, InitK, Invariance, PTL DEF Spec
============================================================================
