-------------------------- MODULE LakeHistoryProofs --------------------------
(***************************************************************************)
(* Time travel in LakeTransactions: what a snapshot contains never changes.*)
(***************************************************************************)
EXTENDS LakeProofs, WellFoundedInduction

\* No statement extends a committed delete file, inlines deletions or compacts a file
\* twice in a transaction.  With the first the begin_snapshot of a delete file may be
\* one that has been read already, inlined deletions and merges do not conflict, and
\* the rows of a file that is compacted twice are there twice.
PlainWorkload == Workload \cap {"delete_more", "inline_delete", "compact_again"} = {}

----------------------------------------------------------------------------
(* The metadata.                                                           *)

\* A row of a data file or a delete file, with the snapshot it came with.
RowFields == {"row", "snap"}

\* A row of ducklake_data_file after snapshot i: its lifetime, and, for a merged file,
\* the snapshots of its rows.
FileOK(f, i) ==
    /\ f.begin \in 1 .. i
    /\ f.end = Null \/ f.end \in 1 .. i
    /\ f.partial_max = Null \/ f.partial_max \in f.begin .. i
    /\ \A q \in f.rows : DOMAIN q = RowFields /\ q.row \in Paths \X Positions
    /\ f.partial_max # Null => \A q \in f.rows : q.snap \in f.begin .. f.partial_max

\* A row of ducklake_delete_file after snapshot i, when no delete file is extended.
DeleteOK(d, i) ==
    /\ d.begin \in 1 .. i
    /\ d.end = Null \/ d.end \in 1 .. i
    /\ \A p \in d.positions : DOMAIN p = RowFields /\ p.snap = Null

\* The metadata after snapshot i.
MetadataOK(m, i) ==
    /\ \A f \in m.data_file : FileOK(f, i)
    /\ \A d \in m.delete_file : DeleteOK(d, i)
    /\ \A d \in m.delete_file, f \in m.data_file : f.id = d.file => f.table = d.table
    /\ m.inlined_delete = {}
    /\ m.table_end = [t \in Tables |-> m.table_end[t]]
    /\ \A t \in Tables : m.table_end[t] = Null \/ m.table_end[t] \in 1 .. i

\* The changes that end the row of a table, a data file or a delete file.
EndKinds == {"dropped_table", "deleted_from_table", "rewrite_delete"}

\* Between the snapshots i and j a row only ends, for a recorded change of its table.
SameUntilEnd(x, y, i, j, snapshots) ==
    /\ DOMAIN y = DOMAIN x /\ \A a \in DOMAIN x \ {"end"} : y[a] = x[a]
    /\ \/ y.end = x.end
       \/ /\ x.end = Null /\ y.end \in (i + 1) .. j
          /\ \E kind \in EndKinds : Between(kind, x.table, i, j, snapshots)

\* What became, after snapshot j, of the rows after snapshot i.  A data file may be
\* gone (a merge takes its sources away), a delete file and a table stay.
Follows(m, n, i, j, snapshots) ==
    /\ \A f \in m.data_file, g \in n.data_file : f.id = g.id => SameUntilEnd(f, g, i, j, snapshots)
    /\ \A d \in m.delete_file, e \in n.delete_file : d.id = e.id => SameUntilEnd(d, e, i, j, snapshots)
    /\ \A d \in m.delete_file : \E e \in n.delete_file : e.id = d.id
    /\ \A t \in Tables : \/ n.table_end[t] = m.table_end[t]
                         \/ /\ m.table_end[t] = Null /\ n.table_end[t] \in (i + 1) .. j
                            /\ Between("dropped_table", t, i, j, snapshots)

----------------------------------------------------------------------------
(* The local changes.                                                      *)

\* The rows that positions of a delete file delete.
RowsOf(positions) == {p.row : p \in positions}

\* A merge holds its sources' rows, each with the snapshot it came with, and covers
\* their snapshots.
MergeOf(x) ==
    /\ x.deletes = {} /\ x.path # {} /\ x.sources # {}
    /\ x.rows = UNION {RowSnapshots(f) : f \in x.sources}
    /\ \A f \in x.sources : x.begin <= f.begin /\ LastSnapshot(f) <= x.partial_max
    /\ \E f \in x.sources : x.begin = f.begin
    /\ \E f \in x.sources : x.partial_max = LastSnapshot(f)

\* The delete files of f that no later one replaced.
LiveDeletes(m, f) == {d \in m.delete_file : d.file = f.id /\ d.end = Null}

\* The rows of f that are not deleted.
Undeleted(m, f) == {q \in f.rows : \A d \in LiveDeletes(m, f) : q.row \notin RowsOf(d.positions)}

\* A rewrite holds its sources' rows that are not deleted.
RewriteOf(m, x) ==
    /\ x.deletes = UNION {LiveDeletes(m, f) : f \in x.sources}
    /\ x.rows = {[q EXCEPT !.snap = Null] : q \in UNION {Undeleted(m, f) : f \in x.sources}}
    /\ x.partial_max = Null
    /\ x.path = {} <=> x.rows = {}

\* The compactions of a transaction that sees the metadata m.
CompactionsOK(m, l) ==
    /\ \A x, y \in l.compactions : x # y => x.sources \cap y.sources = {}
    /\ \A x \in l.compactions :
          /\ \A f \in x.sources : f.end = Null
          /\ x.type = "merge" => MergeOf(x)
          /\ x.type = "rewrite" => RewriteOf(m, x)

\* The new files of a transaction, with what it deleted of them again.
NewFilesOK(l) ==
    \A n \in l.new_data_files :
        /\ n.rows = {n.path} \X Positions
        /\ n.deleted \subseteq n.rows
        /\ n.delete_path = {} <=> n.deleted = {}

\* The deletions of a transaction that sees the metadata m at snapshot s.
DeletesOK(m, s, l) ==
    /\ l.inlined_file_deletes = {}
    /\ \A x \in l.new_delete_files :
          /\ x.overwritten = {}
          /\ \A p \in x.positions : DOMAIN p = RowFields
          /\ \E f \in m.data_file : /\ f.id = x.file /\ f.table = x.table /\ Visible(f, s)
                                    /\ RowsOf(x.positions) \subseteq RowsAt(f, s)
    /\ \A y \in l.dropped_files :
          /\ DOMAIN y = {"file", "table"}
          /\ \A d \in m.delete_file : d.file = y.file => ~Visible(d, s)
          /\ \E f \in m.data_file : f.id = y.file /\ f.table = y.table /\ Visible(f, s)

\* The local changes of a transaction that sees the metadata m at snapshot s.
ChangesOK(m, s, l) ==
    /\ CompactionsOK(m, l) /\ NewFilesOK(l) /\ DeletesOK(m, s, l)
    /\ \A t \in l.dropped_tables : TableExists(m, t, s)

\* The inductive invariant behind time travel.
TimeInv ==
    /\ \A i \in 1 .. Len(log) : MetadataOK(versions[i], i)
    /\ \A i, j \in 1 .. Len(log) : i <= j => Follows(versions[i], versions[j], i, j, log)
    /\ \A c \in Clients : ChangesOK(View(c), txn[c].snap, local[c])

----------------------------------------------------------------------------
(* Extremes.                                                               *)

\* The numbers up to k.
Below(k) == 1 .. k

\* A nonempty set of numbers has a smallest one: the strict subsets of 1 .. k are
\* well founded.
LEMMA SmallestOf ==
    ASSUME NEW S, S \subseteq Nat, S # {}
    PROVE  \E k \in S : \A j \in S : k <= j
<1>1. PICK m \in S : m \in Nat
  OBVIOUS
<1> DEFINE T == {Below(k) : k \in {j \in S : j <= m}}
<1>2. Below(m) \in T
  BY <1>1
<1>3. T \subseteq SUBSET Below(m)
  BY <1>1 DEF Below
<1>4. IsFiniteSet(Below(m))
  BY <1>1, FS_Interval DEF Below
<1>5. T # {} /\ T \subseteq FiniteSubsetsOf(Below(m))
  BY <1>2, <1>3, <1>4, FS_FiniteSubsetsOfFinite
<1>6. PICK x \in T : \A y \in T : ~ (<<y, x>> \in StrictSubsetOrdering(Below(m)))
  <2> HIDE DEF T
  <2> QED BY <1>4, <1>5, FS_StrictSubsetOrderingWellFounded, WFMin
<1>7. PICK k \in S : k <= m /\ x = Below(k)
  OBVIOUS
<1>8. ASSUME NEW j \in S, j < k PROVE FALSE
  <2>1. j \in Nat /\ k \in Nat /\ j <= m
    BY <1>1, <1>7, <1>8
  <2>2. Below(j) \in T
    BY <2>1
  <2>3. Below(j) \subseteq Below(k) /\ Below(k) \subseteq Below(m)
    BY <1>1, <1>7, <1>8, <2>1 DEF Below
  <2>4. k \in Below(k) /\ k \notin Below(j)
    BY <1>8, <2>1 DEF Below
  <2>5. <<Below(j), x>> \in StrictSubsetOrdering(Below(m))
    BY <1>7, <2>3, <2>4 DEF StrictSubsetOrdering
  <2> QED BY <1>6, <2>2, <2>5
<1>9. \A j \in S : k <= j
  BY <1>7, <1>8
<1> QED BY <1>9

\* A finite nonempty set of numbers has a largest one.
LEMMA LargestOf ==
    ASSUME NEW b \in Nat, NEW S, S \subseteq 0 .. b, S # {}
    PROVE  \E k \in S : \A j \in S : j <= k
<1> DEFINE T == {b - k : k \in S}
<1>0. \A k \in S : k \in Nat /\ k <= b /\ b - k \in Nat
  OBVIOUS
<1>1. T \subseteq Nat /\ T # {}
  BY <1>0
<1>2. PICK i \in T : \A j \in T : i <= j
  <2> HIDE DEF T
  <2> QED BY <1>1, SmallestOf
<1>3. PICK k \in S : i = b - k
  BY <1>2
<1>4. ASSUME NEW j \in S PROVE j <= k
  <2>1. b - j \in T
    OBVIOUS
  <2>2. b - k <= b - j
    BY <1>2, <1>3, <2>1
  <2>3. j \in Int /\ k \in Int
    OBVIOUS
  <2> QED BY <2>2, <2>3
<1> QED BY <1>4

----------------------------------------------------------------------------
(* The statements.                                                         *)

\* What the statements keep of the local changes of c.
Detailed(c) ==
    \E l : local' = [local EXCEPT ![c] = l] /\ ChangesOK(View(c), txn[c].snap, l)

\* The state in which c runs a statement.
Ready(c) ==
    /\ PlainWorkload /\ ClientInv(c)
    /\ txn[c].snap \in Nat
    /\ MetadataOK(View(c), txn[c].snap)
    /\ UniqueIds(View(c).data_file)
    /\ ChangesOK(View(c), txn[c].snap, local[c])

\* Local changes have their fields.
LEMMA FieldsOfChanges ==
    ASSUME NEW c \in Clients, ClientInv(c)
    PROVE  DOMAIN local[c] = LocalFields
BY DEF ClientInv, GoodChanges, TypedChanges

\* Altered tables, dropped tables and attempted deletions leave the files alone.
LEMMA NotesAreOK ==
    ASSUME NEW m, NEW s, NEW l0, ChangesOK(m, s, l0), NEW l,
           l.new_data_files = l0.new_data_files, l.new_delete_files = l0.new_delete_files,
           l.dropped_files = l0.dropped_files, l.inlined_file_deletes = l0.inlined_file_deletes,
           l.compactions = l0.compactions,
           \A t \in l.dropped_tables : TableExists(m, t, s)
    PROVE  ChangesOK(m, s, l)
<1>1. CompactionsOK(m, l)
  BY DEF ChangesOK, CompactionsOK
<1>2. NewFilesOK(l)
  BY DEF ChangesOK, NewFilesOK
<1>3. DeletesOK(m, s, l)
  BY DEF ChangesOK, DeletesOK
<1> QED
  BY <1>1, <1>2, <1>3 DEF ChangesOK

\* So the statements that only note a table keep the invariant.
LEMMA NotesDetailed ==
    ASSUME NEW c \in Clients, Ready(c), NEW t, DeleteNothing(c, t) \/ AlterTable(c, t) \/ DropTable(c, t)
    PROVE  Detailed(c)
<1> DEFINE l0 == local[c]
           l1 == [l0 EXCEPT !.delete_attempted = @ \cup {t}]
           l2 == [l0 EXCEPT !.altered_tables = @ \cup {t}]
           l3 == [l0 EXCEPT !.dropped_tables = @ \cup {t}]
           m == View(c)
           s == txn[c].snap
<1>1. DOMAIN l0 = LocalFields /\ ChangesOK(m, s, l0)
  BY FieldsOfChanges DEF Ready
<1>2. \A t1 \in l0.dropped_tables : TableExists(m, t1, s)
  BY <1>1 DEF ChangesOK
<1>3. CASE DeleteNothing(c, t)
  <2>1. local' = [local EXCEPT ![c] = l1]
    BY <1>3 DEF DeleteNothing, Statement
  <2>2. /\ l1.new_data_files = l0.new_data_files /\ l1.new_delete_files = l0.new_delete_files
        /\ l1.dropped_files = l0.dropped_files /\ l1.inlined_file_deletes = l0.inlined_file_deletes
        /\ l1.compactions = l0.compactions /\ l1.dropped_tables = l0.dropped_tables
    BY <1>1 DEF LocalFields
  <2> HIDE DEF l1, l0, m, s
  <2>3. ChangesOK(m, s, l1)
    BY <1>1, <1>2, <2>2, NotesAreOK
  <2> QED BY <2>1, <2>3 DEF Detailed, m, s
<1>4. CASE AlterTable(c, t)
  <2>1. local' = [local EXCEPT ![c] = l2]
    BY <1>4 DEF AlterTable, Statement
  <2>2. /\ l2.new_data_files = l0.new_data_files /\ l2.new_delete_files = l0.new_delete_files
        /\ l2.dropped_files = l0.dropped_files /\ l2.inlined_file_deletes = l0.inlined_file_deletes
        /\ l2.compactions = l0.compactions /\ l2.dropped_tables = l0.dropped_tables
    BY <1>1 DEF LocalFields
  <2> HIDE DEF l2, l0, m, s
  <2>3. ChangesOK(m, s, l2)
    BY <1>1, <1>2, <2>2, NotesAreOK
  <2> QED BY <2>1, <2>3 DEF Detailed, m, s
<1>5. CASE DropTable(c, t)
  <2>1. local' = [local EXCEPT ![c] = l3] /\ TableExists(m, t, s)
    BY <1>5 DEF DropTable, Statement, TableReadable
  <2>2. /\ l3.new_data_files = l0.new_data_files /\ l3.new_delete_files = l0.new_delete_files
        /\ l3.dropped_files = l0.dropped_files /\ l3.inlined_file_deletes = l0.inlined_file_deletes
        /\ l3.compactions = l0.compactions /\ l3.dropped_tables = l0.dropped_tables \cup {t}
    BY <1>1 DEF LocalFields
  <2> HIDE DEF l3, l0, m, s
  <2>3. ChangesOK(m, s, l3)
    BY <1>1, <1>2, <2>1, <2>2, NotesAreOK
  <2> QED BY <2>1, <2>3 DEF Detailed, m, s
<1> QED BY <1>3, <1>4, <1>5

\* The local files of a transaction, one replaced by its own rest.
LEMMA NewFilesAreOK ==
    ASSUME NEW m, NEW s, NEW l0, ChangesOK(m, s, l0), NEW l, NEW file,
           l.new_data_files \subseteq l0.new_data_files \cup {file}, l.new_delete_files = l0.new_delete_files,
           l.dropped_files = l0.dropped_files, l.inlined_file_deletes = l0.inlined_file_deletes,
           l.compactions = l0.compactions, l.dropped_tables = l0.dropped_tables,
           file \in l.new_data_files =>
               /\ file.rows = {file.path} \X Positions
               /\ file.deleted \subseteq file.rows
               /\ file.delete_path = {} <=> file.deleted = {}
    PROVE  ChangesOK(m, s, l)
<1>1. CompactionsOK(m, l)
  BY DEF ChangesOK, CompactionsOK
<1>2. NewFilesOK(l)
  BY DEF ChangesOK, NewFilesOK
<1>3. DeletesOK(m, s, l)
  BY DEF ChangesOK, DeletesOK
<1> QED
  BY <1>1, <1>2, <1>3 DEF ChangesOK

\* INSERT: the file holds its own rows and no others.
LEMMA InsertDetailed ==
    ASSUME NEW c \in Clients, Ready(c), NEW t, Insert(c, t)
    PROVE  Detailed(c)
<1> DEFINE l0 == local[c]
           p == FreshPath
           file == [path |-> p, table |-> t, rows |-> {<<p, i>> : i \in Positions},
                    deleted |-> {}, delete_path |-> {}]
           l == [l0 EXCEPT !.new_data_files = @ \cup {file}]
           m == View(c)
           s == txn[c].snap
<1>1. DOMAIN l0 = LocalFields /\ ChangesOK(m, s, l0)
  BY FieldsOfChanges DEF Ready
<1>2. local' = [local EXCEPT ![c] = l]
  BY DEF Insert, Statement
<1>3. /\ l.new_data_files = l0.new_data_files \cup {file} /\ l.new_delete_files = l0.new_delete_files
      /\ l.dropped_files = l0.dropped_files /\ l.inlined_file_deletes = l0.inlined_file_deletes
      /\ l.compactions = l0.compactions /\ l.dropped_tables = l0.dropped_tables
  BY <1>1 DEF LocalFields
<1>4. /\ file.rows = {file.path} \X Positions
      /\ file.deleted = {} /\ file.delete_path = {}
  <2> HIDE DEF p
  <2>1. file.rows = {<<p, i>> : i \in Positions} /\ file.path = p
    OBVIOUS
  <2>2. {p} \X Positions = {<<p, i>> : i \in Positions}
    OBVIOUS
  <2> QED BY <2>1, <2>2
<1> HIDE DEF l0, l, file, m, s
<1>5. ChangesOK(m, s, l)
  BY <1>1, <1>3, <1>4, NewFilesAreOK
<1> QED BY <1>2, <1>5 DEF Detailed, m, s

\* DELETE of rows of an uncommitted file.
LEMMA DeleteFromLocalFileDetailed ==
    ASSUME NEW c \in Clients, Ready(c), NEW n \in local[c].new_data_files,
           NEW R \in (SUBSET (n.rows \ n.deleted)) \ {{}}, DeleteFromLocalFile(c, n, R)
    PROVE  Detailed(c)
<1> DEFINE l0 == local[c]
           p == FreshPath
           deleted == n.deleted \cup R
           others == l0.new_data_files \ {n}
           attempted == [l0 EXCEPT !.delete_attempted = @ \cup {n.table}]
           file == [n EXCEPT !.deleted = deleted, !.delete_path = {p}]
           l1 == [attempted EXCEPT !.new_data_files = others]
           l2 == [attempted EXCEPT !.new_data_files = others \cup {file}]
           m == View(c)
           s == txn[c].snap
<1>1. DOMAIN l0 = LocalFields /\ ChangesOK(m, s, l0)
  BY FieldsOfChanges DEF Ready
<1>2. (local' = [local EXCEPT ![c] = l1]) \/ (local' = [local EXCEPT ![c] = l2])
  BY DEF DeleteFromLocalFile, Statement
<1>3. /\ n.rows = {n.path} \X Positions /\ n.deleted \subseteq n.rows
      /\ DOMAIN n = NewFileFields
  BY <1>1 DEF ChangesOK, NewFilesOK, Ready, ClientInv, GoodChanges, TypedChanges
<1>4. /\ file.rows = n.rows /\ file.path = n.path /\ file.deleted = deleted /\ file.delete_path = {p}
  BY <1>3 DEF NewFileFields
<1>5. deleted \subseteq n.rows /\ deleted # {}
  BY <1>3
<1>6. /\ l1.new_data_files = others /\ l1.new_delete_files = l0.new_delete_files
      /\ l1.dropped_files = l0.dropped_files /\ l1.inlined_file_deletes = l0.inlined_file_deletes
      /\ l1.compactions = l0.compactions /\ l1.dropped_tables = l0.dropped_tables
  BY <1>1 DEF LocalFields
<1>7. /\ l2.new_data_files = others \cup {file} /\ l2.new_delete_files = l0.new_delete_files
      /\ l2.dropped_files = l0.dropped_files /\ l2.inlined_file_deletes = l0.inlined_file_deletes
      /\ l2.compactions = l0.compactions /\ l2.dropped_tables = l0.dropped_tables
  BY <1>1 DEF LocalFields
<1>8. others \subseteq l0.new_data_files
  OBVIOUS
<1> HIDE DEF l0, l1, l2, file, m, s, deleted, others
<1>9. file.rows = {file.path} \X Positions /\ file.deleted \subseteq file.rows /\ file.deleted # {} /\ file.delete_path # {}
  BY <1>3, <1>4, <1>5
<1>10. ChangesOK(m, s, l1)
  BY <1>1, <1>6, <1>8, <1>9, NewFilesAreOK
<1>11. ChangesOK(m, s, l2)
  BY <1>1, <1>7, <1>8, <1>9, NewFilesAreOK
<1> QED BY <1>2, <1>10, <1>11 DEF Detailed, m, s

\* In a plain workload a DELETE writes the first delete file of its file.
LEMMA PlainDeletions ==
    ASSUME NEW s \in Nat, NEW positions, \A p \in positions : p.snap = Null
    PROVE  DeletedAt(positions, s) = RowsOf(positions)
<1>1. \A p \in positions : p.snap <= s
  BY DEF Null
<1> QED
  BY <1>1 DEF DeletedAt, RowsOf

\* A new delete file deletes rows that its file shows.
LEMMA DeleteFilesAreOK ==
    ASSUME NEW m, NEW s, NEW l0, ChangesOK(m, s, l0), NEW l, NEW e,
           l.new_delete_files \subseteq l0.new_delete_files \cup {e}, l.new_data_files = l0.new_data_files,
           l.dropped_files = l0.dropped_files, l.inlined_file_deletes = l0.inlined_file_deletes,
           l.compactions = l0.compactions, l.dropped_tables = l0.dropped_tables,
           e.overwritten = {}, \A p \in e.positions : DOMAIN p = RowFields,
           NEW f \in m.data_file, f.id = e.file, f.table = e.table, Visible(f, s),
           RowsOf(e.positions) \subseteq RowsAt(f, s)
    PROVE  ChangesOK(m, s, l)
<1>1. CompactionsOK(m, l)
  BY DEF ChangesOK, CompactionsOK
<1>2. NewFilesOK(l)
  BY DEF ChangesOK, NewFilesOK
<1>3. DeletesOK(m, s, l)
  <2>1. DeletesOK(m, s, l0)
    BY DEF ChangesOK
  <2>2. ASSUME NEW x \in l.new_delete_files
        PROVE  /\ x.overwritten = {}
               /\ \A p \in x.positions : DOMAIN p = RowFields
               /\ \E g \in m.data_file : /\ g.id = x.file /\ g.table = x.table /\ Visible(g, s)
                                         /\ RowsOf(x.positions) \subseteq RowsAt(g, s)
    <3>1. CASE x = e
      BY <3>1
    <3>2. CASE x \in l0.new_delete_files
      BY <2>1, <3>2 DEF DeletesOK
    <3> QED BY <3>1, <3>2
  <2> QED BY <2>1, <2>2 DEF DeletesOK
<1> QED
  BY <1>1, <1>2, <1>3 DEF ChangesOK

\* A dropped file is one without deleted rows.
LEMMA DroppedFilesAreOK ==
    ASSUME NEW m, NEW s, NEW l0, ChangesOK(m, s, l0), NEW l, NEW f \in m.data_file,
           l.dropped_files = l0.dropped_files \cup {[file |-> f.id, table |-> f.table]}, Visible(f, s),
           \A d \in m.delete_file : d.file = f.id => ~Visible(d, s),
           l.new_data_files = l0.new_data_files,
           l.new_delete_files = l0.new_delete_files, l.inlined_file_deletes = l0.inlined_file_deletes,
           l.compactions = l0.compactions, l.dropped_tables = l0.dropped_tables
    PROVE  ChangesOK(m, s, l)
<1>1. CompactionsOK(m, l)
  BY DEF ChangesOK, CompactionsOK
<1>2. NewFilesOK(l)
  BY DEF ChangesOK, NewFilesOK
<1>3. DeletesOK(m, s, l)
  <2> DEFINE e == [file |-> f.id, table |-> f.table]
  <2>1. DeletesOK(m, s, l0)
    BY DEF ChangesOK
  <2>2. e.file = f.id /\ e.table = f.table /\ DOMAIN e = {"file", "table"} /\ l.dropped_files = l0.dropped_files \cup {e}
    OBVIOUS
  <2> HIDE DEF e
  <2>3. ASSUME NEW y \in l.dropped_files
        PROVE  /\ DOMAIN y = {"file", "table"}
               /\ \A d \in m.delete_file : d.file = y.file => ~Visible(d, s)
               /\ \E g \in m.data_file : g.id = y.file /\ g.table = y.table /\ Visible(g, s)
    <3>1. CASE y = e
      BY <2>2, <3>1
    <3>2. CASE y \in l0.dropped_files
      BY <2>1, <3>2 DEF DeletesOK
    <3> QED BY <2>2, <3>1, <3>2
  <2> QED BY <2>1, <2>3 DEF DeletesOK
<1> QED
  BY <1>1, <1>2, <1>3 DEF ChangesOK

\* DELETE of rows of a committed file.
LEMMA DeleteFromFileDetailed ==
    ASSUME NEW c \in Clients, Ready(c), NEW t, NEW f \in ReadableFiles(c, t),
           NEW R \in SUBSET ReadableRows(c, f), DeleteFromFile(c, f, R)
    PROVE  Detailed(c)
<1> DEFINE l0 == local[c]
           m == View(c)
           s == txn[c].snap
           positions == NewPositions(c, f, R)
<1>1. DOMAIN l0 = LocalFields /\ ChangesOK(m, s, l0) /\ MetadataOK(m, s) /\ UniqueIds(m.data_file)
  BY FieldsOfChanges DEF Ready
<1>2. f \in m.data_file /\ Visible(f, s)
  BY DEF ReadableFiles
<1>3. CommittedDelete(c, f) = {}
  BY DEF DeleteFromFile, Ready, PlainWorkload
<1>4. \A d \in m.delete_file : d.file = f.id => ~Visible(d, s)
  BY <1>3 DEF CommittedDelete
<1>5. CASE DropFile(c, f)
  <2> DEFINE l == [l0 EXCEPT !.dropped_files = @ \cup {[file |-> f.id, table |-> f.table]},
                             !.delete_attempted = @ \cup {f.table}]
  <2>1. local' = [local EXCEPT ![c] = l]
    BY <1>5 DEF DropFile, Statement
  <2>2. /\ l.dropped_files = l0.dropped_files \cup {[file |-> f.id, table |-> f.table]}
        /\ l.new_data_files = l0.new_data_files /\ l.new_delete_files = l0.new_delete_files
        /\ l.inlined_file_deletes = l0.inlined_file_deletes
        /\ l.compactions = l0.compactions /\ l.dropped_tables = l0.dropped_tables
    BY <1>1 DEF LocalFields
  <2> HIDE DEF l0, l, m, s
  <2>3. ChangesOK(m, s, l)
    BY <1>1, <1>2, <1>4, <2>2, DroppedFilesAreOK
  <2> QED BY <2>1, <2>3 DEF Detailed, m, s
<1>6. CASE WriteDeleteFile(c, f, positions)
  <2> DEFINE old == LocalDelete(c, f)
             e == [file |-> f.id, table |-> f.table, path |-> FreshPath, positions |-> positions,
                   begin |-> BeginOf(positions), overwritten |-> Overwritten(c, f)]
             l == [l0 EXCEPT !.new_delete_files = (@ \ old) \cup {e}, !.delete_attempted = @ \cup {f.table}]
  <2>1. local' = [local EXCEPT ![c] = l]
    BY <1>6 DEF WriteDeleteFile, Statement
  <2>2. Overwritten(c, f) = {}
    BY <1>3 DEF Overwritten
  <2>3. (\A p \in positions : DOMAIN p = RowFields) /\ RowsOf(positions) \subseteq RowsAt(f, s)
    <3> DEFINE was == UNION {d.positions : d \in IF old # {} THEN old ELSE {}}
               new == {[row |-> r, snap |-> Null] : r \in R}
    <3>1. positions = was \cup new
      BY <1>3 DEF NewPositions
    <3>2. \A p \in new : DOMAIN p = RowFields /\ p.row \in RowsAt(f, s)
      <4>1. R \subseteq RowsAt(f, s)
        BY DEF ReadableRows
      <4> QED BY <4>1 DEF RowFields
    <3>3. ASSUME NEW p \in was PROVE DOMAIN p = RowFields /\ p.row \in RowsAt(f, s)
      <4>1. PICK d \in old : p \in d.positions
        OBVIOUS
      <4>2. d \in l0.new_delete_files /\ d.file = f.id
        BY DEF LocalDelete
      <4>3. /\ \A q \in d.positions : DOMAIN q = RowFields
            /\ \E g \in m.data_file : g.id = d.file /\ RowsOf(d.positions) \subseteq RowsAt(g, s)
        BY <1>1, <4>2 DEF ChangesOK, DeletesOK
      <4>4. RowsOf(d.positions) \subseteq RowsAt(f, s)
        BY <1>1, <1>2, <4>2, <4>3 DEF UniqueIds
      <4>5. p.row \in RowsOf(d.positions)
        BY <4>1 DEF RowsOf
      <4> QED BY <4>1, <4>3, <4>4, <4>5
    <3> HIDE DEF was, new, positions
    <3> QED BY <3>1, <3>2, <3>3 DEF RowsOf
  <2>4. /\ e.overwritten = {} /\ e.file = f.id /\ e.table = f.table /\ e.positions = positions
    BY <2>2
  <2>5. /\ l.new_delete_files = (l0.new_delete_files \ old) \cup {e} /\ l.new_data_files = l0.new_data_files
        /\ l.dropped_files = l0.dropped_files /\ l.inlined_file_deletes = l0.inlined_file_deletes
        /\ l.compactions = l0.compactions /\ l.dropped_tables = l0.dropped_tables
    BY <1>1 DEF LocalFields
  <2> HIDE DEF l0, l, m, s, old, e, positions
  <2>6. ChangesOK(m, s, l)
    <3>1. l.new_delete_files \subseteq l0.new_delete_files \cup {e}
      BY <2>5
    <3> QED BY <1>1, <1>2, <2>3, <2>4, <2>5, <3>1, DeleteFilesAreOK
  <2> QED BY <2>1, <2>6 DEF Detailed, m, s
<1> QED BY <1>5, <1>6 DEF DeleteFromFile

\* A compaction of files that no other compaction of the transaction takes.
LEMMA CompactDetailed ==
    ASSUME NEW c \in Clients, Ready(c), NEW t, NEW x, Compact(c, t, x),
           \A f \in x.sources : f.end = Null,
           x.type = "merge" => MergeOf(x), x.type = "rewrite" => RewriteOf(View(c), x)
    PROVE  Detailed(c)
<1> DEFINE l0 == local[c]
           m == View(c)
           s == txn[c].snap
           l == [l0 EXCEPT !.compactions = @ \cup {x}]
<1>1. DOMAIN l0 = LocalFields /\ ChangesOK(m, s, l0)
  BY FieldsOfChanges DEF Ready
<1>2. local' = [local EXCEPT ![c] = l] /\ x.sources \cap CompactedFiles(c) = {}
  BY DEF Compact, Statement, Ready, PlainWorkload
<1>3. /\ l.new_data_files = l0.new_data_files /\ l.new_delete_files = l0.new_delete_files
      /\ l.dropped_files = l0.dropped_files /\ l.inlined_file_deletes = l0.inlined_file_deletes
      /\ l.compactions = l0.compactions \cup {x} /\ l.dropped_tables = l0.dropped_tables
  BY <1>1 DEF LocalFields
<1>4. \A y \in l0.compactions : x.sources \cap y.sources = {}
  BY <1>2 DEF CompactedFiles
<1> HIDE DEF l0, l, m, s
<1>5. CompactionsOK(m, l)
  <2>1. CompactionsOK(m, l0)
    BY <1>1 DEF ChangesOK
  <2>2. \A y, z \in l.compactions : y # z => y.sources \cap z.sources = {}
    BY <1>3, <1>4, <2>1 DEF CompactionsOK
  <2>3. ASSUME NEW y \in l.compactions
        PROVE  /\ \A f \in y.sources : f.end = Null
               /\ y.type = "merge" => MergeOf(y)
               /\ y.type = "rewrite" => RewriteOf(m, y)
    <3>1. CASE y = x
      BY <3>1 DEF m
    <3>2. CASE y \in l0.compactions
      BY <2>1, <3>2 DEF CompactionsOK
    <3> QED BY <1>3, <3>1, <3>2
  <2> QED BY <2>2, <2>3 DEF CompactionsOK
<1>6. NewFilesOK(l)
  BY <1>1, <1>3 DEF ChangesOK, NewFilesOK
<1>7. DeletesOK(m, s, l)
  BY <1>1, <1>3 DEF ChangesOK, DeletesOK
<1>8. ChangesOK(m, s, l)
  BY <1>1, <1>3, <1>5, <1>6, <1>7 DEF ChangesOK
<1> QED BY <1>2, <1>8 DEF Detailed, m, s

\* ducklake_merge_adjacent_files.
LEMMA MergeDetailed ==
    ASSUME NEW c \in Clients, Ready(c), NEW t, NEW S \in SUBSET MergeCandidates(c, t), MergeAdjacentFiles(c, t, S)
    PROVE  Detailed(c)
<1> DEFINE s == txn[c].snap
           first == CHOOSE f \in S : \A g \in S : f.begin <= g.begin
           last == CHOOSE f \in S : \A g \in S : LastSnapshot(f) >= LastSnapshot(g)
           x == [type |-> "merge", table |-> t, sources |-> S, deletes |-> {}, path |-> {FreshPath},
                 rows |-> UNION {RowSnapshots(f) : f \in S}, begin |-> first.begin,
                 partial_max |-> LastSnapshot(last)]
<1>1. Compact(c, t, x) /\ Cardinality(S) >= 2
  BY DEF MergeAdjacentFiles
<1>2. S # {}
  BY <1>1, FS_EmptySet
<1>3. s \in Nat /\ \A f \in S : f.end = Null /\ FileOK(f, s)
  BY DEF MergeCandidates, Ready, MetadataOK
<1>4. \A f \in S : f.begin \in Nat /\ LastSnapshot(f) \in 0 .. s
  BY <1>3 DEF FileOK, LastSnapshot, Null
<1>5. first \in S /\ \A g \in S : first.begin <= g.begin
  <2> DEFINE T == {f.begin : f \in S}
  <2>1. T \subseteq Nat /\ T # {}
    BY <1>2, <1>4
  <2>2. PICK k \in T : \A j \in T : k <= j
    <3> HIDE DEF T
    <3> QED BY <2>1, SmallestOf
  <2>3. \E f \in S : \A g \in S : f.begin <= g.begin
    BY <2>2
  <2> QED BY <2>3
<1>6. last \in S /\ \A g \in S : LastSnapshot(g) <= LastSnapshot(last)
  <2> DEFINE T == {LastSnapshot(f) : f \in S}
  <2>1. T \subseteq 0 .. s /\ T # {}
    BY <1>2, <1>4
  <2>2. PICK k \in T : \A j \in T : j <= k
    <3> HIDE DEF T, s
    <3> QED BY <1>3, <2>1, LargestOf
  <2>3. \E f \in S : \A g \in S : LastSnapshot(f) >= LastSnapshot(g)
    <3>1. PICK f \in S : k = LastSnapshot(f)
      BY <2>2
    <3>2. ASSUME NEW g \in S PROVE LastSnapshot(f) >= LastSnapshot(g)
      <4>1. LastSnapshot(g) <= k
        BY <2>2
      <4> QED BY <1>4, <3>1, <4>1
    <3> QED BY <3>2
  <2>4. last \in S /\ \A g \in S : LastSnapshot(last) >= LastSnapshot(g)
    <3> HIDE DEF s
    <3> QED BY <2>3
  <2> HIDE DEF last
  <2> QED BY <1>4, <2>4
<1> HIDE DEF first, last, s
<1>7. /\ x.type = "merge" /\ x.sources = S /\ x.deletes = {} /\ x.path = {FreshPath} /\ x.begin = first.begin
      /\ x.partial_max = LastSnapshot(last) /\ x.rows = UNION {RowSnapshots(f) : f \in S}
  OBVIOUS
<1> HIDE DEF x
<1>8. MergeOf(x)
  <2>1. x.rows = UNION {RowSnapshots(f) : f \in x.sources}
    BY <1>7
  <2> QED BY <1>2, <1>5, <1>6, <1>7, <2>1 DEF MergeOf
<1> QED BY <1>1, <1>3, <1>7, <1>8, CompactDetailed

\* ducklake_rewrite_data_files.
LEMMA RewriteDetailed ==
    ASSUME NEW c \in Clients, Ready(c), NEW t, NEW S \in SUBSET RewriteCandidates(c, t), RewriteDeletes(c, t, S)
    PROVE  Detailed(c)
<1> DEFINE s == txn[c].snap
           m == View(c)
           LiveRows(f) == {r \in f.rows : /\ r.row \notin UNION {DeletedAt(d.positions, s) : d \in LiveDelete(c, f)}
                                          /\ r.row \notin InlinedAt(View(c), f, s)}
           rows == {[r EXCEPT !.snap = Null] : r \in UNION {LiveRows(f) : f \in S}}
           deletes == UNION {LiveDelete(c, f) : f \in S}
           path == IF rows = {} THEN {} ELSE {FreshPath}
           x == [type |-> "rewrite", table |-> t, sources |-> S, deletes |-> deletes, path |-> path, rows |-> rows,
                 begin |-> Null, partial_max |-> Null]
<1>1. Compact(c, t, x)
  BY DEF RewriteDeletes
<1>2. s \in Nat /\ MetadataOK(m, s) /\ \A f \in S : f.end = Null
  BY DEF RewriteCandidates, Ready
<1>3. \A f : LiveDelete(c, f) = LiveDeletes(m, f)
  BY DEF LiveDelete, LiveDeletes
<1>4. ASSUME NEW f PROVE LiveRows(f) = Undeleted(m, f)
  <2>1. InlinedAt(m, f, s) = {}
    BY <1>2 DEF InlinedAt, MetadataOK
  <2>2. \A d \in LiveDeletes(m, f) : DeletedAt(d.positions, s) = RowsOf(d.positions)
    <3> SUFFICES ASSUME NEW d \in LiveDeletes(m, f) PROVE DeletedAt(d.positions, s) = RowsOf(d.positions)
      OBVIOUS
    <3>1. \A p \in d.positions : p.snap = Null
      BY <1>2 DEF LiveDeletes, MetadataOK, DeleteOK
    <3> QED BY <1>2, <3>1, PlainDeletions
  <2> QED BY <1>3, <2>1, <2>2 DEF Undeleted
<1> HIDE DEF LiveRows
<1>5. rows = {[q EXCEPT !.snap = Null] : q \in UNION {Undeleted(m, f) : f \in S}}
  BY <1>4
<1>6. deletes = UNION {LiveDeletes(m, f) : f \in S}
  BY <1>3
<1>7. path = {} <=> rows = {}
  OBVIOUS
<1> HIDE DEF rows, deletes, path, m, s
<1>8. /\ x.type = "rewrite" /\ x.sources = S /\ x.deletes = deletes /\ x.rows = rows /\ x.path = path
      /\ x.partial_max = Null
  OBVIOUS
<1> HIDE DEF x
<1>9. RewriteOf(m, x)
  <2>1. x.deletes = UNION {LiveDeletes(m, f) : f \in x.sources}
    BY <1>6, <1>8
  <2>2. x.rows = {[q EXCEPT !.snap = Null] : q \in UNION {Undeleted(m, f) : f \in x.sources}}
    BY <1>5, <1>8
  <2>3. x.path = {} <=> x.rows = {}
    BY <1>7, <1>8
  <2> QED BY <1>8, <2>1, <2>2, <2>3 DEF RewriteOf
<1> QED BY <1>1, <1>2, <1>8, <1>9, CompactDetailed DEF m

\* Every statement.
LEMMA AnyStatementDetailed ==
    ASSUME NEW c \in Clients, Ready(c), AnyStatement(c)
    PROVE  Detailed(c)
<1>1. PICK t \in Tables :
        \/ Insert(c, t)
        \/ DeleteNothing(c, t)
        \/ \E n \in {m \in local[c].new_data_files : m.table = t} :
              \E R \in (SUBSET (n.rows \ n.deleted)) \ {{}} : DeleteFromLocalFile(c, n, R)
        \/ \E f \in ReadableFiles(c, t) : \E R \in (SUBSET ReadableRows(c, f)) \ {{}} :
              DeleteFromFile(c, f, R) \/ InlineDelete(c, f, R)
        \/ \E S \in SUBSET MergeCandidates(c, t) : MergeAdjacentFiles(c, t, S)
        \/ \E S \in SUBSET RewriteCandidates(c, t) : RewriteDeletes(c, t, S)
        \/ AlterTable(c, t)
        \/ DropTable(c, t)
  BY DEF AnyStatement
<1>2. \A f, R : ~InlineDelete(c, f, R)
  BY DEF InlineDelete, Ready, PlainWorkload
<1>3. ASSUME \E n \in {m \in local[c].new_data_files : m.table = t} :
                 \E R \in (SUBSET (n.rows \ n.deleted)) \ {{}} : DeleteFromLocalFile(c, n, R)
      PROVE  Detailed(c)
  BY <1>3, DeleteFromLocalFileDetailed
<1>4. ASSUME \E f \in ReadableFiles(c, t) : \E R \in (SUBSET ReadableRows(c, f)) \ {{}} : DeleteFromFile(c, f, R)
      PROVE  Detailed(c)
  BY <1>4, DeleteFromFileDetailed
<1>5. ASSUME \/ \E S \in SUBSET MergeCandidates(c, t) : MergeAdjacentFiles(c, t, S)
             \/ \E S \in SUBSET RewriteCandidates(c, t) : RewriteDeletes(c, t, S)
      PROVE  Detailed(c)
  BY <1>5, MergeDetailed, RewriteDetailed
<1>6. ASSUME Insert(c, t) \/ DeleteNothing(c, t) \/ AlterTable(c, t) \/ DropTable(c, t)
      PROVE  Detailed(c)
  BY <1>6, InsertDetailed, NotesDetailed
<1> QED
  BY <1>1, <1>2, <1>3, <1>4, <1>5, <1>6

----------------------------------------------------------------------------
(* What a commit does to the rows of the metadata.                         *)

\* The row x becomes y: the same, or ended by snapshot k for a recorded change.
KeptUntil(x, y, k, changes) ==
    /\ DOMAIN y = DOMAIN x /\ \A a \in DOMAIN x \ {"end"} : y[a] = x[a]
    /\ \/ y.end = x.end
       \/ x.end = Null /\ y.end = k /\ \E kind \in EndKinds : <<kind, x.table>> \in changes

\* Every row of S is kept in T, and T has no other row.
KeptRows(S, T, k, changes) ==
    /\ \A y \in T : \E x \in S : KeptUntil(x, y, k, changes)
    /\ \A x \in S : \E y \in T : KeptUntil(x, y, k, changes)

\* A map that keeps each row keeps the rows.
LEMMA KeptImage ==
    ASSUME NEW k, NEW changes, NEW S, NEW F,
           \A x \in S : \/ F[x] = x
                        \/ /\ F[x] = [x EXCEPT !.end = k] /\ {"end", "table"} \subseteq DOMAIN x /\ x.end = Null
                           /\ \E kind \in EndKinds : <<kind, x.table>> \in changes,
           NEW T, T = {F[x] : x \in S}
    PROVE  KeptRows(S, T, k, changes)
<1>1. ASSUME NEW x \in S PROVE KeptUntil(x, F[x], k, changes)
  <2>1. CASE F[x] = x
    BY <2>1 DEF KeptUntil
  <2>2. CASE /\ F[x] = [x EXCEPT !.end = k] /\ {"end", "table"} \subseteq DOMAIN x /\ x.end = Null
             /\ \E kind \in EndKinds : <<kind, x.table>> \in changes
    <3> DEFINE y == [x EXCEPT !.end = k]
    <3>1. DOMAIN y = DOMAIN x /\ y.end = k /\ \A a \in DOMAIN x \ {"end"} : y[a] = x[a]
      BY <2>2
    <3> HIDE DEF y
    <3>2. F[x] = y
      BY <2>2 DEF y
    <3> QED BY <2>2, <3>1, <3>2 DEF KeptUntil
  <2> QED BY <2>1, <2>2
<1> QED
  BY <1>1 DEF KeptRows

\* Two such maps one after the other.
LEMMA KeptTransitive ==
    ASSUME NEW k, NEW changes, k # Null, NEW S, NEW T, NEW U, KeptRows(S, T, k, changes), KeptRows(T, U, k, changes),
           \A x \in S : {"end", "table"} \subseteq DOMAIN x
    PROVE  KeptRows(S, U, k, changes)
<1>1. ASSUME NEW x \in S, NEW y, NEW z, KeptUntil(x, y, k, changes), KeptUntil(y, z, k, changes)
      PROVE  KeptUntil(x, z, k, changes)
  <2>1. y.table = x.table /\ DOMAIN y = DOMAIN x /\ DOMAIN z = DOMAIN x
    BY <1>1 DEF KeptUntil
  <2>2. \A a \in DOMAIN x \ {"end"} : z[a] = x[a]
    BY <1>1 DEF KeptUntil
  <2> QED BY <1>1, <2>1, <2>2 DEF KeptUntil
<1> QED
  BY <1>1 DEF KeptRows

\* The rows that WriteDroppedTables ends.
LEMMA KeptEndedTables ==
    ASSUME NEW k, NEW S, \A x \in S : {"end", "table"} \subseteq DOMAIN x, NEW ts, NEW changes,
           \A t \in ts : <<"dropped_table", t>> \in changes
    PROVE  KeptRows(S, EndedTables(S, ts, k), k, changes)
<1> DEFINE F == [x \in S |-> IF x.end = Null /\ x.table \in ts THEN [x EXCEPT !.end = k] ELSE x]
<1>1. \A x \in S : \/ F[x] = x
                   \/ /\ F[x] = [x EXCEPT !.end = k] /\ {"end", "table"} \subseteq DOMAIN x /\ x.end = Null
                      /\ \E kind \in EndKinds : <<kind, x.table>> \in changes
  BY DEF EndKinds
<1>2. EndedTables(S, ts, k) = {F[x] : x \in S}
  BY DEF EndedTables
<1> HIDE DEF F
<1> QED BY <1>1, <1>2, KeptImage, ZenonT(60)

\* The rows that WriteDroppedFiles ends.
LEMMA KeptEndedFiles ==
    ASSUME NEW k, NEW S, \A x \in S : {"end", "table"} \subseteq DOMAIN x, NEW dropped, NEW changes,
           \A y \in dropped : <<"deleted_from_table", y.table>> \in changes
    PROVE  KeptRows(S, EndedFiles(S, dropped, k), k, changes)
<1> DEFINE F == [x \in S |-> IF x.end = Null /\ [file |-> x.id, table |-> x.table] \in dropped
                             THEN [x EXCEPT !.end = k] ELSE x]
<1>0. ASSUME NEW x \in S, [file |-> x.id, table |-> x.table] \in dropped
      PROVE  <<"deleted_from_table", x.table>> \in changes
  <2> DEFINE y == [file |-> x.id, table |-> x.table]
  <2>1. y.table = x.table /\ y \in dropped
    BY <1>0
  <2> QED BY <2>1
<1>1. \A x \in S : \/ F[x] = x
                   \/ /\ F[x] = [x EXCEPT !.end = k] /\ {"end", "table"} \subseteq DOMAIN x /\ x.end = Null
                      /\ \E kind \in EndKinds : <<kind, x.table>> \in changes
  BY <1>0 DEF EndKinds
<1>2. EndedFiles(S, dropped, k) = {F[x] : x \in S}
  BY DEF EndedFiles
<1> HIDE DEF F
<1> QED BY <1>1, <1>2, KeptImage, ZenonT(60)

\* The rows that a rewrite or a new delete file ends.
LEMMA KeptEndedIds ==
    ASSUME NEW k, NEW S, \A x \in S : {"end", "table"} \subseteq DOMAIN x, NEW ids, NEW changes,
           \A x \in S : x.id \in ids => x.end = Null /\ <<"rewrite_delete", x.table>> \in changes
    PROVE  KeptRows(S, EndedIds(S, ids, k), k, changes)
<1> DEFINE F == [x \in S |-> IF x.id \in ids THEN [x EXCEPT !.end = k] ELSE x]
<1>1. \A x \in S : \/ F[x] = x
                   \/ /\ F[x] = [x EXCEPT !.end = k] /\ {"end", "table"} \subseteq DOMAIN x /\ x.end = Null
                      /\ \E kind \in EndKinds : <<kind, x.table>> \in changes
  BY DEF EndKinds
<1>2. EndedIds(S, ids, k) = {F[x] : x \in S}
  BY DEF EndedIds
<1> HIDE DEF F
<1> QED BY <1>1, <1>2, KeptImage, ZenonT(60)

\* What the snapshot records of a transaction that changed something of a table.
LEMMA RecordedChangesOf ==
    ASSUME NEW l, TypedChanges(l), NEW changes, changes = WriteSnapshotChanges(TransactionChanges(l))
    PROVE  /\ \A n \in l.new_data_files : <<"inserted_into_table", n.table>> \in changes
           /\ \A d \in l.new_delete_files : <<"deleted_from_table", d.table>> \in changes
           /\ \A d \in l.dropped_files : <<"deleted_from_table", d.table>> \in changes
           /\ \A x \in l.compactions :
                 /\ x.type = "merge" => <<"merge_adjacent", x.table>> \in changes
                 /\ x.type = "rewrite" => <<"rewrite_delete", x.table>> \in changes
           /\ \A t \in l.altered_tables : <<"altered_table", t>> \in changes
           /\ \A t \in l.dropped_tables : <<"dropped_table", t>> \in changes
<1> DEFINE ch == TransactionChanges(l)
<1>1. \A t \in l.dropped_tables : <<"dropped_table", t>> \in ch
  BY DEF TransactionChanges, Changed
<1>2. \A t \in l.altered_tables : <<"altered_table", t>> \in ch
  BY DEF TransactionChanges, Changed
<1>3. /\ \A n \in l.new_data_files : <<"inserted_into_table", n.table>> \in ch
      /\ \A d \in l.new_delete_files : <<"deleted_from_table", d.table>> \in ch
      /\ \A d \in l.dropped_files : <<"deleted_from_table", d.table>> \in ch
      /\ \A x \in l.compactions :
            /\ x.type = "merge" => <<"merge_adjacent", x.table>> \in ch
            /\ x.type = "rewrite" => <<"rewrite_delete", x.table>> \in ch
  BY ChangesOf
<1> HIDE DEF ch
<1>4. \A kind \in RecordedKinds : \A t : <<kind, t>> \in ch => <<kind, t>> \in changes
  <2> SUFFICES ASSUME NEW kind \in RecordedKinds, NEW t, <<kind, t>> \in ch PROVE <<kind, t>> \in changes
    OBVIOUS
  <2>1. <<kind, t>>[1] = kind
    OBVIOUS
  <2> QED BY <2>1 DEF WriteSnapshotChanges, ch
<1> QED
  BY <1>1, <1>2, <1>3, <1>4 DEF RecordedKinds

\* A transaction that compacts does nothing else.
LEMMA CompactsOrNot ==
    ASSUME NEW l, TypedChanges(l), ~MixesCompaction(TransactionChanges(l)), l.compactions # {}
    PROVE  /\ l.new_data_files = {} /\ l.new_delete_files = {} /\ l.dropped_files = {}
           /\ l.altered_tables = {} /\ l.dropped_tables = {}
<1> DEFINE changes == WriteSnapshotChanges(TransactionChanges(l))
<1>1. PICK x \in l.compactions : x.type \in {"merge", "rewrite"}
  BY DEF TypedChanges
<1>2. PICK a : a \in changes /\ a[1] \in {"merge_adjacent", "rewrite_delete"}
  <2>1. <<"merge_adjacent", x.table>> \in changes \/ <<"rewrite_delete", x.table>> \in changes
    BY <1>1, RecordedChangesOf
  <2> HIDE DEF changes
  <2>2. <<"merge_adjacent", x.table>>[1] = "merge_adjacent" /\ <<"rewrite_delete", x.table>>[1] = "rewrite_delete"
    OBVIOUS
  <2> QED BY <2>1, <2>2
<1>3. \A b \in changes : b[1] \in {"merge_adjacent", "rewrite_delete"}
  BY <1>2 DEF MixesCompaction
<1>4. /\ \A n \in l.new_data_files : <<"inserted_into_table", n.table>> \in changes
      /\ \A d \in l.new_delete_files : <<"deleted_from_table", d.table>> \in changes
      /\ \A d \in l.dropped_files : <<"deleted_from_table", d.table>> \in changes
      /\ \A t \in l.altered_tables : <<"altered_table", t>> \in changes
      /\ \A t \in l.dropped_tables : <<"dropped_table", t>> \in changes
  BY RecordedChangesOf
<1> HIDE DEF changes
<1>5. \A kind, t : <<kind, t>>[1] = kind
  OBVIOUS
<1>6. \A kind, t : <<kind, t>> \in changes => kind \in {"merge_adjacent", "rewrite_delete"}
  <2> SUFFICES ASSUME NEW kind, NEW t, <<kind, t>> \in changes PROVE kind \in {"merge_adjacent", "rewrite_delete"}
    OBVIOUS
  <2> QED BY <1>3, <1>5
<1>7. \A t : /\ <<"inserted_into_table", t>> \notin changes /\ <<"deleted_from_table", t>> \notin changes
            /\ <<"altered_table", t>> \notin changes /\ <<"dropped_table", t>> \notin changes
  BY <1>6
<1> QED
  BY <1>4, <1>7, Zenon

\* The ends of the tables after the commit of l as snapshot k.
TableEndsAfter(m0, l, k) == [t \in Tables |-> IF t \in l.dropped_tables /\ m0.table_end[t] = Null THEN k ELSE m0.table_end[t]]

\* What a commit does to the tables and the inlined deletions.
LEMMA CommitOtherFields ==
    ASSUME NEW m0, DOMAIN m0 = MetadataFields, NEW l, l.inlined_file_deletes = {}, NEW k, NEW id,
           NEW m, m = CommitChanges(m0, l, k, id)
    PROVE  m.inlined_delete = m0.inlined_delete /\ m.table_end = TableEndsAfter(m0, l, k)
<1> DEFINE m1 == DropTables(m0, l.dropped_tables, k)
           m2 == WriteNewDataFiles(m1, l, k, id)
           m3 == DropDataFiles(m2, l, k)
           m4 == DeleteOverwrittenDeleteFiles(m3, l)
           m5 == WriteNewDeleteFiles(m4, l, k, id)
           m6 == WriteNewInlinedFileDeletes(m5, l, k)
           m7 == WriteMergeAdjacent(m6, l, k, id)
           m8 == WriteDeleteRewrites(m7, l, k, id)
           Same(a, b) == DOMAIN b = MetadataFields /\ b.inlined_delete = a.inlined_delete /\ b.table_end = a.table_end
<1>0. m = m8
  BY DEF CommitChanges
<1>1. DOMAIN m1 = MetadataFields /\ m1.inlined_delete = m0.inlined_delete /\ m1.table_end = TableEndsAfter(m0, l, k)
  BY DEF DropTables, TableEndsAfter, MetadataFields
<1> HIDE DEF m1
<1>2. Same(m1, m2)
  BY <1>1 DEF WriteNewDataFiles, MetadataFields
<1> HIDE DEF m2
<1>3. Same(m2, m3)
  BY <1>2 DEF DropDataFiles, MetadataFields
<1> HIDE DEF m3
<1>4. Same(m3, m4)
  BY <1>3 DEF DeleteOverwrittenDeleteFiles, MetadataFields
<1> HIDE DEF m4
<1>5. Same(m4, m5)
  BY <1>4 DEF WriteNewDeleteFiles, MetadataFields
<1> HIDE DEF m5
<1>6. Same(m5, m6)
  BY <1>5 DEF WriteNewInlinedFileDeletes, MetadataFields
<1> HIDE DEF m6
<1>7. Same(m6, m7)
  BY <1>6 DEF WriteMergeAdjacent, MetadataFields
<1> HIDE DEF m7
<1>8. Same(m7, m8)
  BY <1>7 DEF WriteDeleteRewrites, MetadataFields
<1> HIDE DEF m8
<1> QED
  BY <1>0, <1>1, <1>2, <1>3, <1>4, <1>5, <1>6, <1>7, <1>8

\* The data files that the commit of l as snapshot k adds.
AddedFiles(l, k, id) ==
    (NewDataRows(l, k, id) \cup OutputFiles(l, "merge", k, id)) \cup OutputFiles(l, "rewrite", k, id)

\* What a compaction read is still as it was when the transaction commits.
SourcesLive(m, l) ==
    /\ \A x \in l.compactions : \A f \in x.sources :
          /\ f.id \in Nat
          /\ \E g \in m.data_file : g.id = f.id
          /\ \A g \in m.data_file : g.id = f.id =>
                /\ g.end = Null /\ g.table = x.table
                /\ g.rows = f.rows /\ g.begin = f.begin /\ g.partial_max = f.partial_max
    /\ \A x \in l.compactions : x.type = "merge" => x.deletes = {}
    /\ \A x \in l.compactions : \A d \in x.deletes : \A e \in m.delete_file :
          e.id = d.id => e.end = Null /\ e.table = x.table
    /\ \A d \in m.delete_file : d.file \notin SourceIds(l, "merge")

\* The data files after a commit: the old ones, some ended and the sources of merges
\* gone, and the new ones.
LEMMA FilesOfCommit ==
    ASSUME NEW l, NEW k, NEW id, CommitArguments(l, k, id), ~MixesCompaction(TransactionChanges(l)),
           NEW m0, GoodMetadata(m0, id), SourcesLive(m0, l), \A y \in l.dropped_files : y.file \in Nat /\ y.file < id,
           NEW changes, changes = WriteSnapshotChanges(TransactionChanges(l)),
           NEW T, T = FilesAfter(m0.data_file, l, k, id)
    PROVE  \E K : /\ T = K \cup AddedFiles(l, k, id)
                  /\ KeptRows(WithoutIds(m0.data_file, SourceIds(l, "merge")), K, k, changes)
<1> DEFINE S == m0.data_file
           N == NewDataRows(l, k, id)
           M == OutputFiles(l, "merge", k, id)
           R == OutputFiles(l, "rewrite", k, id)
           ms == SourceIds(l, "merge")
           rs == SourceIds(l, "rewrite")
           S1 == EndedTables(S, l.dropped_tables, k)
           S3 == EndedFiles(S1 \cup N, l.dropped_files, k)
           S4 == WithoutIds(S3, ms)
           S6 == EndedIds(S4 \cup M, rs, k)
<1>0. T = S6 \cup R
  BY DEF FilesAfter
<1>1. /\ TypedChanges(l) /\ k \in Nat /\ k # Null
      /\ \A f \in S : DOMAIN f = FileFields /\ f.id \in Nat /\ f.id < id
  BY DEF CommitArguments, GoodChanges, GoodMetadata, Null
<1>2. \A f \in S : {"end", "table"} \subseteq DOMAIN f
  BY <1>1 DEF FileFields
<1>3. AddedFiles(l, k, id) = (N \cup M) \cup R
  BY DEF AddedFiles
<1>4. CASE l.compactions = {}
  <2>1. M = {} /\ R = {}
    BY <1>4 DEF OutputFiles
  <2>2. ms = {} /\ rs = {}
    BY <1>4 DEF SourceIds, SourceFiles
  <2>3. \A X : WithoutIds(X, {}) = X /\ EndedIds(X, {}, k) = X
    BY DEF WithoutIds, EndedIds
  <2>4. T = S3
    <3> HIDE DEF S3, M, R, ms, rs
    <3>1. S4 = S3 /\ S4 \cup M = S3
      BY <2>1, <2>2, <2>3
    <3> QED BY <1>0, <2>1, <2>2, <2>3, <3>1
  <2>5. \A r \in N : r.id \in Nat /\ id <= r.id
    BY NewDataRowsAre, NewIdsAre
  <2>6. ASSUME NEW r \in N PROVE [file |-> r.id, table |-> r.table] \notin l.dropped_files
    <3> SUFFICES ASSUME [file |-> r.id, table |-> r.table] \in l.dropped_files PROVE FALSE
      OBVIOUS
    <3> DEFINE y == [file |-> r.id, table |-> r.table]
    <3>1. y.file = r.id
      OBVIOUS
    <3>2. r.id < id
      BY <3>1
    <3>3. id \in Nat
      BY DEF CommitArguments
    <3> QED BY <2>5, <3>2, <3>3
  <2> DEFINE K == EndedFiles(S1, l.dropped_files, k)
  <2>7. S3 = K \cup N
    <3> HIDE DEF N, S1
    <3>1. EndedFiles(S1 \cup N, l.dropped_files, k) = EndedFiles(S1, l.dropped_files, k) \cup EndedFiles(N, l.dropped_files, k)
      BY DEF EndedFiles
    <3>2. EndedFiles(N, l.dropped_files, k) = N
      BY <2>6 DEF EndedFiles
    <3> QED BY <3>1, <3>2
  <2>8. KeptRows(S, S1, k, changes)
    BY <1>1, <1>2, RecordedChangesOf, KeptEndedTables
  <2>9. \A f \in S1 : {"end", "table"} \subseteq DOMAIN f
    BY <1>2, <2>8 DEF KeptRows, KeptUntil
  <2> HIDE DEF S, S1
  <2>10. KeptRows(S1, K, k, changes)
    BY <1>1, <2>9, RecordedChangesOf, KeptEndedFiles
  <2> HIDE DEF K, S3, N, M, R
  <2>11. KeptRows(S, K, k, changes)
    BY <1>1, <1>2, <2>8, <2>10, KeptTransitive
  <2>12. WithoutIds(S, ms) = S
    BY <2>2, <2>3
  <2>13. T = K \cup AddedFiles(l, k, id)
    BY <1>3, <2>1, <2>4, <2>7
  <2> QED BY <2>11, <2>12, <2>13 DEF S, ms
<1>5. CASE l.compactions # {}
  <2>1. l.new_data_files = {} /\ l.dropped_tables = {} /\ l.dropped_files = {}
    BY <1>1, <1>5, CompactsOrNot
  <2>2. N = {}
    BY <2>1 DEF NewDataRows
  <2>3. S1 = S
    BY <2>1 DEF EndedTables
  <2>4. S3 = S
    BY <2>1, <2>2, <2>3 DEF EndedFiles
  <2> DEFINE S0 == WithoutIds(S, ms)
             K == EndedIds(S0, rs, k)
  <2>5. \A r \in M : r.id \in Nat /\ id <= r.id
    BY OutputFilesAre, NewIdsAre
  <2>6. \A i \in rs : i \in Nat /\ i < id
    <3> SUFFICES ASSUME NEW x \in l.compactions, NEW f \in x.sources PROVE f.id \in Nat /\ f.id < id
      BY DEF SourceIds, SourceFiles
    <3>1. PICK g \in S : g.id = f.id
      BY DEF SourcesLive
    <3> QED BY <1>1, <3>1
  <2>7. EndedIds(M, rs, k) = M
    <3>1. id \in Nat
      BY DEF CommitArguments
    <3>2. \A r \in M : r.id \notin rs
      BY <2>5, <2>6, <3>1
    <3> HIDE DEF M, rs
    <3> QED BY <3>2 DEF EndedIds
  <2>8. S6 = K \cup M
    <3>1. S4 = S0
      BY <2>4
    <3> HIDE DEF S4, S0, M, rs
    <3>2. EndedIds(S0 \cup M, rs, k) = EndedIds(S0, rs, k) \cup EndedIds(M, rs, k)
      BY DEF EndedIds
    <3> QED BY <2>7, <3>1, <3>2
  <2>9. \A f \in S : f.id \in rs => f.end = Null /\ <<"rewrite_delete", f.table>> \in changes
    <3> SUFFICES ASSUME NEW g \in S, NEW x \in l.compactions, x.type = "rewrite", NEW f \in x.sources, g.id = f.id
                 PROVE  g.end = Null /\ <<"rewrite_delete", g.table>> \in changes
      BY DEF SourceIds, SourceFiles
    <3>1. g.end = Null /\ g.table = x.table
      BY DEF SourcesLive
    <3>2. <<"rewrite_delete", x.table>> \in changes
      BY <1>1, RecordedChangesOf
    <3> QED BY <3>1, <3>2
  <2>10. S0 \subseteq S
    BY DEF WithoutIds
  <2> HIDE DEF S, S0, rs, S6, M, R, N
  <2>11. KeptRows(S0, K, k, changes)
    BY <1>1, <1>2, <2>9, <2>10, KeptEndedIds
  <2>12. T = K \cup AddedFiles(l, k, id)
    <3> HIDE DEF K
    <3> QED BY <1>0, <1>3, <2>2, <2>8
  <2> QED BY <2>11, <2>12 DEF S0, S, ms
<1> QED BY <1>4, <1>5

\* The delete files after a commit: the old ones, some ended, and the new ones.
LEMMA DeletesOfCommit ==
    ASSUME NEW l, NEW k, NEW id, CommitArguments(l, k, id), ~MixesCompaction(TransactionChanges(l)),
           \A x \in l.new_delete_files : x.overwritten = {},
           NEW m0, GoodMetadata(m0, id), SourcesLive(m0, l),
           NEW changes, changes = WriteSnapshotChanges(TransactionChanges(l)),
           NEW T, T = DeletesAfter(m0.delete_file, l, k, id)
    PROVE  \E K : /\ T = K \cup AddedDeletes(l, k, id)
                  /\ KeptRows(m0.delete_file, K, k, changes)
<1> DEFINE S == m0.delete_file
           N == AddedDeletes(l, k, id)
           ms == SourceIds(l, "merge")
           rd == RewrittenDeletes(l)
           old == OverwrittenIds(l)
           S1 == EndedTables(S, l.dropped_tables, k)
           S2 == WithoutIds(S1, old)
           S3 == S2 \cup N
           S4 == WithoutFiles(S3, ms)
<1>0. T = EndedIds(S4, rd, k)
  <2>1. S3 = (S2 \cup NewDeleteRows(l, k, id)) \cup NewFileDeleteRows(l, k, id)
    BY DEF AddedDeletes
  <2> HIDE DEF S2, S3
  <2> QED BY <2>1 DEF DeletesAfter, S2
<1>1. /\ TypedChanges(l) /\ k \in Nat /\ k # Null
      /\ \A f \in S : DOMAIN f = DeleteFields
  BY DEF CommitArguments, GoodChanges, GoodMetadata, Null
<1>2. \A f \in S : {"end", "table"} \subseteq DOMAIN f
  BY <1>1 DEF DeleteFields
<1>3. OverwrittenBy(l) = {}
  BY DEF OverwrittenBy
<1>4. old = {}
  BY <1>3 DEF OverwrittenIds
<1>5. S2 = S1
  BY <1>4 DEF WithoutIds
<1>6. \A X : WithoutFiles(X, {}) = X /\ EndedIds(X, {}, k) = X
  BY DEF WithoutFiles, EndedIds
<1>7. CASE l.compactions = {}
  <2>1. ms = {}
    BY <1>7 DEF SourceIds, SourceFiles
  <2>2. rd = {}
    BY <1>7 DEF RewrittenDeletes
  <2>3. T = S1 \cup N
    <3> HIDE DEF S1, N, ms, rd, S2
    <3> QED BY <1>0, <1>5, <1>6, <2>1, <2>2
  <2>4. KeptRows(S, S1, k, changes)
    BY <1>1, <1>2, RecordedChangesOf, KeptEndedTables
  <2> QED BY <2>3, <2>4
<1>8. CASE l.compactions # {}
  <2>1. l.new_data_files = {} /\ l.dropped_tables = {} /\ l.new_delete_files = {}
    BY <1>1, <1>8, CompactsOrNot
  <2>2. N = {}
    BY <2>1 DEF AddedDeletes, NewDeleteRows, NewFileDeleteRows
  <2>3. S1 = S
    BY <2>1 DEF EndedTables
  <2>4. S4 = S
    <3>1. \A d \in S : d.file \notin ms
      BY DEF SourcesLive
    <3>2. S3 = S
      BY <1>5, <2>2, <2>3
    <3> HIDE DEF S3
    <3> QED BY <3>1, <3>2 DEF WithoutFiles
  <2>5. \A e \in S : e.id \in rd => e.end = Null /\ <<"rewrite_delete", e.table>> \in changes
    <3> SUFFICES ASSUME NEW e \in S, NEW x \in l.compactions, NEW d \in x.deletes, e.id = d.id
                 PROVE  e.end = Null /\ <<"rewrite_delete", e.table>> \in changes
      BY DEF RewrittenDeletes
    <3>1. e.end = Null /\ e.table = x.table
      BY DEF SourcesLive
    <3>2. x.type = "rewrite"
      BY <1>1 DEF SourcesLive, TypedChanges
    <3>3. <<"rewrite_delete", x.table>> \in changes
      BY <1>1, <3>2, RecordedChangesOf
    <3> QED BY <3>1, <3>3
  <2> DEFINE K == EndedIds(S, rd, k)
  <2> HIDE DEF S, N, rd, S4
  <2>6. KeptRows(S, K, k, changes)
    BY <1>1, <1>2, <2>5, KeptEndedIds
  <2>7. T = K \cup N
    BY <1>0, <2>2, <2>4
  <2> QED BY <2>6, <2>7 DEF S, N
<1> QED BY <1>7, <1>8

\* A commit of l as snapshot k takes the metadata m0 to m.
TimeStep(m0, m, l, k, id, changes) ==
    /\ \A g \in m.data_file : \/ \E f \in m0.data_file : f.id \notin SourceIds(l, "merge") /\ KeptUntil(f, g, k, changes)
                              \/ g \in AddedFiles(l, k, id)
    /\ \A f \in m0.data_file : f.id \notin SourceIds(l, "merge") => \E g \in m.data_file : KeptUntil(f, g, k, changes)
    /\ AddedFiles(l, k, id) \subseteq m.data_file
    /\ \A e \in m.delete_file : \/ \E d \in m0.delete_file : KeptUntil(d, e, k, changes)
                                \/ e \in AddedDeletes(l, k, id)
    /\ \A d \in m0.delete_file : \E e \in m.delete_file : KeptUntil(d, e, k, changes)
    /\ AddedDeletes(l, k, id) \subseteq m.delete_file
    /\ m.inlined_delete = m0.inlined_delete
    /\ m.table_end = TableEndsAfter(m0, l, k)

\* CommitMetadata takes such a step.
LEMMA CommitIsTimeStep ==
    ASSUME NEW l, NEW k, NEW id, CommitArguments(l, k, id), ~MixesCompaction(TransactionChanges(l)),
           \A x \in l.new_delete_files : x.overwritten = {}, l.inlined_file_deletes = {},
           NEW m0, GoodMetadata(m0, id), SourcesLive(m0, l), \A y \in l.dropped_files : y.file \in Nat /\ y.file < id,
           NEW changes, changes = WriteSnapshotChanges(TransactionChanges(l)),
           NEW m, m = CommitChanges(m0, l, k, id)
    PROVE  TimeStep(m0, m, l, k, id, changes)
<1>0. DOMAIN m0 = MetadataFields
  BY DEF GoodMetadata
<1>1. m.data_file = FilesAfter(m0.data_file, l, k, id) /\ m.delete_file = DeletesAfter(m0.delete_file, l, k, id)
  BY <1>0, CommitChangesFields
<1>2. m.inlined_delete = m0.inlined_delete /\ m.table_end = TableEndsAfter(m0, l, k)
  BY <1>0, CommitOtherFields
<1>3. PICK K : /\ m.data_file = K \cup AddedFiles(l, k, id)
               /\ KeptRows(WithoutIds(m0.data_file, SourceIds(l, "merge")), K, k, changes)
  BY <1>1, FilesOfCommit
<1>4. PICK D : /\ m.delete_file = D \cup AddedDeletes(l, k, id)
               /\ KeptRows(m0.delete_file, D, k, changes)
  BY <1>1, DeletesOfCommit
<1> QED
  BY <1>2, <1>3, <1>4 DEF TimeStep, KeptRows, WithoutIds

\* The state in which a transaction that sees v at snapshot s commits l after snapshot n.
CommitOK(v, s, m0, n, l, id) ==
    /\ n \in Nat \ {0} /\ s \in 1 .. n
    /\ CommitArguments(l, n + 1, id) /\ ~MixesCompaction(TransactionChanges(l))
    /\ MetadataOK(v, s) /\ MetadataOK(m0, n) /\ GoodMetadata(v, id) /\ GoodMetadata(m0, id)
    /\ ChangesOK(v, s, l) /\ ChangesRefer(v, s, l)
    /\ SourcesLive(m0, l)
    /\ CommitRefers(v, l, m0)
    /\ "delete_more" \notin Workload

\* The files that compactions produce.
LEMMA OutputFilesSet ==
    ASSUME NEW l, NEW type, NEW k, NEW id
    PROVE  OutputFiles(l, type, k, id) = {OutputRow(x, l, type, k, id) : x \in {y \in l.compactions : y.type = type /\ y.path # {}}}
BY DEF OutputFiles, OutputRow, OnlyPath, FirstOutputId

\* A data file stays well formed.
LEMMA FileOKLater ==
    ASSUME NEW f, NEW i \in Nat, NEW j \in Nat, i <= j, FileOK(f, i)
    PROVE  FileOK(f, j)
BY DEF FileOK

\* The snapshots of the rows that a merge reads.
LEMMA SnapshotsOfRows ==
    ASSUME NEW f, NEW i \in Nat, FileOK(f, i)
    PROVE  /\ LastSnapshot(f) \in f.begin .. i /\ LastSnapshot(f) # Null
           /\ \A q \in RowSnapshots(f) : /\ DOMAIN q = RowFields /\ q.row \in Paths \X Positions
                                         /\ q.snap \in f.begin .. LastSnapshot(f)
           /\ RowsOf(RowSnapshots(f)) = RowsOf(f.rows)
<1>1. f.begin \in Nat /\ f.begin # 0 /\ f.begin <= i
  BY DEF FileOK
<1>2. CASE f.partial_max # Null
  <2>1. RowSnapshots(f) = f.rows /\ LastSnapshot(f) = f.partial_max
    BY <1>2 DEF RowSnapshots, LastSnapshot
  <2> QED BY <1>1, <1>2, <2>1 DEF FileOK
<1>3. CASE f.partial_max = Null
  <2>1. RowSnapshots(f) = {[r EXCEPT !.snap = f.begin] : r \in f.rows} /\ LastSnapshot(f) = f.begin
    BY <1>3 DEF RowSnapshots, LastSnapshot
  <2>2. ASSUME NEW r \in f.rows
        PROVE  LET q == [r EXCEPT !.snap = f.begin] IN
               DOMAIN q = RowFields /\ q.row = r.row /\ q.snap = f.begin
    BY DEF FileOK, RowFields
  <2>3. \A r \in f.rows : r.row \in Paths \X Positions
    BY DEF FileOK
  <2>4. \A q \in RowSnapshots(f) : /\ DOMAIN q = RowFields /\ q.row \in Paths \X Positions /\ q.snap = f.begin
    BY <2>1, <2>2, <2>3, ZenonT(60)
  <2>5. RowsOf(RowSnapshots(f)) = RowsOf(f.rows)
    <3>1. ASSUME NEW r \in f.rows PROVE \E q \in RowSnapshots(f) : q.row = r.row
      BY <2>1, <2>2
    <3>2. ASSUME NEW q \in RowSnapshots(f) PROVE \E r \in f.rows : q.row = r.row
      BY <2>1, <2>2
    <3>3. \A x \in RowsOf(RowSnapshots(f)) : x \in RowsOf(f.rows)
      BY <3>2 DEF RowsOf
    <3>4. \A x \in RowsOf(f.rows) : x \in RowsOf(RowSnapshots(f))
      BY <3>1 DEF RowsOf
    <3> QED BY <3>3, <3>4
  <2>6. LastSnapshot(f) = f.begin /\ \A q \in RowSnapshots(f) : q.snap = f.begin
    BY <2>1, <2>4
  <2>7. f.begin \in f.begin .. i /\ f.begin \in f.begin .. f.begin /\ f.begin # Null
    BY <1>1 DEF Null
  <2> QED BY <2>4, <2>5, <2>6, <2>7
<1> QED BY <1>2, <1>3

\* A merged file covers the snapshots of its rows.
LEMMA MergedFileOK ==
    ASSUME NEW x, MergeOf(x), NEW i \in Nat, \A f \in x.sources : FileOK(f, i),
           NEW g, g.begin = x.begin, g.end = Null, g.partial_max = x.partial_max, g.rows = x.rows
    PROVE  FileOK(g, i) /\ RowSnapshots(g) = x.rows /\ g.partial_max # Null
<1>1. PICK f1 \in x.sources : x.begin = f1.begin
  BY DEF MergeOf
<1>2. PICK f2 \in x.sources : x.partial_max = LastSnapshot(f2)
  BY DEF MergeOf
<1>3. g.begin \in 1 .. i
  BY <1>1 DEF FileOK
<1>4. LastSnapshot(f2) \in f2.begin .. i /\ LastSnapshot(f2) # Null /\ f2.begin \in 1 .. i
  BY <1>2, SnapshotsOfRows DEF FileOK
<1>5. g.begin <= f2.begin
  BY DEF MergeOf
<1>6. g.partial_max \in g.begin .. i /\ g.partial_max # Null
  BY <1>2, <1>3, <1>4, <1>5
<1>7. ASSUME NEW q \in g.rows
      PROVE  DOMAIN q = RowFields /\ q.row \in Paths \X Positions /\ q.snap \in g.begin .. g.partial_max
  <2>1. PICK f \in x.sources : q \in RowSnapshots(f)
    BY <1>7 DEF MergeOf
  <2>2. /\ DOMAIN q = RowFields /\ q.row \in Paths \X Positions /\ q.snap \in f.begin .. LastSnapshot(f)
        /\ LastSnapshot(f) \in f.begin .. i /\ f.begin \in 1 .. i
    BY <2>1, SnapshotsOfRows DEF FileOK
  <2>3. g.begin <= f.begin /\ LastSnapshot(f) <= g.partial_max
    BY DEF MergeOf
  <2> QED BY <1>3, <1>6, <2>2, <2>3
<1>8. RowSnapshots(g) = x.rows
  BY <1>6 DEF RowSnapshots
<1> QED
  BY <1>3, <1>6, <1>7, <1>8 DEF FileOK

\* The data files a commit adds are well formed.
LEMMA AddedFilesAre ==
    ASSUME NEW v, NEW s, NEW m0, NEW n, NEW l, NEW id, CommitOK(v, s, m0, n, l, id),
           NEW g \in AddedFiles(l, n + 1, id)
    PROVE  /\ DOMAIN g = FileFields /\ g.id \in Nat /\ id <= g.id /\ g.end = Null
           /\ FileOK(g, n + 1)
           /\ \/ /\ g.begin = n + 1 /\ g.partial_max = Null
                 /\ \E y \in l.new_data_files : /\ g = NewDataRow(y, l, n + 1, id) /\ g.table = y.table
                                                /\ g.rows = {[row |-> r, snap |-> Null] : r \in y.rows}
              \/ /\ g.begin = n + 1 /\ g.partial_max = Null
                 /\ \E x \in l.compactions : x.type = "rewrite" /\ g.table = x.table /\ g.rows = x.rows /\ x.path # {}
              \/ /\ g.partial_max # Null /\ RowSnapshots(g) = g.rows
                 /\ \E x \in l.compactions : x.type = "merge" /\ g.table = x.table /\ g.rows = x.rows
<1> DEFINE k == n + 1
<1>0. /\ n \in Nat \ {0} /\ s \in 1 .. n /\ k \in Nat \ {0}
      /\ CommitArguments(l, k, id) /\ LocalPaths(l) \subseteq Paths
  BY DEF CommitOK, CommitArguments
<1>1. /\ \A r \in NewDataRows(l, k, id) : DOMAIN r = FileFields /\ r.id \in NewIds(l, id)
      /\ \A r \in OutputFiles(l, "merge", k, id) \cup OutputFiles(l, "rewrite", k, id) : DOMAIN r = FileFields /\ r.id \in NewIds(l, id)
  BY <1>0, NewDataRowsAre, OutputFilesAre
<1>2. \A i \in NewIds(l, id) : i \in Nat /\ id <= i
  BY <1>0, NewIdsAre
<1>3. DOMAIN g = FileFields /\ g.id \in Nat /\ id <= g.id
  BY <1>1, <1>2 DEF AddedFiles
<1>4. CASE g \in NewDataRows(l, k, id)
  <2>1. PICK y \in l.new_data_files : g = NewDataRow(y, l, k, id)
    BY <1>4 DEF NewDataRows
  <2>2. /\ g.end = Null /\ g.begin = k /\ g.partial_max = Null /\ g.table = y.table
        /\ g.rows = {[row |-> r, snap |-> Null] : r \in y.rows}
    BY <2>1 DEF NewDataRow
  <2>3. y.rows = {y.path} \X Positions /\ y.path \in Paths
    BY <1>0 DEF CommitOK, ChangesOK, NewFilesOK, LocalPaths, DataPaths
  <2>4. \A r \in y.rows : r \in Paths \X Positions
    BY <2>3
  <2>5. \A q \in g.rows : DOMAIN q = RowFields /\ q.row \in Paths \X Positions
    BY <2>2, <2>4 DEF RowFields
  <2>6. FileOK(g, k)
    BY <1>0, <2>2, <2>5 DEF FileOK
  <2> QED BY <1>3, <2>1, <2>2, <2>6
<1>5. CASE g \in OutputFiles(l, "rewrite", k, id)
  <2>1. PICK x \in l.compactions : x.type = "rewrite" /\ x.path # {} /\ g = OutputRow(x, l, "rewrite", k, id)
    BY <1>5, OutputFilesSet
  <2>2. RewriteOf(v, x)
    BY <2>1 DEF CommitOK, ChangesOK, CompactionsOK
  <2>3. /\ g.end = Null /\ g.begin = k /\ g.partial_max = Null /\ g.table = x.table /\ g.rows = x.rows
    BY <2>1, <2>2 DEF OutputRow, RewriteOf
  <2>4. ASSUME NEW q \in g.rows PROVE DOMAIN q = RowFields /\ q.row \in Paths \X Positions
    <3>1. PICK f \in x.sources : \E r \in Undeleted(v, f) : q = [r EXCEPT !.snap = Null]
      BY <2>2, <2>3 DEF RewriteOf
    <3>2. PICK r \in f.rows : q = [r EXCEPT !.snap = Null]
      BY <3>1 DEF Undeleted
    <3>3. f \in v.data_file
      BY DEF CommitOK, ChangesRefer, CompactionsRefer
    <3>4. DOMAIN r = RowFields /\ r.row \in Paths \X Positions
      BY <3>3 DEF CommitOK, MetadataOK, FileOK
    <3> QED BY <3>2, <3>4 DEF RowFields
  <2>5. FileOK(g, k)
    BY <1>0, <2>3, <2>4 DEF FileOK
  <2> QED BY <1>3, <2>1, <2>3, <2>5
<1>6. CASE g \in OutputFiles(l, "merge", k, id)
  <2>1. PICK x \in l.compactions : x.type = "merge" /\ g = OutputRow(x, l, "merge", k, id)
    BY <1>6, OutputFilesSet
  <2>2. MergeOf(x)
    BY <2>1 DEF CommitOK, ChangesOK, CompactionsOK
  <2>3. /\ g.end = Null /\ g.begin = x.begin /\ g.partial_max = x.partial_max /\ g.table = x.table /\ g.rows = x.rows
    BY <2>1 DEF OutputRow
  <2>4. \A f \in x.sources : FileOK(f, k)
    <3> SUFFICES ASSUME NEW f \in x.sources PROVE FileOK(f, k)
      OBVIOUS
    <3>1. f \in v.data_file
      BY DEF CommitOK, ChangesRefer, CompactionsRefer
    <3>2. FileOK(f, s) /\ s \in Nat /\ s <= k
      BY <1>0, <3>1 DEF CommitOK, MetadataOK
    <3> QED BY <1>0, <3>2, FileOKLater
  <2>5. FileOK(g, k) /\ RowSnapshots(g) = x.rows /\ g.partial_max # Null
    BY <1>0, <2>2, <2>3, <2>4, MergedFileOK
  <2> QED BY <1>3, <2>1, <2>3, <2>5
<1> QED BY <1>4, <1>5, <1>6 DEF AddedFiles

\* The delete files a commit adds are well formed, and of a file that is visible.
LEMMA AddedDeletesAre ==
    ASSUME NEW v, NEW s, NEW m0, NEW n, NEW l, NEW id, CommitOK(v, s, m0, n, l, id),
           NEW e \in AddedDeletes(l, n + 1, id)
    PROVE  /\ DOMAIN e = DeleteFields /\ e.id \in Nat /\ id <= e.id /\ e.end = Null /\ e.begin = n + 1
           /\ DeleteOK(e, n + 1)
           /\ \/ \E x \in l.new_delete_files : e.file = x.file /\ e.table = x.table /\ e.positions = x.positions
              \/ \E y \in l.new_data_files : LET g == NewDataRow(y, l, n + 1, id) IN
                    /\ e.file = g.id /\ e.table = g.table /\ g \in AddedFiles(l, n + 1, id)
                    /\ RowsOf(e.positions) = y.deleted /\ y.delete_path # {}
<1> DEFINE k == n + 1
<1>0. /\ n \in Nat \ {0} /\ k \in Nat \ {0}
      /\ CommitArguments(l, k, id)
  BY DEF CommitOK, CommitArguments
<1>1. DOMAIN e = DeleteFields /\ e.id \in NewIds(l, id)
  BY <1>0, NewDeleteRowsAre
<1>2. e.id \in Nat /\ id <= e.id
  BY <1>0, <1>1, NewIdsAre
<1>3. CASE e \in NewDeleteRows(l, k, id)
  <2>1. PICK x \in l.new_delete_files : e = NewDeleteRow(x, l, k, id)
    BY <1>3 DEF NewDeleteRows
  <2>2. x.begin = Null /\ \A p \in x.positions : p.snap = Null /\ DOMAIN p = RowFields
    BY DEF CommitOK, ChangesRefer, DeletesRefer, DeleteRefers, ChangesOK, DeletesOK
  <2>3. e.end = Null /\ e.begin = k /\ e.file = x.file /\ e.table = x.table /\ e.positions = x.positions
    BY <2>1, <2>2 DEF NewDeleteRow
  <2>4. DeleteOK(e, k)
    BY <1>0, <2>2, <2>3 DEF DeleteOK
  <2> QED BY <1>1, <1>2, <2>3, <2>4
<1>4. CASE e \in NewFileDeleteRows(l, k, id)
  <2>1. PICK y \in l.new_data_files : y.delete_path # {} /\ e = NewFileDeleteRow(y, l, k, id)
    BY <1>4 DEF NewFileDeleteRows
  <2> DEFINE g == NewDataRow(y, l, k, id)
  <2>2. /\ e.end = Null /\ e.begin = k /\ e.file = IdOf(y.path, DataPaths(l), id) /\ e.table = y.table
        /\ e.positions = {[row |-> r, snap |-> Null] : r \in y.deleted}
    BY <2>1 DEF NewFileDeleteRow
  <2>3. g.id = IdOf(y.path, DataPaths(l), id) /\ g.table = y.table
    BY DEF NewDataRow
  <2>4. g \in AddedFiles(l, k, id)
    BY DEF AddedFiles, NewDataRows
  <2>5. \A p \in e.positions : DOMAIN p = RowFields /\ p.snap = Null
    BY <2>2 DEF RowFields
  <2>6. DeleteOK(e, k)
    BY <1>0, <2>2, <2>5 DEF DeleteOK
  <2>7. RowsOf(e.positions) = y.deleted
    <3>1. \A r : [row |-> r, snap |-> Null].row = r
      OBVIOUS
    <3>2. ASSUME NEW r \in y.deleted PROVE \E p \in e.positions : p.row = r
      BY <2>2, <3>1
    <3>3. ASSUME NEW p \in e.positions PROVE p.row \in y.deleted
      BY <2>2, <3>1
    <3> QED BY <3>2, <3>3, Zenon DEF RowsOf
  <2> QED BY <1>1, <1>2, <2>1, <2>2, <2>3, <2>4, <2>6, <2>7
<1> QED BY <1>3, <1>4 DEF AddedDeletes

\* A commit, with what is known of it.
Commits(v, s, m0, n, l, id, m, changes) ==
    /\ CommitOK(v, s, m0, n, l, id)
    /\ TimeStep(m0, m, l, n + 1, id, changes)
    /\ changes = WriteSnapshotChanges(TransactionChanges(l))
    /\ \E next : GoodMetadata(m, next)

\* A kept data file stays well formed.
LEMMA KeptFileFields ==
    ASSUME NEW f, DOMAIN f = FileFields, NEW g, NEW k, NEW changes, KeptUntil(f, g, k, changes)
    PROVE  /\ DOMAIN g = FileFields /\ g.id = f.id /\ g.table = f.table /\ g.rows = f.rows /\ g.begin = f.begin
           /\ g.partial_max = f.partial_max /\ (g.end = f.end \/ (f.end = Null /\ g.end = k))
           /\ RowSnapshots(g) = RowSnapshots(f) /\ \A s : RowsAt(g, s) = RowsAt(f, s)
<1>1. /\ DOMAIN g = FileFields /\ g.id = f.id /\ g.table = f.table /\ g.rows = f.rows /\ g.begin = f.begin
      /\ g.partial_max = f.partial_max /\ (g.end = f.end \/ (f.end = Null /\ g.end = k))
  BY DEF KeptUntil, FileFields
<1> QED BY <1>1 DEF RowSnapshots, RowsAt

\* A kept delete file stays well formed.
LEMMA KeptDeleteFields ==
    ASSUME NEW d, DOMAIN d = DeleteFields, NEW e, NEW k, NEW changes, KeptUntil(d, e, k, changes)
    PROVE  /\ DOMAIN e = DeleteFields /\ e.id = d.id /\ e.file = d.file /\ e.table = d.table
           /\ e.positions = d.positions /\ e.begin = d.begin /\ (e.end = d.end \/ (d.end = Null /\ e.end = k))
BY DEF KeptUntil, DeleteFields

\* The metadata after a commit are well formed.
LEMMA CommitMetadataOK ==
    ASSUME NEW v, NEW s, NEW m0, NEW n, NEW l, NEW id, NEW m, NEW changes, Commits(v, s, m0, n, l, id, m, changes)
    PROVE  MetadataOK(m, n + 1)
<1> DEFINE k == n + 1
<1>0. /\ n \in Nat /\ k \in Nat /\ k \in 1 .. k /\ n <= k /\ id \in Nat
      /\ CommitOK(v, s, m0, n, l, id) /\ TimeStep(m0, m, l, k, id, changes)
      /\ MetadataOK(m0, n) /\ GoodMetadata(m0, id) /\ UniqueIds(m.data_file)
  BY DEF Commits, CommitOK, CommitArguments, GoodMetadata
<1> HIDE DEF k
<1>1. ASSUME NEW g \in m.data_file PROVE FileOK(g, k)
  <2>1. CASE g \in AddedFiles(l, k, id)
    BY <1>0, <2>1, AddedFilesAre DEF k
  <2>2. ASSUME NEW f \in m0.data_file, KeptUntil(f, g, k, changes) PROVE FileOK(g, k)
    <3>1. FileOK(f, k) /\ DOMAIN f = FileFields
      BY <1>0, FileOKLater DEF MetadataOK, GoodMetadata
    <3>2. /\ g.rows = f.rows /\ g.begin = f.begin
          /\ g.partial_max = f.partial_max /\ (g.end = f.end \/ (f.end = Null /\ g.end = k))
      BY <2>2, <3>1, KeptFileFields
    <3> QED BY <1>0, <3>1, <3>2 DEF FileOK
  <2> QED BY <1>0, <2>1, <2>2 DEF TimeStep
<1>2. ASSUME NEW e \in m.delete_file PROVE DeleteOK(e, k)
  <2>1. CASE e \in AddedDeletes(l, k, id)
    BY <1>0, <2>1, AddedDeletesAre DEF k
  <2>2. ASSUME NEW d \in m0.delete_file, KeptUntil(d, e, k, changes) PROVE DeleteOK(e, k)
    <3>1. DeleteOK(d, n) /\ DOMAIN d = DeleteFields
      BY <1>0 DEF MetadataOK, GoodMetadata
    <3>2. /\ e.positions = d.positions /\ e.begin = d.begin
          /\ (e.end = d.end \/ (d.end = Null /\ e.end = k))
      BY <2>2, <3>1, KeptDeleteFields
    <3> QED BY <1>0, <3>1, <3>2 DEF DeleteOK
  <2> QED BY <1>0, <2>1, <2>2 DEF TimeStep
<1>3. ASSUME NEW e \in m.delete_file, NEW g \in m.data_file, g.id = e.file PROVE g.table = e.table
  <2>1. CASE \E f \in m0.data_file : KeptUntil(f, g, k, changes)
    <3>1. PICK f \in m0.data_file : KeptUntil(f, g, k, changes)
      BY <2>1
    <3>2. g.id = f.id /\ g.table = f.table /\ f.id \in Nat /\ f.id < id
      BY <1>0, <3>1, KeptFileFields DEF GoodMetadata
    <3>3. ASSUME NEW d \in m0.delete_file, KeptUntil(d, e, k, changes) PROVE g.table = e.table
      <4>1. e.file = d.file /\ e.table = d.table
        BY <1>0, <3>3, KeptDeleteFields DEF GoodMetadata
      <4> QED BY <1>0, <1>3, <3>2, <4>1 DEF MetadataOK
    <3>4. CASE e \in AddedDeletes(l, k, id)
      <4>1. ASSUME NEW x \in l.new_delete_files, e.file = x.file, e.table = x.table PROVE g.table = e.table
        <5>1. CommitRefers(v, l, m0)
          BY <1>0 DEF CommitOK
        <5>2. PICK h \in v.data_file : h.id = x.file /\ h.table = x.table
          BY <5>1 DEF CommitRefers
        <5>0. f.id = h.id
          BY <1>3, <3>2, <4>1, <5>2
        <5>3. f.table = h.table
          BY <5>0, <5>1 DEF CommitRefers
        <5> QED BY <3>2, <4>1, <5>2, <5>3
      <4>2. ASSUME NEW y, NEW h, h = NewDataRow(y, l, k, id), e.file = h.id, h \in AddedFiles(l, k, id) PROVE FALSE
        <5>1. h.id \in Nat /\ id <= h.id
          BY <1>0, <4>2, AddedFilesAre DEF k
        <5>2. h.id = f.id
          BY <1>3, <3>2, <4>2
        <5>3. id \in Nat
          BY <1>0
        <5> QED BY <3>2, <5>1, <5>2, <5>3
      <4> QED BY <1>0, <3>4, <4>1, <4>2, AddedDeletesAre DEF k
    <3> QED BY <1>0, <3>3, <3>4 DEF TimeStep
  <2>2. CASE g \in AddedFiles(l, k, id)
    <3>1. g.id \in Nat /\ id <= g.id
      BY <1>0, <2>2, AddedFilesAre DEF k
    <3>2. ASSUME NEW d \in m0.delete_file, KeptUntil(d, e, k, changes) PROVE FALSE
      <4>1. e.file = d.file /\ d.file \in Nat /\ d.file < id
        BY <1>0, <3>2, KeptDeleteFields DEF GoodMetadata
      <4> QED BY <1>0, <1>3, <3>1, <4>1
    <3>3. CASE e \in AddedDeletes(l, k, id)
      <4>1. ASSUME NEW x \in l.new_delete_files, e.file = x.file PROVE FALSE
        <5>1. CommitRefers(v, l, m0) /\ GoodMetadata(v, id)
          BY <1>0 DEF CommitOK
        <5>2. PICK h \in v.data_file : h.id = x.file
          BY <5>1 DEF CommitRefers
        <5>3. h.id \in Nat /\ h.id < id
          BY <5>1 DEF GoodMetadata
        <5> QED BY <1>0, <1>3, <3>1, <4>1, <5>2, <5>3
      <4>2. ASSUME NEW y, NEW h, h = NewDataRow(y, l, k, id), e.file = h.id, e.table = h.table,
                   h \in AddedFiles(l, k, id)
            PROVE  g.table = e.table
        <5>1. h \in m.data_file
          BY <1>0, <4>2 DEF TimeStep
        <5>2. h = g
          BY <1>0, <1>3, <4>2, <5>1 DEF UniqueIds
        <5> QED BY <4>2, <5>2
      <4> QED BY <1>0, <3>3, <4>1, <4>2, AddedDeletesAre DEF k
    <3> QED BY <1>0, <3>2, <3>3 DEF TimeStep
  <2> QED BY <1>0, <2>1, <2>2 DEF TimeStep
<1>4. m.inlined_delete = {} /\ m.table_end = TableEndsAfter(m0, l, k)
  BY <1>0 DEF TimeStep, MetadataOK
<1>5. /\ m.table_end = [t \in Tables |-> m.table_end[t]]
      /\ \A t \in Tables : m.table_end[t] = Null \/ m.table_end[t] \in 1 .. k
  BY <1>0, <1>4 DEF MetadataOK, TableEndsAfter
<1> QED
  BY <1>1, <1>2, <1>3, <1>4, <1>5 DEF MetadataOK, k

----------------------------------------------------------------------------
(* The history.                                                            *)

\* Nothing has happened between a snapshot and itself.
LEMMA FollowsReflexive ==
    ASSUME NEW m, NEW next, GoodMetadata(m, next), NEW i, NEW s
    PROVE  Follows(m, m, i, i, s)
BY DEF Follows, SameUntilEnd, GoodMetadata, UniqueIds

\* A step that writes no metadata.
LEMMA FollowsSame ==
    ASSUME NEW i \in Nat, NEW j \in Nat, NEW s, NEW r, \A k \in 1 .. j : r[k] = s[k],
           NEW m, NEW n, Follows(m, n, i, j, s)
    PROVE  Follows(m, n, i, j, r)
<1>1. \A kind, t : Between(kind, t, i, j, s) => Between(kind, t, i, j, r)
  BY DEF Between
<1> QED
  BY <1>1 DEF Follows, SameUntilEnd

\* A row over one more commit.
LEMMA SameUntilNext ==
    ASSUME NEW i \in Nat, NEW n \in Nat, i <= n, NEW s, NEW r, \A k \in 1 .. n : r[k] = s[k],
           NEW x, {"end", "table"} \subseteq DOMAIN x, NEW y, NEW z,
           SameUntilEnd(x, y, i, n, s), KeptUntil(y, z, n + 1, r[n + 1].changes)
    PROVE  SameUntilEnd(x, z, i, n + 1, r)
<1>1. y.table = x.table /\ DOMAIN z = DOMAIN x /\ \A a \in DOMAIN x \ {"end"} : z[a] = x[a]
  BY DEF SameUntilEnd, KeptUntil
<1>2. \A kind : Between(kind, x.table, i, n, s) => Between(kind, x.table, i, n + 1, r)
  BY BetweenGrows
<1>3. \A kind : <<kind, x.table>> \in r[n + 1].changes => Between(kind, x.table, i, n + 1, r)
  BY BetweenGrows
<1>4. CASE y.end = x.end /\ z.end = y.end
  BY <1>1, <1>4 DEF SameUntilEnd
<1>5. CASE y.end = x.end /\ z.end # y.end
  <2>1. x.end = Null /\ z.end = n + 1 /\ \E kind \in EndKinds : <<kind, x.table>> \in r[n + 1].changes
    BY <1>1, <1>5 DEF KeptUntil
  <2> QED BY <1>1, <1>3, <2>1 DEF SameUntilEnd
<1>6. CASE y.end # x.end
  <2>1. /\ x.end = Null /\ y.end \in (i + 1) .. n /\ \E kind \in EndKinds : Between(kind, x.table, i, n, s)
    BY <1>6 DEF SameUntilEnd
  <2>2. z.end = y.end
    BY <2>1 DEF KeptUntil, Null
  <2> QED BY <1>1, <1>2, <2>1, <2>2 DEF SameUntilEnd
<1> QED BY <1>4, <1>5, <1>6

\* The metadata over one more commit.
LEMMA FollowsNext ==
    ASSUME NEW v, NEW s0, NEW m0, NEW n, NEW l, NEW id, NEW m, NEW s, NEW r,
           \A k \in 1 .. n : r[k] = s[k], Commits(v, s0, m0, n, l, id, m, r[n + 1].changes),
           NEW i \in Nat, i <= n, NEW w, GoodMetadata(w, id), Follows(w, m0, i, n, s)
    PROVE  Follows(w, m, i, n + 1, r)
<1> DEFINE k == n + 1
           changes == r[n + 1].changes
<1>0. /\ n \in Nat /\ k = n + 1 /\ id \in Nat /\ CommitOK(v, s0, m0, n, l, id) /\ TimeStep(m0, m, l, k, id, changes)
      /\ GoodMetadata(m0, id) /\ changes = WriteSnapshotChanges(TransactionChanges(l)) /\ TypedChanges(l)
      /\ changes = r[n + 1].changes
  BY DEF Commits, CommitOK, CommitArguments, GoodChanges
<1> HIDE DEF k, changes
<1>1. ASSUME NEW f \in w.data_file, NEW h \in m.data_file, f.id = h.id
      PROVE  SameUntilEnd(f, h, i, k, r)
  <2>0. DOMAIN f = FileFields /\ f.id \in Nat /\ f.id < id
    BY DEF GoodMetadata
  <2>1. h \notin AddedFiles(l, k, id)
    <3> SUFFICES ASSUME h \in AddedFiles(l, k, id) PROVE FALSE
      OBVIOUS
    <3>1. h.id \in Nat /\ id <= h.id
      BY <1>0, AddedFilesAre
    <3> QED BY <1>0, <1>1, <2>0, <3>1
  <2>2. PICK g \in m0.data_file : KeptUntil(g, h, k, changes)
    BY <1>0, <2>1 DEF TimeStep
  <2>3. g.id = f.id
    BY <1>0, <1>1, <2>2, KeptFileFields DEF GoodMetadata
  <2>4. SameUntilEnd(f, g, i, n, s)
    BY <2>3 DEF Follows
  <2>5. {"end", "table"} \subseteq DOMAIN f
    BY <2>0 DEF FileFields
  <2> QED BY <1>0, <2>2, <2>4, <2>5, SameUntilNext
<1>2. ASSUME NEW d \in w.delete_file, NEW e \in m.delete_file, d.id = e.id
      PROVE  SameUntilEnd(d, e, i, k, r)
  <2>0. DOMAIN d = DeleteFields /\ d.id \in Nat /\ d.id < id
    BY DEF GoodMetadata
  <2>1. e \notin AddedDeletes(l, k, id)
    <3> SUFFICES ASSUME e \in AddedDeletes(l, k, id) PROVE FALSE
      OBVIOUS
    <3>1. e.id \in Nat /\ id <= e.id
      BY <1>0, AddedDeletesAre
    <3> QED BY <1>0, <1>2, <2>0, <3>1
  <2>2. PICK c \in m0.delete_file : KeptUntil(c, e, k, changes)
    BY <1>0, <2>1 DEF TimeStep
  <2>3. c.id = d.id
    BY <1>0, <1>2, <2>2, KeptDeleteFields DEF GoodMetadata
  <2>4. SameUntilEnd(d, c, i, n, s)
    BY <2>3 DEF Follows
  <2>5. {"end", "table"} \subseteq DOMAIN d
    BY <2>0 DEF DeleteFields
  <2> QED BY <1>0, <2>2, <2>4, <2>5, SameUntilNext
<1>3. ASSUME NEW d \in w.delete_file PROVE \E e \in m.delete_file : e.id = d.id
  <2>1. PICK c \in m0.delete_file : c.id = d.id
    BY DEF Follows
  <2>2. PICK e \in m.delete_file : KeptUntil(c, e, k, changes)
    BY <1>0 DEF TimeStep
  <2> QED BY <1>0, <2>1, <2>2, KeptDeleteFields DEF GoodMetadata
<1>4. ASSUME NEW t \in Tables
      PROVE  \/ m.table_end[t] = w.table_end[t]
             \/ /\ w.table_end[t] = Null /\ m.table_end[t] \in (i + 1) .. k
                /\ Between("dropped_table", t, i, k, r)
  <2>1. m.table_end[t] = IF t \in l.dropped_tables /\ m0.table_end[t] = Null THEN k ELSE m0.table_end[t]
    BY <1>0 DEF TimeStep, TableEndsAfter
  <2>2. \/ m0.table_end[t] = w.table_end[t]
        \/ /\ w.table_end[t] = Null /\ m0.table_end[t] \in (i + 1) .. n
           /\ Between("dropped_table", t, i, n, s)
    BY DEF Follows
  <2>3. /\ Between("dropped_table", t, i, n, s) => Between("dropped_table", t, i, k, r)
        /\ <<"dropped_table", t>> \in r[k].changes => Between("dropped_table", t, i, k, r)
    BY <1>0, BetweenGrows
  <2>4. t \in l.dropped_tables => <<"dropped_table", t>> \in r[k].changes
    BY <1>0, RecordedChangesOf
  <2>5. k \in (i + 1) .. k /\ \A j \in (i + 1) .. n : j \in (i + 1) .. k /\ j # Null
    BY <1>0 DEF Null
  <2> QED BY <2>1, <2>2, <2>3, <2>4, <2>5
<1> QED
  BY <1>0, <1>1, <1>2, <1>3, <1>4 DEF Follows

\* The delete files that a scan of f at snapshot s applies.
DeletesAt(m, f, s) == {d \in m.delete_file : d.file = f.id /\ Visible(d, s)}

\* A scan of the file f at snapshot s returns the row r.
Shows(m, f, s, r) ==
    /\ Visible(f, s) /\ r \in RowsAt(f, s)
    /\ DeletesAt(m, f, s) = {} \/ \E d \in DeletesAt(m, f, s) : r \notin RowsOf(d.positions)

\* A table at a snapshot has the rows that the scans of its files return.
LEMMA ContentsMeaning ==
    ASSUME NEW m, NEW i, MetadataOK(m, i), NEW t \in Tables, NEW s \in Nat, TableExists(m, t, s)
    PROVE  \A r : r \in Contents(m, t, s) <=> \E f \in m.data_file : f.table = t /\ Shows(m, f, s, r)
<1> DEFINE Entries(f) == IF DeletesAt(m, f, s) = {} THEN {[file |-> f, delete |-> {}]}
                         ELSE {[file |-> f, delete |-> {d}] : d \in DeletesAt(m, f, s)}
           files == {g \in m.data_file : g.table = t /\ Visible(g, s)}
<1>1. FileList(m, t, s) = UNION {Entries(f) : f \in files}
  BY DEF FileList, DeletesAt
<1>2. \A f : InlinedAt(m, f, s) = {}
  BY DEF MetadataOK, InlinedAt
<1>3. ASSUME NEW f, NEW e, e = [file |-> f, delete |-> {}]
      PROVE  EntryRows(m, e, s) = RowsAt(f, s)
  <2>1. e.file = f /\ e.delete = {}
    BY <1>3
  <2> QED BY <1>2, <2>1 DEF EntryRows
<1>4. ASSUME NEW f, NEW d \in m.delete_file, NEW e, e = [file |-> f, delete |-> {d}]
      PROVE  EntryRows(m, e, s) = RowsAt(f, s) \ RowsOf(d.positions)
  <2>1. e.file = f /\ e.delete = {d}
    BY <1>4
  <2>2. DeletedAt(d.positions, s) = RowsOf(d.positions)
    BY PlainDeletions DEF MetadataOK, DeleteOK
  <2>3. UNION {DeletedAt(x.positions, s) : x \in e.delete} = DeletedAt(d.positions, s)
    BY <2>1
  <2> QED BY <1>2, <2>1, <2>2, <2>3 DEF EntryRows
<1>5. ASSUME NEW f \in files, NEW r
      PROVE  (\E e \in Entries(f) : r \in EntryRows(m, e, s)) <=> Shows(m, f, s, r)
  <2>1. CASE DeletesAt(m, f, s) = {}
    <3>1. Entries(f) = {[file |-> f, delete |-> {}]}
      BY <2>1
    <3> HIDE DEF Entries
    <3>2. (\E e \in Entries(f) : r \in EntryRows(m, e, s)) <=> r \in RowsAt(f, s)
      BY <1>3, <3>1
    <3> QED BY <2>1, <3>2 DEF Shows
  <2>2. CASE DeletesAt(m, f, s) # {}
    <3>1. Entries(f) = {[file |-> f, delete |-> {d}] : d \in DeletesAt(m, f, s)}
      BY <2>2
    <3> HIDE DEF Entries
    <3>2. \A d \in DeletesAt(m, f, s) : EntryRows(m, [file |-> f, delete |-> {d}], s) = RowsAt(f, s) \ RowsOf(d.positions)
      BY <1>4 DEF DeletesAt
    <3>3. (\E e \in Entries(f) : r \in EntryRows(m, e, s)) <=> \E d \in DeletesAt(m, f, s) : r \in RowsAt(f, s) \ RowsOf(d.positions)
      BY <3>1, <3>2
    <3> QED BY <2>2, <3>3 DEF Shows
  <2> QED BY <2>1, <2>2
<1>6. Contents(m, t, s) = UNION {EntryRows(m, e, s) : e \in FileList(m, t, s)}
  BY DEF Contents
<1> HIDE DEF Entries
<1>7. ASSUME NEW r PROVE r \in Contents(m, t, s) <=> \E f \in files : \E e \in Entries(f) : r \in EntryRows(m, e, s)
  <2>1. r \in Contents(m, t, s) <=> \E e \in FileList(m, t, s) : r \in EntryRows(m, e, s)
    BY <1>6
  <2>2. \A e : e \in FileList(m, t, s) <=> \E f \in files : e \in Entries(f)
    BY <1>1
  <2> QED BY <2>1, <2>2
<1> QED
  BY <1>5, <1>7 DEF Shows

\* The rows of a file at a snapshot.
LEMMA RowsMeaning ==
    ASSUME NEW f, NEW i \in Nat, FileOK(f, i), NEW s \in Nat, NEW r
    PROVE  (f.begin <= s /\ r \in RowsAt(f, s)) <=> \E q \in RowSnapshots(f) : q.row = r /\ q.snap <= s
<1>0. f.begin \in Nat
  BY DEF FileOK
<1>1. CASE f.partial_max # Null
  <2>1. RowSnapshots(f) = f.rows /\ f.partial_max \in Nat
    BY <1>1 DEF RowSnapshots, FileOK
  <2>2. \A q \in f.rows : q.snap \in Nat /\ f.begin <= q.snap /\ q.snap <= f.partial_max
    BY <1>0, <1>1 DEF FileOK
  <2>3. r \in RowsAt(f, s) <=> \E q \in f.rows : q.row = r /\ (f.partial_max > s => q.snap <= s)
    BY DEF RowsAt
  <2>4. \A q \in f.rows : (f.begin <= s /\ (f.partial_max > s => q.snap <= s)) <=> q.snap <= s
    BY <1>0, <2>1, <2>2
  <2> QED BY <2>1, <2>3, <2>4
<1>2. CASE f.partial_max = Null
  <2>1. RowSnapshots(f) = {[q EXCEPT !.snap = f.begin] : q \in f.rows}
    BY <1>2 DEF RowSnapshots
  <2>2. ASSUME NEW q \in f.rows, NEW p, p = [q EXCEPT !.snap = f.begin] PROVE p.row = q.row /\ p.snap = f.begin
    BY <2>2 DEF FileOK, RowFields
  <2>3. r \in RowsAt(f, s) <=> \E q \in f.rows : q.row = r
    BY <1>2 DEF RowsAt, Null
  <2>4. (\E q \in RowSnapshots(f) : q.row = r /\ q.snap <= s) <=> \E q \in f.rows : q.row = r /\ f.begin <= s
    BY <2>1, <2>2, ZenonT(60)
  <2> QED BY <2>3, <2>4
<1> QED BY <1>1, <1>2

\* A file that the commit keeps shows the same rows at the earlier snapshots.
LEMMA ShowsKept ==
    ASSUME NEW v, NEW s0, NEW m0, NEW n, NEW l, NEW id, NEW m, NEW changes, Commits(v, s0, m0, n, l, id, m, changes),
           NEW f \in m0.data_file, NEW g \in m.data_file, KeptUntil(f, g, n + 1, changes), NEW s \in 1 .. n, NEW r
    PROVE  Shows(m, g, s, r) <=> Shows(m0, f, s, r)
<1> DEFINE k == n + 1
<1>0. /\ n \in Nat /\ k \in Nat /\ s \in Nat /\ s < k /\ CommitOK(v, s0, m0, n, l, id) /\ TimeStep(m0, m, l, k, id, changes)
      /\ GoodMetadata(m0, id) /\ k = n + 1
  BY DEF Commits, CommitOK
<1> HIDE DEF k
<1>1. ASSUME NEW x, NEW y, y.begin = x.begin, y.end = x.end \/ (x.end = Null /\ y.end = k)
      PROVE  Visible(y, s) <=> Visible(x, s)
  BY <1>0, <1>1 DEF Visible
<1>2. /\ g.id = f.id /\ RowsAt(g, s) = RowsAt(f, s) /\ g.begin = f.begin /\ (g.end = f.end \/ (f.end = Null /\ g.end = k))
  BY <1>0, KeptFileFields DEF GoodMetadata
<1>3. Visible(g, s) <=> Visible(f, s)
  BY <1>1, <1>2
<1>4. ASSUME NEW d \in DeletesAt(m0, f, s) PROVE \E e \in DeletesAt(m, g, s) : e.positions = d.positions
  <2>1. d \in m0.delete_file /\ d.file = f.id /\ Visible(d, s)
    BY DEF DeletesAt
  <2>2. PICK e \in m.delete_file : KeptUntil(d, e, k, changes)
    BY <1>0, <2>1 DEF TimeStep
  <2>3. e.file = d.file /\ e.positions = d.positions /\ e.begin = d.begin /\ (e.end = d.end \/ (d.end = Null /\ e.end = k))
    BY <1>0, <2>1, <2>2, KeptDeleteFields DEF GoodMetadata
  <2>4. Visible(e, s)
    BY <1>1, <2>1, <2>3
  <2> QED BY <1>2, <2>1, <2>3, <2>4 DEF DeletesAt
<1>5. ASSUME NEW e \in DeletesAt(m, g, s) PROVE \E d \in DeletesAt(m0, f, s) : d.positions = e.positions
  <2>1. e \in m.delete_file /\ e.file = g.id /\ Visible(e, s)
    BY DEF DeletesAt
  <2>2. e \notin AddedDeletes(l, k, id)
    <3> SUFFICES ASSUME e \in AddedDeletes(l, k, id) PROVE FALSE
      OBVIOUS
    <3>1. e.begin = k
      BY <1>0, AddedDeletesAre
    <3> QED BY <1>0, <2>1, <3>1 DEF Visible
  <2>3. PICK d \in m0.delete_file : KeptUntil(d, e, k, changes)
    BY <1>0, <2>1, <2>2 DEF TimeStep
  <2>4. e.file = d.file /\ e.positions = d.positions /\ e.begin = d.begin /\ (e.end = d.end \/ (d.end = Null /\ e.end = k))
    BY <1>0, <2>3, KeptDeleteFields DEF GoodMetadata
  <2>5. Visible(d, s)
    BY <1>1, <2>1, <2>4
  <2> QED BY <1>2, <2>1, <2>4, <2>5 DEF DeletesAt
<1>6. DeletesAt(m0, f, s) = {} <=> DeletesAt(m, g, s) = {}
  BY <1>4, <1>5
<1>7. (\E d \in DeletesAt(m0, f, s) : r \notin RowsOf(d.positions)) <=> \E e \in DeletesAt(m, g, s) : r \notin RowsOf(e.positions)
  BY <1>4, <1>5
<1> QED
  BY <1>2, <1>3, <1>6, <1>7 DEF Shows

\* A merged file shows the rows that its sources showed, at every earlier snapshot.
LEMMA ShowsMerged ==
    ASSUME NEW v, NEW s0, NEW m0, NEW n, NEW l, NEW id, NEW m, NEW changes, Commits(v, s0, m0, n, l, id, m, changes),
           NEW x \in l.compactions, x.type = "merge", NEW g, g = OutputRow(x, l, "merge", n + 1, id),
           NEW s \in 1 .. n, NEW r
    PROVE  Shows(m, g, s, r) <=> \E f \in m0.data_file, h \in x.sources : f.id = h.id /\ Shows(m0, f, s, r)
<1> DEFINE k == n + 1
<1>0. /\ n \in Nat /\ k \in Nat /\ s \in Nat /\ s < k /\ CommitOK(v, s0, m0, n, l, id) /\ TimeStep(m0, m, l, k, id, changes)
      /\ GoodMetadata(m0, id) /\ k = n + 1 /\ id \in Nat /\ s0 \in Nat /\ SourcesLive(m0, l)
  BY DEF Commits, CommitOK, CommitArguments
<1>1. MergeOf(x)
  BY DEF Commits, CommitOK, ChangesOK, CompactionsOK
<1>2. g \in AddedFiles(l, k, id)
  <2>1. x.path # {}
    BY <1>1 DEF MergeOf
  <2>2. g \in OutputFiles(l, "merge", k, id)
    BY <2>1, OutputFilesSet
  <2> QED BY <2>2 DEF AddedFiles
<1> HIDE DEF k
<1>3. /\ FileOK(g, k) /\ g.id \in Nat /\ id <= g.id /\ g.end = Null
  BY <1>0, <1>2, AddedFilesAre
<1>4. /\ g.rows = x.rows /\ g.begin = x.begin /\ g.partial_max = x.partial_max
  BY DEF OutputRow
<1>5. \A h \in x.sources : h \in v.data_file /\ FileOK(h, s0) /\ h.id \in SourceIds(l, "merge")
  BY <1>0 DEF CommitOK, ChangesRefer, CompactionsRefer, MetadataOK, SourceIds, SourceFiles
<1>6. RowSnapshots(g) = UNION {RowSnapshots(h) : h \in x.sources}
  <2>1. \A h \in x.sources : FileOK(h, s0)
    BY <1>5
  <2>2. RowSnapshots(g) = x.rows
    BY <1>0, <1>1, <1>3, <1>4, <2>1, MergedFileOK
  <2> QED BY <1>1, <2>2 DEF MergeOf
<1>7. DeletesAt(m, g, s) = {}
  <2> SUFFICES ASSUME NEW e \in m.delete_file, e.file = g.id, Visible(e, s) PROVE FALSE
    BY DEF DeletesAt
  <2>1. e \notin AddedDeletes(l, k, id)
    <3> SUFFICES ASSUME e \in AddedDeletes(l, k, id) PROVE FALSE
      OBVIOUS
    <3>1. e.begin = k
      BY <1>0, AddedDeletesAre
    <3> QED BY <1>0, <3>1 DEF Visible
  <2>2. PICK d \in m0.delete_file : KeptUntil(d, e, k, changes)
    BY <1>0, <2>1 DEF TimeStep
  <2>3. e.file = d.file /\ d.file \in Nat /\ d.file < id
    BY <1>0, <2>2, KeptDeleteFields DEF GoodMetadata
  <2> QED BY <1>0, <1>3, <2>3
<1>8. Shows(m, g, s, r) <=> \E h \in x.sources : h.begin <= s /\ r \in RowsAt(h, s)
  <2>1. Shows(m, g, s, r) <=> (g.begin <= s /\ r \in RowsAt(g, s))
    BY <1>3, <1>7 DEF Shows, Visible
  <2>2. (g.begin <= s /\ r \in RowsAt(g, s)) <=> \E q \in RowSnapshots(g) : q.row = r /\ q.snap <= s
    BY <1>0, <1>3, RowsMeaning
  <2>3. \A h \in x.sources : (h.begin <= s /\ r \in RowsAt(h, s)) <=> \E q \in RowSnapshots(h) : q.row = r /\ q.snap <= s
    BY <1>0, <1>5, RowsMeaning
  <2>4. (\E q \in RowSnapshots(g) : q.row = r /\ q.snap <= s) <=> \E h \in x.sources : \E q \in RowSnapshots(h) : q.row = r /\ q.snap <= s
    BY <1>6
  <2> QED BY <2>1, <2>2, <2>3, <2>4
<1>9. ASSUME NEW h \in x.sources, NEW f \in m0.data_file, f.id = h.id
      PROVE  Shows(m0, f, s, r) <=> (h.begin <= s /\ r \in RowsAt(h, s))
  <2>1. f.end = Null /\ f.rows = h.rows /\ f.begin = h.begin /\ f.partial_max = h.partial_max
    BY <1>0, <1>9 DEF SourcesLive
  <2>2. RowsAt(f, s) = RowsAt(h, s)
    BY <2>1 DEF RowsAt
  <2>3. DeletesAt(m0, f, s) = {}
    BY <1>0, <1>5, <1>9 DEF SourcesLive, DeletesAt
  <2> QED BY <2>1, <2>2, <2>3 DEF Shows, Visible
<1>10. \A h \in x.sources : \E f \in m0.data_file : f.id = h.id
  BY <1>0 DEF SourcesLive
<1> QED
  BY <1>8, <1>9, <1>10

\* A commit drops no table of the past.
LEMMA TablesExistAsBefore ==
    ASSUME NEW v, NEW s0, NEW m0, NEW n, NEW l, NEW id, NEW m, NEW changes, Commits(v, s0, m0, n, l, id, m, changes),
           NEW t \in Tables, NEW s \in 1 .. n
    PROVE  TableExists(m, t, s) <=> TableExists(m0, t, s)
<1>1. /\ n \in Nat /\ TimeStep(m0, m, l, n + 1, id, changes)
  BY DEF Commits, CommitOK
<1>2. m.table_end[t] = IF t \in l.dropped_tables /\ m0.table_end[t] = Null THEN n + 1 ELSE m0.table_end[t]
  BY <1>1 DEF TimeStep, TableEndsAfter
<1>3. s < n + 1
  BY <1>1
<1> QED
  BY <1>2, <1>3 DEF TableExists

\* A commit keeps what every earlier snapshot contains.
LEMMA CommitKeepsContents ==
    ASSUME NEW v, NEW s0, NEW m0, NEW n, NEW l, NEW id, NEW m, NEW changes, Commits(v, s0, m0, n, l, id, m, changes),
           NEW t \in Tables, NEW s \in 1 .. n
    PROVE  Contents(m, t, s) = Contents(m0, t, s)
<1> DEFINE k == n + 1
<1>0. /\ n \in Nat /\ k \in Nat /\ s \in Nat /\ s < k /\ CommitOK(v, s0, m0, n, l, id) /\ TimeStep(m0, m, l, k, id, changes)
      /\ MetadataOK(m0, n) /\ GoodMetadata(m0, id) /\ SourcesLive(m0, l) /\ TypedChanges(l)
  BY DEF Commits, CommitOK, CommitArguments, GoodChanges
<1>1. MetadataOK(m, k)
  BY CommitMetadataOK
<1>2. TableExists(m, t, s) <=> TableExists(m0, t, s)
  BY TablesExistAsBefore
<1>3. CASE ~TableExists(m0, t, s)
  BY <1>2, <1>3 DEF Contents
<1>4. CASE TableExists(m0, t, s)
  <2>1. \A r : r \in Contents(m0, t, s) <=> \E f \in m0.data_file : f.table = t /\ Shows(m0, f, s, r)
    BY <1>0, <1>4, ContentsMeaning
  <2>2. \A r : r \in Contents(m, t, s) <=> \E f \in m.data_file : f.table = t /\ Shows(m, f, s, r)
    BY <1>0, <1>1, <1>2, <1>4, ContentsMeaning
  <2> HIDE DEF k
  <2>3. ASSUME NEW f \in m0.data_file, f.table = t, NEW r, Shows(m0, f, s, r)
        PROVE  \E g \in m.data_file : g.table = t /\ Shows(m, g, s, r)
    <3>1. CASE f.id \notin SourceIds(l, "merge")
      <4>1. PICK g \in m.data_file : KeptUntil(f, g, k, changes)
        BY <1>0, <3>1 DEF TimeStep
      <4>2. g.table = f.table
        BY <1>0, <4>1, KeptFileFields DEF GoodMetadata
      <4>3. Shows(m, g, s, r)
        BY <2>3, <4>1, ShowsKept DEF k
      <4> QED BY <2>3, <4>2, <4>3
    <3>2. CASE f.id \in SourceIds(l, "merge")
      <4>1. PICK x \in l.compactions : x.type = "merge" /\ \E h \in x.sources : h.id = f.id
        BY <3>2 DEF SourceIds, SourceFiles
      <4>2. PICK h \in x.sources : h.id = f.id
        BY <4>1
      <4> DEFINE g == OutputRow(x, l, "merge", k, id)
      <4>3. g.table = x.table
        BY DEF OutputRow
      <4>4. f.table = x.table
        BY <1>0, <4>2 DEF SourcesLive
      <4>5. g \in m.data_file
        <5>1. x.path # {}
          BY <1>0, <4>1 DEF CommitOK, ChangesOK, CompactionsOK, MergeOf
        <5>2. g \in OutputFiles(l, "merge", k, id)
          BY <4>1, <5>1, OutputFilesSet
        <5> QED BY <1>0, <5>2 DEF TimeStep, AddedFiles
      <4> HIDE DEF g
      <4>6. Shows(m, g, s, r)
        BY <2>3, <4>1, <4>2, ShowsMerged DEF g, k
      <4> QED BY <2>3, <4>3, <4>4, <4>5, <4>6
    <3> QED BY <3>1, <3>2
  <2>4. ASSUME NEW g \in m.data_file, g.table = t, NEW r, Shows(m, g, s, r)
        PROVE  \E f \in m0.data_file : f.table = t /\ Shows(m0, f, s, r)
    <3>1. ASSUME NEW f \in m0.data_file, KeptUntil(f, g, k, changes)
          PROVE  \E h \in m0.data_file : h.table = t /\ Shows(m0, h, s, r)
      <4>1. g.table = f.table
        BY <1>0, <3>1, KeptFileFields DEF GoodMetadata
      <4>2. Shows(m0, f, s, r)
        BY <2>4, <3>1, ShowsKept DEF k
      <4> QED BY <2>4, <4>1, <4>2
    <3>2. CASE g \in OutputFiles(l, "merge", k, id)
      <4>1. PICK x \in l.compactions : x.type = "merge" /\ g = OutputRow(x, l, "merge", k, id)
        BY <3>2, OutputFilesSet
      <4>2. g.table = x.table
        BY <4>1 DEF OutputRow
      <4>3. PICK f \in m0.data_file, h \in x.sources : f.id = h.id /\ Shows(m0, f, s, r)
        BY <2>4, <4>1, ShowsMerged DEF k
      <4>4. f.table = x.table
        BY <1>0, <4>3 DEF SourcesLive
      <4> QED BY <2>4, <4>2, <4>3, <4>4
    <3>3. CASE g \in NewDataRows(l, k, id) \cup OutputFiles(l, "rewrite", k, id)
      <4>1. g.begin = k
        <5>1. CASE g \in NewDataRows(l, k, id)
          BY <5>1 DEF NewDataRows, NewDataRow
        <5>2. CASE g \in OutputFiles(l, "rewrite", k, id)
          BY <5>2, OutputFilesSet DEF OutputRow
        <5> QED BY <3>3, <5>1, <5>2
      <4>2. g.begin <= s
        BY <2>4 DEF Shows, Visible
      <4> QED BY <1>0, <4>1, <4>2
    <3> QED BY <1>0, <3>1, <3>2, <3>3 DEF TimeStep, AddedFiles
  <2> QED BY <2>1, <2>2, <2>3, <2>4
<1> QED BY <1>3, <1>4

\* The changes that a compaction conflicts with.
CompactionsConflictWith == {"dropped_table", "deleted_from_table", "merge_adjacent", "rewrite_delete"}

\* The conflict rules have a rule for each of them.
LEMMA CompactionsConflict ==
    ASSUME NEW K \in {"merge_adjacent", "rewrite_delete"}, NEW J \in CompactionsConflictWith
    PROVE  <<K, J>> \in Rules
<1>1. <<K, J>> \in CompactionRules
  BY DEF CompactionRules, CompactionsConflictWith
<1> QED
  BY <1>1 DEF Rules

\* So while a compaction runs, nothing of the kind commits for its table.
LEMMA CompactedTablesRest ==
    ASSUME CheckedInv, NEW c \in Clients, Commit(c), NEW x \in local[c].compactions, NEW J \in CompactionsConflictWith
    PROVE  ~Between(J, x.table, txn[c].snap, Len(log), log)
<1>1. ClientInv(c)
  BY DEF CheckedInv, MetaInv, LocalInv
<1>2. TypedChanges(local[c]) /\ txn[c].changes = TransactionChanges(local[c])
  BY <1>1 DEF ClientInv, GoodChanges
<1>3. PICK K \in {"merge_adjacent", "rewrite_delete"} : <<K, x.table>> \in txn[c].changes
  BY <1>2, ChangesOf, SMTT(60) DEF TypedChanges
<1> QED
  BY <1>3, CompactionsConflict, NoConflictSince

\* Hence what it read is still so when it commits.
LEMMA SourcesAreLive ==
    ASSUME CheckedInv, TimeInv, NEW c \in Clients, Commit(c), NEW n, n = Len(log), NEW l, l = local[c]
    PROVE  SourcesLive(versions[n], l)
<1> DEFINE s == txn[c].snap
           v == versions[s]
           m == versions[n]
<1>0. s = txn[c].snap /\ v = versions[s] /\ m = versions[n] /\ v = View(c)
  BY DEF View
<1> HIDE DEF s, v, m
<1> DEFINE id == log[n].next_file_id
<1>a. n \in Nat \ {0} /\ s \in 1 .. n /\ ChangesRefer(v, s, l) /\ CommitArguments(l, n + 1, id) /\ GoodMetadata(v, id)
  <2>1. /\ n \in Nat \ {0} /\ s \in 1 .. n /\ ChangesRefer(versions[s], s, l) /\ CommitArguments(l, n + 1, id)
        /\ GoodMetadata(versions[s], id)
    BY <1>0, CommitOfClient, ZenonT(60) DEF CheckedInv
  <2> QED BY <1>0, <2>1
<1>b. s \in Nat /\ s <= n /\ n \in 1 .. n
  BY <1>a
<1> HIDE DEF id
<1>1. /\ n \in Nat \ {0} /\ s \in 1 .. n /\ s \in Nat /\ s <= n /\ n \in 1 .. n
      /\ ChangesRefer(v, s, l) /\ TypedChanges(l) /\ \E next : GoodMetadata(v, next)
  BY <1>a, <1>b DEF CommitArguments, GoodChanges
<1>2. ChangesOK(v, s, l) /\ MetadataOK(v, s) /\ Follows(v, m, s, n, log)
  BY <1>0, <1>1 DEF TimeInv
<1>3. FilesStay(v, m, s, n, log)
  BY <1>0, <1>1 DEF CheckedInv, MetaInv, HistoryInv, Later
<1>4. \A x \in l.compactions, J \in CompactionsConflictWith : ~Between(J, x.table, s, n, log)
  BY <1>0, CompactedTablesRest
<1>5. EndKinds \subseteq CompactionsConflictWith /\ "merge_adjacent" \in CompactionsConflictWith
  BY DEF EndKinds, CompactionsConflictWith
<1>6. ASSUME NEW x \in l.compactions, NEW f \in x.sources
      PROVE  /\ f.id \in Nat
             /\ \E g \in m.data_file : g.id = f.id
             /\ \A g \in m.data_file : g.id = f.id =>
                  /\ g.end = Null /\ g.table = x.table
                  /\ g.rows = f.rows /\ g.begin = f.begin /\ g.partial_max = f.partial_max
  <2>1. f \in v.data_file /\ f.table = x.table /\ f.end = Null
    BY <1>1, <1>2 DEF ChangesRefer, CompactionsRefer, ChangesOK, CompactionsOK
  <2>2. DOMAIN f = FileFields /\ f.id \in Nat
    BY <1>1, <2>1 DEF GoodMetadata
  <2>3. \E g \in m.data_file : g.id = f.id
    BY <1>3, <1>4, <1>5, <2>1 DEF FilesStay
  <2>4. ASSUME NEW g \in m.data_file, g.id = f.id
        PROVE  /\ g.end = Null /\ g.table = x.table
               /\ g.rows = f.rows /\ g.begin = f.begin /\ g.partial_max = f.partial_max
    <3>1. SameUntilEnd(f, g, s, n, log)
      BY <1>2, <2>1, <2>4 DEF Follows
    <3>2. g.end = Null
      BY <1>4, <1>5, <2>1, <3>1 DEF SameUntilEnd
    <3>3. g.table = f.table /\ g.rows = f.rows /\ g.begin = f.begin /\ g.partial_max = f.partial_max
      BY <2>2, <3>1 DEF SameUntilEnd, FileFields
    <3> QED BY <2>1, <3>2, <3>3
  <2> QED BY <2>2, <2>3, <2>4
<1>7. \A x \in l.compactions : x.type = "merge" => x.deletes = {}
  BY <1>2 DEF ChangesOK, CompactionsOK, MergeOf
<1>8. ASSUME NEW x \in l.compactions, NEW d \in x.deletes, NEW e \in m.delete_file, e.id = d.id
      PROVE  e.end = Null /\ e.table = x.table
  <2>1. RewriteOf(v, x)
    BY <1>1, <1>2, <1>7, <1>8 DEF ChangesOK, CompactionsOK, TypedChanges
  <2>2. PICK f \in x.sources : d \in LiveDeletes(v, f)
    BY <1>8, <2>1 DEF RewriteOf
  <2>3. f \in v.data_file /\ f.table = x.table
    BY <1>1 DEF ChangesRefer, CompactionsRefer
  <2>4. d \in v.delete_file /\ d.file = f.id /\ d.end = Null
    BY <2>2 DEF LiveDeletes
  <2>5. d.table = x.table /\ DOMAIN d = DeleteFields
    BY <1>1, <1>2, <2>3, <2>4 DEF MetadataOK, GoodMetadata
  <2>6. SameUntilEnd(d, e, s, n, log)
    BY <1>2, <1>8, <2>4 DEF Follows
  <2>7. e.end = Null
    BY <1>4, <1>5, <2>4, <2>5, <2>6 DEF SameUntilEnd
  <2>8. e.table = d.table
    BY <2>5, <2>6 DEF SameUntilEnd, DeleteFields
  <2> QED BY <2>5, <2>7, <2>8
<1>9. \A d \in m.delete_file : d.file \notin SourceIds(l, "merge")
  BY <1>0, MergedFilesHaveNoDeletes
<1> QED
  BY <1>0, <1>6, <1>7, <1>8, <1>9 DEF SourcesLive

\* The commit of a client is such a commit.
LEMMA CommitIsKnown ==
    ASSUME PlainWorkload, CheckedInv, TimeInv, NEW c \in Clients, Commit(c),
           NEW n, n = Len(log), NEW l, l = local[c], NEW s, s = txn[c].snap, NEW id, id = log[n].next_file_id
    PROVE  Commits(versions[s], s, versions[n], n, l, id, versions'[n + 1], log'[n + 1].changes)
<1> DEFINE v == versions[s]
           m0 == versions[n]
           m == versions'[n + 1]
           changes == log'[n + 1].changes
<1>1. /\ n \in Nat \ {0} /\ s \in 1 .. n /\ id \in Nat
      /\ ~MixesCompaction(TransactionChanges(l))
      /\ changes = WriteSnapshotChanges(TransactionChanges(l))
      /\ m = CommitChanges(m0, l, n + 1, id)
      /\ CommitArguments(l, n + 1, id)
      /\ ChangesRefer(v, s, l)
      /\ GoodMetadata(v, id) /\ GoodMetadata(m0, id)
  BY CommitOfClient DEF CheckedInv
<1>2. GoodMetadata(m, log'[n + 1].next_file_id)
  BY CommitKeepsGood DEF CheckedInv
<1>3. ChangesOK(v, s, l) /\ MetadataOK(v, s) /\ MetadataOK(m0, n)
  BY <1>1 DEF TimeInv, View
<1>4. SourcesLive(m0, l)
  BY SourcesAreLive
<1>5. CommitRefers(v, l, m0)
  BY <1>1, CommitRefersTo DEF CheckedInv
<1>6. "delete_more" \notin Workload
  BY DEF PlainWorkload
<1> HIDE DEF v, m0, m, changes
<1>7. CommitOK(v, s, m0, n, l, id)
  BY <1>1, <1>3, <1>4, <1>5, <1>6 DEF CommitOK
<1>8. /\ \A x \in l.new_delete_files : x.overwritten = {}
      /\ l.inlined_file_deletes = {}
      /\ \A y \in l.dropped_files : y.file \in Nat /\ y.file < id
  <2>1. DeletesOK(v, s, l)
    BY <1>3 DEF ChangesOK
  <2> QED BY <1>1, <2>1 DEF DeletesOK, GoodMetadata
<1>9. TimeStep(m0, m, l, n + 1, id, changes)
  BY <1>1, <1>4, <1>8, CommitIsTimeStep
<1>10. Commits(v, s, m0, n, l, id, m, changes)
  BY <1>1, <1>2, <1>7, <1>9 DEF Commits
<1> QED
  BY <1>10 DEF v, m0, m, changes

----------------------------------------------------------------------------
(* The invariant.                                                          *)

\* The part of the invariant about the committed metadata.
MetadataInv ==
    /\ \A i \in 1 .. Len(log) : MetadataOK(versions[i], i)
    /\ \A i, j \in 1 .. Len(log) : i <= j => Follows(versions[i], versions[j], i, j, log)

\* A commit keeps it.
LEMMA CommitKeepsMetadata ==
    ASSUME PlainWorkload, CheckedInv, TimeInv, NEW c \in Clients, Commit(c)
    PROVE  MetadataInv'
<1> DEFINE n == Len(log)
           l == local[c]
           s == txn[c].snap
           id == log[n].next_file_id
<1>0. n = Len(log) /\ l = local[c] /\ s = txn[c].snap /\ id = log[n].next_file_id
  OBVIOUS
<1> HIDE DEF n, l, s, id
<1>1. /\ n \in Nat \ {0}
      /\ Len(log') = n + 1 /\ \A i \in 1 .. n : log'[i] = log[i] /\ versions'[i] = versions[i]
  BY <1>0, CommitOfClient, SMTT(60) DEF CheckedInv
<1>2. Commits(versions[s], s, versions[n], n, l, id, versions'[n + 1], log'[n + 1].changes)
  BY <1>0, CommitIsKnown
<1>3. \A i \in 1 .. n + 1 : i \in 1 .. n \/ i = n + 1
  BY <1>1
<1>4. ASSUME NEW i \in 1 .. n + 1 PROVE MetadataOK(versions'[i], i)
  <2>1. CASE i \in 1 .. n
    BY <1>0, <1>1, <2>1 DEF TimeInv
  <2>2. CASE i = n + 1
    BY <1>2, <2>2, CommitMetadataOK
  <2> QED BY <1>3, <2>1, <2>2
<1>5. ASSUME NEW i \in 1 .. n + 1, NEW j \in 1 .. n + 1, i <= j PROVE Follows(versions'[i], versions'[j], i, j, log')
  <2>1. CASE j \in 1 .. n
    <3>1. i \in 1 .. n /\ i \in Nat /\ j \in Nat
      BY <1>1, <1>5, <2>1
    <3>2. \A k \in 1 .. j : log'[k] = log[k]
      BY <1>1, <2>1
    <3>3. Follows(versions[i], versions[j], i, j, log) /\ versions'[i] = versions[i] /\ versions'[j] = versions[j]
      BY <1>0, <1>1, <1>5, <2>1, <3>1 DEF TimeInv
    <3>4. Follows(versions[i], versions[j], i, j, log')
      BY <3>1, <3>2, <3>3, FollowsSame
    <3> QED BY <3>3, <3>4
  <2>2. CASE j = n + 1 /\ i \in 1 .. n
    <3>1. Follows(versions[i], versions[n], i, n, log) /\ versions'[i] = versions[i]
      BY <1>0, <1>1, <2>2 DEF TimeInv
    <3>2. GoodMetadata(versions[i], id)
      <4>1. GoodMetadata(versions[i], log[i].next_file_id)
        BY <1>0, <2>2 DEF CheckedInv, MetaInv, HistoryInv
      <4>2. log[i].next_file_id \in Nat /\ id \in Nat /\ log[i].next_file_id <= id
        BY <1>0, <1>1, <2>2, NextIdsGrow DEF CheckedInv, MetaInv
      <4> QED BY <4>1, <4>2 DEF GoodMetadata
    <3>3. i \in Nat /\ i <= n /\ \A k \in 1 .. n : log'[k] = log[k]
      BY <1>1, <2>2
    <3>4. Follows(versions[i], versions'[n + 1], i, n + 1, log')
      BY <1>2, <3>1, <3>2, <3>3, FollowsNext
    <3> QED BY <2>2, <3>1, <3>4
  <2>3. CASE j = n + 1 /\ i = n + 1
    <3>1. \E next : GoodMetadata(versions'[n + 1], next)
      BY <1>2 DEF Commits
    <3> QED BY <2>3, <3>1, FollowsReflexive
  <2> QED BY <1>3, <2>1, <2>2, <2>3
<1> QED
  BY <1>1, <1>4, <1>5 DEF MetadataInv

\* Every step keeps it.
LEMMA MetadataInvNext ==
    ASSUME PlainWorkload, CheckedInv, TimeInv, [LakeNext]_lakeVars
    PROVE  MetadataInv'
<1>1. CASE log' = log /\ versions' = versions
  BY <1>1 DEF TimeInv, MetadataInv
<1> QED
  BY <1>1, MetadataSteps, CommitKeepsMetadata DEF CheckedInv, MetaInv

\* A transaction begins with no local changes.
LEMMA NoChangesOK == \A m, s : ChangesOK(m, s, NoLocalChanges)
BY DEF ChangesOK, CompactionsOK, NewFilesOK, DeletesOK, NoLocalChanges

\* Every step keeps the part of the invariant about local changes.
LEMMA ChangesOKNext ==
    ASSUME PlainWorkload, CheckedInv, TimeInv, [LakeNext]_lakeVars, NEW d \in Clients
    PROVE  ChangesOK(View(d), txn[d].snap, local[d])'
<1> DEFINE OK(x) == ChangesOK(View(x), txn[x].snap, local[x])
<1>0. TypeInv /\ LocalInv /\ OK(d)
  BY DEF CheckedInv, MetaInv, TimeInv
<1>1. CASE UNCHANGED lakeVars
  BY <1>0, <1>1 DEF lakeVars, commitVars, View
<1>2. ASSUME NEW c \in Clients, AnyStatement(c) PROVE OK(d)'
  <2>1. PICK t, l, new, gone : Statement(c, t, l, new, gone)
    BY <1>0, <1>2, AnyStatementEffect DEF LocalInv, StatementEffect
  <2>2. /\ local' = [local EXCEPT ![c] = l] /\ versions' = versions
        /\ txn[c].phase = "active"
        /\ txn' = [txn EXCEPT ![c].changes = TransactionChanges(l), ![c].files = (@ \ gone) \cup new]
    BY <2>1 DEF Statement, Work
  <2>3. txn'[c].snap = txn[c].snap /\ \A e \in Clients \ {c} : txn'[e] = txn[e]
    BY <1>0, <2>2 DEF TypeInv, CommitTypeOK, Transaction
  <2>4. View(d)' = View(d) /\ txn'[d].snap = txn[d].snap
    BY <2>2, <2>3 DEF View
  <2>5. CASE d # c
    BY <1>0, <2>2, <2>4, <2>5 DEF LocalInv
  <2>6. CASE d = c
    <3>1. txn[c].snap \in 1 .. Len(log) /\ Len(log) \in Nat
      BY <1>0, <2>2 DEF TypeInv, SnapshotsInLog
    <3>2. Ready(c)
      BY <1>0, <2>6, <3>1 DEF Ready, LocalInv, TimeInv, View, CheckedInv, MetaInv, HistoryInv, GoodMetadata
    <3>3. PICK k : local' = [local EXCEPT ![c] = k] /\ ChangesOK(View(c), txn[c].snap, k)
      BY <1>2, <3>2, AnyStatementDetailed DEF Detailed
    <3>4. local'[c] = k
      BY <1>0, <3>3 DEF LocalInv
    <3> QED BY <2>4, <2>6, <3>3, <3>4
  <2> QED BY <2>5, <2>6
<1>3. ASSUME NEW c \in Clients, Commit(c) \/ OtherStep(c),
             local' = [local EXCEPT ![c] = IF txn'[c].phase = "idle" THEN NoLocalChanges ELSE @]
      PROVE  OK(d)'
  <2>1. /\ local'[c] = IF txn'[c].phase = "idle" THEN NoLocalChanges ELSE local[c]
        /\ d # c => local'[d] = local[d]
    BY <1>0, <1>3 DEF LocalInv
  <2>2. ASSUME txn[d].phase # "idle", txn'[d].snap = txn[d].snap PROVE View(d)' = View(d)
    BY <1>0, <1>3, <2>2, VersionsGrow DEF View, TypeInv, SnapshotsInLog, LocalInv
  <2>3. CASE local'[d] = NoLocalChanges
    BY <2>3, NoChangesOK
  <2>4. txn[d].phase = "idle" => local[d] = NoLocalChanges
    BY <1>0 DEF LocalInv, ClientInv
  <2>5. CASE d # c
    <3>1. txn'[d] = txn[d]
      BY <1>0, <1>3, <2>5, OwnSteps
    <3> QED BY <1>0, <2>1, <2>2, <2>3, <2>4, <2>5, <3>1
  <2>6. CASE d = c
    <3>1. CASE txn'[c] = NoTransaction
      BY <2>1, <2>3, <2>6, <3>1 DEF NoTransaction
    <3>2. CASE txn[c].phase = "idle" /\ txn'[c] = NewTransaction(Len(log))
      BY <2>1, <2>3, <2>4, <2>6, <3>2
    <3>3. CASE /\ txn[c].phase # "idle" /\ txn'[c].phase # "idle" /\ txn'[c].snap = txn[c].snap
      BY <1>0, <2>1, <2>2, <2>6, <3>3
    <3> QED BY <1>0, <1>3, <3>1, <3>2, <3>3, OwnSteps
  <2> QED BY <2>5, <2>6
<1> QED
  BY <1>1, <1>2, <1>3 DEF LakeNext

\* It holds in the empty lake.
LEMMA TimeInvInit == LakeInit => TimeInv
<1> SUFFICES ASSUME LakeInit PROVE TimeInv
  OBVIOUS
<1>1. Len(log) = 1 /\ versions[1] = NoMetadata /\ local = [c \in Clients |-> NoLocalChanges]
  BY DEF LakeInit, CommitInit
<1>2. GoodMetadata(NoMetadata, 0)
  BY DEF GoodMetadata, NoMetadata, MetadataFields, UniqueIds
<1>3. \A i, s : Follows(NoMetadata, NoMetadata, i, i, s)
  BY <1>2, FollowsReflexive
<1>4. \A i : MetadataOK(NoMetadata, i)
  BY DEF MetadataOK, NoMetadata
<1>5. \A i, j \in 1 .. Len(log) : i = 1 /\ j = 1
  BY <1>1
<1> QED
  BY <1>1, <1>3, <1>4, <1>5, NoChangesOK DEF TimeInv

\* The invariant holds in every state.
LEMMA TimeInvariance ==
    ASSUME PlainWorkload
    PROVE  LakeSpec => [](CheckedInv /\ TimeInv)
<1>1. CheckedInv /\ TimeInv /\ [LakeNext]_lakeVars => TimeInv'
  <2> SUFFICES ASSUME CheckedInv, TimeInv, [LakeNext]_lakeVars PROVE TimeInv'
    OBVIOUS
  <2>1. MetadataInv'
    BY MetadataInvNext
  <2>2. \A d \in Clients : ChangesOK(View(d), txn[d].snap, local[d])'
    BY ChangesOKNext
  <2> QED BY <2>1, <2>2 DEF TimeInv, MetadataInv
<1> QED
  BY <1>1, TimeInvInit, CheckedInvariance, PTL DEF LakeSpec

\* Time travel: a query AT (VERSION => k) goes on to return what it returned, whatever
\* commits, DELETEs, drops, merges and rewrites come after it.  It reads the lifetimes
\* that WriteSnapshot, WriteDeleteFiles and WriteCompactions write, and the snapshots
\* of the rows of merged files.
HistoryKept == [][\A k \in Snapshots, t \in Tables : Contents(Now, t, k)' = Contents(Now, t, k)]_lakeVars

\* Every step keeps what the existing snapshots contain.
LEMMA StepKeepsContents ==
    ASSUME PlainWorkload, CheckedInv, TimeInv, [LakeNext]_lakeVars, NEW k \in Snapshots, NEW t \in Tables
    PROVE  Contents(Now, t, k)' = Contents(Now, t, k)
<1>1. CASE log' = log /\ versions' = versions
  BY <1>1 DEF Now
<1>2. ASSUME NEW c \in Clients, Commit(c) PROVE Contents(Now, t, k)' = Contents(Now, t, k)
  <2> DEFINE n == Len(log)
             l == local[c]
             s == txn[c].snap
             id == log[n].next_file_id
  <2>0. n = Len(log) /\ l = local[c] /\ s = txn[c].snap /\ id = log[n].next_file_id
    OBVIOUS
  <2> HIDE DEF n, l, s, id
  <2>1. Commits(versions[s], s, versions[n], n, l, id, versions'[n + 1], log'[n + 1].changes)
    BY <1>2, <2>0, CommitIsKnown
  <2>2. Now = versions[n] /\ Now' = versions'[n + 1]
    BY <1>2, <2>0, CommitOfClient DEF Now, CheckedInv
  <2>3. k \in 1 .. n
    BY <2>0 DEF Snapshots
  <2>4. Contents(versions'[n + 1], t, k) = Contents(versions[n], t, k)
    BY <2>1, <2>3, CommitKeepsContents
  <2> QED BY <2>2, <2>4
<1> QED
  BY <1>1, <1>2, MetadataSteps DEF CheckedInv, MetaInv

\* Every existing snapshot stays readable as it was: the filters of a scan (the
\* lifetimes of data files and delete files, and the snapshots of the rows of merged
\* files) return the rows they returned, although merges take their sources out of the
\* metadata and rewrites and deletions end rows that the snapshot reads.
THEOREM SnapshotsNeverChange ==
    ASSUME PlainWorkload
    PROVE  LakeSpec => HistoryKept
<1>1. CheckedInv /\ TimeInv /\ [LakeNext]_lakeVars =>
        [\A k \in Snapshots, t \in Tables : Contents(Now, t, k)' = Contents(Now, t, k)]_lakeVars
  BY StepKeepsContents
<1> QED
  BY <1>1, TimeInvariance, PTL DEF LakeSpec, HistoryKept
============================================================================
