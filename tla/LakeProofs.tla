----------------------------- MODULE LakeProofs -----------------------------
(***************************************************************************)
(* Proofs about LakeTransactions, for any clients, tables, files, rows,    *)
(* statements and numbers of changes, retries and snapshots.               *)
(***************************************************************************)
EXTENDS LakeTransactions, SnapshotCommitProofs

----------------------------------------------------------------------------
(* The uncommitted changes of a transaction.                               *)

LocalFields ==
    {"new_data_files", "new_delete_files", "dropped_files", "inlined_file_deletes", "compactions",
     "altered_tables", "dropped_tables", "delete_attempted"}

NewFileFields == {"path", "table", "rows", "deleted", "delete_path"}

\* The files that a transaction with these changes has written.
LocalPaths(l) == DataPaths(l) \cup DeletePaths(l) \cup OutputPaths(l)

TypedChanges(l) ==
    /\ DOMAIN l = LocalFields
    /\ \A n \in l.new_data_files :
          DOMAIN n = NewFileFields /\ n.table \in Tables /\ (n.delete_path = {} \/ \E p \in n.delete_path : n.delete_path = {p})
    /\ \A d \in l.new_delete_files : d.table \in Tables
    /\ \A f \in l.dropped_files : f.table \in Tables
    /\ \A x \in l.inlined_file_deletes : x.table \in Tables
    /\ \A x \in l.compactions :
          x.table \in Tables /\ x.type \in {"merge", "rewrite"} /\ (x.path = {} \/ \E p \in x.path : x.path = {p})
    /\ l.altered_tables \subseteq Tables /\ l.dropped_tables \subseteq Tables
    /\ l.delete_attempted \subseteq Tables

\* Each file is named once.
FilesNamedOnce(l) ==
    /\ \A n, o \in l.new_data_files : n # o => n.path # o.path /\ n.delete_path \cap o.delete_path = {}
    /\ \A n, o \in l.new_data_files : n.path \notin o.delete_path
    /\ \A d, e \in l.new_delete_files : d # e => d.path # e.path
    /\ \A d \in l.new_delete_files, n \in l.new_data_files : d.path # n.path /\ d.path \notin n.delete_path
    /\ \A x, y \in l.compactions : x # y => x.path \cap y.path = {}
    /\ \A x \in l.compactions, n \in l.new_data_files : n.path \notin x.path /\ n.delete_path \cap x.path = {}
    /\ \A x \in l.compactions, d \in l.new_delete_files : d.path \notin x.path

GoodChanges(l) == TypedChanges(l) /\ FilesNamedOnce(l)

\* The delete files of committed files: one for a file that the transaction sees.
\* Unless a statement may delete from a file that has a committed delete file, they
\* are the first of their file.  What they overwrite are delete files that the
\* transaction sees, under their own names unless it overwrites one of its own.
DeleteRefers(m, s, x) ==
    /\ \E f \in m.data_file : f.id = x.file /\ f.table = x.table
    /\ "delete_more" \notin Workload =>
          /\ x.begin = Null
          /\ \A p \in x.positions : p.snap = Null
          /\ \A d \in m.delete_file : d.file = x.file => ~Visible(d, s)
    /\ "delete_again" \notin Workload =>
          \A o \in x.overwritten :
              \E d \in m.delete_file, q \in x.overwritten : d.id = o.id /\ q.id = o.id /\ q.path = d.path

DeletesRefer(m, s, l) ==
    /\ \A x, y \in l.new_delete_files : x.file = y.file => x = y
    /\ \A x \in l.new_delete_files : DeleteRefers(m, s, x)

\* The sources of a compaction are files that the transaction sees; those of a merge
\* have no delete files there.
CompactionsRefer(m, l) ==
    \A x \in l.compactions : \A f \in x.sources :
        /\ f \in m.data_file /\ f.table = x.table
        /\ x.type = "merge" => \A d \in m.delete_file : d.file # f.id

ChangesRefer(m, s, l) == DeletesRefer(m, s, l) /\ CompactionsRefer(m, l)

\* What a transaction has changed, its files and its summary belong together.
ClientInv(c) ==
    /\ GoodChanges(local[c])
    /\ ChangesRefer(View(c), txn[c].snap, local[c])
    /\ txn[c].files = LocalPaths(local[c])
    /\ txn[c].changes = TransactionChanges(local[c])
    /\ txn[c].phase = "idle" => local[c] = NoLocalChanges

LocalInv ==
    /\ local = [c \in Clients |-> local[c]]
    /\ \E S : versions \in Seq(S)
    /\ Len(versions) = Len(log)
    /\ \A c \in Clients : ClientInv(c)

----------------------------------------------------------------------------
(* The summary of the changes.                                             *)

LEMMA ChangesOf ==
    ASSUME NEW l, TypedChanges(l)
    PROVE  /\ TransactionChanges(l) \in ChangeInfo
           /\ \A n \in l.new_data_files : <<"inserted_into_table", n.table>> \in TransactionChanges(l)
           /\ \A d \in l.new_delete_files : <<"deleted_from_table", d.table>> \in TransactionChanges(l)
           /\ \A d \in l.dropped_files : <<"deleted_from_table", d.table>> \in TransactionChanges(l)
           /\ \A x \in l.compactions :
                 /\ x.type = "merge" => <<"merge_adjacent", x.table>> \in TransactionChanges(l)
                 /\ x.type = "rewrite" => <<"rewrite_delete", x.table>> \in TransactionChanges(l)
<1> USE DEF TypedChanges
<1> DEFINE TablesOf(S) == {x.table : x \in S}
           A1 == Changed("inserted_into_table", TablesOf(l.new_data_files))
           A2 == Changed("deleted_from_table", TablesOf(l.new_delete_files) \cup TablesOf(l.dropped_files))
           A3 == Changed("inlined_delete", TablesOf(l.inlined_file_deletes))
           A4 == Changed("merge_adjacent", TablesOf({x \in l.compactions : x.type = "merge"}))
           A5 == Changed("rewrite_delete", TablesOf({x \in l.compactions : x.type = "rewrite"}))
           A6 == Changed("altered_table", l.altered_tables)
           A7 == Changed("dropped_table", l.dropped_tables)
           A8 == Changed("delete_attempted", l.delete_attempted)
<1>1. TransactionChanges(l) = UNION {A1, A2, A3, A4, A5, A6, A7, A8}
  BY DEF TransactionChanges
<1>2. \A K \in Kinds, S \in SUBSET Tables : Changed(K, S) \in ChangeInfo
  BY DEF Changed, ChangeInfo
<1>3. /\ A1 \in ChangeInfo /\ A2 \in ChangeInfo /\ A3 \in ChangeInfo /\ A4 \in ChangeInfo
      /\ A5 \in ChangeInfo /\ A6 \in ChangeInfo /\ A7 \in ChangeInfo /\ A8 \in ChangeInfo
  BY <1>2 DEF Kinds, RecordedKinds, LocalKinds
<1>4. \A n \in l.new_data_files : <<"inserted_into_table", n.table>> \in A1
  BY DEF Changed
<1>5. /\ \A d \in l.new_delete_files : <<"deleted_from_table", d.table>> \in A2
      /\ \A d \in l.dropped_files : <<"deleted_from_table", d.table>> \in A2
  BY DEF Changed
<1>6. \A x \in l.compactions : /\ x.type = "merge" => <<"merge_adjacent", x.table>> \in A4
                               /\ x.type = "rewrite" => <<"rewrite_delete", x.table>> \in A5
  BY DEF Changed
<1> HIDE DEF A1, A2, A3, A4, A5, A6, A7, A8
<1>7. TransactionChanges(l) \in ChangeInfo
  BY <1>1, <1>3 DEF ChangeInfo
<1> QED
  BY <1>1, <1>4, <1>5, <1>6, <1>7

\* A transaction that has written files has changes to commit.
LEMMA NoChangesNoFiles ==
    ASSUME NEW l, TypedChanges(l), ~ChangesMade(TransactionChanges(l))
    PROVE  LocalPaths(l) = {}
<1> DEFINE ch == TransactionChanges(l)
<1>0. /\ \A n \in l.new_data_files : <<"inserted_into_table", n.table>> \in ch
      /\ \A d \in l.new_delete_files : <<"deleted_from_table", d.table>> \in ch
      /\ \A x \in l.compactions : \/ <<"merge_adjacent", x.table>> \in ch
                                  \/ <<"rewrite_delete", x.table>> \in ch
  BY ChangesOf DEF TypedChanges
<1> HIDE DEF ch
<1>1. \A K, t : K # "delete_attempted" => <<K, t>> \notin ch
  <2> SUFFICES ASSUME NEW K, NEW t, K # "delete_attempted", <<K, t>> \in ch PROVE ChangesMade(ch)
    BY DEF ch
  <2>1. <<K, t>>[1] = K
    OBVIOUS
  <2> QED
    BY <2>1 DEF ChangesMade
<1>2. /\ \A n \in l.new_data_files : FALSE
      /\ \A d \in l.new_delete_files : FALSE
      /\ \A x \in l.compactions : FALSE
  BY <1>0, <1>1
<1> QED
  BY <1>2 DEF LocalPaths, DataPaths, DeletePaths, OutputPaths

\* A transaction without changes.
LEMMA NoLocal ==
    /\ TypedChanges(NoLocalChanges)
    /\ FilesNamedOnce(NoLocalChanges)
    /\ LocalPaths(NoLocalChanges) = {}
    /\ TransactionChanges(NoLocalChanges) = {}
<1>1. TypedChanges(NoLocalChanges)
  BY DEF TypedChanges, NoLocalChanges, LocalFields
<1>2. FilesNamedOnce(NoLocalChanges)
  BY DEF FilesNamedOnce, NoLocalChanges
<1>3. LocalPaths(NoLocalChanges) = {}
  BY DEF LocalPaths, DataPaths, DeletePaths, OutputPaths, NoLocalChanges
<1>4. TransactionChanges(NoLocalChanges) = {}
  BY DEF TransactionChanges, NoLocalChanges, Changed
<1> QED
  BY <1>1, <1>2, <1>3, <1>4

----------------------------------------------------------------------------
(* What the statements do to the uncommitted changes.                      *)

\* The same files with other notes about the tables.
LEMMA OtherNotes ==
    ASSUME NEW l, NEW k, GoodChanges(l), TypedChanges(k),
           k.new_data_files = l.new_data_files, k.new_delete_files = l.new_delete_files,
           k.compactions = l.compactions
    PROVE  GoodChanges(k) /\ LocalPaths(k) = LocalPaths(l)
BY DEF GoodChanges, FilesNamedOnce, LocalPaths, DataPaths, DeletePaths, OutputPaths

\* The names in LocalPaths, one by one.
LEMMA InLocalPaths ==
    ASSUME NEW l, NEW p
    PROVE  p \in LocalPaths(l) <=>
              \/ \E n \in l.new_data_files : p = n.path \/ p \in n.delete_path
              \/ \E d \in l.new_delete_files : p = d.path
              \/ \E x \in l.compactions : p \in x.path
BY DEF LocalPaths, DataPaths, DeletePaths, OutputPaths

\* INSERT writes one data file.
LEMMA AddDataFile ==
    ASSUME NEW l, NEW k, GoodChanges(l), TypedChanges(k), NEW n, NEW p, p \notin LocalPaths(l),
           n.path = p, n.delete_path = {},
           k.new_data_files = l.new_data_files \cup {n}, k.new_delete_files = l.new_delete_files,
           k.compactions = l.compactions
    PROVE  GoodChanges(k) /\ LocalPaths(k) = LocalPaths(l) \cup {p}
<1>1. /\ \A o \in l.new_data_files : p # o.path /\ p \notin o.delete_path
      /\ \A d \in l.new_delete_files : p # d.path
      /\ \A x \in l.compactions : p \notin x.path
  BY InLocalPaths
<1>2. FilesNamedOnce(k)
  BY <1>1 DEF GoodChanges, FilesNamedOnce
<1>3. LocalPaths(k) = LocalPaths(l) \cup {p}
  BY InLocalPaths
<1> QED
  BY <1>2, <1>3 DEF GoodChanges

\* A data file of the transaction is removed with its delete file.
LEMMA RemoveDataFile ==
    ASSUME NEW l, NEW k, GoodChanges(l), TypedChanges(k), NEW n \in l.new_data_files,
           k.new_data_files = l.new_data_files \ {n}, k.new_delete_files = l.new_delete_files,
           k.compactions = l.compactions
    PROVE  /\ GoodChanges(k)
           /\ {n.path} \cup n.delete_path \subseteq LocalPaths(l)
           /\ LocalPaths(k) = LocalPaths(l) \ ({n.path} \cup n.delete_path)
<1>1. FilesNamedOnce(k)
  BY DEF GoodChanges, FilesNamedOnce
<1>2. {n.path} \cup n.delete_path \subseteq LocalPaths(l)
  BY InLocalPaths
<1>3. /\ \A o \in k.new_data_files : /\ n.path # o.path /\ n.path \notin o.delete_path
                                     /\ o.path \notin n.delete_path
                                     /\ n.delete_path \cap o.delete_path = {}
      /\ \A d \in k.new_delete_files : n.path # d.path /\ d.path \notin n.delete_path
      /\ \A x \in k.compactions : n.path \notin x.path /\ n.delete_path \cap x.path = {}
  BY DEF GoodChanges, FilesNamedOnce
<1>4. LocalPaths(k) = LocalPaths(l) \ ({n.path} \cup n.delete_path)
  <2>1. ASSUME NEW p \in LocalPaths(k) PROVE p \in LocalPaths(l) \ ({n.path} \cup n.delete_path)
    BY <1>3, <2>1, InLocalPaths
  <2>2. ASSUME NEW p \in LocalPaths(l), p \notin {n.path} \cup n.delete_path PROVE p \in LocalPaths(k)
    BY <2>2, InLocalPaths
  <2> QED
    BY <2>1, <2>2
<1> QED
  BY <1>1, <1>2, <1>4 DEF GoodChanges

\* A data file of the transaction gets another delete file.
LEMMA ReplaceDataFile ==
    ASSUME NEW l, NEW k, GoodChanges(l), TypedChanges(k), NEW n \in l.new_data_files, NEW o, NEW p,
           p \notin LocalPaths(l), o.path = n.path, o.delete_path = {p},
           k.new_data_files = (l.new_data_files \ {n}) \cup {o}, k.new_delete_files = l.new_delete_files,
           k.compactions = l.compactions
    PROVE  /\ GoodChanges(k)
           /\ n.delete_path \subseteq LocalPaths(l)
           /\ LocalPaths(k) = (LocalPaths(l) \ n.delete_path) \cup {p}
<1>0. /\ \A q \in l.new_data_files : p # q.path /\ p \notin q.delete_path
      /\ \A d \in l.new_delete_files : p # d.path
      /\ \A x \in l.compactions : p \notin x.path
  BY InLocalPaths
<1>1. FilesNamedOnce(k)
  BY <1>0 DEF GoodChanges, FilesNamedOnce
<1>2. n.delete_path \subseteq LocalPaths(l)
  BY InLocalPaths
<1>3. /\ n.path \notin n.delete_path
      /\ \A q \in l.new_data_files \ {n} : q.path \notin n.delete_path /\ n.delete_path \cap q.delete_path = {}
      /\ \A d \in l.new_delete_files : d.path \notin n.delete_path
      /\ \A x \in l.compactions : n.delete_path \cap x.path = {}
  BY DEF GoodChanges, FilesNamedOnce
<1>4. LocalPaths(k) = (LocalPaths(l) \ n.delete_path) \cup {p}
  <2>1. ASSUME NEW q \in LocalPaths(k) PROVE q \in (LocalPaths(l) \ n.delete_path) \cup {p}
    BY <1>3, <2>1, InLocalPaths
  <2>2. ASSUME NEW q \in LocalPaths(l), q \notin n.delete_path PROVE q \in LocalPaths(k)
    BY <2>2, InLocalPaths
  <2>3. p \in LocalPaths(k)
    BY InLocalPaths
  <2> QED
    BY <2>1, <2>2, <2>3
<1> QED
  BY <1>1, <1>2, <1>4 DEF GoodChanges

\* The names of delete files.
NamesOf(D) == {d.path : d \in D}

\* A delete file of a committed file replaces one that the transaction wrote before.
LEMMA ReplaceDeleteFile ==
    ASSUME NEW l, NEW k, GoodChanges(l), TypedChanges(k), NEW old \in SUBSET l.new_delete_files,
           NEW e, NEW p, p \notin LocalPaths(l), e.path = p, NEW gone, gone = NamesOf(old),
           k.new_delete_files = (l.new_delete_files \ old) \cup {e}, k.new_data_files = l.new_data_files,
           k.compactions = l.compactions
    PROVE  /\ GoodChanges(k)
           /\ gone \subseteq LocalPaths(l)
           /\ LocalPaths(k) = (LocalPaths(l) \ gone) \cup {p}
<1> USE DEF NamesOf
<1>0. /\ \A q \in l.new_data_files : p # q.path /\ p \notin q.delete_path
      /\ \A d \in l.new_delete_files : p # d.path
      /\ \A x \in l.compactions : p \notin x.path
  BY InLocalPaths
<1>1. FilesNamedOnce(k)
  BY <1>0 DEF GoodChanges, FilesNamedOnce
<1>2. gone \subseteq LocalPaths(l)
  BY InLocalPaths
<1>3. \A d \in old : /\ \A q \in l.new_data_files : d.path # q.path /\ d.path \notin q.delete_path
                     /\ \A q \in l.new_delete_files \ old : d.path # q.path
                     /\ \A x \in l.compactions : d.path \notin x.path
  BY DEF GoodChanges, FilesNamedOnce
<1>4. LocalPaths(k) = (LocalPaths(l) \ gone) \cup {p}
  <2>1. ASSUME NEW q \in LocalPaths(k) PROVE q \in (LocalPaths(l) \ gone) \cup {p}
    BY <1>3, <2>1, InLocalPaths
  <2>2. ASSUME NEW q \in LocalPaths(l), q \notin gone PROVE q \in LocalPaths(k)
    BY <2>2, InLocalPaths
  <2>3. p \in LocalPaths(k)
    BY InLocalPaths
  <2> QED
    BY <2>1, <2>2, <2>3
<1> QED
  BY <1>1, <1>2, <1>4 DEF GoodChanges

\* A compaction writes one file or none.
LEMMA AddCompaction ==
    ASSUME NEW l, NEW k, GoodChanges(l), TypedChanges(k), NEW x, x.path \cap LocalPaths(l) = {},
           k.compactions = l.compactions \cup {x}, k.new_data_files = l.new_data_files,
           k.new_delete_files = l.new_delete_files
    PROVE  GoodChanges(k) /\ LocalPaths(k) = LocalPaths(l) \cup x.path
<1>1. /\ \A o \in l.new_data_files : o.path \notin x.path /\ o.delete_path \cap x.path = {}
      /\ \A d \in l.new_delete_files : d.path \notin x.path
      /\ \A y \in l.compactions : y.path \cap x.path = {}
  BY InLocalPaths
<1>2. FilesNamedOnce(k)
  BY <1>1 DEF GoodChanges, FilesNamedOnce
<1>3. LocalPaths(k) = LocalPaths(l) \cup x.path
  BY InLocalPaths
<1> QED
  BY <1>2, <1>3 DEF GoodChanges

----------------------------------------------------------------------------
(* The statements.                                                         *)

\* The changes l follow those of client c, with the files new and without gone.
Effect(c, l, new, gone) ==
    /\ GoodChanges(l)
    /\ ChangesRefer(View(c), txn[c].snap, l)
    /\ new \subseteq Paths
    /\ gone \subseteq LocalPaths(local[c])
    /\ LocalPaths(l) = (LocalPaths(local[c]) \ gone) \cup new

StatementEffect(c) ==
    \E t, l, new, gone : Statement(c, t, l, new, gone) /\ Effect(c, l, new, gone)

\* A new name is none of the client's.
LEMMA FreshName ==
    ASSUME NEW c \in Clients, txn[c].files = LocalPaths(local[c]), CanWriteFile
    PROVE  FreshPath \in Paths /\ FreshPath \notin LocalPaths(local[c])
<1>1. FreshPath \in FreshPaths
  BY DEF FreshPath, CanWriteFile
<1> QED
  BY <1>1 DEF FreshPaths, KnownFiles, OpenFiles

\* Statements that only leave notes.
LEMMA NotesEffect ==
    ASSUME NEW c \in Clients, ClientInv(c), NEW t, NEW l, Statement(c, t, l, {}, {}), TypedChanges(l),
           l.new_data_files = local[c].new_data_files, l.new_delete_files = local[c].new_delete_files,
           l.compactions = local[c].compactions
    PROVE  StatementEffect(c)
<1>1. GoodChanges(l) /\ LocalPaths(l) = LocalPaths(local[c])
  BY OtherNotes DEF ClientInv
<1>2. ChangesRefer(View(c), txn[c].snap, l)
  BY DEF ClientInv, ChangesRefer, DeletesRefer, CompactionsRefer
<1> QED
  BY <1>1, <1>2 DEF StatementEffect, Effect

LEMMA InsertEffect ==
    ASSUME NEW c \in Clients, ClientInv(c), NEW t \in Tables, Insert(c, t)
    PROVE  StatementEffect(c)
<1> DEFINE n == [path |-> FreshPath, table |-> t, rows |-> {<<FreshPath, i>> : i \in Positions},
                 deleted |-> {}, delete_path |-> {}]
           l == [local[c] EXCEPT !.new_data_files = @ \cup {n}]
<1>1. CanWriteFile /\ Statement(c, t, l, {FreshPath}, {})
  BY DEF Insert
<1>2. FreshPath \in Paths /\ FreshPath \notin LocalPaths(local[c])
  BY <1>1, FreshName DEF ClientInv
<1>3. n.path = FreshPath /\ n.delete_path = {} /\ n.table = t /\ DOMAIN n = NewFileFields
  BY DEF NewFileFields
<1> HIDE DEF n
<1>4. /\ DOMAIN l = LocalFields
      /\ l.new_data_files = local[c].new_data_files \cup {n}
      /\ l.new_delete_files = local[c].new_delete_files
      /\ l.dropped_files = local[c].dropped_files
      /\ l.inlined_file_deletes = local[c].inlined_file_deletes
      /\ l.compactions = local[c].compactions
      /\ l.altered_tables = local[c].altered_tables /\ l.dropped_tables = local[c].dropped_tables
      /\ l.delete_attempted = local[c].delete_attempted
  BY DEF ClientInv, GoodChanges, TypedChanges, LocalFields
<1> HIDE DEF l
<1>5. TypedChanges(l)
  BY <1>3, <1>4 DEF ClientInv, GoodChanges, TypedChanges
<1>6. GoodChanges(l) /\ LocalPaths(l) = LocalPaths(local[c]) \cup {FreshPath}
  BY <1>2, <1>3, <1>4, <1>5, AddDataFile DEF ClientInv
<1>7. ChangesRefer(View(c), txn[c].snap, l)
  BY <1>4 DEF ClientInv, ChangesRefer, DeletesRefer, CompactionsRefer
<1> QED
  BY <1>1, <1>2, <1>6, <1>7 DEF StatementEffect, Effect

LEMMA DeleteNothingEffect ==
    ASSUME NEW c \in Clients, ClientInv(c), NEW t \in Tables, DeleteNothing(c, t)
    PROVE  StatementEffect(c)
<1> DEFINE l == [local[c] EXCEPT !.delete_attempted = @ \cup {t}]
<1>1. Statement(c, t, l, {}, {})
  BY DEF DeleteNothing
<1>2. /\ DOMAIN l = LocalFields
      /\ l.new_data_files = local[c].new_data_files
      /\ l.new_delete_files = local[c].new_delete_files
      /\ l.dropped_files = local[c].dropped_files
      /\ l.inlined_file_deletes = local[c].inlined_file_deletes
      /\ l.compactions = local[c].compactions
      /\ l.altered_tables = local[c].altered_tables
      /\ l.dropped_tables = local[c].dropped_tables
      /\ l.delete_attempted = local[c].delete_attempted \cup {t}
  BY DEF ClientInv, GoodChanges, TypedChanges, LocalFields
<1> HIDE DEF l
<1>3. TypedChanges(l)
  BY <1>2 DEF ClientInv, GoodChanges, TypedChanges
<1> QED
  BY <1>1, <1>2, <1>3, NotesEffect

LEMMA AlterTableEffect ==
    ASSUME NEW c \in Clients, ClientInv(c), NEW t \in Tables, AlterTable(c, t)
    PROVE  StatementEffect(c)
<1> DEFINE l == [local[c] EXCEPT !.altered_tables = @ \cup {t}]
<1>1. Statement(c, t, l, {}, {})
  BY DEF AlterTable
<1>2. /\ DOMAIN l = LocalFields
      /\ l.new_data_files = local[c].new_data_files
      /\ l.new_delete_files = local[c].new_delete_files
      /\ l.dropped_files = local[c].dropped_files
      /\ l.inlined_file_deletes = local[c].inlined_file_deletes
      /\ l.compactions = local[c].compactions
      /\ l.altered_tables = local[c].altered_tables \cup {t}
      /\ l.dropped_tables = local[c].dropped_tables
      /\ l.delete_attempted = local[c].delete_attempted
  BY DEF ClientInv, GoodChanges, TypedChanges, LocalFields
<1> HIDE DEF l
<1>3. TypedChanges(l)
  BY <1>2 DEF ClientInv, GoodChanges, TypedChanges
<1> QED
  BY <1>1, <1>2, <1>3, NotesEffect

LEMMA DropTableEffect ==
    ASSUME NEW c \in Clients, ClientInv(c), NEW t \in Tables, DropTable(c, t)
    PROVE  StatementEffect(c)
<1> DEFINE l == [local[c] EXCEPT !.dropped_tables = @ \cup {t}]
<1>1. Statement(c, t, l, {}, {})
  BY DEF DropTable
<1>2. /\ DOMAIN l = LocalFields
      /\ l.new_data_files = local[c].new_data_files
      /\ l.new_delete_files = local[c].new_delete_files
      /\ l.dropped_files = local[c].dropped_files
      /\ l.inlined_file_deletes = local[c].inlined_file_deletes
      /\ l.compactions = local[c].compactions
      /\ l.altered_tables = local[c].altered_tables
      /\ l.dropped_tables = local[c].dropped_tables \cup {t}
      /\ l.delete_attempted = local[c].delete_attempted
  BY DEF ClientInv, GoodChanges, TypedChanges, LocalFields
<1> HIDE DEF l
<1>3. TypedChanges(l)
  BY <1>2 DEF ClientInv, GoodChanges, TypedChanges
<1> QED
  BY <1>1, <1>2, <1>3, NotesEffect

LEMMA DropFileEffect ==
    ASSUME NEW c \in Clients, ClientInv(c), NEW f, f.table \in Tables, DropFile(c, f)
    PROVE  StatementEffect(c)
<1> DEFINE l == [local[c] EXCEPT !.dropped_files = @ \cup {[file |-> f.id, table |-> f.table]},
                               !.delete_attempted = @ \cup {f.table}]
<1>1. Statement(c, f.table, l, {}, {})
  BY DEF DropFile
<1>2. /\ DOMAIN l = LocalFields
      /\ l.new_data_files = local[c].new_data_files
      /\ l.new_delete_files = local[c].new_delete_files
      /\ l.dropped_files = local[c].dropped_files \cup {[file |-> f.id, table |-> f.table]}
      /\ l.inlined_file_deletes = local[c].inlined_file_deletes
      /\ l.compactions = local[c].compactions
      /\ l.altered_tables = local[c].altered_tables
      /\ l.dropped_tables = local[c].dropped_tables
      /\ l.delete_attempted = local[c].delete_attempted \cup {f.table}
  BY DEF ClientInv, GoodChanges, TypedChanges, LocalFields
<1> HIDE DEF l
<1>3. TypedChanges(l)
  <2>1. [file |-> f.id, table |-> f.table].table = f.table
    OBVIOUS
  <2>2. \A x \in l.dropped_files : x.table \in Tables
    BY <1>2, <2>1 DEF ClientInv, GoodChanges, TypedChanges
  <2> QED
    BY <1>2, <2>2 DEF ClientInv, GoodChanges, TypedChanges
<1> QED
  BY <1>1, <1>2, <1>3, NotesEffect

LEMMA InlineDeleteEffect ==
    ASSUME NEW c \in Clients, ClientInv(c), NEW f, f.table \in Tables, NEW R, InlineDelete(c, f, R)
    PROVE  StatementEffect(c)
<1> DEFINE l == [local[c] EXCEPT
               !.inlined_file_deletes = @ \cup {[file |-> f.id, table |-> f.table, row |-> r] : r \in R},
               !.delete_attempted = @ \cup {f.table}]
<1>1. Statement(c, f.table, l, {}, {})
  BY DEF InlineDelete
<1>2. /\ DOMAIN l = LocalFields
      /\ l.new_data_files = local[c].new_data_files
      /\ l.new_delete_files = local[c].new_delete_files
      /\ l.dropped_files = local[c].dropped_files
      /\ l.inlined_file_deletes = local[c].inlined_file_deletes
                                      \cup {[file |-> f.id, table |-> f.table, row |-> r] : r \in R}
      /\ l.compactions = local[c].compactions
      /\ l.altered_tables = local[c].altered_tables
      /\ l.dropped_tables = local[c].dropped_tables
      /\ l.delete_attempted = local[c].delete_attempted \cup {f.table}
  BY DEF ClientInv, GoodChanges, TypedChanges, LocalFields
<1> HIDE DEF l
<1>3. TypedChanges(l)
  <2>1. \A r \in R : [file |-> f.id, table |-> f.table, row |-> r].table = f.table
    OBVIOUS
  <2>2. \A x \in l.inlined_file_deletes : x.table \in Tables
    BY <1>2, <2>1 DEF ClientInv, GoodChanges, TypedChanges
  <2> QED
    BY <1>2, <2>2 DEF ClientInv, GoodChanges, TypedChanges
<1> QED
  BY <1>1, <1>2, <1>3, NotesEffect

\* A file of the transaction itself loses some of its rows, or all.
LEMMA DeleteFromLocalFileEffect ==
    ASSUME NEW c \in Clients, ClientInv(c), NEW n \in local[c].new_data_files, NEW R,
           DeleteFromLocalFile(c, n, R)
    PROVE  StatementEffect(c)
<1>0. n.table \in Tables /\ DOMAIN n = NewFileFields
  BY DEF ClientInv, GoodChanges, TypedChanges
<1>1. CASE n.deleted \cup R = n.rows
  <2> DEFINE l == [[local[c] EXCEPT !.delete_attempted = @ \cup {n.table}]
                      EXCEPT !.new_data_files = local[c].new_data_files \ {n}]
  <2>1. Statement(c, n.table, l, {}, {n.path} \cup n.delete_path)
    BY <1>1 DEF DeleteFromLocalFile
  <2>2. /\ DOMAIN l = LocalFields
        /\ l.new_data_files = local[c].new_data_files \ {n}
        /\ l.new_delete_files = local[c].new_delete_files
        /\ l.dropped_files = local[c].dropped_files
        /\ l.inlined_file_deletes = local[c].inlined_file_deletes
        /\ l.compactions = local[c].compactions
        /\ l.altered_tables = local[c].altered_tables
        /\ l.dropped_tables = local[c].dropped_tables
        /\ l.delete_attempted = local[c].delete_attempted \cup {n.table}
    BY DEF ClientInv, GoodChanges, TypedChanges, LocalFields
  <2> HIDE DEF l
  <2>3. TypedChanges(l)
    BY <1>0, <2>2 DEF ClientInv, GoodChanges, TypedChanges
  <2>4. /\ GoodChanges(l)
        /\ {n.path} \cup n.delete_path \subseteq LocalPaths(local[c])
        /\ LocalPaths(l) = LocalPaths(local[c]) \ ({n.path} \cup n.delete_path)
    BY <2>2, <2>3, RemoveDataFile DEF ClientInv
  <2>5. ChangesRefer(View(c), txn[c].snap, l)
    BY <2>2 DEF ClientInv, ChangesRefer, DeletesRefer, CompactionsRefer
  <2> QED
    BY <2>1, <2>4, <2>5 DEF StatementEffect, Effect
<1>2. CASE n.deleted \cup R # n.rows
  <2> DEFINE o == [n EXCEPT !.deleted = n.deleted \cup R, !.delete_path = {FreshPath}]
             l == [[local[c] EXCEPT !.delete_attempted = @ \cup {n.table}]
                      EXCEPT !.new_data_files = (local[c].new_data_files \ {n}) \cup {o}]
  <2>1. CanWriteFile /\ Statement(c, n.table, l, {FreshPath}, n.delete_path)
    BY <1>2 DEF DeleteFromLocalFile
  <2>2. FreshPath \in Paths /\ FreshPath \notin LocalPaths(local[c])
    BY <2>1, FreshName DEF ClientInv
  <2>3. o.path = n.path /\ o.table = n.table /\ o.delete_path = {FreshPath} /\ DOMAIN o = NewFileFields
    BY <1>0 DEF NewFileFields
  <2> HIDE DEF o
  <2>4. /\ DOMAIN l = LocalFields
        /\ l.new_data_files = (local[c].new_data_files \ {n}) \cup {o}
        /\ l.new_delete_files = local[c].new_delete_files
        /\ l.dropped_files = local[c].dropped_files
        /\ l.inlined_file_deletes = local[c].inlined_file_deletes
        /\ l.compactions = local[c].compactions
        /\ l.altered_tables = local[c].altered_tables
        /\ l.dropped_tables = local[c].dropped_tables
        /\ l.delete_attempted = local[c].delete_attempted \cup {n.table}
    BY DEF ClientInv, GoodChanges, TypedChanges, LocalFields
  <2> HIDE DEF l
  <2>5. TypedChanges(l)
    BY <1>0, <2>3, <2>4 DEF ClientInv, GoodChanges, TypedChanges
  <2>6. /\ GoodChanges(l)
        /\ n.delete_path \subseteq LocalPaths(local[c])
        /\ LocalPaths(l) = (LocalPaths(local[c]) \ n.delete_path) \cup {FreshPath}
    BY <2>2, <2>3, <2>4, <2>5, ReplaceDataFile DEF ClientInv
  <2>7. ChangesRefer(View(c), txn[c].snap, l)
    BY <2>4 DEF ClientInv, ChangesRefer, DeletesRefer, CompactionsRefer
  <2> QED
    BY <2>1, <2>2, <2>6, <2>7 DEF StatementEffect, Effect
<1> QED
  BY <1>1, <1>2

\* The first delete file of a file begins with the snapshot of the commit.
LEMMA BeginOfNull ==
    ASSUME NEW positions, positions # {}, \A p \in positions : p.snap = Null
    PROVE  BeginOf(positions) = Null
<1>1. {p.snap : p \in positions} = {Null}
  OBVIOUS
<1>2. \A p \in positions : Null <= p.snap
  BY DEF Null
<1> QED
  BY <1>1, <1>2 DEF BeginOf

\* What is overwritten is seen by the transaction, under its own name if the transaction
\* has no delete file of its own for the file.
LEMMA OverwrittenSeen ==
    ASSUME NEW c \in Clients, NEW f, CommittedDelete(c, f) = {} \/ LocalDelete(c, f) = {},
           NEW o \in Overwritten(c, f)
    PROVE  \E d \in View(c).delete_file, q \in Overwritten(c, f) :
               d.id = o.id /\ q.id = o.id /\ q.path = d.path
<1>1. LocalDelete(c, f) = {}
  BY DEF Overwritten
<1> DEFINE named(d, e) == [id |-> d.id, path |-> e.path]
<1>2. Overwritten(c, f) = {named(d, e) : d \in CommittedDelete(c, f), e \in CommittedDelete(c, f)}
  BY <1>1 DEF Overwritten
<1>3. \A d, e : named(d, e).id = d.id /\ named(d, e).path = e.path
  OBVIOUS
<1> HIDE DEF named
<1>4. PICK d \in CommittedDelete(c, f), e \in CommittedDelete(c, f) : o = named(d, e)
  BY <1>2
<1>5. d \in View(c).delete_file
  BY DEF CommittedDelete
<1>6. named(d, d) \in Overwritten(c, f)
  BY <1>2
<1> QED
  BY <1>3, <1>4, <1>5, <1>6

\* A delete file for a committed file.
LEMMA WriteDeleteFileEffect ==
    ASSUME NEW c \in Clients, ClientInv(c), NEW f \in View(c).data_file, f.table \in Tables,
           NEW positions, WriteDeleteFile(c, f, positions),
           "delete_more" \notin Workload =>
               /\ positions # {}
               /\ \A p \in positions : p.snap = Null
               /\ CommittedDelete(c, f) = {},
           "delete_again" \notin Workload => CommittedDelete(c, f) = {} \/ LocalDelete(c, f) = {}
    PROVE  StatementEffect(c)
<1> DEFINE old == LocalDelete(c, f)
           e == [file |-> f.id, table |-> f.table, path |-> FreshPath, positions |-> positions,
                 begin |-> BeginOf(positions), overwritten |-> Overwritten(c, f)]
           l == [local[c] EXCEPT !.new_delete_files = (@ \ old) \cup {e},
                                 !.delete_attempted = @ \cup {f.table}]
           gone == {d.path : d \in old}
<1>1. CanWriteFile /\ Statement(c, f.table, l, {FreshPath}, gone)
  BY DEF WriteDeleteFile
<1>2. FreshPath \in Paths /\ FreshPath \notin LocalPaths(local[c])
  BY <1>1, FreshName DEF ClientInv
<1>3. /\ e.file = f.id /\ e.table = f.table /\ e.path = FreshPath /\ e.positions = positions
      /\ e.begin = BeginOf(positions) /\ e.overwritten = Overwritten(c, f)
  OBVIOUS
<1>4. /\ old \in SUBSET local[c].new_delete_files
      /\ \A d \in local[c].new_delete_files : d.file = f.id => d \in old
  BY DEF LocalDelete
<1> HIDE DEF e, old
<1>5. /\ DOMAIN l = LocalFields
      /\ l.new_data_files = local[c].new_data_files
      /\ l.new_delete_files = (local[c].new_delete_files \ old) \cup {e}
      /\ l.dropped_files = local[c].dropped_files
      /\ l.inlined_file_deletes = local[c].inlined_file_deletes
      /\ l.compactions = local[c].compactions
      /\ l.altered_tables = local[c].altered_tables
      /\ l.dropped_tables = local[c].dropped_tables
      /\ l.delete_attempted = local[c].delete_attempted \cup {f.table}
  BY DEF ClientInv, GoodChanges, TypedChanges, LocalFields
<1> HIDE DEF l
<1>6. TypedChanges(l)
  BY <1>3, <1>5 DEF ClientInv, GoodChanges, TypedChanges
<1> HIDE DEF gone
<1>7. /\ GoodChanges(l)
      /\ gone \subseteq LocalPaths(local[c])
      /\ LocalPaths(l) = (LocalPaths(local[c]) \ gone) \cup {FreshPath}
  <2>1. gone = NamesOf(old) /\ GoodChanges(local[c])
    BY DEF gone, NamesOf, ClientInv
  <2> QED
    BY <1>2, <1>3, <1>4, <1>5, <1>6, <2>1, ReplaceDeleteFile
<1>8. CompactionsRefer(View(c), l)
  BY <1>5 DEF ClientInv, ChangesRefer, CompactionsRefer
<1>9. DeletesRefer(View(c), txn[c].snap, l)
  <2> DEFINE m == View(c)
             s == txn[c].snap
  <2>1. DeletesRefer(m, s, local[c])
    BY DEF ClientInv, ChangesRefer
  <2>2. \A x, y \in l.new_delete_files : x.file = y.file => x = y
    BY <1>3, <1>4, <1>5, <2>1 DEF DeletesRefer
  <2>3. \E g \in m.data_file : g.id = e.file /\ g.table = e.table
    BY <1>3
  <2>4. "delete_more" \notin Workload =>
          /\ e.begin = Null
          /\ \A p \in e.positions : p.snap = Null
          /\ \A d \in m.delete_file : d.file = e.file => ~Visible(d, s)
    BY <1>3, BeginOfNull DEF CommittedDelete
  <2>5. "delete_again" \notin Workload =>
          \A o \in e.overwritten :
              \E d \in m.delete_file, q \in e.overwritten : d.id = o.id /\ q.id = o.id /\ q.path = d.path
    BY <1>3, OverwrittenSeen
  <2>6. DeleteRefers(m, s, e)
    BY <2>3, <2>4, <2>5 DEF DeleteRefers
  <2> HIDE DEF m, s
  <2> QED
    BY <1>5, <2>1, <2>2, <2>6 DEF DeletesRefer, m, s
<1> QED
  BY <1>1, <1>2, <1>7, <1>8, <1>9 DEF StatementEffect, Effect, ChangesRefer

\* DELETE from a committed file drops it or writes a delete file.
LEMMA DeleteFromFileEffect ==
    ASSUME NEW c \in Clients, ClientInv(c), NEW f \in View(c).data_file, f.table \in Tables,
           NEW R, R # {}, DeleteFromFile(c, f, R)
    PROVE  StatementEffect(c)
<1> DEFINE positions == NewPositions(c, f, R)
<1>1. CASE DropFile(c, f)
  BY <1>1, DropFileEffect
<1>2. CASE WriteDeleteFile(c, f, positions)
  <2>1. "delete_again" \notin Workload => CommittedDelete(c, f) = {} \/ LocalDelete(c, f) = {}
    BY DEF DeleteFromFile
  <2>2. ASSUME "delete_more" \notin Workload
        PROVE  positions # {} /\ (\A p \in positions : p.snap = Null) /\ CommittedDelete(c, f) = {}
    <3>1. CommittedDelete(c, f) = {}
      BY <2>2 DEF DeleteFromFile
    <3> DEFINE old == UNION {d.positions : d \in IF LocalDelete(c, f) # {} THEN LocalDelete(c, f) ELSE {}}
               new == {[row |-> r, snap |-> Null] : r \in R}
    <3>2. positions = old \cup new
      BY <3>1 DEF NewPositions
    <3>3. \A p \in new : p.snap = Null
      OBVIOUS
    <3>4. new # {}
      OBVIOUS
    <3>5. \A p \in old : p.snap = Null
      <4>1. \A d \in LocalDelete(c, f) : \A p \in d.positions : p.snap = Null
        BY <2>2 DEF LocalDelete, ClientInv, ChangesRefer, DeletesRefer, DeleteRefers
      <4> QED
        BY <4>1
    <3> HIDE DEF old, new, positions
    <3> QED
      BY <3>1, <3>2, <3>3, <3>4, <3>5
  <2> HIDE DEF positions
  <2> QED
    BY <1>2, <2>1, <2>2, WriteDeleteFileEffect
<1> QED
  BY <1>1, <1>2 DEF DeleteFromFile

\* A compaction of files that the transaction sees.
LEMMA CompactEffect ==
    ASSUME NEW c \in Clients, ClientInv(c), NEW t \in Tables, NEW x, Compact(c, t, x),
           x.table = t, x.type \in {"merge", "rewrite"},
           x.path = {} \/ (x.path = {FreshPath} /\ CanWriteFile),
           \A f \in x.sources : f \in View(c).data_file /\ f.table = t,
           x.type = "merge" => \A f \in x.sources : \A d \in View(c).delete_file : d.file # f.id
    PROVE  StatementEffect(c)
<1> DEFINE l == [local[c] EXCEPT !.compactions = @ \cup {x}]
<1>1. Statement(c, t, l, x.path, {})
  BY DEF Compact
<1>2. x.path \subseteq Paths /\ x.path \cap LocalPaths(local[c]) = {}
  BY FreshName DEF ClientInv
<1>3. /\ DOMAIN l = LocalFields
      /\ l.new_data_files = local[c].new_data_files
      /\ l.new_delete_files = local[c].new_delete_files
      /\ l.dropped_files = local[c].dropped_files
      /\ l.inlined_file_deletes = local[c].inlined_file_deletes
      /\ l.compactions = local[c].compactions \cup {x}
      /\ l.altered_tables = local[c].altered_tables
      /\ l.dropped_tables = local[c].dropped_tables
      /\ l.delete_attempted = local[c].delete_attempted
  BY DEF ClientInv, GoodChanges, TypedChanges, LocalFields
<1> HIDE DEF l
<1>4. TypedChanges(l)
  BY <1>3 DEF ClientInv, GoodChanges, TypedChanges
<1>5. GoodChanges(l) /\ LocalPaths(l) = LocalPaths(local[c]) \cup x.path
  BY <1>2, <1>3, <1>4, AddCompaction DEF ClientInv
<1>6. ChangesRefer(View(c), txn[c].snap, l)
  <2>1. DeletesRefer(View(c), txn[c].snap, l)
    BY <1>3 DEF ClientInv, ChangesRefer, DeletesRefer
  <2>2. CompactionsRefer(View(c), l)
    BY <1>3 DEF ClientInv, ChangesRefer, CompactionsRefer
  <2> QED
    BY <2>1, <2>2 DEF ChangesRefer
<1> QED
  BY <1>1, <1>2, <1>5, <1>6 DEF StatementEffect, Effect

LEMMA MergeEffect ==
    ASSUME NEW c \in Clients, ClientInv(c), NEW t \in Tables, NEW S \in SUBSET MergeCandidates(c, t),
           MergeAdjacentFiles(c, t, S)
    PROVE  StatementEffect(c)
<1>1. PICK rows, begin, partial_max :
         CanWriteFile /\ Compact(c, t, [type |-> "merge", table |-> t, sources |-> S, deletes |-> {},
                                        path |-> {FreshPath}, rows |-> rows, begin |-> begin,
                                        partial_max |-> partial_max])
  BY DEF MergeAdjacentFiles
<1> DEFINE x == [type |-> "merge", table |-> t, sources |-> S, deletes |-> {}, path |-> {FreshPath},
                 rows |-> rows, begin |-> begin, partial_max |-> partial_max]
<1>2. x.table = t /\ x.type = "merge" /\ x.path = {FreshPath} /\ x.sources = S
  OBVIOUS
<1>3. \A f \in S : /\ f \in View(c).data_file /\ f.table = t
                   /\ \A d \in View(c).delete_file : d.file # f.id
  BY DEF MergeCandidates
<1>4. CanWriteFile /\ Compact(c, t, x)
  BY <1>1
<1> HIDE DEF x
<1> QED
  BY <1>2, <1>3, <1>4, CompactEffect

LEMMA RewriteEffect ==
    ASSUME NEW c \in Clients, ClientInv(c), NEW t \in Tables, NEW S \in SUBSET RewriteCandidates(c, t),
           RewriteDeletes(c, t, S)
    PROVE  StatementEffect(c)
<1>1. PICK rows, deletes :
         /\ rows # {} => CanWriteFile
         /\ Compact(c, t, [type |-> "rewrite", table |-> t, sources |-> S, deletes |-> deletes,
                           path |-> IF rows = {} THEN {} ELSE {FreshPath}, rows |-> rows,
                           begin |-> Null, partial_max |-> Null])
  BY DEF RewriteDeletes
<1> DEFINE x == [type |-> "rewrite", table |-> t, sources |-> S, deletes |-> deletes,
                 path |-> IF rows = {} THEN {} ELSE {FreshPath}, rows |-> rows,
                 begin |-> Null, partial_max |-> Null]
<1>2. /\ x.table = t /\ x.type = "rewrite" /\ x.sources = S
      /\ x.path = {} \/ (x.path = {FreshPath} /\ CanWriteFile)
  BY <1>1
<1>3. \A f \in S : f \in View(c).data_file /\ f.table = t
  BY DEF RewriteCandidates
<1>4. Compact(c, t, x)
  BY <1>1
<1> HIDE DEF x
<1> QED
  BY <1>2, <1>3, <1>4, CompactEffect

\* Every statement.
LEMMA AnyStatementEffect ==
    ASSUME NEW c \in Clients, ClientInv(c), AnyStatement(c)
    PROVE  StatementEffect(c)
<1>1. PICK t \in Tables :
        \/ Insert(c, t)
        \/ DeleteNothing(c, t)
        \/ \E n \in {m \in local[c].new_data_files : m.table = t} :
              \E R \in (SUBSET (n.rows \ n.deleted)) \ {{}} : DeleteFromLocalFile(c, n, R)
        \/ \E f \in ReadableFiles(c, t) : \E R \in (SUBSET ReadableRows(c, f)) \ {{}} :
              DeleteFromFile(c, f, R) \/ InlineDelete(c, f, R)
        \/ \E S \in SUBSET MergeCandidates(c, t) : MergeAdjacentFiles(c, t, S)
        \/ \E S \in SUBSET RewriteCandidates(c, t) : RewriteDeletes(c, t, S)
        \/ AlterTable(c, t)
        \/ DropTable(c, t)
  BY DEF AnyStatement
<1>2. \A f \in ReadableFiles(c, t) : f \in View(c).data_file /\ f.table \in Tables
  BY DEF ReadableFiles
<1>3. ASSUME NEW n \in {m \in local[c].new_data_files : m.table = t},
             \E R \in (SUBSET (n.rows \ n.deleted)) \ {{}} : DeleteFromLocalFile(c, n, R)
      PROVE  StatementEffect(c)
  BY <1>3, DeleteFromLocalFileEffect
<1>4. ASSUME NEW f \in ReadableFiles(c, t),
             \E R \in (SUBSET ReadableRows(c, f)) \ {{}} : DeleteFromFile(c, f, R) \/ InlineDelete(c, f, R)
      PROVE  StatementEffect(c)
  <2>1. PICK R \in (SUBSET ReadableRows(c, f)) \ {{}} : DeleteFromFile(c, f, R) \/ InlineDelete(c, f, R)
    BY <1>4
  <2>2. R # {} /\ f \in View(c).data_file /\ f.table \in Tables
    BY <1>2
  <2>3. CASE DeleteFromFile(c, f, R)
    BY <2>2, <2>3, DeleteFromFileEffect
  <2>4. CASE InlineDelete(c, f, R)
    BY <2>2, <2>4, InlineDeleteEffect
  <2> QED
    BY <2>1, <2>3, <2>4
<1>5. ASSUME \/ \E S \in SUBSET MergeCandidates(c, t) : MergeAdjacentFiles(c, t, S)
             \/ \E S \in SUBSET RewriteCandidates(c, t) : RewriteDeletes(c, t, S)
      PROVE  StatementEffect(c)
  BY <1>5, MergeEffect, RewriteEffect
<1>6. ASSUME Insert(c, t) \/ DeleteNothing(c, t) \/ AlterTable(c, t) \/ DropTable(c, t)
      PROVE  StatementEffect(c)
  BY <1>6, InsertEffect, DeleteNothingEffect, AlterTableEffect, DropTableEffect
<1> QED
  BY <1>1, <1>3, <1>4, <1>5, <1>6

----------------------------------------------------------------------------
(* The commit protocol.                                                    *)

\* A statement is one that SnapshotCommit allows.
LEMMA StatementIsWork ==
    ASSUME NEW c \in Clients, ClientInv(c), StatementEffect(c)
    PROVE  AnyWork(c)
<1>1. PICK t, l, new, gone : Statement(c, t, l, new, gone) /\ Effect(c, l, new, gone)
  BY DEF StatementEffect
<1> DEFINE ch == TransactionChanges(l)
<1>2. /\ ch \in ChangeSets
      /\ new \in SUBSET Paths
      /\ gone \in SUBSET txn[c].files
      /\ LocalPaths(l) = (txn[c].files \ gone) \cup new
  BY <1>1, ChangesOf, AllChangeSets DEF Effect, GoodChanges, ClientInv
<1>3. ~ChangesMade(ch) => LocalPaths(l) = {}
  BY <1>1, NoChangesNoFiles DEF Effect, GoodChanges
<1>4. RoomFor(c) /\ Work(c, ch, new, gone)
  BY <1>1 DEF Statement
<1> HIDE DEF ch
<1> QED
  BY <1>2, <1>3, <1>4 DEF AnyWork

\* Every step is one of the commit protocol.
LEMMA LakeStepIsCommitStep ==
    ASSUME LocalInv, [LakeNext]_lakeVars
    PROVE  [CommitNext]_commitVars
<1>1. CASE UNCHANGED lakeVars
  BY <1>1 DEF lakeVars
<1>2. ASSUME NEW c \in Clients, AnyStatement(c) PROVE CommitNext
  <2>1. AnyWork(c)
    BY <1>2, AnyStatementEffect, StatementIsWork DEF LocalInv
  <2> QED
    BY <2>1 DEF CommitNext
<1>3. ASSUME NEW c \in Clients, Commit(c) PROVE CommitNext
  BY <1>3 DEF Commit, CommitNext
<1>4. ASSUME NEW c \in Clients, OtherStep(c) PROVE CommitNext
  <2>1. DeletedMeanwhile(c) \in BOOLEAN
    BY DEF DeletedMeanwhile
  <2> QED
    BY <1>4, <2>1 DEF OtherStep, CommitNext
<1> QED
  BY <1>1, <1>2, <1>3, <1>4 DEF LakeNext

LEMMA StatementKeepsLocalInv ==
    ASSUME TypeInv, LocalInv, NEW c \in Clients, StatementEffect(c)
    PROVE  LocalInv'
<1>1. PICK t, l, new, gone : Statement(c, t, l, new, gone) /\ Effect(c, l, new, gone)
  BY DEF StatementEffect
<1>2. /\ local' = [local EXCEPT ![c] = l] /\ versions' = versions /\ log' = log
      /\ txn[c].phase = "active"
      /\ txn' = [txn EXCEPT ![c].changes = TransactionChanges(l), ![c].files = (@ \ gone) \cup new]
  BY <1>1 DEF Statement, Work
<1>3. /\ txn'[c].phase = "active" /\ txn'[c].snap = txn[c].snap
      /\ txn'[c].changes = TransactionChanges(l)
      /\ txn'[c].files = (txn[c].files \ gone) \cup new
      /\ \A d \in Clients \ {c} : txn'[d] = txn[d]
  BY <1>2 DEF TypeInv, CommitTypeOK, Transaction
<1>4. /\ local' = [d \in Clients |-> local'[d]]
      /\ local'[c] = l
      /\ \A d \in Clients \ {c} : local'[d] = local[d]
  BY <1>2 DEF LocalInv
<1>5. \A d \in Clients : View(d)' = View(d)
  BY <1>2, <1>3 DEF View
<1>6. ClientInv(c)'
  BY <1>1, <1>3, <1>4, <1>5 DEF ClientInv, LocalInv, Effect
<1>7. ASSUME NEW d \in Clients \ {c} PROVE ClientInv(d)'
  BY <1>3, <1>4, <1>5 DEF ClientInv, LocalInv
<1> QED
  BY <1>2, <1>4, <1>6, <1>7 DEF LocalInv

\* A step of the protocol ends the transaction of its client, begins one, or goes on
\* with the same snapshot, changes and files.
LEMMA OwnSteps ==
    ASSUME TypeInv, NEW c \in Clients, Commit(c) \/ OtherStep(c)
    PROVE  /\ \A d \in Clients \ {c} : txn'[d] = txn[d]
           /\ \/ txn'[c] = NoTransaction
              \/ txn[c].phase = "idle" /\ txn'[c] = NewTransaction(Len(log))
              \/ /\ txn[c].phase # "idle" /\ txn'[c].phase # "idle"
                 /\ txn'[c].snap = txn[c].snap /\ txn'[c].changes = txn[c].changes
                 /\ txn'[c].files = txn[c].files
<1> USE DEF TypeInv, CommitTypeOK
<1>1. CASE EndTransaction(c)
  BY <1>1 DEF EndTransaction
<1>2. CASE Begin(c)
  BY <1>2 DEF Begin
<1>3. CASE CommitStart(c)
  BY <1>3 DEF CommitStart, Transaction
<1>4. CASE Retry(c, DeletedMeanwhile(c))
  BY <1>4 DEF Retry, Transaction
<1>5. CASE SnapshotIdTaken(c) \/ TransientError(c)
  BY <1>1, <1>5 DEF SnapshotIdTaken, TransientError, RetryOrGiveUp, Transaction
<1> QED
  BY <1>1, <1>2, <1>3, <1>4, <1>5
  DEF Commit, OtherStep, Rollback, CommitNothing, ExecuteCommitBatch, FatalError, AbortOnConflict, Crash

\* A sequence that grows keeps what it has.
LEMMA AppendKeeps ==
    ASSUME NEW s, \E S : s \in Seq(S), NEW e
    PROVE  /\ \E S : Append(s, e) \in Seq(S)
           /\ Len(s) \in Nat
           /\ Len(Append(s, e)) = Len(s) + 1
           /\ \A i \in 1 .. Len(s) : Append(s, e)[i] = s[i]
           /\ Append(s, e)[Len(s) + 1] = e
<1>1. PICK S : s \in Seq(S)
  OBVIOUS
<1>2. s \in Seq(S \cup {e}) /\ e \in S \cup {e}
  BY <1>1
<1> QED
  BY <1>2

\* The metadata that a commit leaves.
Committed(c) == CommitChanges(Last(versions), local[c], Len(log) + 1, log[txn[c].base].next_file_id)

\* Versions are only added.
LEMMA VersionsGrow ==
    ASSUME TypeInv, LocalInv, NEW c \in Clients, Commit(c) \/ OtherStep(c)
    PROVE  /\ \E S : versions' \in Seq(S)
           /\ Len(versions') = Len(log')
           /\ \A i \in 1 .. Len(versions) : versions'[i] = versions[i]
           /\ Commit(c) => versions'[Len(log) + 1] = Committed(c) /\ Len(log') = Len(log) + 1
           /\ ~Commit(c) => versions' = versions /\ log' = log
<1>0. \E S : versions \in Seq(S)
  BY DEF LocalInv
<1>1. CASE Commit(c)
  <2>1. versions' = Append(versions, Committed(c)) /\ log' = Append(log, NewSnapshot(txn[c]))
    BY <1>1 DEF Commit, ExecuteCommitBatch, Committed
  <2>2. /\ \E S : Append(versions, Committed(c)) \in Seq(S)
        /\ Len(Append(versions, Committed(c))) = Len(versions) + 1
        /\ \A i \in 1 .. Len(versions) : Append(versions, Committed(c))[i] = versions[i]
        /\ Append(versions, Committed(c))[Len(versions) + 1] = Committed(c)
    BY <1>0, AppendKeeps, ZenonT(60)
  <2>3. Len(log') = Len(log) + 1
    <3>1. \E S : log \in Seq(S)
      BY DEF TypeInv, CommitTypeOK
    <3> QED
      BY <2>1, <3>1, AppendKeeps
  <2> QED
    BY <1>1, <2>1, <2>2, <2>3 DEF LocalInv
<1>2. CASE ~Commit(c)
  <2>1. versions' = versions /\ log' = log
    BY <1>2 DEF OtherStep, Begin, Rollback, CommitNothing, CommitStart, SnapshotIdTaken, TransientError,
         FatalError, Retry, AbortOnConflict, Crash
  <2> QED
    BY <1>0, <1>2, <2>1 DEF LocalInv
<1> QED
  BY <1>1, <1>2

LEMMA ProtocolKeepsLocalInv ==
    ASSUME TypeInv, LocalInv, NEW c \in Clients, Commit(c) \/ OtherStep(c),
           local' = [local EXCEPT ![c] = IF txn'[c].phase = "idle" THEN NoLocalChanges ELSE @]
    PROVE  LocalInv'
<1>1. /\ local' = [d \in Clients |-> local'[d]]
      /\ local'[c] = IF txn'[c].phase = "idle" THEN NoLocalChanges ELSE local[c]
      /\ \A d \in Clients \ {c} : local'[d] = local[d]
  BY DEF LocalInv
<1>2. ASSUME NEW d \in Clients, txn[d].phase # "idle", txn'[d].snap = txn[d].snap
      PROVE  View(d)' = View(d)
  BY <1>2, VersionsGrow DEF View, TypeInv, SnapshotsInLog, LocalInv
<1>3. \A m, s : ChangesRefer(m, s, NoLocalChanges)
  BY DEF ChangesRefer, DeletesRefer, CompactionsRefer, NoLocalChanges
<1>4. ASSUME NEW d \in Clients \ {c} PROVE ClientInv(d)'
  <2>1. txn'[d] = txn[d] /\ local'[d] = local[d] /\ ClientInv(d)
    BY <1>1, OwnSteps DEF LocalInv
  <2>2. CASE txn[d].phase = "idle"
    BY <1>3, <2>1, <2>2 DEF ClientInv
  <2>3. CASE txn[d].phase # "idle"
    BY <1>2, <2>1, <2>3 DEF ClientInv
  <2> QED
    BY <2>2, <2>3
<1>5. ClientInv(c)'
  <2>1. CASE local'[c] = NoLocalChanges /\ txn'[c].files = {} /\ txn'[c].changes = {}
    BY <1>3, <2>1, NoLocal DEF ClientInv, GoodChanges
  <2>2. CASE txn'[c] = NoTransaction
    BY <1>1, <2>1, <2>2 DEF NoTransaction
  <2>3. CASE txn[c].phase = "idle" /\ txn'[c] = NewTransaction(Len(log))
    BY <1>1, <2>1, <2>3 DEF NewTransaction, LocalInv, ClientInv
  <2>4. CASE /\ txn[c].phase # "idle" /\ txn'[c].phase # "idle"
             /\ txn'[c].snap = txn[c].snap /\ txn'[c].changes = txn[c].changes
             /\ txn'[c].files = txn[c].files
    BY <1>1, <1>2, <2>4 DEF LocalInv, ClientInv
  <2> QED
    BY <2>2, <2>3, <2>4, OwnSteps
<1> QED
  BY <1>1, <1>4, <1>5, VersionsGrow DEF LocalInv

LEMMA LocalInvNext == TypeInv /\ LocalInv /\ [LakeNext]_lakeVars => LocalInv'
<1> SUFFICES ASSUME TypeInv, LocalInv, [LakeNext]_lakeVars PROVE LocalInv'
  OBVIOUS
<1>1. CASE UNCHANGED lakeVars
  BY <1>1 DEF lakeVars, commitVars, LocalInv, ClientInv, View
<1>2. ASSUME NEW c \in Clients, AnyStatement(c) PROVE LocalInv'
  BY <1>2, AnyStatementEffect, StatementKeepsLocalInv DEF LocalInv
<1> QED
  BY <1>1, <1>2, ProtocolKeepsLocalInv DEF LakeNext

LEMMA LocalInvInit == LakeInit => LocalInv
<1> SUFFICES ASSUME LakeInit PROVE LocalInv
  OBVIOUS
<1>1. local = [c \in Clients |-> NoLocalChanges] /\ versions = <<NoMetadata>> /\ Len(log) = 1
      /\ txn = [c \in Clients |-> NoTransaction]
  BY DEF LakeInit, CommitInit
<1>2. versions \in Seq({NoMetadata}) /\ Len(versions) = 1
  BY <1>1
<1>3. \A m, s : ChangesRefer(m, s, NoLocalChanges)
  BY DEF ChangesRefer, DeletesRefer, CompactionsRefer, NoLocalChanges
<1>4. ASSUME NEW c \in Clients PROVE ClientInv(c)
  <2>1. local[c] = NoLocalChanges /\ txn[c].files = {} /\ txn[c].changes = {}
    BY <1>1 DEF NoTransaction
  <2> QED
    BY <1>3, <2>1, NoLocal DEF ClientInv, GoodChanges
<1> QED
  BY <1>1, <1>2, <1>4 DEF LocalInv

\* The statements, with their effect on files and metadata, are ones that the commit
\* protocol of SnapshotCommit allows: each writes under new names, removes only files of
\* its own transaction, and a transaction whose changes cancel out has no files left
\* (LocalTableChanges::AddDeletesToMap and DropTransactionLocalFile).
THEOREM LakeImplementsCommit == LakeSpec => CommitSpec
<1>1. LakeInit => CommitInit
  BY DEF LakeInit
<1>2. LakeInit => TypeInv /\ LocalInv
  BY <1>1, TypeInvInit, LocalInvInit
<1>3. TypeInv /\ LocalInv /\ [LakeNext]_lakeVars => TypeInv' /\ LocalInv' /\ [CommitNext]_commitVars
  BY LakeStepIsCommitStep, TypeInvNext, LocalInvNext
<1> QED
  BY <1>1, <1>2, <1>3, PTL DEF LakeSpec, CommitSpec

----------------------------------------------------------------------------
(* File ids.                                                               *)

\* The ids of the paths in S are different, and lie in a row from id on.
LEMMA IdsOfPaths ==
    ASSUME NEW S \in SUBSET Paths, NEW id \in Nat
    PROVE  /\ IsFiniteSet(S) /\ Cardinality(S) \in Nat
           /\ \A p \in S : IdOf(p, S, id) \in Nat /\ id <= IdOf(p, S, id) /\ IdOf(p, S, id) < id + Cardinality(S)
           /\ \A p, q \in S : IdOf(p, S, id) = IdOf(q, S, id) => p = q
<1> DEFINE Below(p) == {q \in S : q < p}
<1>1. IsFiniteSet(S) /\ Cardinality(S) \in Nat
  BY PathsFinite, FS_Subset, FS_CardinalityType
<1>2. \A p \in S : p \in Nat
  BY PathsOrdered
<1>3. ASSUME NEW p \in S
      PROVE  /\ IsFiniteSet(Below(p)) /\ Cardinality(Below(p)) \in Nat
             /\ Cardinality(Below(p)) < Cardinality(S)
  <2>1. Below(p) \in SUBSET S /\ p \notin Below(p)
    BY <1>2
  <2>2. IsFiniteSet(Below(p)) /\ Cardinality(Below(p)) <= Cardinality(S)
        /\ (Cardinality(S) = Cardinality(Below(p)) => S = Below(p))
    BY <1>1, <2>1, FS_Subset
  <2>3. Cardinality(Below(p)) \in Nat
    BY <2>2, FS_CardinalityType
  <2> QED
    BY <1>1, <2>1, <2>2, <2>3
<1>4. ASSUME NEW p \in S, NEW q \in S, p < q
      PROVE  Cardinality(Below(p)) < Cardinality(Below(q))
  <2>1. Below(p) \in SUBSET Below(q) /\ p \in Below(q) /\ p \notin Below(p)
    BY <1>2, <1>4
  <2>2. Cardinality(Below(p)) <= Cardinality(Below(q))
        /\ (Cardinality(Below(q)) = Cardinality(Below(p)) => Below(q) = Below(p))
    BY <1>3, <2>1, FS_Subset
  <2> QED
    BY <1>3, <2>1, <2>2
<1>5. \A p : IdOf(p, S, id) = id + Cardinality(Below(p))
  BY DEF IdOf
<1> HIDE DEF Below
<1>6. \A p \in S : IdOf(p, S, id) \in Nat /\ id <= IdOf(p, S, id) /\ IdOf(p, S, id) < id + Cardinality(S)
  BY <1>1, <1>3, <1>5
<1>7. ASSUME NEW p \in S, NEW q \in S, IdOf(p, S, id) = IdOf(q, S, id) PROVE p = q
  <2>1. Cardinality(Below(p)) = Cardinality(Below(q))
    BY <1>3, <1>5, <1>7
  <2>2. p < q \/ q < p \/ p = q
    BY <1>2
  <2> QED
    BY <1>3, <1>4, <2>1, <2>2
<1> QED
  BY <1>1, <1>6, <1>7

\* The three ranges of ids that a commit hands out do not overlap, and fill those that
\* its snapshot takes.
LEMMA IdRanges ==
    ASSUME NEW l, GoodChanges(l), LocalPaths(l) \subseteq Paths
    PROVE  /\ DataPaths(l) \in SUBSET Paths /\ DeletePaths(l) \in SUBSET Paths
           /\ OutputPaths(l) \in SUBSET Paths
           /\ Cardinality(DataPaths(l)) \in Nat /\ Cardinality(DeletePaths(l)) \in Nat
           /\ Cardinality(OutputPaths(l)) \in Nat
           /\ Cardinality(LocalPaths(l)) = Cardinality(DataPaths(l)) + Cardinality(DeletePaths(l))
                                           + Cardinality(OutputPaths(l))
<1> DEFINE A == DataPaths(l)
           B == DeletePaths(l)
           C == OutputPaths(l)
<1>1. A \in SUBSET Paths /\ B \in SUBSET Paths /\ C \in SUBSET Paths
  BY DEF LocalPaths
<1>2. /\ IsFiniteSet(A) /\ IsFiniteSet(B) /\ IsFiniteSet(C)
      /\ Cardinality(A) \in Nat /\ Cardinality(B) \in Nat /\ Cardinality(C) \in Nat
  BY <1>1, PathsFinite, FS_Subset, FS_CardinalityType
<1>3. A \cap B = {}
  BY DEF GoodChanges, FilesNamedOnce, DataPaths, DeletePaths
<1>4. (A \cup B) \cap C = {}
  BY DEF GoodChanges, FilesNamedOnce, DataPaths, DeletePaths, OutputPaths
<1> HIDE DEF A, B, C
<1>5. IsFiniteSet(A \cup B) /\ Cardinality(A \cup B) = Cardinality(A) + Cardinality(B)
  BY <1>2, <1>3, FS_Union, FS_EmptySet
<1> DEFINE AB == A \cup B
<1>6. Cardinality(AB \cup C) = Cardinality(AB) + Cardinality(C)
  <2>1. IsFiniteSet(AB) /\ AB \cap C = {} /\ Cardinality(AB) \in Nat
    BY <1>4, <1>5, FS_CardinalityType
  <2> HIDE DEF AB
  <2>2. Cardinality(AB \cup C) = Cardinality(AB) + Cardinality(C) - Cardinality(AB \cap C)
    BY <1>2, <2>1, FS_Union
  <2>3. Cardinality({}) = 0
    BY FS_EmptySet
  <2>4. Cardinality(AB \cap C) = 0
    BY <2>1, <2>3
  <2> QED
    BY <1>2, <2>1, <2>2, <2>4
<1> QED
  BY <1>1, <1>2, <1>5, <1>6 DEF LocalPaths, A, B, C

----------------------------------------------------------------------------
(* What CommitChanges makes of the metadata, table by table.               *)

FileFields == {"id", "table", "path", "rows", "begin", "end", "partial_max"}

DeleteFields == {"id", "file", "table", "path", "positions", "begin", "end"}

MetadataFields == {"data_file", "delete_file", "inlined_delete", "table_end", "scheduled"}

\* The sets that the steps of CommitChanges put in place of one another.
EndedTables(S, ts, k) == {IF x.end = Null /\ x.table \in ts THEN [x EXCEPT !.end = k] ELSE x : x \in S}

EndedFiles(S, dropped, k) ==
    {IF f.end = Null /\ [file |-> f.id, table |-> f.table] \in dropped THEN [f EXCEPT !.end = k] ELSE f : f \in S}

EndedIds(S, ids, k) == {IF x.id \in ids THEN [x EXCEPT !.end = k] ELSE x : x \in S}

NewDataRow(n, l, k, id) ==
    [id |-> IdOf(n.path, DataPaths(l), id), table |-> n.table, path |-> n.path,
     rows |-> {[row |-> r, snap |-> Null] : r \in n.rows},
     begin |-> k, end |-> Null, partial_max |-> Null]

NewDataRows(l, k, id) == {NewDataRow(n, l, k, id) : n \in l.new_data_files}

DeleteId(p, l, id) == IdOf(p, DeletePaths(l), id + Cardinality(DataPaths(l)))

NewDeleteRow(d, l, k, id) ==
    [id |-> DeleteId(d.path, l, id), file |-> d.file, table |-> d.table, path |-> d.path,
     positions |-> d.positions, begin |-> IF d.begin = Null THEN k ELSE d.begin, end |-> Null]

NewDeleteRows(l, k, id) == {NewDeleteRow(d, l, k, id) : d \in l.new_delete_files}

OnlyPath(S) == CHOOSE p \in S : TRUE

NewFileDeleteRow(n, l, k, id) ==
    [id |-> DeleteId(OnlyPath(n.delete_path), l, id), file |-> IdOf(n.path, DataPaths(l), id),
     table |-> n.table, path |-> OnlyPath(n.delete_path),
     positions |-> {[row |-> r, snap |-> Null] : r \in n.deleted}, begin |-> k, end |-> Null]

NewFileDeleteRows(l, k, id) ==
    {NewFileDeleteRow(n, l, k, id) : n \in {o \in l.new_data_files : o.delete_path # {}}}

OverwrittenBy(l) == UNION {d.overwritten : d \in l.new_delete_files}

OverwrittenIds(l) == {o.id : o \in OverwrittenBy(l)}

OverwrittenPaths(l) == {o.path : o \in OverwrittenBy(l)}

SourceIds(l, type) == {f.id : f \in SourceFiles(l, type)}

SourcePaths(l, type) == {f.path : f \in SourceFiles(l, type)}

RewrittenDeletes(l) == {d.id : d \in UNION {x.deletes : x \in l.compactions}}

WithoutIds(S, ids) == {x \in S : x.id \notin ids}

WithoutFiles(S, ids) == {d \in S : d.file \notin ids}

FilesAfter(S, l, k, id) ==
    EndedIds(WithoutIds(EndedFiles(EndedTables(S, l.dropped_tables, k) \cup NewDataRows(l, k, id), l.dropped_files, k),
                        SourceIds(l, "merge")) \cup OutputFiles(l, "merge", k, id),
             SourceIds(l, "rewrite"), k) \cup OutputFiles(l, "rewrite", k, id)

DeletesAfter(S, l, k, id) ==
    EndedIds(WithoutFiles(WithoutIds(EndedTables(S, l.dropped_tables, k), OverwrittenIds(l))
                              \cup NewDeleteRows(l, k, id) \cup NewFileDeleteRows(l, k, id),
                          SourceIds(l, "merge")),
             RewrittenDeletes(l), k)

\* The steps of CommitChanges, in its order.
LEMMA CommitChangesFields ==
    ASSUME NEW m0, DOMAIN m0 = MetadataFields, NEW l, NEW k, NEW id, NEW m, m = CommitChanges(m0, l, k, id)
    PROVE  /\ DOMAIN m = MetadataFields
           /\ m.data_file = FilesAfter(m0.data_file, l, k, id)
           /\ m.delete_file = DeletesAfter(m0.delete_file, l, k, id)
           /\ m.scheduled = (m0.scheduled \cup OverwrittenPaths(l)) \cup SourcePaths(l, "merge")
<1> DEFINE m1 == DropTables(m0, l.dropped_tables, k)
           m2 == WriteNewDataFiles(m1, l, k, id)
           m3 == DropDataFiles(m2, l, k)
           m4 == DeleteOverwrittenDeleteFiles(m3, l)
           m5 == WriteNewDeleteFiles(m4, l, k, id)
           m6 == WriteNewInlinedFileDeletes(m5, l, k)
           m7 == WriteMergeAdjacent(m6, l, k, id)
           m8 == WriteDeleteRewrites(m7, l, k, id)
<1>0. m = m8
  BY DEF CommitChanges
<1>1. /\ DOMAIN m1 = MetadataFields /\ m1.scheduled = m0.scheduled
      /\ m1.data_file = EndedTables(m0.data_file, l.dropped_tables, k)
      /\ m1.delete_file = EndedTables(m0.delete_file, l.dropped_tables, k)
  BY DEF DropTables, Ended, EndedTables, MetadataFields
<1> HIDE DEF m1
<1>2. /\ DOMAIN m2 = MetadataFields /\ m2.scheduled = m1.scheduled
      /\ m2.data_file = m1.data_file \cup NewDataRows(l, k, id)
      /\ m2.delete_file = m1.delete_file
  BY <1>1 DEF WriteNewDataFiles, NewDataRows, NewDataRow, MetadataFields
<1> HIDE DEF m2
<1>3. /\ DOMAIN m3 = MetadataFields /\ m3.scheduled = m2.scheduled
      /\ m3.data_file = EndedFiles(m2.data_file, l.dropped_files, k)
      /\ m3.delete_file = m2.delete_file
  BY <1>2 DEF DropDataFiles, Ended, EndedFiles, MetadataFields
<1> HIDE DEF m3
<1>4. /\ DOMAIN m4 = MetadataFields /\ m4.scheduled = m3.scheduled \cup OverwrittenPaths(l)
      /\ m4.data_file = m3.data_file
      /\ m4.delete_file = WithoutIds(m3.delete_file, OverwrittenIds(l))
  BY <1>3 DEF DeleteOverwrittenDeleteFiles, WithoutIds, OverwrittenIds, OverwrittenPaths, OverwrittenBy, MetadataFields
<1> HIDE DEF m4
<1>5. /\ DOMAIN m5 = MetadataFields /\ m5.scheduled = m4.scheduled
      /\ m5.data_file = m4.data_file
      /\ m5.delete_file = m4.delete_file \cup NewDeleteRows(l, k, id) \cup NewFileDeleteRows(l, k, id)
  BY <1>4 DEF WriteNewDeleteFiles, NewDeleteRows, NewDeleteRow, NewFileDeleteRows, NewFileDeleteRow, DeleteId,
       OnlyPath, MetadataFields
<1> HIDE DEF m5
<1>6. /\ DOMAIN m6 = MetadataFields /\ m6.scheduled = m5.scheduled
      /\ m6.data_file = m5.data_file /\ m6.delete_file = m5.delete_file
  BY <1>5 DEF WriteNewInlinedFileDeletes, MetadataFields
<1> HIDE DEF m6
<1>7. /\ DOMAIN m7 = MetadataFields /\ m7.scheduled = m6.scheduled \cup SourcePaths(l, "merge")
      /\ m7.data_file = WithoutIds(m6.data_file, SourceIds(l, "merge")) \cup OutputFiles(l, "merge", k, id)
      /\ m7.delete_file = WithoutFiles(m6.delete_file, SourceIds(l, "merge"))
  BY <1>6 DEF WriteMergeAdjacent, WithoutIds, WithoutFiles, SourceIds, SourcePaths, MetadataFields
<1> HIDE DEF m7
<1>8. /\ DOMAIN m8 = MetadataFields /\ m8.scheduled = m7.scheduled
      /\ m8.data_file = EndedIds(m7.data_file, SourceIds(l, "rewrite"), k) \cup OutputFiles(l, "rewrite", k, id)
      /\ m8.delete_file = EndedIds(m7.delete_file, RewrittenDeletes(l), k)
  BY <1>7 DEF WriteDeleteRewrites, EndedIds, SourceIds, RewrittenDeletes, MetadataFields
<1> HIDE DEF m8
<1> QED
  BY <1>0, <1>1, <1>2, <1>3, <1>4, <1>5, <1>6, <1>7, <1>8 DEF FilesAfter, DeletesAfter

UniqueIds(S) == \A x, y \in S : x.id = y.id => x = y

\* y is the row x, but it may have ended.
SameRow(x, y) ==
    /\ DOMAIN y = DOMAIN x
    /\ \A a \in DOMAIN x \ {"end"} : y[a] = x[a]
    /\ y.end = Null => x.end = Null

\* T has the rows of S, some of which have ended.
SameRows(S, T) ==
    /\ \A y \in T : \E x \in S : SameRow(x, y)
    /\ \A x \in S : \E y \in T : SameRow(x, y)
    /\ UniqueIds(S) => UniqueIds(T)

HasFields(S, fields) == \A x \in S : DOMAIN x = fields

LEMMA RowEnds ==
    ASSUME NEW k \in Nat \ {0}, NEW x, "end" \in DOMAIN x
    PROVE  SameRow(x, x) /\ SameRow(x, [x EXCEPT !.end = k])
<1> DEFINE y == [x EXCEPT !.end = k]
<1>1. DOMAIN y = DOMAIN x /\ y.end = k /\ \A a \in DOMAIN x \ {"end"} : y[a] = x[a]
  OBVIOUS
<1> QED
  BY <1>1 DEF SameRow, Null

LEMMA SameRowImage ==
    ASSUME NEW S, NEW F, \A x \in S : SameRow(x, F[x]) /\ "id" \in DOMAIN x, NEW T, T = {F[x] : x \in S}
    PROVE  SameRows(S, T)
<1>1. \A x \in S : F[x].id = x.id
  BY DEF SameRow
<1>2. UniqueIds(S) => UniqueIds(T)
  BY <1>1 DEF UniqueIds
<1> QED
  BY <1>2 DEF SameRows

LEMMA SameRowTransitive ==
    ASSUME NEW x, NEW y, NEW z, SameRow(x, y), SameRow(y, z)
    PROVE  SameRow(x, z)
BY DEF SameRow

\* None of the steps that end rows does anything else.
LEMMA EndedSame ==
    ASSUME NEW k \in Nat \ {0}, NEW S, \A x \in S : {"id", "end"} \subseteq DOMAIN x, NEW ids
    PROVE  SameRows(S, EndedTables(S, ids, k)) /\ SameRows(S, EndedFiles(S, ids, k)) /\ SameRows(S, EndedIds(S, ids, k))
<1>0. \A x \in S : SameRow(x, x) /\ SameRow(x, [x EXCEPT !.end = k]) /\ "id" \in DOMAIN x
  BY RowEnds
<1>1. SameRows(S, EndedTables(S, ids, k))
  <2> DEFINE F == [x \in S |-> IF x.end = Null /\ x.table \in ids THEN [x EXCEPT !.end = k] ELSE x]
  <2>1. \A x \in S : SameRow(x, F[x]) /\ "id" \in DOMAIN x
    BY <1>0
  <2>2. EndedTables(S, ids, k) = {F[x] : x \in S}
    BY DEF EndedTables
  <2> HIDE DEF F
  <2> QED
    BY <2>1, <2>2, SameRowImage
<1>2. SameRows(S, EndedFiles(S, ids, k))
  <2> DEFINE F == [f \in S |-> IF f.end = Null /\ [file |-> f.id, table |-> f.table] \in ids THEN [f EXCEPT !.end = k] ELSE f]
  <2>1. \A x \in S : SameRow(x, F[x]) /\ "id" \in DOMAIN x
    BY <1>0
  <2>2. EndedFiles(S, ids, k) = {F[x] : x \in S}
    BY DEF EndedFiles
  <2> HIDE DEF F
  <2> QED
    BY <2>1, <2>2, SameRowImage
<1>3. SameRows(S, EndedIds(S, ids, k))
  <2> DEFINE F == [x \in S |-> IF x.id \in ids THEN [x EXCEPT !.end = k] ELSE x]
  <2>1. \A x \in S : SameRow(x, F[x]) /\ "id" \in DOMAIN x
    BY <1>0
  <2>2. EndedIds(S, ids, k) = {F[x] : x \in S}
    BY DEF EndedIds
  <2> HIDE DEF F
  <2> QED
    BY <2>1, <2>2, SameRowImage
<1> QED
  BY <1>1, <1>2, <1>3

----------------------------------------------------------------------------
(* The rows that a commit adds.                                            *)

\* What is known of a commit: its changes, the number of its snapshot and the
\* first id that it hands out.
CommitArguments(l, k, id) ==
    /\ GoodChanges(l) /\ LocalPaths(l) \subseteq Paths
    /\ k \in Nat \ {0} /\ id \in Nat

\* The ids that a commit hands out: from id up to the next snapshot's.
NewIds(l, id) == id .. ((id + Cardinality(LocalPaths(l))) - 1)

FirstOutputId(l, id) == id + Cardinality(DataPaths(l)) + Cardinality(DeletePaths(l))

\* The ids of the data files come first, those of compacted files last.
LEMMA FileIds ==
    ASSUME NEW l, NEW k, NEW id, CommitArguments(l, k, id)
    PROVE  /\ id + Cardinality(LocalPaths(l)) \in Nat /\ id + Cardinality(DataPaths(l)) \in Nat
           /\ id <= id + Cardinality(LocalPaths(l))
           /\ \A p \in DataPaths(l) :
                 /\ IdOf(p, DataPaths(l), id) \in NewIds(l, id)
                 /\ IdOf(p, DataPaths(l), id) < id + Cardinality(DataPaths(l))
           /\ \A p, q \in DataPaths(l) : IdOf(p, DataPaths(l), id) = IdOf(q, DataPaths(l), id) => p = q
           /\ \A p \in DeletePaths(l) : DeleteId(p, l, id) \in NewIds(l, id)
           /\ \A p, q \in DeletePaths(l) : DeleteId(p, l, id) = DeleteId(q, l, id) => p = q
           /\ \A p \in OutputPaths(l) :
                 /\ IdOf(p, OutputPaths(l), FirstOutputId(l, id)) \in NewIds(l, id)
                 /\ IdOf(p, OutputPaths(l), FirstOutputId(l, id)) >= id + Cardinality(DataPaths(l))
           /\ \A p, q \in OutputPaths(l) :
                 IdOf(p, OutputPaths(l), FirstOutputId(l, id)) = IdOf(q, OutputPaths(l), FirstOutputId(l, id)) => p = q
<1> DEFINE A == DataPaths(l)
           B == DeletePaths(l)
           C == OutputPaths(l)
           a == Cardinality(A)
           b == Cardinality(B)
           next == id + Cardinality(LocalPaths(l))
           first == id + a + b
<1>1. /\ A \in SUBSET Paths /\ B \in SUBSET Paths /\ C \in SUBSET Paths
      /\ a \in Nat /\ b \in Nat /\ Cardinality(C) \in Nat
      /\ Cardinality(LocalPaths(l)) = a + b + Cardinality(C)
  BY IdRanges DEF CommitArguments
<1>2. id \in Nat
  BY DEF CommitArguments
<1> HIDE DEF A, B, C
<1>3. first \in Nat /\ id + a \in Nat
  BY <1>1, <1>2
<1> DEFINE ida == id + a
<1>4. next \in Nat /\ next = first + Cardinality(C) /\ first = ida + b /\ ida \in Nat
  BY <1>1, <1>2
<1> HIDE DEF a, b, first, next, ida
<1>5. /\ \A p \in A : IdOf(p, A, id) \in Nat /\ id <= IdOf(p, A, id) /\ IdOf(p, A, id) < id + Cardinality(A)
      /\ \A p, q \in A : IdOf(p, A, id) = IdOf(q, A, id) => p = q
  BY <1>1, <1>2, IdsOfPaths
<1>6. /\ \A p \in B : IdOf(p, B, ida) \in Nat /\ ida <= IdOf(p, B, ida) /\ IdOf(p, B, ida) < ida + Cardinality(B)
      /\ \A p, q \in B : IdOf(p, B, ida) = IdOf(q, B, ida) => p = q
  BY <1>1, <1>4, IdsOfPaths
<1>7. /\ \A p \in C : IdOf(p, C, first) \in Nat /\ first <= IdOf(p, C, first) /\ IdOf(p, C, first) < first + Cardinality(C)
      /\ \A p, q \in C : IdOf(p, C, first) = IdOf(q, C, first) => p = q
  BY <1>1, <1>3, IdsOfPaths
<1>8. \A p : DeleteId(p, l, id) = IdOf(p, B, ida)
  BY DEF DeleteId, B, ida, a, A
<1>9. /\ next \in Nat /\ a \in Nat /\ first \in Nat /\ first <= next /\ id + a <= next /\ id + a <= first
      /\ \A p \in A : IdOf(p, A, id) \in id .. (next - 1) /\ IdOf(p, A, id) < id + a
      /\ \A p \in B : IdOf(p, B, ida) \in id .. (next - 1)
      /\ \A p \in C : IdOf(p, C, first) \in id .. (next - 1) /\ IdOf(p, C, first) >= id + a
  <2>1. ida = id + a /\ a = Cardinality(A) /\ b = Cardinality(B)
    BY DEF ida, a, b
  <2> QED
    BY <1>1, <1>2, <1>3, <1>5, <1>6, <1>4, <1>7, <2>1
<1>10. NewIds(l, id) = id .. (next - 1) /\ id <= next
  BY <1>1, <1>2, <1>4 DEF NewIds, next
<1>11. first = FirstOutputId(l, id) /\ id + a \in Nat
  BY <1>3 DEF FirstOutputId, first, a, b, A, B
<1> QED
  BY <1>5, <1>6, <1>7, <1>8, <1>9, <1>10, <1>11 DEF A, B, C, a, next

LEMMA NewDataRowsAre ==
    ASSUME NEW l, NEW k, NEW id, CommitArguments(l, k, id)
    PROVE  /\ \A r \in NewDataRows(l, k, id) :
                 /\ DOMAIN r = FileFields /\ r.id \in NewIds(l, id) /\ r.id < id + Cardinality(DataPaths(l))
                 /\ r.path \in DataPaths(l)
           /\ \A n \in l.new_data_files :
                 \E r \in NewDataRows(l, k, id) : r.id = IdOf(n.path, DataPaths(l), id) /\ r.path = n.path
           /\ UniqueIds(NewDataRows(l, k, id))
<1> DEFINE Id(p) == IdOf(p, DataPaths(l), id)
<1>1. /\ \A p \in DataPaths(l) : Id(p) \in NewIds(l, id) /\ Id(p) < id + Cardinality(DataPaths(l))
      /\ \A p, q \in DataPaths(l) : Id(p) = Id(q) => p = q
  BY FileIds
<1>2. ASSUME NEW n PROVE LET r == NewDataRow(n, l, k, id) IN
                         DOMAIN r = FileFields /\ r.id = Id(n.path) /\ r.path = n.path
  BY DEF NewDataRow, FileFields
<1> HIDE DEF Id
<1>3. \A n \in l.new_data_files : n.path \in DataPaths(l)
  BY DEF DataPaths
<1>4. \A n, o \in l.new_data_files : n.path = o.path => n = o
  BY DEF CommitArguments, GoodChanges, FilesNamedOnce
<1>5. UniqueIds(NewDataRows(l, k, id))
  <2> SUFFICES ASSUME NEW n \in l.new_data_files, NEW o \in l.new_data_files,
                      NewDataRow(n, l, k, id).id = NewDataRow(o, l, k, id).id
               PROVE  n = o
    BY DEF UniqueIds, NewDataRows
  <2> QED
    BY <1>1, <1>2, <1>3, <1>4
<1> QED
  BY <1>1, <1>2, <1>3, <1>5 DEF NewDataRows, Id

OutputRow(x, l, type, k, id) ==
    [id |-> IdOf(OnlyPath(x.path), OutputPaths(l), FirstOutputId(l, id)),
     table |-> x.table, path |-> OnlyPath(x.path), rows |-> x.rows,
     begin |-> IF type = "rewrite" THEN k ELSE x.begin, end |-> Null, partial_max |-> x.partial_max]

LEMMA OutputFilesAre ==
    ASSUME NEW l, NEW k, NEW id, CommitArguments(l, k, id)
    PROVE  LET outputs == OutputFiles(l, "merge", k, id) \cup OutputFiles(l, "rewrite", k, id) IN
           /\ \A r \in outputs :
                 /\ DOMAIN r = FileFields /\ r.id \in NewIds(l, id) /\ r.id >= id + Cardinality(DataPaths(l))
                 /\ r.path \in OutputPaths(l)
           /\ \A p \in OutputPaths(l) : \E r \in outputs : r.path = p
           /\ UniqueIds(outputs)
           /\ \A r \in OutputFiles(l, "merge", k, id), q \in OutputFiles(l, "rewrite", k, id) : r.id # q.id
<1> DEFINE Id(p) == IdOf(p, OutputPaths(l), FirstOutputId(l, id))
           Row(x, type) == OutputRow(x, l, type, k, id)
           outputs == OutputFiles(l, "merge", k, id) \cup OutputFiles(l, "rewrite", k, id)
<1>1. /\ \A p \in OutputPaths(l) : Id(p) \in NewIds(l, id) /\ Id(p) >= id + Cardinality(DataPaths(l))
      /\ \A p, q \in OutputPaths(l) : Id(p) = Id(q) => p = q
  BY FileIds
<1>2. \A x, type : LET r == Row(x, type) IN
         DOMAIN r = FileFields /\ r.id = Id(OnlyPath(x.path)) /\ r.path = OnlyPath(x.path)
  BY DEF OutputRow, FileFields
<1>3. \A type : OutputFiles(l, type, k, id) =
                {Row(x, type) : x \in {y \in l.compactions : y.type = type /\ y.path # {}}}
  BY DEF OutputFiles, OutputRow, OnlyPath, FirstOutputId
<1> HIDE DEF Id, Row
<1>4. /\ \A x \in l.compactions : x.path # {} => x.path = {OnlyPath(x.path)} /\ OnlyPath(x.path) \in OutputPaths(l)
      /\ \A x \in l.compactions : x.type = "merge" \/ x.type = "rewrite"
  BY DEF CommitArguments, GoodChanges, TypedChanges, OnlyPath, OutputPaths
<1>5. \A x, y \in l.compactions : x.path \cap y.path # {} => x = y
  BY DEF CommitArguments, GoodChanges, FilesNamedOnce
<1>6. /\ \A r \in outputs : \E x \in l.compactions : r = Row(x, x.type) /\ x.path # {}
      /\ \A x \in l.compactions : x.path # {} => Row(x, x.type) \in outputs
  BY <1>3, <1>4
<1>7. ASSUME NEW x \in l.compactions, NEW y \in l.compactions, x.path # {}, y.path # {},
             Row(x, x.type).id = Row(y, y.type).id
      PROVE  x = y
  <2>1. OnlyPath(x.path) = OnlyPath(y.path)
    BY <1>1, <1>2, <1>4, <1>7
  <2> QED
    BY <1>4, <1>5, <1>7, <2>1
<1>8. \A r \in OutputFiles(l, "merge", k, id), q \in OutputFiles(l, "rewrite", k, id) : r.id # q.id
  BY <1>3, <1>7
<1> HIDE DEF outputs
<1>9. UniqueIds(outputs)
  BY <1>6, <1>7 DEF UniqueIds
<1>10. \A p \in OutputPaths(l) : \E r \in outputs : r.path = p
  <2> SUFFICES ASSUME NEW x \in l.compactions, NEW p \in x.path PROVE \E r \in outputs : r.path = p
    BY DEF OutputPaths
  <2>1. p = OnlyPath(x.path) /\ Row(x, x.type) \in outputs /\ Row(x, x.type).path = OnlyPath(x.path)
    BY <1>2, <1>4, <1>6
  <2> QED
    BY <2>1
<1>11. \A r \in outputs :
        /\ DOMAIN r = FileFields /\ r.id \in NewIds(l, id) /\ r.id >= id + Cardinality(DataPaths(l))
        /\ r.path \in OutputPaths(l)
  BY <1>1, <1>2, <1>4, <1>6
<1> QED
  BY <1>10, <1>11, <1>8, <1>9 DEF outputs

\* The begin_snapshot of a new delete file.
BeginIn(d, k) == IF d.begin = Null THEN k ELSE d.begin

AddedDeletes(l, k, id) == NewDeleteRows(l, k, id) \cup NewFileDeleteRows(l, k, id)

AddedToCommitted(e, l, k) == \E x \in l.new_delete_files : e.file = x.file /\ e.path = x.path /\ e.begin = BeginIn(x, k)

AddedToNew(e, l, k, id) ==
    \E n \in l.new_data_files : e.file = IdOf(n.path, DataPaths(l), id) /\ e.path \in n.delete_path /\ e.begin = k

\* The delete files that a commit registers: of committed files and of its own.
LEMMA NewDeleteRowsAre ==
    ASSUME NEW l, NEW k, NEW id, CommitArguments(l, k, id)
    PROVE  LET deletes == AddedDeletes(l, k, id) IN
           /\ \A r \in deletes : DOMAIN r = DeleteFields /\ r.id \in NewIds(l, id) /\ r.path \in DeletePaths(l)
           /\ \A r \in deletes : AddedToCommitted(r, l, k) \/ AddedToNew(r, l, k, id)
           /\ \A d \in l.new_delete_files : \E r \in deletes : r.file = d.file /\ r.path = d.path
           /\ \A n \in l.new_data_files : \A p \in n.delete_path :
                 \E r \in deletes : r.file = IdOf(n.path, DataPaths(l), id) /\ r.path = p
           /\ UniqueIds(deletes)
           /\ \A r, q \in deletes : r.path = q.path => r = q
<1> DEFINE Row(d) == NewDeleteRow(d, l, k, id)
           FileRow(n) == NewFileDeleteRow(n, l, k, id)
           A == NewDeleteRows(l, k, id)
           B == NewFileDeleteRows(l, k, id)
           Id(p) == DeleteId(p, l, id)
           Deleting == {o \in l.new_data_files : o.delete_path # {}}
<1>1. /\ \A p \in DeletePaths(l) : Id(p) \in NewIds(l, id)
      /\ \A p, q \in DeletePaths(l) : Id(p) = Id(q) => p = q
  BY FileIds
<1>2. \A d : /\ DOMAIN Row(d) = DeleteFields /\ Row(d).id = Id(d.path) /\ Row(d).path = d.path
             /\ Row(d).file = d.file /\ Row(d).table = d.table
             /\ Row(d).begin = BeginIn(d, k)
  BY DEF NewDeleteRow, DeleteFields, BeginIn
<1>3. \A n : /\ DOMAIN FileRow(n) = DeleteFields /\ FileRow(n).id = Id(OnlyPath(n.delete_path))
             /\ FileRow(n).path = OnlyPath(n.delete_path)
             /\ FileRow(n).file = IdOf(n.path, DataPaths(l), id) /\ FileRow(n).begin = k
  BY DEF NewFileDeleteRow, DeleteFields
<1>4. /\ \A r \in A : \E d \in l.new_delete_files : r = Row(d)
      /\ \A d \in l.new_delete_files : Row(d) \in A
      /\ \A r \in B : \E n \in Deleting : r = FileRow(n)
      /\ \A n \in Deleting : FileRow(n) \in B
  BY DEF NewDeleteRows, NewFileDeleteRows
<1>5. \A n \in Deleting : n.delete_path = {OnlyPath(n.delete_path)}
  BY DEF CommitArguments, GoodChanges, TypedChanges, OnlyPath
<1>6. /\ \A d \in l.new_delete_files : d.path \in DeletePaths(l)
      /\ \A n \in Deleting : OnlyPath(n.delete_path) \in DeletePaths(l)
  BY <1>5 DEF DeletePaths
<1>7. /\ \A d, e \in l.new_delete_files : d.path = e.path => d = e
      /\ \A d \in l.new_delete_files, n \in Deleting : d.path # OnlyPath(n.delete_path)
      /\ \A n, o \in Deleting : OnlyPath(n.delete_path) = OnlyPath(o.delete_path) => n = o
  BY <1>5 DEF CommitArguments, GoodChanges, FilesNamedOnce
<1> HIDE DEF Row, FileRow, Id, A, B, Deleting
<1>8. ASSUME NEW r \in A
       PROVE  \E d \in l.new_delete_files :
                 /\ r = Row(d) /\ DOMAIN r = DeleteFields /\ r.id = Id(r.path) /\ r.path = d.path
                 /\ r.file = d.file /\ r.table = d.table /\ r.begin = BeginIn(d, k)
  <2>1. PICK d \in l.new_delete_files : r = Row(d)
    BY <1>4
  <2> QED
    BY <1>2, <2>1
<1>9. ASSUME NEW r \in B
       PROVE  \E n \in Deleting :
                 /\ r = FileRow(n) /\ DOMAIN r = DeleteFields /\ r.id = Id(r.path) /\ r.path = OnlyPath(n.delete_path)
                 /\ r.file = IdOf(n.path, DataPaths(l), id) /\ r.begin = k
  <2>1. PICK n \in Deleting : r = FileRow(n)
    BY <1>4
  <2> QED
    BY <1>3, <2>1
<1>10. \A r \in A \cup B : DOMAIN r = DeleteFields /\ r.id = Id(r.path) /\ r.path \in DeletePaths(l)
  BY <1>6, <1>8, <1>9
<1>11. \A r, q \in A \cup B : r.path = q.path => r = q
  <2>1. \A r, q \in A : r.path = q.path => r = q
    BY <1>7, <1>8
  <2>2. \A r, q \in B : r.path = q.path => r = q
    BY <1>7, <1>9
  <2>3. \A r \in A, q \in B : r.path # q.path
    BY <1>7, <1>8, <1>9
  <2> QED
    BY <2>1, <2>2, <2>3
<1>12. \A r \in A \cup B : AddedToCommitted(r, l, k) \/ AddedToNew(r, l, k, id)
  <2>1. \A n \in Deleting : n \in l.new_data_files /\ OnlyPath(n.delete_path) \in n.delete_path
    BY <1>5 DEF Deleting
  <2> QED
    BY <1>8, <1>9, <2>1 DEF AddedToCommitted, AddedToNew
<1>13. \A n \in l.new_data_files : \A p \in n.delete_path :
          \E r \in A \cup B : r.file = IdOf(n.path, DataPaths(l), id) /\ r.path = p
  <2> SUFFICES ASSUME NEW n \in l.new_data_files, NEW p \in n.delete_path
               PROVE  \E r \in A \cup B : r.file = IdOf(n.path, DataPaths(l), id) /\ r.path = p
    OBVIOUS
  <2>1. n \in Deleting
    BY DEF Deleting
  <2> QED
    BY <1>3, <1>4, <1>5, <2>1
<1>14. \A d \in l.new_delete_files : \E r \in A \cup B : r.file = d.file /\ r.path = d.path
  BY <1>2, <1>4
<1>15. UniqueIds(A \cup B)
  BY <1>1, <1>10, <1>11 DEF UniqueIds
<1> QED
  BY <1>1, <1>10, <1>11, <1>12, <1>13, <1>14, <1>15 DEF A, B, AddedDeletes

\* The fields that do not change.
LEMMA SameFields ==
    ASSUME NEW x, NEW y, SameRow(x, y)
    PROVE  /\ DOMAIN x \in {FileFields, DeleteFields} =>
                 DOMAIN y = DOMAIN x /\ y.id = x.id /\ y.table = x.table /\ y.path = x.path /\ y.begin = x.begin
           /\ DOMAIN x = DeleteFields => y.file = x.file
           /\ y.end = Null => x.end = Null
BY DEF SameRow, FileFields, DeleteFields

\* The rows of ducklake_data_file after a commit: the old ones but for the sources of
\* its merges, and one for each data file that it registers.
LEMMA FilesAfterAre ==
    ASSUME NEW l, NEW k, NEW id, CommitArguments(l, k, id),
           NEW S, \A f \in S : DOMAIN f = FileFields /\ f.id \in Nat /\ f.id < id, UniqueIds(S),
           NEW ids, ids = SourceIds(l, "merge"), \A i \in ids : i \in Nat /\ i < id,
           NEW T, T = FilesAfter(S, l, k, id)
    PROVE  /\ \A g \in T : \/ \E f \in S : SameRow(f, g) /\ f.id \notin ids
                           \/ /\ DOMAIN g = FileFields /\ g.id \in NewIds(l, id)
                              /\ g.path \in DataPaths(l) \cup OutputPaths(l)
           /\ \A f \in S : f.id \notin ids => \E g \in T : SameRow(f, g)
           /\ \A n \in l.new_data_files : \E g \in T : g.id = IdOf(n.path, DataPaths(l), id) /\ g.path = n.path
           /\ \A p \in OutputPaths(l) : \E g \in T : g.path = p
           /\ UniqueIds(T)
<1> DEFINE N == NewDataRows(l, k, id)
           M == OutputFiles(l, "merge", k, id)
           R == OutputFiles(l, "rewrite", k, id)
           first == id + Cardinality(DataPaths(l))
           S1 == EndedTables(S, l.dropped_tables, k)
           S2 == S1 \cup N
           S3 == EndedFiles(S2, l.dropped_files, k)
           S4 == WithoutIds(S3, ids)
           S5 == S4 \cup M
           S6 == EndedIds(S5, SourceIds(l, "rewrite"), k)
<1>0. T = S6 \cup R
  BY DEF FilesAfter
<1>1. /\ id \in Nat /\ k \in Nat \ {0} /\ first \in Nat /\ id <= first
      /\ \A i \in NewIds(l, id) : i \in Nat /\ id <= i
  BY FileIds, IdRanges DEF CommitArguments, NewIds
<1>2. /\ \A r \in N : DOMAIN r = FileFields /\ r.id \in NewIds(l, id) /\ r.id < first /\ r.path \in DataPaths(l)
      /\ \A n \in l.new_data_files : \E r \in N : r.id = IdOf(n.path, DataPaths(l), id) /\ r.path = n.path
      /\ UniqueIds(N)
  BY NewDataRowsAre
<1>3. /\ \A r \in M \cup R : DOMAIN r = FileFields /\ r.id \in NewIds(l, id) /\ r.id >= first /\ r.path \in OutputPaths(l)
      /\ \A p \in OutputPaths(l) : \E r \in M \cup R : r.path = p
      /\ UniqueIds(M \cup R)
      /\ \A r \in M, q \in R : r.id # q.id
  BY OutputFilesAre
<1> HIDE DEF N, M, R, first
<1>4. {"id", "end"} \subseteq FileFields
  BY DEF FileFields
<1>5. SameRows(S, S1)
  BY <1>1, <1>4, EndedSame
<1>6. /\ \A f \in S1 : DOMAIN f = FileFields /\ f.id \in Nat /\ f.id < id
      /\ UniqueIds(S1)
  BY <1>5, SameFields DEF SameRows
<1> HIDE DEF S1
<1>7. /\ \A f \in S2 : DOMAIN f = FileFields /\ f.id \in Nat /\ f.id < first
      /\ UniqueIds(S2)
  <2>1. \A f \in S1, r \in N : f.id # r.id
    BY <1>1, <1>2, <1>6
  <2> QED
    BY <1>1, <1>2, <1>6, <2>1 DEF UniqueIds
<1> HIDE DEF S2
<1>8. SameRows(S2, S3)
  BY <1>1, <1>4, <1>7, EndedSame
<1>9. /\ \A f \in S3 : DOMAIN f = FileFields /\ f.id \in Nat /\ f.id < first
      /\ UniqueIds(S3)
  BY <1>7, <1>8, SameFields DEF SameRows
<1> HIDE DEF S3
<1>10. /\ \A f \in S5 : DOMAIN f = FileFields
       /\ UniqueIds(S5)
       /\ \A f \in S5, r \in R : f.id # r.id
  <2>1. \A f \in S4, r \in M \cup R : f.id # r.id
    BY <1>1, <1>3, <1>9 DEF WithoutIds
  <2>2. UniqueIds(S4) /\ \A f \in S4 : DOMAIN f = FileFields
    BY <1>9 DEF WithoutIds, UniqueIds
  <2> QED
    BY <1>3, <2>1, <2>2 DEF UniqueIds
<1>11. SameRows(S5, S6)
  BY <1>1, <1>4, <1>10, EndedSame
<1> HIDE DEF S4, S5, S6
<1>12. /\ UniqueIds(S6) /\ \A f \in S6, r \in R : f.id # r.id
       /\ \A f \in S6 : DOMAIN f = FileFields
  BY <1>10, <1>11, SameFields DEF SameRows
<1>13. UniqueIds(T)
  BY <1>0, <1>3, <1>12 DEF UniqueIds
<1>14. \A x \in S2 : x.id \notin ids => \E g \in T : SameRow(x, g)
  <2> SUFFICES ASSUME NEW x \in S2, x.id \notin ids PROVE \E g \in T : SameRow(x, g)
    OBVIOUS
  <2>1. PICK y \in S3 : SameRow(x, y)
    BY <1>8 DEF SameRows
  <2>2. y \in S5
    BY <1>7, <2>1, SameFields DEF WithoutIds, S4, S5
  <2>3. PICK z \in S6 : SameRow(y, z)
    BY <1>11, <2>2 DEF SameRows
  <2> QED
    BY <1>0, <2>1, <2>3, SameRowTransitive
<1>15. ASSUME NEW f \in S, f.id \notin ids PROVE \E g \in T : SameRow(f, g)
  <2>1. PICK x \in S1 : SameRow(f, x)
    BY <1>5 DEF SameRows
  <2>2. x \in S2 /\ x.id \notin ids
    BY <1>15, <2>1, SameFields DEF S2
  <2> QED
    BY <1>14, <2>1, <2>2, SameRowTransitive
<1>16. ASSUME NEW n \in l.new_data_files
       PROVE  \E g \in T : g.id = IdOf(n.path, DataPaths(l), id) /\ g.path = n.path
  <2>1. PICK r \in N : r.id = IdOf(n.path, DataPaths(l), id) /\ r.path = n.path
    BY <1>2
  <2>2. r \in S2 /\ r.id \notin ids /\ DOMAIN r = FileFields
    BY <1>1, <1>2 DEF S2
  <2>3. PICK g \in T : SameRow(r, g)
    BY <1>14, <2>2
  <2> QED
    BY <2>1, <2>2, <2>3, SameFields
<1>17. ASSUME NEW p \in OutputPaths(l) PROVE \E g \in T : g.path = p
  <2>1. PICK r \in M \cup R : r.path = p
    BY <1>3
  <2>2. CASE r \in R
    BY <1>0, <2>1, <2>2
  <2>3. CASE r \in M
    BY <1>0, <1>3, <1>11, <2>1, <2>3, SameFields DEF SameRows, S5
  <2> QED
    BY <2>2, <2>3
<1>18. ASSUME NEW g \in T, ~\E f \in S : SameRow(f, g) /\ f.id \notin ids
       PROVE  /\ DOMAIN g = FileFields /\ g.id \in NewIds(l, id)
              /\ g.path \in DataPaths(l) \cup OutputPaths(l)
  <2>1. CASE g \in R
    BY <1>3, <2>1
  <2>2. CASE g \in S6
    <3>1. PICK y \in S5 : SameRow(y, g)
      BY <1>11, <2>2 DEF SameRows
    <3>2. CASE y \in M
      BY <1>3, <3>1, <3>2, SameFields
    <3>3. CASE y \in S4
      <4>1. y \in S3 /\ y.id \notin ids /\ DOMAIN y = FileFields
        BY <1>9, <3>3 DEF WithoutIds, S4
      <4>2. PICK x \in S2 : SameRow(x, y)
        BY <1>8, <4>1 DEF SameRows
      <4>3. SameRow(x, g) /\ x.id \notin ids /\ x.id = y.id
        BY <1>7, <3>1, <4>1, <4>2, SameRowTransitive, SameFields
      <4>4. CASE x \in N
        BY <1>2, <4>3, <4>4, SameFields
      <4>5. CASE x \in S1
        <5>1. PICK f \in S : SameRow(f, x)
          BY <1>5, <4>5 DEF SameRows
        <5> QED
          BY <1>18, <4>3, <5>1, SameRowTransitive, SameFields
      <4> QED
        BY <4>4, <4>5 DEF S2
    <3> QED
      BY <3>2, <3>3 DEF S5
  <2> QED
    BY <1>0, <2>1, <2>2
<1> QED
  BY <1>13, <1>15, <1>16, <1>17, <1>18

\* The rows of ducklake_delete_file after a commit: the old ones but for those that it
\* overwrites, and the new ones; neither for the sources of its merges.
LEMMA DeletesAfterAre ==
    ASSUME NEW l, NEW k, NEW id, CommitArguments(l, k, id),
           NEW S, \A d \in S : DOMAIN d = DeleteFields /\ d.id \in Nat /\ d.id < id, UniqueIds(S),
           NEW ids, ids = SourceIds(l, "merge"),
           NEW T, T = DeletesAfter(S, l, k, id)
    PROVE  /\ \A e \in T : \/ \E d \in S : SameRow(d, e) /\ d.id \notin OverwrittenIds(l) /\ d.file \notin ids
                           \/ \E r \in AddedDeletes(l, k, id) : SameRow(r, e) /\ r.file \notin ids
           /\ \A d \in S : d.id \notin OverwrittenIds(l) /\ d.file \notin ids => \E e \in T : SameRow(d, e)
           /\ \A r \in AddedDeletes(l, k, id) : r.file \notin ids => \E e \in T : SameRow(r, e)
           /\ UniqueIds(T)
<1> DEFINE N == AddedDeletes(l, k, id)
           old == OverwrittenIds(l)
           S1 == EndedTables(S, l.dropped_tables, k)
           S2 == WithoutIds(S1, old)
           S3 == S2 \cup N
           S4 == WithoutFiles(S3, ids)
<1>0. T = EndedIds(S4, RewrittenDeletes(l), k)
  <2>1. S3 = (S2 \cup NewDeleteRows(l, k, id)) \cup NewFileDeleteRows(l, k, id)
    BY DEF AddedDeletes
  <2> HIDE DEF S2, S3
  <2> QED
    BY <2>1 DEF DeletesAfter, S2, S1, old
<1>1. /\ id \in Nat /\ k \in Nat \ {0}
      /\ \A i \in NewIds(l, id) : i \in Nat /\ id <= i
  BY FileIds DEF CommitArguments, NewIds
<1>2. /\ \A r \in N : DOMAIN r = DeleteFields /\ r.id \in NewIds(l, id)
      /\ UniqueIds(N)
  BY NewDeleteRowsAre
<1> HIDE DEF N, old
<1>3. {"id", "end"} \subseteq DeleteFields
  BY DEF DeleteFields
<1>4. SameRows(S, S1)
  BY <1>1, <1>3, EndedSame
<1>5. /\ \A d \in S1 : DOMAIN d = DeleteFields /\ d.id \in Nat /\ d.id < id
      /\ UniqueIds(S1)
  BY <1>4, SameFields DEF SameRows
<1> HIDE DEF S1
<1>6. (\A d \in S4 : DOMAIN d = DeleteFields) /\ UniqueIds(S4)
  <2>1. (\A d \in S2 : DOMAIN d = DeleteFields) /\ UniqueIds(S2) /\ \A d \in S2, r \in N : d.id # r.id
    BY <1>1, <1>2, <1>5 DEF WithoutIds, UniqueIds
  <2> HIDE DEF S2
  <2>2. (\A d \in S3 : DOMAIN d = DeleteFields) /\ UniqueIds(S3)
    BY <1>2, <2>1 DEF UniqueIds
  <2> QED
    BY <2>2 DEF WithoutFiles, UniqueIds
<1> HIDE DEF S2, S3, S4
<1>7. SameRows(S4, T)
  BY <1>0, <1>1, <1>3, <1>6, EndedSame
<1>8. ASSUME NEW d \in S, d.id \notin old, d.file \notin ids PROVE \E e \in T : SameRow(d, e)
  <2>1. PICK x \in S1 : SameRow(d, x)
    BY <1>4 DEF SameRows
  <2>2. x.id = d.id /\ x.file = d.file
    BY <2>1, SameFields
  <2>3. x \in S4
    BY <1>8, <2>2 DEF WithoutIds, WithoutFiles, S2, S3, S4
  <2>4. PICK e \in T : SameRow(x, e)
    BY <1>7, <2>3 DEF SameRows
  <2> QED
    BY <2>1, <2>4, SameRowTransitive
<1>9. ASSUME NEW r \in N, r.file \notin ids PROVE \E e \in T : SameRow(r, e)
  <2>1. r \in S4
    BY <1>9 DEF WithoutFiles, S3, S4
  <2> QED
    BY <1>7, <2>1 DEF SameRows
<1>10. ASSUME NEW e \in T, ~\E r \in N : SameRow(r, e) /\ r.file \notin ids
       PROVE  \E d \in S : SameRow(d, e) /\ d.id \notin old /\ d.file \notin ids
  <2>1. PICK y \in S4 : SameRow(y, e)
    BY <1>7 DEF SameRows
  <2>2. y \in S1 /\ y.id \notin old /\ y.file \notin ids
    BY <1>10, <2>1 DEF WithoutIds, WithoutFiles, S2, S3, S4
  <2>3. PICK d \in S : SameRow(d, y)
    BY <1>4, <2>2 DEF SameRows
  <2>4. y.id = d.id /\ y.file = d.file
    BY <2>3, SameFields
  <2> QED
    BY <2>1, <2>2, <2>3, <2>4, SameRowTransitive
<1>11. UniqueIds(T)
  BY <1>6, <1>7 DEF SameRows
<1> QED
  BY <1>8, <1>9, <1>10, <1>11 DEF N, old

\* The rows of metadata m, whose file ids lie below next.
GoodMetadata(m, next) ==
    /\ DOMAIN m = MetadataFields
    /\ \A f \in m.data_file : DOMAIN f = FileFields /\ f.id \in Nat /\ f.id < next
    /\ \A d \in m.delete_file : /\ DOMAIN d = DeleteFields /\ d.id \in Nat /\ d.id < next
                                /\ d.file \in Nat /\ d.file < next
    /\ UniqueIds(m.data_file) /\ UniqueIds(m.delete_file)

KeptFile(f, g) == g.id = f.id /\ g.table = f.table /\ g.path = f.path

AddedFile(g, l, id) == id <= g.id /\ g.path \in LocalPaths(l)

KeptDelete(d, e) ==
    e.id = d.id /\ e.file = d.file /\ e.path = d.path /\ e.begin = d.begin /\ (e.end = Null => d.end = Null)

AddedDelete(e, l, k, id) ==
    id <= e.id /\ e.path \in DeletePaths(l) /\ (AddedToCommitted(e, l, k) \/ AddedToNew(e, l, k, id))

\* How a commit changes the data files.
FileStep(m0, m, l, id) ==
    /\ \A g \in m.data_file : \/ \E f \in m0.data_file : KeptFile(f, g) /\ f.id \notin SourceIds(l, "merge")
                              \/ AddedFile(g, l, id)
    /\ \A f \in m0.data_file : f.id \notin SourceIds(l, "merge") => \E g \in m.data_file : KeptFile(f, g)
    /\ \A n \in l.new_data_files : \E g \in m.data_file : g.id = IdOf(n.path, DataPaths(l), id) /\ g.path = n.path
    /\ \A p \in OutputPaths(l) : \E g \in m.data_file : g.path = p

\* How it changes the delete files.
DeleteStep(m0, m, l, k, id) ==
    /\ \A e \in m.delete_file : \/ \E d \in m0.delete_file : KeptDelete(d, e) /\ d.file \notin SourceIds(l, "merge")
                                \/ AddedDelete(e, l, k, id) /\ e.file \notin SourceIds(l, "merge")
    /\ \A d \in m0.delete_file : d.id \notin OverwrittenIds(l) /\ d.file \notin SourceIds(l, "merge") =>
          \E e \in m.delete_file : e.path = d.path
    /\ \A x \in l.new_delete_files : x.file \notin SourceIds(l, "merge") => \E e \in m.delete_file : e.path = x.path
    /\ \A n \in l.new_data_files : \A p \in n.delete_path : \E e \in m.delete_file : e.path = p
    /\ \A d, e \in m.delete_file :
          AddedDelete(d, l, k, id) /\ AddedDelete(e, l, k, id) /\ d.path = e.path => d = e

LEMMA NewIdsAre ==
    ASSUME NEW l, NEW k, NEW id, CommitArguments(l, k, id), NEW next, next = id + Cardinality(LocalPaths(l))
    PROVE  /\ next \in Nat /\ id \in Nat /\ id <= next
           /\ \A i \in NewIds(l, id) : i \in Nat /\ id <= i /\ i < next
<1>1. next \in Nat /\ id <= next
  BY FileIds
<1>2. id \in Nat
  BY DEF CommitArguments
<1>3. NewIds(l, id) = id .. (next - 1)
  BY DEF NewIds
<1> QED
  BY <1>1, <1>2, <1>3

\* The data rows of a commit.
LEMMA CommitFileStep ==
    ASSUME NEW l, NEW k, NEW id, CommitArguments(l, k, id), NEW m0, GoodMetadata(m0, id),
           \A i \in SourceIds(l, "merge") : i \in Nat /\ i < id,
           NEW m, m = CommitChanges(m0, l, k, id), NEW next, next = id + Cardinality(LocalPaths(l))
    PROVE  /\ FileStep(m0, m, l, id)
           /\ \A f \in m.data_file : DOMAIN f = FileFields /\ f.id \in Nat /\ f.id < next
           /\ UniqueIds(m.data_file)
<1> DEFINE S == m0.data_file
           T == m.data_file
           ids == SourceIds(l, "merge")
           New(g) == DOMAIN g = FileFields /\ g.id \in NewIds(l, id) /\ g.path \in DataPaths(l) \cup OutputPaths(l)
<1>1. T = FilesAfter(S, l, k, id)
  BY CommitChangesFields DEF GoodMetadata
<1>2. (\A f \in S : DOMAIN f = FileFields /\ f.id \in Nat /\ f.id < id) /\ UniqueIds(S)
  BY DEF GoodMetadata
<1> HIDE DEF S, T, ids
<1>3. /\ \A g \in T : (\E f \in S : SameRow(f, g) /\ f.id \notin ids) \/ New(g)
      /\ \A f \in S : f.id \notin ids => \E g \in T : SameRow(f, g)
      /\ \A n \in l.new_data_files : \E g \in T : g.id = IdOf(n.path, DataPaths(l), id) /\ g.path = n.path
      /\ \A p \in OutputPaths(l) : \E g \in T : g.path = p
      /\ UniqueIds(T)
  <2>1. \A i \in ids : i \in Nat /\ i < id
    BY DEF ids
  <2>2. ids = SourceIds(l, "merge")
    BY DEF ids
  <2> QED
    BY <1>1, <1>2, <2>1, <2>2, FilesAfterAre
<1>4. /\ next \in Nat /\ id \in Nat /\ id <= next
      /\ \A i \in NewIds(l, id) : i \in Nat /\ id <= i /\ i < next
  BY NewIdsAre
<1>5. \A g \in T : New(g) => /\ AddedFile(g, l, id)
                             /\ DOMAIN g = FileFields /\ g.id \in Nat /\ g.id < next
  BY <1>4 DEF AddedFile, LocalPaths
<1> HIDE DEF New
<1>6. ASSUME NEW f \in S, NEW g, SameRow(f, g)
      PROVE  KeptFile(f, g) /\ DOMAIN g = FileFields /\ g.id \in Nat /\ g.id < next
  BY <1>2, <1>4, <1>6, SameFields DEF KeptFile
<1>7. FileStep(m0, m, l, id)
  BY <1>3, <1>5, <1>6 DEF FileStep, S, T, ids
<1> QED
  BY <1>3, <1>5, <1>6, <1>7 DEF T

\* The delete rows.
LEMMA CommitDeleteStep ==
    ASSUME NEW l, NEW k, NEW id, CommitArguments(l, k, id), NEW m0, GoodMetadata(m0, id),
           \A i \in SourceIds(l, "merge") : i \in Nat /\ i < id,
           \A x \in l.new_delete_files : x.file \in Nat /\ x.file < id,
           NEW m, m = CommitChanges(m0, l, k, id), NEW next, next = id + Cardinality(LocalPaths(l))
    PROVE  /\ DeleteStep(m0, m, l, k, id)
           /\ \A d \in m.delete_file : /\ DOMAIN d = DeleteFields /\ d.id \in Nat /\ d.id < next
                                       /\ d.file \in Nat /\ d.file < next
           /\ UniqueIds(m.delete_file)
<1> DEFINE S == m0.delete_file
           T == m.delete_file
           ids == SourceIds(l, "merge")
           N == AddedDeletes(l, k, id)
<1>1. T = DeletesAfter(S, l, k, id)
  BY CommitChangesFields DEF GoodMetadata
<1>2. /\ \A d \in S : DOMAIN d = DeleteFields /\ d.id \in Nat /\ d.id < id /\ d.file \in Nat /\ d.file < id
      /\ UniqueIds(S)
  BY DEF GoodMetadata
<1>3. /\ \A r \in N : DOMAIN r = DeleteFields /\ r.id \in NewIds(l, id) /\ r.path \in DeletePaths(l)
      /\ \A r \in N : AddedToCommitted(r, l, k) \/ AddedToNew(r, l, k, id)
      /\ \A d \in l.new_delete_files : \E r \in N : r.file = d.file /\ r.path = d.path
      /\ \A n \in l.new_data_files : \A p \in n.delete_path :
                 \E r \in N : r.file = IdOf(n.path, DataPaths(l), id) /\ r.path = p
      /\ \A r, q \in N : r.path = q.path => r = q
  BY NewDeleteRowsAre
<1> HIDE DEF S, T, ids, N
<1>4. /\ \A e \in T : \/ \E d \in S : SameRow(d, e) /\ d.id \notin OverwrittenIds(l) /\ d.file \notin ids
                      \/ \E r \in N : SameRow(r, e) /\ r.file \notin ids
      /\ \A d \in S : d.id \notin OverwrittenIds(l) /\ d.file \notin ids => \E e \in T : SameRow(d, e)
      /\ \A r \in N : r.file \notin ids => \E e \in T : SameRow(r, e)
      /\ UniqueIds(T)
  <2>1. ids = SourceIds(l, "merge") /\ N = AddedDeletes(l, k, id)
    BY DEF ids, N
  <2> QED
    BY <1>1, <1>2, <2>1, DeletesAfterAre
<1>5. /\ next \in Nat /\ id \in Nat /\ id <= next
      /\ \A i \in NewIds(l, id) : i \in Nat /\ id <= i /\ i < next
      /\ \A p \in DataPaths(l) : IdOf(p, DataPaths(l), id) \in NewIds(l, id)
  BY NewIdsAre, FileIds
<1>6. ASSUME NEW d \in S, NEW e, SameRow(d, e)
      PROVE  /\ KeptDelete(d, e) /\ e.id < id
             /\ DOMAIN e = DeleteFields /\ e.id \in Nat /\ e.id < next /\ e.file \in Nat /\ e.file < next
  BY <1>2, <1>5, <1>6, SameFields DEF KeptDelete
<1>7. ASSUME NEW r \in N, NEW e, SameRow(r, e)
      PROVE  /\ DOMAIN e = DeleteFields /\ e.id = r.id /\ e.file = r.file /\ e.path = r.path /\ e.begin = r.begin
  BY <1>3, <1>7, SameFields
<1>8. \A r \in N : r.file \in Nat /\ r.file < next
  <2> SUFFICES ASSUME NEW r \in N PROVE r.file \in Nat /\ r.file < next
    OBVIOUS
  <2>1. CASE AddedToCommitted(r, l, k)
    BY <1>5, <2>1 DEF AddedToCommitted
  <2>2. CASE AddedToNew(r, l, k, id)
    <3>1. PICK n \in l.new_data_files : r.file = IdOf(n.path, DataPaths(l), id)
      BY <2>2 DEF AddedToNew
    <3>2. n.path \in DataPaths(l)
      BY DEF DataPaths
    <3> QED
      BY <1>5, <3>1, <3>2
  <2> QED
    BY <1>3, <2>1, <2>2
<1>9. ASSUME NEW r \in N, NEW e, SameRow(r, e)
      PROVE  /\ AddedDelete(e, l, k, id)
             /\ DOMAIN e = DeleteFields /\ e.id \in Nat /\ e.id < next /\ e.file \in Nat /\ e.file < next
  BY <1>3, <1>5, <1>7, <1>8, <1>9 DEF AddedDelete, AddedToCommitted, AddedToNew
<1>10. ASSUME NEW e \in T, AddedDelete(e, l, k, id) PROVE \E r \in N : e.id = r.id /\ e.path = r.path
  <2>1. ~(e.id < id)
    BY <1>4, <1>5, <1>6, <1>9, <1>10 DEF AddedDelete
  <2> QED
    BY <1>4, <1>6, <1>7, <2>1
<1>11. \A d, e \in T : AddedDelete(d, l, k, id) /\ AddedDelete(e, l, k, id) /\ d.path = e.path => d = e
  <2> SUFFICES ASSUME NEW d \in T, NEW e \in T, AddedDelete(d, l, k, id), AddedDelete(e, l, k, id), d.path = e.path
               PROVE  d.id = e.id
    BY <1>4 DEF UniqueIds
  <2> QED
    BY <1>3, <1>10
<1>12. /\ \A e \in T : \/ \E d \in S : KeptDelete(d, e) /\ d.file \notin ids
                       \/ AddedDelete(e, l, k, id) /\ e.file \notin ids
       /\ \A e \in T : DOMAIN e = DeleteFields /\ e.id \in Nat /\ e.id < next /\ e.file \in Nat /\ e.file < next
  BY <1>4, <1>6, <1>7, <1>9
<1>13. /\ \A d \in S : d.id \notin OverwrittenIds(l) /\ d.file \notin ids => \E e \in T : e.path = d.path
       /\ \A r \in N : r.file \notin ids => \E e \in T : e.path = r.path
  BY <1>4, <1>6, <1>7 DEF KeptDelete
<1>14. \A x \in l.new_delete_files : x.file \notin ids => \E e \in T : e.path = x.path
  BY <1>3, <1>13
<1>15. \A n \in l.new_data_files : \A p \in n.delete_path : \E e \in T : e.path = p
  <2> SUFFICES ASSUME NEW n \in l.new_data_files, NEW p \in n.delete_path PROVE \E e \in T : e.path = p
    OBVIOUS
  <2>1. PICK r \in N : r.file = IdOf(n.path, DataPaths(l), id) /\ r.path = p
    BY <1>3
  <2>2. n.path \in DataPaths(l)
    BY DEF DataPaths
  <2>3. r.file \notin ids
    BY <1>5, <2>1, <2>2 DEF ids
  <2> QED
    BY <1>13, <2>1, <2>3
<1> QED
  BY <1>4, <1>11, <1>12, <1>13, <1>14, <1>15 DEF DeleteStep, S, T, ids

----------------------------------------------------------------------------
(* The history of the metadata.                                            *)

\* Some snapshot of i + 1 .. j has made a change of the kind to the table.
Between(kind, t, i, j, snapshots) == \E k \in (i + 1) .. j : <<kind, t>> \in snapshots[k].changes

\* How the metadata m of snapshot i and the metadata n of a snapshot j that is not
\* earlier are related: a file id keeps its meaning, a data file stays unless it is
\* merged, and a delete file for it is old or comes from a snapshot that has deleted.
SameFilesById(m, n) ==
    \A f \in m.data_file, g \in n.data_file : f.id = g.id => f.table = g.table /\ f.path = g.path

SameDeletesById(m, n) ==
    \A d \in m.delete_file, e \in n.delete_file :
        d.id = e.id => d.file = e.file /\ d.path = e.path /\ (e.end = Null => d.end = Null)

FilesStay(m, n, i, j, snapshots) ==
    \A f \in m.data_file :
        (\E g \in n.data_file : g.id = f.id) \/ Between("merge_adjacent", f.table, i, j, snapshots)

DeletesCome(m, n, i, j, snapshots) ==
    \A f \in m.data_file, e \in n.delete_file : e.file = f.id =>
        \/ \E d \in m.delete_file : d.id = e.id
        \/ /\ Between("deleted_from_table", f.table, i, j, snapshots)
           /\ "delete_more" \notin Workload => e.begin > i

Later(m, n, i, j, snapshots) ==
    /\ SameFilesById(m, n)
    /\ SameDeletesById(m, n)
    /\ FilesStay(m, n, i, j, snapshots)
    /\ DeletesCome(m, n, i, j, snapshots)

\* What the metadata of the snapshot after j, which l adds, owes to snapshot s, that
\* the transaction has read: v is the metadata of s.
CommitRefers(v, l, m) ==
    /\ \A x \in l.new_delete_files : \E g \in v.data_file : g.id = x.file /\ g.table = x.table
    /\ \A x \in l.new_delete_files : "delete_more" \notin Workload => x.begin = Null
    /\ \A x \in l.compactions : \A f \in x.sources : f \in v.data_file /\ f.table = x.table
    /\ \A f \in m.data_file, g \in v.data_file : f.id = g.id => f.table = g.table

LEMMA BetweenGrows ==
    ASSUME NEW i \in Nat, NEW j \in Nat, NEW s, NEW r, \A k \in 1 .. j : r[k] = s[k],
           NEW kind, NEW t
    PROVE  /\ Between(kind, t, i, j, s) => Between(kind, t, i, j + 1, r)
           /\ i <= j /\ <<kind, t>> \in r[j + 1].changes => Between(kind, t, i, j + 1, r)
BY DEF Between

LEMMA LaterReflexive ==
    ASSUME NEW m, NEW next, GoodMetadata(m, next), NEW i, NEW s
    PROVE  Later(m, m, i, i, s)
BY DEF Later, SameFilesById, SameDeletesById, FilesStay, DeletesCome, GoodMetadata, UniqueIds

LEMMA LaterNext ==
    ASSUME NEW i \in Nat, NEW j \in Nat, i <= j, NEW s, NEW r, \A k \in 1 .. j : r[k] = s[k],
           NEW m, NEW next \in Nat, GoodMetadata(m, next), NEW n0, NEW id \in Nat, next <= id,
           GoodMetadata(n0, id), Later(m, n0, i, j, s),
           NEW n, NEW top, GoodMetadata(n, top), NEW l, FileStep(n0, n, l, id), DeleteStep(n0, n, l, j + 1, id),
           CommitArguments(l, j + 1, id),
           NEW v, CommitRefers(v, l, m),
           r[j + 1].changes = WriteSnapshotChanges(TransactionChanges(l))
    PROVE  Later(m, n, i, j + 1, r)
<1>1. \A f \in m.data_file : f.id \in Nat /\ f.id < id
  BY DEF GoodMetadata
<1>2. \A d \in m.delete_file : d.id \in Nat /\ d.id < id
  BY DEF GoodMetadata
<1>3. /\ \A g \in n.data_file : g.id \in Nat
      /\ \A e \in n.delete_file : e.id \in Nat
  BY DEF GoodMetadata
<1>4. SameFilesById(m, n)
  <2> SUFFICES ASSUME NEW f \in m.data_file, NEW g \in n.data_file, f.id = g.id
               PROVE  f.table = g.table /\ f.path = g.path
    BY DEF SameFilesById
  <2>1. ~AddedFile(g, l, id)
    BY <1>1, <1>3 DEF AddedFile
  <2>2. PICK h \in n0.data_file : KeptFile(h, g)
    BY <2>1 DEF FileStep
  <2> QED
    BY <2>2 DEF KeptFile, Later, SameFilesById
<1>5. SameDeletesById(m, n)
  <2> SUFFICES ASSUME NEW d \in m.delete_file, NEW e \in n.delete_file, d.id = e.id
               PROVE  d.file = e.file /\ d.path = e.path /\ (e.end = Null => d.end = Null)
    BY DEF SameDeletesById
  <2>1. ~AddedDelete(e, l, j + 1, id)
    BY <1>2, <1>3 DEF AddedDelete
  <2>2. PICK h \in n0.delete_file : KeptDelete(h, e)
    BY <2>1 DEF DeleteStep
  <2> QED
    BY <2>2 DEF KeptDelete, Later, SameDeletesById
<1>6. TypedChanges(l)
  BY DEF CommitArguments, GoodChanges
<1>7. ASSUME NEW K \in RecordedKinds, NEW t, <<K, t>> \in TransactionChanges(l)
      PROVE  Between(K, t, i, j + 1, r)
  <2>1. <<K, t>>[1] = K
    OBVIOUS
  <2>2. <<K, t>> \in r[j + 1].changes
    BY <1>7, <2>1 DEF WriteSnapshotChanges
  <2> QED
    BY <2>2, BetweenGrows
<1>8. FilesStay(m, n, i, j + 1, r)
  <2> SUFFICES ASSUME NEW f \in m.data_file, ~\E g \in n.data_file : g.id = f.id
               PROVE  Between("merge_adjacent", f.table, i, j + 1, r)
    BY DEF FilesStay
  <2>1. CASE Between("merge_adjacent", f.table, i, j, s)
    BY <2>1, BetweenGrows
  <2>2. ASSUME NEW h \in n0.data_file, h.id = f.id PROVE Between("merge_adjacent", f.table, i, j + 1, r)
    <3>1. h.id \in SourceIds(l, "merge")
      BY <2>2 DEF FileStep, KeptFile
    <3>2. PICK x \in l.compactions : x.type = "merge" /\ \E g \in x.sources : g.id = f.id
      BY <2>2, <3>1 DEF SourceIds, SourceFiles
    <3>3. f.table = x.table
      BY <3>2 DEF CommitRefers
    <3>4. <<"merge_adjacent", x.table>> \in TransactionChanges(l)
      BY <1>6, <3>2, ChangesOf
    <3> QED
      BY <1>7, <3>3, <3>4 DEF RecordedKinds
  <2> QED
    BY <2>1, <2>2 DEF Later, FilesStay
<1>9. DeletesCome(m, n, i, j + 1, r)
  <2> SUFFICES ASSUME NEW f \in m.data_file, NEW e \in n.delete_file, e.file = f.id,
                      ~\E d \in m.delete_file : d.id = e.id
               PROVE  /\ Between("deleted_from_table", f.table, i, j + 1, r)
                      /\ "delete_more" \notin Workload => e.begin > i
    BY DEF DeletesCome
  <2>1. ASSUME NEW d \in n0.delete_file, KeptDelete(d, e)
        PROVE  /\ Between("deleted_from_table", f.table, i, j + 1, r)
               /\ "delete_more" \notin Workload => e.begin > i
    <3>1. /\ Between("deleted_from_table", f.table, i, j, s)
          /\ "delete_more" \notin Workload => d.begin > i
      BY <2>1 DEF Later, DeletesCome, KeptDelete
    <3> QED
      BY <2>1, <3>1, BetweenGrows DEF KeptDelete
  <2>2. ASSUME AddedToCommitted(e, l, j + 1)
        PROVE  /\ Between("deleted_from_table", f.table, i, j + 1, r)
               /\ "delete_more" \notin Workload => e.begin > i
    <3>1. PICK x \in l.new_delete_files : e.file = x.file /\ e.begin = BeginIn(x, j + 1)
      BY <2>2 DEF AddedToCommitted
    <3>2. f.table = x.table
      <4>1. PICK g \in v.data_file : g.id = x.file /\ g.table = x.table
        BY DEF CommitRefers
      <4>2. f.id = g.id
        BY <3>1, <4>1
      <4>3. f.table = g.table
        BY <4>2, Zenon DEF CommitRefers
      <4> QED
        BY <4>1, <4>3
    <3>3. <<"deleted_from_table", x.table>> \in TransactionChanges(l)
      BY <1>6, ChangesOf
    <3>4. "delete_more" \notin Workload => e.begin > i
      <4>1. "delete_more" \notin Workload => x.begin = Null
        BY DEF CommitRefers
      <4>2. "delete_more" \notin Workload => e.begin = j + 1
        BY <3>1, <4>1 DEF BeginIn
      <4> QED
        BY <4>2
    <3> QED
      BY <1>7, <3>2, <3>3, <3>4 DEF RecordedKinds
  <2>3. ASSUME AddedToNew(e, l, j + 1, id) PROVE FALSE
    <3>1. PICK o \in l.new_data_files : e.file = IdOf(o.path, DataPaths(l), id)
      BY <2>3 DEF AddedToNew
    <3>2. o.path \in DataPaths(l)
      BY DEF DataPaths
    <3>3. e.file \in NewIds(l, id)
      BY <3>1, <3>2, FileIds
    <3>4. e.file \in Nat /\ id <= e.file
      BY <3>3, NewIdsAre
    <3> QED
      BY <1>1, <3>4
  <2> QED
    BY <2>1, <2>2, <2>3 DEF DeleteStep, AddedDelete
<1> QED
  BY <1>4, <1>5, <1>8, <1>9 DEF Later

\* The metadata of every snapshot is well formed, and that of later snapshots follows
\* from that of earlier ones.  With at most one delete file for each data file, a delete
\* file begins with the snapshot that has written it.
HistoryInv ==
    /\ \A i \in 1 .. Len(log) : GoodMetadata(versions[i], log[i].next_file_id)
    /\ \A i, j \in 1 .. Len(log) : i <= j => Later(versions[i], versions[j], i, j, log)
    /\ "delete_more" \notin Workload =>
          \A i \in 1 .. Len(log) : \A d \in versions[i].delete_file : d.begin \in 1 .. i

MetaInv == TypeInv /\ LocalInv /\ CountersGrow /\ HistoryInv

LEMMA NextIdsGrow ==
    ASSUME TypeInv, CountersGrow, NEW i \in 1 .. Len(log), NEW j \in 1 .. Len(log), i <= j
    PROVE  /\ log[i].next_file_id \in Nat /\ log[j].next_file_id \in Nat
           /\ log[i].next_file_id <= log[j].next_file_id
<1>1. /\ log[i].next_file_id \in Nat /\ log[j].next_file_id \in Nat /\ log[j].first_file_id \in Nat
      /\ log[j].first_file_id <= log[j].next_file_id
  BY CounterTypes DEF CountersGrow
<1>2. i < j => log[i].next_file_id <= log[j].first_file_id
  BY DEF CountersGrow, FileIdsUnique
<1>3. i < j \/ i = j
  OBVIOUS
<1> QED
  BY <1>1, <1>2, <1>3

\* The commit of client c, as snapshot n + 1, of the changes l that it has made on
\* top of snapshot s.
LEMMA CommitOfClient ==
    ASSUME MetaInv, NEW c \in Clients, Commit(c), NEW n, n = Len(log), NEW l, l = local[c],
           NEW s, s = txn[c].snap, NEW id, id = log[n].next_file_id
    PROVE  /\ n \in Nat \ {0} /\ s \in 1 .. n /\ id \in Nat
           /\ txn[c].phase = "executing" /\ txn[c].base = n /\ txn[c].changes = TransactionChanges(l)
           /\ ~MixesCompaction(TransactionChanges(l))
           /\ Len(log') = n + 1 /\ \A i \in 1 .. n : log'[i] = log[i] /\ versions'[i] = versions[i]
           /\ log'[n + 1].next_file_id = id + Cardinality(LocalPaths(l))
           /\ log'[n + 1].files = LocalPaths(l)
           /\ log'[n + 1].changes = WriteSnapshotChanges(TransactionChanges(l))
           /\ versions'[n + 1] = CommitChanges(versions[n], l, n + 1, id)
           /\ Last(versions) = versions[n] /\ Last(versions') = versions'[n + 1]
           /\ CommitArguments(l, n + 1, id)
           /\ ChangesRefer(versions[s], s, l)
           /\ GoodMetadata(versions[s], id) /\ GoodMetadata(versions[n], id)
<1> USE DEF MetaInv
<1>1. /\ txn[c].phase = "executing" /\ txn[c].base = n /\ ~MixesCompaction(txn[c].changes)
      /\ ExecuteCommitBatch(c)
      /\ log' = Append(log, NewSnapshot(txn[c]))
      /\ versions' = Append(versions, CommitChanges(Last(versions), l, n + 1, log[txn[c].base].next_file_id))
  BY DEF Commit, ExecuteCommitBatch
<1>2. ClientInv(c) /\ Len(versions) = n /\ (\E S : versions \in Seq(S))
  BY DEF LocalInv
<1>3. n \in Nat \ {0} /\ s \in 1 .. n /\ log \in Seq(Snapshot) /\ txn[c] \in Transaction
  BY <1>1 DEF TypeInv, CommitTypeOK, SnapshotsInLog
<1>4. id \in Nat
  BY <1>3, CounterTypes
<1>5. GoodChanges(l) /\ LocalPaths(l) = txn[c].files /\ txn[c].changes = TransactionChanges(l)
  BY <1>2 DEF ClientInv
<1>6. txn[c].files \subseteq Paths
  BY <1>3 DEF Transaction
<1>7. CommitArguments(l, n + 1, id)
  BY <1>3, <1>4, <1>5, <1>6 DEF CommitArguments
<1>8. ChangesRefer(versions[s], s, l)
  BY <1>2 DEF ClientInv, View
<1>9. Last(versions) = versions[n]
  BY <1>2 DEF Last
<1>10. /\ \E S : versions' \in Seq(S)
       /\ Len(versions') = n + 1
       /\ \A i \in 1 .. n : versions'[i] = versions[i]
       /\ versions'[n + 1] = CommitChanges(versions[n], l, n + 1, id)
  <2> DEFINE e == CommitChanges(versions[n], l, n + 1, id)
  <2>1. versions' = Append(versions, e)
    BY <1>1, <1>9
  <2> HIDE DEF e
  <2>2. /\ \E S : Append(versions, e) \in Seq(S)
        /\ Len(Append(versions, e)) = Len(versions) + 1
        /\ \A i \in 1 .. Len(versions) : Append(versions, e)[i] = versions[i]
        /\ Append(versions, e)[Len(versions) + 1] = e
    BY <1>2, AppendKeeps, ZenonT(60)
  <2> QED
    BY <1>2, <2>1, <2>2 DEF e
<1>11. Last(versions') = versions'[n + 1]
  BY <1>10 DEF Last
<1>12. Len(log') = n + 1 /\ (\A i \in 1 .. n : log'[i] = log[i]) /\ log'[n + 1] = NewSnapshot(txn[c])
  BY <1>1, <1>3
<1>13. /\ log'[n + 1].next_file_id = id + Cardinality(txn[c].files)
       /\ log'[n + 1].files = txn[c].files
       /\ log'[n + 1].changes = WriteSnapshotChanges(txn[c].changes)
  BY <1>1, <1>12 DEF NewSnapshot
<1>14. ASSUME NEW i \in 1 .. n PROVE GoodMetadata(versions[i], id)
  <2>1. GoodMetadata(versions[i], log[i].next_file_id)
    BY DEF HistoryInv
  <2>2. log[i].next_file_id \in Nat /\ log[i].next_file_id <= id
    BY <1>3, NextIdsGrow
  <2> HIDE DEF MetaInv
  <2> QED
    BY <1>4, <2>1, <2>2 DEF GoodMetadata
<1> QED
  BY <1>1, <1>3, <1>4, <1>5, <1>7, <1>8, <1>9, <1>10, <1>11, <1>12, <1>13, <1>14

LEMMA CommitKeepsGood ==
    ASSUME MetaInv, NEW c \in Clients, Commit(c), NEW n, n = Len(log), NEW l, l = local[c],
           NEW id, id = log[n].next_file_id
    PROVE  /\ GoodMetadata(versions'[n + 1], log'[n + 1].next_file_id)
           /\ FileStep(versions[n], versions'[n + 1], l, id)
           /\ DeleteStep(versions[n], versions'[n + 1], l, n + 1, id)
           /\ versions'[n + 1].scheduled =
                 (versions[n].scheduled \cup OverwrittenPaths(l)) \cup SourcePaths(l, "merge")
<1> DEFINE s == txn[c].snap
           m0 == versions[n]
           m == versions'[n + 1]
           next == log'[n + 1].next_file_id
<1>1. /\ CommitArguments(l, n + 1, id) /\ GoodMetadata(m0, id) /\ GoodMetadata(versions[s], id)
      /\ ChangesRefer(versions[s], s, l)
      /\ m = CommitChanges(m0, l, n + 1, id)
      /\ next = id + Cardinality(LocalPaths(l))
  BY CommitOfClient
<1> HIDE DEF s, m0, m, next
<1>2. \A i \in SourceIds(l, "merge") : i \in Nat /\ i < id
  <2> SUFFICES ASSUME NEW x \in l.compactions, NEW f \in x.sources PROVE f.id \in Nat /\ f.id < id
    BY DEF SourceIds, SourceFiles
  <2>1. f \in versions[s].data_file
    BY <1>1 DEF ChangesRefer, CompactionsRefer
  <2> QED
    BY <1>1, <2>1 DEF GoodMetadata
<1>3. \A x \in l.new_delete_files : x.file \in Nat /\ x.file < id
  <2> SUFFICES ASSUME NEW x \in l.new_delete_files PROVE x.file \in Nat /\ x.file < id
    OBVIOUS
  <2>1. PICK f \in versions[s].data_file : f.id = x.file
    BY <1>1 DEF ChangesRefer, DeletesRefer, DeleteRefers
  <2> QED
    BY <1>1, <2>1 DEF GoodMetadata
<1>4. /\ FileStep(m0, m, l, id)
      /\ \A f \in m.data_file : DOMAIN f = FileFields /\ f.id \in Nat /\ f.id < next
      /\ UniqueIds(m.data_file)
  BY <1>1, <1>2, CommitFileStep
<1>5. /\ DeleteStep(m0, m, l, n + 1, id)
      /\ \A d \in m.delete_file : /\ DOMAIN d = DeleteFields /\ d.id \in Nat /\ d.id < next
                                  /\ d.file \in Nat /\ d.file < next
      /\ UniqueIds(m.delete_file)
  BY <1>1, <1>2, <1>3, CommitDeleteStep
<1>6. DOMAIN m = MetadataFields /\ m.scheduled = (m0.scheduled \cup OverwrittenPaths(l)) \cup SourcePaths(l, "merge")
  <2>1. DOMAIN m0 = MetadataFields
    BY <1>1 DEF GoodMetadata
  <2> QED
    BY <1>1, <2>1, CommitChangesFields
<1>7. GoodMetadata(m, next)
  BY <1>4, <1>5, <1>6 DEF GoodMetadata
<1> QED
  BY <1>4, <1>5, <1>6, <1>7 DEF m, m0, next

LEMMA LaterSame ==
    ASSUME NEW i \in Nat, NEW j \in Nat, NEW s, NEW r, \A k \in 1 .. j : r[k] = s[k],
           NEW m, NEW n, Later(m, n, i, j, s)
    PROVE  Later(m, n, i, j, r)
<1>1. \A kind, t : Between(kind, t, i, j, s) => Between(kind, t, i, j, r)
  BY DEF Between
<1> QED
  BY <1>1 DEF Later, FilesStay, DeletesCome

\* Only a commit touches the metadata or the log.
LEMMA MetadataSteps ==
    ASSUME TypeInv, LocalInv, [LakeNext]_lakeVars
    PROVE  (log' = log /\ versions' = versions) \/ \E c \in Clients : Commit(c)
<1>1. CASE UNCHANGED lakeVars
  BY <1>1 DEF lakeVars, commitVars
<1>2. ASSUME NEW c \in Clients, AnyStatement(c) PROVE log' = log /\ versions' = versions
  <2>1. StatementEffect(c)
    BY <1>2, AnyStatementEffect DEF LocalInv
  <2> QED
    BY <2>1 DEF StatementEffect, Statement, Work
<1>3. ASSUME NEW c \in Clients, OtherStep(c), ~Commit(c) PROVE log' = log /\ versions' = versions
  BY <1>3, VersionsGrow
<1> QED
  BY <1>1, <1>2, <1>3 DEF LakeNext

\* Two snapshots agree on what file id stands for which file.
LEMMA IdsKeepTheirMeaning ==
    ASSUME HistoryInv, Len(log) \in Nat, NEW i \in 1 .. Len(log), NEW j \in 1 .. Len(log)
    PROVE  SameFilesById(versions[i], versions[j])
<1>1. CASE i <= j
  BY <1>1 DEF HistoryInv, Later
<1>2. CASE j <= i
  <2>1. SameFilesById(versions[j], versions[i])
    BY <1>2 DEF HistoryInv, Later
  <2> QED
    BY <2>1 DEF SameFilesById
<1> QED
  BY <1>1, <1>2

LEMMA CommitRefersTo ==
    ASSUME MetaInv, NEW c \in Clients, Commit(c), NEW i \in 1 .. Len(log)
    PROVE  CommitRefers(versions[txn[c].snap], local[c], versions[i])
<1> DEFINE s == txn[c].snap
           l == local[c]
<1>1. s \in 1 .. Len(log) /\ ChangesRefer(versions[s], s, l) /\ Len(log) \in Nat
  BY CommitOfClient, ZenonT(60)
<1> HIDE DEF s, l
<1>2. SameFilesById(versions[i], versions[s])
  BY <1>1, IdsKeepTheirMeaning DEF MetaInv
<1> QED
  BY <1>1, <1>2 DEF CommitRefers, SameFilesById, ChangesRefer, DeletesRefer, DeleteRefers, CompactionsRefer, s, l

LEMMA CommitKeepsHistory ==
    ASSUME MetaInv, NEW c \in Clients, Commit(c)
    PROVE  HistoryInv'
<1> DEFINE n == Len(log)
           l == local[c]
           s == txn[c].snap
           id == log[n].next_file_id
<1>0. n = Len(log) /\ l = local[c] /\ s = txn[c].snap /\ id = log[n].next_file_id
  OBVIOUS
<1> HIDE DEF n, l, s, id
<1>1. /\ n \in Nat \ {0} /\ s \in 1 .. n /\ id \in Nat
      /\ Len(log') = n + 1 /\ \A i \in 1 .. n : log'[i] = log[i] /\ versions'[i] = versions[i]
      /\ log'[n + 1].changes = WriteSnapshotChanges(TransactionChanges(l))
      /\ CommitArguments(l, n + 1, id) /\ ChangesRefer(versions[s], s, l) /\ GoodMetadata(versions[n], id)
  BY <1>0, CommitOfClient
<1>2. /\ GoodMetadata(versions'[n + 1], log'[n + 1].next_file_id)
      /\ FileStep(versions[n], versions'[n + 1], l, id)
      /\ DeleteStep(versions[n], versions'[n + 1], l, n + 1, id)
  BY <1>0, CommitKeepsGood
<1>3. /\ \A i \in 1 .. n : GoodMetadata(versions[i], log[i].next_file_id)
      /\ \A i, j \in 1 .. n : i <= j => Later(versions[i], versions[j], i, j, log)
      /\ \A i \in 1 .. n : CommitRefers(versions[s], l, versions[i])
      /\ \A i \in 1 .. n : log[i].next_file_id \in Nat /\ log[i].next_file_id <= id
  <2>1. \A i \in 1 .. n : CommitRefers(versions[s], l, versions[i])
    BY <1>0, CommitRefersTo
  <2>2. \A i \in 1 .. n : log[i].next_file_id \in Nat /\ log[i].next_file_id <= id
    BY <1>0, <1>1, NextIdsGrow DEF MetaInv
  <2> QED
    BY <1>0, <2>1, <2>2 DEF MetaInv, HistoryInv
<1>4. "delete_more" \notin Workload => \A i \in 1 .. n : \A d \in versions[i].delete_file : d.begin \in 1 .. i
  BY <1>0 DEF MetaInv, HistoryInv
<1>5. ASSUME NEW i \in 1 .. (n + 1) PROVE GoodMetadata(versions'[i], log'[i].next_file_id)
  <2>1. CASE i = n + 1
    BY <1>2, <2>1
  <2>2. CASE i \in 1 .. n
    BY <1>1, <1>3, <2>2
  <2> QED
    BY <1>1, <2>1, <2>2
<1>6. ASSUME NEW i \in 1 .. (n + 1), NEW j \in 1 .. (n + 1), i <= j
      PROVE  Later(versions'[i], versions'[j], i, j, log')
  <2>1. CASE j \in 1 .. n
    <3>1. i \in 1 .. n /\ Later(versions[i], versions[j], i, j, log)
      BY <1>1, <1>3, <1>6, <2>1
    <3>2. \A k \in 1 .. j : log'[k] = log[k]
      BY <1>1, <2>1
    <3>3. Later(versions[i], versions[j], i, j, log')
      BY <3>1, <3>2, LaterSame
    <3> QED
      BY <1>1, <2>1, <3>1, <3>3
  <2>2. CASE j = n + 1 /\ i \in 1 .. n
    <3>1. /\ i \in Nat /\ n \in Nat /\ i <= n /\ \A k \in 1 .. n : log'[k] = log[k]
          /\ GoodMetadata(versions[i], log[i].next_file_id) /\ log[i].next_file_id \in Nat /\ log[i].next_file_id <= id
          /\ Later(versions[i], versions[n], i, n, log)
          /\ CommitRefers(versions[s], l, versions[i])
      BY <1>1, <1>3, <2>2
    <3>2. Later(versions[i], versions'[n + 1], i, n + 1, log')
      BY <1>1, <1>2, <3>1, LaterNext
    <3> QED
      BY <1>1, <2>2, <3>2
  <2>3. CASE j = n + 1 /\ i = n + 1
    BY <1>2, <2>3, LaterReflexive
  <2> QED
    BY <1>1, <2>1, <2>2, <2>3
<1>7. ASSUME "delete_more" \notin Workload, NEW i \in 1 .. (n + 1), NEW d \in versions'[i].delete_file
      PROVE  d.begin \in 1 .. i
  <2>1. CASE i \in 1 .. n
    BY <1>1, <1>4, <1>7, <2>1
  <2>2. CASE i = n + 1
    <3>1. CASE \E e \in versions[n].delete_file : KeptDelete(e, d)
      <4>1. d.begin \in 1 .. n
        BY <1>1, <1>4, <1>7, <3>1 DEF KeptDelete
      <4> QED
        BY <1>1, <2>2, <4>1
    <3>2. CASE AddedToCommitted(d, l, n + 1)
      <4>1. PICK x \in l.new_delete_files : d.begin = BeginIn(x, n + 1)
        BY <3>2 DEF AddedToCommitted
      <4>2. x.begin = Null
        BY <1>1, <1>7 DEF ChangesRefer, DeletesRefer, DeleteRefers
      <4>3. d.begin = n + 1
        BY <4>1, <4>2 DEF BeginIn
      <4> QED
        BY <1>1, <2>2, <4>3
    <3>3. CASE AddedToNew(d, l, n + 1, id)
      <4>1. d.begin = n + 1
        BY <3>3 DEF AddedToNew
      <4> QED
        BY <1>1, <2>2, <4>1
    <3> QED
      BY <1>2, <2>2, <3>1, <3>2, <3>3 DEF DeleteStep, AddedDelete
  <2> QED
    BY <1>1, <2>1, <2>2
<1> QED
  BY <1>1, <1>5, <1>6, <1>7 DEF HistoryInv

LEMMA HistoryInvNext == MetaInv /\ [LakeNext]_lakeVars => HistoryInv'
<1> SUFFICES ASSUME MetaInv, [LakeNext]_lakeVars PROVE HistoryInv'
  OBVIOUS
<1>1. CASE log' = log /\ versions' = versions
  BY <1>1 DEF MetaInv, HistoryInv
<1> QED
  BY <1>1, MetadataSteps, CommitKeepsHistory DEF MetaInv

LEMMA HistoryInvInit == LakeInit => HistoryInv
<1> SUFFICES ASSUME LakeInit PROVE HistoryInv
  OBVIOUS
<1>1. Len(log) = 1 /\ versions[1] = NoMetadata
  BY DEF LakeInit, CommitInit
<1>2. \A next : GoodMetadata(NoMetadata, next)
  BY DEF GoodMetadata, NoMetadata, MetadataFields, UniqueIds
<1>3. \A i, s : Later(NoMetadata, NoMetadata, i, i, s)
  BY <1>2, LaterReflexive
<1>4. \A i, j \in 1 .. Len(log) : i = 1 /\ j = 1
  BY <1>1
<1>5. NoMetadata.delete_file = {}
  BY DEF NoMetadata
<1> QED
  BY <1>1, <1>2, <1>3, <1>4, <1>5 DEF HistoryInv

LEMMA MetaInvariance == LakeSpec => []MetaInv
<1>1. LakeInit => MetaInv
  <2>1. LakeInit => CommitInit
    BY DEF LakeInit
  <2>2. CommitInit => CountersGrow
    BY DEF CommitInit, CountersGrow, FileIdsUnique
  <2> QED
    BY <2>1, <2>2, TypeInvInit, LocalInvInit, HistoryInvInit DEF MetaInv
<1>2. MetaInv /\ [LakeNext]_lakeVars => MetaInv'
  <2> SUFFICES ASSUME MetaInv, [LakeNext]_lakeVars PROVE MetaInv'
    OBVIOUS
  <2>1. [CommitNext]_commitVars
    BY LakeStepIsCommitStep DEF MetaInv
  <2>2. TypeInv' /\ LocalInv' /\ CountersGrow'
    BY <2>1, TypeInvNext, LocalInvNext, CountersGrowNext DEF MetaInv
  <2> QED
    BY <2>2, HistoryInvNext DEF MetaInv
<1> QED
  BY <1>1, <1>2, PTL DEF LakeSpec

----------------------------------------------------------------------------
(* What a transaction has checked when it commits.                         *)

\* Metadata m tells that a file from which l deletes was deleted from or dropped
\* after snapshot s (DeletedMeanwhile).
DeletedSince(m, s, l) ==
    LET later == {d.file : d \in {e \in m.delete_file : e.begin > s}} \cup
                 {f.id : f \in {g \in m.data_file : g.end > s}}
        mine == {d.file : d \in l.new_delete_files} \cup {f.file : f \in l.dropped_files}
    IN  mine \cap later # {}

\* An attempt has compared the files it deletes from with those that the snapshots
\* up to the one it builds on have deleted from.
CheckedDeletes ==
    \A c \in Clients : txn[c].phase = "executing" =>
        \A i \in (txn[c].snap + 1) .. txn[c].base :
            ~(DeletesMayMatch(txn[c].changes, log[i].changes)
              /\ DeletedSince(versions[txn[c].base], txn[c].snap, local[c]))

\* An attempt goes on, or is the first, or a retry has just begun.
LEMMA HowAttemptsBegin ==
    ASSUME TypeInv, LocalInv, [LakeNext]_lakeVars, NEW d \in Clients, txn'[d].phase = "executing"
    PROVE  /\ local'[d] = local[d]
           /\ \/ txn'[d] = txn[d]
              \/ txn'[d].base = txn'[d].snap /\ txn'[d].snap \in Nat
              \/ Retry(d, DeletedMeanwhile(d)) /\ versions' = versions
<1> USE DEF TypeInv, CommitTypeOK
<1>1. CASE UNCHANGED lakeVars
  BY <1>1 DEF lakeVars, commitVars
<1>2. ASSUME NEW c \in Clients, AnyStatement(c) PROVE local'[d] = local[d] /\ txn'[d] = txn[d]
  <2>1. PICK t, l, new, gone : Statement(c, t, l, new, gone)
    BY <1>2, AnyStatementEffect DEF LocalInv, StatementEffect
  <2>2. /\ local' = [local EXCEPT ![c] = l]
        /\ txn[c].phase = "active"
        /\ txn' = [txn EXCEPT ![c].changes = TransactionChanges(l), ![c].files = (@ \ gone) \cup new]
    BY <2>1 DEF Statement, Work
  <2>3. txn'[c].phase = "active" /\ \A e \in Clients \ {c} : txn'[e] = txn[e]
    BY <2>2 DEF Transaction
  <2> QED
    BY <2>2, <2>3 DEF LocalInv
<1>3. ASSUME NEW c \in Clients, Commit(c) \/ OtherStep(c),
             local' = [local EXCEPT ![c] = IF txn'[c].phase = "idle" THEN NoLocalChanges ELSE @]
      PROVE  /\ local'[d] = local[d]
             /\ \/ txn'[d] = txn[d]
                \/ txn'[d].base = txn'[d].snap /\ txn'[d].snap \in Nat
                \/ Retry(d, DeletedMeanwhile(d)) /\ versions' = versions
  <2>1. local'[d] = local[d]
    BY <1>3 DEF LocalInv
  <2>2. CASE d # c
    BY <1>3, <2>1, <2>2, OwnSteps
  <2>3. CASE d = c
    <3>1. ~EndTransaction(c)
      BY <2>3 DEF EndTransaction, NoTransaction
    <3>2. CASE CommitStart(c)
      BY <2>1, <2>3, <3>2 DEF CommitStart, Transaction
    <3>3. CASE Retry(c, DeletedMeanwhile(c))
      <4>1. versions' = versions
        BY <1>3, <3>1, <3>3 DEF OtherStep, Commit, ExecuteCommitBatch
      <4> QED
        BY <2>1, <2>3, <3>3, <4>1
    <3>4. CASE Begin(c)
      BY <2>3, <3>4 DEF Begin, NewTransaction
    <3>5. CASE SnapshotIdTaken(c) \/ TransientError(c)
      BY <2>3, <3>1, <3>5 DEF SnapshotIdTaken, TransientError, RetryOrGiveUp, Transaction
    <3> QED
      BY <1>3, <3>1, <3>2, <3>3, <3>4, <3>5
      DEF Commit, OtherStep, Rollback, CommitNothing, ExecuteCommitBatch, FatalError, AbortOnConflict, Crash
  <2> QED
    BY <2>2, <2>3
<1> QED
  BY <1>1, <1>2, <1>3 DEF LakeNext

\* Log and versions only grow.
LEMMA HistoryGrows ==
    ASSUME TypeInv, LocalInv, [LakeNext]_lakeVars
    PROVE  \A i \in 1 .. Len(log) : log'[i] = log[i] /\ versions'[i] = versions[i]
<1>1. CASE log' = log /\ versions' = versions
  BY <1>1
<1>2. ASSUME NEW c \in Clients, Commit(c)
      PROVE  \A i \in 1 .. Len(log) : log'[i] = log[i] /\ versions'[i] = versions[i]
  <2>1. \A i \in 1 .. Len(log) : versions'[i] = versions[i]
    BY <1>2, VersionsGrow DEF LocalInv
  <2>2. \A i \in 1 .. Len(log) : log'[i] = log[i]
    BY <1>2, CommitAppends DEF Commit
  <2> QED
    BY <2>1, <2>2
<1> QED
  BY <1>1, <1>2, MetadataSteps

LEMMA CheckedDeletesNext == TypeInv /\ LocalInv /\ CheckedDeletes /\ [LakeNext]_lakeVars => CheckedDeletes'
<1> SUFFICES ASSUME TypeInv, LocalInv, CheckedDeletes, [LakeNext]_lakeVars,
                    NEW d \in Clients, txn'[d].phase = "executing",
                    NEW i \in (txn'[d].snap + 1) .. txn'[d].base
             PROVE  ~(DeletesMayMatch(txn'[d].changes, log'[i].changes)
                      /\ DeletedSince(versions'[txn'[d].base], txn'[d].snap, local'[d]))
  BY DEF CheckedDeletes
<1>0. local'[d] = local[d]
  BY HowAttemptsBegin
<1>1. CASE txn'[d] = txn[d]
  <2>1. /\ Len(log) \in Nat /\ txn[d].snap \in 1 .. Len(log) /\ txn[d].base \in txn[d].snap .. Len(log)
        /\ txn[d].phase = "executing"
    BY <1>1 DEF TypeInv, SnapshotsInLog
  <2>2. i \in 1 .. Len(log) /\ txn[d].base \in 1 .. Len(log)
    BY <1>1, <2>1
  <2>3. log'[i] = log[i] /\ versions'[txn[d].base] = versions[txn[d].base]
    BY <2>2, HistoryGrows
  <2>4. ~(DeletesMayMatch(txn[d].changes, log[i].changes)
          /\ DeletedSince(versions[txn[d].base], txn[d].snap, local[d]))
    BY <1>1, <2>1 DEF CheckedDeletes
  <2> QED
    BY <1>0, <1>1, <2>3, <2>4
<1>2. CASE txn'[d].base = txn'[d].snap /\ txn'[d].snap \in Nat
  BY <1>2
<1>3. CASE Retry(d, DeletedMeanwhile(d)) /\ versions' = versions
  <2>1. /\ txn'[d].snap = txn[d].snap /\ txn'[d].base = Len(log) /\ txn'[d].changes = txn[d].changes
        /\ log' = log /\ ~HasConflict(txn[d], DeletedMeanwhile(d))
    BY <1>3 DEF Retry, TypeInv, CommitTypeOK, Transaction
  <2>2. Last(versions) = versions[Len(log)]
    BY DEF LocalInv, Last
  <2>3. DeletedMeanwhile(d) <=> DeletedSince(versions[Len(log)], txn[d].snap, local[d])
    BY <2>2 DEF DeletedMeanwhile, DeletedSince
  <2>4. i \in CommittedSince(txn[d])
    BY <2>1 DEF CommittedSince
  <2>5. ~(DeletesMayMatch(txn[d].changes, log[i].changes) /\ DeletedMeanwhile(d))
    BY <2>1, <2>4 DEF HasConflict
  <2> QED
    BY <1>0, <1>3, <2>1, <2>3, <2>5
<1> QED
  BY <1>1, <1>2, <1>3, HowAttemptsBegin

\* The invariant with which commits are judged.
CheckedInv == MetaInv /\ CheckedUpToBase /\ CheckedDeletes

LEMMA CheckedInvariance == LakeSpec => []CheckedInv
<1>1. LakeInit => CheckedUpToBase /\ CheckedDeletes
  BY DEF LakeInit, CommitInit, CheckedUpToBase, CheckedDeletes, NoTransaction
<1>2. MetaInv /\ CheckedUpToBase /\ CheckedDeletes /\ [LakeNext]_lakeVars => CheckedUpToBase' /\ CheckedDeletes'
  BY LakeStepIsCommitStep, CheckedUpToBaseNext, CheckedDeletesNext DEF MetaInv
<1> QED
  BY <1>1, <1>2, MetaInvariance, PTL DEF LakeSpec, CheckedInv

\* No snapshot since the one that the transaction has read conflicts with its changes.
LEMMA NoConflictSince ==
    ASSUME CheckedInv, NEW c \in Clients, Commit(c),
           NEW K, NEW J, NEW t, <<K, t>> \in txn[c].changes, <<K, J>> \in Rules
    PROVE  ~Between(J, t, txn[c].snap, Len(log), log)
<1> SUFFICES ASSUME NEW i \in (txn[c].snap + 1) .. Len(log), <<J, t>> \in log[i].changes
             PROVE  FALSE
  BY DEF Between
<1>1. txn[c].phase = "executing" /\ txn[c].base = Len(log)
  BY DEF Commit, ExecuteCommitBatch
<1>2. ~ConflictCheck(txn[c].changes, log[i].changes)
  BY <1>1 DEF CheckedInv, CheckedUpToBase
<1>3. <<K, t>>[1] = K /\ <<K, t>>[2] = t /\ <<J, t>>[1] = J /\ <<J, t>>[2] = t
  OBVIOUS
<1> QED
  BY <1>2, <1>3 DEF ConflictCheck

LEMMA RulesUsed ==
    <<"merge_adjacent", "deleted_from_table">> \in Rules /\ <<"deleted_from_table", "merge_adjacent">> \in Rules
<1>1. <<"merge_adjacent", "deleted_from_table">> \in CompactionRules
  BY DEF CompactionRules
<1>2. <<"deleted_from_table", "merge_adjacent">> \in DeleteRules
  BY DEF DeleteRules
<1> QED
  BY <1>1, <1>2 DEF Rules

\* A transaction that merges files writes no delete files.
LEMMA MergesDoNotDelete ==
    ASSUME NEW l, TypedChanges(l), ~MixesCompaction(TransactionChanges(l)), NEW x \in l.new_delete_files
    PROVE  SourceIds(l, "merge") = {}
<1> SUFFICES ASSUME NEW y \in l.compactions, y.type = "merge" PROVE FALSE
  BY DEF SourceIds, SourceFiles
<1> DEFINE ch == TransactionChanges(l)
           a == <<"merge_adjacent", y.table>>
           b == <<"deleted_from_table", x.table>>
<1>1. a \in ch /\ b \in ch
  BY ChangesOf
<1>2. a[1] = "merge_adjacent" /\ b[1] = "deleted_from_table"
  OBVIOUS
<1> HIDE DEF ch, a, b
<1>3. a \in WriteSnapshotChanges(ch) /\ b \in WriteSnapshotChanges(ch)
  BY <1>1, <1>2 DEF WriteSnapshotChanges, RecordedKinds
<1>4. MixesCompaction(ch)
  BY <1>2, <1>3 DEF MixesCompaction
<1> QED
  BY <1>4 DEF ch

\* The files that a transaction merges have got no delete files when it commits.
LEMMA MergedFilesHaveNoDeletes ==
    ASSUME CheckedInv, NEW c \in Clients, Commit(c), NEW n, n = Len(log), NEW l, l = local[c]
    PROVE  \A d \in versions[n].delete_file : d.file \notin SourceIds(l, "merge")
<1> SUFFICES ASSUME NEW d \in versions[n].delete_file, NEW x \in l.compactions, x.type = "merge",
                    NEW f \in x.sources, d.file = f.id
             PROVE  FALSE
  BY DEF SourceIds, SourceFiles
<1> DEFINE s == txn[c].snap
           v == versions[s]
<1>0. s = txn[c].snap /\ v = versions[s]
  OBVIOUS
<1> HIDE DEF s, v
<1>1. /\ n \in Nat \ {0} /\ s \in 1 .. n /\ txn[c].changes = TransactionChanges(l)
      /\ ChangesRefer(v, s, l) /\ TypedChanges(l)
  BY <1>0, CommitOfClient DEF CheckedInv, CommitArguments, GoodChanges
<1>2. f \in v.data_file /\ f.table = x.table /\ \A e \in v.delete_file : e.file # f.id
  BY <1>1 DEF ChangesRefer, CompactionsRefer
<1>3. SameDeletesById(v, versions[n]) /\ DeletesCome(v, versions[n], s, n, log)
  BY <1>0, <1>1 DEF CheckedInv, MetaInv, HistoryInv, Later
<1>4. ~\E e \in v.delete_file : e.id = d.id
  BY <1>2, <1>3 DEF SameDeletesById
<1>5. Between("deleted_from_table", x.table, s, n, log)
  BY <1>2, <1>3, <1>4 DEF DeletesCome
<1>6. <<"merge_adjacent", x.table>> \in txn[c].changes
  BY <1>1, ChangesOf
<1> QED
  BY <1>0, <1>5, <1>6, RulesUsed, NoConflictSince

----------------------------------------------------------------------------
(* The files that the metadata names.                                      *)

PathsOf(m) == {f.path : f \in m.data_file} \cup {d.path : d \in m.delete_file}

\* A commit registers its own files and nothing else.
LEMMA CommittedPaths ==
    ASSUME CheckedInv, NEW c \in Clients, Commit(c), NEW n, n = Len(log), NEW l, l = local[c]
    PROVE  LET m0 == versions[n]
               m == versions'[n + 1]
           IN  /\ PathsOf(m) \subseteq PathsOf(m0) \cup LocalPaths(l)
               /\ LocalPaths(l) \subseteq PathsOf(m)
               /\ m0.scheduled \subseteq m.scheduled
               /\ "delete_again" \notin Workload => PathsOf(m0) \subseteq PathsOf(m) \cup m.scheduled
<1> DEFINE m0 == versions[n]
           m == versions'[n + 1]
           s == txn[c].snap
           v == versions[s]
           id == log[n].next_file_id
           ids == SourceIds(l, "merge")
<1>0. s = txn[c].snap /\ v = versions[s] /\ id = log[n].next_file_id /\ ids = SourceIds(l, "merge") /\ MetaInv
      /\ m0 = versions[n] /\ m = versions'[n + 1]
  BY DEF CheckedInv
<1> HIDE DEF s, v, id, ids, m0, m
<1>1. /\ n \in Nat \ {0} /\ s \in 1 .. n /\ id \in Nat
      /\ ~MixesCompaction(TransactionChanges(l)) /\ CommitArguments(l, n + 1, id) /\ ChangesRefer(v, s, l)
      /\ GoodMetadata(m0, id)
  BY <1>0, CommitOfClient
<1>2. /\ FileStep(m0, m, l, id) /\ DeleteStep(m0, m, l, n + 1, id)
      /\ m.scheduled = (m0.scheduled \cup OverwrittenPaths(l)) \cup SourcePaths(l, "merge")
  BY <1>0, CommitKeepsGood
<1>3. SameFilesById(v, m0) /\ SameDeletesById(v, m0)
  BY <1>0, <1>1 DEF MetaInv, HistoryInv, Later
<1>4. PathsOf(m) \subseteq PathsOf(m0) \cup LocalPaths(l)
  <2>1. ASSUME NEW g \in m.data_file PROVE g.path \in PathsOf(m0) \cup LocalPaths(l)
    BY <1>2 DEF FileStep, KeptFile, AddedFile, PathsOf
  <2>2. ASSUME NEW e \in m.delete_file PROVE e.path \in PathsOf(m0) \cup LocalPaths(l)
    BY <1>2 DEF DeleteStep, KeptDelete, AddedDelete, PathsOf, LocalPaths
  <2> QED
    BY <2>1, <2>2 DEF PathsOf
<1>5. LocalPaths(l) \subseteq PathsOf(m)
  <2> SUFFICES ASSUME NEW p \in LocalPaths(l) PROVE p \in PathsOf(m)
    OBVIOUS
  <2>1. ASSUME NEW o \in l.new_data_files, p = o.path \/ p \in o.delete_path PROVE p \in PathsOf(m)
    BY <1>2, <2>1 DEF FileStep, DeleteStep, PathsOf
  <2>2. ASSUME NEW x \in l.new_delete_files, p = x.path PROVE p \in PathsOf(m)
    <3>1. ids = {}
      BY <1>0, <1>1, MergesDoNotDelete DEF CommitArguments, GoodChanges
    <3>2. \E e \in m.delete_file : e.path = x.path
      BY <1>0, <1>2, <3>1 DEF DeleteStep
    <3> QED
      BY <2>2, <3>2 DEF PathsOf
  <2>3. ASSUME NEW x \in l.compactions, p \in x.path PROVE p \in PathsOf(m)
    <3>1. p \in OutputPaths(l)
      BY <2>3 DEF OutputPaths
    <3> QED
      BY <1>2, <3>1 DEF FileStep, PathsOf
  <2> QED
    BY <2>1, <2>2, <2>3, InLocalPaths
<1>6. ASSUME NEW f \in m0.data_file PROVE f.path \in PathsOf(m) \cup m.scheduled
  <2>1. CASE f.id \notin ids
    BY <1>0, <1>2, <2>1 DEF FileStep, KeptFile, PathsOf
  <2>2. CASE f.id \in ids
    <3>1. PICK g \in SourceFiles(l, "merge") : g.id = f.id
      BY <1>0, <2>2 DEF SourceIds
    <3>2. g \in v.data_file
      BY <1>1 DEF SourceFiles, ChangesRefer, CompactionsRefer
    <3>3. g.path = f.path
      BY <1>3, <3>1, <3>2 DEF SameFilesById
    <3> QED
      BY <1>2, <3>3 DEF SourcePaths
  <2> QED
    BY <2>1, <2>2
<1>7. ASSUME "delete_again" \notin Workload, NEW d \in m0.delete_file
      PROVE  d.path \in PathsOf(m) \cup m.scheduled
  <2>1. d.file \notin ids
    BY <1>0, MergedFilesHaveNoDeletes
  <2>2. CASE d.id \notin OverwrittenIds(l)
    BY <1>0, <1>2, <2>1, <2>2 DEF DeleteStep, PathsOf
  <2>3. CASE d.id \in OverwrittenIds(l)
    <3>1. PICK x \in l.new_delete_files : \E o \in x.overwritten : o.id = d.id
      BY <2>3 DEF OverwrittenIds, OverwrittenBy
    <3>2. DeleteRefers(v, s, x)
      BY <1>1 DEF ChangesRefer, DeletesRefer
    <3>3. PICK e \in v.delete_file, q \in x.overwritten : e.id = d.id /\ q.path = e.path
      BY <1>7, <3>1, <3>2 DEF DeleteRefers
    <3>4. q.path = d.path
      BY <1>3, <3>3 DEF SameDeletesById
    <3>5. q.path \in OverwrittenPaths(l)
      BY DEF OverwrittenPaths, OverwrittenBy
    <3> QED
      BY <1>2, <3>4, <3>5
  <2> QED
    BY <2>2, <2>3
<1> QED
  BY <1>2, <1>4, <1>5, <1>6, <1>7 DEF PathsOf, m0, m

\* The metadata names files that some snapshot has registered, and forgets none but
\* those that it schedules for deletion.
PathsInv ==
    /\ CatalogPaths \subseteq RegisteredFiles
    /\ "delete_again" \notin Workload => RegisteredFiles \subseteq CatalogPaths \cup Now.scheduled

LEMMA PathsInvNext == CheckedInv /\ PathsInv /\ [LakeNext]_lakeVars => PathsInv'
<1> SUFFICES ASSUME CheckedInv, PathsInv, [LakeNext]_lakeVars PROVE PathsInv'
  OBVIOUS
<1>1. CASE log' = log /\ versions' = versions
  BY <1>1, ZenonT(60) DEF PathsInv, CatalogPaths, RegisteredFiles, Now
<1>2. ASSUME NEW c \in Clients, Commit(c) PROVE PathsInv'
  <2> DEFINE n == Len(log)
             l == local[c]
             m0 == versions[n]
             m == versions'[n + 1]
  <2>1. Now = m0 /\ Now' = m
    BY <1>2, CommitOfClient, ZenonT(60) DEF CheckedInv, Now
  <2>2. RegisteredFiles' = RegisteredFiles \cup LocalPaths(l)
    BY <1>2, CommitRegistersFiles DEF CheckedInv, MetaInv, LocalInv, ClientInv, Commit, RegistersFiles
  <2>3. /\ PathsOf(m) \subseteq PathsOf(m0) \cup LocalPaths(l)
        /\ LocalPaths(l) \subseteq PathsOf(m)
        /\ m0.scheduled \subseteq m.scheduled
        /\ "delete_again" \notin Workload => PathsOf(m0) \subseteq PathsOf(m) \cup m.scheduled
    BY <1>2, CommittedPaths
  <2> HIDE DEF n, l, m0, m
  <2>4. CatalogPaths = PathsOf(m0) /\ CatalogPaths' = PathsOf(m)
    BY <2>1, Zenon DEF CatalogPaths, PathsOf
  <2> QED
    BY <2>1, <2>2, <2>3, <2>4 DEF PathsInv
<1> QED
  BY <1>1, <1>2, MetadataSteps DEF CheckedInv, MetaInv

LEMMA PathsInvariance == LakeSpec => []PathsInv
<1>1. LakeInit => PathsInv
  <2> SUFFICES ASSUME LakeInit PROVE PathsInv
    OBVIOUS
  <2>1. Len(log) = 1 /\ log[1].files = {} /\ Len(versions) = 1 /\ versions[1] = NoMetadata
    BY DEF LakeInit, CommitInit
  <2>2. RegisteredFiles = {}
    BY <2>1 DEF RegisteredFiles
  <2>3. Now = NoMetadata
    BY <2>1 DEF Now, Last
  <2>4. CatalogPaths = {}
    BY <2>3 DEF CatalogPaths, NoMetadata
  <2> QED
    BY <2>2, <2>4 DEF PathsInv
<1> QED
  BY <1>1, PathsInvNext, CheckedInvariance, PTL DEF LakeSpec

NamedFilesExist == CatalogPaths \subseteq disk

\* Every data file and delete file that the metadata names is on disk, after any
\* statements, commits, retries, rollbacks, conflicts and crashes of any clients
\* (DuckLakeTransactionState::CommitChanges, LocalTableChanges::AddDeletesToMap,
\* DropTransactionLocalFile and the cleanup of the commit loop).
THEOREM NamedFilesAlwaysExist == LakeSpec => []NamedFilesExist
<1>1. DiskInv /\ PathsInv => NamedFilesExist
  BY DEF DiskInv, RegisteredFilesExist, PathsInv, NamedFilesExist
<1> QED
  BY <1>1, PathsInvariance, DiskInvariance, LakeImplementsCommit, PTL

\* The files on disk are those that the metadata names or has scheduled for deletion,
\* those of open transactions and those that crashes left: no commit forgets a file
\* that it overwrites or merges away (DuckLakeMetadataManager::WriteMergeAdjacent and
\* DeleteOverwrittenDeleteFiles).  Left out are transactions that extend a committed
\* delete file twice: of these the code schedules the file in between.
THEOREM FilesAlwaysMatchCatalog ==
    ASSUME "delete_again" \notin Workload
    PROVE  LakeSpec => []FilesMatchCatalog
<1>1. DiskInv /\ PathsInv => FilesMatchCatalog
  BY DEF DiskInv, RegisteredFilesExist, NoLeakedFiles, PathsInv, FilesMatchCatalog
<1> QED
  BY <1>1, PathsInvariance, DiskInvariance, LakeImplementsCommit, PTL

----------------------------------------------------------------------------
(* Delete files belong to data files.                                      *)

RefersToFiles(m) == \A d \in m.delete_file : \E f \in m.data_file : f.id = d.file

OneLiveDelete(m) == \A d, e \in m.delete_file : d.file = e.file /\ d.end = Null /\ e.end = Null => d = e

\* The file that a transaction deletes from is still there when it commits.
LEMMA DeletedFilesStay ==
    ASSUME CheckedInv, NEW c \in Clients, Commit(c), NEW n, n = Len(log), NEW l, l = local[c],
           NEW x \in l.new_delete_files
    PROVE  \E f \in versions[n].data_file : f.id = x.file
<1> DEFINE s == txn[c].snap
           v == versions[s]
<1>0. s = txn[c].snap /\ v = versions[s]
  OBVIOUS
<1> HIDE DEF s, v
<1>1. /\ n \in Nat \ {0} /\ s \in 1 .. n /\ txn[c].changes = TransactionChanges(l)
      /\ ChangesRefer(v, s, l) /\ TypedChanges(l)
  BY <1>0, CommitOfClient, SMTT(60) DEF CheckedInv, CommitArguments, GoodChanges
<1>2. PICK f \in v.data_file : f.id = x.file /\ f.table = x.table
  BY <1>1 DEF ChangesRefer, DeletesRefer, DeleteRefers
<1>3. FilesStay(v, versions[n], s, n, log)
  BY <1>0, <1>1 DEF CheckedInv, MetaInv, HistoryInv, Later
<1>4. <<"deleted_from_table", x.table>> \in txn[c].changes
  BY <1>1, ChangesOf
<1>5. ~Between("merge_adjacent", x.table, s, n, log)
  BY <1>0, <1>4, RulesUsed, NoConflictSince
<1> QED
  BY <1>2, <1>3, <1>5 DEF FilesStay

LEMMA CommitRefersToFiles ==
    ASSUME CheckedInv, NEW c \in Clients, Commit(c), NEW n, n = Len(log), RefersToFiles(versions[n])
    PROVE  RefersToFiles(versions'[n + 1])
<1> DEFINE l == local[c]
           id == log[n].next_file_id
           ids == SourceIds(l, "merge")
           m0 == versions[n]
           m == versions'[n + 1]
<1>0. l = local[c] /\ id = log[n].next_file_id /\ ids = SourceIds(l, "merge") /\ MetaInv
      /\ m0 = versions[n] /\ m = versions'[n + 1] /\ RefersToFiles(m0)
  BY DEF CheckedInv
<1> HIDE DEF l, id, ids, m0, m
<1>1. FileStep(m0, m, l, id) /\ DeleteStep(m0, m, l, n + 1, id)
  BY <1>0, CommitKeepsGood
<1>2. ASSUME NEW f \in m0.data_file, f.id \notin ids PROVE \E g \in m.data_file : g.id = f.id
  BY <1>0, <1>1, <1>2 DEF FileStep, KeptFile
<1> SUFFICES ASSUME NEW e \in m.delete_file PROVE \E g \in m.data_file : g.id = e.file
  BY DEF RefersToFiles, m
<1>3. ASSUME NEW d \in m0.delete_file, KeptDelete(d, e), d.file \notin ids PROVE \E g \in m.data_file : g.id = e.file
  BY <1>0, <1>2, <1>3 DEF RefersToFiles, KeptDelete
<1>4. ASSUME AddedToCommitted(e, l, n + 1), e.file \notin ids PROVE \E g \in m.data_file : g.id = e.file
  <2>1. PICK x \in l.new_delete_files : e.file = x.file
    BY <1>4 DEF AddedToCommitted
  <2>2. \E f \in m0.data_file : f.id = x.file
    BY <1>0, DeletedFilesStay
  <2> QED
    BY <1>2, <1>4, <2>1, <2>2
<1>5. ASSUME AddedToNew(e, l, n + 1, id) PROVE \E g \in m.data_file : g.id = e.file
  BY <1>1, <1>5 DEF AddedToNew, FileStep
<1> QED
  BY <1>0, <1>1, <1>3, <1>4, <1>5 DEF DeleteStep, AddedDelete

\* While no statement deletes from a file with a committed delete file, the first
\* deletions from a file of two transactions cannot both commit.
LEMMA CommitAddsFirstDelete ==
    ASSUME CheckedInv, NEW c \in Clients, Commit(c), NEW n, n = Len(log), NEW l, l = local[c],
           NEW x \in l.new_delete_files, NEW d \in versions[n].delete_file, d.file = x.file,
           "delete_more" \notin Workload
    PROVE  d.end # Null
<1> SUFFICES ASSUME d.end = Null PROVE FALSE
  OBVIOUS
<1> DEFINE s == txn[c].snap
           v == versions[s]
<1>0. s = txn[c].snap /\ v = versions[s]
  OBVIOUS
<1> HIDE DEF s, v
<1>1. /\ n \in Nat \ {0} /\ s \in 1 .. n /\ txn[c].changes = TransactionChanges(l)
      /\ txn[c].phase = "executing" /\ txn[c].base = n
      /\ ChangesRefer(v, s, l) /\ TypedChanges(l)
  BY <1>0, CommitOfClient DEF CheckedInv, CommitArguments, GoodChanges
<1>2. /\ \E f \in v.data_file : f.id = x.file /\ f.table = x.table
      /\ \A e \in v.delete_file : e.file = x.file => ~Visible(e, s)
  BY <1>1 DEF ChangesRefer, DeletesRefer, DeleteRefers
<1>3. PICK f \in v.data_file : f.id = x.file /\ f.table = x.table
  BY <1>2
<1>4. SameDeletesById(v, versions[n]) /\ DeletesCome(v, versions[n], s, n, log)
  BY <1>0, <1>1 DEF CheckedInv, MetaInv, HistoryInv, Later
<1>5. ASSUME NEW e \in v.delete_file, e.id = d.id PROVE FALSE
  <2>1. e.file = x.file /\ e.end = Null
    BY <1>4, <1>5 DEF SameDeletesById
  <2>2. e.begin \in 1 .. s
    BY <1>0, <1>1 DEF CheckedInv, MetaInv, HistoryInv
  <2>3. e.begin <= s
    BY <1>1, <2>2
  <2> QED
    BY <1>2, <2>1, <2>3 DEF Visible
<1>6. Between("deleted_from_table", x.table, s, n, log) /\ d.begin > s
  BY <1>3, <1>4, <1>5 DEF DeletesCome
<1>7. DeletedSince(versions[n], s, l)
  BY <1>6 DEF DeletedSince
<1>8. PICK i \in (s + 1) .. n : <<"deleted_from_table", x.table>> \in log[i].changes
  BY <1>6 DEF Between
<1>9. <<"deleted_from_table", x.table>> \in txn[c].changes
  BY <1>1, ChangesOf
<1>10. DeletesMayMatch(txn[c].changes, log[i].changes)
  <2>1. <<"deleted_from_table", x.table>>[1] = "deleted_from_table"
    OBVIOUS
  <2> QED
    BY <1>8, <1>9, <2>1 DEF DeletesMayMatch
<1>11. ~(DeletesMayMatch(txn[c].changes, log[i].changes) /\ DeletedSince(versions[n], s, l))
  BY <1>0, <1>1 DEF CheckedInv, CheckedDeletes
<1> QED
  BY <1>7, <1>10, <1>11

LEMMA CommitKeepsOneLive ==
    ASSUME CheckedInv, NEW c \in Clients, Commit(c), NEW n, n = Len(log), OneLiveDelete(versions[n]),
           "delete_more" \notin Workload
    PROVE  OneLiveDelete(versions'[n + 1])
<1> DEFINE l == local[c]
           s == txn[c].snap
           id == log[n].next_file_id
           m0 == versions[n]
           m == versions'[n + 1]
           Added(e) == AddedDelete(e, l, n + 1, id)
<1>0. l = local[c] /\ id = log[n].next_file_id /\ MetaInv /\ s = txn[c].snap
      /\ m0 = versions[n] /\ m = versions'[n + 1] /\ OneLiveDelete(m0)
  BY DEF CheckedInv
<1> HIDE DEF l, id, m0, m, s
<1>1. DeleteStep(m0, m, l, n + 1, id)
  BY <1>0, CommitKeepsGood
<1>2. /\ CommitArguments(l, n + 1, id) /\ GoodMetadata(m0, id) /\ GoodMetadata(versions[s], id)
      /\ ChangesRefer(versions[s], s, l) /\ id \in Nat
  BY <1>0, CommitOfClient
<1>3. UniqueIds(m.delete_file)
  BY <1>0, CommitKeepsGood DEF GoodMetadata
<1>4. \A d \in m0.delete_file : d.file \in Nat /\ d.file < id
  BY <1>2 DEF GoodMetadata
<1>5. \A x \in l.new_delete_files : x.file \in Nat /\ x.file < id
  <2> SUFFICES ASSUME NEW x \in l.new_delete_files PROVE x.file \in Nat /\ x.file < id
    OBVIOUS
  <2>1. PICK f \in versions[s].data_file : f.id = x.file
    BY <1>2 DEF ChangesRefer, DeletesRefer, DeleteRefers
  <2> QED
    BY <1>2, <2>1 DEF GoodMetadata
<1>6. /\ \A o \in l.new_data_files : IdOf(o.path, DataPaths(l), id) \in Nat /\ id <= IdOf(o.path, DataPaths(l), id)
      /\ \A o, p \in l.new_data_files : IdOf(o.path, DataPaths(l), id) = IdOf(p.path, DataPaths(l), id) => o = p
  <2>1. \A o \in l.new_data_files : o.path \in DataPaths(l)
    BY DEF DataPaths
  <2>2. /\ \A p \in DataPaths(l) : IdOf(p, DataPaths(l), id) \in NewIds(l, id)
        /\ \A p, q \in DataPaths(l) : IdOf(p, DataPaths(l), id) = IdOf(q, DataPaths(l), id) => p = q
    BY <1>2, FileIds
  <2>3. \A i \in NewIds(l, id) : i \in Nat /\ id <= i
    BY <1>2, NewIdsAre
  <2>4. \A o, p \in l.new_data_files : o.path = p.path => o = p
    BY <1>2 DEF CommitArguments, GoodChanges, FilesNamedOnce
  <2> QED
    BY <2>1, <2>2, <2>3, <2>4
<1>7. ASSUME NEW d \in m.delete_file, NEW e \in m.delete_file, d.file = e.file, Added(d), Added(e) PROVE d = e
  <2> SUFFICES d.path = e.path
    BY <1>1, <1>7 DEF DeleteStep
  <2>1. CASE AddedToCommitted(d, l, n + 1) /\ AddedToCommitted(e, l, n + 1)
    <3>1. \A x, y \in l.new_delete_files : x.file = y.file => x = y
      BY <1>2 DEF ChangesRefer, DeletesRefer
    <3> QED
      BY <1>7, <2>1, <3>1 DEF AddedToCommitted
  <2>2. CASE AddedToNew(d, l, n + 1, id) /\ AddedToNew(e, l, n + 1, id)
    <3>1. PICK o \in l.new_data_files : d.file = IdOf(o.path, DataPaths(l), id) /\ d.path \in o.delete_path
      BY <2>2 DEF AddedToNew
    <3>2. PICK p \in l.new_data_files : e.file = IdOf(p.path, DataPaths(l), id) /\ e.path \in p.delete_path
      BY <2>2 DEF AddedToNew
    <3>3. o = p
      BY <1>6, <1>7, <3>1, <3>2
    <3>4. \A q, r \in o.delete_path : q = r
      BY <1>2 DEF CommitArguments, GoodChanges, TypedChanges
    <3> QED
      BY <3>1, <3>2, <3>3, <3>4
  <2>3. ASSUME NEW a, NEW b, a.file = b.file, AddedToCommitted(a, l, n + 1), AddedToNew(b, l, n + 1, id) PROVE FALSE
    <3>1. PICK x \in l.new_delete_files : a.file = x.file
      BY <2>3 DEF AddedToCommitted
    <3>2. PICK o \in l.new_data_files : b.file = IdOf(o.path, DataPaths(l), id)
      BY <2>3 DEF AddedToNew
    <3>3. x.file = IdOf(o.path, DataPaths(l), id)
      BY <2>3, <3>1, <3>2
    <3>4. x.file \in Nat /\ x.file < id /\ id <= x.file /\ id \in Nat
      BY <1>2, <1>5, <1>6, <3>3
    <3> QED
      BY <3>4
  <2> QED
    BY <1>7, <2>1, <2>2, <2>3 DEF AddedDelete
<1>8. ASSUME NEW d \in m.delete_file, NEW e \in m.delete_file, d.file = e.file, d.end = Null,
             NEW h \in m0.delete_file, KeptDelete(h, d), Added(e)
      PROVE  FALSE
  <2>1. h.file = e.file /\ h.end = Null
    BY <1>8 DEF KeptDelete
  <2>2. ASSUME AddedToCommitted(e, l, n + 1) PROVE FALSE
    <3>1. PICK x \in l.new_delete_files : e.file = x.file
      BY <2>2 DEF AddedToCommitted
    <3>2. h \in versions[n].delete_file /\ h.file = x.file
      BY <1>0, <2>1, <3>1
    <3>3. h.end # Null
      BY <1>0, <3>2, CommitAddsFirstDelete
    <3> QED
      BY <2>1, <3>3
  <2>3. ASSUME AddedToNew(e, l, n + 1, id) PROVE FALSE
    <3>1. PICK o \in l.new_data_files : e.file = IdOf(o.path, DataPaths(l), id)
      BY <2>3 DEF AddedToNew
    <3> QED
      BY <1>2, <1>4, <1>6, <2>1, <3>1
  <2> QED
    BY <1>8, <2>2, <2>3 DEF AddedDelete
<1>9. ASSUME NEW d \in m.delete_file, NEW e \in m.delete_file,
             NEW h \in m0.delete_file, KeptDelete(h, d), NEW g \in m0.delete_file, KeptDelete(g, e),
             d.file = e.file, d.end = Null, e.end = Null
      PROVE  d = e
  <2>1. h.file = g.file /\ h.end = Null /\ g.end = Null /\ d.id = h.id /\ e.id = g.id
    BY <1>9 DEF KeptDelete
  <2>2. h = g
    BY <1>0, <2>1 DEF OneLiveDelete
  <2> QED
    BY <1>3, <2>1, <2>2 DEF UniqueIds
<1>10. \A d \in m.delete_file : (\E h \in m0.delete_file : KeptDelete(h, d)) \/ Added(d)
  BY <1>1 DEF DeleteStep
<1> HIDE DEF Added
<1>11. OneLiveDelete(m)
  BY <1>7, <1>8, <1>9, <1>10 DEF OneLiveDelete
<1> QED
  BY <1>11 DEF m

\* MetadataConsistent but for the ids.
LiveInv == RefersToFiles(Now) /\ ("delete_more" \notin Workload => OneLiveDelete(Now))

LEMMA LiveInvNext == CheckedInv /\ LiveInv /\ [LakeNext]_lakeVars => LiveInv'
<1> SUFFICES ASSUME CheckedInv, LiveInv, [LakeNext]_lakeVars PROVE LiveInv'
  OBVIOUS
<1>1. CASE log' = log /\ versions' = versions
  BY <1>1 DEF LiveInv, RefersToFiles, OneLiveDelete, Now
<1>2. ASSUME NEW c \in Clients, Commit(c) PROVE LiveInv'
  <2> DEFINE n == Len(log)
  <2>1. Now = versions[n] /\ Now' = versions'[n + 1]
    BY <1>2, CommitOfClient, ZenonT(60) DEF CheckedInv, Now
  <2>2. RefersToFiles(versions[n]) => RefersToFiles(versions'[n + 1])
    BY <1>2, CommitRefersToFiles
  <2>3. "delete_more" \notin Workload /\ OneLiveDelete(versions[n]) => OneLiveDelete(versions'[n + 1])
    BY <1>2, CommitKeepsOneLive
  <2> HIDE DEF n
  <2>4. RefersToFiles(Now)' = RefersToFiles(Now') /\ OneLiveDelete(Now)' = OneLiveDelete(Now')
    BY DEF RefersToFiles, OneLiveDelete
  <2> QED
    BY <2>1, <2>2, <2>3, <2>4 DEF LiveInv
<1> QED
  BY <1>1, <1>2, MetadataSteps DEF CheckedInv, MetaInv

LEMMA LiveInvariance == LakeSpec => []LiveInv
<1>1. LakeInit => LiveInv
  <2> SUFFICES ASSUME LakeInit PROVE LiveInv
    OBVIOUS
  <2>1. Len(versions) = 1 /\ versions[1] = NoMetadata
    BY DEF LakeInit
  <2>2. Now.delete_file = {}
    BY <2>1 DEF Now, Last, NoMetadata
  <2> QED
    BY <2>2 DEF LiveInv, RefersToFiles, OneLiveDelete
<1> QED
  BY <1>1, LiveInvNext, CheckedInvariance, PTL DEF LakeSpec

LEMMA IdsAreUnique ==
    ASSUME MetaInv
    PROVE  UniqueIds(Now.data_file) /\ UniqueIds(Now.delete_file)
<1>1. Now = versions[Len(log)] /\ Len(log) \in 1 .. Len(log)
  BY DEF Now, Last, MetaInv, LocalInv, TypeInv, SnapshotsInLog
<1> QED
  BY <1>1 DEF MetaInv, HistoryInv, GoodMetadata

\* File ids identify rows, and every delete file refers to a data file.
ReferencesHold == UniqueIds(Now.data_file) /\ UniqueIds(Now.delete_file) /\ RefersToFiles(Now)

\* Whatever clients do at the same time, a file id identifies one row, and a delete file
\* is never left without its data file: not by a merge that removes the file under a
\* DELETE, nor by a DELETE that commits between a merge's snapshot and its commit
\* (DuckLakeTransactionState::CheckForConflicts, WriteMergeAdjacent).
THEOREM ReferencesAlwaysHold == LakeSpec => []ReferencesHold
<1>1. CheckedInv /\ LiveInv => ReferencesHold
  BY IdsAreUnique DEF CheckedInv, LiveInv, ReferencesHold
<1> QED
  BY <1>1, CheckedInvariance, LiveInvariance, PTL

\* While clients only delete from files without a committed delete file, no two
\* transactions can both give a file its first: the second is told by
\* GetFilesDeletedOrDroppedAfterSnapshot, however many snapshots lie between its check
\* and its next attempt.  With the rest of MetadataConsistent.
THEOREM MetadataAlwaysConsistent ==
    ASSUME "delete_more" \notin Workload
    PROVE  LakeSpec => []MetadataConsistent
<1>1. CheckedInv /\ LiveInv => MetadataConsistent
  BY IdsAreUnique DEF CheckedInv, LiveInv, MetadataConsistent, UniqueIds, RefersToFiles, OneLiveDelete
<1> QED
  BY <1>1, CheckedInvariance, LiveInvariance, PTL
=============================================================================
