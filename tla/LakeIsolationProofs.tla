-------------------------- MODULE LakeIsolationProofs --------------------------
(***************************************************************************)
(* LakeTransactions implements SnapshotIsolation, and no query returns a   *)
(* row twice.                                                              *)
(***************************************************************************)
EXTENDS LakeHistoryProofs

----------------------------------------------------------------------------
(* The newest snapshot of a version of the metadata.                       *)

\* A scan of the file f at the newest snapshot returns the row r.
LiveShows(m, f, r) ==
    /\ f.end = Null /\ r \in RowsOf(f.rows)
    /\ \A d \in LiveDeletes(m, f) : r \notin RowsOf(d.positions)

\* At its own snapshot a version shows what has not ended.
LEMMA VisibleMeansLive ==
    ASSUME NEW m, NEW i \in Nat, MetadataOK(m, i)
    PROVE  /\ \A f \in m.data_file : (Visible(f, i) <=> f.end = Null) /\ RowsAt(f, i) = RowsOf(f.rows)
           /\ \A f : DeletesAt(m, f, i) = LiveDeletes(m, f)
           /\ \A d \in m.delete_file : Visible(d, i) <=> d.end = Null
<1>1. \A f \in m.data_file : FileOK(f, i)
  BY DEF MetadataOK
<1>2. \A d \in m.delete_file : DeleteOK(d, i)
  BY DEF MetadataOK
<1>3. ASSUME NEW f \in m.data_file PROVE (Visible(f, i) <=> f.end = Null) /\ RowsAt(f, i) = RowsOf(f.rows)
  <2>1. f.begin \in 1 .. i /\ (f.end = Null \/ f.end \in 1 .. i)
    BY <1>1 DEF FileOK
  <2>2. f.partial_max = Null \/ f.partial_max \in f.begin .. i
    BY <1>1 DEF FileOK
  <2>3. ~(f.partial_max > i)
    BY <2>1, <2>2 DEF Null
  <2>4. RowsAt(f, i) = RowsOf(f.rows)
    BY <2>3 DEF RowsAt, RowsOf
  <2> QED BY <2>1, <2>4 DEF Visible, Null
<1>4. ASSUME NEW d \in m.delete_file PROVE Visible(d, i) <=> d.end = Null
  <2>1. d.begin \in 1 .. i /\ (d.end = Null \/ d.end \in 1 .. i)
    BY <1>2 DEF DeleteOK
  <2> QED BY <2>1 DEF Visible, Null
<1>5. \A f : DeletesAt(m, f, i) = LiveDeletes(m, f)
  BY <1>4 DEF DeletesAt, LiveDeletes
<1> QED BY <1>3, <1>4, <1>5

\* The tables of the newest snapshot.
LEMMA ExistsMeansLive ==
    ASSUME NEW m, NEW i \in Nat, MetadataOK(m, i), NEW t \in Tables
    PROVE  TableExists(m, t, i) <=> m.table_end[t] = Null
<1>1. m.table_end[t] = Null \/ m.table_end[t] \in 1 .. i
  BY DEF MetadataOK
<1> QED BY <1>1 DEF TableExists, Null

\* What a table contains at the newest snapshot.
LEMMA LiveContents ==
    ASSUME NEW m, NEW i \in Nat, MetadataOK(m, i), OneLiveDelete(m), NEW t \in Tables, m.table_end[t] = Null
    PROVE  \A r : r \in Contents(m, t, i) <=> \E f \in m.data_file : f.table = t /\ LiveShows(m, f, r)
<1>1. TableExists(m, t, i)
  BY DEF TableExists
<1>2. \A r : r \in Contents(m, t, i) <=> \E f \in m.data_file : f.table = t /\ Shows(m, f, i, r)
  BY <1>1, ContentsMeaning
<1>3. ASSUME NEW f \in m.data_file, NEW r PROVE Shows(m, f, i, r) <=> LiveShows(m, f, r)
  <2>1. (Visible(f, i) <=> f.end = Null) /\ RowsAt(f, i) = RowsOf(f.rows) /\ DeletesAt(m, f, i) = LiveDeletes(m, f)
    BY VisibleMeansLive
  <2>2. \A d, e \in LiveDeletes(m, f) : d = e
    BY DEF LiveDeletes, OneLiveDelete
  <2> QED BY <2>1, <2>2 DEF Shows, LiveShows
<1> QED BY <1>2, <1>3

\* A table that has been dropped.
LEMMA NoContents ==
    ASSUME NEW m, NEW i \in Nat, MetadataOK(m, i), NEW t \in Tables, m.table_end[t] # Null
    PROVE  Contents(m, t, i) = NoTable
BY ExistsMeansLive DEF Contents

----------------------------------------------------------------------------
(* What a commit ends.                                                     *)

\* A commit of l ends the data file f.
FileEnds(f, l) ==
    \/ f.table \in l.dropped_tables
    \/ [file |-> f.id, table |-> f.table] \in l.dropped_files
    \/ f.id \in SourceIds(l, "rewrite")

\* It ends the delete file d.
DeleteEnds(d, l) == d.table \in l.dropped_tables \/ d.id \in RewrittenDeletes(l)

\* The row x is there as y, ended or not.
EndedOr(x, y, ends) ==
    /\ y.id = x.id /\ y.table = x.table /\ DOMAIN y = DOMAIN x
    /\ y.end = Null => x.end = Null /\ ~ends
    /\ x.end = Null /\ ~ends => y.end = Null

\* The rows after each of the three writes of an end.
LEMMA AfterEndedTables ==
    ASSUME NEW S, \A x \in S : {"id", "end", "table"} \subseteq DOMAIN x, NEW k, k # Null, NEW a, NEW y \in EndedTables(S, a, k)
    PROVE  \E x \in S : EndedOr(x, y, x.table \in a)
<1>1. PICK x \in S : y = IF x.end = Null /\ x.table \in a THEN [x EXCEPT !.end = k] ELSE x
  BY DEF EndedTables
<1>2. LET z == [x EXCEPT !.end = k] IN z.id = x.id /\ z.table = x.table /\ z.end = k /\ DOMAIN z = DOMAIN x
  OBVIOUS
<1>3. EndedOr(x, y, x.table \in a)
  BY <1>1, <1>2 DEF EndedOr
<1> QED BY <1>3

\* The second of them: dropped files.
LEMMA AfterEndedFiles ==
    ASSUME NEW S, \A x \in S : {"id", "end", "table"} \subseteq DOMAIN x, NEW k, k # Null, NEW a, NEW y \in EndedFiles(S, a, k)
    PROVE  \E x \in S : EndedOr(x, y, [file |-> x.id, table |-> x.table] \in a)
<1>1. PICK x \in S : y = IF x.end = Null /\ [file |-> x.id, table |-> x.table] \in a THEN [x EXCEPT !.end = k] ELSE x
  BY DEF EndedFiles
<1>2. LET z == [x EXCEPT !.end = k] IN z.id = x.id /\ z.table = x.table /\ z.end = k /\ DOMAIN z = DOMAIN x
  OBVIOUS
<1>3. EndedOr(x, y, [file |-> x.id, table |-> x.table] \in a)
  BY <1>1, <1>2 DEF EndedOr
<1> QED BY <1>3

\* The third of them: the sources of rewrites and their delete files.
LEMMA AfterEndedIds ==
    ASSUME NEW S, \A x \in S : {"id", "end", "table"} \subseteq DOMAIN x, NEW k, k # Null, NEW a, NEW y \in EndedIds(S, a, k)
    PROVE  \E x \in S : EndedOr(x, y, x.id \in a)
<1>1. PICK x \in S : y = IF x.id \in a THEN [x EXCEPT !.end = k] ELSE x
  BY DEF EndedIds
<1>2. LET z == [x EXCEPT !.end = k] IN z.id = x.id /\ z.table = x.table /\ z.end = k /\ DOMAIN z = DOMAIN x
  OBVIOUS
<1>3. EndedOr(x, y, x.id \in a)
  BY <1>1, <1>2 DEF EndedOr
<1> QED BY <1>3

\* The data files that are live after a commit.
LEMMA EndsOfFiles ==
    ASSUME NEW l, NEW k, NEW id, CommitArguments(l, k, id), NEW m0, GoodMetadata(m0, id),
           NEW T, T = FilesAfter(m0.data_file, l, k, id),
           NEW f \in m0.data_file, NEW g \in T, g.id = f.id
    PROVE  g.end = Null <=> (f.end = Null /\ ~FileEnds(f, l))
<1> DEFINE S == m0.data_file
           N == NewDataRows(l, k, id)
           M == OutputFiles(l, "merge", k, id)
           R == OutputFiles(l, "rewrite", k, id)
           rs == SourceIds(l, "rewrite")
           S1 == EndedTables(S, l.dropped_tables, k)
           S3 == EndedFiles(S1 \cup N, l.dropped_files, k)
           S4 == WithoutIds(S3, SourceIds(l, "merge"))
<1>0. T = EndedIds(S4 \cup M, rs, k) \cup R
  BY DEF FilesAfter
<1>1. /\ k # Null /\ id \in Nat
      /\ \A x \in S : DOMAIN x = FileFields /\ x.id \in Nat /\ x.id < id
      /\ UniqueIds(S)
  BY DEF CommitArguments, GoodMetadata, Null
<1>2. /\ \A x \in N : DOMAIN x = FileFields /\ x.id \in Nat /\ id <= x.id
      /\ \A x \in M \cup R : DOMAIN x = FileFields /\ x.id \in Nat /\ id <= x.id
  BY NewDataRowsAre, OutputFilesAre, NewIdsAre, ZenonT(60)
<1>3. {"id", "end", "table"} \subseteq FileFields
  BY DEF FileFields
<1> HIDE DEF S, N, M, R, rs
<1>a. \A x \in S : {"id", "end", "table"} \subseteq DOMAIN x
  BY <1>1, <1>3
<1>4. \A y \in S1 : \E x \in S : EndedOr(x, y, x.table \in l.dropped_tables)
  BY <1>1, <1>a, AfterEndedTables
<1> HIDE DEF S1
<1>5. \A y \in S1 \cup N : {"id", "end", "table"} \subseteq DOMAIN y
  BY <1>2, <1>3, <1>4, <1>a DEF EndedOr
<1>6. \A y \in S3 : \E x \in S1 \cup N : EndedOr(x, y, [file |-> x.id, table |-> x.table] \in l.dropped_files)
  BY <1>1, <1>5, AfterEndedFiles
<1> HIDE DEF S3
<1>7. S4 \subseteq S3
  BY DEF WithoutIds
<1>8. \A y \in S4 \cup M : {"id", "end", "table"} \subseteq DOMAIN y
  <2>1. \A y \in S3 : \E x \in S1 \cup N : DOMAIN y = DOMAIN x
    BY <1>6 DEF EndedOr
  <2>2. \A y \in S3 : {"id", "end", "table"} \subseteq DOMAIN y
    BY <1>5, <2>1
  <2>3. \A y \in M : {"id", "end", "table"} \subseteq DOMAIN y
    BY <1>2, <1>3
  <2> HIDE DEF S4
  <2> QED BY <1>7, <2>2, <2>3
<1> HIDE DEF S4
<1>9. \A y \in EndedIds(S4 \cup M, rs, k) : \E x \in S4 \cup M : EndedOr(x, y, x.id \in rs)
  BY <1>1, <1>8, AfterEndedIds
<1>10. f \in S /\ \A x \in N \cup (M \cup R) : x.id # f.id
  BY <1>1, <1>2 DEF S
<1>11. g \in EndedIds(S4 \cup M, rs, k)
  BY <1>0, <1>10
<1>12. PICK x \in S4 \cup M : EndedOr(x, g, x.id \in rs)
  BY <1>9, <1>11
<1>13. x \in S3
  BY <1>7, <1>10, <1>12 DEF EndedOr
<1>14. PICK y \in S1 \cup N : EndedOr(y, x, [file |-> y.id, table |-> y.table] \in l.dropped_files)
  BY <1>6, <1>13
<1>15. y \in S1
  BY <1>10, <1>12, <1>14 DEF EndedOr
<1>16. PICK z \in S : EndedOr(z, y, z.table \in l.dropped_tables)
  BY <1>4, <1>15
<1>17. z = f
  BY <1>1, <1>10, <1>12, <1>14, <1>16 DEF UniqueIds, EndedOr
<1>18. x.id = f.id /\ y.id = f.id /\ y.table = f.table
  BY <1>12, <1>14, <1>16, <1>17 DEF EndedOr
<1> DEFINE dropped == [file |-> f.id, table |-> f.table] \in l.dropped_files
<1>19. EndedOr(x, g, f.id \in rs) /\ EndedOr(y, x, dropped) /\ EndedOr(f, y, f.table \in l.dropped_tables)
  BY <1>12, <1>14, <1>16, <1>17, <1>18
<1>20. FileEnds(f, l) <=> (f.table \in l.dropped_tables \/ dropped \/ f.id \in rs)
  BY DEF FileEnds, rs
<1> HIDE DEF dropped
<1> QED BY <1>19, <1>20 DEF EndedOr

\* The delete files that are live after a commit.
LEMMA EndsOfDeletes ==
    ASSUME NEW l, NEW k, NEW id, CommitArguments(l, k, id), NEW m0, GoodMetadata(m0, id),
           NEW T, T = DeletesAfter(m0.delete_file, l, k, id),
           NEW d \in m0.delete_file, NEW e \in T, e.id = d.id
    PROVE  e.end = Null <=> (d.end = Null /\ ~DeleteEnds(d, l))
<1> DEFINE S == m0.delete_file
           N == AddedDeletes(l, k, id)
           rd == RewrittenDeletes(l)
           S1 == EndedTables(S, l.dropped_tables, k)
           S2 == WithoutIds(S1, OverwrittenIds(l))
           S3 == S2 \cup N
           S4 == WithoutFiles(S3, SourceIds(l, "merge"))
<1>0. T = EndedIds(S4, rd, k)
  <2>1. S3 = (S2 \cup NewDeleteRows(l, k, id)) \cup NewFileDeleteRows(l, k, id)
    BY DEF AddedDeletes
  <2> HIDE DEF S2, S3
  <2> QED BY <2>1 DEF DeletesAfter, S2
<1>1. /\ k # Null /\ id \in Nat
      /\ \A x \in S : DOMAIN x = DeleteFields /\ x.id \in Nat /\ x.id < id
      /\ UniqueIds(S)
  BY DEF CommitArguments, GoodMetadata, Null
<1>2. \A x \in N : DOMAIN x = DeleteFields /\ x.id \in Nat /\ id <= x.id
  BY NewDeleteRowsAre, NewIdsAre
<1>3. {"id", "end", "table"} \subseteq DeleteFields
  BY DEF DeleteFields
<1> HIDE DEF S, N, rd
<1>a. \A x \in S : {"id", "end", "table"} \subseteq DOMAIN x
  BY <1>1, <1>3
<1>4. \A y \in S1 : \E x \in S : EndedOr(x, y, x.table \in l.dropped_tables)
  BY <1>1, <1>a, AfterEndedTables
<1> HIDE DEF S1
<1>5. S4 \subseteq S1 \cup N
  BY DEF WithoutFiles, WithoutIds
<1> HIDE DEF S4
<1>6. \A y \in S4 : {"id", "end", "table"} \subseteq DOMAIN y
  BY <1>2, <1>3, <1>4, <1>5, <1>a DEF EndedOr
<1>7. \A y \in EndedIds(S4, rd, k) : \E x \in S4 : EndedOr(x, y, x.id \in rd)
  BY <1>1, <1>6, AfterEndedIds
<1>8. d \in S /\ \A x \in N : x.id # d.id
  BY <1>1, <1>2 DEF S
<1>9. PICK x \in S4 : EndedOr(x, e, x.id \in rd)
  BY <1>0, <1>7
<1>10. x \in S1
  BY <1>5, <1>8, <1>9 DEF EndedOr
<1>11. PICK z \in S : EndedOr(z, x, z.table \in l.dropped_tables)
  BY <1>4, <1>10
<1>12. z = d
  BY <1>1, <1>8, <1>9, <1>11 DEF UniqueIds, EndedOr
<1>13. EndedOr(x, e, d.id \in rd) /\ EndedOr(d, x, d.table \in l.dropped_tables)
  BY <1>9, <1>11, <1>12 DEF EndedOr
<1> QED BY <1>13 DEF DeleteEnds, EndedOr, rd

\* Which rows of the metadata a commit of l leaves live.
EndsOf(m0, m, l) ==
    /\ \A f \in m0.data_file, g \in m.data_file : g.id = f.id => (g.end = Null <=> (f.end = Null /\ ~FileEnds(f, l)))
    /\ \A d \in m0.delete_file, e \in m.delete_file : e.id = d.id => (e.end = Null <=> (d.end = Null /\ ~DeleteEnds(d, l)))

\* A transaction with the changes l has deleted the row r of the file f.
Taken(l, f, r) ==
    \/ [file |-> f.id, table |-> f.table] \in l.dropped_files
    \/ \E x \in l.new_delete_files : x.file = f.id /\ r \in RowsOf(x.positions)

\* It has inserted the row r into the table t.
Inserted(l, t, r) == \E y \in l.new_data_files : y.table = t /\ r \in y.rows \ y.deleted

\* A commit without compactions: what a file that it keeps shows.
LEMMA KeptLive ==
    ASSUME NEW v, NEW s0, NEW m0, NEW n, NEW l, NEW id, NEW m, NEW changes, Commits(v, s0, m0, n, l, id, m, changes),
           EndsOf(m0, m, l), l.compactions = {},
           NEW f \in m0.data_file, NEW g \in m.data_file, KeptUntil(f, g, n + 1, changes),
           f.table \notin l.dropped_tables, NEW r
    PROVE  LiveShows(m, g, r) <=> (LiveShows(m0, f, r) /\ ~Taken(l, f, r))
<1> DEFINE k == n + 1
           dropped == [file |-> f.id, table |-> f.table] \in l.dropped_files
<1>0. /\ n \in Nat /\ k \in Nat \ {0} /\ CommitOK(v, s0, m0, n, l, id) /\ TimeStep(m0, m, l, k, id, changes)
      /\ GoodMetadata(m0, id) /\ k = n + 1 /\ id \in Nat /\ MetadataOK(m0, n)
  BY DEF Commits, CommitOK, CommitArguments
<1> HIDE DEF k
<1>1. g.id = f.id /\ g.rows = f.rows /\ f.id \in Nat /\ f.id < id /\ g.table = f.table
  BY <1>0, KeptFileFields DEF GoodMetadata
<1>2. SourceIds(l, "rewrite") = {} /\ RewrittenDeletes(l) = {}
  BY DEF SourceIds, SourceFiles, RewrittenDeletes
<1>3. g.end = Null <=> (f.end = Null /\ ~dropped)
  BY <1>1, <1>2 DEF EndsOf, FileEnds
<1>4. ASSUME NEW e \in LiveDeletes(m, g)
      PROVE  \/ \E d \in LiveDeletes(m0, f) : d.positions = e.positions
             \/ \E x \in l.new_delete_files : x.file = f.id /\ x.positions = e.positions
  <2>1. e \in m.delete_file /\ e.file = f.id /\ e.end = Null
    BY <1>1, <1>4 DEF LiveDeletes
  <2>2. ASSUME NEW d \in m0.delete_file, KeptUntil(d, e, k, changes)
        PROVE  d \in LiveDeletes(m0, f) /\ d.positions = e.positions
    <3>1. e.file = d.file /\ e.positions = d.positions /\ (e.end = d.end \/ (d.end = Null /\ e.end = k))
      BY <1>0, <2>2, KeptDeleteFields DEF GoodMetadata
    <3> QED BY <1>0, <2>1, <3>1 DEF LiveDeletes
  <2>3. ASSUME e \in AddedDeletes(l, k, id)
        PROVE  \E x \in l.new_delete_files : x.file = f.id /\ x.positions = e.positions
    <3>1. \/ \E x \in l.new_delete_files : e.file = x.file /\ e.table = x.table /\ e.positions = x.positions
          \/ \E h \in AddedFiles(l, k, id) : e.file = h.id
      BY <1>0, <2>3, AddedDeletesAre
    <3>2. \A h \in AddedFiles(l, k, id) : h.id \in Nat /\ id <= h.id
      BY <1>0, AddedFilesAre
    <3> QED BY <1>0, <1>1, <2>1, <3>1, <3>2
  <2> QED BY <1>0, <2>1, <2>2, <2>3 DEF TimeStep
<1>5. ASSUME NEW d \in LiveDeletes(m0, f) PROVE \E e \in LiveDeletes(m, g) : e.positions = d.positions
  <2>1. d \in m0.delete_file /\ d.file = f.id /\ d.end = Null
    BY <1>5 DEF LiveDeletes
  <2>2. d.table = f.table
    BY <1>0, <2>1 DEF MetadataOK
  <2>3. ~DeleteEnds(d, l)
    BY <1>2, <2>2 DEF DeleteEnds
  <2>4. PICK e \in m.delete_file : KeptUntil(d, e, k, changes)
    BY <1>0, <2>1 DEF TimeStep
  <2>5. e.id = d.id /\ e.file = d.file /\ e.positions = d.positions
    BY <1>0, <2>1, <2>4, KeptDeleteFields DEF GoodMetadata
  <2>6. e.end = Null
    BY <2>1, <2>3, <2>5 DEF EndsOf
  <2> QED BY <1>1, <2>1, <2>5, <2>6 DEF LiveDeletes
<1>6. ASSUME NEW x \in l.new_delete_files, x.file = f.id PROVE \E e \in LiveDeletes(m, g) : e.positions = x.positions
  <2> DEFINE e == NewDeleteRow(x, l, k, id)
  <2>1. e.file = x.file /\ e.positions = x.positions /\ e.end = Null
    BY DEF NewDeleteRow
  <2>2. e \in AddedDeletes(l, k, id)
    BY DEF AddedDeletes, NewDeleteRows
  <2> HIDE DEF e
  <2>3. e \in m.delete_file
    BY <1>0, <2>2 DEF TimeStep
  <2> QED BY <1>1, <1>6, <2>1, <2>3 DEF LiveDeletes
<1>7. (\A e \in LiveDeletes(m, g) : r \notin RowsOf(e.positions)) <=>
        /\ \A d \in LiveDeletes(m0, f) : r \notin RowsOf(d.positions)
        /\ \A x \in l.new_delete_files : x.file = f.id => r \notin RowsOf(x.positions)
  BY <1>4, <1>5, <1>6
<1>8. Taken(l, f, r) <=> (dropped \/ \E x \in l.new_delete_files : x.file = f.id /\ r \in RowsOf(x.positions))
  BY DEF Taken
<1> HIDE DEF dropped
<1> QED BY <1>1, <1>3, <1>7, <1>8 DEF LiveShows

\* What a new file shows.
LEMMA NewLive ==
    ASSUME NEW v, NEW s0, NEW m0, NEW n, NEW l, NEW id, NEW m, NEW changes, Commits(v, s0, m0, n, l, id, m, changes),
           NEW y \in l.new_data_files, NEW g, g = NewDataRow(y, l, n + 1, id), NEW r
    PROVE  /\ g \in m.data_file /\ g.table = y.table /\ RowsOf(g.rows) = y.rows
           /\ LiveShows(m, g, r) <=> r \in y.rows \ y.deleted
<1> DEFINE k == n + 1
<1>0. /\ n \in Nat /\ k \in Nat \ {0} /\ CommitOK(v, s0, m0, n, l, id) /\ TimeStep(m0, m, l, k, id, changes)
      /\ GoodMetadata(m0, id) /\ k = n + 1 /\ id \in Nat /\ CommitArguments(l, k, id) /\ GoodChanges(l)
      /\ ChangesOK(v, s0, l) /\ GoodMetadata(v, id)
  BY DEF Commits, CommitOK, CommitArguments
<1> HIDE DEF k
<1>1. g \in AddedFiles(l, k, id) /\ g \in NewDataRows(l, k, id)
  BY <1>0 DEF AddedFiles, NewDataRows
<1>2. g \in m.data_file
  BY <1>0, <1>1 DEF TimeStep
<1>3. g.table = y.table /\ g.end = Null /\ g.rows = {[row |-> q, snap |-> Null] : q \in y.rows}
      /\ g.id = IdOf(y.path, DataPaths(l), id)
  BY DEF NewDataRow
<1>4. RowsOf(g.rows) = y.rows
  <2>1. ASSUME NEW q \in y.rows PROVE q \in RowsOf(g.rows)
    <3> DEFINE z == [row |-> q, snap |-> Null]
    <3>1. z \in g.rows /\ z.row = q
      BY <1>3
    <3> HIDE DEF z
    <3> QED BY <3>1 DEF RowsOf
  <2>2. ASSUME NEW z \in g.rows PROVE z.row \in y.rows
    BY <1>3
  <2> QED BY <2>1, <2>2 DEF RowsOf
<1>5. g.id \in Nat /\ id <= g.id
  BY <1>0, <1>1, AddedFilesAre
<1>6. ASSUME NEW e \in LiveDeletes(m, g) PROVE RowsOf(e.positions) = y.deleted
  <2>1. e \in m.delete_file /\ e.file = g.id
    BY <1>6 DEF LiveDeletes
  <2>2. ASSUME NEW d \in m0.delete_file, KeptUntil(d, e, k, changes) PROVE FALSE
    <3>1. e.file = d.file /\ d.file \in Nat /\ d.file < id
      BY <1>0, <2>2, KeptDeleteFields DEF GoodMetadata
    <3> QED BY <1>0, <1>5, <2>1, <3>1
  <2>3. ASSUME NEW x \in l.new_delete_files, e.file = x.file PROVE FALSE
    <3>1. PICK f \in v.data_file : f.id = x.file
      BY <1>0 DEF ChangesOK, DeletesOK
    <3>2. f.id \in Nat /\ f.id < id
      BY <1>0 DEF GoodMetadata
    <3> QED BY <1>0, <1>5, <2>1, <2>3, <3>1, <3>2
  <2>4. ASSUME NEW z \in l.new_data_files, e.file = NewDataRow(z, l, k, id).id PROVE z = y
    <3> DEFINE h == NewDataRow(z, l, k, id)
    <3>1. h \in NewDataRows(l, k, id)
      BY DEF NewDataRows
    <3>2. h.path = z.path /\ g.path = y.path
      BY DEF NewDataRow
    <3>3. UniqueIds(NewDataRows(l, k, id))
      BY <1>0, NewDataRowsAre
    <3> HIDE DEF h
    <3>4. h = g
      BY <1>1, <2>1, <2>4, <3>1, <3>3 DEF UniqueIds, h
    <3> QED BY <1>0, <3>2, <3>4 DEF GoodChanges, FilesNamedOnce
  <2>5. e \in AddedDeletes(l, k, id)
    BY <1>0, <2>1, <2>2 DEF TimeStep
  <2>6. \/ \E x \in l.new_delete_files : e.file = x.file
        \/ \E z \in l.new_data_files : e.file = NewDataRow(z, l, k, id).id /\ RowsOf(e.positions) = z.deleted
    BY <1>0, <2>5, AddedDeletesAre
  <2> QED BY <2>3, <2>4, <2>6
<1>7. ASSUME y.deleted # {} PROVE LiveDeletes(m, g) # {}
  <2> DEFINE e == NewFileDeleteRow(y, l, k, id)
  <2>1. y.delete_path # {}
    BY <1>0, <1>7 DEF ChangesOK, NewFilesOK
  <2>2. e \in AddedDeletes(l, k, id)
    BY <2>1 DEF AddedDeletes, NewFileDeleteRows
  <2>3. e.file = g.id /\ e.end = Null
    BY <1>3 DEF NewFileDeleteRow
  <2> HIDE DEF e
  <2> QED BY <1>0, <2>2, <2>3 DEF TimeStep, LiveDeletes
<1>8. LiveShows(m, g, r) <=> r \in y.rows \ y.deleted
  BY <1>3, <1>4, <1>6, <1>7 DEF LiveShows
<1> QED BY <1>2, <1>3, <1>4, <1>8

\* What a commit without compactions leaves in a table.
LEMMA AfterChanges ==
    ASSUME NEW v, NEW s0, NEW m0, NEW n, NEW l, NEW id, NEW m, NEW changes, Commits(v, s0, m0, n, l, id, m, changes),
           EndsOf(m0, m, l), l.compactions = {}, NEW t \in Tables, t \notin l.dropped_tables, NEW r
    PROVE  (\E g \in m.data_file : g.table = t /\ LiveShows(m, g, r)) <=>
             \/ \E f \in m0.data_file : f.table = t /\ LiveShows(m0, f, r) /\ ~Taken(l, f, r)
             \/ Inserted(l, t, r)
<1> DEFINE k == n + 1
<1>0. /\ CommitOK(v, s0, m0, n, l, id) /\ TimeStep(m0, m, l, k, id, changes) /\ GoodMetadata(m0, id) /\ k = n + 1
  BY DEF Commits, CommitOK, CommitArguments
<1> HIDE DEF k
<1>1. SourceIds(l, "merge") = {} /\ AddedFiles(l, k, id) = NewDataRows(l, k, id)
  BY DEF SourceIds, SourceFiles, AddedFiles, OutputFiles
<1>2. ASSUME NEW g \in m.data_file, g.table = t, LiveShows(m, g, r)
      PROVE  \/ \E f \in m0.data_file : f.table = t /\ LiveShows(m0, f, r) /\ ~Taken(l, f, r)
             \/ Inserted(l, t, r)
  <2>1. ASSUME NEW f \in m0.data_file, KeptUntil(f, g, k, changes)
        PROVE  f.table = t /\ LiveShows(m0, f, r) /\ ~Taken(l, f, r)
    <3>1. f.table = t
      BY <1>0, <1>2, <2>1, KeptFileFields DEF GoodMetadata
    <3>2. LiveShows(m, g, r) <=> (LiveShows(m0, f, r) /\ ~Taken(l, f, r))
      BY <1>0, <2>1, <3>1, KeptLive
    <3> QED BY <1>2, <3>1, <3>2
  <2>2. ASSUME NEW y \in l.new_data_files, g = NewDataRow(y, l, k, id) PROVE Inserted(l, t, r)
    <3>1. g.table = y.table /\ (LiveShows(m, g, r) <=> r \in y.rows \ y.deleted)
      BY <1>0, <2>2, NewLive
    <3> QED BY <1>2, <3>1 DEF Inserted
  <2> QED BY <1>0, <1>1, <2>1, <2>2 DEF TimeStep, NewDataRows
<1>3. ASSUME NEW f \in m0.data_file, f.table = t, LiveShows(m0, f, r), ~Taken(l, f, r)
      PROVE  \E g \in m.data_file : g.table = t /\ LiveShows(m, g, r)
  <2>1. PICK g \in m.data_file : KeptUntil(f, g, k, changes)
    BY <1>0, <1>1 DEF TimeStep
  <2>2. g.table = t
    BY <1>0, <1>3, <2>1, KeptFileFields DEF GoodMetadata
  <2>3. LiveShows(m, g, r) <=> (LiveShows(m0, f, r) /\ ~Taken(l, f, r))
    BY <1>0, <1>3, <2>1, KeptLive
  <2> QED BY <1>3, <2>2, <2>3
<1>4. ASSUME Inserted(l, t, r) PROVE \E g \in m.data_file : g.table = t /\ LiveShows(m, g, r)
  <2>1. PICK y \in l.new_data_files : y.table = t /\ r \in y.rows \ y.deleted
    BY <1>4 DEF Inserted
  <2> DEFINE g == NewDataRow(y, l, n + 1, id)
  <2>2. g = NewDataRow(y, l, n + 1, id)
    OBVIOUS
  <2> HIDE DEF g
  <2>3. g \in m.data_file /\ g.table = y.table /\ (LiveShows(m, g, r) <=> r \in y.rows \ y.deleted)
    BY <2>2, NewLive
  <2> QED BY <2>1, <2>3
<1> QED BY <1>2, <1>3, <1>4

\* A row of f is deleted.
Deleted(m, f, r) == \E d \in LiveDeletes(m, f) : r \in RowsOf(d.positions)

\* What a rewrite has read of its sources is still so: v is what it has read.
RewritesCurrent(v, m0, l) ==
    /\ SameDeletesById(v, m0)
    /\ \A x \in l.compactions : x.type = "rewrite" =>
          \A h \in x.sources, f \in m0.data_file : f.id = h.id => \A r : Deleted(v, h, r) <=> Deleted(m0, f, r)

\* A compaction: what a file that it does not read shows.
LEMMA KeptByCompaction ==
    ASSUME NEW v, NEW s0, NEW m0, NEW n, NEW l, NEW id, NEW m, NEW changes, Commits(v, s0, m0, n, l, id, m, changes),
           EndsOf(m0, m, l), l.compactions # {}, RewritesCurrent(v, m0, l),
           NEW f \in m0.data_file, NEW g \in m.data_file, KeptUntil(f, g, n + 1, changes), NEW r
    PROVE  LiveShows(m, g, r) <=> (LiveShows(m0, f, r) /\ f.id \notin SourceIds(l, "rewrite"))
<1> DEFINE k == n + 1
<1>0. /\ n \in Nat /\ k \in Nat \ {0} /\ CommitOK(v, s0, m0, n, l, id) /\ TimeStep(m0, m, l, k, id, changes)
      /\ GoodMetadata(m0, id) /\ k = n + 1 /\ id \in Nat /\ MetadataOK(m0, n)
      /\ TypedChanges(l) /\ ~MixesCompaction(TransactionChanges(l)) /\ ChangesOK(v, s0, l)
  BY DEF Commits, CommitOK, CommitArguments, GoodChanges
<1> HIDE DEF k
<1>1. g.id = f.id /\ g.rows = f.rows
  BY <1>0, KeptFileFields DEF GoodMetadata
<1>2. l.new_data_files = {} /\ l.new_delete_files = {} /\ l.dropped_files = {} /\ l.dropped_tables = {}
  BY <1>0, CompactsOrNot
<1>3. AddedDeletes(l, k, id) = {}
  BY <1>2 DEF AddedDeletes, NewDeleteRows, NewFileDeleteRows
<1>4. g.end = Null <=> (f.end = Null /\ f.id \notin SourceIds(l, "rewrite"))
  BY <1>1, <1>2 DEF EndsOf, FileEnds
<1>5. ASSUME NEW e \in LiveDeletes(m, g) PROVE \E d \in LiveDeletes(m0, f) : d.positions = e.positions
  <2>1. e \in m.delete_file /\ e.file = f.id /\ e.end = Null
    BY <1>1, <1>5 DEF LiveDeletes
  <2>2. PICK d \in m0.delete_file : KeptUntil(d, e, k, changes)
    BY <1>0, <1>3, <2>1 DEF TimeStep
  <2>3. e.file = d.file /\ e.positions = d.positions /\ (e.end = d.end \/ (d.end = Null /\ e.end = k))
    BY <1>0, <2>2, KeptDeleteFields DEF GoodMetadata
  <2> QED BY <1>0, <2>1, <2>3 DEF LiveDeletes
<1>6. ASSUME NEW d \in LiveDeletes(m0, f), f.id \notin SourceIds(l, "rewrite")
      PROVE  \E e \in LiveDeletes(m, g) : e.positions = d.positions
  <2>1. d \in m0.delete_file /\ d.file = f.id /\ d.end = Null
    BY <1>6 DEF LiveDeletes
  <2>2. d.id \notin RewrittenDeletes(l)
    <3> SUFFICES ASSUME NEW x \in l.compactions, NEW b \in x.deletes, b.id = d.id PROVE FALSE
      BY DEF RewrittenDeletes
    <3>1. x.type = "rewrite"
      BY <1>0 DEF TypedChanges, ChangesOK, CompactionsOK, MergeOf
    <3>2. PICK h \in x.sources : b \in LiveDeletes(v, h)
      BY <1>0, <3>1 DEF ChangesOK, CompactionsOK, RewriteOf
    <3>3. b.file = h.id /\ b \in v.delete_file
      BY <3>2 DEF LiveDeletes
    <3>4. b.file = d.file
      BY <2>1, <3>3 DEF RewritesCurrent, SameDeletesById
    <3> QED BY <1>6, <2>1, <3>1, <3>3, <3>4 DEF SourceIds, SourceFiles
  <2>3. PICK e \in m.delete_file : KeptUntil(d, e, k, changes)
    BY <1>0, <2>1 DEF TimeStep
  <2>4. e.id = d.id /\ e.file = d.file /\ e.positions = d.positions
    BY <1>0, <2>1, <2>3, KeptDeleteFields DEF GoodMetadata
  <2>5. e.end = Null
    BY <1>2, <2>1, <2>2, <2>4 DEF EndsOf, DeleteEnds
  <2> QED BY <1>1, <2>1, <2>4, <2>5 DEF LiveDeletes
<1> QED BY <1>1, <1>4, <1>5, <1>6 DEF LiveShows

\* The rows that a compaction writes are those of its sources that are not deleted.
LEMMA RowsOfOutput ==
    ASSUME NEW v, NEW s0, NEW m0, NEW n, NEW l, NEW id, CommitOK(v, s0, m0, n, l, id), RewritesCurrent(v, m0, l),
           NEW x \in l.compactions, NEW r
    PROVE  r \in RowsOf(x.rows) <=> \E h \in x.sources, f \in m0.data_file : f.id = h.id /\ LiveShows(m0, f, r)
<1>0. /\ s0 \in Nat /\ SourcesLive(m0, l) /\ ChangesOK(v, s0, l) /\ ChangesRefer(v, s0, l) /\ MetadataOK(v, s0) /\ TypedChanges(l)
  BY DEF CommitOK, CommitArguments, GoodChanges
<1>1. \A h \in x.sources : h \in v.data_file /\ FileOK(h, s0)
  BY <1>0 DEF ChangesRefer, CompactionsRefer, MetadataOK
<1>2. \A h \in x.sources : \E f \in m0.data_file : f.id = h.id
  BY <1>0 DEF SourcesLive
<1>3. \A h \in x.sources, f \in m0.data_file : f.id = h.id => f.end = Null /\ f.rows = h.rows
  BY <1>0 DEF SourcesLive
<1>4. CASE x.type = "merge"
  <2>1. x.rows = UNION {RowSnapshots(h) : h \in x.sources}
    BY <1>0, <1>4 DEF ChangesOK, CompactionsOK, MergeOf
  <2>2. \A h \in x.sources : RowsOf(RowSnapshots(h)) = RowsOf(h.rows)
    BY <1>0, <1>1, SnapshotsOfRows
  <2>3. r \in RowsOf(x.rows) <=> \E h \in x.sources : r \in RowsOf(RowSnapshots(h))
    BY <2>1 DEF RowsOf
  <2>4. ASSUME NEW h \in x.sources, NEW f \in m0.data_file, f.id = h.id
        PROVE  LiveShows(m0, f, r) <=> r \in RowsOf(h.rows)
    <3>1. f.id \in SourceIds(l, "merge")
      BY <1>4, <2>4 DEF SourceIds, SourceFiles
    <3>2. LiveDeletes(m0, f) = {}
      BY <1>0, <3>1 DEF SourcesLive, LiveDeletes
    <3> QED BY <1>3, <2>4, <3>2 DEF LiveShows
  <2> QED BY <1>2, <2>2, <2>3, <2>4
<1>5. CASE x.type = "rewrite"
  <2>1. x.rows = {[q EXCEPT !.snap = Null] : q \in UNION {Undeleted(v, h) : h \in x.sources}}
    BY <1>0, <1>5 DEF ChangesOK, CompactionsOK, RewriteOf
  <2>2. \A h \in x.sources : \A q \in h.rows : DOMAIN q = RowFields
    BY <1>1 DEF FileOK
  <2>3. ASSUME NEW q, DOMAIN q = RowFields PROVE [q EXCEPT !.snap = Null].row = q.row
    BY <2>3 DEF RowFields
  <2>4. ASSUME NEW h \in x.sources PROVE r \in RowsOf(Undeleted(v, h)) <=> (r \in RowsOf(h.rows) /\ ~Deleted(v, h, r))
    BY DEF RowsOf, Undeleted, Deleted
  <2>5. \A h \in x.sources : Undeleted(v, h) \subseteq h.rows
    BY DEF Undeleted
  <2>6. ASSUME NEW h \in x.sources, r \in RowsOf(Undeleted(v, h)) PROVE r \in RowsOf(x.rows)
    <3>1. PICK q \in Undeleted(v, h) : q.row = r
      BY <2>6 DEF RowsOf
    <3> DEFINE z == [q EXCEPT !.snap = Null]
    <3>2. z \in x.rows
      BY <2>1
    <3>3. z.row = r
      BY <2>2, <2>3, <2>5, <3>1
    <3> HIDE DEF z
    <3> QED BY <3>2, <3>3 DEF RowsOf
  <2>7. ASSUME r \in RowsOf(x.rows) PROVE \E h \in x.sources : r \in RowsOf(Undeleted(v, h))
    <3>1. PICK z \in x.rows : z.row = r
      BY <2>7 DEF RowsOf
    <3>2. PICK q \in UNION {Undeleted(v, h) : h \in x.sources} : z = [q EXCEPT !.snap = Null]
      BY <2>1
    <3>3. PICK h \in x.sources : q \in Undeleted(v, h)
      BY <3>2
    <3>4. q.row = r
      BY <2>2, <2>3, <2>5, <3>1, <3>2, <3>3
    <3> QED BY <3>3, <3>4 DEF RowsOf
  <2>8. ASSUME NEW h \in x.sources, NEW f \in m0.data_file, f.id = h.id
        PROVE  LiveShows(m0, f, r) <=> (r \in RowsOf(h.rows) /\ ~Deleted(v, h, r))
    <3>1. Deleted(v, h, r) <=> Deleted(m0, f, r)
      BY <1>5, <2>8 DEF RewritesCurrent
    <3> QED BY <1>3, <2>8, <3>1 DEF LiveShows, Deleted
  <2> QED BY <1>2, <2>4, <2>6, <2>7, <2>8
<1> QED BY <1>0, <1>4, <1>5 DEF TypedChanges

\* What the file that a compaction writes shows.
LEMMA OutputLive ==
    ASSUME NEW v, NEW s0, NEW m0, NEW n, NEW l, NEW id, NEW m, NEW changes, Commits(v, s0, m0, n, l, id, m, changes),
           RewritesCurrent(v, m0, l), NEW x \in l.compactions, x.path # {},
           NEW g, g = OutputRow(x, l, x.type, n + 1, id), NEW r
    PROVE  /\ g \in m.data_file /\ g.table = x.table
           /\ LiveShows(m, g, r) <=> \E h \in x.sources, f \in m0.data_file : f.id = h.id /\ LiveShows(m0, f, r)
<1> DEFINE k == n + 1
<1>0. /\ n \in Nat /\ k \in Nat \ {0} /\ CommitOK(v, s0, m0, n, l, id) /\ TimeStep(m0, m, l, k, id, changes)
      /\ GoodMetadata(m0, id) /\ k = n + 1 /\ id \in Nat
      /\ TypedChanges(l) /\ ~MixesCompaction(TransactionChanges(l))
  BY DEF Commits, CommitOK, CommitArguments, GoodChanges
<1> HIDE DEF k
<1>1. g \in AddedFiles(l, k, id)
  <2>1. x.type = "merge" \/ x.type = "rewrite"
    BY <1>0 DEF TypedChanges
  <2>2. g \in OutputFiles(l, x.type, k, id)
    BY <1>0, OutputFilesSet
  <2> QED BY <2>1, <2>2 DEF AddedFiles
<1>2. g \in m.data_file
  BY <1>0, <1>1 DEF TimeStep
<1>3. g.table = x.table /\ g.rows = x.rows /\ g.end = Null
  BY DEF OutputRow
<1>4. g.id \in Nat /\ id <= g.id
  BY <1>0, <1>1, AddedFilesAre
<1>5. LiveDeletes(m, g) = {}
  <2> SUFFICES ASSUME NEW e \in m.delete_file, e.file = g.id PROVE FALSE
    BY DEF LiveDeletes
  <2>1. l.new_data_files = {} /\ l.new_delete_files = {}
    BY <1>0, CompactsOrNot
  <2>2. AddedDeletes(l, k, id) = {}
    BY <2>1 DEF AddedDeletes, NewDeleteRows, NewFileDeleteRows
  <2>3. PICK d \in m0.delete_file : KeptUntil(d, e, k, changes)
    BY <1>0, <2>2 DEF TimeStep
  <2>4. e.file = d.file /\ d.file \in Nat /\ d.file < id
    BY <1>0, <2>3, KeptDeleteFields DEF GoodMetadata
  <2> QED BY <1>0, <1>4, <2>4
<1>6. r \in RowsOf(x.rows) <=> \E h \in x.sources, f \in m0.data_file : f.id = h.id /\ LiveShows(m0, f, r)
  BY <1>0, RowsOfOutput
<1> QED BY <1>2, <1>3, <1>5, <1>6 DEF LiveShows

\* A compaction leaves in a table what was there.
LEMMA AfterCompaction ==
    ASSUME NEW v, NEW s0, NEW m0, NEW n, NEW l, NEW id, NEW m, NEW changes, Commits(v, s0, m0, n, l, id, m, changes),
           EndsOf(m0, m, l), l.compactions # {}, RewritesCurrent(v, m0, l), NEW t \in Tables, NEW r
    PROVE  (\E g \in m.data_file : g.table = t /\ LiveShows(m, g, r)) <=>
             \E f \in m0.data_file : f.table = t /\ LiveShows(m0, f, r)
<1> DEFINE k == n + 1
<1>0. /\ CommitOK(v, s0, m0, n, l, id) /\ TimeStep(m0, m, l, k, id, changes) /\ GoodMetadata(m0, id) /\ k = n + 1
      /\ TypedChanges(l) /\ ~MixesCompaction(TransactionChanges(l)) /\ SourcesLive(m0, l) /\ ChangesOK(v, s0, l)
  BY DEF Commits, CommitOK, CommitArguments, GoodChanges
<1> HIDE DEF k
<1>1. NewDataRows(l, k, id) = {}
  BY <1>0, CompactsOrNot DEF NewDataRows
<1>2. \A x \in l.compactions : x.type = "merge" \/ x.type = "rewrite"
  BY <1>0 DEF TypedChanges
<1>3. \A x \in l.compactions : \A h \in x.sources, f \in m0.data_file : f.id = h.id => f.table = x.table
  BY <1>0 DEF SourcesLive
<1>4. ASSUME NEW g \in m.data_file, g.table = t, LiveShows(m, g, r)
      PROVE  \E f \in m0.data_file : f.table = t /\ LiveShows(m0, f, r)
  <2>1. ASSUME NEW f \in m0.data_file, KeptUntil(f, g, k, changes) PROVE f.table = t /\ LiveShows(m0, f, r)
    <3>1. f.table = t
      BY <1>0, <1>4, <2>1, KeptFileFields DEF GoodMetadata
    <3>2. LiveShows(m, g, r) <=> (LiveShows(m0, f, r) /\ f.id \notin SourceIds(l, "rewrite"))
      BY <1>0, <2>1, KeptByCompaction
    <3> QED BY <1>4, <3>1, <3>2
  <2>2. ASSUME NEW x \in l.compactions, x.path # {}, g = OutputRow(x, l, x.type, k, id)
        PROVE  \E f \in m0.data_file : f.table = t /\ LiveShows(m0, f, r)
    <3>1. /\ g.table = x.table
          /\ LiveShows(m, g, r) <=> \E h \in x.sources, f \in m0.data_file : f.id = h.id /\ LiveShows(m0, f, r)
      BY <1>0, <2>2, OutputLive
    <3> QED BY <1>3, <1>4, <3>1
  <2>3. ASSUME g \in AddedFiles(l, k, id) PROVE \E x \in l.compactions : x.path # {} /\ g = OutputRow(x, l, x.type, k, id)
    BY <1>1, <2>3, OutputFilesSet DEF AddedFiles
  <2> QED BY <1>0, <2>1, <2>2, <2>3 DEF TimeStep
<1>5. ASSUME NEW f \in m0.data_file, f.table = t, LiveShows(m0, f, r)
      PROVE  \E g \in m.data_file : g.table = t /\ LiveShows(m, g, r)
  <2>1. CASE f.id \notin SourceIds(l, "merge") /\ f.id \notin SourceIds(l, "rewrite")
    <3>1. PICK g \in m.data_file : KeptUntil(f, g, k, changes)
      BY <1>0, <2>1 DEF TimeStep
    <3>2. g.table = t
      BY <1>0, <1>5, <3>1, KeptFileFields DEF GoodMetadata
    <3>3. LiveShows(m, g, r) <=> (LiveShows(m0, f, r) /\ f.id \notin SourceIds(l, "rewrite"))
      BY <1>0, <3>1, KeptByCompaction
    <3> QED BY <1>5, <2>1, <3>2, <3>3
  <2>2. ASSUME NEW x \in l.compactions, NEW h \in x.sources, f.id = h.id
        PROVE  \E g \in m.data_file : g.table = t /\ LiveShows(m, g, r)
    <3>1. r \in RowsOf(x.rows)
      BY <1>0, <1>5, <2>2, RowsOfOutput
    <3>2. x.path # {}
      <4>1. x.rows # {}
        BY <3>1 DEF RowsOf
      <4> QED BY <1>0, <1>2, <4>1 DEF ChangesOK, CompactionsOK, MergeOf, RewriteOf
    <3> DEFINE g == OutputRow(x, l, x.type, n + 1, id)
    <3>3. g = OutputRow(x, l, x.type, n + 1, id)
      OBVIOUS
    <3> HIDE DEF g
    <3>4. /\ g \in m.data_file /\ g.table = x.table
          /\ LiveShows(m, g, r) <=> \E b \in x.sources, a \in m0.data_file : a.id = b.id /\ LiveShows(m0, a, r)
      BY <3>2, <3>3, OutputLive
    <3> QED BY <1>3, <1>5, <2>2, <3>4
  <2> QED BY <2>1, <2>2 DEF SourceIds, SourceFiles
<1> QED BY <1>4, <1>5

\* A client's commit ends these rows.
LEMMA CommitEndsRows ==
    ASSUME CheckedInv, NEW c \in Clients, Commit(c), NEW n, n = Len(log), NEW l, l = local[c]
    PROVE  EndsOf(versions[n], versions'[n + 1], l)
<1> DEFINE id == log[n].next_file_id
           m0 == versions[n]
           m == versions'[n + 1]
<1>1. m = CommitChanges(m0, l, n + 1, id) /\ CommitArguments(l, n + 1, id) /\ GoodMetadata(m0, id)
  BY CommitOfClient DEF CheckedInv
<1> HIDE DEF id, m0, m
<1>2. DOMAIN m0 = MetadataFields
  BY <1>1 DEF GoodMetadata
<1>3. m.data_file = FilesAfter(m0.data_file, l, n + 1, id) /\ m.delete_file = DeletesAfter(m0.delete_file, l, n + 1, id)
  BY <1>1, <1>2, CommitChangesFields
<1>4. \A f \in m0.data_file, g \in m.data_file : g.id = f.id => (g.end = Null <=> (f.end = Null /\ ~FileEnds(f, l)))
  BY <1>1, <1>3, EndsOfFiles
<1>5. \A d \in m0.delete_file, e \in m.delete_file : e.id = d.id => (e.end = Null <=> (d.end = Null /\ ~DeleteEnds(d, l)))
  BY <1>1, <1>3, EndsOfDeletes
<1> QED BY <1>4, <1>5 DEF EndsOf, m0, m

\* What a transaction has read, and the newest metadata when it commits.
LEMMA ReadAndNow ==
    ASSUME CheckedInv, TimeInv, NEW c \in Clients, Commit(c), NEW n, n = Len(log), NEW s, s = txn[c].snap
    PROVE  /\ n \in Nat \ {0} /\ s \in 1 .. n /\ s \in Nat
           /\ Later(versions[s], versions[n], s, n, log) /\ Follows(versions[s], versions[n], s, n, log)
           /\ MetadataOK(versions[s], s) /\ MetadataOK(versions[n], n)
<1>1. n \in Nat \ {0} /\ s \in 1 .. n
  BY CommitOfClient DEF CheckedInv
<1>2. s \in 1 .. Len(log) /\ n \in 1 .. Len(log) /\ s <= n
  BY <1>1
<1>3. Later(versions[s], versions[n], s, n, log)
  BY <1>2 DEF CheckedInv, MetaInv, HistoryInv
<1> QED BY <1>1, <1>2, <1>3 DEF TimeInv

\* The deletions that a rewrite has read have not changed when it commits.
LEMMA RewritesAreCurrent ==
    ASSUME CheckedInv, TimeInv, NEW c \in Clients, Commit(c), NEW n, n = Len(log), NEW l, l = local[c], NEW s, s = txn[c].snap
    PROVE  RewritesCurrent(versions[s], versions[n], l)
<1> DEFINE v == versions[s]
           m0 == versions[n]
<1>0. /\ n \in Nat \ {0} /\ s \in 1 .. n /\ s \in Nat
      /\ Later(v, m0, s, n, log) /\ Follows(v, m0, s, n, log) /\ MetadataOK(v, s) /\ MetadataOK(m0, n)
  BY ReadAndNow
<1>1. ChangesRefer(v, s, l)
  BY CommitOfClient DEF CheckedInv
<1>a. \A d \in v.delete_file : DOMAIN d = DeleteFields
  <2>1. GoodMetadata(v, log[n].next_file_id)
    BY CommitOfClient, SMTT(60) DEF CheckedInv
  <2> QED BY <2>1 DEF GoodMetadata
<1>2. \A x \in l.compactions : \A J \in CompactionsConflictWith : ~Between(J, x.table, s, n, log)
  BY CompactedTablesRest
<1> HIDE DEF v, m0
<1>3. ASSUME NEW x \in l.compactions, x.type = "rewrite", NEW h \in x.sources, NEW f \in m0.data_file, f.id = h.id, NEW r
      PROVE  Deleted(v, h, r) <=> Deleted(m0, f, r)
  <2>1. h \in v.data_file /\ h.table = x.table
    BY <1>1, <1>3 DEF ChangesRefer, CompactionsRefer
  <2>2. EndKinds \subseteq CompactionsConflictWith /\ "deleted_from_table" \in CompactionsConflictWith
    BY DEF EndKinds, CompactionsConflictWith
  <2>3. ASSUME NEW d \in LiveDeletes(v, h) PROVE \E e \in LiveDeletes(m0, f) : e.positions = d.positions
    <3>1. d \in v.delete_file /\ d.file = h.id /\ d.end = Null
      BY <2>3 DEF LiveDeletes
    <3>2. d.table = x.table
      BY <1>0, <2>1, <3>1 DEF MetadataOK
    <3>3. PICK e \in m0.delete_file : e.id = d.id
      BY <1>0, <3>1 DEF Follows
    <3>4. SameUntilEnd(d, e, s, n, log)
      BY <1>0, <3>1, <3>3 DEF Follows
    <3>5. e.end = d.end
      BY <1>2, <2>2, <3>2, <3>4 DEF SameUntilEnd
    <3>6. e.file = d.file
      BY <1>0, <3>1, <3>3 DEF Later, SameDeletesById
    <3>7. DOMAIN d = DeleteFields
      BY <1>a, <3>1
    <3>8. e.positions = d.positions
      BY <3>4, <3>7 DEF SameUntilEnd, DeleteFields
    <3> QED BY <1>3, <3>1, <3>3, <3>5, <3>6, <3>8 DEF LiveDeletes
  <2>4. ASSUME NEW e \in LiveDeletes(m0, f) PROVE \E d \in LiveDeletes(v, h) : e.positions = d.positions
    <3>1. e \in m0.delete_file /\ e.file = h.id /\ e.end = Null
      BY <1>3, <2>4 DEF LiveDeletes
    <3>2. ~Between("deleted_from_table", h.table, s, n, log)
      BY <1>2, <2>1, <2>2
    <3>3. PICK d \in v.delete_file : d.id = e.id
      BY <1>0, <2>1, <3>1, <3>2 DEF Later, DeletesCome
    <3>4. SameUntilEnd(d, e, s, n, log)
      BY <1>0, <3>1, <3>3 DEF Follows
    <3>5. d.file = e.file /\ d.end = Null
      BY <1>0, <3>1, <3>3 DEF Later, SameDeletesById
    <3>7. DOMAIN d = DeleteFields
      BY <1>a, <3>3
    <3>8. e.positions = d.positions
      BY <3>4, <3>7 DEF SameUntilEnd, DeleteFields
    <3> QED BY <3>1, <3>3, <3>5, <3>8 DEF LiveDeletes
  <2> QED BY <2>3, <2>4 DEF Deleted
<1> QED BY <1>0, <1>3 DEF RewritesCurrent, Later, v, m0

\* The transaction deletes from the file.
Hit(l, f) ==
    [file |-> f.id, table |-> f.table] \in l.dropped_files \/ \E x \in l.new_delete_files : x.file = f.id

\* The conflict rules for a deletion from a table that another drops or compacts, and for
\* an insertion into one that another drops.
LEMMA DeletesConflict ==
    /\ \A J \in {"dropped_table", "merge_adjacent", "rewrite_delete"} : <<"deleted_from_table", J>> \in Rules
    /\ <<"inserted_into_table", "dropped_table">> \in Rules
<1>1. \A J \in {"dropped_table", "merge_adjacent", "rewrite_delete"} : <<"deleted_from_table", J>> \in DeleteRules
  BY DEF DeleteRules
<1>2. <<"inserted_into_table", "dropped_table">> \in InsertRules
  BY DEF InsertRules
<1> QED BY <1>1, <1>2 DEF Rules

\* A file from which a transaction deletes: the table is recorded, and it had no delete file.
LEMMA HitFiles ==
    ASSUME PlainWorkload, NEW v, NEW s \in Nat, NEW l, TypedChanges(l), MetadataOK(v, s), UniqueIds(v.data_file),
           ChangesOK(v, s, l), ChangesRefer(v, s, l), NEW f \in v.data_file, Hit(l, f)
    PROVE  /\ <<"deleted_from_table", f.table>> \in TransactionChanges(l)
           /\ LiveDeletes(v, f) = {}
           /\ f.id \in {d.file : d \in l.new_delete_files} \cup {y.file : y \in l.dropped_files}
<1>1. ASSUME NEW d \in v.delete_file PROVE Visible(d, s) <=> d.end = Null
  BY VisibleMeansLive
<1>2. CASE [file |-> f.id, table |-> f.table] \in l.dropped_files
  <2> DEFINE y == [file |-> f.id, table |-> f.table]
  <2>1. y \in l.dropped_files /\ y.file = f.id /\ y.table = f.table
    BY <1>2
  <2> HIDE DEF y
  <2>2. \A d \in v.delete_file : d.file = f.id => ~Visible(d, s)
    BY <2>1 DEF ChangesOK, DeletesOK
  <2>3. <<"deleted_from_table", f.table>> \in TransactionChanges(l)
    BY <2>1, ChangesOf
  <2> QED BY <1>1, <2>1, <2>2, <2>3 DEF LiveDeletes
<1>3. ASSUME NEW x \in l.new_delete_files, x.file = f.id
      PROVE  /\ <<"deleted_from_table", f.table>> \in TransactionChanges(l)
             /\ LiveDeletes(v, f) = {}
  <2>1. PICK g \in v.data_file : g.id = x.file /\ g.table = x.table
    BY <1>3 DEF ChangesOK, DeletesOK
  <2>2. g = f
    BY <1>3, <2>1 DEF UniqueIds
  <2>3. \A d \in v.delete_file : d.file = f.id => ~Visible(d, s)
    BY <1>3 DEF ChangesRefer, DeletesRefer, DeleteRefers, PlainWorkload
  <2>4. <<"deleted_from_table", x.table>> \in TransactionChanges(l)
    BY <1>3, ChangesOf
  <2> QED BY <1>1, <2>1, <2>2, <2>3, <2>4 DEF LiveDeletes
<1> QED BY <1>2, <1>3 DEF Hit

----------------------------------------------------------------------------
(* A row is in one live file.                                              *)

\* The rows of the data files were first written to files of P.
RowsFrom(m, P) == \A f \in m.data_file : \A r \in RowsOf(f.rows) : r[1] \in P

\* No two live files have a row in common.
LiveDisjoint(m) ==
    \A f, g \in m.data_file : \A r : f.end = Null /\ g.end = Null /\ r \in RowsOf(f.rows) /\ r \in RowsOf(g.rows) => f = g

\* Where a live file of the metadata after a commit has a row from: the file was there
\* and is no source of a compaction, or a compaction has found the row in a source, or
\* the transaction has inserted it.
Origin(m0, m, l, k, id, g, r) ==
    \/ \E f \in m0.data_file : /\ g.id = f.id /\ f.end = Null /\ r \in RowsOf(f.rows)
                               /\ f.id \notin SourceIds(l, "merge") /\ f.id \notin SourceIds(l, "rewrite")
    \/ \E x \in l.compactions : /\ g = OutputRow(x, l, x.type, k, id)
                                /\ \E h \in x.sources, f \in m0.data_file : f.id = h.id /\ f.end = Null /\ r \in RowsOf(f.rows)
    \/ \E y \in l.new_data_files : g = NewDataRow(y, l, k, id) /\ r \in y.rows

\* Every row of a live file has such an origin.
LEMMA RowOrigin ==
    ASSUME NEW v, NEW s0, NEW m0, NEW n, NEW l, NEW id, NEW m, NEW changes, Commits(v, s0, m0, n, l, id, m, changes),
           EndsOf(m0, m, l), RewritesCurrent(v, m0, l),
           NEW g \in m.data_file, g.end = Null, NEW r \in RowsOf(g.rows)
    PROVE  Origin(m0, m, l, n + 1, id, g, r)
<1> DEFINE k == n + 1
<1>0. /\ CommitOK(v, s0, m0, n, l, id) /\ TimeStep(m0, m, l, k, id, changes) /\ GoodMetadata(m0, id) /\ k = n + 1
  BY DEF Commits, CommitOK
<1> HIDE DEF k
<1>1. ASSUME NEW f \in m0.data_file, f.id \notin SourceIds(l, "merge"), KeptUntil(f, g, k, changes)
      PROVE  Origin(m0, m, l, k, id, g, r)
  <2>1. g.id = f.id /\ g.rows = f.rows
    BY <1>0, <1>1, KeptFileFields DEF GoodMetadata
  <2>2. f.end = Null /\ ~FileEnds(f, l)
    BY <1>1, <2>1 DEF EndsOf
  <2> QED BY <1>1, <2>1, <2>2 DEF Origin, FileEnds
<1>2. ASSUME g \in NewDataRows(l, k, id) PROVE Origin(m0, m, l, k, id, g, r)
  <2>1. PICK y \in l.new_data_files : g = NewDataRow(y, l, k, id)
    BY <1>2 DEF NewDataRows
  <2>2. RowsOf(g.rows) = y.rows
    BY <1>0, <2>1, NewLive
  <2> QED BY <2>1, <2>2 DEF Origin
<1>3. ASSUME NEW type, g \in OutputFiles(l, type, k, id) PROVE Origin(m0, m, l, k, id, g, r)
  <2>1. PICK x \in l.compactions : x.type = type /\ g = OutputRow(x, l, type, k, id)
    BY <1>3, OutputFilesSet
  <2>2. g.rows = x.rows
    BY <2>1 DEF OutputRow
  <2>3. \E h \in x.sources, f \in m0.data_file : f.id = h.id /\ LiveShows(m0, f, r)
    BY <1>0, <2>2, RowsOfOutput
  <2> QED BY <2>1, <2>3 DEF Origin, LiveShows
<1>4. Origin(m0, m, l, k, id, g, r)
  BY <1>0, <1>1, <1>2, <1>3 DEF TimeStep, AddedFiles
<1> QED BY <1>0, <1>4

\* A commit registers the rows that it inserts.
LEMMA CommitRowsFrom ==
    ASSUME NEW v, NEW s0, NEW m0, NEW n, NEW l, NEW id, NEW m, NEW changes, Commits(v, s0, m0, n, l, id, m, changes),
           RewritesCurrent(v, m0, l), NEW P, RowsFrom(m0, P)
    PROVE  RowsFrom(m, P \cup LocalPaths(l))
<1> DEFINE k == n + 1
<1>0. /\ CommitOK(v, s0, m0, n, l, id) /\ TimeStep(m0, m, l, k, id, changes) /\ GoodMetadata(m0, id) /\ k = n + 1
      /\ NewFilesOK(l)
  BY DEF Commits, CommitOK, ChangesOK
<1> HIDE DEF k
<1> SUFFICES ASSUME NEW g \in m.data_file, NEW r \in RowsOf(g.rows) PROVE r[1] \in P \cup LocalPaths(l)
  BY DEF RowsFrom
<1>1. ASSUME NEW f \in m0.data_file, KeptUntil(f, g, k, changes) PROVE r[1] \in P
  <2>1. g.rows = f.rows
    BY <1>0, <1>1, KeptFileFields DEF GoodMetadata
  <2> QED BY <2>1 DEF RowsFrom
<1>2. ASSUME g \in NewDataRows(l, k, id) PROVE r[1] \in LocalPaths(l)
  <2>1. PICK y \in l.new_data_files : g = NewDataRow(y, l, k, id)
    BY <1>2 DEF NewDataRows
  <2>2. RowsOf(g.rows) = y.rows
    BY <1>0, <2>1, NewLive
  <2>3. r \in {y.path} \X Positions
    BY <1>0, <2>2 DEF NewFilesOK
  <2>4. y.path \in LocalPaths(l)
    BY DEF LocalPaths, DataPaths
  <2> QED BY <2>3, <2>4
<1>3. ASSUME NEW type, g \in OutputFiles(l, type, k, id) PROVE r[1] \in P
  <2>1. PICK x \in l.compactions : x.type = type /\ g = OutputRow(x, l, type, k, id)
    BY <1>3, OutputFilesSet
  <2>2. g.rows = x.rows
    BY <2>1 DEF OutputRow
  <2>3. \E h \in x.sources, f \in m0.data_file : f.id = h.id /\ LiveShows(m0, f, r)
    BY <1>0, <2>2, RowsOfOutput
  <2> QED BY <2>3 DEF LiveShows, RowsFrom
<1> QED BY <1>0, <1>1, <1>2, <1>3 DEF TimeStep, AddedFiles

\* A commit keeps live files disjoint.
LEMMA CommitLiveDisjoint ==
    ASSUME NEW v, NEW s0, NEW m0, NEW n, NEW l, NEW id, NEW m, NEW changes, Commits(v, s0, m0, n, l, id, m, changes),
           EndsOf(m0, m, l), RewritesCurrent(v, m0, l), NEW P, RowsFrom(m0, P), LocalPaths(l) \cap P = {}, LiveDisjoint(m0)
    PROVE  LiveDisjoint(m)
<1> SUFFICES ASSUME NEW g1 \in m.data_file, NEW g2 \in m.data_file, NEW r, g1.end = Null, g2.end = Null,
                    r \in RowsOf(g1.rows), r \in RowsOf(g2.rows)
             PROVE  g1 = g2
  BY DEF LiveDisjoint
<1> DEFINE k == n + 1
<1>0. /\ CommitOK(v, s0, m0, n, l, id) /\ k = n + 1 /\ NewFilesOK(l) /\ FilesNamedOnce(l) /\ TypedChanges(l)
      /\ UniqueIds(v.data_file) /\ UniqueIds(m.data_file) /\ CompactionsOK(v, l) /\ CompactionsRefer(v, l)
  BY DEF Commits, CommitOK, ChangesOK, CommitArguments, GoodChanges, GoodMetadata, ChangesRefer
<1>1. Origin(m0, m, l, k, id, g1, r) /\ Origin(m0, m, l, k, id, g2, r)
  BY RowOrigin
<1> HIDE DEF k
<1> DEFINE Old(g) == \E f \in m0.data_file : /\ g.id = f.id /\ f.end = Null /\ r \in RowsOf(f.rows)
                                             /\ f.id \notin SourceIds(l, "merge") /\ f.id \notin SourceIds(l, "rewrite")
           Out(g) == \E x \in l.compactions :
                        /\ g = OutputRow(x, l, x.type, k, id)
                        /\ \E h \in x.sources, f \in m0.data_file : f.id = h.id /\ f.end = Null /\ r \in RowsOf(f.rows)
           New(g) == \E y \in l.new_data_files : g = NewDataRow(y, l, k, id) /\ r \in y.rows
<1>2. \A x \in l.compactions : \A h \in x.sources : h.id \in SourceIds(l, "merge") \/ h.id \in SourceIds(l, "rewrite")
  BY <1>0 DEF TypedChanges, SourceIds, SourceFiles
<1>3. ASSUME NEW y \in l.new_data_files, r \in y.rows PROVE r[1] = y.path /\ y.path \in LocalPaths(l)
  BY <1>0, <1>3 DEF NewFilesOK, LocalPaths, DataPaths
<1>4. ASSUME NEW f \in m0.data_file, r \in RowsOf(f.rows) PROVE r[1] \in P
  BY <1>4 DEF RowsFrom
<1>5. ASSUME Old(g1), Old(g2) PROVE g1 = g2
  BY <1>0, <1>5 DEF LiveDisjoint, UniqueIds
<1>6. ASSUME Old(g1), Out(g2) PROVE FALSE
  BY <1>2, <1>6 DEF LiveDisjoint
<1>7. ASSUME Old(g2), Out(g1) PROVE FALSE
  BY <1>2, <1>7 DEF LiveDisjoint
<1>8. ASSUME Out(g1), Out(g2) PROVE g1 = g2
  <2>1. PICK x \in l.compactions : /\ g1 = OutputRow(x, l, x.type, k, id)
                                   /\ \E h \in x.sources, f \in m0.data_file : f.id = h.id /\ f.end = Null /\ r \in RowsOf(f.rows)
    BY <1>8
  <2>2. PICK y \in l.compactions : /\ g2 = OutputRow(y, l, y.type, k, id)
                                   /\ \E h \in y.sources, f \in m0.data_file : f.id = h.id /\ f.end = Null /\ r \in RowsOf(f.rows)
    BY <1>8
  <2>3. \E a \in x.sources, b \in y.sources : a.id = b.id
    BY <2>1, <2>2 DEF LiveDisjoint
  <2>4. \A a \in x.sources, b \in y.sources : a \in v.data_file /\ b \in v.data_file
    BY <1>0 DEF CompactionsRefer
  <2>5. \E a \in x.sources : a \in y.sources
    BY <1>0, <2>3, <2>4 DEF UniqueIds
  <2>6. x = y
    BY <1>0, <2>5 DEF CompactionsOK
  <2> QED BY <2>1, <2>2, <2>6
<1>9. ASSUME New(g1), New(g2) PROVE g1 = g2
  <2>1. PICK y \in l.new_data_files : g1 = NewDataRow(y, l, k, id) /\ r \in y.rows
    BY <1>9
  <2>2. PICK z \in l.new_data_files : g2 = NewDataRow(z, l, k, id) /\ r \in z.rows
    BY <1>9
  <2>3. y.path = z.path
    BY <1>3, <2>1, <2>2
  <2>4. y = z
    BY <1>0, <2>3 DEF FilesNamedOnce
  <2> QED BY <2>1, <2>2, <2>4
<1>10. ASSUME NEW g, New(g) PROVE r[1] \notin P
  BY <1>3, <1>10
<1>11. ASSUME NEW g, Old(g) \/ Out(g) PROVE r[1] \in P
  BY <1>4, <1>11
<1>12. /\ Old(g1) \/ Out(g1) \/ New(g1)
       /\ Old(g2) \/ Out(g2) \/ New(g2)
  BY <1>1 DEF Origin
<1> HIDE DEF Old, Out, New
<1> QED BY <1>5, <1>6, <1>7, <1>8, <1>9, <1>10, <1>11, <1>12

----------------------------------------------------------------------------
(* What a transaction has deleted from is as it was when it commits.       *)

\* Of the snapshots since the transaction's own, none that has deleted from the table
\* has touched a file that it deletes from.
LEMMA NoDeletesSince ==
    ASSUME CheckedInv, NEW c \in Clients, Commit(c), NEW n, n = Len(log), NEW l, l = local[c], NEW s, s = txn[c].snap,
           NEW t, <<"deleted_from_table", t>> \in TransactionChanges(l), Between("deleted_from_table", t, s, n, log)
    PROVE  ~DeletedSince(versions[n], s, l)
<1>1. /\ n \in Nat \ {0} /\ s \in 1 .. n /\ txn[c].changes = TransactionChanges(l)
      /\ txn[c].phase = "executing" /\ txn[c].base = n
  BY CommitOfClient, SMTT(60) DEF CheckedInv
<1>2. PICK i \in (s + 1) .. n : <<"deleted_from_table", t>> \in log[i].changes
  BY DEF Between
<1>3. DeletesMayMatch(txn[c].changes, log[i].changes)
  <2>1. <<"deleted_from_table", t>>[1] = "deleted_from_table"
    OBVIOUS
  <2> QED BY <1>1, <1>2, <2>1 DEF DeletesMayMatch
<1>4. ~(DeletesMayMatch(txn[c].changes, log[i].changes) /\ DeletedSince(versions[n], s, l))
  BY <1>1 DEF CheckedInv, CheckedDeletes
<1> QED BY <1>3, <1>4

\* A file that a transaction deletes from is live in what it has read.
LEMMA HitIsLive ==
    ASSUME NEW v, NEW s \in Nat, NEW l, MetadataOK(v, s), UniqueIds(v.data_file), ChangesOK(v, s, l),
           NEW f \in v.data_file, Hit(l, f)
    PROVE  f.end = Null
<1>1. \E g \in v.data_file : g.id = f.id /\ Visible(g, s)
  <2>1. CASE [file |-> f.id, table |-> f.table] \in l.dropped_files
    <3> DEFINE y == [file |-> f.id, table |-> f.table]
    <3>1. y \in l.dropped_files /\ y.file = f.id
      BY <2>1
    <3> HIDE DEF y
    <3> QED BY <3>1 DEF ChangesOK, DeletesOK
  <2>2. ASSUME NEW x \in l.new_delete_files, x.file = f.id PROVE \E g \in v.data_file : g.id = f.id /\ Visible(g, s)
    BY <2>2 DEF ChangesOK, DeletesOK
  <2> QED BY <2>1, <2>2 DEF Hit
<1>2. Visible(f, s)
  BY <1>1 DEF UniqueIds
<1> QED BY <1>2, VisibleMeansLive

\* It is still there when the transaction commits, and shows what it showed.
LEMMA HitFilesStay ==
    ASSUME PlainWorkload, CheckedInv, TimeInv, NEW c \in Clients, Commit(c), NEW n, n = Len(log), NEW l, l = local[c],
           NEW s, s = txn[c].snap, NEW f \in versions[s].data_file, Hit(l, f)
    PROVE  \E g \in versions[n].data_file :
               /\ g.id = f.id /\ g.table = f.table
               /\ \A r : LiveShows(versions[n], g, r) <=> LiveShows(versions[s], f, r)
<1> DEFINE v == versions[s]
           m0 == versions[n]
           id == log[n].next_file_id
<1>0. /\ n \in Nat \ {0} /\ s \in 1 .. n /\ s \in Nat /\ Later(v, m0, s, n, log) /\ Follows(v, m0, s, n, log)
      /\ MetadataOK(v, s) /\ MetadataOK(m0, n)
  BY ReadAndNow
<1>1. /\ ChangesRefer(v, s, l) /\ TypedChanges(l) /\ GoodMetadata(v, id) /\ GoodMetadata(m0, id)
      /\ txn[c].changes = TransactionChanges(l)
  BY CommitOfClient DEF CheckedInv, CommitArguments, GoodChanges
<1>2. ChangesOK(v, s, l)
  BY DEF TimeInv, View
<1>3. \A t : <<"deleted_from_table", t>> \in TransactionChanges(l) /\ Between("deleted_from_table", t, s, n, log)
                => ~DeletedSince(m0, s, l)
  BY NoDeletesSince
<1>4. \A t, J : <<"deleted_from_table", t>> \in TransactionChanges(l) /\ <<"deleted_from_table", J>> \in Rules
                => ~Between(J, t, s, n, log)
  BY <1>1, NoConflictSince
<1> HIDE DEF v, m0, id
<1>5. f \in v.data_file
  BY DEF v
<1>6. UniqueIds(v.data_file)
  BY <1>1 DEF GoodMetadata
<1>7. /\ <<"deleted_from_table", f.table>> \in TransactionChanges(l)
      /\ LiveDeletes(v, f) = {}
      /\ f.id \in {d.file : d \in l.new_delete_files} \cup {y.file : y \in l.dropped_files}
  BY <1>0, <1>1, <1>2, <1>5, <1>6, HitFiles
<1>8. f.end = Null
  BY <1>0, <1>2, <1>5, <1>6, HitIsLive
<1>9. \A J \in {"dropped_table", "merge_adjacent", "rewrite_delete"} : ~Between(J, f.table, s, n, log)
  BY <1>4, <1>7, DeletesConflict
<1>10. PICK g \in m0.data_file : g.id = f.id
  BY <1>0, <1>5, <1>9 DEF Later, FilesStay
<1>11. g.table = f.table
  BY <1>0, <1>5, <1>10 DEF Later, SameFilesById
<1>12. SameUntilEnd(f, g, s, n, log)
  BY <1>0, <1>5, <1>10 DEF Follows
<1>13. g.end = Null
  <2> SUFFICES ASSUME g.end # Null PROVE FALSE
    OBVIOUS
  <2>1. g.end \in (s + 1) .. n /\ \E kind \in EndKinds : Between(kind, f.table, s, n, log)
    BY <1>8, <1>12 DEF SameUntilEnd
  <2>2. Between("deleted_from_table", f.table, s, n, log)
    BY <1>9, <2>1 DEF EndKinds
  <2>3. g.end > s
    BY <1>0, <2>1
  <2>4. DeletedSince(m0, s, l)
    BY <1>7, <1>10, <2>3 DEF DeletedSince
  <2> QED BY <1>3, <1>7, <2>2, <2>4
<1>14. LiveDeletes(m0, g) = {}
  <2> SUFFICES ASSUME NEW e \in m0.delete_file, e.file = f.id, e.end = Null PROVE FALSE
    BY <1>10 DEF LiveDeletes
  <2>1. ASSUME NEW d \in v.delete_file, d.id = e.id PROVE FALSE
    <3>1. d.file = f.id /\ d.end = Null
      BY <1>0, <2>1 DEF Later, SameDeletesById
    <3> QED BY <1>7, <3>1 DEF LiveDeletes
  <2>2. Between("deleted_from_table", f.table, s, n, log) /\ e.begin > s
    BY <1>0, <1>5, <2>1 DEF Later, DeletesCome, PlainWorkload
  <2>3. DeletedSince(m0, s, l)
    BY <1>7, <2>2 DEF DeletedSince
  <2> QED BY <1>3, <1>7, <2>2, <2>3
<1>15. g.rows = f.rows
  BY <1>1, <1>5, <1>12 DEF SameUntilEnd, GoodMetadata, FileFields
<1>16. \A r : LiveShows(m0, g, r) <=> LiveShows(v, f, r)
  BY <1>7, <1>8, <1>13, <1>14, <1>15 DEF LiveShows
<1>17. \E h \in m0.data_file : h.id = f.id /\ h.table = f.table /\ \A r : LiveShows(m0, h, r) <=> LiveShows(v, f, r)
  BY <1>10, <1>11, <1>16
<1> QED BY <1>17 DEF m0, v

\* Every file of the newest metadata that it deletes from is one that it has read.
LEMMA HitFilesWereRead ==
    ASSUME PlainWorkload, CheckedInv, TimeInv, NEW c \in Clients, Commit(c), NEW n, n = Len(log), NEW l, l = local[c],
           NEW s, s = txn[c].snap, NEW g \in versions[n].data_file, Hit(l, g)
    PROVE  \E f \in versions[s].data_file : f.id = g.id /\ f.table = g.table
<1> DEFINE v == versions[s]
           m0 == versions[n]
<1>0. Later(v, m0, s, n, log)
  BY ReadAndNow
<1>1. ChangesOK(v, s, l)
  BY DEF TimeInv, View
<1> HIDE DEF v, m0
<1>2. g \in m0.data_file
  BY DEF m0
<1>3. \E f \in v.data_file : f.id = g.id
  <2>1. CASE [file |-> g.id, table |-> g.table] \in l.dropped_files
    <3> DEFINE y == [file |-> g.id, table |-> g.table]
    <3>1. y \in l.dropped_files /\ y.file = g.id
      BY <2>1
    <3> HIDE DEF y
    <3> QED BY <1>1, <3>1 DEF ChangesOK, DeletesOK
  <2>2. ASSUME NEW x \in l.new_delete_files, x.file = g.id PROVE \E f \in v.data_file : f.id = g.id
    BY <1>1, <2>2 DEF ChangesOK, DeletesOK
  <2> QED BY <2>1, <2>2 DEF Hit
<1>4. \E f \in v.data_file : f.id = g.id /\ f.table = g.table
  BY <1>0, <1>2, <1>3 DEF Later, SameFilesById
<1> QED BY <1>4 DEF v

\* A transaction leaves a table alone that another has dropped since.
LEMMA DroppedTablesRest ==
    ASSUME PlainWorkload, CheckedInv, TimeInv, NEW c \in Clients, Commit(c), NEW n, n = Len(log), NEW l, l = local[c],
           NEW s, s = txn[c].snap, NEW t, Between("dropped_table", t, s, n, log)
    PROVE  /\ \A y \in l.new_data_files : y.table # t
           /\ \A f \in versions[s].data_file : f.table = t => ~Hit(l, f)
<1> DEFINE v == versions[s]
           id == log[n].next_file_id
<1>0. s \in Nat /\ MetadataOK(v, s)
  BY ReadAndNow
<1>1. /\ ChangesRefer(v, s, l) /\ TypedChanges(l) /\ GoodMetadata(v, id) /\ txn[c].changes = TransactionChanges(l)
  BY CommitOfClient DEF CheckedInv, CommitArguments, GoodChanges
<1>2. ChangesOK(v, s, l)
  BY DEF TimeInv, View
<1>3. \A K : <<K, t>> \in TransactionChanges(l) => <<K, "dropped_table">> \notin Rules
  BY <1>1, NoConflictSince
<1> HIDE DEF v, id
<1>4. UniqueIds(v.data_file)
  BY <1>1 DEF GoodMetadata
<1>5. ASSUME NEW y \in l.new_data_files, y.table = t PROVE FALSE
  <2>1. <<"inserted_into_table", y.table>> \in TransactionChanges(l)
    BY <1>1, ChangesOf
  <2> QED BY <1>3, <1>5, <2>1, DeletesConflict
<1>6. ASSUME NEW f \in v.data_file, f.table = t, Hit(l, f) PROVE FALSE
  <2>1. <<"deleted_from_table", f.table>> \in TransactionChanges(l)
    BY <1>0, <1>1, <1>2, <1>4, <1>6, HitFiles
  <2> QED BY <1>3, <1>6, <2>1, DeletesConflict
<1> QED BY <1>5, <1>6 DEF v

----------------------------------------------------------------------------
(* What a transaction sees itself.                                         *)

\* The state of a transaction that reads.
Reads(c) ==
    /\ PlainWorkload /\ txn[c].snap \in Nat
    /\ MetadataOK(View(c), txn[c].snap) /\ UniqueIds(View(c).data_file) /\ OneLiveDelete(View(c))
    /\ TypedChanges(local[c])
    /\ ChangesOK(View(c), txn[c].snap, local[c]) /\ ChangesRefer(View(c), txn[c].snap, local[c])

\* The rows of a committed file that it reads.
LEMMA ReadsFile ==
    ASSUME NEW c \in Clients, Reads(c), NEW t, NEW f \in View(c).data_file, f.table = t, NEW r
    PROVE  (f \in ReadableFiles(c, t) /\ r \in ReadableRows(c, f)) <=>
              (LiveShows(View(c), f, r) /\ ~Taken(local[c], f, r))
<1> DEFINE s == txn[c].snap
           v == View(c)
           l == local[c]
<1>0. /\ s = txn[c].snap /\ v = View(c) /\ l = local[c] /\ f \in v.data_file /\ s \in Nat /\ PlainWorkload
      /\ MetadataOK(v, s) /\ UniqueIds(v.data_file) /\ TypedChanges(l) /\ ChangesOK(v, s, l) /\ ChangesRefer(v, s, l)
  BY DEF Reads
<1> HIDE DEF s, v, l
<1>1. (Visible(f, s) <=> f.end = Null) /\ RowsAt(f, s) = RowsOf(f.rows)
  BY <1>0, VisibleMeansLive
<1>2. CommittedDelete(c, f) = LiveDeletes(v, f)
  <2>1. DeletesAt(v, f, s) = LiveDeletes(v, f)
    BY <1>0, VisibleMeansLive
  <2> QED BY <1>0, <2>1 DEF CommittedDelete, DeletesAt
<1>3. InlinedAt(v, f, s) = {} /\ LocalInlined(c, f) = {}
  BY <1>0 DEF InlinedAt, LocalInlined, MetadataOK, ChangesOK, DeletesOK
<1>4. f \in ReadableFiles(c, t) <=> (f.end = Null /\ [file |-> f.id, table |-> f.table] \notin l.dropped_files)
  BY <1>0, <1>1 DEF ReadableFiles
<1>5. LocalDelete(c, f) = {x \in l.new_delete_files : x.file = f.id}
  BY <1>0 DEF LocalDelete
<1>6. ASSUME LocalDelete(c, f) # {}
      PROVE  r \in ReadableRows(c, f) <=>
                (r \in RowsOf(f.rows) /\ \A x \in l.new_delete_files : x.file = f.id => r \notin RowsOf(x.positions))
  <2> DEFINE deleted == {p.row : p \in UNION {d.positions : d \in LocalDelete(c, f)}}
  <2>1. ReadableRows(c, f) = RowsOf(f.rows) \ deleted
    BY <1>0, <1>1, <1>3, <1>6 DEF ReadableRows
  <2>2. r \in deleted <=> \E x \in l.new_delete_files : x.file = f.id /\ r \in RowsOf(x.positions)
    BY <1>5 DEF RowsOf
  <2> HIDE DEF deleted
  <2> QED BY <2>1, <2>2
<1>7. ASSUME LocalDelete(c, f) # {} PROVE LiveDeletes(v, f) = {}
  <2>1. Hit(l, f)
    BY <1>5, <1>7 DEF Hit
  <2> QED BY <1>0, <2>1, HitFiles
<1>8. ASSUME LocalDelete(c, f) = {}
      PROVE  r \in ReadableRows(c, f) <=>
                (r \in RowsOf(f.rows) /\ \A d \in LiveDeletes(v, f) : r \notin RowsOf(d.positions))
  <2> DEFINE deleted == UNION {DeletedAt(d.positions, s) : d \in CommittedDelete(c, f)}
  <2>1. ReadableRows(c, f) = RowsOf(f.rows) \ deleted
    BY <1>0, <1>1, <1>3, <1>8 DEF ReadableRows
  <2>2. ASSUME NEW d \in LiveDeletes(v, f) PROVE DeletedAt(d.positions, s) = RowsOf(d.positions)
    <3>1. \A p \in d.positions : p.snap = Null
      BY <1>0 DEF LiveDeletes, MetadataOK, DeleteOK
    <3> QED BY <1>0, <3>1, PlainDeletions
  <2>3. r \in deleted <=> \E d \in LiveDeletes(v, f) : r \in RowsOf(d.positions)
    BY <1>2, <2>2
  <2> HIDE DEF deleted
  <2> QED BY <2>1, <2>3
<1>9. LiveShows(v, f, r) <=> (/\ f.end = Null /\ r \in RowsOf(f.rows)
                              /\ \A d \in LiveDeletes(v, f) : r \notin RowsOf(d.positions))
  BY DEF LiveShows
<1>10. Taken(l, f, r) <=> (\/ [file |-> f.id, table |-> f.table] \in l.dropped_files
                           \/ \E x \in l.new_delete_files : x.file = f.id /\ r \in RowsOf(x.positions))
  BY DEF Taken
<1>11. (f \in ReadableFiles(c, t) /\ r \in ReadableRows(c, f)) <=> (LiveShows(v, f, r) /\ ~Taken(l, f, r))
  <2>1. CASE LocalDelete(c, f) # {}
    BY <1>4, <1>6, <1>7, <1>9, <1>10, <2>1
  <2>2. CASE LocalDelete(c, f) = {}
    BY <1>4, <1>5, <1>8, <1>9, <1>10, <2>2
  <2> QED BY <2>1, <2>2
<1> QED BY <1>0, <1>11

\* The rows of a table that it reads.
LEMMA ReadsTable ==
    ASSUME NEW c \in Clients, Reads(c), NEW t, TableReadable(c, t), NEW r
    PROVE  r \in TransactionContents(c, t) <=>
              \/ \E f \in View(c).data_file : f.table = t /\ LiveShows(View(c), f, r) /\ ~Taken(local[c], f, r)
              \/ Inserted(local[c], t, r)
<1> DEFINE A == UNION {ReadableRows(c, f) : f \in ReadableFiles(c, t)}
           B == UNION {n.rows \ n.deleted : n \in {m \in local[c].new_data_files : m.table = t}}
<1>1. TransactionContents(c, t) = A \cup B
  BY DEF TransactionContents
<1>2. r \in A <=> \E f \in ReadableFiles(c, t) : r \in ReadableRows(c, f)
  OBVIOUS
<1>3. r \in B <=> Inserted(local[c], t, r)
  BY DEF Inserted
<1> HIDE DEF A, B
<1>4. \A f \in ReadableFiles(c, t) : f \in View(c).data_file /\ f.table = t
  BY DEF ReadableFiles
<1>5. \A f \in View(c).data_file : f.table = t =>
         ((f \in ReadableFiles(c, t) /\ r \in ReadableRows(c, f)) <=> (LiveShows(View(c), f, r) /\ ~Taken(local[c], f, r)))
  BY ReadsFile
<1>6. r \in A <=> \E f \in View(c).data_file : f.table = t /\ LiveShows(View(c), f, r) /\ ~Taken(local[c], f, r)
  BY <1>2, <1>4, <1>5
<1> QED BY <1>1, <1>3, <1>6

----------------------------------------------------------------------------
(* No scan of a snapshot returns a row twice.                              *)

\* A row of snapshot k is shown by one file.
SeenOnce(m, k) == \A f, g \in m.data_file : \A r : Shows(m, f, k, r) /\ Shows(m, g, k, r) => f = g

\* A file has one delete file at snapshot k.
OneDeleteAt(m, k) == \A d, e \in m.delete_file : d.file = e.file /\ Visible(d, k) /\ Visible(e, k) => d = e

\* At the newest snapshot.
LEMMA SeenOnceNow ==
    ASSUME NEW m, NEW i \in Nat, MetadataOK(m, i), LiveDisjoint(m), OneLiveDelete(m)
    PROVE  SeenOnce(m, i) /\ OneDeleteAt(m, i)
<1>1. \A f \in m.data_file : (Visible(f, i) <=> f.end = Null) /\ RowsAt(f, i) = RowsOf(f.rows)
  BY VisibleMeansLive
<1>2. \A d \in m.delete_file : Visible(d, i) <=> d.end = Null
  BY VisibleMeansLive
<1>3. SeenOnce(m, i)
  BY <1>1 DEF SeenOnce, Shows, LiveDisjoint
<1>4. OneDeleteAt(m, i)
  BY <1>2 DEF OneDeleteAt, OneLiveDelete
<1> QED BY <1>3, <1>4

\* A commit keeps it so for the earlier snapshots: the files.
LEMMA SeenOnceKept ==
    ASSUME NEW v, NEW s0, NEW m0, NEW n, NEW l, NEW id, NEW m, NEW changes, Commits(v, s0, m0, n, l, id, m, changes),
           NEW k \in 1 .. n, SeenOnce(m0, k)
    PROVE  SeenOnce(m, k)
<1> DEFINE j == n + 1
<1>0. /\ CommitOK(v, s0, m0, n, l, id) /\ TimeStep(m0, m, l, j, id, changes) /\ GoodMetadata(m0, id) /\ j = n + 1
      /\ UniqueIds(v.data_file) /\ UniqueIds(m.data_file) /\ CompactionsOK(v, l) /\ CompactionsRefer(v, l)
      /\ n \in Nat /\ j > k /\ j \in Nat /\ k \in Nat
  BY DEF Commits, CommitOK, ChangesOK, GoodMetadata, ChangesRefer
<1> HIDE DEF j
<1> SUFFICES ASSUME NEW g1 \in m.data_file, NEW g2 \in m.data_file, NEW r, Shows(m, g1, k, r), Shows(m, g2, k, r)
             PROVE  g1 = g2
  BY DEF SeenOnce
<1> DEFINE Old(g) == \E f \in m0.data_file : g.id = f.id /\ f.id \notin SourceIds(l, "merge") /\ Shows(m0, f, k, r)
           Out(g) == \E x \in l.compactions :
                        /\ x.type = "merge" /\ g = OutputRow(x, l, "merge", j, id)
                        /\ \E f \in m0.data_file, h \in x.sources : f.id = h.id /\ Shows(m0, f, k, r)
<1>1. ASSUME NEW g \in m.data_file, Shows(m, g, k, r) PROVE Old(g) \/ Out(g)
  <2>1. ASSUME NEW f \in m0.data_file, f.id \notin SourceIds(l, "merge"), KeptUntil(f, g, j, changes) PROVE Old(g)
    <3>1. g.id = f.id
      BY <1>0, <2>1, KeptFileFields DEF GoodMetadata
    <3>2. Shows(m, g, k, r) <=> Shows(m0, f, k, r)
      BY <1>0, <2>1, ShowsKept
    <3> QED BY <1>1, <2>1, <3>1, <3>2
  <2>2. ASSUME g \in OutputFiles(l, "merge", j, id) PROVE Out(g)
    <3>1. PICK x \in l.compactions : x.type = "merge" /\ g = OutputRow(x, l, "merge", j, id)
      BY <2>2, OutputFilesSet
    <3>2. Shows(m, g, k, r) <=> \E f \in m0.data_file, h \in x.sources : f.id = h.id /\ Shows(m0, f, k, r)
      <4>1. g = OutputRow(x, l, "merge", n + 1, id)
        BY <1>0, <3>1
      <4> QED BY <3>1, <4>1, ShowsMerged
    <3> QED BY <1>1, <3>1, <3>2
  <2>3. g.begin <= k
    BY <1>1 DEF Shows, Visible
  <2>4. ASSUME g \in OutputFiles(l, "rewrite", j, id) PROVE FALSE
    <3>1. PICK x \in l.compactions : g = OutputRow(x, l, "rewrite", j, id)
      BY <2>4, OutputFilesSet
    <3>2. g.begin = j
      BY <3>1 DEF OutputRow
    <3> QED BY <1>0, <2>3, <3>2
  <2>5. ASSUME g \in NewDataRows(l, j, id) PROVE FALSE
    <3>1. PICK y \in l.new_data_files : g = NewDataRow(y, l, j, id)
      BY <2>5 DEF NewDataRows
    <3>2. g.begin = j
      BY <3>1 DEF NewDataRow
    <3> QED BY <1>0, <2>3, <3>2
  <2> HIDE DEF Old, Out
  <2> QED BY <1>0, <2>1, <2>2, <2>4, <2>5 DEF TimeStep, AddedFiles
<1>2. ASSUME NEW x \in l.compactions, x.type = "merge", NEW h \in x.sources PROVE h.id \in SourceIds(l, "merge")
  BY <1>2 DEF SourceIds, SourceFiles
<1>3. ASSUME Old(g1), Old(g2) PROVE g1 = g2
  BY <1>0, <1>3 DEF SeenOnce, UniqueIds
<1>4. ASSUME Old(g1), Out(g2) PROVE FALSE
  BY <1>2, <1>4 DEF SeenOnce
<1>5. ASSUME Old(g2), Out(g1) PROVE FALSE
  BY <1>2, <1>5 DEF SeenOnce
<1>6. ASSUME Out(g1), Out(g2) PROVE g1 = g2
  <2>1. PICK x \in l.compactions : /\ g1 = OutputRow(x, l, "merge", j, id)
                                   /\ \E f \in m0.data_file, h \in x.sources : f.id = h.id /\ Shows(m0, f, k, r)
    BY <1>6
  <2>2. PICK y \in l.compactions : /\ g2 = OutputRow(y, l, "merge", j, id)
                                   /\ \E f \in m0.data_file, h \in y.sources : f.id = h.id /\ Shows(m0, f, k, r)
    BY <1>6
  <2>3. \E a \in x.sources, b \in y.sources : a.id = b.id
    BY <2>1, <2>2 DEF SeenOnce
  <2>4. \A a \in x.sources, b \in y.sources : a \in v.data_file /\ b \in v.data_file
    BY <1>0 DEF CompactionsRefer
  <2>5. \E a \in x.sources : a \in y.sources
    BY <1>0, <2>3, <2>4 DEF UniqueIds
  <2>6. x = y
    BY <1>0, <2>5 DEF CompactionsOK
  <2> QED BY <2>1, <2>2, <2>6
<1>7. (Old(g1) \/ Out(g1)) /\ (Old(g2) \/ Out(g2))
  BY <1>1
<1> HIDE DEF Old, Out
<1> QED BY <1>3, <1>4, <1>5, <1>6, <1>7

\* The delete files.
LEMMA OneDeleteKept ==
    ASSUME NEW v, NEW s0, NEW m0, NEW n, NEW l, NEW id, NEW m, NEW changes, Commits(v, s0, m0, n, l, id, m, changes),
           NEW k \in 1 .. n, OneDeleteAt(m0, k)
    PROVE  OneDeleteAt(m, k)
<1> DEFINE j == n + 1
<1>0. /\ CommitOK(v, s0, m0, n, l, id) /\ TimeStep(m0, m, l, j, id, changes) /\ GoodMetadata(m0, id) /\ j = n + 1
      /\ UniqueIds(m.delete_file) /\ n \in Nat /\ j > k /\ j \in Nat /\ k \in Nat
  BY DEF Commits, CommitOK, GoodMetadata
<1> HIDE DEF j
<1>1. ASSUME NEW e \in m.delete_file, Visible(e, k)
      PROVE  \E d \in m0.delete_file : d.id = e.id /\ d.file = e.file /\ Visible(d, k)
  <2>1. ASSUME e \in AddedDeletes(l, j, id) PROVE FALSE
    <3>1. e.begin = j
      BY <1>0, <2>1, AddedDeletesAre
    <3> QED BY <1>0, <1>1, <3>1 DEF Visible
  <2>2. PICK d \in m0.delete_file : KeptUntil(d, e, j, changes)
    BY <1>0, <2>1 DEF TimeStep
  <2>3. e.id = d.id /\ e.file = d.file /\ e.begin = d.begin /\ (e.end = d.end \/ (d.end = Null /\ e.end = j))
    BY <1>0, <2>2, KeptDeleteFields DEF GoodMetadata
  <2> QED BY <1>1, <2>3 DEF Visible
<1>2. ASSUME NEW d \in m.delete_file, NEW e \in m.delete_file, d.file = e.file, Visible(d, k), Visible(e, k)
      PROVE  d = e
  <2>1. d.id = e.id
    BY <1>1, <1>2 DEF OneDeleteAt
  <2> QED BY <1>0, <2>1 DEF UniqueIds
<1> QED BY <1>2 DEF OneDeleteAt

----------------------------------------------------------------------------
(* The invariant behind snapshot isolation.                                *)

\* What a version says of its newest snapshot: a row is in one live file, and was first
\* written to a file that some snapshot has registered.
VersionOK(m, P) == LiveDisjoint(m) /\ OneLiveDelete(m) /\ RowsFrom(m, P)

\* What the newest metadata m say of snapshot k: no row twice, and what the metadata v
\* of that snapshot said.
PastOK(m, v, k) == SeenOnce(m, k) /\ OneDeleteAt(m, k) /\ \A t \in Tables : Contents(m, t, k) = Contents(v, t, k)

\* The invariant: of every version, and of every snapshot in the newest version.
ReadInv ==
    /\ Len(log) # 0
    /\ \A i \in 1 .. Len(log) : VersionOK(versions[i], RegisteredFiles)
    /\ \A k \in 1 .. Len(log) : PastOK(versions[Len(log)], versions[k], k)

\* The invariants that it rests on.
LakeInv == CheckedInv /\ TimeInv /\ FilesApart

\* More files may be registered.
LEMMA MoreRegistered ==
    ASSUME NEW m, NEW P, NEW Q, P \subseteq Q, VersionOK(m, P)
    PROVE  VersionOK(m, Q)
BY DEF VersionOK, RowsFrom

\* A commit adds a version.
LEMMA CommitVersionOK ==
    ASSUME PlainWorkload, LakeInv, ReadInv, NEW c \in Clients, Commit(c), NEW n, n = Len(log)
    PROVE  VersionOK(versions'[n + 1], RegisteredFiles')
<1> DEFINE l == local[c]
           s == txn[c].snap
           id == log[n].next_file_id
           v == versions[s]
           m0 == versions[n]
           m == versions'[n + 1]
           changes == log'[n + 1].changes
           P == RegisteredFiles
<1>0. CheckedInv /\ TimeInv /\ TypeInv /\ LocalInv
  BY DEF LakeInv, CheckedInv, MetaInv
<1>1. Commits(v, s, m0, n, l, id, m, changes)
  BY <1>0, CommitIsKnown
<1>2. EndsOf(m0, m, l)
  BY <1>0, CommitEndsRows
<1>3. RewritesCurrent(v, m0, l)
  BY <1>0, RewritesAreCurrent
<1>4. txn[c].files = LocalPaths(l)
  BY <1>0 DEF LocalInv, ClientInv
<1>5. RegisteredFiles' = P \cup LocalPaths(l)
  <2>1. RegistersFiles(c)
    BY <1>0, CommitRegistersFiles DEF Commit
  <2> QED BY <1>4, <2>1 DEF RegistersFiles
<1>6. LocalPaths(l) \cap P = {}
  BY <1>4 DEF LakeInv, FilesApart
<1>7. n \in 1 .. Len(log)
  BY <1>0, CommitOfClient DEF CheckedInv
<1>8. VersionOK(m0, P)
  BY <1>7 DEF ReadInv
<1>9. OneLiveDelete(m)
  BY <1>0, <1>8, CommitKeepsOneLive DEF VersionOK, PlainWorkload
<1> HIDE DEF l, s, id, v, m0, m, changes, P
<1>10. RowsFrom(m, P \cup LocalPaths(l))
  BY <1>1, <1>3, <1>8, CommitRowsFrom DEF VersionOK
<1>11. LiveDisjoint(m)
  BY <1>1, <1>2, <1>3, <1>6, <1>8, CommitLiveDisjoint DEF VersionOK
<1>12. VersionOK(m, RegisteredFiles')
  BY <1>5, <1>9, <1>10, <1>11 DEF VersionOK
<1> QED BY <1>12 DEF m

\* It leaves the past as it was.
LEMMA CommitPastOK ==
    ASSUME PlainWorkload, LakeInv, ReadInv, NEW c \in Clients, Commit(c), NEW n, n = Len(log), NEW k \in 1 .. n
    PROVE  PastOK(versions'[n + 1], versions'[k], k)
<1> DEFINE l == local[c]
           s == txn[c].snap
           id == log[n].next_file_id
           v == versions[s]
           m0 == versions[n]
           m == versions'[n + 1]
           changes == log'[n + 1].changes
<1>0. CheckedInv /\ TimeInv
  BY DEF LakeInv
<1>1. Commits(v, s, m0, n, l, id, m, changes)
  BY <1>0, CommitIsKnown
<1>2. versions'[k] = versions[k]
  BY <1>0, CommitOfClient DEF CheckedInv
<1>3. PastOK(m0, versions[k], k)
  BY DEF ReadInv
<1> HIDE DEF l, s, id, v, m0, m, changes
<1>4. SeenOnce(m, k)
  BY <1>1, <1>3, SeenOnceKept DEF PastOK
<1>5. OneDeleteAt(m, k)
  BY <1>1, <1>3, OneDeleteKept DEF PastOK
<1>6. ASSUME NEW t \in Tables PROVE Contents(m, t, k) = Contents(versions[k], t, k)
  <2>1. Contents(m, t, k) = Contents(m0, t, k)
    BY <1>1, CommitKeepsContents
  <2> QED BY <1>3, <2>1 DEF PastOK
<1>7. PastOK(m, versions[k], k)
  BY <1>4, <1>5, <1>6 DEF PastOK
<1> QED BY <1>2, <1>7 DEF m

\* And its own snapshot is read from its own version.
LEMMA CommitNowOK ==
    ASSUME PlainWorkload, LakeInv, ReadInv, NEW c \in Clients, Commit(c), NEW n, n = Len(log)
    PROVE  PastOK(versions'[n + 1], versions'[n + 1], n + 1)
<1> DEFINE l == local[c]
           s == txn[c].snap
           id == log[n].next_file_id
           v == versions[s]
           m0 == versions[n]
           m == versions'[n + 1]
           changes == log'[n + 1].changes
<1>0. CheckedInv /\ TimeInv
  BY DEF LakeInv
<1>1. Commits(v, s, m0, n, l, id, m, changes)
  BY <1>0, CommitIsKnown
<1>2. VersionOK(m, RegisteredFiles')
  BY CommitVersionOK
<1>3. n + 1 \in Nat
  BY <1>1 DEF Commits, CommitOK
<1> HIDE DEF l, s, id, v, m0, m, changes
<1>4. MetadataOK(m, n + 1)
  BY <1>1, CommitMetadataOK
<1>5. SeenOnce(m, n + 1) /\ OneDeleteAt(m, n + 1)
  BY <1>2, <1>3, <1>4, SeenOnceNow DEF VersionOK
<1>6. PastOK(m, m, n + 1)
  BY <1>5 DEF PastOK
<1> QED BY <1>6 DEF m

\* A commit keeps the invariant.
LEMMA CommitKeepsReadInv ==
    ASSUME PlainWorkload, LakeInv, ReadInv, NEW c \in Clients, Commit(c)
    PROVE  ReadInv'
<1> DEFINE n == Len(log)
<1>0. CheckedInv /\ TypeInv
  BY DEF LakeInv, CheckedInv, MetaInv
<1>1. n \in Nat \ {0} /\ Len(log') = n + 1 /\ \A i \in 1 .. n : versions'[i] = versions[i]
  BY <1>0, CommitOfClient, ZenonT(60) DEF CheckedInv
<1>2. VersionOK(versions'[n + 1], RegisteredFiles')
  BY CommitVersionOK
<1>3. PastOK(versions'[n + 1], versions'[n + 1], n + 1)
  BY CommitNowOK
<1>4. \A k \in 1 .. n : PastOK(versions'[n + 1], versions'[k], k)
  BY CommitPastOK
<1>5. RegisteredFiles \subseteq RegisteredFiles'
  <2>1. RegistersFiles(c)
    BY <1>0, CommitRegistersFiles DEF Commit
  <2> QED BY <2>1 DEF RegistersFiles
<1>6. \A i \in 1 .. n : VersionOK(versions[i], RegisteredFiles)
  BY DEF ReadInv
<1> HIDE DEF n
<1>7. \A i \in 1 .. n : VersionOK(versions'[i], RegisteredFiles')
  BY <1>1, <1>5, <1>6, MoreRegistered
<1>8. 1 .. n + 1 = (1 .. n) \cup {n + 1}
  BY <1>1
<1>9. \A i \in 1 .. n + 1 : VersionOK(versions'[i], RegisteredFiles')
  BY <1>2, <1>7, <1>8
<1>10. \A k \in 1 .. n + 1 : PastOK(versions'[n + 1], versions'[k], k)
  BY <1>3, <1>4, <1>8
<1> QED BY <1>1, <1>9, <1>10 DEF ReadInv

\* Every step keeps the invariant.
LEMMA ReadInvNext ==
    ASSUME PlainWorkload, LakeInv, ReadInv, [LakeNext]_lakeVars
    PROVE  ReadInv'
<1>1. CASE log' = log /\ versions' = versions
  BY <1>1 DEF ReadInv, RegisteredFiles
<1> QED
  BY <1>1, CommitKeepsReadInv, MetadataSteps DEF LakeInv, CheckedInv, MetaInv

\* It holds in the empty lake.
LEMMA ReadInvInit == LakeInit => ReadInv
<1> SUFFICES ASSUME LakeInit PROVE ReadInv
  OBVIOUS
<1>1. Len(log) = 1 /\ versions[1] = NoMetadata
  BY DEF LakeInit, CommitInit
<1>2. NoMetadata.data_file = {} /\ NoMetadata.delete_file = {}
  BY DEF NoMetadata
<1>3. \A P : VersionOK(NoMetadata, P)
  BY <1>2 DEF VersionOK, LiveDisjoint, OneLiveDelete, RowsFrom
<1>4. PastOK(NoMetadata, NoMetadata, 1)
  BY <1>2 DEF PastOK, SeenOnce, OneDeleteAt
<1>5. \A i \in 1 .. Len(log) : i = 1
  BY <1>1
<1> QED BY <1>1, <1>3, <1>4, <1>5 DEF ReadInv

\* It holds in every state.
LEMMA ReadInvariance ==
    ASSUME PlainWorkload
    PROVE  LakeSpec => [](LakeInv /\ ReadInv)
<1>1. LakeSpec => []FilesApart
  BY LakeImplementsCommit, DiskInvariance, PTL DEF DiskInv
<1>2. LakeSpec => []LakeInv
  BY <1>1, TimeInvariance, PTL DEF LakeInv
<1>3. LakeInv /\ ReadInv /\ [LakeNext]_lakeVars => ReadInv'
  BY ReadInvNext
<1> QED BY <1>2, <1>3, ReadInvInit, PTL DEF LakeSpec

\* An entry of a file list stands for a file with the delete file that it has.
LEMMA EntriesAre ==
    ASSUME NEW m, NEW t, NEW k, NEW e \in FileList(m, t, k)
    PROVE  \E f \in m.data_file :
              /\ Visible(f, k) /\ e.file = f
              /\ \/ DeletesAt(m, f, k) = {} /\ e = [file |-> f, delete |-> {}]
                 \/ \E d \in DeletesAt(m, f, k) : e = [file |-> f, delete |-> {d}]
<1> DEFINE Files == {g \in m.data_file : g.table = t /\ Visible(g, k)}
           Entries(f) == IF DeletesAt(m, f, k) = {} THEN {[file |-> f, delete |-> {}]}
                         ELSE {[file |-> f, delete |-> {d}] : d \in DeletesAt(m, f, k)}
<1>1. FileList(m, t, k) = UNION {Entries(f) : f \in Files}
  BY DEF FileList, DeletesAt
<1> HIDE DEF Entries
<1>2. PICK f \in Files : e \in Entries(f)
  BY <1>1
<1>3. CASE DeletesAt(m, f, k) = {}
  BY <1>2, <1>3 DEF Entries
<1>4. CASE DeletesAt(m, f, k) # {}
  BY <1>2, <1>4 DEF Entries
<1> QED BY <1>3, <1>4

\* The rows of an entry are shown by its file.
LEMMA EntryShows ==
    ASSUME NEW m, NEW i, MetadataOK(m, i), NEW k \in Nat, NEW f \in m.data_file, Visible(f, k), NEW e, e.file = f,
           \/ DeletesAt(m, f, k) = {} /\ e = [file |-> f, delete |-> {}]
           \/ \E d \in DeletesAt(m, f, k) : e = [file |-> f, delete |-> {d}],
           NEW r \in EntryRows(m, e, k)
    PROVE  Shows(m, f, k, r)
<1>1. r \in RowsAt(f, k) /\ r \notin UNION {DeletedAt(d.positions, k) : d \in e.delete}
  BY DEF EntryRows
<1>2. ASSUME NEW d \in DeletesAt(m, f, k), e = [file |-> f, delete |-> {d}] PROVE r \notin RowsOf(d.positions)
  <2>1. \A p \in d.positions : p.snap = Null
    BY DEF DeletesAt, MetadataOK, DeleteOK
  <2>2. DeletedAt(d.positions, k) = RowsOf(d.positions)
    BY <2>1, PlainDeletions
  <2>3. e.delete = {d}
    BY <1>2
  <2> QED BY <1>1, <2>2, <2>3
<1> QED BY <1>1, <1>2 DEF Shows

\* No query returns a row twice.
LEMMA ScansAreDisjoint ==
    ASSUME NEW m, NEW i, MetadataOK(m, i), NEW k \in Nat, SeenOnce(m, k), OneDeleteAt(m, k), NEW t,
           NEW e1 \in FileList(m, t, k), NEW e2 \in FileList(m, t, k), NEW r,
           r \in EntryRows(m, e1, k), r \in EntryRows(m, e2, k)
    PROVE  e1 = e2
<1>1. PICK f \in m.data_file :
              /\ Visible(f, k) /\ e1.file = f
              /\ \/ DeletesAt(m, f, k) = {} /\ e1 = [file |-> f, delete |-> {}]
                 \/ \E d \in DeletesAt(m, f, k) : e1 = [file |-> f, delete |-> {d}]
  BY EntriesAre
<1>2. PICK g \in m.data_file :
              /\ Visible(g, k) /\ e2.file = g
              /\ \/ DeletesAt(m, g, k) = {} /\ e2 = [file |-> g, delete |-> {}]
                 \/ \E d \in DeletesAt(m, g, k) : e2 = [file |-> g, delete |-> {d}]
  BY EntriesAre
<1>3. Shows(m, f, k, r) /\ Shows(m, g, k, r)
  BY <1>1, <1>2, EntryShows
<1>4. f = g
  BY <1>3 DEF SeenOnce
<1>5. \A d, e \in DeletesAt(m, f, k) : d = e
  BY DEF OneDeleteAt, DeletesAt
<1> QED BY <1>1, <1>2, <1>4, <1>5

\* While the workload is plain, a query at any snapshot, the newest or an earlier one,
\* returns no row twice, although the metadata have a row in several files (the sources
\* of a rewrite stay beside its output): GenerateFileListQuery lists one file with the
\* row at the snapshot, and lists it once.
THEOREM NoRowIsReadTwice ==
    ASSUME PlainWorkload
    PROVE  LakeSpec => []NoRowReadTwice
<1>1. LakeInv /\ ReadInv => NoRowReadTwice
  <2> SUFFICES ASSUME LakeInv, ReadInv, NEW k \in Snapshots, NEW t \in Tables,
                      NEW e1 \in FileList(Now, t, k), NEW e2 \in FileList(Now, t, k), e1 # e2
               PROVE  EntryRows(Now, e1, k) \cap EntryRows(Now, e2, k) = {}
    BY DEF NoRowReadTwice
  <2> DEFINE n == Len(log)
  <2>1. n \in Nat /\ n \in 1 .. n /\ Now = versions[n] /\ k \in 1 .. n
    BY DEF Now, Last, LakeInv, CheckedInv, MetaInv, LocalInv, TypeInv, SnapshotsInLog, Snapshots
  <2>2. MetadataOK(versions[n], n)
    BY <2>1 DEF LakeInv, TimeInv
  <2>3. SeenOnce(versions[n], k) /\ OneDeleteAt(versions[n], k)
    BY <2>1 DEF ReadInv, PastOK
  <2> HIDE DEF n
  <2>4. k \in Nat /\ MetadataOK(Now, n) /\ SeenOnce(Now, k) /\ OneDeleteAt(Now, k)
    BY <2>1, <2>2, <2>3
  <2> QED BY <2>4, ScansAreDisjoint
<1> QED BY <1>1, ReadInvariance, PTL

----------------------------------------------------------------------------
(* What a commit makes of a table.                                         *)

\* The rows are those of the table t in the version m.
ShowsRows(rows, m, t) == \A r : r \in rows <=> \E f \in m.data_file : f.table = t /\ LiveShows(m, f, r)

\* They are those, without the rows that l takes and with the rows that l adds.
ShowsChanged(rows, m, l, t) ==
    \A r : r \in rows <=> \/ \E f \in m.data_file : f.table = t /\ LiveShows(m, f, r) /\ ~Taken(l, f, r)
                          \/ Inserted(l, t, r)

\* The files a transaction has changed are in the version it has read and in the newest
\* one, with the same rows.
HitsStay(v, m0, l) ==
    /\ \A f \in v.data_file : Hit(l, f) => \E g \in m0.data_file :
           g.id = f.id /\ g.table = f.table /\ \A r : LiveShows(m0, g, r) <=> LiveShows(v, f, r)
    /\ \A g \in m0.data_file : Hit(l, g) => \E f \in v.data_file : f.id = g.id /\ f.table = g.table

\* The commit puts what the transaction changed in the place of what it has read.
LEMMA RowsMerge ==
    ASSUME NEW v, NEW m0, NEW l, NEW t, NEW base, NEW mine, NEW now, NEW after,
           ShowsRows(base, v, t), ShowsChanged(mine, v, l, t), ShowsRows(now, m0, t), ShowsChanged(after, m0, l, t),
           LiveDisjoint(v), LiveDisjoint(m0), UniqueIds(m0.data_file), HitsStay(v, m0, l),
           \A r : Inserted(l, t, r) => r \notin base
    PROVE  /\ base \ mine \subseteq now
           /\ after = (now \ (base \ mine)) \cup (mine \ base)
<1>b. \A r : r \in base <=> \E f \in v.data_file : f.table = t /\ LiveShows(v, f, r)
  BY DEF ShowsRows
<1>n. \A r : r \in now <=> \E g \in m0.data_file : g.table = t /\ LiveShows(m0, g, r)
  BY DEF ShowsRows
<1>m. \A r : r \in mine <=> \/ \E f \in v.data_file : f.table = t /\ LiveShows(v, f, r) /\ ~Taken(l, f, r)
                            \/ Inserted(l, t, r)
  BY DEF ShowsChanged
<1>a. \A r : r \in after <=> \/ \E g \in m0.data_file : g.table = t /\ LiveShows(m0, g, r) /\ ~Taken(l, g, r)
                             \/ Inserted(l, t, r)
  BY DEF ShowsChanged
<1>s. \A f \in v.data_file : Hit(l, f) => \E g \in m0.data_file :
           g.id = f.id /\ g.table = f.table /\ \A r : LiveShows(m0, g, r) <=> LiveShows(v, f, r)
  BY DEF HitsStay
<1>w. \A g \in m0.data_file : Hit(l, g) => \E f \in v.data_file : f.id = g.id /\ f.table = g.table
  BY DEF HitsStay
<1>1. \A f, g, r : g.id = f.id /\ g.table = f.table => (Taken(l, g, r) <=> Taken(l, f, r)) /\ (Hit(l, g) <=> Hit(l, f))
  BY DEF Taken, Hit
<1>2. \A f, r : Taken(l, f, r) => Hit(l, f)
  BY DEF Taken, Hit
<1>3. \A f, g \in v.data_file : \A r : LiveShows(v, f, r) /\ LiveShows(v, g, r) => f = g
  BY DEF LiveDisjoint, LiveShows
<1>4. \A f, g \in m0.data_file : \A r : LiveShows(m0, f, r) /\ LiveShows(m0, g, r) => f = g
  BY DEF LiveDisjoint, LiveShows
<1>5. ASSUME NEW r, NEW f \in v.data_file, f.table = t, LiveShows(v, f, r), Taken(l, f, r)
      PROVE  \E g \in m0.data_file : g.table = t /\ LiveShows(m0, g, r) /\ Taken(l, g, r)
  BY <1>1, <1>2, <1>5, <1>s
<1>6. ASSUME NEW r, NEW g \in m0.data_file, g.table = t, LiveShows(m0, g, r), Taken(l, g, r)
      PROVE  \E f \in v.data_file : f.table = t /\ LiveShows(v, f, r) /\ Taken(l, f, r)
  <2>1. PICK f \in v.data_file : f.id = g.id /\ f.table = g.table
    BY <1>2, <1>6, <1>w
  <2>2. Hit(l, f) /\ Taken(l, f, r)
    BY <1>1, <1>2, <1>6, <2>1
  <2>3. PICK h \in m0.data_file : h.id = f.id /\ \A q : LiveShows(m0, h, q) <=> LiveShows(v, f, q)
    BY <1>s, <2>2
  <2>4. h = g
    BY <2>1, <2>3 DEF UniqueIds
  <2> QED BY <1>6, <2>1, <2>2, <2>3, <2>4
<1>7. \A r : r \in base \ mine <=> \E f \in v.data_file : f.table = t /\ LiveShows(v, f, r) /\ Taken(l, f, r)
  BY <1>3, <1>b, <1>m
<1>8. \A r : r \in base \ mine <=> \E g \in m0.data_file : g.table = t /\ LiveShows(m0, g, r) /\ Taken(l, g, r)
  BY <1>5, <1>6, <1>7
<1>9. base \ mine \subseteq now
  BY <1>8, <1>n
<1>10. \A r : r \in mine \ base <=> Inserted(l, t, r)
  BY <1>b, <1>m
<1>11. \A r : r \in now \ (base \ mine) <=> \E g \in m0.data_file : g.table = t /\ LiveShows(m0, g, r) /\ ~Taken(l, g, r)
  BY <1>4, <1>8, <1>n
<1>12. \A r : r \in after <=> r \in (now \ (base \ mine)) \cup (mine \ base)
  BY <1>10, <1>11, <1>a
<1>13. after = (now \ (base \ mine)) \cup (mine \ base)
  BY <1>12
<1> QED BY <1>9, <1>13

\* The contents of a table are no missing table.
LEMMA ContentsOfTable ==
    ASSUME NEW rows, \A r \in rows : r \in Paths \X Positions
    PROVE  rows # NoTable
BY NoTableIsNoContents

\* The rows of the metadata.
LEMMA LiveRowsAreRows ==
    ASSUME NEW m, NEW i, MetadataOK(m, i), NEW f \in m.data_file, NEW r, LiveShows(m, f, r)
    PROVE  r \in Paths \X Positions
BY DEF LiveShows, RowsOf, MetadataOK, FileOK

\* The rows of a transaction.
LEMMA InsertedRowsAreRows ==
    ASSUME NEW l, NewFilesOK(l), LocalPaths(l) \subseteq Paths, NEW t, NEW r, Inserted(l, t, r)
    PROVE  r \in Paths \X Positions /\ r[1] \in LocalPaths(l)
<1>1. PICK y \in l.new_data_files : r \in y.rows
  BY DEF Inserted
<1>2. y.rows = {y.path} \X Positions /\ y.path \in LocalPaths(l)
  BY DEF NewFilesOK, LocalPaths, DataPaths
<1> QED BY <1>1, <1>2

\* An open transaction reads.
LEMMA OpenReads ==
    ASSUME PlainWorkload, LakeInv, ReadInv, NEW c \in Clients, txn[c].phase # "idle"
    PROVE  Reads(c) /\ txn[c].snap \in 1 .. Len(log) /\ Len(log) \in Nat \ {0}
<1>0. TypeInv /\ LocalInv /\ TimeInv /\ HistoryInv
  BY DEF LakeInv, CheckedInv, MetaInv
<1>1. txn[c].snap \in 1 .. Len(log) /\ Len(log) \in Nat
  BY <1>0 DEF TypeInv, SnapshotsInLog
<1>2. UniqueIds(versions[txn[c].snap].data_file) /\ MetadataOK(versions[txn[c].snap], txn[c].snap)
  BY <1>0, <1>1 DEF HistoryInv, GoodMetadata, TimeInv
<1>3. OneLiveDelete(versions[txn[c].snap])
  BY <1>1 DEF ReadInv, VersionOK
<1>4. ClientInv(c) /\ ChangesOK(View(c), txn[c].snap, local[c])
  BY <1>0 DEF LocalInv, TimeInv
<1> QED BY <1>1, <1>2, <1>3, <1>4 DEF Reads, View, ClientInv, GoodChanges

\* A table that no transaction has changed: the transaction sees what its snapshot has.
LEMMA ReadsSnapshot ==
    ASSUME NEW c \in Clients, Reads(c), NEW t \in Tables, t \notin local[c].dropped_tables,
           \A f \in View(c).data_file : f.table = t => ~Hit(local[c], f),
           \A y \in local[c].new_data_files : y.table # t
    PROVE  TransactionContents(c, t) = Contents(View(c), t, txn[c].snap)
<1> DEFINE s == txn[c].snap
           v == View(c)
<1>0. /\ s \in Nat /\ MetadataOK(v, s) /\ OneLiveDelete(v)
  BY DEF Reads
<1>1. CASE ~TableReadable(c, t)
  BY <1>1 DEF TransactionContents, TableReadable, Contents
<1>2. CASE TableReadable(c, t)
  <2>1. v.table_end[t] = Null
    BY <1>0, <1>2, ExistsMeansLive DEF TableReadable
  <2>2. \A r : r \in Contents(v, t, s) <=> \E f \in v.data_file : f.table = t /\ LiveShows(v, f, r)
    BY <1>0, <2>1, LiveContents
  <2>3. \A r : r \in TransactionContents(c, t) <=>
              \/ \E f \in v.data_file : f.table = t /\ LiveShows(v, f, r) /\ ~Taken(local[c], f, r)
              \/ Inserted(local[c], t, r)
    BY <1>2, ReadsTable
  <2>4. \A f \in v.data_file : \A r : f.table = t => ~Taken(local[c], f, r)
    BY DEF Taken, Hit
  <2>5. \A r : ~Inserted(local[c], t, r)
    BY DEF Inserted
  <2> HIDE DEF v, s
  <2>6. \A r : r \in TransactionContents(c, t) <=> r \in Contents(v, t, s)
    BY <2>2, <2>3, <2>4, <2>5
  <2>7. TransactionContents(c, t) = Contents(v, t, s)
    BY <2>6
  <2> QED BY <2>7 DEF v, s
<1> QED BY <1>1, <1>2

\* The tables after a commit.
LEMMA TableAfterCommit ==
    ASSUME NEW v, NEW s0, NEW m0, NEW n, NEW l, NEW id, NEW m, NEW changes, Commits(v, s0, m0, n, l, id, m, changes),
           NEW t \in Tables
    PROVE  m.table_end[t] = Null <=> (m0.table_end[t] = Null /\ t \notin l.dropped_tables)
<1>1. m.table_end = TableEndsAfter(m0, l, n + 1) /\ n + 1 # Null
  BY DEF Commits, TimeStep, CommitOK, Null
<1> QED BY <1>1 DEF TableEndsAfter

\* A commit of c, with everything that is known of it.
LEMMA IsolatedCommit ==
    ASSUME PlainWorkload, LakeInv, ReadInv, NEW c \in Clients, Commit(c), NEW n, n = Len(log), NEW l, l = local[c],
           NEW s, s = txn[c].snap, NEW id, id = log[n].next_file_id
    PROVE  /\ n \in Nat \ {0} /\ s \in 1 .. n /\ s \in Nat /\ txn[c].phase # "idle"
           /\ Commits(versions[s], s, versions[n], n, l, id, versions'[n + 1], log'[n + 1].changes)
           /\ EndsOf(versions[n], versions'[n + 1], l) /\ RewritesCurrent(versions[s], versions[n], l)
           /\ VersionOK(versions[s], RegisteredFiles) /\ VersionOK(versions[n], RegisteredFiles)
           /\ LocalPaths(l) \cap RegisteredFiles = {}
           /\ Reads(c) /\ View(c) = versions[s]
           /\ Follows(versions[s], versions[n], s, n, log)
           /\ MetadataOK(versions[s], s) /\ MetadataOK(versions[n], n) /\ MetadataOK(versions'[n + 1], n + 1)
           /\ OneLiveDelete(versions'[n + 1])
<1>0. CheckedInv /\ TimeInv /\ LocalInv /\ MetaInv
  BY DEF LakeInv, CheckedInv, MetaInv
<1>1. n \in Nat \ {0} /\ s \in 1 .. n /\ txn[c].phase # "idle"
  BY <1>0, CommitOfClient
<1>2. Commits(versions[s], s, versions[n], n, l, id, versions'[n + 1], log'[n + 1].changes)
  BY <1>0, CommitIsKnown
<1>3. EndsOf(versions[n], versions'[n + 1], l)
  BY <1>0, CommitEndsRows
<1>4. RewritesCurrent(versions[s], versions[n], l)
  BY <1>0, RewritesAreCurrent
<1>5. VersionOK(versions[s], RegisteredFiles) /\ VersionOK(versions[n], RegisteredFiles)
  BY <1>1 DEF ReadInv
<1>6. LocalPaths(l) \cap RegisteredFiles = {}
  <2>1. txn[c].files = LocalPaths(l)
    BY <1>0 DEF LocalInv, ClientInv
  <2> QED BY <2>1 DEF LakeInv, FilesApart
<1>7. Reads(c) /\ View(c) = versions[s]
  BY <1>1, OpenReads DEF View
<1>8. Follows(versions[s], versions[n], s, n, log) /\ MetadataOK(versions[s], s) /\ MetadataOK(versions[n], n)
  BY <1>0, ReadAndNow
<1>9. MetadataOK(versions'[n + 1], n + 1)
  BY <1>2, CommitMetadataOK
<1>10. OneLiveDelete(versions'[n + 1])
  BY CommitVersionOK DEF VersionOK
<1> QED BY <1>1, <1>2, <1>3, <1>4, <1>5, <1>6, <1>7, <1>8, <1>9, <1>10

\* A table that is not there for the transaction, or dropped by it, or by another since:
\* it is gone after the commit, and the transaction has dropped it or left it alone.
LEMMA CommitWithoutTable ==
    ASSUME PlainWorkload, LakeInv, ReadInv, NEW c \in Clients, Commit(c), NEW n, n = Len(log), NEW l, l = local[c],
           NEW s, s = txn[c].snap, NEW t \in Tables,
           versions[s].table_end[t] # Null \/ versions[n].table_end[t] # Null \/ t \in l.dropped_tables
    PROVE  /\ Contents(versions'[n + 1], t, n + 1) = NoTable
           /\ \/ /\ TransactionContents(c, t) = Contents(versions[s], t, s)
                 /\ Contents(versions[n], t, n) = NoTable
              \/ /\ TransactionContents(c, t) = NoTable
                 /\ Contents(versions[s], t, s) # NoTable
<1> DEFINE v == versions[s]
           m0 == versions[n]
           m == versions'[n + 1]
           id == log[n].next_file_id
           changes == log'[n + 1].changes
<1>0. /\ n \in Nat \ {0} /\ s \in Nat
      /\ Commits(v, s, m0, n, l, id, m, changes) /\ VersionOK(v, RegisteredFiles)
      /\ Reads(c) /\ View(c) = v /\ Follows(v, m0, s, n, log)
      /\ MetadataOK(v, s) /\ MetadataOK(m0, n) /\ MetadataOK(m, n + 1)
  BY IsolatedCommit
<1>a. CheckedInv /\ TimeInv
  BY DEF LakeInv
<1>b. Between("dropped_table", t, s, n, log) =>
        /\ \A y \in l.new_data_files : y.table # t
        /\ \A f \in v.data_file : f.table = t => ~Hit(l, f)
  BY <1>a, DroppedTablesRest
<1> HIDE DEF v, m0, m, id, changes
<1>1. /\ m0.table_end[t] = v.table_end[t] \/ (v.table_end[t] = Null /\ Between("dropped_table", t, s, n, log))
      /\ v.table_end[t] # Null => m0.table_end[t] # Null
  BY <1>0 DEF Follows
<1>2. m.table_end[t] = Null <=> (m0.table_end[t] = Null /\ t \notin l.dropped_tables)
  BY <1>0, TableAfterCommit
<1>3. v.table_end[t] # Null \/ m0.table_end[t] # Null \/ t \in l.dropped_tables
  BY DEF v, m0
<1>4. Contents(m, t, n + 1) = NoTable
  BY <1>0, <1>1, <1>2, <1>3, NoContents
<1>5. TableExists(v, t, s) <=> v.table_end[t] = Null
  BY <1>0, ExistsMeansLive
<1>6. m0.table_end[t] # Null => Contents(m0, t, n) = NoTable
  BY <1>0, NoContents
<1>7. v.table_end[t] # Null => Contents(v, t, s) = NoTable
  BY <1>0, NoContents
<1>8. TableReadable(c, t) <=> (v.table_end[t] = Null /\ t \notin l.dropped_tables)
  BY <1>0, <1>5 DEF TableReadable
<1>9. v.table_end[t] = Null => Contents(v, t, s) # NoTable
  <2> SUFFICES ASSUME v.table_end[t] = Null PROVE Contents(v, t, s) # NoTable
    OBVIOUS
  <2>1. \A r : r \in Contents(v, t, s) <=> \E f \in v.data_file : f.table = t /\ LiveShows(v, f, r)
    BY <1>0, LiveContents DEF VersionOK
  <2>2. \A r \in Contents(v, t, s) : r \in Paths \X Positions
    BY <1>0, <2>1, LiveRowsAreRows
  <2> QED BY <2>2, ContentsOfTable
<1>10. \/ TransactionContents(c, t) = Contents(v, t, s) /\ Contents(m0, t, n) = NoTable
       \/ TransactionContents(c, t) = NoTable /\ Contents(v, t, s) # NoTable
  <2>1. CASE v.table_end[t] # Null
    BY <1>1, <1>6, <1>7, <1>8, <2>1 DEF TransactionContents
  <2>2. CASE v.table_end[t] = Null /\ t \in l.dropped_tables
    BY <1>8, <1>9, <2>2 DEF TransactionContents
  <2>3. CASE v.table_end[t] = Null /\ t \notin l.dropped_tables
    <3>1. m0.table_end[t] # Null /\ Between("dropped_table", t, s, n, log)
      BY <1>1, <1>3, <2>3
    <3>2. \A y \in local[c].new_data_files : y.table # t
      BY <1>b, <3>1
    <3>3. \A f \in View(c).data_file : f.table = t => ~Hit(local[c], f)
      BY <1>0, <1>b, <3>1
    <3>4. TransactionContents(c, t) = Contents(View(c), t, txn[c].snap)
      BY <1>0, <2>3, <3>2, <3>3, ReadsSnapshot
    <3> QED BY <1>0, <1>6, <3>1, <3>4
  <2> QED BY <2>1, <2>2, <2>3
<1> QED BY <1>4, <1>10 DEF v, m0, m

\* A table that is there, before and after a compaction.
LEMMA CommitOfCompaction ==
    ASSUME PlainWorkload, LakeInv, ReadInv, NEW c \in Clients, Commit(c), NEW n, n = Len(log),
           NEW s, s = txn[c].snap, NEW t \in Tables,
           versions[s].table_end[t] = Null, versions[n].table_end[t] = Null, local[c].compactions # {}
    PROVE  /\ TransactionContents(c, t) = Contents(versions[s], t, s)
           /\ Contents(versions'[n + 1], t, n + 1) = Contents(versions[n], t, n)
<1> DEFINE l == local[c]
           v == versions[s]
           m0 == versions[n]
           m == versions'[n + 1]
           id == log[n].next_file_id
           changes == log'[n + 1].changes
<1>0. /\ n \in Nat \ {0} /\ s \in Nat /\ n \in Nat /\ n + 1 \in Nat
      /\ Commits(v, s, m0, n, l, id, m, changes) /\ EndsOf(m0, m, l) /\ RewritesCurrent(v, m0, l)
      /\ VersionOK(v, RegisteredFiles) /\ VersionOK(m0, RegisteredFiles)
      /\ Reads(c) /\ View(c) = v
      /\ MetadataOK(v, s) /\ MetadataOK(m0, n) /\ MetadataOK(m, n + 1) /\ OneLiveDelete(m)
  BY IsolatedCommit
<1> HIDE DEF l, v, m0, m, id, changes
<1>1. l.new_data_files = {} /\ l.new_delete_files = {} /\ l.dropped_files = {} /\ l.dropped_tables = {}
  <2>1. l.compactions # {}
    BY DEF l
  <2> QED BY <1>0, <2>1, CompactsOrNot DEF Commits, CommitOK, CommitArguments, GoodChanges
<1>2. v.table_end[t] = Null /\ m0.table_end[t] = Null
  BY DEF v, m0
<1>3. m.table_end[t] = Null
  BY <1>0, <1>1, <1>2, TableAfterCommit
<1>4. \A f \in View(c).data_file : f.table = t => ~Hit(local[c], f)
  BY <1>1 DEF Hit, l
<1>5. TransactionContents(c, t) = Contents(v, t, s)
  BY <1>0, <1>1, <1>4, ReadsSnapshot DEF l
<1>6. \A r : r \in Contents(m0, t, n) <=> \E f \in m0.data_file : f.table = t /\ LiveShows(m0, f, r)
  BY <1>0, <1>2, LiveContents DEF VersionOK
<1>7. \A r : r \in Contents(m, t, n + 1) <=> \E f \in m.data_file : f.table = t /\ LiveShows(m, f, r)
  BY <1>0, <1>3, LiveContents
<1>8. ASSUME NEW r PROVE r \in Contents(m, t, n + 1) <=> r \in Contents(m0, t, n)
  <2>1. (\E g \in m.data_file : g.table = t /\ LiveShows(m, g, r)) <=>
             \E f \in m0.data_file : f.table = t /\ LiveShows(m0, f, r)
    <3>1. l.compactions # {}
      BY DEF l
    <3> QED BY <1>0, <3>1, AfterCompaction
  <2> QED BY <1>6, <1>7, <2>1
<1>9. Contents(m, t, n + 1) = Contents(m0, t, n)
  BY <1>8
<1> QED BY <1>5, <1>9 DEF v, m0, m

\* A commit of changes to rows, in terms of the two versions and the transaction's view.
LEMMA CommittedRows ==
    ASSUME NEW v, NEW s, NEW m0, NEW n, NEW l, NEW id, NEW m, NEW changes, NEW t \in Tables, NEW mine, NEW files,
           n \in Nat, s \in Nat,
           Commits(v, s, m0, n, l, id, m, changes), EndsOf(m0, m, l), VersionOK(v, files), VersionOK(m0, files),
           LocalPaths(l) \cap files = {}, MetadataOK(v, s), MetadataOK(m0, n), MetadataOK(m, n + 1), OneLiveDelete(m),
           HitsStay(v, m0, l), ShowsChanged(mine, v, l, t),
           v.table_end[t] = Null, m0.table_end[t] = Null, t \notin l.dropped_tables, l.compactions = {}
    PROVE  /\ Contents(v, t, s) \ mine \subseteq Contents(m0, t, n)
           /\ Contents(m, t, n + 1) = (Contents(m0, t, n) \ (Contents(v, t, s) \ mine)) \cup (mine \ Contents(v, t, s))
           /\ mine # NoTable /\ Contents(m0, t, n) # NoTable /\ Contents(v, t, s) # NoTable
           /\ Contents(m, t, n + 1) # NoTable
<1> DEFINE base == Contents(v, t, s)
           now == Contents(m0, t, n)
           after == Contents(m, t, n + 1)
<1>1. CommitOK(v, s, m0, n, l, id) /\ NewFilesOK(l) /\ LocalPaths(l) \subseteq Paths /\ UniqueIds(m0.data_file)
  BY DEF Commits, CommitOK, ChangesOK, CommitArguments, GoodMetadata
<1>2. m.table_end[t] = Null
  BY TableAfterCommit
<1>3. ShowsRows(base, v, t)
  BY LiveContents DEF VersionOK, ShowsRows
<1>4. ShowsRows(now, m0, t)
  BY LiveContents DEF VersionOK, ShowsRows
<1>5. \A r : r \in after <=> \E g \in m.data_file : g.table = t /\ LiveShows(m, g, r)
  <2>1. n + 1 \in Nat
    OBVIOUS
  <2> QED BY <1>2, <2>1, LiveContents
<1>6. ASSUME NEW r
      PROVE  (\E g \in m.data_file : g.table = t /\ LiveShows(m, g, r)) <=>
                 \/ \E f \in m0.data_file : f.table = t /\ LiveShows(m0, f, r) /\ ~Taken(l, f, r)
                 \/ Inserted(l, t, r)
  BY AfterChanges
<1> HIDE DEF base, now, after
<1>7. ShowsChanged(after, m0, l, t)
  BY <1>5, <1>6 DEF ShowsChanged
<1>8. \A r : Inserted(l, t, r) => r \in Paths \X Positions /\ r[1] \in LocalPaths(l)
  BY <1>1, InsertedRowsAreRows
<1>9. \A r : Inserted(l, t, r) => r \notin base
  BY <1>3, <1>8 DEF VersionOK, RowsFrom, LiveShows, ShowsRows
<1>10. LiveDisjoint(v) /\ LiveDisjoint(m0)
  BY DEF VersionOK
<1>11. /\ base \ mine \subseteq now
       /\ after = (now \ (base \ mine)) \cup (mine \ base)
  BY <1>1, <1>3, <1>4, <1>7, <1>9, <1>10, RowsMerge
<1>12. \A r \in now : r \in Paths \X Positions
  BY <1>4, LiveRowsAreRows DEF ShowsRows
<1>13. \A r \in base : r \in Paths \X Positions
  BY <1>3, LiveRowsAreRows DEF ShowsRows
<1>14. \A r \in mine : r \in Paths \X Positions
  BY <1>8, LiveRowsAreRows DEF ShowsChanged
<1>15. \A r \in after : r \in Paths \X Positions
  BY <1>11, <1>12, <1>14
<1>16. mine # NoTable /\ now # NoTable /\ base # NoTable /\ after # NoTable
  BY <1>12, <1>13, <1>14, <1>15, ContentsOfTable
<1> QED BY <1>11, <1>16 DEF base, now, after

\* A table that is there, before and after changes of its rows.
LEMMA CommitOfRows ==
    ASSUME PlainWorkload, LakeInv, ReadInv, NEW c \in Clients, Commit(c), NEW n, n = Len(log), NEW l, l = local[c],
           NEW s, s = txn[c].snap, NEW t \in Tables,
           versions[s].table_end[t] = Null, versions[n].table_end[t] = Null, t \notin l.dropped_tables, l.compactions = {}
    PROVE  /\ Contents(versions[s], t, s) \ TransactionContents(c, t) \subseteq Contents(versions[n], t, n)
           /\ Contents(versions'[n + 1], t, n + 1) =
                (Contents(versions[n], t, n) \ (Contents(versions[s], t, s) \ TransactionContents(c, t)))
                   \cup (TransactionContents(c, t) \ Contents(versions[s], t, s))
           /\ TransactionContents(c, t) # NoTable /\ Contents(versions[n], t, n) # NoTable
           /\ Contents(versions[s], t, s) # NoTable /\ Contents(versions'[n + 1], t, n + 1) # NoTable
<1> DEFINE v == versions[s]
           m0 == versions[n]
           m == versions'[n + 1]
           id == log[n].next_file_id
           changes == log'[n + 1].changes
<1>0. /\ n \in Nat \ {0} /\ s \in Nat /\ n \in Nat /\ n + 1 \in Nat
      /\ Commits(v, s, m0, n, l, id, m, changes) /\ EndsOf(m0, m, l)
      /\ VersionOK(v, RegisteredFiles) /\ VersionOK(m0, RegisteredFiles) /\ LocalPaths(l) \cap RegisteredFiles = {}
      /\ Reads(c) /\ View(c) = v
      /\ MetadataOK(v, s) /\ MetadataOK(m0, n) /\ MetadataOK(m, n + 1) /\ OneLiveDelete(m)
  BY IsolatedCommit
<1>a. CheckedInv /\ TimeInv
  BY DEF LakeInv
<1>b. \A f \in v.data_file : Hit(l, f) => \E g \in m0.data_file :
          g.id = f.id /\ g.table = f.table /\ \A r : LiveShows(m0, g, r) <=> LiveShows(v, f, r)
  <2> SUFFICES ASSUME NEW f \in v.data_file, Hit(l, f)
               PROVE  \E g \in m0.data_file :
                          g.id = f.id /\ g.table = f.table /\ \A r : LiveShows(m0, g, r) <=> LiveShows(v, f, r)
    OBVIOUS
  <2> QED BY <1>a, HitFilesStay
<1>c. \A g \in m0.data_file : Hit(l, g) => \E f \in v.data_file : f.id = g.id /\ f.table = g.table
  BY <1>a, HitFilesWereRead
<1>d. v.table_end[t] = Null /\ m0.table_end[t] = Null
  OBVIOUS
<1> HIDE DEF v, m0, m, id, changes
<1>e. HitsStay(v, m0, l)
  BY <1>b, <1>c DEF HitsStay
<1>1. TableReadable(c, t)
  BY <1>0, <1>d, ExistsMeansLive DEF TableReadable
<1>2. \A r : r \in TransactionContents(c, t) <=>
              \/ \E f \in View(c).data_file : f.table = t /\ LiveShows(View(c), f, r) /\ ~Taken(local[c], f, r)
              \/ Inserted(local[c], t, r)
  BY <1>0, <1>1, ReadsTable
<1> DEFINE mine == TransactionContents(c, t)
<1>3. ShowsChanged(mine, v, l, t)
  BY <1>0, <1>2 DEF ShowsChanged
<1> HIDE DEF mine
<1>4. /\ Contents(v, t, s) \ mine \subseteq Contents(m0, t, n)
      /\ Contents(m, t, n + 1) = (Contents(m0, t, n) \ (Contents(v, t, s) \ mine)) \cup (mine \ Contents(v, t, s))
      /\ mine # NoTable /\ Contents(m0, t, n) # NoTable /\ Contents(v, t, s) # NoTable
      /\ Contents(m, t, n + 1) # NoTable
  BY <1>0, <1>d, <1>e, <1>3, CommittedRows
<1> QED BY <1>4 DEF mine, v, m0, m

\* Whatever a transaction has done to a table, its commit does to the newest version of
\* the table what snapshot isolation says.
LEMMA CommitOfTable ==
    ASSUME PlainWorkload, LakeInv, ReadInv, NEW c \in Clients, Commit(c), NEW n, n = Len(log),
           NEW s, s = txn[c].snap, NEW t \in Tables
    PROVE  /\ Isolation!CanApply(Contents(versions[s], t, s), TransactionContents(c, t), Contents(versions[n], t, n))
           /\ Contents(versions'[n + 1], t, n + 1) =
                Isolation!Apply(Contents(versions[s], t, s), TransactionContents(c, t), Contents(versions[n], t, n))
<1> DEFINE l == local[c]
           base == Contents(versions[s], t, s)
           mine == TransactionContents(c, t)
           now == Contents(versions[n], t, n)
           after == Contents(versions'[n + 1], t, n + 1)
<1>1. CASE versions[s].table_end[t] # Null \/ versions[n].table_end[t] # Null \/ t \in l.dropped_tables
  <2>1. after = NoTable /\ ((mine = base /\ now = NoTable) \/ (mine = NoTable /\ base # NoTable))
    BY <1>1, CommitWithoutTable
  <2> HIDE DEF base, mine, now, after
  <2>2. Isolation!CanApply(base, mine, now) /\ after = Isolation!Apply(base, mine, now)
    BY <2>1 DEF Isolation!CanApply, Isolation!Apply
  <2> QED BY <2>2 DEF base, mine, now, after
<1>2. CASE versions[s].table_end[t] = Null /\ versions[n].table_end[t] = Null /\ l.compactions # {}
  <2>1. mine = base /\ after = now
    <3>1. /\ TransactionContents(c, t) = Contents(versions[s], t, s)
          /\ Contents(versions'[n + 1], t, n + 1) = Contents(versions[n], t, n)
      <4>1. local[c].compactions # {}
        BY <1>2
      <4> HIDE DEF l, base, mine, now, after
      <4> QED BY <1>2, <4>1, CommitOfCompaction
    <3> QED BY <3>1
  <2> HIDE DEF base, mine, now, after
  <2>2. Isolation!CanApply(base, mine, now) /\ after = Isolation!Apply(base, mine, now)
    BY <2>1 DEF Isolation!CanApply, Isolation!Apply
  <2> QED BY <2>2 DEF base, mine, now, after
<1>3. CASE /\ versions[s].table_end[t] = Null /\ versions[n].table_end[t] = Null /\ t \notin l.dropped_tables
           /\ l.compactions = {}
  <2>1. /\ base \ mine \subseteq now
        /\ after = (now \ (base \ mine)) \cup (mine \ base)
        /\ mine # NoTable /\ now # NoTable
    BY <1>3, CommitOfRows, SMTT(60)
  <2> HIDE DEF base, mine, now, after
  <2>2. mine = base => after = now
    BY <2>1
  <2>3. Isolation!CanApply(base, mine, now) /\ after = Isolation!Apply(base, mine, now)
    BY <2>1, <2>2 DEF Isolation!CanApply, Isolation!Apply
  <2> QED BY <2>3 DEF base, mine, now, after
<1> QED BY <1>1, <1>2, <1>3

----------------------------------------------------------------------------
(* The refinement mapping, and what it makes of a step.                    *)

\* What a transaction with local changes l sees of the file f at snapshot s of version v.
SeenRows(v, s, l, f) ==
    LET own == {d \in l.new_delete_files : d.file = f.id}
        deleted == IF own # {} THEN {p.row : p \in UNION {d.positions : d \in own}}
                   ELSE UNION {DeletedAt(d.positions, s) : d \in {d \in v.delete_file : d.file = f.id /\ Visible(d, s)}}
    IN  ((RowsAt(f, s) \ deleted) \ InlinedAt(v, f, s))
            \ {x.row : x \in {y \in l.inlined_file_deletes : y.file = f.id}}

\* And of the table t.
Seen(v, s, l, t) ==
    IF TableExists(v, t, s) /\ t \notin l.dropped_tables
    THEN (UNION {SeenRows(v, s, l, f) :
                    f \in {f \in v.data_file : /\ f.table = t
                                               /\ Visible(f, s)
                                               /\ [file |-> f.id, table |-> t] \notin l.dropped_files}}) \cup
         (UNION {n.rows \ n.deleted : n \in {m \in l.new_data_files : m.table = t}})
    ELSE NoTable

\* It depends on nothing else: before a step,
LEMMA TransactionSees ==
    ASSUME NEW c, NEW t
    PROVE  TransactionContents(c, t) = Seen(View(c), txn[c].snap, local[c], t)
BY DEF TransactionContents, TableReadable, ReadableFiles, ReadableRows, LocalDelete, CommittedDelete, LocalInlined,
       Seen, SeenRows

\* and after it.
LEMMA TransactionSeesNext ==
    ASSUME NEW c, NEW t
    PROVE  TransactionContents(c, t)' = Seen(versions'[txn'[c].snap], txn'[c].snap, local'[c], t)
BY DEF TransactionContents, TableReadable, ReadableFiles, ReadableRows, LocalDelete, CommittedDelete, LocalInlined,
       Seen, SeenRows, View

\* So a transaction sees the same until it changes something itself.
LEMMA SameView ==
    ASSUME NEW c, NEW t, versions'[txn'[c].snap] = View(c), txn'[c].snap = txn[c].snap, local'[c] = local[c]
    PROVE  TransactionContents(c, t)' = TransactionContents(c, t)
BY TransactionSees, TransactionSeesNext

\* What the abstract specification is given for its variables: the history,
History == [k \in 1 .. Len(log) |-> [t \in Tables |-> Contents(Last(versions), t, k)]]

\* the transaction of a client,
SessionOf(c) ==
    IF txn[c].phase = "idle" THEN [open |-> FALSE]
    ELSE [open |-> TRUE, snap |-> txn[c].snap, work |-> [t \in Tables |-> TransactionContents(c, t)]]

\* and the transactions.
Sessions == [c \in Clients |-> SessionOf(c)]

\* The steps of the abstract specification in these terms: Begin,
LEMMA MapBegin ==
    ASSUME NEW c, ~Sessions[c].open,
           Sessions' = [Sessions EXCEPT ![c] = [open |-> TRUE, snap |-> Len(History), work |-> History[Len(History)]]],
           History' = History
    PROVE Isolation!Begin(c)
BY DEF Isolation!Begin, Isolation!Newest, History, Sessions, SessionOf, Now, Snapshots

\* Change,
LEMMA MapChange ==
    ASSUME NEW c, Sessions[c].open, Sessions'[c].open,
           Sessions' = [Sessions EXCEPT ![c].work = Sessions'[c].work],
           History' = History
    PROVE Isolation!Change(c)
BY DEF Isolation!Change, History, Sessions, SessionOf, Now, Snapshots

\* End,
LEMMA MapEnd ==
    ASSUME NEW c, Sessions[c].open, Sessions' = [Sessions EXCEPT ![c] = [open |-> FALSE]],
           History' = History
    PROVE Isolation!End(c)
BY DEF Isolation!End, Isolation!Closed, History, Sessions, SessionOf, Now, Snapshots

\* no step,
LEMMA MapStutter ==
    ASSUME Sessions' = Sessions, History' = History
    PROVE UNCHANGED Isolation!vars
BY SMTT(60) DEF Isolation!vars, History, Sessions, SessionOf, Now, Snapshots

\* and Commit.
LEMMA MapCommit ==
    ASSUME NEW c, Sessions[c].open, Sessions' = [Sessions EXCEPT ![c] = [open |-> FALSE]],
           History' = Append(History, [t \in Tables |-> Isolation!Apply(History[Sessions[c].snap][t], Sessions[c].work[t],
                                                                       History[Len(History)][t])]),
           \A t \in Tables : Isolation!CanApply(History[Sessions[c].snap][t], Sessions[c].work[t],
                                                                       History[Len(History)][t])
    PROVE Isolation!Commit(c)
BY Zenon DEF Isolation!Commit, Isolation!Closed, Isolation!Newest, History, Sessions, SessionOf, Now, Snapshots

\* A transaction without changes of its own sees its snapshot.
LEMMA SeenWithoutChanges ==
    ASSUME NEW v, NEW i, MetadataOK(v, i), NEW s \in Nat, OneDeleteAt(v, s), NEW t \in Tables
    PROVE  Seen(v, s, NoLocalChanges, t) = Contents(v, t, s)
<1> DEFINE l == NoLocalChanges
           files == {f \in v.data_file : /\ f.table = t
                                         /\ Visible(f, s)
                                         /\ [file |-> f.id, table |-> t] \notin l.dropped_files}
<1>0. l.new_data_files = {} /\ l.new_delete_files = {} /\ l.dropped_files = {} /\ l.inlined_file_deletes = {}
      /\ l.dropped_tables = {}
  BY DEF NoLocalChanges
<1>1. CASE ~TableExists(v, t, s)
  BY <1>1 DEF Seen, Contents
<1>2. CASE TableExists(v, t, s)
  <2>1. \A r : r \in Contents(v, t, s) <=> \E f \in v.data_file : f.table = t /\ Shows(v, f, s, r)
    BY <1>2, ContentsMeaning
  <2>2. ASSUME NEW f \in v.data_file, Visible(f, s), NEW r
        PROVE  r \in SeenRows(v, s, l, f) <=> Shows(v, f, s, r)
    <3>1. InlinedAt(v, f, s) = {}
      BY DEF MetadataOK, InlinedAt
    <3>2. SeenRows(v, s, l, f) = RowsAt(f, s) \ UNION {DeletedAt(d.positions, s) : d \in DeletesAt(v, f, s)}
      BY <1>0, <3>1 DEF SeenRows, DeletesAt
    <3>3. \A d \in DeletesAt(v, f, s) : DeletedAt(d.positions, s) = RowsOf(d.positions)
      BY PlainDeletions DEF MetadataOK, DeleteOK, DeletesAt
    <3>4. \A d, e \in DeletesAt(v, f, s) : d = e
      BY DEF OneDeleteAt, DeletesAt
    <3>5. r \in SeenRows(v, s, l, f) <=> r \in RowsAt(f, s) /\ \A d \in DeletesAt(v, f, s) : r \notin RowsOf(d.positions)
      BY <3>2, <3>3
    <3> QED BY <2>2, <3>4, <3>5 DEF Shows
  <2>3. Seen(v, s, l, t) = UNION {SeenRows(v, s, l, f) : f \in files}
    <3>1. UNION {n.rows \ n.deleted : n \in {m \in l.new_data_files : m.table = t}} = {}
      BY <1>0
    <3>2. TableExists(v, t, s) /\ t \notin l.dropped_tables
      BY <1>0, <1>2
    <3> HIDE DEF l
    <3> QED BY <3>1, <3>2 DEF Seen
  <2>4. \A f : f \in files <=> f \in v.data_file /\ f.table = t /\ Visible(f, s)
    BY <1>0
  <2>5. \A f, r : Shows(v, f, s, r) => Visible(f, s)
    BY DEF Shows
  <2> HIDE DEF files, l
  <2>6. \A r : r \in Seen(v, s, l, t) <=> \E f \in files : r \in SeenRows(v, s, l, f)
    BY <2>3
  <2>7. \A r : r \in Seen(v, s, l, t) <=> r \in Contents(v, t, s)
    BY <2>1, <2>2, <2>4, <2>5, <2>6
  <2>8. Seen(v, s, l, t) = Contents(v, t, s)
    BY <2>7
  <2> QED BY <2>8 DEF l
<1> QED BY <1>1, <1>2

\* An open session.
Session(s, w) == [open |-> TRUE, snap |-> s, work |-> w]

\* The sessions before and after a step.
LEMMA SessionIs ==
    ASSUME NEW c
    PROVE  /\ txn[c].phase = "idle" => SessionOf(c) = [open |-> FALSE]
           /\ txn[c].phase # "idle" =>
                SessionOf(c) = Session(txn[c].snap, [t \in Tables |-> TransactionContents(c, t)])
           /\ txn'[c].phase = "idle" => SessionOf(c)' = [open |-> FALSE]
           /\ txn'[c].phase # "idle" =>
                SessionOf(c)' = Session(txn'[c].snap, [t \in Tables |-> TransactionContents(c, t)'])
BY DEF SessionOf, Session

\* A transaction that goes on with the same changes.
LEMMA SameSession ==
    ASSUME NEW c, txn'[c].phase = "idle" <=> txn[c].phase = "idle",
           txn[c].phase # "idle" => /\ versions'[txn'[c].snap] = View(c) /\ txn'[c].snap = txn[c].snap
                                    /\ local'[c] = local[c]
    PROVE  SessionOf(c)' = SessionOf(c)
<1>1. CASE txn[c].phase = "idle"
  BY <1>1, SessionIs
<1>2. CASE txn[c].phase # "idle"
  <2>1. \A t \in Tables : TransactionContents(c, t)' = TransactionContents(c, t)
    BY <1>2, SameView
  <2>2. [t \in Tables |-> TransactionContents(c, t)'] = [t \in Tables |-> TransactionContents(c, t)]
    BY <2>1
  <2> QED BY <1>2, <2>2, SessionIs
<1> QED BY <1>1, <1>2

\* A step of one client.
LEMMA SessionsNext ==
    ASSUME NEW c \in Clients, \A d \in Clients \ {c} : SessionOf(d)' = SessionOf(d), NEW x, SessionOf(c)' = x
    PROVE  Sessions' = [Sessions EXCEPT ![c] = x] /\ Sessions[c] = SessionOf(c) /\ Sessions'[c] = x
BY DEF Sessions

\* A step that changes no session.
LEMMA SameSessions ==
    ASSUME \A d \in Clients : SessionOf(d)' = SessionOf(d)
    PROVE  Sessions' = Sessions
BY DEF Sessions

\* A step that commits nothing.
LEMMA SameHistory == ASSUME versions' = versions, log' = log PROVE History' = History
BY DEF History

\* A session with other work.
LEMMA SessionWorks ==
    ASSUME NEW s, NEW w, NEW w2
    PROVE  [Session(s, w) EXCEPT !.work = w2] = Session(s, w2)
<1> DEFINE x == Session(s, w)
           y == Session(s, w2)
           fields == {"open", "snap", "work"}
<1>1. x = [f \in fields |-> x[f]] /\ y = [f \in fields |-> y[f]]
  BY DEF Session
<1>2. x.snap = y.snap /\ y.work = w2
  BY DEF Session
<1>3. x.open = y.open
  BY DEF Session
<1> HIDE DEF x, y
<1>4. [x EXCEPT !.work = w2] = y
  BY <1>1, <1>2, <1>3
<1> QED BY <1>4 DEF x, y

\* A statement changes what its own transaction sees.
LEMMA StatementIsChange ==
    ASSUME LakeInv, NEW c \in Clients, AnyStatement(c)
    PROVE  Isolation!Change(c)
<1>0. TypeInv /\ LocalInv
  BY DEF LakeInv, CheckedInv, MetaInv
<1>1. PICK t, l, new, gone : Statement(c, t, l, new, gone)
  BY <1>0, AnyStatementEffect DEF LocalInv, StatementEffect
<1>2. /\ local' = [local EXCEPT ![c] = l] /\ versions' = versions /\ log' = log
      /\ txn[c].phase = "active"
      /\ txn' = [txn EXCEPT ![c].changes = TransactionChanges(l), ![c].files = (@ \ gone) \cup new]
  BY <1>1 DEF Statement, Work
<1>3. txn'[c].snap = txn[c].snap /\ txn'[c].phase = "active" /\ \A e \in Clients \ {c} : txn'[e] = txn[e] /\ local'[e] = local[e]
  BY <1>0, <1>2 DEF TypeInv, CommitTypeOK, Transaction, LocalInv
<1>4. \A d \in Clients \ {c} : SessionOf(d)' = SessionOf(d)
  BY <1>2, <1>3, SameSession DEF View
<1> DEFINE w == [t2 \in Tables |-> TransactionContents(c, t2)]
           w2 == [t2 \in Tables |-> TransactionContents(c, t2)']
<1>5. SessionOf(c) = Session(txn[c].snap, w) /\ SessionOf(c)' = Session(txn[c].snap, w2)
  BY <1>2, <1>3, SessionIs
<1> HIDE DEF w, w2
<1>6. /\ Sessions' = [Sessions EXCEPT ![c] = Session(txn[c].snap, w2)] /\ Sessions[c] = Session(txn[c].snap, w)
      /\ Sessions'[c] = Session(txn[c].snap, w2)
  BY <1>4, <1>5, SessionsNext
<1>7. Sessions[c].open /\ Sessions'[c].open /\ Sessions'[c].work = w2
  BY <1>6 DEF Session
<1>8. [Sessions[c] EXCEPT !.work = w2] = Session(txn[c].snap, w2)
  BY <1>6, SessionWorks
<1>9. Sessions' = [Sessions EXCEPT ![c].work = Sessions'[c].work]
  BY <1>6, <1>7, <1>8
<1>10. History' = History
  BY <1>2, SameHistory
<1> QED BY <1>7, <1>9, <1>10, MapChange

\* The history as the versions have it.
LEMMA HistoryIs ==
    ASSUME LakeInv, ReadInv, NEW n, n = Len(log)
    PROVE  /\ History = [k \in 1 .. n |-> [t \in Tables |-> Contents(versions[k], t, k)]]
           /\ n \in Nat \ {0} /\ Len(History) = n /\ Last(versions) = versions[n]
<1>0. TypeInv /\ LocalInv
  BY DEF LakeInv, CheckedInv, MetaInv
<1>1. n \in Nat \ {0} /\ Len(versions) = n
  BY <1>0 DEF TypeInv, CommitTypeOK, LocalInv, ReadInv
<1>2. Last(versions) = versions[n]
  BY <1>1 DEF Last
<1>3. \A k \in 1 .. n, t \in Tables : Contents(versions[n], t, k) = Contents(versions[k], t, k)
  BY DEF ReadInv, PastOK
<1>4. History = [k \in 1 .. n |-> [t \in Tables |-> Contents(versions[k], t, k)]]
  BY <1>2, <1>3 DEF History
<1>5. Len(History) = n
  BY <1>1, <1>4
<1> QED BY <1>1, <1>2, <1>4, <1>5

\* What the steps of the protocol other than a commit are.
LEMMA OtherSteps ==
    ASSUME LakeInv, ReadInv, NEW c \in Clients, OtherStep(c),
           local' = [local EXCEPT ![c] = IF txn'[c].phase = "idle" THEN NoLocalChanges ELSE @]
    PROVE  Isolation!Next \/ UNCHANGED Isolation!vars
<1>0. TypeInv /\ LocalInv
  BY DEF LakeInv, CheckedInv, MetaInv
<1> DEFINE n == Len(log)
<1>1. versions' = versions /\ log' = log
  <2>1. versions' = versions
    BY DEF OtherStep
  <2>2. Len(versions) = Len(log) /\ Len(log) \in Nat
    BY <1>0 DEF LocalInv, TypeInv, CommitTypeOK
  <2> QED BY <1>0, <2>1, <2>2, VersionsGrow
<1>a. NoTransaction.phase = "idle"
  BY DEF NoTransaction
<1>2. \A d \in Clients \ {c} : txn'[d] = txn[d] /\ local'[d] = local[d]
  BY <1>0, OwnSteps DEF LocalInv
<1>3. local'[c] = IF txn'[c].phase = "idle" THEN NoLocalChanges ELSE local[c]
  BY <1>0 DEF LocalInv
<1>4. \A d \in Clients \ {c} : SessionOf(d)' = SessionOf(d)
  BY <1>1, <1>2, SameSession DEF View
<1>5. History' = History
  BY <1>1, SameHistory
<1>6. CASE txn'[c] = NoTransaction /\ txn[c].phase # "idle"
  <2>1. SessionOf(c)' = [open |-> FALSE]
    BY <1>6, <1>a, SessionIs
  <2>2. SessionOf(c).open
    BY <1>6, SessionIs DEF Session
  <2>3. Isolation!End(c)
    BY <1>4, <1>5, <2>1, <2>2, SessionsNext, MapEnd
  <2> QED BY <2>3 DEF Isolation!Next
<1>7. CASE txn'[c] = NoTransaction /\ txn[c].phase = "idle"
  <2>1. SessionOf(c)' = SessionOf(c)
    BY <1>7, <1>a, SessionIs
  <2> QED BY <1>4, <1>5, <2>1, SameSessions, MapStutter
<1>8. CASE txn[c].phase # "idle" /\ txn'[c].phase # "idle" /\ txn'[c].snap = txn[c].snap
  <2>1. SessionOf(c)' = SessionOf(c)
    BY <1>1, <1>3, <1>8, SameSession DEF View
  <2> QED BY <1>4, <1>5, <2>1, SameSessions, MapStutter
<1>9. CASE txn[c].phase = "idle" /\ txn'[c] = NewTransaction(n)
  <2>1. txn'[c].phase # "idle" /\ txn'[c].snap = n
    BY <1>9 DEF NewTransaction
  <2>2. local'[c] = NoLocalChanges
    BY <1>0, <1>3, <1>9 DEF LocalInv, ClientInv, NewTransaction
  <2>3. n \in Nat \ {0} /\ History = [k \in 1 .. n |-> [t \in Tables |-> Contents(versions[k], t, k)]]
        /\ Len(History) = n
    BY HistoryIs
  <2>4. MetadataOK(versions[n], n) /\ OneDeleteAt(versions[n], n)
    BY <2>3 DEF LakeInv, TimeInv, ReadInv, PastOK
  <2> HIDE DEF n
  <2>5. \A t \in Tables : TransactionContents(c, t)' = Contents(versions[n], t, n)
    BY <1>1, <2>1, <2>2, <2>3, <2>4, TransactionSeesNext, SeenWithoutChanges
  <2>6. [t \in Tables |-> TransactionContents(c, t)'] = History[n]
    BY <2>3, <2>5
  <2>7. SessionOf(c)' = Session(n, History[n])
    BY <2>1, <2>6, SessionIs, ZenonT(60)
  <2>8. SessionOf(c) = [open |-> FALSE]
    BY <1>9, SessionIs
  <2>9. Sessions' = [Sessions EXCEPT ![c] = Session(n, History[n])] /\ Sessions[c] = [open |-> FALSE]
    BY <1>4, <2>7, <2>8, SessionsNext
  <2>10. /\ ~Sessions[c].open
         /\ Sessions' = [Sessions EXCEPT ![c] = [open |-> TRUE, snap |-> Len(History), work |-> History[Len(History)]]]
    BY <2>3, <2>9 DEF Session
  <2>11. Isolation!Begin(c)
    BY <1>5, <2>10, MapBegin
  <2> QED BY <2>11 DEF Isolation!Next
<1> QED BY <1>0, <1>6, <1>7, <1>8, <1>9, OwnSteps

\* The commit of c adds a snapshot to the history.
LEMMA CommitIsCommit ==
    ASSUME PlainWorkload, LakeInv, ReadInv, NEW c \in Clients, Commit(c),
           local' = [local EXCEPT ![c] = IF txn'[c].phase = "idle" THEN NoLocalChanges ELSE @]
    PROVE  Isolation!Commit(c)
<1> DEFINE n == Len(log)
           s == txn[c].snap
           Before(k) == [t \in Tables |-> Contents(versions[k], t, k)]
           mine == [t \in Tables |-> TransactionContents(c, t)]
           new == [t \in Tables |-> Contents(versions'[n + 1], t, n + 1)]
<1>0. TypeInv /\ LocalInv /\ MetaInv
  BY DEF LakeInv, CheckedInv, MetaInv
<1>1. /\ n \in Nat \ {0} /\ s \in 1 .. n /\ txn[c].phase # "idle"
      /\ Len(log') = n + 1 /\ \A i \in 1 .. n : versions'[i] = versions[i]
      /\ Last(versions') = versions'[n + 1]
  BY <1>0, CommitOfClient, ZenonT(60)
<1>2. History = [k \in 1 .. n |-> Before(k)] /\ Len(History) = n
  BY HistoryIs
<1>3. History' = [k \in 1 .. (n + 1) |-> [t \in Tables |-> Contents(versions'[n + 1], t, k)]]
  BY <1>1 DEF History
<1>4. \A k \in 1 .. n, t \in Tables : Contents(versions'[n + 1], t, k) = Contents(versions[k], t, k)
  BY <1>1, CommitPastOK DEF PastOK
<1>5. \A t \in Tables :
         /\ Isolation!CanApply(Contents(versions[s], t, s), TransactionContents(c, t), Contents(versions[n], t, n))
         /\ Contents(versions'[n + 1], t, n + 1) =
                Isolation!Apply(Contents(versions[s], t, s), TransactionContents(c, t), Contents(versions[n], t, n))
  BY CommitOfTable
<1>6. \A d \in Clients \ {c} : txn'[d] = txn[d] /\ local'[d] = local[d]
  BY <1>0, OwnSteps DEF LocalInv
<1>7. \A d \in Clients \ {c} : txn[d].phase # "idle" => txn[d].snap \in 1 .. n
  BY <1>0 DEF TypeInv, SnapshotsInLog
<1>8. \A d \in Clients \ {c} : SessionOf(d)' = SessionOf(d)
  BY <1>1, <1>6, <1>7, SameSession DEF View
<1>9. txn'[c].phase = "idle"
  <2>1. txn' = [txn EXCEPT ![c] = NoTransaction]
    BY DEF Commit, ExecuteCommitBatch, EndTransaction
  <2> QED BY <1>0, <2>1 DEF TypeInv, CommitTypeOK, NoTransaction
<1>10. SessionOf(c)' = [open |-> FALSE] /\ SessionOf(c) = Session(s, mine)
  BY <1>1, <1>9, SessionIs
<1> HIDE DEF n, s
<1>11. History' = Append(History, new)
  <2> HIDE DEF Before, new
  <2>1. \A k \in 1 .. n : [t \in Tables |-> Contents(versions'[n + 1], t, k)] = Before(k)
    BY <1>4 DEF Before
  <2> QED BY <1>1, <1>2, <1>3, <2>1 DEF new
<1>12. \A t \in Tables : /\ History[s][t] = Contents(versions[s], t, s)
                         /\ History[Len(History)][t] = Contents(versions[n], t, n)
  BY <1>1, <1>2
<1>13. \A t \in Tables : mine[t] = TransactionContents(c, t)
  OBVIOUS
<1> HIDE DEF mine
<1>14. /\ Sessions' = [Sessions EXCEPT ![c] = [open |-> FALSE]] /\ Sessions[c] = Session(s, mine)
  BY <1>8, <1>10, SessionsNext
<1>15. Sessions[c].open /\ Sessions[c].snap = s /\ Sessions[c].work = mine
  BY <1>14 DEF Session
<1>16. \A t \in Tables :
         /\ Isolation!CanApply(History[Sessions[c].snap][t], Sessions[c].work[t], History[Len(History)][t])
         /\ Contents(versions'[n + 1], t, n + 1) =
              Isolation!Apply(History[Sessions[c].snap][t], Sessions[c].work[t], History[Len(History)][t])
  BY <1>5, <1>12, <1>13, <1>15
<1>17. new = [t \in Tables |->
                 Isolation!Apply(History[Sessions[c].snap][t], Sessions[c].work[t], History[Len(History)][t])]
  BY <1>16
<1> HIDE DEF new
<1> QED BY <1>11, <1>14, <1>15, <1>16, <1>17, MapCommit

\* Every step is a step of the abstract specification or a stuttering one.
LEMMA StepIsIsolated ==
    ASSUME PlainWorkload, LakeInv, ReadInv, [LakeNext]_lakeVars
    PROVE  [Isolation!Next]_(Isolation!vars)
<1>1. CASE UNCHANGED lakeVars
  <2>1. versions' = versions /\ log' = log /\ txn' = txn /\ local' = local
    BY <1>1 DEF lakeVars, commitVars
  <2>2. \A d \in Clients : SessionOf(d)' = SessionOf(d)
    BY <2>1, SameSession DEF View
  <2>3. UNCHANGED Isolation!vars
    BY <2>1, <2>2, SameSessions, SameHistory, MapStutter
  <2> QED BY <2>3
<1>2. ASSUME NEW c \in Clients, AnyStatement(c) PROVE Isolation!Next
  BY <1>2, StatementIsChange DEF Isolation!Next
<1>3. ASSUME NEW c \in Clients, Commit(c),
             local' = [local EXCEPT ![c] = IF txn'[c].phase = "idle" THEN NoLocalChanges ELSE @]
      PROVE  Isolation!Next
  BY <1>3, CommitIsCommit DEF Isolation!Next
<1>4. ASSUME NEW c \in Clients, OtherStep(c),
             local' = [local EXCEPT ![c] = IF txn'[c].phase = "idle" THEN NoLocalChanges ELSE @]
      PROVE  Isolation!Next \/ UNCHANGED Isolation!vars
  BY <1>4, OtherSteps
<1> QED BY <1>1, <1>2, <1>3, <1>4 DEF LakeNext

\* The empty lake is an empty history.
LEMMA InitIsIsolated == LakeInit => Isolation!Init
<1> SUFFICES ASSUME LakeInit PROVE Isolation!Init
  OBVIOUS
<1>1. Len(log) = 1 /\ versions = <<NoMetadata>> /\ txn = [c \in Clients |-> NoTransaction]
  BY DEF LakeInit, CommitInit
<1>2. Last(versions) = NoMetadata
  BY <1>1 DEF Last
<1>3. \A t \in Tables : Contents(NoMetadata, t, 1) = {}
  BY DEF Contents, TableExists, NoMetadata, FileList
<1>4. History = <<[t \in Tables |-> {}]>>
  BY <1>1, <1>2, <1>3 DEF History
<1>5. NoTransaction.phase = "idle"
  BY DEF NoTransaction
<1>6. \A c \in Clients : SessionOf(c) = [open |-> FALSE]
  BY <1>1, <1>5 DEF SessionOf
<1>7. Sessions = [c \in Clients |-> [open |-> FALSE]]
  BY <1>6 DEF Sessions
<1> QED BY <1>4, <1>7 DEF Isolation!Init, Isolation!Closed, History, Sessions, SessionOf, Now, Snapshots

\* Snapshot isolation with time travel, for every number of clients, tables, files and
\* statements of a plain workload: what transactions see and what every snapshot can be
\* read to contain evolve as SnapshotIsolation says.  A commit that passed the conflict
\* checks of CheckForConflicts adds to the newest snapshot exactly the rows that its
\* transaction inserted and takes away exactly those it deleted, all of which are still
\* there, whatever committed since it began; a compaction adds a snapshot with the same
\* rows; and no other step is seen by anyone but the client that takes it.
THEOREM LakeImplementsSnapshotIsolation ==
    ASSUME PlainWorkload
    PROVE  LakeSpec => ImplementsSnapshotIsolation
<1>1. LakeInv /\ ReadInv /\ [LakeNext]_lakeVars => [Isolation!Next]_(Isolation!vars)
  BY StepIsIsolated
<1> QED BY <1>1, InitIsIsolated, ReadInvariance, PTL DEF LakeSpec, ImplementsSnapshotIsolation, Isolation!Spec
============================================================================
