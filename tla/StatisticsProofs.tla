------------------------- MODULE StatisticsProofs -------------------------
(***************************************************************************)
(* Row ids are never given twice.  Rows are numbered from next_row_id,     *)
(* which a commit takes from the statistics that its process has cached or *)
(* from those of the metadata; rows move from the inlined table to files   *)
(* and from file to file.                                                  *)
(*                                                                         *)
(* The statistics that scans are planned with cover the live rows, and     *)
(* MIN and MAX that are answered from them are exact, if no flush writes   *)
(* rows that are not counted and no file without live rows is rewritten:   *)
(* without UncountedRows and EmptyRewrites.                                *)
(*                                                                         *)
(* The theorems hold for every number of clients, values, statements and   *)
(* snapshots.  NoneIsNoStats and NoneIsNoColumn say that the model value   *)
(* None is not itself a record of statistics or of a column.               *)
(***************************************************************************)
EXTENDS Statistics, FiniteSetTheorems, SequenceTheorems, WellFoundedInduction, TLAPS

StatsFields == {"record_count", "next_row_id", "column"}
FileFields == {"id", "rows", "deleted", "inlined_deleted", "bounded"}
InlinedFields == {"rid", "val", "live"}
TxnFields == DOMAIN NoTransaction

StatsOk(s) == s # None => DOMAIN s = StatsFields /\ s.next_row_id \in Nat

\* The number that the rows of a commit are counted from.
Start(s) == IF s = None THEN 0 ELSE s.next_row_id

SameStart(a, b) == (a = None <=> b = None) /\ Start(a) = Start(b)

\* Rows with different ids, none of them above n.
GoodRows(rows, n) ==
    /\ \A r \in rows : r.rid \in Nat /\ r.rid <= n
    /\ \A r, q \in rows : r.rid = q.rid => r = q

Disjoint(rows, others) == Rid(rows) \cap Rid(others) = {}

GoodFiles(files, id, n) ==
    /\ IsFiniteSet(files)
    /\ \A f \in files : /\ DOMAIN f = FileFields
                        /\ f.id \in Nat /\ f.id < id
                        /\ GoodRows(f.rows, n)
    /\ \A f, g \in files : f # g => f.id # g.id /\ Disjoint(f.rows, g.rows)

GoodInlined(inlined, files, n) ==
    /\ \A r \in inlined : DOMAIN r = InlinedFields
    /\ GoodRows(inlined, n)
    /\ \A f \in files : Disjoint(f.rows, inlined)

\* What every state of the metadata satisfies.
GoodView(v) ==
    /\ v.snapshot \in Nat /\ v.next_file_id \in Nat
    /\ StatsOk(v.stats)
    /\ v.stats = None => v.data_file = {} /\ v.inlined = {}
    /\ GoodFiles(v.data_file, v.next_file_id, Start(v.stats))
    /\ GoodInlined(v.inlined, v.data_file, Start(v.stats))

\* The local changes of a transaction.
GoodWork(t) ==
    /\ DOMAIN t = TxnFields
    /\ t.new_files \in Seq([values : Seq(Values), bounded : Bounded])
    /\ t.new_inlined \in Seq(Values)
    /\ IsFiniteSet(t.delete_files)
    /\ t.flush # {} => t.flush = t.view.inlined
    /\ t.dropped_files # {} => t.view.data_file # {}
    /\ \A other \in t.others : other.changes \in RecordedChanges

\* No transaction that has committed since changed the table in one of the ways.
NoneDid(t, kinds) == \A other \in t.others : \A x \in other.changes : x[1] \notin kinds

\* What is known of the snapshot of a transaction while others commit: an id is
\* not given to another file, files are there until a deletion or a rewrite,
\* inlined rows until a flush, and the numbering goes on with next_file_id.
Follows(t, now) ==
    /\ t.view.next_file_id <= now.next_file_id
    /\ t.view.stats # None => now.stats # None
    /\ t.view.next_file_id = now.next_file_id => SameStart(t.view.stats, now.stats)
    /\ \A f \in t.view.data_file, g \in now.data_file : f.id = g.id => f.rows = g.rows
    /\ NoneDid(t, {"deleted_from_table", "rewrite_delete"}) =>
         \A f \in t.view.data_file : \E g \in now.data_file : g.id = f.id
    /\ NoneDid(t, {"inline_flush"}) => Rid(t.view.inlined) \subseteq Rid(now.inlined)

TxnInv == \A c \in Clients : GoodWork(txn[c]) /\ (txn[c].open => GoodView(txn[c].view) /\ Follows(txn[c], db))

\* The statistics that are cached for next_file_id go on with the same row id.
CacheInv ==
    \A p \in Range(ProcessOf) : \A n \in DOMAIN cache[p] :
        /\ n \in Nat /\ n <= db.next_file_id
        /\ StatsOk(cache[p][n])
        /\ n = db.next_file_id => SameStart(cache[p][n], db.stats)

RowIdInv ==
    /\ DOMAIN txn = Clients /\ DOMAIN cache = Range(ProcessOf)
    /\ GoodView(db) /\ TxnInv /\ CacheInv
----------------------------------------------------------------------------
(* Induction on the natural numbers, from the fact that finite sets are    *)
(* well-founded under inclusion.                                           *)

Below(k) == 1 .. k

LEMMA NaturalInduction ==
    ASSUME NEW S, 0 \in S, \A n \in Nat : n \in S => n + 1 \in S
    PROVE  \A n \in Nat : n \in S
<1> SUFFICES ASSUME NEW m \in Nat, m \notin S PROVE FALSE
  OBVIOUS
<1> DEFINE T == {Below(k) : k \in {n \in 0 .. m : n \notin S}}
<1>1. Below(m) \in T
  OBVIOUS
<1>2. T \subseteq SUBSET Below(m)
  BY DEF Below
<1>3. IsFiniteSet(Below(m))
  BY FS_Interval DEF Below
<1>4. T # {} /\ T \subseteq FiniteSubsetsOf(Below(m))
  BY <1>1, <1>2, <1>3, FS_FiniteSubsetsOfFinite
<1>5. PICK x \in T : \A y \in T : ~ (<<y, x>> \in StrictSubsetOrdering(Below(m)))
  <2> HIDE DEF T
  <2> QED BY <1>4, FS_StrictSubsetOrderingWellFounded, WFMin
<1>6. PICK k \in 0 .. m : k \notin S /\ x = Below(k)
  OBVIOUS
<1>7. k - 1 \in 0 .. m /\ k - 1 \notin S
  <2>1. k # 0 /\ k - 1 \in Nat
    BY <1>6
  <2> QED BY <2>1, <1>6
<1>8. Below(k - 1) \in T
  BY <1>7
<1>9. <<Below(k - 1), x>> \in StrictSubsetOrdering(Below(m))
  <2>1. Below(k - 1) \subseteq Below(k) /\ Below(k) \subseteq Below(m)
    BY <1>6, <1>7 DEF Below
  <2>2. k \in Below(k) /\ k \notin Below(k - 1)
    BY <1>6, <1>7 DEF Below
  <2> QED BY <2>1, <2>2, <1>6 DEF StrictSubsetOrdering
<1> QED BY <1>5, <1>8, <1>9

----------------------------------------------------------------------------
(* The rows in the first new files.                                        *)

CountsUpTo(f, files, n) ==
    f = [i \in 0..n |-> IF i = 0 THEN 0 ELSE f[i - 1] + Len(files[i].values)]

LEMMA CountsExist ==
    ASSUME NEW files
    PROVE  \A n \in Nat : \E f : CountsUpTo(f, files, n)
<1> DEFINE S == {n \in Nat : \E f : CountsUpTo(f, files, n)}
<1>1. 0 \in S
  <2>1. CountsUpTo([i \in 0..0 |-> 0], files, 0)
    BY DEF CountsUpTo
  <2> QED BY <2>1
<1>2. ASSUME NEW n \in Nat, n \in S PROVE n + 1 \in S
  <2>1. PICK f : CountsUpTo(f, files, n)
    BY <1>2
  <2> DEFINE g == [i \in 0..n+1 |-> IF i = n + 1 THEN f[n] + Len(files[n + 1].values) ELSE f[i]]
  <2>2. \A i \in 0..n+1 : g[i] = IF i = 0 THEN 0 ELSE g[i - 1] + Len(files[i].values)
    <3> TAKE i \in 0..n+1
    <3>1. CASE i = n + 1
      BY <3>1
    <3>2. CASE i \in 0..n
      BY <3>2, <2>1 DEF CountsUpTo
    <3> QED BY <3>1, <3>2
  <2>3. CountsUpTo(g, files, n + 1)
    BY <2>2 DEF CountsUpTo
  <2> QED BY <2>3
<1>3. \A n \in Nat : n \in S
  <2> HIDE DEF S
  <2> QED BY <1>1, <1>2, NaturalInduction
<1> QED BY <1>3

LEMMA RowsUpToCounts ==
    ASSUME NEW B, NEW files \in Seq([values : Seq(Values), bounded : B]),
           NEW up, up = RowsUpTo(files)
    PROVE  /\ up[0] = 0
           /\ \A i \in 1..Len(files) : up[i] = up[i - 1] + Len(files[i].values)
           /\ \A i \in 0..Len(files) : up[i] \in Nat
           /\ \A i \in 0..Len(files) : \A j \in 0..i : up[j] <= up[i]
<1> DEFINE n == Len(files)
<1>0. n \in Nat
  OBVIOUS
<1>1. CountsUpTo(up, files, n)
  <2>1. \E f : CountsUpTo(f, files, n)
    BY <1>0, CountsExist
  <2> QED BY <2>1 DEF CountsUpTo, RowsUpTo
<1>2. \A i \in 0..n : up[i] = IF i = 0 THEN 0 ELSE up[i - 1] + Len(files[i].values)
  <2> HIDE DEF n
  <2> QED BY <1>1 DEF CountsUpTo
<1>3. \A i \in 1..n : Len(files[i].values) \in Nat
  OBVIOUS
<1>4. up[0] = 0 /\ \A i \in 1..n : up[i] = up[i - 1] + Len(files[i].values)
  <2> HIDE DEF n
  <2> QED BY <1>0, <1>2
<1> DEFINE S == {i \in Nat : i <= n => up[i] \in Nat /\ \A j \in 0..i : up[j] \in Nat /\ up[j] <= up[i]}
<1>5. 0 \in S
  BY <1>4
<1>6. ASSUME NEW i \in Nat, i \in S PROVE i + 1 \in S
  <2>1. SUFFICES ASSUME i + 1 <= n
                 PROVE  up[i + 1] \in Nat /\ \A j \in 0..i + 1 : up[j] \in Nat /\ up[j] <= up[i + 1]
    OBVIOUS
  <2>2. i + 1 \in 1..n /\ i <= n
    BY <2>1, <1>0
  <2>3. up[i] \in Nat /\ \A j \in 0..i : up[j] \in Nat /\ up[j] <= up[i]
    BY <1>6, <2>2
  <2>4. up[i + 1] = up[i] + Len(files[i + 1].values) /\ Len(files[i + 1].values) \in Nat
    <3> HIDE DEF n
    <3> QED BY <1>3, <1>4, <2>2
  <2>5. up[i + 1] \in Nat /\ up[i] <= up[i + 1]
    BY <2>3, <2>4, SMTT(60)
  <2>6. ASSUME NEW j \in 0..i + 1 PROVE up[j] \in Nat /\ up[j] <= up[i + 1]
    <3>1. CASE j = i + 1
      BY <3>1, <2>5
    <3>2. CASE j \in 0..i
      BY <3>2, <2>3, <2>5
    <3> QED BY <3>1, <3>2
  <2> QED BY <2>5, <2>6
<1>7. \A i \in Nat : i \in S
  <2> HIDE DEF S
  <2> QED BY <1>5, <1>6, NaturalInduction
<1> QED BY <1>0, <1>4, <1>7

----------------------------------------------------------------------------
(* The rows that a commit numbers, moves and keeps.                        *)

Apart(f, g) == f.id # g.id /\ Disjoint(f.rows, g.rows)

LEMMA DisjointMeans ==
    ASSUME NEW rows, NEW others
    PROVE  Disjoint(rows, others) <=> \A r \in rows, q \in others : r.rid # q.rid
BY DEF Disjoint, Rid

LEMMA ApartIsSymmetric ==
    ASSUME NEW f, NEW g, Apart(f, g)
    PROVE  Apart(g, f)
BY DEF Apart, Disjoint

LEMMA NewRowsAreNumbered ==
    ASSUME NEW values \in Seq(Values), NEW start \in Nat, NEW rows, rows = NewRows(values, start)
    PROVE  /\ GoodRows(rows, start + Len(values))
           /\ \A r \in rows : r.rid > start
           /\ \A r \in rows : r.rid \in Nat
<1>1. \A r \in rows : \E i \in 1..Len(values) : r = [rid |-> start + i, val |-> values[i]]
  BY DEF NewRows
<1>2. Len(values) \in Nat
  OBVIOUS
<1>3. \A r \in rows : r.rid \in Nat /\ r.rid <= start + Len(values) /\ r.rid > start
  BY <1>1, <1>2
<1>4. \A r, q \in rows : r.rid = q.rid => r = q
  <2> SUFFICES ASSUME NEW r \in rows, NEW q \in rows, r.rid = q.rid
               PROVE  r = q
    OBVIOUS
  <2>1. PICK i \in 1..Len(values) : r = [rid |-> start + i, val |-> values[i]]
    BY <1>1
  <2>2. PICK j \in 1..Len(values) : q = [rid |-> start + j, val |-> values[j]]
    BY <1>1
  <2>3. start + i = start + j
    BY <2>1, <2>2
  <2>4. i = j
    BY <2>3, <1>2
  <2> QED BY <2>1, <2>2, <2>4
<1> QED BY <1>3, <1>4 DEF GoodRows

LEMMA KeptFilesOf ==
    ASSUME NEW v, NEW t, NEW f \in KeptFiles(v, t), \A g \in v.data_file : DOMAIN g = FileFields
    PROVE  \E g \in v.data_file :
             /\ g.id \notin t.rewrites
             /\ f = WithDeletes(g, t)
             /\ DOMAIN f = FileFields /\ f.id = g.id /\ f.rows = g.rows
<1>1. PICK g \in v.data_file : g.id \notin t.dropped_files \cup t.rewrites /\ f = WithDeletes(g, t)
  BY DEF KeptFiles
<1>2. DOMAIN g = FileFields
  OBVIOUS
<1>3. DOMAIN f = FileFields /\ f.id = g.id /\ f.rows = g.rows
  BY <1>1, <1>2 DEF WithDeletes, FileFields
<1> QED BY <1>1, <1>3

\* The place of a file among the rewritten ones.
Rank(t, f) == Cardinality({g \in RewrittenFiles(t) : g.id < f.id})

LEMMA RewrittenFilesOf ==
    ASSUME NEW t, NEW id, NEW f \in Rewritten(t, id)
    PROVE  \E g \in t.view.data_file :
             /\ g \in RewrittenFiles(t) /\ g.id \in t.rewrites
             /\ f = [id |-> id + Rank(t, g), rows |-> LiveIn(g), deleted |-> {},
                     inlined_deleted |-> {}, bounded |-> g.bounded]
             /\ DOMAIN f = FileFields /\ f.id = id + Rank(t, g) /\ f.rows \subseteq g.rows
<1>1. PICK g \in RewrittenFiles(t) :
             f = [id |-> id + Rank(t, g), rows |-> LiveIn(g), deleted |-> {},
                  inlined_deleted |-> {}, bounded |-> g.bounded]
  BY DEF Rewritten, Rank
<1>2. g \in t.view.data_file /\ g.id \in t.rewrites
  BY DEF RewrittenFiles, FilesById
<1>3. LiveIn(g) \subseteq g.rows
  BY DEF LiveIn
<1>4. f.rows = LiveIn(g) /\ f.id = id + Rank(t, g) /\ DOMAIN f = FileFields
  BY <1>1 DEF FileFields
<1> QED BY <1>1, <1>2, <1>3, <1>4

LEMMA RanksDiffer ==
    ASSUME NEW t, IsFiniteSet(t.view.data_file),
           \A f \in t.view.data_file : f.id \in Nat,
           \A f, g \in t.view.data_file : f # g => f.id # g.id
    PROVE  /\ IsFiniteSet(RewrittenFiles(t)) /\ Cardinality(RewrittenFiles(t)) \in Nat
           /\ \A f \in RewrittenFiles(t) :
                Rank(t, f) \in Nat /\ Rank(t, f) < Cardinality(RewrittenFiles(t))
           /\ \A f, g \in RewrittenFiles(t) : f # g => Rank(t, f) # Rank(t, g)
<1> DEFINE R == RewrittenFiles(t)
           Smaller(f) == {g \in R : g.id < f.id}
<1>1. R \subseteq t.view.data_file
  BY DEF RewrittenFiles, FilesById
<1>2. IsFiniteSet(R) /\ Cardinality(R) \in Nat
  <2> HIDE DEF R
  <2> QED BY <1>1, FS_Subset, FS_CardinalityType
<1>3. ASSUME NEW f \in R
      PROVE  /\ IsFiniteSet(Smaller(f)) /\ Rank(t, f) = Cardinality(Smaller(f))
             /\ Rank(t, f) \in Nat /\ Rank(t, f) < Cardinality(R)
  <2>1. Rank(t, f) = Cardinality(Smaller(f))
    BY DEF Rank
  <2>2. Smaller(f) \in SUBSET R /\ f \notin Smaller(f)
    BY <1>1
  <2>3. IsFiniteSet(Smaller(f)) /\ Cardinality(Smaller(f)) \in Nat /\ Cardinality(Smaller(f)) <= Cardinality(R)
    <3> HIDE DEF R, Smaller
    <3> QED BY <1>2, <2>2, FS_Subset, FS_CardinalityType
  <2>4. Cardinality(R) # Cardinality(Smaller(f))
    <3> HIDE DEF R, Smaller
    <3> QED BY <1>2, <2>2, FS_Subset
  <2> HIDE DEF R, Smaller
  <2> QED BY <2>1, <2>3, <2>4, <1>2
<1>4. ASSUME NEW f \in R, NEW g \in R, f.id < g.id
      PROVE  Rank(t, f) # Rank(t, g)
  <2>1. Smaller(f) \in SUBSET Smaller(g) /\ f \in Smaller(g) /\ f \notin Smaller(f)
    BY <1>1, <1>4
  <2>2. Cardinality(Smaller(f)) # Cardinality(Smaller(g))
    <3>1. IsFiniteSet(Smaller(g))
      BY <1>3
    <3> HIDE DEF R, Smaller
    <3> QED BY <2>1, <3>1, FS_Subset
  <2> QED BY <2>2, <1>3
<1>5. ASSUME NEW f \in R, NEW g \in R, f # g
      PROVE  Rank(t, f) # Rank(t, g)
  <2>1. f.id < g.id \/ g.id < f.id
    BY <1>1, <1>5
  <2> QED BY <2>1, <1>4
<1> QED BY <1>2, <1>3, <1>5

\* f is the i-th new file.
NewFileAt(f, t, id, start, up, i) ==
    /\ f = [id |-> (id + i) - 1, rows |-> NewRows(t.new_files[i].values, start + up[i - 1]),
            deleted |-> {}, inlined_deleted |-> {}, bounded |-> t.new_files[i].bounded]
    /\ DOMAIN f = FileFields /\ f.id = (id + i) - 1
    /\ GoodRows(f.rows, start + up[i]) /\ \A r \in f.rows : r.rid > start + up[i - 1]

LEMMA NewFilesOf ==
    ASSUME NEW t, GoodWork(t), NEW id \in Nat, NEW start \in Nat, NEW f \in NewDataFiles(t, id, start),
           NEW up, up = RowsUpTo(t.new_files)
    PROVE  \E i \in 1..Len(t.new_files) : NewFileAt(f, t, id, start, up, i)
<1> DEFINE files == t.new_files
<1>1. files \in Seq([values : Seq(Values), bounded : Bounded])
  BY DEF GoodWork
<1> HIDE DEF files
<1>11. DOMAIN files = 1..Len(files) /\ Len(files) \in Nat
  BY <1>1
<1>2. PICK i \in 1..Len(files) :
          f = [id |-> id + i - 1, rows |-> NewRows(files[i].values, start + up[i - 1]),
               deleted |-> {}, inlined_deleted |-> {}, bounded |-> files[i].bounded]
  <2>1. f \in {[id |-> id + i - 1, rows |-> NewRows(files[i].values, start + up[i - 1]),
               deleted |-> {}, inlined_deleted |-> {}, bounded |-> files[i].bounded] : i \in DOMAIN files}
    BY DEF NewDataFiles, files
  <2> QED BY <2>1, <1>11
<1>3. id + i - 1 = (id + i) - 1
  BY <1>11
<1>4. files[i].values \in Seq(Values)
  <2>1. files[i] \in [values : Seq(Values), bounded : Bounded]
    BY <1>1, ElementOfSeq
  <2> QED BY <2>1
<1>5. Len(files) \in Nat /\ i - 1 \in 0..Len(files) /\ i \in 0..Len(files)
  BY <1>1
<1>6. up[i] = up[i - 1] + Len(files[i].values) /\ up[i - 1] \in Nat /\ Len(files[i].values) \in Nat
  <2>1. up = RowsUpTo(files)
    BY DEF files
  <2>2. /\ \A k \in 1..Len(files) : up[k] = up[k - 1] + Len(files[k].values)
        /\ \A k \in 0..Len(files) : up[k] \in Nat
    BY <1>1, <2>1, RowsUpToCounts
  <2>3. Len(files[i].values) \in Nat
    BY <1>4
  <2> QED BY <1>2, <1>5, <2>2, <2>3
<1> DEFINE rows == NewRows(files[i].values, start + up[i - 1])
<1>7. /\ GoodRows(rows, (start + up[i - 1]) + Len(files[i].values))
      /\ \A r \in rows : r.rid > start + up[i - 1]
  <2>1. start + up[i - 1] \in Nat
    BY <1>6
  <2> QED BY <1>4, <2>1, NewRowsAreNumbered
<1>8. (start + up[i - 1]) + Len(files[i].values) = start + up[i]
  BY <1>6
<1>9. f.rows = rows /\ f.id = (id + i) - 1 /\ DOMAIN f = FileFields
  BY <1>2, <1>3 DEF FileFields
<1> QED BY <1>2, <1>3, <1>7, <1>8, <1>9 DEF files, NewFileAt

\* What a commit finds of the rows that it moves.
FindsRows(v, t) ==
    /\ \A f \in t.view.data_file, g \in v.data_file : f.id = g.id => f.rows = g.rows
    /\ t.rewrites # {} => \A f \in t.view.data_file : \E g \in v.data_file : g.id = f.id
    /\ t.flush # {} => Rid(t.flush) \subseteq Rid(v.inlined)
    /\ t.rewrites = {} \/ t.flush = {}

LEMMA MovedIds ==
    ASSUME NEW t, IsFiniteSet(t.view.data_file), IsFiniteSet(t.delete_files), GoodWork(t),
           \A f \in t.view.data_file : f.id \in Nat,
           \A f, g \in t.view.data_file : f # g => f.id # g.id
    PROVE  /\ IdsOfMovedRows(t) \in Nat /\ FileIdsTaken(t) \in Nat
           /\ FileIdsTaken(t) >= IdsOfMovedRows(t) + Len(t.new_files)
           /\ FileIdsTaken(t) = 0 => t.new_files = <<>> /\ t.new_inlined = <<>>
           /\ IdsOfMovedRows(t) >= Cardinality(RewrittenFiles(t))
           /\ t.flush # {} => IdsOfMovedRows(t) >= 1
<1>1. Cardinality(RewrittenFiles(t)) \in Nat
  BY RanksDiffer
<1>2. IdsOfMovedRows(t) \in Nat /\ IdsOfMovedRows(t) >= Cardinality(RewrittenFiles(t))
      /\ (t.flush # {} => IdsOfMovedRows(t) >= 1)
  BY <1>1 DEF IdsOfMovedRows
<1>3. Cardinality(t.delete_files) \in Nat
  BY FS_CardinalityType
<1>4. Len(t.new_files) \in Nat /\ (Len(t.new_files) = 0 => t.new_files = <<>>)
  <2>1. t.new_files \in Seq([values : Seq(Values), bounded : Bounded])
    BY DEF GoodWork
  <2> QED BY <2>1, EmptySeq
<1> DEFINE extra == IF t.new_inlined # <<>> /\ t.new_files = <<>> THEN 1 ELSE 0
<1>5. extra \in Nat /\ (extra = 0 => t.new_inlined = <<>> \/ t.new_files # <<>>)
  OBVIOUS
<1>6. FileIdsTaken(t) = Cardinality(t.delete_files) + Len(t.new_files) + IdsOfMovedRows(t) + extra
  BY DEF FileIdsTaken
<1> HIDE DEF extra
<1> QED BY <1>1, <1>2, <1>3, <1>4, <1>5, <1>6, SMTT(60)

LEMMA FilesOfCommitDiffer ==
    ASSUME NEW v, NEW t, NEW n \in Nat, NEW id \in Nat, NEW k \in Nat, NEW m \in Nat,
           GoodFiles(v.data_file, id, n), GoodInlined(v.inlined, v.data_file, n), GoodWork(t),
           GoodFiles(t.view.data_file, k, m),
           FindsRows(v, t), NEW moved, moved = IdsOfMovedRows(t), NEW taken, taken = FileIdsTaken(t),
           NEW total, total = n + NewFileRows(t)
    PROVE  LET K == KeptFiles(v, t)
               F == FlushedFile(t, id)
               R == Rewritten(t, id)
               N == NewDataFiles(t, id + moved, n)
           IN  /\ \A f \in UNION {K, F, R, N} :
                    DOMAIN f = FileFields /\ f.id \in Nat /\ f.id < id + taken
               /\ \A f \in K \cup F \cup R : \A r \in f.rows : r.rid \in Nat /\ r.rid <= n
               /\ \A f \in N : \A r \in f.rows : r.rid \in Nat /\ r.rid > n /\ r.rid <= total
               /\ \A f, g \in UNION {K, F, R, N} : f # g => Apart(f, g)
<1> DEFINE K == KeptFiles(v, t)
           F == FlushedFile(t, id)
           R == Rewritten(t, id)
           N == NewDataFiles(t, id + moved, n)
           up == RowsUpTo(t.new_files)
           last == Len(t.new_files)
           size == Cardinality(RewrittenFiles(t))
<1>1. /\ \A g \in v.data_file : DOMAIN g = FileFields /\ g.id \in Nat /\ g.id < id
      /\ \A g \in v.data_file : \A r \in g.rows : r.rid \in Nat /\ r.rid <= n
      /\ \A f, g \in v.data_file : f # g => f.id # g.id /\ Disjoint(f.rows, g.rows)
  BY DEF GoodFiles, GoodRows
<1>2. /\ IsFiniteSet(t.view.data_file)
      /\ \A g \in t.view.data_file : g.id \in Nat
      /\ \A f, g \in t.view.data_file : f # g => f.id # g.id /\ Disjoint(f.rows, g.rows)
  BY DEF GoodFiles
<1>3. /\ \A r \in v.inlined : r.rid \in Nat /\ r.rid <= n
      /\ \A f \in v.data_file : Disjoint(f.rows, v.inlined)
  BY DEF GoodInlined, GoodRows
<1>4. /\ moved \in Nat /\ taken \in Nat /\ taken >= moved + last /\ moved >= size
      /\ t.flush # {} => moved >= 1
  <2>1. IsFiniteSet(t.delete_files)
    BY DEF GoodWork
  <2> QED BY <1>2, <2>1, MovedIds
<1>5. last \in Nat /\ size \in Nat
  <2>1. t.new_files \in Seq([values : Seq(Values), bounded : Bounded])
    BY DEF GoodWork
  <2>2. size \in Nat
    BY <1>2, RanksDiffer
  <2> QED BY <2>1, <2>2
<1>6. ASSUME NEW f \in K
      PROVE  \E g \in v.data_file : /\ g.id \notin t.rewrites /\ f = WithDeletes(g, t)
                                    /\ DOMAIN f = FileFields /\ f.id = g.id /\ f.rows = g.rows
  BY <1>1, KeptFilesOf
<1>7. ASSUME NEW f \in R
      PROVE  \E g \in t.view.data_file, h \in v.data_file :
               /\ g \in RewrittenFiles(t) /\ h.id = g.id /\ h.id \in t.rewrites
               /\ f = [id |-> id + Rank(t, g), rows |-> LiveIn(g), deleted |-> {},
                       inlined_deleted |-> {}, bounded |-> g.bounded]
               /\ DOMAIN f = FileFields /\ f.id = id + Rank(t, g)
               /\ f.rows \subseteq g.rows /\ f.rows \subseteq h.rows
  <2>1. PICK g \in t.view.data_file :
             /\ g \in RewrittenFiles(t) /\ g.id \in t.rewrites
             /\ f = [id |-> id + Rank(t, g), rows |-> LiveIn(g), deleted |-> {},
                     inlined_deleted |-> {}, bounded |-> g.bounded]
             /\ DOMAIN f = FileFields /\ f.id = id + Rank(t, g) /\ f.rows \subseteq g.rows
    BY RewrittenFilesOf
  <2>2. PICK h \in v.data_file : h.id = g.id
    BY <2>1 DEF FindsRows
  <2>3. h.rows = g.rows
    BY <2>2 DEF FindsRows
  <2> QED BY <2>1, <2>2, <2>3
<1>8. ASSUME NEW f \in F
      PROVE  /\ t.flush # {} /\ F = {f} /\ R = {} /\ DOMAIN f = FileFields /\ f.id = id
             /\ \A r \in f.rows : \E q \in v.inlined : q.rid = r.rid
  <2>1. t.flush # {} /\ F = {f}
        /\ f = [id |-> id, rows |-> {[rid |-> r.rid, val |-> r.val] : r \in t.flush},
                deleted |-> Rid({r \in t.flush : ~r.live}), inlined_deleted |-> {}, bounded |-> TRUE]
    BY DEF FlushedFile
  <2>2. R = {}
    <3>1. t.rewrites = {}
      BY <2>1 DEF FindsRows
    <3> QED BY <3>1, RewrittenFilesOf
  <2>3. DOMAIN f = FileFields /\ f.id = id /\ f.rows = {[rid |-> r.rid, val |-> r.val] : r \in t.flush}
    BY <2>1 DEF FileFields
  <2>4. ASSUME NEW r \in f.rows PROVE \E q \in v.inlined : q.rid = r.rid
    <3>1. r.rid \in Rid(t.flush)
      BY <2>3 DEF Rid
    <3>2. r.rid \in Rid(v.inlined)
      BY <2>1, <3>1 DEF FindsRows
    <3> QED BY <3>2 DEF Rid
  <2> QED BY <2>1, <2>2, <2>3, <2>4
<1>9. ASSUME NEW f \in N
      PROVE  \E i \in 1..last : NewFileAt(f, t, id + moved, n, up, i)
  <2>1. id + moved \in Nat
    BY <1>4
  <2>2. up = RowsUpTo(t.new_files) /\ last = Len(t.new_files) /\ f \in NewDataFiles(t, id + moved, n)
    OBVIOUS
  <2> HIDE DEF up, last, N
  <2> QED BY <2>1, <2>2, NewFilesOf
<1>10. /\ up[0] = 0 /\ up[last] \in Nat /\ total = n + up[last]
       /\ \A i \in 0..last : up[i] \in Nat /\ up[i] <= up[last]
       /\ \A i \in 0..last : \A j \in 0..i : up[j] <= up[i]
  <2>1. t.new_files \in Seq([values : Seq(Values), bounded : Bounded])
    BY DEF GoodWork
  <2>2. total = n + up[last]
    BY DEF NewFileRows
  <2>3. /\ up[0] = 0
        /\ \A i \in 0..last : up[i] \in Nat
        /\ \A i \in 0..last : \A j \in 0..i : up[j] <= up[i]
    BY <2>1, RowsUpToCounts
  <2> HIDE DEF up, last
  <2>4. last \in 0..last
    BY <1>5
  <2> QED BY <2>2, <2>3, <2>4, <1>5
<1>11. /\ \A g \in RewrittenFiles(t) : Rank(t, g) \in Nat /\ Rank(t, g) < size
       /\ \A f, g \in RewrittenFiles(t) : f # g => Rank(t, f) # Rank(t, g)
  BY <1>2, RanksDiffer
<1> HIDE DEF K, F, R, N, up, last, size
<1>12. \A f \in K : DOMAIN f = FileFields /\ f.id \in Nat /\ f.id < id
  BY <1>1, <1>6
<1>13. \A f \in F \cup R : DOMAIN f = FileFields /\ f.id \in Nat /\ f.id >= id /\ f.id < id + moved
  <2>1. ASSUME NEW f \in F PROVE DOMAIN f = FileFields /\ f.id \in Nat /\ f.id >= id /\ f.id < id + moved
    BY <1>8, <1>4
  <2>2. ASSUME NEW f \in R PROVE DOMAIN f = FileFields /\ f.id \in Nat /\ f.id >= id /\ f.id < id + moved
    BY <1>7, <1>4, <1>5, <1>11
  <2> QED BY <2>1, <2>2
<1>14. \A f \in N : DOMAIN f = FileFields /\ f.id \in Nat /\ f.id >= id + moved /\ f.id < id + taken
  <2> TAKE f \in N
  <2>1. PICK i \in 1..last : DOMAIN f = FileFields /\ f.id = ((id + moved) + i) - 1
    BY <1>9 DEF NewFileAt
  <2> QED BY <2>1, <1>4, <1>5
<1>15. ASSUME NEW f \in K \cup F \cup R, NEW r \in f.rows PROVE r.rid \in Nat /\ r.rid <= n
  <2>1. CASE f \in K
    BY <2>1, <1>1, <1>6
  <2>2. CASE f \in F
    BY <2>2, <1>3, <1>8
  <2>3. CASE f \in R
    BY <2>3, <1>1, <1>7
  <2> QED BY <2>1, <2>2, <2>3
<1>16. ASSUME NEW f \in N, NEW r \in f.rows PROVE r.rid \in Nat /\ r.rid > n /\ r.rid <= total
  <2>1. PICK i \in 1..last : GoodRows(f.rows, n + up[i]) /\ \A q \in f.rows : q.rid > n + up[i - 1]
    BY <1>9 DEF NewFileAt
  <2>2. r.rid \in Nat /\ r.rid <= n + up[i] /\ r.rid > n + up[i - 1]
    BY <2>1 DEF GoodRows
  <2>3. i \in 0..last /\ i - 1 \in 0..last
    BY <1>5
  <2>4. up[i] \in Nat /\ up[i - 1] \in Nat /\ up[i] <= up[last] /\ up[last] \in Nat
    BY <1>10, <2>3
  <2> QED BY <2>2, <2>4, <1>10
<1>17. ASSUME NEW f \in K, NEW g \in K, f # g PROVE Apart(f, g)
  <2>1. PICK a \in v.data_file : f = WithDeletes(a, t) /\ f.id = a.id /\ f.rows = a.rows
    BY <1>6
  <2>2. PICK b \in v.data_file : g = WithDeletes(b, t) /\ g.id = b.id /\ g.rows = b.rows
    BY <1>6
  <2> QED BY <2>1, <2>2, <1>17, <1>1 DEF Apart
<1>18. ASSUME NEW f \in K, NEW g \in F \cup R PROVE Apart(f, g)
  <2>1. f.id # g.id
    BY <1>12, <1>13
  <2>2. PICK a \in v.data_file : a.id \notin t.rewrites /\ f.rows = a.rows
    BY <1>6
  <2>3. CASE g \in F
    BY <2>1, <2>2, <2>3, <1>3, <1>8, DisjointMeans DEF Apart
  <2>4. CASE g \in R
    <3>1. PICK h \in v.data_file : h.id \in t.rewrites /\ g.rows \subseteq h.rows
      BY <2>4, <1>7
    <3>2. Disjoint(a.rows, h.rows)
      BY <3>1, <2>2, <1>1
    <3> QED BY <2>1, <2>2, <3>1, <3>2, DisjointMeans DEF Apart
  <2> QED BY <2>3, <2>4
<1>19. ASSUME NEW f \in F \cup R, NEW g \in F \cup R, f # g PROVE Apart(f, g)
  <2>1. f \in R /\ g \in R
    BY <1>8, <1>19
  <2>2. PICK a \in t.view.data_file :
             /\ a \in RewrittenFiles(t) /\ f.id = id + Rank(t, a) /\ f.rows \subseteq a.rows
             /\ f = [id |-> id + Rank(t, a), rows |-> LiveIn(a), deleted |-> {},
                     inlined_deleted |-> {}, bounded |-> a.bounded]
    BY <2>1, <1>7
  <2>3. PICK b \in t.view.data_file :
             /\ b \in RewrittenFiles(t) /\ g.id = id + Rank(t, b) /\ g.rows \subseteq b.rows
             /\ g = [id |-> id + Rank(t, b), rows |-> LiveIn(b), deleted |-> {},
                     inlined_deleted |-> {}, bounded |-> b.bounded]
    BY <2>1, <1>7
  <2>4. a # b
    BY <2>2, <2>3, <1>19
  <2>5. Disjoint(a.rows, b.rows) /\ Rank(t, a) # Rank(t, b)
    BY <2>2, <2>3, <2>4, <1>2, <1>11
  <2>6. f.id # g.id
    BY <2>2, <2>3, <2>5, <1>11
  <2> QED BY <2>2, <2>3, <2>5, <2>6, DisjointMeans DEF Apart
<1>20. ASSUME NEW f \in K \cup F \cup R, NEW g \in N PROVE Apart(f, g)
  <2>1. f.id # g.id
    BY <1>4, <1>12, <1>13, <1>14
  <2>2. \A r \in f.rows, q \in g.rows : r.rid # q.rid
    BY <1>15, <1>16
  <2> QED BY <2>1, <2>2, DisjointMeans DEF Apart
<1>21. ASSUME NEW f \in N, NEW g \in N, f # g PROVE Apart(f, g)
  <2>1. PICK i \in 1..last : NewFileAt(f, t, id + moved, n, up, i)
    BY <1>9
  <2>2. PICK j \in 1..last : NewFileAt(g, t, id + moved, n, up, j)
    BY <1>9
  <2>3. i # j
    BY <2>1, <2>2, <1>21 DEF NewFileAt
  <2>4. f.id # g.id
    BY <2>1, <2>2, <2>3, <1>4, <1>5 DEF NewFileAt
  <2>5. \A r \in f.rows : r.rid \in Nat /\ r.rid <= n + up[i] /\ r.rid > n + up[i - 1]
    BY <2>1 DEF GoodRows, NewFileAt
  <2>6. \A r \in g.rows : r.rid \in Nat /\ r.rid <= n + up[j] /\ r.rid > n + up[j - 1]
    BY <2>2 DEF GoodRows, NewFileAt
  <2>7. /\ i \in 0..last /\ i - 1 \in 0..last /\ j \in 0..last /\ j - 1 \in 0..last
        /\ i < j => i \in 0..j - 1
        /\ j < i => j \in 0..i - 1
    BY <1>5
  <2>8. up[i] \in Nat /\ up[j] \in Nat /\ up[i - 1] \in Nat /\ up[j - 1] \in Nat
    BY <2>7, <1>10
  <2>9. (i < j => up[i] <= up[j - 1]) /\ (j < i => up[j] <= up[i - 1])
    BY <2>7, <1>10
  <2>10. \A r \in f.rows, q \in g.rows : r.rid # q.rid
    <3>1. i < j \/ j < i
      BY <2>3, <1>5
    <3> QED BY <3>1, <2>5, <2>6, <2>8, <2>9
  <2> QED BY <2>4, <2>10, DisjointMeans DEF Apart
<1>22. \A f, g \in UNION {K, F, R, N} : f # g => Apart(f, g)
  BY <1>17, <1>18, <1>19, <1>20, <1>21, ApartIsSymmetric
<1>23. \A f \in UNION {K, F, R, N} : DOMAIN f = FileFields /\ f.id \in Nat /\ f.id < id + taken
  BY <1>4, <1>5, <1>12, <1>13, <1>14
<1> QED BY <1>15, <1>16, <1>22, <1>23 DEF K, F, R, N

LEMMA ImageIsFinite ==
    ASSUME NEW S, IsFiniteSet(S), NEW f, NEW T, \A y \in T : \E x \in S : y = f[x]
    PROVE  IsFiniteSet(T)
<1> DEFINE U == {f[x] : x \in S}
           g == [x \in S |-> f[x]]
<1>1. g \in Surjection(S, U)
  BY DEF Surjection
<1>2. IsFiniteSet(U)
  <2> HIDE DEF U, g
  <2> QED BY <1>1, FS_Surjection
<1>3. T \in SUBSET U
  OBVIOUS
<1> HIDE DEF U
<1> QED BY <1>2, <1>3, FS_Subset

LEMMA FilesOfCommitFinite ==
    ASSUME NEW v, NEW t, NEW n, NEW id, NEW new,
           IsFiniteSet(v.data_file), IsFiniteSet(t.view.data_file), GoodWork(t)
    PROVE  IsFiniteSet(UNION {KeptFiles(v, t), FlushedFile(t, id), Rewritten(t, id), NewDataFiles(t, new, n)})
<1> DEFINE K == KeptFiles(v, t)
           F == FlushedFile(t, id)
           R == Rewritten(t, id)
           N == NewDataFiles(t, new, n)
<1>1. IsFiniteSet(K)
  <2> DEFINE op == [g \in v.data_file |-> WithDeletes(g, t)]
  <2>1. \A y \in K : \E x \in v.data_file : y = op[x]
    BY DEF KeptFiles
  <2> HIDE DEF op, K
  <2> QED BY <2>1, ImageIsFinite
<1>2. IsFiniteSet(F)
  <2>1. CASE t.flush = {}
    BY <2>1, FS_EmptySet DEF FlushedFile
  <2>2. CASE t.flush # {}
    BY <2>2, FS_Singleton DEF FlushedFile
  <2> QED BY <2>1, <2>2
<1>3. IsFiniteSet(R)
  <2> DEFINE op == [g \in t.view.data_file |->
                [id |-> id + Rank(t, g), rows |-> LiveIn(g), deleted |-> {},
                 inlined_deleted |-> {}, bounded |-> g.bounded]]
  <2>1. ASSUME NEW y \in R PROVE \E x \in t.view.data_file : y = op[x]
    <3>1. PICK g \in t.view.data_file :
              y = [id |-> id + Rank(t, g), rows |-> LiveIn(g), deleted |-> {},
                   inlined_deleted |-> {}, bounded |-> g.bounded]
      BY RewrittenFilesOf
    <3> QED BY <3>1
  <2> HIDE DEF op, R
  <2> QED BY <2>1, ImageIsFinite
<1>4. IsFiniteSet(N)
  <2> DEFINE op == [i \in DOMAIN t.new_files |->
                [id |-> new + i - 1,
                 rows |-> NewRows(t.new_files[i].values, n + RowsUpTo(t.new_files)[i - 1]),
                 deleted |-> {}, inlined_deleted |-> {}, bounded |-> t.new_files[i].bounded]]
  <2>1. \A y \in N : \E i \in DOMAIN t.new_files : y = op[i]
    BY DEF NewDataFiles
  <2>2. IsFiniteSet(DOMAIN t.new_files)
    <3>1. t.new_files \in Seq([values : Seq(Values), bounded : Bounded])
      BY DEF GoodWork
    <3>2. DOMAIN t.new_files = 1..Len(t.new_files) /\ Len(t.new_files) \in Nat
      BY <3>1
    <3> QED BY <3>2, FS_Interval
  <2> HIDE DEF op, N
  <2> QED BY <2>1, <2>2, ImageIsFinite
<1>5. IsFiniteSet(K \cup F) /\ IsFiniteSet(R \cup N)
  <2> HIDE DEF K, F, R, N
  <2> QED BY <1>1, <1>2, <1>3, <1>4, FS_Union
<1>6. IsFiniteSet((K \cup F) \cup (R \cup N))
  <2> HIDE DEF K, F, R, N
  <2> QED BY <1>5, FS_Union
<1>7. (K \cup F) \cup (R \cup N) = UNION {K, F, R, N}
  <2> HIDE DEF K, F, R, N
  <2> QED OBVIOUS
<1> QED BY <1>6, <1>7

\* The rows of the files and of the inlined table after a commit.
LEMMA CommitKeepsRowsGood ==
    ASSUME NEW v, NEW t, NEW n \in Nat, NEW id \in Nat, NEW k \in Nat, NEW m \in Nat,
           GoodFiles(v.data_file, id, n), GoodInlined(v.inlined, v.data_file, n), GoodWork(t),
           GoodFiles(t.view.data_file, k, m), GoodRows(t.view.inlined, m),
           FindsRows(v, t), NEW moved, moved = IdsOfMovedRows(t), NEW taken, taken = FileIdsTaken(t),
           NEW total, total = n + NewFileRows(t), NEW all, all = total + Len(t.new_inlined),
           NEW files, files = UNION {KeptFiles(v, t), FlushedFile(t, id), Rewritten(t, id),
                                     NewDataFiles(t, id + moved, n)},
           NEW inlined, inlined = KeptInlined(v, t) \cup NewInlined(t, total)
    PROVE  /\ GoodFiles(files, id + taken, all)
           /\ GoodInlined(inlined, files, all)
           /\ all \in Nat /\ n <= all
           /\ all = n \/ t.new_files # <<>> \/ t.new_inlined # <<>>
<1> DEFINE K == KeptFiles(v, t)
           F == FlushedFile(t, id)
           R == Rewritten(t, id)
           N == NewDataFiles(t, id + moved, n)
<1>1. /\ \A f \in UNION {K, F, R, N} :
           DOMAIN f = FileFields /\ f.id \in Nat /\ f.id < id + taken
      /\ \A f \in K \cup F \cup R : \A r \in f.rows : r.rid \in Nat /\ r.rid <= n
      /\ \A f \in N : \A r \in f.rows : r.rid \in Nat /\ r.rid > n /\ r.rid <= total
      /\ \A f, g \in UNION {K, F, R, N} : f # g => Apart(f, g)
  BY FilesOfCommitDiffer, ZenonT(60)
<1>2. IsFiniteSet(files)
  <2>1. IsFiniteSet(v.data_file) /\ IsFiniteSet(t.view.data_file)
    BY DEF GoodFiles
  <2> QED BY <2>1, FilesOfCommitFinite
<1>3. /\ total \in Nat /\ n <= total /\ Len(t.new_inlined) \in Nat /\ all \in Nat /\ total <= all
      /\ all = n \/ t.new_files # <<>> \/ t.new_inlined # <<>>
  <2>1. t.new_files \in Seq([values : Seq(Values), bounded : Bounded]) /\ t.new_inlined \in Seq(Values)
    BY DEF GoodWork
  <2>2. Len(t.new_files) \in Nat /\ Len(t.new_inlined) \in Nat /\ (t.new_inlined = <<>> => Len(t.new_inlined) = 0)
        /\ (t.new_files = <<>> => Len(t.new_files) = 0)
    BY <2>1
  <2>3. NewFileRows(t) \in Nat /\ (Len(t.new_files) = 0 => NewFileRows(t) = 0)
    <3> DEFINE up == RowsUpTo(t.new_files)
    <3>1. up[0] = 0 /\ \A i \in 0..Len(t.new_files) : up[i] \in Nat
      BY <2>1, RowsUpToCounts
    <3>2. NewFileRows(t) = up[Len(t.new_files)]
      BY DEF NewFileRows
    <3> HIDE DEF up
    <3> QED BY <2>2, <3>1, <3>2
  <2> QED BY <2>2, <2>3, SMTT(60)
<1>4. ASSUME NEW f \in F
      PROVE  /\ t.flush = t.view.inlined
             /\ \A r \in f.rows : \E q \in t.flush : r = [rid |-> q.rid, val |-> q.val] /\ r.rid = q.rid
  <2>1. t.flush # {} /\ f.rows = {[rid |-> q.rid, val |-> q.val] : q \in t.flush}
    BY DEF FlushedFile
  <2> QED BY <2>1 DEF GoodWork
<1>5. ASSUME NEW f \in K PROVE \E g \in v.data_file : f.rows = g.rows /\ g.id \notin t.rewrites
  <2>1. \A g \in v.data_file : DOMAIN g = FileFields
    BY DEF GoodFiles
  <2> QED BY <2>1, KeptFilesOf
<1>6. ASSUME NEW f \in R PROVE \E g \in t.view.data_file, h \in v.data_file :
                                   f.rows \subseteq g.rows /\ f.rows \subseteq h.rows
  <2>1. PICK g \in t.view.data_file : g.id \in t.rewrites /\ f.rows \subseteq g.rows
    BY RewrittenFilesOf
  <2>2. PICK h \in v.data_file : h.id = g.id
    BY <2>1 DEF FindsRows
  <2>3. h.rows = g.rows
    BY <2>2 DEF FindsRows
  <2> QED BY <2>1, <2>3
<1> HIDE DEF K, F, R, N
<1>7. ASSUME NEW f \in UNION {K, F, R, N}, NEW r \in f.rows, NEW q \in f.rows, r.rid = q.rid PROVE r = q
  <2>1. CASE f \in K
    <3>1. PICK g \in v.data_file : f.rows = g.rows
      BY <2>1, <1>5
    <3> QED BY <3>1, <1>7 DEF GoodFiles, GoodRows
  <2>2. CASE f \in R
    <3>1. PICK g \in t.view.data_file : f.rows \subseteq g.rows
      BY <2>2, <1>6
    <3> QED BY <3>1, <1>7 DEF GoodFiles, GoodRows
  <2>3. CASE f \in F
    <3>1. PICK a \in t.flush : r = [rid |-> a.rid, val |-> a.val] /\ r.rid = a.rid
      BY <2>3, <1>4
    <3>2. PICK b \in t.flush : q = [rid |-> b.rid, val |-> b.val] /\ q.rid = b.rid
      BY <2>3, <1>4
    <3>3. a = b
      BY <2>3, <3>1, <3>2, <1>4, <1>7 DEF GoodRows
    <3> QED BY <3>1, <3>2, <3>3
  <2>4. CASE f \in N
    <3>1. id + moved \in Nat
      <4>1. IsFiniteSet(t.delete_files) /\ IsFiniteSet(t.view.data_file)
            /\ (\A g \in t.view.data_file : g.id \in Nat)
            /\ \A g, h \in t.view.data_file : g # h => g.id # h.id
        BY DEF GoodWork, GoodFiles
      <4> QED BY <4>1, MovedIds
    <3>2. PICK i \in 1..Len(t.new_files) : NewFileAt(f, t, id + moved, n, RowsUpTo(t.new_files), i)
      BY <2>4, <3>1, NewFilesOf DEF N
    <3> QED BY <3>2, <1>7 DEF NewFileAt, GoodRows
  <2> QED BY <2>1, <2>2, <2>3, <2>4
<1>8. ASSUME NEW f \in files PROVE GoodRows(f.rows, all)
  <2>1. \A r \in f.rows : r.rid \in Nat /\ r.rid <= all
    <3>1. CASE f \in K \cup F \cup R
      BY <3>1, <1>1, <1>3
    <3>2. CASE f \in N
      BY <3>2, <1>1, <1>3
    <3>3. f \in UNION {K, F, R, N}
      BY DEF K, F, R, N
    <3> QED BY <3>1, <3>2, <3>3
  <2> QED BY <2>1, <1>7 DEF GoodRows, K, F, R, N
<1>9. GoodFiles(files, id + taken, all)
  BY <1>1, <1>2, <1>8 DEF GoodFiles, Apart, K, F, R, N
<1> DEFINE A == KeptInlined(v, t)
           B == NewInlined(t, total)
<1>10. ASSUME NEW r \in A
       PROVE  /\ DOMAIN r = InlinedFields /\ r.rid \in Nat /\ r.rid <= n
              /\ \E q \in v.inlined : /\ q.rid = r.rid /\ q.rid \notin Rid(t.flush)
                                      /\ r = [q EXCEPT !.live = @ /\ q.rid \notin t.inlined_deletes]
  <2>1. PICK q \in v.inlined : /\ q.rid \notin Rid(t.flush)
                               /\ r = [q EXCEPT !.live = @ /\ q.rid \notin t.inlined_deletes]
    BY DEF KeptInlined
  <2>2. DOMAIN q = InlinedFields /\ q.rid \in Nat /\ q.rid <= n
    BY DEF GoodInlined, GoodRows
  <2>3. DOMAIN r = InlinedFields /\ r.rid = q.rid
    BY <2>1, <2>2 DEF InlinedFields
  <2> QED BY <2>1, <2>2, <2>3
<1>11. ASSUME NEW r \in B
       PROVE  /\ DOMAIN r = InlinedFields /\ r.rid \in Nat /\ r.rid > total /\ r.rid <= all
              /\ \E q \in NewRows(t.new_inlined, total) :
                   q.rid = r.rid /\ r = [rid |-> q.rid, val |-> q.val, live |-> TRUE]
  <2>1. PICK q \in NewRows(t.new_inlined, total) : r = [rid |-> q.rid, val |-> q.val, live |-> TRUE]
    BY DEF NewInlined
  <2>2. t.new_inlined \in Seq(Values)
    BY DEF GoodWork
  <2>3. q.rid \in Nat /\ q.rid > total /\ q.rid <= all
    BY <2>2, <1>3, NewRowsAreNumbered DEF GoodRows
  <2>4. r.rid = q.rid /\ DOMAIN r = InlinedFields
    BY <2>1 DEF InlinedFields
  <2> QED BY <2>1, <2>3, <2>4
<1> HIDE DEF A, B
<1>12. inlined = A \cup B
  BY DEF A, B
<1>13. GoodRows(inlined, all)
  <2>1. \A r \in inlined : r.rid \in Nat /\ r.rid <= all
    BY <1>3, <1>10, <1>11, <1>12
  <2>2. ASSUME NEW r \in inlined, NEW q \in inlined, r.rid = q.rid PROVE r = q
    <3>1. CASE r \in A /\ q \in A
      <4>1. PICK a \in v.inlined : a.rid = r.rid /\ r = [a EXCEPT !.live = @ /\ a.rid \notin t.inlined_deletes]
        BY <3>1, <1>10
      <4>2. PICK b \in v.inlined : b.rid = q.rid /\ q = [b EXCEPT !.live = @ /\ b.rid \notin t.inlined_deletes]
        BY <3>1, <1>10
      <4>3. a = b
        BY <4>1, <4>2, <2>2 DEF GoodInlined, GoodRows
      <4> QED BY <4>1, <4>2, <4>3
    <3>2. CASE r \in B /\ q \in B
      <4>1. PICK a \in NewRows(t.new_inlined, total) :
               a.rid = r.rid /\ r = [rid |-> a.rid, val |-> a.val, live |-> TRUE]
        BY <3>2, <1>11
      <4>2. PICK b \in NewRows(t.new_inlined, total) :
               b.rid = q.rid /\ q = [rid |-> b.rid, val |-> b.val, live |-> TRUE]
        BY <3>2, <1>11
      <4>3. t.new_inlined \in Seq(Values)
        BY DEF GoodWork
      <4>4. a = b
        BY <4>1, <4>2, <4>3, <2>2, <1>3, NewRowsAreNumbered DEF GoodRows
      <4> QED BY <4>1, <4>2, <4>4
    <3>3. CASE r \in A /\ q \in B
      BY <3>3, <2>2, <1>3, <1>10, <1>11
    <3>4. CASE r \in B /\ q \in A
      BY <3>4, <2>2, <1>3, <1>10, <1>11
    <3> QED BY <3>1, <3>2, <3>3, <3>4, <1>12
  <2> QED BY <2>1, <2>2 DEF GoodRows
<1>14. ASSUME NEW f \in files PROVE Disjoint(f.rows, inlined)
  <2> SUFFICES ASSUME NEW r \in f.rows, NEW q \in inlined PROVE r.rid # q.rid
    BY DisjointMeans
  <2>0. f \in K \cup F \cup R \/ f \in N
    BY DEF K, F, R, N
  <2>1. CASE q \in B
    BY <2>0, <2>1, <1>1, <1>3, <1>11
  <2>2. CASE q \in A /\ f \in N
    BY <2>2, <1>1, <1>3, <1>10
  <2>3. CASE q \in A /\ f \in F
    <3>1. r.rid \in Rid(t.flush)
      BY <2>3, <1>4 DEF Rid
    <3> QED BY <3>1, <2>3, <1>10
  <2>4. CASE q \in A /\ f \in K \cup R
    <3>1. PICK h \in v.data_file : f.rows \subseteq h.rows
      BY <2>4, <1>5, <1>6
    <3>2. PICK p \in v.inlined : p.rid = q.rid
      BY <2>4, <1>10
    <3>3. Disjoint(h.rows, v.inlined)
      BY DEF GoodInlined
    <3> QED BY <3>1, <3>2, <3>3, DisjointMeans
  <2> QED BY <2>0, <2>1, <2>2, <2>3, <2>4, <1>12
<1>15. GoodInlined(inlined, files, all)
  BY <1>10, <1>11, <1>12, <1>13, <1>14 DEF GoodInlined
<1> QED BY <1>3, <1>9, <1>15

----------------------------------------------------------------------------
(* The statistics that a commit writes.                                    *)

\* None is told apart from the statistics of a table.
NoneIsNoStats == DOMAIN None # StatsFields

LEMMA LoadedStats ==
    ASSUME NoneIsNoStats, NEW s, StatsOk(s)
    PROVE  StatsOk(LoadStats(s)) /\ SameStart(LoadStats(s), s)
<1>1. CASE s = None
  BY <1>1 DEF LoadStats, StatsOk, SameStart
<1>2. CASE s # None
  <2>1. DOMAIN s = StatsFields /\ s.next_row_id \in Nat
    BY <1>2 DEF StatsOk
  <2> DEFINE column == IF s.column = None THEN None ELSE FromGlobalStats(s.column, s.record_count > 0)
             l == [s EXCEPT !.column = column]
  <2>2. LoadStats(s) = l
    BY <1>2 DEF LoadStats
  <2> HIDE DEF column
  <2>3. DOMAIN l = StatsFields /\ l.next_row_id = s.next_row_id
    BY <2>1 DEF StatsFields
  <2>4. l # None
    BY <2>3 DEF NoneIsNoStats
  <2> QED BY <1>2, <2>1, <2>2, <2>3, <2>4 DEF StatsOk, SameStart, Start
<1> QED BY <1>1, <1>2

LEMMA SameStartTransitive ==
    ASSUME NEW r, NEW s, NEW u, SameStart(r, s), SameStart(s, u)
    PROVE  SameStart(r, u)
BY DEF SameStart

\* The statistics that some process has cached, or that a snapshot in use has.
Known(n, s) ==
    \/ \E p \in Range(ProcessOf) : n \in DOMAIN cache[p] /\ s = cache[p][n]
    \/ n = db.next_file_id /\ s = db.stats
    \/ \E c \in Clients : txn[c].open /\ n = txn[c].view.next_file_id /\ s = txn[c].view.stats

AllKnown(cached) == \A n \in DOMAIN cached : Known(n, cached[n])

LEMMA KnownStart ==
    ASSUME RowIdInv, NEW n, NEW s, Known(n, s)
    PROVE  /\ n \in Nat /\ n <= db.next_file_id /\ StatsOk(s)
           /\ n = db.next_file_id => SameStart(s, db.stats)
<1>1. CASE \E p \in Range(ProcessOf) : n \in DOMAIN cache[p] /\ s = cache[p][n]
  BY <1>1 DEF RowIdInv, CacheInv
<1>2. CASE n = db.next_file_id /\ s = db.stats
  BY <1>2 DEF RowIdInv, GoodView, SameStart
<1>3. CASE \E c \in Clients : txn[c].open /\ n = txn[c].view.next_file_id /\ s = txn[c].view.stats
  <2>1. PICK c \in Clients : txn[c].open /\ n = txn[c].view.next_file_id /\ s = txn[c].view.stats
    BY <1>3
  <2>2. GoodView(txn[c].view) /\ Follows(txn[c], db)
    BY <2>1 DEF RowIdInv, TxnInv
  <2> QED BY <2>1, <2>2 DEF GoodView, Follows
<1> QED BY <1>1, <1>2, <1>3 DEF Known

LEMMA LookUpIsKnown ==
    ASSUME NEW m, NEW v, AllKnown(m), Known(v.next_file_id, v.stats), NEW r, r = LookUp(m, v)
    PROVE  AllKnown(r) /\ v.next_file_id \in DOMAIN r
<1>1. /\ DOMAIN r = DOMAIN m \cup {v.next_file_id}
      /\ \A n \in DOMAIN r : r[n] = IF n \in DOMAIN m THEN m[n] ELSE v.stats
  BY DEF LookUp
<1>2. ASSUME NEW n \in DOMAIN r PROVE Known(n, r[n])
  <2>1. CASE n \in DOMAIN m
    <3>1. r[n] = m[n]
      BY <1>1, <2>1
    <3> QED BY <2>1, <3>1 DEF AllKnown
  <2>2. CASE n \notin DOMAIN m
    <3>1. r[n] = v.stats /\ n = v.next_file_id
      BY <1>1, <2>2
    <3> QED BY <3>1
  <2> QED BY <2>1, <2>2
<1> QED BY <1>1, <1>2 DEF AllKnown

LEMMA CacheIsKnown ==
    ASSUME NEW p \in Range(ProcessOf)
    PROVE  AllKnown(cache[p])
BY DEF AllKnown, Known

LEMMA HasProcess ==
    ASSUME NEW c \in Clients
    PROVE  ProcessOf[c] \in Range(ProcessOf)
BY StatisticsAssumption DEF Range

LEMMA CachedIsKnown ==
    ASSUME NEW c \in Clients, txn[c].open
    PROVE  AllKnown(LookUp(cache[ProcessOf[c]], txn[c].view))
<1>1. AllKnown(cache[ProcessOf[c]])
  BY HasProcess, CacheIsKnown
<1>2. Known(txn[c].view.next_file_id, txn[c].view.stats)
  BY DEF Known
<1> QED BY <1>1, <1>2, LookUpIsKnown

\* What a process has cached after a step of one of its clients.
CacheStep(c, cached) ==
    /\ AllKnown(cached)
    /\ cache' = [cache EXCEPT ![ProcessOf[c]] = cached]

LEMMA CacheStepIsKnown ==
    ASSUME RowIdInv, NEW c \in Clients, NEW cached, CacheStep(c, cached)
    PROVE  /\ DOMAIN cache' = Range(ProcessOf)
           /\ \A p \in Range(ProcessOf) : \A n \in DOMAIN cache'[p] : Known(n, cache'[p][n])
<1>1. DOMAIN cache = Range(ProcessOf)
  BY DEF RowIdInv
<1>2. DOMAIN cache' = Range(ProcessOf)
  BY <1>1 DEF CacheStep
<1>3. ASSUME NEW p \in Range(ProcessOf), NEW n \in DOMAIN cache'[p] PROVE Known(n, cache'[p][n])
  <2>1. cache'[p] = IF p = ProcessOf[c] THEN cached ELSE cache[p]
    BY <1>1 DEF CacheStep
  <2>2. AllKnown(cached) /\ AllKnown(cache[p])
    BY CacheIsKnown DEF CacheStep
  <2>3. CASE p = ProcessOf[c]
    <3>1. cache'[p] = cached
      BY <2>1, <2>3
    <3> QED BY <2>2, <3>1 DEF AllKnown
  <2>4. CASE p # ProcessOf[c]
    <3>1. cache'[p] = cache[p]
      BY <2>1, <2>4
    <3> QED BY <2>2, <3>1 DEF AllKnown
  <2> QED BY <2>3, <2>4
<1> QED BY <1>2, <1>3

LEMMA CommitCaches ==
    ASSUME RowIdInv, NEW c \in Clients, Commit(c)
    PROVE  \E cached : CacheStep(c, cached)
<1> DEFINE t == txn[c]
           p == ProcessOf[c]
           one == LookUp(cache[p], t.view)
           first == IF ChangesStats(t) \/ t.rewrites # {} THEN one ELSE cache[p]
           two == LookUp(first, db)
           looked == LookedUp(cache[p], t)
           cached == Forget(looked, t, db'.next_file_id)
<1>1. t.open /\ cache' = [cache EXCEPT ![p] = cached]
  <2>1. cache' = [cache EXCEPT ![p] = Forget(LookedUp(@, t), t, db'.next_file_id)]
    BY DEF Commit
  <2>2. p \in DOMAIN cache
    BY HasProcess DEF RowIdInv
  <2> QED BY <2>1, <2>2 DEF Commit
<1>2. AllKnown(cache[p]) /\ AllKnown(one)
  BY <1>1, HasProcess, CacheIsKnown, CachedIsKnown
<1>3. AllKnown(first)
  BY <1>2
<1>4. AllKnown(two)
  <2>1. Known(db.next_file_id, db.stats)
    BY DEF Known
  <2> HIDE DEF first
  <2> QED BY <1>3, <2>1, LookUpIsKnown
<1>5. looked = IF t.rewrites = {} THEN first ELSE two
  BY DEF LookedUp, SnapshotOfAttempt
<1>6. AllKnown(looked)
  <2> HIDE DEF first, two, looked
  <2> QED BY <1>3, <1>4, <1>5
<1>7. AllKnown(cached)
  <2> PICK id : id = db'.next_file_id
    OBVIOUS
  <2> DEFINE left == [n \in DOMAIN looked \ {id} |-> looked[n]]
  <2>1. cached = looked \/ cached = left
    BY DEF Forget
  <2>2. AllKnown(left)
    <3> HIDE DEF looked
    <3> QED BY <1>6 DEF AllKnown
  <2> HIDE DEF cached, looked, left
  <2> QED BY <1>6, <2>1, <2>2
<1> HIDE DEF cached, p
<1>8. CacheStep(c, cached)
  BY <1>1, <1>7 DEF CacheStep, p
<1> QED BY <1>8

LEMMA CachedStart ==
    ASSUME RowIdInv, NEW c \in Clients, NEW s, s = LookUp(cache[ProcessOf[c]], db)[db.next_file_id]
    PROVE  Known(db.next_file_id, s) /\ StatsOk(s) /\ SameStart(s, db.stats)
<1> DEFINE m == LookUp(cache[ProcessOf[c]], db)
<1>1. Known(db.next_file_id, db.stats)
  BY DEF Known
<1>2. AllKnown(cache[ProcessOf[c]])
  BY HasProcess, CacheIsKnown
<1>3. AllKnown(m) /\ db.next_file_id \in DOMAIN m
  BY <1>1, <1>2, LookUpIsKnown
<1>4. s = m[db.next_file_id]
  OBVIOUS
<1> HIDE DEF m
<1>5. Known(db.next_file_id, s)
  BY <1>3, <1>4 DEF AllKnown
<1> QED BY <1>5, KnownStart

\* The statistics that a commit starts from are known ones, loaded.
LEMMA CurrentIsKnown ==
    ASSUME RowIdInv, NEW c \in Clients, NEW t,
           NEW s, s = CurrentStats(c, t) \/ s = GetTableStats(c, db)
    PROVE  \E u : s = LoadStats(u) /\ Known(db.next_file_id, u)
<1> DEFINE u == LookUp(cache[ProcessOf[c]], db)[db.next_file_id]
<1>1. s = LoadStats(u) \/ s = LoadStats(db.stats)
  BY DEF CurrentStats, GetTableStats, SnapshotOfAttempt
<1>2. Known(db.next_file_id, u)
  BY CachedStart
<1>3. Known(db.next_file_id, db.stats)
  BY DEF Known
<1> HIDE DEF u
<1> QED BY <1>1, <1>2, <1>3

LEMMA CurrentStart ==
    ASSUME NoneIsNoStats, RowIdInv, NEW c \in Clients, NEW t,
           NEW s, s = CurrentStats(c, t) \/ s = GetTableStats(c, db)
    PROVE  StatsOk(s) /\ SameStart(s, db.stats)
<1>1. PICK u : s = LoadStats(u) /\ Known(db.next_file_id, u)
  BY CurrentIsKnown
<1>2. StatsOk(u) /\ SameStart(u, db.stats)
  BY <1>1, KnownStart
<1> QED BY <1>1, <1>2, LoadedStats, SameStartTransitive

LEMMA StatsWritten ==
    ASSUME NEW old, NEW initialized, NEW new, DOMAIN new = StatsFields,
           NEW s, s = UpdateGlobalTableStats(old, initialized, new)
    PROVE  DOMAIN s = StatsFields /\ s.next_row_id = new.next_row_id
<1> DEFINE column == IF initialized /\ old.column = None THEN None
                     ELSE IF new.column = None THEN (IF initialized THEN old.column ELSE None)
                     ELSE ConvertNewGlobalStats(new.column)
<1>1. s = [new EXCEPT !.column = column]
  BY DEF UpdateGlobalTableStats
<1> HIDE DEF column
<1> QED BY <1>1 DEF StatsFields

LEMMA StatsMerged ==
    ASSUME NEW t, NEW stats, DOMAIN stats = StatsFields,
           NEW s, s = MergeNewData(t, ApplyDroppedFileStats(t, stats))
    PROVE  /\ DOMAIN s = StatsFields
           /\ s.next_row_id = stats.next_row_id + (NewFileRows(t) + Len(t.new_inlined))
<1> DEFINE a == ApplyDroppedFileStats(t, stats)
<1>1. DOMAIN a = StatsFields /\ a.next_row_id = stats.next_row_id
  <2>1. CASE t.dropped_files = {}
    BY <2>1 DEF ApplyDroppedFileStats
  <2>2. CASE t.dropped_files # {}
    <3> DEFINE column == IF stats.column = None \/ LiveRowsRemain(t, stats) THEN stats.column ELSE EmptyStats(FALSE)
               count == stats.record_count - DroppedRowCount(t)
    <3>1. a = [stats EXCEPT !.record_count = count, !.column = column]
      BY <2>2 DEF ApplyDroppedFileStats
    <3> HIDE DEF column, count, a
    <3> QED BY <3>1 DEF StatsFields
  <2> QED BY <2>1, <2>2
<1> HIDE DEF a
<1>2. s = MergeNewData(t, a)
  BY DEF a
<1> QED BY <1>1, <1>2 DEF MergeNewData, StatsFields

LEMMA RewritesKeepStart ==
    ASSUME NoneIsNoStats, RowIdInv, NEW c \in Clients, NEW t, NEW s, s = RecomputeGlobalStats(c, t)
    PROVE  StatsOk(s) /\ SameStart(s, db.stats)
<1> DEFINE current == GetTableStats(c, db)
<1>1. StatsOk(current) /\ SameStart(current, db.stats)
  BY CurrentStart
<1>2. CASE s = db.stats
  BY <1>2 DEF RowIdInv, GoodView, SameStart
<1>3. CASE s # db.stats
  <2> DEFINE files == {f \in db.data_file : f.id \notin t.rewrites} \cup Rewritten(t, db.next_file_id)
             gross == MapThenSumSet(RowCount, files)
             column == MergeAll(None, {StatsOf(f) : f \in files} \cup InlinedStats(db))
             count == gross + NetInlinedRowCount(db)
             new == [record_count |-> count, next_row_id |-> current.next_row_id,
                     column |-> IF column = None THEN EmptyStats(TRUE) ELSE column]
  <2>1. current # None /\ s = UpdateGlobalTableStats(db.stats, TRUE, new)
    BY <1>3 DEF RecomputeGlobalStats, SnapshotOfAttempt, RowIdAfterRewrite
  <2> HIDE DEF column, gross, count, files, current
  <2>2. DOMAIN new = StatsFields /\ new.next_row_id = current.next_row_id
    BY DEF StatsFields
  <2> HIDE DEF new
  <2>3. DOMAIN s = StatsFields /\ s.next_row_id = current.next_row_id
    <3>1. \E x : s = [new EXCEPT !.column = x]
      BY <2>1 DEF UpdateGlobalTableStats
    <3> QED BY <2>2, <3>1 DEF StatsFields
  <2>4. s # None
    BY <2>3 DEF NoneIsNoStats
  <2> QED BY <1>1, <2>1, <2>3, <2>4 DEF StatsOk, SameStart, Start
<1> QED BY <1>2, <1>3

LEMMA ChangesMoveStart ==
    ASSUME NoneIsNoStats, RowIdInv, NEW c \in Clients, NEW t, NEW s, s = StatsAfterChanges(c, t),
           NEW rows \in Nat, rows = NewFileRows(t) + Len(t.new_inlined)
    PROVE  \/ s = db.stats /\ ~ChangesStats(t)
           \/ StatsOk(s) /\ s # None /\ Start(s) = Start(db.stats) + rows
<1> DEFINE current == CurrentStats(c, t)
           stats == IF current = None THEN NoRows ELSE current
           merged == MergeNewData(t, ApplyDroppedFileStats(t, stats))
           new == UpdateGlobalTableStats(db.stats, current # None, merged)
<1>1. CASE ~ChangesStats(t)
  BY <1>1 DEF StatsAfterChanges
<1>2. CASE ChangesStats(t)
  <2>1. StatsOk(current) /\ SameStart(current, db.stats)
    BY CurrentStart
  <2>2. DOMAIN stats = StatsFields /\ stats.next_row_id = Start(db.stats) /\ stats.next_row_id \in Nat
    <3>1. CASE current = None
      BY <3>1, <2>1 DEF NoRows, StatsFields, SameStart, Start
    <3>2. CASE current # None
      <4> HIDE DEF current
      <4> QED BY <3>2, <2>1 DEF StatsOk, SameStart, Start
    <3> QED BY <3>1, <3>2
  <2>3. s = IF LiveRowsRemain(t, stats) THEN [new EXCEPT !.column = None] ELSE new
    BY <1>2 DEF StatsAfterChanges
  <2> HIDE DEF stats, current
  <2>4. DOMAIN merged = StatsFields /\ merged.next_row_id = stats.next_row_id + rows
    BY <2>2, StatsMerged
  <2> HIDE DEF merged
  <2>5. DOMAIN new = StatsFields /\ new.next_row_id = stats.next_row_id + rows
    BY <2>4, StatsWritten
  <2> HIDE DEF new
  <2>6. DOMAIN s = StatsFields /\ s.next_row_id = stats.next_row_id + rows
    BY <2>3, <2>5 DEF StatsFields
  <2>7. s # None
    BY <2>6 DEF NoneIsNoStats
  <2> QED BY <2>2, <2>6, <2>7 DEF StatsOk, Start
<1> QED BY <1>1, <1>2

----------------------------------------------------------------------------
(* What the conflict rules leave to a commit.                              *)

LEMMA OneTable == \E table \in Tables : Tables = {table}
BY StatisticsAssumption

LEMMA ChangesSayWhat ==
    ASSUME NEW t, NEW table, table \in Tables
    PROVE  /\ t.new_files # <<>> => <<"inserted_into_table", table>> \in Changes(t)
           /\ t.new_inlined # <<>> => <<"inlined_insert", table>> \in Changes(t)
           /\ t.delete_files # {} => <<"deleted_from_table", table>> \in Changes(t)
           /\ t.dropped_files # {} => <<"deleted_from_table", table>> \in Changes(t)
           /\ t.rewrites # {} => <<"rewrite_delete", table>> \in Changes(t)
           /\ t.flush # {} => <<"inline_flush", table>> \in Changes(t)
           /\ t.file_deletes # {} => <<"inlined_delete", table>> \in Changes(t)
           /\ t.inlined_deletes # {} => <<"inlined_delete", table>> \in Changes(t)
           /\ Changes(t) \in RecordedChanges
           /\ Published(t).changes = Changes(t)
<1> DEFINE kinds == {k \in RecordedKinds :
            \/ k = "inserted_into_table" /\ t.new_files # <<>>
            \/ k = "inlined_insert" /\ t.new_inlined # <<>>
            \/ k = "deleted_from_table" /\ (t.delete_files # {} \/ t.dropped_files # {})
            \/ k = "inlined_delete" /\ (t.file_deletes # {} \/ t.inlined_deletes # {})
            \/ k = "rewrite_delete" /\ t.rewrites # {}
            \/ k = "inline_flush" /\ t.flush # {}}
<1>1. Changes(t) = kinds \X Tables
  BY DEF Changes
<1>2. kinds \subseteq RecordedKinds
  OBVIOUS
<1>3. /\ t.new_files # <<>> => "inserted_into_table" \in kinds
      /\ t.new_inlined # <<>> => "inlined_insert" \in kinds
      /\ t.delete_files # {} => "deleted_from_table" \in kinds
      /\ t.dropped_files # {} => "deleted_from_table" \in kinds
      /\ t.rewrites # {} => "rewrite_delete" \in kinds
      /\ t.flush # {} => "inline_flush" \in kinds
      /\ t.file_deletes # {} => "inlined_delete" \in kinds
      /\ t.inlined_deletes # {} => "inlined_delete" \in kinds
  BY DEF RecordedKinds
<1> HIDE DEF kinds
<1>4. Changes(t) \in RecordedChanges
  BY <1>1, <1>2 DEF RecordedChanges
<1>5. Published(t).changes = Changes(t)
  BY <1>4 DEF Published, WriteSnapshotChanges, RecordedChanges
<1> QED BY <1>1, <1>3, <1>4, <1>5

\* A change is in conflict with those that the rules name.
LEMMA NoConflictNoneDid ==
    ASSUME NEW t, GoodWork(t), ~Conflicts(t), NEW table, Tables = {table},
           NEW kind, <<kind, table>> \in Changes(t),
           NEW kinds, \A k \in kinds : <<kind, k>> \in Rules
    PROVE  NoneDid(t, kinds)
<1> SUFFICES ASSUME NEW other \in t.others, NEW x \in other.changes, x[1] \in kinds PROVE FALSE
  BY DEF NoneDid
<1>1. x \in RecordedKinds \X Tables
  BY DEF GoodWork, RecordedChanges
<1>2. x[2] = table
  BY <1>1
<1>3. <<kind, x[1]>> \in Rules
  OBVIOUS
<1>4. ConflictCheck(Changes(t), other.changes)
  BY <1>2, <1>3 DEF ConflictCheck
<1> QED BY <1>4 DEF Conflicts

LEMMA NoMixing ==
    ASSUME NEW t, ~MixesCompaction(Changes(t)), t.rewrites # {}
    PROVE  /\ t.new_files = <<>> /\ t.new_inlined = <<>> /\ t.flush = {}
           /\ t.delete_files = {} /\ t.dropped_files = {}
           /\ t.file_deletes = {} /\ t.inlined_deletes = {}
<1>1. PICK table \in Tables : Tables = {table}
  BY OneTable
<1>2. /\ <<"rewrite_delete", table>> \in Changes(t)
      /\ t.new_files # <<>> => <<"inserted_into_table", table>> \in Changes(t)
      /\ t.new_inlined # <<>> => <<"inlined_insert", table>> \in Changes(t)
      /\ t.delete_files # {} => <<"deleted_from_table", table>> \in Changes(t)
      /\ t.dropped_files # {} => <<"deleted_from_table", table>> \in Changes(t)
      /\ t.flush # {} => <<"inline_flush", table>> \in Changes(t)
      /\ t.file_deletes # {} => <<"inlined_delete", table>> \in Changes(t)
      /\ t.inlined_deletes # {} => <<"inlined_delete", table>> \in Changes(t)
  BY ChangesSayWhat
<1>3. \A x \in Changes(t) : x[1] = "rewrite_delete" \/ x[1] = "merge_adjacent"
  <2> SUFFICES ASSUME NEW x \in Changes(t), x[1] \notin {"merge_adjacent", "rewrite_delete"} PROVE FALSE
    OBVIOUS
  <2>1. <<"rewrite_delete", table>> \in WriteSnapshotChanges(Changes(t))
    BY <1>2 DEF WriteSnapshotChanges, RecordedKinds
  <2>2. Changes(t) \in RecordedChanges
    BY ChangesSayWhat
  <2>3. x \in WriteSnapshotChanges(Changes(t))
    BY <2>2 DEF WriteSnapshotChanges, RecordedChanges
  <2> QED BY <2>1, <2>3 DEF MixesCompaction
<1> QED BY <1>2, <1>3

LEMMA CommitFindsRows ==
    ASSUME NEW t, GoodWork(t), NEW v, Follows(t, v), ~MixesCompaction(Changes(t)), ~Conflicts(t)
    PROVE  FindsRows(v, t)
<1>1. PICK table \in Tables : Tables = {table}
  BY OneTable
<1>2. t.rewrites # {} => NoneDid(t, {"deleted_from_table", "rewrite_delete"})
  <2> HAVE t.rewrites # {}
  <2>1. <<"rewrite_delete", table>> \in Changes(t)
    BY ChangesSayWhat
  <2>2. \A k \in {"deleted_from_table", "rewrite_delete"} : <<"rewrite_delete", k>> \in Rules
    BY DEF Rules, CompactionRules
  <2> QED BY <1>1, <2>1, <2>2, NoConflictNoneDid
<1>3. t.flush # {} => NoneDid(t, {"inline_flush"})
  <2> HAVE t.flush # {}
  <2>1. <<"inline_flush", table>> \in Changes(t)
    BY ChangesSayWhat
  <2>2. \A k \in {"inline_flush"} : <<"inline_flush", k>> \in Rules
    BY DEF Rules, FlushRules
  <2> QED BY <1>1, <2>1, <2>2, NoConflictNoneDid
<1>4. t.rewrites = {} \/ t.flush = {}
  BY NoMixing
<1>5. t.flush # {} => t.flush = t.view.inlined
  BY DEF GoodWork
<1> QED BY <1>2, <1>3, <1>4, <1>5 DEF FindsRows, Follows

----------------------------------------------------------------------------
(* A commit.                                                               *)

\* The transaction that commits.
Committing(c, t) ==
    /\ GoodWork(t) /\ GoodView(t.view) /\ Follows(t, db)
    /\ ~MixesCompaction(Changes(t)) /\ ~Conflicts(t)

LEMMA NewRowCount ==
    ASSUME NEW t, GoodWork(t), NEW count, count = NewFileRows(t), NEW len, len = Len(t.new_inlined)
    PROVE  /\ count \in Nat /\ len \in Nat
           /\ t.new_files = <<>> => count = 0
           /\ t.new_inlined = <<>> => len = 0
<1> DEFINE files == t.new_files
           up == RowsUpTo(files)
           last == Len(files)
<1>1. files \in Seq([values : Seq(Values), bounded : Bounded]) /\ t.new_inlined \in Seq(Values)
  BY DEF GoodWork
<1>2. last \in Nat /\ last \in 0..last
  BY <1>1
<1>3. up[0] = 0 /\ \A i \in 0..last : up[i] \in Nat
  <2> HIDE DEF files
  <2> QED BY <1>1, RowsUpToCounts
<1>4. count = up[last]
  BY DEF NewFileRows
<1>5. files = <<>> => last = 0
  OBVIOUS
<1>6. len \in Nat /\ (t.new_inlined = <<>> => len = 0)
  BY <1>1
<1> HIDE DEF files, up, last
<1>7. count \in Nat /\ (files = <<>> => count = 0)
  BY <1>2, <1>3, <1>4, <1>5
<1> QED BY <1>6, <1>7 DEF files

LEMMA CommitMovesStart ==
    ASSUME NoneIsNoStats, RowIdInv, NEW c \in Clients, NEW t, Committing(c, t),
           NEW s, s = CommitTo(c, t).stats,
           NEW rows, rows = NewFileRows(t) + Len(t.new_inlined)
    PROVE  /\ StatsOk(s) /\ Start(s) = Start(db.stats) + rows
           /\ db.stats # None => s # None
           /\ FileIdsTaken(t) = 0 => SameStart(db.stats, s)
           /\ s = None => db.stats = None /\ t.new_files = <<>> /\ t.new_inlined = <<>> /\ t.flush = {}
<1>1. /\ rows \in Nat
      /\ t.new_files = <<>> /\ t.new_inlined = <<>> => rows = 0
  <2> DEFINE count == NewFileRows(t)
             len == Len(t.new_inlined)
  <2>1. GoodWork(t)
    BY DEF Committing
  <2>2. /\ count \in Nat /\ len \in Nat
        /\ t.new_files = <<>> => count = 0
        /\ t.new_inlined = <<>> => len = 0
    BY <2>1, NewRowCount
  <2>3. rows = count + len
    OBVIOUS
  <2> HIDE DEF count, len
  <2> QED BY <2>2, <2>3
<1>2. StatsOk(db.stats) /\ Start(db.stats) \in Nat
  BY DEF RowIdInv, GoodView, StatsOk, Start
<1>3. CASE t.rewrites # {}
  <2>1. s = RecomputeGlobalStats(c, t)
    BY <1>3 DEF CommitTo
  <2>2. StatsOk(s) /\ SameStart(s, db.stats)
    BY <2>1, RewritesKeepStart
  <2>3. t.new_files = <<>> /\ t.new_inlined = <<>> /\ t.flush = {}
    BY <1>3, NoMixing DEF Committing
  <2> QED BY <1>1, <1>2, <2>2, <2>3 DEF SameStart
<1>4. CASE t.rewrites = {}
  <2>1. s = StatsAfterChanges(c, t)
    BY <1>4 DEF CommitTo
  <2>2. \/ s = db.stats /\ ~ChangesStats(t)
        \/ StatsOk(s) /\ s # None /\ Start(s) = Start(db.stats) + rows
    BY <1>1, <2>1, ChangesMoveStart
  <2>3. CASE s = db.stats /\ ~ChangesStats(t)
    BY <1>1, <1>2, <2>3 DEF SameStart, ChangesStats
  <2>4. CASE StatsOk(s) /\ s # None /\ Start(s) = Start(db.stats) + rows
    <3> SUFFICES ASSUME FileIdsTaken(t) = 0 PROVE SameStart(db.stats, s)
      BY <2>4
    <3>1. GoodWork(t) /\ GoodView(t.view) /\ Follows(t, db)
      BY DEF Committing
    <3>2. /\ t.new_files = <<>> /\ t.new_inlined = <<>>
          /\ t.flush = {}
      <4>1. /\ IsFiniteSet(t.view.data_file) /\ IsFiniteSet(t.delete_files)
            /\ \A f \in t.view.data_file : f.id \in Nat
            /\ \A f, g \in t.view.data_file : f # g => f.id # g.id
        BY <3>1 DEF GoodWork, GoodView, GoodFiles
      <4> DEFINE moved == IdsOfMovedRows(t)
                 last == Len(t.new_files)
      <4>2. /\ moved \in Nat
            /\ FileIdsTaken(t) >= moved + last
            /\ t.new_files = <<>> /\ t.new_inlined = <<>>
            /\ t.flush # {} => moved >= 1
        BY <3>1, <4>1, MovedIds
      <4>3. last = 0
        BY <4>2
      <4> HIDE DEF moved, last
      <4> QED BY <4>2, <4>3
    <3>3. rows = 0
      BY <1>1, <3>2
    <3>4. CASE t.dropped_files # {}
      <4>1. t.view.data_file # {}
        BY <3>1, <3>4 DEF GoodWork
      <4>2. t.view.stats # None
        BY <3>1, <4>1 DEF GoodView
      <4>3. db.stats # None
        BY <3>1, <4>2 DEF Follows
      <4> QED BY <1>2, <2>4, <3>3, <4>3 DEF SameStart
    <3>5. CASE t.dropped_files = {}
      <4>1. s = db.stats
        BY <2>1, <3>2, <3>5 DEF StatsAfterChanges, ChangesStats
      <4> QED BY <4>1 DEF SameStart
    <3> QED BY <3>4, <3>5
  <2> QED BY <2>2, <2>3, <2>4
<1> QED BY <1>3, <1>4

FilesOf(v, t, n) ==
    UNION {KeptFiles(v, t), FlushedFile(t, v.next_file_id), Rewritten(t, v.next_file_id),
           NewDataFiles(t, v.next_file_id + IdsOfMovedRows(t), n)}

InlinedOf(v, t, n) == KeptInlined(v, t) \cup NewInlined(t, n + NewFileRows(t))

LEMMA CommittedParts ==
    ASSUME NoneIsNoStats, RowIdInv, NEW c \in Clients, NEW t,
           NEW now, now = CommitTo(c, t), NEW n, n = Start(db.stats)
    PROVE  /\ now.snapshot = db.snapshot + 1
           /\ now.next_file_id = db.next_file_id + FileIdsTaken(t)
           /\ now.data_file = FilesOf(db, t, n)
           /\ now.inlined = InlinedOf(db, t, n)
<1> DEFINE current == CurrentStats(c, t)
<1>1. SameStart(current, db.stats)
  BY CurrentStart
<1>2. n = IF current = None THEN 0 ELSE current.next_row_id
  <2> HIDE DEF current
  <2> QED BY <1>1 DEF SameStart, Start
<1> DEFINE stats == IF t.rewrites # {} THEN RecomputeGlobalStats(c, t) ELSE StatsAfterChanges(c, t)
           taken == FileIdsTaken(t)
           files == FilesOf(db, t, n)
           inlined == InlinedOf(db, t, n)
<1>3. now = [snapshot |-> db.snapshot + 1, next_file_id |-> db.next_file_id + taken,
             data_file |-> files, inlined |-> inlined, stats |-> stats]
  BY <1>2 DEF CommitTo, FilesOf, InlinedOf
<1> HIDE DEF stats, taken, files, inlined
<1>4. /\ now.snapshot = db.snapshot + 1 /\ now.next_file_id = db.next_file_id + taken
      /\ now.data_file = files /\ now.inlined = inlined
  BY <1>3
<1> QED BY <1>4 DEF taken, files, inlined

LEMMA NothingOfNothing ==
    ASSUME NEW v, NEW t, NEW n, FindsRows(v, t), v.data_file = {}, v.inlined = {},
           t.new_files = <<>>, t.new_inlined = <<>>, t.flush = {}
    PROVE  FilesOf(v, t, n) = {} /\ InlinedOf(v, t, n) = {}
<1>1. KeptFiles(v, t) = {} /\ KeptInlined(v, t) = {}
  BY DEF KeptFiles, KeptInlined
<1>2. \A id : FlushedFile(t, id) = {}
  BY DEF FlushedFile
<1>3. \A id, m : NewDataFiles(t, id, m) = {}
  BY DEF NewDataFiles
<1>4. \A m : NewInlined(t, m) = {}
  BY DEF NewInlined, NewRows
<1>5. RewrittenFiles(t) = {}
  <2>1. t.rewrites # {} => t.view.data_file = {}
    BY DEF FindsRows
  <2> QED BY <2>1 DEF RewrittenFiles, FilesById
<1>6. \A id : Rewritten(t, id) = {}
  BY <1>5 DEF Rewritten
<1> QED BY <1>1, <1>2, <1>3, <1>4, <1>6 DEF FilesOf, InlinedOf

LEMMA CommitKeepsView ==
    ASSUME NoneIsNoStats, RowIdInv, NEW c \in Clients, NEW t, Committing(c, t),
           NEW now, now = CommitTo(c, t)
    PROVE  GoodView(now)
<1> DEFINE n == Start(db.stats)
           id == db.next_file_id
           moved == IdsOfMovedRows(t)
           taken == FileIdsTaken(t)
           count == NewFileRows(t)
           len == Len(t.new_inlined)
           total == n + count
           all == total + len
           files == FilesOf(db, t, n)
           inlined == InlinedOf(db, t, n)
           rows == count + len
           m == Start(t.view.stats)
           k == t.view.next_file_id
<1>1. GoodWork(t) /\ GoodView(t.view) /\ FindsRows(db, t)
  BY CommitFindsRows DEF Committing
<1>2. /\ n \in Nat /\ id \in Nat /\ db.snapshot \in Nat
      /\ GoodFiles(db.data_file, id, n) /\ GoodInlined(db.inlined, db.data_file, n)
      /\ db.stats = None => db.data_file = {} /\ db.inlined = {}
  BY DEF RowIdInv, GoodView, StatsOk, Start
<1>3. /\ m \in Nat /\ k \in Nat
      /\ GoodFiles(t.view.data_file, k, m) /\ GoodRows(t.view.inlined, m)
  BY <1>1 DEF GoodView, GoodInlined, StatsOk, Start
<1>4. /\ now.snapshot = db.snapshot + 1 /\ now.next_file_id = id + taken
      /\ now.data_file = files /\ now.inlined = inlined
  BY CommittedParts
<1>5. /\ files = UNION {KeptFiles(db, t), FlushedFile(t, id), Rewritten(t, id), NewDataFiles(t, id + moved, n)}
      /\ inlined = KeptInlined(db, t) \cup NewInlined(t, total)
  BY DEF FilesOf, InlinedOf
<1>6. /\ StatsOk(now.stats) /\ Start(now.stats) = n + rows
      /\ now.stats = None => db.stats = None /\ t.new_files = <<>> /\ t.new_inlined = <<>> /\ t.flush = {}
  BY CommitMovesStart
<1>7. count \in Nat /\ len \in Nat
  BY <1>1, NewRowCount
<1>8. taken \in Nat
  BY <1>1, MovedIds DEF GoodWork, GoodView, GoodFiles
<1>9. now.stats = None => files = {} /\ inlined = {}
  <2> HAVE now.stats = None
  <2>1. db.data_file = {} /\ db.inlined = {}
    BY <1>2, <1>6
  <2> QED BY <1>1, <1>6, <2>1, NothingOfNothing
<1> HIDE DEF n, id, moved, taken, count, files, inlined, m, k, len
<1>10. /\ GoodFiles(files, id + taken, all)
       /\ GoodInlined(inlined, files, all)
  BY <1>1, <1>2, <1>3, <1>5, CommitKeepsRowsGood DEF moved, taken, count, len
<1>11. n + rows = all
  BY <1>2, <1>7
<1>12. now.snapshot \in Nat /\ now.next_file_id \in Nat
  BY <1>2, <1>4, <1>8
<1> HIDE DEF all, rows
<1> QED BY <1>4, <1>6, <1>9, <1>10, <1>11, <1>12 DEF GoodView

LEMMA OldFilesAreKept ==
    ASSUME NEW v, NEW t, NEW n, NEW id \in Nat, GoodFiles(v.data_file, id, n), v.next_file_id = id,
           GoodWork(t), GoodView(t.view), n \in Nat,
           NEW f \in FilesOf(v, t, n), f.id < id
    PROVE  \E g \in v.data_file : g.id = f.id /\ g.rows = f.rows
<1>1. CASE f \in KeptFiles(v, t)
  BY <1>1, KeptFilesOf DEF GoodFiles
<1>2. ASSUME f \in FlushedFile(t, id) PROVE FALSE
  BY <1>2 DEF FlushedFile
<1>3. ASSUME f \in Rewritten(t, id) PROVE FALSE
  <2>1. PICK g \in RewrittenFiles(t) : f.id = id + Rank(t, g)
    BY <1>3, RewrittenFilesOf
  <2>2. Rank(t, g) \in Nat
    BY RanksDiffer DEF GoodView, GoodFiles
  <2> QED BY <2>1, <2>2
<1>4. ASSUME f \in NewDataFiles(t, id + IdsOfMovedRows(t), n) PROVE FALSE
  <2> DEFINE moved == IdsOfMovedRows(t)
             from == id + moved
             up == RowsUpTo(t.new_files)
             last == Len(t.new_files)
  <2>1. moved \in Nat
    BY MovedIds DEF GoodWork, GoodView, GoodFiles
  <2>2. last \in Nat
    BY DEF GoodWork
  <2> HIDE DEF moved, last
  <2>3. from \in Nat /\ from >= id
    BY <2>1
  <2>4. f \in NewDataFiles(t, from, n)
    BY <1>4 DEF moved
  <2> HIDE DEF from, up
  <2>5. \E i \in 1..Len(t.new_files) : NewFileAt(f, t, from, n, up, i)
    BY <2>3, <2>4, NewFilesOf DEF up
  <2>6. PICK i \in 1..last : f.id = (from + i) - 1
    BY <2>5 DEF NewFileAt, last
  <2> QED BY <2>2, <2>3, <2>6
<1> QED BY <1>1, <1>2, <1>3, <1>4 DEF FilesOf

HasId(files, id) == \E f \in files : f.id = id

LEMMA FilesStay ==
    ASSUME NEW v, NEW t, NEW n, NEW id, GoodFiles(v.data_file, id, n),
           t.delete_files = {}, t.dropped_files = {}, t.rewrites = {}, NEW g \in v.data_file
    PROVE  HasId(FilesOf(v, t, n), g.id)
<1> DEFINE f == WithDeletes(g, t)
<1>1. f \in KeptFiles(v, t)
  BY DEF KeptFiles
<1>2. DOMAIN g = FileFields
  BY DEF GoodFiles
<1>3. f.id = g.id
  BY <1>2 DEF WithDeletes, FileFields
<1> QED BY <1>1, <1>3 DEF FilesOf, HasId

LEMMA InlinedRowsStay ==
    ASSUME NEW v, NEW t, NEW n, NEW m, GoodInlined(v.inlined, v.data_file, m), t.flush = {}
    PROVE  Rid(v.inlined) \subseteq Rid(InlinedOf(v, t, n))
<1> SUFFICES ASSUME NEW r \in v.inlined PROVE \E q \in KeptInlined(v, t) : q.rid = r.rid
  BY DEF Rid, InlinedOf
<1> DEFINE live == r.live /\ r.rid \notin t.inlined_deletes
           q == [r EXCEPT !.live = live]
<1>1. r.rid \notin Rid(t.flush)
  BY DEF Rid
<1>2. q \in KeptInlined(v, t)
  BY <1>1 DEF KeptInlined
<1> HIDE DEF live
<1>3. DOMAIN r = InlinedFields
  BY DEF GoodInlined
<1>4. q.rid = r.rid
  BY <1>3 DEF InlinedFields
<1> QED BY <1>2, <1>4

LEMMA CommitIsFollowed ==
    ASSUME NoneIsNoStats, RowIdInv, NEW c \in Clients, NEW t, Committing(c, t),
           NEW now, now = CommitTo(c, t),
           NEW u, GoodWork(u), GoodView(u.view), Follows(u, db),
           NEW w, w = [u EXCEPT !.others = @ \cup {Published(t)}]
    PROVE  GoodWork(w) /\ w.view = u.view /\ Follows(w, now)
<1>1. DOMAIN u = TxnFields
  BY DEF GoodWork
<1>2. /\ DOMAIN w = TxnFields /\ w.others = u.others \cup {Published(t)} /\ w.view = u.view
      /\ w.new_files = u.new_files /\ w.new_inlined = u.new_inlined /\ w.delete_files = u.delete_files
      /\ w.flush = u.flush /\ w.dropped_files = u.dropped_files
  BY <1>1 DEF TxnFields, NoTransaction
<1>3. PICK table \in Tables : Tables = {table}
  BY OneTable
<1>4. /\ t.delete_files # {} => <<"deleted_from_table", table>> \in Changes(t)
      /\ t.dropped_files # {} => <<"deleted_from_table", table>> \in Changes(t)
      /\ t.rewrites # {} => <<"rewrite_delete", table>> \in Changes(t)
      /\ t.flush # {} => <<"inline_flush", table>> \in Changes(t)
      /\ Changes(t) \in RecordedChanges
      /\ Published(t).changes = Changes(t)
  BY ChangesSayWhat
<1>5. GoodWork(w)
  BY <1>2, <1>4 DEF GoodWork
<1> DEFINE n == Start(db.stats)
           id == db.next_file_id
           taken == FileIdsTaken(t)
<1>6. /\ n \in Nat /\ id \in Nat
      /\ GoodFiles(db.data_file, id, n) /\ GoodInlined(db.inlined, db.data_file, n)
  BY DEF RowIdInv, GoodView, StatsOk, Start
<1>7. /\ now.next_file_id = id + taken
      /\ now.data_file = FilesOf(db, t, n) /\ now.inlined = InlinedOf(db, t, n)
  BY CommittedParts
<1>8. GoodWork(t) /\ GoodView(t.view)
  BY DEF Committing
<1>9. taken \in Nat
  BY <1>8, MovedIds DEF GoodWork, GoodView, GoodFiles
<1>10. /\ db.stats # None => now.stats # None
       /\ taken = 0 => SameStart(db.stats, now.stats)
  BY CommitMovesStart
<1>11. /\ u.view.next_file_id <= id /\ u.view.next_file_id \in Nat
       /\ u.view.next_file_id = id => SameStart(u.view.stats, db.stats)
       /\ u.view.stats # None => db.stats # None
  BY DEF Follows, GoodView
<1> HIDE DEF n, id, taken
<1>12. u.view.next_file_id <= now.next_file_id
  BY <1>6, <1>7, <1>9, <1>11
<1>13. u.view.next_file_id = now.next_file_id => SameStart(u.view.stats, now.stats)
  <2> HAVE u.view.next_file_id = now.next_file_id
  <2>1. taken = 0 /\ u.view.next_file_id = id
    BY <1>6, <1>7, <1>9, <1>11
  <2> QED BY <2>1, <1>10, <1>11, SameStartTransitive
<1>14. ASSUME NEW f \in u.view.data_file, NEW g \in now.data_file, f.id = g.id PROVE f.rows = g.rows
  <2>1. f.id < u.view.next_file_id /\ f.id \in Nat
    BY DEF GoodView, GoodFiles
  <2>2. g.id < id
    BY <1>14, <2>1, <1>6, <1>11
  <2>3. PICK h \in db.data_file : h.id = g.id /\ h.rows = g.rows
    BY <1>6, <1>7, <1>8, <2>2, OldFilesAreKept DEF id
  <2> QED BY <1>14, <2>3 DEF Follows
<1>15. ASSUME NoneDid(w, {"deleted_from_table", "rewrite_delete"}), NEW f \in u.view.data_file
       PROVE  \E g \in now.data_file : g.id = f.id
  <2>1. NoneDid(u, {"deleted_from_table", "rewrite_delete"})
    BY <1>2, <1>15 DEF NoneDid
  <2>2. PICK h \in db.data_file : h.id = f.id
    BY <2>1 DEF Follows
  <2>3. /\ <<"deleted_from_table", table>> \notin Changes(t)
        /\ <<"rewrite_delete", table>> \notin Changes(t)
    BY <1>2, <1>4, <1>15 DEF NoneDid
  <2>4. t.delete_files = {} /\ t.dropped_files = {} /\ t.rewrites = {}
    BY <1>4, <2>3
  <2>5. HasId(FilesOf(db, t, n), h.id)
    BY <1>6, <2>4, FilesStay
  <2> QED BY <1>7, <2>2, <2>5 DEF HasId
<1>16. ASSUME NoneDid(w, {"inline_flush"}) PROVE Rid(u.view.inlined) \subseteq Rid(now.inlined)
  <2>1. NoneDid(u, {"inline_flush"})
    BY <1>2, <1>16 DEF NoneDid
  <2>2. Rid(u.view.inlined) \subseteq Rid(db.inlined)
    BY <2>1 DEF Follows
  <2>3. <<"inline_flush", table>> \notin Changes(t)
    BY <1>2, <1>4, <1>16 DEF NoneDid
  <2> QED BY <1>4, <1>6, <1>7, <2>2, <2>3, InlinedRowsStay
<1>17. Follows(w, now)
  BY <1>2, <1>10, <1>11, <1>12, <1>13, <1>14, <1>15, <1>16 DEF Follows
<1> QED BY <1>2, <1>5, <1>17

LEMMA NothingOpen == GoodWork(NoTransaction) /\ ~NoTransaction.open
<1>1. /\ DOMAIN NoTransaction = TxnFields
      /\ NoTransaction.new_files = <<>> /\ NoTransaction.new_inlined = <<>>
      /\ NoTransaction.delete_files = {} /\ NoTransaction.flush = {}
      /\ NoTransaction.dropped_files = {} /\ NoTransaction.others = {}
  BY DEF NoTransaction, TxnFields
<1>2. <<>> \in Seq([values : Seq(Values), bounded : Bounded]) /\ <<>> \in Seq(Values)
  OBVIOUS
<1>3. GoodWork(NoTransaction)
  BY <1>1, <1>2, FS_EmptySet DEF GoodWork
<1>4. ~NoTransaction.open
  BY DEF NoTransaction
<1> QED BY <1>3, <1>4

LEMMA CommitKeepsInv ==
    ASSUME NoneIsNoStats, RowIdInv, NEW c \in Clients, Commit(c)
    PROVE  RowIdInv'
<1> DEFINE t == txn[c]
           now == CommitTo(c, t)
<1>1. /\ t.open /\ ~MixesCompaction(Changes(t)) /\ ~Conflicts(t)
      /\ db' = now
      /\ txn' = [d \in Clients |->
                   IF d = c THEN NoTransaction
                   ELSE IF txn[d].open THEN [txn[d] EXCEPT !.others = @ \cup {Published(t)}]
                   ELSE txn[d]]
  BY DEF Commit
<1>2. Committing(c, t)
  BY <1>1 DEF RowIdInv, TxnInv, Committing
<1> HIDE DEF t
<1>3. GoodView(now)
  BY <1>2, CommitKeepsView
<1> DEFINE id == db.next_file_id
           taken == FileIdsTaken(t)
<1>4. now.next_file_id = id + taken
  BY CommittedParts
<1>5. taken \in Nat
  BY <1>2, MovedIds DEF Committing, GoodWork, GoodView, GoodFiles
<1>6. taken = 0 => SameStart(db.stats, now.stats)
  BY <1>2, CommitMovesStart
<1>7. id \in Nat
  BY DEF RowIdInv, GoodView
<1>8. ASSUME NEW d \in Clients
      PROVE  /\ GoodWork(txn'[d])
             /\ txn'[d].open => GoodView(txn'[d].view) /\ Follows(txn'[d], now)
  <2>1. GoodWork(txn[d]) /\ (txn[d].open => GoodView(txn[d].view) /\ Follows(txn[d], db))
    BY DEF RowIdInv, TxnInv
  <2>2. CASE d = c
    <3>1. txn'[d] = NoTransaction
      BY <1>1, <2>2
    <3> QED BY <3>1, NothingOpen
  <2>3. CASE d # c /\ txn[d].open
    <3> DEFINE u == txn[d]
               w == [u EXCEPT !.others = @ \cup {Published(t)}]
    <3>1. txn'[d] = w
      BY <1>1, <2>3
    <3>2. GoodWork(u) /\ GoodView(u.view) /\ Follows(u, db)
      BY <2>1, <2>3
    <3> HIDE DEF u
    <3>3. GoodWork(w) /\ w.view = u.view /\ Follows(w, now)
      BY <1>2, <3>2, CommitIsFollowed
    <3> QED BY <3>1, <3>2, <3>3
  <2>4. CASE d # c /\ ~txn[d].open
    <3>1. txn'[d] = txn[d]
      BY <1>1, <2>4
    <3> QED BY <2>1, <2>4, <3>1
  <2> QED BY <2>2, <2>3, <2>4
<1>9. /\ DOMAIN cache' = Range(ProcessOf)
      /\ \A p \in Range(ProcessOf) : \A n \in DOMAIN cache'[p] : Known(n, cache'[p][n])
  BY CommitCaches, CacheStepIsKnown
<1> HIDE DEF id, taken, now
<1>10. ASSUME NEW p \in Range(ProcessOf), NEW n \in DOMAIN cache'[p]
       PROVE  /\ n \in Nat /\ n <= now.next_file_id
              /\ StatsOk(cache'[p][n])
              /\ n = now.next_file_id => SameStart(cache'[p][n], now.stats)
  <2> PICK s : s = cache'[p][n]
    OBVIOUS
  <2>1. Known(n, s)
    BY <1>9
  <2>2. /\ n \in Nat /\ n <= id /\ StatsOk(s)
        /\ n = id => SameStart(s, db.stats)
    BY <2>1, KnownStart DEF id
  <2>3. n <= now.next_file_id
    BY <2>2, <1>4, <1>5, <1>7
  <2>4. n = now.next_file_id => SameStart(s, now.stats)
    <3> HAVE n = now.next_file_id
    <3>1. n = id /\ taken = 0
      BY <1>4, <1>5, <1>7, <2>2
    <3> QED BY <1>6, <2>2, <3>1, SameStartTransitive
  <2> QED BY <2>2, <2>3, <2>4
<1>11. DOMAIN txn' = Clients /\ DOMAIN cache' = Range(ProcessOf)
  BY <1>1, <1>9 DEF RowIdInv
<1>12. TxnInv' /\ CacheInv'
  <2>1. \A d \in Clients : GoodWork(txn'[d]) /\ (txn'[d].open => GoodView(txn'[d].view) /\ Follows(txn'[d], db'))
    BY <1>1, <1>8
  <2>2. \A p \in Range(ProcessOf) : \A n \in DOMAIN cache'[p] :
        /\ n \in Nat /\ n <= db'.next_file_id
        /\ StatsOk(cache'[p][n])
        /\ n = db'.next_file_id => SameStart(cache'[p][n], db'.stats)
    BY <1>1, <1>10
  <2> QED BY <2>1, <2>2 DEF TxnInv, CacheInv
<1> QED BY <1>1, <1>3, <1>11, <1>12 DEF RowIdInv

----------------------------------------------------------------------------
(* Statements.                                                             *)

LEMMA StatementKeeps ==
    ASSUME RowIdInv, NEW c \in Clients, txn[c].open,
           NEW u, GoodWork(u), u.view = txn[c].view, u.others = txn[c].others, Statement(c, u)
    PROVE  TxnInv' /\ DOMAIN txn' = Clients /\ db' = db
<1> DEFINE w == [u EXCEPT !.statements = @ + 1]
<1>1. txn' = [txn EXCEPT ![c] = w] /\ db' = db
  BY DEF Statement
<1>2. DOMAIN txn = Clients
  BY DEF RowIdInv
<1>3. /\ DOMAIN w = TxnFields /\ w.others = u.others /\ w.view = u.view
      /\ w.new_files = u.new_files /\ w.new_inlined = u.new_inlined /\ w.delete_files = u.delete_files
      /\ w.flush = u.flush /\ w.dropped_files = u.dropped_files
  <2>1. DOMAIN u = TxnFields
    BY DEF GoodWork
  <2> QED BY <2>1 DEF TxnFields, NoTransaction
<1> HIDE DEF w
<1>4. GoodWork(w)
  BY <1>3 DEF GoodWork
<1>5. GoodView(w.view) /\ Follows(w, db)
  <2>1. GoodView(txn[c].view) /\ Follows(txn[c], db)
    BY DEF RowIdInv, TxnInv
  <2> QED BY <1>3, <2>1 DEF Follows, NoneDid
<1>6. ASSUME NEW d \in Clients
      PROVE  GoodWork(txn'[d]) /\ (txn'[d].open => GoodView(txn'[d].view) /\ Follows(txn'[d], db'))
  <2>1. CASE d = c
    <3>1. txn'[d] = w
      BY <1>1, <1>2, <2>1
    <3> QED BY <1>1, <1>4, <1>5, <3>1
  <2>2. CASE d # c
    <3>1. txn'[d] = txn[d]
      BY <1>1, <1>2, <2>2
    <3> QED BY <1>1, <3>1 DEF RowIdInv, TxnInv
  <2> QED BY <2>1, <2>2
<1>7. TxnInv'
  BY <1>6 DEF TxnInv
<1> QED BY <1>1, <1>2, <1>7

LEMMA SameCacheKeepsInv ==
    ASSUME RowIdInv, cache' = cache, db' = db, TxnInv', DOMAIN txn' = Clients
    PROVE  RowIdInv'
<1>1. CacheInv'
  BY DEF RowIdInv, CacheInv
<1> QED BY <1>1 DEF RowIdInv

\* The values of an INSERT.
LEMMA NewValuesType ==
    ASSUME NEW v \in NewValues
    PROVE  v \in Seq(Values)
<1>1. PICK w \in SUBSET Values : v = SetToSeq(w)
  BY DEF NewValues
<1>2. IsFiniteSet(w)
  BY FS_Subset, StatisticsAssumption
<1> DEFINE n == Cardinality(w)
<1>3. n \in Nat /\ ExistsBijection(1..n, w)
  BY <1>2, FS_CardinalityType
<1> HIDE DEF n
<1>4. PICK f \in [1..n -> w] : IsInjective(f)
  BY <1>3 DEF ExistsBijection, Bijection, Injection
<1>5. v = CHOOSE g \in [1..n -> w] : IsInjective(g)
  BY <1>1 DEF SetToSeq, n
<1>6. v \in [1..n -> w]
  BY <1>4, <1>5
<1>7. v \in [1..n -> Values]
  BY <1>6
<1> QED BY <1>3, <1>7

LEMMA InsertKeepsInv ==
    ASSUME RowIdInv, NEW c \in Clients, Insert(c)
    PROVE  RowIdInv'
<1> DEFINE t == txn[c]
<1>1. t.open /\ cache' = cache
  BY DEF Insert, RoomFor
<1>2. GoodWork(t)
  BY DEF RowIdInv, TxnInv
<1>3. DOMAIN t = TxnFields
  BY <1>2 DEF GoodWork
<1>4. PICK v \in NewValues :
         \/ \E bounded \in Bounded :
              Statement(c, [t EXCEPT !.new_files = Append(@, [values |-> v, bounded |-> bounded])])
         \/ Statement(c, [t EXCEPT !.new_inlined = @ \o v])
  BY DEF Insert
<1>5. v \in Seq(Values)
  BY NewValuesType
<1>6. ASSUME NEW bounded \in Bounded,
             Statement(c, [t EXCEPT !.new_files = Append(@, [values |-> v, bounded |-> bounded])])
      PROVE  TxnInv' /\ DOMAIN txn' = Clients /\ db' = db
  <2> DEFINE files == Append(t.new_files, [values |-> v, bounded |-> bounded])
             u == [t EXCEPT !.new_files = files]
  <2>1. files \in Seq([values : Seq(Values), bounded : Bounded])
    <3>1. [values |-> v, bounded |-> bounded] \in [values : Seq(Values), bounded : Bounded]
      BY <1>5
    <3>2. t.new_files \in Seq([values : Seq(Values), bounded : Bounded])
      BY <1>2 DEF GoodWork
    <3> QED BY <3>1, <3>2, AppendProperties
  <2>2. Statement(c, u)
    BY <1>6
  <2> HIDE DEF files, t
  <2>3. GoodWork(u)
    BY <1>2, <1>3, <2>1 DEF GoodWork, TxnFields, NoTransaction
  <2>4. u.view = t.view /\ u.others = t.others
    BY <1>3 DEF TxnFields, NoTransaction
  <2> HIDE DEF u
  <2> QED BY <1>1, <2>2, <2>3, <2>4, StatementKeeps DEF t
<1>7. ASSUME Statement(c, [t EXCEPT !.new_inlined = @ \o v])
      PROVE  TxnInv' /\ DOMAIN txn' = Clients /\ db' = db
  <2> DEFINE values == t.new_inlined \o v
             u == [t EXCEPT !.new_inlined = values]
  <2>1. values \in Seq(Values)
    BY <1>2, <1>5, ConcatProperties DEF GoodWork
  <2>2. Statement(c, u)
    BY <1>7
  <2> HIDE DEF values, t
  <2>3. GoodWork(u)
    BY <1>2, <1>3, <2>1 DEF GoodWork, TxnFields, NoTransaction
  <2>4. u.view = t.view /\ u.others = t.others
    BY <1>3 DEF TxnFields, NoTransaction
  <2> HIDE DEF u
  <2> QED BY <1>1, <2>2, <2>3, <2>4, StatementKeeps DEF t
<1>8. TxnInv' /\ DOMAIN txn' = Clients /\ db' = db
  BY <1>4, <1>6, <1>7
<1> QED BY <1>1, <1>8, SameCacheKeepsInv

LEMMA DeleteInlinedKeepsInv ==
    ASSUME RowIdInv, NEW c \in Clients, DeleteInlined(c)
    PROVE  RowIdInv'
<1> DEFINE t == txn[c]
<1>1. t.open /\ cache' = cache
  BY DEF DeleteInlined, RoomFor
<1>2. GoodWork(t)
  BY DEF RowIdInv, TxnInv
<1>3. DOMAIN t = TxnFields
  BY <1>2 DEF GoodWork
<1>4. PICK r : Statement(c, [t EXCEPT !.inlined_deletes = @ \cup {r.rid}])
  BY DEF DeleteInlined
<1> DEFINE u == [t EXCEPT !.inlined_deletes = @ \cup {r.rid}]
<1>5. Statement(c, u)
  BY <1>4
<1> HIDE DEF t
<1>6. GoodWork(u)
  BY <1>2, <1>3 DEF GoodWork, TxnFields, NoTransaction
<1>7. u.view = t.view /\ u.others = t.others
  BY <1>3 DEF TxnFields, NoTransaction
<1> HIDE DEF u
<1>8. TxnInv' /\ DOMAIN txn' = Clients /\ db' = db
  BY <1>1, <1>5, <1>6, <1>7, StatementKeeps DEF t
<1> QED BY <1>1, <1>8, SameCacheKeepsInv

LEMMA RewriteKeepsInv ==
    ASSUME RowIdInv, NEW c \in Clients, Rewrite(c)
    PROVE  RowIdInv'
<1> DEFINE t == txn[c]
<1>1. t.open /\ cache' = cache
  BY DEF Rewrite, RoomFor
<1>2. GoodWork(t)
  BY DEF RowIdInv, TxnInv
<1>3. DOMAIN t = TxnFields
  BY <1>2 DEF GoodWork
<1>4. PICK f : Statement(c, [t EXCEPT !.rewrites = @ \cup {f.id}])
  BY DEF Rewrite
<1> DEFINE u == [t EXCEPT !.rewrites = @ \cup {f.id}]
<1>5. Statement(c, u)
  BY <1>4
<1> HIDE DEF t
<1>6. GoodWork(u)
  BY <1>2, <1>3 DEF GoodWork, TxnFields, NoTransaction
<1>7. u.view = t.view /\ u.others = t.others
  BY <1>3 DEF TxnFields, NoTransaction
<1> HIDE DEF u
<1>8. TxnInv' /\ DOMAIN txn' = Clients /\ db' = db
  BY <1>1, <1>5, <1>6, <1>7, StatementKeeps DEF t
<1> QED BY <1>1, <1>8, SameCacheKeepsInv

LEMMA FlushKeepsInv ==
    ASSUME RowIdInv, NEW c \in Clients, Flush(c)
    PROVE  RowIdInv'
<1> DEFINE t == txn[c]
<1>1. t.open /\ cache' = cache
  BY DEF Flush, RoomFor
<1>2. GoodWork(t)
  BY DEF RowIdInv, TxnInv
<1>3. DOMAIN t = TxnFields
  BY <1>2 DEF GoodWork
<1> DEFINE u == [t EXCEPT !.flush = t.view.inlined]
<1>5. Statement(c, u)
  BY DEF Flush
<1> HIDE DEF t
<1>6. GoodWork(u)
  BY <1>2, <1>3 DEF GoodWork, TxnFields, NoTransaction
<1>7. u.view = t.view /\ u.others = t.others
  BY <1>3 DEF TxnFields, NoTransaction
<1> HIDE DEF u
<1>8. TxnInv' /\ DOMAIN txn' = Clients /\ db' = db
  BY <1>1, <1>5, <1>6, <1>7, StatementKeeps DEF t
<1> QED BY <1>1, <1>8, SameCacheKeepsInv

LEMMA DeleteFromFileKeepsInv ==
    ASSUME RowIdInv, NEW c \in Clients, DeleteFromFile(c)
    PROVE  RowIdInv'
<1> DEFINE t == txn[c]
<1>1. t.open /\ cache' = cache
  BY DEF DeleteFromFile, RoomFor
<1>2. GoodWork(t)
  BY DEF RowIdInv, TxnInv
<1>3. DOMAIN t = TxnFields
  BY <1>2 DEF GoodWork
<1>4. PICK f, d :
         /\ f \in t.view.data_file
         /\ \/ Statement(c, [t EXCEPT !.dropped_files = @ \cup {f.id}])
            \/ Statement(c, [t EXCEPT !.file_deletes = @ \cup {d}])
            \/ Statement(c, [t EXCEPT !.delete_files = @ \cup {d}])
  BY DEF DeleteFromFile
<1> DEFINE u1 == [t EXCEPT !.dropped_files = @ \cup {f.id}]
           u2 == [t EXCEPT !.file_deletes = @ \cup {d}]
           u3 == [t EXCEPT !.delete_files = @ \cup {d}]
<1>5. Statement(c, u1) \/ Statement(c, u2) \/ Statement(c, u3)
  BY <1>4
<1>6. f \in t.view.data_file
  BY <1>4
<1> HIDE DEF t
<1>7. GoodWork(u1) /\ GoodWork(u2)
  BY <1>2, <1>3, <1>6 DEF GoodWork, TxnFields, NoTransaction
<1>8. GoodWork(u3)
  <2> DEFINE deletes == t.delete_files \cup {d}
  <2>1. IsFiniteSet(t.delete_files)
    BY <1>2 DEF GoodWork
  <2>2. IsFiniteSet(deletes)
    BY <2>1, FS_AddElement
  <2>3. u3 = [t EXCEPT !.delete_files = deletes]
    OBVIOUS
  <2> HIDE DEF deletes, u3
  <2> QED BY <1>2, <1>3, <2>2, <2>3 DEF GoodWork, TxnFields, NoTransaction
<1>9. /\ u1.view = t.view /\ u1.others = t.others
      /\ u2.view = t.view /\ u2.others = t.others
      /\ u3.view = t.view /\ u3.others = t.others
  BY <1>3 DEF TxnFields, NoTransaction
<1> HIDE DEF u1, u2, u3
<1>10. TxnInv' /\ DOMAIN txn' = Clients /\ db' = db
  BY <1>1, <1>5, <1>7, <1>8, <1>9, StatementKeeps DEF t
<1> QED BY <1>1, <1>10, SameCacheKeepsInv

\* A transaction's statistics, read while its snapshot may be out of date.
LEMMA CachingKeepsInv ==
    ASSUME RowIdInv, NEW c \in Clients, txn[c].open, cache' = Cached(c, txn[c].view),
           db' = db, TxnInv', DOMAIN txn' = Clients
    PROVE  RowIdInv'
<1>1. \E cached : CacheStep(c, cached)
  <2> DEFINE cached == LookUp(cache[ProcessOf[c]], txn[c].view)
  <2>1. AllKnown(cached)
    BY CachedIsKnown
  <2>2. ProcessOf[c] \in DOMAIN cache
    BY HasProcess DEF RowIdInv
  <2>3. cache' = [cache EXCEPT ![ProcessOf[c]] = cached]
    BY <2>2 DEF Cached
  <2> QED BY <2>1, <2>3 DEF CacheStep
<1>2. /\ DOMAIN cache' = Range(ProcessOf)
      /\ \A p \in Range(ProcessOf) : \A n \in DOMAIN cache'[p] : Known(n, cache'[p][n])
  BY <1>1, CacheStepIsKnown
<1>3. \A p \in Range(ProcessOf) : \A n \in DOMAIN cache'[p] :
        /\ n \in Nat /\ n <= db.next_file_id
        /\ StatsOk(cache'[p][n])
        /\ n = db.next_file_id => SameStart(cache'[p][n], db.stats)
  BY <1>2, KnownStart
<1>4. CacheInv'
  BY <1>3 DEF CacheInv
<1> QED BY <1>2, <1>4 DEF RowIdInv

LEMMA ReadKeepsInv ==
    ASSUME RowIdInv, NEW c \in Clients, Read(c)
    PROVE  RowIdInv'
<1> DEFINE t == txn[c]
<1>1. t.open /\ Statement(c, t)
  BY DEF Read, RoomFor
<1>2. GoodWork(t)
  BY <1>1 DEF RowIdInv, TxnInv
<1>3. TxnInv' /\ DOMAIN txn' = Clients /\ db' = db
  BY <1>1, <1>2, StatementKeeps
<1>4. cache' = Cached(c, t.view)
  BY DEF Read
<1> QED BY <1>1, <1>3, <1>4, CachingKeepsInv

LEMMA BeginKeepsInv ==
    ASSUME RowIdInv, NEW c \in Clients, Begin(c)
    PROVE  RowIdInv'
<1> DEFINE w == [NoTransaction EXCEPT !.open = TRUE, !.view = db]
<1>1. txn' = [txn EXCEPT ![c] = w] /\ db' = db /\ cache' = cache
  BY DEF Begin
<1>2. DOMAIN txn = Clients /\ GoodView(db)
  BY DEF RowIdInv
<1>3. /\ DOMAIN w = TxnFields /\ w.others = {} /\ w.view = db
      /\ w.new_files = <<>> /\ w.new_inlined = <<>> /\ w.delete_files = {}
      /\ w.flush = {} /\ w.dropped_files = {}
  BY DEF TxnFields, NoTransaction
<1> HIDE DEF w
<1>4. GoodWork(w)
  <2>1. <<>> \in Seq([values : Seq(Values), bounded : Bounded]) /\ <<>> \in Seq(Values)
    OBVIOUS
  <2> QED BY <1>3, <2>1, FS_EmptySet DEF GoodWork
<1>5. Follows(w, db)
  <2>1. /\ db.next_file_id \in Nat
        /\ \A f, g \in db.data_file : f.id = g.id => f = g
    BY <1>2 DEF GoodView, GoodFiles
  <2> QED BY <1>3, <2>1 DEF Follows, SameStart
<1>6. ASSUME NEW d \in Clients
      PROVE  GoodWork(txn'[d]) /\ (txn'[d].open => GoodView(txn'[d].view) /\ Follows(txn'[d], db'))
  <2>1. CASE d = c
    <3>1. txn'[d] = w
      BY <1>1, <1>2, <2>1
    <3> QED BY <1>1, <1>2, <1>3, <1>4, <1>5, <3>1
  <2>2. CASE d # c
    <3>1. txn'[d] = txn[d]
      BY <1>1, <1>2, <2>2
    <3> QED BY <1>1, <3>1 DEF RowIdInv, TxnInv
  <2> QED BY <2>1, <2>2
<1>7. TxnInv' /\ DOMAIN txn' = Clients
  BY <1>1, <1>2, <1>6 DEF TxnInv
<1> QED BY <1>1, <1>7, SameCacheKeepsInv

LEMMA EndKeepsInv ==
    ASSUME RowIdInv, NEW c \in Clients, End(c)
    PROVE  RowIdInv'
<1>1. /\ txn[c].open /\ txn' = [txn EXCEPT ![c] = NoTransaction] /\ db' = db
      /\ cache' = cache \/ cache' = Cached(c, txn[c].view)
  BY DEF End
<1>2. DOMAIN txn = Clients
  BY DEF RowIdInv
<1>3. ASSUME NEW d \in Clients
      PROVE  GoodWork(txn'[d]) /\ (txn'[d].open => GoodView(txn'[d].view) /\ Follows(txn'[d], db'))
  <2>1. CASE d = c
    <3>1. txn'[d] = NoTransaction
      BY <1>1, <1>2, <2>1
    <3> QED BY <3>1, NothingOpen
  <2>2. CASE d # c
    <3>1. txn'[d] = txn[d]
      BY <1>1, <1>2, <2>2
    <3> QED BY <1>1, <3>1 DEF RowIdInv, TxnInv
  <2> QED BY <2>1, <2>2
<1>4. TxnInv' /\ DOMAIN txn' = Clients
  BY <1>1, <1>2, <1>3 DEF TxnInv
<1> QED BY <1>1, <1>4, SameCacheKeepsInv, CachingKeepsInv

LEMMA RowIdInvInit == StatisticsInit => RowIdInv
<1> HAVE StatisticsInit
<1>1. /\ db.snapshot = 1 /\ db.next_file_id = 1 /\ db.data_file = {} /\ db.inlined = {} /\ db.stats = None
      /\ txn = [c \in Clients |-> NoTransaction]
      /\ cache = [p \in Range(ProcessOf) |-> [n \in {} |-> None]]
  BY DEF StatisticsInit
<1>2. GoodView(db)
  BY <1>1, FS_EmptySet DEF GoodView, StatsOk, GoodFiles, GoodInlined, GoodRows
<1>3. TxnInv /\ DOMAIN txn = Clients
  <2>1. \A c \in Clients : txn[c] = NoTransaction
    BY <1>1
  <2> QED BY <1>1, <2>1, NothingOpen DEF TxnInv
<1>4. CacheInv /\ DOMAIN cache = Range(ProcessOf)
  BY <1>1 DEF CacheInv
<1> QED BY <1>2, <1>3, <1>4 DEF RowIdInv

LEMMA RowIdInvStep ==
    ASSUME NoneIsNoStats, RowIdInv, [StatisticsNext]_statisticsVars
    PROVE  RowIdInv'
<1>1. CASE UNCHANGED statisticsVars
  BY <1>1 DEF statisticsVars, RowIdInv, TxnInv, CacheInv
<1>2. CASE StatisticsNext
  <2> PICK c \in Clients :
        \/ Begin(c) \/ Read(c) \/ Insert(c) \/ DeleteInlined(c) \/ DeleteFromFile(c)
        \/ Rewrite(c) \/ Flush(c) \/ Commit(c) \/ End(c)
    BY <1>2 DEF StatisticsNext
  <2> QED BY BeginKeepsInv, ReadKeepsInv, InsertKeepsInv, DeleteInlinedKeepsInv, DeleteFromFileKeepsInv,
             RewriteKeepsInv, FlushKeepsInv, CommitKeepsInv, EndKeepsInv
<1> QED BY <1>1, <1>2

LEMMA FreshIds == RowIdInv => RowIdsAreFresh
<1> HAVE RowIdInv
<1> DEFINE n == Start(db.stats)
<1>1. /\ GoodFiles(db.data_file, db.next_file_id, n) /\ GoodInlined(db.inlined, db.data_file, n)
      /\ db.stats = None => db.data_file = {} /\ db.inlined = {}
  BY DEF RowIdInv, GoodView
<1>2. ASSUME NEW rows \in {f.rows : f \in db.data_file} \cup {db.inlined}
      PROVE  /\ \A r \in rows : r.rid <= db.stats.next_row_id
             /\ \A r, q \in rows : r.rid = q.rid => r = q
  <2>1. GoodRows(rows, n)
    BY <1>1, <1>2 DEF GoodFiles, GoodInlined
  <2>2. rows # {} => n = db.stats.next_row_id
    BY <1>1, <1>2 DEF Start
  <2> HIDE DEF n
  <2> QED BY <2>1, <2>2 DEF GoodRows
<1>3. \A f \in db.data_file :
         /\ Rid(f.rows) \cap Rid(db.inlined) = {}
         /\ \A g \in db.data_file : f # g => Rid(f.rows) \cap Rid(g.rows) = {}
  BY <1>1 DEF GoodFiles, GoodInlined, Disjoint
<1> QED BY <1>2, <1>3 DEF RowIdsAreFresh

\* No two rows have the same row id: not in a file, not in the inlined table, and
\* not across them, with any number of clients, processes, cached statistics,
\* flushes and rewrites (DuckLakeTransactionState::CommitChanges,
\* RecomputeGlobalStatsAfterRewrite, DuckLakeCatalog::GetTableStats).
THEOREM RowIdsAlwaysFresh ==
    ASSUME NoneIsNoStats
    PROVE  StatisticsSpec => []RowIdsAreFresh
<1>1. StatisticsInit => RowIdInv
  BY RowIdInvInit
<1>2. RowIdInv /\ [StatisticsNext]_statisticsVars => RowIdInv'
  BY RowIdInvStep
<1>3. RowIdInv => RowIdsAreFresh
  BY FreshIds
<1> QED BY <1>1, <1>2, <1>3, PTL DEF StatisticsSpec

----------------------------------------------------------------------------
(* Ids of rows that are gone.                                              *)

RowIds(v) == (UNION {Rid(f.rows) : f \in v.data_file}) \cup Rid(v.inlined)

\* The numbering goes on, and only rows that are there have a number that was given before.
GivesNoIdAgain(old, new) ==
    /\ Start(old.stats) <= Start(new.stats)
    /\ \A i \in RowIds(new) : i <= Start(old.stats) => i \in RowIds(old)

LEMMA RowIdsMean ==
    ASSUME NEW v
    PROVE  /\ \A f \in v.data_file : \A r \in f.rows : r.rid \in RowIds(v)
           /\ \A r \in v.inlined : r.rid \in RowIds(v)
           /\ \A i \in RowIds(v) : \/ \E f \in v.data_file : \E r \in f.rows : i = r.rid
                                   \/ \E r \in v.inlined : i = r.rid
BY DEF RowIds, Rid

LEMMA CommitGivesNoIdAgain ==
    ASSUME NoneIsNoStats, RowIdInv, NEW c \in Clients, NEW t, Committing(c, t),
           NEW now, now = CommitTo(c, t)
    PROVE  GivesNoIdAgain(db, now)
<1> DEFINE n == Start(db.stats)
           id == db.next_file_id
           moved == IdsOfMovedRows(t)
           count == NewFileRows(t)
           len == Len(t.new_inlined)
           total == n + count
           m == Start(t.view.stats)
           k == t.view.next_file_id
           taken == FileIdsTaken(t)
           K == KeptFiles(db, t)
           F == FlushedFile(t, id)
           R == Rewritten(t, id)
           N == NewDataFiles(t, id + moved, n)
<1>1. GoodWork(t) /\ GoodView(t.view) /\ FindsRows(db, t)
  BY CommitFindsRows DEF Committing
<1>2. /\ n \in Nat /\ id \in Nat
      /\ GoodFiles(db.data_file, id, n) /\ GoodInlined(db.inlined, db.data_file, n)
  BY DEF RowIdInv, GoodView, StatsOk, Start
<1>3. m \in Nat /\ k \in Nat /\ GoodFiles(t.view.data_file, k, m)
  BY <1>1 DEF GoodView, StatsOk, Start
<1>4. count \in Nat /\ len \in Nat /\ total \in Nat
  <2>1. count \in Nat /\ len \in Nat
    BY <1>1, NewRowCount
  <2> HIDE DEF count, n
  <2> QED BY <1>2, <2>1
<1>5. now.data_file = FilesOf(db, t, n) /\ now.inlined = InlinedOf(db, t, n)
  BY CommittedParts
<1>6. Start(now.stats) = n + (count + len)
  BY CommitMovesStart
<1>7. n <= Start(now.stats)
  <2> HIDE DEF n, count, len
  <2> QED BY <1>2, <1>4, <1>6
<1>8. ASSUME NEW f \in K, NEW r \in f.rows PROVE r.rid \in RowIds(db)
  <2>1. \A g \in db.data_file : DOMAIN g = FileFields
    BY <1>2 DEF GoodFiles
  <2>2. PICK g \in db.data_file : f.rows = g.rows
    BY <2>1, KeptFilesOf
  <2> QED BY <2>2, RowIdsMean
<1>9. ASSUME NEW f \in F, NEW r \in f.rows PROVE r.rid \in RowIds(db)
  <2>1. t.flush # {} /\ \E q \in t.flush : r.rid = q.rid
    BY DEF FlushedFile
  <2>2. r.rid \in Rid(db.inlined)
    BY <1>1, <2>1 DEF FindsRows, Rid
  <2> QED BY <2>2 DEF RowIds
<1>10. ASSUME NEW f \in R, NEW r \in f.rows PROVE r.rid \in RowIds(db)
  <2>1. PICK g \in t.view.data_file : g.id \in t.rewrites /\ f.rows \subseteq g.rows
    BY RewrittenFilesOf
  <2>2. PICK h \in db.data_file : g.id = h.id
    BY <1>1, <2>1 DEF FindsRows
  <2>3. g.rows = h.rows
    BY <1>1, <2>2 DEF FindsRows
  <2> QED BY <2>1, <2>3, RowIdsMean
<1>11. \A f \in N : \A r \in f.rows : r.rid \in Nat /\ r.rid > n
  <2> HIDE DEF n, id, moved, m, k, taken
  <2> QED BY <1>1, <1>2, <1>3, FilesOfCommitDiffer DEF moved, taken
<1>12. \A r \in KeptInlined(db, t) : r.rid \in RowIds(db)
  <2> TAKE r \in KeptInlined(db, t)
  <2>1. PICK q \in db.inlined : \E live : r = [q EXCEPT !.live = live]
    BY DEF KeptInlined
  <2>2. DOMAIN q = InlinedFields
    BY <1>2 DEF GoodInlined
  <2>3. r.rid = q.rid
    BY <2>1, <2>2 DEF InlinedFields
  <2> QED BY <2>3, RowIdsMean
<1>13. \A r \in NewInlined(t, total) : r.rid \in Nat /\ r.rid > n
  <2> DEFINE rows == NewRows(t.new_inlined, total)
  <2>1. t.new_inlined \in Seq(Values)
    BY <1>1 DEF GoodWork
  <2> HIDE DEF total
  <2>2. \A r \in rows : r.rid > total /\ r.rid \in Nat
    BY <1>4, <2>1, NewRowsAreNumbered
  <2>3. \A r \in NewInlined(t, total) : \E q \in rows : r.rid = q.rid
    BY DEF NewInlined
  <2> HIDE DEF rows, n, count
  <2>4. total >= n
    BY <1>2, <1>4 DEF total
  <2> QED BY <1>2, <1>4, <2>2, <2>3, <2>4
<1> HIDE DEF n, total, moved, id, K, F, R, N
<1>14. ASSUME NEW i \in RowIds(now), i <= n PROVE i \in RowIds(db)
  <2>1. CASE \E f \in now.data_file : \E r \in f.rows : i = r.rid
    <3>1. PICK f \in FilesOf(db, t, n) : \E r \in f.rows : i = r.rid
      BY <1>5, <2>1
    <3>2. f \in K \/ f \in F \/ f \in R \/ f \in N
      BY DEF FilesOf, K, F, R, N, id, moved
    <3>3. f \notin N
      BY <1>2, <1>11, <1>14, <3>1
    <3> QED BY <1>8, <1>9, <1>10, <3>1, <3>2, <3>3
  <2>2. CASE \E r \in now.inlined : i = r.rid
    <3>1. PICK r \in KeptInlined(db, t) \cup NewInlined(t, total) : i = r.rid
      BY <1>5, <2>2 DEF InlinedOf, total
    <3>2. r \notin NewInlined(t, total)
      BY <1>2, <1>13, <1>14, <3>1
    <3> QED BY <1>12, <3>1, <3>2
  <2> QED BY <2>1, <2>2, RowIdsMean
<1> QED BY <1>7, <1>14 DEF GivesNoIdAgain, n

\* next_row_id never goes back, and an id up to it belongs to a row that is still
\* there or to none: the ids of rows that are gone are not given to other rows
\* (GetNewDataFile, UpdateGlobalTableStats, RowIdAfterRewrite).
THEOREM RowIdsNeverComeBack ==
    ASSUME NoneIsNoStats
    PROVE  StatisticsSpec => [][GivesNoIdAgain(db, db')]_statisticsVars
<1>1. StatisticsInit => RowIdInv
  BY RowIdInvInit
<1>2. RowIdInv /\ [StatisticsNext]_statisticsVars => RowIdInv'
  BY RowIdInvStep
<1>3. RowIdInv /\ [StatisticsNext]_statisticsVars => [GivesNoIdAgain(db, db')]_statisticsVars
  <2> SUFFICES ASSUME RowIdInv, StatisticsNext PROVE GivesNoIdAgain(db, db')
    OBVIOUS
  <2>1. PICK c \in Clients :
        \/ Begin(c) \/ Read(c) \/ Insert(c) \/ DeleteInlined(c) \/ DeleteFromFile(c)
        \/ Rewrite(c) \/ Flush(c) \/ Commit(c) \/ End(c)
    BY DEF StatisticsNext
  <2>2. CASE Commit(c)
    <3> DEFINE t == txn[c]
               now == CommitTo(c, t)
    <3>1. Committing(c, t) /\ db' = now
      BY <2>2 DEF Commit, RowIdInv, TxnInv, Committing
    <3> HIDE DEF t
    <3>2. GivesNoIdAgain(db, now)
      BY <3>1, CommitGivesNoIdAgain
    <3> QED BY <3>1, <3>2
  <2>3. CASE ~Commit(c)
    <3>1. db' = db
      BY <2>1, <2>3, ZenonT(60) DEF Begin, Read, Insert, DeleteInlined, DeleteFromFile, Rewrite, Flush, End, Statement
    <3>2. Start(db.stats) \in Nat
      BY DEF RowIdInv, GoodView, StatsOk, Start
    <3>3. GivesNoIdAgain(db, db)
      BY <3>2 DEF GivesNoIdAgain
    <3> QED BY <3>1, <3>3
  <2> QED BY <2>2, <2>3
<1> QED BY <1>1, <1>2, <1>3, PTL DEF StatisticsSpec

----------------------------------------------------------------------------
(* Folds over finite sets.                                                 *)

\* The element that the folds of the community modules take first.
Chosen(s) == CHOOSE x \in s : TRUE

LEMMA ChosenIsIn ==
    ASSUME NEW s, s # {}
    PROVE  Chosen(s) \in s
BY DEF Chosen

\* Induction on the subsets of a finite set, along the element that folds take out.
LEMMA SubsetInduction ==
    ASSUME NEW S, IsFiniteSet(S), NEW T, {} \in T,
           \A s \in SUBSET S : s # {} /\ s \ {Chosen(s)} \in T => s \in T
    PROVE  \A s \in SUBSET S : s \in T
<1> DEFINE bad == {s \in SUBSET S : s \notin T}
<1> SUFFICES ASSUME bad # {} PROVE FALSE
  OBVIOUS
<1>1. bad \subseteq FiniteSubsetsOf(S)
  BY FS_FiniteSubsetsOfFinite
<1>2. PICK s \in bad : \A y \in bad : ~ (<<y, s>> \in StrictSubsetOrdering(S))
  <2> HIDE DEF bad
  <2> QED BY <1>1, FS_StrictSubsetOrderingWellFounded, WFMin
<1>3. s \in SUBSET S /\ s # {} /\ s \notin T
  OBVIOUS
<1> DEFINE c == Chosen(s)
           y == s \ {c}
<1>4. c \in s
  BY <1>3, ChosenIsIn
<1> HIDE DEF c
<1>5. y \in SUBSET S /\ y \subseteq s /\ y # s
  BY <1>3, <1>4
<1>6. y \notin T
  BY <1>3 DEF c
<1>7. y \in bad
  BY <1>5, <1>6
<1>8. <<y, s>> \in StrictSubsetOrdering(S)
  BY <1>3, <1>5 DEF StrictSubsetOrdering
<1> HIDE DEF bad, y
<1> QED BY <1>2, <1>7, <1>8

\* g folds h over the subsets of S, or over those of at most n elements.
FoldStep(g, base, h, s) == IF s = {} THEN base ELSE h[<<Chosen(s), g[s \ {Chosen(s)}]>>]

\* g is the fold of h over the subsets of S.
Folds(g, S, base, h) == g = [s \in SUBSET S |-> FoldStep(g, base, h, s)]

UpToSize(S, n) == {s \in SUBSET S : Cardinality(s) <= n}

FoldsUpTo(g, S, base, h, n) == g = [s \in UpToSize(S, n) |-> FoldStep(g, base, h, s)]

LEMMA SmallerSubset ==
    ASSUME NEW S, IsFiniteSet(S), NEW s \in SUBSET S, s # {}
    PROVE  /\ s \ {Chosen(s)} \in SUBSET S
           /\ Cardinality(s) \in Nat /\ Cardinality(s \ {Chosen(s)}) = Cardinality(s) - 1
<1>1. Chosen(s) \in s
  BY ChosenIsIn
<1>2. IsFiniteSet(s)
  BY FS_Subset
<1>3. Cardinality(s) \in Nat
  BY <1>2, FS_CardinalityType
<1>4. Cardinality(s \ {Chosen(s)}) = Cardinality(s) - 1
  BY <1>1, <1>2, FS_RemoveElement
<1> QED BY <1>3, <1>4

\* Folds over finite sets are what their recursion says.
LEMMA FoldExists ==
    ASSUME NEW S, IsFiniteSet(S), NEW base, NEW h
    PROVE  \E g : Folds(g, S, base, h)
<1> DEFINE N == {n \in Nat : \E g : FoldsUpTo(g, S, base, h, n)}
<1>1. 0 \in N
  <2> DEFINE g == [s \in UpToSize(S, 0) |-> base]
  <2>1. \A s \in UpToSize(S, 0) : s = {}
    <3> TAKE s \in UpToSize(S, 0)
    <3>1. s \in SUBSET S /\ Cardinality(s) <= 0
      BY DEF UpToSize
    <3>2. IsFiniteSet(s)
      BY <3>1, FS_Subset
    <3>3. Cardinality(s) \in Nat
      BY <3>2, FS_CardinalityType
    <3>4. Cardinality(s) = 0
      BY <3>1, <3>3
    <3> QED BY <3>2, <3>4, FS_EmptySet
  <2>2. \A s \in UpToSize(S, 0) : g[s] = FoldStep(g, base, h, s)
    BY <2>1 DEF FoldStep
  <2>3. FoldsUpTo(g, S, base, h, 0)
    BY <2>2 DEF FoldsUpTo
  <2> QED BY <2>3
<1>2. ASSUME NEW n \in Nat, n \in N PROVE n + 1 \in N
  <2>1. PICK f : FoldsUpTo(f, S, base, h, n)
    BY <1>2
  <2> DEFINE g == [s \in UpToSize(S, n + 1) |-> IF s \in UpToSize(S, n) THEN f[s] ELSE FoldStep(f, base, h, s)]
  <2>2. ASSUME NEW s \in UpToSize(S, n + 1) PROVE g[s] = FoldStep(f, base, h, s)
    <3>1. CASE s \in UpToSize(S, n)
      BY <3>1, <2>1 DEF FoldsUpTo
    <3>2. CASE s \notin UpToSize(S, n)
      BY <3>2
    <3> QED BY <3>1, <3>2
  <2>3. ASSUME NEW s \in UpToSize(S, n + 1), s # {}
        PROVE  s \ {Chosen(s)} \in UpToSize(S, n) /\ g[s \ {Chosen(s)}] = f[s \ {Chosen(s)}]
    <3>1. s \in SUBSET S /\ Cardinality(s) <= n + 1
      BY DEF UpToSize
    <3> DEFINE r == s \ {Chosen(s)}
               k == Cardinality(s)
    <3>2. r \in SUBSET S /\ k \in Nat /\ Cardinality(r) = k - 1 /\ k <= n + 1
      BY <3>1, <2>3, SmallerSubset
    <3> HIDE DEF r, k, g
    <3>3. Cardinality(r) <= n /\ Cardinality(r) <= n + 1
      BY <3>2
    <3>4. r \in UpToSize(S, n) /\ r \in UpToSize(S, n + 1)
      BY <3>2, <3>3 DEF UpToSize
    <3> QED BY <3>4 DEF r, g
  <2>4. ASSUME NEW s \in UpToSize(S, n + 1) PROVE g[s] = FoldStep(g, base, h, s)
    <3>1. FoldStep(g, base, h, s) = FoldStep(f, base, h, s)
      <4>1. CASE s = {}
        BY <4>1 DEF FoldStep
      <4>2. CASE s # {}
        <5>1. g[s \ {Chosen(s)}] = f[s \ {Chosen(s)}]
          BY <4>2, <2>3
        <5> HIDE DEF g
        <5> QED BY <4>2, <5>1 DEF FoldStep
      <4> QED BY <4>1, <4>2
    <3> QED BY <3>1, <2>2
  <2>5. FoldsUpTo(g, S, base, h, n + 1)
    BY <2>4 DEF FoldsUpTo
  <2> QED BY <2>5
<1>3. \A n \in Nat : n \in N
  <2> HIDE DEF N
  <2> QED BY <1>1, <1>2, NaturalInduction
<1>4. Cardinality(S) \in Nat
  BY FS_CardinalityType
<1>5. PICK g : FoldsUpTo(g, S, base, h, Cardinality(S))
  BY <1>3, <1>4
<1>6. UpToSize(S, Cardinality(S)) = SUBSET S
  BY FS_Subset DEF UpToSize
<1> QED BY <1>5, <1>6 DEF FoldsUpTo, Folds

\* The sum of the weights w of the elements of S.
SumStep(g, w, s) == IF s = {} THEN 0 ELSE w[Chosen(s)] + g[s \ {Chosen(s)}]

Sums(g, S, w) == g = [s \in SUBSET S |-> SumStep(g, w, s)]

\* The same for sums.
LEMMA SumExists ==
    ASSUME NEW S, IsFiniteSet(S), NEW w \in [S -> Int]
    PROVE  \E g : Sums(g, S, w)
<1> DEFINE h == [p \in S \X Int |-> w[p[1]] + p[2]]
<1>1. PICK g : Folds(g, S, 0, h)
  <2> HIDE DEF h
  <2> QED BY FoldExists
<1>2. \A x \in S, y \in Int : h[<<x, y>>] = w[x] + y /\ h[<<x, y>>] \in Int
  OBVIOUS
<1> HIDE DEF h
<1>3. /\ g[{}] = 0
      /\ \A s \in SUBSET S : s # {} => g[s] = h[<<Chosen(s), g[s \ {Chosen(s)}]>>]
  <2>1. \A s \in SUBSET S : g[s] = FoldStep(g, 0, h, s)
    BY <1>1 DEF Folds
  <2> QED BY <2>1 DEF FoldStep
<1> DEFINE T == {s \in SUBSET S : g[s] \in Int}
<1>4. {} \in T
  BY <1>3
<1>5. ASSUME NEW s \in SUBSET S, s # {}, s \ {Chosen(s)} \in T
      PROVE  g[s] = w[Chosen(s)] + g[s \ {Chosen(s)}] /\ s \in T
  <2>1. Chosen(s) \in S
    BY <1>5, ChosenIsIn
  <2>2. g[s] = h[<<Chosen(s), g[s \ {Chosen(s)}]>>] /\ g[s \ {Chosen(s)}] \in Int
    BY <1>3, <1>5
  <2> QED BY <1>2, <2>1, <2>2
<1>6. \A s \in SUBSET S : s \in T
  <2> HIDE DEF T
  <2> QED BY <1>4, <1>5, SubsetInduction
<1>7. \A s \in SUBSET S : g[s] = SumStep(g, w, s)
  <2> TAKE s \in SUBSET S
  <2>1. CASE s = {}
    BY <2>1, <1>3 DEF SumStep
  <2>2. CASE s # {}
    <3>1. s \ {Chosen(s)} \in T
      BY <1>6
    <3> HIDE DEF T
    <3> QED BY <2>2, <3>1, <1>5 DEF SumStep
  <2> QED BY <2>1, <2>2
<1>8. g = [s \in SUBSET S |-> g[s]]
  BY <1>1 DEF Folds
<1> QED BY <1>7, <1>8 DEF Sums

\* The elements of the sets that belong to those of s.
AllOf(R, s) == UNION {R[x] : x \in s}

\* Sums of numbers that bound the sizes of disjoint sets.
LEMMA DisjointSum ==
    ASSUME NEW S, IsFiniteSet(S), NEW w \in [S -> Int], NEW g, Sums(g, S, w),
           NEW R, \A x \in S : IsFiniteSet(R[x]),
           \A x, y \in S : x # y => R[x] \cap R[y] = {}
    PROVE  /\ IsFiniteSet(AllOf(R, S)) /\ g[S] \in Int
           /\ (\A x \in S : w[x] <= Cardinality(R[x])) => g[S] <= Cardinality(AllOf(R, S))
           /\ (\A x \in S : w[x] >= Cardinality(R[x])) => g[S] >= Cardinality(AllOf(R, S))
<1>0. /\ g[{}] = 0
      /\ \A s \in SUBSET S : s # {} => g[s] = w[Chosen(s)] + g[s \ {Chosen(s)}]
  <2>1. \A s \in SUBSET S : g[s] = SumStep(g, w, s)
    BY DEF Sums
  <2> QED BY <2>1 DEF SumStep
<1> DEFINE below == \A x \in S : w[x] <= Cardinality(R[x])
           above == \A x \in S : w[x] >= Cardinality(R[x])
           ok(s) == /\ IsFiniteSet(AllOf(R, s)) /\ g[s] \in Int
                    /\ below => g[s] <= Cardinality(AllOf(R, s))
                    /\ above => g[s] >= Cardinality(AllOf(R, s))
           T == {s \in SUBSET S : ok(s)}
<1>1. {} \in T
  <2>1. AllOf(R, {}) = {}
    BY DEF AllOf
  <2>2. ok({})
    <3>1. IsFiniteSet(AllOf(R, {})) /\ Cardinality(AllOf(R, {})) = 0
      BY <2>1, FS_EmptySet
    <3> HIDE DEF below, above
    <3> QED BY <1>0, <3>1
  <2> QED BY <2>2
<1>2. ASSUME NEW s \in SUBSET S, s # {}, s \ {Chosen(s)} \in T PROVE s \in T
  <2> DEFINE c == Chosen(s)
             r == s \ {c}
             A == R[c]
             B == AllOf(R, r)
             a == Cardinality(A)
             b == Cardinality(B)
  <2>1. c \in s /\ c \in S
    BY <1>2, ChosenIsIn
  <2>2. ok(r)
    BY <1>2
  <2>3. g[s] = w[c] + g[r]
    BY <1>0, <1>2
  <2> HIDE DEF c
  <2>4. AllOf(R, s) = A \cup B
    BY <2>1 DEF AllOf
  <2>5. A \cap B = {}
    <3>1. \A x \in r : x \in S /\ x # c
      OBVIOUS
    <3>2. \A x \in r : R[c] \cap R[x] = {}
      BY <2>1, <3>1
    <3> HIDE DEF r
    <3> QED BY <3>2 DEF AllOf
  <2>6. IsFiniteSet(A) /\ IsFiniteSet(B) /\ a \in Nat /\ b \in Nat
    <3>1. IsFiniteSet(A) /\ IsFiniteSet(B)
      BY <2>1, <2>2
    <3> HIDE DEF A, B
    <3> QED BY <3>1, FS_CardinalityType
  <2>7. IsFiniteSet(AllOf(R, s)) /\ Cardinality(AllOf(R, s)) = a + b
    <3> HIDE DEF A, B
    <3>1. IsFiniteSet(A \cup B) /\ Cardinality(A \cup B) = a + b - Cardinality(A \cap B)
      BY <2>6, FS_Union
    <3>2. Cardinality(A \cap B) = 0
      BY <2>5, FS_EmptySet
    <3> HIDE DEF a, b
    <3> QED BY <2>4, <2>6, <3>1, <3>2
  <2>8. w[c] \in Int /\ g[r] \in Int /\ (below => w[c] <= a /\ g[r] <= b) /\ (above => w[c] >= a /\ g[r] >= b)
    BY <2>1, <2>2
  <2> HIDE DEF a, b, below, above, r
  <2>9. ok(s)
    BY <2>3, <2>6, <2>7, <2>8
  <2> QED BY <2>9
<1>3. S \in T
  <2> HIDE DEF T
  <2>1. \A s \in SUBSET S : s \in T
    BY <1>1, <1>2, SubsetInduction
  <2> QED BY <2>1
<1> QED BY <1>3

\* The sums of the model, as sums over the set of files.
LEMMA RowCountSum ==
    ASSUME NEW S, IsFiniteSet(S), NEW w \in [S -> Int], \A f \in S : w[f] = RowCount(f)
    PROVE  \E g : Sums(g, S, w) /\ MapThenSumSet(RowCount, S) = g[S]
<1> DEFINE Step(g, s) == IF s = {} THEN 0 ELSE RowCount(Chosen(s)) + g[s \ {Chosen(s)}]
           Is(g) == g = [s \in SUBSET S |-> Step(g, s)]
           it == CHOOSE g : Is(g)
<1>1. \A g, s : s \in SUBSET S => Step(g, s) = SumStep(g, w, s)
  <2> SUFFICES ASSUME NEW g, NEW s \in SUBSET S PROVE Step(g, s) = SumStep(g, w, s)
    OBVIOUS
  <2>1. s # {} => Chosen(s) \in S
    BY ChosenIsIn
  <2> QED BY <2>1 DEF SumStep
<1>2. \A g : Is(g) <=> Sums(g, S, w)
  BY <1>1 DEF Sums
<1>3. \E g : Is(g)
  BY <1>2, SumExists
<1>4. Is(it)
  <2> HIDE DEF Is
  <2> QED BY <1>3
<1>5. MapThenSumSet(RowCount, S) = it[S]
  BY DEF MapThenSumSet, MapThenFoldSet, Chosen
<1> HIDE DEF it, Is
<1> QED BY <1>2, <1>4, <1>5

\* The rows of a file without its deletions, as GetNetDataFileRowCountSql counts them.
NetRows(f) == RowCount(f) - Cardinality(f.deleted) - Cardinality(f.inlined_deleted)

LEMMA NetRowsSum ==
    ASSUME NEW v, NEW S, S = v.data_file, IsFiniteSet(S), NEW w \in [S -> Int], \A f \in S : w[f] = NetRows(f)
    PROVE  \E g : Sums(g, S, w) /\ NetDataFileRowCount(v) = g[S]
<1> DEFINE Step(g, s) == IF s = {} THEN 0 ELSE NetRows(Chosen(s)) + g[s \ {Chosen(s)}]
           Is(g) == g = [s \in SUBSET S |-> Step(g, s)]
           it == CHOOSE g : Is(g)
<1>1. \A g, s : s \in SUBSET S => Step(g, s) = SumStep(g, w, s)
  <2> SUFFICES ASSUME NEW g, NEW s \in SUBSET S PROVE Step(g, s) = SumStep(g, w, s)
    OBVIOUS
  <2>1. s # {} => Chosen(s) \in S
    BY ChosenIsIn
  <2> QED BY <2>1 DEF SumStep
<1>2. \A g : Is(g) <=> Sums(g, S, w)
  BY <1>1, ZenonT(60) DEF Sums
<1>3. \E g : Is(g)
  BY <1>2, SumExists
<1>4. Is(it)
  <2> HIDE DEF Is
  <2> QED BY <1>3
<1>5. NetDataFileRowCount(v) = it[S]
  BY DEF NetDataFileRowCount, MapThenSumSet, MapThenFoldSet, Chosen, NetRows
<1> HIDE DEF it, Is
<1> QED BY <1>2, <1>4, <1>5

----------------------------------------------------------------------------
(* Column statistics.                                                      *)

Nulls == {"yes", "no", "unknown"}
Bounds == Int \cup {None}
ColumnFields == {"nulls", "min", "max", "any_valid", "bounds_unknown"}
StoredFields == {"nulls", "min", "max"}

\* The statistics of a column, in memory and as they are stored.
Columns == [nulls : Nulls, min : Bounds, max : Bounds, any_valid : BOOLEAN, bounds_unknown : BOOLEAN]
StoredColumns == [nulls : Nulls, min : Bounds, max : Bounds]

\* None is told apart from the statistics of a column.
NoneIsNoColumn == DOMAIN None # ColumnFields /\ DOMAIN None # StoredFields

Valid(x) == x.any_valid
Unknown(x) == x.bounds_unknown

HasBounds(x) == x.min # None \/ x.max # None

\* A reader that prunes with the statistics finds the value.
Admits(x, v) ==
    /\ v = Null => x.nulls # "no"
    /\ v # Null => (x.min # None => x.min <= v) /\ (x.max # None => x.max >= v)

\* Statistics that cover a value, however other statistics are merged into them.
Holds(x, v) == Admits(x, v) /\ (v # Null /\ ~Valid(x) => Unknown(x))

\* Statistics that bring a value when they are merged into others.
Shows(x, v) == Admits(x, v) /\ (v # Null => Valid(x))

Clean(x) == Valid(x) \/ ~HasBounds(x)

\* The bounds are values of P.
BoundsIn(x, P) == (x.min # None => x.min \in P) /\ (x.max # None => x.max \in P)

\* Minimum and maximum of two bounds.
LEMMA MinOfTwo ==
    ASSUME NEW p \in Int, NEW q \in Int, NEW r, r = Min({p, q})
    PROVE  r \in {p, q} /\ r <= p /\ r <= q
<1>1. \E x \in {p, q} : \A y \in {p, q} : x <= y
  <2>1. CASE p <= q
    BY <2>1
  <2>2. CASE q <= p
    BY <2>2
  <2> QED BY <2>1, <2>2
<1>2. r = CHOOSE x \in {p, q} : \A y \in {p, q} : x <= y
  BY DEF Min
<1> QED BY <1>1, <1>2

LEMMA MaxOfTwo ==
    ASSUME NEW p \in Int, NEW q \in Int, NEW r, r = Max({p, q})
    PROVE  r \in {p, q} /\ r >= p /\ r >= q
<1>1. \E x \in {p, q} : \A y \in {p, q} : x >= y
  <2>1. CASE p >= q
    BY <2>1
  <2>2. CASE q >= p
    BY <2>2
  <2> QED BY <2>1, <2>2
<1>2. r = CHOOSE x \in {p, q} : \A y \in {p, q} : x >= y
  BY DEF Max
<1> QED BY <1>1, <1>2

LEMMA MergedMin ==
    ASSUME NEW p \in Bounds, NEW q \in Bounds, NEW r, r = MergeBound(p, q, Min)
    PROVE  r \in Bounds /\ (r # None => p \in Int /\ q \in Int /\ p # None /\ q # None /\ r \in {p, q} /\ r <= p /\ r <= q)
<1>1. CASE None \in {p, q}
  BY <1>1 DEF MergeBound, Bounds
<1>2. CASE None \notin {p, q}
  <2>1. p \in Int /\ q \in Int /\ p # None /\ q # None
    BY <1>2 DEF Bounds
  <2>2. r = Min({p, q})
    BY <1>2 DEF MergeBound
  <2>3. r \in {p, q} /\ r <= p /\ r <= q
    BY <2>1, <2>2, MinOfTwo
  <2> QED BY <2>1, <2>3 DEF Bounds
<1> QED BY <1>1, <1>2

LEMMA MergedMax ==
    ASSUME NEW p \in Bounds, NEW q \in Bounds, NEW r, r = MergeBound(p, q, Max)
    PROVE  r \in Bounds /\ (r # None => p \in Int /\ q \in Int /\ p # None /\ q # None /\ r \in {p, q} /\ r >= p /\ r >= q)
<1>1. CASE None \in {p, q}
  BY <1>1 DEF MergeBound, Bounds
<1>2. CASE None \notin {p, q}
  <2>1. p \in Int /\ q \in Int /\ p # None /\ q # None
    BY <1>2 DEF Bounds
  <2>2. r = Max({p, q})
    BY <1>2 DEF MergeBound
  <2>3. r \in {p, q} /\ r >= p /\ r >= q
    BY <2>1, <2>2, MaxOfTwo
  <2> QED BY <2>1, <2>3 DEF Bounds
<1> QED BY <1>1, <1>2

\* The fields of a column.
LEMMA ColumnParts ==
    ASSUME NEW x \in Columns
    PROVE  /\ DOMAIN x = ColumnFields /\ x.nulls \in Nulls /\ x.min \in Bounds /\ x.max \in Bounds
           /\ x.any_valid \in BOOLEAN /\ x.bounds_unknown \in BOOLEAN
BY DEF Columns, ColumnFields

\* The three ways to merge.
KeepsBounds(a, b, r) ==
    /\ ~Valid(b) \/ (~Valid(a) /\ Unknown(a))
    /\ r.min = a.min /\ r.max = a.max
    /\ Valid(r) <=> Valid(a)
    /\ Unknown(r) <=> Unknown(a)

TakesBounds(a, b, r) ==
    /\ Valid(b) /\ ~Valid(a) /\ ~Unknown(a)
    /\ r.min = b.min /\ r.max = b.max /\ Valid(r)

MergesBounds(a, b, r) ==
    /\ Valid(b) /\ Valid(a) /\ Valid(r)
    /\ r.min = MergeBound(a.min, b.min, Min) /\ r.max = MergeBound(a.max, b.max, Max)

\* The three outcomes of MergeStats.
LEMMA MergeCases ==
    ASSUME NEW a \in Columns, NEW b \in Columns, NEW r, r = MergeStats(a, b)
    PROVE  /\ r \in Columns /\ r.nulls = MergeNulls(a.nulls, b.nulls)
           /\ KeepsBounds(a, b, r) \/ TakesBounds(a, b, r) \/ MergesBounds(a, b, r)
<1>1. /\ DOMAIN a = ColumnFields /\ a.nulls \in Nulls /\ a.min \in Bounds /\ a.max \in Bounds
      /\ a.any_valid \in BOOLEAN /\ a.bounds_unknown \in BOOLEAN
      /\ b.nulls \in Nulls /\ b.min \in Bounds /\ b.max \in Bounds /\ b.any_valid \in BOOLEAN
  BY ColumnParts
<1> DEFINE nulls == MergeNulls(a.nulls, b.nulls)
           min == MergeBound(a.min, b.min, Min)
           max == MergeBound(a.max, b.max, Max)
           merged == [a EXCEPT !.nulls = nulls]
           took == [merged EXCEPT !.min = b.min, !.max = b.max, !.any_valid = TRUE]
           both == [merged EXCEPT !.min = min, !.max = max]
<1>2. nulls \in Nulls
  BY <1>1 DEF MergeNulls, Nulls
<1>3. min \in Bounds /\ max \in Bounds
  BY <1>1, MergedMin, MergedMax
<1>4. r = IF ~b.any_valid \/ (~a.any_valid /\ a.bounds_unknown) THEN merged
          ELSE IF ~a.any_valid THEN took ELSE both
  BY DEF MergeStats
<1> HIDE DEF nulls, min, max
<1>5. /\ merged \in Columns /\ merged.nulls = nulls /\ merged.min = a.min /\ merged.max = a.max
      /\ merged.any_valid = a.any_valid /\ merged.bounds_unknown = a.bounds_unknown
  BY <1>1, <1>2 DEF Columns, ColumnFields
<1>6. took \in Columns /\ took.nulls = nulls /\ took.min = b.min /\ took.max = b.max /\ took.any_valid = TRUE
  BY <1>1, <1>2 DEF Columns, ColumnFields
<1>7. both \in Columns /\ both.nulls = nulls /\ both.min = min /\ both.max = max /\ both.any_valid = a.any_valid
  BY <1>1, <1>2, <1>3 DEF Columns, ColumnFields
<1> HIDE DEF merged, took, both
<1>8. CASE ~b.any_valid \/ (~a.any_valid /\ a.bounds_unknown)
  <2>1. r = merged
    BY <1>4, <1>8
  <2>2. KeepsBounds(a, b, r)
    BY <1>5, <1>8, <2>1, Zenon DEF KeepsBounds, Valid, Unknown
  <2> QED BY <1>5, <2>1, <2>2 DEF nulls
<1>9. CASE ~(~b.any_valid \/ (~a.any_valid /\ a.bounds_unknown)) /\ ~a.any_valid
  <2>1. r = took
    BY <1>4, <1>9
  <2>2. TakesBounds(a, b, r)
    BY <1>6, <1>9, <2>1, Zenon DEF TakesBounds, Valid, Unknown
  <2> QED BY <1>6, <2>1, <2>2 DEF nulls
<1>10. CASE ~(~b.any_valid \/ (~a.any_valid /\ a.bounds_unknown)) /\ a.any_valid
  <2>1. r = both
    BY <1>4, <1>10
  <2>2. r.min = MergeBound(a.min, b.min, Min) /\ r.max = MergeBound(a.max, b.max, Max)
    BY <1>7, <2>1 DEF min, max
  <2>3. Valid(a) /\ Valid(b) /\ Valid(r)
    BY <1>7, <1>10, <2>1, Zenon DEF Valid
  <2>4. MergesBounds(a, b, r)
    BY <2>2, <2>3 DEF MergesBounds
  <2> QED BY <1>7, <2>1, <2>4 DEF nulls
<1> QED BY <1>8, <1>9, <1>10

LEMMA MergedNulls ==
    ASSUME NEW p \in Nulls, NEW q \in Nulls, p # "no" \/ q # "no"
    PROVE  MergeNulls(p, q) # "no"
BY DEF MergeNulls, Nulls

\* What is covered stays covered, and what is merged is covered from then on.
LEMMA MergeHolds ==
    ASSUME NEW a \in Columns, NEW b \in Columns, NEW r, r = MergeStats(a, b), Clean(a)
    PROVE  /\ r \in Columns /\ Clean(r)
           /\ \A v \in Values : Holds(a, v) => Holds(r, v)
           /\ \A v \in Values : Shows(b, v) => Holds(r, v)
           /\ \A P : BoundsIn(a, P) /\ BoundsIn(b, P) => BoundsIn(r, P)
<1>1. /\ r \in Columns /\ r.nulls = MergeNulls(a.nulls, b.nulls)
      /\ KeepsBounds(a, b, r) \/ TakesBounds(a, b, r) \/ MergesBounds(a, b, r)
  BY MergeCases
<1>2. /\ a.nulls \in Nulls /\ a.min \in Bounds /\ a.max \in Bounds
      /\ b.nulls \in Nulls /\ b.min \in Bounds /\ b.max \in Bounds
  BY ColumnParts
<1>3. a.nulls # "no" \/ b.nulls # "no" => r.nulls # "no"
  BY <1>1, <1>2, MergedNulls
<1>4. \A v \in Values : v # Null => v \in Int
  BY StatisticsAssumption
<1>5. CASE KeepsBounds(a, b, r)
  <2>1. ASSUME NEW v \in Values, Holds(a, v) PROVE Holds(r, v)
    BY <1>3, <1>5, <2>1 DEF KeepsBounds, Holds, Admits
  <2>2. ASSUME NEW v \in Values, Shows(b, v) PROVE Holds(r, v)
    <3>1. CASE v = Null
      BY <1>3, <2>2, <3>1 DEF Shows, Holds, Admits
    <3>2. CASE v # Null
      <4>1. Valid(b)
        BY <2>2, <3>2 DEF Shows
      <4>2. ~Valid(a) /\ Unknown(a)
        BY <1>5, <4>1 DEF KeepsBounds
      <4>3. ~HasBounds(a)
        BY <4>2 DEF Clean
      <4> QED BY <1>5, <3>2, <4>2, <4>3 DEF KeepsBounds, Holds, Admits, HasBounds
    <3> QED BY <3>1, <3>2
  <2>3. Clean(r)
    BY <1>5 DEF KeepsBounds, Clean, HasBounds
  <2>4. \A P : BoundsIn(a, P) => BoundsIn(r, P)
    BY <1>5 DEF KeepsBounds, BoundsIn
  <2> QED BY <1>1, <2>1, <2>2, <2>3, <2>4
<1>6. CASE TakesBounds(a, b, r)
  <2>1. ASSUME NEW v \in Values, Holds(a, v) PROVE Holds(r, v)
    <3>1. v = Null
      BY <1>6, <2>1 DEF TakesBounds, Holds
    <3> QED BY <1>3, <2>1, <3>1 DEF Holds, Admits
  <2>2. ASSUME NEW v \in Values, Shows(b, v) PROVE Holds(r, v)
    BY <1>3, <1>6, <2>2 DEF TakesBounds, Shows, Holds, Admits
  <2>3. Clean(r)
    BY <1>6 DEF TakesBounds, Clean
  <2>4. \A P : BoundsIn(b, P) => BoundsIn(r, P)
    BY <1>6 DEF TakesBounds, BoundsIn
  <2> QED BY <1>1, <2>1, <2>2, <2>3, <2>4
<1>7. CASE MergesBounds(a, b, r)
  <2>1. /\ r.min # None => /\ a.min \in Int /\ b.min \in Int /\ a.min # None /\ b.min # None
                           /\ r.min \in {a.min, b.min} /\ r.min <= a.min /\ r.min <= b.min
        /\ r.max # None => /\ a.max \in Int /\ b.max \in Int /\ a.max # None /\ b.max # None
                           /\ r.max \in {a.max, b.max} /\ r.max >= a.max /\ r.max >= b.max
    <3>1. r.min = MergeBound(a.min, b.min, Min) /\ r.max = MergeBound(a.max, b.max, Max)
      BY <1>7 DEF MergesBounds
    <3> QED BY <1>2, <3>1, MergedMin, MergedMax
  <2>2. Valid(r)
    BY <1>7 DEF MergesBounds
  <2>3. ASSUME NEW v \in Values, Admits(a, v) \/ Admits(b, v) PROVE Holds(r, v)
    <3>1. CASE v = Null
      BY <1>3, <2>3, <3>1 DEF Holds, Admits
    <3>2. CASE v # Null
      <4>1. v \in Int
        BY <1>4, <3>2
      <4>2. r.min # None => r.min <= v
        BY <2>1, <2>3, <3>2, <4>1 DEF Admits
      <4>3. r.max # None => r.max >= v
        BY <2>1, <2>3, <3>2, <4>1 DEF Admits
      <4> QED BY <2>2, <3>2, <4>2, <4>3 DEF Holds, Admits
    <3> QED BY <3>1, <3>2
  <2>4. Clean(r)
    BY <2>2 DEF Clean
  <2>5. \A P : BoundsIn(a, P) /\ BoundsIn(b, P) => BoundsIn(r, P)
    BY <2>1 DEF BoundsIn
  <2> QED BY <1>1, <2>3, <2>4, <2>5 DEF Holds, Shows
<1> QED BY <1>1, <1>5, <1>6, <1>7


MergeStep(b, m) == IF m = None THEN b ELSE MergeStats(m, b)

\* The merge of many columns, one after the other.
LEMMA MergeAllFolds ==
    ASSUME NEW B, IsFiniteSet(B), B \subseteq Columns, NEW a \in Columns \cup {None}
    PROVE  \E g : /\ g[{}] = a /\ g[B] = MergeAll(a, B)
                  /\ \A s \in SUBSET B : s # {} => g[s] = MergeStep(Chosen(s), g[s \ {Chosen(s)}])
<1> DEFINE Y == Columns \cup {None}
           h == [p \in B \X Y |-> MergeStep(p[1], p[2])]
           Step(g, s) == IF s = {} THEN a ELSE MergeStep(Chosen(s), g[s \ {Chosen(s)}])
           Is(g) == g = [s \in SUBSET B |-> Step(g, s)]
           it == CHOOSE g : Is(g)
<1>1. PICK g : Folds(g, B, a, h)
  <2> HIDE DEF h
  <2> QED BY FoldExists
<1>2. \A x \in B, y \in Y : h[<<x, y>>] = MergeStep(x, y)
  OBVIOUS
<1>3. ASSUME NEW x \in B, NEW y \in Y PROVE MergeStep(x, y) \in Y
  <2>1. x \in Columns
    OBVIOUS
  <2>2. CASE y = None
    BY <2>1, <2>2 DEF MergeStep
  <2>3. CASE y # None
    BY <2>1, <2>3, MergeCases DEF MergeStep
  <2> QED BY <2>2, <2>3
<1> HIDE DEF h
<1>4. /\ g[{}] = a
      /\ \A s \in SUBSET B : s # {} => g[s] = h[<<Chosen(s), g[s \ {Chosen(s)}]>>]
  <2>1. \A s \in SUBSET B : g[s] = FoldStep(g, a, h, s)
    BY <1>1 DEF Folds
  <2> QED BY <2>1 DEF FoldStep
<1> DEFINE T == {s \in SUBSET B : g[s] \in Y}
<1>5. {} \in T
  BY <1>4
<1>6. ASSUME NEW s \in SUBSET B, s # {}, s \ {Chosen(s)} \in T
      PROVE  g[s] = MergeStep(Chosen(s), g[s \ {Chosen(s)}]) /\ s \in T
  <2>1. Chosen(s) \in B
    BY <1>6, ChosenIsIn
  <2>2. g[s] = h[<<Chosen(s), g[s \ {Chosen(s)}]>>] /\ g[s \ {Chosen(s)}] \in Y
    BY <1>4, <1>6
  <2> HIDE DEF Y
  <2> QED BY <1>2, <1>3, <2>1, <2>2
<1>7. \A s \in SUBSET B : s \in T
  <2> HIDE DEF T
  <2> QED BY <1>5, <1>6, SubsetInduction
<1>8. \A s \in SUBSET B : g[s] = Step(g, s)
  <2> TAKE s \in SUBSET B
  <2>1. CASE s = {}
    BY <2>1, <1>4
  <2>2. CASE s # {}
    <3>1. s \ {Chosen(s)} \in T
      BY <1>7
    <3> HIDE DEF T
    <3> QED BY <2>2, <3>1, <1>6
  <2> QED BY <2>1, <2>2
<1>9. Is(g)
  <2>1. g = [s \in SUBSET B |-> g[s]]
    BY <1>1 DEF Folds
  <2> HIDE DEF Step
  <2> QED BY <1>8, <2>1
<1>10. Is(it)
  <2> HIDE DEF Is
  <2> QED BY <1>9
<1>11. MergeAll(a, B) = it[B]
  BY DEF MergeAll, FoldSet, MapThenFoldSet, Chosen, MergeStep
<1>12. \A s \in SUBSET B : it[s] = Step(it, s)
  <2> HIDE DEF Step, it
  <2> QED BY <1>10
<1> HIDE DEF it
<1>13. it[{}] = a /\ \A s \in SUBSET B : s # {} => it[s] = MergeStep(Chosen(s), it[s \ {Chosen(s)}])
  BY <1>12
<1> QED BY <1>11, <1>13

\* What the merge x of the column a with those of s says.
MergedOk(x, a, s, P) ==
    /\ x \in Columns \cup {None}
    /\ x = None => a = None /\ s = {}
    /\ x # None => Clean(x) /\ BoundsIn(x, P)
    /\ \A v \in Values : (a # None /\ Holds(a, v)) \/ (\E b \in s : Shows(b, v)) => Holds(x, v)

LEMMA NoneNotColumn ==
    ASSUME NoneIsNoColumn
    PROVE  None \notin Columns /\ None \notin StoredColumns
<1>1. None \notin Columns
  BY ColumnParts DEF NoneIsNoColumn
<1>2. \A x \in StoredColumns : DOMAIN x = StoredFields
  BY DEF StoredColumns, StoredFields
<1> QED BY <1>1, <1>2 DEF NoneIsNoColumn

\* A merge speaks for every value of what is merged, and its bounds are among theirs.
LEMMA MergeAllHolds ==
    ASSUME NoneIsNoColumn, NEW B, IsFiniteSet(B), NEW P,
           \A b \in B : b \in Columns /\ Clean(b) /\ BoundsIn(b, P),
           NEW a \in Columns \cup {None}, a # None => Clean(a) /\ BoundsIn(a, P),
           NEW x, x = MergeAll(a, B)
    PROVE  MergedOk(x, a, B, P)
<1>1. PICK g : /\ g[{}] = a /\ g[B] = MergeAll(a, B)
               /\ \A s \in SUBSET B : s # {} => g[s] = MergeStep(Chosen(s), g[s \ {Chosen(s)}])
  <2>1. B \subseteq Columns
    OBVIOUS
  <2> QED BY <2>1, MergeAllFolds
<1> DEFINE T == {s \in SUBSET B : MergedOk(g[s], a, s, P)}
<1>2. {} \in T
  BY <1>1 DEF MergedOk
<1>3. ASSUME NEW s \in SUBSET B, s # {}, s \ {Chosen(s)} \in T PROVE s \in T
  <2> DEFINE c == Chosen(s)
             r == s \ {c}
             m == g[r]
             y == g[s]
  <2>1. c \in s /\ c \in B /\ c \in Columns /\ Clean(c) /\ BoundsIn(c, P)
    BY <1>3, ChosenIsIn
  <2>2. MergedOk(m, a, r, P)
    BY <1>3
  <2>3. y = MergeStep(c, m)
    BY <1>1, <1>3
  <2>4. s = r \cup {c}
    BY <2>1
  <2> HIDE DEF c, m, y, r
  <2>5. CASE m = None
    <3>1. y = c /\ a = None /\ r = {}
      BY <2>2, <2>3, <2>5 DEF MergeStep, MergedOk
    <3>2. \A v \in Values : Shows(c, v) => Holds(c, v)
      BY DEF Shows, Holds
    <3>3. y # None
      BY <2>1, <3>1, NoneNotColumn
    <3> QED BY <2>1, <2>4, <3>1, <3>2, <3>3 DEF MergedOk, y
  <2>6. CASE m # None
    <3>1. y = MergeStats(m, c) /\ m \in Columns /\ Clean(m) /\ BoundsIn(m, P)
      BY <2>2, <2>3, <2>6 DEF MergeStep, MergedOk
    <3>2. /\ y \in Columns /\ Clean(y)
          /\ \A v \in Values : Holds(m, v) => Holds(y, v)
          /\ \A v \in Values : Shows(c, v) => Holds(y, v)
      BY <2>1, <3>1, MergeHolds
    <3>3. BoundsIn(y, P)
      BY <2>1, <3>1, MergeHolds
    <3>4. y # None
      BY <3>2, NoneNotColumn
    <3>5. ASSUME NEW v \in Values, (a # None /\ Holds(a, v)) \/ \E b \in s : Shows(b, v) PROVE Holds(y, v)
      <4>1. CASE Shows(c, v)
        BY <3>2, <4>1
      <4>2. CASE (a # None /\ Holds(a, v)) \/ \E b \in r : Shows(b, v)
        <5>1. Holds(m, v)
          BY <2>2, <4>2 DEF MergedOk
        <5> QED BY <3>2, <5>1
      <4> QED BY <2>4, <3>5, <4>1, <4>2
    <3>6. MergedOk(y, a, s, P)
      BY <3>2, <3>3, <3>4, <3>5 DEF MergedOk
    <3> QED BY <3>6 DEF y
  <2> QED BY <2>5, <2>6
<1>4. B \in T
  <2>1. \A s \in SUBSET B : s \in T
    <3> HIDE DEF T
    <3> QED BY <1>2, <1>3, SubsetInduction
  <2> HIDE DEF T
  <2> QED BY <2>1
<1> QED BY <1>1, <1>4

\* A finite set of integers has bounds.
LEMMA MinOfSet ==
    ASSUME NEW S, IsFiniteSet(S), S \subseteq Int, S # {}
    PROVE  /\ Min(S) \in S /\ \A y \in S : Min(S) <= y
           /\ Max(S) \in S /\ \A y \in S : Max(S) >= y
<1> DEFINE low(s) == \E x \in s : \A y \in s : x <= y
           high(s) == \E x \in s : \A y \in s : x >= y
           T == {s \in SUBSET S : s # {} => low(s) /\ high(s)}
<1>1. {} \in T
  OBVIOUS
<1>2. ASSUME NEW s \in SUBSET S, s # {}, s \ {Chosen(s)} \in T PROVE s \in T
  <2> DEFINE c == Chosen(s)
             r == s \ {c}
  <2>1. c \in s
    BY <1>2, ChosenIsIn
  <2>2. r # {} => low(r) /\ high(r)
    BY <1>2
  <2> HIDE DEF c
  <2>3. s = r \cup {c} /\ r \subseteq Int /\ c \in Int
    BY <2>1
  <2> HIDE DEF r
  <2>4. CASE r = {}
    BY <2>3, <2>4
  <2>5. CASE r # {}
    <3>1. PICK l \in r : \A y \in r : l <= y
      BY <2>2, <2>5
    <3>2. PICK u \in r : \A y \in r : u >= y
      BY <2>2, <2>5
    <3>3. low(s)
      <4>1. CASE c <= l
        BY <2>3, <3>1, <4>1
      <4>2. CASE l <= c
        BY <2>3, <3>1, <4>2
      <4> QED BY <2>3, <3>1, <4>1, <4>2
    <3>4. high(s)
      <4>1. CASE c >= u
        BY <2>3, <3>2, <4>1
      <4>2. CASE u >= c
        BY <2>3, <3>2, <4>2
      <4> QED BY <2>3, <3>2, <4>1, <4>2
    <3> QED BY <3>3, <3>4
  <2> QED BY <2>4, <2>5
<1>3. low(S) /\ high(S)
  <2>1. \A s \in SUBSET S : s \in T
    <3> HIDE DEF T
    <3> QED BY <1>1, <1>2, SubsetInduction
  <2> QED BY <2>1
<1>4. Min(S) = CHOOSE x \in S : \A y \in S : x <= y
  BY DEF Min
<1>5. Max(S) = CHOOSE x \in S : \A y \in S : x >= y
  BY DEF Max
<1>6. Min(S) \in S /\ \A y \in S : Min(S) <= y
  BY <1>3, <1>4
<1>7. Max(S) \in S /\ \A y \in S : Max(S) >= y
  BY <1>3, <1>5
<1> QED BY <1>6, <1>7

\* The statistics of a file show the file's values.
LEMMA FileStatsShow ==
    ASSUME NEW values \in SUBSET Values, NEW bounded \in BOOLEAN, NEW x, x = FileStats(values, bounded)
    PROVE  /\ x \in Columns /\ Clean(x) /\ BoundsIn(x, values \ {Null})
           /\ \A v \in values : Shows(x, v)
<1> DEFINE valid == values \ {Null}
<1>1. valid \subseteq Int /\ IsFiniteSet(valid)
  <2>1. valid \in SUBSET Values /\ valid \subseteq Int
    BY StatisticsAssumption
  <2> HIDE DEF valid
  <2> QED BY <2>1, StatisticsAssumption, FS_Subset
<1> DEFINE nulls == IF Null \in values THEN "yes" ELSE "no"
           min == IF bounded /\ valid # {} THEN Min(valid) ELSE None
           max == IF bounded /\ valid # {} THEN Max(valid) ELSE None
           any == valid # {}
<1>2. x = [nulls |-> nulls, min |-> min, max |-> max, any_valid |-> any, bounds_unknown |-> FALSE]
  BY DEF FileStats
<1>3. valid # {} => /\ Min(valid) \in valid /\ \A y \in valid : Min(valid) <= y
                    /\ Max(valid) \in valid /\ \A y \in valid : Max(valid) >= y
  <2> HIDE DEF valid
  <2> QED BY <1>1, MinOfSet
<1>4. nulls \in Nulls /\ (Null \in values => nulls # "no")
  BY DEF Nulls
<1>5. /\ min \in Bounds /\ max \in Bounds /\ any \in BOOLEAN
      /\ min # None => valid # {} /\ min \in valid /\ \A y \in valid : min <= y
      /\ max # None => valid # {} /\ max \in valid /\ \A y \in valid : max >= y
  <2>0. any \in BOOLEAN
    OBVIOUS
  <2> HIDE DEF valid
  <2> QED BY <1>1, <1>3, <2>0 DEF Bounds
<1>6. \A v \in values : v # Null => v \in valid
  OBVIOUS
<1>7. any <=> valid # {}
  OBVIOUS
<1> HIDE DEF nulls, min, max, any, valid
<1>8. x \in Columns /\ x.nulls = nulls /\ x.min = min /\ x.max = max /\ x.any_valid = any
  BY <1>2, <1>4, <1>5 DEF Columns
<1>9. Valid(x) <=> valid # {}
  BY <1>7, <1>8 DEF Valid
<1>10. Clean(x)
  BY <1>5, <1>8, <1>9 DEF Clean, HasBounds
<1>11. BoundsIn(x, valid)
  BY <1>5, <1>8 DEF BoundsIn
<1>12. \A v \in values : Shows(x, v)
  BY <1>4, <1>5, <1>6, <1>8, <1>9 DEF Shows, Admits
<1> QED BY <1>8, <1>10, <1>11, <1>12 DEF valid

\* The statistics of a column as they are stored and as they are loaded.
LEMMA StoredColumn ==
    ASSUME NEW x \in Columns, NEW y, y = ConvertNewGlobalStats(x)
    PROVE  y \in StoredColumns /\ y.nulls = x.nulls /\ y.min = x.min /\ y.max = x.max
BY ColumnParts DEF ConvertNewGlobalStats, StoredColumns

\* What a process reads back of a column that is stored.
LEMMA LoadedColumn ==
    ASSUME NEW y \in StoredColumns, NEW b \in BOOLEAN, NEW x, x = FromGlobalStats(y, b)
    PROVE  /\ x \in Columns /\ x.nulls = y.nulls /\ x.min = y.min /\ x.max = y.max
           /\ Clean(x)
           /\ b => \A v \in Values : Admits(y, v) => Holds(x, v)
<1> DEFINE valid == y.min # None \/ y.max # None
           lost == ~valid /\ b
<1>1. x = [nulls |-> y.nulls, min |-> y.min, max |-> y.max, any_valid |-> valid, bounds_unknown |-> lost]
  BY DEF FromGlobalStats
<1>2. y.nulls \in Nulls /\ y.min \in Bounds /\ y.max \in Bounds
  BY DEF StoredColumns
<1>3. valid \in BOOLEAN /\ lost \in BOOLEAN /\ (valid <=> HasBounds(y)) /\ (lost <=> ~valid /\ b)
  BY DEF HasBounds
<1> HIDE DEF valid, lost
<1>4. /\ x \in Columns /\ x.nulls = y.nulls /\ x.min = y.min /\ x.max = y.max
      /\ x.any_valid = valid /\ x.bounds_unknown = lost
  BY <1>1, <1>2, <1>3 DEF Columns
<1>5. (Valid(x) <=> valid) /\ (Unknown(x) <=> lost)
  BY <1>4 DEF Valid, Unknown
<1>6. Clean(x)
  BY <1>3, <1>4, <1>5 DEF Clean, HasBounds
<1>7. b => \A v \in Values : Admits(y, v) => Holds(x, v)
  BY <1>3, <1>4, <1>5 DEF Holds, Admits
<1> QED BY <1>4, <1>6, <1>7

----------------------------------------------------------------------------
(* Rows and their number.                                                  *)

\* A row as a pair of its id and its value, wherever it is stored.
Pair(r) == <<r.rid, r.val>>
Pairs(rows) == {Pair(r) : r \in rows}

PairsOf(files) == UNION {Pairs(f.rows) : f \in files}
LivePairs(v) == UNION {Pairs(LiveIn(f)) : f \in v.data_file}

\* The rows that record_count may not be below, those that are live, and all.
Counted(v) == PairsOf(v.data_file) \cup Pairs(LiveInlined(v))
LiveRows(v) == LivePairs(v) \cup Pairs(LiveInlined(v))
AllPairs(v) == PairsOf(v.data_file) \cup Pairs(v.inlined)

\* A file with finitely many rows, whose deletions are of rows that it has.
SolidFile(f) ==
    /\ IsFiniteSet(f.rows) /\ \A r \in f.rows : r.val \in Values
    /\ f.deleted \subseteq Rid(f.rows) /\ f.inlined_deleted \subseteq Rid(f.rows)
    /\ f.bounded \in BOOLEAN
    /\ f = [id |-> f.id, rows |-> f.rows, deleted |-> f.deleted,
            inlined_deleted |-> f.inlined_deleted, bounded |-> f.bounded]

SolidView(v) ==
    /\ \A f \in v.data_file : SolidFile(f)
    /\ IsFiniteSet(v.inlined) /\ \A r \in v.inlined : r.val \in Values

\* There are as many pairs as rows.
LEMMA PairsCount ==
    ASSUME NEW rows, NEW n, GoodRows(rows, n), IsFiniteSet(rows)
    PROVE  /\ IsFiniteSet(Pairs(rows)) /\ Cardinality(Pairs(rows)) = Cardinality(rows)
           /\ Cardinality(rows) \in Nat
<1> DEFINE f == [r \in rows |-> Pair(r)]
           T == Pairs(rows)
<1>1. f \in Surjection(rows, T)
  BY DEF Surjection, Pairs
<1>2. f \in Injection(rows, T)
  <2>1. f \in [rows -> T]
    BY DEF Pairs
  <2>2. \A r, q \in rows : f[r] = f[q] => r = q
    BY DEF Pair, GoodRows
  <2> HIDE DEF f, T
  <2> QED BY <2>1, <2>2 DEF Injection, IsInjective
<1> HIDE DEF f, T
<1>3. IsFiniteSet(T) /\ Cardinality(T) = Cardinality(rows)
  BY <1>1, <1>2, FS_Surjection
<1> QED BY <1>3, FS_CardinalityType DEF T

LEMMA PairsDisjoint ==
    ASSUME NEW rows, NEW others, Disjoint(rows, others)
    PROVE  Pairs(rows) \cap Pairs(others) = {}
<1>1. \A r \in rows, q \in others : r.rid # q.rid
  BY DisjointMeans
<1>2. \A r \in rows, q \in others : Pair(r) # Pair(q)
  BY <1>1 DEF Pair
<1> QED BY <1>2 DEF Pairs

\* The rows of files are counted file by file.
LEMMA RowsOfFiles ==
    ASSUME NEW S, IsFiniteSet(S), NEW n,
           \A f \in S : IsFiniteSet(f.rows) /\ GoodRows(f.rows, n),
           \A f, g \in S : f # g => Disjoint(f.rows, g.rows)
    PROVE  /\ IsFiniteSet(PairsOf(S)) /\ Cardinality(PairsOf(S)) \in Nat
           /\ MapThenSumSet(RowCount, S) = Cardinality(PairsOf(S))
<1> DEFINE w == [f \in S |-> RowCount(f)]
           R == [f \in S |-> Pairs(f.rows)]
<1>1. \A f \in S : /\ IsFiniteSet(Pairs(f.rows)) /\ Cardinality(Pairs(f.rows)) = RowCount(f)
                   /\ RowCount(f) \in Nat
  BY PairsCount DEF RowCount
<1>2. w \in [S -> Int] /\ \A f \in S : w[f] = RowCount(f)
  BY <1>1
<1>3. /\ \A f \in S : IsFiniteSet(R[f]) /\ Cardinality(R[f]) = w[f]
      /\ \A f, g \in S : f # g => R[f] \cap R[g] = {}
  <2>1. \A f, g \in S : f # g => Pairs(f.rows) \cap Pairs(g.rows) = {}
    BY PairsDisjoint
  <2> QED BY <1>1, <2>1
<1>4. AllOf(R, S) = PairsOf(S)
  BY DEF AllOf, PairsOf
<1> HIDE DEF w, R
<1>5. PICK g : Sums(g, S, w) /\ MapThenSumSet(RowCount, S) = g[S]
  BY <1>2, RowCountSum
<1>6. \A f \in S : w[f] \in Int /\ w[f] <= Cardinality(R[f]) /\ w[f] >= Cardinality(R[f])
  BY <1>2, <1>3
<1>7. /\ IsFiniteSet(AllOf(R, S)) /\ g[S] \in Int
      /\ g[S] <= Cardinality(AllOf(R, S)) /\ g[S] >= Cardinality(AllOf(R, S))
  BY <1>2, <1>3, <1>5, <1>6, DisjointSum
<1>8. Cardinality(AllOf(R, S)) \in Nat
  BY <1>7, FS_CardinalityType
<1> QED BY <1>4, <1>5, <1>7, <1>8

\* A row may be deleted twice, in a delete file and inlined: the net count is at most
\* the number of live rows.
LEMMA LiveRowsOfFile ==
    ASSUME NEW f, SolidFile(f), NEW n, GoodRows(f.rows, n)
    PROVE  /\ IsFiniteSet(Pairs(LiveIn(f))) /\ NetRows(f) \in Int
           /\ NetRows(f) <= Cardinality(Pairs(LiveIn(f)))
<1> DEFINE rows == f.rows
           live == LiveIn(f)
           gone == f.deleted \cup f.inlined_deleted
           dead == {r \in rows : r.rid \in gone}
           a == Cardinality(rows)
           d == Cardinality(f.deleted)
           i == Cardinality(f.inlined_deleted)
<1>1. live = rows \ dead /\ dead \subseteq rows /\ live \in SUBSET rows
  BY DEF LiveIn
<1>2. IsFiniteSet(rows) /\ f.deleted \in SUBSET Rid(rows) /\ f.inlined_deleted \in SUBSET Rid(rows)
  BY DEF SolidFile
<1>3. IsFiniteSet(Rid(rows))
  <2> DEFINE ids == [r \in rows |-> r.rid]
             all == Rid(rows)
  <2>1. \A y \in all : \E x \in rows : y = ids[x]
    BY DEF Rid
  <2> HIDE DEF ids, all
  <2>2. IsFiniteSet(all)
    BY <1>2, <2>1, ImageIsFinite
  <2> QED BY <2>2 DEF all
<1>4. IsFiniteSet(f.deleted) /\ IsFiniteSet(f.inlined_deleted) /\ d \in Nat /\ i \in Nat
  <2>1. IsFiniteSet(f.deleted) /\ IsFiniteSet(f.inlined_deleted)
    BY <1>2, <1>3, FS_Subset
  <2> QED BY <2>1, FS_CardinalityType
<1>5. IsFiniteSet(gone) /\ Cardinality(gone) \in Nat /\ Cardinality(gone) <= d + i
  <2>1. /\ IsFiniteSet(gone)
        /\ Cardinality(gone) = d + i - Cardinality(f.deleted \cap f.inlined_deleted)
    BY <1>4, FS_Union
  <2>2. Cardinality(f.deleted \cap f.inlined_deleted) \in Nat
    BY <1>4, FS_Intersection, FS_CardinalityType
  <2>3. Cardinality(gone) \in Nat
    BY <2>1, FS_CardinalityType
  <2> HIDE DEF gone, d, i
  <2> QED BY <1>4, <2>1, <2>2, <2>3
<1>6. Cardinality(dead) <= Cardinality(gone)
  <2> DEFINE ids == [r \in dead |-> r.rid]
  <2>1. ids \in [dead -> gone]
    OBVIOUS
  <2>2. \A r, q \in dead : ids[r] = ids[q] => r = q
    BY DEF GoodRows
  <2> HIDE DEF ids, dead, gone
  <2>3. ids \in Injection(dead, gone)
    BY <2>1, <2>2 DEF Injection, IsInjective
  <2> QED BY <1>5, <2>3, FS_Injection
<1> HIDE DEF gone, dead
<1>7. a \in Nat /\ IsFiniteSet(dead) /\ Cardinality(dead) \in Nat
  BY <1>1, <1>2, FS_CardinalityType, FS_Subset
<1>8. IsFiniteSet(live) /\ Cardinality(live) = a - Cardinality(dead)
  <2>1. rows \cap dead = dead
    BY <1>1
  <2> HIDE DEF rows, live
  <2>2. IsFiniteSet(rows \ dead) /\ Cardinality(rows \ dead) = Cardinality(rows) - Cardinality(rows \cap dead)
    BY <1>2, FS_Difference DEF rows
  <2> QED BY <1>1, <2>1, <2>2
<1>9. GoodRows(live, n)
  BY <1>1 DEF GoodRows
<1>10. IsFiniteSet(Pairs(live)) /\ Cardinality(Pairs(live)) = Cardinality(live)
  BY <1>8, <1>9, PairsCount
<1>11. NetRows(f) = a - d - i
  BY DEF NetRows, RowCount
<1> HIDE DEF a, d, i, live
<1>12. NetRows(f) \in Int /\ NetRows(f) <= Cardinality(live)
  BY <1>4, <1>5, <1>6, <1>7, <1>8, <1>11
<1> QED BY <1>10, <1>12 DEF live

\* The same for all files.
LEMMA NetRowsOfFiles ==
    ASSUME NEW v, GoodView(v), SolidView(v)
    PROVE  /\ IsFiniteSet(LivePairs(v)) /\ NetDataFileRowCount(v) \in Int
           /\ NetDataFileRowCount(v) <= Cardinality(LivePairs(v))
<1> DEFINE S == v.data_file
           w == [f \in S |-> NetRows(f)]
           R == [f \in S |-> Pairs(LiveIn(f))]
           n == Start(v.stats)
<1>1. /\ IsFiniteSet(S) /\ \A f \in S : SolidFile(f) /\ GoodRows(f.rows, n)
      /\ \A f, g \in S : f # g => Disjoint(f.rows, g.rows)
  BY DEF GoodView, GoodFiles, SolidView
<1> HIDE DEF n
<1>2. \A f \in S : /\ IsFiniteSet(Pairs(LiveIn(f))) /\ NetRows(f) \in Int
                   /\ NetRows(f) <= Cardinality(Pairs(LiveIn(f)))
  BY <1>1, LiveRowsOfFile
<1>3. w \in [S -> Int] /\ \A f \in S : w[f] = NetRows(f)
  BY <1>2
<1>4. /\ \A f \in S : IsFiniteSet(R[f]) /\ w[f] <= Cardinality(R[f])
      /\ \A f, g \in S : f # g => R[f] \cap R[g] = {}
  <2>1. ASSUME NEW f \in S, NEW g \in S, f # g PROVE Pairs(LiveIn(f)) \cap Pairs(LiveIn(g)) = {}
    <3>1. Pairs(f.rows) \cap Pairs(g.rows) = {}
      BY <1>1, <2>1, PairsDisjoint
    <3>2. Pairs(LiveIn(f)) \subseteq Pairs(f.rows) /\ Pairs(LiveIn(g)) \subseteq Pairs(g.rows)
      BY DEF Pairs, LiveIn
    <3> QED BY <3>1, <3>2
  <2> QED BY <1>2, <2>1
<1>5. AllOf(R, S) = LivePairs(v)
  BY DEF AllOf, LivePairs
<1> HIDE DEF w, R
<1>6. PICK g : Sums(g, S, w) /\ NetDataFileRowCount(v) = g[S]
  <2>1. S = v.data_file
    OBVIOUS
  <2> HIDE DEF S
  <2> QED BY <1>1, <1>3, <2>1, NetRowsSum
<1>7. IsFiniteSet(AllOf(R, S)) /\ g[S] \in Int /\ g[S] <= Cardinality(AllOf(R, S))
  <2> HIDE DEF S
  <2> QED BY <1>1, <1>3, <1>4, <1>6, DisjointSum
<1> QED BY <1>5, <1>6, <1>7

\* The rows of a snapshot.
LEMMA ViewPairs ==
    ASSUME NEW v, GoodView(v), SolidView(v)
    PROVE  /\ IsFiniteSet(AllPairs(v)) /\ IsFiniteSet(Counted(v)) /\ IsFiniteSet(LiveRows(v))
           /\ LiveRows(v) \subseteq Counted(v) /\ Counted(v) \subseteq AllPairs(v)
           /\ \A q \in AllPairs(v) : q[1] \in Nat /\ q[1] <= Start(v.stats) /\ q[2] \in Values
           /\ \A p, q \in AllPairs(v) : p[1] = q[1] => p = q
<1> DEFINE n == Start(v.stats)
<1>1. /\ IsFiniteSet(v.data_file)
      /\ \A f \in v.data_file : SolidFile(f) /\ GoodRows(f.rows, n) /\ Disjoint(f.rows, v.inlined)
      /\ \A f, g \in v.data_file : f # g => Disjoint(f.rows, g.rows)
      /\ GoodRows(v.inlined, n) /\ IsFiniteSet(v.inlined) /\ \A r \in v.inlined : r.val \in Values
  BY DEF GoodView, GoodFiles, GoodInlined, SolidView
<1> HIDE DEF n
<1>2. IsFiniteSet(PairsOf(v.data_file)) /\ IsFiniteSet(Pairs(v.inlined))
  BY <1>1, RowsOfFiles, PairsCount DEF SolidFile
<1>3. IsFiniteSet(AllPairs(v))
  BY <1>2, FS_Union DEF AllPairs
<1>4. LiveInlined(v) \subseteq v.inlined
  BY DEF LiveInlined
<1>5. Counted(v) \subseteq AllPairs(v)
  BY <1>4 DEF Counted, AllPairs, Pairs
<1>6. LiveRows(v) \subseteq Counted(v)
  <2>1. \A f \in v.data_file : Pairs(LiveIn(f)) \subseteq Pairs(f.rows)
    BY DEF Pairs, LiveIn
  <2>2. LivePairs(v) \subseteq PairsOf(v.data_file)
    BY <2>1 DEF LivePairs, PairsOf
  <2> QED BY <2>2 DEF LiveRows, Counted
<1>7. \A q \in AllPairs(v) : \/ \E f \in v.data_file : \E r \in f.rows : q = Pair(r)
                             \/ \E r \in v.inlined : q = Pair(r)
  BY DEF AllPairs, PairsOf, Pairs
<1>8. \A q \in AllPairs(v) : q[1] \in Nat /\ q[1] <= n /\ q[2] \in Values
  <2>1. \A f \in v.data_file : \A r \in f.rows : r.rid \in Nat /\ r.rid <= n /\ r.val \in Values
    BY <1>1 DEF GoodRows, SolidFile
  <2>2. \A r \in v.inlined : r.rid \in Nat /\ r.rid <= n /\ r.val \in Values
    BY <1>1 DEF GoodRows
  <2> QED BY <1>7, <2>1, <2>2 DEF Pair
<1>9. ASSUME NEW p \in AllPairs(v), NEW q \in AllPairs(v), p[1] = q[1] PROVE p = q
  <2>1. CASE \E f \in v.data_file : \E r \in f.rows : p = Pair(r)
    <3>1. PICK f \in v.data_file : \E r \in f.rows : p = Pair(r)
      BY <2>1
    <3>2. PICK r \in f.rows : p = Pair(r) /\ p[1] = r.rid
      BY <3>1 DEF Pair
    <3>3. CASE \E g \in v.data_file : \E s \in g.rows : q = Pair(s)
      <4>1. PICK g \in v.data_file : \E s \in g.rows : q = Pair(s)
        BY <3>3
      <4>2. PICK s \in g.rows : q = Pair(s) /\ q[1] = s.rid
        BY <4>1 DEF Pair
      <4>3. f = g
        BY <1>1, <1>9, <3>2, <4>2, DisjointMeans
      <4>4. r = s
        BY <1>1, <1>9, <3>2, <4>2, <4>3 DEF GoodRows
      <4> QED BY <3>2, <4>2, <4>4
    <3>4. CASE \E s \in v.inlined : q = Pair(s)
      <4>1. PICK s \in v.inlined : q = Pair(s) /\ q[1] = s.rid
        BY <3>4 DEF Pair
      <4> QED BY <1>1, <1>9, <3>2, <4>1, DisjointMeans
    <3> QED BY <1>7, <3>3, <3>4
  <2>2. CASE \E r \in v.inlined : p = Pair(r)
    <3>1. PICK r \in v.inlined : p = Pair(r) /\ p[1] = r.rid
      BY <2>2 DEF Pair
    <3>2. CASE \E g \in v.data_file : \E s \in g.rows : q = Pair(s)
      <4>1. PICK g \in v.data_file : \E s \in g.rows : q = Pair(s)
        BY <3>2
      <4>2. PICK s \in g.rows : q = Pair(s) /\ q[1] = s.rid
        BY <4>1 DEF Pair
      <4> QED BY <1>1, <1>9, <3>1, <4>2, DisjointMeans
    <3>3. CASE \E s \in v.inlined : q = Pair(s)
      <4>1. PICK s \in v.inlined : q = Pair(s) /\ q[1] = s.rid
        BY <3>3 DEF Pair
      <4>2. r = s
        BY <1>1, <1>9, <3>1, <4>1 DEF GoodRows
      <4> QED BY <3>1, <4>1, <4>2
    <3> QED BY <1>7, <3>2, <3>3
  <2> QED BY <1>7, <2>1, <2>2
<1>10. IsFiniteSet(Counted(v)) /\ IsFiniteSet(LiveRows(v))
  BY <1>3, <1>5, <1>6, FS_Subset
<1> QED BY <1>3, <1>5, <1>6, <1>8, <1>9, <1>10 DEF n

\* The numbers that the code computes are numbers of rows.
LEMMA ViewCounts ==
    ASSUME NEW v, GoodView(v), SolidView(v)
    PROVE  /\ Cardinality(AllPairs(v)) \in Nat /\ Cardinality(Counted(v)) \in Nat
           /\ Cardinality(LiveRows(v)) \in Nat
           /\ Cardinality(LiveRows(v)) <= Cardinality(Counted(v))
           /\ AllRows(v) \in Int /\ Cardinality(AllPairs(v)) <= AllRows(v)
           /\ MapThenSumSet(RowCount, v.data_file) \in Int /\ NetInlinedRowCount(v) \in Int
           /\ Cardinality(Counted(v)) <= MapThenSumSet(RowCount, v.data_file) + NetInlinedRowCount(v)
           /\ NetDataFileRowCount(v) \in Int
           /\ NetDataFileRowCount(v) + NetInlinedRowCount(v) <= Cardinality(LiveRows(v))
<1> DEFINE n == Start(v.stats)
           F == PairsOf(v.data_file)
           L == LivePairs(v)
           I == Pairs(v.inlined)
           J == Pairs(LiveInlined(v))
           gross == MapThenSumSet(RowCount, v.data_file)
<1>1. /\ IsFiniteSet(v.data_file)
      /\ \A f \in v.data_file : SolidFile(f) /\ GoodRows(f.rows, n) /\ Disjoint(f.rows, v.inlined)
      /\ \A f, g \in v.data_file : f # g => Disjoint(f.rows, g.rows)
      /\ GoodRows(v.inlined, n) /\ IsFiniteSet(v.inlined)
  BY DEF GoodView, GoodFiles, GoodInlined, SolidView
<1> HIDE DEF n
<1>2. LiveInlined(v) \in SUBSET v.inlined
  BY DEF LiveInlined
<1>3. IsFiniteSet(F) /\ Cardinality(F) \in Nat /\ gross = Cardinality(F)
  BY <1>1, RowsOfFiles DEF SolidFile
<1>4. IsFiniteSet(I) /\ Cardinality(I) = Cardinality(v.inlined) /\ Cardinality(I) \in Nat
  BY <1>1, PairsCount
<1>5. IsFiniteSet(J) /\ Cardinality(J) = NetInlinedRowCount(v) /\ Cardinality(J) \in Nat
  <2> DEFINE live == LiveInlined(v)
  <2>1. GoodRows(live, n) /\ IsFiniteSet(live)
    BY <1>1, <1>2, FS_Subset DEF GoodRows
  <2>2. IsFiniteSet(Pairs(live)) /\ Cardinality(Pairs(live)) = Cardinality(live) /\ Cardinality(live) \in Nat
    <3> HIDE DEF live
    <3> QED BY <2>1, PairsCount
  <2> QED BY <2>2 DEF NetInlinedRowCount
<1>6. IsFiniteSet(L) /\ NetDataFileRowCount(v) \in Int /\ NetDataFileRowCount(v) <= Cardinality(L)
  BY NetRowsOfFiles
<1>7. Cardinality(L) \in Nat
  BY <1>6, FS_CardinalityType
<1>8. L \cap J = {}
  <2>1. \A f \in v.data_file : Pairs(f.rows) \cap Pairs(v.inlined) = {}
    BY <1>1, PairsDisjoint
  <2>2. \A f \in v.data_file : Pairs(LiveIn(f)) \subseteq Pairs(f.rows)
    BY DEF Pairs, LiveIn
  <2>3. J \subseteq Pairs(v.inlined)
    BY <1>2 DEF Pairs
  <2> HIDE DEF J
  <2> QED BY <2>1, <2>2, <2>3 DEF LivePairs
<1>9. AllPairs(v) = F \cup I /\ Counted(v) = F \cup J /\ LiveRows(v) = L \cup J
  BY DEF AllPairs, Counted, LiveRows
<1>10. AllRows(v) = gross + Cardinality(v.inlined)
  BY DEF AllRows
<1> HIDE DEF F, I, J, L, gross
<1>11. /\ Cardinality(F \cup I) = Cardinality(F) + Cardinality(I) - Cardinality(F \cap I)
       /\ Cardinality(F \cup J) = Cardinality(F) + Cardinality(J) - Cardinality(F \cap J)
       /\ Cardinality(L \cup J) = Cardinality(L) + Cardinality(J) - Cardinality(L \cap J)
  BY <1>3, <1>4, <1>5, <1>6, FS_Union
<1>12. Cardinality(F \cap I) \in Nat /\ Cardinality(F \cap J) \in Nat /\ Cardinality(L \cap J) = 0
  BY <1>3, <1>8, FS_Intersection, FS_CardinalityType, FS_EmptySet
<1>13. /\ Cardinality(AllPairs(v)) \in Nat /\ Cardinality(Counted(v)) \in Nat /\ Cardinality(LiveRows(v)) \in Nat
       /\ Cardinality(LiveRows(v)) <= Cardinality(Counted(v))
  BY ViewPairs, FS_CardinalityType, FS_Subset
<1>14. AllRows(v) \in Int /\ Cardinality(AllPairs(v)) <= AllRows(v)
  BY <1>3, <1>4, <1>9, <1>10, <1>11, <1>12
<1>15. Cardinality(Counted(v)) <= gross + NetInlinedRowCount(v)
  BY <1>3, <1>5, <1>9, <1>11, <1>12
<1>16. NetDataFileRowCount(v) + NetInlinedRowCount(v) <= Cardinality(LiveRows(v))
  BY <1>5, <1>6, <1>7, <1>9, <1>11, <1>12
<1> QED BY <1>3, <1>5, <1>6, <1>13, <1>14, <1>15, <1>16 DEF gross

----------------------------------------------------------------------------
(* Statistics that cover the rows.                                         *)

\* The values of rows, without NULL.
ValuesIn(rows) == {q[2] : q \in rows} \ {Null}

StatsTyped(s) == s # None => s.record_count \in Int /\ s.column \in StoredColumns \cup {None}

\* The column statistics have been deleted.
Lost(s) == s # None /\ s.column = None

\* Every row that may have to be pruned away or dropped is counted.
Counts(s, v) == s # None => s.record_count \in Nat /\ s.record_count >= Cardinality(Counted(v))

\* The column admits all rows, and its bounds are live values when no row is dead.
ColumnFits(s, v) ==
    /\ \A q \in Counted(v) : Admits(s.column, q[2])
    /\ HasBounds(s.column) =>
         /\ s.record_count >= Cardinality(Counted(v))
         /\ s.record_count = Cardinality(LiveRows(v)) => BoundsIn(s.column, ValuesIn(LiveRows(v)))

\* Statistics that a reader of the snapshot v may use.
Fits(s, v) == (s # None /\ ~Lost(s)) => ColumnFits(s, v)

\* What is known of statistics that are cached, or stored, for next_file_id = n.
KnownFits(n, s) ==
    /\ StatsTyped(s)
    /\ Lost(s) => Lost(db.stats)
    /\ n = db.next_file_id => Counts(s, db) /\ Fits(s, db)
    /\ \A c \in Clients : (txn[c].open /\ txn[c].view.next_file_id = n) => Fits(s, txn[c].view)

KnownInv == \A n, s : Known(n, s) => KnownFits(n, s)

\* The local changes of a transaction are about rows of its snapshot.
SolidWork(t) ==
    /\ SolidView(t.view)
    /\ \A i \in t.dropped_files : HasId(t.view.data_file, i)
    /\ \A d \in t.delete_files \cup t.file_deletes :
         \E f \in t.view.data_file : d.file = f.id /\ d.rids \subseteq Rid(f.rows)
    /\ \A i \in t.rewrites :
         \E f \in t.view.data_file : /\ f.id = i /\ LiveIn(f) # {}
                                     /\ f.deleted \cup f.inlined_deleted # {}

\* A transaction that removed the file has told so.
Removed(t, i) ==
    \E other \in t.others : \E x \in other.changes :
        (x[1] = "deleted_from_table" /\ i \in other.files) \/ x[1] = "rewrite_delete"

\* Inlined rows that are still there, and live if they were.
InlinedAgain(rows, now) == \A r \in rows : \E q \in now : q.rid = r.rid /\ q.val = r.val /\ (r.live => q.live)

\* What the transactions that have committed since left of a snapshot.
Tracks(t, now) ==
    /\ \A f \in t.view.data_file : HasId(now.data_file, f.id) \/ Removed(t, f.id)
    /\ NoneDid(t, {"inlined_delete", "inline_flush"}) => InlinedAgain(t.view.inlined, now.inlined)

SolidInv ==
    /\ SolidView(db)
    /\ \A c \in Clients : txn[c].open => SolidWork(txn[c]) /\ Tracks(txn[c], db)

\* The inductive invariant: all statistics that a process may come by fit the metadata
\* and the open snapshots of their next_file_id, and the local changes of open
\* transactions are about rows that they can still find.
StatsInv == RowIdInv /\ SolidInv /\ KnownInv

----------------------------------------------------------------------------
(* The files and the inlined rows of a commit are solid.                   *)

\* A file that stays, with the deletions of the commit.
LEMMA KeptFileParts ==
    ASSUME NEW v, NEW t, NEW f \in KeptFiles(v, t), \A g \in v.data_file : SolidFile(g)
    PROVE  \E g \in v.data_file :
             /\ g.id \notin t.dropped_files /\ g.id \notin t.rewrites
             /\ f.id = g.id /\ f.rows = g.rows /\ f.bounded = g.bounded
             /\ f.deleted = g.deleted \cup UNION {d.rids : d \in {e \in t.delete_files : e.file = g.id}}
             /\ f.inlined_deleted = g.inlined_deleted \cup UNION {d.rids : d \in {e \in t.file_deletes : e.file = g.id}}
             /\ f = [id |-> f.id, rows |-> f.rows, deleted |-> f.deleted,
                     inlined_deleted |-> f.inlined_deleted, bounded |-> f.bounded]
<1>1. PICK g \in v.data_file : g.id \notin t.dropped_files \cup t.rewrites /\ f = WithDeletes(g, t)
  BY DEF KeptFiles
<1> DEFINE a == UNION {d.rids : d \in {e \in t.delete_files : e.file = g.id}}
           b == UNION {d.rids : d \in {e \in t.file_deletes : e.file = g.id}}
<1>2. f = [g EXCEPT !.deleted = @ \cup a, !.inlined_deleted = @ \cup b]
  BY <1>1 DEF WithDeletes
<1> HIDE DEF a, b
<1>3. g = [id |-> g.id, rows |-> g.rows, deleted |-> g.deleted,
           inlined_deleted |-> g.inlined_deleted, bounded |-> g.bounded]
  BY DEF SolidFile
<1>4. f = [id |-> g.id, rows |-> g.rows, deleted |-> g.deleted \cup a,
           inlined_deleted |-> g.inlined_deleted \cup b, bounded |-> g.bounded]
  BY <1>2, <1>3
<1>5. f.id = g.id /\ f.rows = g.rows /\ f.bounded = g.bounded /\ f.deleted = g.deleted \cup a /\ f.inlined_deleted = g.inlined_deleted \cup b
  BY <1>4
<1> QED BY <1>1, <1>4, <1>5 DEF a, b

LEMMA KeptIsSolid ==
    ASSUME NEW v, NEW t, NEW f \in KeptFiles(v, t), SolidView(v), SolidWork(t), FindsRows(v, t)
    PROVE  SolidFile(f)
<1>1. \A g \in v.data_file : SolidFile(g)
  BY DEF SolidView
<1>2. PICK g \in v.data_file :
             /\ f.id = g.id /\ f.rows = g.rows /\ f.bounded = g.bounded
             /\ f.deleted = g.deleted \cup UNION {d.rids : d \in {e \in t.delete_files : e.file = g.id}}
             /\ f.inlined_deleted = g.inlined_deleted \cup UNION {d.rids : d \in {e \in t.file_deletes : e.file = g.id}}
             /\ f = [id |-> f.id, rows |-> f.rows, deleted |-> f.deleted,
                     inlined_deleted |-> f.inlined_deleted, bounded |-> f.bounded]
  BY <1>1, KeptFileParts
<1>3. \A d \in t.delete_files \cup t.file_deletes : d.file = g.id => d.rids \subseteq Rid(g.rows)
  BY DEF SolidWork, FindsRows
<1>4. SolidFile(g)
  BY <1>1
<1>5. f.deleted \subseteq Rid(f.rows)
  <2>1. g.deleted \subseteq Rid(f.rows)
    BY <1>2, <1>4 DEF SolidFile
  <2> QED BY <1>2, <1>3, <2>1
<1>6. f.inlined_deleted \subseteq Rid(f.rows)
  <2>1. g.inlined_deleted \subseteq Rid(f.rows)
    BY <1>2, <1>4 DEF SolidFile
  <2> QED BY <1>2, <1>3, <2>1
<1>7. /\ IsFiniteSet(f.rows) /\ \A r \in f.rows : r.val \in Values
      /\ f.bounded \in BOOLEAN
  BY <1>2, <1>4 DEF SolidFile
<1> QED BY <1>2, <1>5, <1>6, <1>7 DEF SolidFile

\* The rows of a flushed file.
FlushedRows(rows) == {[rid |-> r.rid, val |-> r.val] : r \in rows}

LEMMA FlushedIsSolid ==
    ASSUME NEW t, NEW id, NEW f \in FlushedFile(t, id), SolidWork(t), GoodWork(t)
    PROVE  SolidFile(f)
<1> DEFINE rows == FlushedRows(t.flush)
           gone == Rid({r \in t.flush : ~r.live})
<1>1. t.flush # {} /\ f = [id |-> id, rows |-> rows, deleted |-> gone, inlined_deleted |-> {}, bounded |-> TRUE]
  BY DEF FlushedFile, FlushedRows
<1>2. t.flush = t.view.inlined
  BY <1>1 DEF GoodWork
<1>3. IsFiniteSet(t.flush) /\ \A r \in t.flush : r.val \in Values
  BY <1>2 DEF SolidWork, SolidView
<1>4. IsFiniteSet(rows)
  <2> DEFINE h == [r \in t.flush |-> [rid |-> r.rid, val |-> r.val]]
  <2>1. \A y \in rows : \E x \in t.flush : y = h[x]
    BY DEF FlushedRows
  <2> HIDE DEF h, rows
  <2> QED BY <1>3, <2>1, ImageIsFinite
<1>5. \A r \in rows : r.val \in Values
  BY <1>3 DEF FlushedRows
<1>6. gone \subseteq Rid(rows)
  <2> SUFFICES ASSUME NEW i \in gone PROVE i \in Rid(rows)
    OBVIOUS
  <2>1. PICK r \in t.flush : i = r.rid
    BY DEF Rid
  <2> DEFINE q == [rid |-> r.rid, val |-> r.val]
  <2>2. q \in rows /\ q.rid = i
    BY <2>1 DEF FlushedRows
  <2> HIDE DEF q, rows
  <2> QED BY <2>2 DEF Rid
<1> HIDE DEF rows, gone
<1>7. f.id = id /\ f.rows = rows /\ f.deleted = gone /\ f.inlined_deleted = {} /\ f.bounded = TRUE
  BY <1>1
<1> QED BY <1>1, <1>4, <1>5, <1>6, <1>7 DEF SolidFile

LEMMA RewrittenIsSolid ==
    ASSUME NEW t, NEW id, NEW f \in Rewritten(t, id), SolidWork(t)
    PROVE  SolidFile(f)
<1>1. PICK g \in t.view.data_file :
             f = [id |-> id + Rank(t, g), rows |-> LiveIn(g), deleted |-> {},
                  inlined_deleted |-> {}, bounded |-> g.bounded]
  BY RewrittenFilesOf
<1>2. SolidFile(g)
  BY DEF SolidWork, SolidView
<1> DEFINE i == id + Rank(t, g)
           rows == LiveIn(g)
<1>3. rows \in SUBSET g.rows
  BY DEF LiveIn
<1>4. IsFiniteSet(rows) /\ \A r \in rows : r.val \in Values
  BY <1>2, <1>3, FS_Subset DEF SolidFile
<1>5. g.bounded \in BOOLEAN
  BY <1>2 DEF SolidFile
<1> HIDE DEF i, rows
<1>6. f = [id |-> i, rows |-> rows, deleted |-> {}, inlined_deleted |-> {}, bounded |-> g.bounded]
  BY <1>1 DEF i, rows
<1>7. f.id = i /\ f.rows = rows /\ f.deleted = {} /\ f.inlined_deleted = {} /\ f.bounded = g.bounded
  BY <1>6
<1> QED BY <1>4, <1>5, <1>6, <1>7 DEF SolidFile

LEMMA NewRowsFinite ==
    ASSUME NEW values \in Seq(Values), NEW start, NEW rows, rows = NewRows(values, start)
    PROVE  IsFiniteSet(rows) /\ \A r \in rows : r.val \in Values
<1> DEFINE h == [i \in 1..Len(values) |-> [rid |-> start + i, val |-> values[i]]]
<1>1. \A y \in rows : \E x \in 1..Len(values) : y = h[x]
  BY DEF NewRows
<1>2. IsFiniteSet(1..Len(values))
  <2>1. Len(values) \in Nat
    OBVIOUS
  <2> QED BY <2>1, FS_Interval
<1>3. \A r \in rows : r.val \in Values
  BY DEF NewRows
<1> HIDE DEF h
<1> QED BY <1>1, <1>2, <1>3, ImageIsFinite

LEMMA NewIsSolid ==
    ASSUME NEW t, GoodWork(t), NEW id \in Nat, NEW n \in Nat, NEW f \in NewDataFiles(t, id, n)
    PROVE  SolidFile(f)
<1> DEFINE up == RowsUpTo(t.new_files)
<1>1. PICK i \in 1..Len(t.new_files) : NewFileAt(f, t, id, n, up, i)
  BY NewFilesOf
<1> DEFINE j == (id + i) - 1
           rows == NewRows(t.new_files[i].values, n + up[i - 1])
           b == t.new_files[i].bounded
<1>2. f = [id |-> j, rows |-> rows, deleted |-> {}, inlined_deleted |-> {}, bounded |-> b]
  BY <1>1 DEF NewFileAt
<1>3. t.new_files[i] \in [values : Seq(Values), bounded : Bounded]
  <2>1. t.new_files \in Seq([values : Seq(Values), bounded : Bounded])
    BY DEF GoodWork
  <2> HIDE DEF j, rows, b, up
  <2> QED BY <1>1, <2>1, ElementOfSeq
<1>4. t.new_files[i].values \in Seq(Values) /\ b \in BOOLEAN
  BY <1>3, StatisticsAssumption
<1>5. IsFiniteSet(rows) /\ \A r \in rows : r.val \in Values
  BY <1>4, NewRowsFinite
<1> HIDE DEF j, rows, b
<1>6. f.id = j /\ f.rows = rows /\ f.deleted = {} /\ f.inlined_deleted = {} /\ f.bounded = b
  BY <1>2
<1> QED BY <1>2, <1>4, <1>5, <1>6 DEF SolidFile

\* An inlined row that stays.
LEMMA KeptInlinedParts ==
    ASSUME NEW v, NEW t, NEW r \in KeptInlined(v, t), \A q \in v.inlined : DOMAIN q = InlinedFields
    PROVE  \E q \in v.inlined :
             /\ q.rid \notin Rid(t.flush) /\ r.rid = q.rid /\ r.val = q.val
             /\ r.live => q.live /\ q.rid \notin t.inlined_deletes
             /\ q.live /\ q.rid \notin t.inlined_deletes => r.live
<1>1. PICK q \in v.inlined : q.rid \notin Rid(t.flush) /\ r = [q EXCEPT !.live = @ /\ q.rid \notin t.inlined_deletes]
  BY DEF KeptInlined
<1>2. DOMAIN q = InlinedFields
  OBVIOUS
<1> DEFINE e == q.live /\ q.rid \notin t.inlined_deletes
<1>3. r = [q EXCEPT !.live = e]
  BY <1>1
<1>4. e => q.live /\ q.rid \notin t.inlined_deletes
  OBVIOUS
<1>5. q.live /\ q.rid \notin t.inlined_deletes => e
  OBVIOUS
<1> HIDE DEF e
<1>6. r.rid = q.rid /\ r.val = q.val /\ r.live = e
  BY <1>2, <1>3 DEF InlinedFields
<1> QED BY <1>1, <1>4, <1>5, <1>6

LEMMA InlinedIsSolid ==
    ASSUME NEW v, NEW t, GoodWork(t), NEW n, NEW m,
           GoodInlined(v.inlined, v.data_file, m), SolidView(v),
           NEW all, all = InlinedOf(v, t, n)
    PROVE  IsFiniteSet(all) /\ \A r \in all : r.val \in Values
<1> DEFINE K == KeptInlined(v, t)
           N == NewInlined(t, n + NewFileRows(t))
           rows == NewRows(t.new_inlined, n + NewFileRows(t))
<1>1. IsFiniteSet(v.inlined) /\ \A q \in v.inlined : DOMAIN q = InlinedFields /\ q.val \in Values
  BY DEF GoodInlined, SolidView
<1>2. IsFiniteSet(K)
  <2> DEFINE h == [q \in v.inlined |-> [q EXCEPT !.live = @ /\ q.rid \notin t.inlined_deletes]]
  <2>1. \A y \in K : \E x \in v.inlined : y = h[x]
    BY DEF KeptInlined
  <2> HIDE DEF h, K
  <2> QED BY <1>1, <2>1, ImageIsFinite
<1>3. \A r \in K : r.val \in Values
  BY <1>1, KeptInlinedParts
<1>4. IsFiniteSet(rows) /\ \A r \in rows : r.val \in Values
  BY NewRowsFinite DEF GoodWork
<1>5. IsFiniteSet(N) /\ \A r \in N : r.val \in Values
  <2> DEFINE h == [r \in rows |-> [rid |-> r.rid, val |-> r.val, live |-> TRUE]]
  <2>1. \A y \in N : \E x \in rows : y = h[x]
    BY DEF NewInlined
  <2>2. \A r \in N : \E q \in rows : r.val = q.val
    BY DEF NewInlined
  <2> HIDE DEF h, N, rows
  <2> QED BY <1>4, <2>1, <2>2, ImageIsFinite
<1>6. all = K \cup N
  BY DEF InlinedOf
<1> HIDE DEF K, N
<1>7. IsFiniteSet(all)
  BY <1>2, <1>5, <1>6, FS_Union
<1> QED BY <1>3, <1>5, <1>6, <1>7

\* So the snapshot that a commit makes is solid.
LEMMA CommitIsSolid ==
    ASSUME NEW v, NEW t, NEW n \in Nat, v.next_file_id \in Nat, IdsOfMovedRows(t) \in Nat,
           GoodInlined(v.inlined, v.data_file, n), SolidView(v), GoodWork(t), SolidWork(t), FindsRows(v, t),
           NEW now, now.data_file = FilesOf(v, t, n), now.inlined = InlinedOf(v, t, n)
    PROVE  SolidView(now)
<1>1. ASSUME NEW f \in now.data_file PROVE SolidFile(f)
  <2> DEFINE id == v.next_file_id
             new == id + IdsOfMovedRows(t)
  <2>1. new \in Nat
    OBVIOUS
  <2>2. f \in KeptFiles(v, t) \/ f \in FlushedFile(t, id) \/ f \in Rewritten(t, id) \/ f \in NewDataFiles(t, new, n)
    BY <1>1 DEF FilesOf
  <2> HIDE DEF id, new
  <2> QED BY <2>1, <2>2, KeptIsSolid, FlushedIsSolid, RewrittenIsSolid, NewIsSolid
<1>2. IsFiniteSet(now.inlined) /\ \A r \in now.inlined : r.val \in Values
  BY InlinedIsSolid
<1> QED BY <1>1, <1>2 DEF SolidView

----------------------------------------------------------------------------
(* The rows before and after a commit that rewrites no file.               *)

\* The rows of the files that a transaction drops.
Gone(t) == PairsOf(FilesById(t.view, t.dropped_files))

\* A transaction that commits to the snapshot v.
Ready(v, t) ==
    /\ GoodView(v) /\ SolidView(v)
    /\ GoodWork(t) /\ GoodView(t.view) /\ SolidWork(t)
    /\ FindsRows(v, t) /\ Tracks(t, v) /\ ~Conflicts(t)

\* The snapshot that the transaction t makes of v.
Becomes(v, t, now) ==
    now.data_file = FilesOf(v, t, Start(v.stats)) /\ now.inlined = InlinedOf(v, t, Start(v.stats))

\* Files that a transaction drops are there when it commits: otherwise another one
\* has deleted from them, or rewritten files, and the commit conflicts.
LEMMA DroppedAreThere ==
    ASSUME NEW t, GoodWork(t), ~Conflicts(t), NEW v, Tracks(t, v), NEW h \in FilesById(t.view, t.dropped_files)
    PROVE  HasId(v.data_file, h.id)
<1>1. PICK table \in Tables : Tables = {table}
  BY OneTable
<1>2. h \in t.view.data_file /\ h.id \in t.dropped_files
  BY DEF FilesById
<1>3. <<"deleted_from_table", table>> \in Changes(t)
  BY <1>1, <1>2, ChangesSayWhat
<1>4. NoneDid(t, {"rewrite_delete"})
  <2>1. \A k \in {"rewrite_delete"} : <<"deleted_from_table", k>> \in Rules
    BY DEF Rules, DeleteRules
  <2> QED BY <1>1, <1>3, <2>1, NoConflictNoneDid
<1>5. ~Removed(t, h.id)
  <2> SUFFICES ASSUME Removed(t, h.id) PROVE FALSE
    OBVIOUS
  <2>1. PICK other \in t.others : \E x \in other.changes :
          (x[1] = "deleted_from_table" /\ h.id \in other.files) \/ x[1] = "rewrite_delete"
    BY DEF Removed
  <2>2. PICK x \in other.changes : (x[1] = "deleted_from_table" /\ h.id \in other.files) \/ x[1] = "rewrite_delete"
    BY <2>1
  <2>3. x[1] = "deleted_from_table" /\ h.id \in other.files
    BY <1>4, <2>2 DEF NoneDid
  <2>4. x \in RecordedKinds \X Tables
    BY DEF GoodWork, RecordedChanges
  <2>5. x = <<"deleted_from_table", table>>
    BY <1>1, <2>3, <2>4
  <2>6. DeletesMayMatch(Changes(t), other.changes)
    BY <1>3, <2>2, <2>3, <2>5 DEF DeletesMayMatch
  <2>7. h.id \in FilesDeletedFrom(t)
    BY <1>2 DEF FilesDeletedFrom
  <2> QED BY <2>3, <2>6, <2>7 DEF Conflicts
<1> QED BY <1>2, <1>5 DEF Tracks

\* The rows that a transaction flushes are there, and as live as it saw them.
LEMMA FlushedAreThere ==
    ASSUME NEW t, GoodWork(t), ~Conflicts(t), NEW v, Tracks(t, v), t.flush # {}
    PROVE  InlinedAgain(t.flush, v.inlined)
<1>1. PICK table \in Tables : Tables = {table}
  BY OneTable
<1>2. <<"inline_flush", table>> \in Changes(t)
  BY <1>1, ChangesSayWhat
<1>3. \A k \in {"inlined_delete", "inline_flush"} : <<"inline_flush", k>> \in Rules
  BY DEF Rules, FlushRules
<1>4. NoneDid(t, {"inlined_delete", "inline_flush"})
  BY <1>1, <1>2, <1>3, NoConflictNoneDid
<1>5. t.flush = t.view.inlined
  BY DEF GoodWork
<1> QED BY <1>4, <1>5 DEF Tracks

LEMMA PairIn ==
    ASSUME NEW rows, NEW q
    PROVE  q \in Pairs(rows) <=> \E r \in rows : q = Pair(r) /\ q[1] = r.rid /\ q[2] = r.val
BY DEF Pairs, Pair

\* The rows that a commit subtracts are those of the files that it drops.
LEMMA GoneRows ==
    ASSUME NEW v, NEW t, Ready(v, t)
    PROVE  /\ Gone(t) \subseteq PairsOf(v.data_file)
           /\ IsFiniteSet(Gone(t)) /\ Cardinality(Gone(t)) \in Nat
           /\ DroppedRowCount(t) = Cardinality(Gone(t))
           /\ \A g \in v.data_file : g.id \notin t.dropped_files => Pairs(g.rows) \cap Gone(t) = {}
           /\ Pairs(v.inlined) \cap Gone(t) = {}
           /\ Pairs(t.view.inlined) \cap Gone(t) = {}
<1> DEFINE S == FilesById(t.view, t.dropped_files)
           n == Start(v.stats)
           m == Start(t.view.stats)
<1>1. /\ \A f, g \in v.data_file : f # g => f.id # g.id /\ Disjoint(f.rows, g.rows)
      /\ \A f \in v.data_file : Disjoint(f.rows, v.inlined)
  BY DEF Ready, GoodView, GoodFiles, GoodInlined
<1>2. /\ IsFiniteSet(t.view.data_file)
      /\ \A f \in t.view.data_file : GoodRows(f.rows, m) /\ Disjoint(f.rows, t.view.inlined)
      /\ \A f, g \in t.view.data_file : f # g => Disjoint(f.rows, g.rows)
  BY DEF Ready, GoodView, GoodFiles, GoodInlined
<1>3. \A f \in t.view.data_file : IsFiniteSet(f.rows)
  BY DEF Ready, SolidWork, SolidView, SolidFile
<1>4. S \in SUBSET t.view.data_file /\ \A h \in S : h.id \in t.dropped_files
  BY DEF FilesById
<1>5. \A h \in S : \E g \in v.data_file : g.id = h.id
  BY DroppedAreThere DEF HasId, Ready
<1>6. \A h \in S, g \in v.data_file : g.id = h.id => h.rows = g.rows
  BY <1>4 DEF Ready, FindsRows
<1>7. Gone(t) = PairsOf(S) /\ DroppedRowCount(t) = MapThenSumSet(RowCount, S)
  BY DEF Gone, DroppedRowCount
<1> HIDE DEF S, m
<1>8. IsFiniteSet(PairsOf(S)) /\ Cardinality(PairsOf(S)) \in Nat /\ MapThenSumSet(RowCount, S) = Cardinality(PairsOf(S))
  <2>1. IsFiniteSet(S)
    BY <1>2, <1>4, FS_Subset
  <2> QED BY <1>2, <1>3, <1>4, <2>1, RowsOfFiles
<1>9. ASSUME NEW q \in PairsOf(S)
      PROVE  \E h \in S, g \in v.data_file : g.id = h.id /\ h.rows = g.rows /\ q \in Pairs(g.rows) /\ g.id \in t.dropped_files
  BY <1>4, <1>5, <1>6, <1>9 DEF PairsOf
<1>10. PairsOf(S) \subseteq PairsOf(v.data_file)
  BY <1>9 DEF PairsOf
<1>11. ASSUME NEW g \in v.data_file, g.id \notin t.dropped_files PROVE Pairs(g.rows) \cap PairsOf(S) = {}
  <2> SUFFICES ASSUME NEW q \in PairsOf(S), q \in Pairs(g.rows) PROVE FALSE
    OBVIOUS
  <2>1. PICK k \in v.data_file : q \in Pairs(k.rows) /\ k.id \in t.dropped_files
    BY <1>9
  <2>2. Disjoint(g.rows, k.rows)
    BY <1>1, <1>11, <2>1
  <2> QED BY <2>1, <2>2, PairsDisjoint
<1>12. Pairs(v.inlined) \cap PairsOf(S) = {}
  BY <1>1, <1>9, PairsDisjoint
<1>13. Pairs(t.view.inlined) \cap PairsOf(S) = {}
  BY <1>2, <1>4, PairsDisjoint DEF PairsOf
<1> QED BY <1>7, <1>8, <1>10, <1>11, <1>12, <1>13

\* The rows that are numbered by a commit are above those that were there.
LEMMA NewRowsAbove ==
    ASSUME NEW v, NEW t, Ready(v, t), NEW n, n = Start(v.stats)
    PROVE  /\ n \in Nat
           /\ \A f \in NewDataFiles(t, v.next_file_id + IdsOfMovedRows(t), n) :
                \A r \in f.rows : r.rid \in Nat /\ r.rid > n
           /\ \A r \in NewInlined(t, n + NewFileRows(t)) : r.rid \in Nat /\ r.rid > n
<1> DEFINE id == v.next_file_id
           moved == IdsOfMovedRows(t)
           count == NewFileRows(t)
           total == n + count
           m == Start(t.view.stats)
           k == t.view.next_file_id
           N == NewDataFiles(t, id + moved, n)
<1>1. /\ n \in Nat /\ id \in Nat
      /\ GoodFiles(v.data_file, id, n) /\ GoodInlined(v.inlined, v.data_file, n)
  BY DEF Ready, GoodView, StatsOk, Start
<1>2. m \in Nat /\ k \in Nat /\ GoodFiles(t.view.data_file, k, m)
  BY DEF Ready, GoodView, StatsOk, Start
<1>3. GoodWork(t) /\ FindsRows(v, t)
  BY DEF Ready
<1>4. count \in Nat /\ total \in Nat /\ total >= n
  <2>1. count \in Nat
    BY <1>3, NewRowCount
  <2> HIDE DEF count
  <2> QED BY <1>1, <2>1
<1>5. \A f \in N : \A r \in f.rows : r.rid \in Nat /\ r.rid > n
  <2> HIDE DEF id, moved, m, k
  <2> QED BY <1>1, <1>2, <1>3, FilesOfCommitDiffer DEF moved
<1>6. \A r \in NewInlined(t, total) : r.rid \in Nat /\ r.rid > n
  <2> DEFINE rows == NewRows(t.new_inlined, total)
  <2>1. t.new_inlined \in Seq(Values)
    BY <1>3 DEF GoodWork
  <2> HIDE DEF total
  <2>2. \A r \in rows : r.rid > total /\ r.rid \in Nat
    BY <1>4, <2>1, NewRowsAreNumbered
  <2>3. \A r \in NewInlined(t, total) : \E q \in rows : r.rid = q.rid
    BY DEF NewInlined
  <2> HIDE DEF rows
  <2> QED BY <1>1, <1>4, <2>2, <2>3
<1> QED BY <1>1, <1>5, <1>6

\* The rows that were there before and are counted, and those that are live.
LEMMA OldRows ==
    ASSUME NEW v, NEW t, Ready(v, t), t.rewrites = {}, NEW now, Becomes(v, t, now), NEW n, n = Start(v.stats)
    PROVE  /\ \A q \in Counted(now) : q[1] <= n =>
                q \notin Gone(t) /\ (q \in Counted(v) \/ q \in Pairs(t.flush))
           /\ \A q \in LiveRows(now) : q[1] <= n => q \in LiveRows(v)
<1> DEFINE id == v.next_file_id
           N == NewDataFiles(t, id + IdsOfMovedRows(t), n)
           M == NewInlined(t, n + NewFileRows(t))
<1>1. /\ n \in Nat
      /\ \A f \in N : \A r \in f.rows : r.rid \in Nat /\ r.rid > n
      /\ \A r \in M : r.rid \in Nat /\ r.rid > n
  BY NewRowsAbove
<1>2. \A f \in now.data_file : f \in KeptFiles(v, t) \/ f \in FlushedFile(t, id) \/ f \in N
  <2>1. Rewritten(t, id) = {}
    BY DEF Rewritten, RewrittenFiles, FilesById
  <2> QED BY <2>1 DEF Becomes, FilesOf
<1>3. \A r \in now.inlined : r \in KeptInlined(v, t) \/ r \in M
  BY DEF Becomes, InlinedOf
<1> HIDE DEF N, M, id
<1>4. /\ Gone(t) \subseteq PairsOf(v.data_file)
      /\ \A g \in v.data_file : g.id \notin t.dropped_files => Pairs(g.rows) \cap Gone(t) = {}
      /\ Pairs(v.inlined) \cap Gone(t) = {} /\ Pairs(t.view.inlined) \cap Gone(t) = {}
  BY GoneRows
<1>5. (\A g \in v.data_file : SolidFile(g)) /\ (\A q \in v.inlined : DOMAIN q = InlinedFields)
  BY DEF Ready, SolidView, GoodView, GoodInlined
<1>6. t.flush # {} => t.flush = t.view.inlined /\ InlinedAgain(t.flush, v.inlined)
  BY FlushedAreThere DEF Ready, GoodWork
\* inlined rows
<1>7. ASSUME NEW q \in Pairs(LiveInlined(now)), q[1] <= n
      PROVE  q \in Pairs(LiveInlined(v)) /\ q \notin Gone(t)
  <2>1. PICK r \in now.inlined : r.live /\ q = Pair(r) /\ q[1] = r.rid
    BY <1>7, PairIn DEF LiveInlined
  <2>2. r \in KeptInlined(v, t)
    BY <1>1, <1>3, <1>7, <2>1
  <2>3. PICK p \in v.inlined : r.rid = p.rid /\ r.val = p.val /\ p.live
    BY <1>5, <2>1, <2>2, KeptInlinedParts
  <2>4. p \in LiveInlined(v) /\ q = Pair(p)
    BY <2>1, <2>3 DEF LiveInlined, Pair
  <2>5. q \in Pairs(v.inlined)
    BY <2>3, <2>4 DEF Pairs
  <2> QED BY <1>4, <2>4, <2>5 DEF Pairs
\* rows of files
<1>8. ASSUME NEW f \in now.data_file, NEW q \in Pairs(f.rows), q[1] <= n
      PROVE  /\ q \notin Gone(t) /\ (q \in PairsOf(v.data_file) \/ q \in Pairs(t.flush))
             /\ q \in Pairs(LiveIn(f)) => q \in LiveRows(v)
  <2>1. PICK r \in f.rows : q = Pair(r) /\ q[1] = r.rid
    BY <1>8, PairIn
  <2>2. f \notin N
    BY <1>1, <1>8, <2>1
  <2>3. CASE f \in KeptFiles(v, t)
    <3>1. PICK g \in v.data_file :
             /\ g.id \notin t.dropped_files /\ f.rows = g.rows
             /\ g.deleted \subseteq f.deleted /\ g.inlined_deleted \subseteq f.inlined_deleted
      BY <1>5, <2>3, KeptFileParts
    <3>2. q \in Pairs(g.rows)
      BY <1>8, <3>1
    <3>3. q \in PairsOf(v.data_file) /\ q \notin Gone(t)
      BY <1>4, <3>1, <3>2 DEF PairsOf
    <3>4. LiveIn(f) \subseteq LiveIn(g)
      BY <3>1 DEF LiveIn
    <3>5. q \in Pairs(LiveIn(f)) => q \in LiveRows(v)
      BY <3>4 DEF Pairs, LiveRows, LivePairs
    <3> QED BY <3>3, <3>5
  <2>4. CASE f \in FlushedFile(t, id)
    <3>1. /\ t.flush # {} /\ f.rows = FlushedRows(t.flush)
          /\ f.deleted = Rid({s \in t.flush : ~s.live})
      BY <2>4 DEF FlushedFile, FlushedRows
    <3>2. PICK s \in t.flush : r = [rid |-> s.rid, val |-> s.val]
      BY <2>1, <3>1 DEF FlushedRows
    <3>3. q = Pair(s)
      BY <2>1, <3>2 DEF Pair
    <3>4. q \in Pairs(t.flush) /\ q \notin Gone(t)
      BY <1>4, <1>6, <3>1, <3>2, <3>3 DEF Pairs
    <3>5. ASSUME q \in Pairs(LiveIn(f)) PROVE q \in LiveRows(v)
      <4>1. PICK x \in LiveIn(f) : q = Pair(x) /\ q[1] = x.rid
        BY <3>5, PairIn
      <4>2. x.rid = s.rid /\ x.rid \notin f.deleted
        BY <3>3, <4>1 DEF Pair, LiveIn
      <4>3. s.live
        BY <3>1, <3>2, <4>2 DEF Rid
      <4>4. PICK p \in v.inlined : p.rid = s.rid /\ p.val = s.val /\ p.live
        BY <1>6, <3>1, <3>2, <4>3 DEF InlinedAgain
      <4>5. p \in LiveInlined(v) /\ q = Pair(p)
        BY <3>3, <4>4 DEF LiveInlined, Pair
      <4> QED BY <4>5 DEF LiveRows, Pairs
    <3> QED BY <3>4, <3>5
  <2> QED BY <1>2, <2>2, <2>3, <2>4
<1>9. ASSUME NEW q \in Counted(now), q[1] <= n
      PROVE  q \notin Gone(t) /\ (q \in Counted(v) \/ q \in Pairs(t.flush))
  BY <1>7, <1>8, <1>9 DEF Counted, PairsOf
<1>10. ASSUME NEW q \in LiveRows(now), q[1] <= n PROVE q \in LiveRows(v)
  <2>1. CASE q \in Pairs(LiveInlined(now))
    BY <1>7, <1>10, <2>1 DEF LiveRows
  <2>2. CASE q \in LivePairs(now)
    <3>1. PICK f \in now.data_file : q \in Pairs(LiveIn(f))
      BY <2>2 DEF LivePairs
    <3>2. q \in Pairs(f.rows)
      BY <3>1 DEF Pairs, LiveIn
    <3> QED BY <1>8, <1>10, <3>1, <3>2
  <2> QED BY <1>10, <2>1, <2>2 DEF LiveRows
<1> QED BY <1>9, <1>10

\* No more rows are new than are counted.
LEMMA NewRowsCount ==
    ASSUME NEW now, GoodView(now), SolidView(now), NEW n \in Nat, NEW k \in Nat, Start(now.stats) = n + k,
           NEW R, R \subseteq {q \in AllPairs(now) : q[1] > n}
    PROVE  IsFiniteSet(R) /\ Cardinality(R) \in Nat /\ Cardinality(R) <= k
<1>1. /\ IsFiniteSet(AllPairs(now))
      /\ \A q \in AllPairs(now) : q[1] \in Nat /\ q[1] <= n + k
      /\ \A p, q \in AllPairs(now) : p[1] = q[1] => p = q
  BY ViewPairs
<1> DEFINE I == n + 1 .. n + k
           h == [q \in R |-> q[1]]
<1>2. h \in [R -> I] /\ \A p, q \in R : h[p] = h[q] => p = q
  <2>1. \A q \in R : q[1] \in I
    BY <1>1
  <2> QED BY <1>1, <2>1
<1>3. IsFiniteSet(I) /\ Cardinality(I) = k
  <2>1. n + 1 \in Int /\ n + k \in Int /\ (n + 1 > n + k => k = 0) /\ n + k - (n + 1) + 1 = k
    OBVIOUS
  <2> QED BY <2>1, FS_Interval
<1> HIDE DEF h, I
<1>4. h \in Injection(R, I)
  BY <1>2 DEF Injection, IsInjective
<1>5. IsFiniteSet(R) /\ Cardinality(R) <= Cardinality(I)
  BY <1>3, <1>4, FS_Injection
<1> QED BY <1>3, <1>5, FS_CardinalityType

----------------------------------------------------------------------------
(* The rows of a commit are counted.                                       *)

\* The statistics that a commit starts from count r rows.
CountedBy(v, t, r) ==
    /\ r \in Nat /\ Cardinality(Counted(v)) <= r
    /\ t.flush # {} => Cardinality(AllPairs(v)) <= r

LEMMA FlushedPairs ==
    ASSUME NEW v, NEW t, Ready(v, t)
    PROVE  Pairs(t.flush) \subseteq Pairs(v.inlined) /\ Pairs(t.flush) \cap Gone(t) = {}
<1>1. t.flush # {} => t.flush = t.view.inlined /\ InlinedAgain(t.flush, v.inlined)
  BY FlushedAreThere DEF Ready, GoodWork
<1>2. \A s \in t.flush : \E p \in v.inlined : Pair(s) = Pair(p)
  BY <1>1 DEF InlinedAgain, Pair
<1>3. Pairs(t.flush) \subseteq Pairs(v.inlined)
  BY <1>2 DEF Pairs
<1> QED BY <1>3, GoneRows

\* If record_count covered the rows before a commit it covers them after it.  If it is
\* the number of the live rows after it, it was so before, and no live row was lost.
LEMMA CommitCounts ==
    ASSUME NEW v, NEW t, Ready(v, t), t.rewrites = {}, NEW now, Becomes(v, t, now),
           GoodView(now), SolidView(now), NEW n, n = Start(v.stats), NEW k \in Nat, Start(now.stats) = n + k,
           NEW r, CountedBy(v, t, r), NEW d, d = DroppedRowCount(t)
    PROVE  /\ d \in Nat /\ Cardinality(Counted(now)) <= r - d + k
           /\ r <= d => t.flush = {}
           /\ r <= d => \A q \in Counted(now) : q[1] > n
           /\ d = 0 /\ r + k = Cardinality(LiveRows(now)) =>
                /\ r = Cardinality(LiveRows(v)) /\ LiveRows(v) \subseteq LiveRows(now)
                /\ Pairs(t.flush) \subseteq LiveRows(now)
<1> DEFINE W == IF t.flush = {} THEN Counted(v) ELSE AllPairs(v)
           G == Gone(t)
           O == W \ G
           New == {q \in Counted(now) : q[1] > n}
           Live == {q \in LiveRows(now) : q[1] <= n}
           NewLive == {q \in LiveRows(now) : q[1] > n}
<1>1. /\ IsFiniteSet(AllPairs(v)) /\ IsFiniteSet(Counted(v)) /\ IsFiniteSet(LiveRows(v))
      /\ LiveRows(v) \subseteq Counted(v) /\ Counted(v) \subseteq AllPairs(v)
  BY ViewPairs DEF Ready
<1>2. /\ IsFiniteSet(Counted(now)) /\ IsFiniteSet(LiveRows(now))
      /\ LiveRows(now) \subseteq Counted(now) /\ Counted(now) \subseteq AllPairs(now)
      /\ \A q \in AllPairs(now) : q[1] \in Nat
  BY ViewPairs
<1>3. n \in Nat /\ r \in Nat
  BY NewRowsAbove DEF CountedBy
<1>4. G \subseteq PairsOf(v.data_file) /\ IsFiniteSet(G) /\ Cardinality(G) \in Nat /\ d = Cardinality(G)
  BY GoneRows
<1>5. IsFiniteSet(W) /\ Cardinality(W) \in Nat /\ Cardinality(W) <= r /\ G \subseteq W /\ LiveRows(v) \subseteq W
  <2>1. G \subseteq Counted(v)
    BY <1>4 DEF Counted
  <2>2. IsFiniteSet(W) /\ Cardinality(W) <= r /\ G \subseteq W /\ LiveRows(v) \subseteq W
    BY <1>1, <2>1 DEF CountedBy
  <2> QED BY <2>2, FS_CardinalityType
<1>6. Pairs(t.flush) \subseteq AllPairs(v) /\ Pairs(t.flush) \cap G = {}
  BY FlushedPairs DEF AllPairs
<1>7. /\ \A q \in Counted(now) : q[1] <= n => q \notin G /\ (q \in Counted(v) \/ q \in Pairs(t.flush))
      /\ \A q \in LiveRows(now) : q[1] <= n => q \in LiveRows(v)
  BY OldRows
<1>8. Pairs({}) = {}
  BY DEF Pairs
<1>9. Counted(now) \subseteq O \cup New
  <2> SUFFICES ASSUME NEW q \in Counted(now), q \notin New PROVE q \in O
    OBVIOUS
  <2>1. q[1] <= n
    BY <1>2, <1>3
  <2> QED BY <1>1, <1>6, <1>7, <1>8, <2>1
<1>10. LiveRows(now) = Live \cup NewLive /\ Live \in SUBSET LiveRows(v)
  BY <1>2, <1>3, <1>7
<1>11. IsFiniteSet(New) /\ Cardinality(New) \in Nat /\ Cardinality(New) <= k
  <2>1. New \subseteq {q \in AllPairs(now) : q[1] > n}
    BY <1>2
  <2> HIDE DEF New
  <2> QED BY <1>3, <2>1, NewRowsCount
<1>12. IsFiniteSet(NewLive) /\ Cardinality(NewLive) \in Nat /\ Cardinality(NewLive) <= k
  <2>1. NewLive \subseteq {q \in AllPairs(now) : q[1] > n}
    BY <1>2
  <2> HIDE DEF NewLive
  <2> QED BY <1>3, <2>1, NewRowsCount
<1>13. t.flush # {} => Pairs(t.flush) # {}
  BY DEF Pairs
<1>14. t.flush # {} => W = AllPairs(v)
  OBVIOUS
<1>15. \A q \in New : q[1] > n
  OBVIOUS
<1> HIDE DEF W, G, New, NewLive
<1>16. IsFiniteSet(O) /\ Cardinality(O) = Cardinality(W) - d /\ Cardinality(O) \in Nat
  <2>1. W \cap G = G
    BY <1>5
  <2>2. IsFiniteSet(W \ G) /\ Cardinality(W \ G) = Cardinality(W) - Cardinality(W \cap G)
    BY <1>5, FS_Difference
  <2> QED BY <1>4, <2>1, <2>2, FS_CardinalityType
<1> HIDE DEF O
<1>17. Cardinality(Counted(now)) <= r - d + k
  <2>1. /\ IsFiniteSet(O \cup New)
        /\ Cardinality(O \cup New) = Cardinality(O) + Cardinality(New) - Cardinality(O \cap New)
    BY <1>11, <1>16, FS_Union
  <2>2. Cardinality(O \cap New) \in Nat
    BY <1>11, <1>16, FS_Intersection, FS_CardinalityType
  <2>3. Cardinality(Counted(now)) <= Cardinality(O \cup New) /\ Cardinality(Counted(now)) \in Nat
    BY <1>9, <2>1, FS_Subset, FS_CardinalityType
  <2> QED BY <1>3, <1>4, <1>5, <1>11, <1>16, <2>1, <2>2, <2>3
<1>18. r <= d => O = {}
  <2> SUFFICES ASSUME r <= d PROVE O = {}
    OBVIOUS
  <2>1. Cardinality(O) = 0
    BY <1>3, <1>4, <1>5, <1>16
  <2> QED BY <1>16, <2>1, FS_EmptySet
<1>19. r <= d => \A q \in Counted(now) : q[1] > n
  BY <1>9, <1>15, <1>18
<1>20. r <= d => t.flush = {}
  <2> SUFFICES ASSUME r <= d, t.flush # {} PROVE FALSE
    OBVIOUS
  <2>1. PICK q \in Pairs(t.flush) : q \in W /\ q \notin G
    BY <1>6, <1>13, <1>14
  <2> QED BY <1>18, <2>1 DEF O
<1>21. ASSUME d = 0, r + k = Cardinality(LiveRows(now))
       PROVE  /\ r = Cardinality(LiveRows(v)) /\ LiveRows(v) \subseteq LiveRows(now)
              /\ Pairs(t.flush) \subseteq LiveRows(now)
  <2> HIDE DEF Live
  <2>1. IsFiniteSet(Live) /\ Cardinality(Live) \in Nat
    BY <1>1, <1>10, FS_Subset, FS_CardinalityType
  <2>2. Cardinality(LiveRows(now)) = Cardinality(Live) + Cardinality(NewLive) - Cardinality(Live \cap NewLive)
    BY <1>10, <1>12, <2>1, FS_Union
  <2>3. Cardinality(Live \cap NewLive) \in Nat
    BY <1>12, <2>1, FS_Intersection, FS_CardinalityType
  <2>4. r <= Cardinality(Live)
    BY <1>3, <1>12, <1>21, <2>1, <2>2, <2>3
  <2>5. Live \in SUBSET W
    BY <1>5, <1>10
  <2>6. Cardinality(Live) <= Cardinality(W)
    BY <1>5, <2>5, FS_Subset
  <2>7. Cardinality(Live) = Cardinality(W) /\ r = Cardinality(W)
    BY <1>3, <1>5, <2>1, <2>4, <2>6
  <2>8. Live = W
    BY <1>5, <2>5, <2>7, FS_Subset
  <2>9. LiveRows(v) = W
    BY <1>5, <1>10, <2>8
  <2>10. t.flush # {} => Pairs(t.flush) \subseteq W
    BY <1>6, <1>14
  <2>11. Pairs(t.flush) \subseteq W
    BY <1>8, <2>10
  <2> QED BY <1>10, <2>7, <2>8, <2>9, <2>11
<1> QED BY <1>4, <1>17, <1>19, <1>20, <1>21

\* A commit without new rows takes rows away.
LEMMA CommitShrinks ==
    ASSUME NEW v, NEW t, Ready(v, t), t.rewrites = {}, t.flush = {}, NEW now, Becomes(v, t, now),
           GoodView(now), SolidView(now), Start(now.stats) = Start(v.stats)
    PROVE  Counted(now) \subseteq Counted(v) /\ LiveRows(now) \subseteq LiveRows(v)
<1> DEFINE n == Start(v.stats)
<1>1. /\ LiveRows(now) \subseteq AllPairs(now) /\ Counted(now) \subseteq AllPairs(now)
      /\ \A q \in AllPairs(now) : q[1] <= n
  BY ViewPairs
<1>2. Pairs(t.flush) = {}
  BY DEF Pairs
<1> QED BY <1>1, <1>2, OldRows

\* Statistics that fit a snapshot fit what is left of it.
LEMMA FitsShrinks ==
    ASSUME NEW s, NEW v, NEW now, IsFiniteSet(Counted(v)), LiveRows(v) \subseteq Counted(v),
           Counted(now) \subseteq Counted(v), LiveRows(now) \subseteq LiveRows(v),
           StatsTyped(s), Fits(s, v)
    PROVE  Fits(s, now) /\ (Counts(s, v) => Counts(s, now))
<1> DEFINE C == Counted(v)
           D == Counted(now)
           L == LiveRows(v)
           M == LiveRows(now)
<1>1. D \in SUBSET C /\ L \in SUBSET C /\ M \in SUBSET C
  OBVIOUS
<1>2. /\ Cardinality(C) \in Nat /\ Cardinality(D) \in Nat /\ Cardinality(D) <= Cardinality(C)
      /\ Cardinality(L) \in Nat /\ Cardinality(L) <= Cardinality(C)
      /\ Cardinality(M) \in Nat /\ Cardinality(M) <= Cardinality(C)
      /\ Cardinality(M) = Cardinality(C) => M = C
  <2> HIDE DEF C, D, L, M
  <2>1. IsFiniteSet(C)
    BY DEF C
  <2> QED BY <1>1, <2>1, FS_Subset, FS_CardinalityType
<1>3. Counts(s, v) => Counts(s, now)
  BY <1>2, SMT DEF Counts
<1>4. ASSUME s # None, ~Lost(s) PROVE ColumnFits(s, now)
  <2>1. ColumnFits(s, v) /\ s.record_count \in Int
    BY <1>4 DEF Fits, StatsTyped
  <2>2. \A q \in D : Admits(s.column, q[2])
    BY <2>1 DEF ColumnFits
  <2>3. ASSUME HasBounds(s.column)
        PROVE  /\ s.record_count >= Cardinality(D)
               /\ s.record_count = Cardinality(M) => BoundsIn(s.column, ValuesIn(M))
    <3>1. /\ s.record_count >= Cardinality(C)
          /\ s.record_count = Cardinality(L) => BoundsIn(s.column, ValuesIn(L))
      BY <2>1, <2>3 DEF ColumnFits
    <3>2. s.record_count >= Cardinality(D)
      <4> HIDE DEF C, D
      <4> QED BY <1>2, <2>1, <3>1
    <3>3. ASSUME s.record_count = Cardinality(M) PROVE M = C
      <4> HIDE DEF C, M
      <4> QED BY <1>2, <2>1, <3>1, <3>3
    <3>4. ASSUME s.record_count = Cardinality(M) PROVE M = L
      BY <3>3, <3>4
    <3> QED BY <3>1, <3>2, <3>4
  <2> QED BY <2>2, <2>3 DEF ColumnFits
<1> QED BY <1>3, <1>4 DEF Fits

----------------------------------------------------------------------------
(* The statistics of the data that a commit adds.                          *)

StatsOfFile(files, i) == FileStats(ToSet(files[i].values), files[i].bounded)
StatsOfNewFiles(t) == {StatsOfFile(t.new_files, i) : i \in DOMAIN t.new_files}
StatsOfFlush(t) == IF t.flush = {} THEN {} ELSE {FileStats({r.val : r \in t.flush}, TRUE)}
StatsOfInlined(t) == IF t.new_inlined = <<>> THEN {} ELSE {FileStats(ToSet(t.new_inlined), TRUE)}
NewStats(t) == StatsOfNewFiles(t) \cup StatsOfFlush(t) \cup StatsOfInlined(t)

\* Statistics that can be merged, with bounds in P.
Mergeable(b, P) == b \in Columns /\ Clean(b) /\ BoundsIn(b, P)

LEMMA BoundsGrow ==
    ASSUME NEW b, NEW P, NEW Q, P \subseteq Q, Mergeable(b, P)
    PROVE  Mergeable(b, Q)
BY DEF Mergeable, BoundsIn

\* The rows of new files and of new inlined data are live.
LEMMA NewFileRowsLive ==
    ASSUME NEW v, NEW t, Ready(v, t), NEW now, Becomes(v, t, now), NEW i \in DOMAIN t.new_files,
           NEW x \in ToSet(t.new_files[i].values)
    PROVE  \E q \in LiveRows(now) : q[2] = x
<1> DEFINE n == Start(v.stats)
           new == v.next_file_id + IdsOfMovedRows(t)
           up == RowsUpTo(t.new_files)
           rows == NewRows(t.new_files[i].values, n + up[i - 1])
           f == [id |-> new + i - 1, rows |-> rows, deleted |-> {}, inlined_deleted |-> {},
                 bounded |-> t.new_files[i].bounded]
<1>1. f \in now.data_file
  <2>1. f \in NewDataFiles(t, new, n)
    BY DEF NewDataFiles
  <2> HIDE DEF f
  <2> QED BY <2>1 DEF Becomes, FilesOf
<1>2. PICK j \in DOMAIN t.new_files[i].values : x = t.new_files[i].values[j]
  BY DEF ToSet
<1> DEFINE r == [rid |-> (n + up[i - 1]) + j, val |-> x]
<1>3. r \in rows /\ r.val = x
  BY <1>2 DEF NewRows
<1>4. f.rows = rows /\ f.deleted = {} /\ f.inlined_deleted = {}
  OBVIOUS
<1> HIDE DEF f, rows, r
<1>5. r \in LiveIn(f)
  BY <1>3, <1>4 DEF LiveIn
<1>6. Pair(r) \in LiveRows(now) /\ Pair(r)[2] = x
  BY <1>1, <1>3, <1>5 DEF LiveRows, LivePairs, Pairs, Pair
<1> QED BY <1>6

LEMMA NewInlinedRowsLive ==
    ASSUME NEW v, NEW t, NEW now, Becomes(v, t, now), NEW x \in ToSet(t.new_inlined)
    PROVE  \E q \in LiveRows(now) : q[2] = x
<1> DEFINE start == Start(v.stats) + NewFileRows(t)
           rows == NewRows(t.new_inlined, start)
<1>1. PICK j \in DOMAIN t.new_inlined : x = t.new_inlined[j]
  BY DEF ToSet
<1> DEFINE p == [rid |-> start + j, val |-> x]
           r == [rid |-> p.rid, val |-> p.val, live |-> TRUE]
<1>2. p \in rows /\ p.val = x
  BY <1>1 DEF NewRows
<1>3. r \in NewInlined(t, start)
  BY <1>2 DEF NewInlined
<1>4. r.live /\ r.val = x
  OBVIOUS
<1> HIDE DEF r, p
<1>5. r \in LiveInlined(now)
  BY <1>3, <1>4 DEF Becomes, InlinedOf, LiveInlined
<1>6. Pair(r) \in LiveRows(now) /\ Pair(r)[2] = x
  BY <1>4, <1>5 DEF LiveRows, Pairs, Pair
<1> QED BY <1>6

\* The values that a transaction adds.
LEMMA NewFileValues ==
    ASSUME NEW t, GoodWork(t), NEW i \in DOMAIN t.new_files, NEW vals, vals = ToSet(t.new_files[i].values)
    PROVE  vals \in SUBSET Values /\ t.new_files[i].bounded \in BOOLEAN
<1>1. t.new_files \in Seq([values : Seq(Values), bounded : Bounded])
  BY DEF GoodWork
<1>2. i \in 1..Len(t.new_files)
  BY <1>1
<1>3. t.new_files[i] \in [values : Seq(Values), bounded : Bounded]
  BY <1>1, <1>2, ElementOfSeq
<1>4. t.new_files[i].values \in Seq(Values) /\ t.new_files[i].bounded \in Bounded
  BY <1>3
<1>5. \A s \in Seq(Values) : ToSet(s) \subseteq Values
  BY DEF ToSet
<1> QED BY <1>4, <1>5, StatisticsAssumption

\* The statistics of new data can be merged into a column whose bounds are in P.
LEMMA FileStatsMergeable ==
    ASSUME NEW values \in SUBSET Values, NEW bounded \in BOOLEAN, NEW x, x = FileStats(values, bounded),
           NEW P, values \ {Null} \subseteq P
    PROVE  Mergeable(x, P) /\ \A v \in values : Shows(x, v)
<1>1. /\ x \in Columns /\ Clean(x) /\ BoundsIn(x, values \ {Null})
      /\ \A v \in values : Shows(x, v)
  BY FileStatsShow
<1>2. Mergeable(x, values \ {Null})
  BY <1>1 DEF Mergeable
<1> QED BY <1>1, <1>2, BoundsGrow

\* The statistics of the new files, of the inlined rows and of the flushed rows show
\* the rows of the commit.
LEMMA NewFilesShow ==
    ASSUME NEW v, NEW t, Ready(v, t), NEW now, Becomes(v, t, now)
    PROVE  /\ \A b \in StatsOfNewFiles(t) : Mergeable(b, ValuesIn(LiveRows(now)))
           /\ \A i \in DOMAIN t.new_files : \A x \in ToSet(t.new_files[i].values) :
                \E b \in StatsOfNewFiles(t) : Shows(b, x)
           /\ IsFiniteSet(StatsOfNewFiles(t))
<1> DEFINE P == ValuesIn(LiveRows(now))
<1>1. GoodWork(t)
  BY DEF Ready
<1>2. ASSUME NEW i \in DOMAIN t.new_files
      PROVE  /\ Mergeable(StatsOfFile(t.new_files, i), P)
             /\ \A x \in ToSet(t.new_files[i].values) : Shows(StatsOfFile(t.new_files, i), x)
  <2> DEFINE vals == ToSet(t.new_files[i].values)
             bounded == t.new_files[i].bounded
  <2>1. vals \in SUBSET Values /\ bounded \in BOOLEAN
    BY <1>1, NewFileValues
  <2>2. \A x \in vals : \E q \in LiveRows(now) : q[2] = x
    BY NewFileRowsLive
  <2>3. vals \ {Null} \subseteq P
    BY <2>2 DEF ValuesIn
  <2>4. StatsOfFile(t.new_files, i) = FileStats(vals, bounded)
    BY DEF StatsOfFile
  <2> HIDE DEF vals, bounded, P
  <2>5. Mergeable(StatsOfFile(t.new_files, i), P) /\ \A x \in vals : Shows(StatsOfFile(t.new_files, i), x)
    BY <2>1, <2>3, <2>4, FileStatsMergeable
  <2> QED BY <2>5 DEF vals
<1>3. IsFiniteSet(StatsOfNewFiles(t))
  <2> DEFINE D == 1..Len(t.new_files)
             B == StatsOfNewFiles(t)
             h == [i \in D |-> StatsOfFile(t.new_files, i)]
  <2>1. t.new_files \in Seq([values : Seq(Values), bounded : Bounded])
    BY <1>1 DEF GoodWork
  <2>2. DOMAIN t.new_files = D /\ Len(t.new_files) \in Nat
    BY <2>1
  <2>3. IsFiniteSet(D)
    BY <2>2, FS_Interval
  <2>4. \A y \in B : \E x \in D : y = h[x]
    BY <2>2 DEF StatsOfNewFiles
  <2> HIDE DEF B, D, h
  <2>5. IsFiniteSet(B)
    BY <2>3, <2>4, ImageIsFinite
  <2> QED BY <2>5 DEF B
<1> HIDE DEF P
<1> QED BY <1>2, <1>3 DEF P, StatsOfNewFiles

LEMMA InlinedShows ==
    ASSUME NEW v, NEW t, Ready(v, t), NEW now, Becomes(v, t, now)
    PROVE  /\ \A b \in StatsOfInlined(t) : Mergeable(b, ValuesIn(LiveRows(now)))
           /\ \A x \in ToSet(t.new_inlined) : \E b \in StatsOfInlined(t) : Shows(b, x)
           /\ IsFiniteSet(StatsOfInlined(t))
<1> DEFINE P == ValuesIn(LiveRows(now))
           vals == ToSet(t.new_inlined)
           b == FileStats(vals, TRUE)
<1>1. t.new_inlined \in Seq(Values)
  BY DEF Ready, GoodWork
<1>2. vals \in SUBSET Values /\ (t.new_inlined = <<>> => vals = {})
  BY <1>1 DEF ToSet
<1>3. \A x \in vals : \E q \in LiveRows(now) : q[2] = x
  BY NewInlinedRowsLive
<1>4. vals \ {Null} \subseteq P
  BY <1>3 DEF ValuesIn
<1>5. StatsOfInlined(t) = IF t.new_inlined = <<>> THEN {} ELSE {b}
  BY DEF StatsOfInlined
<1> HIDE DEF P, vals
<1>6. Mergeable(b, P) /\ \A x \in vals : Shows(b, x)
  BY <1>2, <1>4, FileStatsMergeable
<1> HIDE DEF b
<1>7. IsFiniteSet({b}) /\ IsFiniteSet({})
  BY FS_Singleton, FS_EmptySet
<1> QED BY <1>2, <1>5, <1>6, <1>7 DEF P, vals

LEMMA FlushShows ==
    ASSUME NEW v, NEW t, Ready(v, t)
    PROVE  /\ \A b \in StatsOfFlush(t) : Mergeable(b, ValuesIn(Pairs(t.flush)))
           /\ \A q \in Pairs(t.flush) : \E b \in StatsOfFlush(t) : Shows(b, q[2])
           /\ IsFiniteSet(StatsOfFlush(t))
<1> DEFINE P == ValuesIn(Pairs(t.flush))
           vals == {r.val : r \in t.flush}
           b == FileStats(vals, TRUE)
<1>1. \A r \in t.flush : r.val \in Values
  BY DEF Ready, GoodWork, SolidWork, SolidView
<1>2. vals \in SUBSET Values /\ \A q \in Pairs(t.flush) : t.flush # {} /\ q[2] \in vals
  BY <1>1 DEF Pairs, Pair
<1>3. vals \ {Null} \subseteq P
  <2>1. \A r \in t.flush : Pair(r) \in Pairs(t.flush) /\ Pair(r)[2] = r.val
    BY DEF Pairs, Pair
  <2> QED BY <2>1 DEF ValuesIn
<1>4. StatsOfFlush(t) = IF t.flush = {} THEN {} ELSE {b}
  BY DEF StatsOfFlush
<1> HIDE DEF P, vals
<1>5. Mergeable(b, P) /\ \A x \in vals : Shows(b, x)
  BY <1>2, <1>3, FileStatsMergeable
<1> HIDE DEF b
<1>6. IsFiniteSet({b}) /\ IsFiniteSet({})
  BY FS_Singleton, FS_EmptySet
<1> QED BY <1>2, <1>4, <1>5, <1>6 DEF P

\* Every row that a commit numbers is shown.
LEMMA NewRowsShown ==
    ASSUME NEW v, NEW t, Ready(v, t), t.rewrites = {}, NEW now, Becomes(v, t, now),
           NEW q \in Counted(now), q[1] > Start(v.stats)
    PROVE  \E b \in NewStats(t) : Shows(b, q[2])
<1> DEFINE n == Start(v.stats)
           id == v.next_file_id
           new == id + IdsOfMovedRows(t)
           start == n + NewFileRows(t)
<1>1. n \in Nat
  BY NewRowsAbove
<1>2. \A p \in AllPairs(v) : p[1] \in Nat /\ p[1] <= n
  BY ViewPairs DEF Ready
<1>3. q \notin AllPairs(v)
  BY <1>1, <1>2
<1>4. q \notin Pairs(t.flush)
  BY <1>3, FlushedPairs DEF AllPairs
<1>5. /\ \A g \in v.data_file : SolidFile(g)
      /\ \A p \in v.inlined : DOMAIN p = InlinedFields
      /\ GoodWork(t) /\ id \in Nat
  BY DEF Ready, SolidView, GoodView, GoodInlined
<1>6. CASE q \in Pairs(LiveInlined(now))
  <2>1. PICK r \in now.inlined : q = Pair(r) /\ q[2] = r.val
    BY <1>6, PairIn DEF LiveInlined
  <2>2. r \notin KeptInlined(v, t)
    <3> SUFFICES ASSUME r \in KeptInlined(v, t) PROVE FALSE
      OBVIOUS
    <3>1. PICK p \in v.inlined : r.rid = p.rid /\ r.val = p.val
      BY <1>5, KeptInlinedParts
    <3>2. q \in Pairs(v.inlined)
      BY <2>1, <3>1 DEF Pairs, Pair
    <3> QED BY <1>3, <3>2 DEF AllPairs
  <2>3. r \in NewInlined(t, start)
    BY <2>1, <2>2 DEF Becomes, InlinedOf
  <2>4. PICK p \in NewRows(t.new_inlined, start) : r.val = p.val
    BY <2>3 DEF NewInlined
  <2>5. q[2] \in ToSet(t.new_inlined)
    BY <2>1, <2>4 DEF NewRows, ToSet
  <2> QED BY <2>5, InlinedShows DEF NewStats
<1>7. CASE q \in PairsOf(now.data_file)
  <2>1. PICK f \in now.data_file : q \in Pairs(f.rows)
    BY <1>7 DEF PairsOf
  <2>2. PICK r \in f.rows : q = Pair(r) /\ q[2] = r.val
    BY <2>1, PairIn
  <2>3. f \notin KeptFiles(v, t)
    <3> SUFFICES ASSUME f \in KeptFiles(v, t) PROVE FALSE
      OBVIOUS
    <3>1. PICK g \in v.data_file : f.rows = g.rows
      BY <1>5, KeptFileParts
    <3> QED BY <1>3, <2>1, <3>1 DEF AllPairs, PairsOf
  <2>4. f \notin FlushedFile(t, id)
    <3> SUFFICES ASSUME f \in FlushedFile(t, id) PROVE FALSE
      OBVIOUS
    <3>1. f.rows = FlushedRows(t.flush)
      BY DEF FlushedFile, FlushedRows
    <3>2. PICK s \in t.flush : r = [rid |-> s.rid, val |-> s.val]
      BY <2>2, <3>1 DEF FlushedRows
    <3>3. q = Pair(s)
      BY <2>2, <3>2 DEF Pair
    <3> QED BY <1>4, <3>3 DEF Pairs
  <2>5. Rewritten(t, id) = {}
    BY DEF Rewritten, RewrittenFiles, FilesById
  <2>6. f \in NewDataFiles(t, new, n)
    BY <2>1, <2>3, <2>4, <2>5 DEF Becomes, FilesOf
  <2>7. PICK i \in DOMAIN t.new_files : \E up : f.rows = NewRows(t.new_files[i].values, up)
    BY <2>6 DEF NewDataFiles
  <2>8. q[2] \in ToSet(t.new_files[i].values)
    BY <2>2, <2>7 DEF NewRows, ToSet
  <2> QED BY <2>8, NewFilesShow DEF NewStats
<1> QED BY <1>6, <1>7 DEF Counted

----------------------------------------------------------------------------
(* The statistics that a commit without rewrites writes.                   *)

\* UpdateGlobalTableStats, when the table has statistics.
WrittenStats(old, t, stats) ==
    LET new == UpdateGlobalTableStats(old, TRUE, MergeNewData(t, ApplyDroppedFileStats(t, stats)))
    IN  IF LiveRowsRemain(t, stats) THEN [new EXCEPT !.column = None] ELSE new

\* The column that the statistics of new data are merged into.
MergedInto(t, stats) ==
    IF t.dropped_files = {} \/ stats.column = None \/ LiveRowsRemain(t, stats) THEN stats.column ELSE EmptyStats(FALSE)

\* The fields of the statistics that are written.
LEMMA WrittenParts ==
    ASSUME NEW old, NEW t, NEW stats, DOMAIN stats = StatsFields,
           stats.record_count \in Int, NEW k \in Int, k = NewFileRows(t) + Len(t.new_inlined),
           NEW d \in Int, d = DroppedRowCount(t), t.dropped_files = {} => d = 0,
           NEW x, x = MergeAll(MergedInto(t, stats), NewStats(t)),
           NEW s, s = WrittenStats(old, t, stats)
    PROVE  /\ DOMAIN s = StatsFields /\ s.record_count = stats.record_count - d + k
           /\ LiveRowsRemain(t, stats) \/ old.column = None => s.column = None
           /\ ~LiveRowsRemain(t, stats) /\ old.column # None /\ x # None
                => s.column = ConvertNewGlobalStats(x)
<1> DEFINE a == ApplyDroppedFileStats(t, stats)
           into == MergedInto(t, stats)
<1>1. DOMAIN a = StatsFields /\ a.record_count = stats.record_count - d /\ a.column = into
  <2>1. CASE t.dropped_files = {}
    BY <2>1 DEF ApplyDroppedFileStats, MergedInto
  <2>2. CASE t.dropped_files # {}
    <3> DEFINE column == IF stats.column = None \/ LiveRowsRemain(t, stats) THEN stats.column ELSE EmptyStats(FALSE)
               count == stats.record_count - d
    <3>1. a = [stats EXCEPT !.record_count = count, !.column = column]
      BY <2>2 DEF ApplyDroppedFileStats
    <3>2. into = column
      BY <2>2 DEF MergedInto
    <3> HIDE DEF column, count, a, into
    <3>3. DOMAIN a = StatsFields /\ a.record_count = count /\ a.column = column
      BY <3>1 DEF StatsFields
    <3> QED BY <3>2, <3>3 DEF count
  <2> QED BY <2>1, <2>2
<1> HIDE DEF a
<1> DEFINE merged == MergeNewData(t, a)
           count == stats.record_count - d + k
<1>2. merged = [record_count |-> a.record_count + k, next_row_id |-> a.next_row_id + k, column |-> x]
  <2>1. into = a.column
    BY <1>1
  <2>2. x = MergeAll(a.column, NewStats(t))
    BY <2>1
  <2> QED BY <2>2 DEF MergeNewData, NewStats, StatsOfNewFiles, StatsOfFlush, StatsOfInlined, StatsOfFile
<1>3. merged.record_count = a.record_count + k /\ merged.column = x /\ DOMAIN merged = StatsFields
  <2> HIDE DEF merged
  <2> QED BY <1>2 DEF StatsFields
<1>4. merged.record_count = count
  <2> HIDE DEF merged
  <2> QED BY <1>1, <1>3
<1> DEFINE new == UpdateGlobalTableStats(old, TRUE, merged)
           column == IF old.column = None THEN None
                     ELSE IF merged.column = None THEN old.column
                     ELSE ConvertNewGlobalStats(merged.column)
<1>5. new = [merged EXCEPT !.column = column]
  BY DEF UpdateGlobalTableStats
<1>6. s = IF LiveRowsRemain(t, stats) THEN [new EXCEPT !.column = None] ELSE new
  BY DEF WrittenStats, a
<1>7. /\ old.column = None => column = None
      /\ old.column # None /\ x # None => column = ConvertNewGlobalStats(x)
  <2>1. merged.column = x
    BY <1>3
  <2> HIDE DEF merged
  <2> QED BY <2>1
<1> HIDE DEF column, merged, new, count
<1>8. DOMAIN new = StatsFields /\ new.record_count = count /\ new.column = column
  BY <1>3, <1>4, <1>5 DEF StatsFields
<1>9. /\ DOMAIN s = StatsFields /\ s.record_count = count
      /\ LiveRowsRemain(t, stats) => s.column = None
      /\ ~LiveRowsRemain(t, stats) => s.column = column
  BY <1>6, <1>8 DEF StatsFields
<1> QED BY <1>7, <1>9 DEF count

LEMMA NewStatsMerge ==
    ASSUME NEW v, NEW t, Ready(v, t), NEW now, Becomes(v, t, now), NEW P,
           ValuesIn(LiveRows(now)) \subseteq P, ValuesIn(Pairs(t.flush)) \subseteq P
    PROVE  IsFiniteSet(NewStats(t)) /\ \A b \in NewStats(t) : Mergeable(b, P)
<1> DEFINE F == StatsOfNewFiles(t)
           L == StatsOfFlush(t)
           I == StatsOfInlined(t)
<1>1. IsFiniteSet(F) /\ \A b \in F : Mergeable(b, P)
  BY NewFilesShow, BoundsGrow
<1>2. IsFiniteSet(L) /\ \A b \in L : Mergeable(b, P)
  BY FlushShows, BoundsGrow
<1>3. IsFiniteSet(I) /\ \A b \in I : Mergeable(b, P)
  BY InlinedShows, BoundsGrow
<1>4. NewStats(t) = F \cup L \cup I
  BY DEF NewStats
<1> HIDE DEF F, L, I
<1>5. IsFiniteSet(F \cup L \cup I)
  BY <1>1, <1>2, <1>3, FS_Union
<1> QED BY <1>1, <1>2, <1>3, <1>4, <1>5

\* The rows that are not new must be covered before.
LEMMA MergedFits ==
    ASSUME NoneIsNoColumn, NEW v, NEW t, Ready(v, t), t.rewrites = {}, NEW now, Becomes(v, t, now),
           GoodView(now), SolidView(now),
           NEW a \in Columns \cup {None}, NEW P, a # None => Clean(a) /\ BoundsIn(a, P),
           ValuesIn(LiveRows(now)) \subseteq P, ValuesIn(Pairs(t.flush)) \subseteq P,
           \A q \in Counted(now) : q[1] <= Start(v.stats) /\ q \notin Pairs(t.flush) => a # None /\ Holds(a, q[2]),
           a # None \/ NewStats(t) # {},
           NEW x, x = MergeAll(a, NewStats(t))
    PROVE  /\ x \in Columns /\ x # None /\ BoundsIn(x, P)
           /\ \A q \in Counted(now) : Admits(x, q[2])
<1> DEFINE B == NewStats(t)
<1>1. IsFiniteSet(B) /\ \A b \in B : Mergeable(b, P)
  BY NewStatsMerge
<1>2. \A b \in B : b \in Columns /\ Clean(b) /\ BoundsIn(b, P)
  BY <1>1 DEF Mergeable
<1>3. \A q \in Counted(now) : q[1] \in Nat /\ q[2] \in Values
  BY ViewPairs
<1>4. Start(v.stats) \in Nat
  BY NewRowsAbove
<1>5. ASSUME NEW q \in Counted(now)
      PROVE  (a # None /\ Holds(a, q[2])) \/ \E b \in B : Shows(b, q[2])
  <2>1. CASE q[1] > Start(v.stats)
    BY <2>1, NewRowsShown
  <2>2. CASE q \in Pairs(t.flush)
    BY <2>2, FlushShows DEF NewStats
  <2>3. CASE q[1] <= Start(v.stats) /\ q \notin Pairs(t.flush)
    BY <2>3
  <2> QED BY <1>3, <1>4, <2>1, <2>2, <2>3
<1> HIDE DEF B
<1>6. x = MergeAll(a, B) /\ (a # None \/ B # {})
  BY DEF B
<1>7. MergedOk(x, a, B, P)
  BY <1>1, <1>2, <1>6, MergeAllHolds
<1>8. x \in Columns /\ x # None /\ BoundsIn(x, P)
  BY <1>6, <1>7 DEF MergedOk
<1>9. ASSUME NEW q \in Counted(now) PROVE Admits(x, q[2])
  <2>1. Holds(x, q[2])
    BY <1>3, <1>5, <1>7 DEF MergedOk
  <2> QED BY <2>1 DEF Holds
<1> QED BY <1>8, <1>9

\* The fields of the statistics that a process reads.
LEMMA LoadedParts ==
    ASSUME NEW u, u # None, StatsOk(u), NEW s, s = LoadStats(u)
    PROVE  /\ DOMAIN s = StatsFields /\ s.record_count = u.record_count
           /\ u.column = None => s.column = None
           /\ u.column # None => s.column = FromGlobalStats(u.column, u.record_count > 0)
<1> DEFINE column == IF u.column = None THEN None ELSE FromGlobalStats(u.column, u.record_count > 0)
<1>1. s = [u EXCEPT !.column = column]
  BY DEF LoadStats
<1>2. DOMAIN u = StatsFields
  BY DEF StatsOk
<1>3. /\ u.column = None => column = None
      /\ u.column # None => column = FromGlobalStats(u.column, u.record_count > 0)
  OBVIOUS
<1> HIDE DEF column
<1>4. DOMAIN s = StatsFields /\ s.record_count = u.record_count /\ s.column = column
  BY <1>1, <1>2 DEF StatsFields
<1> QED BY <1>3, <1>4

LEMMA EmptyColumn ==
    ASSUME NEW b \in BOOLEAN, NEW x, x = EmptyStats(b)
    PROVE  x \in Columns /\ ~HasBounds(x) /\ Clean(x) /\ x.nulls = "unknown" /\ \A P : BoundsIn(x, P)
<1>1. x.nulls = "unknown" /\ x.min = None /\ x.max = None
  BY DEF EmptyStats
<1>2. x \in Columns
  BY DEF EmptyStats, Columns, Nulls, Bounds
<1> QED BY <1>1, <1>2 DEF HasBounds, Clean, BoundsIn

\* Statistics of a column that say nothing.
SaysNothing(s) == s # None /\ ~Lost(s) => ~HasBounds(s.column) /\ s.column.nulls = "unknown"

\* Such statistics fit every snapshot.
LEMMA NothingFitsAll ==
    ASSUME NEW s, SaysNothing(s), NEW v
    PROVE  Fits(s, v)
BY DEF SaysNothing, Fits, ColumnFits, HasBounds, Admits

\* A column that admits all rows, and is tight if record_count is, fits.
LEMMA ColumnWritten ==
    ASSUME NoneIsNoColumn, NEW x \in Columns, NEW s, s.column = ConvertNewGlobalStats(x), s.record_count \in Int,
           NEW now, \A q \in Counted(now) : Admits(x, q[2]),
           s.record_count >= Cardinality(Counted(now)),
           s.record_count = Cardinality(LiveRows(now)) => BoundsIn(x, ValuesIn(LiveRows(now)))
    PROVE  StatsTyped(s) /\ ~Lost(s) /\ Fits(s, now)
<1> DEFINE y == ConvertNewGlobalStats(x)
<1>1. y \in StoredColumns /\ y.nulls = x.nulls /\ y.min = x.min /\ y.max = x.max
  BY StoredColumn
<1>2. y # None
  BY <1>1, NoneNotColumn
<1> HIDE DEF y
<1>3. s.column = y
  BY DEF y
<1>4. \A q \in Counted(now) : Admits(y, q[2])
  BY <1>1 DEF Admits
<1>5. BoundsIn(x, ValuesIn(LiveRows(now))) => BoundsIn(y, ValuesIn(LiveRows(now)))
  BY <1>1 DEF BoundsIn
<1> QED BY <1>1, <1>2, <1>3, <1>4, <1>5 DEF StatsTyped, Lost, Fits, ColumnFits


LEMMA MergeNothing ==
    ASSUME NEW a \in Columns \cup {None}
    PROVE  MergeAll(a, {}) = a
<1>1. IsFiniteSet({}) /\ {} \subseteq Columns
  BY FS_EmptySet
<1>2. PICK g : g[{}] = a /\ g[{}] = MergeAll(a, {})
  BY <1>1, MergeAllFolds
<1> QED BY <1>2

\* What is known of the statistics u that a commit to the snapshot v starts from.
StartsFrom(v, t, u) ==
    /\ u # None /\ v.stats # None /\ StatsOk(u) /\ StatsTyped(u)
    /\ Counts(u, v) /\ Fits(u, v) /\ (Lost(u) => Lost(v.stats))
    /\ t.flush # {} => AllRows(v) <= u.record_count
    /\ t.dropped_files # {} => DroppedRowCount(t) <= u.record_count

LEMMA NothingDropped ==
    ASSUME NEW v, NEW t, Ready(v, t), t.dropped_files = {}
    PROVE  DroppedRowCount(t) = 0
<1>1. Gone(t) = {}
  BY DEF Gone, FilesById, PairsOf
<1>2. DroppedRowCount(t) = Cardinality(Gone(t))
  BY GoneRows
<1> QED BY <1>1, <1>2, FS_EmptySet

\* The values of rows are integers or NULL.
LEMMA ValuesAreInt ==
    ASSUME NEW v, GoodView(v), SolidView(v), NEW rows, rows \subseteq AllPairs(v)
    PROVE  ValuesIn(rows) \subseteq Int
<1>1. \A q \in rows : q[2] \in Values
  BY ViewPairs
<1> QED BY <1>1, StatisticsAssumption DEF ValuesIn

\* Nothing has been dropped: the new statistics are merged into those there are.
LEMMA ChangedColumnFits ==
    ASSUME NoneIsNoColumn, NEW v, NEW t, Ready(v, t), t.rewrites = {}, NEW now, Becomes(v, t, now),
           GoodView(now), SolidView(now), NEW k \in Nat, Start(now.stats) = Start(v.stats) + k,
           NEW u, StartsFrom(v, t, u), ~Lost(u), t.dropped_files = {},
           NEW l, l = FromGlobalStats(u.column, u.record_count > 0), NEW x, x = MergeAll(l, NewStats(t))
    PROVE  /\ x \in Columns /\ x # None /\ \A q \in Counted(now) : Admits(x, q[2])
           /\ u.record_count + k = Cardinality(LiveRows(now)) => BoundsIn(x, ValuesIn(LiveRows(now)))
<1> DEFINE n == Start(v.stats)
           r == u.record_count
           d == DroppedRowCount(t)
           L == ValuesIn(LiveRows(now))
           P == IF r + k = Cardinality(LiveRows(now)) THEN L ELSE Int
           b == r > 0
<1>1. r \in Nat /\ Cardinality(Counted(v)) <= r /\ ColumnFits(u, v) /\ u.column \in StoredColumns
  BY DEF StartsFrom, Counts, Fits, StatsTyped, Lost
<1>2. d = 0
  BY NothingDropped
<1>3. /\ Cardinality(AllPairs(v)) \in Nat /\ AllRows(v) \in Int /\ Cardinality(AllPairs(v)) <= AllRows(v)
      /\ Cardinality(Counted(v)) \in Nat
  BY ViewCounts DEF Ready
<1>4. CountedBy(v, t, r)
  <2>1. t.flush # {} => AllRows(v) <= r
    BY DEF StartsFrom
  <2> HIDE DEF r
  <2> QED BY <1>1, <1>3, <2>1 DEF CountedBy
<1>5. r + k = Cardinality(LiveRows(now)) =>
        /\ r = Cardinality(LiveRows(v)) /\ LiveRows(v) \subseteq LiveRows(now)
        /\ Pairs(t.flush) \subseteq LiveRows(now)
  <2> HIDE DEF r
  <2> QED BY <1>2, <1>4, CommitCounts
<1>6. /\ LiveRows(now) \subseteq AllPairs(now) /\ LiveRows(v) \subseteq Counted(v)
      /\ IsFiniteSet(Counted(v))
  BY ViewPairs DEF Ready
<1>7. L \subseteq Int /\ ValuesIn(Pairs(t.flush)) \subseteq Int
  <2>1. Pairs(t.flush) \subseteq AllPairs(v)
    BY FlushedPairs DEF AllPairs
  <2> QED BY <1>6, <2>1, ValuesAreInt DEF Ready
<1>8. /\ l \in Columns /\ l.min = u.column.min /\ l.max = u.column.max /\ Clean(l)
      /\ b => \A y \in Values : Admits(u.column, y) => Holds(l, y)
  <2>1. b \in BOOLEAN /\ l = FromGlobalStats(u.column, b)
    OBVIOUS
  <2> HIDE DEF b
  <2> QED BY <1>1, <2>1, LoadedColumn
<1>9. BoundsIn(l, P)
  <2>1. CASE r + k = Cardinality(LiveRows(now))
    <3>1. HasBounds(u.column) => BoundsIn(u.column, ValuesIn(LiveRows(v)))
      BY <1>1, <1>5, <2>1 DEF ColumnFits
    <3>2. ValuesIn(LiveRows(v)) \subseteq L
      BY <1>5, <2>1 DEF ValuesIn
    <3>3. P = L
      BY <2>1
    <3> HIDE DEF L, P, r
    <3> QED BY <1>8, <3>1, <3>2, <3>3 DEF BoundsIn, HasBounds
  <2>2. CASE r + k # Cardinality(LiveRows(now))
    <3>1. l.min \in Bounds /\ l.max \in Bounds
      BY <1>8, ColumnParts
    <3>2. P = Int
      BY <2>2
    <3> HIDE DEF P
    <3> QED BY <3>1, <3>2 DEF BoundsIn, Bounds
  <2> QED BY <2>1, <2>2
<1>10. L \subseteq P /\ ValuesIn(Pairs(t.flush)) \subseteq P
  <2>1. CASE r + k = Cardinality(LiveRows(now))
    BY <1>5, <2>1 DEF ValuesIn
  <2>2. CASE r + k # Cardinality(LiveRows(now))
    BY <1>7, <2>2
  <2> QED BY <2>1, <2>2
<1>11. l # None
  BY <1>8, NoneNotColumn
<1>12. ASSUME NEW q \in Counted(now), q[1] <= n, q \notin Pairs(t.flush) PROVE Holds(l, q[2])
  <2>1. q \in Counted(v)
    BY <1>12, OldRows
  <2>2. q[2] \in Values
    BY <2>1, ViewPairs DEF Ready
  <2>3. Cardinality(Counted(v)) # 0
    BY <1>6, <2>1, FS_EmptySet
  <2>4. b
    <3> HIDE DEF r
    <3> QED BY <1>1, <1>3, <2>3 DEF b
  <2>5. Admits(u.column, q[2])
    BY <1>1, <2>1 DEF ColumnFits
  <2> QED BY <1>8, <2>2, <2>4, <2>5
<1>13. P = L \/ r + k # Cardinality(LiveRows(now))
  OBVIOUS
<1> HIDE DEF P, r, b, L
<1>14. /\ x \in Columns /\ x # None /\ BoundsIn(x, P)
       /\ \A q \in Counted(now) : Admits(x, q[2])
  <2>1. ValuesIn(LiveRows(now)) \subseteq P
    BY <1>10 DEF L
  <2> QED BY <1>8, <1>9, <1>10, <1>11, <1>12, <2>1, MergedFits
<1> QED BY <1>13, <1>14 DEF L, r

\* All rows have been dropped.
LEMMA DroppedColumnFits ==
    ASSUME NoneIsNoColumn, NEW v, NEW t, Ready(v, t), t.rewrites = {}, NEW now, Becomes(v, t, now),
           GoodView(now), SolidView(now), NEW k \in Nat, Start(now.stats) = Start(v.stats) + k,
           NEW r, CountedBy(v, t, r), r <= DroppedRowCount(t),
           NEW x, x = MergeAll(EmptyStats(FALSE), NewStats(t))
    PROVE  /\ x \in Columns /\ x # None /\ \A q \in Counted(now) : Admits(x, q[2])
           /\ BoundsIn(x, ValuesIn(LiveRows(now)))
           /\ NewStats(t) = {} => ~HasBounds(x) /\ x.nulls = "unknown"
<1> DEFINE l == EmptyStats(FALSE)
           L == ValuesIn(LiveRows(now))
           n == Start(v.stats)
<1>1. t.flush = {} /\ \A q \in Counted(now) : q[1] > n
  BY CommitCounts
<1>2. l \in Columns /\ ~HasBounds(l) /\ Clean(l) /\ l.nulls = "unknown" /\ BoundsIn(l, L)
  BY EmptyColumn
<1>3. l # None
  BY <1>2, NoneNotColumn
<1>4. ValuesIn(Pairs(t.flush)) = {}
  BY <1>1 DEF ValuesIn, Pairs
<1>5. \A q \in Counted(now) : q[1] \in Nat
  BY ViewPairs
<1>6. n \in Nat
  BY NewRowsAbove
<1>7. \A q \in Counted(now) : ~(q[1] <= n)
  <2> HIDE DEF n
  <2> QED BY <1>1, <1>5, <1>6
<1>8. x = MergeAll(l, NewStats(t))
  OBVIOUS
<1> HIDE DEF l, L
<1>9. x \in Columns /\ x # None /\ BoundsIn(x, L) /\ \A q \in Counted(now) : Admits(x, q[2])
  <2>1. ValuesIn(LiveRows(now)) \subseteq L
    BY DEF L
  <2> QED BY <1>2, <1>3, <1>4, <1>7, <1>8, <2>1, MergedFits
<1>10. NewStats(t) = {} => x = l
  BY <1>2, <1>8, MergeNothing
<1> QED BY <1>2, <1>9, <1>10 DEF L

\* A commit without rewrites that adds k rows.
Adds(v, t, now, k) ==
    /\ Ready(v, t) /\ t.rewrites = {} /\ Becomes(v, t, now)
    /\ GoodView(now) /\ SolidView(now)
    /\ k \in Nat /\ Start(now.stats) = Start(v.stats) + k

Loads(stats, u) ==
    /\ stats.record_count = u.record_count
    /\ u.column # None => stats.column = FromGlobalStats(u.column, u.record_count > 0)

WritesColumn(v, t, stats, x, s) ==
    /\ LiveRowsRemain(t, stats) \/ v.stats.column = None => s.column = None
    /\ ~LiveRowsRemain(t, stats) /\ v.stats.column # None /\ x # None => s.column = ConvertNewGlobalStats(x)

\* The statistics that a commit without rewrites writes fit the new snapshot.
LEMMA WrittenFits ==
    ASSUME NoneIsNoColumn, NEW v, NEW t, NEW now, NEW k, Adds(v, t, now, k),
           NEW u, StartsFrom(v, t, u), NEW r, r = u.record_count, NEW d, d = DroppedRowCount(t),
           NEW stats, Loads(stats, u), NEW x, x = MergeAll(MergedInto(t, stats), NewStats(t)),
           NEW s, s # None, s.record_count = r - d + k, WritesColumn(v, t, stats, x, s)
    PROVE  /\ StatsTyped(s) /\ Counts(s, now) /\ Fits(s, now) /\ (Lost(v.stats) => Lost(s))
           /\ t.dropped_files # {} /\ NewStats(t) = {} => SaysNothing(s)
<1>01. /\ Ready(v, t) /\ t.rewrites = {} /\ Becomes(v, t, now)
       /\ GoodView(now) /\ SolidView(now)
       /\ k \in Nat /\ Start(now.stats) = Start(v.stats) + k
  BY DEF Adds
<1>02. stats.record_count = r /\ (u.column # None => stats.column = FromGlobalStats(u.column, r > 0))
  BY DEF Loads
<1>03. /\ LiveRowsRemain(t, stats) \/ v.stats.column = None => s.column = None
       /\ ~LiveRowsRemain(t, stats) /\ v.stats.column # None /\ x # None => s.column = ConvertNewGlobalStats(x)
  BY DEF WritesColumn
<1>1. /\ u # None /\ v.stats # None /\ StatsOk(u) /\ StatsTyped(u)
      /\ Counts(u, v) /\ Fits(u, v) /\ (Lost(u) => Lost(v.stats))
      /\ t.flush # {} => AllRows(v) <= r
      /\ t.dropped_files # {} => d <= r
  BY DEF StartsFrom
<1>2. r \in Nat /\ Cardinality(Counted(v)) <= r
  BY <1>1 DEF Counts
<1>3. /\ Cardinality(AllPairs(v)) \in Nat /\ AllRows(v) \in Int /\ Cardinality(AllPairs(v)) <= AllRows(v)
  BY <1>01, ViewCounts DEF Ready
<1>4. CountedBy(v, t, r)
  BY <1>1, <1>2, <1>3 DEF CountedBy
<1>5. d \in Nat /\ Cardinality(Counted(now)) <= r - d + k
  BY <1>01, <1>4, CommitCounts
<1>6. t.dropped_files = {} => d = 0
  BY <1>01, NothingDropped
<1>10. Cardinality(Counted(now)) \in Nat
  BY <1>01, ViewCounts
<1>11. d <= r /\ s.record_count \in Nat /\ s.record_count \in Int /\ s.record_count >= Cardinality(Counted(now))
  <2>1. d <= r
    BY <1>1, <1>2, <1>6
  <2>2. r - d + k \in Nat
    BY <1>01, <1>2, <1>5, <2>1
  <2> QED BY <1>01, <1>2, <1>5, <1>10, <2>1, <2>2
<1>12. Counts(s, now)
  BY <1>11 DEF Counts
<1>13. CASE LiveRowsRemain(t, stats) \/ v.stats.column = None
  <2>1. s.column = None
    BY <1>03, <1>13
  <2>2. StatsTyped(s) /\ Lost(s)
    BY <1>11, <2>1 DEF StatsTyped, Lost
  <2> QED BY <1>12, <2>2 DEF Fits, SaysNothing
<1>14. CASE ~LiveRowsRemain(t, stats) /\ v.stats.column # None
  <2>1. u.column # None /\ ~Lost(u) /\ u.column \in StoredColumns
    BY <1>1, <1>14 DEF Lost, StatsTyped
  <2> DEFINE l == FromGlobalStats(u.column, r > 0)
  <2>2. l # None
    <3> DEFINE b == r > 0
    <3>1. b \in BOOLEAN
      OBVIOUS
    <3> HIDE DEF b
    <3>2. FromGlobalStats(u.column, b) \in Columns
      BY <2>1, <3>1, LoadedColumn
    <3> QED BY <3>2, NoneNotColumn DEF b
  <2>3. CASE t.dropped_files = {}
    <3>1. x = MergeAll(l, NewStats(t))
      BY <1>02, <2>1, <2>3 DEF MergedInto
    <3>2. /\ x \in Columns /\ x # None /\ \A q \in Counted(now) : Admits(x, q[2])
          /\ r + k = Cardinality(LiveRows(now)) => BoundsIn(x, ValuesIn(LiveRows(now)))
      BY <1>01, <2>1, <2>3, <3>1, ChangedColumnFits
    <3>3. s.column = ConvertNewGlobalStats(x)
      BY <1>03, <1>14, <3>2
    <3>4. s.record_count = r + k
      BY <1>01, <1>2, <1>6, <2>3
    <3>6. StatsTyped(s) /\ ~Lost(s) /\ Fits(s, now)
      BY <1>11, <3>2, <3>3, <3>4, ColumnWritten
    <3> QED BY <1>12, <1>14, <2>3, <3>6 DEF Lost
  <2>4. CASE t.dropped_files # {}
    <3>1. r <= d
      <4>1. ~(r > d)
        BY <1>02, <1>14, <2>4 DEF LiveRowsRemain
      <4> QED BY <1>2, <1>5, <4>1
    <3>2. x = MergeAll(EmptyStats(FALSE), NewStats(t))
      BY <1>02, <1>14, <2>1, <2>2, <2>4 DEF MergedInto
    <3>3. /\ x \in Columns /\ x # None /\ \A q \in Counted(now) : Admits(x, q[2])
          /\ BoundsIn(x, ValuesIn(LiveRows(now)))
          /\ NewStats(t) = {} => ~HasBounds(x) /\ x.nulls = "unknown"
      BY <1>01, <1>4, <3>1, <3>2, DroppedColumnFits
    <3>4. s.column = ConvertNewGlobalStats(x)
      BY <1>03, <1>14, <3>3
    <3>5. StatsTyped(s) /\ ~Lost(s) /\ Fits(s, now)
      BY <1>11, <3>3, <3>4, ColumnWritten
    <3>6. s.column.nulls = x.nulls /\ s.column.min = x.min /\ s.column.max = x.max
      BY <3>3, <3>4, StoredColumn
    <3>7. NewStats(t) = {} => SaysNothing(s)
      BY <3>3, <3>6 DEF SaysNothing, HasBounds
    <3> QED BY <1>12, <1>14, <3>5, <3>7 DEF Lost
  <2> QED BY <2>3, <2>4
<1> QED BY <1>13, <1>14

LEMMA ChangedFits ==
    ASSUME NoneIsNoStats, NoneIsNoColumn, NEW v, NEW t, NEW now, NEW k, Adds(v, t, now, k),
           k = NewFileRows(t) + Len(t.new_inlined), NEW u, StartsFrom(v, t, u),
           NEW s, s = WrittenStats(v.stats, t, LoadStats(u))
    PROVE  /\ StatsTyped(s) /\ Counts(s, now) /\ Fits(s, now) /\ (Lost(v.stats) => Lost(s))
           /\ t.dropped_files # {} /\ NewStats(t) = {} => SaysNothing(s)
<1> DEFINE stats == LoadStats(u)
           r == u.record_count
           d == DroppedRowCount(t)
           x == MergeAll(MergedInto(t, stats), NewStats(t))
<1>1. u # None /\ StatsOk(u) /\ r \in Nat
  BY DEF StartsFrom, Counts
<1>2. d \in Nat /\ (t.dropped_files = {} => d = 0)
  BY GoneRows, NothingDropped DEF Adds
<1>3. /\ DOMAIN stats = StatsFields /\ stats.record_count = r
      /\ u.column # None => stats.column = FromGlobalStats(u.column, r > 0)
  BY <1>1, LoadedParts
<1>4. s = WrittenStats(v.stats, t, stats)
  OBVIOUS
<1>5. stats.record_count \in Int /\ k \in Int /\ d \in Int
  BY <1>1, <1>2, <1>3 DEF Adds
<1> HIDE DEF stats
<1>6. x = MergeAll(MergedInto(t, stats), NewStats(t)) /\ d = DroppedRowCount(t) /\ r = u.record_count
  OBVIOUS
<1> HIDE DEF x, r, d
<1>7. /\ DOMAIN s = StatsFields /\ s.record_count = stats.record_count - d + k
      /\ LiveRowsRemain(t, stats) \/ v.stats.column = None => s.column = None
      /\ ~LiveRowsRemain(t, stats) /\ v.stats.column # None /\ x # None
           => s.column = ConvertNewGlobalStats(x)
  BY <1>2, <1>3, <1>4, <1>5, <1>6, WrittenParts
<1>8. s # None /\ s.record_count = r - d + k
  BY <1>3, <1>7 DEF NoneIsNoStats
<1>9. WritesColumn(v, t, stats, x, s) /\ Loads(stats, u)
  BY <1>3, <1>6, <1>7 DEF WritesColumn, Loads
<1> QED BY <1>6, <1>8, <1>9, WrittenFits

----------------------------------------------------------------------------
(* The first rows of a table.                                              *)

\* The statistics of a table that had none.
FirstStats(t) == UpdateGlobalTableStats(None, FALSE, MergeNewData(t, NoRows))

LEMMA FirstParts ==
    ASSUME NEW t, NEW k \in Int, k = NewFileRows(t) + Len(t.new_inlined),
           NEW x, x = MergeAll(None, NewStats(t)), NEW s, s = FirstStats(t)
    PROVE  DOMAIN s = StatsFields /\ s.record_count = k /\ (x # None => s.column = ConvertNewGlobalStats(x))
<1> DEFINE merged == MergeNewData(t, NoRows)
<1>1. merged = [record_count |-> NoRows.record_count + k, next_row_id |-> NoRows.next_row_id + k, column |-> x]
  <2>1. NoRows.column = None
    BY DEF NoRows
  <2>2. x = MergeAll(NoRows.column, NewStats(t))
    BY <2>1
  <2> QED BY <2>2 DEF MergeNewData, NewStats, StatsOfNewFiles, StatsOfFlush, StatsOfInlined, StatsOfFile
<1>2. NoRows.record_count + k = k
  BY DEF NoRows
<1> HIDE DEF merged
<1>3. DOMAIN merged = StatsFields /\ merged.record_count = k /\ merged.column = x
  BY <1>1, <1>2 DEF StatsFields
<1> DEFINE column == IF merged.column = None THEN None ELSE ConvertNewGlobalStats(merged.column)
<1>4. s = [merged EXCEPT !.column = column]
  BY DEF FirstStats, UpdateGlobalTableStats, merged
<1>5. x # None => column = ConvertNewGlobalStats(x)
  BY <1>3
<1> HIDE DEF column
<1> QED BY <1>3, <1>4, <1>5 DEF StatsFields

LEMMA NoRowsCounted ==
    ASSUME NEW v, v.data_file = {}, v.inlined = {}
    PROVE  Counted(v) = {} /\ LiveRows(v) = {} /\ AllPairs(v) = {}
BY DEF Counted, LiveRows, AllPairs, PairsOf, LivePairs, LiveInlined, Pairs

LEMMA FirstWritten ==
    ASSUME NoneIsNoColumn, NEW v, NEW t, NEW now, NEW k, Adds(v, t, now, k),
           v.data_file = {}, v.inlined = {}, t.dropped_files = {}, t.flush = {}, NewStats(t) # {},
           NEW x, x = MergeAll(None, NewStats(t)),
           NEW s, s # None, s.record_count = k, x # None => s.column = ConvertNewGlobalStats(x)
    PROVE  StatsTyped(s) /\ Counts(s, now) /\ Fits(s, now)
<1> DEFINE P == ValuesIn(LiveRows(now))
<1>1. /\ Ready(v, t) /\ t.rewrites = {} /\ Becomes(v, t, now)
      /\ GoodView(now) /\ SolidView(now)
      /\ k \in Nat /\ Start(now.stats) = Start(v.stats) + k
  BY DEF Adds
<1>2. Counted(v) = {} /\ Cardinality({}) = 0
  BY NoRowsCounted, FS_EmptySet
<1>3. CountedBy(v, t, 0) /\ DroppedRowCount(t) = 0
  BY <1>1, <1>2, NothingDropped DEF CountedBy
<1>4. Cardinality(Counted(now)) <= k /\ Cardinality(Counted(now)) \in Nat
  <2>1. Cardinality(Counted(now)) <= 0 - 0 + k
    BY <1>1, <1>3, CommitCounts
  <2> QED BY <1>1, <2>1, ViewCounts
<1>5. Pairs(t.flush) = {}
  BY DEF Pairs
<1>6. \A q \in Counted(now) : ~(q[1] <= Start(v.stats))
  BY <1>1, <1>2, <1>5, OldRows
<1>7. ValuesIn(Pairs(t.flush)) \subseteq P /\ P \subseteq P
  BY <1>5 DEF ValuesIn
<1>8. /\ x \in Columns /\ x # None /\ BoundsIn(x, P)
      /\ \A q \in Counted(now) : Admits(x, q[2])
  <2> DEFINE a == None
  <2>1. a \in Columns \cup {None} /\ (a # None => Clean(a) /\ BoundsIn(a, P)) /\ x = MergeAll(a, NewStats(t))
    OBVIOUS
  <2> HIDE DEF a
  <2> QED BY <1>1, <1>6, <1>7, <2>1, MergedFits
<1>9. s.record_count \in Nat /\ s.record_count \in Int /\ s.record_count >= Cardinality(Counted(now))
  BY <1>1, <1>4
<1>10. StatsTyped(s) /\ Fits(s, now)
  BY <1>8, <1>9, ColumnWritten
<1> QED BY <1>9, <1>10 DEF Counts

LEMMA FirstFits ==
    ASSUME NoneIsNoStats, NoneIsNoColumn, NEW v, NEW t, NEW now, NEW k, Adds(v, t, now, k),
           k = NewFileRows(t) + Len(t.new_inlined),
           v.data_file = {}, v.inlined = {}, t.dropped_files = {}, t.flush = {}, NewStats(t) # {},
           NEW s, s = FirstStats(t)
    PROVE  StatsTyped(s) /\ Counts(s, now) /\ Fits(s, now)
<1> DEFINE x == MergeAll(None, NewStats(t))
<1>1. k \in Int
  BY DEF Adds
<1>2. DOMAIN s = StatsFields /\ s.record_count = k /\ (x # None => s.column = ConvertNewGlobalStats(x))
  BY <1>1, FirstParts
<1>3. s # None
  BY <1>2 DEF NoneIsNoStats
<1>4. x = MergeAll(None, NewStats(t))
  OBVIOUS
<1> HIDE DEF x
<1> QED BY <1>2, <1>3, <1>4, FirstWritten

----------------------------------------------------------------------------
(* The statistics that a rewrite computes.                                 *)

\* A transaction that rewrites files does nothing else.
OnlyRewrites(t) ==
    /\ t.rewrites # {}
    /\ t.new_files = <<>> /\ t.new_inlined = <<>> /\ t.flush = {}
    /\ t.delete_files = {} /\ t.dropped_files = {}
    /\ t.file_deletes = {} /\ t.inlined_deletes = {}

FilesLeft(v, t) == {f \in v.data_file : f.id \notin t.rewrites} \cup Rewritten(t, v.next_file_id)

\* The files and the inlined rows after a rewrite.
LEMMA RewriteFiles ==
    ASSUME NEW v, NEW t, Ready(v, t), OnlyRewrites(t), NEW now, Becomes(v, t, now)
    PROVE  now.data_file = FilesLeft(v, t)
<1>1. \A g \in v.data_file : SolidFile(g)
  BY DEF Ready, SolidView
<1>2. ASSUME NEW g \in v.data_file PROVE WithDeletes(g, t) = g
  <2>1. UNION {d.rids : d \in {e \in t.delete_files : e.file = g.id}} = {}
    BY DEF OnlyRewrites
  <2>2. UNION {d.rids : d \in {e \in t.file_deletes : e.file = g.id}} = {}
    BY DEF OnlyRewrites
  <2>3. WithDeletes(g, t) = [g EXCEPT !.deleted = @ \cup {}, !.inlined_deleted = @ \cup {}]
    BY <2>1, <2>2 DEF WithDeletes
  <2>4. g = [id |-> g.id, rows |-> g.rows, deleted |-> g.deleted,
             inlined_deleted |-> g.inlined_deleted, bounded |-> g.bounded]
    BY <1>1 DEF SolidFile
  <2>5. g.deleted \cup {} = g.deleted /\ g.inlined_deleted \cup {} = g.inlined_deleted
    OBVIOUS
  <2> QED BY <2>3, <2>4, <2>5
<1>3. KeptFiles(v, t) = {f \in v.data_file : f.id \notin t.rewrites}
  BY <1>2 DEF KeptFiles, OnlyRewrites
<1>4. FlushedFile(t, v.next_file_id) = {}
  BY DEF FlushedFile, OnlyRewrites
<1>5. \A a, b : NewDataFiles(t, a, b) = {}
  BY DEF NewDataFiles, OnlyRewrites
<1> QED BY <1>3, <1>4, <1>5 DEF Becomes, FilesOf, FilesLeft

LEMMA RewriteInlined ==
    ASSUME NEW v, NEW t, Ready(v, t), OnlyRewrites(t), NEW now, Becomes(v, t, now)
    PROVE  Pairs(LiveInlined(now)) = Pairs(LiveInlined(v))
<1>1. \A q \in v.inlined : DOMAIN q = InlinedFields
  BY DEF Ready, GoodView, GoodInlined
<1>2. now.inlined = KeptInlined(v, t)
  <2>1. \A a : NewInlined(t, a) = {}
    BY DEF NewInlined, NewRows, OnlyRewrites
  <2> QED BY <2>1 DEF Becomes, InlinedOf
<1>3. \A r \in LiveInlined(now) : \E q \in LiveInlined(v) : Pair(r) = Pair(q)
  BY <1>1, <1>2, KeptInlinedParts DEF LiveInlined, Pair
<1>4. ASSUME NEW q \in LiveInlined(v) PROVE \E r \in LiveInlined(now) : Pair(r) = Pair(q)
  <2> DEFINE e == q.live /\ q.rid \notin t.inlined_deletes
             r == [q EXCEPT !.live = e]
  <2>1. q \in v.inlined /\ q.live /\ q.rid \notin Rid(t.flush) /\ q.rid \notin t.inlined_deletes
    BY DEF LiveInlined, OnlyRewrites, Rid
  <2>2. r \in KeptInlined(v, t)
    BY <2>1 DEF KeptInlined
  <2>3. e
    BY <2>1
  <2> HIDE DEF e
  <2>4. r.rid = q.rid /\ r.val = q.val /\ r.live = e
    BY <1>1, <2>1 DEF InlinedFields
  <2> HIDE DEF r
  <2>5. r \in LiveInlined(now) /\ Pair(r) = Pair(q)
    BY <1>2, <2>2, <2>3, <2>4 DEF LiveInlined, Pair
  <2> QED BY <2>5
<1> QED BY <1>3, <1>4 DEF Pairs

LEMMA InlinedCount ==
    ASSUME NEW v, GoodView(v), SolidView(v)
    PROVE  NetInlinedRowCount(v) = Cardinality(Pairs(LiveInlined(v)))
<1> DEFINE live == LiveInlined(v)
           n == Start(v.stats)
<1>1. live \in SUBSET v.inlined
  BY DEF LiveInlined
<1>2. GoodRows(v.inlined, n) /\ IsFiniteSet(v.inlined)
  BY DEF GoodView, GoodInlined, SolidView
<1> HIDE DEF n
<1>3. GoodRows(live, n) /\ IsFiniteSet(live)
  BY <1>1, <1>2, FS_Subset DEF GoodRows
<1>4. Cardinality(Pairs(live)) = Cardinality(live)
  <2> HIDE DEF live
  <2> QED BY <1>3, PairsCount
<1> QED BY <1>4 DEF NetInlinedRowCount

\* A rewrite leaves out rows that were there.
LEMMA RewriteShrinks ==
    ASSUME NEW v, NEW t, Ready(v, t), OnlyRewrites(t), NEW now, Becomes(v, t, now)
    PROVE  Counted(now) \subseteq Counted(v) /\ \E q \in Counted(v) : q \notin Counted(now)
<1>1. now.data_file = FilesLeft(v, t) /\ Pairs(LiveInlined(now)) = Pairs(LiveInlined(v))
  BY RewriteFiles, RewriteInlined
<1>2. /\ \A f, g \in v.data_file : f # g => f.id # g.id /\ Disjoint(f.rows, g.rows)
      /\ \A f \in v.data_file : Disjoint(f.rows, v.inlined)
  BY DEF Ready, GoodView, GoodFiles, GoodInlined
<1>3. /\ \A f, g \in t.view.data_file : f # g => Disjoint(f.rows, g.rows)
      /\ \A f \in t.view.data_file : \A r, q \in f.rows : r.rid = q.rid => r = q
  BY DEF Ready, GoodView, GoodFiles, GoodRows
<1>4. \A f \in t.view.data_file : \E h \in v.data_file : h.id = f.id /\ f.rows = h.rows
  BY DEF Ready, FindsRows, OnlyRewrites
<1>5. \A f \in Rewritten(t, v.next_file_id) : \E g \in t.view.data_file : f.rows = LiveIn(g)
  <2> TAKE f \in Rewritten(t, v.next_file_id)
  <2>1. PICK g \in t.view.data_file : \E i : f = [id |-> i, rows |-> LiveIn(g), deleted |-> {},
                     inlined_deleted |-> {}, bounded |-> g.bounded]
    BY RewrittenFilesOf
  <2> QED BY <2>1
<1>6. Counted(now) \subseteq Counted(v)
  <2> SUFFICES ASSUME NEW f \in FilesLeft(v, t) PROVE Pairs(f.rows) \subseteq PairsOf(v.data_file)
    BY <1>1 DEF Counted, PairsOf
  <2>1. CASE f \in v.data_file
    BY <2>1 DEF PairsOf
  <2>2. CASE f \in Rewritten(t, v.next_file_id)
    <3>1. PICK g \in t.view.data_file : f.rows = LiveIn(g)
      BY <1>5, <2>2
    <3>2. PICK h \in v.data_file : g.rows = h.rows
      BY <1>4
    <3>3. f.rows \subseteq h.rows
      BY <3>1, <3>2 DEF LiveIn
    <3> QED BY <3>3 DEF Pairs, PairsOf
  <2> QED BY <2>1, <2>2 DEF FilesLeft
<1>7. PICK g \in t.view.data_file : g.id \in t.rewrites /\ g.deleted \cup g.inlined_deleted # {}
  BY DEF OnlyRewrites, Ready, SolidWork
<1>8. PICK r \in g.rows : r \notin LiveIn(g)
  <2>1. SolidFile(g)
    BY DEF Ready, SolidWork, SolidView
  <2>2. PICK i \in g.deleted \cup g.inlined_deleted : TRUE
    BY <1>7
  <2>3. i \in Rid(g.rows)
    BY <2>1, <2>2 DEF SolidFile
  <2> QED BY <2>2, <2>3 DEF Rid, LiveIn
<1>9. PICK h \in v.data_file : h.id = g.id /\ g.rows = h.rows
  BY <1>4
<1> DEFINE q == Pair(r)
<1>10. q \in Pairs(h.rows) /\ q \in Counted(v)
  BY <1>8, <1>9 DEF Pairs, Counted, PairsOf
<1>11. q \notin Pairs(LiveInlined(v))
  <2>1. Pairs(h.rows) \cap Pairs(v.inlined) = {}
    BY <1>2, PairsDisjoint
  <2>2. Pairs(LiveInlined(v)) \subseteq Pairs(v.inlined)
    BY DEF Pairs, LiveInlined
  <2> HIDE DEF q
  <2> QED BY <1>10, <2>1, <2>2
<1>12. ASSUME NEW f \in FilesLeft(v, t) PROVE q \notin Pairs(f.rows)
  <2>1. CASE f \in v.data_file /\ f.id \notin t.rewrites
    <3>1. Disjoint(f.rows, h.rows)
      BY <1>2, <1>7, <1>9, <2>1
    <3>2. Pairs(f.rows) \cap Pairs(h.rows) = {}
      BY <3>1, PairsDisjoint
    <3> HIDE DEF q
    <3> QED BY <1>10, <3>2
  <2>2. CASE f \in Rewritten(t, v.next_file_id)
    <3>1. PICK k \in t.view.data_file : f.rows = LiveIn(k)
      BY <1>5, <2>2
    <3>2. LiveIn(k) \subseteq k.rows
      BY DEF LiveIn
    <3>3. CASE k = g
      <4>1. \A x \in LiveIn(g) : x.rid # r.rid
        BY <1>3, <1>8, <3>2, <3>3
      <4> QED BY <3>1, <3>3, <4>1 DEF Pairs, Pair
    <3>4. CASE k # g
      <4>1. Pairs(k.rows) \cap Pairs(g.rows) = {}
        BY <1>3, <3>4, PairsDisjoint
      <4>2. Pairs(f.rows) \subseteq Pairs(k.rows)
        BY <3>1, <3>2 DEF Pairs
      <4>3. q \in Pairs(g.rows)
        BY <1>8 DEF Pairs
      <4> HIDE DEF q
      <4> QED BY <4>1, <4>2, <4>3
    <3> QED BY <3>3, <3>4
  <2> QED BY <1>12, <2>1, <2>2 DEF FilesLeft
<1> HIDE DEF q
<1>13. q \notin Counted(now)
  BY <1>1, <1>11, <1>12 DEF Counted, PairsOf
<1> QED BY <1>6, <1>10, <1>13


RecomputedColumn(x) == IF x = None THEN EmptyStats(TRUE) ELSE x

\* The statistics that RecomputeGlobalStatsAfterRewrite writes.
RecomputedFrom(old, rc, row, x) ==
    UpdateGlobalTableStats(old, TRUE, [record_count |-> rc, next_row_id |-> row, column |-> RecomputedColumn(x)])

LEMMA RecomputedParts ==
    ASSUME NEW old, NEW rc, NEW row, NEW x, NEW y, y = RecomputedColumn(x), y # None,
           NEW s, s = RecomputedFrom(old, rc, row, x)
    PROVE  /\ DOMAIN s = StatsFields /\ s.record_count = rc
           /\ old.column = None => s.column = None
           /\ old.column # None => s.column = ConvertNewGlobalStats(y)
<1> DEFINE new == [record_count |-> rc, next_row_id |-> row, column |-> y]
<1>1. DOMAIN new = StatsFields /\ new.record_count = rc /\ new.column = y
  BY DEF StatsFields
<1>2. s = UpdateGlobalTableStats(old, TRUE, new)
  BY DEF RecomputedFrom
<1> HIDE DEF new
<1> DEFINE column == IF old.column = None THEN None
                     ELSE IF new.column = None THEN old.column
                     ELSE ConvertNewGlobalStats(new.column)
<1>3. s = [new EXCEPT !.column = column]
  BY <1>2 DEF UpdateGlobalTableStats
<1>4. /\ old.column = None => column = None
      /\ old.column # None => column = ConvertNewGlobalStats(y)
  BY <1>1
<1> HIDE DEF column
<1> QED BY <1>1, <1>3, <1>4 DEF StatsFields

\* The statistics of the files and of the inlined rows of a snapshot.
FileStatsIn(v) == {StatsOf(f) : f \in v.data_file}
ViewStats(v) == FileStatsIn(v) \cup InlinedStats(v)

\* They show all rows that are counted.
LEMMA ViewStatsShow ==
    ASSUME NEW v, GoodView(v), SolidView(v), NEW P, P = ValuesIn(Counted(v))
    PROVE  /\ IsFiniteSet(ViewStats(v)) /\ \A b \in ViewStats(v) : Mergeable(b, P)
           /\ \A q \in Counted(v) : \E b \in ViewStats(v) : Shows(b, q[2])
<1>1. ASSUME NEW f \in v.data_file
      PROVE  Mergeable(StatsOf(f), P) /\ \A r \in f.rows : Shows(StatsOf(f), r.val)
  <2> DEFINE values == {r.val : r \in f.rows}
  <2>1. values \in SUBSET Values /\ f.bounded \in BOOLEAN
    BY DEF SolidView, SolidFile
  <2>2. values \ {Null} \subseteq P
    <3> SUFFICES ASSUME NEW r \in f.rows, r.val # Null PROVE r.val \in P
      OBVIOUS
    <3>1. Pair(r) \in Counted(v) /\ Pair(r)[2] = r.val
      BY DEF Counted, PairsOf, Pairs, Pair
    <3> QED BY <3>1 DEF ValuesIn
  <2>3. StatsOf(f) = FileStats(values, f.bounded)
    BY DEF StatsOf
  <2>4. \A r \in f.rows : r.val \in values
    OBVIOUS
  <2> HIDE DEF values
  <2>5. Mergeable(StatsOf(f), P) /\ \A y \in values : Shows(StatsOf(f), y)
    BY <2>1, <2>2, <2>3, FileStatsMergeable
  <2> QED BY <2>4, <2>5
<1>2. ASSUME NEW b \in InlinedStats(v)
      PROVE  Mergeable(b, P) /\ \A r \in LiveInlined(v) : Shows(b, r.val)
  <2> DEFINE values == {r.val : r \in LiveInlined(v)}
             bounded == TRUE
  <2>1. values \in SUBSET Values /\ bounded \in BOOLEAN
    BY DEF SolidView, LiveInlined
  <2>2. values \ {Null} \subseteq P
    <3> SUFFICES ASSUME NEW r \in LiveInlined(v), r.val # Null PROVE r.val \in P
      OBVIOUS
    <3>1. Pair(r) \in Counted(v) /\ Pair(r)[2] = r.val
      BY DEF Counted, Pairs, Pair
    <3> QED BY <3>1 DEF ValuesIn
  <2>3. b = FileStats(values, bounded)
    BY DEF InlinedStats
  <2>4. \A r \in LiveInlined(v) : r.val \in values
    OBVIOUS
  <2> HIDE DEF values, bounded
  <2>5. Mergeable(b, P) /\ \A y \in values : Shows(b, y)
    BY <2>1, <2>2, <2>3, FileStatsMergeable
  <2> QED BY <2>4, <2>5
<1>3. IsFiniteSet(FileStatsIn(v))
  <2> DEFINE h == [f \in v.data_file |-> StatsOf(f)]
  <2>1. IsFiniteSet(v.data_file)
    BY DEF GoodView, GoodFiles
  <2>2. \A y \in FileStatsIn(v) : \E f \in v.data_file : y = h[f]
    BY DEF FileStatsIn
  <2> HIDE DEF h
  <2> QED BY <2>1, <2>2, ImageIsFinite
<1>4. IsFiniteSet(InlinedStats(v))
  <2> DEFINE b == FileStats({r.val : r \in LiveInlined(v)}, TRUE)
  <2>1. InlinedStats(v) = {} \/ InlinedStats(v) = {b}
    BY DEF InlinedStats
  <2> HIDE DEF b
  <2>2. IsFiniteSet({})
    BY FS_EmptySet
  <2>3. IsFiniteSet({b})
    BY FS_Singleton
  <2> QED BY <2>1, <2>2, <2>3
<1>5. IsFiniteSet(ViewStats(v))
  BY <1>3, <1>4, FS_Union DEF ViewStats
<1>6. ASSUME NEW q \in Counted(v) PROVE \E b \in ViewStats(v) : Shows(b, q[2])
  <2>1. CASE q \in PairsOf(v.data_file)
    <3>0. PICK f \in v.data_file : q \in Pairs(f.rows)
      BY <2>1 DEF PairsOf
    <3>1. PICK r \in f.rows : q = Pair(r)
      BY <3>0 DEF Pairs
    <3>2. q[2] = r.val
      BY <3>1 DEF Pair
    <3>3. StatsOf(f) \in ViewStats(v)
      BY <3>1 DEF ViewStats, FileStatsIn
    <3> QED BY <1>1, <3>1, <3>2, <3>3
  <2>2. CASE q \in Pairs(LiveInlined(v))
    <3>1. PICK r \in LiveInlined(v) : q = Pair(r)
      BY <2>2 DEF Pairs
    <3>2. q[2] = r.val
      BY <3>1 DEF Pair
    <3>3. PICK b \in InlinedStats(v) : TRUE
      BY <3>1 DEF InlinedStats
    <3> QED BY <1>2, <3>1, <3>2, <3>3 DEF ViewStats
  <2> QED BY <2>1, <2>2 DEF Counted
<1> QED BY <1>1, <1>2, <1>5, <1>6 DEF ViewStats, FileStatsIn

LEMMA RewriteStats ==
    ASSUME NEW v, NEW t, Ready(v, t), OnlyRewrites(t), NEW now, Becomes(v, t, now)
    PROVE  ViewStats(now) = {StatsOf(f) : f \in FilesLeft(v, t)} \cup InlinedStats(v)
<1>1. now.data_file = FilesLeft(v, t) /\ Pairs(LiveInlined(now)) = Pairs(LiveInlined(v))
  BY RewriteFiles, RewriteInlined
<1> DEFINE a == {r.val : r \in LiveInlined(v)}
           b == {r.val : r \in LiveInlined(now)}
<1>2. a = {q[2] : q \in Pairs(LiveInlined(v))} /\ b = {q[2] : q \in Pairs(LiveInlined(now))}
  <2>1. \A r : Pair(r)[2] = r.val
    BY DEF Pair
  <2> QED BY <2>1 DEF Pairs
<1>3. a = b
  <2> HIDE DEF a, b
  <2> QED BY <1>1, <1>2
<1>4. LiveInlined(v) = {} <=> LiveInlined(now) = {}
  BY <1>1 DEF Pairs
<1>5. InlinedStats(v) = InlinedStats(now)
  BY <1>3, <1>4 DEF InlinedStats
<1> QED BY <1>1, <1>5 DEF ViewStats, FileStatsIn

\* The statistics that a rewrite computes anew fit the snapshot after it.
LEMMA RecomputedFits ==
    ASSUME NoneIsNoStats, NoneIsNoColumn, NEW v, NEW t, Ready(v, t), OnlyRewrites(t),
           NEW now, Becomes(v, t, now), GoodView(now), SolidView(now), NEW old, NEW row,
           NEW rc, rc = MapThenSumSet(RowCount, FilesLeft(v, t)) + NetInlinedRowCount(v),
           NEW x, x = MergeAll(None, {StatsOf(f) : f \in FilesLeft(v, t)} \cup InlinedStats(v)),
           NEW s, s = RecomputedFrom(old, rc, row, x)
    PROVE  /\ s # None /\ StatsTyped(s) /\ Counts(s, now) /\ Fits(s, now)
           /\ old.column = None => Lost(s)
<1> DEFINE C == Counted(now)
           L == LiveRows(now)
           P == ValuesIn(C)
           y == RecomputedColumn(x)
<1>1. rc \in Int /\ Cardinality(C) \in Nat /\ Cardinality(C) <= rc /\ Cardinality(L) <= Cardinality(C)
  <2>1. now.data_file = FilesLeft(v, t)
    BY RewriteFiles
  <2>2. NetInlinedRowCount(now) = NetInlinedRowCount(v)
    BY RewriteInlined, InlinedCount DEF Ready
  <2>3. rc = MapThenSumSet(RowCount, now.data_file) + NetInlinedRowCount(now)
    BY <2>1, <2>2
  <2>4. /\ MapThenSumSet(RowCount, now.data_file) \in Int /\ NetInlinedRowCount(now) \in Int
        /\ Cardinality(C) \in Nat /\ Cardinality(L) <= Cardinality(C)
        /\ Cardinality(C) <= MapThenSumSet(RowCount, now.data_file) + NetInlinedRowCount(now)
    BY ViewCounts
  <2> QED BY <2>3, <2>4
<1>2. IsFiniteSet(C) /\ L \in SUBSET C /\ \A q \in C : q[2] \in Values
  BY ViewPairs
<1>3. Cardinality(L) = rc => L = C
  <2> HIDE DEF C, L
  <2>1. Cardinality(L) \in Nat /\ (Cardinality(L) = Cardinality(C) => L = C)
    BY <1>2, FS_Subset, FS_CardinalityType
  <2> QED BY <1>1, <2>1
<1>4. MergedOk(x, None, ViewStats(now), P)
  <2>1. IsFiniteSet(ViewStats(now)) /\ \A b \in ViewStats(now) : Mergeable(b, P)
    BY ViewStatsShow
  <2>2. \A b \in ViewStats(now) : b \in Columns /\ Clean(b) /\ BoundsIn(b, P)
    BY <2>1 DEF Mergeable
  <2>3. x = MergeAll(None, ViewStats(now))
    BY RewriteStats
  <2> DEFINE a == None
  <2>4. a \in Columns \cup {None} /\ (a # None => Clean(a) /\ BoundsIn(a, P)) /\ x = MergeAll(a, ViewStats(now))
    BY <2>3
  <2>5. a = None
    OBVIOUS
  <2> HIDE DEF a, P
  <2>6. MergedOk(x, a, ViewStats(now), P)
    BY <2>1, <2>2, <2>4, MergeAllHolds
  <2> QED BY <2>5, <2>6
<1>5. \A q \in C : \E b \in ViewStats(now) : Shows(b, q[2])
  BY ViewStatsShow
<1>6. y \in Columns /\ BoundsIn(y, P) /\ \A q \in C : Admits(y, q[2])
  <2>1. CASE x = None
    <3>1. y = EmptyStats(TRUE)
      BY <2>1 DEF RecomputedColumn
    <3> DEFINE b == TRUE
    <3>2. b \in BOOLEAN /\ y = EmptyStats(b)
      BY <3>1
    <3> HIDE DEF b, y, P
    <3>3. y \in Columns /\ BoundsIn(y, P)
      BY <3>2, EmptyColumn
    <3>4. C = {}
      BY <1>4, <1>5, <2>1 DEF MergedOk
    <3> QED BY <3>3, <3>4
  <2>2. CASE x # None
    <3>1. y = x
      BY <2>2 DEF RecomputedColumn
    <3> HIDE DEF y, C, P
    <3>2. x \in Columns /\ BoundsIn(x, P) /\ \A z \in Values : (\E b \in ViewStats(now) : Shows(b, z)) => Holds(x, z)
      BY <1>4, <2>2 DEF MergedOk
    <3> QED BY <1>2, <1>5, <3>1, <3>2 DEF Holds
  <2> QED BY <2>1, <2>2
<1>7. y # None
  <2> HIDE DEF y
  <2> QED BY <1>6, NoneNotColumn
<1>8. y = RecomputedColumn(x)
  OBVIOUS
<1> HIDE DEF y
<1>9. /\ DOMAIN s = StatsFields /\ s.record_count = rc
      /\ old.column = None => s.column = None
      /\ old.column # None => s.column = ConvertNewGlobalStats(y)
  BY <1>7, <1>8, RecomputedParts
<1>10. s # None /\ Counts(s, now)
  BY <1>1, <1>9 DEF NoneIsNoStats, Counts
<1>11. CASE old.column = None
  BY <1>1, <1>9, <1>10, <1>11 DEF StatsTyped, Lost, Fits
<1>12. CASE old.column # None
  <2>1. s.record_count = Cardinality(LiveRows(now)) => BoundsIn(y, ValuesIn(LiveRows(now)))
    BY <1>3, <1>6, <1>9
  <2>2. s.record_count \in Int /\ s.record_count >= Cardinality(Counted(now))
    BY <1>1, <1>9
  <2>3. s.column = ConvertNewGlobalStats(y)
    BY <1>9, <1>12
  <2>4. StatsTyped(s) /\ Fits(s, now)
    BY <1>6, <2>1, <2>2, <2>3, ColumnWritten
  <2> QED BY <1>10, <1>12, <2>4
<1> QED BY <1>11, <1>12

\* Statistics of before a rewrite count more rows than there are after it.
LEMMA OldStatsFit ==
    ASSUME NEW v, NEW t, Ready(v, t), OnlyRewrites(t), NEW now, Becomes(v, t, now),
           GoodView(now), SolidView(now), NEW s, StatsTyped(s), Counts(s, v), Fits(s, v)
    PROVE  Counts(s, now) /\ Fits(s, now)
<1> DEFINE C == Counted(v)
           D == Counted(now)
           L == LiveRows(now)
<1>1. D \in SUBSET C /\ D # C
  BY RewriteShrinks
<1>2. /\ IsFiniteSet(C) /\ Cardinality(C) \in Nat
      /\ Cardinality(D) \in Nat /\ Cardinality(L) \in Nat /\ Cardinality(L) <= Cardinality(D)
  BY ViewPairs, ViewCounts DEF Ready
<1>3. Cardinality(D) < Cardinality(C)
  <2> HIDE DEF C, D, L
  <2>1. Cardinality(D) <= Cardinality(C) /\ (Cardinality(D) = Cardinality(C) => D = C)
    BY <1>1, <1>2, FS_Subset
  <2> QED BY <1>1, <1>2, <2>1
<1>4. s # None => /\ s.record_count \in Nat /\ s.record_count >= Cardinality(D)
                  /\ s.record_count # Cardinality(L)
  <2>1. s # None => s.record_count \in Nat /\ s.record_count >= Cardinality(C)
    BY DEF Counts
  <2> HIDE DEF C, D, L
  <2> QED BY <1>2, <1>3, <2>1
<1>5. \A q \in D : q \in C
  BY <1>1
<1>6. s # None /\ ~Lost(s) => \A q \in D : Admits(s.column, q[2])
  BY <1>5 DEF Fits, ColumnFits
<1> QED BY <1>4, <1>6 DEF Counts, Fits, ColumnFits

----------------------------------------------------------------------------
(* The statistics that commits leave.                                      *)

\* Statistics that fit the metadata, and the client that commits t to them as now.
Commits(c, t, now) == Committing(c, t) /\ Ready(db, t) /\ now = CommitTo(c, t)

\* A commit finds what its transaction is about.
LEMMA CommitIsReady ==
    ASSUME NoneIsNoStats, RowIdInv, SolidInv, NEW c \in Clients, Commit(c), NEW t, t = txn[c],
           NEW now, now = CommitTo(c, t)
    PROVE  Commits(c, t, now) /\ db' = now
<1>1. t.open /\ ~MixesCompaction(Changes(t)) /\ ~Conflicts(t) /\ db' = now
  BY DEF Commit
<1>2. Committing(c, t)
  BY <1>1 DEF RowIdInv, TxnInv, Committing
<1>3. FindsRows(db, t)
  BY <1>2, CommitFindsRows DEF Committing
<1>4. SolidView(db) /\ SolidWork(t) /\ Tracks(t, db)
  BY <1>1 DEF SolidInv
<1>5. GoodView(db)
  BY DEF RowIdInv
<1> QED BY <1>1, <1>2, <1>3, <1>4, <1>5 DEF Commits, Ready, Committing

\* A commit that takes no file id adds no row and moves none.
LEMMA IdsTaken ==
    ASSUME NEW v, NEW t, Ready(v, t), NEW taken, taken = FileIdsTaken(t)
    PROVE  /\ taken \in Nat /\ IdsOfMovedRows(t) \in Nat
           /\ taken = 0 => /\ t.new_files = <<>> /\ t.new_inlined = <<>> /\ t.flush = {}
                           /\ t.rewrites = {} /\ NewStats(t) = {}
<1>1. /\ IsFiniteSet(t.view.data_file) /\ IsFiniteSet(t.delete_files) /\ GoodWork(t)
      /\ \A f \in t.view.data_file : f.id \in Nat
      /\ \A f, g \in t.view.data_file : f # g => f.id # g.id
  BY DEF Ready, GoodWork, GoodView, GoodFiles
<1>2. /\ IdsOfMovedRows(t) \in Nat /\ taken \in Nat
      /\ taken >= IdsOfMovedRows(t) + Len(t.new_files)
      /\ taken = 0 => t.new_files = <<>> /\ t.new_inlined = <<>>
      /\ IdsOfMovedRows(t) >= Cardinality(RewrittenFiles(t))
      /\ t.flush # {} => IdsOfMovedRows(t) >= 1
  BY <1>1, MovedIds
<1>3. ASSUME taken = 0 PROVE IdsOfMovedRows(t) = 0 /\ t.new_files = <<>> /\ t.new_inlined = <<>> /\ t.flush = {}
  <2>1. t.new_files = <<>> /\ t.new_inlined = <<>>
    BY <1>2, <1>3
  <2>2. Len(t.new_files) = 0
    BY <2>1
  <2>3. IdsOfMovedRows(t) = 0
    BY <1>2, <1>3, <2>2
  <2> QED BY <1>2, <2>1, <2>3
<1>4. ASSUME taken = 0 PROVE t.rewrites = {}
  <2>1. IsFiniteSet(RewrittenFiles(t)) /\ Cardinality(RewrittenFiles(t)) \in Nat
    BY <1>1, RanksDiffer
  <2>2. Cardinality(RewrittenFiles(t)) = 0
    BY <1>2, <1>3, <1>4, <2>1
  <2>3. RewrittenFiles(t) = {}
    BY <2>1, <2>2, FS_EmptySet
  <2>4. \A i \in t.rewrites : \E f \in t.view.data_file : f.id = i /\ LiveIn(f) # {}
    BY DEF Ready, SolidWork
  <2> QED BY <2>3, <2>4 DEF RewrittenFiles, FilesById
<1>5. ASSUME taken = 0 PROVE NewStats(t) = {}
  <2>1. DOMAIN t.new_files = {}
    BY <1>3, <1>5
  <2>2. StatsOfNewFiles(t) = {}
    BY <2>1 DEF StatsOfNewFiles
  <2>3. StatsOfFlush(t) = {} /\ StatsOfInlined(t) = {}
    BY <1>3, <1>5 DEF StatsOfFlush, StatsOfInlined
  <2> QED BY <2>2, <2>3 DEF NewStats
<1> QED BY <1>2, <1>3, <1>4, <1>5

\* The snapshot that a commit makes.
LEMMA CommitBecomes ==
    ASSUME NoneIsNoStats, RowIdInv, NEW c \in Clients, NEW t, NEW now, Commits(c, t, now),
           NEW k, k = NewFileRows(t) + Len(t.new_inlined)
    PROVE  /\ Becomes(db, t, now) /\ GoodView(now) /\ SolidView(now)
           /\ now.next_file_id = db.next_file_id + FileIdsTaken(t)
           /\ k \in Nat /\ Start(now.stats) = Start(db.stats) + k
<1> DEFINE n == Start(db.stats)
<1>1. Committing(c, t) /\ Ready(db, t) /\ now = CommitTo(c, t)
  BY DEF Commits
<1>2. now.data_file = FilesOf(db, t, n) /\ now.inlined = InlinedOf(db, t, n)
  BY <1>1, CommittedParts
<1>3. now.next_file_id = db.next_file_id + FileIdsTaken(t)
  BY <1>1, CommittedParts
<1>4. GoodView(now)
  BY <1>1, CommitKeepsView
<1>5. n \in Nat /\ db.next_file_id \in Nat /\ GoodInlined(db.inlined, db.data_file, n)
  BY DEF RowIdInv, GoodView, StatsOk, Start
<1>6. SolidView(now)
  <2>1. IdsOfMovedRows(t) \in Nat
    BY <1>1, IdsTaken
  <2>2. SolidView(db) /\ GoodWork(t) /\ SolidWork(t) /\ FindsRows(db, t)
    BY <1>1 DEF Ready
  <2> HIDE DEF n
  <2> QED BY <1>2, <1>5, <2>1, <2>2, CommitIsSolid
<1>7. k \in Nat
  BY <1>1, NewRowCount DEF Committing
<1>8. Start(now.stats) = Start(db.stats) + k
  BY <1>1, CommitMovesStart
<1>9. Becomes(db, t, now)
  BY <1>2 DEF Becomes
<1> QED BY <1>3, <1>4, <1>6, <1>7, <1>8, <1>9

\* The statistics of a commit that rewrites no file.
LEMMA StatsOfChanges ==
    ASSUME NEW c, NEW t, NEW current, current = CurrentStats(c, t), NEW s, s = StatsAfterChanges(c, t),
           ChangesStats(t)
    PROVE  /\ current # None => s = WrittenStats(db.stats, t, current)
           /\ current = None /\ db.stats = None /\ t.dropped_files = {} => s = FirstStats(t)
<1> DEFINE stats == IF current = None THEN NoRows ELSE current
           new == UpdateGlobalTableStats(db.stats, current # None,
                                         MergeNewData(t, ApplyDroppedFileStats(t, stats)))
<1>1. s = IF LiveRowsRemain(t, stats) THEN [new EXCEPT !.column = None] ELSE new
  BY DEF StatsAfterChanges
<1>2. CASE current # None
  <2>1. (current # None) = TRUE /\ stats = current
    BY <1>2
  <2>2. new = UpdateGlobalTableStats(db.stats, TRUE, MergeNewData(t, ApplyDroppedFileStats(t, current)))
    BY <2>1
  <2> HIDE DEF stats, new
  <2> QED BY <1>1, <1>2, <2>1, <2>2 DEF WrittenStats
<1>3. CASE current = None /\ db.stats = None /\ t.dropped_files = {}
  <2>1. (current # None) = FALSE /\ stats = NoRows
    BY <1>3
  <2>2. ApplyDroppedFileStats(t, stats) = NoRows
    BY <1>3, <2>1 DEF ApplyDroppedFileStats
  <2>3. new = UpdateGlobalTableStats(None, FALSE, MergeNewData(t, NoRows))
    BY <1>3, <2>1, <2>2
  <2>4. ~LiveRowsRemain(t, stats)
    BY <1>3 DEF LiveRowsRemain
  <2> HIDE DEF stats, new
  <2> QED BY <1>1, <1>3, <2>3, <2>4 DEF FirstStats
<1> QED BY <1>2, <1>3

\* The statistics of a commit that rewrites files.
LEMMA StatsOfRewrite ==
    ASSUME NEW c, NEW t, NEW s, s = RecomputeGlobalStats(c, t)
    PROVE  \/ s = db.stats
           \/ \E row : s = RecomputedFrom(db.stats,
                              MapThenSumSet(RowCount, FilesLeft(db, t)) + NetInlinedRowCount(db), row,
                              MergeAll(None, {StatsOf(f) : f \in FilesLeft(db, t)} \cup InlinedStats(db)))
<1> DEFINE gross == MapThenSumSet(RowCount, FilesLeft(db, t))
           current == GetTableStats(c, db)
           x == MergeAll(None, {StatsOf(f) : f \in FilesLeft(db, t)} \cup InlinedStats(db))
<1>1. s = IF current = None \/ gross # NetDataFileRowCount(db) THEN db.stats
          ELSE UpdateGlobalTableStats(db.stats, TRUE,
                 [record_count |-> gross + NetInlinedRowCount(db),
                  next_row_id |-> RowIdAfterRewrite(current, gross + NetInlinedRowCount(db)),
                  column |-> IF x = None THEN EmptyStats(TRUE) ELSE x])
  BY DEF RecomputeGlobalStats, SnapshotOfAttempt, FilesLeft
<1> HIDE DEF gross, current, x
<1>2. s = db.stats \/ s = RecomputedFrom(db.stats, gross + NetInlinedRowCount(db),
                            RowIdAfterRewrite(current, gross + NetInlinedRowCount(db)), x)
  BY <1>1 DEF RecomputedFrom, RecomputedColumn
<1> QED BY <1>2 DEF gross, x

LEMMA NewDataHasStats ==
    ASSUME NEW t, t.new_files # <<>> \/ t.new_inlined # <<>> \/ t.flush # {}, GoodWork(t)
    PROVE  NewStats(t) # {}
<1>1. CASE t.new_files # <<>>
  <2>1. 1 \in DOMAIN t.new_files
    BY <1>1 DEF GoodWork
  <2> QED BY <2>1 DEF NewStats, StatsOfNewFiles
<1>2. CASE t.new_inlined # <<>>
  BY <1>2 DEF NewStats, StatsOfInlined
<1>3. CASE t.flush # {}
  BY <1>3 DEF NewStats, StatsOfFlush
<1> QED BY <1>1, <1>2, <1>3

\* What is known of the statistics that a commit stores.
StoredFit(old, s, now, t) ==
    /\ StatsTyped(s) /\ Counts(s, now) /\ Fits(s, now) /\ (Lost(old) => Lost(s))
    /\ FileIdsTaken(t) = 0 => s = old \/ SaysNothing(s)

\* A rewrite stores statistics that fit, computed or kept.
LEMMA RewriteStored ==
    ASSUME NoneIsNoStats, NoneIsNoColumn, RowIdInv, KnownInv, NEW c \in Clients, NEW t, NEW now,
           Commits(c, t, now), t.rewrites # {}
    PROVE  StoredFit(db.stats, now.stats, now, t)
<1> DEFINE s == now.stats
           old == db.stats
<1>1. Committing(c, t) /\ Ready(db, t) /\ now = CommitTo(c, t)
  BY DEF Commits
<1>2. Becomes(db, t, now) /\ GoodView(now) /\ SolidView(now)
  BY CommitBecomes
<1>3. OnlyRewrites(t)
  BY <1>1, NoMixing DEF Committing, OnlyRewrites
<1>4. KnownFits(db.next_file_id, db.stats)
  BY DEF KnownInv, Known
<1>5. StatsTyped(old) /\ Counts(old, db) /\ Fits(old, db)
  BY <1>4 DEF KnownFits
<1>6. s = RecomputeGlobalStats(c, t)
  BY <1>1 DEF CommitTo
<1>7. FileIdsTaken(t) # 0
  BY <1>1, IdsTaken
<1>8. CASE s = db.stats
  <2>1. Counts(old, now) /\ Fits(old, now)
    BY <1>1, <1>2, <1>3, <1>5, OldStatsFit
  <2> QED BY <1>5, <1>7, <1>8, <2>1 DEF StoredFit
<1>9. CASE \E row : s = RecomputedFrom(db.stats,
                              MapThenSumSet(RowCount, FilesLeft(db, t)) + NetInlinedRowCount(db), row,
                              MergeAll(None, {StatsOf(f) : f \in FilesLeft(db, t)} \cup InlinedStats(db)))
  <2>1. /\ s # None /\ StatsTyped(s) /\ Counts(s, now) /\ Fits(s, now)
        /\ old.column = None => Lost(s)
    BY <1>1, <1>2, <1>3, <1>9, RecomputedFits
  <2> QED BY <1>7, <2>1 DEF StoredFit, Lost
<1> QED BY <1>6, <1>8, <1>9, StatsOfRewrite

\* A commit that adds no row leaves statistics that fit as they are.
LEMMA SmallerStored ==
    ASSUME NoneIsNoStats, RowIdInv, KnownInv, NEW c \in Clients, NEW t, NEW now,
           Commits(c, t, now), t.rewrites = {}, t.flush = {}, t.new_files = <<>>, t.new_inlined = <<>>,
           NEW s, StatsTyped(s), Fits(s, db)
    PROVE  Fits(s, now) /\ (Counts(s, db) => Counts(s, now))
<1>1. Ready(db, t)
  BY DEF Commits
<1> DEFINE k == NewFileRows(t) + Len(t.new_inlined)
<1>2. k = 0
  BY <1>1, NewRowCount DEF Ready
<1>3. Becomes(db, t, now) /\ GoodView(now) /\ SolidView(now) /\ Start(now.stats) = Start(db.stats) + k
  BY CommitBecomes
<1>4. Start(db.stats) \in Nat
  BY DEF RowIdInv, GoodView, StatsOk, Start
<1>5. Start(now.stats) = Start(db.stats)
  BY <1>2, <1>3, <1>4
<1>6. Counted(now) \subseteq Counted(db) /\ LiveRows(now) \subseteq LiveRows(db)
  BY <1>1, <1>3, <1>5, CommitShrinks
<1>7. IsFiniteSet(Counted(db)) /\ LiveRows(db) \subseteq Counted(db)
  BY <1>1, ViewPairs DEF Ready
<1> QED BY <1>6, <1>7, FitsShrinks

\* The first statistics of a table fit.
LEMMA FirstStored ==
    ASSUME NoneIsNoStats, NoneIsNoColumn, RowIdInv, NEW c \in Clients, NEW t, NEW now,
           Commits(c, t, now), t.rewrites = {}, ChangesStats(t), CurrentStats(c, t) = None
    PROVE  StoredFit(db.stats, now.stats, now, t)
<1> DEFINE s == now.stats
           k == NewFileRows(t) + Len(t.new_inlined)
<1>1. Committing(c, t) /\ Ready(db, t) /\ now = CommitTo(c, t)
  BY DEF Commits
<1>2. /\ Becomes(db, t, now) /\ GoodView(now) /\ SolidView(now)
      /\ k \in Nat /\ Start(now.stats) = Start(db.stats) + k
  BY CommitBecomes
<1>3. Adds(db, t, now, k)
  BY <1>1, <1>2 DEF Adds
<1>4. db.stats = None
  BY CurrentStart DEF SameStart
<1>5. db.data_file = {} /\ db.inlined = {}
  BY <1>4 DEF RowIdInv, GoodView
<1>6. t.view.data_file = {} /\ t.view.inlined = {}
  BY <1>1, <1>4 DEF Committing, Follows, GoodView
<1>7. t.dropped_files = {} /\ t.flush = {}
  BY <1>1, <1>6 DEF Committing, GoodWork
<1>8. t.new_files # <<>> \/ t.new_inlined # <<>>
  BY <1>7 DEF ChangesStats
<1>9. NewStats(t) # {}
  BY <1>1, <1>8, NewDataHasStats DEF Committing
<1>10. s = StatsAfterChanges(c, t)
  BY <1>1 DEF CommitTo
<1>11. s = FirstStats(t)
  BY <1>4, <1>7, <1>10, StatsOfChanges
<1>12. k = NewFileRows(t) + Len(t.new_inlined)
  OBVIOUS
<1> HIDE DEF k
<1>13. StatsTyped(s) /\ Counts(s, now) /\ Fits(s, now)
  BY <1>3, <1>5, <1>7, <1>9, <1>11, <1>12, FirstFits
<1>14. FileIdsTaken(t) # 0
  BY <1>1, <1>8, IdsTaken
<1> QED BY <1>4, <1>13, <1>14 DEF StoredFit, Lost

\* So do those that are merged into statistics that some process had cached.
LEMMA ChangesStored ==
    ASSUME NoneIsNoStats, NoneIsNoColumn, ~UncountedRows, RowIdInv, KnownInv, NEW c \in Clients, NEW t, NEW now,
           Commits(c, t, now), t.rewrites = {}, ChangesStats(t), CurrentStats(c, t) # None,
           CountsRows(c, t), DroppedRowsCounted(c, t)
    PROVE  StoredFit(db.stats, now.stats, now, t)
<1> DEFINE s == now.stats
           k == NewFileRows(t) + Len(t.new_inlined)
           current == CurrentStats(c, t)
<1>1. Committing(c, t) /\ Ready(db, t) /\ now = CommitTo(c, t)
  BY DEF Commits
<1>2. /\ Becomes(db, t, now) /\ GoodView(now) /\ SolidView(now)
      /\ k \in Nat /\ Start(now.stats) = Start(db.stats) + k
  BY CommitBecomes
<1>3. Adds(db, t, now, k)
  BY <1>1, <1>2 DEF Adds
<1>4. PICK u : current = LoadStats(u) /\ Known(db.next_file_id, u)
  BY CurrentIsKnown
<1>5. u # None
  BY <1>4 DEF LoadStats
<1>6. StatsOk(u) /\ SameStart(u, db.stats)
  BY <1>4, KnownStart
<1>7. current.record_count = u.record_count
  BY <1>4, <1>5, <1>6, LoadedParts
<1>8. KnownFits(db.next_file_id, u)
  BY <1>4 DEF KnownInv
<1>9. StartsFrom(db, t, u)
  <2>1. t.flush # {} => AllRows(db) <= u.record_count
    BY <1>7 DEF CountsRows
  <2>2. t.dropped_files # {} => DroppedRowCount(t) <= u.record_count
    BY <1>7 DEF DroppedRowsCounted
  <2>3. db.stats # None
    BY <1>5, <1>6 DEF SameStart
  <2>4. StatsTyped(u) /\ Counts(u, db) /\ Fits(u, db) /\ (Lost(u) => Lost(db.stats))
    BY <1>8 DEF KnownFits
  <2> QED BY <1>5, <1>6, <2>1, <2>2, <2>3, <2>4 DEF StartsFrom
<1>10. s = WrittenStats(db.stats, t, LoadStats(u))
  <2>1. s = StatsAfterChanges(c, t)
    BY <1>1 DEF CommitTo
  <2>2. s = WrittenStats(db.stats, t, current)
    BY <2>1, StatsOfChanges
  <2> QED BY <1>4, <2>2
<1>11. k = NewFileRows(t) + Len(t.new_inlined)
  OBVIOUS
<1> HIDE DEF k
<1>12. /\ StatsTyped(s) /\ Counts(s, now) /\ Fits(s, now) /\ (Lost(db.stats) => Lost(s))
       /\ t.dropped_files # {} /\ NewStats(t) = {} => SaysNothing(s)
  BY <1>3, <1>9, <1>10, <1>11, ChangedFits
<1>13. FileIdsTaken(t) = 0 => t.dropped_files # {} /\ NewStats(t) = {}
  BY <1>1, IdsTaken DEF ChangesStats
<1> QED BY <1>12, <1>13 DEF StoredFit

\* The statistics that any commit stores fit the new snapshot.  If it takes no file id,
\* they are those of before or say nothing: they may be found under the same
\* next_file_id by a reader of an older snapshot.
LEMMA CommitStored ==
    ASSUME NoneIsNoStats, NoneIsNoColumn, ~UncountedRows, RowIdInv, KnownInv, NEW c \in Clients, NEW t, NEW now,
           Commits(c, t, now), CountsRows(c, t), DroppedRowsCounted(c, t)
    PROVE  StoredFit(db.stats, now.stats, now, t)
<1>1. CASE t.rewrites # {}
  BY <1>1, RewriteStored
<1>2. CASE t.rewrites = {} /\ ~ChangesStats(t)
  <2>1. now.stats = db.stats
    BY <1>2 DEF Commits, CommitTo, StatsAfterChanges
  <2>2. KnownFits(db.next_file_id, db.stats)
    BY DEF KnownInv, Known
  <2>3. StatsTyped(db.stats) /\ Counts(db.stats, db) /\ Fits(db.stats, db)
    BY <2>2 DEF KnownFits
  <2>4. Counts(db.stats, now) /\ Fits(db.stats, now)
    BY <1>2, <2>3, SmallerStored DEF ChangesStats
  <2> QED BY <2>1, <2>3, <2>4 DEF StoredFit
<1>3. CASE t.rewrites = {} /\ ChangesStats(t)
  BY <1>3, FirstStored, ChangesStored
<1> QED BY <1>1, <1>2, <1>3


\* The other transactions keep their snapshots.
LEMMA OthersAfterCommit ==
    ASSUME RowIdInv, NEW c \in Clients, Commit(c), NEW t, t = txn[c], NEW d \in Clients, txn'[d].open
    PROVE  d # c /\ txn[d].open /\ txn'[d] = [txn[d] EXCEPT !.others = @ \cup {Published(t)}]
           /\ txn'[d].view = txn[d].view
<1>1. txn'[d] = IF d = c THEN NoTransaction
                ELSE IF txn[d].open THEN [txn[d] EXCEPT !.others = @ \cup {Published(t)}]
                ELSE txn[d]
  BY DEF Commit
<1>2. d # c
  BY <1>1, NothingOpen
<1>3. txn[d].open
  BY <1>1, <1>2
<1>4. txn'[d] = [txn[d] EXCEPT !.others = @ \cup {Published(t)}]
  BY <1>1, <1>2, <1>3
<1>5. DOMAIN txn[d] = TxnFields
  BY DEF RowIdInv, TxnInv, GoodWork
<1>6. txn'[d].view = txn[d].view
  BY <1>4, <1>5 DEF TxnFields, NoTransaction
<1> QED BY <1>2, <1>3, <1>4, <1>6

\* The statistics that are known after a commit were known, or are those it stored.
LEMMA KnownAfterCommit ==
    ASSUME RowIdInv, NEW c \in Clients, Commit(c), NEW now, db' = now,
           NEW n, NEW s, Known(n, s)'
    PROVE  Known(n, s) \/ (n = now.next_file_id /\ s = now.stats)
<1>1. CASE \E p \in Range(ProcessOf) : n \in DOMAIN cache'[p] /\ s = cache'[p][n]
  <2>1. \A p \in Range(ProcessOf) : \A m \in DOMAIN cache'[p] : Known(m, cache'[p][m])
    BY CommitCaches, CacheStepIsKnown
  <2> QED BY <1>1, <2>1
<1>2. CASE n = now.next_file_id /\ s = now.stats
  BY <1>2
<1>3. CASE \E d \in Clients : txn'[d].open /\ n = txn'[d].view.next_file_id /\ s = txn'[d].view.stats
  <2>1. PICK d \in Clients : txn'[d].open /\ n = txn'[d].view.next_file_id /\ s = txn'[d].view.stats
    BY <1>3
  <2>2. txn[d].open /\ txn'[d].view = txn[d].view
    BY <2>1, OthersAfterCommit
  <2> QED BY <2>1, <2>2 DEF Known
<1> QED BY <1>1, <1>2, <1>3 DEF Known

\* A commit keeps what is known of the statistics, cached ones too.
LEMMA CommitKeepsKnown ==
    ASSUME NoneIsNoStats, NoneIsNoColumn, ~UncountedRows, StatsInv, NEW c \in Clients, Commit(c)
    PROVE  KnownInv'
<1> PICK t : t = txn[c]
  OBVIOUS
<1> PICK now : now = CommitTo(c, t)
  OBVIOUS
<1>1. RowIdInv /\ SolidInv /\ KnownInv
  BY DEF StatsInv
<1>2. Commits(c, t, now) /\ db' = now
  BY <1>1, CommitIsReady
<1>3. CountsRows(c, t) /\ DroppedRowsCounted(c, t)
  BY DEF Commit
<1>4. StoredFit(db.stats, now.stats, now, t)
  BY <1>1, <1>2, <1>3, CommitStored
<1> DEFINE id == db.next_file_id
           taken == FileIdsTaken(t)
<1>5. /\ now.next_file_id = id + taken /\ id \in Nat /\ taken \in Nat
      /\ taken = 0 => /\ t.new_files = <<>> /\ t.new_inlined = <<>> /\ t.flush = {}
                      /\ t.rewrites = {} /\ NewStats(t) = {}
  <2>1. Ready(db, t)
    BY <1>2 DEF Commits
  <2> QED BY <1>1, <1>2, <2>1, CommitBecomes, IdsTaken DEF RowIdInv, GoodView
<1> SUFFICES ASSUME NEW n, NEW s, Known(n, s)'
             PROVE  /\ StatsTyped(s)
                    /\ Lost(s) => Lost(now.stats)
                    /\ n = now.next_file_id => Counts(s, now) /\ Fits(s, now)
                    /\ \A d \in Clients : txn'[d].open /\ txn'[d].view.next_file_id = n => Fits(s, txn'[d].view)
  BY <1>2 DEF KnownInv, KnownFits
<1>6. ASSUME NEW d \in Clients, txn'[d].open
      PROVE  /\ txn[d].open /\ txn'[d].view = txn[d].view
             /\ txn[d].view.next_file_id \in Nat /\ txn[d].view.next_file_id <= id
  <2>1. txn[d].open /\ txn'[d].view = txn[d].view
    BY <1>1, <1>6, OthersAfterCommit
  <2> QED BY <1>1, <2>1 DEF RowIdInv, TxnInv, GoodView, Follows
<1>7. KnownFits(id, db.stats)
  BY <1>1 DEF KnownInv, Known
<1>8. CASE Known(n, s)
  <2>1. KnownFits(n, s)
    BY <1>1, <1>8 DEF KnownInv
  <2>2. n \in Nat /\ n <= id
    BY <1>1, <1>8, KnownStart
  <2>3. StatsTyped(s) /\ (Lost(s) => Lost(now.stats))
    BY <1>4, <2>1 DEF KnownFits, StoredFit
  <2>4. ASSUME n = now.next_file_id PROVE Counts(s, now) /\ Fits(s, now)
    <3> HIDE DEF id, taken
    <3>1. taken = 0 /\ n = id
      BY <1>5, <2>2, <2>4
    <3>2. Counts(s, db) /\ Fits(s, db)
      BY <2>1, <3>1 DEF KnownFits, id
    <3> QED BY <1>1, <1>2, <1>5, <2>3, <3>1, <3>2, SmallerStored
  <2>5. ASSUME NEW d \in Clients, txn'[d].open /\ txn'[d].view.next_file_id = n PROVE Fits(s, txn'[d].view)
    <3>1. txn[d].open /\ txn'[d].view = txn[d].view
      BY <1>6, <2>5
    <3>2. Fits(s, txn[d].view)
      BY <2>1, <2>5, <3>1 DEF KnownFits
    <3> QED BY <3>1, <3>2
  <2> QED BY <2>3, <2>4, <2>5
<1>9. CASE n = now.next_file_id /\ s = now.stats
  <2>1. StatsTyped(s) /\ Counts(s, now) /\ Fits(s, now)
    BY <1>4, <1>9 DEF StoredFit
  <2>2. ASSUME NEW d \in Clients, txn'[d].open /\ txn'[d].view.next_file_id = n PROVE Fits(s, txn'[d].view)
    <3> PICK v : v = txn[d].view
      OBVIOUS
    <3>1. txn[d].open /\ txn'[d].view = v /\ v.next_file_id \in Nat /\ v.next_file_id <= id /\ v.next_file_id = n
      BY <1>6, <2>2
    <3>2. taken = 0 /\ v.next_file_id = id
      <4> HIDE DEF id, taken
      <4> QED BY <1>5, <1>9, <3>1
    <3>3. s = db.stats \/ SaysNothing(s)
      BY <1>4, <1>9, <3>2 DEF StoredFit
    <3>4. CASE s = db.stats
      <4>1. Fits(s, v)
        BY <1>7, <3>1, <3>2, <3>4 DEF KnownFits
      <4> QED BY <3>1, <4>1
    <3>5. CASE SaysNothing(s)
      <4>1. Fits(s, v)
        BY <3>5, NothingFitsAll
      <4> QED BY <3>1, <4>1
    <3> QED BY <3>3, <3>4, <3>5
  <2> QED BY <1>9, <2>1, <2>2
<1> QED BY <1>1, <1>2, <1>8, <1>9, KnownAfterCommit


\* A file that is neither dropped nor rewritten stays.
LEMMA FileKept ==
    ASSUME NEW v, NEW t, NEW n, NEW g \in v.data_file, DOMAIN g = FileFields,
           g.id \notin t.dropped_files, g.id \notin t.rewrites
    PROVE  HasId(FilesOf(v, t, n), g.id)
<1> DEFINE f == WithDeletes(g, t)
<1>1. f \in KeptFiles(v, t)
  BY DEF KeptFiles
<1>2. f.id = g.id
  BY DEF WithDeletes, FileFields
<1> HIDE DEF f
<1>3. f \in FilesOf(v, t, n)
  BY <1>1 DEF FilesOf
<1> QED BY <1>2, <1>3 DEF HasId

\* Inlined rows stay as they are without deletions of them and without a flush.
LEMMA InlinedKept ==
    ASSUME NEW v, NEW t, NEW n, \A q \in v.inlined : DOMAIN q = InlinedFields,
           t.flush = {}, t.inlined_deletes = {}, NEW rows, InlinedAgain(rows, v.inlined)
    PROVE  InlinedAgain(rows, InlinedOf(v, t, n))
<1> SUFFICES ASSUME NEW x \in rows
             PROVE  \E r \in InlinedOf(v, t, n) : r.rid = x.rid /\ r.val = x.val /\ (x.live => r.live)
  BY DEF InlinedAgain
<1>1. PICK q \in v.inlined : q.rid = x.rid /\ q.val = x.val /\ (x.live => q.live)
  BY DEF InlinedAgain
<1> DEFINE e == q.live /\ q.rid \notin t.inlined_deletes
           r == [q EXCEPT !.live = e]
<1>2. r \in KeptInlined(v, t)
  BY DEF KeptInlined, Rid
<1>3. q.live => e
  OBVIOUS
<1> HIDE DEF e
<1>4. r.rid = q.rid /\ r.val = q.val /\ r.live = e
  BY DEF InlinedFields
<1> HIDE DEF r
<1>5. r \in InlinedOf(v, t, n)
  BY <1>2 DEF InlinedOf
<1> QED BY <1>1, <1>3, <1>4, <1>5

\* A commit tells the open transactions what it took away.
LEMMA CommitIsTracked ==
    ASSUME NoneIsNoStats, RowIdInv, NEW c \in Clients, NEW t, NEW now, Commits(c, t, now),
           NEW u, DOMAIN u = TxnFields, SolidWork(u), Tracks(u, db),
           NEW w, w = [u EXCEPT !.others = @ \cup {Published(t)}]
    PROVE  SolidWork(w) /\ Tracks(w, now)
<1>1. /\ w.others = u.others \cup {Published(t)} /\ w.view = u.view
      /\ w.dropped_files = u.dropped_files /\ w.delete_files = u.delete_files
      /\ w.file_deletes = u.file_deletes /\ w.rewrites = u.rewrites
  BY DEF TxnFields, NoTransaction
<1>2. PICK table \in Tables : Tables = {table}
  BY OneTable
<1>3. /\ t.dropped_files # {} => <<"deleted_from_table", table>> \in Changes(t)
      /\ t.rewrites # {} => <<"rewrite_delete", table>> \in Changes(t)
      /\ t.flush # {} => <<"inline_flush", table>> \in Changes(t)
      /\ t.inlined_deletes # {} => <<"inlined_delete", table>> \in Changes(t)
      /\ Published(t).changes = Changes(t)
  BY ChangesSayWhat
<1>4. Published(t).files = FilesDeletedFrom(t)
  BY DEF Published
<1> PICK other : other = Published(t)
  OBVIOUS
<1>5. SolidWork(w)
  BY <1>1 DEF SolidWork
<1> PICK n : n = Start(db.stats)
  OBVIOUS
<1>6. now.data_file = FilesOf(db, t, n) /\ now.inlined = InlinedOf(db, t, n)
  BY CommitBecomes DEF Becomes
<1>7. SolidWork(t)
  BY DEF Commits, Ready
<1>8. ASSUME NEW f \in w.view.data_file PROVE HasId(now.data_file, f.id) \/ Removed(w, f.id)
  <2>1. HasId(db.data_file, f.id) \/ Removed(u, f.id)
    BY <1>1, <1>8 DEF Tracks
  <2>2. CASE Removed(u, f.id)
    BY <1>1, <2>2 DEF Removed
  <2>3. CASE HasId(db.data_file, f.id)
    <3>1. PICK g \in db.data_file : g.id = f.id
      BY <2>3 DEF HasId
    <3>2. DOMAIN g = FileFields
      BY DEF RowIdInv, GoodView, GoodFiles
    <3>3. CASE g.id \notin t.dropped_files /\ g.id \notin t.rewrites
      <4>1. HasId(FilesOf(db, t, n), g.id)
        BY <3>2, <3>3, FileKept
      <4> QED BY <1>6, <3>1, <4>1
    <3>4. CASE g.id \in t.dropped_files
      <4>1. g.id \in FilesDeletedFrom(t)
        BY <1>7, <3>4 DEF SolidWork, HasId, FilesDeletedFrom
      <4>2. <<"deleted_from_table", table>> \in other.changes /\ g.id \in other.files
        BY <1>3, <1>4, <3>4, <4>1
      <4> QED BY <1>1, <3>1, <4>2 DEF Removed
    <3>5. CASE g.id \in t.rewrites
      <4>1. <<"rewrite_delete", table>> \in other.changes
        BY <1>3, <3>5
      <4> QED BY <1>1, <3>1, <4>1 DEF Removed
    <3> QED BY <3>3, <3>4, <3>5
  <2> QED BY <2>1, <2>2, <2>3
<1>9. ASSUME NoneDid(w, {"inlined_delete", "inline_flush"}) PROVE InlinedAgain(w.view.inlined, now.inlined)
  <2>1. NoneDid(u, {"inlined_delete", "inline_flush"}) /\ \A x \in other.changes : x[1] \notin {"inlined_delete", "inline_flush"}
    BY <1>1, <1>9 DEF NoneDid
  <2>2. InlinedAgain(w.view.inlined, db.inlined)
    BY <1>1, <2>1 DEF Tracks
  <2>3. t.flush = {} /\ t.inlined_deletes = {}
    BY <1>3, <2>1
  <2>4. \A q \in db.inlined : DOMAIN q = InlinedFields
    BY DEF RowIdInv, GoodView, GoodInlined
  <2>5. InlinedAgain(w.view.inlined, InlinedOf(db, t, n))
    BY <2>2, <2>3, <2>4, InlinedKept
  <2> QED BY <1>6, <2>5
<1> QED BY <1>5, <1>8, <1>9 DEF Tracks

LEMMA CommitKeepsSolid ==
    ASSUME NoneIsNoStats, StatsInv, NEW c \in Clients, Commit(c)
    PROVE  SolidInv'
<1> PICK t : t = txn[c]
  OBVIOUS
<1> PICK now : now = CommitTo(c, t)
  OBVIOUS
<1>1. RowIdInv /\ SolidInv
  BY DEF StatsInv
<1>2. Commits(c, t, now) /\ db' = now
  BY <1>1, CommitIsReady
<1>3. SolidView(now)
  BY <1>1, <1>2, CommitBecomes
<1>4. ASSUME NEW d \in Clients, txn'[d].open PROVE SolidWork(txn'[d]) /\ Tracks(txn'[d], now)
  <2> PICK u : u = txn[d]
    OBVIOUS
  <2> PICK w : w = txn'[d]
    OBVIOUS
  <2>1. txn[d].open /\ w = [u EXCEPT !.others = @ \cup {Published(t)}]
    BY <1>1, <1>4, OthersAfterCommit
  <2>2. DOMAIN u = TxnFields /\ SolidWork(u) /\ Tracks(u, db)
    BY <1>1, <2>1 DEF RowIdInv, TxnInv, GoodWork, SolidInv
  <2> QED BY <1>1, <1>2, <2>1, <2>2, CommitIsTracked
<1> QED BY <1>2, <1>3, <1>4 DEF SolidInv

----------------------------------------------------------------------------
(* The other steps.                                                        *)

\* Transactions keep their snapshot, or begin with that of the metadata.
ViewsStay ==
    \A d \in Clients : txn'[d].open =>
        txn'[d].view = db \/ (txn[d].open /\ txn'[d].view = txn[d].view)

CachesKnown == \A p \in Range(ProcessOf) : \A n \in DOMAIN cache'[p] : Known(n, cache'[p][n])

\* A step that leaves the metadata alone keeps what is known of statistics.
LEMMA KnownStays ==
    ASSUME KnownInv, db' = db, ViewsStay, CachesKnown
    PROVE  KnownInv'
<1> SUFFICES ASSUME NEW n, NEW s, Known(n, s)'
             PROVE  /\ StatsTyped(s)
                    /\ Lost(s) => Lost(db.stats)
                    /\ n = db.next_file_id => Counts(s, db) /\ Fits(s, db)
                    /\ \A d \in Clients : txn'[d].open /\ txn'[d].view.next_file_id = n => Fits(s, txn'[d].view)
  BY DEF KnownInv, KnownFits
<1>1. Known(n, s)
  <2>1. CASE \E p \in Range(ProcessOf) : n \in DOMAIN cache'[p] /\ s = cache'[p][n]
    BY <2>1 DEF CachesKnown
  <2>2. CASE n = db.next_file_id /\ s = db.stats
    BY <2>2 DEF Known
  <2>3. CASE \E d \in Clients : txn'[d].open /\ n = txn'[d].view.next_file_id /\ s = txn'[d].view.stats
    BY <2>3 DEF Known, ViewsStay
  <2> QED BY <2>1, <2>2, <2>3 DEF Known
<1>2. KnownFits(n, s)
  BY <1>1 DEF KnownInv
<1>3. ASSUME NEW d \in Clients, txn'[d].open /\ txn'[d].view.next_file_id = n PROVE Fits(s, txn'[d].view)
  <2> PICK v : v = txn'[d].view
    OBVIOUS
  <2>1. CASE v = db
    <3>1. Fits(s, db)
      BY <1>2, <1>3, <2>1 DEF KnownFits
    <3> QED BY <2>1, <3>1
  <2>2. CASE txn[d].open /\ v = txn[d].view
    <3>1. Fits(s, txn[d].view)
      BY <1>2, <1>3, <2>2 DEF KnownFits
    <3> QED BY <2>2, <3>1
  <2> QED BY <1>3, <2>1, <2>2 DEF ViewsStay
<1> QED BY <1>2, <1>3 DEF KnownFits

LEMMA SameCachesKnown ==
    ASSUME RowIdInv, cache' = cache
    PROVE  CachesKnown
BY CacheIsKnown DEF CachesKnown, AllKnown

LEMMA ReadCachesKnown ==
    ASSUME RowIdInv, NEW c \in Clients, txn[c].open, cache' = Cached(c, txn[c].view)
    PROVE  CachesKnown
<1> DEFINE cached == LookUp(cache[ProcessOf[c]], txn[c].view)
<1>1. AllKnown(cached)
  BY CachedIsKnown
<1>2. ProcessOf[c] \in DOMAIN cache
  BY HasProcess DEF RowIdInv
<1>3. cache' = [cache EXCEPT ![ProcessOf[c]] = cached]
  BY <1>2 DEF Cached
<1>4. CacheStep(c, cached)
  BY <1>1, <1>3 DEF CacheStep
<1> QED BY <1>4, CacheStepIsKnown DEF CachesKnown

\* A statement that leaves the local changes about rows of the snapshot.
LEMMA StatementStays ==
    ASSUME StatsInv, NEW c \in Clients, txn[c].open,
           NEW u, DOMAIN u = TxnFields, SolidWork(u), u.view = txn[c].view, u.others = txn[c].others,
           Statement(c, u), CachesKnown
    PROVE  SolidInv' /\ KnownInv'
<1> DEFINE w == [u EXCEPT !.statements = @ + 1]
<1>1. txn' = [txn EXCEPT ![c] = w] /\ db' = db
  BY DEF Statement
<1>2. RowIdInv /\ SolidInv /\ KnownInv /\ DOMAIN txn = Clients
  BY DEF StatsInv, RowIdInv
<1>3. /\ w.others = u.others /\ w.view = u.view
      /\ w.dropped_files = u.dropped_files /\ w.delete_files = u.delete_files
      /\ w.file_deletes = u.file_deletes /\ w.rewrites = u.rewrites
  BY DEF TxnFields, NoTransaction
<1> HIDE DEF w
<1>4. SolidWork(w)
  BY <1>3 DEF SolidWork
<1>5. Tracks(w, db)
  <2>1. Tracks(txn[c], db)
    BY <1>2 DEF SolidInv
  <2> QED BY <1>3, <2>1 DEF Tracks, Removed, NoneDid
<1>6. ASSUME NEW d \in Clients, txn'[d].open
      PROVE  /\ SolidWork(txn'[d]) /\ Tracks(txn'[d], db)
             /\ txn[d].open /\ txn'[d].view = txn[d].view
  <2>1. CASE d = c
    <3>1. txn'[d] = w
      BY <1>1, <1>2, <2>1
    <3> QED BY <1>3, <1>4, <1>5, <2>1, <3>1
  <2>2. CASE d # c
    <3>1. txn'[d] = txn[d]
      BY <1>1, <1>2, <2>2
    <3> QED BY <1>2, <1>6, <3>1 DEF SolidInv
  <2> QED BY <2>1, <2>2
<1>7. SolidInv'
  BY <1>1, <1>2, <1>6 DEF SolidInv
<1>8. ViewsStay
  BY <1>6 DEF ViewsStay
<1> QED BY <1>1, <1>2, <1>7, <1>8, KnownStays

LEMMA OpenWork ==
    ASSUME StatsInv, NEW c \in Clients, txn[c].open, NEW t, t = txn[c]
    PROVE  RowIdInv /\ DOMAIN t = TxnFields /\ SolidWork(t)
BY DEF StatsInv, RowIdInv, TxnInv, GoodWork, SolidInv

LEMMA InsertStays ==
    ASSUME StatsInv, NEW c \in Clients, Insert(c)
    PROVE  SolidInv' /\ KnownInv'
<1> PICK t : t = txn[c]
  OBVIOUS
<1>1. t.open /\ cache' = cache
  BY DEF Insert, RoomFor
<1>2. RowIdInv /\ DOMAIN t = TxnFields /\ SolidWork(t)
  BY <1>1, OpenWork
<1>3. PICK files, inlined : \/ Statement(c, [t EXCEPT !.new_files = files])
                            \/ Statement(c, [t EXCEPT !.new_inlined = inlined])
  BY DEF Insert
<1> DEFINE u1 == [t EXCEPT !.new_files = files]
           u2 == [t EXCEPT !.new_inlined = inlined]
<1>4. /\ DOMAIN u1 = TxnFields /\ u1.view = t.view /\ u1.others = t.others
      /\ u1.dropped_files = t.dropped_files /\ u1.delete_files = t.delete_files
      /\ u1.file_deletes = t.file_deletes /\ u1.rewrites = t.rewrites
  BY <1>2 DEF TxnFields, NoTransaction
<1>5. /\ DOMAIN u2 = TxnFields /\ u2.view = t.view /\ u2.others = t.others
      /\ u2.dropped_files = t.dropped_files /\ u2.delete_files = t.delete_files
      /\ u2.file_deletes = t.file_deletes /\ u2.rewrites = t.rewrites
  BY <1>2 DEF TxnFields, NoTransaction
<1>6. Statement(c, u1) \/ Statement(c, u2)
  BY <1>3
<1> HIDE DEF u1, u2
<1>7. SolidWork(u1) /\ SolidWork(u2)
  BY <1>2, <1>4, <1>5 DEF SolidWork
<1> QED BY <1>1, <1>2, <1>4, <1>5, <1>6, <1>7, SameCachesKnown, StatementStays

LEMMA DeleteInlinedStays ==
    ASSUME StatsInv, NEW c \in Clients, DeleteInlined(c)
    PROVE  SolidInv' /\ KnownInv'
<1> PICK t : t = txn[c]
  OBVIOUS
<1>1. t.open /\ cache' = cache
  BY DEF DeleteInlined, RoomFor
<1>2. RowIdInv /\ DOMAIN t = TxnFields /\ SolidWork(t)
  BY <1>1, OpenWork
<1>3. PICK deletes : Statement(c, [t EXCEPT !.inlined_deletes = deletes])
  BY DEF DeleteInlined
<1> DEFINE u == [t EXCEPT !.inlined_deletes = deletes]
<1>4. /\ DOMAIN u = TxnFields /\ u.view = t.view /\ u.others = t.others
      /\ u.dropped_files = t.dropped_files /\ u.delete_files = t.delete_files
      /\ u.file_deletes = t.file_deletes /\ u.rewrites = t.rewrites
  BY <1>2 DEF TxnFields, NoTransaction
<1>5. Statement(c, u)
  BY <1>3
<1> HIDE DEF u
<1>6. SolidWork(u)
  BY <1>2, <1>4 DEF SolidWork
<1> QED BY <1>1, <1>2, <1>4, <1>5, <1>6, SameCachesKnown, StatementStays

LEMMA FlushStays ==
    ASSUME StatsInv, NEW c \in Clients, Flush(c)
    PROVE  SolidInv' /\ KnownInv'
<1> PICK t : t = txn[c]
  OBVIOUS
<1>1. t.open /\ cache' = cache
  BY DEF Flush, RoomFor
<1>2. RowIdInv /\ DOMAIN t = TxnFields /\ SolidWork(t)
  BY <1>1, OpenWork
<1> DEFINE u == [t EXCEPT !.flush = t.view.inlined]
<1>3. Statement(c, u)
  BY DEF Flush
<1>4. /\ DOMAIN u = TxnFields /\ u.view = t.view /\ u.others = t.others
      /\ u.dropped_files = t.dropped_files /\ u.delete_files = t.delete_files
      /\ u.file_deletes = t.file_deletes /\ u.rewrites = t.rewrites
  BY <1>2 DEF TxnFields, NoTransaction
<1> HIDE DEF u
<1>5. SolidWork(u)
  BY <1>2, <1>4 DEF SolidWork
<1> QED BY <1>1, <1>2, <1>3, <1>4, <1>5, SameCachesKnown, StatementStays

\* A file that is rewritten has live rows, unless EmptyRewrites.
LEMMA RewriteStays ==
    ASSUME ~EmptyRewrites, StatsInv, NEW c \in Clients, Rewrite(c)
    PROVE  SolidInv' /\ KnownInv'
<1> PICK t : t = txn[c]
  OBVIOUS
<1>1. t.open /\ cache' = cache
  BY DEF Rewrite, RoomFor
<1>2. RowIdInv /\ DOMAIN t = TxnFields /\ SolidWork(t)
  BY <1>1, OpenWork
<1>3. PICK f \in t.view.data_file :
        /\ f.deleted \cup f.inlined_deleted # {} /\ LiveIn(f) # {}
        /\ Statement(c, [t EXCEPT !.rewrites = @ \cup {f.id}])
  BY DEF Rewrite
<1> DEFINE u == [t EXCEPT !.rewrites = @ \cup {f.id}]
<1>4. Statement(c, u)
  BY <1>3
<1>5. /\ DOMAIN u = TxnFields /\ u.view = t.view /\ u.others = t.others
      /\ u.dropped_files = t.dropped_files /\ u.delete_files = t.delete_files
      /\ u.file_deletes = t.file_deletes /\ u.rewrites = t.rewrites \cup {f.id}
  BY <1>2 DEF TxnFields, NoTransaction
<1> HIDE DEF u
<1>6. SolidWork(u)
  BY <1>2, <1>3, <1>5 DEF SolidWork
<1> QED BY <1>1, <1>2, <1>4, <1>5, <1>6, SameCachesKnown, StatementStays

LEMMA DeleteFromFileStays ==
    ASSUME StatsInv, NEW c \in Clients, DeleteFromFile(c)
    PROVE  SolidInv' /\ KnownInv'
<1> PICK t : t = txn[c]
  OBVIOUS
<1>1. t.open /\ cache' = cache
  BY DEF DeleteFromFile, RoomFor
<1>2. RowIdInv /\ DOMAIN t = TxnFields /\ SolidWork(t)
  BY <1>1, OpenWork
<1>3. PICK f, rids :
        /\ f \in t.view.data_file /\ rids \subseteq Rid(LiveIn(f))
        /\ \/ Statement(c, [t EXCEPT !.dropped_files = @ \cup {f.id}])
           \/ Statement(c, [t EXCEPT !.file_deletes = @ \cup {[file |-> f.id, rids |-> rids]}])
           \/ Statement(c, [t EXCEPT !.delete_files = @ \cup {[file |-> f.id, rids |-> rids]}])
  BY DEF DeleteFromFile
<1> DEFINE d == [file |-> f.id, rids |-> rids]
<1>4. d.file = f.id /\ d.rids \subseteq Rid(f.rows) /\ f \in t.view.data_file
  BY <1>3 DEF Rid, LiveIn
<1>5. \/ Statement(c, [t EXCEPT !.dropped_files = @ \cup {f.id}])
      \/ Statement(c, [t EXCEPT !.file_deletes = @ \cup {d}])
      \/ Statement(c, [t EXCEPT !.delete_files = @ \cup {d}])
  BY <1>3
<1> HIDE DEF d
<1> DEFINE u1 == [t EXCEPT !.dropped_files = @ \cup {f.id}]
           u2 == [t EXCEPT !.file_deletes = @ \cup {d}]
           u3 == [t EXCEPT !.delete_files = @ \cup {d}]
<1>6. /\ DOMAIN u1 = TxnFields /\ u1.view = t.view /\ u1.others = t.others
      /\ u1.dropped_files = t.dropped_files \cup {f.id} /\ u1.delete_files = t.delete_files
      /\ u1.file_deletes = t.file_deletes /\ u1.rewrites = t.rewrites
  BY <1>2 DEF TxnFields, NoTransaction
<1>7. /\ DOMAIN u2 = TxnFields /\ u2.view = t.view /\ u2.others = t.others
      /\ u2.dropped_files = t.dropped_files /\ u2.delete_files = t.delete_files
      /\ u2.file_deletes = t.file_deletes \cup {d} /\ u2.rewrites = t.rewrites
  BY <1>2 DEF TxnFields, NoTransaction
<1>8. /\ DOMAIN u3 = TxnFields /\ u3.view = t.view /\ u3.others = t.others
      /\ u3.dropped_files = t.dropped_files /\ u3.delete_files = t.delete_files \cup {d}
      /\ u3.file_deletes = t.file_deletes /\ u3.rewrites = t.rewrites
  BY <1>2 DEF TxnFields, NoTransaction
<1>9. Statement(c, u1) \/ Statement(c, u2) \/ Statement(c, u3)
  BY <1>5
<1> HIDE DEF u1, u2, u3
<1>10. SolidWork(u1)
  BY <1>2, <1>4, <1>6 DEF SolidWork, HasId
<1>11. SolidWork(u2)
  BY <1>2, <1>4, <1>7 DEF SolidWork
<1>12. SolidWork(u3)
  BY <1>2, <1>4, <1>8 DEF SolidWork
<1> QED BY <1>1, <1>2, <1>6, <1>7, <1>8, <1>9, <1>10, <1>11, <1>12, SameCachesKnown, StatementStays

LEMMA ReadStays ==
    ASSUME StatsInv, NEW c \in Clients, Read(c)
    PROVE  SolidInv' /\ KnownInv'
<1>1. txn[c].open /\ Statement(c, txn[c]) /\ cache' = Cached(c, txn[c].view)
  BY DEF Read, RoomFor
<1>2. RowIdInv /\ DOMAIN txn[c] = TxnFields /\ SolidWork(txn[c])
  BY <1>1, OpenWork
<1> QED BY <1>1, <1>2, ReadCachesKnown, StatementStays

LEMMA BeginStays ==
    ASSUME StatsInv, NEW c \in Clients, Begin(c)
    PROVE  SolidInv' /\ KnownInv'
<1> DEFINE w == [NoTransaction EXCEPT !.open = TRUE, !.view = db]
<1>1. txn' = [txn EXCEPT ![c] = w] /\ db' = db /\ cache' = cache
  BY DEF Begin
<1>2. RowIdInv /\ SolidInv /\ KnownInv /\ DOMAIN txn = Clients
  BY DEF StatsInv, RowIdInv
<1>3. /\ w.others = {} /\ w.view = db
      /\ w.delete_files = {} /\ w.file_deletes = {} /\ w.dropped_files = {} /\ w.rewrites = {}
  BY DEF NoTransaction
<1> HIDE DEF w
<1>4. SolidWork(w) /\ Tracks(w, db)
  BY <1>2, <1>3 DEF SolidInv, SolidWork, Tracks, HasId, InlinedAgain
<1>5. ASSUME NEW d \in Clients, txn'[d].open
      PROVE  /\ SolidWork(txn'[d]) /\ Tracks(txn'[d], db)
             /\ txn'[d].view = db \/ (txn[d].open /\ txn'[d].view = txn[d].view)
  <2>1. CASE d = c
    <3>1. txn'[d] = w
      BY <1>1, <1>2, <2>1
    <3> QED BY <1>3, <1>4, <3>1
  <2>2. CASE d # c
    <3>1. txn'[d] = txn[d]
      BY <1>1, <1>2, <2>2
    <3> QED BY <1>2, <1>5, <3>1 DEF SolidInv
  <2> QED BY <2>1, <2>2
<1>6. SolidInv' /\ ViewsStay
  BY <1>1, <1>2, <1>5 DEF SolidInv, ViewsStay
<1> QED BY <1>1, <1>2, <1>6, SameCachesKnown, KnownStays

LEMMA EndStays ==
    ASSUME StatsInv, NEW c \in Clients, End(c)
    PROVE  SolidInv' /\ KnownInv'
<1>1. /\ txn[c].open /\ txn' = [txn EXCEPT ![c] = NoTransaction] /\ db' = db
      /\ cache' = cache \/ cache' = Cached(c, txn[c].view)
  BY DEF End
<1>2. RowIdInv /\ SolidInv /\ KnownInv /\ DOMAIN txn = Clients
  BY DEF StatsInv, RowIdInv
<1>3. ASSUME NEW d \in Clients, txn'[d].open PROVE txn[d].open /\ txn'[d] = txn[d]
  <2>1. d # c
    BY <1>1, <1>2, <1>3, NothingOpen
  <2>2. txn'[d] = txn[d]
    BY <1>1, <1>2, <2>1
  <2> QED BY <1>3, <2>2
<1>4. SolidInv' /\ ViewsStay
  BY <1>1, <1>2, <1>3 DEF SolidInv, ViewsStay
<1>5. CachesKnown
  BY <1>1, <1>2, SameCachesKnown, ReadCachesKnown
<1> QED BY <1>1, <1>2, <1>4, <1>5, KnownStays


\* The invariant holds at first.
LEMMA StatsInvInit == StatisticsInit => StatsInv
<1> HAVE StatisticsInit
<1>1. /\ db.next_file_id = 1 /\ db.data_file = {} /\ db.inlined = {} /\ db.stats = None
      /\ txn = [c \in Clients |-> NoTransaction]
      /\ cache = [p \in Range(ProcessOf) |-> [n \in {} |-> None]]
  BY DEF StatisticsInit
<1>2. \A c \in Clients : ~txn[c].open
  BY <1>1, NothingOpen
<1>3. SolidInv
  BY <1>1, <1>2, FS_EmptySet DEF SolidInv, SolidView
<1>4. \A n, s : Known(n, s) => s = None
  BY <1>1, <1>2 DEF Known
<1>5. \A n, s : s = None => KnownFits(n, s)
  BY <1>2 DEF KnownFits, StatsTyped, Lost, Counts, Fits
<1>6. KnownInv
  BY <1>4, <1>5 DEF KnownInv
<1> QED BY <1>3, <1>6, RowIdInvInit DEF StatsInv

\* Every step keeps it.
LEMMA StatsInvStep ==
    ASSUME NoneIsNoStats, NoneIsNoColumn, ~UncountedRows, ~EmptyRewrites, StatsInv,
           [StatisticsNext]_statisticsVars
    PROVE  StatsInv'
<1>1. RowIdInv'
  BY RowIdInvStep DEF StatsInv
<1>2. CASE UNCHANGED statisticsVars
  <2>1. db' = db /\ txn' = txn /\ cache' = cache
    BY <1>2 DEF statisticsVars
  <2>2. SolidInv' /\ ViewsStay
    BY <2>1 DEF StatsInv, SolidInv, ViewsStay
  <2> QED BY <1>1, <2>1, <2>2, SameCachesKnown, KnownStays DEF StatsInv
<1>3. CASE StatisticsNext
  <2> PICK c \in Clients :
        \/ Begin(c) \/ Read(c) \/ Insert(c) \/ DeleteInlined(c) \/ DeleteFromFile(c)
        \/ Rewrite(c) \/ Flush(c) \/ Commit(c) \/ End(c)
    BY <1>3 DEF StatisticsNext
  <2>1. SolidInv' /\ KnownInv'
    BY BeginStays, ReadStays, InsertStays, DeleteInlinedStays, DeleteFromFileStays,
       RewriteStays, FlushStays, CommitKeepsSolid, CommitKeepsKnown, EndStays
  <2> QED BY <1>1, <2>1 DEF StatsInv
<1> QED BY <1>2, <1>3

----------------------------------------------------------------------------
(* What the planner sees.                                                  *)

\* The live values are those of the live rows.
LEMMA LiveValuesAre ==
    ASSUME NEW v
    PROVE  LiveValues(v) = {q[2] : q \in LiveRows(v)}
<1> DEFINE rows == (UNION {LiveIn(f) : f \in v.data_file}) \cup LiveInlined(v)
<1>1. LiveRows(v) = {Pair(r) : r \in rows}
  BY DEF LiveRows, LivePairs, Pairs
<1>2. LiveValues(v) = {r.val : r \in rows}
  BY DEF LiveValues
<1> HIDE DEF rows
<1>3. \A r : Pair(r)[2] = r.val
  BY DEF Pair
<1> QED BY <1>1, <1>2, <1>3

\* The snapshots that a client may plan a scan for, and the statistics known for them.
LEMMA ViewsAreGood ==
    ASSUME StatsInv, NEW c \in Clients, NEW v \in Views(c)
    PROVE  GoodView(v) /\ SolidView(v) /\ Known(v.next_file_id, v.stats)
           /\ \A s : Known(v.next_file_id, s) => StatsOk(s) /\ StatsTyped(s) /\ Fits(s, v)
<1>1. RowIdInv /\ SolidInv /\ KnownInv
  BY DEF StatsInv
<1>2. v = db \/ (txn[c].open /\ v = txn[c].view)
  BY DEF Views
<1>3. \A s : Known(v.next_file_id, s) => StatsOk(s)
  BY <1>1, KnownStart
<1>4. CASE v = db
  <2>1. GoodView(db) /\ SolidView(db) /\ Known(db.next_file_id, db.stats)
    BY <1>1 DEF RowIdInv, SolidInv, Known
  <2>2. \A s : Known(db.next_file_id, s) => StatsTyped(s) /\ Fits(s, db)
    BY <1>1 DEF KnownInv, KnownFits
  <2> QED BY <1>3, <1>4, <2>1, <2>2
<1>5. CASE txn[c].open /\ v = txn[c].view
  <2>1. GoodView(v) /\ SolidView(v) /\ Known(v.next_file_id, v.stats)
    BY <1>1, <1>5 DEF RowIdInv, TxnInv, SolidInv, SolidWork, Known
  <2>2. ASSUME NEW s, Known(v.next_file_id, s) PROVE StatsTyped(s) /\ Fits(s, v)
    <3>1. KnownFits(v.next_file_id, s)
      BY <1>1, <2>2 DEF KnownInv
    <3>2. Fits(s, txn[c].view)
      BY <1>5, <3>1 DEF KnownFits
    <3> QED BY <1>5, <3>1, <3>2 DEF KnownFits
  <2> QED BY <1>3, <2>1, <2>2
<1> QED BY <1>2, <1>4, <1>5

\* The column that the planner gets is one that fits the snapshot.
Plans(s, v, stats, column) ==
    /\ ColumnFits(s, v) /\ s.record_count \in Int /\ s.column \in StoredColumns
    /\ stats.record_count = s.record_count
    /\ column.min = s.column.min /\ column.max = s.column.max
    /\ s.column.nulls # "no" => column.has_null

\* The statistics that a client plans with are known for its snapshot.
LEMMA PlannedColumn ==
    ASSUME NoneIsNoStats, NoneIsNoColumn, StatsInv, NEW c \in Clients, NEW v \in Views(c),
           NEW stats, stats = GetTableStats(c, v), NEW column, column = GetStatistics(stats), column # None
    PROVE  \E s : Plans(s, v, stats, column)
<1> PICK s : s = LookUp(cache[ProcessOf[c]], v)[v.next_file_id]
  OBVIOUS
<1>1. stats = LoadStats(s)
  BY DEF GetTableStats
<1>2. Known(v.next_file_id, s)
  <2> PICK r : r = LookUp(cache[ProcessOf[c]], v)
    OBVIOUS
  <2>1. AllKnown(r) /\ v.next_file_id \in DOMAIN r
    BY HasProcess, CacheIsKnown, ViewsAreGood, LookUpIsKnown
  <2> QED BY <2>1 DEF AllKnown
<1>3. StatsOk(s) /\ StatsTyped(s) /\ Fits(s, v)
  BY <1>2, ViewsAreGood
<1>4. stats # None /\ stats.column # None /\ column = ToStats(stats.column)
  <2>1. ~(stats = None \/ stats.column = None)
    BY ZenonT(60) DEF GetStatistics
  <2> QED BY <2>1, ZenonT(60) DEF GetStatistics
<1>5. s # None
  BY <1>1, <1>4, ZenonT(60) DEF LoadStats
<1>6. /\ stats.record_count = s.record_count
      /\ s.column = None => stats.column = None
      /\ s.column # None => stats.column = FromGlobalStats(s.column, s.record_count > 0)
  BY <1>1, <1>3, <1>5, LoadedParts
<1>7. s.column # None /\ s.column \in StoredColumns /\ s.record_count \in Int /\ ColumnFits(s, v)
  BY <1>3, <1>4, <1>5, <1>6 DEF StatsTyped, Fits, Lost
<1> PICK x : x = stats.column
  OBVIOUS
<1>8. x.nulls = s.column.nulls /\ x.min = s.column.min /\ x.max = s.column.max
  <2> DEFINE b == s.record_count > 0
  <2>1. b \in BOOLEAN /\ x = FromGlobalStats(s.column, b)
    BY <1>6, <1>7
  <2> HIDE DEF b
  <2> QED BY <1>7, <2>1, LoadedColumn
<1>9. column.min = x.min /\ column.max = x.max /\ (x.nulls # "no" => column.has_null)
  <2> DEFINE b == x.nulls # "no"
  <2>1. column = [min |-> x.min, max |-> x.max, has_null |-> b]
    BY <1>4 DEF ToStats
  <2>2. b \in BOOLEAN
    OBVIOUS
  <2> HIDE DEF b
  <2>3. column.min = x.min /\ column.max = x.max /\ column.has_null = b
    BY <2>1
  <2>4. b => column.has_null
    BY <2>2, <2>3
  <2> QED BY <2>3, <2>4 DEF b
<1>10. Plans(s, v, stats, column)
  BY <1>6, <1>7, <1>8, <1>9, Zenon DEF Plans
<1> QED BY <1>10

LEMMA StatsCover == NoneIsNoStats /\ NoneIsNoColumn /\ StatsInv => StatsCoverLiveRows
<1> HAVE NoneIsNoStats /\ NoneIsNoColumn /\ StatsInv
<1> SUFFICES ASSUME NEW c \in Clients, NEW v \in Views(c),
                    NEW column, column = GetStatistics(GetTableStats(c, v)), column # None
             PROVE  /\ Null \in LiveValues(v) => column.has_null
                    /\ \A y \in LiveValues(v) \ {Null} :
                         /\ column.min # None => column.min <= y
                         /\ column.max # None => column.max >= y
  BY DEF StatsCoverLiveRows
<1> PICK stats : stats = GetTableStats(c, v)
  OBVIOUS
<1>1. PICK s : Plans(s, v, stats, column)
  BY PlannedColumn
<1>2. GoodView(v) /\ SolidView(v)
  BY ViewsAreGood
<1>3. ASSUME NEW y \in LiveValues(v) PROVE Admits(s.column, y)
  <2>1. PICK q \in LiveRows(v) : y = q[2]
    BY <1>3, LiveValuesAre
  <2>2. q \in Counted(v)
    BY <1>2, ViewPairs
  <2> QED BY <1>1, <2>1, <2>2 DEF Plans, ColumnFits
<1> QED BY <1>1, <1>3 DEF Plans, Admits

LEMMA MinMaxExact == NoneIsNoStats /\ NoneIsNoColumn /\ StatsInv => MinMaxAreExact
<1> HAVE NoneIsNoStats /\ NoneIsNoColumn /\ StatsInv
<1> SUFFICES ASSUME NEW c \in Clients, NEW v \in Views(c), NEW stats, stats = GetTableStats(c, v),
                    NEW column, column = GetStatistics(stats), column # None, MinMaxIsExact(stats, v),
                    NEW valid, valid = LiveValues(v) \ {Null}
             PROVE  /\ column.min # None => valid # {} /\ column.min = Min(valid)
                    /\ column.max # None => valid # {} /\ column.max = Max(valid)
  BY DEF MinMaxAreExact
<1>1. PICK s : Plans(s, v, stats, column)
  BY PlannedColumn
<1>2. GoodView(v) /\ SolidView(v)
  BY ViewsAreGood
<1>3. valid = ValuesIn(LiveRows(v))
  BY LiveValuesAre DEF ValuesIn
<1>4. valid \subseteq Int /\ IsFiniteSet(valid)
  <2>1. valid \in SUBSET Values
    BY <1>2, <1>3, ViewPairs DEF ValuesIn
  <2> QED BY <2>1, StatisticsAssumption, FS_Subset
<1>5. ASSUME HasBounds(s.column) PROVE BoundsIn(s.column, valid)
  <2>1. s.record_count >= Cardinality(Counted(v)) /\ s.record_count \in Int
    BY <1>1, <1>5 DEF Plans, ColumnFits
  <2>2. s.record_count = NetDataFileRowCount(v) + NetInlinedRowCount(v)
    BY <1>1 DEF Plans, MinMaxIsExact
  <2>3. /\ NetDataFileRowCount(v) + NetInlinedRowCount(v) <= Cardinality(LiveRows(v))
        /\ Cardinality(LiveRows(v)) <= Cardinality(Counted(v))
        /\ Cardinality(LiveRows(v)) \in Nat /\ Cardinality(Counted(v)) \in Nat
    BY <1>2, ViewCounts
  <2>4. s.record_count = Cardinality(LiveRows(v))
    BY <2>1, <2>2, <2>3
  <2> QED BY <1>1, <1>3, <1>5, <2>4 DEF Plans, ColumnFits
<1>6. \A y \in valid : Admits(s.column, y) /\ y # Null
  <2> SUFFICES ASSUME NEW q \in LiveRows(v) PROVE Admits(s.column, q[2])
    BY <1>3 DEF ValuesIn
  <2>1. q \in Counted(v)
    BY <1>2, ViewPairs
  <2> QED BY <1>1, <2>1 DEF Plans, ColumnFits
<1>7. column.min = s.column.min /\ column.max = s.column.max
  BY <1>1 DEF Plans
<1>8. ASSUME column.min # None PROVE valid # {} /\ column.min = Min(valid)
  <2> PICK m : m = column.min
    OBVIOUS
  <2>1. m \in valid /\ \A y \in valid : m <= y
    BY <1>5, <1>6, <1>7, <1>8 DEF HasBounds, BoundsIn, Admits
  <2>2. Min(valid) \in valid /\ Min(valid) <= m
    BY <1>4, <2>1, MinOfSet
  <2>3. m = Min(valid)
    BY <1>4, <2>1, <2>2
  <2> QED BY <2>1, <2>3
<1>9. ASSUME column.max # None PROVE valid # {} /\ column.max = Max(valid)
  <2> PICK m : m = column.max
    OBVIOUS
  <2>1. m \in valid /\ \A y \in valid : m >= y
    BY <1>5, <1>6, <1>7, <1>9 DEF HasBounds, BoundsIn, Admits
  <2>2. Max(valid) \in valid /\ Max(valid) >= m
    BY <1>4, <2>1, MinOfSet
  <2>3. m = Max(valid)
    BY <1>4, <2>1, <2>2
  <2> QED BY <2>1, <2>3
<1> QED BY <1>8, <1>9

\* The statistics that any client plans a scan with cover the live rows of the snapshot
\* that it reads, cached or not, whatever other clients insert, delete, drop, flush and
\* rewrite meanwhile (DuckLakeCatalog::GetTableStats, DuckLakeColumnStats::MergeStats,
\* RecomputeGlobalStatsAfterRewrite, UpdateStatsForDroppedFiles).
THEOREM StatsAlwaysCover ==
    ASSUME NoneIsNoStats, NoneIsNoColumn, ~UncountedRows, ~EmptyRewrites
    PROVE  StatisticsSpec => []StatsCoverLiveRows
<1>1. StatisticsInit => StatsInv
  BY StatsInvInit
<1>2. StatsInv /\ [StatisticsNext]_statisticsVars => StatsInv'
  BY StatsInvStep
<1>3. StatsInv => StatsCoverLiveRows
  BY StatsCover
<1> QED BY <1>1, <1>2, <1>3, PTL DEF StatisticsSpec

\* MIN and MAX that are answered from the statistics are those of the live rows:
\* record_count is the number of live rows only if no row is dead, and then both
\* bounds are values of live rows (DuckLakeGetPartitionStats).
THEOREM MinMaxAlwaysExact ==
    ASSUME NoneIsNoStats, NoneIsNoColumn, ~UncountedRows, ~EmptyRewrites
    PROVE  StatisticsSpec => []MinMaxAreExact
<1>1. StatisticsInit => StatsInv
  BY StatsInvInit
<1>2. StatsInv /\ [StatisticsNext]_statisticsVars => StatsInv'
  BY StatsInvStep
<1>3. StatsInv => MinMaxAreExact
  BY MinMaxExact
<1> QED BY <1>1, <1>2, <1>3, PTL DEF StatisticsSpec
=============================================================================
