--------------------------- MODULE CatalogProofs ---------------------------
(***************************************************************************)
(* Proofs about Catalog, for any clients and names, any number of          *)
(* statements of a transaction and any number of snapshots.                *)
(***************************************************************************)
EXTENDS Catalog, TLAPS

----------------------------------------------------------------------------
(* The snapshots between which rows are valid.                             *)

\* A row is valid from one of the n snapshots that exist, and either live or
\* ended by one of them.
InHistory(r, n) ==
    /\ r.begin \in Nat /\ r.begin <= n
    /\ r.end \in Nat /\ (r.end = Live \/ r.end <= n)

\* The rows are records with the columns of their tables.
SchemaRow(r, n) ==
    /\ r = [id |-> r.id, parent |-> r.parent, name |-> r.name, begin |-> r.begin, end |-> r.end]
    /\ InHistory(r, n)

EntryRow(r, n) ==
    /\ r = [id |-> r.id, kind |-> r.kind, schema |-> r.schema, name |-> r.name,
            begin |-> r.begin, end |-> r.end]
    /\ InHistory(r, n)

CommentRow(r, n) ==
    /\ r = [id |-> r.id, comment |-> r.comment, begin |-> r.begin, end |-> r.end]
    /\ InHistory(r, n)

SchemaRows(rows, n) == \A r \in rows : SchemaRow(r, n)

EntryRows(rows, n) == \A r \in rows : EntryRow(r, n)

CommentRows(rows, n) == \A r \in rows : CommentRow(r, n)

\* The rows that a commit adds.
NewRows(rows, n) == \A r \in rows : r.begin = n + 1

\* Snapshots are never removed, and schema versions do not go back.
HistoryInv ==
    /\ Latest \in Nat \ {0}
    /\ \E S : snapshots \in Seq(S)
    /\ \A k \in 1 .. Latest : SchemaVersion(k) \in Nat
    /\ \A j, k \in 1 .. Latest : j <= k => SchemaVersion(j) <= SchemaVersion(k)
    /\ SchemaRows(schemas, Latest)
    /\ EntryRows(entries, Latest)
    /\ CommentRows(tags, Latest)

\* The catalogs of two snapshots have the same rows.
SameCatalog(j, k) ==
    /\ SchemasAt(j) = SchemasAt(k)
    /\ EntriesAt(j) = EntriesAt(k)
    /\ CommentsAt(j) = CommentsAt(k)

\* A schema version stands for one catalog, and only versions of snapshots are
\* in the cache.
VersionInv ==
    /\ \A j, k \in 1 .. Latest : SchemaVersion(j) = SchemaVersion(k) => SameCatalog(j, k)
    /\ \A v \in DOMAIN cache : \E k \in 1 .. Latest : v = SchemaVersion(k)

CacheInv == HistoryInv /\ VersionInv /\ CachedSchemaIsCurrent

\* What a snapshot loads depends on the rows that are valid in it, without the
\* snapshots in which they begin and end.
LEMMA LoadOfRows ==
    ASSUME NEW j, NEW k, SameCatalog(j, k)
    PROVE  LoadSchemaForSnapshot(j) = LoadSchemaForSnapshot(k)
BY DEF SameCatalog, LoadSchemaForSnapshot

LEMMA LoadUnchanged ==
    ASSUME NEW k, SchemasAt(k)' = SchemasAt(k), EntriesAt(k)' = EntriesAt(k),
           CommentsAt(k)' = CommentsAt(k)
    PROVE  LoadSchemaForSnapshot(k)' = LoadSchemaForSnapshot(k)
BY DEF LoadSchemaForSnapshot

\* Existing snapshots keep their catalogs.
CatalogsKept ==
    \A j \in 1 .. Latest : LoadSchemaForSnapshot(j)' = LoadSchemaForSnapshot(j)

\* The bounds of a commit.
LEMMA NextIsNotLive ==
    ASSUME HistoryInv, Latest < MaxSnapshot
    PROVE  Latest \in Nat /\ Live \in Nat /\ Latest + 1 < Live
BY BoundsType DEF HistoryInv, Live

\* The columns that a load selects.
SchemaColumns(rows) == {[id |-> r.id, parent |-> r.parent, name |-> r.name] : r \in rows}

EntryColumns(rows) == {[id |-> r.id, kind |-> r.kind, schema |-> r.schema, name |-> r.name] : r \in rows}

CommentColumns(rows) == {[id |-> r.id, comment |-> r.comment] : r \in rows}

(* Ending live rows with the next snapshot and adding rows that begin with *)
(* it changes what no earlier snapshot selects: a row that was valid there *)
(* stays valid there, with another end.                                    *)

LEMMA CommitKeepsSchemasAt ==
    ASSUME NEW n \in Nat, n < MaxSnapshot, NEW rows, SchemaRows(rows, n),
           NEW ids, NEW new, NewRows(new, n),
           NEW after, after = FlushDrop(rows, ids, n + 1) \cup new, NEW k \in 1 .. n
    PROVE  SchemaColumns(AtSnapshot(after, k)) = SchemaColumns(AtSnapshot(rows, k))
<1> DEFINE P(r) == [id |-> r.id, parent |-> r.parent, name |-> r.name]
           E(r) == IF r.id \in ids /\ r.end = Live THEN [r EXCEPT !.end = n + 1] ELSE r
           later == FlushDrop(rows, ids, n + 1) \cup new
<1>0. n \in Nat /\ Live \in Nat /\ n + 1 < Live /\ k \in Nat /\ k <= n
  BY BoundsType DEF Live
<1>1. ASSUME NEW r \in rows
      PROVE  P(E(r)) = P(r) /\ E(r).begin = r.begin /\ (k < E(r).end <=> k < r.end)
  <2>1. SchemaRow(r, n)
    BY DEF SchemaRows
  <2> QED
    BY <1>0, <2>1 DEF SchemaRow, InHistory
<1>2. later = {E(r) : r \in rows} \cup new
  BY DEF FlushDrop
<1>3. AtSnapshot(later, k) = {E(r) : r \in AtSnapshot(rows, k)}
  <2>1. \A r \in new : ~(r.begin <= k)
    BY <1>0 DEF NewRows
  <2> HIDE DEF E, P
  <2> QED
    BY <1>1, <1>2, <2>1 DEF AtSnapshot
<1>4. \A r \in AtSnapshot(rows, k) : P(E(r)) = P(r)
  BY <1>1 DEF AtSnapshot
<1> HIDE DEF E, P, later
<1>5. {P(r) : r \in AtSnapshot(later, k)} = {P(r) : r \in AtSnapshot(rows, k)}
  BY <1>3, <1>4
<1> QED
  BY <1>5 DEF P, later, SchemaColumns

LEMMA CommitKeepsEntriesAt ==
    ASSUME NEW n \in Nat, n < MaxSnapshot, NEW rows, EntryRows(rows, n),
           NEW ids, NEW new, NewRows(new, n),
           NEW after, after = FlushDrop(rows, ids, n + 1) \cup new, NEW k \in 1 .. n
    PROVE  EntryColumns(AtSnapshot(after, k)) = EntryColumns(AtSnapshot(rows, k))
<1> DEFINE P(r) == [id |-> r.id, kind |-> r.kind, schema |-> r.schema, name |-> r.name]
           E(r) == IF r.id \in ids /\ r.end = Live THEN [r EXCEPT !.end = n + 1] ELSE r
           later == FlushDrop(rows, ids, n + 1) \cup new
<1>0. n \in Nat /\ Live \in Nat /\ n + 1 < Live /\ k \in Nat /\ k <= n
  BY BoundsType DEF Live
<1>1. ASSUME NEW r \in rows
      PROVE  P(E(r)) = P(r) /\ E(r).begin = r.begin /\ (k < E(r).end <=> k < r.end)
  <2>1. EntryRow(r, n)
    BY DEF EntryRows
  <2> QED
    BY <1>0, <2>1 DEF EntryRow, InHistory
<1>2. later = {E(r) : r \in rows} \cup new
  BY DEF FlushDrop
<1>3. AtSnapshot(later, k) = {E(r) : r \in AtSnapshot(rows, k)}
  <2>1. \A r \in new : ~(r.begin <= k)
    BY <1>0 DEF NewRows
  <2> HIDE DEF E, P
  <2> QED
    BY <1>1, <1>2, <2>1 DEF AtSnapshot
<1>4. \A r \in AtSnapshot(rows, k) : P(E(r)) = P(r)
  BY <1>1 DEF AtSnapshot
<1> HIDE DEF E, P, later
<1>5. {P(r) : r \in AtSnapshot(later, k)} = {P(r) : r \in AtSnapshot(rows, k)}
  BY <1>3, <1>4
<1> QED
  BY <1>5 DEF P, later, EntryColumns

LEMMA CommitKeepsCommentsAt ==
    ASSUME NEW n \in Nat, n < MaxSnapshot, NEW rows, CommentRows(rows, n),
           NEW ids, NEW new, NewRows(new, n),
           NEW after, after = FlushDrop(rows, ids, n + 1) \cup new, NEW k \in 1 .. n
    PROVE  CommentColumns(AtSnapshot(after, k)) = CommentColumns(AtSnapshot(rows, k))
<1> DEFINE P(r) == [id |-> r.id, comment |-> r.comment]
           E(r) == IF r.id \in ids /\ r.end = Live THEN [r EXCEPT !.end = n + 1] ELSE r
           later == FlushDrop(rows, ids, n + 1) \cup new
<1>0. n \in Nat /\ Live \in Nat /\ n + 1 < Live /\ k \in Nat /\ k <= n
  BY BoundsType DEF Live
<1>1. ASSUME NEW r \in rows
      PROVE  P(E(r)) = P(r) /\ E(r).begin = r.begin /\ (k < E(r).end <=> k < r.end)
  <2>1. CommentRow(r, n)
    BY DEF CommentRows
  <2> QED
    BY <1>0, <2>1 DEF CommentRow, InHistory
<1>2. later = {E(r) : r \in rows} \cup new
  BY DEF FlushDrop
<1>3. AtSnapshot(later, k) = {E(r) : r \in AtSnapshot(rows, k)}
  <2>1. \A r \in new : ~(r.begin <= k)
    BY <1>0 DEF NewRows
  <2> HIDE DEF E, P
  <2> QED
    BY <1>1, <1>2, <2>1 DEF AtSnapshot
<1>4. \A r \in AtSnapshot(rows, k) : P(E(r)) = P(r)
  BY <1>1 DEF AtSnapshot
<1> HIDE DEF E, P, later
<1>5. {P(r) : r \in AtSnapshot(later, k)} = {P(r) : r \in AtSnapshot(rows, k)}
  BY <1>3, <1>4
<1> QED
  BY <1>5 DEF P, later, CommentColumns

----------------------------------------------------------------------------
(* A schema version stands for one catalog.                                *)

\* A sequence that grows keeps what it has.
LEMMA AppendKeeps ==
    ASSUME NEW s, \E S : s \in Seq(S), NEW e
    PROVE  /\ \E S : Append(s, e) \in Seq(S)
           /\ Len(s) \in Nat
           /\ Len(Append(s, e)) = Len(s) + 1
           /\ \A i \in 1 .. Len(s) : Append(s, e)[i] = s[i]
           /\ Append(s, e)[Len(s) + 1] = e
<1>1. PICK S : s \in Seq(S)
  OBVIOUS
<1>2. s \in Seq(S \cup {e}) /\ e \in S \cup {e}
  BY <1>1
<1> QED
  BY <1>2

\* A commit with a later schema version, or without a change of the catalog.
LEMMA NewSnapshot ==
    ASSUME HistoryInv, NEW x, x.schema_version \in Nat, x.schema_version >= SchemaVersion(Latest),
           snapshots' = Append(snapshots, x)
    PROVE  /\ Latest' = Latest + 1 /\ Latest' \in Nat \ {0}
           /\ \E S : snapshots' \in Seq(S)
           /\ SchemaVersion(Latest)' = x.schema_version
           /\ \A k \in 1 .. Latest : SchemaVersion(k)' = SchemaVersion(k)
           /\ \A k \in 1 .. Latest' : SchemaVersion(k)' \in Nat
           /\ \A j, k \in 1 .. Latest' : j <= k => SchemaVersion(j)' <= SchemaVersion(k)'
<1>1. /\ \E S : snapshots' \in Seq(S)
      /\ Latest \in Nat /\ Latest' = Latest + 1
      /\ \A k \in 1 .. Latest : snapshots'[k] = snapshots[k]
      /\ snapshots'[Latest'] = x
  <2>1. \E S : snapshots \in Seq(S)
    BY DEF HistoryInv
  <2>2. /\ \E S : Append(snapshots, x) \in Seq(S)
        /\ Len(snapshots) \in Nat
        /\ Len(Append(snapshots, x)) = Len(snapshots) + 1
        /\ \A i \in 1 .. Len(snapshots) : Append(snapshots, x)[i] = snapshots[i]
        /\ Append(snapshots, x)[Len(snapshots) + 1] = x
    BY <2>1, AppendKeeps
  <2> QED
    BY <2>2 DEF Latest
<1>2. /\ SchemaVersion(Latest)' = x.schema_version
      /\ \A k \in 1 .. Latest : SchemaVersion(k)' = SchemaVersion(k)
  BY <1>1 DEF SchemaVersion
<1>3. ASSUME NEW k \in 1 .. Latest'
      PROVE  /\ SchemaVersion(k)' \in Nat
             /\ SchemaVersion(k)' <= x.schema_version
             /\ \A j \in 1 .. Latest' : j <= k => SchemaVersion(j)' <= SchemaVersion(k)'
  <2>1. \A j \in 1 .. Latest : /\ SchemaVersion(j) \in Nat
                               /\ SchemaVersion(j) <= x.schema_version
    BY <1>1 DEF HistoryInv
  <2>2. CASE k = Latest'
    <3>1. \A j \in 1 .. Latest' : j = Latest' \/ j \in 1 .. Latest
      BY <1>1
    <3>2. SchemaVersion(k)' = x.schema_version
      BY <1>2, <2>2 DEF SchemaVersion
    <3>3. \A j \in 1 .. Latest' : SchemaVersion(j)' <= x.schema_version
      <4>1. \A j \in 1 .. Latest : SchemaVersion(j)' <= x.schema_version
        BY <1>2, <2>1
      <4>2. SchemaVersion(Latest)' <= x.schema_version
        BY <1>2
      <4> QED
        BY <3>1, <4>1, <4>2 DEF SchemaVersion
    <3> QED
      BY <3>2, <3>3
  <2>3. CASE k \in 1 .. Latest
    <3>1. \A j \in 1 .. Latest' : j <= k => j \in 1 .. Latest
      BY <1>1, <2>3
    <3> QED
      BY <1>2, <2>1, <2>3, <3>1 DEF HistoryInv
  <2> QED
    BY <1>1, <2>2, <2>3
<1> QED
  BY <1>1, <1>2, <1>3

\* A commit that changes the catalog.
LEMMA CommitCacheInv ==
    ASSUME CacheInv, NEW c \in Clients, Commit(c)
    PROVE  CacheInv' /\ CatalogsKept
<1> DEFINE t == txn[c]
           k == Latest + 1
           ids == CommittedIds(c)
<1>0. /\ HistoryInv /\ VersionInv /\ CachedSchemaIsCurrent
      /\ Latest < MaxSnapshot /\ SchemaChangesMade(t)
      /\ cache' = cache
      /\ Latest \in Nat \ {0} /\ Live \in Nat /\ k < Live
  BY NextIsNotLive DEF CacheInv, HistoryInv, Commit
<1>a. Latest \in Nat /\ Latest < MaxSnapshot
  BY <1>0
<1>1. /\ schemas' = FlushDrop(schemas, t.dropped_schemas, k) \cup GetNewSchemas(c, ids, k)
      /\ entries' = FlushDrop(entries, t.dropped \cup t.renamed, k) \cup GetNewTables(c, ids, k)
      /\ tags' = WriteNewTags(FlushDrop(tags, t.dropped, k), NewTags(c), ids, k)
      /\ snapshots' = Append(snapshots,
              [schema_version |-> NextSchemaVersion(t),
               next_catalog_id |-> snapshots[Latest].next_catalog_id + Cardinality(DOMAIN ids),
               changes |-> GetTransactionChanges(c)])
  BY DEF Commit, CommitChanges
<1> HIDE DEF t, ids
<1>2. NextSchemaVersion(t) = SchemaVersion(Latest) + 1 /\ SchemaVersion(Latest) \in Nat
  BY <1>0 DEF NextSchemaVersion, HistoryInv
<1>3. /\ Latest' = Latest + 1 /\ Latest' \in Nat \ {0}
      /\ \E S : snapshots' \in Seq(S)
      /\ SchemaVersion(Latest)' = SchemaVersion(Latest) + 1
      /\ \A j \in 1 .. Latest : SchemaVersion(j)' = SchemaVersion(j)
      /\ \A j \in 1 .. Latest' : SchemaVersion(j)' \in Nat
      /\ \A i, j \in 1 .. Latest' : i <= j => SchemaVersion(i)' <= SchemaVersion(j)'
  BY <1>0, <1>1, <1>2, NewSnapshot
<1>4. /\ SchemaRows(schemas, Latest)'
      /\ \A j \in 1 .. Latest : SchemasAt(j)' = SchemasAt(j)
  <2>1. NewRows(GetNewSchemas(c, ids, k), Latest)
    BY DEF GetNewSchemas, NewRows
  <2>2. SchemaRows(schemas, Latest)
    BY <1>0 DEF HistoryInv
  <2>3. ASSUME NEW j \in 1 .. Latest PROVE SchemasAt(j)' = SchemasAt(j)
    <3>1. SchemaColumns(AtSnapshot(schemas', j)) = SchemaColumns(AtSnapshot(schemas, j))
      <4>1. schemas' = FlushDrop(schemas, t.dropped_schemas, Latest + 1) \cup GetNewSchemas(c, ids, k)
        BY <1>1
      <4> HIDE DEF k
      <4> QED
        BY <1>a, <2>1, <2>2, <4>1, CommitKeepsSchemasAt
    <3> QED
      BY <1>1, <3>1 DEF SchemasAt, SchemaColumns
  <2>4. \A r \in GetNewSchemas(c, ids, k) : SchemaRow(r, Latest')
    BY <1>0, <1>3 DEF GetNewSchemas, SchemaRow, InHistory
  <2>5. \A r \in FlushDrop(schemas, t.dropped_schemas, k) : SchemaRow(r, Latest')
    BY <1>0, <1>3, <2>2 DEF FlushDrop, SchemaRows, SchemaRow, InHistory
  <2> QED
    BY <1>1, <2>3, <2>4, <2>5 DEF SchemaRows
<1>5. /\ EntryRows(entries, Latest)'
      /\ \A j \in 1 .. Latest : EntriesAt(j)' = EntriesAt(j)
  <2>1. NewRows(GetNewTables(c, ids, k), Latest)
    BY DEF GetNewTables, NewRows
  <2>2. EntryRows(entries, Latest)
    BY <1>0 DEF HistoryInv
  <2>3. ASSUME NEW j \in 1 .. Latest PROVE EntriesAt(j)' = EntriesAt(j)
    <3>1. EntryColumns(AtSnapshot(entries', j)) = EntryColumns(AtSnapshot(entries, j))
      <4>1. entries' = FlushDrop(entries, t.dropped \cup t.renamed, Latest + 1) \cup GetNewTables(c, ids, k)
        BY <1>1
      <4> HIDE DEF k
      <4> QED
        BY <1>a, <2>1, <2>2, <4>1, CommitKeepsEntriesAt
    <3> QED
      BY <1>1, <3>1 DEF EntriesAt, EntryColumns
  <2>4. \A r \in GetNewTables(c, ids, k) : EntryRow(r, Latest')
    BY <1>0, <1>3 DEF GetNewTables, EntryRow, InHistory
  <2>5. \A r \in FlushDrop(entries, t.dropped \cup t.renamed, k) : EntryRow(r, Latest')
    BY <1>0, <1>3, <2>2 DEF FlushDrop, EntryRows, EntryRow, InHistory
  <2> QED
    BY <1>1, <2>3, <2>4, <2>5 DEF EntryRows
<1>6. /\ CommentRows(tags, Latest)'
      /\ \A j \in 1 .. Latest : CommentsAt(j)' = CommentsAt(j)
  <2> DEFINE ended == FlushDrop(FlushDrop(tags, t.dropped, k), {Remap(ids, e.id) : e \in NewTags(c)}, k)
             new == {[id |-> Remap(ids, e.id), comment |-> e.comment, begin |-> k, end |-> Live] :
                       e \in NewTags(c)}
             both == t.dropped \cup {Remap(ids, e.id) : e \in NewTags(c)}
  <2>1. NewRows(new, Latest)
    BY DEF NewRows
  <2>2. CommentRows(tags, Latest)
    BY <1>0 DEF HistoryInv
  <2>3. ended = FlushDrop(tags, both, k)
    <3> DEFINE D(r) == IF r.id \in t.dropped /\ r.end = Live THEN [r EXCEPT !.end = k] ELSE r
               N == {Remap(ids, e.id) : e \in NewTags(c)}
               F(r) == IF r.id \in N /\ r.end = Live THEN [r EXCEPT !.end = k] ELSE r
               B(r) == IF r.id \in both /\ r.end = Live THEN [r EXCEPT !.end = k] ELSE r
    <3>1. \A r \in tags : F(D(r)) = B(r)
      <4> SUFFICES ASSUME NEW r \in tags PROVE F(D(r)) = B(r)
        OBVIOUS
      <4>1. CommentRow(r, Latest)
        BY <2>2 DEF CommentRows
      <4>2. r.id \in both <=> r.id \in t.dropped \/ r.id \in N
        OBVIOUS
      <4> HIDE DEF both, N
      <4> QED
        BY <1>0, <4>1, <4>2 DEF CommentRow
    <3>2. FlushDrop(tags, t.dropped, k) = {D(r) : r \in tags}
      BY DEF FlushDrop
    <3>3. ended = {F(r) : r \in {D(q) : q \in tags}}
      BY <3>2 DEF FlushDrop
    <3>4. FlushDrop(tags, both, k) = {B(r) : r \in tags}
      BY DEF FlushDrop
    <3> HIDE DEF D, F, B, ended, both
    <3> QED
      BY <3>1, <3>3, <3>4
  <2>4. tags' = FlushDrop(tags, both, k) \cup new
    BY <1>1, <2>3 DEF WriteNewTags
  <2> HIDE DEF ended, new, both
  <2>5. ASSUME NEW j \in 1 .. Latest PROVE CommentsAt(j)' = CommentsAt(j)
    <3>1. CommentColumns(AtSnapshot(tags', j)) = CommentColumns(AtSnapshot(tags, j))
      BY <1>a, <2>1, <2>2, <2>4, CommitKeepsCommentsAt
    <3> QED
      BY <3>1 DEF CommentsAt, CommentColumns
  <2>6. \A r \in new : CommentRow(r, Latest')
    BY <1>0, <1>3 DEF new, CommentRow, InHistory
  <2>7. \A r \in FlushDrop(tags, both, k) : CommentRow(r, Latest')
    BY <1>0, <1>3, <2>2 DEF FlushDrop, CommentRows, CommentRow, InHistory
  <2> QED
    BY <2>4, <2>5, <2>6, <2>7 DEF CommentRows
<1>7. HistoryInv'
  BY <1>3, <1>4, <1>5, <1>6 DEF HistoryInv
<1>8. \A j \in 1 .. Latest : /\ SchemaVersion(j)' # SchemaVersion(Latest)'
                             /\ \A i \in 1 .. Latest : SameCatalog(i, j)' <=> SameCatalog(i, j)
  <2>1. \A j \in 1 .. Latest : SchemaVersion(j) <= SchemaVersion(Latest) /\ SchemaVersion(j) \in Nat
    BY <1>0 DEF HistoryInv
  <2> QED
    BY <1>2, <1>3, <1>4, <1>5, <1>6, <2>1 DEF SameCatalog
<1>9. \A j \in 1 .. Latest' : j = Latest' \/ j \in 1 .. Latest
  BY <1>0, <1>3
<1>10. VersionInv'
  <2>1. \A i, j \in 1 .. Latest' : (SchemaVersion(i) = SchemaVersion(j) => SameCatalog(i, j))'
    BY <1>0, <1>3, <1>8, <1>9, SMTT(60) DEF VersionInv, SameCatalog, SchemaVersion
  <2>2. \A v \in DOMAIN cache' : \E j \in 1 .. Latest' : v = SchemaVersion(j)'
    BY <1>0, <1>3 DEF VersionInv
  <2> QED
    BY <2>1, <2>2 DEF VersionInv
<1>11. CachedSchemaIsCurrent'
  <2> SUFFICES ASSUME NEW j \in 1 .. Latest', SchemaVersion(j)' \in DOMAIN cache
               PROVE  cache[SchemaVersion(j)'] = LoadSchemaForSnapshot(j)'
    BY <1>0 DEF CachedSchemaIsCurrent
  <2>1. j \in 1 .. Latest
    BY <1>0, <1>3, <1>8, <1>9 DEF VersionInv, SchemaVersion
  <2>2. LoadSchemaForSnapshot(j)' = LoadSchemaForSnapshot(j)
    BY <1>4, <1>5, <1>6, <2>1, LoadUnchanged
  <2> QED
    BY <1>0, <1>3, <2>1, <2>2 DEF CachedSchemaIsCurrent
<1> QED
  <2>1. CatalogsKept
    BY <1>4, <1>5, <1>6, LoadUnchanged DEF CatalogsKept
  <2> QED
    BY <1>7, <1>10, <1>11, <2>1 DEF CacheInv

\* A commit of data alone selects the same rows as the snapshot before.
LEMMA CommitDataCacheInv ==
    ASSUME CacheInv, CommitData
    PROVE  CacheInv' /\ CatalogsKept
<1>0. /\ HistoryInv /\ VersionInv /\ CachedSchemaIsCurrent
      /\ Latest < MaxSnapshot
      /\ UNCHANGED <<schemas, entries, tags, cache>>
      /\ Latest \in Nat \ {0} /\ Live \in Nat /\ Latest + 1 < Live
  BY NextIsNotLive DEF CacheInv, HistoryInv, CommitData
<1> DEFINE x == [snapshots[Latest] EXCEPT !.changes = NoChanges]
<1>1. x.schema_version = SchemaVersion(Latest) /\ SchemaVersion(Latest) \in Nat
  BY <1>0 DEF HistoryInv, SchemaVersion
<1>2. snapshots' = Append(snapshots, x)
  BY DEF CommitData
<1> HIDE DEF x
<1>3. /\ Latest' = Latest + 1 /\ Latest' \in Nat \ {0}
      /\ \E S : snapshots' \in Seq(S)
      /\ SchemaVersion(Latest)' = SchemaVersion(Latest)
      /\ \A j \in 1 .. Latest : SchemaVersion(j)' = SchemaVersion(j)
      /\ \A j \in 1 .. Latest' : SchemaVersion(j)' \in Nat
      /\ \A i, j \in 1 .. Latest' : i <= j => SchemaVersion(i)' <= SchemaVersion(j)'
  BY <1>0, <1>1, <1>2, NewSnapshot
<1>4. HistoryInv'
  <2>1. SchemaRows(schemas, Latest') /\ EntryRows(entries, Latest') /\ CommentRows(tags, Latest')
    BY <1>0, <1>3 DEF HistoryInv, SchemaRows, EntryRows, CommentRows, SchemaRow, EntryRow, CommentRow,
         InHistory
  <2> QED
    BY <1>0, <1>3, <2>1 DEF HistoryInv
<1>5. SameCatalog(Latest, Latest + 1)
  <2>1. /\ AtSnapshot(schemas, Latest + 1) = AtSnapshot(schemas, Latest)
        /\ AtSnapshot(entries, Latest + 1) = AtSnapshot(entries, Latest)
        /\ AtSnapshot(tags, Latest + 1) = AtSnapshot(tags, Latest)
    BY <1>0 DEF HistoryInv, SchemaRows, EntryRows, CommentRows, SchemaRow, EntryRow, CommentRow,
         InHistory, AtSnapshot
  <2> QED
    BY <2>1 DEF SameCatalog, SchemasAt, EntriesAt, CommentsAt
<1>6. \A i, j : SameCatalog(i, j)' <=> SameCatalog(i, j)
  BY <1>0 DEF SameCatalog, SchemasAt, EntriesAt, CommentsAt
<1>7. \A j : LoadSchemaForSnapshot(j)' = LoadSchemaForSnapshot(j)
  <2>1. \A j : SchemasAt(j)' = SchemasAt(j) /\ EntriesAt(j)' = EntriesAt(j) /\ CommentsAt(j)' = CommentsAt(j)
    BY <1>0 DEF SchemasAt, EntriesAt, CommentsAt
  <2> QED
    BY <2>1, LoadUnchanged
\* Every snapshot has the version and the catalog of an earlier one.
<1>8. \A j \in 1 .. Latest' : \E i \in 1 .. Latest :
          /\ SchemaVersion(j)' = SchemaVersion(i)
          /\ SameCatalog(i, j)
          /\ LoadSchemaForSnapshot(j) = LoadSchemaForSnapshot(i)
  <2> TAKE j \in 1 .. Latest'
  <2>1. CASE j \in 1 .. Latest
    BY <1>3, <2>1 DEF SameCatalog
  <2>2. CASE j = Latest + 1
    <3>1. SchemaVersion(j)' = SchemaVersion(Latest)
      BY <1>3, <2>2 DEF SchemaVersion
    <3>2. SameCatalog(Latest, j) /\ LoadSchemaForSnapshot(j) = LoadSchemaForSnapshot(Latest)
      BY <1>5, <2>2, LoadOfRows
    <3> QED
      BY <1>0, <3>1, <3>2
  <2> QED
    BY <1>0, <1>3, <2>1, <2>2
<1>9. VersionInv'
  <2>1. ASSUME NEW i \in 1 .. Latest', NEW j \in 1 .. Latest', SchemaVersion(i)' = SchemaVersion(j)'
        PROVE  SameCatalog(i, j)'
    <3>1. PICK a \in 1 .. Latest : SchemaVersion(i)' = SchemaVersion(a) /\ SameCatalog(a, i)
      BY <1>8
    <3>2. PICK b \in 1 .. Latest : SchemaVersion(j)' = SchemaVersion(b) /\ SameCatalog(b, j)
      BY <1>8
    <3>3. SameCatalog(a, b)
      BY <1>0, <2>1, <3>1, <3>2 DEF VersionInv
    <3> QED
      BY <1>6, <3>1, <3>2, <3>3 DEF SameCatalog
  <2>2. \A v \in DOMAIN cache' : \E j \in 1 .. Latest' : v = SchemaVersion(j)'
    <3> TAKE v \in DOMAIN cache'
    <3>1. PICK j \in 1 .. Latest : v = SchemaVersion(j)
      BY <1>0 DEF VersionInv
    <3>2. j \in 1 .. Latest' /\ v = SchemaVersion(j)'
      BY <1>0, <1>3, <3>1
    <3> QED
      BY <3>2
  <2> QED
    BY <2>1, <2>2 DEF VersionInv
<1>10. CachedSchemaIsCurrent'
  <2> SUFFICES ASSUME NEW j \in 1 .. Latest', SchemaVersion(j)' \in DOMAIN cache
               PROVE  cache[SchemaVersion(j)'] = LoadSchemaForSnapshot(j)'
    BY <1>0 DEF CachedSchemaIsCurrent
  <2>1. PICK i \in 1 .. Latest : SchemaVersion(j)' = SchemaVersion(i)
                               /\ LoadSchemaForSnapshot(j) = LoadSchemaForSnapshot(i)
    BY <1>8
  <2> QED
    BY <1>0, <1>7, <2>1 DEF CachedSchemaIsCurrent
<1> QED
  BY <1>4, <1>7, <1>9, <1>10 DEF CacheInv, CatalogsKept

\* A load is cached under the version of its snapshot, and is then what every
\* snapshot with that version would load.
LEMMA LoadCacheInv ==
    ASSUME CacheInv, NEW k \in 1 .. Latest, GetSchemaCacheEntry(k),
           UNCHANGED <<schemas, entries, tags, snapshots>>
    PROVE  CacheInv' /\ CatalogsKept
<1>0. HistoryInv /\ VersionInv /\ CachedSchemaIsCurrent
  BY DEF CacheInv
<1>1. /\ DOMAIN cache' \subseteq DOMAIN cache \cup {SchemaVersion(k)}
      /\ \A v \in DOMAIN cache : cache'[v] = cache[v]
      /\ SchemaVersion(k) \notin DOMAIN cache => cache'[SchemaVersion(k)] = LoadSchemaForSnapshot(k)
  BY DEF GetSchemaCacheEntry
<1>2. /\ Latest' = Latest
      /\ \A j : SchemaVersion(j)' = SchemaVersion(j)
      /\ \A j : LoadSchemaForSnapshot(j)' = LoadSchemaForSnapshot(j)
      /\ \A i, j : SameCatalog(i, j)' <=> SameCatalog(i, j)
  <2>1. \A j : SchemasAt(j)' = SchemasAt(j) /\ EntriesAt(j)' = EntriesAt(j) /\ CommentsAt(j)' = CommentsAt(j)
    BY DEF SchemasAt, EntriesAt, CommentsAt
  <2>2. \A j : LoadSchemaForSnapshot(j)' = LoadSchemaForSnapshot(j)
    BY <2>1, LoadUnchanged
  <2>3. Latest' = Latest /\ \A j : SchemaVersion(j)' = SchemaVersion(j)
    BY DEF Latest, SchemaVersion
  <2> QED
    BY <2>1, <2>2, <2>3 DEF SameCatalog
<1>3. HistoryInv'
  BY <1>0, <1>2 DEF HistoryInv
<1>4. VersionInv'
  BY <1>0, <1>1, <1>2 DEF VersionInv
<1>5. CachedSchemaIsCurrent'
  <2> SUFFICES ASSUME NEW j \in 1 .. Latest, SchemaVersion(j) \in DOMAIN cache'
               PROVE  cache'[SchemaVersion(j)] = LoadSchemaForSnapshot(j)
    BY <1>2 DEF CachedSchemaIsCurrent
  <2>1. CASE SchemaVersion(j) \in DOMAIN cache
    BY <1>0, <1>1, <2>1 DEF CachedSchemaIsCurrent
  <2>2. CASE SchemaVersion(j) \notin DOMAIN cache
    <3>1. SchemaVersion(j) = SchemaVersion(k)
      BY <1>1, <2>2
    <3>2. LoadSchemaForSnapshot(j) = LoadSchemaForSnapshot(k)
      BY <1>0, <3>1, LoadOfRows DEF VersionInv
    <3> QED
      BY <1>1, <2>2, <3>1, <3>2
  <2> QED
    BY <2>1, <2>2
<1> QED
  BY <1>2, <1>3, <1>4, <1>5 DEF CacheInv, CatalogsKept

\* The statements of a transaction and its rollback change what is local.
LEMMA LocalCacheInv ==
    ASSUME CacheInv, UNCHANGED <<schemas, entries, tags, snapshots, cache>>
    PROVE  CacheInv' /\ CatalogsKept
<1>1. /\ Latest' = Latest
      /\ \A j : SchemaVersion(j)' = SchemaVersion(j)
      /\ \A j : SchemasAt(j)' = SchemasAt(j) /\ EntriesAt(j)' = EntriesAt(j) /\ CommentsAt(j)' = CommentsAt(j)
  BY DEF Latest, SchemaVersion, SchemasAt, EntriesAt, CommentsAt
<1>2. \A j : LoadSchemaForSnapshot(j)' = LoadSchemaForSnapshot(j)
  BY <1>1, LoadUnchanged
<1>3. HistoryInv'
  BY <1>1 DEF CacheInv, HistoryInv
<1>4. VersionInv'
  BY <1>1 DEF CacheInv, VersionInv, SameCatalog
<1>5. CachedSchemaIsCurrent'
  BY <1>1, <1>2 DEF CacheInv, CachedSchemaIsCurrent
<1> QED
  BY <1>2, <1>3, <1>4, <1>5 DEF CacheInv, CatalogsKept

LEMMA CacheInvInit == Init => CacheInv
<1> SUFFICES ASSUME Init PROVE CacheInv
  OBVIOUS
<1>1. Latest = 1 /\ SchemaVersion(1) = 1 /\ DOMAIN cache = {} /\ \E S : snapshots \in Seq(S)
  <2>1. snapshots \in Seq({[schema_version |-> 1, next_catalog_id |-> 3, changes |-> NoChanges]})
    BY DEF Init
  <2>2. \E S : snapshots \in Seq(S)
    BY <2>1
  <2>3. Latest = 1 /\ SchemaVersion(1) = 1
    BY DEF Init, Latest, SchemaVersion
  <2>4. DOMAIN cache = {}
    BY DEF Init
  <2> QED
    BY <2>2, <2>3, <2>4
<1>2. SchemaRows(schemas, 1) /\ EntryRows(entries, 1) /\ CommentRows(tags, 1)
  BY BoundsType DEF Init, SchemaRows, EntryRows, CommentRows, SchemaRow, EntryRow, InHistory, Live
<1>3. HistoryInv
  BY <1>1, <1>2 DEF HistoryInv
<1>4. VersionInv
  BY <1>1 DEF VersionInv, SameCatalog
<1>5. CachedSchemaIsCurrent
  BY <1>1 DEF CachedSchemaIsCurrent
<1> QED
  BY <1>3, <1>4, <1>5 DEF CacheInv

LEMMA CacheInvNext == CacheInv /\ [Next]_catalogVars => CacheInv' /\ CatalogsKept
<1> SUFFICES ASSUME CacheInv, [Next]_catalogVars PROVE CacheInv' /\ CatalogsKept
  OBVIOUS
<1>1. CASE UNCHANGED catalogVars
  BY <1>1, LocalCacheInv DEF catalogVars
<1>2. CASE CommitData
  BY <1>2, CommitDataCacheInv
<1>3. ASSUME NEW k \in 1 .. Latest, TimeTravel(k) PROVE CacheInv' /\ CatalogsKept
  BY <1>3, LoadCacheInv DEF TimeTravel
<1>4. ASSUME NEW c \in Clients, Begin(c) PROVE CacheInv' /\ CatalogsKept
  <2>1. Latest \in 1 .. Latest
    BY DEF CacheInv, HistoryInv
  <2> QED
    BY <1>4, <2>1, LoadCacheInv DEF Begin
<1>5. ASSUME NEW c \in Clients, Commit(c) PROVE CacheInv' /\ CatalogsKept
  BY <1>5, CommitCacheInv
<1>6. ASSUME NEW c \in Clients, Rollback(c) PROVE CacheInv' /\ CatalogsKept
  BY <1>6, LocalCacheInv DEF Rollback
<1>7. ASSUME NEW c \in Clients, SchemaStep(c) PROVE CacheInv' /\ CatalogsKept
  <2>1. UNCHANGED <<schemas, entries, tags, snapshots, cache>>
    BY <1>7 DEF SchemaStep, CreateSchema, DropSchema, Statement
  <2> QED
    BY <2>1, LocalCacheInv, SMTT(60)
<1>8. ASSUME NEW c \in Clients, EntryStep(c) PROVE CacheInv' /\ CatalogsKept
  <2>1. PICK s \in VisibleSchemas(c) :
           \/ \E kind \in Kinds, name \in Names, replace \in BOOLEAN : CreateEntry(c, s, kind, name, replace)
           \/ \E e \in Scan(c, s.id) :
                 \/ DropStatement(c, s, e)
                 \/ \E name \in Names : RenameEntry(c, s, e, name)
                 \/ \E comment \in Comments : AlterEntry(c, s, e, comment)
    BY <1>8 DEF EntryStep
  <2>2. \E t : Statement(c, t)
    <3>1. ASSUME NEW kind, NEW name, NEW replace, CreateEntry(c, s, kind, name, replace)
          PROVE  \E t : Statement(c, t)
      BY <3>1 DEF CreateEntry
    <3>2. ASSUME NEW e, DropStatement(c, s, e) PROVE \E t : Statement(c, t)
      BY <3>2 DEF DropStatement
    <3>3. ASSUME NEW e, NEW name, RenameEntry(c, s, e, name) PROVE \E t : Statement(c, t)
      BY <3>3 DEF RenameEntry
    <3>4. ASSUME NEW e, NEW comment, AlterEntry(c, s, e, comment) PROVE \E t : Statement(c, t)
      BY <3>4 DEF AlterEntry
    <3> QED
      BY <2>1, <3>1, <3>2, <3>3, <3>4
  <2>3. UNCHANGED <<schemas, entries, tags, snapshots, cache>>
    BY <2>2 DEF Statement
  <2> QED
    BY <2>3, LocalCacheInv
<1> QED
  BY <1>1, <1>2, <1>3, <1>4, <1>5, <1>6, <1>7, <1>8 DEF Next

\* The cache that all transactions of a process share, keyed by nothing but the
\* schema version, always holds what a load would find, for every snapshot of
\* that version: also for one that a transaction loaded for an old snapshot,
\* and whatever other processes have committed since.
THEOREM CacheIsCurrent == CatalogSpec => []CachedSchemaIsCurrent
<1>1. CacheInv => CachedSchemaIsCurrent
  BY DEF CacheInv
<1> QED
  BY <1>1, CacheInvInit, CacheInvNext, PTL DEF CatalogSpec

\* A snapshot keeps the catalog that it was committed with: no commit, of this or
\* of another process, changes what a query AT an earlier snapshot loads.
THEOREM CatalogsAreImmutable == CatalogSpec => [][CatalogsKept]_catalogVars
BY CacheInvInit, CacheInvNext, PTL DEF CatalogSpec
============================================================================
