------------------------------ MODULE Catalog ------------------------------
(***************************************************************************)
(* The catalog: schemas (which may be nested), and the tables, views and   *)
(* macros in them.                                                         *)
(*                                                                         *)
(* The metadata database keeps one row per schema and per entry, each with *)
(* the snapshots between which it is valid.  A transaction reads the       *)
(* catalog of its snapshot (from a cache that all transactions of a        *)
(* process share, keyed by the schema version) and keeps its own changes   *)
(* in memory: the schemas it created, the ids it dropped or renamed, and   *)
(* for every name it changed the chain of versions of the entry under that *)
(* name.  A commit turns the chains into rows, unless what it did          *)
(* conflicts with what was committed since it began.                       *)
(*                                                                         *)
(* A commit is one step here: that an attempt which loses the race for its *)
(* snapshot id is repeated on top of the winner is SnapshotCommit's part.  *)
(* What an ALTER changes in an entry is its comment; the columns are the   *)
(* module TableColumns.                                                    *)
(***************************************************************************)
EXTENDS Naturals, Sequences, FiniteSets, SequencesExt

CONSTANTS
    Clients,      \* connections of one process to the lake
    SchemaNames,  \* names of schemas
    Names,        \* names of entries
    Kinds,        \* the kinds of entries: a subset of {"table", "view", "macro"}
    Comments,     \* what an ALTER may set
    MaxOps,       \* bound on the statements of a transaction of each client
    MaxRuns,      \* bound on the transactions of a client
    MaxSnapshot   \* bound on the number of snapshots

ASSUME KindsType == "table" \in Kinds /\ Kinds \subseteq {"table", "view", "macro"}
ASSUME BoundsType == MaxOps \in [Clients -> Nat] /\ MaxRuns \in Nat /\ MaxSnapshot \in Nat

VARIABLES
    schemas,    \* ducklake_schema
    entries,    \* ducklake_table, ducklake_view and ducklake_macro
    tags,       \* ducklake_tag: the comments
    snapshots,  \* ducklake_snapshot and ducklake_snapshot_changes
    cache,      \* the loaded catalogs of the process, by schema version
    txn         \* the transaction of each client

catalogVars == <<schemas, entries, tags, snapshots, cache, txn>>

Latest == Len(snapshots)

\* end_snapshot IS NULL
Live == MaxSnapshot + 1

\* The rows of a metadata table that are valid in snapshot k.
AtSnapshot(rows, k) == {r \in rows : r.begin <= k /\ k < r.end}

\* DuckLakeConstants::TRANSACTION_LOCAL_ID_START: ids that a transaction gives
\* to what it creates, replaced by catalog ids when it commits.
TransactionLocalIdStart == 100

IsTransactionLocal(id) == id >= TransactionLocalIdStart

\* Tables and views share a namespace; macros have their own.
NameSpace(kind) == IF kind = "macro" THEN "macros" ELSE "tables"

\* A schema without a parent.
NoParent == TransactionLocalIdStart - 1

----------------------------------------------------------------------------
(* Loading the catalog of a snapshot.                                      *)

\* The ids of the schemas whose chain of parents is complete.
Reachable(rows) ==
    LET ids == {r.id : r \in rows}
        parent(i) == (CHOOSE r \in rows : r.id = i).parent
        top[i \in ids] == \/ parent(i) = NoParent
                          \/ parent(i) \in ids /\ top[parent(i)]
    IN  {i \in ids : top[i]}

FindUnreachableSchemas(rows) == {r.id : r \in rows} \ Reachable(rows)

Comment(rows, id) ==
    IF \E r \in rows : r.id = id THEN (CHOOSE r \in rows : r.id = id).comment ELSE "none"

\* An entry of a loaded catalog.
Loaded(r, comments) ==
    [id |-> r.id, kind |-> r.kind, schema |-> r.schema, name |-> r.name,
     comment |-> Comment(comments, r.id), change |-> "NONE"]

\* What a load selects of the rows that are valid in snapshot k.
SchemasAt(k) ==
    {[id |-> r.id, parent |-> r.parent, name |-> r.name] : r \in AtSnapshot(schemas, k)}

EntriesAt(k) ==
    {[id |-> r.id, kind |-> r.kind, schema |-> r.schema, name |-> r.name] : r \in AtSnapshot(entries, k)}

CommentsAt(k) == {[id |-> r.id, comment |-> r.comment] : r \in AtSnapshot(tags, k)}

\* What the rows say about snapshot k.  Entries whose schema is unreachable
\* count as dropped.
LoadSchemaForSnapshot(k) ==
    LET skipped == FindUnreachableSchemas(SchemasAt(k))
    IN  [schemas |-> {s \in SchemasAt(k) : s.id \notin skipped},
         entries |-> {Loaded(e, CommentsAt(k)) : e \in {x \in EntriesAt(k) : x.schema \notin skipped}}]

SchemaVersion(k) == snapshots[k].schema_version

\* The cached catalog of the snapshot's schema version, or a load that is
\* cached under it from now on.
GetSchemaCacheEntry(k) ==
    cache' = [v \in DOMAIN cache \cup {SchemaVersion(k)} |->
                 IF v \in DOMAIN cache THEN cache[v] ELSE LoadSchemaForSnapshot(k)]

----------------------------------------------------------------------------
(* What a transaction sees.                                                *)

NoTransaction ==
    [active |-> FALSE, runs |-> 0, snap |-> 0, ops |-> 0, new_schemas |-> {}, dropped_schemas |-> {},
     local |-> << >>, renamed |-> {}, dropped |-> {}]

Pinned(c) == cache[SchemaVersion(txn[c].snap)]

\* A schema is visible when it is local, or committed and not dropped, and its
\* parent is visible: schemas are found by walking down from the top.
VisibleSchemas(c) ==
    LET all == txn[c].new_schemas \cup
               {s \in Pinned(c).schemas : s.id \notin txn[c].dropped_schemas}
    IN  {s \in all : s.id \in Reachable(all)}

Key(ns, schema, name) == <<ns, schema, name>>

\* The transaction's own entries are the newest versions of its chains.
LocalEntries(c, schema) ==
    {Head(txn[c].local[k]) : k \in {x \in DOMAIN txn[c].local : x[2] = schema}}

IsRenamed(c, e) == e.id \in txn[c].renamed

IsDeleted(c, e) == e.id \in txn[c].dropped

\* The entries of a schema: the local ones, then the committed ones that were
\* neither dropped nor renamed and have no local entry of their name.
Scan(c, schema) ==
    LocalEntries(c, schema) \cup
    {e \in Pinned(c).entries :
        /\ e.schema = schema
        /\ ~IsDeleted(c, e) /\ ~IsRenamed(c, e)
        /\ Key(NameSpace(e.kind), schema, e.name) \notin DOMAIN txn[c].local}

\* The entry of that name, as a set of at most one element.
LookupEntry(c, ns, schema, name) ==
    IF Key(ns, schema, name) \in DOMAIN txn[c].local
    THEN {Head(txn[c].local[Key(ns, schema, name)])}
    ELSE {e \in Pinned(c).entries :
            /\ e.schema = schema /\ e.name = name /\ NameSpace(e.kind) = ns
            /\ ~IsDeleted(c, e) /\ ~IsRenamed(c, e)}

----------------------------------------------------------------------------
(* Local changes.                                                          *)

\* A local catalog set: keys to chains, the newest version first.
Without(f, k) == [x \in DOMAIN f \ {k} |-> f[x]]

\* The new version becomes the root of the chain under its name.
CreateLocal(local, e) ==
    LET k == Key(NameSpace(e.kind), e.schema, e.name)
    IN  (k :> (<<e>> \o (IF k \in DOMAIN local THEN local[k] ELSE << >>))) @@ local

\* Enough local ids for any transaction.
MaxIds == 9

\* The smallest id that the transaction has not given out.
LocalIds(t) ==
    {s.id : s \in t.new_schemas} \cup
    {e.id : e \in UNION {ToSet(t.local[k]) : k \in DOMAIN t.local}}

GetLocalCatalogId(t) ==
    CHOOSE id \in TransactionLocalIdStart .. TransactionLocalIdStart + MaxIds :
        /\ id \notin LocalIds(t)
        /\ \A other \in TransactionLocalIdStart .. (id - 1) : other \in LocalIds(t)

\* DropTable, DropView and the macro drops, of a set of entries: a local version
\* disappears with its whole chain, a committed id is remembered as dropped and
\* no longer renamed.
DropEntries(t, es) ==
    LET keys == {Key(NameSpace(e.kind), e.schema, e.name) : e \in {x \in es : x.change # "NONE"}}
        ids == {e.id : e \in {x \in es : ~IsTransactionLocal(x.id)}}
    IN  [t EXCEPT !.local = [k \in DOMAIN t.local \ keys |-> t.local[k]],
                  !.renamed = @ \ ids,
                  !.dropped = @ \cup ids]

\* A rename adds a version under the new name; the versions that the
\* transaction already had under the old name become its children.
HandleRenameOldEntry(t, old, new) ==
    LET created == CreateLocal(t.local, new)
        oldKey == Key(NameSpace(old.kind), old.schema, old.name)
        newKey == Key(NameSpace(new.kind), new.schema, new.name)
    IN  [t EXCEPT
            !.local = IF old.change = "NONE" THEN created
                      ELSE [Without(created, oldKey) EXCEPT ![newKey] = <<new>> \o created[oldKey]],
            !.renamed = IF IsTransactionLocal(old.id) THEN @ ELSE @ \cup {old.id}]

Statement(c, t) ==
    /\ txn[c].active /\ txn[c].ops < MaxOps[c]
    /\ txn' = [txn EXCEPT ![c] = [t EXCEPT !.ops = @ + 1]]
    /\ UNCHANGED <<schemas, entries, tags, snapshots, cache>>

Begin(c) ==
    /\ ~txn[c].active /\ txn[c].runs < MaxRuns
    /\ txn' = [txn EXCEPT ![c] = [NoTransaction EXCEPT
                 !.active = TRUE, !.runs = txn[c].runs + 1, !.snap = Latest]]
    /\ GetSchemaCacheEntry(Latest)
    /\ UNCHANGED <<schemas, entries, tags, snapshots>>

\* A query AT an older snapshot loads (or finds) that snapshot's catalog.
TimeTravel(k) ==
    /\ SchemaVersion(k) \notin DOMAIN cache
    /\ GetSchemaCacheEntry(k)
    /\ UNCHANGED <<schemas, entries, tags, snapshots, txn>>

\* CREATE SCHEMA, at the top or inside another schema.
CreateSchema(c, parent, name) ==
    /\ txn[c].active
    /\ parent # NoParent => \E s \in VisibleSchemas(c) : s.id = parent
    /\ ~ \E s \in VisibleSchemas(c) : s.parent = parent /\ s.name = name
    /\ Statement(c, [txn[c] EXCEPT !.new_schemas =
            @ \cup {[id |-> GetLocalCatalogId(txn[c]), parent |-> parent, name |-> name]}])

\* The schemas above a schema.
Ancestors(rows, id) ==
    LET row(i) == CHOOSE r \in rows : r.id = i
        above[i \in {r.id : r \in rows}] ==
            IF row(i).parent = NoParent THEN {} ELSE above[row(i).parent] \cup {row(i).parent}
    IN  above[id]

\* The schema and everything below it.
Subtree(c, s) ==
    LET all == VisibleSchemas(c)
    IN  {x \in all : x = s \/ s.id \in Ancestors(all, x.id)}

DropSchemas(t, ss) ==
    [t EXCEPT !.new_schemas = @ \ ss,
              !.dropped_schemas = @ \cup {s.id : s \in {x \in ss : ~IsTransactionLocal(x.id)}}]

\* CASCADE: the contents of the schema and of the schemas below it, and the
\* schemas.
DropSchemaDependents(c, s) ==
    LET below == Subtree(c, s)
    IN  DropSchemas(DropEntries(txn[c], UNION {Scan(c, x.id) : x \in below}), below)

\* DROP SCHEMA: without CASCADE only an empty schema can be dropped.
DropSchema(c, s, cascade) ==
    /\ s \in VisibleSchemas(c)
    /\ ~cascade => Subtree(c, s) = {s} /\ Scan(c, s.id) = {}
    /\ Statement(c, DropSchemaDependents(c, s))

\* CREATE (OR REPLACE) of an entry: an existing one of the same kind is dropped
\* first, an existing one of another kind is an error.
CreateEntry(c, schema, kind, name, replace) ==
    LET existing == LookupEntry(c, NameSpace(kind), schema.id, name)
        base == DropEntries(txn[c], existing)
        created == [id |-> GetLocalCatalogId(base), kind |-> kind, schema |-> schema.id,
                    name |-> name, comment |-> "none", change |-> "CREATED"]
    IN  /\ schema \in VisibleSchemas(c)
        /\ existing # {} => replace /\ \A e \in existing : e.kind = kind
        /\ Statement(c, [base EXCEPT !.local = CreateLocal(base.local, created)])

DropStatement(c, schema, e) ==
    /\ schema \in VisibleSchemas(c) /\ e \in Scan(c, schema.id)
    /\ Statement(c, DropEntries(txn[c], {e}))

\* ALTER TABLE or VIEW ... RENAME TO.
RenameEntry(c, schema, e, name) ==
    /\ schema \in VisibleSchemas(c) /\ e \in Scan(c, schema.id)
    /\ e.kind # "macro"
    /\ LookupEntry(c, NameSpace(e.kind), schema.id, name) = {}
    /\ Statement(c, HandleRenameOldEntry(txn[c], e, [e EXCEPT !.name = name, !.change = "RENAMED"]))

\* COMMENT ON: a new version of the entry under its own name.
AlterEntry(c, schema, e, comment) ==
    /\ schema \in VisibleSchemas(c) /\ e \in Scan(c, schema.id)
    /\ e.kind # "macro"
    /\ Statement(c, [txn[c] EXCEPT !.local =
            CreateLocal(@, [e EXCEPT !.comment = comment, !.change = "SET_COMMENT"])])

----------------------------------------------------------------------------
(* The summary of a transaction and the conflicts between two.             *)

\* PathKey: the names from the top schema down.
PathKey(rows, id) ==
    LET row(i) == CHOOSE r \in rows : r.id = i
        path[i \in {r.id : r \in rows}] ==
            IF row(i).parent = NoParent THEN <<row(i).name>>
            ELSE path[row(i).parent] \o <<row(i).name>>
    IN  path[id]

\* All the schemas a transaction may name, dropped ones included.
KnownSchemas(c) == Pinned(c).schemas \cup txn[c].new_schemas

Versions(c) == UNION {ToSet(txn[c].local[k]) : k \in DOMAIN txn[c].local}

\* Every name under which a version of the chain was created or renamed is a
\* created entry; other versions of a committed entry alter it.
GetTransactionChanges(c) ==
    LET t == txn[c]
        key(id) == PathKey(KnownSchemas(c), id)
    IN  [dropped |-> t.dropped,
         dropped_schemas |-> t.dropped_schemas,
         dropped_keys |-> {key(id) : id \in t.dropped_schemas},
         created_schemas |-> {key(s.id) : s \in t.new_schemas},
         created_parents |-> UNION {Ancestors(KnownSchemas(c), s.id) : s \in t.new_schemas},
         created |-> {<<key(e.schema), NameSpace(e.kind), e.name>> :
                        e \in {x \in Versions(c) : x.change \in {"CREATED", "RENAMED"}}},
         created_in |-> {e.schema : e \in {x \in Versions(c) : x.change \in {"CREATED", "RENAMED"}}},
         renamed |-> t.renamed,
         altered |-> {e.id : e \in {x \in Versions(c) :
                        x.change = "SET_COMMENT" /\ ~IsTransactionLocal(x.id)}}]

\* A schema that the transaction drops is on the path of what the other created.
SchemaSubtreeConflictCheck(mine, other) ==
    \E dropped \in mine.dropped_keys :
        \/ \E key \in other.created_schemas : IsPrefix(dropped, key)
        \/ \E x \in other.created : IsPrefix(dropped, x[1])

\* What the transaction creates: a name that the other created as well, or a
\* schema inside one that the other dropped.
CreatedConflictCheck(mine, other) ==
    \/ mine.created_schemas \cap other.created_schemas # {}
    \/ mine.created_parents \cap other.dropped_schemas # {}
    \/ mine.created \cap other.created # {}
    \/ mine.created_in \cap other.dropped_schemas # {}

\* (mutation) Only an entry of the same name in the dropped schema conflicts.
CheckWithoutSubtree(mine, other) ==
    \/ mine.dropped \cap other.dropped # {}
    \/ mine.dropped_schemas \cap other.dropped_schemas # {}
    \/ CreatedConflictCheck(mine, other)
    \/ mine.altered \cap (other.dropped \cup other.altered) # {}
    \/ mine.renamed \cap (other.dropped \cup other.altered) # {}

CheckForConflicts(mine, other) ==
    \/ mine.dropped \cap other.dropped # {}
    \/ mine.dropped_schemas \cap other.dropped_schemas # {}
    \/ SchemaSubtreeConflictCheck(mine, other)
    \/ CreatedConflictCheck(mine, other)
    \/ mine.altered \cap (other.dropped \cup other.altered) # {}
    \/ mine.renamed \cap (other.dropped \cup other.altered) # {}

\* Whether a commit takes a new schema version.
SchemaChangesMade(t) ==
    \/ DOMAIN t.local # {} \/ t.dropped # {}
    \/ t.new_schemas # {} \/ t.dropped_schemas # {}

----------------------------------------------------------------------------
(* Commit.                                                                 *)

\* UPDATE ... SET end_snapshot WHERE end_snapshot IS NULL AND id IN ids
FlushDrop(rows, ids, k) ==
    {IF r.id \in ids /\ r.end = Live THEN [r EXCEPT !.end = k] ELSE r : r \in rows}

\* Catalog ids for the local ids: schemas in the order of their depth, then
\* the chains that hold a created entry.
CommittedIds(c) ==
    LET first == snapshots[Latest].next_catalog_id
        ids == SetToSortSeq({s.id : s \in txn[c].new_schemas}, <) \o
               SetToSortSeq({e.id : e \in {x \in Versions(c) : x.change = "CREATED"}}, <)
        position(i) == CHOOSE n \in DOMAIN ids : ids[n] = i
    IN  [i \in ToSet(ids) |-> first + position(i) - 1]

Remap(ids, id) == IF id \in DOMAIN ids THEN ids[id] ELSE id

GetNewSchemas(c, ids, k) ==
    {[id |-> ids[s.id], parent |-> Remap(ids, s.parent), name |-> s.name, begin |-> k, end |-> Live] :
        s \in txn[c].new_schemas}

\* (mutation) A later rename does not patch the row that was emitted.
EmittedRowFirstName(chain) ==
    LET named == SelectSeq(chain, LAMBDA e : e.change \in {"CREATED", "RENAMED"})
    IN  IF named = << >> THEN {} ELSE {Last(named)}

\* The row that a chain emits: at its first created or renamed version, its
\* name patched by the later renames.
EmittedRow(chain) ==
    LET named == SelectSeq(chain, LAMBDA e : e.change \in {"CREATED", "RENAMED"})
    IN  IF named = << >> THEN {} ELSE {Head(named)}

Chains(c) == {txn[c].local[key] : key \in DOMAIN txn[c].local}

GetNewTables(c, ids, k) ==
    {[id |-> Remap(ids, e.id), kind |-> e.kind, schema |-> Remap(ids, e.schema), name |-> e.name,
      begin |-> k, end |-> Live] : e \in UNION {EmittedRow(chain) : chain \in Chains(c)}}

\* The last comment of a chain is the one that is written.
NewTags(c) ==
    UNION {LET commented == SelectSeq(chain, LAMBDA e : e.change = "SET_COMMENT")
           IN  IF commented = << >> THEN {} ELSE {Head(commented)} : chain \in Chains(c)}

WriteNewTags(rows, new, ids, k) ==
    FlushDrop(rows, {Remap(ids, e.id) : e \in new}, k) \cup
    {[id |-> Remap(ids, e.id), comment |-> e.comment, begin |-> k, end |-> Live] : e \in new}

\* (mutation) Dropping takes no new schema version.
NextVersionUnlessDropped(t) ==
    SchemaVersion(Latest) + (IF DOMAIN t.local # {} \/ t.new_schemas # {} THEN 1 ELSE 0)

NextSchemaVersion(t) == SchemaVersion(Latest) + (IF SchemaChangesMade(t) THEN 1 ELSE 0)

CommitChanges(c) ==
    LET t == txn[c]
        k == Latest + 1
        ids == CommittedIds(c)
    IN  /\ schemas' = FlushDrop(schemas, t.dropped_schemas, k) \cup GetNewSchemas(c, ids, k)
        /\ entries' = FlushDrop(entries, t.dropped \cup t.renamed, k) \cup GetNewTables(c, ids, k)
        /\ tags' = WriteNewTags(FlushDrop(tags, t.dropped, k), NewTags(c), ids, k)
        /\ snapshots' = Append(snapshots,
              [schema_version |-> NextSchemaVersion(t),
               next_catalog_id |-> snapshots[Latest].next_catalog_id + Cardinality(DOMAIN ids),
               changes |-> GetTransactionChanges(c)])

Conflicts(c) ==
    \E k \in txn[c].snap + 1 .. Latest :
        CheckForConflicts(GetTransactionChanges(c), snapshots[k].changes)

Commit(c) ==
    /\ txn[c].active /\ Latest < MaxSnapshot
    /\ SchemaChangesMade(txn[c])
    /\ ~Conflicts(c)
    /\ CommitChanges(c)
    /\ txn' = [txn EXCEPT ![c] = [NoTransaction EXCEPT !.runs = txn[c].runs]]
    /\ UNCHANGED cache

\* ROLLBACK, a conflict, or a transaction that changed nothing.
Rollback(c) ==
    /\ txn[c].active
    /\ txn' = [txn EXCEPT ![c] = [NoTransaction EXCEPT !.runs = txn[c].runs]]
    /\ UNCHANGED <<schemas, entries, tags, snapshots, cache>>

----------------------------------------------------------------------------
(* The specification.                                                      *)

NoChanges ==
    [dropped |-> {}, dropped_schemas |-> {}, dropped_keys |-> {}, created_schemas |-> {},
     created_parents |-> {}, created |-> {}, created_in |-> {}, renamed |-> {}, altered |-> {}]

\* Another process commits rows: the schema version stays.
CommitData ==
    /\ Latest < MaxSnapshot
    /\ snapshots' = Append(snapshots, [snapshots[Latest] EXCEPT !.changes = NoChanges])
    /\ UNCHANGED <<schemas, entries, tags, cache, txn>>

\* A lake that has been used a little: its main schema, a second schema, and
\* a table in that one.
Init ==
    LET name == CHOOSE x \in SchemaNames : TRUE
        entryName == CHOOSE x \in Names : TRUE
    IN
        /\ schemas = {[id |-> 0, parent |-> NoParent, name |-> "main", begin |-> 1, end |-> Live],
                      [id |-> 1, parent |-> NoParent, name |-> name, begin |-> 1, end |-> Live]}
        /\ entries = {[id |-> 2, kind |-> "table", schema |-> 1, name |-> entryName,
                       begin |-> 1, end |-> Live]}
        /\ tags = {}
        /\ snapshots = <<[schema_version |-> 1, next_catalog_id |-> 3, changes |-> NoChanges]>>
        /\ cache = << >>
        /\ txn = [c \in Clients |-> NoTransaction]

SchemaStep(c) ==
    \/ \E name \in SchemaNames : CreateSchema(c, NoParent, name)
    \/ \E s \in VisibleSchemas(c), name \in SchemaNames : CreateSchema(c, s.id, name)
    \/ \E s \in VisibleSchemas(c), cascade \in BOOLEAN : DropSchema(c, s, cascade)

EntryStep(c) ==
    \E s \in VisibleSchemas(c) :
        \/ \E kind \in Kinds, name \in Names, replace \in BOOLEAN : CreateEntry(c, s, kind, name, replace)
        \/ \E e \in Scan(c, s.id) :
              \/ DropStatement(c, s, e)
              \/ \E name \in Names : RenameEntry(c, s, e, name)
              \/ \E comment \in Comments : AlterEntry(c, s, e, comment)

Next ==
    \/ CommitData
    \/ \E k \in 1 .. Latest : TimeTravel(k)
    \/ \E c \in Clients :
          \/ Begin(c) \/ Commit(c) \/ Rollback(c)
          \/ txn[c].active /\ txn[c].ops < MaxOps[c] /\ (SchemaStep(c) \/ EntryStep(c))

CatalogSpec == Init /\ [][Next]_catalogVars

----------------------------------------------------------------------------
(* Properties.                                                             *)

\* In every snapshot, with whatever was committed concurrently, each schema's
\* parent and each entry's schema exist, and a name is used once: otherwise the
\* load of the catalog fails ("could not find schema that corresponds to the
\* table entry") or one of two entries hides the other.  The commit only
\* compares the summaries of two transactions, by id and by path.
CatalogWellFormed ==
    \A k \in 1 .. Latest :
        LET ss == AtSnapshot(schemas, k)
            es == AtSnapshot(entries, k)
            ids == {s.id : s \in ss}
        IN  /\ \A s \in ss : s.parent \in ids \cup {NoParent}
            /\ \A e \in es : e.schema \in ids
            /\ \A r, s \in ss : (r.id = s.id \/ <<r.parent, r.name>> = <<s.parent, s.name>>) => r = s
            /\ \A e, f \in es :
                  (e.id = f.id \/ <<NameSpace(e.kind), e.schema, e.name>>
                                   = <<NameSpace(f.kind), f.schema, f.name>>) => e = f

\* A catalog that is cached under a schema version is the catalog of every
\* snapshot with that version, whichever of them it was loaded for and
\* whatever has been committed since: every change of the catalog takes a new
\* version, and rows of older snapshots are never rewritten.
CachedSchemaIsCurrent ==
    \A k \in 1 .. Latest :
        SchemaVersion(k) \in DOMAIN cache => cache[SchemaVersion(k)] = LoadSchemaForSnapshot(k)

\* The id under which an entry of the transaction is committed.
PublishedId(c, e) == Remap(CommittedIds(c), e.id)

\* A chain's last version stands in the new snapshot: its place if the chain
\* created or renamed it, its comment if the chain set or created it, and what
\* the chain left alone as the last snapshot before the commit has it.
ChainPublished(c, chain, before, after) ==
    LET e == Head(chain)
        did(changes) == \E n \in DOMAIN chain : chain[n].change \in changes
    IN  \E f \in after.entries :
          /\ f.id = PublishedId(c, e) /\ f.kind = e.kind
          /\ PathKey(after.schemas, f.schema) = PathKey(KnownSchemas(c), e.schema)
          /\ IF did({"CREATED", "RENAMED"}) THEN f.name = e.name
             ELSE \E g \in before.entries : g.id = e.id /\ g.name = f.name
          /\ IF did({"CREATED", "SET_COMMENT"}) THEN f.comment = e.comment
             ELSE \E g \in before.entries : g.id = e.id /\ g.comment = f.comment

Touched(c) == txn[c].dropped \cup {e.id : e \in Versions(c)}

\* What a commit publishes is what the transaction saw of everything it
\* touched, and the last snapshot's state of everything else; nothing more
\* appears and nothing else disappears.  The transaction sees the newest
\* versions of its chains while the commit replays them from the oldest.
CommitPublishesView ==
    [][\A c \in Clients :
         txn[c].active /\ ~txn'[c].active /\ Latest' > Latest =>
            LET before == LoadSchemaForSnapshot(Latest)
                after == LoadSchemaForSnapshot(Latest)'
                untouched == {f \in before.entries : f.id \notin Touched(c)}
                keys(rows, ss) == {PathKey(rows, s.id) : s \in ss}
            IN  /\ \A chain \in Chains(c) : ChainPublished(c, chain, before, after)
                /\ untouched \subseteq after.entries
                /\ Cardinality(after.entries) = Cardinality(untouched) + Cardinality(Chains(c))
                /\ keys(after.schemas, after.schemas) =
                      keys(before.schemas, {s \in before.schemas : s.id \notin txn[c].dropped_schemas})
                      \cup keys(KnownSchemas(c), txn[c].new_schemas)]_catalogVars
============================================================================
