------------------------- MODULE MaterializedViews -------------------------
(***************************************************************************)
(* A materialized view over the tables of a lake.                          *)
(*                                                                         *)
(* The view's rows live in a backing table that a refresh rewrites inside  *)
(* the client's transaction, and a row of ducklake_materialized_view keeps *)
(* the snapshot the contents were computed at.  A refresh applies the      *)
(* change feed since that snapshot to the stored rows (delta), recomputes  *)
(* the groups the feed names (incremental, join_incremental) or evaluates  *)
(* the definition afresh (full).  Base tables move on between the moment a *)
(* refresh reads them and the moment it commits, and the transaction may   *)
(* have changed them itself.                                               *)
(*                                                                         *)
(* Until it commits a transaction sees only its snapshot and its own       *)
(* changes, and nobody sees it.  The clients' interleavings are therefore  *)
(* those of one transaction after the other, in the order of the commits,  *)
(* each of which began at any snapshot committed so far.                   *)
(***************************************************************************)
EXTENDS Integers, FiniteSets, Sequences, FiniteSetsExt

CONSTANTS
    Keys,          \* values of the grouping column, a set of numbers above 0
    Row,           \* the rows that fact may hold: a key and a number, 0 for NULL
    Pinned,        \* rows of the first snapshot, which no client deletes
    Definitions,   \* the definitions tried for the view, a subset of Definition
    MaxSnapshot,   \* bound on the snapshots
    MaxWrites,     \* bound on a transaction's changes besides those of the view
    MaxRefreshes,  \* bound on the refreshes in a transaction
    ViewIdsShift   \* whether a view may get another id on a retry than on the first attempt

Null == -1

\* shape: one base table, an inner equijoin of fact and dim, or anything else (no GROUP BY,
\* HAVING, LIMIT...).  filter: the aggregates have a FILTER clause.
Definition ==
    [aggs : SUBSET {"COUNT_STAR", "COUNT", "SUM", "AVG", "MAX"} \ {{}},
     shape : {"single", "join", "other"}, filter : BOOLEAN]

ASSUME MaterializedViewConstants ==
    /\ Keys \subseteq Nat \ {0} /\ Row \subseteq Keys \X Nat /\ Pinned \subseteq Row
    /\ Definitions \subseteq Definition

VARIABLES
    def,      \* the definition of the view
    history,  \* the snapshots, the last is current
    txn       \* the transaction that commits next

vars == <<def, history, txn>>

Latest == Len(history)

\* Objects of the catalog have ids; fact and dim are the first two.
Fact == 1
Dim == 2
FirstId == 3
LocalId == 1000   \* the transaction-local id of a view
GoneId == 1001    \* that of a view which its own transaction dropped again

CR == INSTANCE ConflictRules WITH Tables <- 1..LocalId

\* A row of ducklake_materialized_view; id 0: there is none.
NoView == [id |-> 0, last |-> 0, wrote |-> FALSE]
View == [id : Nat, last : Nat, wrote : BOOLEAN]
\* The view and its backing table have two ids, allocated one after the other.
BackingTable(id) == id - 1

Nothing == [r \in Row |-> 0]
PlusRow(bag, r) == [bag EXCEPT ![r] = @ + 1]
MinusRow(bag, r) == [bag EXCEPT ![r] = @ - 1]
Plus(b1, b2) == [r \in Row |-> b1[r] + b2[r]]
Minus(b1, b2) == [r \in Row |-> b1[r] - b2[r]]
Total(bag) == MapThenSumSet(LAMBDA r : bag[r], Row)

----------------------------------------------------------------------------
(* What a definition computes. *)

\* The group of a fact row: its key, or what the dim row of that key says; 0: no dim row.
GroupOf(d, dim, r) == IF d.shape = "join" THEN dim[r[1]] ELSE r[1]

OfGroup(d, dim, bag, g) == [r \in Row |-> IF GroupOf(d, dim, r) = g THEN bag[r] ELSE 0]
GroupsIn(d, dim, bag) == {GroupOf(d, dim, r) : r \in {x \in Row : bag[x] # 0}} \ {0}

NonNull(bag) == [r \in Row |-> IF r[2] = 0 THEN 0 ELSE bag[r]]
SumOf(bag) == MapThenSumSet(LAMBDA r : r[2] * bag[r], Row)
MaxOf(bag) ==
    LET seen == {r[2] : r \in {x \in Row : x[2] # 0 /\ bag[x] > 0}}
    IN IF seen = {} THEN Null ELSE Max(seen)

\* The aggregates of one group.  An AVG is kept as the pair that it is the quotient of.
Aggregate(d, bag) ==
    LET b == IF d.filter THEN [r \in Row |-> IF r[2] = 1 THEN 0 ELSE bag[r]] ELSE bag
        n == Total(NonNull(b))
    IN [a \in d.aggs |->
          CASE a = "COUNT_STAR" -> Total(b)
            [] a = "COUNT" -> n
            [] a = "SUM" -> IF n = 0 THEN Null ELSE SumOf(b)
            [] a = "AVG" -> <<SumOf(b), n>>
            [] a = "MAX" -> MaxOf(b)]

\* The rows of the view: its groups, each with its aggregates.
Evaluate(d, fact, dim) ==
    [g \in GroupsIn(d, dim, fact) |-> Aggregate(d, OfGroup(d, dim, fact, g))]

----------------------------------------------------------------------------
(* The analysis of a definition. *)

\* Every SUM and AVG has the COUNT, every AVG the SUM, of its argument.
HasDerivedState(d) ==
    /\ {"SUM", "AVG"} \cap d.aggs # {} => "COUNT" \in d.aggs
    /\ "AVG" \in d.aggs => "SUM" \in d.aggs

JoinEligible(d) == d.shape = "join"
Eligible(d) == d.shape \in {"single", "join"}
StateSafe(d) ==
    /\ d.shape = "single" /\ ~d.filter
    /\ "COUNT_STAR" \in d.aggs
    /\ HasDerivedState(d)
DeltaEligible(d) == StateSafe(d) /\ "MAX" \notin d.aggs
ConditionalDeltaEligible(d) == StateSafe(d) /\ "MAX" \in d.aggs

----------------------------------------------------------------------------
(* Snapshots and what a transaction sees. *)

Snapshot(s) == history[s]

\* A file of a backing table holds the rows that one refresh wrote.
LiveFiles(s, id) == {f \in Snapshot(s).files : f.view = id}

NoTxn ==
    [active |-> FALSE, snapshot |-> 0, ins |-> Nothing, del |-> Nothing, dim |-> <<>>, writes |-> 0,
     creates |-> 0, view |-> NoView, dropped |-> {}, retired |-> FALSE, file |-> <<>>, refreshes |-> <<>>]

Visible(t) == Minus(Plus(Snapshot(t.snapshot).fact, t.ins), t.del)
WroteFact(t) == t.ins # Nothing \/ t.del # Nothing
WroteDim(t) == t.dim # Snapshot(t.snapshot).dim

\* HasAnyLocalChanges of a dependency of the view.
LocalDependenciesDirty(t) == WroteFact(t) \/ (def.shape = "join" /\ WroteDim(t))

\* What the transaction reads from the backing table.
ViewRows(t) ==
    IF t.file # <<>> THEN t.file[1]
    ELSE IF t.retired \/ LiveFiles(t.snapshot, t.view.id) = {} THEN <<>>
    ELSE (CHOOSE f \in LiveFiles(t.snapshot, t.view.id) : TRUE).rows

\* The kinds of changes that make a dependency count as changed.
DataChanges == {"inserted_into_table", "deleted_from_table", "altered_table", "dropped_table",
                "inlined_insert", "inlined_delete"}

MaterializedViewDependenciesChanged(tables, start, end) ==
    \E s \in start + 1 .. end : \E x \in Snapshot(s).changes : x[1] \in DataChanges /\ x[2] \in tables

Dependencies == IF def.shape = "join" THEN {Fact, Dim} ELSE {Fact}

----------------------------------------------------------------------------
(* The change feed and the three ways to use it. *)

Inserted(start, end) ==
    [r \in Row |-> MapThenSumSet(LAMBDA s : Snapshot(s).ins[r], start..end)]
Deleted(start, end) ==
    [r \in Row |-> MapThenSumSet(LAMBDA s : Snapshot(s).del[r], start..end)]

\* __mv_changed: the groups that the feed names.
ChangedKeys(dim, start, end) ==
    GroupsIn(def, dim, Plus(Inserted(start, end), Deleted(start, end)))

Coalesce(x) == IF x = Null THEN 0 ELSE x
Greatest(x, y) == Max({x, y})   \* ignores NULL

\* A group without a stored row joins as NULLs.
StoredAggregate(rows, g) ==
    IF g \in DOMAIN rows THEN rows[g] ELSE [a \in def.aggs |-> IF a = "AVG" THEN <<0, 0>> ELSE Null]

\* __invalid: a deleted value may have been the maximum that the delta would leave.
ExtremumDeleted(old, ins, del) ==
    \E r \in Row :
        /\ del[r] > 0
        /\ LET v == IF r[2] = 0 THEN Null ELSE r[2]
           IN \/ v = old["MAX"]
              \/ v # Null /\ v >= Greatest(old["MAX"], MaxOf(ins))

\* updated_select: the stored aggregates of a group combined with the signed feed.
Updated(old, ins, del) ==
    LET cdc == Minus(ins, del)
        n == Coalesce(old["COUNT"]) + Total(NonNull(cdc))
        sum == Coalesce(old["SUM"]) + SumOf(cdc)
        new == MaxOf(ins)
    IN [a \in def.aggs |->
          CASE a = "COUNT_STAR" -> Coalesce(old[a]) + Total(cdc)
            [] a = "COUNT" -> n
            [] a = "SUM" -> IF n > 0 THEN sum ELSE Null
            [] a = "AVG" -> IF n > 0 THEN <<sum, n>> ELSE <<0, 0>>
            [] a = "MAX" -> IF new = Null THEN old[a] ELSE Greatest(old[a], new)]

\* SELECT kept UNION ALL SELECT updated UNION ALL SELECT rebuild
BuildDeltaRefreshSQL(t, start, end) ==
    LET rows == ViewRows(t)
        ins == Inserted(start, end)
        del == Deleted(start, end)
        changed == ChangedKeys(t.dim, start, end)
        kept == [g \in DOMAIN rows \ changed |-> rows[g]]
        InsOf(g) == OfGroup(def, t.dim, ins, g)
        DelOf(g) == OfGroup(def, t.dim, del, g)
        invalid == {g \in changed : /\ ConditionalDeltaEligible(def)
                                    /\ ExtremumDeleted(StoredAggregate(rows, g), InsOf(g), DelOf(g))}
        deltas == [g \in changed \ invalid |-> Updated(StoredAggregate(rows, g), InsOf(g), DelOf(g))]
        updated == [g \in {x \in DOMAIN deltas : deltas[x]["COUNT_STAR"] # 0} |-> deltas[g]]
        base == Evaluate(def, Visible(t), t.dim)
        rebuild == [g \in invalid \cap DOMAIN base |-> base[g]]
    IN [g \in UNION {DOMAIN kept, DOMAIN updated, DOMAIN rebuild} |->
          IF g \in DOMAIN kept THEN kept[g] ELSE IF g \in DOMAIN updated THEN updated[g] ELSE rebuild[g]]

\* The rows of untouched groups with the touched ones evaluated again.
BuildIncrementalRefreshSQL(t, start, end) ==
    LET rows == ViewRows(t)
        changed == ChangedKeys(t.dim, start, end)
        kept == DOMAIN rows \ changed
        base == Evaluate(def, Visible(t), t.dim)
    IN [g \in kept \cup (changed \cap DOMAIN base) |-> IF g \in kept THEN rows[g] ELSE base[g]]

\* The same over a join: the feed of fact is joined with dim to find the touched groups.
BuildJoinIncrementalRefreshSQL(t, start, end) == BuildIncrementalRefreshSQL(t, start, end)

----------------------------------------------------------------------------
(* Statements of a transaction. *)

\* The first transaction made the tables, the second the view.
MVInit ==
    /\ def \in Definitions
    /\ LET first == [fact |-> [r \in Row |-> IF r \in Pinned THEN 1 ELSE 0], ins |-> Nothing, del |-> Nothing,
                     dim |-> [k \in Keys |-> k], changes |-> {}, files |-> {}, view |-> NoView, next |-> FirstId]
           id == FirstId + 1
           rows == Evaluate(def, first.fact, first.dim)
       IN history = <<first,
                      [first EXCEPT !.files = IF rows = <<>> THEN {} ELSE {[view |-> id, snapshot |-> 2, rows |-> rows]},
                                    !.view = [id |-> id, last |-> 1, wrote |-> FALSE],
                                    !.next = id + 1]>>
    /\ txn = NoTxn

SetTxn(t) ==
    /\ Latest < MaxSnapshot
    /\ txn' = t
    /\ UNCHANGED <<def, history>>

\* The row as of a snapshot.  Its stamp is updated in place, but only by a commit, which the
\* transaction of the metadata database that read the snapshot does not see.
LoadMaterializedViews(s) == Snapshot(s).view

Begin ==
    /\ ~txn.active
    /\ \E s \in 1..Latest :
          SetTxn([NoTxn EXCEPT !.active = TRUE, !.snapshot = s, !.dim = Snapshot(s).dim,
                               !.view = LoadMaterializedViews(s)])

Write(t) ==
    /\ txn.active /\ t.writes < MaxWrites
    /\ SetTxn([t EXCEPT !.writes = @ + 1])

InsertRow == \E r \in Row : Write([txn EXCEPT !.ins = PlusRow(@, r)])

\* A row of this transaction leaves its local file; a committed one is deleted.
DeleteRow ==
    \E r \in Row :
        /\ txn.active
        /\ Visible(txn)[r] > (IF r \in Pinned THEN 1 ELSE 0)
        /\ Write(IF txn.ins[r] > 0 THEN [txn EXCEPT !.ins = MinusRow(@, r)] ELSE [txn EXCEPT !.del = PlusRow(@, r)])

\* An UPDATE or DELETE of the dim row of a key, or its INSERT.
UpdateDim ==
    /\ def.shape = "join" /\ txn.active
    /\ \E k \in Keys, g \in Keys \cup {0} :
          /\ txn.dim[k] # g
          /\ g = 0 => k \notin {r[1] : r \in Pinned}
          /\ Write([txn EXCEPT !.dim[k] = g])

\* CREATE of another entry of the catalog.
CreateOther == Write([txn EXCEPT !.creates = @ + 1])

\* DuckLakeMVRefresh::Finalize: the new rows replace what the transaction wrote before and the
\* files that it sees; no file is written for no rows.
RefreshFinalize(t, rows) ==
    [t EXCEPT !.file = <<rows>>,
              !.retired = TRUE,
              !.refreshes = Append(@, [id |-> t.view.id, source |-> t.snapshot, wrote |-> LocalDependenciesDirty(t)])]

\* The operator makes the backing table and stages the row when the plan runs.
CreatedView(t) == [t EXCEPT !.view = [id |-> LocalId, last |-> t.snapshot, wrote |-> FALSE]]

CreateMaterializedView ==
    /\ txn.active /\ txn.view.id = 0 /\ Len(txn.refreshes) < MaxRefreshes
    /\ SetTxn(RefreshFinalize(CreatedView(txn), Evaluate(def, Visible(txn), txn.dim)))

\* RefreshMaterializedViewBind: which of the four ways.
RefreshRows(t, forced) ==
    LET start == t.view.last + 1
        joinIncremental ==
            /\ ~forced /\ JoinEligible(def) /\ ~WroteFact(t)
            /\ ~MaterializedViewDependenciesChanged({Dim}, t.view.last, t.snapshot)
            /\ MaterializedViewDependenciesChanged({Fact}, t.view.last, t.snapshot)
        incremental == ~forced /\ Eligible(def) /\ ~JoinEligible(def) /\ ~WroteFact(t)
        delta == (DeltaEligible(def) \/ ConditionalDeltaEligible(def)) /\ ~t.view.wrote
    IN IF incremental /\ delta THEN BuildDeltaRefreshSQL(t, start, t.snapshot)
       ELSE IF incremental THEN BuildIncrementalRefreshSQL(t, start, t.snapshot)
       ELSE IF joinIncremental THEN BuildJoinIncrementalRefreshSQL(t, start, t.snapshot)
       ELSE Evaluate(def, Visible(t), t.dim)

RefreshMaterializedView(if_stale) ==
    LET source_changed == \/ LocalDependenciesDirty(txn)
                          \/ MaterializedViewDependenciesChanged(Dependencies, txn.view.last, txn.snapshot)
    IN /\ txn.active /\ txn.view.id # 0 /\ Len(txn.refreshes) < MaxRefreshes
       /\ if_stale => source_changed
       /\ SetTxn(RefreshFinalize(txn, RefreshRows(txn, ~if_stale /\ ~source_changed)))

\* Dropping the backing table drops the view, and the other way round.  A staged refresh stays staged.
DropTable(t) ==
    [t EXCEPT !.view = NoView, !.file = <<>>, !.retired = FALSE,
              !.dropped = IF t.view.id = LocalId THEN @ ELSE @ \cup {t.view.id},
              !.refreshes = [i \in DOMAIN @ |-> IF @[i].id = LocalId THEN [@[i] EXCEPT !.id = GoneId] ELSE @[i]]]

DropMaterializedView == txn.active /\ txn.view.id # 0 /\ SetTxn(DropTable(txn))

----------------------------------------------------------------------------
(* Commit. *)

NewRows(t) == t.view.id # 0 /\ t.file # <<>> /\ t.file[1] # <<>>
RetiredFiles(t) == IF t.retired /\ t.view.id # LocalId THEN LiveFiles(t.snapshot, t.view.id) ELSE {}

Changes(t) ==
    LET If(b, x) == IF b THEN {x} ELSE {}
        backing == BackingTable(t.view.id)
    IN UNION {If(t.ins # Nothing, <<"inserted_into_table", Fact>>),
              If(t.del # Nothing, <<"deleted_from_table", Fact>>),
              If(WroteDim(t), <<"inserted_into_table", Dim>>),
              If(WroteDim(t), <<"deleted_from_table", Dim>>),
              If(NewRows(t) /\ t.view.id # LocalId, <<"inserted_into_table", backing>>),
              If(RetiredFiles(t) # {}, <<"deleted_from_table", backing>>),
              CR!Changed("dropped_table", {BackingTable(id) : id \in t.dropped})}

HasChanges(t) ==
    \/ Changes(t) # {} \/ t.creates > 0 \/ t.refreshes # <<>>

\* Rows of one kind share a data file, so two deletions of the same kind of row meet.
DeletedFromFiles(t, s) ==
    \/ \E r \in Row : t.del[r] > 0 /\ Snapshot(s).del[r] > 0
    \/ WroteDim(t) /\ <<"deleted_from_table", Dim>> \in Snapshot(s).changes
    \/ RetiredFiles(t) \ Snapshot(s).files # {}

\* Two transactions made the view, or another entry, under one name.
CreatedMeanwhile(t, s) == t.view.id = LocalId /\ Snapshot(s).view.id # Snapshot(t.snapshot).view.id

\* (mutation) Concurrent refreshes are not compared.
ConflictUnlessBase(t, s) ==
    LET mine == {x \in Changes(t) : x[2] \in {Fact, Dim}}
    IN CR!ConflictCheck(mine, Snapshot(s).changes) \/ CreatedMeanwhile(t, s)

Conflict(t, s) ==
    \/ CR!ConflictCheck(Changes(t), Snapshot(s).changes)
    \/ DeletedFromFiles(t, s)
    \/ CreatedMeanwhile(t, s)

\* The ids that the entries of a transaction get when a commit is tried on snapshot s: first the
\* other entries and the backing table, then the view.
NewViewId(t, s) == Snapshot(s).next + t.creates + 1

\* The first attempt replaces the local id in the staged refreshes; a retry finds no local id there.
RemapIdentifier(t, id) == IF id = LocalId THEN NewViewId(t, t.snapshot) ELSE id

\* (mutation) The commit snapshot is stamped.
StampCommitSnapshot(t, view) ==
    LET mine == SelectSeq(t.refreshes, LAMBDA x : RemapIdentifier(t, x.id) = view.id)
    IN IF mine = <<>> THEN view
       ELSE [view EXCEPT !.last = Latest + 1, !.wrote = mine[Len(mine)].wrote]

\* (mutation) Refreshes are not told apart by what their transactions wrote.
StampWithoutFlag(t, view) ==
    LET mine == SelectSeq(t.refreshes, LAMBDA x : RemapIdentifier(t, x.id) = view.id)
    IN IF mine = <<>> THEN view ELSE [view EXCEPT !.last = mine[Len(mine)].source, !.wrote = FALSE]

\* The staged refreshes are applied to the row in the order of the statements.
UpdateMaterializedViewRefreshes(t, view) ==
    LET mine == SelectSeq(t.refreshes, LAMBDA x : RemapIdentifier(t, x.id) = view.id)
    IN IF mine = <<>> THEN view
       ELSE [view EXCEPT !.last = mine[Len(mine)].source, !.wrote = mine[Len(mine)].wrote]

\* A new view is stamped with the commit snapshot until the staged refresh corrects it.
WriteNewMaterializedViews(t) == [id |-> NewViewId(t, Latest), last |-> Latest + 1, wrote |-> FALSE]

CommittedView(t) ==
    IF t.view.id = LocalId THEN WriteNewMaterializedViews(t)
    ELSE IF Snapshot(Latest).view.id \in t.dropped THEN NoView
    ELSE Snapshot(Latest).view

CommitSnapshot(t) ==
    LET old == Snapshot(Latest)
        view == CommittedView(t)
        written == IF NewRows(t)
                   THEN {[view |-> IF t.view.id = LocalId THEN view.id ELSE t.view.id,
                          snapshot |-> Latest + 1, rows |-> t.file[1]]}
                   ELSE {}
    IN [fact |-> Minus(Plus(old.fact, t.ins), t.del), ins |-> t.ins, del |-> t.del,
        dim |-> IF WroteDim(t) THEN t.dim ELSE old.dim,
        changes |-> CR!WriteSnapshotChanges(Changes(t)),
        files |-> (old.files \ RetiredFiles(t)) \cup written,
        view |-> UpdateMaterializedViewRefreshes(t, view),
        next |-> old.next + t.creates + (IF t.view.id = LocalId THEN 2 ELSE 0)]

Commit ==
    /\ txn.active /\ HasChanges(txn) /\ Latest < MaxSnapshot
    /\ \A s \in txn.snapshot + 1 .. Latest : ~Conflict(txn, s)
    /\ txn.view.id = LocalId /\ NewViewId(txn, txn.snapshot) # NewViewId(txn, Latest) => ViewIdsShift
    /\ history' = Append(history, CommitSnapshot(txn))
    /\ txn' = NoTxn
    /\ UNCHANGED def

\* A conflict ends the transaction without effect, as ROLLBACK would.
AbortOnConflict ==
    /\ txn.active /\ HasChanges(txn)
    /\ \E s \in txn.snapshot + 1 .. Latest : Conflict(txn, s)
    /\ SetTxn(NoTxn)

MVNext ==
    \/ Begin
    \/ InsertRow \/ DeleteRow \/ UpdateDim \/ CreateOther
    \/ CreateMaterializedView
    \/ \E if_stale \in BOOLEAN : RefreshMaterializedView(if_stale)
    \/ DropMaterializedView
    \/ Commit \/ AbortOnConflict

MVSpec == MVInit /\ [][MVNext]_vars

----------------------------------------------------------------------------
(* Staleness: is_stale of ducklake_materialized_views, and the guard of ducklake_mv_stale_read = 'error'. *)

IsStale(s) == MaterializedViewDependenciesChanged(Dependencies, Snapshot(s).view.last, s)

\* (mutation) Only committed changes make a view stale.
StaleAtSnapshot(t) ==
    /\ MaterializedViewDependenciesChanged(Dependencies, t.view.last, t.snapshot)
    /\ ~\E i \in DOMAIN t.refreshes : t.refreshes[i].id = t.view.id

VerifyMaterializedViewStaleRead(t) ==
    \/ /\ MaterializedViewDependenciesChanged(Dependencies, t.view.last, t.snapshot)
       /\ ~\E i \in DOMAIN t.refreshes : t.refreshes[i].id = t.view.id
    \/ LocalDependenciesDirty(t)

----------------------------------------------------------------------------
(* Properties. *)

\* The rows of a committed view as a function; the files must not hold a group twice.
CommittedRows(s) ==
    LET files == LiveFiles(s, Snapshot(s).view.id)
    IN IF files = {} THEN <<>> ELSE (CHOOSE f \in files : TRUE).rows

\* However refreshes overlap, the rows of the view come from one of them: no group is stored twice.
OneRefreshIsStored ==
    \A s \in 1..Latest : Cardinality(LiveFiles(s, Snapshot(s).view.id)) <= 1

\* A view that is_stale calls fresh has the rows of its definition over the current tables: no
\* change that was committed while a refresh was open is overlooked.
FreshMeansExact ==
    LET now == Snapshot(Latest) IN
    now.view.id # 0 /\ ~IsStale(Latest)
        => CommittedRows(Latest) = Evaluate(def, now.fact, now.dim)

\* Unless the refreshing transaction changed the tables itself, the stored rows are those of the
\* definition at the stamped snapshot: the feed is neither applied twice nor in part.
StampedSnapshotIsExact ==
    LET view == Snapshot(Latest).view IN
    view.id # 0 /\ ~view.wrote
        => CommittedRows(Latest) = Evaluate(def, Snapshot(view.last).fact, Snapshot(view.last).dim)

\* A read that ducklake_mv_stale_read = 'error' lets through sees what the definition would return
\* to the same transaction.
GuardedReadsAreExact ==
    txn.active /\ txn.view.id # 0 /\ ~VerifyMaterializedViewStaleRead(txn)
        => ViewRows(txn) = Evaluate(def, Visible(txn), txn.dim)
============================================================================
