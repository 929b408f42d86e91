---------------------------- MODULE TableColumns ----------------------------
(***************************************************************************)
(* The columns, keys, partitioning and sort order of one table.            *)
(*                                                                         *)
(* Every ALTER makes a new version of the table entry: the definition as   *)
(* the transaction sees it from then on, and the one change that led to    *)
(* it.  The versions of a transaction form a chain.  A commit replays the  *)
(* chain and merges the changes into the rows that it ends and inserts in  *)
(* the metadata tables: several changes of one column become one row, a    *)
(* column added and dropped again becomes none.                            *)
(*                                                                         *)
(* A column is a field; a struct has its fields below it.  A field keeps   *)
(* its id through every change, since data files refer to it by id.        *)
(*                                                                         *)
(* Concurrent changes of one table always conflict (ConflictRules), so the *)
(* transactions here follow each other.                                    *)
(***************************************************************************)
EXTENDS Naturals, Sequences, FiniteSets, SequencesExt, TLC

CONSTANTS
    Names,         \* names of columns
    FieldNames,    \* names of the fields of structs
    Defaults,      \* default values; "none" is NULL
    Comments,      \* comments of columns; "none" is NULL
    MaxOps,        \* bound on the statements of each transaction
    MaxStatements, \* bound on the statements of all transactions
    MaxSnapshot    \* bound on the number of snapshots

ASSUME DefaultsType == "none" \in Defaults /\ "none" \in Comments
ASSUME BoundsType == {MaxOps, MaxStatements, MaxSnapshot} \subseteq Nat

VARIABLES
    columns,      \* ducklake_column
    columnTags,   \* ducklake_column_tag: the comments of columns
    constraints,  \* ducklake_table_constraint
    partitions,   \* ducklake_partition_info and ducklake_partition_column
    sorts,        \* ducklake_sort_info and ducklake_sort_expression
    files,        \* ducklake_data_file: the partition spec of each file
    snapshot,     \* the latest snapshot
    nextId,       \* next_catalog_id
    txn,          \* the open transaction
    seen,         \* history: for every snapshot, the table as its transaction saw it
    statements    \* number of statements so far

metadata == <<columns, columnTags, constraints, partitions, sorts, files, snapshot, nextId>>
columnsVars == <<metadata, txn, seen, statements>>

\* end_snapshot IS NULL
Live == MaxSnapshot + 1

AtSnapshot(rows, k) == {r \in rows : r.begin <= k /\ k < r.end}

\* UPDATE ... SET end_snapshot = {SNAPSHOT_ID} WHERE ... AND end_snapshot IS NULL
End(rows, which, k) ==
    {IF r \in which /\ r.end = Live THEN [r EXCEPT !.end = k] ELSE r : r \in rows}

NoSpec == [id |-> 0, keys |-> {}]

\* The parent of a column.
Root == 0

\* DuckLakeConstants::TRANSACTION_LOCAL_ID_START
TransactionLocalIdStart == 100

(***************************************************************************)
(* Fields.  dflt is the default that the column definition holds, fdflt    *)
(* the copy of it in the field data, which is what a commit writes;        *)
(* initial is what files written before the column existed read as.        *)
(***************************************************************************)
Columns(e) == {f \in e.fields : f.parent = Root}

Children(fields, f) == {g \in fields : g.parent = f.id}

WithName(fields, n) == {f \in fields : f.name = n}

NewField(id, parent, n, type, d) ==
    [id |-> id, parent |-> parent, name |-> n, type |-> type, nullable |-> TRUE,
     dflt |-> d, fdflt |-> d, initial |-> d, comment |-> "none"]

\* FieldIdFromColumn: the new column and, for a struct, one field below it.
FieldIdFromColumn(id, parent, n, type, d) ==
    IF type = "struct"
    THEN {NewField(id, parent, n, type, "none")}
             \cup {NewField(id + 1, id, CHOOSE x \in FieldNames : TRUE, "int", "none")}
    ELSE {NewField(id, parent, n, type, d)}

Replace(fields, f, g) == (fields \ {f}) \cup {g}

MaxFieldId(rows) ==
    LET ids == {0} \cup {r.id : r \in rows}
    IN CHOOSE i \in ids : \A j \in ids : j <= i

\* GetNextColumnId: above every id that the table ever had, dropped columns included.
GetNextColumnId == MaxFieldId(columns) + 1

\* Above the ids in use now.
NextIdOfLiveColumns(e) ==
    IF e.nextColumnId = 0 THEN MaxFieldId(AtSnapshot(columns, snapshot)) + 1 ELSE e.nextColumnId

\* RequireNextColumnId: asked of the metadata once, then counted up by the entry.
RequireNextColumnId(e) == IF e.nextColumnId = 0 THEN GetNextColumnId ELSE e.nextColumnId

(***************************************************************************)
(* The table as a snapshot has it (BuildCatalogForSnapshot and             *)
(* LoadSchemaForSnapshot).  A struct has neither defaults of its own; keys *)
(* of which a column is gone are left out.                                 *)
(***************************************************************************)
NoChange == [type |-> "NONE", field |-> 0, dropped |-> {}, added |-> {}]

TransformColumn(r, k) ==
    LET comments == {t \in AtSnapshot(columnTags, k) : t.field = r.id}
    IN [id |-> r.id, parent |-> r.parent, name |-> r.name, type |-> r.type,
        nullable |-> r.nullable, dflt |-> r.dflt, fdflt |-> r.dflt, initial |-> r.initial,
        comment |-> IF comments = {} THEN "none" ELSE (CHOOSE t \in comments : TRUE).value]

LoadedKeys(k, fields) ==
    {[primary |-> c.primary, names |-> c.names] :
        c \in {c \in AtSnapshot(constraints, k) :
                  c.names \subseteq {f.name : f \in {g \in fields : g.parent = Root}}}}

\* A spec without keys has no rows in ducklake_partition_column and is not found.
LoadedSpec(k) ==
    LET specs == {p \in AtSnapshot(partitions, k) : p.keys # {}}
    IN IF specs = {} THEN NoSpec
       ELSE LET p == CHOOSE p \in specs : TRUE IN [id |-> p.id, keys |-> p.keys]

LoadedSort(k) == UNION {s.names : s \in AtSnapshot(sorts, k)}

LoadTable(k) ==
    LET fields == {TransformColumn(r, k) : r \in AtSnapshot(columns, k)}
    IN [fields |-> fields, keys |-> LoadedKeys(k, fields), part |-> LoadedSpec(k),
        sort |-> LoadedSort(k), nextColumnId |-> 0, change |-> NoChange]

\* What a user can see of an entry.
View(e) ==
    [fields |-> {[id |-> f.id, parent |-> f.parent, name |-> f.name, type |-> f.type,
                  nullable |-> f.nullable, dflt |-> f.dflt, comment |-> f.comment] : f \in e.fields},
     keys |-> e.keys, part |-> e.part.keys, sort |-> e.sort]

(***************************************************************************)
(* Statements.  An entry is turned into its next version; the guards are   *)
(* the statements' errors.                                                 *)
(***************************************************************************)
Entry == txn.chain[Len(txn.chain)]

NoTransaction == [chain |-> <<>>, files |-> {}, localId |-> TransactionLocalIdStart]

\* Alter: a statement pushes a version.
Push(e) ==
    /\ txn.chain # <<>>
    /\ Len(txn.chain) <= MaxOps
    /\ statements < MaxStatements
    /\ txn' = [txn EXCEPT !.chain = Append(@, e)]
    /\ statements' = statements + 1
    /\ UNCHANGED <<metadata, seen>>

\* The version of e with f replaced by g, by a change of type t.
WithField(e, f, g, t) ==
    [e EXCEPT !.fields = Replace(@, f, g), !.change = [NoChange EXCEPT !.type = t, !.field = f.id]]

SetNotNull ==
    \E f \in Columns(Entry) :
        /\ f.nullable
        /\ Push(WithField(Entry, f, [f EXCEPT !.nullable = FALSE], "SET_NULL"))

DropNotNull ==
    \E f \in Columns(Entry) :
        /\ ~f.nullable
        /\ Push(WithField(Entry, f, [f EXCEPT !.nullable = TRUE], "DROP_NULL"))

\* A second PRIMARY KEY and a key that is there already are errors.
AddConstraint ==
    \E primary \in BOOLEAN, names \in SUBSET {f.name : f \in Columns(Entry)} :
        LET key == [primary |-> primary, names |-> names] IN
        /\ names # {}
        /\ key \notin Entry.keys
        /\ primary => \A k \in Entry.keys : ~k.primary
        /\ Push([Entry EXCEPT !.keys = @ \cup {key},
                              !.change = [NoChange EXCEPT !.type = "ADD_CONSTRAINT"]])

RenameIn(names, old, new) == {IF n = old THEN new ELSE n : n \in names}

\* The keys and the sort order follow the column.
RenamedColumn(e, f, new) ==
    [WithField(e, f, [f EXCEPT !.name = new], "RENAME_COLUMN")
        EXCEPT !.keys = {[k EXCEPT !.names = RenameIn(@, f.name, new)] : k \in e.keys},
               !.sort = RenameIn(@, f.name, new)]

RenameColumn ==
    \E f \in Columns(Entry), new \in Names :
        /\ WithName(Columns(Entry), new) = {}
        /\ Push(RenamedColumn(Entry, f, new))

AddColumn ==
    \E n \in Names, type \in {"int", "struct"}, d \in Defaults :
        LET id == RequireNextColumnId(Entry)
            added == FieldIdFromColumn(id, Root, n, type, d) IN
        /\ WithName(Columns(Entry), n) = {}
        /\ type = "struct" => d = "none"
        /\ Push([Entry EXCEPT !.fields = @ \cup added,
                              !.nextColumnId = id + Cardinality(added),
                              !.change = [NoChange EXCEPT !.type = "ADD_COLUMN", !.field = id,
                                                          !.added = added]])

\* The last column, and those of the partitioning and the sort order, stay.  Keys
\* that use the column go with it.
RemoveColumn ==
    \E f \in Columns(Entry) :
        LET gone == {f} \cup Children(Entry.fields, f) IN
        /\ Cardinality(Columns(Entry)) > 1
        /\ f.id \notin Entry.part.keys
        /\ f.name \notin Entry.sort
        /\ Push([Entry EXCEPT !.fields = @ \ gone,
                              !.keys = {k \in @ : f.name \notin k.names},
                              !.change = [NoChange EXCEPT !.type = "REMOVE_COLUMN", !.field = f.id,
                                                          !.dropped = {g.id : g \in gone}]])

\* Only widening promotions are allowed.
TypePromotionIsAllowed(source, target) == source = "int" /\ target = "bigint"

\* TypePromotion of a field that is not nested: the field data of the new version
\* has no defaults.  The row to write takes them from the version before, unless
\* the field is below a struct.
TypePromotion(f, target) ==
    [field |-> [f EXCEPT !.type = target, !.fdflt = "none", !.initial = "none"],
     row |-> IF f.parent = Root THEN [f EXCEPT !.type = target]
             ELSE [NewField(f.id, f.parent, f.name, target, "none") EXCEPT !.nullable = TRUE]]

ChangedType(e, fields, nextColumnId, dropped, added) ==
    [e EXCEPT !.fields = fields,
              !.nextColumnId = nextColumnId,
              !.change = [NoChange EXCEPT !.type = "CHANGE_COLUMN_TYPE",
                                          !.dropped = dropped, !.added = added]]

ChangeColumnType ==
    \E f \in Columns(Entry) :
        LET promoted == TypePromotion(f, "bigint") IN
        /\ TypePromotionIsAllowed(f.type, "bigint")
        /\ Push(ChangedType(Entry, Replace(Entry.fields, f, promoted.field), Entry.nextColumnId,
                            {f.id}, {promoted.row}))

\* GetNestedEvolution: ALTER TYPE of a struct to one with the fields that target
\* names: fields missing there are dropped, new ones added, the others promoted.
GetNestedEvolution(e, f, target) ==
    LET source == Children(e.fields, f)
        next == RequireNextColumnId(e)
        dropped == {g \in source : g.name \notin DOMAIN target}
        promoted == {g \in source : g.name \in DOMAIN target /\ g.type # target[g.name]}
        new == SetToSeq({n \in DOMAIN target : WithName(source, n) = {}})
        added == {NewField(next + i - 1, f.id, new[i], target[new[i]], "none") : i \in DOMAIN new}
    IN ChangedType(e,
           (e.fields \ (dropped \cup promoted))
               \cup {TypePromotion(g, target[g.name]).field : g \in promoted} \cup added,
           next + Len(new),
           {g.id : g \in dropped \cup promoted},
           added \cup {TypePromotion(g, target[g.name]).row : g \in promoted})

EvolveStruct ==
    \E f \in Columns(Entry), names \in SUBSET FieldNames :
        /\ f.type = "struct"
        /\ names # {}
        /\ \E target \in [names -> {"int", "bigint"}] :
              LET source == Children(Entry.fields, f) IN
              /\ \A g \in source : g.name \in names =>
                    g.type = target[g.name] \/ TypePromotionIsAllowed(g.type, target[g.name])
              /\ Push(GetNestedEvolution(Entry, f, target))

AddField ==
    \E f \in Columns(Entry), n \in FieldNames, d \in Defaults :
        LET id == RequireNextColumnId(Entry)
            field == NewField(id, f.id, n, "int", d) IN
        /\ f.type = "struct"
        /\ WithName(Children(Entry.fields, f), n) = {}
        /\ Push(ChangedType(Entry, Entry.fields \cup {field}, id + 1, {}, {field}))

RemoveField ==
    \E f \in Columns(Entry) : \E g \in Children(Entry.fields, f) :
        Push(ChangedType(Entry, Entry.fields \ {g}, Entry.nextColumnId, {g.id}, {}))

\* RenameField: the row to write has the name, the type and the parent only.
RenamedField(g, new) == NewField(g.id, g.parent, new, g.type, "none")

RenameField ==
    \E f \in Columns(Entry) : \E g \in Children(Entry.fields, f), new \in FieldNames :
        /\ WithName(Children(Entry.fields, f), new) = {}
        /\ Push(ChangedType(Entry, Replace(Entry.fields, g, [g EXCEPT !.name = new]),
                            Entry.nextColumnId, {g.id}, {RenamedField(g, new)}))

SetDefault ==
    \E f \in Columns(Entry), d \in Defaults :
        /\ f.type # "struct"
        /\ Push(WithField(Entry, f, [f EXCEPT !.dflt = d, !.fdflt = d], "SET_DEFAULT"))

SetColumnComment ==
    \E f \in Columns(Entry), c \in Comments :
        Push(WithField(Entry, f, [f EXCEPT !.comment = c], "SET_COLUMN_COMMENT"))

\* BuildPartitionData gives the spec an id of the transaction.  The same keys again
\* are no change; no keys at all reset the partitioning.
SetPartitionedBy ==
    \E keys \in SUBSET {f.id : f \in Columns(Entry)} :
        /\ Cardinality(keys) <= 1
        /\ keys # Entry.part.keys
        /\ Len(txn.chain) <= MaxOps /\ statements < MaxStatements
        /\ txn' = [txn EXCEPT !.chain = Append(@, [Entry EXCEPT
                                  !.part = [id |-> txn.localId, keys |-> keys],
                                  !.change = [NoChange EXCEPT !.type = "SET_PARTITION_KEY"]]),
                              !.localId = @ + 1]
        /\ statements' = statements + 1
        /\ UNCHANGED <<metadata, seen>>

SetSortedBy ==
    \E f \in Columns(Entry), on \in BOOLEAN :
        Push([Entry EXCEPT !.sort = IF on THEN {f.name} ELSE {},
                           !.change = [NoChange EXCEPT !.type = "SET_SORT_KEY"]])

Alter ==
    /\ txn.chain # <<>>
    /\ \/ SetNotNull \/ DropNotNull \/ AddConstraint \/ RenameColumn \/ AddColumn
       \/ RemoveColumn \/ ChangeColumnType \/ EvolveStruct \/ AddField \/ RemoveField
       \/ RenameField \/ SetDefault \/ SetColumnComment \/ SetPartitionedBy \/ SetSortedBy

(***************************************************************************)
(* Transactions                                                            *)
(***************************************************************************)
\* CREATE TABLE: the ids of the columns count from one.
CreateTable ==
    /\ snapshot = 0 /\ txn.chain = <<>>
    /\ statements < MaxStatements
    /\ \E d \in Defaults : \E withStruct \in {b \in BOOLEAN : b => d = "none"} :
          LET n == CHOOSE n \in Names : TRUE
              m == CHOOSE m \in Names \ {n} : TRUE
              fields == FieldIdFromColumn(1, Root, n, "int", d) \cup
                           (IF withStruct THEN FieldIdFromColumn(2, Root, m, "struct", "none") ELSE {})
          IN
          txn' = [NoTransaction EXCEPT !.chain =
                     <<[fields |-> fields, keys |-> {}, part |-> NoSpec, sort |-> {},
                        nextColumnId |-> 1 + Cardinality(fields),
                        change |-> [NoChange EXCEPT !.type = "CREATED"]]>>]
    /\ statements' = statements + 1
    /\ UNCHANGED <<metadata, seen>>

\* Histories are followed up to the first commit of a chain that loses something.
Begin ==
    /\ txn.chain = <<>>
    /\ snapshot \in 1 .. MaxSnapshot - 1
    /\ ~seen[snapshot].lossy
    /\ statements < MaxStatements
    /\ txn' = [NoTransaction EXCEPT !.chain = <<LoadTable(snapshot)>>]
    /\ UNCHANGED <<metadata, seen, statements>>

\* INSERT: the file carries the partition spec of the entry it is written under.
\* Files without a spec are left out.
Insert ==
    /\ txn.chain # <<>>
    /\ Entry.part # NoSpec
    /\ txn.files = {}
    /\ txn' = [txn EXCEPT !.files = {Entry.part}]
    /\ UNCHANGED <<metadata, seen, statements>>

(***************************************************************************)
(* The replay of a chain (GetNewTableInfo).                                *)
(***************************************************************************)
FieldAlters == {"SET_NULL", "DROP_NULL", "RENAME_COLUMN", "SET_DEFAULT"}

\* field_alter_remaining > 0, column_comment_remaining > 0: a later version changes
\* the same field, and will write what this one changed as well.
Superseded(chain, i) ==
    \E j \in i + 1 .. Len(chain) :
        /\ chain[j].change.field = chain[i].change.field
        /\ \/ {chain[i].change.type, chain[j].change.type} \subseteq FieldAlters
           \/ chain[i].change.type = "SET_COLUMN_COMMENT" /\ chain[j].change.type = "SET_COLUMN_COMMENT"

\* ColumnToSQLRecursive: the row of a field; its default comes from the field data.
ColumnRow(f) ==
    [id |-> f.id, parent |-> f.parent, name |-> f.name, type |-> f.type, nullable |-> f.nullable,
     dflt |-> f.fdflt, initial |-> f.initial]

\* GetColumnInfo: the row of a column, without the fields below it.
GetColumnInfo(e, id) == ColumnRow(CHOOSE f \in e.fields : f.id = id)

\* An element of new_columns: the row of a field and those below it.
NewColumn(row, below) == [id |-> row.id, rows |-> {row} \cup below]

\* Every field that is dropped is ended, whoever added it.
AlwaysDropField(acc, id) == [acc EXCEPT !.dropped = @ \cup {id}]

\* A column that the transaction added itself is taken back, others are ended.
CancelOrDropField(acc, id) ==
    IF \E c \in acc.newColumns : c.id = id
    THEN [acc EXCEPT !.newColumns = {c \in @ : c.id # id}]
    ELSE [acc EXCEPT !.dropped = @ \cup {id}]

CancelOrDropFields(acc, ids) == FoldLeft(CancelOrDropField, acc, SetToSeq(ids))

\* Tags queued for a field that is really gone are discarded.
HandleChangedFields(acc, change) ==
    LET cancelled == CancelOrDropFields(acc, change.dropped)
        gone == change.dropped \ {f.id : f \in change.added}
    IN [cancelled EXCEPT !.newColumns = @ \cup {NewColumn(ColumnRow(f), {}) : f \in change.added},
                         !.tags = {t \in @ : t.field \notin gone}]

AddColumnChange(acc, change) ==
    LET root == CHOOSE f \in change.added : f.id = change.field
    IN [acc EXCEPT !.newColumns = @ \cup
           {NewColumn(ColumnRow(root), {ColumnRow(f) : f \in change.added \ {root}})}]

\* A rename also writes the sort order, which names its columns.
AlterFieldChange(acc, e) ==
    LET id == e.change.field
        cancelled == CancelOrDropField(acc, id)
    IN [cancelled EXCEPT
           !.newColumns = @ \cup {NewColumn(GetColumnInfo(e, id), {})},
           !.sorts = IF e.change.type = "RENAME_COLUMN" /\ e.sort # {} THEN Append(@, e.sort) ELSE @]

CommentChange(acc, e) ==
    LET f == CHOOSE f \in e.fields : f.id = e.change.field
    IN [acc EXCEPT !.tags = @ \cup {[field |-> f.id, value |-> f.comment]}]

ReplayVersion(acc, chain, i) ==
    LET e == chain[i] IN
    CASE e.change.type = "SET_PARTITION_KEY"  -> [acc EXCEPT !.specs = Append(@, e.part)]
      [] e.change.type = "SET_SORT_KEY"       -> [acc EXCEPT !.sorts = Append(@, e.sort)]
      [] e.change.type = "SET_COLUMN_COMMENT" -> IF Superseded(chain, i) THEN acc ELSE CommentChange(acc, e)
      [] e.change.type \in FieldAlters        -> IF Superseded(chain, i) THEN acc ELSE AlterFieldChange(acc, e)
      [] e.change.type \in {"REMOVE_COLUMN", "CHANGE_COLUMN_TYPE"} -> HandleChangedFields(acc, e.change)
      [] e.change.type = "ADD_COLUMN"         -> AddColumnChange(acc, e.change)
      [] OTHER                                -> acc

NothingNew == [newColumns |-> {}, dropped |-> {}, tags |-> {}, specs |-> <<>>, sorts |-> <<>>]

GetNewTableInfo(chain) ==
    FoldLeft(LAMBDA acc, i : ReplayVersion(acc, chain, i), NothingNew, [i \in DOMAIN chain |-> i])

ConstraintsTouched(chain) ==
    \E i \in DOMAIN chain : chain[i].change.type \in {"ADD_CONSTRAINT", "RENAME_COLUMN", "REMOVE_COLUMN", "CREATED"}

(***************************************************************************)
(* The rows that a commit writes as snapshot k.                            *)
(***************************************************************************)
Rows(set, k) == {r @@ [begin |-> k, end |-> Live] : r \in set}

\* WriteNewTables, WriteDroppedColumns and WriteNewColumns, in this order.
WriteColumns(chain, info, k) ==
    LET created == IF chain[1].change.type = "CREATED"
                   THEN Rows({ColumnRow(f) : f \in chain[1].fields}, k) ELSE {}
        before == columns \cup created
    IN End(before, {r \in before : r.id \in info.dropped}, k)
           \cup Rows(UNION {c.rows : c \in info.newColumns}, k)

\* WriteNewColumnTags and WriteExpiredColumnTags
WriteColumnTags(info, k) ==
    LET old == {t \in columnTags : \E n \in info.tags : n.field = t.field}
        written == End(columnTags, old, k) \cup Rows(info.tags, k)
        expired == info.dropped \ {c.id : c \in info.newColumns}
    IN End(written, {t \in written : t.field \in expired}, k)

\* WriteConstraintReplacements (and the keys that WriteNewTables writes)
WriteConstraints(chain, k) ==
    IF ConstraintsTouched(chain)
    THEN End(constraints, constraints, k) \cup Rows(chain[Len(chain)].keys, k)
    ELSE constraints

\* The id that GetNewPartitionKey gives to the i-th spec of the chain.
CommittedSpec(info, i) == [id |-> nextId + i - 1, keys |-> info.specs[i].keys]

\* Only the last spec of a transaction is written.
OnlyLastSpec(info, k) == {}

\* Specs that the transaction replaced again are kept, as already ended, for the files
\* written under them.
ReplacedSpecs(info, k) ==
    {CommittedSpec(info, i) @@ [begin |-> k, end |-> k] :
        i \in {i \in 1 .. Len(info.specs) - 1 : info.specs[i].keys # {}}}

\* GetNewPartitions: the last spec is written unless it is what the table had.
GetNewPartitions(info) ==
    LET n == Len(info.specs)
        old == {p.keys : p \in {p \in partitions : p.end = Live}} \ {{}}
    IN {CommittedSpec(info, i) : i \in {i \in {n} \ {0} :
            {info.specs[i].keys} \ {{}} # old}}

WriteNewPartitionKeys(info, k) ==
    LET new == GetNewPartitions(info)
    IN (IF new = {} THEN partitions ELSE End(partitions, partitions, k))
           \cup ReplacedSpecs(info, k) \cup Rows(new, k)

\* GetNewSorts: likewise; an empty sort order only ends the old one.
GetNewSorts(info) ==
    LET n == Len(info.sorts)
        old == {s.names : s \in {s \in sorts : s.end = Live}}
    IN {info.sorts[i] : i \in {i \in {n} \ {0} : {info.sorts[i]} \ {{}} # old}}

WriteNewSortKeys(info, k) ==
    LET new == GetNewSorts(info)
    IN (IF new = {} THEN sorts ELSE End(sorts, sorts, k))
           \cup Rows({[names |-> x] : x \in new \ {{}}}, k)

\* RemapPartitionId: committed_partition_ids holds every spec of the chain.
RemapPartitionId(info, spec) ==
    LET at == {i \in DOMAIN info.specs : info.specs[i].id = spec.id}
    IN IF at = {} THEN spec ELSE CommittedSpec(info, CHOOSE i \in at : TRUE)

(***************************************************************************)
(* Chains whose replay is known to lose part of what they did (README,     *)
(* findings): the properties say nothing of their commits.                 *)
(***************************************************************************)
\* The default of a column that is retyped and then altered.
LosesDefault(chain) ==
    \E i, j \in DOMAIN chain :
        /\ 1 < i /\ i < j
        /\ chain[i].change.type = "CHANGE_COLUMN_TYPE" /\ chain[j].change.type \in FieldAlters
        /\ \E f \in chain[i - 1].fields :
              f.id = chain[j].change.field /\ f.id \in chain[i].change.dropped
              /\ {f.fdflt, f.initial} # {"none"}

\* The initial default of a field below a struct that is renamed or retyped.
LosesInitialDefault(chain) ==
    \E i \in 2 .. Len(chain) : \E f \in chain[i - 1].fields, g \in chain[i].change.added :
        f.id = g.id /\ f.initial # g.initial

\* The sort order, when its column is renamed and then altered.
LosesSortOrder(chain) ==
    \E i \in DOMAIN chain :
        /\ chain[i].change.type = "RENAME_COLUMN" /\ Superseded(chain, i)
        /\ \E f \in chain[i].fields : f.id = chain[i].change.field /\ f.name \in chain[i].sort

\* The fields of a struct column that is added and then altered.
LosesNestedFields(chain) ==
    \E i, j \in DOMAIN chain :
        LET c == chain[i].change
            d == chain[j].change IN
        /\ i < j
        /\ c.type = "ADD_COLUMN" /\ Cardinality(c.added) > 1
        /\ \/ d.type \in FieldAlters /\ d.field = c.field
           \/ d.type = "CHANGE_COLUMN_TYPE" /\ d.dropped \cap {f.id : f \in c.added} # {}

\* The spec of files written after the partitioning was changed and changed back.
LosesPartitionSpec(chain, written) ==
    \E s \in written :
        /\ s.id >= TransactionLocalIdStart
        /\ s.id = chain[Len(chain)].part.id
        /\ s.keys = chain[1].part.keys

Lossy(chain, written) ==
    \/ LosesDefault(chain) \/ LosesInitialDefault(chain) \/ LosesSortOrder(chain)
    \/ LosesNestedFields(chain) \/ LosesPartitionSpec(chain, written)

\* A file of an unpartitioned table must carry no spec; one written after a RESET of
\* the same transaction does, and the commit is refused.
FileRefused(s) == s.id # 0 /\ s.keys = {}

Commit ==
    /\ txn.chain # <<>>
    /\ Len(txn.chain) > 1 \/ txn.chain[1].change.type = "CREATED" \/ txn.files # {}
    /\ snapshot < MaxSnapshot
    /\ \A s \in txn.files : ~FileRefused(s)
    /\ LET info == GetNewTableInfo(txn.chain)
           k == snapshot + 1
       IN /\ columns' = WriteColumns(txn.chain, info, k)
          /\ columnTags' = WriteColumnTags(info, k)
          /\ constraints' = WriteConstraints(txn.chain, k)
          /\ partitions' = WriteNewPartitionKeys(info, k)
          /\ sorts' = WriteNewSortKeys(info, k)
          /\ files' = files \cup {RemapPartitionId(info, s) @@ [begin |-> k] : s \in txn.files}
          /\ nextId' = nextId + Len(info.specs)
          /\ snapshot' = k
          /\ seen' = Append(seen, [view |-> View(Entry), lossy |-> Lossy(txn.chain, txn.files)])
    /\ txn' = NoTransaction
    /\ UNCHANGED statements

\* An error at commit: nothing is written.
CommitRefused ==
    /\ txn.chain # <<>>
    /\ \E s \in txn.files : FileRefused(s)
    /\ txn' = NoTransaction
    /\ UNCHANGED <<metadata, seen, statements>>

Init ==
    /\ columns = {} /\ columnTags = {} /\ constraints = {} /\ partitions = {} /\ sorts = {}
    /\ files = {}
    /\ snapshot = 0 /\ nextId = 1
    /\ txn = NoTransaction
    /\ seen = <<>>
    /\ statements = 0

Next == CreateTable \/ Begin \/ Alter \/ Insert \/ Commit \/ CommitRefused

Spec == Init /\ [][Next]_columnsVars

(***************************************************************************)
(* Properties                                                              *)
(***************************************************************************)
\* Every snapshot shows, now and whenever it is read later, the table exactly as the
\* transaction that committed it saw it at its end: names, types, nullability,
\* defaults, comments, keys, partitioning and sort order, however many changes of one
\* column the replay of the chain merged (GetNewTableInfo).
PublishedAsAltered ==
    \A k \in 1 .. snapshot : ~seen[k].lossy => View(LoadTable(k)) = seen[k].view

\* The id of a dropped field is never given to another one: the rows of an id follow
\* each other without a gap, at most one at a time, and all say the same of what
\* files without the field read as (GetNextColumnId, initial_default).
FieldIdsKeepTheirMeaning ==
    \A r, s \in {c \in columns : ~seen[c.begin].lossy} :
        (r.id = s.id /\ r.begin < s.begin) =>
            /\ r.initial = s.initial
            /\ r.end <= s.begin
            /\ r.begin < r.end => \E c \in columns : c.id = r.id /\ c.begin = r.end

\* The partition spec that a data file was written under can be found in the metadata
\* with the keys it had then, also when the same transaction changed the partitioning
\* again (WriteNewPartitionKeys, RemapPartitionId).
SpecsOfFilesAreKnown ==
    \A f \in files : (f.id # 0 /\ ~seen[f.begin].lossy) =>
        \E p \in partitions : p.id = f.id /\ p.keys = f.keys /\ p.begin <= f.begin

=============================================================================
