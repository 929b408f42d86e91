--------------------------- MODULE MCStagedCommit ---------------------------
(***************************************************************************)
(* An instance of StagedCommit for TLC: three data files and one           *)
(* transaction of every kind.                                              *)
(***************************************************************************)
EXTENDS StagedCommit

\* The clients that share an attached catalog; the others share another one.
CONSTANT Shared

Sharers == Permutations(Shared)

OneSession == [c \in Clients |-> IF c \in Shared THEN 1 ELSE 2]

Files == (1 :> [table |-> 1, rows |-> 2]) @@ (2 :> [table |-> 1, rows |-> 2])
         @@ (5 :> [table |-> 2, rows |-> 4])

Txn(name, changes) == changes @@ [name |-> name, client_side |-> FALSE] @@ NoChanges

DataFile(table, path, rows, mapping, attached, created) ==
    [table |-> table, path |-> path, rows |-> rows, mapping |-> mapping,
     column_stats |-> path, attached |-> attached, created_by_ducklake |-> created]

\* INSERT into both tables, DELETE from one of the new files.
Insert ==
    Txn("insert", [data_files |-> << DataFile(1, "a1", 1, -1, << >>, TRUE),
                                     DataFile(1, "a2", 3, -1, << "d1" >>, TRUE),
                                     DataFile(2, "a3", 2, -1, << >>, TRUE) >>])

\* UPDATE of inlined rows and an INSERT that is inlined.
Update ==
    Txn("update", [inlined |-> << [table |-> 1, row_ids |-> << 1, Local, Local >>,
                                   column_stats |-> "i"] >>,
                   inlined_deletes |-> {<<1, "inlined_1", 1>>},
                   delete_attempted |-> {1}])

\* DELETE of some rows of a file, of all rows of another, and of a few rows inline.
Delete ==
    Txn("delete", [delete_files |-> << [table |-> 1, data_file |-> 1, path |-> "d2",
                                        overwrites |-> -1] >>,
                   dropped_files |-> {2}, deleted_from |-> {1}, delete_attempted |-> {1, 2},
                   file_deletes |-> {<<2, 5, 0>>, <<2, 5, 2>>}])

\* Compaction of both tables.
Compact ==
    Txn("compact", [compactions |->
        << [table |-> 1, type |-> "merge_adjacent",
            outputs |-> << DataFile(1, "m1", 4, -1, << >>, TRUE) >>,
            sources |-> << [file |-> 1, rows |-> 2, inlined |-> {}, deletes |-> << >>],
                           [file |-> 2, rows |-> 2, inlined |-> {}, deletes |-> << >>] >>],
           [table |-> 2, type |-> "rewrite_delete",
            outputs |-> << DataFile(2, "m2", 1, -1, << >>, TRUE),
                           DataFile(2, "m3", 1, -1, << >>, TRUE) >>,
            sources |-> << [file |-> 5, rows |-> 4, inlined |-> {3},
                            deletes |-> << [id |-> 3, rows |-> 0], [id |-> 4, rows |-> 1] >>] >>] >>])

\* ducklake_add_data_files with a nested name map.
AddFile ==
    Txn("add", [data_files |-> << DataFile(1, "x", 2, 100, << >>, FALSE) >>,
                inlined |-> << [table |-> 2, row_ids |-> << Local >>, column_stats |-> "j"] >>,
                name_maps |-> << [id |-> 100, table |-> 1,
                                  columns |-> << <<0, "k">>, <<0, "s">>, <<1, "a">>, <<2, "b">>,
                                                 <<1, "c">>, <<0, "v">> >>] >>])

\* ALTER TABLE, and an INSERT whose inlined table must be created.
Alter == Txn("alter", [altered |-> {2}])

InsertNewTable ==
    Txn("new", [inlined |-> << [table |-> 2, row_ids |-> << Local, Local >>,
                                column_stats |-> "n"] >>,
                client_side |-> TRUE])

EveryKind == {Insert, Update, Delete, Compact, AddFile, Alter, InsertNewTable}
=============================================================================
