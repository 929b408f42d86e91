------------------------- MODULE MCSnapshotCommit --------------------------
(***************************************************************************)
(* SnapshotCommit for TLC: transactions whose changes are those of a few   *)
(* statements, some of which conflict.                                     *)
(***************************************************************************)
EXTENDS SnapshotCommit

Insert(t) == {<<"inserted_into_table", t>>}

Delete(t) == {<<"deleted_from_table", t>>, <<"delete_attempted", t>>}

Alter(t) == {<<"altered_table", t>>}

\* A transaction that the commit refuses.
DeleteAndCompact(t) == {<<"inlined_delete", t>>, <<"rewrite_delete", t>>}

CONSTANT t1

\* Everything on one table; on the others a change that conflicts with none of it.
MCChangeSets ==
    {{}, Insert(t1), Delete(t1), Alter(t1), DeleteAndCompact(t1)}
        \cup {Delete(t) : t \in Tables \ {t1}}
============================================================================
