--------------------------- MODULE MCStatistics ---------------------------
(***************************************************************************)
(* An instance of Statistics for TLC.                                      *)
(***************************************************************************)
EXTENDS Statistics

\* Every client is a process of its own.
OwnProcess == [c \in Clients |-> c]

\* What can still matter of the caches: no transaction begins with an older
\* next_file_id.
CacheInUse ==
    LET ids == {db.next_file_id} \cup
               {txn[c].view.next_file_id : c \in {d \in Clients : txn[d].open}}
    IN  [p \in DOMAIN cache |-> [n \in DOMAIN cache[p] \cap ids |-> cache[p][n]]]

\* The clients are alike.
ClientSymmetry == Permutations(Clients)

InUse == <<db, txn, CacheInUse>>
============================================================================
