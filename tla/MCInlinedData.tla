--------------------------- MODULE MCInlinedData ---------------------------
(***************************************************************************)
(* An instance of InlinedData for TLC.                                     *)
(***************************************************************************)
EXTENDS InlinedData, TLC

\* What can still matter of the cache: no transaction begins at a snapshot that
\* is not the last one.
StillUsed ==
    {s \in 1..MaxSnapshot : s = db.snapshot \/ \E c \in Clients : txn[c].open /\ txn[c].view.snapshot = s}

CacheView == <<db, txn, dropping, [s \in StillUsed |-> cached[s]], pinned, values, history>>
============================================================================
