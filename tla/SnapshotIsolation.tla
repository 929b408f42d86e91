------------------------ MODULE SnapshotIsolation --------------------------
(***************************************************************************)
(* What DuckLake promises its users: a history of snapshots in which each  *)
(* snapshot, once committed, keeps its contents for ever, and transactions *)
(* that read one snapshot and commit their changes as another.             *)
(*                                                                         *)
(* This is an abstract specification; LakeTransactions implements it.      *)
(***************************************************************************)
EXTENDS Naturals, Sequences

CONSTANTS
    Clients,
    Tables,
    NoTable    \* the contents of a table that does not exist

VARIABLES
    history,   \* history[k][t]: the rows of table t at snapshot k
    session    \* the open transaction of each client, if any

vars == <<history, session>>

Closed == [open |-> FALSE]

Newest == history[Len(history)]

Init ==
    /\ history = <<[t \in Tables |-> {}]>>
    /\ session = [c \in Clients |-> Closed]

Begin(c) ==
    /\ ~session[c].open
    /\ session' = [session EXCEPT ![c] = [open |-> TRUE, snap |-> Len(history), work |-> Newest]]
    /\ UNCHANGED history

\* A transaction changes what it sees itself, and nothing that others see.
Change(c) ==
    /\ session[c].open
    /\ session'[c].open
    /\ session' = [session EXCEPT ![c].work = session'[c].work]
    /\ UNCHANGED history

\* The changes of a transaction that saw base and leaves mine, made to table
\* contents now: rows it deleted must still be there.
CanApply(base, mine, now) ==
    \/ mine = base
    \/ mine = NoTable
    \/ now # NoTable /\ base \ mine \subseteq now

Apply(base, mine, now) ==
    IF mine = base THEN now
    ELSE IF mine = NoTable THEN NoTable
    ELSE (now \ (base \ mine)) \cup (mine \ base)

Commit(c) ==
    /\ session[c].open
    /\ session' = [session EXCEPT ![c] = Closed]
    /\ LET base == history[session[c].snap]
           mine == session[c].work
       IN  /\ history' = Append(history, [t \in Tables |-> Apply(base[t], mine[t], Newest[t])])
           /\ \A t \in Tables : CanApply(base[t], mine[t], Newest[t])

\* A rollback, a refused commit, a crash, or the end of a read-only transaction.
End(c) ==
    /\ session[c].open
    /\ session' = [session EXCEPT ![c] = Closed]
    /\ UNCHANGED history

Next == \E c \in Clients : Begin(c) \/ Change(c) \/ End(c) \/ Commit(c)

Spec == Init /\ [][Next]_vars
============================================================================
