-------------------------- MODULE ReplicationProofs --------------------------
(***************************************************************************)
(* Proofs about Replication, for any tables, clients and numbers of jobs,  *)
(* any kinds of source and modes of jobs, and any number of requests,      *)
(* faults and crashes.                                                     *)
(***************************************************************************)
EXTENDS Replication, FiniteSetTheorems, SequenceTheorems, WellFoundedInduction, TLAPS

----------------------------------------------------------------------------
(* Types.                                                                  *)

\* What a cycle remembers.
CycleFields ==
    {"pc", "job", "mode", "status", "states", "gone", "todo", "table", "cols", "dest_cols",
     "outcome", "failed"}

\* A cycle that runs is one of a job, drops only tables that it has read a row of,
\* and is busy with a table from the start of its work on it to the row of it.
IsCycle(c) ==
    /\ DOMAIN c = CycleFields
    /\ c.pc # "idle" => c.job \in Jobs /\ \A t \in c.gone : c.states[t].has
    /\ c.pc \notin {"idle", "drop", "table"} => c.table \in Tables

\* The rows of the jobs, and two that agree but for a table.
IsRows(f) == f = [j \in Jobs |-> [t \in Tables |-> f[j][t]]]
SameExcept(f, g, t) == \A j \in Jobs, u \in Tables : u # t => g[j][u] = f[j][u]

TypeInv ==
    /\ dest = [t \in Tables |-> dest[t]]
    /\ IsRows(rows)
    /\ cycles = [r \in Runners |-> cycles[r]]
    /\ \A r \in Runners : IsCycle(cycles[r])

\* A cycle does not work on the table: what it has read of the job's rows has no
\* row of it, and it is not between the claim and the row of the table.
LeavesAlone(c, t) ==
    c.pc # "idle" =>
        /\ ~c.states[t].has
        /\ c.table = t => c.pc \in {"drop", "table"}

\* A table of a user belongs to no job, and no cycle is about to take it.
UserTable(t) ==
    /\ dest[t].cols > 0
    /\ \A j \in Jobs : ~rows[j][t].has
    /\ \A r \in Runners : LeavesAlone(cycles[r], t)

UserInv == \A t \in Tables : dest[t].by = "user" => UserTable(t)

\* No step changes a table that a user made.
Untouched == \A t \in Tables : dest[t].by = "user" => dest'[t] = dest[t]

----------------------------------------------------------------------------
(* Steps.                                                                  *)

\* The steps that leave destination, rows and cycles alone.
LEMMA OtherStep ==
    ASSUME TypeInv, UserInv, UNCHANGED <<dest, rows, cycles>>
    PROVE  TypeInv' /\ UserInv' /\ Untouched
BY DEF TypeInv, UserInv, UserTable, Untouched

\* A step of one thread: if it keeps away from the tables of users, so do all.
LEMMA ThreadStep ==
    ASSUME TypeInv, UserInv, NEW r \in Runners, NEW c, IsCycle(c),
           cycles' = [cycles EXCEPT ![r] = c],
           dest' = [t \in Tables |-> dest'[t]],
           IsRows(rows'),
           \A t \in Tables : dest'[t] = dest[t] \/ dest'[t].by # "user",
           \A t \in Tables : UserTable(t) =>
               /\ dest'[t] = dest[t]
               /\ LeavesAlone(c, t)
               /\ \A j \in Jobs : ~rows'[j][t].has
    PROVE  TypeInv' /\ UserInv' /\ Untouched
<1>1. /\ cycles'[r] = c
      /\ \A q \in Runners \ {r} : cycles'[q] = cycles[q]
      /\ cycles' = [q \in Runners |-> cycles'[q]]
  BY DEF TypeInv
<1>2. TypeInv'
  BY <1>1 DEF TypeInv
<1>3. Untouched
  BY DEF Untouched, UserInv
<1>4. UserInv'
  <2> SUFFICES ASSUME NEW t \in Tables, dest'[t].by = "user" PROVE UserTable(t)'
    BY DEF UserInv
  <2>1. UserTable(t) /\ dest'[t] = dest[t]
    BY DEF UserInv
  <2> QED
    BY <1>1, <2>1 DEF UserTable
<1> QED
  BY <1>2, <1>3, <1>4

\* What the row of one table being written does.
LEMMA WriteRow ==
    ASSUME NEW f, NEW g, IsRows(f), NEW j \in Jobs, NEW t \in Tables, NEW x,
           g = [f EXCEPT ![j][t] = x]
    PROVE  IsRows(g) /\ SameExcept(f, g, t)
BY DEF IsRows, SameExcept

\* A failure writes no row of another table.
LEMMA FailureRow ==
    ASSUME IsRows(rows), NEW j \in Jobs, NEW t \in Tables
    PROVE  IsRows(MarkTableError(j, t)) /\ SameExcept(rows, MarkTableError(j, t), t)
<1>1. SameExcept(rows, rows, t)
  BY DEF SameExcept
<1>2. IsRows([rows EXCEPT ![j][t] = ClaimRow]) /\ SameExcept(rows, [rows EXCEPT ![j][t] = ClaimRow], t)
  BY WriteRow
<1> QED
  BY <1>1, <1>2 DEF MarkTableError

\* The steps of a cycle that change no table of the destination and no rows of
\* tables that the cycle leaves alone.
LEMMA CycleStepInv ==
    ASSUME TypeInv, UserInv, NEW r \in Runners,
           \/ \E t \in Tables : DropStale(r, t) \/ BeginTable(r, t) \/ DropStaleFails(r, t)
           \/ DeleteTableState(r) \/ DropsDone(r) \/ Claim(r) \/ SyncTable(r) \/ SyncFails(r) \/ SyncFault(r)
           \/ RecheckJob(r) \/ UpsertTableSyncState(r) \/ EndCycle(r) \/ AbortCycle(r)
    PROVE  TypeInv' /\ UserInv' /\ Untouched
<1> DEFINE c == cycles[r]
<1>0. /\ IsCycle(c)
      /\ dest = [t \in Tables |-> dest[t]]
      /\ IsRows(rows)
      /\ cycles = [q \in Runners |-> cycles[q]]
      /\ \A t \in Tables : UserTable(t) => LeavesAlone(c, t) /\ \A j \in Jobs : ~rows[j][t].has
  BY DEF TypeInv, UserTable
<1>w. c.pc \in {"forget", "claim", "sync", "recheck", "upsert"} =>
         c.job \in Jobs /\ c.table \in Tables /\ \A u \in Tables : UserTable(u) => u # c.table
  BY <1>0 DEF IsCycle, LeavesAlone
<1>1. ASSUME NEW t \in Tables, DropStale(r, t) PROVE TypeInv' /\ UserInv' /\ Untouched
  <2> DEFINE d == [c EXCEPT !.pc = "forget", !.table = t]
  <2>1. /\ cycles' = [cycles EXCEPT ![r] = d]
        /\ c.pc = "drop" /\ t \in c.gone
        /\ dest' = [dest EXCEPT ![t] = NoDestTable]
        /\ rows' = rows
    BY <1>0, <1>1, ZenonT(60) DEF DropStale, metadata
  <2>2. IsCycle(d)
    BY <1>0, <2>1 DEF IsCycle, CycleFields
  <2>3. \A u \in Tables : UserTable(u) => u # t /\ LeavesAlone(d, u)
    BY <1>0, <2>1 DEF LeavesAlone, IsCycle, CycleFields
  <2>4. /\ dest' = [u \in Tables |-> dest'[u]]
        /\ \A u \in Tables : u # t => dest'[u] = dest[u]
        /\ dest'[t].by # "user"
    BY <1>0, <2>1 DEF NoDestTable
  <2> HIDE DEF d
  <2> QED
    BY <1>0, <2>1, <2>2, <2>3, <2>4, ThreadStep
<1>2. ASSUME NEW t \in Tables, BeginTable(r, t) PROVE TypeInv' /\ UserInv' /\ Untouched
  <2>0. rows' = rows /\ dest' = dest /\ c.pc = "table"
    BY <1>2, ZenonT(60) DEF BeginTable, metadata
  <2>1. CASE Rejected(c, t)
    <3> DEFINE d == [c EXCEPT !.todo = @ \ {t}, !.failed = TRUE]
    <3>1. cycles' = [cycles EXCEPT ![r] = d]
      BY <1>0, <1>2, <2>1, ZenonT(60) DEF BeginTable
    <3>2. IsCycle(d) /\ \A u \in Tables : LeavesAlone(c, u) => LeavesAlone(d, u)
      BY <1>0 DEF IsCycle, CycleFields, LeavesAlone
    <3> HIDE DEF d
    <3> QED
      BY <1>0, <2>0, <3>1, <3>2, ThreadStep, SMTT(60)
  <2>2. CASE ~Rejected(c, t)
    <3> DEFINE d == [c EXCEPT !.pc = IF c.states[t].has THEN "sync" ELSE "claim",
                              !.todo = @ \ {t}, !.table = t,
                              !.cols = Source(t).cols, !.dest_cols = dest[t].cols]
    <3>1. cycles' = [cycles EXCEPT ![r] = d]
      BY <1>0, <1>2, <2>2, ZenonT(60) DEF BeginTable
    <3>2. IsCycle(d)
      BY <1>0, <2>0 DEF IsCycle, CycleFields
    <3>3. \A u \in Tables : UserTable(u) => u # t
      BY <1>0, <2>0, <2>2 DEF Rejected, UserTable, LeavesAlone
    <3>4. \A u \in Tables : UserTable(u) => LeavesAlone(d, u)
      BY <1>0, <2>0, <3>3 DEF LeavesAlone, IsCycle, CycleFields
    <3> HIDE DEF d
    <3> QED
      BY <1>0, <2>0, <3>1, <3>2, <3>4, ThreadStep, SMTT(60)
  <2> QED
    BY <2>1, <2>2
<1>3. ASSUME NEW t \in Tables, DropStaleFails(r, t) PROVE TypeInv' /\ UserInv' /\ Untouched
  <2> DEFINE d == [c EXCEPT !.gone = @ \ {t}, !.failed = TRUE]
  <2>1. /\ cycles' = [cycles EXCEPT ![r] = d]
        /\ c.pc = "drop" /\ t \in c.gone /\ c.job \in Jobs
        /\ dest' = dest
        /\ rows' = MarkTableError(c.job, t)
    BY <1>0, <1>3, ZenonT(60) DEF DropStaleFails, IsCycle
  <2>2. IsCycle(d) /\ \A u \in Tables : LeavesAlone(c, u) => LeavesAlone(d, u) /\ u # t
    BY <1>0, <2>1 DEF IsCycle, CycleFields, LeavesAlone
  <2>3. IsRows(rows') /\ SameExcept(rows, rows', t)
    BY <1>0, <2>1, FailureRow
  <2>4. /\ dest' = [u \in Tables |-> dest'[u]]
        /\ \A u \in Tables : dest'[u] = dest[u]
    BY <1>0, <2>1
  <2>5. \A u \in Tables : UserTable(u) =>
           dest'[u] = dest[u] /\ LeavesAlone(d, u) /\ \A j \in Jobs : ~rows'[j][u].has
    BY <1>0, <2>2, <2>3, <2>4 DEF SameExcept
  <2> HIDE DEF d
  <2> QED
    BY <2>1, <2>2, <2>3, <2>4, <2>5, ThreadStep
<1>4. ASSUME DeleteTableState(r) PROVE TypeInv' /\ UserInv' /\ Untouched
  <2> DEFINE d == [c EXCEPT !.pc = "drop", !.gone = @ \ {c.table}]
  <2>1. /\ cycles' = [cycles EXCEPT ![r] = d]
        /\ dest' = dest /\ rows' = [rows EXCEPT ![c.job][c.table] = NoRow]
        /\ c.pc = "forget"
    BY <1>0, <1>4 DEF DeleteTableState
  <2>2. c.job \in Jobs /\ c.table \in Tables /\ \A u \in Tables : UserTable(u) => u # c.table
    BY <1>w, <2>1
  <2>3. IsCycle(d) /\ \A u \in Tables : UserTable(u) => LeavesAlone(d, u)
    BY <1>0, <2>1, <2>2 DEF IsCycle, CycleFields, LeavesAlone
  <2>4. IsRows(rows') /\ SameExcept(rows, rows', c.table)
    BY <1>0, <2>1, <2>2, WriteRow
  <2>5. /\ dest' = [u \in Tables |-> dest'[u]]
        /\ \A u \in Tables : dest'[u] = dest[u]
    BY <1>0, <2>1
  <2>6. \A u \in Tables : UserTable(u) =>
           dest'[u] = dest[u] /\ LeavesAlone(d, u) /\ \A j \in Jobs : ~rows'[j][u].has
    BY <1>0, <2>2, <2>3, <2>4, <2>5 DEF SameExcept
  <2> HIDE DEF d
  <2> QED
    BY <2>1, <2>3, <2>4, <2>5, <2>6, ThreadStep
<1>5. ASSUME DropsDone(r) PROVE TypeInv' /\ UserInv' /\ Untouched
  <2> DEFINE d == [c EXCEPT !.pc = "table"]
  <2>1. /\ cycles' = [cycles EXCEPT ![r] = d]
        /\ dest' = dest /\ rows' = rows
        /\ c.pc = "drop"
    BY <1>0, <1>5 DEF DropsDone, metadata
  <2>2. IsCycle(d) /\ \A u \in Tables : UserTable(u) => LeavesAlone(d, u)
    BY <1>0, <1>w, <2>1 DEF IsCycle, CycleFields, LeavesAlone, NoCycle
  <2> HIDE DEF d
  <2> QED
    BY <1>0, <2>1, <2>2, ThreadStep
<1>6. ASSUME Claim(r) PROVE TypeInv' /\ UserInv' /\ Untouched
  <2> DEFINE free == ~OwnedByOther(c.job, c.table) /\ ~rows[c.job][c.table].has
             d == IF free THEN [c EXCEPT !.pc = "sync"] ELSE [c EXCEPT !.pc = "table", !.failed = TRUE]
  <2>1. /\ cycles' = [cycles EXCEPT ![r] = d]
        /\ dest' = dest
        /\ rows' = rows \/ rows' = [rows EXCEPT ![c.job][c.table] = ClaimRow]
        /\ c.pc = "claim"
    BY <1>0, <1>6 DEF Claim
  <2>2. c.job \in Jobs /\ c.table \in Tables /\ \A u \in Tables : UserTable(u) => u # c.table
    BY <1>w, <2>1
  <2>3. IsCycle(d) /\ \A u \in Tables : UserTable(u) => LeavesAlone(d, u)
    BY <1>0, <2>1, <2>2 DEF IsCycle, CycleFields, LeavesAlone
  <2>4. IsRows(rows') /\ SameExcept(rows, rows', c.table)
    <3>1. CASE rows' = rows
      BY <1>0, <3>1 DEF SameExcept
    <3>2. CASE rows' = [rows EXCEPT ![c.job][c.table] = ClaimRow]
      BY <1>0, <3>2, <2>2, WriteRow
    <3> QED
      BY <2>1, <3>1, <3>2
  <2>5. /\ dest' = [u \in Tables |-> dest'[u]]
        /\ \A u \in Tables : dest'[u] = dest[u]
    BY <1>0, <2>1
  <2>6. \A u \in Tables : UserTable(u) =>
           dest'[u] = dest[u] /\ LeavesAlone(d, u) /\ \A j \in Jobs : ~rows'[j][u].has
    BY <1>0, <2>2, <2>3, <2>4, <2>5 DEF SameExcept
  <2> HIDE DEF d
  <2> QED
    BY <2>1, <2>3, <2>4, <2>5, <2>6, ThreadStep
<1>7. ASSUME SyncTable(r) PROVE TypeInv' /\ UserInv' /\ Untouched
  <2> DEFINE d == [c EXCEPT !.pc = "recheck", !.outcome = Outcome(c, SyncPlan(c))]
  <2>1. /\ cycles' = [cycles EXCEPT ![r] = d]
        /\ rows' = rows
        /\ c.pc = "sync"
    BY <1>0, <1>7 DEF SyncTable, metadata
  <2>2. c.job \in Jobs /\ c.table \in Tables /\ \A u \in Tables : UserTable(u) => u # c.table
    BY <1>w, <2>1
  <2>3. PICK new : dest' = [dest EXCEPT ![c.table] = new] /\ new.by # "user"
    <3> DEFINE p == SyncPlan(c)
               by == IF Rewritten(p) THEN "job" ELSE dest[c.table].by
               new == [by |-> by, cols |-> p.cols, rows |-> SyncedRows(c, p),
                       files |-> SyncedFiles(c, p),
                       watermarked |-> (p.strategy = "watermark"
                                        \/ (~p.reseed /\ dest[c.table].watermarked))]
    <3>1. new.by = by
      OBVIOUS
    <3>0. by # "user"
      BY <1>0, <2>2 DEF UserInv
    <3>2. dest' = [dest EXCEPT ![c.table] = new]
      BY <1>7, Zenon DEF SyncTable
    <3> HIDE DEF new, by
    <3> QED
      BY <3>0, <3>1, <3>2
  <2>4. IsCycle(d) /\ \A u \in Tables : UserTable(u) => LeavesAlone(d, u)
    BY <1>0, <2>1, <2>2 DEF IsCycle, CycleFields, LeavesAlone
  <2>5. /\ dest' = [u \in Tables |-> dest'[u]]
        /\ \A u \in Tables : u # c.table => dest'[u] = dest[u]
        /\ dest'[c.table].by # "user"
    BY <1>0, <2>2, <2>3
  <2>6. \A u \in Tables : UserTable(u) =>
           dest'[u] = dest[u] /\ LeavesAlone(d, u) /\ \A j \in Jobs : ~rows'[j][u].has
    BY <1>0, <2>1, <2>2, <2>4, <2>5
  <2> HIDE DEF d
  <2> QED
    BY <1>0, <2>1, <2>4, <2>5, <2>6, ThreadStep
<1>8. ASSUME c.pc = "sync", RecordFailure(r) PROVE TypeInv' /\ UserInv' /\ Untouched
  <2> DEFINE d == [c EXCEPT !.pc = "table", !.failed = TRUE]
  <2>1. /\ cycles' = [cycles EXCEPT ![r] = d]
        /\ dest' = dest /\ rows' = MarkTableError(c.job, c.table)
        /\ c.pc = "sync"
    BY <1>0, <1>8 DEF RecordFailure
  <2>2. c.job \in Jobs /\ c.table \in Tables /\ \A u \in Tables : UserTable(u) => u # c.table
    BY <1>w, <2>1
  <2>3. IsCycle(d) /\ \A u \in Tables : UserTable(u) => LeavesAlone(d, u)
    BY <1>0, <2>1, <2>2 DEF IsCycle, CycleFields, LeavesAlone
  <2>4. IsRows(rows') /\ SameExcept(rows, rows', c.table)
    BY <1>0, <2>1, <2>2, FailureRow
  <2>5. /\ dest' = [u \in Tables |-> dest'[u]]
        /\ \A u \in Tables : dest'[u] = dest[u]
    BY <1>0, <2>1
  <2>6. \A u \in Tables : UserTable(u) =>
           dest'[u] = dest[u] /\ LeavesAlone(d, u) /\ \A j \in Jobs : ~rows'[j][u].has
    BY <1>0, <2>2, <2>3, <2>4, <2>5 DEF SameExcept
  <2> HIDE DEF d
  <2> QED
    BY <2>1, <2>3, <2>4, <2>5, <2>6, ThreadStep
<1>9. ASSUME RecheckJob(r) PROVE TypeInv' /\ UserInv' /\ Untouched
  <2> DEFINE d == [c EXCEPT !.pc = IF Exists(c.job) THEN "upsert" ELSE "table"]
  <2>1. /\ cycles' = [cycles EXCEPT ![r] = d]
        /\ dest' = dest /\ rows' = rows
        /\ c.pc = "recheck"
    BY <1>0, <1>9 DEF RecheckJob, metadata
  <2>2. IsCycle(d) /\ \A u \in Tables : UserTable(u) => LeavesAlone(d, u)
    BY <1>0, <1>w, <2>1 DEF IsCycle, CycleFields, LeavesAlone, NoCycle
  <2> HIDE DEF d
  <2> QED
    BY <1>0, <2>1, <2>2, ThreadStep
<1>10. ASSUME UpsertTableSyncState(r) PROVE TypeInv' /\ UserInv' /\ Untouched
  <2> DEFINE d == [c EXCEPT !.pc = "table"]
  <2>1. /\ cycles' = [cycles EXCEPT ![r] = d]
        /\ dest' = dest /\ rows' = [rows EXCEPT ![c.job][c.table] = c.outcome]
        /\ c.pc = "upsert"
    BY <1>0, <1>10 DEF UpsertTableSyncState
  <2>2. c.job \in Jobs /\ c.table \in Tables /\ \A u \in Tables : UserTable(u) => u # c.table
    BY <1>w, <2>1
  <2>3. IsCycle(d) /\ \A u \in Tables : UserTable(u) => LeavesAlone(d, u)
    BY <1>0, <2>1, <2>2 DEF IsCycle, CycleFields, LeavesAlone
  <2>4. IsRows(rows') /\ SameExcept(rows, rows', c.table)
    BY <1>0, <2>1, <2>2, WriteRow
  <2>5. /\ dest' = [u \in Tables |-> dest'[u]]
        /\ \A u \in Tables : dest'[u] = dest[u]
    BY <1>0, <2>1
  <2>6. \A u \in Tables : UserTable(u) =>
           dest'[u] = dest[u] /\ LeavesAlone(d, u) /\ \A j \in Jobs : ~rows'[j][u].has
    BY <1>0, <2>2, <2>3, <2>4, <2>5 DEF SameExcept
  <2> HIDE DEF d
  <2> QED
    BY <2>1, <2>3, <2>4, <2>5, <2>6, ThreadStep
<1>11. ASSUME EndCycle(r) PROVE TypeInv' /\ UserInv' /\ Untouched
  <2> DEFINE d == NoCycle
  <2>1. /\ cycles' = [cycles EXCEPT ![r] = d]
        /\ dest' = dest /\ rows' = rows
        /\ c.pc = "table"
    BY <1>0, <1>11 DEF EndCycle, metadata
  <2>2. IsCycle(d) /\ \A u \in Tables : UserTable(u) => LeavesAlone(d, u)
    BY <1>0, <1>w, <2>1 DEF IsCycle, CycleFields, LeavesAlone, NoCycle
  <2> HIDE DEF d
  <2> QED
    BY <1>0, <2>1, <2>2, ThreadStep
<1>12. ASSUME AbortCycle(r) PROVE TypeInv' /\ UserInv' /\ Untouched
  <2> DEFINE d == NoCycle
  <2>1. /\ cycles' = [cycles EXCEPT ![r] = d]
        /\ dest' = dest /\ rows' = rows
        /\ c.pc # "idle"
    BY <1>0, <1>12 DEF AbortCycle, metadata, Busy
  <2>2. IsCycle(d) /\ \A u \in Tables : UserTable(u) => LeavesAlone(d, u)
    BY <1>0, <1>w, <2>1 DEF IsCycle, CycleFields, LeavesAlone, NoCycle
  <2> HIDE DEF d
  <2> QED
    BY <1>0, <2>1, <2>2, ThreadStep
<1> QED
  BY <1>1, <1>2, <1>3, <1>4, <1>5, <1>6, <1>7, <1>8, <1>9, <1>10, <1>11, <1>12 DEF SyncFails, SyncFault

\* A cycle begins with the rows of its job, which has none of a table of a user.
LEMMA EnterInv ==
    ASSUME TypeInv, UserInv, NEW r \in Runners, NEW j \in Jobs, Enter(r, j)
    PROVE  TypeInv' /\ UserInv' /\ Untouched
<1> DEFINE d == [NoCycle EXCEPT !.pc = "drop", !.job = j, !.mode = jobs[j].mode,
                                !.status = jobs[j].status, !.states = rows[j],
                                !.gone = {t \in Tables : rows[j][t].has} \ {t \in Tables : Source(t).cols > 0},
                                !.todo = {t \in Tables : Source(t).cols > 0}]
<1>0. dest = [t \in Tables |-> dest[t]] /\ IsRows(rows)
  BY DEF TypeInv
<1>1. cycles' = [cycles EXCEPT ![r] = d] /\ dest' = dest /\ rows' = rows
  BY DEF Enter
<1>2. \A t \in Tables : UserTable(t) => \A i \in Jobs : ~rows[i][t].has
  BY DEF UserTable
<1>3. DOMAIN d = CycleFields /\ d.pc = "drop" /\ d.job = j /\ d.states = rows[j]
      /\ d.gone \subseteq {t \in Tables : rows[j][t].has} /\ d.table = CHOOSE t \in Tables : TRUE
  BY ZenonT(60) DEF NoCycle, CycleFields
<1> HIDE DEF d
<1>4. \A t \in Tables : UserTable(t) => LeavesAlone(d, t)
  BY <1>2, <1>3 DEF LeavesAlone
<1>5. IsCycle(d)
  BY <1>3 DEF IsCycle
<1> QED
  BY <1>0, <1>1, <1>2, <1>4, <1>5, ThreadStep

\* A table of a user is made where no job and no cycle has the name.
LEMMA UserCreatesTableInv ==
    ASSUME TypeInv, UserInv, NEW t \in Tables, UserCreatesTable(t)
    PROVE  TypeInv' /\ UserInv' /\ Untouched
<1> DEFINE new == [by |-> IF Claimed(t) THEN "stray" ELSE "user", cols |-> 1, rows |-> Empty,
                   files |-> {}, watermarked |-> FALSE]
<1>1. /\ dest' = [dest EXCEPT ![t] = new] /\ rows' = rows /\ cycles' = cycles
      /\ dest[t].cols = 0
  BY DEF UserCreatesTable, metadata
<1>2. new.cols = 1 /\ (new.by = "user" => ~Claimed(t))
  OBVIOUS
<1> HIDE DEF new
<1>3. /\ dest' = [u \in Tables |-> dest'[u]]
      /\ dest'[t] = new
      /\ \A u \in Tables : u # t => dest'[u] = dest[u]
  BY <1>1 DEF TypeInv
<1>4. TypeInv'
  BY <1>1, <1>3 DEF TypeInv
<1>5. dest[t].by # "user"
  BY <1>1 DEF UserInv, UserTable
<1>6. Untouched
  BY <1>3, <1>5 DEF Untouched
<1>7. ASSUME ~Claimed(t) PROVE \A r \in Runners : LeavesAlone(cycles[r], t)
  <2> SUFFICES ASSUME NEW r \in Runners, cycles[r].pc # "idle"
               PROVE  ~cycles[r].states[t].has /\ cycles[r].table # t
    BY DEF LeavesAlone
  <2> QED
    BY <1>7 DEF Claimed, Busy
<1>8. UserInv'
  <2> SUFFICES ASSUME NEW u \in Tables, dest'[u].by = "user" PROVE UserTable(u)'
    BY DEF UserInv
  <2>1. CASE u # t
    <3>1. UserTable(u) /\ dest'[u] = dest[u]
      BY <1>3, <2>1 DEF UserInv
    <3> QED
      BY <1>1, <3>1 DEF UserTable
  <2>2. CASE u = t
    <3>1. ~Claimed(t) /\ dest'[u].cols = 1
      BY <1>2, <1>3, <2>2
    <3>2. \A j \in Jobs : ~rows[j][t].has
      BY <3>1 DEF Claimed
    <3> QED
      BY <1>1, <1>7, <2>2, <3>1, <3>2 DEF UserTable
  <2> QED
    BY <2>1, <2>2
<1> QED
  BY <1>4, <1>6, <1>8

\* The rows of a job are deleted: fewer tables have an owner.
LEMMA DropStatesInv ==
    ASSUME TypeInv, UserInv, NEW j \in Jobs, DropStates(j)
    PROVE  TypeInv' /\ UserInv' /\ Untouched
<1>1. rows' = [rows EXCEPT ![j] = [t \in Tables |-> NoRow]] /\ dest' = dest /\ cycles' = cycles
  BY DEF DropStates
<1>2. /\ IsRows(rows')
      /\ \A i \in Jobs, t \in Tables : rows'[i][t] = rows[i][t] \/ ~rows'[i][t].has
  BY <1>1 DEF TypeInv, IsRows, NoRow
<1> QED
  BY <1>1, <1>2 DEF TypeInv, UserInv, UserTable, Untouched

\* A crash ends every cycle.
LEMMA CrashInv ==
    ASSUME TypeInv, UserInv, Crash
    PROVE  TypeInv' /\ UserInv' /\ Untouched
<1>1. cycles' = [r \in Runners |-> NoCycle] /\ dest' = dest /\ rows' = rows
  BY DEF Crash, metadata
<1>2. IsCycle(NoCycle) /\ \A t \in Tables : LeavesAlone(NoCycle, t)
  BY DEF IsCycle, CycleFields, NoCycle, LeavesAlone
<1>3. TypeInv'
  BY <1>1, <1>2 DEF TypeInv
<1> QED
  BY <1>1, <1>2, <1>3 DEF UserInv, UserTable, Untouched

----------------------------------------------------------------------------
(* The invariant and the theorem.                                          *)

LEMMA UserInvInit == ReplicationInit => TypeInv /\ UserInv
<1> SUFFICES ASSUME ReplicationInit PROVE TypeInv /\ UserInv
  OBVIOUS
<1>1. IsCycle(NoCycle)
  BY DEF IsCycle, CycleFields, NoCycle
<1>2. IsRows(rows)
  BY DEF ReplicationInit, IsRows
<1>3. TypeInv
  BY <1>1, <1>2 DEF ReplicationInit, TypeInv
<1>4. UserInv
  BY DEF ReplicationInit, UserInv, NoDestTable
<1> QED
  BY <1>3, <1>4

LEMMA UserInvNext == TypeInv /\ UserInv /\ [ReplicationNext]_vars => TypeInv' /\ UserInv' /\ Untouched
<1> SUFFICES ASSUME TypeInv, UserInv, [ReplicationNext]_vars PROVE TypeInv' /\ UserInv' /\ Untouched
  OBVIOUS
<1> DEFINE Other == UNCHANGED <<dest, rows, cycles>>
<1>1. CASE UNCHANGED vars
  BY <1>1, OtherStep DEF vars
<1>2. ASSUME NEW t \in Tables, SourceStep(t) PROVE Other
  BY <1>2 DEF SourceStep, SourceCommits
<1>3. ASSUME SourceExpires PROVE Other
  BY <1>3 DEF SourceExpires
<1>4. ASSUME UserStep PROVE TypeInv' /\ UserInv' /\ Untouched
  <2>1. CASE Other
    BY <2>1, OtherStep
  <2>2. ASSUME NEW j \in Jobs, DropStates(j) PROVE TypeInv' /\ UserInv' /\ Untouched
    BY <2>2, DropStatesInv
  <2>3. ASSUME NEW r \in Manual, NEW j \in Jobs, ManualEnter(r, j) PROVE TypeInv' /\ UserInv' /\ Untouched
    BY <2>3, EnterInv DEF ManualEnter, Runners
  <2>4. ASSUME NEW t \in Tables, UserCreatesTable(t) PROVE TypeInv' /\ UserInv' /\ Untouched
    BY <2>4, UserCreatesTableInv
  <2>5. ASSUME \/ \E mode \in Modes : CreateJob(mode)
               \/ \E j \in Jobs : DropJob(j) \/ Pause(j) \/ Resume(j)
               \/ StartAll \/ ResumeAll \/ StopRequest
        PROVE  Other
    BY <2>5 DEF CreateJob, DropJob, Pause, Resume, Start, StartAll, ResumeAll, StopRequest
  <2> QED
    BY <1>4, <2>1, <2>2, <2>3, <2>4, <2>5 DEF UserStep
<1>5. ASSUME FaultStep PROVE TypeInv' /\ UserInv' /\ Untouched
  <2>1. ASSUME NEW r \in Runners, SyncFault(r) \/ \E t \in Tables : DropStaleFails(r, t)
        PROVE  TypeInv' /\ UserInv' /\ Untouched
    BY <2>1, CycleStepInv
  <2>2. ASSUME NEW r \in Runners, NEW j \in Jobs, SourceMissing(r, j) PROVE Other
    BY <2>2 DEF SourceMissing
  <2> QED
    BY <1>5, <2>1, <2>2, CrashInv, OtherStep DEF FaultStep
<1>6. ASSUME SupervisorStep PROVE TypeInv' /\ UserInv' /\ Untouched
  <2>1. ASSUME NEW j \in Jobs, SupervisorEnter(j) PROVE TypeInv' /\ UserInv' /\ Untouched
    BY <2>1, EnterInv DEF SupervisorEnter, Runners
  <2>2. ASSUME SupervisorPass \/ StopReturn \/ \E j \in Jobs : SupervisorRefused(j) PROVE Other
    BY <2>2 DEF SupervisorPass, StopReturn, SupervisorRefused
  <2> QED
    BY <1>6, <2>1, <2>2, OtherStep DEF SupervisorStep
<1>7. ASSUME NEW r \in Runners, CycleStep(r) PROVE TypeInv' /\ UserInv' /\ Untouched
  BY <1>7, CycleStepInv DEF CycleStep
<1> QED
  BY <1>1, <1>2, <1>3, <1>4, <1>5, <1>6, <1>7, OtherStep DEF ReplicationNext

\* No step of a job, whatever the interleaving of cycles, drops of jobs, faults and
\* crashes, changes a table that a user made while no job had the name
\* (DuckLakeReplication::Catchup, CreateJob and DropJob).
THEOREM UsersKeepTheirTables == ReplicationSpec => UnmanagedUntouched
<1>1. TypeInv /\ UserInv /\ [ReplicationNext]_vars => [\A t \in Tables : dest[t].by = "user" => dest'[t] = dest[t]]_vars
  BY UserInvNext DEF Untouched
<1>2. ReplicationSpec => [](TypeInv /\ UserInv)
  BY UserInvInit, UserInvNext, PTL DEF ReplicationSpec
<1> QED
  BY <1>1, <1>2, PTL DEF ReplicationSpec, UnmanagedUntouched

----------------------------------------------------------------------------
(* Rows of files.                                                          *)

File == [path : Nat, val : Values, del : {0, 1}]
IsFile(f) == f \in File
IsFiles(F) == IsFiniteSet(F) /\ \A f \in F : IsFile(f)

WithValue(F, v) == {f \in F : f.val = v}
HalfDeleted(F, v) == {f \in F : f.val = v /\ f.del = 1}

\* The larger of two numbers.
LEMMA MaxOfTwo ==
    ASSUME NEW x \in Int, NEW y \in Int
    PROVE  Max({x, y}) \in Int /\ Max({x, y}) = IF x >= y THEN x ELSE y
<1>1. \E m \in {x, y} : \A n \in {x, y} : m >= n
  OBVIOUS
<1> QED
  BY <1>1 DEF Max

\* A set of numbers up to a bound has a largest.
LEMMA MaxOfBounded ==
    ASSUME NEW k \in Nat, NEW S \in SUBSET (0..k), S # {}
    PROVE  Max(S) \in S /\ \A y \in S : Max(S) >= y
<1> DEFINE U == 0..k
           Above(i) == i..k
           T == {Above(i) : i \in S}
<1>1. T \subseteq SUBSET U /\ T # {}
  <2>1. \A i \in S : Above(i) \in SUBSET U
    OBVIOUS
  <2> HIDE DEF Above, U
  <2> QED
    BY <2>1
<1>2. IsFiniteSet(U)
  BY FS_Interval
<1>3. T \subseteq FiniteSubsetsOf(U)
  <2> HIDE DEF T, U
  <2> QED
    BY <1>1, <1>2, FS_FiniteSubsetsOfFinite
<1>4. PICK x \in T : \A y \in T : ~ (<<y, x>> \in StrictSubsetOrdering(U))
  <2> HIDE DEF T, U
  <2> QED
    BY <1>1, <1>3, FS_StrictSubsetOrderingWellFounded, WFMin
<1>5. PICK i \in S : x = Above(i)
  OBVIOUS
<1>6. ASSUME NEW y \in S, y > i
      PROVE  FALSE
  <2>1. Above(y) \in T
    OBVIOUS
  <2>2. Above(y) \subseteq Above(i) /\ Above(i) \subseteq U
    BY <1>6
  <2>3. i \in Above(i) /\ i \notin Above(y)
    BY <1>6
  <2>4. <<Above(y), x>> \in StrictSubsetOrdering(U)
    BY <2>2, <2>3, <1>5 DEF StrictSubsetOrdering
  <2> QED
    BY <2>1, <2>4, <1>4
<1>7. \A y \in S : i >= y
  BY <1>6
<1> QED
  BY <1>7 DEF Max

\* The rows of a set of files are a number for each value.
LEMMA RowsOfType ==
    ASSUME NEW F, IsFiles(F)
    PROVE  /\ RowsOf(F) = [v \in Values |-> RowsOf(F)[v]]
           /\ \A v \in Values :
                /\ RowsOf(F)[v] = 2 * Cardinality(WithValue(F, v)) - Cardinality(HalfDeleted(F, v))
                /\ RowsOf(F)[v] \in Nat
                /\ Cardinality(WithValue(F, v)) \in Nat
                /\ RowsOf(F)[v] >= Cardinality(WithValue(F, v))
<1>1. RowsOf(F) = [v \in Values |-> 2 * Cardinality(WithValue(F, v)) - Cardinality(HalfDeleted(F, v))]
  BY DEF RowsOf, WithValue, HalfDeleted
<1>2. ASSUME NEW v \in Values
      PROVE  /\ Cardinality(WithValue(F, v)) \in Nat
             /\ Cardinality(HalfDeleted(F, v)) \in Nat
             /\ Cardinality(HalfDeleted(F, v)) <= Cardinality(WithValue(F, v))
  <2>1. WithValue(F, v) \in SUBSET F /\ HalfDeleted(F, v) \in SUBSET WithValue(F, v)
    BY DEF WithValue, HalfDeleted
  <2>2. IsFiniteSet(WithValue(F, v)) /\ IsFiniteSet(HalfDeleted(F, v))
    BY <2>1, FS_Subset DEF IsFiles
  <2> QED
    BY <2>1, <2>2, FS_Subset, FS_CardinalityType
<1>3. ASSUME NEW v \in Values
      PROVE  /\ RowsOf(F)[v] = 2 * Cardinality(WithValue(F, v)) - Cardinality(HalfDeleted(F, v))
             /\ RowsOf(F)[v] \in Nat
             /\ RowsOf(F)[v] >= Cardinality(WithValue(F, v))
  <2>1. RowsOf(F)[v] = 2 * Cardinality(WithValue(F, v)) - Cardinality(HalfDeleted(F, v))
    BY <1>1
  <2> QED
    BY <2>1, <1>2
<1> QED
  BY <1>1, <1>2, <1>3

\* A file has rows.
LEMMA RowsPositive ==
    ASSUME NEW F, IsFiles(F), NEW f \in F
    PROVE  RowsOf(F)[f.val] > 0
<1>1. WithValue(F, f.val) # {} /\ IsFiniteSet(WithValue(F, f.val))
  BY FS_Subset DEF WithValue, IsFiles
<1>2. Cardinality(WithValue(F, f.val)) # 0
  BY <1>1, FS_EmptySet
<1>3. f.val \in Values
  BY DEF IsFiles, IsFile, File
<1> QED
  BY <1>2, <1>3, RowsOfType

\* No files, no rows.
LEMMA NoRows ==
    IsFiles({}) /\ RowsOf({}) = Empty
<1>1. \A v \in Values : WithValue({}, v) = {} /\ HalfDeleted({}, v) = {}
  BY DEF WithValue, HalfDeleted
<1>2. Cardinality({}) = 0 /\ IsFiniteSet({})
  BY FS_EmptySet
<1>3. IsFiles({})
  BY <1>2 DEF IsFiles
<1>4. ASSUME NEW v \in Values
      PROVE  RowsOf({})[v] = 0
  <2>1. RowsOf({})[v] = 2 * Cardinality(WithValue({}, v)) - Cardinality(HalfDeleted({}, v))
    BY <1>3, RowsOfType
  <2>2. RowsOf({})[v] = 2 * 0 - 0
    BY <2>1, <1>1, <1>2
  <2> QED
    BY <2>2
<1>5. RowsOf({}) = [v \in Values |-> RowsOf({})[v]]
  BY <1>3, RowsOfType
<1> QED
  BY <1>3, <1>4, <1>5 DEF Empty

\* What one more file adds.
LEMMA RowsAdd ==
    ASSUME NEW F, IsFiles(F), NEW f, IsFile(f), f \notin F
    PROVE  /\ IsFiles(F \cup {f})
           /\ \A v \in Values :
                RowsOf(F \cup {f})[v] = IF v = f.val THEN RowsOf(F)[v] + 2 - f.del ELSE RowsOf(F)[v]
<1> DEFINE G == F \cup {f}
<1>1. IsFiles(G)
  BY FS_AddElement DEF IsFiles
<1>2. ASSUME NEW v \in Values
      PROVE  RowsOf(G)[v] = IF v = f.val THEN RowsOf(F)[v] + 2 - f.del ELSE RowsOf(F)[v]
  <2>1. IsFiniteSet(WithValue(F, v)) /\ IsFiniteSet(HalfDeleted(F, v))
    BY FS_Subset DEF IsFiles, WithValue, HalfDeleted
  <2>2. Cardinality(WithValue(F, v)) \in Nat /\ Cardinality(HalfDeleted(F, v)) \in Nat
    BY <2>1, FS_CardinalityType
  <2>3. /\ RowsOf(F)[v] = 2 * Cardinality(WithValue(F, v)) - Cardinality(HalfDeleted(F, v))
        /\ RowsOf(G)[v] = 2 * Cardinality(WithValue(G, v)) - Cardinality(HalfDeleted(G, v))
    BY <1>1, RowsOfType
  <2>4. CASE v # f.val
    <3>1. WithValue(G, v) = WithValue(F, v) /\ HalfDeleted(G, v) = HalfDeleted(F, v)
      BY <2>4 DEF WithValue, HalfDeleted
    <3> QED
      BY <3>1, <2>3, <2>4
  <2>5. CASE v = f.val
    <3>1. /\ WithValue(G, v) = WithValue(F, v) \cup {f} /\ f \notin WithValue(F, v)
          /\ f \notin HalfDeleted(F, v)
      BY <2>5 DEF WithValue, HalfDeleted
    <3>2. Cardinality(WithValue(G, v)) = Cardinality(WithValue(F, v)) + 1
      BY <3>1, <2>1, FS_AddElement
    <3>3. Cardinality(HalfDeleted(G, v)) = Cardinality(HalfDeleted(F, v)) + f.del
      <4>1. CASE f.del = 1
        <5>1. HalfDeleted(G, v) = HalfDeleted(F, v) \cup {f}
          BY <4>1, <2>5 DEF HalfDeleted
        <5> QED
          BY <5>1, <4>1, <3>1, <2>1, FS_AddElement
      <4>2. CASE f.del = 0
        <5>1. HalfDeleted(G, v) = HalfDeleted(F, v)
          BY <4>2 DEF HalfDeleted
        <5> QED
          BY <5>1, <4>2, <2>2
      <4> QED
        BY <4>1, <4>2 DEF IsFile, File
    <3>4. f.del \in {0, 1}
      BY DEF IsFile, File
    <3> QED
      BY <3>2, <3>3, <3>4, <2>2, <2>3, <2>5
  <2> QED
    BY <2>4, <2>5
<1> QED
  BY <1>1, <1>2

\* What a file less leaves, and what a file with more deleted rows leaves.
LEMMA RowsRemove ==
    ASSUME NEW F, IsFiles(F), NEW f \in F
    PROVE  /\ IsFiles(F \ {f})
           /\ \A v \in Values : RowsOf(F \ {f})[v] <= RowsOf(F)[v]
<1> DEFINE G == F \ {f}
<1>1. IsFiles(G) /\ IsFile(f) /\ f \notin G
  BY FS_Subset DEF IsFiles
<1>2. F = G \cup {f}
  OBVIOUS
<1> HIDE DEF G
<1>3. \A v \in Values :
        RowsOf(F)[v] = IF v = f.val THEN RowsOf(G)[v] + 2 - f.del ELSE RowsOf(G)[v]
  BY <1>1, <1>2, RowsAdd
<1>4. \A v \in Values : RowsOf(G)[v] \in Nat
  BY <1>1, RowsOfType
<1>5. \A v \in Values : RowsOf(G)[v] <= RowsOf(F)[v]
  BY <1>1, <1>3, <1>4 DEF IsFile, File
<1> QED
  BY <1>1, <1>5 DEF G

\* The highest watermark of rows that has one.
LEMMA HighFacts ==
    ASSUME NEW bag, \A v \in Values : bag[v] \in Nat
    PROVE  /\ HighWatermark(bag) \in Int
           /\ \/ HighWatermark(bag) = None /\ \A v \in Values \ {0} : bag[v] = 0
              \/ /\ HighWatermark(bag) \in Values \ {0}
                 /\ bag[HighWatermark(bag)] > 0
                 /\ \A v \in Values \ {0} : bag[v] > 0 => v <= HighWatermark(bag)
<1> DEFINE seen == {v \in Values \ {0} : bag[v] > 0}
<1>1. HighWatermark(bag) = IF seen = {} THEN None ELSE Max(seen)
  BY DEF HighWatermark
<1>2. MaxValue \in Nat
  BY ReplicationConstants
<1>3. CASE seen = {}
  <2>1. \A v \in Values \ {0} : bag[v] = 0
    BY <1>3
  <2> QED
    BY <2>1, <1>1, <1>3 DEF None
<1>4. CASE seen # {}
  <2>1. seen \in SUBSET (0..MaxValue)
    BY DEF Values
  <2>2. Max(seen) \in seen /\ \A y \in seen : Max(seen) >= y
    <3> HIDE DEF seen
    <3> QED
      BY <2>1, <1>2, <1>4, MaxOfBounded
  <2>3. Max(seen) \in Int
    BY <2>1, <2>2
  <2> QED
    BY <2>2, <2>3, <1>1, <1>4 DEF Values
<1> QED
  BY <1>3, <1>4

\* More rows have no lower watermark.
LEMMA HighGrows ==
    ASSUME NEW bag, NEW more, \A v \in Values : bag[v] \in Nat /\ more[v] \in Nat /\ bag[v] <= more[v]
    PROVE  HighWatermark(bag) <= HighWatermark(more)
<1> DEFINE a == HighWatermark(bag)
           b == HighWatermark(more)
<1>1. /\ a \in Int
      /\ \/ a = None
         \/ a \in Values \ {0} /\ bag[a] > 0
  BY HighFacts
<1>2. /\ b \in Int
      /\ \/ b = None /\ \A v \in Values \ {0} : more[v] = 0
         \/ b \in Values \ {0} /\ \A v \in Values \ {0} : more[v] > 0 => v <= b
  BY HighFacts
<1> HIDE DEF a, b
<1>3. a = None => a <= b
  BY <1>2 DEF None, Values
<1>4. a # None => a <= b
  BY <1>1, <1>2 DEF Values
<1> QED
  BY <1>3, <1>4 DEF a, b

----------------------------------------------------------------------------
(* The history of the source.                                              *)

SourceTable == [uuid : Nat, cols : Nat, files : SUBSET File]

RowsAt(t, s) == RowsOf(SourceAt(t, s).files)

\* A source table as snapshot s may have it.
GoodTable(x, s) ==
    /\ x \in SourceTable
    /\ x.uuid <= s
    /\ x.cols = 0 <=> x.uuid = 0
    /\ x.cols = 0 => x.files = {}
    /\ IsFiles(x.files)
    /\ \A f \in x.files : f.path <= s
    /\ \A f, g \in x.files : f.path = g.path => f = g

\* A name of a file stands for one value.
PathsInv ==
    \A t \in Tables : \A s1, s2 \in 1..Current :
        \A f \in SourceAt(t, s1).files, g \in SourceAt(t, s2).files : f.path = g.path => f.val = g.val

\* A table that is dropped does not come back.
LineageInv ==
    \A t \in Tables : \A s1, s2 \in 1..Current : \A s \in s1..s2 :
        SourceAt(t, s1).uuid = SourceAt(t, s2).uuid /\ SourceAt(t, s2).uuid # 0
            => SourceAt(t, s).uuid = SourceAt(t, s2).uuid

\* Between snapshots that report no change the rows are the same.
QuietInv ==
    \A t \in Tables : \A s2 \in 1..Current : \A s1 \in 1..s2 :
        (\A s \in (s1 + 1)..s2 : ~Changed(t, s)) => RowsAt(t, s1) = RowsAt(t, s2)

\* As long as rows are only added in the order of the watermark, those below it stay.
Grown(a, b) ==
    \A v \in Values : a[v] <= b[v] /\ (v < HighWatermark(a) => a[v] = b[v])

GrowthInv ==
    \A t \in Tables : \A s2 \in 1..Current : \A s1 \in 1..s2 :
        /\ AppendOnly(t, s2)
        /\ SourceAt(t, s1).uuid = SourceAt(t, s2).uuid
        /\ SourceAt(t, s2).cols > 0
        => Grown(RowsAt(t, s1), RowsAt(t, s2))

HistoryType ==
    /\ history \in Seq([Tables -> SourceTable])
    /\ Current >= 1
    /\ \A t \in Tables, s \in 1..Current : GoodTable(SourceAt(t, s), s)

HistoryInv == HistoryType /\ PathsInv /\ LineageInv /\ QuietInv /\ GrowthInv

\* What a transaction of the source does to a table.
TableStep(t, x) ==
    /\ GoodTable(x, Current + 1)
    /\ \A f \in x.files :
        f.path = Current + 1 \/ \E g \in Source(t).files : g.path = f.path /\ g.val = f.val
    /\ x.uuid \in {Source(t).uuid, 0, Current + 1}
    /\ \/ \E f \in x.files : f.path = Current + 1
       \/ \A v \in Values : RowsOf(x.files)[v] <= RowsOf(Source(t).files)[v]

\* The rows that are new, and those that are gone.
NewRows(files, n) == RowsOf({f \in files : f.path = n})
GoneRows(a, b) == [v \in Values |-> Max({0, a[v] - b[v]})]

\* No row is gone.
LEMMA NoneGone ==
    ASSUME NEW a, NEW b, \A v \in Values : a[v] \in Nat /\ b[v] \in Nat, GoneRows(a, b) = Empty
    PROVE  \A v \in Values : a[v] <= b[v]
<1> SUFFICES ASSUME NEW v \in Values PROVE a[v] <= b[v]
  OBVIOUS
<1>1. Max({0, a[v] - b[v]}) = 0
  <2>1. GoneRows(a, b)[v] = Empty[v]
    OBVIOUS
  <2> QED
    BY <2>1 DEF GoneRows, Empty
<1>2. 0 \in Int /\ a[v] - b[v] \in Int
  OBVIOUS
<1>3. Max({0, a[v] - b[v]}) = IF 0 >= a[v] - b[v] THEN 0 ELSE a[v] - b[v]
  BY <1>2, MaxOfTwo
<1> QED
  BY <1>1, <1>2, <1>3

\* A transaction that reports neither new nor deleted rows changes none.
LEMMA QuietStep ==
    ASSUME NEW F, NEW G, IsFiles(F), IsFiles(G), NEW n,
           (\E f \in G : f.path = n) \/ (\A v \in Values : RowsOf(G)[v] <= RowsOf(F)[v]),
           NewRows(G, n) = Empty, GoneRows(RowsOf(F), RowsOf(G)) = Empty
    PROVE  RowsOf(F) = RowsOf(G)
<1>1. ASSUME NEW f \in G, f.path = n
      PROVE  FALSE
  <2> DEFINE S == {g \in G : g.path = n}
  <2>1. S \in SUBSET G /\ f \in S
    BY <1>1
  <2>2. IsFiles(S)
    BY <2>1, FS_Subset DEF IsFiles
  <2>3. RowsOf(S)[f.val] > 0
    BY <2>1, <2>2, RowsPositive
  <2>4. RowsOf(S) = Empty
    BY DEF NewRows
  <2>5. f.val \in Values
    BY DEF IsFiles, IsFile, File
  <2> HIDE DEF S
  <2> QED
    BY <2>3, <2>4, <2>5 DEF Empty
<1>2. \A v \in Values : RowsOf(G)[v] <= RowsOf(F)[v]
  BY <1>1
<1>3. \A v \in Values : RowsOf(F)[v] \in Nat /\ RowsOf(G)[v] \in Nat
  BY RowsOfType
<1>4. \A v \in Values : RowsOf(F)[v] <= RowsOf(G)[v]
  BY <1>3, NoneGone
<1>5. \A v \in Values : RowsOf(F)[v] = RowsOf(G)[v]
  BY <1>2, <1>3, <1>4
<1>6. /\ RowsOf(F) = [v \in Values |-> RowsOf(F)[v]]
      /\ RowsOf(G) = [v \in Values |-> RowsOf(G)[v]]
  BY RowsOfType
<1> QED
  BY <1>5, <1>6

\* Growth adds up.
LEMMA GrownFurther ==
    ASSUME NEW a, NEW b, NEW c,
           \A v \in Values : a[v] \in Nat /\ b[v] \in Nat /\ c[v] \in Nat,
           Grown(a, b), GoneRows(b, c) = Empty,
           \A v \in Values : c[v] > b[v] => v >= HighWatermark(b)
    PROVE  Grown(a, c)
<1>1. \A v \in Values : b[v] <= c[v]
  BY NoneGone
<1>2. HighWatermark(a) <= HighWatermark(b)
  BY HighGrows DEF Grown
<1>3. HighWatermark(a) \in Int /\ HighWatermark(b) \in Int
  BY HighFacts
<1>4. ASSUME NEW v \in Values
      PROVE  a[v] <= c[v] /\ (v < HighWatermark(a) => a[v] = c[v])
  <2>1. v \in Int
    BY ReplicationConstants DEF Values
  <2>2. /\ a[v] <= b[v] /\ (v < HighWatermark(a) => a[v] = b[v])
        /\ b[v] <= c[v] /\ (c[v] > b[v] => v >= HighWatermark(b))
        /\ a[v] \in Nat /\ b[v] \in Nat /\ c[v] \in Nat
    BY <1>1 DEF Grown
  <2> QED
    BY <2>1, <2>2, <1>2, <1>3
<1> QED
  BY <1>4 DEF Grown

\* A new snapshot leaves the earlier ones, and what they report, alone.
LEMMA AppendFacts ==
    ASSUME HistoryInv, NEW snap \in [Tables -> SourceTable], history' = Append(history, snap),
           NEW n, n = Current
    PROVE  /\ n \in Nat \ {0} /\ Current' = n + 1
           /\ history' \in Seq([Tables -> SourceTable])
           /\ \A t \in Tables : \A s \in 1..n : SourceAt(t, s)' = SourceAt(t, s)
           /\ \A t \in Tables : SourceAt(t, n + 1)' = snap[t]
           /\ \A t \in Tables : \A s \in 1..n : Changed(t, s)' <=> Changed(t, s)
           /\ \A t \in Tables : \A s \in 1..n : AppendOnly(t, s)' => AppendOnly(t, s)
<1>1. n \in Nat \ {0} /\ history \in Seq([Tables -> SourceTable]) /\ Len(history) = n
  BY LenProperties DEF HistoryInv, HistoryType, Current
<1>2. /\ history' \in Seq([Tables -> SourceTable])
      /\ Len(history') = n + 1
      /\ \A s \in 1..n : history'[s] = history[s]
      /\ history'[n + 1] = snap
  BY <1>1, AppendProperties
<1>3. Current' = n + 1
  BY <1>2 DEF Current
<1>4. \A t \in Tables : \A s \in 1..n : SourceAt(t, s)' = SourceAt(t, s)
  BY <1>2 DEF SourceAt
<1>5. \A t \in Tables : SourceAt(t, n + 1)' = snap[t]
  BY <1>2 DEF SourceAt
<1>6. ASSUME NEW t \in Tables, NEW s \in 1..n
      PROVE  /\ RowsBefore(t, s)' = RowsBefore(t, s)
             /\ Inserted(t, s)' = Inserted(t, s)
             /\ Deleted(t, s)' = Deleted(t, s)
  <2>1. SourceAt(t, s)' = SourceAt(t, s)
    BY <1>4
  <2>2. s # 1 => SourceAt(t, s - 1)' = SourceAt(t, s - 1)
    <3>1. s # 1 => s - 1 \in 1..n
      BY <1>1
    <3> QED
      BY <1>4, <3>1
  <2>3. RowsBefore(t, s)' = RowsBefore(t, s)
    BY <2>2 DEF RowsBefore
  <2> QED
    BY <2>1, <2>3 DEF Inserted, Deleted
<1>7. \A t \in Tables : \A s \in 1..n : Changed(t, s)' <=> Changed(t, s)
  BY <1>6 DEF Changed
<1>8. ASSUME NEW t \in Tables, NEW s2 \in 1..n, AppendOnly(t, s2)'
      PROVE  AppendOnly(t, s2)
  <2> SUFFICES ASSUME NEW s \in 2..s2, SourceAt(t, s).uuid = SourceAt(t, s - 1).uuid,
                      SourceAt(t, s).cols > 0
               PROVE  /\ Deleted(t, s) = Empty
                      /\ \A v \in Values :
                          RowsOf(SourceAt(t, s).files)[v] > RowsBefore(t, s)[v]
                            => v >= HighWatermark(RowsBefore(t, s))
    BY DEF AppendOnly
  <2>1. s \in 1..n /\ s - 1 \in 1..n
    BY <1>1
  <2>2. SourceAt(t, s)' = SourceAt(t, s) /\ SourceAt(t, s - 1)' = SourceAt(t, s - 1)
    BY <2>1, <1>4
  <2>3. RowsBefore(t, s)' = RowsBefore(t, s) /\ Deleted(t, s)' = Deleted(t, s)
    BY <2>1, <1>6
  <2> QED
    BY <1>8, <2>2, <2>3 DEF AppendOnly
<1> QED
  BY <1>1, <1>2, <1>3, <1>4, <1>5, <1>7, <1>8

\* What the new snapshot reports.
LEMMA AppendReports ==
    ASSUME HistoryInv, NEW snap \in [Tables -> SourceTable], history' = Append(history, snap),
           NEW n, n = Current, NEW t \in Tables, NEW F, F = SourceAt(t, n).files, NEW G, G = snap[t].files
    PROVE  /\ Changed(t, n + 1)' <=> NewRows(G, n + 1) # Empty \/ GoneRows(RowsOf(F), RowsOf(G)) # Empty
           /\ AppendOnly(t, n + 1)' /\ snap[t].uuid = SourceAt(t, n).uuid /\ snap[t].cols > 0 =>
                /\ AppendOnly(t, n)
                /\ GoneRows(RowsOf(F), RowsOf(G)) = Empty
                /\ \A v \in Values : RowsOf(G)[v] > RowsOf(F)[v] => v >= HighWatermark(RowsOf(F))
<1>0. /\ n \in Nat \ {0}
      /\ \A u \in Tables : \A s \in 1..n : SourceAt(u, s)' = SourceAt(u, s)
      /\ \A u \in Tables : SourceAt(u, n + 1)' = snap[u]
      /\ \A u \in Tables : \A s \in 1..n : AppendOnly(u, s)' => AppendOnly(u, s)
  BY AppendFacts
<1>1. SourceAt(t, n + 1)' = snap[t] /\ SourceAt(t, n)' = SourceAt(t, n)
  BY <1>0
<1>2. (n + 1) - 1 = n /\ n + 1 # 1
  BY <1>0
<1>3. RowsBefore(t, n + 1)' = RowsOf(F)
  BY <1>1, <1>2 DEF RowsBefore
<1>4. Inserted(t, n + 1)' = NewRows(G, n + 1)
  BY <1>1 DEF Inserted, NewRows
<1>5. Deleted(t, n + 1)' = GoneRows(RowsOf(F), RowsOf(G))
  BY <1>1, <1>3 DEF Deleted, GoneRows
<1>6. Changed(t, n + 1)' <=> NewRows(G, n + 1) # Empty \/ GoneRows(RowsOf(F), RowsOf(G)) # Empty
  BY <1>4, <1>5 DEF Changed
<1>7. ASSUME AppendOnly(t, n + 1)', snap[t].uuid = SourceAt(t, n).uuid, snap[t].cols > 0
      PROVE  /\ AppendOnly(t, n)
             /\ GoneRows(RowsOf(F), RowsOf(G)) = Empty
             /\ \A v \in Values : RowsOf(G)[v] > RowsOf(F)[v] => v >= HighWatermark(RowsOf(F))
  <2>1. AppendOnly(t, n)'
    <3>1. \A s \in 2..n : s \in 2..(n + 1)
      BY <1>0
    <3> QED
      BY <1>7, <3>1 DEF AppendOnly
  <2>2. AppendOnly(t, n)
    BY <2>1, <1>0
  <2>3. n + 1 \in 2..(n + 1)
    BY <1>0
  <2>4. /\ Deleted(t, n + 1)' = Empty
        /\ \A v \in Values : RowsOf(SourceAt(t, n + 1)'.files)[v] > RowsBefore(t, n + 1)'[v]
             => v >= HighWatermark(RowsBefore(t, n + 1)')
    BY <1>7, <1>1, <1>2, <2>3 DEF AppendOnly
  <2> QED
    BY <2>2, <2>4, <1>1, <1>3, <1>5
<1> QED
  BY <1>6, <1>7

\* The invariant of the history survives a transaction of the source.
LEMMA HistoryStep ==
    ASSUME HistoryInv, NEW snap \in [Tables -> SourceTable], history' = Append(history, snap),
           \A u \in Tables : TableStep(u, snap[u])
    PROVE  HistoryInv'
<1>3. PICK n : n = Current
  OBVIOUS
<1>0. /\ n \in Nat \ {0} /\ Current' = n + 1
      /\ history' \in Seq([Tables -> SourceTable])
      /\ \A t \in Tables : \A s \in 1..n : SourceAt(t, s)' = SourceAt(t, s)
      /\ \A t \in Tables : SourceAt(t, n + 1)' = snap[t]
      /\ \A t \in Tables : \A s \in 1..n : Changed(t, s)' <=> Changed(t, s)
      /\ \A t \in Tables : \A s \in 1..n : AppendOnly(t, s)' => AppendOnly(t, s)
  BY <1>3, AppendFacts
<1>1. \A t \in Tables : \A s \in 1..n : GoodTable(SourceAt(t, s), s)
  BY <1>3 DEF HistoryInv, HistoryType
<1>2. ASSUME NEW t \in Tables
      PROVE  /\ GoodTable(snap[t], n + 1)
             /\ \A f \in snap[t].files :
                  f.path = n + 1 \/ \E g \in SourceAt(t, n).files : g.path = f.path /\ g.val = f.val
             /\ snap[t].uuid \in {SourceAt(t, n).uuid, 0, n + 1}
             /\ \/ \E f \in snap[t].files : f.path = n + 1
                \/ \A v \in Values : RowsOf(snap[t].files)[v] <= RowsOf(SourceAt(t, n).files)[v]
  BY <1>3 DEF TableStep, Source
<1>4. HistoryType'
  <2>1. ASSUME NEW t \in Tables, NEW s \in 1..(n + 1)
        PROVE  GoodTable(SourceAt(t, s)', s)
    <3>1. CASE s = n + 1
      BY <3>1, <1>0, <1>2
    <3>2. CASE s # n + 1
      <4>1. s \in 1..n
        BY <3>2, <1>0
      <4> QED
        BY <4>1, <1>0, <1>1
    <3> QED
      BY <3>1, <3>2
  <2> QED
    BY <1>0, <2>1 DEF HistoryType
<1>5. PathsInv'
  <2> SUFFICES ASSUME NEW t \in Tables, NEW s1 \in 1..(n + 1), NEW s2 \in 1..(n + 1),
                      NEW f \in SourceAt(t, s1)'.files, NEW g \in SourceAt(t, s2)'.files,
                      f.path = g.path
               PROVE  f.val = g.val
    BY <1>0 DEF PathsInv
  <2>0. \A a, b \in 1..n : \A x \in SourceAt(t, a).files, y \in SourceAt(t, b).files :
            x.path = y.path => x.val = y.val
    BY <1>3 DEF HistoryInv, PathsInv
  <2>1. \A s \in 1..(n + 1) : s # n + 1 => s \in 1..n /\ SourceAt(t, s)' = SourceAt(t, s)
    BY <1>0
  <2>2. n \in 1..n
    BY <1>0
  <2>3. \A s \in 1..n : \A x \in SourceAt(t, s).files : x.path \in Nat /\ x.path <= s
    BY <1>1 DEF GoodTable, IsFiles, IsFile, File
  <2>4. CASE s1 = n + 1 /\ s2 = n + 1
    BY <2>4, <1>0, <1>2 DEF GoodTable
  <2>5. CASE s1 # n + 1 /\ s2 # n + 1
    BY <2>5, <2>0, <2>1
  <2>6. CASE s1 = n + 1 /\ s2 # n + 1
    <3>1. f \in snap[t].files /\ s2 \in 1..n /\ g \in SourceAt(t, s2).files
      BY <2>6, <2>1, <1>0
    <3>2. f.path # n + 1
      BY <3>1, <2>3, <1>0
    <3>3. PICK h \in SourceAt(t, n).files : h.path = f.path /\ h.val = f.val
      BY <3>1, <3>2, <1>2
    <3> QED
      BY <3>1, <3>3, <2>0, <2>2
  <2>7. CASE s1 # n + 1 /\ s2 = n + 1
    <3>1. g \in snap[t].files /\ s1 \in 1..n /\ f \in SourceAt(t, s1).files
      BY <2>7, <2>1, <1>0
    <3>2. g.path # n + 1
      BY <3>1, <2>3, <1>0
    <3>3. PICK h \in SourceAt(t, n).files : h.path = g.path /\ h.val = g.val
      BY <3>1, <3>2, <1>2
    <3> QED
      BY <3>1, <3>3, <2>0, <2>2
  <2> QED
    BY <2>4, <2>5, <2>6, <2>7
<1>6. ASSUME NEW t \in Tables, NEW s1 \in 1..n, SourceAt(t, s1).uuid = snap[t].uuid, snap[t].uuid # 0
      PROVE  SourceAt(t, n).uuid = snap[t].uuid
  <2>1. SourceAt(t, s1).uuid <= s1 /\ SourceAt(t, s1).uuid \in Nat
    BY <1>1 DEF GoodTable, SourceTable
  <2>2. snap[t].uuid # n + 1
    BY <2>1, <1>6, <1>0
  <2> QED
    BY <2>2, <1>2, <1>6
<1>7. LineageInv'
  <2> SUFFICES ASSUME NEW t \in Tables, NEW s1 \in 1..(n + 1), NEW s2 \in 1..(n + 1), NEW s \in s1..s2,
                      SourceAt(t, s1)'.uuid = SourceAt(t, s2)'.uuid, SourceAt(t, s2)'.uuid # 0
               PROVE  SourceAt(t, s)'.uuid = SourceAt(t, s2)'.uuid
    BY <1>0 DEF LineageInv
  <2>0. \A a, b \in 1..n : \A x \in a..b :
            SourceAt(t, a).uuid = SourceAt(t, b).uuid /\ SourceAt(t, b).uuid # 0
                => SourceAt(t, x).uuid = SourceAt(t, b).uuid
    BY <1>3 DEF HistoryInv, LineageInv
  <2>1. \A x \in 1..(n + 1) : x # n + 1 => x \in 1..n /\ SourceAt(t, x)' = SourceAt(t, x)
    BY <1>0
  <2>2. n \in 1..n
    BY <1>0
  <2>3. CASE s2 # n + 1
    <3>1. s1 \in 1..n /\ s2 \in 1..n /\ s \in 1..n /\ s \in s1..s2
      BY <2>3, <1>0
    <3>2. /\ SourceAt(t, s1)' = SourceAt(t, s1) /\ SourceAt(t, s2)' = SourceAt(t, s2)
          /\ SourceAt(t, s)' = SourceAt(t, s)
      BY <3>1, <1>0
    <3> QED
      BY <3>1, <3>2, <2>0
  <2>4. CASE s2 = n + 1 /\ s # n + 1
    <3>1. s1 \in 1..n /\ s \in 1..n /\ s \in s1..n
      BY <2>4, <1>0
    <3>2. /\ SourceAt(t, s1)' = SourceAt(t, s1) /\ SourceAt(t, s2)' = snap[t]
          /\ SourceAt(t, s)' = SourceAt(t, s)
      BY <3>1, <2>4, <1>0
    <3>3. SourceAt(t, n).uuid = snap[t].uuid
      BY <3>1, <3>2, <1>6
    <3> QED
      BY <3>1, <3>2, <3>3, <2>0, <2>2
  <2>5. CASE s2 = n + 1 /\ s = n + 1
    BY <2>5
  <2> QED
    BY <2>3, <2>4, <2>5
<1>8. QuietInv'
  <2> SUFFICES ASSUME NEW t \in Tables, NEW s2 \in 1..(n + 1), NEW s1 \in 1..s2,
                      \A s \in (s1 + 1)..s2 : ~Changed(t, s)'
               PROVE  RowsOf(SourceAt(t, s1)'.files) = RowsOf(SourceAt(t, s2)'.files)
    BY <1>0 DEF QuietInv, RowsAt
  <2>0. \A b \in 1..n : \A a \in 1..b :
          (\A s \in (a + 1)..b : ~Changed(t, s)) => RowsOf(SourceAt(t, a).files) = RowsOf(SourceAt(t, b).files)
    BY <1>3 DEF HistoryInv, QuietInv, RowsAt
  <2>2. n \in 1..n
    BY <1>0
  <2>3. CASE s2 # n + 1
    <3>1. s1 \in 1..n /\ s2 \in 1..n
      BY <2>3, <1>0
    <3>2. SourceAt(t, s1)' = SourceAt(t, s1) /\ SourceAt(t, s2)' = SourceAt(t, s2)
      BY <3>1, <1>0
    <3>3. \A s \in (s1 + 1)..s2 : ~Changed(t, s)
      <4>1. \A s \in (s1 + 1)..s2 : s \in 1..n
        BY <3>1, <1>0
      <4> QED
        BY <4>1, <1>0
    <3> QED
      BY <3>1, <3>2, <3>3, <2>0
  <2>4. CASE s1 # n + 1 /\ s2 = n + 1
    <3>1. s1 \in 1..n
      BY <2>4, <1>0
    <3>2. SourceAt(t, s1)' = SourceAt(t, s1) /\ SourceAt(t, s2)' = snap[t]
      BY <3>1, <2>4, <1>0
    <3>3. \A s \in (s1 + 1)..n : ~Changed(t, s)
      <4>1. \A s \in (s1 + 1)..n : s \in 1..n /\ s \in (s1 + 1)..s2
        BY <3>1, <2>4, <1>0
      <4> QED
        BY <4>1, <1>0
    <3>4. RowsOf(SourceAt(t, s1).files) = RowsOf(SourceAt(t, n).files)
      BY <3>1, <3>3, <2>0, <2>2
    <3> DEFINE F == SourceAt(t, n).files
               G == snap[t].files
    <3>5. ~Changed(t, n + 1)'
      <4>1. n + 1 \in (s1 + 1)..s2
        BY <3>1, <2>4, <1>0
      <4> QED
        BY <4>1
    <3>6. IsFiles(F) /\ IsFiles(G)
      BY <1>1, <1>2, <2>2 DEF GoodTable
    <3>7. (\E f \in G : f.path = n + 1) \/ (\A v \in Values : RowsOf(G)[v] <= RowsOf(F)[v])
      BY <1>2
    <3>8. NewRows(G, n + 1) = Empty /\ GoneRows(RowsOf(F), RowsOf(G)) = Empty
      BY <3>5, <1>3, AppendReports
    <3>9. RowsOf(F) = RowsOf(G)
      <4> HIDE DEF F, G
      <4> QED
        BY <3>6, <3>7, <3>8, QuietStep
    <3> QED
      BY <3>2, <3>4, <3>9
  <2>5. CASE s1 = n + 1 /\ s2 = n + 1
    BY <2>5
  <2>6. s1 = n + 1 => s2 = n + 1
    BY <1>0
  <2> QED
    BY <2>3, <2>4, <2>5, <2>6
<1>9. GrowthInv'
  <2> SUFFICES ASSUME NEW t \in Tables, NEW s2 \in 1..(n + 1), NEW s1 \in 1..s2,
                      AppendOnly(t, s2)',
                      SourceAt(t, s1)'.uuid = SourceAt(t, s2)'.uuid, SourceAt(t, s2)'.cols > 0
               PROVE  Grown(RowsOf(SourceAt(t, s1)'.files), RowsOf(SourceAt(t, s2)'.files))
    BY <1>0 DEF GrowthInv, RowsAt
  <2>0. \A b \in 1..n : \A a \in 1..b :
          AppendOnly(t, b) /\ SourceAt(t, a).uuid = SourceAt(t, b).uuid /\ SourceAt(t, b).cols > 0
            => Grown(RowsOf(SourceAt(t, a).files), RowsOf(SourceAt(t, b).files))
    BY <1>3 DEF HistoryInv, GrowthInv, RowsAt
  <2>2. n \in 1..n
    BY <1>0
  <2>3. CASE s2 # n + 1
    <3>1. s1 \in 1..n /\ s2 \in 1..n
      BY <2>3, <1>0
    <3>2. SourceAt(t, s1)' = SourceAt(t, s1) /\ SourceAt(t, s2)' = SourceAt(t, s2)
      BY <3>1, <1>0
    <3>3. AppendOnly(t, s2)
      BY <3>1, <1>0
    <3> QED
      BY <3>1, <3>2, <3>3, <2>0
  <2>4. CASE s1 # n + 1 /\ s2 = n + 1
    <3>1. s1 \in 1..n
      BY <2>4, <1>0
    <3>2. SourceAt(t, s1)' = SourceAt(t, s1) /\ SourceAt(t, s2)' = snap[t]
      BY <3>1, <2>4, <1>0
    <3> DEFINE E == SourceAt(t, s1).files
               F == SourceAt(t, n).files
               G == snap[t].files
    <3>3. snap[t].uuid # 0 /\ GoodTable(snap[t], n + 1) /\ snap[t].cols > 0
      BY <3>2, <1>2 DEF GoodTable, SourceTable
    <3>4. SourceAt(t, n).uuid = snap[t].uuid
      BY <3>1, <3>2, <3>3, <1>6
    <3>5. SourceAt(t, n).cols > 0
      BY <3>3, <3>4, <1>1, <2>2 DEF GoodTable, SourceTable
    <3>6. /\ AppendOnly(t, n)
          /\ GoneRows(RowsOf(F), RowsOf(G)) = Empty
          /\ \A v \in Values : RowsOf(G)[v] > RowsOf(F)[v] => v >= HighWatermark(RowsOf(F))
      BY <3>3, <3>4, <2>4, <1>3, AppendReports
    <3>7. Grown(RowsOf(E), RowsOf(F))
      BY <3>1, <3>2, <3>4, <3>5, <3>6, <2>0, <2>2
    <3>8. IsFiles(E) /\ IsFiles(F) /\ IsFiles(G)
      BY <1>1, <1>2, <2>2, <3>1 DEF GoodTable
    <3>9. \A v \in Values : RowsOf(E)[v] \in Nat /\ RowsOf(F)[v] \in Nat /\ RowsOf(G)[v] \in Nat
      <4> HIDE DEF E, F, G
      <4> QED
        BY <3>8, RowsOfType
    <3>10. Grown(RowsOf(E), RowsOf(G))
      <4> HIDE DEF E, F, G
      <4> QED
        BY <3>6, <3>7, <3>9, GrownFurther
    <3> QED
      BY <3>2, <3>10
  <2>5. CASE s1 = n + 1 /\ s2 = n + 1
    <3> DEFINE G == SourceAt(t, s2)'.files
    <3>1. IsFiles(G)
      BY <2>5, <1>0, <1>2 DEF GoodTable
    <3>2. \A v \in Values : RowsOf(G)[v] \in Nat
      <4> HIDE DEF G
      <4> QED
        BY <3>1, RowsOfType
    <3> QED
      BY <2>5, <3>2 DEF Grown
  <2>6. s1 = n + 1 => s2 = n + 1
    BY <1>0
  <2> QED
    BY <2>3, <2>4, <2>5, <2>6
<1> QED
  BY <1>4, <1>5, <1>7, <1>8, <1>9 DEF HistoryInv

\* New files of a table that stays.
FilesStep(F, G, n) ==
    /\ IsFiles(G)
    /\ \A f \in G : f.path <= n
    /\ \A f, g \in G : f.path = g.path => f = g
    /\ \A f \in G : f.path = n \/ \E g \in F : g.path = f.path /\ g.val = f.val
    /\ (\E f \in G : f.path = n) \/ (\A v \in Values : RowsOf(G)[v] <= RowsOf(F)[v])

\* The current table of the source.
LEMMA CurrentTable ==
    ASSUME HistoryInv, NEW t \in Tables
    PROVE  Current \in Nat \ {0} /\ Current \in 1..Current /\ GoodTable(Source(t), Current)
<1>1. Current \in Nat \ {0}
  BY LenProperties DEF HistoryInv, HistoryType, Current
<1>2. Current \in 1..Current
  BY <1>1
<1>3. GoodTable(SourceAt(t, Current), Current)
  BY <1>2 DEF HistoryInv, HistoryType
<1> QED
  BY <1>1, <1>2, <1>3 DEF Source

\* A table that stays, with the files that a transaction leaves it.
LEMMA FilesStepTable ==
    ASSUME HistoryInv, NEW t \in Tables, Source(t).cols > 0, NEW G, NEW k \in Nat \ {0}, NEW x,
           x = [uuid |-> Source(t).uuid, cols |-> k, files |-> G],
           FilesStep(Source(t).files, G, Current + 1)
    PROVE  TableStep(t, x)
<1>1. Current \in Nat /\ GoodTable(Source(t), Current)
  BY CurrentTable
<1>2. Source(t).uuid \in Nat /\ Source(t).uuid <= Current + 1 /\ Source(t).uuid # 0
  BY <1>1 DEF GoodTable, SourceTable
<1>3. x.uuid = Source(t).uuid /\ x.cols = k /\ x.files = G
  OBVIOUS
<1>4. G \in SUBSET File
  BY DEF FilesStep, IsFiles, IsFile
<1>5. x \in SourceTable
  BY <1>2, <1>4 DEF SourceTable
<1>6. GoodTable(x, Current + 1)
  BY <1>2, <1>3, <1>5 DEF GoodTable, FilesStep
<1> QED
  BY <1>3, <1>6 DEF TableStep, FilesStep

\* A table that comes or goes is empty.
LEMMA EmptyTableStep ==
    ASSUME HistoryInv, NEW t \in Tables, NEW u \in {0, Current + 1}, NEW k \in {0, 1}, u = 0 <=> k = 0,
           NEW x, x = [uuid |-> u, cols |-> k, files |-> {}]
    PROVE  TableStep(t, x)
<1>1. Current \in Nat /\ GoodTable(Source(t), Current)
  BY CurrentTable
<1>2. x.uuid = u /\ x.cols = k /\ x.files = {}
  OBVIOUS
<1>3. x \in SourceTable
  BY <1>1 DEF SourceTable
<1>4. IsFiles({}) /\ RowsOf({}) = Empty
  BY NoRows
<1>5. GoodTable(x, Current + 1)
  BY <1>1, <1>2, <1>3, <1>4 DEF GoodTable
<1>6. \A v \in Values : RowsOf({})[v] <= RowsOf(Source(t).files)[v]
  <2>1. IsFiles(Source(t).files)
    BY <1>1 DEF GoodTable
  <2>2. \A v \in Values : RowsOf(Source(t).files)[v] \in Nat
    BY <2>1, RowsOfType
  <2> QED
    BY <2>2, <1>4 DEF Empty
<1> QED
  BY <1>2, <1>5, <1>6 DEF TableStep

\* The files that a transaction of the source leaves.
LEMMA FilesSteps ==
    ASSUME NEW n \in Nat, NEW F, IsFiles(F), \A f \in F : f.path <= n,
           \A f, g \in F : f.path = g.path => f = g
    PROVE  /\ FilesStep(F, F, n + 1)
           /\ \A v \in Values : FilesStep(F, F \cup {[path |-> n + 1, val |-> v, del |-> 0]}, n + 1)
           /\ \A f \in F : FilesStep(F, F \ {f}, n + 1)
           /\ \A f \in F : f.del = 0 => FilesStep(F, (F \ {f}) \cup {[f EXCEPT !.del = 1]}, n + 1)
           /\ \A f \in F : FilesStep(F, (F \ {f}) \cup {[f EXCEPT !.path = n + 1]}, n + 1)
<1>0. \A f \in F : IsFile(f) /\ f.path \in Nat /\ f.path <= n + 1 /\ f.path # n + 1
  BY DEF IsFiles, IsFile, File
<1>r. \A v \in Values : RowsOf(F)[v] \in Nat
  BY RowsOfType
<1>1. FilesStep(F, F, n + 1)
  BY <1>0, <1>r DEF FilesStep
<1>2. ASSUME NEW v \in Values
      PROVE  FilesStep(F, F \cup {[path |-> n + 1, val |-> v, del |-> 0]}, n + 1)
  <2> DEFINE h == [path |-> n + 1, val |-> v, del |-> 0]
  <2>1. h \in File /\ h.path = n + 1
    BY DEF File
  <2>2. h \notin F
    BY <1>0, <2>1
  <2> HIDE DEF h
  <2>3. IsFiles(F \cup {h})
    BY <2>1, <2>2, RowsAdd DEF IsFile
  <2>4. FilesStep(F, F \cup {h}, n + 1)
    BY <1>0, <2>1, <2>3 DEF FilesStep
  <2> QED
    BY <2>4 DEF h
<1>3. ASSUME NEW f \in F
      PROVE  FilesStep(F, F \ {f}, n + 1)
  BY <1>0, RowsRemove DEF FilesStep
<1>4. ASSUME NEW f \in F, f.del = 0
      PROVE  FilesStep(F, (F \ {f}) \cup {[f EXCEPT !.del = 1]}, n + 1)
  <2> DEFINE h == [f EXCEPT !.del = 1]
             E == F \ {f}
  <2>1. h \in File /\ h.path = f.path /\ h.val = f.val /\ h.del = 1
    BY <1>0 DEF IsFile, File
  <2>2. IsFiles(E) /\ f \notin E /\ F = E \cup {f} /\ \A g \in E : g \in F /\ g # f
    BY RowsRemove
  <2>3. h \notin E
    BY <2>1, <2>2
  <2> HIDE DEF h, E
  <2>4. /\ IsFiles(E \cup {h})
        /\ \A v \in Values :
             RowsOf(E \cup {h})[v] = IF v = h.val THEN RowsOf(E)[v] + 2 - h.del ELSE RowsOf(E)[v]
    BY <2>1, <2>2, <2>3, RowsAdd DEF IsFile
  <2>5. \A v \in Values :
             RowsOf(F)[v] = IF v = f.val THEN RowsOf(E)[v] + 2 - f.del ELSE RowsOf(E)[v]
    BY <1>0, <2>2, RowsAdd
  <2>6. \A v \in Values : RowsOf(E)[v] \in Nat
    BY <2>2, RowsOfType
  <2>7. \A v \in Values : RowsOf(E \cup {h})[v] <= RowsOf(F)[v]
    BY <1>4, <2>1, <2>4, <2>5, <2>6
  <2>8. \A g \in E \cup {h} : g.path <= n + 1 /\ \E g2 \in F : g2.path = g.path /\ g2.val = g.val
    BY <1>0, <2>1, <2>2
  <2>9. \A g1, g2 \in E \cup {h} : g1.path = g2.path => g1 = g2
    BY <2>1, <2>2
  <2>10. FilesStep(F, E \cup {h}, n + 1)
    BY <2>4, <2>7, <2>8, <2>9 DEF FilesStep
  <2> QED
    BY <2>10 DEF h, E
<1>5. ASSUME NEW f \in F
      PROVE  FilesStep(F, (F \ {f}) \cup {[f EXCEPT !.path = n + 1]}, n + 1)
  <2> DEFINE h == [f EXCEPT !.path = n + 1]
             E == F \ {f}
  <2>1. h \in File /\ h.path = n + 1
    BY <1>0 DEF IsFile, File
  <2>2. IsFiles(E) /\ \A g \in E : g \in F
    BY RowsRemove
  <2>3. h \notin E
    BY <1>0, <2>1, <2>2
  <2> HIDE DEF h, E
  <2>4. IsFiles(E \cup {h})
    BY <2>1, <2>2, <2>3, RowsAdd DEF IsFile
  <2>5. FilesStep(F, E \cup {h}, n + 1)
    BY <1>0, <2>1, <2>2, <2>4 DEF FilesStep
  <2> QED
    BY <2>5 DEF h, E
<1> QED
  BY <1>1, <1>2, <1>3, <1>4, <1>5

\* A transaction of the source keeps the invariant of its history.
LEMMA SourceCommitsHistory ==
    ASSUME HistoryInv, NEW t \in Tables, NEW x, TableStep(t, x), SourceCommits(t, x)
    PROVE  HistoryInv'
<1> DEFINE snap == [history[Current] EXCEPT ![t] = x]
<1>1. history' = Append(history, snap)
  BY DEF SourceCommits
<1>2. Current \in Nat \ {0} /\ Current \in 1..Current
  BY CurrentTable
<1>3. history[Current] \in [Tables -> SourceTable]
  BY <1>2, ElementOfSeq DEF HistoryInv, HistoryType, Current
<1>4. x \in SourceTable
  BY DEF TableStep, GoodTable
<1>5. snap \in [Tables -> SourceTable] /\ snap[t] = x
      /\ \A u \in Tables \ {t} : snap[u] = Source(u)
  BY <1>3, <1>4 DEF Source, SourceAt
<1> HIDE DEF snap
<1>6. ASSUME NEW u \in Tables
      PROVE  TableStep(u, Source(u))
  <2>1. GoodTable(Source(u), Current)
    BY CurrentTable
  <2>2. CASE Source(u).cols > 0
    <3>1. FilesStep(Source(u).files, Source(u).files, Current + 1)
      BY <1>2, <2>1, FilesSteps DEF GoodTable
    <3>2. /\ Source(u) = [uuid |-> Source(u).uuid, cols |-> Source(u).cols, files |-> Source(u).files]
          /\ Source(u).cols \in Nat \ {0}
      BY <2>1, <2>2 DEF GoodTable, SourceTable
    <3> QED
      BY <3>1, <3>2, <2>2, FilesStepTable
  <2>3. CASE ~(Source(u).cols > 0)
    <3>1. Source(u).cols = 0 /\ Source(u) = [uuid |-> 0, cols |-> 0, files |-> {}]
      BY <2>1, <2>3 DEF GoodTable, SourceTable
    <3> QED
      BY <3>1, EmptyTableStep
  <2> QED
    BY <2>2, <2>3
<1>7. \A u \in Tables : TableStep(u, snap[u])
  BY <1>5, <1>6
<1> QED
  BY <1>1, <1>5, <1>7, HistoryStep

\* The steps of the source.
LEMMA SourceStepHistory ==
    ASSUME HistoryInv, NEW t \in Tables, SourceStep(t)
    PROVE  /\ HistoryInv'
           /\ \E x : SourceCommits(t, x)
<1> DEFINE tab == Source(t)
           n == Current
           F == tab.files
<1> SUFFICES \E x : TableStep(t, x) /\ SourceCommits(t, x)
  BY SourceCommitsHistory
<1>1. n \in Nat /\ GoodTable(tab, n)
  BY CurrentTable
<1>2. tab = [uuid |-> tab.uuid, cols |-> tab.cols, files |-> F] /\ tab.cols \in Nat
  BY <1>1 DEF GoodTable, SourceTable
<1>3. CASE tab.cols = 0
  <2>1. SourceCommits(t, NewSourceTable(n + 1))
    BY <1>3 DEF SourceStep
  <2>2. TableStep(t, NewSourceTable(n + 1))
    BY <1>1, EmptyTableStep DEF NewSourceTable
  <2> QED
    BY <2>1, <2>2
<1>4. CASE tab.cols # 0
  <2>0. tab.cols \in Nat \ {0} /\ Source(t).cols > 0
    BY <1>2, <1>4
  <2>1. /\ \A v \in Values : FilesStep(F, F \cup {[path |-> n + 1, val |-> v, del |-> 0]}, n + 1)
        /\ \A f \in F : FilesStep(F, F \ {f}, n + 1)
        /\ \A f \in F : f.del = 0 => FilesStep(F, (F \ {f}) \cup {[f EXCEPT !.del = 1]}, n + 1)
        /\ \A f \in F : FilesStep(F, (F \ {f}) \cup {[f EXCEPT !.path = n + 1]}, n + 1)
        /\ FilesStep(F, F, n + 1)
    BY <1>1, FilesSteps DEF GoodTable
  <2>2. \A G : FilesStep(F, G, n + 1) =>
          TableStep(t, [uuid |-> tab.uuid, cols |-> tab.cols, files |-> G])
    BY <2>0, FilesStepTable
  <2>3. \A G : [tab EXCEPT !.files = G] = [uuid |-> tab.uuid, cols |-> tab.cols, files |-> G]
    BY <1>1 DEF GoodTable, SourceTable
  <2>4. ASSUME NEW v \in Values, SourceCommits(t, WithFile(tab, [path |-> n + 1, val |-> v, del |-> 0]))
        PROVE  \E x : TableStep(t, x) /\ SourceCommits(t, x)
    <3> DEFINE h == [path |-> n + 1, val |-> v, del |-> 0]
    <3>1. WithFile(tab, h) = [tab EXCEPT !.files = F \cup {h}]
      BY DEF WithFile
    <3>2. TableStep(t, WithFile(tab, h))
      BY <3>1, <2>1, <2>2, <2>3
    <3> QED
      BY <3>2, <2>4
  <2>5. ASSUME NEW f \in F, SourceCommits(t, WithoutFile(tab, f))
        PROVE  \E x : TableStep(t, x) /\ SourceCommits(t, x)
    <3>1. WithoutFile(tab, f) = [tab EXCEPT !.files = F \ {f}]
      BY DEF WithoutFile
    <3>2. TableStep(t, WithoutFile(tab, f))
      BY <3>1, <2>1, <2>2, <2>3
    <3> QED
      BY <3>2, <2>5
  <2>6. \A f, h : WithFile(WithoutFile(tab, f), h) = [tab EXCEPT !.files = (F \ {f}) \cup {h}]
    BY <1>2 DEF WithFile, WithoutFile
  <2>7. ASSUME NEW f \in F, f.del = 0, SourceCommits(t, WithFile(WithoutFile(tab, f), [f EXCEPT !.del = 1]))
        PROVE  \E x : TableStep(t, x) /\ SourceCommits(t, x)
    <3> DEFINE h == [f EXCEPT !.del = 1]
    <3>1. FilesStep(F, (F \ {f}) \cup {h}, n + 1)
      BY <2>1, <2>7
    <3> HIDE DEF h
    <3>3. WithFile(WithoutFile(tab, f), h) = [uuid |-> tab.uuid, cols |-> tab.cols, files |-> (F \ {f}) \cup {h}]
      BY <2>3, <2>6
    <3>4. TableStep(t, [uuid |-> tab.uuid, cols |-> tab.cols, files |-> (F \ {f}) \cup {h}])
      BY <3>1, <2>2
    <3>2. TableStep(t, WithFile(WithoutFile(tab, f), h))
      BY <3>3, <3>4, Zenon
    <3> QED
      BY <3>2, <2>7 DEF h
  <2>8. ASSUME NEW f \in F, SourceCommits(t, WithFile(WithoutFile(tab, f), [f EXCEPT !.path = n + 1]))
        PROVE  \E x : TableStep(t, x) /\ SourceCommits(t, x)
    <3> DEFINE h == [f EXCEPT !.path = n + 1]
    <3>1. FilesStep(F, (F \ {f}) \cup {h}, n + 1)
      BY <2>1
    <3> HIDE DEF h
    <3>3. WithFile(WithoutFile(tab, f), h) = [uuid |-> tab.uuid, cols |-> tab.cols, files |-> (F \ {f}) \cup {h}]
      BY <2>3, <2>6
    <3>4. TableStep(t, [uuid |-> tab.uuid, cols |-> tab.cols, files |-> (F \ {f}) \cup {h}])
      BY <3>1, <2>2
    <3>2. TableStep(t, WithFile(WithoutFile(tab, f), h))
      BY <3>3, <3>4, Zenon
    <3> QED
      BY <3>2, <2>8 DEF h
  <2>9. ASSUME SourceCommits(t, [tab EXCEPT !.cols = 2])
        PROVE  \E x : TableStep(t, x) /\ SourceCommits(t, x)
    <3>1. [tab EXCEPT !.cols = 2] = [uuid |-> tab.uuid, cols |-> 2, files |-> F]
      BY <1>1 DEF GoodTable, SourceTable
    <3>3. 2 \in Nat \ {0}
      OBVIOUS
    <3>4. TableStep(t, [uuid |-> tab.uuid, cols |-> 2, files |-> F])
      BY <3>3, <2>0, <2>1, FilesStepTable
    <3>2. TableStep(t, [tab EXCEPT !.cols = 2])
      BY <3>1, <3>4, Zenon
    <3> QED
      BY <3>2, <2>9
  <2>10. ASSUME SourceCommits(t, NoSourceTable)
         PROVE  \E x : TableStep(t, x) /\ SourceCommits(t, x)
    <3>1. TableStep(t, NoSourceTable)
      BY EmptyTableStep DEF NoSourceTable
    <3> QED
      BY <3>1, <2>10
  <2>11. \/ \E v \in Values : SourceCommits(t, WithFile(tab, [path |-> n + 1, val |-> v, del |-> 0]))
         \/ \E f \in F : f.del = 0 /\ SourceCommits(t, WithFile(WithoutFile(tab, f), [f EXCEPT !.del = 1]))
         \/ \E f \in F : SourceCommits(t, WithoutFile(tab, f))
         \/ \E f \in F : SourceCommits(t, WithFile(WithoutFile(tab, f), [f EXCEPT !.path = n + 1]))
         \/ SourceCommits(t, [tab EXCEPT !.cols = 2])
         \/ SourceCommits(t, NoSourceTable)
    BY <1>4, Zenon DEF SourceStep
  <2> QED
    BY <2>4, <2>5, <2>7, <2>8, <2>9, <2>10, <2>11
<1> QED
  BY <1>3, <1>4

----------------------------------------------------------------------------
(* Replicas and cursors.                                                   *)

\* A row that records nothing but the claim, or no row.
Blank(x) == x.uuid = <<>> /\ x.watermark = None /\ x.snapshot = None

\* The identity of a source table, at some run of the process.
Names(id, u) == IF kind = "ducklake" THEN id = <<u>> ELSE \E e : id = <<e, u>>

\* The cursors are those of a snapshot.
CursorOf(x, t, s) ==
    /\ x.has
    /\ SourceAt(t, s).cols > 0
    /\ Names(x.uuid, SourceAt(t, s).uuid)
    /\ x.snapshot \in {None, s}
    /\ x.watermark \in {None, HighWatermark(RowsAt(t, s))}

\* Cursors that are not ahead of snapshot s.
Follows(x, t, s) == Blank(x) \/ \E s0 \in 1..s : CursorOf(x, t, s0)

\* A cycle between the commit of the rows and that of the cursors.
Writing(c, t) == c.pc \in {"recheck", "upsert"} /\ c.table = t

\* The replica is the table of snapshot s.
Exact(t, s) ==
    /\ dest[t].by = "job" /\ dest[t].cols # 0
    /\ dest[t].watermarked => AppendOnly(t, Current)
    => dest[t].rows = RowsAt(t, s)

\* The replica is the table of snapshot s, and all cursors, stored or about to be, follow it.
Version(t, s) ==
    /\ \A j \in Jobs : Follows(rows[j][t], t, s)
    /\ \A r \in Runners : Follows(cycles[r].states[t], t, s)
    /\ \A r \in Runners : Writing(cycles[r], t) => Follows(cycles[r].outcome, t, s)
    /\ Exact(t, s)

VersionInv == \A t \in Tables : \E s \in 1..Current : Version(t, s)

\* Files are registered from the source.
FilesInv ==
    \A t \in Tables : \A f \in dest[t].files : \E s \in 1..Current : f \in SourceAt(t, s).files

JobStatus == {"none", "created", "running", "error", "paused", "stopped"}

ModesInv ==
    /\ kind \in SourceKinds
    /\ jobs \in [Jobs -> [status : JobStatus, mode : JobModes]]
    /\ \A r \in Runners : cycles[r].mode \in JobModes

\* A step that writes no rows of a replica, and no cursor that was not read or computed before.
CycleCarried(c, d) ==
    /\ d.mode \in JobModes
    /\ \A t \in Tables :
        d.states[t] = c.states[t] \/ Blank(d.states[t]) \/ \E j \in Jobs : d.states[t] = rows[j][t]
    /\ \A t \in Tables : Writing(d, t) => Writing(c, t) /\ d.outcome = c.outcome

RowCarried(x, j, t) ==
    \/ x = rows[j][t]
    \/ Blank(x)
    \/ \E r \in Runners : Writing(cycles[r], t) /\ x = cycles[r].outcome

TableCarried(x, t) ==
    x = dest[t] \/ (x.files = {} /\ (x.by # "job" \/ x.cols = 0))

Carried ==
    /\ history' = history /\ kind' = kind
    /\ \A t \in Tables : TableCarried(dest'[t], t)
    /\ \A j \in Jobs, t \in Tables : RowCarried(rows'[j][t], j, t)
    /\ \A r \in Runners : CycleCarried(cycles[r], cycles'[r])

\* Such a step keeps the versions of the replicas.
LEMMA CarriedInv ==
    ASSUME VersionInv, FilesInv, Carried
    PROVE  VersionInv' /\ FilesInv' /\ \A r \in Runners : cycles'[r].mode \in JobModes
<1>0. history' = history /\ kind' = kind
  BY DEF Carried
<1>1. /\ Current' = Current
      /\ \A t, s : SourceAt(t, s)' = SourceAt(t, s)
      /\ \A t, s : RowsAt(t, s)' = RowsAt(t, s)
      /\ \A t, s : AppendOnly(t, s)' <=> AppendOnly(t, s)
      /\ \A id, u : Names(id, u)' <=> Names(id, u)
  <2>1. Current' = Current /\ \A t, s : SourceAt(t, s)' = SourceAt(t, s)
    BY <1>0 DEF Current, SourceAt
  <2>2. \A t, s : RowsAt(t, s)' = RowsAt(t, s)
    BY <2>1 DEF RowsAt
  <2>3. \A t, s : RowsBefore(t, s)' = RowsBefore(t, s)
    BY <2>1 DEF RowsBefore
  <2>4. \A t, s : Deleted(t, s)' = Deleted(t, s)
    BY <2>1, <2>3 DEF Deleted
  <2>5. \A t, s : AppendOnly(t, s)' <=> AppendOnly(t, s)
    BY <2>1, <2>3, <2>4 DEF AppendOnly
  <2>6. \A id, u : Names(id, u)' <=> Names(id, u)
    BY <1>0 DEF Names
  <2> QED
    BY <2>1, <2>2, <2>5, <2>6
<1>2. \A x, t, s : Follows(x, t, s)' <=> Follows(x, t, s)
  <2>1. \A x, t, s : CursorOf(x, t, s)' <=> CursorOf(x, t, s)
    BY <1>1 DEF CursorOf
  <2> QED
    BY <2>1 DEF Follows
<1>3. ASSUME NEW t \in Tables, NEW s \in 1..Current, Version(t, s)
      PROVE  Version(t, s)'
  <2>1. ASSUME NEW j \in Jobs
        PROVE  Follows(rows'[j][t], t, s)
    <3>1. RowCarried(rows'[j][t], j, t)
      BY DEF Carried
    <3> QED
      BY <3>1, <1>3 DEF RowCarried, Version, Follows
  <2>2. ASSUME NEW r \in Runners
        PROVE  /\ Follows(cycles'[r].states[t], t, s)
               /\ Writing(cycles'[r], t) => Follows(cycles'[r].outcome, t, s)
    <3>1. CycleCarried(cycles[r], cycles'[r])
      BY DEF Carried
    <3>2. Follows(cycles'[r].states[t], t, s)
      <4>1. \/ cycles'[r].states[t] = cycles[r].states[t] \/ Blank(cycles'[r].states[t])
            \/ \E j \in Jobs : cycles'[r].states[t] = rows[j][t]
        BY <3>1 DEF CycleCarried
      <4> QED
        BY <4>1, <1>3 DEF Version, Follows
    <3>3. Writing(cycles'[r], t) => Follows(cycles'[r].outcome, t, s)
      BY <3>1, <1>3 DEF CycleCarried, Version
    <3> QED
      BY <3>2, <3>3
  <2>3. TableCarried(dest'[t], t)
    BY DEF Carried
  <2>4. Exact(t, s)'
    BY <1>1, <1>3, <2>3 DEF Exact, Version, TableCarried
  <2> QED
    BY <2>1, <2>2, <2>4, <1>2 DEF Version
<1>4. VersionInv'
  BY <1>1, <1>3 DEF VersionInv
<1>5. FilesInv'
  <2> SUFFICES ASSUME NEW t \in Tables, NEW f \in dest'[t].files
               PROVE  \E s \in 1..Current : f \in SourceAt(t, s).files
    BY <1>1 DEF FilesInv
  <2>1. TableCarried(dest'[t], t)
    BY DEF Carried
  <2>2. f \in dest[t].files
    BY <2>1 DEF TableCarried
  <2> QED
    BY <2>2 DEF FilesInv
<1> QED
  BY <1>4, <1>5 DEF Carried, CycleCarried

\* What happens to the source does not change the past.
LEMMA SourceInv ==
    ASSUME HistoryInv, VersionInv, FilesInv, NEW t0 \in Tables, SourceStep(t0)
    PROVE  HistoryInv' /\ VersionInv' /\ FilesInv'
<1>1. HistoryInv'
  BY SourceStepHistory
<1>2. PICK x : SourceCommits(t0, x)
  BY SourceStepHistory
<1> DEFINE snap0 == [history[Current] EXCEPT ![t0] = x]
<1>3. /\ history' = Append(history, snap0)
      /\ UNCHANGED <<kind, dest, rows, cycles>>
  BY <1>2 DEF SourceCommits
<1>4. PICK n : n = Current
  OBVIOUS
<1>5. snap0 \in [Tables -> SourceTable]
  <2>1. history \in Seq([Tables -> SourceTable]) /\ history' \in Seq([Tables -> SourceTable])
    BY <1>1 DEF HistoryInv, HistoryType
  <2>2. history'[Len(history) + 1] = snap0 /\ Len(history') = Len(history) + 1
    BY <1>3, <2>1, AppendProperties
  <2>3. Len(history) \in Nat
    BY <2>1, LenProperties
  <2> HIDE DEF snap0
  <2> QED
    BY <2>1, <2>2, <2>3, ElementOfSeq
<1>6. /\ n \in Nat \ {0} /\ Current' = n + 1
      /\ \A t \in Tables : \A s \in 1..n : SourceAt(t, s)' = SourceAt(t, s)
      /\ \A t \in Tables : \A s \in 1..n : AppendOnly(t, s)' => AppendOnly(t, s)
  <2> HIDE DEF snap0
  <2> QED
    BY <1>3, <1>4, <1>5, AppendFacts
<1> HIDE DEF snap0
<1>7. \A t \in Tables : AppendOnly(t, n + 1)' => AppendOnly(t, n)
  <2> SUFFICES ASSUME NEW t \in Tables, AppendOnly(t, n + 1)' PROVE AppendOnly(t, n)
    OBVIOUS
  <2>1. \A s \in 2..n : s \in 2..(n + 1)
    BY <1>6
  <2>2. AppendOnly(t, n)'
    BY <2>1 DEF AppendOnly
  <2>3. n \in 1..n
    BY <1>6
  <2> QED
    BY <2>2, <2>3, <1>6
<1>8. ASSUME NEW t \in Tables, NEW s \in 1..n
      PROVE  RowsAt(t, s)' = RowsAt(t, s) /\ \A y : Follows(y, t, s) => Follows(y, t, s)'
  <2>0. \A s0 \in 1..s : s0 \in 1..n
    BY <1>6
  <2>1. \A s0 \in 1..n : RowsAt(t, s0)' = RowsAt(t, s0) /\ SourceAt(t, s0)' = SourceAt(t, s0)
    BY <1>6 DEF RowsAt
  <2>2. \A id, u : Names(id, u)' <=> Names(id, u)
    BY <1>3 DEF Names
  <2>3. \A y : \A s0 \in 1..n : CursorOf(y, t, s0) => CursorOf(y, t, s0)'
    BY <2>1, <2>2 DEF CursorOf
  <2> QED
    BY <2>0, <2>1, <2>3 DEF Follows
<1>9. ASSUME NEW t \in Tables, NEW s \in 1..n, Version(t, s)
      PROVE  Version(t, s)'
  <2>1. Exact(t, s)'
    <3> SUFFICES ASSUME dest[t].by = "job", dest[t].cols # 0,
                        dest[t].watermarked => AppendOnly(t, Current)'
                 PROVE  dest[t].rows = RowsAt(t, s)'
      BY <1>3 DEF Exact
    <3>1. dest[t].watermarked => AppendOnly(t, Current)
      <4>1. AppendOnly(t, Current)' => AppendOnly(t, n + 1)'
        BY <1>6 DEF AppendOnly
      <4> QED
        BY <4>1, <1>4, <1>7
    <3> QED
      BY <3>1, <1>8, <1>9 DEF Version, Exact
  <2>2. \A y : Follows(y, t, s) => Follows(y, t, s)'
    BY <1>8
  <2>3. \A j \in Jobs : Follows(rows[j][t], t, s)'
    BY <1>3, <1>9, <2>2 DEF Version
  <2>4. \A r \in Runners : Follows(cycles[r].states[t], t, s)'
    BY <1>3, <1>9, <2>2 DEF Version
  <2>5. \A r \in Runners : Writing(cycles[r], t)' => Follows(cycles[r].outcome, t, s)'
    BY <1>3, <1>9, <2>2 DEF Version
  <2> QED
    BY <2>1, <2>3, <2>4, <2>5 DEF Version
<1>10. \A s \in 1..n : s \in 1..(n + 1)
  BY <1>6
<1>11. VersionInv'
  BY <1>4, <1>6, <1>9, <1>10 DEF VersionInv
<1>12. FilesInv'
  <2> SUFFICES ASSUME NEW t \in Tables, NEW f \in dest[t].files
               PROVE  \E s \in 1..(n + 1) : f \in SourceAt(t, s)'.files
    BY <1>3, <1>6 DEF FilesInv
  <2>1. PICK s \in 1..n : f \in SourceAt(t, s).files
    BY <1>4 DEF FilesInv
  <2> QED
    BY <2>1, <1>6, <1>10
<1> QED
  BY <1>1, <1>11, <1>12

\* Sharing files and merging keyed rows make the replica's files the source's.
LEMMA ShareSyncExact ==
    ASSUME NEW F, NEW G, \A f \in F : IsFile(f), \A g \in G : IsFile(g),
           \A f, g \in G : f.path = g.path => f = g,
           \A f \in F, g \in G : f.path = g.path => f.val = g.val
    PROVE  ApplyShareSync(F, G) = G
<1> DEFINE matched == {f \in F : \E g \in G : g.path = f.path /\ g.del = f.del}
<1>1. ApplyShareSync(F, G) = matched \cup {g \in G : ~\E f \in matched : f.path = g.path}
  BY DEF ApplyShareSync
<1>2. \A f, g : IsFile(f) /\ IsFile(g) /\ f.path = g.path /\ f.val = g.val /\ f.del = g.del => f = g
  BY DEF IsFile, File
<1>3. matched \subseteq G
  BY <1>2
<1>4. \A g \in G : (\E f \in matched : f.path = g.path) => g \in matched
  <2> HIDE DEF matched
  <2> QED
    BY <1>3
<1> HIDE DEF matched
<1>5. \A g : g \in ApplyShareSync(F, G) <=> g \in G
  BY <1>1, <1>3, <1>4
<1> QED
  BY <1>5

\* Merging by key makes the keyed rows the source's.
LEMMA PkMergeExact ==
    ASSUME NEW F, NEW G, \A f, g \in G : f.path = g.path => f = g
    PROVE  ApplyPkMerge(F, G) = G
<1> DEFINE kept == {f \in F : \E g \in G : g.path = f.path}
           same == {f \in kept : f \in G}
<1>1. ApplyPkMerge(F, G) = same \cup {g \in G : ~\E f \in same : f.path = g.path}
  BY DEF ApplyPkMerge
<1>2. same \subseteq G
  OBVIOUS
<1> HIDE DEF same
<1>3. \A g \in G : (\E f \in same : f.path = g.path) => g \in same
  BY <1>2
<1>4. \A g : g \in ApplyPkMerge(F, G) <=> g \in G
  BY <1>1, <1>2, <1>3
<1> QED
  BY <1>4

\* Changes that are applied leave what is wanted, or the replica as it is.
LEMMA SnapshotDeltaExact ==
    ASSUME HistoryInv, NEW t \in Tables, NEW s \in 1..Current, NEW low \in 1..s, NEW bag, bag = RowsAt(t, s)
    PROVE  ApplySnapshotDelta(bag, t, low, Current) = RowsAt(t, Current)
<1>0. Current \in Nat \ {0} /\ Current \in 1..Current
  BY CurrentTable
<1>1. CASE Current <= low \/ ~\E x \in low..Current : Changed(t, x)
  <2>1. ApplySnapshotDelta(bag, t, low, Current) = bag
    BY <1>1 DEF ApplySnapshotDelta
  <2>2. \A x \in (s + 1)..Current : ~Changed(t, x)
    BY <1>0, <1>1
  <2>3. RowsAt(t, s) = RowsAt(t, Current)
    BY <1>0, <2>2 DEF HistoryInv, QuietInv
  <2> QED
    BY <2>1, <2>3
<1>2. CASE ~(Current <= low \/ ~\E x \in low..Current : Changed(t, x))
  BY <1>2, Zenon DEF ApplySnapshotDelta, RowsAt
<1> QED
  BY <1>1, <1>2

\* Fewer snapshots are append-only too.
LEMMA AppendOnlyUpTo ==
    ASSUME HistoryInv, NEW t \in Tables, NEW s \in 1..Current, AppendOnly(t, Current)
    PROVE  AppendOnly(t, s)
<1>1. Current \in Nat
  BY CurrentTable
<1>2. \A x \in 2..s : x \in 2..Current
  BY <1>1
<1> QED
  BY <1>2 DEF AppendOnly

\* Rows from the watermark on are replaced; those below it are as they were.
LEMMA WatermarkDeltaExact ==
    ASSUME HistoryInv, NEW t \in Tables, NEW s \in 1..Current, NEW s0 \in 1..s, AppendOnly(t, Current),
           SourceAt(t, s0).cols > 0, SourceAt(t, s0).uuid = Source(t).uuid, Source(t).cols > 0,
           NEW low, low = HighWatermark(RowsAt(t, s0)), low # None
    PROVE  /\ HighWatermark(RowsAt(t, Current)) # None
           /\ ApplyWatermarkDelta(RowsAt(t, s), RowsAt(t, Current), low) = RowsAt(t, Current)
<1>0. Current \in Nat \ {0} /\ Current \in 1..Current /\ s0 \in 1..Current /\ s \in s0..Current
  BY CurrentTable
<1>1. \A x \in 1..Current : GoodTable(SourceAt(t, x), x)
  BY DEF HistoryInv, HistoryType
<1>2. SourceAt(t, s0).uuid # 0 /\ Source(t).uuid # 0
  BY <1>0, <1>1 DEF GoodTable, SourceTable
<1>3. SourceAt(t, s).uuid = SourceAt(t, Current).uuid
  BY <1>0, <1>2 DEF HistoryInv, LineageInv, Source
<1>4. SourceAt(t, s).cols > 0
  BY <1>1, <1>2, <1>3 DEF GoodTable, SourceTable, Source
<1>5. Grown(RowsAt(t, s0), RowsAt(t, s))
  <2>1. AppendOnly(t, s) /\ SourceAt(t, s0).uuid = SourceAt(t, s).uuid
    BY <1>3, AppendOnlyUpTo DEF Source
  <2> QED
    BY <2>1, <1>4 DEF HistoryInv, GrowthInv
<1>6. Grown(RowsAt(t, s0), RowsAt(t, Current))
  BY <1>0 DEF HistoryInv, GrowthInv, Source
<1>7. \A x \in 1..Current :
        /\ \A v \in Values : RowsAt(t, x)[v] \in Nat
        /\ RowsAt(t, x) = [v \in Values |-> RowsAt(t, x)[v]]
  <2> SUFFICES ASSUME NEW x \in 1..Current
               PROVE  /\ \A v \in Values : RowsAt(t, x)[v] \in Nat
                      /\ RowsAt(t, x) = [v \in Values |-> RowsAt(t, x)[v]]
    OBVIOUS
  <2>1. IsFiles(SourceAt(t, x).files)
    BY <1>1 DEF GoodTable
  <2> QED
    BY <2>1, RowsOfType DEF RowsAt
<1> DEFINE a == RowsAt(t, s0)
           b == RowsAt(t, s)
           c == RowsAt(t, Current)
<1>8. /\ \A v \in Values : a[v] \in Nat /\ b[v] \in Nat /\ c[v] \in Nat
      /\ c = [v \in Values |-> c[v]]
  BY <1>0, <1>7
<1>9. Grown(a, b) /\ Grown(a, c) /\ low = HighWatermark(a)
  BY <1>5, <1>6
<1> HIDE DEF a, b, c
<1>10. low \in Values \ {0}
  BY <1>8, <1>9, HighFacts
<1>11. HighWatermark(c) # None
  <2>1. HighWatermark(a) <= HighWatermark(c)
    BY <1>8, <1>9, HighGrows DEF Grown
  <2>2. low \in Nat
    BY <1>10, ReplicationConstants DEF Values
  <2>3. HighWatermark(c) \in Int
    BY <1>8, HighFacts
  <2> QED
    BY <2>1, <2>2, <2>3, <1>9 DEF None
<1>12. ASSUME NEW v \in Values
       PROVE  (IF v >= low THEN c[v] ELSE b[v]) = c[v]
  <2>1. v \in Int /\ low \in Int
    BY <1>10 DEF Values
  <2>2. v < low => a[v] = b[v] /\ a[v] = c[v]
    BY <1>9 DEF Grown
  <2> QED
    BY <2>1, <2>2
<1>13. ApplyWatermarkDelta(b, c, low) = [v \in Values |-> c[v]]
  BY <1>12 DEF ApplyWatermarkDelta
<1> QED
  BY <1>8, <1>11, <1>13 DEF b, c

\* How a plan comes about.
LEMMA PlanFacts ==
    ASSUME NEW c, NEW p, p = SyncPlan(c), c.mode \in JobModes, kind \in SourceKinds
    PROVE  /\ p.strategy \in {"share", "merge", "full", "watermark", "snapshot"}
           /\ p.strategy = "full" => p.reseed
           /\ p.creates => p.recreated
           /\ ~p.reseed => ~p.recreated /\ ~IdentityChanged(c)
           /\ ~p.reseed /\ p.strategy = "watermark" => c.states[c.table].watermark # None
           /\ ~p.reseed /\ p.strategy = "snapshot" => c.states[c.table].snapshot # None
<1>1. p.strategy = ChooseStrategy(c.mode)
  BY DEF SyncPlan
<1>2. ChooseStrategy(c.mode) \in {"share", "merge", "full", "watermark", "snapshot"}
  BY DEF ChooseStrategy, JobModes, SourceKinds
<1>3. p.strategy = "full" => p.reseed
  BY Zenon DEF SyncPlan
<1>4. p.creates => p.recreated
  BY Zenon DEF SyncPlan
<1>5. ~p.reseed => ~p.recreated
  BY Zenon DEF SyncPlan
<1>6. ~p.reseed => ~IdentityChanged(c)
  BY Zenon DEF SyncPlan
<1>7. ~p.reseed /\ p.strategy = "watermark" => c.states[c.table].watermark # None
  BY Zenon DEF SyncPlan
<1>8. ~p.reseed /\ p.strategy = "snapshot" => c.states[c.table].snapshot # None
  BY Zenon DEF SyncPlan
<1> QED
  BY <1>1, <1>2, <1>3, <1>4, <1>5, <1>6, <1>7, <1>8

\* The files of a replica that shares them, or whose rows have keys, are the source's.
LEMMA SyncedFilesExact ==
    ASSUME HistoryInv, FilesInv, NEW c, NEW p, c.table \in Tables
    PROVE  /\ p.strategy \in {"share", "merge"} => SyncedFiles(c, p) = Source(c.table).files
           /\ p.strategy \notin {"share", "merge"} => SyncedFiles(c, p) = {}
<1> DEFINE t == c.table
           F == IF p.recreated THEN {} ELSE dest[t].files
           G == Source(t).files
<1>0. Current \in 1..Current /\ GoodTable(Source(t), Current)
  BY CurrentTable
<1>1. \A g \in G : IsFile(g)
  BY <1>0 DEF GoodTable, IsFiles
<1>2. \A f, g \in G : f.path = g.path => f = g
  BY <1>0 DEF GoodTable
<1>3. ASSUME NEW f \in F
      PROVE  IsFile(f) /\ \A g \in G : f.path = g.path => f.val = g.val
  <2>1. PICK s \in 1..Current : f \in SourceAt(t, s).files
    BY <1>3 DEF FilesInv
  <2>2. IsFile(f)
    BY <2>1 DEF HistoryInv, HistoryType, GoodTable, IsFiles
  <2>3. \A g \in SourceAt(t, Current).files : f.path = g.path => f.val = g.val
    BY <2>1, <1>0 DEF HistoryInv, PathsInv
  <2> QED
    BY <2>2, <2>3 DEF Source
<1> HIDE DEF F, G
<1>4. ApplyShareSync(F, G) = G
  BY <1>1, <1>2, <1>3, ShareSyncExact
<1>5. ApplyPkMerge(F, G) = G
  BY <1>2, PkMergeExact
<1>6. CASE p.strategy = "share"
  BY <1>4, <1>6 DEF SyncedFiles, F, G
<1>7. CASE p.strategy = "merge"
  BY <1>5, <1>7 DEF SyncedFiles, F, G
<1>8. CASE p.strategy \notin {"share", "merge"}
  BY <1>8 DEF SyncedFiles
<1> QED
  BY <1>6, <1>7, <1>8 DEF G

\* The transaction of a table leaves the replica as the source is now.
LEMMA SyncExact ==
    ASSUME HistoryInv, FilesInv, NEW c, NEW t \in Tables, c.table = t, c.mode \in JobModes, kind \in SourceKinds,
           NEW p, p = SyncPlan(c), ~SyncError(c, p),
           NEW s \in 1..Current, Follows(c.states[t], t, s), Exact(t, s),
           Rewritten(p) \/ dest[t].by = "job",
           p.strategy = "watermark" \/ (~p.reseed /\ dest[t].watermarked) => AppendOnly(t, Current)
    PROVE  SyncedRows(c, p) = RowsAt(t, Current)
<1>0. Current \in Nat \ {0} /\ Current \in 1..Current /\ GoodTable(Source(t), Current)
  BY CurrentTable
<1>1. /\ p.strategy \in {"share", "merge", "full", "watermark", "snapshot"}
      /\ p.strategy = "full" => p.reseed
      /\ p.creates => p.recreated
      /\ ~p.reseed => ~p.recreated /\ ~IdentityChanged(c)
      /\ ~p.reseed /\ p.strategy = "watermark" => c.states[t].watermark # None
      /\ ~p.reseed /\ p.strategy = "snapshot" => c.states[t].snapshot # None
  BY PlanFacts
<1>2. RowsAt(t, Current) = RowsOf(Source(t).files)
  BY DEF RowsAt, Source
<1>3. Source(t).cols > 0
  BY <1>0 DEF SyncError, GoodTable, SourceTable
<1>4. CASE p.strategy \in {"share", "merge"}
  <2>1. SyncedRows(c, p) = RowsOf(SyncedFiles(c, p))
    BY <1>4 DEF SyncedRows
  <2> QED
    BY <1>2, <1>4, <2>1, SyncedFilesExact
<1>5. CASE p.strategy \notin {"share", "merge"} /\ p.reseed
  BY <1>2, <1>5 DEF SyncedRows
<1>6. ASSUME p.strategy \in {"watermark", "snapshot"}, ~p.reseed
      PROVE  dest[t].rows = RowsAt(t, s)
  <2>1. ~p.recreated /\ ~p.creates
    BY <1>1, <1>6
  <2>2. dest[t].cols # 0
    BY <2>1 DEF SyncError
  <2>3. ~Rewritten(p)
    BY <2>1, <1>6 DEF Rewritten
  <2>4. dest[t].by = "job" /\ (dest[t].watermarked => AppendOnly(t, Current))
    BY <2>3, <1>6
  <2> QED
    BY <2>2, <2>4 DEF Exact
<1>7. ASSUME p.strategy \in {"watermark", "snapshot"}, ~p.reseed
      PROVE  \E s0 \in 1..s : CursorOf(c.states[t], t, s0) /\ SourceAt(t, s0).uuid = Source(t).uuid
  <2>1. ~Blank(c.states[t])
    BY <1>1, <1>7 DEF Blank
  <2>2. PICK s0 \in 1..s : CursorOf(c.states[t], t, s0)
    BY <2>1 DEF Follows
  <2>3. c.states[t].uuid = SourceIdentity(t)
    BY <1>1, <1>7, <2>2 DEF IdentityChanged, CursorOf
  <2>4. Names(SourceIdentity(t), SourceAt(t, s0).uuid)
    BY <2>2, <2>3 DEF CursorOf
  <2>5. SourceAt(t, s0).uuid = Source(t).uuid
    BY <2>4 DEF Names, SourceIdentity
  <2> QED
    BY <2>2, <2>5
<1>8. CASE p.strategy = "watermark" /\ ~p.reseed
  <2>1. dest[t].rows = RowsAt(t, s)
    BY <1>6, <1>8
  <2>2. PICK s0 \in 1..s : CursorOf(c.states[t], t, s0) /\ SourceAt(t, s0).uuid = Source(t).uuid
    BY <1>7, <1>8
  <2> DEFINE low == c.states[t].watermark
  <2>3. low # None /\ low = HighWatermark(RowsAt(t, s0)) /\ SourceAt(t, s0).cols > 0
    BY <1>1, <1>8, <2>2 DEF CursorOf
  <2>4. /\ HighWatermark(RowsAt(t, Current)) # None
        /\ ApplyWatermarkDelta(RowsAt(t, s), RowsAt(t, Current), low) = RowsAt(t, Current)
    <3> HIDE DEF low
    <3> QED
      BY <1>3, <1>8, <2>2, <2>3, WatermarkDeltaExact
  <2>5. ~p.recreated
    BY <1>1, <1>8
  <2>6. SyncedRows(c, p) = ApplyWatermarkDelta(dest[t].rows, RowsOf(Source(t).files), low)
    BY <1>2, <1>8, <2>4, <2>5 DEF SyncedRows
  <2> QED
    BY <2>1, <2>4, <2>6, <1>2
<1>9. CASE p.strategy = "snapshot" /\ ~p.reseed
  <2>1. dest[t].rows = RowsAt(t, s)
    BY <1>6, <1>9
  <2>2. PICK s0 \in 1..s : CursorOf(c.states[t], t, s0)
    BY <1>7, <1>9
  <2>3. c.states[t].snapshot = s0
    BY <1>1, <1>9, <2>2 DEF CursorOf
  <2>5. ~p.recreated
    BY <1>1, <1>9
  <2>6. SyncedRows(c, p) = ApplySnapshotDelta(dest[t].rows, t, s0, Current)
    BY <1>9, <2>3, <2>5 DEF SyncedRows
  <2> QED
    BY <2>1, <2>2, <2>6, SnapshotDeltaExact
<1> QED
  BY <1>1, <1>4, <1>5, <1>8, <1>9

\* Cursors that follow a snapshot follow the later ones.
LEMMA FollowsLater ==
    ASSUME HistoryInv, NEW t \in Tables, NEW s \in 1..Current, NEW x, Follows(x, t, s)
    PROVE  Follows(x, t, Current)
<1>1. \A s0 \in 1..s : s0 \in 1..Current
  BY CurrentTable
<1> QED
  BY <1>1 DEF Follows

\* After the transaction of a table, its replica and its cursors are those of the current snapshot.
LEMMA SyncTableInv ==
    ASSUME TypeInv, HistoryInv, ModesInv, VersionInv, FilesInv, NEW r \in Runners, SyncTable(r)
    PROVE  VersionInv' /\ FilesInv' /\ ModesInv'
<1>1. PICK c : c = cycles[r]
  OBVIOUS
<1>2. PICK p : p = SyncPlan(c)
  OBVIOUS
<1>3. PICK t : t = c.table
  OBVIOUS
<1> DEFINE new == [by |-> IF Rewritten(p) THEN "job" ELSE dest[t].by, cols |-> p.cols,
                   rows |-> SyncedRows(c, p), files |-> SyncedFiles(c, p),
                   watermarked |-> (p.strategy = "watermark" \/ (~p.reseed /\ dest[t].watermarked))]
           d == [c EXCEPT !.pc = "recheck", !.outcome = Outcome(c, p)]
<1>4. c.pc = "sync" /\ ~SyncError(c, p)
  BY <1>1, <1>2 DEF SyncTable
<1>5. dest' = [dest EXCEPT ![t] = new]
  BY <1>1, <1>2, <1>3, Zenon DEF SyncTable
<1>6. /\ cycles' = [cycles EXCEPT ![r] = d]
      /\ rows' = rows /\ history' = history /\ kind' = kind /\ jobs' = jobs
  BY <1>1, <1>2 DEF SyncTable, source, metadata, TypeInv
<1>7. t \in Tables /\ IsCycle(c)
  BY <1>1, <1>3, <1>4 DEF TypeInv, IsCycle
<1>8. /\ d.pc = "recheck" /\ d.outcome = Outcome(c, p) /\ d.table = t /\ d.states = c.states
      /\ d.mode = c.mode
  BY <1>3, <1>7 DEF IsCycle, CycleFields
<1>9. /\ cycles'[r] = d
      /\ \A q \in Runners \ {r} : cycles'[q] = cycles[q]
  BY <1>6 DEF TypeInv
<1>10. /\ dest'[t] = new
       /\ \A u \in Tables \ {t} : dest'[u] = dest[u]
  BY <1>5, <1>7 DEF TypeInv
<1>11. /\ new.by = IF Rewritten(p) THEN "job" ELSE dest[t].by
       /\ new.rows = SyncedRows(c, p) /\ new.files = SyncedFiles(c, p)
  OBVIOUS
<1>12. new.watermarked <=> p.strategy = "watermark" \/ (~p.reseed /\ dest[t].watermarked)
  BY Zenon
<1> HIDE DEF new, d
<1>13. /\ Current' = Current
       /\ \A u, s : SourceAt(u, s)' = SourceAt(u, s)
       /\ \A u, s : RowsAt(u, s)' = RowsAt(u, s)
       /\ \A u, s : AppendOnly(u, s)' <=> AppendOnly(u, s)
       /\ \A x, u, s : Follows(x, u, s)' <=> Follows(x, u, s)
  <2>1. Current' = Current /\ \A u, s : SourceAt(u, s)' = SourceAt(u, s)
    BY <1>6 DEF Current, SourceAt
  <2>2. \A u, s : RowsAt(u, s)' = RowsAt(u, s)
    BY <2>1 DEF RowsAt
  <2>3. \A u, s : RowsBefore(u, s)' = RowsBefore(u, s)
    BY <2>1 DEF RowsBefore
  <2>4. \A u, s : Deleted(u, s)' = Deleted(u, s)
    BY <2>1, <2>3 DEF Deleted
  <2>5. \A u, s : AppendOnly(u, s)' <=> AppendOnly(u, s)
    BY <2>1, <2>3, <2>4 DEF AppendOnly
  <2>6. \A id, u : Names(id, u)' <=> Names(id, u)
    BY <1>6 DEF Names
  <2>7. \A x, u, s : CursorOf(x, u, s)' <=> CursorOf(x, u, s)
    BY <2>1, <2>2, <2>6 DEF CursorOf
  <2>8. \A x, u, s : Follows(x, u, s)' <=> Follows(x, u, s)
    BY <2>7 DEF Follows
  <2> QED
    BY <2>1, <2>2, <2>5, <2>8
<1>14. Current \in 1..Current /\ Current \in Nat /\ GoodTable(Source(t), Current)
  BY <1>7, CurrentTable
<1>15. c.mode \in JobModes /\ kind \in SourceKinds
  BY <1>1 DEF ModesInv
<1>16. PICK s \in 1..Current : Version(t, s)
  BY <1>7 DEF VersionInv
<1>17. Follows(Outcome(c, p), t, Current)
  <2> DEFINE x == Outcome(c, p)
  <2>1. /\ x.has /\ x.uuid = SourceIdentity(t)
        /\ x.watermark \in {None, HighWatermark(RowsAt(t, Current))}
        /\ x.snapshot \in {None, Current}
    BY <1>3 DEF Outcome, RowsAt, Source
  <2>2. Source(t).cols > 0
    BY <1>3, <1>4, <1>14 DEF SyncError, GoodTable, SourceTable
  <2>3. Names(SourceIdentity(t), Source(t).uuid)
    BY DEF Names, SourceIdentity
  <2> HIDE DEF x
  <2>4. CursorOf(x, t, Current)
    BY <2>1, <2>2, <2>3 DEF CursorOf, Source
  <2> QED
    BY <2>4, <1>14 DEF Follows, x
<1>n. PICK n : n = Current
  OBVIOUS
<1>18. Exact(t, n)'
  <2> SUFFICES ASSUME dest'[t].by = "job", dest'[t].cols # 0,
                      dest'[t].watermarked => AppendOnly(t, Current)
               PROVE  dest'[t].rows = RowsAt(t, n)
    BY <1>13 DEF Exact
  <2>1. Rewritten(p) \/ dest[t].by = "job"
    BY <1>10, <1>11
  <2>2. p.strategy = "watermark" \/ (~p.reseed /\ dest[t].watermarked) => AppendOnly(t, Current)
    BY <1>10, <1>12
  <2>3. Follows(c.states[t], t, s) /\ Exact(t, s)
    BY <1>1, <1>16 DEF Version
  <2>4. SyncedRows(c, p) = RowsAt(t, Current)
    BY <2>1, <2>2, <2>3, <1>2, <1>3, <1>4, <1>7, <1>15, SyncExact
  <2> QED
    BY <2>4, <1>10, <1>11, <1>n
<1>19. Version(t, n)'
  <2>1. \A x : Follows(x, t, s) => Follows(x, t, Current)
    BY <1>7, FollowsLater
  <2>2. \A j \in Jobs : Follows(rows'[j][t], t, Current)
    BY <1>6, <1>16, <2>1 DEF Version
  <2>3. ASSUME NEW q \in Runners
        PROVE  /\ Follows(cycles'[q].states[t], t, Current)
               /\ Writing(cycles'[q], t) => Follows(cycles'[q].outcome, t, Current)
    <3>1. CASE q = r
      BY <3>1, <1>1, <1>8, <1>9, <1>16, <1>17, <2>1 DEF Version
    <3>2. CASE q # r
      <4>1. cycles'[q] = cycles[q]
        BY <3>2, <1>9
      <4> QED
        BY <4>1, <1>16, <2>1 DEF Version
    <3> QED
      BY <3>1, <3>2
  <2> QED
    BY <1>13, <1>18, <1>n, <2>2, <2>3 DEF Version
<1>20. ASSUME NEW u \in Tables, u # t, NEW s1 \in 1..Current, Version(u, s1)
       PROVE  Version(u, s1)'
  <2>1. dest'[u] = dest[u]
    BY <1>10, <1>20
  <2>2. Exact(u, s1)'
    BY <2>1, <1>13, <1>20 DEF Exact, Version
  <2>3. ASSUME NEW q \in Runners
        PROVE  /\ Follows(cycles'[q].states[u], u, s1)
               /\ Writing(cycles'[q], u) => Follows(cycles'[q].outcome, u, s1)
    <3>1. CASE q = r
      BY <3>1, <1>1, <1>8, <1>9, <1>20 DEF Version, Writing
    <3>2. CASE q # r
      <4>1. cycles'[q] = cycles[q]
        BY <3>2, <1>9
      <4> QED
        BY <4>1, <1>20 DEF Version
    <3> QED
      BY <3>1, <3>2
  <2>4. \A j \in Jobs : Follows(rows'[j][u], u, s1)
    BY <1>6, <1>20 DEF Version
  <2> QED
    BY <1>13, <2>2, <2>3, <2>4 DEF Version
<1>21. VersionInv'
  <2> SUFFICES ASSUME NEW u \in Tables PROVE \E s1 \in 1..Current : Version(u, s1)'
    BY <1>13 DEF VersionInv
  <2>1. CASE u = t
    BY <2>1, <1>n, <1>14, <1>19
  <2>2. CASE u # t
    BY <2>2, <1>20 DEF VersionInv
  <2> QED
    BY <2>1, <2>2
<1>22. FilesInv'
  <2> SUFFICES ASSUME NEW u \in Tables, NEW f \in dest'[u].files
               PROVE  \E s1 \in 1..Current : f \in SourceAt(u, s1).files
    BY <1>13 DEF FilesInv
  <2>1. CASE u = t
    <3>1. SyncedFiles(c, p) = Source(t).files \/ SyncedFiles(c, p) = {}
      BY <1>3, <1>7, SyncedFilesExact
    <3>2. f \in SourceAt(t, Current).files
      BY <2>1, <3>1, <1>10, <1>11 DEF Source
    <3> QED
      BY <2>1, <3>2, <1>14
  <2>2. CASE u # t
    BY <2>2, <1>10 DEF FilesInv
  <2> QED
    BY <2>1, <2>2
<1>23. ModesInv'
  <2>1. \A q \in Runners : cycles'[q].mode \in JobModes
    BY <1>1, <1>8, <1>9 DEF ModesInv
  <2> QED
    BY <2>1, <1>6 DEF ModesInv
<1> QED
  BY <1>21, <1>22, <1>23

\* What a step leaves alone is carried.
LEMMA SameCarried ==
    ASSUME ModesInv
    PROVE  /\ dest' = dest => \A t \in Tables : TableCarried(dest'[t], t)
           /\ rows' = rows => \A j \in Jobs, t \in Tables : RowCarried(rows'[j][t], j, t)
           /\ \A r \in Runners : CycleCarried(cycles[r], cycles[r])
BY DEF TableCarried, RowCarried, CycleCarried, ModesInv

\* A step of one thread.
LEMMA ThreadCarried ==
    ASSUME TypeInv, ModesInv, NEW r \in Runners, NEW d, CycleCarried(cycles[r], d),
           cycles' = [cycles EXCEPT ![r] = d], history' = history, kind' = kind,
           \A t \in Tables : TableCarried(dest'[t], t),
           \A j \in Jobs, t \in Tables : RowCarried(rows'[j][t], j, t)
    PROVE  Carried
<1>1. cycles'[r] = d /\ \A q \in Runners \ {r} : cycles'[q] = cycles[q]
  BY DEF TypeInv
<1>2. \A q \in Runners : CycleCarried(cycles[q], cycles[q])
  BY SameCarried
<1>3. \A q \in Runners : CycleCarried(cycles[q], cycles'[q])
  BY <1>1, <1>2
<1> QED
  BY <1>3 DEF Carried

\* A row that is written.
LEMMA WriteCarried ==
    ASSUME IsRows(rows), NEW j \in Jobs, NEW t \in Tables, NEW x, RowCarried(x, j, t),
           rows' = [rows EXCEPT ![j][t] = x]
    PROVE  \A i \in Jobs, u \in Tables : RowCarried(rows'[i][u], i, u)
<1>1. \A i \in Jobs, u \in Tables : rows'[i][u] = IF i = j /\ u = t THEN x ELSE rows[i][u]
  BY DEF IsRows
<1>2. \A i \in Jobs, u \in Tables : RowCarried(rows[i][u], i, u)
  BY DEF RowCarried
<1> QED
  BY <1>1, <1>2

\* The row that a failure leaves.
LEMMA FailureCarried ==
    ASSUME ModesInv, IsRows(rows), NEW j \in Jobs, NEW t \in Tables, rows' = MarkTableError(j, t)
    PROVE  \A i \in Jobs, u \in Tables : RowCarried(rows'[i][u], i, u)
<1>1. RowCarried(ClaimRow, j, t)
  BY DEF RowCarried, Blank, ClaimRow, NoRow
<1>2. CASE rows' = rows
  BY <1>2, SameCarried
<1>3. CASE rows' = [rows EXCEPT ![j][t] = ClaimRow]
  BY <1>1, <1>3, WriteCarried
<1> QED
  BY <1>2, <1>3 DEF MarkTableError

\* A cycle that moves on with what it has read.
LEMMA MovesOn ==
    ASSUME ModesInv, NEW r \in Runners, NEW d, d.states = cycles[r].states, d.mode = cycles[r].mode,
           d.pc \notin {"recheck", "upsert"} \/
             (cycles[r].pc \in {"recheck", "upsert"} /\ d.table = cycles[r].table /\ d.outcome = cycles[r].outcome)
    PROVE  CycleCarried(cycles[r], d)
BY DEF CycleCarried, ModesInv, Writing

\* A cycle that ends.
LEMMA NoCycleCarried ==
    ASSUME NEW c
    PROVE  CycleCarried(c, NoCycle)
<1>1. \A t \in Tables : Blank(NoCycle.states[t])
  BY DEF NoCycle, Blank, NoRow
<1>2. NoCycle.pc = "idle" /\ NoCycle.mode \in JobModes
  BY DEF NoCycle, JobModes
<1> QED
  BY <1>1, <1>2 DEF CycleCarried, Writing

\* The steps of a cycle, but for the transaction of a table.
LEMMA CycleStepCarried ==
    ASSUME TypeInv, ModesInv, NEW r \in Runners,
           \/ \E t \in Tables : DropStale(r, t) \/ BeginTable(r, t) \/ DropStaleFails(r, t)
           \/ DeleteTableState(r) \/ DropsDone(r) \/ Claim(r) \/ SyncFails(r) \/ SyncFault(r)
           \/ RecheckJob(r) \/ UpsertTableSyncState(r) \/ EndCycle(r) \/ AbortCycle(r)
    PROVE  Carried
<1> DEFINE c == cycles[r]
<1>0. IsCycle(c) /\ IsRows(rows) /\ DOMAIN c = CycleFields
  BY DEF TypeInv, IsCycle
<1>w. c.pc \in {"forget", "claim", "sync", "upsert"} => c.job \in Jobs /\ c.table \in Tables
  BY <1>0 DEF IsCycle
<1>s. /\ dest' = dest => \A t \in Tables : TableCarried(dest'[t], t)
      /\ rows' = rows => \A j \in Jobs, t \in Tables : RowCarried(rows'[j][t], j, t)
  BY SameCarried
<1>e. CycleCarried(c, NoCycle)
  BY NoCycleCarried
<1>1. ASSUME NEW t \in Tables, DropStale(r, t) PROVE Carried
  <2> DEFINE d == [c EXCEPT !.pc = "forget", !.table = t]
  <2>1. /\ cycles' = [cycles EXCEPT ![r] = d]
        /\ dest' = [dest EXCEPT ![t] = NoDestTable]
        /\ rows' = rows /\ history' = history /\ kind' = kind
    BY <1>1, ZenonT(60) DEF DropStale, metadata, source, TypeInv
  <2>2. d.states = c.states /\ d.mode = c.mode /\ d.pc = "forget"
    BY <1>0 DEF CycleFields
  <2>3. \A u \in Tables : TableCarried(dest'[u], u)
    BY <2>1 DEF TypeInv, TableCarried, NoDestTable
  <2> HIDE DEF d
  <2>4. CycleCarried(c, d)
    BY <2>2, MovesOn
  <2> QED
    BY <1>s, <2>1, <2>3, <2>4, ThreadCarried
<1>2. ASSUME NEW t \in Tables, BeginTable(r, t) PROVE Carried
  <2>0. rows' = rows /\ dest' = dest /\ c.pc = "table" /\ history' = history /\ kind' = kind
    BY <1>2, ZenonT(60) DEF BeginTable, metadata, source
  <2>1. CASE Rejected(c, t)
    <3> DEFINE d == [c EXCEPT !.todo = @ \ {t}, !.failed = TRUE]
    <3>1. cycles' = [cycles EXCEPT ![r] = d]
      BY <1>2, <2>1, ZenonT(60) DEF BeginTable, TypeInv
    <3>2. d.states = c.states /\ d.mode = c.mode /\ d.pc = "table"
      BY <1>0, <2>0 DEF CycleFields
    <3> HIDE DEF d
    <3>3. CycleCarried(c, d)
      BY <3>2, MovesOn, SMTT(60)
    <3> QED
      BY <1>s, <2>0, <3>1, <3>3, ThreadCarried
  <2>2. CASE ~Rejected(c, t)
    <3> DEFINE d == [c EXCEPT !.pc = IF c.states[t].has THEN "sync" ELSE "claim",
                              !.todo = @ \ {t}, !.table = t,
                              !.cols = Source(t).cols, !.dest_cols = dest[t].cols]
    <3>1. cycles' = [cycles EXCEPT ![r] = d]
      BY <1>2, <2>2, ZenonT(60) DEF BeginTable, TypeInv
    <3>2. d.states = c.states /\ d.mode = c.mode /\ d.pc \in {"sync", "claim"}
      BY <1>0 DEF CycleFields
    <3> HIDE DEF d
    <3>3. CycleCarried(c, d)
      BY <3>2, MovesOn
    <3> QED
      BY <1>s, <2>0, <3>1, <3>3, ThreadCarried
  <2> QED
    BY <2>1, <2>2, SMTT(60)
<1>3. ASSUME NEW t \in Tables, DropStaleFails(r, t) PROVE Carried
  <2> DEFINE d == [c EXCEPT !.gone = @ \ {t}, !.failed = TRUE]
  <2>1. /\ cycles' = [cycles EXCEPT ![r] = d]
        /\ c.pc = "drop" /\ c.job \in Jobs
        /\ dest' = dest /\ rows' = MarkTableError(c.job, t) /\ history' = history /\ kind' = kind
    BY <1>0, <1>3, ZenonT(60) DEF DropStaleFails, source, IsCycle, TypeInv
  <2>2. d.states = c.states /\ d.mode = c.mode /\ d.pc = "drop"
    BY <1>0, <2>1 DEF CycleFields
  <2> HIDE DEF d
  <2>3. CycleCarried(c, d)
    BY <2>2, MovesOn
  <2>4. \A j \in Jobs, u \in Tables : RowCarried(rows'[j][u], j, u)
    BY <1>0, <2>1, FailureCarried
  <2> QED
    BY <1>s, <2>1, <2>3, <2>4, ThreadCarried
<1>4. ASSUME DeleteTableState(r) PROVE Carried
  <2> DEFINE d == [c EXCEPT !.pc = "drop", !.gone = @ \ {c.table}]
  <2>1. /\ cycles' = [cycles EXCEPT ![r] = d]
        /\ dest' = dest /\ rows' = [rows EXCEPT ![c.job][c.table] = NoRow]
        /\ c.pc = "forget" /\ history' = history /\ kind' = kind
    BY <1>4 DEF DeleteTableState, source, TypeInv
  <2>2. d.states = c.states /\ d.mode = c.mode /\ d.pc = "drop"
    BY <1>0 DEF CycleFields
  <2> HIDE DEF d
  <2>3. CycleCarried(c, d)
    BY <2>2, MovesOn
  <2>4. RowCarried(NoRow, c.job, c.table)
    BY DEF RowCarried, Blank, NoRow
  <2>5. \A j \in Jobs, u \in Tables : RowCarried(rows'[j][u], j, u)
    BY <1>0, <1>w, <2>1, <2>4, WriteCarried
  <2> QED
    BY <1>s, <2>1, <2>3, <2>5, ThreadCarried
<1>5. ASSUME DropsDone(r) PROVE Carried
  <2> DEFINE d == [c EXCEPT !.pc = "table"]
  <2>1. /\ cycles' = [cycles EXCEPT ![r] = d]
        /\ dest' = dest /\ rows' = rows /\ history' = history /\ kind' = kind
    BY <1>5 DEF DropsDone, metadata, source, TypeInv
  <2>2. d.states = c.states /\ d.mode = c.mode /\ d.pc = "table"
    BY <1>0 DEF CycleFields
  <2> HIDE DEF d
  <2>3. CycleCarried(c, d)
    BY <2>2, MovesOn
  <2> QED
    BY <1>s, <2>1, <2>3, ThreadCarried
<1>6. ASSUME Claim(r) PROVE Carried
  <2> DEFINE free == ~OwnedByOther(c.job, c.table) /\ ~rows[c.job][c.table].has
             d == IF free THEN [c EXCEPT !.pc = "sync"] ELSE [c EXCEPT !.pc = "table", !.failed = TRUE]
  <2>1. /\ cycles' = [cycles EXCEPT ![r] = d]
        /\ dest' = dest
        /\ rows' = rows \/ rows' = [rows EXCEPT ![c.job][c.table] = ClaimRow]
        /\ c.pc = "claim" /\ history' = history /\ kind' = kind
    BY <1>6 DEF Claim, source, TypeInv
  <2>2. d.states = c.states /\ d.mode = c.mode /\ d.pc \in {"sync", "table"}
    BY <1>0 DEF CycleFields
  <2> HIDE DEF d
  <2>3. CycleCarried(c, d)
    BY <2>2, MovesOn
  <2>4. RowCarried(ClaimRow, c.job, c.table)
    BY DEF RowCarried, Blank, ClaimRow, NoRow
  <2>5. \A j \in Jobs, u \in Tables : RowCarried(rows'[j][u], j, u)
    BY <1>0, <1>s, <1>w, <2>1, <2>4, WriteCarried
  <2> QED
    BY <1>s, <2>1, <2>3, <2>5, ThreadCarried
<1>7. ASSUME c.pc = "sync", RecordFailure(r) PROVE Carried
  <2> DEFINE d == [c EXCEPT !.pc = "table", !.failed = TRUE]
  <2>1. /\ cycles' = [cycles EXCEPT ![r] = d]
        /\ dest' = dest /\ rows' = MarkTableError(c.job, c.table) /\ history' = history /\ kind' = kind
    BY <1>7 DEF RecordFailure, source, TypeInv
  <2>2. d.states = c.states /\ d.mode = c.mode /\ d.pc = "table"
    BY <1>0 DEF CycleFields
  <2> HIDE DEF d
  <2>3. CycleCarried(c, d)
    BY <2>2, MovesOn
  <2>4. \A j \in Jobs, u \in Tables : RowCarried(rows'[j][u], j, u)
    BY <1>0, <1>w, <1>7, <2>1, FailureCarried
  <2> QED
    BY <1>s, <2>1, <2>3, <2>4, ThreadCarried
<1>8. ASSUME RecheckJob(r) PROVE Carried
  <2> DEFINE d == [c EXCEPT !.pc = IF Exists(c.job) THEN "upsert" ELSE "table"]
  <2>1. /\ cycles' = [cycles EXCEPT ![r] = d]
        /\ dest' = dest /\ rows' = rows /\ c.pc = "recheck" /\ history' = history /\ kind' = kind
    BY <1>8 DEF RecheckJob, metadata, source, TypeInv
  <2>2. d.states = c.states /\ d.mode = c.mode /\ d.table = c.table /\ d.outcome = c.outcome
    BY <1>0 DEF CycleFields
  <2> HIDE DEF d
  <2>3. CycleCarried(c, d)
    BY <2>1, <2>2, MovesOn
  <2> QED
    BY <1>s, <2>1, <2>3, ThreadCarried
<1>9. ASSUME UpsertTableSyncState(r) PROVE Carried
  <2> DEFINE d == [c EXCEPT !.pc = "table"]
  <2>1. /\ cycles' = [cycles EXCEPT ![r] = d]
        /\ dest' = dest /\ rows' = [rows EXCEPT ![c.job][c.table] = c.outcome]
        /\ c.pc = "upsert" /\ history' = history /\ kind' = kind
    BY <1>9 DEF UpsertTableSyncState, source, TypeInv
  <2>2. d.states = c.states /\ d.mode = c.mode /\ d.pc = "table"
    BY <1>0 DEF CycleFields
  <2> HIDE DEF d
  <2>3. CycleCarried(c, d)
    BY <2>2, MovesOn
  <2>4. RowCarried(c.outcome, c.job, c.table)
    BY <2>1 DEF RowCarried, Writing
  <2>5. \A j \in Jobs, u \in Tables : RowCarried(rows'[j][u], j, u)
    BY <1>0, <1>w, <2>1, <2>4, WriteCarried
  <2> QED
    BY <1>s, <2>1, <2>3, <2>5, ThreadCarried
<1>10. ASSUME EndCycle(r) \/ AbortCycle(r) PROVE Carried
  <2>1. /\ cycles' = [cycles EXCEPT ![r] = NoCycle]
        /\ dest' = dest /\ rows' = rows /\ history' = history /\ kind' = kind
    BY <1>10 DEF EndCycle, AbortCycle, metadata, source
  <2> QED
    BY <1>s, <1>e, <2>1, ThreadCarried
<1> QED
  BY <1>1, <1>2, <1>3, <1>4, <1>5, <1>6, <1>7, <1>8, <1>9, <1>10 DEF SyncFails, SyncFault

\* A cycle begins with the rows of its job.
LEMMA EnterCarried ==
    ASSUME TypeInv, ModesInv, NEW r \in Runners, NEW j \in Jobs, Enter(r, j)
    PROVE  Carried
<1> DEFINE d == [NoCycle EXCEPT !.pc = "drop", !.job = j, !.mode = jobs[j].mode,
                                !.status = jobs[j].status, !.states = rows[j],
                                !.gone = {t \in Tables : rows[j][t].has} \ {t \in Tables : Source(t).cols > 0},
                                !.todo = {t \in Tables : Source(t).cols > 0}]
<1>1. cycles' = [cycles EXCEPT ![r] = d] /\ dest' = dest /\ rows' = rows /\ history' = history /\ kind' = kind
  BY DEF Enter, source
<1>2. d.pc = "drop" /\ d.mode = jobs[j].mode /\ d.states = rows[j]
  BY DEF NoCycle
<1>3. jobs[j].mode \in JobModes
  BY DEF ModesInv
<1> HIDE DEF d
<1>4. CycleCarried(cycles[r], d)
  BY <1>2, <1>3 DEF CycleCarried, Writing
<1>5. /\ \A t \in Tables : TableCarried(dest'[t], t)
      /\ \A i \in Jobs, t \in Tables : RowCarried(rows'[i][t], i, t)
  BY <1>1, SameCarried
<1> QED
  BY <1>1, <1>4, <1>5, ThreadCarried

\* Steps that leave destination, rows and cycles alone.
LEMMA OtherCarried ==
    ASSUME ModesInv, UNCHANGED <<history, kind, dest, rows, cycles>>
    PROVE  Carried
<1>1. /\ \A t \in Tables : TableCarried(dest'[t], t)
      /\ \A i \in Jobs, t \in Tables : RowCarried(rows'[i][t], i, t)
      /\ \A r \in Runners : CycleCarried(cycles[r], cycles[r])
  BY SameCarried
<1> QED
  BY <1>1 DEF Carried

\* Rows are deleted, users make tables, and the process dies.
LEMMA UserCarried ==
    ASSUME TypeInv, ModesInv,
           (\E j \in Jobs : DropStates(j)) \/ (\E t \in Tables : UserCreatesTable(t)) \/ Crash
    PROVE  Carried
<1>s. /\ dest' = dest => \A t \in Tables : TableCarried(dest'[t], t)
      /\ rows' = rows => \A j \in Jobs, t \in Tables : RowCarried(rows'[j][t], j, t)
      /\ \A r \in Runners : CycleCarried(cycles[r], cycles[r])
  BY SameCarried
<1>1. ASSUME NEW j \in Jobs, DropStates(j) PROVE Carried
  <2>1. /\ rows' = [rows EXCEPT ![j] = [t \in Tables |-> NoRow]]
        /\ UNCHANGED <<history, kind, dest, cycles>>
    BY <1>1 DEF DropStates, source
  <2>2. \A i \in Jobs, t \in Tables : rows'[i][t] = rows[i][t] \/ rows'[i][t] = NoRow
    BY <2>1 DEF TypeInv, IsRows
  <2>3. \A i \in Jobs, t \in Tables : RowCarried(rows'[i][t], i, t)
    <3>1. Blank(NoRow)
      BY DEF Blank, NoRow
    <3> QED
      BY <2>2, <3>1 DEF RowCarried
  <2> QED
    BY <1>s, <2>1, <2>3 DEF Carried
<1>2. ASSUME NEW t \in Tables, UserCreatesTable(t) PROVE Carried
  <2> DEFINE new == [by |-> IF Claimed(t) THEN "stray" ELSE "user", cols |-> 1, rows |-> Empty,
                     files |-> {}, watermarked |-> FALSE]
  <2>1. /\ dest' = [dest EXCEPT ![t] = new]
        /\ UNCHANGED <<history, kind, rows, cycles>>
    BY <1>2 DEF UserCreatesTable, source, metadata
  <2>2. new.files = {} /\ new.by # "job"
    OBVIOUS
  <2> HIDE DEF new
  <2>3. \A u \in Tables : TableCarried(dest'[u], u)
    BY <2>1, <2>2 DEF TypeInv, TableCarried
  <2> QED
    BY <1>s, <2>1, <2>3 DEF Carried
<1>3. ASSUME Crash PROVE Carried
  <2>1. /\ cycles' = [r \in Runners |-> NoCycle]
        /\ UNCHANGED <<history, kind, dest, rows>>
    BY <1>3 DEF Crash, source, metadata
  <2>2. \A r \in Runners : CycleCarried(cycles[r], cycles'[r])
    BY <2>1, NoCycleCarried
  <2> QED
    BY <1>s, <2>1, <2>2 DEF Carried
<1> QED
  BY <1>1, <1>2, <1>3

\* The jobs keep the mode that they were made with.
JobsType == jobs \in [Jobs -> [status : JobStatus, mode : JobModes]]

\* Setting the status of jobs keeps their type.
LEMMA StatusType ==
    ASSUME JobsType, NEW j \in Jobs, NEW status \in JobStatus
    PROVE  /\ [jobs EXCEPT ![j].status = status] \in [Jobs -> [status : JobStatus, mode : JobModes]]
           /\ UpdateJobStatus(j, status) => JobsType'
           /\ \A from : SetStatus(from, status) \in [Jobs -> [status : JobStatus, mode : JobModes]]
<1>1. \A x \in JobStatus : [jobs EXCEPT ![j].status = x] \in [Jobs -> [status : JobStatus, mode : JobModes]]
  BY DEF JobsType
<1>2. jobs[j].status \in JobStatus
  BY DEF JobsType
<1>3. UpdateJobStatus(j, status) => JobsType'
  <2> SUFFICES ASSUME UpdateJobStatus(j, status) PROVE JobsType'
    OBVIOUS
  <2>1. \E x \in JobStatus : jobs' = [jobs EXCEPT ![j].status = x]
    BY <1>2 DEF UpdateJobStatus
  <2> QED
    BY <1>1, <2>1 DEF JobsType
<1>4. \A from : SetStatus(from, status) \in [Jobs -> [status : JobStatus, mode : JobModes]]
  <2> SUFFICES ASSUME NEW from, NEW i \in Jobs
               PROVE  (IF jobs[i].status \in from THEN [jobs[i] EXCEPT !.status = status] ELSE jobs[i])
                        \in [status : JobStatus, mode : JobModes]
    BY DEF SetStatus
  <2>1. jobs[i] \in [status : JobStatus, mode : JobModes]
    BY DEF JobsType
  <2> QED
    BY <2>1
<1> QED
  BY <1>1, <1>3, <1>4

\* No step changes the mode of a job to one that does not exist.
LEMMA JobsStep ==
    ASSUME TypeInv, JobsType, [ReplicationNext]_vars
    PROVE  JobsType'
<1> DEFINE Same == jobs' = jobs
           JT == [Jobs -> [status : JobStatus, mode : JobModes]]
<1>0. Same => JobsType'
  BY DEF JobsType
<1>j. 1 \in Jobs
  BY ReplicationConstants DEF Jobs
<1>s. \A x \in JobStatus : \A j \in Jobs :
        /\ [jobs EXCEPT ![j].status = x] \in JT
        /\ UpdateJobStatus(j, x) => JobsType'
        /\ \A from : SetStatus(from, x) \in JT
  BY StatusType
<1>t. {"none", "created", "running", "error", "paused", "stopped"} = JobStatus
  BY DEF JobStatus
<1>1. CASE UNCHANGED vars
  BY <1>0, <1>1 DEF vars
<1>2. ASSUME NEW t \in Tables, SourceStep(t) PROVE Same
  BY <1>2 DEF SourceStep, SourceCommits
<1>3. ASSUME SourceExpires PROVE Same
  BY <1>3 DEF SourceExpires
<1>4. ASSUME NEW mode \in Modes, CreateJob(mode) PROVE JobsType'
  <2>1. mode \in JobModes
    BY ReplicationConstants
  <2>2. NextJobId \in Jobs /\ jobs' = [jobs EXCEPT ![NextJobId] = [status |-> "created", mode |-> mode]]
    BY <1>4 DEF CreateJob
  <2> QED
    BY <2>1, <2>2 DEF JobsType, JobStatus
<1>5. ASSUME NEW j \in Jobs, DropStates(j) PROVE Same
  BY <1>5 DEF DropStates
<1>6. ASSUME NEW j \in Jobs, DropJob(j) \/ Pause(j) \/ Resume(j) PROVE JobsType'
  <2>1. \E x \in JobStatus : jobs' = [jobs EXCEPT ![j].status = x]
    BY <1>6, <1>t DEF DropJob, Pause, Resume, Start
  <2> QED
    BY <2>1, <1>s DEF JobsType
<1>7. ASSUME StartAll \/ ResumeAll \/ StopRequest \/ StopReturn PROVE JobsType'
  <2>1. jobs' = jobs \/ \E x \in JobStatus : \E from : jobs' = SetStatus(from, x)
    BY <1>7, <1>t DEF StartAll, ResumeAll, StopRequest, StopReturn
  <2>2. ASSUME NEW x \in JobStatus, NEW from, jobs' = SetStatus(from, x) PROVE JobsType'
    <3>1. SetStatus(from, x) \in JT
      BY <1>s, <1>j
    <3> HIDE DEF JT
    <3>2. jobs' \in JT
      BY <2>2, <3>1, Zenon
    <3> QED
      BY <3>2 DEF JobsType, JT
  <2> QED
    BY <2>1, <2>2, <1>0
<1>8. ASSUME NEW t \in Tables, UserCreatesTable(t) PROVE Same
  BY <1>8 DEF UserCreatesTable, metadata
<1>9. ASSUME NEW r, NEW j, Enter(r, j) PROVE Same
  BY <1>9 DEF Enter
<1>10. ASSUME NEW r \in Runners, NEW j \in Jobs, SourceMissing(r, j) PROVE JobsType'
  BY <1>10, <1>s, <1>t DEF SourceMissing
<1>11. ASSUME NEW j \in Jobs, SupervisorRefused(j) PROVE JobsType'
  BY <1>11, <1>s, <1>t DEF SupervisorRefused
<1>12. ASSUME SupervisorPass \/ Crash PROVE Same
  BY <1>12 DEF SupervisorPass, Crash, metadata
<1>13. ASSUME NEW r \in Runners, SyncFault(r) \/ \E t \in Tables : DropStaleFails(r, t) PROVE Same
  BY <1>13 DEF SyncFault, RecordFailure, DropStaleFails
<1>14. ASSUME NEW r \in Runners, EndCycle(r) PROVE JobsType'
  <2>1. cycles[r].job \in Jobs
    BY <1>14 DEF EndCycle, TypeInv, IsCycle
  <2>2. \E x \in JobStatus : UpdateJobStatus(cycles[r].job, x)
    BY <1>14, <1>t DEF EndCycle
  <2> QED
    BY <2>1, <2>2, <1>s
<1>15. ASSUME NEW r \in Runners, CycleStep(r), ~EndCycle(r) PROVE Same
  <2>1. ASSUME NEW t \in Tables, DropStale(r, t) \/ BeginTable(r, t) PROVE Same
    BY <2>1 DEF DropStale, BeginTable, metadata
  <2>2. ASSUME DeleteTableState(r) \/ DropsDone(r) \/ Claim(r) \/ SyncFails(r) PROVE Same
    BY <2>2 DEF DeleteTableState, DropsDone, Claim, SyncFails, RecordFailure, metadata
  <2>3. ASSUME SyncTable(r) PROVE Same
    BY <2>3 DEF SyncTable, metadata
  <2>4. ASSUME RecheckJob(r) \/ UpsertTableSyncState(r) \/ AbortCycle(r) PROVE Same
    BY <2>4 DEF RecheckJob, UpsertTableSyncState, AbortCycle, metadata
  <2> QED
    BY <1>15, <2>1, <2>2, <2>3, <2>4 DEF CycleStep
<1>16. UserStep => JobsType'
  BY <1>0, <1>4, <1>5, <1>6, <1>7, <1>8, <1>9 DEF UserStep, ManualEnter
<1>17. FaultStep => JobsType'
  BY <1>0, <1>10, <1>12, <1>13 DEF FaultStep
<1>18. SupervisorStep => JobsType'
  BY <1>0, <1>7, <1>9, <1>11, <1>12 DEF SupervisorStep, SupervisorEnter
<1>19. ASSUME NEW r \in Runners, CycleStep(r) PROVE JobsType'
  BY <1>0, <1>14, <1>15, <1>19
<1> HIDE DEF Same
<1> QED
  BY <1>0, <1>1, <1>2, <1>3, <1>16, <1>17, <1>18, <1>19 DEF ReplicationNext

----------------------------------------------------------------------------
(* The invariant and the theorem.                                          *)

ReplicaInv == HistoryInv /\ ModesInv /\ VersionInv /\ FilesInv

\* As long as the source does nothing its history is as it was.
LEMMA SameHistory ==
    ASSUME HistoryInv, history' = history
    PROVE  HistoryInv'
<1>1. Current' = Current /\ \A t, s : SourceAt(t, s)' = SourceAt(t, s)
  BY DEF Current, SourceAt
<1>2. \A t, s : RowsAt(t, s)' = RowsAt(t, s)
  BY <1>1 DEF RowsAt
<1>3. \A t, s : RowsBefore(t, s)' = RowsBefore(t, s)
  BY <1>1 DEF RowsBefore
<1>4. \A t, s : Deleted(t, s)' = Deleted(t, s) /\ Inserted(t, s)' = Inserted(t, s)
  BY <1>1, <1>3 DEF Deleted, Inserted
<1>5. \A t, s : AppendOnly(t, s)' <=> AppendOnly(t, s)
  BY <1>1, <1>3, <1>4 DEF AppendOnly
<1>6. \A t, s : Changed(t, s)' <=> Changed(t, s)
  BY <1>4 DEF Changed
<1>7. HistoryType' /\ PathsInv' /\ LineageInv'
  BY <1>1 DEF HistoryInv, HistoryType, PathsInv, LineageInv
<1>8. QuietInv'
  BY <1>1, <1>2, <1>6 DEF HistoryInv, QuietInv
<1>9. GrowthInv'
  BY <1>1, <1>2, <1>5 DEF HistoryInv, GrowthInv
<1> QED
  BY <1>7, <1>8, <1>9 DEF HistoryInv

\* A step that carries rows and cursors keeps the whole invariant.
LEMMA CarriedReplica ==
    ASSUME ReplicaInv, Carried, JobsType'
    PROVE  ReplicaInv'
<1>1. VersionInv' /\ FilesInv' /\ \A r \in Runners : cycles'[r].mode \in JobModes
  BY CarriedInv DEF ReplicaInv
<1>2. history' = history /\ kind' = kind
  BY DEF Carried
<1>3. ModesInv'
  BY <1>1, <1>2 DEF ReplicaInv, ModesInv, JobsType
<1>4. HistoryInv'
  BY <1>2, SameHistory DEF ReplicaInv
<1> QED
  BY <1>1, <1>3, <1>4 DEF ReplicaInv

\* Every step keeps the invariant of the replicas.
LEMMA ReplicaInvNext == TypeInv /\ ReplicaInv /\ [ReplicationNext]_vars => ReplicaInv'
<1> SUFFICES ASSUME TypeInv, ReplicaInv, [ReplicationNext]_vars PROVE ReplicaInv'
  OBVIOUS
<1>0. HistoryInv /\ ModesInv /\ VersionInv /\ FilesInv /\ JobsType
  BY DEF ReplicaInv, ModesInv, JobsType
<1>j. JobsType'
  BY <1>0, JobsStep
<1>c. Carried => ReplicaInv'
  BY <1>j, CarriedReplica
<1> DEFINE Other == UNCHANGED <<history, kind, dest, rows, cycles>>
<1>o. Other => ReplicaInv'
  BY <1>0, <1>c, OtherCarried
<1>1. CASE UNCHANGED vars
  BY <1>1, <1>o DEF vars
<1>2. ASSUME NEW t \in Tables, SourceStep(t) PROVE ReplicaInv'
  <2>1. HistoryInv' /\ VersionInv' /\ FilesInv'
    BY <1>0, <1>2, SourceInv
  <2>2. kind' = kind /\ cycles' = cycles
    BY <1>2 DEF SourceStep, SourceCommits
  <2> QED
    BY <1>0, <1>j, <2>1, <2>2 DEF ReplicaInv, ModesInv, JobsType
<1>3. ASSUME SourceExpires PROVE Other
  BY <1>3 DEF SourceExpires
<1>4. ASSUME UserStep PROVE ReplicaInv'
  <2>1. ASSUME NEW r \in Manual, NEW j \in Jobs, ManualEnter(r, j) PROVE ReplicaInv'
    BY <2>1, <1>0, <1>c, EnterCarried DEF ManualEnter, Runners
  <2>2. ASSUME \/ \E mode \in Modes : CreateJob(mode)
               \/ \E j \in Jobs : DropJob(j) \/ Pause(j) \/ Resume(j)
               \/ StartAll \/ ResumeAll \/ StopRequest
        PROVE  Other
    BY <2>2 DEF CreateJob, DropJob, Pause, Resume, Start, StartAll, ResumeAll, StopRequest, source
  <2>3. ASSUME (\E j \in Jobs : DropStates(j)) \/ (\E t \in Tables : UserCreatesTable(t)) PROVE ReplicaInv'
    BY <2>3, <1>0, <1>c, UserCarried
  <2> QED
    BY <1>4, <1>o, <2>1, <2>2, <2>3 DEF UserStep
<1>5. ASSUME FaultStep PROVE ReplicaInv'
  <2>1. ASSUME NEW r \in Runners, SyncFault(r) \/ \E t \in Tables : DropStaleFails(r, t) PROVE ReplicaInv'
    BY <2>1, <1>0, <1>c, CycleStepCarried
  <2>2. ASSUME NEW r \in Runners, NEW j \in Jobs, SourceMissing(r, j) PROVE Other
    BY <2>2 DEF SourceMissing, source
  <2>3. ASSUME Crash PROVE ReplicaInv'
    BY <2>3, <1>0, <1>c, UserCarried
  <2> QED
    BY <1>5, <1>o, <2>1, <2>2, <2>3 DEF FaultStep
<1>6. ASSUME SupervisorStep PROVE ReplicaInv'
  <2>1. ASSUME NEW j \in Jobs, SupervisorEnter(j) PROVE ReplicaInv'
    BY <2>1, <1>0, <1>c, EnterCarried DEF SupervisorEnter, Runners
  <2>2. ASSUME SupervisorPass \/ StopReturn \/ \E j \in Jobs : SupervisorRefused(j) PROVE Other
    BY <2>2 DEF SupervisorPass, StopReturn, SupervisorRefused, source
  <2> QED
    BY <1>6, <1>o, <2>1, <2>2 DEF SupervisorStep
<1>7. ASSUME NEW r \in Runners, CycleStep(r) PROVE ReplicaInv'
  <2>1. CASE SyncTable(r)
    <3>1. VersionInv' /\ FilesInv' /\ ModesInv'
      BY <2>1, <1>0, SyncTableInv
    <3>2. history' = history /\ kind' = kind
      BY <2>1 DEF SyncTable, source
    <3>3. HistoryInv'
      BY <3>2, <1>0, SameHistory
    <3> QED
      BY <3>1, <3>3 DEF ReplicaInv
  <2>2. CASE ~SyncTable(r)
    BY <1>7, <2>2, <1>0, <1>c, CycleStepCarried DEF CycleStep
  <2> QED
    BY <2>1, <2>2
<1> HIDE DEF Other
<1> QED
  BY <1>1, <1>2, <1>3, <1>4, <1>5, <1>6, <1>7, <1>o DEF ReplicationNext

\* The invariant of the replicas holds at first: none exists.
LEMMA ReplicaInvInit == ReplicationInit => ReplicaInv
<1> SUFFICES ASSUME ReplicationInit PROVE ReplicaInv
  OBVIOUS
<1> DEFINE first == [t \in Tables |-> NewSourceTable(1)]
<1>1. /\ history = <<first>> /\ Current = 1
      /\ \A t \in Tables : SourceAt(t, 1) = NewSourceTable(1)
  BY DEF ReplicationInit, Current, SourceAt
<1>2. NewSourceTable(1) = [uuid |-> 1, cols |-> 1, files |-> {}]
  BY DEF NewSourceTable
<1>3. IsFiles({}) /\ RowsOf({}) = Empty
  BY NoRows
<1>4. GoodTable(NewSourceTable(1), 1)
  <2>1. NewSourceTable(1) \in SourceTable
    BY <1>2 DEF SourceTable
  <2> QED
    BY <2>1, <1>2, <1>3 DEF GoodTable
<1>5. HistoryInv
  <2>0. \A s \in 1..Current : s = 1
    BY <1>1
  <2>1. first \in [Tables -> SourceTable]
    BY <1>4 DEF GoodTable
  <2>2. history \in Seq([Tables -> SourceTable])
    <3> HIDE DEF first
    <3> QED
      BY <1>1, <2>1
  <2>3. HistoryType
    <3>1. \A t \in Tables, s \in 1..Current : GoodTable(SourceAt(t, s), s)
      BY <1>1, <1>4, <2>0
    <3> QED
      BY <2>2, <3>1, <1>1 DEF HistoryType
  <2>4. PathsInv
    BY <1>1, <1>2, <2>0 DEF PathsInv
  <2>5. LineageInv
    <3> SUFFICES ASSUME NEW t \in Tables, NEW s1 \in 1..Current, NEW s2 \in 1..Current, NEW s \in s1..s2
                 PROVE  SourceAt(t, s).uuid = SourceAt(t, s2).uuid
      BY DEF LineageInv
    <3>1. s1 = 1 /\ s2 = 1 /\ s = 1
      BY <2>0
    <3> QED
      BY <3>1
  <2>6. \A s2 \in 1..Current : \A s1 \in 1..s2 : s1 = 1 /\ s2 = 1
    BY <2>0
  <2>7. QuietInv
    BY <2>6 DEF QuietInv
  <2>8. GrowthInv
    <3> SUFFICES ASSUME NEW t \in Tables PROVE Grown(RowsAt(t, 1), RowsAt(t, 1))
      BY <2>6 DEF GrowthInv
    <3>1. RowsAt(t, 1) = Empty
      BY <1>1, <1>2, <1>3 DEF RowsAt
    <3> QED
      BY <3>1 DEF Grown, Empty
  <2> QED
    BY <2>3, <2>4, <2>5, <2>7, <2>8 DEF HistoryInv
<1>6. ModesInv
  <2>1. kind \in SourceKinds
    BY ReplicationConstants DEF ReplicationInit
  <2>2. jobs \in [Jobs -> [status : JobStatus, mode : JobModes]]
    BY DEF ReplicationInit, JobStatus, JobModes
  <2>3. \A r \in Runners : cycles[r].mode \in JobModes
    BY DEF ReplicationInit, NoCycle, JobModes
  <2> QED
    BY <2>1, <2>2, <2>3 DEF ModesInv
<1>7. \A t \in Tables : dest[t].cols = 0 /\ dest[t].files = {}
  BY DEF ReplicationInit, NoDestTable
<1>8. FilesInv
  BY <1>7 DEF FilesInv
<1>9. VersionInv
  <2>1. Blank(NoRow)
    BY DEF Blank, NoRow
  <2>2. \A j \in Jobs, t \in Tables : Blank(rows[j][t])
    BY <2>1 DEF ReplicationInit
  <2>3. \A r \in Runners : cycles[r] = NoCycle
    BY DEF ReplicationInit
  <2>4. /\ \A t \in Tables : NoCycle.states[t] = NoRow
        /\ NoCycle.pc = "idle"
    BY DEF NoCycle
  <2>5. \A r \in Runners, t \in Tables : Blank(cycles[r].states[t]) /\ ~Writing(cycles[r], t)
    BY <2>1, <2>3, <2>4 DEF Writing
  <2>6. \A t \in Tables : Version(t, 1)
    BY <1>7, <2>2, <2>5 DEF Version, Follows, Exact
  <2>7. 1 \in 1..Current
    BY <1>1
  <2> QED
    BY <2>6, <2>7 DEF VersionInv
<1> QED
  BY <1>5, <1>6, <1>8, <1>9 DEF ReplicaInv

\* The invariant of the replicas says what the property does, of every job.
LEMMA ReplicaInvImplies == ReplicaInv => ReplicaIsASourceSnapshot
<1> SUFFICES ASSUME ReplicaInv, NEW j \in Jobs, NEW t \in Tables,
                    dest[t].by = "job", dest[t].cols > 0,
                    dest[t].watermarked => AppendOnly(t, Current)
             PROVE  \E s \in Max({1, rows[j][t].snapshot})..Current :
                        dest[t].rows = RowsOf(SourceAt(t, s).files)
  BY DEF ReplicaIsASourceSnapshot
<1>1. Current \in Nat
  BY CurrentTable DEF ReplicaInv
<1>2. PICK s \in 1..Current : Version(t, s)
  BY DEF ReplicaInv, VersionInv
<1>3. dest[t].rows = RowsOf(SourceAt(t, s).files)
  BY <1>2 DEF Version, Exact, RowsAt
<1>4. rows[j][t].snapshot \in Int /\ rows[j][t].snapshot <= s
  <2>1. Follows(rows[j][t], t, s)
    BY <1>2 DEF Version
  <2>2. CASE Blank(rows[j][t])
    BY <2>2 DEF Blank, None
  <2>3. CASE \E s0 \in 1..s : CursorOf(rows[j][t], t, s0)
    BY <2>3 DEF CursorOf, None
  <2> QED
    BY <2>1, <2>2, <2>3 DEF Follows
<1>5. Max({1, rows[j][t].snapshot}) \in Int /\ Max({1, rows[j][t].snapshot}) <= s
  <2>1. /\ Max({1, rows[j][t].snapshot}) \in Int
        /\ Max({1, rows[j][t].snapshot}) = IF 1 >= rows[j][t].snapshot THEN 1 ELSE rows[j][t].snapshot
    BY <1>4, MaxOfTwo
  <2> QED
    BY <2>1, <1>4
<1>6. s \in Max({1, rows[j][t].snapshot})..Current
  BY <1>1, <1>5
<1> QED
  BY <1>3, <1>6

\* A replica is always the source table as it was at one snapshot, not older than the
\* cursor in its row, for any history of the source (DuckLakeReplication::Catchup).
THEOREM ReplicasAreSourceSnapshots == ReplicationSpec => []ReplicaIsASourceSnapshot
<1>1. ReplicationInit => TypeInv /\ UserInv /\ ReplicaInv
  BY UserInvInit, ReplicaInvInit
<1>2. TypeInv /\ UserInv /\ ReplicaInv /\ [ReplicationNext]_vars => (TypeInv /\ UserInv /\ ReplicaInv)'
  BY UserInvNext, ReplicaInvNext
<1> QED
  BY <1>1, <1>2, ReplicaInvImplies, PTL DEF ReplicationSpec
============================================================================
