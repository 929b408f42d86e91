---------------------------- MODULE Replication ----------------------------
(***************************************************************************)
(* Replication of the tables of a source catalog into a DuckLake catalog.  *)
(*                                                                         *)
(* A job owns destination tables through rows of                           *)
(* ducklake_replication_table.  A catchup cycle, run by a client or by the *)
(* supervisor thread of the destination, first drops the tables that left  *)
(* the source and then synchronises each table: it claims the table,       *)
(* brings schema and rows up to date in one transaction of its own, and    *)
(* only then, in another, records how far it got.  Between any two of      *)
(* these steps the source moves on, jobs are dropped, paused or stopped,   *)
(* the process dies, or another job works on the same table.               *)
(***************************************************************************)
EXTENDS Integers, FiniteSets, Sequences, FiniteSetsExt

CONSTANTS
    Tables,        \* source tables; a replica has the name of its source
    MaxJob,        \* bound on the replication ids
    Manual,        \* clients that call ducklake_replicate_catchup
    Kinds,         \* kinds of source catalog, a subset of SourceKinds
    Modes,         \* data_sync_mode and watermark of the jobs, of JobModes
    MaxValue,      \* rows are numbers up to it, 0 is NULL; also the watermark
    MaxSnapshot,   \* bound on the snapshots of the source
    MaxOps         \* bound on requests of users, faults and crashes

\* keyed: a native source whose tables have a primary key.
SourceKinds == {"ducklake", "native", "keyed"}
JobModes == {"plain", "watermark", "share"}

ASSUME ReplicationConstants ==
    Kinds \subseteq SourceKinds /\ Modes \subseteq JobModes /\ MaxJob \in Nat \ {0} /\ MaxValue \in Nat

VARIABLES
    kind,        \* the kind of the source catalog
    history,     \* the snapshots of the source, the last is current
    oldest,      \* the oldest snapshot that was not expired
    dest,        \* the destination's tables
    jobs,        \* ducklake_replication
    rows,        \* ducklake_replication_table
    dropping,    \* jobs between the two statements of DropJob
    cycles,      \* the catchup cycle that each thread runs
    supervisor,  \* the supervisor thread
    epoch,       \* counts the restarts of the process
    ops          \* bounds what users and faults do

vars == <<kind, history, oldest, dest, jobs, rows, dropping, cycles, supervisor, epoch, ops>>
metadata == <<jobs, rows>>
source == <<kind, history, oldest>>

Jobs == 1..MaxJob
Thread == "supervisor"            \* the supervisor's thread, among the Runners
Runners == Manual \cup {Thread}
Values == 0..MaxValue
None == -1                        \* SQL NULL

\* A source table is [uuid, cols, files].  cols = 0: there is no such table.  uuid is the
\* snapshot that created it.  A file [path, val, del] holds two rows of value val, del of
\* which a delete file deletes; in a source with primary keys it stands for the row with
\* the key path and other columns val and del.
NoSourceTable == [uuid |-> 0, cols |-> 0, files |-> {}]
NewSourceTable(n) == [uuid |-> n, cols |-> 1, files |-> {}]

Empty == [v \in Values |-> 0]

\* A destination table.  by: who made it; a "stray" one was made by a user while a job was
\* busy with the name, and is so until a job rewrites it.  rows: how often each value is there.  watermarked (history): rows
\* came in by watermark since the last reseed.
NoDestTable ==
    [by |-> "job", cols |-> 0, rows |-> Empty, files |-> {}, watermarked |-> FALSE]

\* A row of ducklake_replication_table: the cursors of a table of a job.
NoRow == [has |-> FALSE, uuid |-> <<>>, watermark |-> None, snapshot |-> None]
ClaimRow == [NoRow EXCEPT !.has = TRUE]

NoCycle ==
    [pc |-> "idle", job |-> 0, mode |-> "plain", status |-> "none", states |-> [t \in Tables |-> NoRow],
     gone |-> {}, todo |-> {}, table |-> CHOOSE t \in Tables : TRUE, cols |-> 0,
     dest_cols |-> 0, outcome |-> NoRow, failed |-> FALSE]

Busy(r) == cycles[r].pc # "idle"
Current == Len(history)
SourceAt(t, s) == history[s][t]
Source(t) == SourceAt(t, Current)

RowsOf(files) ==
    [v \in Values |-> 2 * Cardinality({f \in files : f.val = v})
                      - Cardinality({f \in files : f.val = v /\ f.del = 1})]
HighWatermark(bag) ==
    LET seen == {v \in Values \ {0} : bag[v] > 0} IN IF seen = {} THEN None ELSE Max(seen)

ReplicationInit ==
    /\ kind \in Kinds
    /\ history = <<[t \in Tables |-> NewSourceTable(1)]>>
    /\ oldest = 1
    /\ dest = [t \in Tables |-> NoDestTable]
    /\ jobs = [j \in Jobs |-> [status |-> "none", mode |-> "plain"]]
    /\ rows = [j \in Jobs |-> [t \in Tables |-> NoRow]]
    /\ dropping = {}
    /\ cycles = [r \in Runners |-> NoCycle]
    /\ supervisor = [state |-> "none", pass |-> {}]
    /\ epoch = 0
    /\ ops = 0

Op == ops < MaxOps /\ ops' = ops + 1

----------------------------------------------------------------------------
(* The source. *)

\* One transaction of the source changes one table.
SourceCommits(t, new) ==
    /\ Current < MaxSnapshot
    /\ history' = Append(history, [history[Current] EXCEPT ![t] = new])
    /\ UNCHANGED <<kind, oldest, dest, jobs, rows, dropping, cycles, supervisor, epoch, ops>>

WithFile(tab, f) == [tab EXCEPT !.files = @ \cup {f}]
WithoutFile(tab, f) == [tab EXCEPT !.files = @ \ {f}]

SourceStep(t) ==
    LET tab == Source(t)
        n == Current + 1
    IN IF tab.cols = 0
       THEN SourceCommits(t, NewSourceTable(n))
       ELSE \/ \E v \in Values : SourceCommits(t, WithFile(tab, [path |-> n, val |-> v, del |-> 0]))
            \/ \E f \in tab.files :
                  \/ f.del = 0 /\ SourceCommits(t, WithFile(WithoutFile(tab, f), [f EXCEPT !.del = 1]))
                  \/ SourceCommits(t, WithoutFile(tab, f))
                  \/ SourceCommits(t, WithFile(WithoutFile(tab, f), [f EXCEPT !.path = n]))  \* compaction
            \/ tab.cols = 1 /\ SourceCommits(t, [tab EXCEPT !.cols = 2])
            \/ SourceCommits(t, NoSourceTable)

SourceExpires ==
    /\ oldest < Current
    /\ oldest' = oldest + 1
    /\ UNCHANGED <<kind, history, dest, jobs, rows, dropping, cycles, supervisor, epoch, ops>>

----------------------------------------------------------------------------
(* Jobs. *)

Exists(j) == jobs[j].status # "none"
JobIsRunnable(j) == jobs[j].status \in {"running", "error"}

\* The next id is one more than the largest in the table: ids of dropped jobs come back.
NextJobId == 1 + Max({0} \cup {j \in Jobs : Exists(j)})

CreateJob(mode) ==
    /\ Op
    /\ mode = "share" => kind = "ducklake"
    /\ NextJobId \in Jobs
    /\ jobs' = [jobs EXCEPT ![NextJobId] = [status |-> "created", mode |-> mode]]
    /\ UNCHANGED <<source, dest, rows, dropping, cycles, supervisor, epoch>>

\* DropJob deletes the state rows and then the job, in two transactions.
DropStates(j) ==
    /\ Op
    /\ Exists(j) /\ j \notin dropping
    /\ rows' = [rows EXCEPT ![j] = [t \in Tables |-> NoRow]]
    /\ dropping' = dropping \cup {j}
    /\ UNCHANGED <<source, dest, jobs, cycles, supervisor, epoch>>

DropJob(j) ==
    /\ j \in dropping
    /\ dropping' = dropping \ {j}
    /\ jobs' = [jobs EXCEPT ![j].status = "none"]
    /\ UNCHANGED <<source, dest, rows, cycles, supervisor, epoch, ops>>

\* A pause wins over the status that a cycle sets.
UpdateJobStatus(j, status) ==
    jobs' = [jobs EXCEPT ![j].status = IF @ \in {"none", "paused"} THEN @ ELSE status]

SetStatus(from, status) ==
    [j \in Jobs |-> IF jobs[j].status \in from THEN [jobs[j] EXCEPT !.status = status] ELSE jobs[j]]

Pause(j) ==
    /\ Op
    /\ Exists(j)
    /\ jobs' = [jobs EXCEPT ![j].status = "paused"]
    /\ UNCHANGED <<source, dest, rows, dropping, cycles, supervisor, epoch>>

----------------------------------------------------------------------------
(* The supervisor thread. *)

\* A thread that was told to stop has left the registry, but may still run.
EnsureSupervisor ==
    supervisor' = IF supervisor.state = "none" THEN [state |-> "live", pass |-> {}] ELSE supervisor

\* A new thread beside one that is being stopped is left out.
Startable == supervisor.state # "stopping"

Start(j) ==
    /\ Op /\ Startable
    /\ Exists(j)
    /\ jobs' = [jobs EXCEPT ![j].status = "running"]
    /\ EnsureSupervisor
    /\ UNCHANGED <<source, dest, rows, dropping, cycles, epoch>>

StartAll ==
    /\ Op /\ Startable
    /\ jobs' = SetStatus({"created", "error", "stopped"}, "running")
    /\ EnsureSupervisor
    /\ UNCHANGED <<source, dest, rows, dropping, cycles, epoch>>

Resume(j) == Start(j)

ResumeAll ==
    /\ Op /\ Startable
    /\ jobs' = SetStatus({"paused", "error", "stopped"}, "running")
    /\ EnsureSupervisor
    /\ UNCHANGED <<source, dest, rows, dropping, cycles, epoch>>

\* Stop takes the supervisor from the registry, asks it to abort and joins it ...
StopRequest ==
    /\ Op
    /\ \/ /\ supervisor.state = "live"
          /\ supervisor' = [supervisor EXCEPT !.state = "stopping"]
          /\ UNCHANGED jobs
       \/ /\ supervisor.state = "none"
          /\ jobs' = SetStatus({"running", "created"}, "stopped")
          /\ UNCHANGED supervisor
    /\ UNCHANGED <<source, dest, rows, dropping, cycles, epoch>>

\* ... and marks the jobs once the thread has ended.
StopReturn ==
    /\ supervisor.state = "stopping"
    /\ ~Busy(Thread)
    /\ supervisor' = [state |-> "none", pass |-> {}]
    /\ jobs' = SetStatus({"running", "created"}, "stopped")
    /\ UNCHANGED <<source, dest, rows, dropping, cycles, epoch, ops>>

\* (mutation) Jobs in error are not taken up again.
SupervisorPassRunningOnly ==
    /\ supervisor.state = "live" /\ supervisor.pass = {} /\ ~Busy(Thread)
    /\ \E j \in Jobs : jobs[j].status = "running"
    /\ supervisor' = [supervisor EXCEPT !.pass = {j \in Jobs : jobs[j].status = "running"}]
    /\ UNCHANGED <<source, dest, jobs, rows, dropping, cycles, epoch, ops>>

\* A pass lists the jobs; whether one is due is a matter of time only.
SupervisorPass ==
    /\ supervisor.state = "live" /\ supervisor.pass = {} /\ ~Busy(Thread)
    /\ \E j \in Jobs : JobIsRunnable(j)
    /\ supervisor' = [supervisor EXCEPT !.pass = {j \in Jobs : JobIsRunnable(j)}]
    /\ UNCHANGED <<source, dest, jobs, rows, dropping, cycles, epoch, ops>>

----------------------------------------------------------------------------
(* A catchup cycle. *)

InFlight(j) == \E r \in Runners : Busy(r) /\ cycles[r].job = j

Aborting(r) == r = Thread /\ supervisor.state = "stopping"

\* Whose turn it is: the supervisor takes the jobs of its pass in order.
TakesJob(r, j) ==
    IF r = Thread
    THEN /\ supervisor.state = "live"
         /\ supervisor.pass # {} /\ j = Min(supervisor.pass)
         /\ supervisor' = [supervisor EXCEPT !.pass = @ \ {j}]
    ELSE UNCHANGED supervisor

\* Catchup up to the lists of source tables and states, read once for the cycle.
Enter(r, j) ==
    /\ ~Busy(r)
    /\ TakesJob(r, j)
    /\ jobs[j].status \notin {"none", "paused"}
    /\ ~InFlight(j)
    /\ LET listed == {t \in Tables : Source(t).cols > 0}
       IN cycles' = [cycles EXCEPT ![r] =
             [NoCycle EXCEPT !.pc = "drop", !.job = j, !.mode = jobs[j].mode, !.status = jobs[j].status,
                             !.states = rows[j],
                             !.gone = {t \in Tables : rows[j][t].has} \ listed,
                             !.todo = listed]]
    /\ UNCHANGED <<source, dest, jobs, rows, dropping, epoch>>

\* A client's call counts as a request.
ManualEnter(r, j) == r \in Manual /\ Op /\ Enter(r, j)
SupervisorEnter(j) == Enter(Thread, j) /\ UNCHANGED ops

\* The supervisor's cycle cannot begin (job gone, paused, or in a client's cycle): an error.
SupervisorRefused(j) ==
    /\ ~Busy(Thread)
    /\ TakesJob(Thread, j)
    /\ jobs[j].status \in {"none", "paused"} \/ InFlight(j)
    /\ UpdateJobStatus(j, "error")
    /\ UNCHANGED <<source, dest, rows, dropping, cycles, epoch, ops>>

\* The source catalog is not attached: the cycle fails before it lists anything.
SourceMissing(r, j) ==
    /\ Op
    /\ ~Busy(r)
    /\ TakesJob(r, j)
    /\ jobs[j].status \notin {"none", "paused"} /\ ~InFlight(j)
    /\ UpdateJobStatus(j, "error")
    /\ UNCHANGED <<source, dest, rows, dropping, cycles, epoch>>

\* The row that a failure leaves, unless another job owns the table.
OwnedByOther(j, t) == \E k \in Jobs \ {j} : rows[k][t].has
MarkTableError(j, t) ==
    IF rows[j][t].has \/ OwnedByOther(j, t) THEN rows ELSE [rows EXCEPT ![j][t] = ClaimRow]

\* A table left the source: its replica is dropped, then its row in another transaction.
DropStale(r, t) ==
    LET c == cycles[r] IN
    /\ c.pc = "drop" /\ ~Aborting(r) /\ t \in c.gone
    /\ dest' = [dest EXCEPT ![t] = NoDestTable]
    /\ cycles' = [cycles EXCEPT ![r].pc = "forget", ![r].table = t]
    /\ UNCHANGED <<source, metadata, dropping, supervisor, epoch, ops>>

DropStaleFails(r, t) ==
    LET c == cycles[r] IN
    /\ Op
    /\ c.pc = "drop" /\ ~Aborting(r) /\ t \in c.gone
    /\ rows' = MarkTableError(c.job, t)
    /\ cycles' = [cycles EXCEPT ![r].gone = @ \ {t}, ![r].failed = TRUE]
    /\ UNCHANGED <<source, dest, jobs, dropping, supervisor, epoch>>

DeleteTableState(r) ==
    LET c == cycles[r] IN
    /\ c.pc = "forget"
    /\ rows' = [rows EXCEPT ![c.job][c.table] = NoRow]
    /\ cycles' = [cycles EXCEPT ![r].pc = "drop", ![r].gone = @ \ {c.table}]
    /\ UNCHANGED <<source, dest, jobs, dropping, supervisor, epoch, ops>>

DropsDone(r) ==
    /\ cycles[r].pc = "drop" /\ ~Aborting(r) /\ cycles[r].gone = {}
    /\ cycles' = [cycles EXCEPT ![r].pc = "table"]
    /\ UNCHANGED <<source, dest, metadata, dropping, supervisor, epoch, ops>>

ChooseStrategy(mode) ==
    CASE mode = "share" -> "share"
      [] mode = "watermark" -> "watermark"
      [] mode = "plain" /\ kind = "ducklake" -> "snapshot"
      [] mode = "plain" /\ kind = "keyed" -> "merge"
      [] mode = "plain" /\ kind = "native" -> "full"

\* (mutation) A table that a user made is not noticed.
RejectedIfOwned(c, t) == OwnedByOther(c.job, t)

\* The checks before a table: not of another job, not of a user, and the columns
\* of source and destination, which may change before they are used.
Rejected(c, t) == OwnedByOther(c.job, t) \/ (dest[t].cols > 0 /\ ~c.states[t].has)

BeginTable(r, t) ==
    LET c == cycles[r] IN
    /\ c.pc = "table" /\ ~Aborting(r) /\ t \in c.todo
    /\ cycles' =
         IF Rejected(c, t)
         THEN [cycles EXCEPT ![r].todo = @ \ {t}, ![r].failed = TRUE]
         ELSE [cycles EXCEPT ![r].pc = IF c.states[t].has THEN "sync" ELSE "claim",
                             ![r].todo = @ \ {t}, ![r].table = t,
                             ![r].cols = Source(t).cols, ![r].dest_cols = dest[t].cols]
    /\ UNCHANGED <<source, dest, metadata, dropping, supervisor, epoch, ops>>

\* The claim is one statement with the check that nobody else has one.  A row of
\* its own is a key violation, and an error like any other.
Claim(r) ==
    LET c == cycles[r]
        free == ~OwnedByOther(c.job, c.table) /\ ~rows[c.job][c.table].has
    IN /\ c.pc = "claim"
       /\ rows' = IF free THEN [rows EXCEPT ![c.job][c.table] = ClaimRow] ELSE rows
       /\ cycles' = IF free THEN [cycles EXCEPT ![r].pc = "sync"]
                    ELSE [cycles EXCEPT ![r].pc = "table", ![r].failed = TRUE]
       /\ UNCHANGED <<source, dest, jobs, dropping, supervisor, epoch, ops>>

----------------------------------------------------------------------------
(* The transaction that brings a table up to date. *)

\* Native tables are identified within one run of the process only.
SourceIdentity(t) == IF kind = "ducklake" THEN <<Source(t).uuid>> ELSE <<epoch, Source(t).uuid>>

IdentityChanged(c) == c.states[c.table].has /\ c.states[c.table].uuid # SourceIdentity(c.table)

\* What table_changes reports of a snapshot.
Inserted(t, s) == RowsOf({f \in SourceAt(t, s).files : f.path = s})
RowsBefore(t, s) == IF s = 1 THEN Empty ELSE RowsOf(SourceAt(t, s - 1).files)
Deleted(t, s) ==
    [v \in Values |-> Max({0, RowsBefore(t, s)[v] - RowsOf(SourceAt(t, s).files)[v]})]
Changed(t, s) == Inserted(t, s) # Empty \/ Deleted(t, s) # Empty

\* Inserts of values that the replica has not, then deletes of every row with the value.
ApplyChanges(bag, ins, del) ==
    [v \in Values |-> IF del[v] > 0 THEN 0 ELSE IF bag[v] = 0 THEN ins[v] ELSE bag[v]]

ApplySnapshotDelta(bag, t, low, high) ==
    LET applied[s \in (low - 1)..high] ==
            IF s = low - 1 THEN bag ELSE ApplyChanges(applied[s - 1], Inserted(t, s), Deleted(t, s))
        wanted == RowsOf(SourceAt(t, high).files)
    IN IF high <= low \/ ~\E s \in low..high : Changed(t, s) THEN bag
       ELSE IF applied[high] = wanted THEN applied[high]
       ELSE wanted            \* reseed

\* Rows from the last watermark on are replaced by those up to the highest.
ApplyWatermarkDelta(bag, srcbag, low) ==
    [v \in Values |-> IF v >= low THEN srcbag[v] ELSE bag[v]]

\* Rows whose key (path) is missing or whose other columns differ go, new keys come.
ApplyPkMerge(keyed, srckeyed) ==
    LET kept == {f \in keyed : \E g \in srckeyed : g.path = f.path}
        same == {f \in kept : f \in srckeyed}
    IN same \cup {g \in srckeyed : ~\E f \in same : f.path = g.path}

\* Files that the source lacks, or whose delete file differs, go; missing ones are registered.
ApplyShareSync(files, srcfiles) ==
    LET matched == {f \in files : \E g \in srcfiles : g.path = f.path /\ g.del = f.del}
    IN matched \cup {g \in srcfiles : ~\E f \in matched : f.path = g.path}

\* The schema of the replica: keeps, grows, or is dropped and made anew.
SyncPlan(c) ==
    LET t == c.table
        strategy == ChooseStrategy(c.mode)
        changed == IdentityChanged(c)
        cols == IF changed THEN Source(t).cols ELSE c.cols
        dest_cols == IF changed THEN dest[t].cols ELSE c.dest_cols
        rebuilt == strategy = "share" /\ changed
        recreated == dest_cols = 0 \/ cols < dest_cols \/ rebuilt
        extended == ~recreated /\ cols > dest_cols
        prior == c.states[t]
        high == HighWatermark(RowsOf(Source(t).files))
    IN [strategy |-> strategy,
        recreated |-> recreated,
        creates |-> dest_cols = 0,
        widens |-> extended /\ dest[t].cols # dest_cols,   \* a replica that is another by now
        cols |-> IF recreated THEN Source(t).cols ELSE IF extended THEN cols ELSE dest[t].cols,
        reseed |-> \/ recreated \/ strategy = "full" \/ changed
                   \/ extended /\ strategy # "merge"
                   \/ /\ strategy = "watermark"
                      /\ prior.watermark = None \/ (high # None /\ prior.watermark > high)
                   \/ /\ strategy = "snapshot"
                      /\ prior.snapshot = None \/ prior.snapshot < oldest]

\* The files (or keyed rows) and the rows of the replica after the transaction.
SyncedFiles(c, p) ==
    LET files == IF p.recreated THEN {} ELSE dest[c.table].files
        srcfiles == Source(c.table).files
    IN CASE p.strategy = "share" -> ApplyShareSync(files, srcfiles)
         [] p.strategy = "merge" -> IF p.reseed THEN srcfiles ELSE ApplyPkMerge(files, srcfiles)
         [] OTHER -> {}

SyncedRows(c, p) ==
    LET t == c.table
        bag == IF p.recreated THEN Empty ELSE dest[t].rows
        srcbag == RowsOf(Source(t).files)
        prior == c.states[t]
    IN CASE p.strategy \in {"share", "merge"} -> RowsOf(SyncedFiles(c, p))
         [] p.strategy \notin {"share", "merge"} /\ p.reseed -> srcbag
         [] p.strategy = "watermark" /\ ~p.reseed ->
                IF HighWatermark(srcbag) = None THEN bag
                ELSE ApplyWatermarkDelta(bag, srcbag, prior.watermark)
         [] p.strategy = "snapshot" /\ ~p.reseed ->
                ApplySnapshotDelta(bag, t, prior.snapshot, Current)

\* The statements fail: the source table is gone, the replica's name was taken or the
\* replica was dropped meanwhile, the columns no longer fit, or a watermark is NULL.
SyncError(c, p) ==
    LET t == c.table
        unread == p.strategy = "snapshot" /\ ~p.reseed    \* only the changes are copied
                  /\ \A s \in c.states[t].snapshot..Current : ~Changed(t, s)
    IN \/ Source(t).cols = 0
       \/ IF p.creates THEN dest[t].cols > 0 ELSE dest[t].cols = 0 \/ p.widens
       \/ p.cols # Source(t).cols /\ ~unread
       \/ p.strategy = "watermark" /\ RowsOf(Source(t).files)[0] > 0

\* The replica has none of the rows that it had, or none that the source has not.
Rewritten(p) == p.recreated \/ p.reseed \/ p.strategy \in {"share", "merge"}

\* The row to be written when the transaction has committed.
Outcome(c, p) ==
    [has |-> TRUE, uuid |-> SourceIdentity(c.table),
     watermark |-> IF p.strategy = "watermark" THEN HighWatermark(RowsOf(Source(c.table).files))
                   ELSE None,
     snapshot |-> IF kind = "ducklake" THEN Current ELSE None]

SyncTable(r) ==
    LET c == cycles[r]
        t == c.table
        p == SyncPlan(c)
    IN /\ c.pc = "sync"
       /\ ~SyncError(c, p)
       /\ dest' = [dest EXCEPT ![t] =
                     [by |-> IF Rewritten(p) THEN "job" ELSE dest[t].by, cols |-> p.cols, rows |-> SyncedRows(c, p),
                      files |-> SyncedFiles(c, p),
                      watermarked |-> (p.strategy = "watermark"
                                       \/ (~p.reseed /\ dest[t].watermarked))]]
       /\ cycles' = [cycles EXCEPT ![r].pc = "recheck", ![r].outcome = Outcome(c, p)]
       /\ UNCHANGED <<source, metadata, dropping, supervisor, epoch, ops>>

\* A failed transaction is rolled back and leaves an error in the table's row.
RecordFailure(r) ==
    /\ rows' = MarkTableError(cycles[r].job, cycles[r].table)
    /\ cycles' = [cycles EXCEPT ![r].pc = "table", ![r].failed = TRUE]
    /\ UNCHANGED <<source, dest, jobs, dropping, supervisor, epoch>>

SyncFails(r) ==
    /\ cycles[r].pc = "sync"
    /\ SyncError(cycles[r], SyncPlan(cycles[r]))
    /\ RecordFailure(r) /\ UNCHANGED ops

\* Any statement of the transaction may fail.
SyncFault(r) == Op /\ cycles[r].pc = "sync" /\ RecordFailure(r)

\* Whether the job still exists is looked up, and the row written, after the commit.
RecheckJob(r) ==
    LET c == cycles[r] IN
    /\ c.pc = "recheck"
    /\ cycles' = [cycles EXCEPT ![r].pc = IF Exists(c.job) THEN "upsert" ELSE "table"]
    /\ UNCHANGED <<source, dest, metadata, dropping, supervisor, epoch, ops>>

\* (mutation) The snapshot is looked up when the row is written.
UpsertLatestSnapshot(r) ==
    LET c == cycles[r] IN
    /\ c.pc = "upsert"
    /\ rows' = [rows EXCEPT ![c.job][c.table] = [c.outcome EXCEPT !.snapshot = Current]]
    /\ cycles' = [cycles EXCEPT ![r].pc = "table"]
    /\ UNCHANGED <<source, dest, jobs, dropping, supervisor, epoch, ops>>

UpsertTableSyncState(r) ==
    LET c == cycles[r] IN
    /\ c.pc = "upsert"
    /\ rows' = [rows EXCEPT ![c.job][c.table] = c.outcome]
    /\ cycles' = [cycles EXCEPT ![r].pc = "table"]
    /\ UNCHANGED <<source, dest, jobs, dropping, supervisor, epoch, ops>>

\* A cycle that succeeds leaves the job running if the supervisor has it, else created.
EndCycle(r) ==
    LET c == cycles[r]
        supervised == supervisor.state = "live" /\ c.status \in {"running", "error"}
    IN /\ c.pc = "table" /\ ~Aborting(r) /\ c.todo = {}
       /\ UpdateJobStatus(c.job, IF c.failed THEN "error" ELSE IF supervised THEN "running" ELSE "created")
       /\ cycles' = [cycles EXCEPT ![r] = NoCycle]
       /\ UNCHANGED <<source, dest, rows, dropping, supervisor, epoch, ops>>


\* Told to stop, a cycle ends between tables, or where its statement is interrupted.
AbortCycle(r) ==
    /\ Busy(r) /\ Aborting(r)
    /\ cycles' = [cycles EXCEPT ![r] = NoCycle]
    /\ UNCHANGED <<source, dest, metadata, dropping, supervisor, epoch, ops>>

----------------------------------------------------------------------------
(* Users of the destination, and the process. *)

\* A job is, or may be about to be, the owner of the name.
Claimed(t) ==
    \/ \E j \in Jobs : rows[j][t].has
    \/ \E r \in Runners : Busy(r) /\ (t \in cycles[r].todo \/ cycles[r].table = t \/ cycles[r].states[t].has)

UserCreatesTable(t) ==
    /\ Op
    /\ dest[t].cols = 0
    /\ dest' = [dest EXCEPT ![t] = [by |-> IF Claimed(t) THEN "stray" ELSE "user",
                                    cols |-> 1, rows |-> Empty, files |-> {},
                                    watermarked |-> FALSE]]
    /\ UNCHANGED <<source, metadata, dropping, cycles, supervisor, epoch>>

\* The process dies; what it has committed stays.
Crash ==
    /\ Op
    /\ (\E r \in Runners : Busy(r)) \/ supervisor.state # "none" \/ dropping # {}
    /\ cycles' = [r \in Runners |-> NoCycle]
    /\ supervisor' = [state |-> "none", pass |-> {}]
    /\ dropping' = {}
    /\ epoch' = epoch + 1
    /\ UNCHANGED <<source, dest, metadata>>

----------------------------------------------------------------------------
\* One step of the thread that runs a cycle.
CycleStep(r) ==
    \/ \E t \in Tables : DropStale(r, t) \/ BeginTable(r, t)
    \/ DeleteTableState(r) \/ DropsDone(r) \/ Claim(r) \/ SyncTable(r) \/ SyncFails(r)
    \/ RecheckJob(r) \/ UpsertTableSyncState(r) \/ EndCycle(r) \/ AbortCycle(r)

SupervisorStep ==
    \/ SupervisorPass \/ StopReturn
    \/ \E j \in Jobs : SupervisorEnter(j) \/ SupervisorRefused(j)

UserStep ==
    \/ \E mode \in Modes : CreateJob(mode)
    \/ \E j \in Jobs : DropStates(j) \/ DropJob(j) \/ Pause(j) \/ Resume(j)
    \/ StartAll \/ ResumeAll \/ StopRequest
    \/ \E r \in Manual, j \in Jobs : ManualEnter(r, j)
    \/ \E t \in Tables : UserCreatesTable(t)

FaultStep ==
    \/ \E r \in Runners : SyncFault(r) \/ \E t \in Tables : DropStaleFails(r, t)
    \/ \E r \in Runners, j \in Jobs : SourceMissing(r, j)
    \/ Crash

ReplicationNext ==
    \/ \E t \in Tables : SourceStep(t)
    \/ SourceExpires
    \/ UserStep
    \/ FaultStep
    \/ SupervisorStep
    \/ \E r \in Runners : CycleStep(r)

\* Threads run: a statement that has begun goes on, and so does the supervisor's loop.
ReplicationSpec ==
    /\ ReplicationInit /\ [][ReplicationNext]_vars
    /\ \A r \in Runners : WF_vars(CycleStep(r))
    /\ WF_vars(SupervisorStep)
    /\ \A j \in Jobs : WF_vars(DropJob(j))

----------------------------------------------------------------------------
(* Properties. *)

\* A watermark needs a source to which rows are only added, in the order of the watermark.
AppendOnly(t, upto) ==
    \A s \in 2..upto :
        SourceAt(t, s).uuid = SourceAt(t, s - 1).uuid /\ SourceAt(t, s).cols > 0 =>
            /\ Deleted(t, s) = Empty
            /\ \A v \in Values :
                RowsOf(SourceAt(t, s).files)[v] > RowsBefore(t, s)[v] => v >= HighWatermark(RowsBefore(t, s))

\* A replica is always the source table as it was at one snapshot, and that snapshot
\* is not older than the cursor in its row: also after a crash between the commit of
\* the rows and of the cursor, a table that was dropped and made again, an expiry that
\* removed the cursor's snapshot, and columns added while a cycle runs.
ReplicaIsASourceSnapshot ==
    \A j \in Jobs, t \in Tables :
        /\ Exists(j) /\ rows[j][t].has
        /\ dest[t].by = "job" /\ dest[t].cols > 0
        /\ dest[t].watermarked => AppendOnly(t, Current)
        => \E s \in Max({1, rows[j][t].snapshot})..Current : dest[t].rows = RowsOf(SourceAt(t, s).files)

\* No step of a job changes a table that a user made while no job had the name.
UnmanagedUntouched ==
    [][\A t \in Tables : dest[t].by = "user" => dest'[t] = dest[t]]_vars

\* j is done with t: in step with the source, or not to have it.
InStep(j, t) ==
    LET held == rows[j][t].has
        srcrows == RowsOf(Source(t).files)
    IN \/ Source(t).cols = 0 /\ ~held
       \/ Source(t).cols > 0 /\ ~held /\ (dest[t].cols > 0 \/ OwnedByOther(j, t))
       \/ Source(t).cols > 0 /\ held /\ dest[t].cols = Source(t).cols /\ dest[t].rows = srcrows
       \/ held /\ OwnedByOther(j, t)
       \/ jobs[j].mode = "watermark" /\ srcrows[0] > 0
       \/ (jobs[j].mode = "watermark" \/ dest[t].watermarked) /\ ~AppendOnly(t, Current)

\* Once a job stays runnable under a live supervisor, its replicas catch up with the
\* source when that has come to rest: errors, refused cycles and lost cursors are retried.
Converges ==
    \A j \in Jobs :
        <>[](JobIsRunnable(j) /\ supervisor.state = "live" /\ j \notin dropping)
            => <>[](\A t \in Tables : InStep(j, t))

============================================================================
