----------------------------- MODULE RetryQueue -----------------------------
(***************************************************************************)
(* The failed_jobs table and the sessions that work on it:                 *)
(* process_retry_queue and manage.py retry-failed (a batch of due jobs in   *)
(* one SQLAlchemy session), retry_single_job, and the manual retry         *)
(* endpoint.                                                               *)
(*                                                                         *)
(* A session holds the attributes of each job as it loaded them, flushes   *)
(* only the columns whose value changed, and its flushed rows are locked   *)
(* and invisible to the others until it commits.  The services that a retry *)
(* runs share that session: a service may commit or roll back in the        *)
(* middle of the batch, and with it what the batch has flushed so far.      *)
(***************************************************************************)
EXTENDS Naturals, FiniteSets, Functions

CONSTANTS JobIds,       \* ids of failed_jobs rows
          InitJobs,     \* the jobs that exist at first
          Sessions,     \* database sessions, one per running task or request
          Outcomes,     \* what a service may do, a subset of AllOutcomes
          Sources,      \* subset of {"single", "endpoint"}
          MaxRetries,   \* settings.MAX_RETRIES
          BatchLimit,   \* limit of get_ready_for_retry
          MaxFailures,  \* bound: failed runs, of all jobs together
          MaxPosts,     \* bound: manual retries
          MaxCrashes    \* bound: killed sessions

\* How the run of a job ends: whether the service reports success, what it does
\* to the session, and whether it leaves a new failed job behind.
\*   none      it neither commits nor rolls back
\*   commit    it commits, and the batch's flushed rows with it
\*   rollback  it rolls back, then commits its own failure record
\*   broken    its failure handler fails too: the session accepts no statement
AllOutcomes == [ok : {TRUE}, tx : {"none", "commit"}, new : {FALSE}]
          \cup [ok : {FALSE}, tx : {"none", "broken"}, new : {FALSE}]
          \cup [ok : {FALSE}, tx : {"commit"}, new : BOOLEAN]
          \cup [ok : {FALSE}, tx : {"rollback"}, new : {TRUE}]

ASSUME RetryQueueAssumption ==
    /\ InitJobs \subseteq JobIds /\ IsFiniteSet(Sessions)
    /\ Outcomes \subseteq AllOutcomes
    /\ Sources \subseteq {"single", "endpoint"}
    /\ {MaxRetries, BatchLimit} \subseteq Nat \ {0}
    /\ {MaxFailures, MaxPosts, MaxCrashes} \subseteq Nat

VARIABLES table,      \* table[j]: the committed row
          asked,      \* jobs for which retry_single_job is in the broker
          session,    \* the state of each session
          failures,   \* failures[j]: how many runs of j have failed
          posts, crashes

vars == <<table, asked, session, failures, posts, crashes>>

-----------------------------------------------------------------------------
(* next is next_retry_at without the clock: NULL, in the future, or past.   *)
Row     == [status : {"absent", "PENDING", "DEAD_LETTER", "RESOLVED"},
            count : Nat, next : {"null", "wait", "due"}]
NoRow   == [status |-> "absent", count |-> 0, next |-> "null"]
NewRow  == [status |-> "PENDING", count |-> 0, next |-> "wait"]

\* Attributes that are not loaded: never read, or expired by a rollback.
Unloaded == [status |-> "expired", count |-> 0, next |-> "null"]

Columns == {"status", "count", "next", "resolved_at"}
Modes   == {"queue", "single", "endpoint"}
Session == [pc : {"idle", "loop", "run", "resolve", "increment", "commit", "reset"},
            mode : Modes,
            todo : SUBSET JobIds,               \* the jobs of the batch still to run
            cur : SUBSET JobIds,                \* the job being run, as a singleton
            mem : [JobIds -> Row \cup {Unloaded}],
            dirty : [JobIds -> SUBSET Columns]]  \* columns flushed, not committed
Idle == [pc |-> "idle", mode |-> "queue", todo |-> {}, cur |-> {},
         mem |-> [j \in JobIds |-> Unloaded], dirty |-> [j \in JobIds |-> {}]]

TypeOK ==
    /\ table \in [JobIds -> Row]
    /\ asked \subseteq JobIds
    /\ session \in [Sessions -> Session]
    /\ failures \in [JobIds -> Nat]
    /\ posts \in Nat /\ crashes \in Nat

Init ==
    /\ table = [j \in JobIds |-> IF j \in InitJobs THEN NewRow ELSE NoRow]
    /\ asked = {}
    /\ session = [s \in Sessions |-> Idle]
    /\ failures = [j \in JobIds |-> 0]
    /\ posts = 0 /\ crashes = 0

At(s, pc)  == session[s].pc = pc
Locked(s)  == {j \in JobIds : session[s].dirty[j] # {}}
Current(s) == CHOOSE j \in session[s].cur : TRUE
Due        == {j \in JobIds : table[j].status = "PENDING" /\ table[j].next = "due"}

\* What the session reads of row j: its own flushed columns over the committed row.
Merged(s, j) ==
    LET d == session[s].dirty[j]
        m == session[s].mem[j]
    IN [status |-> IF "status" \in d THEN m.status ELSE table[j].status,
        count  |-> IF "count" \in d THEN m.count ELSE table[j].count,
        next   |-> IF "next" \in d THEN m.next ELSE table[j].next]

\* db.commit(): the flushed columns become visible, the locks are released; the
\* objects stay loaded (expire_on_commit=False).
Committed(s) == [j \in JobIds |-> Merged(s, j)]
Clean        == [j \in JobIds |-> {}]

\* The columns an UPDATE of job j writes: those that differ from the loaded ones.
\* A new timestamp differs from any old one; resolved_at only takes the lock.
Changed(old, new) ==
    {"resolved_at"}
    \cup {c \in {"status"} : old.status # new.status}
    \cup {c \in {"count"} : old.count # new.count}
    \cup {c \in {"next"} : new.next # "null" \/ old.next # "null"}

\* An UPDATE waits for the lock of the row.
Flush(s, j, old, new, pc) ==
    /\ \A r \in Sessions \ {s} : j \notin Locked(r)
    /\ session' = [session EXCEPT ![s] = [session[s] EXCEPT !.pc = pc, !.cur = {},
                      !.mem[j] = new, !.dirty[j] = session[s].dirty[j] \cup Changed(old, new)]]

-----------------------------------------------------------------------------
(* The clock, and the tasks that start a session                           *)

\* next_retry_at passes.
Tick(j) ==
    /\ table[j].next = "wait"
    /\ table' = [table EXCEPT ![j].next = "due"]
    /\ UNCHANGED <<asked, session, failures, posts, crashes>>

\* get_ready_for_retry.  The order of next_retry_at is left out: any job of the
\* batch may come first.
BeginQueue(s) ==
    /\ At(s, "idle") /\ Due # {}
    /\ \E batch \in SUBSET Due :
          /\ batch = Due \/ Cardinality(batch) = BatchLimit
          /\ Cardinality(batch) <= BatchLimit
          /\ session' = [session EXCEPT ![s] = [Idle EXCEPT
                            !.pc = "loop", !.todo = batch,
                            !.mem = [j \in JobIds |-> IF j \in batch THEN table[j] ELSE Unloaded]]]
    /\ UNCHANGED <<table, asked, failures, posts, crashes>>

\* The endpoint reads a job that is pending or a dead letter ...
RetryFailedJob(s, j) ==
    /\ Sources # {}
    /\ posts < MaxPosts /\ posts' = posts + 1
    /\ At(s, "idle")
    /\ table[j].status \in {"PENDING", "DEAD_LETTER"}
    /\ session' = [session EXCEPT ![s] = [Idle EXCEPT
                      !.pc = "reset", !.mode = "endpoint", !.cur = {j}, !.mem[j] = table[j]]]
    /\ UNCHANGED <<table, asked, failures, crashes>>

\* ... and dispatches retry_single_job ...
Dispatch(s) ==
    /\ At(s, "reset") /\ "single" \in Sources
    /\ asked' = asked \cup session[s].cur
    /\ session' = [session EXCEPT ![s] = Idle]
    /\ UNCHANGED <<table, failures, posts, crashes>>

\* ... or, when the broker is unreachable, resets the job and commits.
DispatchFails(s) ==
    LET j == Current(s) IN
    /\ At(s, "reset") /\ "endpoint" \in Sources
    /\ Flush(s, j, session[s].mem[j], [status |-> "PENDING", count |-> 0, next |-> "due"], "commit")
    /\ UNCHANGED <<table, asked, failures, posts, crashes>>

\* retry_single_job loads its job, whatever its status.
BeginSingle(s, j) ==
    /\ At(s, "idle") /\ j \in asked
    /\ asked' = asked \ {j}
    /\ session' = [session EXCEPT ![s] = [Idle EXCEPT
                      !.pc = "loop", !.mode = "single", !.todo = {j}, !.mem[j] = table[j]]]
    /\ UNCHANGED <<table, failures, posts, crashes>>

-----------------------------------------------------------------------------
(* The body of the batch                                                   *)

\* _execute_retry begins: it reads job.payload and job.job_type, which reloads
\* attributes an earlier rollback expired.
RunJob(s, j) ==
    /\ At(s, "loop") /\ j \in session[s].todo
    /\ session' = [session EXCEPT ![s] = [session[s] EXCEPT
                      !.pc = "run", !.cur = {j}, !.todo = session[s].todo \ {j},
                      !.mem[j] = IF session[s].mem[j] = Unloaded THEN Merged(s, j) ELSE session[s].mem[j]]]
    /\ UNCHANGED <<table, asked, failures, posts, crashes>>

\* The service ends.
Ended(s, o) ==
    /\ At(s, "run") /\ o \in Outcomes
    /\ o.ok \/ FoldFunction(+, 0, failures) < MaxFailures
    /\ failures' = IF o.ok THEN failures ELSE [failures EXCEPT ![Current(s)] = @ + 1]
    /\ UNCHANGED <<asked, posts, crashes>>
Verdict(o) == IF o.ok THEN "resolve" ELSE "increment"

\* The service's own failed job, visible with its commit.
NewJob(o, rows) ==
    IF o.new THEN \E n \in JobIds : table[n].status = "absent" /\ table' = [rows EXCEPT ![n] = NewRow]
    ELSE table' = rows

EndsUncommitted(s, o) ==
    /\ Ended(s, o) /\ o.tx = "none"
    /\ session' = [session EXCEPT ![s] = [session[s] EXCEPT !.pc = Verdict(o)]]
    /\ UNCHANGED table

EndsCommitted(s, o) ==
    /\ Ended(s, o) /\ o.tx = "commit"
    /\ NewJob(o, Committed(s))
    /\ session' = [session EXCEPT ![s] = [session[s] EXCEPT !.pc = Verdict(o), !.dirty = Clean]]

\* Everything the batch flushed since the last commit is gone, every object is expired.
EndsRolledBack(s, o) ==
    /\ Ended(s, o) /\ o.tx = "rollback"
    /\ NewJob(o, table)
    /\ session' = [session EXCEPT ![s] = [session[s] EXCEPT
                      !.pc = Verdict(o), !.dirty = Clean, !.mem = Idle.mem]]

\* increment_retry raises on the broken session: the task gives up its batch.
EndsBroken(s, o) ==
    /\ Ended(s, o) /\ o.tx = "broken"
    /\ session' = [session EXCEPT ![s] = Idle]
    /\ UNCHANGED table

MarkResolved(s) ==
    LET j == Current(s) IN
    /\ At(s, "resolve")
    /\ Flush(s, j, session[s].mem[j],
             [status |-> "RESOLVED", count |-> session[s].mem[j].count, next |-> "null"], "loop")
    /\ UNCHANGED <<table, asked, failures, posts, crashes>>

\* Faults: a job is given up one run early; is rescheduled without a time; gets a
\* status of its own; is given up without counting the last run.
IncrementedEarlyMutant(row) ==
    IF row.count + 2 >= MaxRetries
    THEN [status |-> "DEAD_LETTER", count |-> row.count + 1, next |-> "null"]
    ELSE [status |-> "PENDING", count |-> row.count + 1, next |-> "wait"]
IncrementedUntimedMutant(row) ==
    IF row.count + 1 >= MaxRetries
    THEN [status |-> "DEAD_LETTER", count |-> row.count + 1, next |-> "null"]
    ELSE [status |-> "PENDING", count |-> row.count + 1, next |-> "null"]
IncrementedStatusMutant(row) ==
    IF row.count + 1 >= MaxRetries
    THEN [status |-> "DEAD_LETTER", count |-> row.count + 1, next |-> "null"]
    ELSE [status |-> "RETRYING", count |-> row.count + 1, next |-> "wait"]
IncrementedUncountedMutant(row) ==
    IF row.count + 1 >= MaxRetries
    THEN [status |-> "DEAD_LETTER", count |-> row.count, next |-> "null"]
    ELSE [status |-> "PENDING", count |-> row.count + 1, next |-> "wait"]

\* The row after increment_retry.
Incremented(row) ==
    IF row.count + 1 >= MaxRetries
    THEN [status |-> "DEAD_LETTER", count |-> row.count + 1, next |-> "null"]
    ELSE [status |-> "PENDING", count |-> row.count + 1, next |-> "wait"]

\* increment_retry reads job.retry_count, which reloads a job that the service's
\* rollback expired ...
Reload(s) ==
    LET j == Current(s) IN
    /\ At(s, "increment") /\ session[s].mem[j] = Unloaded
    /\ session' = [session EXCEPT ![s] = [session[s] EXCEPT !.mem[j] = Merged(s, j)]]
    /\ UNCHANGED <<table, asked, failures, posts, crashes>>

\* ... and writes it back one higher.
IncrementRetry(s) ==
    LET j == Current(s) IN
    /\ At(s, "increment") /\ session[s].mem[j] # Unloaded
    /\ Flush(s, j, session[s].mem[j], Incremented(session[s].mem[j]), "loop")
    /\ UNCHANGED <<table, asked, failures, posts, crashes>>

\* The batch is done: commit and close.
Commit(s) ==
    /\ At(s, "commit") \/ (At(s, "loop") /\ session[s].todo = {})
    /\ table' = Committed(s)
    /\ session' = [session EXCEPT ![s] = Idle]
    /\ UNCHANGED <<asked, failures, posts, crashes>>

-----------------------------------------------------------------------------
(* Sessions that end early                                                 *)

\* The job a session wants to write is locked by another.
WaitsFor(s, r) ==
    session[s].pc \in {"resolve", "increment"} /\ s # r /\ Current(s) \in Locked(r)

\* Two sessions wait for each other: the database aborts one, its flush raises,
\* and so does every statement after it.
DeadlockAbort(s) ==
    /\ \E r \in Sessions : WaitsFor(s, r) /\ WaitsFor(r, s)
    /\ session' = [session EXCEPT ![s] = Idle]
    /\ UNCHANGED <<table, asked, failures, posts, crashes>>

\* A killed session is rolled back; retry_single_job goes back to the broker.
Crash(s) ==
    /\ ~At(s, "idle")
    /\ crashes < MaxCrashes /\ crashes' = crashes + 1
    /\ asked' = IF session[s].mode = "single" THEN asked \cup session[s].todo \cup session[s].cur \cup Locked(s)
                ELSE asked
    /\ session' = [session EXCEPT ![s] = Idle]
    /\ UNCHANGED <<table, failures, posts>>

Work(s) ==
    \/ Dispatch(s) \/ DispatchFails(s)
    \/ \E j \in JobIds : RunJob(s, j)
    \/ \E o \in Outcomes :
          EndsUncommitted(s, o) \/ EndsCommitted(s, o) \/ EndsRolledBack(s, o) \/ EndsBroken(s, o)
    \/ MarkResolved(s) \/ Reload(s) \/ IncrementRetry(s) \/ Commit(s) \/ DeadlockAbort(s)

Next ==
    \/ \E j \in JobIds : Tick(j)
    \/ \E s \in Sessions :
          \/ BeginQueue(s)
          \/ \E j \in JobIds : RetryFailedJob(s, j) \/ BeginSingle(s, j)
          \/ Work(s)
          \/ Crash(s)

Spec == Init /\ [][Next]_vars

\* Time passes, beat starts the queue every minute, a session that began goes on.
FairSpec ==
    /\ Spec
    /\ \A j \in JobIds : WF_vars(Tick(j))
    /\ \A s \in Sessions : WF_vars(BeginQueue(s)) /\ WF_vars(Work(s))
=============================================================================
