----------------------------- MODULE OrderSync -----------------------------
(***************************************************************************)
(* The WooCommerce -> Odoo order pipeline: webhook endpoints, the Celery   *)
(* order tasks and retry jobs, OrderSyncService, the order_mapping and     *)
(* failed_jobs tables, and the sale orders the service makes in Odoo.      *)
(*                                                                         *)
(* A process is a Celery slot, an API worker or the command line.  The     *)
(* code between two calls to Odoo or WooCommerce is one step: it touches   *)
(* the database in one transaction, which the last statement commits.      *)
(* A process keeps the mapping row it read (`seen`) across its Odoo calls, *)
(* as the ORM object `existing` does.  An attempt is made of                *)
(*   check -> create -> confirm -> invoice -> commit   (-> resolve), or    *)
(*   ... -> error (-> bump), with a crash possible before every step.      *)
(*                                                                         *)
(* Definitions named ...Mutant state a fault a change to the code could      *)
(* bring; no action uses them.  README.md says which property notices each. *)
(***************************************************************************)
EXTENDS Naturals, FiniteSets

CONSTANTS Orders,      \* WooCommerce orders
          SaleIds,     \* bound: the sale order ids Odoo can give, in order
          JobIds,      \* bound: the ids of failed_jobs rows, in order
          Procs,       \* Celery slots and other processes that run the service
          None,        \* the absent id
          Topics,      \* the webhooks WooCommerce sends in this instance
          Sources,     \* what else starts work: subset of {"manual", "endpoint", "fallback"}
          MaxTries,    \* max_retries of the Celery order tasks
          MaxPosts,    \* bound: webhooks, manual runs and endpoint calls
          MaxFaults,   \* bound: failed calls to Odoo, WooCommerce, the broker, the database
          MaxCrashes   \* bound: processes killed in the middle of a task

ASSUME IdAssumption == SaleIds \subseteq Nat /\ JobIds \subseteq Nat
ASSUME OrderSyncAssumption ==
    /\ None \notin SaleIds
    /\ None \notin JobIds
    /\ None \notin Orders
    /\ Topics \subseteq {"created", "updated", "cancelled", "refunded"}
    /\ Sources \subseteq {"manual", "endpoint", "fallback"}
    /\ {MaxTries, MaxPosts, MaxFaults, MaxCrashes} \subseteq Nat

VARIABLES accepted,    \* orders whose order-created webhook was answered 200
          queue,       \* tasks in the broker
          rows,        \* order_mapping: rows[w], with status "none" when there is no row
          sales,       \* Odoo: sales[s].order = None when s has not been created
          jobs,        \* failed_jobs: jobs[j].order = None when there is no such row
          proc,        \* what each process is doing, and its local variables
          posts, faults, crashes

vars == <<accepted, queue, rows, sales, jobs, proc, posts, faults, crashes>>

-----------------------------------------------------------------------------
(* State                                                                   *)

RowStatus == {"none", "SYNCED", "FAILED", "CANCELLED", "REFUNDED"}
Row   == [status : RowStatus, so : SaleIds \cup {None}, invoiceOf : SaleIds \cup {None}]
NoRow == [status |-> "none", so |-> None, invoiceOf |-> None]

SaleState == {"draft", "sale", "cancel"}
Sale   == [order : Orders \cup {None}, state : SaleState]
NoSale == [order |-> None, state |-> "draft"]

JobStatus == {"PENDING", "DEAD_LETTER", "RESOLVED"}
Job   == [order : Orders \cup {None}, status : JobStatus]
NoJob == [order |-> None, status |-> "PENDING"]

\* Tasks the broker redelivers, and work that lives only in its process.
PayloadKinds == {"created", "updated"}
CeleryKinds  == PayloadKinds \cup {"cancelled", "refunded", "retry_single"}
RetryKinds   == {"retry_single", "retry_queue"}
Kinds        == CeleryKinds \cup RetryKinds \cup {"manual", "fallback", "endpoint", "none"}

Task   == [kind : Kinds, order : Orders \cup {None}, tries : 0..MaxTries, job : JobIds \cup {None}]
NoTask == [kind |-> "none", order |-> None, tries |-> 0, job |-> None]
NewTask(k, w, j) == [kind |-> k, order |-> w, tries |-> 0, job |-> j]

PCs == {"idle", "check", "create", "confirm", "invoice", "commit", "error",
        "resolve", "bump", "action_cancel", "mark_cancelled", "dispatch"}
Proc == [pc : PCs, task : Task,
         seen : Row,                         \* `existing`: the row as read
         expired : BOOLEAN,                  \* db.rollback() expired the loaded objects
         sale : SaleIds \cup {None},         \* odoo_order_id
         billed : BOOLEAN,                   \* odoo_invoice_id is set
         jobSeen : JobStatus]                \* job.status as loaded
\* A process at pc with task t and fresh local variables; st is its job's status.
Fresh(pc, t, st) == [pc |-> pc, task |-> t, seen |-> NoRow, expired |-> FALSE,
                     sale |-> None, billed |-> FALSE, jobSeen |-> st]
Idle == Fresh("idle", NoTask, "PENDING")

TypeOK ==
    /\ accepted \subseteq Orders
    /\ queue \subseteq Task
    /\ rows \in [Orders -> Row]
    /\ sales \in [SaleIds -> Sale]
    /\ jobs \in [JobIds -> Job]
    /\ proc \in [Procs -> Proc]
    /\ posts \in Nat /\ faults \in Nat /\ crashes \in Nat

Init ==
    /\ accepted = {}
    /\ queue = {}
    /\ rows = [w \in Orders |-> NoRow]
    /\ sales = [s \in SaleIds |-> NoSale]
    /\ jobs = [j \in JobIds |-> NoJob]
    /\ proc = [p \in Procs |-> Idle]
    /\ posts = 0 /\ faults = 0 /\ crashes = 0

Open(j) == jobs[j].order # None /\ jobs[j].status \in {"PENDING", "DEAD_LETTER"}

Fault == faults < MaxFaults /\ faults' = faults + 1
Post  == posts < MaxPosts /\ posts' = posts + 1

-----------------------------------------------------------------------------
(* How a task ends                                                         *)

\* The task returns; the broker forgets it.  The fallback runs inside the
\* webhook request, which answers 200 only now.
Finish(p) ==
    /\ proc' = [proc EXCEPT ![p] = Idle]
    /\ accepted' = IF proc[p].task.kind = "fallback"
                   THEN accepted \cup {proc[p].task.order} ELSE accepted
    /\ UNCHANGED queue

\* Fault: retries without looking at max_retries.
RaiseUnboundedMutant(p) ==
    /\ proc' = [proc EXCEPT ![p] = Idle]
    /\ queue' = IF proc[p].task.kind \in CeleryKinds \ RetryKinds
                THEN queue \cup {[proc[p].task EXCEPT !.tries = @ + 1]} ELSE queue
    /\ UNCHANGED accepted

\* Fault: the task catches the exception and returns.
RaiseSwallowedMutant(p) == Finish(p)

\* The task raises.  An order task is sent again until max_retries; a retry
\* job, the fallback and the command line swallow or report the exception.
Raise(p) ==
    LET t == proc[p].task IN
    IF t.kind \in CeleryKinds \ RetryKinds /\ t.tries < MaxTries
    THEN /\ proc' = [proc EXCEPT ![p] = Idle]
         /\ queue' = queue \cup {[t EXCEPT !.tries = t.tries + 1]}
         /\ UNCHANGED accepted
    ELSE Finish(p)

Goto(p, pc) ==
    /\ proc' = [proc EXCEPT ![p].pc = pc]
    /\ UNCHANGED <<accepted, queue>>

\* _process_order rolls back before it raises, which expires `existing` and the job.
RollBack(p) ==
    /\ proc' = [proc EXCEPT ![p].pc = "error", ![p].expired = TRUE]
    /\ UNCHANGED <<accepted, queue>>

-----------------------------------------------------------------------------
(* Work arrives                                                            *)

\* A webhook endpoint puts its task in the broker and answers 200.
Webhook(w, topic) ==
    /\ Post
    /\ NewTask(topic, w, None) \notin queue
    /\ queue' = queue \cup {NewTask(topic, w, None)}
    /\ accepted' = IF topic = "created" THEN accepted \cup {w} ELSE accepted
    /\ UNCHANGED <<rows, sales, jobs, proc, faults, crashes>>

\* The broker is unreachable: order-created processes the order in the request.
\* (The other endpoints answer 200 and nothing happens, a stuttering step.)
WebhookFallback(p, w) ==
    /\ "created" \in Topics /\ "fallback" \in Sources
    /\ proc[p].pc = "idle"
    /\ Post /\ Fault
    /\ proc' = [proc EXCEPT ![p] = Fresh("check", NewTask("fallback", w, None), "PENDING")]
    /\ UNCHANGED <<accepted, queue, rows, sales, jobs, crashes>>

\* manage.py sync-order.
ManualSync(p, w) ==
    /\ "manual" \in Sources
    /\ proc[p].pc = "idle"
    /\ Post
    /\ proc' = [proc EXCEPT ![p] = Fresh("check", NewTask("manual", w, None), "PENDING")]
    /\ UNCHANGED <<accepted, queue, rows, sales, jobs, faults, crashes>>

\* POST /failed-jobs/{id}/retry reads an open job and dispatches retry_single_job ...
RetryEndpoint(p, j) ==
    /\ "endpoint" \in Sources
    /\ proc[p].pc = "idle"
    /\ Open(j)
    /\ Post
    /\ proc' = [proc EXCEPT ![p] =
                   Fresh("dispatch", NewTask("endpoint", jobs[j].order, j), jobs[j].status)]
    /\ UNCHANGED <<accepted, queue, rows, sales, jobs, faults, crashes>>

DispatchRetry(p) ==
    /\ proc[p].pc = "dispatch"
    /\ queue' = queue \cup {NewTask("retry_single", proc[p].task.order, proc[p].task.job)}
    /\ proc' = [proc EXCEPT ![p] = Idle]
    /\ UNCHANGED <<accepted, rows, sales, jobs, posts, faults, crashes>>

\* ... or, when the broker is unreachable, makes the job due at once.
DispatchRetryFails(p) ==
    /\ proc[p].pc = "dispatch"
    /\ Fault
    /\ jobs' = IF proc[p].jobSeen = "PENDING" THEN jobs
               ELSE [jobs EXCEPT ![proc[p].task.job].status = "PENDING"]
    /\ proc' = [proc EXCEPT ![p] = Idle]
    /\ UNCHANGED <<accepted, queue, rows, sales, posts, crashes>>

\* A Celery slot takes a task.  retry_single_job loads its job, whatever its status.
TakeTask(p, t) ==
    /\ proc[p].pc = "idle"
    /\ queue' = queue \ {t}
    /\ proc' = [proc EXCEPT ![p] =
                   Fresh("check", t, IF t.kind = "retry_single" THEN jobs[t.job].status ELSE "PENDING")]
    /\ UNCHANGED <<accepted, rows, sales, jobs, posts, faults, crashes>>

\* process_retry_queue (beat) or manage.py retry-failed runs a due job.  Time is
\* left out: every pending job is due some time, so it may be picked now.
RunDueJob(p, j) ==
    /\ proc[p].pc = "idle"
    /\ jobs[j].order # None /\ jobs[j].status = "PENDING"
    /\ proc' = [proc EXCEPT ![p] =
                   Fresh("check", NewTask("retry_queue", jobs[j].order, j), "PENDING")]
    /\ UNCHANGED <<accepted, queue, rows, sales, jobs, posts, faults, crashes>>

-----------------------------------------------------------------------------
(* One attempt of sync_order / sync_order_from_payload                     *)

At(p, pc) == proc[p].pc = pc
Syncing(p) == proc[p].task.kind \notin {"cancelled", "refunded"}
OrderOf(p) == proc[p].task.order
JobOf(p)   == proc[p].task.job
IsRetry(p) == proc[p].task.kind \in RetryKinds

\* OdooClient().authenticate() raises before the service is built.
AuthFails(p) ==
    /\ At(p, "check") /\ Fault
    /\ IF IsRetry(p) THEN Goto(p, "bump") ELSE Raise(p)
    /\ UNCHANGED <<rows, sales, jobs, posts, crashes>>

\* Fault: any mapping counts as done.
CheckSkipsMutant(p) ==
    /\ At(p, "check") /\ Syncing(p)
    /\ rows[OrderOf(p)] # NoRow
    /\ IF IsRetry(p) THEN Goto(p, "resolve") ELSE Finish(p)
    /\ UNCHANGED <<rows, sales, jobs, posts, faults, crashes>>

\* The idempotency check.
CheckSkips(p) ==
    /\ At(p, "check") /\ Syncing(p)
    /\ rows[OrderOf(p)].status = "SYNCED"
    /\ IF IsRetry(p) THEN Goto(p, "resolve") ELSE Finish(p)
    /\ UNCHANGED <<rows, sales, jobs, posts, faults, crashes>>

\* Fault: the check is left out.
CheckProceedsMutant(p) ==
    /\ At(p, "check") /\ Syncing(p)
    /\ proc' = [proc EXCEPT ![p].pc = "create", ![p].seen = rows[OrderOf(p)]]
    /\ UNCHANGED <<accepted, queue, rows, sales, jobs, posts, faults, crashes>>

CheckProceeds(p) ==
    /\ At(p, "check") /\ Syncing(p)
    /\ rows[OrderOf(p)].status # "SYNCED"
    /\ proc' = [proc EXCEPT ![p].pc = "create", ![p].seen = rows[OrderOf(p)]]
    /\ UNCHANGED <<accepted, queue, rows, sales, jobs, posts, faults, crashes>>

\* get_order or _parse_woo_order raises: no rollback, `existing` stays loaded.
FetchFails(p) ==
    /\ At(p, "create") /\ Fault
    /\ Goto(p, "error")
    /\ UNCHANGED <<rows, sales, jobs, posts, crashes>>

\* The customer or the order lines cannot be resolved, or create_sale_order fails.
PrepareFails(p) ==
    /\ At(p, "create") /\ Fault
    /\ RollBack(p)
    /\ UNCHANGED <<rows, sales, jobs, posts, crashes>>

\* Odoo makes the sale order; its answer reaches the process, or is lost.
NewSale(p, s) ==
    /\ At(p, "create")
    /\ sales[s].order = None /\ \A r \in SaleIds : r < s => sales[r].order # None
    /\ sales' = [sales EXCEPT ![s] = [order |-> OrderOf(p), state |-> "draft"]]

CreateSale(p, s) ==
    /\ NewSale(p, s)
    /\ proc' = [proc EXCEPT ![p].pc = "confirm", ![p].sale = s]
    /\ UNCHANGED <<accepted, queue, rows, jobs, posts, faults, crashes>>

CreateSaleLost(p, s) ==
    /\ NewSale(p, s) /\ Fault
    /\ RollBack(p)
    /\ UNCHANGED <<rows, jobs, posts, crashes>>

ConfirmSale(p) ==
    /\ At(p, "confirm")
    /\ sales' = [sales EXCEPT ![proc[p].sale].state = "sale"]
    /\ Goto(p, "invoice")
    /\ UNCHANGED <<rows, jobs, posts, faults, crashes>>

\* Fault: a refused confirmation is only logged.
ConfirmFailsMutant(p) ==
    /\ At(p, "confirm") /\ Fault
    /\ Goto(p, "invoice")
    /\ UNCHANGED <<rows, sales, jobs, posts, crashes>>

\* The confirmation is refused, or applied with the answer lost.
ConfirmFails(p) ==
    /\ At(p, "confirm") /\ Fault
    /\ \E st \in {"draft", "sale"} : sales' = [sales EXCEPT ![proc[p].sale].state = st]
    /\ RollBack(p)
    /\ UNCHANGED <<rows, jobs, posts, crashes>>

\* create_invoice_from_order and post_invoice: Odoo may refuse, for its own reasons
\* (nothing to invoice yet), which leaves the order without an invoice id, and the
\* attempt goes on.
Invoice(p, made) ==
    /\ At(p, "invoice")
    /\ proc' = [proc EXCEPT ![p].pc = "commit", ![p].billed = made]
    /\ UNCHANGED <<accepted, queue, rows, sales, jobs, posts, faults, crashes>>

\* execute_kw's second attempt after a session fault raises a bare Fault, which
\* the handlers of OdooAPIError do not catch.
InvoiceEscapes(p) ==
    /\ At(p, "invoice") /\ Fault
    /\ RollBack(p)
    /\ UNCHANGED <<rows, sales, jobs, posts, crashes>>

\* mark_synced on the row that was read, or a new row; then log and commit.
\* update() writes no field whose argument is None.
CommitSynced(p) ==
    LET w == OrderOf(p) IN
    /\ At(p, "commit")
    /\ proc[p].seen # NoRow \/ rows[w] = NoRow
    /\ rows' = [rows EXCEPT ![w] =
                   [status |-> "SYNCED", so |-> proc[p].sale,
                    invoiceOf |-> IF proc[p].billed THEN proc[p].sale ELSE rows[w].invoiceOf]]
    /\ IF IsRetry(p) THEN Goto(p, "resolve") ELSE Finish(p)
    /\ UNCHANGED <<sales, jobs, posts, faults, crashes>>

\* Another process inserted the row meanwhile: UNIQUE(woo_order_id).
CommitDuplicate(p) ==
    /\ At(p, "commit")
    /\ proc[p].seen = NoRow /\ rows[OrderOf(p)] # NoRow
    /\ RollBack(p)
    /\ UNCHANGED <<rows, sales, jobs, posts, faults, crashes>>

CommitFails(p) ==
    /\ At(p, "commit") /\ Fault
    /\ RollBack(p)
    /\ UNCHANGED <<rows, sales, jobs, posts, crashes>>

\* Fault: no job is recorded while Celery has tries left, which it will not use
\* for a failure that was handled.
HandleErrorMutant(p, j) ==
    LET w == OrderOf(p) IN
    /\ At(p, "error")
    /\ proc[p].seen # NoRow \/ rows[w] = NoRow
    /\ jobs[j].order = None /\ \A i \in JobIds : i < j => jobs[i].order # None
    /\ jobs' = IF proc[p].task.tries < MaxTries THEN jobs
               ELSE [jobs EXCEPT ![j] = [order |-> w, status |-> "PENDING"]]
    /\ rows' = [rows EXCEPT ![w].status = "FAILED"]
    /\ IF IsRetry(p) THEN Goto(p, "bump") ELSE Finish(p)
    /\ UNCHANGED <<sales, posts, faults, crashes>>

\* _handle_order_error: a new retry job and the FAILED status, in one transaction.
\* An unexpired row that was read as FAILED is not written again.
HandleError(p, j) ==
    LET w == OrderOf(p) IN
    /\ At(p, "error")
    /\ proc[p].seen # NoRow \/ rows[w] = NoRow
    /\ jobs[j].order = None /\ \A i \in JobIds : i < j => jobs[i].order # None
    /\ jobs' = [jobs EXCEPT ![j] = [order |-> w, status |-> "PENDING"]]
    /\ rows' = IF proc[p].expired \/ proc[p].seen.status # "FAILED"
               THEN [rows EXCEPT ![w].status = "FAILED"] ELSE rows
    /\ IF IsRetry(p) THEN Goto(p, "bump") ELSE Finish(p)
    /\ UNCHANGED <<sales, posts, faults, crashes>>

\* The handler itself fails: the FAILED row exists already, or the database is
\* down.  Its job is lost with the transaction, and a retry job cannot be
\* rescheduled in the broken session.
HandleErrorRaises(p) ==
    /\ At(p, "error")
    /\ \/ proc[p].seen = NoRow /\ rows[OrderOf(p)] # NoRow /\ UNCHANGED faults
       \/ Fault
    /\ Raise(p)
    /\ UNCHANGED <<rows, sales, jobs, posts, crashes>>

-----------------------------------------------------------------------------
(* The end of a retry job                                                  *)

\* Fault: the job of a successful run is not marked.
ResolveJobMutant(p) ==
    /\ At(p, "resolve")
    /\ Finish(p)
    /\ UNCHANGED <<rows, sales, jobs, posts, faults, crashes>>

\* mark_resolved; an attribute that keeps its loaded value is not written.
ResolveJob(p) ==
    /\ At(p, "resolve")
    /\ jobs' = IF proc[p].jobSeen = "RESOLVED" THEN jobs
               ELSE [jobs EXCEPT ![JobOf(p)].status = "RESOLVED"]
    /\ Finish(p)
    /\ UNCHANGED <<rows, sales, posts, faults, crashes>>

\* increment_retry: the next attempt is scheduled, or the job is a dead letter.
\* The count that decides is left to module RetryQueue.
BumpJob(p, st) ==
    /\ At(p, "bump")
    /\ jobs' = IF proc[p].jobSeen = st /\ ~proc[p].expired THEN jobs
               ELSE [jobs EXCEPT ![JobOf(p)].status = st]
    /\ Finish(p)
    /\ UNCHANGED <<rows, sales, posts, faults, crashes>>

\* The final write fails; the job stays as it was.
JobWriteFails(p) ==
    /\ At(p, "resolve") \/ At(p, "bump")
    /\ Fault
    /\ Finish(p)
    /\ UNCHANGED <<rows, sales, jobs, posts, crashes>>

-----------------------------------------------------------------------------
(* Cancellations and refunds                                               *)

\* Fault: the row is marked, the sale order in Odoo is left alone.
ReadForCancelMutant(p) ==
    LET row == rows[OrderOf(p)] IN
    /\ At(p, "check") /\ proc[p].task.kind = "cancelled"
    /\ IF row = NoRow
       THEN Finish(p)
       ELSE /\ proc' = [proc EXCEPT ![p].pc = "mark_cancelled", ![p].seen = row]
            /\ UNCHANGED <<accepted, queue>>
    /\ UNCHANGED <<rows, sales, jobs, posts, faults, crashes>>

\* handle_order_cancelled reads the row; without one there is nothing to do.
ReadForCancel(p) ==
    LET row == rows[OrderOf(p)] IN
    /\ At(p, "check") /\ proc[p].task.kind = "cancelled"
    /\ IF row = NoRow
       THEN Finish(p)
       ELSE /\ proc' = [proc EXCEPT
                   ![p].pc = IF row.so = None THEN "mark_cancelled" ELSE "action_cancel",
                   ![p].seen = row]
            /\ UNCHANGED <<accepted, queue>>
    /\ UNCHANGED <<rows, sales, jobs, posts, faults, crashes>>

CancelSale(p) ==
    /\ At(p, "action_cancel")
    /\ sales' = [sales EXCEPT ![proc[p].seen.so].state = "cancel"]
    /\ Goto(p, "mark_cancelled")
    /\ UNCHANGED <<rows, jobs, posts, faults, crashes>>

\* action_cancel is refused: an OdooAPIError is logged and forgotten, anything
\* else ends the task.
CancelSaleFails(p) ==
    /\ At(p, "action_cancel") /\ Fault
    /\ Goto(p, "mark_cancelled") \/ Raise(p)
    /\ UNCHANGED <<rows, sales, jobs, posts, crashes>>

MarkCancelled(p) ==
    /\ At(p, "mark_cancelled")
    /\ rows' = IF proc[p].seen.status = "CANCELLED" THEN rows
               ELSE [rows EXCEPT ![OrderOf(p)].status = "CANCELLED"]
    /\ Finish(p)
    /\ UNCHANGED <<sales, jobs, posts, faults, crashes>>

\* The commit fails: the sale order is cancelled, the row is not.
MarkCancelledFails(p) ==
    /\ At(p, "mark_cancelled") /\ Fault
    /\ Raise(p)
    /\ UNCHANGED <<rows, sales, jobs, posts, crashes>>

\* handle_order_refunded makes no remote call between its read and its commit.
MarkRefunded(p) ==
    LET w == OrderOf(p) IN
    /\ At(p, "check") /\ proc[p].task.kind = "refunded"
    /\ rows' = IF rows[w] = NoRow THEN rows ELSE [rows EXCEPT ![w].status = "REFUNDED"]
    /\ Finish(p)
    /\ UNCHANGED <<sales, jobs, posts, faults, crashes>>

-----------------------------------------------------------------------------
\* Fault: the broker forgets a task when a worker takes it.
CrashMutant(p) ==
    /\ ~At(p, "idle")
    /\ crashes < MaxCrashes /\ crashes' = crashes + 1
    /\ proc' = [proc EXCEPT ![p] = Idle]
    /\ UNCHANGED <<accepted, queue, rows, sales, jobs, posts, faults>>

\* A process is killed: its transaction is lost, and task_acks_late with
\* task_reject_on_worker_lost gives a Celery task back to the broker.
Crash(p) ==
    /\ ~At(p, "idle")
    /\ crashes < MaxCrashes /\ crashes' = crashes + 1
    /\ queue' = IF proc[p].task.kind \in CeleryKinds THEN queue \cup {proc[p].task} ELSE queue
    /\ proc' = [proc EXCEPT ![p] = Idle]
    /\ UNCHANGED <<accepted, rows, sales, jobs, posts, faults>>

\* The steps a process takes to finish the task it has begun.
Work(p) ==
    \/ AuthFails(p) \/ CheckSkips(p) \/ CheckProceeds(p)
    \/ FetchFails(p) \/ PrepareFails(p)
    \/ \E s \in SaleIds : CreateSale(p, s) \/ CreateSaleLost(p, s)
    \/ ConfirmSale(p) \/ ConfirmFails(p)
    \/ \E made \in BOOLEAN : Invoice(p, made)
    \/ InvoiceEscapes(p)
    \/ CommitSynced(p) \/ CommitDuplicate(p) \/ CommitFails(p)
    \/ \E j \in JobIds : HandleError(p, j)
    \/ HandleErrorRaises(p)
    \/ ResolveJob(p) \/ JobWriteFails(p)
    \/ \E st \in {"PENDING", "DEAD_LETTER"} : BumpJob(p, st)
    \/ ReadForCancel(p) \/ CancelSale(p) \/ CancelSaleFails(p)
    \/ MarkCancelled(p) \/ MarkCancelledFails(p) \/ MarkRefunded(p)
    \/ DispatchRetry(p) \/ DispatchRetryFails(p)

Arrival ==
    \/ \E w \in Orders, topic \in Topics : Webhook(w, topic)
    \/ \E p \in Procs, w \in Orders : WebhookFallback(p, w) \/ ManualSync(p, w)
    \/ \E p \in Procs, j \in JobIds : RetryEndpoint(p, j)

Start(p) == \E t \in queue : TakeTask(p, t)
RunJob(p) == \E j \in JobIds : RunDueJob(p, j)

Next ==
    \/ Arrival
    \/ \E p \in Procs : Start(p) \/ RunJob(p) \/ Work(p) \/ Crash(p)

Spec == Init /\ [][Next]_vars

\* A slot that began a task goes on with it, idle slots take tasks, and beat
\* starts the retry queue every minute.  Nothing makes WooCommerce send a
\* webhook or a call fail.
FairSpec ==
    /\ Spec
    /\ \A p \in Procs : WF_vars(Work(p)) /\ WF_vars(Start(p)) /\ WF_vars(RunJob(p))
=============================================================================
