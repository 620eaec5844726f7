--------------------------- MODULE OrderSyncProofs ---------------------------
(***************************************************************************)
(* Proofs about OrderSync for any number of orders, processes, sale order  *)
(* and job ids, faults, crashes and retries.                               *)
(*                                                                         *)
(* The inductive invariant is Inv: the types, and that every task at work  *)
(* or in the broker is about an order, and a retry about a job row of that *)
(* order (Linked).                                                         *)
(* Relative to it: a failed order is owed a retry (NoLostFailure), an      *)
(* accepted one is stored (StoredInv), the sale orders in the mapping are  *)
(* booked (Booked), and OrderSync implements OrderLedger.                  *)
(***************************************************************************)
EXTENDS OrderSyncProps, TLAPS

USE OrderSyncAssumption

\* Tasks that name a job name an existing row, which is about the task's order.
JobRef(t) ==
    t.kind \in RetryKinds \cup {"endpoint"} =>
        t.job \in JobIds /\ jobs[t.job].order = t.order

\* The same about the rows after a step, for a task of the state before it.
JobRefNext(t) ==
    t.kind \in RetryKinds \cup {"endpoint"} =>
        t.job \in JobIds /\ jobs'[t.job].order = t.order

Linked ==
    /\ \A t \in queue : t.order \in Orders /\ JobRef(t)
    /\ \A p \in Procs : ~At(p, "idle") =>
          /\ OrderOf(p) \in Orders
          /\ JobRef(proc[p].task)
          /\ proc[p].pc \in {"resolve", "bump"} => IsRetry(p)
          /\ At(p, "dispatch") => proc[p].task.kind = "endpoint"

Inv == TypeOK /\ Linked

-----------------------------------------------------------------------------
(* Facts about the state                                                   *)

LEMMA FreshType ==
  ASSUME NEW pc \in PCs, NEW t \in Task, NEW st \in JobStatus
  PROVE  Fresh(pc, t, st) \in Proc
BY DEF Fresh, Proc, NoRow, Row, RowStatus

LEMMA IdleType == Idle \in Proc /\ Idle.pc = "idle"
<1>1. NoTask \in Task
  BY DEF NoTask, Task, Kinds
<1> QED
  BY <1>1, FreshType DEF Idle, Fresh, PCs, JobStatus

LEMMA NewTaskType ==
  ASSUME NEW k \in Kinds, NEW w \in Orders \cup {None}, NEW j \in JobIds \cup {None}
  PROVE  NewTask(k, w, j) \in Task
BY DEF NewTask, Task

LEMMA InitInv == Init => Inv
<1> SUFFICES ASSUME Init PROVE Inv
  OBVIOUS
<1>1. TypeOK
  BY IdleType DEF Init, TypeOK, NoRow, Row, RowStatus, NoSale, Sale, SaleState, NoJob, Job, JobStatus
<1>2. Linked
  BY IdleType DEF Init, Linked, At
<1> QED
  BY <1>1, <1>2 DEF Inv

\* What a busy process works on.
LEMMA Busy ==
  ASSUME Inv, NEW p \in Procs, ~At(p, "idle")
  PROVE  /\ proc[p] \in Proc /\ proc[p].task \in Task
         /\ OrderOf(p) \in Orders
         /\ rows[OrderOf(p)] \in Row
         /\ IsRetry(p) => JobOf(p) \in JobIds /\ jobs[JobOf(p)].order = OrderOf(p)
BY DEF Inv, TypeOK, Linked, At, OrderOf, JobOf, IsRetry, JobRef, Proc

\* A step of p that keeps the job rows' orders and leaves p idle, or at a pc with
\* the task it had, preserves the links.
LEMMA LinkedStep ==
  ASSUME Inv, NEW p \in Procs, NEW r,
         proc' = [proc EXCEPT ![p] = r],
         r.pc = "idle" \/ (/\ r.task.order \in Orders
                           /\ JobRefNext(r.task)
                           /\ r.pc \in {"resolve", "bump"} => r.task.kind \in RetryKinds
                           /\ r.pc = "dispatch" => r.task.kind = "endpoint"),
         \A j \in JobIds : jobs[j].order # None => jobs'[j].order = jobs[j].order,
         \A t \in queue' : t \in queue \/ (t.order \in Orders /\ JobRefNext(t))
  PROVE  Linked'
<1>1. \A t : t.order \in Orders /\ JobRef(t) => JobRef(t)'
  BY DEF JobRef
<1>2. \A t \in queue' : t.order \in Orders /\ JobRef(t)'
  BY <1>1 DEF Inv, Linked, JobRef, JobRefNext
<1>3. ASSUME NEW q \in Procs, ~At(q, "idle")'
      PROVE  /\ OrderOf(q)' \in Orders
             /\ JobRef(proc[q].task)'
             /\ proc'[q].pc \in {"resolve", "bump"} => IsRetry(q)'
             /\ At(q, "dispatch")' => proc'[q].task.kind = "endpoint"
  <2>1. CASE q = p
    BY <2>1, <1>3 DEF Inv, TypeOK, At, OrderOf, IsRetry, JobRef, JobRefNext
  <2>2. CASE q # p
    <3>1. proc'[q] = proc[q] /\ ~At(q, "idle")
      BY <2>2, <1>3 DEF Inv, TypeOK, At
    <3> QED
      BY <3>1, <1>1 DEF Inv, Linked, At, OrderOf, IsRetry
  <2> QED
    BY <2>1, <2>2
<1> QED
  BY <1>2, <1>3 DEF Linked

-----------------------------------------------------------------------------
(* The ways a step ends keep the control state well formed                 *)

\* A job row keeps its order.
JobsKept == \A j \in JobIds : jobs[j].order # None => jobs'[j].order = jobs[j].order

Control ==
    /\ accepted \subseteq Orders
    /\ queue \subseteq Task
    /\ proc \in [Procs -> Proc]
    /\ Linked

\* p goes on with the task it has.
LEMMA SameTaskControl ==
  ASSUME Inv, NEW p \in Procs, ~At(p, "idle"), JobsKept,
         NEW r \in Proc, proc' = [proc EXCEPT ![p] = r], r.task = proc[p].task,
         r.pc \in {"resolve", "bump"} => IsRetry(p), r.pc # "dispatch",
         UNCHANGED <<accepted, queue>>
  PROVE  Control'
<1>1. r.task.order \in Orders /\ JobRefNext(r.task)
  BY DEF JobsKept, Inv, TypeOK, Linked, JobRef, JobRefNext, OrderOf
<1>2. Linked'
  BY <1>1, LinkedStep DEF JobsKept, IsRetry
<1> QED
  BY <1>2 DEF Control, Inv, TypeOK

LEMMA GotoControl ==
  ASSUME Inv, NEW p \in Procs, ~At(p, "idle"), JobsKept,
         NEW pc \in PCs, pc \in {"resolve", "bump"} => IsRetry(p), pc # "dispatch",
         Goto(p, pc)
  PROVE  Control'
<1> DEFINE r == [proc[p] EXCEPT !.pc = pc]
<1>1. proc' = [proc EXCEPT ![p] = r] /\ r \in Proc /\ r.pc = pc /\ r.task = proc[p].task
      /\ UNCHANGED <<accepted, queue>>
  BY DEF Goto, Inv, TypeOK, Proc
<1> HIDE DEF r
<1> QED
  BY <1>1, SameTaskControl

LEMMA RollBackControl ==
  ASSUME Inv, NEW p \in Procs, ~At(p, "idle"), JobsKept, RollBack(p)
  PROVE  Control'
<1> DEFINE r == [proc[p] EXCEPT !.pc = "error", !.expired = TRUE]
<1>1. proc' = [proc EXCEPT ![p] = r] /\ r \in Proc /\ r.pc = "error" /\ r.task = proc[p].task
      /\ UNCHANGED <<accepted, queue>>
  BY DEF RollBack, Inv, TypeOK, Proc, PCs
<1> HIDE DEF r
<1> QED
  BY <1>1, SameTaskControl

LEMMA FinishControl ==
  ASSUME Inv, NEW p \in Procs, ~At(p, "idle"), JobsKept, Finish(p)
  PROVE  Control'
<1>1. Linked'
  BY LinkedStep, IdleType DEF Finish, JobsKept
<1>2. OrderOf(p) \in Orders
  BY Busy
<1> QED
  BY <1>1, <1>2, IdleType DEF Control, Finish, Inv, TypeOK, OrderOf

LEMMA RaiseControl ==
  ASSUME Inv, NEW p \in Procs, ~At(p, "idle"), JobsKept, Raise(p)
  PROVE  Control'
<1> DEFINE t == proc[p].task
           u == [t EXCEPT !.tries = t.tries + 1]
<1>1. CASE t.kind \in CeleryKinds \ RetryKinds /\ t.tries < MaxTries
  <2>1. proc' = [proc EXCEPT ![p] = Idle] /\ queue' = queue \cup {u} /\ UNCHANGED accepted
    BY <1>1 DEF Raise
  <2>2. t \in Task /\ t.order \in Orders
    BY Busy DEF OrderOf
  <2>3. u \in Task /\ u.order = t.order /\ u.kind = t.kind
    BY <1>1, <2>2 DEF Task
  <2>4. JobRefNext(u)
    BY <1>1, <2>3 DEF JobRefNext, RetryKinds, CeleryKinds, PayloadKinds
  <2>5. Linked'
    <3> HIDE DEF u
    <3> QED
      BY <2>1, <2>2, <2>3, <2>4, LinkedStep, IdleType DEF JobsKept
  <2> QED
    BY <2>1, <2>3, <2>5, IdleType DEF Control, Inv, TypeOK
<1>2. CASE ~(t.kind \in CeleryKinds \ RetryKinds /\ t.tries < MaxTries)
  BY <1>2, FinishControl DEF Raise
<1> QED
  BY <1>1, <1>2

-----------------------------------------------------------------------------
(* Every step preserves Inv                                                *)

Data ==
    /\ rows \in [Orders -> Row]
    /\ sales \in [SaleIds -> Sale]
    /\ jobs \in [JobIds -> Job]
    /\ posts \in Nat /\ faults \in Nat /\ crashes \in Nat

LEMMA InvParts == ASSUME Control', Data' PROVE Inv'
BY DEF Inv, TypeOK, Control, Data

LEMMA JobStatusKeepsData ==
  ASSUME Inv, NEW j \in JobIds, NEW st \in JobStatus,
         jobs' = [jobs EXCEPT ![j].status = st]
  PROVE  jobs' \in [JobIds -> Job] /\ JobsKept
BY DEF Inv, TypeOK, Job, JobsKept

LEMMA ArrivalInv == ASSUME Inv, Arrival PROVE Inv'
<1>0. JobsKept /\ rows' = rows /\ sales' = sales /\ jobs' = jobs /\ crashes' = crashes
      /\ posts' \in Nat /\ faults' \in Nat
  <2>1. rows' = rows /\ sales' = sales /\ jobs' = jobs /\ crashes' = crashes
    BY DEF Arrival, Webhook, WebhookFallback, ManualSync, RetryEndpoint
  <2>2. posts' = posts + 1 /\ faults' \in {faults, faults + 1}
    BY DEF Arrival, Webhook, WebhookFallback, ManualSync, RetryEndpoint, Post, Fault
  <2> QED
    BY <2>1, <2>2 DEF JobsKept, Inv, TypeOK
<1>1. ASSUME NEW w \in Orders, NEW topic \in Topics, Webhook(w, topic) PROVE Inv'
  <2> DEFINE t == NewTask(topic, w, None)
  <2>1. t \in Task /\ t.order \in Orders /\ t.kind \in PayloadKinds \cup {"cancelled", "refunded"}
    BY NewTaskType DEF NewTask, Kinds, CeleryKinds, PayloadKinds
  <2>2. \A u \in queue' : u \in queue \/ u = t
    BY <1>1 DEF Webhook
  <2>3. \A u : JobRef(u) => JobRef(u)'
    BY <1>0 DEF JobRef
  <2>4. JobRef(t)'
    BY <2>1 DEF JobRef, RetryKinds, PayloadKinds
  <2>5. Linked'
    <3> HIDE DEF t
    <3>1. \A u \in queue' : u.order \in Orders /\ JobRef(u)'
      BY <2>1, <2>2, <2>3, <2>4 DEF Inv, Linked
    <3>2. proc' = proc
      BY <1>1 DEF Webhook
    <3> QED
      BY <3>1, <3>2, <2>3 DEF Inv, Linked, At, OrderOf, IsRetry
  <2> QED
    BY <1>0, <1>1, <2>1, <2>5 DEF Webhook, Inv, TypeOK
<1>2. ASSUME NEW p \in Procs, NEW w \in Orders, NEW k \in {"fallback", "manual"},
             proc' = [proc EXCEPT ![p] = Fresh("check", NewTask(k, w, None), "PENDING")],
             UNCHANGED <<accepted, queue>>
      PROVE  Inv'
  <2> DEFINE r == Fresh("check", NewTask(k, w, None), "PENDING")
  <2>1. r \in Proc /\ r.pc = "check" /\ r.task = NewTask(k, w, None)
    BY FreshType, NewTaskType DEF Kinds, PCs, JobStatus, Fresh
  <2>2. r.task.order \in Orders /\ JobRefNext(r.task)
    BY <2>1 DEF NewTask, JobRefNext, RetryKinds
  <2>3. Linked'
    <3> HIDE DEF r
    <3>1. proc' = [proc EXCEPT ![p] = r]
      BY <1>2 DEF r
    <3> QED
      BY <1>0, <1>2, <2>1, <2>2, <3>1, LinkedStep DEF JobsKept
  <2> QED
    BY <1>0, <1>2, <2>1, <2>3 DEF Inv, TypeOK
<1>3. ASSUME NEW p \in Procs, NEW j \in JobIds, RetryEndpoint(p, j) PROVE Inv'
  <2> DEFINE w == jobs[j].order
             r == Fresh("dispatch", NewTask("endpoint", w, j), jobs[j].status)
  <2>1. w \in Orders /\ jobs[j].status \in JobStatus
    BY <1>3 DEF RetryEndpoint, Open, Inv, TypeOK, Job
  <2>2. r \in Proc /\ r.pc = "dispatch" /\ r.task = NewTask("endpoint", w, j)
    BY <2>1, FreshType, NewTaskType DEF Kinds, PCs, Fresh
  <2>3. r.task.order \in Orders /\ r.task.kind = "endpoint" /\ JobRefNext(r.task)
    BY <1>0, <2>1, <2>2 DEF NewTask, JobRefNext
  <2>4. proc' = [proc EXCEPT ![p] = r] /\ UNCHANGED <<accepted, queue>>
    BY <1>3 DEF RetryEndpoint
  <2>5. Linked'
    <3> HIDE DEF r
    <3> QED
      BY <1>0, <2>2, <2>3, <2>4, LinkedStep DEF JobsKept
  <2> QED
    BY <1>0, <2>2, <2>4, <2>5 DEF Inv, TypeOK
<1> QED
  BY <1>1, <1>2, <1>3 DEF Arrival, WebhookFallback, ManualSync

\* A process that was idle begins t, a task about an order and a job of it.
LEMMA BeginInv ==
  ASSUME Inv, NEW p \in Procs, NEW t \in Task, NEW st \in JobStatus,
         t.order \in Orders, JobRef(t),
         proc' = [proc EXCEPT ![p] = Fresh("check", t, st)],
         queue' \subseteq queue,
         UNCHANGED <<accepted, rows, sales, jobs, posts, faults, crashes>>
  PROVE  Inv'
<1> DEFINE r == Fresh("check", t, st)
<1>1. r \in Proc /\ r.pc = "check" /\ r.task = t
  BY FreshType DEF PCs, Fresh
<1>2. JobRefNext(r.task)
  BY <1>1 DEF JobRef, JobRefNext
<1>3. Linked'
  <2> HIDE DEF r
  <2>1. proc' = [proc EXCEPT ![p] = r]
    BY DEF r
  <2> QED
    BY <1>1, <1>2, <2>1, LinkedStep
<1> QED
  BY <1>1, <1>3 DEF Inv, TypeOK

LEMMA StartInv == ASSUME Inv, NEW p \in Procs, Start(p) PROVE Inv'
<1> PICK t \in queue : TakeTask(p, t)
  BY DEF Start
<1> DEFINE st == IF t.kind = "retry_single" THEN jobs[t.job].status ELSE "PENDING"
<1>1. t \in Task /\ t.order \in Orders /\ JobRef(t)
  BY DEF Inv, TypeOK, Linked
<1>2. st \in JobStatus
  BY <1>1 DEF JobRef, RetryKinds, Inv, TypeOK, Job, JobStatus
<1>3. /\ proc' = [proc EXCEPT ![p] = Fresh("check", t, st)]
      /\ queue' \subseteq queue
      /\ UNCHANGED <<accepted, rows, sales, jobs, posts, faults, crashes>>
  BY DEF TakeTask
<1> HIDE DEF st
<1> QED
  BY <1>1, <1>2, <1>3, BeginInv

LEMMA RunJobInv == ASSUME Inv, NEW p \in Procs, RunJob(p) PROVE Inv'
<1> PICK j \in JobIds : RunDueJob(p, j)
  BY DEF RunJob
<1> DEFINE t == NewTask("retry_queue", jobs[j].order, j)
<1>1. jobs[j].order \in Orders
  BY DEF RunDueJob, Inv, TypeOK, Job
<1>2. t \in Task /\ t.order \in Orders /\ JobRef(t)
  BY <1>1, NewTaskType DEF NewTask, JobRef, Kinds, RetryKinds
<1>3. /\ proc' = [proc EXCEPT ![p] = Fresh("check", t, "PENDING")]
      /\ UNCHANGED <<queue, accepted, rows, sales, jobs, posts, faults, crashes>>
  BY DEF RunDueJob
<1> HIDE DEF t
<1> QED
  BY <1>2, <1>3, BeginInv DEF JobStatus

LEMMA CrashInv == ASSUME Inv, NEW p \in Procs, Crash(p) PROVE Inv'
<1> DEFINE t == proc[p].task
<1>1. t \in Task /\ t.order \in Orders /\ JobRef(t)
  BY Busy DEF Crash, OrderOf, Inv, Linked
<1>2. JobRefNext(t)
  BY <1>1 DEF Crash, JobRef, JobRefNext
<1>3. \A u \in queue' : u \in queue \/ u = t
  BY DEF Crash
<1>4. Linked'
  <2> HIDE DEF t
  <2> QED
    BY <1>1, <1>2, <1>3, LinkedStep, IdleType DEF Crash
<1> QED
  BY <1>1, <1>4, IdleType DEF Crash, Inv, TypeOK

LEMMA FaultType == ASSUME Inv, Fault PROVE faults' \in Nat
BY DEF Inv, TypeOK, Fault

\* The steps of an attempt, one by one.
LEMMA AttemptInv ==
  ASSUME Inv, NEW p \in Procs,
         \/ AuthFails(p) \/ CheckSkips(p) \/ CheckProceeds(p) \/ FetchFails(p) \/ PrepareFails(p)
         \/ \E s \in SaleIds : CreateSale(p, s) \/ CreateSaleLost(p, s)
         \/ ConfirmSale(p) \/ ConfirmFails(p)
         \/ \E made \in BOOLEAN : Invoice(p, made)
         \/ InvoiceEscapes(p)
  PROVE  Inv'
<1>0. UNCHANGED <<rows, jobs, posts, crashes>> /\ JobsKept
  BY DEF AuthFails, CheckSkips, CheckProceeds, FetchFails, PrepareFails, CreateSale,
         CreateSaleLost, NewSale, ConfirmSale, ConfirmFails, Invoice, InvoiceEscapes, JobsKept
<1>1. ~At(p, "idle")
  BY DEF AuthFails, CheckSkips, CheckProceeds, FetchFails, PrepareFails, CreateSale,
         CreateSaleLost, NewSale, ConfirmSale, ConfirmFails, Invoice, InvoiceEscapes, At
<1>2. faults' \in Nat
  BY FaultType DEF AuthFails, CheckSkips, CheckProceeds, FetchFails, PrepareFails, CreateSale,
         CreateSaleLost, ConfirmSale, ConfirmFails, Invoice, InvoiceEscapes, Inv, TypeOK
<1>3. sales' \in [SaleIds -> Sale]
  <2>1. ASSUME NEW s \in SaleIds, NewSale(p, s) PROVE sales' \in [SaleIds -> Sale]
    BY <1>1, <2>1, Busy DEF NewSale, Inv, TypeOK, Sale, SaleState
  <2>2. ASSUME NEW s, NEW st \in SaleState, sales' = [sales EXCEPT ![s].state = st]
        PROVE  sales' \in [SaleIds -> Sale]
    BY <2>2 DEF Inv, TypeOK, Sale
  <2> QED
    BY <2>1, <2>2 DEF AuthFails, CheckSkips, CheckProceeds, FetchFails, PrepareFails, CreateSale,
         CreateSaleLost, ConfirmSale, ConfirmFails, Invoice, InvoiceEscapes, Inv, TypeOK, SaleState
<1>4. Data'
  BY <1>0, <1>2, <1>3 DEF Data, Inv, TypeOK
<1>5. CASE AuthFails(p)
  BY <1>0, <1>1, <1>4, <1>5, GotoControl, RaiseControl, InvParts DEF AuthFails, PCs
<1>6. CASE CheckSkips(p)
  BY <1>0, <1>1, <1>4, <1>6, GotoControl, FinishControl, InvParts DEF CheckSkips, PCs
<1>7. CASE CheckProceeds(p)
  <2> DEFINE r == [proc[p] EXCEPT !.pc = "create", !.seen = rows[OrderOf(p)]]
  <2>1. proc' = [proc EXCEPT ![p] = r] /\ r \in Proc /\ r.pc = "create" /\ r.task = proc[p].task
    BY <1>1, <1>7, Busy DEF CheckProceeds, Proc, PCs
  <2>2. UNCHANGED <<accepted, queue>>
    BY <1>7 DEF CheckProceeds
  <2> HIDE DEF r
  <2> QED
    BY <1>0, <1>1, <1>4, <2>1, <2>2, SameTaskControl, InvParts
<1>8. CASE FetchFails(p)
  BY <1>0, <1>1, <1>4, <1>8, GotoControl, InvParts DEF FetchFails, PCs
<1>9. CASE PrepareFails(p) \/ InvoiceEscapes(p) \/ ConfirmFails(p)
           \/ \E s \in SaleIds : CreateSaleLost(p, s)
  BY <1>0, <1>1, <1>4, <1>9, RollBackControl, InvParts
     DEF PrepareFails, InvoiceEscapes, ConfirmFails, CreateSaleLost
<1>10. ASSUME NEW s \in SaleIds, CreateSale(p, s) PROVE Inv'
  <2> DEFINE r == [proc[p] EXCEPT !.pc = "confirm", !.sale = s]
  <2>1. proc' = [proc EXCEPT ![p] = r] /\ r \in Proc /\ r.pc = "confirm" /\ r.task = proc[p].task
    BY <1>1, <1>10, Busy DEF CreateSale, Proc, PCs
  <2>2. UNCHANGED <<accepted, queue>>
    BY <1>10 DEF CreateSale
  <2> HIDE DEF r
  <2> QED
    BY <1>0, <1>1, <1>4, <2>1, <2>2, SameTaskControl, InvParts
<1>11. CASE ConfirmSale(p)
  BY <1>0, <1>1, <1>4, <1>11, GotoControl, InvParts DEF ConfirmSale, PCs
<1>12. ASSUME NEW made \in BOOLEAN, Invoice(p, made) PROVE Inv'
  <2> DEFINE r == [proc[p] EXCEPT !.pc = "commit", !.billed = made]
  <2>1. proc' = [proc EXCEPT ![p] = r] /\ r \in Proc /\ r.pc = "commit" /\ r.task = proc[p].task
    BY <1>1, <1>12, Busy DEF Invoice, Proc, PCs
  <2>2. UNCHANGED <<accepted, queue>>
    BY <1>12 DEF Invoice
  <2> HIDE DEF r
  <2> QED
    BY <1>0, <1>1, <1>4, <2>1, <2>2, SameTaskControl, InvParts
<1> QED
  BY <1>5, <1>6, <1>7, <1>8, <1>9, <1>10, <1>11, <1>12

LEMMA RowStatusTyped ==
  ASSUME Inv, NEW w \in Orders, NEW st \in RowStatus, rows' = [rows EXCEPT ![w].status = st]
  PROVE  rows' \in [Orders -> Row]
BY DEF Inv, TypeOK, Row

\* The steps that write the mapping row, or fail to.
LEMMA OutcomeInv ==
  ASSUME Inv, NEW p \in Procs,
         \/ CommitSynced(p) \/ CommitDuplicate(p) \/ CommitFails(p)
         \/ \E j \in JobIds : HandleError(p, j)
         \/ HandleErrorRaises(p)
  PROVE  Inv'
<1>0. UNCHANGED <<sales, posts, crashes>>
  BY DEF CommitSynced, CommitDuplicate, CommitFails, HandleError, HandleErrorRaises
<1>1. ~At(p, "idle")
  BY DEF CommitSynced, CommitDuplicate, CommitFails, HandleError, HandleErrorRaises, At
<1>2. faults' \in Nat
  BY FaultType DEF CommitSynced, CommitDuplicate, CommitFails, HandleError, HandleErrorRaises,
                   Inv, TypeOK
<1>3. CASE CommitSynced(p)
  <2>1. JobsKept /\ jobs' = jobs
    BY <1>3 DEF CommitSynced, JobsKept
  <2>2. rows' \in [Orders -> Row]
    <3>1. proc[p].sale \in SaleIds \cup {None} /\ rows[OrderOf(p)].invoiceOf \in SaleIds \cup {None}
      BY <1>1, Busy DEF Proc, Row
    <3>2. \A i : i \in SaleIds \cup {None} =>
             [status |-> "SYNCED", so |-> proc[p].sale, invoiceOf |-> i] \in Row
      BY <3>1 DEF Row, RowStatus
    <3> QED
      BY <1>3, <3>1, <3>2 DEF CommitSynced, Inv, TypeOK
  <2>3. Data'
    BY <1>0, <1>2, <2>1, <2>2 DEF Data, Inv, TypeOK
  <2>4. Control'
    BY <1>1, <1>3, <2>1, GotoControl, FinishControl DEF CommitSynced, PCs
  <2> QED
    BY <2>3, <2>4, InvParts
<1>4. CASE CommitDuplicate(p) \/ CommitFails(p)
  <2>1. JobsKept /\ UNCHANGED <<jobs, rows>>
    BY <1>4 DEF CommitDuplicate, CommitFails, JobsKept
  <2>2. Data'
    BY <1>0, <1>2, <2>1 DEF Data, Inv, TypeOK
  <2> QED
    BY <1>1, <1>4, <2>1, <2>2, RollBackControl, InvParts DEF CommitDuplicate, CommitFails
<1>5. ASSUME NEW j \in JobIds, HandleError(p, j) PROVE Inv'
  <2>1. JobsKept /\ jobs' \in [JobIds -> Job]
    BY <1>1, <1>5, Busy DEF HandleError, JobsKept, Inv, TypeOK, Job, JobStatus
  <2>2. rows' \in [Orders -> Row]
    BY <1>1, <1>5, Busy, RowStatusTyped DEF HandleError, RowStatus, Inv, TypeOK
  <2>3. Data'
    BY <1>0, <1>2, <2>1, <2>2 DEF Data, Inv, TypeOK
  <2>4. Control'
    BY <1>1, <1>5, <2>1, GotoControl, FinishControl DEF HandleError, PCs
  <2> QED
    BY <2>3, <2>4, InvParts
<1>6. CASE HandleErrorRaises(p)
  <2>1. JobsKept /\ UNCHANGED <<jobs, rows>>
    BY <1>6 DEF HandleErrorRaises, JobsKept
  <2>2. Data'
    BY <1>0, <1>2, <2>1 DEF Data, Inv, TypeOK
  <2> QED
    BY <1>1, <1>6, <2>1, <2>2, RaiseControl, InvParts DEF HandleErrorRaises
<1> QED
  BY <1>3, <1>4, <1>5, <1>6

\* The steps that end a retry job, or dispatch one.
LEMMA JobInv ==
  ASSUME Inv, NEW p \in Procs,
         \/ ResolveJob(p) \/ JobWriteFails(p)
         \/ \E st \in {"PENDING", "DEAD_LETTER"} : BumpJob(p, st)
         \/ DispatchRetry(p) \/ DispatchRetryFails(p)
  PROVE  Inv'
<1>0. UNCHANGED <<rows, sales, posts, crashes>>
  BY DEF ResolveJob, JobWriteFails, BumpJob, DispatchRetry, DispatchRetryFails
<1>1. ~At(p, "idle")
  BY DEF ResolveJob, JobWriteFails, BumpJob, DispatchRetry, DispatchRetryFails, At
<1>2. faults' \in Nat
  BY FaultType DEF ResolveJob, JobWriteFails, BumpJob, DispatchRetry, DispatchRetryFails, Inv, TypeOK
<1>3. JobOf(p) \in JobIds /\ OrderOf(p) \in Orders /\ jobs[JobOf(p)].order = OrderOf(p)
  BY <1>1, Busy DEF ResolveJob, JobWriteFails, BumpJob, DispatchRetry, DispatchRetryFails, At, Inv,
                    Linked, JobRef, IsRetry, OrderOf, JobOf
<1>4. jobs' \in [JobIds -> Job] /\ JobsKept
  <2>1. ASSUME UNCHANGED jobs PROVE jobs' \in [JobIds -> Job] /\ JobsKept
    BY <2>1 DEF Inv, TypeOK, JobsKept
  <2>2. ASSUME NEW st \in JobStatus, jobs' = [jobs EXCEPT ![JobOf(p)].status = st]
        PROVE  jobs' \in [JobIds -> Job] /\ JobsKept
    BY <1>3, <2>2, JobStatusKeepsData
  <2> QED
    BY <2>1, <2>2 DEF ResolveJob, JobWriteFails, BumpJob, DispatchRetry, DispatchRetryFails,
                      JobStatus, JobOf
<1>5. Data'
  BY <1>0, <1>2, <1>4 DEF Data, Inv, TypeOK
<1>6. CASE Finish(p)
  BY <1>1, <1>4, <1>5, <1>6, FinishControl, InvParts
<1>7. CASE DispatchRetry(p) \/ DispatchRetryFails(p)
  <2> DEFINE u == NewTask("retry_single", proc[p].task.order, proc[p].task.job)
  <2>1. u \in Task /\ u.order \in Orders /\ JobRefNext(u)
    BY <1>3, <1>4, NewTaskType DEF NewTask, Kinds, RetryKinds, JobRefNext, OrderOf, JobOf, JobsKept
  <2>2. \A t \in queue' : t \in queue \/ t = u
    BY <1>7 DEF DispatchRetry, DispatchRetryFails
  <2>3. proc' = [proc EXCEPT ![p] = Idle] /\ UNCHANGED accepted
    BY <1>7 DEF DispatchRetry, DispatchRetryFails
  <2> HIDE DEF u
  <2>4. Linked'
    BY <1>4, <2>1, <2>2, <2>3, LinkedStep, IdleType DEF JobsKept
  <2>5. Control'
    BY <2>1, <2>2, <2>3, <2>4, IdleType DEF Control, Inv, TypeOK
  <2> QED
    BY <1>5, <2>5, InvParts
<1> QED
  BY <1>6, <1>7 DEF ResolveJob, JobWriteFails, BumpJob

\* The steps of a cancellation or a refund.
LEMMA CancelInv ==
  ASSUME Inv, NEW p \in Procs,
         \/ ReadForCancel(p) \/ CancelSale(p) \/ CancelSaleFails(p) \/ MarkCancelled(p)
         \/ MarkCancelledFails(p) \/ MarkRefunded(p)
  PROVE  Inv'
<1>0. UNCHANGED <<jobs, posts, crashes>> /\ JobsKept
  BY DEF ReadForCancel, CancelSale, CancelSaleFails, MarkCancelled, MarkCancelledFails, MarkRefunded, JobsKept
<1>1. ~At(p, "idle")
  BY DEF ReadForCancel, CancelSale, CancelSaleFails, MarkCancelled, MarkCancelledFails, MarkRefunded, At
<1>2. faults' \in Nat
  BY FaultType DEF ReadForCancel, CancelSale, CancelSaleFails, MarkCancelled, MarkCancelledFails, MarkRefunded, Inv, TypeOK
<1>3. sales' \in [SaleIds -> Sale]
  <2>1. ASSUME NEW s, sales' = [sales EXCEPT ![s].state = "cancel"]
        PROVE  sales' \in [SaleIds -> Sale]
    BY <2>1 DEF Inv, TypeOK, Sale, SaleState
  <2> QED
    BY <2>1 DEF ReadForCancel, CancelSale, CancelSaleFails, MarkCancelled, MarkCancelledFails, MarkRefunded, Inv, TypeOK
<1>4. rows' \in [Orders -> Row]
  BY <1>1, Busy, RowStatusTyped
     DEF ReadForCancel, CancelSale, CancelSaleFails, MarkCancelled, MarkCancelledFails, MarkRefunded, RowStatus,
         Inv, TypeOK
<1>5. Data'
  BY <1>0, <1>2, <1>3, <1>4 DEF Data, Inv, TypeOK
<1>6. CASE ReadForCancel(p)
  <2> DEFINE row == rows[OrderOf(p)]
             r == [proc[p] EXCEPT
                      !.pc = IF row.so = None THEN "mark_cancelled" ELSE "action_cancel",
                      !.seen = row]
  <2>1. CASE row = NoRow
    BY <1>0, <1>1, <1>5, <1>6, <2>1, FinishControl, InvParts DEF ReadForCancel
  <2>2. CASE row # NoRow
    <3>1. /\ proc' = [proc EXCEPT ![p] = r] /\ r \in Proc /\ r.pc \in {"mark_cancelled", "action_cancel"}
          /\ r.task = proc[p].task
      BY <1>1, <1>6, <2>2, Busy DEF ReadForCancel, Proc, PCs
    <3>2. UNCHANGED <<accepted, queue>>
      BY <1>6, <2>2 DEF ReadForCancel
    <3> HIDE DEF r
    <3> QED
      BY <1>0, <1>1, <1>5, <3>1, <3>2, SameTaskControl, InvParts
  <2> QED
    BY <2>1, <2>2
<1>7. CASE CancelSale(p) \/ CancelSaleFails(p) \/ MarkCancelledFails(p)
  BY <1>0, <1>1, <1>5, <1>7, GotoControl, RaiseControl, InvParts
     DEF CancelSale, CancelSaleFails, MarkCancelledFails, PCs
<1>8. CASE MarkCancelled(p) \/ MarkRefunded(p)
  BY <1>0, <1>1, <1>5, <1>8, FinishControl, InvParts DEF MarkCancelled, MarkRefunded
<1> QED
  BY <1>6, <1>7, <1>8

LEMMA StepInv == Inv /\ [Next]_vars => Inv'
<1> SUFFICES ASSUME Inv, [Next]_vars PROVE Inv'
  OBVIOUS
<1>1. CASE Arrival
  BY <1>1, ArrivalInv
<1>2. ASSUME NEW p \in Procs, Start(p) \/ RunJob(p) \/ Crash(p) PROVE Inv'
  BY <1>2, StartInv, RunJobInv, CrashInv
<1>3. ASSUME NEW p \in Procs, Work(p) PROVE Inv'
  BY <1>3, AttemptInv, OutcomeInv, JobInv, CancelInv DEF Work
<1>4. CASE UNCHANGED vars
  BY <1>4 DEF vars, Inv, TypeOK, Linked, At, OrderOf, IsRetry, JobRef
<1> QED
  BY <1>1, <1>2, <1>3, <1>4 DEF Next

\* Every variable keeps its type, and every task that names a retry job names a
\* row about the same order, whatever steps are interleaved.
THEOREM InvHolds == Spec => []Inv
BY InitInv, StepInv, PTL DEF Spec

THEOREM TypeCorrect == Spec => []TypeOK
<1>1. Inv => TypeOK
  BY DEF Inv
<1> QED
  BY <1>1, InvHolds, PTL

-----------------------------------------------------------------------------
(* A failed order is owed a retry                                          *)
(*                                                                         *)
(* NoLostFailure is inductive relative to Inv.  A failure brings a fresh   *)
(* job, which no process can be resolving, since a process resolves a job  *)
(* row that names its order.  A process comes to resolve a job only when   *)
(* the row of its order says SYNCED, so the jobs that other, failed,       *)
(* orders are owed are not the one it will resolve.                        *)

\* What a step of p may do to the jobs, to the rows and to its own control state
\* for every failed order to keep the job it is owed.
LEMMA KeepsOwed ==
  ASSUME Inv, NoLostFailure, NEW p \in Procs,
         \A q \in Procs \ {p} : proc'[q] = proc[q],
         proc'[p].pc = "resolve" =>
             /\ proc'[p].task = proc[p].task
             /\ IsRetry(p) /\ ~At(p, "idle")
             /\ rows'[OrderOf(p)].status # "FAILED",
         \A w \in Orders : rows'[w].status = "FAILED" => rows[w].status = "FAILED",
         \A j \in JobIds : Open(j) /\ ~(At(p, "resolve") /\ JobOf(p) = j) =>
             jobs'[j].order = jobs[j].order /\ jobs'[j].status \in {"PENDING", "DEAD_LETTER"}
  PROVE  NoLostFailure'
<1> SUFFICES ASSUME NEW w \in Orders, rows'[w].status = "FAILED"
             PROVE  \E j \in JobIds :
                        /\ jobs'[j].order = w /\ Open(j)'
                        /\ \A q \in Procs : ~(At(q, "resolve")' /\ JobOf(q)' = j)
  BY DEF NoLostFailure
<1>1. PICK j \in JobIds : /\ jobs[j].order = w /\ Open(j)
                          /\ \A q \in Procs : ~(At(q, "resolve") /\ JobOf(q) = j)
  BY DEF NoLostFailure
<1>2. jobs'[j].order = w /\ Open(j)'
  BY <1>1 DEF Open
<1>3. ASSUME NEW q \in Procs, At(q, "resolve")' PROVE JobOf(q)' # j
  <2>1. CASE q = p
    <3>1. OrderOf(p) # w /\ JobOf(p)' = JobOf(p)
      BY <1>3, <2>1 DEF At, JobOf
    <3>2. jobs[JobOf(p)].order = OrderOf(p)
      BY <1>3, <2>1, Busy DEF At
    <3> QED
      BY <1>1, <2>1, <3>1, <3>2
  <2>2. CASE q # p
    BY <1>1, <1>3, <2>2 DEF At, JobOf
  <2> QED
    BY <2>1, <2>2
<1> QED
  BY <1>2, <1>3

\* A step of p that is none of those that write a FAILED row, resolve a job or
\* come to resolve one.
LEMMA OrdinaryStep ==
  ASSUME Inv, NoLostFailure, NEW p \in Procs,
         \A q \in Procs \ {p} : proc'[q] = proc[q],
         proc'[p].pc # "resolve",
         \A w \in Orders : rows'[w].status = "FAILED" => rows[w].status = "FAILED",
         \/ UNCHANGED jobs
         \/ \E j \in JobIds, st \in {"PENDING", "DEAD_LETTER"} : jobs' = [jobs EXCEPT ![j].status = st]
  PROVE  NoLostFailure'
<1>1. \A j \in JobIds : Open(j) =>
          jobs'[j].order = jobs[j].order /\ jobs'[j].status \in {"PENDING", "DEAD_LETTER"}
  BY DEF Open, Inv, TypeOK, Job
<1> QED
  BY <1>1, KeepsOwed

\* Where a step leaves the processes.
LEMMA GotoMoves ==
  ASSUME Inv, NEW p \in Procs, NEW pc \in PCs, Goto(p, pc)
  PROVE  (\A q \in Procs \ {p} : proc'[q] = proc[q]) /\ proc'[p].pc = pc
         /\ proc'[p].task = proc[p].task
BY DEF Goto, Inv, TypeOK, Proc

LEMMA RollBackMoves ==
  ASSUME Inv, NEW p \in Procs, RollBack(p)
  PROVE  (\A q \in Procs \ {p} : proc'[q] = proc[q]) /\ proc'[p].pc = "error"
BY DEF RollBack, Inv, TypeOK, Proc

LEMMA EndMoves ==
  ASSUME Inv, NEW p \in Procs, Finish(p) \/ Raise(p)
  PROVE  (\A q \in Procs \ {p} : proc'[q] = proc[q]) /\ proc'[p].pc = "idle"
BY IdleType DEF Finish, Raise, Inv, TypeOK

LEMMA BeginOwed ==
  ASSUME Inv, NoLostFailure, NEW p \in Procs,
         \/ Start(p) \/ RunJob(p) \/ Crash(p)
         \/ \E w \in Orders : WebhookFallback(p, w) \/ ManualSync(p, w)
         \/ \E j \in JobIds : RetryEndpoint(p, j)
  PROVE  NoLostFailure'
<1>1. UNCHANGED <<rows, jobs>>
  BY DEF Start, TakeTask, RunJob, RunDueJob, Crash, WebhookFallback, ManualSync, RetryEndpoint
<1>2. \A q \in Procs \ {p} : proc'[q] = proc[q]
  BY DEF Start, TakeTask, RunJob, RunDueJob, Crash, WebhookFallback, ManualSync, RetryEndpoint,
         Inv, TypeOK
<1>3. proc'[p].pc \in {"idle", "check", "dispatch"}
  BY IdleType DEF Start, TakeTask, RunJob, RunDueJob, Crash, WebhookFallback, ManualSync,
                  RetryEndpoint, Inv, TypeOK, Fresh
<1> QED
  BY <1>1, <1>2, <1>3, OrdinaryStep

LEMMA AttemptOwed ==
  ASSUME Inv, NoLostFailure, NEW p \in Procs,
         \/ AuthFails(p) \/ CheckSkips(p) \/ CheckProceeds(p) \/ FetchFails(p) \/ PrepareFails(p)
         \/ \E s \in SaleIds : CreateSale(p, s) \/ CreateSaleLost(p, s)
         \/ ConfirmSale(p) \/ ConfirmFails(p)
         \/ \E made \in BOOLEAN : Invoice(p, made)
         \/ InvoiceEscapes(p)
  PROVE  NoLostFailure'
<1>1. UNCHANGED <<rows, jobs>>
  BY DEF AuthFails, CheckSkips, CheckProceeds, FetchFails, PrepareFails, CreateSale,
         CreateSaleLost, NewSale, ConfirmSale, ConfirmFails, Invoice, InvoiceEscapes
<1>2. CASE CheckSkips(p)
  <2>1. CASE IsRetry(p)
    <3>1. /\ \A q \in Procs \ {p} : proc'[q] = proc[q]
          /\ proc'[p].task = proc[p].task
      BY <1>2, <2>1, GotoMoves DEF CheckSkips, PCs
    <3> QED
      BY <1>1, <1>2, <2>1, <3>1, KeepsOwed DEF CheckSkips, At, Open
  <2>2. CASE ~IsRetry(p)
    BY <1>1, <1>2, <2>2, EndMoves, OrdinaryStep DEF CheckSkips
  <2> QED
    BY <2>1, <2>2
<1>3. CASE CheckProceeds(p) \/ (\E s \in SaleIds : CreateSale(p, s))
           \/ (\E made \in BOOLEAN : Invoice(p, made))
  <2>1. (\A q \in Procs \ {p} : proc'[q] = proc[q]) /\ proc'[p].pc \in {"create", "confirm", "commit"}
    BY <1>3 DEF CheckProceeds, CreateSale, Invoice, Inv, TypeOK, Proc
  <2> QED
    BY <1>1, <2>1, OrdinaryStep
<1>4. CASE \/ PrepareFails(p) \/ ConfirmFails(p) \/ InvoiceEscapes(p)
           \/ \E s \in SaleIds : CreateSaleLost(p, s)
  <2>1. (\A q \in Procs \ {p} : proc'[q] = proc[q]) /\ proc'[p].pc = "error"
    BY <1>4, RollBackMoves DEF PrepareFails, ConfirmFails, InvoiceEscapes, CreateSaleLost
  <2> QED
    BY <1>1, <2>1, OrdinaryStep
<1>5. CASE AuthFails(p) \/ FetchFails(p) \/ ConfirmSale(p)
  <2>1. (\A q \in Procs \ {p} : proc'[q] = proc[q]) /\ proc'[p].pc # "resolve"
    BY <1>5, GotoMoves, EndMoves DEF AuthFails, FetchFails, ConfirmSale, PCs
  <2> QED
    BY <1>1, <2>1, OrdinaryStep
<1> QED
  BY <1>2, <1>3, <1>4, <1>5

LEMMA OutcomeOwed ==
  ASSUME Inv, NoLostFailure, NEW p \in Procs,
         \/ CommitSynced(p) \/ CommitDuplicate(p) \/ CommitFails(p)
         \/ \E j \in JobIds : HandleError(p, j)
         \/ HandleErrorRaises(p)
  PROVE  NoLostFailure'
<1>0. OrderOf(p) \in Orders /\ rows \in [Orders -> Row]
  BY Busy DEF CommitSynced, CommitDuplicate, CommitFails, HandleError, HandleErrorRaises, At,
              Inv, TypeOK
<1>1. CASE CommitSynced(p)
  <2>1. rows'[OrderOf(p)].status = "SYNCED" /\ UNCHANGED jobs
        /\ \A w \in Orders : rows'[w].status = "FAILED" => rows[w].status = "FAILED"
    BY <1>0, <1>1 DEF CommitSynced
  <2>2. /\ \A q \in Procs \ {p} : proc'[q] = proc[q]
        /\ proc'[p].pc = "resolve" => proc'[p].task = proc[p].task /\ IsRetry(p)
    BY <1>1, GotoMoves, EndMoves DEF CommitSynced, PCs
  <2> QED
    BY <1>1, <2>1, <2>2, KeepsOwed DEF CommitSynced, At, Open
<1>2. CASE CommitDuplicate(p) \/ CommitFails(p) \/ HandleErrorRaises(p)
  <2>1. UNCHANGED <<rows, jobs>>
    BY <1>2 DEF CommitDuplicate, CommitFails, HandleErrorRaises
  <2>2. (\A q \in Procs \ {p} : proc'[q] = proc[q]) /\ proc'[p].pc # "resolve"
    BY <1>2, RollBackMoves, EndMoves DEF CommitDuplicate, CommitFails, HandleErrorRaises
  <2> QED
    BY <2>1, <2>2, OrdinaryStep
<1>3. ASSUME NEW j \in JobIds, HandleError(p, j) PROVE NoLostFailure'
  <2>1. (\A q \in Procs \ {p} : proc'[q] = proc[q]) /\ proc'[p].pc # "resolve"
    BY <1>3, GotoMoves, EndMoves DEF HandleError, PCs
  <2>2. jobs[j].order = None /\ jobs'[j] = [order |-> OrderOf(p), status |-> "PENDING"]
        /\ \A i \in JobIds \ {j} : jobs'[i] = jobs[i]
    BY <1>3 DEF HandleError, Inv, TypeOK
  <2>3. \A w \in Orders \ {OrderOf(p)} : rows'[w] = rows[w]
    BY <1>0, <1>3 DEF HandleError
  <2>4. \A q \in Procs : At(q, "resolve") => JobOf(q) # j
    BY <1>0, <2>2, Busy DEF Inv, Linked, At, JobOf
  <2>5. \A q \in Procs : At(q, "resolve")' => At(q, "resolve") /\ JobOf(q)' = JobOf(q)
    BY <2>1 DEF At, JobOf
  <2>6. ASSUME NEW w \in Orders, rows'[w].status = "FAILED"
        PROVE  \E i \in JobIds : /\ jobs'[i].order = w /\ Open(i)'
                                 /\ \A q \in Procs : ~(At(q, "resolve")' /\ JobOf(q)' = i)
    <3>1. CASE w = OrderOf(p)
      BY <1>0, <2>2, <2>4, <2>5, <3>1 DEF Open
    <3>2. CASE w # OrderOf(p)
      <4>1. PICK i \in JobIds : /\ jobs[i].order = w /\ Open(i)
                                /\ \A q \in Procs : ~(At(q, "resolve") /\ JobOf(q) = i)
        BY <2>3, <2>6, <3>2 DEF NoLostFailure
      <4>2. i # j
        BY <2>2, <4>1
      <4> QED
        BY <2>2, <2>5, <4>1, <4>2 DEF Open
    <3> QED
      BY <3>1, <3>2
  <2> QED
    BY <2>6 DEF NoLostFailure
<1> QED
  BY <1>1, <1>2, <1>3

LEMMA JobOwed ==
  ASSUME Inv, NoLostFailure, NEW p \in Procs,
         \/ ResolveJob(p) \/ JobWriteFails(p)
         \/ \E st \in {"PENDING", "DEAD_LETTER"} : BumpJob(p, st)
         \/ DispatchRetry(p) \/ DispatchRetryFails(p)
  PROVE  NoLostFailure'
<1>1. UNCHANGED rows
  BY DEF ResolveJob, JobWriteFails, BumpJob, DispatchRetry, DispatchRetryFails
<1>2. (\A q \in Procs \ {p} : proc'[q] = proc[q]) /\ proc'[p].pc = "idle"
  BY EndMoves, IdleType DEF ResolveJob, JobWriteFails, BumpJob, DispatchRetry, DispatchRetryFails,
                            Inv, TypeOK
<1>3. JobOf(p) \in JobIds
  BY Busy DEF ResolveJob, JobWriteFails, BumpJob, DispatchRetry, DispatchRetryFails, At, Inv,
              Linked, JobRef, JobOf
<1>4. CASE ResolveJob(p)
  BY <1>1, <1>2, <1>4, KeepsOwed DEF ResolveJob, Open, Inv, TypeOK
<1>5. CASE ~ResolveJob(p)
  BY <1>1, <1>2, <1>3, <1>5, OrdinaryStep
     DEF JobWriteFails, BumpJob, DispatchRetry, DispatchRetryFails, JobOf
<1> QED
  BY <1>4, <1>5

LEMMA CancelOwed ==
  ASSUME Inv, NoLostFailure, NEW p \in Procs,
         \/ ReadForCancel(p) \/ CancelSale(p) \/ CancelSaleFails(p) \/ MarkCancelled(p)
         \/ MarkCancelledFails(p) \/ MarkRefunded(p)
  PROVE  NoLostFailure'
<1>1. UNCHANGED jobs
  BY DEF ReadForCancel, CancelSale, CancelSaleFails, MarkCancelled, MarkCancelledFails, MarkRefunded
<1>2. \A w \in Orders : rows'[w].status = "FAILED" => rows[w].status = "FAILED"
  <2>1. \/ UNCHANGED rows
        \/ \E st \in {"CANCELLED", "REFUNDED"} : rows' = [rows EXCEPT ![OrderOf(p)].status = st]
    BY DEF ReadForCancel, CancelSale, CancelSaleFails, MarkCancelled, MarkCancelledFails, MarkRefunded
  <2> QED
    BY <2>1 DEF Inv, TypeOK, Row
<1>3. (\A q \in Procs \ {p} : proc'[q] = proc[q]) /\ proc'[p].pc # "resolve"
  <2>1. CASE ReadForCancel(p) /\ rows[OrderOf(p)] # NoRow
    BY <2>1 DEF ReadForCancel, Inv, TypeOK, Proc
  <2>2. CASE ~(ReadForCancel(p) /\ rows[OrderOf(p)] # NoRow)
    BY <2>2, GotoMoves, EndMoves
       DEF ReadForCancel, CancelSale, CancelSaleFails, MarkCancelled, MarkCancelledFails, MarkRefunded, PCs
  <2> QED
    BY <2>1, <2>2
<1> QED
  BY <1>1, <1>2, <1>3, OrdinaryStep

\* An order marked FAILED always has an open retry job that nobody is about to
\* resolve: _handle_order_error and the end of a retry run, in every interleaving.
THEOREM FailureNeverLost == Spec => []NoLostFailure
<1>1. Init => NoLostFailure
  BY DEF Init, NoLostFailure, NoRow
<1>2. Inv /\ NoLostFailure /\ [Next]_vars => NoLostFailure'
  <2> SUFFICES ASSUME Inv, NoLostFailure, [Next]_vars PROVE NoLostFailure'
    OBVIOUS
  <2>1. CASE Arrival
    <3>1. ASSUME NEW w \in Orders, NEW topic \in Topics, Webhook(w, topic) PROVE NoLostFailure'
      BY <3>1 DEF Webhook, NoLostFailure, Open, At, JobOf
    <3> QED
      BY <2>1, <3>1, BeginOwed DEF Arrival
  <2>2. ASSUME NEW p \in Procs, Start(p) \/ RunJob(p) \/ Crash(p) PROVE NoLostFailure'
    BY <2>2, BeginOwed
  <2>3. ASSUME NEW p \in Procs, Work(p) PROVE NoLostFailure'
    BY <2>3, AttemptOwed, OutcomeOwed, JobOwed, CancelOwed DEF Work
  <2>4. CASE UNCHANGED vars
    BY <2>4 DEF vars, NoLostFailure, Open, At, JobOf
  <2> QED
    BY <2>1, <2>2, <2>3, <2>4 DEF Next
<1> QED
  BY <1>1, <1>2, InvHolds, PTL DEF Spec
-----------------------------------------------------------------------------
(* An accepted order is recorded or on its way                             *)
(*                                                                         *)
(* StoredInv counts: an order task was tried no more often than there were *)
(* faults, unless its order has a row by now, and the fallback runs after  *)
(* one fault.  So the task of an accepted order is dropped before anything *)
(* is stored only after more faults than FewFaults allows.                 *)

Recorded(w) == rows[w].status # "none"
Carries(t, w) == t.kind = "created" /\ t.order = w
Carried(w) ==
    \/ \E t \in queue : Carries(t, w)
    \/ \E p \in Procs : ~At(p, "idle") /\ Carries(proc[p].task, w)

Tried(t) ==
    /\ t.kind = "created" => Recorded(t.order) \/ t.tries <= faults
    /\ t.kind = "fallback" => faults >= 1 /\ "fallback" \in Sources

\* What p read is there, and only a cancellation is at the steps of one.
Sound(p) ==
    /\ Tried(proc[p].task)
    /\ proc[p].seen # NoRow => Recorded(OrderOf(p))
    /\ proc[p].pc \in {"action_cancel", "mark_cancelled"} => proc[p].task.kind = "cancelled"

Blank == \A w \in Orders : rows[w].status = "none" => rows[w] = NoRow

StoredInv ==
    /\ Blank
    /\ \A t \in queue : Tried(t)
    /\ \A p \in Procs : ~At(p, "idle") => Sound(p)
    /\ FewFaults => \A w \in accepted : Recorded(w) \/ Carried(w)

\* A row that exists stays.
RecordedNext(w) == rows'[w].status # "none"
RowsKept == \A w \in Orders : rows'[w] = rows[w] \/ RecordedNext(w)

LEMMA TriedKept ==
  ASSUME Inv, RowsKept, faults' \in {faults, faults + 1}, NEW t, t.order \in Orders, Tried(t),
         t.kind = "created" => t.tries \in Nat
  PROVE  Tried(t)'
BY DEF Tried, RowsKept, Recorded, RecordedNext, Inv, TypeOK

LEMMA TaskFields ==
  ASSUME Inv, NEW t \in Task
  PROVE  t.tries \in Nat /\ t.tries <= MaxTries
BY DEF Task

\* What a step of p has to do for StoredInv to last.
LEMMA KeepsStored ==
  ASSUME Inv, StoredInv, NEW p \in Procs,
         \A q \in Procs \ {p} : proc'[q] = proc[q],
         faults' \in {faults, faults + 1}, RowsKept,
         \A t \in queue' : t \in queue \/ Tried(t)',
         proc'[p].pc = "idle" \/ Sound(p)',
         FewFaults' => \A w \in accepted' : Recorded(w)' \/ Carried(w)'
  PROVE  StoredInv'
<1>1. Blank'
  BY DEF StoredInv, Blank, RowsKept, Recorded, RecordedNext
<1>2. ASSUME NEW t \in queue' PROVE Tried(t)'
  <2>1. CASE t \in queue
    <3>1. t \in Task /\ t.order \in Orders /\ Tried(t)
      BY <2>1 DEF StoredInv, Inv, TypeOK, Linked
    <3> QED
      BY <3>1, TaskFields, TriedKept
  <2> QED
    BY <1>2, <2>1
<1>3. ASSUME NEW q \in Procs, ~At(q, "idle")' PROVE Sound(q)'
  <2>1. CASE q = p
    BY <1>3, <2>1 DEF At
  <2>2. CASE q # p
    <3>1. proc'[q] = proc[q] /\ ~At(q, "idle")
      BY <1>3, <2>2 DEF At
    <3>2. Sound(q) /\ proc[q].task \in Task /\ proc[q].task.order \in Orders
      BY <3>1, Busy DEF StoredInv, OrderOf
    <3>3. PICK t \in Task : t = proc[q].task /\ t.order \in Orders /\ Tried(t)
      BY <3>2 DEF Sound
    <3>4. Tried(t)'
      BY <3>3, TaskFields, TriedKept
    <3> QED
      BY <3>1, <3>2, <3>3, <3>4 DEF Sound, OrderOf, RowsKept, Recorded, RecordedNext
  <2> QED
    BY <2>1, <2>2
<1> QED
  BY <1>1, <1>2, <1>3 DEF StoredInv

\* What another step leaves in the broker or with a process is still there.
LEMMA CarriedOn ==
  ASSUME Inv, NEW p \in Procs, \A q \in Procs \ {p} : proc'[q] = proc[q], NEW w, Carried(w),
         \A t \in queue : Carries(t, w) =>
             t \in queue' \/ (~At(p, "idle")' /\ proc'[p].task = t),
         ~At(p, "idle") /\ Carries(proc[p].task, w) =>
             \/ ~At(p, "idle")' /\ proc'[p].task = proc[p].task
             \/ \E t \in queue' : Carries(t, w)
  PROVE  Carried(w)'
<1>1. CASE \E t \in queue : Carries(t, w)
  <2>1. PICK t \in queue : Carries(t, w)
    BY <1>1
  <2> QED
    BY <2>1 DEF Carried, Carries
<1>2. CASE \E q \in Procs : ~At(q, "idle") /\ Carries(proc[q].task, w)
  <2>1. PICK q \in Procs : ~At(q, "idle") /\ Carries(proc[q].task, w)
    BY <1>2
  <2>2. CASE q = p
    BY <2>1, <2>2 DEF Carried, Carries
  <2>3. CASE q # p
    BY <2>1, <2>3 DEF Carried, Carries, At
  <2> QED
    BY <2>2, <2>3
<1> QED
  BY <1>1, <1>2 DEF Carried

\* p goes on with its task.
LEMMA GoesOn ==
  ASSUME Inv, StoredInv, NEW p \in Procs, ~At(p, "idle"),
         NEW r \in Proc, proc' = [proc EXCEPT ![p] = r], r.task = proc[p].task, r.pc # "idle",
         r.seen # NoRow => RecordedNext(OrderOf(p)),
         r.pc \in {"action_cancel", "mark_cancelled"} => proc[p].task.kind = "cancelled",
         RowsKept, faults' \in {faults, faults + 1}, UNCHANGED <<accepted, queue>>
  PROVE  StoredInv'
<1>1. proc'[p] = r /\ \A q \in Procs \ {p} : proc'[q] = proc[q]
  BY DEF Inv, TypeOK
<1>2. PICK t \in Task : t = proc[p].task /\ t.order \in Orders /\ Tried(t)
  BY Busy DEF StoredInv, Sound, OrderOf
<1>3. Tried(t)'
  BY <1>2, TaskFields, TriedKept
<1>4. Sound(p)'
  BY <1>1, <1>2, <1>3 DEF Sound, OrderOf, Recorded, RecordedNext
<1>5. FewFaults' => FewFaults
  BY DEF FewFaults, Inv, TypeOK
<1>6. ASSUME FewFaults', NEW w \in accepted PROVE Recorded(w)' \/ Carried(w)'
  <2>1. CASE Recorded(w)
    BY <2>1 DEF Recorded, RecordedNext, RowsKept, Inv, TypeOK
  <2>2. CASE Carried(w)
    BY <1>1, <2>2, CarriedOn DEF At
  <2> QED
    BY <1>5, <1>6, <2>1, <2>2 DEF StoredInv
<1> QED
  BY <1>1, <1>4, <1>6, KeepsStored

\* p ends its task.
LEMMA LetsGo ==
  ASSUME Inv, StoredInv, NEW p \in Procs, ~At(p, "idle"), proc' = [proc EXCEPT ![p] = Idle],
         RowsKept, faults' \in {faults, faults + 1},
         queue \subseteq queue', \A t \in queue' : t \in queue \/ Tried(t)',
         \A w \in accepted' : w \in accepted \/ Recorded(w)' \/ ~FewFaults',
         proc[p].task.kind = "created" =>
             \/ RecordedNext(OrderOf(p)) \/ ~FewFaults'
             \/ \E t \in queue' : Carries(t, OrderOf(p))
  PROVE  StoredInv'
<1>1. proc'[p].pc = "idle" /\ \A q \in Procs \ {p} : proc'[q] = proc[q]
  BY IdleType DEF Inv, TypeOK
<1>2. FewFaults' => FewFaults
  BY DEF FewFaults, Inv, TypeOK
<1>3. ASSUME FewFaults', NEW w \in accepted' PROVE Recorded(w)' \/ Carried(w)'
  <2>1. CASE w \in accepted /\ Recorded(w)
    BY <2>1 DEF Recorded, RecordedNext, RowsKept, Inv, TypeOK
  <2>2. CASE Carried(w)
    <3>1. CASE ~At(p, "idle") /\ Carries(proc[p].task, w) => \E t \in queue' : Carries(t, w)
      BY <1>1, <2>2, <3>1, CarriedOn
    <3>2. CASE Carries(proc[p].task, w) /\ ~\E t \in queue' : Carries(t, w)
      BY <1>3, <3>2 DEF Carries, OrderOf, Recorded, RecordedNext
    <3> QED
      BY <3>1, <3>2
  <2>3. CASE w \in accepted
    BY <1>2, <1>3, <2>1, <2>2, <2>3 DEF StoredInv
  <2> QED
    BY <1>3, <2>3
<1> QED
  BY <1>1, <1>3, KeepsStored

LEMMA FinishStored ==
  ASSUME Inv, StoredInv, NEW p \in Procs, ~At(p, "idle"), Finish(p), RowsKept,
         faults' \in {faults, faults + 1},
         proc[p].task.kind \in {"created", "fallback"} => RecordedNext(OrderOf(p)) \/ ~FewFaults'
  PROVE  StoredInv'
<1>1. proc' = [proc EXCEPT ![p] = Idle] /\ queue' = queue
  BY DEF Finish
<1>2. \A w \in accepted' : w \in accepted \/ Recorded(w)' \/ ~FewFaults'
  BY DEF Finish, OrderOf, Recorded, RecordedNext
<1> QED
  BY <1>1, <1>2, LetsGo

LEMMA RaiseStored ==
  ASSUME Inv, StoredInv, NEW p \in Procs, ~At(p, "idle"), Raise(p), RowsKept,
         faults' \in {faults, faults + 1},
         proc[p].task.kind \in {"created", "fallback"} =>
             RecordedNext(OrderOf(p)) \/ faults' = faults + 1
  PROVE  StoredInv'
<1>1. PICK t \in Task : t = proc[p].task /\ t.order \in Orders /\ Tried(t)
  BY Busy DEF StoredInv, Sound, OrderOf
<1>2. t.tries \in Nat /\ t.tries <= MaxTries /\ MaxTries \in Nat /\ faults \in Nat
  BY <1>1, TaskFields, OrderSyncAssumption DEF Inv, TypeOK
<1>3. Recorded(t.order) => RecordedNext(t.order)
  BY <1>1 DEF RowsKept, Recorded, RecordedNext
<1>4. CASE t.kind \in CeleryKinds \ RetryKinds /\ t.tries < MaxTries
  <2>0. PICK n \in 0..MaxTries : n = t.tries + 1
    BY <1>2, <1>4
  <2>1. PICK u \in Task : u = [t EXCEPT !.tries = n]
    BY DEF Task
  <2>2. u.kind = t.kind /\ u.order = t.order /\ u.tries = t.tries + 1
    BY <2>0, <2>1 DEF Task
  <2>3. proc' = [proc EXCEPT ![p] = Idle] /\ queue' = queue \cup {u} /\ UNCHANGED accepted
    BY <1>1, <1>4, <2>0, <2>1 DEF Raise
  <2>4. t.kind # "fallback"
    BY <1>4 DEF CeleryKinds, PayloadKinds
  <2>5. u.kind = "created" => RecordedNext(u.order) \/ u.tries <= faults'
    <3>1. CASE Recorded(t.order) \/ RecordedNext(OrderOf(p))
      BY <1>1, <1>3, <2>2, <3>1 DEF OrderOf
    <3>2. CASE t.kind = "created" /\ t.tries <= faults /\ faults' = faults + 1
      BY <1>2, <2>2, <3>2
    <3> QED
      BY <1>1, <2>2, <3>1, <3>2 DEF Tried
  <2>6. Tried(u)'
    BY <2>2, <2>4, <2>5 DEF Tried, Recorded, RecordedNext
  <2>7. t.kind = "created" => Carries(u, OrderOf(p))
    BY <1>1, <2>2 DEF Carries, OrderOf
  <2> QED
    BY <1>1, <2>3, <2>6, <2>7, LetsGo
<1>5. CASE ~(t.kind \in CeleryKinds \ RetryKinds /\ t.tries < MaxTries)
  <2>1. Finish(p)
    BY <1>1, <1>5 DEF Raise
  <2>2. ASSUME t.kind = "created" PROVE RecordedNext(t.order) \/ ~FewFaults'
    <3>1. t.tries = MaxTries
      BY <1>2, <1>5, <2>2 DEF CeleryKinds, RetryKinds, PayloadKinds
    <3> QED
      BY <1>1, <1>2, <1>3, <2>2, <3>1 DEF Tried, FewFaults, OrderOf
  <2>3. ASSUME t.kind = "fallback" PROVE RecordedNext(t.order) \/ ~FewFaults'
    BY <1>1, <1>2, <2>3 DEF Tried, FewFaults, OrderOf
  <2> QED
    BY <1>1, <2>1, <2>2, <2>3, FinishStored DEF OrderOf
<1> QED
  BY <1>4, <1>5

\* p was idle and begins a task.
LEMMA BeginsStored ==
  ASSUME Inv, StoredInv, NEW p \in Procs, At(p, "idle"),
         NEW pc \in {"check", "dispatch"}, NEW t \in Task, NEW st \in JobStatus,
         proc' = [proc EXCEPT ![p] = Fresh(pc, t, st)],
         Tried(t)', queue' \subseteq queue, \A u \in queue : u \in queue' \/ u = t,
         faults' \in {faults, faults + 1}, UNCHANGED <<accepted, rows>>
  PROVE  StoredInv'
<1>1. proc'[p] = Fresh(pc, t, st) /\ \A q \in Procs \ {p} : proc'[q] = proc[q]
  BY DEF Inv, TypeOK
<1>2. proc'[p].pc = pc /\ proc'[p].task = t /\ proc'[p].seen = NoRow
  BY <1>1 DEF Fresh
<1>3. Sound(p)'
  BY <1>2 DEF Sound
<1>4. FewFaults' => FewFaults
  BY DEF FewFaults, Inv, TypeOK
<1>5. RowsKept
  BY DEF RowsKept
<1>6. ASSUME FewFaults', NEW w \in accepted PROVE Recorded(w)' \/ Carried(w)'
  <2>1. CASE Recorded(w)
    BY <2>1 DEF Recorded, RecordedNext
  <2>2. CASE Carried(w)
    BY <1>1, <1>2, <2>2, CarriedOn DEF At
  <2> QED
    BY <1>4, <1>6, <2>1, <2>2 DEF StoredInv
<1> QED
  BY <1>1, <1>3, <1>5, <1>6, KeepsStored

LEMMA SeenKept ==
  ASSUME Inv, StoredInv, NEW p \in Procs, ~At(p, "idle"), RowsKept, proc[p].seen # NoRow
  PROVE  RecordedNext(OrderOf(p))
BY Busy DEF StoredInv, Sound, RowsKept, Recorded, RecordedNext

LEMMA GotoStored ==
  ASSUME Inv, StoredInv, NEW p \in Procs, ~At(p, "idle"),
         NEW pc \in PCs \ {"idle", "action_cancel"}, Goto(p, pc),
         pc = "mark_cancelled" => proc[p].task.kind = "cancelled",
         RowsKept, faults' \in {faults, faults + 1}
  PROVE  StoredInv'
<1>1. PICK o \in Proc : o = proc[p]
  BY DEF Inv, TypeOK
<1>2. PICK r \in Proc : r = [o EXCEPT !.pc = pc]
  BY DEF Proc
<1>3. r.pc = pc /\ r.task = o.task /\ r.seen = o.seen
  BY <1>2 DEF Proc
<1>4. proc' = [proc EXCEPT ![p] = r] /\ UNCHANGED <<accepted, queue>>
  BY <1>1, <1>2 DEF Goto, Inv, TypeOK
<1> QED
  BY <1>1, <1>3, <1>4, SeenKept, GoesOn

LEMMA RollBackStored ==
  ASSUME Inv, StoredInv, NEW p \in Procs, ~At(p, "idle"), RollBack(p),
         RowsKept, faults' \in {faults, faults + 1}
  PROVE  StoredInv'
<1>1. PICK o \in Proc : o = proc[p]
  BY DEF Inv, TypeOK
<1>2. PICK r \in Proc : r = [o EXCEPT !.pc = "error", !.expired = TRUE]
  BY DEF Proc, PCs
<1>3. r.pc = "error" /\ r.task = o.task /\ r.seen = o.seen
  BY <1>2 DEF Proc
<1>4. proc' = [proc EXCEPT ![p] = r] /\ UNCHANGED <<accepted, queue>>
  BY <1>1, <1>2 DEF RollBack, Inv, TypeOK
<1> QED
  BY <1>1, <1>3, <1>4, SeenKept, GoesOn

LEMMA SameRows == ASSUME UNCHANGED rows PROVE RowsKept
BY DEF RowsKept

-----------------------------------------------------------------------------

LEMMA StartTask ==
  ASSUME NEW k \in {"fallback", "manual", "endpoint", "retry_queue"},
         NEW w \in Orders \cup {None}, NEW j \in JobIds \cup {None}
  PROVE  \E t \in Task : t = NewTask(k, w, j) /\ t.kind = k
<1>1. k \in Kinds
  BY DEF Kinds, RetryKinds
<1>2. NewTask(k, w, j) \in Task /\ NewTask(k, w, j).kind = k
  BY <1>1, NewTaskType DEF NewTask
<1> QED
  BY <1>2

LEMMA ArrivalStored == ASSUME Inv, StoredInv, Arrival PROVE StoredInv'
<1>1. ASSUME NEW w \in Orders, NEW topic \in Topics, Webhook(w, topic) PROVE StoredInv'
  <2> DEFINE t == NewTask(topic, w, None)
  <2>1. UNCHANGED <<rows, proc, faults>> /\ queue' = queue \cup {t}
    BY <1>1 DEF Webhook
  <2>2. t.kind = topic /\ t.order = w /\ t.tries = 0 /\ topic # "fallback"
    BY DEF NewTask
  <2>3. \A u : Tried(u) => Tried(u)'
    BY <2>1 DEF Tried, Recorded, RecordedNext
  <2>4. Tried(t)'
    BY <2>1, <2>2 DEF Tried, Inv, TypeOK
  <2>5. \A p \in Procs : ~At(p, "idle") => Sound(p)'
    BY <2>1, <2>3 DEF StoredInv, Sound, Recorded, RecordedNext, OrderOf
  <2>6. \A v \in accepted : Recorded(v) \/ Carried(v) => Recorded(v)' \/ Carried(v)'
    BY <2>1 DEF Recorded, RecordedNext, Carried, At
  <2>7. \A v \in accepted' \ accepted : Carried(v)'
    BY <1>1, <2>1, <2>2 DEF Webhook, Carried, Carries
  <2> HIDE DEF t
  <2> QED
    BY <2>1, <2>3, <2>4, <2>5, <2>6, <2>7 DEF StoredInv, FewFaults, Blank, At
<1>2. ASSUME NEW p \in Procs, NEW w \in Orders, WebhookFallback(p, w) PROVE StoredInv'
  <2>1. PICK t \in Task : t = NewTask("fallback", w, None) /\ t.kind = "fallback"
    BY StartTask
  <2>2. faults' = faults + 1 /\ faults \in Nat /\ "fallback" \in Sources
    BY <1>2 DEF WebhookFallback, Fault, Inv, TypeOK
  <2>3. Tried(t)'
    BY <2>1, <2>2 DEF Tried
  <2>4. At(p, "idle") /\ proc' = [proc EXCEPT ![p] = Fresh("check", t, "PENDING")]
        /\ UNCHANGED <<accepted, rows, queue>>
    BY <1>2, <2>1 DEF WebhookFallback, At
  <2> QED
    BY <2>2, <2>3, <2>4, BeginsStored DEF JobStatus
<1>3. ASSUME NEW p \in Procs, NEW w \in Orders, ManualSync(p, w) PROVE StoredInv'
  <2>1. PICK t \in Task : t = NewTask("manual", w, None) /\ t.kind = "manual"
    BY StartTask
  <2>2. Tried(t)'
    BY <2>1 DEF Tried
  <2>3. At(p, "idle") /\ proc' = [proc EXCEPT ![p] = Fresh("check", t, "PENDING")]
        /\ UNCHANGED <<accepted, rows, queue, faults>>
    BY <1>3, <2>1 DEF ManualSync, At
  <2> QED
    BY <2>2, <2>3, BeginsStored DEF JobStatus
<1>4. ASSUME NEW p \in Procs, NEW j \in JobIds, RetryEndpoint(p, j) PROVE StoredInv'
  <2>1. jobs[j].order \in Orders \cup {None} /\ jobs[j].status \in JobStatus
    BY DEF Inv, TypeOK, Job
  <2>2. PICK t \in Task : t = NewTask("endpoint", jobs[j].order, j) /\ t.kind = "endpoint"
    BY <2>1, StartTask
  <2>3. Tried(t)'
    BY <2>2 DEF Tried
  <2>4. At(p, "idle") /\ proc' = [proc EXCEPT ![p] = Fresh("dispatch", t, jobs[j].status)]
        /\ UNCHANGED <<accepted, rows, queue, faults>>
    BY <1>4, <2>2 DEF RetryEndpoint, At
  <2> QED
    BY <2>1, <2>3, <2>4, BeginsStored
<1> QED
  BY <1>1, <1>2, <1>3, <1>4 DEF Arrival

LEMMA BeginStored ==
  ASSUME Inv, StoredInv, NEW p \in Procs, Start(p) \/ RunJob(p)
  PROVE  StoredInv'
<1>1. CASE Start(p)
  <2>1. PICK t \in queue : TakeTask(p, t)
    BY <1>1 DEF Start
  <2>2. t \in Task /\ JobRef(t) /\ Tried(t)
    BY DEF Inv, TypeOK, Linked, StoredInv
  <2>3. PICK st \in JobStatus :
           st = IF t.kind = "retry_single" THEN jobs[t.job].status ELSE "PENDING"
    BY <2>2 DEF JobRef, RetryKinds, Inv, TypeOK, Job, JobStatus
  <2>4. /\ At(p, "idle") /\ proc' = [proc EXCEPT ![p] = Fresh("check", t, st)]
        /\ queue' = queue \ {t} /\ UNCHANGED <<accepted, rows, faults>>
    BY <2>1, <2>3 DEF TakeTask, At
  <2>5. Tried(t)'
    BY <2>2, <2>4 DEF Tried, Recorded, RecordedNext
  <2> QED
    BY <2>2, <2>4, <2>5, BeginsStored
<1>2. CASE RunJob(p)
  <2>1. PICK j \in JobIds : RunDueJob(p, j)
    BY <1>2 DEF RunJob
  <2>2. jobs[j].order \in Orders \cup {None}
    BY DEF Inv, TypeOK, Job
  <2>3. PICK t \in Task : t = NewTask("retry_queue", jobs[j].order, j) /\ t.kind = "retry_queue"
    BY <2>2, StartTask
  <2>4. Tried(t)'
    BY <2>3 DEF Tried
  <2>5. At(p, "idle") /\ proc' = [proc EXCEPT ![p] = Fresh("check", t, "PENDING")]
        /\ UNCHANGED <<accepted, rows, queue, faults>>
    BY <2>1, <2>3 DEF RunDueJob, At
  <2> QED
    BY <2>4, <2>5, BeginsStored DEF JobStatus
<1> QED
  BY <1>1, <1>2

LEMMA CrashStored ==
  ASSUME Inv, StoredInv, NEW p \in Procs, Crash(p)
  PROVE  StoredInv'
<1>1. PICK t \in Task : t = proc[p].task /\ t.order \in Orders /\ Tried(t) /\ t.order = OrderOf(p)
  BY Busy DEF StoredInv, Sound, OrderOf, Crash
<1>2. /\ ~At(p, "idle") /\ proc' = [proc EXCEPT ![p] = Idle]
      /\ queue' = IF t.kind \in CeleryKinds THEN queue \cup {t} ELSE queue
      /\ UNCHANGED <<accepted, rows, faults>>
  BY <1>1 DEF Crash
<1>3. Tried(t)'
  BY <1>1, <1>2 DEF Tried, Recorded, RecordedNext
<1>4. t.kind = "created" => t \in queue' /\ Carries(t, OrderOf(p))
  BY <1>1, <1>2 DEF CeleryKinds, PayloadKinds, Carries
<1> QED
  BY <1>1, <1>2, <1>3, <1>4, LetsGo, SameRows

LEMMA FaultsGrow == ASSUME Inv, Fault PROVE faults' = faults + 1
BY DEF Fault

LEMMA AttemptStored ==
  ASSUME Inv, StoredInv, NEW p \in Procs,
         \/ AuthFails(p) \/ CheckSkips(p) \/ CheckProceeds(p) \/ FetchFails(p) \/ PrepareFails(p)
         \/ \E s \in SaleIds : CreateSale(p, s) \/ CreateSaleLost(p, s)
         \/ ConfirmSale(p) \/ ConfirmFails(p)
         \/ \E made \in BOOLEAN : Invoice(p, made)
         \/ InvoiceEscapes(p)
  PROVE  StoredInv'
<1>0. UNCHANGED rows /\ faults' \in {faults, faults + 1}
  BY DEF AuthFails, CheckSkips, CheckProceeds, FetchFails, PrepareFails, CreateSale,
         CreateSaleLost, NewSale, ConfirmSale, ConfirmFails, Invoice, InvoiceEscapes, Fault
<1>1. ~At(p, "idle")
  BY DEF AuthFails, CheckSkips, CheckProceeds, FetchFails, PrepareFails, CreateSale,
         CreateSaleLost, NewSale, ConfirmSale, ConfirmFails, Invoice, InvoiceEscapes, At
<1>2. RowsKept /\ OrderOf(p) \in Orders
  BY <1>0, <1>1, SameRows, Busy
<1>3. PICK o \in Proc : o = proc[p]
  BY DEF Inv, TypeOK
<1>4. CASE AuthFails(p)
  <2>1. CASE IsRetry(p)
    BY <1>1, <1>0, <1>2, <1>4, <2>1, GotoStored DEF AuthFails, PCs
  <2>2. CASE ~IsRetry(p)
    BY <1>1, <1>2, <1>4, <2>2, RaiseStored DEF AuthFails, Fault
  <2> QED
    BY <2>1, <2>2
<1>5. CASE CheckSkips(p)
  <2>1. CASE IsRetry(p)
    BY <1>1, <1>0, <1>2, <1>5, <2>1, GotoStored DEF CheckSkips, PCs
  <2>2. CASE ~IsRetry(p)
    <3>1. RecordedNext(OrderOf(p))
      BY <1>0, <1>5 DEF CheckSkips, Recorded, RecordedNext, OrderOf, Finish
    <3> QED
      BY <1>0, <1>1, <1>2, <1>5, <2>2, <3>1, FinishStored DEF CheckSkips
  <2> QED
    BY <2>1, <2>2
<1>6. CASE CheckProceeds(p)
  <2>1. PICK row \in Row : row = rows[OrderOf(p)]
    BY <1>1, Busy
  <2>2. PICK r \in Proc : r = [o EXCEPT !.pc = "create", !.seen = row]
    BY DEF Proc, PCs
  <2>3. r.pc = "create" /\ r.task = o.task /\ r.seen = row
    BY <2>2 DEF Proc
  <2>4. proc' = [proc EXCEPT ![p] = r] /\ UNCHANGED <<accepted, queue, faults>>
    BY <1>3, <1>6, <2>1, <2>2 DEF CheckProceeds, Inv, TypeOK
  <2>5. row # NoRow => Recorded(OrderOf(p))
    BY <1>2, <2>1 DEF StoredInv, Blank, Recorded, RecordedNext
  <2>6. Recorded(OrderOf(p)) => rows'[OrderOf(p)].status # "none"
    BY <1>0 DEF Recorded, RecordedNext
  <2>7. r.seen # NoRow => RecordedNext(OrderOf(p))
    BY <1>2, <2>3, <2>4, <2>5, <2>6 DEF Recorded, RecordedNext, RowsKept
  <2> QED
    BY <1>1, <1>2, <1>3, <2>3, <2>4, <2>7, GoesOn
<1>7. CASE FetchFails(p) \/ ConfirmSale(p)
  BY <1>0, <1>1, <1>2, <1>7, GotoStored DEF FetchFails, ConfirmSale, PCs
<1>8. CASE \/ PrepareFails(p) \/ ConfirmFails(p) \/ InvoiceEscapes(p)
           \/ \E s \in SaleIds : CreateSaleLost(p, s)
  BY <1>0, <1>1, <1>2, <1>8, RollBackStored
     DEF PrepareFails, ConfirmFails, InvoiceEscapes, CreateSaleLost
<1>9. ASSUME NEW s \in SaleIds, CreateSale(p, s) PROVE StoredInv'
  <2>1. PICK r \in Proc : r = [o EXCEPT !.pc = "confirm", !.sale = s]
    BY DEF Proc, PCs
  <2>2. r.pc = "confirm" /\ r.task = o.task /\ r.seen = o.seen
    BY <2>1 DEF Proc
  <2>3. proc' = [proc EXCEPT ![p] = r] /\ UNCHANGED <<accepted, queue>>
    BY <1>3, <1>9, <2>1 DEF CreateSale, Inv, TypeOK
  <2> QED
    BY <1>0, <1>1, <1>2, <1>3, <2>2, <2>3, SeenKept, GoesOn
<1>10. ASSUME NEW made \in BOOLEAN, Invoice(p, made) PROVE StoredInv'
  <2>1. PICK r \in Proc : r = [o EXCEPT !.pc = "commit", !.billed = made]
    BY DEF Proc, PCs
  <2>2. r.pc = "commit" /\ r.task = o.task /\ r.seen = o.seen
    BY <2>1 DEF Proc
  <2>3. proc' = [proc EXCEPT ![p] = r] /\ UNCHANGED <<accepted, queue>>
    BY <1>3, <1>10, <2>1 DEF Invoice, Inv, TypeOK
  <2> QED
    BY <1>0, <1>1, <1>2, <1>3, <2>2, <2>3, SeenKept, GoesOn
<1> QED
  BY <1>4, <1>5, <1>6, <1>7, <1>8, <1>9, <1>10

LEMMA OutcomeStored ==
  ASSUME Inv, StoredInv, NEW p \in Procs,
         \/ CommitSynced(p) \/ CommitDuplicate(p) \/ CommitFails(p)
         \/ \E j \in JobIds : HandleError(p, j)
         \/ HandleErrorRaises(p)
  PROVE  StoredInv'
<1>0. faults' \in {faults, faults + 1} /\ ~At(p, "idle")
  BY DEF CommitSynced, CommitDuplicate, CommitFails, HandleError, HandleErrorRaises, Fault, At
<1>1. OrderOf(p) \in Orders /\ rows \in [Orders -> Row]
  BY <1>0, Busy DEF Inv, TypeOK
<1>2. CASE CommitSynced(p)
  <2>1. rows'[OrderOf(p)].status = "SYNCED" /\ RowsKept
    BY <1>1, <1>2 DEF CommitSynced, RowsKept, Recorded, RecordedNext
  <2>2. RecordedNext(OrderOf(p))
    <3>1. rows'[OrderOf(p)].status # "none"
      BY <2>1
    <3>2. CASE Goto(p, "resolve")
      BY <1>0, <1>1, <2>1, SeenKept, <3>1, <3>2 DEF Recorded, RecordedNext, OrderOf, Goto, Inv, TypeOK, Proc
    <3>3. CASE Finish(p)
      BY <3>1 DEF Recorded, RecordedNext, OrderOf
    <3> QED
      BY <1>2, <3>2, <3>3 DEF CommitSynced
  <2>3. CASE IsRetry(p)
    BY <1>0, <1>2, <2>1, <2>3, GotoStored DEF CommitSynced, PCs
  <2>4. CASE ~IsRetry(p)
    BY <1>0, <1>2, <2>1, <2>2, <2>4, FinishStored DEF CommitSynced
  <2> QED
    BY <2>3, <2>4
<1>3. CASE CommitDuplicate(p) \/ CommitFails(p)
  BY <1>0, <1>3, SameRows, RollBackStored DEF CommitDuplicate, CommitFails
<1>4. ASSUME NEW j \in JobIds, HandleError(p, j) PROVE StoredInv'
  <2>1. rows'[OrderOf(p)].status # "none" /\ RowsKept
    <3>1. CASE rows' = [rows EXCEPT ![OrderOf(p)].status = "FAILED"]
      BY <1>1, <3>1 DEF RowsKept, Recorded, RecordedNext, Row
    <3>2. CASE rows' = rows /\ proc[p].seen.status = "FAILED"
      BY <1>0, <3>2 DEF StoredInv, Sound, Recorded, RecordedNext, NoRow, RowsKept
    <3> QED
      BY <1>4, <3>1, <3>2 DEF HandleError
  <2>3. CASE IsRetry(p)
    BY <1>0, <1>4, <2>1, <2>3, GotoStored DEF HandleError, PCs
  <2>4. CASE ~IsRetry(p)
    <3>1. RecordedNext(OrderOf(p))
      BY <2>1 DEF Recorded, RecordedNext
    <3> QED
      BY <1>0, <1>4, <2>1, <2>4, <3>1, FinishStored DEF HandleError
  <2> QED
    BY <2>3, <2>4
<1>5. CASE HandleErrorRaises(p)
  <2>1. UNCHANGED rows /\ Raise(p)
    BY <1>5 DEF HandleErrorRaises
  <2>2. Recorded(OrderOf(p)) \/ faults' = faults + 1
    BY <1>1, <1>5 DEF HandleErrorRaises, Fault, StoredInv, Blank, Recorded, RecordedNext
  <2>3. Recorded(OrderOf(p)) => RecordedNext(OrderOf(p))
    BY <2>1 DEF Recorded, RecordedNext
  <2> QED
    BY <1>0, <2>1, <2>2, <2>3, SameRows, RaiseStored
<1> QED
  BY <1>2, <1>3, <1>4, <1>5

LEMMA JobStored ==
  ASSUME Inv, StoredInv, NEW p \in Procs,
         \/ ResolveJob(p) \/ JobWriteFails(p)
         \/ \E st \in {"PENDING", "DEAD_LETTER"} : BumpJob(p, st)
         \/ DispatchRetry(p) \/ DispatchRetryFails(p)
  PROVE  StoredInv'
<1>0. ~At(p, "idle") /\ UNCHANGED rows /\ faults' \in {faults, faults + 1}
  BY DEF ResolveJob, JobWriteFails, BumpJob, DispatchRetry, DispatchRetryFails, At, Fault
<1>1. RowsKept
  BY <1>0, SameRows
<1>2. proc[p].task.kind \notin {"created", "fallback"}
  BY <1>0 DEF ResolveJob, JobWriteFails, BumpJob, DispatchRetry, DispatchRetryFails, At, Inv,
              Linked, IsRetry, RetryKinds
<1>3. CASE Finish(p)
  BY <1>0, <1>1, <1>2, <1>3, FinishStored
<1>4. CASE DispatchRetry(p) \/ DispatchRetryFails(p)
  <2>1. PICK u : u = NewTask("retry_single", proc[p].task.order, proc[p].task.job)
    OBVIOUS
  <2>2. /\ proc' = [proc EXCEPT ![p] = Idle] /\ UNCHANGED accepted
        /\ queue \subseteq queue' /\ \A t \in queue' : t \in queue \/ t = u
    BY <1>4, <2>1 DEF DispatchRetry, DispatchRetryFails
  <2>3. \A t \in queue' : t \in queue \/ Tried(t)'
    BY <2>1, <2>2 DEF Tried, NewTask
  <2> QED
    BY <1>0, <1>1, <1>2, <2>2, <2>3, LetsGo
<1> QED
  BY <1>3, <1>4 DEF ResolveJob, JobWriteFails, BumpJob

LEMMA CancelStored ==
  ASSUME Inv, StoredInv, NEW p \in Procs,
         \/ ReadForCancel(p) \/ CancelSale(p) \/ CancelSaleFails(p) \/ MarkCancelled(p)
         \/ MarkCancelledFails(p) \/ MarkRefunded(p)
  PROVE  StoredInv'
<1>0. ~At(p, "idle") /\ faults' \in {faults, faults + 1}
  BY DEF ReadForCancel, CancelSale, CancelSaleFails, MarkCancelled, MarkCancelledFails, MarkRefunded,
         At, Fault
<1>1. OrderOf(p) \in Orders /\ rows \in [Orders -> Row]
  BY <1>0, Busy DEF Inv, TypeOK
<1>2. proc[p].task.kind \in {"cancelled", "refunded"}
  BY <1>0 DEF ReadForCancel, CancelSale, CancelSaleFails, MarkCancelled, MarkCancelledFails,
              MarkRefunded, At, StoredInv, Sound
<1>3. RowsKept
  <2>1. \/ UNCHANGED rows
        \/ \E st \in {"CANCELLED", "REFUNDED"} : rows' = [rows EXCEPT ![OrderOf(p)].status = st]
    BY DEF ReadForCancel, CancelSale, CancelSaleFails, MarkCancelled, MarkCancelledFails, MarkRefunded
  <2> QED
    BY <1>1, <2>1 DEF RowsKept, Recorded, RecordedNext, Row
<1>4. CASE ReadForCancel(p)
  <2>1. PICK row \in Row : row = rows[OrderOf(p)]
    BY <1>1
  <2>2. CASE row = NoRow
    BY <1>0, <1>2, <1>3, <1>4, <2>1, <2>2, FinishStored DEF ReadForCancel
  <2>3. CASE row # NoRow
    <3>1. PICK o \in Proc : o = proc[p]
      BY DEF Inv, TypeOK
    <3>2. PICK pc \in {"mark_cancelled", "action_cancel"} :
             pc = IF row.so = None THEN "mark_cancelled" ELSE "action_cancel"
      OBVIOUS
    <3>3. PICK r \in Proc : r = [o EXCEPT !.pc = pc, !.seen = row]
      BY DEF Proc, PCs
    <3>4. r.pc = pc /\ r.task = o.task /\ r.seen = row
      BY <3>3 DEF Proc
    <3>5. proc' = [proc EXCEPT ![p] = r] /\ UNCHANGED <<accepted, queue, rows>>
      BY <1>4, <2>1, <2>3, <3>1, <3>2, <3>3 DEF ReadForCancel, Inv, TypeOK
    <3>6. rows'[OrderOf(p)].status # "none"
      BY <1>1, <2>1, <2>3, <3>5 DEF StoredInv, Blank
    <3>7. RecordedNext(OrderOf(p))
      BY <3>1, <3>4, <3>5, <3>6 DEF Recorded, RecordedNext, OrderOf, Inv, TypeOK
    <3>8. proc[p].task.kind = "cancelled"
      BY <1>4 DEF ReadForCancel
    <3> QED
      BY <1>0, <1>3, <3>1, <3>4, <3>5, <3>7, <3>8, GoesOn
  <2> QED
    BY <2>2, <2>3
<1>5. ASSUME CancelSale(p) \/ CancelSaleFails(p), Goto(p, "mark_cancelled") PROVE StoredInv'
  <2>1. proc[p].task.kind = "cancelled"
    BY <1>0, <1>5 DEF CancelSale, CancelSaleFails, At, StoredInv, Sound
  <2> QED
    BY <1>0, <1>3, <1>5, <2>1, GotoStored DEF PCs
<1>6. CASE Raise(p)
  BY <1>0, <1>2, <1>3, <1>6, RaiseStored
<1>7. CASE Finish(p)
  BY <1>0, <1>2, <1>3, <1>7, FinishStored
<1> QED
  BY <1>4, <1>5, <1>6, <1>7
     DEF CancelSale, CancelSaleFails, MarkCancelled, MarkCancelledFails, MarkRefunded

LEMMA NextStored == Inv /\ StoredInv /\ [Next]_vars => StoredInv'
<1> SUFFICES ASSUME Inv, StoredInv, [Next]_vars PROVE StoredInv'
  OBVIOUS
<1>1. CASE Arrival
  BY <1>1, ArrivalStored
<1>2. ASSUME NEW p \in Procs, Start(p) \/ RunJob(p) \/ Crash(p) PROVE StoredInv'
  BY <1>2, BeginStored, CrashStored
<1>3. ASSUME NEW p \in Procs, Work(p) PROVE StoredInv'
  BY <1>3, AttemptStored, OutcomeStored, JobStored, CancelStored DEF Work
<1>4. CASE UNCHANGED vars
  <2>1. \A t : Tried(t)' <=> Tried(t)
    BY <1>4 DEF vars, Tried, Recorded, RecordedNext
  <2>2. \A p \in Procs : (At(p, "idle") => At(p, "idle")') /\ (Sound(p) => Sound(p)')
    BY <1>4, <2>1 DEF vars, At, Sound, Recorded, RecordedNext, OrderOf
  <2>3. \A w : (Recorded(w) => Recorded(w)') /\ (Carried(w) => Carried(w)')
    BY <1>4 DEF vars, Recorded, RecordedNext, Carried, At
  <2> QED
    BY <1>4, <2>1, <2>2, <2>3 DEF vars, StoredInv, Blank, FewFaults
<1> QED
  BY <1>1, <1>2, <1>3, <1>4 DEF Next

\* An order whose order-created webhook was answered 200 is recorded, in the
\* broker or being worked on, after any number of crashes and as many faults as
\* a task has tries (one where the fallback is used): neither a redelivery nor
\* a retry nor another process's work on the order drops it.
THEOREM AcceptedNeverDropped == Spec => []AcceptedIsStored
<1>1. Init => StoredInv
  BY IdleType DEF Init, StoredInv, Blank, At
<1>2. Inv /\ StoredInv => AcceptedIsStored
  <2> SUFFICES ASSUME Inv, StoredInv, FewFaults, NEW w \in accepted
               PROVE  rows[w] # NoRow \/ Pending(w)
    BY DEF AcceptedIsStored, AcceptedIsKept
  <2>1. CASE Recorded(w)
    BY <2>1 DEF Recorded, RecordedNext, NoRow
  <2>2. CASE \E t \in queue : Carries(t, w)
    BY <2>2 DEF Carries, Pending
  <2>3. CASE \E p \in Procs : ~At(p, "idle") /\ Carries(proc[p].task, w)
    BY <2>3 DEF Carries, Pending, BusyOn
  <2> QED
    BY <2>1, <2>2, <2>3 DEF StoredInv, Carried
<1> QED
  BY <1>1, <1>2, InvHolds, NextStored, PTL DEF Spec

-----------------------------------------------------------------------------
(* The sale orders that the mapping names                                  *)
(*                                                                         *)
(* Booked is inductive relative to Inv: the sale orders in the hands of    *)
(* the processes are distinct, and one that is not yet confirmed is in no  *)
(* row.  It follows that no two orders are booked on one sale order, which *)
(* LedgerImplemented needs.                                                *)

Holding  == {"confirm", "invoice", "commit"}
Holds(p) == proc[p].pc \in Holding

RowsBooked ==
    \A w \in Orders : rows[w].so # None =>
        sales[rows[w].so].order = w /\ sales[rows[w].so].state # "draft"
HeldBooked ==
    \A p \in Procs : Holds(p) =>
        /\ proc[p].sale \in SaleIds /\ sales[proc[p].sale].order = OrderOf(p)
        /\ proc[p].pc # "confirm" => sales[proc[p].sale].state # "draft"
Apart ==
    \A p, q \in Procs : p # q /\ Holds(p) /\ Holds(q) => proc[p].sale # proc[q].sale
Unbooked ==
    \A p \in Procs, w \in Orders : At(p, "confirm") => rows[w].so # proc[p].sale
Booked == RowsBooked /\ HeldBooked /\ Apart /\ Unbooked

-----------------------------------------------------------------------------
(* Booked is preserved                                                     *)

\* A step of p that books nothing: p keeps its sale order or lets go of it, and
\* only a sale order that p holds unconfirmed may become, or stay, a draft.
LEMMA KeepsBooked ==
  ASSUME Inv, Booked, NEW p \in Procs,
         \A q \in Procs \ {p} : proc'[q] = proc[q],
         proc'[p].pc \in Holding =>
             /\ Holds(p) /\ proc'[p].sale = proc[p].sale /\ proc'[p].task = proc[p].task
             /\ proc'[p].pc = "confirm" => At(p, "confirm")
             /\ proc'[p].pc # "confirm" => sales'[proc[p].sale].state # "draft",
         \A w \in Orders : rows'[w].so = rows[w].so,
         \A s \in SaleIds : sales[s].order # None =>
             /\ sales'[s].order = sales[s].order
             /\ \/ At(p, "confirm") /\ s = proc[p].sale
                \/ sales[s].state # "draft" => sales'[s].state # "draft"
  PROVE  Booked'
<1>1. \A w \in Orders : rows[w].so \in SaleIds \cup {None}
  BY DEF Inv, TypeOK, Row
<1>2. RowsBooked'
  <2> SUFFICES ASSUME NEW w \in Orders, rows'[w].so # None
               PROVE  sales'[rows'[w].so].order = w /\ sales'[rows'[w].so].state # "draft"
    BY DEF RowsBooked
  <2>1. rows'[w].so = rows[w].so /\ rows[w].so \in SaleIds
    BY <1>1
  <2>2. sales[rows[w].so].order = w /\ sales[rows[w].so].state # "draft"
    BY <2>1 DEF Booked, RowsBooked
  <2>3. ~(At(p, "confirm") /\ rows[w].so = proc[p].sale)
    BY DEF Booked, Unbooked
  <2> QED
    BY <2>1, <2>2, <2>3
<1>3. HeldBooked'
  <2> SUFFICES ASSUME NEW q \in Procs, proc'[q].pc \in Holding
               PROVE  /\ proc'[q].sale \in SaleIds
                      /\ sales'[proc'[q].sale].order = proc'[q].task.order
                      /\ proc'[q].pc # "confirm" => sales'[proc'[q].sale].state # "draft"
    BY DEF HeldBooked, Holds, OrderOf
  <2>1. Holds(q) /\ proc'[q].sale = proc[q].sale /\ proc'[q].task = proc[q].task
    BY DEF Holds
  <2>2. /\ proc[q].sale \in SaleIds /\ sales[proc[q].sale].order = proc[q].task.order
        /\ proc[q].pc # "confirm" => sales[proc[q].sale].state # "draft"
    BY <2>1 DEF Booked, HeldBooked, OrderOf
  <2>3. proc[q].task.order # None
    BY <2>1, Busy DEF Holds, Holding, At, OrderOf
  <2>4. CASE q = p
    BY <2>1, <2>2, <2>3, <2>4
  <2>5. CASE q # p
    <3>1. ~(At(p, "confirm") /\ proc[q].sale = proc[p].sale)
      BY <2>1, <2>5 DEF Booked, Apart, Holds, Holding, At
    <3> QED
      BY <2>1, <2>2, <2>3, <2>5, <3>1
  <2> QED
    BY <2>4, <2>5
<1>4. \A q \in Procs : proc'[q].pc \in Holding => Holds(q) /\ proc'[q].sale = proc[q].sale
  BY DEF Holds
<1>5. Apart'
  BY <1>4 DEF Apart, Holds, Booked
<1>6. Unbooked'
  <2>1. \A q \in Procs : At(q, "confirm")' => At(q, "confirm") /\ proc'[q].sale = proc[q].sale
    BY <1>4 DEF At, Holding
  <2> QED
    BY <2>1 DEF Unbooked, Booked
<1> QED
  BY <1>2, <1>3, <1>5, <1>6 DEF Booked

\* Odoo gives a new id: no row and no process has it.
LEMMA CreateBooked ==
  ASSUME Inv, Booked, NEW p \in Procs, NEW s \in SaleIds, CreateSale(p, s)
  PROVE  Booked'
<1>1. /\ sales[s].order = None
      /\ sales'[s] = [order |-> OrderOf(p), state |-> "draft"]
      /\ \A r \in SaleIds \ {s} : sales'[r] = sales[r]
      /\ UNCHANGED rows
  BY DEF CreateSale, NewSale, Inv, TypeOK
<1>2. /\ \A q \in Procs \ {p} : proc'[q] = proc[q]
      /\ proc'[p].pc = "confirm" /\ proc'[p].sale = s /\ proc'[p].task = proc[p].task
  BY DEF CreateSale, Inv, TypeOK, Proc
<1>3. \A w \in Orders : rows[w].so # s
  BY <1>1 DEF Booked, RowsBooked
<1>4. \A q \in Procs : Holds(q) => proc[q].sale # s /\ proc[q].sale \in SaleIds
  <2> SUFFICES ASSUME NEW q \in Procs, Holds(q) PROVE proc[q].sale # s /\ proc[q].sale \in SaleIds
    OBVIOUS
  <2>1. OrderOf(q) # None
    BY Busy DEF Holds, Holding, At
  <2> QED
    BY <1>1, <2>1 DEF Booked, HeldBooked
<1>5. RowsBooked'
  BY <1>1, <1>3 DEF RowsBooked, Booked, Inv, TypeOK, Row
<1>6. HeldBooked'
  BY <1>1, <1>2, <1>4 DEF HeldBooked, Booked, Holds, OrderOf
<1>7. Apart'
  BY <1>2, <1>4 DEF Apart, Booked, Holds
<1>8. Unbooked'
  BY <1>1, <1>2, <1>3 DEF Unbooked, Booked, At
<1> QED
  BY <1>5, <1>6, <1>7, <1>8 DEF Booked

LEMMA CommitBooked ==
  ASSUME Inv, Booked, NEW p \in Procs, CommitSynced(p)
  PROVE  Booked'
<1>1. OrderOf(p) \in Orders
  BY Busy DEF CommitSynced, At
<1>2. /\ rows'[OrderOf(p)].so = proc[p].sale
      /\ \A w \in Orders \ {OrderOf(p)} : rows'[w] = rows[w]
      /\ UNCHANGED sales
  BY <1>1 DEF CommitSynced, Inv, TypeOK
<1>3. (\A q \in Procs \ {p} : proc'[q] = proc[q]) /\ proc'[p].pc \notin Holding
  BY GotoMoves, EndMoves DEF CommitSynced, Holding, PCs
<1>4. Holds(p) /\ proc[p].pc # "confirm"
  BY DEF CommitSynced, At, Holds, Holding
<1>5. RowsBooked'
  BY <1>1, <1>2, <1>4 DEF RowsBooked, Booked, HeldBooked
<1>6. HeldBooked'
  BY <1>2, <1>3 DEF HeldBooked, Booked, Holds, OrderOf
<1>7. Apart'
  BY <1>3 DEF Apart, Booked, Holds
<1>8. Unbooked'
  BY <1>2, <1>3, <1>4 DEF Unbooked, Booked, Apart, At, Holds, Holding
<1> QED
  BY <1>5, <1>6, <1>7, <1>8 DEF Booked

\* A step that leaves sale orders and their places in the rows as they are, and p
\* without one.
LEMMA IdleBooked ==
  ASSUME Inv, Booked, NEW p \in Procs,
         \A q \in Procs \ {p} : proc'[q] = proc[q],
         proc'[p].pc \notin Holding,
         \A w \in Orders : rows'[w].so = rows[w].so,
         \A s \in SaleIds : sales'[s].order = sales[s].order
                            /\ (sales[s].state # "draft" => sales'[s].state # "draft")
  PROVE  Booked'
BY KeepsBooked

LEMMA BeginBooked ==
  ASSUME Inv, Booked, NEW p \in Procs,
         \/ Start(p) \/ RunJob(p) \/ Crash(p)
         \/ \E w \in Orders : WebhookFallback(p, w) \/ ManualSync(p, w)
         \/ \E j \in JobIds : RetryEndpoint(p, j)
  PROVE  Booked'
<1>1. UNCHANGED <<rows, sales>>
  BY DEF Start, TakeTask, RunJob, RunDueJob, Crash, WebhookFallback, ManualSync, RetryEndpoint
<1>2. \A q \in Procs \ {p} : proc'[q] = proc[q]
  BY DEF Start, TakeTask, RunJob, RunDueJob, Crash, WebhookFallback, ManualSync, RetryEndpoint,
         Inv, TypeOK
<1>3. proc'[p].pc \in {"idle", "check", "dispatch"}
  BY IdleType DEF Start, TakeTask, RunJob, RunDueJob, Crash, WebhookFallback, ManualSync,
                  RetryEndpoint, Inv, TypeOK, Fresh
<1> QED
  BY <1>1, <1>2, <1>3, IdleBooked DEF Holding

LEMMA AttemptBooked ==
  ASSUME Inv, Booked, NEW p \in Procs,
         \/ AuthFails(p) \/ CheckSkips(p) \/ CheckProceeds(p) \/ FetchFails(p) \/ PrepareFails(p)
         \/ \E s \in SaleIds : CreateSale(p, s) \/ CreateSaleLost(p, s)
         \/ ConfirmSale(p) \/ ConfirmFails(p)
         \/ \E made \in BOOLEAN : Invoice(p, made)
         \/ InvoiceEscapes(p)
  PROVE  Booked'
<1>1. UNCHANGED rows
  BY DEF AuthFails, CheckSkips, CheckProceeds, FetchFails, PrepareFails, CreateSale,
         CreateSaleLost, NewSale, ConfirmSale, ConfirmFails, Invoice, InvoiceEscapes
<1>2. CASE AuthFails(p) \/ CheckSkips(p) \/ FetchFails(p)
  <2>1. (\A q \in Procs \ {p} : proc'[q] = proc[q]) /\ proc'[p].pc \in {"bump", "resolve", "error", "idle"}
    BY <1>2, GotoMoves, EndMoves DEF AuthFails, CheckSkips, FetchFails, PCs
  <2>2. UNCHANGED sales
    BY <1>2 DEF AuthFails, CheckSkips, FetchFails
  <2> QED
    BY <1>1, <2>1, <2>2, IdleBooked DEF Holding
<1>3. CASE CheckProceeds(p)
  <2>1. (\A q \in Procs \ {p} : proc'[q] = proc[q]) /\ proc'[p].pc = "create" /\ UNCHANGED sales
    BY <1>3 DEF CheckProceeds, Inv, TypeOK, Proc
  <2> QED
    BY <1>1, <2>1, IdleBooked DEF Holding
<1>4. CASE PrepareFails(p) \/ InvoiceEscapes(p)
  <2>1. (\A q \in Procs \ {p} : proc'[q] = proc[q]) /\ proc'[p].pc = "error" /\ UNCHANGED sales
    BY <1>4, RollBackMoves DEF PrepareFails, InvoiceEscapes
  <2> QED
    BY <1>1, <2>1, IdleBooked DEF Holding
<1>5. ASSUME NEW s \in SaleIds, CreateSale(p, s) PROVE Booked'
  BY <1>5, CreateBooked
<1>6. ASSUME NEW s \in SaleIds, CreateSaleLost(p, s) PROVE Booked'
  <2>1. (\A q \in Procs \ {p} : proc'[q] = proc[q]) /\ proc'[p].pc = "error"
    BY <1>6, RollBackMoves DEF CreateSaleLost
  <2>2. sales[s].order = None /\ \A r \in SaleIds \ {s} : sales'[r] = sales[r]
    BY <1>6 DEF CreateSaleLost, NewSale, Inv, TypeOK
  <2> QED
    BY <1>1, <2>1, <2>2, KeepsBooked DEF Holding
<1>7. CASE ConfirmSale(p)
  <2>1. (\A q \in Procs \ {p} : proc'[q] = proc[q]) /\ proc'[p] = [proc[p] EXCEPT !.pc = "invoice"]
    BY <1>7 DEF ConfirmSale, Goto, Inv, TypeOK
  <2>2. proc'[p].pc = "invoice" /\ proc'[p].sale = proc[p].sale /\ proc'[p].task = proc[p].task
    BY <2>1 DEF Inv, TypeOK, Proc
  <2>3. Holds(p) /\ At(p, "confirm") /\ proc[p].sale \in SaleIds
    BY <1>7 DEF ConfirmSale, At, Holds, Holding, Booked, HeldBooked
  <2>4. sales' = [sales EXCEPT ![proc[p].sale].state = "sale"]
    BY <1>7 DEF ConfirmSale
  <2>5. /\ sales'[proc[p].sale].state = "sale" /\ sales'[proc[p].sale].order = sales[proc[p].sale].order
        /\ \A s \in SaleIds \ {proc[p].sale} : sales'[s] = sales[s]
    BY <2>3, <2>4 DEF Inv, TypeOK, Sale
  <2>6. \A s \in SaleIds : sales'[s].order = sales[s].order
                            /\ ((At(p, "confirm") /\ s = proc[p].sale) \/ sales'[s] = sales[s])
    BY <2>3, <2>5
  <2> QED
    BY <1>1, <2>1, <2>2, <2>3, <2>5, <2>6, KeepsBooked
<1>8. CASE ConfirmFails(p)
  <2>1. (\A q \in Procs \ {p} : proc'[q] = proc[q]) /\ proc'[p].pc = "error"
    BY <1>8, RollBackMoves DEF ConfirmFails
  <2>2. At(p, "confirm") /\ proc[p].sale \in SaleIds
    BY <1>8 DEF ConfirmFails, At, Holds, Holding, Booked, HeldBooked
  <2>3. PICK st \in {"draft", "sale"} : sales' = [sales EXCEPT ![proc[p].sale].state = st]
    BY <1>8 DEF ConfirmFails
  <2>4. /\ sales'[proc[p].sale].order = sales[proc[p].sale].order
        /\ \A s \in SaleIds \ {proc[p].sale} : sales'[s] = sales[s]
    BY <2>2, <2>3 DEF Inv, TypeOK, Sale
  <2> QED
    BY <1>1, <2>1, <2>2, <2>4, KeepsBooked DEF Holding
<1>9. ASSUME NEW made \in BOOLEAN, Invoice(p, made) PROVE Booked'
  <2>1. UNCHANGED sales /\ At(p, "invoice") /\ \A q \in Procs \ {p} : proc'[q] = proc[q]
    BY <1>9 DEF Invoice, Inv, TypeOK
  <2>2. proc'[p].pc = "commit" /\ proc'[p].sale = proc[p].sale /\ proc'[p].task = proc[p].task
    BY <1>9 DEF Invoice, Inv, TypeOK, Proc
  <2>3. Holds(p) /\ sales[proc[p].sale].state # "draft"
    BY <2>1 DEF At, Holds, Holding, Booked, HeldBooked
  <2> QED
    BY <1>1, <2>1, <2>2, <2>3, KeepsBooked
<1> QED
  BY <1>2, <1>3, <1>4, <1>5, <1>6, <1>7, <1>8, <1>9

LEMMA OutcomeBooked ==
  ASSUME Inv, Booked, NEW p \in Procs,
         \/ CommitSynced(p) \/ CommitDuplicate(p) \/ CommitFails(p)
         \/ \E j \in JobIds : HandleError(p, j)
         \/ HandleErrorRaises(p)
  PROVE  Booked'
<1>1. CASE CommitSynced(p)
  BY <1>1, CommitBooked
<1>2. CASE CommitDuplicate(p) \/ CommitFails(p) \/ HandleErrorRaises(p)
  <2>1. (\A q \in Procs \ {p} : proc'[q] = proc[q]) /\ proc'[p].pc \in {"error", "idle"}
    BY <1>2, RollBackMoves, EndMoves DEF CommitDuplicate, CommitFails, HandleErrorRaises
  <2>2. UNCHANGED <<rows, sales>>
    BY <1>2 DEF CommitDuplicate, CommitFails, HandleErrorRaises
  <2> QED
    BY <2>1, <2>2, IdleBooked DEF Holding
<1>3. ASSUME NEW j \in JobIds, HandleError(p, j) PROVE Booked'
  <2>1. (\A q \in Procs \ {p} : proc'[q] = proc[q]) /\ proc'[p].pc \in {"bump", "idle"}
    BY <1>3, GotoMoves, EndMoves DEF HandleError, PCs
  <2>2. (\A w \in Orders : rows'[w].so = rows[w].so) /\ UNCHANGED sales
    BY <1>3 DEF HandleError, Inv, TypeOK, Row
  <2> QED
    BY <2>1, <2>2, IdleBooked DEF Holding
<1> QED
  BY <1>1, <1>2, <1>3

LEMMA JobBooked ==
  ASSUME Inv, Booked, NEW p \in Procs,
         \/ ResolveJob(p) \/ JobWriteFails(p)
         \/ \E st \in {"PENDING", "DEAD_LETTER"} : BumpJob(p, st)
         \/ DispatchRetry(p) \/ DispatchRetryFails(p)
  PROVE  Booked'
<1>1. UNCHANGED <<rows, sales>>
  BY DEF ResolveJob, JobWriteFails, BumpJob, DispatchRetry, DispatchRetryFails
<1>2. (\A q \in Procs \ {p} : proc'[q] = proc[q]) /\ proc'[p].pc = "idle"
  BY EndMoves, IdleType DEF ResolveJob, JobWriteFails, BumpJob, DispatchRetry, DispatchRetryFails,
                            Inv, TypeOK
<1> QED
  BY <1>1, <1>2, IdleBooked DEF Holding

LEMMA CancelBooked ==
  ASSUME Inv, Booked, NEW p \in Procs,
         \/ ReadForCancel(p) \/ CancelSale(p) \/ CancelSaleFails(p) \/ MarkCancelled(p)
         \/ MarkCancelledFails(p) \/ MarkRefunded(p)
  PROVE  Booked'
<1>1. \A w \in Orders : rows'[w].so = rows[w].so
  BY DEF ReadForCancel, CancelSale, CancelSaleFails, MarkCancelled, MarkCancelledFails, MarkRefunded,
         Inv, TypeOK, Row
<1>2. \A s \in SaleIds : sales'[s].order = sales[s].order
                         /\ (sales[s].state # "draft" => sales'[s].state # "draft")
  BY DEF ReadForCancel, CancelSale, CancelSaleFails, MarkCancelled, MarkCancelledFails, MarkRefunded,
         Inv, TypeOK, Sale
<1>3. (\A q \in Procs \ {p} : proc'[q] = proc[q]) /\ proc'[p].pc \notin Holding
  <2>1. CASE ReadForCancel(p) /\ rows[OrderOf(p)] # NoRow
    BY <2>1 DEF ReadForCancel, Inv, TypeOK, Proc, Holding
  <2>2. CASE ~(ReadForCancel(p) /\ rows[OrderOf(p)] # NoRow)
    BY <2>2, GotoMoves, EndMoves
       DEF ReadForCancel, CancelSale, CancelSaleFails, MarkCancelled, MarkCancelledFails, MarkRefunded,
           PCs, Holding
  <2> QED
    BY <2>1, <2>2
<1> QED
  BY <1>1, <1>2, <1>3, IdleBooked

LEMMA InitBooked == Init => Booked
BY IdleType DEF Init, Booked, RowsBooked, HeldBooked, Apart, Unbooked, Holds, Holding, NoRow, At

LEMMA NextBooked == Inv /\ Booked /\ [Next]_vars => Booked'
<1> SUFFICES ASSUME Inv, Booked, [Next]_vars PROVE Booked'
  OBVIOUS
<1>1. CASE Arrival
  <2>1. ASSUME NEW w \in Orders, NEW topic \in Topics, Webhook(w, topic) PROVE Booked'
    BY <2>1 DEF Webhook, Booked, RowsBooked, HeldBooked, Apart, Unbooked, Holds, At, OrderOf
  <2> QED
    BY <1>1, <2>1, BeginBooked DEF Arrival
<1>2. ASSUME NEW p \in Procs, Start(p) \/ RunJob(p) \/ Crash(p) PROVE Booked'
  BY <1>2, BeginBooked
<1>3. ASSUME NEW p \in Procs, Work(p) PROVE Booked'
  BY <1>3, AttemptBooked, OutcomeBooked, JobBooked, CancelBooked DEF Work
<1>4. CASE UNCHANGED vars
  BY <1>4 DEF vars, Booked, RowsBooked, HeldBooked, Apart, Unbooked, Holds, At, OrderOf
<1> QED
  BY <1>1, <1>2, <1>3, <1>4 DEF Next

\* The sale orders in the mapping, and those about to be put there, are distinct,
\* confirmed and of the right order, whatever is interleaved, lost or repeated.
THEOREM BookedHolds == Spec => []Booked
BY InitBooked, NextBooked, InvHolds, PTL DEF Spec

\* The sale order a mapping names was made for its WooCommerce order and has been
\* confirmed in Odoo.
THEOREM MappedSalesConfirmed == Spec => []MappedSaleConfirmed
<1>1. Booked => MappedSaleConfirmed
  BY DEF Booked, RowsBooked, HeldBooked, MappedSaleConfirmed, Holds, Holding
<1> QED
  BY <1>1, BookedHolds, PTL

-----------------------------------------------------------------------------
(* A cancellation finds its row                                            *)

Closing == {"action_cancel", "mark_cancelled"}
Found == \A p \in Procs : proc[p].pc \in Closing => rows[OrderOf(p)].status # "none"
Known == Blank /\ Found

\* A row that exists stays, and p does not begin to cancel one that does not.
LEMMA KeepsKnown ==
  ASSUME Inv, Known, NEW p \in Procs,
         \A q \in Procs \ {p} : proc'[q] = proc[q],
         \A w \in Orders : rows'[w] = rows[w] \/ rows'[w].status # "none",
         proc'[p].pc \in Closing =>
             ~At(p, "idle") /\ proc'[p].task = proc[p].task /\ rows[OrderOf(p)].status # "none"
  PROVE  Known'
<1>1. Blank'
  BY DEF Known, Blank, NoRow
<1>2. ASSUME NEW q \in Procs, proc'[q].pc \in Closing PROVE rows'[proc'[q].task.order].status # "none"
  <2>1. ~At(q, "idle") /\ proc'[q].task = proc[q].task /\ rows[OrderOf(q)].status # "none"
    BY <1>2 DEF Known, Found, Closing, At
  <2> QED
    BY <2>1, Busy DEF OrderOf
<1> QED
  BY <1>1, <1>2 DEF Known, Found, OrderOf

LEMMA StepKnown == Inv /\ Known /\ [Next]_vars => Known'
<1> SUFFICES ASSUME Inv, Known, [Next]_vars PROVE Known'
  OBVIOUS
<1>1. CASE Arrival
  <2>1. ASSUME NEW w \in Orders, NEW topic \in Topics, Webhook(w, topic) PROVE Known'
    BY <2>1 DEF Webhook, Known, Blank, Found, OrderOf
  <2>2. ASSUME NEW p \in Procs, NEW w \in Orders, WebhookFallback(p, w) \/ ManualSync(p, w)
        PROVE  Known'
    BY <2>2, KeepsKnown DEF WebhookFallback, ManualSync, Inv, TypeOK, Fresh, Closing
  <2>3. ASSUME NEW p \in Procs, NEW j \in JobIds, RetryEndpoint(p, j) PROVE Known'
    BY <2>3, KeepsKnown DEF RetryEndpoint, Inv, TypeOK, Fresh, Closing
  <2> QED
    BY <1>1, <2>1, <2>2, <2>3 DEF Arrival
<1>2. ASSUME NEW p \in Procs, Start(p) \/ RunJob(p) \/ Crash(p) PROVE Known'
  <2>1. UNCHANGED rows
    BY <1>2 DEF Start, TakeTask, RunJob, RunDueJob, Crash
  <2>2. (\A q \in Procs \ {p} : proc'[q] = proc[q]) /\ proc'[p].pc \in {"idle", "check"}
    BY <1>2, IdleType DEF Start, TakeTask, RunJob, RunDueJob, Crash, Inv, TypeOK, Fresh
  <2> QED
    BY <2>1, <2>2, KeepsKnown DEF Closing
<1>3. ASSUME NEW p \in Procs, Work(p) PROVE Known'
  <2>1. CASE \/ AuthFails(p) \/ CheckSkips(p) \/ FetchFails(p) \/ PrepareFails(p)
             \/ ConfirmSale(p) \/ ConfirmFails(p) \/ InvoiceEscapes(p)
             \/ CommitDuplicate(p) \/ CommitFails(p) \/ HandleErrorRaises(p)
             \/ \E s \in SaleIds : CreateSaleLost(p, s)
    <3>1. UNCHANGED rows
      BY <2>1 DEF AuthFails, CheckSkips, FetchFails, PrepareFails, ConfirmSale, ConfirmFails,
                  InvoiceEscapes, CommitDuplicate, CommitFails, HandleErrorRaises, CreateSaleLost
    <3>2. (\A q \in Procs \ {p} : proc'[q] = proc[q]) /\ proc'[p].pc \notin Closing
      BY <2>1, GotoMoves, RollBackMoves, EndMoves
         DEF AuthFails, CheckSkips, FetchFails, PrepareFails, ConfirmSale, ConfirmFails,
             InvoiceEscapes, CommitDuplicate, CommitFails, HandleErrorRaises, CreateSaleLost,
             PCs, Closing
    <3> QED
      BY <3>1, <3>2, KeepsKnown
  <2>2. CASE \/ CheckProceeds(p) \/ \E s \in SaleIds : CreateSale(p, s)
             \/ \E made \in BOOLEAN : Invoice(p, made)
    <3>1. UNCHANGED rows /\ (\A q \in Procs \ {p} : proc'[q] = proc[q])
          /\ proc'[p].pc \in {"create", "confirm", "commit"}
      BY <2>2 DEF CheckProceeds, CreateSale, Invoice, Inv, TypeOK, Proc
    <3> QED
      BY <3>1, KeepsKnown DEF Closing
  <2>3. ASSUME CommitSynced(p) \/ \E j \in JobIds : HandleError(p, j) PROVE Known'
    <3>1. \A w \in Orders : rows'[w] = rows[w] \/ rows'[w].status # "none"
      BY <2>3 DEF CommitSynced, HandleError, Inv, TypeOK, Row
    <3>2. (\A q \in Procs \ {p} : proc'[q] = proc[q]) /\ proc'[p].pc \notin Closing
      BY <2>3, GotoMoves, EndMoves DEF CommitSynced, HandleError, PCs, Closing
    <3> QED
      BY <3>1, <3>2, KeepsKnown
  <2>4. CASE \/ ResolveJob(p) \/ JobWriteFails(p) \/ DispatchRetry(p) \/ DispatchRetryFails(p)
             \/ \E st \in {"PENDING", "DEAD_LETTER"} : BumpJob(p, st)
    <3>1. UNCHANGED rows /\ (\A q \in Procs \ {p} : proc'[q] = proc[q]) /\ proc'[p].pc = "idle"
      BY <2>4, EndMoves, IdleType
         DEF ResolveJob, JobWriteFails, BumpJob, DispatchRetry, DispatchRetryFails, Inv, TypeOK
    <3> QED
      BY <3>1, KeepsKnown DEF Closing
  <2>5. CASE ReadForCancel(p)
    <3>1. OrderOf(p) \in Orders
      BY <2>5, Busy DEF ReadForCancel, At
    <3>2. CASE rows[OrderOf(p)] = NoRow
      BY <2>5, <3>2, EndMoves, KeepsKnown DEF ReadForCancel, Closing
    <3>3. CASE rows[OrderOf(p)] # NoRow
      <4>1. /\ \A q \in Procs \ {p} : proc'[q] = proc[q]
            /\ proc'[p].task = proc[p].task /\ ~At(p, "idle") /\ UNCHANGED rows
        BY <2>5, <3>3 DEF ReadForCancel, Inv, TypeOK, Proc, At
      <4> QED
        BY <3>1, <3>3, <4>1, KeepsKnown DEF Known, Blank
    <3> QED
      BY <3>2, <3>3
  <2>6. CASE CancelSale(p) \/ CancelSaleFails(p)
    <3>1. /\ \A q \in Procs \ {p} : proc'[q] = proc[q]
          /\ UNCHANGED rows /\ ~At(p, "idle") /\ rows[OrderOf(p)].status # "none"
      BY <2>6, GotoMoves, EndMoves DEF CancelSale, CancelSaleFails, At, Known, Found, Closing, PCs
    <3>2. proc'[p].pc = "idle" \/ proc'[p].task = proc[p].task
      BY <2>6, GotoMoves, EndMoves DEF CancelSale, CancelSaleFails, PCs
    <3> QED
      BY <3>1, <3>2, KeepsKnown DEF Closing
  <2>7. CASE MarkCancelled(p) \/ MarkCancelledFails(p) \/ MarkRefunded(p)
    <3>1. \A w \in Orders : rows'[w] = rows[w] \/ rows'[w].status # "none"
      BY <2>7 DEF MarkCancelled, MarkCancelledFails, MarkRefunded, Inv, TypeOK, Row
    <3>2. (\A q \in Procs \ {p} : proc'[q] = proc[q]) /\ proc'[p].pc = "idle"
      BY <2>7, EndMoves DEF MarkCancelled, MarkCancelledFails, MarkRefunded
    <3> QED
      BY <3>1, <3>2, KeepsKnown DEF Closing
  <2> QED
    BY <1>3, <2>1, <2>2, <2>3, <2>4, <2>5, <2>6, <2>7 DEF Work
<1>4. CASE UNCHANGED vars
  BY <1>4 DEF vars, Known, Blank, Found, OrderOf
<1> QED
  BY <1>1, <1>2, <1>3, <1>4 DEF Next

-----------------------------------------------------------------------------
(* The refinement: every step is a step of the ledger, or no step of it    *)

\* The substitutions of the instance Ledger.
StatusOf == [w \in Orders |-> rows[w].status]
SaleOf   == [w \in Orders |-> rows[w].so]
Owed     == {jobs[j].order : j \in {i \in JobIds : Open(i)}}

LedgerStep == [Ledger!Next]_(Ledger!vars)

\* A step that keeps the mapping's statuses and sale orders and the debts.
LEMMA Stutters ==
  ASSUME \A w \in Orders : rows'[w].status = rows[w].status /\ rows'[w].so = rows[w].so,
         Owed' = Owed
  PROVE  LedgerStep
<1>1. StatusOf' = StatusOf /\ SaleOf' = SaleOf
  BY DEF StatusOf, SaleOf
<1> QED
  BY <1>1 DEF LedgerStep, Ledger!vars, StatusOf, SaleOf, Owed

LEMMA SameJobs == ASSUME UNCHANGED jobs PROVE Owed' = Owed
BY DEF Owed, Open

\* A job row that appears open, or is opened, adds its order to the debts.
LEMMA OwedAdds ==
  ASSUME Inv, NEW j \in JobIds, NEW w \in Orders,
         jobs[j].order \in {None, w},
         jobs'[j].order = w, jobs'[j].status \in {"PENDING", "DEAD_LETTER"},
         \A i \in JobIds \ {j} : jobs'[i] = jobs[i]
  PROVE  Owed' = Owed \cup {w}
<1>1. w # None
  OBVIOUS
<1>2. ASSUME NEW v \in Owed' PROVE v \in Owed \cup {w}
  BY <1>2 DEF Owed, Open
<1>3. ASSUME NEW v \in Owed \cup {w} PROVE v \in Owed'
  BY <1>1, <1>3 DEF Owed, Open
<1> QED
  BY <1>2, <1>3

LEMMA OweStep ==
  ASSUME NEW w \in Orders, UNCHANGED rows, Owed' = Owed \cup {w}
  PROVE  LedgerStep
<1>1. StatusOf' = StatusOf /\ SaleOf' = SaleOf
  BY DEF StatusOf, SaleOf
<1>2. Ledger!Owe(w)
  BY <1>1 DEF Ledger!Owe, StatusOf, SaleOf, Owed
<1> QED
  BY <1>2 DEF LedgerStep, Ledger!Next

LEMMA BookStep ==
  ASSUME Inv, Booked, NEW p \in Procs, CommitSynced(p)
  PROVE  LedgerStep
<1>1. PICK w \in Orders, s \in SaleIds :
          w = OrderOf(p) /\ s = proc[p].sale /\ sales[s].order = w
  BY Busy DEF CommitSynced, At, Booked, HeldBooked, Holds, Holding
<1>2. /\ rows'[w].status = "SYNCED" /\ rows'[w].so = s
      /\ \A v \in Orders \ {w} : rows'[v] = rows[v]
      /\ UNCHANGED jobs
  BY <1>1 DEF CommitSynced, Inv, TypeOK
<1>3. \A v \in Orders \ {w} : rows[v].so # s
  BY <1>1 DEF Booked, RowsBooked
<1>4. StatusOf' = [StatusOf EXCEPT ![w] = "SYNCED"] /\ SaleOf' = [SaleOf EXCEPT ![w] = s]
  BY <1>1, <1>2 DEF StatusOf, SaleOf
<1>5. \A v \in Orders \ {w} : SaleOf[v] # s
  BY <1>3 DEF SaleOf
<1>6. Ledger!Book(w, s)
  BY <1>2, <1>4, <1>5, SameJobs DEF Ledger!Book, StatusOf, SaleOf, Owed
<1> QED
  BY <1>1, <1>6 DEF LedgerStep, Ledger!Next

LEMMA FailStep ==
  ASSUME Inv, NEW p \in Procs, NEW j \in JobIds, HandleError(p, j)
  PROVE  LedgerStep
<1>1. PICK w \in Orders : w = OrderOf(p)
  BY Busy DEF HandleError, At
<1>2. /\ jobs[j].order = None
      /\ jobs'[j].order = w /\ jobs'[j].status = "PENDING"
      /\ \A i \in JobIds \ {j} : jobs'[i] = jobs[i]
  BY <1>1 DEF HandleError, Inv, TypeOK
<1>3. Owed' = Owed \cup {w}
  BY <1>1, <1>2, OwedAdds
<1>4. UNCHANGED rows \/ rows' = [rows EXCEPT ![w].status = "FAILED"]
  BY <1>1 DEF HandleError
<1>5. CASE UNCHANGED rows
  BY <1>1, <1>3, <1>5, OweStep
<1>6. CASE rows' = [rows EXCEPT ![w].status = "FAILED"]
  <2>1. /\ rows'[w].status = "FAILED" /\ rows'[w].so = rows[w].so
        /\ \A v \in Orders \ {w} : rows'[v] = rows[v]
    BY <1>1, <1>6 DEF Inv, TypeOK, Row
  <2>2. StatusOf' = [StatusOf EXCEPT ![w] = "FAILED"] /\ SaleOf' = SaleOf
    BY <1>1, <2>1 DEF StatusOf, SaleOf
  <2>3. Ledger!Fail(w)
    BY <1>3, <2>2 DEF Ledger!Fail, StatusOf, SaleOf, Owed
  <2> QED
    BY <1>1, <2>3 DEF LedgerStep, Ledger!Next
<1> QED
  BY <1>4, <1>5, <1>6

\* A job is resolved: its order is not failed, or is owed another retry.
LEMMA ForgiveStep ==
  ASSUME Inv, NoLostFailure, NEW p \in Procs, ResolveJob(p)
  PROVE  LedgerStep
<1>1. At(p, "resolve") /\ UNCHANGED rows
  BY DEF ResolveJob
<1>2. PICK w \in Orders, j \in JobIds : w = OrderOf(p) /\ j = JobOf(p) /\ jobs[j].order = w
  BY <1>1, Busy DEF Inv, Linked, At
<1>3. UNCHANGED jobs \/ jobs' = [jobs EXCEPT ![j].status = "RESOLVED"]
  BY <1>2 DEF ResolveJob
<1>4. CASE UNCHANGED jobs
  BY <1>1, <1>4, SameJobs, Stutters
<1>5. CASE jobs' = [jobs EXCEPT ![j].status = "RESOLVED"]
  <2>1. /\ jobs'[j].order = w /\ jobs'[j].status = "RESOLVED"
        /\ \A i \in JobIds \ {j} : jobs'[i] = jobs[i]
    BY <1>2, <1>5 DEF Inv, TypeOK, Job
  <2>2. CASE \E i \in JobIds \ {j} : jobs[i].order = w /\ Open(i)
    <3>1. ASSUME NEW v \in Owed PROVE v \in Owed'
      BY <1>2, <2>1, <2>2, <3>1 DEF Owed, Open
    <3>2. ASSUME NEW v \in Owed' PROVE v \in Owed
      BY <2>1, <3>2 DEF Owed, Open
    <3> QED
      BY <1>1, <3>1, <3>2, Stutters
  <2>3. CASE ~\E i \in JobIds \ {j} : jobs[i].order = w /\ Open(i)
    <3>1. rows[w].status # "FAILED"
      BY <1>1, <1>2, <2>3 DEF NoLostFailure
    <3>2. ASSUME NEW v \in Owed \ {w} PROVE v \in Owed'
      BY <1>2, <2>1, <3>2 DEF Owed, Open
    <3>3. ASSUME NEW v \in Owed' PROVE v \in Owed \ {w}
      BY <2>1, <2>3, <3>3 DEF Owed, Open
    <3>4. Owed' = Owed \ {w}
      BY <3>2, <3>3
    <3>5. StatusOf' = StatusOf /\ SaleOf' = SaleOf /\ StatusOf[w] # "FAILED"
      BY <1>1, <1>2, <3>1 DEF StatusOf, SaleOf
    <3>6. Ledger!Forgive(w)
      BY <3>4, <3>5 DEF Ledger!Forgive, StatusOf, SaleOf, Owed
    <3> QED
      BY <1>2, <3>6 DEF LedgerStep, Ledger!Next
  <2> QED
    BY <2>2, <2>3
<1> QED
  BY <1>3, <1>4, <1>5

\* A job is written open again, or left alone.
LEMMA ReopenStep ==
  ASSUME Inv, NEW p \in Procs,
         DispatchRetryFails(p) \/ \E st \in {"PENDING", "DEAD_LETTER"} : BumpJob(p, st)
  PROVE  LedgerStep
<1>1. UNCHANGED rows
  BY DEF DispatchRetryFails, BumpJob
<1>2. PICK w \in Orders, j \in JobIds : w = OrderOf(p) /\ j = JobOf(p) /\ jobs[j].order = w
  BY Busy DEF DispatchRetryFails, BumpJob, Inv, Linked, JobRef, At, OrderOf, JobOf, IsRetry
<1>3. UNCHANGED jobs \/ \E st \in {"PENDING", "DEAD_LETTER"} : jobs' = [jobs EXCEPT ![j].status = st]
  BY <1>2 DEF DispatchRetryFails, BumpJob, JobOf
<1>4. CASE UNCHANGED jobs
  BY <1>1, <1>4, SameJobs, Stutters
<1>5. ASSUME NEW st \in {"PENDING", "DEAD_LETTER"}, jobs' = [jobs EXCEPT ![j].status = st]
      PROVE  LedgerStep
  <2>1. /\ jobs'[j].order = w /\ jobs'[j].status = st
        /\ \A i \in JobIds \ {j} : jobs'[i] = jobs[i]
    BY <1>2, <1>5 DEF Inv, TypeOK, Job
  <2>2. Owed' = Owed \cup {w}
    BY <1>2, <2>1, OwedAdds
  <2> QED
    BY <1>1, <1>2, <2>2, OweStep
<1> QED
  BY <1>3, <1>4, <1>5

LEMMA CloseStep ==
  ASSUME Inv, Known, NEW p \in Procs, MarkCancelled(p) \/ MarkRefunded(p)
  PROVE  LedgerStep
<1>1. PICK w \in Orders : w = OrderOf(p)
  BY Busy DEF MarkCancelled, MarkRefunded, At
<1>2. UNCHANGED jobs
  BY DEF MarkCancelled, MarkRefunded
<1>3. \/ UNCHANGED rows
      \/ /\ rows[w].status # "none"
         /\ \E st \in {"CANCELLED", "REFUNDED"} : rows' = [rows EXCEPT ![w].status = st]
  BY <1>1 DEF MarkCancelled, MarkRefunded, At, Known, Found, Blank, Closing
<1>4. CASE UNCHANGED rows
  BY <1>2, <1>4, SameJobs, Stutters
<1>5. ASSUME rows[w].status # "none", NEW st \in {"CANCELLED", "REFUNDED"},
             rows' = [rows EXCEPT ![w].status = st]
      PROVE  LedgerStep
  <2>1. /\ rows'[w].status = st /\ rows'[w].so = rows[w].so
        /\ \A v \in Orders \ {w} : rows'[v] = rows[v]
    BY <1>1, <1>5 DEF Inv, TypeOK, Row
  <2>2. StatusOf' = [StatusOf EXCEPT ![w] = st] /\ SaleOf' = SaleOf
    BY <1>1, <2>1 DEF StatusOf, SaleOf
  <2>3. StatusOf[w] # "none"
    BY <1>1, <1>5 DEF StatusOf
  <2>4. Ledger!Close(w, st)
    BY <1>2, <2>2, <2>3, SameJobs DEF Ledger!Close, StatusOf, SaleOf, Owed
  <2> QED
    BY <1>1, <2>4 DEF LedgerStep, Ledger!Next
<1> QED
  BY <1>3, <1>4, <1>5

\* Steps that write neither the mapping nor a job.
LEMMA QuietStep ==
  ASSUME UNCHANGED <<rows, jobs>>
  PROVE  LedgerStep
BY SameJobs, Stutters

LEMMA NextStep ==
  ASSUME Inv, NoLostFailure, Booked, Known, [Next]_vars
  PROVE  LedgerStep
<1>1. CASE Arrival
  BY <1>1, QuietStep DEF Arrival, Webhook, WebhookFallback, ManualSync, RetryEndpoint
<1>2. ASSUME NEW p \in Procs, Start(p) \/ RunJob(p) \/ Crash(p) PROVE LedgerStep
  BY <1>2, QuietStep DEF Start, TakeTask, RunJob, RunDueJob, Crash
<1>3. ASSUME NEW p \in Procs, Work(p) PROVE LedgerStep
  <2>1. CASE \/ AuthFails(p) \/ CheckSkips(p) \/ CheckProceeds(p) \/ FetchFails(p)
             \/ PrepareFails(p) \/ ConfirmSale(p) \/ ConfirmFails(p) \/ InvoiceEscapes(p)
             \/ \E s \in SaleIds : CreateSale(p, s) \/ CreateSaleLost(p, s)
             \/ \E made \in BOOLEAN : Invoice(p, made)
             \/ CommitDuplicate(p) \/ CommitFails(p) \/ HandleErrorRaises(p)
    BY <2>1, QuietStep
       DEF AuthFails, CheckSkips, CheckProceeds, FetchFails, PrepareFails, CreateSale,
           CreateSaleLost, ConfirmSale, ConfirmFails, Invoice, InvoiceEscapes,
           CommitDuplicate, CommitFails, HandleErrorRaises
  <2>2. CASE \/ JobWriteFails(p) \/ DispatchRetry(p) \/ ReadForCancel(p) \/ CancelSale(p)
             \/ CancelSaleFails(p) \/ MarkCancelledFails(p)
    BY <2>2, QuietStep
       DEF JobWriteFails, DispatchRetry, ReadForCancel, CancelSale, CancelSaleFails,
           MarkCancelledFails
  <2>3. CASE CommitSynced(p) \/ \E j \in JobIds : HandleError(p, j)
    BY <2>3, BookStep, FailStep
  <2>4. CASE \/ ResolveJob(p) \/ DispatchRetryFails(p)
             \/ \E st \in {"PENDING", "DEAD_LETTER"} : BumpJob(p, st)
    BY <2>4, ForgiveStep, ReopenStep
  <2>5. CASE MarkCancelled(p) \/ MarkRefunded(p)
    BY <2>5, CloseStep
  <2> QED
    BY <1>3, <2>1, <2>2, <2>3, <2>4, <2>5 DEF Work
<1>4. CASE UNCHANGED vars
  BY <1>4, QuietStep DEF vars
<1> QED
  BY <1>1, <1>2, <1>3, <1>4 DEF Next

\* The mapping table and the failed_jobs table behave as the ledger: a failure and
\* its debt appear together, a debt is forgiven only when the order is not failed,
\* and no sale order is booked for two WooCommerce orders.
THEOREM LedgerImplemented == Spec => LedgerSpec
<1>1. Init => Known
  BY IdleType DEF Init, Known, Blank, Found, Closing
<1>2. Init => Ledger!Init
  <2> SUFFICES ASSUME Init PROVE Ledger!Init
    OBVIOUS
  <2>1. Owed = {}
    BY DEF Init, Owed, Open, NoJob
  <2>2. StatusOf = [w \in Orders |-> "none"] /\ SaleOf = [w \in Orders |-> None]
    BY DEF Init, StatusOf, SaleOf, NoRow
  <2> QED
    BY <2>1, <2>2 DEF Ledger!Init, StatusOf, SaleOf, Owed
<1>3. Inv /\ NoLostFailure /\ Booked /\ Known /\ [Next]_vars => [Ledger!Next]_(Ledger!vars)
  BY NextStep DEF LedgerStep
<1> QED
  BY <1>1, <1>2, <1>3, InvHolds, FailureNeverLost, BookedHolds, StepKnown, PTL
     DEF Spec, LedgerSpec, Ledger!Spec
=============================================================================
