-------------------------- MODULE OrderTeamsProofs --------------------------
(***************************************************************************)
(* What one process guarantees (MCOrderTeams), for any number of orders,   *)
(* sale orders, jobs, webhooks, faults and crashes.                        *)
(*                                                                         *)
(* InStep(q): the process acts on the row as it read it, since nobody else *)
(* wrote to it.  Adrift: the sale orders that Odoo would deliver and that  *)
(* are neither SYNCED nor on their way to be.  Every step adds one of them *)
(* at most, and only if a fault or a crash is counted with it.             *)
(***************************************************************************)
EXTENDS OrderSyncProofs, MCOrderTeams, FiniteSetTheorems

USE OrderSyncAssumption

\* q is the only process that works.
Solo(q) == \A p \in Procs \ {q} : At(p, "idle")

Attempt == {"create", "confirm", "invoice", "commit", "error"}

\* The row that the process, x, has read is the row of its order.
ReadsTrue(x, table) ==
    /\ x.pc \in Attempt \cup {"action_cancel", "mark_cancelled"} => table[x.task.order] = x.seen
    /\ x.pc \in Attempt => x.seen.status # "SYNCED"
InStep(q) == ReadsTrue(proc[q], rows)

\* Nobody asks for a refund.
NoRefund ==
    /\ \A t \in queue : t.kind # "refunded"
    /\ \A p \in Procs : proc[p].task.kind # "refunded"

-----------------------------------------------------------------------------
(* Steps of one process                                                    *)

LEMMA GotoFields ==
  ASSUME Inv, NEW q \in Procs, NEW pc \in PCs, Goto(q, pc)
  PROVE  /\ proc'[q].pc = pc /\ UNCHANGED queue
         /\ \A f \in {"task", "seen", "sale", "billed"} : proc'[q][f] = proc[q][f]
BY DEF Goto, Inv, TypeOK, Proc

LEMMA RollBackFields ==
  ASSUME Inv, NEW q \in Procs, RollBack(q)
  PROVE  /\ proc'[q].pc = "error" /\ UNCHANGED queue
         /\ \A f \in {"task", "seen", "sale", "billed"} : proc'[q][f] = proc[q][f]
BY DEF RollBack, Inv, TypeOK, Proc

LEMMA FinishFields ==
  ASSUME Inv, NEW q \in Procs, Finish(q)
  PROVE  proc'[q] = Idle /\ UNCHANGED queue
BY DEF Finish, Inv, TypeOK

LEMMA RaiseFields ==
  ASSUME Inv, NEW q \in Procs, Raise(q)
  PROVE  /\ proc'[q] = Idle
         /\ \A t \in queue' : t \in queue \/ t.kind = proc[q].task.kind
<1> DEFINE t == proc[q].task
<1>1. CASE t.kind \in CeleryKinds \ RetryKinds /\ t.tries < MaxTries
  BY <1>1 DEF Raise, Inv, TypeOK, Proc, Task
<1>2. CASE ~(t.kind \in CeleryKinds \ RetryKinds /\ t.tries < MaxTries)
  BY <1>2, FinishFields DEF Raise
<1> QED
  BY <1>1, <1>2

LEMMA IdleFields == Idle.pc = "idle" /\ Idle.task.kind = "none" /\ Idle.sale = None
BY DEF Idle, Fresh, NoTask

\* With one process a step that begins work, or does it, is a step of q.
Begins(q) ==
    /\ At(q, "idle") /\ proc'[q].pc \in {"check", "dispatch"}
    /\ UNCHANGED <<rows, sales, crashes>> /\ faults' \in {faults, faults + 1}
LEMMA SoloStep ==
  ASSUME Inv, NEW q \in Procs, Solo(q), Solo(q)', [Next]_vars
  PROVE  \/ UNCHANGED <<rows, sales, jobs, proc, faults, crashes>>
         \/ Begins(q) \/ Work(q) \/ Crash(q)
<1>1. ASSUME NEW p \in Procs, NEW t, NEW st, NEW pc \in {"check", "dispatch"}, At(p, "idle"),
             proc' = [proc EXCEPT ![p] = Fresh(pc, t, st)]
      PROVE  p = q /\ At(q, "idle") /\ proc'[q].pc \in {"check", "dispatch"}
  BY <1>1 DEF Solo, At, Fresh, Inv, TypeOK
<1>2. ASSUME NEW p \in Procs, Work(p) \/ Crash(p) PROVE p = q
  <2>1. ~At(p, "idle")
    BY <1>2 DEF Crash, Work, At, AuthFails, CheckSkips, CheckProceeds, FetchFails, PrepareFails,
         CreateSale, CreateSaleLost, NewSale, ConfirmSale, ConfirmFails, Invoice, InvoiceEscapes,
         CommitSynced, CommitDuplicate, CommitFails, HandleError, HandleErrorRaises, ResolveJob,
         JobWriteFails, BumpJob, ReadForCancel, CancelSale, CancelSaleFails, MarkCancelled,
         MarkCancelledFails, MarkRefunded, DispatchRetry, DispatchRetryFails
  <2> QED
    BY <2>1 DEF Solo
<1>3. ASSUME NEW p \in Procs, Start(p) \/ RunJob(p) PROVE Begins(q)
  BY <1>1, <1>3 DEF Start, RunJob, TakeTask, RunDueJob, At, Begins
<1>4. CASE Arrival
  <2>1. ASSUME NEW w \in Orders, NEW topic \in Topics, Webhook(w, topic)
        PROVE  UNCHANGED <<rows, sales, jobs, proc, faults, crashes>>
    BY <2>1 DEF Webhook
  <2>2. ASSUME NEW p \in Procs, NEW w \in Orders, WebhookFallback(p, w) \/ ManualSync(p, w)
        PROVE  Begins(q)
    BY <1>1, <2>2 DEF WebhookFallback, ManualSync, At, Begins, Fault
  <2>3. ASSUME NEW p \in Procs, NEW j \in JobIds, RetryEndpoint(p, j) PROVE Begins(q)
    BY <1>1, <2>3 DEF RetryEndpoint, At, Begins
  <2> QED
    BY <1>4, <2>1, <2>2, <2>3 DEF Arrival
<1> QED
  BY <1>2, <1>3, <1>4 DEF Next, vars
-----------------------------------------------------------------------------
(* The process acts on the row that it read                                *)

Steady(x, y) == /\ y.task = x.task /\ y.seen = x.seen
                /\ y.pc \in Attempt => x.pc \in Attempt
                /\ y.pc \in {"action_cancel", "mark_cancelled"} => x.pc \in {"action_cancel", "mark_cancelled"}

LEMMA SteadyReads ==
  ASSUME NEW x, NEW y, NEW table, ReadsTrue(x, table), Steady(x, y)
  PROVE  ReadsTrue(y, table)
BY DEF ReadsTrue, Steady, Attempt

LEMMA RestReads ==
  ASSUME NEW y, NEW table, y.pc \in {"idle", "check", "dispatch", "resolve", "bump"}
  PROVE  ReadsTrue(y, table)
BY DEF ReadsTrue, Attempt

LEMMA WorkInStep ==
  ASSUME Inv, NEW q \in Procs, InStep(q), Work(q)
  PROVE  InStep(q)'
<1> DEFINE x == proc[q]
           y == proc'[q]
<1>1. ASSUME NEW pc \in PCs, Goto(q, pc), UNCHANGED rows,
             \/ pc \in {"resolve", "bump"} \/ (pc = "error" /\ x.pc \in Attempt)
             \/ (pc \in {"confirm", "invoice", "commit"} /\ x.pc \in Attempt)
             \/ (pc = "mark_cancelled" /\ x.pc = "action_cancel")
      PROVE  InStep(q)'
  <2>1. y.pc = pc /\ y.task = x.task /\ y.seen = x.seen
    BY <1>1, GotoFields
  <2> QED
    BY <1>1, <2>1, SteadyReads, RestReads DEF InStep, Steady, Attempt
<1>2. ASSUME Finish(q) \/ Raise(q) \/ proc' = [proc EXCEPT ![q] = Idle] PROVE InStep(q)'
  <2>1. y.pc = "idle"
    BY <1>2, FinishFields, RaiseFields, IdleFields DEF Inv, TypeOK
  <2> QED
    BY <2>1, RestReads DEF InStep
<1>3. ASSUME RollBack(q), UNCHANGED rows, x.pc \in Attempt PROVE InStep(q)'
  <2>1. y.pc = "error" /\ y.task = x.task /\ y.seen = x.seen
    BY <1>3, RollBackFields
  <2> QED
    BY <1>3, <2>1, SteadyReads DEF InStep, Steady, Attempt
<1>4. ASSUME NEW pc \in {"resolve", "bump"}, Goto(q, pc) PROVE InStep(q)'
  <2>1. y.pc = pc
    BY <1>4, GotoFields DEF PCs
  <2> QED
    BY <2>1, RestReads DEF InStep
<1>5. CASE AuthFails(q) \/ CheckSkips(q) \/ ResolveJob(q) \/ JobWriteFails(q)
           \/ (\E st \in {"PENDING", "DEAD_LETTER"} : BumpJob(q, st))
           \/ MarkCancelled(q) \/ MarkCancelledFails(q) \/ MarkRefunded(q)
           \/ DispatchRetry(q) \/ DispatchRetryFails(q)
           \/ CommitSynced(q) \/ (\E j \in JobIds : HandleError(q, j)) \/ HandleErrorRaises(q)
  BY <1>2, <1>4, <1>5 DEF AuthFails, CheckSkips, ResolveJob, JobWriteFails, BumpJob, MarkCancelled,
     MarkCancelledFails, MarkRefunded, DispatchRetry, DispatchRetryFails, CommitSynced, HandleError,
     HandleErrorRaises
<1>6. CASE PrepareFails(q) \/ (\E s \in SaleIds : CreateSaleLost(q, s)) \/ ConfirmFails(q)
           \/ InvoiceEscapes(q) \/ CommitDuplicate(q) \/ CommitFails(q)
  BY <1>3, <1>6 DEF PrepareFails, CreateSaleLost, NewSale, ConfirmFails, InvoiceEscapes,
     CommitDuplicate, CommitFails, At, Attempt
<1>7. CASE FetchFails(q) \/ ConfirmSale(q) \/ CancelSale(q) \/ CancelSaleFails(q)
  BY <1>1, <1>2, <1>7 DEF FetchFails, ConfirmSale, CancelSale, CancelSaleFails, At, Attempt, PCs
<1>8. CASE CheckProceeds(q) \/ ReadForCancel(q)
  <2>1. CASE Finish(q)
    BY <1>2, <2>1
  <2>2. CASE ~Finish(q)
    BY <1>8, <2>2 DEF CheckProceeds, ReadForCancel, InStep, ReadsTrue, Attempt, OrderOf, Inv, TypeOK, Proc
  <2> QED
    BY <2>1, <2>2
<1>9. CASE (\E s \in SaleIds : CreateSale(q, s)) \/ (\E made \in BOOLEAN : Invoice(q, made))
  BY <1>9 DEF CreateSale, NewSale, Invoice, InStep, ReadsTrue, Attempt, At, Inv, TypeOK, Proc
<1> QED
  BY <1>5, <1>6, <1>7, <1>8, <1>9 DEF Work

LEMMA NextInStep ==
  ASSUME Inv, NEW q \in Procs, Solo(q), Solo(q)', InStep(q), [Next]_vars
  PROVE  InStep(q)'
<1>1. CASE UNCHANGED <<rows, proc>>
  BY <1>1 DEF InStep
<1>2. CASE Begins(q)
  BY <1>2, RestReads DEF Begins, InStep
<1>3. CASE Crash(q)
  BY <1>3, RestReads, IdleFields DEF Crash, InStep, Inv, TypeOK
<1> QED
  BY <1>1, <1>2, <1>3, WorkInStep, SoloStep

\* A process that has the broker and the shop to itself writes only rows that are
\* not SYNCED, but for a cancellation or a refund.
LEMMA KeepsSynced ==
  ASSUME Inv, NEW q \in Procs, Solo(q), Solo(q)', InStep(q), [Next]_vars
  PROVE  SyncedKept
<1> SUFFICES ASSUME NEW w \in Orders, rows[w].status = "SYNCED"
             PROVE  rows'[w] \in {[rows[w] EXCEPT !.status = st] :
                                     st \in {"SYNCED", "CANCELLED", "REFUNDED"}}
  BY DEF SyncedKept
<1>1. rows[w] \in Row /\ rows[w] = [rows[w] EXCEPT !.status = "SYNCED"]
  BY DEF Inv, TypeOK, Row
<1>2. CASE UNCHANGED rows
  BY <1>1, <1>2
<1>3. CASE CommitSynced(q) \/ \E j \in JobIds : HandleError(q, j)
  <2>1. OrderOf(q) # w
    BY <1>3 DEF CommitSynced, HandleError, At, InStep, ReadsTrue, Attempt, OrderOf
  <2>2. rows'[w] = rows[w]
    BY <1>3, <2>1 DEF CommitSynced, HandleError, Inv, TypeOK
  <2> QED
    BY <1>1, <2>2
<1>4. CASE MarkCancelled(q) \/ MarkRefunded(q)
  BY <1>1, <1>4 DEF MarkCancelled, MarkRefunded, Inv, TypeOK
<1>5. CASE Begins(q) \/ Crash(q)
  BY <1>2, <1>5 DEF Begins, Crash
<1>6. CASE Work(q)
  BY <1>2, <1>3, <1>4, <1>6 DEF Work, AuthFails, CheckSkips, CheckProceeds, FetchFails, PrepareFails,
     CreateSale, CreateSaleLost, ConfirmSale, ConfirmFails, Invoice, InvoiceEscapes,
     CommitDuplicate, CommitFails, HandleErrorRaises, ResolveJob, JobWriteFails, BumpJob,
     ReadForCancel, CancelSale, CancelSaleFails, MarkCancelledFails, DispatchRetry, DispatchRetryFails
<1> QED
  BY <1>2, <1>5, <1>6, SoloStep

-----------------------------------------------------------------------------
(* A team of one                                                           *)

TeamInv == Inv /\ \A q \in Procs : team = {q} => Solo(q) /\ InStep(q)

LEMMA TeamInit == MCInit => TeamInv
<1> SUFFICES ASSUME Init PROVE Inv /\ \A q \in Procs : Solo(q) /\ InStep(q)
  BY DEF MCInit, TeamInv
<1> QED
  BY InitInv, IdleFields, RestReads DEF Init, Solo, InStep, At

LEMMA TeamStep ==
  TeamInv /\ [MCNext]_teamVars =>
      /\ TeamInv' /\ UNCHANGED team
      /\ \A q \in Procs : team = {q} => Solo(q)'
<1> SUFFICES ASSUME TeamInv, [MCNext]_teamVars
             PROVE  /\ Inv' /\ UNCHANGED team
                    /\ \A q \in Procs : team = {q} => Solo(q)' /\ InStep(q)'
  BY DEF TeamInv
<1>1. [Next]_vars /\ UNCHANGED team
  BY DEF MCNext, Member, teamVars
<1>2. Inv'
  BY <1>1, StepInv DEF TeamInv
<1>3. ASSUME NEW q \in Procs, team = {q} PROVE Solo(q)'
  BY <1>3 DEF MCNext, Member, teamVars, Solo, At, TeamInv, vars
<1> QED
  BY <1>1, <1>2, <1>3, NextInStep DEF TeamInv

\* With one process, an order that became SYNCED keeps its sale order and invoice
\* until it is cancelled or refunded: sync_order and _handle_order_error act on
\* the row as they read it at the idempotency check.
THEOREM SyncedStays == MCSpec => AloneSyncedIsFinal
<1>1. TeamInv /\ [MCNext]_teamVars => [Alone => SyncedKept]_rows
  <2> SUFFICES ASSUME TeamInv, [MCNext]_teamVars, NEW q \in Procs, team = {q} PROVE [SyncedKept]_rows
    BY DEF Alone
  <2>1. [Next]_vars
    BY DEF MCNext, teamVars
  <2> QED
    BY <2>1, TeamStep, KeepsSynced DEF TeamInv
<1>2. TeamInv /\ [MCNext]_teamVars => TeamInv'
  BY TeamStep
<1> QED
  BY <1>1, <1>2, TeamInit, PTL DEF MCSpec, AloneSyncedIsFinal
-----------------------------------------------------------------------------
(* Every stray sale order is explained                                     *)

\* The sale order that is safe with process x: it will be the mapping's.
Keeps(x, s) == x.sale = s /\ x.pc \in {"confirm", "invoice", "commit"}
\* The sale order of w that is safe in the table: x is not giving it up.
Stands(x, w, s, table) ==
    /\ s = table[w].so /\ table[w].status = "SYNCED"
    /\ ~(x.pc = "mark_cancelled" /\ x.task.order = w)
Adrift(x, w, table, odoo) ==
    {s \in SaleIds : /\ odoo[s].order = w /\ odoo[s].state # "cancel"
                     /\ ~Keeps(x, s) /\ ~Stands(x, w, s, table)}

\* As many as there were faults and crashes.
Budget(q) ==
    \A w \in Orders :
        /\ IsFiniteSet(Adrift(proc[q], w, rows, sales))
        /\ Cardinality(Adrift(proc[q], w, rows, sales)) <= faults + crashes

\* A step of q sets adrift nothing, or one sale order with the fault or crash
\* that explains it.
Drifts(q, lost) ==
    \A w \in Orders : Adrift(proc[q], w, rows, sales)' \subseteq Adrift(proc[q], w, rows, sales) \cup lost
NotFewer == faults' \in Nat /\ crashes' \in Nat /\ faults' + crashes' >= faults + crashes
OneMore  == faults' \in Nat /\ crashes' \in Nat /\ faults' + crashes' >= faults + crashes + 1

LEMMA DriftsNothing ==
  ASSUME Inv, NEW q \in Procs, Budget(q), Drifts(q, {}), NotFewer
  PROVE  Budget(q)'
<1> SUFFICES ASSUME NEW w \in Orders
             PROVE  /\ IsFiniteSet(Adrift(proc[q], w, rows, sales)')
                    /\ Cardinality(Adrift(proc[q], w, rows, sales)') <= faults' + crashes'
  BY DEF Budget
<1> DEFINE A == Adrift(proc[q], w, rows, sales)
           B == Adrift(proc[q], w, rows, sales)'
<1>1. IsFiniteSet(A) /\ Cardinality(A) <= faults + crashes /\ B \in SUBSET A
  BY DEF Budget, Drifts
<1> HIDE DEF A, B
<1>2. IsFiniteSet(B) /\ Cardinality(B) <= Cardinality(A) /\ Cardinality(B) \in Nat /\ Cardinality(A) \in Nat
  <2>1. IsFiniteSet(B) /\ Cardinality(B) <= Cardinality(A)
    BY <1>1, FS_Subset
  <2> QED
    BY <1>1, <2>1, FS_CardinalityType
<1>3. PICK f \in Nat, c \in Nat : f = faults' /\ c = crashes'
  BY DEF NotFewer
<1>4. f + c >= faults + crashes
  BY <1>3 DEF NotFewer
<1>5. Cardinality(B) <= f + c
  BY <1>1, <1>2, <1>4 DEF Inv, TypeOK
<1>6. Cardinality(B) <= faults' + crashes'
  BY <1>3, <1>5
<1> QED
  BY <1>2, <1>6 DEF B

LEMMA DriftsOne ==
  ASSUME Inv, NEW q \in Procs, Budget(q), NEW s, Drifts(q, {s}), OneMore
  PROVE  Budget(q)'
<1> SUFFICES ASSUME NEW w \in Orders
             PROVE  /\ IsFiniteSet(Adrift(proc[q], w, rows, sales)')
                    /\ Cardinality(Adrift(proc[q], w, rows, sales)') <= faults' + crashes'
  BY DEF Budget
<1> DEFINE A == Adrift(proc[q], w, rows, sales)
           B == Adrift(proc[q], w, rows, sales)'
<1>1. IsFiniteSet(A) /\ Cardinality(A) <= faults + crashes /\ B \subseteq A \cup {s}
  BY DEF Budget, Drifts
<1> HIDE DEF A, B
<1>2. /\ IsFiniteSet(A \cup {s}) /\ Cardinality(A) \in Nat
      /\ Cardinality(A \cup {s}) \in {Cardinality(A), Cardinality(A) + 1}
  <2>1. Cardinality(A) \in Nat
    BY <1>1, FS_CardinalityType
  <2>2. IsFiniteSet(A \cup {s}) /\ Cardinality(A \cup {s}) = IF s \in A THEN Cardinality(A) ELSE Cardinality(A) + 1
    BY <1>1, FS_AddElement
  <2> QED
    BY <2>1, <2>2
<1>3. /\ IsFiniteSet(B) /\ Cardinality(B) <= Cardinality(A \cup {s})
      /\ Cardinality(B) \in Nat
  <2>1. B \in SUBSET (A \cup {s})
    BY <1>1
  <2>2. IsFiniteSet(B) /\ Cardinality(B) <= Cardinality(A \cup {s})
    BY <1>2, <2>1, FS_Subset
  <2> QED
    BY <2>2, FS_CardinalityType
<1>4. Cardinality(B) <= faults' + crashes'
  BY <1>1, <1>2, <1>3 DEF NotFewer, OneMore, Inv, TypeOK
<1> QED
  BY <1>3, <1>4 DEF B

\* A step that leaves Odoo and the table alone: the process lets go of what it
\* kept only if it fails, and gives up the mapping's sale order only after that
\* was cancelled or could not be.
LEMMA MovesDrift ==
  ASSUME NEW q \in Procs, UNCHANGED <<rows, sales>>,
         NEW lost, \A s : Keeps(proc[q], s) => Keeps(proc'[q], s) \/ s \in lost,
         \/ proc'[q].pc # "mark_cancelled"
         \/ rows[proc'[q].task.order].so \in lost \cup {None}
         \/ proc[q].pc = "mark_cancelled" /\ proc[q].task.order = proc'[q].task.order
  PROVE  Drifts(q, lost)
BY DEF Drifts, Adrift, Stands

LEMMA NoCount == ASSUME Inv, UNCHANGED <<faults, crashes>> PROVE NotFewer
BY DEF NotFewer, OneMore, Inv, TypeOK

LEMMA FaultCounts == ASSUME Inv, Fault, UNCHANGED crashes PROVE NotFewer /\ OneMore
BY DEF NotFewer, OneMore, Inv, TypeOK, Fault

\* The process ends its task, or goes on, with nothing in its hands.
LEMMA RestDrift ==
  ASSUME Inv, NEW q \in Procs, Budget(q), UNCHANGED <<rows, sales>>, NotFewer,
         proc[q].pc \notin {"confirm", "invoice", "commit"}, proc'[q].pc # "mark_cancelled"
  PROVE  Budget(q)'
<1>1. Drifts(q, {})
  BY MovesDrift DEF Keeps
<1> QED
  BY <1>1, DriftsNothing

\* It drops what it had, after a fault or by a crash.
LEMMA FailDrift ==
  ASSUME Inv, NEW q \in Procs, Budget(q), UNCHANGED <<rows, sales>>, OneMore,
         proc'[q].pc # "mark_cancelled"
  PROVE  Budget(q)'
<1>1. Drifts(q, {proc[q].sale})
  BY MovesDrift DEF Keeps
<1> QED
  BY <1>1, DriftsOne

\* The steps of an attempt: create, confirm and invoice the sale order.
LEMMA AttemptDrift ==
  ASSUME Inv, NEW q \in Procs, Budget(q), InStep(q),
         \/ AuthFails(q) \/ CheckSkips(q) \/ CheckProceeds(q) \/ FetchFails(q) \/ PrepareFails(q)
         \/ \E s \in SaleIds : CreateSale(q, s) \/ CreateSaleLost(q, s)
         \/ ConfirmSale(q) \/ ConfirmFails(q)
         \/ \E made \in BOOLEAN : Invoice(q, made)
         \/ InvoiceEscapes(q)
  PROVE  Budget(q)'
<1> DEFINE x == proc[q]
           y == proc'[q]
<1>1. CASE AuthFails(q) \/ CheckSkips(q) \/ CheckProceeds(q) \/ FetchFails(q) \/ PrepareFails(q)
  <2>1. UNCHANGED <<rows, sales, crashes>> /\ x.pc \in {"check", "create"}
    BY <1>1 DEF AuthFails, CheckSkips, CheckProceeds, FetchFails, PrepareFails, At
  <2>2. Fault \/ UNCHANGED faults
    BY <1>1 DEF AuthFails, CheckSkips, CheckProceeds, FetchFails, PrepareFails
  <2>3. y.pc \in {"bump", "idle", "resolve", "create", "error"}
    BY <1>1, GotoFields, FinishFields, RaiseFields, RollBackFields, IdleFields
       DEF AuthFails, CheckSkips, CheckProceeds, FetchFails, PrepareFails, Inv, TypeOK, Proc, PCs
  <2> QED
    BY <2>1, <2>2, <2>3, RestDrift, FaultCounts, NoCount
<1>2. ASSUME NEW s \in SaleIds, CreateSale(q, s) PROVE Budget(q)'
  <2>1. /\ sales' = [sales EXCEPT ![s] = [order |-> OrderOf(q), state |-> "draft"]]
        /\ x.pc = "create" /\ y.pc = "confirm" /\ y.sale = s
        /\ UNCHANGED <<rows, faults, crashes>>
    BY <1>2 DEF CreateSale, NewSale, At, Inv, TypeOK, Proc
  <2>2. Drifts(q, {})
    BY <2>1 DEF Drifts, Adrift, Keeps, Stands, Inv, TypeOK
  <2> QED
    BY <2>1, <2>2, NoCount, DriftsNothing
<1>3. ASSUME NEW s \in SaleIds, CreateSaleLost(q, s) PROVE Budget(q)'
  <2>1. /\ sales' = [sales EXCEPT ![s] = [order |-> OrderOf(q), state |-> "draft"]]
        /\ x.pc = "create" /\ Fault /\ UNCHANGED <<rows, crashes>>
    BY <1>3 DEF CreateSaleLost, NewSale, At
  <2>2. y.pc = "error"
    BY <1>3, RollBackFields DEF CreateSaleLost
  <2>3. Drifts(q, {s})
    BY <2>1, <2>2 DEF Drifts, Adrift, Keeps, Stands, Inv, TypeOK
  <2> QED
    BY <2>1, <2>3, FaultCounts, DriftsOne
<1>4. CASE ConfirmSale(q)
  <2>1. /\ sales' = [sales EXCEPT ![x.sale].state = "sale"]
        /\ x.pc = "confirm" /\ UNCHANGED <<rows, faults, crashes>>
    BY <1>4 DEF ConfirmSale, At
  <2>2. y.pc = "invoice" /\ y.sale = x.sale
    BY <1>4, GotoFields DEF ConfirmSale, PCs
  <2>3. Drifts(q, {})
    BY <2>1, <2>2 DEF Drifts, Adrift, Keeps, Stands, Inv, TypeOK, Sale
  <2> QED
    BY <2>1, <2>3, NoCount, DriftsNothing
<1>5. CASE ConfirmFails(q)
  <2>1. PICK st \in {"draft", "sale"} : sales' = [sales EXCEPT ![x.sale].state = st]
    BY <1>5 DEF ConfirmFails
  <2>2. x.pc = "confirm" /\ Fault /\ UNCHANGED <<rows, crashes>>
    BY <1>5 DEF ConfirmFails, At
  <2>3. y.pc = "error"
    BY <1>5, RollBackFields DEF ConfirmFails
  <2>4. Drifts(q, {x.sale})
    BY <2>1, <2>2, <2>3 DEF Drifts, Adrift, Keeps, Stands, Inv, TypeOK, Sale
  <2> QED
    BY <2>2, <2>4, FaultCounts, DriftsOne
<1>6. ASSUME NEW made \in BOOLEAN, Invoice(q, made) PROVE Budget(q)'
  <2>1. /\ x.pc = "invoice" /\ y.pc = "commit" /\ y.sale = x.sale
        /\ UNCHANGED <<rows, sales, crashes>> /\ (Fault \/ UNCHANGED faults)
    BY <1>6 DEF Invoice, At, Inv, TypeOK, Proc
  <2>2. Drifts(q, {})
    BY <2>1, MovesDrift DEF Keeps
  <2> QED
    BY <2>1, <2>2, FaultCounts, NoCount, DriftsNothing
<1>7. CASE InvoiceEscapes(q)
  <2>1. Fault /\ UNCHANGED <<rows, sales, crashes>> /\ y.pc = "error"
    BY <1>7, RollBackFields DEF InvoiceEscapes
  <2> QED
    BY <2>1, FailDrift, FaultCounts
<1> QED
  BY <1>1, <1>2, <1>3, <1>4, <1>5, <1>6, <1>7

\* The steps that write the mapping row, or fail to.
LEMMA OutcomeDrift ==
  ASSUME Inv, Booked, NEW q \in Procs, Budget(q), InStep(q),
         \/ CommitSynced(q) \/ CommitDuplicate(q) \/ CommitFails(q)
         \/ (\E j \in JobIds : HandleError(q, j)) \/ HandleErrorRaises(q)
  PROVE  Budget(q)'
<1> DEFINE x == proc[q]
           y == proc'[q]
           w == OrderOf(q)
<1>1. ~At(q, "idle") /\ w \in Orders
  <2>1. ~At(q, "idle")
    BY DEF CommitSynced, CommitDuplicate, CommitFails, HandleError, HandleErrorRaises, At
  <2> QED
    BY <2>1, Busy
<1>2. x.pc \in {"commit", "error"} /\ rows[w] = x.seen /\ rows[w].status # "SYNCED"
  BY DEF CommitSynced, CommitDuplicate, CommitFails, HandleError, HandleErrorRaises, At,
         InStep, ReadsTrue, Attempt, OrderOf
<1>3. CASE CommitSynced(q)
  <2>1. /\ x.pc = "commit" /\ rows'[w].so = x.sale /\ rows'[w].status = "SYNCED"
        /\ \A v \in Orders \ {w} : rows'[v] = rows[v]
        /\ UNCHANGED <<sales, faults, crashes>>
    BY <1>1, <1>3 DEF CommitSynced, At, Inv, TypeOK
  <2>2. y.pc \in {"resolve", "idle"}
    BY <1>3, GotoFields, FinishFields, IdleFields DEF CommitSynced, PCs
  <2>3. Drifts(q, {})
    <3> SUFFICES ASSUME NEW v \in Orders, NEW s \in Adrift(proc[q], v, rows, sales)'
                 PROVE  s \in Adrift(proc[q], v, rows, sales)
      BY DEF Drifts
    <3>1. CASE v = w
      <4>1. s \in SaleIds /\ sales[s].order = w /\ sales[s].state # "cancel"
        BY <2>1, <3>1 DEF Adrift
      <4>2. s # x.sale
        BY <2>1, <2>2, <3>1 DEF Adrift, Stands
      <4>3. ~Keeps(x, s) /\ ~Stands(x, w, s, rows)
        BY <1>2, <4>2 DEF Keeps, Stands
      <4> QED
        BY <3>1, <4>1, <4>3 DEF Adrift
    <3>2. CASE v # w
      <4>1. sales[x.sale].order = w
        BY <2>1 DEF Booked, HeldBooked, Holds, Holding
      <4> QED
        BY <2>1, <2>2, <3>2, <4>1 DEF Adrift, Keeps, Stands
    <3> QED
      BY <3>1, <3>2
  <2> QED
    BY <2>1, <2>3, NoCount, DriftsNothing
<1>4. CASE CommitDuplicate(q)
  BY <1>2, <1>4 DEF CommitDuplicate, OrderOf
<1>5. CASE CommitFails(q)
  <2>1. Fault /\ UNCHANGED <<rows, sales, crashes>> /\ y.pc = "error"
    BY <1>5, RollBackFields DEF CommitFails
  <2> QED
    BY <2>1, FailDrift, FaultCounts
<1>6. ASSUME NEW j \in JobIds, HandleError(q, j) PROVE Budget(q)'
  <2>1. /\ x.pc = "error" /\ rows'[w].so = rows[w].so /\ rows'[w].status # "SYNCED"
        /\ \A v \in Orders \ {w} : rows'[v] = rows[v]
        /\ UNCHANGED <<sales, faults, crashes>>
    BY <1>1, <1>2, <1>6 DEF HandleError, At, Inv, TypeOK, Row
  <2>2. y.pc \in {"bump", "idle"}
    BY <1>6, GotoFields, FinishFields, IdleFields DEF HandleError, PCs
  <2>3. Drifts(q, {})
    BY <1>2, <2>1, <2>2 DEF Drifts, Adrift, Keeps, Stands
  <2> QED
    BY <2>1, <2>3, NoCount, DriftsNothing
<1>7. CASE HandleErrorRaises(q)
  <2>1. x.pc = "error" /\ UNCHANGED <<rows, sales, crashes>> /\ (Fault \/ UNCHANGED faults)
    BY <1>7 DEF HandleErrorRaises, At
  <2>2. y.pc = "idle"
    BY <1>7, RaiseFields, IdleFields DEF HandleErrorRaises
  <2> QED
    BY <2>1, <2>2, RestDrift, FaultCounts, NoCount
<1> QED
  BY <1>3, <1>4, <1>5, <1>6, <1>7

\* The steps that end a retry job, or dispatch one.
LEMMA JobDrift ==
  ASSUME Inv, NEW q \in Procs, Budget(q),
         \/ ResolveJob(q) \/ JobWriteFails(q)
         \/ (\E st \in {"PENDING", "DEAD_LETTER"} : BumpJob(q, st))
         \/ DispatchRetry(q) \/ DispatchRetryFails(q)
  PROVE  Budget(q)'
<1>1. proc[q].pc \in {"resolve", "bump", "dispatch"} /\ UNCHANGED <<rows, sales, crashes>>
  BY DEF ResolveJob, JobWriteFails, BumpJob, DispatchRetry, DispatchRetryFails, At
<1>2. Fault \/ UNCHANGED faults
  BY DEF ResolveJob, JobWriteFails, BumpJob, DispatchRetry, DispatchRetryFails
<1>3. proc'[q].pc = "idle"
  BY FinishFields, IdleFields
     DEF ResolveJob, JobWriteFails, BumpJob, DispatchRetry, DispatchRetryFails, Inv, TypeOK
<1> QED
  BY <1>1, <1>2, <1>3, RestDrift, FaultCounts, NoCount

\* The steps of a cancellation; a refund is not asked for.
LEMMA CancelDrift ==
  ASSUME Inv, NEW q \in Procs, Budget(q), InStep(q), proc[q].task.kind # "refunded",
         \/ ReadForCancel(q) \/ CancelSale(q) \/ CancelSaleFails(q)
         \/ MarkCancelled(q) \/ MarkCancelledFails(q) \/ MarkRefunded(q)
  PROVE  Budget(q)'
<1> DEFINE x == proc[q]
           y == proc'[q]
           w == OrderOf(q)
<1>1. w \in Orders /\ rows[w] \in Row
  <2>1. ~At(q, "idle")
    BY DEF ReadForCancel, CancelSale, CancelSaleFails, MarkCancelled, MarkCancelledFails,
           MarkRefunded, At
  <2> QED
    BY <2>1, Busy
<1>2. CASE ReadForCancel(q)
  <2>1. x.pc = "check" /\ UNCHANGED <<rows, sales, faults, crashes>>
    BY <1>2 DEF ReadForCancel, At
  <2>2. \/ y.pc \in {"idle", "action_cancel"}
        \/ y.pc = "mark_cancelled" /\ y.task = x.task /\ rows[w].so = None
    BY <1>2, FinishFields, IdleFields DEF ReadForCancel, Inv, TypeOK, Proc
  <2>3. Drifts(q, {})
    BY <2>1, <2>2, MovesDrift DEF Keeps, OrderOf
  <2> QED
    BY <2>1, <2>3, NoCount, DriftsNothing
<1>3. CASE CancelSale(q)
  <2>1. /\ x.pc = "action_cancel" /\ sales' = [sales EXCEPT ![rows[w].so].state = "cancel"]
        /\ UNCHANGED <<rows, faults, crashes>>
    BY <1>3 DEF CancelSale, At, InStep, ReadsTrue, OrderOf
  <2>2. y.pc = "mark_cancelled" /\ y.task = x.task
    BY <1>3, GotoFields DEF CancelSale, PCs
  <2>3. Drifts(q, {})
    <3> SUFFICES ASSUME NEW v \in Orders, NEW s \in Adrift(proc[q], v, rows, sales)'
                 PROVE  s \in Adrift(proc[q], v, rows, sales)
      BY DEF Drifts
    <3>1. s \in SaleIds /\ sales'[s].order = v /\ sales'[s].state # "cancel"
      BY DEF Adrift
    <3>2. s # rows[w].so /\ sales'[s] = sales[s]
      BY <2>1, <3>1 DEF Inv, TypeOK, Sale
    <3> QED
      BY <2>1, <2>2, <3>1, <3>2 DEF Adrift, Keeps, Stands, OrderOf
  <2> QED
    BY <2>1, <2>3, NoCount, DriftsNothing
<1>4. CASE CancelSaleFails(q)
  <2>1. x.pc = "action_cancel" /\ UNCHANGED <<rows, sales, crashes>> /\ Fault
    BY <1>4 DEF CancelSaleFails, At
  <2>2. y.pc = "idle" \/ (y.pc = "mark_cancelled" /\ y.task = x.task)
    BY <1>4, GotoFields, RaiseFields, IdleFields DEF CancelSaleFails, PCs
  <2>3. Drifts(q, {rows[w].so})
    BY <2>1, <2>2, MovesDrift DEF Keeps, OrderOf
  <2> QED
    BY <2>1, <2>3, FaultCounts, DriftsOne
<1>5. CASE MarkCancelled(q)
  <2>1. /\ x.pc = "mark_cancelled" /\ rows'[w].so = rows[w].so /\ rows'[w].status = "CANCELLED"
        /\ \A v \in Orders \ {w} : rows'[v] = rows[v]
        /\ UNCHANGED <<sales, faults, crashes>>
    BY <1>1, <1>5 DEF MarkCancelled, At, InStep, ReadsTrue, OrderOf, Inv, TypeOK, Row
  <2>2. y.pc = "idle"
    BY <1>5, FinishFields, IdleFields DEF MarkCancelled
  <2>3. Drifts(q, {})
    BY <2>1, <2>2 DEF Drifts, Adrift, Keeps, Stands, OrderOf
  <2> QED
    BY <2>1, <2>3, NoCount, DriftsNothing
<1>6. CASE MarkCancelledFails(q)
  <2>1. x.pc = "mark_cancelled" /\ UNCHANGED <<rows, sales, crashes>> /\ Fault
    BY <1>6 DEF MarkCancelledFails, At
  <2>2. y.pc = "idle"
    BY <1>6, RaiseFields, IdleFields DEF MarkCancelledFails
  <2> QED
    BY <2>1, <2>2, RestDrift, FaultCounts
<1>7. CASE MarkRefunded(q)
  BY <1>7 DEF MarkRefunded
<1> QED
  BY <1>2, <1>3, <1>4, <1>5, <1>6, <1>7

LEMMA NextBudget ==
  ASSUME Inv, Booked, NEW q \in Procs, Solo(q), Solo(q)', InStep(q), Budget(q), NoRefund, [Next]_vars
  PROVE  Budget(q)'
<1>1. CASE UNCHANGED <<rows, sales, jobs, proc, faults, crashes>>
  BY <1>1 DEF Budget, Adrift, Keeps, Stands
<1>2. CASE Begins(q)
  <2>1. /\ proc[q].pc = "idle" /\ proc'[q].pc \in {"check", "dispatch"}
        /\ UNCHANGED <<rows, sales, crashes>> /\ (faults' = faults \/ faults' = faults + 1)
    BY <1>2 DEF Begins, At
  <2>2. NotFewer
    BY <2>1 DEF NotFewer, OneMore, Inv, TypeOK
  <2> QED
    BY <2>1, <2>2, RestDrift
<1>3. CASE Crash(q)
  <2>1. UNCHANGED <<rows, sales>> /\ OneMore /\ proc'[q].pc = "idle"
    BY <1>3, IdleFields DEF Crash, NotFewer, OneMore, Inv, TypeOK
  <2> QED
    BY <2>1, FailDrift
<1>4. CASE Work(q)
  BY <1>4, AttemptDrift, OutcomeDrift, JobDrift, CancelDrift DEF Work, NoRefund
<1> QED
  BY <1>1, <1>2, <1>3, <1>4, SoloStep

LEMMA BudgetStrays ==
  ASSUME Inv, NEW q \in Procs, Budget(q)
  PROVE  StraysExplained
<1> SUFFICES ASSUME NEW w \in Orders
             PROVE  Cardinality(Strays(w)) <= faults + crashes
  BY DEF StraysExplained
<1> DEFINE A == Adrift(proc[q], w, rows, sales)
<1>1. Strays(w) \in SUBSET A
  BY DEF Strays, SalesOf, Adrift, Keeps, Stands
<1>2. IsFiniteSet(A) /\ Cardinality(A) <= faults + crashes
  BY DEF Budget
<1> HIDE DEF A
<1>3. IsFiniteSet(Strays(w)) /\ Cardinality(Strays(w)) <= Cardinality(A)
  BY <1>1, <1>2, FS_Subset
<1>4. /\ Cardinality(A) \in Nat /\ Cardinality(Strays(w)) \in Nat
      /\ faults \in Nat /\ crashes \in Nat
  BY <1>2, <1>3, FS_CardinalityType DEF Inv, TypeOK
<1> QED
  BY <1>2, <1>3, <1>4

\* A step of p that puts no refund in the broker and takes none from elsewhere.
LEMMA KeepsNoRefund ==
  ASSUME Inv, NoRefund, NEW p \in Procs, \A r \in Procs \ {p} : proc'[r] = proc[r],
         proc'[p].task.kind # "refunded", \A t \in queue' : t \in queue \/ t.kind # "refunded"
  PROVE  NoRefund'
BY DEF NoRefund

LEMMA WorkNoRefund ==
  ASSUME Inv, NoRefund, NEW p \in Procs, Work(p)
  PROVE  NoRefund'
<1>1. \A r \in Procs \ {p} : proc'[r] = proc[r]
  BY DEF Work, AuthFails, CheckSkips, CheckProceeds, FetchFails, PrepareFails, CreateSale,
     CreateSaleLost, ConfirmSale, ConfirmFails, Invoice, InvoiceEscapes, CommitSynced, CommitDuplicate,
     CommitFails, HandleError, HandleErrorRaises, ResolveJob, JobWriteFails, BumpJob, ReadForCancel,
     CancelSale, CancelSaleFails, MarkCancelled, MarkCancelledFails, MarkRefunded, DispatchRetry,
     DispatchRetryFails, Goto, RollBack, Finish, Raise, Inv, TypeOK
<1>2. CASE Finish(p) \/ Raise(p) \/ RollBack(p) \/ \E pc \in PCs : Goto(p, pc)
  <2>1. /\ proc'[p] = Idle \/ proc'[p].task = proc[p].task
        /\ \A t \in queue' : t \in queue \/ t.kind = proc[p].task.kind
    BY <1>2, FinishFields, RaiseFields, RollBackFields, GotoFields
  <2> QED
    BY <1>1, <2>1, IdleFields, KeepsNoRefund DEF NoRefund
<1>3. CASE CheckProceeds(p) \/ ReadForCancel(p) \/ (\E s \in SaleIds : CreateSale(p, s))
           \/ (\E made \in BOOLEAN : Invoice(p, made))
  <2>1. Finish(p) \/ (proc'[p].task = proc[p].task /\ UNCHANGED queue)
    BY <1>3 DEF CheckProceeds, ReadForCancel, CreateSale, Invoice, Inv, TypeOK, Proc
  <2> QED
    BY <1>1, <1>2, <2>1, KeepsNoRefund DEF NoRefund
<1>4. CASE DispatchRetry(p) \/ DispatchRetryFails(p)
  <2>1. proc'[p] = Idle
    BY <1>4 DEF DispatchRetry, DispatchRetryFails, Inv, TypeOK
  <2>2. \A t \in queue' : t \in queue \/ t.kind = "retry_single"
    BY <1>4 DEF DispatchRetry, DispatchRetryFails, NewTask
  <2> QED
    BY <1>1, <2>1, <2>2, IdleFields, KeepsNoRefund
<1> QED
  BY <1>2, <1>3, <1>4 DEF Work, AuthFails, CheckSkips, FetchFails, PrepareFails,
     CreateSaleLost, ConfirmSale, ConfirmFails, InvoiceEscapes, CommitSynced, CommitDuplicate,
     CommitFails, HandleError, HandleErrorRaises, ResolveJob, JobWriteFails, BumpJob,
     CancelSale, CancelSaleFails, MarkCancelled, MarkCancelledFails, MarkRefunded, PCs

LEMMA NextNoRefund ==
  ASSUME "refunded" \notin Topics, Inv, NoRefund, [Next]_vars
  PROVE  NoRefund'
<1>1. CASE Arrival
  <2>1. ASSUME NEW w \in Orders, NEW topic \in Topics, Webhook(w, topic) PROVE NoRefund'
    BY <2>1 DEF Webhook, NoRefund, NewTask
  <2>2. ASSUME NEW p \in Procs, NEW w \in Orders, WebhookFallback(p, w) \/ ManualSync(p, w)
        PROVE  NoRefund'
    BY <2>2 DEF WebhookFallback, ManualSync, NoRefund, NewTask, Fresh, Inv, TypeOK
  <2>3. ASSUME NEW p \in Procs, NEW j \in JobIds, RetryEndpoint(p, j) PROVE NoRefund'
    BY <2>3 DEF RetryEndpoint, NoRefund, NewTask, Fresh, Inv, TypeOK
  <2> QED
    BY <1>1, <2>1, <2>2, <2>3 DEF Arrival
<1>2. ASSUME NEW p \in Procs, Start(p) \/ RunJob(p) PROVE NoRefund'
  BY <1>2 DEF Start, RunJob, TakeTask, RunDueJob, NoRefund, NewTask, Fresh, Inv, TypeOK
<1>3. ASSUME NEW p \in Procs, Crash(p) PROVE NoRefund'
  BY <1>3, IdleFields DEF Crash, NoRefund, Inv, TypeOK
<1>4. CASE UNCHANGED vars
  BY <1>4 DEF vars, NoRefund
<1> QED
  BY <1>1, <1>2, <1>3, <1>4, WorkNoRefund DEF Next

\* With one process and no refund each stray sale order, which Odoo would deliver
\* though the mapping does not stand for it, was left by a fault or a crash of
\* its own, however often the order is sent, cancelled, retried and sent again.
THEOREM StraysHaveCauses ==
  ASSUME "refunded" \notin Topics
  PROVE  MCSpec => []AloneStraysExplained
<1> DEFINE I == TeamInv /\ Booked /\ NoRefund /\ \A q \in Procs : team = {q} => Budget(q)
<1>1. MCInit => I
  <2> SUFFICES ASSUME MCInit PROVE I
    OBVIOUS
  <2>1. Booked /\ NoRefund
    BY InitBooked, IdleFields DEF MCInit, Init, NoRefund
  <2>2. ASSUME NEW q \in Procs PROVE Budget(q)
    <3>1. ASSUME NEW w \in Orders PROVE Adrift(proc[q], w, rows, sales) = {}
      BY DEF MCInit, Init, Adrift, NoSale
    <3>2. faults = 0 /\ crashes = 0
      BY DEF MCInit, Init
    <3> QED
      BY <3>1, <3>2, FS_EmptySet DEF Budget
  <2> QED
    BY <2>1, <2>2, TeamInit
<1>2. I /\ [MCNext]_teamVars => I'
  <2> SUFFICES ASSUME I, [MCNext]_teamVars PROVE I'
    OBVIOUS
  <2>1. [Next]_vars /\ UNCHANGED team
    BY DEF MCNext, Member, teamVars
  <2>2. Booked' /\ NoRefund'
    BY <2>1, NextBooked, NextNoRefund DEF TeamInv
  <2>3. ASSUME NEW q \in Procs, team = {q} PROVE Budget(q)'
    BY <2>1, <2>3, TeamStep, NextBudget DEF TeamInv
  <2> QED
    BY <2>1, <2>2, <2>3, TeamStep
<1>3. I => AloneStraysExplained
  BY BudgetStrays DEF AloneStraysExplained, Alone, TeamInv
<1> QED
  BY <1>1, <1>2, <1>3, PTL DEF MCSpec

-----------------------------------------------------------------------------
(* Every invoice of another sale order is explained                        *)
(*                                                                         *)
(* update() keeps the invoice id of an earlier attempt if the new one made *)
(* none, which Odoo may refuse at any time.  The earlier sale order is a   *)
(* cancelled one then, or one that was given up: its order is remembered.  *)

Cancelled(odoo, s) == odoo[s].state = "cancel"
\* A sale order that was given up, or is about to be, and is not cancelled.
LiveGivenUp(x, w, table, odoo) ==
    /\ table[w].so # None /\ ~Cancelled(odoo, table[w].so)
    /\ table[w].status # "SYNCED" \/ (x.pc = "mark_cancelled" /\ x.task.order = w)

InvoiceKept(w, table, odoo) ==
    \/ table[w].invoiceOf \in {None, table[w].so}
    \/ Cancelled(odoo, table[w].invoiceOf)

InvoiceInv(x, table, odoo, left) ==
    /\ \A s \in SaleIds : odoo[s].order = None => odoo[s].state = "draft"
    /\ x.pc = "confirm" => odoo[x.sale].state = "draft"
    /\ \A w \in Orders \ left : /\ ~LiveGivenUp(x, w, table, odoo)
                                /\ InvoiceKept(w, table, odoo)
InvoiceOf(q) == InvoiceInv(proc[q], rows, sales, uncancelled)

\* Nothing is written in Odoo or to the table.
LEMMA RestInvoiceOf ==
  ASSUME NEW q \in Procs, InvoiceOf(q), UNCHANGED <<rows, sales>>, uncancelled \subseteq uncancelled',
         proc'[q].pc # "confirm",
         \/ proc'[q].pc # "mark_cancelled"
         \/ proc'[q].task.order \in uncancelled'
         \/ rows[proc'[q].task.order].so = None
  PROVE  InvoiceOf(q)'
BY DEF InvoiceOf, InvoiceInv, LiveGivenUp

\* q writes to the draft s.
LEMMA SaleInvoiceOf ==
  ASSUME Inv, NEW q \in Procs, InvoiceOf(q), UNCHANGED rows, uncancelled \subseteq uncancelled',
         NEW s \in SaleIds, NEW new \in Sale, sales' = [sales EXCEPT ![s] = new],
         sales[s].state = "draft", new.order # None, new.state # "cancel",
         proc'[q].pc \in {"confirm", "invoice", "error"},
         proc'[q].pc = "confirm" => proc'[q].sale = s /\ new.state = "draft"
  PROVE  InvoiceOf(q)'
<1>1. \A r \in SaleIds : sales'[r] = IF r = s THEN new ELSE sales[r]
  BY DEF Inv, TypeOK
<1>2. \A r \in SaleIds : Cancelled(sales', r) <=> Cancelled(sales, r)
  BY <1>1 DEF Cancelled
<1>3. \A w \in Orders : rows[w].so \in SaleIds \cup {None} /\ rows[w].invoiceOf \in SaleIds \cup {None}
  BY DEF Row, Inv, TypeOK
<1>4. ASSUME NEW w \in Orders \ uncancelled'
      PROVE  ~LiveGivenUp(proc'[q], w, rows, sales') /\ InvoiceKept(w, rows, sales')
  <2>1. ~LiveGivenUp(proc[q], w, rows, sales) /\ InvoiceKept(w, rows, sales)
    BY DEF InvoiceOf, InvoiceInv
  <2> QED
    BY <1>2, <1>3, <2>1 DEF LiveGivenUp, InvoiceKept
<1>5. \A r \in SaleIds : sales'[r].order = None => sales'[r].state = "draft"
  BY <1>1 DEF InvoiceOf, InvoiceInv
<1>6. proc'[q].pc = "confirm" => sales'[proc'[q].sale].state = "draft"
  BY <1>1
<1> QED
  BY <1>4, <1>5, <1>6 DEF InvoiceOf, InvoiceInv

LEMMA AttemptInvoice ==
  ASSUME Inv, Booked, NEW q \in Procs, InvoiceOf(q), InStep(q), uncancelled \subseteq uncancelled',
         \/ AuthFails(q) \/ CheckSkips(q) \/ CheckProceeds(q) \/ FetchFails(q) \/ PrepareFails(q)
         \/ \E s \in SaleIds : CreateSale(q, s) \/ CreateSaleLost(q, s)
         \/ ConfirmSale(q) \/ ConfirmFails(q)
         \/ \E made \in BOOLEAN : Invoice(q, made)
         \/ InvoiceEscapes(q)
  PROVE  InvoiceOf(q)'
<1> DEFINE x == proc[q]
           y == proc'[q]
           w == OrderOf(q)
<1>1. w \in Orders
  <2>1. ~At(q, "idle")
    BY DEF AuthFails, CheckSkips, CheckProceeds, FetchFails, PrepareFails, CreateSale, CreateSaleLost,
           NewSale, ConfirmSale, ConfirmFails, Invoice, InvoiceEscapes, At
  <2> QED
    BY <2>1, Busy
<1>2. CASE AuthFails(q) \/ CheckSkips(q) \/ CheckProceeds(q) \/ FetchFails(q) \/ PrepareFails(q)
           \/ InvoiceEscapes(q) \/ \E made \in BOOLEAN : Invoice(q, made)
  <2>1. UNCHANGED <<rows, sales>>
    BY <1>2 DEF AuthFails, CheckSkips, CheckProceeds, FetchFails, PrepareFails, InvoiceEscapes, Invoice
  <2>2. y.pc \in {"bump", "idle", "resolve", "create", "error", "commit"}
    BY <1>2, GotoFields, FinishFields, RaiseFields, RollBackFields, IdleFields
       DEF AuthFails, CheckSkips, CheckProceeds, FetchFails, PrepareFails, InvoiceEscapes, Invoice,
           Inv, TypeOK, Proc, PCs
  <2> QED
    BY <2>1, <2>2, RestInvoiceOf
<1>3. ASSUME NEW s \in SaleIds, NewSale(q, s), CreateSale(q, s) \/ CreateSaleLost(q, s)
      PROVE  InvoiceOf(q)'
  <2>1. PICK new \in Sale : new = [order |-> w, state |-> "draft"]
    BY <1>1 DEF Sale, SaleState
  <2>2. sales' = [sales EXCEPT ![s] = new] /\ sales[s].order = None
    BY <1>3, <2>1 DEF NewSale
  <2>3. sales[s].state = "draft"
    BY <2>2 DEF InvoiceOf, InvoiceInv
  <2>4. (y.pc = "confirm" /\ y.sale = s) \/ y.pc = "error"
    BY <1>3, RollBackFields DEF CreateSale, CreateSaleLost, Inv, TypeOK, Proc
  <2>5. UNCHANGED rows /\ new.order # None /\ new.state = "draft"
    BY <1>1, <1>3, <2>1 DEF CreateSale, CreateSaleLost
  <2> QED
    BY <2>2, <2>3, <2>4, <2>5, SaleInvoiceOf
<1>4. CASE ConfirmSale(q) \/ ConfirmFails(q)
  <2>1. PICK st \in {"draft", "sale"} : sales' = [sales EXCEPT ![x.sale].state = st]
    BY <1>4 DEF ConfirmSale, ConfirmFails
  <2>2. x.pc = "confirm" /\ (y.pc = "invoice" \/ y.pc = "error") /\ UNCHANGED rows
    BY <1>4, GotoFields, RollBackFields DEF ConfirmSale, ConfirmFails, At, PCs
  <2>3. x.sale \in SaleIds /\ sales[x.sale].order = w /\ sales[x.sale].state = "draft"
    BY <2>2 DEF Booked, HeldBooked, Holds, Holding, InvoiceOf, InvoiceInv
  <2>4. PICK new \in Sale : new = [sales[x.sale] EXCEPT !.state = st]
    BY <2>3 DEF Inv, TypeOK, Sale, SaleState
  <2>5. new.order = w /\ new.state = st /\ sales' = [sales EXCEPT ![x.sale] = new]
    BY <2>1, <2>3, <2>4 DEF Inv, TypeOK, Sale
  <2> QED
    BY <1>1, <2>2, <2>3, <2>5, SaleInvoiceOf
<1> QED
  BY <1>2, <1>3, <1>4 DEF CreateSale, CreateSaleLost

LEMMA OutcomeInvoice ==
  ASSUME Inv, Booked, NEW q \in Procs, InvoiceOf(q), InStep(q), uncancelled \subseteq uncancelled',
         \/ CommitSynced(q) \/ CommitDuplicate(q) \/ CommitFails(q)
         \/ (\E j \in JobIds : HandleError(q, j)) \/ HandleErrorRaises(q)
  PROVE  InvoiceOf(q)'
<1> DEFINE x == proc[q]
           y == proc'[q]
           w == OrderOf(q)
<1>1. w \in Orders /\ rows \in [Orders -> Row]
  <2>1. ~At(q, "idle")
    BY DEF CommitSynced, CommitDuplicate, CommitFails, HandleError, HandleErrorRaises, At
  <2> QED
    BY <2>1, Busy DEF Inv, TypeOK
<1>2. x.pc \in {"commit", "error"} /\ rows[w] = x.seen /\ rows[w].status # "SYNCED"
  BY DEF CommitSynced, CommitDuplicate, CommitFails, HandleError, HandleErrorRaises, At,
         InStep, ReadsTrue, Attempt, OrderOf
<1>3. CASE CommitSynced(q)
  <2>1. /\ x.pc = "commit" /\ rows'[w].so = x.sale /\ rows'[w].status = "SYNCED"
        /\ rows'[w].invoiceOf \in {x.sale, rows[w].invoiceOf}
        /\ \A v \in Orders \ {w} : rows'[v] = rows[v]
        /\ UNCHANGED sales
    BY <1>1, <1>3 DEF CommitSynced, At
  <2>2. y.pc \in {"resolve", "idle"}
    BY <1>3, GotoFields, FinishFields, IdleFields DEF CommitSynced, PCs
  <2>3. ASSUME NEW v \in Orders \ uncancelled'
        PROVE  ~LiveGivenUp(y, v, rows', sales) /\ InvoiceKept(v, rows', sales)
    <3>1. ~LiveGivenUp(x, v, rows, sales) /\ InvoiceKept(v, rows, sales)
      BY DEF InvoiceOf, InvoiceInv
    <3>2. CASE v = w
      <4>1. rows[w].so = None \/ Cancelled(sales, rows[w].so)
        BY <1>2, <3>1, <3>2 DEF LiveGivenUp
      <4> QED
        BY <2>1, <2>2, <3>1, <3>2, <4>1 DEF InvoiceKept, LiveGivenUp
    <3>3. CASE v # w
      BY <2>1, <2>2, <3>1, <3>3 DEF LiveGivenUp, InvoiceKept
    <3> QED
      BY <3>2, <3>3
  <2> QED
    BY <2>1, <2>2, <2>3 DEF InvoiceOf, InvoiceInv
<1>4. CASE CommitDuplicate(q)
  BY <1>2, <1>4 DEF CommitDuplicate, OrderOf
<1>5. CASE CommitFails(q)
  <2>1. UNCHANGED <<rows, sales>> /\ y.pc = "error"
    BY <1>5, RollBackFields DEF CommitFails
  <2> QED
    BY <2>1, RestInvoiceOf
<1>6. ASSUME NEW j \in JobIds, HandleError(q, j) PROVE InvoiceOf(q)'
  <2>1. /\ rows'[w].so = rows[w].so /\ rows'[w].invoiceOf = rows[w].invoiceOf
        /\ \A v \in Orders \ {w} : rows'[v] = rows[v]
        /\ UNCHANGED sales
    BY <1>1, <1>6 DEF HandleError, Row
  <2>2. y.pc \in {"bump", "idle"}
    BY <1>6, GotoFields, FinishFields, IdleFields DEF HandleError, PCs
  <2>3. ASSUME NEW v \in Orders
        PROVE  /\ LiveGivenUp(y, v, rows', sales) => LiveGivenUp(x, v, rows, sales)
               /\ InvoiceKept(v, rows, sales) => InvoiceKept(v, rows', sales)
    BY <1>2, <2>1, <2>2 DEF LiveGivenUp, InvoiceKept
  <2> QED
    BY <2>1, <2>2, <2>3 DEF InvoiceOf, InvoiceInv
<1>7. CASE HandleErrorRaises(q)
  <2>1. UNCHANGED <<rows, sales>>
    BY <1>7 DEF HandleErrorRaises
  <2>2. y.pc = "idle"
    BY <1>7, RaiseFields, IdleFields DEF HandleErrorRaises
  <2> QED
    BY <2>1, <2>2, RestInvoiceOf
<1> QED
  BY <1>3, <1>4, <1>5, <1>6, <1>7

LEMMA JobInvoice ==
  ASSUME Inv, NEW q \in Procs, InvoiceOf(q), uncancelled \subseteq uncancelled',
         \/ ResolveJob(q) \/ JobWriteFails(q)
         \/ (\E st \in {"PENDING", "DEAD_LETTER"} : BumpJob(q, st))
         \/ DispatchRetry(q) \/ DispatchRetryFails(q)
  PROVE  InvoiceOf(q)'
<1>1. UNCHANGED <<rows, sales>>
  BY DEF ResolveJob, JobWriteFails, BumpJob, DispatchRetry, DispatchRetryFails
<1>2. proc'[q].pc = "idle"
  BY FinishFields, IdleFields
     DEF ResolveJob, JobWriteFails, BumpJob, DispatchRetry, DispatchRetryFails, Inv, TypeOK
<1> QED
  BY <1>1, <1>2, RestInvoiceOf

\* A cancellation cancels the sale order, or Odoo refused and the order is
\* remembered; a refund is remembered.
LEMMA CancelInvoice ==
  ASSUME Inv, Booked, NEW q \in Procs, InvoiceOf(q), InStep(q), Remember,
         \/ ReadForCancel(q) \/ CancelSale(q) \/ CancelSaleFails(q)
         \/ MarkCancelled(q) \/ MarkCancelledFails(q) \/ MarkRefunded(q)
  PROVE  InvoiceOf(q)'
<1> DEFINE x == proc[q]
           y == proc'[q]
           w == OrderOf(q)
<1>1. w \in Orders /\ rows \in [Orders -> Row] /\ uncancelled \subseteq uncancelled'
  <2>1. ~At(q, "idle")
    BY DEF ReadForCancel, CancelSale, CancelSaleFails, MarkCancelled, MarkCancelledFails,
           MarkRefunded, At
  <2> QED
    BY <2>1, Busy DEF Inv, TypeOK, Remember
<1>2. CASE ReadForCancel(q)
  <2>1. UNCHANGED <<rows, sales>>
    BY <1>2 DEF ReadForCancel
  <2>2. \/ y.pc \in {"idle", "action_cancel"}
        \/ y.pc = "mark_cancelled" /\ y.task = x.task /\ rows[w].so = None
    BY <1>2, FinishFields, IdleFields DEF ReadForCancel, Inv, TypeOK, Proc
  <2> QED
    BY <1>1, <2>1, <2>2, RestInvoiceOf DEF OrderOf
<1>3. CASE CancelSale(q)
  <2>1. /\ x.pc = "action_cancel" /\ sales' = [sales EXCEPT ![rows[w].so].state = "cancel"]
        /\ UNCHANGED rows
    BY <1>3 DEF CancelSale, At, InStep, ReadsTrue, OrderOf
  <2>2. y.pc = "mark_cancelled" /\ y.task = x.task
    BY <1>3, GotoFields DEF CancelSale, PCs
  <2>3. \A s \in SaleIds : /\ sales'[s].order = sales[s].order
                           /\ s # rows[w].so => sales'[s] = sales[s]
                           /\ s = rows[w].so => sales'[s].state = "cancel"
    BY <2>1 DEF Inv, TypeOK, Sale
  <2>4. ASSUME NEW s \in SaleIds, sales'[s].order = None PROVE sales'[s].state = "draft"
    <3>1. s # rows[w].so
      BY <1>1, <2>3, <2>4 DEF Booked, RowsBooked
    <3> QED
      BY <2>3, <2>4, <3>1 DEF InvoiceOf, InvoiceInv
  <2>5. ASSUME NEW v \in Orders
        PROVE  /\ LiveGivenUp(y, v, rows, sales') => LiveGivenUp(x, v, rows, sales)
               /\ InvoiceKept(v, rows, sales) => InvoiceKept(v, rows, sales')
    <3>1. rows[v].so \in SaleIds \cup {None} /\ rows[v].invoiceOf \in SaleIds \cup {None}
      BY <1>1 DEF Row
    <3>2. \A s \in SaleIds : /\ Cancelled(sales, s) => Cancelled(sales', s)
                             /\ s = rows[w].so => Cancelled(sales', s)
      BY <2>3 DEF Cancelled
    <3>3. InvoiceKept(v, rows, sales) => InvoiceKept(v, rows, sales')
      BY <3>1, <3>2 DEF InvoiceKept
    <3>4. LiveGivenUp(y, v, rows, sales') => LiveGivenUp(x, v, rows, sales)
      BY <2>2, <3>1, <3>2 DEF LiveGivenUp, OrderOf
    <3> QED
      BY <3>3, <3>4
  <2> QED
    BY <1>1, <2>1, <2>2, <2>4, <2>5 DEF InvoiceOf, InvoiceInv
<1>4. CASE CancelSaleFails(q)
  <2>1. UNCHANGED <<rows, sales>> /\ w \in uncancelled'
    BY <1>1, <1>4 DEF CancelSaleFails, Remember, GivesUp
  <2>2. y.pc = "idle" \/ (y.pc = "mark_cancelled" /\ y.task = x.task)
    BY <1>4, GotoFields, RaiseFields, IdleFields DEF CancelSaleFails, PCs
  <2> QED
    BY <1>1, <2>1, <2>2, RestInvoiceOf DEF OrderOf
<1>5. CASE MarkCancelled(q) \/ MarkRefunded(q)
  <2>1. /\ rows'[w].so = rows[w].so /\ rows'[w].invoiceOf = rows[w].invoiceOf
        /\ \A v \in Orders \ {w} : rows'[v] = rows[v]
        /\ UNCHANGED sales
        /\ x.pc = "mark_cancelled" \/ w \in uncancelled'
    BY <1>1, <1>5 DEF MarkCancelled, MarkRefunded, At, Row, Remember, GivesUp
  <2>2. y.pc = "idle"
    BY <1>5, FinishFields, IdleFields DEF MarkCancelled, MarkRefunded
  <2>3. ASSUME NEW v \in Orders \ uncancelled'
        PROVE  /\ LiveGivenUp(y, v, rows', sales) => LiveGivenUp(x, v, rows, sales)
               /\ InvoiceKept(v, rows, sales) => InvoiceKept(v, rows', sales)
    BY <2>1, <2>2 DEF LiveGivenUp, InvoiceKept, OrderOf
  <2> QED
    BY <1>1, <2>1, <2>2, <2>3 DEF InvoiceOf, InvoiceInv
<1>6. CASE MarkCancelledFails(q)
  <2>1. UNCHANGED <<rows, sales>>
    BY <1>6 DEF MarkCancelledFails
  <2>2. y.pc = "idle"
    BY <1>6, RaiseFields, IdleFields DEF MarkCancelledFails
  <2> QED
    BY <1>1, <2>1, <2>2, RestInvoiceOf
<1> QED
  BY <1>2, <1>3, <1>4, <1>5, <1>6

LEMMA NextInvoice ==
  ASSUME Inv, Booked, NEW q \in Procs, Solo(q), Solo(q)', InStep(q), InvoiceOf(q), Remember, [Next]_vars
  PROVE  InvoiceOf(q)'
<1>1. uncancelled \subseteq uncancelled'
  BY DEF Remember
<1>2. CASE UNCHANGED <<rows, sales, jobs, proc, faults, crashes>>
  BY <1>1, <1>2 DEF InvoiceOf, InvoiceInv
<1>3. CASE Begins(q)
  BY <1>1, <1>3, RestInvoiceOf DEF Begins
<1>4. CASE Crash(q)
  <2>1. UNCHANGED <<rows, sales>> /\ proc'[q].pc = "idle"
    BY <1>4, IdleFields DEF Crash, Inv, TypeOK
  <2> QED
    BY <1>1, <2>1, RestInvoiceOf
<1>5. CASE Work(q)
  BY <1>1, <1>5, AttemptInvoice, OutcomeInvoice, JobInvoice, CancelInvoice DEF Work
<1> QED
  BY <1>2, <1>3, <1>4, <1>5, SoloStep

\* With one process, whatever fails and whatever Odoo refuses to invoice, a mapping
\* names the invoice of its own sale order or of a cancelled one, unless the order
\* was given up with its sale order left alone (a cancellation that Odoo refused, a
\* refund): there the invoice id that update() kept bills one sale order while
\* another is delivered.
THEOREM InvoicesHaveCauses == MCSpec => []AloneInvoiceExplained
<1> DEFINE I == TeamInv /\ Booked /\ \A q \in Procs : team = {q} => InvoiceOf(q)
<1>1. MCInit => I
  <2> SUFFICES ASSUME MCInit PROVE I
    OBVIOUS
  <2>1. Booked
    BY InitBooked DEF MCInit
  <2>2. ASSUME NEW q \in Procs PROVE InvoiceOf(q)
    BY IdleFields DEF MCInit, Init, InvoiceOf, InvoiceInv, LiveGivenUp, InvoiceKept, NoSale, NoRow
  <2> QED
    BY <2>1, <2>2, TeamInit
<1>2. I /\ [MCNext]_teamVars => I'
  <2> SUFFICES ASSUME I, [MCNext]_teamVars PROVE I'
    OBVIOUS
  <2>1. [Next]_vars /\ UNCHANGED team
    BY DEF MCNext, Member, teamVars
  <2>2. Booked'
    BY <2>1, NextBooked DEF TeamInv
  <2>3. ASSUME NEW q \in Procs, team = {q} PROVE InvoiceOf(q)'
    <3>1. CASE MCNext
      BY <2>1, <2>3, <3>1, TeamStep, NextInvoice DEF TeamInv, MCNext
    <3>2. CASE UNCHANGED teamVars
      BY <2>3, <3>2 DEF teamVars, vars, InvoiceOf
    <3> QED
      BY <3>1, <3>2
  <2> QED
    BY <2>1, <2>2, <2>3, TeamStep
<1>3. I => AloneInvoiceExplained
  BY DEF AloneInvoiceExplained, Alone, InvoiceOfMappedSale, InvoiceOf, InvoiceInv, InvoiceKept, Cancelled
<1> QED
  BY <1>1, <1>2, <1>3, PTL DEF MCSpec

=============================================================================
