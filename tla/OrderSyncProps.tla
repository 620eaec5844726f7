-------------------------- MODULE OrderSyncProps --------------------------
(***************************************************************************)
(* What OrderSync should guarantee.  The properties of the first group     *)
(* hold with any number of processes, faults and crashes; those of the     *)
(* second need the assumption named with them, and the runs show both      *)
(* that they hold under it and that they fail without it.                  *)
(***************************************************************************)
EXTENDS OrderSync

SalesOf(w) == {s \in SaleIds : sales[s].order = w}
BusyOn(w)  == {p \in Procs : proc[p].task.order = w}
Pending(w) == {t \in queue : t.order = w} # {} \/ BusyOn(w) # {}

-----------------------------------------------------------------------------
(* With any number of processes, faults and crashes                        *)

\* An order marked FAILED has a retry job that is pending or a dead letter, and
\* that no process is about to resolve: _handle_order_error writes both in one
\* transaction, and a job is resolved only after its run found or made the order
\* SYNCED.  Stale reads, duplicate runs of a job, crashes and lost transactions
\* do not leave a failed order that nothing will retry and no operator sees.
NoLostFailure ==
    \A w \in Orders :
        rows[w].status = "FAILED" =>
            \E j \in JobIds :
                /\ jobs[j].order = w /\ Open(j)
                /\ \A p \in Procs : ~(At(p, "resolve") /\ JobOf(p) = j)

\* The sale order a mapping names was made for that WooCommerce order and has
\* been confirmed; so has any sale order a process is about to put there.
MappedSaleConfirmed ==
    /\ \A w \in Orders : rows[w].so # None =>
           sales[rows[w].so].order = w /\ sales[rows[w].so].state # "draft"
    /\ \A p \in Procs : proc[p].pc \in {"invoice", "commit"} =>
           sales[proc[p].sale].order = OrderOf(p) /\ sales[proc[p].sale].state # "draft"

\* The mapping table and the failed_jobs table, seen together, behave as the
\* ledger: a failure and its debt appear in one step, a debt is forgiven only
\* when the order is not failed, and no sale order is booked twice.
Ledger == INSTANCE OrderLedger WITH
              status <- [w \in Orders |-> rows[w].status],
              sale   <- [w \in Orders |-> rows[w].so],
              owed   <- {jobs[j].order : j \in {i \in JobIds : Open(i)}}
LedgerSpec == Ledger!Spec

\* An order whose webhook was answered 200 is recorded, in the broker, or being
\* worked on (webhooks.py: "Even if dispatch fails, we store and will retry").
\* Two faults are enough for the synchronous fallback to lose it: the broker is
\* not reached, and authenticate() fails before anything is stored ...
AcceptedIsKept == \A w \in accepted : rows[w] # NoRow \/ Pending(w)

\* ... but it is kept while there were no more faults than a task has tries, and
\* no more than one where the fallback is used: no redelivery, stale row, crash
\* or lost commit drops it.
FewFaults == faults <= MaxTries /\ ("fallback" \in Sources => faults <= 1)
AcceptedIsStored == FewFaults => AcceptedIsKept

-----------------------------------------------------------------------------
(* Under an assumption                                                     *)

\* No order has two sale orders (order_sync.py: "Idempotent: duplicate orders are
\* detected and skipped").  StraysExplained bounds what one process can do against
\* it; two processes violate it without a fault (run dup_race).
OneSalePerOrder == \A w \in Orders : Cardinality(SalesOf(w)) <= 1

\* The sale orders of w that Odoo would deliver although the mapping does not
\* stand for them: not cancelled, in no process's hands, and either no mapping
\* names them or the mapping says CANCELLED.
Strays(w) ==
    {s \in SalesOf(w) :
        /\ sales[s].state # "cancel"
        /\ s # rows[w].so \/ rows[w].status = "CANCELLED"
        /\ \A p \in Procs : proc[p].sale # s}

\* With one process and no refund, however often the order is sent, cancelled and
\* sent again, each stray sale order was left by a fault or a crash, one each: by itself the
\* code makes no second sale order and cancels what it marks CANCELLED
\* (webhooks.py: "Cancels the corresponding Odoo Sales Order if it exists").
StraysExplained == \A w \in Orders : Cardinality(Strays(w)) <= faults + crashes

\* With any number of processes: no order marked CANCELLED has a stray sale order
\* (violated by two processes, run cancel_race).
CancelledOrderHasNoLiveSale ==
    \A w \in Orders : rows[w].status = "CANCELLED" => Strays(w) = {}

\* With one process, an order that became SYNCED keeps its sale order and its
\* invoice until it is cancelled or refunded, whatever is redelivered, retried or
\* started by hand (order_sync.py: "duplicate orders are detected and skipped").
\* What an order-updated webhook should do with it is another question, on which
\* webhooks.py and the service disagree (MCOrderUpdates): its task is left out.
SyncedKept ==
    \A w \in Orders :
        rows[w].status = "SYNCED" /\ (\A p \in BusyOn(w) : proc[p].task.kind # "updated") =>
        rows'[w] \in {[rows[w] EXCEPT !.status = st] : st \in {"SYNCED", "CANCELLED", "REFUNDED"}}
SyncedIsFinal == [][SyncedKept]_rows

\* The invoice the mapping of w names is the invoice of the sale order it names, or
\* of a sale order that has been cancelled.  It need not be: update() keeps the
\* invoice id of an earlier attempt when Odoo made no invoice for the new one.
InvoiceOfMappedSale(w) ==
    \/ rows[w].invoiceOf \in {None, rows[w].so}
    \/ sales[rows[w].invoiceOf].state = "cancel"

-----------------------------------------------------------------------------
(* Liveness                                                                *)

\* An accepted order is in the end booked or closed for good, or a dead letter an
\* operator can see, when the faults are too few to use up a task's tries.
Settled(w) ==
    \/ rows[w].status \in {"SYNCED", "CANCELLED", "REFUNDED"}
    \/ \E j \in JobIds : jobs[j].order = w /\ jobs[j].status = "DEAD_LETTER"
AcceptedIsSettled == \A w \in Orders : w \in accepted ~> []Settled(w)

\* No pending job stays pending for ever: it is resolved or becomes a dead letter.
JobsEnd == \A j \in JobIds :
    (jobs[j].order # None /\ jobs[j].status = "PENDING")
        ~> (jobs[j].status \in {"RESOLVED", "DEAD_LETTER"})
=============================================================================
