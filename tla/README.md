# TrueBuild order, product and customer synchronisation in TLA+

TLA+ modules, TLC configurations and TLAPS proofs for the integration platform in
`src/`: a FastAPI service with Celery workers that keeps a WooCommerce shop and an Odoo
back office in step. Orders and customers flow from WooCommerce to Odoo; products, variants
and stock flow from Odoo to WooCommerce. Every definition is translated from the code;
`PROJECT.json` ("map") names the lines.

## 1. The system

| Component | State | Operations | Hard behaviour | Correct when |
|---|---|---|---|---|
| Webhooks (`api/webhooks.py`) | none; puts tasks in the broker | created, updated, cancelled, refunded; synchronous fallback when the broker is down | duplicates, any order, swallowed exceptions | an order answered 200 is recorded or still being worked on |
| Order tasks (`tasks/order_tasks.py`) | Redis broker | process, cancel, refund; `max_retries`, `acks_late` | redelivery after a killed worker | every accepted order is settled |
| `OrderSyncService` | `order_mappings`; sale orders in Odoo | `sync_order`, `sync_order_from_payload`, `handle_order_cancelled`, `handle_order_refunded` | several calls to Odoo between a read and the one commit; nothing rolls Odoo back | a mapping names a confirmed sale order of its order; no failure is forgotten |
| `CustomerSyncService` | `customer_mappings`; partners in Odoo | `get_or_create_partner` | search-then-create races; a flushed row locks its email for the rest of the attempt | one partner per customer's orders; duplicates bounded |
| Failed jobs and retry queue (`failed_job_repo.py`, `retry_tasks.py`) | `failed_jobs` | `process_retry_queue`, `retry_single_job`, the retry endpoint, `manage.py retry-failed` | services commit or roll back the batch's session in its middle; overlapping batches | pending jobs keep a time to run at, end, and are given up when their runs are used up, not earlier |
| `ProductSyncService` and its tasks | `product_mappings`; the shop's products | full sync, sync of one SKU | overlapping syncs, one commit per run, SKUs that move, lost answers | every product is mapped and SYNCED in the end |
| `VariantSyncService` | `variant_mappings`; variations in the shop | `sync_variants`, inside a product session | stale mappings, swallowed errors, lost answers; order lines read the mappings | a variant is on sale once, an order line finds its product |
| `InventorySyncService` and its task | stock in the shop | full sync, sync of one product | two services push quantities they read at different times | the shop shows the stock of Odoo in the end |
| `OdooClient`, `WooCommerceClient` | session (uid); none | RPC and HTTP calls with retries | an effect without an answer, a repeated POST | their ways to fail are actions of the modules above and below |
| Rate limiter (`middleware/rate_limiter.py`) | one Redis sorted set per client and class | `dispatch` | several workers' clocks, late pipelines, Redis down | a client within its limit is not refused |
| Webhook configuration (`sync_endpoints.py`) | webhooks in WooCommerce | `update_woocommerce_webhooks` | an error half way, repeated calls, two requests | duplicates are bounded, the answer is true |

How they interact. A webhook puts a task in the broker, or runs `OrderSyncService` itself.
A worker runs the service with a session of its own; the service calls
`CustomerSyncService` and `OdooClient`, and leaves a row in `order_mappings` or, when it
fails, a `FAILED` row and a job in `failed_jobs`. Celery beat starts the product and
inventory syncs every few minutes and the retry queue every minute; the retry queue runs the
same services *in its own session*. Health checks, logging, signature checks, settings,
schemas and migrations keep no state that another step reads.

## 2. The modules

| Module | What it models |
|---|---|
| `OrderLedger` | the abstract specification: entries that are booked, failed and owed a retry, or closed |
| `OrderSync` | webhooks, broker, order tasks, `OrderSyncService`, `order_mappings`, `failed_jobs` as orders see it, Odoo's sale orders |
| `OrderSyncProps`, `MCOrderSync`, `MCOrderTeams`, `MCOrderUpdates` | its properties, with the refinement to `OrderLedger`; instances, the second with a team of one or two processes, the third with a history of updates |
| `OrderSyncProofs`, `OrderTeamsProofs` | proofs of its invariants and of the refinement; of what one process guarantees |
| `CustomerSync`, `...Props`, `MC...`, `...Proofs` | the customer step of an order attempt, in detail |
| `RetryQueue`, `...Props`, `...Proofs` | `failed_jobs` in detail: sessions, flushes, locks, batches |
| `RetryHistory`, `MCRetryTeams` | what went wrong with each job so far, and what holds of it then; an instance in three cases |
| `ProductSync`, `...Props`, `MC...`, `MCProductTeams`, `...Proofs` | product sessions, `product_mappings`, the products of the shop |
| `VariantSync` | the variants of one product in a product session, `variant_mappings`, the lookup of order lines |
| `InventorySync`, `...Props`, `MC...`, `...Proofs` | `VariantSync` composed with the inventory sync |
| `WebhookConfig`, `...Props`, `...Proofs`, `MC...` | the endpoint that configures webhooks, call by call, with the retry loop of `_request` |
| `RateLimiter`, `...Props`, `MC...`, `...Proofs` | one sorted set and its API workers |

Conventions. An action is the code between two remote calls, with everything it writes. A
process or session is a record with a program counter and the code's local variables, so
that what was read before a call is still there after it. `faults`, `crashes`, `posts` and
the like count what the environment does and are bounded by `Max...` constants. Definitions
named `...Mutant` state a fault that a change to the code could bring; no action uses them
(section 6). Variables marked *history* (`uncancelled`, `outdated`, `excused`) only remember
what has happened: no guard and no update of another variable reads them.

**OrderSync.** `rows` is `order_mappings`, `sales` Odoo's sale orders, `jobs` the
failed jobs about orders, `queue` the broker (a set: it reorders, and equal tasks are one),
`proc` the processes. One attempt is *check → create → confirm → invoice → commit*, with
*error* from anywhere, and *resolve* or *bump* when the attempt is a retry; a cancellation
is *check → action_cancel → mark_cancelled*. `seen` is the ORM object `existing`: a write
through it is skipped where the loaded value is equal, as SQLAlchemy does. A failing remote
call may have had its effect (`CreateSaleLost`). That Odoo refuses to make an invoice is
normal (`odoo_client.py:484`) and costs no fault. The customer step and the order lines are
folded into `PrepareFails` and the step before `CreateSale`; which product a line is booked
for is `VariantSync`'s `Resolve`. The count of a job is left to
`RetryQueue`: `BumpJob` may schedule or give up.

**CustomerSync.** `partners` is Odoo's `res.partner`, `mapping` the committed
`customer_mappings`. `inserted` says that a process has flushed a row that it has not
committed: it is invisible to others and makes their inserts of the same email or partner
wait (`Waits`), until `Book` commits it or `Abandon` rolls it back. The addresses themselves,
and `_clear_parent_address`, which swallows its errors, are left out.

**RetryQueue.** `table` is the committed `failed_jobs`. A session keeps what it loaded
(`mem`) and the columns it flushed (`dirty`); commit, rollback and locks work on these. What
the services do to the shared session is the set `Outcomes`. `increment_retry` reads the count
of a job that a rollback expired (`Reload`) before it writes it (`IncrementRetry`). A job's
time is NULL, waiting or due.

**RetryHistory.** `outdated` holds the jobs that a session once updated although another had
changed their row since it was loaded. `excused[j]` counts the failed runs of job j that may be
missing from its count: all so far when the endpoint resets it, one more when its session loses
a count that it has not committed, to a rollback by a later job of the batch or to its own end.

**ProductSync.** A product is its SKU; prices, texts, categories, stock and variants are
abstracted, and a product with variants is handled as a simple one (`VariantSync` has
the variants). `odoo` and `woo` are the
two systems, `rows` the committed `product_mappings`, `jobs` the SKUs with a failed job. A
session reads the products at its start, then handles them one by one. `put` is what it has
flushed: rows it wrote, locked until it ends. `Changed` writes the columns that differ from
the row as loaded, over the row as it is now. A flush that breaks UNIQUE(odoo), UNIQUE(woo)
or UNIQUE(sku), or updates a row that has gone, loses the session (`Lose`): the handler's
own flush raises, and so does the commit. An error that is no API error is only logged, with
no job (`BuildFails`).

**VariantSync.** One product of the shop with the variants it has in Odoo: `odoo` (active,
SKU, stock), `shop` (variations), `rows` and `mapping` (what is committed), `sync` (the one
session, with what it has flushed). A session is *product → variants → next*, and for each
variant *update*, or *search → update_found / create*. An error about one variant is counted
and the next one is handled; a variation that another variant has breaks UNIQUE(woo)
and loses the session (`UpdateFoundRaises`). One session at a time is all there is:
`product_repo.update` flushes `last_sync_at` before the variants, and a second session
waits for that row. `Resolve` is what an order line finds, from the committed rows, with the
last search answered or failing, which `_find_odoo_product_id` takes for finding nothing.

**InventorySync.** Adds `inv`, the run of the inventory sync: it lists the mappings, then
reads a quantity in one step and writes it in a later one, while product sessions, users
and stock moves go on. A simple product is the case of one variant.

**WebhookConfig.** `hooks` are the webhooks of the shop, `caller` the requests to the endpoint.
A call is made of attempts: it is answered, refused (4xx), or not answered (429, 5xx,
timeout), obeyed or not, and made again up to `max_retries` times.

**RateLimiter.** One client and one class. A worker reads the clock (`Arrive`), and its
pipeline runs later (`Decide`), up to `MaxLag` seconds; a member of the set is a second.

## 3. Runs

| Run | Question | Instance |
|---|---|---|
| `OrderSync_core` | With two processes, all topics and sources, are the tables consistent (`NoLostFailure`, `MappedSaleConfirmed`, `AcceptedIsStored`), and do they refine `OrderLedger`? Yes. | 2 orders, 2 processes, 2 arrivals, 2 faults, 1 crash |
| `OrderSync_teams` | What can one process do, however an order is sent, cancelled and sent again? Each stray sale order is explained by a fault or crash; a synced row does not change; the invoice is that of the mapped sale, unless an older one was left alone in Odoo. Is every accepted order settled, does every job end, with one process or two? Yes, under the fairness below. | 1 order, 1 fault; one process with 4 arrivals and 2 crashes, or two with 2 arrivals and 1 crash; no refunds |
| `OrderSync_dup_race` | *violated*: `OneSalePerOrder` | 2 webhooks, 2 processes, no fault |
| `OrderSync_cancel_race` | *violated*: `CancelledOrderHasNoLiveSale` | 3 webhooks, 2 processes, no fault |
| `OrderSync_update_skipped` | *violated*: `UpdatesAreResynced` | 2 webhooks, 1 process, no fault |
| `CustomerSync_core` | Are duplicates bounded, orders booked for the mapped partner, and does every attempt end? Yes. | 1 customer, 2 workers, any number of failures |
| `RetryQueue_teams` | Do overlapping sessions give up no job early, and count every failed run? Yes, but for the runs that a rollback, a session that ends early or a reset explains. Is a pending job left without a time only by an update from an outdated row? Yes; the run reaches that update. Does every job end? Yes, with one session. | 1 session, 3 jobs, batches of 2, 4 failures, 1 crash; or 2 sessions, 2 jobs and a new one, 2 failures; or 2 sessions, 1 job, 4 failures, 2 manual retries |
| `ProductSync_teams` | Do overlapping syncs, a SKU that passes to a new product or is corrected, a deletion, a fault or a crash lose a product or a failure, make the service abandon a product, or leave one behind that no fault explains? No. | 2 products; 2 sessions and 2 troubles, or 1 session and 1 trouble |
| `ProductSync_moved_sku` | *violated*: `EveryProductSynced` | 1 session, no fault |
| `InventorySync_core` | Is each variant on sale once, does every order line find a product, also when the search fails, does the shop show the stock of Odoo in the end? Yes, with the exceptions of section 5. | 2 variants, 3 SKUs, 2 changes by users, 1 stock move, 1 trouble (a fault, a crash or a deletion) |
| `RateLimiter_small` | Is a client within its limit ever refused? No. | 2 workers, window 3, limit 2, lag 2, clock 0..6 |
| `WebhookConfig` | How many duplicates can overlapping and failing requests make, and is the answer true? One for each request and fault; yes. | 2 requests, 2 faults, 1 crash, 1 deletion, any mixture of 4 kinds of webhooks |

The four violations are the findings in `PROJECT.json`:

* **Two sale orders for one order.** The idempotency check (`order_sync.py:133`) reads; the
  row is inserted at the end. Two workers with order-created and order-updated both create.
* **A live sale order under CANCELLED.** Only SYNCED stops an attempt, so one that follows
  or overlaps a cancellation books the order again.
* **An update of a synced order is ignored.** order-updated "re-syncs the order if it has already
  been processed" (`webhooks.py:114`), but a SYNCED row ends the attempt
  (`order_sync.py:133`). `AloneSyncedIsFinal` therefore says nothing of the update's own
  task: it is about everything else that is redelivered, retried or started by hand.
* **A moved SKU stops every full sync.** Product 2, mapped as `b`, is given SKU `a` after
  product 1 has given it up. The row of product 1 still says `a`. WooCommerce refuses the SKU,
  the failure handler flushes the changed mapping, UNIQUE(sku) is violated, and the commit
  of `sync_all_products` raises; the next full sync does the same.

### Bounds

`OrderSync_core` has two orders, for the clauses that relate them (a sale order is booked for
one order only, a retry's job is about its order). Elsewhere one is enough: no step of one
order reads a row of another. Two processes give every race of a check and a write. Ids are
given in order, and `MaxTries = 1` lets one fault use up a task's tries where that matters.
The runs named `teams` choose a case at the start (`team`, `case`), so that the many
arrivals one process needs for its properties are not multiplied by two processes.

Ids are never missing where a step needs one, with two exceptions. `OrderSync_core` stops at
the third sale order, so that two orders can fail twice and crash once; longer sequences of
sale orders are those of `OrderSync_teams` (six). `RetryQueue_teams` bounds the failures
per case: a batch whose counts are rolled back and that fails again to the limit; one rollback
over the count of another job of an overlapping batch, and one new job; enough manual retries
for `PendingHasTimer` to fail without its exception. In
`CustomerSync` ten partner ids are what two parents with two billing and two shipping contacts
each take; partners are finitely many because a worker creates only after a search that found
none. In `ProductSync` the id of a deleted row can be taken again once no session holds it:
nothing refers to the old one. In `InventorySync_core` the trouble is one: a fault, a crash or
a deletion in any step, with two changes, so that a SKU is corrected twice or corrected and
archived around a session; a variant's stock is below zero at first, so that the two
writers disagree. In `WebhookConfig` the shop starts with every subset of a webhook of the
old server, a right one, a refund webhook and a foreign one. In `RateLimiter` the clock runs over two windows.

`CHECK_DEADLOCK FALSE` is set where a run has budgets: a system with no webhook left to
arrive and nothing to do is idle, which is where it should end.

### Fairness, and why the code justifies it

* A process that began a task goes on with it: weak fairness of `Work`, `Calls`.
* Idle slots take tasks and beat starts the queue every minute: weak fairness of `Start`,
  `RunJob`, `BeginQueue`, and of the clock.
* A full product sync is started again and again. Its start competes with manual syncs
  for the slot and beat's message expires after an interval, so this is strong fairness
  of `StartFull`: it assumes that manual syncs do not occupy a worker for ever.
* Beat queues the product sync and the inventory sync: weak fairness of `StartSync`, strong of
  `StartInventory`, which is not enabled while the product is FAILED.
* PostgreSQL wakes the statement that waits for a lock when the holder ends: strong fairness
  of the flushes (`Flushes`, `InsertMapping \/ InsertDuplicate`).
* None for webhooks, users, faults or crashes.

## 4. Proofs

All for every value of the constants; the assumptions are the named ASSUMEs of the modules,
and where a theorem has one of its own it is given here. Each inductive invariant was first
checked by TLC on small instances.

* **OrderSyncProofs.** `Inv == TypeOK /\ Linked` is inductive (`InvHolds`): a task at work
  or in the broker is about an order, and a retry names an existing job row of that order.
  `NoLostFailure`, an order that is FAILED has an open job that no process is about to
  resolve, is inductive together with `Inv` (`FailureNeverLost`). `Linked` is needed because
  `resolve` and `bump` write the row the task names; without it a retry could
  close another order's job. The lemmas say once what each way of ending a step preserves.
  `AcceptedNeverDropped` proves `AcceptedIsStored` by `StoredInv`: an accepted order is
  recorded or a task carries it, and a task of an order that is not recorded has been tried no
  more often than there were faults.
  `Booked` is inductive relative to `Inv`: the sale orders in rows are
  confirmed ones of their order, those in the hands of processes exist, are of the
  process's order and pairwise distinct, and one that awaits confirmation is in no row.
  `MappedSalesConfirmed` follows. The refinement `LedgerImplemented` (`Spec => LedgerSpec`)
  takes each action to a step of the ledger or none: `CommitSynced` books (no other row names
  the sale order, by `Booked`), `HandleError` fails or owes, `ResolveJob` forgives only
  when no other job of the order is open, in which case `NoLostFailure` says that the order
  is not FAILED, and a cancellation closes a row that exists (`Known`).
* **OrderTeamsProofs.** What `OrderSync_teams` asks of a team of one process, for any number of
  orders, arrivals and crashes. Nobody else writes while it works, so the row is still as
  it read it, and not SYNCED during an attempt (`InStep`); `SyncedStays` follows, for every
  task but an update's own.
  `StraysHaveCauses` (no refunds) is a budget. `Adrift(w)` are the sale orders of w that are not
  cancelled, in the hands of an attempt that may still succeed, or named by a SYNCED row that
  is not being cancelled: more than the strays, since a sale order is counted from the
  fault that condemns it, which may be several steps before it is let go. Every step sets
  adrift nothing, or one sale order with a fault or crash (`DriftsNothing`, `DriftsOne`).
  `InvoicesHaveCauses` assumes nothing, neither of faults nor of refunds. A row keeps an old
  invoice id when the attempt that follows makes no invoice, and the sale order it bills is by
  then cancelled, unless the order was given up with its sale order left alone: Odoo refused
  to cancel it, or it was refunded. The history variable `uncancelled` remembers such orders, and
  `InvoiceInv` carries the claim through the attempt and the cancellation in hand.
* **CustomerSyncProofs.** `Inv` holds, beside the types, what a process holds (`Linked`): the
  partner and contacts in its hands exist and belong together, a flushed row excludes the
  committed one, and two processes never hold flushed rows of one email. From it follow
  `BookedOnce` and `BookedTogether`. For `ParentsNeverMany` the invariant is a budget:
  the contacts of a customer and the workers about to create one are together no more
  than the workers (`ParentBudget`), as a worker joins the second group only when the
  first is empty. `ChildrenNeverMany` is the same argument for each parent and type of contact.
* **RetryQueueProofs.** `Inv` holds the types, that the job a session is at has been loaded
  (`Loaded`), and that no count in the table or in a session is above the failures there
  were, a dead letter has `MaxRetries` of them (`Backed`): hence `NeverGivenUpEarly`, for
  any overlap of sessions, rollbacks, resets and kills. `PendingKeepsTimer` and `EveryRunCounted`
  assume nothing either: they speak of the jobs that were never updated from an outdated row
  (`RetryHistory`). For these `HistoryInv` says that what a session holds, written over the
  row as it is now, is the row that it means to write (`Exact`), which has a time if it is
  pending, and that failed runs are the committed count, what is excused, and one for each
  session that has yet to count one or to commit its count (`Debtors`). A step changes what
  its own session owes, no more (`Accounts`).
* **ProductSyncProofs.** `TypeCorrect`, and `FailedNeverForgotten` (`FailedHasJob`) where
  each product has one SKU or there is one session. `OwedInv` says that what a session would
  commit has its jobs too. A handler keeps it if the row has not changed since it was loaded, or
  not its SKU (`Loaded`): the first holds for one session (`AsLoaded`), the second where a
  product has one SKU, since a row then has it for good (`FitInv`). With overlapping sessions *and* corrections TLC refutes it (section 5).
  `NeverAbandoned` (`RemappedOnlyIfGone`) assumes nothing of the kind. The unique constraints
  and the row locks hold for what each session would commit (`ApartInv`). Every row that a
  session writes over a committed one names the same product of the shop, and has either
  its Odoo product or its SKU still (`Follows`); it deletes only the row of a product that is
  gone (`Kept`). What makes that inductive is how the row was found (`Handles`) and that the
  SKUs that a run has read are distinct, so that no later product of the run meets the row
  again with the other half changed (`Snap`, `IsAhead`). A committed row with the product and
  the SKU of an old one then clashes with it, unless the old one was deleted.
  `LeftoversHaveCauses` (one session, SKUs that are never of two products, `n` products on
  sale at the start) is a budget: the products on sale that no row names and no session holds
  (`Strays`) are no more than `n`, the faults, and for each crash the number of products
  (`StrayInv`). What makes it hold step by step is `HomeInv`: row, product of the shop and
  what the session looks for carry SKUs of one product of Odoo, hence no flush ever raises
  (`NeverRaises`) and no run is lost but to a crash. `AloneLeftoversHaveCauses` puts it as
  `ProductSync_teams` checks it, with a SKU that is corrected during the run.
* **InventorySyncProofs.** `Inv` holds the types and the shape of a session: what is set at
  which program counter. `TableInv` says of the table as the session would commit it
  that no two rows share a variant or a variation, and what a row knows of its
  variation: row and variation carry SKUs that the variant has had, and the same one if the row
  is up to date (`Fits`); what a session has read is no older than its rows (`ReadsFit`). `MappedLineNeverLost` follows, with the search answered
  or failing: the mapping of a variation on sale has its SKU, or the variant was renamed
  since (`RenamedTo`), and then the search decides. `CopyInv` bounds, by
  the faults, the variations on sale with a SKU of a variant that no row names, so
  `CopiesHaveCauses`: at most one is named, the rest had a fault each. Every step is one of
  ten kinds (`StepCases`): the session moves in six ways, commits, or the users
  correct or delete, or stock is written; each conjunct is shown once per kind.
* **RateLimiterProofs.** `MembersBounded` needs that any two members lie within one window
  and none is later than the clock; with the lag below the window a late pipeline cannot
  break this. `NeverRefusedWithinLimit`: the members counted for a refusal are seconds
  at which the client sent something, within the window that the pipeline looked at.
  `GenerousLimitIsNoLimit`: a limit of at least `Window` refuses nobody.
* **WebhookConfigProofs.** `AnswerTrue` rests on the loop invariant of the endpoint (`Done`):
  between its list and its answer, a request has made right whatever it has dealt with and
  not recorded as an error. Other requests and repeated attempts can only make a webhook
  right, a deletion leaves its trace (`HookStep`, `DoneKept`), so the property needs no
  bound on overlapping requests. `NextUpdate` and `NextTopic` are the bodies of the loops.
  `CopiesNeverMany` is a budget (`BudgetInv`): the right webhooks of a topic and the
  requests that may still create one are no more than requests and faults together, and
  while a stale one is left, no more than the faults but for those that have it to update.

Every invariant that a run checks is stated by a theorem. Only model-checked: all liveness
(fairness and ENABLED are beyond the prover).

## 5. Limits

Met while modelling, and stated as assumptions of the runs rather than as properties:

* `OrderSync_teams` has no refunds: a refund followed by an update books the order again, and
  `StraysHaveCauses` assumes that none is asked for.
* A mapping can name the invoice of another sale order that is still alive: the order was given
  up with its sale order left alone (a refund, or a cancellation that Odoo refused), was then
  booked again, and Odoo made no invoice for the new sale order. `AloneInvoiceExplained`
  excepts the orders that were once given up so.
* A job can end PENDING with no time to run at, because overlapping sessions write `status`
  and `next_retry_at` apart. It takes an update of a row that another session has changed
  since it was loaded, and `RetryQueue_teams` reaches it; `PendingHasTimer` and
  `EachFailureCounts` except such jobs.
* A failing order attempt rolls back the session of its batch (`order_sync.py:310`), with the
  counts that the jobs before it have only flushed. They run again, so a job can fail more
  often than `max_retries` and need not become a dead letter while each batch ends so,
  although `retry_tasks.py:6` says "After max retries, moves jobs to dead letter queue".
  `EachFailureCounts` says that nothing else loses a count. `AloneJobsEnd` holds because
  failures are finite.
* The limiter counts seconds, not requests: all requests of a second are one member, so a
  client is refused only for more *seconds* with requests than the limit
  (`RefusedOnlyAboveLimit`), and a limit of at least the window refuses nobody.
* With broker and Odoo both down, an accepted order is stored nowhere: the fallback logs in
  to Odoo before it makes the service that records failures (`webhooks.py:221`) and swallows
  the exception, and the webhook answers 200 (`webhooks.py:96`: "Even if dispatch fails, we
  store and will retry"). `AcceptedIsKept` alone fails with two faults. A task whose tries
  all fail at the login is dropped without a failed job. `AcceptedIsStored` assumes no more
  faults than a task has tries, and no more than one where the fallback is used
  (`FewFaults`).
* In `ProductSync_teams`, with two sessions, SKUs are given and taken, not corrected between
  two values. A SKU corrected during an overlap, or handed between two mapped products, can
  strand a product. It can also leave a FAILED row whose job names the old SKU: a session that
  loaded the row before another one marked it FAILED writes the corrected SKU, and only the
  columns that it changed.
* A variant mapping never gets a new SKU or variant (`variant_sync.py:212`,
  `variant_repo.update`). So a variant that is archived and made anew under its SKU has its
  order lines booked for the archived one (`order_sync.py:375`); two variants that pass
  a SKU on share one variation, or lose the product session each time
  (`InventorySyncProps.Reused` excepts these); and the order line of a variant that was
  renamed is dropped when it was then archived or renamed again (`Withdrawn`), or when the
  search for it in Odoo fails (`RenamedTo`).
* A variation deleted in the shop while its product stays is answered 404 for ever
  (`Stranded`); the inventory sync raises that error again (`inventory_sync.py:254`), which
  skips the siblings after it until the product sync writes their stock.
* The product and variant syncs push negative stock (`product_sync.py:615`,
  `variant_sync.py:184`), the inventory sync clips it to 0 (`inventory_sync.py:200`: "Don't
  allow negative stock in WooCommerce"); the shop shows the one that wrote last.
* The webhook endpoint lists `/order-refunded` (`sync_endpoints.py:226`) but creates no such
  webhook, and a webhook of topic order.updated that pointed there is sent to
  `/order-updated`. A topic that is missing while another webhook is right, which a crash or
  a failed creation half way leaves, is never created. Disabled webhooks stay disabled.

Abstractions: PostgreSQL is READ COMMITTED with unique constraints and row locks; Redis
drops no message and its visibility timeout (a second delivery of a task that runs for longer) is left
out; Celery's countdowns are nondeterministic delays; the retry delays are waiting-then-due.

Not modelled: a product whose own SKU is also that of one of its variants (`OwnSku`), a product that turns from simple to variable, two products with variants in one
session, webhooks edited by hand while the endpoint runs, the Odoo session's
re-authentication beyond the bare `Fault` it lets escape, pagination, prices and derived SKUs
(`PricelistHelper`: one record in, one value out); and, because they keep no state, signature checks, error handler, health, logging, schemas,
settings, wiring; one-off scripts, migrations and deployment files.

## 6. Mutants

Each property of a passing run is broken by a plausible fault, stated beside the definition
it replaces.

| Run | Property | Fault |
|---|---|---|
| `OrderSync_core` | `TypeOK` | `RaiseUnboundedMutant`: retries are not limited |
| | `NoLostFailure` | `HandleErrorMutant` |
| | `MappedSaleConfirmed` | `ConfirmFailsMutant` |
| | `AcceptedIsStored` | `CrashMutant`: a task is acknowledged early |
| | `LedgerSpec` | `CheckSkipsMutant`: any mapping counts as done, so a retry of a failed order resolves its job |
| `OrderSync_teams` | `AloneStraysExplained` | `ReadForCancelMutant`: Odoo is not told |
| | `AloneInvoiceExplained`, `AloneSyncedIsFinal` | `CheckProceedsMutant`: no idempotency check |
| | `AcceptedIsSettled` | `RaiseSwallowedMutant` |
| | `JobsEnd` | `ResolveJobMutant`: the job of a successful run is not marked |
| `RetryQueue_teams` | `TypeOK`, `NotGivenUpEarly`, `EachFailureCounts` | `IncrementedStatusMutant`, `IncrementedEarlyMutant`, `IncrementedUncountedMutant` |
| | `PendingHasTimer`, `AloneJobsEnd` | `IncrementedUntimedMutant`: no time for the next run |
| `RateLimiter_small` | `TypeOK`, `RefusedOnlyAboveLimit`, `SetBounded` | `ArriveMutant`, `SlidLongMutant`, `SlidUntrimmedMutant` |
| `CustomerSync_core` | `TypeOK` | `DeliveryFindsNoneMutant`: an order without a shipping contact |
| | `ParentsBounded`, `ChildrenBounded` | `SearchFindsNoneMutant`, `InvoiceFindsNoneMutant`: a search misses what is there |
| | `BookedForMappedPartner` | `InsertDuplicateSwallowedMutant` |
| | `PartnersBelongTogether` | `InvoiceFindsMutant`: the type is not searched for |
| | `AttemptEnds` | `InsertDuplicateRetriedMutant` |
| `ProductSync_teams` | `TypeOK` | `LookupFindsNoneMutant`: the mapping before the product |
| | `FailedHasJob` | `MarkFailedMutant`: no job is created |
| | `AloneLeftoversExplained`, `EveryProductSynced` | `CommitMutant`: the run is not committed |
| | `RemappedOnlyIfGone` | `UpdateNotFoundMutant`: every refusal counts as 404 |
| `InventorySync_core` | `InvTypeOK` | `CreateRefusedMutant`: a mapping without a variation |
| | `CopiesExplained` | `CommitMutant`: the session is not committed |
| | `LineNeverLost` | `ResolveMutant`: the mappings of variants are not looked at |
| | `EveryVariantOnSale` | `ProductNotFoundMutant`: the mappings of the variants stay |
| | `StockSettles` | `UpdateRefusedMutant`: an error about one variant ends the loop |
| `WebhookConfig` | `TypeOK` | `UnansweredMutant`: the last attempt is not looked at |
| | `CopiesBounded` | `ListAnsweredMutant`: a webhook that is right is not counted |
| | `AnswerIsTrue` | `FailUpdateMutant`: an error is not recorded |

## 7. Plan

In this order:

1. `OdooSession`: authenticate and the single re-authentication of `execute_kw`, shared by a
   task's calls.
2. `SkuRules`: derived variant SKUs and the pricelist choice as pure operators, checked
   against a reference definition over bounded inputs.
