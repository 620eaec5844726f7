---------------------------- MODULE ProductSync ----------------------------
(***************************************************************************)
(* ProductSyncService: the products of Odoo are written to WooCommerce and *)
(* product_mappings remembers which is which.  A session is one run of     *)
(* sync_all_products or sync_product_by_sku.  It reads the products at its *)
(* start, handles them one at a time with several calls to WooCommerce     *)
(* each, flushes what it changes in the database and commits once, at its  *)
(* end.  A flush that breaks a unique constraint loses the whole session.  *)
(*                                                                         *)
(* A product is its SKU: prices, texts, categories and stock are not       *)
(* modelled, and a product with variants is handled like a simple one.     *)
(* Definitions named ...Mutant are faults that no action uses.             *)
(***************************************************************************)
EXTENDS Naturals, FiniteSets

CONSTANTS Products,     \* product.template ids, in the order Odoo returns them
          SKUs,
          SkusOf,       \* SkusOf[o]: the SKUs, and None, that users may give to o
          WooIds,       \* bound: the product ids WooCommerce can give, in order
          RowIds,       \* bound: the ids product_mappings can give, in order
          Sessions,
          RenameAnyTime, \* may a SKU be corrected while a sync is running?
          MaxFaults,    \* bound: calls that fail for no reason of the products
          MaxCrashes,   \* bound: workers that die
          MaxRemovals,  \* bound: products deleted in the shop
          MaxInShop,    \* bound: products on sale before the first sync
          None,
          Same          \* a row the session has not touched

Status == {"SYNCED", "FAILED"}
Row == [odoo : Products, woo : WooIds, sku : SKUs, status : Status]

ASSUME ProductSyncAssumption ==
    /\ Products \subseteq Nat /\ WooIds \subseteq Nat /\ RowIds \subseteq Nat
    /\ SkusOf \in [Products -> SUBSET (SKUs \cup {None})]
    /\ RenameAnyTime \in BOOLEAN
    /\ MaxFaults \in Nat /\ MaxCrashes \in Nat
    /\ SKUs \cap {"absent", "gone"} = {}
    /\ None \notin Products \cup SKUs \cup WooIds \cup RowIds
    /\ Same # None /\ {None, Same} \cap Row = {}

VARIABLES odoo,     \* odoo[o]: default_code, or None
          renamed,  \* the products whose SKU a user has changed
          woo,      \* woo[w]: the SKU of a product of the shop, "absent" or "gone"
          rows,     \* product_mappings, committed
          jobs,     \* the SKUs that have a failed job, committed
          sess,     \* the state of each session
          faults, crashes

vars == <<odoo, renamed, woo, rows, jobs, sess, faults, crashes>>

-----------------------------------------------------------------------------
Written(o, w, k, st) == [odoo |-> o, woo |-> w, sku |-> k, status |-> st]

PCs == {"idle", "next", "update", "delete", "lookup", "update_found", "create",
        "save", "failed"}
Session == [pc : PCs,
            todo : [Products -> SKUs \cup {None}],   \* read from Odoo, not handled
            product : Products \cup {None}, sku : SKUs \cup {None},
            row : RowIds \cup {None},                \* existing_mapping ...
            was : Row \cup {None},                   \* ... as it was loaded
            found : WooIds \cup {None},              \* woo_product_id
            put : [RowIds -> Row \cup {None, Same}], \* rows flushed; None: deleted
            jobs : SUBSET SKUs]                      \* failed jobs flushed
Fresh(pc, todo) ==
    [pc |-> pc, todo |-> todo, product |-> None, sku |-> None, row |-> None, was |-> None,
     found |-> None, put |-> [i \in RowIds |-> Same], jobs |-> {}]
Nothing == [o \in Products |-> None]
Idle == Fresh("idle", Nothing)

TypeOK ==
    /\ odoo \in [Products -> SKUs \cup {None}]
    /\ renamed \subseteq Products
    /\ woo \in [WooIds -> SKUs \cup {"absent", "gone"}]
    /\ rows \in [RowIds -> Row \cup {None}]
    /\ jobs \subseteq SKUs
    /\ sess \in [Sessions -> Session]
    /\ faults \in 0..MaxFaults /\ crashes \in 0..MaxCrashes

At(s, pc) == sess[s].pc = pc
\* The table as a session sees it: committed rows and its own.
View(s) == [i \in RowIds |-> IF sess[s].put[i] = Same THEN rows[i] ELSE sess[s].put[i]]
Live(w) == woo[w] \in SKUs
Carriers(k) == {w \in WooIds : woo[w] = k}

Free(k, o) == k # None => \A p \in Products \ {o} : odoo[p] # k

\* The shop may sell some of the products already.
Init ==
    /\ odoo \in [Products -> SKUs \cup {None}]
    /\ \A o \in Products : odoo[o] \in SkusOf[o] /\ Free(odoo[o], o)
    /\ woo \in [WooIds -> SKUs \cup {"absent"}]
    /\ \A v, w \in WooIds : v < w /\ Live(w) => Live(v) /\ woo[v] # woo[w]
    /\ Cardinality({w \in WooIds : Live(w)}) <= MaxInShop
    /\ renamed = {}
    /\ rows = [i \in RowIds |-> None]
    /\ jobs = {}
    /\ sess = [s \in Sessions |-> Idle]
    /\ faults = 0 /\ crashes = 0

-----------------------------------------------------------------------------
(* The people who use Odoo and the shop                                    *)

\* A SKU is given, taken away, or corrected, once for each product.
Rename(o, k) ==
    /\ o \notin renamed /\ k # odoo[o]
    /\ k \in SkusOf[o] /\ Free(k, o)
    /\ RenameAnyTime \/ k = None \/ odoo[o] = None \/ \A s \in Sessions : At(s, "idle")
    /\ odoo' = [odoo EXCEPT ![o] = k]
    /\ renamed' = renamed \cup {o}
    /\ UNCHANGED <<woo, rows, jobs, sess, faults, crashes>>

RemoveFromShop(w) ==
    /\ Live(w)
    /\ Cardinality({v \in WooIds : woo[v] = "gone"}) < MaxRemovals
    /\ woo' = [woo EXCEPT ![w] = "gone"]
    /\ UNCHANGED <<odoo, renamed, rows, jobs, sess, faults, crashes>>

Fault == faults < MaxFaults /\ faults' = faults + 1

-----------------------------------------------------------------------------
\* get_product_templates, or search_read for one SKU.  A product without a
\* SKU is skipped.
Start(s, S) ==
    /\ At(s, "idle")
    /\ S # Products => \E o \in S : odoo[o] # None
    /\ sess' = [sess EXCEPT ![s] =
                   Fresh("next", [o \in Products |-> IF o \in S THEN odoo[o] ELSE None])]
    /\ UNCHANGED <<odoo, renamed, woo, rows, jobs, faults, crashes>>

\* _sync_single_product begins with the next product in Odoo's order.
IsNext(s, o) ==
    /\ sess[s].todo[o] # None
    /\ \A p \in Products : sess[s].todo[p] # None => o <= p
Take(s, o, pc, i) ==
    sess' = [sess EXCEPT ![s] = [sess[s] EXCEPT
                !.pc = pc, !.todo[o] = None, !.product = o, !.sku = sess[s].todo[o],
                !.found = None, !.row = i, !.was = IF i = None THEN None ELSE View(s)[i]]]

ByOdoo(s, o) == {i \in RowIds : View(s)[i] # None /\ View(s)[i].odoo = o}
BySku(s, k)  == {i \in RowIds : View(s)[i] # None /\ View(s)[i].sku = k}
Mapping(s, o, k) == IF ByOdoo(s, o) # {} THEN ByOdoo(s, o) ELSE BySku(s, k)

FindMapping(s, o) ==
    /\ At(s, "next") /\ IsNext(s, o)
    /\ \E i \in Mapping(s, o, sess[s].todo[o]) : Take(s, o, "update", i)
    /\ UNCHANGED <<odoo, renamed, woo, rows, jobs, faults, crashes>>

FindNoMapping(s, o) ==
    /\ At(s, "next") /\ IsNext(s, o)
    /\ Mapping(s, o, sess[s].todo[o]) = {}
    /\ Take(s, o, "lookup", None)
    /\ UNCHANGED <<odoo, renamed, woo, rows, jobs, faults, crashes>>

\* _build_woo_product_data asks Odoo for the stock and fails.  An error that is
\* not an OdooAPIError is only logged: no job, no FAILED.
BuildFails(s, o) ==
    /\ At(s, "next") /\ IsNext(s, o)
    /\ \/ Take(s, o, "failed", None)
       \/ sess' = [sess EXCEPT ![s] = [sess[s] EXCEPT !.todo[o] = None]]
    /\ Fault
    /\ UNCHANGED <<odoo, renamed, woo, rows, jobs, crashes>>

-----------------------------------------------------------------------------
(* Calls to WooCommerce, which keeps the SKUs of its products distinct     *)

Accepts(w, k) == Carriers(k) \subseteq {w}
Goto(s, pc)   == sess' = [sess EXCEPT ![s].pc = pc]

\* update_product for the mapped product
UpdateMapped(s) ==
    LET w == sess[s].was.woo IN
    /\ At(s, "update") /\ Live(w) /\ Accepts(w, sess[s].sku)
    /\ woo' = [woo EXCEPT ![w] = sess[s].sku]
    /\ sess' = [sess EXCEPT ![s].pc = "save", ![s].found = w]
    /\ UNCHANGED <<odoo, renamed, rows, jobs, faults, crashes>>

\* Fault: every refusal counts as "not found".
UpdateNotFoundMutant(s) ==
    /\ At(s, "update") /\ ~(Live(sess[s].was.woo) /\ Accepts(sess[s].was.woo, sess[s].sku))
    /\ Goto(s, "delete")
    /\ UNCHANGED <<odoo, renamed, woo, rows, jobs, faults, crashes>>

\* 404: the mapping is cleared.
UpdateNotFound(s) ==
    /\ At(s, "update") /\ woo[sess[s].was.woo] = "gone"
    /\ Goto(s, "delete")
    /\ UNCHANGED <<odoo, renamed, woo, rows, jobs, faults, crashes>>

\* The SKU belongs to another product of the shop.
UpdateRefused(s) ==
    /\ At(s, "update") /\ Live(sess[s].was.woo) /\ ~Accepts(sess[s].was.woo, sess[s].sku)
    /\ Goto(s, "failed")
    /\ UNCHANGED <<odoo, renamed, woo, rows, jobs, faults, crashes>>

\* get_product_by_sku
LookupFinds(s, w) ==
    /\ At(s, "lookup") /\ woo[w] = sess[s].sku
    /\ sess' = [sess EXCEPT ![s].pc = "update_found", ![s].found = w]
    /\ UNCHANGED <<odoo, renamed, woo, rows, jobs, faults, crashes>>

\* Fault: the mapping is stored before the product is created.
LookupFindsNoneMutant(s) ==
    /\ At(s, "lookup") /\ Carriers(sess[s].sku) = {}
    /\ Goto(s, "save")
    /\ UNCHANGED <<odoo, renamed, woo, rows, jobs, faults, crashes>>

LookupFindsNone(s) ==
    /\ At(s, "lookup") /\ Carriers(sess[s].sku) = {}
    /\ Goto(s, "create")
    /\ UNCHANGED <<odoo, renamed, woo, rows, jobs, faults, crashes>>

UpdateFound(s) ==
    LET w == sess[s].found IN
    /\ At(s, "update_found") /\ Live(w) /\ Accepts(w, sess[s].sku)
    /\ woo' = [woo EXCEPT ![w] = sess[s].sku]
    /\ Goto(s, "save")
    /\ UNCHANGED <<odoo, renamed, rows, jobs, faults, crashes>>

UpdateFoundRefused(s) ==
    LET w == sess[s].found IN
    /\ At(s, "update_found") /\ ~(Live(w) /\ Accepts(w, sess[s].sku))
    /\ Goto(s, "failed")
    /\ UNCHANGED <<odoo, renamed, woo, rows, jobs, faults, crashes>>

IsNewId(w) == woo[w] = "absent" /\ \A v \in WooIds : v < w => woo[v] # "absent"
CreateProduct(s, w) ==
    /\ At(s, "create") /\ IsNewId(w) /\ Carriers(sess[s].sku) = {}
    /\ woo' = [woo EXCEPT ![w] = sess[s].sku]
    /\ sess' = [sess EXCEPT ![s].pc = "save", ![s].found = w]
    /\ UNCHANGED <<odoo, renamed, rows, jobs, faults, crashes>>

CreateRefused(s) ==
    /\ At(s, "create") /\ Carriers(sess[s].sku) # {}
    /\ Goto(s, "failed")
    /\ UNCHANGED <<odoo, renamed, woo, rows, jobs, faults, crashes>>

\* The call has its effect and the answer is lost.  _request posts again, and
\* WooCommerce refuses the SKU it already has.
CreateLost(s, w) ==
    /\ At(s, "create") /\ IsNewId(w) /\ Carriers(sess[s].sku) = {}
    /\ woo' = [woo EXCEPT ![w] = sess[s].sku]
    /\ Goto(s, "failed")
    /\ Fault
    /\ UNCHANGED <<odoo, renamed, rows, jobs, crashes>>

\* _request gives up on any call.
CallFails(s) ==
    /\ \E pc \in {"update", "lookup", "update_found", "create"} : At(s, pc)
    /\ Goto(s, "failed")
    /\ Fault
    /\ UNCHANGED <<odoo, renamed, woo, rows, jobs, crashes>>

-----------------------------------------------------------------------------
(* Flushes.  A session waits for the one that holds the row, or a row with *)
(* the same value of a unique column.                                      *)

Clash(r, q) == r # None /\ q # None /\ (r.odoo = q.odoo \/ r.woo = q.woo \/ r.sku = q.sku)
Waits(s, i, r) ==
    \E t \in Sessions \ {s}, j \in RowIds :
        /\ sess[t].put[j] # Same
        /\ j = i \/ Clash(r, rows[j]) \/ Clash(r, sess[t].put[j])
Violates(s, i, r) == \E j \in RowIds \ {i} : Clash(r, View(s)[j])
\* An UPDATE of row i to r raises: the row has gone, or another has the SKU.
Raises(s, i, r) == View(s)[i] = None \/ Violates(s, i, r)

\* The next id: no session has used it.
IsNewRow(i) ==
    LET Taken(j) == \/ rows[j] # None
                    \/ \E t \in Sessions : sess[t].put[j] \notin {Same, None} \/ sess[t].row = j
    IN  ~Taken(i) /\ \A j \in RowIds : j < i => Taken(j)

\* An UPDATE writes the columns that differ from the row as it was loaded (if
\* the row has gone, it writes nothing and Raises).
Changed(s, i, r) ==
    LET was == sess[s].was
        now == IF View(s)[i] = None THEN was ELSE View(s)[i]
    IN  Written(IF r.odoo = was.odoo THEN now.odoo ELSE r.odoo,
                IF r.woo = was.woo THEN now.woo ELSE r.woo,
                IF r.sku = was.sku THEN now.sku ELSE r.sku,
                IF r.status = was.status THEN now.status ELSE r.status)

Put(s, i, r) ==
    sess' = [sess EXCEPT ![s] = [sess[s] EXCEPT
                !.pc = "next", !.put[i] = r, !.product = None, !.sku = None, !.row = None,
                !.was = None, !.found = None]]
Lose(s) ==
    /\ sess' = [sess EXCEPT ![s] = Idle]
    /\ UNCHANGED <<odoo, renamed, woo, rows, jobs, faults, crashes>>

\* product_repo.delete; a row that is gone already is no error.
DeleteMapping(s) ==
    LET i == sess[s].row IN
    /\ At(s, "delete") /\ ~Waits(s, i, None)
    /\ sess' = [sess EXCEPT ![s] = [sess[s] EXCEPT
                   !.pc = "lookup", !.row = None, !.was = None,
                   !.put[i] = IF View(s)[i] = None THEN Same ELSE None]]
    /\ UNCHANGED <<odoo, renamed, woo, rows, jobs, faults, crashes>>

Target(s) == Written(sess[s].product, sess[s].found, sess[s].sku, "SYNCED")

\* product_repo.update of the mapping found
SaveMapping(s) ==
    LET i == sess[s].row
        r == Changed(s, i, Target(s))
    IN  /\ At(s, "save") /\ i # None
        /\ ~Waits(s, i, r) /\ ~Raises(s, i, r)
        /\ Put(s, i, r)
        /\ UNCHANGED <<odoo, renamed, woo, rows, jobs, faults, crashes>>

\* The handler's own flush raises as well, sync_all_products cannot commit,
\* and the task fails.
SaveMappingRaises(s) ==
    LET i == sess[s].row
        r == Changed(s, i, Target(s))
    IN  /\ At(s, "save") /\ i # None
        /\ ~Waits(s, i, r) /\ Raises(s, i, r)
        /\ Lose(s)

\* product_repo.create
InsertMapping(s, i) ==
    /\ At(s, "save") /\ sess[s].row = None /\ IsNewRow(i)
    /\ ~Waits(s, i, Target(s)) /\ ~Violates(s, i, Target(s))
    /\ Put(s, i, Target(s))
    /\ UNCHANGED <<odoo, renamed, woo, rows, jobs, faults, crashes>>

InsertMappingRaises(s) ==
    /\ At(s, "save") /\ sess[s].row = None
    /\ ~Waits(s, None, Target(s)) /\ Violates(s, None, Target(s))
    /\ Lose(s)

-----------------------------------------------------------------------------
(* except (OdooAPIError, WooCommerceAPIError): log_failure flushes what the *)
(* mapping found was given, a failed job is added, and the mapping of the   *)
(* SKU is marked FAILED.                                                    *)

Failing(s) == IF sess[s].row # None THEN {sess[s].row} ELSE BySku(s, sess[s].sku)
StillFound(s, i) == sess[s].was.sku # sess[s].sku \/ i \in BySku(s, sess[s].sku)
FailedRow(s, i) ==
    IF sess[s].row = None THEN [View(s)[i] EXCEPT !.status = "FAILED"]
    ELSE Changed(s, i, Written(sess[s].product, sess[s].was.woo, sess[s].sku,
                               IF StillFound(s, i) THEN "FAILED" ELSE sess[s].was.status))

\* Fault: the mapping is marked and no job is created.
MarkFailedMutant(s, i) ==
    /\ At(s, "failed") /\ i \in Failing(s)
    /\ ~Waits(s, i, FailedRow(s, i)) /\ ~Raises(s, i, FailedRow(s, i))
    /\ Put(s, i, FailedRow(s, i))
    /\ UNCHANGED <<odoo, renamed, woo, rows, jobs, faults, crashes>>

MarkFailed(s, i) ==
    /\ At(s, "failed") /\ i \in Failing(s)
    /\ ~Waits(s, i, FailedRow(s, i)) /\ ~Raises(s, i, FailedRow(s, i))
    /\ sess' = [sess EXCEPT ![s] = [sess[s] EXCEPT
                   !.pc = "next", !.put[i] = FailedRow(s, i), !.jobs = sess[s].jobs \cup {sess[s].sku},
                   !.product = None, !.sku = None, !.row = None, !.was = None, !.found = None]]
    /\ UNCHANGED <<odoo, renamed, woo, rows, jobs, faults, crashes>>

RecordFailure(s) ==
    /\ At(s, "failed") /\ Failing(s) = {}
    /\ sess' = [sess EXCEPT ![s] = [sess[s] EXCEPT
                   !.pc = "next", !.jobs = sess[s].jobs \cup {sess[s].sku},
                   !.product = None, !.sku = None, !.found = None]]
    /\ UNCHANGED <<odoo, renamed, woo, rows, jobs, faults, crashes>>

MarkFailedRaises(s, i) ==
    /\ At(s, "failed") /\ i \in Failing(s)
    /\ ~Waits(s, i, FailedRow(s, i)) /\ Raises(s, i, FailedRow(s, i))
    /\ Lose(s)

-----------------------------------------------------------------------------
\* Fault: what was flushed is not committed.
CommitMutant(s) ==
    /\ At(s, "next") /\ sess[s].todo = Nothing
    /\ Lose(s)

\* db.commit() at the end of the session
Commit(s) ==
    /\ At(s, "next") /\ sess[s].todo = Nothing
    /\ rows' = View(s)
    /\ jobs' = jobs \cup sess[s].jobs
    /\ sess' = [sess EXCEPT ![s] = Idle]
    /\ UNCHANGED <<odoo, renamed, woo, faults, crashes>>

Crash(s) ==
    /\ ~At(s, "idle") /\ crashes < MaxCrashes
    /\ crashes' = crashes + 1
    /\ sess' = [sess EXCEPT ![s] = Idle]
    /\ UNCHANGED <<odoo, renamed, woo, rows, jobs, faults>>

Users == (\E o \in Products, k \in SKUs \cup {None} : Rename(o, k))
         \/ \E w \in WooIds : RemoveFromShop(w)
StartFull(s) == Start(s, Products)
StartOne(s)  == \E o \in Products : Start(s, {o})
Calls(s) ==
    \/ \E o \in Products : FindMapping(s, o) \/ FindNoMapping(s, o)
    \/ UpdateMapped(s) \/ UpdateNotFound(s) \/ UpdateRefused(s)
    \/ \E w \in WooIds : LookupFinds(s, w) \/ CreateProduct(s, w)
    \/ LookupFindsNone(s) \/ UpdateFound(s) \/ UpdateFoundRefused(s) \/ CreateRefused(s)
    \/ RecordFailure(s) \/ Commit(s)
Flushes(s) ==
    \/ DeleteMapping(s) \/ SaveMapping(s) \/ SaveMappingRaises(s) \/ InsertMappingRaises(s)
    \/ \E i \in RowIds : InsertMapping(s, i) \/ MarkFailed(s, i) \/ MarkFailedRaises(s, i)
Failures(s) ==
    \/ \E o \in Products : BuildFails(s, o)
    \/ \E w \in WooIds : CreateLost(s, w)
    \/ CallFails(s) \/ Crash(s)

Next == Users \/ \E s \in Sessions : StartFull(s) \/ StartOne(s) \/ Calls(s)
                                     \/ Flushes(s) \/ Failures(s)

Spec == Init /\ [][Next]_vars

\* Beat queues a full sync every few minutes, a worker goes on with its task,
\* and PostgreSQL wakes the session that waits for a row.
Fairness == \A s \in Sessions :
    /\ SF_vars(StartFull(s)) /\ WF_vars(Calls(s)) /\ SF_vars(Flushes(s))
FairSpec == Spec /\ Fairness
=============================================================================
