---------------------------- MODULE VariantSync ----------------------------
(***************************************************************************)
(* VariantSyncService: the variants of one variable product of Odoo become *)
(* variations of one product of the shop, and variant_mappings remembers   *)
(* which is which.  It runs inside the session of a product sync, after    *)
(* the product itself was written, with a few calls to WooCommerce for     *)
(* each variant; what it changes in the database is committed with the     *)
(* session.                                                                *)
(*                                                                         *)
(* One session at a time: product_repo.update writes last_sync_at before   *)
(* the variants are handled, so that a second session waits for the row of *)
(* the product until the first one has committed.                          *)
(*                                                                         *)
(* A variation is its SKU, its product and its stock; prices, attributes   *)
(* and weights are not modelled.  Definitions named ...Mutant are faults   *)
(* that no action uses.                                                    *)
(***************************************************************************)
EXTENDS Integers, FiniteSets

CONSTANTS Variants,     \* product.product ids, in the order Odoo returns them
          SKUs,
          First,        \* First[v]: the SKU of v, or None if it is added later
          SkusOf,       \* SkusOf[v]: the SKUs that users may give to v
          Quantities,   \* the stock levels that occur in Odoo
          ProductIds,   \* bound: the product ids WooCommerce can give, in order
          VariationIds, \* bound: the variation ids WooCommerce can give, in order
          RowIds,       \* bound: the ids of variant_mappings, in order
          MaxChanges,   \* bound: variants renamed or archived in Odoo
          MaxMoves,     \* bound: stock moves in Odoo
          MaxTroubles,  \* bound: dead workers, calls that fail for no reason of
                        \* the data, and deletions in the shop
          OwnSku,       \* the SKU of the product, which WooCommerce lets no variation have
          None

\* Rows of variant_mappings and product_mappings, and what get_product_variants
\* returned for a variant.
Row     == [odoo : Variants, woo : VariationIds, sku : SKUs]
Mapping == [woo : ProductIds, synced : BOOLEAN]
Read    == [sku : SKUs, qty : Quantities]

ASSUME VariantSyncAssumption ==
    /\ Variants \cup ProductIds \cup VariationIds \cup RowIds \subseteq Nat
    /\ IsFiniteSet(VariationIds)
    /\ First \in [Variants -> SKUs \cup {None}] /\ SkusOf \in [Variants -> SUBSET SKUs]
    /\ OwnSku \notin UNION {SkusOf[v] : v \in Variants}
    /\ Quantities \subseteq Int
    /\ MaxChanges \in Nat /\ MaxMoves \in Nat /\ MaxTroubles \in Nat
    /\ None \notin Variants \cup ProductIds \cup VariationIds \cup RowIds \cup SKUs
    /\ None \notin Row \cup Mapping \cup Read

VARIABLES odoo,      \* odoo[v]: is the variant active, its SKU and its stock
          carried,   \* carried[v]: every SKU the variant has had
          changes,   \* how often users have renamed or archived a variant
          products,  \* products[q]: the product of the shop
          shop,      \* shop[w]: a variation
          rows,      \* variant_mappings, committed
          mapping,   \* the row of the product in product_mappings, committed
          sync,      \* the session of the product sync
          moves, faults

catalogue == <<odoo, carried, changes, moves>>
vars == <<odoo, carried, changes, products, shop, rows, mapping, sync, moves, faults>>

-----------------------------------------------------------------------------
Presence == {"absent", "live", "gone"}
Variant   == [active : BOOLEAN, sku : SKUs \cup {None}, qty : Quantities]
Variation == [state : Presence, product : ProductIds \cup {None},
              sku : SKUs \cup {None}, qty : Int]
Sold(q, k, n) == [state |-> "live", product |-> q, sku |-> k, qty |-> n]
NoVariation   == [state |-> "absent", product |-> None, sku |-> None, qty |-> 0]

Unmapped == [i \in RowIds |-> None]
Nothing  == [v \in Variants |-> None]

PCs == {"idle", "product", "variants", "next", "update", "search", "update_found", "create"}
Session == [pc : PCs,
            todo : [Variants -> Read \cup {None}],      \* read, not handled
            variant : Variants \cup {None}, read : Read \cup {None},
            row : RowIds \cup {None},                   \* existing
            found : VariationIds \cup {None},
            rows : [RowIds -> Row \cup {None}],         \* the tables as the session
            mapping : Mapping \cup {None}]              \* sees and has flushed them
Idle == [pc |-> "idle", todo |-> Nothing, variant |-> None, read |-> None, row |-> None,
         found |-> None, rows |-> Unmapped, mapping |-> None]

TypeOK ==
    /\ odoo \in [Variants -> Variant]
    /\ carried \in [Variants -> SUBSET SKUs]
    /\ changes \in 0..MaxChanges
    /\ products \in [ProductIds -> Presence]
    /\ shop \in [VariationIds -> Variation]
    /\ rows \in [RowIds -> Row \cup {None}]
    /\ mapping \in Mapping \cup {None}
    /\ sync \in Session
    /\ moves \in 0..MaxMoves /\ faults \in 0..MaxTroubles

At(pc)      == sync.pc = pc
Live(w)     == shop[w].state = "live"
Carriers(k) == {w \in VariationIds : Live(w) /\ shop[w].sku = k}
Holders(k)  == {v \in Variants : odoo[v].active /\ odoo[v].sku = k}

Init ==
    /\ \E n \in Quantities :
          /\ \A m \in Quantities : m <= n
          /\ odoo = [v \in Variants |-> [active |-> First[v] # None, sku |-> First[v], qty |-> n]]
    /\ carried = [v \in Variants |-> {First[v]} \cap SKUs]
    /\ changes = 0 /\ moves = 0
    /\ products = [q \in ProductIds |-> "absent"]
    /\ shop = [w \in VariationIds |-> NoVariation]
    /\ rows = Unmapped /\ mapping = None
    /\ sync = Idle
    /\ faults = 0

-----------------------------------------------------------------------------
(* The people who use Odoo and the shop                                    *)

\* Odoo refuses a SKU that is in use.  (Bound: no SKU comes back to its variant.)
Give(v, k) ==
    /\ k \in SkusOf[v] \ carried[v] /\ Holders(k) = {}
    /\ odoo' = [odoo EXCEPT ![v].active = TRUE, ![v].sku = k]
    /\ carried' = [carried EXCEPT ![v] = @ \cup {k}]
    /\ UNCHANGED <<products, shop, rows, mapping, sync, moves, faults>>

AddVariant(v, k) == carried[v] = {} /\ Give(v, k) /\ UNCHANGED changes
Rename(v, k) ==
    /\ odoo[v].active /\ changes < MaxChanges
    /\ Give(v, k)
    /\ changes' = changes + 1

\* Odoo archives a variant when its attribute value is taken off the template.
Archive(v) ==
    /\ odoo[v].active /\ changes < MaxChanges
    /\ odoo' = [odoo EXCEPT ![v].active = FALSE]
    /\ changes' = changes + 1
    /\ UNCHANGED <<carried, products, shop, rows, mapping, sync, moves, faults>>

MoveStock(v, n) ==
    /\ odoo[v].active /\ n # odoo[v].qty /\ moves < MaxMoves
    /\ odoo' = [odoo EXCEPT ![v].qty = n]
    /\ moves' = moves + 1
    /\ UNCHANGED <<carried, changes, products, shop, rows, mapping, sync, faults>>

Removed == {w \in VariationIds : shop[w].state = "gone"}
Trouble == faults + Cardinality(Removed) < MaxTroubles
RemoveVariation(w) ==
    /\ Live(w) /\ Trouble
    /\ shop' = [shop EXCEPT ![w].state = "gone"]
    /\ UNCHANGED <<odoo, carried, changes, products, rows, mapping, sync, moves, faults>>

\* The product is deleted with its variations; there is an id for the next one.
RemoveProduct(q) ==
    /\ products[q] = "live" /\ \E r \in ProductIds : products[r] = "absent"
    /\ Trouble
    /\ products' = [products EXCEPT ![q] = "gone"]
    /\ shop' = [w \in VariationIds |->
                   IF Live(w) /\ shop[w].product = q THEN [shop[w] EXCEPT !.state = "gone"]
                   ELSE shop[w]]
    /\ UNCHANGED <<odoo, carried, changes, rows, mapping, sync, moves, faults>>

Fault == Trouble /\ faults' = faults + 1

-----------------------------------------------------------------------------
(* The product, as ProductSync has it for one product with one SKU         *)

Proceed(pc) == sync' = [sync EXCEPT !.pc = pc]
Keep == UNCHANGED <<odoo, carried, changes, moves, rows, mapping>>

StartSync ==
    /\ At("idle")
    /\ sync' = [Idle EXCEPT !.pc = "product", !.rows = rows, !.mapping = mapping]
    /\ Keep /\ UNCHANGED <<products, shop, faults>>

UpdateProduct ==
    /\ At("product") /\ sync.mapping # None
    /\ products[sync.mapping.woo] = "live"
    /\ sync' = [sync EXCEPT !.pc = "variants", !.mapping.synced = TRUE]
    /\ Keep /\ UNCHANGED <<products, shop, faults>>

\* Fault: the mappings of the variants are left.
ProductNotFoundMutant ==
    /\ At("product") /\ sync.mapping # None
    /\ products[sync.mapping.woo] = "gone"
    /\ sync' = [sync EXCEPT !.mapping = None]
    /\ Keep /\ UNCHANGED <<products, shop, faults>>

\* 404: the mapping is deleted, and the mappings of its variants with it.
ProductNotFound ==
    /\ At("product") /\ sync.mapping # None
    /\ products[sync.mapping.woo] = "gone"
    /\ sync' = [sync EXCEPT !.mapping = None, !.rows = Unmapped]
    /\ Keep /\ UNCHANGED <<products, shop, faults>>

NewMapping(q) ==
    sync' = [sync EXCEPT !.pc = "variants", !.mapping = [woo |-> q, synced |-> TRUE]]

AdoptProduct(q) ==
    /\ At("product") /\ sync.mapping = None /\ products[q] = "live"
    /\ NewMapping(q)
    /\ Keep /\ UNCHANGED <<products, shop, faults>>

Fresh(q) ==
    /\ products[q] = "absent" /\ \A r \in ProductIds : r < q => products[r] = "gone"
CreateProduct(q) ==
    /\ At("product") /\ sync.mapping = None /\ Fresh(q)
    /\ products' = [products EXCEPT ![q] = "live"]
    /\ NewMapping(q)
    /\ Keep /\ UNCHANGED <<shop, faults>>

\* No variant is handled: the product is marked FAILED, if it is mapped.
GiveUp == sync' = [sync EXCEPT !.pc = "next",
                      !.mapping = IF sync.mapping = None THEN None
                                  ELSE [sync.mapping EXCEPT !.synced = FALSE]]

CreateProductLost(q) ==
    /\ At("product") /\ sync.mapping = None /\ Fresh(q)
    /\ products' = [products EXCEPT ![q] = "live"]
    /\ GiveUp /\ Fault
    /\ Keep /\ UNCHANGED shop

\* A call about the product fails, or get_product_variants does.  An error that
\* is not of the two clients' own kinds is only logged.
ProductFails ==
    /\ At("product") \/ At("variants")
    /\ GiveUp \/ Proceed("next")
    /\ Fault
    /\ Keep /\ UNCHANGED <<products, shop>>

-----------------------------------------------------------------------------
(* The variants                                                            *)

\* get_product_variants: the active ones.
ReadVariants ==
    /\ At("variants")
    /\ sync' = [sync EXCEPT !.pc = "next",
                   !.todo = [v \in Variants |->
                                IF odoo[v].active THEN [sku |-> odoo[v].sku, qty |-> odoo[v].qty]
                                ELSE None]]
    /\ Keep /\ UNCHANGED <<products, shop, faults>>

IsNext(v) ==
    /\ sync.todo[v] # None
    /\ \A u \in Variants : sync.todo[u] # None => v <= u

ByOdoo(v)   == {i \in RowIds : sync.rows[i] # None /\ sync.rows[i].odoo = v}
BySku(k)    == {i \in RowIds : sync.rows[i] # None /\ sync.rows[i].sku = k}
Existing(v, k) == IF ByOdoo(v) # {} THEN ByOdoo(v) ELSE BySku(k)

Begin(v, pc, i) ==
    sync' = [sync EXCEPT !.pc = pc, !.variant = v, !.read = sync.todo[v], !.row = i,
                         !.todo[v] = None]

FindRow(v, i) ==
    /\ At("next") /\ IsNext(v) /\ i \in Existing(v, sync.todo[v].sku)
    /\ Begin(v, "update", i)
    /\ Keep /\ UNCHANGED <<products, shop, faults>>

FindNoRow(v) ==
    /\ At("next") /\ IsNext(v) /\ Existing(v, sync.todo[v].sku) = {}
    /\ Begin(v, "search", None)
    /\ Keep /\ UNCHANGED <<products, shop, faults>>

\* The session as it goes on to the next variant: after a success, or after an
\* error that sync_variants counts and logs.
Done(table) == [sync EXCEPT !.pc = "next", !.variant = None, !.read = None, !.row = None,
                            !.found = None, !.rows = table]
NextVariant == sync' = Done(sync.rows)

\* _build_attribute_values asks Odoo and fails.
AttributesFail(v) ==
    /\ At("next") /\ IsNext(v)
    /\ sync' = [sync EXCEPT !.todo[v] = None]
    /\ Fault
    /\ Keep /\ UNCHANGED <<products, shop>>

\* WooCommerce finds a variation under its product only, and keeps SKUs distinct.
Accepts(w, k) ==
    /\ Live(w) /\ shop[w].product = sync.mapping.woo
    /\ Carriers(k) \subseteq {w}
Write(w) == shop' = [shop EXCEPT ![w] = Sold(sync.mapping.woo, sync.read.sku, sync.read.qty)]

\* update_variation; of the mapping only sync_status and last_sync_at change.
UpdateVariation ==
    LET w == sync.rows[sync.row].woo IN
    /\ At("update") /\ Accepts(w, sync.read.sku)
    /\ Write(w)
    /\ NextVariant
    /\ Keep /\ UNCHANGED <<products, faults>>

\* Fault: an error for one variant ends the loop.
UpdateRefusedMutant ==
    /\ At("update") /\ ~Accepts(sync.rows[sync.row].woo, sync.read.sku)
    /\ sync' = [Done(sync.rows) EXCEPT !.todo = Nothing]
    /\ Keep /\ UNCHANGED <<products, shop, faults>>

\* 404 or a duplicate SKU: the variant is counted as failed; its mapping stays.
UpdateRefused ==
    /\ At("update") /\ ~Accepts(sync.rows[sync.row].woo, sync.read.sku)
    /\ NextVariant
    /\ Keep /\ UNCHANGED <<products, shop, faults>>

\* _find_woo_variation_by_sku among the variations of the product
Matches == {w \in Carriers(sync.read.sku) : shop[w].product = sync.mapping.woo}

SearchFinds(w) ==
    /\ At("search") /\ w \in Matches
    /\ sync' = [sync EXCEPT !.pc = "update_found", !.found = w]
    /\ Keep /\ UNCHANGED <<products, shop, faults>>

SearchFindsNone ==
    /\ At("search") /\ Matches = {}
    /\ Proceed("create")
    /\ Keep /\ UNCHANGED <<products, shop, faults>>

\* The search swallows its errors: the variant counts as not found.
SearchFails ==
    /\ At("search")
    /\ Proceed("create")
    /\ Fault
    /\ Keep /\ UNCHANGED <<products, shop>>

NewRow(w) == [odoo |-> sync.variant, woo |-> w, sku |-> sync.read.sku]
IsNewRow(i) == sync.rows[i] = None /\ \A j \in RowIds : j < i => sync.rows[j] # None
Insert(i, w) == sync' = Done([sync.rows EXCEPT ![i] = NewRow(w)])
Clashes(w) ==
    \E i \in RowIds : /\ sync.rows[i] # None
                      /\ \/ sync.rows[i].odoo = sync.variant
                         \/ sync.rows[i].woo = w
                         \/ sync.rows[i].sku = sync.read.sku

\* update_variation, then variant_repo.create
UpdateFound(i) ==
    /\ At("update_found") /\ Accepts(sync.found, sync.read.sku)
    /\ IsNewRow(i) /\ ~Clashes(sync.found)
    /\ Write(sync.found)
    /\ Insert(i, sync.found)
    /\ Keep /\ UNCHANGED <<products, faults>>

\* The variation is mapped to another variant.  The flush raises, so does the
\* next one, in log_failure, and the session cannot commit.
UpdateFoundRaises ==
    /\ At("update_found") /\ Accepts(sync.found, sync.read.sku) /\ Clashes(sync.found)
    /\ Write(sync.found)
    /\ sync' = Idle
    /\ Keep /\ UNCHANGED <<products, faults>>

UpdateFoundRefused ==
    /\ At("update_found") /\ ~Accepts(sync.found, sync.read.sku)
    /\ NextVariant
    /\ Keep /\ UNCHANGED <<products, shop, faults>>

\* create_variation, then variant_repo.create
IsNewVariation(w) ==
    /\ shop[w].state = "absent"
    /\ \A u \in VariationIds : u < w => shop[u].state # "absent"
CanCreate == Carriers(sync.read.sku) = {} /\ products[sync.mapping.woo] = "live"
CreateVariation(w, i) ==
    /\ At("create") /\ CanCreate /\ IsNewVariation(w)
    /\ IsNewRow(i) /\ ~Clashes(w)
    /\ Write(w)
    /\ Insert(i, w)
    /\ Keep /\ UNCHANGED <<products, faults>>

\* Fault: the mapping is stored although there is no variation.
CreateRefusedMutant ==
    /\ At("create") /\ ~CanCreate
    /\ \E i \in RowIds : IsNewRow(i) /\ Insert(i, None)
    /\ Keep /\ UNCHANGED <<products, shop, faults>>

CreateRefused ==
    /\ At("create") /\ ~CanCreate
    /\ NextVariant
    /\ Keep /\ UNCHANGED <<products, shop, faults>>

\* The variation is made and the answer lost; posted again, its SKU is refused.
CreateLost(w) ==
    /\ At("create") /\ CanCreate /\ IsNewVariation(w)
    /\ Write(w)
    /\ NextVariant
    /\ Fault
    /\ Keep /\ UNCHANGED products

CallFails ==
    /\ At("update") \/ At("update_found") \/ At("create")
    /\ NextVariant
    /\ Fault
    /\ Keep /\ UNCHANGED <<products, shop>>

-----------------------------------------------------------------------------
\* Fault: the session is closed and not committed.
CommitMutant ==
    /\ At("next") /\ sync.todo = Nothing
    /\ sync' = Idle
    /\ Keep /\ UNCHANGED <<products, shop, faults>>

\* db.commit() at the end of the product sync
Commit ==
    /\ At("next") /\ sync.todo = Nothing
    /\ rows' = sync.rows /\ mapping' = sync.mapping
    /\ sync' = Idle
    /\ UNCHANGED <<odoo, carried, changes, moves, products, shop, faults>>

Crash ==
    /\ ~At("idle")
    /\ sync' = Idle
    /\ Fault
    /\ Keep /\ UNCHANGED <<products, shop>>

-----------------------------------------------------------------------------
(* OrderSyncService._find_odoo_product_id, for the SKU k of an order line: *)
(* the committed mapping of a variant, else any active variant of the      *)
(* product mapped under k, else the active variant Odoo finds by k, else   *)
(* nothing, and the line is left out of the order.  That last search is    *)
(* answered or it fails, which counts as finding nothing.  (If the search  *)
(* by product fails the attempt fails, as OrderSync.PrepareFails has it,   *)
(* and no line is left out.)                                               *)

RowsOf(k) == {i \in RowIds : rows[i] # None /\ rows[i].sku = k}
Active    == {v \in Variants : odoo[v].active}
\* Fault: the mappings of the variants are not looked at.
ResolveMutant(k, answered) ==
    IF mapping # None /\ k = OwnSku /\ Active # {} THEN Active
    ELSE IF answered THEN Holders(k) ELSE {}
Resolve(k, answered) ==
    IF RowsOf(k) # {} THEN {rows[i].odoo : i \in RowsOf(k)}
    ELSE IF mapping # None /\ k = OwnSku /\ Active # {} THEN Active
    ELSE IF answered THEN Holders(k) ELSE {}

-----------------------------------------------------------------------------
Users ==
    \/ \E v \in Variants, k \in SKUs : AddVariant(v, k) \/ Rename(v, k)
    \/ \E v \in Variants : Archive(v) \/ \E n \in Quantities : MoveStock(v, n)
    \/ \E w \in VariationIds : RemoveVariation(w)
    \/ \E q \in ProductIds : RemoveProduct(q)
Steps ==
    \/ UpdateProduct \/ ProductNotFound
    \/ \E q \in ProductIds : AdoptProduct(q) \/ CreateProduct(q)
    \/ ReadVariants
    \/ \E v \in Variants : FindNoRow(v) \/ \E i \in RowIds : FindRow(v, i)
    \/ UpdateVariation \/ UpdateRefused
    \/ SearchFindsNone \/ UpdateFoundRaises \/ UpdateFoundRefused \/ CreateRefused
    \/ \E w \in VariationIds : SearchFinds(w)
    \/ \E i \in RowIds : UpdateFound(i) \/ \E w \in VariationIds : CreateVariation(w, i)
    \/ Commit
Failures ==
    \/ \E q \in ProductIds : CreateProductLost(q)
    \/ \E v \in Variants : AttributesFail(v)
    \/ \E w \in VariationIds : CreateLost(w)
    \/ ProductFails \/ SearchFails \/ CallFails \/ Crash
Next == Users \/ StartSync \/ Steps \/ Failures
Spec == Init /\ [][Next]_vars
=============================================================================
