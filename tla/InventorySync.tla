--------------------------- MODULE InventorySync ---------------------------
(***************************************************************************)
(* InventorySyncService beside the product sync: two writers of the stock  *)
(* in the shop.  Each reads a quantity in Odoo and writes it later.        *)
(*                                                                         *)
(* A run is sync_all_inventory, which takes the product if it is SYNCED,   *)
(* or sync_product_inventory.  A simple product is the case of one variant *)
(* whose variation is the product.                                         *)
(***************************************************************************)
EXTENDS VariantSync

VARIABLE inv   \* the run of the inventory sync

allVars == <<vars, inv>>

-----------------------------------------------------------------------------
InvPCs == {"idle", "read", "push"}
Run == [pc : InvPCs,
        todo : [RowIds -> Row \cup {None}],    \* variant_mappings as listed
        row : Row \cup {None}, qty : Int,
        product : ProductIds \cup {None}]
NoRun == [pc |-> "idle", todo |-> Unmapped, row |-> None, qty |-> 0, product |-> None]

InvTypeOK == TypeOK /\ inv \in Run

InvInit == Init /\ inv = NoRun

\* Don't allow negative stock in WooCommerce
Clip(n) == IF n < 0 THEN 0 ELSE n

-----------------------------------------------------------------------------
\* list_by_status(SYNCED), then list_by_product
List == inv' = [NoRun EXCEPT !.pc = "read", !.todo = rows, !.product = mapping.woo]
StartInventory ==
    /\ inv.pc = "idle" /\ mapping # None /\ mapping.synced
    /\ List
    /\ UNCHANGED vars

\* get_by_sku: whatever its status
StartOneInventory ==
    /\ inv.pc = "idle" /\ mapping # None
    /\ List
    /\ UNCHANGED vars

IsNextRow(i) ==
    /\ inv.todo[i] # None
    /\ \A j \in RowIds : inv.todo[j] # None => i <= j

ReadStock(i) ==
    /\ inv.pc = "read" /\ IsNextRow(i)
    /\ odoo[inv.todo[i].odoo].active
    /\ inv' = [inv EXCEPT !.pc = "push", !.row = inv.todo[i], !.todo[i] = None,
                          !.qty = Clip(odoo[inv.todo[i].odoo].qty)]
    /\ UNCHANGED vars

\* Odoo's search leaves archived variants out: the mapping is passed over.
ReadNothing(i) ==
    /\ inv.pc = "read" /\ IsNextRow(i)
    /\ ~odoo[inv.todo[i].odoo].active
    /\ inv' = [inv EXCEPT !.todo[i] = None]
    /\ UNCHANGED vars

Reachable(w) == Live(w) /\ shop[w].product = inv.product

\* update_variation_stock
PushStock ==
    LET w == inv.row.woo IN
    /\ inv.pc = "push" /\ Reachable(w)
    /\ shop' = [shop EXCEPT ![w].qty = inv.qty]
    /\ inv' = [inv EXCEPT !.pc = "read", !.row = None, !.qty = 0]
    /\ UNCHANGED <<odoo, carried, changes, products, rows, mapping, sync, moves, faults>>

\* An error is raised again: the variants after it are left out.
PushRefused ==
    /\ inv.pc = "push" /\ ~Reachable(inv.row.woo)
    /\ inv' = NoRun
    /\ UNCHANGED vars

InventoryFails ==
    /\ inv.pc # "idle"
    /\ inv' = NoRun
    /\ Fault
    /\ UNCHANGED <<odoo, carried, changes, products, shop, rows, mapping, sync, moves>>

InventoryEnds ==
    /\ inv.pc = "read" /\ inv.todo = Unmapped
    /\ inv' = NoRun
    /\ UNCHANGED vars

InventorySteps ==
    \/ \E i \in RowIds : ReadStock(i) \/ ReadNothing(i)
    \/ PushStock \/ PushRefused \/ InventoryEnds

InvNext ==
    \/ Next /\ UNCHANGED inv
    \/ StartInventory \/ StartOneInventory \/ InventorySteps \/ InventoryFails

InvSpec == InvInit /\ [][InvNext]_allVars

\* Beat queues both syncs every few minutes, and a worker goes on with its task.
FairInvSpec ==
    /\ InvSpec
    /\ WF_allVars(StartSync /\ UNCHANGED inv) /\ WF_allVars(Steps /\ UNCHANGED inv)
    /\ SF_allVars(StartInventory) /\ WF_allVars(InventorySteps)
=============================================================================
