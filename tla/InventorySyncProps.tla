------------------------- MODULE InventorySyncProps -------------------------
(***************************************************************************)
(* What the variant and the inventory sync should guarantee together.      *)
(* Three of the properties except a SKU that passes from one variant to    *)
(* another: a mapping keeps the SKU and the variant it was made for, so    *)
(* that the second variant is taken for the first one (README, Limits).    *)
(***************************************************************************)
EXTENDS InventorySync

Reused == \E u, v \in Variants : u # v /\ carried[u] \cap carried[v] # {}

MappedTo(v) == {i \in RowIds : rows[i] # None /\ rows[i].odoo = v}

\* The variation of v was deleted in the shop and its product was not: every
\* update is answered 404 and nothing clears the mapping.
Stranded(v) ==
    \E i \in MappedTo(v) : LET s == shop[rows[i].woo] IN
        s.state = "gone" /\ products[s.product] = "live"

-----------------------------------------------------------------------------
\* A variant is on sale once, and once more for each fault: it is looked for by
\* its mapping and by its SKU before it is created, and the mapping of a
\* variation that is created is committed, although several sessions,
\* corrections of the SKU and deletions come in between.
Copies(v) == {w \in VariationIds : Live(w) /\ shop[w].sku \in carried[v]}
CopiesExplained ==
    ~Reused => \A v \in Variants : Cardinality(Copies(v)) <= 1 + faults

\* Also in the middle of a product sync, the order line of a variation that is on
\* sale and mapped is booked for some product of Odoo and not left out of the order,
\* although SKUs are corrected and variants archived in the meantime.  A line can
\* be lost for two reasons only, both of a variant v that was renamed after it
\* was mapped, whose mapping does not know the SKU k of the order: v has since
\* been archived or renamed again, or the search that would find v by k fails,
\* an error that _find_odoo_product_id swallows.
Withdrawn(v, k) == v \notin Holders(k) /\ carried[v] \ {k, odoo[v].sku} # {}
RenamedTo(v, k) == carried[v] \ {k} # {}
LineNeverLost ==
    \A i \in RowIds : rows[i] # None /\ Live(rows[i].woo) =>
        LET v == rows[i].odoo
            k == shop[rows[i].woo].sku
        IN  /\ Resolve(k, TRUE) # {} \/ Withdrawn(v, k)
            /\ Resolve(k, FALSE) # {} \/ RenamedTo(v, k)

-----------------------------------------------------------------------------
\* Once the users leave it alone, every active variant is mapped to a variation of
\* its product that carries its SKU, and stays so: the next product syncs
\* repair what crashes, lost answers, corrections and a deleted product leave.
OnSale(v) ==
    \E i \in MappedTo(v) :
        LET s == shop[rows[i].woo]
        IN  s.state = "live" /\ s.product = mapping.woo /\ s.sku = odoo[v].sku
EveryVariantOnSale ==
    \A v \in Variants : <>[](~odoo[v].active \/ Reused \/ Stranded(v) \/ OnSale(v))

\* Once stock no longer moves, the shop shows the stock of Odoo (or 0 for less
\* than 0, as the inventory sync writes it), although two writers each push
\* what they read earlier; a sibling that was deleted in the shop, which
\* ends every run of the inventory sync, does not keep the others from it.
Right(v, n) == n \in {odoo[v].qty, Clip(odoo[v].qty)}
StockSettles ==
    \A v \in Variants : <>[](
        \/ ~odoo[v].active \/ Reused \/ Stranded(v)
        \/ \A i \in MappedTo(v) : Right(v, shop[rows[i].woo].qty))
=============================================================================
