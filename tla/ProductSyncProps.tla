-------------------------- MODULE ProductSyncProps --------------------------
(***************************************************************************)
(* The properties of ProductSync.                                          *)
(***************************************************************************)
EXTENDS ProductSync

\* For a mapping that is committed as FAILED a failed job was recorded under
\* its SKU, so that process_retry_queue can sync it again: the two are written
\* by one handler and committed together.  It holds when sessions overlap if
\* each product has one SKU to lose and get, and when SKUs are corrected if
\* sessions do not overlap.  With both, a session that loaded the mapping before
\* another marked it FAILED gives it the corrected SKU, under which no job was
\* recorded: its UPDATE writes only the columns that it changed.
FailedHasJob ==
    \A i \in RowIds :
        rows[i] # None /\ rows[i].status = "FAILED" => rows[i].sku \in jobs

\* The products on sale that nobody knows: no mapping names them, committed or
\* flushed, no session is about to store one, and no sync will look for their
\* SKU.  With one session each was left by a fault or a crash that lost a
\* created product just before its SKU was corrected, or is one of the n products
\* that the shop sold before the first sync.
Leftovers ==
    {w \in WooIds :
        /\ Live(w) /\ \A o \in Products : odoo[o] # woo[w]
        /\ \A i \in RowIds : rows[i] = None \/ rows[i].woo # w
        /\ \A s \in Sessions : /\ sess[s].found # w
                               /\ \A i \in RowIds : View(s)[i] = None \/ View(s)[i].woo # w}
LeftoversExplained(n) ==
    Cardinality(Leftovers) <= n + faults + Cardinality(Products) * crashes

\* The mapping of a product moves to another product of the shop only if the
\* one it pointed to has been deleted there: no refusal, lost answer, crash
\* or overlapping sync makes the service abandon a product that is on sale.
RemappedOnlyIfGone ==
    [][\A i, j \in RowIds :
          /\ rows[i] # None /\ rows'[j] # None
          /\ rows[i].odoo = rows'[j].odoo /\ rows[i].sku = rows'[j].sku
          /\ rows[i].woo # rows'[j].woo
          => woo[rows[i].woo] = "gone"]_vars

\* Every product of Odoo that keeps a SKU is in the end mapped, as SYNCED, to
\* a product of the shop that carries it, and stays so: a later sync_all_products
\* repairs what crashes, lost answers, deletions and corrections leave.  The
\* exception is a SKU that another product of the shop has: it stays FAILED.
MappedAs(o, status) ==
    {i \in RowIds : rows[i] # None /\ rows[i].odoo = o /\ rows[i].sku = odoo[o]
                    /\ rows[i].status = status}
Synced(o)  == \E i \in MappedAs(o, "SYNCED") : woo[rows[i].woo] = odoo[o]
Refused(o) == \E i \in MappedAs(o, "FAILED") : ~Accepts(rows[i].woo, odoo[o])
EveryProductSynced == \A o \in Products : <>[](odoo[o] = None \/ Synced(o) \/ Refused(o))
=============================================================================
