------------------------ MODULE InventorySyncProofs ------------------------
(***************************************************************************)
(* Proofs about VariantSync and InventorySync for any number of variants,  *)
(* corrections and troubles.  Inv gives the types and the shape of the     *)
(* session: which of its locals are set at each step of sync_variants.     *)
(* TableInv says what a row of variant_mappings knows of its variation, in *)
(* the database and in the session: it is of the mapped product, its SKU   *)
(* is one of the variant, and it is still the SKU of the row unless the    *)
(* variant was renamed since.  CopyInv counts the variations that no row   *)
(* names.                                                                  *)
(***************************************************************************)
EXTENDS InventorySyncProps, FiniteSetTheorems, TLAPS

USE VariantSyncAssumption

\* The steps at which a variant is being handled.
Busy == {"update", "search", "update_found", "create"}

\* The locals that are set where the session is.
Shape ==
    /\ sync.pc \in Busy \cup {"variants"} \/ (\E v \in Variants : sync.todo[v] # None)
          => sync.mapping # None
    /\ sync.pc \in {"product", "variants"} => \A v \in Variants : sync.todo[v] = None
    /\ sync.pc \in Busy => sync.variant # None /\ sync.read # None
    /\ sync.pc = "update" => sync.row # None /\ sync.rows[sync.row] # None
    /\ sync.pc = "update_found" => sync.found # None

Inv ==
    /\ InvTypeOK /\ Shape
    /\ \A v \in Variants : odoo[v].active => odoo[v].sku \in carried[v]
    /\ inv.pc = "push" => inv.row # None

-----------------------------------------------------------------------------
\* What row r knows of its variation, under the mapping m of the product, in
\* the shop h, with the SKUs c that the variants carried and the variants o.
Fits(r, m, h, c, o) ==
    /\ m # None /\ h[r.woo].product = m.woo /\ h[r.woo].state # "absent"
    /\ {r.sku, h[r.woo].sku} \subseteq c[r.odoo]
    /\ o[r.odoo].sku = r.sku => h[r.woo].sku = r.sku

AllFit(t, m, h, c, o) ==
    \A i \in RowIds : t[i] # None => Fits(t[i], m, h, c, o)

\* No two rows of a table are of one variant, or of one variation.
Distinct(t) ==
    \A i, j \in RowIds :
        t[i] # None /\ t[j] # None /\ i # j => t[i].odoo # t[j].odoo /\ t[i].woo # t[j].woo

\* SKU k was read for v: v has carried it, and it is not older than the rows.
WasRead(v, k, t, c, o) ==
    /\ k \in c[v]
    /\ \A i \in RowIds : t[i] # None /\ t[i].odoo = v /\ o[v].sku = t[i].sku => k = t[i].sku

ReadsFit ==
    /\ \A v \in Variants :
          sync.todo[v] # None => WasRead(v, sync.todo[v].sku, sync.rows, carried, odoo)
    /\ sync.pc \in Busy =>
          /\ sync.todo[sync.variant] = None
          /\ WasRead(sync.variant, sync.read.sku, sync.rows, carried, odoo)

\* Where the session is with the variant it handles.
Handling ==
    /\ sync.pc = "update" =>
          LET r == sync.rows[sync.row]
          IN  r.odoo = sync.variant \/ r.sku = sync.read.sku
    /\ sync.pc \in {"search", "update_found", "create"} =>
          \A i \in RowIds : sync.rows[i] # None =>
              sync.rows[i].odoo # sync.variant /\ sync.rows[i].sku # sync.read.sku
    /\ sync.pc = "update_found" => shop[sync.found].sku = sync.read.sku

\* What is on sale belongs to a product on sale, under the SKU of a variant.
ShopFits ==
    \A w \in VariationIds : Live(w) =>
        /\ shop[w].product \in ProductIds /\ products[shop[w].product] = "live"
        /\ \E u \in Variants : shop[w].sku \in carried[u]

\* The session starts from the committed tables, and has their rows until the
\* product is gone.
Gone == mapping # None /\ products[mapping.woo] = "gone"
Keeps(t) == \A i \in RowIds : rows[i] # None => t[i] = rows[i]
Snapshot ==
    /\ sync.pc # "idle" => Gone \/ Keeps(sync.rows)
    /\ sync.pc = "product" => sync.mapping \in {None, mapping}

TableInv ==
    /\ AllFit(rows, mapping, shop, carried, odoo) /\ Distinct(rows)
    /\ AllFit(sync.rows, sync.mapping, shop, carried, odoo) /\ Distinct(sync.rows)
    /\ ReadsFit /\ Handling /\ ShopFits /\ Snapshot

-----------------------------------------------------------------------------
\* The variations of v in the shop h that no row of table t names, where the
\* variants carried c: each was left by a fault.
Loose(v, h, c, t) ==
    {w \in VariationIds : /\ h[w].state = "live" /\ h[w].sku \in c[v]
                          /\ \A i \in RowIds : t[i] # None => t[i].woo # w}

\* The table that the next step of a product sync works with.
Table == IF sync.pc = "idle" THEN rows ELSE sync.rows

CopyInv ==
    ~Reused => \A v \in Variants : Cardinality(Loose(v, shop, carried, Table)) <= faults

-----------------------------------------------------------------------------
(* Types                                                                   *)

LEMMA SessionFields ==
  ASSUME NEW x \in Session
  PROVE  /\ x.pc \in PCs /\ x.todo \in [Variants -> Read \cup {None}]
         /\ x.variant \in Variants \cup {None} /\ x.read \in Read \cup {None}
         /\ x.row \in RowIds \cup {None} /\ x.found \in VariationIds \cup {None}
         /\ x.rows \in [RowIds -> Row \cup {None}] /\ x.mapping \in Mapping \cup {None}
BY DEF Session

LEMMA IdleType ==
  /\ Idle \in Session /\ Idle.pc = "idle" /\ Idle.rows = Unmapped /\ Idle.mapping = None
  /\ Idle.todo = Nothing /\ Idle.variant = None /\ Idle.read = None /\ Idle.row = None
  /\ Idle.found = None
BY DEF Idle, Session, PCs, Unmapped, Nothing

LEMMA NoRunType == NoRun \in Run /\ NoRun.pc = "idle" /\ NoRun.row = None
BY DEF NoRun, Run, InvPCs, Unmapped

LEMMA ElementTypes ==
  /\ \A r \in Row : r.odoo \in Variants /\ r.woo \in VariationIds /\ r.sku \in SKUs
  /\ \A m \in Mapping : m.woo \in ProductIds
  /\ \A e \in Read : e.sku \in SKUs /\ e.qty \in Int
  /\ \A s \in Variation : /\ s.state \in Presence /\ s.product \in ProductIds \cup {None}
                          /\ s.sku \in SKUs \cup {None} /\ s.qty \in Int
BY DEF Row, Mapping, Read, Variation

LEMMA TroubleType ==
  ASSUME TypeOK
  PROVE  /\ Trouble => faults < MaxTroubles
         /\ Fault => faults' \in 0..MaxTroubles /\ faults' = faults + 1
<1>1. IsFiniteSet(Removed)
  BY FS_Subset DEF Removed
<1>2. Cardinality(Removed) \in Nat
  BY <1>1, FS_CardinalityType
<1> QED
  BY <1>2 DEF Trouble, Fault, TypeOK

LEMMA InitInv == InvInit => Inv
<1> SUFFICES ASSUME InvInit PROVE Inv
  BY DEF InvInit
<1>1. PICK n \in Quantities :
         odoo = [v \in Variants |-> [active |-> First[v] # None, sku |-> First[v], qty |-> n]]
  BY DEF InvInit, Init
<1>2. odoo \in [Variants -> Variant]
  BY <1>1 DEF Variant
<1>3. NoVariation \in Variation
  BY DEF NoVariation, Variation, Presence
<1>4. TypeOK
  <2>1. carried \in [Variants -> SUBSET SKUs] /\ products \in [ProductIds -> Presence]
    BY DEF InvInit, Init, Presence
  <2>2. shop \in [VariationIds -> Variation] /\ rows \in [RowIds -> Row \cup {None}]
    BY <1>3 DEF InvInit, Init, Unmapped
  <2> QED
    BY <1>2, <2>1, <2>2, IdleType DEF InvInit, Init, TypeOK
<1>5. Shape
  BY IdleType DEF InvInit, Init, Shape, Busy, Nothing
<1>6. \A v \in Variants : odoo[v].active => odoo[v].sku \in carried[v]
  BY <1>1 DEF InvInit, Init
<1> QED
  BY <1>4, <1>5, <1>6, NoRunType DEF Inv, InvTypeOK, InvInit

-----------------------------------------------------------------------------
(* What the steps of the session do to its record                          *)

\* It goes on to the next variant, or has none to handle.
Leaves ==
    /\ sync.pc # "idle" /\ sync'.pc \in {"variants", "next"}
    /\ \A v \in Variants : sync'.todo[v] \in {sync.todo[v], None}
    /\ sync'.rows = sync.rows
    /\ sync'.mapping = None <=> sync.mapping = None
    /\ sync.mapping # None => sync'.mapping.woo = sync.mapping.woo
    /\ sync'.pc = "variants" => sync.pc = "product" /\ sync.mapping # None

\* It is with a variant, and goes on with it.
Works ==
    /\ sync.pc = "search" /\ sync'.pc \in {"update_found", "create"}
    /\ sync'.todo = sync.todo /\ sync'.variant = sync.variant /\ sync'.read = sync.read
    /\ sync'.rows = sync.rows /\ sync'.mapping = sync.mapping
    /\ sync'.pc = "update_found" =>
          sync'.found \in VariationIds /\ shop[sync'.found].sku = sync.read.sku

\* It turns to variant v, with the row that it finds or with none.
Begins(v) ==
    /\ sync.pc = "next" /\ sync.todo[v] # None
    /\ sync'.variant = v /\ sync'.read = sync.todo[v]
    /\ sync'.todo = [sync.todo EXCEPT ![v] = None]
    /\ sync'.rows = sync.rows /\ sync'.mapping = sync.mapping
    /\ \/ /\ sync'.pc = "update" /\ sync'.row \in RowIds /\ sync.rows[sync'.row] # None
          /\ \/ sync.rows[sync'.row].odoo = v
             \/ sync.rows[sync'.row].sku = sync.todo[v].sku
       \/ /\ sync'.pc = "search"
          /\ \A i \in RowIds : sync.rows[i] # None =>
                sync.rows[i].odoo # v /\ sync.rows[i].sku # sync.todo[v].sku

\* It reads the variants.
Reads ==
    /\ sync.pc = "variants" /\ sync'.pc = "next"
    /\ \A v \in Variants : sync'.todo[v] # None => odoo[v].active /\ sync'.todo[v].sku = odoo[v].sku
    /\ sync'.rows = sync.rows /\ sync'.mapping = sync.mapping

\* It starts, from the tables.
Starts ==
    /\ sync.pc = "idle" /\ sync'.pc = "product" /\ sync'.todo = Nothing
    /\ sync'.rows = rows /\ sync'.mapping = mapping

\* It has no mapping for the product any more, and none for its variants.
Forgets ==
    /\ sync.pc = "product" /\ sync'.pc = "product"
    /\ sync.mapping # None /\ products[sync.mapping.woo] = "gone"
    /\ sync'.todo = sync.todo /\ sync'.rows = Unmapped /\ sync'.mapping = None

\* It maps the product.
Maps ==
    /\ sync.pc = "product" /\ sync'.pc = "variants" /\ sync.mapping = None
    /\ sync'.todo = sync.todo /\ sync'.rows = sync.rows /\ sync'.mapping \in Mapping

\* It maps its variant to variation w, and goes on to the next one.
Inserts(w, i) ==
    /\ sync.pc \in {"update_found", "create"} /\ sync'.pc = "next"
    /\ sync.rows[i] = None /\ ~Clashes(w) /\ NewRow(w) \in Row
    /\ sync'.rows = [sync.rows EXCEPT ![i] = NewRow(w)]
    /\ sync'.todo = sync.todo /\ sync'.mapping = sync.mapping

\* It ends; what it has not committed is lost.
Ends == sync.pc # "idle" /\ sync' = Idle

LEMMA GoStep ==
  ASSUME TypeOK, NEW pc \in {"create", "update_found"}, sync.pc = "search",
         NEW f \in VariationIds \cup {None}, sync' = [sync EXCEPT !.pc = pc, !.found = f],
         pc = "update_found" => f \in VariationIds /\ shop[f].sku = sync.read.sku
  PROVE  sync' \in Session /\ Works
<1>1. sync' \in Session
  BY DEF TypeOK, Session, PCs
<1> QED
  BY <1>1 DEF Works, TypeOK, Session

LEMMA LeaveStep ==
  ASSUME TypeOK, NextVariant, sync.pc # "idle"
  PROVE  sync' \in Session /\ Leaves /\ sync'.todo = sync.todo /\ sync'.mapping = sync.mapping
         /\ sync'.pc = "next"
<1>1. sync' \in Session
  BY DEF TypeOK, Session, PCs, NextVariant, Done
<1>2. /\ sync'.todo = sync.todo /\ sync'.mapping = sync.mapping /\ sync'.pc = "next"
      /\ sync'.rows = sync.rows
  BY DEF TypeOK, Session, NextVariant, Done
<1> QED
  BY <1>1, <1>2 DEF Leaves

LEMMA SkipStep ==
  ASSUME TypeOK, sync.pc = "next", NEW v \in Variants, sync' = [sync EXCEPT !.todo[v] = None]
  PROVE  sync' \in Session /\ Leaves
<1>1. PICK todo \in [Variants -> Read \cup {None}] : todo = [sync.todo EXCEPT ![v] = None]
  BY DEF TypeOK, Session
<1>2. sync' = [sync EXCEPT !.todo = todo]
  BY <1>1 DEF TypeOK, Session
<1>3. sync' \in Session /\ sync'.todo = todo /\ sync'.pc = sync.pc /\ sync'.rows = sync.rows
      /\ sync'.mapping = sync.mapping
  BY <1>2 DEF TypeOK, Session
<1> QED
  BY <1>1, <1>3 DEF Leaves

LEMMA GiveUpStep ==
  ASSUME TypeOK, GiveUp, sync.pc # "idle"
  PROVE  sync' \in Session /\ Leaves
<1>1. PICK m \in Mapping \cup {None} :
         m = IF sync.mapping = None THEN None ELSE [sync.mapping EXCEPT !.synced = FALSE]
  BY DEF TypeOK, Session, Mapping
<1>2. /\ m = None <=> sync.mapping = None
      /\ sync.mapping # None => m.woo = sync.mapping.woo
  BY <1>1 DEF TypeOK, Session, Mapping
<1>3. sync' = [sync EXCEPT !.pc = "next", !.mapping = m]
  BY <1>1 DEF GiveUp
<1>4. sync' \in Session /\ sync'.todo = sync.todo /\ sync'.pc = "next" /\ sync'.rows = sync.rows
      /\ sync'.mapping = m
  BY <1>3 DEF TypeOK, Session, PCs
<1> QED
  BY <1>2, <1>4 DEF Leaves

LEMMA UpdateProductStep ==
  ASSUME TypeOK, UpdateProduct
  PROVE  sync' \in Session /\ Leaves
<1>1. PICK m \in Mapping : m = [sync.mapping EXCEPT !.synced = TRUE]
  BY DEF TypeOK, Session, Mapping, UpdateProduct
<1>2. m # None /\ m.woo = sync.mapping.woo
  BY <1>1 DEF TypeOK, Session, Mapping, UpdateProduct
<1>3. sync' = [sync EXCEPT !.pc = "variants", !.mapping = m]
  BY <1>1 DEF UpdateProduct, TypeOK, Session
<1>4. sync' \in Session /\ sync'.todo = sync.todo /\ sync'.pc = "variants"
      /\ sync'.rows = sync.rows /\ sync'.mapping = m
  BY <1>3 DEF TypeOK, Session, PCs
<1> QED
  BY <1>2, <1>4 DEF Leaves, UpdateProduct, At

LEMMA BeginStep ==
  ASSUME TypeOK, NEW v \in Variants, FindNoRow(v) \/ \E i \in RowIds : FindRow(v, i)
  PROVE  sync' \in Session /\ Begins(v)
<1>1. PICK k \in SKUs : k = sync.todo[v].sku
  BY SessionFields, ElementTypes DEF TypeOK, FindNoRow, FindRow, IsNext
<1>2. PICK pc \in {"update", "search"}, i \in RowIds \cup {None} :
         /\ Begin(v, pc, i) /\ sync.pc = "next" /\ sync.todo[v] # None
         /\ pc = "update" => /\ i \in RowIds /\ sync.rows[i] # None
                             /\ sync.rows[i].odoo = v \/ sync.rows[i].sku = k
         /\ pc = "search" =>
               \A j \in RowIds : sync.rows[j] # None =>
                  sync.rows[j].odoo # v /\ sync.rows[j].sku # k
  BY <1>1 DEF FindNoRow, FindRow, IsNext, Existing, ByOdoo, BySku, At
<1>3. PICK todo \in [Variants -> Read \cup {None}] : todo = [sync.todo EXCEPT ![v] = None]
  BY DEF TypeOK, Session
<1>4. PICK e \in Read : e = sync.todo[v]
  BY <1>2, SessionFields DEF TypeOK
<1>5. sync' = [sync EXCEPT !.pc = pc, !.variant = v, !.read = e, !.row = i, !.todo = todo]
  BY <1>2, <1>3, <1>4 DEF Begin, TypeOK, Session
<1>6. sync' \in Session
  BY <1>5 DEF TypeOK, Session, PCs
<1>7. /\ sync'.pc = pc /\ sync'.variant = v /\ sync'.read = e /\ sync'.row = i
      /\ sync'.todo = todo /\ sync'.rows = sync.rows /\ sync'.mapping = sync.mapping
  BY <1>5 DEF TypeOK, Session
<1> QED
  BY <1>1, <1>2, <1>3, <1>4, <1>6, <1>7 DEF Begins

LEMMA ReadStep ==
  ASSUME Inv, ReadVariants
  PROVE  sync' \in Session /\ Reads
<1>1. \A v \in Variants : odoo[v].active => odoo[v].sku \in SKUs /\ odoo[v].qty \in Quantities
  BY DEF Inv, InvTypeOK, TypeOK, Variant
<1>2. PICK todo \in [Variants -> Read \cup {None}] :
         todo = [v \in Variants |-> IF odoo[v].active
                                    THEN [sku |-> odoo[v].sku, qty |-> odoo[v].qty] ELSE None]
  BY <1>1 DEF Read
<1>3. sync' = [sync EXCEPT !.pc = "next", !.todo = todo] /\ sync.pc = "variants"
  BY <1>2 DEF ReadVariants, At
<1>4. /\ sync' \in Session /\ sync'.pc = "next" /\ sync'.todo = todo
      /\ sync'.rows = sync.rows /\ sync'.mapping = sync.mapping
  BY <1>3 DEF Inv, InvTypeOK, TypeOK, Session, PCs
<1> QED
  BY <1>2, <1>3, <1>4 DEF Reads

LEMMA StartStep ==
  ASSUME TypeOK, StartSync
  PROVE  sync' \in Session /\ Starts
<1>1. /\ sync' \in Session /\ sync'.pc = "product" /\ sync'.todo = Nothing
      /\ sync'.rows = rows /\ sync'.mapping = mapping
  BY IdleType DEF StartSync, TypeOK, Session, PCs
<1> QED
  BY <1>1 DEF Starts, StartSync, At

LEMMA ForgetStep ==
  ASSUME TypeOK, ProductNotFound
  PROVE  sync' \in Session /\ Forgets
<1>1. Unmapped \in [RowIds -> Row \cup {None}]
  BY DEF Unmapped
<1>2. /\ sync' \in Session /\ sync'.pc = sync.pc /\ sync'.todo = sync.todo
      /\ sync'.rows = Unmapped /\ sync'.mapping = None
  BY <1>1 DEF ProductNotFound, TypeOK, Session
<1> QED
  BY <1>2 DEF Forgets, ProductNotFound, At

LEMMA MapStep ==
  ASSUME TypeOK, NEW q \in ProductIds, At("product"), sync.mapping = None, NewMapping(q)
  PROVE  sync' \in Session /\ Maps
<1>1. PICK m \in Mapping : m = [woo |-> q, synced |-> TRUE]
  BY DEF Mapping
<1>2. /\ sync' \in Session /\ sync'.pc = "variants" /\ sync'.todo = sync.todo
      /\ sync'.rows = sync.rows /\ sync'.mapping = m
  BY <1>1 DEF NewMapping, TypeOK, Session, PCs
<1> QED
  BY <1>1, <1>2 DEF Maps, At

LEMMA InsertStep ==
  ASSUME TypeOK, Shape, NEW w \in VariationIds, NEW i \in RowIds, Insert(i, w),
         sync.pc \in {"update_found", "create"}, IsNewRow(i), ~Clashes(w)
  PROVE  sync' \in Session /\ Inserts(w, i)
<1>1. NewRow(w) \in Row
  BY SessionFields, ElementTypes DEF NewRow, Row, Shape, Busy, TypeOK
<1>2. PICK t \in [RowIds -> Row \cup {None}] : t = [sync.rows EXCEPT ![i] = NewRow(w)]
  BY <1>1, SessionFields DEF TypeOK
<1>3. /\ sync' \in Session /\ sync'.pc = "next" /\ sync'.todo = sync.todo
      /\ sync'.rows = t /\ sync'.mapping = sync.mapping
  BY <1>2 DEF Insert, Done, TypeOK, Session, PCs
<1> QED
  BY <1>1, <1>2, <1>3 DEF Inserts, IsNewRow

-----------------------------------------------------------------------------
(* The kinds of steps                                                      *)

\* The variations stay what they are, but for their stock.
ShopKept ==
    \A w \in VariationIds : /\ shop'[w].state = shop[w].state
                            /\ shop'[w].product = shop[w].product /\ shop'[w].sku = shop[w].sku

\* Variation w goes on sale for the variant of the session.
Sells(w) ==
    /\ sync.pc \in Busy /\ sync.read \in Read /\ sync.mapping \in Mapping
    /\ shop'[w].state = "live" /\ shop'[w].product = sync.mapping.woo
    /\ shop'[w].sku = sync.read.sku
    /\ \A u \in VariationIds \ {w} : shop'[u] = shop[u]

\* The session does not commit, and leaves the products of the shop on sale.
Apart ==
    /\ UNCHANGED <<odoo, carried, changes, moves, rows, mapping, inv>>
    /\ sync' \in Session /\ shop' \in [VariationIds -> Variation]
    /\ products' \in [ProductIds -> Presence]
    /\ \A q \in ProductIds : products[q] # "absent" => products'[q] = products[q]
    /\ faults' \in 0..MaxTroubles /\ faults' \in {faults, faults + 1}

Quiet ==
    /\ Apart /\ ShopKept
    /\ \/ Leaves \/ Works \/ Reads \/ Starts \/ Forgets \/ Maps
       \/ \E v \in Variants : Begins(v)

\* update_variation, for the row of the session
Overwrites ==
    \E w \in VariationIds :
        /\ Apart /\ Leaves /\ sync'.todo = sync.todo
        /\ sync.pc = "update" /\ w = sync.rows[sync.row].woo /\ Accepts(w, sync.read.sku)
        /\ Sells(w)

\* A variation is found or created, and mapped.
Places ==
    \E w \in VariationIds, i \in RowIds :
        /\ Apart /\ Inserts(w, i) /\ Sells(w)
        /\ \/ sync.pc = "update_found" /\ w = sync.found /\ Accepts(w, sync.read.sku)
           \/ sync.pc = "create" /\ CanCreate /\ IsNewVariation(w)

\* It is created and not mapped.
Strays ==
    \E w \in VariationIds :
        /\ Apart /\ Leaves /\ Sells(w) /\ faults' = faults + 1
        /\ sync.pc = "create" /\ CanCreate /\ IsNewVariation(w)

Dies == Apart /\ Ends /\ ShopKept /\ faults' = faults + 1

\* The row of a variation that has one is refused.
Raises ==
    /\ Apart /\ Ends /\ Sells(sync.found)
    /\ sync.pc = "update_found" /\ sync.found \in VariationIds
    /\ Accepts(sync.found, sync.read.sku) /\ Clashes(sync.found)

SessionMoves == Quiet \/ Overwrites \/ Places \/ Strays \/ Dies \/ Raises

LEMMA KeptByEquality == ASSUME UNCHANGED shop PROVE ShopKept
BY DEF ShopKept

LEMMA WriteStep ==
  ASSUME Inv, NEW w \in VariationIds, Write(w), sync.pc \in Busy
  PROVE  shop' \in [VariationIds -> Variation] /\ Sells(w)
<1>1. sync.read \in Read /\ sync.mapping \in Mapping
  BY SessionFields DEF Inv, InvTypeOK, TypeOK, Shape
<1>2. PICK s \in Variation : s = Sold(sync.mapping.woo, sync.read.sku, sync.read.qty)
  BY <1>1, ElementTypes DEF Sold, Variation, Presence
<1>3. /\ s.state = "live" /\ s.product = sync.mapping.woo /\ s.sku = sync.read.sku
  BY <1>2 DEF Sold
<1>4. shop' = [shop EXCEPT ![w] = s]
  BY <1>2 DEF Write
<1> QED
  BY <1>1, <1>3, <1>4 DEF Sells, Inv, InvTypeOK, TypeOK

\* The steps that write nothing to the shop.
LEMMA StillApart ==
  ASSUME TypeOK, UNCHANGED inv, Keep, UNCHANGED <<products, shop>>, sync' \in Session,
         UNCHANGED faults \/ Fault
  PROVE  Apart /\ ShopKept
<1>1. faults' \in 0..MaxTroubles /\ faults' \in {faults, faults + 1}
  BY TroubleType DEF TypeOK
<1> QED
  BY <1>1, KeptByEquality DEF Apart, Keep, TypeOK

\* The steps that write a variation.
LEMMA WritingApart ==
  ASSUME Inv, UNCHANGED inv, Keep, UNCHANGED products, sync' \in Session,
         NEW w \in VariationIds, Write(w), sync.pc \in Busy, UNCHANGED faults \/ Fault
  PROVE  Apart /\ Sells(w)
<1>1. faults' \in 0..MaxTroubles /\ faults' \in {faults, faults + 1}
  BY TroubleType DEF Inv, InvTypeOK, TypeOK
<1> QED
  BY <1>1, WriteStep DEF Apart, Keep, Inv, InvTypeOK, TypeOK

\* The steps that make a product.
LEMMA MakingApart ==
  ASSUME TypeOK, UNCHANGED inv, Keep, UNCHANGED shop, sync' \in Session,
         NEW q \in ProductIds, Fresh(q), products' = [products EXCEPT ![q] = "live"],
         UNCHANGED faults \/ Fault
  PROVE  Apart /\ ShopKept
<1>1. faults' \in 0..MaxTroubles /\ faults' \in {faults, faults + 1}
  BY TroubleType DEF TypeOK
<1>2. products' \in [ProductIds -> Presence]
  BY DEF TypeOK, Presence
<1>3. \A r \in ProductIds : products[r] # "absent" => products'[r] = products[r]
  BY DEF TypeOK, Fresh
<1> QED
  BY <1>1, <1>2, <1>3, KeptByEquality DEF Apart, Keep, TypeOK

LEMMA StartMoves == ASSUME Inv, StartSync, UNCHANGED inv PROVE SessionMoves
<1>1. sync' \in Session /\ Starts
  BY StartStep DEF Inv, InvTypeOK
<1>2. Apart /\ ShopKept
  BY <1>1, StillApart DEF StartSync, Inv, InvTypeOK
<1> QED
  BY <1>1, <1>2 DEF SessionMoves, Quiet

LEMMA StepMoves == ASSUME Inv, Steps, UNCHANGED inv PROVE SessionMoves \/ Commit
<1> TypeOK /\ Shape
  BY DEF Inv, InvTypeOK
<1>1. CASE UpdateProduct
  <2>1. sync' \in Session /\ Leaves
    BY <1>1, UpdateProductStep
  <2> QED
    BY <1>1, <2>1, StillApart DEF UpdateProduct, SessionMoves, Quiet
<1>2. CASE ProductNotFound
  <2>1. sync' \in Session /\ Forgets
    BY <1>2, ForgetStep
  <2> QED
    BY <1>2, <2>1, StillApart DEF ProductNotFound, SessionMoves, Quiet
<1>3. CASE \E q \in ProductIds : AdoptProduct(q) \/ CreateProduct(q)
  <2>1. PICK q \in ProductIds : AdoptProduct(q) \/ CreateProduct(q)
    BY <1>3
  <2>2. sync' \in Session /\ Maps
    BY <2>1, MapStep DEF AdoptProduct, CreateProduct
  <2>3. Apart /\ ShopKept
    <3>1. CASE AdoptProduct(q)
      BY <3>1, <2>2, StillApart DEF AdoptProduct
    <3>2. CASE CreateProduct(q)
      BY <3>2, <2>2, MakingApart DEF CreateProduct
    <3> QED
      BY <2>1, <3>1, <3>2
  <2> QED
    BY <2>2, <2>3 DEF SessionMoves, Quiet
<1>4. CASE ReadVariants
  <2>1. sync' \in Session /\ Reads
    BY <1>4, ReadStep
  <2> QED
    BY <1>4, <2>1, StillApart DEF ReadVariants, SessionMoves, Quiet
<1>5. CASE \E v \in Variants : FindNoRow(v) \/ \E i \in RowIds : FindRow(v, i)
  <2>1. PICK v \in Variants : FindNoRow(v) \/ \E i \in RowIds : FindRow(v, i)
    BY <1>5
  <2>2. sync' \in Session /\ Begins(v)
    BY <2>1, BeginStep
  <2>3. Keep /\ UNCHANGED <<products, shop, faults>>
    BY <2>1 DEF FindNoRow, FindRow
  <2> QED
    BY <2>2, <2>3, StillApart DEF SessionMoves, Quiet
<1>6. CASE UpdateVariation
  <2>1. sync.pc = "update" /\ sync.row \in RowIds /\ sync.rows[sync.row] \in Row
    BY <1>6, SessionFields DEF UpdateVariation, At, Shape, TypeOK
  <2>2. PICK w \in VariationIds : w = sync.rows[sync.row].woo
    BY <2>1, ElementTypes
  <2>3. sync' \in Session /\ Leaves /\ sync'.todo = sync.todo
    BY <1>6, <2>1, LeaveStep DEF UpdateVariation
  <2>4. Write(w) /\ Accepts(w, sync.read.sku) /\ Keep /\ UNCHANGED <<products, faults>>
    BY <1>6, <2>2 DEF UpdateVariation
  <2>5. Apart /\ Sells(w)
    BY <2>1, <2>3, <2>4, WritingApart DEF Busy
  <2>6. Overwrites
    BY <2>1, <2>2, <2>3, <2>4, <2>5 DEF Overwrites
  <2> QED
    BY <2>6 DEF SessionMoves
<1>7. CASE UpdateRefused \/ UpdateFoundRefused \/ CreateRefused
  <2>1. NextVariant /\ sync.pc # "idle" /\ Keep /\ UNCHANGED <<products, shop, faults>>
    BY <1>7 DEF UpdateRefused, UpdateFoundRefused, CreateRefused, At
  <2>2. sync' \in Session /\ Leaves
    BY <2>1, LeaveStep
  <2> QED
    BY <2>1, <2>2, StillApart DEF SessionMoves, Quiet
<1>8. CASE SearchFindsNone \/ \E w \in VariationIds : SearchFinds(w)
  <2>1. sync' \in Session /\ Works
    <3>1. CASE SearchFindsNone
      <4>1. sync' = [sync EXCEPT !.pc = "create", !.found = sync.found]
        BY <3>1 DEF SearchFindsNone, Proceed, TypeOK, Session
      <4>2. sync.found \in VariationIds \cup {None}
        BY SessionFields DEF TypeOK
      <4> QED
        BY <3>1, <4>1, <4>2, GoStep DEF SearchFindsNone, At
    <3>2. CASE \E w \in VariationIds : SearchFinds(w)
      BY <3>2, GoStep DEF SearchFinds, At, Matches, Carriers
    <3> QED
      BY <1>8, <3>1, <3>2
  <2>2. Keep /\ UNCHANGED <<products, shop, faults>>
    BY <1>8 DEF SearchFindsNone, SearchFinds
  <2> QED
    BY <2>1, <2>2, StillApart DEF SessionMoves, Quiet
<1>9. CASE UpdateFoundRaises
  <2>1. sync.pc = "update_found" /\ sync.found \in VariationIds
    BY <1>9, SessionFields DEF UpdateFoundRaises, At, Shape, TypeOK
  <2>2. sync' \in Session /\ Ends
    BY <1>9, <2>1, IdleType DEF UpdateFoundRaises, Ends
  <2>3. Apart /\ Sells(sync.found)
    BY <1>9, <2>1, <2>2, WritingApart DEF UpdateFoundRaises, Busy
  <2> QED
    BY <1>9, <2>1, <2>2, <2>3 DEF UpdateFoundRaises, Raises, SessionMoves
<1>10. CASE \E i \in RowIds : UpdateFound(i)
  <2>1. PICK i \in RowIds : UpdateFound(i)
    BY <1>10
  <2>2. PICK w \in VariationIds : w = sync.found /\ sync.pc = "update_found"
    BY <2>1, SessionFields DEF UpdateFound, At, Shape, TypeOK
  <2>3. /\ Write(w) /\ Accepts(w, sync.read.sku) /\ Keep /\ UNCHANGED <<products, faults>>
        /\ Insert(i, w) /\ IsNewRow(i) /\ ~Clashes(w)
    BY <2>1, <2>2 DEF UpdateFound
  <2>4. sync' \in Session /\ Inserts(w, i)
    BY <2>2, <2>3, InsertStep
  <2>5. Apart /\ Sells(w)
    BY <2>2, <2>3, <2>4, WritingApart DEF Busy
  <2>6. Places
    BY <2>2, <2>3, <2>4, <2>5 DEF Places
  <2> QED
    BY <2>6 DEF SessionMoves
<1>11. CASE \E i \in RowIds, w \in VariationIds : CreateVariation(w, i)
  <2>1. PICK i \in RowIds, w \in VariationIds : CreateVariation(w, i)
    BY <1>11
  <2>2. /\ Write(w) /\ Keep /\ UNCHANGED <<products, faults>> /\ Insert(i, w) /\ IsNewRow(i)
        /\ ~Clashes(w) /\ sync.pc = "create" /\ CanCreate /\ IsNewVariation(w)
    BY <2>1 DEF CreateVariation, At
  <2>3. sync' \in Session /\ Inserts(w, i)
    BY <2>2, InsertStep
  <2>4. Apart /\ Sells(w)
    BY <2>2, <2>3, WritingApart DEF Busy
  <2>5. Places
    BY <2>2, <2>3, <2>4 DEF Places
  <2> QED
    BY <2>5 DEF SessionMoves
<1> QED
  BY <1>1, <1>2, <1>3, <1>4, <1>5, <1>6, <1>7, <1>8, <1>9, <1>10, <1>11 DEF Steps

LEMMA FailureMoves == ASSUME Inv, Failures, UNCHANGED inv PROVE SessionMoves
<1> TypeOK /\ Shape
  BY DEF Inv, InvTypeOK
<1>1. CASE \E q \in ProductIds : CreateProductLost(q)
  <2>1. PICK q \in ProductIds : CreateProductLost(q)
    BY <1>1
  <2>2. sync' \in Session /\ Leaves
    BY <2>1, GiveUpStep DEF CreateProductLost, At
  <2>3. Apart /\ ShopKept
    BY <2>1, <2>2, MakingApart DEF CreateProductLost
  <2> QED
    BY <2>2, <2>3 DEF SessionMoves, Quiet
<1>2. CASE \E v \in Variants : AttributesFail(v)
  <2>1. PICK v \in Variants : AttributesFail(v)
    BY <1>2
  <2>2. sync' \in Session /\ Leaves
    BY <2>1, SkipStep DEF AttributesFail, At
  <2>3. Keep /\ UNCHANGED <<products, shop>> /\ Fault
    BY <2>1 DEF AttributesFail
  <2> QED
    BY <2>2, <2>3, StillApart DEF SessionMoves, Quiet
<1>3. CASE \E w \in VariationIds : CreateLost(w)
  <2>1. PICK w \in VariationIds : CreateLost(w)
    BY <1>3
  <2>2. /\ Write(w) /\ Keep /\ UNCHANGED products /\ Fault /\ NextVariant
        /\ sync.pc = "create" /\ CanCreate /\ IsNewVariation(w)
    BY <2>1 DEF CreateLost, At
  <2>3. sync' \in Session /\ Leaves
    BY <2>2, LeaveStep
  <2>4. Apart /\ Sells(w)
    BY <2>2, <2>3, WritingApart DEF Busy
  <2>5. faults' = faults + 1
    BY <2>2 DEF Fault
  <2>6. Strays
    BY <2>2, <2>3, <2>4, <2>5 DEF Strays
  <2> QED
    BY <2>6 DEF SessionMoves
<1>4. CASE ProductFails
  <2>1. sync' \in Session /\ Leaves
    <3>1. CASE GiveUp
      BY <1>4, <3>1, GiveUpStep DEF ProductFails, At
    <3>2. CASE Proceed("next")
      BY <1>4, <3>2, SessionFields DEF ProductFails, At, Proceed, TypeOK, Session, PCs, Leaves
    <3> QED
      BY <1>4, <3>1, <3>2 DEF ProductFails
  <2>2. Keep /\ UNCHANGED <<products, shop>> /\ Fault
    BY <1>4 DEF ProductFails
  <2> QED
    BY <2>1, <2>2, StillApart DEF SessionMoves, Quiet
<1>5. CASE SearchFails
  <2>1. sync' = [sync EXCEPT !.pc = "create", !.found = sync.found] /\ sync.pc = "search"
    BY <1>5 DEF SearchFails, Proceed, TypeOK, Session, At
  <2>2. sync.found \in VariationIds \cup {None}
    BY SessionFields DEF TypeOK
  <2>3. sync' \in Session /\ Works
    BY <2>1, <2>2, GoStep
  <2> QED
    BY <1>5, <2>3, StillApart DEF SearchFails, SessionMoves, Quiet
<1>6. CASE CallFails
  <2>1. NextVariant /\ sync.pc # "idle" /\ Keep /\ UNCHANGED <<products, shop>> /\ Fault
    BY <1>6 DEF CallFails, At
  <2>2. sync' \in Session /\ Leaves
    BY <2>1, LeaveStep
  <2> QED
    BY <2>1, <2>2, StillApart DEF SessionMoves, Quiet
<1>7. CASE Crash
  <2>1. sync' \in Session /\ Ends /\ Keep /\ UNCHANGED <<products, shop>> /\ Fault
    BY <1>7, IdleType DEF Crash, Ends, At
  <2>2. Apart /\ ShopKept /\ faults' = faults + 1
    BY <2>1, StillApart DEF Fault
  <2> QED
    BY <2>1, <2>2 DEF SessionMoves, Dies
<1> QED
  BY <1>1, <1>2, <1>3, <1>4, <1>5, <1>6, <1>7 DEF Failures

-----------------------------------------------------------------------------
(* Inv is inductive                                                        *)

\* Shape is kept by the steps that leave the session alone.
LEMMA MovesInv == ASSUME Inv, SessionMoves PROVE Inv'
<1>1. Apart
  BY DEF SessionMoves, Quiet, Overwrites, Places, Strays, Dies, Raises
<1>2. InvTypeOK'
  BY <1>1 DEF Apart, Inv, InvTypeOK, TypeOK
<1>3. (\A v \in Variants : odoo[v].active => odoo[v].sku \in carried[v])'
  BY <1>1 DEF Apart, Inv
<1>4. (inv.pc = "push" => inv.row # None)'
  BY <1>1 DEF Apart, Inv
<1>5. Shape'
  <2> Shape
    BY DEF Inv
  <2>1. CASE Leaves
    BY <2>1 DEF Leaves, Shape, Busy
  <2>2. CASE Works
    BY <2>2 DEF Works, Shape, Busy
  <2>3. CASE Reads
    BY <2>3 DEF Reads, Shape, Busy
  <2>4. CASE Starts
    BY <2>4 DEF Starts, Shape, Busy, Nothing
  <2>5. CASE Forgets
    <3>1. \A v \in Variants : sync.todo[v] = None
      BY <2>5 DEF Forgets, Shape
    <3> QED
      BY <2>5, <3>1 DEF Forgets, Shape, Busy
  <2>6. CASE Maps
    BY <2>6 DEF Maps, Shape, Busy
  <2>7. CASE \E v \in Variants : Begins(v)
    <3>1. PICK v \in Variants : Begins(v)
      BY <2>7
    <3>2. \A u \in Variants : sync'.todo[u] \in {sync.todo[u], None}
      BY <3>1 DEF Begins, Inv, InvTypeOK, TypeOK, Session
    <3> QED
      BY <3>1, <3>2 DEF Begins, Shape, Busy
  <2>8. CASE \E w \in VariationIds, i \in RowIds : Inserts(w, i)
    BY <2>8 DEF Inserts, Shape, Busy
  <2>9. CASE Ends
    BY <2>9, IdleType DEF Ends, Shape, Busy, Nothing
  <2> QED
    BY <2>1, <2>2, <2>3, <2>4, <2>5, <2>6, <2>7, <2>8, <2>9
    DEF SessionMoves, Quiet, Overwrites, Places, Strays, Dies, Raises
<1> QED
  BY <1>2, <1>3, <1>4, <1>5 DEF Inv

\* Users change what Odoo says of the variants: a SKU that a variant gets is
\* new to it.
Corrects ==
    /\ UNCHANGED <<products, shop, rows, mapping, sync, faults, inv>>
    /\ odoo' \in [Variants -> Variant] /\ carried' \in [Variants -> SUBSET SKUs]
    /\ changes' \in 0..MaxChanges /\ moves' \in 0..MaxMoves
    /\ \A v \in Variants :
          /\ carried[v] \subseteq carried'[v]
          /\ odoo'[v].sku = odoo[v].sku \/ odoo'[v].sku \notin carried[v]
          /\ odoo'[v].active => odoo'[v].sku \in carried'[v]

\* Or delete in the shop.
Deletes ==
    /\ UNCHANGED <<odoo, carried, changes, moves, rows, mapping, sync, faults, inv>>
    /\ shop' \in [VariationIds -> Variation] /\ products' \in [ProductIds -> Presence]
    /\ \A q \in ProductIds : products[q] = "gone" => products'[q] = "gone"
    /\ \A w \in VariationIds :
          /\ shop'[w].product = shop[w].product /\ shop'[w].sku = shop[w].sku
          /\ shop[w].state = "absent" <=> shop'[w].state = "absent"
          /\ shop'[w].state = "live" =>
                Live(w) /\ (products[shop[w].product] = "live" => products'[shop[w].product] = "live")

Commits ==
    /\ UNCHANGED <<odoo, carried, changes, moves, products, shop, faults, inv>>
    /\ sync.pc = "next" /\ rows' = sync.rows /\ mapping' = sync.mapping /\ sync' = Idle

\* The inventory sync touches nothing of the variations but their stock.
Stocks ==
    /\ UNCHANGED <<odoo, carried, changes, moves, products, rows, mapping, sync>>
    /\ ShopKept /\ shop' \in [VariationIds -> Variation]
    /\ inv' \in Run /\ (inv'.pc = "push" => inv'.row # None)
    /\ faults' \in 0..MaxTroubles /\ faults' \in {faults, faults + 1}

LEMMA VariationEdits ==
  ASSUME NEW x \in Variation
  PROVE  /\ LET y == [x EXCEPT !.state = "gone"]
            IN  y \in Variation /\ y.state = "gone" /\ y.product = x.product /\ y.sku = x.sku
         /\ \A n \in Int : LET y == [x EXCEPT !.qty = n]
                          IN  /\ y \in Variation /\ y.state = x.state
                              /\ y.product = x.product /\ y.sku = x.sku
BY DEF Variation, Presence

LEMMA GiveStep ==
  ASSUME Inv, NEW v \in Variants, NEW k \in SKUs, Give(v, k), changes' \in 0..MaxChanges,
         UNCHANGED inv
  PROVE  Corrects
<1> TypeOK
  BY DEF Inv, InvTypeOK
<1>a. PICK x \in Variant : x = odoo[v]
  BY DEF TypeOK
<1>1. PICK o \in Variant : o = [x EXCEPT !.active = TRUE, !.sku = k]
  BY DEF Variant
<1>2. o.active /\ o.sku = k
  BY <1>1 DEF Variant
<1>3. odoo' = [odoo EXCEPT ![v] = o]
  BY <1>1, <1>a DEF Give, TypeOK, Variant
<1>4. PICK c \in SUBSET SKUs : c = carried[v] \cup {k}
  BY DEF TypeOK
<1>5. carried' = [carried EXCEPT ![v] = c] /\ k \notin carried[v]
  BY <1>4 DEF Give
<1>6. odoo' \in [Variants -> Variant] /\ carried' \in [Variants -> SUBSET SKUs]
  BY <1>3, <1>5 DEF TypeOK
<1>7. ASSUME NEW u \in Variants
      PROVE  /\ carried[u] \subseteq carried'[u]
             /\ odoo'[u].sku = odoo[u].sku \/ odoo'[u].sku \notin carried[u]
             /\ odoo'[u].active => odoo'[u].sku \in carried'[u]
  <2>1. CASE u = v
    BY <2>1, <1>2, <1>3, <1>4, <1>5 DEF TypeOK
  <2>2. CASE u # v
    BY <2>2, <1>3, <1>5 DEF TypeOK, Inv
  <2> QED
    BY <2>1, <2>2
<1> QED
  BY <1>6, <1>7 DEF Corrects, Give, TypeOK

LEMMA UserMoves == ASSUME Inv, Users, UNCHANGED inv PROVE Corrects \/ Deletes
<1> TypeOK
  BY DEF Inv, InvTypeOK
<1>1. CASE \E v \in Variants, k \in SKUs : AddVariant(v, k) \/ Rename(v, k)
  <2>1. PICK v \in Variants, k \in SKUs : AddVariant(v, k) \/ Rename(v, k)
    BY <1>1
  <2>2. Give(v, k)
    BY <2>1 DEF AddVariant, Rename
  <2>3. changes' \in 0..MaxChanges
    BY <2>1 DEF AddVariant, Rename, TypeOK
  <2> QED
    BY <2>2, <2>3, GiveStep
<1>2. CASE \E v \in Variants : Archive(v) \/ \E n \in Quantities : MoveStock(v, n)
  <2>1. PICK v \in Variants : Archive(v) \/ \E n \in Quantities : MoveStock(v, n)
    BY <1>2
  <2>a. PICK x \in Variant : x = odoo[v]
    BY DEF TypeOK
  <2>2. PICK o \in Variant :
           /\ odoo' = [odoo EXCEPT ![v] = o]
           /\ o.sku = odoo[v].sku /\ (o.active => odoo[v].active)
    <3>1. CASE Archive(v)
      <4>1. PICK o \in Variant : o = [x EXCEPT !.active = FALSE]
        BY DEF Variant
      <4>2. o.sku = odoo[v].sku /\ ~o.active
        BY <2>a, <4>1 DEF Variant
      <4> QED
        BY <2>a, <3>1, <4>1, <4>2 DEF Archive, TypeOK
    <3>2. CASE \E n \in Quantities : MoveStock(v, n)
      <4>1. PICK n \in Quantities : MoveStock(v, n)
        BY <3>2
      <4>2. PICK o \in Variant : o = [x EXCEPT !.qty = n]
        BY DEF Variant
      <4>3. o.sku = odoo[v].sku /\ o.active = odoo[v].active
        BY <2>a, <4>2 DEF Variant
      <4> QED
        BY <2>a, <4>1, <4>2, <4>3 DEF MoveStock, TypeOK
    <3> QED
      BY <2>1, <3>1, <3>2
  <2>3. /\ UNCHANGED <<carried, products, shop, rows, mapping, sync, faults>>
        /\ changes' \in 0..MaxChanges /\ moves' \in 0..MaxMoves
    BY <2>1 DEF Archive, MoveStock, TypeOK
  <2>4. odoo' \in [Variants -> Variant]
    BY <2>2 DEF TypeOK
  <2>5. \A u \in Variants : odoo'[u].sku = odoo[u].sku /\ (odoo'[u].active => odoo[u].active)
    BY <2>2 DEF TypeOK
  <2> QED
    BY <2>3, <2>4, <2>5 DEF Corrects, TypeOK, Inv
<1>3. CASE \E w \in VariationIds : RemoveVariation(w)
  <2>1. PICK w \in VariationIds : RemoveVariation(w)
    BY <1>3
  <2>2. PICK s \in Variation : s = [shop[w] EXCEPT !.state = "gone"]
    BY VariationEdits DEF TypeOK
  <2>3. s.state = "gone" /\ s.product = shop[w].product /\ s.sku = shop[w].sku
    BY <2>2, VariationEdits DEF TypeOK
  <2>4. shop' = [shop EXCEPT ![w] = s] /\ shop[w].state = "live"
    BY <2>1, <2>2 DEF RemoveVariation, Live, TypeOK
  <2> QED
    BY <2>1, <2>3, <2>4 DEF Deletes, RemoveVariation, TypeOK, Live
<1>4. CASE \E q \in ProductIds : RemoveProduct(q)
  <2>1. PICK q \in ProductIds : RemoveProduct(q)
    BY <1>4
  <2>2. ASSUME NEW w \in VariationIds
        PROVE  /\ shop'[w] \in Variation
               /\ shop'[w].product = shop[w].product /\ shop'[w].sku = shop[w].sku
               /\ shop'[w].state = IF Live(w) /\ shop[w].product = q THEN "gone" ELSE shop[w].state
    <3>1. PICK s \in Variation : s = [shop[w] EXCEPT !.state = "gone"]
      BY VariationEdits DEF TypeOK
    <3>2. s.state = "gone" /\ s.product = shop[w].product /\ s.sku = shop[w].sku
      BY <3>1, VariationEdits DEF TypeOK
    <3>3. shop'[w] = IF Live(w) /\ shop[w].product = q THEN s ELSE shop[w]
      BY <2>1, <3>1 DEF RemoveProduct
    <3> QED
      BY <3>2, <3>3 DEF TypeOK
  <2>3. shop' \in [VariationIds -> Variation]
    BY <2>1, <2>2 DEF RemoveProduct
  <2>4. products' = [products EXCEPT ![q] = "gone"] /\ products[q] = "live"
    BY <2>1 DEF RemoveProduct
  <2>5. products' \in [ProductIds -> Presence]
    BY <2>4 DEF TypeOK, Presence
  <2>6. ASSUME NEW w \in VariationIds, shop'[w].state = "live"
        PROVE  Live(w) /\ (products[shop[w].product] = "live" => products'[shop[w].product] = "live")
    <3>1. Live(w) /\ shop[w].product # q
      BY <2>2, <2>6 DEF Live
    <3> QED
      BY <3>1, <2>4 DEF TypeOK
  <2>7. \A w \in VariationIds :
          /\ shop'[w].product = shop[w].product /\ shop'[w].sku = shop[w].sku
          /\ shop[w].state = "absent" <=> shop'[w].state = "absent"
    BY <2>2 DEF Live
  <2>8. \A r \in ProductIds : products[r] = "gone" => products'[r] = "gone"
    BY <2>4 DEF TypeOK
  <2>9. UNCHANGED <<odoo, carried, changes, moves, rows, mapping, sync, faults, inv>>
    BY <2>1 DEF RemoveProduct
  <2> QED
    BY <2>3, <2>5, <2>6, <2>7, <2>8, <2>9 DEF Deletes
<1> QED
  BY <1>1, <1>2, <1>3, <1>4 DEF Users

LEMMA CommitMoves == ASSUME Commit, UNCHANGED inv PROVE Commits
BY DEF Commit, Commits, At

LEMMA ReadMoves ==
  ASSUME Inv, NEW i \in RowIds, ReadStock(i) \/ ReadNothing(i)
  PROVE  inv' \in Run /\ (inv'.pc = "push" => inv'.row # None) /\ UNCHANGED vars
<1>1. inv \in Run /\ inv.pc = "read" /\ inv.todo[i] # None
  BY DEF Inv, InvTypeOK, ReadStock, ReadNothing, IsNextRow
<1>2. PICK r \in Row : r = inv.todo[i]
  BY <1>1 DEF Run
<1>3. PICK todo \in [RowIds -> Row \cup {None}] : todo = [inv.todo EXCEPT ![i] = None]
  BY <1>1 DEF Run
<1>4. CASE ReadStock(i)
  <2>1. odoo[r.odoo].qty \in Int
    BY <1>2, ElementTypes DEF Inv, InvTypeOK, TypeOK, Variant
  <2>2. PICK n \in Int : n = Clip(odoo[r.odoo].qty)
    BY <2>1 DEF Clip
  <2>3. inv' = [inv EXCEPT !.pc = "push", !.row = r, !.todo = todo, !.qty = n]
    BY <1>1, <1>2, <1>3, <1>4, <2>2 DEF ReadStock, Run
  <2>4. inv' \in Run /\ inv'.row = r
    BY <1>1, <2>3 DEF Run, InvPCs
  <2> QED
    BY <1>4, <2>4 DEF ReadStock
<1>5. CASE ReadNothing(i)
  <2>1. inv' = [inv EXCEPT !.todo = todo]
    BY <1>1, <1>3, <1>5 DEF ReadNothing, Run
  <2>2. inv' \in Run /\ inv'.pc = "read"
    BY <1>1, <2>1 DEF Run, InvPCs
  <2> QED
    BY <1>5, <2>2 DEF ReadNothing
<1> QED
  BY <1>4, <1>5

LEMMA InventoryMoves ==
  ASSUME Inv, StartInventory \/ StartOneInventory \/ InventorySteps \/ InventoryFails
  PROVE  Stocks
<1> TypeOK /\ inv \in Run
  BY DEF Inv, InvTypeOK
<1>1. CASE StartInventory \/ StartOneInventory
  <2>1. PICK q \in ProductIds : q = mapping.woo
    BY <1>1, ElementTypes DEF StartInventory, StartOneInventory, TypeOK
  <2>2. inv' = [NoRun EXCEPT !.pc = "read", !.todo = rows, !.product = q]
    BY <1>1, <2>1 DEF StartInventory, StartOneInventory, List
  <2>3. inv' \in Run /\ inv'.pc = "read"
    BY <2>2, NoRunType DEF TypeOK, Run, InvPCs
  <2> QED
    BY <1>1, <2>3, KeptByEquality DEF StartInventory, StartOneInventory, Stocks, vars, TypeOK
<1>2. CASE \E i \in RowIds : ReadStock(i) \/ ReadNothing(i)
  <2>1. inv' \in Run /\ (inv'.pc = "push" => inv'.row # None) /\ UNCHANGED vars
    BY <1>2, ReadMoves
  <2> QED
    BY <2>1, KeptByEquality DEF Stocks, vars, TypeOK
<1>3. CASE PushStock
  <2>1. inv.row \in Row
    BY <1>3 DEF PushStock, Inv, Run
  <2>2. PICK w \in VariationIds : w = inv.row.woo
    BY <2>1, ElementTypes
  <2>3. PICK s \in Variation : s = [shop[w] EXCEPT !.qty = inv.qty]
    BY VariationEdits DEF TypeOK, Run
  <2>4. s.state = shop[w].state /\ s.product = shop[w].product /\ s.sku = shop[w].sku
    BY <2>3, VariationEdits DEF TypeOK, Run
  <2>5. shop' = [shop EXCEPT ![w] = s]
    BY <1>3, <2>2, <2>3 DEF PushStock, TypeOK
  <2>6. shop' \in [VariationIds -> Variation] /\ ShopKept
    BY <2>4, <2>5 DEF ShopKept, TypeOK
  <2>7. inv' = [inv EXCEPT !.pc = "read", !.row = None, !.qty = 0]
    BY <1>3 DEF PushStock
  <2>a. PICK x \in Run : x = inv
    OBVIOUS
  <2>b. PICK n \in Int : n = 0
    OBVIOUS
  <2>c. inv' = [x EXCEPT !.pc = "read", !.row = None, !.qty = n]
    BY <2>7, <2>a, <2>b
  <2>8. inv' \in Run /\ inv'.pc = "read"
    BY <2>c DEF Run, InvPCs
  <2> QED
    BY <1>3, <2>6, <2>8 DEF PushStock, Stocks, TypeOK
<1>4. CASE PushRefused \/ InventoryEnds
  BY <1>4, NoRunType, KeptByEquality DEF PushRefused, InventoryEnds, Stocks, vars, TypeOK
<1>5. CASE InventoryFails
  BY <1>5, NoRunType, KeptByEquality, TroubleType DEF InventoryFails, Stocks, TypeOK
<1> QED
  BY <1>1, <1>2, <1>3, <1>4, <1>5 DEF InventorySteps

LEMMA StepCases ==
  ASSUME Inv, [InvNext]_allVars
  PROVE  SessionMoves \/ Commits \/ Corrects \/ Deletes \/ Stocks \/ UNCHANGED allVars
BY StartMoves, StepMoves, FailureMoves, UserMoves, CommitMoves, InventoryMoves DEF InvNext, Next

LEMMA StepInv == ASSUME Inv, [InvNext]_allVars PROVE Inv'
<1>1. CASE SessionMoves
  BY <1>1, MovesInv
<1>2. CASE Commits
  <2>1. sync.rows \in [RowIds -> Row \cup {None}] /\ sync.mapping \in Mapping \cup {None}
    BY SessionFields DEF Inv, InvTypeOK, TypeOK
  <2>2. InvTypeOK'
    BY <1>2, <2>1, IdleType DEF Commits, Inv, InvTypeOK, TypeOK
  <2>3. Shape'
    BY <1>2, IdleType DEF Commits, Shape, Busy, Nothing
  <2> QED
    BY <1>2, <2>2, <2>3 DEF Commits, Inv
<1>3. CASE Corrects
  BY <1>3 DEF Corrects, Inv, InvTypeOK, TypeOK, Shape
<1>4. CASE Deletes
  BY <1>4 DEF Deletes, Inv, InvTypeOK, TypeOK, Shape
<1>5. CASE Stocks
  BY <1>5 DEF Stocks, Inv, InvTypeOK, TypeOK, Shape
<1>6. CASE UNCHANGED allVars
  BY <1>6 DEF allVars, vars, Inv, InvTypeOK, TypeOK, Shape
<1> QED
  BY <1>1, <1>2, <1>3, <1>4, <1>5, <1>6, StepCases

\* The session of a product sync and the run of the inventory sync keep their
\* types: a step never uses a local that no step has set.
THEOREM TypeCorrect == InvSpec => []InvTypeOK
<1>1. Inv => InvTypeOK
  BY DEF Inv
<1> QED
  BY InitInv, StepInv, <1>1, PTL DEF InvSpec

-----------------------------------------------------------------------------
(* TableInv is inductive                                                   *)

LEMMA TableInit == InvInit => TableInv
<1> SUFFICES ASSUME InvInit PROVE TableInv
  OBVIOUS
<1>1. /\ \A i \in RowIds : rows[i] = None /\ sync.rows[i] = None
      /\ \A v \in Variants : sync.todo[v] = None
      /\ \A w \in VariationIds : shop[w].state = "absent"
      /\ sync.pc = "idle"
  BY IdleType DEF InvInit, Init, Unmapped, Nothing, NoVariation
<1> QED
  BY <1>1 DEF TableInv, AllFit, Distinct, ReadsFit, Handling, ShopFits, Snapshot, Busy, Live

\* From shop h to g: no variation comes back, and none gets another SKU.
Unsold(h, g) ==
    \A w \in VariationIds : h[w].state # "absent" =>
        g[w].state # "absent" /\ g[w].product = h[w].product /\ g[w].sku = h[w].sku

\* From the variants o, which carried c, to p, which carried d.
Renamed(o, c, p, d) ==
    \A v \in Variants : c[v] \subseteq d[v] /\ (p[v].sku = o[v].sku \/ p[v].sku \notin c[v])

LEMMA FitKept ==
  ASSUME NEW t \in [RowIds -> Row \cup {None}], NEW m, NEW h, NEW c, NEW o,
         NEW n, NEW g, NEW d, NEW p,
         AllFit(t, m, h, c, o), m # None => n # None /\ n.woo = m.woo,
         Unsold(h, g), Renamed(o, c, p, d)
  PROVE  AllFit(t, n, g, d, p)
<1> SUFFICES ASSUME NEW i \in RowIds, t[i] # None PROVE Fits(t[i], n, g, d, p)
  BY DEF AllFit
<1>1. PICK r \in Row : r = t[i]
  OBVIOUS
<1>2. Fits(r, m, h, c, o) /\ r.odoo \in Variants /\ r.woo \in VariationIds
  BY <1>1, ElementTypes DEF AllFit
<1>3. Fits(r, n, g, d, p)
  BY <1>2 DEF Fits, Unsold, Renamed
<1> QED
  BY <1>1, <1>3

LEMMA ReadKept ==
  ASSUME NEW t \in [RowIds -> Row \cup {None}], NEW m, NEW h, NEW c, NEW o, NEW d, NEW p,
         AllFit(t, m, h, c, o), Renamed(o, c, p, d),
         NEW v \in Variants, NEW k, WasRead(v, k, t, c, o)
  PROVE  WasRead(v, k, t, d, p)
<1>1. \A i \in RowIds : t[i] # None /\ t[i].odoo = v => t[i].sku \in c[v]
  BY DEF AllFit, Fits
<1> QED
  BY <1>1 DEF WasRead, Renamed

LEMMA RenamedSame == ASSUME NEW o, NEW c PROVE Renamed(o, c, o, c)
BY DEF Renamed

LEMMA Tables ==
  ASSUME Inv
  PROVE  /\ rows \in [RowIds -> Row \cup {None}] /\ sync.rows \in [RowIds -> Row \cup {None}]
         /\ mapping \in Mapping \cup {None} /\ sync.mapping \in Mapping \cup {None}
         /\ Unmapped \in [RowIds -> Row \cup {None}]
BY SessionFields DEF Inv, InvTypeOK, TypeOK, Unmapped

\* Who the session handles, and what it has read of it.
LEMMA Handled ==
  ASSUME Inv, sync.pc \in Busy
  PROVE  sync.variant \in Variants /\ sync.read \in Read /\ sync.mapping \in Mapping
BY SessionFields DEF Inv, InvTypeOK, TypeOK, Shape

LEMMA CorrectsTable == ASSUME Inv, TableInv, Corrects PROVE TableInv'
<1>1. Renamed(odoo, carried, odoo', carried')
  BY DEF Corrects, Renamed
<1>2. Unsold(shop, shop)
  BY DEF Unsold
<1>3. UNCHANGED <<products, shop, rows, mapping, sync>>
  BY DEF Corrects
<1>4. AllFit(rows, mapping, shop, carried', odoo')
  BY <1>1, <1>2, FitKept, Tables DEF TableInv
<1>5. AllFit(sync.rows, sync.mapping, shop, carried', odoo')
  BY <1>1, <1>2, FitKept, Tables DEF TableInv
<1>6. \A v \in Variants : sync.todo[v] # None =>
         WasRead(v, sync.todo[v].sku, sync.rows, carried', odoo')
  BY <1>1, ReadKept, Tables DEF TableInv, ReadsFit
<1>7. sync.pc \in Busy => WasRead(sync.variant, sync.read.sku, sync.rows, carried', odoo')
  BY <1>1, ReadKept, Tables, Handled DEF TableInv, ReadsFit
<1>8. ReadsFit'
  BY <1>3, <1>6, <1>7 DEF TableInv, ReadsFit
<1>9. ShopFits'
  BY <1>1, <1>3 DEF TableInv, ShopFits, Live, Renamed
<1> QED
  BY <1>3, <1>4, <1>5, <1>8, <1>9 DEF TableInv, Handling, Snapshot, Gone, Keeps

LEMMA DeletesTable == ASSUME Inv, TableInv, Deletes PROVE TableInv'
<1>1. UNCHANGED <<odoo, carried, rows, mapping, sync>>
  BY DEF Deletes
<1>2. Unsold(shop, shop') /\ Renamed(odoo, carried, odoo, carried)
  BY RenamedSame DEF Deletes, Unsold
<1>3. AllFit(rows, mapping, shop', carried, odoo)
  BY <1>2, FitKept, Tables DEF TableInv
<1>4. AllFit(sync.rows, sync.mapping, shop', carried, odoo)
  BY <1>2, FitKept, Tables DEF TableInv
<1>5. ReadsFit' /\ Handling'
  <2>1. sync.pc = "update_found" => sync.found \in VariationIds
    BY SessionFields DEF Inv, InvTypeOK, TypeOK, Shape
  <2> QED
    BY <1>1, <2>1 DEF Deletes, TableInv, ReadsFit, Handling
<1>6. ShopFits'
  BY DEF TableInv, ShopFits, Live, Deletes
<1>7. Snapshot'
  BY <1>1, ElementTypes, Tables DEF TableInv, Snapshot, Gone, Keeps, Deletes
<1> QED
  BY <1>1, <1>3, <1>4, <1>5, <1>6, <1>7 DEF TableInv

LEMMA StocksTable == ASSUME Inv, TableInv, Stocks PROVE TableInv'
<1>1. UNCHANGED <<odoo, carried, products, rows, mapping, sync>>
  BY DEF Stocks
<1>2. Unsold(shop, shop') /\ Renamed(odoo, carried, odoo, carried)
  BY RenamedSame DEF Stocks, ShopKept, Unsold
<1>3. AllFit(rows, mapping, shop', carried, odoo)
  BY <1>2, FitKept, Tables DEF TableInv
<1>4. AllFit(sync.rows, sync.mapping, shop', carried, odoo)
  BY <1>2, FitKept, Tables DEF TableInv
<1>5. ReadsFit' /\ Handling'
  <2>1. sync.pc = "update_found" => sync.found \in VariationIds
    BY SessionFields DEF Inv, InvTypeOK, TypeOK, Shape
  <2> QED
    BY <1>1, <2>1 DEF Stocks, ShopKept, TableInv, ReadsFit, Handling
<1>6. ShopFits'
  BY DEF TableInv, ShopFits, Live, Stocks, ShopKept
<1> QED
  BY <1>1, <1>3, <1>4, <1>5, <1>6 DEF TableInv, Snapshot, Gone, Keeps

LEMMA CommitsTable == ASSUME Inv, TableInv, Commits PROVE TableInv'
<1>1. UNCHANGED <<odoo, carried, products, shop>> /\ rows' = sync.rows /\ mapping' = sync.mapping
  BY DEF Commits
<1>2. /\ sync'.pc = "idle" /\ \A i \in RowIds : sync'.rows[i] = None
      /\ \A v \in Variants : sync'.todo[v] = None
  BY IdleType DEF Commits, Unmapped, Nothing
<1>3. AllFit(rows, mapping, shop, carried, odoo)' /\ Distinct(rows)'
  BY <1>1 DEF TableInv
<1>4. AllFit(sync.rows, sync.mapping, shop, carried, odoo)' /\ Distinct(sync.rows)'
  BY <1>2 DEF AllFit, Distinct
<1>5. ReadsFit' /\ Handling' /\ Snapshot'
  BY <1>2 DEF ReadsFit, Handling, Snapshot, Busy
<1>6. ShopFits'
  BY <1>1 DEF TableInv, ShopFits, Live
<1> QED
  BY <1>3, <1>4, <1>5, <1>6 DEF TableInv

\* What the session writes under a variation that it found stays what it is.
LEMMA FoundKept ==
  ASSUME Inv, TableInv, sync.pc = "update_found", sync.found \in VariationIds,
         Sells(sync.found), Accepts(sync.found, sync.read.sku)
  PROVE  ShopKept
BY DEF TableInv, Handling, Sells, Accepts, Live, ShopKept

LEMMA NewUnsold ==
  ASSUME Inv, NEW w \in VariationIds, Sells(w), IsNewVariation(w)
  PROVE  Unsold(shop, shop')
BY DEF Sells, IsNewVariation, Unsold

LEMMA KeptUnsold == ASSUME ShopKept PROVE Unsold(shop, shop')
BY DEF ShopKept, Unsold

\* The committed tables, when the session does not commit.
LEMMA CommittedKept ==
  ASSUME Inv, TableInv, Apart, Unsold(shop, shop')
  PROVE  (AllFit(rows, mapping, shop, carried, odoo) /\ Distinct(rows))'
<1>1. AllFit(rows, mapping, shop', carried, odoo)
  BY RenamedSame, FitKept, Tables DEF TableInv
<1> QED
  BY <1>1 DEF Apart, TableInv

\* The shop.
LEMMA ShopFitsKept == ASSUME Inv, TableInv, Apart, ShopKept PROVE ShopFits'
BY DEF TableInv, ShopFits, Live, Apart, ShopKept

LEMMA ShopFitsSold ==
  ASSUME Inv, TableInv, Apart, NEW w \in VariationIds, Sells(w),
         products[sync.mapping.woo] = "live"
  PROVE  ShopFits'
<1>1. sync.mapping.woo \in ProductIds /\ products'[sync.mapping.woo] = "live"
  BY ElementTypes DEF Sells, Apart
<1>2. sync.variant \in Variants /\ sync.read.sku \in carried[sync.variant]
  BY Handled DEF TableInv, ReadsFit, WasRead, Sells
<1> QED
  BY <1>1, <1>2 DEF TableInv, ShopFits, Live, Apart, Sells

\* The session's view, as long as it keeps its rows.
LEMMA SameView ==
  ASSUME Inv, TableInv, Apart, Unsold(shop, shop'), sync'.rows = sync.rows,
         sync.mapping # None => sync'.mapping # None /\ sync'.mapping.woo = sync.mapping.woo
  PROVE  (AllFit(sync.rows, sync.mapping, shop, carried, odoo) /\ Distinct(sync.rows))'
<1>1. AllFit(sync.rows, sync'.mapping, shop', carried, odoo)
  BY RenamedSame, FitKept, Tables DEF TableInv
<1> QED
  BY <1>1 DEF Apart, TableInv

\* And until it ends, what it has of the committed rows.
LEMMA SnapshotKept ==
  ASSUME Inv, TableInv, Apart, sync'.pc # "product", sync.pc # "idle", sync'.rows = sync.rows
  PROVE  Snapshot'
BY Tables, ElementTypes DEF TableInv, Snapshot, Gone, Keeps, Apart

LEMMA LeavesTable ==
  ASSUME Inv, TableInv, Apart, Unsold(shop, shop'), ShopFits', Leaves
  PROVE  TableInv'
<1>1. (AllFit(sync.rows, sync.mapping, shop, carried, odoo) /\ Distinct(sync.rows))'
  BY SameView DEF Leaves
<1>2. Snapshot'
  BY SnapshotKept DEF Leaves
<1>3. ReadsFit'
  BY DEF TableInv, ReadsFit, Leaves, Apart, Busy
<1>4. Handling'
  BY DEF Handling, Leaves
<1> QED
  BY <1>1, <1>2, <1>3, <1>4, CommittedKept DEF TableInv

LEMMA WorksTable ==
  ASSUME Inv, TableInv, Apart, ShopKept, Works
  PROVE  TableInv'
<1>1. (AllFit(sync.rows, sync.mapping, shop, carried, odoo) /\ Distinct(sync.rows))'
  BY SameView, KeptUnsold DEF Works
<1>2. Snapshot'
  BY SnapshotKept DEF Works
<1>3. ReadsFit'
  BY DEF TableInv, ReadsFit, Works, Apart, Busy
<1>4. Handling'
  BY DEF TableInv, Handling, Works, ShopKept
<1> QED
  BY <1>1, <1>2, <1>3, <1>4, CommittedKept, KeptUnsold, ShopFitsKept DEF TableInv

LEMMA BeginsTable ==
  ASSUME Inv, TableInv, Apart, ShopKept, NEW v \in Variants, Begins(v)
  PROVE  TableInv'
<1>1. (AllFit(sync.rows, sync.mapping, shop, carried, odoo) /\ Distinct(sync.rows))'
  BY SameView, KeptUnsold DEF Begins
<1>2. Snapshot'
  BY SnapshotKept DEF Begins
<1>3. ReadsFit'
  <2>1. sync.todo \in [Variants -> Read \cup {None}]
    BY SessionFields DEF Inv, InvTypeOK, TypeOK
  <2>2. /\ \A u \in Variants : sync'.todo[u] # None => sync'.todo[u] = sync.todo[u]
        /\ sync'.todo[v] = None
    BY <2>1 DEF Begins
  <2>3. /\ \A u \in Variants : sync'.todo[u] # None =>
              WasRead(u, sync'.todo[u].sku, sync'.rows, carried, odoo)
        /\ WasRead(v, sync'.read.sku, sync'.rows, carried, odoo)
    BY <2>2 DEF TableInv, ReadsFit, Begins
  <2> QED
    BY <2>2, <2>3 DEF ReadsFit, Begins, Apart
<1>4. Handling'
  BY DEF Handling, Begins
<1> QED
  BY <1>1, <1>2, <1>3, <1>4, CommittedKept, KeptUnsold, ShopFitsKept DEF TableInv

LEMMA ReadsTable ==
  ASSUME Inv, TableInv, Apart, ShopKept, Reads
  PROVE  TableInv'
<1>1. (AllFit(sync.rows, sync.mapping, shop, carried, odoo) /\ Distinct(sync.rows))'
  BY SameView, KeptUnsold DEF Reads
<1>2. Snapshot'
  BY SnapshotKept DEF Reads
<1>3. ReadsFit'
  BY DEF Inv, ReadsFit, WasRead, Reads, Apart, Busy
<1>4. Handling'
  BY DEF Handling, Reads
<1> QED
  BY <1>1, <1>2, <1>3, <1>4, CommittedKept, KeptUnsold, ShopFitsKept DEF TableInv

LEMMA StartsTable ==
  ASSUME Inv, TableInv, Apart, ShopKept, Starts
  PROVE  TableInv'
<1>1. (AllFit(rows, mapping, shop, carried, odoo) /\ Distinct(rows))'
  BY CommittedKept, KeptUnsold
<1>2. (AllFit(sync.rows, sync.mapping, shop, carried, odoo) /\ Distinct(sync.rows))'
  BY <1>1 DEF Starts, Apart
<1>3. Snapshot'
  BY DEF Snapshot, Keeps, Starts, Apart
<1>4. ReadsFit' /\ Handling'
  BY DEF ReadsFit, Handling, Starts, Busy, Nothing
<1> QED
  BY <1>1, <1>2, <1>3, <1>4, ShopFitsKept DEF TableInv

LEMMA ForgetsTable ==
  ASSUME Inv, TableInv, Apart, ShopKept, Forgets
  PROVE  TableInv'
<1>1. \A i \in RowIds : sync'.rows[i] = None
  BY DEF Forgets, Unmapped
<1>2. (AllFit(sync.rows, sync.mapping, shop, carried, odoo) /\ Distinct(sync.rows))'
  BY <1>1 DEF AllFit, Distinct
<1>3. Snapshot'
  <2>1. Gone
    BY DEF TableInv, Snapshot, Forgets, Gone
  <2>2. Gone'
    BY <2>1, Tables, ElementTypes DEF Gone, Apart
  <2> QED
    BY <2>2 DEF Snapshot, Forgets
<1>4. ReadsFit' /\ Handling'
  BY DEF ReadsFit, Handling, Forgets, Busy, Inv, Shape
<1> QED
  BY <1>2, <1>3, <1>4, CommittedKept, KeptUnsold, ShopFitsKept DEF TableInv

LEMMA MapsTable ==
  ASSUME Inv, TableInv, Apart, ShopKept, Maps
  PROVE  TableInv'
<1>1. (AllFit(sync.rows, sync.mapping, shop, carried, odoo) /\ Distinct(sync.rows))'
  BY SameView, KeptUnsold DEF Maps
<1>2. Snapshot'
  BY SnapshotKept DEF Maps
<1>3. ReadsFit' /\ Handling'
  BY DEF ReadsFit, Handling, Maps, Busy, Inv, Shape
<1> QED
  BY <1>1, <1>2, <1>3, CommittedKept, KeptUnsold, ShopFitsKept DEF TableInv

LEMMA EndsTable ==
  ASSUME Inv, TableInv, Apart, ShopKept, Ends
  PROVE  TableInv'
<1>1. /\ sync'.pc = "idle" /\ \A i \in RowIds : sync'.rows[i] = None
      /\ \A v \in Variants : sync'.todo[v] = None
  BY IdleType DEF Ends, Unmapped, Nothing
<1>2. (AllFit(sync.rows, sync.mapping, shop, carried, odoo) /\ Distinct(sync.rows))'
  BY <1>1 DEF AllFit, Distinct
<1>3. ReadsFit' /\ Handling' /\ Snapshot'
  BY <1>1 DEF ReadsFit, Handling, Snapshot, Busy
<1> QED
  BY <1>2, <1>3, CommittedKept, KeptUnsold, ShopFitsKept DEF TableInv

LEMMA InsertsTable ==
  ASSUME Inv, TableInv, Apart, Unsold(shop, shop'), ShopFits',
         NEW w \in VariationIds, NEW i \in RowIds, Inserts(w, i), Sells(w)
  PROVE  TableInv'
<1>1. PICK n \in Row : n = NewRow(w)
  BY DEF Inserts
<1>2. n.odoo = sync.variant /\ n.woo = w /\ n.sku = sync.read.sku
  BY <1>1 DEF NewRow
<1>3. /\ sync.rows \in [RowIds -> Row \cup {None}] /\ sync.rows[i] = None
      /\ sync'.rows = [sync.rows EXCEPT ![i] = n]
  BY <1>1, Tables DEF Inserts
<1>4. \A j \in RowIds : sync'.rows[j] = IF j = i THEN n ELSE sync.rows[j]
  BY <1>3
<1>5. sync.pc # "idle" /\ sync'.pc = "next" /\ sync'.mapping = sync.mapping
  BY DEF Inserts
<1>6. sync.pc \in Busy /\ sync.mapping \in Mapping
  BY DEF Sells
<1>7. AllFit(sync.rows, sync.mapping, shop, carried, odoo)'
  <2>1. AllFit(sync.rows, sync.mapping, shop', carried, odoo)
    BY RenamedSame, FitKept, Tables DEF TableInv
  <2>2. Fits(n, sync.mapping, shop', carried, odoo)
    BY <1>2, <1>6 DEF Fits, Sells, TableInv, ReadsFit, WasRead
  <2>3. AllFit(sync'.rows, sync.mapping, shop', carried, odoo)
    BY <1>4, <2>1, <2>2 DEF AllFit
  <2> QED
    BY <1>5, <2>3 DEF Apart
<1>8. Distinct(sync.rows)'
  <2>1. \A j \in RowIds : sync.rows[j] # None => sync.rows[j].odoo # n.odoo /\ sync.rows[j].woo # n.woo
    BY <1>2 DEF Inserts, Clashes
  <2>2. Distinct(sync'.rows)
    BY <1>4, <2>1 DEF TableInv, Distinct
  <2> QED
    BY <2>2
<1>9. Snapshot'
  <2>1. CASE Gone
    <3>1. Gone'
      BY <2>1, Tables, ElementTypes DEF Gone, Apart
    <3> QED
      BY <1>5, <3>1 DEF Snapshot
  <2>2. CASE Keeps(sync.rows)
    <3>1. \A j \in RowIds : rows[j] # None => j # i /\ sync.rows[j] = rows[j]
      BY <1>3, <2>2 DEF Keeps
    <3>2. Keeps(sync.rows)'
      BY <1>4, <3>1 DEF Keeps, Apart
    <3> QED
      BY <1>5, <3>2 DEF Snapshot
  <2> QED
    BY <1>5, <2>1, <2>2 DEF TableInv, Snapshot
<1>10. ReadsFit'
  <2>1. ASSUME NEW v \in Variants, sync.todo[v] # None
        PROVE  WasRead(v, sync.todo[v].sku, sync'.rows, carried, odoo)
    <3>1. v # n.odoo
      BY <2>1, <1>2, <1>6 DEF TableInv, ReadsFit
    <3>2. WasRead(v, sync.todo[v].sku, sync.rows, carried, odoo)
      BY <2>1 DEF TableInv, ReadsFit
    <3> QED
      BY <1>4, <3>1, <3>2 DEF WasRead
  <2> QED
    BY <1>5, <2>1 DEF ReadsFit, Inserts, Apart, Busy
<1>11. Handling'
  BY <1>5 DEF Handling
<1> QED
  BY <1>7, <1>8, <1>9, <1>10, <1>11, CommittedKept DEF TableInv

LEMMA OverwritesTable == ASSUME Inv, TableInv, Overwrites PROVE TableInv'
<1>1. PICK w \in VariationIds :
         /\ Apart /\ Leaves /\ Sells(w) /\ Accepts(w, sync.read.sku)
         /\ sync.pc = "update" /\ w = sync.rows[sync.row].woo
  BY DEF Overwrites
<1>2. sync.row \in RowIds /\ sync.rows[sync.row] # None
  BY <1>1, SessionFields DEF Inv, InvTypeOK, TypeOK, Shape
<1>3. PICK r \in Row : r = sync.rows[sync.row]
  BY <1>2, Tables
<1>4. /\ Live(w) /\ shop[w].product = sync.mapping.woo /\ products[sync.mapping.woo] = "live"
      /\ sync.mapping \in Mapping
  BY <1>1 DEF Accepts, TableInv, ShopFits, Sells
<1>5. /\ shop'[w].state = "live" /\ shop'[w].product = shop[w].product
      /\ shop'[w].sku = sync.read.sku
      /\ \A u \in VariationIds : u # w => shop'[u] = shop[u]
  BY <1>1, <1>4 DEF Sells
\* Its row still fits, under the mapping of the session and under its own.
<1>6. /\ sync.read.sku \in carried[r.odoo]
      /\ odoo[r.odoo].sku = r.sku => sync.read.sku = r.sku
  <2>1. Fits(r, sync.mapping, shop, carried, odoo)
    BY <1>2, <1>3 DEF TableInv, AllFit
  <2>2. /\ sync.read.sku \in carried[sync.variant]
        /\ r.odoo = sync.variant /\ odoo[sync.variant].sku = r.sku => sync.read.sku = r.sku
    BY <1>1, <1>2, <1>3 DEF TableInv, ReadsFit, WasRead, Busy
  <2>3. r.odoo = sync.variant \/ r.sku = sync.read.sku
    BY <1>1, <1>3 DEF TableInv, Handling
  <2> QED
    BY <2>1, <2>2, <2>3 DEF Fits
<1>7. \A m : Fits(r, m, shop, carried, odoo) => Fits(r, m, shop', carried, odoo)
  BY <1>1, <1>3, <1>5, <1>6 DEF Fits
\* The other rows are of other variations.
<1>8. ASSUME NEW q \in Row, q.woo # w, NEW m, Fits(q, m, shop, carried, odoo)
      PROVE  Fits(q, m, shop', carried, odoo)
  BY <1>5, <1>8, ElementTypes DEF Fits
<1>9. ASSUME NEW j \in RowIds, sync.rows[j] # None
      PROVE  Fits(sync.rows[j], sync.mapping, shop', carried, odoo)
  <2>1. Fits(sync.rows[j], sync.mapping, shop, carried, odoo) /\ sync.rows[j] \in Row
    BY <1>9, Tables DEF TableInv, AllFit
  <2>2. j # sync.row => sync.rows[j].woo # w
    BY <1>1, <1>2, <1>9 DEF TableInv, Distinct
  <2> QED
    BY <1>3, <1>7, <1>8, <2>1, <2>2
<1>10. ASSUME NEW j \in RowIds, rows[j] # None
       PROVE  Fits(rows[j], mapping, shop', carried, odoo)
  <2>1. Fits(rows[j], mapping, shop, carried, odoo) /\ rows[j] \in Row
    BY <1>10, Tables DEF TableInv, AllFit
  <2>2. CASE Gone
    <3>1. rows[j].woo # w
      BY <1>4, <2>1, <2>2 DEF Gone, Fits, TableInv, ShopFits
    <3> QED
      BY <1>8, <2>1, <3>1
  <2>3. CASE Keeps(sync.rows)
    <3>1. sync.rows[j] = rows[j]
      BY <1>10, <2>3 DEF Keeps
    <3>2. j # sync.row => rows[j].woo # w
      BY <1>1, <1>2, <1>10, <3>1 DEF TableInv, Distinct
    <3> QED
      BY <1>3, <1>7, <1>8, <2>1, <3>1, <3>2
  <2> QED
    BY <1>1, <2>2, <2>3 DEF TableInv, Snapshot
<1>11. AllFit(sync.rows, sync.mapping, shop, carried, odoo)'
  <2>1. sync'.mapping # None /\ sync'.mapping.woo = sync.mapping.woo
    BY <1>1, <1>4 DEF Leaves
  <2>2. \A j \in RowIds : sync.rows[j] # None =>
           Fits(sync.rows[j], sync'.mapping, shop', carried, odoo)
    BY <1>9, <2>1 DEF Fits
  <2> QED
    BY <1>1, <2>2 DEF AllFit, Leaves, Apart
<1>12. AllFit(rows, mapping, shop, carried, odoo)'
  BY <1>1, <1>10 DEF AllFit, Apart
<1>13. Distinct(rows)' /\ Distinct(sync.rows)'
  BY <1>1 DEF TableInv, Leaves, Apart
<1>14. Snapshot'
  BY <1>1, SnapshotKept DEF Leaves
<1>15. ReadsFit' /\ Handling'
  BY <1>1 DEF TableInv, ReadsFit, Handling, Leaves, Apart, Busy
<1>16. ShopFits'
  BY <1>1, <1>4, ShopFitsSold
<1> QED
  BY <1>11, <1>12, <1>13, <1>14, <1>15, <1>16 DEF TableInv

LEMMA MovesTable == ASSUME Inv, TableInv, SessionMoves PROVE TableInv'
<1>1. CASE Quiet
  <2>1. Apart /\ ShopKept /\ Unsold(shop, shop') /\ ShopFits'
    BY <1>1, KeptUnsold, ShopFitsKept DEF Quiet
  <2> QED
    BY <1>1, <2>1, LeavesTable, WorksTable, ReadsTable, StartsTable, ForgetsTable, MapsTable,
       BeginsTable DEF Quiet
<1>2. CASE Overwrites
  BY <1>2, OverwritesTable
<1>3. CASE Places
  <2>1. PICK w \in VariationIds, i \in RowIds :
           /\ Apart /\ Inserts(w, i) /\ Sells(w)
           /\ \/ sync.pc = "update_found" /\ w = sync.found /\ Accepts(w, sync.read.sku)
              \/ sync.pc = "create" /\ CanCreate /\ IsNewVariation(w)
    BY <1>3 DEF Places
  <2>2. CASE sync.pc = "update_found" /\ w = sync.found /\ Accepts(w, sync.read.sku)
    <3>1. ShopKept
      BY <2>1, <2>2, FoundKept
    <3> QED
      BY <2>1, <3>1, KeptUnsold, ShopFitsKept, InsertsTable
  <2>3. CASE sync.pc = "create" /\ CanCreate /\ IsNewVariation(w)
    <3>1. Unsold(shop, shop') /\ ShopFits'
      BY <2>1, <2>3, NewUnsold, ShopFitsSold DEF CanCreate
    <3> QED
      BY <2>1, <3>1, InsertsTable
  <2> QED
    BY <2>1, <2>2, <2>3
<1>4. CASE Strays
  <2>1. PICK w \in VariationIds :
           Apart /\ Leaves /\ Sells(w) /\ CanCreate /\ IsNewVariation(w)
    BY <1>4 DEF Strays
  <2>2. Unsold(shop, shop') /\ ShopFits'
    BY <2>1, NewUnsold, ShopFitsSold DEF CanCreate
  <2> QED
    BY <2>1, <2>2, LeavesTable
<1>5. CASE Dies
  BY <1>5, EndsTable DEF Dies
<1>6. CASE Raises
  BY <1>6, FoundKept, EndsTable DEF Raises
<1> QED
  BY <1>1, <1>2, <1>3, <1>4, <1>5, <1>6 DEF SessionMoves

LEMMA StepTable == ASSUME Inv, TableInv, [InvNext]_allVars PROVE TableInv'
<1>1. CASE UNCHANGED allVars
  BY <1>1 DEF allVars, vars, TableInv, ReadsFit, Handling, ShopFits, Live, Snapshot, Gone, Keeps
<1> QED
  BY <1>1, StepCases, MovesTable, CommitsTable, CorrectsTable, DeletesTable, StocksTable

\* The order line of what is on sale and mapped is left out of the order only for a
\* variant that was renamed after it was mapped: if it has since been archived or
\* renamed again, or if Odoo's search fails.
THEOREM MappedLineNeverLost == InvSpec => []LineNeverLost
<1>1. ASSUME Inv, TableInv PROVE LineNeverLost
  <2> SUFFICES ASSUME NEW i \in RowIds, rows[i] # None
               PROVE  LET k == shop[rows[i].woo].sku
                      IN  /\ Resolve(k, TRUE) # {} \/ Withdrawn(rows[i].odoo, k)
                          /\ Resolve(k, FALSE) # {} \/ RenamedTo(rows[i].odoo, k)
    BY DEF LineNeverLost
  <2>1. PICK r \in Row : r = rows[i]
    BY <1>1, Tables
  <2>2. PICK k : k = shop[r.woo].sku
    OBVIOUS
  <2>3. r.odoo \in Variants /\ Fits(r, mapping, shop, carried, odoo)
    BY <1>1, <2>1, ElementTypes DEF TableInv, AllFit
  <2>4. ASSUME NEW answered \in BOOLEAN, Resolve(k, answered) = {}
        PROVE  r.sku # k /\ (answered => Holders(k) = {})
    <3>1. RowsOf(k) = {}
      BY <2>4 DEF Resolve
    <3>2. answered => Holders(k) = {}
      BY <2>4, <3>1 DEF Resolve
    <3> QED
      BY <2>1, <3>1, <3>2 DEF RowsOf
  <2>5. r.sku # k => r.sku \in carried[r.odoo] \ {k, odoo[r.odoo].sku}
    BY <2>2, <2>3 DEF Fits
  <2> QED
    BY <2>1, <2>2, <2>4, <2>5 DEF Withdrawn, RenamedTo
<1> QED
  BY InitInv, StepInv, TableInit, StepTable, <1>1, PTL DEF InvSpec

-----------------------------------------------------------------------------
(* Counting the variations of a variant                                    *)

LEMMA LooseType ==
  ASSUME NEW v, NEW h, NEW c, NEW t
  PROVE  IsFiniteSet(Loose(v, h, c, t)) /\ Cardinality(Loose(v, h, c, t)) \in Nat
<1>1. Loose(v, h, c, t) \subseteq VariationIds
  BY DEF Loose
<1>2. IsFiniteSet(Loose(v, h, c, t))
  BY <1>1, FS_Subset
<1> QED
  BY <1>2, FS_CardinalityType

LEMMA FewerCard ==
  ASSUME NEW A, NEW B, IsFiniteSet(B), A \subseteq B
  PROVE  Cardinality(A) <= Cardinality(B)
BY FS_Subset

LEMMA OneMoreCard ==
  ASSUME NEW A, NEW B, IsFiniteSet(B), NEW x, A \subseteq B \cup {x}
  PROVE  Cardinality(A) <= Cardinality(B) + 1
<1>1. IsFiniteSet(B \cup {x}) /\ Cardinality(B) \in Nat
  BY FS_AddElement, FS_CardinalityType
<1>2. Cardinality(B \cup {x}) <= Cardinality(B) + 1
  BY <1>1, FS_AddElement
<1>3. Cardinality(A) <= Cardinality(B \cup {x})
  BY <1>1, FewerCard
<1>4. IsFiniteSet(A) /\ Cardinality(A) \in Nat /\ Cardinality(B \cup {x}) \in Nat
  BY <1>1, FS_Subset, FS_CardinalityType
<1> QED
  BY <1>1, <1>2, <1>3, <1>4

\* What a table names of v is at most one variation: the rows are of different
\* variants, and no SKU is of two.
LEMMA NamedOnce ==
  ASSUME ~Reused, NEW t \in [RowIds -> Row \cup {None}], NEW m,
         AllFit(t, m, shop, carried, odoo), Distinct(t), NEW v \in Variants
  PROVE  \E x : \A w \in VariationIds :
            Live(w) /\ shop[w].sku \in carried[v] /\ w # x =>
               \A i \in RowIds : t[i] # None => t[i].woo # w
<1>1. ASSUME NEW i \in RowIds, t[i] # None, shop[t[i].woo].sku \in carried[v]
      PROVE  t[i].odoo = v
  <2>1. t[i].odoo \in Variants
    BY <1>1, ElementTypes
  <2> QED
    BY <1>1, <2>1 DEF AllFit, Fits, Reused
<1>2. CASE \E i \in RowIds : t[i] # None /\ t[i].odoo = v
  <2>1. PICK i \in RowIds : t[i] # None /\ t[i].odoo = v
    BY <1>2
  <2>2. \A j \in RowIds : t[j] # None /\ shop[t[j].woo].sku \in carried[v] => j = i
    BY <1>1, <2>1 DEF Distinct
  <2> QED
    BY <2>2
<1>3. CASE ~\E i \in RowIds : t[i] # None /\ t[i].odoo = v
  BY <1>1, <1>3
<1> QED
  BY <1>2, <1>3

LEMMA TableFits ==
  ASSUME Inv, TableInv
  PROVE  /\ Table \in [RowIds -> Row \cup {None}] /\ Distinct(Table)
         /\ \E m : AllFit(Table, m, shop, carried, odoo)
BY Tables DEF Table, TableInv

\* No fault, and no variation of v is lost from the table.
LEMMA CopyKept ==
  ASSUME Inv, CopyInv, ~Reused, faults' \in {faults, faults + 1}, NEW v \in Variants,
         \A w \in VariationIds :
            w \in Loose(v, shop', carried', Table') => w \in Loose(v, shop, carried, Table)
  PROVE  Cardinality(Loose(v, shop', carried', Table')) <= faults'
<1> DEFINE A == Loose(v, shop', carried', Table')
           B == Loose(v, shop, carried, Table)
<1>1. A \subseteq B
  BY DEF Loose
<1>2. IsFiniteSet(B) /\ Cardinality(A) \in Nat /\ Cardinality(B) \in Nat
  BY LooseType
<1>3. Cardinality(A) <= Cardinality(B)
  <2> HIDE DEF A, B
  <2> QED
    BY <1>1, <1>2, FewerCard
<1>4. Cardinality(B) <= faults
  BY DEF CopyInv
<1>5. faults \in Nat
  BY DEF Inv, InvTypeOK, TypeOK
<1> HIDE DEF A, B
<1>6. Cardinality(A) <= faults'
  BY <1>2, <1>3, <1>4, <1>5
<1> QED
  BY <1>6 DEF A

\* A fault, and one is.
LEMMA CopyLost ==
  ASSUME Inv, CopyInv, ~Reused, faults' = faults + 1, NEW v \in Variants, NEW x,
         \A w \in VariationIds :
            w \in Loose(v, shop', carried', Table') /\ w # x => w \in Loose(v, shop, carried, Table)
  PROVE  Cardinality(Loose(v, shop', carried', Table')) <= faults'
<1> DEFINE A == Loose(v, shop', carried', Table')
           B == Loose(v, shop, carried, Table)
<1>1. A \subseteq B \cup {x}
  BY DEF Loose
<1>2. IsFiniteSet(B) /\ Cardinality(A) \in Nat /\ Cardinality(B) \in Nat
  BY LooseType
<1>3. Cardinality(A) <= Cardinality(B) + 1
  <2> HIDE DEF A, B
  <2> QED
    BY <1>1, <1>2, OneMoreCard
<1>4. Cardinality(B) <= faults
  BY DEF CopyInv
<1>5. faults \in Nat
  BY DEF Inv, InvTypeOK, TypeOK
<1> HIDE DEF A, B
<1>6. Cardinality(A) <= faults'
  BY <1>2, <1>3, <1>4, <1>5
<1> QED
  BY <1>6 DEF A

LEMMA CopyInit == InvInit => CopyInv
<1> SUFFICES ASSUME InvInit, NEW v \in Variants
             PROVE  Cardinality(Loose(v, shop, carried, Table)) <= faults
  BY DEF CopyInv
<1>1. Loose(v, shop, carried, Table) = {}
  BY DEF InvInit, Init, Loose, NoVariation
<1>2. faults = 0
  BY DEF InvInit, Init
<1> QED
  BY <1>1, <1>2, FS_EmptySet

\* The steps between which no SKU is taken over and the table stays.
LEMMA SameTableCopies ==
  ASSUME Inv, CopyInv, ~Reused, faults' \in {faults, faults + 1}, UNCHANGED carried,
         \A i \in RowIds : Table[i] # None => Table'[i] = Table[i],
         \A w \in VariationIds : shop'[w].state = "live" =>
            \/ Live(w) /\ shop'[w].sku = shop[w].sku
            \/ \E i \in RowIds : Table'[i] # None /\ Table'[i].woo = w,
         NEW v \in Variants
  PROVE  Cardinality(Loose(v, shop', carried', Table')) <= faults'
<1>1. ASSUME NEW w \in VariationIds, w \in Loose(v, shop', carried', Table')
      PROVE  w \in Loose(v, shop, carried, Table)
  BY <1>1 DEF Loose, Live
<1> QED
  BY <1>1, CopyKept

LEMMA QuietCopies ==
  ASSUME Inv, TableInv, CopyInv, ~Reused, Quiet, NEW v \in Variants
  PROVE  Cardinality(Loose(v, shop', carried', Table')) <= faults'
<1>1. /\ faults' \in {faults, faults + 1} /\ UNCHANGED <<carried, rows>>
      /\ \A w \in VariationIds : shop'[w].state = "live" => Live(w) /\ shop'[w].sku = shop[w].sku
  BY DEF Quiet, Apart, ShopKept, Live
<1>2. CASE ~Forgets
  <2>1. Table' = Table
    BY <1>1, <1>2 DEF Quiet, Leaves, Works, Reads, Starts, Maps, Begins, Table
  <2> QED
    BY <1>1, <2>1, SameTableCopies
<1>3. CASE Forgets
  <2>1. Table = sync.rows
    BY <1>3 DEF Forgets, Table
  <2>2. ASSUME NEW w \in VariationIds, shop'[w].state = "live"
        PROVE  \A i \in RowIds : sync.rows[i] # None => sync.rows[i].woo # w
    <3> SUFFICES ASSUME NEW i \in RowIds, sync.rows[i] # None, sync.rows[i].woo = w
                 PROVE  FALSE
      OBVIOUS
    <3>1. Live(w) /\ shop[w].product = sync.mapping.woo
      BY <1>1, <2>2 DEF TableInv, AllFit, Fits
    <3>2. products[sync.mapping.woo] = "live"
      BY <3>1 DEF TableInv, ShopFits
    <3> QED
      BY <1>3, <3>2 DEF Forgets
  <2>3. ASSUME NEW w \in VariationIds, w \in Loose(v, shop', carried', Table')
        PROVE  w \in Loose(v, shop, carried, Table)
    BY <1>1, <2>1, <2>2, <2>3 DEF Loose, Live
  <2> QED
    BY <1>1, <2>3, CopyKept
<1> QED
  BY <1>2, <1>3

LEMMA OverwritesCopies ==
  ASSUME Inv, TableInv, CopyInv, ~Reused, Overwrites, NEW v \in Variants
  PROVE  Cardinality(Loose(v, shop', carried', Table')) <= faults'
<1>1. PICK w \in VariationIds :
         /\ Apart /\ Leaves /\ Sells(w) /\ sync.pc = "update" /\ w = sync.rows[sync.row].woo
  BY DEF Overwrites
<1>2. sync.row \in RowIds /\ sync.rows[sync.row] # None
  BY <1>1, SessionFields DEF Inv, InvTypeOK, TypeOK, Shape
<1>3. Table = sync.rows /\ Table' = sync.rows
  BY <1>1 DEF Leaves, Table
<1>4. \A u \in VariationIds : shop'[u].state = "live" =>
         \/ Live(u) /\ shop'[u].sku = shop[u].sku
         \/ \E i \in RowIds : Table'[i] # None /\ Table'[i].woo = u
  BY <1>1, <1>2, <1>3 DEF Sells, Live
<1> QED
  BY <1>1, <1>3, <1>4, SameTableCopies DEF Apart

LEMMA PlacesCopies ==
  ASSUME Inv, TableInv, CopyInv, ~Reused, Places, NEW v \in Variants
  PROVE  Cardinality(Loose(v, shop', carried', Table')) <= faults'
<1>1. PICK w \in VariationIds, i \in RowIds : Apart /\ Inserts(w, i) /\ Sells(w)
  BY DEF Places
<1>2. PICK n \in Row : n = NewRow(w) /\ n.woo = w
  BY <1>1 DEF Inserts, NewRow
<1>3. /\ sync.rows \in [RowIds -> Row \cup {None}] /\ sync.rows[i] = None
      /\ sync'.rows = [sync.rows EXCEPT ![i] = n]
  BY <1>1, <1>2, Tables DEF Inserts
<1>4. Table = sync.rows /\ Table' = sync'.rows
  BY <1>1 DEF Inserts, Table
<1>5. Table'[i] = n /\ \A j \in RowIds : Table[j] # None => Table'[j] = Table[j]
  BY <1>3, <1>4
<1>6. \A u \in VariationIds : shop'[u].state = "live" =>
         \/ Live(u) /\ shop'[u].sku = shop[u].sku
         \/ \E j \in RowIds : Table'[j] # None /\ Table'[j].woo = u
  BY <1>1, <1>2, <1>5 DEF Sells, Live
<1> QED
  BY <1>1, <1>5, <1>6, SameTableCopies DEF Apart

LEMMA StraysCopies ==
  ASSUME Inv, TableInv, CopyInv, ~Reused, Strays, NEW v \in Variants
  PROVE  Cardinality(Loose(v, shop', carried', Table')) <= faults'
<1>1. PICK w \in VariationIds :
         Apart /\ Leaves /\ Sells(w) /\ faults' = faults + 1
  BY DEF Strays
<1>2. Table' = Table /\ carried' = carried
  BY <1>1 DEF Leaves, Apart, Table
<1>3. ASSUME NEW u \in VariationIds, u \in Loose(v, shop', carried', Table'), u # w
      PROVE  u \in Loose(v, shop, carried, Table)
  BY <1>1, <1>2, <1>3 DEF Loose, Sells
<1> QED
  BY <1>1, <1>3, CopyLost

LEMMA DiesCopies ==
  ASSUME Inv, TableInv, CopyInv, ~Reused, Dies, NEW v \in Variants
  PROVE  Cardinality(Loose(v, shop', carried', Table')) <= faults'
<1>1. Apart /\ ShopKept /\ faults' = faults + 1 /\ sync.pc # "idle" /\ carried' = carried
  BY DEF Dies, Ends, Apart
<1>2. PICK x : \A w \in VariationIds :
            Live(w) /\ shop[w].sku \in carried[v] /\ w # x =>
               \A i \in RowIds : sync.rows[i] # None => sync.rows[i].woo # w
  BY NamedOnce, Tables DEF TableInv
<1>3. Table = sync.rows
  BY <1>1 DEF Table
<1>4. ASSUME NEW w \in VariationIds, w \in Loose(v, shop', carried', Table'), w # x
      PROVE  w \in Loose(v, shop, carried, Table)
  BY <1>1, <1>2, <1>3, <1>4 DEF Loose, Live, ShopKept
<1> QED
  BY <1>1, <1>4, CopyLost

\* With no SKU taken over, what the search finds is mapped to no other variant.
LEMMA NeverRaises ==
  ASSUME Inv, TableInv, ~Reused, Raises
  PROVE  FALSE
<1>1. sync.pc = "update_found" /\ sync.found \in VariationIds /\ Clashes(sync.found)
  BY DEF Raises
<1>2. PICK i \in RowIds : /\ sync.rows[i] # None
                          /\ \/ sync.rows[i].odoo = sync.variant
                             \/ sync.rows[i].woo = sync.found
                             \/ sync.rows[i].sku = sync.read.sku
  BY <1>1 DEF Clashes
<1>3. PICK r \in Row : r = sync.rows[i]
  BY <1>2, Tables
<1>4. r.odoo # sync.variant /\ r.woo = sync.found /\ shop[sync.found].sku = sync.read.sku
  BY <1>1, <1>2, <1>3 DEF TableInv, Handling
<1>5. shop[sync.found].sku \in carried[r.odoo] /\ r.odoo \in Variants
  BY <1>2, <1>3, <1>4, ElementTypes DEF TableInv, AllFit, Fits
<1>6. sync.variant \in Variants /\ sync.read.sku \in carried[sync.variant]
  BY <1>1, Handled DEF TableInv, ReadsFit, WasRead, Busy
<1> QED
  BY <1>4, <1>5, <1>6 DEF Reused

\* A SKU that a variant gets is on no variation yet, or it was another's.
LEMMA CorrectsCopies ==
  ASSUME Inv, TableInv, CopyInv, ~Reused, ~Reused', Corrects, NEW v \in Variants
  PROVE  Cardinality(Loose(v, shop', carried', Table')) <= faults'
<1>1. Table' = Table /\ shop' = shop /\ faults' = faults
  BY DEF Corrects, Table
<1>2. ASSUME NEW w \in VariationIds, w \in Loose(v, shop', carried', Table')
      PROVE  w \in Loose(v, shop, carried, Table)
  <2>1. Live(w) /\ shop[w].sku \in carried'[v]
    BY <1>1, <1>2 DEF Loose, Live
  <2>2. PICK u \in Variants : shop[w].sku \in carried[u]
    BY <2>1 DEF TableInv, ShopFits
  <2>3. shop[w].sku \in carried'[u]
    BY <2>2 DEF Corrects
  <2>4. u = v
    BY <2>1, <2>3 DEF Reused
  <2> QED
    BY <1>1, <1>2, <2>2, <2>4 DEF Loose
<1> QED
  BY <1>1, <1>2, CopyKept

LEMMA ReusedStays ==
  ASSUME Inv, [InvNext]_allVars, Reused
  PROVE  Reused'
<1>1. \A v \in Variants : carried[v] \subseteq carried'[v]
  <2>1. CASE SessionMoves
    BY <2>1 DEF SessionMoves, Quiet, Overwrites, Places, Strays, Dies, Raises, Apart
  <2>2. CASE Commits \/ Corrects \/ Deletes \/ Stocks \/ UNCHANGED allVars
    BY <2>2 DEF Commits, Corrects, Deletes, Stocks, allVars, vars
  <2> QED
    BY <2>1, <2>2, StepCases
<1> QED
  BY <1>1 DEF Reused

LEMMA StepCopies == ASSUME Inv, TableInv, CopyInv, [InvNext]_allVars PROVE CopyInv'
<1> SUFFICES ASSUME ~Reused', NEW v \in Variants
             PROVE  Cardinality(Loose(v, shop', carried', Table')) <= faults'
  BY DEF CopyInv
<1>1. ~Reused
  BY ReusedStays
<1>2. CASE SessionMoves
  BY <1>1, <1>2, QuietCopies, OverwritesCopies, PlacesCopies, StraysCopies, DiesCopies, NeverRaises
  DEF SessionMoves
<1>3. CASE Commits
  <2>1. Table = sync.rows /\ Table' = sync.rows /\ UNCHANGED <<carried, shop, faults>>
    BY <1>3, IdleType DEF Commits, Table
  <2> QED
    BY <1>1, <2>1, SameTableCopies DEF Live
<1>4. CASE Corrects
  BY <1>1, <1>4, CorrectsCopies
<1>5. CASE Deletes
  <2>1. Table' = Table /\ UNCHANGED <<carried, faults>>
    BY <1>5 DEF Deletes, Table
  <2>2. \A w \in VariationIds : shop'[w].state = "live" => Live(w) /\ shop'[w].sku = shop[w].sku
    BY <1>5 DEF Deletes
  <2> QED
    BY <1>1, <2>1, <2>2, SameTableCopies
<1>6. CASE Stocks
  <2>1. Table' = Table /\ UNCHANGED carried /\ faults' \in {faults, faults + 1}
    BY <1>6 DEF Stocks, Table
  <2>2. \A w \in VariationIds : shop'[w].state = "live" => Live(w) /\ shop'[w].sku = shop[w].sku
    BY <1>6 DEF Stocks, ShopKept, Live
  <2> QED
    BY <1>1, <2>1, <2>2, SameTableCopies
<1>7. CASE UNCHANGED allVars
  <2>1. Table' = Table /\ UNCHANGED <<carried, shop, faults>>
    BY <1>7 DEF allVars, vars, Table
  <2> QED
    BY <1>1, <2>1, SameTableCopies DEF Live
<1> QED
  BY <1>2, <1>3, <1>4, <1>5, <1>6, <1>7, StepCases

\* A variant is on sale once and once more for each fault, as long as no SKU
\* passes from one variant to another.
THEOREM CopiesHaveCauses == InvSpec => []CopiesExplained
<1>1. ASSUME Inv, TableInv, CopyInv PROVE CopiesExplained
  <2> SUFFICES ASSUME ~Reused, NEW v \in Variants PROVE Cardinality(Copies(v)) <= 1 + faults
    BY DEF CopiesExplained
  <2>1. PICK x : \A w \in VariationIds :
            Live(w) /\ shop[w].sku \in carried[v] /\ w # x =>
               \A i \in RowIds : Table[i] # None => Table[i].woo # w
    BY <1>1, NamedOnce, TableFits
  <2>2. Copies(v) \subseteq Loose(v, shop, carried, Table) \cup {x}
    BY <2>1 DEF Copies, Loose, Live
  <2>3. Cardinality(Copies(v)) <= Cardinality(Loose(v, shop, carried, Table)) + 1
    BY <2>2, LooseType, OneMoreCard
  <2>4. Cardinality(Copies(v)) \in Nat
    BY FS_Subset, FS_CardinalityType DEF Copies
  <2>5. Cardinality(Loose(v, shop, carried, Table)) <= faults /\ faults \in Nat
    BY <1>1 DEF CopyInv, Inv, InvTypeOK, TypeOK
  <2> QED
    BY <2>3, <2>4, <2>5, LooseType
<1> QED
  BY InitInv, StepInv, TableInit, StepTable, CopyInit, StepCopies, <1>1, PTL DEF InvSpec
=============================================================================
