------------------------- MODULE ProductSyncProofs -------------------------
(***************************************************************************)
(* Proofs about ProductSync for any number of products, faults, crashes    *)
(* and deletions.  Inv gives the types and the shape of a session: which of *)
(* its locals are set at each step of _sync_single_product.  Every step of *)
(* a session but Commit is then one of eight Moves of its record, and each *)
(* further invariant is shown move by move.  OwedInv: what is FAILED has a *)
(* failed job, or will when its session commits.  It needs that a session's *)
(* mapping keeps its SKU under it: AsLoaded with one session, FitInv where *)
(* a product has only one SKU to lose and get.  ApartInv and KeptInv: what  *)
(* a session would commit has distinct products and SKUs, and each row that *)
(* it keeps names the same product of the shop: none on sale is abandoned. *)
(* HomeInv and StrayInv, with one session: row and product of the shop      *)
(* belong to one product, no flush raises, and what is on sale and in no   *)
(* row or hand had its fault or crash.                                     *)
(***************************************************************************)
EXTENDS MCProductTeams, FiniteSetTheorems, TLAPS

USE ProductSyncAssumption

\* The locals that are set where session x is.
Shape(x) ==
    /\ x.pc \notin {"idle", "next"} => x.product \in Products /\ x.sku \in SKUs
    /\ x.row # None => x.was \in Row
    /\ x.pc \in {"idle", "next", "lookup", "create", "update_found"} => x.row = None
    /\ x.pc \in {"update", "delete"} => x.row # None
    /\ x.pc \in {"update_found", "save"} => x.found \in WooIds

Inv == TypeOK /\ \A s \in Sessions : Shape(sess[s])

-----------------------------------------------------------------------------
(* Sessions                                                                *)

LEMMA Fields ==
  ASSUME NEW x \in Session
  PROVE  /\ x.pc \in PCs /\ x.todo \in [Products -> SKUs \cup {None}]
         /\ x.product \in Products \cup {None} /\ x.sku \in SKUs \cup {None}
         /\ x.row \in RowIds \cup {None} /\ x.was \in Row \cup {None}
         /\ x.found \in WooIds \cup {None}
         /\ x.put \in [RowIds -> Row \cup {None, Same}] /\ x.jobs \subseteq SKUs
BY DEF Session

LEMMA FreshType ==
  ASSUME NEW pc \in PCs, NEW todo \in [Products -> SKUs \cup {None}]
  PROVE  /\ Fresh(pc, todo) \in Session
         /\ Fresh(pc, todo).pc = pc /\ Fresh(pc, todo).todo = todo
         /\ Fresh(pc, todo).row = None /\ Fresh(pc, todo).jobs = {}
         /\ \A i \in RowIds : Fresh(pc, todo).put[i] = Same
BY DEF Fresh, Session

LEMMA IdleFresh == Idle \in Session /\ Idle.pc = "idle" /\ Idle.row = None /\ Idle.jobs = {}
                   /\ Idle.todo = Nothing /\ \A i \in RowIds : Idle.put[i] = Same
<1>1. "idle" \in PCs /\ Nothing \in [Products -> SKUs \cup {None}]
  BY DEF PCs, Nothing
<1> QED
  BY <1>1, FreshType DEF Idle

LEMMA InitInv == Init => Inv
<1> SUFFICES ASSUME Init PROVE Inv
  OBVIOUS
<1>1. TypeOK
  BY IdleFresh DEF Init, TypeOK
<1>2. \A s \in Sessions : Shape(sess[s])
  BY IdleFresh DEF Init, Shape
<1> QED
  BY <1>1, <1>2 DEF Inv

\* A row as a session sees it.
LEMMA ViewType ==
  ASSUME Inv, NEW s \in Sessions, NEW i \in RowIds
  PROVE  /\ View(s)[i] = IF sess[s].put[i] = Same THEN rows[i] ELSE sess[s].put[i]
         /\ View(s)[i] \in Row \cup {None}
<1>1. sess[s].put \in [RowIds -> Row \cup {None, Same}]
  BY Fields DEF Inv, TypeOK
<1> QED
  BY <1>1 DEF View, Inv, TypeOK

LEMMA WrittenType ==
  ASSUME NEW o \in Products, NEW w \in WooIds, NEW k \in SKUs, NEW st \in Status
  PROVE  /\ Written(o, w, k, st) \in Row
         /\ Written(o, w, k, st).odoo = o /\ Written(o, w, k, st).woo = w
         /\ Written(o, w, k, st).sku = k /\ Written(o, w, k, st).status = st
BY DEF Written, Row

LEMMA RowFields ==
  ASSUME NEW r \in Row
  PROVE  r.odoo \in Products /\ r.woo \in WooIds /\ r.sku \in SKUs /\ r.status \in Status
BY DEF Row

\* What an UPDATE writes, column by column.
LEMMA ChangedType ==
  ASSUME Inv, NEW s \in Sessions, NEW i \in RowIds, NEW was \in Row, was = sess[s].was,
         NEW r \in Row
  PROVE  /\ Changed(s, i, r) \in Row
         /\ \E now \in Row :
               /\ now = IF View(s)[i] = None THEN was ELSE View(s)[i]
               /\ Changed(s, i, r).odoo = IF r.odoo = was.odoo THEN now.odoo ELSE r.odoo
               /\ Changed(s, i, r).woo = IF r.woo = was.woo THEN now.woo ELSE r.woo
               /\ Changed(s, i, r).sku = IF r.sku = was.sku THEN now.sku ELSE r.sku
               /\ Changed(s, i, r).status = IF r.status = was.status THEN now.status ELSE r.status
<1>1. PICK now \in Row : now = IF View(s)[i] = None THEN was ELSE View(s)[i]
  BY ViewType
<1>2. PICK o \in Products : o = IF r.odoo = was.odoo THEN now.odoo ELSE r.odoo
  BY RowFields
<1>3. PICK w \in WooIds : w = IF r.woo = was.woo THEN now.woo ELSE r.woo
  BY RowFields
<1>4. PICK k \in SKUs : k = IF r.sku = was.sku THEN now.sku ELSE r.sku
  BY RowFields
<1>5. PICK st \in Status : st = IF r.status = was.status THEN now.status ELSE r.status
  BY RowFields
<1>6. PICK d \in Row : d = Changed(s, i, r) /\ d.odoo = o /\ d.woo = w /\ d.sku = k /\ d.status = st
  <2>1. Changed(s, i, r) = Written(o, w, k, st)
    BY <1>1, <1>2, <1>3, <1>4, <1>5 DEF Changed
  <2> QED
    BY <2>1, WrittenType
<1> QED
  BY <1>1, <1>2, <1>3, <1>4, <1>5, <1>6

-----------------------------------------------------------------------------
(* What the steps of a session do to its record                            *)

\* Session x becomes y: it goes on with the product it has.
Continues(x, y) ==
    /\ y.todo = x.todo /\ y.product = x.product /\ y.sku = x.sku
    /\ y.row = x.row /\ y.was = x.was /\ y.put = x.put /\ y.jobs = x.jobs

\* It turns to product o, with mapping i, or passes it over.
Takes(x, y, o, i) ==
    /\ (y.pc = "next" /\ i = None) \/ (y.product = o /\ y.sku = x.todo[o])
    /\ y.todo = [x.todo EXCEPT ![o] = None]
    /\ y.row = i /\ y.put = x.put /\ y.jobs = x.jobs

\* It is done with the product: what it flushed is put, J the jobs it added.
Closes(x, y, put, J) ==
    /\ y.pc = "next" /\ y.row = None
    /\ y.todo = x.todo /\ y.put = put /\ y.jobs = x.jobs \cup J

Becomes(s, y) == sess' = [sess EXCEPT ![s] = y]

LEMMA GotoStep ==
  ASSUME TypeOK, NEW s \in Sessions, NEW pc \in PCs, Goto(s, pc)
  PROVE  \E y \in Session :
            Becomes(s, y) /\ Continues(sess[s], y) /\ y.pc = pc /\ y.found = sess[s].found
<1>1. PICK x \in Session : x = sess[s]
  BY DEF TypeOK
<1>2. PICK y \in Session : y = [x EXCEPT !.pc = pc]
  BY DEF Session
<1>3. Continues(x, y) /\ y.pc = pc /\ y.found = x.found
  BY <1>2 DEF Continues, Session
<1>4. Becomes(s, y)
  BY <1>1, <1>2 DEF Becomes, Goto, TypeOK
<1> QED
  BY <1>1, <1>3, <1>4

Finds(s, pc, w) == sess' = [sess EXCEPT ![s].pc = pc, ![s].found = w]

LEMMA FoundStep ==
  ASSUME TypeOK, NEW s \in Sessions, NEW pc \in PCs, NEW w \in WooIds, Finds(s, pc, w)
  PROVE  \E y \in Session :
            Becomes(s, y) /\ Continues(sess[s], y) /\ y.pc = pc /\ y.found = w
<1>1. PICK x \in Session : x = sess[s]
  BY DEF TypeOK
<1>2. PICK y \in Session : y = [x EXCEPT !.pc = pc, !.found = w]
  BY DEF Session
<1>3. Continues(x, y) /\ y.pc = pc /\ y.found = w
  BY <1>2 DEF Continues, Session
<1>4. Becomes(s, y)
  BY <1>1, <1>2 DEF Becomes, Finds, TypeOK
<1> QED
  BY <1>1, <1>3, <1>4

LEMMA TakeStep ==
  ASSUME Inv, NEW s \in Sessions, NEW o \in Products, NEW pc \in PCs,
         NEW i \in RowIds \cup {None}, Take(s, o, pc, i)
  PROVE  \E y \in Session :
            /\ Becomes(s, y) /\ Takes(sess[s], y, o, i) /\ y.pc = pc
            /\ i # None => y.was = View(s)[i]
<1>1. PICK x \in Session : x = sess[s]
  BY DEF Inv, TypeOK
<1>2. PICK was \in Row \cup {None} : was = IF i = None THEN None ELSE View(s)[i]
  BY ViewType
<1>3. PICK todo \in [Products -> SKUs \cup {None}] : todo = [x.todo EXCEPT ![o] = None]
  BY Fields
<1>4. PICK k \in SKUs \cup {None} : k = x.todo[o]
  BY Fields
<1>5. PICK y \in Session :
         y = [x EXCEPT !.pc = pc, !.todo = todo, !.product = o, !.sku = k, !.found = None,
                       !.row = i, !.was = was]
  BY DEF Session
<1>6. /\ y.pc = pc /\ y.todo = todo /\ y.product = o /\ y.sku = k /\ y.row = i
      /\ y.was = was /\ y.put = x.put /\ y.jobs = x.jobs
  BY <1>5 DEF Session
<1>7. Becomes(s, y)
  BY <1>1, <1>2, <1>3, <1>4, <1>5 DEF Becomes, Take, Inv, TypeOK, Session
<1> QED
  BY <1>1, <1>2, <1>3, <1>4, <1>6, <1>7 DEF Takes

LEMMA PassStep ==
  ASSUME Inv, NEW s \in Sessions, NEW o \in Products, At(s, "next"),
         sess' = [sess EXCEPT ![s] = [sess[s] EXCEPT !.todo[o] = None]]
  PROVE  \E y \in Session : Becomes(s, y) /\ Takes(sess[s], y, o, None) /\ y.pc = "next"
<1>1. PICK x \in Session : x = sess[s] /\ x.pc = "next" /\ x.row = None
  BY DEF Inv, TypeOK, At, Shape
<1>2. PICK todo \in [Products -> SKUs \cup {None}] : todo = [x.todo EXCEPT ![o] = None]
  BY Fields
<1>3. PICK y \in Session : y = [x EXCEPT !.todo = todo]
  BY DEF Session
<1>4. y.pc = "next" /\ y.row = None /\ y.todo = todo /\ y.put = x.put /\ y.jobs = x.jobs
  BY <1>1, <1>3 DEF Session
<1>5. Becomes(s, y)
  BY <1>1, <1>2, <1>3 DEF Becomes, Session
<1>6. Takes(x, y, o, None)
  BY <1>1, <1>2, <1>4 DEF Takes
<1> QED
  BY <1>1, <1>4, <1>5, <1>6

LEMMA PutStep ==
  ASSUME TypeOK, NEW s \in Sessions, NEW i \in RowIds, NEW r \in Row, Put(s, i, r)
  PROVE  \E y \in Session :
            Becomes(s, y) /\ Closes(sess[s], y, [sess[s].put EXCEPT ![i] = r], {})
<1>1. PICK x \in Session : x = sess[s]
  BY DEF TypeOK
<1>2. PICK put \in [RowIds -> Row \cup {None, Same}] : put = [x.put EXCEPT ![i] = r]
  BY Fields
<1>3. PICK y \in Session :
         y = [x EXCEPT !.pc = "next", !.put = put, !.product = None, !.sku = None, !.row = None,
                       !.was = None, !.found = None]
  BY DEF Session, PCs
<1>4. y.pc = "next" /\ y.row = None /\ y.todo = x.todo /\ y.put = put /\ y.jobs = x.jobs
  BY <1>3 DEF Session
<1>5. Becomes(s, y)
  BY <1>1, <1>2, <1>3 DEF Becomes, Put, TypeOK, Session
<1> QED
  BY <1>1, <1>2, <1>4, <1>5 DEF Closes

\* The failed product is marked, and a failed job is added.
LEMMA MarkStep ==
  ASSUME Inv, NEW s \in Sessions, NEW i \in RowIds, MarkFailed(s, i),
         NEW r \in Row, r = FailedRow(s, i)
  PROVE  \E y \in Session :
            /\ Becomes(s, y)
            /\ Closes(sess[s], y, [sess[s].put EXCEPT ![i] = r], {sess[s].sku})
<1>1. PICK x \in Session : x = sess[s]
  BY DEF Inv, TypeOK
<1>2. PICK put \in [RowIds -> Row \cup {None, Same}] : put = [x.put EXCEPT ![i] = r]
  BY Fields
<1>a. x.sku \in SKUs /\ x.jobs \subseteq SKUs
  BY <1>1, Fields DEF MarkFailed, At, Inv, Shape
<1>3. PICK J \in SUBSET SKUs : J = x.jobs \cup {x.sku}
  BY <1>a
<1>4. PICK y \in Session :
         y = [x EXCEPT !.pc = "next", !.put = put, !.jobs = J, !.product = None, !.sku = None,
                       !.row = None, !.was = None, !.found = None]
  BY DEF Session, PCs
<1>5. y.pc = "next" /\ y.row = None /\ y.todo = x.todo /\ y.put = put /\ y.jobs = J
  BY <1>4 DEF Session
<1>6. Becomes(s, y)
  BY <1>1, <1>2, <1>3, <1>4 DEF Becomes, MarkFailed, Inv, TypeOK, Session
<1> QED
  BY <1>1, <1>2, <1>3, <1>5, <1>6 DEF Closes

LEMMA RecordStep ==
  ASSUME Inv, NEW s \in Sessions, RecordFailure(s)
  PROVE  \E y \in Session :
            Becomes(s, y) /\ Closes(sess[s], y, sess[s].put, {sess[s].sku})
<1>1. PICK x \in Session : x = sess[s] /\ x.row = None
  BY DEF Inv, TypeOK, RecordFailure, Failing
<1>a. x.sku \in SKUs /\ x.jobs \subseteq SKUs
  BY <1>1, Fields DEF RecordFailure, At, Inv, Shape
<1>2. PICK J \in SUBSET SKUs : J = x.jobs \cup {x.sku}
  BY <1>a
<1>3. PICK y \in Session :
         y = [x EXCEPT !.pc = "next", !.jobs = J, !.product = None, !.sku = None, !.found = None]
  BY DEF Session, PCs
<1>4. y.pc = "next" /\ y.row = None /\ y.todo = x.todo /\ y.put = x.put /\ y.jobs = J
  BY <1>1, <1>3 DEF Session
<1>5. Becomes(s, y)
  BY <1>1, <1>2, <1>3 DEF Becomes, RecordFailure, Inv, TypeOK
<1> QED
  BY <1>1, <1>2, <1>4, <1>5 DEF Closes

LEMMA DeleteStep ==
  ASSUME Inv, NEW s \in Sessions, DeleteMapping(s)
  PROVE  \E y \in Session, i \in RowIds, q \in {Same, None} :
            /\ Becomes(s, y) /\ y.pc = "lookup" /\ y.row = None
            /\ y.todo = sess[s].todo /\ y.product = sess[s].product /\ y.sku = sess[s].sku
            /\ y.put = [sess[s].put EXCEPT ![i] = q] /\ y.jobs = sess[s].jobs
            /\ i = sess[s].row /\ (q = Same => View(s)[i] = None)
<1>1. PICK x \in Session : x = sess[s]
  BY DEF Inv, TypeOK
<1>2. PICK i \in RowIds : i = x.row
  BY <1>1, Fields DEF DeleteMapping, At, Inv, Shape
<1>3. PICK q \in {Same, None} : q = IF View(s)[i] = None THEN Same ELSE None
  OBVIOUS
<1>4. PICK put \in [RowIds -> Row \cup {None, Same}] : put = [x.put EXCEPT ![i] = q]
  BY Fields
<1>5. PICK y \in Session : y = [x EXCEPT !.pc = "lookup", !.row = None, !.was = None, !.put = put]
  BY DEF Session, PCs
<1>6. /\ y.pc = "lookup" /\ y.row = None /\ y.todo = x.todo /\ y.product = x.product
      /\ y.sku = x.sku /\ y.put = put /\ y.jobs = x.jobs
  BY <1>5 DEF Session
<1>7. Becomes(s, y)
  BY <1>1, <1>2, <1>3, <1>4, <1>5 DEF Becomes, DeleteMapping, Inv, TypeOK, Session
<1>8. /\ y.todo = sess[s].todo /\ y.product = sess[s].product /\ y.sku = sess[s].sku
      /\ y.jobs = sess[s].jobs /\ i = sess[s].row
  BY <1>1, <1>2, <1>6
<1>9. y.put = [sess[s].put EXCEPT ![i] = q]
  BY <1>1, <1>4, <1>6
<1>10. q = Same => View(s)[i] = None
  BY <1>3
<1> QED
  BY <1>6, <1>7, <1>8, <1>9, <1>10

-----------------------------------------------------------------------------
(* Every step of a session but Commit is a move of one of these kinds, from *)
(* record x of session s to record y.                                      *)

\* A flush that breaks a constraint loses the session.
Raised(s) ==
    \/ SaveMappingRaises(s) \/ InsertMappingRaises(s)
    \/ \E i \in RowIds : MarkFailedRaises(s, i)

\* It begins with what Odoo says now, or ends with nothing: it is killed or
\* raises.
Begins(s, y) ==
    /\ (At(s, "idle") /\ y.pc = "next") \/ crashes' = crashes + 1 \/ Raised(s)
    /\ y.pc \in {"idle", "next"} /\ y.row = None /\ y.jobs = {}
    /\ \A o \in Products : y.todo[o] \in {odoo[o], None}
    /\ \A i \in RowIds : y.put[i] = Same

\* It calls the shop, and goes on with the product.
Calling == {"update", "lookup", "update_found", "create"}
Works(x, y) ==
    /\ Continues(x, y) /\ x.pc \in Calling /\ y.pc \notin {"idle", "next"}
    /\ y.pc \in {"update_found", "save"} /\ x.row = None =>
          \/ x.pc = "update_found" /\ y.found = x.found
          \/ woo[y.found] \in {x.sku, "absent"}
    /\ y.pc = "save" /\ x.row # None => y.found = x.was.woo
    /\ y.pc = "delete" => woo[x.was.woo] = "gone"

\* It turns to a product, with the mapping that it finds or with none.
Loads(s, x, y) ==
    \E o \in Products, i \in RowIds \cup {None} :
        /\ Takes(x, y, o, i) /\ x.todo[o] # None /\ y.pc \in {"update", "lookup", "failed", "next"}
        /\ x.pc = "next" /\ (y.pc = "lookup" => Mapping(s, o, x.todo[o]) = {})
        /\ i # None => i \in Mapping(s, o, x.todo[o]) /\ y.was = View(s)[i]

\* It deletes its mapping, if it is still there.
Clears(s, x, y) ==
    \E q \in {Same, None} :
        /\ ~Waits(s, x.row, None) /\ (q = Same => View(s)[x.row] = None)
        /\ x.row \in RowIds /\ y.put = [x.put EXCEPT ![x.row] = q] /\ y.jobs = x.jobs
        /\ x.pc = "delete" /\ y.pc = "lookup" /\ y.row = None
        /\ y.todo = x.todo /\ y.product = x.product /\ y.sku = x.sku

\* Row i may become r: nobody holds it, and the constraints are kept.
Allowed(s, i, r) == ~Waits(s, i, r) /\ ~Violates(s, i, r)

\* It writes r to row i, adds the failed jobs J and is done with the product.
Writes(x, y, i, r, J) == Closes(x, y, [x.put EXCEPT ![i] = r], J)
Saves(s, x, y) ==
    /\ x.pc = "save" /\ x.row \in RowIds /\ View(s)[x.row] # None
    /\ Allowed(s, x.row, Changed(s, x.row, Target(s)))
    /\ Writes(x, y, x.row, Changed(s, x.row, Target(s)), {})
Inserts(s, x, y) ==
    \E i \in RowIds : /\ x.pc = "save" /\ x.row = None /\ IsNewRow(i)
                      /\ Allowed(s, i, Target(s)) /\ Writes(x, y, i, Target(s), {})
Marks(s, x, y) ==
    \E i \in Failing(s) : /\ x.pc = "failed" /\ i \in RowIds /\ View(s)[i] # None
                          /\ FailedRow(s, i) \in Row /\ Allowed(s, i, FailedRow(s, i))
                          /\ Writes(x, y, i, FailedRow(s, i), {x.sku})
Records(x, y) == x.pc = "failed" /\ Closes(x, y, x.put, {x.sku})

Moves(s, x, y) ==
    \/ Begins(s, y) \/ Works(x, y) \/ Loads(s, x, y) \/ Clears(s, x, y)
    \/ Saves(s, x, y) \/ Inserts(s, x, y) \/ Marks(s, x, y) \/ Records(x, y)

\* A step of session s that commits nothing.
Step(s) ==
    /\ UNCHANGED <<odoo, rows, jobs>>
    /\ \E y \in Session : Becomes(s, y) /\ Shape(y) /\ Moves(s, sess[s], y)

LEMMA StartStep == ASSUME Inv, NEW s \in Sessions, NEW S, Start(s, S) PROVE Step(s)
<1>1. PICK todo \in [Products -> SKUs \cup {None}] :
         todo = [o \in Products |-> IF o \in S THEN odoo[o] ELSE None]
  BY DEF Inv, TypeOK
<1>2. PICK y \in Session : y = Fresh("next", todo)
  BY FreshType DEF PCs
<1>a. /\ y.pc = "next" /\ y.todo = todo /\ y.row = None /\ y.jobs = {}
      /\ \A i \in RowIds : y.put[i] = Same
  <2>1. "next" \in PCs
    BY DEF PCs
  <2> QED
    BY <1>2, <2>1, FreshType
<1>b. \A o \in Products : todo[o] \in {odoo[o], None}
  BY <1>1
<1>3. Begins(s, y) /\ Shape(y)
  BY <1>a, <1>b DEF Begins, Shape, Start
<1>4. Becomes(s, y)
  BY <1>1, <1>2 DEF Becomes, Start
<1> QED
  BY <1>3, <1>4 DEF Step, Start, Moves

LEMMA LoseStep ==
  ASSUME Inv, NEW s \in Sessions, sess' = [sess EXCEPT ![s] = Idle],
         UNCHANGED <<odoo, rows, jobs>>, crashes' = crashes + 1 \/ Raised(s)
  PROVE  Step(s)
<1>1. Begins(s, Idle) /\ Shape(Idle) /\ Idle \in Session
  BY IdleFresh DEF Begins, Shape, Nothing
<1> QED
  BY <1>1 DEF Step, Moves, Becomes

\* The row i of Mapping is a row of the session's table.
LEMMA MappingType ==
  ASSUME Inv, NEW s \in Sessions, NEW o, NEW k, NEW i \in Mapping(s, o, k)
  PROVE  i \in RowIds /\ View(s)[i] \in Row
         /\ (View(s)[i].odoo = o \/ View(s)[i].sku = k)
<1>1. i \in RowIds /\ View(s)[i] # None /\ (View(s)[i].odoo = o \/ View(s)[i].sku = k)
  BY DEF Mapping, ByOdoo, BySku
<1> QED
  BY <1>1, ViewType

LEMMA LoadStep ==
  ASSUME Inv, NEW s \in Sessions, NEW o \in Products,
         FindMapping(s, o) \/ FindNoMapping(s, o) \/ BuildFails(s, o)
  PROVE  Step(s)
<1>1. PICK k \in SKUs : k = sess[s].todo[o] /\ sess[s].todo[o] # None
  BY Fields DEF FindMapping, FindNoMapping, BuildFails, IsNext, Inv, TypeOK
<1>2. CASE FindMapping(s, o)
  <2>1. PICK i \in Mapping(s, o, k) : Take(s, o, "update", i)
    BY <1>1, <1>2 DEF FindMapping
  <2>2. i \in RowIds /\ i # None /\ View(s)[i] \in Row
    BY <2>1, MappingType
  <2>3. PICK y \in Session : Becomes(s, y) /\ Takes(sess[s], y, o, i) /\ y.pc = "update"
                             /\ y.was = View(s)[i]
    BY <2>1, <2>2, TakeStep DEF PCs
  <2>4. Shape(y)
    BY <1>1, <2>2, <2>3 DEF Shape, Takes
  <2>5. Loads(s, sess[s], y)
    BY <1>1, <1>2, <2>1, <2>2, <2>3 DEF Loads, FindMapping, At
  <2> QED
    BY <1>2, <2>3, <2>4, <2>5 DEF Step, Moves, FindMapping
<1>3. CASE FindNoMapping(s, o) \/ BuildFails(s, o)
  <2>1. /\ At(s, "next")
        /\ \/ \E pc \in {"lookup", "failed"} :
                 Take(s, o, pc, None) /\ (pc = "lookup" => Mapping(s, o, sess[s].todo[o]) = {})
           \/ sess' = [sess EXCEPT ![s] = [sess[s] EXCEPT !.todo[o] = None]]
    BY <1>3 DEF FindNoMapping, BuildFails
  <2>2. PICK y \in Session : /\ Becomes(s, y) /\ Takes(sess[s], y, o, None)
                             /\ y.pc \in {"lookup", "failed", "next"}
                             /\ y.pc = "lookup" => Mapping(s, o, sess[s].todo[o]) = {}
    BY <2>1, TakeStep, PassStep DEF PCs
  <2>3. Shape(y)
    BY <1>1, <2>1, <2>2 DEF Shape, Takes
  <2>4. Loads(s, sess[s], y)
    BY <1>1, <1>3, <2>1, <2>2 DEF Loads, FindNoMapping, BuildFails, At
  <2> QED
    BY <1>3, <2>2, <2>3, <2>4 DEF Step, Moves, FindNoMapping, BuildFails
<1> QED
  BY <1>2, <1>3

\* Where a session may go from where it is, with the product it has.
LEMMA WorkStep ==
  ASSUME Inv, NEW s \in Sessions, UNCHANGED <<odoo, rows, jobs>>,
         NEW y \in Session, Becomes(s, y), Continues(sess[s], y),
         sess[s].pc \in Calling, y.pc \notin {"idle", "next"},
         y.pc \in {"update_found", "save"} /\ sess[s].row = None =>
             (At(s, "update_found") /\ y.found = sess[s].found)
             \/ woo[y.found] \in {sess[s].sku, "absent"},
         y.pc \in {"lookup", "create", "update_found"} => sess[s].row = None,
         y.pc \in {"update", "delete"} => sess[s].row # None,
         y.pc \in {"update_found", "save"} => y.found \in WooIds,
         y.pc = "save" /\ sess[s].row # None => y.found = sess[s].was.woo,
         y.pc = "delete" => woo[sess[s].was.woo] = "gone"
  PROVE  Step(s)
<1>1. Works(sess[s], y)
  BY DEF Works, At
<1>2. Shape(y)
  BY DEF Shape, Continues, Calling, Inv
<1> QED
  BY <1>1, <1>2 DEF Step, Moves


LEMMA GoStep ==
  ASSUME Inv, NEW s \in Sessions, NEW pc \in {"delete", "create", "failed", "save"},
         Goto(s, pc), UNCHANGED <<odoo, rows, jobs>>, sess[s].pc \in Calling,
         pc = "delete" => At(s, "update") /\ woo[sess[s].was.woo] = "gone", pc = "create" => At(s, "lookup"),
         pc = "save" => At(s, "update_found")
  PROVE  Step(s)
<1>1. PICK y \in Session :
         Becomes(s, y) /\ Continues(sess[s], y) /\ y.pc = pc /\ y.found = sess[s].found
  BY GotoStep DEF Inv, PCs
<1>2. /\ y.pc \notin {"idle", "next"}
      /\ y.pc \in {"update_found", "save"} => At(s, "update_found") /\ y.found = sess[s].found
  BY <1>1
<1>3. y.pc \in {"lookup", "create", "update_found"} => sess[s].row = None
  BY <1>1 DEF At, Inv, Shape
<1>4. y.pc \in {"update", "delete"} => sess[s].row # None
  BY <1>1 DEF At, Inv, Shape
<1>5. y.pc \in {"update_found", "save"} => y.found \in WooIds
  BY <1>1 DEF At, Inv, Shape
<1>6. /\ y.pc = "save" /\ sess[s].row # None => y.found = sess[s].was.woo
      /\ y.pc = "delete" => woo[sess[s].was.woo] = "gone"
  BY <1>1 DEF At, Inv, Shape
<1> QED
  BY <1>1, <1>2, <1>3, <1>4, <1>5, <1>6, WorkStep

LEMMA FindStep ==
  ASSUME Inv, NEW s \in Sessions, NEW w \in WooIds, NEW pc \in {"update_found", "save"},
         Finds(s, pc, w), UNCHANGED <<odoo, rows, jobs>>,
         sess[s].pc \in Calling, pc = "update_found" => At(s, "lookup"),
         sess[s].row = None => woo[w] \in {sess[s].sku, "absent"},
         pc = "save" /\ sess[s].row # None => w = sess[s].was.woo
  PROVE  Step(s)
<1>1. PICK y \in Session :
         Becomes(s, y) /\ Continues(sess[s], y) /\ y.pc = pc /\ y.found = w
  <2>1. pc \in PCs /\ TypeOK
    BY DEF PCs, Inv
  <2> HIDE ProductSyncAssumption
  <2> QED
    BY <2>1, FoundStep
<1>2. y.pc \notin {"idle", "next"}
  BY <1>1
<1>3. y.pc \in {"lookup", "create", "update_found"} => sess[s].row = None
  BY <1>1 DEF At, Inv, Shape
<1>4. y.pc \in {"update", "delete"} => sess[s].row # None
  BY <1>1
<1> QED
  BY <1>1, <1>2, <1>3, <1>4, WorkStep

\* The calls to the shop change nothing but the session's record and the shop.
CallOf(s) ==
    \/ UpdateMapped(s) \/ UpdateNotFound(s) \/ UpdateRefused(s)
    \/ \E w \in WooIds : LookupFinds(s, w) \/ CreateProduct(s, w) \/ CreateLost(s, w)
    \/ LookupFindsNone(s) \/ UpdateFound(s) \/ UpdateFoundRefused(s) \/ CreateRefused(s)
    \/ CallFails(s)

LEMMA CallStep == ASSUME Inv, NEW s \in Sessions, CallOf(s) PROVE Step(s)
<1>1. CASE UpdateMapped(s)
  <2>1. PICK w \in WooIds : w = sess[s].was.woo
    BY <1>1, RowFields DEF UpdateMapped, At, Inv, Shape
  <2> QED
    BY <1>1, <2>1, FindStep DEF UpdateMapped, Finds, At, Calling, Inv, Shape
<1>2. CASE \E w \in WooIds : LookupFinds(s, w)
  BY <1>2, FindStep DEF LookupFinds, Finds, At, Calling
<1>3. CASE \E w \in WooIds : CreateProduct(s, w)
  BY <1>3, FindStep DEF CreateProduct, IsNewId, Finds, At, Calling, Inv, Shape
<1>4. CASE UpdateNotFound(s)
  BY <1>4, GoStep DEF UpdateNotFound, At, Calling
<1>5. CASE UpdateRefused(s)
  BY <1>5, GoStep DEF UpdateRefused, At, Calling
<1>6. CASE \E w \in WooIds : CreateLost(s, w)
  BY <1>6, GoStep DEF CreateLost, At, Calling
<1>7. CASE LookupFindsNone(s)
  BY <1>7, GoStep DEF LookupFindsNone, At, Calling
<1>8. CASE UpdateFound(s)
  BY <1>8, GoStep DEF UpdateFound, At, Calling
<1>9. CASE UpdateFoundRefused(s)
  BY <1>9, GoStep DEF UpdateFoundRefused, At, Calling
<1>10. CASE CreateRefused(s)
  BY <1>10, GoStep DEF CreateRefused, At, Calling
<1>11. CASE CallFails(s)
  BY <1>11, GoStep DEF CallFails, At, Calling
<1> QED
  BY <1>1, <1>2, <1>3, <1>4, <1>5, <1>6, <1>7, <1>8, <1>9, <1>10, <1>11 DEF CallOf

\* What a successful product is saved as.
LEMMA TargetType ==
  ASSUME Inv, NEW s \in Sessions, At(s, "save")
  PROVE  Target(s) \in Row /\ Target(s).odoo = sess[s].product /\ Target(s).sku = sess[s].sku
         /\ Target(s).woo = sess[s].found /\ Target(s).status = "SYNCED"
<1>1. PICK o \in Products, w \in WooIds, k \in SKUs :
         o = sess[s].product /\ w = sess[s].found /\ k = sess[s].sku
  BY DEF At, Inv, Shape
<1> QED
  <2>1. PICK st \in Status : st = "SYNCED"
    BY DEF Status
  <2>2. Target(s) = Written(o, w, k, st)
    BY <1>1, <2>1 DEF Target
  <2> QED
    BY <1>1, <2>1, <2>2, WrittenType

\* What the row of a failed product becomes: the row a later sync will find
\* by the SKU, or the one that the session has loaded.
LEMMA FailedRowType ==
  ASSUME Inv, NEW s \in Sessions, At(s, "failed"), NEW i \in Failing(s)
  PROVE  /\ i \in RowIds
         /\ sess[s].row # None => i = sess[s].row
         /\ sess[s].row = None => View(s)[i] \in Row /\ View(s)[i].sku = sess[s].sku
         /\ FailedRow(s, i) \in Row
         /\ sess[s].row = None => /\ FailedRow(s, i).sku = sess[s].sku
                                  /\ FailedRow(s, i).odoo = View(s)[i].odoo
                                  /\ FailedRow(s, i).woo = View(s)[i].woo
         /\ sess[s].row # None =>
               \E r \in Row : /\ FailedRow(s, i) = Changed(s, i, r)
                              /\ r.odoo = sess[s].product /\ r.sku = sess[s].sku
                              /\ r.woo = sess[s].was.woo
<1>1. CASE sess[s].row = None
  <2>1. i \in RowIds /\ View(s)[i] \in Row /\ View(s)[i].sku = sess[s].sku
    BY <1>1, ViewType DEF Failing, BySku
  <2>2. PICK q \in Row : q = View(s)[i]
    BY <2>1
  <2>3. PICK r \in Row : r = [q EXCEPT !.status = "FAILED"]
    BY DEF Row, Status
  <2>4. r.sku = q.sku /\ r.odoo = q.odoo /\ r.woo = q.woo
    BY <2>3 DEF Row
  <2>5. FailedRow(s, i) = r
    BY <1>1, <2>2, <2>3 DEF FailedRow
  <2> QED
    BY <1>1, <2>1, <2>2, <2>4, <2>5
<1>2. CASE sess[s].row # None
  <2>1. sess[s].was \in Row
    BY <1>2 DEF At, Inv, Shape
  <2>a. PICK o \in Products, k \in SKUs : o = sess[s].product /\ k = sess[s].sku
    BY DEF At, Inv, Shape
  <2>2. i = sess[s].row /\ i \in RowIds
    BY <1>2, Fields DEF Failing, Inv, TypeOK
  <2>3. PICK w \in WooIds, st \in Status :
           /\ w = sess[s].was.woo
           /\ st = IF StillFound(s, i) THEN "FAILED" ELSE sess[s].was.status
    BY <2>1, RowFields DEF Status
  <2>4. PICK r \in Row : r = Written(o, w, k, st)
    BY WrittenType
  <2>5. r.odoo = o /\ r.sku = k /\ r.woo = w
    BY <2>4, WrittenType
  <2>6. FailedRow(s, i) = Changed(s, i, r)
    BY <1>2, <2>a, <2>3, <2>4 DEF FailedRow
  <2>7. Changed(s, i, r) \in Row
    BY <2>1, <2>2, ChangedType
  <2> QED
    BY <1>2, <2>a, <2>2, <2>3, <2>5, <2>6, <2>7
<1> QED
  BY <1>1, <1>2

\* A session that is done with its product.
LEMMA ClosedShape ==
  ASSUME NEW x, NEW y, NEW put, NEW J, Closes(x, y, put, J)
  PROVE  Shape(y)
BY DEF Closes, Shape

LEMMA SaveStep == ASSUME Inv, NEW s \in Sessions, SaveMapping(s) PROVE Step(s)
<1>1. PICK i \in RowIds : i = sess[s].row
  BY Fields DEF SaveMapping, Inv, TypeOK
<1>2. PICK was \in Row : was = sess[s].was
  BY DEF SaveMapping, Inv, Shape
<1>3. Target(s) \in Row
  BY TargetType DEF SaveMapping
<1>4. PICK r \in Row : r = Changed(s, i, Target(s))
  BY <1>2, <1>3, ChangedType
<1>5. At(s, "save") /\ ~Raises(s, i, r) /\ ~Waits(s, i, r) /\ Put(s, i, r) /\ UNCHANGED <<odoo, rows, jobs>>
  BY <1>1, <1>4 DEF SaveMapping
<1>6. PICK y \in Session : Becomes(s, y) /\ Closes(sess[s], y, [sess[s].put EXCEPT ![i] = r], {})
  BY <1>5, PutStep DEF Inv
<1>7. Saves(s, sess[s], y)
  BY <1>1, <1>4, <1>5, <1>6 DEF Saves, Writes, Raises, Allowed, At
<1> QED
  BY <1>5, <1>6, <1>7, ClosedShape DEF Step, Moves

LEMMA InsertStep ==
  ASSUME Inv, NEW s \in Sessions, NEW i \in RowIds, InsertMapping(s, i)
  PROVE  Step(s)
<1>1. PICK r \in Row : r = Target(s)
  BY TargetType DEF InsertMapping
<1>2. Put(s, i, r)
  BY <1>1 DEF InsertMapping
<1>3. PICK y \in Session : Becomes(s, y) /\ Closes(sess[s], y, [sess[s].put EXCEPT ![i] = r], {})
  BY <1>2, PutStep DEF Inv
<1>4. Inserts(s, sess[s], y)
  BY <1>1, <1>3 DEF InsertMapping, Inserts, Writes, Allowed, At
<1> QED
  BY <1>3, <1>4, ClosedShape DEF Step, Moves, InsertMapping

LEMMA FailStep ==
  ASSUME Inv, NEW s \in Sessions,
         RecordFailure(s) \/ \E i \in RowIds : MarkFailed(s, i)
  PROVE  Step(s)
<1>1. CASE RecordFailure(s)
  <2>1. PICK y \in Session : Becomes(s, y) /\ Closes(sess[s], y, sess[s].put, {sess[s].sku})
    BY <1>1, RecordStep
  <2>2. Records(sess[s], y)
    BY <1>1, <2>1 DEF Records, RecordFailure, At
  <2> QED
    BY <1>1, <2>1, <2>2, ClosedShape DEF Step, Moves, RecordFailure
<1>2. CASE \E i \in RowIds : MarkFailed(s, i)
  <2>1. PICK i \in Failing(s) : MarkFailed(s, i)
    BY <1>2 DEF MarkFailed
  <2>2. At(s, "failed") /\ View(s)[i] # None /\ Allowed(s, i, FailedRow(s, i))
        /\ UNCHANGED <<odoo, rows, jobs>>
    BY <2>1 DEF MarkFailed, Raises, Allowed
  <2>3. i \in RowIds /\ FailedRow(s, i) \in Row
    BY <2>2, FailedRowType
  <2>4. PICK y \in Session :
           Becomes(s, y) /\ Writes(sess[s], y, i, FailedRow(s, i), {sess[s].sku})
    BY <2>1, <2>3, MarkStep DEF Writes
  <2>5. Marks(s, sess[s], y)
    BY <2>2, <2>3, <2>4 DEF Marks, At
  <2> QED
    BY <2>2, <2>4, <2>5, ClosedShape DEF Step, Moves, Writes
<1> QED
  BY <1>1, <1>2

LEMMA ClearStep == ASSUME Inv, NEW s \in Sessions, DeleteMapping(s) PROVE Step(s)
<1>1. PICK y \in Session, i \in RowIds, q \in {Same, None} :
            /\ Becomes(s, y) /\ y.pc = "lookup" /\ y.row = None
            /\ y.todo = sess[s].todo /\ y.product = sess[s].product /\ y.sku = sess[s].sku
            /\ y.put = [sess[s].put EXCEPT ![i] = q] /\ y.jobs = sess[s].jobs
            /\ i = sess[s].row /\ (q = Same => View(s)[i] = None)
  BY DeleteStep
<1>2. At(s, "delete") /\ ~Waits(s, sess[s].row, None) /\ UNCHANGED <<odoo, rows, jobs>>
  BY DEF DeleteMapping
<1>3. Clears(s, sess[s], y)
  BY <1>1, <1>2 DEF Clears, At
<1>4. Shape(y)
  BY <1>1, <1>2 DEF Shape, At, Inv
<1> QED
  BY <1>1, <1>2, <1>3, <1>4 DEF Step, Moves

\* Every step of a session is one of these moves, a commit or a loss.
LEMMA SessionStep ==
  ASSUME Inv, NEW s \in Sessions,
         StartFull(s) \/ StartOne(s) \/ Calls(s) \/ Flushes(s) \/ Failures(s)
  PROVE  Step(s) \/ Commit(s)
<1>1. CASE StartFull(s) \/ StartOne(s)
  BY <1>1, StartStep DEF StartFull, StartOne
<1>2. CASE \E o \in Products : FindMapping(s, o) \/ FindNoMapping(s, o) \/ BuildFails(s, o)
  BY <1>2, LoadStep
<1>3. CASE CallOf(s)
  BY <1>3, CallStep
<1>4. CASE RecordFailure(s) \/ \E i \in RowIds : MarkFailed(s, i)
  BY <1>4, FailStep
<1>5. CASE DeleteMapping(s)
  BY <1>5, ClearStep
<1>6. CASE SaveMapping(s) \/ \E i \in RowIds : InsertMapping(s, i)
  BY <1>6, SaveStep, InsertStep
<1>7. CASE SaveMappingRaises(s) \/ InsertMappingRaises(s) \/ \E i \in RowIds : MarkFailedRaises(s, i)
  BY <1>7, LoseStep DEF Raised, SaveMappingRaises, InsertMappingRaises, MarkFailedRaises, Lose
<1>8. CASE Crash(s)
  BY <1>8, LoseStep DEF Crash
<1> QED
  BY <1>1, <1>2, <1>3, <1>4, <1>5, <1>6, <1>7, <1>8 DEF Calls, Flushes, Failures, CallOf

\* The rest of the state keeps its type.
Rest == <<renamed, woo, faults, crashes>>
RestType ==
    /\ renamed \subseteq Products /\ woo \in [WooIds -> SKUs \cup {"absent", "gone"}]
    /\ faults \in 0..MaxFaults /\ crashes \in 0..MaxCrashes

LEMMA CallKeepsRest ==
  ASSUME Inv, NEW s \in Sessions, CallOf(s) PROVE RestType'
<1> USE DEF RestType
<1>1. CASE UpdateMapped(s)
  <2>1. sess[s].sku \in SKUs
    BY <1>1 DEF UpdateMapped, At, Inv, Shape
  <2> QED
    BY <1>1, <2>1 DEF UpdateMapped, Inv, TypeOK
<1>2. CASE UpdateFound(s)
  <2>1. sess[s].sku \in SKUs
    BY <1>2 DEF UpdateFound, At, Inv, Shape
  <2> QED
    BY <1>2, <2>1 DEF UpdateFound, Inv, TypeOK
<1>3. CASE \E w \in WooIds : CreateProduct(s, w) \/ CreateLost(s, w)
  <2>1. PICK w \in WooIds : CreateProduct(s, w) \/ CreateLost(s, w)
    BY <1>3
  <2>2. sess[s].sku \in SKUs
    BY <2>1 DEF CreateProduct, CreateLost, At, Inv, Shape
  <2>3. woo' \in [WooIds -> SKUs \cup {"absent", "gone"}]
    BY <2>1, <2>2 DEF CreateProduct, CreateLost, Inv, TypeOK
  <2>4. UNCHANGED <<renamed, crashes>> /\ (UNCHANGED faults \/ Fault)
    BY <2>1 DEF CreateProduct, CreateLost
  <2> QED
    BY <2>3, <2>4 DEF Fault, Inv, TypeOK
<1>4. CASE CallFails(s)
  BY <1>4 DEF CallFails, Fault, Inv, TypeOK
<1>5. CASE UpdateNotFound(s) \/ UpdateRefused(s) \/ \E w \in WooIds : LookupFinds(s, w)
  BY <1>5 DEF UpdateNotFound, UpdateRefused, LookupFinds, Inv, TypeOK
<1>6. CASE LookupFindsNone(s) \/ UpdateFoundRefused(s) \/ CreateRefused(s)
  BY <1>6 DEF LookupFindsNone, UpdateFoundRefused, CreateRefused, Inv, TypeOK
<1> QED
  BY <1>1, <1>2, <1>3, <1>4, <1>5, <1>6 DEF CallOf

LEMMA SessionKeepsRest ==
  ASSUME Inv, NEW s \in Sessions,
         StartFull(s) \/ StartOne(s) \/ Calls(s) \/ Flushes(s) \/ Failures(s)
  PROVE  RestType'
<1> USE DEF RestType
<1>1. CASE StartFull(s) \/ StartOne(s)
  BY <1>1 DEF StartFull, StartOne, Start, Inv, TypeOK
<1>2. CASE \E o \in Products : FindMapping(s, o) \/ FindNoMapping(s, o)
  BY <1>2 DEF FindMapping, FindNoMapping, Inv, TypeOK
<1>3. CASE \E o \in Products : BuildFails(s, o)
  BY <1>3 DEF BuildFails, Fault, Inv, TypeOK
<1>4. CASE CallOf(s)
  BY <1>4, CallKeepsRest
<1>5. CASE RecordFailure(s) \/ Commit(s) \/ DeleteMapping(s)
  BY <1>5 DEF RecordFailure, Commit, DeleteMapping, Inv, TypeOK
<1>6. CASE Flushes(s)
  BY <1>6 DEF Flushes, DeleteMapping, SaveMapping, SaveMappingRaises, InsertMappingRaises,
              InsertMapping, MarkFailed, MarkFailedRaises, Lose, Inv, TypeOK
<1>7. CASE Crash(s)
  BY <1>7 DEF Crash, Inv, TypeOK
<1> QED
  BY <1>1, <1>2, <1>3, <1>4, <1>5, <1>6, <1>7 DEF Calls, Failures, CallOf

LEMMA CommitTypes ==
  ASSUME Inv, NEW s \in Sessions, Commit(s)
  PROVE  /\ \A i \in RowIds : rows'[i] = View(s)[i]
         /\ rows' \in [RowIds -> Row \cup {None}]
         /\ jobs' = jobs \cup sess[s].jobs /\ jobs' \subseteq SKUs
         /\ sess' = [sess EXCEPT ![s] = Idle] /\ odoo' = odoo
<1>1. rows' = View(s)
  BY DEF Commit
<1>2. View(s) \in [RowIds -> Row \cup {None}]
  BY ViewType DEF View
<1>3. sess[s].jobs \subseteq SKUs
  BY Fields DEF Inv, TypeOK
<1> QED
  BY <1>1, <1>2, <1>3 DEF Commit, Inv, TypeOK

LEMMA NextInv == Inv /\ [Next]_vars => Inv'
<1> SUFFICES ASSUME Inv, [Next]_vars PROVE Inv'
  OBVIOUS
<1>1. ASSUME NEW s \in Sessions,
             StartFull(s) \/ StartOne(s) \/ Calls(s) \/ Flushes(s) \/ Failures(s)
      PROVE  Inv'
  <2>1. RestType'
    BY <1>1, SessionKeepsRest
  <2>2. CASE Step(s)
    <3>1. PICK y \in Session : Becomes(s, y) /\ Shape(y)
      BY <2>2 DEF Step
    <3>2. sess' \in [Sessions -> Session] /\ \A t \in Sessions : Shape(sess'[t])
      BY <3>1 DEF Becomes, Inv, TypeOK
    <3> QED
      BY <2>1, <2>2, <3>2 DEF Step, RestType, Inv, TypeOK
  <2>3. CASE Commit(s)
    <3>1. rows' \in [RowIds -> Row \cup {None}] /\ jobs' \subseteq SKUs /\ odoo' = odoo
          /\ sess' = [sess EXCEPT ![s] = Idle]
      BY <2>3, CommitTypes
    <3>2. Shape(Idle)
      BY IdleFresh DEF Shape
    <3>3. sess' \in [Sessions -> Session] /\ \A t \in Sessions : Shape(sess'[t])
      BY <3>1, <3>2, IdleFresh DEF Inv, TypeOK
    <3> QED
      BY <2>1, <3>1, <3>3 DEF RestType, Inv, TypeOK
  <2> QED
    BY <1>1, <2>2, <2>3, SessionStep
<1>2. CASE \E o \in Products, k \in SKUs \cup {None} : Rename(o, k)
  <2>1. odoo' \in [Products -> SKUs \cup {None}] /\ renamed' \subseteq Products
    BY <1>2 DEF Rename, Inv, TypeOK
  <2>2. UNCHANGED <<woo, rows, jobs, sess, faults, crashes>>
    BY <1>2 DEF Rename
  <2> QED
    BY <2>1, <2>2 DEF Inv, TypeOK
<1>4. CASE \E w \in WooIds : RemoveFromShop(w)
  BY <1>4 DEF RemoveFromShop, Inv, TypeOK
<1>3. CASE UNCHANGED vars
  BY <1>3 DEF vars, Inv, TypeOK
<1> QED
  BY <1>1, <1>2, <1>3, <1>4 DEF Next, Users

\* The variables keep their types.
THEOREM TypeCorrect == Spec => []TypeOK
<1>1. Inv => TypeOK
  BY DEF Inv
<1> QED
  BY <1>1, InitInv, NextInv, PTL DEF Spec

-----------------------------------------------------------------------------
(* A mapping that is FAILED has a failed job.  OwedInv says it of what is  *)
(* committed and of what a session will commit with its jobs.  It is kept  *)
(* by every step of a session whose mapping is Loaded: another session has *)
(* not changed it since, or not its SKU.                                   *)

Owes(r, J) == r \notin {None, Same} /\ r.status = "FAILED" => r.sku \in J
OwedInv ==
    /\ \A i \in RowIds : rows[i] # None => Owes(rows[i], jobs)
    /\ \A s \in Sessions, i \in RowIds : Owes(sess[s].put[i], jobs \cup sess[s].jobs)

Loaded(s) ==
    sess[s].row # None =>
        LET v == View(s)[sess[s].row]
        IN  v = None \/ v = sess[s].was \/ (v.sku = sess[s].sku /\ sess[s].was.sku = sess[s].sku)

LEMMA ViewOwes ==
  ASSUME Inv, OwedInv, NEW s \in Sessions, NEW i \in RowIds
  PROVE  View(s)[i] # None => Owes(View(s)[i], jobs \cup sess[s].jobs)
BY ViewType DEF OwedInv, Owes

\* What a session writes over its mapping has its SKU.  It is FAILED if it
\* was told so, or if the mapping, of the same SKU, is.
LEMMA ChangedLoaded ==
  ASSUME Inv, OwedInv, NEW s \in Sessions, Loaded(s), NEW i \in RowIds, i = sess[s].row,
         View(s)[i] # None, NEW r \in Row, r.sku = sess[s].sku
  PROVE  /\ Changed(s, i, r) \in Row /\ Changed(s, i, r).sku = sess[s].sku
         /\ r.status = "SYNCED" => Owes(Changed(s, i, r), jobs \cup sess[s].jobs)
<1>1. PICK was \in Row : was = sess[s].was
  BY DEF Inv, Shape
<1>2. PICK v \in Row : v = View(s)[i]
  BY ViewType
<1>3. v = was \/ (v.sku = sess[s].sku /\ was.sku = sess[s].sku)
  BY <1>1, <1>2 DEF Loaded
<1>a. PICK d \in Row : d = Changed(s, i, r)
  BY <1>1, ChangedType
<1>4. /\ d.sku = IF r.sku = was.sku THEN v.sku ELSE r.sku
      /\ d.status = IF r.status = was.status THEN v.status ELSE r.status
  BY <1>1, <1>2, <1>a, ChangedType
<1>5. d.sku = sess[s].sku
  BY <1>3, <1>4
<1>6. ASSUME r.status = "SYNCED", d.status = "FAILED" PROVE d.sku \in jobs \cup sess[s].jobs
  <2>1. v.status = "FAILED" /\ v.sku = sess[s].sku
    BY <1>3, <1>4, <1>6
  <2>2. Owes(v, jobs \cup sess[s].jobs)
    BY <1>2, ViewOwes
  <2> QED
    BY <1>5, <2>1, <2>2 DEF Owes
<1> QED
  BY <1>a, <1>4, <1>5, <1>6 DEF Owes

\* What a session has put, after one more write.
LEMMA WriteOwes ==
  ASSUME Inv, OwedInv, NEW s \in Sessions, NEW y, NEW i \in RowIds, NEW r \in Row, NEW J,
         Writes(sess[s], y, i, r, J), Owes(r, jobs \cup sess[s].jobs \cup J)
  PROVE  \A j \in RowIds : Owes(y.put[j], jobs \cup y.jobs)
<1>1. PICK put \in [RowIds -> Row \cup {None, Same}] : put = sess[s].put
  BY Fields DEF Inv, TypeOK
<1>2. y.put = [put EXCEPT ![i] = r] /\ y.jobs = sess[s].jobs \cup J
  BY <1>1 DEF Writes, Closes
<1>3. \A j \in RowIds : Owes(put[j], jobs \cup sess[s].jobs)
  BY <1>1 DEF OwedInv
<1> QED
  BY <1>1, <1>2, <1>3 DEF Owes

LEMMA MoveOwes ==
  ASSUME Inv, OwedInv, NEW s \in Sessions, Loaded(s), NEW y \in Session, Moves(s, sess[s], y)
  PROVE  \A j \in RowIds : Owes(y.put[j], jobs \cup y.jobs)
<1>0. PICK put \in [RowIds -> Row \cup {None, Same}] : put = sess[s].put
  BY Fields DEF Inv, TypeOK
<1>a. \A j \in RowIds : Owes(put[j], jobs \cup sess[s].jobs)
  BY <1>0 DEF OwedInv
<1>1. CASE Begins(s, y)
  BY <1>1 DEF Begins, Owes
<1>2. CASE Works(sess[s], y)
  BY <1>2 DEF Works, Continues, OwedInv
<1>3. CASE Loads(s, sess[s], y)
  BY <1>3 DEF Loads, Takes, OwedInv
<1>4. CASE Clears(s, sess[s], y)
  <2>1. PICK q \in {Same, None}, i \in RowIds : y.put = [put EXCEPT ![i] = q] /\ y.jobs = sess[s].jobs
    BY <1>0, <1>4 DEF Clears
  <2> QED
    BY <1>a, <2>1 DEF Owes
<1>5. CASE Saves(s, sess[s], y)
  <2>1. PICK i \in RowIds : i = sess[s].row /\ View(s)[i] # None /\ At(s, "save")
                            /\ Writes(sess[s], y, i, Changed(s, i, Target(s)), {})
    BY <1>5 DEF Saves, At
  <2>2. PICK r \in Row : r = Target(s) /\ r.sku = sess[s].sku /\ r.status = "SYNCED"
    BY <2>1, TargetType
  <2>3. PICK d \in Row : d = Changed(s, i, r) /\ Owes(d, jobs \cup sess[s].jobs)
    BY <2>1, <2>2, ChangedLoaded
  <2> QED
    BY <2>1, <2>2, <2>3, WriteOwes DEF Owes
<1>6. CASE Inserts(s, sess[s], y)
  <2>1. PICK i \in RowIds : At(s, "save") /\ Writes(sess[s], y, i, Target(s), {})
    BY <1>6 DEF Inserts, At
  <2>2. PICK r \in Row : r = Target(s) /\ r.status = "SYNCED"
    BY <2>1, TargetType
  <2> QED
    BY <2>1, <2>2, WriteOwes DEF Owes
<1>7. CASE Marks(s, sess[s], y)
  <2>1. PICK i \in Failing(s) : /\ i \in RowIds /\ At(s, "failed") /\ View(s)[i] # None
                                /\ Writes(sess[s], y, i, FailedRow(s, i), {sess[s].sku})
    BY <1>7 DEF Marks, At
  <2>2. PICK d \in Row : d = FailedRow(s, i)
    BY <2>1, FailedRowType
  <2>3. CASE sess[s].row = None
    BY <2>1, <2>2, <2>3, FailedRowType, WriteOwes DEF Owes
  <2>4. CASE sess[s].row # None
    <3>1. PICK r \in Row : d = Changed(s, i, r) /\ r.sku = sess[s].sku /\ i = sess[s].row
      BY <2>1, <2>2, <2>4, FailedRowType
    <3>2. d.sku = sess[s].sku
      BY <2>1, <3>1, ChangedLoaded
    <3> QED
      BY <2>1, <2>2, <3>2, WriteOwes DEF Owes
  <2> QED
    BY <2>3, <2>4
<1>8. CASE Records(sess[s], y)
  BY <1>a, <1>0, <1>8 DEF Records, Closes, Owes
<1> QED
  BY <1>1, <1>2, <1>3, <1>4, <1>5, <1>6, <1>7, <1>8 DEF Moves

LEMMA NextOwes ==
  ASSUME Inv, OwedInv, \A s \in Sessions : Loaded(s), [Next]_vars
  PROVE  OwedInv'
<1>1. ASSUME NEW s \in Sessions, Step(s) PROVE OwedInv'
  <2>1. PICK y \in Session : Becomes(s, y) /\ Moves(s, sess[s], y)
    BY <1>1 DEF Step
  <2>2. \A j \in RowIds : Owes(y.put[j], jobs \cup y.jobs)
    BY <2>1, MoveOwes
  <2>3. \A t \in Sessions, j \in RowIds : Owes(sess'[t].put[j], jobs \cup sess'[t].jobs)
    BY <2>1, <2>2 DEF Becomes, OwedInv, Inv, TypeOK
  <2> QED
    BY <1>1, <2>3 DEF Step, OwedInv
<1>2. ASSUME NEW s \in Sessions, Commit(s) PROVE OwedInv'
  <2>1. /\ \A i \in RowIds : rows'[i] = View(s)[i]
        /\ jobs' = jobs \cup sess[s].jobs /\ sess' = [sess EXCEPT ![s] = Idle]
    BY <1>2, CommitTypes
  <2>2. \A i \in RowIds : rows'[i] # None => Owes(rows'[i], jobs')
    BY <2>1, ViewOwes
  <2>3. \A t \in Sessions, j \in RowIds : Owes(sess'[t].put[j], jobs' \cup sess'[t].jobs)
    BY <2>1, IdleFresh DEF OwedInv, Owes, Inv, TypeOK
  <2> QED
    BY <2>2, <2>3 DEF OwedInv
<1>3. CASE Users
  BY <1>3 DEF Users, Rename, RemoveFromShop, OwedInv
<1>4. CASE UNCHANGED vars
  BY <1>4 DEF vars, OwedInv
<1> QED
  BY <1>1, <1>2, <1>3, <1>4, SessionStep DEF Next

LEMMA InitOwes == Init => OwedInv
BY IdleFresh DEF Init, OwedInv, Owes

LEMMA OwedFailed == Inv /\ OwedInv => FailedHasJob
BY DEF Inv, TypeOK, OwedInv, Owes, FailedHasJob

-----------------------------------------------------------------------------
(* One session: nobody else changes the mapping that it has loaded.        *)

AsLoaded(s) == sess[s].row # None => View(s)[sess[s].row] = sess[s].was

LEMMA NextAsLoaded ==
  ASSUME Inv, NEW s, Sessions = {s}, AsLoaded(s), [Next]_vars
  PROVE  AsLoaded(s)'
<1>1. CASE Step(s)
  <2>1. PICK y \in Session : Becomes(s, y) /\ Moves(s, sess[s], y)
    BY <1>1 DEF Step
  <2>2. sess'[s] = y /\ rows' = rows
    BY <1>1, <2>1 DEF Becomes, Step, Inv, TypeOK
  <2>3. CASE y.row = None
    BY <2>2, <2>3 DEF AsLoaded
  <2>4. CASE Works(sess[s], y)
    BY <2>2, <2>4 DEF Works, Continues, AsLoaded, View
  <2>5. CASE Loads(s, sess[s], y)
    BY <2>2, <2>5 DEF Loads, Takes, AsLoaded, View
  <2> QED
    BY <2>1, <2>3, <2>4, <2>5 DEF Moves, Begins, Clears, Saves, Inserts, Marks, Records, Writes,
                                  Closes
<1>2. CASE Commit(s)
  <2>1. sess'[s] = Idle
    BY <1>2 DEF Commit, Inv, TypeOK
  <2> QED
    BY <2>1, IdleFresh DEF AsLoaded
<1>3. CASE Users
  BY <1>3 DEF Users, Rename, RemoveFromShop, AsLoaded, View
<1>4. CASE UNCHANGED vars
  BY <1>4 DEF vars, AsLoaded, View
<1> QED
  BY <1>1, <1>2, <1>3, <1>4, SessionStep DEF Next

-----------------------------------------------------------------------------
(* One SKU for each product: SKUs are given and taken away, not corrected. *)
(* The mapping in a row then keeps its SKU, k[i] for row i, whoever writes *)
(* it, until the row is deleted and its id is given again.                 *)

OneSkuEach == \A o \in Products : \A k, l \in SkusOf[o] \ {None} : k = l

Has(r, k) == r \notin {None, Same} => r.sku = k /\ k \in SkusOf[r.odoo]
Fits(x, k) ==
    /\ \A o \in Products : x.todo[o] \in SkusOf[o] \cup {None}
    /\ x.pc \notin {"idle", "next"} => x.sku \in SkusOf[x.product]
    /\ x.row # None => x.was.sku = k[x.row] /\ x.sku = k[x.row]
    /\ \A i \in RowIds : Has(x.put[i], k[i])

AllFit(k) ==
    /\ \A o \in Products : odoo[o] \in SkusOf[o] \cup {None}
    /\ \A i \in RowIds : Has(rows[i], k[i])
    /\ \A s \in Sessions : Fits(sess[s], k)
FitInv == \E k \in [RowIds -> SKUs \cup {None}] : AllFit(k)

LEMMA ViewHas ==
  ASSUME Inv, NEW k, AllFit(k), NEW s \in Sessions, NEW i \in RowIds, View(s)[i] # None
  PROVE  View(s)[i] \in Row /\ View(s)[i].sku = k[i] /\ k[i] \in SkusOf[View(s)[i].odoo]
<1>1. Has(View(s)[i], k[i])
  BY ViewType DEF AllFit, Fits
<1> QED
  BY <1>1, ViewType DEF Has

LEMMA FitLoaded ==
  ASSUME Inv, FitInv, NEW s \in Sessions PROVE Loaded(s)
<1>1. PICK k \in [RowIds -> SKUs \cup {None}] : AllFit(k)
  BY DEF FitInv
<1> SUFFICES ASSUME sess[s].row # None, View(s)[sess[s].row] # None PROVE Loaded(s)
  BY DEF Loaded
<1>2. PICK i \in RowIds : i = sess[s].row
  BY Fields DEF Inv, TypeOK
<1>3. sess[s].was.sku = k[i] /\ sess[s].sku = k[i]
  BY <1>1, <1>2 DEF AllFit, Fits
<1>4. View(s)[i].sku = k[i]
  BY <1>1, <1>2, ViewHas
<1> QED
  BY <1>2, <1>3, <1>4 DEF Loaded

\* A write over the mapping of a session keeps its SKU.
LEMMA ChangedHas ==
  ASSUME Inv, NEW k, AllFit(k), NEW s \in Sessions, NEW i \in RowIds, i = sess[s].row,
         sess[s].pc \notin {"idle", "next"}, View(s)[i] # None,
         NEW r \in Row, r.sku = sess[s].sku, r.odoo = sess[s].product
  PROVE  Has(Changed(s, i, r), k[i])
<1>1. PICK was \in Row : was = sess[s].was
  BY DEF Inv, Shape
<1>2. was.sku = k[i] /\ r.sku = k[i] /\ k[i] \in SkusOf[r.odoo]
  BY <1>1 DEF AllFit, Fits
<1>3. PICK v \in Row : v = View(s)[i] /\ v.sku = k[i] /\ k[i] \in SkusOf[v.odoo]
  BY ViewHas
<1>4. PICK d \in Row : d = Changed(s, i, r)
  BY <1>1, ChangedType
<1>5. /\ d.odoo = IF r.odoo = was.odoo THEN v.odoo ELSE r.odoo
      /\ d.sku = IF r.sku = was.sku THEN v.sku ELSE r.sku
  <2>1. PICK now \in Row :
           /\ now = IF View(s)[i] = None THEN was ELSE View(s)[i]
           /\ d.odoo = IF r.odoo = was.odoo THEN now.odoo ELSE r.odoo
           /\ d.sku = IF r.sku = was.sku THEN now.sku ELSE r.sku
    BY <1>1, <1>4, ChangedType
  <2>2. now = v
    BY <1>3, <2>1
  <2> QED
    BY <2>1, <2>2
<1> QED
  BY <1>2, <1>3, <1>4, <1>5 DEF Has

\* A session that is done with its product, after one more write.
LEMMA WriteFits ==
  ASSUME Inv, NEW s \in Sessions, NEW y, NEW i \in RowIds, NEW r \in Row, NEW J,
         Writes(sess[s], y, i, r, J), NEW k, Fits(sess[s], k), Has(r, k[i])
  PROVE  Fits(y, k)
<1>1. PICK put \in [RowIds -> Row \cup {None, Same}] : put = sess[s].put
  BY Fields DEF Inv, TypeOK
<1>2. /\ y.put = [put EXCEPT ![i] = r] /\ y.todo = sess[s].todo
      /\ y.pc = "next" /\ y.row = None
  BY <1>1 DEF Writes, Closes
<1>3. \A j \in RowIds : Has(put[j], k[j])
  BY <1>1 DEF Fits
<1>4. \A j \in RowIds : Has(y.put[j], k[j])
  BY <1>2, <1>3
<1> QED
  BY <1>2, <1>4 DEF Fits

\* The new row of an insert takes its SKU: no session has it as its mapping,
\* and nobody has put anything in it.
LEMMA InsertFits ==
  ASSUME Inv, NEW k \in [RowIds -> SKUs \cup {None}], AllFit(k), NEW s \in Sessions,
         NEW y \in Session, Inserts(s, sess[s], y)
  PROVE  \E l \in [RowIds -> SKUs \cup {None}] :
            /\ \A j \in RowIds : Has(rows[j], l[j])
            /\ \A t \in Sessions : Fits(sess[t], l)
            /\ Fits(y, l)
<1>1. PICK i \in RowIds : At(s, "save") /\ IsNewRow(i) /\ Writes(sess[s], y, i, Target(s), {})
  BY DEF Inserts, At
<1>2. PICK r \in Row : r = Target(s) /\ r.sku = sess[s].sku /\ r.odoo = sess[s].product
  BY <1>1, TargetType
<1>3. PICK l \in [RowIds -> SKUs \cup {None}] : l = [k EXCEPT ![i] = r.sku]
  BY RowFields
<1>4. Has(r, l[i])
  BY <1>1, <1>2, <1>3 DEF AllFit, Fits, Has, At
<1>5. /\ rows[i] = None
      /\ \A t \in Sessions : sess[t].put[i] \in {Same, None} /\ sess[t].row # i
  BY <1>1 DEF IsNewRow
<1>6. \A j \in RowIds : Has(rows[j], l[j])
  BY <1>3, <1>5 DEF AllFit, Has
<1>7. ASSUME NEW t \in Sessions PROVE Fits(sess[t], l)
  <2>1. sess[t].row # None => sess[t].row \in RowIds \ {i}
    BY <1>5, Fields DEF Inv, TypeOK
  <2>2. sess[t].row # None => sess[t].was.sku = l[sess[t].row] /\ sess[t].sku = l[sess[t].row]
    BY <1>3, <2>1 DEF AllFit, Fits
  <2>3. \A j \in RowIds : Has(sess[t].put[j], l[j])
    BY <1>3, <1>5 DEF AllFit, Fits, Has
  <2> QED
    BY <2>2, <2>3 DEF AllFit, Fits
<1> QED
  BY <1>1, <1>2, <1>4, <1>6, <1>7, WriteFits

\* The mapping a session loads has the SKU of the product.
LEMMA LoadFits ==
  ASSUME OneSkuEach, Inv, NEW k, AllFit(k), NEW s \in Sessions,
         NEW y \in Session, Loads(s, sess[s], y)
  PROVE  Fits(y, k)
<1>1. PICK o \in Products, i \in RowIds \cup {None} :
         /\ Takes(sess[s], y, o, i) /\ sess[s].todo[o] # None
         /\ i # None => i \in Mapping(s, o, sess[s].todo[o]) /\ y.was = View(s)[i]
  BY DEF Loads
<1>2. PICK todo \in [Products -> SKUs \cup {None}] : todo = sess[s].todo
  BY Fields DEF Inv, TypeOK
<1>3. todo[o] \in SkusOf[o] \ {None}
  BY <1>1, <1>2 DEF AllFit, Fits
<1>4. /\ y.todo = [todo EXCEPT ![o] = None] /\ y.row = i /\ y.put = sess[s].put
      /\ (y.pc = "next" /\ i = None) \/ (y.product = o /\ y.sku = todo[o])
  BY <1>1, <1>2 DEF Takes
<1>5. ASSUME i # None PROVE y.was.sku = k[i] /\ y.sku = k[i]
  <2>1. /\ i \in RowIds /\ View(s)[i] \in Row
        /\ View(s)[i].odoo = o \/ View(s)[i].sku = todo[o]
    BY <1>1, <1>2, <1>5, MappingType
  <2>2. PICK v \in Row : v = View(s)[i]
    BY <2>1
  <2>3. v.sku = k[i] /\ k[i] \in SkusOf[v.odoo]
    BY <2>1, <2>2, ViewHas
  <2>4. v.sku \in SKUs
    BY RowFields
  <2>5. CASE v.odoo = o
    <3>1. k[i] \in SkusOf[o] \ {None}
      BY <2>3, <2>4, <2>5
    <3>2. k[i] = todo[o]
      BY <1>3, <3>1 DEF OneSkuEach
    <3> QED
      BY <1>1, <1>4, <1>5, <2>2, <2>3, <3>2
  <2>6. CASE v.sku = todo[o]
    BY <1>1, <1>4, <1>5, <2>2, <2>3, <2>6
  <2> QED
    BY <2>1, <2>2, <2>5, <2>6
<1>6. \A p \in Products : y.todo[p] \in SkusOf[p] \cup {None}
  BY <1>2, <1>4 DEF AllFit, Fits
<1> QED
  BY <1>3, <1>4, <1>5, <1>6 DEF AllFit, Fits

LEMMA StepFits ==
  ASSUME OneSkuEach, Inv, NEW k \in [RowIds -> SKUs \cup {None}], AllFit(k),
         NEW s \in Sessions, NEW y \in Session, Moves(s, sess[s], y)
  PROVE  \E l \in [RowIds -> SKUs \cup {None}] :
            /\ \A j \in RowIds : Has(rows[j], l[j])
            /\ \A t \in Sessions : Fits(sess[t], l)
            /\ Fits(y, l)
<1>0. Fits(sess[s], k)
  BY DEF AllFit
<1>a. PICK put \in [RowIds -> Row \cup {None, Same}] : put = sess[s].put
  BY Fields DEF Inv, TypeOK
<1> SUFFICES ASSUME ~Inserts(s, sess[s], y) PROVE Fits(y, k)
  BY InsertFits DEF AllFit
<1>1. CASE Begins(s, y)
  BY <1>1 DEF Begins, Fits, Has, AllFit
<1>2. CASE Works(sess[s], y)
  BY <1>0, <1>2 DEF Works, Calling, Continues, Fits
<1>3. CASE Loads(s, sess[s], y)
  BY <1>3, LoadFits
<1>4. CASE Clears(s, sess[s], y)
  <2>1. PICK q \in {Same, None}, i \in RowIds : y.put = [put EXCEPT ![i] = q]
    BY <1>a, <1>4 DEF Clears
  <2>2. \A j \in RowIds : Has(y.put[j], k[j])
    BY <1>0, <1>a, <2>1 DEF Fits, Has
  <2> QED
    BY <1>0, <1>4, <2>2 DEF Clears, Fits
<1>5. CASE Saves(s, sess[s], y)
  <2>1. PICK i \in RowIds : /\ i = sess[s].row /\ View(s)[i] # None /\ sess[s].pc = "save"
                            /\ Writes(sess[s], y, i, Changed(s, i, Target(s)), {})
    BY <1>5 DEF Saves
  <2>2. PICK r \in Row : r = Target(s) /\ r.sku = sess[s].sku /\ r.odoo = sess[s].product
    BY <2>1, TargetType DEF At
  <2>3. sess[s].was \in Row
    BY <2>1 DEF Inv, Shape
  <2>4. PICK d \in Row : d = Changed(s, i, r)
    BY <2>3, ChangedType
  <2>5. Has(d, k[i])
    BY <2>1, <2>2, <2>4, ChangedHas
  <2> QED
    BY <1>0, <2>1, <2>2, <2>4, <2>5, WriteFits
<1>6. CASE Marks(s, sess[s], y)
  <2>1. PICK i \in Failing(s) : /\ i \in RowIds /\ At(s, "failed") /\ View(s)[i] # None
                                /\ Writes(sess[s], y, i, FailedRow(s, i), {sess[s].sku})
    BY <1>6 DEF Marks, At
  <2>2. PICK d \in Row : d = FailedRow(s, i)
    BY <2>1, FailedRowType
  <2>3. CASE sess[s].row = None
    <3>1. d.sku = View(s)[i].sku /\ d.odoo = View(s)[i].odoo
      BY <2>1, <2>2, <2>3, FailedRowType
    <3>2. Has(d, k[i])
      BY <2>1, <3>1, ViewHas DEF Has
    <3> QED
      BY <1>0, <2>1, <2>2, <3>2, WriteFits
  <2>4. CASE sess[s].row # None
    <3>a. /\ i = sess[s].row
          /\ \E r \in Row : /\ FailedRow(s, i) = Changed(s, i, r)
                            /\ r.odoo = sess[s].product /\ r.sku = sess[s].sku
      <4>1. /\ sess[s].row # None => i = sess[s].row
            /\ sess[s].row # None =>
                  \E r \in Row : /\ FailedRow(s, i) = Changed(s, i, r)
                                 /\ r.odoo = sess[s].product /\ r.sku = sess[s].sku
                                 /\ r.woo = sess[s].was.woo
        BY <2>1, FailedRowType
      <4> QED
        BY <2>4, <4>1
    <3>1. PICK r \in Row : /\ d = Changed(s, i, r) /\ r.sku = sess[s].sku
                           /\ r.odoo = sess[s].product /\ i = sess[s].row
      BY <2>2, <3>a
    <3>2. Has(d, k[i])
      BY <2>1, <3>1, ChangedHas DEF At
    <3> QED
      BY <1>0, <2>1, <2>2, <3>2, WriteFits
  <2> QED
    BY <2>3, <2>4
<1>7. CASE Records(sess[s], y)
  BY <1>0, <1>7 DEF Records, Closes, Fits
<1> QED
  BY <1>1, <1>2, <1>3, <1>4, <1>5, <1>6, <1>7 DEF Moves

LEMMA NextFits == ASSUME OneSkuEach, Inv, FitInv, [Next]_vars PROVE FitInv'
<1>0. PICK k \in [RowIds -> SKUs \cup {None}] : AllFit(k)
  BY DEF FitInv
<1>1. ASSUME NEW s \in Sessions, Step(s) PROVE FitInv'
  <2>1. PICK y \in Session : Becomes(s, y) /\ Moves(s, sess[s], y)
    BY <1>1 DEF Step
  <2>2. PICK l \in [RowIds -> SKUs \cup {None}] :
            /\ \A j \in RowIds : Has(rows[j], l[j])
            /\ \A t \in Sessions : Fits(sess[t], l)
            /\ Fits(y, l)
    BY <1>0, <2>1, StepFits
  <2>3. \A t \in Sessions : Fits(sess'[t], l)
    BY <2>1, <2>2 DEF Becomes, Inv, TypeOK
  <2>4. AllFit(l)'
    BY <1>0, <1>1, <2>2, <2>3 DEF Step, AllFit
  <2> QED
    BY <2>4 DEF FitInv
<1>2. ASSUME NEW s \in Sessions, Commit(s) PROVE FitInv'
  <2>1. /\ \A i \in RowIds : rows'[i] = View(s)[i]
        /\ sess' = [sess EXCEPT ![s] = Idle] /\ odoo' = odoo
    BY <1>2, CommitTypes
  <2>2. \A i \in RowIds : Has(rows'[i], k[i])
    BY <1>0, <2>1, ViewHas DEF Has
  <2>3. Fits(Idle, k)
    BY IdleFresh DEF Fits, Has, Nothing
  <2>4. \A t \in Sessions : Fits(sess'[t], k)
    BY <1>0, <2>1, <2>3 DEF AllFit, Inv, TypeOK
  <2>5. AllFit(k)'
    BY <1>0, <2>1, <2>2, <2>4 DEF AllFit
  <2> QED
    BY <2>5 DEF FitInv
<1>3. CASE \E o \in Products, d \in SKUs \cup {None} : Rename(o, d)
  <2>1. \A o \in Products : odoo'[o] \in SkusOf[o] \cup {None}
    BY <1>0, <1>3 DEF Rename, AllFit, Inv, TypeOK
  <2>2. AllFit(k)'
    BY <1>0, <1>3, <2>1 DEF Rename, AllFit
  <2> QED
    BY <2>2 DEF FitInv
<1>4. CASE UNCHANGED vars \/ \E w \in WooIds : RemoveFromShop(w)
  <2>1. AllFit(k)'
    BY <1>0, <1>4 DEF vars, RemoveFromShop, AllFit
  <2> QED
    BY <2>1 DEF FitInv
<1> QED
  BY <1>1, <1>2, <1>3, <1>4, SessionStep DEF Next, Users

LEMMA InitFits == Init => FitInv
<1> SUFFICES ASSUME Init PROVE FitInv
  OBVIOUS
<1>1. PICK k \in [RowIds -> SKUs \cup {None}] : k = [i \in RowIds |-> None]
  OBVIOUS
<1>2. AllFit(k)
  BY IdleFresh DEF Init, AllFit, Fits, Has, Nothing
<1> QED
  BY <1>2 DEF FitInv

-----------------------------------------------------------------------------
\* A mapping that is FAILED has a failed job under its SKU, for any number of
\* sessions that overlap if SKUs are given and taken away but not corrected, and
\* for any corrections if sessions do not overlap.  (With both, TLC refutes it.)
THEOREM FailedNeverForgotten ==
  ASSUME OneSkuEach \/ \E s : Sessions = {s}
  PROVE  Spec => []FailedHasJob
<1>1. CASE OneSkuEach
  <2> DEFINE I == Inv /\ OwedInv /\ FitInv
  <2>1. Init => I
    BY InitInv, InitOwes, InitFits
  <2>2. I /\ [Next]_vars => I'
    BY <1>1, NextInv, NextOwes, NextFits, FitLoaded
  <2>3. I => FailedHasJob
    BY OwedFailed
  <2> QED
    BY <2>1, <2>2, <2>3, PTL DEF Spec
<1>2. CASE \E s : Sessions = {s}
  <2>1. PICK s : Sessions = {s}
    BY <1>2
  <2> DEFINE I == Inv /\ OwedInv /\ AsLoaded(s)
  <2>2. Init => I
    BY <2>1, InitInv, InitOwes, IdleFresh DEF Init, AsLoaded
  <2>3. AsLoaded(s) => \A t \in Sessions : Loaded(t)
    BY <2>1 DEF AsLoaded, Loaded
  <2>4. I /\ [Next]_vars => I'
    BY <2>1, <2>3, NextInv, NextOwes, NextAsLoaded
  <2>5. I => FailedHasJob
    BY OwedFailed
  <2> QED
    BY <2>2, <2>4, <2>5, PTL DEF Spec
<1> QED
  BY <1>1, <1>2

-----------------------------------------------------------------------------
(* No product on sale is abandoned.  Three facts make the invariant: the   *)
(* tables keep UNIQUE(odoo), UNIQUE(woo) and UNIQUE(sku), and one session  *)
(* holds a row (ApartInv); a session keeps the shop's product in every row *)
(* that it writes, and does not change both its odoo and its sku           *)
(* (Kept, Handles); the SKUs that it read are distinct (Snap).  So         *)
(* a row that it commits has product and SKU of another one only if it has *)
(* deleted that one, whose product was gone.                               *)

\* Row i of table t for a session that has put rows over it.
Seen(put, t, i) == IF put[i] = Same THEN t[i] ELSE put[i]
Apart(put, t) == \A i, j \in RowIds : i # j => ~Clash(Seen(put, t, i), Seen(put, t, j))
ApartInv ==
    /\ \A i, j \in RowIds : i # j => ~Clash(rows[i], rows[j])
    /\ \A s \in Sessions : Apart(sess[s].put, rows)
    /\ \A s, u \in Sessions : s # u => \A i, j \in RowIds :
          /\ sess[s].put[i] # Same => sess[u].put[i] = Same
          /\ sess[s].put[i] # Same /\ sess[u].put[j] # Same
                => ~Clash(sess[s].put[i], sess[u].put[j])
          /\ sess[s].row = i /\ sess[u].put[i] \in Row => rows[i] # None

\* SKU k is one that x will still handle.
IsAhead(x, k) == \E o \in Products : x.todo[o] = k

\* Row r, which x has written over q, is a mapping of the same product of the
\* shop.  A row found by its product got a SKU, which no later product has; one
\* found by its SKU got a product, which has been handled.
Follows(x, r, q) ==
    /\ r.woo = q.woo
    /\ \/ r.odoo = q.odoo /\ (r.sku = q.sku \/ ~IsAhead(x, r.sku))
       \/ r.sku = q.sku /\ x.todo[r.odoo] = None

\* What x has put over table t, with the shop h: only what is gone is deleted.
Kept(x, t, h) ==
    \A i \in RowIds : t[i] # None =>
        /\ x.put[i] = None => h[t[i].woo] = "gone"
        /\ x.put[i] \in Row => Follows(x, x.put[i], t[i])

\* The row that x has loaded: it is of the same product of the shop still, and
\* was found by the product, or by the SKU.
Handles(x, t, h) ==
    x.row # None =>
        /\ x.put[x.row] # None
        /\ x.put[x.row] \in Row => x.put[x.row].woo = x.was.woo
        /\ t[x.row] # None => t[x.row].woo = x.was.woo
        /\ x.pc = "save" => x.found = x.was.woo
        /\ x.pc = "delete" => h[x.was.woo] = "gone"
        /\ \/ /\ x.was.odoo = x.product
              /\ t[x.row] # None /\ x.put[x.row] \in Row => x.put[x.row].odoo = t[x.row].odoo
           \/ /\ x.was.odoo # x.product /\ x.was.sku = x.sku
              /\ t[x.row] # None /\ x.put[x.row] \in Row => x.put[x.row].sku = t[x.row].sku

\* The SKUs that x has read are distinct, and it handles each product once.
Snap(x) ==
    /\ \A o, p \in Products : x.todo[o] # None /\ x.todo[o] = x.todo[p] => o = p
    /\ x.pc \notin {"idle", "next"} => ~IsAhead(x, x.sku) /\ x.todo[x.product] = None

KeptInv ==
    /\ \A o, p \in Products : odoo[o] # None /\ odoo[o] = odoo[p] => o = p
    /\ \A s \in Sessions : /\ Kept(sess[s], rows, woo) /\ Handles(sess[s], rows, woo)
                           /\ Snap(sess[s])

LEMMA ClashSym == ASSUME NEW r, NEW q, Clash(r, q) PROVE Clash(q, r)
BY DEF Clash

LEMMA KeptInit == Init => ApartInv /\ KeptInv
<1> SUFFICES ASSUME Init PROVE ApartInv /\ KeptInv
  OBVIOUS
<1>1. /\ \A i \in RowIds : rows[i] = None
      /\ \A s \in Sessions : sess[s] = Idle
  BY DEF Init
<1>3. ApartInv
  BY <1>1, IdleFresh DEF ApartInv, Apart, Seen, Clash
<1>4. \A o, p \in Products : odoo[o] # None /\ odoo[o] = odoo[p] => o = p
  BY DEF Init, Free
<1>5. Kept(Idle, rows, woo) /\ Handles(Idle, rows, woo) /\ Snap(Idle)
  BY <1>1, IdleFresh DEF Kept, Handles, Snap, Nothing
<1> QED
  BY <1>1, <1>3, <1>4, <1>5 DEF KeptInv

-----------------------------------------------------------------------------
(* The tables                                                              *)

\* What a move does to what its session has put.
Flushed(s, x, y) ==
    \/ \A i \in RowIds : y.put[i] = Same
    \/ y.put = x.put
    \/ \E i \in RowIds, q \in Row \cup {None} :
          Allowed(s, i, q) /\ y.put = [x.put EXCEPT ![i] = q]

LEMMA MoveFlushes ==
  ASSUME Inv, NEW s \in Sessions, Handles(sess[s], rows, woo), NEW y, Moves(s, sess[s], y)
  PROVE  Flushed(s, sess[s], y)
<1>0. PICK put \in [RowIds -> Row \cup {None, Same}] : put = sess[s].put
  BY Fields DEF Inv, TypeOK
<1>1. CASE Begins(s, y)
  BY <1>1 DEF Begins, Flushed
<1>2. CASE Works(sess[s], y) \/ Loads(s, sess[s], y) \/ Records(sess[s], y)
  BY <1>2 DEF Works, Continues, Loads, Takes, Records, Closes, Flushed
<1>3. CASE Clears(s, sess[s], y)
  <2>1. PICK i \in RowIds, q \in {Same, None} :
           /\ i = sess[s].row /\ ~Waits(s, i, None) /\ y.put = [put EXCEPT ![i] = q]
           /\ q = Same => View(s)[i] = None
    BY <1>0, <1>3 DEF Clears
  <2>2. CASE q = Same
    <3>1. put[i] # None
      BY <1>0, <2>1 DEF Handles
    <3>2. put[i] = Same
      BY <1>0, <2>1, <2>2, <3>1, ViewType
    <3>3. y.put = put
      BY <2>1, <2>2, <3>2
    <3> QED
      BY <1>0, <3>3 DEF Flushed
  <2>3. CASE q = None
    <3>1. Allowed(s, i, None)
      BY <2>1 DEF Allowed, Violates, Clash
    <3> QED
      BY <1>0, <2>1, <2>3, <3>1 DEF Flushed
  <2> QED
    BY <2>2, <2>3
<1>4. CASE Saves(s, sess[s], y)
  <2>1. PICK i \in RowIds : i = sess[s].row /\ At(s, "save")
                            /\ Allowed(s, i, Changed(s, i, Target(s)))
                            /\ y.put = [sess[s].put EXCEPT ![i] = Changed(s, i, Target(s))]
    BY <1>4 DEF Saves, Writes, Closes, At
  <2>2. PICK was \in Row : was = sess[s].was
    BY <2>1 DEF Inv, Shape
  <2>3. Changed(s, i, Target(s)) \in Row
    BY <2>1, <2>2, TargetType, ChangedType
  <2> QED
    BY <2>1, <2>3 DEF Flushed
<1>5. CASE Inserts(s, sess[s], y)
  <2>1. Target(s) \in Row
    BY <1>5, TargetType DEF Inserts, At
  <2> QED
    BY <1>5, <2>1 DEF Inserts, Writes, Closes, Flushed
<1>6. CASE Marks(s, sess[s], y)
  BY <1>6 DEF Marks, Writes, Closes, Flushed
<1> QED
  BY <1>1, <1>2, <1>3, <1>4, <1>5, <1>6 DEF Moves

\* The row that a session holds after a move, and the rows that it makes.
LEMMA MoveRows ==
  ASSUME Inv, NEW s \in Sessions, NEW y \in Session, Moves(s, sess[s], y)
  PROVE  /\ y.row # None => y.row = sess[s].row \/ View(s)[y.row] # None
         /\ \A i \in RowIds : y.put[i] \in Row =>
               y.put[i] = sess[s].put[i] \/ View(s)[i] # None \/ IsNewRow(i)
<1>0. PICK put \in [RowIds -> Row \cup {None, Same}] : put = sess[s].put
  BY Fields DEF Inv, TypeOK
<1>1. CASE Begins(s, y)
  BY <1>1 DEF Begins
<1>2. CASE Works(sess[s], y)
  BY <1>2 DEF Works, Continues
<1>3. CASE Loads(s, sess[s], y)
  <2>1. PICK o \in Products, i \in RowIds \cup {None} :
           Takes(sess[s], y, o, i) /\ (i # None => i \in Mapping(s, o, sess[s].todo[o]))
    BY <1>3 DEF Loads
  <2>2. i # None => View(s)[i] # None
    BY <2>1, MappingType
  <2> QED
    BY <2>1, <2>2 DEF Takes
<1>4. CASE Clears(s, sess[s], y)
  <2>1. PICK i \in RowIds, q \in {Same, None} : y.put = [put EXCEPT ![i] = q] /\ y.row = None
    BY <1>0, <1>4 DEF Clears
  <2> QED
    BY <1>0, <2>1
<1>5. CASE Saves(s, sess[s], y) \/ Inserts(s, sess[s], y) \/ Marks(s, sess[s], y)
  <2>1. \E i \in RowIds : \E r : /\ y.put = [put EXCEPT ![i] = r] /\ y.row = None
                                 /\ (View(s)[i] # None \/ IsNewRow(i))
    BY <1>0, <1>5 DEF Saves, Inserts, Marks, Writes, Closes
  <2>2. PICK i \in RowIds : \E r : /\ y.put = [put EXCEPT ![i] = r] /\ y.row = None
                                   /\ (View(s)[i] # None \/ IsNewRow(i))
    BY <2>1
  <2> QED
    BY <1>0, <2>2
<1>6. CASE Records(sess[s], y)
  BY <1>6 DEF Records, Closes
<1> QED
  BY <1>1, <1>2, <1>3, <1>4, <1>5, <1>6 DEF Moves

\* Row i of a session becomes q.
LEMMA FlushApart ==
  ASSUME Inv, ApartInv, NEW s \in Sessions, NEW y, NEW i \in RowIds,
         NEW q \in Row \cup {None}, Allowed(s, i, q), y.put = [sess[s].put EXCEPT ![i] = q]
  PROVE  /\ Apart(y.put, rows)
         /\ \A u \in Sessions \ {s}, j \in RowIds :
               /\ y.put[j] # Same => sess[u].put[j] = Same
               /\ \A k \in RowIds : y.put[j] # Same /\ sess[u].put[k] # Same
                     => ~Clash(y.put[j], sess[u].put[k]) /\ ~Clash(sess[u].put[k], y.put[j])
<1>1. PICK put \in [RowIds -> Row \cup {None, Same}] : put = sess[s].put
  BY Fields DEF Inv, TypeOK
<1>2. y.put = [put EXCEPT ![i] = q] /\ q # Same
  BY <1>1
<1>3. \A j \in RowIds \ {i} : ~Clash(q, View(s)[j]) /\ ~Clash(View(s)[j], q)
  BY DEF Allowed, Violates, Clash
<1>4. \A j \in RowIds : Seen(y.put, rows, j) = IF j = i THEN q ELSE View(s)[j]
  BY <1>1, <1>2, ViewType DEF Seen
<1>5. \A j, k \in RowIds : j # k => ~Clash(View(s)[j], View(s)[k])
  BY ViewType DEF ApartInv, Apart, Seen
<1>6. \A u \in Sessions \ {s}, k \in RowIds :
         sess[u].put[k] # Same =>
            k # i /\ ~Clash(q, sess[u].put[k]) /\ ~Clash(sess[u].put[k], q)
  BY DEF Allowed, Waits, Clash
<1>7. \A u \in Sessions \ {s}, j, k \in RowIds :
         /\ put[j] # Same => sess[u].put[j] = Same
         /\ put[j] # Same /\ sess[u].put[k] # Same
               => ~Clash(put[j], sess[u].put[k]) /\ ~Clash(sess[u].put[k], put[j])
  BY <1>1, ClashSym DEF ApartInv
<1>8. Apart(y.put, rows)
  <2> SUFFICES ASSUME NEW j \in RowIds, NEW k \in RowIds, j # k
               PROVE  ~Clash(Seen(y.put, rows, j), Seen(y.put, rows, k))
    BY DEF Apart
  <2>1. CASE j = i
    BY <1>3, <1>4, <2>1
  <2>2. CASE k = i
    BY <1>3, <1>4, <2>2
  <2>3. CASE j # i /\ k # i
    BY <1>4, <1>5, <2>3
  <2> QED
    BY <2>1, <2>2, <2>3
<1> QED
  BY <1>1, <1>2, <1>6, <1>7, <1>8

LEMMA MoveApart ==
  ASSUME Inv, ApartInv, NEW s \in Sessions, NEW y \in Session, Flushed(s, sess[s], y)
  PROVE  /\ Apart(y.put, rows)
         /\ \A u \in Sessions \ {s}, j \in RowIds :
               /\ y.put[j] # Same => sess[u].put[j] = Same
               /\ \A k \in RowIds : y.put[j] # Same /\ sess[u].put[k] # Same
                     => ~Clash(y.put[j], sess[u].put[k]) /\ ~Clash(sess[u].put[k], y.put[j])
<1>1. CASE \A i \in RowIds : y.put[i] = Same
  BY <1>1 DEF ApartInv, Apart, Seen
<1>2. CASE y.put = sess[s].put
  BY <1>2 DEF ApartInv, Clash
<1>3. CASE \E i \in RowIds, q \in Row \cup {None} :
              Allowed(s, i, q) /\ y.put = [sess[s].put EXCEPT ![i] = q]
  BY <1>3, FlushApart
<1> QED
  BY <1>1, <1>2, <1>3 DEF Flushed

LEMMA StepApart ==
  ASSUME Inv, ApartInv, KeptInv, NEW s \in Sessions, Step(s)
  PROVE  ApartInv'
<1>1. PICK y \in Session : Becomes(s, y) /\ Moves(s, sess[s], y)
  BY DEF Step
<1>2. rows' = rows /\ sess'[s] = y /\ \A u \in Sessions \ {s} : sess'[u] = sess[u]
  BY <1>1 DEF Step, Becomes, Inv, TypeOK
<1>3. Flushed(s, sess[s], y)
  BY <1>1, MoveFlushes DEF KeptInv
<1>5. \A u \in Sessions : Apart(sess'[u].put, rows')
  BY <1>2, <1>3, MoveApart DEF ApartInv
<1>6. ASSUME NEW t \in Sessions, NEW u \in Sessions, t # u, NEW i \in RowIds, NEW j \in RowIds
      PROVE  /\ sess'[t].put[i] # Same => sess'[u].put[i] = Same
             /\ sess'[t].put[i] # Same /\ sess'[u].put[j] # Same
                   => ~Clash(sess'[t].put[i], sess'[u].put[j])
  <2>1. CASE t = s
    <3>1. sess'[t].put = y.put /\ sess'[u].put = sess[u].put
      BY <1>2, <1>6, <2>1
    <3> QED
      BY <1>3, <1>6, <2>1, <3>1, MoveApart
  <2>2. CASE u = s
    <3>1. sess'[u].put = y.put /\ sess'[t].put = sess[t].put
      BY <1>2, <1>6, <2>2
    <3> QED
      BY <1>3, <1>6, <2>2, <3>1, MoveApart
  <2>3. CASE s \notin {t, u}
    BY <1>2, <1>6, <2>3 DEF ApartInv
  <2> QED
    BY <2>1, <2>2, <2>3
<1>7. ASSUME NEW t \in Sessions, NEW u \in Sessions, t # u, NEW i \in RowIds,
             sess'[t].row = i, sess'[u].put[i] \in Row
      PROVE  rows'[i] # None
  <2>1. CASE t = s
    <3>1. CASE sess[s].row = i
      BY <1>2, <1>7, <2>1, <3>1 DEF ApartInv
    <3>2. CASE View(s)[i] # None
      <4>1. sess[s].put[i] = Same
        BY <1>2, <1>7, <2>1 DEF ApartInv
      <4> QED
        BY <1>2, <3>2, <4>1, ViewType
    <3> QED
      BY <1>1, <1>2, <1>7, <2>1, <3>1, <3>2, MoveRows
  <2>2. CASE u = s
    <3>1. CASE y.put[i] = sess[s].put[i]
      BY <1>2, <1>7, <2>2, <3>1 DEF ApartInv
    <3>2. CASE View(s)[i] # None
      <4>1. sess[s].put[i] # Same => sess[s].put[i] \in Row
        BY <3>2, ViewType
      <4> QED
        BY <1>2, <1>7, <2>2, <3>2, <4>1, ViewType DEF ApartInv
    <3>3. CASE IsNewRow(i)
      BY <1>2, <1>7, <2>2, <3>3 DEF IsNewRow
    <3> QED
      BY <1>1, <1>2, <1>7, <2>2, <3>1, <3>2, <3>3, MoveRows
  <2>3. CASE s \notin {t, u}
    BY <1>2, <1>7, <2>3 DEF ApartInv
  <2> QED
    BY <2>1, <2>2, <2>3
<1>8. \A i, j \in RowIds : i # j => ~Clash(rows'[i], rows'[j])
  BY <1>2 DEF ApartInv
<1>9. \A t, u \in Sessions : t # u => \A i, j \in RowIds :
         /\ sess'[t].put[i] # Same => sess'[u].put[i] = Same
         /\ sess'[t].put[i] # Same /\ sess'[u].put[j] # Same
               => ~Clash(sess'[t].put[i], sess'[u].put[j])
         /\ sess'[t].row = i /\ sess'[u].put[i] \in Row => rows'[i] # None
  BY <1>6, <1>7
<1> QED
  BY <1>5, <1>8, <1>9 DEF ApartInv

\* What a session commits does not clash with what another one has put.
LEMMA CommitApart ==
  ASSUME Inv, ApartInv, NEW s \in Sessions, Commit(s)
  PROVE  ApartInv'
<1>1. /\ \A i \in RowIds : rows'[i] = View(s)[i]
      /\ sess'[s] = Idle /\ \A u \in Sessions \ {s} : sess'[u] = sess[u]
  BY CommitTypes DEF Inv, TypeOK
<1>2. \A i, j \in RowIds : i # j => ~Clash(View(s)[i], View(s)[j])
  BY ViewType DEF ApartInv, Apart, Seen
<1>3. \A i, j \in RowIds : i # j => ~Clash(rows'[i], rows'[j])
  BY <1>1, <1>2
<1>4. ASSUME NEW u \in Sessions PROVE Apart(sess'[u].put, rows')
  <2>1. CASE u = s
    BY <1>1, <1>3, <2>1, IdleFresh DEF Apart, Seen
  <2>2. CASE u # s
    <3>1. PICK put : put = sess[u].put /\ put = sess'[u].put
      BY <1>1, <2>2
    <3>a. \A k, l \in RowIds : k # l => ~Clash(Seen(put, rows, k), Seen(put, rows, l))
      BY <3>1 DEF ApartInv, Apart
    <3>2. ASSUME NEW k \in RowIds, NEW l \in RowIds, k # l, put[k] # Same, put[l] = Same
          PROVE  ~Clash(put[k], View(s)[l]) /\ ~Clash(View(s)[l], put[k])
      <4>1. CASE sess[s].put[l] = Same
        <5>1. Seen(put, rows, k) = put[k] /\ Seen(put, rows, l) = rows[l]
          BY <3>2 DEF Seen
        <5>2. View(s)[l] = rows[l]
          BY <4>1, ViewType
        <5> QED
          BY <3>2, <3>a, <5>1, <5>2
      <4>2. CASE sess[s].put[l] # Same
        <5>1. View(s)[l] = sess[s].put[l]
          BY <4>2, ViewType
        <5>2. ~Clash(put[k], sess[s].put[l])
          BY <2>2, <3>1, <3>2, <4>2 DEF ApartInv
        <5> QED
          BY <5>1, <5>2, ClashSym
      <4> QED
        BY <4>1, <4>2
    <3>3. ASSUME NEW k \in RowIds, NEW l \in RowIds, k # l, put[k] # Same, put[l] # Same
          PROVE  ~Clash(put[k], put[l])
      <4>1. Seen(put, rows, k) = put[k] /\ Seen(put, rows, l) = put[l]
        BY <3>3 DEF Seen
      <4> QED
        BY <3>3, <3>a, <4>1
    <3>4. \A k, l \in RowIds : k # l => ~Clash(Seen(put, rows', k), Seen(put, rows', l))
      BY <1>1, <1>2, <3>2, <3>3 DEF Seen
    <3> QED
      BY <3>1, <3>4 DEF Apart
  <2> QED
    BY <2>1, <2>2
<1>5. ASSUME NEW t \in Sessions, NEW u \in Sessions, t # u, NEW i \in RowIds, NEW j \in RowIds
      PROVE  /\ sess'[t].put[i] # Same => sess'[u].put[i] = Same
             /\ sess'[t].put[i] # Same /\ sess'[u].put[j] # Same
                   => ~Clash(sess'[t].put[i], sess'[u].put[j])
  BY <1>1, <1>5, IdleFresh DEF ApartInv
<1>6. ASSUME NEW t \in Sessions, NEW u \in Sessions, t # u, NEW i \in RowIds,
             sess'[t].row = i, sess'[u].put[i] \in Row
      PROVE  rows'[i] # None
  <2>1. t # s /\ u # s
    BY <1>1, <1>6, IdleFresh
  <2>2. rows[i] # None /\ sess[s].put[i] = Same
    BY <1>1, <1>6, <2>1 DEF ApartInv
  <2> QED
    BY <1>1, <2>2, ViewType
<1>7. \A t, u \in Sessions : t # u => \A i, j \in RowIds :
         /\ sess'[t].put[i] # Same => sess'[u].put[i] = Same
         /\ sess'[t].put[i] # Same /\ sess'[u].put[j] # Same
               => ~Clash(sess'[t].put[i], sess'[u].put[j])
         /\ sess'[t].row = i /\ sess'[u].put[i] \in Row => rows'[i] # None
  BY <1>5, <1>6
<1> QED
  BY <1>3, <1>4, <1>7 DEF ApartInv

-----------------------------------------------------------------------------
(* What a session knows of the rows                                        *)

\* A row that a session sees, and the committed one.
LEMMA SeenFollows ==
  ASSUME Inv, NEW s \in Sessions, Kept(sess[s], rows, woo), NEW i \in RowIds,
         rows[i] # None, NEW v \in Row, v = View(s)[i]
  PROVE  \/ sess[s].put[i] = Same /\ v = rows[i]
         \/ sess[s].put[i] = v /\ Follows(sess[s], v, rows[i])
<1>1. CASE sess[s].put[i] = Same
  BY <1>1, ViewType
<1>2. CASE sess[s].put[i] # Same
  <2>1. sess[s].put[i] = v
    BY <1>2, ViewType
  <2> QED
    BY <2>1 DEF Kept
<1> QED
  BY <1>1, <1>2

\* The row that is written for a product over the mapping it has loaded.
LEMMA ChangedFollows ==
  ASSUME Inv, NEW s \in Sessions, Handles(sess[s], rows, woo), Kept(sess[s], rows, woo),
         Snap(sess[s]), sess[s].pc \notin {"idle", "next"},
         NEW i \in RowIds, i = sess[s].row, View(s)[i] # None, rows[i] # None,
         NEW r \in Row, r.odoo = sess[s].product, r.sku = sess[s].sku, r.woo = sess[s].was.woo
  PROVE  Follows(sess[s], Changed(s, i, r), rows[i])
<1>1. PICK x \in Session : x = sess[s] /\ x.product \in Products /\ x.sku \in SKUs
  BY DEF Inv, TypeOK, Shape
<1>2. PICK was \in Row : was = x.was
  BY <1>1 DEF Inv, Shape
<1>3. PICK v \in Row : v = View(s)[i]
  BY ViewType
<1>4. PICK d \in Row : d = Changed(s, i, r)
  BY <1>1, <1>2, ChangedType
<1>5. /\ d.odoo = IF r.odoo = was.odoo THEN v.odoo ELSE r.odoo
      /\ d.woo = IF r.woo = was.woo THEN v.woo ELSE r.woo
      /\ d.sku = IF r.sku = was.sku THEN v.sku ELSE r.sku
  BY <1>1, <1>2, <1>3, <1>4, ChangedType
<1>6. PICK q \in Row : q = rows[i]
  BY DEF Inv, TypeOK
<1>7. (x.put[i] = Same /\ v = q) \/ (x.put[i] = v /\ Follows(x, v, q))
  BY <1>1, <1>3, <1>6, SeenFollows
<1>8. d.woo = q.woo
  BY <1>1, <1>2, <1>5, <1>7 DEF Follows
<1>9. CASE was.odoo = x.product
  <2>1. v.odoo = q.odoo
    BY <1>1, <1>2, <1>3, <1>6, <1>7, <1>9 DEF Handles
  <2>2. d.odoo = q.odoo
    BY <1>1, <1>5, <1>9, <2>1
  <2>3. v.sku = q.sku \/ ~IsAhead(x, v.sku)
    BY <1>7 DEF Follows
  <2>4. ~IsAhead(x, x.sku)
    BY <1>1 DEF Snap
  <2> QED
    BY <1>1, <1>4, <1>5, <1>6, <1>8, <2>2, <2>3, <2>4 DEF Follows
<1>10. CASE was.odoo # x.product
  <2>1. was.sku = x.sku /\ v.sku = q.sku
    BY <1>1, <1>2, <1>3, <1>6, <1>7, <1>10 DEF Handles
  <2>2. d.sku = q.sku /\ d.odoo = x.product
    BY <1>1, <1>5, <1>10, <2>1
  <2>3. x.todo[x.product] = None
    BY <1>1 DEF Snap
  <2> QED
    BY <1>1, <1>4, <1>6, <1>8, <2>2, <2>3 DEF Follows
<1> QED
  BY <1>9, <1>10

\* A product and the row that is found for it.
LEMMA LoadKeeps ==
  ASSUME Inv, NEW s \in Sessions, Handles(sess[s], rows, woo), Kept(sess[s], rows, woo),
         Snap(sess[s]), NEW y \in Session, Loads(s, sess[s], y)
  PROVE  Kept(y, rows, woo) /\ Handles(y, rows, woo) /\ Snap(y)
<1>1. PICK x \in Session : x = sess[s]
  BY DEF Inv, TypeOK
<1>2. PICK o \in Products, i \in RowIds \cup {None} :
         /\ Takes(x, y, o, i) /\ x.todo[o] # None /\ y.pc \in {"update", "lookup", "failed", "next"}
         /\ i # None => i \in Mapping(s, o, x.todo[o]) /\ y.was = View(s)[i]
  BY <1>1 DEF Loads
<1>3. PICK todo \in [Products -> SKUs \cup {None}] : todo = x.todo
  BY Fields
<1>4. PICK k \in SKUs : k = todo[o]
  BY <1>2, <1>3
<1>5. /\ y.row = i /\ y.put = x.put
      /\ (y.pc = "next" /\ i = None) \/ (y.product = o /\ y.sku = k)
      /\ y.todo[o] = None /\ \A p \in Products \ {o} : y.todo[p] = todo[p]
  BY <1>2, <1>3, <1>4 DEF Takes
<1>6. \A l \in SKUs : IsAhead(y, l) => IsAhead(x, l)
  BY <1>3, <1>5 DEF IsAhead
<1>7. Kept(y, rows, woo)
  <2> SUFFICES ASSUME NEW j \in RowIds, rows[j] # None, y.put[j] \in Row
               PROVE  Follows(y, y.put[j], rows[j])
    BY <1>1, <1>5 DEF Kept
  <2>1. PICK r \in Row : r = y.put[j] /\ r.odoo \in Products /\ r.sku \in SKUs
    BY RowFields
  <2>2. Follows(x, r, rows[j])
    BY <1>1, <1>5, <2>1 DEF Kept
  <2>3. x.todo[r.odoo] = None => y.todo[r.odoo] = None
    BY <1>3, <1>5, <2>1
  <2> QED
    BY <1>6, <2>1, <2>2, <2>3 DEF Follows
<1>8. Snap(y)
  <2>1. \A p, q \in Products : todo[p] # None /\ todo[p] = todo[q] => p = q
    BY <1>1, <1>3 DEF Snap
  <2>2. ~IsAhead(y, k)
    BY <1>4, <1>5, <2>1 DEF IsAhead
  <2> QED
    BY <1>4, <1>5, <2>1, <2>2 DEF Snap
<1>9. ASSUME i # None PROVE Handles(y, rows, woo)
  <2>1. i \in RowIds /\ View(s)[i] \in Row /\ (View(s)[i].odoo = o \/ View(s)[i].sku = k)
    BY <1>2, <1>3, <1>4, <1>9, MappingType
  <2>2. PICK v \in Row : v = View(s)[i] /\ y.was = v
    BY <1>2, <1>9, <2>1
  <2>3. (x.put[i] = Same /\ v = rows[i]) \/ x.put[i] = v
    BY <1>1, <2>1, <2>2, ViewType
  <2>4. ASSUME rows[i] # None, x.put[i] = v PROVE Follows(x, v, rows[i])
    BY <1>1, <2>1, <2>4 DEF Kept
  <2>5. y.put[y.row] # None /\ (y.put[y.row] \in Row => y.put[y.row] = v)
    BY <1>5, <2>3
  <2>6. rows[i] # None => rows[i].woo = v.woo
    BY <2>3, <2>4 DEF Follows
  <2>7. CASE v.odoo = o
    <3>1. rows[i] # None /\ x.put[i] = v => v.odoo = rows[i].odoo
      BY <1>2, <2>4, <2>7 DEF Follows
    <3> QED
      BY <1>2, <1>5, <2>2, <2>5, <2>6, <2>7, <3>1 DEF Handles
  <2>8. CASE v.odoo # o
    <3>1. IsAhead(x, v.sku)
      BY <1>3, <1>4, <2>1, <2>2, <2>8 DEF IsAhead
    <3>2. rows[i] # None /\ x.put[i] = v => v.sku = rows[i].sku
      BY <2>4, <3>1 DEF Follows
    <3> QED
      BY <1>2, <1>5, <2>1, <2>2, <2>5, <2>6, <2>8, <3>2 DEF Handles
  <2> QED
    BY <2>7, <2>8
<1>10. ASSUME i = None PROVE Handles(y, rows, woo)
  BY <1>5, <1>10 DEF Handles
<1> QED
  BY <1>7, <1>8, <1>9, <1>10

\* A session closes its product, with row r over i.
LEMMA WriteKeeps ==
  ASSUME Inv, NEW s \in Sessions, Kept(sess[s], rows, woo), Snap(sess[s]),
         NEW y \in Session, NEW i \in RowIds, NEW r \in Row, NEW J,
         Writes(sess[s], y, i, r, J), rows[i] # None => Follows(sess[s], r, rows[i])
  PROVE  Kept(y, rows, woo) /\ Handles(y, rows, woo) /\ Snap(y)
<1>1. PICK x \in Session : x = sess[s]
  BY DEF Inv, TypeOK
<1>2. PICK put \in [RowIds -> Row \cup {None, Same}] : put = x.put
  BY Fields
<1>3. y.pc = "next" /\ y.row = None /\ y.todo = x.todo /\ y.put = [put EXCEPT ![i] = r]
  BY <1>1, <1>2 DEF Writes, Closes
<1>4. \A q, l : Follows(y, q, l) <=> Follows(x, q, l)
  BY <1>3 DEF Follows, IsAhead
<1>5. Kept(y, rows, woo)
  BY <1>1, <1>2, <1>3, <1>4 DEF Kept
<1>6. Handles(y, rows, woo) /\ Snap(y)
  BY <1>1, <1>3 DEF Handles, Snap
<1> QED
  BY <1>5, <1>6

LEMMA MoveKeeps ==
  ASSUME Inv, NEW s \in Sessions, Handles(sess[s], rows, woo), Kept(sess[s], rows, woo),
         Snap(sess[s]), NEW y \in Session, Moves(s, sess[s], y),
         \A o, p \in Products : odoo[o] # None /\ odoo[o] = odoo[p] => o = p
  PROVE  Kept(y, rows, woo) /\ Handles(y, rows, woo) /\ Snap(y)
<1>0. PICK x \in Session : x = sess[s]
  BY DEF Inv, TypeOK
<1>a. PICK put \in [RowIds -> Row \cup {None, Same}] : put = x.put
  BY Fields
<1>1. CASE Begins(s, y)
  <2>1. Kept(y, rows, woo) /\ Handles(y, rows, woo)
    BY <1>1 DEF Begins, Kept, Handles
  <2>2. Snap(y)
    BY <1>1 DEF Begins, Snap
  <2> QED
    BY <2>1, <2>2
<1>2. CASE Works(x, y)
  <2>1. Kept(y, rows, woo)
    BY <1>0, <1>2 DEF Works, Continues, Kept, Follows, IsAhead
  <2>2. Handles(y, rows, woo)
    <3>1. /\ y.row = x.row /\ y.was = x.was /\ y.put = x.put /\ y.product = x.product
          /\ y.sku = x.sku
          /\ y.pc = "save" /\ x.row # None => y.found = x.was.woo
          /\ y.pc = "delete" => woo[x.was.woo] = "gone"
      BY <1>0, <1>2 DEF Works, Continues
    <3> QED
      BY <1>0, <3>1 DEF Handles
  <2>3. Snap(y)
    <3>1. y.todo = x.todo /\ y.product = x.product /\ y.sku = x.sku /\ x.pc \notin {"idle", "next"}
      BY <1>2 DEF Works, Continues, Calling
    <3> QED
      BY <1>0, <3>1 DEF Snap, IsAhead
  <2> QED
    BY <2>1, <2>2, <2>3
<1>3. CASE Loads(s, x, y)
  BY <1>0, <1>3, LoadKeeps
<1>4. CASE Clears(s, x, y)
  <2>1. PICK i \in RowIds, q \in {Same, None} :
           /\ i = x.row /\ y.put = [put EXCEPT ![i] = q] /\ x.pc = "delete"
           /\ y.pc = "lookup" /\ y.row = None /\ y.todo = x.todo /\ y.product = x.product
           /\ y.sku = x.sku
    BY <1>a, <1>4 DEF Clears
  <2>2. rows[i] # None => woo[rows[i].woo] = "gone"
    BY <1>0, <2>1 DEF Handles
  <2>3. \A r, l : Follows(y, r, l) <=> Follows(x, r, l)
    BY <2>1 DEF Follows, IsAhead
  <2>4. Kept(y, rows, woo)
    BY <1>0, <1>a, <2>1, <2>2, <2>3 DEF Kept
  <2>5. Handles(y, rows, woo) /\ Snap(y)
    BY <1>0, <2>1 DEF Handles, Snap, IsAhead
  <2> QED
    BY <2>4, <2>5
<1>5. CASE Saves(s, x, y)
  <2>1. PICK i \in RowIds : i = x.row /\ View(s)[i] # None /\ At(s, "save")
                            /\ Writes(x, y, i, Changed(s, i, Target(s)), {})
    BY <1>0, <1>5 DEF Saves, At
  <2>2. PICK was \in Row : was = sess[s].was
    BY <1>0, <2>1 DEF Inv, Shape
  <2>3. PICK r \in Row : r = Target(s) /\ r.odoo = x.product /\ r.sku = x.sku /\ r.woo = x.was.woo
    BY <1>0, <2>1, TargetType DEF At, Handles
  <2>4. PICK d \in Row : d = Changed(s, i, r)
    BY <2>2, <2>3, ChangedType
  <2>5. rows[i] # None => Follows(x, d, rows[i])
    BY <1>0, <2>1, <2>3, <2>4, ChangedFollows DEF At
  <2> QED
    BY <1>0, <2>1, <2>3, <2>4, <2>5, WriteKeeps
<1>6. CASE Inserts(s, x, y)
  <2>1. PICK i \in RowIds : At(s, "save") /\ IsNewRow(i) /\ Writes(x, y, i, Target(s), {})
    BY <1>0, <1>6 DEF Inserts, At
  <2>2. PICK r \in Row : r = Target(s)
    BY <2>1, TargetType
  <2>3. rows[i] = None
    BY <2>1 DEF IsNewRow
  <2> QED
    BY <1>0, <2>1, <2>2, <2>3, WriteKeeps
<1>7. CASE Marks(s, x, y)
  <2>1. PICK i \in Failing(s) : /\ i \in RowIds /\ At(s, "failed") /\ View(s)[i] # None
                                /\ Writes(x, y, i, FailedRow(s, i), {x.sku})
    BY <1>0, <1>7 DEF Marks, At
  <2>2. PICK d \in Row : d = FailedRow(s, i)
    BY <2>1, FailedRowType
  <2>3. ASSUME rows[i] # None PROVE Follows(x, d, rows[i])
    <3>1. CASE x.row = None
      <4>1. d.odoo = View(s)[i].odoo /\ d.sku = View(s)[i].sku /\ d.woo = View(s)[i].woo
        BY <1>0, <2>1, <2>2, <3>1, FailedRowType
      <4>2. PICK v \in Row : v = View(s)[i]
        BY <2>1, ViewType
      <4>3. v = rows[i] \/ (x.put[i] = v /\ Follows(x, v, rows[i]))
        BY <1>0, <2>1, <2>3, <4>2, SeenFollows
      <4> QED
        BY <4>1, <4>2, <4>3 DEF Follows
    <3>2. CASE x.row # None
      <4>1. PICK r \in Row : /\ d = Changed(s, i, r) /\ i = x.row
                             /\ r.odoo = x.product /\ r.sku = x.sku /\ r.woo = x.was.woo
        BY <1>0, <2>1, <2>2, <3>2, FailedRowType
      <4> QED
        BY <1>0, <2>1, <2>3, <4>1, ChangedFollows DEF At
    <3> QED
      BY <3>1, <3>2
  <2> QED
    BY <1>0, <2>1, <2>2, <2>3, WriteKeeps
<1>8. CASE Records(x, y)
  <2>1. y.pc = "next" /\ y.row = None /\ y.todo = x.todo /\ y.put = x.put
    BY <1>8 DEF Records, Closes
  <2>2. \A r, l : Follows(y, r, l) <=> Follows(x, r, l)
    BY <2>1 DEF Follows, IsAhead
  <2> QED
    BY <1>0, <2>1, <2>2 DEF Kept, Handles, Snap
<1> QED
  BY <1>0, <1>1, <1>2, <1>3, <1>4, <1>5, <1>6, <1>7, <1>8 DEF Moves

\* What is gone from the shop stays gone.
LEMMA GoneKept ==
  ASSUME Inv, [Next]_vars, NEW w \in WooIds, woo[w] = "gone"
  PROVE  woo'[w] = "gone"
<1>1. ASSUME NEW s \in Sessions, CallOf(s) PROVE woo'[w] = "gone"
  <2>1. CASE UpdateMapped(s)
    BY <2>1 DEF UpdateMapped, Live, Inv, TypeOK
  <2>2. CASE UpdateFound(s)
    BY <2>2 DEF UpdateFound, Live, Inv, TypeOK
  <2>3. CASE \E v \in WooIds : CreateProduct(s, v) \/ CreateLost(s, v)
    BY <2>3 DEF CreateProduct, CreateLost, IsNewId, Inv, TypeOK
  <2>4. CASE UNCHANGED woo
    BY <2>4
  <2> QED
    BY <1>1, <2>1, <2>2, <2>3, <2>4
    DEF CallOf, UpdateNotFound, UpdateRefused, LookupFinds, LookupFindsNone, UpdateFoundRefused,
        CreateRefused, CallFails
<1>2. ASSUME NEW s \in Sessions, StartFull(s) \/ StartOne(s) \/ Flushes(s) \/ Commit(s)
             \/ RecordFailure(s) \/ Crash(s)
             \/ \E o \in Products : FindMapping(s, o) \/ FindNoMapping(s, o) \/ BuildFails(s, o)
      PROVE  UNCHANGED woo
  BY <1>2 DEF StartFull, StartOne, Start, Flushes, DeleteMapping, SaveMapping, SaveMappingRaises,
              InsertMapping, InsertMappingRaises, MarkFailed, MarkFailedRaises, Lose, Commit,
              RecordFailure, Crash, FindMapping, FindNoMapping, BuildFails
<1>3. CASE Users
  BY <1>3 DEF Users, Rename, RemoveFromShop, Inv, TypeOK
<1>4. CASE UNCHANGED vars
  BY <1>4 DEF vars
<1> QED
  BY <1>1, <1>2, <1>3, <1>4 DEF Next, Calls, Failures, CallOf

LEMMA GoneKeeps ==
  ASSUME Inv, [Next]_vars, NEW x \in Session, Shape(x), NEW t \in [RowIds -> Row \cup {None}]
  PROVE  /\ Kept(x, t, woo) => Kept(x, t, woo')
         /\ Handles(x, t, woo) => Handles(x, t, woo')
<1>1. \A i \in RowIds : t[i] # None => t[i].woo \in WooIds
  BY RowFields
<1>2. x.row # None => x.was.woo \in WooIds
  BY RowFields DEF Shape
<1> QED
  BY <1>1, <1>2, GoneKept DEF Kept, Handles

LEMMA StepKeeps ==
  ASSUME Inv, KeptInv, [Next]_vars, NEW s \in Sessions, Step(s)
  PROVE  KeptInv'
<1>1. PICK y \in Session : Becomes(s, y) /\ Shape(y) /\ Moves(s, sess[s], y)
  BY DEF Step
<1>2. /\ rows' = rows /\ odoo' = odoo
      /\ sess'[s] = y /\ \A u \in Sessions \ {s} : sess'[u] = sess[u]
  BY <1>1 DEF Step, Becomes, Inv, TypeOK
<1>3. Kept(y, rows, woo) /\ Handles(y, rows, woo) /\ Snap(y)
  BY <1>1, MoveKeeps DEF KeptInv
<1>4. rows \in [RowIds -> Row \cup {None}]
  BY DEF Inv, TypeOK
<1>5. Kept(y, rows, woo') /\ Handles(y, rows, woo')
  BY <1>1, <1>3, <1>4, GoneKeeps
<1>6. ASSUME NEW u \in Sessions \ {s}
      PROVE  Kept(sess[u], rows, woo') /\ Handles(sess[u], rows, woo') /\ Snap(sess[u])
  <2>1. sess[u] \in Session /\ Shape(sess[u])
    BY DEF Inv, TypeOK
  <2> QED
    BY <1>4, <2>1, GoneKeeps DEF KeptInv
<1>7. \A u \in Sessions :
         Kept(sess'[u], rows', woo') /\ Handles(sess'[u], rows', woo') /\ Snap(sess'[u])
  BY <1>2, <1>3, <1>5, <1>6
<1> QED
  BY <1>2, <1>7 DEF KeptInv

\* A row that another session commits is of the same product of the shop.
LEMMA CommitKeeps ==
  ASSUME Inv, ApartInv, KeptInv, NEW s \in Sessions, Commit(s)
  PROVE  KeptInv'
<1>1. /\ \A i \in RowIds : rows'[i] = View(s)[i]
      /\ sess'[s] = Idle /\ (\A u \in Sessions \ {s} : sess'[u] = sess[u])
      /\ woo' = woo /\ odoo' = odoo
  BY CommitTypes DEF Inv, TypeOK, Commit
<1>2. Kept(Idle, rows', woo) /\ Handles(Idle, rows', woo) /\ Snap(Idle)
  BY IdleFresh DEF Kept, Handles, Snap, Nothing
<1>3. ASSUME NEW u \in Sessions \ {s}
      PROVE  Kept(sess[u], rows', woo) /\ Handles(sess[u], rows', woo) /\ Snap(sess[u])
  <2>1. PICK x \in Session : x = sess[u]
    BY DEF Inv, TypeOK
  <2>2. Kept(x, rows, woo) /\ Handles(x, rows, woo) /\ Snap(x)
    BY <2>1 DEF KeptInv
  <2>3. \A i \in RowIds : x.put[i] # Same => rows'[i] = rows[i]
    BY <1>1, <2>1, ViewType DEF ApartInv
  <2>4. Kept(x, rows', woo)
    BY <2>2, <2>3 DEF Kept
  <2>5. ASSUME x.row # None, rows'[x.row] # None PROVE rows'[x.row].woo = x.was.woo
    <3>1. PICK i \in RowIds : i = x.row
      BY <2>5, Fields
    <3>a. rows'[i] = View(s)[i] /\ rows'[i] # None
      BY <1>1, <2>5, <3>1
    <3>b. View(s)[i] \in Row
      BY <3>a, ViewType
    <3>2. PICK v \in Row : v = View(s)[i] /\ v = rows'[i]
      BY <3>a, <3>b
    <3>3. rows[i] # None
      <4>1. CASE sess[s].put[i] = Same
        BY <3>b, <4>1, ViewType
      <4>2. CASE sess[s].put[i] # Same
        <5>1. sess[s].put[i] \in Row
          BY <3>b, <4>2, ViewType
        <5> QED
          BY <2>1, <3>1, <5>1 DEF ApartInv
      <4> QED
        BY <4>1, <4>2
    <3>4. v.woo = rows[i].woo
      <4>1. v = rows[i] \/ Follows(sess[s], v, rows[i])
        BY <3>1, <3>2, <3>3, SeenFollows DEF KeptInv
      <4> QED
        BY <4>1 DEF Follows
    <3> QED
      BY <2>2, <3>1, <3>2, <3>3, <3>4 DEF Handles
  <2>6. Handles(x, rows', woo)
    <3>1. x.row # None /\ x.put[x.row] \in Row => rows'[x.row] = rows[x.row]
      BY <2>1, <2>3, Fields
    <3> QED
      BY <2>2, <2>5, <3>1 DEF Handles
  <2> QED
    BY <2>1, <2>2, <2>4, <2>6
<1>4. \A u \in Sessions :
         Kept(sess'[u], rows', woo') /\ Handles(sess'[u], rows', woo') /\ Snap(sess'[u])
  BY <1>1, <1>2, <1>3
<1> QED
  BY <1>1, <1>4 DEF KeptInv

LEMMA NextKeeps ==
  ASSUME Inv, ApartInv, KeptInv, [Next]_vars
  PROVE  ApartInv' /\ KeptInv'
<1>1. ASSUME NEW s \in Sessions, Step(s) PROVE ApartInv' /\ KeptInv'
  BY <1>1, StepApart, StepKeeps
<1>2. ASSUME NEW s \in Sessions, Commit(s) PROVE ApartInv' /\ KeptInv'
  BY <1>2, CommitApart, CommitKeeps
<1>3. ASSUME UNCHANGED <<rows, sess>>,
             UNCHANGED odoo \/ \E o \in Products, k \in SKUs \cup {None} : Rename(o, k)
      PROVE  ApartInv' /\ KeptInv'
  <2>1. ApartInv'
    BY <1>3 DEF ApartInv
  <2>2. ASSUME NEW u \in Sessions
        PROVE  Kept(sess[u], rows, woo') /\ Handles(sess[u], rows, woo') /\ Snap(sess[u])
    <3>1. sess[u] \in Session /\ Shape(sess[u]) /\ rows \in [RowIds -> Row \cup {None}]
      BY DEF Inv, TypeOK
    <3> QED
      BY <3>1, GoneKeeps DEF KeptInv
  <2>3. \A o, p \in Products : odoo'[o] # None /\ odoo'[o] = odoo'[p] => o = p
    BY <1>3 DEF Rename, Free, KeptInv, Inv, TypeOK
  <2> QED
    BY <1>3, <2>1, <2>2, <2>3 DEF KeptInv
<1>4. CASE Users
  BY <1>3, <1>4 DEF Users, Rename, RemoveFromShop
<1>5. CASE UNCHANGED vars
  BY <1>3, <1>5 DEF vars
<1> QED
  BY <1>1, <1>2, <1>4, <1>5, SessionStep DEF Next

\* No step makes the service abandon a product that is on sale: the mapping of a
\* product and SKU moves to another product of the shop only when the one it named
\* has been deleted there, whatever is refused, lost, killed or overlaps.
THEOREM NeverAbandoned == Spec => RemappedOnlyIfGone
<1> DEFINE I == Inv /\ ApartInv /\ KeptInv
           Moved == \A i, j \in RowIds :
                       /\ rows[i] # None /\ rows'[j] # None
                       /\ rows[i].odoo = rows'[j].odoo /\ rows[i].sku = rows'[j].sku
                       /\ rows[i].woo # rows'[j].woo
                       => woo[rows[i].woo] = "gone"
<1>1. Init => I
  BY InitInv, KeptInit
<1>2. I /\ [Next]_vars => I'
  BY NextInv, NextKeeps
<1>3. I /\ [Next]_vars => [Moved]_vars
  <2> SUFFICES ASSUME I, [Next]_vars, NEW i \in RowIds, NEW j \in RowIds,
                      rows[i] # None, rows'[j] # None,
                      rows[i].odoo = rows'[j].odoo, rows[i].sku = rows'[j].sku,
                      rows[i].woo # rows'[j].woo
               PROVE  woo[rows[i].woo] = "gone"
    OBVIOUS
  <2>1. ASSUME UNCHANGED rows PROVE FALSE
    BY <2>1 DEF ApartInv, Clash
  <2>2. ASSUME NEW s \in Sessions, Commit(s) PROVE woo[rows[i].woo] = "gone"
    <3>0. rows'[j] = View(s)[j]
      BY <2>2, CommitTypes
    <3>1. PICK v \in Row : v = rows'[j] /\ v = View(s)[j]
      BY <3>0, ViewType
    <3>2. CASE View(s)[i] = None
      <4>1. sess[s].put[i] = None
        BY <3>2, ViewType
      <4> QED
        BY <4>1 DEF KeptInv, Kept
    <3>3. CASE View(s)[i] # None
      <4>1. PICK u \in Row : u = View(s)[i]
        BY <3>3, ViewType
      <4>2. u = rows[i] \/ Follows(sess[s], u, rows[i])
        BY <4>1, SeenFollows DEF KeptInv
      <4>3. u.woo = rows[i].woo /\ (u.odoo = rows[i].odoo \/ u.sku = rows[i].sku)
        BY <4>2 DEF Follows
      <4>4. i # j
        BY <3>1, <4>1, <4>3
      <4>5. Clash(u, v)
        BY <3>1, <4>3 DEF Clash
      <4>6. ~Clash(u, v)
        BY <3>1, <4>1, <4>4, ViewType DEF ApartInv, Apart, Seen
      <4> QED
        BY <4>5, <4>6
    <3> QED
      BY <3>2, <3>3
  <2>3. CASE Users \/ UNCHANGED vars
    BY <2>1, <2>3 DEF Users, Rename, RemoveFromShop, vars
  <2>4. CASE \E s \in Sessions : Step(s)
    BY <2>1, <2>4 DEF Step
  <2> QED
    BY <2>2, <2>3, <2>4, SessionStep DEF Next
<1> QED
  BY <1>1, <1>2, <1>3, PTL DEF Spec, RemappedOnlyIfGone

-----------------------------------------------------------------------------
(* One session works, and no SKU is ever of two products: K[o] has those   *)
(* of product o.  Then each row, the product of the shop that it names and *)
(* the products that the session looks for and holds belong together       *)
(* (Home), and no flush breaks a constraint.                               *)

Quiet(s) == \A t \in Sessions \ {s} : At(t, "idle")
Disjoint(K) ==
    /\ K \in [Products -> SUBSET (SKUs \cup {None})]
    /\ \A o, p \in Products : o # p => K[o] \cap K[p] \subseteq {None}

\* The session has product x.found of the shop, for a product that it handles.
Holds(x) == x.pc \in {"update_found", "save"}
\* It handles a product that has no mapping.
Seeks(x) == x.row = None /\ x.pc \in Calling \cup {"save"}

HomeRow(K, r, h) == r.sku \in K[r.odoo] /\ h[r.woo] \in (K[r.odoo] \ {None}) \cup {"gone"}
Home(K, x, t, h) ==
    /\ \A i \in RowIds : /\ t[i] # None => HomeRow(K, t[i], h)
                         /\ Seen(x.put, t, i) # None => HomeRow(K, Seen(x.put, t, i), h)
    /\ \A o \in Products : x.todo[o] \in K[o] \cup {None}
    /\ x.pc = "idle" => \A i \in RowIds : x.put[i] = Same
    /\ x.pc \notin {"idle", "next"} => x.sku \in K[x.product]
    /\ x.row # None => x.was.odoo = x.product /\ Seen(x.put, t, x.row) = x.was
    /\ Seeks(x) => \A i \in RowIds : Seen(x.put, t, i) # None =>
          /\ Seen(x.put, t, i).odoo # x.product
          /\ Holds(x) => Seen(x.put, t, i).woo # x.found
Holding(x, h) == Holds(x) => h[x.found] \in {x.sku, "gone"}
\* WooCommerce keeps its SKUs distinct.
OneEach(h) == \A v, w \in WooIds : h[v] \in SKUs /\ h[v] = h[w] => v = w

HomeInv(s, K) ==
    /\ \A o \in Products : odoo[o] \in K[o] \cup {None}
    /\ OneEach(woo) /\ Home(K, sess[s], rows, woo) /\ Holding(sess[s], woo)

LEMMA ViewSeen ==
  ASSUME Inv, NEW s \in Sessions, NEW i \in RowIds
  PROVE  /\ View(s)[i] = Seen(sess[s].put, rows, i)
         /\ Seen(sess[s].put, rows, i) \in Row \cup {None}
BY ViewType DEF Seen

\* A SKU has one owner.
LEMMA OneOwner ==
  ASSUME NEW K, Disjoint(K), NEW o \in Products, NEW p \in Products, NEW k \in SKUs,
         k \in K[o], k \in K[p]
  PROVE  o = p
BY DEF Disjoint

\* What is written over the mapping of a session.
LEMMA ChangedHome ==
  ASSUME Inv, NEW K, NEW s \in Sessions, HomeInv(s, K), sess[s].pc \notin {"idle", "next"},
         NEW i \in RowIds, i = sess[s].row,
         NEW r \in Row, r.odoo = sess[s].product, r.sku = sess[s].sku, r.woo = sess[s].was.woo
  PROVE  \E e \in Row : /\ e = Changed(s, i, r) /\ HomeRow(K, e, woo)
                        /\ View(s)[i] \in Row /\ View(s)[i] = sess[s].was
                        /\ e.odoo = View(s)[i].odoo /\ e.woo = View(s)[i].woo
                        /\ e.sku = sess[s].sku
<1>1. PICK was \in Row : was = sess[s].was
  BY DEF Inv, Shape
<1>2. View(s)[i] = was /\ was.odoo = sess[s].product
  BY <1>1, ViewSeen DEF HomeInv, Home
<1>3. PICK e \in Row : e = Changed(s, i, r)
  BY <1>1, ChangedType
<1>4. e.odoo = r.odoo /\ e.woo = r.woo /\ e.sku = r.sku
  BY <1>1, <1>2, <1>3, ChangedType
<1>5. HomeRow(K, was, woo)
  BY <1>2, ViewSeen DEF HomeInv, Home
<1>6. HomeRow(K, e, woo)
  BY <1>1, <1>2, <1>4, <1>5 DEF HomeRow, HomeInv, Home
<1> QED
  BY <1>1, <1>2, <1>3, <1>4, <1>6

LEMMA WriteHome ==
  ASSUME Inv, NEW K, NEW s \in Sessions, HomeInv(s, K), NEW y \in Session, NEW i \in RowIds,
         NEW r \in Row, NEW J, Writes(sess[s], y, i, r, J), HomeRow(K, r, woo)
  PROVE  Home(K, y, rows, woo)
<1>1. PICK put \in [RowIds -> Row \cup {None, Same}] : put = sess[s].put
  BY Fields DEF Inv, TypeOK
<1>2. y.pc = "next" /\ y.row = None /\ y.todo = sess[s].todo /\ y.put = [put EXCEPT ![i] = r]
  BY <1>1 DEF Writes, Closes
<1>3. \A j \in RowIds : Seen(y.put, rows, j) = IF j = i THEN r ELSE Seen(put, rows, j)
  BY <1>2 DEF Seen
<1> QED
  BY <1>1, <1>2, <1>3 DEF HomeInv, Home, Seeks, Calling

\* The product a session turns to, with its mapping or with none.
LEMMA LoadHome ==
  ASSUME Inv, NEW K, Disjoint(K), NEW s \in Sessions, HomeInv(s, K), NEW y \in Session,
         Shape(y), Loads(s, sess[s], y)
  PROVE  Home(K, y, rows, woo)
<1>1. PICK x \in Session : x = sess[s]
  BY DEF Inv, TypeOK
<1>2. PICK o \in Products, i \in RowIds \cup {None} :
         /\ Takes(x, y, o, i) /\ x.todo[o] # None /\ y.pc \in {"update", "lookup", "failed", "next"}
         /\ (y.pc = "lookup" => Mapping(s, o, x.todo[o]) = {})
         /\ i # None => i \in Mapping(s, o, x.todo[o]) /\ y.was = View(s)[i]
  BY <1>1 DEF Loads
<1>3. PICK todo \in [Products -> SKUs \cup {None}] : todo = x.todo
  BY Fields
<1>4. PICK k \in SKUs : k = todo[o] /\ k \in K[o]
  BY <1>1, <1>2, <1>3 DEF HomeInv, Home
<1>5. /\ y.row = i /\ y.put = x.put /\ y.todo = [todo EXCEPT ![o] = None]
      /\ (y.pc = "next" /\ i = None) \/ (y.product = o /\ y.sku = k)
  BY <1>2, <1>3, <1>4 DEF Takes
<1>6. \A p \in Products : y.todo[p] \in K[p] \cup {None}
  BY <1>1, <1>3, <1>5 DEF HomeInv, Home
<1>7. ASSUME i # None PROVE y.was.odoo = o /\ Seen(y.put, rows, i) = y.was
  <2>1. i \in RowIds /\ View(s)[i] \in Row /\ (View(s)[i].odoo = o \/ View(s)[i].sku = k)
    BY <1>2, <1>3, <1>4, <1>7, MappingType
  <2>2. PICK v \in Row : v = View(s)[i] /\ y.was = v
    BY <1>2, <1>7, <2>1
  <2>3. v.sku \in K[v.odoo]
    BY <2>1, <2>2, ViewSeen DEF HomeInv, Home, HomeRow
  <2>4. v.odoo \in Products /\ v.sku \in SKUs
    BY RowFields
  <2>5. v.odoo = o
    BY <1>4, <2>1, <2>2, <2>3, <2>4, OneOwner
  <2>6. View(s)[i] = Seen(x.put, rows, i)
    BY <1>1, <2>1, ViewSeen
  <2> QED
    BY <1>5, <2>2, <2>5, <2>6
<1>8. ASSUME Seeks(y), NEW j \in RowIds, Seen(y.put, rows, j) # None
      PROVE  Seen(y.put, rows, j).odoo # o /\ ~Holds(y)
  <2>1. y.pc = "lookup"
    BY <1>2, <1>8 DEF Seeks, Calling, Shape
  <2>2. View(s)[j] = Seen(y.put, rows, j)
    BY <1>1, <1>5, ViewSeen
  <2>3. j \notin ByOdoo(s, o)
    BY <1>2, <2>1 DEF Mapping
  <2> QED
    BY <1>8, <2>1, <2>2, <2>3 DEF ByOdoo, Holds
<1>9. HomeInv(s, K) /\ y.pc # "idle" /\ (y.pc = "next" => ~Seeks(y))
  BY <1>2 DEF Seeks, Calling
<1>10. CASE y.pc = "next" /\ i = None
  BY <1>1, <1>2, <1>5, <1>6, <1>9, <1>10 DEF HomeInv, Home
<1>11. CASE y.product = o /\ y.sku = k
  BY <1>1, <1>2, <1>4, <1>5, <1>6, <1>7, <1>8, <1>9, <1>11 DEF HomeInv, Home
<1> QED
  BY <1>5, <1>10, <1>11

LEMMA MoveHome ==
  ASSUME Inv, ApartInv, KeptInv, NEW K, Disjoint(K), NEW s \in Sessions, HomeInv(s, K),
         NEW y \in Session, Shape(y), Moves(s, sess[s], y)
  PROVE  Home(K, y, rows, woo)
<1>0. PICK x \in Session : x = sess[s] /\ Home(K, x, rows, woo) /\ Holding(x, woo)
  BY DEF Inv, TypeOK, HomeInv
<1>a. PICK put \in [RowIds -> Row \cup {None, Same}] : put = x.put
  BY Fields
<1>1. CASE Begins(s, y)
  <2>1. /\ y.pc \in {"idle", "next"} /\ y.row = None
        /\ \A o \in Products : y.todo[o] \in {odoo[o], None}
        /\ \A i \in RowIds : y.put[i] = Same
    BY <1>1 DEF Begins
  <2>2. \A i \in RowIds : Seen(y.put, rows, i) = rows[i]
    BY <2>1 DEF Seen
  <2> QED
    BY <1>0, <2>1, <2>2 DEF HomeInv, Home, Seeks, Calling
<1>2. CASE Works(x, y)
  <2>1. /\ y.todo = x.todo /\ y.product = x.product /\ y.sku = x.sku
        /\ y.row = x.row /\ y.was = x.was /\ y.put = x.put
        /\ x.pc \in Calling /\ y.pc \notin {"idle", "next"}
    BY <1>2 DEF Works, Continues
  <2>2. ASSUME Seeks(y), NEW i \in RowIds, NEW v \in Row, v = Seen(x.put, rows, i)
        PROVE  /\ v.odoo # x.product
               /\ Holds(y) => v.woo # y.found
    <3>1. Seeks(x) /\ x.row = None /\ v # None
      BY <2>1, <2>2 DEF Seeks
    <3>2. v.odoo # x.product /\ (Holds(x) => v.woo # x.found)
      BY <1>0, <2>2, <3>1 DEF Home
    <3>3. ASSUME Holds(y), v.woo = y.found PROVE FALSE
      <4>1. \/ Holds(x) /\ y.found = x.found
            \/ woo[y.found] \in {x.sku, "absent"}
        BY <1>2, <3>1, <3>3 DEF Works, Holds
      <4>2. HomeRow(K, v, woo)
        BY <1>0, <2>2, <3>1 DEF Home
      <4>3. v.odoo \in Products /\ x.product \in Products /\ x.sku \in SKUs
        BY <1>0, <2>1, RowFields DEF Calling, Inv, Shape
      <4>4. woo[v.woo] \in (K[v.odoo] \ {None}) \cup {"gone"}
        BY <4>2 DEF HomeRow
      <4>5. "absent" \notin (K[v.odoo] \ {None}) \cup {"gone"} /\ x.sku # "gone"
        BY <4>3 DEF Disjoint
      <4>6. x.sku \in K[x.product]
        BY <1>0, <2>1 DEF Home, Calling
      <4>7. woo[y.found] = x.sku
        BY <3>2, <3>3, <4>1, <4>4, <4>5
      <4> QED
        BY <3>2, <3>3, <4>3, <4>4, <4>5, <4>6, <4>7, OneOwner
    <3> QED
      BY <3>2, <3>3
  <2>3. \A i \in RowIds : Seen(x.put, rows, i) \in Row \cup {None}
    BY <1>0, ViewSeen
  <2>4. ASSUME Seeks(y), NEW i \in RowIds, Seen(y.put, rows, i) # None
        PROVE  /\ Seen(y.put, rows, i).odoo # y.product
               /\ Holds(y) => Seen(y.put, rows, i).woo # y.found
    BY <2>1, <2>2, <2>3, <2>4
  <2>5. x.sku \in K[x.product]
    BY <1>0, <2>1 DEF Home, Calling
  <2> QED
    BY <1>0, <2>1, <2>4, <2>5 DEF Home
<1>3. CASE Loads(s, x, y)
  BY <1>0, <1>3, LoadHome
<1>4. CASE Clears(s, x, y)
  <2>1. PICK i \in RowIds, q \in {Same, None} :
           /\ i = x.row /\ y.put = [put EXCEPT ![i] = q] /\ (q = Same => View(s)[i] = None)
           /\ x.pc = "delete" /\ y.pc = "lookup" /\ y.row = None /\ y.todo = x.todo
           /\ y.product = x.product /\ y.sku = x.sku
    BY <1>a, <1>4 DEF Clears
  <2>2. PICK v \in Row : v = Seen(put, rows, i) /\ v.odoo = x.product
    BY <1>0, <1>a, <2>1 DEF Home, Inv, Shape
  <2>3. q = None
    BY <1>0, <1>a, <2>1, <2>2, ViewSeen
  <2>4. \A j \in RowIds : Seen(y.put, rows, j) = IF j = i THEN None ELSE Seen(put, rows, j)
    BY <2>1, <2>3 DEF Seen
  <2>5. ASSUME NEW j \in RowIds, j # i, Seen(put, rows, j) # None
        PROVE  Seen(put, rows, j).odoo # x.product
    <3>1. PICK q2 \in Row : q2 = Seen(put, rows, j)
      BY <1>0, <1>a, <2>5, ViewSeen
    <3>2. ~Clash(q2, v)
      BY <1>0, <1>a, <2>2, <2>5, <3>1 DEF ApartInv, Apart
    <3> QED
      BY <2>2, <3>1, <3>2 DEF Clash
  <2> QED
    BY <1>0, <1>a, <2>1, <2>4, <2>5 DEF Home, Holds
<1>5. CASE Saves(s, x, y)
  <2>1. PICK i \in RowIds : i = x.row /\ At(s, "save")
                            /\ Writes(x, y, i, Changed(s, i, Target(s)), {})
    BY <1>0, <1>5 DEF Saves, At
  <2>2. PICK r \in Row : r = Target(s) /\ r.odoo = x.product /\ r.sku = x.sku /\ r.woo = x.was.woo
    BY <1>0, <2>1, TargetType DEF At, KeptInv, Handles
  <2>3. PICK e \in Row : e = Changed(s, i, r) /\ HomeRow(K, e, woo)
    BY <1>0, <2>1, <2>2, ChangedHome DEF At
  <2> QED
    BY <1>0, <2>1, <2>2, <2>3, WriteHome
<1>6. CASE Inserts(s, x, y)
  <2>1. PICK i \in RowIds : At(s, "save") /\ Writes(x, y, i, Target(s), {})
    BY <1>0, <1>6 DEF Inserts, At
  <2>2. PICK r \in Row : r = Target(s) /\ r.odoo = x.product /\ r.sku = x.sku /\ r.woo = x.found
    BY <1>0, <2>1, TargetType
  <2>3. x.sku \in K[x.product] /\ x.sku \in SKUs /\ woo[x.found] \in {x.sku, "gone"}
    BY <1>0, <2>1 DEF At, Home, Holding, Holds, Inv, Shape
  <2>4. HomeRow(K, r, woo)
    BY <2>2, <2>3 DEF HomeRow
  <2> QED
    BY <1>0, <2>1, <2>2, <2>4, WriteHome
<1>7. CASE Marks(s, x, y)
  <2>1. PICK i \in Failing(s) : /\ i \in RowIds /\ At(s, "failed") /\ View(s)[i] # None
                                /\ Writes(x, y, i, FailedRow(s, i), {x.sku})
    BY <1>0, <1>7 DEF Marks, At
  <2>2. PICK e \in Row : e = FailedRow(s, i)
    BY <2>1, FailedRowType
  <2>3. HomeRow(K, e, woo)
    <3>1. CASE x.row = None
      <4>a. PICK v \in Row : v = View(s)[i] /\ v = Seen(x.put, rows, i)
        BY <1>0, <2>1, ViewSeen
      <4>1. v = View(s)[i] /\ HomeRow(K, v, woo)
        BY <1>0, <2>1, <4>a DEF Home
      <4>2. e.odoo = v.odoo /\ e.sku = v.sku /\ e.woo = v.woo
        BY <1>0, <2>1, <2>2, <3>1, <4>1, FailedRowType
      <4> QED
        BY <4>1, <4>2 DEF HomeRow
    <3>2. CASE x.row # None
      <4>1. PICK r \in Row : /\ e = Changed(s, i, r) /\ i = x.row
                             /\ r.odoo = x.product /\ r.sku = x.sku /\ r.woo = x.was.woo
        BY <1>0, <2>1, <2>2, <3>2, FailedRowType
      <4> QED
        BY <1>0, <2>1, <4>1, ChangedHome DEF At
    <3> QED
      BY <3>1, <3>2
  <2> QED
    BY <1>0, <2>1, <2>2, <2>3, WriteHome
<1>8. CASE Records(x, y)
  <2>1. y.pc = "next" /\ y.row = None /\ y.todo = x.todo /\ y.put = x.put
    BY <1>8 DEF Records, Closes
  <2> QED
    BY <1>0, <2>1 DEF Home, Seeks, Calling
<1> QED
  BY <1>0, <1>1, <1>2, <1>3, <1>4, <1>5, <1>6, <1>7, <1>8 DEF Moves

\* No flush of the session breaks a constraint.
LEMMA NeverRaises ==
  ASSUME Inv, ApartInv, KeptInv, NEW K, Disjoint(K), NEW s \in Sessions, HomeInv(s, K)
  PROVE  ~Raised(s)
<1>0. PICK x \in Session : x = sess[s] /\ Home(K, x, rows, woo) /\ Holding(x, woo)
  BY DEF Inv, TypeOK, HomeInv
<1>a. \A i \in RowIds : View(s)[i] = Seen(x.put, rows, i)
  BY <1>0, ViewSeen
<1>1. ASSUME NEW i \in RowIds, View(s)[i] # None PROVE HomeRow(K, View(s)[i], woo)
  BY <1>0, <1>a, <1>1 DEF Home
<1>2. \A i, j \in RowIds : i # j => ~Clash(View(s)[i], View(s)[j])
  BY ViewType DEF ApartInv, Apart, Seen
\* A row that is given another SKU of its product.
<1>3. ASSUME NEW i \in RowIds, NEW v \in Row, v = View(s)[i], NEW e \in Row,
             e.odoo = v.odoo, e.woo = v.woo, e.sku \in K[v.odoo]
      PROVE  ~Raises(s, i, e)
  <2> SUFFICES ASSUME NEW j \in RowIds \ {i}, Clash(e, View(s)[j]) PROVE FALSE
    BY <1>3 DEF Raises, Violates
  <2>1. PICK q \in Row : q = View(s)[j]
    BY ViewType DEF Clash
  <2>2. ~Clash(v, q)
    BY <1>2, <1>3, <2>1
  <2>3. e.sku = q.sku /\ v.odoo # q.odoo
    BY <1>3, <2>1, <2>2 DEF Clash
  <2>4. q.sku \in K[q.odoo] /\ q.sku \in SKUs /\ q.odoo \in Products /\ v.odoo \in Products
    BY <1>1, <2>1, RowFields DEF HomeRow
  <2> QED
    BY <1>3, <2>3, <2>4, OneOwner
<1>4. ASSUME SaveMappingRaises(s) PROVE FALSE
  <2>1. PICK i \in RowIds : i = x.row /\ At(s, "save") /\ Raises(s, i, Changed(s, i, Target(s)))
    BY <1>0, <1>4, Fields DEF SaveMappingRaises
  <2>2. PICK r \in Row : r = Target(s) /\ r.odoo = x.product /\ r.sku = x.sku /\ r.woo = x.was.woo
    BY <1>0, <2>1, TargetType DEF At, KeptInv, Handles
  <2>3. PICK e \in Row : /\ e = Changed(s, i, r)
                         /\ View(s)[i] \in Row /\ HomeRow(K, e, woo)
                         /\ e.odoo = View(s)[i].odoo /\ e.woo = View(s)[i].woo
    BY <1>0, <2>1, <2>2, ChangedHome DEF At
  <2>4. ~Raises(s, i, e)
    BY <1>3, <2>3 DEF HomeRow
  <2> QED
    BY <2>1, <2>2, <2>3, <2>4
<1>5. ASSUME InsertMappingRaises(s) PROVE FALSE
  <2>1. PICK r \in Row : r = Target(s) /\ r.odoo = x.product /\ r.sku = x.sku /\ r.woo = x.found
    BY <1>0, <1>5, TargetType DEF InsertMappingRaises
  <2>2. x.pc = "save" /\ x.row = None /\ \E j \in RowIds : Clash(r, View(s)[j])
    BY <1>0, <1>5, <2>1 DEF InsertMappingRaises, Violates, At
  <2>3. PICK j \in RowIds, q \in Row : q = View(s)[j] /\ Clash(r, q)
    BY <2>2, ViewType DEF Clash
  <2>4. q.odoo # x.product /\ q.woo # x.found
    <3>1. q = Seen(x.put, rows, j) /\ q # None
      BY <1>0, <2>3, ViewSeen
    <3> QED
      BY <1>0, <2>2, <3>1 DEF Home, Seeks, Holds
  <2>5. q.sku \in K[q.odoo] /\ q.sku = x.sku
    BY <1>1, <2>1, <2>3, <2>4 DEF HomeRow, Clash
  <2>6. x.sku \in K[x.product] /\ q.odoo \in Products /\ x.product \in Products /\ x.sku \in SKUs
    BY <1>0, <2>2, RowFields DEF Home, Inv, Shape
  <2> QED
    BY <2>4, <2>5, <2>6, OneOwner
<1>6. ASSUME NEW i \in RowIds, MarkFailedRaises(s, i) PROVE FALSE
  <2>1. i \in Failing(s) /\ At(s, "failed") /\ Raises(s, i, FailedRow(s, i))
    BY <1>6 DEF MarkFailedRaises
  <2>2. PICK e \in Row : e = FailedRow(s, i)
    BY <2>1, FailedRowType
  <2>3. CASE x.row = None
    <3>1. PICK v \in Row : v = View(s)[i] /\ HomeRow(K, v, woo)
      BY <1>0, <1>1, <2>1, <2>3, FailedRowType
    <3>2. e.odoo = v.odoo /\ e.sku = v.sku /\ e.woo = v.woo
      BY <1>0, <2>1, <2>2, <2>3, <3>1, FailedRowType
    <3> QED
      BY <1>3, <2>1, <2>2, <3>1, <3>2 DEF HomeRow
  <2>4. CASE x.row # None
    <3>1. PICK r \in Row : /\ e = Changed(s, i, r) /\ i = x.row
                           /\ r.odoo = x.product /\ r.sku = x.sku /\ r.woo = x.was.woo
      BY <1>0, <2>1, <2>2, <2>4, FailedRowType
    <3>2. /\ View(s)[i] \in Row /\ HomeRow(K, e, woo)
          /\ e.odoo = View(s)[i].odoo /\ e.woo = View(s)[i].woo
      BY <1>0, <2>1, <3>1, ChangedHome DEF At
    <3> QED
      BY <1>3, <2>1, <2>2, <3>2 DEF HomeRow
  <2> QED
    BY <2>3, <2>4
<1> QED
  BY <1>4, <1>5, <1>6 DEF Raised

-----------------------------------------------------------------------------
(* The shop                                                                *)

\* Products of the shop keep the SKUs of their owners.
Owned(K, h1, h2) ==
    \A w \in WooIds, o \in Products :
        h1[w] \in (K[o] \ {None}) \cup {"gone"} => h2[w] \in (K[o] \ {None}) \cup {"gone"}

LEMMA SkuSet ==
  ASSUME Inv, NEW K, Disjoint(K), OneEach(woo), NEW w \in WooIds, NEW k \in SKUs,
         NEW o \in Products, k \in K[o], Carriers(k) \subseteq {w},
         woo[w] = "absent" \/ (woo[w] \in K[o] /\ Live(w)),
         woo' = [woo EXCEPT ![w] = k]
  PROVE  OneEach(woo') /\ Owned(K, woo, woo') /\ woo'[w] = k
<1>1. woo'[w] = k /\ \A v \in WooIds \ {w} : woo'[v] = woo[v]
  BY DEF Inv, TypeOK
<1>2. \A v \in WooIds \ {w} : woo[v] # k
  BY DEF Carriers
<1>3. OneEach(woo')
  BY <1>1, <1>2 DEF OneEach
<1>4. ASSUME NEW p \in Products, woo[w] \in (K[p] \ {None}) \cup {"gone"}
      PROVE  k \in K[p] \ {None}
  <2>1. woo[w] \in SKUs /\ woo[w] \in K[o] /\ woo[w] \in K[p]
    BY <1>4 DEF Live, Disjoint
  <2>2. o = p
    BY <2>1, OneOwner
  <2> QED
    BY <2>2
<1> QED
  BY <1>1, <1>3, <1>4 DEF Owned

LEMMA CallShop ==
  ASSUME Inv, NEW K, Disjoint(K), NEW s \in Sessions, HomeInv(s, K), CallOf(s)
  PROVE  OneEach(woo') /\ Owned(K, woo, woo') /\ Holding(sess'[s], woo')
<1>0. PICK x \in Session : x = sess[s] /\ Home(K, x, rows, woo) /\ Holding(x, woo)
  BY DEF Inv, TypeOK, HomeInv
<1>a. ASSUME sess[s].pc \in Calling
      PROVE  x.product \in Products /\ x.sku \in SKUs /\ x.sku \in K[x.product]
  BY <1>0, <1>a DEF Home, Calling, Inv, Shape
<1>b. OneEach(woo) /\ TypeOK /\ {"save", "update_found", "create", "delete", "failed"} \subseteq PCs
  BY DEF HomeInv, Inv, PCs
<1>1. CASE UpdateMapped(s)
  <2>1. PICK was \in Row : was = x.was /\ HomeRow(K, was, woo) /\ was.odoo = x.product
    <3>1. x.row \in RowIds /\ x.row # None /\ x.was \in Row
      BY <1>0, <1>1, Fields DEF UpdateMapped, At, Inv, Shape
    <3> QED
      BY <1>0, <3>1 DEF Home
  <2>2. PICK w \in WooIds : w = was.woo
    BY RowFields
  <2>3. sess' = [sess EXCEPT ![s].pc = "save", ![s].found = w] /\ At(s, "update")
        /\ woo' = [woo EXCEPT ![w] = x.sku] /\ Live(w) /\ Carriers(x.sku) \subseteq {w}
    BY <1>0, <1>1, <2>1, <2>2 DEF UpdateMapped, Accepts
  <2>4. PICK y \in Session : Becomes(s, y) /\ Continues(x, y) /\ y.pc = "save" /\ y.found = w
    <3>1. Finds(s, "save", w)
      BY <2>3 DEF Finds
    <3> HIDE ProductSyncAssumption
    <3> QED
      BY <1>0, <1>b, <3>1, FoundStep
  <2>5. woo[w] \in K[x.product]
    BY <2>1, <2>2, <2>3 DEF HomeRow, Live
  <2>6. OneEach(woo') /\ Owned(K, woo, woo') /\ woo'[w] = x.sku
    BY <1>a, <1>b, <2>3, <2>5, SkuSet DEF At, Calling
  <2>7. sess'[s] = y
    BY <2>4 DEF Becomes, Inv, TypeOK
  <2> QED
    BY <2>4, <2>6, <2>7 DEF Holding, Continues
<1>2. CASE UpdateFound(s)
  <2>1. Goto(s, "save") /\ At(s, "update_found") /\ x.found \in WooIds
        /\ woo[x.found] \in SKUs /\ woo' = [woo EXCEPT ![x.found] = x.sku]
    BY <1>0, <1>2 DEF UpdateFound, Live, At, Inv, Shape
  <2>2. woo[x.found] = x.sku
    BY <1>0, <2>1 DEF Holding, Holds, At
  <2>3. woo' = woo
    BY <2>1, <2>2 DEF Inv, TypeOK
  <2>4. PICK y \in Session : Becomes(s, y) /\ Continues(x, y) /\ y.found = x.found
    BY <1>0, <2>1, GotoStep DEF Inv, PCs
  <2>5. sess'[s] = y
    BY <2>4 DEF Becomes, Inv, TypeOK
  <2> QED
    BY <1>b, <2>2, <2>3, <2>4, <2>5 DEF Holding, Continues, Owned
<1>3. CASE \E w \in WooIds : LookupFinds(s, w)
  <2>1. PICK w \in WooIds : LookupFinds(s, w)
    BY <1>3
  <2>2. PICK y \in Session : Becomes(s, y) /\ Continues(x, y) /\ y.found = w
    <3>1. Finds(s, "update_found", w)
      BY <2>1 DEF LookupFinds, Finds
    <3> HIDE ProductSyncAssumption
    <3> QED
      BY <1>0, <1>b, <3>1, FoundStep
  <2>3. sess'[s] = y /\ woo' = woo /\ woo[w] = x.sku
    BY <1>0, <2>1, <2>2 DEF LookupFinds, Becomes, Inv, TypeOK
  <2> QED
    BY <1>b, <2>2, <2>3 DEF Holding, Continues, Owned
<1>4. CASE \E w \in WooIds : CreateProduct(s, w) \/ CreateLost(s, w)
  <2>1. PICK w \in WooIds : CreateProduct(s, w) \/ CreateLost(s, w)
    BY <1>4
  <2>2. At(s, "create") /\ woo[w] = "absent" /\ Carriers(x.sku) = {}
        /\ woo' = [woo EXCEPT ![w] = x.sku]
        /\ (Finds(s, "save", w) \/ Goto(s, "failed"))
    BY <1>0, <2>1 DEF CreateProduct, CreateLost, IsNewId, Finds
  <2>3. OneEach(woo') /\ Owned(K, woo, woo') /\ woo'[w] = x.sku
    <3>1. PICK o \in Products, k \in SKUs : o = x.product /\ k = x.sku /\ k \in K[o]
      BY <1>a, <2>2 DEF At, Calling
    <3> QED
      BY <1>b, <2>2, <3>1, SkuSet
  <2>4. PICK y \in Session : /\ Becomes(s, y) /\ Continues(x, y)
                             /\ (y.pc = "save" /\ y.found = w) \/ y.pc = "failed"
    BY <1>0, <2>2, FoundStep, GotoStep DEF Inv, PCs
  <2>5. sess'[s] = y
    BY <2>4 DEF Becomes, Inv, TypeOK
  <2> QED
    BY <2>3, <2>4, <2>5 DEF Holding, Holds, Continues
<1>5. CASE /\ UNCHANGED woo
           /\ Goto(s, "delete") \/ Goto(s, "create") \/ Goto(s, "failed")
  <2>1. PICK y \in Session : Becomes(s, y) /\ y.pc \in {"delete", "create", "failed"}
    BY <1>5, GotoStep DEF Inv, PCs
  <2>2. sess'[s] = y
    BY <2>1 DEF Becomes, Inv, TypeOK
  <2> QED
    BY <1>b, <1>5, <2>1, <2>2 DEF Holding, Holds, Owned
<1> QED
  BY <1>1, <1>2, <1>3, <1>4, <1>5
  DEF CallOf, UpdateNotFound, UpdateRefused, LookupFindsNone, UpdateFoundRefused, CreateRefused,
      CallFails

-----------------------------------------------------------------------------
(* Steps of one session                                                    *)

LEMMA QuietStep ==
  ASSUME Inv, NEW s \in Sessions, Quiet(s), Quiet(s)', [Next]_vars
  PROVE  UNCHANGED vars \/ Users
         \/ StartFull(s) \/ StartOne(s) \/ Calls(s) \/ Flushes(s) \/ Failures(s)
<1> SUFFICES ASSUME NEW t \in Sessions \ {s},
                    StartFull(t) \/ StartOne(t) \/ Calls(t) \/ Flushes(t) \/ Failures(t)
             PROVE  FALSE
  BY DEF Next
<1>1. At(t, "idle") /\ sess[t].pc = "idle"
  BY DEF Quiet, At
<1>2. ASSUME NEW S, Start(t, S) PROVE FALSE
  <2>1. sess'[t].pc = "next"
    BY <1>2 DEF Start, Fresh, Inv, TypeOK
  <2> QED
    BY <2>1 DEF Quiet, At
<1>3. CASE StartFull(t) \/ StartOne(t)
  BY <1>2, <1>3 DEF StartFull, StartOne
<1>4. CASE Calls(t)
  BY <1>1, <1>4
  DEF At, Calls, FindMapping, FindNoMapping, UpdateMapped, UpdateNotFound, UpdateRefused,
      LookupFinds, CreateProduct, LookupFindsNone, UpdateFound, UpdateFoundRefused,
      CreateRefused, RecordFailure, Commit
<1>5. CASE Flushes(t)
  BY <1>1, <1>5
  DEF At, Flushes, DeleteMapping, SaveMapping, SaveMappingRaises, InsertMappingRaises,
      InsertMapping, MarkFailed, MarkFailedRaises
<1>6. CASE Failures(t)
  BY <1>1, <1>6 DEF At, Failures, BuildFails, CreateLost, CallFails, Crash
<1> QED
  BY <1>3, <1>4, <1>5, <1>6

\* A session that does not call the shop does not change it.
LEMMA SessionKinds ==
  ASSUME Inv, NEW s \in Sessions,
         StartFull(s) \/ StartOne(s) \/ Calls(s) \/ Flushes(s) \/ Failures(s)
  PROVE  \/ CallOf(s) \/ Crash(s) \/ Commit(s)
         \/ Step(s) /\ sess[s].pc \notin Calling /\ UNCHANGED woo
<1> SUFFICES ASSUME ~CallOf(s), ~Crash(s), ~Commit(s)
             PROVE  sess[s].pc \notin Calling /\ UNCHANGED woo
  BY SessionStep
<1>1. CASE StartFull(s) \/ StartOne(s)
  BY <1>1 DEF StartFull, StartOne, Start, At, Calling
<1>2. CASE Calls(s)
  BY <1>2 DEF Calls, CallOf, FindMapping, FindNoMapping, RecordFailure, At, Calling
<1>3. CASE Flushes(s)
  BY <1>3
  DEF At, Calling, Lose, Flushes, DeleteMapping, SaveMapping, SaveMappingRaises,
      InsertMappingRaises, InsertMapping, MarkFailed, MarkFailedRaises
<1>4. CASE Failures(s)
  BY <1>4 DEF Failures, CallOf, BuildFails, At, Calling
<1> QED
  BY <1>1, <1>2, <1>3, <1>4

LEMMA HomeOwned ==
  ASSUME NEW K, NEW y \in Session, NEW t \in [RowIds -> Row \cup {None}], NEW h, NEW g,
         Owned(K, h, g), Home(K, y, t, h)
  PROVE  Home(K, y, t, g)
<1>1. \A i \in RowIds : Seen(y.put, t, i) \in Row \cup {None}
  <2>1. y.put \in [RowIds -> Row \cup {None, Same}]
    BY Fields
  <2> QED
    BY <2>1 DEF Seen
<1>2. \A r \in Row : HomeRow(K, r, h) => HomeRow(K, r, g)
  BY RowFields DEF HomeRow, Owned
<1>3. \A i \in RowIds : /\ t[i] # None => HomeRow(K, t[i], g)
                        /\ Seen(y.put, t, i) # None => HomeRow(K, Seen(y.put, t, i), g)
  <2> SUFFICES ASSUME NEW i \in RowIds, NEW r \in Row, r = t[i] \/ r = Seen(y.put, t, i)
               PROVE  HomeRow(K, r, g)
    BY <1>1
  <2>1. HomeRow(K, r, h)
    BY DEF Home
  <2> QED
    BY <1>2, <2>1
<1> QED
  BY <1>3 DEF Home

LEMMA NextHome ==
  ASSUME Inv, ApartInv, KeptInv, NEW K, Disjoint(K), NEW s \in Sessions, HomeInv(s, K),
         \A o \in Products : odoo'[o] \in K[o] \cup {None},
         UNCHANGED vars \/ Users
            \/ StartFull(s) \/ StartOne(s) \/ Calls(s) \/ Flushes(s) \/ Failures(s)
  PROVE  HomeInv(s, K)'
<1>0. /\ OneEach(woo) /\ Home(K, sess[s], rows, woo) /\ Holding(sess[s], woo)
      /\ sess[s] \in Session /\ rows \in [RowIds -> Row \cup {None}]
  BY DEF HomeInv, Inv, TypeOK
<1>1. CASE CallOf(s)
  <2>1. Step(s)
    BY <1>1, CallStep
  <2>2. PICK y \in Session : Becomes(s, y) /\ Shape(y) /\ Moves(s, sess[s], y)
    BY <2>1 DEF Step
  <2>3. rows' = rows /\ sess'[s] = y
    BY <2>1, <2>2 DEF Step, Becomes, Inv, TypeOK
  <2>4. OneEach(woo') /\ Owned(K, woo, woo') /\ Holding(sess'[s], woo')
    BY <1>1, CallShop
  <2>5. Home(K, y, rows, woo')
    BY <1>0, <2>2, <2>4, MoveHome, HomeOwned
  <2> QED
    BY <2>3, <2>4, <2>5 DEF HomeInv
<1>2. CASE Crash(s)
  <2>1. sess'[s] = Idle /\ rows' = rows /\ woo' = woo
    BY <1>2 DEF Crash, Inv, TypeOK
  <2>2. Home(K, Idle, rows, woo) /\ Holding(Idle, woo)
    BY <1>0, IdleFresh DEF Home, Seen, Seeks, Calling, Holding, Holds, Nothing
  <2> QED
    BY <1>0, <2>1, <2>2 DEF HomeInv
<1>3. CASE Commit(s)
  <2>1. sess'[s] = Idle /\ woo' = woo /\ \A i \in RowIds : rows'[i] = View(s)[i]
    BY <1>3, CommitTypes DEF Commit, Inv, TypeOK
  <2>2. \A i \in RowIds : rows'[i] # None => HomeRow(K, rows'[i], woo)
    <3> SUFFICES ASSUME NEW i \in RowIds, NEW r \in Row, r = View(s)[i]
                 PROVE  HomeRow(K, r, woo)
      BY <2>1, ViewType
    <3> QED
      BY <1>0, ViewSeen DEF Home
  <2>3. Home(K, Idle, rows', woo) /\ Holding(Idle, woo)
    BY <2>2, IdleFresh DEF Home, Seen, Seeks, Calling, Holding, Holds, Nothing
  <2> QED
    BY <1>0, <2>1, <2>3 DEF HomeInv
<1>4. CASE Step(s) /\ sess[s].pc \notin Calling /\ UNCHANGED woo
  <2>1. PICK y \in Session : Becomes(s, y) /\ Shape(y) /\ Moves(s, sess[s], y)
    BY <1>4 DEF Step
  <2>2. rows' = rows /\ sess'[s] = y
    BY <1>4, <2>1 DEF Step, Becomes, Inv, TypeOK
  <2>3. Home(K, y, rows, woo)
    BY <2>1, MoveHome
  <2>4. ~Holds(y)
    BY <1>4, <2>1 DEF Moves, Begins, Works, Loads, Clears, Saves, Inserts, Marks, Records, Writes,
                      Closes, Holds
  <2> QED
    BY <1>0, <1>4, <2>2, <2>3, <2>4 DEF HomeInv, Holding
<1>5. CASE Users
  <2>1. /\ sess' = sess /\ rows' = rows /\ Owned(K, woo, woo')
        /\ \A w \in WooIds : woo'[w] \in {woo[w], "gone"}
    BY <1>5 DEF Users, Rename, RemoveFromShop, Owned, Inv, TypeOK
  <2>2. Home(K, sess[s], rows, woo')
    BY <1>0, <2>1, HomeOwned
  <2>3. OneEach(woo')
    BY <1>0, <2>1 DEF OneEach
  <2>4. Holding(sess[s], woo')
    <3>1. Holds(sess[s]) => sess[s].found \in WooIds
      BY DEF Holds, Inv, Shape
    <3> QED
      BY <1>0, <2>1, <3>1 DEF Holding
  <2> QED
    BY <2>1, <2>2, <2>3, <2>4 DEF HomeInv
<1>6. CASE UNCHANGED vars
  BY <1>6 DEF vars, HomeInv
<1> QED
  BY <1>1, <1>2, <1>3, <1>4, <1>5, <1>6, SessionKinds

-----------------------------------------------------------------------------
(* The products on sale that no row names and no session holds.            *)

Names(x, t, w) == \E i \in RowIds : Seen(x.put, t, i) # None /\ Seen(x.put, t, i).woo = w
Strays(x, t, h) ==
    {w \in WooIds : h[w] \in SKUs /\ ~Names(x, t, w) /\ ~(Holds(x) /\ x.found = w)}
StraysOf(s) == Strays(sess[s], rows, woo)

\* A call that fails leaves the product that the session held or made.
LEMMA CallStrays ==
  ASSUME Inv, NEW K, NEW s \in Sessions, HomeInv(s, K), CallOf(s)
  PROVE  /\ crashes' = crashes
         /\ \/ StraysOf(s)' \subseteq StraysOf(s) /\ faults' \in {faults, faults + 1}
            \/ /\ faults' = faults + 1
               /\ \E w : StraysOf(s)' \subseteq StraysOf(s) \cup {w}
<1>0. PICK x \in Session : x = sess[s] /\ Holding(x, woo) /\ OneEach(woo)
  BY DEF Inv, TypeOK, HomeInv
<1>a. /\ TypeOK
      /\ {"save", "update_found", "create", "delete", "failed"} \subseteq PCs
  BY DEF Inv, PCs
<1>b. ASSUME NEW y \in Session, Becomes(s, y), Continues(x, y), rows' = rows
      PROVE  /\ StraysOf(s)' = Strays(y, rows, woo')
             /\ \A w : Names(y, rows, w) <=> Names(x, rows, w)
  <2>1. sess'[s] = y
    BY <1>b DEF Becomes, Inv, TypeOK
  <2> QED
    BY <1>b, <2>1 DEF StraysOf, Names, Continues
<1>c. ASSUME NEW pc \in {"save", "create", "delete", "failed"}, Goto(s, pc)
      PROVE  \E y \in Session : Becomes(s, y) /\ Continues(x, y) /\ y.pc = pc /\ y.found = x.found
  BY <1>0, <1>a, <1>c, GotoStep
<1>1. CASE UpdateMapped(s)
  <2>1. PICK w \in WooIds : w = x.was.woo
    BY <1>0, <1>1, RowFields DEF UpdateMapped, At, Inv, Shape
  <2>2. /\ Finds(s, "save", w) /\ rows' = rows /\ faults' = faults /\ crashes' = crashes
        /\ woo[w] \in SKUs /\ woo' = [woo EXCEPT ![w] = x.sku] /\ ~Holds(x)
    BY <1>0, <1>1, <2>1 DEF UpdateMapped, Finds, Live, At, Holds
  <2>3. PICK y \in Session : Becomes(s, y) /\ Continues(x, y)
    BY <1>0, <1>a, <2>2, FoundStep
  <2>4. \A v \in WooIds : woo'[v] \in SKUs => woo[v] \in SKUs
    BY <2>2 DEF Inv, TypeOK
  <2>5. Strays(y, rows, woo') \subseteq Strays(x, rows, woo)
    BY <1>b, <2>2, <2>3, <2>4 DEF Strays
  <2> QED
    BY <1>0, <1>b, <2>2, <2>3, <2>5 DEF StraysOf
<1>2. CASE UpdateFound(s)
  <2>1. /\ Goto(s, "save") /\ rows' = rows /\ faults' = faults /\ crashes' = crashes
        /\ woo[x.found] \in SKUs /\ woo' = [woo EXCEPT ![x.found] = x.sku]
    BY <1>0, <1>2 DEF UpdateFound, Live
  <2>2. PICK y \in Session : /\ Becomes(s, y) /\ Continues(x, y) /\ y.pc = "save"
                             /\ y.found = x.found
    BY <1>c, <2>1
  <2>3. \A v \in WooIds : woo'[v] \in SKUs => woo[v] \in SKUs
    BY <2>1 DEF Inv, TypeOK
  <2>4. Strays(y, rows, woo') \subseteq Strays(x, rows, woo)
    BY <1>b, <2>1, <2>2, <2>3 DEF Strays, Holds
  <2> QED
    BY <1>0, <1>b, <2>1, <2>2, <2>4 DEF StraysOf
<1>3. CASE \E w \in WooIds : LookupFinds(s, w)
  <2>1. PICK w \in WooIds : LookupFinds(s, w)
    BY <1>3
  <2>2. /\ Finds(s, "update_found", w) /\ rows' = rows /\ faults' = faults
        /\ crashes' = crashes /\ woo' = woo /\ ~Holds(x)
    BY <1>0, <2>1 DEF LookupFinds, Finds, At, Holds
  <2>3. PICK y \in Session : Becomes(s, y) /\ Continues(x, y)
    BY <1>0, <1>a, <2>2, FoundStep
  <2>4. Strays(y, rows, woo') \subseteq Strays(x, rows, woo)
    BY <1>b, <2>2, <2>3 DEF Strays
  <2> QED
    BY <1>0, <1>b, <2>2, <2>3, <2>4 DEF StraysOf
<1>4. CASE \E w \in WooIds : CreateProduct(s, w)
  <2>1. PICK w \in WooIds : CreateProduct(s, w)
    BY <1>4
  <2>2. /\ Finds(s, "save", w) /\ rows' = rows /\ faults' = faults
        /\ crashes' = crashes /\ woo' = [woo EXCEPT ![w] = x.sku] /\ ~Holds(x)
    BY <1>0, <2>1 DEF CreateProduct, Finds, At, Holds
  <2>3. PICK y \in Session : Becomes(s, y) /\ Continues(x, y) /\ y.pc = "save" /\ y.found = w
    <3>1. "save" \in PCs /\ Finds(s, "save", w)
      BY <1>a, <2>2
    <3> HIDE ProductSyncAssumption
    <3> QED
      BY <1>0, <1>a, <3>1, FoundStep
  <2>4. \A v \in WooIds \ {w} : woo'[v] = woo[v]
    BY <2>2 DEF Inv, TypeOK
  <2>5. Strays(y, rows, woo') \subseteq Strays(x, rows, woo)
    BY <1>b, <2>2, <2>3, <2>4 DEF Strays, Holds
  <2> QED
    BY <1>0, <1>b, <2>2, <2>3, <2>5 DEF StraysOf
<1>5. CASE \E w \in WooIds : CreateLost(s, w)
  <2>1. PICK w \in WooIds : CreateLost(s, w)
    BY <1>5
  <2>2. /\ Goto(s, "failed") /\ rows' = rows /\ faults' = faults + 1
        /\ crashes' = crashes /\ woo' = [woo EXCEPT ![w] = x.sku] /\ ~Holds(x)
    BY <1>0, <2>1 DEF CreateLost, Fault, At, Holds
  <2>3. PICK y \in Session : Becomes(s, y) /\ Continues(x, y)
    BY <1>c, <2>2
  <2>4. \A v \in WooIds \ {w} : woo'[v] = woo[v]
    BY <2>2 DEF Inv, TypeOK
  <2>5. Strays(y, rows, woo') \subseteq Strays(x, rows, woo) \cup {w}
    BY <1>b, <2>2, <2>3, <2>4 DEF Strays
  <2> QED
    BY <1>0, <1>b, <2>2, <2>3, <2>5 DEF StraysOf
<1>6. CASE CallFails(s)
  <2>1. /\ Goto(s, "failed") /\ rows' = rows /\ faults' = faults + 1
        /\ crashes' = crashes /\ woo' = woo
    BY <1>6 DEF CallFails, Fault
  <2>2. PICK y \in Session : Becomes(s, y) /\ Continues(x, y)
    BY <1>c, <2>1
  <2>3. Strays(y, rows, woo') \subseteq Strays(x, rows, woo) \cup {x.found}
    BY <1>b, <2>1, <2>2 DEF Strays
  <2> QED
    BY <1>0, <1>b, <2>1, <2>2, <2>3 DEF StraysOf
<1>7. CASE UpdateFoundRefused(s)
  <2>1. /\ Goto(s, "failed") /\ rows' = rows /\ faults' = faults /\ crashes' = crashes
        /\ woo' = woo /\ x.pc = "update_found" /\ x.found \in WooIds
        /\ ~(Live(x.found) /\ Accepts(x.found, x.sku))
    BY <1>0, <1>7 DEF UpdateFoundRefused, At, Inv, Shape
  <2>2. PICK y \in Session : Becomes(s, y) /\ Continues(x, y)
    BY <1>c, <2>1
  <2>3. woo[x.found] \notin SKUs
    BY <1>0, <2>1 DEF Holding, Holds, OneEach, Live, Accepts, Carriers
  <2>4. Strays(y, rows, woo') \subseteq Strays(x, rows, woo)
    BY <1>b, <2>1, <2>2, <2>3 DEF Strays
  <2> QED
    BY <1>0, <1>b, <2>1, <2>2, <2>4 DEF StraysOf
<1>8. CASE UpdateNotFound(s) \/ UpdateRefused(s) \/ LookupFindsNone(s) \/ CreateRefused(s)
  <2>1. /\ Goto(s, "delete") \/ Goto(s, "create") \/ Goto(s, "failed")
        /\ rows' = rows /\ faults' = faults /\ crashes' = crashes /\ woo' = woo /\ ~Holds(x)
    BY <1>0, <1>8
    DEF UpdateNotFound, UpdateRefused, LookupFindsNone, CreateRefused, At, Holds
  <2>2. PICK y \in Session : Becomes(s, y) /\ Continues(x, y)
    BY <1>c, <2>1
  <2>3. Strays(y, rows, woo') \subseteq Strays(x, rows, woo)
    BY <1>b, <2>1, <2>2 DEF Strays
  <2> QED
    BY <1>0, <1>b, <2>1, <2>2, <2>3 DEF StraysOf
<1> QED
  BY <1>1, <1>2, <1>3, <1>4, <1>5, <1>6, <1>7, <1>8 DEF CallOf

\* A step that calls nothing leaves no product behind.
LEMMA MoveStrays ==
  ASSUME Inv, ApartInv, KeptInv, NEW K, Disjoint(K), NEW s \in Sessions, HomeInv(s, K),
         Step(s), sess[s].pc \notin Calling, UNCHANGED woo
  PROVE  StraysOf(s)' \subseteq StraysOf(s) \/ crashes' = crashes + 1
<1>0. PICK x \in Session : x = sess[s] /\ Home(K, x, rows, woo)
  BY DEF Inv, TypeOK, HomeInv
<1>a. PICK put \in [RowIds -> Row \cup {None, Same}] : put = x.put
  BY Fields
<1>b. PICK y \in Session : Becomes(s, y) /\ Moves(s, x, y)
  BY <1>0 DEF Step
<1>c. sess'[s] = y /\ rows' = rows /\ woo' = woo
  BY <1>b DEF Step, Becomes, Inv, TypeOK
<1>d. /\ StraysOf(s) = Strays(x, rows, woo) /\ StraysOf(s)' = Strays(y, rows, woo)
  BY <1>0, <1>c DEF StraysOf
\* Row i is given e, of the product of the shop that it named, if any.
<1>e. ASSUME NEW i \in RowIds, NEW e \in Row, y.put = [put EXCEPT ![i] = e],
             Seen(put, rows, i) # None => Seen(put, rows, i).woo = e.woo,
             Holds(x) => e.woo = x.found
      PROVE  Strays(y, rows, woo) \subseteq Strays(x, rows, woo)
  <2>1. \A j \in RowIds : Seen(y.put, rows, j) = IF j = i THEN e ELSE Seen(put, rows, j)
    BY <1>e DEF Seen
  <2>2. ASSUME NEW w, Names(x, rows, w) PROVE Names(y, rows, w)
    <3>1. PICK j \in RowIds : Seen(put, rows, j) # None /\ Seen(put, rows, j).woo = w
      BY <1>a, <2>2 DEF Names
    <3> QED
      BY <1>e, <2>1, <3>1 DEF Names
  <2>3. Names(y, rows, e.woo)
    BY <2>1 DEF Names
  <2> QED
    BY <1>e, <2>2, <2>3 DEF Strays
<1>1. CASE Begins(s, y)
  <2>1. CASE At(s, "idle")
    <3>1. \A i \in RowIds : Seen(y.put, rows, i) = Seen(x.put, rows, i)
      BY <1>0, <1>1, <2>1 DEF Begins, Home, At, Seen
    <3>2. ~Holds(x) /\ ~Holds(y)
      BY <1>0, <1>1, <2>1 DEF Begins, At, Holds
    <3> QED
      BY <1>d, <3>1, <3>2 DEF Strays, Names
  <2>2. ~Raised(s)
    BY NeverRaises
  <2> QED
    BY <1>1, <2>1, <2>2 DEF Begins
<1>2. CASE Loads(s, x, y)
  <2>1. y.put = x.put /\ ~Holds(x)
    BY <1>2 DEF Loads, Takes, Holds
  <2> QED
    BY <1>d, <2>1 DEF Strays, Names
<1>3. CASE Clears(s, x, y)
  <2>1. PICK i \in RowIds, q \in {Same, None} :
           i = x.row /\ y.put = [put EXCEPT ![i] = q] /\ x.pc = "delete" /\ y.pc = "lookup"
    BY <1>a, <1>3 DEF Clears
  <2>2. Seen(put, rows, i).woo = x.was.woo /\ woo[x.was.woo] = "gone"
    BY <1>0, <1>a, <2>1 DEF Home, KeptInv, Handles
  <2>3. \A j \in RowIds \ {i} : Seen(y.put, rows, j) = Seen(put, rows, j)
    BY <2>1 DEF Seen
  <2> QED
    BY <1>a, <1>d, <2>1, <2>2, <2>3 DEF Strays, Names, Holds
<1>4. CASE Saves(s, x, y)
  <2>1. PICK i \in RowIds : /\ i = x.row /\ At(s, "save")
                            /\ y.put = [put EXCEPT ![i] = Changed(s, i, Target(s))]
    BY <1>0, <1>a, <1>4 DEF Saves, Writes, Closes, At
  <2>2. PICK r \in Row : r = Target(s) /\ r.odoo = x.product /\ r.sku = x.sku /\ r.woo = x.was.woo
                         /\ r.woo = x.found
    BY <1>0, <2>1, TargetType DEF At, KeptInv, Handles
  <2>3. PICK e \in Row : /\ e = Changed(s, i, r) /\ e.woo = View(s)[i].woo
                         /\ View(s)[i] = sess[s].was
    <3>1. /\ sess[s].pc \notin {"idle", "next"} /\ i = sess[s].row /\ r.odoo = sess[s].product
          /\ r.sku = sess[s].sku /\ r.woo = sess[s].was.woo
      BY <1>0, <2>1, <2>2 DEF At
    <3> QED
      BY <3>1, ChangedHome
  <2>4. View(s)[i] = Seen(put, rows, i)
    BY <1>0, <1>a, ViewSeen
  <2>5. /\ y.put = [put EXCEPT ![i] = e] /\ Seen(put, rows, i).woo = e.woo
        /\ e.woo = x.found
    BY <1>0, <2>1, <2>2, <2>3, <2>4
  <2>6. Strays(y, rows, woo) \subseteq Strays(x, rows, woo)
    BY <1>e, <2>5
  <2> QED
    BY <1>d, <2>6
<1>5. CASE Inserts(s, x, y)
  <2>1. PICK i \in RowIds : /\ At(s, "save") /\ IsNewRow(i)
                            /\ y.put = [put EXCEPT ![i] = Target(s)]
    BY <1>0, <1>a, <1>5 DEF Inserts, Writes, Closes, At
  <2>2. PICK r \in Row : r = Target(s) /\ r.woo = x.found
    BY <1>0, <2>1, TargetType
  <2>3. Seen(put, rows, i) = None
    BY <1>0, <1>a, <2>1 DEF IsNewRow, Seen
  <2>4. y.put = [put EXCEPT ![i] = r]
    BY <2>1, <2>2
  <2>5. Strays(y, rows, woo) \subseteq Strays(x, rows, woo)
    BY <1>e, <2>2, <2>3, <2>4
  <2> QED
    BY <1>d, <2>5
<1>6. CASE Marks(s, x, y)
  <2>1. PICK i \in Failing(s) : /\ i \in RowIds /\ At(s, "failed") /\ ~Holds(x)
                                /\ y.put = [put EXCEPT ![i] = FailedRow(s, i)]
    BY <1>0, <1>a, <1>6 DEF Marks, Writes, Closes, At, Holds
  <2>2. PICK e \in Row : e = FailedRow(s, i)
    BY <2>1, FailedRowType
  <2>3. View(s)[i] = Seen(put, rows, i)
    BY <1>0, <1>a, <2>1, ViewSeen
  <2>4. e.woo = View(s)[i].woo
    <3>1. CASE x.row = None
      BY <1>0, <2>1, <2>2, <3>1, FailedRowType
    <3>2. CASE x.row # None
      <4>1. PICK r \in Row : /\ e = Changed(s, i, r) /\ i = x.row
                             /\ r.odoo = x.product /\ r.sku = x.sku /\ r.woo = x.was.woo
        BY <1>0, <2>1, <2>2, <3>2, FailedRowType
      <4> QED
        BY <1>0, <2>1, <4>1, ChangedHome DEF At
    <3> QED
      BY <3>1, <3>2
  <2>5. y.put = [put EXCEPT ![i] = e] /\ Seen(put, rows, i).woo = e.woo
    BY <2>1, <2>2, <2>3, <2>4
  <2> QED
    BY <1>d, <1>e, <2>1, <2>5
<1>7. CASE Records(x, y)
  <2>1. y.put = x.put /\ ~Holds(x)
    BY <1>7 DEF Records, Closes, Holds
  <2> QED
    BY <1>d, <2>1 DEF Strays, Names
<1> QED
  BY <1>0, <1>1, <1>2, <1>3, <1>4, <1>5, <1>6, <1>7, <1>b DEF Moves, Works

\* What a crash loses: for each product one product of the shop, at most.
LEMMA LostStrays ==
  ASSUME Inv, ApartInv, KeptInv, NEW K, NEW s \in Sessions, HomeInv(s, K), Crash(s),
         IsFiniteSet(Products)
  PROVE  \E G : /\ StraysOf(s)' \subseteq StraysOf(s) \cup G
                /\ IsFiniteSet(G) /\ Cardinality(G) <= Cardinality(Products)
<1>0. PICK x \in Session : x = sess[s] /\ Home(K, x, rows, woo)
  BY DEF Inv, TypeOK, HomeInv
<1> DEFINE Of(o, w) == \/ \E i \in RowIds : /\ Seen(x.put, rows, i) # None
                                            /\ Seen(x.put, rows, i).odoo = o
                                            /\ Seen(x.put, rows, i).woo = w
                       \/ x.row = None /\ Holds(x) /\ x.product = o /\ x.found = w
           G == {w \in WooIds : \E o \in Products : Of(o, w)}
           f == [w \in G |-> CHOOSE o \in Products : Of(o, w)]
<1>1. \A i \in RowIds : Seen(x.put, rows, i) \in Row \cup {None}
  BY <1>0, ViewSeen
<1>2. ASSUME NEW o, NEW v, NEW w, Of(o, v), Of(o, w) PROVE v = w
  <2>1. ASSUME NEW i \in RowIds, NEW j \in RowIds, NEW q \in Row, NEW r \in Row,
               q = Seen(x.put, rows, i), r = Seen(x.put, rows, j), q.odoo = r.odoo
        PROVE  q = r
    <3>1. i # j => ~Clash(q, r)
      BY <1>0, <2>1 DEF ApartInv, Apart
    <3> QED
      BY <2>1, <3>1 DEF Clash
  <2>2. ASSUME x.row = None, Holds(x), NEW i \in RowIds, Seen(x.put, rows, i) # None
        PROVE  Seen(x.put, rows, i).odoo # x.product
    BY <1>0, <2>2 DEF Home, Seeks, Holds, Calling
  <2> QED
    BY <1>1, <1>2, <2>1, <2>2
<1>a. \A w \in G : \E o \in Products : Of(o, w)
  OBVIOUS
<1>3. f \in Injection(G, Products)
  <2> HIDE DEF Of, G
  <2>1. \A w \in G : f[w] \in Products /\ Of(f[w], w)
    BY <1>a
  <2>2. \A v, w \in G : f[v] = f[w] => v = w
    BY <1>2, <2>1
  <2> QED
    BY <2>1, <2>2 DEF Injection, IsInjective
<1>4. IsFiniteSet(G) /\ Cardinality(G) <= Cardinality(Products)
  BY <1>3, FS_Injection
<1>5. StraysOf(s)' \subseteq StraysOf(s) \cup G
  <2>1. woo' = woo
    BY DEF Crash
  <2> SUFFICES ASSUME NEW w \in WooIds, woo[w] \in SKUs, w \notin G
               PROVE  ~Names(x, rows, w) /\ ~(Holds(x) /\ x.found = w)
    BY <1>0, <2>1 DEF StraysOf, Strays
  <2>2. ~Names(x, rows, w)
    BY <1>1, RowFields DEF Names
  <2>3. ASSUME Holds(x), x.found = w PROVE FALSE
    <3>1. CASE x.row = None
      <4>1. x.product \in Products
        BY <1>0, <2>3 DEF Holds, Inv, Shape
      <4> QED
        BY <2>3, <3>1, <4>1
    <3>2. CASE x.row # None
      <4>1. x.row \in RowIds /\ x.was \in Row /\ x.found = x.was.woo
        BY <1>0, <2>3, <3>2, Fields DEF Holds, Inv, Shape, KeptInv, Handles
      <4>2. Seen(x.put, rows, x.row) = x.was
        BY <1>0, <3>2 DEF Home
      <4> QED
        BY <2>2, <2>3, <4>1, <4>2 DEF Names
    <3> QED
      BY <3>1, <3>2
  <2> QED
    BY <2>2, <2>3
<1> QED
  BY <1>4, <1>5

\* A commit shows what its session saw.
LEMMA CommitStrays ==
  ASSUME Inv, NEW s \in Sessions, Commit(s)
  PROVE  StraysOf(s)' \subseteq StraysOf(s)
<1>1. sess'[s] = Idle /\ woo' = woo /\ \A i \in RowIds : rows'[i] = View(s)[i]
  BY CommitTypes DEF Commit, Inv, TypeOK
<1>2. \A i \in RowIds : Seen(Idle.put, rows', i) = Seen(sess[s].put, rows, i)
  BY <1>1, ViewSeen, IdleFresh DEF Seen
<1>3. ~Holds(sess[s])
  BY DEF Commit, At, Holds
<1> QED
  BY <1>1, <1>2, <1>3 DEF StraysOf, Strays, Names

\* Faults and crashes are counted, and no other step counts any.
LEMMA StepCounts ==
  ASSUME Inv, NEW s \in Sessions, ~CallOf(s),
         StartFull(s) \/ StartOne(s) \/ Calls(s) \/ Flushes(s) \/ Failures(s)
  PROVE  /\ faults' \in {faults, faults + 1}
         /\ crashes' = IF Crash(s) THEN crashes + 1 ELSE crashes
<1>1. CASE Crash(s)
  BY <1>1 DEF Crash
<1>2. CASE ~Crash(s)
  <2>1. CASE StartFull(s) \/ StartOne(s)
    BY <1>2, <2>1 DEF StartFull, StartOne, Start
  <2>2. CASE Calls(s)
    BY <1>2, <2>2 DEF Calls, CallOf, FindMapping, FindNoMapping, RecordFailure, Commit
  <2>3. CASE Flushes(s)
    BY <1>2, <2>3
    DEF Lose, Flushes, DeleteMapping, SaveMapping, SaveMappingRaises, InsertMappingRaises,
        InsertMapping, MarkFailed, MarkFailedRaises
  <2>4. CASE Failures(s)
    BY <1>2, <2>4 DEF Failures, CallOf, BuildFails, Fault
  <2> QED
    BY <2>1, <2>2, <2>3, <2>4
<1> QED
  BY <1>1, <1>2

StrayInv(s, n) ==
    Cardinality(StraysOf(s)) <= n + faults + Cardinality(Products) * crashes

\* A step leaves one product behind, for a fault, or for a crash as many as
\* there are products in Odoo.
LEMMA StepStrays ==
  ASSUME Inv, ApartInv, KeptInv, NEW K, Disjoint(K), NEW s \in Sessions, HomeInv(s, K),
         IsFiniteSet(Products),
         UNCHANGED vars \/ Users
            \/ StartFull(s) \/ StartOne(s) \/ Calls(s) \/ Flushes(s) \/ Failures(s)
  PROVE  \E G : /\ StraysOf(s)' \subseteq StraysOf(s) \cup G /\ IsFiniteSet(G)
                /\ \/ G = {} /\ faults' \in {faults, faults + 1} /\ crashes' = crashes
                   \/ (\E w : G = {w}) /\ faults' = faults + 1 /\ crashes' = crashes
                   \/ /\ Cardinality(G) <= Cardinality(Products)
                      /\ faults' \in {faults, faults + 1} /\ crashes' = crashes + 1
<1>a. IsFiniteSet({}) /\ \A w : IsFiniteSet({w})
  BY FS_EmptySet, FS_Singleton
<1>1. CASE CallOf(s)
  BY <1>1, <1>a, CallStrays
<1>2. CASE Crash(s) /\ ~CallOf(s)
  BY <1>2, LostStrays, StepCounts DEF Failures
<1>3. CASE /\ ~CallOf(s) /\ ~Crash(s)
           /\ StartFull(s) \/ StartOne(s) \/ Calls(s) \/ Flushes(s) \/ Failures(s)
  <2>1. crashes' = crashes /\ faults' \in {faults, faults + 1} /\ crashes \in Nat
    BY <1>3, StepCounts DEF Inv, TypeOK
  <2>2. CASE Commit(s)
    BY <1>a, <2>1, <2>2, CommitStrays
  <2>3. CASE Step(s) /\ sess[s].pc \notin Calling /\ UNCHANGED woo
    <3>1. StraysOf(s)' \subseteq StraysOf(s)
      BY <2>1, <2>3, MoveStrays
    <3> QED
      BY <1>a, <2>1, <3>1
  <2> QED
    BY <1>3, <2>2, <2>3, SessionKinds
<1>4. CASE Users \/ UNCHANGED vars
  <2>1. StraysOf(s)' \subseteq StraysOf(s) /\ faults' = faults /\ crashes' = crashes
    BY <1>4 DEF Users, Rename, RemoveFromShop, vars, StraysOf, Strays, Inv, TypeOK
  <2> QED
    BY <1>a, <2>1
<1> QED
  BY <1>1, <1>2, <1>3, <1>4

LEMMA NextStrays ==
  ASSUME Inv, ApartInv, KeptInv, NEW K, Disjoint(K), NEW s \in Sessions, HomeInv(s, K),
         IsFiniteSet(Products), IsFiniteSet(WooIds), NEW n \in Nat, StrayInv(s, n),
         UNCHANGED vars \/ Users
            \/ StartFull(s) \/ StartOne(s) \/ Calls(s) \/ Flushes(s) \/ Failures(s)
  PROVE  StrayInv(s, n)'
<1>1. PICK G : /\ StraysOf(s)' \subseteq StraysOf(s) \cup G /\ IsFiniteSet(G)
               /\ \/ G = {} /\ faults' \in {faults, faults + 1} /\ crashes' = crashes
                  \/ (\E w : G = {w}) /\ faults' = faults + 1 /\ crashes' = crashes
                  \/ /\ Cardinality(G) <= Cardinality(Products)
                     /\ faults' \in {faults, faults + 1} /\ crashes' = crashes + 1
  BY StepStrays
<1>2. PICK S, T : S = StraysOf(s) /\ T = StraysOf(s)'
  OBVIOUS
<1>3. IsFiniteSet(S)
  BY <1>2, FS_Subset DEF StraysOf, Strays
<1>4. /\ IsFiniteSet(S \cup G)
      /\ Cardinality(S \cup G) = Cardinality(S) + Cardinality(G) - Cardinality(S \cap G)
      /\ Cardinality(T) <= Cardinality(S \cup G)
  BY <1>1, <1>2, <1>3, FS_Union, FS_Subset
<1>5. PICK k \in Nat, g \in Nat, l \in Nat, m \in Nat, u \in Nat :
         /\ k = Cardinality(S) /\ g = Cardinality(G) /\ l = Cardinality(S \cap G)
         /\ m = Cardinality(Products) /\ u = Cardinality(S \cup G)
  BY <1>1, <1>3, <1>4, FS_CardinalityType, FS_Intersection
<1>a. T \subseteq S \cup G
  BY <1>1, <1>2
<1>6. PICK t \in Nat : t = Cardinality(T) /\ t <= k + g
  <2>1. IsFiniteSet(T)
    BY <1>4, <1>a, FS_Subset
  <2>2. Cardinality(T) \in Nat
    BY <2>1, FS_CardinalityType
  <2> QED
    BY <1>4, <1>5, <2>2
<1>7. PICK f0 \in Nat, c0 \in Nat, f1 \in Nat, c1 \in Nat :
         f0 = faults /\ c0 = crashes /\ f1 = faults' /\ c1 = crashes'
  BY <1>1 DEF Inv, TypeOK
<1>8. k <= n + f0 + m * c0
  BY <1>2, <1>5, <1>7 DEF StrayInv
<1>9. m * (c0 + 1) = m * c0 + m /\ m * c0 \in Nat
  OBVIOUS
<1>10. \/ g = 0 /\ f1 \in {f0, f0 + 1} /\ c1 = c0
       \/ g = 1 /\ f1 = f0 + 1 /\ c1 = c0
       \/ g <= m /\ f1 \in {f0, f0 + 1} /\ c1 = c0 + 1
  BY <1>1, <1>5, <1>7, FS_EmptySet, FS_Singleton
<1>11. t <= n + f1 + m * c1
  <2>1. PICK d \in Nat : d = m * c0
    BY <1>9
  <2>2. CASE c1 = c0
    BY <1>6, <1>8, <1>10, <2>1, <2>2
  <2>3. CASE c1 = c0 + 1
    <3>1. m * c1 = d + m
      BY <1>9, <2>1, <2>3
    <3> QED
      BY <1>6, <1>8, <1>10, <2>1, <2>3, <3>1
  <2> QED
    BY <1>10, <2>2, <2>3
<1> QED
  BY <1>2, <1>5, <1>6, <1>7, <1>11 DEF StrayInv

LEMMA StraysLeft ==
  ASSUME Inv, NEW s \in Sessions, IsFiniteSet(WooIds), IsFiniteSet(Products), NEW n \in Nat,
         StrayInv(s, n)
  PROVE  LeftoversExplained(n)
<1>1. \A w : Names(sess[s], rows, w) => \E i \in RowIds : View(s)[i] # None /\ View(s)[i].woo = w
  BY ViewSeen DEF Names
<1>2. Leftovers \subseteq StraysOf(s)
  BY <1>1 DEF Leftovers, Live, StraysOf, Strays
<1>3. IsFiniteSet(StraysOf(s))
  BY FS_Subset DEF StraysOf, Strays
<1>4. Cardinality(Leftovers) <= Cardinality(StraysOf(s)) /\ IsFiniteSet(Leftovers)
  BY <1>2, <1>3, FS_Subset
<1>5. PICK k \in Nat, l \in Nat, m \in Nat, f \in Nat, e \in Nat :
         /\ k = Cardinality(Leftovers) /\ l = Cardinality(StraysOf(s))
         /\ m = Cardinality(Products) /\ f = faults /\ e = crashes
  BY <1>3, <1>4, FS_CardinalityType DEF Inv, TypeOK
<1>6. k <= l /\ l <= n + f + m * e /\ m * e \in Nat
  BY <1>4, <1>5 DEF StrayInv
<1>7. k <= n + f + m * e
  BY <1>6
<1> QED
  BY <1>5, <1>7 DEF LeftoversExplained

LEMMA InitHome ==
  ASSUME Init, NEW K, NEW s \in Sessions, \A o \in Products : odoo[o] \in K[o] \cup {None}
  PROVE  HomeInv(s, K)
<1>1. sess[s] = Idle /\ \A i \in RowIds : rows[i] = None /\ Seen(Idle.put, rows, i) = None
  BY IdleFresh DEF Init, Seen
<1>2. Home(K, Idle, rows, woo) /\ Holding(Idle, woo)
  BY <1>1, IdleFresh DEF Home, Seeks, Calling, Holding, Holds, Nothing
<1>3. OneEach(woo)
  <2> SUFFICES ASSUME NEW v \in WooIds, NEW w \in WooIds, woo[v] \in SKUs, woo[v] = woo[w], v # w
               PROVE  FALSE
    BY DEF OneEach
  <2>1. v < w \/ w < v
    OBVIOUS
  <2> QED
    BY <2>1 DEF Init, Live
<1> QED
  BY <1>1, <1>2, <1>3 DEF HomeInv

LEMMA InitStrays ==
  ASSUME Init, NEW s \in Sessions, IsFiniteSet(WooIds), IsFiniteSet(Products), NEW n \in Nat,
         Cardinality({w \in WooIds : Live(w)}) <= n
  PROVE  StrayInv(s, n)
<1> DEFINE L == {w \in WooIds : Live(w)}
<1>1. IsFiniteSet(L)
  BY FS_Subset
<1>2. StraysOf(s) \subseteq L
  BY DEF StraysOf, Strays, Live
<1> HIDE DEF L
<1>a. IsFiniteSet(StraysOf(s)) /\ Cardinality(StraysOf(s)) <= Cardinality(L)
  BY <1>1, <1>2, FS_Subset
<1>b. Cardinality(L) <= n
  BY DEF L
<1>3. PICK k \in Nat, l \in Nat, m \in Nat :
         k = Cardinality(StraysOf(s)) /\ l = Cardinality(L) /\ m = Cardinality(Products)
  BY <1>1, <1>a, FS_CardinalityType
<1>4. k <= n + 0 + m * 0
  BY <1>3, <1>a, <1>b
<1> QED
  BY <1>3, <1>4 DEF Init, StrayInv

\* With one session, and SKUs that are never of two products, a product on sale
\* that nobody knows was on sale before the first sync, or was left by a fault or
\* a crash: one for each fault, and for each crash as many as there are products.
THEOREM LeftoversHaveCauses ==
  ASSUME IsFiniteSet(Products), IsFiniteSet(WooIds), NEW s, Sessions = {s}, Disjoint(SkusOf),
         NEW n \in Nat
  PROVE  Spec /\ Cardinality({w \in WooIds : Live(w)}) <= n => []LeftoversExplained(n)
<1> DEFINE I == Inv /\ ApartInv /\ KeptInv /\ HomeInv(s, SkusOf) /\ StrayInv(s, n)
<1>1. Init /\ Cardinality({w \in WooIds : Live(w)}) <= n => I
  <2> SUFFICES ASSUME Init, Cardinality({w \in WooIds : Live(w)}) <= n PROVE I
    OBVIOUS
  <2>1. Inv /\ ApartInv /\ KeptInv
    BY InitInv, KeptInit
  <2>2. HomeInv(s, SkusOf)
    BY InitHome DEF Init
  <2>3. StrayInv(s, n)
    BY InitStrays
  <2> QED
    BY <2>1, <2>2, <2>3
<1>2. I /\ [Next]_vars => I'
  <2> SUFFICES ASSUME I, [Next]_vars PROVE I'
    OBVIOUS
  <2>1. UNCHANGED vars \/ Users
        \/ StartFull(s) \/ StartOne(s) \/ Calls(s) \/ Flushes(s) \/ Failures(s)
    BY DEF Next
  <2>2. \A o \in Products : odoo'[o] \in SkusOf[o] \cup {None}
    <3>1. \A o \in Products : odoo[o] \in SkusOf[o] \cup {None}
      BY DEF HomeInv
    <3>2. CASE Users
      BY <3>1, <3>2 DEF Users, Rename, RemoveFromShop, Inv, TypeOK
    <3>3. CASE UNCHANGED vars
      BY <3>1, <3>3 DEF vars
    <3>4. CASE StartFull(s) \/ StartOne(s) \/ Calls(s) \/ Flushes(s) \/ Failures(s)
      <4>1. odoo' = odoo
        BY <3>4, SessionStep DEF Step, Commit
      <4> QED
        BY <3>1, <4>1
    <3> QED
      BY <2>1, <3>2, <3>3, <3>4
  <2>3. Inv' /\ ApartInv' /\ KeptInv'
    BY NextInv, NextKeeps
  <2>4. HomeInv(s, SkusOf)'
    BY <2>1, <2>2, NextHome
  <2>5. StrayInv(s, n)'
    BY <2>1, NextStrays
  <2> QED
    BY <2>3, <2>4, <2>5
<1>3. I => LeftoversExplained(n)
  BY StraysLeft
<1> QED
  BY <1>1, <1>2, <1>3, PTL DEF Spec
-----------------------------------------------------------------------------
(* The cases of MCProductTeams with one session.                           *)

LEMMA CorrectedCase ==
  ASSUME Products \subseteq {1, 2}, {a, b, c} \subseteq SKUs, b \notin {a, c}, NEW x \in Corrected
  PROVE  /\ x.team = {p1} /\ Disjoint(x.skus)
         /\ \A n \in x.inShop : n \in Nat /\ x.inShop = {n}
<1>1. x.team = {p1} /\ x.inShop \in {{0}, {1}}
  BY DEF Corrected, Case
<1>2. x.skus = [o \in Products |-> IF o = 1 THEN {a, c} ELSE {b}]
  BY DEF Corrected, Case
<1>3. Disjoint(x.skus)
  BY <1>2 DEF Disjoint
<1> QED
  BY <1>1, <1>3

LEMMA ReplacedCase ==
  ASSUME p1 # p2, NEW x \in Replaced
  PROVE  Cardinality(x.team) # 1
<1>1. x.team = {p1, p2}
  BY DEF Replaced, Case
<1>2. IsFiniteSet({p1, p2})
  <2>1. IsFiniteSet({p1}) /\ {p1, p2} = {p1} \cup {p2}
    BY FS_Singleton
  <2> QED
    BY <2>1, FS_AddElement
<1> QED
  BY <1>1, <1>2, FS_Singleton

CaseInv ==
    /\ Inv /\ ApartInv /\ KeptInv /\ Within
    /\ case \in Replaced \cup Corrected
    /\ case \in Corrected => /\ HomeInv(p1, case.skus)
                             /\ \A n \in case.inShop : StrayInv(p1, n)

\* The cases of the teams run with one session, whose SKUs users may correct
\* while it works: what is left on sale was on sale before the first sync or has
\* its fault or crash, for any number of WooCommerce ids, rows and deletions.
THEOREM AloneLeftoversHaveCauses ==
  ASSUME Products \subseteq {1, 2}, IsFiniteSet(WooIds), p1 \in Sessions, p1 # p2,
         {a, b, c} \subseteq SKUs, b \notin {a, c}
  PROVE  MCSpec => []AloneLeftoversExplained
<1>0. IsFiniteSet(Products)
  <2>1. Products \subseteq 1 .. 2
    OBVIOUS
  <2>2. 1 \in Int /\ 2 \in Int
    OBVIOUS
  <2>3. IsFiniteSet(1 .. 2)
    BY <2>2, FS_Interval
  <2> QED
    BY <2>1, <2>3, FS_Subset
<1>1. MCInit => CaseInv
  <2> SUFFICES ASSUME MCInit PROVE CaseInv
    OBVIOUS
  <2>1. Inv /\ ApartInv /\ KeptInv /\ Init /\ Within /\ case \in Replaced \cup Corrected
    BY InitInv, KeptInit DEF MCInit
  <2>2. ASSUME case \in Corrected PROVE HomeInv(p1, case.skus)
    BY <2>1, <2>2, InitHome DEF Within
  <2>3. ASSUME case \in Corrected, NEW n \in case.inShop PROVE StrayInv(p1, n)
    <3>1. n \in Nat /\ Cardinality({w \in WooIds : Live(w)}) = n
      BY <2>3, CorrectedCase DEF MCInit
    <3>2. Cardinality({w \in WooIds : Live(w)}) <= n
      BY <3>1
    <3> QED
      BY <1>0, <2>1, <3>1, <3>2, InitStrays
  <2> QED
    BY <2>1, <2>2, <2>3 DEF CaseInv
<1>2. CaseInv /\ [Next /\ Member]_mcvars => CaseInv'
  <2> SUFFICES ASSUME CaseInv, [Next /\ Member]_mcvars PROVE CaseInv'
    OBVIOUS
  <2>1. [Next]_vars /\ case' = case
    BY DEF mcvars, Member
  <2>2. Within'
    BY DEF mcvars, vars, Member, CaseInv, Within, At, Live
  <2>3. Inv' /\ ApartInv' /\ KeptInv'
    BY <2>1, NextInv, NextKeeps DEF CaseInv
  <2>4. ASSUME case \in Corrected
        PROVE  HomeInv(p1, case.skus)' /\ \A n \in case.inShop : StrayInv(p1, n)'
    <3>0. PICK K : K = case.skus
      OBVIOUS
    <3>1. case.team = {p1} /\ Disjoint(K) /\ \A n \in case.inShop : n \in Nat
      BY <2>4, <3>0, CorrectedCase
    <3>2. Quiet(p1) /\ Quiet(p1)'
      BY <2>1, <2>2, <3>1 DEF CaseInv, Within, Quiet
    <3>3. UNCHANGED vars \/ Users
          \/ StartFull(p1) \/ StartOne(p1) \/ Calls(p1) \/ Flushes(p1) \/ Failures(p1)
      BY <2>1, <3>2, QuietStep DEF CaseInv
    <3>4. /\ Inv /\ ApartInv /\ KeptInv /\ HomeInv(p1, K)
          /\ \A n \in case.inShop : StrayInv(p1, n)
      BY <2>4, <3>0 DEF CaseInv
    <3>5. \A o \in Products : odoo'[o] \in K[o] \cup {None}
      BY <2>1, <2>2, <3>0 DEF Within
    <3>6. HomeInv(p1, K)'
      BY <3>1, <3>3, <3>4, <3>5, NextHome
    <3>7. \A n \in case.inShop : StrayInv(p1, n)'
      BY <1>0, <3>1, <3>3, <3>4, NextStrays
    <3> QED
      BY <2>1, <3>0, <3>6, <3>7
  <2> QED
    BY <2>1, <2>2, <2>3, <2>4 DEF CaseInv
<1>3. CaseInv => AloneLeftoversExplained
  <2> SUFFICES ASSUME CaseInv, case \in Corrected, NEW n \in case.inShop
               PROVE  LeftoversExplained(n)
    BY ReplacedCase DEF CaseInv, AloneLeftoversExplained
  <2>1. n \in Nat /\ StrayInv(p1, n) /\ Inv
    BY CorrectedCase DEF CaseInv
  <2> QED
    BY <1>0, <2>1, StraysLeft
<1> QED
  BY <1>1, <1>2, <1>3, PTL DEF MCSpec
=============================================================================
