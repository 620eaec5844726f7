---------------------------- MODULE CustomerSync ----------------------------
(***************************************************************************)
(* CustomerSyncService.get_or_create_partner, as the first part of an      *)
(* order attempt: the customer of an order is looked up in the             *)
(* customer_mappings table, then in Odoo, then created; then a billing and *)
(* a shipping contact are found or created under it.                       *)
(*                                                                         *)
(* Each call to Odoo is a step.  The mapping row is flushed in the middle  *)
(* of the attempt and committed with the order at its end, so between the  *)
(* two it locks its email in the unique index.  _clear_parent_address and  *)
(* the state and country lookups change addresses only and swallow their   *)
(* errors; addresses are not modelled.  Definitions named ...Mutant are     *)
(* faults that no action uses.                                              *)
(***************************************************************************)
EXTENDS Naturals, FiniteSets

CONSTANTS Emails,      \* customers, by normalised email
          PartnerIds,  \* bound: the res.partner ids Odoo can give, in order
          Procs,       \* workers that run order attempts
          None         \* the absent id or email

ASSUME CustomerSyncAssumption ==
    /\ PartnerIds \subseteq Nat /\ IsFiniteSet(PartnerIds)
    /\ IsFiniteSet(Procs) /\ Procs # {}
    /\ None \notin PartnerIds /\ None \notin Emails

VARIABLES partners,    \* res.partner records in Odoo
          mapping,     \* customer_mappings, committed: mapping[e] is a partner id or None
          proc,        \* the attempt each worker is running
          booked       \* the partners of the orders whose attempt was committed

vars == <<partners, mapping, proc, booked>>

-----------------------------------------------------------------------------
ChildTypes == {"invoice", "delivery"}
Partner == [email : Emails \cup {None}, type : {"contact"} \cup ChildTypes,
            parent : PartnerIds \cup {None}]
NoPartner      == [email |-> None, type |-> "contact", parent |-> None]
Contact(e)     == [email |-> e, type |-> "contact", parent |-> None]
Child(par, ty) == [email |-> None, type |-> ty, parent |-> par]

PCs == {"idle", "search", "create_parent", "insert", "invoice", "create_invoice",
        "delivery", "create_delivery", "book"}
Proc == [pc : PCs, email : Emails \cup {None},
         parent : PartnerIds \cup {None},      \* partner_id
         invoice : PartnerIds \cup {None},     \* partner_invoice_id
         delivery : PartnerIds \cup {None},    \* partner_shipping_id
         inserted : BOOLEAN]                   \* its mapping row is flushed, not committed
Fresh(pc, e, par) == [pc |-> pc, email |-> e, parent |-> par, invoice |-> None,
                      delivery |-> None, inserted |-> FALSE]
Idle == Fresh("idle", None, None)
Booking == [email : Emails, parent : PartnerIds, invoice : PartnerIds, delivery : PartnerIds]

TypeOK ==
    /\ partners \in [PartnerIds -> Partner]
    /\ mapping \in [Emails -> PartnerIds \cup {None}]
    /\ proc \in [Procs -> Proc]
    /\ booked \subseteq Booking

At(p, pc)    == proc[p].pc = pc
Contacts(e)  == {q \in PartnerIds : partners[q] = Contact(e)}
Children(par, ty) == {q \in PartnerIds : partners[q] = Child(par, ty)}

\* Odoo may know some of the customers already, each once.
Used(q) == partners[q] # NoPartner
Init ==
    /\ partners \in [PartnerIds -> {NoPartner} \cup {Contact(e) : e \in Emails}]
    /\ \A q, r \in PartnerIds : r < q /\ Used(q) => Used(r)
    /\ \A e \in Emails : Cardinality(Contacts(e)) <= 1
    /\ mapping = [e \in Emails |-> None]
    /\ proc = [p \in Procs |-> Idle]
    /\ booked = {}

\* Odoo numbers its records in order.
Create(q, record) ==
    /\ ~Used(q) /\ \A r \in PartnerIds : r < q => Used(r)
    /\ partners' = [partners EXCEPT ![q] = record]

-----------------------------------------------------------------------------
(* _find_or_create_parent                                                  *)

\* customer_repo.get_by_email sees committed rows.
Begin(p, e) ==
    /\ At(p, "idle")
    /\ proc' = [proc EXCEPT ![p] =
                   Fresh(IF mapping[e] = None THEN "search" ELSE "invoice", e, mapping[e])]
    /\ UNCHANGED <<partners, mapping, booked>>

\* find_partner_by_email returns one contact of that email.
SearchFinds(p, q) ==
    /\ At(p, "search") /\ q \in Contacts(proc[p].email)
    /\ proc' = [proc EXCEPT ![p].pc = "insert", ![p].parent = q]
    /\ UNCHANGED <<partners, mapping, booked>>

\* Fault: the search misses what is there.
SearchFindsNoneMutant(p) ==
    /\ At(p, "search")
    /\ proc' = [proc EXCEPT ![p].pc = "create_parent"]
    /\ UNCHANGED <<partners, mapping, booked>>

SearchFindsNone(p) ==
    /\ At(p, "search") /\ Contacts(proc[p].email) = {}
    /\ proc' = [proc EXCEPT ![p].pc = "create_parent"]
    /\ UNCHANGED <<partners, mapping, booked>>

CreateParent(p, q) ==
    /\ At(p, "create_parent")
    /\ Create(q, Contact(proc[p].email))
    /\ proc' = [proc EXCEPT ![p].pc = "insert", ![p].parent = q]
    /\ UNCHANGED <<mapping, booked>>

\* customer_repo.create flushes the row.  It waits for the attempt that has
\* flushed a row with the same email or the same partner ...
Waits(p) ==
    \E r \in Procs \ {p} :
        /\ proc[r].inserted
        /\ proc[r].email = proc[p].email \/ proc[r].parent = proc[p].parent
InsertMapping(p) ==
    /\ At(p, "insert") /\ ~Waits(p)
    /\ mapping[proc[p].email] = None
    /\ \A e \in Emails : mapping[e] # proc[p].parent
    /\ proc' = [proc EXCEPT ![p].pc = "invoice", ![p].inserted = TRUE]
    /\ UNCHANGED <<partners, mapping, booked>>

\* Faults: the unique violation is swallowed; the insert is tried again and again.
InsertDuplicateSwallowedMutant(p) ==
    /\ At(p, "insert") /\ ~Waits(p)
    /\ mapping[proc[p].email] # None
    /\ proc' = [proc EXCEPT ![p].pc = "invoice"]
    /\ UNCHANGED <<partners, mapping, booked>>
InsertDuplicateRetriedMutant(p) ==
    /\ At(p, "insert") /\ ~Waits(p)
    /\ mapping[proc[p].email] # None
    /\ UNCHANGED vars

\* ... and violates a unique constraint if that attempt was committed.
InsertDuplicate(p) ==
    /\ At(p, "insert") /\ ~Waits(p)
    /\ mapping[proc[p].email] # None \/ \E e \in Emails : mapping[e] = proc[p].parent
    /\ proc' = [proc EXCEPT ![p] = Idle]
    /\ UNCHANGED <<partners, mapping, booked>>

-----------------------------------------------------------------------------
(* _get_or_create_child_contact, for the billing and then the shipping     *)
(* address: the first child found is updated, or one is created.           *)

\* Faults: the search does not look at the type; it misses what is there.
InvoiceFindsMutant(p, q) ==
    /\ At(p, "invoice") /\ \E ty \in ChildTypes : q \in Children(proc[p].parent, ty)
    /\ proc' = [proc EXCEPT ![p].pc = "delivery", ![p].invoice = q]
    /\ UNCHANGED <<partners, mapping, booked>>
InvoiceFindsNoneMutant(p) ==
    /\ At(p, "invoice")
    /\ proc' = [proc EXCEPT ![p].pc = "create_invoice"]
    /\ UNCHANGED <<partners, mapping, booked>>

InvoiceFinds(p, q) ==
    /\ At(p, "invoice") /\ q \in Children(proc[p].parent, "invoice")
    /\ proc' = [proc EXCEPT ![p].pc = "delivery", ![p].invoice = q]
    /\ UNCHANGED <<partners, mapping, booked>>

InvoiceFindsNone(p) ==
    /\ At(p, "invoice") /\ Children(proc[p].parent, "invoice") = {}
    /\ proc' = [proc EXCEPT ![p].pc = "create_invoice"]
    /\ UNCHANGED <<partners, mapping, booked>>

CreateInvoiceContact(p, q) ==
    /\ At(p, "create_invoice")
    /\ Create(q, Child(proc[p].parent, "invoice"))
    /\ proc' = [proc EXCEPT ![p].pc = "delivery", ![p].invoice = q]
    /\ UNCHANGED <<mapping, booked>>

DeliveryFinds(p, q) ==
    /\ At(p, "delivery") /\ q \in Children(proc[p].parent, "delivery")
    /\ proc' = [proc EXCEPT ![p].pc = "book", ![p].delivery = q]
    /\ UNCHANGED <<partners, mapping, booked>>

\* Fault: an order is booked without a shipping contact.
DeliveryFindsNoneMutant(p) ==
    /\ At(p, "delivery") /\ Children(proc[p].parent, "delivery") = {}
    /\ proc' = [proc EXCEPT ![p].pc = "book"]
    /\ UNCHANGED <<partners, mapping, booked>>

DeliveryFindsNone(p) ==
    /\ At(p, "delivery") /\ Children(proc[p].parent, "delivery") = {}
    /\ proc' = [proc EXCEPT ![p].pc = "create_delivery"]
    /\ UNCHANGED <<partners, mapping, booked>>

CreateDeliveryContact(p, q) ==
    /\ At(p, "create_delivery")
    /\ Create(q, Child(proc[p].parent, "delivery"))
    /\ proc' = [proc EXCEPT ![p].pc = "book", ![p].delivery = q]
    /\ UNCHANGED <<mapping, booked>>

-----------------------------------------------------------------------------
\* The rest of _process_order succeeds and commits, the mapping row with it.
Book(p) ==
    /\ At(p, "book")
    /\ mapping' = IF proc[p].inserted THEN [mapping EXCEPT ![proc[p].email] = proc[p].parent]
                  ELSE mapping
    /\ booked' = booked \cup {[email |-> proc[p].email, parent |-> proc[p].parent,
                               invoice |-> proc[p].invoice, delivery |-> proc[p].delivery]}
    /\ proc' = [proc EXCEPT ![p] = Idle]
    /\ UNCHANGED partners

\* A call to Odoo, the rest of the attempt or its commit fails, or the worker is
\* killed: the transaction is rolled back, and a retry begins anew.  What Odoo
\* has created stays there; an answer that is lost is a creation and then this.
Abandon(p) ==
    /\ ~At(p, "idle")
    /\ proc' = [proc EXCEPT ![p] = Idle]
    /\ UNCHANGED <<partners, mapping, booked>>

\* The steps an attempt takes when nothing fails.
Work(p) ==
    \/ SearchFindsNone(p) \/ InsertMapping(p) \/ InsertDuplicate(p)
    \/ InvoiceFindsNone(p) \/ DeliveryFindsNone(p)
    \/ \E q \in PartnerIds :
          \/ SearchFinds(p, q) \/ CreateParent(p, q)
          \/ InvoiceFinds(p, q) \/ CreateInvoiceContact(p, q)
          \/ DeliveryFinds(p, q) \/ CreateDeliveryContact(p, q)
    \/ Book(p)

Next ==
    \E p \in Procs :
        \/ \E e \in Emails : Begin(p, e)
        \/ Work(p)
        \/ Abandon(p)

Spec == Init /\ [][Next]_vars

\* A worker goes on with its attempt, and the database wakes the insert that waits
\* for a row when its holder ends.  No order has to arrive, nothing has to fail.
FairSpec ==
    /\ Spec
    /\ \A p \in Procs :
          /\ WF_vars(Work(p))
          /\ SF_vars(InsertMapping(p) \/ InsertDuplicate(p))
=============================================================================
