------------------------- MODULE CustomerSyncProps -------------------------
(***************************************************************************)
(* What the customer step of an order attempt should guarantee.            *)
(***************************************************************************)
EXTENDS CustomerSync

\* Odoo never holds more parent contacts of a customer than there are workers:
\* a worker creates one only after a search that found none, so all of them come
\* from one race, whatever is lost, retried or rolled back afterwards.  With one
\* worker it is customer_sync.py's "One parent customer (type=contact) is
\* created/found per email", under any failures.
ParentsBounded == \A e \in Emails : Cardinality(Contacts(e)) <= Cardinality(Procs)

\* The same holds for the billing and the shipping contacts of a parent.
ChildrenBounded ==
    \A par \in PartnerIds, ty \in ChildTypes :
        Cardinality(Children(par, ty)) <= Cardinality(Procs)

\* All orders of a customer are booked for one partner, the one its mapping names:
\* a worker that lost the race for the mapping does not book, although it has a
\* partner of its own by then.
BookedForMappedPartner ==
    \A b \in booked : mapping[b.email] = b.parent

\* The three partners of a booked order belong together: the parent is a contact
\* with the customer's email, the other two are its billing and shipping contacts
\* (customer_sync.py: "Sale Orders are assigned all three IDs explicitly").
PartnersBelongTogether ==
    \A b \in booked :
        /\ b.parent \in Contacts(b.email)
        /\ b.invoice \in Children(b.parent, "invoice")
        /\ b.delivery \in Children(b.parent, "delivery")

\* An attempt ends: those that wait for a mapping row are not left waiting.
AttemptEnds == \A p \in Procs : ~At(p, "idle") ~> At(p, "idle")
=============================================================================
