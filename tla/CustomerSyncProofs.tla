------------------------- MODULE CustomerSyncProofs -------------------------
(***************************************************************************)
(* Proofs about CustomerSync, for any customers and any number of workers. *)
(***************************************************************************)
EXTENDS CustomerSyncProps, FiniteSetTheorems, TLAPS

USE CustomerSyncAssumption

LEMMA InitType == Init => TypeOK
  BY DEF Init, TypeOK, Partner, NoPartner, Contact, Idle, Fresh, Proc, PCs, Booking

\* A created record is a partner, and no other record changes.
LEMMA CreateType ==
  ASSUME TypeOK, NEW q \in PartnerIds, NEW record \in Partner, Create(q, record)
  PROVE  partners' \in [PartnerIds -> Partner]
  BY DEF TypeOK, Create

\* Every record an attempt creates is well typed.
LEMMA RecordType ==
  /\ \A e \in Emails : Contact(e) \in Partner
  /\ \A par \in PartnerIds, ty \in ChildTypes : Child(par, ty) \in Partner
  BY DEF Contact, Child, Partner, ChildTypes

-----------------------------------------------------------------------------
(* Links: what the local variables of an attempt stand for.                *)

Searching == {"search", "create_parent"}
HasParent == {"insert", "invoice", "create_invoice", "delivery", "create_delivery", "book"}
Mapped    == {"invoice", "create_invoice", "delivery", "create_delivery", "book"}
HasInvoice == {"delivery", "create_delivery", "book"}

\* An attempt knows its customer, and the partners it holds are that customer's.
Holds(p) ==
    /\ proc[p].pc # "idle" => proc[p].email \in Emails
    /\ proc[p].pc \in HasParent =>
          /\ proc[p].parent \in PartnerIds
          /\ partners[proc[p].parent] = Contact(proc[p].email)
    /\ proc[p].pc \in HasInvoice =>
          /\ proc[p].invoice \in PartnerIds
          /\ partners[proc[p].invoice] = Child(proc[p].parent, "invoice")
    /\ proc[p].pc = "book" =>
          /\ proc[p].delivery \in PartnerIds
          /\ partners[proc[p].delivery] = Child(proc[p].parent, "delivery")

\* An attempt past the mapping step has flushed the only row for its customer, or
\* the committed row names its partner.
Owns(p) ==
    /\ proc[p].inserted => proc[p].pc \in Mapped /\ mapping[proc[p].email] = None
    /\ proc[p].pc \in Mapped /\ ~proc[p].inserted => mapping[proc[p].email] = proc[p].parent
Exclusive ==
    \A p, r \in Procs :
        p # r /\ proc[p].inserted /\ proc[r].inserted => proc[p].email # proc[r].email

Linked ==
    /\ \A e \in Emails : mapping[e] # None => partners[mapping[e]] = Contact(e)
    /\ \A p \in Procs : Holds(p) /\ Owns(p)
    /\ Exclusive

Inv == TypeOK /\ Linked /\ BookedForMappedPartner /\ PartnersBelongTogether

-----------------------------------------------------------------------------
LEMMA InitInv == Init => Inv
<1> SUFFICES ASSUME Init PROVE Inv
  OBVIOUS
<1>1. TypeOK
  BY InitType
<1>2. \A p \in Procs : proc[p].pc = "idle" /\ proc[p].inserted = FALSE
  BY DEF Init, Idle, Fresh
<1>3. Linked
  BY <1>2 DEF Init, Linked, Holds, Owns, Exclusive, HasParent, HasInvoice, Mapped
<1>4. booked = {}
  BY DEF Init
<1> QED
  BY <1>1, <1>3, <1>4 DEF Inv, BookedForMappedPartner, PartnersBelongTogether

\* A record, once created, is never changed.
LEMMA CreateKeeps ==
  ASSUME TypeOK, NEW q \in PartnerIds, NEW record, Create(q, record)
  PROVE  /\ \A r \in PartnerIds : Used(r) => partners'[r] = partners[r]
         /\ partners'[q] = record
  BY DEF TypeOK, Create, Used

LEMMA Distinct ==
  /\ \A e \in Emails : Contact(e) # NoPartner
  /\ \A par \in PartnerIds, ty \in ChildTypes : Child(par, ty) # NoPartner
  BY DEF Contact, Child, NoPartner

\* The directory only grows, which is all that the other attempts rely on.
Grows ==
    /\ partners' \in [PartnerIds -> Partner]
    /\ \A r \in PartnerIds : Used(r) => partners'[r] = partners[r]

LEMMA UnchangedGrows == TypeOK /\ UNCHANGED partners => Grows
  BY DEF TypeOK, Grows

LEMMA CreateGrows ==
  ASSUME TypeOK, NEW q \in PartnerIds, NEW record \in Partner, Create(q, record)
  PROVE  Grows /\ partners'[q] = record
  BY CreateType, CreateKeeps DEF Grows

\* What an attempt holds stays what it is while the directory grows.
LEMMA HoldsKept ==
  ASSUME TypeOK, Grows, NEW r \in Procs, Holds(r), proc'[r] = proc[r]
  PROVE  Holds(r)'
<1> USE DEF Holds
<1>1. \A x \in PartnerIds, e \in Emails : partners[x] = Contact(e) => partners'[x] = Contact(e)
  BY Distinct DEF Grows, Used
<1>2. \A x, y \in PartnerIds, ty \in ChildTypes :
         partners[x] = Child(y, ty) => partners'[x] = Child(y, ty)
  BY Distinct DEF Grows, Used
<1>3. "invoice" \in ChildTypes /\ "delivery" \in ChildTypes
  BY DEF ChildTypes
<1>4. proc[r].pc \in HasParent => proc[r].pc # "idle"
  BY DEF HasParent
<1>5. proc[r].pc \in HasInvoice \/ proc[r].pc = "book" => proc[r].pc \in HasParent
  BY DEF HasParent, HasInvoice
<1>6. proc[r].pc \in HasParent =>
        /\ proc[r].parent \in PartnerIds
        /\ partners'[proc[r].parent] = Contact(proc[r].email)
  BY <1>1, <1>4
<1>7. proc[r].pc \in HasInvoice =>
        /\ proc[r].invoice \in PartnerIds
        /\ partners'[proc[r].invoice] = Child(proc[r].parent, "invoice")
  BY <1>2, <1>3, <1>5, <1>6
<1>8. proc[r].pc = "book" =>
        /\ proc[r].delivery \in PartnerIds
        /\ partners'[proc[r].delivery] = Child(proc[r].parent, "delivery")
  BY <1>2, <1>3, <1>5, <1>6
<1> QED
  BY <1>6, <1>7, <1>8

LEMMA BookedKept ==
  ASSUME TypeOK, Grows, PartnersBelongTogether, booked' = booked
  PROVE  PartnersBelongTogether'
<1> SUFFICES ASSUME NEW b \in booked
             PROVE  /\ b.parent \in Contacts(b.email)'
                    /\ b.invoice \in Children(b.parent, "invoice")'
                    /\ b.delivery \in Children(b.parent, "delivery")'
  BY DEF PartnersBelongTogether
<1>1. b.email \in Emails /\ b.parent \in PartnerIds
  BY DEF TypeOK, Booking
<1>2. "invoice" \in ChildTypes /\ "delivery" \in ChildTypes
  BY DEF ChildTypes
<1>3. \A x \in PartnerIds : partners[x] = Contact(b.email) => partners'[x] = Contact(b.email)
  BY <1>1, Distinct DEF Grows, Used
<1>4. \A x \in PartnerIds, ty \in ChildTypes :
         partners[x] = Child(b.parent, ty) => partners'[x] = Child(b.parent, ty)
  BY <1>1, Distinct DEF Grows, Used
<1> QED
  BY <1>2, <1>3, <1>4 DEF PartnersBelongTogether, Contacts, Children

\* A step of one attempt that writes no row keeps the links of the others.
LEMMA LocalStep ==
  ASSUME Inv, NEW p \in Procs, Grows,
         proc'[p] \in Proc, proc' = [proc EXCEPT ![p] = proc'[p]],
         UNCHANGED <<mapping, booked>>,
         Holds(p)', Owns(p)',
         proc'[p].inserted => proc[p].inserted /\ proc'[p].email = proc[p].email
  PROVE  Inv'
<1> USE DEF Inv
<1>1. TypeOK'
  BY DEF TypeOK, Grows
<1>2. \A r \in Procs \ {p} : proc'[r] = proc[r]
  BY DEF TypeOK
<1>3. \A r \in Procs \ {p} : Holds(r)'
  BY <1>2, HoldsKept DEF Linked
<1>4. \A r \in Procs \ {p} : Owns(r)'
  BY <1>2 DEF Linked, Owns
<1>5. /\ Exclusive'
      /\ \A e \in Emails : mapping'[e] # None => partners'[mapping'[e]] = Contact(e)
  <2>1. Exclusive'
    BY <1>2 DEF Linked, Exclusive
  <2>2. \A e \in Emails : mapping[e] # None => mapping[e] \in PartnerIds
    BY DEF TypeOK
  <2> QED
    BY <2>1, <2>2, Distinct DEF Linked, Grows, Used
<1>6. BookedForMappedPartner'
  BY DEF BookedForMappedPartner
<1>7. PartnersBelongTogether'
  BY BookedKept
<1> QED
  BY <1>1, <1>3, <1>4, <1>5, <1>6, <1>7 DEF Linked

-----------------------------------------------------------------------------
(* One lemma per kind of step                                              *)

LEMMA EndStep ==
  ASSUME Inv, NEW p \in Procs, proc' = [proc EXCEPT ![p] = Idle],
         UNCHANGED <<partners, mapping, booked>>
  PROVE  Inv'
<1>1. proc'[p] = Idle /\ Idle \in Proc
  BY DEF Inv, TypeOK, Idle, Fresh, Proc, PCs
<1>2. Holds(p)' /\ Owns(p)' /\ ~proc'[p].inserted
  BY <1>1 DEF Holds, Owns, Idle, Fresh, HasParent, HasInvoice, Mapped
<1>3. Grows
  BY UnchangedGrows DEF Inv
<1> QED
  BY <1>1, <1>2, <1>3, LocalStep

LEMMA BeginStep ==
  ASSUME Inv, NEW p \in Procs, NEW e \in Emails, Begin(p, e)
  PROVE  Inv'
<1>1. proc'[p] = Fresh(IF mapping[e] = None THEN "search" ELSE "invoice", e, mapping[e])
  BY DEF Inv, TypeOK, Begin
<1>2. proc'[p] \in Proc
  BY <1>1 DEF Inv, TypeOK, Fresh, Proc, PCs
<1>3. CASE mapping[e] = None
  <2>1. Holds(p)' /\ Owns(p)' /\ ~proc'[p].inserted
    BY <1>1, <1>3 DEF Holds, Owns, Fresh, HasParent, HasInvoice, Mapped
  <2> QED
    BY <1>1, <1>2, <2>1, LocalStep, UnchangedGrows DEF Begin, Inv
<1>4. CASE mapping[e] # None
  <2>1. mapping[e] \in PartnerIds /\ partners[mapping[e]] = Contact(e)
    BY <1>4 DEF Inv, TypeOK, Linked
  <2>2. Holds(p)' /\ Owns(p)' /\ ~proc'[p].inserted
    BY <1>1, <1>4, <2>1 DEF Holds, Owns, Fresh, HasParent, HasInvoice, Mapped, Begin
  <2> QED
    BY <1>1, <1>2, <2>2, LocalStep, UnchangedGrows DEF Begin, Inv
<1> QED
  BY <1>3, <1>4

LEMMA SearchStep ==
  ASSUME Inv, NEW p \in Procs,
         SearchFindsNone(p) \/ \E q \in PartnerIds : SearchFinds(p, q)
  PROVE  Inv'
<1>1. Grows
  BY UnchangedGrows DEF Inv, SearchFindsNone, SearchFinds
<1>2. CASE SearchFindsNone(p)
  <2>1. proc'[p] = [proc[p] EXCEPT !.pc = "create_parent"]
    BY <1>2 DEF Inv, TypeOK, SearchFindsNone
  <2>2. proc'[p] \in Proc
    BY <2>1 DEF Inv, TypeOK, Proc, PCs
  <2>3. Holds(p)' /\ Owns(p)'
    BY <1>2, <2>1, <2>2 DEF Inv, TypeOK, Linked, Holds, Owns, HasParent, HasInvoice, Mapped,
                            SearchFindsNone, At, Proc
  <2> QED
    BY <1>1, <1>2, <2>1, <2>2, <2>3, LocalStep DEF SearchFindsNone, Inv, TypeOK, Proc
<1>3. CASE \E q \in PartnerIds : SearchFinds(p, q)
  <2>1. PICK q \in PartnerIds : SearchFinds(p, q)
    BY <1>3
  <2>2. proc'[p] = [proc[p] EXCEPT !.pc = "insert", !.parent = q]
    BY <2>1 DEF Inv, TypeOK, SearchFinds
  <2>3. proc'[p] \in Proc
    BY <2>2 DEF Inv, TypeOK, Proc, PCs
  <2>4. Holds(p)' /\ Owns(p)'
    BY <2>1, <2>2, <2>3 DEF Inv, TypeOK, Linked, Holds, Owns, HasParent, HasInvoice, Mapped,
                            SearchFinds, At, Proc, Contacts
  <2> QED
    BY <1>1, <2>1, <2>2, <2>3, <2>4, LocalStep DEF SearchFinds, Inv, TypeOK, Proc
<1> QED
  BY <1>2, <1>3

LEMMA CreateParentStep ==
  ASSUME Inv, NEW p \in Procs, NEW q \in PartnerIds, CreateParent(p, q)
  PROVE  Inv'
<1>1. proc[p].email \in Emails
  BY DEF Inv, Linked, Holds, CreateParent, At
<1>2. Grows /\ partners'[q] = Contact(proc[p].email)
  BY <1>1, RecordType, CreateGrows DEF CreateParent, Inv
<1>3. proc'[p] = [proc[p] EXCEPT !.pc = "insert", !.parent = q]
  BY DEF Inv, TypeOK, CreateParent
<1>4. proc'[p] \in Proc
  BY <1>3 DEF Inv, TypeOK, Proc, PCs
<1>5. Holds(p)' /\ Owns(p)'
  BY <1>1, <1>2, <1>3, <1>4 DEF Inv, TypeOK, Linked, Holds, Owns, HasParent, HasInvoice, Mapped,
                                CreateParent, At, Proc
<1> QED
  BY <1>2, <1>3, <1>4, <1>5, LocalStep DEF CreateParent, Inv, TypeOK, Proc

LEMMA InvoiceFindStep ==
  ASSUME Inv, NEW p \in Procs, NEW q \in PartnerIds, InvoiceFinds(p, q)
  PROVE  Inv'
<1>1. Grows
  BY UnchangedGrows DEF Inv, InvoiceFinds
<1>2. proc'[p] = [proc[p] EXCEPT !.pc = "delivery", !.invoice = q]
  BY DEF Inv, TypeOK, InvoiceFinds
<1>3. proc'[p] \in Proc
  BY <1>2 DEF Inv, TypeOK, Proc, PCs
<1>4. Holds(p)' /\ Owns(p)'
  BY <1>2, <1>3 DEF Inv, TypeOK, Linked, Holds, Owns, HasParent, HasInvoice, Mapped,
                    InvoiceFinds, At, Proc, Children
<1> QED
  BY <1>1, <1>2, <1>3, <1>4, LocalStep DEF InvoiceFinds, Inv, TypeOK, Proc

LEMMA InvoiceFindNoneStep ==
  ASSUME Inv, NEW p \in Procs, InvoiceFindsNone(p)
  PROVE  Inv'
<1>1. Grows
  BY UnchangedGrows DEF Inv, InvoiceFindsNone
<1>2. proc'[p] = [proc[p] EXCEPT !.pc = "create_invoice"]
  BY DEF Inv, TypeOK, InvoiceFindsNone
<1>3. proc'[p] \in Proc
  BY <1>2 DEF Inv, TypeOK, Proc, PCs
<1>4. Holds(p)' /\ Owns(p)'
  BY <1>2, <1>3 DEF Inv, TypeOK, Linked, Holds, Owns, HasParent, HasInvoice, Mapped,
                    InvoiceFindsNone, At, Proc
<1> QED
  BY <1>1, <1>2, <1>3, <1>4, LocalStep DEF InvoiceFindsNone, Inv, TypeOK, Proc

LEMMA CreateInvoiceStep ==
  ASSUME Inv, NEW p \in Procs, NEW q \in PartnerIds, CreateInvoiceContact(p, q)
  PROVE  Inv'
<1>1. proc[p].parent \in PartnerIds /\ partners[proc[p].parent] = Contact(proc[p].email)
  BY DEF Inv, Linked, Holds, HasParent, CreateInvoiceContact, At
<1>2. Child(proc[p].parent, "invoice") \in Partner
  BY <1>1, RecordType DEF ChildTypes
<1>3. Grows /\ partners'[q] = Child(proc[p].parent, "invoice")
  BY <1>2, CreateGrows DEF CreateInvoiceContact, Inv
<1>4. partners'[proc[p].parent] = Contact(proc[p].email)
  <2>1. proc[p].email \in Emails
    BY DEF Inv, Linked, Holds, CreateInvoiceContact, At
  <2> QED
    BY <1>1, <1>3, <2>1, Distinct DEF Grows, Used
<1>5. proc'[p] = [proc[p] EXCEPT !.pc = "delivery", !.invoice = q]
  BY DEF Inv, TypeOK, CreateInvoiceContact
<1>6. proc'[p] \in Proc
  BY <1>5 DEF Inv, TypeOK, Proc, PCs
<1>7. Holds(p)' /\ Owns(p)'
  BY <1>1, <1>3, <1>4, <1>5, <1>6 DEF Inv, TypeOK, Linked, Holds, Owns, HasParent, HasInvoice,
                                      Mapped, CreateInvoiceContact, At, Proc
<1> QED
  BY <1>3, <1>5, <1>6, <1>7, LocalStep DEF CreateInvoiceContact, Inv, TypeOK, Proc

LEMMA DeliveryFindStep ==
  ASSUME Inv, NEW p \in Procs, NEW q \in PartnerIds, DeliveryFinds(p, q)
  PROVE  Inv'
<1>1. Grows
  BY UnchangedGrows DEF Inv, DeliveryFinds
<1>2. proc'[p] = [proc[p] EXCEPT !.pc = "book", !.delivery = q]
  BY DEF Inv, TypeOK, DeliveryFinds
<1>3. proc'[p] \in Proc
  BY <1>2 DEF Inv, TypeOK, Proc, PCs
<1>4. Holds(p)' /\ Owns(p)'
  BY <1>2, <1>3 DEF Inv, TypeOK, Linked, Holds, Owns, HasParent, HasInvoice, Mapped,
                    DeliveryFinds, At, Proc, Children
<1> QED
  BY <1>1, <1>2, <1>3, <1>4, LocalStep DEF DeliveryFinds, Inv, TypeOK, Proc

LEMMA DeliveryFindNoneStep ==
  ASSUME Inv, NEW p \in Procs, DeliveryFindsNone(p)
  PROVE  Inv'
<1>1. Grows
  BY UnchangedGrows DEF Inv, DeliveryFindsNone
<1>2. proc'[p] = [proc[p] EXCEPT !.pc = "create_delivery"]
  BY DEF Inv, TypeOK, DeliveryFindsNone
<1>3. proc'[p] \in Proc
  BY <1>2 DEF Inv, TypeOK, Proc, PCs
<1>4. Holds(p)' /\ Owns(p)'
  BY <1>2, <1>3 DEF Inv, TypeOK, Linked, Holds, Owns, HasParent, HasInvoice, Mapped,
                    DeliveryFindsNone, At, Proc
<1> QED
  BY <1>1, <1>2, <1>3, <1>4, LocalStep DEF DeliveryFindsNone, Inv, TypeOK, Proc

LEMMA CreateDeliveryStep ==
  ASSUME Inv, NEW p \in Procs, NEW q \in PartnerIds, CreateDeliveryContact(p, q)
  PROVE  Inv'
<1>1. proc[p].parent \in PartnerIds /\ partners[proc[p].parent] = Contact(proc[p].email)
  BY DEF Inv, Linked, Holds, HasParent, CreateDeliveryContact, At
<1>2. Child(proc[p].parent, "delivery") \in Partner
  BY <1>1, RecordType DEF ChildTypes
<1>3. Grows /\ partners'[q] = Child(proc[p].parent, "delivery")
  BY <1>2, CreateGrows DEF CreateDeliveryContact, Inv
<1>4. partners'[proc[p].parent] = Contact(proc[p].email)
  <2>1. proc[p].email \in Emails
    BY DEF Inv, Linked, Holds, CreateDeliveryContact, At
  <2> QED
    BY <1>1, <1>3, <2>1, Distinct DEF Grows, Used
<1>5. proc'[p] = [proc[p] EXCEPT !.pc = "book", !.delivery = q]
  BY DEF Inv, TypeOK, CreateDeliveryContact
<1>6. proc'[p] \in Proc
  BY <1>5 DEF Inv, TypeOK, Proc, PCs
<1>7. /\ proc[p].invoice \in PartnerIds
      /\ partners'[proc[p].invoice] = Child(proc[p].parent, "invoice")
  <2>1. /\ proc[p].invoice \in PartnerIds
        /\ partners[proc[p].invoice] = Child(proc[p].parent, "invoice")
    BY DEF Inv, Linked, Holds, HasInvoice, CreateDeliveryContact, At
  <2>2. "invoice" \in ChildTypes
    BY DEF ChildTypes
  <2> QED
    BY <1>1, <1>3, <2>1, <2>2, Distinct DEF Grows, Used
<1>8. Holds(p)' /\ Owns(p)'
  BY <1>1, <1>3, <1>4, <1>5, <1>6, <1>7 DEF Inv, TypeOK, Linked, Holds, Owns, HasParent,
                                     HasInvoice, Mapped, CreateDeliveryContact, At, Proc
<1> QED
  BY <1>3, <1>5, <1>6, <1>8, LocalStep DEF CreateDeliveryContact, Inv, TypeOK, Proc

\* The row is flushed only when no other attempt holds one for this customer.
LEMMA InsertStep ==
  ASSUME Inv, NEW p \in Procs, InsertMapping(p)
  PROVE  Inv'
<1> USE DEF Inv
<1>1. Grows
  BY UnchangedGrows DEF InsertMapping
<1>2. proc'[p] = [proc[p] EXCEPT !.pc = "invoice", !.inserted = TRUE]
  BY DEF TypeOK, InsertMapping
<1>3. proc'[p] \in Proc
  BY <1>2 DEF TypeOK, Proc, PCs
<1>4. Holds(p)' /\ Owns(p)'
  BY <1>2, <1>3 DEF TypeOK, Linked, Holds, Owns, HasParent, HasInvoice, Mapped,
                    InsertMapping, At, Proc
<1>5. \A r \in Procs \ {p} : proc'[r] = proc[r]
  BY DEF TypeOK, InsertMapping
<1>6. Exclusive'
  BY <1>2, <1>3, <1>5 DEF TypeOK, Linked, Exclusive, InsertMapping, Waits, Proc
<1>7. \A r \in Procs \ {p} : Holds(r)'
  BY <1>1, <1>5, HoldsKept DEF Linked
<1>8. \A r \in Procs \ {p} : Owns(r)'
  BY <1>5 DEF Linked, Owns, InsertMapping
<1>9. TypeOK'
  BY <1>1, <1>3 DEF TypeOK, Grows, InsertMapping
<1>10. BookedForMappedPartner' /\ PartnersBelongTogether'
  BY <1>1, BookedKept DEF BookedForMappedPartner, InsertMapping
<1>11. \A e \in Emails : mapping'[e] # None => partners'[mapping'[e]] = Contact(e)
  BY DEF Linked, InsertMapping
<1> QED
  BY <1>4, <1>6, <1>7, <1>8, <1>9, <1>10, <1>11 DEF Linked

\* The commit: the row appears in the table with the booking it belongs to.
LEMMA BookStep ==
  ASSUME Inv, NEW p \in Procs, Book(p)
  PROVE  Inv'
<1> DEFINE e == proc[p].email
           b == [email |-> e, parent |-> proc[p].parent,
                 invoice |-> proc[p].invoice, delivery |-> proc[p].delivery]
<1> USE DEF Inv
<1>1. /\ e \in Emails
      /\ proc[p].parent \in PartnerIds /\ partners[proc[p].parent] = Contact(e)
      /\ proc[p].invoice \in PartnerIds
      /\ partners[proc[p].invoice] = Child(proc[p].parent, "invoice")
      /\ proc[p].delivery \in PartnerIds
      /\ partners[proc[p].delivery] = Child(proc[p].parent, "delivery")
  BY DEF Linked, Holds, HasParent, HasInvoice, Book, At
<1>2. IF proc[p].inserted THEN mapping[e] = None ELSE mapping[e] = proc[p].parent
  BY DEF Linked, Owns, Mapped, Book, At
<1>3. mapping' \in [Emails -> PartnerIds \cup {None}] /\ mapping'[e] = proc[p].parent
  BY <1>1, <1>2 DEF TypeOK, Book
<1>4. \A f \in Emails : mapping[f] # None => mapping'[f] = mapping[f]
  BY <1>2 DEF TypeOK, Book
<1>5. \A f \in Emails \ {e} : mapping'[f] = mapping[f]
  BY DEF TypeOK, Book
<1>6. b \in Booking /\ booked' = booked \cup {b}
  BY <1>1 DEF Booking, Book
<1>7. proc'[p] = Idle /\ Idle \in Proc /\ \A r \in Procs \ {p} : proc'[r] = proc[r]
  BY DEF TypeOK, Book, Idle, Fresh, Proc, PCs
<1>8. TypeOK'
  <2>1. proc' \in [Procs -> Proc]
    BY <1>7 DEF TypeOK, Book
  <2> QED
    BY <1>3, <1>6, <2>1 DEF TypeOK, Book
<1>9. Grows
  BY UnchangedGrows DEF Book
<1>10. \A r \in Procs : Holds(r)'
  BY <1>7, <1>9, HoldsKept DEF Linked, Holds, Idle, Fresh, HasParent, HasInvoice
<1>11. \A r \in Procs : Owns(r)'
  <2>1. Owns(p)'
    BY <1>7 DEF Owns, Idle, Fresh, Mapped
  <2>2. ASSUME NEW r \in Procs \ {p} PROVE Owns(r)'
    <3>1. Owns(r) /\ Holds(r) /\ proc'[r] = proc[r]
      BY <1>7 DEF Linked
    <3>2. CASE proc[r].inserted
      <4>1. proc[r].email \in Emails /\ mapping[proc[r].email] = None /\ proc[r].pc \in Mapped
        BY <3>1, <3>2 DEF Owns, Holds, Mapped
      <4>2. proc[r].email # e \/ ~proc[p].inserted
        BY <3>2 DEF Linked, Exclusive
      <4>3. proc[r].email # e
        BY <1>1, <1>2, <4>1, <4>2 DEF TypeOK
      <4> QED
        BY <1>5, <3>1, <3>2, <4>1, <4>3 DEF Owns
    <3>3. CASE ~proc[r].inserted /\ proc[r].pc \in Mapped
      <4>1. proc[r].email \in Emails /\ proc[r].parent \in PartnerIds
        BY <3>1, <3>3 DEF Holds, Mapped, HasParent
      <4>2. mapping[proc[r].email] = proc[r].parent
        BY <3>1, <3>3 DEF Owns
      <4>3. mapping'[proc[r].email] = proc[r].parent
        BY <1>4, <4>1, <4>2
      <4> QED
        BY <3>1, <3>3, <4>3 DEF Owns
    <3>4. CASE ~proc[r].inserted /\ proc[r].pc \notin Mapped
      BY <3>1, <3>4 DEF Owns
    <3> QED
      BY <3>2, <3>3, <3>4
  <2> QED
    BY <2>1, <2>2
<1>12. Exclusive'
  BY <1>7 DEF Linked, Exclusive, Idle, Fresh
<1>13. \A f \in Emails : mapping'[f] # None => partners'[mapping'[f]] = Contact(f)
  BY <1>1, <1>3, <1>5 DEF Linked, Book
<1>14. BookedForMappedPartner'
  <2>1. \A c \in booked : c.email \in Emails /\ c.parent \in PartnerIds
    BY DEF TypeOK, Booking
  <2>2. \A c \in booked : mapping'[c.email] = c.parent
    BY <1>4, <2>1 DEF BookedForMappedPartner
  <2> QED
    BY <1>3, <1>6, <2>2 DEF BookedForMappedPartner
<1>15. PartnersBelongTogether'
  BY <1>1, <1>6 DEF PartnersBelongTogether, Contacts, Children, Book
<1> QED
  BY <1>8, <1>10, <1>11, <1>12, <1>13, <1>14, <1>15 DEF Linked

LEMMA NextInv == Inv /\ [Next]_vars => Inv'
<1> SUFFICES ASSUME Inv, [Next]_vars PROVE Inv'
  OBVIOUS
<1>1. CASE UNCHANGED vars
  BY <1>1 DEF vars, Inv, TypeOK, Linked, Holds, Owns, Exclusive, BookedForMappedPartner,
              PartnersBelongTogether, Contacts, Children
<1>2. ASSUME NEW p \in Procs, NEW e \in Emails, Begin(p, e) PROVE Inv'
  BY <1>2, BeginStep
<1>3. ASSUME NEW p \in Procs, Abandon(p) PROVE Inv'
  BY <1>3, EndStep DEF Abandon
<1>4. ASSUME NEW p \in Procs, Work(p) PROVE Inv'
  <2>1. CASE SearchFindsNone(p) \/ \E q \in PartnerIds : SearchFinds(p, q)
    BY <2>1, SearchStep
  <2>2. CASE InsertMapping(p)
    BY <2>2, InsertStep
  <2>3. CASE InsertDuplicate(p)
    BY <2>3, EndStep DEF InsertDuplicate
  <2>4. CASE InvoiceFindsNone(p) \/ DeliveryFindsNone(p)
    BY <2>4, InvoiceFindNoneStep, DeliveryFindNoneStep
  <2>5. CASE \E q \in PartnerIds : CreateParent(p, q)
    BY <2>5, CreateParentStep
  <2>6. CASE \E q \in PartnerIds : InvoiceFinds(p, q) \/ CreateInvoiceContact(p, q)
    BY <2>6, InvoiceFindStep, CreateInvoiceStep
  <2>7. CASE \E q \in PartnerIds : DeliveryFinds(p, q) \/ CreateDeliveryContact(p, q)
    BY <2>7, DeliveryFindStep, CreateDeliveryStep
  <2>8. CASE Book(p)
    BY <2>8, BookStep
  <2> QED
    BY <1>4, <2>1, <2>2, <2>3, <2>4, <2>5, <2>6, <2>7, <2>8 DEF Work
<1> QED
  BY <1>1, <1>2, <1>3, <1>4 DEF Next

\* Types, and what the local variables of every attempt stand for, hold always.
THEOREM InvHolds == Spec => []Inv
  BY InitInv, NextInv, PTL DEF Spec

\* Every reachable state is well typed.
THEOREM TypeCorrect == Spec => []TypeOK
<1>1. Inv => TypeOK
  BY DEF Inv
<1> QED
  BY <1>1, InvHolds, PTL

\* All orders of a customer are booked for the one partner the mapping names.
THEOREM BookedOnce == Spec => []BookedForMappedPartner
<1>1. Inv => BookedForMappedPartner
  BY DEF Inv
<1> QED
  BY <1>1, InvHolds, PTL

\* The three partners of a booked order are one customer's.
THEOREM BookedTogether == Spec => []PartnersBelongTogether
<1>1. Inv => PartnersBelongTogether
  BY DEF Inv
<1> QED
  BY <1>1, InvHolds, PTL

-----------------------------------------------------------------------------
(* How many contacts: those that exist, and the attempts about to create   *)
(* one, are together no more than the workers.  An attempt joins the       *)
(* second group only when the first is empty; creating a contact moves it  *)
(* from the second to the first.                                           *)

LEMMA BudgetShrinks ==
  ASSUME NEW C, NEW W, NEW V, IsFiniteSet(C), IsFiniteSet(W), V \subseteq W, NEW n \in Nat,
         Cardinality(C) + Cardinality(W) <= n
  PROVE  Cardinality(C) + Cardinality(V) <= n
<1>1. Cardinality(V) <= Cardinality(W) /\ IsFiniteSet(V)
  BY FS_Subset
<1>2. Cardinality(C) \in Nat /\ Cardinality(W) \in Nat /\ Cardinality(V) \in Nat
  BY <1>1, FS_CardinalityType
<1> QED
  BY <1>1, <1>2

LEMMA BudgetMoves ==
  ASSUME NEW C, NEW W, IsFiniteSet(C), IsFiniteSet(W), NEW q, q \notin C, NEW p \in W,
         NEW n \in Nat, Cardinality(C) + Cardinality(W) <= n
  PROVE  Cardinality(C \cup {q}) + Cardinality(W \ {p}) <= n
<1>1. Cardinality(C \cup {q}) = Cardinality(C) + 1
  BY FS_AddElement
<1>2. Cardinality(W \ {p}) = Cardinality(W) - 1
  BY FS_RemoveElement
<1>3. Cardinality(C) \in Nat /\ Cardinality(W) \in Nat
  BY FS_CardinalityType
<1> QED
  BY <1>1, <1>2, <1>3

LEMMA BudgetOpens ==
  ASSUME NEW V, V \subseteq Procs
  PROVE  Cardinality({}) + Cardinality(V) <= Cardinality(Procs)
<1>1. Cardinality(V) <= Cardinality(Procs) /\ IsFiniteSet(V)
  BY FS_Subset
<1>2. Cardinality({}) = 0
  BY FS_EmptySet
<1> QED
  BY <1>1, <1>2, FS_CardinalityType

Creating(e) == {p \in Procs : proc[p].pc = "create_parent" /\ proc[p].email = e}
ParentBudget ==
    \A e \in Emails : Cardinality(Contacts(e)) + Cardinality(Creating(e)) <= Cardinality(Procs)

LEMMA BudgetFinite ==
  /\ \A e : IsFiniteSet(Contacts(e)) /\ IsFiniteSet(Creating(e))
  /\ Cardinality(Procs) \in Nat
  BY FS_Subset, FS_CardinalityType DEF Contacts, Creating

LEMMA InitParents == Init => ParentBudget
<1> SUFFICES ASSUME Init, NEW e \in Emails
             PROVE  Cardinality(Contacts(e)) + Cardinality(Creating(e)) <= Cardinality(Procs)
  BY DEF ParentBudget
<1>1. Creating(e) = {}
  BY DEF Init, Creating, Idle, Fresh
<1>2. Cardinality(Contacts(e)) <= 1
  BY DEF Init
<1>3. Cardinality(Procs) # 0
  BY FS_EmptySet
<1> QED
  BY <1>1, <1>2, <1>3, BudgetFinite, FS_EmptySet, FS_CardinalityType

\* A contact appears only by CreateParent.
LEMMA ContactsKept ==
  ASSUME TypeOK, NEW e \in Emails, NEW q \in PartnerIds, NEW record, record # Contact(e),
         Create(q, record)
  PROVE  Contacts(e)' = Contacts(e)
  BY Distinct DEF Create, Used, Contacts, TypeOK

LEMMA ChildIsNoContact ==
  \A e \in Emails, par \in PartnerIds, ty \in ChildTypes : Child(par, ty) # Contact(e)
  BY DEF Child, Contact

LEMMA NextParents == Inv /\ ParentBudget /\ [Next]_vars => ParentBudget'
<1> SUFFICES ASSUME Inv, ParentBudget, [Next]_vars, NEW e \in Emails
             PROVE  (Cardinality(Contacts(e)) + Cardinality(Creating(e)) <= Cardinality(Procs))'
  BY DEF ParentBudget
<1>1. Cardinality(Contacts(e)) + Cardinality(Creating(e)) <= Cardinality(Procs)
  BY DEF ParentBudget
<1>2. ASSUME Contacts(e)' = Contacts(e), Creating(e)' \subseteq Creating(e)
      PROVE  (Cardinality(Contacts(e)) + Cardinality(Creating(e)) <= Cardinality(Procs))'
  BY <1>1, <1>2, BudgetFinite, BudgetShrinks
<1>3. CASE UNCHANGED vars
  BY <1>1, <1>3 DEF vars, Contacts, Creating
<1>4. ASSUME NEW p \in Procs, NEW f \in Emails, Begin(p, f) PROVE Creating(e)' \subseteq Creating(e)
  BY <1>4 DEF Inv, TypeOK, Begin, Fresh, Creating
<1>5. ASSUME NEW p \in Procs, proc' = [proc EXCEPT ![p] = Idle]
      PROVE  Creating(e)' \subseteq Creating(e)
  BY <1>5 DEF Inv, TypeOK, Idle, Fresh, Creating
<1>6. ASSUME NEW p \in Procs, SearchFindsNone(p)
      PROVE  (Cardinality(Contacts(e)) + Cardinality(Creating(e)) <= Cardinality(Procs))'
  <2>1. Contacts(e)' = Contacts(e)
    BY <1>6 DEF SearchFindsNone, Contacts
  <2>2. CASE proc[p].email = e
    <3>1. Contacts(e)' = {}
      BY <1>6, <2>1, <2>2 DEF SearchFindsNone
    <3>2. Creating(e)' \subseteq Procs
      BY DEF Creating
    <3> QED
      BY <3>1, <3>2, BudgetOpens
  <2>3. CASE proc[p].email # e
    <3>1. Creating(e)' \subseteq Creating(e)
      BY <1>6, <2>3 DEF Inv, TypeOK, SearchFindsNone, Creating, Proc
    <3> QED
      BY <1>2, <2>1, <3>1
  <2> QED
    BY <2>2, <2>3
<1>7. ASSUME NEW p \in Procs, NEW q \in PartnerIds, CreateParent(p, q)
      PROVE  (Cardinality(Contacts(e)) + Cardinality(Creating(e)) <= Cardinality(Procs))'
  <2>1. CASE proc[p].email = e
    <3>1. p \in Creating(e) /\ Creating(e)' = Creating(e) \ {p}
      BY <1>7, <2>1 DEF Inv, TypeOK, CreateParent, At, Creating, Proc
    <3>2. q \notin Contacts(e) /\ Contacts(e)' = Contacts(e) \cup {q}
      BY <1>7, <2>1, Distinct DEF Inv, TypeOK, CreateParent, Create, Used, Contacts
    <3> QED
      BY <1>1, <3>1, <3>2, BudgetMoves, BudgetFinite
  <2>2. CASE proc[p].email # e
    <3>1. Contact(proc[p].email) # Contact(e)
      BY <2>2 DEF Contact
    <3>2. Contacts(e)' = Contacts(e)
      BY <1>7, <3>1, ContactsKept DEF CreateParent, Inv
    <3>3. Creating(e)' \subseteq Creating(e)
      BY <1>7, <2>2 DEF Inv, TypeOK, CreateParent, Creating, Proc
    <3> QED
      BY <1>2, <3>2, <3>3
  <2> QED
    BY <2>1, <2>2
<1>8. ASSUME NEW p \in Procs, NEW q \in PartnerIds,
             CreateInvoiceContact(p, q) \/ CreateDeliveryContact(p, q)
      PROVE  Contacts(e)' = Contacts(e) /\ Creating(e)' \subseteq Creating(e)
  <2>1. proc[p].parent \in PartnerIds
    BY <1>8 DEF Inv, Linked, Holds, HasParent, CreateInvoiceContact, CreateDeliveryContact, At
  <2>2. Contacts(e)' = Contacts(e)
    BY <1>8, <2>1, ContactsKept, ChildIsNoContact
       DEF Inv, CreateInvoiceContact, CreateDeliveryContact, ChildTypes
  <2>3. Creating(e)' \subseteq Creating(e)
    BY <1>8 DEF Inv, TypeOK, CreateInvoiceContact, CreateDeliveryContact, Creating, Proc
  <2> QED
    BY <2>2, <2>3
<1>9. ASSUME NEW p \in Procs, NEW q \in PartnerIds,
             SearchFinds(p, q) \/ InvoiceFinds(p, q) \/ DeliveryFinds(p, q)
      PROVE  Contacts(e)' = Contacts(e) /\ Creating(e)' \subseteq Creating(e)
  BY <1>9 DEF Inv, TypeOK, SearchFinds, InvoiceFinds, DeliveryFinds, Creating, Contacts, Proc
<1>10. ASSUME NEW p \in Procs,
              InsertMapping(p) \/ InvoiceFindsNone(p) \/ DeliveryFindsNone(p)
      PROVE  Contacts(e)' = Contacts(e) /\ Creating(e)' \subseteq Creating(e)
  BY <1>10 DEF Inv, TypeOK, InsertMapping, InvoiceFindsNone, DeliveryFindsNone, Creating,
               Contacts, Proc
<1>11. ASSUME NEW p \in Procs, Book(p) \/ Abandon(p) \/ InsertDuplicate(p)
       PROVE  Contacts(e)' = Contacts(e) /\ Creating(e)' \subseteq Creating(e)
  BY <1>5, <1>11 DEF Book, Abandon, InsertDuplicate, Contacts
<1>12. ASSUME NEW p \in Procs, Work(p)
       PROVE  (Cardinality(Contacts(e)) + Cardinality(Creating(e)) <= Cardinality(Procs))'
  BY <1>2, <1>6, <1>7, <1>8, <1>9, <1>10, <1>11, <1>12 DEF Work
<1>13. ASSUME NEW p \in Procs, NEW f \in Emails, Begin(p, f)
       PROVE  (Cardinality(Contacts(e)) + Cardinality(Creating(e)) <= Cardinality(Procs))'
  <2>1. Contacts(e)' = Contacts(e)
    BY <1>13 DEF Begin, Contacts
  <2> QED
    BY <1>2, <1>4, <1>13, <2>1
<1> QED
  BY <1>2, <1>3, <1>11, <1>12, <1>13 DEF Next

\* Odoo never holds more parent contacts of a customer than there are workers.
THEOREM ParentsNeverMany == Spec => []ParentsBounded
<1>1. Inv /\ ParentBudget => ParentsBounded
  <2> SUFFICES ASSUME ParentBudget, NEW e \in Emails
               PROVE  Cardinality(Contacts(e)) <= Cardinality(Procs)
    BY DEF ParentsBounded
  <2>1. Cardinality(Contacts(e)) + Cardinality(Creating(e)) <= Cardinality(Procs)
    BY DEF ParentBudget
  <2> QED
    BY <2>1, BudgetFinite, FS_CardinalityType
<1>2. Init => Inv /\ ParentBudget
  BY InitInv, InitParents
<1>3. Inv /\ ParentBudget /\ [Next]_vars => (Inv /\ ParentBudget)'
  BY NextInv, NextParents
<1> QED
  BY <1>1, <1>2, <1>3, PTL DEF Spec

-----------------------------------------------------------------------------
(* The same budget for the children of a parent.                           *)

Making(par, ty) ==
    {p \in Procs : /\ proc[p].pc = (IF ty = "invoice" THEN "create_invoice" ELSE "create_delivery")
                   /\ proc[p].parent = par}
ChildBudget ==
    \A par \in PartnerIds, ty \in ChildTypes :
        Cardinality(Children(par, ty)) + Cardinality(Making(par, ty)) <= Cardinality(Procs)

LEMMA ChildBudgetFinite ==
  \A par, ty : IsFiniteSet(Children(par, ty)) /\ IsFiniteSet(Making(par, ty))
  BY FS_Subset DEF Children, Making

LEMMA InitChildren == Init => ChildBudget
<1> SUFFICES ASSUME Init, NEW par \in PartnerIds, NEW ty \in ChildTypes
             PROVE  Cardinality(Children(par, ty)) + Cardinality(Making(par, ty)) <= Cardinality(Procs)
  BY DEF ChildBudget
<1>1. Children(par, ty) = {}
  BY Distinct, ChildIsNoContact DEF Init, Children
<1>2. Making(par, ty) \subseteq Procs
  BY DEF Making
<1> QED
  BY <1>1, <1>2, BudgetOpens

\* A record of another kind adds no child.
LEMMA ChildrenKept ==
  ASSUME TypeOK, NEW par \in PartnerIds, NEW ty \in ChildTypes, NEW q \in PartnerIds, NEW record,
         record # Child(par, ty), Create(q, record)
  PROVE  Children(par, ty)' = Children(par, ty)
  BY Distinct DEF Create, Used, Children, TypeOK

LEMMA NextChildren == Inv /\ ChildBudget /\ [Next]_vars => ChildBudget'
<1> SUFFICES ASSUME Inv, ChildBudget, [Next]_vars, NEW par \in PartnerIds, NEW ty \in ChildTypes
             PROVE  (Cardinality(Children(par, ty)) + Cardinality(Making(par, ty)) <= Cardinality(Procs))'
  BY DEF ChildBudget
<1> DEFINE Within == Cardinality(Children(par, ty)) + Cardinality(Making(par, ty)) <= Cardinality(Procs)
<1>1. Within
  BY DEF ChildBudget
<1>2. ASSUME Children(par, ty)' = Children(par, ty), Making(par, ty)' \subseteq Making(par, ty)
      PROVE  Within'
  BY <1>1, <1>2, ChildBudgetFinite, BudgetFinite, BudgetShrinks
<1>3. CASE UNCHANGED vars
  BY <1>1, <1>3 DEF vars, Children, Making
<1>4. ASSUME NEW p \in Procs, NEW f \in Emails, Begin(p, f) PROVE Within'
  <2>1. Making(par, ty)' \subseteq Making(par, ty)
    BY <1>4 DEF Inv, TypeOK, Begin, Fresh, Making
  <2> QED
    BY <1>2, <1>4, <2>1 DEF Begin, Children
<1>5. ASSUME NEW p \in Procs, Book(p) \/ Abandon(p) \/ InsertDuplicate(p) PROVE Within'
  <2>1. proc' = [proc EXCEPT ![p] = Idle] /\ UNCHANGED partners
    BY <1>5 DEF Book, Abandon, InsertDuplicate
  <2>2. Making(par, ty)' \subseteq Making(par, ty)
    BY <2>1 DEF Inv, TypeOK, Idle, Fresh, Making
  <2> QED
    BY <1>2, <2>1, <2>2 DEF Children
\* The attempts that open the budget: a search that found none.
<1>6. ASSUME NEW p \in Procs, InvoiceFindsNone(p) \/ DeliveryFindsNone(p) PROVE Within'
  <2>1. Children(par, ty)' = Children(par, ty)
    BY <1>6 DEF InvoiceFindsNone, DeliveryFindsNone, Children
  <2>2. CASE Children(par, ty) = {}
    <3>1. Making(par, ty)' \subseteq Procs
      BY DEF Making
    <3> QED
      BY <2>1, <2>2, <3>1, BudgetOpens
  <2>3. CASE Children(par, ty) # {}
    <3>1. Making(par, ty)' \subseteq Making(par, ty)
      <4>1. CASE InvoiceFindsNone(p)
        <5>1. ty # "invoice" \/ proc[p].parent # par
          BY <2>3, <4>1 DEF InvoiceFindsNone
        <5>2. \A r \in Procs : proc'[r] = IF r = p THEN [proc[p] EXCEPT !.pc = "create_invoice"] ELSE proc[r]
          BY <4>1 DEF Inv, TypeOK, InvoiceFindsNone
        <5> QED
          BY <5>1, <5>2 DEF Inv, TypeOK, Making, Proc
      <4>2. CASE DeliveryFindsNone(p)
        <5>1. ty # "delivery" \/ proc[p].parent # par
          BY <2>3, <4>2 DEF DeliveryFindsNone
        <5>2. \A r \in Procs : proc'[r] = IF r = p THEN [proc[p] EXCEPT !.pc = "create_delivery"] ELSE proc[r]
          BY <4>2 DEF Inv, TypeOK, DeliveryFindsNone
        <5> QED
          BY <5>1, <5>2 DEF Inv, TypeOK, Making, Proc, ChildTypes
      <4> QED
        BY <1>6, <4>1, <4>2
    <3> QED
      BY <1>2, <2>1, <3>1
  <2> QED
    BY <2>2, <2>3
\* The attempts that use it up.
<1>7. ASSUME NEW p \in Procs, NEW q \in PartnerIds,
             \/ ty = "invoice" /\ CreateInvoiceContact(p, q)
             \/ ty = "delivery" /\ CreateDeliveryContact(p, q)
      PROVE  Within'
  <2>1. Create(q, Child(proc[p].parent, ty))
    BY <1>7 DEF CreateInvoiceContact, CreateDeliveryContact
  <2>2. CASE proc[p].parent = par
    <3>1. p \in Making(par, ty) /\ Making(par, ty)' = Making(par, ty) \ {p}
      BY <1>7, <2>2 DEF Inv, TypeOK, CreateInvoiceContact, CreateDeliveryContact, At, Making, Proc
    <3>2. q \notin Children(par, ty) /\ Children(par, ty)' = Children(par, ty) \cup {q}
      BY <2>1, <2>2, Distinct DEF Inv, TypeOK, Create, Used, Children
    <3> QED
      BY <1>1, <3>1, <3>2, BudgetMoves, ChildBudgetFinite, BudgetFinite
  <2>3. CASE proc[p].parent # par
    <3>1. Child(proc[p].parent, ty) # Child(par, ty)
      BY <2>3 DEF Child
    <3>2. Children(par, ty)' = Children(par, ty)
      BY <2>1, <3>1, ChildrenKept DEF Inv
    <3>3. Making(par, ty)' \subseteq Making(par, ty)
      BY <1>7, <2>3 DEF Inv, TypeOK, CreateInvoiceContact, CreateDeliveryContact, Making, Proc
    <3> QED
      BY <1>2, <3>2, <3>3
  <2> QED
    BY <2>2, <2>3
\* The records of another kind.
<1>8. ASSUME NEW p \in Procs, NEW q \in PartnerIds,
             \/ CreateParent(p, q)
             \/ ty = "delivery" /\ CreateInvoiceContact(p, q)
             \/ ty = "invoice" /\ CreateDeliveryContact(p, q)
      PROVE  Within'
  <2>1. PICK record : Create(q, record) /\ record # Child(par, ty)
    <3>1. CASE CreateParent(p, q)
      <4>1. proc[p].email \in Emails
        BY <3>1 DEF Inv, Linked, Holds, CreateParent, At
      <4> QED
        BY <3>1, <4>1, ChildIsNoContact DEF CreateParent
    <3>2. CASE ty = "delivery" /\ CreateInvoiceContact(p, q)
      BY <3>2 DEF CreateInvoiceContact, Child
    <3>3. CASE ty = "invoice" /\ CreateDeliveryContact(p, q)
      BY <3>3 DEF CreateDeliveryContact, Child
    <3> QED
      BY <1>8, <3>1, <3>2, <3>3
  <2>2. Children(par, ty)' = Children(par, ty)
    BY <2>1, ChildrenKept DEF Inv
  <2>3. Making(par, ty)' \subseteq Making(par, ty)
    BY <1>8 DEF Inv, TypeOK, CreateParent, CreateInvoiceContact, CreateDeliveryContact, Making, Proc
  <2> QED
    BY <1>2, <2>2, <2>3
<1>9. ASSUME NEW p \in Procs,
             \/ SearchFindsNone(p) \/ InsertMapping(p)
             \/ \E q \in PartnerIds : SearchFinds(p, q) \/ InvoiceFinds(p, q) \/ DeliveryFinds(p, q)
      PROVE  Within'
  <2>1. Children(par, ty)' = Children(par, ty)
    BY <1>9 DEF SearchFindsNone, InsertMapping, SearchFinds, InvoiceFinds, DeliveryFinds, Children
  <2>2. Making(par, ty)' \subseteq Making(par, ty)
    BY <1>9 DEF Inv, TypeOK, SearchFindsNone, InsertMapping, SearchFinds, InvoiceFinds,
                DeliveryFinds, Making, Proc
  <2> QED
    BY <1>2, <2>1, <2>2
<1>10. ASSUME NEW p \in Procs, Work(p) PROVE Within'
  <2>1. ty \in {"invoice", "delivery"}
    BY DEF ChildTypes
  <2>2. ASSUME NEW q \in PartnerIds,
               CreateParent(p, q) \/ CreateInvoiceContact(p, q) \/ CreateDeliveryContact(p, q)
        PROVE  Within'
    BY <1>7, <1>8, <2>1, <2>2
  <2>3. ASSUME NEW q \in PartnerIds, SearchFinds(p, q) \/ InvoiceFinds(p, q) \/ DeliveryFinds(p, q)
        PROVE  Within'
    BY <1>9, <2>3
  <2> QED
    BY <1>5, <1>6, <1>9, <1>10, <2>2, <2>3 DEF Work
<1> QED
  BY <1>3, <1>4, <1>5, <1>10 DEF Next

\* _get_or_create_child_contact: no parent ever has more billing or more shipping
\* contacts than there are workers, whatever is lost, retried or rolled back.
THEOREM ChildrenNeverMany == Spec => []ChildrenBounded
<1>1. Inv /\ ChildBudget => ChildrenBounded
  <2> SUFFICES ASSUME ChildBudget, NEW par \in PartnerIds, NEW ty \in ChildTypes
               PROVE  Cardinality(Children(par, ty)) <= Cardinality(Procs)
    BY DEF ChildrenBounded
  <2>1. Cardinality(Children(par, ty)) + Cardinality(Making(par, ty)) <= Cardinality(Procs)
    BY DEF ChildBudget
  <2> QED
    BY <2>1, ChildBudgetFinite, BudgetFinite, FS_CardinalityType
<1>2. Init => Inv /\ ChildBudget
  BY InitInv, InitChildren
<1>3. Inv /\ ChildBudget /\ [Next]_vars => (Inv /\ ChildBudget)'
  BY NextInv, NextChildren
<1> QED
  BY <1>1, <1>2, <1>3, PTL DEF Spec
=============================================================================
