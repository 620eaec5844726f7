---------------------------- MODULE OrderLedger ----------------------------
(***************************************************************************)
(* What the order synchronisation promises, without workers, queues or     *)
(* partial failures: a ledger with one entry per WooCommerce order.        *)
(*   - an entry that is booked names one Odoo sale order, never the sale   *)
(*     order of another entry, and a booked sale order is replaced only by *)
(*     another booking;                                                    *)
(*   - an entry that failed is owed a retry: the debt is created with the  *)
(*     failure, in one step, and is not forgiven while the entry says      *)
(*     failed.                                                             *)
(***************************************************************************)
CONSTANTS Orders,    \* WooCommerce orders
          SaleIds,   \* Odoo sale order ids
          None       \* the absent id

VARIABLES status,    \* status[w]: "none", "SYNCED", "FAILED", "CANCELLED", "REFUNDED"
          sale,      \* sale[w]: the sale order the entry names, or None
          owed       \* the orders some unresolved retry job exists for

vars == <<status, sale, owed>>

Init ==
    /\ status = [w \in Orders |-> "none"]
    /\ sale   = [w \in Orders |-> None]
    /\ owed   = {}

\* An attempt completed: the entry names sale order s, which no other entry names.
Book(w, s) ==
    /\ \A v \in Orders \ {w} : sale[v] # s
    /\ status' = [status EXCEPT ![w] = "SYNCED"]
    /\ sale' = [sale EXCEPT ![w] = s]
    /\ UNCHANGED owed

\* An attempt failed: the failure and the debt become visible together.
Fail(w) ==
    /\ status' = [status EXCEPT ![w] = "FAILED"]
    /\ owed' = owed \cup {w}
    /\ UNCHANGED sale

\* A cancellation or a refund of an entry that exists.
Close(w, st) ==
    /\ status[w] # "none"
    /\ status' = [status EXCEPT ![w] = st]
    /\ UNCHANGED <<sale, owed>>

\* A retry job appears although the entry does not change.
Owe(w) ==
    /\ owed' = owed \cup {w}
    /\ UNCHANGED <<status, sale>>

\* The last retry job of an order is resolved: not while the entry says failed.
Forgive(w) ==
    /\ status[w] # "FAILED"
    /\ owed' = owed \ {w}
    /\ UNCHANGED <<status, sale>>

Next ==
    \E w \in Orders :
        \/ \E s \in SaleIds : Book(w, s)
        \/ Fail(w)
        \/ \E st \in {"CANCELLED", "REFUNDED"} : Close(w, st)
        \/ Owe(w)
        \/ Forgive(w)

Spec == Init /\ [][Next]_vars
=============================================================================
