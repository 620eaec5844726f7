--------------------------- MODULE MCProductSync ---------------------------
(* Instances of ProductSync for TLC: two products, three SKUs.             *)
EXTENDS ProductSyncProps, TLC

CONSTANTS a, b, c

\* Product 2, mapped as b, may get the SKU that product 1 has given up.
Moved == (1 :> {a, None}) @@ (2 :> {a, b})
=============================================================================
