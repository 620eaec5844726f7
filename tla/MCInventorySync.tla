--------------------------- MODULE MCInventorySync ---------------------------
EXTENDS InventorySyncProps, TLC
CONSTANTS a, b, c
Skus == (1 :> {a, c}) @@ (2 :> {a, b})
Begun == (1 :> a) @@ (2 :> None)
Levels == {-1, 2}
=============================================================================
