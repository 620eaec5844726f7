SPECIFICATION MCSpec
CONSTANTS
    a = a
    b = b
    c = c
    p1 = p1
    p2 = p2
    None = None
    Same = Same
    Products = {1, 2}
    SKUs = {a, b, c}
    SkusOf <- AllSkus
    WooIds = {1, 2, 3, 4}
    RowIds = {1, 2, 3}
    Sessions = {p1, p2}
    RenameAnyTime = TRUE
    MaxFaults = 1
    MaxCrashes = 1
    MaxRemovals = 1
    MaxInShop = 1
INVARIANTS TypeOK FailedHasJob AloneLeftoversExplained
PROPERTIES RemappedOnlyIfGone EveryProductSynced
