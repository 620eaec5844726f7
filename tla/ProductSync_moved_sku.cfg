SPECIFICATION FairSpec
CONSTANTS
    a = a
    b = b
    c = c
    None = None
    Same = Same
    Products = {1, 2}
    SKUs = {a, b}
    SkusOf <- Moved
    WooIds = {1, 2, 3, 4}
    RowIds = {1, 2, 3}
    Sessions = {p1}
    RenameAnyTime = TRUE
    MaxFaults = 0
    MaxCrashes = 0
    MaxRemovals = 0
    MaxInShop = 0
PROPERTIES EveryProductSynced
