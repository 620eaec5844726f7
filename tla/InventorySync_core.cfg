SPECIFICATION FairInvSpec
CONSTANTS
    a = a
    b = b
    c = c
    None = None
    OwnSku = None
    Variants = {1, 2}
    SKUs = {a, b, c}
    First <- Begun
    SkusOf <- Skus
    Quantities <- Levels
    ProductIds = {1, 2}
    VariationIds = {1, 2, 3, 4, 5}
    RowIds = {1, 2}
    MaxChanges = 2
    MaxMoves = 1
    MaxTroubles = 1
INVARIANTS InvTypeOK CopiesExplained LineNeverLost
PROPERTIES EveryVariantOnSale StockSettles
