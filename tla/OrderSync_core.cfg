SPECIFICATION Spec
CONSTANTS
    Orders = {w1, w2}
    SaleIds = {1, 2, 3}
    JobIds = {1, 2, 3}
    Procs = {p1, p2}
    None = None
    Topics = {"created", "updated", "cancelled", "refunded"}
    Sources = {"manual", "endpoint", "fallback"}
    MaxTries = 1
    MaxPosts = 2
    MaxFaults = 2
    MaxCrashes = 1
SYMMETRY Symmetry
INVARIANTS TypeOK NoLostFailure MappedSaleConfirmed AcceptedIsStored
PROPERTIES LedgerSpec
CHECK_DEADLOCK FALSE
