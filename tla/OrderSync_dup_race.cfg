SPECIFICATION Spec
CONSTANTS
    Orders = {w1}
    SaleIds = {1, 2}
    JobIds = {1}
    Procs = {p1, p2}
    None = None
    Topics = {"created", "updated"}
    Sources = {}
    MaxTries = 3
    MaxPosts = 2
    MaxFaults = 0
    MaxCrashes = 0
SYMMETRY Symmetry
INVARIANTS OneSalePerOrder
CHECK_DEADLOCK FALSE
