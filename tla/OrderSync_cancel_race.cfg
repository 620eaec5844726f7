SPECIFICATION Spec
CONSTANTS
    Orders = {w1}
    SaleIds = {1, 2}
    JobIds = {1}
    Procs = {p1, p2}
    None = None
    Topics = {"created", "updated", "cancelled"}
    Sources = {}
    MaxTries = 3
    MaxPosts = 3
    MaxFaults = 0
    MaxCrashes = 0
SYMMETRY Symmetry
INVARIANTS CancelledOrderHasNoLiveSale
CHECK_DEADLOCK FALSE
