SPECIFICATION MCSpec
CONSTANTS
    Orders = {w1}
    SaleIds = {1, 2, 3, 4, 5, 6}
    JobIds = {1, 2}
    Procs = {p1, p2}
    Teams = {{p1}, {p1, p2}}
    None = None
    Topics = {"created", "updated", "cancelled"}
    Sources = {"manual", "endpoint", "fallback"}
    MaxTries = 1
    MaxPosts = 4
    MaxFaults = 1
    MaxCrashes = 2
    TeamPosts = 2
    TeamCrashes = 1
INVARIANTS AloneStraysExplained AloneInvoiceExplained
PROPERTIES AloneSyncedIsFinal AcceptedIsSettled JobsEnd
CHECK_DEADLOCK FALSE
