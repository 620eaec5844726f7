SPECIFICATION UpdateSpec
CONSTANTS
    Orders = {w1}
    SaleIds = {1, 2}
    JobIds = {1}
    Procs = {p1}
    None = None
    Topics = {"created", "updated"}
    Sources = {}
    MaxTries = 3
    MaxPosts = 2
    MaxFaults = 0
    MaxCrashes = 0
PROPERTIES UpdatesAreResynced
CHECK_DEADLOCK FALSE
