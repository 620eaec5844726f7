SPECIFICATION MCSpec
CONSTANTS
    j1 = j1
    j2 = j2
    j3 = j3
    j4 = j4
    s1 = s1
    s2 = s2
    JobIds = {j1, j2, j3, j4}
    InitJobs = {j1, j2, j3}
    Sessions = {s1, s2}
    Outcomes <- OrderOutcomes
    Sources = {"single", "endpoint"}
    MaxRetries = 2
    BatchLimit = 2
    MaxFailures = 6
    MaxPosts = 2
    MaxCrashes = 1
INVARIANTS TypeOK NotGivenUpEarly EachFailureCounts PendingHasTimer
PROPERTIES AloneJobsEnd
CHECK_DEADLOCK FALSE
