SPECIFICATION Spec
CONSTANTS
    HookIds = {1, 2, 3, 4, 5, 6, 7, 8, 9, 10, 11, 12}
    Callers = {c1, c2}
    FirstHooks <- Shop
    MaxRetries = 1
    MaxFaults = 2
    MaxCrashes = 1
    MaxDeletes = 1
    None = None
    Gone = Gone
SYMMETRY Symmetry
INVARIANTS TypeOK CopiesBounded AnswerIsTrue
