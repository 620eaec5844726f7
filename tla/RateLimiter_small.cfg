SPECIFICATION Spec
CONSTANTS
    Workers = {a1, a2}
    Requests = 2
    Window = 3
    MaxLag = 2
    MaxTime = 6
    MaxHits = 2
    RedisFails = TRUE
    NoStamp = NoStamp
SYMMETRY Symmetry
INVARIANTS TypeOK RefusedOnlyAboveLimit SetBounded
CHECK_DEADLOCK FALSE
