SPECIFICATION SignalsSpec
CONSTANTS
    Request = {q1, q2, q3}
    Ceiling = 8
    ProveAfter = 2
    IdleTicks = 3
    RetryAfters = {0, 2}
    None = None
SYMMETRY Symmetry
INVARIANTS
    ProbesOneAbove
PROPERTIES
    CutsNeedNewRequests
