SPECIFICATION Spec
CONSTANTS
    big = big
    small = small
    b1 = b1
    b2 = b2
    b3 = b3
    sm = sm
    main = main
    Observer = Observer
    None = None
    Run = {big, small}
    Request = {b1, b2, sm, main}
    RunOf <- LoopsAndMain
    Ceiling = 2
    ProveAfter = 2
    IdleTicks = 2
    RetryAfters = {0, 1}
    Aborts = TRUE
INVARIANTS
    CountsAreExact
    NobodyWaitsAtOpenGate
PROPERTIES
    AdmittedUnderCap
    QueuesAreFifo
    EngagedRunsHear
