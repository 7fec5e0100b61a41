SPECIFICATION LiveSpec
CONSTANTS
    big = big
    small = small
    b1 = b1
    b2 = b2
    b3 = b3
    sm = sm
    main = main
    Observer = Observer
    None = None
    Run = {big, small}
    Request = {b1, b2, b3, sm}
    RunOf <- ThreeLoops
    Ceiling = 2
    ProveAfter = 1
    IdleTicks = 2
    RetryAfters = {0, 1}
    Aborts = TRUE
PROPERTIES
    EveryWaiterLeaves
