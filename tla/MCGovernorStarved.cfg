SPECIFICATION LiveSpec
CONSTANTS
    big = big
    small = small
    b1 = b1
    b2 = b2
    b3 = b3
    sm = sm
    main = main
    Observer = Observer
    None = None
    Run = {big, small}
    Request = {b1, b2, sm, main}
    RunOf <- LoopsAndMain
    Ceiling = 1
    ProveAfter = 1
    IdleTicks = 2
    RetryAfters = {0}
    Aborts = FALSE
PROPERTIES
    NoRunStarves
