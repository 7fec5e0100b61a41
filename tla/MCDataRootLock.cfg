SPECIFICATION LiveSpec
CONSTANTS
    Proc = {p1, p2, p3}
    MaxTries = 2
    MaxFiles = 2
    None = None
CONSTRAINT NotTorn
INVARIANT OneHolderUnlessTorn
PROPERTY SuccessorGetsIn
CHECK_DEADLOCK FALSE
