SPECIFICATION LiveSpec
CONSTANTS
    N = 3
    Typed = {2}
    Repairs = 1
    Nudges = 1
    MaxEscalations = 1
    Fragments = 2
    RetiredLimit = 9
    MaxTransient = 1
    MaxQuestions = 2
    MaxLives = 2
    None = None
INVARIANTS
    OneCarrier
    PortsServeTheirAsk
    QuestionsHaveListeners
    BoundaryIsOwn
CHECK_DEADLOCK FALSE
PROPERTY EveryAskEnds
