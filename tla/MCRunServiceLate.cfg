SPECIFICATION Spec
CONSTANTS
    None = None
    Call = {c1, c2}
    MaxRuns = 3
    MaxEngines = 4
    MaxServices = 2
    TerminalLimit = 1
CHECK_DEADLOCK FALSE
INVARIANTS
    EveryEngineOwned
