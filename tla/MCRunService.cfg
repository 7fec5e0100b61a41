SPECIFICATION LiveSpec
CONSTANTS
    None = None
    Call = {c1, c2}
    MaxRuns = 2
    MaxEngines = 4
    MaxServices = 2
    TerminalLimit = 1
CHECK_DEADLOCK FALSE
INVARIANTS
    PlainEngineOwned
    NoLyingRow
    StatusIsHonest
PROPERTIES
    SupersededForGood
    EveryCallReturns
