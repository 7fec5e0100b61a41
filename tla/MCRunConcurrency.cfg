SPECIFICATION RCLiveSpec
CONSTANTS
    k1 = k1
    k2 = k2
    k3 = k3
    Key <- MCKey
    Ask <- MCAsk
    KeyOf <- MCKeyOf
    MaxLimit = 3
    MaxTools = 1
INVARIANTS
    CountsAgree
    ParkedMeansFull
    AccountsForEveryAsk
PROPERTIES
    NoDispatchPastParked
    Fifo
    NoTurnStepOverLimit
    ParkedLeaves
