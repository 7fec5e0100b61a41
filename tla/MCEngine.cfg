SPECIFICATION Spec
CONSTANTS
    x = x
    y = y
    p = p
    q = q
    r = r
    s1 = s1
    s2 = s2
    s3 = s3
    sj = sj
    sk = sk
    None = None
    Actor <- ActorsXY
    ActorOrder <- OrderXY
    Script <- ScriptShared
    Site <- SitesPQR
    Branch <- BranchPQR
    BranchOrder <- OrderPQR
    Needed = {p, q}
    Catches = {p, q, r}
    Caps = {1, 2}
    Interruptions = {"crash", "torn", "stop"}
    MaxLives = 2
CHECK_DEADLOCK FALSE
INVARIANTS
    WorkConserving
    DenseActorSeq
    SerialTranscript
    AbortFindsEveryAsk
    OneAnswerPerPromise
PROPERTIES
    NoSilentAbandon
    RunSettledIsLast
    ContractHolds
