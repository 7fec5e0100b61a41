SPECIFICATION LiveSpec
CONSTANTS
    x = x
    y = y
    p = p
    q = q
    r = r
    s1 = s1
    s2 = s2
    s3 = s3
    sj = sj
    sk = sk
    None = None
    Actor <- ActorsXY
    ActorOrder <- OrderXY
    Script <- ScriptPQ
    Site <- SitesPQ
    Branch <- BranchPQ
    BranchOrder <- OrderPQ
    Needed = {p, q}
    Catches = {p}
    Caps = {1, 2}
    Interruptions = {"crash", "torn", "stop"}
    MaxLives = 3
CHECK_DEADLOCK FALSE
INVARIANTS
    ReplayIsDeterministic
PROPERTIES
    RunSettles
