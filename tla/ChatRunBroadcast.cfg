SPECIFICATION Spec
CONSTANTS
    r1 = r1
    r2 = r2
    k1 = k1
    l1 = l1
    a1 = a1
    a2 = a2
    t1 = t1
    t2 = t2
    Runs = {r1, r2}
    Readers = {k1}
    Loaders = {}
    NoRun = NoRun
    NoDoc = NoDoc
    Creator = NoRun
    Upgrading = {r1}
    Naming = {}
    Leaving = {}
    Draining = {}
    LongRuns = {}
    Text <- Broadcast
    Agent <- TwoAgents
    Endings = {"reply", "partial"}
    MaxContent = 0
    StreamCap = 10
    ReadCount = 2
    MaxFaults = 1
    MaxCrashes = 0
    MayDelete = FALSE
INVARIANTS
    TypeOK
    FinishedMeansSaved
    LatestIsSettled
    BroadcastWhole
CHECK_DEADLOCK FALSE
