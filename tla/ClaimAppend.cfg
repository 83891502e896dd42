SPECIFICATION Spec
CONSTANTS
    r1 = r1
    r2 = r2
    k1 = k1
    l1 = l1
    a1 = a1
    a2 = a2
    t1 = t1
    t2 = t2
    Runs = {r1, r2}
    Readers = {}
    Loaders = {}
    NoRun = NoRun
    NoDoc = NoDoc
    Creator = r1
    Upgrading = {r1, r2}
    Naming = {r1}
    Leaving = {}
    Draining = {}
    LongRuns = {}
    Text <- Broadcast
    Agent <- TwoAgents
    Endings = {"reply"}
    MaxContent = 0
    StreamCap = 10
    ReadCount = 2
    MaxFaults = 0
    MaxCrashes = 0
    MayDelete = FALSE
PROPERTIES
    RepliesSurvive
CHECK_DEADLOCK FALSE
