SPECIFICATION FairSpec
CONSTANTS
    a = a
    b = b
    run = run
    Agents = {a, b}
    Runs = {run}
    NoRun = NoRun
    ThisRun = run
    StreamCap = 50
    Roster <- TwoAgents
    MaxTurns = 3
    Calls <- MixedCalls
    MaxFaults = 1
    Draining = {a, b}
    MayExpire = TRUE
    MayLeave = FALSE
    MayDelete = FALSE
INVARIANTS
    HandoffHonoured
    ToldTruly
PROPERTIES
    LimitsHeld
    EveryRunEnds
CHECK_DEADLOCK FALSE
