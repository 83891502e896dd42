SPECIFICATION Spec
CONSTANTS
    a = a
    b = b
    run = run
    Agents = {a, b}
    Runs = {run}
    NoRun = NoRun
    ThisRun = run
    StreamCap = 50
    Roster <- TwoAgents
    MaxTurns = 2
    Calls <- AllCalls
    MaxFaults = 2
    Draining = {a}
    MayExpire = TRUE
    MayLeave = TRUE
    MayDelete = TRUE
INVARIANTS
    NoOrphan
    RepliesKept
CHECK_DEADLOCK FALSE
