SPECIFICATION FairSpec
CONSTANTS
    a = a
    b = b
    Agents = {a, b}
    Roster <- TwoAgents
    MaxTurns = 3
    Calls <- FewCalls
    MaxFaults = 1
INVARIANTS
    CompleteMeansStored
    NoOrphan
    HandedBackUsable
PROPERTIES
    EveryCallEnds
CHECK_DEADLOCK FALSE
