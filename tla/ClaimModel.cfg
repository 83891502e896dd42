SPECIFICATION LlmSpec
CONSTANTS
    v1 = v1
    e1 = e1
    c1 = c1
    Models = {1, 2}
    Providers = {v1}
    Keys = {1}
    Limits = {1}
    Editors = {e1}
    Calls = {c1}
    NoRow = NoRow
    NoModel = NoModel
INVARIANTS
    ChosenModelUsed
CHECK_DEADLOCK FALSE
