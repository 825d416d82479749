CONSTANTS
    Parts = {a, b}
    Domains = {d1}
    Setups <- Transformed
    Depth = 1
    BatchRows = 2
    MaxRows = 2
    MaxEpochs = 2
    MaxControls = 2
SPECIFICATION Spec
CHECK_DEADLOCK FALSE
INVARIANTS
    CompletionFollowsData
