CONSTANTS
    Parts = {a, b}
    Domains = {d1}
    Setups <- Pipelines
    Depth = 1
    BatchRows = 2
    MaxRows = 2
    MaxEpochs = 2
    MaxControls = 2
SPECIFICATION FairSpec
CHECK_DEADLOCK FALSE
INVARIANTS
    TypeOK
    CursorCovered
    SuccessIsComplete
    EvidenceIsExact
    StrictOrder
PROPERTIES
    PipelineEnds
    BarrierEnds
