CONSTANTS
    Runs = {r1, r2}
    NoRun = NoRun
    Workers = {w1}
    Supervisors = {s1}
    Domains = {d1}
    MaxAttempts = 2
    MaxEpochs = 1
    MaxPosition = 0
    MaxRevision = 2
    MaxOutdated = 1
SPECIFICATION FairSpec
CHECK_DEADLOCK FALSE
PROPERTIES
    StopDrains
    HandoverHappens
