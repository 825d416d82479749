CONSTANTS
    Runs = {r1, r2}
    NoRun = NoRun
    Workers = {w1, w2}
    Supervisors = {s1}
    Domains = {d1}
    MaxAttempts = 2
    MaxEpochs = 0
    MaxPosition = 0
    MaxRevision = 3
    MaxOutdated = 0
SPECIFICATION HistorySpec
CHECK_DEADLOCK FALSE
INVARIANTS
    StopCancelsSuccessor
