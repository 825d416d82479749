CONSTANTS
    Runs = {r1, r2, r3}
    NoRun = NoRun
    Workers = {w1, w2}
    Supervisors = {s1}
    Domains = {d1}
    MaxAttempts = 2
    MaxEpochs = 2
    MaxPosition = 1
    MaxRevision = 3
    MaxOutdated = 0
SPECIFICATION Spec
SYMMETRY Symmetry
CHECK_DEADLOCK FALSE
INVARIANTS
    TypeOK
    SingleOwner
    PhaseAgrees
    CompletedIsQuiet
    CertifiedIsDurable
    AckedIsCertified
    EpochChain
PROPERTIES
    ExpiryProvesNothing
    StopIsFinal
    EndedIsFinal
    ImplementsEpochLog
