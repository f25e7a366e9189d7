CONSTANTS
    j1 = j1
    j2 = j2
    j3 = j3
    p1 = p1
    s1 = s1
    s2 = s2
    sp1 = sp1
    a1 = a1
    Job = {j1, j2}
    Worker = {w1, w2}
    Printer = {p1}
    Source = {s1}
    Spool = {}
    Artifact = {}
    Request <- SourceWork
    NoJob = NoJob
    NoWorker = NoWorker
    NoIntent = NoIntent
    NoTarget = NoTarget
    MaxAttempts = 1
    MaxEffects = 16
    Total = 2
    PerKind <- Capacity
    PerResource = 1
    MaxActive = 3
    MaxVersion = 3
SPECIFICATION FairSpec
INVARIANTS
    ClaimNeverPoisoned
    ResourceLimit
CHECK_DEADLOCK FALSE
PROPERTIES
    AbandonedAttemptRecovered
