CONSTANTS
    j1 = j1
    j2 = j2
    j3 = j3
    p1 = p1
    s1 = s1
    s2 = s2
    sp1 = sp1
    a1 = a1
    Job = {j1, j2, j3}
    Worker = {w1}
    Printer = {p1}
    Source = {}
    Spool = {}
    Artifact = {}
    Request <- Starts
    NoJob = NoJob
    NoWorker = NoWorker
    NoIntent = NoIntent
    NoTarget = NoTarget
    MaxAttempts = 1
    MaxEffects = 16
    Total = 2
    PerKind <- Capacity
    PerResource = 1
    MaxActive = 3
    MaxVersion = 0
SPECIFICATION Spec
SYMMETRY StartSymmetry
INVARIANTS
    OneLiveStart
    SafeToResend
PROPERTIES
    KeepsPromise
CHECK_DEADLOCK FALSE
