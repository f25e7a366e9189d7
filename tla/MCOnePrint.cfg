CONSTANTS
    j1 = j1
    j2 = j2
    j3 = j3
    p1 = p1
    s1 = s1
    s2 = s2
    sp1 = sp1
    a1 = a1
    Job = {j1}
    Worker = {w1, w2}
    Printer = {p1}
    Source = {}
    Spool = {sp1}
    Artifact = {}
    Request <- OnePrint
    NoJob = NoJob
    NoWorker = NoWorker
    NoIntent = NoIntent
    NoTarget = NoTarget
    MaxAttempts = 2
    MaxEffects = 16
    Total = 2
    PerKind <- Capacity
    PerResource = 1
    MaxActive = 2
    MaxVersion = 5
SPECIFICATION Spec
SYMMETRY WorkerSymmetry
INVARIANTS
    TypeOK
    StoredRowsReopen
    NeverResent
    NothingForgotten
    SuccessIsReal
    Reconcilable
PROPERTIES
    EveryChangeIsNewVersion
CHECK_DEADLOCK FALSE
