CONSTANTS
    p1 = p1
    Job = {j1, j2}
    Worker = {w1, w2}
    Printer = {p1}
    Source = {}
    Spool = {}
    Artifact = {}
    Request <- PlainUploads
    NoJob = NoJob
    NoWorker = NoWorker
    NoIntent = NoIntent
    NoTarget = NoTarget
    NoItem = NoItem
    MaxAttempts = 1
    MaxEffects = 16
    Total = 2
    PerKind <- Capacity
    PerResource = 1
    MaxActive = 4
    MaxVersion = 0
    Item = {1, 2}
    ItemPrinter <- ToPrinter
    ItemStart <- NoStart
    Adopted <- FromNode
    SendKey = {j1, j2}
    MaxItems = 1
SPECIFICATION QueueSpec
SYMMETRY QueueSymmetry
INVARIANTS
    SendingHasJob
CHECK_DEADLOCK FALSE
