SPECIFICATION Spec
CONSTANTS
    Items = {1}
    Directs = {}
    Printers = {p1}
    PrinterOf <- OnePrinter
    Waits = {1}
    Starts = {1}
    Jobs = {1, 2}
    Reqs = {r1, r2}
    DrainCap = 8
    DefaultTenant = TRUE
    MaxStops = 0
    MaxFaults = 0
    None = None
    p1 = p1
    f1 = f1
    r1 = r1
    r2 = r2
SYMMETRY Handlers
INVARIANTS
    NotRepeatedOnItsOwn
