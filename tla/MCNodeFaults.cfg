SPECIFICATION Spec
CONSTANTS
    Items = {1}
    Directs = {f1}
    Printers = {p1}
    PrinterOf <- OnePrinter
    Waits = {1}
    Starts = {1, f1}
    Jobs = {1, 2, 3}
    Reqs = {r1}
    DrainCap = 1
    DefaultTenant = FALSE
    MaxStops = 1
    MaxFaults = 1
    None = None
    p1 = p1
    f1 = f1
    r1 = r1
    r2 = r2
INVARIANTS
    DoneIffLinked
    DoneIsTrue
    NotRepeatedOnItsOwn
