SPECIFICATION Spec
CONSTANTS
    a = a  b = b  l1 = l1  s1 = s1  f1 = f1
    None = None
    Parts = {a, b}
    MaxCount = 2
    MaxVersion = 2
    FirstCounts <- TwoOfA
    Edits <- SomeEdits
    Links = {l1}
    Sends = {s1}
    Files = {f1}
    FileOf <- OneFile
    MaxUnits <- LinkOfTwo
INVARIANT KeptUnitsFollow
CHECK_DEADLOCK FALSE
