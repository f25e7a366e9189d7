SPECIFICATION Spec
CONSTANTS
    a = a  b = b  k1 = k1  k2 = k2  q1 = q1  q2 = q2  r1 = r1  w1 = w1
    None = None
    Parts = {a, b}
    Decisions <- OneB
    Inputs = {1, 2}
    Found <- FoundIn
    Attached <- OneAttachment
    KitIncludes = {}
    KitExcludes = {b}
    Ambiguous = {b}
    DraftKeys = {k1, k2}
    AskKeys = {q1, q2}
    SaveKeys = {r1}
    Workers = {w1}
    MaxRevisions = 3
    MaxDrafts = 3
    Resumable <- FirstOnce
    Interrupted <- SecondOnce
SYMMETRY Alike
INVARIANTS RetryIsAnswered OneSuccessor
PROPERTIES KeepsHistory EditsSurvive
