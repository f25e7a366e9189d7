SPECIFICATION Spec
CONSTANTS
    p1 = p1  p2 = p2  u = u  c = c  f = f  here = here  files = files
    None = None
    Publishers = {p1, p2}
    Kinds = {"upload", "watch", "extract"}
    Uploads = {u}
    Commits = {c}
    Manifests = {}
    Folders = {f}
    Leaves <- FromUpload
    Identities = {here, files}
    Remote = {here}
    Small = {3}
    Large = {4}
    Rows = {1, 2, 3, 4, 5, 6}
SYMMETRY Alike
INVARIANTS RecordedIsOnDisk FlagTellsOrigin TextOfItsRow
PROPERTIES IndexFollowsActive
