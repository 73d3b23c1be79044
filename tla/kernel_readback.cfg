CONSTANTS
    Handlers = {h1}
    Edits = {e1}
    Undos = {u1}
    Redos = {r1}
    Restores = {s1}
    MaxVersion = 3
    ReadBackMayFail = TRUE
    NoBlob = NoBlob
    NoRequest = NoRequest
    Free = Free
SPECIFICATION MCSpec
INVARIANT
    SnapshotsIntact
