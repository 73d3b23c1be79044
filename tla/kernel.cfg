CONSTANTS
    Handlers = {h1, h2}
    Edits = {e1, e2}
    Undos = {u1, u2}
    Redos = {r1}
    Restores = {s1}
    MaxVersion = 6
    ReadBackMayFail = FALSE
    NoBlob = NoBlob
    NoRequest = NoRequest
    Free = Free
SPECIFICATION MCSpec
SYMMETRY Symmetry
INVARIANTS
    TypeOK
    SnapshotsIntact
    OneTransactionPerVersion
    AcknowledgedIsCommitted
    ConflictIsNotApplied
    AnswerNamesItsCommit
    HistoryIsAStack
PROPERTY
    ImplementsArtifactHistory
