CONSTANTS
    Handlers = {h1, h2}
    Comments = {c1}
    Suggestions = {s1, s2}
    LastRevision = 4
    NoRequest = NoRequest
SPECIFICATION ReviewSpec
CHECK_DEADLOCK FALSE
SYMMETRY Symmetry
INVARIANT
    RetryCanFinish
