CONSTANTS
    h1 = h1
    h2 = h2
    a1 = a1
    s1 = s1
    r1 = r1
    b1 = b1
    b2 = b2
    e1 = e1
    e2 = e2
    None = None
    Handlers = {h1, h2}
    Assets = {a1}
    Imports <- TheImports
    MaxFileRevision = 2
    MaxFeedRevision = 4
    MaxEvents = 2
    Limits = {1, 2, 3}
    MaxMapRevision = 4
    SummaryLimit = 2
    MaxFaults = 1
    Sessions = {s1}
    Readers = {r1}
    Blocks = {b1, b2}
    MaxBoardRevision = 2
    MaxPuts = 2
    MaxLosses = 1
    Workbooks <- TheBooks
    MaxRow = 1
    Bodies <- TheBodies
    Views <- TheViews
    Budgets <- TheBudgets
    MaxPageRevision = 3
    MaxBytes = 8
    MaxItems = 2
    Elements = {e1, e2}
    Areas <- TheAreas
    Points <- ThePoints
    Cameras <- TheCameras
    Screen <- TheScreen
    CellSize = 4
    MaxCells = 9
    GridSize = 8
    Threshold = 2
    Keys <- TheKeys
    Folders <- TheFolders
    Versions <- TheVersions
    MaxFailures = 1
SPECIFICATION Spec
INVARIANT DiscardsAreReported
CHECK_DEADLOCK FALSE
