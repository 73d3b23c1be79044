CONSTANTS
    MaxEdits = 3
    MaxUndos = 1
    MaxRevision = 4
    MaxAttempts = 2
    Patient = FALSE
    Foreign = Foreign
    NoFlight = NoFlight
SPECIFICATION Spec
CHECK_DEADLOCK FALSE
PROPERTY
    NoUndoOverQueuedEdits
