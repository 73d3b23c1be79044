CONSTANTS
    Events = {d1, d2}
    Consumers = {c1, c2}
    MaxLimit = 2
    MaxClaims = 3
    NoConsumer = NoConsumer
    Handlers = {h1, h2}
    Comments = {t1}
    Suggestions = {s1, s2}
    LastRevision = 4
    NoRequest = NoRequest
    MaxEdits = 3
    MaxUndos = 1
    MaxRevision = 4
    MaxAttempts = 2
    Patient = TRUE
    Foreign = Foreign
    NoFlight = NoFlight
SPECIFICATION MCSpec
CHECK_DEADLOCK FALSE
INVARIANTS
    OutboxTypeOK
    ReviewTypeOK
    TypeOK
    SuggestionAppliedOnce
    AcceptedIsApplied
    CommittedMirrorsServer
    LocalIsCommittedPlusQueue
    NoEditIsLost
    NothingOvertakes
PROPERTIES
    LeaseIsRespected
    DeliveredIsFinal
    EveryEventIsDelivered
    EditsAreDelivered
