CONSTANTS
    Events = {d1, d2}
    Consumers = {c1, c2}
    MaxLimit = 2
    MaxClaims = 3
    NoConsumer = NoConsumer
SPECIFICATION OutboxSpec
CHECK_DEADLOCK FALSE
PROPERTY
    AckHoldsItsLease
SYMMETRY Symmetry
