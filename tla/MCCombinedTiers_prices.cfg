\* Three runs over flights and transport, one lock at a time.
SPECIFICATION Spec
CONSTANTS
    MaxRuns = 3
    PerTier = 1
    MaxLocked = 1
    Options <- MCOptions
    FlightFinds <- MCFlightFinds
    TransportFinds <- MCTransportFinds
INVARIANTS
    TypeOK
    TiersFollowPrices
    TiersAreThoseOfThePool
\* Every run may be over.
CHECK_DEADLOCK FALSE
