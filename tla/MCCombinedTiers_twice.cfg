\* One run.
SPECIFICATION Spec
CONSTANTS
    MaxRuns = 1
    PerTier = 1
    MaxLocked = 1
    Options <- MCOptions
    FlightFinds <- MCFlightFinds
    TransportFinds <- MCTransportFinds
INVARIANTS
    OneCardPerOption
\* Every run may be over.
CHECK_DEADLOCK FALSE
