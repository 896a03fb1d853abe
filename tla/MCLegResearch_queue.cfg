\* Two runs of the leg at any time over an at-least-once queue, with crashes
\* and locks: enough deliveries for one run's retry beside the other run.
CONSTANTS
    NRuns = 2
    d1 = d1
    d2 = d2
    d3 = d3
    Deliveries = {d1, d2, d3}
    Rooms = {"room1"}
    RequestedTypes = {"hotels", "activities"}
    Redeliver = TRUE
    MayCrash = TRUE
    LockableUnits = {"room1", "activity"}
SPECIFICATION Spec
SYMMETRY DeliverySymmetry
INVARIANTS TypeOK RetryLeavesNoDuplicates
PROPERTIES ImplementsLifecycle OptionsLeaveWithCompletionOrRetry
\* Everything may be over.
CHECK_DEADLOCK FALSE
