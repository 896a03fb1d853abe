\* Two runs at any time, no crash: a leg whose runs do not overlap tells the
\* truth, and what is started settles even when they do.  No locks: a locked
\* option only escapes a supersede.
CONSTANTS
    NRuns = 2
    d1 = d1
    d2 = d2
    d3 = d3
    Deliveries = {d1, d2}
    Rooms = {"room1"}
    RequestedTypes = {"full", "hotels"}
    Redeliver = FALSE
    MayCrash = FALSE
    LockableUnits = {}
SPECIFICATION FairSpec
INVARIANTS LegShowsLatestRun ReadyLegListsLatestResults
PROPERTIES RunsSettle LegSettles
\* Everything may be over.
CHECK_DEADLOCK FALSE
