\* Two requests of the members at any time.
CONSTANTS
    None = None
    hotelA = hotelA
    hotelB = hotelB
    tour = tour
    unpriced = unpriced
    c1 = c1
    c2 = c2
    Cards = {hotelA, hotelB, tour, unpriced}
    OptionTypeOf <- MCOptionTypeOf
    BasePrice <- MCBasePrice
    Parties = {1, 3}
    Amounts = {6}
    Clients = {c1, c2}
    MaxLocks = 2
    MaxEvents = 2
    OneAtATime = FALSE
SPECIFICATION Spec
SYMMETRY HotelSymmetry
INVARIANTS TypeOK OneLockPerSingleType LockingIsAudited SnapshotsStick
\* Every lock row may be used up and unlocked.
CHECK_DEADLOCK FALSE
