\* One request after the other.
CONSTANTS
    None = None
    hotelA = hotelA
    hotelB = hotelB
    tour = tour
    unpriced = unpriced
    c1 = c1
    c2 = c2
    Cards = {hotelA, hotelB, tour}
    OptionTypeOf <- MCOptionTypeOf
    BasePrice <- MCBasePrice
    Parties = {1, 3}
    Amounts = {2, 6}
    Clients = {c1, c2}
    MaxLocks = 2
    MaxEvents = 4
    OneAtATime = TRUE
SPECIFICATION Spec
SYMMETRY HotelSymmetry
INVARIANTS OneLockPerCard AuditTellsTheLife
PROPERTY ImplementsLedger
\* Every lock row may be used up and unlocked.
CHECK_DEADLOCK FALSE
