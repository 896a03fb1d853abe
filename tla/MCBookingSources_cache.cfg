\* Two requests for a flight, or three for a hotel, with rows that live two instants.
SPECIFICATION BookingSpec
CONSTANTS
    None = None
    f1 = f1
    f2 = f2
    h1 = h1
    h2 = h2
    h3 = h3
    Searches = {f1, f2, h1, h2, h3}
    FlightLookups = {f1, f2}
    HotelLookups = {h1, h2, h3}
    Answers <- MCAnswers
    HttpRetries = 0
    AgentRetries = 0
    TTL = 2
    MaxNow = 3
    MaxParty = 6
    TripParties <- MCTripParties
    MaxChanges = 1
SYMMETRY LookupSymmetry
INVARIANTS
    BookingTypeOK
    SecondFetchesOverlap
    SearchedPartyFits
\* Every request may be over.
CHECK_DEADLOCK FALSE
