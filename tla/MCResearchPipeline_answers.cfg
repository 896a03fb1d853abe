\* A full run or flights, another kind, and activities; one more attempt each.
SPECIFICATION FairSpec
CONSTANTS
    None = None
    NoFlights = NoFlights
    LongFlight = 300
    HttpRetries = 1
    AgentRetries = 1
    Searches = {"flights", "hotels", "activities", "transport"}
    HotelLookups = {}
    Answers <- MCAnswers
    RunTypes <- MCRunTypes
INVARIANTS
    TypeOK
    AnswersComeOfTheLastAttempt
    AnswersAreKept
    PricesJudgedAmongPeers
    ActivitiesRunHeedsFlights
PROPERTIES
    OptionsLeaveWithAnswers
    RunEnds
\* No run may be left to start.
CHECK_DEADLOCK FALSE
