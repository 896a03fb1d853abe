--------------------------- MODULE ActivityFilters ---------------------------
(***************************************************************************)
(* Which researched activities services/activities.py keeps: those cited,  *)
(* priced plausibly among the others of their currency, and possible on    *)
(* the day of a long flight.  An activity is a record with id, amount,     *)
(* currency, timing and citations; a list is the set of its activities.    *)
(***************************************************************************)
EXTENDS Integers, FiniteSets

CONSTANTS
    LongFlight,   \* SAME_DAY_FLIGHT_DURATION_THRESHOLD_MINUTES
    NoFlights     \* the shortest duration of a leg without flights

ASSUME FilterConstantsOK == LongFlight \in Int /\ NoFlights \notin Int

DayBound == {"arrival_day", "departure_day"}

WithCitations(activities) == {a \in activities : a.citations > 0}

\* Seeded fault: prices of other currencies are peers.
Peers_AnyCurrency(activity, activities) == activities \ {activity}

Peers(activity, activities) ==
    {other \in activities \ {activity} : other.currency = activity.currency}

\* The amount in the nth place, counting from the cheapest.
NthAmount(activities, n) ==
    LET Below(a) == Cardinality({o \in activities : o.amount < a.amount})
        UpTo(a) == Cardinality({o \in activities : o.amount <= a.amount})
    IN (CHOOSE a \in activities : Below(a) < n /\ n <= UpTo(a)).amount

\* Twice the median, which keeps the mean of two middle amounts whole.
TwiceMedian(activities) ==
    LET count == Cardinality(activities) IN
    NthAmount(activities, (count + 1) \div 2) + NthAmount(activities, count \div 2 + 1)

Plausible(activity, activities) ==
    LET peers == Peers(activity, activities) IN
    IF Cardinality(peers) < 2 THEN TRUE
    ELSE IF TwiceMedian(peers) = 0 THEN activity.amount = 0
    ELSE /\ 2 * activity.amount <= 10 * TwiceMedian(peers)
         /\ 20 * activity.amount >= TwiceMedian(peers)

\* Everyone is judged against the whole list, also against what is dropped.
WithPlausiblePrices(activities) ==
    {a \in activities : Plausible(a, activities)}

\* Seeded fault: a flight of exactly the limit is long.
WithoutSameDayConflicts_AtLimit(activities, minutes) ==
    IF minutes = NoFlights \/ minutes < LongFlight THEN activities
    ELSE {a \in activities : a.timing \notin DayBound}

WithoutSameDayConflicts(activities, minutes) ==
    IF minutes = NoFlights \/ minutes <= LongFlight THEN activities
    ELSE {a \in activities : a.timing \notin DayBound}

FilteredForPersistence(activities, minutes) ==
    WithoutSameDayConflicts(WithPlausiblePrices(WithCitations(activities)), minutes)
==============================================================================
