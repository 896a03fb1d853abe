---------------------------- MODULE BookingSources ----------------------------
(***************************************************************************)
(* The sellers of one flight or hotel card (services/options.py): rows     *)
(* with an expiry, looked up and, when none is alive, fetched from SerpApi *)
(* at a price per call.  Between the look and the commit of what was       *)
(* fetched lie seconds, in which other requests look too and the           *)
(* travelers of the trip (services/travelers.py), for whom a hotel is      *)
(* searched, may change.                                                   *)
(***************************************************************************)
EXTENDS SearchCalls

CONSTANTS
    FlightLookups,  \* the requests for the card's sellers if it is a flight
    TTL,            \* settings.booking_source_ttl_seconds
    MaxNow,         \* bound: the last instant
    MaxParty,       \* _HOTEL_MAX_TRAVELERS, and the limit of google_hotels
    TripParties,    \* bound: the travelers a trip may begin with
    MaxChanges      \* bound: changes of the travelers

ASSUME BookingConstantsOK ==
    /\ FlightLookups \subseteq Searches
    /\ TTL \in Nat \ {0} /\ MaxNow \in Nat /\ MaxParty \in Nat \ {0}
    /\ MaxChanges \in Nat
    /\ TripParties \subseteq [adults : Nat, children : Nat]

VARIABLES
    card,       \* the type of the card
    now,
    travelers,  \* how many adults and children (toddlers are children)
    changes,    \* how often the travelers changed
    batches,    \* the rows of one fetch each, which expire together
    lookups     \* for each request, what it has read

bvars == <<calls, card, now, travelers, changes, batches, lookups>>

------------------------------------------------------------------------------
Total(party) == party.adults + party.children

\* Seeded fault: children are left out as well.
HotelParty_FewerChildren(trip) ==
    [trip EXCEPT !.adults = IF @ > MaxParty THEN MaxParty ELSE @,
                 !.children = IF trip.adults + @ > MaxParty
                              THEN MaxParty - (IF trip.adults > MaxParty THEN MaxParty
                                               ELSE trip.adults)
                              ELSE @]

\* Adults are left out until the rest fits; nobody at all counts as one adult.
HotelParty(trip) ==
    LET party == IF Total(trip) = 0 THEN [trip EXCEPT !.adults = 1] ELSE trip
        over == Total(party) - MaxParty
    IN IF over <= 0 THEN party
       ELSE [party EXCEPT !.adults = IF over <= @ THEN @ - over ELSE 0]

Alive(batch) == batch.rows # {} /\ now < batch.written + TTL

AllLookups == FlightLookups \cup HotelLookups

Lookups == IF card = "hotel" THEN HotelLookups ELSE FlightLookups

NewLookup == [pc |-> "idle", asked |-> 0, party |-> None, trip |-> None, answer |-> {}]

BookingInit ==
    /\ card \in {"flight", "hotel"}
    /\ now = 0 /\ changes = 0
    /\ travelers \in TripParties
    /\ batches = {}
    /\ lookups = [r \in AllLookups |-> NewLookup]
    /\ calls = [s \in Searches |-> NoCall]

Tick ==
    /\ now < MaxNow
    /\ now' = now + 1
    /\ UNCHANGED <<calls, card, travelers, changes, batches, lookups>>

\* create_traveler, update_traveler of the age category, delete_traveler.
ChangeTravelers ==
    /\ changes < MaxChanges
    /\ changes' = changes + 1
    /\ \/ travelers' = [travelers EXCEPT !.adults = @ + 1]
       \/ travelers' = [travelers EXCEPT !.children = @ + 1]
       \/ /\ travelers.adults > 0
          /\ \/ travelers' = [travelers EXCEPT !.adults = @ - 1]
             \/ travelers' = [adults |-> travelers.adults - 1,
                              children |-> travelers.children + 1]
       \/ /\ travelers.children > 0
          /\ \/ travelers' = [travelers EXCEPT !.children = @ - 1]
             \/ travelers' = [adults |-> travelers.adults + 1,
                              children |-> travelers.children - 1]
    /\ UNCHANGED <<calls, card, now, batches, lookups>>

\* Seeded fault: the stored rows are looked up for flights only.
LookUp_FlightsOnly(r) ==
    LET alive == {b \in batches : Alive(b) /\ card = "flight"} IN
    /\ lookups[r].pc = "idle"
    /\ lookups' = [lookups EXCEPT ![r] =
                     [@ EXCEPT !.asked = now,
                               !.pc = IF alive # {} THEN "answered"
                                      ELSE IF card = "hotel" THEN "party" ELSE "fetching",
                               !.answer = UNION {b.rows : b \in alive}]]
    /\ calls' = IF alive = {} /\ card = "flight"
                THEN [calls EXCEPT ![r] = Asked(r)] ELSE calls
    /\ UNCHANGED <<card, now, travelers, changes, batches>>

\* What is alive is the answer, whatever batch it is of.
LookUp(r) ==
    LET alive == {b \in batches : Alive(b)} IN
    /\ lookups[r].pc = "idle"
    /\ lookups' = [lookups EXCEPT ![r] =
                     [@ EXCEPT !.asked = now,
                               !.pc = IF alive # {} THEN "answered"
                                      ELSE IF card = "hotel" THEN "party" ELSE "fetching",
                               !.answer = UNION {b.rows : b \in alive}]]
    /\ calls' = IF alive = {} /\ card = "flight"
                THEN [calls EXCEPT ![r] = Asked(r)] ELSE calls
    /\ UNCHANGED <<card, now, travelers, changes, batches>>

\* A party that does not fit raises before anything is paid for.
ReadParty(r) ==
    LET party == HotelParty(travelers) IN
    /\ lookups[r].pc = "party"
    /\ IF Total(party) > MaxParty
       THEN /\ lookups' = [lookups EXCEPT ![r].pc = "refused"]
            /\ UNCHANGED calls
       ELSE /\ lookups' = [lookups EXCEPT ![r] =
                             [@ EXCEPT !.pc = "fetching", !.party = party,
                                       !.trip = travelers]]
            /\ calls' = [calls EXCEPT ![r] = Asked(r)]
    /\ UNCHANGED <<card, now, travelers, changes, batches>>

Fetch(r) ==
    /\ CallStep(r)
    /\ UNCHANGED <<card, now, travelers, changes, batches, lookups>>

\* Seeded fault: the rows are dated with their expiry.
StoreRows_DatedAhead(r) ==
    LET rows == {[by |-> r, source |-> source] : source \in calls[r].options} IN
    /\ lookups[r].pc = "fetching" /\ calls[r].outcome = "options"
    /\ batches' = batches \cup
         {[by |-> r, asked |-> lookups[r].asked, written |-> now + TTL, rows |-> rows]}
    /\ lookups' = [lookups EXCEPT ![r] = [@ EXCEPT !.pc = "answered", !.answer = rows]]
    /\ calls' = [calls EXCEPT ![r] = NoCall]
    /\ UNCHANGED <<card, now, travelers, changes>>

\* The rows are inserted beside whatever others have inserted meanwhile.
StoreRows(r) ==
    LET rows == {[by |-> r, source |-> source] : source \in calls[r].options} IN
    /\ lookups[r].pc = "fetching" /\ calls[r].outcome = "options"
    /\ batches' = batches \cup
         {[by |-> r, asked |-> lookups[r].asked, written |-> now, rows |-> rows]}
    /\ lookups' = [lookups EXCEPT ![r] = [@ EXCEPT !.pc = "answered", !.answer = rows]]
    /\ calls' = [calls EXCEPT ![r] = NoCall]
    /\ UNCHANGED <<card, now, travelers, changes>>

Refuse(r) ==
    /\ lookups[r].pc = "fetching" /\ calls[r].outcome = "raised"
    /\ lookups' = [lookups EXCEPT ![r].pc = "refused"]
    /\ calls' = [calls EXCEPT ![r] = NoCall]
    /\ UNCHANGED <<card, now, travelers, changes, batches>>

BookingNext ==
    \/ Tick
    \/ ChangeTravelers
    \/ \E r \in Lookups : LookUp(r) \/ ReadParty(r) \/ Fetch(r) \/ StoreRows(r) \/ Refuse(r)

BookingSpec == BookingInit /\ [][BookingNext]_bvars

------------------------------------------------------------------------------
(* The shape of the lookups, the calls and the stored rows. *)
BookingTypeOK ==
    /\ CallTypeOK
    /\ card \in {"flight", "hotel"} /\ now \in 0 .. MaxNow
    /\ travelers.adults \in Nat /\ travelers.children \in Nat
    /\ \A b \in batches : b.by \in Lookups /\ b.asked \in 0 .. b.written /\ b.written \in 0 .. now
    /\ \A r \in Lookups :
         /\ lookups[r].pc \in {"idle", "party", "fetching", "answered", "refused"}
         /\ lookups[r].pc # "fetching" => calls[r] = NoCall

(* A card is fetched, and paid for, a second time while rows of it are alive *)
(* only when the second request had looked before the first one's commit.     *)
SecondFetchesOverlap ==
    \A first, second \in batches :
        (/\ first # second /\ first.rows # {}
         /\ first.written <= second.written /\ second.written < first.written + TTL)
            => second.asked <= first.written

(* A hotel is searched for a party that google_hotels takes: with every      *)
(* child, with everybody if they fit, and with as many as fit if not.        *)
SearchedPartyFits ==
    \A r \in Lookups :
        lookups[r].party # None =>
            LET party == lookups[r].party trip == lookups[r].trip IN
            /\ Total(party) <= MaxParty /\ Total(party) > 0
            /\ party.children = trip.children
            /\ Total(trip) \in 1 .. MaxParty => party = trip
            /\ Total(trip) > MaxParty => Total(party) = MaxParty
==============================================================================
