--------------------------- MODULE ResearchPipeline ---------------------------
(***************************************************************************)
(* What run_leg_research (services/research.py) makes of its searches:     *)
(* they are in flight side by side (asyncio.gather), each may raise or be  *)
(* unusable without stopping the others, and what they found is stored     *)
(* kind by kind - hotels, activities, flights, transport - in one commit   *)
(* each.  Activities pass through the filters of services/activities.py,   *)
(* one of which reads the flights stored so far.                           *)
(*                                                                         *)
(* Runs of a leg follow one another here; overlaps, deliveries, retries    *)
(* and crashes are LegResearch, tiers and conversions CombinedTiers.       *)
(***************************************************************************)
EXTENDS SearchCalls, ActivityFilters

CONSTANT RunTypes   \* RunTypes[n]: the types the nth run may have

VARIABLES run, cards, raws

vars == <<calls, run, cards, raws>>

ResearchSearches == {"flights", "hotels", "activities", "transport"}

RunPhases == {"idle", "searching", "hotels", "activities", "flights",
              "transport", "finish", "failing"}

RunStatuses == {None, "running", "completed", "failed"}

ASSUME PipelineConstantsOK ==
    /\ ResearchSearches \subseteq Searches
    /\ RunTypes \in Seq(SUBSET (ResearchSearches \cup {"full"}))

\* An answer is a finite list; its prices and durations are numbers, of
\* either sign: nothing in the code rules out a negative one.
ASSUME AnswersOK ==
    /\ \A s \in ResearchSearches : \A answer \in Answers[s] : IsFiniteSet(answer)
    /\ \A batch \in Answers["activities"] : \A raw \in batch : raw.price \in Seq(Int)
    /\ \A rows \in Answers["flights"] : \A row \in rows : FlightMinutes(row) \in Int

------------------------------------------------------------------------------
ScopedTypes(type) == IF type = "full" THEN ResearchSearches ELSE {type}

\* Seeded fault: every search whatever the type of the run.
SearchesOf_AllTypes(type, airports, skipHotel) == ResearchSearches

\* Flights need both airport codes, hotels a leg that wants one.
SearchesOf(type, airports, skipHotel) ==
    {s \in ScopedTypes(type) : /\ s = "flights" => airports
                               /\ s = "hotels" => ~skipHotel}

Found(s) == s \in run.asked /\ calls[s].outcome \in {"options", "unusable"}

Unusable(s) == s \in run.asked /\ calls[s].outcome = "unusable"

SomeSearchRaised == \E s \in run.asked : calls[s].outcome = "raised"

Card(s, item) == [run |-> run.id, search |-> s, item |-> item, active |-> TRUE]

CardsOf(s) == {c \in cards : c.search = s}

\* Over every flight card of the leg, the superseded ones included.
ShortestFlight ==
    LET durations == {c.item.minutes : c \in CardsOf("flights")} IN
    IF durations = {} THEN NoFlights
    ELSE CHOOSE m \in durations : \A n \in durations : m <= n

Init ==
    /\ calls = [s \in Searches |-> NoCall]
    /\ run = [id |-> 0, type |-> "full", pc |-> "idle", status |-> None, asked |-> {}]
    /\ cards = {} /\ raws = {}

StartRun(type, airports, skipHotel) ==
    LET asked == SearchesOf(type, airports, skipHotel) IN
    /\ run.pc = "idle" /\ run.id < Len(RunTypes)
    /\ type \in RunTypes[run.id + 1]
    /\ run' = [id |-> run.id + 1, type |-> type, pc |-> "searching",
               status |-> "running", asked |-> asked]
    /\ calls' = [s \in Searches |->
                   IF s \in asked THEN Asked(s)
                   ELSE IF s \in ResearchSearches THEN NoCall ELSE calls[s]]
    /\ UNCHANGED <<cards, raws>>

Search(s) ==
    /\ run.pc = "searching" /\ CallStep(s)
    /\ UNCHANGED <<run, cards, raws>>

\* Seeded fault: gather without return_exceptions.
Gather_StopsAtAnException ==
    /\ run.pc = "searching"
    /\ \A s \in run.asked : calls[s].pc = "done"
    /\ run' = [run EXCEPT !.pc = IF SomeSearchRaised THEN "failing" ELSE "hotels"]
    /\ UNCHANGED <<calls, cards, raws>>

\* Exceptions are results like any other: the run waits for every search.
Gather ==
    /\ run.pc = "searching"
    /\ \A s \in run.asked : calls[s].pc = "done"
    /\ run' = [run EXCEPT !.pc = "hotels"]
    /\ UNCHANGED <<calls, cards, raws>>

------------------------------------------------------------------------------
(* One commit for each kind: the raw response and the options kept of it.   *)
(* What raised has neither.                                                 *)

Store(s, items, next) ==
    /\ run' = [run EXCEPT !.pc = next]
    /\ IF Found(s)
       THEN /\ raws' = raws \cup {[run |-> run.id, search |-> s]}
            /\ cards' = cards \cup {Card(s, item) : item \in items}
       ELSE UNCHANGED <<cards, raws>>
    /\ UNCHANGED calls

PersistHotels ==
    /\ run.pc = "hotels"
    /\ Store("hotels", calls["hotels"].options, "activities")

\* Of an unusable extraction the raw response is committed, then it raises.
PersistActivities ==
    /\ run.pc = "activities"
    /\ Store("activities",
             FilteredForPersistence(calls["activities"].options, ShortestFlight),
             IF Unusable("activities") THEN "failing" ELSE "flights")

PersistFlights ==
    /\ run.pc = "flights"
    /\ Store("flights", calls["flights"].options, "transport")

\* Seeded fault: the first error is logged but not raised.
PersistTransport_ForgetsErrors ==
    /\ run.pc = "transport"
    /\ Store("transport", WithCitations(calls["transport"].options),
             IF Unusable("transport") THEN "failing" ELSE "finish")

PersistTransport ==
    /\ run.pc = "transport"
    /\ Store("transport", WithCitations(calls["transport"].options),
             IF Unusable("transport") \/ SomeSearchRaised THEN "failing" ELSE "finish")

Finish ==
    LET kept == {c \in cards : c.run = run.id \/ c.search \notin ScopedTypes(run.type)} IN
    /\ run.pc = "finish"
    /\ cards' = kept \cup {[c EXCEPT !.active = FALSE] : c \in cards \ kept}
    /\ run' = [run EXCEPT !.pc = "idle", !.status = "completed"]
    /\ UNCHANGED <<calls, raws>>

Fail ==
    /\ run.pc = "failing"
    /\ run' = [run EXCEPT !.pc = "idle", !.status = "failed"]
    /\ UNCHANGED <<calls, cards, raws>>

Persist == PersistHotels \/ PersistActivities \/ PersistFlights \/ PersistTransport

RunStep == Gather \/ Persist \/ Finish \/ Fail

Next ==
    \/ \E type \in ResearchSearches \cup {"full"}, airports, skipHotel \in BOOLEAN :
         StartRun(type, airports, skipHotel)
    \/ \E s \in ResearchSearches : Search(s)
    \/ RunStep

Spec == Init /\ [][Next]_vars

\* Every await ends with a result or with the timeout of its HTTP client.
FairSpec == Spec /\ WF_vars(RunStep) /\ \A s \in ResearchSearches : WF_vars(Search(s))

------------------------------------------------------------------------------
Over == run.pc = "idle" /\ run.id > 0

StoredItems(s) == {c.item : c \in {d \in CardsOf(s) : d.run = run.id}}

(* The shape of the calls, the run, its cards and its raw responses. *)
TypeOK ==
    /\ CallTypeOK
    /\ run.id \in 0 .. Len(RunTypes)
    /\ run.pc \in RunPhases /\ run.status \in RunStatuses
    /\ run.asked \subseteq ScopedTypes(run.type)
    /\ \A c \in cards : /\ c.run \in 1 .. run.id /\ c.search \in ResearchSearches
                        /\ c.active \in BOOLEAN
    /\ \A r \in raws : r.run \in 1 .. run.id /\ r.search \in ResearchSearches

(* Whatever fails beside it, what a search found is kept: its raw response   *)
(* and, for hotels, flights and transport, every option.  The exception is   *)
(* an unusable activities extraction, which gives up flights and transport   *)
(* that were found (they are stored after it).                               *)
AnswersAreKept ==
    Over => \A s \in ResearchSearches :
        LET abandoned == s \in {"flights", "transport"} /\ Unusable("activities") IN
        /\ ([run |-> run.id, search |-> s] \in raws) <=> (Found(s) /\ ~abandoned)
        /\ (Found(s) /\ ~abandoned /\ s # "activities")
              => StoredItems(s) = calls[s].options

(* A price is judged among the prices of its own currency, and by the ratio  *)
(* only: what is within ten times each of its peers is stored, and what is   *)
(* beyond ten times each of two or more peers is not.                        *)
PricesJudgedAmongPeers ==
    (Over /\ Found("activities")) =>
        \A a \in calls["activities"].options :
            LET peers == {b \in calls["activities"].options \ {a} :
                            b.currency = a.currency}
                Near(b) == a.amount <= 10 * b.amount /\ b.amount <= 10 * a.amount
                Above(b) == a.amount > 10 * b.amount
                Below(b) == 10 * a.amount < b.amount
            IN /\ (a.timing \notin DayBound /\ \A b \in peers : Near(b))
                     => a \in StoredItems("activities")
               /\ (Cardinality(peers) > 1
                     /\ ((\A b \in peers : Above(b)) \/ (\A b \in peers : Below(b))))
                     => a \notin StoredItems("activities")

(* A run of activities alone, which has the flights of earlier runs before   *)
(* it, lists nothing for the days of arrival and departure of a leg all of   *)
(* whose flights are long - and everything if one of them is not.            *)
ActivitiesRunHeedsFlights ==
    (Over /\ run.type = "activities" /\ CardsOf("flights") # {}) =>
        IF \A c \in CardsOf("flights") : c.item.minutes > LongFlight
        THEN \A item \in StoredItems("activities") : item.timing \notin DayBound
        ELSE StoredItems("activities")
               = IF Found("activities")
                 THEN WithPlausiblePrices(calls["activities"].options) ELSE {}

(* Options leave the list only in the commit that completes a run over their *)
(* kind in which every search answered.                                      *)
OptionsLeaveWithAnswers ==
    [][\A c \in cards :
          (c.active /\ c \notin cards') =>
             /\ run.status = "running" /\ run'.status = "completed"
             /\ c.run < run.id
             /\ \A s \in run.asked : calls[s].outcome = "options"]_vars

(* Whatever the services answer, a run ends: attempts are bounded. *)
RunEnds == (run.pc # "idle") ~> (run.pc = "idle")
==============================================================================
