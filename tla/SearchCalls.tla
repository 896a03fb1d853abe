----------------------------- MODULE SearchCalls -----------------------------
(***************************************************************************)
(* The calls the API makes to search services: SerpApi over HTTP           *)
(* (research/serpapi.py), repeated after transport errors and some         *)
(* statuses, and the two-call language-model agents                        *)
(* (research/activities.py, research/transport.py), whose extraction is    *)
(* asked again with a correction when it is unusable.  Several are in      *)
(* flight at a time; each ends with options, with an unusable extraction   *)
(* or with an exception.                                                   *)
(*                                                                         *)
(* What a service answers is a choice among Answers[s]; parsing it, and    *)
(* what parsing drops, is part of the step that receives it.               *)
(***************************************************************************)
EXTENDS Integers, FiniteSets, Sequences, Functions

CONSTANTS
    Searches,      \* names of the calls that may be in flight
    HotelLookups,  \* those of them for the sellers of a hotel
    HttpRetries,   \* settings.serpapi_max_retries
    AgentRetries,  \* settings.anthropic_activities_max_retries
    Answers,       \* Answers[s]: the contents a service may answer s with
    None

Agents == {"activities", "transport"}

ASSUME CallConstantsOK ==
    /\ HttpRetries \in Nat
    /\ AgentRetries \in Nat
    /\ HotelLookups \subseteq Searches \ {"flights", "hotels"}
    /\ DOMAIN Answers = Searches
    /\ None \notin {"options", "unusable", "raised"}

VARIABLE calls

Outcomes == {None, "options", "unusable", "raised"}

CallPhases == {"idle", "asking", "research", "extract", "done"}

------------------------------------------------------------------------------
(* What an answer holds.  A price is written as <<>> (none), <<n>> or, for  *)
(* a range, <<low, high>>.                                                  *)

CoercedPrice(price) ==
    IF price = <<>> THEN None
    ELSE IF Len(price) = 1 THEN price[1]
    ELSE (price[1] + price[2]) \div 2

ValidActivity(raw) ==
    /\ raw.wellFormed /\ raw.citations > 0
    /\ CoercedPrice(raw.price) # None /\ raw.currency # None

ValidTransport(raw) ==
    /\ raw.wellFormed /\ raw.citations > 0
    /\ (CoercedPrice(raw.price) = None) <=> (raw.currency = None)

ActivityOf(raw) ==
    [id |-> raw.id, amount |-> CoercedPrice(raw.price),
     currency |-> raw.currency, timing |-> raw.timing,
     citations |-> raw.citations]

TransportOf(raw) ==
    [id |-> raw.id, amount |-> CoercedPrice(raw.price), citations |-> raw.citations]

ParsedEmit(s, batch) ==
    IF s = "activities"
    THEN {ActivityOf(raw) : raw \in {r \in batch : ValidActivity(r)}}
    ELSE {TransportOf(raw) : raw \in {r \in batch : ValidTransport(r)}}

\* The minutes of the segments that state theirs, 0 if none does, when the row
\* has no total.
Summed(minutes) ==
    FoldFunction(LAMBDA m, sum : IF m = None THEN sum ELSE sum + m, 0, minutes)

FlightMinutes(row) ==
    IF row.total # None THEN row.total ELSE Summed(row.segments)

\* A row that lacks something is dropped; one time that cannot be read
\* fails the search.
FlightsRaise(rows) == \E row \in rows : row.complete /\ ~row.readable

ParsedFlights(rows) == {[minutes |-> FlightMinutes(row)] : row \in {r \in rows : r.complete}}

ParsedHotels(rows) == {[id |-> row.id] : row \in {r \in rows : r.complete}}

\* Sellers of a flight: every complete row, as often as it is listed.
ParsedFlightSources(rows) ==
    {[at |-> i, offer |-> rows[i].offer] : i \in {j \in DOMAIN rows : rows[j].complete}}

\* Sellers of a hotel: the first of those with one seller, amount and link.
ParsedHotelSources(rows) ==
    {source \in ParsedFlightSources(rows) :
        \A other \in ParsedFlightSources(rows) :
            other.offer = source.offer => source.at <= other.at}

ParsedBody(s, body) ==
    CASE s = "flights" -> ParsedFlights(body)
      [] s = "hotels" -> ParsedHotels(body)
      [] s \in HotelLookups -> ParsedHotelSources(body)
      [] OTHER -> ParsedFlightSources(body)

------------------------------------------------------------------------------
NoCall == [pc |-> "idle", attempt |-> 0, bad |-> 0, outcome |-> None, options |-> {}]

Asked(s) ==
    [NoCall EXCEPT !.pc = IF s \in Agents THEN "research" ELSE "asking",
                   !.attempt = 1]

Raised(call) == [call EXCEPT !.pc = "done", !.outcome = "raised"]

Answered(call, options) ==
    [call EXCEPT !.pc = "done", !.outcome = "options", !.options = options]

\* Seeded fault: the backoffs start over instead of giving up.
AfterFailure_Endless(call) ==
    [call EXCEPT !.attempt = IF @ > HttpRetries THEN 1 ELSE @ + 1]

\* A transport error, or one of the statuses worth another attempt.
AfterFailure(call) ==
    IF call.attempt > HttpRetries THEN Raised(call)
    ELSE [call EXCEPT !.attempt = @ + 1]

HttpFails(s) ==
    /\ calls[s].pc = "asking"
    /\ calls' = [calls EXCEPT ![s] = AfterFailure(@)]

\* Another error status, a body that is not an object, or an error in it.
HttpRefuses(s) ==
    /\ calls[s].pc = "asking"
    /\ calls' = [calls EXCEPT ![s] = Raised(@)]

HttpAnswers(s) ==
    /\ calls[s].pc = "asking"
    /\ \E body \in Answers[s] :
         calls' = [calls EXCEPT ![s] =
                     IF s = "flights" /\ FlightsRaise(body) THEN Raised(@)
                     ELSE Answered(@, ParsedBody(s, body))]

\* The web-search call; an APIError in it, or in an extraction, ends the agent.
ResearchAnswers(s) ==
    /\ calls[s].pc = "research"
    /\ calls' = [calls EXCEPT ![s].pc = "extract"]

AgentRaises(s) ==
    /\ calls[s].pc \in {"research", "extract"}
    /\ calls' = [calls EXCEPT ![s] = Raised(@)]

\* Seeded fault: one correction too many.
AfterUnusable_OneMore(call) ==
    IF call.attempt > 1 + AgentRetries
    THEN [call EXCEPT !.pc = "done", !.outcome = "unusable", !.bad = @ + 1]
    ELSE [call EXCEPT !.attempt = @ + 1, !.bad = @ + 1]

\* No tool call, or one whose batch does not validate: a correction is asked
\* for until the attempts are used up.
AfterUnusable(call) ==
    IF call.attempt >= 1 + AgentRetries
    THEN [call EXCEPT !.pc = "done", !.outcome = "unusable", !.bad = @ + 1]
    ELSE [call EXCEPT !.attempt = @ + 1, !.bad = @ + 1]

ExtractUnusable(s) ==
    /\ calls[s].pc = "extract"
    /\ calls' = [calls EXCEPT ![s] = AfterUnusable(@)]

\* A batch that validates; options that do not are dropped one by one.
ExtractAnswers(s) ==
    /\ calls[s].pc = "extract"
    /\ \E batch \in Answers[s] :
         calls' = [calls EXCEPT ![s] = Answered(@, ParsedEmit(s, batch))]

CallStep(s) ==
    \/ HttpFails(s) \/ HttpRefuses(s) \/ HttpAnswers(s)
    \/ ResearchAnswers(s) \/ AgentRaises(s)
    \/ ExtractUnusable(s) \/ ExtractAnswers(s)

------------------------------------------------------------------------------
CallTypeOK ==
    \A s \in Searches :
        /\ calls[s].pc \in CallPhases
        /\ calls[s].attempt \in 0 .. 1 + HttpRetries + AgentRetries
        /\ calls[s].bad \in 0 .. 1 + AgentRetries
        /\ calls[s].outcome \in Outcomes

(* However the attempts go, a call that is over has one answer: an agent is *)
(* unusable only after every attempt was, options come of the one attempt    *)
(* after the unusable ones, and nothing is asked more often than the          *)
(* settings allow (each attempt is paid for).                                *)
AnswersComeOfTheLastAttempt ==
    \A s \in Searches :
        LET call == calls[s]
            limit == 1 + IF s \in Agents THEN AgentRetries ELSE HttpRetries IN
        /\ call.attempt <= limit
        /\ call.outcome = "unusable" => call.bad = limit
        /\ call.outcome = "options" => call.bad < limit
        /\ (s \in Agents /\ call.outcome = "options") => call.attempt = call.bad + 1
        /\ call.options # {} => call.outcome = "options"
        /\ (call.pc = "done") <=> (call.outcome # None)
==============================================================================
