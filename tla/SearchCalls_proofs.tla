-------------------------- MODULE SearchCalls_proofs --------------------------
(***************************************************************************)
(* What the calls in flight have in common, for any settings and whatever  *)
(* the services answer, for the modules that make the calls; and, of those *)
(* modules, the theorems about BookingSources.                             *)
(***************************************************************************)
EXTENDS BookingSources, TLAPS

Limit(s) == 1 + IF s \in Agents THEN AgentRetries ELSE HttpRetries

CallsOver(S) ==
    [pc : CallPhases, attempt : Nat, bad : Nat, outcome : Outcomes, options : S]

IsCall(call) == \E S : call \in CallsOver(S)

\* What may be said of a call to s at any time: an agent has as many unusable
\* answers behind it as attempts but the last.
Sensible(s, call) ==
    /\ IsCall(call)
    /\ call.attempt <= Limit(s) /\ call.bad <= Limit(s)
    /\ call.pc = "asking" => s \notin Agents
    /\ call.pc \in {"research", "extract"} => s \in Agents
    /\ s \notin Agents => call.bad = 0
    /\ (s \in Agents /\ call.pc \in {"research", "extract"}) => call.attempt = call.bad + 1
    /\ call.pc = "done" <=> call.outcome # None
    /\ call.options # {} => call.outcome = "options"
    /\ call.outcome = "unusable" => s \in Agents /\ call.bad = Limit(s)
    /\ call.outcome = "options" =>
          call.bad < Limit(s) /\ (s \in Agents => call.attempt = call.bad + 1)

CallsInv ==
    /\ DOMAIN calls = Searches
    /\ \A s \in Searches : Sensible(s, calls[s])

LEMMA LimitPositive == \A s : Limit(s) \in Nat /\ Limit(s) >= 1
BY CallConstantsOK DEF Limit

LEMMA NoCallSensible == \A s : Sensible(s, NoCall)
<1> TAKE s
<1>1. NoCall \in CallsOver({{}})
    BY DEF NoCall, CallsOver, CallPhases, Outcomes
<1>2. IsCall(NoCall)
    BY <1>1 DEF IsCall
<1> QED
    BY <1>2, LimitPositive, CallConstantsOK DEF Sensible, NoCall

LEMMA AskedSensible ==
    \A s : Sensible(s, Asked(s)) /\ Asked(s).pc \in {"asking", "research"}
<1> TAKE s
<1> DEFINE pc == IF s \in Agents THEN "research" ELSE "asking"
<1>1. Asked(s) = [NoCall EXCEPT !.pc = pc, !.attempt = 1]
    BY DEF Asked
<1>2. pc \in CallPhases /\ pc \in {"asking", "research"}
      /\ (pc = "asking" => s \notin Agents) /\ (pc = "research" => s \in Agents)
    BY DEF CallPhases
<1> HIDE DEF pc
<1>3. NoCall \in CallsOver({{}})
    BY DEF NoCall, CallsOver, CallPhases, Outcomes
<1>4. Asked(s) \in CallsOver({{}})
    <2>1. ASSUME NEW call \in CallsOver({{}})
          PROVE  [call EXCEPT !.pc = pc, !.attempt = 1] \in CallsOver({{}})
        BY <1>2 DEF CallsOver
    <2> QED
        BY <1>1, <1>3, <2>1
<1>5. /\ Asked(s).pc = pc /\ Asked(s).attempt = 1 /\ Asked(s).bad = 0
      /\ Asked(s).outcome = None /\ Asked(s).options = {}
    BY <1>1 DEF NoCall
<1>6. IsCall(Asked(s))
    BY <1>4 DEF IsCall
<1> QED
    BY <1>2, <1>5, <1>6, LimitPositive, CallConstantsOK DEF Sensible

LEMMA RaisedSensible ==
    ASSUME NEW s, NEW call, Sensible(s, call), call.pc # "done"
    PROVE  Sensible(s, Raised(call)) /\ Raised(call).pc # "idle"
<1>1. PICK S : call \in CallsOver(S)
    BY DEF Sensible, IsCall
<1>2. Raised(call) \in CallsOver(S)
    BY <1>1 DEF CallsOver, Raised, CallPhases, Outcomes
<1>3. /\ Raised(call).pc = "done" /\ Raised(call).outcome = "raised"
      /\ Raised(call).attempt = call.attempt /\ Raised(call).bad = call.bad
      /\ Raised(call).options = call.options
    BY <1>1 DEF CallsOver, Raised
<1>4. call.outcome = None /\ call.options = {}
    BY CallConstantsOK DEF Sensible
<1>5. IsCall(Raised(call))
    BY <1>2 DEF IsCall
<1> QED
    BY <1>3, <1>4, <1>5, CallConstantsOK DEF Sensible

LEMMA AnsweredSensible ==
    ASSUME NEW s, NEW call, NEW options, Sensible(s, call),
           call.pc \in {"asking", "extract"}
    PROVE  Sensible(s, Answered(call, options)) /\ Answered(call, options).pc # "idle"
<1> DEFINE new == Answered(call, options)
<1>1. PICK S : call \in CallsOver(S)
    BY DEF Sensible, IsCall
<1>2. call \in CallsOver(S \cup {options})
    BY <1>1 DEF CallsOver
<1>3. new \in CallsOver(S \cup {options})
    BY <1>2 DEF CallsOver, Answered, CallPhases, Outcomes
<1>4. /\ new.pc = "done" /\ new.outcome = "options"
      /\ new.attempt = call.attempt /\ new.bad = call.bad
    BY <1>1 DEF CallsOver, Answered
<1>5. call.attempt \in Nat /\ call.bad \in Nat
    BY <1>1 DEF CallsOver
<1>6. call.bad < Limit(s) /\ (s \in Agents => call.attempt = call.bad + 1)
    BY <1>5, LimitPositive DEF Sensible
<1>7. IsCall(new)
    BY <1>3 DEF IsCall
<1> HIDE DEF new
<1>8. Sensible(s, new) /\ new.pc # "idle"
    BY <1>4, <1>6, <1>7, CallConstantsOK DEF Sensible
<1> QED
    BY <1>8 DEF new

LEMMA FailureSensible ==
    ASSUME NEW s, NEW call, Sensible(s, call), call.pc = "asking"
    PROVE  Sensible(s, AfterFailure(call)) /\ AfterFailure(call).pc # "idle"
<1>1. CASE call.attempt > HttpRetries
    BY <1>1, RaisedSensible DEF AfterFailure
<1>2. CASE ~(call.attempt > HttpRetries)
    <2> DEFINE new == AfterFailure(call)
    <2>1. PICK S : call \in CallsOver(S)
        BY DEF Sensible, IsCall
    <2>2. new = [call EXCEPT !.attempt = call.attempt + 1]
        BY <1>2 DEF AfterFailure
    <2> HIDE DEF new
    <2>3. call.attempt \in Nat
        BY <2>1 DEF CallsOver
    <2>4. new \in CallsOver(S)
        BY <2>1, <2>2, <2>3 DEF CallsOver
    <2>5. /\ new.pc = call.pc /\ new.outcome = call.outcome /\ new.bad = call.bad
          /\ new.options = call.options /\ new.attempt = call.attempt + 1
        BY <2>1, <2>2 DEF CallsOver
    <2>6. s \notin Agents /\ call.attempt + 1 <= Limit(s) /\ call.outcome = None
        BY <1>2, <2>3, CallConstantsOK DEF Sensible, Limit
    <2>7. IsCall(new)
        BY <2>4 DEF IsCall
    <2>8. Sensible(s, new) /\ new.pc # "idle"
        BY <2>5, <2>6, <2>7, CallConstantsOK DEF Sensible
    <2> QED
        BY <2>8 DEF new
<1> QED
    BY <1>1, <1>2

LEMMA UnusableSensible ==
    ASSUME NEW s, NEW call, Sensible(s, call), call.pc = "extract"
    PROVE  Sensible(s, AfterUnusable(call)) /\ AfterUnusable(call).pc # "idle"
<1> DEFINE new == AfterUnusable(call)
<1>1. PICK S : call \in CallsOver(S)
    BY DEF Sensible, IsCall
<1>2. /\ s \in Agents /\ Limit(s) = 1 + AgentRetries /\ call.attempt = call.bad + 1
      /\ call.outcome = None /\ call.options = {}
    BY CallConstantsOK DEF Sensible, Limit
<1>3. call.attempt \in Nat /\ call.bad \in Nat /\ AgentRetries \in Nat
      /\ call.attempt <= 1 + AgentRetries
    BY <1>1, <1>2, CallConstantsOK DEF CallsOver, Sensible
<1>4. CASE call.attempt >= 1 + AgentRetries
    <2>1. new = [call EXCEPT !.pc = "done", !.outcome = "unusable", !.bad = call.bad + 1]
        BY <1>4 DEF AfterUnusable
    <2> HIDE DEF new
    <2>2. new \in CallsOver(S)
        <3>1. ASSUME NEW bad \in Nat
              PROVE  [call EXCEPT !.pc = "done", !.outcome = "unusable", !.bad = bad]
                       \in CallsOver(S)
            BY <1>1 DEF CallsOver, CallPhases, Outcomes
        <3>2. call.bad + 1 \in Nat
            BY <1>3
        <3> QED
            BY <2>1, <3>1, <3>2
    <2>3. /\ new.pc = "done" /\ new.outcome = "unusable" /\ new.bad = call.bad + 1
          /\ new.options = call.options /\ new.attempt = call.attempt
        BY <1>1, <2>1 DEF CallsOver
    <2>4. call.bad + 1 = Limit(s)
        BY <1>2, <1>3, <1>4
    <2>5. IsCall(new)
        BY <2>2 DEF IsCall
    <2>6. Sensible(s, new) /\ new.pc # "idle"
        BY <1>2, <1>3, <2>3, <2>4, <2>5, CallConstantsOK DEF Sensible
    <2> QED
        BY <2>6 DEF new
<1>5. CASE ~(call.attempt >= 1 + AgentRetries)
    <2>1. new = [call EXCEPT !.attempt = call.attempt + 1, !.bad = call.bad + 1]
        BY <1>5 DEF AfterUnusable
    <2> HIDE DEF new
    <2>2. new \in CallsOver(S)
        <3>1. ASSUME NEW attempt \in Nat, NEW bad \in Nat
              PROVE  [call EXCEPT !.attempt = attempt, !.bad = bad] \in CallsOver(S)
            BY <1>1 DEF CallsOver
        <3>2. call.attempt + 1 \in Nat /\ call.bad + 1 \in Nat
            BY <1>3
        <3> QED
            BY <2>1, <3>1, <3>2
    <2>3. /\ new.pc = call.pc /\ new.outcome = call.outcome /\ new.bad = call.bad + 1
          /\ new.options = call.options /\ new.attempt = call.attempt + 1
        BY <1>1, <2>1 DEF CallsOver
    <2>4. call.attempt + 1 <= Limit(s) /\ call.bad + 1 <= Limit(s)
        BY <1>2, <1>3, <1>5
    <2>5. IsCall(new)
        BY <2>2 DEF IsCall
    <2>6. Sensible(s, new) /\ new.pc # "idle"
        BY <1>2, <1>3, <2>3, <2>4, <2>5, CallConstantsOK DEF Sensible
    <2> QED
        BY <2>6 DEF new
<1> QED
    BY <1>4, <1>5

\* A research call that answers.
LEMMA ResearchSensible ==
    ASSUME NEW s, NEW call, Sensible(s, call), call.pc = "research"
    PROVE  /\ Sensible(s, [call EXCEPT !.pc = "extract"])
           /\ [call EXCEPT !.pc = "extract"].pc = "extract"
<1> DEFINE new == [call EXCEPT !.pc = "extract"]
<1>1. PICK S : call \in CallsOver(S)
    BY DEF Sensible, IsCall
<1>2. new \in CallsOver(S)
    BY <1>1 DEF CallsOver, CallPhases
<1>3. /\ new.pc = "extract" /\ new.outcome = call.outcome /\ new.bad = call.bad
      /\ new.options = call.options /\ new.attempt = call.attempt
    BY <1>1 DEF CallsOver
<1>4. IsCall(new)
    BY <1>2 DEF IsCall
<1> HIDE DEF new
<1>5. Sensible(s, new)
    BY <1>3, <1>4, CallConstantsOK DEF Sensible
<1> QED
    BY <1>3, <1>5 DEF new

\* A step of a call is one of a call that is under way, and keeps it sensible.
LEMMA CallSteps ==
    ASSUME CallsInv, NEW s \in Searches, CallStep(s)
    PROVE  /\ CallsInv'
           /\ calls[s].pc \notin {"idle", "done"} /\ calls'[s].pc # "idle"
           /\ \A t \in Searches \ {s} : calls'[t] = calls[t]
<1> DEFINE call == calls[s]
<1>1. Sensible(s, call)
    BY DEF CallsInv
<1>2. \E new : /\ calls' = [calls EXCEPT ![s] = new]
               /\ Sensible(s, new) /\ new.pc # "idle"
               /\ call.pc \notin {"idle", "done"}
    <2>1. CASE HttpFails(s)
        BY <1>1, <2>1, FailureSensible DEF HttpFails
    <2>2. CASE HttpRefuses(s) \/ AgentRaises(s)
        BY <1>1, <2>2, RaisedSensible DEF HttpRefuses, AgentRaises
    <2>3. CASE HttpAnswers(s)
        <3>1. PICK body \in Answers[s] :
                 calls' = [calls EXCEPT ![s] =
                             IF s = "flights" /\ FlightsRaise(body) THEN Raised(call)
                             ELSE Answered(call, ParsedBody(s, body))]
            BY <2>3 DEF HttpAnswers
        <3>2. call.pc = "asking"
            BY <2>3 DEF HttpAnswers
        <3>3. /\ Sensible(s, Raised(call)) /\ Raised(call).pc # "idle"
              /\ Sensible(s, Answered(call, ParsedBody(s, body)))
              /\ Answered(call, ParsedBody(s, body)).pc # "idle"
            BY <1>1, <3>2, RaisedSensible, AnsweredSensible
        <3>4. CASE s = "flights" /\ FlightsRaise(body)
            BY <3>1, <3>2, <3>3, <3>4
        <3>5. CASE ~(s = "flights" /\ FlightsRaise(body))
            BY <3>1, <3>2, <3>3, <3>5
        <3> QED
            BY <3>4, <3>5
    <2>4. CASE ResearchAnswers(s)
        <3>1. calls' = [calls EXCEPT ![s] = [call EXCEPT !.pc = "extract"]]
              /\ call.pc = "research"
            BY <2>4 DEF ResearchAnswers
        <3>2. /\ Sensible(s, [call EXCEPT !.pc = "extract"])
              /\ [call EXCEPT !.pc = "extract"].pc # "idle"
            BY <1>1, <3>1, ResearchSensible
        <3> HIDE DEF call
        <3> QED
            BY <3>1, <3>2
    <2>5. CASE ExtractUnusable(s)
        BY <1>1, <2>5, UnusableSensible DEF ExtractUnusable
    <2>6. CASE ExtractAnswers(s)
        BY <1>1, <2>6, AnsweredSensible DEF ExtractAnswers
    <2> QED
        BY <2>1, <2>2, <2>3, <2>4, <2>5, <2>6 DEF CallStep
<1> HIDE DEF call
<1>3. PICK new : /\ calls' = [calls EXCEPT ![s] = new]
                 /\ Sensible(s, new) /\ new.pc # "idle"
                 /\ call.pc \notin {"idle", "done"}
    BY <1>2
<1>4. \A t \in Searches : calls'[t] = IF t = s THEN new ELSE calls[t]
    BY <1>3 DEF CallsInv
<1>5. CallsInv'
    <2>1. DOMAIN calls' = Searches
        BY <1>3 DEF CallsInv
    <2>2. ASSUME NEW t \in Searches PROVE Sensible(t, calls'[t])
        BY <1>3, <1>4 DEF CallsInv
    <2> QED
        BY <2>1, <2>2 DEF CallsInv, Sensible
<1> QED
    BY <1>3, <1>4, <1>5 DEF call

\* What a call has found it has found in one answer.
LEMMA OptionsOfAnAnswer ==
    ASSUME CallsInv, NEW s \in Searches, CallStep(s)
    PROVE  \/ calls'[s].options = calls[s].options
           \/ s \notin Agents /\ \E body \in Answers[s] : calls'[s].options = ParsedBody(s, body)
           \/ s \in Agents /\ \E batch \in Answers[s] : calls'[s].options = ParsedEmit(s, batch)
<1> DEFINE call == calls[s]
<1>1. PICK S : call \in CallsOver(S)
    BY DEF CallsInv, Sensible, IsCall
<1>2. \A new : calls' = [calls EXCEPT ![s] = new] => calls'[s] = new
    BY DEF CallsInv
<1>3. \A options : Answered(call, options).options = options
    BY <1>1 DEF Answered, CallsOver
<1>4. /\ Raised(call).options = call.options
      /\ AfterUnusable(call).options = call.options
      /\ AfterFailure(call).options = call.options
      /\ [call EXCEPT !.pc = "extract"].options = call.options
    BY <1>1 DEF Raised, AfterUnusable, AfterFailure, CallsOver
<1>5. call.pc = "asking" => s \notin Agents
    BY DEF CallsInv, Sensible
<1>6. call.pc = "extract" => s \in Agents
    BY DEF CallsInv, Sensible
<1>7. CASE HttpFails(s)
    BY <1>2, <1>4, <1>7 DEF HttpFails
<1>8. CASE HttpRefuses(s) \/ AgentRaises(s)
    BY <1>2, <1>4, <1>8 DEF HttpRefuses, AgentRaises
<1>9. CASE HttpAnswers(s)
    <2>1. PICK body \in Answers[s] :
             calls' = [calls EXCEPT ![s] =
                         IF s = "flights" /\ FlightsRaise(body) THEN Raised(call)
                         ELSE Answered(call, ParsedBody(s, body))]
        BY <1>9 DEF HttpAnswers
    <2>2. calls'[s] \in {Raised(call), Answered(call, ParsedBody(s, body))}
        BY <1>2, <2>1
    <2>3. s \notin Agents
        BY <1>5, <1>9 DEF HttpAnswers
    <2> QED
        BY <1>3, <1>4, <2>2, <2>3
<1>10. CASE ResearchAnswers(s)
    <2>1. calls' = [calls EXCEPT ![s] = [call EXCEPT !.pc = "extract"]]
        BY <1>10 DEF ResearchAnswers
    <2> QED
        BY <1>2, <1>4, <2>1
<1>11. CASE ExtractUnusable(s)
    BY <1>2, <1>4, <1>11 DEF ExtractUnusable
<1>12. CASE ExtractAnswers(s)
    <2>1. PICK batch \in Answers[s] :
             calls' = [calls EXCEPT ![s] = Answered(call, ParsedEmit(s, batch))]
        BY <1>12 DEF ExtractAnswers
    <2>2. s \in Agents
        BY <1>6, <1>12 DEF ExtractAnswers
    <2> QED
        BY <1>2, <1>3, <2>1, <2>2
<1> QED
    BY <1>7, <1>8, <1>9, <1>10, <1>11, <1>12 DEF CallStep

LEMMA CallsUnchanged == CallsInv /\ UNCHANGED calls => CallsInv'
BY DEF CallsInv, Sensible

LEMMA CallsSay == CallsInv => CallTypeOK /\ AnswersComeOfTheLastAttempt
<1> SUFFICES ASSUME CallsInv, NEW s \in Searches
             PROVE  LET call == calls[s]
                        limit == 1 + IF s \in Agents THEN AgentRetries ELSE HttpRetries IN
                    /\ call.pc \in CallPhases
                    /\ call.attempt \in 0 .. 1 + HttpRetries + AgentRetries
                    /\ call.bad \in 0 .. 1 + AgentRetries
                    /\ call.outcome \in Outcomes
                    /\ call.attempt <= limit
                    /\ call.outcome = "unusable" => call.bad = limit
                    /\ call.outcome = "options" => call.bad < limit
                    /\ (s \in Agents /\ call.outcome = "options") => call.attempt = call.bad + 1
                    /\ call.options # {} => call.outcome = "options"
                    /\ (call.pc = "done") <=> (call.outcome # None)
    BY DEF CallTypeOK, AnswersComeOfTheLastAttempt
<1>1. Sensible(s, calls[s])
    BY DEF CallsInv
<1> QED
    <2>1. PICK S : calls[s] \in CallsOver(S)
        BY <1>1 DEF Sensible, IsCall
    <2> QED
        BY <1>1, <2>1, CallConstantsOK DEF Sensible, CallsOver, Limit

-----------------------------------------------------------------------------
(* The booking sources: for every number of requests, every lifetime of a *)
(* row and every party.                                                   *)

Parties == [adults : Nat, children : Nat]

LookupPhases == {"idle", "party", "fetching", "answered", "refused"}

LookupsOver(S) ==
    [pc : LookupPhases, asked : Nat, party : Parties \cup {None},
     trip : Parties \cup {None}, answer : S]

IsLookup(l) == \E S : l \in LookupsOver(S)

\* The party asked for is the trip's, made to fit.
PartyFits(l) ==
    l.party # None =>
        /\ l.trip \in Parties /\ l.party = HotelParty(l.trip)
        /\ Total(l.party) <= MaxParty

\* A request that will fetch has seen no row alive: what is stored now was
\* stored after it looked, or had expired when it did.
SawNothing(l) ==
    \A b \in batches :
        b.rows # {} => l.asked <= b.written \/ b.written + TTL <= l.asked

SourcesShapes ==
    /\ CallsInv
    /\ card \in {"flight", "hotel"} /\ now \in 0 .. MaxNow /\ travelers \in Parties
    /\ DOMAIN lookups = AllLookups
    /\ \A r \in AllLookups :
          /\ IsLookup(lookups[r]) /\ lookups[r].asked <= now
          /\ lookups[r].pc # "fetching" => calls[r] = NoCall
    /\ \A b \in batches :
          b.by \in Lookups /\ b.asked \in 0 .. b.written /\ b.written \in 0 .. now

Looked ==
    \A r \in AllLookups :
        /\ PartyFits(lookups[r])
        /\ lookups[r].pc \in {"party", "fetching"} => SawNothing(lookups[r])

SourcesInv == SourcesShapes /\ Looked /\ SecondFetchesOverlap

-----------------------------------------------------------------------------
(* The party *)

LEMMA PartyOfTrip ==
    ASSUME NEW trip \in Parties
    PROVE  LET party == HotelParty(trip) IN
           /\ party \in Parties
           /\ Total(party) \in Nat /\ Total(party) > 0
           /\ party.children = trip.children
           /\ Total(trip) \in 1 .. MaxParty => party = trip
           /\ (Total(trip) > MaxParty /\ Total(party) <= MaxParty) => Total(party) = MaxParty
<1> DEFINE party == IF Total(trip) = 0 THEN [trip EXCEPT !.adults = 1] ELSE trip
           over == Total(party) - MaxParty
           cut == IF over <= party.adults THEN party.adults - over ELSE 0
<1>1. trip.adults \in Nat /\ trip.children \in Nat /\ MaxParty \in Nat \ {0}
    BY BookingConstantsOK DEF Parties
<1>2. party \in Parties /\ party.children = trip.children
      /\ (Total(trip) # 0 => party = trip) /\ (Total(trip) = 0 => party.adults = 1)
    BY <1>1 DEF Parties
<1>3. party.adults \in Nat /\ party.children \in Nat
    BY <1>2 DEF Parties
<1>4. Total(party) > 0 /\ (Total(trip) > MaxParty => party = trip)
    BY <1>1, <1>2, <1>3 DEF Total
<1>5. HotelParty(trip) = IF over <= 0 THEN party ELSE [party EXCEPT !.adults = cut]
    BY DEF HotelParty
<1> HIDE DEF party
<1>6. CASE over <= 0
    <2>1. HotelParty(trip) = party
        BY <1>5, <1>6
    <2>2. Total(party) <= MaxParty
        BY <1>1, <1>3, <1>6 DEF Total
    <2> QED
        BY <1>1, <1>2, <1>3, <1>4, <2>1, <2>2 DEF Total
<1>7. CASE ~(over <= 0)
    <2>1. cut \in Nat
        BY <1>1, <1>3, <1>7 DEF Total
    <2> DEFINE new == [party EXCEPT !.adults = cut]
    <2>2. HotelParty(trip) = new
        BY <1>5, <1>7
    <2>3. over <= party.adults => cut = party.adults - over
        OBVIOUS
    <2>4. ~(over <= party.adults) => cut = 0
        OBVIOUS
    <2> HIDE DEF cut
    <2>5. new \in Parties /\ new.adults = cut /\ new.children = party.children
        BY <1>2, <2>1 DEF Parties
    <2> HIDE DEF new
    <2>6. Total(new) = cut + party.children /\ Total(party) = party.adults + party.children
        BY <2>5 DEF Total
    <2>7. Total(party) > MaxParty
        BY <1>1, <1>3, <1>7, <2>6
    <2>8. Total(new) > 0 /\ (Total(new) <= MaxParty => Total(new) = MaxParty)
        BY <1>1, <1>3, <1>7, <2>1, <2>3, <2>4, <2>6, <2>7
    <2>9. ~(Total(trip) \in 1 .. MaxParty)
        BY <1>1, <1>2, <2>7 DEF Total
    <2> QED
        BY <1>2, <1>3, <2>1, <2>2, <2>5, <2>6, <2>8, <2>9
<1> QED
    BY <1>6, <1>7

-----------------------------------------------------------------------------
(* The steps *)

LEMMA LookupsAreSearches == AllLookups \subseteq Searches /\ Lookups \subseteq AllLookups
BY BookingConstantsOK, CallConstantsOK DEF AllLookups, Lookups

\* The call of a request that has its answer is forgotten.
LEMMA CallEnds ==
    ASSUME CallsInv, NEW s \in Searches, calls' = [calls EXCEPT ![s] = NoCall]
    PROVE  CallsInv' /\ calls'[s] = NoCall /\ \A t \in Searches \ {s} : calls'[t] = calls[t]
<1>1. DOMAIN calls' = Searches /\ \A t \in Searches : calls'[t] = IF t = s THEN NoCall ELSE calls[t]
    BY DEF CallsInv
<1>2. \A t \in Searches : Sensible(t, calls'[t])
    BY <1>1, NoCallSensible DEF CallsInv
<1>3. CallsInv'
    BY <1>1, <1>2 DEF CallsInv, Sensible
<1> QED
    BY <1>1, <1>3

\* A request goes on, its call with it; the rows stay.
LEMMA RequestStep ==
    ASSUME SourcesInv, NEW r \in Lookups, NEW l, IsLookup(l), l.asked <= now,
           lookups' = [lookups EXCEPT ![r] = l],
           CallsInv', \A s \in Searches \ {r} : calls'[s] = calls[s],
           l.pc # "fetching" => calls'[r] = NoCall,
           PartyFits(l), l.pc \in {"party", "fetching"} => SawNothing(l),
           UNCHANGED <<card, now, travelers, batches>>
    PROVE  SourcesInv'
<1>1. \A q \in AllLookups : lookups'[q] = IF q = r THEN l ELSE lookups[q]
    BY LookupsAreSearches DEF SourcesInv, SourcesShapes
<1>2. SourcesShapes'
    <2>1. DOMAIN lookups' = AllLookups /\ AllLookups' = AllLookups /\ Lookups' = Lookups
        BY DEF SourcesInv, SourcesShapes, AllLookups, Lookups
    <2>2. ASSUME NEW q \in AllLookups
          PROVE  /\ IsLookup(lookups'[q]) /\ lookups'[q].asked <= now'
                 /\ lookups'[q].pc # "fetching" => calls'[q] = NoCall
        BY <1>1, LookupsAreSearches DEF SourcesInv, SourcesShapes
    <2> QED
        BY <2>1, <2>2 DEF SourcesInv, SourcesShapes, IsLookup, LookupsOver
<1>3. Looked'
    <2>1. ASSUME NEW q \in AllLookups
          PROVE  /\ PartyFits(lookups'[q])
                 /\ lookups'[q].pc \in {"party", "fetching"} => SawNothing(lookups'[q])
        BY <1>1 DEF SourcesInv, Looked
    <2> QED
        BY <2>1 DEF Looked, AllLookups, PartyFits, SawNothing, Parties
<1>4. SecondFetchesOverlap'
    BY DEF SourcesInv, SecondFetchesOverlap
<1> QED
    BY <1>2, <1>3, <1>4 DEF SourcesInv

LEMMA LookUpStep ==
    ASSUME SourcesInv, NEW r \in Lookups, LookUp(r)
    PROVE  SourcesInv'
<1> DEFINE alive == {b \in batches : Alive(b)}
           pc == IF alive # {} THEN "answered" ELSE IF card = "hotel" THEN "party" ELSE "fetching"
           answer == UNION {b.rows : b \in alive}
           l == [lookups[r] EXCEPT !.asked = now, !.pc = pc, !.answer = answer]
<1>1. r \in AllLookups /\ r \in Searches /\ CallsInv
    BY LookupsAreSearches DEF SourcesInv, SourcesShapes
<1>2. now \in Nat /\ lookups[r].pc = "idle" /\ calls[r] = NoCall
      /\ lookups' = [lookups EXCEPT ![r] = l] /\ UNCHANGED <<card, now, travelers, batches>>
    BY <1>1 DEF LookUp, SourcesInv, SourcesShapes
<1>3. PICK S : lookups[r] \in LookupsOver(S)
    BY <1>1 DEF SourcesInv, SourcesShapes, IsLookup
<1>4. lookups[r] \in LookupsOver(S \cup {answer})
    BY <1>3 DEF LookupsOver
<1>5. pc \in LookupPhases /\ (pc \in {"party", "fetching"} => alive = {})
      /\ (pc = "fetching" <=> alive = {} /\ card # "hotel")
    BY DEF LookupPhases
<1>6. card # "hotel" <=> card = "flight"
    BY DEF SourcesInv, SourcesShapes
<1>7. calls' = IF alive = {} /\ card = "flight" THEN [calls EXCEPT ![r] = Asked(r)] ELSE calls
    BY DEF LookUp
<1> HIDE DEF pc, answer
<1>8. l \in LookupsOver(S \cup {answer})
    BY <1>2, <1>4, <1>5 DEF LookupsOver
<1>9. l.pc = pc /\ l.asked = now /\ l.party = lookups[r].party /\ l.trip = lookups[r].trip
    BY <1>3 DEF LookupsOver
<1> HIDE DEF l
<1>10. IsLookup(l)
    BY <1>8 DEF IsLookup
<1>11. PartyFits(l)
    BY <1>1, <1>9 DEF SourcesInv, Looked, PartyFits
<1>12. l.pc \in {"party", "fetching"} => SawNothing(l)
    <2> SUFFICES ASSUME alive = {}, NEW b \in batches, b.rows # {}
                 PROVE  b.written + TTL <= now
        BY <1>5, <1>9 DEF SawNothing
    <2>1. ~(now < b.written + TTL)
        BY DEF Alive
    <2>2. b.written \in Nat
        BY DEF SourcesInv, SourcesShapes
    <2> QED
        BY <1>2, <2>1, <2>2, BookingConstantsOK
<1>13. CallsInv' /\ (\A s \in Searches \ {r} : calls'[s] = calls[s])
       /\ (l.pc # "fetching" => calls'[r] = NoCall)
    <2> HIDE DEF alive
    <2>1. CASE alive = {} /\ card = "flight"
        <3>1. calls' = [calls EXCEPT ![r] = Asked(r)]
            BY <1>7, <2>1
        <3>2. \A s \in Searches : calls'[s] = IF s = r THEN Asked(r) ELSE calls[s]
            BY <1>1, <3>1 DEF CallsInv
        <3>3. DOMAIN calls' = Searches
            BY <1>1, <3>1 DEF CallsInv
        <3>4. \A s \in Searches : Sensible(s, calls'[s])
            BY <1>1, <3>2, AskedSensible DEF CallsInv
        <3>5. CallsInv'
            BY <3>3, <3>4 DEF CallsInv, Sensible
        <3> QED
            BY <1>5, <1>6, <1>9, <2>1, <3>2, <3>5
    <2>2. CASE ~(alive = {} /\ card = "flight")
        BY <1>1, <1>2, <1>5, <1>6, <1>7, <1>9, <2>2, CallsUnchanged
    <2> QED
        BY <2>1, <2>2
<1>14. l.asked <= now
    BY <1>2, <1>9
<1> QED
    BY <1>2, <1>10, <1>11, <1>12, <1>13, <1>14, RequestStep

LEMMA ReadPartyStep ==
    ASSUME SourcesInv, NEW r \in Lookups, ReadParty(r)
    PROVE  SourcesInv'
<1> DEFINE party == HotelParty(travelers)
<1>1. r \in AllLookups /\ r \in Searches /\ CallsInv /\ travelers \in Parties
    BY LookupsAreSearches DEF SourcesInv, SourcesShapes
<1>2. /\ lookups[r].pc = "party" /\ calls[r] = NoCall /\ lookups[r].asked <= now
      /\ UNCHANGED <<card, now, travelers, batches>>
    BY <1>1 DEF ReadParty, SourcesInv, SourcesShapes
<1>3. PICK S : lookups[r] \in LookupsOver(S)
    BY <1>1 DEF SourcesInv, SourcesShapes, IsLookup
<1>4. party \in Parties
    BY <1>1, PartyOfTrip
<1>5. CASE Total(party) > MaxParty
    <2> DEFINE l == [lookups[r] EXCEPT !.pc = "refused"]
    <2>1. lookups' = [lookups EXCEPT ![r] = l] /\ UNCHANGED calls
        BY <1>5 DEF ReadParty
    <2>2. l \in LookupsOver(S)
        BY <1>3 DEF LookupsOver, LookupPhases
    <2>3. /\ l.pc = "refused" /\ l.asked = lookups[r].asked
          /\ l.party = lookups[r].party /\ l.trip = lookups[r].trip
        BY <1>3 DEF LookupsOver
    <2> HIDE DEF l
    <2>4. IsLookup(l) /\ PartyFits(l)
        BY <1>1, <2>2, <2>3 DEF IsLookup, SourcesInv, Looked, PartyFits
    <2> QED
        BY <1>1, <1>2, <2>1, <2>3, <2>4, CallsUnchanged, RequestStep
<1>6. CASE ~(Total(party) > MaxParty)
    <2> DEFINE l == [lookups[r] EXCEPT !.pc = "fetching", !.party = party, !.trip = travelers]
    <2>1. lookups' = [lookups EXCEPT ![r] = l] /\ calls' = [calls EXCEPT ![r] = Asked(r)]
        BY <1>6 DEF ReadParty
    <2> HIDE DEF party
    <2>2. l \in LookupsOver(S)
        BY <1>1, <1>3, <1>4 DEF LookupsOver, LookupPhases
    <2>3. /\ l.pc = "fetching" /\ l.asked = lookups[r].asked
          /\ l.party = party /\ l.trip = travelers
        BY <1>3 DEF LookupsOver
    <2> HIDE DEF l
    <2>4. IsLookup(l) /\ SawNothing(l)
        BY <1>1, <1>2, <2>2, <2>3 DEF IsLookup, SourcesInv, Looked, SawNothing
    <2>5. Total(party) <= MaxParty
        <3>1. Total(party) \in Nat /\ MaxParty \in Nat
            BY <1>1, PartyOfTrip, BookingConstantsOK DEF party
        <3> QED
            BY <1>6, <3>1
    <2>6. PartyFits(l)
        BY <1>1, <2>3, <2>5 DEF PartyFits, party
    <2>7. \A s \in Searches : calls'[s] = IF s = r THEN Asked(r) ELSE calls[s]
        BY <1>1, <2>1 DEF CallsInv
    <2>8. DOMAIN calls' = Searches
        BY <1>1, <2>1 DEF CallsInv
    <2>9. \A s \in Searches : Sensible(s, calls'[s])
        BY <1>1, <2>7, AskedSensible DEF CallsInv
    <2>10. CallsInv'
        BY <2>8, <2>9 DEF CallsInv, Sensible
    <2> QED
        BY <1>2, <2>1, <2>3, <2>4, <2>6, <2>7, <2>10, RequestStep
<1> QED
    BY <1>5, <1>6

LEMMA RefuseStep ==
    ASSUME SourcesInv, NEW r \in Lookups, Refuse(r)
    PROVE  SourcesInv'
<1> DEFINE l == [lookups[r] EXCEPT !.pc = "refused"]
<1>1. r \in AllLookups /\ r \in Searches /\ CallsInv
    BY LookupsAreSearches DEF SourcesInv, SourcesShapes
<1>2. /\ lookups' = [lookups EXCEPT ![r] = l] /\ calls' = [calls EXCEPT ![r] = NoCall]
      /\ lookups[r].asked <= now /\ UNCHANGED <<card, now, travelers, batches>>
    BY <1>1 DEF Refuse, SourcesInv, SourcesShapes
<1>3. PICK S : lookups[r] \in LookupsOver(S)
    BY <1>1 DEF SourcesInv, SourcesShapes, IsLookup
<1>4. l \in LookupsOver(S)
    BY <1>3 DEF LookupsOver, LookupPhases
<1>5. /\ l.pc = "refused" /\ l.asked = lookups[r].asked
      /\ l.party = lookups[r].party /\ l.trip = lookups[r].trip
    BY <1>3 DEF LookupsOver
<1> HIDE DEF l
<1>6. IsLookup(l) /\ PartyFits(l)
    BY <1>1, <1>4, <1>5 DEF IsLookup, SourcesInv, Looked, PartyFits
<1>7. CallsInv' /\ calls'[r] = NoCall /\ \A s \in Searches \ {r} : calls'[s] = calls[s]
    BY <1>1, <1>2, CallEnds
<1> QED
    BY <1>2, <1>5, <1>6, <1>7, RequestStep

\* The calls go on; nothing else does.
LEMMA FetchStep ==
    ASSUME SourcesInv, NEW r \in Lookups, Fetch(r)
    PROVE  SourcesInv'
<1>1. r \in AllLookups /\ r \in Searches /\ CallsInv
    BY LookupsAreSearches DEF SourcesInv, SourcesShapes
<1>2. CallStep(r) /\ UNCHANGED <<card, now, travelers, batches, lookups>>
    BY DEF Fetch
<1>3. CallsInv' /\ calls[r].pc # "idle" /\ \A s \in Searches \ {r} : calls'[s] = calls[s]
    BY <1>1, <1>2, CallSteps
<1>4. NoCall.pc = "idle"
    BY DEF NoCall
<1>5. \A q \in AllLookups : lookups[q].pc # "fetching" => calls'[q] = NoCall
    BY <1>3, <1>4, LookupsAreSearches, BookingConstantsOK, CallConstantsOK
       DEF SourcesInv, SourcesShapes, AllLookups
<1>6. SourcesShapes'
    BY <1>2, <1>3, <1>5 DEF SourcesInv, SourcesShapes, AllLookups, Lookups
<1>7. Looked' /\ SecondFetchesOverlap'
    BY <1>2 DEF SourcesInv, Looked, AllLookups, PartyFits, SawNothing, SecondFetchesOverlap
<1> QED
    BY <1>6, <1>7 DEF SourcesInv

\* What is stored is dated now: nobody has looked later than that, and the
\* request that stores it had seen nothing alive.
LEMMA StoreStep ==
    ASSUME SourcesInv, NEW r \in Lookups, StoreRows(r)
    PROVE  SourcesInv'
<1> DEFINE rows == {[by |-> r, source |-> source] : source \in calls[r].options}
           l == [lookups[r] EXCEPT !.pc = "answered", !.answer = rows]
           batch == [by |-> r, asked |-> lookups[r].asked, written |-> now, rows |-> rows]
<1>1. r \in AllLookups /\ r \in Searches /\ CallsInv
    BY LookupsAreSearches DEF SourcesInv, SourcesShapes
<1>2. /\ lookups[r].pc = "fetching"
      /\ batches' = batches \cup {batch} /\ lookups' = [lookups EXCEPT ![r] = l]
      /\ calls' = [calls EXCEPT ![r] = NoCall] /\ UNCHANGED <<card, now, travelers>>
    BY DEF StoreRows
<1>3. PICK S : lookups[r] \in LookupsOver(S)
    BY <1>1 DEF SourcesInv, SourcesShapes, IsLookup
<1>4. lookups[r].asked \in Nat /\ lookups[r].asked <= now /\ now \in Nat
      /\ MaxNow \in Nat /\ TTL \in Nat
    BY <1>1, <1>3, BookingConstantsOK DEF SourcesInv, SourcesShapes, LookupsOver
<1>5. /\ batch.by = r /\ batch.asked = lookups[r].asked
      /\ batch.written = now /\ batch.rows = rows
    OBVIOUS
<1> HIDE DEF rows
<1>6. lookups[r] \in LookupsOver(S \cup {rows})
    BY <1>3 DEF LookupsOver
<1>7. l \in LookupsOver(S \cup {rows})
    BY <1>6 DEF LookupsOver, LookupPhases
<1>8. /\ l.pc = "answered" /\ l.asked = lookups[r].asked
      /\ l.party = lookups[r].party /\ l.trip = lookups[r].trip
    BY <1>3 DEF LookupsOver
<1> HIDE DEF l, batch
<1>9. IsLookup(l) /\ PartyFits(l)
    BY <1>1, <1>7, <1>8 DEF IsLookup, SourcesInv, Looked, PartyFits
<1>10. CallsInv' /\ calls'[r] = NoCall /\ \A s \in Searches \ {r} : calls'[s] = calls[s]
    BY <1>1, <1>2, CallEnds
<1>11. \A q \in AllLookups : lookups'[q] = IF q = r THEN l ELSE lookups[q]
    BY <1>2, LookupsAreSearches DEF SourcesInv, SourcesShapes
<1>12. SourcesShapes'
    <2>1. DOMAIN lookups' = AllLookups /\ AllLookups' = AllLookups /\ Lookups' = Lookups
        BY <1>2 DEF SourcesInv, SourcesShapes, AllLookups, Lookups
    <2>2. ASSUME NEW q \in AllLookups
          PROVE  /\ IsLookup(lookups'[q]) /\ lookups'[q].asked <= now'
                 /\ lookups'[q].pc # "fetching" => calls'[q] = NoCall
        <3>1. CASE q = r
            BY <1>2, <1>4, <1>8, <1>9, <1>10, <1>11, <3>1
        <3>2. CASE q # r
            <4>1. q \in Searches
                BY BookingConstantsOK, CallConstantsOK DEF AllLookups
            <4> QED
                BY <1>2, <1>10, <1>11, <3>2, <4>1 DEF SourcesInv, SourcesShapes
        <3> QED
            BY <3>1, <3>2
    <2>3. ASSUME NEW b \in batches'
          PROVE  b.by \in Lookups /\ b.asked \in 0 .. b.written /\ b.written \in 0 .. now
        <3>1. CASE b \in batches
            BY <3>1 DEF SourcesInv, SourcesShapes
        <3>2. CASE b = batch
            BY <1>4, <1>5, <3>2
        <3> QED
            BY <1>2, <3>1, <3>2
    <2> QED
        BY <1>2, <1>10, <2>1, <2>2, <2>3 DEF SourcesInv, SourcesShapes, IsLookup, LookupsOver
<1>13. Looked'
    <2>1. ASSUME NEW q \in AllLookups, lookups'[q].pc \in {"party", "fetching"},
                 NEW b \in batches', b.rows # {}
          PROVE  lookups'[q].asked <= b.written \/ b.written + TTL <= lookups'[q].asked
        <3>1. lookups'[q] = lookups[q]
            BY <1>8, <1>11, <2>1
        <3>2. CASE b \in batches
            BY <2>1, <3>1, <3>2 DEF SourcesInv, Looked, SawNothing
        <3>3. CASE b = batch
            BY <1>5, <3>1, <3>3 DEF SourcesInv, SourcesShapes
        <3> QED
            BY <1>2, <3>2, <3>3
    <2>2. \A q \in AllLookups : PartyFits(lookups'[q])
        BY <1>9, <1>11 DEF SourcesInv, Looked
    <2> QED
        BY <2>1, <2>2 DEF Looked, AllLookups, PartyFits, SawNothing, Parties
<1>14. SecondFetchesOverlap'
    <2> SUFFICES ASSUME NEW first \in batches', NEW second \in batches',
                        first # second, first.rows # {}, first.written <= second.written,
                        second.written < first.written + TTL
                 PROVE  second.asked <= first.written
        BY DEF SecondFetchesOverlap
    <2>1. CASE first \in batches /\ second \in batches
        BY <2>1 DEF SourcesInv, SecondFetchesOverlap
    <2>2. CASE first = batch /\ second \in batches
        <3>1. second.asked \in 0 .. second.written /\ second.written \in 0 .. now
            BY <2>2 DEF SourcesInv, SourcesShapes
        <3> QED
            BY <1>4, <1>5, <2>2, <3>1
    <2>3. CASE first \in batches /\ second = batch
        <3>1. lookups[r].asked <= first.written \/ first.written + TTL <= lookups[r].asked
            BY <1>1, <1>2, <2>3 DEF SourcesInv, Looked, SawNothing
        <3>2. first.written \in Nat
            BY <1>4, <2>3 DEF SourcesInv, SourcesShapes
        <3> QED
            BY <1>4, <1>5, <2>3, <3>1, <3>2
    <2> QED
        BY <1>2, <2>1, <2>2, <2>3
<1> QED
    BY <1>12, <1>13, <1>14 DEF SourcesInv

LEMMA TickStep == SourcesInv /\ Tick => SourcesInv'
<1> SUFFICES ASSUME SourcesInv, Tick PROVE SourcesInv'
    OBVIOUS
<1>1. now \in 0 .. MaxNow /\ now' = now + 1 /\ now < MaxNow /\ MaxNow \in Nat
      /\ UNCHANGED <<calls, card, travelers, batches, lookups>>
    BY BookingConstantsOK DEF Tick, SourcesInv, SourcesShapes
<1>2. ASSUME NEW r \in AllLookups PROVE lookups[r].asked <= now'
    <2>1. PICK S : lookups[r] \in LookupsOver(S)
        BY DEF SourcesInv, SourcesShapes, IsLookup
    <2>2. lookups[r].asked \in Nat /\ lookups[r].asked <= now
        BY <2>1 DEF LookupsOver, SourcesInv, SourcesShapes
    <2> QED
        BY <1>1, <2>2
<1>3. ASSUME NEW b \in batches
      PROVE  b.by \in Lookups /\ b.asked \in 0 .. b.written /\ b.written \in 0 .. now'
    <2>1. b.by \in Lookups /\ b.asked \in 0 .. b.written /\ b.written \in 0 .. now
        BY DEF SourcesInv, SourcesShapes
    <2> QED
        BY <1>1, <2>1
<1>4. now' \in 0 .. MaxNow
    BY <1>1
<1>5. CallsInv'
    BY <1>1, CallsUnchanged DEF SourcesInv, SourcesShapes
<1>6. SourcesShapes'
    BY <1>1, <1>2, <1>3, <1>4, <1>5
       DEF SourcesInv, SourcesShapes, AllLookups, Lookups, IsLookup, LookupsOver
<1>7. Looked' /\ SecondFetchesOverlap'
    BY <1>1 DEF SourcesInv, Looked, AllLookups, PartyFits, SawNothing, SecondFetchesOverlap
<1> QED
    BY <1>6, <1>7 DEF SourcesInv

LEMMA TravelersStep == SourcesInv /\ ChangeTravelers => SourcesInv'
<1> SUFFICES ASSUME SourcesInv, ChangeTravelers PROVE SourcesInv'
    OBVIOUS
<1>1. UNCHANGED <<calls, card, now, batches, lookups>>
    BY DEF ChangeTravelers
<1>2. travelers' \in Parties
    <2>1. travelers \in Parties /\ travelers.adults \in Nat /\ travelers.children \in Nat
        BY DEF SourcesInv, SourcesShapes, Parties
    <2>2. ASSUME NEW n \in Nat, NEW m \in Nat
          PROVE  /\ [travelers EXCEPT !.adults = n] \in Parties
                 /\ [travelers EXCEPT !.children = m] \in Parties
                 /\ [adults |-> n, children |-> m] \in Parties
        BY <2>1 DEF Parties
    <2>3. /\ travelers.adults + 1 \in Nat /\ travelers.children + 1 \in Nat
          /\ travelers.adults > 0 => travelers.adults - 1 \in Nat
          /\ travelers.children > 0 => travelers.children - 1 \in Nat
        BY <2>1
    <2> QED
        BY <2>2, <2>3 DEF ChangeTravelers
<1>3. CallsInv'
    BY <1>1, CallsUnchanged DEF SourcesInv, SourcesShapes
<1>4. SourcesShapes'
    BY <1>1, <1>2, <1>3 DEF SourcesInv, SourcesShapes, AllLookups, Lookups, IsLookup, LookupsOver
<1>5. Looked' /\ SecondFetchesOverlap'
    BY <1>1 DEF SourcesInv, Looked, AllLookups, PartyFits, SawNothing, SecondFetchesOverlap
<1> QED
    BY <1>4, <1>5 DEF SourcesInv

-----------------------------------------------------------------------------
(* The theorems *)

LEMMA SourcesInit == BookingInit => SourcesInv
<1> SUFFICES ASSUME BookingInit PROVE SourcesInv
    OBVIOUS
<1>1. CallsInv
    BY NoCallSensible DEF BookingInit, CallsInv
<1>2. NewLookup \in LookupsOver({{}})
    BY DEF NewLookup, LookupsOver, LookupPhases
<1>3. IsLookup(NewLookup)
    BY <1>2 DEF IsLookup
<1>4. NewLookup.asked = 0 /\ NewLookup.pc = "idle" /\ NewLookup.party = None
    BY DEF NewLookup
<1>5. \A r \in AllLookups : lookups[r] = NewLookup /\ calls[r] = NoCall
    BY BookingConstantsOK, CallConstantsOK DEF BookingInit, AllLookups
<1>6. SourcesShapes
    BY <1>1, <1>3, <1>4, <1>5, BookingConstantsOK DEF BookingInit, SourcesShapes, Parties
<1>7. Looked /\ SecondFetchesOverlap
    BY <1>4, <1>5 DEF BookingInit, Looked, PartyFits, SecondFetchesOverlap
<1> QED
    BY <1>6, <1>7 DEF SourcesInv

(* The rows and the requests keep their shape, and whoever fetches has seen *)
(* nothing alive, through every step: SourcesInv is inductive.               *)
THEOREM SourcesInvariant == BookingSpec => []SourcesInv
<1>1. SourcesInv /\ [BookingNext]_bvars => SourcesInv'
    <2> SUFFICES ASSUME SourcesInv, [BookingNext]_bvars PROVE SourcesInv'
        OBVIOUS
    <2>1. CASE Tick
        BY <2>1, TickStep
    <2>2. CASE ChangeTravelers
        BY <2>2, TravelersStep
    <2>3. ASSUME NEW r \in Lookups,
                 LookUp(r) \/ ReadParty(r) \/ Fetch(r) \/ StoreRows(r) \/ Refuse(r)
          PROVE  SourcesInv'
        BY <2>3, LookUpStep, ReadPartyStep, FetchStep, StoreStep, RefuseStep
    <2>4. CASE UNCHANGED bvars
        <3>1. UNCHANGED <<calls, card, now, travelers, batches, lookups>>
            BY <2>4 DEF bvars
        <3>2. CallsInv'
            BY <3>1, CallsUnchanged DEF SourcesInv, SourcesShapes
        <3>3. SourcesShapes'
            BY <3>1, <3>2 DEF SourcesInv, SourcesShapes, AllLookups, Lookups, IsLookup, LookupsOver
        <3>4. Looked' /\ SecondFetchesOverlap'
            BY <3>1
               DEF SourcesInv, Looked, AllLookups, PartyFits, SawNothing, SecondFetchesOverlap
        <3> QED
            BY <3>3, <3>4 DEF SourcesInv
    <2> QED
        BY <2>1, <2>2, <2>3, <2>4 DEF BookingNext
<1> QED
    BY <1>1, SourcesInit, PTL DEF BookingSpec

(* The shape of the lookups, the calls and the stored rows. *)
THEOREM BookingTypes == BookingSpec => []BookingTypeOK
<1>1. SourcesInv => BookingTypeOK
    <2> SUFFICES ASSUME SourcesInv PROVE BookingTypeOK
        OBVIOUS
    <2>1. CallTypeOK
        BY CallsSay DEF SourcesInv, SourcesShapes
    <2>2. ASSUME NEW r \in Lookups
          PROVE  /\ lookups[r].pc \in LookupPhases
                 /\ lookups[r].pc # "fetching" => calls[r] = NoCall
        <3>1. r \in AllLookups
            BY LookupsAreSearches
        <3>2. PICK S : lookups[r] \in LookupsOver(S)
            BY <3>1 DEF SourcesInv, SourcesShapes, IsLookup
        <3> QED
            BY <3>1, <3>2 DEF SourcesInv, SourcesShapes, LookupsOver
    <2> QED
        BY <2>1, <2>2 DEF BookingTypeOK, SourcesInv, SourcesShapes, Parties, LookupPhases
<1> QED
    BY <1>1, SourcesInvariant, PTL

(* However the requests for the sellers of a card interleave with each other *)
(* and with the expiry of the rows, a card is fetched a second time while     *)
(* rows of it are alive only by a request that had looked before they were    *)
(* committed (get_or_fetch_booking_sources).                                  *)
THEOREM OnlyRacesFetchTwice == BookingSpec => []SecondFetchesOverlap
<1>1. SourcesInv => SecondFetchesOverlap
    BY DEF SourcesInv
<1> QED
    BY <1>1, SourcesInvariant, PTL

(* Whoever is on the trip and whenever it changes, no child is left out of a *)
(* hotel's search and no adult who would fit (the party of                    *)
(* fetch_hotel_booking_sources).                                              *)
THEOREM EveryChildIsSearchedFor == BookingSpec => []SearchedPartyFits
<1>1. SourcesInv => SearchedPartyFits
    <2> SUFFICES ASSUME SourcesInv, NEW r \in Lookups, lookups[r].party # None
                 PROVE  LET party == lookups[r].party trip == lookups[r].trip IN
                        /\ Total(party) <= MaxParty /\ Total(party) > 0
                        /\ party.children = trip.children
                        /\ Total(trip) \in 1 .. MaxParty => party = trip
                        /\ Total(trip) > MaxParty => Total(party) = MaxParty
        BY DEF SearchedPartyFits
    <2>1. /\ lookups[r].trip \in Parties /\ lookups[r].party = HotelParty(lookups[r].trip)
          /\ Total(lookups[r].party) <= MaxParty
        BY LookupsAreSearches DEF SourcesInv, Looked, PartyFits
    <2> QED
        BY <2>1, PartyOfTrip
<1> QED
    BY <1>1, SourcesInvariant, PTL
=============================================================================
