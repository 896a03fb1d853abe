-------------------------- MODULE MCResearchPipeline --------------------------
(***************************************************************************)
(* Answers for ResearchPipeline: flights that are long, short, without a   *)
(* duration, with a time nobody can read; activities in two currencies, at *)
(* both sides of the filters' limits, and ones that do not validate.       *)
(***************************************************************************)
EXTENDS ResearchPipeline

Flight(total, segments) ==
    [complete |-> TRUE, readable |-> TRUE, total |-> total, segments |-> segments]

Long == Flight(400, <<>>)
Short == Flight(None, <<60, None, 240>>)
Unstated == Flight(None, <<None>>)
Unreadable == [Long EXCEPT !.readable = FALSE]
Tokenless == [Short EXCEPT !.complete = FALSE]

Activity(id, price, currency, timing) ==
    [id |-> id, wellFormed |-> TRUE, citations |-> 1, price |-> price,
     currency |-> currency, timing |-> timing]

Walk == Activity("walk", <<0>>, "EUR", "anytime")
Museum == Activity("museum", <<20>>, "EUR", "arrival_day")
Tour == Activity("tour", <<20, 40>>, "EUR", "anytime")
Boat == Activity("boat", <<200>>, "EUR", "departure_day")
Gala == Activity("gala", <<301>>, "EUR", "anytime")
Temple == Activity("temple", <<3000>>, "JPY", "anytime")
Onsen == Activity("onsen", <<9000>>, "JPY", "arrival_day")
Uncited == [Tour EXCEPT !.citations = 0]
Unpriced == [Boat EXCEPT !.price = <<>>]
Malformed == [Gala EXCEPT !.wellFormed = FALSE]

Ferry == [id |-> "ferry", wellFormed |-> TRUE, citations |-> 2,
          price |-> <<15>>, currency |-> "EUR"]
Bus == [Ferry EXCEPT !.id = "bus", !.price = <<>>, !.currency = None]
HalfPriced == [Ferry EXCEPT !.id = "half", !.currency = None]

MCAnswers ==
    [s \in ResearchSearches |->
       CASE s = "flights" -> {{Long}, {Long, Unstated}, {Short, Tokenless},
                              {Long, Unreadable}}
         [] s = "hotels" -> {{[id |-> "inn", complete |-> TRUE],
                              [id |-> "hut", complete |-> FALSE]}}
         [] s = "activities" ->
              {{Museum, Tour, Boat, Gala, Temple, Onsen, Unpriced},
               {Museum, Tour, Gala}, {Walk, Museum, Uncited, Malformed},
               {Walk, [Walk EXCEPT !.id = "park"], Museum}}
         [] s = "transport" -> {{Ferry, Bus, HalfPriced}}]

MCRunTypes == <<{"full", "flights"}, {"flights", "transport", "activities"}, {"activities"}>>
==============================================================================
