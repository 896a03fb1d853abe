---------------------------- MODULE CombinedTiers ----------------------------
(***************************************************************************)
(* The budget / comfort / premium tiers of one leg's flights and           *)
(* transport: research/tiering.py, services/combined_tiering.py and their  *)
(* callers in services/research.py, options.py and transport.py.           *)
(*                                                                         *)
(* The two types share one ranking by price.  A full run that found both   *)
(* ranks what it found; a run that has results of one type only ranks them *)
(* with the active cards of the other, and writes those cards' new tiers.  *)
(* Each type is persisted in a commit of its own.  Runs follow one         *)
(* another, as the client starts them (LegResearch has overlapping runs,   *)
(* retries and crashes); locks come and go at any time.                    *)
(***************************************************************************)
EXTENDS Naturals, FiniteSets

CONSTANTS
    MaxRuns,         \* research runs over these types (bound)
    PerTier,         \* cards per tier: 3
    Options,         \* what a search may find, see OptionsOK
    FlightFinds,     \* the sets of options a flight search finds (bound)
    TransportFinds,  \* and those a transport search finds (bound)
    MaxLocked        \* locks held at a time (bound)

\* The price in the home currency, and how it is known: stated in the home
\* currency, converted into it, in a currency without a rate, or not at all.
Kinds == {"home", "converted", "foreign", "unpriced"}

ASSUME OptionsOK ==
    /\ MaxRuns \in Nat /\ MaxLocked \in Nat
    /\ PerTier \in Nat \ {0}
    /\ Options \subseteq [price : Nat, kind : Kinds]
    /\ FlightFinds \subseteq SUBSET {o \in Options : o.kind \in {"home", "foreign"}}
    /\ TransportFinds \subseteq SUBSET Options
    /\ \A S \in FlightFinds \cup TransportFinds : IsFiniteSet(S)

Types == {"flight", "transport"}
RunTypes == {"full", "flights", "transport"}
Tiers == {"budget", "comfort", "premium", "none"}

\* priced: base_price_amount is in the home currency.
Card == [run : 1..MaxRuns, type : Types, option : Options, priced : BOOLEAN]

\* What a search gave: nothing (not made, or it raised), an extraction that
\* failed after its correction retries, or options.
Result == [status : {"missing", "unusable", "found"}, options : SUBSET Options]
Missing == [status |-> "missing", options |-> {}]
Unusable == [status |-> "unusable", options |-> {}]
FlightResults == {Missing} \cup {[status |-> "found", options |-> S] : S \in FlightFinds}
TransportResults ==
    {Missing, Unusable} \cup {[status |-> "found", options |-> S] : S \in TransportFinds}

VARIABLES
    cards,       \* option_cards of the two types
    superseded,  \* those with superseded_at set
    tier,        \* option_cards.tier, "none" for NULL
    locked,      \* cards with an active lock
    runs,        \* runs started
    job,         \* the run in progress, or the last one, see Job
    plan,        \* the ranking a full run with both results has made
    outcome      \* research_runs.status of the last run

vars == <<cards, superseded, tier, locked, runs, job, plan, outcome>>

Job == [pc : {"idle", "flights", "transport", "finish"},
        kind : RunTypes, flights : Result, transport : Result]
NoPlan == [c \in {} |-> "none"]

-----------------------------------------------------------------------------
(* Ranking by price: partition_price_tiers over a pool of cards *)

\* The n cheapest of a pool, equal prices in any order.
Cheapest(pool, n) ==
    {S \in SUBSET pool :
        /\ Cardinality(S) = IF Cardinality(pool) < n THEN Cardinality(pool) ELSE n
        /\ \A c \in S, k \in pool \ S : c.option.price <= k.option.price}

\* The PerTier, 2 * PerTier and 3 * PerTier cheapest, one within the other.
Cuts(pool) ==
    {s \in Cheapest(pool, PerTier) \X Cheapest(pool, 2 * PerTier) \X Cheapest(pool, 3 * PerTier) :
        s[1] \subseteq s[2] /\ s[2] \subseteq s[3]}

\* Three groups of PerTier, the cheapest first; the overflow has no tier.
Tierings(pool) ==
    {[c \in pool |-> IF c \in s[1] THEN "budget" ELSE IF c \in s[2] THEN "comfort"
                     ELSE IF c \in s[3] THEN "premium" ELSE "none"] : s \in Cuts(pool)}

Active == cards \ superseded
Priced_AnyCurrency(S) == S
\* Only prices in the home currency enter a pool.
Priced(S) == {c \in S : c.priced}
OfType(t) == {c \in Active : c.type = t}

-----------------------------------------------------------------------------
(* The cards a result becomes *)

Joint == job.flights.status = "found" /\ job.transport.status = "found"

NewFlights ==
    {[run |-> runs, type |-> "flight", option |-> o, priced |-> o.kind = "home"] :
        o \in job.flights.options}

TransportCard(o, priced) ==
    [run |-> runs, type |-> "transport", option |-> o, priced |-> priced]
\* Persisted as the search found them: prices without a rate, no price.  A full
\* run that ranked both tells a converted option by its clone, and persists the
\* original in its own currency beside it.
KeptInSource ==
    {o \in job.transport.options : \/ o.kind \in {"foreign", "unpriced"}
                                   \/ Joint /\ o.kind = "converted"}
NewTransport ==
    {TransportCard(o, TRUE) :
        o \in {p \in job.transport.options : p.kind \in {"home", "converted"}}}
    \cup {TransportCard(o, FALSE) : o \in KeptInSource}

Peers_None(t) == {}
\* The active cards of the other type that are ranked again with the new ones:
\* transport always, flights only when there is something to rank with them.
Peers(t) == {c \in Priced(OfType(t)) : t = "transport" \/ Priced(NewTransport) # {}}

Written_Uncleared(t, c) == IF t[c] = "none" /\ c \in cards THEN tier[c] ELSE t[c]
\* A ranked card gets its tier, or NULL when it is not among the selected.
Written(t, c) == t[c]

\* One commit: the new cards, and the ranking t, of these and of their peers.
Persist(new, t) ==
    /\ cards' = cards \cup new
    /\ tier' = [c \in cards \cup new |->
                   IF c \in DOMAIN t THEN Written(t, c)
                   ELSE IF c \in cards THEN tier[c] ELSE "none"]

\* scoped_types, of the two types here.
Scope == CASE job.kind = "full"      -> Types
           [] job.kind = "flights"   -> {"flight"}
           [] job.kind = "transport" -> {"transport"}

\* What the completion supersedes, locked or not.
Replaced == {c \in Active : c.type \in Scope /\ c.run # runs}

-----------------------------------------------------------------------------
Init ==
    /\ cards = {} /\ superseded = {} /\ locked = {}
    /\ tier = [c \in {} |-> "none"]
    /\ runs = 0 /\ plan = NoPlan /\ outcome = "none"
    /\ job = [pc |-> "idle", kind |-> "full", flights |-> Missing,
              transport |-> Missing]

\* run_leg_research has its results.  Transport is always searched, flights
\* only with both airport codes; a search that raised leaves nothing, too.
Research(k, f, t) ==
    /\ job.pc = "idle" /\ runs < MaxRuns
    /\ k = "transport" => f = Missing
    /\ k = "flights" => t = Missing
    /\ job' = [pc |-> "flights", kind |-> k, flights |-> f, transport |-> t]
    /\ runs' = runs + 1 /\ outcome' = "running"
    /\ UNCHANGED <<cards, superseded, tier, locked, plan>>

\* A full run that found both ranks what it found in one pool.
PersistFlightsJoint ==
    /\ job.pc = "flights" /\ Joint
    /\ \E t \in Tierings(Priced(NewFlights) \cup Priced(NewTransport)) :
          plan' = t /\ Persist(NewFlights, t)
    /\ job' = [job EXCEPT !.pc = "transport"]
    /\ UNCHANGED <<superseded, locked, runs, outcome>>

\* Flights alone are ranked with the active transport.
PersistFlights ==
    /\ job.pc = "flights" /\ ~Joint
    /\ IF job.flights.status = "found"
       THEN \E t \in Tierings(Priced(NewFlights) \cup Peers("transport")) :
               Persist(NewFlights, t)
       ELSE UNCHANGED <<cards, tier>>
    /\ job' = [job EXCEPT !.pc = "transport"]
    /\ UNCHANGED <<superseded, locked, runs, plan, outcome>>

PersistTransportJoint ==
    /\ job.pc = "transport" /\ Joint
    /\ Persist(NewTransport, plan)
    /\ job' = [job EXCEPT !.pc = "finish"]
    /\ plan' = NoPlan
    /\ UNCHANGED <<superseded, locked, runs, outcome>>

PersistTransport ==
    /\ job.pc = "transport" /\ ~Joint /\ job.transport # Unusable
    /\ IF job.transport.status = "found"
       THEN \E t \in Tierings(Priced(NewTransport) \cup Peers("flight")) :
               Persist(NewTransport, t)
       ELSE UNCHANGED <<cards, tier>>
    /\ job' = [job EXCEPT !.pc = "finish"]
    /\ UNCHANGED <<superseded, locked, runs, plan, outcome>>

\* A statement fails, the extraction was unusable, or some search had raised
\* (first_error, any of the run's): what is committed stays.
Fail ==
    /\ job.pc # "idle"
    /\ job' = [job EXCEPT !.pc = "idle"]
    /\ plan' = NoPlan /\ outcome' = "failed"
    /\ UNCHANGED <<cards, superseded, tier, locked, runs>>

\* supersede_option_cards(exclude_research_run_id) and the commit, if no search
\* raised: a transport search that left nothing has.
Finish ==
    /\ job.pc = "finish"
    /\ job.kind # "flights" => job.transport.status = "found"
    /\ superseded' = superseded \cup (Replaced \ locked)
    /\ job' = [job EXCEPT !.pc = "idle"]
    /\ outcome' = "completed"
    /\ UNCHANGED <<cards, tier, locked, runs, plan>>

\* services/lock.py, for these types: a card with a price in the home
\* currency, one flight at a time (OptionLocks has the rest).
LockCard(c) ==
    /\ c \in Priced(Active) \ locked
    /\ Cardinality(locked) < MaxLocked
    /\ c.type = "flight" => \A l \in locked : l.type # "flight"
    /\ locked' = locked \cup {c}
    /\ UNCHANGED <<cards, superseded, tier, runs, job, plan, outcome>>

UnlockCard(c) ==
    /\ c \in locked
    /\ locked' = locked \ {c}
    /\ UNCHANGED <<cards, superseded, tier, runs, job, plan, outcome>>

Next ==
    \/ \E k \in RunTypes, f \in FlightResults, t \in TransportResults :
          Research(k, f, t)
    \/ PersistFlightsJoint \/ PersistFlights
    \/ PersistTransportJoint \/ PersistTransport
    \/ Fail \/ Finish
    \/ \E c \in cards : LockCard(c) \/ UnlockCard(c)

Spec == Init /\ [][Next]_vars

-----------------------------------------------------------------------------
(* Properties *)

\* Every variable has its type, and only cards priced in the home currency
\* have a tier.
TypeOK ==
    /\ cards \subseteq Card /\ superseded \subseteq cards /\ locked \subseteq cards
    /\ tier \in [cards -> Tiers]
    /\ \A c \in cards : tier[c] # "none" => c.priced
    /\ runs \in 0..MaxRuns /\ job \in Job
    /\ DOMAIN plan \subseteq Card /\ \A c \in DOMAIN plan : plan[c] \in Tiers
    /\ outcome \in {"none", "running", "completed", "failed"}

\* The last run completed, and ranked what it found.
Ranked ==
    /\ job.pc = "idle" /\ outcome = "completed"
    /\ \/ job.flights.status = "found"
       \/ job.transport.status = "found" /\ Priced(NewTransport) # {}

Rank == [budget |-> 1, comfort |-> 2, premium |-> 3, none |-> 4]

\* On the cards shown after such a run, save those a lock spared, a cheaper one
\* is never in a dearer tier, whichever type and run they come from.
TiersFollowPrices ==
    Ranked =>
        \A a, b \in Priced(Active) \ Replaced :
            a.option.price < b.option.price => Rank[tier[a]] <= Rank[tier[b]]

\* And when no lock spared one, their tiers are those of ranking exactly these
\* cards.  A full run without airport codes is the exception: it ranks its
\* transport with flights it then supersedes.
TiersAreThoseOfThePool ==
    Ranked /\ Replaced = {} /\ (job.kind = "full" => Joint) =>
        [c \in Priced(Active) |-> tier[c]] \in Tierings(Priced(Active))

\* A run makes one card of each option it finds, in the home currency when it
\* can be converted (transport.py, persist_transport_research's docstring).
OneCardPerOption ==
    \A a, b \in cards :
        a.run = b.run /\ a.type = b.type /\ a.option = b.option => a = b
=============================================================================
