------------------------ MODULE CombinedTiers_proofs ------------------------
(***************************************************************************)
(* Theorems about CombinedTiers: for any options, sizes of the tiers and   *)
(* sequence of runs and locks, the tiers a completed run leaves are those  *)
(* of one ranking by price.                                                *)
(***************************************************************************)
EXTENDS CombinedTiers, FiniteSetTheorems, TLAPS

RunCards == {c \in cards : c.run = runs}

\* The tiers of these cards are those of one ranking of them.
RankedOver(pool) ==
    pool \subseteq cards /\ [c \in pool |-> tier[c]] \in Tierings(pool)

\* What the run in progress ranks, once it has persisted it.
Pool ==
    IF Joint THEN Priced(NewFlights) \cup Priced(NewTransport)
    ELSE IF job.flights.status = "found" THEN Priced(NewFlights) \cup Peers("transport")
    ELSE Priced(NewTransport) \cup Peers("flight")

Shapes ==
    /\ TypeOK
    /\ job.flights \in FlightResults /\ job.transport \in TransportResults
    /\ job.kind = "flights" => job.transport = Missing
    /\ job.kind = "transport" => job.flights = Missing
    /\ job.pc # "idle" => runs \in 1 .. MaxRuns
    /\ \A c \in cards : c.run \in 1 .. runs
    /\ \A c \in DOMAIN plan : c.priced
    /\ \A c \in superseded : c.run # runs

\* The phases of the run in progress.
Progress ==
    /\ job.pc = "flights" => RunCards = {}
    /\ job.pc = "transport" =>
          /\ RunCards = NewFlights
          /\ Joint => plan \in Tierings(Pool)
          /\ (~Joint /\ job.flights.status = "found") => RankedOver(Pool)
    /\ job.pc = "finish" =>
          /\ RunCards = NewFlights \cup NewTransport
          /\ "found" \in {job.flights.status, job.transport.status} => RankedOver(Pool)

\* What a completed run has ranked, and still lists.
Listed ==
    Ranked => \E pool :
        /\ RankedOver(pool)
        /\ Priced(Active) \ Replaced \subseteq pool
        /\ (Replaced = {} /\ (job.kind = "full" => Joint)) => pool = Priced(Active)

TiersInv == Shapes /\ Progress /\ Listed

\* There is a ranking of what the run in progress is about to rank.
AlwaysRanked == job.pc \in {"flights", "transport"} => Tierings(Pool) # {}

-----------------------------------------------------------------------------
(* What is proved beyond the properties of CombinedTiers *)

\* Of the cards shown after a run that ranked, save those a lock spared, no tier
\* lists more than its three (PerTier), although every run ranks into the same
\* tiers, and the types persist apart.
AtMostPerTier ==
    Ranked =>
        \A band \in Tiers \ {"none"} :
            Cardinality({c \in Priced(Active) \ Replaced : tier[c] = band}) <= PerTier

\* No option is persisted twice by a run, except a converted one: by a full run
\* in the currency of the source beside the one it has ranked.
OnlyConvertedTwice ==
    \A a, b \in cards :
        a.run = b.run /\ a.type = b.type /\ a.option = b.option =>
            a = b \/ a.option.kind = "converted"

-----------------------------------------------------------------------------
(* Rankings *)

LEMMA TieringShape ==
    ASSUME NEW pool, NEW t \in Tierings(pool)
    PROVE  /\ DOMAIN t = pool /\ t = [c \in pool |-> t[c]]
           /\ \A c \in pool : t[c] \in Tiers
<1>1. PICK s \in Cuts(pool) :
         t = [c \in pool |-> IF c \in s[1] THEN "budget" ELSE IF c \in s[2] THEN "comfort"
                             ELSE IF c \in s[3] THEN "premium" ELSE "none"]
    BY DEF Tierings
<1> QED
    BY <1>1 DEF Tiers

\* A cheaper card is never in a dearer tier.
LEMMA CheaperFirst ==
    ASSUME NEW pool, NEW t \in Tierings(pool), NEW a \in pool, NEW b \in pool,
           a.option.price \in Nat, b.option.price \in Nat,
           a.option.price < b.option.price
    PROVE  Rank[t[a]] <= Rank[t[b]]
<1>1. PICK s \in Cuts(pool) :
         t = [c \in pool |-> IF c \in s[1] THEN "budget" ELSE IF c \in s[2] THEN "comfort"
                             ELSE IF c \in s[3] THEN "premium" ELSE "none"]
    BY DEF Tierings
<1>2. ASSUME NEW n, NEW S \in Cheapest(pool, n), b \in S
      PROVE  a \in S
    BY <1>2 DEF Cheapest
<1>3. /\ s[1] \in Cheapest(pool, PerTier) /\ s[2] \in Cheapest(pool, 2 * PerTier)
      /\ s[3] \in Cheapest(pool, 3 * PerTier)
    BY DEF Cuts
<1>4. (b \in s[1] => a \in s[1]) /\ (b \in s[2] => a \in s[2]) /\ (b \in s[3] => a \in s[3])
    BY <1>2, <1>3
<1>5. t[a] = (IF a \in s[1] THEN "budget" ELSE IF a \in s[2] THEN "comfort"
              ELSE IF a \in s[3] THEN "premium" ELSE "none")
    BY <1>1
<1>6. t[b] = (IF b \in s[1] THEN "budget" ELSE IF b \in s[2] THEN "comfort"
              ELSE IF b \in s[3] THEN "premium" ELSE "none")
    BY <1>1
<1> QED
    BY <1>4, <1>5, <1>6 DEF Rank

\* A tier is a difference of two cuts, which PerTier cards separate at most.
LEMMA TierSizes ==
    ASSUME NEW pool, IsFiniteSet(pool), NEW t \in Tierings(pool),
           NEW band \in Tiers \ {"none"}
    PROVE  /\ IsFiniteSet({c \in pool : t[c] = band})
           /\ Cardinality({c \in pool : t[c] = band}) <= PerTier
<1>1. PICK s \in Cuts(pool) :
         t = [c \in pool |-> IF c \in s[1] THEN "budget" ELSE IF c \in s[2] THEN "comfort"
                             ELSE IF c \in s[3] THEN "premium" ELSE "none"]
    BY DEF Tierings
<1>2. PICK s1, s2, s3 : s1 = s[1] /\ s2 = s[2] /\ s3 = s[3]
    OBVIOUS
<1>3. PICK n : n = Cardinality(pool) /\ n \in Nat
    BY FS_CardinalityType
<1>4. /\ s1 \subseteq s2 /\ s2 \subseteq s3 /\ s3 \subseteq pool
      /\ Cardinality(s1) = IF n < PerTier THEN n ELSE PerTier
      /\ Cardinality(s2) = IF n < 2 * PerTier THEN n ELSE 2 * PerTier
      /\ Cardinality(s3) = IF n < 3 * PerTier THEN n ELSE 3 * PerTier
    BY <1>1, <1>2, <1>3 DEF Cuts, Cheapest
<1>5. IsFiniteSet(s1) /\ IsFiniteSet(s2) /\ IsFiniteSet(s3)
    BY <1>4, FS_Subset
<1>6. /\ IsFiniteSet(s2 \ s1) /\ Cardinality(s2 \ s1) = Cardinality(s2) - Cardinality(s1)
      /\ IsFiniteSet(s3 \ s2) /\ Cardinality(s3 \ s2) = Cardinality(s3) - Cardinality(s2)
    <2>1. \A S, T : IsFiniteSet(S) => /\ IsFiniteSet(S \ T)
                                     /\ Cardinality(S \ T) = Cardinality(S) - Cardinality(S \cap T)
        BY FS_Difference
    <2>2. s2 \cap s1 = s1 /\ s3 \cap s2 = s2
        BY <1>4
    <2>3. IsFiniteSet(s2 \ s1) /\ Cardinality(s2 \ s1) = Cardinality(s2) - Cardinality(s1)
        BY <1>5, <2>1, <2>2, Zenon
    <2>4. IsFiniteSet(s3 \ s2) /\ Cardinality(s3 \ s2) = Cardinality(s3) - Cardinality(s2)
        BY <1>5, <2>1, <2>2, Zenon
    <2> QED
        BY <2>3, <2>4
<1>7. /\ Cardinality(s1) <= PerTier
      /\ Cardinality(s2 \ s1) <= PerTier
      /\ Cardinality(s3 \ s2) <= PerTier
    BY <1>3, <1>4, <1>6, OptionsOK
<1>8. {c \in pool : t[c] = band} \in {s1, s2 \ s1, s3 \ s2}
    <2>1. \A c \in pool :
             t[c] = (IF c \in s1 THEN "budget" ELSE IF c \in s2 THEN "comfort"
                     ELSE IF c \in s3 THEN "premium" ELSE "none")
        BY <1>1, <1>2
    <2>2. CASE band = "budget"
        BY <1>4, <2>1, <2>2
    <2>3. CASE band = "comfort"
        BY <1>4, <2>1, <2>3
    <2>4. CASE band = "premium"
        BY <1>4, <2>1, <2>4
    <2> QED
        BY <2>2, <2>3, <2>4 DEF Tiers
<1> QED
    BY <1>5, <1>6, <1>7, <1>8

\* A commit that writes a ranking leaves the ranked cards ranked.
LEMMA PersistRanks ==
    ASSUME NEW new, NEW pool, NEW t \in Tierings(pool), Persist(new, t),
           pool \subseteq cards \cup new
    PROVE  RankedOver(pool)'
<1>1. DOMAIN t = pool /\ t = [c \in pool |-> t[c]]
    BY TieringShape
<1>2. cards' = cards \cup new /\ \A c \in pool : tier'[c] = t[c]
    BY <1>1 DEF Persist, Written
<1>3. [c \in pool |-> tier'[c]] = t
    BY <1>1, <1>2
<1>4. pool \subseteq cards'
    BY <1>2
<1> QED
    BY <1>3, <1>4 DEF RankedOver, Tierings, Cuts, Cheapest

-----------------------------------------------------------------------------
(* Cards *)

\* What a result becomes.
LEMMA NewCards ==
    ASSUME Shapes, runs \in 1 .. MaxRuns
    PROVE  /\ NewFlights \subseteq Card /\ NewTransport \subseteq Card
           /\ \A c \in NewFlights : c.run = runs /\ c.type = "flight"
           /\ \A c \in NewTransport : c.run = runs /\ c.type = "transport"
           /\ job.flights.status # "found" => NewFlights = {}
           /\ job.transport.status # "found" => NewTransport = {}
<1>1. /\ job.flights.options \subseteq Options /\ job.transport.options \subseteq Options
      /\ job.flights.status # "found" => job.flights.options = {}
      /\ job.transport.status # "found" => job.transport.options = {}
    BY OptionsOK DEF Shapes, FlightResults, TransportResults, Missing, Unusable
<1>2. NewFlights \subseteq Card /\ \A c \in NewFlights : c.run = runs /\ c.type = "flight"
    <2> DEFINE FlightCard(o, priced) ==
            [run |-> runs, type |-> "flight", option |-> o, priced |-> priced]
    <2>1. \A o \in Options, priced \in BOOLEAN :
             /\ FlightCard(o, priced) \in Card
             /\ FlightCard(o, priced).run = runs /\ FlightCard(o, priced).type = "flight"
        BY DEF Card, Types
    <2>2. NewFlights = {FlightCard(o, o.kind = "home") : o \in job.flights.options}
        BY DEF NewFlights
    <2>3. \A o : (o.kind = "home") \in BOOLEAN
        OBVIOUS
    <2> HIDE DEF FlightCard
    <2>4. ASSUME NEW c \in NewFlights
          PROVE  c \in Card /\ c.run = runs /\ c.type = "flight"
        <3>1. PICK o \in job.flights.options : c = FlightCard(o, o.kind = "home")
            BY <2>2
        <3>2. PICK priced \in BOOLEAN : priced = (o.kind = "home")
            BY <2>3, Zenon
        <3>3. c = FlightCard(o, priced)
            BY <3>1, <3>2, Zenon
        <3> QED
            BY <1>1, <2>1, <3>3
    <2> QED
        BY <2>4
<1>3. \A o \in Options, p \in BOOLEAN :
         /\ TransportCard(o, p) \in Card
         /\ TransportCard(o, p).run = runs /\ TransportCard(o, p).type = "transport"
    BY DEF TransportCard, Card, Types
<1>4. /\ NewTransport \subseteq Card
      /\ \A c \in NewTransport : c.run = runs /\ c.type = "transport"
    BY <1>1, <1>3 DEF NewTransport, KeptInSource
<1>5. job.flights.status # "found" => NewFlights = {}
    BY <1>1 DEF NewFlights
<1>6. job.transport.status # "found" => NewTransport = {}
    BY <1>1 DEF NewTransport, KeptInSource
<1> QED
    BY <1>2, <1>4, <1>5, <1>6

\* Only cards priced in the home currency get a tier.
LEMMA PersistTypes ==
    ASSUME Shapes, NEW new \in SUBSET Card, NEW pool, NEW t \in Tierings(pool),
           Persist(new, t), \A c \in pool : c.priced
    PROVE  /\ cards' = cards \cup new /\ cards' \subseteq Card
           /\ tier' \in [cards' -> Tiers]
           /\ \A c \in cards' : tier'[c] # "none" => c.priced
<1>1. DOMAIN t = pool /\ \A c \in pool : t[c] \in Tiers
    BY TieringShape
<1>2. /\ cards' = cards \cup new
      /\ tier' = [c \in cards \cup new |->
                     IF c \in pool THEN t[c] ELSE IF c \in cards THEN tier[c] ELSE "none"]
    BY <1>1 DEF Persist, Written
<1>3. /\ cards \subseteq Card /\ tier \in [cards -> Tiers]
      /\ \A c \in cards : tier[c] # "none" => c.priced
    BY DEF Shapes, TypeOK
<1>4. "none" \in Tiers
    BY DEF Tiers
<1>5. tier' \in [cards' -> Tiers]
    BY <1>1, <1>2, <1>3, <1>4
<1> QED
    BY <1>2, <1>3, <1>5

-----------------------------------------------------------------------------
(* The steps *)

LEMMA TiersInit == Init => TiersInv
<1> SUFFICES ASSUME Init PROVE TiersInv
    OBVIOUS
<1>1. /\ cards = {} /\ superseded = {} /\ locked = {} /\ tier = [c \in {} |-> "none"]
      /\ runs = 0 /\ plan = [c \in {} |-> "none"] /\ outcome = "none"
      /\ job = [pc |-> "idle", kind |-> "full", flights |-> Missing, transport |-> Missing]
    BY DEF Init, NoPlan
<1>2. job \in Job
    BY <1>1 DEF Job, RunTypes, Result, Missing
<1>3. TypeOK
    BY <1>1, <1>2, OptionsOK DEF TypeOK
<1>4. Shapes
    BY <1>1, <1>3 DEF Shapes, FlightResults, TransportResults
<1>5. Progress /\ Listed
    BY <1>1 DEF Progress, Listed, Ranked
<1> QED
    BY <1>4, <1>5 DEF TiersInv

LEMMA ResearchStep ==
    ASSUME TiersInv, NEW k \in RunTypes, NEW f \in FlightResults,
           NEW t \in TransportResults, Research(k, f, t)
    PROVE  TiersInv'
<1>1. /\ job' = [pc |-> "flights", kind |-> k, flights |-> f, transport |-> t]
      /\ runs' = runs + 1 /\ outcome' = "running" /\ runs < MaxRuns
      /\ k = "transport" => f = Missing
      /\ k = "flights" => t = Missing
      /\ UNCHANGED <<cards, superseded, tier, locked, plan>>
    BY DEF Research
<1>2. f \in Result /\ t \in Result
    BY OptionsOK DEF FlightResults, TransportResults, Result, Missing, Unusable
<1>3. job' \in Job
    BY <1>1, <1>2 DEF Job
<1>4. runs \in Nat /\ MaxRuns \in Nat /\ runs' \in 1 .. MaxRuns
    BY <1>1, OptionsOK DEF TiersInv, Shapes, TypeOK
<1>5. TypeOK'
    BY <1>1, <1>3, <1>4 DEF TiersInv, Shapes, TypeOK
<1>6. \A c \in cards : c.run \in 1 .. runs' /\ c.run # runs'
    BY <1>1, <1>4 DEF TiersInv, Shapes
<1>7. superseded \subseteq cards
    BY DEF TiersInv, Shapes, TypeOK
<1>8. Shapes'
    BY <1>1, <1>4, <1>5, <1>6, <1>7 DEF TiersInv, Shapes
<1>9. Progress'
    BY <1>1, <1>6 DEF Progress, RunCards
<1>10. Listed'
    BY <1>1 DEF Listed, Ranked
<1> QED
    BY <1>8, <1>9, <1>10 DEF TiersInv

\* Nothing of the cards changes: the run in progress goes on, or ends failed.
LEMMA NothingPersisted ==
    ASSUME TiersInv, UNCHANGED <<cards, superseded, tier, locked, runs>>,
           job.pc # "idle", NEW pc \in {"idle", "flights", "transport", "finish"},
           job' = [job EXCEPT !.pc = pc],
           plan' = plan \/ plan' = NoPlan, outcome' \in {outcome, "failed"}
    PROVE  Shapes'
<1>1. job \in Job
    BY DEF TiersInv, Shapes, TypeOK
<1>2. /\ job'.pc = pc /\ job'.kind = job.kind /\ job'.flights = job.flights
      /\ job'.transport = job.transport /\ job' \in Job
    BY <1>1 DEF Job
<1>3. DOMAIN NoPlan = {}
    BY DEF NoPlan
<1>4. TypeOK'
    BY <1>2, <1>3 DEF TiersInv, Shapes, TypeOK
<1> QED
    BY <1>2, <1>3, <1>4 DEF TiersInv, Shapes

LEMMA FailStep ==
    ASSUME TiersInv, Fail
    PROVE  TiersInv'
<1>1. /\ job.pc # "idle" /\ job' = [job EXCEPT !.pc = "idle"]
      /\ plan' = NoPlan /\ outcome' = "failed"
      /\ UNCHANGED <<cards, superseded, tier, locked, runs>>
    BY DEF Fail
<1>2. Shapes'
    BY <1>1, NothingPersisted
<1>3. job'.pc = "idle"
    BY <1>1 DEF TiersInv, Shapes, TypeOK, Job
<1>4. Progress' /\ Listed'
    BY <1>1, <1>3 DEF Progress, Listed, Ranked
<1> QED
    BY <1>2, <1>4 DEF TiersInv

\* The results of a run stay its own.
LEMMA RunGoesOn ==
    ASSUME job \in Job, NEW pc, job' = [job EXCEPT !.pc = pc], runs' = runs
    PROVE  /\ job'.pc = pc /\ job'.kind = job.kind
           /\ job'.flights = job.flights /\ job'.transport = job.transport
           /\ Joint' <=> Joint
           /\ NewFlights' = NewFlights /\ NewTransport' = NewTransport
<1>1. /\ job'.pc = pc /\ job'.kind = job.kind
      /\ job'.flights = job.flights /\ job'.transport = job.transport
    BY DEF Job
<1> QED
    BY <1>1 DEF Joint, NewFlights, NewTransport, KeptInSource, TransportCard

\* What a commit of one type leaves of the pool.
LEMMA PoolStays ==
    ASSUME job \in Job, NEW pc, job' = [job EXCEPT !.pc = pc],
           NEW new, NEW type \in Types, \A c \in new : c.type = type,
           type = "flight" => job.flights.status = "found",
           (type = "transport" /\ ~Joint) => job.flights.status # "found" \/ new = {},
           cards' = cards \cup new, UNCHANGED <<superseded, runs>>
    PROVE  Pool' = Pool
<1>1. /\ job'.flights = job.flights /\ (Joint' <=> Joint)
      /\ NewFlights' = NewFlights /\ NewTransport' = NewTransport
    BY RunGoesOn
<1>2. \A t \in Types : t # type \/ new = {} => OfType(t)' = OfType(t)
    BY DEF OfType, Active
<1>3. /\ Priced(NewFlights)' = Priced(NewFlights)
      /\ Priced(NewTransport)' = Priced(NewTransport)
    BY <1>1 DEF Priced
<1>4. \A t \in Types : t # type \/ new = {} => Peers(t)' = Peers(t)
    BY <1>2, <1>3 DEF Peers, Priced
<1> QED
    BY <1>1, <1>3, <1>4 DEF Pool, Types

LEMMA PersistShapes ==
    ASSUME TiersInv, job.pc # "idle", NEW new \in SUBSET Card,
           \A c \in new : c.run = runs,
           NEW pool, NEW t \in Tierings(pool), \A c \in pool : c.priced,
           Persist(new, t), UNCHANGED <<superseded, locked, runs, outcome>>,
           NEW pc \in {"transport", "finish"}, job' = [job EXCEPT !.pc = pc],
           DOMAIN plan' \subseteq Card,
           \A c \in DOMAIN plan' : c.priced /\ plan'[c] \in Tiers
    PROVE  Shapes'
<1>1. job \in Job /\ runs \in 1 .. MaxRuns
    BY DEF TiersInv, Shapes, TypeOK
<1>2. /\ job'.pc = pc /\ job'.kind = job.kind /\ job'.flights = job.flights
      /\ job'.transport = job.transport /\ job' \in Job
    BY <1>1 DEF Job
<1>3. /\ cards' = cards \cup new /\ cards' \subseteq Card
      /\ tier' \in [cards' -> Tiers]
      /\ \A c \in cards' : tier'[c] # "none" => c.priced
    BY PersistTypes DEF TiersInv
<1>4. TypeOK'
    BY <1>2, <1>3 DEF TiersInv, Shapes, TypeOK
<1>5. \A c \in cards' : c.run \in 1 .. runs
    BY <1>1, <1>3 DEF TiersInv, Shapes
<1> QED
    BY <1>1, <1>2, <1>4, <1>5 DEF TiersInv, Shapes

\* Every card of a pool is priced, and one of the leg or of the run.
LEMMA PoolCards ==
    /\ \A c \in Pool : c.priced
    /\ Pool \subseteq cards \cup NewFlights \cup NewTransport
    /\ Joint => Pool \subseteq NewFlights \cup NewTransport
    /\ (~Joint /\ job.flights.status = "found") => Pool \subseteq cards \cup NewFlights
    /\ job.flights.status # "found" => Pool \subseteq cards \cup NewTransport
BY DEF Pool, Priced, Peers, OfType, Active, Joint

LEMMA FlightsJointStep ==
    ASSUME TiersInv, PersistFlightsJoint
    PROVE  TiersInv'
<1>1. PICK pool : pool = Pool
    OBVIOUS
<1>2. Pool = Priced(NewFlights) \cup Priced(NewTransport) /\ Joint /\ job.pc = "flights"
    BY DEF PersistFlightsJoint, Pool
<1>3. PICK t \in Tierings(pool) : plan' = t /\ Persist(NewFlights, t)
    BY <1>1, <1>2 DEF PersistFlightsJoint
<1>4. /\ job' = [job EXCEPT !.pc = "transport"]
      /\ UNCHANGED <<superseded, locked, runs, outcome>>
      /\ cards' = cards \cup NewFlights
    BY <1>3 DEF PersistFlightsJoint, Persist
<1>5. job \in Job /\ runs \in 1 .. MaxRuns /\ job.flights.status = "found"
    BY <1>2 DEF TiersInv, Shapes, TypeOK, Joint
<1>6. /\ NewFlights \subseteq Card /\ NewTransport \subseteq Card
      /\ \A c \in NewFlights : c.run = runs /\ c.type = "flight"
    BY <1>5, NewCards DEF TiersInv
<1>7. /\ pool \subseteq Card /\ \A c \in pool : c.priced
      /\ DOMAIN t = pool /\ \A c \in pool : t[c] \in Tiers
    BY <1>1, <1>2, <1>6, PoolCards, TieringShape
<1>8. Shapes'
    BY <1>2, <1>3, <1>4, <1>6, <1>7, PersistShapes
<1>9. Pool' = pool
    BY <1>1, <1>4, <1>5, <1>6, PoolStays DEF Types
<1>10. /\ job'.pc = "transport" /\ (Joint' <=> Joint) /\ NewFlights' = NewFlights
    BY <1>4, <1>5, RunGoesOn
<1>11. RunCards' = NewFlights
    BY <1>2, <1>4, <1>6 DEF RunCards, TiersInv, Progress
<1>12. Progress'
    BY <1>2, <1>3, <1>9, <1>10, <1>11 DEF Progress
<1>13. Listed'
    BY <1>10 DEF Listed, Ranked
<1> QED
    BY <1>8, <1>12, <1>13 DEF TiersInv

LEMMA FlightsStep ==
    ASSUME TiersInv, PersistFlights
    PROVE  TiersInv'
<1>1. /\ job.pc = "flights" /\ ~Joint /\ job' = [job EXCEPT !.pc = "transport"]
      /\ UNCHANGED <<superseded, locked, runs, plan, outcome>>
    BY DEF PersistFlights
<1>2. job \in Job /\ runs \in 1 .. MaxRuns
    BY <1>1 DEF TiersInv, Shapes, TypeOK
<1>3. /\ NewFlights \subseteq Card
      /\ \A c \in NewFlights : c.run = runs /\ c.type = "flight"
      /\ job.flights.status # "found" => NewFlights = {}
    BY <1>2, NewCards DEF TiersInv
<1>4. /\ job'.pc = "transport" /\ ~Joint' /\ NewFlights' = NewFlights
      /\ job'.flights = job.flights
    BY <1>1, <1>2, RunGoesOn
<1>5. Listed'
    BY <1>4 DEF Listed, Ranked
<1>6. RunCards = {}
    BY <1>1 DEF TiersInv, Progress
<1>7. CASE job.flights.status = "found"
    <2>1. PICK pool : pool = Pool
        OBVIOUS
    <2>2. Pool = Priced(NewFlights) \cup Peers("transport")
        BY <1>1, <1>7 DEF Pool
    <2>3. PICK t \in Tierings(pool) : Persist(NewFlights, t)
        BY <1>7, <2>1, <2>2 DEF PersistFlights
    <2>4. cards' = cards \cup NewFlights
        BY <2>3 DEF Persist
    <2>5. pool \subseteq cards \cup NewFlights /\ \A c \in pool : c.priced
        BY <1>1, <1>7, <2>1, PoolCards
    <2>6. Shapes'
        BY <1>1, <1>3, <2>3, <2>5, PersistShapes DEF TiersInv, Shapes, TypeOK
    <2>7. RankedOver(pool)'
        BY <2>3, <2>5, PersistRanks
    <2>8. Pool' = pool
        BY <1>1, <1>2, <1>3, <1>7, <2>1, <2>4, PoolStays DEF Types
    <2>9. RunCards' = NewFlights
        BY <1>1, <1>3, <1>6, <2>4 DEF RunCards
    <2>10. Progress'
        BY <1>4, <2>7, <2>8, <2>9 DEF Progress, RankedOver
    <2> QED
        BY <1>5, <2>6, <2>10 DEF TiersInv
<1>8. CASE job.flights.status # "found"
    <2>1. UNCHANGED <<cards, tier>>
        BY <1>8 DEF PersistFlights
    <2>2. Shapes'
        BY <1>1, <2>1, NothingPersisted
    <2>3. RunCards' = NewFlights
        BY <1>1, <1>3, <1>6, <1>8, <2>1 DEF RunCards
    <2>4. Progress'
        BY <1>4, <1>8, <2>3 DEF Progress
    <2> QED
        BY <1>5, <2>2, <2>4 DEF TiersInv
<1> QED
    BY <1>7, <1>8

LEMMA TransportJointStep ==
    ASSUME TiersInv, PersistTransportJoint
    PROVE  TiersInv'
<1>1. /\ job.pc = "transport" /\ Joint /\ job' = [job EXCEPT !.pc = "finish"]
      /\ Persist(NewTransport, plan) /\ plan' = NoPlan
      /\ UNCHANGED <<superseded, locked, runs, outcome>>
    BY DEF PersistTransportJoint
<1>2. job \in Job /\ runs \in 1 .. MaxRuns
    BY <1>1 DEF TiersInv, Shapes, TypeOK
<1>3. /\ NewTransport \subseteq Card
      /\ \A c \in NewTransport : c.run = runs /\ c.type = "transport"
    BY <1>2, NewCards DEF TiersInv
<1>4. /\ job'.pc = "finish" /\ (Joint' <=> Joint) /\ job'.flights = job.flights
      /\ NewFlights' = NewFlights /\ NewTransport' = NewTransport
    BY <1>1, <1>2, RunGoesOn
<1>5. PICK pool : pool = Pool
    OBVIOUS
<1>6. plan \in Tierings(pool) /\ RunCards = NewFlights
    BY <1>1, <1>5 DEF TiersInv, Progress
<1>7. cards' = cards \cup NewTransport
    BY <1>1 DEF Persist
<1>8. pool \subseteq cards \cup NewTransport /\ \A c \in pool : c.priced
    <2>1. NewFlights \subseteq cards
        BY <1>6 DEF RunCards
    <2> QED
        BY <1>1, <1>5, <2>1, PoolCards
<1>9. DOMAIN NoPlan = {}
    BY DEF NoPlan
<1>10. Shapes'
    <2>1. PICK t : t = plan
        OBVIOUS
    <2>2. t \in Tierings(pool) /\ Persist(NewTransport, t)
        BY <1>1, <1>6, <2>1
    <2> QED
        BY <1>1, <1>3, <1>8, <1>9, <2>2, PersistShapes
<1>11. RankedOver(pool)'
    <2>1. PICK t : t = plan
        OBVIOUS
    <2>2. t \in Tierings(pool) /\ Persist(NewTransport, t)
        BY <1>1, <1>6, <2>1
    <2> QED
        BY <1>8, <2>2, PersistRanks
<1>12. Pool' = pool
    BY <1>1, <1>2, <1>3, <1>5, <1>7, PoolStays DEF Types
<1>13. RunCards' = NewFlights \cup NewTransport
    BY <1>1, <1>3, <1>6, <1>7 DEF RunCards
<1>14. Progress'
    BY <1>4, <1>11, <1>12, <1>13 DEF Progress, RankedOver
<1>15. Listed'
    BY <1>4 DEF Listed, Ranked
<1> QED
    BY <1>10, <1>14, <1>15 DEF TiersInv

LEMMA TransportStep ==
    ASSUME TiersInv, PersistTransport
    PROVE  TiersInv'
<1>1. /\ job.pc = "transport" /\ ~Joint /\ job.transport # Unusable
      /\ job' = [job EXCEPT !.pc = "finish"]
      /\ UNCHANGED <<superseded, locked, runs, plan, outcome>>
    BY DEF PersistTransport
<1>2. job \in Job /\ runs \in 1 .. MaxRuns
    BY <1>1 DEF TiersInv, Shapes, TypeOK
<1>3. /\ NewTransport \subseteq Card
      /\ \A c \in NewTransport : c.run = runs /\ c.type = "transport"
      /\ job.transport.status # "found" => NewTransport = {}
      /\ job.flights.status # "found" => NewFlights = {}
    BY <1>2, NewCards DEF TiersInv
<1>4. /\ job'.pc = "finish" /\ ~Joint'
      /\ job'.flights = job.flights /\ job'.transport = job.transport
      /\ NewFlights' = NewFlights /\ NewTransport' = NewTransport
    BY <1>1, <1>2, RunGoesOn
<1>5. Listed'
    BY <1>4 DEF Listed, Ranked
<1>6. RunCards = NewFlights
    BY <1>1 DEF TiersInv, Progress
<1>7. CASE job.transport.status = "found"
    <2>1. PICK pool : pool = Pool
        OBVIOUS
    <2>2. job.flights.status # "found"
        BY <1>1, <1>7 DEF Joint
    <2>3. Pool = Priced(NewTransport) \cup Peers("flight")
        BY <1>1, <2>2 DEF Pool
    <2>4. PICK t \in Tierings(pool) : Persist(NewTransport, t)
        BY <1>7, <2>1, <2>3 DEF PersistTransport
    <2>5. cards' = cards \cup NewTransport
        BY <2>4 DEF Persist
    <2>6. pool \subseteq cards \cup NewTransport /\ \A c \in pool : c.priced
        BY <2>1, <2>2, PoolCards
    <2>7. Shapes'
        BY <1>1, <1>3, <2>4, <2>6, PersistShapes DEF TiersInv, Shapes, TypeOK
    <2>8. RankedOver(pool)'
        BY <2>4, <2>6, PersistRanks
    <2>9. Pool' = pool
        BY <1>1, <1>2, <1>3, <2>1, <2>2, <2>5, PoolStays DEF Types
    <2>10. RunCards' = NewFlights \cup NewTransport
        BY <1>1, <1>3, <1>6, <2>5 DEF RunCards
    <2>11. Progress'
        BY <1>4, <2>8, <2>9, <2>10 DEF Progress, RankedOver
    <2> QED
        BY <1>5, <2>7, <2>11 DEF TiersInv
<1>8. CASE job.transport.status # "found"
    <2>1. UNCHANGED <<cards, tier>>
        BY <1>8 DEF PersistTransport
    <2>2. Shapes'
        BY <1>1, <2>1, NothingPersisted
    <2>3. RunCards' = NewFlights \cup NewTransport
        BY <1>1, <1>3, <1>6, <1>8, <2>1 DEF RunCards
    <2>4. Pool' = Pool
        <3>1. NewTransport = {} /\ cards' = cards \cup NewTransport
            BY <1>3, <1>8, <2>1
        <3> QED
            BY <1>1, <1>2, <3>1, PoolStays DEF Types
    <2>5. job.flights.status = "found" => RankedOver(Pool)
        BY <1>1 DEF TiersInv, Progress
    <2>6. job.flights.status = "found" => RankedOver(Pool)'
        BY <2>1, <2>4, <2>5 DEF RankedOver
    <2>7. Progress'
        BY <1>4, <1>8, <2>3, <2>6 DEF Progress
    <2> QED
        BY <1>5, <2>2, <2>7 DEF TiersInv
<1> QED
    BY <1>7, <1>8

\* What is listed after the completion is of the pool the run has ranked, and
\* is all of it when no lock spared a card.
LEMMA FinishStep ==
    ASSUME TiersInv, Finish
    PROVE  TiersInv'
<1>1. /\ job.pc = "finish" /\ job' = [job EXCEPT !.pc = "idle"]
      /\ job.kind # "flights" => job.transport.status = "found"
      /\ superseded' = superseded \cup (Replaced \ locked)
      /\ outcome' = "completed"
      /\ UNCHANGED <<cards, tier, locked, runs, plan>>
    BY DEF Finish
<1>2. job \in Job /\ runs \in 1 .. MaxRuns /\ job.kind \in RunTypes
    BY <1>1 DEF TiersInv, Shapes, TypeOK, Job
<1>3. /\ \A c \in NewFlights : c.run = runs /\ c.type = "flight"
      /\ \A c \in NewTransport : c.run = runs /\ c.type = "transport"
      /\ job.flights.status # "found" => NewFlights = {}
      /\ job.transport.status # "found" => NewTransport = {}
    BY <1>2, NewCards DEF TiersInv
<1>4. /\ job'.pc = "idle" /\ job'.kind = job.kind /\ (Joint' <=> Joint)
      /\ job'.flights = job.flights /\ job'.transport = job.transport
      /\ NewFlights' = NewFlights /\ NewTransport' = NewTransport
    BY <1>1, <1>2, RunGoesOn
<1>5. Replaced \subseteq cards /\ \A c \in Replaced : c.run # runs
    BY DEF Replaced, Active
<1>6. Shapes'
    <2>1. job' \in Job
        BY <1>1, <1>2 DEF Job
    <2>2. TypeOK'
        BY <1>1, <1>5, <2>1 DEF TiersInv, Shapes, TypeOK
    <2> QED
        BY <1>1, <1>4, <1>5, <2>2 DEF TiersInv, Shapes
<1>7. Progress'
    BY <1>4 DEF Progress
<1>8. RunCards = NewFlights \cup NewTransport
    BY <1>1 DEF TiersInv, Progress
<1>9. /\ Active' = Active \ (Replaced \ locked)
      /\ Replaced' = Replaced \cap locked
    <2>1. Active' = Active \ (Replaced \ locked)
        BY <1>1 DEF Active
    <2>2. Scope' = Scope
        BY <1>4 DEF Scope
    <2>3. Replaced' = {c \in Active' : c.type \in Scope /\ c.run # runs}
        BY <1>1, <2>2 DEF Replaced
    <2> QED
        BY <2>1, <2>3 DEF Replaced
<1>10. ASSUME Ranked' PROVE RankedOver(Pool)
    <2>1. "found" \in {job.flights.status, job.transport.status}
        BY <1>4, <1>10 DEF Ranked
    <2> QED
        BY <1>1, <2>1 DEF TiersInv, Progress
<1>11. ASSUME Ranked', NEW c \in Priced(Active) \ Replaced
       PROVE  c \in Pool
    <2>1. c.priced /\ c \in cards /\ c \in Active /\ c \in Card
        BY <1>11 DEF Priced, Active, TiersInv, Shapes, TypeOK
    <2>2. CASE c.run = runs
        <3>1. c \in NewFlights \cup NewTransport
            BY <1>8, <2>1, <2>2 DEF RunCards
        <3>2. ~Joint /\ job.flights.status = "found" => NewTransport = {}
            BY <1>3 DEF Joint
        <3> QED
            BY <1>3, <2>1, <3>1, <3>2 DEF Pool, Priced
    <2>3. CASE c.run # runs
        <3>1. c.type \notin Scope /\ c.type \in {"flight", "transport"}
            BY <1>11, <2>1, <2>3 DEF Replaced, Card, Types
        <3>2. \/ job.kind = "flights" /\ c.type = "transport"
              \/ job.kind = "transport" /\ c.type = "flight"
            BY <1>2, <3>1 DEF Scope, Types, RunTypes
        <3>3. CASE job.kind = "flights" /\ c.type = "transport"
            <4>1. job.transport.status # "found" /\ Priced(NewTransport) = {}
                BY <1>3, <3>3 DEF TiersInv, Shapes, Missing, Priced
            <4>2. job.flights.status = "found" /\ ~Joint
                BY <1>4, <1>10, <1>11, <4>1 DEF Ranked, Joint, Priced
            <4>3. c \in Peers("transport")
                BY <2>1, <3>3 DEF Peers, Priced, OfType
            <4> QED
                BY <4>2, <4>3 DEF Pool
        <3>4. CASE job.kind = "transport" /\ c.type = "flight"
            <4>1. job.flights.status # "found"
                BY <3>4 DEF TiersInv, Shapes, Missing
            <4>2. Priced(NewTransport) # {}
                BY <1>4, <1>11, <4>1 DEF Ranked, Priced
            <4>3. c \in Peers("flight")
                BY <2>1, <3>4, <4>2 DEF Peers, Priced, OfType
            <4> QED
                BY <4>1, <4>3 DEF Pool, Joint
        <3> QED
            BY <3>2, <3>3, <3>4
    <2> QED
        BY <2>2, <2>3
<1>12. ASSUME Ranked', Replaced' = {}, job.kind = "full" => Joint
       PROVE  Pool = Priced(Active')
    <2>1. Priced(Active') \subseteq Pool
        BY <1>9, <1>11, <1>12 DEF Priced
    <2>2. ASSUME NEW c \in Pool PROVE c \in Active'
        <3>1. c.run = runs => c \notin superseded /\ c \notin Replaced
            BY <1>5 DEF TiersInv, Shapes
        <3>2. c \in cards
            BY <1>10, <1>12, <2>2 DEF RankedOver
        <3>3. c.run = runs => c \in Active'
            BY <1>9, <3>1, <3>2 DEF Active
        <3>4. CASE Joint
            <4>1. c.run = runs
                BY <1>3, <2>2, <3>4, PoolCards
            <4> QED
                BY <3>3, <4>1
        <3>5. CASE ~Joint /\ job.kind = "flights"
            <4>1. job.flights.status = "found"
                <5>1. job.transport.status # "found"
                    BY <3>5 DEF TiersInv, Shapes, Missing
                <5> QED
                    BY <1>3, <1>4, <1>12, <5>1 DEF Ranked, Priced
            <4>2. c \in NewFlights \/ c \in OfType("transport")
                BY <2>2, <3>5, <4>1 DEF Pool, Priced, Peers
            <4>3. c \in OfType("transport") => c \in Active /\ c \notin Replaced
                BY <3>5 DEF OfType, Replaced, Scope
            <4> QED
                BY <1>3, <1>9, <3>3, <4>2, <4>3
        <3>6. CASE ~Joint /\ job.kind = "transport"
            <4>1. job.flights.status # "found"
                BY <3>6 DEF TiersInv, Shapes, Missing
            <4>2. c \in NewTransport \/ c \in OfType("flight")
                BY <2>2, <3>6, <4>1 DEF Pool, Priced, Peers
            <4>3. c \in OfType("flight") => c \in Active /\ c \notin Replaced
                BY <3>6 DEF OfType, Replaced, Scope
            <4> QED
                BY <1>3, <1>9, <3>3, <4>2, <4>3
        <3> QED
            BY <1>2, <1>12, <3>4, <3>5, <3>6 DEF RunTypes
    <2> QED
        BY <2>1, <2>2, PoolCards DEF Priced
<1>13. Listed'
    <2> SUFFICES ASSUME Ranked'
                 PROVE  \E pool :
                          /\ RankedOver(pool)'
                          /\ Priced(Active') \ Replaced' \subseteq pool
                          /\ (Replaced' = {} /\ (job'.kind = "full" => Joint'))
                                => pool = Priced(Active')
        BY DEF Listed, Priced
    <2>1. PICK pool : pool = Pool
        OBVIOUS
    <2>2. RankedOver(pool)'
        BY <1>1, <1>10, <2>1 DEF RankedOver
    <2>3. Priced(Active') \ Replaced' \subseteq pool
        BY <1>9, <1>11, <2>1 DEF Priced
    <2> QED
        BY <1>4, <1>12, <2>1, <2>2, <2>3
<1> QED
    BY <1>6, <1>7, <1>13 DEF TiersInv

\* Nothing of this is about which cards are locked.
LEMMA LocksStep ==
    ASSUME TiersInv, locked' \subseteq cards,
           UNCHANGED <<cards, superseded, tier, runs, job, plan, outcome>>
    PROVE  TiersInv'
<1>1. TypeOK'
    BY DEF TiersInv, Shapes, TypeOK
<1>2. Shapes'
    BY <1>1 DEF TiersInv, Shapes
<1>3. /\ RunCards' = RunCards /\ NewFlights' = NewFlights /\ NewTransport' = NewTransport
      /\ (Joint' <=> Joint) /\ Active' = Active /\ Replaced' = Replaced
    BY DEF RunCards, NewFlights, NewTransport, KeptInSource, TransportCard, Joint, Active,
           Replaced, Scope
<1>4. \A t : OfType(t)' = OfType(t)
    BY <1>3 DEF OfType
<1>5. \A t : Peers(t)' = Peers(t)
    BY <1>3, <1>4 DEF Peers, Priced
<1>6. Pool' = Pool
    BY <1>3, <1>5 DEF Pool, Priced
<1>7. \A pool : RankedOver(pool)' <=> RankedOver(pool)
    BY DEF RankedOver
<1>8. RankedOver(Pool)' <=> RankedOver(Pool)
    BY <1>6 DEF RankedOver
<1>9. Progress'
    BY <1>3, <1>6, <1>8 DEF TiersInv, Progress
<1>10. Listed'
    <2>1. Ranked' <=> Ranked
        BY <1>3 DEF Ranked, Priced
    <2>2. Priced(Active)' = Priced(Active)
        BY <1>3 DEF Priced
    <2> QED
        BY <1>3, <1>7, <2>1, <2>2 DEF TiersInv, Listed
<1> QED
    BY <1>2, <1>9, <1>10 DEF TiersInv

LEMMA TiersStep == TiersInv /\ [Next]_vars => TiersInv'
<1> SUFFICES ASSUME TiersInv, [Next]_vars PROVE TiersInv'
    OBVIOUS
<1>1. ASSUME NEW k \in RunTypes, NEW f \in FlightResults, NEW t \in TransportResults,
             Research(k, f, t)
      PROVE  TiersInv'
    BY <1>1, ResearchStep
<1>2. CASE \/ PersistFlightsJoint \/ PersistFlights
           \/ PersistTransportJoint \/ PersistTransport \/ Fail \/ Finish
    BY <1>2, FlightsJointStep, FlightsStep, TransportJointStep, TransportStep, FailStep,
       FinishStep
<1>3. locked \subseteq cards
    BY DEF TiersInv, Shapes, TypeOK
<1>4. ASSUME NEW c \in cards, LockCard(c) \/ UnlockCard(c)
      PROVE  TiersInv'
    <2>1. locked' \subseteq cards
          /\ UNCHANGED <<cards, superseded, tier, runs, job, plan, outcome>>
        BY <1>3, <1>4 DEF LockCard, UnlockCard
    <2> QED
        BY <2>1, LocksStep
<1>5. CASE UNCHANGED vars
    BY <1>3, <1>5, LocksStep DEF vars
<1> QED
    BY <1>1, <1>2, <1>4, <1>5 DEF Next

-----------------------------------------------------------------------------
(* Finitely many cards *)

LEMMA ImageFinite ==
    ASSUME NEW S, IsFiniteSet(S), NEW V, NEW f \in [S -> V],
           \A y \in V : \E x \in S : f[x] = y
    PROVE  IsFiniteSet(V)
<1>1. f \in Surjection(S, V)
    BY DEF Surjection
<1> QED
    BY <1>1, FS_Surjection

LEMMA NewCardsFinite ==
    ASSUME Shapes
    PROVE  IsFiniteSet(NewFlights) /\ IsFiniteSet(NewTransport)
<1>1. IsFiniteSet(job.flights.options) /\ IsFiniteSet(job.transport.options)
    <2>1. \A r \in FlightResults \cup TransportResults :
             r.options = {} \/ r.options \in FlightFinds \cup TransportFinds
        BY DEF FlightResults, TransportResults, Missing, Unusable
    <2>2. \A r \in FlightResults \cup TransportResults : IsFiniteSet(r.options)
        BY <2>1, OptionsOK, FS_EmptySet
    <2> QED
        BY <2>2 DEF Shapes
<1>2. IsFiniteSet(NewFlights)
    <2> DEFINE f == [o \in job.flights.options |->
                        [run |-> runs, type |-> "flight", option |-> o,
                         priced |-> o.kind = "home"]]
    <2>1. f \in [job.flights.options -> NewFlights]
          /\ \A c \in NewFlights : \E o \in job.flights.options : f[o] = c
        BY Zenon DEF NewFlights
    <2> HIDE DEF f
    <2> QED
        BY <1>1, <2>1, ImageFinite
<1>3. ASSUME NEW S, IsFiniteSet(S), NEW p \in BOOLEAN
      PROVE  IsFiniteSet({TransportCard(o, p) : o \in S})
    <2> DEFINE V == {TransportCard(o, p) : o \in S}
               f == [o \in S |-> TransportCard(o, p)]
    <2>1. f \in [S -> V] /\ \A c \in V : \E o \in S : f[o] = c
        BY Zenon
    <2> HIDE DEF f, V
    <2>2. IsFiniteSet(V)
        BY <1>3, <2>1, ImageFinite
    <2> QED
        BY <2>2 DEF V
<1>4. IsFiniteSet(NewTransport)
    <2> DEFINE A == {p \in job.transport.options : p.kind \in {"home", "converted"}}
    <2>1. IsFiniteSet(A) /\ IsFiniteSet(KeptInSource)
        BY <1>1, FS_Subset DEF KeptInSource
    <2>2. /\ IsFiniteSet({TransportCard(o, TRUE) : o \in A})
          /\ IsFiniteSet({TransportCard(o, FALSE) : o \in KeptInSource})
        BY <1>3, <2>1
    <2>3. IsFiniteSet({TransportCard(o, TRUE) : o \in A}
                      \cup {TransportCard(o, FALSE) : o \in KeptInSource})
        BY <2>2, FS_Union
    <2> QED
        BY <2>3 DEF NewTransport
<1> QED
    BY <1>2, <1>4

FiniteCards == IsFiniteSet(cards)

LEMMA FiniteStep == TiersInv /\ FiniteCards /\ [Next]_vars => FiniteCards'
<1> SUFFICES ASSUME TiersInv, IsFiniteSet(cards), [Next]_vars
             PROVE  IsFiniteSet(cards')
    BY DEF FiniteCards
<1>1. cards' \in {cards, cards \cup NewFlights, cards \cup NewTransport}
    BY DEF Next, Research, PersistFlightsJoint, PersistFlights, PersistTransportJoint,
       PersistTransport, Persist, Fail, Finish, LockCard, UnlockCard, vars
<1> QED
    BY <1>1, NewCardsFinite, FS_Union DEF TiersInv

-----------------------------------------------------------------------------
(* There is a ranking of any pool *)

\* Of some sets of cards one has no other within it.
LEMMA SmallestOf ==
    ASSUME NEW pool, IsFiniteSet(pool), NEW X \in SUBSET (SUBSET pool), X # {}
    PROVE  \E S \in X : \A T \in X : T \subseteq S => T = S
<1>1. IsWellFoundedOn(StrictSubsetOrdering(pool), SUBSET pool)
    BY FS_StrictSubsetOrderingWellFounded, FS_FiniteSubsetsOfFinite
<1>2. PICK S \in X : \A T \in X : <<T, S>> \notin StrictSubsetOrdering(pool)
    BY <1>1, WFMin
<1>3. ASSUME NEW T \in X, T \subseteq S PROVE T = S
    <2>1. <<T, S>> \in (SUBSET pool) \X (SUBSET pool)
        OBVIOUS
    <2> QED
        BY <1>2, <1>3, <2>1 DEF StrictSubsetOrdering
<1> QED
    BY <1>3

LEMMA DearestCard ==
    ASSUME NEW pool, IsFiniteSet(pool), \A c \in pool : c.option.price \in Nat,
           NEW S \in SUBSET pool, S # {}
    PROVE  \E c \in S : \A k \in S : k.option.price <= c.option.price
<1> DEFINE FromOn(c) == {k \in S : c.option.price <= k.option.price}
<1>1. PICK c \in S : \A k \in S : FromOn(k) \subseteq FromOn(c) => FromOn(k) = FromOn(c)
    <2> DEFINE X == {FromOn(c) : c \in S}
    <2>1. X # {} /\ X \in SUBSET (SUBSET pool)
        OBVIOUS
    <2> HIDE DEF X
    <2>2. PICK T \in X : \A U \in X : U \subseteq T => U = T
        BY <2>1, SmallestOf
    <2>3. PICK c \in S : T = FromOn(c)
        BY DEF X
    <2>4. \A k \in S : FromOn(k) \in X
        BY DEF X
    <2> HIDE DEF FromOn
    <2> QED
        BY <2>2, <2>3, <2>4
<1>2. ASSUME NEW k \in S PROVE k.option.price <= c.option.price
    <2> SUFFICES ASSUME c.option.price < k.option.price PROVE FALSE
        OBVIOUS
    <2>1. FromOn(k) \subseteq FromOn(c) /\ c \in FromOn(c) /\ c \notin FromOn(k)
        OBVIOUS
    <2> QED
        BY <1>1, <2>1
<1> QED
    BY <1>2

\* No card left out is cheaper.
Below(pool, S) == \A c \in S, k \in pool \ S : c.option.price <= k.option.price

\* The n cheapest can be taken among any more of the cheapest.
LEMMA CheapestWithin ==
    ASSUME NEW pool, IsFiniteSet(pool), \A c \in pool : c.option.price \in Nat,
           NEW U \in SUBSET pool, Below(pool, U), NEW n \in Nat, n <= Cardinality(U)
    PROVE  \E S \in SUBSET U : Below(pool, S) /\ Cardinality(S) = n
<1> DEFINE X == {S \in SUBSET U : Below(pool, S) /\ n <= Cardinality(S)}
<1>1. X # {} /\ X \in SUBSET (SUBSET pool)
    OBVIOUS
<1>2. PICK S \in X : \A T \in X : T \subseteq S => T = S
    <2> HIDE DEF X
    <2> QED
        BY <1>1, SmallestOf
<1>3. IsFiniteSet(S) /\ Cardinality(S) \in Nat /\ S \subseteq pool
    BY FS_Subset, FS_CardinalityType
<1>4. Cardinality(S) = n
    <2> SUFFICES ASSUME n < Cardinality(S) PROVE FALSE
        BY <1>2, <1>3
    <2>1. S # {}
        BY <1>3, FS_EmptySet
    <2>2. PICK c \in S : \A k \in S : k.option.price <= c.option.price
        BY <1>3, <2>1, DearestCard
    <2>3. Cardinality(S \ {c}) = Cardinality(S) - 1
        BY <1>3, FS_RemoveElement
    <2>4. Below(pool, S \ {c})
        BY <1>2, <1>3, <2>2 DEF Below
    <2>5. S \ {c} \in X
        BY <1>2, <1>3, <2>3, <2>4
    <2> QED
        BY <1>2, <2>5
<1> QED
    BY <1>2, <1>4

LEMMA RankingExists ==
    ASSUME NEW pool, IsFiniteSet(pool), \A c \in pool : c.option.price \in Nat
    PROVE  Tierings(pool) # {}
<1> DEFINE Size(n) == IF Cardinality(pool) < n THEN Cardinality(pool) ELSE n
<1>1. /\ PerTier \in Nat /\ 2 * PerTier \in Nat /\ 3 * PerTier \in Nat
      /\ PerTier <= 2 * PerTier /\ 2 * PerTier <= 3 * PerTier
      /\ Cardinality(pool) \in Nat
    BY OptionsOK, FS_CardinalityType
<1>2. \A m \in Nat : Size(m) \in Nat /\ Size(m) <= Cardinality(pool)
    BY <1>1
<1>3. Size(PerTier) <= Size(2 * PerTier) /\ Size(2 * PerTier) <= Size(3 * PerTier)
    BY <1>1
<1>4. \A S \in SUBSET pool, n \in Nat :
         S \in Cheapest(pool, n) <=> Cardinality(S) = Size(n) /\ Below(pool, S)
    BY DEF Cheapest, Below
<1> HIDE DEF Size
<1>5. Below(pool, pool)
    BY DEF Below
<1>6. PICK s3 \in SUBSET pool : Below(pool, s3) /\ Cardinality(s3) = Size(3 * PerTier)
    BY <1>1, <1>2, <1>5, CheapestWithin
<1>7. PICK s2 \in SUBSET s3 : Below(pool, s2) /\ Cardinality(s2) = Size(2 * PerTier)
    BY <1>1, <1>2, <1>3, <1>6, CheapestWithin
<1>8. PICK s1 \in SUBSET s2 : Below(pool, s1) /\ Cardinality(s1) = Size(PerTier)
    <2>1. s2 \in SUBSET pool
        BY <1>6, <1>7
    <2> QED
        BY <1>1, <1>2, <1>3, <1>7, <2>1, CheapestWithin
<1>9. <<s1, s2, s3>> \in Cuts(pool)
    BY <1>1, <1>4, <1>6, <1>7, <1>8 DEF Cuts
<1> QED
    BY <1>9 DEF Tierings

-----------------------------------------------------------------------------
(* Cards of one option *)

\* Alike: of one option that is not a converted one.
Alike(a, b) ==
    a.run = b.run /\ a.type = b.type /\ a.option = b.option /\ a.option.kind # "converted"

LEMMA FlightsOnce ==
    ASSUME NEW a \in NewFlights, NEW b \in NewFlights, Alike(a, b)
    PROVE  a = b
BY DEF NewFlights, Alike

LEMMA TransportOnce ==
    ASSUME NEW a \in NewTransport, NEW b \in NewTransport, Alike(a, b)
    PROVE  a = b
<1>1. ASSUME NEW c \in NewTransport
      PROVE  \/ c = TransportCard(c.option, TRUE) /\ c.option.kind \in {"home", "converted"}
             \/ c = TransportCard(c.option, FALSE) /\ c.option \in KeptInSource
    BY <1>1 DEF NewTransport, TransportCard
<1>2. \A o \in KeptInSource : o.kind \in {"foreign", "unpriced", "converted"}
    BY DEF KeptInSource
<1>3. a.option = b.option /\ a.option.kind # "converted"
    BY DEF Alike
<1>4. a.option \in KeptInSource => a.option.kind \notin {"home", "converted"}
    BY <1>2, <1>3
<1>5. \/ a = TransportCard(a.option, TRUE) /\ b = TransportCard(b.option, TRUE)
      \/ a = TransportCard(a.option, FALSE) /\ b = TransportCard(b.option, FALSE)
    BY <1>1, <1>3, <1>4
<1> QED
    <2>1. PICK o : o = a.option /\ o = b.option
        BY <1>3
    <2>2. \/ a = TransportCard(o, TRUE) /\ b = TransportCard(o, TRUE)
          \/ a = TransportCard(o, FALSE) /\ b = TransportCard(o, FALSE)
        BY <1>5, <2>1, Zenon
    <2> QED
        BY <2>2, Zenon

LEMMA AddedOnce ==
    ASSUME OnlyConvertedTwice, NEW new, cards' = cards \cup new,
           \A a \in new, b \in new : Alike(a, b) => a = b,
           \A a \in new, b \in cards : a.run # b.run \/ a.type # b.type
    PROVE  OnlyConvertedTwice'
BY DEF OnlyConvertedTwice, Alike

LEMMA OnceStep == TiersInv /\ OnlyConvertedTwice /\ [Next]_vars => OnlyConvertedTwice'
<1> SUFFICES ASSUME TiersInv, OnlyConvertedTwice, [Next]_vars
             PROVE  OnlyConvertedTwice'
    OBVIOUS
<1>1. ASSUME job.pc \in {"flights", "transport"}
      PROVE  /\ \A c \in NewFlights : c.run = runs /\ c.type = "flight"
             /\ \A c \in NewTransport : c.run = runs /\ c.type = "transport"
             /\ job.pc = "flights" => RunCards = {}
             /\ job.pc = "transport" => RunCards = NewFlights
    BY <1>1, NewCards DEF TiersInv, Shapes, Progress
<1>2. CASE PersistFlightsJoint \/ PersistFlights
    <2>1. job.pc = "flights" /\ (cards' = cards \cup NewFlights \/ cards' = cards)
        BY <1>2 DEF PersistFlightsJoint, PersistFlights, Persist
    <2>2. \A a \in NewFlights, b \in cards : a.run # b.run
        BY <1>1, <2>1 DEF RunCards
    <2> QED
        BY <2>1, <2>2, FlightsOnce, AddedOnce DEF OnlyConvertedTwice
<1>3. CASE PersistTransportJoint \/ PersistTransport
    <2>1. job.pc = "transport" /\ (cards' = cards \cup NewTransport \/ cards' = cards)
        BY <1>3 DEF PersistTransportJoint, PersistTransport, Persist
    <2>2. \A a \in NewTransport, b \in cards : a.run # b.run \/ a.type # b.type
        BY <1>1, <2>1 DEF RunCards
    <2> QED
        BY <2>1, <2>2, TransportOnce, AddedOnce DEF OnlyConvertedTwice
<1>4. CASE UNCHANGED cards
    BY <1>4 DEF OnlyConvertedTwice
<1> QED
    BY <1>2, <1>3, <1>4 DEF Next, Research, Fail, Finish, LockCard, UnlockCard, vars

-----------------------------------------------------------------------------
(* The theorems *)

(* Each phase of a run leaves the cards it has ranked with the tiers of one   *)
(* ranking, until the completion supersedes some: TiersInv is inductive.      *)
THEOREM TiersInvariant == Spec => []TiersInv
BY TiersInit, TiersStep, PTL DEF Spec

(* Every variable has its type, and only cards priced in the home currency    *)
(* have a tier (partition_price_tiers and the columns it is written to).      *)
THEOREM TiersTypes == Spec => []TypeOK
<1>1. TiersInv => TypeOK
    BY DEF TiersInv, Shapes
<1> QED
    BY <1>1, TiersInvariant, PTL

(* On the cards a completed run shows, save those a lock spared, a cheaper    *)
(* one is never in a dearer tier, whichever type and run they come from,      *)
(* although the types are ranked and committed apart (combined_tiering.py).   *)
THEOREM CheaperIsNeverDearer == Spec => []TiersFollowPrices
<1>1. TiersInv => TiersFollowPrices
    <2> SUFFICES ASSUME TiersInv, Ranked,
                        NEW a \in Priced(Active) \ Replaced,
                        NEW b \in Priced(Active) \ Replaced,
                        a.option.price < b.option.price
                 PROVE  Rank[tier[a]] <= Rank[tier[b]]
        BY DEF TiersFollowPrices
    <2>1. PICK pool : RankedOver(pool) /\ Priced(Active) \ Replaced \subseteq pool
        BY DEF TiersInv, Listed
    <2> DEFINE t == [c \in pool |-> tier[c]]
    <2>2. t \in Tierings(pool) /\ a \in pool /\ b \in pool
        BY <2>1 DEF RankedOver
    <2>3. a.option.price \in Nat /\ b.option.price \in Nat
        <3>1. a \in Card /\ b \in Card
            BY DEF Priced, Active, TiersInv, Shapes, TypeOK
        <3> QED
            BY <3>1, OptionsOK DEF Card
    <2>4. t[a] = tier[a] /\ t[b] = tier[b]
        BY <2>2
    <2> HIDE DEF t
    <2>5. Rank[t[a]] <= Rank[t[b]]
        BY <2>2, <2>3, CheaperFirst
    <2> QED
        BY <2>4, <2>5
<1> QED
    BY <1>1, TiersInvariant, PTL

(* When no lock spared a card, the tiers shown are those of ranking exactly   *)
(* the cards shown: nobody is ranked among cards that are gone, except by a   *)
(* full run without flights (persist_transport_research's peers).             *)
THEOREM RankingIsOfTheList == Spec => []TiersAreThoseOfThePool
<1>1. TiersInv => TiersAreThoseOfThePool
    BY DEF TiersInv, Listed, RankedOver, TiersAreThoseOfThePool
<1> QED
    BY <1>1, TiersInvariant, PTL

(* No run persists an option twice but a converted one: what the finding      *)
(* about persist_transport_research shows is all that can be double.          *)
THEOREM OthersAreCardedOnce == Spec => []OnlyConvertedTwice
<1>1. Init => OnlyConvertedTwice
    BY DEF Init, OnlyConvertedTwice
<1> QED
    BY <1>1, OnceStep, TiersInvariant, PTL DEF Spec

(* The cards of a completed run, save those a lock spared, fill no tier with  *)
(* more than PerTier, although the two types are persisted apart and each     *)
(* type's run ranks the other's cards again (assign_pooled_price_tiers).      *)
THEOREM TiersHoldThree == Spec => []AtMostPerTier
<1>1. TiersInv /\ FiniteCards => AtMostPerTier
    <2> SUFFICES ASSUME TiersInv, IsFiniteSet(cards), Ranked,
                        NEW band \in Tiers \ {"none"}
                 PROVE  Cardinality({c \in Priced(Active) \ Replaced : tier[c] = band})
                            <= PerTier
        BY DEF AtMostPerTier, FiniteCards
    <2>1. PICK pool : RankedOver(pool) /\ Priced(Active) \ Replaced \subseteq pool
        BY DEF TiersInv, Listed
    <2> DEFINE t == [c \in pool |-> tier[c]]
               Shown == {c \in Priced(Active) \ Replaced : tier[c] = band}
               Whole == {c \in pool : t[c] = band}
    <2>2. t \in Tierings(pool) /\ IsFiniteSet(pool)
        BY <2>1, FS_Subset DEF RankedOver
    <2>3. Shown \subseteq Whole
        BY <2>1
    <2> HIDE DEF t
    <2>4. IsFiniteSet(Whole) /\ Cardinality(Whole) <= PerTier
        BY <2>2, TierSizes
    <2> HIDE DEF Shown, Whole
    <2>5. IsFiniteSet(Shown) /\ Cardinality(Shown) <= Cardinality(Whole)
        BY <2>3, <2>4, FS_Subset
    <2>6. Cardinality(Shown) <= PerTier
        BY <2>4, <2>5, FS_CardinalityType, OptionsOK
    <2> QED
        BY <2>6 DEF Shown
<1>2. Init => FiniteCards
    BY FS_EmptySet DEF Init, FiniteCards
<1> QED
    BY <1>1, <1>2, FiniteStep, TiersInvariant, PTL DEF Spec

(* Whatever was found and whatever is still listed, equal prices and short    *)
(* pools included, there is a ranking of what a run is about to rank: neither *)
(* commit of the model waits for one (partition_price_tiers never fails).     *)
THEOREM RunsAlwaysRank == Spec => []AlwaysRanked
<1>1. TiersInv /\ FiniteCards => AlwaysRanked
    <2> SUFFICES ASSUME TiersInv, IsFiniteSet(cards), job.pc \in {"flights", "transport"}
                 PROVE  Tierings(Pool) # {}
        BY DEF AlwaysRanked, FiniteCards
    <2>1. /\ cards \subseteq Card /\ NewFlights \subseteq Card /\ NewTransport \subseteq Card
        BY NewCards DEF TiersInv, Shapes, TypeOK
    <2>2. IsFiniteSet(cards \cup NewFlights \cup NewTransport)
        BY NewCardsFinite, FS_Union DEF TiersInv
    <2>3. PICK pool : pool = Pool
        OBVIOUS
    <2>4. pool \subseteq Card /\ IsFiniteSet(pool)
        BY <2>1, <2>2, <2>3, PoolCards, FS_Subset
    <2>5. \A c \in pool : c.option.price \in Nat
        BY <2>4, OptionsOK DEF Card
    <2> QED
        BY <2>3, <2>4, <2>5, RankingExists
<1>2. Init => FiniteCards
    BY FS_EmptySet DEF Init, FiniteCards
<1> QED
    BY <1>1, <1>2, FiniteStep, TiersInvariant, PTL DEF Spec
=============================================================================
