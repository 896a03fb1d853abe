----------------------- MODULE ResearchPipeline_proofs -----------------------
(***************************************************************************)
(* Theorems about ResearchPipeline, for any sequence of runs, any settings *)
(* and whatever the services answer.                                       *)
(***************************************************************************)
EXTENDS ResearchPipeline, SearchCalls_proofs, FiniteSetTheorems

CardOver(I) == [run : Nat, search : ResearchSearches, item : I, active : BOOLEAN]

IsCard(c) == \E I : c \in CardOver(I)

PersistPhases == {"hotels", "activities", "flights", "transport"}

Response(s) == [run |-> run.id, search |-> s]

\* What became of a search of this run: it is kept as it was found ...
Kept(s) ==
    /\ Response(s) \in raws <=> Found(s)
    /\ (Found(s) /\ s # "activities") => StoredItems(s) = calls[s].options

\* ... or nothing of it is stored.
Untouched(s) == Response(s) \notin raws /\ StoredItems(s) = {}

\* When all that is to be stored has been.
Ended ==
    /\ Kept("hotels") /\ Kept("activities")
    /\ IF Unusable("activities") THEN Untouched("flights") /\ Untouched("transport")
       ELSE Kept("flights") /\ Kept("transport")

\* One commit for each kind, in this order.
Progress ==
    /\ run.pc \in {"searching", "hotels"} => \A s \in ResearchSearches : Untouched(s)
    /\ run.pc = "activities" =>
          Kept("hotels") /\ \A s \in {"activities", "flights", "transport"} : Untouched(s)
    /\ run.pc \in {"flights", "transport"} =>
          /\ Kept("hotels") /\ Kept("activities") /\ ~Unusable("activities")
          /\ IF run.pc = "flights" THEN Untouched("flights") ELSE Kept("flights")
          /\ Untouched("transport")
    /\ run.pc = "finish" => Ended /\ \A s \in run.asked : calls[s].outcome = "options"
    /\ run.pc = "failing" \/ Over => Ended

\* Uncited transport is dropped when it is parsed.
Cited == \A option \in calls["transport"].options : option.citations > 0

Shapes ==
    /\ CallsInv /\ Cited
    /\ run \in [id : 0 .. Len(RunTypes), type : ResearchSearches \cup {"full"},
                pc : RunPhases, status : RunStatuses, asked : SUBSET ResearchSearches]
    /\ run.asked \subseteq ScopedTypes(run.type)
    /\ run.pc # "idle" => run.id > 0 /\ run.status = "running"
    /\ run.pc \notin {"idle", "searching"} => \A s \in run.asked : calls[s].pc = "done"
    /\ \A c \in cards : IsCard(c) /\ c.run \in 1 .. run.id
    /\ \A r \in raws : r.run \in 1 .. run.id /\ r.search \in ResearchSearches

PipeInv == Shapes /\ Progress

-----------------------------------------------------------------------------
(* The calls *)

\* What an agent's parsed answer holds is cited.
LEMMA CallsStayCited ==
    ASSUME CallsInv, Cited, NEW s \in ResearchSearches, CallStep(s)
    PROVE  Cited'
<1>1. "transport" \in ResearchSearches /\ ResearchSearches \subseteq Searches
    BY PipelineConstantsOK DEF ResearchSearches
<1>2. CASE s # "transport"
    <2>1. calls'["transport"] = calls["transport"]
        BY <1>1, <1>2, CallSteps
    <2> QED
        BY <2>1 DEF Cited
<1>3. CASE s = "transport"
    <2>1. "transport" \in Agents
        BY DEF Agents
    <2>2. CASE calls'["transport"].options = calls["transport"].options
        BY <2>2 DEF Cited
    <2>3. CASE \E batch \in Answers["transport"] :
                  calls'["transport"].options = ParsedEmit("transport", batch)
        <3>1. PICK batch \in Answers["transport"] :
                 calls'["transport"].options = ParsedEmit("transport", batch)
            BY <2>3
        <3>2. ASSUME NEW option \in ParsedEmit("transport", batch)
              PROVE  option.citations > 0
            <4>1. PICK raw \in batch : ValidTransport(raw) /\ option = TransportOf(raw)
                BY DEF ParsedEmit
            <4> QED
                BY <4>1 DEF ValidTransport, TransportOf
        <3> QED
            BY <3>1, <3>2 DEF Cited
    <2> QED
        BY <1>1, <1>3, <2>1, <2>2, <2>3, OptionsOfAnAnswer
<1> QED
    BY <1>2, <1>3

-----------------------------------------------------------------------------
(* What is stored *)

\* One commit: what it stores is as found, and nothing else is touched.
LEMMA StoreKeeps ==
    ASSUME Shapes, run.pc \in PersistPhases, NEW s \in ResearchSearches, NEW items,
           NEW next \in RunPhases \ {"idle", "searching"}, Store(s, items, next),
           Untouched(s), (Found(s) /\ s # "activities") => items = calls[s].options
    PROVE  /\ Shapes' /\ run'.pc = next /\ run' = [run EXCEPT !.pc = next]
           /\ UNCHANGED calls /\ Kept(s)'
           /\ \A t \in ResearchSearches \ {s} :
                 (Kept(t) => Kept(t)') /\ (Untouched(t) => Untouched(t)')
           /\ \A t \in ResearchSearches : Unusable(t)' <=> Unusable(t)
<1>1. UNCHANGED calls /\ run' = [run EXCEPT !.pc = next]
    BY DEF Store
<1>2. /\ run'.pc = next /\ run'.id = run.id /\ run'.asked = run.asked
      /\ run'.type = run.type /\ run'.status = run.status
      /\ run' \in [id : 0 .. Len(RunTypes), type : ResearchSearches \cup {"full"},
                   pc : RunPhases, status : RunStatuses, asked : SUBSET ResearchSearches]
    BY <1>1 DEF Shapes
<1>3. run.id \in Nat /\ run.id > 0 /\ run.status = "running"
      /\ \A t \in run.asked : calls[t].pc = "done"
    BY DEF Shapes, PersistPhases
<1>4. \A t \in ResearchSearches : /\ Unusable(t)' <=> Unusable(t)
                                  /\ Found(t)' <=> Found(t)
    BY <1>1, <1>2 DEF Unusable, Found
<1>5. CASE ~Found(s)
    <2>1. UNCHANGED <<cards, raws>>
        BY <1>5 DEF Store
    <2>2. \A t \in ResearchSearches : StoredItems(t)' = StoredItems(t)
        BY <1>2, <2>1 DEF StoredItems, CardsOf
    <2>3. \A t \in ResearchSearches : (Kept(t) => Kept(t)') /\ (Untouched(t) => Untouched(t)')
        BY <1>1, <1>2, <1>4, <2>1, <2>2 DEF Kept, Untouched, Response
    <2>4. Kept(s)
        BY <1>5 DEF Kept, Untouched
    <2>5. Shapes'
        BY <1>1, <1>2, <1>3, <2>1, CallsUnchanged DEF Shapes, Cited, ScopedTypes, IsCard, CardOver
    <2> QED
        BY <1>1, <1>2, <1>4, <2>3, <2>4, <2>5
<1>6. CASE Found(s)
    <2> DEFINE new == {Card(s, item) : item \in items}
    <2>1. raws' = raws \cup {Response(s)} /\ cards' = cards \cup new
        BY <1>6 DEF Store, Response
    <2>2. ASSUME NEW item \in items
          PROVE  /\ IsCard(Card(s, item)) /\ Card(s, item).run = run.id
                 /\ Card(s, item).search = s /\ Card(s, item).item = item
        <3>1. Card(s, item) \in CardOver({item})
            BY <1>3 DEF Card, CardOver
        <3>2. IsCard(Card(s, item))
            BY <3>1 DEF IsCard
        <3> QED
            BY <3>2 DEF Card
    <2>3. \A c \in new : IsCard(c) /\ c.run = run.id /\ c.search = s /\ c.item \in items
        BY <2>2
    <2>4. \A item \in items : \E c \in new : c.item = item
        BY <2>2
    <2> HIDE DEF new
    <2>5. \A t \in ResearchSearches \ {s} : StoredItems(t)' = StoredItems(t)
        BY <1>2, <2>1, <2>3 DEF StoredItems, CardsOf
    <2>6. StoredItems(s)' = items
        <3>1. \A c \in cards : ~(c.run = run.id /\ c.search = s)
            BY DEF Untouched, StoredItems, CardsOf
        <3> QED
            BY <1>2, <2>1, <2>3, <2>4, <3>1 DEF StoredItems, CardsOf
    <2>7. \A t \in ResearchSearches \ {s} :
             Response(t)' = Response(t) /\ (Response(t) \in raws' <=> Response(t) \in raws)
        BY <1>2, <2>1 DEF Response
    <2>8. \A t \in ResearchSearches \ {s} :
             (Kept(t) => Kept(t)') /\ (Untouched(t) => Untouched(t)')
        BY <1>1, <1>4, <2>5, <2>7 DEF Kept, Untouched
    <2>9. Kept(s)'
        BY <1>1, <1>2, <1>4, <1>6, <2>1, <2>6 DEF Kept, Response
    <2>10. \A c \in cards' : IsCard(c) /\ c.run \in 1 .. run.id
        BY <1>3, <2>1, <2>3 DEF Shapes
    <2>11. \A r \in raws' : r.run \in 1 .. run.id /\ r.search \in ResearchSearches
        BY <1>3, <2>1 DEF Shapes, Response
    <2>12. Shapes'
        BY <1>1, <1>2, <1>3, <2>10, <2>11, CallsUnchanged
           DEF Shapes, Cited, ScopedTypes, IsCard, CardOver
    <2> QED
        BY <1>1, <1>2, <1>4, <2>8, <2>9, <2>12
<1> QED
    BY <1>5, <1>6

-----------------------------------------------------------------------------
(* Finite sets and the filters *)

LEMMA ImageFinite ==
    ASSUME NEW S, IsFiniteSet(S), NEW V, NEW f \in [S -> V],
           \A y \in V : \E x \in S : f[x] = y
    PROVE  IsFiniteSet(V)
<1>1. f \in Surjection(S, V)
    BY DEF Surjection
<1> QED
    BY <1>1, FS_Surjection

\* Finitely many numbers have a lowest: were there a lower one to each, two of
\* them would have as many below.
LEMMA LowestNumber ==
    ASSUME NEW V, IsFiniteSet(V), V # {}, V \subseteq Int
    PROVE  \E x \in V : \A y \in V : x <= y
<1> SUFFICES ASSUME \A x \in V : \E y \in V : y < x PROVE FALSE
    OBVIOUS
<1> DEFINE Lower(x) == {y \in V : y < x}
           last == Cardinality(V) - 1
           f == [x \in V |-> Cardinality(Lower(x))]
<1>1. ASSUME NEW x \in V PROVE IsFiniteSet(Lower(x)) /\ Cardinality(Lower(x)) \in 1 .. last
    <2>1. IsFiniteSet(Lower(x)) /\ Cardinality(Lower(x)) \in Nat /\ Cardinality(V) \in Nat
        BY FS_Subset, FS_CardinalityType
    <2>2. Lower(x) # {}
        OBVIOUS
    <2>3. Cardinality(Lower(x)) # 0
        BY <2>1, <2>2, FS_EmptySet
    <2>4. Lower(x) \subseteq V /\ x \notin Lower(x)
        OBVIOUS
    <2>5. Cardinality(Lower(x)) <= Cardinality(V) /\ Cardinality(Lower(x)) # Cardinality(V)
        BY <2>1, <2>4, FS_Subset
    <2> QED
        BY <2>1, <2>3, <2>5
<1>2. last \in Int /\ last < Cardinality(V) /\ IsFiniteSet(1 .. last)
      /\ Cardinality(1 .. last) < Cardinality(V)
    <2>1. Cardinality(V) \in Nat /\ Cardinality(V) # 0
        BY FS_CardinalityType, FS_EmptySet
    <2>2. last \in Int /\ last < Cardinality(V) /\ last >= 0
        BY <2>1
    <2> HIDE DEF last
    <2>3. IsFiniteSet(1 .. last) /\ Cardinality(1 .. last) = IF 1 > last THEN 0 ELSE last - 1 + 1
        BY <2>2, FS_Interval
    <2> QED
        BY <2>1, <2>2, <2>3
<1>3. f \in [V -> 1 .. last]
    BY <1>1
<1> HIDE DEF f, last
<1>4. PICK x, y \in V : x # y /\ f[x] = f[y]
    BY <1>2, <1>3, FS_PigeonHole
<1>5. ASSUME NEW p \in V, NEW q \in V, p < q PROVE f[p] # f[q]
    <2>1. /\ \A v \in V : v < p => v < q
          /\ ~(p < p)
        BY <1>5
    <2>2. Lower(p) \subseteq Lower(q) /\ p \in Lower(q) /\ p \notin Lower(p)
        BY <1>5, <2>1
    <2>3. Cardinality(Lower(p)) # Cardinality(Lower(q))
        BY <1>1, <2>2, FS_Subset
    <2> QED
        BY <2>3 DEF f
<1>6. x < y \/ y < x
    BY <1>4
<1> QED
    BY <1>4, <1>5, <1>6

LEMMA LowestOf ==
    ASSUME NEW S, IsFiniteSet(S), S # {}, NEW v \in [S -> Int]
    PROVE  \E x \in S : \A y \in S : v[x] <= v[y]
<1> DEFINE V == {v[x] : x \in S}
<1>1. v \in [S -> V] /\ \A n \in V : \E x \in S : v[x] = n
    OBVIOUS
<1>2. V # {} /\ V \subseteq Int
    OBVIOUS
<1> HIDE DEF V
<1>3. IsFiniteSet(V)
    BY <1>1, ImageFinite
<1>4. \E x \in V : \A y \in V : x <= y
    BY <1>2, <1>3, LowestNumber
<1> QED
    BY <1>4 DEF V

LEMMA HighestOf ==
    ASSUME NEW S, IsFiniteSet(S), S # {}, NEW v \in [S -> Int]
    PROVE  \E x \in S : \A y \in S : v[y] <= v[x]
<1> DEFINE w == [x \in S |-> -v[x]]
<1>1. w \in [S -> Int]
    OBVIOUS
<1>2. PICK x \in S : \A y \in S : w[x] <= w[y]
    BY <1>1, LowestOf
<1>3. \A y \in S : v[y] \in Int /\ w[y] = -v[y]
    OBVIOUS
<1> QED
    BY <1>2, <1>3

\* Every place among finitely many amounts is somebody's.
LEMMA PlaceTaken ==
    ASSUME NEW S, IsFiniteSet(S), \A a \in S : a.amount \in Int,
           NEW n \in 1 .. Cardinality(S)
    PROVE  \E a \in S : NthAmount(S, n) = a.amount
<1> DEFINE Below(a) == {o \in S : o.amount < a.amount}
           UpTo(a) == {o \in S : o.amount <= a.amount}
           G == {a \in S : n <= Cardinality(UpTo(a))}
           v == [a \in S |-> a.amount]
<1>1. \A T \in SUBSET S : IsFiniteSet(T) /\ Cardinality(T) \in Nat
    BY FS_Subset, FS_CardinalityType
<1>2. \A T, U \in SUBSET S : T \subseteq U => Cardinality(T) <= Cardinality(U)
    BY <1>1, FS_Subset
<1>3. n \in Nat /\ n >= 1 /\ n <= Cardinality(S)
    BY <1>1
<1>4. \A T \in SUBSET S : T # {} => \E a \in T : \A o \in T : o.amount <= a.amount
    <2> SUFFICES ASSUME NEW T \in SUBSET S, T # {}
                 PROVE  \E a \in T : \A o \in T : o.amount <= a.amount
        OBVIOUS
    <2> DEFINE w == [a \in T |-> a.amount]
    <2>1. w \in [T -> Int] /\ IsFiniteSet(T)
        BY <1>1
    <2>2. \E a \in T : \A o \in T : w[o] <= w[a]
        BY <2>1, HighestOf
    <2> QED
        BY <2>2
<1>5. G # {}
    <2>1. S # {}
        BY <1>3, FS_EmptySet
    <2>2. PICK a \in S : \A o \in S : o.amount <= a.amount
        BY <1>4, <2>1
    <2>3. UpTo(a) = S
        BY <2>2
    <2> QED
        BY <1>3, <2>3
<1>6. PICK a \in G : \A o \in G : a.amount <= o.amount
    <2> DEFINE w == [o \in G |-> o.amount]
    <2>1. w \in [G -> Int] /\ IsFiniteSet(G)
        BY <1>1
    <2>2. \E o \in G : \A p \in G : w[o] <= w[p]
        BY <1>5, <2>1, LowestOf
    <2> QED
        BY <2>2
<1>7. ASSUME ~(Cardinality(Below(a)) < n) PROVE FALSE
    <2>1. Cardinality(Below(a)) \in Nat /\ n <= Cardinality(Below(a))
        BY <1>1, <1>3, <1>7
    <2>2. Below(a) # {}
        <3>1. Cardinality({}) = 0
            BY FS_EmptySet
        <3> HIDE DEF Below
        <3> QED
            BY <1>3, <2>1, <3>1
    <2>3. PICK o \in Below(a) : \A p \in Below(a) : p.amount <= o.amount
        BY <1>4, <2>2
    <2>4. Below(a) \subseteq UpTo(o)
        BY <2>3
    <2>5. Cardinality(Below(a)) <= Cardinality(UpTo(o)) /\ Cardinality(UpTo(o)) \in Nat
        BY <1>1, <1>2, <2>4
    <2>6. n <= Cardinality(UpTo(o))
        BY <1>3, <2>1, <2>5
    <2>7. o \in G /\ o.amount < a.amount
        BY <2>6
    <2> QED
        BY <1>6, <2>7
<1>8. \E b \in S : Cardinality(Below(b)) < n /\ n <= Cardinality(UpTo(b))
    BY <1>6, <1>7
<1>9. NthAmount(S, n) =
         (CHOOSE b \in S : Cardinality(Below(b)) < n /\ n <= Cardinality(UpTo(b))).amount
    BY DEF NthAmount
<1> QED
    BY <1>8, <1>9

\* The median lies between two of the amounts.
LEMMA MedianOfTwo ==
    ASSUME NEW S, IsFiniteSet(S), \A a \in S : a.amount \in Int, Cardinality(S) > 0
    PROVE  \E a, b \in S : TwiceMedian(S) = a.amount + b.amount
<1> DEFINE count == Cardinality(S)
<1>1. count \in Nat
    BY FS_CardinalityType
<1>2. TwiceMedian(S) = NthAmount(S, (count + 1) \div 2) + NthAmount(S, count \div 2 + 1)
    BY DEF TwiceMedian
<1>3. (count + 1) \div 2 \in 1 .. count /\ count \div 2 + 1 \in 1 .. count
    BY <1>1
<1> HIDE DEF count
<1>4. \A n \in 1 .. count : \E a \in S : NthAmount(S, n) = a.amount
    BY PlaceTaken DEF count
<1>5. PICK a, b \in S : /\ NthAmount(S, (count + 1) \div 2) = a.amount
                        /\ NthAmount(S, count \div 2 + 1) = b.amount
    BY <1>3, <1>4
<1> QED
    BY <1>2, <1>5

\* The filter goes by the ratio of a price to its peers.
LEMMA PlausibleByRatio ==
    ASSUME NEW activities, IsFiniteSet(activities), NEW a \in activities,
           \A b \in activities : b.amount \in Int
    PROVE  LET peers == Peers(a, activities) IN
           /\ (\A b \in peers : a.amount <= 10 * b.amount /\ b.amount <= 10 * a.amount)
                 => Plausible(a, activities)
           /\ (Cardinality(peers) > 1
                 /\ ((\A b \in peers : a.amount > 10 * b.amount)
                     \/ (\A b \in peers : 10 * a.amount < b.amount)))
                 => ~Plausible(a, activities)
<1> DEFINE peers == Peers(a, activities)
<1>1. peers \subseteq activities
    BY DEF Peers
<1>2. IsFiniteSet(peers) /\ Cardinality(peers) \in Nat /\ \A b \in peers : b.amount \in Int
    BY <1>1, FS_Subset, FS_CardinalityType
<1>3. Plausible(a, activities) <=>
         IF Cardinality(peers) < 2 THEN TRUE
         ELSE IF TwiceMedian(peers) = 0 THEN a.amount = 0
         ELSE /\ 2 * a.amount <= 10 * TwiceMedian(peers)
              /\ 20 * a.amount >= TwiceMedian(peers)
    BY DEF Plausible
<1> HIDE DEF peers
<1>4. CASE Cardinality(peers) < 2
    BY <1>2, <1>3, <1>4 DEF peers
<1>5. CASE ~(Cardinality(peers) < 2)
    <2>1. PICK b, c \in peers : TwiceMedian(peers) = b.amount + c.amount
        BY <1>2, <1>5, MedianOfTwo
    <2>2. ASSUME \A d \in peers : a.amount <= 10 * d.amount /\ d.amount <= 10 * a.amount
          PROVE  Plausible(a, activities)
        BY <1>2, <1>3, <1>5, <2>1, <2>2
    <2>3. ASSUME \/ \A d \in peers : a.amount > 10 * d.amount
                 \/ \A d \in peers : 10 * a.amount < d.amount
          PROVE  ~Plausible(a, activities)
        BY <1>2, <1>3, <1>5, <2>1, <2>3
    <2> QED
        BY <2>2, <2>3 DEF peers
<1> QED
    BY <1>4, <1>5

-----------------------------------------------------------------------------
(* The steps *)

LEMMA FourSearches ==
    /\ ResearchSearches = {"hotels", "activities", "flights", "transport"}
    /\ ResearchSearches \subseteq Searches
BY PipelineConstantsOK DEF ResearchSearches

LEMMA StartStep ==
    ASSUME PipeInv, NEW type \in ResearchSearches \cup {"full"},
           NEW airports \in BOOLEAN, NEW skipHotel \in BOOLEAN,
           StartRun(type, airports, skipHotel)
    PROVE  PipeInv'
<1> DEFINE asked == SearchesOf(type, airports, skipHotel)
<1>1. /\ run.id < Len(RunTypes) /\ UNCHANGED <<cards, raws>>
      /\ run' = [id |-> run.id + 1, type |-> type, pc |-> "searching",
                 status |-> "running", asked |-> asked]
      /\ calls' = [s \in Searches |->
                     IF s \in asked THEN Asked(s)
                     ELSE IF s \in ResearchSearches THEN NoCall ELSE calls[s]]
    BY DEF StartRun
<1>2. asked \subseteq ScopedTypes(type) /\ asked \subseteq ResearchSearches
    BY DEF SearchesOf, ScopedTypes
<1> HIDE DEF asked
<1>3. run.id \in Nat /\ run.id + 1 \in 0 .. Len(RunTypes)
    <2>1. Len(RunTypes) \in Nat /\ run.id \in 0 .. Len(RunTypes)
        BY PipelineConstantsOK DEF PipeInv, Shapes
    <2> QED
        BY <1>1, <2>1
<1>4. /\ run'.id = run.id + 1 /\ run'.type = type /\ run'.pc = "searching"
      /\ run'.status = "running" /\ run'.asked = asked
    BY <1>1
<1>5. run' \in [id : 0 .. Len(RunTypes), type : ResearchSearches \cup {"full"},
                pc : RunPhases, status : RunStatuses, asked : SUBSET ResearchSearches]
    BY <1>1, <1>2, <1>3 DEF RunPhases, RunStatuses
<1>6. CallsInv'
    <2>1. \A s \in Searches : Sensible(s, calls'[s])
        BY <1>1, AskedSensible, NoCallSensible DEF PipeInv, Shapes, CallsInv
    <2>2. DOMAIN calls' = Searches
        BY <1>1
    <2> QED
        BY <2>1, <2>2 DEF CallsInv, Sensible
<1>7. Cited'
    <2>1. calls'["transport"] \in {Asked("transport"), NoCall}
        BY <1>1, FourSearches
    <2>2. Asked("transport").options = {} /\ NoCall.options = {}
        BY DEF Asked, NoCall
    <2> QED
        BY <2>1, <2>2 DEF Cited
<1>8. Shapes'
    <2>1. ASSUME NEW c \in cards PROVE IsCard(c) /\ c.run \in 1 .. run'.id
        <3>1. IsCard(c) /\ c.run \in 1 .. run.id
            BY DEF PipeInv, Shapes
        <3> QED
            BY <1>3, <1>4, <3>1
    <2>2. ASSUME NEW r \in raws PROVE r.run \in 1 .. run'.id /\ r.search \in ResearchSearches
        <3>1. r.run \in 1 .. run.id /\ r.search \in ResearchSearches
            BY DEF PipeInv, Shapes
        <3> QED
            BY <1>3, <1>4, <3>1
    <2> QED
        BY <1>1, <1>2, <1>3, <1>4, <1>5, <1>6, <1>7, <2>1, <2>2
           DEF Shapes, ScopedTypes, IsCard, CardOver
<1>9. ASSUME NEW s \in ResearchSearches PROVE Untouched(s)'
    <2>1. \A r \in raws : r.run # run.id + 1
        BY <1>3 DEF PipeInv, Shapes
    <2>2. \A c \in cards : c.run # run.id + 1
        BY <1>3 DEF PipeInv, Shapes
    <2>3. Response(s)' \notin raws
        BY <1>4, <2>1 DEF Response
    <2> QED
        BY <1>1, <1>4, <2>2, <2>3 DEF Untouched, StoredItems, CardsOf
<1>10. Progress'
    BY <1>4, <1>9 DEF Progress, Over
<1> QED
    BY <1>8, <1>10 DEF PipeInv

\* Until the run gathers nothing is stored.
LEMMA SearchStep ==
    ASSUME PipeInv, NEW s \in ResearchSearches, Search(s)
    PROVE  PipeInv'
<1>1. run.pc = "searching" /\ CallStep(s) /\ UNCHANGED <<run, cards, raws>>
    BY DEF Search
<1>2. CallsInv' /\ Cited'
    BY <1>1, FourSearches, CallSteps, CallsStayCited DEF PipeInv, Shapes
<1>3. Shapes'
    BY <1>1, <1>2 DEF PipeInv, Shapes, ScopedTypes, IsCard, CardOver
<1>4. ASSUME NEW t \in ResearchSearches PROVE Untouched(t)'
    BY <1>1 DEF PipeInv, Progress, Untouched, StoredItems, CardsOf, Response
<1>5. Progress'
    BY <1>1, <1>4 DEF Progress, Over
<1> QED
    BY <1>3, <1>5 DEF PipeInv

LEMMA GatherStep == PipeInv /\ Gather => PipeInv'
<1> SUFFICES ASSUME PipeInv, Gather PROVE PipeInv'
    OBVIOUS
<1>1. /\ run.pc = "searching" /\ run' = [run EXCEPT !.pc = "hotels"]
      /\ \A s \in run.asked : calls[s].pc = "done"
      /\ UNCHANGED <<calls, cards, raws>>
    BY DEF Gather
<1>2. /\ run'.pc = "hotels" /\ run'.id = run.id /\ run'.asked = run.asked
      /\ run'.type = run.type /\ run'.status = run.status
      /\ run' \in [id : 0 .. Len(RunTypes), type : ResearchSearches \cup {"full"},
                   pc : RunPhases, status : RunStatuses, asked : SUBSET ResearchSearches]
    BY <1>1 DEF PipeInv, Shapes, RunPhases
<1>3. Shapes'
    BY <1>1, <1>2, CallsUnchanged DEF PipeInv, Shapes, Cited, ScopedTypes, IsCard, CardOver
<1>4. ASSUME NEW t \in ResearchSearches PROVE Untouched(t)'
    <2>1. Untouched(t)
        BY <1>1 DEF PipeInv, Progress
    <2>2. StoredItems(t)' = StoredItems(t) /\ Response(t)' = Response(t)
        BY <1>1, <1>2 DEF StoredItems, CardsOf, Response
    <2> QED
        BY <1>1, <2>1, <2>2 DEF Untouched
<1>5. Progress'
    BY <1>2, <1>4 DEF Progress, Over
<1> QED
    BY <1>3, <1>5 DEF PipeInv

LEMMA HotelsStep == PipeInv /\ PersistHotels => PipeInv'
<1> SUFFICES ASSUME PipeInv, PersistHotels PROVE PipeInv'
    OBVIOUS
<1>1. run.pc = "hotels" /\ Store("hotels", calls["hotels"].options, "activities")
    BY DEF PersistHotels
<1>2. \A t \in ResearchSearches : Untouched(t)
    BY <1>1 DEF PipeInv, Progress
<1>3. /\ Shapes' /\ run'.pc = "activities" /\ Kept("hotels")'
      /\ \A t \in ResearchSearches \ {"hotels"} : Untouched(t) => Untouched(t)'
    BY <1>1, <1>2, FourSearches, StoreKeeps DEF PipeInv, PersistPhases, RunPhases
<1>4. \A t \in {"activities", "flights", "transport"} : Untouched(t)'
    BY <1>2, <1>3, FourSearches
<1>5. Progress'
    BY <1>3, <1>4 DEF Progress, Over
<1> QED
    BY <1>3, <1>5 DEF PipeInv

LEMMA ActivitiesStep == PipeInv /\ PersistActivities => PipeInv'
<1> SUFFICES ASSUME PipeInv, PersistActivities PROVE PipeInv'
    OBVIOUS
<1> DEFINE next == IF Unusable("activities") THEN "failing" ELSE "flights"
           items == FilteredForPersistence(calls["activities"].options, ShortestFlight)
<1>1. run.pc = "activities" /\ Store("activities", items, next)
    BY DEF PersistActivities
<1>2. Kept("hotels") /\ Untouched("activities") /\ Untouched("flights")
      /\ Untouched("transport")
    BY <1>1 DEF PipeInv, Progress
<1>3. next \in RunPhases \ {"idle", "searching"} /\ next \in {"failing", "flights"}
    BY DEF RunPhases
<1> HIDE DEF items, next
<1>4. /\ Shapes' /\ run'.pc = next /\ Kept("activities")'
      /\ \A t \in ResearchSearches \ {"activities"} :
            (Kept(t) => Kept(t)') /\ (Untouched(t) => Untouched(t)')
      /\ Unusable("activities")' <=> Unusable("activities")
    BY <1>1, <1>2, <1>3, FourSearches, StoreKeeps DEF PipeInv, PersistPhases
<1>5. Kept("hotels")' /\ Untouched("flights")' /\ Untouched("transport")'
    BY <1>2, <1>4, FourSearches
<1>6. next = IF Unusable("activities") THEN "failing" ELSE "flights"
    BY DEF next
<1>7. Progress'
    BY <1>3, <1>4, <1>5, <1>6 DEF Progress, Over, Ended
<1> QED
    BY <1>4, <1>7 DEF PipeInv

LEMMA FlightsStep == PipeInv /\ PersistFlights => PipeInv'
<1> SUFFICES ASSUME PipeInv, PersistFlights PROVE PipeInv'
    OBVIOUS
<1>1. run.pc = "flights" /\ Store("flights", calls["flights"].options, "transport")
    BY DEF PersistFlights
<1>2. Kept("hotels") /\ Kept("activities") /\ ~Unusable("activities")
      /\ Untouched("flights") /\ Untouched("transport")
    BY <1>1 DEF PipeInv, Progress
<1>3. /\ Shapes' /\ run'.pc = "transport" /\ Kept("flights")'
      /\ \A t \in ResearchSearches \ {"flights"} :
            (Kept(t) => Kept(t)') /\ (Untouched(t) => Untouched(t)')
      /\ Unusable("activities")' <=> Unusable("activities")
    BY <1>1, <1>2, FourSearches, StoreKeeps DEF PipeInv, PersistPhases, RunPhases
<1>4. Kept("hotels")' /\ Kept("activities")' /\ Untouched("transport")'
    BY <1>2, <1>3, FourSearches
<1>5. Progress'
    BY <1>2, <1>3, <1>4 DEF Progress, Over
<1> QED
    BY <1>3, <1>5 DEF PipeInv

\* A run that is about to complete has an answer to everything it asked.
LEMMA TransportStep == PipeInv /\ PersistTransport => PipeInv'
<1> SUFFICES ASSUME PipeInv, PersistTransport PROVE PipeInv'
    OBVIOUS
<1> DEFINE next == IF Unusable("transport") \/ SomeSearchRaised THEN "failing" ELSE "finish"
           items == WithCitations(calls["transport"].options)
<1>1. run.pc = "transport" /\ Store("transport", items, next)
    BY DEF PersistTransport
<1>2. Kept("hotels") /\ Kept("activities") /\ ~Unusable("activities")
      /\ Kept("flights") /\ Untouched("transport")
    BY <1>1 DEF PipeInv, Progress
<1>3. next \in RunPhases \ {"idle", "searching"} /\ next \in {"failing", "finish"}
    BY DEF RunPhases
<1>4. items = calls["transport"].options
    BY DEF PipeInv, Shapes, Cited, WithCitations
<1> HIDE DEF items, next
<1>5. /\ Shapes' /\ run'.pc = next /\ Kept("transport")' /\ UNCHANGED calls
      /\ run' = [run EXCEPT !.pc = next]
      /\ \A t \in ResearchSearches \ {"transport"} :
            (Kept(t) => Kept(t)') /\ (Untouched(t) => Untouched(t)')
      /\ Unusable("activities")' <=> Unusable("activities")
    BY <1>1, <1>2, <1>3, <1>4, FourSearches, StoreKeeps DEF PipeInv, PersistPhases
<1>6. Kept("hotels")' /\ Kept("activities")' /\ Kept("flights")'
    BY <1>2, <1>5, FourSearches
<1>7. Ended'
    BY <1>2, <1>5, <1>6 DEF Ended
<1>8. ASSUME next = "finish", NEW s \in run.asked PROVE calls[s].outcome = "options"
    <2>1. ~Unusable("transport") /\ calls[s].outcome # "raised"
        BY <1>8 DEF next, SomeSearchRaised
    <2>2. s \in ResearchSearches /\ s \in Searches /\ calls[s].pc = "done"
        BY <1>1, FourSearches DEF PipeInv, Shapes
    <2>3. Sensible(s, calls[s])
        BY <2>2 DEF PipeInv, Shapes, CallsInv
    <2>4. PICK S : calls[s] \in CallsOver(S)
        BY <2>3 DEF Sensible, IsCall
    <2>5. calls[s].outcome \in {"options", "unusable", "raised"}
        BY <2>2, <2>3, <2>4 DEF Sensible, CallsOver, Outcomes
    <2>6. calls[s].outcome = "unusable" => s \in {"activities", "transport"}
        BY <2>3 DEF Sensible, Agents
    <2> QED
        BY <1>2, <2>1, <2>5, <2>6 DEF Unusable
<1>9. run'.asked = run.asked
    BY <1>5 DEF PipeInv, Shapes
<1>10. Progress'
    BY <1>3, <1>5, <1>7, <1>8, <1>9 DEF Progress, Over
<1> QED
    BY <1>5, <1>10 DEF PipeInv

\* Superseding turns options off, and none of this run.
LEMMA FinishStep == PipeInv /\ Finish => PipeInv'
<1> SUFFICES ASSUME PipeInv, Finish PROVE PipeInv'
    OBVIOUS
<1> DEFINE kept == {c \in cards : c.run = run.id \/ c.search \notin ScopedTypes(run.type)}
           off == {[c EXCEPT !.active = FALSE] : c \in cards \ kept}
<1>1. /\ run.pc = "finish" /\ cards' = kept \cup off /\ UNCHANGED <<calls, raws>>
      /\ run' = [run EXCEPT !.pc = "idle", !.status = "completed"]
    BY DEF Finish
<1>2. /\ run'.pc = "idle" /\ run'.id = run.id /\ run'.asked = run.asked
      /\ run'.type = run.type
      /\ run' \in [id : 0 .. Len(RunTypes), type : ResearchSearches \cup {"full"},
                   pc : RunPhases, status : RunStatuses, asked : SUBSET ResearchSearches]
    BY <1>1 DEF PipeInv, Shapes, RunPhases, RunStatuses
<1>3. ASSUME NEW c \in cards \ kept
      PROVE  LET d == [c EXCEPT !.active = FALSE] IN
             IsCard(d) /\ d.run = c.run /\ d.run \in 1 .. run.id /\ d.run # run.id
    <2>1. PICK I : c \in CardOver(I)
        BY DEF PipeInv, Shapes, IsCard
    <2>2. [c EXCEPT !.active = FALSE] \in CardOver(I)
          /\ [c EXCEPT !.active = FALSE].run = c.run
        BY <2>1 DEF CardOver
    <2>3. c.run \in 1 .. run.id /\ c.run # run.id
        BY DEF PipeInv, Shapes
    <2> QED
        BY <2>2, <2>3 DEF IsCard
<1>4. \A d \in off : IsCard(d) /\ d.run \in 1 .. run.id /\ d.run # run.id
    BY <1>3
<1>5. kept \subseteq cards /\ \A c \in cards : c.run = run.id => c \in kept
    OBVIOUS
<1> HIDE DEF kept, off
<1>6. \A s \in ResearchSearches : StoredItems(s)' = StoredItems(s)
    BY <1>1, <1>2, <1>4, <1>5 DEF StoredItems, CardsOf
<1>7. \A c \in cards' : IsCard(c) /\ c.run \in 1 .. run.id
    BY <1>1, <1>4, <1>5 DEF PipeInv, Shapes
<1>8. Shapes'
    BY <1>1, <1>2, <1>7, CallsUnchanged DEF PipeInv, Shapes, Cited, ScopedTypes, IsCard, CardOver
<1>9. Ended'
    <2>1. \A s \in ResearchSearches :
             (Kept(s)' <=> Kept(s)) /\ (Untouched(s)' <=> Untouched(s))
        BY <1>1, <1>2, <1>6 DEF Kept, Untouched, Response, Found
    <2>2. Unusable("activities")' <=> Unusable("activities")
        BY <1>1, <1>2 DEF Unusable
    <2>3. Ended
        BY <1>1 DEF PipeInv, Progress
    <2> QED
        BY <2>1, <2>2, <2>3, FourSearches DEF Ended
<1>10. Progress'
    BY <1>2, <1>9 DEF Progress
<1> QED
    BY <1>8, <1>10 DEF PipeInv

LEMMA FailStep == PipeInv /\ Fail => PipeInv'
<1> SUFFICES ASSUME PipeInv, Fail PROVE PipeInv'
    OBVIOUS
<1>1. /\ run.pc = "failing" /\ UNCHANGED <<calls, cards, raws>>
      /\ run' = [run EXCEPT !.pc = "idle", !.status = "failed"]
    BY DEF Fail
<1>2. /\ run'.pc = "idle" /\ run'.id = run.id /\ run'.asked = run.asked
      /\ run'.type = run.type
      /\ run' \in [id : 0 .. Len(RunTypes), type : ResearchSearches \cup {"full"},
                   pc : RunPhases, status : RunStatuses, asked : SUBSET ResearchSearches]
    BY <1>1 DEF PipeInv, Shapes, RunPhases, RunStatuses
<1>3. Shapes'
    BY <1>1, <1>2, CallsUnchanged DEF PipeInv, Shapes, Cited, ScopedTypes, IsCard, CardOver
<1>4. Ended'
    <2>1. \A s \in ResearchSearches : StoredItems(s)' = StoredItems(s)
        BY <1>1, <1>2 DEF StoredItems, CardsOf
    <2>2. \A s \in ResearchSearches :
             (Kept(s)' <=> Kept(s)) /\ (Untouched(s)' <=> Untouched(s))
        BY <1>1, <1>2, <2>1 DEF Kept, Untouched, Response, Found
    <2>3. Unusable("activities")' <=> Unusable("activities")
        BY <1>1, <1>2 DEF Unusable
    <2>4. Ended
        BY <1>1 DEF PipeInv, Progress
    <2> QED
        BY <2>2, <2>3, <2>4, FourSearches DEF Ended
<1>5. Progress'
    BY <1>2, <1>4 DEF Progress
<1> QED
    BY <1>3, <1>5 DEF PipeInv

LEMMA NothingStep == PipeInv /\ UNCHANGED vars => PipeInv'
<1> SUFFICES ASSUME PipeInv, UNCHANGED vars PROVE PipeInv'
    OBVIOUS
<1>1. UNCHANGED calls /\ UNCHANGED run /\ UNCHANGED cards /\ UNCHANGED raws
    BY DEF vars
<1>2. Shapes'
    BY <1>1, CallsUnchanged DEF PipeInv, Shapes, Cited, ScopedTypes, IsCard, CardOver
<1>3. Progress'
    BY <1>1 DEF PipeInv, Progress, Ended, Over, Kept, Untouched, Response, Found,
                Unusable, StoredItems, CardsOf, ResearchSearches
<1> QED
    BY <1>2, <1>3 DEF PipeInv

LEMMA PipeInit == Init => PipeInv
<1> SUFFICES ASSUME Init PROVE PipeInv
    OBVIOUS
<1>1. /\ calls = [s \in Searches |-> NoCall] /\ cards = {} /\ raws = {}
      /\ run = [id |-> 0, type |-> "full", pc |-> "idle", status |-> None, asked |-> {}]
    BY DEF Init
<1>2. CallsInv
    BY <1>1, NoCallSensible DEF CallsInv
<1>3. Cited
    BY <1>1, FourSearches DEF Cited, NoCall
<1>4. run \in [id : 0 .. Len(RunTypes), type : ResearchSearches \cup {"full"},
               pc : RunPhases, status : RunStatuses, asked : SUBSET ResearchSearches]
    <2>1. Len(RunTypes) \in Nat
        BY PipelineConstantsOK
    <2> QED
        BY <1>1, <2>1 DEF RunPhases, RunStatuses
<1>5. Shapes
    BY <1>1, <1>2, <1>3, <1>4 DEF Shapes
<1>6. Progress
    BY <1>1 DEF Progress, Over
<1> QED
    BY <1>5, <1>6 DEF PipeInv

LEMMA PipeStep == PipeInv /\ [Next]_vars => PipeInv'
<1> SUFFICES ASSUME PipeInv, [Next]_vars PROVE PipeInv'
    OBVIOUS
<1>1. ASSUME NEW type \in ResearchSearches \cup {"full"},
             NEW airports \in BOOLEAN, NEW skipHotel \in BOOLEAN,
             StartRun(type, airports, skipHotel)
      PROVE  PipeInv'
    BY <1>1, StartStep
<1>2. ASSUME NEW s \in ResearchSearches, Search(s) PROVE PipeInv'
    BY <1>2, SearchStep
<1>3. CASE RunStep
    BY <1>3, GatherStep, HotelsStep, ActivitiesStep, FlightsStep, TransportStep,
       FinishStep, FailStep DEF RunStep, Persist
<1>4. CASE UNCHANGED vars
    BY <1>4, NothingStep
<1> QED
    BY <1>1, <1>2, <1>3, <1>4 DEF Next

-----------------------------------------------------------------------------
(* The filters along a run *)

\* What the calls found are finite sets of cited, priced and timed options.
Parsed ==
    /\ \A s \in ResearchSearches : IsFiniteSet(calls[s].options)
    /\ \A a \in calls["activities"].options : a.amount \in Int /\ a.citations > 0
    /\ \A option \in calls["flights"].options : option.minutes \in Int

FlightsTimed ==
    /\ IsFiniteSet(CardsOf("flights"))
    /\ \A c \in CardsOf("flights") : c.item.minutes \in Int

\* Once activities are stored: the plausible ones, on days a long flight leaves
\* to them; and a run that stores no flights leaves the shortest as it was read.
Filtered ==
    LET options == calls["activities"].options
        plausible == WithPlausiblePrices(options)
        stored == StoredItems("activities")
    IN (run.pc \in {"flights", "transport", "finish", "failing"} \/ Over) =>
          IF Found("activities")
          THEN /\ stored \in {plausible, {a \in plausible : a.timing \notin DayBound}}
               /\ run.type = "activities" => stored = FilteredForPersistence(options, ShortestFlight)
          ELSE stored = {}

FiltersInv == Parsed /\ FlightsTimed /\ Filtered

LEMMA PriceCoerced ==
    ASSUME NEW price \in Seq(Int), price # <<>>
    PROVE  CoercedPrice(price) \in Int
<1>1. Len(price) \in Nat /\ Len(price) # 0 /\ price \in [1 .. Len(price) -> Int]
    OBVIOUS
<1>2. CASE Len(price) = 1
    BY <1>1, <1>2 DEF CoercedPrice
<1>3. CASE Len(price) # 1
    <2>1. 1 \in 1 .. Len(price) /\ 2 \in 1 .. Len(price)
        BY <1>1, <1>3
    <2>2. price[1] \in Int /\ price[2] \in Int
        BY <1>1, <2>1
    <2>3. CoercedPrice(price) = (price[1] + price[2]) \div 2
        BY <1>3 DEF CoercedPrice
    <2> QED
        BY <2>2, <2>3
<1> QED
    BY <1>2, <1>3

LEMMA ParsedActivities ==
    ASSUME NEW batch \in Answers["activities"]
    PROVE  LET options == ParsedEmit("activities", batch) IN
           IsFiniteSet(options) /\ \A a \in options : a.amount \in Int /\ a.citations > 0
<1> DEFINE valid == {raw \in batch : ValidActivity(raw)}
           options == {ActivityOf(raw) : raw \in valid}
           f == [raw \in valid |-> ActivityOf(raw)]
<1>1. ParsedEmit("activities", batch) = options
    BY DEF ParsedEmit
<1>2. IsFiniteSet(valid)
    BY AnswersOK, FourSearches, FS_Subset
<1>3. f \in [valid -> options] /\ \A option \in options : \E raw \in valid : f[raw] = option
    OBVIOUS
<1>4. IsFiniteSet(options)
    <2> HIDE DEF f, valid, options
    <2> QED
        BY <1>2, <1>3, ImageFinite
<1>5. ASSUME NEW raw \in valid
      PROVE  ActivityOf(raw).amount \in Int /\ ActivityOf(raw).citations > 0
    <2>1. raw.price \in Seq(Int) /\ CoercedPrice(raw.price) # None /\ raw.citations > 0
        BY AnswersOK DEF ValidActivity
    <2>2. raw.price # <<>>
        BY <2>1 DEF CoercedPrice
    <2> QED
        BY <2>1, <2>2, PriceCoerced DEF ActivityOf
<1> QED
    BY <1>1, <1>4, <1>5

LEMMA ParsedTransport ==
    ASSUME NEW batch \in Answers["transport"]
    PROVE  IsFiniteSet(ParsedEmit("transport", batch))
<1> DEFINE valid == {raw \in batch : ValidTransport(raw)}
           options == {TransportOf(raw) : raw \in valid}
           f == [raw \in valid |-> TransportOf(raw)]
<1>1. ParsedEmit("transport", batch) = options
    BY DEF ParsedEmit
<1>2. IsFiniteSet(valid)
    BY AnswersOK, FourSearches, FS_Subset
<1>3. f \in [valid -> options] /\ \A option \in options : \E raw \in valid : f[raw] = option
    OBVIOUS
<1> HIDE DEF f, valid, options
<1> QED
    BY <1>1, <1>2, <1>3, ImageFinite

LEMMA ParsedRows ==
    /\ \A rows \in Answers["flights"] :
          /\ IsFiniteSet(ParsedBody("flights", rows))
          /\ \A option \in ParsedBody("flights", rows) : option.minutes \in Int
    /\ \A rows \in Answers["hotels"] : IsFiniteSet(ParsedBody("hotels", rows))
<1>1. ASSUME NEW rows \in Answers["flights"]
      PROVE  /\ IsFiniteSet(ParsedFlights(rows))
             /\ \A option \in ParsedFlights(rows) : option.minutes \in Int
    <2> DEFINE complete == {row \in rows : row.complete}
               options == {[minutes |-> FlightMinutes(row)] : row \in complete}
               f == [row \in complete |-> [minutes |-> FlightMinutes(row)]]
    <2>1. IsFiniteSet(complete)
        BY AnswersOK, FourSearches, FS_Subset
    <2>2. f \in [complete -> options] /\ \A option \in options : \E row \in complete : f[row] = option
        OBVIOUS
    <2>3. \A option \in options : option.minutes \in Int
        BY AnswersOK
    <2>4. ParsedFlights(rows) = options
        BY DEF ParsedFlights
    <2> HIDE DEF f, complete, options
    <2> QED
        BY <2>1, <2>2, <2>3, <2>4, ImageFinite
<1>2. ASSUME NEW rows \in Answers["hotels"] PROVE IsFiniteSet(ParsedHotels(rows))
    <2> DEFINE complete == {row \in rows : row.complete}
               options == {[id |-> row.id] : row \in complete}
               f == [row \in complete |-> [id |-> row.id]]
    <2>1. IsFiniteSet(complete)
        BY AnswersOK, FourSearches, FS_Subset
    <2>2. f \in [complete -> options] /\ \A option \in options : \E row \in complete : f[row] = option
        OBVIOUS
    <2>3. ParsedHotels(rows) = options
        BY DEF ParsedHotels
    <2> HIDE DEF f, complete, options
    <2> QED
        BY <2>1, <2>2, <2>3, ImageFinite
<1>3. \A rows : /\ ParsedBody("flights", rows) = ParsedFlights(rows)
                /\ ParsedBody("hotels", rows) = ParsedHotels(rows)
    BY CallConstantsOK DEF ParsedBody
<1> QED
    BY <1>1, <1>2, <1>3

LEMMA CallsStayParsed ==
    ASSUME CallsInv, Parsed, NEW s \in ResearchSearches, CallStep(s)
    PROVE  Parsed'
<1>1. s \in Searches /\ \A t \in ResearchSearches \ {s} : calls'[t] = calls[t]
    BY FourSearches, CallSteps
<1>2. CASE calls'[s].options = calls[s].options
    BY <1>1, <1>2, FourSearches DEF Parsed
<1>3. CASE s \notin Agents /\ \E body \in Answers[s] : calls'[s].options = ParsedBody(s, body)
    <2>1. s = "flights" \/ s = "hotels"
        BY <1>3, FourSearches DEF Agents
    <2> QED
        BY <1>1, <1>3, <2>1, FourSearches, ParsedRows DEF Parsed
<1>4. CASE s \in Agents /\ \E batch \in Answers[s] : calls'[s].options = ParsedEmit(s, batch)
    <2>1. s = "activities" \/ s = "transport"
        BY <1>4 DEF Agents
    <2> QED
        BY <1>1, <1>4, <2>1, FourSearches, ParsedActivities, ParsedTransport DEF Parsed
<1> QED
    BY <1>1, <1>2, <1>3, <1>4, OptionsOfAnAnswer

\* One commit adds cards of its kind, if there was anything to store.
LEMMA StoreAdds ==
    ASSUME Shapes, NEW s \in ResearchSearches, NEW items,
           NEW next \in RunPhases, Store(s, items, next)
    PROVE  /\ UNCHANGED calls /\ run'.pc = next /\ run'.id = run.id
           /\ run'.type = run.type /\ run'.asked = run.asked
           /\ \A t \in ResearchSearches \ {s} :
                 CardsOf(t)' = CardsOf(t) /\ StoredItems(t)' = StoredItems(t)
           /\ ~Found(s) => UNCHANGED cards
           /\ Found(s) => CardsOf(s)' = CardsOf(s) \cup {Card(s, item) : item \in items}
           /\ Untouched(s) => StoredItems(s)' = IF Found(s) THEN items ELSE {}
<1>1. UNCHANGED calls /\ run' = [run EXCEPT !.pc = next]
    BY DEF Store
<1>2. /\ run'.pc = next /\ run'.id = run.id /\ run'.asked = run.asked
      /\ run'.type = run.type
    BY <1>1 DEF Shapes
<1> DEFINE new == {Card(s, item) : item \in items}
<1>3. CASE ~Found(s)
    <2>1. UNCHANGED cards
        BY <1>3 DEF Store
    <2>2. \A t \in ResearchSearches :
             CardsOf(t)' = CardsOf(t) /\ StoredItems(t)' = StoredItems(t)
        BY <1>2, <2>1 DEF StoredItems, CardsOf
    <2> QED
        BY <1>1, <1>2, <1>3, <2>1, <2>2 DEF Untouched
<1>4. CASE Found(s)
    <2>1. cards' = cards \cup new
        BY <1>4 DEF Store
    <2>2. \A item \in items : LET c == Card(s, item) IN
             c \in new /\ c.run = run.id /\ c.search = s /\ c.item = item
        BY DEF Card
    <2>3. \A c \in new : c.run = run.id /\ c.search = s /\ c.item \in items
        BY <2>2
    <2> HIDE DEF new
    <2>4. \A t \in ResearchSearches \ {s} : CardsOf(t)' = CardsOf(t)
        BY <2>1, <2>3 DEF CardsOf
    <2>5. CardsOf(s)' = CardsOf(s) \cup new
        BY <2>1, <2>3 DEF CardsOf
    <2>6. \A t \in ResearchSearches \ {s} : StoredItems(t)' = StoredItems(t)
        BY <1>2, <2>4 DEF StoredItems
    <2>7. Untouched(s) => StoredItems(s)' = items
        <3> SUFFICES ASSUME Untouched(s) PROVE StoredItems(s)' = items
            OBVIOUS
        <3>1. \A c \in CardsOf(s) : c.run # run.id
            BY DEF Untouched, StoredItems
        <3>2. \A item \in items : \E c \in new : c.run = run.id /\ c.item = item
            BY <2>2
        <3> QED
            BY <1>2, <2>3, <2>5, <3>1, <3>2 DEF StoredItems
    <2> QED
        BY <1>1, <1>2, <1>4, <2>4, <2>5, <2>6, <2>7 DEF new
<1> QED
    BY <1>3, <1>4

\* Flights that stay leave the shortest of them.
LEMMA FlightsStay ==
    CardsOf("flights")' = CardsOf("flights") =>
        ShortestFlight' = ShortestFlight /\ (FlightsTimed => FlightsTimed')
<1> SUFFICES ASSUME CardsOf("flights")' = CardsOf("flights")
             PROVE  ShortestFlight' = ShortestFlight /\ (FlightsTimed => FlightsTimed')
    OBVIOUS
<1> DEFINE durations == {c.item.minutes : c \in CardsOf("flights")}
<1>1. durations' = durations
    OBVIOUS
<1> DEFINE Shortest(D) == IF D = {} THEN NoFlights ELSE CHOOSE m \in D : \A n \in D : m <= n
<1>2. ShortestFlight' = ShortestFlight
    <2>1. ShortestFlight = Shortest(durations) /\ ShortestFlight' = Shortest(durations')
        BY Zenon DEF ShortestFlight
    <2> HIDE DEF durations, Shortest
    <2> QED
        BY <1>1, <2>1
<1>3. FlightsTimed => FlightsTimed'
    BY Zenon DEF FlightsTimed
<1> QED
    BY <1>2, <1>3

\* What was stored of the activities is seen until the run is over.
LEMMA FilteredStays ==
    ASSUME FiltersInv, UNCHANGED calls,
           run.pc \in {"flights", "transport", "finish", "failing"},
           run'.asked = run.asked, run'.type = run.type,
           StoredItems("activities")' = StoredItems("activities"),
           run.type = "activities" => ShortestFlight' = ShortestFlight
    PROVE  Filtered'
<1>1. Found("activities")' <=> Found("activities")
    BY DEF Found
<1> QED
    BY <1>1 DEF FiltersInv, Filtered

LEMMA FiltersInit == Init => FiltersInv
<1> SUFFICES ASSUME Init PROVE FiltersInv
    OBVIOUS
<1>1. /\ calls = [s \in Searches |-> NoCall] /\ cards = {}
      /\ run = [id |-> 0, type |-> "full", pc |-> "idle", status |-> None, asked |-> {}]
    BY DEF Init
<1>2. \A s \in ResearchSearches : calls[s].options = {}
    BY <1>1, FourSearches DEF NoCall
<1>3. Parsed
    BY <1>2, FourSearches, FS_EmptySet DEF Parsed
<1>4. CardsOf("flights") = {}
    BY <1>1 DEF CardsOf
<1>5. Filtered
    BY <1>1 DEF Filtered, Over
<1> QED
    BY <1>3, <1>4, <1>5, FS_EmptySet DEF FiltersInv, FlightsTimed

LEMMA FiltersStart ==
    ASSUME PipeInv, FiltersInv, NEW type \in ResearchSearches \cup {"full"},
           NEW airports \in BOOLEAN, NEW skipHotel \in BOOLEAN,
           StartRun(type, airports, skipHotel)
    PROVE  FiltersInv'
<1>1. ASSUME NEW s \in ResearchSearches PROVE calls'[s].options = {}
    <2>1. calls'[s] = Asked(s) \/ calls'[s] = NoCall
        BY FourSearches DEF StartRun
    <2>2. Asked(s).options = {} /\ NoCall.options = {}
        BY DEF Asked, NoCall
    <2> QED
        BY <2>1, <2>2
<1>2. Parsed'
    BY <1>1, FourSearches, FS_EmptySet DEF Parsed
<1>3. run'.pc = "searching" /\ CardsOf("flights")' = CardsOf("flights")
    BY DEF StartRun, CardsOf
<1>4. Filtered'
    BY <1>3 DEF Filtered, Over
<1> QED
    BY <1>2, <1>3, <1>4, FlightsStay DEF FiltersInv

LEMMA FiltersSearch ==
    ASSUME PipeInv, FiltersInv, NEW s \in ResearchSearches, Search(s)
    PROVE  FiltersInv'
<1>1. run.pc = "searching" /\ CallStep(s) /\ UNCHANGED <<run, cards>>
    BY DEF Search
<1>2. Parsed'
    BY <1>1, CallsStayParsed DEF PipeInv, Shapes, FiltersInv
<1>3. Filtered'
    BY <1>1 DEF Filtered, Over
<1>4. CardsOf("flights")' = CardsOf("flights")
    BY <1>1 DEF CardsOf
<1> QED
    BY <1>2, <1>3, <1>4, FlightsStay DEF FiltersInv

LEMMA FiltersGather == PipeInv /\ FiltersInv /\ Gather => FiltersInv'
<1> SUFFICES ASSUME PipeInv, FiltersInv, Gather PROVE FiltersInv'
    OBVIOUS
<1>1. run'.pc = "hotels" /\ UNCHANGED <<calls, cards>>
    BY DEF Gather, PipeInv, Shapes
<1>2. Parsed' /\ Filtered' /\ CardsOf("flights")' = CardsOf("flights")
    BY <1>1 DEF FiltersInv, Parsed, Filtered, Over, CardsOf
<1> QED
    BY <1>2, FlightsStay DEF FiltersInv

LEMMA FiltersHotels == PipeInv /\ FiltersInv /\ PersistHotels => FiltersInv'
<1> SUFFICES ASSUME PipeInv, FiltersInv, PersistHotels PROVE FiltersInv'
    OBVIOUS
<1>1. Store("hotels", calls["hotels"].options, "activities")
    BY DEF PersistHotels
<1>2. UNCHANGED calls /\ run'.pc = "activities" /\ CardsOf("flights")' = CardsOf("flights")
    BY <1>1, FourSearches, StoreAdds DEF PipeInv, RunPhases
<1>3. Parsed' /\ Filtered'
    BY <1>2 DEF FiltersInv, Parsed, Filtered, Over
<1> QED
    BY <1>2, <1>3, FlightsStay DEF FiltersInv

\* What is stored of the activities is judged by the flights before it.
LEMMA FiltersActivities == PipeInv /\ FiltersInv /\ PersistActivities => FiltersInv'
<1> SUFFICES ASSUME PipeInv, FiltersInv, PersistActivities PROVE FiltersInv'
    OBVIOUS
<1> DEFINE options == calls["activities"].options
           plausible == WithPlausiblePrices(options)
           items == FilteredForPersistence(options, ShortestFlight)
           next == IF Unusable("activities") THEN "failing" ELSE "flights"
<1>1. Store("activities", items, next) /\ run.pc = "activities"
    BY DEF PersistActivities
<1>2. next \in RunPhases /\ next \in {"failing", "flights"}
    BY DEF RunPhases
<1>3. Untouched("activities")
    BY <1>1 DEF PipeInv, Progress
<1>4. items \in {plausible, {a \in plausible : a.timing \notin DayBound}}
    <2>1. WithCitations(options) = options
        BY DEF WithCitations, FiltersInv, Parsed
    <2> QED
        BY <2>1 DEF FilteredForPersistence, WithoutSameDayConflicts
<1> HIDE DEF items, next, plausible
<1>5. /\ UNCHANGED calls /\ run'.pc = next /\ run'.type = run.type /\ run'.asked = run.asked
      /\ CardsOf("flights")' = CardsOf("flights")
      /\ StoredItems("activities")' = IF Found("activities") THEN items ELSE {}
    BY <1>1, <1>2, <1>3, FourSearches, StoreAdds DEF PipeInv
<1>6. ShortestFlight' = ShortestFlight /\ FlightsTimed'
    BY <1>5, FlightsStay DEF FiltersInv
<1>7. Filtered'
    <2>1. Found("activities")' <=> Found("activities")
        BY <1>5 DEF Found
    <2>2. FilteredForPersistence(calls["activities"].options, ShortestFlight)' = items
        BY <1>5, <1>6 DEF items
    <2>3. WithPlausiblePrices(calls["activities"].options)' = plausible
        BY <1>5 DEF plausible
    <2> QED
        BY <1>4, <1>5, <2>1, <2>2, <2>3 DEF Filtered
<1>8. Parsed'
    BY <1>5 DEF FiltersInv, Parsed
<1> QED
    BY <1>6, <1>7, <1>8 DEF FiltersInv

LEMMA FiltersFlights == PipeInv /\ FiltersInv /\ PersistFlights => FiltersInv'
<1> SUFFICES ASSUME PipeInv, FiltersInv, PersistFlights PROVE FiltersInv'
    OBVIOUS
<1> DEFINE options == calls["flights"].options
           new == {Card("flights", item) : item \in options}
           f == [item \in options |-> Card("flights", item)]
<1>1. run.pc = "flights" /\ Store("flights", options, "transport")
    BY DEF PersistFlights
<1>2. /\ UNCHANGED calls /\ run'.pc = "transport"
      /\ run'.type = run.type /\ run'.asked = run.asked
      /\ StoredItems("activities")' = StoredItems("activities")
      /\ ~Found("flights") => UNCHANGED cards
      /\ Found("flights") => CardsOf("flights")' = CardsOf("flights") \cup new
    <2>1. "transport" \in RunPhases /\ "activities" \in ResearchSearches \ {"flights"}
          /\ "flights" \in ResearchSearches
        BY FourSearches DEF RunPhases
    <2> QED
        BY <1>1, <2>1, StoreAdds DEF PipeInv
<1>3. CASE ~Found("flights")
    <2>1. CardsOf("flights")' = CardsOf("flights")
        BY <1>2, <1>3 DEF CardsOf
    <2>2. ShortestFlight' = ShortestFlight /\ FlightsTimed'
        BY <2>1, FlightsStay DEF FiltersInv
    <2>3. Filtered'
        BY <1>1, <1>2, <2>2, FilteredStays
    <2> QED
        BY <1>2, <2>2, <2>3 DEF FiltersInv, Parsed
<1>4. CASE Found("flights")
    <2>1. run.type # "activities"
        BY <1>4 DEF Found, PipeInv, Shapes, ScopedTypes
    <2>2. Filtered'
        BY <1>1, <1>2, <2>1, FilteredStays
    <2>3. \A c \in new : c.item \in options
        BY DEF Card
    <2>4. IsFiniteSet(new)
        <3>1. IsFiniteSet(options)
            BY FourSearches DEF FiltersInv, Parsed
        <3>2. f \in [options -> new] /\ \A c \in new : \E item \in options : f[item] = c
            OBVIOUS
        <3> HIDE DEF f, new, options
        <3> QED
            BY <3>1, <3>2, ImageFinite
    <2>5. IsFiniteSet(CardsOf("flights")')
        <3> HIDE DEF new
        <3> QED
            BY <1>2, <1>4, <2>4, FS_Union DEF FiltersInv, FlightsTimed
    <2>6. \A c \in CardsOf("flights")' : c.item.minutes \in Int
        BY <1>2, <1>4, <2>3 DEF FiltersInv, FlightsTimed, Parsed
    <2>7. FlightsTimed'
        BY <2>5, <2>6, Zenon DEF FlightsTimed
    <2> QED
        BY <1>2, <2>2, <2>7 DEF FiltersInv, Parsed
<1> QED
    BY <1>3, <1>4

LEMMA FiltersTransport == PipeInv /\ FiltersInv /\ PersistTransport => FiltersInv'
<1> SUFFICES ASSUME PipeInv, FiltersInv, PersistTransport PROVE FiltersInv'
    OBVIOUS
<1> DEFINE next == IF Unusable("transport") \/ SomeSearchRaised THEN "failing" ELSE "finish"
           items == WithCitations(calls["transport"].options)
<1>1. run.pc = "transport" /\ Store("transport", items, next)
    BY DEF PersistTransport
<1>2. next \in RunPhases
    BY DEF RunPhases
<1> HIDE DEF items, next
<1>3. /\ UNCHANGED calls /\ run'.type = run.type /\ run'.asked = run.asked
      /\ StoredItems("activities")' = StoredItems("activities")
      /\ CardsOf("flights")' = CardsOf("flights")
    BY <1>1, <1>2, FourSearches, StoreAdds DEF PipeInv
<1>4. ShortestFlight' = ShortestFlight /\ FlightsTimed'
    BY <1>3, FlightsStay DEF FiltersInv
<1>5. Filtered'
    BY <1>1, <1>3, <1>4, FilteredStays
<1> QED
    BY <1>3, <1>4, <1>5 DEF FiltersInv, Parsed

\* Superseded flights are flights still; a run of activities supersedes none.
LEMMA FiltersFinish == PipeInv /\ FiltersInv /\ Finish => FiltersInv'
<1> SUFFICES ASSUME PipeInv, FiltersInv, Finish PROVE FiltersInv'
    OBVIOUS
<1> DEFINE kept == {c \in cards : c.run = run.id \/ c.search \notin ScopedTypes(run.type)}
           Off(c) == [c EXCEPT !.active = FALSE]
           off == {Off(c) : c \in cards \ kept}
<1>1. /\ run.pc = "finish" /\ cards' = kept \cup off /\ UNCHANGED calls
      /\ run'.asked = run.asked /\ run'.type = run.type /\ run'.id = run.id
    BY DEF Finish, PipeInv, Shapes
<1>2. ASSUME NEW c \in cards \ kept
      PROVE  /\ Off(c).run = c.run /\ c.run # run.id
             /\ Off(c).search = c.search /\ c.search \in ScopedTypes(run.type)
             /\ Off(c).item = c.item
    <2>1. PICK I : c \in CardOver(I)
        BY DEF PipeInv, Shapes, IsCard
    <2> QED
        BY <2>1 DEF CardOver
<1>3. kept \subseteq cards /\ \A c \in cards : c.run = run.id => c \in kept
    OBVIOUS
<1>4. StoredItems("activities")' = StoredItems("activities")
    <2>1. \A d \in off : d.run # run.id
        BY <1>2
    <2> HIDE DEF kept, off
    <2> QED
        BY <1>1, <1>3, <2>1 DEF StoredItems, CardsOf
<1>5. FlightsTimed'
    <2> DEFINE flights == CardsOf("flights") \ kept
               f == [c \in flights |-> Off(c)]
               image == {Off(c) : c \in flights}
    <2>1. IsFiniteSet(flights)
        BY FS_Subset DEF FiltersInv, FlightsTimed
    <2>2. f \in [flights -> image] /\ \A d \in image : \E c \in flights : f[c] = d
        OBVIOUS
    <2>3. \A d \in image : d.item.minutes \in Int
        BY <1>2 DEF FiltersInv, FlightsTimed, CardsOf
    <2>4. CardsOf("flights")' \subseteq CardsOf("flights") \cup image
        <3> SUFFICES ASSUME NEW d \in off, d.search = "flights" PROVE d \in image
            BY <1>1, <1>3 DEF CardsOf
        <3>1. PICK c \in cards \ kept : d = Off(c)
            OBVIOUS
        <3>2. c \in flights
            BY <1>2, <3>1 DEF CardsOf
        <3> QED
            BY <3>1, <3>2
    <2>5. IsFiniteSet(image)
        <3> HIDE DEF f, image, flights
        <3> QED
            BY <2>1, <2>2, ImageFinite
    <2> HIDE DEF image
    <2>6. IsFiniteSet(CardsOf("flights") \cup image)
        BY <2>5, FS_Union DEF FiltersInv, FlightsTimed
    <2>7. IsFiniteSet(CardsOf("flights")')
        BY <2>4, <2>6, FS_Subset
    <2>8. \A c \in CardsOf("flights")' : c.item.minutes \in Int
        BY <2>3, <2>4 DEF FiltersInv, FlightsTimed
    <2> QED
        BY <2>7, <2>8, Zenon DEF FlightsTimed
<1>6. run.type = "activities" => ShortestFlight' = ShortestFlight
    <2> SUFFICES ASSUME run.type = "activities"
                 PROVE  CardsOf("flights")' = CardsOf("flights")
        BY FlightsStay
    <2>1. "flights" \notin ScopedTypes(run.type)
        BY DEF ScopedTypes
    <2>2. \A d \in off : d.search # "flights"
        BY <1>2, <2>1
    <2>3. \A c \in cards : c.search = "flights" => c \in kept
        BY <2>1
    <2> HIDE DEF kept, off
    <2> QED
        BY <1>1, <1>3, <2>2, <2>3 DEF CardsOf
<1>7. Filtered'
    BY <1>1, <1>4, <1>6, FilteredStays
<1> QED
    BY <1>1, <1>5, <1>7 DEF FiltersInv, Parsed

LEMMA FiltersFail == PipeInv /\ FiltersInv /\ Fail => FiltersInv'
<1> SUFFICES ASSUME PipeInv, FiltersInv, Fail PROVE FiltersInv'
    OBVIOUS
<1>1. /\ run.pc = "failing" /\ UNCHANGED <<calls, cards>>
      /\ run'.asked = run.asked /\ run'.type = run.type /\ run'.id = run.id
    BY DEF Fail, PipeInv, Shapes
<1>2. CardsOf("flights")' = CardsOf("flights")
      /\ StoredItems("activities")' = StoredItems("activities")
    BY <1>1 DEF StoredItems, CardsOf
<1>3. ShortestFlight' = ShortestFlight /\ FlightsTimed'
    BY <1>2, FlightsStay DEF FiltersInv
<1>4. Filtered'
    BY <1>1, <1>2, <1>3, FilteredStays
<1> QED
    BY <1>1, <1>3, <1>4 DEF FiltersInv, Parsed

LEMMA FiltersStutter == FiltersInv /\ UNCHANGED vars => FiltersInv'
<1> SUFFICES ASSUME FiltersInv, UNCHANGED vars PROVE FiltersInv'
    OBVIOUS
<1>1. UNCHANGED <<calls, run, cards>>
    BY DEF vars
<1>2. CardsOf("flights")' = CardsOf("flights")
      /\ StoredItems("activities")' = StoredItems("activities")
    BY <1>1 DEF StoredItems, CardsOf
<1>3. ShortestFlight' = ShortestFlight /\ FlightsTimed'
    BY <1>2, FlightsStay DEF FiltersInv
<1>4. Filtered'
    BY <1>1, <1>2, <1>3 DEF FiltersInv, Filtered, Found, Over
<1> QED
    BY <1>1, <1>3, <1>4 DEF FiltersInv, Parsed

LEMMA FiltersStep == PipeInv /\ FiltersInv /\ [Next]_vars => FiltersInv'
<1> SUFFICES ASSUME PipeInv, FiltersInv, [Next]_vars PROVE FiltersInv'
    OBVIOUS
<1>1. ASSUME NEW type \in ResearchSearches \cup {"full"},
             NEW airports \in BOOLEAN, NEW skipHotel \in BOOLEAN,
             StartRun(type, airports, skipHotel)
      PROVE  FiltersInv'
    BY <1>1, FiltersStart
<1>2. ASSUME NEW s \in ResearchSearches, Search(s) PROVE FiltersInv'
    BY <1>2, FiltersSearch
<1>3. CASE RunStep
    BY <1>3, FiltersGather, FiltersHotels, FiltersActivities, FiltersFlights,
       FiltersTransport, FiltersFinish, FiltersFail DEF RunStep, Persist
<1>4. CASE UNCHANGED vars
    BY <1>4, FiltersStutter
<1> QED
    BY <1>1, <1>2, <1>3, <1>4 DEF Next

-----------------------------------------------------------------------------
(* The theorems *)

(* Calls, run, options and raw responses keep their shape, and every search  *)
(* of the run is stored as it was found or not at all: PipeInv is inductive.  *)
THEOREM PipelineInvariant == Spec => []PipeInv
BY PipeInit, PipeStep, PTL DEF Spec

(* The shape of the calls, the run, its cards and its raw responses. *)
THEOREM PipelineTypes == Spec => []TypeOK
<1>1. PipeInv => TypeOK
    <2> SUFFICES ASSUME PipeInv PROVE TypeOK
        OBVIOUS
    <2>1. ASSUME NEW c \in cards
          PROVE  c.run \in 1 .. run.id /\ c.search \in ResearchSearches /\ c.active \in BOOLEAN
        <3>1. PICK I : c \in CardOver(I)
            BY DEF PipeInv, Shapes, IsCard
        <3> QED
            BY <3>1 DEF PipeInv, Shapes, CardOver
    <2>2. CallTypeOK
        BY CallsSay DEF PipeInv, Shapes
    <2> QED
        BY <2>1, <2>2 DEF TypeOK, PipeInv, Shapes
<1> QED
    BY <1>1, PipelineInvariant, PTL

(* Nothing is asked of a service more often than the settings allow, and an  *)
(* agent is unusable only after every attempt was (serpapi._get and the       *)
(* retry loops of the agents).                                                *)
THEOREM AttemptsAreBounded == Spec => []AnswersComeOfTheLastAttempt
<1>1. PipeInv => AnswersComeOfTheLastAttempt
    BY CallsSay DEF PipeInv, Shapes
<1> QED
    BY <1>1, PipelineInvariant, PTL

(* Whichever searches fail and whatever they answer, a run that is over has   *)
(* kept what the others found (the persist steps of run_leg_research).        *)
THEOREM FailuresCostNoAnswers == Spec => []AnswersAreKept
<1>1. PipeInv => AnswersAreKept
    <2> SUFFICES ASSUME PipeInv, Over, NEW s \in ResearchSearches
                 PROVE  LET abandoned == s \in {"flights", "transport"} /\ Unusable("activities") IN
                        /\ Response(s) \in raws <=> (Found(s) /\ ~abandoned)
                        /\ (Found(s) /\ ~abandoned /\ s # "activities")
                              => StoredItems(s) = calls[s].options
        BY DEF AnswersAreKept, Response
    <2>1. Ended
        BY DEF PipeInv, Progress
    <2>2. CASE s \in {"flights", "transport"} /\ Unusable("activities")
        BY <2>1, <2>2 DEF Ended, Untouched
    <2>3. CASE ~(s \in {"flights", "transport"} /\ Unusable("activities"))
        <3>1. Kept(s)
            BY <2>1, <2>3, FourSearches DEF Ended
        <3> QED
            BY <2>3, <3>1 DEF Kept
    <2> QED
        BY <2>2, <2>3
<1> QED
    BY <1>1, PipelineInvariant, PTL

(* Options leave the list of a leg only in the commit that completes a run    *)
(* over their kind, and only if every search of that run answered             *)
(* (supersede_option_cards is reached by no other way).                       *)
THEOREM FailedRunsHideNothing == Spec => OptionsLeaveWithAnswers
<1> DEFINE Leave ==
        \A c \in cards :
            (c.active /\ c \notin cards') =>
                /\ run.status = "running" /\ run'.status = "completed"
                /\ c.run < run.id
                /\ \A s \in run.asked : calls[s].outcome = "options"
<1>1. PipeInv /\ [Next]_vars => [Leave]_vars
    <2> SUFFICES ASSUME PipeInv, [Next]_vars PROVE Leave
        OBVIOUS
    <2>1. CASE cards \subseteq cards'
        BY <2>1
    <2>2. CASE Finish
        <3> SUFFICES ASSUME NEW c \in cards, c \notin cards'
                     PROVE  /\ run.status = "running" /\ run'.status = "completed"
                            /\ c.run < run.id
                            /\ \A s \in run.asked : calls[s].outcome = "options"
            OBVIOUS
        <3>1. run.pc = "finish" /\ run' = [run EXCEPT !.pc = "idle", !.status = "completed"]
              /\ c.run # run.id
            BY <2>2 DEF Finish
        <3>2. run.status = "running" /\ run'.status = "completed"
              /\ c.run \in 1 .. run.id /\ run.id \in Nat
            BY <3>1 DEF PipeInv, Shapes
        <3>3. \A s \in run.asked : calls[s].outcome = "options"
            BY <3>1 DEF PipeInv, Progress
        <3> QED
            BY <3>1, <3>2, <3>3
    <2>3. CASE ~Finish
        <3>1. cards \subseteq cards'
            BY <2>3 DEF Next, RunStep, StartRun, Search, Gather, Persist, PersistHotels,
               PersistActivities, PersistFlights, PersistTransport, Store, Fail, vars
        <3> QED
            BY <2>1, <3>1
    <2> QED
        BY <2>2, <2>3
<1>2. (Spec => [][Leave]_vars) => (Spec => OptionsLeaveWithAnswers)
    BY DEF OptionsLeaveWithAnswers
<1> QED
    BY <1>1, <1>2, PipelineInvariant, PTL DEF Spec

(* What a run stores of the activities is what the filters leave of them, by *)
(* the flights stored before it: with PipeInv, FiltersInv is inductive.       *)
THEOREM FiltersInvariant == Spec => []FiltersInv
BY FiltersInit, FiltersStep, PipelineInvariant, PTL DEF Spec

(* Whatever else was found and in which currencies, an activity within ten   *)
(* times each of its peers is stored and one beyond ten times each of two or  *)
(* more is not (filter_implausible_prices).                                   *)
THEOREM PricesAreJudgedByRatio == Spec => []PricesJudgedAmongPeers
<1>1. PipeInv /\ FiltersInv => PricesJudgedAmongPeers
    <2> DEFINE options == calls["activities"].options
               plausible == WithPlausiblePrices(options)
    <2> SUFFICES ASSUME PipeInv, FiltersInv, Over, Found("activities"), NEW a \in options
                 PROVE  LET peers == {b \in options \ {a} : b.currency = a.currency}
                            Near(b) == a.amount <= 10 * b.amount /\ b.amount <= 10 * a.amount
                            Above(b) == a.amount > 10 * b.amount
                            Below(b) == 10 * a.amount < b.amount
                        IN /\ (a.timing \notin DayBound /\ \A b \in peers : Near(b))
                                 => a \in StoredItems("activities")
                           /\ (Cardinality(peers) > 1
                                 /\ ((\A b \in peers : Above(b)) \/ (\A b \in peers : Below(b))))
                                 => a \notin StoredItems("activities")
        BY DEF PricesJudgedAmongPeers
    <2>1. StoredItems("activities") \in {plausible, {b \in plausible : b.timing \notin DayBound}}
        BY DEF FiltersInv, Filtered
    <2>2. IsFiniteSet(options) /\ \A b \in options : b.amount \in Int
        BY FourSearches DEF FiltersInv, Parsed
    <2>3. a \in plausible <=> Plausible(a, options)
        BY DEF WithPlausiblePrices
    <2> HIDE DEF options, plausible
    <2>4. Peers(a, options) = {b \in options \ {a} : b.currency = a.currency}
        BY DEF Peers
    <2> QED
        BY <2>1, <2>2, <2>3, <2>4, PlausibleByRatio
<1> QED
    BY <1>1, PipelineInvariant, FiltersInvariant, PTL

(* A run of activities alone lists none for the days of arrival and departure *)
(* of a leg all of whose flights are long, and all that are plausible if one   *)
(* is not (filter_same_day_conflicts over the flights stored before).          *)
THEOREM LongFlightsFreeTheirDays == Spec => []ActivitiesRunHeedsFlights
<1>1. PipeInv /\ FiltersInv => ActivitiesRunHeedsFlights
    <2> DEFINE options == calls["activities"].options
               plausible == WithPlausiblePrices(options)
               stored == StoredItems("activities")
               durations == {c.item.minutes : c \in CardsOf("flights")}
    <2> SUFFICES ASSUME PipeInv, FiltersInv, Over, run.type = "activities",
                        CardsOf("flights") # {}
                 PROVE  IF \A c \in CardsOf("flights") : c.item.minutes > LongFlight
                        THEN \A item \in stored : item.timing \notin DayBound
                        ELSE stored = IF Found("activities") THEN plausible ELSE {}
        BY DEF ActivitiesRunHeedsFlights
    <2>1. ~Found("activities") => stored = {}
        BY DEF FiltersInv, Filtered
    <2>2. Found("activities") => stored = WithoutSameDayConflicts(plausible, ShortestFlight)
        <3>1. WithCitations(options) = options
            BY DEF WithCitations, FiltersInv, Parsed
        <3> QED
            BY <3>1 DEF FiltersInv, Filtered, FilteredForPersistence
    <2>3. ShortestFlight \in durations /\ \A n \in durations : ShortestFlight <= n
        <3> DEFINE v == [c \in CardsOf("flights") |-> c.item.minutes]
        <3>1. IsFiniteSet(CardsOf("flights")) /\ v \in [CardsOf("flights") -> Int]
            BY DEF FiltersInv, FlightsTimed
        <3>2. PICK c \in CardsOf("flights") : \A d \in CardsOf("flights") : v[c] <= v[d]
            BY <3>1, LowestOf
        <3>3. \E m \in durations : \A n \in durations : m <= n
            BY <3>2
        <3>4. durations # {} /\ ShortestFlight =
                 IF durations = {} THEN NoFlights
                 ELSE CHOOSE m \in durations : \A n \in durations : m <= n
            BY Zenon DEF ShortestFlight
        <3> HIDE DEF durations
        <3> QED
            BY <3>3, <3>4
    <2>4. ShortestFlight \in Int /\ ShortestFlight # NoFlights /\ LongFlight \in Int
          /\ \A c \in CardsOf("flights") : c.item.minutes \in Int
        BY <2>3, FilterConstantsOK DEF FiltersInv, FlightsTimed
    <2> HIDE DEF options, plausible, stored
    <2>5. CASE \A c \in CardsOf("flights") : c.item.minutes > LongFlight
        <3>1. ~(ShortestFlight <= LongFlight)
            BY <2>3, <2>4, <2>5
        <3>2. WithoutSameDayConflicts(plausible, ShortestFlight)
                 = {b \in plausible : b.timing \notin DayBound}
            BY <2>4, <3>1 DEF WithoutSameDayConflicts
        <3> QED
            BY <2>1, <2>2, <2>5, <3>2
    <2>6. CASE ~(\A c \in CardsOf("flights") : c.item.minutes > LongFlight)
        <3>1. PICK c \in CardsOf("flights") : ~(c.item.minutes > LongFlight)
            BY <2>6
        <3>2. ShortestFlight <= c.item.minutes
            BY <2>3
        <3>3. ShortestFlight <= LongFlight
            BY <2>4, <3>1, <3>2
        <3>4. WithoutSameDayConflicts(plausible, ShortestFlight) = plausible
            BY <3>3 DEF WithoutSameDayConflicts
        <3> QED
            BY <2>1, <2>2, <2>6, <3>4
    <2> QED
        BY <2>5, <2>6
<1> QED
    BY <1>1, PipelineInvariant, FiltersInvariant, PTL
=============================================================================
