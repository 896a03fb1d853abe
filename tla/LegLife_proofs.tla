---------------------------- MODULE LegLife_proofs ----------------------------
(***************************************************************************)
(* Theorems about LegLife: legs and what refers to them, for every number  *)
(* of requests, of positions and of dates.                                 *)
(***************************************************************************)
EXTENDS LegLife, FiniteSetTheorems, TLAPS

Leg == [index : Indexes, start : Nat, end : Nat, nights : Int]

\* What a request under way may hold; the leg it has read may be gone.
Sound(r) ==
    /\ r.op = "create" => r.wanted \in Wanted
    /\ r.op = "patch" => /\ r.leg \in 1 .. made
                         /\ r.start \in Nat \cup {None}
                         /\ r.end \in Nat \cup {None}
                         /\ r.nights \in Int \cup {None}

Shapes ==
    /\ made \in Nat
    /\ DOMAIN legs \subseteq 1 .. made
    /\ \A l \in DOMAIN legs : legs[l] \in Leg
    /\ DOMAIN requests = Clients
    /\ \A c \in Clients : Sound(requests[c])

LegsInv == Shapes /\ OneLegPerIndex /\ RowsHaveTheirLeg

-----------------------------------------------------------------------------
(* Operators *)

\* The ids of the legs of one request are its positions, one by one.
LEMMA InsertedLegs ==
    ASSUME Shapes, NEW wanted \in Wanted, NEW dates \in [wanted -> NewDates]
    PROVE  /\ Cardinality(wanted) \in Nat
           /\ DOMAIN Inserted(wanted, dates) = made + 1 .. made + Cardinality(wanted)
           /\ \A l \in DOMAIN Inserted(wanted, dates) :
                 LET leg == Inserted(wanted, dates)[l] IN
                 /\ leg \in Leg /\ leg.index \in wanted
                 /\ leg.start <= leg.end /\ leg.nights = leg.end - leg.start
           /\ \A l, m \in DOMAIN Inserted(wanted, dates) :
                 Inserted(wanted, dates)[l].index = Inserted(wanted, dates)[m].index => l = m
<1> DEFINE n == Cardinality(wanted)
           order == CHOOSE f \in Bijection(1 .. n, wanted) : TRUE
           legOf(l) == NewLeg(order[l - made], dates[order[l - made]])
<1>1. IsFiniteSet(wanted) /\ wanted \subseteq Indexes
    BY LegConstantsOK
<1>2. n \in Nat /\ ExistsBijection(1 .. n, wanted)
    BY <1>1, FS_CardinalityType
<1>3. order \in Bijection(1 .. n, wanted)
    BY <1>2 DEF ExistsBijection
<1>4. /\ \A i \in 1 .. n : order[i] \in wanted
      /\ \A i, j \in 1 .. n : order[i] = order[j] => i = j
    BY <1>3 DEF Bijection, Injection, IsInjective
<1>5. Inserted(wanted, dates) = [l \in made + 1 .. made + n |-> legOf(l)]
    BY DEF Inserted
<1> HIDE DEF n, order
<1>6. made \in Nat
    BY DEF Shapes
<1>7. ASSUME NEW l \in made + 1 .. made + n
      PROVE  /\ l - made \in 1 .. n
             /\ legOf(l) \in Leg /\ legOf(l).index = order[l - made]
             /\ legOf(l).start <= legOf(l).end
             /\ legOf(l).nights = legOf(l).end - legOf(l).start
    <2>1. l - made \in 1 .. n
        BY <1>2, <1>6
    <2>2. order[l - made] \in wanted
        BY <1>4, <2>1
    <2> DEFINE i == order[l - made]
    <2>3. dates[i] \in NewDates
        BY <2>2
    <2>4. dates[i].start \in Nat /\ dates[i].end \in Nat /\ dates[i].start <= dates[i].end
        BY <2>3, LegConstantsOK
    <2>5. i \in Indexes
        BY <1>1, <2>2
    <2> HIDE DEF i
    <2>6. /\ NewLeg(i, dates[i]) \in Leg /\ NewLeg(i, dates[i]).index = i
          /\ NewLeg(i, dates[i]).start <= NewLeg(i, dates[i]).end
          /\ NewLeg(i, dates[i]).nights = NewLeg(i, dates[i]).end - NewLeg(i, dates[i]).start
        BY <2>4, <2>5 DEF NewLeg, Nights, Leg
    <2> QED
        BY <2>1, <2>6 DEF i
<1> HIDE DEF legOf
<1>8. \A l, m \in made + 1 .. made + n : order[l - made] = order[m - made] => l = m
    <2> TAKE l, m \in made + 1 .. made + n
    <2>1. l - made \in 1 .. n /\ m - made \in 1 .. n
        BY <1>7
    <2>2. order[l - made] = order[m - made] => l - made = m - made
        BY <1>4, <2>1
    <2> QED
        BY <1>2, <1>6, <2>2
<1>9. \A l \in made + 1 .. made + n : order[l - made] \in wanted
    BY <1>4, <1>7
<1> QED
    BY <1>2, <1>5, <1>7, <1>8, <1>9 DEF n

\* A row added keeps the others.
LEMMA AddedRows ==
    ASSUME NEW rows, NEW row
    PROVE  \E n : /\ DOMAIN Added(rows, row) = DOMAIN rows \cup {n}
                  /\ \A k \in DOMAIN rows : Added(rows, row)[k] = rows[k]
                  /\ n \notin DOMAIN rows => Added(rows, row)[n] = row
<1> DEFINE n == Cardinality(DOMAIN rows) + 1
<1>1. Added(rows, row) = [k \in DOMAIN rows \cup {n} |->
                            IF k \in DOMAIN rows THEN rows[k] ELSE row]
    BY DEF Added, Joined
<1> HIDE DEF n
<1> QED
    BY <1>1

-----------------------------------------------------------------------------
(* The steps *)

LEMMA CardFacts ==
    ASSUME NEW l, NEW origin, NEW run, NEW price
    PROVE  Card(l, origin, run, price).leg = l
BY DEF Card

\* A request goes on, and nothing else does.
LEMMA RequestStep ==
    ASSUME LegsInv, NEW c \in Clients, NEW r, Sound(r),
           requests' = [requests EXCEPT ![c] = r],
           UNCHANGED <<legs, made, cards, runs>>
    PROVE  LegsInv'
<1>1. Shapes'
    <2>1. DOMAIN requests' = Clients
        BY DEF LegsInv, Shapes
    <2>2. ASSUME NEW d \in Clients PROVE Sound(requests[d])'
        <3>1. requests'[d] = IF d = c THEN r ELSE requests[d]
            BY DEF LegsInv, Shapes
        <3>2. Sound(requests[d])
            BY DEF LegsInv, Shapes
        <3> QED
            BY <3>1, <3>2 DEF Sound
    <2> QED
        BY <2>1, <2>2 DEF LegsInv, Shapes
<1>2. OneLegPerIndex'
    BY DEF LegsInv, OneLegPerIndex
<1>3. RowsHaveTheirLeg'
    BY DEF LegsInv, RowsHaveTheirLeg
<1> QED
    BY <1>1, <1>2, <1>3 DEF LegsInv

\* What the handlers that only read, or wait, leave in their request.
Waits(c) ==
    \/ \E wanted \in Wanted : CreateRead(c, wanted)
    \/ \E l \in DOMAIN legs : \E patch \in Patches : PatchRead(c, l, patch)
    \/ \E l \in DOMAIN legs : DeleteLocks(c, l) \/ ImportStart(c, l)
    \/ DeleteCards(c) \/ ImportFetched(c)

LEMMA PatchSound ==
    ASSUME LegsInv, NEW c \in Clients, NEW l \in DOMAIN legs, NEW patch \in Patches,
           PatchRead(c, l, patch)
    PROVE  \E r : Sound(r) /\ requests' = [requests EXCEPT ![c] = r]
<1> DEFINE start == Or(patch.start, legs[l].start)
           end == Or(patch.end, legs[l].end)
           r == [op |-> "patch", leg |-> l,
                 start |-> Changed(start, legs[l].start),
                 end |-> Changed(end, legs[l].end),
                 nights |-> Changed(Nights(start, end), legs[l].nights)]
<1>1. legs[l] \in Leg /\ l \in 1 .. made
    BY DEF LegsInv, Shapes
<1>2. patch.start \in Nat \cup {None} /\ patch.end \in Nat \cup {None}
    BY LegConstantsOK
<1>3. start \in Nat /\ end \in Nat
    BY <1>1, <1>2 DEF Or, Leg
<1>4. Nights(start, end) \in Int
    BY <1>3 DEF Nights
<1> HIDE DEF start, end
<1>5. Sound(r)
    BY <1>1, <1>3, <1>4 DEF Sound, Changed
<1>6. requests' = [requests EXCEPT ![c] = r]
    BY DEF PatchRead, start, end
<1> QED
    BY <1>5, <1>6

LEMMA WaitStep ==
    ASSUME LegsInv, NEW c \in Clients, Waits(c)
    PROVE  LegsInv'
<1>1. UNCHANGED <<legs, made, cards, runs>>
    BY DEF Waits, CreateRead, PatchRead, DeleteLocks, ImportStart, DeleteCards, ImportFetched
<1>2. \E r : Sound(r) /\ requests' = [requests EXCEPT ![c] = r]
    <2>1. ASSUME NEW wanted \in Wanted, CreateRead(c, wanted)
          PROVE  \E r : Sound(r) /\ requests' = [requests EXCEPT ![c] = r]
        <3>1. Sound([op |-> "create", wanted |-> wanted])
            BY DEF Sound
        <3> QED
            BY <2>1, <3>1 DEF CreateRead
    <2>2. ASSUME NEW l \in DOMAIN legs, NEW patch \in Patches, PatchRead(c, l, patch)
          PROVE  \E r : Sound(r) /\ requests' = [requests EXCEPT ![c] = r]
        BY <2>2, PatchSound
    <2>3. ASSUME NEW l \in DOMAIN legs, DeleteLocks(c, l)
          PROVE  \E r : Sound(r) /\ requests' = [requests EXCEPT ![c] = r]
        <3>1. Sound([op |-> "deleteCards", leg |-> l])
            BY DEF Sound
        <3> QED
            BY <2>3, <3>1 DEF DeleteLocks
    <2>4. ASSUME NEW l \in DOMAIN legs, ImportStart(c, l)
          PROVE  \E r : Sound(r) /\ requests' = [requests EXCEPT ![c] = r]
        <3>1. Sound([op |-> "fetch", leg |-> l])
            BY DEF Sound
        <3> QED
            BY <2>4, <3>1 DEF ImportStart
    <2>5. ASSUME DeleteCards(c)
          PROVE  \E r : Sound(r) /\ requests' = [requests EXCEPT ![c] = r]
        <3>1. Sound(Idle) /\ Sound([op |-> "deleteRow", leg |-> requests[c].leg])
            BY DEF Sound, Idle
        <3>2. CASE \E k \in CardsOf(requests[c].leg) : cards[k].active
            <4>1. requests' = [requests EXCEPT ![c] = Idle]
                BY <2>5, <3>2 DEF DeleteCards
            <4> QED
                BY <3>1, <4>1
        <3>3. CASE ~ \E k \in CardsOf(requests[c].leg) : cards[k].active
            <4>1. requests' = [requests EXCEPT ![c] =
                                 [op |-> "deleteRow", leg |-> requests[c].leg]]
                BY <2>5, <3>3 DEF DeleteCards
            <4> QED
                BY <3>1, <4>1
        <3> QED
            BY <3>2, <3>3
    <2>6. ASSUME ImportFetched(c)
          PROVE  \E r : Sound(r) /\ requests' = [requests EXCEPT ![c] = r]
        <3>1. CASE requests' = [requests EXCEPT ![c] = Idle]
            <4>1. Sound(Idle)
                BY DEF Sound, Idle
            <4> QED
                BY <3>1, <4>1
        <3>2. ASSUME NEW emit \in Emits,
                     requests' = [requests EXCEPT ![c] =
                        [op |-> "keep", leg |-> @.leg, parsed |-> Extracted(emit)]]
              PROVE  \E r : Sound(r) /\ requests' = [requests EXCEPT ![c] = r]
            <4>1. Sound([op |-> "keep", leg |-> requests[c].leg, parsed |-> Extracted(emit)])
                BY DEF Sound
            <4> QED
                BY <3>2, <4>1
        <3> QED
            BY <2>6, <3>1, <3>2 DEF ImportFetched
    <2> QED
        BY <2>1, <2>2, <2>3, <2>4, <2>5, <2>6 DEF Waits
<1> QED
    BY <1>1, <1>2, RequestStep

\* The shapes survive whatever a request that ends has written.
LEMMA EndsSound ==
    ASSUME Shapes, made' \in Nat, made <= made',
           \/ UNCHANGED requests
           \/ \E c \in Clients : requests' = [requests EXCEPT ![c] = Idle]
    PROVE  /\ DOMAIN requests' = Clients
           /\ \A c \in Clients : Sound(requests[c])'
<1>1. Sound(Idle)'
    BY DEF Sound, Idle
<1>2. ASSUME NEW r, Sound(r) PROVE Sound(r)'
    BY <1>2 DEF Sound, Shapes
<1>3. \A c \in Clients : Sound(requests[c])
    BY DEF Shapes
<1>4. CASE UNCHANGED requests
    <2>1. \A c \in Clients : requests'[c] = requests[c]
        BY <1>4
    <2>2. ASSUME NEW c \in Clients PROVE Sound(requests[c])'
        <3>1. PICK r : r = requests[c]
            OBVIOUS
        <3>2. Sound(r)'
            BY <1>2, <1>3, <3>1
        <3> QED
            BY <2>1, <3>1, <3>2 DEF Sound
    <2> QED
        BY <1>4, <2>2 DEF Shapes
<1>5. ASSUME NEW c \in Clients, requests' = [requests EXCEPT ![c] = Idle]
      PROVE  /\ DOMAIN requests' = Clients
             /\ \A d \in Clients : Sound(requests[d])'
    <2>1. DOMAIN requests' = Clients
        BY <1>5 DEF Shapes
    <2>2. ASSUME NEW d \in Clients PROVE Sound(requests[d])'
        <3>1. PICK r : r = requests'[d]
            OBVIOUS
        <3>2. r = Idle \/ r = requests[d]
            BY <1>5, <3>1 DEF Shapes
        <3>3. Sound(r)'
            BY <1>1, <1>2, <1>3, <3>2
        <3> QED
            BY <3>1, <3>3 DEF Sound
    <2> QED
        BY <2>1, <2>2
<1> QED
    BY <1>4, <1>5

\* Rows come, or change but for their leg.
LEMMA RowsStep ==
    ASSUME LegsInv, UNCHANGED <<legs, made>>,
           \/ UNCHANGED requests
           \/ \E c \in Clients : requests' = [requests EXCEPT ![c] = Idle],
           \A k \in DOMAIN cards' : cards'[k].leg \in DOMAIN legs,
           \A r \in DOMAIN runs' : runs'[r].leg \in DOMAIN legs
    PROVE  LegsInv'
<1>1. Shapes'
    <2>1. made' \in Nat /\ made <= made'
        BY DEF LegsInv, Shapes
    <2>2. DOMAIN requests' = Clients /\ \A c \in Clients : Sound(requests[c])'
        BY <2>1, EndsSound DEF LegsInv
    <2> QED
        BY <2>2 DEF LegsInv, Shapes
<1>2. OneLegPerIndex'
    BY DEF LegsInv, OneLegPerIndex
<1>3. RowsHaveTheirLeg'
    BY DEF RowsHaveTheirLeg
<1> QED
    BY <1>1, <1>2, <1>3 DEF LegsInv

\* A card added to a leg that is there.
LEMMA CardAdded ==
    ASSUME LegsInv, NEW l \in DOMAIN legs, NEW origin, NEW run, NEW price,
           cards' = Added(cards, Card(l, origin, run, price))
    PROVE  \A k \in DOMAIN cards' : cards'[k].leg \in DOMAIN legs
<1> DEFINE card == Card(l, origin, run, price)
<1>1. card.leg = l
    BY CardFacts
<1> HIDE DEF card
<1>2. PICK n : /\ DOMAIN Added(cards, card) = DOMAIN cards \cup {n}
               /\ \A k \in DOMAIN cards : Added(cards, card)[k] = cards[k]
               /\ n \notin DOMAIN cards => Added(cards, card)[n] = card
    BY AddedRows
<1>3. cards' = Added(cards, card)
    BY DEF card
<1> QED
    BY <1>1, <1>2, <1>3 DEF LegsInv, RowsHaveTheirLeg

LEMMA KeptRows ==
    ASSUME LegsInv
    PROVE  /\ UNCHANGED cards => \A k \in DOMAIN cards' : cards'[k].leg \in DOMAIN legs
           /\ UNCHANGED runs => \A r \in DOMAIN runs' : runs'[r].leg \in DOMAIN legs
BY DEF LegsInv, RowsHaveTheirLeg

LEMMA ImportPersistStep ==
    ASSUME LegsInv, NEW c \in Clients, ImportPersist(c)
    PROVE  LegsInv'
<1>1. UNCHANGED <<legs, made, runs>> /\ requests' = [requests EXCEPT ![c] = Idle]
    BY DEF ImportPersist
<1>2. CASE UNCHANGED cards
    BY <1>1, <1>2, KeptRows, RowsStep
<1>3. CASE ~UNCHANGED cards
    <2> DEFINE l == requests[c].leg
    <2>1. l \in DOMAIN legs /\ cards' = Added(cards, Card(l, "url", None, requests[c].parsed.price))
        BY <1>3 DEF ImportPersist
    <2>2. \A k \in DOMAIN cards' : cards'[k].leg \in DOMAIN legs
        BY <2>1, CardAdded
    <2> QED
        BY <1>1, <2>2, KeptRows, RowsStep
<1> QED
    BY <1>2, <1>3

LEMMA ManualStep ==
    ASSUME LegsInv, NEW l \in DOMAIN legs, Manual(l)
    PROVE  LegsInv'
<1>1. PICK price \in ManualPrices : cards' = Added(cards, Card(l, "manual", None, price))
    BY DEF Manual
<1>2. \A k \in DOMAIN cards' : cards'[k].leg \in DOMAIN legs
    BY <1>1, CardAdded
<1>3. UNCHANGED <<legs, made, runs, requests>>
    BY DEF Manual
<1> QED
    BY <1>2, <1>3, KeptRows, RowsStep

LEMMA StartRunStep ==
    ASSUME LegsInv, NEW l \in DOMAIN legs, StartRun(l)
    PROVE  LegsInv'
<1> DEFINE row == [leg |-> l, over |-> FALSE]
<1>1. row.leg = l
    OBVIOUS
<1>2. runs' = Added(runs, row) /\ UNCHANGED <<legs, made, cards, requests>>
    BY DEF StartRun
<1> HIDE DEF row
<1>3. PICK n : /\ DOMAIN Added(runs, row) = DOMAIN runs \cup {n}
               /\ \A k \in DOMAIN runs : Added(runs, row)[k] = runs[k]
               /\ n \notin DOMAIN runs => Added(runs, row)[n] = row
    BY AddedRows
<1>4. \A r \in DOMAIN runs' : runs'[r].leg \in DOMAIN legs
    BY <1>1, <1>2, <1>3 DEF LegsInv, RowsHaveTheirLeg
<1> QED
    BY <1>2, <1>4, KeptRows, RowsStep

LEMMA RunPersistsStep ==
    ASSUME LegsInv, NEW r \in DOMAIN runs, RunPersists(r)
    PROVE  LegsInv'
<1> DEFINE price == [known |-> TRUE, currency |-> HomeCurrency, quote |-> "none"]
<1>1. /\ cards' = Added(cards, Card(runs[r].leg, "research", r, price))
      /\ UNCHANGED <<legs, made, runs, requests>>
    BY DEF RunPersists
<1> HIDE DEF price
<1>2. runs[r].leg \in DOMAIN legs
    BY DEF LegsInv, RowsHaveTheirLeg
<1>3. \A k \in DOMAIN cards' : cards'[k].leg \in DOMAIN legs
    BY <1>1, <1>2, CardAdded
<1> QED
    BY <1>1, <1>3, KeptRows, RowsStep

\* What ends runs and holds cards touches no column that refers to a leg.
RowChange ==
    \/ \E r \in DOMAIN runs : RunCompletes(r) \/ RunFails(r)
    \/ \E k \in DOMAIN cards : Lock(k) \/ Unlock(k)

LEMMA RowChangeStep ==
    ASSUME LegsInv, RowChange
    PROVE  LegsInv'
<1>1. UNCHANGED <<legs, made, requests>>
    BY DEF RowChange, RunCompletes, RunFails, Lock, Unlock
<1>2. ASSUME NEW r \in DOMAIN runs, runs' = [runs EXCEPT ![r].over = TRUE]
      PROVE  \A q \in DOMAIN runs' : runs'[q].leg \in DOMAIN legs
    <2>1. DOMAIN runs' = DOMAIN runs
        BY <1>2
    <2>2. ASSUME NEW q \in DOMAIN runs PROVE runs'[q].leg = runs[q].leg
        BY <1>2
    <2> QED
        BY <2>1, <2>2 DEF LegsInv, RowsHaveTheirLeg
<1>3. ASSUME NEW r \in DOMAIN runs, RunCompletes(r)
      PROVE  \A k \in DOMAIN cards' : cards'[k].leg \in DOMAIN legs
    <2> DEFINE Active(k) == cards[k].active
                            /\ ~(/\ k \in CardsOf(runs[r].leg)
                                 /\ cards[k].origin = "research" /\ cards[k].run # r
                                 /\ ~cards[k].held)
    <2>0. cards' = [k \in DOMAIN cards |-> [cards[k] EXCEPT !.active = Active(k)]]
        BY <1>3 DEF RunCompletes
    <2> HIDE DEF Active
    <2>1. DOMAIN cards' = DOMAIN cards
        BY <2>0
    <2>2. ASSUME NEW k \in DOMAIN cards PROVE cards'[k].leg = cards[k].leg
        <3>1. \E v : cards'[k] = [cards[k] EXCEPT !.active = v]
            BY <2>0, Zenon
        <3> QED
            BY <3>1
    <2> QED
        BY <2>1, <2>2 DEF LegsInv, RowsHaveTheirLeg
<1>4. ASSUME NEW k \in DOMAIN cards, Lock(k) \/ Unlock(k)
      PROVE  \A j \in DOMAIN cards' : cards'[j].leg \in DOMAIN legs
    <2>0. PICK v : cards' = [cards EXCEPT ![k].held = v]
        BY <1>4 DEF Lock, Unlock
    <2>1. DOMAIN cards' = DOMAIN cards
        BY <2>0
    <2>2. ASSUME NEW j \in DOMAIN cards PROVE cards'[j].leg = cards[j].leg
        BY <2>0
    <2> QED
        BY <2>1, <2>2 DEF LegsInv, RowsHaveTheirLeg
<1>5. CASE \E r \in DOMAIN runs : RunCompletes(r)
    <2>1. PICK r \in DOMAIN runs : RunCompletes(r)
        BY <1>5
    <2>2. runs' = [runs EXCEPT ![r].over = TRUE]
        BY <2>1 DEF RunCompletes
    <2> QED
        BY <1>1, <1>2, <1>3, <2>1, <2>2, RowsStep
<1>6. CASE \E r \in DOMAIN runs : RunFails(r)
    <2>1. PICK r \in DOMAIN runs : RunFails(r)
        BY <1>6
    <2>2. runs' = [runs EXCEPT ![r].over = TRUE] /\ UNCHANGED cards
        BY <2>1 DEF RunFails
    <2> QED
        BY <1>1, <1>2, <2>2, KeptRows, RowsStep
<1>7. CASE \E k \in DOMAIN cards : Lock(k) \/ Unlock(k)
    <2>1. PICK k \in DOMAIN cards : Lock(k) \/ Unlock(k)
        BY <1>7
    <2>2. UNCHANGED runs
        BY <2>1 DEF Lock, Unlock
    <2> QED
        BY <1>1, <1>4, <2>1, <2>2, KeptRows, RowsStep
<1> QED
    BY <1>5, <1>6, <1>7 DEF RowChange

\* What bulk_create_legs leaves: the legs there were, and new ones at positions
\* that were free.
LEMMA Created ==
    ASSUME Shapes, NEW c \in Clients, CreateWrite(c)
    PROVE  /\ made' \in Nat /\ made <= made'
           /\ DOMAIN legs \subseteq DOMAIN legs' /\ DOMAIN legs' \subseteq 1 .. made'
           /\ \A l \in DOMAIN legs : legs'[l] = legs[l]
           /\ \A l \in DOMAIN legs' \ DOMAIN legs :
                 /\ l > made /\ legs'[l] \in Leg
                 /\ legs'[l].start <= legs'[l].end
                 /\ legs'[l].nights = legs'[l].end - legs'[l].start
                 /\ \A m \in DOMAIN legs : legs[m].index # legs'[l].index
           /\ \A l, m \in DOMAIN legs' \ DOMAIN legs :
                 legs'[l].index = legs'[m].index => l = m
<1> DEFINE wanted == requests[c].wanted
           taken == \E l \in DOMAIN legs : legs[l].index \in wanted
<1>1. wanted \in Wanted
    BY DEF CreateWrite, Shapes, Sound
<1>2. made \in Nat /\ DOMAIN legs \subseteq 1 .. made
    BY DEF Shapes
<1>3. CASE taken
    <2>1. UNCHANGED <<legs, made>>
        BY <1>3 DEF CreateWrite
    <2> QED
        BY <1>2, <2>1
<1>4. CASE ~taken
    <2>1. PICK dates \in [wanted -> NewDates] : legs' = Joined(legs, Inserted(wanted, dates))
        BY <1>4 DEF CreateWrite
    <2>2. made' = made + Cardinality(wanted)
        BY <1>4 DEF CreateWrite
    <2> DEFINE new == Inserted(wanted, dates)
    <2>3. /\ Cardinality(wanted) \in Nat
          /\ DOMAIN new = made + 1 .. made + Cardinality(wanted)
          /\ \A l \in DOMAIN new :
                /\ new[l] \in Leg /\ new[l].index \in wanted
                /\ new[l].start <= new[l].end /\ new[l].nights = new[l].end - new[l].start
          /\ \A l, m \in DOMAIN new : new[l].index = new[m].index => l = m
        BY <1>1, InsertedLegs
    <2>4. \A m \in DOMAIN legs : legs[m].index \notin wanted
        BY <1>4
    <2> HIDE DEF new, wanted
    <2>5. legs' = [x \in DOMAIN legs \cup DOMAIN new |->
                     IF x \in DOMAIN legs THEN legs[x] ELSE new[x]]
        BY <2>1 DEF Joined, new
    <2>6. \A l \in DOMAIN legs' \ DOMAIN legs : l \in DOMAIN new /\ legs'[l] = new[l]
        BY <2>5
    <2>7. \A l \in DOMAIN legs : legs'[l] = legs[l]
        BY <2>5
    <2>8. /\ made' \in Nat /\ made <= made' /\ DOMAIN legs' \subseteq 1 .. made'
          /\ \A l \in DOMAIN new : l > made
        BY <1>2, <2>2, <2>3, <2>5
    <2> QED
        BY <2>3, <2>4, <2>5, <2>6, <2>7, <2>8
<1> QED
    BY <1>3, <1>4

LEMMA CreateWriteStep ==
    ASSUME LegsInv, NEW c \in Clients, CreateWrite(c)
    PROVE  LegsInv'
<1>1. Shapes /\ OneLegPerIndex /\ RowsHaveTheirLeg
    BY DEF LegsInv
<1>2. UNCHANGED <<cards, runs>> /\ requests' = [requests EXCEPT ![c] = Idle]
    BY DEF CreateWrite
<1>3. Shapes'
    <2>1. DOMAIN requests' = Clients /\ \A d \in Clients : Sound(requests[d])'
        BY <1>1, <1>2, Created, EndsSound
    <2>2. \A l \in DOMAIN legs' : legs'[l] \in Leg
        BY <1>1, Created DEF Shapes
    <2> QED
        BY <1>1, <2>1, <2>2, Created DEF Shapes
<1>4. OneLegPerIndex'
    BY <1>1, Created DEF OneLegPerIndex
<1>5. RowsHaveTheirLeg'
    BY <1>1, <1>2, Created DEF RowsHaveTheirLeg
<1> QED
    BY <1>3, <1>4, <1>5 DEF LegsInv

\* What patch_leg leaves: one leg with other dates.
LEMMA PatchedLegs ==
    ASSUME Shapes, NEW c \in Clients, PatchWrite(c)
    PROVE  /\ DOMAIN legs' = DOMAIN legs
           /\ \A l \in DOMAIN legs :
                 LET r == requests[c] IN
                 /\ legs'[l] \in Leg /\ legs'[l].index = legs[l].index
                 /\ IF l = r.leg
                    THEN /\ legs'[l].start = Or(r.start, legs[l].start)
                         /\ legs'[l].end = Or(r.end, legs[l].end)
                         /\ legs'[l].nights = Or(r.nights, legs[l].nights)
                    ELSE legs'[l] = legs[l]
<1> DEFINE r == requests[c]
           leg == legs[r.leg]
           new == [leg EXCEPT !.start = Or(r.start, leg.start),
                              !.end = Or(r.end, leg.end),
                              !.nights = Or(r.nights, leg.nights)]
<1>1. \A l \in DOMAIN legs : legs[l] \in Leg
    BY DEF Shapes
<1>2. CASE r.leg \notin DOMAIN legs
    <2>1. legs' = legs
        BY <1>2 DEF PatchWrite
    <2> QED
        BY <1>1, <1>2, <2>1
<1>3. CASE r.leg \in DOMAIN legs
    <2>1. /\ r.start \in Nat \cup {None} /\ r.end \in Nat \cup {None}
          /\ r.nights \in Int \cup {None}
        BY DEF PatchWrite, Shapes, Sound
    <2>2. leg \in Leg
        BY <1>1, <1>3
    <2>3. legs' = [legs EXCEPT ![r.leg] = new]
        BY <1>3 DEF PatchWrite
    <2> DEFINE start == Or(r.start, leg.start)
               end == Or(r.end, leg.end)
               nights == Or(r.nights, leg.nights)
    <2>4. start \in Nat /\ end \in Nat /\ nights \in Int
        BY <2>1, <2>2 DEF Or, Leg
    <2> HIDE DEF start, end, nights
    <2>5. new = [leg EXCEPT !.start = start, !.end = end, !.nights = nights]
        BY DEF start, end, nights
    <2>6. /\ new \in Leg /\ new.index = leg.index
          /\ new.start = start /\ new.end = end /\ new.nights = nights
        <3> HIDE DEF new, leg
        <3> QED
            BY <2>2, <2>4, <2>5 DEF Leg
    <2>7. \A l \in DOMAIN legs : legs'[l] = IF l = r.leg THEN new ELSE legs[l]
        <3> HIDE DEF new
        <3> QED
            BY <2>3
    <2>8. DOMAIN legs' = DOMAIN legs
        <3> HIDE DEF new
        <3> QED
            BY <2>3
    <2>9. /\ start = Or(r.start, leg.start) /\ end = Or(r.end, leg.end)
          /\ nights = Or(r.nights, leg.nights)
        BY DEF start, end, nights
    <2> HIDE DEF new
    <2> QED
        BY <1>1, <1>3, <2>6, <2>7, <2>8, <2>9
<1> QED
    BY <1>2, <1>3

LEMMA PatchWriteStep ==
    ASSUME LegsInv, NEW c \in Clients, PatchWrite(c)
    PROVE  LegsInv'
<1>1. Shapes /\ OneLegPerIndex /\ RowsHaveTheirLeg
    BY DEF LegsInv
<1>2. UNCHANGED <<made, cards, runs>> /\ requests' = [requests EXCEPT ![c] = Idle]
    BY DEF PatchWrite
<1>3. /\ DOMAIN legs' = DOMAIN legs
      /\ \A l \in DOMAIN legs : legs'[l] \in Leg /\ legs'[l].index = legs[l].index
    BY <1>1, PatchedLegs
<1>4. Shapes'
    <2>1. made' \in Nat /\ made <= made'
        BY <1>1, <1>2 DEF Shapes
    <2>2. DOMAIN requests' = Clients /\ \A d \in Clients : Sound(requests[d])'
        BY <1>1, <1>2, <2>1, EndsSound
    <2> QED
        BY <1>1, <1>2, <1>3, <2>2 DEF Shapes
<1>5. OneLegPerIndex'
    BY <1>1, <1>3 DEF OneLegPerIndex
<1>6. RowsHaveTheirLeg'
    BY <1>1, <1>2, <1>3 DEF RowsHaveTheirLeg
<1> QED
    BY <1>4, <1>5, <1>6 DEF LegsInv

\* A leg goes only when nothing refers to it.
LEMMA Deleted ==
    ASSUME NEW c \in Clients, DeleteRow(c)
    PROVE  \/ UNCHANGED legs
           \/ LET l == requests[c].leg IN
              /\ CardsOf(l) = {} /\ RunsOf(l) = {}
              /\ DOMAIN legs' = DOMAIN legs \ {l}
              /\ \A m \in DOMAIN legs' : legs'[m] = legs[m]
<1> DEFINE l == requests[c].leg
<1>1. CASE CardsOf(l) # {} \/ RunsOf(l) # {}
    BY <1>1 DEF DeleteRow
<1>2. CASE ~(CardsOf(l) # {} \/ RunsOf(l) # {})
    <2>1. legs' = Restrict(legs, DOMAIN legs \ {l})
        BY <1>2 DEF DeleteRow
    <2>2. legs' = [m \in DOMAIN legs \ {l} |-> legs[m]]
        BY <2>1 DEF Restrict
    <2> HIDE DEF l
    <2>3. DOMAIN legs' = DOMAIN legs \ {l} /\ \A m \in DOMAIN legs' : legs'[m] = legs[m]
        BY <2>2
    <2> QED
        BY <1>2, <2>3 DEF l
<1> QED
    BY <1>1, <1>2

LEMMA DeleteRowStep ==
    ASSUME LegsInv, NEW c \in Clients, DeleteRow(c)
    PROVE  LegsInv'
<1>1. Shapes /\ OneLegPerIndex /\ RowsHaveTheirLeg
    BY DEF LegsInv
<1>2. UNCHANGED <<made, cards, runs>> /\ requests' = [requests EXCEPT ![c] = Idle]
    BY DEF DeleteRow
<1>3. DOMAIN legs' \subseteq DOMAIN legs /\ \A m \in DOMAIN legs' : legs'[m] = legs[m]
    BY Deleted
<1>4. Shapes'
    <2>1. made' \in Nat /\ made <= made'
        BY <1>1, <1>2 DEF Shapes
    <2>2. DOMAIN requests' = Clients /\ \A d \in Clients : Sound(requests[d])'
        BY <1>1, <1>2, <2>1, EndsSound
    <2> QED
        BY <1>1, <1>2, <1>3, <2>2 DEF Shapes
<1>5. OneLegPerIndex'
    BY <1>1, <1>3 DEF OneLegPerIndex
<1>6. RowsHaveTheirLeg'
    <2>1. CASE UNCHANGED legs
        BY <1>1, <1>2, <2>1 DEF RowsHaveTheirLeg
    <2>2. CASE ~UNCHANGED legs
        <3> DEFINE l == requests[c].leg
        <3>1. CardsOf(l) = {} /\ RunsOf(l) = {} /\ DOMAIN legs' = DOMAIN legs \ {l}
            BY <2>2, Deleted
        <3>2. (\A k \in DOMAIN cards : cards[k].leg # l) /\ (\A r \in DOMAIN runs : runs[r].leg # l)
            BY <3>1 DEF CardsOf, RunsOf
        <3> QED
            BY <1>1, <1>2, <3>1, <3>2 DEF RowsHaveTheirLeg
    <2> QED
        BY <2>1, <2>2
<1> QED
    BY <1>4, <1>5, <1>6 DEF LegsInv

-----------------------------------------------------------------------------
(* The theorems *)

LEMMA LegsInit == Init => LegsInv
<1> SUFFICES ASSUME Init PROVE LegsInv
    OBVIOUS
<1>1. DOMAIN legs = {} /\ DOMAIN cards = {} /\ DOMAIN runs = {}
    BY DEF Init
<1>2. DOMAIN requests = Clients /\ \A c \in Clients : Sound(requests[c])
    BY DEF Init, Sound, Idle
<1> QED
    BY <1>1, <1>2 DEF Init, LegsInv, Shapes, OneLegPerIndex, RowsHaveTheirLeg

\* The steps of Next, as the lemmas above treat them.
LEMMA Steps ==
    Next <=> \/ \E c \in Clients : \/ Waits(c) \/ CreateWrite(c) \/ PatchWrite(c)
                                   \/ DeleteRow(c) \/ ImportPersist(c)
             \/ \E l \in DOMAIN legs : Manual(l) \/ StartRun(l)
             \/ \E r \in DOMAIN runs : RunPersists(r)
             \/ RowChange
BY Zenon DEF Next, Waits, RowChange

LEMMA LegsNext == LegsInv /\ [Next]_lvars => LegsInv'
<1> SUFFICES ASSUME LegsInv, [Next]_lvars PROVE LegsInv'
    OBVIOUS
<1>1. CASE UNCHANGED lvars
    BY <1>1 DEF lvars, LegsInv, Shapes, Sound, OneLegPerIndex, RowsHaveTheirLeg
<1>2. ASSUME NEW c \in Clients, Waits(c) PROVE LegsInv'
    BY <1>2, WaitStep
<1>3. ASSUME NEW c \in Clients, CreateWrite(c) PROVE LegsInv'
    BY <1>3, CreateWriteStep
<1>4. ASSUME NEW c \in Clients, PatchWrite(c) PROVE LegsInv'
    BY <1>4, PatchWriteStep
<1>5. ASSUME NEW c \in Clients, DeleteRow(c) PROVE LegsInv'
    BY <1>5, DeleteRowStep
<1>6. ASSUME NEW c \in Clients, ImportPersist(c) PROVE LegsInv'
    BY <1>6, ImportPersistStep
<1>7. ASSUME NEW l \in DOMAIN legs, Manual(l) \/ StartRun(l) PROVE LegsInv'
    BY <1>7, ManualStep, StartRunStep
<1>8. ASSUME NEW r \in DOMAIN runs, RunPersists(r) PROVE LegsInv'
    BY <1>8, RunPersistsStep
<1>9. CASE RowChange
    BY <1>9, RowChangeStep
<1> QED
    BY <1>1, <1>2, <1>3, <1>4, <1>5, <1>6, <1>7, <1>8, <1>9, Steps

\* The invariant of the rows: a leg per position, and no row without its leg.
THEOREM LegsInvariant == Spec => []LegsInv
BY LegsInit, LegsNext, PTL DEF Spec

\* However many requests create legs at once, a trip has one leg at a position.
THEOREM OneLegEach == Spec => []OneLegPerIndex
<1>1. LegsInv => OneLegPerIndex
    BY DEF LegsInv
<1> QED
    BY <1>1, LegsInvariant, PTL

\* However long an import or a deletion waits, no option and no run is left
\* without its leg.
THEOREM RowsKeepTheirLeg == Spec => []RowsHaveTheirLeg
<1>1. LegsInv => RowsHaveTheirLeg
    BY DEF LegsInv
<1> QED
    BY <1>1, LegsInvariant, PTL

\* The only legs that ever go are those without options and runs.
THEOREM DeletionsTakeNothing == Spec => DeletionTakesNothing
<1> DEFINE Takes == \A l \in DOMAIN legs \ DOMAIN legs' : CardsOf(l) = {} /\ RunsOf(l) = {}
<1>1. LegsInv /\ [Next]_lvars => [Takes]_lvars
    <2> SUFFICES ASSUME LegsInv, Next PROVE Takes
        OBVIOUS
    <2>1. CASE UNCHANGED legs
        BY <2>1
    <2>2. ASSUME NEW c \in Clients, CreateWrite(c) PROVE Takes
        BY <2>2, Created DEF LegsInv
    <2>3. ASSUME NEW c \in Clients, PatchWrite(c) PROVE Takes
        BY <2>3, PatchedLegs DEF LegsInv
    <2>4. ASSUME NEW c \in Clients, DeleteRow(c) PROVE Takes
        BY <2>4, Deleted
    <2>5. ASSUME NEW c \in Clients, Waits(c) \/ ImportPersist(c) PROVE UNCHANGED legs
        BY <2>5 DEF Waits, CreateRead, PatchRead, DeleteLocks, ImportStart, DeleteCards,
                    ImportFetched, ImportPersist
    <2>6. ASSUME NEW l \in DOMAIN legs, Manual(l) \/ StartRun(l) PROVE UNCHANGED legs
        BY <2>6 DEF Manual, StartRun
    <2>7. ASSUME NEW r \in DOMAIN runs, RunPersists(r) PROVE UNCHANGED legs
        BY <2>7 DEF RunPersists
    <2>8. RowChange => UNCHANGED legs
        BY DEF RowChange, RunCompletes, RunFails, Lock, Unlock
    <2> HIDE DEF Takes
    <2> QED
        BY <2>1, <2>2, <2>3, <2>4, <2>5, <2>6, <2>7, <2>8, Steps
<1> QED
    BY <1>1, LegsInvariant, PTL DEF Spec, DeletionTakesNothing

-----------------------------------------------------------------------------
(* The dates, when the organizer waits for the answer of each PATCH *)

\* What a PATCH under way will leave fits, and no other is under way.
PatchesFit ==
    \A c \in Clients :
        requests[c].op = "patch" =>
            LET r == requests[c]
                leg == legs[r.leg]
            IN /\ r.leg \in DOMAIN legs =>
                     /\ Or(r.start, leg.start) <= Or(r.end, leg.end)
                     /\ Or(r.nights, leg.nights) = Or(r.end, leg.end) - Or(r.start, leg.start)
               /\ \A d \in Clients : requests[d].op = "patch" => d = c

DatesInv == DatesAgree /\ PatchesFit

\* Steps that leave the legs and send no PATCH.
LEMMA DatesKept ==
    ASSUME Shapes, DatesInv, UNCHANGED legs,
           \/ UNCHANGED requests
           \/ \E c \in Clients : \E r : r.op # "patch" /\ requests' = [requests EXCEPT ![c] = r]
    PROVE  DatesInv'
<1>1. DatesAgree'
    BY DEF DatesInv, DatesAgree
<1>2. \A c \in Clients : requests'[c].op = "patch" => requests'[c] = requests[c]
    <2>1. ASSUME NEW c \in Clients, NEW r, r.op # "patch", requests' = [requests EXCEPT ![c] = r]
          PROVE  \A d \in Clients : requests'[d].op = "patch" => requests'[d] = requests[d]
        BY <2>1 DEF Shapes
    <2> QED
        BY <2>1
<1>3. PatchesFit'
    BY <1>2 DEF DatesInv, PatchesFit
<1> QED
    BY <1>1, <1>3 DEF DatesInv

LEMMA DatesPatchRead ==
    ASSUME OnePatchAtATime, Shapes, DatesInv, NEW c \in Clients, NEW l \in DOMAIN legs,
           NEW patch \in Patches, PatchRead(c, l, patch)
    PROVE  DatesInv'
<1> DEFINE start == Or(patch.start, legs[l].start)
           end == Or(patch.end, legs[l].end)
           r == [op |-> "patch", leg |-> l,
                 start |-> Changed(start, legs[l].start),
                 end |-> Changed(end, legs[l].end),
                 nights |-> Changed(Nights(start, end), legs[l].nights)]
<1>1. /\ requests' = [requests EXCEPT ![c] = r] /\ UNCHANGED legs
      /\ start <= end /\ \A d \in Clients : requests[d].op # "patch"
    BY DEF PatchRead
<1>2. legs[l] \in Leg
    BY DEF Shapes
<1>3. patch.start \in Nat \cup {None} /\ patch.end \in Nat \cup {None}
    BY LegConstantsOK
<1>4. start \in Nat /\ end \in Nat
    BY <1>2, <1>3 DEF Or, Leg
<1>5. Nights(start, end) = end - start /\ Nights(start, end) \in Int
    BY <1>4 DEF Nights
<1> HIDE DEF start, end
<1>6. /\ r.op = "patch" /\ r.leg = l
      /\ Or(r.start, legs[l].start) = start /\ Or(r.end, legs[l].end) = end
      /\ Or(r.nights, legs[l].nights) = end - start
    BY <1>2, <1>4, <1>5, LegConstantsOK DEF Or, Changed, Leg
<1> HIDE DEF r
<1>7. \A d \in Clients : requests'[d] = IF d = c THEN r ELSE requests[d]
    BY <1>1 DEF Shapes
<1>8. DatesAgree'
    BY <1>1 DEF DatesInv, DatesAgree
<1>9. PatchesFit'
    BY <1>1, <1>6, <1>7 DEF PatchesFit
<1> QED
    BY <1>8, <1>9 DEF DatesInv

LEMMA DatesWait ==
    ASSUME OnePatchAtATime, Shapes, DatesInv, NEW c \in Clients, Waits(c)
    PROVE  DatesInv'
<1>1. ASSUME NEW l \in DOMAIN legs, NEW patch \in Patches, PatchRead(c, l, patch)
      PROVE  DatesInv'
    BY <1>1, DatesPatchRead
<1>2. ASSUME NEW r, r.op # "patch", requests' = [requests EXCEPT ![c] = r], UNCHANGED legs
      PROVE  DatesInv'
    BY <1>2, DatesKept
<1>3. ASSUME NEW wanted \in Wanted, CreateRead(c, wanted) PROVE DatesInv'
    BY <1>2, <1>3 DEF CreateRead
<1>4. ASSUME NEW l \in DOMAIN legs, DeleteLocks(c, l) PROVE DatesInv'
    BY <1>2, <1>4 DEF DeleteLocks
<1>5. ASSUME NEW l \in DOMAIN legs, ImportStart(c, l) PROVE DatesInv'
    BY <1>2, <1>5 DEF ImportStart
<1>6. CASE DeleteCards(c)
    <2>1. \/ requests' = [requests EXCEPT ![c] = Idle]
          \/ requests' = [requests EXCEPT ![c] = [op |-> "deleteRow", leg |-> requests[c].leg]]
        BY <1>6 DEF DeleteCards
    <2>2. Idle.op # "patch" /\ UNCHANGED legs
        BY <1>6 DEF Idle, DeleteCards
    <2> QED
        BY <1>2, <2>1, <2>2
<1>7. CASE ImportFetched(c)
    <2>1. \/ requests' = [requests EXCEPT ![c] = Idle]
          \/ \E emit \in Emits :
                requests' = [requests EXCEPT ![c] =
                    [op |-> "keep", leg |-> requests[c].leg, parsed |-> Extracted(emit)]]
        BY <1>7 DEF ImportFetched
    <2>2. Idle.op # "patch" /\ UNCHANGED legs
        BY <1>7 DEF Idle, ImportFetched
    <2> QED
        BY <1>2, <2>1, <2>2
<1> QED
    BY <1>1, <1>3, <1>4, <1>5, <1>6, <1>7 DEF Waits

\* Steps after which every leg is as it was, or is new and has its nights.
LEMMA DatesGrow ==
    ASSUME Shapes, DatesInv, NEW c \in Clients,
           requests[c].op # "patch", requests' = [requests EXCEPT ![c] = Idle],
           \A l \in DOMAIN legs' :
              \/ l \in DOMAIN legs /\ legs'[l] = legs[l]
              \/ /\ l > made
                 /\ legs'[l].start <= legs'[l].end
                 /\ legs'[l].nights = legs'[l].end - legs'[l].start
    PROVE  DatesInv'
<1>1. DatesAgree'
    BY DEF DatesInv, DatesAgree
<1>2. \A d \in Clients :
          requests'[d].op = "patch" => requests'[d] = requests[d] /\ requests[d].leg \in 1 .. made
    BY DEF Shapes, Sound, Idle
<1>3. \A l \in 1 .. made : ~(l > made)
    BY DEF Shapes
<1>4. PatchesFit'
    <2> SUFFICES ASSUME NEW d \in Clients, requests'[d].op = "patch"
                 PROVE  LET r == requests'[d]
                            leg == legs'[r.leg]
                        IN /\ r.leg \in DOMAIN legs' =>
                                 /\ Or(r.start, leg.start) <= Or(r.end, leg.end)
                                 /\ Or(r.nights, leg.nights)
                                      = Or(r.end, leg.end) - Or(r.start, leg.start)
                           /\ \A e \in Clients : requests'[e].op = "patch" => e = d
        BY DEF PatchesFit, Or
    <2>1. requests'[d] = requests[d] /\ requests[d].leg \in 1 .. made
        BY <1>2
    <2>2. requests[d].leg \in DOMAIN legs' =>
             /\ requests[d].leg \in DOMAIN legs
             /\ legs'[requests[d].leg] = legs[requests[d].leg]
        BY <1>3, <2>1
    <2>3. \A e \in Clients : requests'[e].op = "patch" => e = d
        BY <1>2, <2>1 DEF DatesInv, PatchesFit
    <2> QED
        BY <2>1, <2>2, <2>3 DEF DatesInv, PatchesFit
<1> QED
    BY <1>1, <1>4 DEF DatesInv

LEMMA DatesPatchWrite ==
    ASSUME Shapes, DatesInv, NEW c \in Clients, PatchWrite(c)
    PROVE  DatesInv'
<1> DEFINE r == requests[c]
<1>1. r.op = "patch" /\ requests' = [requests EXCEPT ![c] = Idle]
    BY DEF PatchWrite
<1>2. \A d \in Clients : requests'[d].op # "patch"
    <2>1. \A d \in Clients : requests'[d] = IF d = c THEN Idle ELSE requests[d]
        BY <1>1 DEF Shapes
    <2>2. \A d \in Clients : requests[d].op = "patch" => d = c
        BY <1>1 DEF DatesInv, PatchesFit
    <2> QED
        BY <2>1, <2>2 DEF Idle
<1>3. DatesAgree'
    <2> SUFFICES ASSUME NEW l \in DOMAIN legs'
                 PROVE  legs'[l].start <= legs'[l].end
                        /\ legs'[l].nights = legs'[l].end - legs'[l].start
        BY DEF DatesAgree
    <2>1. l \in DOMAIN legs
        BY PatchedLegs
    <2>2. CASE l = r.leg
        <3>1. /\ legs'[l].start = Or(r.start, legs[l].start)
              /\ legs'[l].end = Or(r.end, legs[l].end)
              /\ legs'[l].nights = Or(r.nights, legs[l].nights)
            BY <2>1, <2>2, PatchedLegs
        <3>2. /\ Or(r.start, legs[l].start) <= Or(r.end, legs[l].end)
              /\ Or(r.nights, legs[l].nights) = Or(r.end, legs[l].end) - Or(r.start, legs[l].start)
            BY <1>1, <2>1, <2>2 DEF DatesInv, PatchesFit
        <3> QED
            BY <3>1, <3>2
    <2>3. CASE l # r.leg
        BY <2>1, <2>3, PatchedLegs DEF DatesInv, DatesAgree
    <2> QED
        BY <2>2, <2>3
<1>4. PatchesFit'
    BY <1>2 DEF PatchesFit
<1> QED
    BY <1>3, <1>4 DEF DatesInv

LEMMA DatesNext ==
    OnePatchAtATime /\ Shapes /\ DatesInv /\ [Next]_lvars => DatesInv'
<1> SUFFICES ASSUME OnePatchAtATime, Shapes, DatesInv, [Next]_lvars PROVE DatesInv'
    OBVIOUS
<1>1. CASE UNCHANGED lvars
    BY <1>1, DatesKept DEF lvars
<1>2. ASSUME NEW c \in Clients, Waits(c) PROVE DatesInv'
    BY <1>2, DatesWait
<1>3. ASSUME NEW c \in Clients, CreateWrite(c) PROVE DatesInv'
    <2>1. requests[c].op # "patch" /\ requests' = [requests EXCEPT ![c] = Idle]
        BY <1>3 DEF CreateWrite
    <2>2. \A l \in DOMAIN legs' :
              \/ l \in DOMAIN legs /\ legs'[l] = legs[l]
              \/ /\ l > made
                 /\ legs'[l].start <= legs'[l].end
                 /\ legs'[l].nights = legs'[l].end - legs'[l].start
        BY <1>3, Created
    <2> QED
        BY <2>1, <2>2, DatesGrow
<1>4. ASSUME NEW c \in Clients, PatchWrite(c) PROVE DatesInv'
    BY <1>4, DatesPatchWrite
<1>5. ASSUME NEW c \in Clients, DeleteRow(c) PROVE DatesInv'
    <2>1. requests[c].op # "patch" /\ requests' = [requests EXCEPT ![c] = Idle]
        BY <1>5 DEF DeleteRow
    <2>2. \A l \in DOMAIN legs' : l \in DOMAIN legs /\ legs'[l] = legs[l]
        BY <1>5, Deleted
    <2> QED
        BY <2>1, <2>2, DatesGrow
<1>6. ASSUME NEW c \in Clients, ImportPersist(c) PROVE DatesInv'
    <2>1. Idle.op # "patch" /\ UNCHANGED legs /\ requests' = [requests EXCEPT ![c] = Idle]
        BY <1>6 DEF ImportPersist, Idle
    <2> QED
        BY <2>1, DatesKept
<1>7. ASSUME NEW l \in DOMAIN legs, Manual(l) \/ StartRun(l) PROVE DatesInv'
    BY <1>7, DatesKept DEF Manual, StartRun
<1>8. ASSUME NEW r \in DOMAIN runs, RunPersists(r) PROVE DatesInv'
    BY <1>8, DatesKept DEF RunPersists
<1>9. CASE RowChange
    BY <1>9, DatesKept DEF RowChange, RunCompletes, RunFails, Lock, Unlock
<1> QED
    BY <1>1, <1>2, <1>3, <1>4, <1>5, <1>6, <1>7, <1>8, <1>9, Steps

\* Whatever else happens to legs, their nights fit their dates, as long as the
\* organizer does not send two PATCHes at once.
THEOREM DatesFit == OnePatchAtATime => (Spec => []DatesAgree)
<1> SUFFICES ASSUME OnePatchAtATime PROVE Spec => []DatesAgree
    OBVIOUS
<1>1. Init => DatesInv
    BY DEF Init, DatesInv, DatesAgree, PatchesFit, Idle
<1>2. LegsInv /\ LegsInv' /\ DatesInv /\ [Next]_lvars => DatesInv'
    BY DatesNext DEF LegsInv
<1>3. DatesInv => DatesAgree
    BY DEF DatesInv
<1> QED
    BY <1>1, <1>2, <1>3, LegsInvariant, PTL DEF Spec
-----------------------------------------------------------------------------
(* The cards: their types, and the prices that a page was quoted for *)

\* Ids are given in order and no row of these tables goes, so that the next id
\* is free.
Counted(rows) == \E n \in Nat : DOMAIN rows = 1 .. n

FairCard(card) ==
    /\ card.origin \in Origins /\ card.currency # None
    /\ (card.origin = "research") <=> (card.run # None)
    /\ card.origin = "url" => /\ card.priced => card.quote = "literal"
                              /\ card.held => card.quote = "literal"

\* What an import that waits to be kept has extracted.
FairParsed(parsed) ==
    parsed.price.known => parsed.price.quote = "literal" /\ parsed.price.currency # None

CardsInv ==
    /\ made <= MaxLegs
    /\ Counted(cards) /\ Counted(runs)
    /\ \A k \in DOMAIN cards : FairCard(cards[k])
    /\ \A c \in Clients : requests[c].op = "keep" => FairParsed(requests[c].parsed)

\* A row added has an id of its own.
LEMMA NextRow ==
    ASSUME NEW rows, NEW row, Counted(rows)
    PROVE  /\ Counted(Added(rows, row))
           /\ \A k \in DOMAIN Added(rows, row) :
                 \/ k \in DOMAIN rows /\ Added(rows, row)[k] = rows[k]
                 \/ Added(rows, row)[k] = row
<1>1. PICK n \in Nat : DOMAIN rows = 1 .. n
    BY DEF Counted
<1>2. Cardinality(DOMAIN rows) = n
    BY <1>1, FS_Interval
<1>3. Added(rows, row) = [k \in 1 .. n \cup {n + 1} |->
                             IF k \in DOMAIN rows THEN rows[k] ELSE row]
    BY <1>1, <1>2 DEF Added, Joined
<1>4. 1 .. n \cup {n + 1} = 1 .. n + 1
    OBVIOUS
<1>5. DOMAIN Added(rows, row) = 1 .. n + 1
    BY <1>3, <1>4
<1>6. Counted(Added(rows, row))
    BY <1>5 DEF Counted
<1>7. ASSUME NEW k \in DOMAIN Added(rows, row)
      PROVE  \/ k \in DOMAIN rows /\ Added(rows, row)[k] = rows[k]
             \/ Added(rows, row)[k] = row
    BY <1>3
<1> QED
    BY <1>6, <1>7

\* parse_emit_imported_payload keeps a price only with its quote.
LEMMA ExtractedFair ==
    ASSUME NEW emit \in Emits
    PROVE  FairParsed(Extracted(emit))
<1>1. CASE emit = None \/ ~ValidEmit(emit) \/ emit.title = "blank"
    <2>1. Extracted(emit).price.known = FALSE
        BY <1>1 DEF Extracted, ExtractionFailed, Unpriced
    <2> QED
        BY <2>1, Zenon DEF FairParsed
<1>2. CASE ~(emit = None \/ ~ValidEmit(emit) \/ emit.title = "blank")
    <2>1. emit.quote \in {"none", "blank", "literal"}
        BY <1>2, LegConstantsOK
    <2>2. CASE emit.priced /\ emit.quote \notin {"none", "blank"}
        <3>1. /\ Extracted(emit).price.currency = emit.currency
              /\ Extracted(emit).price.quote = emit.quote
            BY <1>2, <2>2 DEF Extracted
        <3>2. emit.currency # None
            BY <1>2, <2>2, Zenon DEF ValidEmit
        <3> QED
            BY <2>1, <2>2, <3>1, <3>2 DEF FairParsed
    <2>3. CASE ~(emit.priced /\ emit.quote \notin {"none", "blank"})
        <3>1. Extracted(emit).price.known = FALSE
            BY <1>2, <2>3 DEF Extracted, Unpriced
        <3> QED
            BY <3>1, Zenon DEF FairParsed
    <2> QED
        BY <2>2, <2>3
<1> QED
    BY <1>1, <1>2

\* A new card is fair if its price is.
LEMMA NewCardFair ==
    ASSUME NEW l, NEW origin \in Origins, NEW run, NEW price,
           (origin = "research") <=> (run # None),
           price.known => price.currency # None,
           origin = "url" => (price.known => price.quote = "literal")
    PROVE  FairCard(Card(l, origin, run, price))
<1> DEFINE card == Card(l, origin, run, price)
<1>1. /\ card.origin = origin /\ card.run = run
      /\ card.priced = price.known /\ card.quote = price.quote /\ card.held = FALSE
      /\ card.currency = IF price.known THEN price.currency ELSE HomeCurrency
    BY DEF Card
<1> HIDE DEF card
<1>2. card.currency # None
    BY <1>1, LegConstantsOK
<1>3. card.priced => price.known
    BY <1>1, Zenon
<1>4. ~card.held
    BY <1>1, Zenon
<1>5. FairCard(card)
    BY <1>1, <1>2, <1>3, <1>4, Zenon DEF FairCard
<1> QED
    BY <1>5 DEF card

\* Steps after which every card is fair and no import has extracted anything.
LEMMA CardsStep ==
    ASSUME Shapes, CardsInv, made' <= MaxLegs, Counted(cards'), Counted(runs'),
           \A k \in DOMAIN cards' : FairCard(cards'[k]),
           \/ UNCHANGED requests
           \/ \E c \in Clients : \E r :
                 /\ r.op = "keep" => FairParsed(r.parsed)
                 /\ requests' = [requests EXCEPT ![c] = r]
    PROVE  CardsInv'
<1>1. ASSUME NEW d \in Clients, requests'[d].op = "keep" PROVE FairParsed(requests'[d].parsed)
    <2>1. \A c \in Clients : requests[c].op = "keep" => FairParsed(requests[c].parsed)
        BY DEF CardsInv
    <2>2. CASE UNCHANGED requests
        BY <1>1, <2>1, <2>2
    <2>3. ASSUME NEW c \in Clients, NEW r, r.op = "keep" => FairParsed(r.parsed),
                 requests' = [requests EXCEPT ![c] = r]
          PROVE  FairParsed(requests'[d].parsed)
        <3>1. requests'[d] = IF d = c THEN r ELSE requests[d]
            BY <2>3 DEF Shapes
        <3> QED
            BY <1>1, <2>1, <2>3, <3>1
    <2> QED
        BY <2>2, <2>3
<1>2. \A k \in DOMAIN cards' : FairCard(cards[k])'
    BY DEF FairCard
<1>3. \A d \in Clients : (requests[d].op = "keep" => FairParsed(requests[d].parsed))'
    BY <1>1 DEF FairParsed
<1>4. Counted(cards)' /\ Counted(runs)'
    BY DEF Counted
<1> QED
    BY <1>2, <1>3, <1>4 DEF CardsInv

LEMMA CardsKept ==
    ASSUME CardsInv, UNCHANGED cards
    PROVE  Counted(cards') /\ \A k \in DOMAIN cards' : FairCard(cards'[k])
BY DEF CardsInv

LEMMA CardsAdded ==
    ASSUME CardsInv, NEW card, FairCard(card), cards' = Added(cards, card)
    PROVE  Counted(cards') /\ \A k \in DOMAIN cards' : FairCard(cards'[k])
<1>1. Counted(cards) /\ \A k \in DOMAIN cards : FairCard(cards[k])
    BY DEF CardsInv
<1>2. PICK new : new = Added(cards, card)
    OBVIOUS
<1>3. /\ Counted(new)
      /\ \A k \in DOMAIN new : (k \in DOMAIN cards /\ new[k] = cards[k]) \/ new[k] = card
    BY <1>1, <1>2, NextRow
<1>4. cards' = new
    BY <1>2
<1> QED
    BY <1>1, <1>3, <1>4

\* The handlers that create legs, or wait, leave the cards.
LEMMA CardsRequests ==
    ASSUME LegsInv, CardsInv, NEW c \in Clients,
           Waits(c) \/ CreateWrite(c) \/ PatchWrite(c) \/ DeleteRow(c)
    PROVE  CardsInv'
<1>1. UNCHANGED <<cards, runs>>
    BY DEF Waits, CreateRead, PatchRead, DeleteLocks, ImportStart, DeleteCards, ImportFetched,
           CreateWrite, PatchWrite, DeleteRow
<1>2. made' <= MaxLegs
    <2>1. CASE CreateWrite(c)
        BY <2>1 DEF CreateWrite, CardsInv
    <2>2. CASE Waits(c) \/ PatchWrite(c) \/ DeleteRow(c)
        BY <2>2 DEF Waits, CreateRead, PatchRead, DeleteLocks, ImportStart, DeleteCards,
                    ImportFetched, PatchWrite, DeleteRow, CardsInv
    <2> QED
        BY <2>1, <2>2
<1>3. \E r : /\ r.op = "keep" => FairParsed(r.parsed)
             /\ requests' = [requests EXCEPT ![c] = r]
    <2>1. ASSUME NEW r, r.op # "keep", requests' = [requests EXCEPT ![c] = r]
          PROVE  \E q : /\ q.op = "keep" => FairParsed(q.parsed)
                        /\ requests' = [requests EXCEPT ![c] = q]
        BY <2>1
    <2>2. Idle.op # "keep"
        BY DEF Idle
    <2>3. CASE CreateWrite(c) \/ PatchWrite(c) \/ DeleteRow(c)
        BY <2>1, <2>2, <2>3 DEF CreateWrite, PatchWrite, DeleteRow
    <2>4. ASSUME NEW wanted \in Wanted, CreateRead(c, wanted)
          PROVE  requests' = [requests EXCEPT ![c] = [op |-> "create", wanted |-> wanted]]
        BY <2>4 DEF CreateRead
    <2>5. ASSUME NEW l \in DOMAIN legs, NEW patch \in Patches, PatchRead(c, l, patch)
          PROVE  \E start, end, nights :
                    requests' = [requests EXCEPT ![c] =
                        [op |-> "patch", leg |-> l, start |-> start, end |-> end,
                         nights |-> nights]]
        BY <2>5 DEF PatchRead
    <2>6. ASSUME NEW l \in DOMAIN legs, DeleteLocks(c, l) \/ ImportStart(c, l)
          PROVE  \/ requests' = [requests EXCEPT ![c] = [op |-> "deleteCards", leg |-> l]]
                 \/ requests' = [requests EXCEPT ![c] = [op |-> "fetch", leg |-> l]]
        BY <2>6 DEF DeleteLocks, ImportStart
    <2>7. ASSUME DeleteCards(c)
          PROVE  \/ requests' = [requests EXCEPT ![c] = Idle]
                 \/ requests' = [requests EXCEPT ![c] =
                                   [op |-> "deleteRow", leg |-> requests[c].leg]]
        BY <2>7 DEF DeleteCards
    <2>8. ASSUME ImportFetched(c)
          PROVE  \/ requests' = [requests EXCEPT ![c] = Idle]
                 \/ \E emit \in Emits :
                       requests' = [requests EXCEPT ![c] =
                           [op |-> "keep", leg |-> requests[c].leg, parsed |-> Extracted(emit)]]
        BY <2>8 DEF ImportFetched
    <2>9. ASSUME NEW emit \in Emits,
                 requests' = [requests EXCEPT ![c] =
                     [op |-> "keep", leg |-> requests[c].leg, parsed |-> Extracted(emit)]]
          PROVE  \E q : /\ q.op = "keep" => FairParsed(q.parsed)
                        /\ requests' = [requests EXCEPT ![c] = q]
        <3> DEFINE q == [op |-> "keep", leg |-> requests[c].leg, parsed |-> Extracted(emit)]
        <3>1. FairParsed(q.parsed)
            BY ExtractedFair
        <3> QED
            BY <2>9, <3>1
    <2> QED
        BY <2>1, <2>2, <2>3, <2>4, <2>5, <2>6, <2>7, <2>8, <2>9 DEF Waits
<1>4. Counted(runs')
    BY <1>1 DEF CardsInv
<1> QED
    BY <1>1, <1>2, <1>3, <1>4, CardsKept, CardsStep DEF LegsInv

LEMMA CardsImport ==
    ASSUME LegsInv, CardsInv, NEW c \in Clients, ImportPersist(c)
    PROVE  CardsInv'
<1>1. UNCHANGED <<made, runs>> /\ requests' = [requests EXCEPT ![c] = Idle]
    BY DEF ImportPersist
<1>2. made' <= MaxLegs /\ Counted(runs')
    BY <1>1 DEF CardsInv
<1>3. Idle.op # "keep"
    BY DEF Idle
<1>4. Counted(cards') /\ \A k \in DOMAIN cards' : FairCard(cards'[k])
    <2>1. CASE UNCHANGED cards
        BY <2>1, CardsKept
    <2>2. CASE ~UNCHANGED cards
        <3> DEFINE price == requests[c].parsed.price
                   card == Card(requests[c].leg, "url", None, price)
        <3>1. cards' = Added(cards, card) /\ requests[c].op = "keep"
            BY <2>2 DEF ImportPersist
        <3>2. price.known => price.quote = "literal" /\ price.currency # None
            BY <3>1 DEF CardsInv, FairParsed
        <3> HIDE DEF price
        <3>3. FairCard(card)
            BY <3>2, NewCardFair DEF Origins
        <3> HIDE DEF card
        <3> QED
            BY <3>1, <3>3, CardsAdded
    <2> QED
        BY <2>1, <2>2
<1> QED
    BY <1>1, <1>2, <1>3, <1>4, CardsStep DEF LegsInv

LEMMA CardsManual ==
    ASSUME LegsInv, CardsInv, NEW l \in DOMAIN legs, Manual(l)
    PROVE  CardsInv'
<1>1. UNCHANGED <<made, runs, requests>>
    BY DEF Manual
<1>2. PICK price \in ManualPrices : /\ price.known <=> price.currency # None
                                    /\ cards' = Added(cards, Card(l, "manual", None, price))
    BY DEF Manual
<1>3. FairCard(Card(l, "manual", None, price))
    BY <1>2, NewCardFair DEF Origins
<1>4. Counted(cards') /\ \A k \in DOMAIN cards' : FairCard(cards'[k])
    BY <1>2, <1>3, CardsAdded
<1>5. made' <= MaxLegs /\ Counted(runs')
    BY <1>1 DEF CardsInv
<1> QED
    BY <1>1, <1>4, <1>5, CardsStep DEF LegsInv

LEMMA CardsRun ==
    ASSUME LegsInv, CardsInv, NEW r \in DOMAIN runs, RunPersists(r)
    PROVE  CardsInv'
<1> DEFINE price == [known |-> TRUE, currency |-> HomeCurrency, quote |-> "none"]
<1>1. /\ UNCHANGED <<made, runs, requests>>
      /\ cards' = Added(cards, Card(runs[r].leg, "research", r, price))
    BY DEF RunPersists
<1>2. r # None
    <2>1. PICK n \in Nat : DOMAIN runs = 1 .. n
        BY DEF CardsInv, Counted
    <2> QED
        BY <2>1, LegConstantsOK
<1>3. price.currency # None
    BY LegConstantsOK
<1> HIDE DEF price
<1>4. FairCard(Card(runs[r].leg, "research", r, price))
    BY <1>2, <1>3, NewCardFair DEF Origins
<1>5. Counted(cards') /\ \A k \in DOMAIN cards' : FairCard(cards'[k])
    BY <1>1, <1>4, CardsAdded
<1>6. made' <= MaxLegs /\ Counted(runs')
    BY <1>1 DEF CardsInv
<1> QED
    BY <1>1, <1>5, <1>6, CardsStep DEF LegsInv

LEMMA CardsRowChange ==
    ASSUME LegsInv, CardsInv, RowChange
    PROVE  CardsInv'
<1>1. UNCHANGED <<made, requests>>
    BY DEF RowChange, RunCompletes, RunFails, Lock, Unlock
<1>2. made' <= MaxLegs
    BY <1>1 DEF CardsInv
<1>3. Counted(runs')
    <2>1. DOMAIN runs' = DOMAIN runs
        BY DEF RowChange, RunCompletes, RunFails, Lock, Unlock
    <2> QED
        BY <2>1 DEF CardsInv, Counted
<1>4. DOMAIN cards' = DOMAIN cards /\ \A k \in DOMAIN cards : FairCard(cards'[k])
    <2>1. ASSUME NEW r \in DOMAIN runs, RunCompletes(r)
          PROVE  DOMAIN cards' = DOMAIN cards /\ \A k \in DOMAIN cards : FairCard(cards'[k])
        <3> DEFINE Active(k) == cards[k].active
                                /\ ~(/\ k \in CardsOf(runs[r].leg)
                                     /\ cards[k].origin = "research" /\ cards[k].run # r
                                     /\ ~cards[k].held)
        <3>1. cards' = [k \in DOMAIN cards |-> [cards[k] EXCEPT !.active = Active(k)]]
            BY <2>1 DEF RunCompletes
        <3> HIDE DEF Active
        <3>2. ASSUME NEW k \in DOMAIN cards PROVE FairCard(cards'[k])
            <4>1. PICK v : cards'[k] = [cards[k] EXCEPT !.active = v]
                BY <3>1, Zenon
            <4>2. /\ cards'[k].origin = cards[k].origin /\ cards'[k].run = cards[k].run
                  /\ cards'[k].priced = cards[k].priced /\ cards'[k].held = cards[k].held
                  /\ cards'[k].quote = cards[k].quote
                  /\ cards'[k].currency = cards[k].currency
                BY <4>1
            <4>3. FairCard(cards[k])
                BY DEF CardsInv
            <4> QED
                BY <4>2, <4>3, Zenon DEF FairCard
        <3> QED
            BY <3>1, <3>2
    <2>2. ASSUME NEW j \in DOMAIN cards, Lock(j) \/ Unlock(j)
          PROVE  DOMAIN cards' = DOMAIN cards /\ \A k \in DOMAIN cards : FairCard(cards'[k])
        <3>1. PICK v : /\ cards' = [cards EXCEPT ![j].held = v]
                       /\ v => cards[j].priced
            BY <2>2 DEF Lock, Unlock
        <3>2. ASSUME NEW k \in DOMAIN cards PROVE FairCard(cards'[k])
            <4>1. FairCard(cards[k])
                BY DEF CardsInv
            <4>2. CASE k # j
                BY <3>1, <4>1, <4>2
            <4>3. CASE k = j
                <5>1. cards'[k] = [cards[k] EXCEPT !.held = v]
                    BY <3>1, <4>3
                <5>2. /\ cards'[k].origin = cards[k].origin /\ cards'[k].run = cards[k].run
                      /\ cards'[k].priced = cards[k].priced
                      /\ cards'[k].quote = cards[k].quote
                      /\ cards'[k].currency = cards[k].currency
                    BY <5>1
                <5>3. cards'[k].held => v
                    <6>1. cards'[k].held = v \/ ~cards'[k].held
                        BY <5>1
                    <6> QED
                        BY <6>1, Zenon
                <5>4. cards'[k].held => cards[k].priced
                    BY <3>1, <4>3, <5>3, Zenon
                <5> QED
                    BY <4>1, <5>2, <5>4, Zenon DEF FairCard
            <4> QED
                BY <4>2, <4>3
        <3> QED
            BY <3>1, <3>2
    <2>3. ASSUME NEW r \in DOMAIN runs, RunFails(r)
          PROVE  DOMAIN cards' = DOMAIN cards /\ \A k \in DOMAIN cards : FairCard(cards'[k])
        BY <2>3 DEF RunFails, CardsInv
    <2> QED
        BY <2>1, <2>2, <2>3 DEF RowChange
<1>5. Counted(cards')
    BY <1>4 DEF CardsInv, Counted
<1> QED
    BY <1>1, <1>2, <1>3, <1>4, <1>5, CardsStep DEF LegsInv

LEMMA CardsNext == LegsInv /\ CardsInv /\ [Next]_lvars => CardsInv'
<1> SUFFICES ASSUME LegsInv, CardsInv, [Next]_lvars PROVE CardsInv'
    OBVIOUS
<1>1. CASE UNCHANGED lvars
    BY <1>1 DEF lvars, CardsInv, Counted, FairCard, FairParsed
<1>2. ASSUME NEW c \in Clients, Waits(c) \/ CreateWrite(c) \/ PatchWrite(c) \/ DeleteRow(c)
      PROVE  CardsInv'
    BY <1>2, CardsRequests
<1>3. ASSUME NEW c \in Clients, ImportPersist(c) PROVE CardsInv'
    BY <1>3, CardsImport
<1>4. ASSUME NEW l \in DOMAIN legs, Manual(l) PROVE CardsInv'
    BY <1>4, CardsManual
<1>5. ASSUME NEW l \in DOMAIN legs, StartRun(l) PROVE CardsInv'
    <2>1. UNCHANGED <<made, cards, requests>> /\ runs' = Added(runs, [leg |-> l, over |-> FALSE])
        BY <1>5 DEF StartRun
    <2>2. Counted(runs')
        BY <2>1, NextRow DEF CardsInv
    <2>3. made' <= MaxLegs
        BY <2>1 DEF CardsInv
    <2> QED
        BY <2>1, <2>2, <2>3, CardsKept, CardsStep DEF LegsInv
<1>6. ASSUME NEW r \in DOMAIN runs, RunPersists(r) PROVE CardsInv'
    BY <1>6, CardsRun
<1>7. CASE RowChange
    BY <1>7, CardsRowChange
<1> QED
    BY <1>1, <1>2, <1>3, <1>4, <1>5, <1>6, <1>7, Steps

LEMMA CardsInit == Init => CardsInv
<1> SUFFICES ASSUME Init PROVE CardsInv
    OBVIOUS
<1>1. DOMAIN cards = 1 .. 0 /\ DOMAIN runs = 1 .. 0
    BY DEF Init
<1>2. \A c \in Clients : requests[c].op # "keep"
    BY DEF Init, Idle
<1> QED
    BY <1>1, <1>2, LegConstantsOK DEF Init, CardsInv, Counted

\* The invariant of the cards, whatever the pages and the model said.
THEOREM CardsInvariant == Spec => []CardsInv
BY CardsInit, CardsNext, LegsInvariant, PTL DEF Spec

\* Every row is of its type, and every option has a currency.
THEOREM LegTypes == Spec => []TypeOK
<1>1. LegsInv /\ CardsInv => TypeOK
    BY DEF LegsInv, Shapes, Leg, RowsHaveTheirLeg, CardsInv, FairCard, TypeOK
<1> QED
    BY <1>1, LegsInvariant, CardsInvariant, PTL

\* However imports, locks and the failures of either overlap, an imported price
\* is one its page was quoted for, and no other is ever locked.
THEOREM ImportedPricesAreQuoted == Spec => []PricesAreQuoted
<1>1. CardsInv => PricesAreQuoted
    <2> SUFFICES ASSUME CardsInv, NEW k \in DOMAIN cards, cards[k].origin = "url"
                 PROVE  /\ cards[k].priced => cards[k].quote = "literal"
                        /\ cards[k].held => cards[k].quote = "literal"
        BY Zenon DEF PricesAreQuoted
    <2>1. FairCard(cards[k])
        BY DEF CardsInv
    <2> QED
        BY <2>1, Zenon DEF FairCard
<1> QED
    BY <1>1, CardsInvariant, PTL
=============================================================================
