------------------------------- MODULE LegLife -------------------------------
(***************************************************************************)
(* The life of the legs of one trip: created in bulk, patched, filled with *)
(* researched, imported and typed-in options, locked, and deleted          *)
(* (services/legs.py, services/imports.py, research/imports.py).  Every    *)
(* one of these handlers looks first and writes later, and one of them     *)
(* waits seconds for a page and a model in between, so what it has seen    *)
(* may be gone; the constraints of the schema (db/models.py) then decide.  *)
(***************************************************************************)
EXTENDS Integers, FiniteSets, Functions

CONSTANTS
    Clients,         \* the requests that may be under way at once
    Indexes,         \* bound: the positions in the trip
    Wanted,          \* bound: the positions one request creates legs at
    NewDates,        \* bound: the dates legs are created with
    Patches,         \* bound: the dates of a PATCH, None where it sets none
    Emits,           \* bound: what the model emits about a page
    ManualPrices,    \* bound: the prices of the manual form
    HomeCurrency,    \* the trip's
    None,
    MaxLegs, MaxRows, MaxImports,               \* bounds
    OnePatchAtATime  \* whether the organizer waits for the answer of a PATCH

ASSUME LegConstantsOK ==
    /\ MaxLegs \in Nat /\ MaxRows \in Nat /\ MaxImports \in Nat
    /\ OnePatchAtATime \in BOOLEAN
    /\ Indexes \subseteq Nat /\ Wanted \subseteq SUBSET Indexes
    /\ \A wanted \in Wanted : IsFiniteSet(wanted)
    /\ None \notin Int
    /\ \A patch \in Patches : {patch.start, patch.end} \subseteq Nat \cup {None}
    /\ \A d \in NewDates : d.start \in Nat /\ d.end \in Nat /\ d.start <= d.end
    /\ HomeCurrency # None
    /\ \A emit \in Emits \ {None} : emit.quote \in {"none", "blank", "literal"}

VARIABLES
    legs,       \* the rows, by id
    made,       \* how many ids were given
    cards,      \* the option cards, by id
    runs,       \* the research runs, by id
    pages,      \* how many imported pages are kept as raw responses
    requests    \* for each client, what it has read

lvars == <<legs, made, cards, runs, pages, requests>>

------------------------------------------------------------------------------
Idle == [op |-> "idle"]

CardsOf(l) == {k \in DOMAIN cards : cards[k].leg = l}

\* Bounded: how many cards and runs there are.
Rows == Cardinality(DOMAIN cards) + Cardinality(DOMAIN runs)

RunsOf(l) == {r \in DOMAIN runs : runs[r].leg = l}

\* derive_nights.
Nights(start, end) == end - start

NewLeg(index, dates) ==
    [index |-> index, start |-> dates.start, end |-> dates.end,
     nights |-> Nights(dates.start, dates.end)]

\* Rows inserted beside others.
Joined(rows, new) ==
    [x \in DOMAIN rows \cup DOMAIN new |-> IF x \in DOMAIN rows THEN rows[x] ELSE new[x]]

Added(rows, row) == Joined(rows, [x \in {Cardinality(DOMAIN rows) + 1} |-> row])

Init ==
    /\ legs = <<>> /\ made = 0
    /\ cards = <<>> /\ runs = <<>>
    /\ pages = 0
    /\ requests = [c \in Clients |-> Idle]

------------------------------------------------------------------------------
(* bulk_create_legs.                                                       *)
CreateRead(c, wanted) ==
    /\ requests[c] = Idle
    /\ \A l \in DOMAIN legs : legs[l].index \notin wanted
    /\ requests' = [requests EXCEPT ![c] = [op |-> "create", wanted |-> wanted]]
    /\ UNCHANGED <<legs, made, cards, runs, pages>>

\* The ids of the new legs follow no order.
Inserted(wanted, dates) ==
    LET order == CHOOSE f \in Bijection(1 .. Cardinality(wanted), wanted) : TRUE
    IN [l \in made + 1 .. made + Cardinality(wanted) |->
          NewLeg(order[l - made], dates[order[l - made]])]

\* Seeded fault: legs have no unique constraint.
CreateWrite_Unconstrained(c) ==
    /\ requests[c].op = "create"
    /\ made + Cardinality(requests[c].wanted) <= MaxLegs
    /\ \E dates \in [requests[c].wanted -> NewDates] :
          legs' = Joined(legs, Inserted(requests[c].wanted, dates))
    /\ made' = made + Cardinality(requests[c].wanted)
    /\ requests' = [requests EXCEPT ![c] = Idle]
    /\ UNCHANGED <<cards, runs, pages>>

\* All of them or, where uq_legs_trip_id_sequence_index objects, none.
CreateWrite(c) ==
    /\ requests[c].op = "create"
    /\ LET wanted == requests[c].wanted
           taken == \E l \in DOMAIN legs : legs[l].index \in wanted
       IN IF taken THEN UNCHANGED <<legs, made>>
          ELSE /\ made + Cardinality(wanted) <= MaxLegs
               /\ \E dates \in [wanted -> NewDates] : legs' = Joined(legs, Inserted(wanted, dates))
               /\ made' = made + Cardinality(wanted)
    /\ requests' = [requests EXCEPT ![c] = Idle]
    /\ UNCHANGED <<cards, runs, pages>>

------------------------------------------------------------------------------
(* patch_leg: the dates not sent are those the request has read.           *)
Or(sent, read) == IF sent = None THEN read ELSE sent

Changed(new, read) == IF new = read THEN None ELSE new

PatchRead(c, l, patch) ==
    LET start == Or(patch.start, legs[l].start)
        end == Or(patch.end, legs[l].end)
    IN /\ requests[c] = Idle
       /\ OnePatchAtATime => \A d \in Clients : requests[d].op # "patch"
       /\ start <= end
       /\ requests' = [requests EXCEPT ![c] =
                        [op |-> "patch", leg |-> l,
                         start |-> Changed(start, legs[l].start),
                         end |-> Changed(end, legs[l].end),
                         nights |-> Changed(Nights(start, end), legs[l].nights)]]
       /\ UNCHANGED <<legs, made, cards, runs, pages>>

\* Seeded fault: the nights are written only when both dates are sent.
PatchWrite_ForgetsNights(c) ==
    /\ requests[c].op = "patch"
    /\ LET r == requests[c] IN
       legs' = IF r.leg \in DOMAIN legs
               THEN [legs EXCEPT ![r.leg].start = Or(r.start, @),
                                 ![r.leg].end = Or(r.end, @),
                                 ![r.leg].nights = IF None \in {r.start, r.end} THEN @
                                                   ELSE Or(r.nights, @)]
               ELSE legs
    /\ requests' = [requests EXCEPT ![c] = Idle]
    /\ UNCHANGED <<made, cards, runs, pages>>

\* The UPDATE names only the columns that changed, and fails without the row.
PatchWrite(c) ==
    /\ requests[c].op = "patch"
    /\ LET r == requests[c] IN
       legs' = IF r.leg \in DOMAIN legs
               THEN [legs EXCEPT ![r.leg].start = Or(r.start, @),
                                 ![r.leg].end = Or(r.end, @),
                                 ![r.leg].nights = Or(r.nights, @)]
               ELSE legs
    /\ requests' = [requests EXCEPT ![c] = Idle]
    /\ UNCHANGED <<made, cards, runs, pages>>

------------------------------------------------------------------------------
(* delete_leg: two questions, then the DELETE.                             *)
DeleteLocks(c, l) ==
    /\ requests[c] = Idle
    /\ \A k \in CardsOf(l) : ~cards[k].held
    /\ requests' = [requests EXCEPT ![c] = [op |-> "deleteCards", leg |-> l]]
    /\ UNCHANGED <<legs, made, cards, runs, pages>>

DeleteCards(c) ==
    /\ requests[c].op = "deleteCards"
    /\ requests' = [requests EXCEPT ![c] =
                     IF \E k \in CardsOf(@.leg) : cards[k].active THEN Idle
                     ELSE [op |-> "deleteRow", leg |-> @.leg]]
    /\ UNCHANGED <<legs, made, cards, runs, pages>>

\* Seeded fault: the foreign keys on legs cascade.
DeleteRow_Cascades(c) ==
    /\ requests[c].op = "deleteRow"
    /\ LET l == requests[c].leg IN
       /\ legs' = Restrict(legs, DOMAIN legs \ {l})
       /\ cards' = Restrict(cards, DOMAIN cards \ CardsOf(l))
       /\ runs' = Restrict(runs, DOMAIN runs \ RunsOf(l))
    /\ requests' = [requests EXCEPT ![c] = Idle]
    /\ UNCHANGED <<made, pages>>

\* No foreign key on legs cascades: a card, superseded or not, and a run keep
\* the row (a lock needs a card).
DeleteRow(c) ==
    /\ requests[c].op = "deleteRow"
    /\ LET l == requests[c].leg IN
       legs' = IF CardsOf(l) # {} \/ RunsOf(l) # {} THEN legs
               ELSE Restrict(legs, DOMAIN legs \ {l})
    /\ requests' = [requests EXCEPT ![c] = Idle]
    /\ UNCHANGED <<made, cards, runs, pages>>

------------------------------------------------------------------------------
(* import_option.  What comes of a page: a parsed option or a failure.     *)
Unpriced == [known |-> FALSE, currency |-> None, quote |-> "none"]

ExtractionFailed == [title |-> None, price |-> Unpriced]

\* _ImportedEmit: a currency if and only if there is a price.
ValidEmit(emit) == (emit.currency # None) <=> emit.priced

\* Seeded fault: a price stands without a quote of the page.
Extracted_TrustsThePrice(emit) ==
    IF emit = None \/ ~ValidEmit(emit) \/ emit.title = "blank" THEN ExtractionFailed
    ELSE [title |-> emit.title,
          price |-> IF emit.priced THEN [known |-> TRUE, currency |-> emit.currency,
                                         quote |-> emit.quote]
                    ELSE Unpriced]

\* parse_emit_imported_payload: a price nothing on the page is quoted for is
\* dropped, the option is not.  None: the answer has no call of the tool.
Extracted(emit) ==
    IF emit = None \/ ~ValidEmit(emit) \/ emit.title = "blank" THEN ExtractionFailed
    ELSE [title |-> emit.title,
          price |-> IF emit.priced /\ emit.quote \notin {"none", "blank"}
                    THEN [known |-> TRUE, currency |-> emit.currency, quote |-> emit.quote]
                    ELSE Unpriced]

ImportStart(c, l) ==
    /\ requests[c] = Idle
    /\ pages + Cardinality({d \in Clients : requests[d].op \in {"fetch", "keep"}}) < MaxImports
    /\ requests' = [requests EXCEPT ![c] = [op |-> "fetch", leg |-> l]]
    /\ UNCHANGED <<legs, made, cards, runs, pages>>

\* The page or the model fails (502), or something is extracted.
ImportFetched(c) ==
    /\ requests[c].op = "fetch"
    /\ \/ requests' = [requests EXCEPT ![c] = Idle]
       \/ \E emit \in Emits :
             requests' = [requests EXCEPT ![c] =
                            [op |-> "keep", leg |-> @.leg, parsed |-> Extracted(emit)]]
    /\ UNCHANGED <<legs, made, cards, runs, pages>>

\* Seeded fault: an unpriced card has no currency.
Card_WithoutCurrency(l, origin, run, price) ==
    [leg |-> l, origin |-> origin, run |-> run, priced |-> price.known,
     currency |-> price.currency, quote |-> price.quote, active |-> TRUE, held |-> FALSE]

\* _card_currency_for_imported.
Card(l, origin, run, price) ==
    [leg |-> l, origin |-> origin, run |-> run, priced |-> price.known,
     currency |-> IF price.known THEN price.currency ELSE HomeCurrency,
     quote |-> price.quote, active |-> TRUE, held |-> FALSE]

\* Seeded fault: cards have no foreign key on legs.
ImportPersist_LegUnchecked(c) ==
    /\ requests[c].op = "keep"
    /\ LET parsed == requests[c].parsed IN
       IF parsed = ExtractionFailed THEN UNCHANGED cards
       ELSE /\ Rows < MaxRows
            /\ cards' = Added(cards, Card(requests[c].leg, "url", None, parsed.price))
    /\ pages' = pages + 1
    /\ requests' = [requests EXCEPT ![c] = Idle]
    /\ UNCHANGED <<legs, made, runs>>

\* persist_imported_option: without the leg nothing is kept, unless the session
\* still has the row the guard loaded; then only what refers to it is refused.
ImportPersist(c) ==
    /\ requests[c].op = "keep"
    /\ LET l == requests[c].leg
           parsed == requests[c].parsed
           failed == parsed = ExtractionFailed
       IN \/ /\ l \notin DOMAIN legs
             /\ UNCHANGED <<cards, pages>>
          \/ /\ failed
             /\ pages' = pages + 1
             /\ UNCHANGED cards
          \/ /\ ~failed /\ l \in DOMAIN legs
             /\ Rows < MaxRows
             /\ cards' = Added(cards, Card(l, "url", None, parsed.price))
             /\ pages' = pages + 1
    /\ requests' = [requests EXCEPT ![c] = Idle]
    /\ UNCHANGED <<legs, made, runs>>

\* persist_manual_option; the form has a price and a currency or neither.
Manual(l) ==
    /\ Rows < MaxRows
    /\ \E price \in ManualPrices :
          /\ price.known <=> price.currency # None
          /\ cards' = Added(cards, Card(l, "manual", None, price))
    /\ UNCHANGED <<legs, made, runs, pages, requests>>

------------------------------------------------------------------------------
(* A research run, as far as legs and cards see it, and locks; in depth in *)
(* LegResearch and OptionLocks.                                            *)
StartRun(l) ==
    /\ Rows < MaxRows
    /\ runs' = Added(runs, [leg |-> l, over |-> FALSE])
    /\ UNCHANGED <<legs, made, cards, pages, requests>>

RunPersists(r) ==
    /\ ~runs[r].over
    /\ Rows < MaxRows
    /\ cards' = Added(cards, Card(runs[r].leg, "research", r,
                                  [known |-> TRUE, currency |-> HomeCurrency,
                                   quote |-> "none"]))
    /\ UNCHANGED <<legs, made, runs, pages, requests>>

\* What other runs found is superseded, unless a lock holds it.
RunCompletes(r) ==
    /\ ~runs[r].over
    /\ runs' = [runs EXCEPT ![r].over = TRUE]
    /\ cards' = [k \in DOMAIN cards |->
                  [cards[k] EXCEPT !.active =
                     @ /\ ~(/\ k \in CardsOf(runs[r].leg)
                            /\ cards[k].origin = "research" /\ cards[k].run # r
                            /\ ~cards[k].held)]]
    /\ UNCHANGED <<legs, made, pages, requests>>

RunFails(r) ==
    /\ ~runs[r].over
    /\ runs' = [runs EXCEPT ![r].over = TRUE]
    /\ UNCHANGED <<legs, made, cards, pages, requests>>

\* One type of researched option; imported options are a type of their own.
SameType(k, j) == (cards[k].origin = "research") = (cards[j].origin = "research")

Lock(k) ==
    /\ cards[k].priced /\ cards[k].currency = HomeCurrency
    /\ \A j \in CardsOf(cards[k].leg) : cards[j].held => ~SameType(k, j)
    /\ cards' = [cards EXCEPT ![k].held = TRUE]
    /\ UNCHANGED <<legs, made, runs, pages, requests>>

Unlock(k) ==
    /\ cards[k].held
    /\ cards' = [cards EXCEPT ![k].held = FALSE]
    /\ UNCHANGED <<legs, made, runs, pages, requests>>

Next ==
    \/ \E c \in Clients :
          \/ \E wanted \in Wanted : CreateRead(c, wanted)
          \/ CreateWrite(c)
          \/ \E l \in DOMAIN legs :
                \/ \E patch \in Patches : PatchRead(c, l, patch)
                \/ DeleteLocks(c, l)
                \/ ImportStart(c, l)
          \/ PatchWrite(c)
          \/ DeleteCards(c)
          \/ DeleteRow(c)
          \/ ImportFetched(c)
          \/ ImportPersist(c)
    \/ \E l \in DOMAIN legs : Manual(l) \/ StartRun(l)
    \/ \E r \in DOMAIN runs : RunPersists(r) \/ RunCompletes(r) \/ RunFails(r)
    \/ \E k \in DOMAIN cards : Lock(k) \/ Unlock(k)

Spec == Init /\ [][Next]_lvars

------------------------------------------------------------------------------
Origins == {"research", "url", "manual"}

\* The rows are of their types; a card has a currency even without a price, as
\* the column of models.py asks for one (db/models.py:298).
TypeOK ==
    /\ made \in 0 .. MaxLegs
    /\ DOMAIN legs \subseteq 1 .. made
    /\ \A l \in DOMAIN legs : legs[l].index \in Indexes
    /\ \A k \in DOMAIN cards :
          /\ cards[k].origin \in Origins /\ cards[k].currency # None
          /\ cards[k].leg \in 1 .. made
          /\ (cards[k].origin = "research") <=> (cards[k].run # None)
    /\ \A r \in DOMAIN runs : runs[r].leg \in 1 .. made

\* A trip has one leg at a position, however the requests that create legs
\* overlap: bulk_create_legs looks for taken positions and inserts later.
OneLegPerIndex ==
    \A l, m \in DOMAIN legs : legs[l].index = legs[m].index => l = m

\* A leg ends no sooner than it starts and its nights are those between its
\* dates, which budgets and hotel prices multiply by, although a PATCH may send
\* one date only and computes the nights from what it has read of the other.
DatesAgree ==
    \A l \in DOMAIN legs :
        legs[l].start <= legs[l].end /\ legs[l].nights = legs[l].end - legs[l].start

\* Nothing is left without its leg: not the option of an import that was
\* fetching its page when delete_leg asked for cards, nor one entered in between.
RowsHaveTheirLeg ==
    /\ \A k \in DOMAIN cards : cards[k].leg \in DOMAIN legs
    /\ \A r \in DOMAIN runs : runs[r].leg \in DOMAIN legs

\* A leg that goes was never researched and never had an option, although
\* delete_leg asks for active locks and surviving cards only.
DeletionTakesNothing ==
    [][\A l \in DOMAIN legs \ DOMAIN legs' : CardsOf(l) = {} /\ RunsOf(l) = {}]_lvars

\* The price of an imported page is one the page was quoted for, and only such
\* a price can be locked, whatever the model emitted.
PricesAreQuoted ==
    \A k \in DOMAIN cards :
        cards[k].origin = "url" =>
            /\ cards[k].priced => cards[k].quote = "literal"
            /\ cards[k].held => cards[k].quote = "literal"
==============================================================================
