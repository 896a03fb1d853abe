-------------------------- MODULE OptionPage_proofs --------------------------
(***************************************************************************)
(* Theorems about OptionPage, for any options, votes and number of clicks. *)
(***************************************************************************)
EXTENDS OptionPage, FiniteSetTheorems, TLAPS

CallFields == {"pc", "card", "next", "seen", "answer", "fresh", "lost", "previous",
               "doubted", "since"}

FetchFields == {"pc", "locked", "cards", "counts", "mine", "held", "steady", "risky"}

\* A summary that shows a reaction and counts it.
Agrees(summary, reaction) ==
    /\ summary.mine = reaction
    /\ reaction = "up" => summary.up >= 1
    /\ reaction = "down" => summary.down >= 1

\* The server has not carried the request out.
Early(call) == call.pc \in {"sent", "read", "refused"}

\* What a request has counted is still so, if no other has written since.
AnswerTrue(call, reaction) ==
    call.fresh =>
        /\ call.pc \in {"counted", "answered"}
        /\ call.answer = [up |-> Ups(call.card, reaction), down |-> Downs(reaction),
                          mine |-> IF call.pc = "counted" THEN None ELSE reaction]

WellFormed(call) ==
    /\ DOMAIN call = CallFields /\ call.card \in Cards
    /\ call.pc \in {"sent", "read", "written", "counted", "answered", "refused"}
    /\ call.lost => call.pc \in {"sent", "read"}

\* What is shown is stored.
ShownAgrees ==
    \A c \in DOMAIN list \ doubt : ~Awaited(c) => Agrees(list[c], stored[c].type)

\* What a request remembers is still true, but for what it knows to have been
\* under way since; and what it brings back is true while it is fresh.
CallsRemember ==
    \A n \in Calls : UnderWay(n) =>
        /\ DOMAIN calls[n].previous \subseteq Cards
        /\ \A m \in Calls \ {n} : calls[m] # NoCall => calls[m].card \in calls[n].since
        /\ \A d \in DOMAIN calls[n].previous \ (calls[n].doubted \cup calls[n].since) :
              (d # calls[n].card \/ Early(calls[n]))
                  => Agrees(calls[n].previous[d], stored[d].type)
        /\ AnswerTrue(calls[n], stored[calls[n].card].type)

\* What a fetch has read is still true, but for what was under way when it
\* began; and it misses nothing that was locked or active throughout.
FetchAgrees ==
    fetch # NoFetch =>
        /\ DOMAIN fetch = FetchFields
        /\ fetch.pc \in {"locks", "cards", "counts", "answered"}
        /\ fetch.locked \cup fetch.cards \subseteq Cards
        /\ \A m \in Calls : calls[m] # NoCall => calls[m].card \in fetch.risky
        /\ fetch.pc = "locks" => fetch.held \subseteq fetch.locked /\ fetch.steady \subseteq active
        /\ fetch.pc = "cards" => fetch.held \cup fetch.steady \subseteq fetch.cards
        /\ fetch.pc \in {"counts", "answered"} =>
              \A c \in fetch.cards \ fetch.risky :
                  fetch.counts[c] = [up |-> Ups(c, stored[c].type), down |-> Downs(stored[c].type)]
        /\ fetch.pc = "answered" =>
              \A c \in fetch.cards \ fetch.risky : fetch.mine[c] = stored[c].type

Shapes ==
    /\ DOMAIN stored = Cards
    /\ locked \subseteq Cards /\ active \subseteq Cards /\ DOMAIN list \subseteq Cards

CallsShaped ==
    /\ DOMAIN calls = Calls /\ clicks \in Nat
    /\ \A n \in Calls : calls[n] # NoCall => n <= clicks /\ WellFormed(calls[n])

PageInv == Shapes /\ CallsShaped /\ ShownAgrees /\ CallsRemember /\ FetchAgrees

-----------------------------------------------------------------------------
(* The sums *)

LEMMA SumsCountMine ==
    ASSUME NEW c, NEW mine
    PROVE  /\ mine = "up" => Ups(c, mine) >= 1
           /\ mine = "down" => Downs(mine) >= 1
<1>1. Cardinality({c} \cap VotedUp) \in Nat
    <2>1. IsFiniteSet({c})
        BY FS_Singleton
    <2>2. IsFiniteSet({c} \cap VotedUp)
        BY <2>1, FS_Subset
    <2> QED
        BY <2>2, FS_CardinalityType
<1> QED
    BY <1>1 DEF Ups, Downs

LEMMA SummaryAgrees == \A c, mine : Agrees(Summary(c, mine), mine)
BY SumsCountMine DEF Agrees, Summary

-----------------------------------------------------------------------------
(* The steps of the organizer and of the run *)

\* The fetch goes on with what it has read, and is judged by no more than before.
Narrowed ==
    /\ fetch = NoFetch => fetch' = NoFetch
    /\ fetch # NoFetch =>
          /\ DOMAIN fetch' = FetchFields /\ fetch'.pc = fetch.pc
          /\ fetch'.locked = fetch.locked /\ fetch'.cards = fetch.cards
          /\ fetch'.counts = fetch.counts /\ fetch'.mine = fetch.mine
          /\ fetch'.risky = fetch.risky
          /\ fetch'.held \subseteq fetch.held /\ fetch'.steady \subseteq fetch.steady
          /\ fetch.pc = "locks" => fetch'.steady \subseteq active'

\* What the page remembers does not depend on the fetch, nor on the locks.
LEMMA CallsStand ==
    ASSUME PageInv, UNCHANGED <<stored, list, calls, doubt, clicks>>
    PROVE  Cards' = Cards /\ Calls' = Calls /\ CallsShaped' /\ ShownAgrees' /\ CallsRemember'
<1>1. /\ Cards' = Cards /\ Calls' = Calls /\ NoCall' = NoCall
      /\ \A n \in Calls : UnderWay(n)' <=> UnderWay(n)
    BY DEF Cards, Calls, UnderWay, NoCall
<1>2. CallsShaped'
    BY <1>1 DEF PageInv, CallsShaped, WellFormed
<1>3. \A c : Awaited(c)' <=> Awaited(c)
    BY <1>1 DEF Awaited
<1>4. ShownAgrees'
    BY <1>1, <1>3 DEF PageInv, ShownAgrees, Agrees
<1>5. CallsRemember'
    BY <1>1 DEF PageInv, CallsRemember, Early, Agrees, AnswerTrue, Ups, Downs
<1> QED
    BY <1>1, <1>2, <1>4, <1>5

LEMMA OthersStep ==
    ASSUME PageInv, Narrowed, UNCHANGED <<stored, list, calls, doubt, clicks>>,
           active' \subseteq Cards, locked' \subseteq Cards
    PROVE  PageInv'
<1>1. Cards' = Cards /\ Calls' = Calls /\ CallsShaped' /\ ShownAgrees' /\ CallsRemember'
    BY CallsStand
<1>2. Shapes'
    BY <1>1 DEF PageInv, Shapes
<1>3. FetchAgrees'
    <2>1. CASE fetch = NoFetch
        BY <2>1 DEF FetchAgrees, Narrowed
    <2>2. CASE fetch # NoFetch
        BY <1>1, <2>2 DEF PageInv, FetchAgrees, Narrowed, Ups, Downs
    <2> QED
        BY <2>1, <2>2
<1> QED
    BY <1>1, <1>2, <1>3 DEF PageInv

LEMMA NoFetchIsNone == NoFetch.pc = "none"
BY DEF NoFetch

LEMMA ToggleStep ==
    ASSUME PageInv, NEW c \in Cards, ToggleLock(c)
    PROVE  PageInv'
<1>1. UNCHANGED <<stored, active, list, calls, doubt, clicks>>
    BY DEF ToggleLock
<1>2. locked' \subseteq Cards /\ active' \subseteq Cards
    BY DEF ToggleLock, PageInv, Shapes
<1>3. Narrowed
    <2>1. CASE fetch.pc = "locks"
        <3>1. fetch # NoFetch /\ DOMAIN fetch = FetchFields
            BY <2>1, NoFetchIsNone DEF PageInv, FetchAgrees
        <3>2. PICK locks : fetch' = [fetch EXCEPT !.held = fetch.held \cap locks]
            BY <2>1 DEF ToggleLock
        <3> QED
            BY <1>1, <3>1, <3>2 DEF Narrowed, FetchFields, PageInv, FetchAgrees
    <2>2. CASE fetch.pc # "locks"
        BY <1>1, <2>2 DEF ToggleLock, Narrowed, PageInv, FetchAgrees
    <2> QED
        BY <2>1, <2>2
<1> QED
    BY <1>1, <1>2, <1>3, OthersStep

LEMMA RunStep ==
    ASSUME PageInv, RunPersists \/ RunReadsLocks \/ RunCompletes
    PROVE  PageInv'
<1>1. CASE RunPersists \/ RunReadsLocks
    <2>1. UNCHANGED <<stored, locked, list, calls, doubt, clicks, fetch>>
        BY <1>1 DEF RunPersists, RunReadsLocks, page
    <2>2. active \subseteq active' /\ active' \subseteq Cards
        BY <1>1 DEF RunPersists, RunReadsLocks, PageInv, Shapes, Cards
    <2>3. Narrowed
        BY <2>1, <2>2 DEF Narrowed, PageInv, FetchAgrees
    <2> QED
        BY <2>1, <2>2, <2>3, OthersStep DEF PageInv, Shapes
<1>2. CASE RunCompletes
    <2>1. UNCHANGED <<stored, locked, list, calls, doubt, clicks>>
        BY <1>2 DEF RunCompletes
    <2>2. active' \subseteq active
        BY <1>2 DEF RunCompletes
    <2>3. Narrowed
        <3>1. CASE fetch.pc = "locks"
            <4>1. fetch # NoFetch /\ DOMAIN fetch = FetchFields
                BY <3>1, NoFetchIsNone DEF PageInv, FetchAgrees
            <4>2. PICK listed : /\ fetch' = [fetch EXCEPT !.steady = fetch.steady \cap listed]
                                /\ listed = active'
                BY <1>2, <3>1 DEF RunCompletes
            <4> QED
                BY <4>1, <4>2 DEF Narrowed, FetchFields, PageInv, FetchAgrees
        <3>2. CASE fetch.pc # "locks"
            BY <1>2, <3>2 DEF RunCompletes, Narrowed, PageInv, FetchAgrees
        <3> QED
            BY <3>1, <3>2
    <2> QED
        BY <2>1, <2>2, <2>3, OthersStep DEF PageInv, Shapes
<1> QED
    BY <1>1, <1>2

\* The rows of the page are mounted and unmounted; nothing rests on it.
LEMMA RemountStep == PageInv /\ Remount => PageInv'
<1> SUFFICES ASSUME PageInv, Remount PROVE PageInv'
    OBVIOUS
<1>1. UNCHANGED <<stored, active, locked, list, calls, doubt, clicks, fetch>>
    BY DEF Remount, server
<1>2. Narrowed
    BY <1>1 DEF Narrowed, PageInv, FetchAgrees
<1> QED
    BY <1>1, <1>2, OthersStep DEF PageInv, Shapes

-----------------------------------------------------------------------------
(* The steps of the fetch *)

\* The server stands still and no reaction begins or ends.
LEMMA FetchStep ==
    ASSUME PageInv, UNCHANGED <<server, list, calls, doubt, clicks>>, FetchAgrees'
    PROVE  PageInv'
<1>1. UNCHANGED <<stored, active, locked>>
    BY DEF server
<1>2. Cards' = Cards /\ CallsShaped' /\ ShownAgrees' /\ CallsRemember'
    BY <1>1, CallsStand
<1>3. Shapes'
    BY <1>1, <1>2 DEF PageInv, Shapes
<1> QED
    BY <1>2, <1>3 DEF PageInv

LEMMA ListStep ==
    ASSUME PageInv, ListLocks \/ ListCards \/ ListCounts \/ ListMine \/ ListFails
    PROVE  PageInv'
<1>1. UNCHANGED <<server, list, calls, doubt, clicks>>
    BY DEF ListLocks, ListCards, ListCounts, ListMine, ListFails
<1>2. UNCHANGED <<stored, active, locked>>
    BY <1>1 DEF server
<1>3. Cards' = Cards /\ Calls' = Calls /\ NoCall' = NoCall /\ NoFetch' = NoFetch
    BY DEF Cards, Calls, NoCall, NoFetch
<1>4. NoFetch.pc = "none"
    BY NoFetchIsNone
<1>5. CASE ListFails
    BY <1>1, <1>5, FetchStep DEF ListFails, FetchAgrees
<1>6. CASE ListLocks
    <2> DEFINE f == [pc |-> "locks", locked |-> locked, cards |-> {}, counts |-> <<>>,
                     mine |-> <<>>, held |-> locked, steady |-> active, risky |-> Busy]
    <2>1. fetch' = f
        BY <1>6 DEF ListLocks
    <2>2. /\ DOMAIN f = FetchFields /\ f.pc = "locks" /\ f.locked = locked /\ f.cards = {}
          /\ f.held = locked /\ f.steady = active /\ f.risky = Busy
        BY DEF FetchFields
    <2>3. \A m \in Calls : calls[m] # NoCall => calls[m].card \in Busy
        BY DEF Busy
    <2> HIDE DEF f
    <2>4. FetchAgrees'
        BY <1>1, <1>2, <1>3, <2>1, <2>2, <2>3 DEF FetchAgrees, PageInv, Shapes
    <2> QED
        BY <1>1, <2>4, FetchStep
<1>7. CASE ListCards
    <2>1. fetch.pc = "locks" /\ fetch # NoFetch /\ DOMAIN fetch = FetchFields
        BY <1>4, <1>7 DEF ListCards, PageInv, FetchAgrees
    <2>2. fetch' = [fetch EXCEPT !.pc = "cards", !.cards = active \cup fetch.locked]
        BY <1>7 DEF ListCards
    <2>3. /\ DOMAIN fetch' = FetchFields /\ fetch'.pc = "cards"
          /\ fetch'.cards = active \cup fetch.locked /\ fetch'.locked = fetch.locked
          /\ fetch'.held = fetch.held /\ fetch'.steady = fetch.steady
          /\ fetch'.risky = fetch.risky
        BY <2>1, <2>2 DEF FetchFields
    <2>4. FetchAgrees'
        BY <1>1, <1>2, <1>3, <2>1, <2>3 DEF FetchAgrees, PageInv, Shapes
    <2> QED
        BY <1>1, <2>4, FetchStep
<1>8. CASE ListCounts
    <2> DEFINE counts == [c \in fetch.cards |-> [up |-> Ups(c, stored[c].type),
                                                down |-> Downs(stored[c].type)]]
    <2>1. fetch.pc = "cards" /\ fetch # NoFetch /\ DOMAIN fetch = FetchFields
        BY <1>4, <1>8 DEF ListCounts, PageInv, FetchAgrees
    <2>2. fetch' = [fetch EXCEPT !.pc = "counts", !.locked = {}, !.held = {}, !.steady = {},
                      !.counts = counts]
        BY <1>8 DEF ListCounts
    <2>3. \A c \in fetch.cards :
             counts[c] = [up |-> Ups(c, stored[c].type), down |-> Downs(stored[c].type)]
        OBVIOUS
    <2> HIDE DEF counts
    <2>4. /\ DOMAIN fetch' = FetchFields /\ fetch'.pc = "counts" /\ fetch'.counts = counts
          /\ fetch'.cards = fetch.cards /\ fetch'.locked = {} /\ fetch'.risky = fetch.risky
        BY <2>1, <2>2 DEF FetchFields
    <2>5. FetchAgrees'
        BY <1>1, <1>2, <1>3, <2>1, <2>3, <2>4 DEF FetchAgrees, PageInv, Shapes, Ups, Downs
    <2> QED
        BY <1>1, <2>5, FetchStep
<1>9. CASE ListMine
    <2> DEFINE mine == [c \in fetch.cards |-> stored[c].type]
    <2>1. fetch.pc = "counts" /\ fetch # NoFetch /\ DOMAIN fetch = FetchFields
        BY <1>4, <1>9 DEF ListMine, PageInv, FetchAgrees
    <2>2. fetch' = [fetch EXCEPT !.pc = "answered", !.mine = mine]
        BY <1>9 DEF ListMine
    <2>3. \A c \in fetch.cards : mine[c] = stored[c].type
        OBVIOUS
    <2> HIDE DEF mine
    <2>4. /\ DOMAIN fetch' = FetchFields /\ fetch'.pc = "answered" /\ fetch'.mine = mine
          /\ fetch'.cards = fetch.cards /\ fetch'.locked = fetch.locked
          /\ fetch'.risky = fetch.risky /\ fetch'.counts = fetch.counts
        BY <2>1, <2>2 DEF FetchFields
    <2>5. FetchAgrees'
        BY <1>1, <1>2, <1>3, <2>1, <2>3, <2>4 DEF FetchAgrees, PageInv, Shapes, Ups, Downs
    <2> QED
        BY <1>1, <2>5, FetchStep
<1> QED
    BY <1>5, <1>6, <1>7, <1>8, <1>9

\* Of the options that were not at risk, the answer shows what is stored.
LEMMA LandStep == PageInv /\ ListLands => PageInv'
<1> SUFFICES ASSUME PageInv, ListLands PROVE PageInv'
    OBVIOUS
<1> DEFINE landed == [c \in fetch.cards |->
                        [up |-> fetch.counts[c].up, down |-> fetch.counts[c].down,
                         mine |-> fetch.mine[c]]]
<1>1. /\ fetch.pc = "answered" /\ list' = landed /\ doubt' = fetch.risky
      /\ fetch' = NoFetch /\ UNCHANGED <<stored, active, locked, calls, clicks>>
    BY DEF ListLands, server
<1>2. fetch # NoFetch /\ fetch.cards \subseteq Cards
    BY <1>1, NoFetchIsNone DEF PageInv, FetchAgrees
<1>3. /\ Cards' = Cards /\ Calls' = Calls
      /\ \A n \in Calls : UnderWay(n)' <=> UnderWay(n)
    BY <1>1 DEF Cards, Calls, UnderWay, NoCall
<1>4. ASSUME NEW c \in fetch.cards \ fetch.risky
      PROVE  Agrees(landed[c], stored[c].type)
    <2>1. /\ fetch.counts[c] = [up |-> Ups(c, stored[c].type), down |-> Downs(stored[c].type)]
          /\ fetch.mine[c] = stored[c].type
        BY <1>1, <1>2 DEF PageInv, FetchAgrees
    <2>2. landed[c].up = Ups(c, stored[c].type) /\ landed[c].down = Downs(stored[c].type)
          /\ landed[c].mine = stored[c].type
        BY <2>1
    <2> QED
        BY <2>2, SumsCountMine DEF Agrees
<1>5. DOMAIN landed = fetch.cards
    OBVIOUS
<1> HIDE DEF landed
<1>6. Shapes'
    BY <1>1, <1>2, <1>3, <1>5 DEF PageInv, Shapes
<1>7. ShownAgrees'
    BY <1>1, <1>4, <1>5 DEF ShownAgrees, Agrees
<1>8. CallsRemember'
    BY <1>1, <1>3 DEF PageInv, CallsRemember, Early, Agrees, AnswerTrue, Ups, Downs, NoCall
<1>9. CallsShaped'
    BY <1>1, <1>3 DEF PageInv, CallsShaped, WellFormed, NoCall
<1>10. FetchAgrees'
    BY <1>1 DEF FetchAgrees
<1> QED
    BY <1>6, <1>7, <1>8, <1>9, <1>10 DEF PageInv

-----------------------------------------------------------------------------
(* The steps of a reaction that write nothing *)

\* A request goes on, or is over; it remembers what it did.
Onward(m) ==
    /\ calls'[m] # NoCall =>
          calls[m] # NoCall /\ WellFormed(calls'[m]) /\ calls'[m].card = calls[m].card
    /\ UnderWay(m)' =>
          /\ UnderWay(m)
          /\ calls'[m].previous = calls[m].previous
          /\ calls'[m].doubted = calls[m].doubted /\ calls'[m].since = calls[m].since
          /\ Early(calls'[m]) => Early(calls[m])
          /\ AnswerTrue(calls'[m], stored[calls[m].card].type)

LEMMA CallsOnward ==
    ASSUME PageInv, UNCHANGED <<server, clicks, fetch>>,
           DOMAIN calls' = Calls, \A m \in Calls : Onward(m)
    PROVE  /\ Cards' = Cards /\ UNCHANGED <<stored, active, locked>>
           /\ CallsShaped' /\ CallsRemember' /\ FetchAgrees'
<1>1. UNCHANGED <<stored, active, locked>> /\ Cards' = Cards /\ Calls' = Calls
    BY DEF server, Cards, Calls
<1>2. CallsShaped'
    BY <1>1 DEF PageInv, CallsShaped, Onward, NoCall, WellFormed
<1>3. CallsRemember'
    <2>1. ASSUME NEW n \in Calls, UnderWay(n)'
          PROVE  /\ DOMAIN calls'[n].previous \subseteq Cards
                 /\ \A m \in Calls \ {n} : calls'[m] # NoCall => calls'[m].card \in calls'[n].since
                 /\ \A d \in DOMAIN calls'[n].previous \ (calls'[n].doubted \cup calls'[n].since) :
                       (d # calls'[n].card \/ Early(calls'[n]))
                           => Agrees(calls'[n].previous[d], stored[d].type)
                 /\ AnswerTrue(calls'[n], stored[calls'[n].card].type)
        <3>1. /\ UnderWay(n) /\ calls'[n].card = calls[n].card
              /\ calls'[n].previous = calls[n].previous
              /\ calls'[n].doubted = calls[n].doubted /\ calls'[n].since = calls[n].since
              /\ Early(calls'[n]) => Early(calls[n])
              /\ AnswerTrue(calls'[n], stored[calls[n].card].type)
            BY <2>1 DEF Onward, UnderWay, NoCall
        <3>2. ASSUME NEW m \in Calls \ {n}, calls'[m] # NoCall
              PROVE  calls'[m].card \in calls'[n].since
            BY <3>1, <3>2 DEF Onward, PageInv, CallsRemember
        <3> QED
            BY <3>1, <3>2 DEF PageInv, CallsRemember
    <2> QED
        BY <1>1, <2>1 DEF CallsRemember, Early, Agrees, AnswerTrue, Ups, Downs, NoCall
<1>4. FetchAgrees'
    <2>1. \A m \in Calls : calls'[m] # NoCall =>
             calls[m] # NoCall /\ calls'[m].card = calls[m].card
        BY DEF Onward
    <2> QED
        BY <1>1, <2>1 DEF PageInv, FetchAgrees, Ups, Downs, NoCall, NoFetch
<1> QED
    BY <1>1, <1>2, <1>3, <1>4

\* A request the step is not about.
LEMMA OnwardSame ==
    ASSUME PageInv, NEW m \in Calls, calls'[m] = calls[m]
    PROVE  Onward(m) /\ (UnderWay(m)' <=> UnderWay(m))
<1>1. UnderWay(m)' <=> UnderWay(m)
    BY DEF UnderWay, NoCall
<1>2. calls[m] # NoCall => WellFormed(calls[m])
    BY DEF PageInv, CallsShaped
<1>3. UnderWay(m) => AnswerTrue(calls[m], stored[calls[m].card].type)
    BY DEF PageInv, CallsRemember
<1> QED
    BY <1>1, <1>2, <1>3 DEF Onward

\* The requests read and answer; the page does not notice.
LEMMA AsideStep ==
    ASSUME PageInv, NEW n \in Calls,
           UNCHANGED <<server, list, doubt, clicks, fetch>>, DOMAIN calls' = Calls,
           \A m \in Calls \ {n} : calls'[m] = calls[m],
           Onward(n), UnderWay(n) => UnderWay(n)'
    PROVE  PageInv'
<1>1. \A m \in Calls : Onward(m) /\ (UnderWay(m)' <=> UnderWay(m))
    <2>1. UnderWay(n)' <=> UnderWay(n)
        BY DEF Onward
    <2> QED
        BY <2>1, OnwardSame
<1>2. /\ Cards' = Cards /\ UNCHANGED <<stored, active, locked>>
      /\ CallsShaped' /\ CallsRemember' /\ FetchAgrees'
    BY <1>1, CallsOnward
<1>3. \A c : Awaited(c)' <=> Awaited(c)
    <2>1. \A m \in Calls : UnderWay(m)' => calls'[m].card = calls[m].card
        BY <1>1 DEF Onward, UnderWay, NoCall
    <2>2. Calls' = Calls
        BY DEF Calls
    <2> QED
        BY <1>1, <2>1, <2>2 DEF Awaited
<1>4. ShownAgrees'
    BY <1>2, <1>3 DEF PageInv, ShownAgrees, Agrees
<1>5. Shapes'
    BY <1>2 DEF PageInv, Shapes
<1> QED
    BY <1>2, <1>4, <1>5 DEF PageInv

\* A request somewhere on its way is one of the requests.
LEMMA CallHere ==
    ASSUME PageInv, NEW n \in Calls,
           calls[n].pc \in {"sent", "read", "written", "counted", "answered", "refused"}
    PROVE  /\ calls[n] # NoCall /\ WellFormed(calls[n])
           /\ DOMAIN calls = Calls /\ DOMAIN calls[n] = CallFields /\ calls[n].card \in Cards
<1>1. calls[n] # NoCall
    BY DEF NoCall
<1> QED
    BY <1>1 DEF PageInv, CallsShaped, WellFormed

LEMMA ReadsStep ==
    ASSUME PageInv, NEW n \in Calls, ServerReads(n)
    PROVE  PageInv'
<1> DEFINE row == stored[calls[n].card]
           new == [calls[n] EXCEPT !.pc = "read", !.seen = row]
<1>1. /\ calls[n].pc = "sent" /\ calls' = [calls EXCEPT ![n] = new]
      /\ UNCHANGED <<server, list, doubt, clicks, fetch>>
    BY DEF ServerReads
<1>2. /\ calls[n] # NoCall /\ WellFormed(calls[n])
      /\ DOMAIN calls = Calls /\ DOMAIN calls[n] = CallFields
    BY <1>1, CallHere
<1>3. /\ DOMAIN new = CallFields /\ new.pc = "read" /\ new.card = calls[n].card
      /\ new.fresh = calls[n].fresh /\ new.lost = calls[n].lost
      /\ new.previous = calls[n].previous /\ new.doubted = calls[n].doubted
      /\ new.since = calls[n].since
    BY <1>2 DEF CallFields
<1> HIDE DEF new, row
<1>4. /\ DOMAIN calls' = Calls /\ calls'[n] = new
      /\ \A m \in Calls \ {n} : calls'[m] = calls[m]
    BY <1>1, <1>2
<1>5. WellFormed(new) /\ new # NoCall
    BY <1>2, <1>3 DEF WellFormed, NoCall
<1>6. UnderWay(n)' <=> UnderWay(n)
    BY <1>2, <1>3, <1>4, <1>5 DEF UnderWay, NoCall
<1>7. UnderWay(n) => ~calls[n].fresh
    BY <1>1 DEF PageInv, CallsRemember, AnswerTrue
<1>8. Onward(n)
    BY <1>1, <1>2, <1>3, <1>4, <1>5, <1>6, <1>7 DEF Onward, Early, AnswerTrue
<1> QED
    BY <1>1, <1>4, <1>6, <1>8, AsideStep

LEMMA CountsStep ==
    ASSUME PageInv, NEW n \in Calls, ServerCounts(n)
    PROVE  PageInv'
<1> DEFINE c == calls[n].card
           answer == [up |-> Ups(c, stored[c].type), down |-> Downs(stored[c].type),
                      mine |-> None]
           new == [calls[n] EXCEPT !.pc = "counted", !.fresh = TRUE, !.answer = answer]
<1>1. /\ calls[n].pc = "written" /\ UNCHANGED <<server, list, doubt, clicks, fetch>>
      /\ calls' = [calls EXCEPT ![n] = new]
    BY DEF ServerCounts
<1>2. /\ calls[n] # NoCall /\ WellFormed(calls[n])
      /\ DOMAIN calls = Calls /\ DOMAIN calls[n] = CallFields
    BY <1>1, CallHere
<1>3. /\ DOMAIN new = CallFields /\ new.pc = "counted" /\ new.card = c
      /\ new.answer = answer /\ new.lost = calls[n].lost
      /\ new.previous = calls[n].previous /\ new.doubted = calls[n].doubted
      /\ new.since = calls[n].since
    BY <1>2 DEF CallFields
<1>4. AnswerTrue(new, stored[c].type)
    BY <1>3 DEF AnswerTrue
<1> HIDE DEF new, answer
<1>5. /\ DOMAIN calls' = Calls /\ calls'[n] = new
      /\ \A m \in Calls \ {n} : calls'[m] = calls[m]
    BY <1>1, <1>2
<1>6. WellFormed(new) /\ new # NoCall
    BY <1>1, <1>2, <1>3 DEF WellFormed, NoCall
<1>7. UnderWay(n)' <=> UnderWay(n)
    BY <1>2, <1>3, <1>5, <1>6 DEF UnderWay, NoCall
<1>8. Onward(n)
    BY <1>2, <1>3, <1>4, <1>5, <1>6, <1>7 DEF Onward, Early
<1> QED
    BY <1>1, <1>5, <1>7, <1>8, AsideStep

LEMMA AnswersStep ==
    ASSUME PageInv, NEW n \in Calls, ServerAnswers(n)
    PROVE  PageInv'
<1> DEFINE c == calls[n].card
           answer == [calls[n].answer EXCEPT !.mine = stored[c].type]
           new == [calls[n] EXCEPT !.pc = "answered", !.answer = answer]
<1>1. /\ calls[n].pc = "counted" /\ UNCHANGED <<server, list, doubt, clicks, fetch>>
      /\ calls' = [calls EXCEPT ![n] = new]
    BY DEF ServerAnswers
<1>2. /\ calls[n] # NoCall /\ WellFormed(calls[n])
      /\ DOMAIN calls = Calls /\ DOMAIN calls[n] = CallFields
    BY <1>1, CallHere
<1>3. /\ DOMAIN new = CallFields /\ new.pc = "answered" /\ new.card = c
      /\ new.answer = answer /\ new.lost = calls[n].lost /\ new.fresh = calls[n].fresh
      /\ new.previous = calls[n].previous /\ new.doubted = calls[n].doubted
      /\ new.since = calls[n].since
    BY <1>2 DEF CallFields
<1>4. ASSUME UnderWay(n) PROVE AnswerTrue(new, stored[c].type)
    <2>1. AnswerTrue(calls[n], stored[c].type)
        BY <1>4 DEF PageInv, CallsRemember
    <2>2. calls[n].fresh => calls[n].answer = [up |-> Ups(c, stored[c].type),
                                              down |-> Downs(stored[c].type), mine |-> None]
        BY <1>1, <2>1 DEF AnswerTrue
    <2>3. calls[n].fresh => answer = [up |-> Ups(c, stored[c].type),
                                     down |-> Downs(stored[c].type), mine |-> stored[c].type]
        BY <2>2
    <2> HIDE DEF new, answer
    <2> QED
        BY <1>3, <2>3 DEF AnswerTrue
<1> HIDE DEF new, answer
<1>5. /\ DOMAIN calls' = Calls /\ calls'[n] = new
      /\ \A m \in Calls \ {n} : calls'[m] = calls[m]
    BY <1>1, <1>2
<1>6. WellFormed(new) /\ new # NoCall
    BY <1>1, <1>2, <1>3 DEF WellFormed, NoCall
<1>7. UnderWay(n)' <=> UnderWay(n)
    BY <1>2, <1>3, <1>5, <1>6 DEF UnderWay, NoCall
<1>8. Onward(n)
    BY <1>2, <1>3, <1>4, <1>5, <1>6, <1>7 DEF Onward, Early
<1> QED
    BY <1>1, <1>5, <1>7, <1>8, AsideStep

LEMMA RefusesStep ==
    ASSUME PageInv, NEW n \in Calls, ServerRefuses(n)
    PROVE  PageInv'
<1>1. /\ calls[n].pc = "read" /\ UNCHANGED <<server, list, doubt, clicks, fetch>>
    BY DEF ServerRefuses
<1>2. /\ calls[n] # NoCall /\ WellFormed(calls[n])
      /\ DOMAIN calls = Calls /\ DOMAIN calls[n] = CallFields
    BY <1>1, CallHere
<1>3. CASE calls[n].lost
    <2>1. calls' = [calls EXCEPT ![n] = NoCall]
        BY <1>3 DEF ServerRefuses
    <2>2. /\ DOMAIN calls' = Calls /\ calls'[n] = NoCall
          /\ \A m \in Calls \ {n} : calls'[m] = calls[m]
        BY <1>2, <2>1
    <2>3. ~UnderWay(n)' /\ ~UnderWay(n)
        BY <1>3, <2>2 DEF UnderWay, NoCall
    <2>4. Onward(n)
        BY <2>2, <2>3 DEF Onward
    <2> QED
        BY <1>1, <2>2, <2>3, <2>4, AsideStep
<1>4. CASE ~calls[n].lost
    <2> DEFINE new == [calls[n] EXCEPT !.pc = "refused"]
    <2>1. calls' = [calls EXCEPT ![n] = new]
        BY <1>4 DEF ServerRefuses
    <2>2. /\ DOMAIN new = CallFields /\ new.pc = "refused" /\ new.card = calls[n].card
          /\ new.fresh = calls[n].fresh /\ new.lost = calls[n].lost
          /\ new.previous = calls[n].previous /\ new.doubted = calls[n].doubted
          /\ new.since = calls[n].since
        BY <1>2 DEF CallFields
    <2> HIDE DEF new
    <2>3. /\ DOMAIN calls' = Calls /\ calls'[n] = new
          /\ \A m \in Calls \ {n} : calls'[m] = calls[m]
        BY <1>2, <2>1
    <2>4. WellFormed(new) /\ new # NoCall
        BY <1>2, <1>4, <2>2 DEF WellFormed, NoCall
    <2>5. UnderWay(n)' /\ UnderWay(n)
        BY <1>2, <1>4, <2>2, <2>3, <2>4 DEF UnderWay, NoCall
    <2>6. ~calls[n].fresh
        BY <1>1, <2>5 DEF PageInv, CallsRemember, AnswerTrue
    <2>7. Onward(n)
        BY <1>1, <1>2, <2>2, <2>3, <2>4, <2>5, <2>6 DEF Onward, Early, AnswerTrue
    <2> QED
        BY <1>1, <2>3, <2>5, <2>7, AsideStep
<1> QED
    BY <1>3, <1>4

-----------------------------------------------------------------------------
(* A reaction is written *)

\* The write changes the row another request may have counted.
Touched(n, m) ==
    /\ UnderWay(m) /\ calls[m].card = calls[n].card
    /\ RowAfter(n) # stored[calls[n].card]

\* The other requests remember what they did; what they have counted of this
\* option is not fresh.
LEMMA WriteOthers ==
    ASSUME PageInv, NEW n \in Calls, ServerWrites(n), NEW m \in Calls \ {n}
    PROVE  /\ calls'[m] # NoCall <=> calls[m] # NoCall
           /\ UnderWay(m)' <=> UnderWay(m)
           /\ calls[m] # NoCall =>
                 /\ WellFormed(calls'[m])
                 /\ calls'[m].card = calls[m].card /\ calls'[m].pc = calls[m].pc
                 /\ calls'[m].previous = calls[m].previous
                 /\ calls'[m].doubted = calls[m].doubted /\ calls'[m].since = calls[m].since
           /\ ~Touched(n, m) => calls'[m] = calls[m]
           /\ Touched(n, m) => ~calls'[m].fresh
<1>1. calls'[m] = IF Touched(n, m)
                  THEN [calls[m] EXCEPT !.fresh = FALSE] ELSE calls[m]
    BY DEF ServerWrites, Touched
<1>2. calls[m] # NoCall => WellFormed(calls[m])
    BY DEF PageInv, CallsShaped
<1>3. CASE Touched(n, m)
    <2> DEFINE new == [calls[m] EXCEPT !.fresh = FALSE]
    <2>1. calls'[m] = new
        BY <1>1, <1>3
    <2>2. calls[m] # NoCall /\ DOMAIN calls[m] = CallFields
        BY <1>2, <1>3 DEF Touched, UnderWay, WellFormed
    <2>3. /\ DOMAIN new = CallFields /\ new.card = calls[m].card /\ new.pc = calls[m].pc
          /\ new.previous = calls[m].previous /\ new.doubted = calls[m].doubted
          /\ new.since = calls[m].since /\ new.lost = calls[m].lost /\ ~new.fresh
        BY <2>2 DEF CallFields
    <2> HIDE DEF new
    <2>4. WellFormed(new) /\ new # NoCall
        BY <1>2, <2>2, <2>3 DEF WellFormed, NoCall
    <2>5. UnderWay(m)'
        BY <1>3, <2>1, <2>3, <2>4 DEF Touched, UnderWay, NoCall
    <2> QED
        BY <1>3, <2>1, <2>2, <2>3, <2>4, <2>5 DEF Touched
<1>4. CASE ~Touched(n, m)
    <2>1. calls'[m] = calls[m]
        BY <1>1, <1>4
    <2>2. UnderWay(m)' <=> UnderWay(m)
        BY <2>1 DEF UnderWay, NoCall
    <2> QED
        BY <1>2, <1>4, <2>1, <2>2
<1> QED
    BY <1>3, <1>4

\* Only the option reacted to changes on the server, and nothing vouches for it.
LEMMA WritesStep ==
    ASSUME PageInv, NEW n \in Calls, ServerWrites(n)
    PROVE  PageInv'
<1> DEFINE c == calls[n].card
           new == [calls[n] EXCEPT !.pc = "written"]
<1>1. /\ calls[n].pc = "read" /\ stored' = [stored EXCEPT ![c] = RowAfter(n)]
      /\ calls'[n] = IF calls[n].lost THEN NoCall ELSE new
      /\ doubt' = IF calls[n].lost /\ RowAfter(n) # stored[c] THEN doubt \cup {c} ELSE doubt
      /\ DOMAIN calls' = Calls
      /\ UNCHANGED <<active, locked, list, fetch, clicks>>
    BY DEF ServerWrites
<1>2. /\ calls[n] # NoCall /\ WellFormed(calls[n])
      /\ DOMAIN calls[n] = CallFields /\ c \in Cards
    BY <1>1, CallHere
<1>3. /\ DOMAIN new = CallFields /\ new.pc = "written" /\ new.card = c
      /\ new.fresh = calls[n].fresh /\ new.lost = calls[n].lost
      /\ new.previous = calls[n].previous /\ new.doubted = calls[n].doubted
      /\ new.since = calls[n].since
    BY <1>2 DEF CallFields
<1> HIDE DEF new
<1>4. /\ DOMAIN stored' = Cards /\ stored'[c] = RowAfter(n)
      /\ \A d \in Cards \ {c} : stored'[d] = stored[d]
    BY <1>1, <1>2 DEF PageInv, Shapes
<1>5. Cards' = Cards /\ Calls' = Calls /\ NoCall' = NoCall
    BY DEF Cards, Calls, NoCall
<1>6. calls[n].lost => calls'[n] = NoCall /\ ~UnderWay(n)'
    BY <1>1, <1>5 DEF UnderWay, NoCall
<1>7. ~calls[n].lost =>
         calls'[n] = new /\ WellFormed(new) /\ new # NoCall /\ UnderWay(n) /\ UnderWay(n)'
    BY <1>1, <1>2, <1>3, <1>5 DEF WellFormed, UnderWay, NoCall
<1>8. \A m \in Calls : calls'[m] # NoCall => calls[m] # NoCall /\ calls'[m].card = calls[m].card
    <2>1. \A m \in Calls \ {n} :
             calls'[m] # NoCall => calls[m] # NoCall /\ calls'[m].card = calls[m].card
        BY WriteOthers
    <2> QED
        BY <1>2, <1>3, <1>6, <1>7, <2>1
<1>9. Shapes'
    BY <1>1, <1>4, <1>5 DEF PageInv, Shapes
<1>10. CallsShaped'
    <2>1. \A m \in Calls \ {n} : calls'[m] # NoCall => WellFormed(calls'[m])
        BY WriteOthers
    <2>2. \A m \in Calls : calls'[m] # NoCall => m <= clicks /\ WellFormed(calls'[m])
        BY <1>6, <1>7, <1>8, <2>1 DEF PageInv, CallsShaped
    <2> QED
        BY <1>1, <1>5, <2>2 DEF PageInv, CallsShaped, WellFormed
<1>11. ShownAgrees'
    <2> SUFFICES ASSUME NEW d \in DOMAIN list \ doubt', ~Awaited(d)'
                 PROVE  Agrees(list[d], stored'[d].type)
        BY <1>1 DEF ShownAgrees, Agrees
    <2>1. d # c \/ (calls[n].lost /\ RowAfter(n) = stored[c])
        <3>1. CASE calls[n].lost
            BY <1>1, <3>1
        <3>2. CASE ~calls[n].lost
            BY <1>3, <1>5, <1>7, <3>2 DEF Awaited
        <3> QED
            BY <3>1, <3>2
    <2>2. ~Awaited(d)
        <3> SUFFICES ASSUME NEW m \in Calls, UnderWay(m), calls[m].card = d PROVE FALSE
            BY DEF Awaited
        <3>1. m # n
            BY <2>1 DEF UnderWay
        <3>2. UnderWay(m)' /\ calls'[m].card = d
            BY <3>1, WriteOthers DEF UnderWay
        <3> QED
            BY <1>5, <3>2 DEF Awaited
    <2>3. d \in DOMAIN list \ doubt /\ stored'[d] = stored[d]
        BY <1>1, <1>4, <2>1 DEF PageInv, Shapes
    <2> QED
        BY <2>2, <2>3 DEF PageInv, ShownAgrees
<1>12. CallsRemember'
    <2>1. ASSUME NEW m \in Calls, UnderWay(m)'
          PROVE  /\ DOMAIN calls'[m].previous \subseteq Cards
                 /\ \A k \in Calls \ {m} : calls'[k] # NoCall => calls'[k].card \in calls'[m].since
                 /\ \A d \in DOMAIN calls'[m].previous \ (calls'[m].doubted \cup calls'[m].since) :
                       (d # calls'[m].card \/ Early(calls'[m]))
                           => Agrees(calls'[m].previous[d], stored'[d].type)
                 /\ AnswerTrue(calls'[m], stored'[calls'[m].card].type)
        <3>1. UnderWay(m) /\ (m = n => ~calls[n].lost /\ calls'[n] = new)
            BY <1>6, <1>7, <2>1, WriteOthers
        <3>2. calls[m] # NoCall /\ calls[m].card \in Cards
            BY <3>1 DEF UnderWay, PageInv, CallsShaped, WellFormed
        <3>3. /\ calls'[m].card = calls[m].card /\ calls'[m].previous = calls[m].previous
              /\ calls'[m].doubted = calls[m].doubted /\ calls'[m].since = calls[m].since
              /\ m # n => calls'[m].pc = calls[m].pc
            BY <1>3, <3>1, <3>2, WriteOthers
        <3>4. /\ DOMAIN calls[m].previous \subseteq Cards
              /\ \A k \in Calls \ {m} : calls[k] # NoCall => calls[k].card \in calls[m].since
              /\ \A d \in DOMAIN calls[m].previous \ (calls[m].doubted \cup calls[m].since) :
                    (d # calls[m].card \/ Early(calls[m]))
                        => Agrees(calls[m].previous[d], stored[d].type)
              /\ AnswerTrue(calls[m], stored[calls[m].card].type)
            BY <3>1 DEF PageInv, CallsRemember
        <3>5. ASSUME NEW d \in DOMAIN calls[m].previous \ (calls[m].doubted \cup calls[m].since),
                     d # calls[m].card \/ Early(calls'[m])
              PROVE  Agrees(calls[m].previous[d], stored'[d].type)
            <4>1. CASE m = n
                <5>1. d # c
                    BY <1>3, <3>1, <3>5, <4>1 DEF Early
                <5> QED
                    BY <1>4, <3>4, <3>5, <4>1, <5>1
            <4>2. CASE m # n
                <5>1. c \in calls[m].since
                    BY <1>2, <3>4, <4>2
                <5>2. stored'[d] = stored[d]
                    BY <1>4, <3>4, <3>5, <5>1
                <5>3. d # calls[m].card \/ Early(calls[m])
                    BY <3>3, <3>5, <4>2 DEF Early
                <5> QED
                    BY <3>4, <3>5, <5>2, <5>3
            <4> QED
                BY <4>1, <4>2
        <3>6. AnswerTrue(calls'[m], stored'[calls[m].card].type)
            <4>1. CASE m = n
                BY <1>1, <1>3, <3>1, <3>4, <4>1 DEF AnswerTrue
            <4>2. CASE m # n /\ Touched(n, m)
                BY <3>1, <4>2, WriteOthers DEF AnswerTrue
            <4>3. CASE m # n /\ ~Touched(n, m)
                <5>1. calls'[m] = calls[m] /\ stored'[calls[m].card] = stored[calls[m].card]
                    BY <1>4, <3>1, <3>2, <4>3, WriteOthers DEF Touched
                <5> QED
                    BY <3>4, <5>1
            <4> QED
                BY <4>1, <4>2, <4>3
        <3>7. \A k \in Calls \ {m} : calls'[k] # NoCall => calls'[k].card \in calls[m].since
            BY <1>8, <3>4
        <3> QED
            BY <3>3, <3>4, <3>5, <3>6, <3>7
    <2> QED
        BY <1>5, <2>1 DEF CallsRemember, Early, Agrees, AnswerTrue, Ups, Downs
<1>13. FetchAgrees'
    <2>1. fetch # NoFetch => c \in fetch.risky /\ fetch.cards \subseteq Cards
        BY <1>2 DEF PageInv, FetchAgrees
    <2>2. fetch # NoFetch => \A m \in Calls : calls'[m] # NoCall => calls'[m].card \in fetch.risky
        BY <1>8 DEF PageInv, FetchAgrees
    <2> QED
        BY <1>1, <1>4, <1>5, <2>1, <2>2 DEF PageInv, FetchAgrees, Ups, Downs, NoFetch
<1> QED
    BY <1>9, <1>10, <1>11, <1>12, <1>13 DEF PageInv

-----------------------------------------------------------------------------
(* A reaction is over for the page *)

LEMMA SucceedsStep ==
    ASSUME PageInv, NEW n \in Calls, ClickSucceeds(n)
    PROVE  PageInv'
<1> DEFINE c == calls[n].card
<1>1. /\ calls[n].pc = "answered" /\ calls' = [calls EXCEPT ![n] = NoCall]
      /\ list' = Patched(list, c, calls[n].answer)
      /\ doubt' = IF calls[n].fresh THEN doubt \ {c} ELSE doubt \cup {c}
      /\ UNCHANGED <<server, fetch, clicks>>
    BY DEF ClickSucceeds
<1>2. /\ calls[n] # NoCall /\ WellFormed(calls[n]) /\ DOMAIN calls = Calls
    BY <1>1, CallHere
<1>3. UnderWay(n)
    BY <1>1, <1>2 DEF UnderWay, WellFormed
<1>4. /\ DOMAIN calls' = Calls /\ calls'[n] = NoCall
      /\ \A m \in Calls \ {n} : calls'[m] = calls[m]
    BY <1>1, <1>2
<1>5. Onward(n)
    BY <1>4 DEF Onward, UnderWay, NoCall
<1>6. \A m \in Calls : Onward(m)
    BY <1>4, <1>5, OnwardSame
<1>7. /\ Cards' = Cards /\ UNCHANGED <<stored, active, locked>>
      /\ CallsShaped' /\ CallsRemember' /\ FetchAgrees'
    BY <1>1, <1>4, <1>6, CallsOnward
<1>8. /\ DOMAIN list' = DOMAIN list
      /\ c \in DOMAIN list => list'[c] = calls[n].answer
      /\ \A d \in DOMAIN list \ {c} : list'[d] = list[d]
    BY <1>1 DEF Patched
<1>9. calls[n].fresh => Agrees(calls[n].answer, stored[c].type)
    <2> SUFFICES ASSUME calls[n].fresh PROVE Agrees(calls[n].answer, stored[c].type)
        OBVIOUS
    <2>1. AnswerTrue(calls[n], stored[c].type)
        BY <1>3 DEF PageInv, CallsRemember
    <2>2. calls[n].answer = Summary(c, stored[c].type)
        BY <1>1, <2>1 DEF AnswerTrue, Summary
    <2> QED
        BY <2>2, SummaryAgrees
<1>10. Shapes'
    BY <1>7, <1>8 DEF PageInv, Shapes
<1>11. ShownAgrees'
    <2> SUFFICES ASSUME NEW d \in DOMAIN list' \ doubt', ~Awaited(d)'
                 PROVE  Agrees(list'[d], stored[d].type)
        BY <1>7 DEF ShownAgrees, Agrees
    <2>1. CASE d = c
        BY <1>1, <1>8, <1>9, <2>1
    <2>2. CASE d # c
        <3>1. ~Awaited(d)
            <4> SUFFICES ASSUME NEW m \in Calls, UnderWay(m), calls[m].card = d PROVE FALSE
                BY DEF Awaited
            <4>1. calls'[m] = calls[m] /\ Calls' = Calls
                BY <1>4, <2>2 DEF Calls
            <4>2. UnderWay(m)'
                BY <4>1 DEF UnderWay, NoCall
            <4> QED
                BY <4>1, <4>2 DEF Awaited
        <3>2. d \in DOMAIN list \ doubt /\ list'[d] = list[d]
            BY <1>1, <1>8, <2>2
        <3> QED
            BY <3>1, <3>2 DEF PageInv, ShownAgrees
    <2> QED
        BY <2>1, <2>2
<1> QED
    BY <1>7, <1>10, <1>11 DEF PageInv

\* What is brought back was true at the click, and what changed since is doubted.
LEMMA BackAgrees ==
    ASSUME PageInv, NEW n \in Calls, RolledBack(n)
    PROVE  /\ DOMAIN list' \subseteq Cards
           /\ \A d \in DOMAIN list' \ doubt' : Agrees(list'[d], stored[d].type)
<1>1. /\ UnderWay(n) /\ list' = calls[n].previous
      /\ doubt' = calls[n].doubted \cup calls[n].since
                  \cup (IF calls[n].pc \in {"written", "counted", "answered"}
                        THEN {calls[n].card} ELSE {})
    BY DEF RolledBack
<1>2. WellFormed(calls[n])
    BY <1>1 DEF UnderWay, PageInv, CallsShaped
<1>3. /\ DOMAIN calls[n].previous \subseteq Cards
      /\ \A d \in DOMAIN calls[n].previous \ (calls[n].doubted \cup calls[n].since) :
            (d # calls[n].card \/ Early(calls[n])) => Agrees(calls[n].previous[d], stored[d].type)
    BY <1>1 DEF PageInv, CallsRemember
<1>4. calls[n].pc \notin {"written", "counted", "answered"} => Early(calls[n])
    BY <1>2 DEF WellFormed, Early
<1> QED
    BY <1>1, <1>3, <1>4

LEMMA FailsStep ==
    ASSUME PageInv, NEW n \in Calls, ClickFails(n) \/ ClickIsLost(n)
    PROVE  PageInv'
<1>1. RolledBack(n) /\ UNCHANGED <<server, fetch, clicks>>
    BY DEF ClickFails, ClickIsLost, RolledBack
<1>2. UnderWay(n) /\ calls[n] # NoCall /\ WellFormed(calls[n]) /\ DOMAIN calls = Calls
    BY <1>1 DEF RolledBack, UnderWay, PageInv, CallsShaped
<1>3. /\ DOMAIN calls' = Calls /\ \A m \in Calls \ {n} : calls'[m] = calls[m]
    BY <1>2 DEF ClickFails, ClickIsLost
<1>4. Onward(n)
    <2>1. CASE ClickFails(n)
        <3>1. calls'[n] = NoCall
            BY <1>2, <2>1 DEF ClickFails
        <3> QED
            BY <3>1 DEF Onward, UnderWay, NoCall
    <2>2. CASE ClickIsLost(n)
        <3> DEFINE new == [calls[n] EXCEPT !.lost = TRUE, !.previous = <<>>,
                             !.doubted = {}, !.since = {}]
        <3>1. calls' = [calls EXCEPT ![n] = new] /\ calls[n].pc \in {"sent", "read"}
            BY <2>2 DEF ClickIsLost
        <3>2. DOMAIN new = CallFields /\ new.card = calls[n].card /\ new.pc = calls[n].pc
              /\ new.lost
            BY <1>2 DEF WellFormed, CallFields
        <3> HIDE DEF new
        <3>3. calls'[n] = new
            BY <1>2, <3>1
        <3>4. WellFormed(new)
            BY <1>2, <3>1, <3>2 DEF WellFormed
        <3>5. ~UnderWay(n)'
            BY <3>2, <3>3 DEF UnderWay
        <3> QED
            BY <1>2, <3>2, <3>3, <3>4, <3>5 DEF Onward
    <2> QED
        BY <2>1, <2>2
<1>5. \A m \in Calls : Onward(m)
    BY <1>3, <1>4, OnwardSame
<1>6. /\ Cards' = Cards /\ UNCHANGED <<stored, active, locked>>
      /\ CallsShaped' /\ CallsRemember' /\ FetchAgrees'
    BY <1>1, <1>3, <1>5, CallsOnward
<1>7. /\ DOMAIN list' \subseteq Cards
      /\ \A d \in DOMAIN list' \ doubt' : Agrees(list'[d], stored[d].type)
    BY <1>1, BackAgrees
<1>8. Shapes'
    BY <1>6, <1>7 DEF PageInv, Shapes
<1>9. ShownAgrees'
    BY <1>6, <1>7 DEF ShownAgrees, Agrees
<1> QED
    BY <1>6, <1>8, <1>9 DEF PageInv

-----------------------------------------------------------------------------
(* A click *)

\* The new request knows the others, and tells them of itself.
LEMMA ClickTells ==
    ASSUME PageInv, NEW c \in Cards, NEW type \in Reactions, Click(c, type)
    PROVE  \E n \in Calls :
              /\ n = clicks + 1 /\ calls[n] = NoCall /\ DOMAIN calls' = Calls
              /\ WellFormed(calls'[n]) /\ calls'[n] # NoCall /\ UnderWay(n)'
              /\ calls'[n].card = c /\ calls'[n].pc = "sent" /\ ~calls'[n].fresh
              /\ calls'[n].next = IF list[c].mine = type THEN None ELSE type
              /\ calls'[n].previous = list /\ calls'[n].doubted = doubt
              /\ calls'[n].since = Busy
              /\ \A m \in Calls \ {n} :
                    /\ calls'[m] # NoCall <=> calls[m] # NoCall
                    /\ UnderWay(m)' <=> UnderWay(m)
                    /\ calls[m] # NoCall =>
                          /\ WellFormed(calls'[m]) /\ calls'[m].card = calls[m].card
                          /\ calls'[m].next = calls[m].next
                    /\ UnderWay(m) =>
                          /\ calls'[m].pc = calls[m].pc
                          /\ calls'[m].fresh = calls[m].fresh /\ calls'[m].answer = calls[m].answer
                          /\ calls'[m].previous = calls[m].previous
                          /\ calls'[m].doubted = calls[m].doubted
                          /\ calls'[m].since = calls[m].since \cup {c}
<1> DEFINE next == IF list[c].mine = type THEN None ELSE type
           new == [pc |-> "sent", card |-> c, next |-> next, seen |-> NoRow,
                   answer |-> None, fresh |-> FALSE, lost |-> FALSE,
                   previous |-> list, doubted |-> doubt, since |-> Busy]
<1>1. PICK n \in Calls : n = clicks + 1 /\ calls[n] = NoCall
    BY PageConstantsOK DEF Click, Clicked, PageInv, CallsShaped, Calls
<1>2. /\ DOMAIN calls' = Calls /\ calls'[n] = new
      /\ \A m \in Calls \ {n} :
            calls'[m] = IF UnderWay(m) THEN [calls[m] EXCEPT !.since = @ \cup {c}] ELSE calls[m]
    BY <1>1 DEF Click, Clicked
<1>3. /\ DOMAIN new = CallFields /\ new.pc = "sent" /\ new.card = c /\ new.next = next
      /\ ~new.fresh /\ ~new.lost /\ new.previous = list /\ new.doubted = doubt
      /\ new.since = Busy
    BY DEF CallFields
<1> HIDE DEF new, next
<1>4. WellFormed(calls'[n]) /\ calls'[n] # NoCall /\ UnderWay(n)'
    BY <1>2, <1>3 DEF WellFormed, NoCall, UnderWay
<1>5. ASSUME NEW m \in Calls \ {n}
      PROVE  /\ calls'[m] # NoCall <=> calls[m] # NoCall
             /\ UnderWay(m)' <=> UnderWay(m)
             /\ calls[m] # NoCall =>
                   /\ WellFormed(calls'[m]) /\ calls'[m].card = calls[m].card
                   /\ calls'[m].next = calls[m].next
             /\ UnderWay(m) =>
                   /\ calls'[m].pc = calls[m].pc
                   /\ calls'[m].fresh = calls[m].fresh /\ calls'[m].answer = calls[m].answer
                   /\ calls'[m].previous = calls[m].previous
                   /\ calls'[m].doubted = calls[m].doubted
                   /\ calls'[m].since = calls[m].since \cup {c}
    <2>1. CASE UnderWay(m)
        <3> DEFINE told == [calls[m] EXCEPT !.since = calls[m].since \cup {c}]
        <3>1. calls'[m] = told
            BY <1>2, <2>1
        <3>2. calls[m] # NoCall /\ WellFormed(calls[m]) /\ DOMAIN calls[m] = CallFields
            BY <2>1 DEF UnderWay, PageInv, CallsShaped, WellFormed
        <3>3. /\ DOMAIN told = CallFields /\ told.pc = calls[m].pc /\ told.card = calls[m].card
              /\ told.next = calls[m].next /\ told.lost = calls[m].lost
              /\ told.fresh = calls[m].fresh /\ told.answer = calls[m].answer
              /\ told.previous = calls[m].previous /\ told.doubted = calls[m].doubted
              /\ told.since = calls[m].since \cup {c}
            BY <3>2 DEF CallFields
        <3> HIDE DEF told
        <3>4. WellFormed(told) /\ told # NoCall
            BY <3>2, <3>3 DEF WellFormed, NoCall
        <3>5. UnderWay(m)'
            BY <2>1, <3>1, <3>3, <3>4 DEF UnderWay, NoCall
        <3> QED
            BY <2>1, <3>1, <3>2, <3>3, <3>4, <3>5
    <2>2. CASE ~UnderWay(m)
        <3>1. calls'[m] = calls[m]
            BY <1>2, <2>2
        <3>2. ~UnderWay(m)'
            BY <2>2, <3>1 DEF UnderWay, NoCall
        <3> QED
            BY <2>2, <3>1, <3>2 DEF PageInv, CallsShaped
    <2> QED
        BY <2>1, <2>2
<1> QED
    BY <1>1, <1>2, <1>3, <1>4, <1>5 DEF next

\* What is remembered at the click is what is shown then.
LEMMA ClickStep ==
    ASSUME PageInv, NEW c \in Cards, NEW type \in Reactions, Click(c, type)
    PROVE  PageInv'
<1>1. /\ c \in DOMAIN list /\ fetch' = NoFetch /\ clicks' = clicks + 1
      /\ DOMAIN list' = DOMAIN list
      /\ \A d \in DOMAIN list \ {c} : list'[d] = list[d]
      /\ UNCHANGED <<stored, active, locked, doubt>>
    BY DEF Click, Clicked, server, Patched
<1>2. PICK n \in Calls :
              /\ n = clicks + 1 /\ calls[n] = NoCall /\ DOMAIN calls' = Calls
              /\ WellFormed(calls'[n]) /\ calls'[n] # NoCall /\ UnderWay(n)'
              /\ calls'[n].card = c /\ calls'[n].pc = "sent" /\ ~calls'[n].fresh
              /\ calls'[n].previous = list /\ calls'[n].doubted = doubt
              /\ calls'[n].since = Busy
              /\ \A m \in Calls \ {n} :
                    /\ calls'[m] # NoCall <=> calls[m] # NoCall
                    /\ UnderWay(m)' <=> UnderWay(m)
                    /\ calls[m] # NoCall =>
                          WellFormed(calls'[m]) /\ calls'[m].card = calls[m].card
                    /\ UnderWay(m) =>
                          /\ calls'[m].pc = calls[m].pc
                          /\ calls'[m].fresh = calls[m].fresh /\ calls'[m].answer = calls[m].answer
                          /\ calls'[m].previous = calls[m].previous
                          /\ calls'[m].doubted = calls[m].doubted
                          /\ calls'[m].since = calls[m].since \cup {c}
    BY ClickTells
<1>3. Cards' = Cards /\ Calls' = Calls /\ NoCall' = NoCall
    BY DEF Cards, Calls, NoCall
<1>4. \A m \in Calls : calls[m] # NoCall => calls[m].card \in Busy
    BY DEF Busy
<1>5. Shapes'
    BY <1>1, <1>3 DEF PageInv, Shapes
<1>6. CallsShaped'
    <2>1. clicks' \in Nat
        BY <1>1 DEF PageInv, CallsShaped
    <2>2. ASSUME NEW m \in Calls, calls'[m] # NoCall
          PROVE  m <= clicks' /\ WellFormed(calls'[m])
        <3>1. CASE m = n
            BY <1>1, <1>2, <2>1, <3>1 DEF Calls
        <3>2. CASE m # n
            <4>1. calls[m] # NoCall /\ WellFormed(calls'[m])
                BY <1>2, <2>2, <3>2
            <4>2. m <= clicks /\ clicks \in Nat /\ m \in Nat
                BY <4>1 DEF PageInv, CallsShaped, Calls
            <4> QED
                BY <1>1, <4>1, <4>2
        <3> QED
            BY <3>1, <3>2
    <2> QED
        BY <1>2, <1>3, <2>1, <2>2 DEF CallsShaped, WellFormed
<1>7. \A d : Awaited(d) => Awaited(d)'
    <2> SUFFICES ASSUME NEW d, NEW m \in Calls, UnderWay(m), calls[m].card = d
                 PROVE  Awaited(d)'
        BY DEF Awaited
    <2>1. m # n /\ calls[m] # NoCall
        BY <1>2 DEF UnderWay
    <2>2. UnderWay(m)' /\ calls'[m].card = d
        BY <1>2, <2>1
    <2> QED
        BY <1>3, <2>2 DEF Awaited
<1>8. ShownAgrees'
    <2> SUFFICES ASSUME NEW d \in DOMAIN list \ doubt, ~Awaited(d)'
                 PROVE  Agrees(list'[d], stored[d].type)
        BY <1>1 DEF ShownAgrees, Agrees
    <2>1. d # c
        BY <1>2, <1>3 DEF Awaited
    <2>2. ~Awaited(d)
        BY <1>7
    <2> QED
        BY <1>1, <2>1, <2>2 DEF PageInv, ShownAgrees
<1>9. CallsRemember'
    <2>1. ASSUME NEW m \in Calls, UnderWay(m)'
          PROVE  /\ DOMAIN calls'[m].previous \subseteq Cards
                 /\ \A k \in Calls \ {m} : calls'[k] # NoCall => calls'[k].card \in calls'[m].since
                 /\ \A d \in DOMAIN calls'[m].previous \ (calls'[m].doubted \cup calls'[m].since) :
                       (d # calls'[m].card \/ Early(calls'[m]))
                           => Agrees(calls'[m].previous[d], stored[d].type)
                 /\ AnswerTrue(calls'[m], stored[calls'[m].card].type)
        <3>1. CASE m = n
            <4>1. DOMAIN list \subseteq Cards
                BY DEF PageInv, Shapes
            <4>2. ASSUME NEW k \in Calls \ {n}, calls'[k] # NoCall
                  PROVE  calls'[k].card \in Busy
                BY <1>2, <1>4, <4>2
            <4>3. ASSUME NEW d \in DOMAIN list \ (doubt \cup Busy)
                  PROVE  Agrees(list[d], stored[d].type)
                <5>1. ~Awaited(d)
                    BY <1>4, <4>3 DEF Awaited, UnderWay
                <5> QED
                    BY <4>3, <5>1 DEF PageInv, ShownAgrees
            <4>4. AnswerTrue(calls'[n], stored[calls'[n].card].type)
                BY <1>2 DEF AnswerTrue
            <4> QED
                BY <1>2, <3>1, <4>1, <4>2, <4>3, <4>4
        <3>2. CASE m # n
            <4>1. UnderWay(m) /\ calls[m] # NoCall
                BY <1>2, <2>1, <3>2 DEF UnderWay
            <4>2. /\ calls'[m].card = calls[m].card /\ calls'[m].pc = calls[m].pc
                  /\ calls'[m].fresh = calls[m].fresh /\ calls'[m].answer = calls[m].answer
                  /\ calls'[m].previous = calls[m].previous
                  /\ calls'[m].doubted = calls[m].doubted
                  /\ calls'[m].since = calls[m].since \cup {c}
                BY <1>2, <3>2, <4>1
            <4>3. ASSUME NEW k \in Calls \ {m}, calls'[k] # NoCall
                  PROVE  calls'[k].card \in calls'[m].since
                <5>1. CASE k = n
                    BY <1>2, <4>2, <5>1
                <5>2. CASE k # n
                    <6>1. calls[k] # NoCall /\ calls'[k].card = calls[k].card
                        BY <1>2, <4>3, <5>2
                    <6> QED
                        BY <4>1, <4>2, <6>1 DEF PageInv, CallsRemember
                <5> QED
                    BY <5>1, <5>2
            <4>4. AnswerTrue(calls'[m], stored[calls'[m].card].type)
                BY <4>1, <4>2 DEF PageInv, CallsRemember, AnswerTrue
            <4>5. Early(calls'[m]) <=> Early(calls[m])
                BY <4>2 DEF Early
            <4> QED
                BY <4>1, <4>2, <4>3, <4>4, <4>5 DEF PageInv, CallsRemember
        <3> QED
            BY <3>1, <3>2
    <2> QED
        BY <1>1, <1>3, <2>1 DEF CallsRemember, Early, Agrees, AnswerTrue, Ups, Downs
<1>10. FetchAgrees'
    BY <1>1 DEF FetchAgrees
<1> QED
    BY <1>5, <1>6, <1>8, <1>9, <1>10 DEF PageInv

-----------------------------------------------------------------------------
(* The theorems *)

LEMMA PageInit == Init => PageInv
<1> SUFFICES ASSUME Init PROVE PageInv
    OBVIOUS
<1>1. /\ stored = [c \in Cards |-> NoRow] /\ active = Old /\ locked = {}
      /\ list = [c \in Old |-> Summary(c, None)] /\ fetch = NoFetch
      /\ calls = [n \in Calls |-> NoCall] /\ clicks = 0
    BY DEF Init
<1>2. Old \subseteq Cards
    BY DEF Cards
<1>3. Shapes /\ CallsShaped
    BY <1>1, <1>2 DEF Shapes, CallsShaped
<1>4. ShownAgrees
    <2>1. ASSUME NEW c \in Old PROVE Agrees(list[c], stored[c].type)
        <3>1. list[c] = Summary(c, None) /\ stored[c].type = None
            BY <1>1, <1>2 DEF NoRow
        <3> QED
            BY <3>1, SummaryAgrees
    <2> QED
        BY <1>1, <2>1 DEF ShownAgrees
<1>5. CallsRemember /\ FetchAgrees
    BY <1>1 DEF CallsRemember, FetchAgrees, UnderWay
<1> QED
    BY <1>3, <1>4, <1>5 DEF PageInv

LEMMA PageStep == PageInv /\ [Next]_pvars => PageInv'
<1> SUFFICES ASSUME PageInv, [Next]_pvars PROVE PageInv'
    OBVIOUS
<1>1. ASSUME NEW c \in Cards, ToggleLock(c) \/ \E type \in Clickable[c] : Click(c, type)
      PROVE  PageInv'
    <2>1. Clickable[c] \subseteq Reactions
        BY PageConstantsOK DEF Cards, Reactions
    <2> QED
        BY <1>1, <2>1, ToggleStep, ClickStep
<1>2. ASSUME NEW n \in Calls,
             \/ ServerReads(n) \/ ServerRefuses(n) \/ ServerWrites(n)
             \/ ServerCounts(n) \/ ServerAnswers(n)
             \/ ClickSucceeds(n) \/ ClickFails(n) \/ ClickIsLost(n)
      PROVE  PageInv'
    BY <1>2, ReadsStep, RefusesStep, WritesStep, CountsStep, AnswersStep, SucceedsStep, FailsStep
<1>3. CASE RunPersists \/ RunReadsLocks \/ RunCompletes
    BY <1>3, RunStep
<1>4. CASE ListLocks \/ ListCards \/ ListCounts \/ ListMine \/ ListLands \/ ListFails
    BY <1>4, ListStep, LandStep
<1>5. CASE Remount
    BY <1>5, RemountStep
<1>6. CASE UNCHANGED pvars
    <2>1. UNCHANGED <<stored, active, locked, list, calls, doubt, clicks, fetch>>
        BY <1>6 DEF pvars, server, page
    <2>2. Narrowed
        BY <2>1 DEF Narrowed, PageInv, FetchAgrees
    <2> QED
        BY <2>1, <2>2, OthersStep DEF PageInv, Shapes
<1> QED
    BY <1>1, <1>2, <1>3, <1>4, <1>5, <1>6 DEF Next

(* What the list, the requests under way and the fetch under way hold of the  *)
(* server is true but for what they know to have been under way, and for an   *)
(* answer another reaction has overtaken: PageInv is inductive.               *)
THEOREM PageInvariant == Spec => []PageInv
BY PageInit, PageStep, PTL DEF Spec

(* However clicks, answers, failures and fetches of the list interleave, the  *)
(* page shows the reaction the server has stored and counts it, but for one    *)
(* it awaits an answer to, and for the options in doubt (onMutate, onError and *)
(* onSuccess of use-options.ts; reactionPending of OptionsTable.tsx).          *)
THEOREM PageShowsReactions == Spec => []PageShowsMine
<1>1. PageInv => PageShowsMine
    BY DEF PageInv, ShownAgrees, Agrees, PageShowsMine
<1> QED
    BY <1>1, PageInvariant, PTL

(* Whatever is superseded, locked or unlocked between the statements of the    *)
(* list, an option locked or active throughout is listed                       *)
(* (list_options_for_leg).                                                     *)
THEOREM NothingListedIsMissed == Spec => []OptionsStayListed
<1>1. PageInv => OptionsStayListed
    <2> SUFFICES ASSUME PageInv, fetch.pc = "cards"
                 PROVE  fetch.held \cup fetch.steady \subseteq fetch.cards
        BY DEF OptionsStayListed
    <2>1. fetch # NoFetch
        BY NoFetchIsNone
    <2> QED
        BY <2>1 DEF PageInv, FetchAgrees
<1> QED
    BY <1>1, PageInvariant, PTL

-----------------------------------------------------------------------------
(* The sums the page shows *)

\* A summary that counts the votes of the others and the reaction it shows.
CountsAll(summary, c) ==
    summary = Summary(c, summary.mine) /\ summary.mine \in Reactions \cup {None}

Rows == [by : {0} \cup Calls, type : Reactions \cup {None}]

PageSums ==
    /\ doubt \subseteq Cards
    /\ stored \in [Cards -> Rows]
    /\ \A c \in DOMAIN list \ doubt : CountsAll(list[c], c)
    /\ \A n \in Calls : calls[n] # NoCall => calls[n].next \in Reactions \cup {None}
    /\ \A n \in Calls : UnderWay(n) =>
          /\ calls[n].doubted \cup calls[n].since \subseteq Cards
          /\ \A d \in DOMAIN calls[n].previous \ calls[n].doubted :
                CountsAll(calls[n].previous[d], d)
    /\ fetch # NoFetch => fetch.risky \subseteq Cards

LEMMA OthersVotes ==
    ASSUME NEW c
    PROVE  Cardinality({c} \cap VotedUp) \in {0, 1}
<1>1. CASE c \in VotedUp
    <2>1. {c} \cap VotedUp = {c}
        BY <1>1
    <2> QED
        BY <2>1, FS_Singleton
<1>2. CASE c \notin VotedUp
    <2>1. {c} \cap VotedUp = {}
        BY <1>2
    <2> QED
        BY <2>1, FS_EmptySet
<1> QED
    BY <1>1, <1>2

\* What optimisticSummary makes of a summary that counts everybody is the
\* summary the server will answer with.
LEMMA OptimisticIsRight ==
    ASSUME NEW c, NEW mine, NEW next
    PROVE  Optimistic(Summary(c, mine), next) = Summary(c, next)
<1> DEFINE votes == Cardinality({c} \cap VotedUp)
<1>1. votes \in {0, 1}
    BY OthersVotes
<1>2. /\ Summary(c, mine).mine = mine
      /\ Summary(c, mine).up = votes + (IF mine = "up" THEN 1 ELSE 0)
      /\ Summary(c, mine).down = IF mine = "down" THEN 1 ELSE 0
    BY DEF Summary, Ups, Downs
<1>3. Ups(c, next) = votes + (IF next = "up" THEN 1 ELSE 0)
    BY DEF Ups
<1> HIDE DEF votes
<1>4. More(Less(Summary(c, mine).up, mine = "up"), next = "up") = Ups(c, next)
    BY <1>1, <1>2, <1>3 DEF More, Less
<1>5. More(Less(Summary(c, mine).down, mine = "down"), next = "down") = Downs(next)
    BY <1>2 DEF More, Less, Downs
<1> QED
    BY <1>2, <1>4, <1>5 DEF Optimistic, Summary

LEMMA SummaryCounts ==
    ASSUME NEW c, NEW mine \in Reactions \cup {None}
    PROVE  CountsAll(Summary(c, mine), c) /\ Summary(c, mine) \in Shown
<1>1. Summary(c, mine).mine = mine
    BY DEF Summary
<1>2. Ups(c, mine) \in {0, 1, 2} /\ Downs(mine) \in {0, 1}
    <2> DEFINE votes == Cardinality({c} \cap VotedUp)
    <2>1. votes \in {0, 1}
        BY OthersVotes
    <2>2. Ups(c, mine) = votes + (IF mine = "up" THEN 1 ELSE 0)
        BY DEF Ups
    <2> HIDE DEF votes
    <2> QED
        BY <2>1, <2>2 DEF Downs
<1> QED
    BY <1>1, <1>2 DEF CountsAll, Summary, Shown

\* Steps of the server, and of a fetch before it lands.
LEMMA SumsOthers ==
    ASSUME PageInv, PageSums, UNCHANGED <<stored, list, calls, doubt>>,
           fetch' # NoFetch =>
              \/ fetch # NoFetch /\ fetch'.risky = fetch.risky
              \/ fetch'.risky = Busy
    PROVE  PageSums'
<1>1. /\ Cards' = Cards /\ Calls' = Calls /\ Rows' = Rows
      /\ \A n \in Calls : UnderWay(n)' <=> UnderWay(n)
    BY DEF Cards, Calls, Rows, UnderWay, NoCall, Reactions
<1>2. Busy \subseteq Cards
    BY DEF Busy, PageInv, CallsShaped, WellFormed
<1>3. fetch' # NoFetch => fetch'.risky \subseteq Cards
    BY <1>2 DEF PageSums
<1> QED
    BY <1>1, <1>3 DEF PageSums, CountsAll, Summary, Ups, Downs, NoCall, Reactions

LEMMA SumsClick ==
    ASSUME PageInv, PageSums, NEW c \in Cards, NEW type \in Reactions, Click(c, type)
    PROVE  PageSums'
<1> DEFINE next == IF list[c].mine = type THEN None ELSE type
<1>1. /\ c \in DOMAIN list /\ fetch' = NoFetch
      /\ list' = Patched(list, c, Optimistic(list[c], next))
      /\ UNCHANGED <<stored, doubt>>
    BY DEF Click, Clicked, server
<1>2. PICK n \in Calls :
          /\ calls'[n] # NoCall /\ calls'[n].next = next
          /\ calls'[n].previous = list /\ calls'[n].doubted = doubt /\ calls'[n].since = Busy
          /\ \A m \in Calls \ {n} :
                /\ calls'[m] # NoCall <=> calls[m] # NoCall
                /\ UnderWay(m)' <=> UnderWay(m)
                /\ calls[m] # NoCall => calls'[m].next = calls[m].next
                /\ UnderWay(m) =>
                      /\ calls'[m].previous = calls[m].previous
                      /\ calls'[m].doubted = calls[m].doubted
                      /\ calls'[m].since = calls[m].since \cup {c}
    BY ClickTells
<1>3. next \in Reactions \cup {None}
    OBVIOUS
<1> HIDE DEF next
<1>4. Cards' = Cards /\ Calls' = Calls /\ Rows' = Rows /\ NoCall' = NoCall
    BY DEF Cards, Calls, Rows, NoCall, Reactions
<1>5. Busy \subseteq Cards
    BY DEF Busy, PageInv, CallsShaped, WellFormed
<1>6. ASSUME NEW d \in DOMAIN list' \ doubt' PROVE CountsAll(list'[d], d)
    <2>1. d \in DOMAIN list \ doubt
        BY <1>1 DEF Patched
    <2>2. CountsAll(list[d], d)
        BY <2>1 DEF PageSums
    <2>3. CASE d # c
        BY <1>1, <2>2, <2>3 DEF Patched
    <2>4. CASE d = c
        <3>1. list'[c] = Optimistic(list[c], next)
            BY <1>1 DEF Patched
        <3>2. list'[c] = Summary(c, next)
            BY <2>2, <2>4, <3>1, OptimisticIsRight DEF CountsAll
        <3> QED
            BY <1>3, <2>4, <3>2, SummaryCounts
    <2> QED
        BY <2>3, <2>4
<1>7. \A m \in Calls : calls'[m] # NoCall => calls'[m].next \in Reactions \cup {None}
    BY <1>2, <1>3 DEF PageSums
<1>8. ASSUME NEW m \in Calls, UnderWay(m)'
      PROVE  /\ calls'[m].doubted \cup calls'[m].since \subseteq Cards
             /\ \A d \in DOMAIN calls'[m].previous \ calls'[m].doubted :
                   CountsAll(calls'[m].previous[d], d)
    <2>1. CASE m = n
        BY <1>2, <1>5, <2>1 DEF PageSums
    <2>2. CASE m # n
        BY <1>2, <1>8, <2>2 DEF PageSums
    <2> QED
        BY <2>1, <2>2
<1> QED
    BY <1>1, <1>4, <1>6, <1>7, <1>8 DEF PageSums, CountsAll, Summary, Ups, Downs, Reactions

\* A step of a request after its click.
Step(n) ==
    \/ ServerReads(n) \/ ServerRefuses(n) \/ ServerWrites(n)
    \/ ServerCounts(n) \/ ServerAnswers(n)
    \/ ClickSucceeds(n) \/ ClickFails(n) \/ ClickIsLost(n)

LEMMA CallsKept ==
    ASSUME PageInv, NEW n \in Calls, Step(n), NEW m \in Calls
    PROVE  /\ calls'[m] # NoCall => calls[m] # NoCall /\ calls'[m].next = calls[m].next
           /\ UnderWay(m)' =>
                 /\ UnderWay(m) /\ calls'[m].previous = calls[m].previous
                 /\ calls'[m].doubted = calls[m].doubted /\ calls'[m].since = calls[m].since
<1> DEFINE Kept(call) ==
        DOMAIN calls[m] = CallFields =>
            /\ call.next = calls[m].next /\ call.previous = calls[m].previous
            /\ call.doubted = calls[m].doubted /\ call.since = calls[m].since
            /\ call.lost = calls[m].lost
<1>1. calls[m] # NoCall => DOMAIN calls[m] = CallFields
    BY DEF PageInv, CallsShaped, WellFormed
<1>2. DOMAIN calls = Calls
    BY DEF PageInv, CallsShaped
<1>3. calls[n] # NoCall
    BY DEF Step, ServerReads, ServerRefuses, ServerWrites, ServerCounts, ServerAnswers,
           ClickSucceeds, ClickFails, ClickIsLost, RolledBack, UnderWay, NoCall
<1>4. CASE calls'[m] = NoCall
    BY <1>4 DEF UnderWay, NoCall
<1>5. CASE calls'[m] # NoCall /\ calls[m] # NoCall /\ Kept(calls'[m])
    <2> HIDE DEF Kept
    <2>1. /\ calls'[m].next = calls[m].next /\ calls'[m].previous = calls[m].previous
          /\ calls'[m].doubted = calls[m].doubted /\ calls'[m].since = calls[m].since
          /\ calls'[m].lost = calls[m].lost
        BY <1>1, <1>5 DEF Kept
    <2> QED
        BY <1>5, <2>1 DEF UnderWay
<1>6. CASE m # n /\ ~ServerWrites(n)
    <2>1. calls'[m] = calls[m]
        BY <1>2, <1>6 DEF Step, ServerReads, ServerRefuses, ServerCounts, ServerAnswers,
                          ClickSucceeds, ClickFails, ClickIsLost
    <2> QED
        BY <1>4, <1>5, <2>1
<1>7. CASE ServerWrites(n)
    <2>1. \/ calls'[m] = NoCall \/ calls'[m] = calls[m]
          \/ calls[m] # NoCall /\ calls'[m] = [calls[m] EXCEPT !.pc = "written"]
          \/ calls[m] # NoCall /\ calls'[m] = [calls[m] EXCEPT !.fresh = FALSE]
        BY <1>3, <1>7 DEF ServerWrites, UnderWay
    <2>2. calls'[m] = [calls[m] EXCEPT !.pc = "written"] => Kept(calls'[m])
        BY DEF CallFields
    <2>3. calls'[m] = [calls[m] EXCEPT !.fresh = FALSE] => Kept(calls'[m])
        BY DEF CallFields
    <2> QED
        BY <1>4, <1>5, <2>1, <2>2, <2>3
<1>8. CASE m = n /\ ServerReads(n)
    <2>1. calls'[n] = [calls[n] EXCEPT !.pc = "read", !.seen = stored[calls[n].card]]
        BY <1>2, <1>8 DEF ServerReads
    <2>2. Kept(calls'[n])
        BY <1>8, <2>1 DEF CallFields
    <2> QED
        BY <1>3, <1>4, <1>5, <1>8, <2>2
<1>9. CASE m = n /\ ServerRefuses(n)
    <2>1. calls'[n] = NoCall \/ calls'[n] = [calls[n] EXCEPT !.pc = "refused"]
        BY <1>2, <1>9 DEF ServerRefuses
    <2>2. calls'[n] = [calls[n] EXCEPT !.pc = "refused"] => Kept(calls'[n])
        BY <1>9 DEF CallFields
    <2> QED
        BY <1>3, <1>4, <1>5, <1>9, <2>1, <2>2
<1>10. CASE m = n /\ (ServerCounts(n) \/ ServerAnswers(n))
    <2>1. PICK pc, fresh, answer :
             calls'[n] = [calls[n] EXCEPT !.pc = pc, !.fresh = fresh, !.answer = answer]
        <3>1. CASE ServerCounts(n)
            BY <1>2, <3>1 DEF ServerCounts
        <3>2. CASE ServerAnswers(n)
            <4>1. PICK answer : calls'[n] = [calls[n] EXCEPT !.pc = "answered", !.answer = answer]
                BY <1>2, <3>2 DEF ServerAnswers
            <4>2. calls'[n] = [calls[n] EXCEPT !.pc = "answered", !.fresh = calls[n].fresh,
                                               !.answer = answer]
                BY <4>1
            <4> QED
                BY <4>2
        <3> QED
            BY <1>10, <3>1, <3>2
    <2>2. Kept(calls'[n])
        BY <1>10, <2>1 DEF CallFields
    <2> QED
        BY <1>3, <1>4, <1>5, <1>10, <2>2
<1>11. CASE m = n /\ (ClickSucceeds(n) \/ ClickFails(n))
    <2>1. calls'[n] = NoCall
        BY <1>2, <1>11 DEF ClickSucceeds, ClickFails
    <2> QED
        BY <1>4, <1>11, <2>1
<1>12. CASE m = n /\ ClickIsLost(n)
    <2>1. calls'[n] = [calls[n] EXCEPT !.lost = TRUE, !.previous = <<>>,
                                       !.doubted = {}, !.since = {}]
        BY <1>2, <1>12 DEF ClickIsLost
    <2>2. calls'[n].next = calls[n].next /\ calls'[n].lost
        BY <1>1, <1>3, <1>12, <2>1 DEF CallFields
    <2> QED
        BY <1>3, <1>12, <2>2 DEF UnderWay
<1> QED
    BY <1>6, <1>7, <1>8, <1>9, <1>10, <1>11, <1>12 DEF Step

\* What is left to show of a step of a request.
LEMMA SumsCalls ==
    ASSUME PageInv, PageSums, NEW n \in Calls, Step(n), UNCHANGED fetch,
           stored' \in [Cards -> Rows], doubt' \subseteq Cards,
           \A d \in DOMAIN list' \ doubt' : CountsAll(list'[d], d)
    PROVE  PageSums'
<1>1. Cards' = Cards /\ Calls' = Calls /\ Rows' = Rows /\ NoCall' = NoCall
    BY DEF Cards, Calls, Rows, NoCall, Reactions
<1>2. \A m \in Calls : calls'[m] # NoCall => calls'[m].next \in Reactions \cup {None}
    BY CallsKept DEF PageSums
<1>3. \A m \in Calls : UnderWay(m)' =>
          /\ calls'[m].doubted \cup calls'[m].since \subseteq Cards
          /\ \A d \in DOMAIN calls'[m].previous \ calls'[m].doubted :
                CountsAll(calls'[m].previous[d], d)
    BY CallsKept DEF PageSums
<1> QED
    BY <1>1, <1>2, <1>3 DEF PageSums, CountsAll, Summary, Ups, Downs, Reactions, NoFetch

LEMMA SumsAside ==
    ASSUME PageInv, PageSums, NEW n \in Calls,
           ServerReads(n) \/ ServerRefuses(n) \/ ServerCounts(n) \/ ServerAnswers(n)
    PROVE  PageSums'
<1>1. UNCHANGED <<stored, list, doubt, fetch>>
    BY DEF ServerReads, ServerRefuses, ServerCounts, ServerAnswers, server
<1>2. Step(n)
    BY DEF Step
<1> QED
    BY <1>1, <1>2, SumsCalls DEF PageSums

LEMMA SumsWrites ==
    ASSUME PageInv, PageSums, NEW n \in Calls, ServerWrites(n)
    PROVE  PageSums'
<1> DEFINE c == calls[n].card
<1>1. /\ calls[n].pc = "read" /\ stored' = [stored EXCEPT ![c] = RowAfter(n)]
      /\ doubt' = IF calls[n].lost /\ RowAfter(n) # stored[c] THEN doubt \cup {c} ELSE doubt
      /\ UNCHANGED <<list, fetch>>
    BY DEF ServerWrites
<1>2. calls[n] # NoCall /\ c \in Cards
    BY <1>1, CallHere
<1>3. RowAfter(n) \in Rows
    <2>1. stored[c] \in Rows /\ calls[n].next \in Reactions \cup {None}
        BY <1>2 DEF PageSums
    <2>2. NoRow \in Rows
        BY DEF NoRow, Rows
    <2>3. ASSUME calls[n].next # None
          PROVE  [by |-> IF stored[c] = NoRow THEN n ELSE stored[c].by, type |-> calls[n].next]
                    \in Rows
        BY <2>1, <2>3 DEF Rows
    <2> QED
        BY <2>1, <2>2, <2>3 DEF RowAfter
<1>4. stored' \in [Cards -> Rows]
    BY <1>1, <1>2, <1>3 DEF PageSums
<1>5. doubt' \subseteq Cards /\ \A d \in DOMAIN list' \ doubt' : CountsAll(list'[d], d)
    BY <1>1, <1>2 DEF PageSums
<1>6. Step(n)
    BY DEF Step
<1> QED
    BY <1>1, <1>4, <1>5, <1>6, SumsCalls

LEMMA SumsSucceeds ==
    ASSUME PageInv, PageSums, NEW n \in Calls, ClickSucceeds(n)
    PROVE  PageSums'
<1> DEFINE c == calls[n].card
<1>1. /\ calls[n].pc = "answered" /\ list' = Patched(list, c, calls[n].answer)
      /\ doubt' = IF calls[n].fresh THEN doubt \ {c} ELSE doubt \cup {c}
      /\ UNCHANGED <<stored, fetch>>
    BY DEF ClickSucceeds, server
<1>2. WellFormed(calls[n]) /\ calls[n] # NoCall /\ c \in Cards
    BY <1>1, CallHere
<1>3. UnderWay(n)
    BY <1>1, <1>2 DEF UnderWay, WellFormed
<1>4. ASSUME calls[n].fresh PROVE CountsAll(calls[n].answer, c)
    <2>1. AnswerTrue(calls[n], stored[c].type)
        BY <1>3 DEF PageInv, CallsRemember
    <2>2. calls[n].answer = Summary(c, stored[c].type)
        BY <1>1, <1>4, <2>1 DEF AnswerTrue, Summary
    <2>3. stored[c].type \in Reactions \cup {None}
        BY <1>2 DEF PageSums, Rows
    <2> QED
        BY <2>2, <2>3, SummaryCounts
<1>5. ASSUME NEW d \in DOMAIN list' \ doubt' PROVE CountsAll(list'[d], d)
    <2>1. CASE d = c
        BY <1>1, <1>4, <2>1 DEF Patched
    <2>2. CASE d # c
        BY <1>1, <2>2 DEF Patched, PageSums
    <2> QED
        BY <2>1, <2>2
<1>6. doubt' \subseteq Cards /\ stored' \in [Cards -> Rows]
    BY <1>1, <1>2 DEF PageSums
<1>7. Step(n)
    BY DEF Step
<1> QED
    BY <1>1, <1>5, <1>6, <1>7, SumsCalls

LEMMA SumsFails ==
    ASSUME PageInv, PageSums, NEW n \in Calls, ClickFails(n) \/ ClickIsLost(n)
    PROVE  PageSums'
<1>1. /\ UnderWay(n) /\ list' = calls[n].previous
      /\ doubt' = calls[n].doubted \cup calls[n].since
                  \cup (IF calls[n].pc \in {"written", "counted", "answered"}
                        THEN {calls[n].card} ELSE {})
      /\ UNCHANGED <<stored, fetch>>
    BY DEF ClickFails, ClickIsLost, RolledBack, server
<1>2. calls[n].card \in Cards
    BY <1>1 DEF UnderWay, PageInv, CallsShaped, WellFormed
<1>3. /\ calls[n].doubted \cup calls[n].since \subseteq Cards
      /\ \A d \in DOMAIN calls[n].previous \ calls[n].doubted :
            CountsAll(calls[n].previous[d], d)
    BY <1>1 DEF PageSums
<1>4. doubt' \subseteq Cards /\ \A d \in DOMAIN list' \ doubt' : CountsAll(list'[d], d)
    BY <1>1, <1>2, <1>3
<1>5. Step(n) /\ stored' \in [Cards -> Rows]
    BY <1>1 DEF Step, PageSums
<1> QED
    BY <1>1, <1>4, <1>5, SumsCalls

LEMMA SumsLand == PageInv /\ PageSums /\ ListLands => PageSums'
<1> SUFFICES ASSUME PageInv, PageSums, ListLands PROVE PageSums'
    OBVIOUS
<1> DEFINE landed == [c \in fetch.cards |->
                        [up |-> fetch.counts[c].up, down |-> fetch.counts[c].down,
                         mine |-> fetch.mine[c]]]
<1>1. /\ fetch.pc = "answered" /\ list' = landed /\ doubt' = fetch.risky
      /\ fetch' = NoFetch /\ UNCHANGED <<stored, calls>>
    BY DEF ListLands, server
<1>2. fetch # NoFetch /\ fetch.cards \subseteq Cards
    BY <1>1, NoFetchIsNone DEF PageInv, FetchAgrees
<1>3. ASSUME NEW c \in fetch.cards \ fetch.risky PROVE CountsAll(landed[c], c)
    <2>1. /\ fetch.counts[c] = [up |-> Ups(c, stored[c].type), down |-> Downs(stored[c].type)]
          /\ fetch.mine[c] = stored[c].type
        BY <1>1, <1>2 DEF PageInv, FetchAgrees
    <2>2. landed[c] = Summary(c, stored[c].type)
        BY <2>1 DEF Summary
    <2>3. stored[c].type \in Reactions \cup {None}
        BY <1>2 DEF PageSums, Rows
    <2> QED
        BY <2>2, <2>3, SummaryCounts
<1>4. DOMAIN landed = fetch.cards
    OBVIOUS
<1> HIDE DEF landed
<1>5. \A d \in DOMAIN list' \ doubt' : CountsAll(list'[d], d)
    BY <1>1, <1>3, <1>4
<1>6. /\ Cards' = Cards /\ Calls' = Calls /\ Rows' = Rows
      /\ \A n \in Calls : UnderWay(n)' <=> UnderWay(n)
    BY <1>1 DEF Cards, Calls, Rows, UnderWay, NoCall, Reactions
<1>7. doubt' \subseteq Cards
    BY <1>1, <1>2 DEF PageSums
<1> QED
    BY <1>1, <1>5, <1>6, <1>7 DEF PageSums, CountsAll, Summary, Ups, Downs, NoCall, Reactions

LEMMA SumsStep == PageInv /\ PageSums /\ [Next]_pvars => PageSums'
<1> SUFFICES ASSUME PageInv, PageSums, [Next]_pvars PROVE PageSums'
    OBVIOUS
<1>1. ASSUME NEW c \in Cards, NEW type \in Clickable[c], Click(c, type) PROVE PageSums'
    <2>1. type \in Reactions
        BY PageConstantsOK DEF Cards, Reactions
    <2> QED
        BY <1>1, <2>1, SumsClick
<1>2. ASSUME NEW n \in Calls,
             \/ ServerReads(n) \/ ServerRefuses(n) \/ ServerWrites(n)
             \/ ServerCounts(n) \/ ServerAnswers(n)
             \/ ClickSucceeds(n) \/ ClickFails(n) \/ ClickIsLost(n)
      PROVE  PageSums'
    BY <1>2, SumsAside, SumsWrites, SumsSucceeds, SumsFails
<1>3. ASSUME NEW c \in Cards, ToggleLock(c) PROVE PageSums'
    <2>1. UNCHANGED <<stored, list, calls, doubt>>
        BY <1>3 DEF ToggleLock
    <2>2. fetch' # NoFetch => fetch # NoFetch /\ fetch'.risky = fetch.risky
        BY <1>3 DEF ToggleLock, PageInv, FetchAgrees, FetchFields, NoFetch
    <2> QED
        BY <2>1, <2>2, SumsOthers
<1>4. CASE RunPersists \/ RunReadsLocks \/ RunCompletes
    <2>1. UNCHANGED <<stored, list, calls, doubt>>
        BY <1>4 DEF RunPersists, RunReadsLocks, RunCompletes, page
    <2>2. fetch' # NoFetch => fetch # NoFetch /\ fetch'.risky = fetch.risky
        BY <1>4 DEF RunPersists, RunReadsLocks, RunCompletes, page, PageInv, FetchAgrees,
                    FetchFields, NoFetch
    <2> QED
        BY <2>1, <2>2, SumsOthers
<1>5. CASE ListLocks \/ ListCards \/ ListCounts \/ ListMine \/ ListFails
    <2>1. UNCHANGED <<stored, list, calls, doubt>>
        BY <1>5 DEF ListLocks, ListCards, ListCounts, ListMine, ListFails, server
    <2>2. CASE ListLocks
        BY <2>1, <2>2, SumsOthers DEF ListLocks
    <2>3. CASE ListFails
        BY <2>1, <2>3, SumsOthers DEF ListFails
    <2>4. CASE ListCards \/ ListCounts \/ ListMine
        <3>1. fetch # NoFetch
            BY <2>4 DEF ListCards, ListCounts, ListMine, NoFetch
        <3>2. fetch'.risky = fetch.risky
            BY <2>4, <3>1 DEF ListCards, ListCounts, ListMine, PageInv, FetchAgrees, FetchFields
        <3> QED
            BY <2>1, <3>1, <3>2, SumsOthers
    <2> QED
        BY <1>5, <2>2, <2>3, <2>4
<1>6. CASE ListLands
    BY <1>6, SumsLand
<1>7. CASE Remount
    BY <1>7, SumsOthers DEF Remount, server
<1>8. CASE UNCHANGED pvars
    BY <1>8, SumsOthers DEF pvars, server, page
<1> QED
    BY <1>1, <1>2, <1>3, <1>4, <1>5, <1>6, <1>7, <1>8 DEF Next

LEMMA SumsInit == Init => PageSums
<1> SUFFICES ASSUME Init PROVE PageSums
    OBVIOUS
<1>1. /\ stored = [c \in Cards |-> NoRow] /\ doubt = {} /\ fetch = NoFetch
      /\ list = [c \in Old |-> Summary(c, None)]
      /\ calls = [n \in Calls |-> NoCall]
    BY DEF Init
<1>2. \A c \in Old : CountsAll(list[c], c)
    BY <1>1, SummaryCounts
<1>3. NoRow \in Rows
    BY DEF NoRow, Rows
<1> QED
    BY <1>1, <1>2, <1>3 DEF PageSums, UnderWay

(* Every sum shown or remembered outside doubt counts each vote once: the sums' *)
(* part of the invariant.                                                       *)
THEOREM SumsInvariant == Spec => []PageSums
BY SumsInit, SumsStep, PageInvariant, PTL DEF Spec

(* However clicks, rollbacks and fetches interleave, no sum the page shows is   *)
(* negative or counts anybody twice, but for the options in doubt.              *)
THEOREM PageTypes == Spec => []TypeOK
<1>1. PageInv /\ PageSums => TypeOK
    <2> SUFFICES ASSUME PageInv, PageSums PROVE TypeOK
        OBVIOUS
    <2>1. stored \in [Cards -> [by : {0} \cup Calls, type : Reactions \cup {None}]]
        BY DEF PageSums, Rows
    <2>2. \A c \in DOMAIN list \ doubt : list[c] \in Shown
        BY SummaryCounts DEF PageSums, CountsAll
    <2> QED
        BY <2>1, <2>2 DEF PageInv, Shapes, PageSums, TypeOK
<1> QED
    BY <1>1, PageInvariant, SumsInvariant, PTL
=============================================================================
