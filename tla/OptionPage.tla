------------------------------ MODULE OptionPage ------------------------------
(***************************************************************************)
(* One person's page of a leg's options.  The server lists them in several *)
(* statements (services/options.py), each of which sees what was committed *)
(* before it; the page (client/hooks) keeps the list in a cache, shows a   *)
(* reaction before the server has it, takes it back when the request       *)
(* fails, and fetches the list and the state of the leg again on a timer   *)
(* while it believes research to be under way.  Meanwhile the organizer    *)
(* locks and unlocks, and a research run replaces the options.             *)
(***************************************************************************)
EXTENDS Naturals, FiniteSets

CONSTANTS
    Old, New,       \* the options before the run and those it finds
    Lockable,       \* bound: the options the organizer may lock
    VotedUp,        \* the options somebody else has voted up, once and for all
    None,
    MaxClicks,      \* bound: the clicks of this person
    Clickable       \* bound: the reactions to each option among them

ASSUME PageConstantsOK ==
    /\ Old \cap New = {}
    /\ MaxClicks \in Nat
    /\ Clickable \in [Old \cup New -> SUBSET {"up", "down"}]

VARIABLES
    \* the server
    stored,     \* this person's row in reactions, for each option
    active,     \* the options not superseded
    locked,
    run,        \* how far the research run is, and the locks it has read
    \* the page
    list,       \* the cached options and their reactions
    fetch,      \* the fetch of the list under way
    calls,      \* the reactions under way, numbered as they were clicked
    watched,    \* those a mounted row waits for, its buttons disabled
    \* bookkeeping
    doubt,      \* the options whose shown reaction may not be the stored one
    clicks

server == <<stored, active, locked, run>>
page == <<list, fetch, calls, watched, doubt, clicks>>
pvars == <<server, page>>

------------------------------------------------------------------------------
Cards == Old \cup New

Reactions == {"up", "down"}

NoFetch == [pc |-> "none"]

Calls == 1..MaxClicks

NoCall == [pc |-> "none"]

\* A request the page waits for; one it has given up may still reach the server.
UnderWay(n) == calls[n] # NoCall /\ ~calls[n].lost

Awaited(c) == \E n \in Calls : UnderWay(n) /\ calls[n].card = c

Busy == {calls[n].card : n \in {m \in Calls : calls[m] # NoCall}}

\* reactionPending, the state of the mutations of the row that is mounted now.
Disabled(c) == \E n \in watched : calls[n].card = c

\* A row in reactions is known by the request that inserted it.
NoRow == [by |-> 0, type |-> None]

\* _reaction_summaries: the counts of everybody, then the caller's own.
Ups(c, mine) == Cardinality({c} \cap VotedUp) + (IF mine = "up" THEN 1 ELSE 0)

Downs(mine) == IF mine = "down" THEN 1 ELSE 0

Summary(c, mine) == [up |-> Ups(c, mine), down |-> Downs(mine), mine |-> mine]

\* optimisticSummary, in the integers of the client.
Less(n, taken) == IF taken THEN n - 1 ELSE n

More(n, given) == IF given THEN n + 1 ELSE n

\* Seeded fault: the reaction given up is taken off the other sum.
Optimistic_OtherSum(current, next) ==
    [up |-> More(Less(current.up, current.mine = "down"), next = "up"),
     down |-> More(Less(current.down, current.mine = "up"), next = "down"),
     mine |-> next]

Optimistic(current, next) ==
    [up |-> More(Less(current.up, current.mine = "up"), next = "up"),
     down |-> More(Less(current.down, current.mine = "down"), next = "down"),
     mine |-> next]

\* patchOptionSummary.
Patched(shown, c, summary) ==
    IF c \in DOMAIN shown THEN [shown EXCEPT ![c] = summary] ELSE shown

Init ==
    /\ stored = [c \in Cards |-> NoRow]
    /\ active = Old /\ locked = {}
    /\ run = [pc |-> "started", kept |-> {}]
    /\ list = [c \in Old |-> Summary(c, None)]
    /\ fetch = NoFetch
    /\ calls = [n \in Calls |-> NoCall] /\ watched = {}
    /\ doubt = {} /\ clicks = 0

------------------------------------------------------------------------------
(* The organizer and the run.                                              *)
\* A lock or an unlock; a fetch of the list may be at any of its statements.
ToggleLock(c) ==
    /\ c \in Lockable /\ c \in active \cup locked
    /\ locked' = IF c \in locked THEN locked \ {c} ELSE locked \cup {c}
    /\ fetch' = IF fetch.pc = "locks" THEN [fetch EXCEPT !.held = @ \cap locked'] ELSE fetch
    /\ UNCHANGED <<stored, active, run, list, calls, watched, doubt, clicks>>

RunPersists ==
    /\ run.pc = "started"
    /\ run' = [run EXCEPT !.pc = "persisted"]
    /\ active' = active \cup New
    /\ UNCHANGED <<stored, locked, page>>

\* supersede_option_cards reads the locks ...
RunReadsLocks ==
    /\ run.pc = "persisted"
    /\ run' = [pc |-> "superseding", kept |-> locked]
    /\ UNCHANGED <<stored, active, locked, page>>

\* ... and updates the options, in the transaction that completes the run.
RunCompletes ==
    /\ run.pc = "superseding"
    /\ run' = [pc |-> "over", kept |-> {}]
    /\ active' = {c \in active : c \in New \/ c \in run.kept}
    /\ fetch' = IF fetch.pc = "locks" THEN [fetch EXCEPT !.steady = @ \cap active'] ELSE fetch
    /\ UNCHANGED <<stored, locked, list, calls, watched, doubt, clicks>>

------------------------------------------------------------------------------
(* The fetch of the list: on the timer while the cached leg is researching *)
(* (page.tsx, use-legs.ts), when the window gets the focus again, after an *)
(* option was typed in.  What happens before its first statement is as if  *)
(* it had not been sent yet.  Until the options are read, held and steady  *)
(* are those locked and active since then; risky are those which a         *)
(* reaction was under way to.                                              *)
ListLocks ==
    /\ fetch = NoFetch
    /\ fetch' = [pc |-> "locks", locked |-> locked, cards |-> {}, counts |-> <<>>,
                 mine |-> <<>>, held |-> locked, steady |-> active,
                 risky |-> Busy]
    /\ UNCHANGED <<server, list, calls, watched, doubt, clicks>>

\* Seeded fault: a superseded option is not listed although it is locked.
ListCards_ActiveOnly ==
    /\ fetch.pc = "locks"
    /\ fetch' = [fetch EXCEPT !.pc = "cards", !.cards = active]
    /\ UNCHANGED <<server, list, calls, watched, doubt, clicks>>

ListCards ==
    /\ fetch.pc = "locks"
    /\ fetch' = [fetch EXCEPT !.pc = "cards", !.cards = active \cup fetch.locked]
    /\ UNCHANGED <<server, list, calls, watched, doubt, clicks>>

ListCounts ==
    /\ fetch.pc = "cards"
    /\ fetch' = [fetch EXCEPT !.pc = "counts", !.locked = {}, !.held = {}, !.steady = {},
                   !.counts = [c \in fetch.cards |-> [up |-> Ups(c, stored[c].type),
                                                     down |-> Downs(stored[c].type)]]]
    /\ UNCHANGED <<server, list, calls, watched, doubt, clicks>>

ListMine ==
    /\ fetch.pc = "counts"
    /\ fetch' = [fetch EXCEPT !.pc = "answered",
                   !.mine = [c \in fetch.cards |-> stored[c].type]]
    /\ UNCHANGED <<server, list, calls, watched, doubt, clicks>>

\* The answer replaces the list, reactions shown in advance included.
ListLands ==
    /\ fetch.pc = "answered"
    /\ list' = [c \in fetch.cards |->
                 [up |-> fetch.counts[c].up, down |-> fetch.counts[c].down,
                  mine |-> fetch.mine[c]]]
    /\ doubt' = fetch.risky
    /\ fetch' = NoFetch
    /\ watched' = {n \in watched : calls[n].card \in fetch.cards}
    /\ UNCHANGED <<server, calls, clicks>>

ListFails ==
    /\ fetch # NoFetch
    /\ fetch' = NoFetch
    /\ UNCHANGED <<server, list, calls, watched, doubt, clicks>>

------------------------------------------------------------------------------
(* A reaction: useSetReaction or, of the reaction shown, useRemoveReaction. *)

\* What the page does at once, given what becomes of the fetch under way.
Clicked(c, type, fetching) ==
    LET next == IF list[c].mine = type THEN None ELSE type
        n == clicks + 1 IN
    /\ clicks < MaxClicks
    /\ c \in DOMAIN list /\ ~Disabled(c)
    /\ clicks' = n
    /\ fetch' = fetching
    /\ list' = Patched(list, c, Optimistic(list[c], next))
    /\ calls' = [m \in Calls |->
                  IF m = n THEN [pc |-> "sent", card |-> c, next |-> next, seen |-> NoRow,
                                 answer |-> None, fresh |-> FALSE, lost |-> FALSE,
                                 previous |-> list, doubted |-> doubt, since |-> Busy]
                  ELSE IF UnderWay(m) THEN [calls[m] EXCEPT !.since = @ \cup {c}]
                  ELSE calls[m]]
    /\ watched' = watched \cup {n}
    /\ UNCHANGED <<server, doubt>>

\* Seeded fault: the fetch under way goes on.
Click_CancelsNothing(c, type) == Clicked(c, type, fetch)

\* onMutate: the fetch under way is given up, the list remembered, the reaction
\* shown; the buttons of this row are disabled until the answer.
Click(c, type) == Clicked(c, type, NoFetch)

\* The rows are mounted anew, their buttons enabled, when the reader looks at
\* another tab, or another page, and comes back (bound: while clicks are left).
Remount ==
    /\ watched # {} /\ clicks < MaxClicks
    /\ watched' = {}
    /\ UNCHANGED <<server, list, fetch, calls, doubt, clicks>>

\* upsert_reaction and delete_reaction read the row ...
ServerReads(n) ==
    /\ calls[n].pc = "sent"
    /\ calls' = [calls EXCEPT ![n].pc = "read", ![n].seen = stored[calls[n].card]]
    /\ UNCHANGED <<server, list, fetch, watched, doubt, clicks>>

\* ... and insert, update or delete it later, by its id.  The unique constraint
\* refuses a second row, the ORM an update of a row that is gone (not a delete);
\* a value that is not new is not written.
Refused(n) ==
    LET call == calls[n]
        row == stored[call.card] IN
    /\ call.next \notin {None, call.seen.type}
    /\ row.by # call.seen.by

RowAfter(n) ==
    LET call == calls[n]
        row == stored[call.card] IN
    IF call.next = call.seen.type \/ call.seen.by # row.by THEN row
    ELSE IF call.next = None THEN NoRow
    ELSE [by |-> IF row = NoRow THEN n ELSE row.by, type |-> call.next]

ServerRefuses(n) ==
    /\ calls[n].pc = "read" /\ Refused(n)
    /\ calls' = [calls EXCEPT ![n] = IF @.lost THEN NoCall ELSE [@ EXCEPT !.pc = "refused"]]
    /\ UNCHANGED <<server, list, fetch, watched, doubt, clicks>>

\* The commit.  If it changes the row, what other requests have counted before is
\* no longer so, nor what the page shows if it has given this one up.
ServerWrites(n) ==
    LET c == calls[n].card
        changes == RowAfter(n) # stored[c] IN
    /\ calls[n].pc = "read" /\ ~Refused(n)
    /\ stored' = [stored EXCEPT ![c] = RowAfter(n)]
    /\ calls' = [m \in Calls |->
                  IF m = n THEN IF calls[n].lost THEN NoCall ELSE [calls[n] EXCEPT !.pc = "written"]
                  ELSE IF UnderWay(m) /\ calls[m].card = c /\ changes
                  THEN [calls[m] EXCEPT !.fresh = FALSE]
                  ELSE calls[m]]
    /\ doubt' = IF calls[n].lost /\ changes THEN doubt \cup {c} ELSE doubt
    /\ UNCHANGED <<active, locked, run, list, fetch, watched, clicks>>

\* The two statements of _reaction_summaries.
ServerCounts(n) ==
    LET c == calls[n].card IN
    /\ calls[n].pc = "written"
    /\ calls' = [calls EXCEPT ![n].pc = "counted", ![n].fresh = TRUE,
                              ![n].answer = [up |-> Ups(c, stored[c].type),
                                             down |-> Downs(stored[c].type), mine |-> None]]
    /\ UNCHANGED <<server, list, fetch, watched, doubt, clicks>>

ServerAnswers(n) ==
    /\ calls[n].pc = "counted"
    /\ calls' = [calls EXCEPT ![n].pc = "answered",
                              ![n].answer.mine = stored[calls[n].card].type]
    /\ UNCHANGED <<server, list, fetch, watched, doubt, clicks>>

\* onSuccess: the answer is shown for this option, in whatever order answers come.
ClickSucceeds(n) ==
    LET c == calls[n].card IN
    /\ calls[n].pc = "answered"
    /\ calls' = [calls EXCEPT ![n] = NoCall]
    /\ watched' = watched \ {n}
    /\ list' = Patched(list, c, calls[n].answer)
    /\ doubt' = IF calls[n].fresh THEN doubt \ {c} ELSE doubt \cup {c}
    /\ UNCHANGED <<server, fetch, clicks>>

\* onError: the whole list is what it was before the click, with what the other
\* options, and earlier reactions to this one, showed then.
RolledBack(n) ==
    /\ UnderWay(n)
    /\ list' = calls[n].previous
    /\ watched' = {m \in watched \ {n} : calls[m].card \in DOMAIN list'}
    /\ doubt' = calls[n].doubted \cup calls[n].since
                \cup (IF calls[n].pc \in {"written", "counted", "answered"}
                      THEN {calls[n].card} ELSE {})
    /\ UNCHANGED <<server, fetch, clicks>>

\* The request never arrives, is refused, or its answer is lost ...
ClickFails(n) ==
    /\ RolledBack(n)
    /\ calls' = [calls EXCEPT ![n] = NoCall]

\* ... or the page gives up a request that the server has yet to carry out.
ClickIsLost(n) ==
    /\ RolledBack(n) /\ calls[n].pc \in {"sent", "read"}
    /\ calls' = [calls EXCEPT ![n].lost = TRUE, ![n].previous = <<>>,
                              ![n].doubted = {}, ![n].since = {}]

Next ==
    \/ \E c \in Cards :
          \/ ToggleLock(c)
          \/ \E type \in Clickable[c] : Click(c, type)
    \/ Remount
    \/ \E n \in Calls :
          \/ ServerReads(n) \/ ServerRefuses(n) \/ ServerWrites(n)
          \/ ServerCounts(n) \/ ServerAnswers(n)
          \/ ClickSucceeds(n) \/ ClickFails(n) \/ ClickIsLost(n)
    \/ RunPersists \/ RunReadsLocks \/ RunCompletes
    \/ ListLocks \/ ListCards \/ ListCounts \/ ListMine \/ ListLands \/ ListFails

Spec == Init /\ [][Next]_pvars

------------------------------------------------------------------------------
Shown == [up : {0, 1, 2}, down : {0, 1}, mine : Reactions \cup {None}]

\* No sum the page shows is negative or counts somebody twice, unless a fetch
\* straddled this person's own reaction: optimisticSummary takes off what it
\* believes to be counted, and counts and own reaction are read one by one.
TypeOK ==
    /\ stored \in [Cards -> [by : {0} \cup Calls, type : Reactions \cup {None}]]
    /\ locked \subseteq Cards /\ active \subseteq Cards
    /\ DOMAIN list \subseteq Cards /\ doubt \subseteq Cards
    /\ \A c \in DOMAIN list \ doubt : list[c] \in Shown

\* The page shows the reaction this person's clicks have left on the server, and
\* counts it, unless an answer is awaited, or a failed reaction was rolled back
\* over it, or the list was fetched while one was under way (cancelQueries in
\* onMutate gives up the fetches that began before the click), or a reaction was
\* stored after the page had given it up, or between an answer and its landing:
\* with two reactions to one option under way the later answer need not be the
\* later reaction.
PageShowsMine ==
    \A c \in DOMAIN list \ doubt :
        ~Awaited(c) =>
            /\ list[c].mine = stored[c].type
            /\ list[c].mine = "up" => list[c].up >= 1
            /\ list[c].mine = "down" => list[c].down >= 1

\* An option that was active, or one that was locked, from the first statement of
\* a fetch to the one that reads the options is among them, whatever a completing
\* run supersedes in between (list_options_for_leg, options.py:455).
OptionsStayListed ==
    fetch.pc = "cards" => fetch.held \cup fetch.steady \subseteq fetch.cards
==============================================================================
