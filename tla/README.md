# Verification of Junket

Junket is a trip planner for a group: a FastAPI service over PostgreSQL
(`src/api`) and a Next.js client (`src/client`). A trip is a sequence of legs;
an organizer starts research of a leg, searches find flights, hotels,
activities and transport, the members react to the options, the organizer locks
some, and the budget adds the locked prices up.

This directory holds TLA+ models of the parts of the service where something
can go wrong between two statements, two requests or two deliveries of a job:
the modules, the TLC runs that check them on small instances, and theorems
checked by TLAPS that hold for every value of the constants.

- [Inventory](#inventory): the parts of the system
- [How the code runs](#how-the-code-runs): what the models assume of the
  database, the ORM and the queue
- [Modules](#modules): state and actions against the code
- [Runs](#runs), their bounds, and what they show
- [Findings](#findings): where the code and its own words disagree
- [Proofs](#proofs)
- [Races described but not run](#races-described-but-not-run)
- [Not modelled](#not-modelled) and [Plan](#plan)

Run things from here:

    tlc -config MCOptionLocks_serial.cfg MCOptionLocks
    tlapm OptionLocks_proofs.tla

`PROJECT.json` lists the runs, the seeded faults each property detects (an
operator such as `OtherCards_All` stands beside the operator it would replace),
the source lines of every definition, the findings, hazards and theorems.

## Inventory

| Part | Code | State | Operations | Module |
|---|---|---|---|---|
| Research orchestrator | `services/research.py` | `research_runs`, `legs.status`, `option_cards.superseded_at` | start, execute, supersede | `LegResearch`, `ResearchPipeline` |
| Task queue | `services/task_queue.py` | tasks of the process | enqueue, run | `LegResearch` |
| Searches | `research/serpapi.py`, `transport.py`, `activities.py` | none | HTTP with retries, language-model calls with corrections, parsers | `SearchCalls` |
| Persistence of searches | `services/options.py`, `transport.py`, `activities.py` | cards, details, citations, raw responses | filter, one commit per search | `ResearchPipeline`, `ActivityFilters` |
| Tiering | `research/tiering.py`, `services/combined_tiering.py` | `option_cards.tier` | rank, write back | `CombinedTiers` |
| Listing and reactions | `services/options.py`, client `use-options.ts` and the leg page | `reactions`, the client's cache | list, upsert, delete, optimistic update | `OptionPage` |
| Booking sources | `services/options.py` | `booking_sources` with an expiry | look up, fetch, insert | `BookingSources` over `SearchCalls` |
| Travelers | `services/travelers.py` | `travelers` | create, change, delete | `BookingSources` (numbers only) |
| Legs | `services/legs.py` | `legs` | bulk create, patch, delete | `LegLife`; occupancy in `OptionLocks` |
| Imports, manual options | `services/imports.py`, `research/imports.py`, `routers/legs.py` | cards of type `imported` and others | fetch, extract, insert | `LegLife` |
| Locks | `services/lock.py` | `locks`, `lock_events` | lock, unlock, override price, booked | `OptionLocks` |
| Budget | `services/budget.py`, client `locked-price.ts` | none (reads locks) | amount per lock and total | `OptionLocks` |
| Trips and members | `services/trips.py` | `trips.organizer_id`, `trip_members` | create, add, remove, transfer | `TripMembers` |
| Guards | `core/security.py` | none | `require_organizer`, membership | `TripMembers` |
| Sign-in | `services/auth.py` | `users`, `magic_link_tokens` | request, verify, rename | `TripMembers` (the new user only) |
| Conversion | `services/fx.py` | a cache per run | rate, convert | `CombinedTiers` (an outcome) |
| Client pages and hooks | `src/client` | React Query cache | polling, buttons | `OptionPage`; when research may start in `LegResearch` |

How they interact. `POST /legs/{id}/research` commits a queued run and a
researching leg, and then hands the run to the queue. The queue executes
`run_leg_research` in a session of its own: searches run side by side
(`asyncio.gather`), their results are persisted one commit at a time, flights
and transport through the tiering, and the last commit supersedes the cards of
all other runs of the same types. Meanwhile members lock cards, which protects
them from being superseded; the budget reads locks and the leg's occupancy; the
client polls the leg's status and, while it is researching, its options. Imported
and typed-in options are inserted beside the researched ones while all this goes
on, and the organizer may patch or delete the leg. Reactions go to the service
while the page already shows them. The sellers of an option are looked up when
somebody opens it, and fetched for the travelers of that moment.

What makes each part right, and hard to test:

- *research*: a retried or redelivered run leaves one set of options; a failing
  run takes nobody's options away; the leg's status tells the state of its
  latest run; a ready leg lists the latest results; what is started settles.
  Hard because runs overlap, are delivered again and die between commits, and
  because the leg is written from a session that loaded it minutes ago.
- *tiers*: after a run, the tiers shown on two types of cards, from several runs,
  come from one ranking. Hard because the types are persisted in two commits,
  and a run of one type rewrites the other's.
- *locks and budget*: one lock per option (and per leg for a flight, a hotel, an
  imported option), a complete audit trail, a budget that shows the price
  that was locked. Hard because check and write are two statements.
- *searches*: what was found and paid for is kept whatever fails beside it; only
  a run in which everything answered takes older options away; every attempt is
  bounded. Hard because a run has four searches with up to four outcomes each, and
  the commits of some come before the exception of another.
- *legs and imports*: one leg per position, nights that fit the dates, nothing
  that refers to a leg which is gone. Hard because every handler looks before it
  writes, and an import waits for a page and a model in between.
- *the page*: it shows the reaction the service has, although it showed it
  before, fetches lists that take four statements, rolls back, and may have two
  reactions of one option under way.
- *booking sources*: nothing is paid for twice while it is alive, and a hotel is
  searched for a party it can take.
- *members*: one membership per person, and two records of the organizer that
  agree. Hard because both are written by one transaction and read by another.

The hazards of the code are listed, each at its line and with the properties
that watch it, in `PROJECT.json`.

## How the code runs

These assumptions shape every module.

- PostgreSQL runs the sessions at READ COMMITTED: each *statement* sees what is
  committed when it starts. A handler that reads in one statement and writes in
  a later one is two actions, and others happen in between.
- SQLAlchemy's unit of work emits UPDATE only for columns whose value differs
  from what the *session* loaded, by primary key. `leg.status = "researching"` on
  a leg loaded as researching writes nothing. `LegResearch!WriteLeg` and
  `OptionLocks!Column` are this rule. Sessions do not expire on commit
  (`db/session.py`), so loaded values live as long as the session.
- A commit is atomic, and a rollback leaves nothing of its transaction.
- Unique indexes refuse a second row whatever the handlers read; the handler
  then fails and changes nothing. A handler that answers 4xx, or whose
  `scalar_one_or_none` finds two rows, also changes nothing: in the models it
  is a step that is not enabled.
- The local queue runs each job once in the API's process and forgets it with
  the process. `run_leg_research` is also written for a queue that delivers
  again (`attempt_count`, the early return on a completed run): the constant
  `Redeliver` chooses. A delivery never overlaps an earlier delivery of the same
  job that is still executing; this is the contract assumed of such a queue.

## Modules

`LegResearch` (composes the orchestrator, the queue, the requests and the locks
of one leg). A card stands for the batch one search persists, tagged with its run
and with the execution that wrote it; hotels are searched once per room
composition. `StartRead`, `StartCommit`, `Enqueue` are `start_leg_research` up to
each of its commits and hand-overs. `Load`, `Begin`, `ReadLocks`, `RetryWipe`,
`PersistFound` / `PersistNothing`, `Persisted`, `Finish`, `Fail` are
`run_leg_research` from commit to commit; `ReadLocks` is apart from the wipe it
protects because `supersede_option_cards` reads the locks in an earlier
statement. `Raise` is an unusable extraction or a database error inside the try
block, `WorkerDies` one outside it or a cancelled task, `ProcessCrash` the end of
the process with everything in it. `kept`, `source` and `overlaps` (the runs started
while another was live) are history, read by no action.

`RunLifecycle` is the abstract specification of the runs: absent, queued,
running (counting attempts), then completed for good, or failed until another
attempt. `LegResearch` implements it with the map `status <- runStatus`,
`attempts <- attempt`; the run `research_queue` checks this, and
`LegResearch_proofs!Implements` proves it.

`SearchCalls` has the calls in flight, of any number of searches. An HTTP call
(`_get_json` of `serpapi.py`) is repeated after a transport error or one of the
statuses worth it, up to `HttpRetries` times, and raises otherwise; an agent makes
one research call and then extractions, an unusable one being corrected up to
`AgentRetries` times. What a service answers is one of `Answers[s]`, and parsing it
is part of the step: incomplete rows are dropped, a departure time nobody can
read fails the whole search, a range of prices becomes its middle, the minutes of
a flight without a total are summed over the segments that state theirs.

`ActivityFilters` is the three filters of `services/activities.py` as operators on
sets: cited, plausibly priced among the others of the currency (`TwiceMedian` keeps
the median whole), possible on the day of a long flight.

`ResearchPipeline` extends both: what `run_leg_research` makes of its searches when
runs of a leg follow one another. `Search` is a step of one call, `Gather` the end
of `asyncio.gather(return_exceptions=True)`, `PersistHotels`, `PersistActivities`,
`PersistFlights`, `PersistTransport` the commits in the order of the code, with the
exceptions each may end in; `Finish` and `Fail` the last commit. Overlaps, retries
and crashes are in `LegResearch`, where a search is one step.

`BookingSources` extends `SearchCalls` with one card, the rows stored for it (a
`batch` per fetch, which expires as a whole), time, the travelers of the trip, and
requests: `LookUp`, `ReadParty` (hotels; `_hotel_party_for_leg` is `HotelParty`),
`Fetch`, `StoreRows`, `Refuse`.

`LegLife` has the legs of one trip with the rows that refer to them. A request is a
read and a write (`CreateRead`/`CreateWrite`, `PatchRead`/`PatchWrite`), or the
steps between which a handler awaits (`DeleteLocks`, `DeleteCards`, `DeleteRow`;
`ImportStart`, `ImportFetched`, `ImportPersist`). The UPDATE of a patch holds the
columns that differ from what was read. Foreign keys and the unique index are the
conditions of the writes. Research and locks are as coarse as legs can tell.

`OptionPage` has both sides of one person's list of options: on the server the row
of `reactions` for each option, the options active and locked, and a run that
replaces them; on the page the cached list, one fetch and the requests of reactions
(`calls`, numbered as they were clicked). A fetch is the four statements of
`list_options_for_leg` (`ListLocks`, `ListCards`, `ListCounts`, `ListMine`) and the
landing of its answer. `Click` is `onMutate`. The button is disabled by the state of
the mutation in the mounted row, so `watched` holds the requests some mounted row
waits for, and `Remount` empties it: the reader looks at another tab and comes back
(`page.tsx:164`, `294-309`); a row that leaves the list is unmounted with it. Then
the same option may be clicked again while its request is under way. On the server
each request reads the row (`ServerReads`), writes it or is refused (`ServerWrites`,
`ServerRefuses`: the unique constraint, or an update of a row that is gone), and
reads counts and own reaction (`ServerCounts`, `ServerAnswers`), in any interleaving
with the others. `ClickSucceeds` is `onSuccess`; `ClickFails` and `ClickIsLost` are
`onError`, the second of a request the server will yet carry out.

`doubt`, `held`, `steady`, and in a request `fresh`, `doubted` and `since`, are
bookkeeping, read by no guard. An option comes to be in doubt when a list is put
back over a reaction that was under way or came later, or over one in doubt at the
click, or back to what was shown before the failed request was written; when a list
lands whose fetch began with a reaction under way; when a request is carried out
that the page has given up; and when an answer lands after another request has
changed what it read. The answer of a request nothing has overtaken, and a fetch
that began with nothing under way, end it.

`CombinedTiers` has the flights and transport of one leg with their prices and
tiers. Runs follow one another, as the client starts them; overlapping runs,
retries and crashes are `LegResearch`'s subject. A search returns nothing, an
unusable extraction, or a set of options; an option has a price in the home
currency and the way it is known (stated in it, converted, in a currency without
a rate, or no price). `Tierings(pool)` is the cut of `partition_price_tiers`: the
set of its possible results, because equal prices may be ranked either way.
`PersistFlightsJoint` / `PersistTransportJoint` are the two commits of a full run
that found both; `PersistFlights` / `PersistTransport` the ones that rank with
peers and write the peers' tiers.

`OptionLocks` has the locks of one leg with their events, each handler of
`services/lock.py` as a read and a write, the change of occupancy by `patch_leg`,
and, as operators, the amount `get_trip_budget` shows for a lock. A card without a
lockable price (none, or of another currency) has `BasePrice = None`.

`LockLedger` is the abstract specification of the locks, as members see them: one
price for each locked option, changed by one of `Lock`, `Reprice` and `Unlock` at a
time. `OptionLocks` implements it with the prices of an option's active rows for
`prices` (`Ledger`): for the types the partial unique index covers however requests
overlap, for all while they do not (`LedgerCards`). Bookings and changes of the
occupancy are steps the ledger does not see. `locks_serial` checks it for requests one
after the other, and `OptionLocks_proofs!LocksKeepALedger` proves both.

`TripMembers` has the members of one trip and `organizer_id`. A request is a
guard (reads the trip), a read and a write; `transfer_organizer` reads the trip
again, but the session answers with the object the guard loaded as long as
anything holds it, so `TransferRead` may have either. `Register` is the
first sign-in.

The `MC` modules give the constants of the runs; the `_proofs` modules hold the
theorems.

## Runs

Times are of two workers.

| Run | Asks | Instance | Time |
|---|---|---|---|
| `research_queue` | Do retries, redeliveries, crashes and locks leave one set of options and a faithful run life cycle? | 2 runs at any time, 3 executions, redelivery, crashes, one room and activities | 90 s |
| `research_live` | Does everything that is started settle, and does the leg tell the truth when runs do not overlap? | 2 runs at any time, full or hotels, no crash, fairness | 90 s |
| `searches_answers` | What is left of a run's searches, whatever they answer? | 3 runs, one more attempt each, flights long, short, unstated and unreadable, 8 activities in 2 currencies | 30 s |
| `tiers_prices` | Do the tiers shown come from one ranking? | 3 runs of any kind and outcome, one lock at a time | 45 s |
| `tiers_twice` | Does a run make one card of each option? No. | 1 run | 1 s |
| `leg_life` | Do legs and what refers to them stay consistent? | 2 requests, 2 positions, 3 options or runs, an import, 7 answers of the model | 3 min |
| `leg_page` | Does the page show this person's reactions, and every option that stays? | an option before (up, down, locks) and one found (up), 2 clicks, on one option at once too, one fetch at a time | 3 min |
| `booking_cache` | Is a seller list paid for twice only by requests that overlap, and for the right party? | 2 requests for a flight or 3 for a hotel, rows that live 2 of 4 instants, a change of the travelers | 1 min |
| `locks_concurrent` | What holds however requests overlap? | 2 requests, 2 hotels, an activity, an option without price, 2 lock rows | 2 min |
| `locks_serial` | What more holds when they do not, and do members see a ledger of all options? | 1 request at a time, 2 hotels and an activity, 2 prices, 4 events | 2 min |
| `locks_override` | Does the budget show an overridden price? No. | 1 request, 1 activity | 1 s |
| `members_roles` | One membership each, and an agreed organizer? | 3 people, 2 requests, 4 rows; a removal or transfer overlaps additions only | 10 s |

Why these bounds are enough to be interesting.

- *Research.* A property of a retry beside another run needs two runs and three
  executions. Types of cards differ only in their scope, the order of persistence
  and whether locks exclude one another: a room (single lock) and an activity (no
  such limit) cover the locks, a full run beside a single type the scopes.
  `LockableUnits` keeps locks out of the live run, where a lock can only make a card
  stay.
- *Searches.* One retry and one correction tell "again" from "given up". The first
  run leaves flights, the second a type whose cards may replace them or not, the
  third activities that read the flights. The amounts sit on both sides of the
  limits: ten times a median of two and of three peers, a median of zero, a single
  peer, and a flight longer than the limit, shorter, or without a duration.
- *Tiers.* `PerTier = 1` makes three tiers of one card each, so four priced cards
  already overflow, the interesting cut. The finds include nothing, an equal price
  in both types, a price without a rate and an option without a price. Three runs
  give two types persisted by two runs and ranked again by a third.
- *Legs.* Two requests are all a lost check needs. The second leg shares the
  position wanted by both, three rows are an import beside a run and what it
  found, and the answers of the model are all combinations that validate, and one
  of each kind that does not.
- *The page.* One option is there from the start and one appears, somebody else
  has voted for one of them. Two clicks are a reaction and its change or removal,
  one after the other or at once after a `Remount`, or reactions of two options at
  once: enough for an answer that is overtaken and for a snapshot put back over
  another reaction. `Clickable` and `Lockable` leave one option to be reacted to both
  ways and locked, the other to be voted up; `Remount` happens while clicks are left.
  The number of fetches is not bounded. Three requests of one option at once are
  covered by the proof only.
- *Booking sources.* Rows expire during a request and between requests; a party of
  seven with six children leaves one adult out of six places, and one more child
  does not fit. Three requests let one see the rows of two others.
- *Locks.* Two overlapping requests are all a lost update or a double insert
  needs. The two hotels cost the same, so that they are interchangeable
  (`HotelSymmetry`). `MaxEvents` stops price changes after so many events of one lock.
- *Members.* Founder, new organizer and a third person; four rows let somebody
  be removed and invited again.

Deadlock is checked for the members; elsewhere a system in which every run is
over and every lock row used may stop (`CHECK_DEADLOCK FALSE`, with the reason in
the cfg).

What the passing properties say:

- `RetryLeavesNoDuplicates`: the active cards of a completed run come from one
  attempt, save those a retry found locked.
- `OptionsLeaveWithCompletionOrRetry`: a card is superseded only by a retry of its
  own run, or in the commit that completes another run over its type.
- `ImplementsLifecycle`: a finished run stays finished; attempts count one by one.
- `LegShowsLatestRun`, `ReadyLegListsLatestResults`: as long as no run was started
  while another was live (`overlaps = {}`), as the client's button starts them
  (`canStartResearch`, on a cached status, and only in that tab), the leg's status
  is that of its latest run, and a ready leg lists the latest results of each type.
  Nothing in the service enforces it, see the races below.
- `RunsSettle`, `LegSettles`: under the fairness below, overlaps included, without
  crashes.
- `AnswersComeOfTheLastAttempt`: no call makes more attempts than the settings
  allow, and options come of the one attempt after the unusable ones.
- `AnswersAreKept`: at the end of a run, failed or not, there is a raw response of
  every search that answered and a card of every hotel, flight and transport
  option it had; an unusable activities extraction is the exception.
- `PricesJudgedAmongPeers`: an activity within ten times each of its peers (of the
  same currency) is kept, one beyond ten times each of two or more is not: what the
  filter promises, said without a median.
- `ActivitiesRunHeedsFlights`: after a run of activities alone, nothing is listed
  for the days of arrival and departure if all flights of the leg are long, and
  everything plausible otherwise.
- `OptionsLeaveWithAnswers`: options leave only in the commit that completes a run
  over their kind in which every search answered. `RunEnds`: every run ends.
- `TiersFollowPrices`: after a completed run that ranked something, a cheaper
  card is never in a dearer tier than another, across types and runs; cards that
  only a lock kept from being superseded are excepted.
- `TiersAreThoseOfThePool`: and, when there is none of these, the tiers are those
  of one ranking of exactly the cards shown. A full run on a leg whose airport
  codes were removed is excepted: its transport is ranked with the old flights,
  which its completion then supersedes (`research.py:269-284`, `555`); the order of
  the tiers still follows the prices.
- `OneLegPerIndex`, `RowsHaveTheirLeg`, `DeletionTakesNothing`: hold however
  requests overlap, by the constraints of the schema, which the handlers' own
  checks would not be enough for. `DatesAgree` needs `OnePatchAtATime`, see below.
- `PricesAreQuoted`: an imported price, and so an imported option that can be
  locked, has a quote of the page, whatever the model emitted.
- `PageShowsMine`: the page shows the reaction stored, and counts it, unless one is
  under way or the option is in `doubt`, for one of the named reasons. It holds
  with several requests of one option at once; what they leave wrong on the page is
  the doubt, see below.
- `OptionsStayListed`: an option active, or locked, all through a fetch is in its
  answer, although locks and cards are read in two statements and a completing
  run may supersede what it finds unlocked in between.
- `SecondFetchesOverlap`: a card is fetched again while rows of it are alive only
  by a request that looked before the first one's commit. `SearchedPartyFits`: a
  hotel is searched with every child, with everybody if they fit, else with as many
  as fit.
- `OneLockPerSingleType`, `LockingIsAudited`, `SnapshotsStick`: hold however requests
  overlap. `OneLockPerCard`, `AuditTellsTheLife`: only when they do not.
  `ImplementsLedger`: a locked option has one price, which was quoted when it was
  locked, until somebody types in another; and a leg has one locked option of a
  type of which it has one.
- `OneMembershipEach`, `OrganizerAgrees`. The first holds however requests
  overlap (and is proved so); the second needs `RolesAlone`: two transfers, or a
  removal and a transfer, at the same time break it, see below.

Fairness (`LegResearch!FairSpec` and `ResearchPipeline!FairSpec`, the only ones
used). A request that has read the leg goes on, a job in the queue is executed when
an execution is free, an execution goes on, and so does each call in flight: they
are coroutines of one event loop, whose awaits end by a result or a timeout of
the HTTP clients. Each is weak fairness, as nothing takes their turn away. Nobody
is obliged to start research, and the runs without crashes are the ones that use
it: after a crash nothing picks a run up again.

## Findings

Each is a run in which TLC finds a state the code reaches and its own words
exclude.

1. `locks_override`. `adjust_price` clears the unit price and the party size so that
   the budget "correctly falls back to showing just the flat total"
   (`lock.py:250-252`); `get_trip_budget` (`budget.py:88-106`) takes a lock without them
   for one that predates the snapshots, rebuilds both from the card and the leg,
   and shows the old price.
2. `tiers_twice`. In a full run that found flights and transport, an option whose
   price was converted is persisted twice: ranked, in the home currency, and
   untiered, in its own. `priced_foreign` (`transport.py:302-308`) compares object
   identities, and the ranked one is a clone (`transport.py:173-180`).

## Proofs

TLAPS proves, for any number of runs, executions, rooms, legs, cards, prices,
requests and members, and whatever the services answer:

| Theorem | Of |
|---|---|
| `LegResearch_proofs!TypeCorrect`, `Inductive` | `TypeOK` and the inductive invariant `IInv` |
| `LegResearch_proofs!NoDuplicates` | `RetryLeavesNoDuplicates` |
| `LegResearch_proofs!OptionsLeave` | `OptionsLeaveWithCompletionOrRetry` |
| `LegResearch_proofs!Implements` | `ImplementsLifecycle`: refinement of `RunLifecycle` |
| `LegResearch_proofs!LegTellsTheTruth`, `LegListsLatest` | `LegShowsLatestRun`, `ReadyLegListsLatestResults`, when `~Redeliver` |
| `OptionLocks_proofs!LocksInvariant`, `LockTypes` | the inductive invariant `LInv` and its `TypeOK` |
| `OptionLocks_proofs!OneLockPerType`, `EveryLockAudited`, `BudgetKeepsSnapshots` | the properties of `locks_concurrent` |
| `OptionLocks_proofs!UnlockedForGood` | `UnlockIsFinal`: a late price change or booking does not bring an unlocked lock back |
| `OptionLocks_proofs!NoOptionTwice`, `LifeIsTold` | `OneLockPerCard`, `AuditTellsTheLife`, when `OneAtATime` |
| `OptionLocks_proofs!LocksKeepALedger` | `ImplementsLedger`: refinement of `LockLedger` |
| `TripMembers_proofs!MembershipInvariant`, `MemberTypes` | `TypeOK`, `OneMembershipEach`, without `RolesAlone` |
| `TripMembers_proofs!OrganizersAgree` | `OrganizerAgrees`, when `RolesAlone` |
| `LegLife_proofs!LegsInvariant`, `OneLegEach`, `RowsKeepTheirLeg`, `DeletionsTakeNothing` | the inductive invariant `LegsInv`, `OneLegPerIndex`, `RowsHaveTheirLeg`, `DeletionTakesNothing` |
| `LegLife_proofs!DatesFit` | `DatesAgree`, when `OnePatchAtATime` |
| `LegLife_proofs!CardsInvariant`, `LegTypes`, `ImportedPricesAreQuoted` | the inductive invariant `CardsInv`, `TypeOK`, `PricesAreQuoted` |
| `ResearchPipeline_proofs!PipelineInvariant`, `PipelineTypes` | the inductive invariant `PipeInv` and `TypeOK` |
| `ResearchPipeline_proofs!AttemptsAreBounded`, `FailuresCostNoAnswers`, `FailedRunsHideNothing` | `AnswersComeOfTheLastAttempt`, `AnswersAreKept`, `OptionsLeaveWithAnswers` |
| `ResearchPipeline_proofs!FiltersInvariant`, `PricesAreJudgedByRatio`, `LongFlightsFreeTheirDays` | the inductive invariant `FiltersInv`, `PricesJudgedAmongPeers`, `ActivitiesRunHeedsFlights` |
| `SearchCalls_proofs!SourcesInvariant`, `BookingTypes` | the inductive invariant `SourcesInv` and `BookingTypeOK` |
| `SearchCalls_proofs!OnlyRacesFetchTwice`, `EveryChildIsSearchedFor` | `SecondFetchesOverlap`, `SearchedPartyFits` |
| `OptionPage_proofs!PageInvariant`, `PageShowsReactions`, `NothingListedIsMissed` | the inductive invariant `PageInv`, `PageShowsMine`, `OptionsStayListed` |
| `OptionPage_proofs!SumsInvariant`, `PageTypes` | the inductive invariant `PageSums` and `TypeOK` |
| `CombinedTiers_proofs!TiersInvariant`, `TiersTypes` | the inductive invariant `TiersInv` and `TypeOK` |
| `CombinedTiers_proofs!CheaperIsNeverDearer`, `RankingIsOfTheList` | `TiersFollowPrices`, `TiersAreThoseOfThePool` |
| `CombinedTiers_proofs!TiersHoldThree` | `AtMostPerTier`: of the cards shown, save those a lock spared, no tier has more than its three, although every run ranks into the same tiers |
| `CombinedTiers_proofs!OthersAreCardedOnce` | `OnlyConvertedTwice`: a run persists no option twice but a converted one, so that the finding `tiers_twice` is the whole of it |
| `CombinedTiers_proofs!RunsAlwaysRank` | `AlwaysRanked`: a run about to rank finds a ranking |

`SearchCalls_proofs` holds the proofs of `BookingSources` too, which extends
`SearchCalls`.

Assumptions: only the named ones on the constants (`ConstantsOK`,
`LockConstantsOK`, `MembersConstantsOK`, `LegConstantsOK`, `CallConstantsOK`,
`BookingConstantsOK`, `PipelineConstantsOK`, `AnswersOK`, `FilterConstantsOK`,
`OptionsOK`, `PageConstantsOK`), which TLC evaluates in the runs. They say what the
code's types do: an answer is a finite list of activities, a flight's price is in the
currency it states, a duration is a number and "no flights" is not one, a trip has
a home currency. What a theorem needs beyond them (`~Redeliver`, `OneAtATime`,
`RolesAlone`, `OnePatchAtATime`) is the antecedent of its statement; the section on
races says what happens without.

**Research.** That a completed run has no cards of two attempts is not inductive:
nothing in it keeps a second execution of the run from persisting. `IInv` adds what
does. A job is executed once at a time (`OneExecutionPerRun`, from the guard of
`Load`); an execution past `Begin` executes a *running* run (`ExecutionsMatchRuns`),
so a completed run has no execution; after the wipe the run's active, unspared cards
are the execution's own (`OnlyOwnCardsAfterWipe`), which needs that a first attempt
finds no card of its run (`CardsMatchRuns`: cards belong to runs with an attempt);
wipes happen at attempt two or later (`WipesAreRetries`); and the queue holds
committed runs only (`RequestsMatchRuns`). `OptionsLeave` and `Implements` are then
consequences, step by step.

What the leg shows needs more. With a queue that runs a job once, a job waits in
one place (`DeliveredOnce`): with its request, in the queue or in an execution; so
no run is retried and whatever executes is live. While `overlaps` is empty a live
run is then the only one and the last (`LiveIsLast`), so whoever is about to write
the leg's status has seen it as it is and writes what its run has become
(`LegIsAsSeen`), and nobody supersedes what the execution in flight has stored
(`LatestIsListed`). Deaths of workers and of the process are among the steps.

**Locks.** `SnapshotsStick` multiplies two columns: `SnapshotsTaken` says of each
row, and of each row a request is about to insert, that its price is that product,
as long as no price change is in its events. For requests that do not overlap,
`SerialInv` says that what the one request has read is still so
(`ReadStillHolds`): the card it will lock has no lock, the row it will change is
active and has the price it has seen; `Told` then survives one more event. The ledger
needs that an option of it has one active row (`OneRowEach`): by the index for its
types, by `SerialInv` for the others; a request writes a price the ledger allows
(`RequestsQuoted`), computed from an occupancy that may have changed since; and a
late write to a row that is no longer active changes nothing members see.

**Members.** `AccountsAreKnown` carries what a request has read to its write. For
the roles, a removal or a transfer is alone with additions (`Alone`), so the
organizer's row it has seen, and the trip its guard has read, are the current ones.

**Legs.** `LegsInv` is the two properties and the shape of requests: the unique
index and the foreign keys, which are conditions of the writes, do the work, and
`Deleted` shows that a row that may go has nothing that refers to it. `DatesFit`
adds `PatchesFit`: what a PATCH under way will leave fits, which only another PATCH
can change.

Imports: ids are counted, so a row added disturbs no other (`Counted`), and an
extraction that knows a price has a quote and a currency (`FairParsed`), which the
card made of it keeps until it is locked (`FairCard`).

**Tiers.** `RankedOver(pool)` says that the tiers of these cards are those of one
ranking of them, and `Pool` is what the run in progress ranks. `Progress` follows a run:
before its first commit it has no cards; between its commits it has its flights, and
either the plan of a joint ranking or a ranking already written; before the
completion both, ranked. `FinishStep` is the argument: what remains listed when the
others are superseded was in the pool, and when no lock spared a card nothing else
was, the pool of a full run without airport codes excepted. That a dearer card is
in no cheaper tier and that a tier holds three is then a fact about `Tierings`
(`CheaperFirst`, `TierSizes`: a tier is the difference of two of the three cuts). That
a ranking exists is by minimality instead of induction: among the sets of cards
nobody outside undercuts, a smallest one with at least *n* cards has *n*, as its dearest
card could go (`CheapestWithin`).

**Searches.** `CallsInv` (`SearchCalls_proofs`) says of every call that an agent has
as many unusable answers behind it as attempts but the last; both modules that make
calls use it. `PipeInv` tells phase by phase which searches are `Kept` (the raw
response and the cards are those of the answer) and which are `Untouched`;
`FailuresCostNoAnswers` is its last phase. `FiltersInv` adds what becomes of an answer
before it is stored: parsed prices are numbers and durations are known or not
(`Parsed`, `FlightsTimed`), and what is stored is what the filters leave (`Filtered`).
That the median lies between the least and the greatest of the peers needs a lowest
number of any finite set (`LowestNumber`, by the pigeonhole theorem); then one within
ten times of each peer is within ten times of the median.

**Booking sources.** Two fetches of one card that are alive together overlapped
because a request that will fetch has seen nothing alive (`SawNothing`): what is
stored now was stored after it looked, or had expired by then. `EveryChildIsSearchedFor`
is arithmetic on `HotelParty`.

**The page.** `PageInv` has three records of what is stored that must agree when
nothing is under way: what the page shows (`ShownAgrees`), what each request keeps to
roll back to and what it will bring back (`CallsRemember`), and what a fetch has read
so far (`FetchAgrees`). Each is true but for the options of requests it knows of:
`since` has the option of every other request that is still on its way, those the
page has given up included, so that a write finds every record that could go wrong
already warned (`WritesStep`). The answer of a request is true while it is `fresh`:
a write by another request of the same option ends that (`WriteOthers`). Nothing is
assumed of how many requests an option has under way. `PageSums` says of each list
shown, remembered or fetched that its sums are those of everybody else's votes and
of the reaction beside them (`CountsAll`); the arithmetic of `optimisticSummary`
keeps it (`OptimisticIsRight`), so that no sum turns negative.

Checked by TLC only: liveness, since fairness and ENABLED are outside the prover's
reach: `RunsSettle`, `LegSettles` and `RunEnds`. The two runs that expect a violation show a
behaviour, for which there is nothing to prove.

## Races described but not run

The code does not hold these. Each follows from the models, when the restriction
named is dropped; none has a run of its own.

- *Overlapping runs.* `supersede_option_cards(exclude_research_run_id)`
  (`research.py:555-560`) supersedes the cards of *every* other run, also those a run
  started later has already found, where `research.py:216-217` speaks of "prior
  peers"; a ready leg may then list the older results. (`overlaps = {}` in
  `ReadyLegListsLatestResults`.)
- *An old job delivered again.* With a queue that delivers again, the retry of a
  failed run may come while a newer run is live or after it is over: the leg then
  shows the state of the older run. (`LegShowsLatestRun` with `Redeliver`.)
- *A lock during a supersede.* `supersede_option_cards` reads the active locks and
  updates the cards in a later statement; a card locked in between is superseded.
  Listing shows locked cards even so (`options.py:475-477`), so it is felt only when
  the card is unlocked: it then disappears.
- *A leg left behind.* After a crash between the commit of the queued run and
  the hand-over to the in-process queue, or in the middle of a run, the leg stays
  researching; the client shows no button then. With `MayCrash = TRUE` both
  liveness properties fail.
- *Two locks of one activity.* For activities and transport `create_lock` checks and
  inserts in two statements (`lock.py:150-164`) with no index behind it: one option,
  two active locks, although `lock.py:160` refuses "Option already has an active
  lock". From then on every lookup of that lock by `scalar_one_or_none` raises.
  (`OneLockPerCard` without `OneAtATime`.)
- *Overlapping changes of one lock.* Two price changes audit the same previous
  price; of two "booked" the later overwrites the time of the first, which the
  docstring of `set_booked` keeps (`lock.py:285-287`); a price change that began
  before an unlock is audited after it.
- *Two PATCHes of one leg.* Each sends one date, computes the nights from the other
  it has read, and checks the order of the two (`legs.py:128-145`): together they
  leave nights that fit neither, or an end before the start. (`DatesAgree` without
  `OnePatchAtATime`.)
- *A leg that cannot be deleted.* `delete_leg` asks for active locks and surviving
  cards; runs and superseded cards pass and still refer to the leg, no foreign key
  cascades, and the DELETE ends in an integrity error: a leg that was ever
  researched stays.
- *Activities before flights.* A full run filters its activities before its own
  flights are stored (`research.py:521-541`), so the days of arrival and departure
  are judged by the flights of earlier runs, superseded ones included, or by none.
  And a flight none of whose segments states a duration is stored with 0 minutes
  (`serpapi.py:174-180`), where the filter means to ignore flights without one
  (`activities.py:150-151`): it counts as a short flight.
- *Half a run.* An unusable activities extraction raises before flights and
  transport are stored: what was found of them, and paid for, is lost.
- *Rollbacks of the page.* A failed reaction restores the whole cached list of its
  click (`use-options.ts:81`), and with it older reactions of other options; the
  last poll of the options may be older than the ready leg that ends the polling
  (`page.tsx:77`).
- *Two reactions of one option.* The button is disabled by the mounted row only
  (`OptionsTable.tsx:82`): after a change of tab it is enabled while the request is
  on its way, so one window is enough for two at once. Answers are shown in the
  order they arrive (`use-options.ts:86`, `115`), which need not be that of the
  commits; if both fail, the later snapshot, which shows the earlier reaction, may be
  put back last; the unique constraint refuses one of two inserts, and that page rolls
  back. The option is in doubt then, until it is fetched or reacted to again.
- *A leg that is pending.* The comment at `use-trips.ts:60-61` expects a leg to leave
  "pending" under polling, which polls researching legs only.
- *Sellers of nothing.* A fetch that finds no seller leaves no row, so every look is
  another paid call. The sellers of a hotel are searched for the travelers of the
  trip, although `options.py:747` says "Same traveler → hotel guest mapping" as
  research, which searches the rooms of the leg.
- *Two changes of the organizer.* Two transfers at once, each demoting the organizer
  it had read, may leave two rows with the organizer's role; a removal that read
  the new organizer's row before the transfer deletes it. (`OrganizerAgrees` without
  `RolesAlone`.)
- *Invited before the first sign-in.* Such a member stays without `user_id`; the
  guards let them in by e-mail, `transfer_organizer` refuses them as not a member
  (`trips.py:212-222`).

## Not modelled

The details, citations and raw responses of a card beyond their number (inserted
with it and never changed); the text and validation of requests; prompts and the
parameters of searches; amounts and rounding of conversions; the session token
and the life of a sign-in link; names and ages of travelers; `patch_trip` and
`delete_trip`; migrations, scripts and the client's forms and layout. Trips share no
state with one another, and legs only through the trip's home currency and
members, so one trip is modelled, and one leg of it outside `LegLife`.

What a search answers is a choice among a few contents: the models say what
becomes of an answer, not which answers a service gives.

## Plan

Built, in this order: `LegResearch` with `RunLifecycle`, `OptionLocks`,
`TripMembers`, `CombinedTiers`; then `LegLife`, `OptionPage`, `SearchCalls`,
`ActivityFilters`, `ResearchPipeline`, `BookingSources`; then `LockLedger`. Every safety
property of a passing run is proved, and some that no run checks (`UnlockIsFinal`,
`AtMostPerTier`, `OnlyConvertedTwice`, `AlwaysRanked`).

Left: an abstract roster of members which `TripMembers` implements, when
`RolesAlone`; that `BookingSources` fetches with at most one request per overlap as a
bound on paid calls; `patch_trip` and `delete_trip` with the statuses of a trip; the
life of a sign-in link; the occupancy of a leg against the travelers of its trip in
one module with the locks.
