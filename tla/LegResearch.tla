----------------------------- MODULE LegResearch -----------------------------
(***************************************************************************)
(* The research orchestrator of one leg: services/research.py on top of    *)
(* services/task_queue.py.                                                 *)
(*                                                                         *)
(* A request (start_leg_research) inserts a queued ResearchRun, commits,   *)
(* and only then hands the run to the task queue.  A delivery of the queue *)
(* is one execution of run_leg_research: it loads the run, commits         *)
(* "running", wipes the cards of an earlier attempt of the same run,       *)
(* persists what each search found (one commit per search), and at the end *)
(* supersedes the cards of every other run in the same commit that makes   *)
(* the run completed and the leg ready.  Several runs of one leg, and the  *)
(* organizer's locks, interleave between any two commits.                  *)
(*                                                                         *)
(* A card stands for the non-empty batch one search persists; searches are *)
(* identified by their unit, a hotel search by the room composition it was *)
(* made for.  Legs share no state, so one leg is modelled.                 *)
(***************************************************************************)
EXTENDS Naturals, FiniteSets

CONSTANTS
    NRuns,          \* how many research runs are requested (bound)
    Deliveries,     \* the executions of run_leg_research (bound)
    Rooms,          \* the distinct room compositions of leg.filters
    RequestedTypes, \* the run types the callers ask for
    Redeliver,      \* the queue delivers a job any number of times
    MayCrash,       \* workers, requests and the queue's process may die
    LockableUnits   \* the searches whose options get locked (bound)

AllRunTypes == {"full", "flights", "hotels", "activities", "transport"}

ASSUME ConstantsOK ==
    /\ NRuns \in Nat
    /\ Rooms \cap {"activity", "flight", "transport"} = {}
    /\ RequestedTypes \subseteq AllRunTypes
    /\ Redeliver \in BOOLEAN
    /\ MayCrash \in BOOLEAN
    /\ LockableUnits \subseteq Rooms \cup {"activity", "flight", "transport"}

Runs == 1..NRuns
Units == Rooms \cup {"activity", "flight", "transport"}
OptionTypes == {"flight", "hotel", "activity", "transport"}
Card == [run : Runs, by : Deliveries, unit : Units]

VARIABLES
    \* the database
    runStatus,   \* research_runs.status, "absent" before the insert
    runType,     \* research_runs.run_type
    attempt,     \* research_runs.attempt_count
    legStatus,   \* legs.status
    cards,       \* option_cards rows
    superseded,  \* those with superseded_at set
    locked,      \* option cards with an active lock
    \* start_leg_research and the task queue
    request,     \* where the request of each run is
    reqLeg,      \* leg.status as the request's session loaded it
    inbox,       \* runs whose job the queue holds
    worker,      \* the executions of run_leg_research, see Worker
    \* history, read by no action
    kept,        \* cards a retry wipe spared because they were locked
    source,      \* the delivery that last completed a run of each type
    overlaps     \* the runs started while another was live

dbVars == <<runStatus, runType, attempt, legStatus, cards, superseded, locked>>
requestVars == <<request, reqLeg, inbox>>
historyVars == <<kept, source, overlaps>>
vars == <<dbVars, requestVars, worker, historyVars>>

-----------------------------------------------------------------------------
(* Vocabulary *)

RunStatuses == {"absent", "queued", "running", "completed", "failed"}
LegStatuses == {"pending", "researching", "ready", "failed"}
WorkerPcs == {"idle", "begin", "wipeRead", "wipe", "persist", "finishRead",
              "finish", "except", "done"}
\* Inside the try block: an exception reaches the handler.
InTry == {"persist", "finishRead", "finish"}

FetchErrors == {"none", "raised"}

\* The locals of one execution of run_leg_research.
Worker == [pc : WorkerPcs,
           job : {0} \cup Runs,           \* the run it executes
           seenLeg : LegStatuses,         \* leg.status as its session loaded it
           todo : SUBSET Units,           \* searches not yet persisted
           firstError : FetchErrors,      \* first_error
           lockedIds : SUBSET Card]       \* _active_lock_option_card_ids
NoLocals == [pc |-> "idle", job |-> 0, seenLeg |-> "pending", todo |-> {},
             firstError |-> "none", lockedIds |-> {}]
Over == [NoLocals EXCEPT !.pc = "done"]

InFlight(d) == worker[d].pc \notin {"idle", "done"}

TypeOfUnit(u) == IF u \in Rooms THEN "hotel" ELSE u

ScopedTypes(t) ==
    CASE t = "full" -> OptionTypes
      [] t = "flights" -> {"flight"}
      [] t = "hotels" -> {"hotel"}
      [] t = "activities" -> {"activity"}
      [] t = "transport" -> {"transport"}

\* The searches a run of type t makes when the leg has both airport codes
\* (iata) and does not skip hotels.
Searches(t, iata, skipHotel) ==
    {u \in Units : /\ TypeOfUnit(u) \in ScopedTypes(t)
                   /\ u = "flight" => iata
                   /\ u \in Rooms => ~skipHotel}

\* Hotels are persisted first, then activities, flights, transport.
NextUnits(S) ==
    IF S \cap Rooms # {} THEN S \cap Rooms
    ELSE IF "activity" \in S THEN {"activity"}
    ELSE IF "flight" \in S THEN {"flight"}
    ELSE S

Live(r) == \/ runStatus[r] \in {"queued", "running"}
           \/ request[r] \in {"read", "committed"}
Busy(r) == \E d \in Deliveries : InFlight(d) /\ worker[d].job = r

Active_Unborn == Card \ superseded
\* superseded_at IS NULL
Active == cards \ superseded
ActiveOfTypes(ts) == {c \in Active : TypeOfUnit(c.unit) \in ts}
ScopeOf(d) == ScopedTypes(runType[worker[d].job])

OwnCards_None(d) == {}
OwnCards_AnyRun(d) == ActiveOfTypes(ScopeOf(d))
\* supersede_option_cards(only_research_run_id = the run of d)
OwnCards(d) == {c \in ActiveOfTypes(ScopeOf(d)) : c.run = worker[d].job}
OtherCards_All(d) == ActiveOfTypes(ScopeOf(d))
\* supersede_option_cards(exclude_research_run_id = the run of d)
OtherCards(d) == {c \in ActiveOfTypes(ScopeOf(d)) : c.run # worker[d].job}

WriteLeg_Forgotten(seen, new) == legStatus
\* leg.status = new in a session that loaded the leg as seen: the commit
\* writes the column only when the value changed in the session.
WriteLeg(seen, new) == IF seen = new THEN legStatus ELSE new

AlreadyCompleted_Never(r) == FALSE
\* The redelivery of a finished job does nothing.
AlreadyCompleted(r) == runStatus[r] = "completed"

HandlerWrites_Queued(r) == runStatus[r] = "queued"
\* The exception handler does not overwrite a completed run.
HandlerWrites(r) == runStatus[r] # "completed"

-----------------------------------------------------------------------------
Init ==
    /\ runStatus = [r \in Runs |-> "absent"]
    /\ runType \in [Runs -> RequestedTypes]
    /\ attempt = [r \in Runs |-> 0]
    /\ legStatus = "pending"
    /\ cards = {} /\ superseded = {} /\ locked = {}
    /\ request = [r \in Runs |-> "none"]
    /\ reqLeg = [r \in Runs |-> "pending"]
    /\ inbox = {}
    /\ worker = [d \in Deliveries |-> NoLocals]
    /\ kept = {}
    /\ source = [t \in OptionTypes |-> "none"]
    /\ overlaps = {}

(* start_leg_research: load the leg, commit the run, enqueue the job. *)

StartRead(r) ==
    /\ request[r] = "none"
    /\ \A q \in Runs : q < r => request[q] # "none"
    /\ request' = [request EXCEPT ![r] = "read"]
    /\ reqLeg' = [reqLeg EXCEPT ![r] = legStatus]
    /\ overlaps' = IF \E q \in Runs : Live(q) THEN overlaps \cup {r} ELSE overlaps
    /\ UNCHANGED <<dbVars, inbox, worker, kept, source>>

StartCommit(r) ==
    /\ request[r] = "read"
    /\ request' = [request EXCEPT ![r] = "committed"]
    /\ runStatus' = [runStatus EXCEPT ![r] = "queued"]
    /\ legStatus' = WriteLeg(reqLeg[r], "researching")
    /\ reqLeg' = [reqLeg EXCEPT ![r] = "pending"]
    /\ UNCHANGED <<runType, attempt, cards, superseded, locked, inbox, worker,
                   historyVars>>

Enqueue(r) ==
    /\ request[r] = "committed"
    /\ request' = [request EXCEPT ![r] = "answered"]
    /\ inbox' = inbox \cup {r}
    /\ UNCHANGED <<dbVars, reqLeg, worker, historyVars>>

(* run_leg_research *)

\* The local queue runs a job once; Cloud Tasks may deliver it again, but not
\* while an earlier delivery of it is still executing.
Load(d, r) ==
    /\ worker[d].pc = "idle"
    /\ r \in inbox
    /\ ~Busy(r)
    /\ inbox' = IF Redeliver THEN inbox ELSE inbox \ {r}
    /\ \/ /\ AlreadyCompleted(r)
          /\ worker' = [worker EXCEPT ![d] = Over]
       \/ /\ ~AlreadyCompleted(r)
          /\ \E iata, skipHotel \in BOOLEAN :
                worker' = [worker EXCEPT ![d] =
                    [NoLocals EXCEPT
                        !.pc = "begin", !.job = r, !.seenLeg = legStatus,
                        !.todo = Searches(runType[r], iata, skipHotel)]]
    /\ UNCHANGED <<dbVars, request, reqLeg, historyVars>>

Begin(d) ==
    LET r == worker[d].job IN
    /\ worker[d].pc = "begin"
    /\ runStatus' = [runStatus EXCEPT ![r] = "running"]
    /\ attempt' = [attempt EXCEPT ![r] = @ + 1]
    /\ legStatus' = WriteLeg(worker[d].seenLeg, "researching")
    /\ worker' = [worker EXCEPT ![d].pc = IF attempt[r] + 1 > 1
                                          THEN "wipeRead" ELSE "persist"]
    /\ UNCHANGED <<runType, cards, superseded, locked, requestVars, historyVars>>

\* supersede_option_cards reads the active locks in one statement ...
ReadLocks(d) ==
    /\ worker[d].pc \in {"wipeRead", "finishRead"}
    /\ worker' = [worker EXCEPT
                    ![d].lockedIds = locked,
                    ![d].pc = IF @ = "wipeRead" THEN "wipe" ELSE "finish"]
    /\ UNCHANGED <<dbVars, requestVars, historyVars>>

\* ... and updates the cards in the next.
RetryWipe(d) ==
    /\ worker[d].pc = "wipe"
    /\ superseded' = superseded \cup (OwnCards(d) \ worker[d].lockedIds)
    /\ kept' = kept \cup (OwnCards(d) \cap worker[d].lockedIds)
    /\ worker' = [worker EXCEPT ![d].pc = "persist", ![d].lockedIds = {}]
    /\ UNCHANGED <<runStatus, runType, attempt, legStatus, cards, locked,
                   requestVars, source, overlaps>>

\* The search of unit u found something: its cards are committed.
PersistFound(d, u) ==
    /\ worker[d].pc = "persist" /\ u \in NextUnits(worker[d].todo)
    /\ cards' = cards \cup {[run |-> worker[d].job, by |-> d, unit |-> u]}
    /\ worker' = [worker EXCEPT ![d].todo = @ \ {u}]
    /\ UNCHANGED <<runStatus, runType, attempt, legStatus, superseded, locked,
                   requestVars, historyVars>>

\* It found nothing, or it raised; an exception is kept for later and the
\* other searches are still persisted.
PersistNothing(d, u, error) ==
    /\ worker[d].pc = "persist" /\ u \in NextUnits(worker[d].todo)
    /\ worker' = [worker EXCEPT ![d].todo = @ \ {u},
                                ![d].firstError = IF @ = "none" THEN error ELSE @]
    /\ UNCHANGED <<dbVars, requestVars, historyVars>>

\* raise first_error, or go on to the cross-run supersede.
Persisted(d) ==
    /\ worker[d].pc = "persist" /\ worker[d].todo = {}
    /\ worker' = [worker EXCEPT ![d].pc = IF worker[d].firstError = "none"
                                          THEN "finishRead" ELSE "except"]
    /\ UNCHANGED <<dbVars, requestVars, historyVars>>

\* An unusable extraction (its raw row is committed and nothing derived from
\* it), or an error of the database: the transaction is rolled back.
Raise(d) ==
    /\ worker[d].pc \in InTry
    /\ worker' = [worker EXCEPT ![d].pc = "except"]
    /\ UNCHANGED <<dbVars, requestVars, historyVars>>

\* One commit: the other runs' cards superseded, the run completed, the leg
\* ready.
Finish(d) ==
    /\ worker[d].pc = "finish"
    /\ superseded' = superseded \cup (OtherCards(d) \ worker[d].lockedIds)
    /\ runStatus' = [runStatus EXCEPT ![worker[d].job] = "completed"]
    /\ legStatus' = "ready"
    /\ source' = [t \in OptionTypes |-> IF t \in ScopeOf(d) THEN d
                                                            ELSE source[t]]
    /\ worker' = [worker EXCEPT ![d] = Over]
    /\ UNCHANGED <<runType, attempt, cards, locked, requestVars, kept, overlaps>>

\* The handler reloads the run and does not overwrite a completed one.
Fail(d) ==
    /\ worker[d].pc = "except"
    /\ IF HandlerWrites(worker[d].job)
       THEN /\ runStatus' = [runStatus EXCEPT ![worker[d].job] = "failed"]
            /\ legStatus' = "failed"
       ELSE UNCHANGED <<runStatus, legStatus>>
    /\ worker' = [worker EXCEPT ![d] = Over]
    /\ UNCHANGED <<runType, attempt, cards, superseded, locked, requestVars,
                   historyVars>>

(* create_lock and delete_lock, as far as this module needs them: OptionLocks
   has their steps. *)

SingleLockTypes == {"flight", "hotel"}

LockCard(c) ==
    /\ c \in cards \ locked /\ c.unit \in LockableUnits
    /\ TypeOfUnit(c.unit) \in SingleLockTypes =>
          \A k \in locked : TypeOfUnit(k.unit) # TypeOfUnit(c.unit)
    /\ locked' = locked \cup {c}
    /\ UNCHANGED <<runStatus, runType, attempt, legStatus, cards, superseded,
                   requestVars, worker, historyVars>>

UnlockCard(c) ==
    /\ c \in locked
    /\ locked' = locked \ {c}
    /\ UNCHANGED <<runStatus, runType, attempt, legStatus, cards, superseded,
                   requestVars, worker, historyVars>>

(* Failures *)

\* One worker ends without reaching the handler: the task is cancelled, or
\* the database fails outside the try block or in the handler itself.
WorkerDies(d) ==
    /\ MayCrash /\ InFlight(d)
    /\ worker' = [worker EXCEPT ![d] = Over]
    /\ UNCHANGED <<dbVars, requestVars, historyVars>>

\* The API process stops: workers and requests with it, and the tasks of the
\* local queue, which lives in that process.
ProcessCrash ==
    /\ MayCrash
    /\ inbox # {} \/ \E r \in Runs : request[r] \in {"read", "committed"}
    /\ worker' = [d \in Deliveries |-> IF InFlight(d) THEN Over ELSE worker[d]]
    /\ request' = [r \in Runs |-> IF request[r] \in {"read", "committed"}
                                  THEN "dead" ELSE request[r]]
    /\ inbox' = IF Redeliver THEN inbox ELSE {}
    /\ UNCHANGED <<dbVars, reqLeg, historyVars>>

-----------------------------------------------------------------------------
RequestStep(r) == StartCommit(r) \/ Enqueue(r)

WorkerStep(d) ==
    \/ Begin(d) \/ ReadLocks(d) \/ RetryWipe(d)
    \/ \E u \in Units : PersistFound(d, u)
    \/ \E u \in Units, error \in FetchErrors : PersistNothing(d, u, error)
    \/ Persisted(d) \/ Raise(d) \/ Finish(d) \/ Fail(d)

Next ==
    \/ \E r \in Runs : StartRead(r) \/ RequestStep(r)
    \/ \E d \in Deliveries, r \in Runs : Load(d, r)
    \/ \E d \in Deliveries : WorkerStep(d) \/ WorkerDies(d)
    \/ ProcessCrash
    \/ \E c \in cards : LockCard(c) \/ UnlockCard(c)

Spec == Init /\ [][Next]_vars

\* A request that has read the leg and a worker that has begun go on by
\* themselves; a job in the queue is run when an execution is free.  Nobody
\* is obliged to start research or to lock.
Fairness ==
    /\ \A r \in Runs : WF_vars(RequestStep(r))
    /\ \A r \in Runs : WF_vars(\E d \in Deliveries : Load(d, r))
    /\ \A d \in Deliveries : WF_vars(WorkerStep(d))

FairSpec == Spec /\ Fairness
-----------------------------------------------------------------------------
(* Properties *)

\* Every variable has its type; superseded, locked and spared cards exist, and
\* an execution in progress has a run.
TypeOK ==
    /\ runStatus \in [Runs -> RunStatuses]
    /\ runType \in [Runs -> RequestedTypes]
    /\ attempt \in [Runs -> Nat]
    /\ legStatus \in LegStatuses
    /\ cards \subseteq Card
    /\ superseded \subseteq cards
    /\ locked \subseteq cards
    /\ request \in [Runs -> {"none", "read", "committed", "answered", "dead"}]
    /\ reqLeg \in [Runs -> LegStatuses]
    /\ inbox \subseteq Runs
    /\ worker \in [Deliveries -> Worker]
    /\ \A d \in Deliveries : /\ InFlight(d) => worker[d].job \in Runs
                             /\ worker[d].lockedIds \subseteq cards
    /\ kept \subseteq cards
    /\ source \in [OptionTypes -> Deliveries \cup {"none"}]
    /\ overlaps \subseteq Runs

\* A run delivered again after a failure or a crash leaves no cards of its
\* earlier attempts beside the new ones: when it is completed, its active
\* cards come from one attempt, save those the retry found locked (and that
\* may have been unlocked since).  research.py, the wipe under
\* attempt_count > 1 and the test mid_run_failure_retry_does_not_duplicate.
RetryLeavesNoDuplicates ==
    \A c, k \in Active \ kept :
        c.run = k.run /\ runStatus[c.run] = "completed" => c.by = k.by

\* The runs of the leg keep to RunLifecycle: attempts are counted one by one,
\* and a finished job stays finished however often it is delivered again.
\* research.py, the early return on a completed run and the handler's check.
Lifecycle == INSTANCE RunLifecycle WITH status <- runStatus, attempts <- attempt
ImplementsLifecycle == Lifecycle!Spec

\* Options leave the leg's list for two reasons only: a retry of the run that
\* produced them, or the very commit that makes another run over their type
\* completed.  A failing run, at any point, takes nobody else's options away.
CompletionOrRetry(c) ==
    \/ runStatus[c.run] = "running" /\ attempt[c.run] > 1
    \/ \E r \in Runs \ {c.run} :
          /\ runStatus[r] = "running" /\ runStatus'[r] = "completed"
          /\ TypeOfUnit(c.unit) \in ScopedTypes(runType[r])
OptionsLeaveWithCompletionOrRetry ==
    [][\A c \in superseded' \ superseded : CompletionOrRetry(c)]_vars

\* What the client shows of a leg is the state of its latest run, as long as
\* nobody starts research while a run is live (canStartResearch of the page
\* keeps one tab from it) and the queue brings no failed run back to life
\* later: its polling and its "run again" button go by this.
LatestRun == {r \in Runs : /\ runStatus[r] # "absent"
                           /\ \A q \in Runs : q > r => runStatus[q] = "absent"}
LegStatusFor(s) == CASE s \in {"queued", "running"} -> "researching"
                     [] s = "completed" -> "ready"
                     [] s = "failed" -> "failed"
LegShowsLatestRun ==
    overlaps = {} =>
        /\ LatestRun = {} => legStatus = "pending"
        /\ \A r \in LatestRun : legStatus = LegStatusFor(runStatus[r])

\* And a ready leg lists what the latest completed run over each type found:
\* none of it has been superseded, also when that run was of other types too.
\* With overlapping runs the one that completes last supersedes what the other
\* has just found, newer or not (supersede_option_cards asks for another run's
\* id, not for an earlier one).
ReadyLegListsLatestResults ==
    overlaps = {} /\ legStatus = "ready" =>
        \A c \in cards : c.by = source[TypeOfUnit(c.unit)] => c \in Active

\* Research started is research settled, one way or the other, and with it
\* the leg: the client polls until then.
RunsSettle ==
    \A r \in Runs :
        runStatus[r] \in {"queued", "running"} ~>
            runStatus[r] \in {"completed", "failed"}
LegSettles == legStatus = "researching" ~> legStatus \in {"ready", "failed"}
=============================================================================
