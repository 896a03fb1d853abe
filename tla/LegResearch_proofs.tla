-------------------------- MODULE LegResearch_proofs --------------------------
(***************************************************************************)
(* Theorems about LegResearch, for every number of runs, executions, room  *)
(* compositions and every setting of the queue and of the callers.         *)
(***************************************************************************)
EXTENDS LegResearch, TLAPS

(* The inductive invariant, beyond the types. *)

\* The queue delivers a job to one execution at a time.
OneExecutionPerRun ==
    \A d, e \in Deliveries :
        InFlight(d) /\ InFlight(e) /\ worker[d].job = worker[e].job => d = e

\* An execution past Begin is executing a running run; one before it has seen
\* that the run is not completed.
ExecutionsMatchRuns ==
    \A d \in Deliveries : InFlight(d) =>
        IF worker[d].pc = "begin"
        THEN runStatus[worker[d].job] \in {"queued", "running", "failed"}
        ELSE runStatus[worker[d].job] = "running"

\* A job is in the queue only after its run was committed.
RequestsMatchRuns ==
    \A r \in Runs :
        /\ request[r] \in {"none", "read"} => runStatus[r] = "absent"
        /\ request[r] \in {"committed", "answered"} => runStatus[r] # "absent"
        /\ r \in inbox => runStatus[r] # "absent"

\* Cards belong to runs that were begun, and to the types of their run.
CardsMatchRuns ==
    /\ \A r \in Runs : runStatus[r] = "running" => attempt[r] > 0
    /\ \A c \in cards : /\ attempt[c.run] > 0
                        /\ TypeOfUnit(c.unit) \in ScopedTypes(runType[c.run])
    /\ \A d \in Deliveries : InFlight(d) =>
          \A u \in worker[d].todo :
              TypeOfUnit(u) \in ScopedTypes(runType[worker[d].job])

\* Once the retry wipe is over, the run has no cards of earlier attempts but
\* those that were locked.
OnlyOwnCardsAfterWipe ==
    \A d \in Deliveries : worker[d].pc \in InTry =>
        \A c \in Active \ kept : c.run = worker[d].job => c.by = d

\* Only a second or later attempt is about to wipe.
WipesAreRetries ==
    \A d \in Deliveries :
        worker[d].pc \in {"wipeRead", "wipe"} => attempt[worker[d].job] > 1

IInv ==
    /\ TypeOK
    /\ OneExecutionPerRun
    /\ ExecutionsMatchRuns
    /\ RequestsMatchRuns
    /\ CardsMatchRuns
    /\ WipesAreRetries
    /\ OnlyOwnCardsAfterWipe
    /\ RetryLeavesNoDuplicates

-----------------------------------------------------------------------------
(* Types *)

LEMMA LocalsTyped ==
    /\ NoLocals \in Worker /\ Over \in Worker
    /\ NoLocals.pc = "idle" /\ Over.pc = "done" /\ NoLocals.lockedIds = {}
    /\ Over.lockedIds = {}
BY DEF NoLocals, Over, Worker, WorkerPcs, LegStatuses, FetchErrors

LEMMA InitTypeOK == Init => TypeOK
<1> SUFFICES ASSUME Init PROVE TypeOK
    OBVIOUS
<1> USE DEF Init
<1>1. worker \in [Deliveries -> Worker]
    BY LocalsTyped
<1>2. \A d \in Deliveries : worker[d].pc = "idle" /\ worker[d].lockedIds = {}
    BY LocalsTyped
<1> QED
    BY <1>1, <1>2 DEF TypeOK, RunStatuses, LegStatuses, InFlight, Runs

\* What an action does to one execution, and the types of what it writes.
LEMMA NextTypeOK == TypeOK /\ [Next]_vars => TypeOK'
<1> SUFFICES ASSUME TypeOK, [Next]_vars PROVE TypeOK'
    OBVIOUS
<1> USE DEF TypeOK
<1>1. ASSUME NEW r \in Runs, StartRead(r) PROVE TypeOK'
    BY <1>1 DEF StartRead, dbVars, historyVars, InFlight
<1>2. ASSUME NEW r \in Runs, StartCommit(r) PROVE TypeOK'
    BY <1>2 DEF StartCommit, WriteLeg, RunStatuses, LegStatuses, historyVars,
                InFlight
<1>3. ASSUME NEW r \in Runs, Enqueue(r) PROVE TypeOK'
    BY <1>3 DEF Enqueue, dbVars, historyVars, InFlight
<1>4. ASSUME NEW d \in Deliveries, NEW r \in Runs, Load(d, r) PROVE TypeOK'
    <2>1. inbox' \subseteq Runs
        BY <1>4 DEF Load
    <2>2. CASE worker' = [worker EXCEPT ![d] = Over]
        BY <1>4, <2>1, <2>2, LocalsTyped DEF Load, dbVars, historyVars, InFlight
    <2>3. CASE \E iata, skipHotel \in BOOLEAN :
                  worker' = [worker EXCEPT ![d] =
                    [NoLocals EXCEPT
                        !.pc = "begin", !.job = r, !.seenLeg = legStatus,
                        !.todo = Searches(runType[r], iata, skipHotel)]]
        <3> PICK iata, skipHotel \in BOOLEAN :
                  worker' = [worker EXCEPT ![d] =
                    [NoLocals EXCEPT
                        !.pc = "begin", !.job = r, !.seenLeg = legStatus,
                        !.todo = Searches(runType[r], iata, skipHotel)]]
            BY <2>3
        <3>1. Searches(runType[r], iata, skipHotel) \in SUBSET Units
            BY DEF Searches
        <3> QED
            BY <1>4, <2>1, <3>1 DEF Load, dbVars, historyVars, InFlight,
                NoLocals, Worker, WorkerPcs, FetchErrors
    <2> QED
        BY <1>4, <2>2, <2>3 DEF Load
<1>5. ASSUME NEW d \in Deliveries, Begin(d) PROVE TypeOK'
    BY <1>5 DEF Begin, WriteLeg, RunStatuses, LegStatuses, historyVars,
                requestVars, InFlight, Worker, WorkerPcs
<1>6. ASSUME NEW d \in Deliveries, ReadLocks(d) PROVE TypeOK'
    BY <1>6 DEF ReadLocks, dbVars, requestVars, historyVars, InFlight, Worker,
                WorkerPcs
<1>7. ASSUME NEW d \in Deliveries, RetryWipe(d) PROVE TypeOK'
    <2>1. OwnCards(d) \subseteq cards
        BY DEF OwnCards, ActiveOfTypes, Active
    <2> DEFINE w == [worker[d] EXCEPT !.pc = "persist", !.lockedIds = {}]
    <2>2. w \in Worker
        BY DEF Worker, WorkerPcs
    <2>3. w.pc = "persist" /\ w.job = worker[d].job /\ w.lockedIds = {}
        BY DEF Worker
    <2>4. worker' = [worker EXCEPT ![d] = w]
        BY <1>7 DEF RetryWipe, Worker
    <2> HIDE DEF w
    <2> QED
        BY <1>7, <2>1, <2>2, <2>3, <2>4 DEF RetryWipe, requestVars, InFlight
<1>8. ASSUME NEW d \in Deliveries, NEW u \in Units, PersistFound(d, u)
      PROVE TypeOK'
    <2>1. [run |-> worker[d].job, by |-> d, unit |-> u] \in Card
        BY <1>8 DEF PersistFound, Card, InFlight
    <2> QED
        BY <1>8, <2>1 DEF PersistFound, requestVars, historyVars, InFlight,
                          Worker
<1>9. ASSUME NEW d \in Deliveries, NEW u \in Units, NEW error \in FetchErrors,
             PersistNothing(d, u, error)
      PROVE TypeOK'
    <2> DEFINE w == [worker[d] EXCEPT !.todo = @ \ {u},
                        !.firstError = IF @ = "none" THEN error ELSE @]
    <2>1. w \in Worker
        BY DEF Worker
    <2>2. w.pc = worker[d].pc /\ w.job = worker[d].job
          /\ w.lockedIds = worker[d].lockedIds
        BY DEF Worker
    <2>3. worker' = [worker EXCEPT ![d] = w]
        BY <1>9 DEF PersistNothing, Worker
    <2> HIDE DEF w
    <2> QED
        BY <1>9, <2>1, <2>2, <2>3 DEF PersistNothing, dbVars, requestVars,
            historyVars, InFlight
<1>10. ASSUME NEW d \in Deliveries, Persisted(d) PROVE TypeOK'
    BY <1>10 DEF Persisted, dbVars, requestVars, historyVars, InFlight, Worker,
                 WorkerPcs
<1>11. ASSUME NEW d \in Deliveries, Raise(d) PROVE TypeOK'
    BY <1>11 DEF Raise, InTry, dbVars, requestVars, historyVars, InFlight,
                 Worker, WorkerPcs
<1>12. ASSUME NEW d \in Deliveries, Finish(d) PROVE TypeOK'
    BY <1>12, LocalsTyped DEF Finish, requestVars, InFlight, OtherCards,
                 ActiveOfTypes, Active, RunStatuses, LegStatuses
<1>13. ASSUME NEW d \in Deliveries, Fail(d) PROVE TypeOK'
    BY <1>13, LocalsTyped DEF Fail, requestVars, historyVars, InFlight,
                 RunStatuses, LegStatuses
<1>14. ASSUME NEW d \in Deliveries, WorkerDies(d) PROVE TypeOK'
    BY <1>14, LocalsTyped DEF WorkerDies, dbVars, requestVars, historyVars,
                 InFlight
<1>15. CASE ProcessCrash
    BY <1>15, LocalsTyped DEF ProcessCrash, dbVars, historyVars, InFlight
<1>16. ASSUME NEW c \in cards, LockCard(c) \/ UnlockCard(c) PROVE TypeOK'
    BY <1>16 DEF LockCard, UnlockCard, requestVars, historyVars, InFlight
<1>17. CASE UNCHANGED vars
    BY <1>17 DEF vars, dbVars, requestVars, historyVars, InFlight
<1> QED
    BY <1>1, <1>2, <1>3, <1>4, <1>5, <1>6, <1>7, <1>8, <1>9, <1>10, <1>11,
       <1>12, <1>13, <1>14, <1>15, <1>16, <1>17
    DEF Next, RequestStep, WorkerStep

\* Every reachable state is well typed: superseded, locked and spared cards are
\* cards that exist, and an execution in flight has a run.
THEOREM TypeCorrect == Spec => []TypeOK
BY InitTypeOK, NextTypeOK, PTL DEF Spec

-----------------------------------------------------------------------------
(* The inductive invariant *)

\* The steps of an execution after which it is still in flight.
Continues(e) ==
    \/ Begin(e) \/ ReadLocks(e) \/ Persisted(e) \/ Raise(e) \/ RetryWipe(e)
    \/ \E u \in Units : PersistFound(e, u)
    \/ \E u \in Units, error \in FetchErrors : PersistNothing(e, u, error)

\* Such a step is of one execution in flight, and keeps its job.
LEMMA ContinuingStep ==
    ASSUME TypeOK, NEW e \in Deliveries, Continues(e)
    PROVE  /\ \A d \in Deliveries \ {e} : worker'[d] = worker[d]
           /\ InFlight(e)
           /\ worker'[e].job = worker[e].job
           /\ worker'[e].pc # "begin"
           /\ worker[e].pc = "begin" => Begin(e)
           /\ worker'[e].pc \in InTry => \/ worker[e].pc \in InTry
                                         \/ Begin(e) /\ attempt[worker[e].job] = 0
                                         \/ RetryWipe(e)
           /\ worker'[e].pc \in {"wipeRead", "wipe"} =>
                 worker[e].pc = "wipeRead" \/ Begin(e)
           /\ worker'[e].todo \subseteq worker[e].todo
<1> USE DEF TypeOK, InFlight, InTry
<1>1. CASE Begin(e)
    BY <1>1 DEF Begin, Worker
<1>2. CASE ReadLocks(e)
    BY <1>2 DEF ReadLocks, Worker
<1>3. CASE Persisted(e) \/ Raise(e)
    BY <1>3 DEF Persisted, Raise, Worker
<1>4. CASE RetryWipe(e)
    BY <1>4 DEF RetryWipe, Worker
<1>5. CASE \E u \in Units : PersistFound(e, u)
    BY <1>5 DEF PersistFound, Worker
<1>6. CASE \E u \in Units, error \in FetchErrors : PersistNothing(e, u, error)
    BY <1>6 DEF PersistNothing, Worker
<1> QED
    BY <1>1, <1>2, <1>3, <1>4, <1>5, <1>6 DEF Continues

\* The steps that end an execution.
Ends(e) == Finish(e) \/ Fail(e) \/ WorkerDies(e)

LEMMA EndingStep ==
    ASSUME TypeOK, NEW e \in Deliveries, Ends(e)
    PROVE  /\ \A d \in Deliveries \ {e} : worker'[d] = worker[d]
           /\ InFlight(e)
           /\ worker'[e] = Over
BY DEF Ends, TypeOK, InFlight, Finish, Fail, WorkerDies

LEMMA CrashStep ==
    ASSUME TypeOK, ProcessCrash
    PROVE  \A d \in Deliveries : worker'[d].pc \in {"idle", "done"}
BY LocalsTyped DEF ProcessCrash, TypeOK, InFlight

\* An execution leaves the requests and the queue alone, and writes the
\* status of no run but its own.
LEMMA ExecutionStepFrame ==
    ASSUME TypeOK, NEW e \in Deliveries, Continues(e) \/ Ends(e)
    PROVE  /\ UNCHANGED requestVars
           /\ \A r \in Runs :
                 \/ runStatus'[r] = runStatus[r]
                 \/ /\ r = worker[e].job
                    /\ runStatus'[r] \in {"running", "completed", "failed"}
<1>1. CASE Begin(e)
    BY <1>1 DEF Begin, TypeOK
<1>2. CASE Finish(e)
    BY <1>2 DEF Finish, TypeOK
<1>3. CASE Fail(e)
    BY <1>3 DEF Fail, TypeOK
<1>4. CASE WorkerDies(e) \/ Persisted(e) \/ Raise(e) \/ ReadLocks(e) \/ RetryWipe(e)
    BY <1>4 DEF WorkerDies, Persisted, Raise, ReadLocks, RetryWipe, dbVars
<1>5. CASE \/ \E u \in Units : PersistFound(e, u)
           \/ \E u \in Units, error \in FetchErrors : PersistNothing(e, u, error)
    BY <1>5 DEF PersistFound, PersistNothing, dbVars
<1> QED
    BY <1>1, <1>2, <1>3, <1>4, <1>5 DEF Continues, Ends

\* The steps that touch no execution.
Elsewhere ==
    \/ \E r \in Runs : StartRead(r) \/ RequestStep(r)
    \/ \E c \in cards : LockCard(c) \/ UnlockCard(c)
    \/ UNCHANGED vars

LEMMA StepCases ==
    ASSUME [Next]_vars
    PROVE  \/ \E d \in Deliveries, r \in Runs : Load(d, r)
           \/ \E e \in Deliveries : Continues(e) \/ Ends(e)
           \/ ProcessCrash
           \/ Elsewhere
BY DEF Next, WorkerStep, Continues, Ends, Elsewhere

LEMMA ElsewhereStep == ASSUME Elsewhere PROVE worker' = worker
BY DEF Elsewhere, RequestStep, StartRead, StartCommit, Enqueue, LockCard,
       UnlockCard, vars

\* Except for Load, a step starts no execution and changes no job.
LEMMA StepKeepsJobs ==
    ASSUME TypeOK, [Next]_vars,
           ~ \E d \in Deliveries, r \in Runs : Load(d, r)
    PROVE  \A d \in Deliveries :
              InFlight(d)' => InFlight(d) /\ worker'[d].job = worker[d].job
<1>1. ASSUME NEW e \in Deliveries, Continues(e) \/ Ends(e)
      PROVE  \A d \in Deliveries :
                InFlight(d)' => InFlight(d) /\ worker'[d].job = worker[d].job
    BY <1>1, ContinuingStep, EndingStep, LocalsTyped DEF InFlight
<1>2. CASE ProcessCrash
    BY <1>2, CrashStep DEF InFlight
<1>3. CASE Elsewhere
    BY <1>3, ElsewhereStep DEF InFlight
<1> QED
    BY <1>1, <1>2, <1>3, StepCases

LEMMA NextOneExecution ==
    TypeOK /\ OneExecutionPerRun /\ [Next]_vars => OneExecutionPerRun'
<1> SUFFICES ASSUME TypeOK, OneExecutionPerRun, [Next]_vars
             PROVE  OneExecutionPerRun'
    OBVIOUS
<1>1. ASSUME NEW d \in Deliveries, NEW r \in Runs, Load(d, r)
      PROVE  OneExecutionPerRun'
    <2>1. \A e \in Deliveries \ {d} : worker'[e] = worker[e]
        BY <1>1 DEF Load, TypeOK
    <2>2. InFlight(d)' => worker'[d].job = r
        BY <1>1, LocalsTyped DEF Load, TypeOK, InFlight, NoLocals
    <2>3. \A e \in Deliveries : InFlight(e) => worker[e].job # r
        BY <1>1 DEF Load, Busy
    <2>4. \A e \in Deliveries \ {d} :
              InFlight(e)' => InFlight(e) /\ worker'[e].job # r
        BY <2>1, <2>3 DEF InFlight
    <2> QED
        BY <2>1, <2>2, <2>4 DEF OneExecutionPerRun
<1>2. CASE ~ \E d \in Deliveries, r \in Runs : Load(d, r)
    BY <1>2, StepKeepsJobs DEF OneExecutionPerRun
<1> QED
    BY <1>1, <1>2

LEMMA NextExecutionsMatchRuns ==
    TypeOK /\ OneExecutionPerRun /\ ExecutionsMatchRuns /\ RequestsMatchRuns
    /\ [Next]_vars => ExecutionsMatchRuns'
<1> SUFFICES ASSUME TypeOK, OneExecutionPerRun, ExecutionsMatchRuns,
                    RequestsMatchRuns, [Next]_vars
             PROVE  ExecutionsMatchRuns'
    OBVIOUS
<1>1. ASSUME NEW d \in Deliveries, NEW r \in Runs, Load(d, r)
      PROVE  ExecutionsMatchRuns'
    <2>1. runStatus' = runStatus /\ runStatus[r] # "absent"
        BY <1>1 DEF Load, dbVars, RequestsMatchRuns
    <2>2. \A e \in Deliveries \ {d} : worker'[e] = worker[e]
        BY <1>1 DEF Load, TypeOK
    <2>3. \/ worker'[d].pc = "done"
          \/ /\ worker'[d].pc = "begin" /\ worker'[d].job = r
             /\ runStatus[r] # "completed"
        BY <1>1, LocalsTyped DEF Load, TypeOK, NoLocals, AlreadyCompleted
    <2>4. runStatus[r] \in RunStatuses
        BY DEF TypeOK
    <2> QED
        BY <2>1, <2>2, <2>3, <2>4 DEF ExecutionsMatchRuns, InFlight, RunStatuses
<1>2. ASSUME NEW e \in Deliveries, Continues(e) PROVE ExecutionsMatchRuns'
    <2>1. CASE Begin(e)
        <3>1. worker[e].job \in Runs
            BY <1>2, ContinuingStep DEF TypeOK
        <3>2. runStatus'[worker[e].job] = "running"
            BY <2>1, <3>1 DEF Begin, TypeOK
        <3>3. \A r \in Runs \ {worker[e].job} : runStatus'[r] = runStatus[r]
            BY <2>1 DEF Begin, TypeOK
        <3> QED
            BY <1>2, <3>2, <3>3, ContinuingStep
            DEF ExecutionsMatchRuns, InFlight, OneExecutionPerRun, TypeOK
    <2>2. CASE ~Begin(e)
        <3>1. runStatus' = runStatus
            BY <1>2, <2>2 DEF Continues, ReadLocks, RetryWipe, PersistFound,
               PersistNothing, Persisted, Raise, dbVars
        <3> QED
            BY <1>2, <2>2, <3>1, ContinuingStep
            DEF ExecutionsMatchRuns, InFlight
    <2> QED
        BY <2>1, <2>2
<1>3. ASSUME NEW e \in Deliveries, Ends(e) PROVE ExecutionsMatchRuns'
    <2>1. \A r \in Runs \ {worker[e].job} : runStatus'[r] = runStatus[r]
        BY <1>3 DEF Ends, Finish, Fail, WorkerDies, dbVars, TypeOK
    <2> QED
        BY <1>3, <2>1, EndingStep, LocalsTyped
        DEF ExecutionsMatchRuns, InFlight, OneExecutionPerRun, TypeOK
<1>4. CASE ProcessCrash
    BY <1>4, CrashStep DEF ExecutionsMatchRuns, InFlight
<1>5. CASE Elsewhere
    <2>1. \A r \in Runs : runStatus'[r] = runStatus[r] \/ runStatus[r] = "absent"
        BY <1>5 DEF Elsewhere, RequestStep, StartRead, StartCommit, Enqueue,
           LockCard, UnlockCard, vars, dbVars, TypeOK, RequestsMatchRuns
    <2> QED
        BY <1>5, <2>1, ElsewhereStep DEF ExecutionsMatchRuns, InFlight, TypeOK
<1> QED
    BY <1>1, <1>2, <1>3, <1>4, <1>5, StepCases

LEMMA NextRequestsMatchRuns ==
    TypeOK /\ ExecutionsMatchRuns /\ RequestsMatchRuns /\ [Next]_vars
    => RequestsMatchRuns'
<1> SUFFICES ASSUME TypeOK, ExecutionsMatchRuns, RequestsMatchRuns, [Next]_vars
             PROVE  RequestsMatchRuns'
    OBVIOUS
<1> USE DEF RequestsMatchRuns, TypeOK
<1>1. ASSUME NEW d \in Deliveries, NEW r \in Runs, Load(d, r)
      PROVE  RequestsMatchRuns'
    BY <1>1 DEF Load, dbVars
<1>2. ASSUME NEW e \in Deliveries, Continues(e) \/ Ends(e)
      PROVE  RequestsMatchRuns'
    <2>1. InFlight(e) /\ worker[e].job \in Runs
        BY <1>2, ContinuingStep, EndingStep
    <2>2. runStatus[worker[e].job] # "absent"
        BY <2>1 DEF ExecutionsMatchRuns
    <2> QED
        BY <1>2, <2>2, ExecutionStepFrame DEF requestVars
<1>3. CASE ProcessCrash
    BY <1>3 DEF ProcessCrash, dbVars
<1>4. ASSUME NEW r \in Runs, StartRead(r) \/ StartCommit(r) \/ Enqueue(r)
      PROVE  RequestsMatchRuns'
    BY <1>4 DEF StartRead, StartCommit, Enqueue, dbVars
<1>5. CASE \/ \E c \in cards : LockCard(c) \/ UnlockCard(c)
           \/ UNCHANGED vars
    BY <1>5 DEF LockCard, UnlockCard, requestVars, vars, dbVars
<1> QED
    BY <1>1, <1>2, <1>3, <1>4, <1>5, StepCases DEF Elsewhere, RequestStep

LEMMA NextCardsMatchRuns ==
    TypeOK /\ ExecutionsMatchRuns /\ CardsMatchRuns /\ [Next]_vars
    => CardsMatchRuns'
<1> SUFFICES ASSUME TypeOK, ExecutionsMatchRuns, CardsMatchRuns, [Next]_vars
             PROVE  CardsMatchRuns'
    OBVIOUS
<1>0. runType' = runType
    BY DEF Next, RequestStep, WorkerStep, StartRead, StartCommit, Enqueue,
       Load, Begin, ReadLocks, RetryWipe, PersistFound, PersistNothing,
       Persisted, Raise, Finish, Fail, LockCard, UnlockCard, WorkerDies,
       ProcessCrash, vars, dbVars
<1>1. ASSUME NEW d \in Deliveries, NEW r \in Runs, Load(d, r)
      PROVE  CardsMatchRuns'
    <2>1. \A e \in Deliveries \ {d} : worker'[e] = worker[e]
        BY <1>1 DEF Load, TypeOK
    <2>2. CASE worker' = [worker EXCEPT ![d] = Over]
        BY <1>0, <1>1, <2>1, <2>2, LocalsTyped
        DEF Load, dbVars, InFlight, CardsMatchRuns, TypeOK
    <2>3. CASE \E iata, skipHotel \in BOOLEAN :
                  worker' = [worker EXCEPT ![d] =
                    [NoLocals EXCEPT
                        !.pc = "begin", !.job = r, !.seenLeg = legStatus,
                        !.todo = Searches(runType[r], iata, skipHotel)]]
        <3>1. PICK iata, skipHotel \in BOOLEAN :
                  worker' = [worker EXCEPT ![d] =
                    [NoLocals EXCEPT
                        !.pc = "begin", !.job = r, !.seenLeg = legStatus,
                        !.todo = Searches(runType[r], iata, skipHotel)]]
            BY <2>3
        <3>2. /\ worker'[d].job = r
              /\ worker'[d].todo = Searches(runType[r], iata, skipHotel)
            BY <3>1 DEF TypeOK, NoLocals
        <3>3. \A u \in worker'[d].todo : TypeOfUnit(u) \in ScopedTypes(runType[r])
            BY <3>2 DEF Searches
        <3> QED
            BY <1>0, <1>1, <2>1, <3>2, <3>3
            DEF Load, dbVars, InFlight, CardsMatchRuns
    <2> QED
        BY <1>1, <2>2, <2>3 DEF Load
<1>2. ASSUME NEW e \in Deliveries, Continues(e) PROVE CardsMatchRuns'
    <2> DEFINE r == worker[e].job
    <2>0. r \in Runs
        BY <1>2, ContinuingStep DEF TypeOK
    <2>1. \A d \in Deliveries : InFlight(d)' =>
              \A u \in worker'[d].todo :
                  TypeOfUnit(u) \in ScopedTypes(runType[worker'[d].job])
        BY <1>2, ContinuingStep DEF InFlight, CardsMatchRuns
    <2>2. \A q \in Runs : /\ attempt[q] > 0 => attempt'[q] > 0
                          /\ runStatus'[q] = "running" => attempt'[q] > 0
        <3>1. CASE Begin(e)
            BY <2>0, <3>1 DEF Begin, TypeOK, CardsMatchRuns
        <3>2. CASE ~Begin(e)
            BY <1>2, <3>2 DEF Continues, ReadLocks, RetryWipe, PersistFound,
               PersistNothing, Persisted, Raise, dbVars, CardsMatchRuns
        <3> QED
            BY <3>1, <3>2
    <2>3. ASSUME NEW c \in cards', c \notin cards
          PROVE  attempt[c.run] > 0 /\ TypeOfUnit(c.unit) \in ScopedTypes(runType[c.run])
        <3>1. PICK u \in Units : PersistFound(e, u)
            BY <1>2, <2>3 DEF Continues, Begin, ReadLocks, RetryWipe,
               PersistNothing, Persisted, Raise, dbVars
        <3>2. c = [run |-> r, by |-> e, unit |-> u]
            BY <2>3, <3>1 DEF PersistFound
        <3>3. u \in worker[e].todo
            BY <3>1 DEF PersistFound, NextUnits
        <3>4. runStatus[r] = "running"
            BY <3>1 DEF PersistFound, ExecutionsMatchRuns, InFlight
        <3>5. InFlight(e)
            BY <3>1 DEF PersistFound, InFlight
        <3> QED
            BY <2>0, <3>2, <3>3, <3>4, <3>5 DEF CardsMatchRuns
    <2>4. \A c \in cards' : c.run \in Runs
        BY NextTypeOK DEF TypeOK, Card
    <2>5. \A c \in cards' : /\ attempt'[c.run] > 0
                            /\ TypeOfUnit(c.unit) \in ScopedTypes(runType[c.run])
        BY <2>2, <2>3, <2>4 DEF CardsMatchRuns
    <2>6. \A q \in Runs : runStatus'[q] = "running" => attempt'[q] > 0
        BY <2>2
    <2> QED
        BY <1>0, <2>1, <2>5, <2>6 DEF CardsMatchRuns
<1>3. ASSUME NEW e \in Deliveries, Ends(e) PROVE CardsMatchRuns'
    <2>1. cards' = cards /\ attempt' = attempt
        BY <1>3 DEF Ends, Finish, Fail, WorkerDies, dbVars
    <2>2. \A r \in Runs : runStatus'[r] = "running" => runStatus[r] = "running"
        BY <1>3 DEF Ends, Finish, Fail, WorkerDies, dbVars, TypeOK
    <2> QED
        BY <1>0, <1>3, <2>1, <2>2, EndingStep, LocalsTyped
        DEF InFlight, CardsMatchRuns
<1>4. CASE ProcessCrash
    BY <1>0, <1>4, CrashStep DEF ProcessCrash, dbVars, InFlight, CardsMatchRuns
<1>5. CASE Elsewhere
    <2>1. cards' = cards /\ attempt' = attempt
        BY <1>5 DEF Elsewhere, RequestStep, StartRead, StartCommit, Enqueue,
           LockCard, UnlockCard, vars, dbVars
    <2>2. \A r \in Runs : runStatus'[r] = "running" => runStatus[r] = "running"
        BY <1>5 DEF Elsewhere, RequestStep, StartRead, StartCommit, Enqueue,
           LockCard, UnlockCard, vars, dbVars, TypeOK
    <2> QED
        BY <1>0, <1>5, <2>1, <2>2, ElsewhereStep DEF InFlight, CardsMatchRuns
<1> QED
    BY <1>1, <1>2, <1>3, <1>4, <1>5, StepCases

LEMMA NextWipesAreRetries ==
    TypeOK /\ WipesAreRetries /\ [Next]_vars => WipesAreRetries'
<1> SUFFICES ASSUME TypeOK, WipesAreRetries, [Next]_vars PROVE WipesAreRetries'
    OBVIOUS
<1>1. ASSUME NEW d \in Deliveries, NEW r \in Runs, Load(d, r)
      PROVE  WipesAreRetries'
    <2>1. \A e \in Deliveries \ {d} : worker'[e] = worker[e]
        BY <1>1 DEF Load, TypeOK
    <2>2. worker'[d].pc \in {"begin", "done"}
        BY <1>1, LocalsTyped DEF Load, TypeOK, NoLocals
    <2> QED
        BY <1>1, <2>1, <2>2 DEF Load, dbVars, WipesAreRetries
<1>2. ASSUME NEW e \in Deliveries, Begin(e) PROVE WipesAreRetries'
    <2>1. \A d \in Deliveries \ {e} : worker'[d] = worker[d]
        BY <1>2 DEF Begin, TypeOK
    <2>2. \A r \in Runs : attempt[r] > 1 => attempt'[r] > 1
        BY <1>2 DEF Begin, TypeOK
    <2>3. worker[e].job \in Runs
        BY <1>2 DEF Begin, TypeOK, InFlight
    <2>4. worker'[e].pc \in {"wipeRead", "wipe"} => attempt'[worker'[e].job] > 1
        BY <1>2, <2>3 DEF Begin, TypeOK, Worker
    <2>5. \A d \in Deliveries : worker[d].pc \in {"wipeRead", "wipe"} =>
              worker[d].job \in Runs
        BY DEF TypeOK, InFlight
    <2> QED
        BY <2>1, <2>2, <2>4, <2>5 DEF WipesAreRetries
<1>3. ASSUME NEW e \in Deliveries, Continues(e), ~Begin(e) PROVE WipesAreRetries'
    <2>1. attempt' = attempt
        BY <1>3 DEF Continues, ReadLocks, RetryWipe, PersistFound,
           PersistNothing, Persisted, Raise, dbVars
    <2>2. worker'[e].pc \in {"wipeRead", "wipe"} =>
              worker[e].pc \in {"wipeRead", "wipe"}
        BY <1>3, ContinuingStep
    <2> QED
        BY <1>3, <2>1, <2>2, ContinuingStep DEF WipesAreRetries
<1>4. ASSUME NEW e \in Deliveries, Ends(e) PROVE WipesAreRetries'
    <2>1. attempt' = attempt
        BY <1>4 DEF Ends, Finish, Fail, WorkerDies, dbVars
    <2> QED
        BY <1>4, <2>1, EndingStep, LocalsTyped DEF WipesAreRetries
<1>5. CASE ProcessCrash
    BY <1>5, CrashStep DEF WipesAreRetries
<1>6. CASE Elsewhere
    <2>1. attempt' = attempt
        BY <1>6 DEF Elsewhere, RequestStep, StartRead, StartCommit, Enqueue,
           LockCard, UnlockCard, vars, dbVars
    <2> QED
        BY <1>6, <2>1, ElsewhereStep DEF WipesAreRetries
<1> QED
    BY <1>1, <1>2, <1>3, <1>4, <1>5, <1>6, StepCases

\* Steps other than a persist and the two supersedes leave the listed cards,
\* and the spared ones, as they are.
LEMMA CardsFrame ==
    ASSUME [Next]_vars,
           \A d \in Deliveries : /\ ~RetryWipe(d) /\ ~Finish(d)
                                 /\ \A u \in Units : ~PersistFound(d, u)
    PROVE  UNCHANGED <<cards, superseded, kept>>
BY DEF Next, RequestStep, WorkerStep, StartRead, StartCommit, Enqueue, Load,
       Begin, ReadLocks, PersistNothing, Persisted, Raise, Fail, LockCard,
       UnlockCard, WorkerDies, ProcessCrash, vars, dbVars, historyVars

LEMMA NextOnlyOwnCards ==
    TypeOK /\ OneExecutionPerRun /\ ExecutionsMatchRuns /\ CardsMatchRuns
    /\ OnlyOwnCardsAfterWipe /\ [Next]_vars => OnlyOwnCardsAfterWipe'
<1> SUFFICES ASSUME TypeOK, OneExecutionPerRun, ExecutionsMatchRuns,
                    CardsMatchRuns, OnlyOwnCardsAfterWipe, [Next]_vars
             PROVE  OnlyOwnCardsAfterWipe'
    OBVIOUS
<1>1. ASSUME NEW d \in Deliveries, NEW r \in Runs, Load(d, r)
      PROVE  OnlyOwnCardsAfterWipe'
    <2>1. \A e \in Deliveries \ {d} : worker'[e] = worker[e]
        BY <1>1 DEF Load, TypeOK
    <2>2. worker'[d].pc \in {"begin", "done"}
        BY <1>1, LocalsTyped DEF Load, TypeOK, NoLocals
    <2> QED
        BY <1>1, <2>1, <2>2 DEF Load, dbVars, historyVars,
           OnlyOwnCardsAfterWipe, Active, InTry
<1>2. ASSUME NEW e \in Deliveries, NEW u \in Units, PersistFound(e, u)
      PROVE  OnlyOwnCardsAfterWipe'
    <2>1. Continues(e) /\ InFlight(e) /\ worker[e].pc \in InTry
        BY <1>2 DEF Continues, InFlight, PersistFound, InTry
    <2>2. \A d \in Deliveries : /\ worker'[d].pc \in InTry => worker[d].pc \in InTry
                                /\ worker'[d].job = worker[d].job
        BY <2>1, ContinuingStep
    <2>3. \A c \in Active' : c \in Active \/ c = [run |-> worker[e].job, by |-> e, unit |-> u]
        BY <1>2 DEF PersistFound, Active
    <2>4. \A d \in Deliveries :
              worker[d].pc \in InTry /\ worker[d].job = worker[e].job => d = e
        BY <2>1 DEF OneExecutionPerRun, InFlight, InTry
    <2>5. kept' = kept
        BY <1>2 DEF PersistFound, historyVars
    <2> QED
        BY <2>2, <2>3, <2>4, <2>5 DEF OnlyOwnCardsAfterWipe
<1>3. ASSUME NEW e \in Deliveries, RetryWipe(e)
      PROVE  OnlyOwnCardsAfterWipe'
    <2>1. Continues(e)
        BY <1>3 DEF Continues
    <2>2. Active' \ kept' \subseteq Active \ kept
        BY <1>3 DEF RetryWipe, Active
    <2>3. \A c \in Active' \ kept' : c.run # worker[e].job
        BY <1>3 DEF RetryWipe, Active, OwnCards, ActiveOfTypes, CardsMatchRuns,
           ScopeOf
    <2> QED
        BY <2>1, <2>2, <2>3, ContinuingStep DEF OnlyOwnCardsAfterWipe
<1>4. ASSUME NEW e \in Deliveries, Finish(e)
      PROVE  OnlyOwnCardsAfterWipe'
    <2>1. Active' \ kept' \subseteq Active \ kept
        BY <1>4 DEF Finish, Active
    <2> QED
        BY <1>4, <2>1, EndingStep, LocalsTyped
        DEF Ends, OnlyOwnCardsAfterWipe, InTry
<1>5. ASSUME UNCHANGED <<cards, superseded, kept>>,
             NEW e \in Deliveries, Continues(e), ~RetryWipe(e)
      PROVE  OnlyOwnCardsAfterWipe'
    <2>1. Active' \ kept' = Active \ kept
        BY <1>5 DEF Active
    <2>2. CASE Begin(e) /\ attempt[worker[e].job] = 0
        <3>1. \A c \in Active : c.run # worker[e].job
            BY <2>2 DEF Active, CardsMatchRuns
        <3> QED
            BY <1>5, <2>1, <3>1, ContinuingStep DEF OnlyOwnCardsAfterWipe
    <2>3. CASE ~(Begin(e) /\ attempt[worker[e].job] = 0)
        BY <1>5, <2>1, <2>3, ContinuingStep DEF OnlyOwnCardsAfterWipe
    <2> QED
        BY <2>2, <2>3
<1>6. ASSUME UNCHANGED <<cards, superseded, kept>>,
             \/ \E e \in Deliveries : Ends(e)
             \/ ProcessCrash
             \/ Elsewhere
      PROVE  OnlyOwnCardsAfterWipe'
    <2>1. Active' \ kept' = Active \ kept
        BY <1>6 DEF Active
    <2>2. \A d \in Deliveries : worker'[d].pc \in InTry => worker'[d] = worker[d]
        BY <1>6, EndingStep, CrashStep, ElsewhereStep, LocalsTyped DEF InTry
    <2> QED
        BY <2>1, <2>2 DEF OnlyOwnCardsAfterWipe
<1> QED
    BY <1>1, <1>2, <1>3, <1>4, <1>5, <1>6, StepCases, CardsFrame

LEMMA NextNoDuplicates ==
    TypeOK /\ ExecutionsMatchRuns /\ OnlyOwnCardsAfterWipe
    /\ RetryLeavesNoDuplicates /\ [Next]_vars => RetryLeavesNoDuplicates'
<1> SUFFICES ASSUME TypeOK, ExecutionsMatchRuns, OnlyOwnCardsAfterWipe,
                    RetryLeavesNoDuplicates, [Next]_vars
             PROVE  RetryLeavesNoDuplicates'
    OBVIOUS
<1>1. ASSUME NEW e \in Deliveries, NEW u \in Units, PersistFound(e, u)
      PROVE  RetryLeavesNoDuplicates'
    <2>1. runStatus[worker[e].job] = "running"
        BY <1>1 DEF PersistFound, ExecutionsMatchRuns, InFlight
    <2>2. runStatus' = runStatus /\ kept' = kept
        BY <1>1 DEF PersistFound, historyVars
    <2>3. \A c \in Active' : c \in Active \/ c.run = worker[e].job
        BY <1>1 DEF PersistFound, Active
    <2> QED
        BY <2>1, <2>2, <2>3 DEF RetryLeavesNoDuplicates
<1>2. ASSUME NEW e \in Deliveries, RetryWipe(e) PROVE RetryLeavesNoDuplicates'
    BY <1>2 DEF RetryWipe, Active, RetryLeavesNoDuplicates
<1>3. ASSUME NEW e \in Deliveries, Finish(e) PROVE RetryLeavesNoDuplicates'
    <2>1. Active' \ kept' \subseteq Active \ kept
        BY <1>3 DEF Finish, Active
    <2>2. \A c \in Active \ kept : c.run = worker[e].job => c.by = e
        BY <1>3 DEF Finish, OnlyOwnCardsAfterWipe, InTry
    <2>3. \A c \in Active' \ kept' : c \in Active \ kept /\ c.run \in Runs
        BY <2>1 DEF Active, TypeOK, Card
    <2>4. \A r \in Runs \ {worker[e].job} : runStatus'[r] = runStatus[r]
        BY <1>3 DEF Finish, TypeOK
    <2> QED
        BY <2>2, <2>3, <2>4 DEF RetryLeavesNoDuplicates
<1>4. CASE UNCHANGED <<cards, superseded, kept>> /\ ~ \E e \in Deliveries : Finish(e)
    <2>1. Active' \ kept' = Active \ kept
        BY <1>4 DEF Active
    <2>2. \A r \in Runs : runStatus'[r] = "completed" => runStatus[r] = "completed"
        BY <1>4 DEF Next, RequestStep, WorkerStep, StartRead, StartCommit,
           Enqueue, Load, Begin, ReadLocks, RetryWipe, PersistFound,
           PersistNothing, Persisted, Raise, Fail, LockCard, UnlockCard,
           WorkerDies, ProcessCrash, vars, dbVars, TypeOK
    <2>3. \A c \in Active : c.run \in Runs
        BY DEF Active, TypeOK, Card
    <2> QED
        BY <2>1, <2>2, <2>3 DEF RetryLeavesNoDuplicates
<1> QED
    BY <1>1, <1>2, <1>3, <1>4, CardsFrame

LEMMA InitIInv == Init => IInv
<1> SUFFICES ASSUME Init PROVE IInv
    OBVIOUS
<1>1. \A d \in Deliveries : ~InFlight(d) /\ worker[d].pc \notin InTry
    BY LocalsTyped DEF Init, InFlight, InTry
<1>2. OneExecutionPerRun /\ ExecutionsMatchRuns /\ OnlyOwnCardsAfterWipe
    BY <1>1 DEF OneExecutionPerRun, ExecutionsMatchRuns, OnlyOwnCardsAfterWipe
<1>3. RequestsMatchRuns
    BY DEF Init, RequestsMatchRuns
<1>4. CardsMatchRuns /\ RetryLeavesNoDuplicates
    BY <1>1 DEF Init, CardsMatchRuns, RetryLeavesNoDuplicates, Active
<1>5. WipesAreRetries
    BY LocalsTyped DEF Init, WipesAreRetries
<1> QED
    BY <1>2, <1>3, <1>4, <1>5, InitTypeOK DEF IInv

LEMMA NextIInv == IInv /\ [Next]_vars => IInv'
BY NextTypeOK, NextOneExecution, NextExecutionsMatchRuns, NextRequestsMatchRuns,
   NextCardsMatchRuns, NextWipesAreRetries, NextOnlyOwnCards, NextNoDuplicates
DEF IInv

\* The inductive invariant holds in every reachable state.
THEOREM Inductive == Spec => []IInv
BY InitIInv, NextIInv, PTL DEF Spec

\* However often a run fails, is lost or is delivered again, when it is
\* completed its listed cards come from one attempt, but for those the retry
\* found locked.
THEOREM NoDuplicates == Spec => []RetryLeavesNoDuplicates
<1>1. IInv => RetryLeavesNoDuplicates
    BY DEF IInv
<1> QED
    BY <1>1, Inductive, PTL

-----------------------------------------------------------------------------
(* What the invariant says of single steps *)

LEMMA StepSupersedes ==
    IInv /\ [Next]_vars =>
        \A c \in superseded' \ superseded : CompletionOrRetry(c)
<1> SUFFICES ASSUME IInv, [Next]_vars, NEW c \in superseded' \ superseded
             PROVE  CompletionOrRetry(c)
    OBVIOUS
<1> USE DEF IInv
<1>1. ASSUME NEW d \in Deliveries, RetryWipe(d) PROVE CompletionOrRetry(c)
    <2>1. c.run = worker[d].job
        BY <1>1 DEF RetryWipe, OwnCards
    <2>2. runStatus[worker[d].job] = "running" /\ attempt[worker[d].job] > 1
        BY <1>1 DEF RetryWipe, ExecutionsMatchRuns, WipesAreRetries, InFlight
    <2> QED
        BY <2>1, <2>2 DEF CompletionOrRetry
<1>2. ASSUME NEW d \in Deliveries, Finish(d) PROVE CompletionOrRetry(c)
    <2> DEFINE r == worker[d].job
    <2>1. /\ c.run # r
          /\ TypeOfUnit(c.unit) \in ScopedTypes(runType[r])
        BY <1>2 DEF Finish, OtherCards, ActiveOfTypes, ScopeOf
    <2>2. r \in Runs /\ runStatus[r] = "running"
        BY <1>2 DEF Finish, ExecutionsMatchRuns, InFlight, TypeOK
    <2>3. runStatus'[r] = "completed"
        BY <1>2, <2>2 DEF Finish, TypeOK
    <2> QED
        BY <2>1, <2>2, <2>3 DEF CompletionOrRetry
<1>3. CASE \A d \in Deliveries : ~RetryWipe(d) /\ ~Finish(d)
    <2>1. superseded' = superseded
        BY <1>3 DEF Next, RequestStep, WorkerStep, StartRead, StartCommit,
           Enqueue, Load, Begin, ReadLocks, PersistFound, PersistNothing,
           Persisted, Raise, Fail, LockCard, UnlockCard, WorkerDies,
           ProcessCrash, vars, dbVars
    <2> QED
        BY <2>1
<1> QED
    BY <1>1, <1>2, <1>3

\* Options leave the leg's list with the completion of another run over their
\* type or with a retry of their own run, never with a failure.
THEOREM OptionsLeave == Spec => OptionsLeaveWithCompletionOrRetry
<1>1. IInv /\ [Next]_vars =>
          [\A c \in superseded' \ superseded : CompletionOrRetry(c)]_vars
    BY StepSupersedes
<1> QED
    BY <1>1, Inductive, PTL DEF Spec, OptionsLeaveWithCompletionOrRetry

-----------------------------------------------------------------------------
(* LegResearch implements RunLifecycle *)

LEMMA InitLifecycle == Init => Lifecycle!Init
BY DEF Init, Lifecycle!Init

\* A run's status changes only by its request and by the one execution that
\* has it; every other step is a stutter.
LEMMA StepLifecycle == IInv /\ [Next]_vars => [Lifecycle!Next]_(Lifecycle!vars)
<1> SUFFICES ASSUME IInv, [Next]_vars
             PROVE  Lifecycle!Next \/ UNCHANGED <<runStatus, attempt>>
    BY DEF Lifecycle!vars
<1> USE DEF IInv, TypeOK
<1>1. ASSUME NEW r \in Runs, StartCommit(r) PROVE Lifecycle!Next
    <2>1. runStatus[r] = "absent"
        BY <1>1 DEF StartCommit, RequestsMatchRuns
    <2>2. Lifecycle!Queue(r)
        BY <1>1, <2>1 DEF StartCommit, Lifecycle!Queue
    <2> QED
        BY <2>2 DEF Lifecycle!Next
<1>2. ASSUME NEW d \in Deliveries, Begin(d) PROVE Lifecycle!Next
    <2>1. /\ worker[d].job \in Runs
          /\ runStatus[worker[d].job] \in {"queued", "running", "failed"}
        BY <1>2 DEF Begin, ExecutionsMatchRuns, InFlight
    <2>2. Lifecycle!Attempt(worker[d].job)
        BY <1>2, <2>1 DEF Begin, Lifecycle!Attempt
    <2> QED
        BY <2>1, <2>2 DEF Lifecycle!Next
<1>3. ASSUME NEW d \in Deliveries, Finish(d) PROVE Lifecycle!Next
    <2>1. worker[d].job \in Runs /\ runStatus[worker[d].job] = "running"
        BY <1>3 DEF Finish, ExecutionsMatchRuns, InFlight
    <2>2. Lifecycle!Complete(worker[d].job)
        BY <1>3, <2>1 DEF Finish, Lifecycle!Complete
    <2> QED
        BY <2>1, <2>2 DEF Lifecycle!Next
<1>4. ASSUME NEW d \in Deliveries, Fail(d) PROVE Lifecycle!Next
    <2>1. worker[d].job \in Runs /\ runStatus[worker[d].job] = "running"
        BY <1>4 DEF Fail, ExecutionsMatchRuns, InFlight
    <2>2. Lifecycle!GiveUp(worker[d].job)
        BY <1>4, <2>1 DEF Fail, HandlerWrites, Lifecycle!GiveUp
    <2> QED
        BY <2>1, <2>2 DEF Lifecycle!Next
<1>5. CASE /\ \A r \in Runs : ~StartCommit(r)
           /\ \A d \in Deliveries : ~Begin(d) /\ ~Finish(d) /\ ~Fail(d)
    BY <1>5 DEF Next, RequestStep, WorkerStep, StartRead, Enqueue, Load,
       ReadLocks, RetryWipe, PersistFound, PersistNothing, Persisted, Raise,
       LockCard, UnlockCard, WorkerDies, ProcessCrash, vars, dbVars
<1> QED
    BY <1>1, <1>2, <1>3, <1>4, <1>5

\* The orchestrator implements the life cycle it promises of every run: under
\* redelivery, crashes and overlapping runs, a completed run is never begun,
\* failed or completed again.
THEOREM Implements == Spec => ImplementsLifecycle
BY InitLifecycle, StepLifecycle, Inductive, PTL
DEF Spec, ImplementsLifecycle, Lifecycle!Spec

-----------------------------------------------------------------------------
(* A queue that runs a job once, and runs that do not overlap *)

\* A job waits in one place: with its request, in the queue, or in an
\* execution.
DeliveredOnce ==
    /\ \A r \in Runs : request[r] \in {"none", "read", "committed"} =>
          r \notin inbox /\ ~Busy(r)
    /\ \A r \in Runs : request[r] = "committed" => runStatus[r] = "queued"
    /\ \A r \in inbox : ~Busy(r) /\ runStatus[r] = "queued"
    /\ \A r \in Runs : runStatus[r] \in {"absent", "queued"} => attempt[r] = 0
    /\ \A d \in Deliveries :
          /\ worker[d].pc = "begin" => runStatus[worker[d].job] = "queued"
          /\ worker[d].pc \notin {"wipeRead", "wipe"}

\* Runs are requested in order, and a live one is the last.
LiveIsLast ==
    /\ \A r, q \in Runs : r < q /\ request[r] = "none" => request[q] = "none"
    /\ \A r \in Runs : Live(r) =>
          \A q \in Runs \ {r} : ~Live(q) /\ (r < q => request[q] = "none")

\* Whoever is about to write the leg has seen it as it is, and the leg shows
\* the latest run.
LegIsAsSeen ==
    /\ \A r \in Runs : request[r] = "read" => reqLeg[r] = legStatus
    /\ \A d \in Deliveries : worker[d].pc = "begin" => worker[d].seenLeg = legStatus
    /\ LatestRun = {} => legStatus = "pending"
    /\ \A r \in LatestRun : legStatus = LegStatusFor(runStatus[r])

\* What the last completed execution of a type found is listed, and so is what
\* the one in flight has found.
LatestIsListed ==
    /\ \A t \in OptionTypes :
          source[t] # "none" => worker[source[t]].pc = "done"
    /\ \A c \in cards :
          /\ worker[c.by].pc # "idle"
          /\ InFlight(c.by) => c \in Active /\ c.run = worker[c.by].job
          /\ c.by = source[TypeOfUnit(c.unit)] => c \in Active

OneByOne == overlaps = {} => LiveIsLast /\ LegIsAsSeen /\ LatestIsListed

-----------------------------------------------------------------------------
(* ... each job delivered once *)

\* The steps of an execution that write neither the run nor the leg.
Minor(e) ==
    \/ ReadLocks(e) \/ Persisted(e) \/ Raise(e)
    \/ \E u \in Units : PersistFound(e, u)
    \/ \E u \in Units, error \in FetchErrors : PersistNothing(e, u, error)

LEMMA MinorStep ==
    ASSUME TypeOK, NEW e \in Deliveries, Minor(e)
    PROVE  /\ UNCHANGED <<runStatus, runType, attempt, legStatus, requestVars,
                          superseded, source, overlaps>>
           /\ \A d \in Deliveries \ {e} : worker'[d] = worker[d]
           /\ worker[e].pc \in {"wipeRead", "persist", "finishRead", "finish"}
           /\ worker'[e].pc \in {"wipe", "persist", "finishRead", "finish", "except"}
           /\ worker'[e].pc = "wipe" => worker[e].pc = "wipeRead"
           /\ worker'[e].job = worker[e].job
<1> USE DEF TypeOK
<1>1. CASE ReadLocks(e)
    BY <1>1 DEF ReadLocks, Worker, dbVars, historyVars
<1>2. CASE Persisted(e)
    BY <1>2 DEF Persisted, Worker, dbVars, historyVars
<1>3. CASE Raise(e)
    BY <1>3 DEF Raise, InTry, Worker, dbVars, historyVars
<1>4. CASE \E u \in Units : PersistFound(e, u)
    BY <1>4 DEF PersistFound, Worker, historyVars
<1>5. CASE \E u \in Units, error \in FetchErrors : PersistNothing(e, u, error)
    BY <1>5 DEF PersistNothing, Worker, dbVars, historyVars
<1> QED
    BY <1>1, <1>2, <1>3, <1>4, <1>5 DEF Minor

\* Steps of locks, and none at all.
Aside ==
    \/ \E c \in cards : LockCard(c) \/ UnlockCard(c)
    \/ UNCHANGED vars

LEMMA AsideStep ==
    ASSUME Aside
    PROVE  UNCHANGED <<runStatus, runType, attempt, legStatus, cards, superseded,
                       request, reqLeg, inbox, worker, kept, source, overlaps>>
BY DEF Aside, LockCard, UnlockCard, vars, dbVars, requestVars, historyVars

LEMMA AllSteps ==
    ASSUME [Next]_vars
    PROVE  \/ \E r \in Runs : StartRead(r) \/ StartCommit(r) \/ Enqueue(r)
           \/ \E d \in Deliveries, r \in Runs : Load(d, r)
           \/ \E e \in Deliveries :
                 \/ Begin(e) \/ RetryWipe(e) \/ Minor(e)
                 \/ Finish(e) \/ Fail(e) \/ WorkerDies(e)
           \/ ProcessCrash
           \/ Aside
BY DEF Next, RequestStep, WorkerStep, Minor, Aside

\* An execution in flight, of a job delivered once.
LEMMA InFlightIsLive ==
    ASSUME IInv, DeliveredOnce, NEW d \in Deliveries, InFlight(d)
    PROVE  /\ worker[d].job \in Runs /\ Live(worker[d].job)
           /\ worker[d].job \notin inbox
           /\ request[worker[d].job] \in {"answered", "dead"}
           /\ worker[d].pc # "begin" => runStatus[worker[d].job] = "running"
<1>1. worker[d].job \in Runs /\ Busy(worker[d].job)
    BY DEF IInv, TypeOK, Busy
<1>2. worker[d].job \notin inbox
    BY <1>1 DEF DeliveredOnce
<1>3. request[worker[d].job] \in {"answered", "dead"}
    BY <1>1 DEF DeliveredOnce, IInv, TypeOK
<1>4. worker[d].pc # "begin" => runStatus[worker[d].job] = "running"
    BY DEF IInv, ExecutionsMatchRuns
<1>5. worker[d].pc = "begin" => runStatus[worker[d].job] = "queued"
    BY DEF DeliveredOnce
<1> QED
    BY <1>1, <1>2, <1>3, <1>4, <1>5 DEF Live

LEMMA NextDeliveredOnce ==
    ~Redeliver /\ IInv /\ DeliveredOnce /\ [Next]_vars => DeliveredOnce'
<1> SUFFICES ASSUME ~Redeliver, IInv, DeliveredOnce, [Next]_vars
             PROVE  DeliveredOnce'
    OBVIOUS
<1> TypeOK
    BY DEF IInv
<1>1. ASSUME NEW r \in Runs, StartRead(r) \/ StartCommit(r) \/ Enqueue(r)
      PROVE  DeliveredOnce'
    <2>1. worker' = worker /\ attempt' = attempt
        BY <1>1 DEF StartRead, StartCommit, Enqueue, dbVars
    <2>2. \A q \in Runs : Busy(q)' <=> Busy(q)
        BY <2>1 DEF Busy, InFlight
    <2>3. CASE StartRead(r)
        BY <2>1, <2>2, <2>3 DEF StartRead, DeliveredOnce, TypeOK, dbVars
    <2>4. CASE StartCommit(r)
        <3>1. runStatus[r] = "absent" /\ attempt[r] = 0 /\ ~Busy(r) /\ r \notin inbox
            BY <2>4 DEF StartCommit, IInv, RequestsMatchRuns, DeliveredOnce
        <3>2. \A q \in Runs : runStatus'[q] = IF q = r THEN "queued" ELSE runStatus[q]
            BY <2>4 DEF StartCommit, TypeOK
        <3>3. \A d \in Deliveries : worker[d].pc = "begin" => worker[d].job # r
            BY <3>1 DEF Busy, InFlight
        <3>4. \A d \in Deliveries : worker[d].pc = "begin" => worker[d].job \in Runs
            BY DEF TypeOK, InFlight
        <3> QED
            BY <2>1, <2>2, <2>4, <3>1, <3>2, <3>3, <3>4
            DEF StartCommit, DeliveredOnce, TypeOK
    <2>5. CASE Enqueue(r)
        BY <2>1, <2>2, <2>5 DEF Enqueue, DeliveredOnce, TypeOK, dbVars
    <2> QED
        BY <1>1, <2>3, <2>4, <2>5
<1>2. ASSUME NEW d \in Deliveries, NEW r \in Runs, Load(d, r) PROVE DeliveredOnce'
    <2>1. /\ r \in inbox /\ inbox' = inbox \ {r}
          /\ UNCHANGED <<runStatus, attempt, request>>
          /\ \A e \in Deliveries \ {d} : worker'[e] = worker[e]
        BY <1>2 DEF Load, dbVars, TypeOK
    <2>2. /\ InFlight(d)' => worker'[d].job = r
          /\ worker'[d].pc \in {"begin", "done"}
        BY <1>2, LocalsTyped DEF Load, TypeOK, InFlight, NoLocals
    <2>3. \A q \in Runs \ {r} : Busy(q)' => Busy(q)
        BY <2>1, <2>2 DEF Busy, InFlight
    <2>4. runStatus[r] = "queued" /\ request[r] \notin {"none", "read", "committed"}
        BY <2>1 DEF DeliveredOnce
    <2>5. \A e \in Deliveries :
              /\ worker'[e].pc = "begin" => runStatus[worker'[e].job] = "queued"
              /\ worker'[e].pc \notin {"wipeRead", "wipe"}
        BY <2>1, <2>2, <2>4 DEF DeliveredOnce, InFlight
    <2> QED
        BY <2>1, <2>3, <2>4, <2>5 DEF DeliveredOnce, TypeOK
<1>3. ASSUME NEW e \in Deliveries, Begin(e) PROVE DeliveredOnce'
    <2> DEFINE r == worker[e].job
    <2>1. InFlight(e) /\ Continues(e)
        BY <1>3 DEF Begin, InFlight, Continues
    <2>2. /\ r \in Runs /\ r \notin inbox /\ request[r] \in {"answered", "dead"}
          /\ attempt[r] = 0
        BY <1>3, <2>1, InFlightIsLive DEF DeliveredOnce, Begin
    <2>3. /\ \A q \in Runs : runStatus'[q] = IF q = r THEN "running" ELSE runStatus[q]
          /\ \A q \in Runs : q # r => attempt'[q] = attempt[q]
          /\ UNCHANGED <<request, inbox>>
        BY <1>3, <2>2 DEF Begin, TypeOK, requestVars
    <2>4. worker'[e].pc = "persist"
        BY <1>3, <2>2 DEF Begin, TypeOK, Worker
    <2>5. \A q \in Runs : Busy(q)' => Busy(q)
        BY <2>1, ContinuingStep DEF Busy, InFlight
    <2>6. \A d \in Deliveries \ {e} : /\ worker'[d] = worker[d]
                                      /\ InFlight(d) => worker[d].job # r
        BY <2>1, ContinuingStep DEF IInv, OneExecutionPerRun
    <2>7. \A d \in Deliveries : InFlight(d) => worker[d].job \in Runs
        BY DEF TypeOK
    <2>8. \A d \in Deliveries :
              /\ worker'[d].pc = "begin" => runStatus'[worker'[d].job] = "queued"
              /\ worker'[d].pc \notin {"wipeRead", "wipe"}
        BY <2>3, <2>4, <2>6, <2>7 DEF DeliveredOnce, InFlight
    <2> HIDE DEF r
    <2> QED
        BY <2>2, <2>3, <2>5, <2>8 DEF DeliveredOnce, TypeOK
<1>4. ASSUME NEW e \in Deliveries, RetryWipe(e) PROVE FALSE
    BY <1>4 DEF RetryWipe, DeliveredOnce
<1>5. ASSUME NEW e \in Deliveries, Minor(e) PROVE DeliveredOnce'
    <2>1. \A q \in Runs : Busy(q)' => Busy(q)
        BY <1>5, MinorStep DEF Busy, InFlight
    <2>2. \A d \in Deliveries :
              /\ worker'[d].pc = "begin" => worker'[d] = worker[d]
              /\ worker'[d].pc \notin {"wipeRead", "wipe"}
        BY <1>5, MinorStep DEF DeliveredOnce
    <2> QED
        BY <1>5, <2>1, <2>2, MinorStep DEF DeliveredOnce, TypeOK, requestVars
<1>6. ASSUME NEW e \in Deliveries, Finish(e) \/ Fail(e) \/ WorkerDies(e)
      PROVE  DeliveredOnce'
    <2> DEFINE r == worker[e].job
    <2>1. Ends(e) /\ InFlight(e)
        BY <1>6, EndingStep DEF Ends
    <2>2. r \in Runs /\ r \notin inbox /\ request[r] \in {"answered", "dead"}
        BY <2>1, InFlightIsLive
    <2>3. /\ \A q \in Runs \ {r} : runStatus'[q] = runStatus[q]
          /\ UNCHANGED <<request, inbox>>
        BY <2>1, ExecutionStepFrame DEF requestVars
    <2>4. attempt' = attempt
        BY <1>6 DEF Finish, Fail, WorkerDies, dbVars
    <2>5. runStatus'[r] # runStatus[r] => runStatus'[r] \in {"completed", "failed"}
        BY <1>6, <2>2 DEF Finish, Fail, WorkerDies, dbVars, TypeOK
    <2>6. \A q \in Runs : Busy(q)' => Busy(q)
        BY <2>1, EndingStep, LocalsTyped DEF Busy, InFlight
    <2>7. \A d \in Deliveries : worker'[d].pc = "begin" =>
              d # e /\ worker'[d] = worker[d] /\ worker[d].job # r /\ worker[d].job \in Runs
        BY <2>1, EndingStep, LocalsTyped DEF IInv, OneExecutionPerRun, InFlight, TypeOK
    <2>8. \A d \in Deliveries : worker'[d].pc \notin {"wipeRead", "wipe"}
        BY <2>1, EndingStep, LocalsTyped DEF DeliveredOnce
    <2> HIDE DEF r
    <2>9. \A d \in Deliveries : worker'[d].pc = "begin" => runStatus'[worker'[d].job] = "queued"
        BY <2>3, <2>7 DEF DeliveredOnce
    <2>10. \A q \in Runs : runStatus'[q] \in {"absent", "queued"} => attempt'[q] = 0
        BY <2>3, <2>4, <2>5 DEF DeliveredOnce
    <2>11. \A q \in Runs : request[q] = "committed" \/ q \in inbox => q # r
        BY <2>2
    <2> QED
        BY <2>3, <2>6, <2>8, <2>9, <2>10, <2>11 DEF DeliveredOnce, TypeOK
<1>7. CASE ProcessCrash
    <2>1. \A q \in Runs : ~Busy(q)'
        BY <1>7, CrashStep DEF Busy, InFlight
    <2>2. \A d \in Deliveries : worker'[d].pc \in {"idle", "done"}
        BY <1>7, CrashStep
    <2>3. /\ inbox' = {} /\ UNCHANGED <<runStatus, attempt>>
          /\ \A q \in Runs : request'[q] = "committed" => request[q] = "committed"
        BY <1>7 DEF ProcessCrash, dbVars, TypeOK
    <2> QED
        BY <2>1, <2>2, <2>3 DEF DeliveredOnce
<1>8. CASE Aside
    BY <1>8, AsideStep DEF DeliveredOnce, Busy, InFlight
<1> QED
    BY <1>1, <1>2, <1>3, <1>4, <1>5, <1>6, <1>7, <1>8, AllSteps

-----------------------------------------------------------------------------
(* ... no run started while another was live *)

LEMMA LiveStays ==
    ASSUME LiveIsLast, \A q \in Runs : Live(q)' => Live(q),
           \A q \in Runs : request'[q] = "none" <=> request[q] = "none"
    PROVE  LiveIsLast'
BY DEF LiveIsLast

LEMMA NextLiveIsLast ==
    IInv /\ DeliveredOnce /\ LiveIsLast /\ overlaps' = {} /\ [Next]_vars
    => LiveIsLast'
<1> SUFFICES ASSUME IInv, DeliveredOnce, LiveIsLast, overlaps' = {}, [Next]_vars
             PROVE  LiveIsLast'
    OBVIOUS
<1> TypeOK
    BY DEF IInv
<1>1. ASSUME NEW r \in Runs, StartRead(r) PROVE LiveIsLast'
    <2>1. \A q \in Runs : ~Live(q)
        BY <1>1 DEF StartRead
    <2>2. /\ \A q \in Runs : request'[q] = IF q = r THEN "read" ELSE request[q]
          /\ runStatus' = runStatus /\ request[r] = "none"
          /\ \A q \in Runs : q < r => request[q] # "none"
        BY <1>1 DEF StartRead, TypeOK, dbVars
    <2>3. \A q \in Runs \ {r} : ~Live(q)'
        BY <2>1, <2>2 DEF Live
    <2> QED
        BY <2>2, <2>3 DEF LiveIsLast
<1>2. ASSUME NEW r \in Runs, StartCommit(r) PROVE LiveIsLast'
    BY <1>2, LiveStays DEF StartCommit, Live, TypeOK
<1>3. ASSUME NEW r \in Runs, Enqueue(r) PROVE LiveIsLast'
    BY <1>3, LiveStays DEF Enqueue, Live, TypeOK, dbVars
<1>4. ASSUME NEW d \in Deliveries, NEW r \in Runs, Load(d, r) PROVE LiveIsLast'
    BY <1>4, LiveStays DEF Load, Live, dbVars
<1>5. ASSUME NEW e \in Deliveries, Continues(e) \/ Ends(e) PROVE LiveIsLast'
    <2>1. InFlight(e)
        BY <1>5, ContinuingStep, EndingStep
    <2>2. Live(worker[e].job)
        BY <2>1, InFlightIsLive
    <2> QED
        BY <1>5, <2>2, ExecutionStepFrame, LiveStays DEF Live, requestVars
<1>6. CASE ProcessCrash
    BY <1>6, LiveStays DEF ProcessCrash, Live, TypeOK, dbVars
<1>7. CASE Aside
    BY <1>7, AsideStep, LiveStays DEF Live
<1> QED
    BY <1>1, <1>2, <1>3, <1>4, <1>5, <1>6, <1>7, AllSteps
    DEF Continues, Ends, Minor

\* The run of an execution in flight is the latest, and nobody else is at work.
LEMMA TheLatest ==
    ASSUME IInv, DeliveredOnce, LiveIsLast, NEW d \in Deliveries, InFlight(d)
    PROVE  /\ LatestRun = {worker[d].job}
           /\ \A q \in Runs : request[q] # "read"
           /\ \A e \in Deliveries \ {d} : ~InFlight(e)
<1> DEFINE r == worker[d].job
<1>1. /\ r \in Runs /\ Live(r) /\ request[r] \in {"answered", "dead"}
      /\ runStatus[r] # "absent"
    BY InFlightIsLive DEF DeliveredOnce, InFlight
<1>2. \A q \in Runs \ {r} : ~Live(q)
    BY <1>1 DEF LiveIsLast
<1>3. \A q \in Runs : q > r => runStatus[q] = "absent"
    BY <1>1 DEF LiveIsLast, IInv, RequestsMatchRuns, Runs
<1>4. LatestRun = {r}
    BY <1>1, <1>3 DEF LatestRun, Runs
<1>5. \A q \in Runs : request[q] # "read"
    BY <1>1, <1>2 DEF Live
<1>6. \A e \in Deliveries \ {d} : ~InFlight(e)
    BY <1>2, InFlightIsLive DEF IInv, OneExecutionPerRun
<1> QED
    BY <1>4, <1>5, <1>6

\* An execution writes the status of its run and the leg's together.
LEMMA LegWritten ==
    ASSUME IInv, DeliveredOnce, LiveIsLast, NEW d \in Deliveries, InFlight(d),
           NEW s, s # "absent", LegStatusFor(s) = legStatus',
           runStatus' = [runStatus EXCEPT ![worker[d].job] = s],
           request' = request, \A e \in Deliveries : worker'[e].pc # "begin"
    PROVE  LegIsAsSeen'
<1>1. LatestRun = {worker[d].job} /\ worker[d].job \in Runs
    BY TheLatest, InFlightIsLive
<1>2. \A q \in Runs : runStatus'[q] = IF q = worker[d].job THEN s ELSE runStatus[q]
    BY DEF IInv, TypeOK
<1>3. LatestRun' = LatestRun
    BY <1>1, <1>2 DEF LatestRun
<1>4. \A q \in Runs : request'[q] # "read"
    BY TheLatest
<1> QED
    BY <1>1, <1>2, <1>3, <1>4 DEF LegIsAsSeen

LEMMA LegStays ==
    ASSUME LegIsAsSeen, UNCHANGED <<runStatus, legStatus>>,
           \A r \in Runs : request'[r] = "read" =>
               (request[r] = "read" /\ reqLeg'[r] = reqLeg[r]) \/ reqLeg'[r] = legStatus,
           \A d \in Deliveries : worker'[d].pc = "begin" =>
               worker'[d] = worker[d] \/ worker'[d].seenLeg = legStatus
    PROVE  LegIsAsSeen'
BY DEF LegIsAsSeen, LatestRun

LEMMA NextLegIsAsSeen ==
    IInv /\ DeliveredOnce /\ LiveIsLast /\ LegIsAsSeen /\ [Next]_vars => LegIsAsSeen'
<1> SUFFICES ASSUME IInv, DeliveredOnce, LiveIsLast, LegIsAsSeen, [Next]_vars
             PROVE  LegIsAsSeen'
    OBVIOUS
<1> TypeOK
    BY DEF IInv
<1>1. ASSUME NEW r \in Runs, StartRead(r) PROVE LegIsAsSeen'
    BY <1>1, LegStays DEF StartRead, TypeOK, dbVars
<1>2. ASSUME NEW r \in Runs, StartCommit(r) PROVE LegIsAsSeen'
    <2>1. /\ request[r] = "read" /\ Live(r) /\ legStatus' = "researching"
          /\ \A q \in Runs : runStatus'[q] = IF q = r THEN "queued" ELSE runStatus[q]
          /\ \A q \in Runs : request'[q] = IF q = r THEN "committed" ELSE request[q]
          /\ worker' = worker
        BY <1>2 DEF StartCommit, Live, WriteLeg, LegIsAsSeen, TypeOK
    <2>2. \A q \in Runs : q > r => runStatus'[q] = "absent"
        BY <2>1 DEF LiveIsLast, IInv, RequestsMatchRuns, Runs
    <2>3. LatestRun' = {r}
        BY <2>1, <2>2 DEF LatestRun, Runs
    <2>4. \A q \in Runs : request'[q] # "read"
        BY <2>1 DEF LiveIsLast, Live
    <2>5. \A d \in Deliveries : worker[d].pc # "begin"
        <3> SUFFICES ASSUME NEW d \in Deliveries, worker[d].pc = "begin" PROVE FALSE
            OBVIOUS
        <3>1. Live(worker[d].job) /\ worker[d].job # r /\ worker[d].job \in Runs
            BY <2>1, InFlightIsLive DEF InFlight
        <3> QED
            BY <2>1, <3>1 DEF LiveIsLast
    <2> QED
        BY <2>1, <2>3, <2>4, <2>5 DEF LegIsAsSeen, LegStatusFor
<1>3. ASSUME NEW r \in Runs, Enqueue(r) PROVE LegIsAsSeen'
    BY <1>3, LegStays DEF Enqueue, TypeOK, dbVars
<1>4. ASSUME NEW d \in Deliveries, NEW r \in Runs, Load(d, r) PROVE LegIsAsSeen'
    <2>1. /\ UNCHANGED <<runStatus, legStatus, request, reqLeg>>
          /\ \A e \in Deliveries \ {d} : worker'[e] = worker[e]
        BY <1>4 DEF Load, dbVars, TypeOK
    <2>2. worker'[d].pc = "begin" => worker'[d].seenLeg = legStatus
        BY <1>4, LocalsTyped DEF Load, TypeOK, NoLocals
    <2> QED
        BY <2>1, <2>2, LegStays
<1>5. ASSUME NEW e \in Deliveries, Begin(e) PROVE LegIsAsSeen'
    <2>1. InFlight(e) /\ Continues(e)
        BY <1>5 DEF Begin, InFlight, Continues
    <2>2. \A d \in Deliveries : worker'[d].pc # "begin"
        BY <2>1, ContinuingStep, TheLatest DEF InFlight
    <2>3. legStatus' = LegStatusFor("running")
        BY <1>5 DEF Begin, WriteLeg, LegIsAsSeen, LegStatusFor
    <2>4. /\ runStatus' = [runStatus EXCEPT ![worker[e].job] = "running"]
          /\ request' = request
        BY <1>5 DEF Begin, requestVars
    <2> QED
        BY <2>1, <2>2, <2>3, <2>4, LegWritten
<1>6. ASSUME NEW e \in Deliveries, RetryWipe(e) PROVE FALSE
    BY <1>6 DEF RetryWipe, DeliveredOnce
<1>7. ASSUME NEW e \in Deliveries, Minor(e) PROVE LegIsAsSeen'
    BY <1>7, MinorStep, LegStays DEF requestVars
<1>8. ASSUME NEW e \in Deliveries, Finish(e) \/ Fail(e) PROVE LegIsAsSeen'
    <2>1. InFlight(e) /\ Ends(e) /\ worker[e].pc # "begin"
        BY <1>8, EndingStep DEF Ends, Finish, Fail
    <2>2. \A d \in Deliveries : worker'[d].pc # "begin"
        BY <2>1, EndingStep, TheLatest, LocalsTyped DEF InFlight
    <2>3. HandlerWrites(worker[e].job)
        BY <2>1, InFlightIsLive DEF HandlerWrites
    <2>4. \E s \in {"completed", "failed"} :
              /\ runStatus' = [runStatus EXCEPT ![worker[e].job] = s]
              /\ legStatus' = LegStatusFor(s)
        BY <1>8, <2>3 DEF Finish, Fail, LegStatusFor
    <2>5. request' = request
        BY <1>8 DEF Finish, Fail, requestVars
    <2> QED
        BY <2>1, <2>2, <2>4, <2>5, LegWritten
<1>9. ASSUME NEW e \in Deliveries, WorkerDies(e) PROVE LegIsAsSeen'
    BY <1>9, LegStays, LocalsTyped DEF WorkerDies, TypeOK, dbVars, requestVars
<1>10. CASE ProcessCrash
    BY <1>10, LegStays, CrashStep DEF ProcessCrash, TypeOK, dbVars
<1>11. CASE Aside
    BY <1>11, LegStays, AsideStep
<1> QED
    BY <1>1, <1>2, <1>3, <1>4, <1>5, <1>6, <1>7, <1>8, <1>9, <1>10, <1>11, AllSteps

\* A step that adds and supersedes nothing, and completes nothing.
LEMMA ListStays ==
    ASSUME TypeOK, LatestIsListed, UNCHANGED <<cards, superseded, source>>,
           \A d \in Deliveries :
              /\ worker[d].pc = "done" => worker'[d].pc = "done"
              /\ worker[d].pc # "idle" => worker'[d].pc # "idle"
              /\ InFlight(d)' /\ worker[d].pc # "idle" =>
                    InFlight(d) /\ worker'[d].job = worker[d].job
    PROVE  LatestIsListed'
<1>1. \A c \in cards : c.by \in Deliveries
    BY DEF TypeOK, Card
<1> QED
    BY <1>1 DEF LatestIsListed, Active, TypeOK

LEMMA NextLatestIsListed ==
    IInv /\ DeliveredOnce /\ LiveIsLast /\ LatestIsListed /\ [Next]_vars
    => LatestIsListed'
<1> SUFFICES ASSUME IInv, DeliveredOnce, LiveIsLast, LatestIsListed, [Next]_vars
             PROVE  LatestIsListed'
    OBVIOUS
<1> TypeOK
    BY DEF IInv
<1>0. \A c \in cards : c.by \in Deliveries /\ TypeOfUnit(c.unit) \in OptionTypes
    BY DEF TypeOK, Card, Units, TypeOfUnit, OptionTypes
<1>1. ASSUME NEW r \in Runs, StartRead(r) \/ StartCommit(r) \/ Enqueue(r)
      PROVE  LatestIsListed'
    BY <1>1, ListStays DEF StartRead, StartCommit, Enqueue, dbVars, historyVars,
       InFlight
<1>2. ASSUME NEW d \in Deliveries, NEW r \in Runs, Load(d, r) PROVE LatestIsListed'
    <2>1. /\ worker[d].pc = "idle" /\ UNCHANGED <<cards, superseded, source>>
          /\ \A e \in Deliveries \ {d} : worker'[e] = worker[e]
        BY <1>2 DEF Load, dbVars, historyVars, TypeOK
    <2> QED
        BY <2>1, ListStays DEF InFlight
<1>3. ASSUME NEW e \in Deliveries, Continues(e), UNCHANGED <<cards, superseded, source>>
      PROVE  LatestIsListed'
    <2>1. worker'[e].pc \notin {"idle", "done"}
        BY <1>3, MinorStep DEF Continues, Minor, Begin, RetryWipe, TypeOK, Worker
    <2> QED
        BY <1>3, <2>1, ContinuingStep, ListStays DEF InFlight
<1>4. ASSUME NEW e \in Deliveries, NEW u \in Units, PersistFound(e, u)
      PROVE  LatestIsListed'
    <2>0. PICK k : k = [run |-> worker[e].job, by |-> e, unit |-> u]
        OBVIOUS
    <2>1. /\ cards' = cards \cup {k} /\ UNCHANGED <<superseded, source>>
          /\ worker[e].pc = "persist" /\ InFlight(e)
          /\ k.by = e /\ k.run = worker[e].job /\ k.unit = u
        BY <1>4, <2>0 DEF PersistFound, historyVars, InFlight
    <2>2. Minor(e)
        BY <1>4 DEF Minor
    <2>3. /\ \A d \in Deliveries : worker'[d].job = worker[d].job
          /\ \A d \in Deliveries \ {e} : worker'[d].pc = worker[d].pc
          /\ worker'[e].pc \notin {"idle", "done"}
        BY <2>2, MinorStep
    <2>4. \A c \in cards : c \in Active => c \in Active'
        BY <2>1 DEF Active
    <2>5. k \in Active'
        BY <2>1 DEF LatestIsListed, Active, TypeOK
    <2>6. \A t \in OptionTypes : source[t] # "none" => source[t] # e
        BY <2>1 DEF LatestIsListed, InFlight, TypeOK
    <2>7. \A t \in OptionTypes : source'[t] # "none" => worker'[source'[t]].pc = "done"
        BY <2>1, <2>3, <2>6 DEF LatestIsListed, TypeOK
    <2>8. ASSUME NEW c \in cards
          PROVE  /\ worker'[c.by].pc # "idle"
                 /\ InFlight(c.by)' => c \in Active' /\ c.run = worker'[c.by].job
                 /\ c.by = source'[TypeOfUnit(c.unit)] => c \in Active'
        BY <1>0, <2>1, <2>3, <2>4 DEF LatestIsListed, InFlight
    <2>9. /\ worker'[k.by].pc # "idle"
          /\ InFlight(k.by)' => k \in Active' /\ k.run = worker'[k.by].job
          /\ k.by = source'[TypeOfUnit(k.unit)] => k \in Active'
        BY <2>1, <2>3, <2>5
    <2>10. \A c \in cards' :
              /\ worker'[c.by].pc # "idle"
              /\ InFlight(c.by)' => c \in Active' /\ c.run = worker'[c.by].job
              /\ c.by = source'[TypeOfUnit(c.unit)] => c \in Active'
        BY <2>1, <2>8, <2>9
    <2> QED
        BY <2>7, <2>10 DEF LatestIsListed
<1>5. ASSUME NEW e \in Deliveries, RetryWipe(e) PROVE FALSE
    BY <1>5 DEF RetryWipe, DeliveredOnce
<1>6. ASSUME NEW e \in Deliveries, Finish(e) PROVE LatestIsListed'
    <2>1. /\ cards' = cards
          /\ superseded' = superseded \cup (OtherCards(e) \ worker[e].lockedIds)
          /\ \A t \in OptionTypes :
                source'[t] = IF t \in ScopeOf(e) THEN e ELSE source[t]
        BY <1>6 DEF Finish
    <2>2. InFlight(e) /\ Ends(e)
        BY <1>6, EndingStep DEF Ends
    <2>3. /\ \A d \in Deliveries : ~InFlight(d)'
          /\ worker'[e].pc = "done"
          /\ \A d \in Deliveries \ {e} : worker'[d] = worker[d]
        BY <2>2, EndingStep, TheLatest, LocalsTyped DEF InFlight
    <2>4. \A t \in OptionTypes : source'[t] # "none" => worker'[source'[t]].pc = "done"
        BY <2>1, <2>3 DEF LatestIsListed, TypeOK
    <2>5. ASSUME NEW c \in cards, c.by = source'[TypeOfUnit(c.unit)]
          PROVE  c \in Active'
        <3>1. CASE TypeOfUnit(c.unit) \in ScopeOf(e)
            <4>1. c.by = e
                BY <1>0, <2>1, <2>5, <3>1
            <4>2. c \in Active /\ c.run = worker[e].job
                BY <2>2, <4>1 DEF LatestIsListed
            <4> QED
                BY <2>1, <4>2 DEF OtherCards, Active
        <3>2. CASE TypeOfUnit(c.unit) \notin ScopeOf(e)
            <4>1. c \in Active
                BY <1>0, <2>1, <2>5, <3>2 DEF LatestIsListed
            <4> QED
                BY <2>1, <3>2, <4>1 DEF OtherCards, ActiveOfTypes, Active
        <3> QED
            BY <3>1, <3>2
    <2>6. \A c \in cards : worker'[c.by].pc # "idle" /\ ~InFlight(c.by)'
        BY <1>0, <2>3 DEF LatestIsListed
    <2> QED
        BY <2>1, <2>4, <2>5, <2>6 DEF LatestIsListed
<1>7. ASSUME NEW e \in Deliveries, Fail(e) \/ WorkerDies(e) PROVE LatestIsListed'
    <2>1. UNCHANGED <<cards, superseded, source>>
        BY <1>7 DEF Fail, WorkerDies, dbVars, historyVars
    <2> QED
        BY <1>7, <2>1, EndingStep, ListStays, LocalsTyped DEF Ends, InFlight
<1>8. CASE ProcessCrash
    <2>1. /\ UNCHANGED <<cards, superseded, source>>
          /\ \A d \in Deliveries :
                worker'[d] = IF InFlight(d) THEN Over ELSE worker[d]
        BY <1>8 DEF ProcessCrash, dbVars, historyVars
    <2> QED
        BY <2>1, ListStays, LocalsTyped DEF InFlight
<1>9. CASE Aside
    BY <1>9, ListStays, AsideStep DEF InFlight
<1>10. ASSUME NEW e \in Deliveries,
              \/ Begin(e) \/ ReadLocks(e) \/ Persisted(e) \/ Raise(e)
              \/ \E u \in Units, error \in FetchErrors : PersistNothing(e, u, error)
       PROVE  Continues(e) /\ UNCHANGED <<cards, superseded, source>>
    BY <1>10 DEF Continues, Begin, ReadLocks, Persisted, Raise, PersistNothing,
       dbVars, historyVars
<1> QED
    BY <1>1, <1>2, <1>3, <1>4, <1>5, <1>6, <1>7, <1>8, <1>9, <1>10, AllSteps DEF Minor

LEMMA OverlapsStay == [Next]_vars => overlaps \subseteq overlaps'
BY DEF Next, RequestStep, WorkerStep, StartRead, StartCommit, Enqueue, Load,
       Begin, ReadLocks, RetryWipe, PersistFound, PersistNothing, Persisted,
       Raise, Finish, Fail, LockCard, UnlockCard, WorkerDies, ProcessCrash, vars,
       historyVars

LEMMA OneByOneHolds == ~Redeliver => (Spec => []OneByOne)
<1> SUFFICES ASSUME ~Redeliver PROVE Spec => []OneByOne
    OBVIOUS
<1>1. Init => DeliveredOnce /\ OneByOne
    <2> SUFFICES ASSUME Init PROVE DeliveredOnce /\ OneByOne
        OBVIOUS
    <2>1. \A d \in Deliveries : worker[d].pc = "idle" /\ ~InFlight(d)
        BY LocalsTyped DEF Init, InFlight
    <2>2. DeliveredOnce
        BY <2>1 DEF Init, DeliveredOnce, Busy
    <2>3. LiveIsLast /\ LegIsAsSeen
        BY <2>1 DEF Init, LiveIsLast, LegIsAsSeen, Live, LatestRun
    <2>4. LatestIsListed
        BY DEF Init, LatestIsListed
    <2> QED
        BY <2>2, <2>3, <2>4 DEF OneByOne
<1>2. IInv /\ DeliveredOnce /\ OneByOne /\ [Next]_vars => DeliveredOnce' /\ OneByOne'
    BY NextDeliveredOnce, NextLiveIsLast, NextLegIsAsSeen, NextLatestIsListed,
       OverlapsStay DEF OneByOne
<1> QED
    BY <1>1, <1>2, Inductive, PTL DEF Spec

\* With a queue that runs a job once, and as long as no run is started while
\* another is live, the leg always shows the state of its latest run.
THEOREM LegTellsTheTruth == ~Redeliver => (Spec => []LegShowsLatestRun)
<1>1. OneByOne => LegShowsLatestRun
    BY DEF OneByOne, LegIsAsSeen, LegShowsLatestRun
<1> QED
    BY <1>1, OneByOneHolds, PTL

\* And a ready leg lists all that the latest completed run over a type found.
THEOREM LegListsLatest == ~Redeliver => (Spec => []ReadyLegListsLatestResults)
<1>1. OneByOne => ReadyLegListsLatestResults
    BY DEF OneByOne, LatestIsListed, ReadyLegListsLatestResults
<1> QED
    BY <1>1, OneByOneHolds, PTL
=============================================================================
