----------------------------- MODULE RunLifecycle -----------------------------
(***************************************************************************)
(* What research promises of its runs, whatever the queue and the workers  *)
(* do: a run is queued once, is attempted, ends completed or failed, may   *)
(* be attempted again after a failure or a lost attempt, and once it is    *)
(* completed nothing happens to it any more.                               *)
(***************************************************************************)
EXTENDS Naturals

CONSTANT Runs

VARIABLES
    status,   \* of each run
    attempts  \* how many times it was begun

vars == <<status, attempts>>

Init ==
    /\ status = [r \in Runs |-> "absent"]
    /\ attempts = [r \in Runs |-> 0]

Queue(r) ==
    /\ status[r] = "absent"
    /\ status' = [status EXCEPT ![r] = "queued"]
    /\ UNCHANGED attempts

\* A first attempt, a retry, or an attempt after one that was lost.
Attempt(r) ==
    /\ status[r] \in {"queued", "failed", "running"}
    /\ status' = [status EXCEPT ![r] = "running"]
    /\ attempts' = [attempts EXCEPT ![r] = @ + 1]

Complete(r) ==
    /\ status[r] = "running"
    /\ status' = [status EXCEPT ![r] = "completed"]
    /\ UNCHANGED attempts

GiveUp(r) ==
    /\ status[r] = "running"
    /\ status' = [status EXCEPT ![r] = "failed"]
    /\ UNCHANGED attempts

Next == \E r \in Runs : Queue(r) \/ Attempt(r) \/ Complete(r) \/ GiveUp(r)

Spec == Init /\ [][Next]_vars
=============================================================================
