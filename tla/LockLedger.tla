------------------------------ MODULE LockLedger ------------------------------
(***************************************************************************)
(* What locking promises the members of a leg: an option is locked at the  *)
(* price it costs, or the group would pay, when somebody locks it; the     *)
(* price is that until the organizer types in another; options of which a  *)
(* leg has one exclude each other.  Each is one step, whoever else is at   *)
(* it; bookings and the leg's occupancy are none of its business.          *)
(***************************************************************************)
EXTENDS Naturals

CONSTANTS
    Options,
    KindOf,   \* of each option
    Single,   \* the kinds of which a leg has one
    Quotes,   \* the prices each option may be locked at
    Amounts   \* those an organizer types in

VARIABLE prices  \* the price each option is locked at: {} when it is not, {p} when it is

Locked == {o \in Options : prices[o] # {}}

Init == prices = [o \in Options |-> {}]

Lock(o) ==
    /\ o \notin Locked
    /\ KindOf[o] \in Single => \A k \in Locked : KindOf[k] # KindOf[o]
    /\ \E p \in Quotes[o] : prices' = [prices EXCEPT ![o] = {p}]

Reprice(o) ==
    /\ o \in Locked
    /\ \E a \in Amounts : prices' = [prices EXCEPT ![o] = {a}]

Unlock(o) ==
    /\ o \in Locked
    /\ prices' = [prices EXCEPT ![o] = {}]

Next == \E o \in Options : Lock(o) \/ Reprice(o) \/ Unlock(o)

Spec == Init /\ [][Next]_prices
=============================================================================
