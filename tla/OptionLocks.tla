---------------------------- MODULE OptionLocks ----------------------------
(***************************************************************************)
(* The locks of one leg: services/lock.py, with the leg's part of the      *)
(* budget of services/budget.py.                                           *)
(*                                                                         *)
(* Each handler reads the rows it decides on and writes them in a later    *)
(* statement of the same READ COMMITTED transaction, so a handler is two   *)
(* steps, and requests of the trip's members interleave between them.  A   *)
(* handler that refuses (4xx), or whose query finds two rows where it      *)
(* allows one, changes nothing: it is a step that is not enabled.  An      *)
(* UPDATE writes, by row id, the columns whose value the session changed   *)
(* from what it had loaded, and no other.                                  *)
(***************************************************************************)
EXTENDS Naturals, Sequences

CONSTANTS
    Cards,        \* the option cards of the leg
    OptionTypeOf, \* their option_type
    BasePrice,    \* base_price_amount: None also when the currency is foreign
    Parties,      \* the party sizes leg.filters.occupancy may add up to
    Amounts,      \* the prices an organizer types in (bound)
    Clients,      \* requests in progress at a time (bound)
    MaxLocks,     \* lock rows ever inserted (bound)
    MaxEvents,    \* events of a lock after which its price is left (bound)
    OneAtATime,   \* no two requests overlap
    None

AllTypes == {"flight", "hotel", "imported", "activity", "transport"}
LockIds == 1..MaxLocks

ASSUME LockConstantsOK ==
    /\ None \notin Nat \cup Cards \cup Clients
    /\ OptionTypeOf \in [Cards -> AllTypes]
    /\ BasePrice \in [Cards -> Nat \cup {None}]
    /\ Parties \subseteq Nat \ {0} /\ Parties # {}
    /\ Amounts \subseteq Nat
    /\ MaxLocks \in Nat /\ MaxEvents \in Nat
    /\ OneAtATime \in BOOLEAN

VARIABLES
    party,   \* _leg_party_size of the leg as it is now
    locks,   \* the lock rows
    events,  \* the lock_events rows of each lock, in commit order
    request  \* what each client's handler has read, see Request

vars == <<party, locks, events, request>>

-----------------------------------------------------------------------------
SingleLockTypes == {"flight", "hotel", "imported"}
PerPersonTypes == {"activity", "transport"}

Amount == Nat \cup {None}
Row == [state : {"absent", "active", "unlocked"},
        card : Cards \cup {None},
        price : Amount,                  \* locked_price_amount
        unit : Amount,                   \* locked_unit_price_amount
        size : Amount,                   \* locked_party_size
        bookedAt : Clients \cup {None}]  \* booked_at, named by its writer
NoRow == [state |-> "absent", card |-> None, price |-> None, unit |-> None,
          size |-> None, bookedAt |-> None]

Event == [kind : {"locked", "unlocked", "price_adjusted"},
          before : Amount, after : Amount]
PlainEvent(kind) == [kind |-> kind, before |-> None, after |-> None]

Operations == {"create", "unlock", "adjust", "book", "unbook"}
Request == [op : Operations \cup {"none"},
            lock : LockIds \cup {None},
            seen : Row,       \* the row as loaded; the row to insert on create
            amount : Amount]
NoRequest == [op |-> "none", lock |-> None, seen |-> NoRow, amount |-> None]

Active == {i \in LockIds : locks[i].state = "active"}
Used == {i \in LockIds : locks[i].state # "absent"}
LocksOf(k) == {i \in Active : locks[i].card = k}
TypeOfLock(i) == OptionTypeOf[locks[i].card]
LocksOfType(t) == {i \in Active : TypeOfLock(i) = t}

NewRow_Unsnapped(k) ==
    [NoRow EXCEPT !.state = "active", !.card = k, !.price =
        IF OptionTypeOf[k] \in PerPersonTypes THEN BasePrice[k] * party
                                              ELSE BasePrice[k]]
\* _lock_price_components: the party total and what it was made of.
NewRow(k) ==
    IF OptionTypeOf[k] \in PerPersonTypes
    THEN [NoRow EXCEPT !.state = "active", !.card = k,
                       !.price = BasePrice[k] * party,
                       !.unit = BasePrice[k], !.size = party]
    ELSE [NoRow EXCEPT !.state = "active", !.card = k, !.price = BasePrice[k]]

Conflicts_Unchecked(k) == {}
\* The 409 of create_lock: by type, or by card where a type may have several.
Conflicts(k) ==
    IF OptionTypeOf[k] \in SingleLockTypes THEN LocksOfType(OptionTypeOf[k])
                                           ELSE LocksOf(k)

IndexAllows_Always(k) == TRUE
\* uq_locks_leg_id_option_type_active
IndexAllows(k) ==
    OptionTypeOf[k] \in SingleLockTypes => LocksOfType(OptionTypeOf[k]) = {}

\* What an UPDATE makes of a column that is now, when it was loaded as seen.
Column(seen, new, now) == IF new = seen THEN now ELSE new

Idle(c) == /\ request[c].op = "none"
           /\ OneAtATime => \A o \in Clients : request[o].op = "none"
Starts(c, r) == /\ Idle(c)
                /\ request' = [request EXCEPT ![c] = r]
                /\ UNCHANGED <<party, locks, events>>
Ends(c) == request' = [request EXCEPT ![c] = NoRequest]

-----------------------------------------------------------------------------
Init ==
    /\ party \in Parties
    /\ locks = [i \in LockIds |-> NoRow]
    /\ events = [i \in LockIds |-> <<>>]
    /\ request = [c \in Clients |-> NoRequest]

(* create_lock *)

CreateRead_Unpriced(c, k) ==
    /\ Conflicts(k) = {}
    /\ Starts(c, [NoRequest EXCEPT !.op = "create", !.seen = NewRow(k)])
CreateRead(c, k) ==
    /\ BasePrice[k] # None
    /\ Conflicts(k) = {}
    /\ Starts(c, [NoRequest EXCEPT !.op = "create", !.seen = NewRow(k)])

\* The row and its event in one commit, or the IntegrityError of the index.
CreateWrite(c) ==
    /\ request[c].op = "create"
    /\ \/ /\ IndexAllows(request[c].seen.card)
          /\ \E i \in LockIds \ Used :
                /\ \A j \in LockIds \ Used : i <= j
                /\ locks' = [locks EXCEPT ![i] = request[c].seen]
                /\ events' = [events EXCEPT ![i] = <<PlainEvent("locked")>>]
       \/ /\ ~IndexAllows(request[c].seen.card)
          /\ UNCHANGED <<locks, events>>
    /\ Ends(c)
    /\ UNCHANGED party

(* delete_lock: the first active lock of the card that the query returns. *)

UnlockRead(c, i) ==
    /\ i \in Active
    /\ Starts(c, [NoRequest EXCEPT !.op = "unlock", !.lock = i,
                                   !.seen = locks[i]])

Unlocked(r) == [r EXCEPT !.state = "unlocked"]

UnlockWrite(c) ==
    LET i == request[c].lock IN
    /\ request[c].op = "unlock"
    /\ locks' = [locks EXCEPT ![i] = Unlocked(@)]
    /\ events' = [events EXCEPT ![i] = Append(@, PlainEvent("unlocked"))]
    /\ Ends(c)
    /\ UNCHANGED party

(* adjust_price: the only active lock of the card. *)

AdjustRead(c, i, amount) ==
    /\ i \in Active /\ LocksOf(locks[i].card) = {i}
    /\ Len(events[i]) < MaxEvents
    /\ Starts(c, [NoRequest EXCEPT !.op = "adjust", !.lock = i,
                                   !.seen = locks[i], !.amount = amount])

Adjusted_Whole(now, seen, amount) ==
    [seen EXCEPT !.price = amount, !.unit = None, !.size = None]
Adjusted_Kept(now, seen, amount) == now
\* A flat total: the unit price and the party size are cleared.
Adjusted(now, seen, amount) ==
    [now EXCEPT !.price = Column(seen.price, amount, @),
                !.unit = Column(seen.unit, None, @),
                !.size = Column(seen.size, None, @)]

AdjustWrite(c) ==
    LET i == request[c].lock
        seen == request[c].seen
        amount == request[c].amount IN
    /\ request[c].op = "adjust"
    /\ locks' = [locks EXCEPT ![i] = Adjusted(@, seen, amount)]
    /\ events' = [events EXCEPT ![i] =
          Append(@, [kind |-> "price_adjusted", before |-> seen.price,
                     after |-> amount])]
    /\ Ends(c)
    /\ UNCHANGED party

(* set_booked: is_booked holds exactly when booked_at is set, the two are
   written together; no event is recorded. *)

BookRead(c, i, op) ==
    /\ i \in Active
    /\ Starts(c, [NoRequest EXCEPT !.op = op, !.lock = i, !.seen = locks[i]])

\* Only a transition of is_booked writes the columns.
BookedAt(c, now) ==
    LET seen == request[c].seen.bookedAt IN
    IF request[c].op = "book" /\ seen = None THEN c
    ELSE IF request[c].op = "unbook" /\ seen # None THEN None
    ELSE now

BookWrite(c) ==
    /\ request[c].op \in {"book", "unbook"}
    /\ locks' = [locks EXCEPT ![request[c].lock].bookedAt = BookedAt(c, @)]
    /\ Ends(c)
    /\ UNCHANGED <<party, events>>

(* patch_leg changes the occupancy the party size is computed from. *)
PatchOccupancy(n) ==
    /\ party' = n
    /\ UNCHANGED <<locks, events, request>>

-----------------------------------------------------------------------------
Next ==
    \/ \E c \in Clients :
          \/ \E k \in Cards : CreateRead(c, k)
          \/ \E i \in LockIds : UnlockRead(c, i)
          \/ \E i \in LockIds, amount \in Amounts : AdjustRead(c, i, amount)
          \/ \E i \in LockIds, op \in {"book", "unbook"} : BookRead(c, i, op)
          \/ CreateWrite(c) \/ UnlockWrite(c) \/ AdjustWrite(c) \/ BookWrite(c)
    \/ \E n \in Parties : PatchOccupancy(n)

Spec == Init /\ [][Next]_vars

-----------------------------------------------------------------------------
(* get_trip_budget, for one lock of the leg *)

\* A lock of a per-person option without its snapshot is taken to predate the
\* snapshots: its amount is made up again from the card and the leg of today.
Rebuilt(i) == /\ TypeOfLock(i) \in PerPersonTypes
              /\ locks[i].unit = None \/ locks[i].size = None
              /\ BasePrice[locks[i].card] # None
UnitShown(i) == IF Rebuilt(i) THEN BasePrice[locks[i].card] ELSE locks[i].unit
SizeShown(i) == IF Rebuilt(i) THEN party ELSE locks[i].size
AmountShown(i) ==
    IF /\ TypeOfLock(i) \in PerPersonTypes
       /\ UnitShown(i) # None /\ SizeShown(i) # None
    THEN UnitShown(i) * SizeShown(i)
    ELSE locks[i].price

-----------------------------------------------------------------------------
(* Properties *)

\* Every variable has its type; a lock row has a card and a price, and so has
\* what a request is about to write.
TypeOK ==
    /\ party \in Parties
    /\ locks \in [LockIds -> Row]
    /\ \A i \in Used : locks[i].card \in Cards /\ locks[i].price \in Nat
    /\ events \in [LockIds -> Seq(Event)]
    /\ request \in [Clients -> Request]
    /\ \A c \in Clients :
          /\ request[c].op \in Operations \ {"create"} => request[c].lock \in Used
          /\ request[c].op = "create" => /\ request[c].seen.state = "active"
                                         /\ request[c].seen.card \in Cards
                                         /\ request[c].seen.price \in Nat
          /\ request[c].op = "adjust" => request[c].amount \in Nat

\* A leg never has two flights, two hotels or two imported options locked,
\* however requests interleave: create_lock's check alone would not do, the
\* partial unique index decides.
OneLockPerSingleType ==
    \A i, j \in Active :
        TypeOfLock(i) = TypeOfLock(j) /\ TypeOfLock(i) \in SingleLockTypes => i = j

\* An option is locked at most once: create_lock answers 409 "Option already
\* has an active lock", and the handlers that look up the lock of an option
\* (scalar_one_or_none) rely on it.  No index enforces it for activities and
\* transport.
OneLockPerCard ==
    \A i, j \in Active : locks[i].card = locks[j].card => i = j

\* Every lock and unlock is audited, in the commit that makes it (README):
\* a row has its locked event, first, and an unlocked event exactly when it
\* is no longer active.
LockingIsAudited ==
    \A i \in Used :
        /\ Len(events[i]) > 0 /\ events[i][1].kind = "locked"
        /\ locks[i].state = "unlocked" <=>
              \E n \in 1..Len(events[i]) : events[i][n].kind = "unlocked"

\* The audit trail of a lock tells its life, when requests do not overlap:
\* every price change starts from the price the one before it ended with, the
\* last of them is the price of the row, and nothing follows the unlock.
Adjustments(i) == {n \in 1..Len(events[i]) : events[i][n].kind = "price_adjusted"}
AuditTellsTheLife ==
    \A i \in Used :
        /\ \A n \in 1..Len(events[i]) :
              events[i][n].kind = "unlocked" => n = Len(events[i])
        /\ \A n \in Adjustments(i) :
              events[i][n].after = IF n + 1 \in Adjustments(i)
                                   THEN events[i][n + 1].before
                                   ELSE locks[i].price

\* What the budget shows for a locked option is the price it was locked at,
\* whatever becomes of the leg's occupancy afterwards, until the organizer
\* overrides the price.
SnapshotsStick ==
    \A i \in Active : Adjustments(i) = {} => AmountShown(i) = locks[i].price

\* The budget adds up the locked prices (README, "sums locked option prices"),
\* also of those the organizer has overridden: adjust_price clears the unit and
\* party columns for this very purpose.
BudgetShowsLockedPrices ==
    \A i \in Active : AmountShown(i) = locks[i].price

\* What a member sees of the locks: a ledger of options and prices, one change
\* at a time.  Options of which a leg has one keep it however requests overlap,
\* by the index; the others only while requests do not.
LedgerCards == {k \in Cards : OneAtATime \/ OptionTypeOf[k] \in SingleLockTypes}
Quoted(k) ==
    IF BasePrice[k] = None THEN {}
    ELSE IF OptionTypeOf[k] \in PerPersonTypes THEN {BasePrice[k] * n : n \in Parties}
    ELSE {BasePrice[k]}
PricesOf(k) == {locks[i].price : i \in LocksOf(k)}
Ledger == INSTANCE LockLedger
    WITH Options <- LedgerCards, KindOf <- OptionTypeOf, Single <- SingleLockTypes,
         Quotes <- [k \in LedgerCards |-> Quoted(k)],
         prices <- [k \in LedgerCards |-> PricesOf(k)]
ImplementsLedger == Ledger!Spec
=============================================================================
