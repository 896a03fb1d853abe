-------------------------- MODULE OptionLocks_proofs --------------------------
(***************************************************************************)
(* Theorems about OptionLocks, for every leg, every number of concurrent   *)
(* requests and every price.                                               *)
(***************************************************************************)
EXTENDS OptionLocks, TLAPS

(* The inductive invariant, beyond the types. *)

\* The price of a per-person row is made of its unit price and party size.
Snapshot(r) ==
    OptionTypeOf[r.card] \in PerPersonTypes =>
        /\ r.unit \in Nat /\ r.size \in Nat
        /\ r.price = r.unit * r.size

SnapshotsTaken ==
    /\ \A i \in Used : Adjustments(i) = {} => Snapshot(locks[i])
    /\ \A c \in Clients : request[c].op = "create" => Snapshot(request[c].seen)

LInv == TypeOK /\ LockingIsAudited /\ OneLockPerSingleType /\ SnapshotsTaken

-----------------------------------------------------------------------------
(* The steps *)

LEMMA ConstantFacts ==
    /\ None \notin Nat
    /\ NoRow \in Row /\ NoRequest \in Request
    /\ NoRequest.op = "none" /\ NoRow.state = "absent"
    /\ \A k \in {"locked", "unlocked"} : PlainEvent(k) \in Event
BY LockConstantsOK DEF NoRow, Row, NoRequest, Request, PlainEvent, Event, Amount

\* The row create_lock is about to insert.
LEMMA NewRowTyped ==
    ASSUME TypeOK, NEW k \in Cards, BasePrice[k] # None
    PROVE  /\ NewRow(k) \in Row
           /\ NewRow(k).state = "active" /\ NewRow(k).card = k
           /\ NewRow(k).price \in Nat
           /\ Snapshot(NewRow(k))
<1>1. BasePrice[k] \in Nat /\ party \in Nat
    BY LockConstantsOK DEF TypeOK
<1>2. BasePrice[k] * party \in Nat
    BY <1>1
<1>3. CASE OptionTypeOf[k] \in PerPersonTypes
    BY <1>1, <1>2, <1>3 DEF NewRow, NoRow, Row, Amount, Snapshot
<1>4. CASE OptionTypeOf[k] \notin PerPersonTypes
    BY <1>1, <1>4 DEF NewRow, NoRow, Row, Amount, Snapshot
<1> QED
    BY <1>3, <1>4

\* A handler that starts only fills its request.
Reads(c) ==
    \/ \E k \in Cards : CreateRead(c, k)
    \/ \E i \in LockIds : UnlockRead(c, i)
    \/ \E i \in LockIds, amount \in Amounts : AdjustRead(c, i, amount)
    \/ \E i \in LockIds, op \in {"book", "unbook"} : BookRead(c, i, op)

\* What a request may hold.
Sound(r) ==
    /\ r \in Request
    /\ r.op \in Operations \ {"create"} => r.lock \in Used
    /\ r.op = "create" => /\ r.seen.state = "active" /\ r.seen.card \in Cards
                          /\ r.seen.price \in Nat /\ Snapshot(r.seen)
    /\ r.op = "adjust" => r.amount \in Nat

LEMMA ReadStep ==
    ASSUME TypeOK, NEW c \in Clients, Reads(c)
    PROVE  \E r : /\ Sound(r)
                  /\ request' = [request EXCEPT ![c] = r]
                  /\ UNCHANGED <<party, locks, events>>
<1>1. ASSUME NEW k \in Cards, CreateRead(c, k)
      PROVE  Sound([NoRequest EXCEPT !.op = "create", !.seen = NewRow(k)])
    <2>1. BasePrice[k] # None
        BY <1>1 DEF CreateRead
    <2> QED
        BY <2>1, NewRowTyped, ConstantFacts
        DEF Sound, NoRequest, Request, Operations, Amount
<1>2. ASSUME NEW i \in LockIds, NEW op \in {"unlock", "book", "unbook"}, i \in Active
      PROVE  Sound([NoRequest EXCEPT !.op = op, !.lock = i, !.seen = locks[i]])
    BY <1>2 DEF TypeOK, Sound, NoRequest, Request, Operations, Amount, Active, Used
<1>3. ASSUME NEW i \in LockIds, NEW amount \in Amounts, i \in Active
      PROVE  Sound([NoRequest EXCEPT !.op = "adjust", !.lock = i,
                                     !.seen = locks[i], !.amount = amount])
    BY <1>3, LockConstantsOK
    DEF TypeOK, Sound, NoRequest, Request, Operations, Amount, Active, Used
<1>4. ASSUME NEW k \in Cards, CreateRead(c, k)
      PROVE  Starts(c, [NoRequest EXCEPT !.op = "create", !.seen = NewRow(k)])
    BY <1>4 DEF CreateRead
<1>5. ASSUME NEW i \in LockIds, UnlockRead(c, i)
      PROVE  i \in Active /\ Starts(c, [NoRequest EXCEPT !.op = "unlock",
                                            !.lock = i, !.seen = locks[i]])
    BY <1>5 DEF UnlockRead
<1>6. ASSUME NEW i \in LockIds, NEW amount \in Amounts, AdjustRead(c, i, amount)
      PROVE  i \in Active /\ Starts(c, [NoRequest EXCEPT !.op = "adjust",
                          !.lock = i, !.seen = locks[i], !.amount = amount])
    BY <1>6 DEF AdjustRead
<1>7. ASSUME NEW i \in LockIds, NEW op \in {"book", "unbook"}, BookRead(c, i, op)
      PROVE  i \in Active /\ Starts(c, [NoRequest EXCEPT !.op = op,
                                            !.lock = i, !.seen = locks[i]])
    BY <1>7 DEF BookRead
<1> HIDE DEF Sound
<1>8. \E r : Sound(r) /\ Starts(c, r)
    <2>1. CASE \E k \in Cards : CreateRead(c, k)
        BY <1>1, <1>4, <2>1
    <2>2. CASE \E i \in LockIds : UnlockRead(c, i)
        BY <1>2, <1>5, <2>2
    <2>3. CASE \E i \in LockIds, amount \in Amounts : AdjustRead(c, i, amount)
        BY <1>3, <1>6, <2>3
    <2>4. CASE \E i \in LockIds, op \in {"book", "unbook"} : BookRead(c, i, op)
        <3>1. PICK i \in LockIds, op \in {"book", "unbook"} : BookRead(c, i, op)
            BY <2>4
        <3>2. Sound([NoRequest EXCEPT !.op = op, !.lock = i, !.seen = locks[i]])
            BY <1>2, <1>7, <3>1
        <3> QED
            BY <1>7, <3>1, <3>2
    <2> QED
        BY <2>1, <2>2, <2>3, <2>4 DEF Reads
<1> QED
    BY <1>8 DEF Starts

\* A handler that writes changes one row, and ends.
Writes(c) == CreateWrite(c) \/ UnlockWrite(c) \/ AdjustWrite(c) \/ BookWrite(c)

LEMMA StepCases ==
    ASSUME Next
    PROVE  \/ \E c \in Clients : Reads(c) \/ Writes(c)
           \/ \E n \in Parties : PatchOccupancy(n)
BY DEF Next, Reads, Writes

\* The rows that exist stay what they are but for price, booking and the
\* unlock.
LEMMA RowsStay ==
    ASSUME TypeOK, [Next]_vars
    PROVE  \A i \in Used :
              /\ locks'[i].card = locks[i].card
              /\ locks'[i].state # "absent"
              /\ locks[i].state = "unlocked" => locks'[i].state = "unlocked"
<1>1. ASSUME NEW c \in Clients, CreateWrite(c)
      PROVE  \A i \in Used : locks'[i] = locks[i]
    BY <1>1 DEF CreateWrite, TypeOK, Used
<1>2. ASSUME NEW c \in Clients, UnlockWrite(c)
      PROVE  \A i \in Used : /\ locks'[i].card = locks[i].card
                             /\ locks'[i].state \in {locks[i].state, "unlocked"}
    BY <1>2 DEF UnlockWrite, Unlocked, TypeOK, Used, Row
<1>3. ASSUME NEW c \in Clients, AdjustWrite(c)
      PROVE  \A i \in Used : /\ locks'[i].card = locks[i].card
                             /\ locks'[i].state = locks[i].state
    BY <1>3 DEF AdjustWrite, Adjusted, TypeOK, Used, Row
<1>4. ASSUME NEW c \in Clients, BookWrite(c)
      PROVE  \A i \in Used : /\ locks'[i].card = locks[i].card
                             /\ locks'[i].state = locks[i].state
    BY <1>4 DEF BookWrite, TypeOK, Used, Row
<1>5. CASE UNCHANGED locks
    BY <1>5 DEF Used
<1> QED
    BY <1>1, <1>2, <1>3, <1>4, <1>5, StepCases, ReadStep
    DEF Writes, PatchOccupancy, vars, Used

-----------------------------------------------------------------------------
LEMMA InitLInv == Init => LInv
<1> SUFFICES ASSUME Init PROVE LInv
    OBVIOUS
<1>1. Used = {} /\ Active = {}
    BY DEF Init, Used, Active, NoRow
<1>2. TypeOK
    BY <1>1, ConstantFacts DEF Init, TypeOK, Operations
<1> QED
    BY <1>1, <1>2, ConstantFacts
    DEF Init, LInv, LockingIsAudited, OneLockPerSingleType, SnapshotsTaken

\* The row a create is about to insert, and the rows there are.
LEMMA NextTypeOK ==
    TypeOK /\ SnapshotsTaken /\ [Next]_vars => TypeOK'
<1> SUFFICES ASSUME TypeOK, SnapshotsTaken, [Next]_vars PROVE TypeOK'
    OBVIOUS
<1>0. \A i \in Used : locks'[i].card = locks[i].card /\ locks'[i].state # "absent"
    BY RowsStay
<1>1. ASSUME NEW c \in Clients, Reads(c) PROVE TypeOK'
    <2>1. PICK r : /\ Sound(r)
                   /\ request' = [request EXCEPT ![c] = r]
                   /\ UNCHANGED <<party, locks, events>>
        BY <1>1, ReadStep
    <2> QED
        BY <2>1 DEF TypeOK, Sound, Used
<1>2. ASSUME NEW c \in Clients, CreateWrite(c) PROVE TypeOK'
    <2>1. request[c].seen \in Row /\ request[c].seen.state = "active"
          /\ request[c].seen.card \in Cards /\ request[c].seen.price \in Nat
        BY <1>2 DEF CreateWrite, TypeOK, Request
    <2>2. locks' \in [LockIds -> Row] /\ events' \in [LockIds -> Seq(Event)]
        <3>1. CASE UNCHANGED <<locks, events>>
            BY <3>1 DEF TypeOK
        <3>2. CASE \E i \in LockIds :
                      /\ locks' = [locks EXCEPT ![i] = request[c].seen]
                      /\ events' = [events EXCEPT ![i] = <<PlainEvent("locked")>>]
            <4>1. <<PlainEvent("locked")>> \in Seq(Event)
                BY ConstantFacts
            <4> QED
                BY <2>1, <3>2, <4>1 DEF TypeOK
        <3> QED
            BY <1>2, <3>1, <3>2 DEF CreateWrite
    <2>3. \A i \in LockIds : locks'[i] = locks[i] \/ locks'[i] = request[c].seen
        BY <1>2 DEF CreateWrite, TypeOK
    <2>4. request' \in [Clients -> Request] /\ party' = party
        BY <1>2, ConstantFacts DEF CreateWrite, Ends, TypeOK
    <2>5. \A o \in Clients : request'[o] = request[o] \/ request'[o].op = "none"
        BY <1>2, ConstantFacts DEF CreateWrite, Ends, TypeOK
    <2>6. Used \subseteq Used'
        BY <1>0 DEF Used
    <2> QED
        BY <2>1, <2>2, <2>3, <2>4, <2>5, <2>6 DEF TypeOK, Used, Operations
<1>3. ASSUME NEW c \in Clients, UnlockWrite(c) \/ AdjustWrite(c) \/ BookWrite(c)
      PROVE  TypeOK'
    <2> DEFINE i == request[c].lock
    <2>1. i \in Used /\ i \in LockIds /\ locks[i] \in Row
        BY <1>3 DEF UnlockWrite, AdjustWrite, BookWrite, TypeOK, Operations, Used
    <2>2. \E r \in Row : /\ locks' = [locks EXCEPT ![i] = r]
                         /\ r.card = locks[i].card /\ r.price \in Nat
        <3>1. CASE UnlockWrite(c)
            <4>1. Unlocked(locks[i]) \in Row
                BY <2>1 DEF Unlocked, Row
            <4>2. Unlocked(locks[i]).card = locks[i].card
                  /\ Unlocked(locks[i]).price = locks[i].price
                BY <2>1 DEF Unlocked, Row
            <4>3. locks' = [locks EXCEPT ![i] = Unlocked(locks[i])]
                BY <3>1 DEF UnlockWrite
            <4>4. locks[i].price \in Nat
                BY <2>1 DEF TypeOK
            <4> QED
                BY <4>1, <4>2, <4>3, <4>4
        <3>2. CASE AdjustWrite(c)
            <4>1. request[c].amount \in Nat
                BY <3>2 DEF AdjustWrite, TypeOK
            <4>2. Adjusted(locks[i], request[c].seen, request[c].amount) \in Row
                BY <2>1, <4>1 DEF Adjusted, Column, Row, Amount
            <4>3. Adjusted(locks[i], request[c].seen, request[c].amount).price \in Nat
                BY <2>1, <4>1 DEF Adjusted, Column, Row, TypeOK
            <4>4. Adjusted(locks[i], request[c].seen, request[c].amount).card
                      = locks[i].card
                BY <2>1 DEF Adjusted, Row
            <4> QED
                BY <3>2, <4>2, <4>3, <4>4 DEF AdjustWrite
        <3>3. CASE BookWrite(c)
            <4>1. \E at \in Clients \cup {None} :
                      locks' = [locks EXCEPT ![i].bookedAt = at]
                <5>1. BookedAt(c, locks[i].bookedAt) \in Clients \cup {None}
                    BY <2>1 DEF BookedAt, Row
                <5>2. locks' = [locks EXCEPT ![i].bookedAt =
                                              BookedAt(c, locks[i].bookedAt)]
                    BY <2>1, <3>3 DEF BookWrite, TypeOK
                <5> QED
                    BY <5>1, <5>2
            <4>2. PICK at \in Clients \cup {None} :
                      locks' = [locks EXCEPT ![i].bookedAt = at]
                BY <4>1
            <4> DEFINE w == [locks[i] EXCEPT !.bookedAt = at]
            <4>3. w \in Row /\ w.card = locks[i].card /\ w.price = locks[i].price
                BY <2>1 DEF Row
            <4>4. locks' = [locks EXCEPT ![i] = w]
                BY <4>2 DEF TypeOK
            <4>5. locks[i].price \in Nat
                BY <2>1 DEF TypeOK
            <4> HIDE DEF w
            <4> QED
                BY <4>3, <4>4, <4>5
        <3> QED
            BY <1>3, <3>1, <3>2, <3>3
    <2>3. events' \in [LockIds -> Seq(Event)]
        <3>1. PlainEvent("unlocked") \in Event
            BY ConstantFacts
        <3>2. AdjustWrite(c) => [kind |-> "price_adjusted",
                  before |-> request[c].seen.price,
                  after |-> request[c].amount] \in Event
            BY DEF AdjustWrite, TypeOK, Request, Row, Event
        <3> QED
            <4>1. CASE BookWrite(c)
                BY <4>1 DEF BookWrite, TypeOK
            <4>2. ASSUME NEW e \in Event,
                         events' = [events EXCEPT ![i] = Append(@, e)]
                  PROVE  events' \in [LockIds -> Seq(Event)]
                <5>1. Append(events[i], e) \in Seq(Event)
                    BY <2>1 DEF TypeOK
                <5> QED
                    BY <4>2, <5>1 DEF TypeOK
            <4>3. CASE UnlockWrite(c)
                BY <3>1, <4>2, <4>3 DEF UnlockWrite
            <4>4. CASE AdjustWrite(c)
                BY <3>2, <4>2, <4>4 DEF AdjustWrite
            <4> QED
                BY <1>3, <4>1, <4>3, <4>4
    <2>4. /\ request' \in [Clients -> Request] /\ party' = party
          /\ \A o \in Clients : request'[o] = request[o] \/ request'[o].op = "none"
        <3>1. request' = [request EXCEPT ![c] = NoRequest] /\ party' = party
            BY <1>3 DEF UnlockWrite, AdjustWrite, BookWrite, Ends
        <3> QED
            BY <3>1, ConstantFacts DEF TypeOK
    <2>5. Used \subseteq Used'
        BY <1>0 DEF Used
    <2>6. PICK r \in Row : /\ locks' = [locks EXCEPT ![i] = r]
                           /\ r.card = locks[i].card /\ r.price \in Nat
        BY <2>2
    <2> HIDE DEF i
    <2>7. /\ locks' \in [LockIds -> Row]
          /\ \A j \in Used' : locks'[j].card \in Cards /\ locks'[j].price \in Nat
        BY <2>1, <2>6 DEF TypeOK, Used
    <2> QED
        BY <2>3, <2>4, <2>5, <2>7 DEF TypeOK, Operations
<1>4. ASSUME NEW n \in Parties, PatchOccupancy(n) PROVE TypeOK'
    BY <1>4 DEF PatchOccupancy, TypeOK, Used
<1>5. CASE UNCHANGED vars
    BY <1>5 DEF vars, TypeOK, Used
<1> QED
    BY <1>1, <1>2, <1>3, <1>4, <1>5, StepCases DEF Writes

\* Where the log of a lock may grow, and with what.
Audited(row, log) ==
    /\ Len(log) > 0 /\ log[1].kind = "locked"
    /\ row.state = "unlocked" <=> \E n \in 1..Len(log) : log[n].kind = "unlocked"

LEMMA AppendAudited ==
    ASSUME NEW row, NEW new, NEW log \in Seq(Event), NEW e \in Event,
           Audited(row, log),
           new.state = IF e.kind = "unlocked" THEN "unlocked" ELSE row.state
    PROVE  Audited(new, Append(log, e))
<1> DEFINE l == Append(log, e)
<1>1. /\ Len(l) = Len(log) + 1 /\ Len(log) \in Nat
      /\ \A n \in 1..Len(log) : l[n] = log[n]
      /\ l[Len(log) + 1] = e
    OBVIOUS
<1>2. \A n \in 1..Len(l) : n \in 1..Len(log) \/ n = Len(log) + 1
    BY <1>1
<1>3. 1 \in 1..Len(log) /\ Len(l) > 0
    BY <1>1 DEF Audited
<1>4. l[1].kind = "locked"
    BY <1>1, <1>3 DEF Audited
<1>5. (\E n \in 1..Len(l) : l[n].kind = "unlocked")
      <=> (\E n \in 1..Len(log) : log[n].kind = "unlocked") \/ e.kind = "unlocked"
    <2> HIDE DEF l
    <2>1. \A n \in 1..Len(log) : n \in 1..Len(l)
        BY <1>1
    <2>2. Len(log) + 1 \in 1..Len(l)
        BY <1>1
    <2> QED
        BY <1>1, <1>2, <2>1, <2>2
<1> QED
    BY <1>3, <1>4, <1>5 DEF Audited

LEMMA NextLockingIsAudited ==
    TypeOK /\ LockingIsAudited /\ [Next]_vars => LockingIsAudited'
<1> SUFFICES ASSUME TypeOK, LockingIsAudited, [Next]_vars
             PROVE  LockingIsAudited'
    OBVIOUS
<1> USE DEF LockingIsAudited
<1>0. \A i \in Used : Audited(locks[i], events[i])
    BY DEF Audited
<1>1. ASSUME NEW c \in Clients, CreateWrite(c) PROVE LockingIsAudited'
    <2>1. CASE UNCHANGED <<locks, events>>
        BY <2>1 DEF Used
    <2>2. ASSUME NEW i \in LockIds \ Used,
                 locks' = [locks EXCEPT ![i] = request[c].seen],
                 events' = [events EXCEPT ![i] = <<PlainEvent("locked")>>]
          PROVE  LockingIsAudited'
        <3>1. request[c].seen.state = "active"
            BY <1>1 DEF CreateWrite, TypeOK
        <3>2. events'[i] = <<PlainEvent("locked")>> /\ locks'[i] = request[c].seen
            BY <2>2 DEF TypeOK
        <3>3. /\ Len(events'[i]) = 1
              /\ events'[i][1].kind = "locked"
            BY <3>2 DEF PlainEvent
        <3>4. \A j \in LockIds \ {i} : locks'[j] = locks[j] /\ events'[j] = events[j]
            BY <2>2 DEF TypeOK
        <3>5. Used' \subseteq Used \cup {i}
            BY <3>4 DEF Used
        <3> QED
            BY <2>2, <3>1, <3>2, <3>3, <3>4, <3>5
    <2> QED
        BY <1>1, <2>1, <2>2 DEF CreateWrite
<1>2. ASSUME NEW c \in Clients, NEW i \in Used, NEW e \in Event,
             \A j \in LockIds \ {i} : locks'[j] = locks[j] /\ events'[j] = events[j],
             events'[i] = Append(events[i], e),
             locks'[i].state = IF e.kind = "unlocked" THEN "unlocked"
                                                      ELSE locks[i].state
      PROVE  LockingIsAudited'
    <2>1. Audited(locks'[i], Append(events[i], e))
        BY <1>0, <1>2, AppendAudited DEF TypeOK, Used
    <2>2. \A j \in Used' : Audited(locks'[j], events'[j])
        BY <1>0, <1>2, <2>1 DEF Used
    <2> QED
        BY <2>2 DEF Audited
<1>3. ASSUME NEW c \in Clients, UnlockWrite(c) PROVE LockingIsAudited'
    <2>1. request[c].lock \in Used
        BY <1>3 DEF UnlockWrite, TypeOK, Operations
    <2>2. /\ locks'[request[c].lock].state = "unlocked"
          /\ events'[request[c].lock] =
                Append(events[request[c].lock], PlainEvent("unlocked"))
          /\ \A j \in LockIds \ {request[c].lock} :
                locks'[j] = locks[j] /\ events'[j] = events[j]
        BY <1>3, <2>1 DEF UnlockWrite, Unlocked, TypeOK, Used, Row
    <2>3. PlainEvent("unlocked").kind = "unlocked"
        BY DEF PlainEvent
    <2> QED
        BY <1>2, <2>1, <2>2, <2>3, ConstantFacts
<1>4. ASSUME NEW c \in Clients, AdjustWrite(c) PROVE LockingIsAudited'
    <2> DEFINE e == [kind |-> "price_adjusted", before |-> request[c].seen.price,
                     after |-> request[c].amount]
    <2>1. request[c].lock \in Used
        BY <1>4 DEF AdjustWrite, TypeOK, Operations
    <2>2. e \in Event /\ e.kind = "price_adjusted"
        BY DEF TypeOK, Request, Row, Event
    <2>3. /\ locks'[request[c].lock].state = locks[request[c].lock].state
          /\ events'[request[c].lock] = Append(events[request[c].lock], e)
          /\ \A j \in LockIds \ {request[c].lock} :
                locks'[j] = locks[j] /\ events'[j] = events[j]
        BY <1>4, <2>1 DEF AdjustWrite, Adjusted, TypeOK, Used, Row
    <2> HIDE DEF e
    <2> QED
        BY <1>2, <2>1, <2>2, <2>3
<1>5. ASSUME NEW c \in Clients, BookWrite(c) PROVE LockingIsAudited'
    <2>1. \A i \in LockIds : locks'[i].state = locks[i].state
        BY <1>5 DEF BookWrite, TypeOK, Row
    <2>2. events' = events
        BY <1>5 DEF BookWrite
    <2> QED
        BY <2>1, <2>2 DEF Used
<1>6. CASE UNCHANGED <<locks, events>>
    BY <1>6 DEF Used
<1> QED
    BY <1>1, <1>3, <1>4, <1>5, <1>6, StepCases, ReadStep
    DEF Writes, PatchOccupancy, vars

LEMMA NextOneLockPerSingleType ==
    TypeOK /\ OneLockPerSingleType /\ [Next]_vars => OneLockPerSingleType'
<1> SUFFICES ASSUME TypeOK, OneLockPerSingleType, [Next]_vars
             PROVE  OneLockPerSingleType'
    OBVIOUS
<1>1. ASSUME NEW c \in Clients, NEW i \in LockIds \ Used,
             IndexAllows(request[c].seen.card),
             locks' = [locks EXCEPT ![i] = request[c].seen]
      PROVE  OneLockPerSingleType'
    <2>1. \A j \in Active' \ {i} : j \in Active /\ locks'[j].card = locks[j].card
        BY <1>1 DEF Active, TypeOK
    <2>2. locks'[i].card = request[c].seen.card
        BY <1>1 DEF TypeOK
    <2>3. \A j \in Active : OptionTypeOf[request[c].seen.card] \in SingleLockTypes =>
              TypeOfLock(j) # OptionTypeOf[request[c].seen.card]
        BY <1>1 DEF IndexAllows, LocksOfType
    <2> QED
        BY <2>1, <2>2, <2>3 DEF OneLockPerSingleType, TypeOfLock
<1>2. ASSUME Active' \subseteq Active,
             \A j \in Active : locks'[j].card = locks[j].card
      PROVE  OneLockPerSingleType'
    BY <1>2 DEF OneLockPerSingleType, TypeOfLock
<1>3. ASSUME NEW c \in Clients, UnlockWrite(c) \/ AdjustWrite(c) \/ BookWrite(c)
      PROVE  Active' \subseteq Active
    <2>1. request[c].lock \in Used
        BY <1>3 DEF UnlockWrite, AdjustWrite, BookWrite, TypeOK, Operations
    <2>2. \A j \in LockIds \ {request[c].lock} : locks'[j] = locks[j]
        BY <1>3 DEF UnlockWrite, AdjustWrite, BookWrite, TypeOK
    <2>3. \A j \in Used : locks[j].state \in {"active", "unlocked"}
        BY DEF TypeOK, Row, Used
    <2> QED
        BY <2>1, <2>2, <2>3, RowsStay DEF Active, Used
<1>4. \A j \in Active : locks'[j].card = locks[j].card
    BY RowsStay DEF Active, Used
<1>5. ASSUME NEW c \in Clients, CreateWrite(c) PROVE OneLockPerSingleType'
    BY <1>1, <1>2, <1>5 DEF CreateWrite, Active
<1>6. CASE UNCHANGED locks
    BY <1>2, <1>6 DEF Active
<1> QED
    BY <1>2, <1>3, <1>4, <1>5, <1>6, StepCases, ReadStep
    DEF Writes, PatchOccupancy, vars

LEMMA NextSnapshotsTaken ==
    TypeOK /\ SnapshotsTaken /\ [Next]_vars => SnapshotsTaken'
<1> SUFFICES ASSUME TypeOK, SnapshotsTaken, [Next]_vars PROVE SnapshotsTaken'
    OBVIOUS
<1>1. ASSUME NEW c \in Clients, Reads(c) PROVE SnapshotsTaken'
    <2>1. PICK r : /\ Sound(r)
                   /\ request' = [request EXCEPT ![c] = r]
                   /\ UNCHANGED <<party, locks, events>>
        BY <1>1, ReadStep
    <2> QED
        BY <2>1 DEF TypeOK, SnapshotsTaken, Sound, Used, Adjustments
<1>2. ASSUME NEW c \in Clients, Writes(c)
      PROVE  \A o \in Clients : request'[o].op = "create" =>
                request[o].op = "create" /\ request'[o].seen = request[o].seen
    <2>1. request' = [request EXCEPT ![c] = NoRequest]
        BY <1>2 DEF Writes, CreateWrite, UnlockWrite, AdjustWrite, BookWrite, Ends
    <2> QED
        BY <2>1, ConstantFacts DEF TypeOK
<1>3. ASSUME NEW c \in Clients, CreateWrite(c) PROVE SnapshotsTaken'
    <2>1. CASE UNCHANGED <<locks, events>>
        BY <1>2, <1>3, <2>1 DEF Writes, SnapshotsTaken, Used, Adjustments
    <2>2. ASSUME NEW i \in LockIds \ Used,
                 locks' = [locks EXCEPT ![i] = request[c].seen],
                 events' = [events EXCEPT ![i] = <<PlainEvent("locked")>>]
          PROVE  SnapshotsTaken'
        <3>1. Snapshot(request[c].seen)
            BY <1>3 DEF CreateWrite, SnapshotsTaken
        <3>2. /\ locks'[i] = request[c].seen
              /\ \A j \in LockIds \ {i} : locks'[j] = locks[j] /\ events'[j] = events[j]
            BY <2>2 DEF TypeOK
        <3>3. \A j \in Used' : Adjustments(j)' = {} => Snapshot(locks'[j])
            BY <3>1, <3>2 DEF SnapshotsTaken, Used, Adjustments
        <3> QED
            BY <1>2, <1>3, <3>3 DEF Writes, SnapshotsTaken, Snapshot
    <2> QED
        BY <1>3, <2>1, <2>2 DEF CreateWrite
<1>4. ASSUME NEW c \in Clients, UnlockWrite(c) PROVE SnapshotsTaken'
    <2>1. request[c].lock \in Used
        BY <1>4 DEF UnlockWrite, TypeOK, Operations
    <2>2. \A i \in LockIds :
              /\ locks'[i].card = locks[i].card /\ locks'[i].price = locks[i].price
              /\ locks'[i].unit = locks[i].unit /\ locks'[i].size = locks[i].size
        BY <1>4 DEF UnlockWrite, Unlocked, TypeOK, Row
    <2>3. Used' = Used
        BY <1>4, <2>1 DEF UnlockWrite, Unlocked, TypeOK, Used, Row
    <2>4. \A i \in LockIds : Adjustments(i)' = {} => Adjustments(i) = {}
        <3>1. CASE UNCHANGED events
            BY <3>1 DEF Adjustments
        <3>2. \A i \in LockIds \ {request[c].lock} : events'[i] = events[i]
            BY <1>4 DEF UnlockWrite, TypeOK
        <3>3. /\ events[request[c].lock] \in Seq(Event)
              /\ events'[request[c].lock] =
                    Append(events[request[c].lock], PlainEvent("unlocked"))
            BY <1>4, <2>1 DEF UnlockWrite, TypeOK, Used
        <3>4. \A n \in 1..Len(events[request[c].lock]) :
                  /\ n \in 1..Len(events'[request[c].lock])
                  /\ events'[request[c].lock][n] = events[request[c].lock][n]
            BY <3>3, ConstantFacts
        <3> QED
            BY <3>2, <3>4 DEF Adjustments
    <2>5. \A i \in Used : Snapshot(locks[i]) => Snapshot(locks'[i])
        BY <2>2 DEF Snapshot, Used
    <2>6. \A i \in Used' : Adjustments(i)' = {} => Snapshot(locks'[i])
        BY <2>3, <2>4, <2>5 DEF SnapshotsTaken, Used
    <2> QED
        BY <1>2, <1>4, <2>6 DEF Writes, SnapshotsTaken, Snapshot
<1>5. ASSUME NEW c \in Clients, AdjustWrite(c) PROVE SnapshotsTaken'
    <2> DEFINE e == [kind |-> "price_adjusted", before |-> request[c].seen.price,
                     after |-> request[c].amount]
    <2>0. request[c].lock \in Used
        BY <1>5 DEF AdjustWrite, TypeOK, Operations
    <2>1. PICK i \in Used : i = request[c].lock
        BY <2>0
    <2>2. /\ events[i] \in Seq(Event)
          /\ events'[i] = Append(events[i], e)
          /\ \A j \in LockIds \ {i} :
                locks'[j] = locks[j] /\ events'[j] = events[j]
        BY <1>5, <2>1 DEF AdjustWrite, TypeOK, Used
    <2>3. e \in Event /\ e.kind = "price_adjusted"
        BY DEF TypeOK, Request, Row, Event
    <2> HIDE DEF e
    <2>4. Len(events[i]) + 1 \in Adjustments(i)'
        <3>1. LET n == Len(events[i]) + 1 IN
                  /\ n \in 1..Len(events'[i])
                  /\ events'[i][n] = e
            BY <2>2, <2>3
        <3> QED
            BY <2>3, <3>1 DEF Adjustments
    <2>5. \A j \in Used' : Adjustments(j)' = {} => Snapshot(locks'[j])
        <3>1. \A j \in LockIds \ {i} : Adjustments(j)' = Adjustments(j)
            BY <2>2 DEF Adjustments
        <3>2. \A j \in LockIds \ {i} :
                  j \in Used' => j \in Used /\ locks'[j] = locks[j]
            BY <2>2 DEF Used
        <3>3. \A j \in Used' : j \in LockIds
            BY DEF Used
        <3> QED
            BY <2>4, <3>1, <3>2, <3>3 DEF SnapshotsTaken
    <2> QED
        BY <1>2, <1>5, <2>5 DEF Writes, SnapshotsTaken, Snapshot
<1>6. ASSUME NEW c \in Clients, BookWrite(c) PROVE SnapshotsTaken'
    <2>1. \A i \in LockIds :
              /\ locks'[i].card = locks[i].card /\ locks'[i].price = locks[i].price
              /\ locks'[i].unit = locks[i].unit /\ locks'[i].size = locks[i].size
              /\ locks'[i].state = locks[i].state
        BY <1>6 DEF BookWrite, TypeOK, Row
    <2>2. events' = events
        BY <1>6 DEF BookWrite
    <2>3. \A i \in Used' : Adjustments(i)' = {} => Snapshot(locks'[i])
        BY <2>1, <2>2 DEF SnapshotsTaken, Snapshot, Used, Adjustments
    <2> QED
        BY <1>2, <1>6, <2>3 DEF Writes, SnapshotsTaken, Snapshot
<1>7. CASE UNCHANGED <<locks, events, request>>
    BY <1>7 DEF SnapshotsTaken, Snapshot, Used, Adjustments
<1> QED
    BY <1>1, <1>3, <1>4, <1>5, <1>6, <1>7, StepCases
    DEF Writes, PatchOccupancy, vars

-----------------------------------------------------------------------------
(* Theorems *)

LEMMA NextLInv == LInv /\ [Next]_vars => LInv'
BY NextTypeOK, NextLockingIsAudited, NextOneLockPerSingleType, NextSnapshotsTaken
DEF LInv

\* The inductive invariant holds in every reachable state.
THEOREM LocksInvariant == Spec => []LInv
BY InitLInv, NextLInv, PTL DEF Spec

\* Every row, event and request keeps its type: none is about to write a row
\* without a card and a price.
THEOREM LockTypes == Spec => []TypeOK
<1>1. LInv => TypeOK
    BY DEF LInv
<1> QED
    BY <1>1, LocksInvariant, PTL

\* However requests interleave, a leg has at most one flight, one hotel and one
\* imported option locked.
THEOREM OneLockPerType == Spec => []OneLockPerSingleType
<1>1. LInv => OneLockPerSingleType
    BY DEF LInv
<1> QED
    BY <1>1, LocksInvariant, PTL

\* Every lock and every unlock has its event, also when requests interleave.
THEOREM EveryLockAudited == Spec => []LockingIsAudited
<1>1. LInv => LockingIsAudited
    BY DEF LInv
<1> QED
    BY <1>1, LocksInvariant, PTL

\* The budget shows a locked option at its locked price until the organizer
\* overrides the price, whatever happens to the leg's occupancy.
THEOREM BudgetKeepsSnapshots == Spec => []SnapshotsStick
<1>1. LInv => SnapshotsStick
    <2> SUFFICES ASSUME LInv, NEW i \in Active, Adjustments(i) = {}
                 PROVE  AmountShown(i) = locks[i].price
        BY DEF SnapshotsStick
    <2>1. Snapshot(locks[i])
        BY DEF LInv, SnapshotsTaken, Active, Used
    <2>2. None \notin Nat
        BY ConstantFacts
    <2> QED
        BY <2>1, <2>2 DEF AmountShown, Rebuilt, UnitShown, SizeShown, TypeOfLock,
           Snapshot
<1> QED
    BY <1>1, LocksInvariant, PTL

\* An unlocked lock is never active again: a late price change or booking
\* of a lock that was removed meanwhile does not bring it back.
UnlockIsFinal ==
    [][\A i \in LockIds :
          locks[i].state = "unlocked" => locks'[i].state = "unlocked"]_vars

\* No request, however stale, makes an unlocked lock active again.
THEOREM UnlockedForGood == Spec => UnlockIsFinal
<1>1. LInv /\ [Next]_vars =>
          [\A i \in LockIds :
              locks[i].state = "unlocked" => locks'[i].state = "unlocked"]_vars
    BY RowsStay DEF LInv, Used
<1> QED
    BY <1>1, LocksInvariant, PTL DEF Spec, UnlockIsFinal

-----------------------------------------------------------------------------
(* Requests that do not overlap: what one has read is so when it writes.   *)

Alone ==
    \A c, d \in Clients : request[c].op # "none" /\ request[d].op # "none" => c = d

ReadStillHolds(r) ==
    /\ r.op = "create" => LocksOf(r.seen.card) = {}
    /\ r.op \in {"unlock", "adjust"} => r.lock \in Active
    /\ r.op = "adjust" => r.seen.price = locks[r.lock].price

\* AuditTellsTheLife of one row, and what it takes to append to its log.
Told(row, log) ==
    /\ \A n \in 1..Len(log) : log[n].kind = "unlocked" => n = Len(log)
    /\ \A n \in 1..Len(log) : n > 1 => log[n].kind # "locked"
    /\ \A n \in 1..Len(log) :
          log[n].kind = "price_adjusted" =>
              log[n].after = IF n + 1 \in 1..Len(log) /\ log[n + 1].kind = "price_adjusted"
                             THEN log[n + 1].before ELSE row.price

LifeTold == \A i \in Used : Told(locks[i], events[i])

SerialInv ==
    /\ Alone /\ OneLockPerCard /\ LifeTold
    /\ \A c \in Clients : ReadStillHolds(request[c])

LEMMA ToldIsAudit == LifeTold => AuditTellsTheLife
BY DEF LifeTold, Told, AuditTellsTheLife, Adjustments

\* One more event: the unlock, or a price change from the price as it is.
LEMMA AppendTold ==
    ASSUME NEW row, NEW new, NEW log \in Seq(Event), NEW e \in Event, Told(row, log),
           \A n \in 1..Len(log) : log[n].kind # "unlocked",
           e.kind = "unlocked" => new.price = row.price,
           e.kind = "price_adjusted" => e.before = row.price /\ e.after = new.price,
           e.kind \in {"unlocked", "price_adjusted"}
    PROVE  Told(new, Append(log, e))
<1> DEFINE l == Append(log, e)
<1>1. /\ Len(l) = Len(log) + 1 /\ Len(log) \in Nat
      /\ \A n \in 1..Len(log) : l[n] = log[n]
      /\ l[Len(log) + 1] = e
    OBVIOUS
<1> HIDE DEF l
<1>2. ASSUME NEW n \in 1..Len(l), l[n].kind = "unlocked" PROVE n = Len(l)
    BY <1>1, <1>2
<1>3. ASSUME NEW n \in 1..Len(l), l[n].kind = "price_adjusted"
      PROVE  l[n].after = IF n + 1 \in 1..Len(l) /\ l[n + 1].kind = "price_adjusted"
                          THEN l[n + 1].before ELSE new.price
    <2>1. CASE n = Len(l)
        <3>1. l[n] = e /\ ~(n + 1 \in 1..Len(l))
            BY <1>1, <2>1
        <3> QED
            BY <1>3, <3>1
    <2>2. CASE n = Len(log)
        <3>1. /\ l[n] = log[n] /\ l[n + 1] = e
              /\ n \in 1..Len(log) /\ n + 1 \in 1..Len(l) /\ ~(n + 1 \in 1..Len(log))
            BY <1>1, <2>2
        <3>2. log[n].after = row.price
            BY <1>3, <3>1 DEF Told
        <3> QED
            BY <3>1, <3>2
    <2>3. CASE n < Len(log)
        <3>1. /\ n \in 1..Len(log) /\ n + 1 \in 1..Len(log) /\ n + 1 \in 1..Len(l)
              /\ l[n] = log[n] /\ l[n + 1] = log[n + 1]
            BY <1>1, <2>3
        <3>2. log[n + 1].kind = "price_adjusted"
            <4>1. log[n + 1] \in Event
                BY <3>1
            <4>2. n + 1 > 1
                BY <3>1
            <4> QED
                BY <3>1, <4>1, <4>2 DEF Event, Told
        <3> QED
            BY <1>3, <3>1, <3>2 DEF Told
    <2>4. n \in Nat /\ n <= Len(log) + 1
        BY <1>1
    <2> QED
        BY <1>1, <2>1, <2>2, <2>3, <2>4
<1>4. ASSUME NEW n \in 1..Len(l), n > 1 PROVE l[n].kind # "locked"
    BY <1>1, <1>4 DEF Told
<1>5. Told(new, l)
    BY <1>2, <1>3, <1>4 DEF Told
<1> QED
    BY <1>5 DEF l

\* The read of a handler leaves it the only one in progress.
LEMMA SerialRead ==
    ASSUME OneAtATime, TypeOK, SerialInv, NEW c \in Clients, Reads(c)
    PROVE  SerialInv'
<1>1. ASSUME NEW k \in Cards, CreateRead(c, k)
      PROVE  ReadStillHolds([NoRequest EXCEPT !.op = "create", !.seen = NewRow(k)])
    <2>1. BasePrice[k] # None /\ Conflicts(k) = {}
        BY <1>1 DEF CreateRead
    <2>2. NewRow(k).card = k
        BY <2>1, NewRowTyped
    <2>3. LocksOf(k) = {}
        BY <2>1 DEF Conflicts, LocksOf, LocksOfType, TypeOfLock
    <2> QED
        BY <2>2, <2>3 DEF ReadStillHolds, NoRequest
<1>2. ASSUME NEW i \in LockIds, NEW op \in {"unlock", "book", "unbook"}, i \in Active
      PROVE  ReadStillHolds([NoRequest EXCEPT !.op = op, !.lock = i, !.seen = locks[i]])
    BY <1>2 DEF ReadStillHolds, NoRequest
<1>3. ASSUME NEW i \in LockIds, NEW amount \in Amounts, i \in Active
      PROVE  ReadStillHolds([NoRequest EXCEPT !.op = "adjust", !.lock = i,
                                     !.seen = locks[i], !.amount = amount])
    BY <1>3 DEF ReadStillHolds, NoRequest
<1>4. \E r : ReadStillHolds(r) /\ Starts(c, r)
    <2>1. CASE \E k \in Cards : CreateRead(c, k)
        BY <1>1, <2>1 DEF CreateRead
    <2>2. CASE \E i \in LockIds : UnlockRead(c, i)
        BY <1>2, <2>2 DEF UnlockRead
    <2>3. CASE \E i \in LockIds, amount \in Amounts : AdjustRead(c, i, amount)
        BY <1>3, <2>3 DEF AdjustRead
    <2>4. CASE \E i \in LockIds, op \in {"book", "unbook"} : BookRead(c, i, op)
        <3>1. PICK i \in LockIds, op \in {"book", "unbook"} : BookRead(c, i, op)
            BY <2>4
        <3>2. i \in Active /\ Starts(c, [NoRequest EXCEPT !.op = op,
                                            !.lock = i, !.seen = locks[i]])
            BY <3>1 DEF BookRead
        <3> QED
            BY <1>2, <3>1, <3>2
    <2> QED
        BY <2>1, <2>2, <2>3, <2>4 DEF Reads
<1>5. PICK r : ReadStillHolds(r) /\ Starts(c, r)
    BY <1>4
<1>6. /\ request' = [request EXCEPT ![c] = r] /\ UNCHANGED <<locks, events>>
      /\ \A o \in Clients : request[o].op = "none"
    BY <1>5 DEF Starts, Idle
<1>7. \A d \in Clients : request'[d] = IF d = c THEN r ELSE request[d]
    BY <1>6 DEF TypeOK
<1>8. Alone'
    BY <1>6, <1>7 DEF Alone
<1>9. \A d \in Clients : ReadStillHolds(request'[d])
    BY <1>5, <1>7 DEF SerialInv
<1>10. (\A d \in Clients : ReadStillHolds(request[d]))'
    BY <1>6, <1>9 DEF ReadStillHolds, LocksOf, Active
<1>11. OneLockPerCard' /\ LifeTold'
    BY <1>6 DEF SerialInv, OneLockPerCard, LifeTold, Active, Used
<1> QED
    BY <1>8, <1>10, <1>11 DEF SerialInv

\* After a write no request is in progress.
LEMMA SerialEnd ==
    ASSUME TypeOK, SerialInv, NEW c \in Clients, Ends(c), request[c].op # "none"
    PROVE  Alone' /\ (\A d \in Clients : ReadStillHolds(request[d]))'
<1>1. \A d \in Clients : request'[d].op = "none"
    BY ConstantFacts DEF Ends, TypeOK, SerialInv, Alone
<1> QED
    BY <1>1 DEF Alone, ReadStillHolds

\* A write changes one row and its log.
LEMMA SerialRows ==
    ASSUME TypeOK, OneLockPerCard, LifeTold, NEW i \in LockIds,
           \A j \in LockIds \ {i} : locks'[j] = locks[j] /\ events'[j] = events[j],
           i \in Used' => Told(locks'[i], events'[i]),
           i \in Active' => \A j \in Active \ {i} : locks[j].card # locks'[i].card
    PROVE  OneLockPerCard' /\ LifeTold'
<1>1. LifeTold'
    BY DEF LifeTold, Used
<1>2. \A j \in Active' \ {i} : j \in Active /\ locks'[j].card = locks[j].card
    BY DEF Active
<1>3. OneLockPerCard'
    BY <1>2 DEF OneLockPerCard
<1> QED
    BY <1>1, <1>3

LEMMA SerialCreate ==
    ASSUME TypeOK, SerialInv, NEW c \in Clients, CreateWrite(c)
    PROVE  OneLockPerCard' /\ LifeTold'
<1>1. CASE UNCHANGED <<locks, events>>
    BY <1>1 DEF SerialInv, OneLockPerCard, LifeTold, Active, Used
<1>2. CASE ~UNCHANGED <<locks, events>>
    <2>1. PICK i \in LockIds \ Used :
              /\ locks' = [locks EXCEPT ![i] = request[c].seen]
              /\ events' = [events EXCEPT ![i] = <<PlainEvent("locked")>>]
        BY <1>2 DEF CreateWrite
    <2>2. /\ \A j \in LockIds \ {i} : locks'[j] = locks[j] /\ events'[j] = events[j]
          /\ locks'[i] = request[c].seen /\ events'[i] = <<PlainEvent("locked")>>
        BY <2>1 DEF TypeOK
    <2>3. Told(request[c].seen, <<PlainEvent("locked")>>)
        BY DEF Told, PlainEvent
    <2>4. LocksOf(request[c].seen.card) = {}
        BY DEF CreateWrite, SerialInv, ReadStillHolds
    <2>5. \A j \in Active : locks[j].card # request[c].seen.card
        BY <2>4 DEF LocksOf
    <2> QED
        BY <2>2, <2>3, <2>5, SerialRows DEF SerialInv
<1> QED
    BY <1>1, <1>2

\* An unlock or a price change, of a row that is still active.
LEMMA SerialAppend ==
    ASSUME TypeOK, LockingIsAudited, SerialInv, NEW i \in Active, NEW e \in Event,
           NEW row, row.card = locks[i].card,
           locks' = [locks EXCEPT ![i] = row],
           events' = [events EXCEPT ![i] = Append(@, e)],
           e.kind = "unlocked" => row.price = locks[i].price,
           e.kind = "price_adjusted" => e.before = locks[i].price /\ e.after = row.price,
           e.kind \in {"unlocked", "price_adjusted"}
    PROVE  OneLockPerCard' /\ LifeTold'
<1>1. /\ i \in LockIds /\ i \in Used /\ locks[i].state = "active"
      /\ events[i] \in Seq(Event)
    BY DEF Active, Used, TypeOK
<1>2. /\ \A j \in LockIds \ {i} : locks'[j] = locks[j] /\ events'[j] = events[j]
      /\ locks'[i] = row /\ events'[i] = Append(events[i], e)
    BY <1>1 DEF TypeOK
<1>3. \A n \in 1..Len(events[i]) : events[i][n].kind # "unlocked"
    BY <1>1 DEF LockingIsAudited
<1>4. Told(locks[i], events[i])
    BY <1>1 DEF SerialInv, LifeTold
<1>5. Told(row, Append(events[i], e))
    BY <1>1, <1>3, <1>4, AppendTold
<1>6. \A j \in Active \ {i} : locks[j].card # row.card
    BY DEF SerialInv, OneLockPerCard
<1> QED
    BY <1>1, <1>2, <1>5, <1>6, SerialRows DEF SerialInv

LEMMA SerialWrite ==
    ASSUME TypeOK, LockingIsAudited, SerialInv, NEW c \in Clients, Writes(c)
    PROVE  SerialInv'
<1>1. request[c].op # "none" /\ Ends(c)
    BY DEF Writes, CreateWrite, UnlockWrite, AdjustWrite, BookWrite
<1>2. Alone' /\ (\A d \in Clients : ReadStillHolds(request[d]))'
    BY <1>1, SerialEnd
<1>3. ASSUME UnlockWrite(c) PROVE OneLockPerCard' /\ LifeTold'
    <2> DEFINE i == request[c].lock
               row == Unlocked(locks[i])
               e == PlainEvent("unlocked")
    <2>1. i \in Active /\ locks[i] \in Row
        BY <1>3 DEF UnlockWrite, SerialInv, ReadStillHolds, Active, TypeOK
    <2>2. row.card = locks[i].card /\ row.price = locks[i].price
        BY <2>1 DEF Unlocked, Row
    <2>3. e \in Event /\ e.kind = "unlocked"
        BY ConstantFacts DEF PlainEvent
    <2>4. /\ locks' = [locks EXCEPT ![i] = row]
          /\ events' = [events EXCEPT ![i] = Append(@, e)]
        BY <1>3, <2>1 DEF UnlockWrite, TypeOK
    <2> HIDE DEF i, row, e
    <2> QED
        BY <2>1, <2>2, <2>3, <2>4, SerialAppend
<1>4. ASSUME AdjustWrite(c) PROVE OneLockPerCard' /\ LifeTold'
    <2> DEFINE i == request[c].lock
               seen == request[c].seen
               row == Adjusted(locks[i], seen, request[c].amount)
               e == [kind |-> "price_adjusted", before |-> seen.price,
                     after |-> request[c].amount]
    <2>1. /\ i \in Active /\ locks[i] \in Row
          /\ seen.price = locks[i].price /\ seen.price \in Amount
          /\ request[c].amount \in Amount
        BY <1>4 DEF AdjustWrite, SerialInv, ReadStillHolds, Active, TypeOK, Request, Row
    <2>2. row.card = locks[i].card /\ row.price = request[c].amount
        BY <2>1 DEF Adjusted, Column, Row
    <2>3. e \in Event /\ e.kind = "price_adjusted"
        BY <2>1 DEF Event
    <2>4. /\ locks' = [locks EXCEPT ![i] = row]
          /\ events' = [events EXCEPT ![i] = Append(@, e)]
        BY <1>4, <2>1 DEF AdjustWrite, TypeOK
    <2>5. e.before = locks[i].price /\ e.after = row.price
        BY <2>1, <2>2
    <2> HIDE DEF i, seen, row, e
    <2> QED
        BY <2>1, <2>2, <2>3, <2>4, <2>5, SerialAppend
<1>5. ASSUME BookWrite(c) PROVE OneLockPerCard' /\ LifeTold'
    <2>1. \A i \in LockIds : /\ locks'[i].card = locks[i].card
                             /\ locks'[i].state = locks[i].state
                             /\ locks'[i].price = locks[i].price
        BY <1>5 DEF BookWrite, TypeOK, Row
    <2>2. events' = events
        BY <1>5 DEF BookWrite
    <2> QED
        BY <2>1, <2>2 DEF SerialInv, OneLockPerCard, LifeTold, Told, Active, Used
<1> QED
    BY <1>2, <1>3, <1>4, <1>5, SerialCreate DEF Writes, SerialInv

LEMMA SerialNext ==
    OneAtATime /\ LInv /\ SerialInv /\ [Next]_vars => SerialInv'
<1> SUFFICES ASSUME OneAtATime, LInv, SerialInv, [Next]_vars PROVE SerialInv'
    OBVIOUS
<1>1. CASE UNCHANGED <<locks, events, request>>
    BY <1>1 DEF SerialInv, Alone, ReadStillHolds, OneLockPerCard, LifeTold, LocksOf,
       Active, Used
<1> QED
    BY <1>1, StepCases, SerialRead, SerialWrite DEF LInv, PatchOccupancy, vars

LEMMA SerialHolds == OneAtATime => (Spec => []SerialInv)
<1> SUFFICES ASSUME OneAtATime PROVE Spec => []SerialInv
    OBVIOUS
<1>1. Init => SerialInv
    BY ConstantFacts DEF Init, SerialInv, Alone, ReadStillHolds, OneLockPerCard,
       LifeTold, Active, Used
<1>2. LInv /\ SerialInv /\ [Next]_vars => SerialInv'
    BY SerialNext
<1> QED
    BY <1>1, <1>2, LocksInvariant, PTL DEF Spec

\* While requests do not overlap, no option is ever locked twice, of whatever
\* type, although no index says so.
THEOREM NoOptionTwice == OneAtATime => (Spec => []OneLockPerCard)
<1>1. SerialInv => OneLockPerCard
    BY DEF SerialInv
<1> QED
    BY <1>1, SerialHolds, PTL

\* While requests do not overlap, the events of a lock are its life: each price
\* change starts where the last one ended, and the unlock is the end.
THEOREM LifeIsTold == OneAtATime => (Spec => []AuditTellsTheLife)
<1>1. SerialInv => AuditTellsTheLife
    BY ToldIsAudit DEF SerialInv
<1> QED
    BY <1>1, SerialHolds, PTL

-----------------------------------------------------------------------------
(* The ledger *)

\* What a request is about to write is a price the ledger allows.
RequestsQuoted ==
    \A c \in Clients :
        /\ request[c].op = "create" =>
              request[c].seen.price \in Quoted(request[c].seen.card)
        /\ request[c].op = "adjust" => request[c].amount \in Amounts

LedgerInv == LInv /\ RequestsQuoted /\ (OneAtATime => SerialInv)

\* No row of an option in the ledger has another active one beside it.
OneRowEach ==
    \A i, j \in Active :
        locks[i].card \in LedgerCards /\ locks[i].card = locks[j].card => i = j

\* The ledger's variable.
Shown == [k \in LedgerCards |-> PricesOf(k)]

LEMMA LedgerHasOneRowEach == LedgerInv => OneRowEach
<1> SUFFICES ASSUME LedgerInv, NEW i \in Active, NEW j \in Active,
                    locks[i].card \in LedgerCards, locks[i].card = locks[j].card
             PROVE  i = j
    BY DEF OneRowEach
<1>1. CASE OneAtATime
    BY <1>1 DEF LedgerInv, SerialInv, OneLockPerCard
<1>2. CASE OptionTypeOf[locks[i].card] \in SingleLockTypes
    BY <1>2 DEF LedgerInv, LInv, OneLockPerSingleType, TypeOfLock
<1> QED
    BY <1>1, <1>2 DEF LedgerCards

LEMMA NewRowQuoted ==
    ASSUME TypeOK, NEW k \in Cards, BasePrice[k] # None
    PROVE  NewRow(k).card = k /\ NewRow(k).price \in Quoted(k)
BY DEF NewRow, NoRow, Quoted, TypeOK

LEMMA QuotesStep == TypeOK /\ RequestsQuoted /\ [Next]_vars => RequestsQuoted'
<1> SUFFICES ASSUME TypeOK, RequestsQuoted, [Next]_vars PROVE RequestsQuoted'
    OBVIOUS
<1>1. ASSUME NEW c \in Clients, NEW r, request' = [request EXCEPT ![c] = r],
             r.op = "create" => r.seen.price \in Quoted(r.seen.card),
             r.op = "adjust" => r.amount \in Amounts
      PROVE  RequestsQuoted'
    <2>1. \A d \in Clients : request'[d] = IF d = c THEN r ELSE request[d]
        BY <1>1 DEF TypeOK
    <2>2. \A d \in Clients :
             /\ request'[d].op = "create" =>
                   request'[d].seen.price \in Quoted(request'[d].seen.card)
             /\ request'[d].op = "adjust" => request'[d].amount \in Amounts
        BY <1>1, <2>1 DEF RequestsQuoted
    <2> QED
        BY <2>2 DEF RequestsQuoted, Quoted
<1>2. ASSUME NEW c \in Clients, NEW k \in Cards, CreateRead(c, k)
      PROVE  RequestsQuoted'
    <2> DEFINE r == [NoRequest EXCEPT !.op = "create", !.seen = NewRow(k)]
    <2>1. request' = [request EXCEPT ![c] = r] /\ BasePrice[k] # None
        BY <1>2 DEF CreateRead, Starts
    <2>2. r.op = "create" /\ r.seen = NewRow(k)
        BY DEF NoRequest
    <2>3. r.seen.price \in Quoted(r.seen.card)
        BY <2>1, <2>2, NewRowQuoted
    <2> HIDE DEF r
    <2> QED
        BY <1>1, <2>1, <2>2, <2>3
<1>3. ASSUME NEW c \in Clients, NEW i \in LockIds, NEW amount \in Amounts,
             AdjustRead(c, i, amount)
      PROVE  RequestsQuoted'
    <2> DEFINE r == [NoRequest EXCEPT !.op = "adjust", !.lock = i,
                                      !.seen = locks[i], !.amount = amount]
    <2>1. request' = [request EXCEPT ![c] = r]
        BY <1>3 DEF AdjustRead, Starts
    <2>2. r.op = "adjust" /\ r.amount = amount
        BY DEF NoRequest
    <2> HIDE DEF r
    <2> QED
        BY <1>1, <2>1, <2>2
<1>4. ASSUME NEW c \in Clients, NEW i \in LockIds, NEW op \in {"unlock", "book", "unbook"},
             Starts(c, [NoRequest EXCEPT !.op = op, !.lock = i, !.seen = locks[i]])
      PROVE  RequestsQuoted'
    <2> DEFINE r == [NoRequest EXCEPT !.op = op, !.lock = i, !.seen = locks[i]]
    <2>1. request' = [request EXCEPT ![c] = r] /\ r.op = op
        BY <1>4 DEF Starts, NoRequest
    <2> HIDE DEF r
    <2> QED
        BY <1>1, <2>1
<1>5. ASSUME NEW c \in Clients, Reads(c)
      PROVE  RequestsQuoted'
    BY <1>2, <1>3, <1>4, <1>5 DEF Reads, UnlockRead, BookRead
<1>6. ASSUME NEW c \in Clients, Writes(c)
      PROVE  RequestsQuoted'
    <2>1. request' = [request EXCEPT ![c] = NoRequest]
        BY <1>6 DEF Writes, CreateWrite, UnlockWrite, AdjustWrite, BookWrite, Ends
    <2> QED
        BY <1>1, <2>1, ConstantFacts
<1>7. CASE UNCHANGED request
    BY <1>7 DEF RequestsQuoted, Quoted
<1> QED
    BY <1>5, <1>6, <1>7, StepCases DEF PatchOccupancy, vars

\* A write changes what is shown of the option of its row, and of no other.
LEMMA OthersStay ==
    ASSUME NEW i \in LockIds, NEW k, \A j \in LockIds \ {i} : locks'[j] = locks[j],
           i \in Active => locks[i].card = k, i \in Active' => locks'[i].card = k,
           NEW o, o # k
    PROVE  PricesOf(o)' = PricesOf(o)
<1>1. LocksOf(o)' = LocksOf(o) /\ i \notin LocksOf(o)
    BY DEF LocksOf, Active
<1> QED
    BY <1>1 DEF PricesOf, LocksOf, Active

LEMMA OneRowShown ==
    ASSUME NEW i \in LockIds, NEW k, \A j \in LockIds \ {i} : locks'[j] = locks[j],
           i \in Active => locks[i].card = k, i \in Active' => locks'[i].card = k,
           \A j \in Active \ {i} : locks[j].card # k
    PROVE  /\ PricesOf(k) = IF i \in Active THEN {locks[i].price} ELSE {}
           /\ PricesOf(k)' = IF i \in Active' THEN {locks'[i].price} ELSE {}
<1>1. LocksOf(k) = IF i \in Active THEN {i} ELSE {}
    BY DEF LocksOf
<1>2. LocksOf(k)' = IF i \in Active' THEN {i} ELSE {}
    BY DEF LocksOf, Active
<1> QED
    BY <1>1, <1>2 DEF PricesOf

LEMMA ShownStays ==
    ASSUME \A k \in LedgerCards : PricesOf(k)' = PricesOf(k)
    PROVE  UNCHANGED Shown
BY DEF Shown, LedgerCards

LEMMA ShownChanges ==
    ASSUME NEW k \in LedgerCards, NEW S, PricesOf(k)' = S,
           \A o \in LedgerCards \ {k} : PricesOf(o)' = PricesOf(o)
    PROVE  Shown' = [Shown EXCEPT ![k] = S]
BY DEF Shown, LedgerCards

LEMMA RowsShown ==
    ASSUME \A i \in LockIds : /\ locks'[i].state = locks[i].state
                              /\ locks'[i].card = locks[i].card
                              /\ locks'[i].price = locks[i].price
    PROVE  UNCHANGED Shown
<1>1. \A k : LocksOf(k)' = LocksOf(k)
    BY DEF LocksOf, Active
<1>2. \A k : PricesOf(k)' = PricesOf(k)
    BY <1>1 DEF PricesOf, LocksOf, Active
<1> QED
    BY <1>2, ShownStays

\* A lock is entered at a price its option may be locked at, when nothing that
\* excludes it is locked.
LEMMA CreateShown ==
    ASSUME LedgerInv, NEW c \in Clients, CreateWrite(c)
    PROVE  UNCHANGED Shown \/ \E k \in LedgerCards : Ledger!Lock(k)
<1>1. CASE UNCHANGED locks
    BY <1>1, RowsShown
<1>2. CASE ~UNCHANGED locks
    <2>1. PICK row : row = request[c].seen
        OBVIOUS
    <2>2. PICK i \in LockIds \ Used : locks' = [locks EXCEPT ![i] = row]
        BY <1>2, <2>1 DEF CreateWrite
    <2>3. PICK k : /\ k = row.card /\ k \in Cards
                   /\ row.state = "active" /\ row.price \in Quoted(k)
        BY <2>1 DEF CreateWrite, LedgerInv, LInv, TypeOK, RequestsQuoted
    <2>4. IndexAllows(k)
        BY <1>2, <2>1, <2>3 DEF CreateWrite
    <2>5. /\ \A j \in LockIds \ {i} : locks'[j] = locks[j]
          /\ locks'[i] = row /\ i \notin Active /\ i \in Active'
        BY <2>2, <2>3 DEF LedgerInv, LInv, TypeOK, Active, Used
    <2>6. \A o : o # k => PricesOf(o)' = PricesOf(o)
        BY <2>3, <2>5, OthersStay
    <2>7. CASE k \notin LedgerCards
        BY <2>6, <2>7, ShownStays
    <2>8. CASE k \in LedgerCards
        <3>1. \A j \in Active : locks[j].card # k
            <4>1. CASE OneAtATime
                <5>1. LocksOf(k) = {}
                    BY <2>1, <2>3, <4>1 DEF CreateWrite, LedgerInv, SerialInv, ReadStillHolds
                <5> QED
                    BY <5>1 DEF LocksOf
            <4>2. CASE OptionTypeOf[k] \in SingleLockTypes
                BY <2>4, <4>2 DEF IndexAllows, LocksOfType, TypeOfLock
            <4> QED
                BY <2>8, <4>1, <4>2 DEF LedgerCards
        <3>2. PricesOf(k) = {} /\ PricesOf(k)' = {row.price}
            BY <2>3, <2>5, <3>1, OneRowShown
        <3>3. Shown' = [Shown EXCEPT ![k] = {row.price}]
            BY <2>6, <2>8, <3>2, ShownChanges
        <3>4. ASSUME OptionTypeOf[k] \in SingleLockTypes, NEW o \in LedgerCards,
                     OptionTypeOf[o] = OptionTypeOf[k]
              PROVE  PricesOf(o) = {}
            BY <2>4, <3>4 DEF IndexAllows, PricesOf, LocksOf, LocksOfType, TypeOfLock
        <3>5. Ledger!Lock(k)
            BY <2>3, <2>8, <3>2, <3>3, <3>4 DEF Ledger!Lock, Ledger!Locked, Shown
        <3> QED
            BY <2>8, <3>5
    <2> QED
        BY <2>7, <2>8
<1> QED
    BY <1>1, <1>2

\* A row that is changed keeps its option; its price becomes one an organizer
\* typed in, or it is no longer locked.
LEMMA ChangeShown ==
    ASSUME LedgerInv, NEW i \in Used, NEW row, locks' = [locks EXCEPT ![i] = row],
           row.card = locks[i].card,
           row.state \in {locks[i].state, "unlocked"},
           row.price \in {locks[i].price} \cup Amounts
    PROVE  UNCHANGED Shown \/ \E k \in LedgerCards : Ledger!Reprice(k) \/ Ledger!Unlock(k)
<1>1. PICK k : k = locks[i].card
    OBVIOUS
<1>2. /\ i \in LockIds /\ locks'[i] = row
      /\ \A j \in LockIds \ {i} : locks'[j] = locks[j]
    BY DEF LedgerInv, LInv, TypeOK, Used
<1>3. \A o : o # k => PricesOf(o)' = PricesOf(o)
    BY <1>1, <1>2, OthersStay
<1>4. CASE k \notin LedgerCards
    BY <1>3, <1>4, ShownStays
<1>5. CASE i \notin Active
    <2>1. i \notin Active'
        BY <1>2, <1>5 DEF Active, Used
    <2>2. LocksOf(k)' = LocksOf(k) /\ i \notin LocksOf(k)
        BY <1>2, <1>5, <2>1 DEF LocksOf, Active
    <2>3. PricesOf(k)' = PricesOf(k)
        BY <1>2, <2>2 DEF PricesOf, LocksOf, Active
    <2> QED
        BY <1>3, <2>3, ShownStays
<1>6. CASE k \in LedgerCards /\ i \in Active
    <2>1. \A j \in Active \ {i} : locks[j].card # k
        BY <1>1, <1>6, LedgerHasOneRowEach DEF OneRowEach
    <2>2. /\ PricesOf(k) = {locks[i].price}
          /\ PricesOf(k)' = IF i \in Active' THEN {row.price} ELSE {}
        BY <1>1, <1>2, <1>6, <2>1, OneRowShown
    <2>3. CASE i \notin Active'
        <3>1. Shown' = [Shown EXCEPT ![k] = {}]
            BY <1>3, <1>6, <2>2, <2>3, ShownChanges
        <3>2. Ledger!Unlock(k)
            BY <1>6, <2>2, <3>1 DEF Ledger!Unlock, Ledger!Locked, Shown
        <3> QED
            BY <1>6, <3>2
    <2>4. CASE i \in Active' /\ row.price = locks[i].price
        BY <1>3, <2>2, <2>4, ShownStays
    <2>5. CASE i \in Active' /\ row.price \in Amounts
        <3>1. Shown' = [Shown EXCEPT ![k] = {row.price}]
            BY <1>3, <1>6, <2>2, <2>5, ShownChanges
        <3>2. Ledger!Reprice(k)
            BY <1>6, <2>2, <2>5, <3>1 DEF Ledger!Reprice, Ledger!Locked, Shown
        <3> QED
            BY <1>6, <3>2
    <2> QED
        BY <2>3, <2>4, <2>5
<1> QED
    BY <1>4, <1>5, <1>6

LEMMA LedgerStep == LedgerInv /\ [Next]_vars => [Ledger!Next]_Shown
<1> SUFFICES ASSUME LedgerInv, [Next]_vars
             PROVE  UNCHANGED Shown
                    \/ \E k \in LedgerCards :
                          Ledger!Lock(k) \/ Ledger!Reprice(k) \/ Ledger!Unlock(k)
    BY DEF Ledger!Next
<1>1. ASSUME NEW c \in Clients, CreateWrite(c)
      PROVE  UNCHANGED Shown \/ \E k \in LedgerCards : Ledger!Lock(k)
    BY <1>1, CreateShown
<1>2. ASSUME NEW c \in Clients, UnlockWrite(c)
      PROVE  UNCHANGED Shown
             \/ \E k \in LedgerCards : Ledger!Reprice(k) \/ Ledger!Unlock(k)
    <2>1. PICK i \in Used : i = request[c].lock /\ i \in LockIds
        BY <1>2 DEF UnlockWrite, LedgerInv, LInv, TypeOK, Operations, Used
    <2>2. locks' = [locks EXCEPT ![i] = Unlocked(locks[i])]
        BY <1>2, <2>1 DEF UnlockWrite
    <2>3. /\ Unlocked(locks[i]).card = locks[i].card
          /\ Unlocked(locks[i]).state = "unlocked"
          /\ Unlocked(locks[i]).price = locks[i].price
        BY <2>1 DEF Unlocked, LedgerInv, LInv, TypeOK, Row
    <2> QED
        BY <2>2, <2>3, ChangeShown
<1>3. ASSUME NEW c \in Clients, AdjustWrite(c)
      PROVE  UNCHANGED Shown
             \/ \E k \in LedgerCards : Ledger!Reprice(k) \/ Ledger!Unlock(k)
    <2>1. PICK i \in Used : i = request[c].lock /\ i \in LockIds
        BY <1>3 DEF AdjustWrite, LedgerInv, LInv, TypeOK, Operations, Used
    <2> DEFINE row == Adjusted(locks[i], request[c].seen, request[c].amount)
    <2>2. locks' = [locks EXCEPT ![i] = row]
        BY <1>3, <2>1 DEF AdjustWrite
    <2>3. request[c].amount \in Amounts
        BY <1>3 DEF AdjustWrite, LedgerInv, RequestsQuoted
    <2>4. /\ row.card = locks[i].card /\ row.state = locks[i].state
          /\ row.price \in {locks[i].price, request[c].amount}
        BY <2>1 DEF Adjusted, Column, LedgerInv, LInv, TypeOK, Row
    <2> HIDE DEF row
    <2> QED
        BY <2>2, <2>3, <2>4, ChangeShown
<1>4. ASSUME NEW c \in Clients, BookWrite(c)
      PROVE  UNCHANGED Shown
    <2>1. \A i \in LockIds : /\ locks'[i].state = locks[i].state
                             /\ locks'[i].card = locks[i].card
                             /\ locks'[i].price = locks[i].price
        BY <1>4 DEF BookWrite, LedgerInv, LInv, TypeOK, Row
    <2> QED
        BY <2>1, RowsShown
<1>5. ASSUME UNCHANGED locks
      PROVE  UNCHANGED Shown
    BY <1>5, RowsShown
<1>6. ASSUME NEW c \in Clients, Reads(c)
      PROVE  UNCHANGED locks
    BY <1>6, ReadStep DEF LedgerInv, LInv
<1> QED
    BY <1>1, <1>2, <1>3, <1>4, <1>5, <1>6, StepCases DEF Writes, PatchOccupancy, vars

\* The members see one ledger of prices: of flights, hotels and imported
\* options however many requests overlap, and of every option while they do not
\* (create_lock, delete_lock and adjust_price, each a read and a later write).
THEOREM LocksKeepALedger == Spec => ImplementsLedger
<1>1. Init => RequestsQuoted
    BY ConstantFacts DEF Init, RequestsQuoted
<1>2. Init => Ledger!Init
    <2> SUFFICES ASSUME Init PROVE Shown = [k \in LedgerCards |-> {}]
        BY DEF Ledger!Init, Shown
    <2>1. \A k : LocksOf(k) = {}
        BY ConstantFacts DEF Init, LocksOf, Active
    <2> QED
        BY <2>1 DEF Shown, PricesOf
<1>3. LInv /\ RequestsQuoted /\ [Next]_vars => RequestsQuoted'
    BY QuotesStep DEF LInv
<1>4. Spec => []RequestsQuoted
    BY <1>1, <1>3, LocksInvariant, PTL DEF Spec
<1>5. Spec => [](OneAtATime => SerialInv)
    <2>1. CASE OneAtATime
        <3>1. SerialInv => (OneAtATime => SerialInv)
            OBVIOUS
        <3> QED
            BY <2>1, <3>1, SerialHolds, PTL
    <2>2. CASE ~OneAtATime
        <3>1. OneAtATime => SerialInv
            BY <2>2
        <3> QED
            BY <3>1, PTL
    <2> QED
        BY <2>1, <2>2
<1>6. LInv /\ RequestsQuoted /\ (OneAtATime => SerialInv) /\ [Next]_vars
          => [Ledger!Next]_[k \in LedgerCards |-> PricesOf(k)]
    BY LedgerStep DEF LedgerInv, Shown
<1> QED
    BY <1>2, <1>4, <1>5, <1>6, LocksInvariant, PTL DEF Spec, ImplementsLedger, Ledger!Spec
=============================================================================
