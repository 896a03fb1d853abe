-------------------------- MODULE TripMembers_proofs --------------------------
(***************************************************************************)
(* Theorems about TripMembers, for any people and any number of requests.  *)
(***************************************************************************)
EXTENDS TripMembers, TLAPS

(* The invariant that holds however requests overlap. *)

\* Accounts, once linked, belong to people who signed in.
AccountsAreKnown ==
    /\ \A i \in Present : members[i].account = "linked" =>
                             members[i].person \in registered
    /\ \A c \in Clients :
          /\ request[c].op = "add" /\ request[c].account = "linked" =>
                request[c].person \in registered
          /\ request[c].op = "transfer" => request[c].person \in registered

MInv == TypeOK /\ AccountsAreKnown /\ OneMembershipEach

-----------------------------------------------------------------------------
LEMMA ConstantsTyped ==
    /\ NoRow \in Row /\ NoRequest \in Request
    /\ NoRow.state = "absent" /\ NoRequest.op = "none"
    /\ 1 \in MemberIds
BY MembersConstantsOK DEF NoRow, Row, NoRequest, Request, MemberIds

LEMMA InitMInv == Init => MInv
<1> SUFFICES ASSUME Init PROVE MInv
    OBVIOUS
<1>1. Present = {1} /\ members[1].person = Founder
    BY ConstantsTyped DEF Init, Present, NoRow
<1>2. TypeOK
    BY ConstantsTyped, MembersConstantsOK DEF Init, TypeOK, Row
<1> QED
    BY <1>1, <1>2, ConstantsTyped DEF Init, MInv, AccountsAreKnown,
       OneMembershipEach, RowsOf

\* What each writing step does to the rows.
LEMMA RowSteps ==
    ASSUME TypeOK, [Next]_vars
    PROVE  /\ members' \in [MemberIds -> Row]
           /\ \A i \in Present' :
                 \/ /\ i \in Present
                    /\ members'[i].person = members[i].person
                    /\ members'[i].account = members[i].account
                 \/ \E c \in Clients :
                       /\ i \notin Present
                       /\ request[c].op = "add"
                       /\ EmailIsFree(request[c].person)
                       /\ members'[i].person = request[c].person
                       /\ members'[i].account = request[c].account
                       /\ \A j \in Present' \ {i} : j \in Present
<1>1. ASSUME NEW c \in Clients, AddWrite(c), ~UNCHANGED members
      PROVE  \E i \in MemberIds \ Present :
                /\ EmailIsFree(request[c].person)
                /\ members' = [members EXCEPT ![i] =
                     [state |-> "present", person |-> request[c].person,
                      account |-> request[c].account, role |-> "member"]]
    BY <1>1 DEF AddWrite, Present
<1>2. ASSUME NEW c \in Clients, AddWrite(c), ~UNCHANGED members
      PROVE  /\ members' \in [MemberIds -> Row]
             /\ \A i \in Present' :
                 \/ i \in Present /\ members'[i] = members[i]
                 \/ /\ i \notin Present
                    /\ request[c].op = "add"
                    /\ EmailIsFree(request[c].person)
                    /\ members'[i].person = request[c].person
                    /\ members'[i].account = request[c].account
                    /\ \A j \in Present' \ {i} : j \in Present
    <2>1. PICK i \in MemberIds \ Present :
                /\ EmailIsFree(request[c].person)
                /\ members' = [members EXCEPT ![i] =
                     [state |-> "present", person |-> request[c].person,
                      account |-> request[c].account, role |-> "member"]]
        BY <1>1, <1>2
    <2>2. [state |-> "present", person |-> request[c].person,
           account |-> request[c].account, role |-> "member"] \in Row
        BY DEF TypeOK, Request, Row
    <2>3. \A j \in MemberIds \ {i} : members'[j] = members[j]
        BY <2>1 DEF TypeOK
    <2>4. /\ members'[i].person = request[c].person
          /\ members'[i].account = request[c].account
        BY <2>1 DEF TypeOK
    <2>5. request[c].op = "add"
        BY <1>2 DEF AddWrite
    <2>6. \A j \in Present' \ {i} : j \in Present
        BY <2>3 DEF Present
    <2> QED
        BY <2>1, <2>2, <2>3, <2>4, <2>5, <2>6 DEF TypeOK, Present
<1>3. ASSUME NEW c \in Clients, RemoveWrite(c)
      PROVE  /\ members' \in [MemberIds -> Row]
             /\ \A i \in Present' : i \in Present /\ members'[i] = members[i]
    BY <1>3 DEF RemoveWrite, TypeOK, Present, Row
<1>4. ASSUME NEW c \in Clients, TransferWrite(c)
      PROVE  /\ members' \in [MemberIds -> Row]
             /\ \A i \in Present' : /\ i \in Present
                                    /\ members'[i].person = members[i].person
                                    /\ members'[i].account = members[i].account
    BY <1>4 DEF TransferWrite, NewRoles, TypeOK, Present, Row
<1>5. CASE UNCHANGED members
    BY <1>5 DEF TypeOK, Present
<1>6. \/ UNCHANGED members
      \/ \E c \in Clients : AddWrite(c) \/ RemoveWrite(c) \/ TransferWrite(c)
    <2>1. ASSUME NEW p \in People, Register(p) PROVE UNCHANGED members
        BY <2>1 DEF Register
    <2>2. ASSUME NEW c \in Clients, Guard(c) PROVE UNCHANGED members
        BY <2>2 DEF Guard
    <2>3. ASSUME NEW c \in Clients, NEW p \in People, AddRead(c, p)
          PROVE  UNCHANGED members
        BY <2>3 DEF AddRead
    <2>4. ASSUME NEW c \in Clients, NEW i \in MemberIds, RemoveRead(c, i)
          PROVE  UNCHANGED members
        BY <2>4 DEF RemoveRead
    <2>5. ASSUME NEW c \in Clients, NEW i \in MemberIds,
                 NEW old \in {0} \cup MemberIds, NEW trip \in People,
                 TransferRead(c, i, old, trip)
          PROVE  UNCHANGED members
        BY <2>5 DEF TransferRead
    <2>6. CASE UNCHANGED vars
        BY <2>6 DEF vars
    <2> QED
        BY <2>1, <2>2, <2>3, <2>4, <2>5, <2>6 DEF Next
<1> QED
    BY <1>2, <1>3, <1>4, <1>5, <1>6

\* What each step does to the requests.
LEMMA RequestSteps ==
    ASSUME TypeOK, AccountsAreKnown, [Next]_vars
    PROVE  /\ registered \subseteq registered'
           /\ registered' \subseteq People
           /\ request' \in [Clients -> Request]
           /\ \A c \in Clients :
                 /\ request'[c].op = "add" /\ request'[c].account = "linked" =>
                       request'[c].person \in registered
                 /\ request'[c].op = "transfer" => request'[c].person \in registered
<1> USE DEF TypeOK, AccountsAreKnown
<1>1. ASSUME NEW p \in People, Register(p)
      PROVE  /\ registered \subseteq registered' /\ registered' \subseteq People
             /\ request' = request
    BY <1>1 DEF Register
<1>2. ASSUME NEW c \in Clients, NEW r \in Request,
             request' = [request EXCEPT ![c] = r], registered' = registered,
             r.op = "add" /\ r.account = "linked" => r.person \in registered,
             r.op = "transfer" => r.person \in registered
      PROVE  /\ request' \in [Clients -> Request]
             /\ \A d \in Clients :
                 /\ request'[d].op = "add" /\ request'[d].account = "linked" =>
                       request'[d].person \in registered
                 /\ request'[d].op = "transfer" => request'[d].person \in registered
    BY <1>2
<1>3. ASSUME NEW c \in Clients, Guard(c)
      PROVE  \E r \in Request : /\ request' = [request EXCEPT ![c] = r]
                                /\ r.op = "guarded"
    <2> DEFINE r == [NoRequest EXCEPT !.op = "guarded", !.trip = organizer]
    <2>1. r \in Request /\ r.op = "guarded"
        BY MembersConstantsOK DEF NoRequest, Request
    <2> QED
        BY <1>3, <2>1 DEF Guard
<1>4. ASSUME NEW c \in Clients, NEW p \in People, AddRead(c, p)
      PROVE  \E r \in Request :
                /\ request' = [request EXCEPT ![c] = r]
                /\ r.op = "add" /\ (r.account = "linked" => r.person \in registered)
    <2> DEFINE r == [request[c] EXCEPT !.op = "add", !.person = p,
                                       !.account = AccountOf(p)]
    <2>1. r \in Request
        BY DEF Request, AccountOf
    <2>2. r.op = "add" /\ (r.account = "linked" => r.person \in registered)
        BY DEF Request, AccountOf
    <2>3. request' = [request EXCEPT ![c] = r]
        BY <1>4 DEF AddRead
    <2> QED
        BY <2>1, <2>2, <2>3
<1>5. ASSUME NEW c \in Clients, NEW i \in MemberIds, RemoveRead(c, i)
      PROVE  \E r \in Request : request' = [request EXCEPT ![c] = r] /\ r.op = "remove"
    <2> DEFINE r == [request[c] EXCEPT !.op = "remove", !.row = i]
    <2>1. r \in Request /\ r.op = "remove"
        BY DEF Request
    <2>2. request' = [request EXCEPT ![c] = r]
        BY <1>5 DEF RemoveRead
    <2> QED
        BY <2>1, <2>2
<1>6. ASSUME NEW c \in Clients, NEW i \in MemberIds, NEW old \in {0} \cup MemberIds,
             NEW trip \in People, TransferRead(c, i, old, trip)
      PROVE  \E r \in Request :
                /\ request' = [request EXCEPT ![c] = r]
                /\ r.op = "transfer" /\ r.person \in registered
    <2> DEFINE r == [request[c] EXCEPT !.op = "transfer", !.row = i,
                        !.person = members[i].person, !.old = old,
                        !.role = members[i].role, !.trip = trip]
    <2>1. r \in Request
        BY DEF Request, Row
    <2>2. r.op = "transfer" /\ r.person = members[i].person
        BY DEF Request
    <2>3. members[i].person \in registered
        BY <1>6 DEF TransferRead
    <2>4. request' = [request EXCEPT ![c] = r]
        BY <1>6 DEF TransferRead
    <2> QED
        BY <2>1, <2>2, <2>3, <2>4
<1>7. ASSUME NEW c \in Clients, AddWrite(c) \/ RemoveWrite(c) \/ TransferWrite(c)
      PROVE  request' = [request EXCEPT ![c] = NoRequest] /\ registered' = registered
    BY <1>7 DEF AddWrite, RemoveWrite, TransferWrite, Ends
<1>8. ASSUME NEW c \in Clients,
             \/ Guard(c)
             \/ \E p \in People : AddRead(c, p)
             \/ \E i \in MemberIds : RemoveRead(c, i)
             \/ \E i \in MemberIds, old \in {0} \cup MemberIds, trip \in People :
                   TransferRead(c, i, old, trip)
      PROVE  registered' = registered
    BY <1>8 DEF Guard, AddRead, RemoveRead, TransferRead
<1>9. CASE UNCHANGED vars
    BY <1>9 DEF vars
<1>10. ASSUME NEW c \in Clients, AddWrite(c) \/ RemoveWrite(c) \/ TransferWrite(c)
       PROVE  /\ registered' = registered
              /\ \E r \in Request : /\ request' = [request EXCEPT ![c] = r]
                                    /\ r.op = "none"
    BY <1>7, <1>10, ConstantsTyped
<1> QED
    BY <1>1, <1>2, <1>3, <1>4, <1>5, <1>6, <1>8, <1>9, <1>10 DEF Next

LEMMA NextMInv == MInv /\ [Next]_vars => MInv'
<1> SUFFICES ASSUME MInv, [Next]_vars PROVE MInv'
    OBVIOUS
<1>1. organizer' \in registered'
    <2>1. organizer' = organizer \/ \E c \in Clients : TransferWrite(c)
        <3>1. ASSUME NEW p \in People, Register(p) PROVE organizer' = organizer
            BY <3>1 DEF Register
        <3>2. ASSUME NEW c \in Clients,
                     \/ Guard(c)
                     \/ \E p \in People : AddRead(c, p)
                     \/ \E i \in MemberIds : RemoveRead(c, i)
                     \/ \E i \in MemberIds, old \in {0} \cup MemberIds, trip \in People :
                           TransferRead(c, i, old, trip)
              PROVE  organizer' = organizer
            BY <3>2 DEF Guard, AddRead, RemoveRead, TransferRead
        <3>3. ASSUME NEW c \in Clients, AddWrite(c) \/ RemoveWrite(c)
              PROVE  organizer' = organizer
            BY <3>3 DEF AddWrite, RemoveWrite
        <3>4. CASE UNCHANGED vars
            BY <3>4 DEF vars
        <3> QED
            BY <3>1, <3>2, <3>3, <3>4 DEF Next
    <2>2. ASSUME NEW c \in Clients, TransferWrite(c)
          PROVE  organizer' \in registered
        BY <2>2 DEF TransferWrite, MInv, TypeOK, AccountsAreKnown
    <2> QED
        BY <2>1, <2>2, RequestSteps DEF MInv, TypeOK
<1>2. TypeOK'
    BY <1>1, RowSteps, RequestSteps DEF MInv, TypeOK
<1>3. AccountsAreKnown'
    <2>1. \A i \in Present' : members'[i].account = "linked" =>
              members'[i].person \in registered
        BY RowSteps DEF MInv, AccountsAreKnown
    <2> QED
        BY <2>1, RequestSteps DEF MInv, AccountsAreKnown
<1>4. OneMembershipEach'
    <2>1. \A i, j \in Present' : members'[i].person = members'[j].person => i = j
        <3> SUFFICES ASSUME NEW i \in Present', NEW j \in Present', i # j,
                            members'[i].person = members'[j].person
                     PROVE  FALSE
            OBVIOUS
        <3>1. CASE /\ i \in Present /\ members'[i].person = members[i].person
                   /\ j \in Present /\ members'[j].person = members[j].person
            <4>1. members[i].person \in People
                BY <3>1 DEF MInv, TypeOK, Present, Row
            <4>2. {i, j} \subseteq RowsOf(members[i].person)
                BY <3>1 DEF RowsOf
            <4> QED
                BY <4>1, <4>2 DEF MInv, OneMembershipEach
        <3>2. ASSUME NEW m \in Present', NEW n \in Present', m # n,
                     members'[m].person = members'[n].person,
                     NEW c \in Clients,
                     EmailIsFree(request[c].person),
                     members'[m].person = request[c].person,
                     n \in Present, members'[n].person = members[n].person
              PROVE  FALSE
            BY <3>2 DEF EmailIsFree, RowsOf
        <3> DEFINE Kept(k) == k \in Present /\ members'[k].person = members[k].person
                   Added(k, c) == /\ k \notin Present
                                  /\ EmailIsFree(request[c].person)
                                  /\ members'[k].person = request[c].person
                                  /\ \A l \in Present' \ {k} : l \in Present
        <3>4. \A k \in Present' : Kept(k) \/ \E c \in Clients : Added(k, c)
            <4>1. TypeOK
                BY DEF MInv
            <4> QED
                BY <4>1, RowSteps
        <3>5. CASE Kept(i) /\ Kept(j)
            BY <3>1, <3>5
        <3>6. ASSUME NEW m \in Present', NEW n \in Present', m # n,
                     members'[m].person = members'[n].person,
                     NEW c \in Clients, Added(m, c)
              PROVE  FALSE
            <4>1. n \in Present
                BY <3>6
            <4>2. CASE Kept(n)
                BY <3>2, <3>6, <4>2
            <4>3. ASSUME NEW d \in Clients, Added(n, d) PROVE FALSE
                BY <4>1, <4>3
            <4> QED
                BY <3>4, <4>2, <4>3
        <3> QED
            BY <3>4, <3>5, <3>6
    <2>2. \A i \in Present' : members'[i].account = "linked" =>
              members'[i].person \in registered'
        BY <1>3 DEF AccountsAreKnown
    <2> QED
        BY <2>1, <2>2 DEF OneMembershipEach, RowsOf
<1> QED
    BY <1>2, <1>3, <1>4 DEF MInv

\* However requests overlap, a person has one membership of the trip at most,
\* and the organizer is always somebody with an account.
THEOREM MembershipInvariant == Spec => [](TypeOK /\ OneMembershipEach)
<1>1. MInv => TypeOK /\ OneMembershipEach
    BY DEF MInv
<1> QED
    BY <1>1, InitMInv, NextMInv, PTL DEF Spec

\* Every row and request keeps its type, and the trip's organizer_id is always
\* that of somebody who has a users row.
THEOREM MemberTypes == Spec => []TypeOK
<1>1. MInv => TypeOK
    BY DEF MInv
<1> QED
    BY <1>1, InitMInv, NextMInv, PTL DEF Spec

-----------------------------------------------------------------------------
(* Removals and transfers that overlap nothing but additions: what one has *)
(* read of the roles is so when it writes.                                 *)

ReadStillHolds(r) ==
    /\ r.op = "guarded" => r.trip = organizer
    /\ r.op = "remove" => r.row \notin Organizers
    /\ r.op = "transfer" =>
          /\ r.trip = organizer /\ r.old \in Organizers
          /\ r.row \in Present
          /\ members[r.row].role = r.role /\ members[r.row].person = r.person
          /\ members[r.row].account = "linked"

\* With RolesAlone, a removal or a transfer is alone with additions.
Alone ==
    \A c, d \in Clients :
        request[c].op \in {"remove", "transfer"} =>
            c = d \/ request[d].op \in {"none", "add"}

RolesInv ==
    /\ Alone /\ OrganizerAgrees
    /\ \A c \in Clients : ReadStillHolds(request[c])

\* Roles are untouched by a step that changes no row that is there.
LEMMA RolesStay ==
    ASSUME TypeOK, OrganizerAgrees, organizer' = organizer,
           \A i \in Present : i \in Present' /\ members'[i] = members[i],
           \A i \in Present' \ Present : members'[i].role = "member"
    PROVE  /\ OrganizerAgrees'
           /\ \A r : ReadStillHolds(r) => ReadStillHolds(r)'
<1>1. Organizers' = Organizers
    BY DEF Organizers
<1>2. Organizers \subseteq Present
    BY DEF Organizers
<1>3. OrganizerAgrees'
    BY <1>1, <1>2 DEF OrganizerAgrees
<1>4. ASSUME NEW r, ReadStillHolds(r) PROVE ReadStillHolds(r)'
    BY <1>1, <1>4 DEF ReadStillHolds
<1> QED
    BY <1>3, <1>4

\* A step that only moves one request on.
LEMMA RolesMoveOn ==
    ASSUME TypeOK, RolesInv, UNCHANGED <<organizer, members>>,
           NEW c \in Clients, NEW r, request' = [request EXCEPT ![c] = r],
           ReadStillHolds(r),
           r.op \in {"remove", "transfer"} =>
               \A d \in Clients \ {c} : request[d].op \in {"none", "add"},
           r.op \notin {"none", "add"} =>
               \A d \in Clients : request[d].op \notin {"remove", "transfer"}
    PROVE  RolesInv'
<1>1. \A d \in Clients : request'[d] = IF d = c THEN r ELSE request[d]
    BY DEF TypeOK
<1>2. Alone'
    BY <1>1 DEF Alone, RolesInv
<1>3. OrganizerAgrees' /\ \A q : ReadStillHolds(q) => ReadStillHolds(q)'
    BY DEF RolesInv, OrganizerAgrees, Organizers, Present, ReadStillHolds
<1>4. \A d \in Clients : ReadStillHolds(request'[d])
    BY <1>1 DEF RolesInv
<1>5. (\A d \in Clients : ReadStillHolds(request[d]))'
    BY <1>4 DEF ReadStillHolds, Organizers, Present
<1> QED
    BY <1>2, <1>3, <1>5 DEF RolesInv

LEMMA RolesReads ==
    ASSUME RolesAlone, TypeOK, RolesInv, NEW c \in Clients,
           \/ Guard(c)
           \/ \E p \in People : AddRead(c, p)
           \/ \E i \in MemberIds : RemoveRead(c, i)
           \/ \E i \in MemberIds, old \in {0} \cup MemberIds, trip \in People :
                 TransferRead(c, i, old, trip)
    PROVE  RolesInv'
<1> request[c] \in Request /\ request \in [Clients -> Request]
    BY DEF TypeOK
<1>1. CASE Guard(c)
    <2> DEFINE r == [NoRequest EXCEPT !.op = "guarded", !.trip = organizer]
    <2>1. r.op = "guarded" /\ r.trip = organizer
        BY DEF NoRequest
    <2>2. /\ request' = [request EXCEPT ![c] = r] /\ UNCHANGED <<organizer, members>>
          /\ \A d \in Clients : request[d].op \notin {"remove", "transfer"}
        BY <1>1 DEF Guard
    <2> HIDE DEF r
    <2>3. ReadStillHolds(r)
        BY <2>1 DEF ReadStillHolds
    <2> QED
        BY <2>1, <2>2, <2>3, RolesMoveOn
<1>2. ASSUME NEW p \in People, AddRead(c, p) PROVE RolesInv'
    <2> DEFINE r == [request[c] EXCEPT !.op = "add", !.person = p,
                                       !.account = AccountOf(p)]
    <2>1. r.op = "add"
        BY DEF Request
    <2>2. request' = [request EXCEPT ![c] = r] /\ UNCHANGED <<organizer, members>>
        BY <1>2 DEF AddRead
    <2> HIDE DEF r
    <2>3. ReadStillHolds(r)
        BY <2>1 DEF ReadStillHolds
    <2> QED
        BY <2>1, <2>2, <2>3, RolesMoveOn
<1>3. ASSUME NEW i \in MemberIds, RemoveRead(c, i) PROVE RolesInv'
    <2> DEFINE r == [request[c] EXCEPT !.op = "remove", !.row = i]
    <2>1. r.op = "remove" /\ r.row = i
        BY DEF Request
    <2>2. /\ request' = [request EXCEPT ![c] = r] /\ UNCHANGED <<organizer, members>>
          /\ \A d \in Clients \ {c} : request[d].op \in {"none", "add"}
          /\ request[c].op = "guarded" /\ members[i].role # "organizer"
        BY <1>3 DEF RemoveRead, RolesMayChange
    <2> HIDE DEF r
    <2>3. ReadStillHolds(r)
        BY <2>1, <2>2 DEF ReadStillHolds, Organizers
    <2> QED
        BY <2>1, <2>2, <2>3, RolesMoveOn
<1>4. ASSUME NEW i \in MemberIds, NEW old \in {0} \cup MemberIds, NEW trip \in People,
             TransferRead(c, i, old, trip)
      PROVE  RolesInv'
    <2> DEFINE r == [request[c] EXCEPT !.op = "transfer", !.row = i,
                        !.person = members[i].person, !.old = old,
                        !.role = members[i].role, !.trip = trip]
    <2>1. /\ r.op = "transfer" /\ r.row = i /\ r.person = members[i].person
          /\ r.old = old /\ r.role = members[i].role /\ r.trip = trip
        BY DEF Request
    <2>2. /\ request' = [request EXCEPT ![c] = r] /\ UNCHANGED <<organizer, members>>
          /\ \A d \in Clients \ {c} : request[d].op \in {"none", "add"}
          /\ request[c].op = "guarded" /\ i \in Present
          /\ members[i].account = "linked" /\ trip \in {request[c].trip, organizer}
        BY <1>4 DEF TransferRead, RolesMayChange
    <2>3. old \in Organizers
        BY <1>4 DEF TransferRead, RolesInv, OrganizerAgrees
    <2>4. trip = organizer
        BY <2>2 DEF RolesInv, ReadStillHolds
    <2> HIDE DEF r
    <2>5. ReadStillHolds(r)
        BY <2>1, <2>2, <2>3, <2>4 DEF ReadStillHolds
    <2> QED
        BY <2>1, <2>2, <2>5, RolesMoveOn
<1> QED
    BY <1>1, <1>2, <1>3, <1>4

LEMMA RolesAdd ==
    ASSUME TypeOK, RolesInv, NEW c \in Clients, AddWrite(c)
    PROVE  RolesInv'
<1>1. \A d \in Clients : request'[d] = IF d = c THEN NoRequest ELSE request[d]
    BY DEF AddWrite, Ends, TypeOK
<1>2. Alone'
    BY <1>1 DEF Alone, RolesInv, NoRequest
<1>3. UNCHANGED members \/ \E i \in MemberIds \ Present :
          members' = [members EXCEPT ![i] =
                      [state |-> "present", person |-> request[c].person,
                       account |-> request[c].account, role |-> "member"]]
    BY DEF AddWrite, Present
<1>4. /\ \A i \in Present : i \in Present' /\ members'[i] = members[i]
      /\ \A i \in Present' \ Present : members'[i].role = "member"
    BY <1>3 DEF Present, TypeOK
<1>5. organizer' = organizer
    BY DEF AddWrite
<1>6. OrganizerAgrees' /\ \A r : ReadStillHolds(r) => ReadStillHolds(r)'
    BY <1>4, <1>5, RolesStay DEF RolesInv
<1>7. ReadStillHolds(NoRequest)
    BY DEF NoRequest, ReadStillHolds
<1>8. ASSUME NEW d \in Clients PROVE ReadStillHolds(request[d])'
    <2>1. PICK r : r = request'[d] /\ ReadStillHolds(r)
        BY <1>1, <1>7 DEF RolesInv
    <2>2. ReadStillHolds(r)'
        BY <1>6, <2>1
    <2> QED
        BY <2>1, <2>2 DEF ReadStillHolds
<1> QED
    BY <1>2, <1>6, <1>8 DEF RolesInv

\* A removal or a transfer leaves only additions in progress.
LEMMA RolesEnd ==
    ASSUME TypeOK, RolesInv, NEW c \in Clients,
           request[c].op \in {"remove", "transfer"}, Ends(c)
    PROVE  Alone' /\ (\A d \in Clients : ReadStillHolds(request[d]))'
<1>1. \A d \in Clients : request'[d].op \in {"none", "add"}
    BY DEF Ends, TypeOK, RolesInv, Alone, NoRequest
<1> QED
    BY <1>1 DEF Alone, ReadStillHolds

LEMMA RolesRemove ==
    ASSUME TypeOK, RolesInv, NEW c \in Clients, RemoveWrite(c)
    PROVE  RolesInv'
<1>1. request[c].row \notin Organizers
    BY DEF RemoveWrite, RolesInv, ReadStillHolds
<1>2. Organizers' = Organizers
    BY <1>1 DEF RemoveWrite, Organizers, Present, TypeOK, Row
<1>3. \A i \in Organizers : members'[i] = members[i]
    BY <1>1 DEF RemoveWrite, Organizers, Present, TypeOK
<1>4. OrganizerAgrees'
    BY <1>2, <1>3 DEF RemoveWrite, RolesInv, OrganizerAgrees
<1> QED
    BY <1>4, RolesEnd DEF RemoveWrite, RolesInv

LEMMA RolesTransfer ==
    ASSUME TypeOK, RolesInv, NEW c \in Clients, TransferWrite(c)
    PROVE  RolesInv'
<1> DEFINE r == request[c]
<1>1. /\ r.trip = organizer /\ r.old \in Organizers /\ r.row \in Present
      /\ members[r.row].role = r.role /\ members[r.row].person = r.person
      /\ members[r.row].account = "linked"
    BY DEF TransferWrite, RolesInv, ReadStillHolds
<1>2. Organizers = {r.old} /\ members[r.old].person = organizer
    BY <1>1 DEF RolesInv, OrganizerAgrees
<1>3. r.old \in MemberIds /\ r.row \in MemberIds /\ r.old # 0
      /\ r.old \in Present
    BY <1>1 DEF Organizers, Present, MemberIds
<1>4. /\ members' = NewRoles(c)
      /\ organizer' = IF r.person = r.trip THEN organizer ELSE r.person
    BY <1>1, <1>3 DEF TransferWrite
<1>5. organizer' = r.person
    BY <1>1, <1>4
<1>6. ASSUME r.row = r.old PROVE OrganizerAgrees'
    <2>1. ~Promotes(c) /\ ~Demotes(c)
        BY <1>1, <1>6 DEF Promotes, Demotes, Organizers
    <2>2. members' = members
        BY <1>4, <2>1 DEF NewRoles, TypeOK
    <2> QED
        BY <1>1, <1>2, <1>5, <1>6, <2>2 DEF OrganizerAgrees, Organizers, Present
<1>7. ASSUME r.row # r.old PROVE OrganizerAgrees'
    <2>1. Promotes(c) /\ Demotes(c)
        BY <1>1, <1>2, <1>3, <1>7 DEF Promotes, Demotes, Organizers
    <2>2. \A i \in MemberIds :
              /\ members'[i].state = members[i].state
              /\ members'[i].person = members[i].person
              /\ members'[i].account = members[i].account
              /\ members'[i].role = IF i = r.row THEN "organizer"
                                    ELSE IF i = r.old THEN "member" ELSE members[i].role
        BY <1>4, <2>1 DEF NewRoles, TypeOK, Row
    <2>3. Organizers' = {r.row}
        BY <1>1, <1>2, <1>3, <2>2 DEF Organizers, Present
    <2> QED
        BY <1>1, <1>3, <1>5, <2>2, <2>3 DEF OrganizerAgrees
<1>8. OrganizerAgrees'
    BY <1>6, <1>7
<1> QED
    BY <1>8, RolesEnd DEF TransferWrite, RolesInv

LEMMA RolesNext ==
    RolesAlone /\ TypeOK /\ RolesInv /\ [Next]_vars => RolesInv'
<1> SUFFICES ASSUME RolesAlone, TypeOK, RolesInv, [Next]_vars PROVE RolesInv'
    OBVIOUS
<1>1. CASE UNCHANGED <<organizer, members, request>>
    BY <1>1 DEF RolesInv, Alone, OrganizerAgrees, ReadStillHolds, Organizers, Present
<1>2. \/ UNCHANGED <<organizer, members, request>>
      \/ \E c \in Clients :
            \/ Guard(c)
            \/ \E p \in People : AddRead(c, p)
            \/ \E i \in MemberIds : RemoveRead(c, i)
            \/ \E i \in MemberIds, old \in {0} \cup MemberIds, trip \in People :
                  TransferRead(c, i, old, trip)
            \/ AddWrite(c) \/ RemoveWrite(c) \/ TransferWrite(c)
    BY DEF Next, Register, vars
<1> QED
    BY <1>1, <1>2, RolesReads, RolesAdd, RolesRemove, RolesTransfer

\* While a removal or a transfer overlaps nothing but additions, the row with
\* the organizer's role and organizer_id name the same person, who has an
\* account.
THEOREM OrganizersAgree == RolesAlone => (Spec => []OrganizerAgrees)
<1> SUFFICES ASSUME RolesAlone PROVE Spec => []OrganizerAgrees
    OBVIOUS
<1>1. Init => RolesInv
    <2> SUFFICES ASSUME Init PROVE RolesInv
        OBVIOUS
    <2>1. Present = {1} /\ Organizers = {1}
        BY ConstantsTyped DEF Init, Present, Organizers, NoRow
    <2>2. members[1].person = organizer /\ members[1].account = "linked"
        BY ConstantsTyped DEF Init
    <2> QED
        BY <2>1, <2>2 DEF Init, RolesInv, Alone, OrganizerAgrees, ReadStillHolds,
           NoRequest
<1>2. TypeOK /\ RolesInv /\ [Next]_vars => RolesInv'
    BY RolesNext
<1>3. RolesInv => OrganizerAgrees
    BY DEF RolesInv
<1> QED
    BY <1>1, <1>2, <1>3, MemberTypes, PTL DEF Spec
=============================================================================
