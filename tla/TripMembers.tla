----------------------------- MODULE TripMembers -----------------------------
(***************************************************************************)
(* The members of one trip and its organizer: services/trips.py behind the *)
(* guards of core/security.py.                                             *)
(*                                                                         *)
(* Who organizes the trip is stored twice: trips.organizer_id, which the   *)
(* guards read, and trip_members.role, which the handlers keep beside it.  *)
(* A request reads the trip in its guard, then the rows its handler needs, *)
(* and writes at the end of the same READ COMMITTED transaction: three     *)
(* steps.  The session may still hold the trip as the guard loaded it.  A   *)
(* refusal or an error changes nothing, and is a step not enabled.         *)
(***************************************************************************)
EXTENDS Naturals

CONSTANTS
    People,      \* by their e-mail address
    Founder,     \* who created the trip
    Clients,     \* requests in progress at a time (bound)
    MaxMembers,  \* trip_members rows ever inserted (bound)
    RolesAlone   \* nothing but additions overlaps a removal or a transfer

MemberIds == 1..MaxMembers

ASSUME MembersConstantsOK ==
    /\ Founder \in People
    /\ MaxMembers \in Nat \ {0}
    /\ RolesAlone \in BOOLEAN

VARIABLES
    registered,  \* the people with a users row
    organizer,   \* trips.organizer_id
    members,     \* the trip_members rows
    request      \* what each client's request has read

vars == <<registered, organizer, members, request>>

-----------------------------------------------------------------------------
Row == [state : {"absent", "present", "deleted"},
        person : People,                \* invited_email
        account : {"linked", "unknown"},  \* user_id set, or null
        role : {"organizer", "member"}]
NoRow == [state |-> "absent", person |-> Founder, account |-> "unknown",
          role |-> "member"]

Request == [op : {"none", "guarded", "add", "remove", "transfer"},
            trip : People,                  \* organizer_id as the guard read it
            person : People,
            account : {"linked", "unknown"},
            old : {0} \cup MemberIds,       \* the organizer's row, 0 for none
            row : {0} \cup MemberIds,
            role : {"organizer", "member"}] \* of row, as loaded
NoRequest == [op |-> "none", trip |-> Founder, person |-> Founder,
              account |-> "unknown", old |-> 0, row |-> 0, role |-> "member"]

Present == {i \in MemberIds : members[i].state = "present"}
Organizers == {i \in Present : members[i].role = "organizer"}
RowsOf(p) == {i \in Present : members[i].person = p}
AccountOf(p) == IF p \in registered THEN "linked" ELSE "unknown"

EmailIsFree_Always(p) == TRUE
\* uq_trip_members_trip_id_invited_email
EmailIsFree(p) == RowsOf(p) = {}

RolesMayChange(c) ==
    RolesAlone => \A o \in Clients \ {c} : request[o].op \in {"none", "add"}

Ends(c) == request' = [request EXCEPT ![c] = NoRequest]

-----------------------------------------------------------------------------
\* create_trip inserts the trip and the organizer's row in one commit.
Init ==
    /\ registered = {Founder}
    /\ organizer = Founder
    /\ members = [i \in MemberIds |->
          IF i = 1 THEN [state |-> "present", person |-> Founder,
                         account |-> "linked", role |-> "organizer"]
                   ELSE NoRow]
    /\ request = [c \in Clients |-> NoRequest]

\* The first sign-in through a magic link creates the user; memberships it was
\* invited to before are not touched.
Register(p) ==
    /\ registered' = registered \cup {p}
    /\ UNCHANGED <<organizer, members, request>>

\* require_organizer: the caller is the trip's organizer_id.
Guard(c) ==
    /\ request[c].op = "none"
    /\ RolesAlone => \A o \in Clients : request[o].op \notin {"remove", "transfer"}
    /\ request' = [request EXCEPT ![c] =
                      [NoRequest EXCEPT !.op = "guarded", !.trip = organizer]]
    /\ UNCHANGED <<registered, organizer, members>>

(* add_member *)

AddRead(c, p) ==
    /\ request[c].op = "guarded"
    /\ request' = [request EXCEPT ![c].op = "add", ![c].person = p,
                                  ![c].account = AccountOf(p)]
    /\ UNCHANGED <<registered, organizer, members>>

AddWrite(c) ==
    LET p == request[c].person IN
    /\ request[c].op = "add"
    /\ \/ /\ EmailIsFree(p)
          /\ \E i \in MemberIds :
                /\ members[i].state = "absent"
                /\ \A j \in 1..(i - 1) : members[j].state # "absent"
                /\ members' = [members EXCEPT ![i] =
                      [state |-> "present", person |-> p,
                       account |-> request[c].account, role |-> "member"]]
       \/ ~EmailIsFree(p) /\ UNCHANGED members
    /\ Ends(c)
    /\ UNCHANGED <<registered, organizer>>

(* remove_member *)

RemoveRead(c, i) ==
    /\ request[c].op = "guarded" /\ RolesMayChange(c)
    /\ i \in Present /\ members[i].role # "organizer"
    /\ request' = [request EXCEPT ![c].op = "remove", ![c].row = i]
    /\ UNCHANGED <<registered, organizer, members>>

\* DELETE by row id, whatever became of the row since.
RemoveWrite(c) ==
    /\ request[c].op = "remove"
    /\ members' = IF request[c].row \in Present
                  THEN [members EXCEPT ![request[c].row].state = "deleted"]
                  ELSE members
    /\ Ends(c)
    /\ UNCHANGED <<registered, organizer>>

(* transfer_organizer *)

\* The new organizer is looked up by user_id; of several rows with the
\* organizer's role the first the query returns is the current organizer's.
\* The trip is the guard's if the session still holds that object (it keeps
\* objects weakly), else it is read again.
TransferRead_AnyMember(c, i, old, trip) ==
    /\ request[c].op = "guarded" /\ RolesMayChange(c)
    /\ i \in Present
    /\ IF Organizers = {} THEN old = 0 ELSE old \in Organizers
    /\ trip \in {request[c].trip, organizer}
    /\ request' = [request EXCEPT ![c].op = "transfer", ![c].row = i,
                                  ![c].person = members[i].person,
                                  ![c].old = old, ![c].role = members[i].role,
                                  ![c].trip = trip]
    /\ UNCHANGED <<registered, organizer, members>>
TransferRead(c, i, old, trip) ==
    /\ request[c].op = "guarded" /\ RolesMayChange(c)
    /\ i \in Present /\ members[i].account = "linked"
    /\ IF Organizers = {} THEN old = 0 ELSE old \in Organizers
    /\ trip \in {request[c].trip, organizer}
    /\ request' = [request EXCEPT ![c].op = "transfer", ![c].row = i,
                                  ![c].person = members[i].person,
                                  ![c].old = old, ![c].role = members[i].role,
                                  ![c].trip = trip]
    /\ UNCHANGED <<registered, organizer, members>>

\* The rows the session changed, from what it had loaded.
Demotes(c) == request[c].old # 0 /\ request[c].old # request[c].row
Promotes(c) == request[c].role # "organizer"

NewRoles_BothStay(c) ==
    [i \in MemberIds |->
        IF i = request[c].row /\ Promotes(c)
        THEN [members[i] EXCEPT !.role = "organizer"] ELSE members[i]]
NewRoles(c) ==
    [i \in MemberIds |->
        IF i = request[c].row /\ Promotes(c)
        THEN [members[i] EXCEPT !.role = "organizer"]
        ELSE IF i = request[c].old /\ Demotes(c)
        THEN [members[i] EXCEPT !.role = "member"] ELSE members[i]]

\* An UPDATE of a row that is gone rolls the transaction back.
TransferWrite(c) ==
    /\ request[c].op = "transfer"
    /\ IF /\ Promotes(c) => request[c].row \in Present
          /\ Demotes(c) => request[c].old \in Present
       THEN /\ members' = NewRoles(c)
            /\ organizer' = IF request[c].person = request[c].trip
                            THEN organizer ELSE request[c].person
       ELSE UNCHANGED <<members, organizer>>
    /\ Ends(c)
    /\ UNCHANGED registered

-----------------------------------------------------------------------------
Next ==
    \/ \E p \in People : Register(p)
    \/ \E c \in Clients :
          \/ Guard(c)
          \/ \E p \in People : AddRead(c, p)
          \/ \E i \in MemberIds : RemoveRead(c, i)
          \/ \E i \in MemberIds, old \in {0} \cup MemberIds, trip \in People :
                TransferRead(c, i, old, trip)
          \/ AddWrite(c) \/ RemoveWrite(c) \/ TransferWrite(c)

Spec == Init /\ [][Next]_vars

-----------------------------------------------------------------------------
(* Properties *)

\* Every variable has its type, and the trip's organizer has a users row.
TypeOK ==
    /\ registered \subseteq People
    /\ organizer \in registered
    /\ members \in [MemberIds -> Row]
    /\ request \in [Clients -> Request]

\* The membership a guard looks up for a user is one row at most
\* (_ensure_member, scalar_one_or_none over user_id or invited_email), and an
\* account is linked only to somebody who has one.
OneMembershipEach ==
    \A p \in People :
        /\ \A i, j \in RowsOf(p) : i = j
        /\ \A i \in RowsOf(p) : members[i].account = "linked" => p \in registered

\* The two records of who organizes the trip agree: there is one row with the
\* organizer's role, and it is that of organizer_id; so the trip's organizer is
\* never removed ("Cannot remove the trip organizer").  True as long as nothing
\* but additions overlaps a removal or a transfer.
OrganizerAgrees ==
    \E i \in Organizers : /\ Organizers = {i}
                          /\ members[i].person = organizer
                          /\ members[i].account = "linked"
=============================================================================
