\* Requests that overlap, save that removals and transfers are only overlapped
\* by additions.
CONSTANTS
    ana = ana
    ben = ben
    cleo = cleo
    c1 = c1
    c2 = c2
    People = {ana, ben, cleo}
    Founder = ana
    Clients = {c1, c2}
    MaxMembers = 4
    RolesAlone = TRUE
SPECIFICATION Spec
SYMMETRY ClientSymmetry
INVARIANTS TypeOK OneMembershipEach OrganizerAgrees
