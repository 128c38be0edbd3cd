\* One person, a member of two clubs under one address; two overlapping requests
\* among single changes of roles and deletions.
SPECIFICATION Spec
CONSTANTS
    m1 = m1
    m2 = m2
    c1 = c1
    c2 = c2
    e1 = e1
    Members = {m1, m2}
    Clubs = {c1, c2}
    Emails = {e1}
    RoleNames = {new_user, board}
    NewUser = new_user
    RoleLists = {{board}, {new_user, board}}
    ClubOf <- OneEach
    EmailOf <- SameAddress
    HomeClub = c1
    MaxRequests = 3
    MaxEdits = 1
    Requests = {r1, r2}
    NULL = NULL
CHECK_DEADLOCK FALSE
SYMMETRY RequestSymmetry
INVARIANTS RolesAsAsked LinkedMayEnter ReferencesHold
