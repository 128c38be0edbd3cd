------------------------------ MODULE BoardRoles ------------------------------
(***************************************************************************)
(* User accounts, their roles in clubs, and the seats on the boards of the *)
(* clubs.  Three handlers create accounts (handleRegister,                 *)
(* handleInviteMember, HandleCreateBoardMember) and go on to link, seat    *)
(* and grant; HandleUpdateBoardMember replaces all the roles that a board  *)
(* member has in the club, first removing them one by one and then adding  *)
(* the new ones; handleAssignRole and handleRemoveRole change single       *)
(* roles.  No handler uses a transaction, so every step below is one       *)
(* statement, and most statements that write roles have their errors       *)
(* ignored.                                                                *)
(*                                                                         *)
(* A user is known by the e-mail address, which is unique in users and     *)
(* never changes there.  The address of a member is fixed, and members     *)
(* without one are left out: both handlers refuse them first.  Requests    *)
(* start with the rights they need; positions and passwords are left out.  *)
(***************************************************************************)
EXTENDS Naturals

CONSTANTS
    Members, Clubs, Emails, RoleNames, Requests,
    ClubOf, EmailOf,    \* of a member
    MaxRequests,        \* bound: so many requests are served
    MaxEdits,           \* bound: so many single changes of roles, seats, members
    HomeClub,           \* GetFirstClub: where registered users start
    NewUser,            \* the role of minimal rights
    RoleLists,          \* the roles that requests about the board may ask for
    NULL

ASSUME MembersPlaced == ClubOf \in [Members -> Clubs] /\ EmailOf \in [Members -> Emails]
ASSUME HomeAndRoles ==
    HomeClub \in Clubs /\ NewUser \in RoleNames /\ RoleLists \subseteq SUBSET RoleNames
ASSUME BoundsAreNat == MaxRequests \in Nat /\ MaxEdits \in Nat
ASSUME NullIsNothing == NULL \notin Emails \cup Members

VARIABLES
    users,      \* the addresses that have an account
    member,     \* rows of members: deleted or not, and the linked account
    seat,       \* rows of board_members: the account of the seated member
    grants,     \* rows of user_roles
    rq,         \* the state of each request
    withheld,   \* history: who lost NewUser in a club, or was not given it
    served, edits   \* the counters of the bounds

vars == <<users, member, seat, grants, rq, withheld, served, edits>>
bounds == <<served, edits>>

Kinds == {"register", "invite", "board", "update"}

Request ==
    [at : {"idle"}] \cup
    [at : {"find", "create", "link", "seat", "read", "roles"},
     kind : Kinds,
     member : Members \cup {NULL},
     user : Emails,
     club : Clubs,
     wanted : SUBSET RoleNames,     \* what the request asks for
     drop : SUBSET RoleNames,       \* roles still to be removed
     add : SUBSET RoleNames,        \* roles still to be added
     foreign : SUBSET RoleNames]    \* history: roles others wrote meanwhile, or that failed

Idle == [at |-> "idle"]

Init ==
    /\ users = {}
    /\ member = [m \in Members |-> [present |-> TRUE, user |-> NULL]]
    /\ seat = [m \in Members |-> NULL]
    /\ grants = {}
    /\ rq = [r \in Requests |-> Idle]
    /\ withheld = {}
    /\ served = 0 /\ edits = 0

Task(kind, at, m, user, club, wanted) ==
    [at |-> at, kind |-> kind, member |-> m, user |-> user, club |-> club,
     wanted |-> wanted, drop |-> {}, add |-> wanted, foreign |-> {}]

Become(r, state) == rq' = [rq EXCEPT ![r] = state]
Proceed(r, at) == Become(r, [rq[r] EXCEPT !.at = at])

RolesOf(user, club) == {role \in RoleNames : <<user, role, club>> \in grants}

-------------------------------------------------------------------------------
(* Accounts: handleRegister, and the common part of invitations and seats. *)

\* CreateUser; a duplicate is answered 409.  Then the role in the first club.
Register(r, email) ==
    /\ rq[r].at = "idle"
    /\ email \notin users
    /\ users' = users \cup {email}
    /\ Become(r, Task("register", "roles", NULL, email, HomeClub, {NewUser}))
    /\ UNCHANGED <<member, seat, grants, withheld>>

\* Slip: an invitation leads to the first club, like a registration.
HomeOf(m) == HomeClub

\* The club of a request about a member.
InvitedTo(m) == ClubOf[m]

\* The member is read; one that has an account is answered 409.
Invite(r, m) ==
    /\ rq[r].at = "idle"
    /\ member[m].present /\ member[m].user = NULL
    /\ Become(r, Task("invite", "find", m, EmailOf[m], InvitedTo(m), {NewUser}))
    /\ UNCHANGED <<users, member, seat, grants, withheld>>

AddToBoard(r, m, wanted) ==
    /\ rq[r].at = "idle"
    /\ member[m].present
    /\ Become(r, Task("board", "find", m, EmailOf[m], ClubOf[m], wanted))
    /\ UNCHANGED <<users, member, seat, grants, withheld>>

AfterAccount(r) == IF rq[r].kind = "invite" THEN "link" ELSE "seat"

FindUser(r) ==
    /\ rq[r].at = "find"
    /\ Proceed(r, IF rq[r].user \in users THEN AfterAccount(r) ELSE "create")
    /\ UNCHANGED <<users, member, seat, grants, withheld>>

CreateUser(r) ==
    /\ rq[r].at = "create"
    /\ rq[r].user \notin users
    /\ users' = users \cup {rq[r].user}
    /\ Proceed(r, AfterAccount(r))
    /\ UNCHANGED <<member, seat, grants, withheld>>

\* Somebody else was faster: the address is unique, and the request fails.
CreateUserRefused(r) ==
    /\ rq[r].at = "create"
    /\ rq[r].user \in users
    /\ Become(r, Idle)
    /\ UNCHANGED <<users, member, seat, grants, withheld>>

-------------------------------------------------------------------------------
(* Links and seats. *)

\* The unique index on members.user_id: members may share an address, not an account.
LinkAllowed(m, user) == \A n \in Members \ {m} : member[n].user # user

\* Slip: the two ids of the statement are mixed up.
MemberAsUser(r) == rq[r].member

UserOf(r) == rq[r].user

\* UpdateMemberUser: no row and no error if the member has been deleted.
Link(r) ==
    LET m == rq[r].member IN
    /\ rq[r].at = "link"
    /\ member[m].present => LinkAllowed(m, rq[r].user)
    /\ member' = IF member[m].present
                 THEN [member EXCEPT ![m].user = UserOf(r)] ELSE member
    /\ Proceed(r, "roles")
    /\ UNCHANGED <<users, seat, grants, withheld>>

LinkRefused(r) ==
    /\ rq[r].at = "link"
    /\ member[rq[r].member].present
    /\ ~LinkAllowed(rq[r].member, rq[r].user)
    /\ Become(r, Idle)
    /\ UNCHANGED <<users, member, seat, grants, withheld>>

\* Slip: member_id does not refer to members.
SeatFree(m) == seat[m] = NULL

\* CreateBoardMember: a seat per club and member, and the member must exist.
SeatAllowed(m) == seat[m] = NULL /\ member[m].present

TakeSeat(r) ==
    /\ rq[r].at = "seat"
    /\ SeatAllowed(rq[r].member)
    /\ seat' = [seat EXCEPT ![rq[r].member] = rq[r].user]
    /\ Proceed(r, "roles")
    /\ UNCHANGED <<users, member, grants, withheld>>

SeatRefused(r) ==
    /\ rq[r].at = "seat"
    /\ ~SeatAllowed(rq[r].member)
    /\ Become(r, Idle)
    /\ UNCHANGED <<users, member, seat, grants, withheld>>

\* HandleDeleteBoardMember: the roles stay.
DeleteSeat(m) ==
    /\ seat[m] # NULL
    /\ seat' = [seat EXCEPT ![m] = NULL]
    /\ UNCHANGED <<users, member, grants, rq, withheld>>

\* handleDeleteMember: the seat goes with the member, the account stays.
DeleteMember(m) ==
    /\ member[m].present
    /\ member' = [member EXCEPT ![m] = [present |-> FALSE, user |-> NULL]]
    /\ seat' = [seat EXCEPT ![m] = NULL]
    /\ UNCHANGED <<users, grants, rq, withheld>>

-------------------------------------------------------------------------------
(* Roles. *)

\* Slip: the club is missing in the WHERE clause.
RemoveEverywhere(user, role, club) ==
    {g \in grants : ~(g[1] = user /\ g[2] = role)}

RemoveUserRole(user, role, club) == grants \ {<<user, role, club>>}

AddUserRole(user, role, club) == grants \cup {<<user, role, club>>}

\* History: requests that work on the same roles see a foreign write.
Noticed(user, role, club) ==
    [x \in Requests |->
        IF rq[x].at = "roles" /\ rq[x].user = user /\ rq[x].club = club
        THEN [rq[x] EXCEPT !.foreign = @ \cup {role}] ELSE rq[x]]

\* The roles change by one statement; the request that sends it goes on as own.
Granted(user, role, club) ==
    /\ grants' = AddUserRole(user, role, club)
    /\ withheld' = IF role = NewUser THEN withheld \ {<<user, club>>} ELSE withheld

Removed(user, role, club) ==
    /\ grants' = RemoveUserRole(user, role, club)
    /\ withheld' = IF role = NewUser THEN withheld \cup {<<user, club>>} ELSE withheld

\* handleAssignRole; 409 if the role is there.
AssignRole(user, role, club) ==
    /\ user \in users
    /\ <<user, role, club>> \notin grants
    /\ Granted(user, role, club)
    /\ rq' = Noticed(user, role, club)
    /\ UNCHANGED <<users, member, seat>>

\* handleRemoveRole
RemoveRole(user, role, club) ==
    /\ <<user, role, club>> \in grants
    /\ Removed(user, role, club)
    /\ rq' = Noticed(user, role, club)
    /\ UNCHANGED <<users, member, seat>>

\* HandleUpdateBoardMember reads the seat and keeps its account.
UpdateBoard(r, m, wanted) ==
    /\ rq[r].at = "idle"
    /\ seat[m] # NULL
    /\ Become(r, Task("update", "read", m, seat[m], ClubOf[m], wanted))
    /\ UNCHANGED <<users, member, seat, grants, withheld>>

\* GetUserRoles: the roles in this club are those to be removed.
ReadRoles(r) ==
    /\ rq[r].at = "read"
    /\ Become(r, [rq[r] EXCEPT !.at = "roles", !.drop = RolesOf(rq[r].user, rq[r].club)])
    /\ UNCHANGED <<users, member, seat, grants, withheld>>

\* Without the current roles nothing is removed, but the new ones are added.
ReadRolesFails(r) ==
    /\ rq[r].at = "read"
    /\ Become(r, [rq[r] EXCEPT !.at = "roles", !.foreign = RolesOf(rq[r].user, rq[r].club)])
    /\ UNCHANGED <<users, member, seat, grants, withheld>>

DropOne(r, role) ==
    LET q == rq[r] IN
    /\ q.at = "roles"
    /\ role \in q.drop
    /\ Removed(q.user, role, q.club)
    /\ rq' = [Noticed(q.user, role, q.club) EXCEPT ![r] = [q EXCEPT !.drop = @ \ {role}]]
    /\ UNCHANGED <<users, member, seat>>

\* A role that is there already violates the primary key; the error is ignored.
AddOne(r, role) ==
    LET q == rq[r] IN
    /\ q.at = "roles"
    /\ q.drop = {} /\ role \in q.add
    /\ Granted(q.user, role, q.club)
    /\ rq' = [Noticed(q.user, role, q.club) EXCEPT ![r] = [q EXCEPT !.add = @ \ {role}]]
    /\ UNCHANGED <<users, member, seat>>

\* A history step: a role that is not granted is withheld.
Missed(r) ==
    IF rq[r].at = "roles" /\ NewUser \in rq[r].add
    THEN withheld \cup {<<rq[r].user, rq[r].club>>} ELSE withheld

\* A statement fails and the handler carries on.
SkipOne(r, role) ==
    LET q == rq[r] IN
    /\ q.at = "roles"
    /\ \/ /\ role \in q.drop
          /\ Become(r, [q EXCEPT !.drop = @ \ {role}, !.foreign = @ \cup {role}])
          /\ UNCHANGED withheld
       \/ /\ q.drop = {} /\ role \in q.add
          /\ Become(r, [q EXCEPT !.add = @ \ {role}, !.foreign = @ \cup {role}])
          /\ withheld' = IF role = NewUser THEN Missed(r) ELSE withheld
    /\ UNCHANGED <<users, member, seat, grants>>

Done(r) == rq[r].at = "roles" /\ rq[r].drop = {} /\ rq[r].add = {}

Finish(r) ==
    /\ Done(r)
    /\ Become(r, Idle)
    /\ UNCHANGED <<users, member, seat, grants, withheld>>

\* The request is cancelled or the server stops between two statements.
Abort(r) ==
    /\ rq[r].at # "idle" /\ ~Done(r)
    /\ Become(r, Idle)
    /\ withheld' = Missed(r)
    /\ UNCHANGED <<users, member, seat, grants>>

-------------------------------------------------------------------------------
Administer ==
    /\ edits < MaxEdits /\ edits' = edits + 1
    /\ UNCHANGED served
    /\ \/ \E m \in Members : DeleteSeat(m) \/ DeleteMember(m)
       \/ \E u \in Emails, role \in RoleNames, c \in Clubs :
            AssignRole(u, role, c) \/ RemoveRole(u, role, c)

Start(r) ==
    /\ served < MaxRequests /\ served' = served + 1
    /\ UNCHANGED edits
    /\ \/ \E e \in Emails : Register(r, e)
       \/ \E m \in Members : Invite(r, m)
       \/ \E m \in Members, w \in RoleLists : AddToBoard(r, m, w) \/ UpdateBoard(r, m, w)

Continue(r) ==
    \/ FindUser(r) \/ CreateUser(r) \/ CreateUserRefused(r)
    \/ Link(r) \/ LinkRefused(r) \/ TakeSeat(r) \/ SeatRefused(r)
    \/ ReadRoles(r) \/ ReadRolesFails(r)
    \/ \E role \in RoleNames : DropOne(r, role) \/ AddOne(r, role) \/ SkipOne(r, role)
    \/ Finish(r)

Next ==
    \/ Administer
    \/ \E r \in Requests : Start(r) \/ ((Continue(r) \/ Abort(r)) /\ UNCHANGED bounds)

Spec == Init /\ [][Next]_vars

-------------------------------------------------------------------------------
\* Every column holds an identifier of its own kind: accounts, not members.
TypeOK ==
    /\ users \subseteq Emails
    /\ member \in [Members -> [present : BOOLEAN, user : Emails \cup {NULL}]]
    /\ seat \in [Members -> Emails \cup {NULL}]
    /\ grants \subseteq Emails \X RoleNames \X Clubs
    /\ rq \in [Requests -> Request]
    /\ withheld \subseteq Emails \X Clubs

\* However many replacements of roles, seats and invitations overlap, a request
\* that is done has its way: the roles it asked for are there, and a replacement
\* has left no other, except for roles that somebody else wrote for the same
\* user in the same club meanwhile, or whose statement failed
\* (board_handler.go:185-200, 258-298).
RolesAsAsked ==
    \A r \in Requests : Done(r) =>
        LET held == RolesOf(rq[r].user, rq[r].club) IN
        /\ rq[r].wanted \ rq[r].foreign \subseteq held
        /\ rq[r].kind = "update" => held \ rq[r].foreign \subseteq rq[r].wanted

\* A member that is linked to an account may use the club: the account has the
\* minimal role in the club of that member, or will have it as soon as the
\* invitation goes on, unless the invitation broke off or somebody took the role
\* away (invite_handler.go:114-133).
LinkedMayEnter ==
    \A m \in Members :
        LET user == member[m].user
            club == ClubOf[m] IN
        user # NULL =>
            \/ NewUser \in RolesOf(user, club)
            \/ <<user, club>> \in withheld
            \/ \E r \in Requests :
                /\ rq[r].at = "roles" /\ NewUser \in rq[r].add
                /\ rq[r].user = user /\ rq[r].club = club

\* No seat outlives its member, even if the member is deleted while the seat is
\* being prepared, and no seat, link or role belongs to an account that does not
\* exist (board_handler.go:130-179).
ReferencesHold ==
    /\ \A m \in Members : seat[m] # NULL => member[m].present /\ seat[m] \in users
    /\ \A m \in Members : member[m].user # NULL => member[m].user \in users
    /\ \A g \in grants : g[1] \in users
===============================================================================
