-------------------------------- MODULE SignIn --------------------------------
(***************************************************************************)
(* One row of the table users, seen by concurrent requests: logins that    *)
(* count wrong passwords and lock the account for a while                  *)
(* (auth_handler.go, handleLogin), edits of the row that read it, merge    *)
(* the request into it and write three of its columns back                 *)
(* (users_handler.go, handleUpdateUser), and the reset of a password by an *)
(* administrator (handleAdminResetPassword).  Every handler sends several  *)
(* statements without a transaction, and compares a deliberately slow      *)
(* password hash in between, so each step below is one statement.          *)
(*                                                                         *)
(* Passwords stand for their hashes.  The answers are left out: a request  *)
(* that is refused changes nothing, so the 429 of a locked account is a    *)
(* login that does not start.                                              *)
(***************************************************************************)
EXTENDS Naturals, FiniteSets

CONSTANTS
    Passwords,      \* what people choose
    Generated,      \* what handleAdminResetPassword makes up
    Keep,           \* a field that is missing in the body of an update
    Changes,        \* the bodies of updates, with the rights of the requester
    Requests,       \* goroutines that serve requests for this user
    Limit,          \* wrong passwords that lock the account (5)
    Lock,           \* length of a lock (15 minutes)
    MaxAttempts,    \* bound: no login starts that could count beyond it
    MaxTime         \* bound: the clock stops here

Change == [password : Passwords \cup {Keep},
           mustChange : BOOLEAN \cup {Keep},
           blocked : BOOLEAN \cup {Keep},
           admin : BOOLEAN]     \* FALSE: the users edit themselves

ASSUME CountsAreNat ==
    /\ Limit \in Nat \ {0} /\ Lock \in Nat \ {0}
    /\ MaxAttempts \in Nat /\ MaxTime \in Nat
ASSUME KeepIsNoValue == Keep \notin Passwords \cup BOOLEAN
ASSUME GeneratedIsRandom == Passwords \cap Generated = {}
ASSUME ChangesAreChanges == Changes \subseteq Change
ASSUME RequestsFinite == IsFiniteSet(Requests)

VARIABLES
    now,        \* the clock of the database and the server
    user,       \* the row; lockedUntil = 0 is NULL
    rq,         \* what each request is about to do, and what it has read
    over        \* history: wrong passwords counted while the lock was running

vars == <<now, user, rq, over>>

User == [password : Passwords \cup Generated,
         mustChange : BOOLEAN,
         blocked : BOOLEAN,
         attempts : Nat,
         lockedUntil : 0 .. MaxTime + Lock]

Request ==
    [at : {"idle", "unlock"}]
    \cup [at : {"compare"}, tried : Passwords \cup Generated, seen : User]
    \cup [at : {"merge"}, change : Changes, seen : User]

Idle == [at |-> "idle"]
Unlocking == [at |-> "unlock"]

\* A freshly registered (or invited) user.
Init ==
    /\ now = 0
    /\ user \in [password : Passwords, mustChange : BOOLEAN, blocked : {FALSE},
                 attempts : {0}, lockedUntil : {0}]
    /\ rq = [r \in Requests |-> Idle]
    /\ over = 0

Become(r, state) == rq' = [rq EXCEPT ![r] = state]

Locked == user.lockedUntil > now

\* ResetFailedLoginAttempts
Cleared == [user EXCEPT !.attempts = 0, !.lockedUntil = 0]

\* Slip: the count before this mistake is compared with the limit.
CountedLate ==
    [user EXCEPT !.attempts = @ + 1,
                 !.lockedUntil = IF user.attempts >= Limit THEN now + Lock ELSE @]

\* IncrementFailedLoginAttempts: one UPDATE, so it sees the current count.
Counted ==
    [user EXCEPT !.attempts = @ + 1,
                 !.lockedUntil = IF user.attempts + 1 >= Limit THEN now + Lock ELSE @]

-------------------------------------------------------------------------------
(* handleLogin *)

\* Slip: the lock is stored and never looked at.
NeverLocked == FALSE

\* 429 Too Many Requests.
Refused == Locked

\* The row is read and its lock checked; the hash is compared afterwards.
LoginRead(r, password) ==
    /\ rq[r].at = "idle"
    /\ ~Refused
    /\ user.attempts + Cardinality(Requests) <= MaxAttempts
    /\ Become(r, [at |-> "compare", tried |-> password, seen |-> user])
    /\ UNCHANGED <<now, user, over>>

WrongPassword(r) ==
    /\ rq[r].at = "compare"
    /\ rq[r].tried # rq[r].seen.password
    /\ user' = Counted
    /\ over' = IF Locked THEN over + 1 ELSE 0
    /\ Become(r, Idle)
    /\ UNCHANGED now

\* Only now does the handler look at is_blocked: 403, nothing is counted.
AccountBlocked(r) ==
    /\ rq[r].at = "compare"
    /\ rq[r].tried = rq[r].seen.password
    /\ rq[r].seen.blocked
    /\ Become(r, Idle)
    /\ UNCHANGED <<now, user, over>>

\* The counter is reset if the row that was read had one; then the token is made.
Welcome(r) ==
    /\ rq[r].at = "compare"
    /\ rq[r].tried = rq[r].seen.password
    /\ ~rq[r].seen.blocked
    /\ \/ /\ rq[r].seen.attempts > 0
          /\ user' = Cleared
          /\ over' = 0
       \/ /\ rq[r].seen.attempts = 0
          /\ UNCHANGED <<user, over>>
    /\ Become(r, Idle)
    /\ UNCHANGED now

-------------------------------------------------------------------------------
(* handleUpdateUser *)

UpdateRead(r, change) ==
    /\ rq[r].at = "idle"
    /\ Become(r, [at |-> "merge", change |-> change, seen |-> user])
    /\ UNCHANGED <<now, user, over>>

\* Slip: a field that is missing in the body is stored as it is.
Unchecked(asked, stored) == asked

\* A field of the body, or what was read if the body does not have it.
Chosen(asked, stored) == IF asked = Keep THEN stored ELSE asked

\* Slip: the rights of the requester are not looked at.
AnyonesBlock(change, seen) == Chosen(change.blocked, seen.blocked)

\* is_blocked is taken from an administrator only; from others it is ignored.
ChosenBlock(change, seen) ==
    IF change.admin THEN Chosen(change.blocked, seen.blocked) ELSE seen.blocked

\* Slip: the statement writes every column of the row that was read.
WholeRow(change, seen) ==
    [seen EXCEPT !.password = Chosen(change.password, seen.password),
                 !.mustChange = Chosen(change.mustChange, seen.mustChange),
                 !.blocked = ChosenBlock(change, seen)]

\* UpdateUser writes three columns and leaves the counter and the lock alone.
Merged(change, seen) ==
    [user EXCEPT !.password = Chosen(change.password, seen.password),
                 !.mustChange = Chosen(change.mustChange, seen.mustChange),
                 !.blocked = ChosenBlock(change, seen)]

\* "is_blocked": false goes on to lift the lock, whoever asked for it.
UpdateWrite(r) ==
    /\ rq[r].at = "merge"
    /\ user' = Merged(rq[r].change, rq[r].seen)
    /\ Become(r, IF rq[r].change.blocked = FALSE THEN Unlocking ELSE Idle)
    /\ UNCHANGED <<now, over>>

LiftLock(r) ==
    /\ rq[r].at = "unlock"
    /\ user' = Cleared
    /\ over' = 0
    /\ Become(r, Idle)
    /\ UNCHANGED now

-------------------------------------------------------------------------------
(* handleAdminResetPassword *)

\* Slip: the duty to change the password is forgotten.
ResetKeepingFlag(password) == [user EXCEPT !.password = password, !.blocked = FALSE]

\* A new password that has to be changed, and no block.
ResetRow(password) ==
    [user EXCEPT !.password = password, !.mustChange = TRUE, !.blocked = FALSE]

\* The row is read to see that it exists; nothing that was read is written back.
AdminReset(r, password) ==
    /\ rq[r].at = "idle"
    /\ user' = ResetRow(password)
    /\ Become(r, Unlocking)
    /\ UNCHANGED <<now, over>>

-------------------------------------------------------------------------------
\* The client leaves, a statement fails or the server stops: the rest is not done.
Abort(r) ==
    /\ rq[r].at # "idle"
    /\ Become(r, Idle)
    /\ UNCHANGED <<now, user, over>>

Tick ==
    /\ now < MaxTime
    /\ now' = now + 1
    /\ UNCHANGED <<user, rq, over>>

Login(r) == \E p \in Passwords \cup Generated : LoginRead(r, p)
Update(r) == \E c \in Changes : UpdateRead(r, c)
Reset(r) == \E g \in Generated : AdminReset(r, g)

Next ==
    \/ Tick
    \/ \E r \in Requests :
        \/ Login(r) \/ WrongPassword(r) \/ AccountBlocked(r) \/ Welcome(r)
        \/ Update(r) \/ UpdateWrite(r) \/ LiftLock(r)
        \/ Reset(r)
        \/ Abort(r)

Spec == Init /\ [][Next]_vars

-------------------------------------------------------------------------------
\* The row, and whatever requests have read of it, is a row of the table users;
\* above all no edit stores the absence of a field.
TypeOK ==
    /\ now \in 0 .. MaxTime
    /\ user \in User
    /\ rq \in [Requests -> Request]
    /\ over \in Nat

\* The counter and the lock are two columns that three statements write: an
\* account has a lock, running or over, exactly if the limit has been reached
\* since the last reset (users.sql.go:219-241).
LockMeansLimit == user.attempts >= Limit <=> user.lockedUntil # 0

\* The lock is checked on a row that is read before the slow comparison, so
\* logins that are under way when the account is locked still have their password
\* compared and counted, but each of them once only: never as many as there are
\* requests (auth_handler.go:138-150).
OvershootBounded == over > 0 => over < Cardinality(Requests)

\* A running lock is shortened only by a request that means to lift it, or by
\* the right password of a login that was let in before the lock: no edit of the
\* user, made from whatever stale row, takes a lock back (users_handler.go:371).
LockHolds ==
    [][ Locked /\ user'.lockedUntil < user.lockedUntil =>
          \E r \in Requests :
            \/ rq[r].at = "unlock"
            \/ /\ rq[r].at = "compare"
               /\ rq[r].tried = rq[r].seen.password
               /\ rq[r].seen.attempts > 0 /\ rq[r].seen.lockedUntil <= now
      ]_vars

\* Who is blocked stays so until an administrator unblocks them or resets their
\* password, except for an edit that read the row before the block and writes it
\* back (users_handler.go:364-376).
BlockHolds ==
    [][ user.blocked /\ ~user'.blocked =>
          \E r \in Requests :
            \/ rq[r].at = "merge" /\ rq[r].change.admin /\ rq[r].change.blocked = FALSE
            \/ rq[r].at = "merge" /\ ~rq[r].seen.blocked
            \/ rq[r].at = "idle" /\ rq'[r].at = "unlock"
      ]_vars

\* A generated password has to be changed: that duty ends with the password, or
\* by an edit that had read a generated password.  An edit that had not read it
\* cannot lift the duty, because it puts back the old password with the flag
\* (users_handler.go:349-376, 445-450).
Temporary(row) == row.password \in Generated => row.mustChange
GeneratedIsTemporary ==
    [][ Temporary(user) /\ ~Temporary(user') =>
          \E r \in Requests :
            /\ rq[r].at = "merge"
            /\ rq[r].seen.password \in Generated
            /\ rq[r].change.mustChange = FALSE \/ ~rq[r].seen.mustChange
      ]_vars
===============================================================================
