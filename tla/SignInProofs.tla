----------------------------- MODULE SignInProofs -----------------------------
(***************************************************************************)
(* Proofs about SignIn, for any number of requests, any passwords and      *)
(* bodies of updates, any limit and any length of a lock.                  *)
(*                                                                         *)
(* TypeOK is inductive, and LockMeansLimit is inductive relative to it.    *)
(* OvershootBounded is not: it needs to know that a running lock lets      *)
(* nobody in, which OvershootInv says by counting the logins that are      *)
(* under way together with those already counted.  LockHolds rests on two  *)
(* more invariants: a lock reaches no further than one that begins now     *)
(* (LockNear), and whoever compares was let in (LetIn).  The proofs of the *)
(* action properties go through the five statements that write the row.    *)
(***************************************************************************)
EXTENDS SignIn, FiniteSetTheorems, TLAPS

Comparing == {r \in Requests : rq[r].at = "compare"}

\* While a lock is running, the logins that still compare and those that have
\* been counted against it are fewer than the requests.
OvershootInv ==
    /\ Locked => over + Cardinality(Comparing) < Cardinality(Requests)
    /\ over > 0 => over < Cardinality(Requests)

\* A request that has read the row or the body of an update holds well-formed
\* ones (auth_handler.go:130, users_handler.go:337-343).
LEMMA WhatWasRead ==
    ASSUME TypeOK, NEW r \in Requests
    PROVE  /\ rq[r].at \in {"idle", "unlock", "compare", "merge"}
           /\ rq[r].at \in {"compare", "merge"} => rq[r].seen \in User
           /\ rq[r].at = "merge" => rq[r].change \in Change
  BY ChangesAreChanges DEF TypeOK, Request

\* The three statements that write the row keep its shape (users.sql.go:219-246,
\* 307-331).
LEMMA RowsStayRows ==
    ASSUME TypeOK
    PROVE  /\ Cleared \in User
           /\ Counted \in User
           /\ \A p \in Passwords \cup Generated : ResetRow(p) \in User
           /\ \A change \in Change, seen \in User : Merged(change, seen) \in User
<1>1. user \in User /\ 0 \in 0 .. MaxTime + Lock /\ now + Lock \in 0 .. MaxTime + Lock
  BY CountsAreNat DEF TypeOK
<1>2. Cleared \in User
  BY <1>1 DEF Cleared, User
<1>3. Counted \in User
  <2>1. user.attempts + 1 \in Nat
    BY <1>1 DEF User
  <2>2. (IF user.attempts + 1 >= Limit THEN now + Lock ELSE user.lockedUntil)
          \in 0 .. MaxTime + Lock
    BY <1>1 DEF User
  <2>. QED BY <1>1, <2>1, <2>2 DEF Counted, User
<1>4. \A p \in Passwords \cup Generated : ResetRow(p) \in User
  BY <1>1 DEF ResetRow, User
<1>5. ASSUME NEW change \in Change, NEW seen \in User
      PROVE  Merged(change, seen) \in User
  <2>1. /\ Chosen(change.password, seen.password) \in Passwords \cup Generated
        /\ Chosen(change.mustChange, seen.mustChange) \in BOOLEAN
        /\ ChosenBlock(change, seen) \in BOOLEAN
    BY DEF Change, User, Chosen, ChosenBlock
  <2>. QED BY <1>1, <2>1 DEF Merged, User
<1>. QED BY <1>2, <1>3, <1>4, <1>5

\* TypeOK is inductive.
LEMMA TypeStep == TypeOK /\ [Next]_vars => TypeOK'
<1>. SUFFICES ASSUME TypeOK, [Next]_vars PROVE TypeOK'
  OBVIOUS
<1>0. CASE UNCHANGED vars
  BY <1>0 DEF TypeOK, vars
<1>1. CASE Tick
  BY <1>1, CountsAreNat DEF Tick, TypeOK
<1>. SUFFICES ASSUME NEW r \in Requests,
                     \/ Login(r) \/ WrongPassword(r) \/ AccountBlocked(r) \/ Welcome(r)
                     \/ Update(r) \/ UpdateWrite(r) \/ LiftLock(r)
                     \/ Reset(r) \/ Abort(r)
              PROVE  TypeOK'
  BY <1>0, <1>1 DEF Next
<1>2. Idle \in Request /\ Unlocking \in Request
  BY DEF Idle, Unlocking, Request
<1>3. ASSUME NEW state \in Request, Become(r, state)
      PROVE  rq' \in [Requests -> Request]
  BY <1>3 DEF Become, TypeOK
<1>4. CASE Login(r)
  <2>1. PICK p \in Passwords \cup Generated : LoginRead(r, p)
    BY <1>4 DEF Login
  <2>2. [at |-> "compare", tried |-> p, seen |-> user] \in Request
    BY DEF Request, TypeOK
  <2>. QED BY <2>1, <2>2, <1>3 DEF LoginRead, TypeOK
<1>5. CASE WrongPassword(r)
  BY <1>5, <1>2, <1>3, RowsStayRows DEF WrongPassword, TypeOK
<1>6. CASE AccountBlocked(r)
  BY <1>6, <1>2, <1>3 DEF AccountBlocked, TypeOK
<1>7. CASE Welcome(r)
  BY <1>7, <1>2, <1>3, RowsStayRows DEF Welcome, TypeOK
<1>8. CASE Update(r)
  <2>1. PICK change \in Changes : UpdateRead(r, change)
    BY <1>8 DEF Update
  <2>2. [at |-> "merge", change |-> change, seen |-> user] \in Request
    BY DEF Request, TypeOK
  <2>. QED BY <2>1, <2>2, <1>3 DEF UpdateRead, TypeOK
<1>9. CASE UpdateWrite(r)
  <2>1. Merged(rq[r].change, rq[r].seen) \in User
    BY <1>9, WhatWasRead, RowsStayRows DEF UpdateWrite
  <2>. QED BY <1>9, <2>1, <1>2, <1>3 DEF UpdateWrite, TypeOK
<1>10. CASE LiftLock(r)
  BY <1>10, <1>2, <1>3, RowsStayRows DEF LiftLock, TypeOK
<1>11. CASE Reset(r)
  <2>1. PICK g \in Generated : AdminReset(r, g)
    BY <1>11 DEF Reset
  <2>. QED BY <2>1, <1>2, <1>3, RowsStayRows DEF AdminReset, TypeOK
<1>12. CASE Abort(r)
  BY <1>12, <1>2, <1>3 DEF Abort, TypeOK
<1>. QED BY <1>4, <1>5, <1>6, <1>7, <1>8, <1>9, <1>10, <1>11, <1>12
THEOREM TypeCorrect == Spec => []TypeOK
<1>1. ASSUME Init
      PROVE  TypeOK
  <2>1. now \in 0 .. MaxTime /\ 0 \in 0 .. MaxTime + Lock
    BY <1>1, CountsAreNat DEF Init
  <2>2. user \in User
    <3>1. PICK p \in Passwords, must \in BOOLEAN :
             user = [password |-> p, mustChange |-> must, blocked |-> FALSE,
                     attempts |-> 0, lockedUntil |-> 0]
      BY <1>1 DEF Init
    <3>. QED BY <2>1, <3>1 DEF User
  <2>3. rq \in [Requests -> Request]
    BY <1>1 DEF Init, Idle, Request
  <2>. QED BY <1>1, <2>1, <2>2, <2>3 DEF Init, TypeOK
<1>. QED BY <1>1, TypeStep, PTL DEF Spec

-------------------------------------------------------------------------------
\* The five statements that write the row; no time passes meanwhile.
LEMMA WritesOfTheRow ==
    ASSUME [Next]_vars
    PROVE  \/ user' = user
           \/ /\ now' = now
              /\ \E r \in Requests :
                    \/ WrongPassword(r) \/ Welcome(r) \/ UpdateWrite(r) \/ LiftLock(r)
                    \/ \E g \in Generated : AdminReset(r, g)
<1>. USE DEF Login, LoginRead, Update, UpdateRead, Reset, AccountBlocked, Abort, Tick
<1>1. CASE UNCHANGED vars
  BY <1>1 DEF vars
<1>2. CASE Next
  BY <1>2 DEF Next, WrongPassword, Welcome, UpdateWrite, LiftLock, AdminReset
<1>. QED BY <1>1, <1>2

\* What an edit or a reset of the password leaves alone (users.sql.go:307-331).
LEMMA EditsLeaveTheLock ==
    ASSUME TypeOK, NEW r \in Requests,
           UpdateWrite(r) \/ \E g \in Generated : AdminReset(r, g)
    PROVE  user'.attempts = user.attempts /\ user'.lockedUntil = user.lockedUntil
  BY DEF TypeOK, User, UpdateWrite, Merged, AdminReset, ResetRow

\* An account has a lock exactly if the limit has been reached since the last
\* reset of the counter (users.sql.go:219-241).
THEOREM LockMeansLimitHolds == Spec => []LockMeansLimit
<1>1. Init => LockMeansLimit
  BY CountsAreNat DEF Init, LockMeansLimit
<1>2. ASSUME TypeOK, LockMeansLimit, [Next]_vars
      PROVE  LockMeansLimit'
  <2>1. user \in User /\ now \in Nat /\ user.attempts \in Nat
    BY <1>2 DEF TypeOK, User
  <2>2. CASE user' = user
    BY <2>2, <1>2 DEF LockMeansLimit
  <2>3. ASSUME NEW r \in Requests, WrongPassword(r)
        PROVE  LockMeansLimit'
    <3>1. /\ user'.attempts = user.attempts + 1
          /\ user'.lockedUntil =
               IF user.attempts + 1 >= Limit THEN now + Lock ELSE user.lockedUntil
      BY <2>1, <2>3 DEF WrongPassword, Counted, User
    <3>2. now + Lock # 0
      BY <2>1, CountsAreNat
    <3>. QED BY <3>1, <3>2, <2>1, <1>2, CountsAreNat DEF LockMeansLimit
  <2>4. ASSUME user' = Cleared
        PROVE  LockMeansLimit'
    BY <2>1, <2>4, CountsAreNat DEF Cleared, User, LockMeansLimit
  <2>5. ASSUME NEW r \in Requests,
               UpdateWrite(r) \/ \E g \in Generated : AdminReset(r, g)
        PROVE  LockMeansLimit'
    BY <2>5, <1>2, EditsLeaveTheLock DEF LockMeansLimit
  <2>. QED
    BY <1>2, <2>2, <2>3, <2>4, <2>5, WritesOfTheRow DEF Welcome, LiftLock
<1>. QED BY <1>1, <1>2, TypeCorrect, PTL DEF Spec

-------------------------------------------------------------------------------
\* A lock reaches no further than one that begins now (users.sql.go:223).
LockNear == user.lockedUntil <= now + Lock

LEMMA LockNearHolds == Spec => []LockNear
<1>1. Init => LockNear
  BY CountsAreNat DEF Init, LockNear
<1>2. ASSUME TypeOK, LockNear, [Next]_vars
      PROVE  LockNear'
  <2>1. user \in User /\ now \in Nat /\ user.lockedUntil \in Nat
    BY <1>2, CountsAreNat DEF TypeOK, User
  <2>2. CASE user' = user
    <3>1. now' = now \/ now' = now + 1
      BY <1>2 DEF Next, vars, Tick, Login, LoginRead, WrongPassword, AccountBlocked, Welcome,
                  Update, UpdateRead, UpdateWrite, LiftLock, Reset, AdminReset, Abort
    <3>. QED BY <1>2, <2>1, <2>2, <3>1, CountsAreNat DEF LockNear
  <2>3. ASSUME NEW r \in Requests, WrongPassword(r), now' = now
        PROVE  LockNear'
    <3>1. user'.lockedUntil \in {user.lockedUntil, now + Lock}
      BY <2>1, <2>3 DEF WrongPassword, Counted, User
    <3>. QED BY <1>2, <2>1, <2>3, <3>1, CountsAreNat DEF LockNear
  <2>4. ASSUME user' = Cleared, now' = now
        PROVE  LockNear'
    BY <2>1, <2>4, CountsAreNat DEF Cleared, User, LockNear
  <2>5. ASSUME NEW r \in Requests, now' = now,
               UpdateWrite(r) \/ \E g \in Generated : AdminReset(r, g)
        PROVE  LockNear'
    BY <1>2, <2>5, EditsLeaveTheLock DEF LockNear
  <2>. QED
    BY <1>2, <2>2, <2>3, <2>4, <2>5, WritesOfTheRow DEF Welcome, LiftLock
<1>. QED BY <1>1, <1>2, TypeCorrect, PTL DEF Spec

\* A login that compares was let in, and time only goes on (auth_handler.go:138).
LetIn == \A r \in Requests : rq[r].at = "compare" => rq[r].seen.lockedUntil <= now

LEMMA LetInHolds == Spec => []LetIn
<1>1. Init => LetIn
  BY DEF Init, Idle, LetIn
<1>2. ASSUME TypeOK, LetIn, [Next]_vars
      PROVE  LetIn'
  <2>1. CASE UNCHANGED vars
    BY <1>2, <2>1 DEF vars, LetIn
  <2>2. CASE Tick
    <3>1. now \in Nat /\ now' = now + 1 /\ rq' = rq
      BY <1>2, <2>2 DEF Tick, TypeOK
    <3>2. ASSUME NEW r \in Requests, rq[r].at = "compare"
          PROVE  rq[r].seen.lockedUntil \in Nat
      BY <1>2, <3>2, WhatWasRead, CountsAreNat DEF User
    <3>. QED BY <1>2, <3>1, <3>2 DEF LetIn
  <2>3. ASSUME NEW r \in Requests, Login(r)
        PROVE  LetIn'
    <3>1. user.lockedUntil <= now
      BY <1>2, <2>3, CountsAreNat DEF Login, LoginRead, Refused, Locked, TypeOK, User
    <3>2. \A x \in Requests : x # r => rq'[x] = rq[x]
      BY <1>2, <2>3 DEF Login, LoginRead, Become, TypeOK
    <3>3. rq'[r].seen = user /\ now' = now
      BY <1>2, <2>3 DEF Login, LoginRead, Become, TypeOK
    <3>. QED BY <1>2, <3>1, <3>2, <3>3 DEF LetIn
  <2>4. ASSUME NEW r \in Requests,
               \/ WrongPassword(r) \/ AccountBlocked(r) \/ Welcome(r) \/ Update(r)
               \/ UpdateWrite(r) \/ LiftLock(r) \/ Reset(r) \/ Abort(r)
        PROVE  LetIn'
    <3>1. now' = now
      BY <2>4 DEF WrongPassword, AccountBlocked, Welcome, Update, UpdateRead,
                  UpdateWrite, LiftLock, Reset, AdminReset, Abort
    <3>2. \A x \in Requests : x # r => rq'[x] = rq[x]
      BY <1>2, <2>4 DEF Become, TypeOK, WrongPassword, AccountBlocked, Welcome, Update,
                       UpdateRead, UpdateWrite, LiftLock, Reset, AdminReset, Abort
    <3>3. rq'[r].at # "compare"
      BY <1>2, <2>4 DEF Become, TypeOK, Idle, Unlocking, WrongPassword, AccountBlocked,
                       Welcome, Update, UpdateRead, UpdateWrite, LiftLock, Reset,
                       AdminReset, Abort
    <3>. QED BY <1>2, <3>1, <3>2, <3>3 DEF LetIn
  <2>. QED BY <1>2, <2>1, <2>2, <2>3, <2>4 DEF Next
<1>. QED BY <1>1, <1>2, TypeCorrect, PTL DEF Spec

\* A running lock is shortened only by a request that means to lift it, or by a
\* right password that was let in before (users_handler.go:371, 385).
THEOREM LocksHold == Spec => LockHolds
<1>. DEFINE Meant ==
       Locked /\ user'.lockedUntil < user.lockedUntil =>
         \E r \in Requests :
            \/ rq[r].at = "unlock"
            \/ /\ rq[r].at = "compare"
               /\ rq[r].tried = rq[r].seen.password
               /\ rq[r].seen.attempts > 0 /\ rq[r].seen.lockedUntil <= now
<1>1. ASSUME TypeOK, LockNear, LetIn, [Next]_vars
      PROVE  Meant
  <2>1. user \in User /\ now \in Nat /\ user.lockedUntil \in Nat
    BY <1>1, CountsAreNat DEF TypeOK, User
  <2>2. CASE user' = user
    BY <2>1, <2>2
  <2>3. ASSUME NEW r \in Requests, WrongPassword(r)
        PROVE  Meant
    <3>1. user'.lockedUntil \in {user.lockedUntil, now + Lock}
      BY <2>1, <2>3 DEF WrongPassword, Counted, User
    <3>2. user.lockedUntil <= now + Lock
      BY <1>1 DEF LockNear
    <3>. QED BY <2>1, <3>1, <3>2, CountsAreNat
  <2>4. ASSUME NEW r \in Requests, Welcome(r)
        PROVE  Meant
    <3>1. CASE rq[r].seen.attempts > 0
      BY <1>1, <2>4, <3>1 DEF Welcome, LetIn
    <3>2. CASE user' = user
      BY <2>1, <3>2
    <3>. QED BY <2>4, <3>1, <3>2 DEF Welcome
  <2>5. ASSUME NEW r \in Requests,
               UpdateWrite(r) \/ \E g \in Generated : AdminReset(r, g)
        PROVE  Meant
    BY <1>1, <2>1, <2>5, EditsLeaveTheLock
  <2>6. ASSUME NEW r \in Requests, LiftLock(r)
        PROVE  Meant
    BY <2>6 DEF LiftLock
  <2>. QED BY <1>1, <2>2, <2>3, <2>4, <2>5, <2>6, WritesOfTheRow
<1>. QED BY <1>1, TypeCorrect, LockNearHolds, LetInHolds, PTL DEF Spec, LockHolds

\* Who is blocked stays blocked but for an administrator or an edit that read the
\* row before (users_handler.go:364-376).
THEOREM BlocksHold == Spec => BlockHolds
<1>. DEFINE Allowed ==
       user.blocked /\ ~user'.blocked =>
         \E r \in Requests :
            \/ rq[r].at = "merge" /\ rq[r].change.admin /\ rq[r].change.blocked = FALSE
            \/ rq[r].at = "merge" /\ ~rq[r].seen.blocked
            \/ rq[r].at = "idle" /\ rq'[r].at = "unlock"
<1>1. ASSUME TypeOK, [Next]_vars
      PROVE  Allowed
  <2>1. user \in User
    BY <1>1 DEF TypeOK
  <2>2. CASE user' = user
    BY <2>2
  <2>3. ASSUME NEW r \in Requests, WrongPassword(r)
        PROVE  user'.blocked = user.blocked
    BY <2>1, <2>3 DEF WrongPassword, Counted, User
  <2>4. ASSUME user' = Cleared
        PROVE  user'.blocked = user.blocked
    BY <2>1, <2>4 DEF Cleared, User
  <2>5. ASSUME NEW r \in Requests, UpdateWrite(r)
        PROVE  Allowed
    <3>1. rq[r].at = "merge" /\ rq[r].change \in Change /\ rq[r].seen \in User
      BY <2>5, <1>1, WhatWasRead DEF UpdateWrite
    <3>2. user'.blocked = ChosenBlock(rq[r].change, rq[r].seen)
      BY <2>1, <2>5 DEF UpdateWrite, Merged, User
    <3>. QED BY <3>1, <3>2 DEF ChosenBlock, Chosen, Change, User
  <2>6. ASSUME NEW r \in Requests, NEW g \in Generated, AdminReset(r, g)
        PROVE  Allowed
    <3>1. rq[r].at = "idle" /\ rq'[r] = Unlocking
      BY <2>6, <1>1 DEF AdminReset, Become, TypeOK
    <3>. QED BY <3>1 DEF Unlocking
  <2>. QED
    BY <1>1, <2>2, <2>3, <2>4, <2>5, <2>6, WritesOfTheRow DEF Welcome, LiftLock
<1>. QED BY <1>1, TypeCorrect, PTL DEF Spec, BlockHolds

\* The duty to change a generated password ends with that password, or by an edit
\* that had read a generated one (users_handler.go:349-376, 445-450).
THEOREM GeneratedPasswordsAreTemporary == Spec => GeneratedIsTemporary
<1>. DEFINE Waived ==
       Temporary(user) /\ ~Temporary(user') =>
         \E r \in Requests :
            /\ rq[r].at = "merge"
            /\ rq[r].seen.password \in Generated
            /\ rq[r].change.mustChange = FALSE \/ ~rq[r].seen.mustChange
<1>1. ASSUME TypeOK, [Next]_vars
      PROVE  Waived
  <2>1. user \in User
    BY <1>1 DEF TypeOK
  <2>2. CASE user' = user
    BY <2>2 DEF Temporary
  <2>3. ASSUME \/ user' = Cleared
               \/ \E r \in Requests : WrongPassword(r)
        PROVE  user'.password = user.password /\ user'.mustChange = user.mustChange
    BY <2>1, <2>3 DEF WrongPassword, Counted, Cleared, User
  <2>4. ASSUME NEW r \in Requests, UpdateWrite(r)
        PROVE  Waived
    <3>1. rq[r].at = "merge" /\ rq[r].change \in Change /\ rq[r].seen \in User
      BY <2>4, <1>1, WhatWasRead DEF UpdateWrite
    <3>2. /\ user'.password = Chosen(rq[r].change.password, rq[r].seen.password)
          /\ user'.mustChange = Chosen(rq[r].change.mustChange, rq[r].seen.mustChange)
      BY <2>1, <2>4 DEF UpdateWrite, Merged, User
    <3>. QED BY <3>1, <3>2, GeneratedIsRandom DEF Temporary, Chosen, Change, User
  <2>5. ASSUME NEW r \in Requests, NEW g \in Generated, AdminReset(r, g)
        PROVE  Temporary(user')
    BY <2>1, <2>5 DEF AdminReset, ResetRow, Temporary, User
  <2>. QED
    BY <1>1, <2>2, <2>3, <2>4, <2>5, WritesOfTheRow DEF Welcome, LiftLock, Temporary
<1>. QED BY <1>1, TypeCorrect, PTL DEF Spec, GeneratedIsTemporary

-------------------------------------------------------------------------------
LEMMA ComparingIsFinite ==
    /\ IsFiniteSet(Comparing)
    /\ Cardinality(Comparing) \in Nat /\ Cardinality(Requests) \in Nat
    /\ Cardinality(Comparing) <= Cardinality(Requests)
  BY RequestsFinite, FS_Subset, FS_CardinalityType DEF Comparing

\* A login that ends leaves the logins that compare.
LEMMA OneLess ==
    ASSUME TypeOK, NEW r \in Requests, rq[r].at = "compare", Become(r, Idle)
    PROVE  /\ Cardinality(Comparing') = Cardinality(Comparing) - 1
           /\ Cardinality(Comparing') \in Nat
<1>1. Comparing' = Comparing \ {r} /\ r \in Comparing
  BY DEF Comparing, Become, TypeOK, Idle
<1>. QED BY <1>1, ComparingIsFinite, FS_RemoveElement, FS_CardinalityType

\* No step but the start of a login adds to the logins that compare.
LEMMA NoneMore ==
    ASSUME TypeOK, [Next]_vars, ~ \E r \in Requests : Login(r)
    PROVE  /\ Cardinality(Comparing') <= Cardinality(Comparing)
           /\ Cardinality(Comparing') \in Nat
<1>1. \A x \in Requests : rq'[x] = rq[x] \/ rq'[x].at # "compare"
  BY DEF TypeOK, Next, vars, Become, Idle, Unlocking, Tick, WrongPassword, AccountBlocked,
         Welcome, Update, UpdateRead, UpdateWrite, LiftLock, Reset, AdminReset, Abort
<1>2. Comparing' \subseteq Comparing
  BY <1>1 DEF Comparing
<1>. QED BY <1>2, ComparingIsFinite, FS_Subset, FS_CardinalityType

\* Fewer wrong passwords are counted against a running lock than there are
\* requests, because a running lock lets nobody in (auth_handler.go:138-150).
THEOREM OvershootIsBounded == Spec => []OvershootBounded
<1>1. Init => OvershootInv
  BY DEF Init, Locked, OvershootInv
<1>2. ASSUME TypeOK, OvershootInv, [Next]_vars
      PROVE  OvershootInv'
  <2>1. /\ now \in Nat /\ user \in User /\ user.lockedUntil \in Nat /\ over \in Nat
        /\ Cardinality(Comparing) \in Nat /\ Cardinality(Requests) \in Nat
        /\ Cardinality(Comparing) <= Cardinality(Requests)
    BY <1>2, ComparingIsFinite, CountsAreNat DEF TypeOK, User
  <2>2. ASSUME NEW r \in Requests, Login(r)
        PROVE  OvershootInv'
    <3>1. ~Locked /\ user' = user /\ now' = now /\ over' = over
      BY <2>2 DEF Login, LoginRead, Refused
    <3>. QED BY <1>2, <3>1 DEF Locked, OvershootInv
  <2>3. ASSUME NEW r \in Requests, WrongPassword(r)
        PROVE  OvershootInv'
    <3>1. /\ Cardinality(Comparing') = Cardinality(Comparing) - 1
          /\ Cardinality(Comparing') \in Nat
      BY <1>2, <2>3, OneLess DEF WrongPassword
    <3>2. over' = IF Locked THEN over + 1 ELSE 0
      BY <2>3 DEF WrongPassword
    <3>3. CASE Locked
      BY <1>2, <2>1, <3>1, <3>2, <3>3 DEF OvershootInv
    <3>4. CASE ~Locked
      BY <2>1, <3>1, <3>2, <3>4 DEF OvershootInv
    <3>. QED BY <3>3, <3>4
  <2>4. ASSUME ~ \E r \in Requests : Login(r) \/ WrongPassword(r)
        PROVE  OvershootInv'
    <3>1. /\ Cardinality(Comparing') <= Cardinality(Comparing)
          /\ Cardinality(Comparing') \in Nat
      BY <1>2, <2>4, NoneMore
    <3>2. over' \in {over, 0} /\ now' \in {now, now + 1}
      BY <1>2, <2>4 DEF Next, vars, Tick, AccountBlocked, Welcome, Update, UpdateRead,
                       UpdateWrite, LiftLock, Reset, AdminReset, Abort
    <3>3. user'.lockedUntil \in {user.lockedUntil, 0}
      <4>1. CASE user' = user
        BY <4>1
      <4>2. CASE user' = Cleared
        BY <2>1, <4>2 DEF Cleared, User
      <4>3. ASSUME NEW r \in Requests,
                   UpdateWrite(r) \/ \E g \in Generated : AdminReset(r, g)
            PROVE  user'.lockedUntil = user.lockedUntil
        BY <1>2, <4>3, EditsLeaveTheLock
      <4>. QED BY <1>2, <2>4, <4>1, <4>2, <4>3, WritesOfTheRow DEF Welcome, LiftLock
    <3>4. Locked' => Locked
      BY <2>1, <3>2, <3>3 DEF Locked
    <3>. QED BY <1>2, <2>1, <3>1, <3>2, <3>4 DEF OvershootInv
  <2>. QED BY <2>2, <2>3, <2>4
<1>. QED BY <1>1, <1>2, TypeCorrect, PTL DEF Spec, OvershootInv, OvershootBounded
===============================================================================
