\* Two overlapping requests, one chosen and one generated password; a lock after
\* 2 wrong passwords, for 2 of 3 ticks.
SPECIFICATION Spec
CONSTANTS
    own = own
    Passwords = {own}
    Generated = {generated}
    Keep = Keep
    Changes <- SomeChanges
    Requests = {r1, r2}
    Limit = 2
    Lock = 2
    MaxAttempts = 5
    MaxTime = 3
SYMMETRY RequestSymmetry
INVARIANTS LockMeansLimit OvershootBounded
PROPERTIES LockHolds BlockHolds GeneratedIsTemporary
