# Verification of alex-backend

alex-backend is the REST server of an association manager: clubs keep their
members, fees, bank accounts, receipts, bookings, annual statements, boards,
documents and calendars in it. It is written in Go (`net/http`, one goroutine
per request) over PostgreSQL (pgx, isolation level READ COMMITTED, queries
generated by sqlc). This directory holds TLA+ models of the parts in which the
order of steps matters, the TLC runs that check them, and TLAPS proofs of what
most of them keep for any number of requests, rows and instances.

Contents: [1 the system](#1-the-system), [2 the modules](#2-the-modules),
[3 the runs](#3-the-runs), [4 the proofs](#4-the-proofs),
[5 what the code does and the documents do not say](#5-divergences),
[6 what is not modelled](#6-what-is-not-modelled), [7 the plan](#7-the-plan).

To repeat a run: `tlc -config MCFinanceLedger_ledger.cfg MCFinanceLedger`; to
repeat the proofs: `tlapm FinanceLedgerProofs.tla`.

## 1 The system

### What makes it hard

Handlers talk to the database through single statements. Only four groups of
handlers open a transaction (booking a receipt, committing an import, creating
and updating a member, a migration file); every other handler that sends
several statements leaves the database open to other requests, to failures and
to a cancelled request (each statement runs under `r.Context()`, so a client
that hangs up stops the handler) between any two of them. READ COMMITTED lets a
plain SELECT see whatever is committed at that moment and take no lock. What
keeps rows consistent is therefore a mixture of foreign keys with their
`ON DELETE` rules, unique indexes, row locks of the few transactions, and the
order in which a handler happens to send its statements.

### Inventory

Paths are relative to `src/internal/`.

| Component | State | Operations | Depends on / interacts with | Hard behaviour | What makes it correct |
|---|---|---|---|---|---|
| **Finance ledger** `api/finance_handler.go`, `api/finance_import_handler.go`, `database/finance.sql.go` | `receipts`, `bookings`, `bank_bookings_import` | create/update/delete receipt; book a receipt; update a booking; stage, edit, discard, commit an import | bank accounts and booking accounts by foreign key | two transactions among concurrent edits and deletions, decisions on rows read without a lock, lost answers of a commit | no lost movement, no serial double booking, flag and booking appear together, no dangling link, journal is append-only |
| **Annual statements** `api/statements_handler.go`, `database/statements.sql.go` | `finance_statements` (one per club and year) | compute from three reads, save by lookup/DELETE/INSERT, delete | reads ledger and accounts | reads without a snapshot; replacement without a transaction; ignored errors | report reconciles; no receipt counted twice, no untouched one dropped; one statement per year; an answered one stays |
| **SEPA direct debit export** `sepa/`, `handleGenerateSEPA` in `api/finance_handler.go`, `database/fees.sql.go` | none (reads) | generate the files for a date | members, bank accounts, fees, club accounts | fee history that never ends, `DISTINCT ON`, default creditor, regrouping through maps | one debit per member, totals agree, only with a mandate, only for the IBAN of the named creditor |
| **Members, accounts and fees** `api/members_handler.go`, `api/members_import_handler.go` | `members`, `member_bank_accounts`, `membership_fees` | create, update, delete, import | ledger accounts; export | read-merge-write of fees, upsert by start, import row by row without a transaction | fee history only grows; an account is changed only by its own member's request |
| **Club bank accounts, booking accounts** `api/finance_handler.go` | `club_bank_accounts`, `booking_accounts` | create, update, delete (booking accounts: create only) | referenced by all of the above | deletion sets references NULL while others use them | see ledger and export |
| **Booking list** `handleListBookings` in `api/finance_handler.go` | none (reads) | list of a period with start and end balance | ledger | two date columns | – (see 6) |
| **Bank file profiles** `api/finance_import_profiles.go` | none | parse two CSV formats | feeds the staging table | formats only | – |
| **Login and lockout** `api/auth_handler.go`, `auth/` | `users.failed_login_attempts`, `locked_until`; tokens at the client | register, login | users | slow hash between check and count | lock and counter agree; overshoot is bounded |
| **User administration** `api/users_handler.go` | `users`, `user_roles` | update, reset password, assign and remove roles | login | read-merge-write of a row that login also writes | edits leave locks alone; blocks and the duty to change a password are not lost to stale rows that could not know of them |
| **Invitations, board** `api/invite_handler.go`, `api/board_handler.go` | `members.user_id`, `board_members`, `user_roles` | invite, seat, update, unseat | users, members | up to five statements without a transaction; roles removed one by one, then added; errors ignored | a finished request has its way; links, seats and roles refer to what exists |
| **Authorisation middleware** `api/middleware.go` | roles inside tokens | authenticate, authorise | users, roles | admin role from a 24-hour token, other rights from the database; a block calls no token back | a lost role is spoken for only by tokens of logins that had read it, for the life of a token; a block lasts |
| **Rate limiter** `api/ratelimit.go` | map of windows per address | allow, clean up | in front of login and registration | fixed window, refused requests counted, concurrent cleanup, memory lost at a restart | at most two limits within one window's length; only who was let in often is refused |
| **Schema migrations** `database/migrate.go` | `schema_migrations` | run pending files | everything (the port opens afterwards) | crash between and within files, two servers starting, names read in part | every file once and in order; serving means migrated; every start succeeds in the end |
| **Clubs and their records** `api/clubs_handler.go`, `departments_`, `documents_`, `calendar_`, `fee_mappings_handler.go` | `clubs`, `departments`, `documents`, `document_categories`, `calendar_events`, `fee_type_account_mappings` | create, update, delete | foreign keys with CASCADE and SET NULL; the creator's role | circles of departments, links across clubs, creation of a club in two statements | nothing dangles; a deletion takes what hangs on the row and nothing else; clubs do not touch each other |
| **PDF, e-mail, command line tools** | none | render, send, one-shot tools | – | formatting and transport | – |

The hazards, each with the line at which it bites and the properties that watch
it, are listed in `PROJECT.json`.

## 2 The modules

| Module | Models | Module it is used by |
|---|---|---|
| `Journal` | the abstract specification: a receipt or an import is posted in one atomic step | instantiated by `FinanceLedger` |
| `FinanceLedger` | ledger handlers, statement by statement | `MCFinanceLedger`, `FinanceLedgerProofs` |
| `StatementReport` | computation of the annual report | `MCStatementReport`, `StatementProofs` |
| `StatementStore` | its storage | `MCStatementStore`, `StatementProofs` |
| `DirectDebit` | members' accounts and fees, and the export | `MCDirectDebit`, `DirectDebitProofs` |
| `Sums` | facts about sums over finite sets, no part of the system | `StatementProofs`, `DirectDebitProofs` |
| `SignIn` | one row of `users` under logins, edits and resets | `MCSignIn`, `SignInProofs` |
| `BoardRoles` | accounts, links, seats and roles | `MCBoardRoles`, `BoardRolesProofs` |
| `ClubRecords` | clubs, departments, documents, events, mappings | `MCClubRecords`, `ClubRecordsProofs` |
| `Deployment` | constants and clock of the running server | the modules below |
| `MigrationsState`, `Migrations` | the start of an instance up to the open port | `Server`, `ServerProofs` |
| `RateLimiterState`, `RateLimiter` | windows and counters per address | `Server`, `ServerProofs` |
| `TokensState`, `Tokens` | claims, rights and the block | `Server`, `ServerProofs` |
| `Server` | the composition of these three | `MCServer`, `ServerProofs` |

The modules named `...State` hold the variables of a component, what is read off from
them, and the properties it promises, so that a component and the composition speak
of the same ones; the actions are in the module next to them.

They were written in this order, the money first. The tables are shared between
components by the parts a component needs: `StatementReport` takes the commits
of `FinanceLedger` as single steps (which `JournalSpec` justifies) and has what
the report reads in addition; `StatementStore` takes the report as given.

Conventions: variables that no column or local variable of the code stands for
are *history* variables and are marked so where they are declared (`clearedAt`,
`discarded`, `origin`, `readAt` and `edition` in the ledger; `steady`,
`irregular`, `offered`; `stored`, `lookedUp`, `byHand`, `lost`; `over`; `foreign`,
`withheld`; `admitted`; `lostAt`, `blockedAt`, a token's `stale` and
the `read` of logins and tokens; `by`): actions assign them, no guard that decides
what the code does reads them. (`edition`, `served`, `edits` and `stored` also appear
in guards, only to bound the model or to keep ids fresh; `offered` keeps the versions
of a receipt that a request which books it may have read.) An operator whose comment begins
with "Slip:" is not part of the specification. It is the definition below it
with a plausible mistake, kept to confirm that the properties notice that
mistake.

### FinanceLedger

*State.* `receipts`, `bookings`, `imports`, `accounts` are the four tables. Of a
receipt's columns only `is_booked` and `position_assignment` steer the code;
all others are represented by `edition`, the number of UPDATEs the row has
seen, so that a stale copy is told from a current one. Each request has its
place `pc`, the id in its URL `target`, the row it will insert `draft`, and its
last answer `reply`. Row locks are read off from `pc`: the foreign-key check of
an inserted booking holds KEY SHARE on the receipt or bank account it refers
to, `SetReceiptBooked` and the DELETE of an import hold their rows for update.

*Actions.* The single-statement handlers are one action each (`CreateReceipt`,
`UpdateReceipt`, `DeleteReceipt`, `UpdateBooking`, `StageImport`, `UpdateImport`,
`DiscardImport`, `CreateAccount`, `DeleteAccount`). `handleBookReceipt` is
`BookReceiptRead`/`Refuse`, `BookReceiptInsert`/`Orphaned`, `BookReceiptMark`,
then `Commit`; `handleCommitImportBooking` is `CommitImportInsert`/`Rejected`,
`CommitImportRemove`, then `Commit`. `Abort` is the deferred Rollback after any
error, cancellation or crash; `CommitUnacknowledged` is the commit whose answer
got lost. Writes of a transaction appear in the tables at `Apply`.

*Abstraction.* Amounts and texts are left out here (they are the subject of
`StatementReport`). One club is modelled: every query is restricted to one.

### StatementReport and StatementStore

*State.* A receipt has a life (absent, unbooked, booked, gone) and a `document`: date,
type, amount and position as the client last sent them. `bookings` and `accounts` are
the tables, `seen` is what the computation has read.

*Actions.* `EnterReceipt`, `UpdateReceipt`, `RemoveReceipt` are the handlers of a
receipt. `UpdateReceipt` overwrites the whole document and `is_booked`, also of a
receipt that is booked, and leaves its bookings as they are, as
`handleUpdateReceipt` does. `BookReceipt` is the commit of `handleBookReceipt`: the
booking says what the receipt said when the request read it (one of `offered`), which
need not be what it says now. A booked receipt that is moved to another year, or
given another amount, therefore stays in the report with the date and the amount of its
booking; this is what `FallsIntoYear` says. `CommitImport`, `AssignBooking`,
`OpenAccount` and `CloseAccount` are the other writers of what the report reads.
`ReadAccounts`, `ReadBookings` and `ReadReceipts` are the three queries of
`handleCreateFinanceStatement`; between them every ledger action may happen.
`Items`, `BankRows`, `Overview` and `Details` compute the report as the handler
does: bookings with their stored amounts, unbooked receipts as cash with the sign
of their type, an account that was not in the list counted as cash. Dates are
reduced to "in the year or not", texts are left out. `StatementStore` has one
action per statement of the save, with the failure that the code ignores or
answers (`LookUpFails`, `DeleteOldFails`, `CreateRefused`), and `Abort`.

### DirectDebit

*State.* Per member the assigned club account, the list of bank accounts (IBAN,
mandate given, mandate complete, next debit type), and the fees by start. A
member request is one step: its transaction's first write locks the member's
row, and no other handler writes rows of an existing member. A row of a member
import is two steps. The export has no state; `Results(d)` is the set of results
that `GetDueMembershipFees` may return for date d (where the query leaves the
choice to the database, every choice is in the set), and `Status`, `Groups`,
`Files` are the handler and `sepa.go`. Rows come in any order (ids are random).

*IBANs.* A club account's IBAN is stored as it is sent, and the unique index compares
the very text (`IbansDiffer`); the export takes the spaces out (`Stripped`, a constant
that is only assumed to leave its own results alone) and makes one file for each IBAN
that remains (`KeyOf`). A payment block has the holder, BIC and creditor identifier of
the account of its first row (`PaymentInfo`). The handler's `NextDirectDebitType != ""`
always holds, since the column is constrained; `mapSequenceType` is modelled by what it
does. A request that names a fee's label or type makes a fee like one that names an
amount (`other`).

### SignIn

One user. `LoginRead` is the SELECT together with the check of the lock,
`WrongPassword` the UPDATE that counts and locks, `Welcome` the reset,
`UpdateRead`/`UpdateWrite`/`LiftLock` are the statements of
`handleUpdateUser`, `AdminReset`/`LiftLock` those of
`handleAdminResetPassword`. A request carries the row it has read (`seen`),
since that is what it compares with and writes back. `Tick` is time;
`lockedUntil = 0` is NULL. Passwords stand for their hashes.

### BoardRoles

A user is known by the e-mail address; a member's address is fixed and the same
person may be a member of two clubs under one address. `rq` holds how far each
request has come and what it still has to remove and add. `SkipOne` is a role
statement whose error is ignored; `ReadRolesFails` the listing whose error is;
`Abort` the end of a request anywhere. Positions on the board are left out.

### ClubRecords

A row has a life (absent, present, gone), a club, and the one other row it may
name: the parent of a department, the category of a document, the account of a
mapping. There is one action per handler; most are one statement, which names the row
and the club of the request. `Doomed` and `Remove` are what PostgreSQL does at a
DELETE: departments and mappings go with the row they hang on (`ON DELETE
CASCADE`, so a set that is closed under it), documents keep living without their
category (`SET NULL`). The foreign keys look for the id alone, so `Links` offers
rows of all clubs, and a department may name itself. `CreateClub` and
`GrantCreator`/`GrantFails` are the two statements of `handleCreateClub`. An
update of an event, a category or an account changes only columns that are left
out, so in the model it is enabled where the code finds the row and changes `by`.

### Migrations, RateLimiter, Tokens and Server

`Migrations` is `main.go` and `RunMigrations`: an instance reads the names of the
applied files (`ReadVersions`; `ReadVersionsCut` is the loop that ends with an
error nobody asks for), goes through its files (`Skip`, or `Execute`, `Record`,
`Commit`), and serves at the end. `NameIsFree` is the primary key of
`schema_migrations`, at which a second instance waits. Files are numbers in the
order of their names; an image knows an initial part of them.

`RateLimiter` is `ratelimit.go` with one map per process. `FirstOfWindow` and
`NextOfWindow` are the two ways in which `Allow` admits, `Refuse` is the 429, which
is counted as well, `Cleanup` the goroutine. A window is over when *more* than its
length has passed.

`Tokens` has one user: `LoginRead` reads the row with `is_blocked`, `ReadRoles` is the
query of the roles, `ReadRolesFails` the same with its error ignored, and `IssueToken`
signs what was read and takes the time for it (`GenerateToken`). Roles, the block and
the time change between any two of them (roles and block by the handlers that
`BoardRoles` and `SignIn` model statement by statement). `Permitted` and `MayManageBoard` are what
`RequirePermission` and `requireClubAdmin` make of a token.

`Server` ties them: only a serving instance takes requests; a login is one step of
limiter and tokens together; an instance that ends loses its maps and the logins
it was serving, while tokens stay good at every instance.

## 3 The runs

| Run | Bounds | Question |
|---|---|---|
| `ledger` | 2 requests, 1 receipt, 1 import, 1 account, 1 booking account, 2 bookings, 1 edit | what holds of the ledger, that it implements `Journal`, that every request ends its transaction |
| `annual` | 1 receipt that says one of 3 things (an expense under a category, an income under a booking account, an income of another year), 1 movement, 1 account, 2 bookings | a report made from three reads |
| `save` | 3 requests, 3 ids | replacing the statement of a year |
| `export` | 2 members, 2 club accounts with 3 IBANs (two differ by spaces), 2 IBANs of members, 2 dates, 2 starts, 2 member requests | every export after every such history |
| `lock` | 2 requests, limit 2, lock of 2 of 3 ticks, 5 attempts | the counter, the lock, the block, generated passwords |
| `board` | 2 requests at a time, 3 in all, 1 single change, one person in 2 clubs, 2 roles | accounts, links, seats, roles |
| `records` | 2 clubs; 3 departments, or 2 categories, 2 documents and an event, or 2 accounts and 2 mappings | what deletions and updates of records take along |
| `server` | four plans: 2 instances with 2 faults; limiter with 1 fault and 5 ticks; tokens with 3 ticks; tokens with a crash | starts, restarts, the limiter, the tokens |
| `once`, `commit`, `sign`, `types` | small | a sentence of the documents that the code does not keep ([5](#5-divergences)) |

A type invariant or an inductive invariant that is proved for every value of the
constants ([4](#4-the-proofs)) is not repeated in a run; neither are `OnePerYear` and
`FlagOnlyWithBooking`, which follow from it in one step. The runs keep
the properties that are worth seeing fail when the code is changed.

**Ledger.** `NoDanglingLinks`: deletion at any moment leaves no reference to a
deleted row. `FlagFollowsBooking` and `FlagOnlyWithBooking`: the two statements
of a booking are seen together. `NoSerialDoubleBooking`: a receipt is booked
twice only by requests that overlapped or after a reset by hand; a retry after
a lost answer is refused. `ImportsAccountedFor`: no staged movement disappears.
`AcknowledgedIsRecorded`: a 200 means that the booking is there for good.
`LedgerAppendOnly`, `EditsSurvive`: no committed booking is rewritten, no edit
undone. `JournalSpec`: the refinement. Two requests are enough to have two transactions of either kind contend
for the same receipt or import, one of them reading before the other commits;
two bookings are what a double booking takes; one edit lets a receipt or booking
change, or the flag be reset, while a transaction is under way. The theorems of
section 4 remove these bounds. No symmetry is used, because of the liveness property.

`RequestsTerminate` needs fairness: `SF_vars(Continue(p))` for each
request. A goroutine that can run does run in Go, and PostgreSQL queues the
waiters for a row lock in the order in which they came; an action that is
disabled while another transaction holds the row is therefore enabled again and
again, and is not passed over for ever. Nothing else is fair: no client has to
send anything, and nothing has to fail.

**Annual.** `ReportReconciles`: bank table and overview account for the same
money although the list of accounts is older than the bookings.
`CountedAtMostOnce`: bookings are read before the unbooked receipts, so a
receipt booked in between is in neither rather than in both.
`SteadyReceiptsCounted`: a receipt that nobody touched during the reads is in the
report exactly once if it falls into the year, and else not at all; whatever was done
to it before the reads, an edit of a booked receipt's date included. The properties
look at the finished report only. A computation writes nothing, so one at a time is
enough. No step and no read looks at two receipts together, so one is enough that may
be rewritten to each kind there is; with a movement there is every kind of line, and two
bookings are what a receipt booked twice takes. The theorems have no such bounds.

**Save.** `AnsweredIsKept`, `GapOnlyWhileReplacing`. Three
requests let one delete what the second stored while the third looks it up. The
ids are used up after three inserts, which ends a behaviour.

**Export.** `OneDebitPerMember`, `FilesAddUp`, `MandateBacked`,
`CreditorHonoured` are checked for every date, on every result that the query
may return, in every reachable state; `HistoryKept` on every step. `CreditorHonoured`
says that a fee that names its account is collected for the IBAN of that account, and
that a payment block is made out by an account that exists and has the IBAN of the
file. It cannot say that the block is made out by the account the fee names: if two
accounts of a club differ by the spaces in their IBANs only, it is by whichever comes
first (the run reaches such files). `HistoryKept`: a step writes one fee of one member
at most; all other fees keep amount, method, maturity and creditor. Initially the club
accounts are any of the sample rows. Two requests reach a member with two
accounts, two fees, a revoked mandate or a changed IBAN. The request bodies are
samples; they are listed in `MCDirectDebit` with what each is for.

**Lock.** `LockMeansLimit`: the two columns agree whichever of three statements
wrote them. `OvershootBounded`: while a lock runs, fewer wrong passwords than
there are requests are still counted. `LockHolds`, `BlockHolds`,
`GeneratedIsTemporary`: what a stale write may take back, and what not. Limit 2
is the smallest at which a counter can be both positive and below the limit, and
three ticks let a lock run out and a second one start.

**Board.** `RolesAsAsked`: overlapping replacements give a finished request what
it asked for, except for roles that somebody else wrote meanwhile or whose
statement failed. `LinkedMayEnter`, `ReferencesHold`: links,
seats and roles under failures, concurrent invitations and deletions. Three
requests are an invitation, a seat and a replacement of its roles, two of them
at the same time.

**Records.** `NoDanglingRecords`: whatever is deleted, in whatever club, each row has
its club and the row it names. `RecordsKept`: a deletion takes one record and what
hangs on it, also around a circle of departments; a document outlives its
category. `ClubsApart`: as long as no row names one of another club, a request
changes rows of its own club only. (The condition is needed: a department may be
hung under one of another club, and then goes with it.) A behaviour uses one family
of rows, because the families share nothing but the clubs; three departments make a
chain, a fork and a circle, two documents and two categories an exchange.

**Server.** `AppliedOnceInOrder`, `ServesMigrated`: of two images (2 and 3 files) that
start together on an empty database, with up to two crashes, failing
statements, lost answers of COMMIT or partial reads. `EventuallyServes`: no start is
refused for ever. It assumes `WF_vars(Starting(i))`: the compose file says
`restart: unless-stopped`, `main` does not pause, and who waits for the primary key
waits for a transaction that ends. A start that is thrown back by another one
finds the name recorded the next time, so each file can refuse it once. Nothing
that clients or administrators do is fair. `AtMostTwoWindows`, `RefusalsDeserved`:
with a limit of 2, five ticks hold two windows that touch, the fifth request that
would break the bound, and a third window; refused requests are counted up to 3, one
more than the limit. `ClaimsFade`, `BlockOutlasts`: with a life of 2 ticks, three
ticks let a role be lost and a block be set after a login has read the user, or the
roles, and before it issues the token, and let the token expire. That a lost role is
spoken for no longer than `Life` after the loss would be too much to ask: a login that
has read the roles signs them later, with the time of the signing, and the run reaches
such a token. What holds is that such a login had read the roles before the loss; a
token that was there at the loss is worth nothing `Life` later. Each behaviour follows one plan
(`MCServer`), as the product of all three parts is too large and their ties need
few steps; the plans with a restart make the instance lose its map and its
logins. One address and one user are enough, since no step looks at another.

*Deadlock.* `CHECK_DEADLOCK FALSE` is set where ids or bounded counters run
out: receipts, imports and accounts are created once each (ids are UUIDs and
never reused), bookings, statement ids, requests and edits are bounded. The
program itself goes on there. That nothing waits for ever among the modelled
locks is what `RequestsTerminate` and `EventuallyServes` check.

*Symmetry* is used on requests, members, statement ids, clubs and departments, in
safety runs only, where nothing names one of them.

## 4 The proofs

The proofs hold for any sets of requests, receipts, imports, accounts and ids and
any bounds, under the assumptions named in the modules.

**Ledger** (`FinanceLedgerProofs`; assumptions `IdsDisjoint`, `BoundsAreNat`). The
properties of the run are not inductive by themselves: that a commit leaves no
dangling link needs what the request knows and locks, and that a second booking
overlapped needs what the first read had seen. `IInv` therefore adds three
conjuncts. `RequestsConsistent` says what a request's place implies: its draft
is made from its target, and as long as the insert's key-share lock is held the
receipt (or the account) is present. `SnapshotWasRight` says that a request that
found the flag unset had seen no booking of that receipt without a later reset.
`LivesRunForward` says that unused rows are unedited and discarded imports do
not return. Each conjunct has a lemma of its own with one step per action;
`IInvNext` combines them. From `Invariance` follow the safety theorems;
`LedgerAppendOnly`, `EditsSurvive` and `FlagOnlyWithBooking` follow per step;
`ImplementsJournal` maps `Apply` to `PostReceipt` or `PostImport`, the edits to
`Enter`, `Edit`, `Remove`, `Stage`, `Discard`, and everything else to a stutter.

**Annual report** (`StatementProofs`; `ReportConstants`). A finished report depends on
three reads at three times, so `IInv` relates what was read to the tables as they are
now. `Orderly`: of a receipt that nobody took apart by hand there is at most one
booking, and if there is one the receipt is not unbooked. `SeenAreRows`: rows that were
read are rows still. Together they give `NotInBoth`, that what the third read found
unbooked was not among the bookings of the second, whatever happened in between, and
with it `CountedAtMostOnce`. What a receipt says now does not matter to its bookings; they
are of what it once said (`offered`). `SteadyAsSeen` carries a receipt that nobody touches
through the reads, for `SteadyReceiptsCounted`. `ReadInOrder` and `FinitelyMany` (only
finitely many receipts exist, though the set of ids may be infinite) make the other
parts inductive. `ReportReconciles` says nothing of the order of steps: the table of
accounts and the table of categories regroup the same items, each of which has one
account and one category (`SumByGroups`), and an account's result is its end less its
start.

**Statement store** (`StatementProofs`; `NoIdIsNone`). `StoreInv` adds to the
properties that what was stored is in the table, was looked up or was deleted
by hand (`NothingElseIsDeleted`), from which `AnsweredIsKept` follows. (The definitions
that both modules of the statement would name alike are called `Store...` there.)

**Direct debit** (`DirectDebitProofs`; `DaysAreIntegers`, `RequestShapes`,
`StrippedOnce`, `NothingIsAValue`). `IInv` is the type invariant, which contains that no member has an
IBAN twice, with `Linked` (members and fees name club accounts that exist, which
`DeleteAccount` has to restore in two tables) and `FinitelyMany`. `UpdatedBank` finds at
most one row, so a change of IBAN keeps the rows apart; a fee that is inherited from
the latest one stays a fee; hence `TypeOK`. `HistoryKept` follows per step: an update
writes one place of one member's history, and a deletion of an account rewrites only
what named it. For the
files, `RowsAreGrouped` says what the loop over the rows ends with, whatever order
they come in: each row stands in the group of its stripped IBAN and sequence type, once,
and a group holds nothing else (`Grouped`). A file therefore holds the rows of its IBAN
(`FileRows`), from which `MandateBacked` and `CreditorHonoured` follow with `Linked` (the
first row of a group is one of them);
the counts and sums of the groups add up to those of the rows (`TotalsOfFile`), which
is `FilesAddUp`; and `DISTINCT ON` left one row of a member, which is in one group once:
`OneDebitPerMember`. These speak of every result that the query may return;
`DebtorsAreAsked` says that there is one for every date, with a row for each debtor,
of whose fees it takes one that was due first (`FirstExists`: the order of the query
has a least element on whatever fees and accounts have gathered).

**Sums** (`Sums`). Totals are sums of a function over a finite set (`SumFunction`), a
fold in an order that CHOOSE fixes. The induction theorems of the library take an
operator and cannot be used here; instead a least counterexample is refuted: a family of
subsets of a finite set has a minimal member (`MinimalSubset`), and likewise a set of
naturals (`AllUpTo`). In this way it is shown that the fold exists, that the order does not matter, and
that adding up group by group gives the whole (`SumByGroups`). The loop of
`handleGenerateSEPA` is handled the same way.

**Sign-in** (`SignInProofs`; `CountsAreNat`, `KeepIsNoValue`, `GeneratedIsRandom`,
`ChangesAreChanges`, `RequestsFinite`). `LockMeansLimit` is inductive over the
three statements that write the columns. `OvershootBounded` needs a count: while
the lock runs no login is let in, so `over` plus the number of comparisons still
under way stays below the number of requests (`OvershootInv`). `LockHolds` needs
that a lock never lies further ahead than `Lock` (`LockNear`) and that a login
under way had found no running lock (`LetIn`). `GeneratedIsRandom` states
that nobody chooses a generated password.

**Accounts, seats and roles** (`BoardRolesProofs`; `MembersPlaced`,
`HomeAndRoles`). The invariant adds what the place of a request
implies. Before it comes to the roles it has changed none of its plan (`Fresh`); once
its account was found or made, the account is there (`HasAccount`); and at the roles
it accounts for every role of its user in its club (`UnderWay`): still to be removed,
still to be added, done, or written by somebody else. `RolesAsAsked` is the case in
which nothing is left to do. That a linked member may enter (`LinkedMayEnter`) is
carried by `Entitled`: it has the role, or somebody took it away, or the invitation
that brings it is under way.

**Clubs and records** (`ClubRecordsProofs`; `KindsDiffer`, `NullIsNoId`). Lemmas about
`Doomed` (it contains what is deleted, is closed, and is the least such set) stand
for the recursion that a cascade otherwise is, so that departments may be of any
depth and in circles. Closed, so nothing dangles; least, so nothing more is lost
(`RecordsKept`) and no other club is touched (`ClubsApart`).

**Starts** (`ServerProofs`; `KnowsFiles`, `BoundsAreNat`). `AppliedOnceInOrder` alone
does not say that a file about to be committed is the next one. `Where` does: an
instance has left behind only files that are recorded (`LeftBehind`), and the name
it has just written is neither recorded nor about to be, by another (`NameIsNew`).

**Limiter** (`ServerProofs`; `LimitPositive`, `LengthsAreNat`, `BoundsAreNat`). The
invariant groups the admissions by their window: windows begin more than `Window`
apart (`Apart`), none holds more than `Limit` (`Few`), and the last admissions are
those of the open window, as many as its record counts up to the limit (`Current`).
Then `2 * Limit + 1` admissions touch three windows, the middle one in full.

**Server** (`ServerProofs`; `GoroutinesPlaced`, `LengthsAreNat`, `BoundsAreNat`). Each step
of the composition is a step of a component or leaves it alone (`StepOfStarts`,
`StepOfLimiter`, `StepOfAccess`), so `Server` implements `Migrations`, `RateLimiter`
and `Tokens`, and what is proved of them by themselves holds of it. `ClaimsFade` and
`BlockOutlasts` are proved in the composition: a token that names an administrator goes
back to roles that were read while the role was held, hence before its last loss
(`Witnessed`), and so does a login that has not signed yet (`Gathered`); a token of a
blocked user was issued before the block or by an older login (`Dated`, `Unseen`).

**Only model-checked.** `RequestsTerminate` and `EventuallyServes`: liveness under
fairness, and ENABLED, are outside what TLAPS proves. Every other property that a
passing run checks is the statement of a theorem. That the rows of `Results(d)`
are what the query means is a definition, and no theorem; so are the ways in which
the model departs from the program ([6](#6-what-is-not-modelled)). The theorems are about
exact amounts: cents are whole numbers there, the export adds them up as floats.

## 5 Divergences

Checked, each by a run that TLC ends with a counterexample:

- `once`: two overlapping requests book one receipt twice, both answered 200
  (`API.md:753` promises a 400 for a booked receipt).
- `commit`: an import is committed again after its record is gone (`API.md:1051`
  says that the booking is created from the record).
- `sign`: an expense counts as income once it is booked, because receipts hold
  positive amounts with a type and bookings signed amounts (`API.md:745`,
  `statements_handler.go:341`).
- `types`: the stored words `followup` and `last` reach the SEPA file as sequence
  types (`README.md:34` names FRST, RCUR, OOFF, FNAL).

Met while modelling, without a run of their own:

- Fees have no end: a fee that was replaced stays due, and the earliest maturity
  wins. `starts_at` is not compared with the date of the export. Nothing records a
  collection, so the next export collects again. `mandate_valid_until` is stored as 36
  months after the mandate (`members_handler.go:519`; `doc/20251230_mitgliederdaten.txt:80`
  says "Gültig bis: drei Jahre"), but the export does not look at it: `MandateBacked`
  asks for a mandate with reference and date, however old.
- Two club accounts whose IBANs differ by spaces only are two rows of the table and one
  account of the export: the fees of both go into one file, under the holder, BIC and
  creditor identifier of whichever row came first (`finance_handler.go:860-876`).
- The report counts receipts that are not booked yet as cash, although
  `doc/finance/Annual_accounts.md:4` asks that "the finance statement should just respect
  the bookings from database bookings table". The properties of the report are about
  what the code computes, receipts included.
- Editing a booked receipt leaves its booking with the old date and amount; the report
  goes by the booking, so the receipt stays in the year it was booked in.
- A creditor account without BIC makes the whole export fail, since the
  generated row type takes no NULL. Two accounts of the same bank name get the same
  file name in the archive. Transactions of amount zero are exported although the
  comment at `finance_handler.go:825` speaks of skipping.
- Every edit of a member's bank account resets the next debit type to `first`. A
  member import never creates the fee (the insert violates constraints), counts
  the row as a success all the same.
- A category in `position_assignment` is lost when a receipt is booked; the line
  moves to the collective position.
- An expired lock does not reset the counter, so one more wrong password locks
  again. `"is_blocked": false` lifts the lock for anyone who may edit the user.
- An address that is linked to a member of one club cannot be linked in another
  (unique index), although the invitation mail (`invite_handler.go:144`) speaks
  of access to a new club.
- The rate limiter counts in fixed windows (`ratelimit.go:16` calls them sliding), so
  an address may be let in twice the documented 10 times (`API.md:41`) within a
  minute; `AtMostTwoWindows` is the bound that does hold. Each instance counts on its
  own and forgets at a restart.
- A blocked user goes on with the tokens there are, for up to a day; likewise a
  former administrator, for what is decided by the claims; and for as much longer as a
  login takes between its query of the roles and the signing.
- `handleCreateClub` answers as if all was well when its creator could not be made
  the administrator of the new club.
- `API.md:1004` mentions duplicates of imports; none are detected.

## 6 What is not modelled

PDF, e-mail, CSV profiles and file names (formatting and transport, no state);
the booking list (it reads two sums over two date columns of every booking; the
ledger model has no dates, and no document says which date is meant); the members and
finance rows that the deletion of a club takes along (`ClubRecords` has the records
that no other module has); the listings (they change
nothing); the command line tools (one-shot). Positions on boards and personal data
of members, which no modelled decision reads. Permissions, except in `Tokens`: elsewhere modelled
requests have passed the middleware. Several clubs, except in `BoardRoles`, `ClubRecords` and `Tokens`. How the limiter
gets an address out of the headers; what migration files contain, and the locks they
take on tables; the flag of the system administrator, which nothing changes. The isolation level
is taken as READ COMMITTED, with statements atomic, as PostgreSQL documents them.

## 7 The plan

Done: the modules above, their runs and proofs, in the order of section 2. Left, in
this order:

1. More of the members' handlers in `DirectDebit`, with the order of the three
   inserts of an import row and the reports on members.
2. `BookingList`: start balance, movements and end balance over the two date
   columns; against a reference definition.
