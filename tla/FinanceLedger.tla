--------------------------- MODULE FinanceLedger ---------------------------
(***************************************************************************)
(* The finance tables of one club (receipts, bookings, the staging table   *)
(* of bank imports, the club's own bank accounts) and the requests that    *)
(* change them.  Every HTTP request runs in a goroutine of its own over    *)
(* PostgreSQL at READ COMMITTED.  A handler that issues one statement is   *)
(* one step.  The two handlers that open a transaction, handleBookReceipt  *)
(* and handleCommitImportBooking, are one step per statement: their writes *)
(* stay private to the request until Commit, the row locks they hold are   *)
(* read off from pc, and every early return rolls back (defer tx.Rollback).*)
(*                                                                         *)
(* Of a receipt's many columns only is_booked and position_assignment      *)
(* steer the code; all others are represented by "edition", the number of  *)
(* edits the row has seen, so that a stale copy can be told from a current *)
(* one.  The fields origin, readAt and edition of a booking, and the       *)
(* variables clearedAt and discarded, are history: the code neither stores *)
(* nor reads them.                                                         *)
(***************************************************************************)
EXTENDS Naturals, Sequences, FiniteSets

CONSTANTS
    Requests,     \* concurrent request goroutines
    Receipts,     \* receipt ids (UUIDs, never reused)
    Imports,      \* ids of staged bank imports
    Accounts,     \* ids of the club's bank accounts
    Positions,    \* ids of booking accounts (the code has no way to delete one)
    NULL,
    MaxBookings,  \* bound: bookings, counting those of open transactions
    MaxEdits      \* bound: edits of one receipt

ASSUME IdsDisjoint ==
    /\ Receipts \cap Imports = {}
    /\ NULL \notin Receipts \cup Imports \cup Accounts \cup Positions
ASSUME BoundsAreNat == MaxBookings \in Nat /\ MaxEdits \in Nat

VARIABLES
    receipts,   \* table receipts
    bookings,   \* table bookings, in commit order
    imports,    \* table bank_bookings_import
    accounts,   \* table club_bank_accounts: the life of each id
    pc,         \* where each request stands
    target,     \* the receipt or import named in the URL of the request
    draft,      \* the CreateBookingParams of the request
    reply,      \* what the client of the last request was told
    clearedAt,  \* history: number of bookings when is_booked was last stored FALSE by hand
    discarded   \* history: imports removed by handleDeleteImportBooking

tables == <<receipts, bookings, imports, accounts, clearedAt, discarded>>
locals == <<pc, target, draft, reply>>
vars == <<receipts, bookings, imports, accounts, pc, target, draft, reply,
          clearedAt, discarded>>

Life == {"unused", "present", "deleted"}
PC == {"idle", "read", "inserted", "marked", "posted", "removed"}

Receipt == [life : Life, booked : BOOLEAN, position : Positions \cup {NULL}, edition : Nat]
Import == [life : Life, bank : Accounts \cup {NULL}]
Booking == [origin : Receipts \cup Imports \cup {NULL}, receipt : Receipts \cup {NULL},
            bank : Accounts \cup {NULL}, assigned : Positions \cup {NULL},
            readAt : Nat, edition : Nat]

Blank == [origin |-> NULL, receipt |-> NULL, bank |-> NULL, assigned |-> NULL,
          readAt |-> 0, edition |-> 0]

Init ==
    /\ receipts = [r \in Receipts |-> [life |-> "unused", booked |-> FALSE,
                                       position |-> NULL, edition |-> 0]]
    /\ bookings = <<>>
    /\ imports = [i \in Imports |-> [life |-> "unused", bank |-> NULL]]
    /\ accounts = [a \in Accounts |-> "unused"]
    /\ pc = [p \in Requests |-> "idle"]
    /\ target = [p \in Requests |-> NULL]
    /\ draft = [p \in Requests |-> Blank]
    /\ reply = [p \in Requests |-> "none"]
    /\ clearedAt = [r \in Receipts |-> 0]
    /\ discarded = {}

PresentAccounts == {a \in Accounts : accounts[a] = "present"}

-----------------------------------------------------------------------------
(* Row locks held by open transactions.                                    *)

\* Slip: a column that names a receipt without REFERENCES takes no lock.
NoForeignKey(r) == r \notin Receipts

\* The foreign-key check of an inserted booking holds KEY SHARE on the receipt ...
ReceiptShared(r) == \E p \in Requests : pc[p] \in {"inserted", "marked"} /\ target[p] = r
\* ... and on the bank account; SetReceiptBooked holds the row for update ...
AccountShared(a) == \E p \in Requests : pc[p] \in {"posted", "removed"} /\ draft[p].bank = a
ReceiptLocked(r) == \E p \in Requests : pc[p] = "marked" /\ target[p] = r
\* ... and so does the DELETE of a staged import that was still there.
ImportLocked(i) ==
    /\ imports[i].life = "present"
    /\ \E p \in Requests : pc[p] = "removed" /\ target[p] = i

InFlight == Cardinality({p \in Requests : pc[p] # "idle"})
RoomForBooking == Len(bookings) + InFlight < MaxBookings

-----------------------------------------------------------------------------
(* Single-statement handlers.                                              *)

\* The rows that INSERT and UPDATE leave in the receipts: the UPDATE overwrites
\* every column with what the client sent, is_booked included.
FreshReceipt(booked, position) ==
    [life |-> "present", booked |-> booked, position |-> position, edition |-> 0]
EditedReceipt(r, booked, position) ==
    [life |-> "present", booked |-> booked, position |-> position,
     edition |-> receipts[r].edition + 1]

\* ON DELETE SET NULL: bookings keep their rows and lose the link.
UnlinkReceipt(r) ==
    [k \in DOMAIN bookings |->
       IF bookings[k].receipt = r THEN [bookings[k] EXCEPT !.receipt = NULL] ELSE bookings[k]]
UnlinkAccount(a) ==
    [k \in DOMAIN bookings |->
       IF bookings[k].bank = a THEN [bookings[k] EXCEPT !.bank = NULL] ELSE bookings[k]]

\* POST /finance/bank-accounts
CreateAccount(a) ==
    /\ accounts[a] = "unused"
    /\ accounts' = [accounts EXCEPT ![a] = "present"]
    /\ UNCHANGED <<receipts, bookings, imports, clearedAt, discarded, locals>>

\* DELETE /finance/bank-accounts/{id}: every reference to it is SET NULL.
\* It waits for transactions that reference the account or hold a staged row of it.
DeleteAccount(a) ==
    /\ accounts[a] = "present"
    /\ ~AccountShared(a)
    /\ \A i \in Imports : imports[i].bank = a => ~ImportLocked(i)
    /\ accounts' = [accounts EXCEPT ![a] = "deleted"]
    /\ bookings' = UnlinkAccount(a)
    /\ imports' = [i \in Imports |->
                     IF imports[i].bank = a THEN [imports[i] EXCEPT !.bank = NULL]
                                            ELSE imports[i]]
    /\ UNCHANGED <<receipts, clearedAt, discarded, locals>>

\* POST /finance/receipts: is_booked is whatever the client sends.
CreateReceipt(r, booked, position) ==
    /\ receipts[r].life = "unused"
    /\ receipts' = [receipts EXCEPT ![r] = FreshReceipt(booked, position)]
    /\ UNCHANGED <<bookings, imports, accounts, clearedAt, discarded, locals>>

\* PUT /finance/receipts/{id}: it waits while a booking transaction has the row locked.
UpdateReceipt(r, booked, position) ==
    /\ receipts[r].life = "present"
    /\ receipts[r].edition < MaxEdits
    /\ ~ReceiptLocked(r)
    /\ receipts' = [receipts EXCEPT ![r] = EditedReceipt(r, booked, position)]
    /\ clearedAt' = [clearedAt EXCEPT ![r] = IF booked THEN @ ELSE Len(bookings)]
    /\ UNCHANGED <<bookings, imports, accounts, discarded, locals>>

\* Slip: ON DELETE CASCADE in place of ON DELETE SET NULL.
CascadeReceipt(r) ==
    /\ receipts[r].life = "present"
    /\ ~ReceiptShared(r)
    /\ receipts' = [receipts EXCEPT ![r].life = "deleted"]
    /\ bookings' = SelectSeq(bookings, LAMBDA b : b.receipt # r)
    /\ UNCHANGED <<imports, accounts, clearedAt, discarded, locals>>

\* DELETE /finance/receipts/{id}
DeleteReceipt(r) ==
    /\ receipts[r].life = "present"
    /\ ~ReceiptShared(r)
    /\ receipts' = [receipts EXCEPT ![r].life = "deleted"]
    /\ bookings' = UnlinkReceipt(r)
    /\ UNCHANGED <<imports, accounts, clearedAt, discarded, locals>>

\* PUT /finance/bookings/{id}: only the assigned booking account can change.
UpdateBooking(k, position) ==
    /\ bookings' = [bookings EXCEPT ![k].assigned = position]
    /\ UNCHANGED <<receipts, imports, accounts, clearedAt, discarded, locals>>

\* One row of POST /finance/import/bookings; the bank account is found by IBAN.
StageImport(i, bank) ==
    /\ imports[i].life = "unused"
    /\ imports' = [imports EXCEPT ![i] = [life |-> "present", bank |-> bank]]
    /\ UNCHANGED <<receipts, bookings, accounts, clearedAt, discarded, locals>>

\* PUT /finance/import/bookings/{id}
UpdateImport(i, bank) ==
    /\ imports[i].life = "present"
    /\ ~ImportLocked(i)
    /\ imports' = [imports EXCEPT ![i].bank = bank]
    /\ UNCHANGED <<receipts, bookings, accounts, clearedAt, discarded, locals>>

\* DELETE /finance/import/bookings/{id}
DiscardImport(i) ==
    /\ imports[i].life = "present"
    /\ ~ImportLocked(i)
    /\ imports' = [imports EXCEPT ![i].life = "deleted"]
    /\ discarded' = discarded \cup {i}
    /\ UNCHANGED <<receipts, bookings, accounts, clearedAt, locals>>

-----------------------------------------------------------------------------
(* POST /finance/receipts/{id}/book, statement by statement.               *)

\* Slip: the handler does not look at is_booked.
AnyReceipt(r) == receipts[r].life = "present"

\* handleBookReceipt goes on only with a receipt that is there and not booked.
Bookable(r) ==
    /\ receipts[r].life = "present"
    /\ ~receipts[r].booked

\* Slip: the two ids of the booking are mixed up.
SwappedIds(r) ==
    [origin |-> r, receipt |-> receipts[r].position, bank |-> NULL, assigned |-> r,
     readAt |-> Len(bookings), edition |-> receipts[r].edition]

\* The row handleBookReceipt makes of what GetReceipt returned.
ReceiptBooking(r) ==
    [origin |-> r, receipt |-> r, bank |-> NULL, assigned |-> receipts[r].position,
     readAt |-> Len(bookings), edition |-> receipts[r].edition]

\* GetReceipt takes no lock.  What it returned is all the handler uses later.
BookReceiptRead(p, r) ==
    /\ pc[p] = "idle"
    /\ RoomForBooking
    /\ Bookable(r)
    /\ pc' = [pc EXCEPT ![p] = "read"]
    /\ target' = [target EXCEPT ![p] = r]
    /\ draft' = [draft EXCEPT ![p] = ReceiptBooking(r)]
    /\ reply' = [reply EXCEPT ![p] = "none"]
    /\ UNCHANGED tables

\* 404 if there is no such receipt, 400 if it is booked already.
BookReceiptRefuse(p, r) ==
    /\ pc[p] = "idle"
    /\ receipts[r].life # "unused"
    /\ receipts[r].life = "deleted" \/ receipts[r].booked
    /\ target' = [target EXCEPT ![p] = r]
    /\ reply' = [reply EXCEPT ![p] = IF receipts[r].life = "deleted" THEN "404" ELSE "400"]
    /\ UNCHANGED <<tables, pc, draft>>

\* CreateBooking: the foreign key needs the receipt to be there still.
BookReceiptInsert(p) ==
    /\ pc[p] = "read"
    /\ receipts[target[p]].life = "present"
    /\ pc' = [pc EXCEPT ![p] = "inserted"]
    /\ UNCHANGED <<tables, target, draft, reply>>

\* CreateBooking fails on the foreign key and the handler answers 500.
BookReceiptOrphaned(p) ==
    /\ pc[p] = "read"
    /\ receipts[target[p]].life # "present"
    /\ pc' = [pc EXCEPT ![p] = "idle"]
    /\ draft' = [draft EXCEPT ![p] = Blank]
    /\ reply' = [reply EXCEPT ![p] = "500"]
    /\ UNCHANGED <<tables, target>>

\* Slip: SetReceiptBooked runs on the pool and not on the transaction.
MarkOutsideTransaction(p) ==
    /\ pc[p] = "inserted"
    /\ ~ReceiptLocked(target[p])
    /\ pc' = [pc EXCEPT ![p] = "marked"]
    /\ receipts' = [receipts EXCEPT ![target[p]].booked = TRUE]
    /\ UNCHANGED <<bookings, imports, accounts, clearedAt, discarded, target, draft, reply>>

\* Slip: GetReceipt locks FOR SHARE, so the UPDATE waits for every other reader.
MarkAlone(p) ==
    /\ pc[p] = "inserted"
    /\ \A q \in Requests \ {p} : pc[q] = "idle" \/ target[q] # target[p]
    /\ pc' = [pc EXCEPT ![p] = "marked"]
    /\ UNCHANGED <<tables, target, draft, reply>>

\* SetReceiptBooked: waits for another transaction that has updated the row.
BookReceiptMark(p) ==
    /\ pc[p] = "inserted"
    /\ ~ReceiptLocked(target[p])
    /\ pc' = [pc EXCEPT ![p] = "marked"]
    /\ UNCHANGED <<tables, target, draft, reply>>

\* Slip: the flag is not stored.
UnmarkedRow(p) == receipts[target[p]]
\* Slip: the whole row that GetReceipt returned is written back.
StaleRow(p) == [receipts[target[p]] EXCEPT !.booked = TRUE, !.edition = draft[p].edition,
                                           !.position = draft[p].assigned]

\* The row SetReceiptBooked leaves behind: its newest version with the flag set.
BookedRow(p) == [receipts[target[p]] EXCEPT !.booked = TRUE]

-----------------------------------------------------------------------------
(* POST /finance/import/bookings/{id}/commit, statement by statement.      *)

\* The row handleCommitImportBooking makes of the request body.
ImportBooking(i, a) ==
    [origin |-> i, receipt |-> NULL, bank |-> a, assigned |-> NULL,
     readAt |-> Len(bookings), edition |-> 0]

\* CreateBooking from the request body: the staged row is not read, the bank
\* account must exist.  The client knows the id from an earlier listing.
CommitImportInsert(p, i, a) ==
    /\ pc[p] = "idle"
    /\ RoomForBooking
    /\ imports[i].life # "unused"
    /\ accounts[a] = "present"
    /\ pc' = [pc EXCEPT ![p] = "posted"]
    /\ target' = [target EXCEPT ![p] = i]
    /\ draft' = [draft EXCEPT ![p] = ImportBooking(i, a)]
    /\ reply' = [reply EXCEPT ![p] = "none"]
    /\ UNCHANGED tables

\* The bank account of the request is unknown to the database: 500.
CommitImportRejected(p, i, a) ==
    /\ pc[p] = "idle"
    /\ imports[i].life # "unused"
    /\ accounts[a] # "present"
    /\ target' = [target EXCEPT ![p] = i]
    /\ reply' = [reply EXCEPT ![p] = "500"]
    /\ UNCHANGED <<tables, pc, draft>>

\* Slip: the import is deleted on the pool and not on the transaction.
RemoveOutsideTransaction(p) ==
    /\ pc[p] = "posted"
    /\ ~ImportLocked(target[p])
    /\ pc' = [pc EXCEPT ![p] = "removed"]
    /\ imports' = [imports EXCEPT ![target[p]].life = "deleted"]
    /\ UNCHANGED <<receipts, bookings, accounts, clearedAt, discarded, target, draft, reply>>

\* DeleteBankBookingImport: waits for another transaction that deletes the row;
\* that no row is left to delete goes unnoticed.
CommitImportRemove(p) ==
    /\ pc[p] = "posted"
    /\ ~ImportLocked(target[p])
    /\ pc' = [pc EXCEPT ![p] = "removed"]
    /\ UNCHANGED <<tables, target, draft, reply>>

-----------------------------------------------------------------------------
(* The end of either transaction.                                          *)

\* COMMIT makes the writes of the transaction visible, all at once.
Apply(p) ==
    /\ bookings' = Append(bookings, draft[p])
    /\ \/ /\ pc[p] = "marked"
          /\ receipts' = [receipts EXCEPT ![target[p]] = BookedRow(p)]
          /\ UNCHANGED imports
       \/ /\ pc[p] = "removed"
          /\ imports' = [imports EXCEPT ![target[p]].life = "deleted"]
          /\ UNCHANGED receipts
    /\ pc' = [pc EXCEPT ![p] = "idle"]
    /\ draft' = [draft EXCEPT ![p] = Blank]
    /\ UNCHANGED <<accounts, clearedAt, discarded, target>>

Commit(p) ==
    /\ Apply(p)
    /\ reply' = [reply EXCEPT ![p] = "200"]

\* The commit took effect, but its answer was lost with the client's connection.
CommitUnacknowledged(p) ==
    /\ Apply(p)
    /\ reply' = [reply EXCEPT ![p] = "500"]

\* Slip: the error of Commit is not looked at.
AbortUnnoticed(p) ==
    /\ pc[p] # "idle"
    /\ pc' = [pc EXCEPT ![p] = "idle"]
    /\ draft' = [draft EXCEPT ![p] = Blank]
    /\ reply' = [reply EXCEPT ![p] = "200"]
    /\ UNCHANGED <<tables, target>>

\* The client hangs up, a statement fails or the server goes down: rollback.
Abort(p) ==
    /\ pc[p] # "idle"
    /\ pc' = [pc EXCEPT ![p] = "idle"]
    /\ draft' = [draft EXCEPT ![p] = Blank]
    /\ reply' = [reply EXCEPT ![p] = "500"]
    /\ UNCHANGED <<tables, target>>

-----------------------------------------------------------------------------
EditTables ==
    \/ \E a \in Accounts : CreateAccount(a) \/ DeleteAccount(a)
    \/ \E r \in Receipts, booked \in BOOLEAN, position \in Positions \cup {NULL} :
         CreateReceipt(r, booked, position) \/ UpdateReceipt(r, booked, position)
    \/ \E r \in Receipts : DeleteReceipt(r)
    \/ \E k \in DOMAIN bookings, position \in Positions \cup {NULL} :
         UpdateBooking(k, position)
    \/ \E i \in Imports, bank \in PresentAccounts \cup {NULL} :
         StageImport(i, bank) \/ UpdateImport(i, bank)
    \/ \E i \in Imports : DiscardImport(i)

Start(p) ==
    \/ \E r \in Receipts : BookReceiptRead(p, r) \/ BookReceiptRefuse(p, r)
    \/ \E i \in Imports, a \in Accounts :
         CommitImportInsert(p, i, a) \/ CommitImportRejected(p, i, a)

Continue(p) ==
    \/ BookReceiptInsert(p) \/ BookReceiptOrphaned(p) \/ BookReceiptMark(p)
    \/ CommitImportRemove(p) \/ Commit(p)

Next ==
    \/ EditTables
    \/ \E p \in Requests : Start(p) \/ Continue(p) \/ CommitUnacknowledged(p) \/ Abort(p)

Spec == Init /\ [][Next]_vars

\* A goroutine that can go on does, and PostgreSQL grants a row lock to its
\* waiters in turn, so a request is not passed over for ever.
FairSpec == Spec /\ \A p \in Requests : SF_vars(Continue(p))

-----------------------------------------------------------------------------
(* Properties.                                                             *)

\* Every table row and every request has the shape the code gives it.
TypeOK ==
    /\ receipts \in [Receipts -> Receipt]
    /\ bookings \in Seq(Booking)
    /\ imports \in [Imports -> Import]
    /\ accounts \in [Accounts -> Life]
    /\ pc \in [Requests -> PC]
    /\ target \in [Requests -> Receipts \cup Imports \cup {NULL}]
    /\ draft \in [Requests -> Booking]
    /\ reply \in [Requests -> {"none", "200", "400", "404", "500"}]
    /\ clearedAt \in [Receipts -> Nat]
    /\ discarded \subseteq Imports

\* Bookings and staged imports refer only to receipts and bank accounts that
\* still exist, whatever is deleted while a transaction is about to refer to it
\* (ON DELETE SET NULL against handleBookReceipt and handleCommitImportBooking).
NoDanglingLinks ==
    /\ \A k \in DOMAIN bookings :
         /\ bookings[k].receipt # NULL => receipts[bookings[k].receipt].life = "present"
         /\ bookings[k].bank # NULL => accounts[bookings[k].bank] = "present"
    /\ \A i \in Imports : imports[i].bank # NULL => accounts[imports[i].bank] = "present"

\* Once a booking made from a receipt is visible, the receipt reads as booked
\* until somebody stores is_booked = FALSE by hand: the reader that decides on
\* is_booked in handleBookReceipt cannot miss a committed booking.
FlagFollowsBooking ==
    \A k \in DOMAIN bookings :
        LET r == bookings[k].receipt IN
        r # NULL => receipts[r].booked \/ clearedAt[r] >= k

\* Two bookings of one receipt (j after i) come only from requests that
\* overlapped (j read the receipt before i was committed) or from an is_booked
\* that was reset by hand in between: no sequence of book requests made one
\* after the other, retries after a lost answer included, books twice.
NoSerialDoubleBooking ==
    \A i, j \in DOMAIN bookings :
        (i < j /\ bookings[i].receipt # NULL /\ bookings[i].receipt = bookings[j].receipt)
          => bookings[j].readAt < i \/ clearedAt[bookings[j].receipt] >= i

\* No staged bank movement gets lost: an import that has left the staging table
\* was discarded by hand or is in the bookings, across aborts, lost answers and
\* concurrent commits of the same import.
ImportsAccountedFor ==
    \A i \in Imports :
        imports[i].life = "deleted" =>
          i \in discarded \/ \E k \in DOMAIN bookings : bookings[k].origin = i

\* A request that was answered 200 has its booking in the table for good.
AcknowledgedIsRecorded ==
    \A p \in Requests :
        reply[p] = "200" => \E k \in DOMAIN bookings : bookings[k].origin = target[p]

\* Committed bookings are never removed, reordered or given another content,
\* whichever row they refer to disappears; only links go NULL and the assigned
\* account changes.
LedgerAppendOnly ==
    [][/\ Len(bookings') >= Len(bookings)
       /\ \A k \in DOMAIN bookings :
            /\ bookings'[k].origin = bookings[k].origin
            /\ bookings'[k].edition = bookings[k].edition
            /\ bookings'[k].receipt \in {bookings[k].receipt, NULL}
            /\ bookings'[k].bank \in {bookings[k].bank, NULL}]_vars

\* Booking a receipt never takes back a hand edit that was stored while the
\* booking request was under way (SetReceiptBooked writes one column, not the
\* row that GetReceipt returned).
EditsSurvive ==
    [][\A r \in Receipts :
         /\ receipts'[r].edition >= receipts[r].edition
         /\ receipts'[r].edition = receipts[r].edition =>
              \/ receipts'[r].position = receipts[r].position
              \/ receipts[r].life = "unused"]_vars

\* A receipt turns from unbooked to booked only by hand or in the very step that
\* makes a booking of it visible.
FlagOnlyWithBooking ==
    [][\A r \in Receipts :
         (receipts[r].life = "present" /\ ~receipts[r].booked /\ receipts'[r].booked)
           => \/ receipts'[r].edition # receipts[r].edition
              \/ \E k \in DOMAIN bookings' \ DOMAIN bookings : bookings'[k].receipt = r]_vars

-----------------------------------------------------------------------------
(* The inductive invariant behind the properties above.                    *)

\* What a request knows by the place it stands at: the row it is about to commit
\* is made from its target, and the locks it holds keep what it refers to alive.
RequestConsistent(p) ==
    /\ pc[p] \in {"read", "inserted", "marked"} =>
         /\ target[p] \in Receipts
         /\ draft[p].origin = target[p]
         /\ draft[p].receipt = target[p]
         /\ draft[p].bank = NULL
         /\ draft[p].readAt <= Len(bookings)
    /\ pc[p] \in {"inserted", "marked"} => receipts[target[p]].life = "present"
    /\ pc[p] \in {"posted", "removed"} =>
         /\ target[p] \in Imports
         /\ draft[p].origin = target[p]
         /\ draft[p].receipt = NULL
         /\ draft[p].bank \in Accounts
         /\ accounts[draft[p].bank] = "present"

RequestsConsistent == \A p \in Requests : RequestConsistent(p)

\* A request that found its receipt unbooked was right to: every booking of the
\* receipt that it could see had been followed by a reset of is_booked.
SnapshotWasRight ==
    \A p \in Requests : pc[p] \in {"read", "inserted", "marked"} =>
        \A k \in DOMAIN bookings :
            (bookings[k].receipt = target[p] /\ k <= draft[p].readAt)
              => clearedAt[target[p]] >= k

\* Lives run forward: an unused receipt has not been edited, a discarded import
\* does not come back.
LivesRunForward ==
    /\ \A r \in Receipts : receipts[r].life = "unused" => receipts[r].edition = 0
    /\ \A i \in discarded : imports[i].life = "deleted"

IInv ==
    /\ TypeOK
    /\ LivesRunForward
    /\ RequestsConsistent
    /\ NoDanglingLinks
    /\ FlagFollowsBooking
    /\ SnapshotWasRight
    /\ NoSerialDoubleBooking
    /\ ImportsAccountedFor
    /\ AcknowledgedIsRecorded

-----------------------------------------------------------------------------
\* The code implements the atomic journal: what Commit makes visible is one step
\* of Journal, and no other statement of a transaction is visible at all.
J == INSTANCE Journal WITH
       journal <- [k \in DOMAIN bookings |-> bookings[k].origin],
       settled <- {r \in Receipts : receipts[r].life = "present" /\ receipts[r].booked},
       removed <- {r \in Receipts : receipts[r].life = "deleted"},
       edits <- [r \in Receipts |-> receipts[r].edition],
       staged <- {i \in Imports : imports[i].life = "present"},
       discarded <- discarded

JournalSpec == J!Spec

\* Every request that opened a transaction ends it: waiting for row locks never
\* turns into waiting for ever.
RequestsTerminate == \A p \in Requests : pc[p] # "idle" ~> pc[p] = "idle"

-----------------------------------------------------------------------------
(* Claims of the documentation that the code does not keep.                *)

\* "400 Bad Request: If receipt is already booked": a receipt nobody has reset
\* by hand is booked at most once.
BookedAtMostOnce ==
    \A i, j \in DOMAIN bookings :
        (i < j /\ bookings[i].receipt # NULL /\ bookings[i].receipt = bookings[j].receipt)
          => clearedAt[bookings[j].receipt] >= i

\* "Creates a confirmed booking from the import record and removes the import
\* record": one import record becomes at most one booking.
ImportCommittedOnce ==
    \A i, j \in DOMAIN bookings :
        (bookings[i].origin \in Imports /\ bookings[i].origin = bookings[j].origin) => i = j
=============================================================================
