------------------------ MODULE FinanceLedgerProofs ------------------------
(***************************************************************************)
(* Machine-checked proofs about FinanceLedger, for any number of requests, *)
(* receipts, imports, accounts and booking accounts and for any bounds.    *)
(***************************************************************************)
EXTENDS FinanceLedger, SequenceTheorems, TLAPS

\* A function on the indices of a sequence is a sequence of the same length.
LEMMA SeqFromFunction ==
    ASSUME NEW S, NEW T, NEW s \in Seq(S), NEW f \in [DOMAIN s -> T]
    PROVE  f \in Seq(T) /\ Len(f) = Len(s) /\ DOMAIN f = 1 .. Len(s)
<1>1. Len(s) \in Nat /\ DOMAIN s = 1 .. Len(s)
  OBVIOUS
<1>2. f \in Seq(T)
  BY <1>1
<1>. QED
  BY <1>1, <1>2

\* Losing a link or changing its assignment keeps a row a booking.
LEMMA BookingExcept ==
    ASSUME NEW b \in Booking
    PROVE  /\ [b EXCEPT !.bank = NULL] \in Booking
           /\ [b EXCEPT !.receipt = NULL] \in Booking
           /\ \A position \in Positions \cup {NULL} :
                [b EXCEPT !.assigned = position] \in Booking
BY DEF Booking

LEMMA BookingRow ==
    ASSUME bookings \in Seq(Booking)
    PROVE  \A k \in DOMAIN bookings : bookings[k] \in Booking
OBVIOUS

\* The rows of bookings after one of the updates that keeps every row.
LEMMA TypeDeleteAccount ==
    ASSUME TypeOK, NEW a \in Accounts, DeleteAccount(a)
    PROVE  TypeOK'
<1>1. bookings' \in [DOMAIN bookings -> Booking]
  BY BookingExcept, BookingRow DEF DeleteAccount, UnlinkAccount, TypeOK
<1>2. bookings' \in Seq(Booking)
  BY <1>1, SeqFromFunction DEF TypeOK
<1>3. imports' \in [Imports -> Import]
  BY DEF DeleteAccount, UnlinkAccount, TypeOK, Import
<1>. QED
  BY <1>2, <1>3 DEF DeleteAccount, UnlinkAccount, TypeOK, Life, locals

LEMMA TypeDeleteReceipt ==
    ASSUME TypeOK, NEW r \in Receipts, DeleteReceipt(r)
    PROVE  TypeOK'
<1>1. bookings' \in [DOMAIN bookings -> Booking]
  BY BookingExcept, BookingRow DEF DeleteReceipt, UnlinkReceipt, TypeOK
<1>2. bookings' \in Seq(Booking)
  BY <1>1, SeqFromFunction DEF TypeOK
<1>. QED
  BY <1>2 DEF DeleteReceipt, UnlinkReceipt, TypeOK, Receipt, Life, locals

LEMMA TypeUpdateBooking ==
    ASSUME TypeOK, NEW k \in DOMAIN bookings, NEW position \in Positions \cup {NULL},
           UpdateBooking(k, position)
    PROVE  TypeOK'
<1>1. bookings' \in [DOMAIN bookings -> Booking]
  BY BookingExcept, BookingRow DEF UpdateBooking, TypeOK
<1>2. bookings' \in Seq(Booking)
  BY <1>1, SeqFromFunction DEF TypeOK
<1>. QED
  BY <1>2 DEF UpdateBooking, TypeOK, locals

LEMMA TypeApply ==
    ASSUME TypeOK, NEW p \in Requests, Apply(p),
           reply' \in [Requests -> {"none", "200", "400", "404", "500"}]
    PROVE  TypeOK'
<1>1. bookings' \in Seq(Booking)
  BY DEF Apply, TypeOK
<1>2. receipts' \in [Receipts -> Receipt] /\ imports' \in [Imports -> Import]
  <2>1. ASSUME target[p] \in Receipts
        PROVE  BookedRow(p) \in Receipt
    <3>1. receipts[target[p]] \in Receipt
      BY <2>1 DEF TypeOK
    <3>. QED
      BY <3>1 DEF BookedRow, Receipt
  <2>2. ASSUME target[p] \in Imports
        PROVE  [imports[target[p]] EXCEPT !.life = "deleted"] \in Import
    <3>1. imports[target[p]] \in Import
      BY <2>2 DEF TypeOK
    <3>. QED
      BY <3>1 DEF Import, Life
  <2>3. CASE pc[p] = "marked"
    BY <2>1, <2>3 DEF Apply, TypeOK
  <2>4. CASE pc[p] = "removed"
    <3>1. /\ receipts' = receipts
          /\ imports' = [imports EXCEPT ![target[p]] =
                           [imports[target[p]] EXCEPT !.life = "deleted"]]
      BY <2>4 DEF Apply
    <3>. QED
      BY <2>2, <3>1 DEF TypeOK
  <2>. QED
    BY <2>3, <2>4 DEF Apply
<1>3. pc' \in [Requests -> PC] /\ draft' \in [Requests -> Booking]
  BY DEF Apply, TypeOK, PC, Booking, Blank
<1>. QED
  BY <1>1, <1>2, <1>3 DEF Apply, TypeOK
LEMMA TypeEditTables ==
    ASSUME TypeOK, EditTables
    PROVE  TypeOK'
<1>1. ASSUME NEW a \in Accounts, CreateAccount(a)  PROVE TypeOK'
  BY <1>1 DEF CreateAccount, TypeOK, Life, locals
<1>2. ASSUME NEW r \in Receipts, NEW booked \in BOOLEAN,
             NEW position \in Positions \cup {NULL}, CreateReceipt(r, booked, position)
      PROVE  TypeOK'
  BY <1>2 DEF CreateReceipt, FreshReceipt, TypeOK, Receipt, Life, locals
<1>3. ASSUME NEW r \in Receipts, NEW booked \in BOOLEAN,
             NEW position \in Positions \cup {NULL}, UpdateReceipt(r, booked, position)
      PROVE  TypeOK'
  BY <1>3 DEF UpdateReceipt, EditedReceipt, TypeOK, Receipt, Life, locals
<1>4. ASSUME NEW i \in Imports, NEW bank \in PresentAccounts \cup {NULL}, StageImport(i, bank)
      PROVE  TypeOK'
  BY <1>4 DEF StageImport, TypeOK, Import, Life, PresentAccounts, locals
<1>5. ASSUME NEW i \in Imports, NEW bank \in PresentAccounts \cup {NULL}, UpdateImport(i, bank)
      PROVE  TypeOK'
  BY <1>5 DEF UpdateImport, TypeOK, Import, Life, PresentAccounts, locals
<1>6. ASSUME NEW i \in Imports, DiscardImport(i)  PROVE TypeOK'
  BY <1>6 DEF DiscardImport, TypeOK, Import, Life, locals
<1>. QED
  BY <1>1, <1>2, <1>3, <1>4, <1>5, <1>6, TypeDeleteAccount, TypeDeleteReceipt,
     TypeUpdateBooking DEF EditTables

LEMMA TypeRequest ==
    ASSUME TypeOK, NEW p \in Requests,
           Start(p) \/ Continue(p) \/ CommitUnacknowledged(p) \/ Abort(p)
    PROVE  TypeOK'
<1>1. ASSUME NEW r \in Receipts, BookReceiptRead(p, r)  PROVE TypeOK'
  BY <1>1 DEF BookReceiptRead, ReceiptBooking, Bookable, TypeOK, Receipt, Booking, PC, tables
<1>2. ASSUME NEW r \in Receipts, BookReceiptRefuse(p, r)  PROVE TypeOK'
  BY <1>2 DEF BookReceiptRefuse, TypeOK, tables
<1>3. ASSUME NEW i \in Imports, NEW a \in Accounts, CommitImportInsert(p, i, a)
      PROVE  TypeOK'
  BY <1>3 DEF CommitImportInsert, ImportBooking, TypeOK, Booking, PC, tables
<1>4. ASSUME NEW i \in Imports, NEW a \in Accounts, CommitImportRejected(p, i, a)
      PROVE  TypeOK'
  BY <1>4 DEF CommitImportRejected, TypeOK, tables
<1>5. CASE BookReceiptInsert(p) \/ BookReceiptMark(p) \/ CommitImportRemove(p)
  BY <1>5 DEF BookReceiptInsert, BookReceiptMark, CommitImportRemove, TypeOK, PC, tables
<1>6. CASE BookReceiptOrphaned(p) \/ Abort(p)
  <2>1. Blank \in Booking
    BY DEF Blank, Booking
  <2>. QED
    BY <1>6, <2>1 DEF BookReceiptOrphaned, Abort, TypeOK, PC, tables
<1>7. CASE Commit(p) \/ CommitUnacknowledged(p)
  <2>1. Apply(p)
    BY <1>7 DEF Commit, CommitUnacknowledged
  <2>2. reply' \in [Requests -> {"none", "200", "400", "404", "500"}]
    BY <1>7 DEF Commit, CommitUnacknowledged, TypeOK
  <2>. QED
    BY <2>1, <2>2, TypeApply
<1>. QED
  BY <1>1, <1>2, <1>3, <1>4, <1>5, <1>6, <1>7 DEF Start, Continue

LEMMA TypeInit == Init => TypeOK
BY DEF Init, TypeOK, Receipt, Import, Booking, Blank, Life, PC

LEMMA TypeNext == TypeOK /\ [Next]_vars => TypeOK'
<1>1. CASE UNCHANGED vars
  BY <1>1 DEF vars, TypeOK
<1>. QED
  BY <1>1, TypeEditTables, TypeRequest DEF Next

\* Every reachable state is well typed.
THEOREM TypeCorrect == Spec => []TypeOK
BY TypeInit, TypeNext, PTL DEF Spec
-----------------------------------------------------------------------------
(* How a step can change the table bookings: an edit keeps the rows and at  *)
(* most takes links away, a commit adds one row, nothing else touches it.   *)

RowsKept ==
    /\ Len(bookings') = Len(bookings)
    /\ DOMAIN bookings' = DOMAIN bookings
    /\ \A k \in DOMAIN bookings :
         /\ bookings'[k].origin = bookings[k].origin
         /\ bookings'[k].readAt = bookings[k].readAt
         /\ bookings'[k].edition = bookings[k].edition
         /\ bookings'[k].receipt \in {bookings[k].receipt, NULL}
         /\ bookings'[k].bank \in {bookings[k].bank, NULL}

RowAdded(p) ==
    /\ Len(bookings') = Len(bookings) + 1
    /\ DOMAIN bookings' = DOMAIN bookings \cup {Len(bookings) + 1}
    /\ \A k \in DOMAIN bookings : bookings'[k] = bookings[k]
    /\ bookings'[Len(bookings) + 1] = draft[p]

LEMMA BookingsDomain ==
    ASSUME TypeOK
    PROVE  /\ Len(bookings) \in Nat
           /\ DOMAIN bookings = 1 .. Len(bookings)
           /\ DOMAIN bookings \subseteq Nat
           /\ Len(bookings) + 1 \notin DOMAIN bookings
           /\ \A k \in DOMAIN bookings : k <= Len(bookings) /\ bookings[k] \in Booking
BY DEF TypeOK

LEMMA UnchangedRowsKept ==
    ASSUME TypeOK, bookings' = bookings
    PROVE  RowsKept
BY DEF RowsKept

LEMMA EditKeepsRows ==
    ASSUME TypeOK, EditTables
    PROVE  RowsKept
<1>1. ASSUME NEW a \in Accounts, DeleteAccount(a)
      PROVE  RowsKept
  <2>1. bookings' \in [DOMAIN bookings -> Booking]
    BY <1>1, BookingExcept, BookingRow DEF DeleteAccount, UnlinkAccount, TypeOK
  <2>2. Len(bookings') = Len(bookings) /\ DOMAIN bookings' = DOMAIN bookings
    BY <2>1, SeqFromFunction DEF TypeOK
  <2>3. \A k \in DOMAIN bookings : bookings[k] \in Booking
    BY BookingRow DEF TypeOK
  <2>. QED
    BY <1>1, <2>2, <2>3 DEF DeleteAccount, UnlinkAccount, RowsKept, Booking
<1>2. ASSUME NEW r \in Receipts, DeleteReceipt(r)
      PROVE  RowsKept
  <2>1. bookings' \in [DOMAIN bookings -> Booking]
    BY <1>2, BookingExcept, BookingRow DEF DeleteReceipt, UnlinkReceipt, TypeOK
  <2>2. Len(bookings') = Len(bookings) /\ DOMAIN bookings' = DOMAIN bookings
    BY <2>1, SeqFromFunction DEF TypeOK
  <2>3. \A k \in DOMAIN bookings : bookings[k] \in Booking
    BY BookingRow DEF TypeOK
  <2>. QED
    BY <1>2, <2>2, <2>3 DEF DeleteReceipt, UnlinkReceipt, RowsKept, Booking
<1>3. ASSUME NEW k \in DOMAIN bookings, NEW position \in Positions \cup {NULL},
             UpdateBooking(k, position)
      PROVE  RowsKept
  <2>1. bookings' \in [DOMAIN bookings -> Booking]
    BY <1>3, BookingExcept, BookingRow DEF UpdateBooking, TypeOK
  <2>2. Len(bookings') = Len(bookings) /\ DOMAIN bookings' = DOMAIN bookings
    BY <2>1, SeqFromFunction DEF TypeOK
  <2>3. \A j \in DOMAIN bookings : bookings[j] \in Booking
    BY BookingRow DEF TypeOK
  <2>. QED
    BY <1>3, <2>2, <2>3 DEF UpdateBooking, RowsKept, Booking
<1>4. CASE UNCHANGED bookings
  BY <1>4, UnchangedRowsKept
<1>. QED
  BY <1>1, <1>2, <1>3, <1>4
     DEF EditTables, CreateAccount, CreateReceipt, UpdateReceipt, StageImport,
         UpdateImport, DiscardImport

LEMMA ApplyAddsRow ==
    ASSUME TypeOK, NEW p \in Requests, Apply(p)
    PROVE  RowAdded(p)
<1>1. bookings' = Append(bookings, draft[p]) /\ draft[p] \in Booking /\ bookings \in Seq(Booking)
  BY DEF Apply, TypeOK
<1>. QED
  BY <1>1 DEF RowAdded
-----------------------------------------------------------------------------
(* RequestsConsistent is preserved.                                        *)

\* A commit changes no life but that of a committed import.
LEMMA ApplyKeepsLives ==
    ASSUME TypeOK, NEW p \in Requests, Apply(p)
    PROVE  /\ \A r \in Receipts : receipts'[r].life = receipts[r].life
           /\ accounts' = accounts /\ clearedAt' = clearedAt /\ discarded' = discarded
<1>1. CASE pc[p] = "marked"
  <2>1. receipts' = [receipts EXCEPT ![target[p]] = BookedRow(p)]
    BY <1>1 DEF Apply
  <2>2. \A r \in Receipts : receipts[r] \in Receipt
    BY DEF TypeOK
  <2>. QED
    BY <2>1, <2>2 DEF Apply, BookedRow, Receipt, TypeOK
<1>2. CASE pc[p] # "marked"
  BY <1>2 DEF Apply
<1>. QED
  BY <1>1, <1>2

\* Hand edits respect the locks: what an open transaction refers to stays present.
LEMMA EditKeepsLocked ==
    ASSUME TypeOK, RequestsConsistent, EditTables, NEW p \in Requests
    PROVE  /\ pc[p] \in {"inserted", "marked"} => receipts'[target[p]].life = "present"
           /\ pc[p] \in {"posted", "removed"} => accounts'[draft[p].bank] = "present"
<1>1. ASSUME pc[p] \in {"inserted", "marked"}
      PROVE  receipts'[target[p]].life = "present"
  <2>1. target[p] \in Receipts /\ receipts[target[p]].life = "present" /\ ReceiptShared(target[p])
    BY <1>1 DEF RequestsConsistent, RequestConsistent, ReceiptShared
  <2>2. ASSUME NEW r \in Receipts, NEW booked \in BOOLEAN, NEW position \in Positions \cup {NULL},
               CreateReceipt(r, booked, position) \/ UpdateReceipt(r, booked, position)
        PROVE  receipts'[target[p]].life = "present"
    <3>1. PICK edition : receipts' = [receipts EXCEPT ![r] =
                           [life |-> "present", booked |-> booked,
                            position |-> position, edition |-> edition]]
      BY <2>2 DEF CreateReceipt, FreshReceipt, UpdateReceipt, EditedReceipt
    <3>2. receipts'[target[p]] \in {receipts[target[p]],
                                   [life |-> "present", booked |-> booked,
                                    position |-> position, edition |-> edition]}
      BY <2>1, <3>1 DEF TypeOK
    <3>. QED
      BY <2>1, <3>2
  <2>3. ASSUME NEW r \in Receipts, DeleteReceipt(r)
        PROVE  receipts'[target[p]].life = "present"
    <3>1. r # target[p]
      BY <2>1, <2>3 DEF DeleteReceipt, UnlinkReceipt
    <3>. QED
      BY <2>1, <2>3, <3>1 DEF DeleteReceipt, UnlinkReceipt, TypeOK
  <2>4. CASE UNCHANGED receipts
    BY <2>1, <2>4
  <2>. QED
    BY <2>2, <2>3, <2>4 DEF EditTables, CreateAccount, DeleteAccount, UpdateBooking,
       StageImport, UpdateImport, DiscardImport
<1>2. ASSUME pc[p] \in {"posted", "removed"}
      PROVE  accounts'[draft[p].bank] = "present"
  <2>1. /\ draft[p].bank \in Accounts
        /\ accounts[draft[p].bank] = "present"
        /\ AccountShared(draft[p].bank)
    BY <1>2 DEF RequestsConsistent, RequestConsistent, AccountShared
  <2>2. ASSUME NEW a \in Accounts, CreateAccount(a)
        PROVE  accounts'[draft[p].bank] = "present"
    BY <2>1, <2>2 DEF CreateAccount, TypeOK
  <2>3. ASSUME NEW a \in Accounts, DeleteAccount(a)
        PROVE  accounts'[draft[p].bank] = "present"
    <3>1. a # draft[p].bank
      BY <2>1, <2>3 DEF DeleteAccount, UnlinkAccount
    <3>. QED
      BY <2>1, <2>3, <3>1 DEF DeleteAccount, UnlinkAccount, TypeOK
  <2>4. CASE UNCHANGED accounts
    BY <2>1, <2>4
  <2>. QED
    BY <2>2, <2>3, <2>4 DEF EditTables, CreateReceipt, UpdateReceipt, DeleteReceipt,
       UpdateBooking, StageImport, UpdateImport, DiscardImport
<1>. QED
  BY <1>1, <1>2

\* The local variables of other requests are left alone, and every step of a
\* request but the commit leaves the tables alone.
LEMMA RequestStep ==
    ASSUME TypeOK, NEW p \in Requests,
           Start(p) \/ Continue(p) \/ CommitUnacknowledged(p) \/ Abort(p)
    PROVE  /\ Apply(p) \/ UNCHANGED tables
           /\ \A q \in Requests \ {p} : /\ pc'[q] = pc[q]
                                        /\ target'[q] = target[q]
                                        /\ draft'[q] = draft[q]
                                        /\ reply'[q] = reply[q]
BY DEF TypeOK, Start, Continue, BookReceiptRead, ReceiptBooking, Bookable,
   BookReceiptRefuse, BookReceiptInsert, BookReceiptOrphaned, BookReceiptMark,
   CommitImportInsert, ImportBooking, CommitImportRejected, CommitImportRemove, Commit,
   CommitUnacknowledged, Apply, Abort

\* What the step of a request leaves in its own local variables.
LEMMA RequestConsistentOwn ==
    ASSUME TypeOK, RequestsConsistent, NEW p \in Requests,
           Start(p) \/ Continue(p) \/ CommitUnacknowledged(p) \/ Abort(p)
    PROVE  RequestConsistent(p)'
<1>0. RequestConsistent(p)
  BY DEF RequestsConsistent
<1>1. ASSUME NEW r \in Receipts, BookReceiptRead(p, r)
      PROVE  RequestConsistent(p)'
  BY <1>1, BookingsDomain DEF BookReceiptRead, ReceiptBooking, Bookable, RequestConsistent,
     TypeOK, tables
<1>2. ASSUME NEW r \in Receipts, BookReceiptRefuse(p, r)
      PROVE  RequestConsistent(p)'
  BY <1>2 DEF BookReceiptRefuse, RequestConsistent, TypeOK, tables
<1>3. ASSUME NEW i \in Imports, NEW a \in Accounts, CommitImportInsert(p, i, a)
      PROVE  RequestConsistent(p)'
  BY <1>3 DEF CommitImportInsert, ImportBooking, RequestConsistent, TypeOK, tables
<1>4. ASSUME NEW i \in Imports, NEW a \in Accounts, CommitImportRejected(p, i, a)
      PROVE  RequestConsistent(p)'
  BY <1>4 DEF CommitImportRejected, RequestConsistent, TypeOK, tables
<1>5. CASE BookReceiptInsert(p) \/ BookReceiptMark(p) \/ CommitImportRemove(p)
  BY <1>0, <1>5 DEF BookReceiptInsert, BookReceiptMark, CommitImportRemove,
     RequestConsistent, TypeOK, tables
<1>6. CASE BookReceiptOrphaned(p) \/ Abort(p) \/ Commit(p) \/ CommitUnacknowledged(p)
  <2>1. pc'[p] = "idle"
    BY <1>6 DEF BookReceiptOrphaned, Abort, Commit, CommitUnacknowledged, Apply, TypeOK
  <2>. QED
    BY <2>1 DEF RequestConsistent
<1>. QED
  BY <1>1, <1>2, <1>3, <1>4, <1>5, <1>6 DEF Start, Continue

LEMMA RequestsConsistentNext ==
    ASSUME TypeOK, RequestsConsistent, [Next]_vars
    PROVE  RequestsConsistent'
<1>1. CASE EditTables
  <2>1. UNCHANGED locals
    BY <1>1 DEF EditTables, CreateAccount, DeleteAccount, CreateReceipt, UpdateReceipt,
       DeleteReceipt, UpdateBooking, StageImport, UpdateImport, DiscardImport
  <2>2. SUFFICES ASSUME NEW p \in Requests
                 PROVE  RequestConsistent(p)'
    BY DEF RequestsConsistent
  <2>. QED
    BY <1>1, <2>1, EditKeepsLocked, EditKeepsRows
       DEF RequestsConsistent, RequestConsistent, RowsKept, locals
<1>2. ASSUME NEW p \in Requests,
             Start(p) \/ Continue(p) \/ CommitUnacknowledged(p) \/ Abort(p)
      PROVE  RequestsConsistent'
  <2>1. ASSUME NEW q \in Requests \ {p}
        PROVE  RequestConsistent(q)'
    <3>1. RequestConsistent(q)
      BY DEF RequestsConsistent
    <3>2. pc'[q] = pc[q] /\ target'[q] = target[q] /\ draft'[q] = draft[q]
      BY <1>2, RequestStep
    <3>3. accounts' = accounts /\ \A r \in Receipts : receipts'[r].life = receipts[r].life
      BY <1>2, RequestStep, ApplyKeepsLives DEF tables
    <3>4. draft[q].readAt \in Nat /\ Len(bookings) \in Nat
      BY BookingsDomain DEF TypeOK, Booking
    <3>5. Len(bookings') \in {Len(bookings), Len(bookings) + 1}
      BY <1>2, RequestStep, ApplyAddsRow DEF tables, RowAdded
    <3>. QED
      BY <3>1, <3>2, <3>3, <3>4, <3>5 DEF RequestConsistent
  <2>2. RequestConsistent(p)'
    BY <1>2, RequestConsistentOwn
  <2>. QED
    BY <2>1, <2>2 DEF RequestsConsistent
<1>3. CASE UNCHANGED vars
  BY <1>3 DEF vars, RequestsConsistent, RequestConsistent
<1>. QED
  BY <1>1, <1>2, <1>3 DEF Next
-----------------------------------------------------------------------------
(* Links never dangle.                                                     *)

BookingLinksHold ==
    \A k \in DOMAIN bookings :
         /\ bookings[k].receipt # NULL => receipts[bookings[k].receipt].life = "present"
         /\ bookings[k].bank # NULL => accounts[bookings[k].bank] = "present"

ImportLinksHold ==
    \A i \in Imports : imports[i].bank # NULL => accounts[imports[i].bank] = "present"

LEMMA LinksSplit == NoDanglingLinks <=> BookingLinksHold /\ ImportLinksHold
BY DEF NoDanglingLinks, BookingLinksHold, ImportLinksHold

\* Rows that lose no link keep their links valid while lives only begin.
LEMMA LinksKept ==
    ASSUME TypeOK, BookingLinksHold, RowsKept,
           \A r \in Receipts : receipts[r].life = "present" => receipts'[r].life = "present",
           \A a \in Accounts : accounts[a] = "present" => accounts'[a] = "present"
    PROVE  BookingLinksHold'
<1>. SUFFICES ASSUME NEW k \in DOMAIN bookings
              PROVE  /\ bookings'[k].receipt # NULL =>
                          receipts'[bookings'[k].receipt].life = "present"
                     /\ bookings'[k].bank # NULL => accounts'[bookings'[k].bank] = "present"
  BY DEF BookingLinksHold, RowsKept
<1>1. bookings[k] \in Booking
  BY BookingsDomain
<1>. QED
  BY <1>1 DEF RowsKept, BookingLinksHold, Booking

LEMMA LinksDeleteAccount ==
    ASSUME TypeOK, NoDanglingLinks, NEW a \in Accounts, DeleteAccount(a)
    PROVE  NoDanglingLinks'
<1>1. RowsKept
  BY EditKeepsRows DEF EditTables
<1>2. BookingLinksHold'
  <2>. SUFFICES ASSUME NEW k \in DOMAIN bookings
                PROVE  /\ bookings'[k].receipt # NULL =>
                            receipts'[bookings'[k].receipt].life = "present"
                       /\ bookings'[k].bank # NULL => accounts'[bookings'[k].bank] = "present"
    BY <1>1 DEF BookingLinksHold, RowsKept
  <2>1. bookings[k] \in Booking
    BY BookingsDomain
  <2>2. bookings'[k].bank # a
    BY <2>1, IdsDisjoint DEF DeleteAccount, UnlinkAccount, Booking
  <2>3. bookings'[k].bank # NULL => accounts'[bookings'[k].bank] = accounts[bookings'[k].bank]
    BY <1>1, <2>1, <2>2 DEF DeleteAccount, UnlinkAccount, Booking, RowsKept, TypeOK
  <2>. QED
    BY <1>1, <2>1, <2>3 DEF DeleteAccount, UnlinkAccount, NoDanglingLinks, RowsKept
<1>3. ImportLinksHold'
  <2>. SUFFICES ASSUME NEW i \in Imports, imports'[i].bank # NULL
                PROVE  accounts'[imports'[i].bank] = "present"
    BY DEF ImportLinksHold
  <2>1. imports[i] \in Import
    BY DEF TypeOK
  <2>2. imports'[i].bank # a /\ imports'[i].bank = imports[i].bank
    BY <2>1, IdsDisjoint DEF DeleteAccount, UnlinkAccount, Import
  <2>. QED
    BY <2>1, <2>2 DEF DeleteAccount, UnlinkAccount, NoDanglingLinks, Import, TypeOK
<1>. QED
  BY <1>2, <1>3, LinksSplit DEF NoDanglingLinks, BookingLinksHold, ImportLinksHold

LEMMA LinksDeleteReceipt ==
    ASSUME TypeOK, NoDanglingLinks, NEW r \in Receipts, DeleteReceipt(r)
    PROVE  NoDanglingLinks'
<1>1. RowsKept
  BY EditKeepsRows DEF EditTables
<1>2. BookingLinksHold'
  <2>. SUFFICES ASSUME NEW k \in DOMAIN bookings
                PROVE  /\ bookings'[k].receipt # NULL =>
                            receipts'[bookings'[k].receipt].life = "present"
                       /\ bookings'[k].bank # NULL => accounts'[bookings'[k].bank] = "present"
    BY <1>1 DEF BookingLinksHold, RowsKept
  <2>1. bookings[k] \in Booking
    BY BookingsDomain
  <2>2. bookings'[k].receipt # r
    BY <2>1, IdsDisjoint DEF DeleteReceipt, UnlinkReceipt, Booking
  <2>3. bookings'[k].receipt # NULL =>
          receipts'[bookings'[k].receipt] = receipts[bookings'[k].receipt]
    BY <1>1, <2>1, <2>2 DEF DeleteReceipt, UnlinkReceipt, Booking, RowsKept, TypeOK
  <2>. QED
    BY <1>1, <2>1, <2>3 DEF DeleteReceipt, UnlinkReceipt, NoDanglingLinks, RowsKept
<1>. QED
  BY <1>2 DEF NoDanglingLinks, BookingLinksHold, DeleteReceipt, UnlinkReceipt
\* The edits that end no life.
LEMMA LinksOtherEdits ==
    ASSUME TypeOK, NoDanglingLinks, EditTables,
           \A r \in Receipts : ~DeleteReceipt(r), \A a \in Accounts : ~DeleteAccount(a)
    PROVE  NoDanglingLinks'
<1>1. \A r \in Receipts : receipts[r].life = "present" => receipts'[r].life = "present"
  <2>1. ASSUME NEW r \in Receipts, NEW booked \in BOOLEAN, NEW position \in Positions \cup {NULL},
               CreateReceipt(r, booked, position) \/ UpdateReceipt(r, booked, position)
        PROVE  \A q \in Receipts : receipts[q].life = "present" => receipts'[q].life = "present"
    <3>1. PICK edition : receipts' = [receipts EXCEPT ![r] =
                           [life |-> "present", booked |-> booked,
                            position |-> position, edition |-> edition]]
      BY <2>1 DEF CreateReceipt, FreshReceipt, UpdateReceipt, EditedReceipt
    <3>2. \A q \in Receipts : receipts'[q] \in
            {receipts[q], [life |-> "present", booked |-> booked,
                           position |-> position, edition |-> edition]}
      BY <3>1 DEF TypeOK
    <3>. QED
      BY <3>2
  <2>2. CASE UNCHANGED receipts
    BY <2>2
  <2>. QED
    BY <2>1, <2>2 DEF EditTables, CreateAccount, UpdateBooking, StageImport, UpdateImport,
       DiscardImport
<1>2. \A a \in Accounts : accounts[a] = "present" => accounts'[a] = "present"
  BY DEF EditTables, CreateAccount, CreateReceipt, UpdateReceipt, UpdateBooking, StageImport,
     UpdateImport, DiscardImport, TypeOK
<1>3. BookingLinksHold'
  BY <1>1, <1>2, EditKeepsRows, LinksKept, LinksSplit
<1>4. ImportLinksHold'
  <2>1. ASSUME NEW i \in Imports, NEW bank \in PresentAccounts \cup {NULL},
               StageImport(i, bank) \/ UpdateImport(i, bank)
        PROVE  ImportLinksHold'
    <3>1. \A j \in Imports : imports'[j].bank \in {imports[j].bank, bank}
      <4>1. imports[i] \in Import
        BY DEF TypeOK
      <4>2. PICK row : imports' = [imports EXCEPT ![i] = row] /\ row.bank = bank
        BY <2>1, <4>1 DEF StageImport, UpdateImport, Import
      <4>. QED
        BY <4>2 DEF TypeOK
    <3>2. accounts' = accounts
      BY <2>1 DEF StageImport, UpdateImport
    <3>. QED
      BY <3>1, <3>2 DEF NoDanglingLinks, ImportLinksHold, PresentAccounts
  <2>2. ASSUME NEW i \in Imports, DiscardImport(i)
        PROVE  ImportLinksHold'
    <3>1. \A j \in Imports : imports'[j].bank = imports[j].bank
      BY <2>2 DEF DiscardImport, TypeOK, Import
    <3>. QED
      BY <2>2, <3>1 DEF NoDanglingLinks, ImportLinksHold, DiscardImport
  <2>3. CASE UNCHANGED imports
    <3>1. \A i \in Imports : imports[i].bank \in Accounts \cup {NULL}
      BY DEF TypeOK, Import
    <3>. QED
      BY <1>2, <2>3, <3>1 DEF NoDanglingLinks, ImportLinksHold
  <2>. QED
    BY <2>1, <2>2, <2>3 DEF EditTables, CreateAccount, CreateReceipt, FreshReceipt,
       UpdateReceipt, EditedReceipt, UpdateBooking
<1>. QED
  BY <1>3, <1>4, LinksSplit DEF NoDanglingLinks, BookingLinksHold, ImportLinksHold

\* The booking a commit adds refers to rows its locks have kept alive.
LEMMA LinksApply ==
    ASSUME TypeOK, RequestsConsistent, NoDanglingLinks, NEW p \in Requests, Apply(p)
    PROVE  NoDanglingLinks'
<1>1. /\ RowAdded(p) /\ accounts' = accounts
      /\ \A r \in Receipts : receipts'[r].life = receipts[r].life
  BY ApplyAddsRow, ApplyKeepsLives
<1>2. BookingLinksHold'
  <2>1. ASSUME NEW k \in DOMAIN bookings
        PROVE  /\ bookings'[k].receipt # NULL =>
                    receipts'[bookings'[k].receipt].life = "present"
               /\ bookings'[k].bank # NULL => accounts'[bookings'[k].bank] = "present"
    <3>1. bookings[k] \in Booking
      BY BookingsDomain
    <3>. QED
      BY <1>1, <3>1 DEF RowAdded, NoDanglingLinks, Booking
  <2>2. /\ draft[p].receipt # NULL => receipts'[draft[p].receipt].life = "present"
        /\ draft[p].bank # NULL => accounts'[draft[p].bank] = "present"
    BY <1>1 DEF RequestsConsistent, RequestConsistent, Apply
  <2>. QED
    BY <1>1, <2>1, <2>2 DEF RowAdded, BookingLinksHold
<1>3. ImportLinksHold'
  <2>1. \A i \in Imports : imports'[i].bank = imports[i].bank
    <3>1. CASE pc[p] = "removed"
      <4>1. target[p] \in Imports /\ imports[target[p]] \in Import
        BY <3>1 DEF RequestsConsistent, RequestConsistent, TypeOK
      <4>2. PICK row : /\ imports' = [imports EXCEPT ![target[p]] = row]
                       /\ row.bank = imports[target[p]].bank
        BY <3>1, <4>1 DEF Apply, Import
      <4>. QED
        BY <4>2 DEF TypeOK
    <3>2. CASE pc[p] # "removed"
      BY <3>2 DEF Apply
    <3>. QED
      BY <3>1, <3>2
  <2>. QED
    BY <1>1, <2>1 DEF NoDanglingLinks, ImportLinksHold
<1>. QED
  BY <1>2, <1>3 DEF NoDanglingLinks, BookingLinksHold, ImportLinksHold

LEMMA NoDanglingLinksNext ==
    ASSUME TypeOK, RequestsConsistent, NoDanglingLinks, [Next]_vars
    PROVE  NoDanglingLinks'
<1>1. CASE EditTables
  BY <1>1, LinksDeleteAccount, LinksDeleteReceipt, LinksOtherEdits
<1>2. CASE UNCHANGED tables
  BY <1>2 DEF tables, NoDanglingLinks
<1>3. CASE UNCHANGED vars
  BY <1>3 DEF vars, NoDanglingLinks
<1>. QED
  BY <1>1, <1>2, <1>3, RequestStep, LinksApply DEF Next
-----------------------------------------------------------------------------
(* A visible booking keeps its receipt flagged, and a request that read the *)
(* flag as FALSE was right.                                                 *)

\* A reset by hand comes after every booking there is.
LEMMA ResetIsLast ==
    ASSUME TypeOK, EditTables
    PROVE  \A r \in Receipts, k \in DOMAIN bookings :
              clearedAt[r] >= k => clearedAt'[r] >= k
<1>1. ASSUME NEW r \in Receipts, NEW booked \in BOOLEAN, NEW position \in Positions \cup {NULL},
             UpdateReceipt(r, booked, position)
      PROVE  \A q \in Receipts, k \in DOMAIN bookings : clearedAt[q] >= k => clearedAt'[q] >= k
  <2>1. \A q \in Receipts : clearedAt'[q] \in {clearedAt[q], Len(bookings)}
    BY <1>1 DEF UpdateReceipt, EditedReceipt, TypeOK
  <2>. QED
    BY <2>1, BookingsDomain
<1>2. CASE UNCHANGED clearedAt
  BY <1>2
<1>. QED
  BY <1>1, <1>2 DEF EditTables, CreateAccount, DeleteAccount, CreateReceipt, DeleteReceipt,
     UpdateBooking, StageImport, UpdateImport, DiscardImport

\* Only a hand edit takes the flag off a present receipt, and it says so.
LEMMA EditTakesFlag ==
    ASSUME TypeOK, EditTables, NEW r \in Receipts, receipts[r].life = "present"
    PROVE  \/ receipts'[r].booked = receipts[r].booked
           \/ receipts'[r].booked
           \/ clearedAt'[r] = Len(bookings)
<1>1. ASSUME NEW q \in Receipts, NEW booked \in BOOLEAN, NEW position \in Positions \cup {NULL},
             CreateReceipt(q, booked, position)
      PROVE  receipts'[r] = receipts[r]
  BY <1>1 DEF CreateReceipt, FreshReceipt, TypeOK
<1>2. ASSUME NEW q \in Receipts, NEW booked \in BOOLEAN, NEW position \in Positions \cup {NULL},
             UpdateReceipt(q, booked, position)
      PROVE  receipts'[r] = receipts[r] \/ receipts'[r].booked \/ clearedAt'[r] = Len(bookings)
  <2>1. CASE q # r
    BY <1>2, <2>1 DEF UpdateReceipt, EditedReceipt, TypeOK
  <2>2. CASE q = r
    <3>1. receipts'[r].booked = booked
      BY <1>2, <2>2 DEF UpdateReceipt, EditedReceipt, TypeOK
    <3>2. ~booked => clearedAt'[r] = Len(bookings)
      BY <1>2, <2>2 DEF UpdateReceipt, EditedReceipt, TypeOK
    <3>. QED
      BY <3>1, <3>2
  <2>. QED
    BY <2>1, <2>2
<1>3. ASSUME NEW q \in Receipts, DeleteReceipt(q)
      PROVE  receipts'[r].booked = receipts[r].booked
  <2>1. receipts[q] \in Receipt
    BY DEF TypeOK
  <2>. DEFINE row == [receipts[q] EXCEPT !.life = "deleted"]
  <2>2. row.booked = receipts[q].booked
    BY <2>1 DEF Receipt
  <2>3. receipts' = [receipts EXCEPT ![q] = row]
    BY <1>3 DEF DeleteReceipt, UnlinkReceipt
  <2>. HIDE DEF row
  <2>. QED
    BY <2>2, <2>3 DEF TypeOK
<1>4. CASE UNCHANGED receipts
  BY <1>4
<1>. QED
  BY <1>1, <1>2, <1>3, <1>4 DEF EditTables, CreateAccount, DeleteAccount, UpdateBooking,
     StageImport, UpdateImport, DiscardImport

LEMMA FlagEdit ==
    ASSUME TypeOK, NoDanglingLinks, FlagFollowsBooking, EditTables
    PROVE  FlagFollowsBooking'
<1>1. RowsKept
  BY EditKeepsRows
<1>. SUFFICES ASSUME NEW k \in DOMAIN bookings, bookings'[k].receipt # NULL
              PROVE  \/ receipts'[bookings'[k].receipt].booked
                     \/ clearedAt'[bookings'[k].receipt] >= k
  BY <1>1 DEF FlagFollowsBooking, RowsKept
<1>2. /\ bookings'[k].receipt = bookings[k].receipt
      /\ bookings[k].receipt \in Receipts
      /\ receipts[bookings[k].receipt].life = "present"
  BY <1>1, BookingsDomain DEF RowsKept, Booking, NoDanglingLinks
<1>3. receipts[bookings[k].receipt].booked \/ clearedAt[bookings[k].receipt] >= k
  BY <1>2 DEF FlagFollowsBooking
<1>4. CASE clearedAt[bookings[k].receipt] >= k
  BY <1>2, <1>4, ResetIsLast
<1>5. CASE receipts[bookings[k].receipt].booked
  BY <1>2, <1>5, EditTakesFlag, BookingsDomain
<1>. QED
  BY <1>3, <1>4, <1>5

LEMMA FlagApply ==
    ASSUME TypeOK, RequestsConsistent, FlagFollowsBooking, NEW p \in Requests, Apply(p)
    PROVE  FlagFollowsBooking'
<1>1. RowAdded(p) /\ clearedAt' = clearedAt
  BY ApplyAddsRow, ApplyKeepsLives
<1>2. \A r \in Receipts : receipts[r].booked => receipts'[r].booked
  <2>1. \A r \in Receipts : receipts[r] \in Receipt
    BY DEF TypeOK
  <2>2. BookedRow(p).booked \/ target[p] \notin Receipts
    BY <2>1 DEF BookedRow, Receipt
  <2>. QED
    BY <2>1, <2>2 DEF Apply, TypeOK
<1>3. ASSUME NEW k \in DOMAIN bookings
      PROVE  bookings'[k].receipt # NULL => \/ receipts'[bookings'[k].receipt].booked
                                            \/ clearedAt'[bookings'[k].receipt] >= k
  <2>1. bookings'[k] = bookings[k] /\ bookings[k].receipt \in Receipts \cup {NULL}
    BY <1>1, BookingsDomain DEF RowAdded, Booking
  <2>. QED
    BY <1>1, <1>2, <2>1 DEF FlagFollowsBooking
<1>4. draft[p].receipt # NULL => receipts'[draft[p].receipt].booked
  <2>1. CASE pc[p] = "marked"
    <3>1. draft[p].receipt = target[p] /\ target[p] \in Receipts
      BY <2>1 DEF RequestsConsistent, RequestConsistent
    <3>2. receipts[target[p]] \in Receipt
      BY <3>1 DEF TypeOK
    <3>. QED
      BY <2>1, <3>1, <3>2 DEF Apply, BookedRow, Receipt, TypeOK
  <2>2. CASE pc[p] # "marked"
    BY <2>2 DEF Apply, RequestsConsistent, RequestConsistent
  <2>. QED
    BY <2>1, <2>2
<1>. QED
  BY <1>1, <1>3, <1>4 DEF RowAdded, FlagFollowsBooking

LEMMA FlagFollowsBookingNext ==
    ASSUME TypeOK, RequestsConsistent, NoDanglingLinks, FlagFollowsBooking, [Next]_vars
    PROVE  FlagFollowsBooking'
<1>1. CASE UNCHANGED tables
  BY <1>1 DEF tables, FlagFollowsBooking
<1>2. CASE UNCHANGED vars
  BY <1>2 DEF vars, FlagFollowsBooking
<1>. QED
  BY <1>1, <1>2, FlagEdit, FlagApply, RequestStep DEF Next
-----------------------------------------------------------------------------
(* Bookings of one receipt come from overlapping requests or from a reset.  *)

LEMMA SnapshotNext ==
    ASSUME TypeOK, RequestsConsistent, FlagFollowsBooking, SnapshotWasRight, [Next]_vars
    PROVE  SnapshotWasRight'
<1>1. CASE EditTables
  <2>1. UNCHANGED locals /\ RowsKept
    BY <1>1, EditKeepsRows DEF EditTables, CreateAccount, DeleteAccount, CreateReceipt,
       UpdateReceipt, DeleteReceipt, UpdateBooking, StageImport, UpdateImport, DiscardImport
  <2>. SUFFICES ASSUME NEW p \in Requests, pc[p] \in {"read", "inserted", "marked"},
                       NEW k \in DOMAIN bookings,
                       bookings'[k].receipt = target[p], k <= draft[p].readAt
                PROVE  clearedAt'[target[p]] >= k
    BY <2>1 DEF SnapshotWasRight, RowsKept, locals
  <2>2. target[p] \in Receipts /\ bookings[k].receipt = target[p]
    BY <2>1, IdsDisjoint DEF RequestsConsistent, RequestConsistent, RowsKept
  <2>. QED
    BY <1>1, <2>2, ResetIsLast DEF SnapshotWasRight
<1>2. ASSUME NEW p \in Requests,
             Start(p) \/ Continue(p) \/ CommitUnacknowledged(p) \/ Abort(p)
      PROVE  SnapshotWasRight'
  <2>. SUFFICES ASSUME NEW q \in Requests, pc'[q] \in {"read", "inserted", "marked"},
                       NEW k \in DOMAIN bookings',
                       bookings'[k].receipt = target'[q], k <= draft'[q].readAt
                PROVE  clearedAt'[target'[q]] >= k
    BY DEF SnapshotWasRight
  <2>1. CASE q # p
    <3>1. pc'[q] = pc[q] /\ target'[q] = target[q] /\ draft'[q] = draft[q]
      BY <1>2, <2>1, RequestStep
    <3>2. CASE UNCHANGED tables
      BY <3>1, <3>2 DEF tables, SnapshotWasRight
    <3>3. CASE Apply(p)
      <4>1. RowAdded(p) /\ clearedAt' = clearedAt
        BY <3>3, ApplyAddsRow, ApplyKeepsLives
      <4>2. draft[q].readAt <= Len(bookings) /\ draft[q].readAt \in Nat
        BY <3>1 DEF RequestsConsistent, RequestConsistent, TypeOK, Booking
      <4>3. k \in DOMAIN bookings
        BY <3>1, <4>1, <4>2, BookingsDomain DEF RowAdded
      <4>. QED
        BY <3>1, <4>1, <4>3 DEF RowAdded, SnapshotWasRight
    <3>. QED
      BY <1>2, <3>2, <3>3, RequestStep
  <2>2. CASE q = p
    <3>1. ASSUME NEW r \in Receipts, BookReceiptRead(p, r)
          PROVE  clearedAt'[target'[q]] >= k
      <4>1. target'[p] = r /\ bookings' = bookings /\ clearedAt' = clearedAt
        BY <3>1 DEF BookReceiptRead, ReceiptBooking, Bookable, TypeOK, tables
      <4>2. bookings[k].receipt = r /\ ~receipts[r].booked
        BY <2>2, <3>1, <4>1 DEF BookReceiptRead, ReceiptBooking, Bookable
      <4>. QED
        BY <2>2, <4>1, <4>2, IdsDisjoint DEF FlagFollowsBooking
    <3>2. CASE BookReceiptInsert(p) \/ BookReceiptMark(p)
      BY <2>2, <3>2 DEF BookReceiptInsert, BookReceiptMark, SnapshotWasRight, TypeOK, tables
    <3>3. ASSUME NEW r \in Receipts, BookReceiptRefuse(p, r)
          PROVE  FALSE
      BY <2>2, <3>3 DEF BookReceiptRefuse
    <3>4. ASSUME NEW i \in Imports, NEW a \in Accounts,
                 CommitImportInsert(p, i, a) \/ CommitImportRejected(p, i, a)
          PROVE  FALSE
      BY <2>2, <3>4 DEF CommitImportInsert, ImportBooking, CommitImportRejected, TypeOK
    <3>5. CASE \/ BookReceiptOrphaned(p) \/ Abort(p) \/ Commit(p) \/ CommitUnacknowledged(p)
               \/ CommitImportRemove(p)
      BY <2>2, <3>5 DEF BookReceiptOrphaned, Abort, Commit, CommitUnacknowledged, Apply,
         CommitImportRemove, TypeOK
    <3>. QED
      BY <1>2, <3>1, <3>2, <3>3, <3>4, <3>5 DEF Start, Continue
  <2>. QED
    BY <2>1, <2>2
<1>3. CASE UNCHANGED vars
  BY <1>3 DEF vars, SnapshotWasRight
<1>. QED
  BY <1>1, <1>2, <1>3 DEF Next
LEMMA OverlapEdit ==
    ASSUME TypeOK, NoSerialDoubleBooking, EditTables
    PROVE  NoSerialDoubleBooking'
<1>1. RowsKept
  BY EditKeepsRows
<1>. SUFFICES ASSUME NEW i \in DOMAIN bookings, NEW j \in DOMAIN bookings, i < j,
                     bookings'[i].receipt # NULL,
                     bookings'[i].receipt = bookings'[j].receipt
              PROVE  bookings'[j].readAt < i \/ clearedAt'[bookings'[j].receipt] >= i
  BY <1>1 DEF NoSerialDoubleBooking, RowsKept
<1>2. /\ bookings'[i].receipt = bookings[i].receipt
      /\ bookings'[j].receipt = bookings[j].receipt
      /\ bookings'[j].readAt = bookings[j].readAt
      /\ bookings[j].receipt \in Receipts
  BY <1>1, BookingsDomain DEF RowsKept, Booking
<1>3. bookings[j].readAt < i \/ clearedAt[bookings[j].receipt] >= i
  BY <1>2 DEF NoSerialDoubleBooking
<1>. QED
  BY <1>2, <1>3, ResetIsLast

\* The new booking is the later one of every pair it belongs to.
LEMMA OverlapApply ==
    ASSUME TypeOK, RequestsConsistent, SnapshotWasRight, NoSerialDoubleBooking,
           NEW p \in Requests, Apply(p)
    PROVE  NoSerialDoubleBooking'
<1>1. RowAdded(p) /\ clearedAt' = clearedAt
  BY ApplyAddsRow, ApplyKeepsLives
<1>. SUFFICES ASSUME NEW i \in DOMAIN bookings', NEW j \in DOMAIN bookings', i < j,
                     bookings'[i].receipt # NULL,
                     bookings'[i].receipt = bookings'[j].receipt
              PROVE  bookings'[j].readAt < i \/ clearedAt[bookings'[j].receipt] >= i
  BY <1>1 DEF NoSerialDoubleBooking
<1>2. i \in DOMAIN bookings /\ bookings'[i] = bookings[i]
  BY <1>1, BookingsDomain DEF RowAdded
<1>3. CASE j \in DOMAIN bookings
  BY <1>1, <1>2, <1>3 DEF RowAdded, NoSerialDoubleBooking
<1>4. CASE j = Len(bookings) + 1
  <2>1. bookings'[j] = draft[p]
    BY <1>1, <1>4 DEF RowAdded
  <2>2. pc[p] = "marked" /\ draft[p].receipt = target[p]
    BY <1>2, <2>1 DEF Apply, RequestsConsistent, RequestConsistent
  <2>3. draft[p].readAt \in Nat /\ i \in Nat
    BY <1>2, BookingsDomain DEF TypeOK, Booking
  <2>. QED
    BY <1>2, <2>1, <2>2, <2>3 DEF SnapshotWasRight
<1>. QED
  BY <1>1, <1>3, <1>4 DEF RowAdded

LEMMA NoSerialDoubleBookingNext ==
    ASSUME TypeOK, RequestsConsistent, SnapshotWasRight, NoSerialDoubleBooking, [Next]_vars
    PROVE  NoSerialDoubleBooking'
<1>1. CASE UNCHANGED tables
  BY <1>1 DEF tables, NoSerialDoubleBooking
<1>2. CASE UNCHANGED vars
  BY <1>2 DEF vars, NoSerialDoubleBooking
<1>. QED
  BY <1>1, <1>2, OverlapEdit, OverlapApply, RequestStep DEF Next
-----------------------------------------------------------------------------
(* Nothing gets lost: origins of bookings are for good.                    *)

Recorded(id) == \E k \in DOMAIN bookings : bookings[k].origin = id

RecordedNext(id) == \E k \in DOMAIN bookings' : bookings'[k].origin = id

LEMMA OriginsStay ==
    ASSUME TypeOK, [Next]_vars, NEW id, Recorded(id)
    PROVE  RecordedNext(id)
<1>1. CASE RowsKept
  BY <1>1 DEF RowsKept, Recorded, RecordedNext
<1>2. ASSUME NEW p \in Requests, RowAdded(p)
      PROVE  RecordedNext(id)
  BY <1>2 DEF RowAdded, Recorded, RecordedNext
<1>. QED
  BY <1>1, <1>2, EditKeepsRows, UnchangedRowsKept, RequestStep, ApplyAddsRow
     DEF Next, vars, tables

LEMMA CommitRecords ==
    ASSUME TypeOK, RequestsConsistent, NEW p \in Requests, Apply(p)
    PROVE  RecordedNext(target[p])
<1>1. RowAdded(p)
  BY ApplyAddsRow
<1>2. draft[p].origin = target[p]
  BY DEF Apply, RequestsConsistent, RequestConsistent
<1>. QED
  BY <1>1, <1>2 DEF RowAdded, Recorded, RecordedNext

LEMMA ImportsAccountedForNext ==
    ASSUME TypeOK, RequestsConsistent, ImportsAccountedFor, [Next]_vars
    PROVE  ImportsAccountedFor'
<1>. SUFFICES ASSUME NEW i \in Imports, imports'[i].life = "deleted"
              PROVE  i \in discarded' \/ RecordedNext(i)
  BY DEF ImportsAccountedFor, Recorded, RecordedNext
<1>1. discarded \subseteq discarded'
  BY RequestStep, ApplyKeepsLives DEF Next, EditTables, CreateAccount, DeleteAccount,
     CreateReceipt, UpdateReceipt, DeleteReceipt, UpdateBooking, StageImport, UpdateImport,
     DiscardImport, tables, vars
<1>2. CASE imports[i].life = "deleted"
  BY <1>1, <1>2, OriginsStay DEF ImportsAccountedFor, Recorded, RecordedNext
<1>3. ASSUME NEW p \in Requests, Apply(p), imports[i].life # "deleted"
      PROVE  RecordedNext(i)
  <2>1. imports' # imports
    BY <1>3
  <2>2. pc[p] = "removed" /\ imports' = [imports EXCEPT ![target[p]].life = "deleted"]
    BY <1>3, <2>1 DEF Apply
  <2>3. i = target[p]
    BY <1>3, <2>2 DEF TypeOK
  <2>. QED
    BY <1>3, <2>3, CommitRecords
<1>4. ASSUME EditTables, imports[i].life # "deleted"
      PROVE  i \in discarded'
  <2>1. \A j \in Imports : imports[j] \in Import
    BY DEF TypeOK
  <2>2. ASSUME NEW a \in Accounts, DeleteAccount(a)
        PROVE  imports'[i].life = imports[i].life
    BY <2>1, <2>2 DEF DeleteAccount, UnlinkAccount, Import
  <2>3. ASSUME NEW j \in Imports, NEW bank \in PresentAccounts \cup {NULL}, StageImport(j, bank)
        PROVE  imports'[i].life \in {imports[i].life, "present"}
    BY <2>1, <2>3 DEF StageImport, Import, TypeOK
  <2>4. ASSUME NEW j \in Imports, NEW bank \in PresentAccounts \cup {NULL}, UpdateImport(j, bank)
        PROVE  imports'[i].life = imports[i].life
    <3>. DEFINE row == [imports[j] EXCEPT !.bank = bank]
    <3>1. row.life = imports[j].life
      BY <2>1 DEF Import
    <3>2. imports' = [imports EXCEPT ![j] = row]
      BY <2>4 DEF UpdateImport
    <3>. HIDE DEF row
    <3>. QED
      BY <3>1, <3>2 DEF TypeOK
  <2>5. ASSUME NEW j \in Imports, DiscardImport(j)
        PROVE  imports'[i] = imports[i] \/ i \in discarded'
    BY <2>5 DEF DiscardImport, TypeOK
  <2>6. CASE UNCHANGED imports
    BY <1>4, <2>6
  <2>. QED
    BY <1>4, <2>2, <2>3, <2>4, <2>5, <2>6 DEF EditTables, CreateAccount, CreateReceipt,
       FreshReceipt, UpdateReceipt, EditedReceipt, DeleteReceipt, UnlinkReceipt,
       UpdateBooking
<1>5. CASE UNCHANGED imports
  BY <1>2, <1>5
<1>. QED
  BY <1>2, <1>3, <1>4, <1>5, RequestStep DEF Next, tables, vars

LEMMA AcknowledgedIsRecordedNext ==
    ASSUME TypeOK, RequestsConsistent, AcknowledgedIsRecorded, [Next]_vars
    PROVE  AcknowledgedIsRecorded'
<1>. SUFFICES ASSUME NEW q \in Requests, reply'[q] = "200"
              PROVE  RecordedNext(target'[q])
  BY DEF AcknowledgedIsRecorded, Recorded, RecordedNext
<1>1. CASE reply[q] = "200" /\ target'[q] = target[q]
  BY <1>1, OriginsStay DEF AcknowledgedIsRecorded, Recorded, RecordedNext
<1>2. CASE EditTables
  <2>1. UNCHANGED locals
    BY <1>2 DEF EditTables, CreateAccount, DeleteAccount, CreateReceipt,
       UpdateReceipt, DeleteReceipt, UpdateBooking, StageImport, UpdateImport, DiscardImport
  <2>. QED
    BY <1>1, <2>1 DEF locals
<1>3. ASSUME NEW p \in Requests,
             Start(p) \/ Continue(p) \/ CommitUnacknowledged(p) \/ Abort(p)
      PROVE  RecordedNext(target'[q])
  <2>1. CASE q # p
    BY <1>1, <1>3, <2>1, RequestStep
  <2>2. CASE q = p /\ Commit(p)
    <3>1. Apply(p) /\ target' = target
      BY <2>2 DEF Commit, Apply
    <3>. QED
      BY <2>2, <3>1, CommitRecords
  <2>3. CASE q = p /\ (BookReceiptInsert(p) \/ BookReceiptMark(p) \/ CommitImportRemove(p))
    BY <1>1, <2>3 DEF BookReceiptInsert, BookReceiptMark, CommitImportRemove
  <2>4. ASSUME q = p,
               \/ \E r \in Receipts : BookReceiptRead(p, r) \/ BookReceiptRefuse(p, r)
               \/ \E i \in Imports, a \in Accounts :
                    CommitImportInsert(p, i, a) \/ CommitImportRejected(p, i, a)
               \/ BookReceiptOrphaned(p) \/ CommitUnacknowledged(p) \/ Abort(p)
        PROVE  FALSE
    BY <2>4 DEF BookReceiptRead, ReceiptBooking, Bookable, BookReceiptRefuse,
       CommitImportInsert, ImportBooking, CommitImportRejected, BookReceiptOrphaned,
       CommitUnacknowledged, Abort, TypeOK
  <2>. QED
    BY <1>3, <2>1, <2>2, <2>3, <2>4 DEF Start, Continue
<1>4. CASE UNCHANGED vars
  BY <1>1, <1>4 DEF vars
<1>. QED
  BY <1>2, <1>3, <1>4 DEF Next

-----------------------------------------------------------------------------
(* Lives run forward.                                                      *)

\* What hand edits do to the receipts, receipt by receipt.
LEMMA EditReceiptRow ==
    ASSUME TypeOK, EditTables, NEW r \in Receipts
    PROVE  \/ receipts'[r] = receipts[r]
           \/ receipts[r].life = "unused" /\ receipts'[r].life = "present"
           \/ receipts[r].life = "present" /\ receipts'[r].life \in {"present", "deleted"}
<1>1. ASSUME NEW q \in Receipts, NEW booked \in BOOLEAN, NEW position \in Positions \cup {NULL},
             CreateReceipt(q, booked, position)
      PROVE  receipts'[r] = receipts[r] \/ (/\ receipts[r].life = "unused"
                                            /\ receipts'[r].life = "present")
  BY <1>1 DEF CreateReceipt, FreshReceipt, TypeOK
<1>2. ASSUME NEW q \in Receipts, NEW booked \in BOOLEAN, NEW position \in Positions \cup {NULL},
             UpdateReceipt(q, booked, position)
      PROVE  receipts'[r] = receipts[r] \/ (/\ receipts[r].life = "present"
                                            /\ receipts'[r].life = "present")
  BY <1>2 DEF UpdateReceipt, EditedReceipt, TypeOK
<1>3. ASSUME NEW q \in Receipts, DeleteReceipt(q)
      PROVE  receipts'[r] = receipts[r] \/ (/\ receipts[r].life = "present"
                                            /\ receipts'[r].life = "deleted")
  BY <1>3 DEF DeleteReceipt, UnlinkReceipt, TypeOK, Receipt
<1>4. CASE UNCHANGED receipts
  BY <1>4
<1>. QED
  BY <1>1, <1>2, <1>3, <1>4 DEF EditTables, CreateAccount, DeleteAccount, UpdateBooking,
     StageImport, UpdateImport, DiscardImport

\* What they do to the staged imports.
LEMMA EditImportRow ==
    ASSUME TypeOK, EditTables, NEW i \in Imports
    PROVE  /\ imports[i].life = "deleted" => imports'[i].life = "deleted"
           /\ \/ discarded' = discarded
              \/ \E j \in Imports : discarded' = discarded \cup {j} /\ imports'[j].life = "deleted"
<1>0. \A j \in Imports : imports[j] \in Import
  BY DEF TypeOK
<1>1. ASSUME NEW a \in Accounts, DeleteAccount(a)
      PROVE  imports'[i].life = imports[i].life /\ discarded' = discarded
  BY <1>0, <1>1 DEF DeleteAccount, UnlinkAccount, Import
<1>2. ASSUME NEW j \in Imports, NEW bank \in PresentAccounts \cup {NULL}, StageImport(j, bank)
      PROVE  (imports[i].life = "deleted" => imports'[i].life = "deleted") /\ discarded' = discarded
  BY <1>2 DEF StageImport, TypeOK
<1>3. ASSUME NEW j \in Imports, NEW bank \in PresentAccounts \cup {NULL}, UpdateImport(j, bank)
      PROVE  (imports[i].life = "deleted" => imports'[i].life = "deleted") /\ discarded' = discarded
  BY <1>0, <1>3 DEF UpdateImport, TypeOK
<1>4. ASSUME NEW j \in Imports, DiscardImport(j)
      PROVE  /\ imports[i].life = "deleted" => imports'[i].life = "deleted"
             /\ discarded' = discarded \cup {j} /\ imports'[j].life = "deleted"
  <2>. DEFINE row == [imports[j] EXCEPT !.life = "deleted"]
  <2>1. row.life = "deleted"
    BY <1>0 DEF Import
  <2>2. imports' = [imports EXCEPT ![j] = row] /\ discarded' = discarded \cup {j}
    BY <1>4 DEF DiscardImport
  <2>. HIDE DEF row
  <2>. QED
    BY <2>1, <2>2 DEF TypeOK
<1>5. CASE UNCHANGED <<imports, discarded>>
  BY <1>5
<1>. QED
  BY <1>1, <1>2, <1>3, <1>4, <1>5 DEF EditTables, CreateAccount, CreateReceipt,
     FreshReceipt, UpdateReceipt, EditedReceipt, DeleteReceipt, UnlinkReceipt, UpdateBooking

LEMMA LivesRunForwardNext ==
    ASSUME TypeOK, RequestsConsistent, LivesRunForward, [Next]_vars
    PROVE  LivesRunForward'
<1>1. CASE EditTables
  <2>1. \A r \in Receipts : receipts'[r].life = "unused" => receipts'[r].edition = 0
    BY <1>1, EditReceiptRow DEF LivesRunForward
  <2>2. discarded' \subseteq Imports
    BY <1>1, TypeEditTables DEF TypeOK
  <2>3. ASSUME NEW i \in discarded'
        PROVE  imports'[i].life = "deleted"
    <3>1. /\ imports[i].life = "deleted" => imports'[i].life = "deleted"
          /\ \/ discarded' = discarded
             \/ \E j \in Imports : /\ discarded' = discarded \cup {j}
                                    /\ imports'[j].life = "deleted"
      BY <1>1, <2>2, EditImportRow
    <3>. QED
      BY <3>1 DEF LivesRunForward
  <2>. QED
    BY <2>1, <2>3 DEF LivesRunForward
<1>2. ASSUME NEW p \in Requests, Apply(p)
      PROVE  LivesRunForward'
  <2>1. \A r \in Receipts : receipts'[r].life = "unused" => receipts'[r].edition = 0
    <3>1. CASE pc[p] = "marked"
      <4>1. target[p] \in Receipts /\ receipts[target[p]].life = "present"
        BY <3>1 DEF RequestsConsistent, RequestConsistent
      <4>2. \A r \in Receipts \ {target[p]} : receipts'[r] = receipts[r]
        BY <1>2, <3>1 DEF Apply, TypeOK
      <4>. QED
        BY <1>2, <4>1, <4>2, ApplyKeepsLives DEF LivesRunForward
    <3>. QED
      BY <1>2, <3>1 DEF Apply, LivesRunForward
  <2>2. \A i \in discarded' : imports'[i].life = "deleted"
    <3>1. discarded' = discarded /\ discarded \subseteq Imports
      BY <1>2 DEF Apply, TypeOK
    <3>2. CASE pc[p] = "removed"
      <4>. DEFINE row == [imports[target[p]] EXCEPT !.life = "deleted"]
      <4>1. target[p] \in Imports /\ imports[target[p]] \in Import
        BY <3>2 DEF RequestsConsistent, RequestConsistent, TypeOK
      <4>2. row.life = "deleted"
        BY <4>1 DEF Import
      <4>3. imports' = [imports EXCEPT ![target[p]] = row]
        BY <1>2, <3>2 DEF Apply
      <4>. HIDE DEF row
      <4>. QED
        BY <3>1, <4>2, <4>3 DEF LivesRunForward, TypeOK
    <3>. QED
      BY <1>2, <3>1, <3>2 DEF Apply, LivesRunForward
  <2>. QED
    BY <2>1, <2>2 DEF LivesRunForward
<1>3. CASE UNCHANGED tables
  BY <1>3 DEF tables, LivesRunForward
<1>4. CASE UNCHANGED vars
  BY <1>4 DEF vars, LivesRunForward
<1>. QED
  BY <1>1, <1>2, <1>3, <1>4, RequestStep DEF Next

-----------------------------------------------------------------------------
(* The theorems.                                                           *)

LEMMA IInvInit == Init => IInv
<1>. SUFFICES ASSUME Init
              PROVE  IInv
  OBVIOUS
<1>1. TypeOK
  BY TypeInit
<1>2. DOMAIN bookings = {}
  BY DEF Init
<1>3. FlagFollowsBooking /\ SnapshotWasRight /\ NoSerialDoubleBooking
  BY <1>2 DEF FlagFollowsBooking, SnapshotWasRight, NoSerialDoubleBooking
<1>4. RequestsConsistent /\ ImportsAccountedFor /\ AcknowledgedIsRecorded
  BY DEF Init, RequestsConsistent, RequestConsistent, ImportsAccountedFor,
     AcknowledgedIsRecorded
<1>6. LivesRunForward
  BY DEF Init, LivesRunForward
<1>5. NoDanglingLinks
  BY <1>2 DEF Init, NoDanglingLinks
<1>. QED
  BY <1>1, <1>3, <1>4, <1>5, <1>6 DEF IInv

LEMMA IInvNext == IInv /\ [Next]_vars => IInv'
BY TypeNext, LivesRunForwardNext, RequestsConsistentNext, NoDanglingLinksNext,
   FlagFollowsBookingNext, SnapshotNext,
   NoSerialDoubleBookingNext, ImportsAccountedForNext, AcknowledgedIsRecordedNext DEF IInv

\* The inductive invariant holds of every reachable state.
THEOREM Invariance == Spec => []IInv
BY IInvInit, IInvNext, PTL DEF Spec

\* Links never dangle, whatever is deleted while transactions are open.
THEOREM LinksSafe == Spec => []NoDanglingLinks
<1>1. IInv => NoDanglingLinks
  BY DEF IInv
<1>. QED
  BY <1>1, Invariance, PTL

\* A visible booking keeps its receipt flagged until a reset by hand.
THEOREM FlagSafe == Spec => []FlagFollowsBooking
<1>1. IInv => FlagFollowsBooking
  BY DEF IInv
<1>. QED
  BY <1>1, Invariance, PTL

\* Any number of book requests, one after the other, book a receipt once.
THEOREM SerialBookingSafe == Spec => []NoSerialDoubleBooking
<1>1. IInv => NoSerialDoubleBooking
  BY DEF IInv
<1>. QED
  BY <1>1, Invariance, PTL

\* No staged bank movement gets lost.
THEOREM ImportsSafe == Spec => []ImportsAccountedFor
<1>1. IInv => ImportsAccountedFor
  BY DEF IInv
<1>. QED
  BY <1>1, Invariance, PTL

\* What was acknowledged is in the table for good.
THEOREM AcknowledgementsSafe == Spec => []AcknowledgedIsRecorded
<1>1. IInv => AcknowledgedIsRecorded
  BY DEF IInv
<1>. QED
  BY <1>1, Invariance, PTL

\* Committed bookings are never removed, reordered or rewritten.
THEOREM LedgerIsAppendOnly == Spec => LedgerAppendOnly
<1>. DEFINE Kept == /\ Len(bookings') >= Len(bookings)
                    /\ \A k \in DOMAIN bookings :
                         /\ bookings'[k].origin = bookings[k].origin
                         /\ bookings'[k].edition = bookings[k].edition
                         /\ bookings'[k].receipt \in {bookings[k].receipt, NULL}
                         /\ bookings'[k].bank \in {bookings[k].bank, NULL}
<1>1. ASSUME TypeOK, [Next]_vars
      PROVE  Kept
  <2>1. CASE RowsKept
    BY <2>1, BookingsDomain, <1>1 DEF RowsKept
  <2>2. ASSUME NEW p \in Requests, RowAdded(p)
        PROVE  Kept
    BY <2>2, BookingsDomain, <1>1 DEF RowAdded
  <2>. QED
    BY <1>1, <2>1, <2>2, EditKeepsRows, UnchangedRowsKept, RequestStep, ApplyAddsRow
       DEF Next, vars, tables
<1>. QED
  BY <1>1, TypeCorrect, PTL DEF Spec, LedgerAppendOnly
-----------------------------------------------------------------------------
(* Hand edits and bookings do not overwrite each other.                    *)

\* What a hand edit keeps of a receipt.
LEMMA EditReceiptFields ==
    ASSUME TypeOK, EditTables, NEW r \in Receipts
    PROVE  \/ receipts[r].life = "unused" /\ receipts'[r].edition = 0
           \/ receipts'[r].edition = receipts[r].edition + 1
           \/ /\ receipts'[r].edition = receipts[r].edition
              /\ receipts'[r].position = receipts[r].position
              /\ receipts'[r].booked = receipts[r].booked
<1>1. ASSUME NEW q \in Receipts, NEW booked \in BOOLEAN, NEW position \in Positions \cup {NULL},
             CreateReceipt(q, booked, position)
      PROVE  receipts'[r] = receipts[r] \/ (/\ receipts[r].life = "unused"
                                            /\ receipts'[r].edition = 0)
  BY <1>1 DEF CreateReceipt, FreshReceipt, TypeOK
<1>2. ASSUME NEW q \in Receipts, NEW booked \in BOOLEAN, NEW position \in Positions \cup {NULL},
             UpdateReceipt(q, booked, position)
      PROVE  receipts'[r] = receipts[r] \/ receipts'[r].edition = receipts[r].edition + 1
  BY <1>2 DEF UpdateReceipt, EditedReceipt, TypeOK
<1>3. ASSUME NEW q \in Receipts, DeleteReceipt(q)
      PROVE  /\ receipts'[r].edition = receipts[r].edition
             /\ receipts'[r].position = receipts[r].position
             /\ receipts'[r].booked = receipts[r].booked
  <2>. DEFINE row == [receipts[q] EXCEPT !.life = "deleted"]
  <2>1. receipts[q] \in Receipt
    BY DEF TypeOK
  <2>2. /\ row.edition = receipts[q].edition /\ row.position = receipts[q].position
        /\ row.booked = receipts[q].booked
    BY <2>1 DEF Receipt
  <2>3. receipts' = [receipts EXCEPT ![q] = row]
    BY <1>3 DEF DeleteReceipt, UnlinkReceipt
  <2>. HIDE DEF row
  <2>. QED
    BY <2>2, <2>3 DEF TypeOK
<1>4. CASE UNCHANGED receipts
  BY <1>4
<1>. QED
  BY <1>1, <1>2, <1>3, <1>4 DEF EditTables, CreateAccount, DeleteAccount, UpdateBooking,
     StageImport, UpdateImport, DiscardImport

\* What a commit keeps of a receipt, and which one it marks.
LEMMA ApplyReceiptFields ==
    ASSUME TypeOK, NEW p \in Requests, Apply(p), NEW r \in Receipts
    PROVE  /\ receipts'[r].edition = receipts[r].edition
           /\ receipts'[r].position = receipts[r].position
           /\ \/ receipts'[r].booked = receipts[r].booked
              \/ pc[p] = "marked" /\ target[p] = r
<1>1. CASE pc[p] = "marked" /\ target[p] = r
  <2>1. receipts[r] \in Receipt
    BY DEF TypeOK
  <2>2. /\ BookedRow(p).edition = receipts[r].edition
        /\ BookedRow(p).position = receipts[r].position
    BY <1>1, <2>1 DEF BookedRow, Receipt
  <2>3. receipts'[r] = BookedRow(p)
    BY <1>1 DEF Apply, TypeOK
  <2>. QED
    BY <1>1, <2>2, <2>3
<1>2. CASE ~(pc[p] = "marked" /\ target[p] = r)
  <2>1. receipts'[r] = receipts[r]
    BY <1>2 DEF Apply, TypeOK
  <2>. QED
    BY <2>1
<1>. QED
  BY <1>1, <1>2

\* Booking a receipt never takes back a hand edit (SetReceiptBooked writes one column).
THEOREM EditsAreKept == Spec => EditsSurvive
<1>. DEFINE Kept(r) == /\ receipts'[r].edition >= receipts[r].edition
                       /\ receipts'[r].edition = receipts[r].edition =>
                            \/ receipts'[r].position = receipts[r].position
                            \/ receipts[r].life = "unused"
<1>1. ASSUME TypeOK, LivesRunForward, [Next]_vars, NEW r \in Receipts
      PROVE  Kept(r)
  <2>0. receipts[r].edition \in Nat
    BY <1>1 DEF TypeOK, Receipt
  <2>1. CASE EditTables
    BY <1>1, <2>0, <2>1, EditReceiptFields DEF LivesRunForward
  <2>2. ASSUME NEW p \in Requests, Apply(p)
        PROVE  Kept(r)
    BY <1>1, <2>0, <2>2, ApplyReceiptFields
  <2>3. CASE UNCHANGED receipts
    BY <2>0, <2>3
  <2>. QED
    BY <1>1, <2>1, <2>2, <2>3, RequestStep DEF Next, vars, tables
<1>2. IInv /\ [Next]_vars => \A r \in Receipts : Kept(r)
  BY <1>1 DEF IInv
<1>. QED
  BY <1>2, Invariance, PTL DEF Spec, EditsSurvive

\* A receipt reads as booked only by hand or in the step that shows its booking.
THEOREM FlagComesWithBooking == Spec => FlagOnlyWithBooking
<1>. DEFINE Explained(r) ==
       (receipts[r].life = "present" /\ ~receipts[r].booked /\ receipts'[r].booked)
         => \/ receipts'[r].edition # receipts[r].edition
            \/ \E k \in DOMAIN bookings' \ DOMAIN bookings : bookings'[k].receipt = r
<1>1. ASSUME TypeOK, RequestsConsistent, [Next]_vars, NEW r \in Receipts
      PROVE  Explained(r)
  <2>0. receipts[r].edition \in Nat
    BY <1>1 DEF TypeOK, Receipt
  <2>1. CASE EditTables
    BY <1>1, <2>0, <2>1, EditReceiptFields
  <2>2. ASSUME NEW p \in Requests, Apply(p)
        PROVE  Explained(r)
    <3>1. CASE pc[p] = "marked" /\ target[p] = r
      <4>1. RowAdded(p)
        BY <1>1, <2>2, ApplyAddsRow
      <4>2. draft[p].receipt = r
        BY <1>1, <3>1 DEF RequestsConsistent, RequestConsistent
      <4>3. /\ Len(bookings) + 1 \in DOMAIN bookings' \ DOMAIN bookings
            /\ bookings'[Len(bookings) + 1] = draft[p]
        BY <1>1, <4>1, BookingsDomain DEF RowAdded
      <4>. QED
        BY <4>2, <4>3
    <3>2. CASE ~(pc[p] = "marked" /\ target[p] = r)
      BY <1>1, <2>2, <3>2, ApplyReceiptFields
    <3>. QED
      BY <3>1, <3>2
  <2>3. CASE UNCHANGED receipts
    BY <2>3
  <2>. QED
    BY <1>1, <2>1, <2>2, <2>3, RequestStep DEF Next, vars, tables
<1>2. IInv /\ [Next]_vars => \A r \in Receipts : Explained(r)
  BY <1>1 DEF IInv
<1>. QED
  BY <1>2, Invariance, PTL DEF Spec, FlagOnlyWithBooking
-----------------------------------------------------------------------------
(* The code implements the journal.                                        *)

Origins == [k \in DOMAIN bookings |-> bookings[k].origin]
Settled == {r \in Receipts : receipts[r].life = "present" /\ receipts[r].booked}
Removed == {r \in Receipts : receipts[r].life = "deleted"}
Edits == [r \in Receipts |-> receipts[r].edition]
Staged == {i \in Imports : imports[i].life = "present"}

JournalUnchanged == UNCHANGED <<Origins, Settled, Removed, Edits, Staged, discarded>>

LEMMA OriginsKept ==
    ASSUME RowsKept
    PROVE  Origins' = Origins
BY DEF RowsKept, Origins

LEMMA OriginAdded ==
    ASSUME TypeOK, NEW p \in Requests, RowAdded(p)
    PROVE  Origins' = Append(Origins, draft[p].origin)
<1>1. Len(bookings) \in Nat /\ DOMAIN bookings = 1 .. Len(bookings)
  BY BookingsDomain
<1>2. Origins \in Seq({bookings[k].origin : k \in DOMAIN bookings}) /\ Len(Origins) = Len(bookings)
  BY <1>1 DEF Origins
<1>3. DOMAIN Origins' = 1 .. (Len(bookings) + 1)
  BY <1>1 DEF RowAdded, Origins
<1>4. \A k \in 1 .. (Len(bookings) + 1) :
         Origins'[k] = IF k <= Len(bookings) THEN Origins[k] ELSE draft[p].origin
  BY <1>1 DEF RowAdded, Origins
<1>5. Origins' = [k \in 1 .. (Len(bookings) + 1) |->
                    IF k <= Len(bookings) THEN Origins[k] ELSE draft[p].origin]
  BY <1>3, <1>4 DEF Origins
<1>6. Append(Origins, draft[p].origin) =
        [k \in 1 .. (Len(Origins) + 1) |->
           IF k = Len(Origins) + 1 THEN draft[p].origin ELSE Origins[k]]
  BY <1>2
<1>. QED
  BY <1>1, <1>2, <1>5, <1>6
LEMMA JournalCreateReceipt ==
    ASSUME TypeOK, LivesRunForward, NEW r \in Receipts, NEW booked \in BOOLEAN,
           NEW position \in Positions \cup {NULL}, CreateReceipt(r, booked, position)
    PROVE  J!Enter(r)
<1>1. \A q \in Receipts \ {r} : receipts'[q] = receipts[q]
  BY DEF CreateReceipt, FreshReceipt, TypeOK
<1>2. /\ receipts'[r].life = "present" /\ receipts'[r].booked = booked
      /\ receipts'[r].edition = 0
      /\ receipts[r].life = "unused" /\ receipts[r].edition = 0
  BY DEF CreateReceipt, FreshReceipt, TypeOK, LivesRunForward
<1>3. Settled' \in {Settled, Settled \cup {r}} /\ r \notin Settled \cup Removed
  BY <1>1, <1>2 DEF Settled, Removed
<1>4. Removed' = Removed /\ Edits' = Edits
  BY <1>1, <1>2 DEF Removed, Edits
<1>5. Origins' = Origins /\ Staged' = Staged /\ discarded' = discarded
  BY DEF CreateReceipt, FreshReceipt, Origins, Staged
<1>. QED
  BY <1>2, <1>3, <1>4, <1>5 DEF J!Enter, Settled, Removed, Edits, Origins, Staged

LEMMA JournalUpdateReceipt ==
    ASSUME TypeOK, NEW r \in Receipts, NEW booked \in BOOLEAN,
           NEW position \in Positions \cup {NULL}, UpdateReceipt(r, booked, position)
    PROVE  J!Edit(r)
<1>1. \A q \in Receipts \ {r} : receipts'[q] = receipts[q]
  BY DEF UpdateReceipt, EditedReceipt, TypeOK
<1>2. /\ receipts'[r].life = "present" /\ receipts'[r].booked = booked
      /\ receipts'[r].edition = receipts[r].edition + 1
      /\ receipts[r].life = "present"
  BY DEF UpdateReceipt, EditedReceipt, TypeOK
<1>3. Settled' \in {Settled \cup {r}, Settled \ {r}} /\ r \notin Removed
  BY <1>1, <1>2 DEF Settled, Removed
<1>4. Removed' = Removed /\ Edits' = [Edits EXCEPT ![r] = @ + 1]
  BY <1>1, <1>2 DEF Removed, Edits
<1>5. Origins' = Origins /\ Staged' = Staged /\ discarded' = discarded
  BY DEF UpdateReceipt, EditedReceipt, Origins, Staged
<1>. QED
  BY <1>3, <1>4, <1>5 DEF J!Edit, Settled, Removed, Edits, Origins, Staged

LEMMA JournalDeleteReceipt ==
    ASSUME TypeOK, NEW r \in Receipts, DeleteReceipt(r)
    PROVE  J!Remove(r)
<1>1. \A q \in Receipts \ {r} : receipts'[q] = receipts[q]
  BY DEF DeleteReceipt, UnlinkReceipt, TypeOK
<1>2. receipts'[r].life = "deleted" /\ receipts'[r].edition = receipts[r].edition
  <2>. DEFINE row == [receipts[r] EXCEPT !.life = "deleted"]
  <2>1. receipts[r] \in Receipt
    BY DEF TypeOK
  <2>2. row.life = "deleted" /\ row.edition = receipts[r].edition
    BY <2>1 DEF Receipt
  <2>3. receipts' = [receipts EXCEPT ![r] = row]
    BY DEF DeleteReceipt, UnlinkReceipt
  <2>. HIDE DEF row
  <2>. QED
    BY <2>2, <2>3 DEF TypeOK
<1>3. Settled' = Settled \ {r} /\ Removed' = Removed \cup {r} /\ Edits' = Edits
  BY <1>1, <1>2 DEF Settled, Removed, Edits
<1>4. Origins' = Origins
  BY EditKeepsRows, OriginsKept DEF EditTables
<1>5. Staged' = Staged /\ discarded' = discarded
  BY DEF DeleteReceipt, UnlinkReceipt, Staged
<1>. QED
  BY <1>3, <1>4, <1>5 DEF J!Remove, Settled, Removed, Edits, Origins, Staged

LEMMA JournalStageImport ==
    ASSUME TypeOK, LivesRunForward, NEW i \in Imports, NEW bank, StageImport(i, bank)
    PROVE  J!Stage(i)
<1>1. Staged' = Staged \cup {i} /\ i \notin Staged \cup discarded
  BY DEF StageImport, TypeOK, LivesRunForward, Staged
<1>2. /\ Origins' = Origins /\ Settled' = Settled /\ Removed' = Removed /\ Edits' = Edits
      /\ discarded' = discarded
  BY DEF StageImport, Origins, Settled, Removed, Edits
<1>. QED
  BY <1>1, <1>2 DEF J!Stage, Settled, Removed, Edits, Origins, Staged

LEMMA JournalDiscardImport ==
    ASSUME TypeOK, NEW i \in Imports, DiscardImport(i)
    PROVE  J!Discard(i)
<1>1. Staged' = Staged \ {i} /\ i \in Staged
  <2>. DEFINE row == [imports[i] EXCEPT !.life = "deleted"]
  <2>1. imports[i] \in Import
    BY DEF TypeOK
  <2>2. row.life = "deleted"
    BY <2>1 DEF Import
  <2>3. imports' = [imports EXCEPT ![i] = row] /\ imports[i].life = "present"
    BY DEF DiscardImport
  <2>. HIDE DEF row
  <2>. QED
    BY <2>2, <2>3 DEF TypeOK, Staged
<1>2. /\ Origins' = Origins /\ Settled' = Settled /\ Removed' = Removed /\ Edits' = Edits
      /\ discarded' = discarded \cup {i}
  BY DEF DiscardImport, Origins, Settled, Removed, Edits
<1>. QED
  BY <1>1, <1>2 DEF J!Discard, Settled, Removed, Edits, Origins, Staged

\* Edits of bank accounts, staged data and assignments are invisible in the journal.
LEMMA JournalOtherEdits ==
    ASSUME TypeOK, EditTables,
           \/ \E a \in Accounts : CreateAccount(a) \/ DeleteAccount(a)
           \/ \E k \in DOMAIN bookings, position \in Positions \cup {NULL} :
                UpdateBooking(k, position)
           \/ \E i \in Imports, bank \in PresentAccounts \cup {NULL} : UpdateImport(i, bank)
    PROVE  UNCHANGED J!journalVars
<1>1. Origins' = Origins
  BY EditKeepsRows, OriginsKept
<1>2. receipts' = receipts /\ discarded' = discarded
  BY DEF CreateAccount, DeleteAccount, UnlinkAccount, UpdateBooking, UpdateImport
<1>3. \A j \in Imports : imports'[j].life = imports[j].life
  <2>1. \A j \in Imports : imports[j] \in Import
    BY DEF TypeOK
  <2>2. ASSUME NEW a \in Accounts, DeleteAccount(a)
        PROVE  \A j \in Imports : imports'[j].life = imports[j].life
    BY <2>1, <2>2 DEF DeleteAccount, UnlinkAccount, Import
  <2>3. ASSUME NEW i \in Imports, NEW bank \in PresentAccounts \cup {NULL}, UpdateImport(i, bank)
        PROVE  \A j \in Imports : imports'[j].life = imports[j].life
    <3>. DEFINE row == [imports[i] EXCEPT !.bank = bank]
    <3>1. row.life = imports[i].life
      BY <2>1 DEF Import
    <3>2. imports' = [imports EXCEPT ![i] = row]
      BY <2>3 DEF UpdateImport
    <3>. HIDE DEF row
    <3>. QED
      BY <3>1, <3>2 DEF TypeOK
  <2>4. CASE UNCHANGED imports
    BY <2>4
  <2>. QED
    BY <2>2, <2>3, <2>4 DEF CreateAccount, UpdateBooking
<1>4. Settled' = Settled /\ Removed' = Removed /\ Edits' = Edits /\ Staged' = Staged
  BY <1>2, <1>3 DEF Settled, Removed, Edits, Staged
<1>. QED
  BY <1>1, <1>2, <1>4 DEF J!journalVars, Settled, Removed, Edits, Origins, Staged

LEMMA JournalApply ==
    ASSUME TypeOK, RequestsConsistent, NEW p \in Requests, Apply(p), NEW t, t = target[p]
    PROVE  \/ t \in Receipts /\ J!PostReceipt(t)
           \/ t \in Imports /\ J!PostImport(t)
<1>1. Origins' = Append(Origins, target[p])
  <2>1. RowAdded(p)
    BY ApplyAddsRow
  <2>2. Origins' = Append(Origins, draft[p].origin)
    BY <2>1, OriginAdded
  <2>3. draft[p].origin = target[p]
    BY DEF Apply, RequestsConsistent, RequestConsistent
  <2>. QED
    BY <2>2, <2>3
<1>2. discarded' = discarded
  BY DEF Apply
<1>3. CASE pc[p] = "marked"
  <2>1. target[p] \in Receipts /\ receipts[target[p]].life = "present"
    BY <1>3 DEF RequestsConsistent, RequestConsistent
  <2>2. receipts' = [receipts EXCEPT ![target[p]] = BookedRow(p)] /\ imports' = imports
    BY <1>3 DEF Apply
  <2>3. /\ BookedRow(p).booked /\ BookedRow(p).life = "present"
        /\ BookedRow(p).edition = receipts[target[p]].edition
    <3>1. receipts[target[p]] \in Receipt
      BY <2>1 DEF TypeOK
    <3>. QED
      BY <2>1, <3>1 DEF BookedRow, Receipt
  <2>4. /\ Settled' = Settled \cup {target[p]} /\ Removed' = Removed /\ Edits' = Edits
        /\ target[p] \notin Removed
    BY <2>1, <2>2, <2>3 DEF Settled, Removed, Edits, TypeOK
  <2>5. Staged' = Staged
    BY <2>2 DEF Staged
  <2>. QED
    BY <1>1, <1>2, <2>1, <2>4, <2>5
       DEF J!PostReceipt, Settled, Removed, Edits, Origins, Staged
<1>4. CASE pc[p] = "removed"
  <2>. DEFINE row == [imports[target[p]] EXCEPT !.life = "deleted"]
  <2>1. target[p] \in Imports /\ imports[target[p]] \in Import
    BY <1>4 DEF RequestsConsistent, RequestConsistent, TypeOK
  <2>2. row.life = "deleted"
    BY <2>1 DEF Import
  <2>3. imports' = [imports EXCEPT ![target[p]] = row] /\ receipts' = receipts
    BY <1>4 DEF Apply
  <2>. HIDE DEF row
  <2>4. Staged' = Staged \ {target[p]}
    BY <2>1, <2>2, <2>3 DEF Staged, TypeOK
  <2>5. Settled' = Settled /\ Removed' = Removed /\ Edits' = Edits
    BY <2>3 DEF Settled, Removed, Edits
  <2>. QED
    BY <1>1, <1>2, <2>1, <2>4, <2>5
       DEF J!PostImport, Settled, Removed, Edits, Origins, Staged
<1>. QED
  BY <1>3, <1>4 DEF Apply

LEMMA JournalInit == Init => J!Init
<1>. SUFFICES ASSUME Init
              PROVE  J!Init
  OBVIOUS
<1>1. Origins = <<>>
  BY DEF Init, Origins
<1>2. Settled = {} /\ Removed = {} /\ Edits = [r \in Receipts |-> 0] /\ Staged = {}
  BY DEF Init, Settled, Removed, Edits, Staged
<1>. QED
  BY <1>1, <1>2 DEF Init, J!Init, Settled, Removed, Edits, Origins, Staged

LEMMA JournalNext == IInv /\ [Next]_vars => [J!Next]_(J!journalVars)
<1>. SUFFICES ASSUME IInv, [Next]_vars
              PROVE  J!Next \/ UNCHANGED J!journalVars
  OBVIOUS
<1>. USE DEF IInv
<1>1. CASE EditTables
  <2>1. ASSUME NEW r \in Receipts, J!Enter(r) \/ J!Edit(r) \/ J!Remove(r)
        PROVE  J!Next
    BY <2>1 DEF J!Next
  <2>2. ASSUME NEW i \in Imports, J!Stage(i) \/ J!Discard(i)
        PROVE  J!Next
    BY <2>2 DEF J!Next
  <2>. QED
    BY <1>1, <2>1, <2>2, JournalCreateReceipt, JournalUpdateReceipt, JournalDeleteReceipt,
       JournalStageImport, JournalDiscardImport, JournalOtherEdits DEF EditTables
<1>2. ASSUME NEW p \in Requests, Apply(p)
      PROVE  J!Next
  <2>1. PICK t : t = target[p]
    OBVIOUS
  <2>2. TypeOK /\ RequestsConsistent
    OBVIOUS
  <2>3. \/ t \in Receipts /\ J!PostReceipt(t)
        \/ t \in Imports /\ J!PostImport(t)
    BY <1>2, <2>1, <2>2, JournalApply
  <2>. QED
    BY <2>3 DEF J!Next
<1>3. CASE UNCHANGED tables
  BY <1>3 DEF tables, J!journalVars
<1>4. CASE UNCHANGED vars
  BY <1>4 DEF vars, J!journalVars
<1>. QED
  BY <1>1, <1>2, <1>3, <1>4, RequestStep DEF Next

\* Requests over row locks implement the atomic journal.
THEOREM ImplementsJournal == Spec => JournalSpec
BY JournalInit, JournalNext, Invariance, PTL DEF Spec, JournalSpec, J!Spec
=============================================================================
