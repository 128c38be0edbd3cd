--------------------------- MODULE StatementProofs ---------------------------
(***************************************************************************)
(* Proofs about the annual statement of a club: how it is computed         *)
(* (StatementReport), for any receipts, imports and accounts and any       *)
(* amounts, and how it is saved (StatementStore), for any number of        *)
(* concurrent requests.                                                    *)
(*                                                                         *)
(* What a finished report says of a receipt depends on three reads at      *)
(* three times.  IInv relates what was read to the tables as they are now. *)
(* Of a receipt that nobody took apart by hand there is at most            *)
(* one booking, and then it is not unbooked (Orderly); rows read are rows  *)
(* still (SeenAreRows), since no booking is ever deleted; hence what was   *)
(* found unbooked at the last read cannot have been among the bookings     *)
(* read before (NotInBoth).  A steady receipt is as it was at the first    *)
(* read (SteadyAsSeen).  That the two tables of a report agree is then a   *)
(* matter of regrouping sums.                                              *)
(***************************************************************************)
EXTENDS StatementReport, StatementStore, Sums

Orderly ==
    \A r \in Receipts \ irregular :
        /\ \A j, k \in BookingsOf(r) : j = k
        /\ BookingsOf(r) # {} => receipt[r] \in {"booked", "gone"}

SeenOf(r) == {k \in DOMAIN seen.bookings : seen.bookings[k].origin = r}

SeenAreRows ==
    \A k \in DOMAIN seen.bookings :
        seen.bookings[k].origin = bookings[k].origin /\ bookings[k].inYear

ReadInOrder ==
    /\ pc \in {"idle", "accounts"} => DOMAIN seen.bookings = {}
    /\ pc # "done" => DOMAIN seen.receipts = {}
    /\ pc = "idle" => steady = {}

NotInBoth == \A r \in DOMAIN seen.receipts \ irregular : SeenOf(r) = {}

InYearOf(r) == {k \in BookingsOf(r) : bookings[k].inYear}

SteadyAsSeen ==
    \A r \in steady :
        /\ Regular(r)
        /\ pc \in {"bookings", "done"} => SeenOf(r) = InYearOf(r)
        /\ pc = "done" => (r \in DOMAIN seen.receipts
                             <=> receipt[r] = "unbooked" /\ document[r].inYear)

Entered == {r \in Receipts : receipt[r] # "absent"}

FinitelyMany ==
    /\ IsFiniteSet(Entered) /\ DOMAIN seen.receipts \subseteq Entered
    /\ IsFiniteSet(accounts) /\ IsFiniteSet(seen.accounts)

IInv ==
    /\ TypeOK /\ Orderly /\ SeenAreRows /\ ReadInOrder /\ NotInBoth /\ SteadyAsSeen
    /\ FinitelyMany

-----------------------------------------------------------------------------
(* The tables: what other requests do while a statement is computed.       *)

LEMMA BookingShape ==
    ASSUME TypeOK
    PROVE  /\ Len(bookings) \in Nat /\ DOMAIN bookings = 1 .. Len(bookings)
           /\ \A k \in DOMAIN bookings : bookings[k] \in Booking
  BY DEF TypeOK

LEMMA AmountsAreInt == \A d \in Documents \cup Movements : d.amount \in Int /\ d.amount \in Amounts
  BY ReportConstants DEF Document, Movement, Amounts

\* A receipt there is has a document, and an unbooked one has been offered with it.
Papers ==
    \A r \in Receipts :
        /\ document[r] \in IF receipt[r] \in {"unbooked", "booked"} THEN Documents ELSE {NULL}
        /\ offered[r] \subseteq Documents
        /\ receipt[r] = "unbooked" => document[r] \in offered[r]

\* Rows read keep their type when the table grows or its rows are rewritten.
SeenTyped ==
    /\ DOMAIN seen = {"accounts", "bookings", "receipts"} /\ seen.accounts \subseteq Accounts
    /\ DOMAIN seen.bookings \subseteq DOMAIN bookings
    /\ seen.bookings \in [DOMAIN seen.bookings -> Booking]
    /\ DOMAIN seen.receipts \subseteq Receipts
    /\ seen.receipts \in [DOMAIN seen.receipts -> Documents]

LEMMA TypeParts ==
    TypeOK <=> /\ receipt \in [Receipts -> {"absent", "unbooked", "booked", "gone"}]
               /\ Papers /\ DOMAIN document = Receipts /\ DOMAIN offered = Receipts
               /\ bookings \in Seq(Booking) /\ accounts \subseteq Accounts
               /\ pc \in {"idle", "accounts", "bookings", "done"}
               /\ SeenTyped /\ steady \cup irregular \subseteq Receipts
  BY DEF TypeOK, Papers, SeenTyped

\* A booking that is appended is one more of its origin and of no other.
LEMMA AppendedBooking ==
    ASSUME TypeOK, NEW b \in Booking, bookings' = Append(bookings, b)
    PROVE  /\ bookings' \in Seq(Booking)
           /\ DOMAIN bookings \subseteq DOMAIN bookings'
           /\ \A k \in DOMAIN bookings : bookings'[k] = bookings[k]
           /\ \A r : BookingsOf(r)' = BookingsOf(r) \cup (IF b.origin = r THEN {Len(bookings) + 1}
                                                                         ELSE {})
<1>1. /\ bookings' \in Seq(Booking) /\ Len(bookings') = Len(bookings) + 1
      /\ DOMAIN bookings' = 1 .. Len(bookings) + 1
      /\ \A k \in DOMAIN bookings : bookings'[k] = bookings[k]
      /\ bookings'[Len(bookings) + 1] = b
      /\ Len(bookings) \in Nat /\ DOMAIN bookings = 1 .. Len(bookings)
  BY DEF TypeOK
<1>2. DOMAIN bookings' = DOMAIN bookings \cup {Len(bookings) + 1}
  BY <1>1
<1>. QED BY <1>1, <1>2 DEF BookingsOf

\* Rewriting rows in place takes no booking away from its origin.
LEMMA RewrittenBookings ==
    ASSUME DOMAIN bookings' = DOMAIN bookings,
           \A k \in DOMAIN bookings : bookings'[k].origin = bookings[k].origin
    PROVE  \A r : BookingsOf(r)' = BookingsOf(r)
  BY DEF BookingsOf

\* What the computation relies on when another request writes.
TablesMove ==
    /\ UNCHANGED local
    /\ DOMAIN bookings \subseteq DOMAIN bookings'
    /\ \A k \in DOMAIN bookings :
         bookings'[k].origin = bookings[k].origin /\ bookings'[k].inYear = bookings[k].inYear
    /\ steady' \subseteq steady /\ irregular \subseteq irregular'
    /\ \A r \in steady' : /\ receipt'[r] = receipt[r] /\ document'[r] = document[r]
                          /\ BookingsOf(r)' = BookingsOf(r)
    /\ Entered \subseteq Entered' /\ IsFiniteSet(Entered') /\ IsFiniteSet(accounts')
    /\ TypeOK' /\ Orderly'

LEMMA MovedTablesKeepIInv == IInv /\ TablesMove => IInv'
<1>. SUFFICES ASSUME IInv, TablesMove PROVE IInv'
  OBVIOUS
<1>1. pc' = pc /\ seen' = seen
  BY DEF TablesMove, local
<1>2. DOMAIN seen.bookings \subseteq DOMAIN bookings
  BY TypeParts DEF IInv, SeenTyped
<1>3. SeenAreRows'
  BY <1>1, <1>2 DEF IInv, SeenAreRows, TablesMove
<1>4. ReadInOrder'
  BY <1>1 DEF IInv, ReadInOrder, TablesMove
<1>5. \A r : SeenOf(r)' = SeenOf(r)
  BY <1>1 DEF SeenOf
<1>6. NotInBoth'
  BY <1>1, <1>5 DEF IInv, NotInBoth, TablesMove
<1>7. SteadyAsSeen'
  <2>. SUFFICES ASSUME NEW r \in steady'
                PROVE  /\ Regular(r)'
                       /\ pc' \in {"bookings", "done"} => SeenOf(r)' = InYearOf(r)'
                       /\ pc' = "done" => (r \in DOMAIN seen'.receipts
                              <=> receipt'[r] = "unbooked" /\ document'[r].inYear)
    BY DEF SteadyAsSeen
  <2>1. /\ r \in steady /\ receipt'[r] = receipt[r] /\ document'[r] = document[r]
        /\ BookingsOf(r)' = BookingsOf(r)
    BY DEF TablesMove
  <2>2. InYearOf(r)' = InYearOf(r)
    BY <2>1 DEF InYearOf, TablesMove, BookingsOf
  <2>3. Regular(r)'
    BY <2>1 DEF IInv, SteadyAsSeen, Regular
  <2>. QED BY <1>1, <1>5, <2>1, <2>2, <2>3 DEF IInv, SteadyAsSeen
<1>8. FinitelyMany'
  BY <1>1 DEF IInv, FinitelyMany, TablesMove
<1>. QED BY <1>3, <1>4, <1>6, <1>7, <1>8 DEF IInv, TablesMove

\* A receipt is entered, overwritten or removed; its bookings stay.
ReceiptChange(r, state, d) ==
    /\ receipt' = [receipt EXCEPT ![r] = state]
    /\ document' = [document EXCEPT ![r] = d]
    /\ d \in IF state = "gone" THEN {NULL} ELSE Documents
    /\ DOMAIN offered' = Receipts /\ \A q \in Receipts \ {r} : offered'[q] = offered[q]
    /\ offered'[r] \subseteq Documents /\ (state = "unbooked" => d \in offered'[r])
    /\ state = "unbooked" => BookingsOf(r) = {} \/ r \in irregular'
    /\ irregular \subseteq irregular' /\ irregular' \subseteq irregular \cup {r}
    /\ Touch(r) /\ UNCHANGED <<bookings, accounts, local>>

LEMMA ReceiptChangeMoves ==
    ASSUME IInv, NEW r \in Receipts, NEW state \in {"unbooked", "booked", "gone"}, NEW d,
           ReceiptChange(r, state, d)
    PROVE  TablesMove
<1>. USE DEF ReceiptChange
<1>1. bookings' = bookings /\ accounts' = accounts /\ pc' = pc /\ seen' = seen
  BY DEF local
<1>2. \A q : BookingsOf(q)' = BookingsOf(q)
  BY <1>1 DEF BookingsOf
<1>0. /\ receipt \in [Receipts -> {"absent", "unbooked", "booked", "gone"}]
      /\ Papers /\ DOMAIN document = Receipts
      /\ steady \subseteq Receipts /\ irregular \subseteq Receipts
  BY TypeParts DEF IInv
<1>3. \A q \in Receipts \ {r} : receipt'[q] = receipt[q] /\ document'[q] = document[q]
  BY <1>0
<1>4. receipt'[r] = state /\ document'[r] = d /\ DOMAIN document' = Receipts
  BY <1>0
<1>5. steady' = steady \ {r} /\ steady \subseteq Receipts /\ irregular' \subseteq Receipts
  BY <1>0 DEF Touch
<1>6. TypeOK'
  <2>1. receipt' \in [Receipts -> {"absent", "unbooked", "booked", "gone"}]
    BY <1>0
  <2>2. Papers'
    <3>. SUFFICES ASSUME NEW q \in Receipts
                  PROVE  /\ document'[q] \in IF receipt'[q] \in {"unbooked", "booked"}
                                             THEN Documents ELSE {NULL}
                         /\ offered'[q] \subseteq Documents
                         /\ receipt'[q] = "unbooked" => document'[q] \in offered'[q]
      BY DEF Papers
    <3>1. CASE q = r
      BY <1>4, <3>1
    <3>2. CASE q # r
      BY <1>0, <1>3, <3>2 DEF Papers
    <3>. QED BY <3>1, <3>2
  <2>3. SeenTyped'
    BY <1>1, TypeParts DEF IInv, SeenTyped
  <2>4. bookings \in Seq(Booking) /\ accounts \subseteq Accounts
        /\ pc \in {"idle", "accounts", "bookings", "done"}
    BY TypeParts DEF IInv
  <2>5. bookings' \in Seq(Booking)'
    BY <1>1, <2>4 DEF Booking, Amounts
  <2>. QED BY <1>1, <1>4, <1>5, <2>1, <2>2, <2>3, <2>4, <2>5, TypeParts DEF TypeOK, Papers, SeenTyped
<1>7. Orderly'
  <2>. SUFFICES ASSUME NEW q \in Receipts \ irregular'
                PROVE  /\ \A j, k \in BookingsOf(q)' : j = k
                       /\ BookingsOf(q)' # {} => receipt'[q] \in {"booked", "gone"}
    BY DEF Orderly
  <2>1. q \in Receipts \ irregular
    OBVIOUS
  <2>2. /\ \A j, k \in BookingsOf(q) : j = k
        /\ BookingsOf(q) # {} => receipt[q] \in {"booked", "gone"}
    BY <2>1 DEF IInv, Orderly
  <2>3. CASE q = r
    BY <1>2, <1>4, <2>2, <2>3
  <2>4. CASE q # r
    BY <1>2, <1>3, <2>1, <2>2, <2>4
  <2>. QED BY <2>3, <2>4
<1>8. Entered' = Entered \cup {r}
  BY <1>3, <1>4 DEF Entered
<1>9. IsFiniteSet(Entered') /\ IsFiniteSet(accounts')
  BY <1>1, <1>8, FS_AddElement DEF IInv, FinitelyMany
<1>. QED BY <1>1, <1>2, <1>3, <1>5, <1>6, <1>7, <1>8, <1>9 DEF TablesMove, local

\* A booking that is made of a receipt: either the first one, or the receipt is
\* irregular from now on.
LEMMA BookReceiptMoves ==
    ASSUME IInv, NEW r \in Receipts, NEW d \in offered[r], BookReceipt(r, d)
    PROVE  TablesMove
<1>0. /\ receipt \in [Receipts -> {"absent", "unbooked", "booked", "gone"}]
      /\ Papers /\ DOMAIN document = Receipts /\ DOMAIN offered = Receipts
      /\ steady \subseteq Receipts /\ irregular \subseteq Receipts
      /\ accounts \subseteq Accounts /\ pc \in {"idle", "accounts", "bookings", "done"}
  BY TypeParts DEF IInv
<1>1. /\ accounts' = accounts /\ pc' = pc /\ seen' = seen
      /\ document' = document /\ offered' = offered
      /\ receipt[r] \in {"unbooked", "booked"}
      /\ receipt' = [receipt EXCEPT ![r] = "booked"]
      /\ bookings' = Append(bookings, BookingOfReceipt(r, d))
      /\ irregular' = IF BookingsOf(r) = {} THEN irregular ELSE irregular \cup {r}
      /\ steady' = steady \ {r}
  BY DEF BookReceipt, local, Touch
<1>2. BookingOfReceipt(r, d) \in Booking /\ BookingOfReceipt(r, d).origin = r
  <2>1. d \in Documents
    BY <1>0 DEF Papers
  <2>2. d.inYear \in BOOLEAN /\ d.amount \in Amounts
    BY <2>1, AmountsAreInt, ReportConstants DEF Document
  <2>. QED BY <2>2 DEF BookingOfReceipt, Booking
<1>. DEFINE b == BookingOfReceipt(r, d)  new == Len(bookings) + 1
<1>. HIDE DEF b
<1>3. /\ bookings' \in Seq(Booking) /\ DOMAIN bookings \subseteq DOMAIN bookings'
      /\ \A k \in DOMAIN bookings : bookings'[k] = bookings[k]
      /\ \A q : BookingsOf(q)' = BookingsOf(q) \cup (IF b.origin = q THEN {new} ELSE {})
  BY <1>1, <1>2, AppendedBooking DEF IInv, b
<1>4. \A q \in Receipts \ {r} : receipt'[q] = receipt[q] /\ BookingsOf(q)' = BookingsOf(q)
  BY <1>0, <1>1, <1>2, <1>3 DEF b
<1>5. receipt'[r] = "booked" /\ BookingsOf(r)' = BookingsOf(r) \cup {new}
  BY <1>0, <1>1, <1>2, <1>3 DEF b
<1>6. steady \subseteq Receipts /\ irregular' \subseteq Receipts
  BY <1>0, <1>1
<1>7. TypeOK'
  <2>1. receipt' \in [Receipts -> {"absent", "unbooked", "booked", "gone"}]
    BY <1>0, <1>1
  <2>2. SeenTyped'
    BY <1>1, <1>3, TypeParts DEF IInv, SeenTyped
  <2>3. Papers'
    <3>. SUFFICES ASSUME NEW q \in Receipts
                  PROVE  /\ document[q] \in IF receipt'[q] \in {"unbooked", "booked"}
                                            THEN Documents ELSE {NULL}
                         /\ offered[q] \subseteq Documents
                         /\ receipt'[q] = "unbooked" => document[q] \in offered[q]
      BY <1>1 DEF Papers
    <3>1. CASE q = r
      BY <1>0, <1>1, <1>5, <3>1 DEF Papers
    <3>2. CASE q # r
      BY <1>0, <1>4, <3>2 DEF Papers
    <3>. QED BY <3>1, <3>2
  <2>4. bookings' \in Seq(Booking)'
    BY <1>3 DEF Booking, Amounts
  <2>. QED BY <1>0, <1>1, <1>6, <2>1, <2>2, <2>3, <2>4 DEF TypeOK, Papers, SeenTyped
<1>8. Orderly'
  <2>. SUFFICES ASSUME NEW q \in Receipts \ irregular'
                PROVE  /\ \A j, k \in BookingsOf(q)' : j = k
                       /\ BookingsOf(q)' # {} => receipt'[q] \in {"booked", "gone"}
    BY DEF Orderly
  <2>1. CASE q = r
    <3>1. BookingsOf(r) = {}
      BY <1>1, <2>1
    <3>. QED BY <1>5, <2>1, <3>1
  <2>2. CASE q # r
    BY <1>1, <1>4, <2>2 DEF IInv, Orderly
  <2>. QED BY <2>1, <2>2
<1>9. Entered' = Entered \cup {r}
  BY <1>4, <1>5 DEF Entered
<1>10. IsFiniteSet(Entered') /\ IsFiniteSet(accounts')
  BY <1>1, <1>9, FS_AddElement DEF IInv, FinitelyMany
<1>. QED BY <1>1, <1>3, <1>4, <1>6, <1>7, <1>8, <1>9, <1>10 DEF TablesMove, local

\* Bookings that come from the bank or are rewritten leave receipts alone.
LEMMA OtherBookingsMove ==
    ASSUME IInv, UNCHANGED <<papers, local, history>>,
           bookings' \in Seq(Booking), accounts' \subseteq Accounts, IsFiniteSet(accounts'),
           DOMAIN bookings \subseteq DOMAIN bookings',
           \A k \in DOMAIN bookings :
             bookings'[k].origin = bookings[k].origin /\ bookings'[k].inYear = bookings[k].inYear,
           \A r \in Receipts : BookingsOf(r)' = BookingsOf(r)
    PROVE  TablesMove
<1>1. /\ receipt' = receipt /\ document' = document /\ pc' = pc /\ seen' = seen
      /\ steady' = steady /\ irregular' = irregular /\ offered' = offered
  BY DEF local, history, papers
<1>2. steady \subseteq Receipts
  BY TypeParts DEF IInv
<1>3. TypeOK'
  <2>1. SeenTyped'
    BY <1>1, TypeParts DEF IInv, SeenTyped
  <2>2. bookings' \in Seq(Booking)'
    BY DEF Booking, Amounts
  <2>3. Papers'
    BY <1>1, TypeParts DEF IInv, Papers
  <2>. QED BY <1>1, <2>1, <2>2, <2>3, TypeParts DEF IInv, TypeOK, Papers, SeenTyped
<1>4. Orderly'
  BY <1>1 DEF IInv, Orderly
<1>5. Entered' = Entered
  BY <1>1 DEF Entered
<1>. QED BY <1>1, <1>2, <1>3, <1>4, <1>5 DEF TablesMove, local, IInv, FinitelyMany

LEMMA BookkeepingMoves == IInv /\ Bookkeeping => TablesMove
<1>. SUFFICES ASSUME IInv, Bookkeeping PROVE TablesMove
  OBVIOUS
<1>0. /\ receipt \in [Receipts -> {"absent", "unbooked", "booked", "gone"}]
      /\ irregular \subseteq Receipts /\ bookings \in Seq(Booking)
      /\ accounts \subseteq Accounts /\ IsFiniteSet(accounts)
      /\ Papers /\ DOMAIN offered = Receipts
  BY TypeParts DEF IInv, FinitelyMany
<1>9. ASSUME NEW r \in Receipts, NEW state \in {"unbooked", "booked"}, NEW d \in Documents,
             Offer(r, state, d)
      PROVE  /\ DOMAIN offered' = Receipts /\ \A q \in Receipts \ {r} : offered'[q] = offered[q]
             /\ offered'[r] \subseteq Documents /\ (state = "unbooked" => d \in offered'[r])
  BY <1>0, <1>9 DEF Offer, Papers
<1>1. ASSUME NEW r \in Receipts, NEW state \in {"unbooked", "booked"}, NEW d \in Documents,
             EnterReceipt(r, state, d)
      PROVE  TablesMove
  <2>1. BookingsOf(r) = {} \/ r \in irregular
    BY <1>1 DEF EnterReceipt, IInv, Orderly
  <2>2. /\ receipt' = [receipt EXCEPT ![r] = state] /\ document' = [document EXCEPT ![r] = d]
        /\ Offer(r, state, d) /\ Touch(r)
        /\ UNCHANGED <<bookings, accounts, local>> /\ irregular' = irregular
    BY <1>1 DEF EnterReceipt
  <2>3. /\ DOMAIN offered' = Receipts /\ \A q \in Receipts \ {r} : offered'[q] = offered[q]
        /\ offered'[r] \subseteq Documents /\ (state = "unbooked" => d \in offered'[r])
    BY <1>9, <2>2
  <2>4. /\ d \in IF state = "gone" THEN {NULL} ELSE Documents
        /\ irregular \subseteq irregular' /\ irregular' \subseteq irregular \cup {r}
        /\ state \in {"unbooked", "booked", "gone"}
        /\ state = "unbooked" => BookingsOf(r) = {} \/ r \in irregular'
    BY <2>1, <2>2
  <2>5. ReceiptChange(r, state, d)
    BY <2>2, <2>3, <2>4 DEF ReceiptChange
  <2>. QED BY <2>4, <2>5, ReceiptChangeMoves
<1>2. ASSUME NEW r \in Receipts, NEW state \in {"unbooked", "booked"}, NEW d \in Documents,
             UpdateReceipt(r, state, d)
      PROVE  TablesMove
  <2>1. /\ receipt' = [receipt EXCEPT ![r] = state] /\ document' = [document EXCEPT ![r] = d]
        /\ Offer(r, state, d) /\ Touch(r)
        /\ UNCHANGED <<bookings, accounts, local>>
        /\ irregular' = IF state = receipt[r] \/ BookingsOf(r) = {} THEN irregular
                                                                   ELSE irregular \cup {r}
    BY <1>2 DEF UpdateReceipt
  <2>2. state = "unbooked" => BookingsOf(r) = {} \/ r \in irregular'
    BY <2>1 DEF IInv, Orderly
  <2>3. /\ DOMAIN offered' = Receipts /\ \A q \in Receipts \ {r} : offered'[q] = offered[q]
        /\ offered'[r] \subseteq Documents /\ (state = "unbooked" => d \in offered'[r])
    BY <1>9, <2>1
  <2>4. /\ d \in IF state = "gone" THEN {NULL} ELSE Documents
        /\ irregular \subseteq irregular' /\ irregular' \subseteq irregular \cup {r}
        /\ state \in {"unbooked", "booked", "gone"}
    BY <2>1
  <2>5. ReceiptChange(r, state, d)
    BY <2>1, <2>2, <2>3, <2>4 DEF ReceiptChange
  <2>. QED BY <2>4, <2>5, ReceiptChangeMoves
<1>3. ASSUME NEW r \in Receipts, RemoveReceipt(r) PROVE TablesMove
  <2>1. /\ receipt' = [receipt EXCEPT ![r] = "gone"] /\ document' = [document EXCEPT ![r] = NULL]
        /\ offered' = [offered EXCEPT ![r] = {}] /\ Touch(r)
        /\ UNCHANGED <<bookings, accounts, local>> /\ irregular' = irregular
    BY <1>3 DEF RemoveReceipt
  <2>2. /\ DOMAIN offered' = Receipts /\ offered'[r] = {}
        /\ \A q \in Receipts \ {r} : offered'[q] = offered[q]
    BY <1>0, <2>1
  <2>3. ReceiptChange(r, "gone", NULL)
    BY <2>1, <2>2 DEF ReceiptChange
  <2>. QED BY <2>3, ReceiptChangeMoves
<1>4. ASSUME NEW r \in Receipts, NEW d \in offered[r], BookReceipt(r, d) PROVE TablesMove
  BY <1>4, BookReceiptMoves
<1>5. ASSUME NEW i \in Imports, NEW a \in Accounts, NEW m \in Movements, CommitImport(i, a, m)
      PROVE  TablesMove
  <2>. DEFINE b == [origin |-> i, bank |-> a, assigned |-> NULL,
                    amount |-> m.amount, inYear |-> m.inYear]
  <2>1. b \in Booking /\ b.origin = i
    <3>1. m.inYear \in BOOLEAN /\ m.amount \in Amounts
      BY AmountsAreInt, ReportConstants DEF Movement
    <3>. QED BY <3>1 DEF Booking
  <2>2. bookings' = Append(bookings, b) /\ accounts' = accounts /\ UNCHANGED <<papers, local, history>>
    BY <1>5 DEF CommitImport
  <2>. HIDE DEF b
  <2>3. \A r \in Receipts : b.origin # r
    BY <2>1, ReportConstants
  <2>4. /\ bookings' \in Seq(Booking) /\ DOMAIN bookings \subseteq DOMAIN bookings'
        /\ \A k \in DOMAIN bookings : bookings'[k] = bookings[k]
        /\ \A r : BookingsOf(r)' = BookingsOf(r) \cup (IF b.origin = r THEN {Len(bookings) + 1}
                                                                      ELSE {})
    BY <2>1, <2>2, AppendedBooking DEF IInv
  <2>5. \A r \in Receipts : BookingsOf(r)' = BookingsOf(r)
    BY <2>3, <2>4
  <2>. QED BY <1>0, <2>2, <2>4, <2>5, OtherBookingsMove
<1>6. ASSUME NEW k \in DOMAIN bookings, NEW b \in BookingAccounts \cup {NULL}, AssignBooking(k, b)
      PROVE  TablesMove
  <2>1. bookings' = [bookings EXCEPT ![k].assigned = b] /\ accounts' = accounts
        /\ UNCHANGED <<papers, local, history>>
    BY <1>6 DEF AssignBooking
  <2>2. [bookings[k] EXCEPT !.assigned = b] \in Booking
        /\ [bookings[k] EXCEPT !.assigned = b].origin = bookings[k].origin
        /\ [bookings[k] EXCEPT !.assigned = b].inYear = bookings[k].inYear
    BY BookingShape DEF IInv, Booking
  <2>3. /\ bookings' \in Seq(Booking) /\ DOMAIN bookings' = DOMAIN bookings
        /\ \A j \in DOMAIN bookings :
             bookings'[j].origin = bookings[j].origin /\ bookings'[j].inYear = bookings[j].inYear
    BY <1>0, <2>1, <2>2
  <2>. QED BY <1>0, <2>1, <2>3, RewrittenBookings, OtherBookingsMove
<1>7. ASSUME NEW a \in Accounts, OpenAccount(a) PROVE TablesMove
  <2>1. /\ accounts' = accounts \cup {a} /\ bookings' = bookings
        /\ UNCHANGED <<papers, local, history>>
    BY <1>7 DEF OpenAccount
  <2>2. IsFiniteSet(accounts')
    BY <1>0, <2>1, FS_AddElement
  <2>. QED BY <1>0, <2>1, <2>2, RewrittenBookings, OtherBookingsMove
<1>8. ASSUME NEW a \in Accounts, CloseAccount(a) PROVE TablesMove
  <2>1. /\ accounts' = accounts \ {a}
        /\ bookings' = [k \in DOMAIN bookings |->
                          IF bookings[k].bank = a THEN [bookings[k] EXCEPT !.bank = NULL]
                                                  ELSE bookings[k]]
        /\ UNCHANGED <<papers, local, history>>
    BY <1>8 DEF CloseAccount
  <2>2. IsFiniteSet(accounts')
    BY <1>0, <2>1, FS_Subset
  <2>3. \A k \in DOMAIN bookings :
          /\ bookings'[k] \in Booking /\ bookings'[k].origin = bookings[k].origin
          /\ bookings'[k].inYear = bookings[k].inYear
    BY <2>1, BookingShape DEF IInv, Booking
  <2>4. bookings' \in Seq(Booking) /\ DOMAIN bookings' = DOMAIN bookings
    BY <2>1, <2>3, BookingShape DEF IInv
  <2>. QED BY <1>0, <2>1, <2>2, <2>3, <2>4, RewrittenBookings, OtherBookingsMove
<1>. QED BY <1>1, <1>2, <1>3, <1>4, <1>5, <1>6, <1>7, <1>8 DEF Bookkeeping

-----------------------------------------------------------------------------
(* The reads of the computation.                                           *)

LEMMA InitInv == Init => IInv
<1>. SUFFICES ASSUME Init PROVE IInv
  OBVIOUS
<1>1. /\ receipt = [r \in Receipts |-> "absent"] /\ document = [r \in Receipts |-> NULL]
      /\ offered = [r \in Receipts |-> {}] /\ bookings = <<>> /\ accounts = {}
      /\ pc = "idle" /\ steady = {} /\ irregular = {}
      /\ seen = [accounts |-> {}, bookings |-> <<>>, receipts |-> <<>>]
  BY DEF Init, Nothing
<1>2. /\ DOMAIN bookings = {} /\ bookings \in Seq(Booking)
      /\ DOMAIN seen.bookings = {} /\ DOMAIN seen.receipts = {}
      /\ seen.bookings \in [{} -> Booking] /\ seen.receipts \in [{} -> Documents]
  BY <1>1
<1>3. SeenTyped
  BY <1>1, <1>2 DEF SeenTyped
<1>4. Papers
  BY <1>1 DEF Papers
<1>5. TypeOK
  BY <1>1, <1>2, <1>3, <1>4, TypeParts
<1>6. \A r : BookingsOf(r) = {}
  BY <1>2 DEF BookingsOf
<1>7. Entered = {}
  BY <1>1 DEF Entered
<1>. QED
  BY <1>1, <1>2, <1>5, <1>6, <1>7, FS_EmptySet
     DEF IInv, Orderly, SeenAreRows, ReadInOrder, NotInBoth, SteadyAsSeen, FinitelyMany

\* A read changes nothing that Orderly speaks of; what it has read has to be typed.
LEMMA TablesStay ==
    ASSUME IInv, UNCHANGED <<tables, past>>
    PROVE  /\ Orderly' /\ \A r : /\ BookingsOf(r)' = BookingsOf(r) /\ Regular(r)' = Regular(r)
                                 /\ InYearOf(r)' = InYearOf(r)
           /\ Entered' = Entered /\ bookings' = bookings /\ receipt' = receipt
           /\ document' = document /\ accounts' = accounts /\ irregular' = irregular
           /\ steady' \subseteq Receipts /\ pc' \in {"idle", "accounts", "bookings", "done"}
                /\ SeenTyped' => TypeOK'
<1>1. /\ bookings' = bookings /\ receipt' = receipt /\ accounts' = accounts
      /\ irregular' = irregular /\ document' = document /\ offered' = offered
  BY DEF tables, past
<1>2. \A r : BookingsOf(r)' = BookingsOf(r)
  BY <1>1 DEF BookingsOf
<1>3. \A r : InYearOf(r)' = InYearOf(r)
  BY <1>1, <1>2 DEF InYearOf
<1>4. ASSUME steady' \subseteq Receipts, pc' \in {"idle", "accounts", "bookings", "done"}, SeenTyped'
      PROVE  TypeOK'
  <2>1. Papers'
    BY <1>1, TypeParts DEF IInv, Papers
  <2>2. bookings' \in Seq(Booking)'
    BY <1>1, TypeParts DEF IInv, Booking, Amounts
  <2>. QED BY <1>1, <1>4, <2>1, <2>2, TypeParts DEF IInv, TypeOK, Papers, SeenTyped
<1>5. Orderly' /\ Entered' = Entered /\ \A r : Regular(r)' = Regular(r)
  BY <1>1, <1>2 DEF IInv, Orderly, Regular, Entered
<1>. QED BY <1>1, <1>2, <1>3, <1>4, <1>5

LEMMA ReadAccountsKeeps == IInv /\ ReadAccounts => IInv'
<1>. SUFFICES ASSUME IInv, ReadAccounts PROVE IInv'
  OBVIOUS
<1>1. /\ pc = "idle" /\ pc' = "accounts" /\ UNCHANGED <<tables, past>>
      /\ seen' = [seen EXCEPT !.accounts = accounts]
      /\ steady' = {r \in Receipts : Regular(r)}
  BY DEF ReadAccounts
<1>2. /\ Orderly' /\ \A r : /\ BookingsOf(r)' = BookingsOf(r) /\ Regular(r)' = Regular(r)
                            /\ InYearOf(r)' = InYearOf(r)
      /\ Entered' = Entered /\ bookings' = bookings /\ receipt' = receipt
      /\ document' = document /\ accounts' = accounts /\ irregular' = irregular
      /\ steady' \subseteq Receipts /\ pc' \in {"idle", "accounts", "bookings", "done"}
           /\ SeenTyped' => TypeOK'
  BY <1>1, TablesStay
<1>3. /\ seen'.accounts = accounts /\ seen'.bookings = seen.bookings
      /\ seen'.receipts = seen.receipts
  BY <1>1, TypeParts DEF IInv, SeenTyped
<1>4. TypeOK'
  <2>1. SeenTyped'
    BY <1>1, <1>2, <1>3, TypeParts DEF IInv, SeenTyped, Booking, Amounts
  <2>. QED BY <1>1, <1>2, <2>1
<1>5. \A r : SeenOf(r)' = SeenOf(r)
  BY <1>3 DEF SeenOf
<1>6. SteadyAsSeen'
  BY <1>1, <1>2 DEF SteadyAsSeen
<1>. QED
  BY <1>1, <1>2, <1>3, <1>4, <1>5, <1>6
     DEF IInv, SeenAreRows, ReadInOrder, NotInBoth, FinitelyMany

LEMMA ReadBookingsKeeps == IInv /\ ReadBookings => IInv'
<1>. SUFFICES ASSUME IInv, ReadBookings PROVE IInv'
  OBVIOUS
<1>. DEFINE Found == {j \in DOMAIN bookings : bookings[j].inYear}
            rows == [k \in Found |-> bookings[k]]
<1>1. /\ pc = "accounts" /\ pc' = "bookings" /\ UNCHANGED <<tables, past>> /\ steady' = steady
      /\ seen' = [seen EXCEPT !.bookings = rows]
  BY DEF ReadBookings, AllBookings, history, past
<1>2. /\ Orderly' /\ \A r : /\ BookingsOf(r)' = BookingsOf(r) /\ Regular(r)' = Regular(r)
                            /\ InYearOf(r)' = InYearOf(r)
      /\ Entered' = Entered /\ bookings' = bookings /\ receipt' = receipt
      /\ document' = document /\ accounts' = accounts /\ irregular' = irregular
      /\ steady' \subseteq Receipts /\ pc' \in {"idle", "accounts", "bookings", "done"}
           /\ SeenTyped' => TypeOK'
  BY <1>1, TablesStay
<1>3. /\ seen'.accounts = seen.accounts /\ seen'.bookings = rows
      /\ seen'.receipts = seen.receipts /\ DOMAIN seen.receipts = {}
      /\ DOMAIN seen' = DOMAIN seen
  BY <1>1, TypeParts DEF IInv, SeenTyped, ReadInOrder
<1>4. rows \in [Found -> Booking]
  BY BookingShape DEF IInv
<1>5. DOMAIN rows \subseteq DOMAIN bookings /\ rows \in [DOMAIN rows -> Booking]
  BY <1>4
<1>6. TypeOK'
  <2>. HIDE DEF rows
  <2>1. SeenTyped'
    BY <1>2, <1>3, <1>5, TypeParts DEF IInv, SeenTyped, Booking, Amounts
  <2>2. steady' \subseteq Receipts
    BY <1>1, TypeParts DEF IInv
  <2>. QED BY <1>1, <1>2, <2>1, <2>2
<1>7. DOMAIN rows = Found
      /\ \A k \in Found : rows[k].origin = bookings[k].origin /\ bookings[k].inYear
  OBVIOUS
<1>8. SeenAreRows'
  BY <1>2, <1>3, <1>7 DEF SeenAreRows
<1>9. \A r : SeenOf(r)' = InYearOf(r)
  BY <1>3, <1>7 DEF SeenOf, InYearOf, BookingsOf
<1>. HIDE DEF rows, Found
<1>10. SteadyAsSeen'
  BY <1>1, <1>2, <1>9 DEF IInv, SteadyAsSeen
<1>. QED
  BY <1>1, <1>2, <1>3, <1>6, <1>8, <1>10 DEF IInv, ReadInOrder, NotInBoth, FinitelyMany

\* What is unbooked now has no booking, so it was not among the bookings read.
LEMMA ReadReceiptsKeeps == IInv /\ ReadReceipts => IInv'
<1>. SUFFICES ASSUME IInv, ReadReceipts PROVE IInv'
  OBVIOUS
<1>. DEFINE found == [r \in UnbookedReceipts |-> document[r]]
<1>1. /\ pc = "bookings" /\ pc' = "done" /\ UNCHANGED <<tables, past>> /\ steady' = steady
      /\ seen' = [seen EXCEPT !.receipts = found]
  BY DEF ReadReceipts, history, past
<1>2. /\ Orderly' /\ \A r : /\ BookingsOf(r)' = BookingsOf(r) /\ Regular(r)' = Regular(r)
                            /\ InYearOf(r)' = InYearOf(r)
      /\ Entered' = Entered /\ bookings' = bookings /\ receipt' = receipt
      /\ document' = document /\ accounts' = accounts /\ irregular' = irregular
      /\ steady' \subseteq Receipts /\ pc' \in {"idle", "accounts", "bookings", "done"}
           /\ SeenTyped' => TypeOK'
  BY <1>1, TablesStay
<1>3. /\ seen'.accounts = seen.accounts /\ seen'.bookings = seen.bookings
      /\ DOMAIN seen'.receipts = UnbookedReceipts /\ seen'.receipts = found
      /\ DOMAIN seen' = DOMAIN seen
  BY <1>1, TypeParts DEF IInv, SeenTyped
<1>4. \A r : SeenOf(r)' = SeenOf(r)
  BY <1>3 DEF SeenOf
<1>5. \A r : r \in UnbookedReceipts
              <=> r \in Receipts /\ receipt[r] = "unbooked" /\ document[r].inYear
  BY DEF UnbookedReceipts
<1>6. TypeOK'
  <2>1. found \in [UnbookedReceipts -> Documents]
    BY <1>5, TypeParts DEF IInv, Papers
  <2>. HIDE DEF found
  <2>2. SeenTyped'
    BY <1>2, <1>3, <1>5, <2>1, TypeParts DEF IInv, SeenTyped, Booking, Amounts
  <2>3. steady' \subseteq Receipts
    BY <1>1, TypeParts DEF IInv
  <2>. QED BY <1>1, <1>2, <2>2, <2>3
<1>7. NotInBoth'
  <2>. SUFFICES ASSUME NEW r \in UnbookedReceipts, r \notin irregular PROVE SeenOf(r) = {}
    BY <1>2, <1>3, <1>4 DEF NotInBoth
  <2>1. BookingsOf(r) = {}
    BY <1>5 DEF IInv, Orderly
  <2>2. DOMAIN seen.bookings \subseteq DOMAIN bookings
    BY TypeParts DEF IInv, SeenTyped
  <2>3. SeenOf(r) \subseteq BookingsOf(r)
    BY <2>2 DEF IInv, SeenAreRows, SeenOf, BookingsOf
  <2>. QED BY <2>1, <2>3
<1>8. SteadyAsSeen'
  <2>1. steady \subseteq Receipts
    BY TypeParts DEF IInv
  <2>. HIDE DEF found
  <2>. QED BY <1>1, <1>2, <1>3, <1>4, <1>5, <2>1 DEF IInv, SteadyAsSeen
<1>9. FinitelyMany'
  <2>1. UnbookedReceipts \subseteq Entered
    BY <1>5 DEF Entered
  <2>. QED BY <1>2, <1>3, <2>1 DEF IInv, FinitelyMany
<1>. QED
  BY <1>1, <1>2, <1>3, <1>6, <1>7, <1>8, <1>9 DEF IInv, SeenAreRows, ReadInOrder

LEMMA ReadReceiptsFailsKeeps == IInv /\ ReadReceiptsFails => IInv'
<1>. SUFFICES ASSUME IInv, ReadReceiptsFails PROVE IInv'
  OBVIOUS
<1>1. /\ pc = "bookings" /\ pc' = "done" /\ UNCHANGED <<tables, past>>
      /\ seen' = seen /\ steady' = {}
  BY DEF ReadReceiptsFails
<1>2. /\ Orderly' /\ \A r : /\ BookingsOf(r)' = BookingsOf(r) /\ Regular(r)' = Regular(r)
                            /\ InYearOf(r)' = InYearOf(r)
      /\ Entered' = Entered /\ bookings' = bookings /\ receipt' = receipt
      /\ document' = document /\ accounts' = accounts /\ irregular' = irregular
      /\ steady' \subseteq Receipts /\ pc' \in {"idle", "accounts", "bookings", "done"}
           /\ SeenTyped' => TypeOK'
  BY <1>1, TablesStay
<1>3. TypeOK'
  <2>1. SeenTyped'
    BY <1>1, <1>2, TypeParts DEF IInv, SeenTyped, Booking, Amounts
  <2>. QED BY <1>1, <1>2, <2>1
<1>4. \A r : SeenOf(r)' = SeenOf(r)
  BY <1>1 DEF SeenOf
<1>. QED
  BY <1>1, <1>2, <1>3, <1>4
     DEF IInv, SeenAreRows, ReadInOrder, NotInBoth, SteadyAsSeen, FinitelyMany

LEMMA LeaveKeeps == IInv /\ Leave => IInv'
<1>. SUFFICES ASSUME IInv, Leave PROVE IInv'
  OBVIOUS
<1>1. /\ pc' = "idle" /\ UNCHANGED <<tables, past>> /\ steady' = {}
      /\ seen' = [accounts |-> {}, bookings |-> <<>>, receipts |-> <<>>]
  BY DEF Leave, Nothing
<1>2. /\ Orderly' /\ \A r : /\ BookingsOf(r)' = BookingsOf(r) /\ Regular(r)' = Regular(r)
                            /\ InYearOf(r)' = InYearOf(r)
      /\ Entered' = Entered /\ bookings' = bookings /\ receipt' = receipt
      /\ document' = document /\ accounts' = accounts /\ irregular' = irregular
      /\ steady' \subseteq Receipts /\ pc' \in {"idle", "accounts", "bookings", "done"}
           /\ SeenTyped' => TypeOK'
  BY <1>1, TablesStay
<1>3. /\ DOMAIN seen'.bookings = {} /\ seen'.bookings \in [{} -> Booking]
      /\ DOMAIN seen'.receipts = {} /\ seen'.receipts \in [{} -> Documents]
  BY <1>1
<1>5. TypeOK'
  <2>1. SeenTyped'
    BY <1>1, <1>3 DEF SeenTyped
  <2>. QED BY <1>1, <1>2, <2>1
<1>. QED
  BY <1>1, <1>2, <1>3, <1>5, FS_EmptySet
     DEF IInv, SeenAreRows, ReadInOrder, NotInBoth, SteadyAsSeen, FinitelyMany

LEMMA StepInv == IInv /\ [Next]_vars => IInv'
<1>. SUFFICES ASSUME IInv, [Next]_vars PROVE IInv'
  OBVIOUS
<1>1. CASE Bookkeeping
  BY <1>1, BookkeepingMoves, MovedTablesKeepIInv
<1>2. CASE Compute
  BY <1>2, ReadAccountsKeeps, ReadBookingsKeeps, ReadReceiptsKeeps, ReadReceiptsFailsKeeps,
     LeaveKeeps DEF Compute
<1>3. CASE UNCHANGED vars
  <2>1. /\ UNCHANGED <<tables, past>> /\ pc' = pc /\ seen' = seen /\ steady' = steady
    BY <1>3 DEF vars, tables, past
  <2>2. /\ Orderly' /\ \A r : BookingsOf(r)' = BookingsOf(r)
        /\ Entered' = Entered /\ bookings' = bookings /\ receipt' = receipt
        /\ document' = document /\ accounts' = accounts /\ irregular' = irregular
        /\ steady' \subseteq Receipts /\ pc' \in {"idle", "accounts", "bookings", "done"}
             /\ SeenTyped' => TypeOK'
    BY <2>1, TablesStay
  <2>3. TypeOK'
    <3>1. SeenTyped'
      BY <2>1, <2>2, TypeParts DEF IInv, SeenTyped, Booking, Amounts
    <3>2. steady' \subseteq Receipts /\ pc' \in {"idle", "accounts", "bookings", "done"}
      BY <2>1, TypeParts DEF IInv
    <3>. QED BY <2>2, <3>1, <3>2
  <2>4. TablesMove
    BY <2>1, <2>2, <2>3 DEF TablesMove, local, IInv, FinitelyMany
  <2>. QED BY <2>4, MovedTablesKeepIInv
<1>. QED BY <1>1, <1>2, <1>3 DEF Next

\* What was read and the tables as they are now stay in this relation.
THEOREM Invariance == Spec => []IInv
  BY InitInv, StepInv, PTL DEF Spec

\* The tables and what was read of them keep their shape.
THEOREM TypeCorrect == Spec => []TypeOK
<1>1. IInv => TypeOK
  BY DEF IInv
<1>. QED BY <1>1, Invariance, PTL

-----------------------------------------------------------------------------
(* The lines of a report.                                                  *)

\* Every line has a category and a whole amount.
LEMMA ItemShape ==
    ASSUME TypeOK, NEW i \in Items(seen)
    PROVE  i.category \in Categories /\ i.amount \in Int
<1>1. seen.bookings \in [DOMAIN seen.bookings -> Booking]
      /\ seen.receipts \in [DOMAIN seen.receipts -> Documents]
  BY TypeParts DEF SeenTyped
<1>2. CASE \E k \in DOMAIN seen.bookings : i = BookingItem(seen.bookings, k)
  <2>1. PICK k \in DOMAIN seen.bookings : i = BookingItem(seen.bookings, k)
    BY <1>2
  <2>. DEFINE b == seen.bookings[k]
  <2>2. b \in Booking
    BY <1>1
  <2>3. /\ i.category = IF b.assigned = NULL THEN Sammelposten ELSE Majority[b.assigned]
        /\ i.amount = b.amount
    BY <2>1 DEF BookingItem
  <2>. HIDE DEF b
  <2>4. b.amount \in Int
    BY <2>2, AmountsAreInt DEF Booking, Amounts
  <2>. QED BY <2>2, <2>3, <2>4, ReportConstants DEF Booking, Categories
<1>3. CASE \E r \in DOMAIN seen.receipts : i = ReceiptItem(r, seen.receipts[r])
  <2>1. PICK r \in DOMAIN seen.receipts : i = ReceiptItem(r, seen.receipts[r])
    BY <1>3
  <2>. DEFINE d == seen.receipts[r]
  <2>2. d.amount \in Int
    BY <1>1, AmountsAreInt
  <2>3. /\ i.category = IF d.position \in Categories THEN d.position ELSE Sammelposten
        /\ i.amount = IF d.expense THEN -Abs(d.amount) ELSE Abs(d.amount)
    BY <2>1 DEF ReceiptItem
  <2>. HIDE DEF d
  <2>4. Abs(d.amount) \in Int /\ -Abs(d.amount) \in Int
    BY <2>2 DEF Abs
  <2>. QED BY <2>3, <2>4 DEF Categories
<1>. QED BY <1>2, <1>3 DEF Items

\* No line is lost in the grouping by category.
LEMMA LinesAreItems == TypeOK => Lines = Items(seen)
  BY ItemShape DEF Lines, Details

\* The lines of a receipt: its bookings that were read, and itself if it was
\* read as unbooked.
LEMMA LinesOfReceipt ==
    ASSUME TypeOK, NEW r
    PROVE  {i \in Lines : i.origin = r}
             = {BookingItem(seen.bookings, k) : k \in SeenOf(r)}
                 \cup (IF r \in DOMAIN seen.receipts THEN {ReceiptItem(r, seen.receipts[r])} ELSE {})
<1>1. \A k \in DOMAIN seen.bookings :
        BookingItem(seen.bookings, k).origin = seen.bookings[k].origin
  BY DEF BookingItem
<1>2. \A q \in DOMAIN seen.receipts : ReceiptItem(q, seen.receipts[q]).origin = q
  BY DEF ReceiptItem
<1>3. Lines = {BookingItem(seen.bookings, k) : k \in DOMAIN seen.bookings}
                \cup {ReceiptItem(q, seen.receipts[q]) : q \in DOMAIN seen.receipts}
  BY LinesAreItems DEF Items
<1>. QED BY <1>1, <1>2, <1>3 DEF SeenOf

LEMMA RowsReadAreRows == IInv => \A r : SeenOf(r) \subseteq BookingsOf(r)
<1>. SUFFICES ASSUME IInv PROVE \A r : SeenOf(r) \subseteq BookingsOf(r)
  OBVIOUS
<1>1. DOMAIN seen.bookings \subseteq DOMAIN bookings
  BY TypeParts DEF IInv, SeenTyped
<1>. QED BY <1>1 DEF IInv, SeenAreRows, SeenOf, BookingsOf

\* A receipt whose flag and bookings nobody took apart by hand is in a report at
\* most once: not as two bookings, and not as a booking and as cash.
THEOREM NeverCountedTwice == Spec => []CountedAtMostOnce
<1>1. IInv => CountedAtMostOnce
  <2>. SUFFICES ASSUME IInv, NEW r \in Receipts \ irregular PROVE CountOf(r) <= 1
    BY DEF CountedAtMostOnce
  <2>. DEFINE booked == {BookingItem(seen.bookings, k) : k \in SeenOf(r)}
              all == {i \in Lines : i.origin = r}
  <2>1. all = booked \cup (IF r \in DOMAIN seen.receipts THEN {ReceiptItem(r, seen.receipts[r])} ELSE {})
    BY LinesOfReceipt DEF IInv
  <2>2. \A j, k \in SeenOf(r) : j = k
    BY RowsReadAreRows DEF IInv, Orderly
  <2>3. r \in DOMAIN seen.receipts => SeenOf(r) = {}
    BY DEF IInv, NotInBoth
  <2>4. \A x, y \in all : x = y
    BY <2>1, <2>2, <2>3
  <2>5. all = {} \/ \E x : all = {x}
    <3>. HIDE DEF all
    <3>. QED BY <2>4
  <2>6. Cardinality(all) \in {0, 1}
    BY <2>5, FS_EmptySet, FS_Singleton
  <2>. QED BY <2>6 DEF CountOf
<1>. QED BY <1>1, Invariance, PTL

\* A receipt that nobody touched while a statement was computed is in it exactly once
\* if it falls into the year, booked or not, and else not at all.
THEOREM SteadyAreCounted == Spec => []SteadyReceiptsCounted
<1>1. IInv => SteadyReceiptsCounted
  <2>. SUFFICES ASSUME IInv, pc = "done", NEW r \in steady
                PROVE  CountOf(r) = IF FallsIntoYear(r) THEN 1 ELSE 0
    BY DEF SteadyReceiptsCounted
  <2>1. /\ Regular(r) /\ SeenOf(r) = InYearOf(r)
        /\ r \in DOMAIN seen.receipts <=> receipt[r] = "unbooked" /\ document[r].inYear
    BY DEF IInv, SteadyAsSeen
  <2>2. {i \in Lines : i.origin = r}
          = {BookingItem(seen.bookings, k) : k \in InYearOf(r)}
              \cup (IF r \in DOMAIN seen.receipts THEN {ReceiptItem(r, seen.receipts[r])} ELSE {})
    BY <2>1, LinesOfReceipt DEF IInv
  <2>3. CASE receipt[r] = "unbooked" /\ BookingsOf(r) = {}
    <3>1. InYearOf(r) = {} /\ (FallsIntoYear(r) <=> document[r].inYear)
      BY <2>3 DEF InYearOf, FallsIntoYear
    <3>2. CASE FallsIntoYear(r)
      <4>1. {i \in Lines : i.origin = r} = {ReceiptItem(r, seen.receipts[r])}
        BY <2>1, <2>2, <2>3, <3>1, <3>2
      <4>. QED BY <3>2, <4>1, FS_Singleton DEF CountOf
    <3>3. CASE ~FallsIntoYear(r)
      <4>1. {i \in Lines : i.origin = r} = {}
        BY <2>1, <2>2, <2>3, <3>1, <3>3
      <4>. QED BY <3>3, <4>1, FS_EmptySet DEF CountOf
    <3>. QED BY <3>2, <3>3
  <2>4. CASE receipt[r] = "booked" /\ Cardinality(BookingsOf(r)) = 1
    <3>1. IsFiniteSet(DOMAIN bookings)
      BY BookingShape, FS_Interval DEF IInv
    <3>2. IsFiniteSet(BookingsOf(r))
      BY <3>1, FS_Subset DEF BookingsOf
    <3>3. PICK k : BookingsOf(r) = {k}
      BY <2>4, <3>2, FS_Singleton
    <3>4. FallsIntoYear(r) <=> bookings[k].inYear
      BY <2>4, <3>3 DEF FallsIntoYear
    <3>5. CASE FallsIntoYear(r)
      <4>1. InYearOf(r) = {k}
        BY <3>3, <3>4, <3>5 DEF InYearOf
      <4>2. {i \in Lines : i.origin = r} = {BookingItem(seen.bookings, k)}
        BY <2>1, <2>2, <2>4, <4>1
      <4>. QED BY <3>5, <4>2, FS_Singleton DEF CountOf
    <3>6. CASE ~FallsIntoYear(r)
      <4>1. InYearOf(r) = {}
        BY <3>3, <3>4, <3>6 DEF InYearOf
      <4>2. {i \in Lines : i.origin = r} = {}
        BY <2>1, <2>2, <2>4, <4>1
      <4>. QED BY <3>6, <4>2, FS_EmptySet DEF CountOf
    <3>. QED BY <3>5, <3>6
  <2>. QED BY <2>1, <2>3, <2>4 DEF Regular
<1>. QED BY <1>1, Invariance, PTL

-----------------------------------------------------------------------------
(* The sums of a report.                                                   *)

LEMMA ItemsAreFinite == IInv => IsFiniteSet(Items(seen))
<1>. SUFFICES ASSUME IInv PROVE IsFiniteSet(Items(seen))
  OBVIOUS
<1>. DEFINE line == [k \in DOMAIN seen.bookings |-> BookingItem(seen.bookings, k)]
            cash == [r \in DOMAIN seen.receipts |-> ReceiptItem(r, seen.receipts[r])]
<1>1. IsFiniteSet(DOMAIN bookings) /\ DOMAIN seen.bookings \subseteq DOMAIN bookings
  <2>1. IsFiniteSet(DOMAIN bookings)
    BY BookingShape, FS_Interval DEF IInv
  <2>. QED BY <2>1, TypeParts DEF IInv, SeenTyped
<1>2. IsFiniteSet(DOMAIN seen.bookings) /\ IsFiniteSet(DOMAIN seen.receipts)
  BY <1>1, FS_Subset DEF IInv, FinitelyMany
<1>3. /\ {BookingItem(seen.bookings, k) : k \in DOMAIN seen.bookings}
           = {line[k] : k \in DOMAIN seen.bookings}
      /\ {ReceiptItem(r, seen.receipts[r]) : r \in DOMAIN seen.receipts}
           = {cash[r] : r \in DOMAIN seen.receipts}
  OBVIOUS
<1>. HIDE DEF line, cash
<1>4. /\ IsFiniteSet({line[k] : k \in DOMAIN seen.bookings})
      /\ IsFiniteSet({cash[r] : r \in DOMAIN seen.receipts})
  BY <1>2, ImageIsFinite
<1>. QED BY <1>3, <1>4, FS_Union DEF Items

\* What is to be added up: lines with whole amounts.
Addable(I) == IsFiniteSet(I) /\ \A i \in I : i.amount \in Int

LEMMA TotalIsInt ==
    ASSUME NEW I, Addable(I), NEW J \in SUBSET I
    PROVE  Total(J) \in Int
<1>1. IsFiniteSet(J)
  BY FS_Subset DEF Addable
<1>2. \A i \in J : [j \in J |-> j.amount][i] \in Int
  BY DEF Addable
<1>3. SumFunctionOnSet([i \in J |-> i.amount], J) \in Int
  BY <1>1, <1>2, SumIsInt
<1>. QED BY <1>3 DEF Total, SumFunction

\* Totals taken group by group come to the total of all lines.
LEMMA TotalByGroups ==
    ASSUME NEW I, Addable(I), NEW K, IsFiniteSet(K), NEW key, \A i \in I : key[i] \in K
    PROVE  SumFunction([k \in K |-> Total(Fibre(I, key, k))]) = Total(I)
<1>. DEFINE amount == [i \in I |-> i.amount]
            groups == [k \in K |-> SumFunctionOnSet(amount, Fibre(I, key, k))]
            totals == [k \in K |-> Total(Fibre(I, key, k))]
<1>1. \A i \in I : amount[i] \in Int
  BY DEF Addable
<1>2. Total(I) = SumFunctionOnSet(amount, I)
  BY DEF Total, SumFunction
<1>3. ASSUME NEW k \in K PROVE totals[k] = groups[k]
  <2>. DEFINE J == Fibre(I, key, k)
  <2>1. J \subseteq I
    BY DEF Fibre
  <2>2. IsFiniteSet(J)
    BY <2>1, FS_Subset DEF Addable
  <2>3. Total(J) = SumFunctionOnSet([i \in J |-> i.amount], J)
    BY DEF Total, SumFunction
  <2>4. \A i \in J : [j \in J |-> j.amount][i] = amount[i]
    BY <2>1
  <2>5. SumFunctionOnSet([i \in J |-> i.amount], J) = SumFunctionOnSet(amount, J)
    <3>. HIDE DEF J, amount
    <3>. QED BY <2>2, <2>4, SumOfSame
  <2>. QED BY <2>3, <2>5
<1>4. SumFunction(totals) = SumFunctionOnSet(totals, K)
  BY DEF SumFunction
<1>. HIDE DEF amount, groups, totals
<1>5. SumFunctionOnSet(totals, K) = SumFunctionOnSet(groups, K)
  BY <1>3, SumOfSame
<1>6. SumFunctionOnSet(groups, K) = SumFunctionOnSet(amount, I)
  BY <1>1, SumByGroups DEF Addable, groups
<1>. QED BY <1>2, <1>4, <1>5, <1>6 DEF totals

\* The same for the lines on one side, incomes or outlays.
LEMMA SidesByGroups ==
    ASSUME NEW I, Addable(I), NEW K, IsFiniteSet(K), NEW key, \A i \in I : key[i] \in K
    PROVE  /\ SumFunction([k \in K |-> Income(Fibre(I, key, k))]) = Income(I)
           /\ SumFunction([k \in K |-> Outlay(Fibre(I, key, k))]) = Outlay(I)
<1>. DEFINE In == {i \in I : i.amount >= 0}
            Out == {i \in I : i.amount < 0}
<1>1. Addable(In) /\ Addable(Out)
  BY FS_Subset DEF Addable
<1>2. \A k : /\ {i \in Fibre(I, key, k) : i.amount >= 0} = Fibre(In, key, k)
             /\ {i \in Fibre(I, key, k) : i.amount < 0} = Fibre(Out, key, k)
  BY DEF Fibre
<1>3. \A k : /\ Income(Fibre(I, key, k)) = Total(Fibre(In, key, k))
             /\ Outlay(Fibre(I, key, k)) = -Total(Fibre(Out, key, k))
  BY <1>2 DEF Income, Outlay
<1>4. (\A i \in In : key[i] \in K) /\ \A i \in Out : key[i] \in K
  OBVIOUS
<1>5. Income(I) = Total(In) /\ Outlay(I) = -Total(Out)
  BY DEF Income, Outlay
<1>. HIDE DEF In, Out
<1>6. SumFunction([k \in K |-> Income(Fibre(I, key, k))]) = Total(In)
  <2>1. [k \in K |-> Income(Fibre(I, key, k))] = [k \in K |-> Total(Fibre(In, key, k))]
    BY <1>3
  <2>. QED BY <1>1, <1>4, <2>1, TotalByGroups
<1>7. SumFunction([k \in K |-> Outlay(Fibre(I, key, k))]) = -Total(Out)
  <2>. DEFINE plus == [k \in K |-> Total(Fibre(Out, key, k))]
              minus == [k \in K |-> Outlay(Fibre(I, key, k))]
  <2>1. SumFunction(plus) = Total(Out)
    BY <1>1, <1>4, TotalByGroups
  <2>2. \A k \in K : plus[k] \in Int /\ minus[k] = -plus[k]
    <3>. SUFFICES ASSUME NEW k \in K PROVE Total(Fibre(Out, key, k)) \in Int
      BY <1>3
    <3>. QED BY <1>1, TotalIsInt DEF Fibre
  <2>3. SumFunction(plus) = SumFunctionOnSet(plus, K) /\ SumFunction(minus) = SumFunctionOnSet(minus, K)
    BY DEF SumFunction
  <2>. HIDE DEF plus, minus
  <2>4. SumFunctionOnSet(minus, K) = -SumFunctionOnSet(plus, K)
    BY <2>2, SumOfNegated
  <2>. QED BY <2>1, <2>3, <2>4 DEF minus
<1>. QED BY <1>5, <1>6, <1>7

\* The bank table and the overview add up the same lines, once by account and
\* once by category, so they agree whatever happened to the accounts meanwhile.
THEOREM TablesReconcile == Spec => []ReportReconciles
<1>1. IInv => ReportReconciles
  <2>. SUFFICES ASSUME IInv PROVE ReportReconciles
    OBVIOUS
  <2>. DEFINE I == Items(seen)
              A == seen.accounts
              B == A \cup {Cash}
              bank == [i \in I |-> BankOf(i, A)]
              category == [i \in I |-> i.category]
  <2>1. Addable(I) /\ \A i \in I : category[i] \in Categories
    BY ItemShape, ItemsAreFinite DEF IInv, Addable
  <2>2. IsFiniteSet(B) /\ IsFiniteSet(Categories) /\ A \subseteq Accounts
    <3>1. IsFiniteSet(B)
      BY FS_AddElement DEF IInv, FinitelyMany
    <3>2. IsFiniteSet(Categories)
      <4>1. Categories = {"1_ideel", "2_vermoegen"} \cup {"3_zweckbetrieb", "4_wirtschaft"}
                           \cup {Sammelposten}
        BY DEF Categories
      <4>2. ASSUME NEW x, NEW y PROVE IsFiniteSet({x, y})
        <5>1. {x, y} = {x} \cup {y} /\ IsFiniteSet({x})
          BY FS_Singleton
        <5>2. IsFiniteSet({x} \cup {y})
          BY <5>1, FS_AddElement
        <5>. QED BY <5>1, <5>2
      <4>3. /\ IsFiniteSet({"1_ideel", "2_vermoegen"})
            /\ IsFiniteSet({"3_zweckbetrieb", "4_wirtschaft"})
        BY <4>2
      <4>4. IsFiniteSet({"1_ideel", "2_vermoegen"} \cup {"3_zweckbetrieb", "4_wirtschaft"})
        BY <4>3, FS_Union
      <4>. QED BY <4>1, <4>4, FS_AddElement
    <3>. QED BY <3>1, <3>2, TypeParts DEF IInv, SeenTyped
  <2>3. \A i \in I : bank[i] \in B
    BY DEF BankOf
  <2>4. \A b : {i \in I : BankOf(i, A) = b} = Fibre(I, bank, b)
    BY DEF Fibre
  <2>5. \A c : {i \in I : i.category = c} = Fibre(I, category, c)
    BY DEF Fibre
  <2>6. Report.banks = [b \in B |-> BankRow(b, Fibre(I, bank, b))]
    BY <2>4 DEF Report, BankRows
  <2>7. Report.overview =
          [c \in Categories |-> [income |-> Income(Fibre(I, category, c)),
                                 expense |-> Outlay(Fibre(I, category, c)),
                                 result |-> Total(Fibre(I, category, c))]]
    BY <2>5 DEF Report, Overview, Details
  <2>. HIDE DEF I, A, B, bank, category
  <2>. DEFINE banks == Report.banks  overview == Report.overview
  <2>8. /\ SumFunction([b \in DOMAIN banks |-> banks[b].income]) = Income(I)
        /\ SumFunction([b \in DOMAIN banks |-> banks[b].expense]) = Outlay(I)
    <3>1. /\ [b \in DOMAIN banks |-> banks[b].income] = [b \in B |-> Income(Fibre(I, bank, b))]
          /\ [b \in DOMAIN banks |-> banks[b].expense] = [b \in B |-> Outlay(Fibre(I, bank, b))]
      BY <2>6 DEF BankRow
    <3>. QED BY <2>1, <2>2, <2>3, <3>1, SidesByGroups
  <2>9. SumFunction([b \in DOMAIN banks |-> banks[b].end - banks[b].start]) = Total(I)
    <3>1. ASSUME NEW b \in B
          PROVE  banks[b].end - banks[b].start = Total(Fibre(I, bank, b))
      <4>1. Opening[b] \in Int
        BY <2>2, ReportConstants DEF B
      <4>2. Total(Fibre(I, bank, b)) \in Int
        BY <2>1, TotalIsInt DEF Fibre
      <4>3. /\ banks[b].start = Opening[b]
            /\ banks[b].end = Opening[b] + Total(Fibre(I, bank, b))
        BY <2>6 DEF BankRow
      <4>. QED BY <4>1, <4>2, <4>3
    <3>2. [b \in DOMAIN banks |-> banks[b].end - banks[b].start]
            = [b \in B |-> Total(Fibre(I, bank, b))]
      BY <2>6, <3>1
    <3>. QED BY <2>1, <2>2, <2>3, <3>2, TotalByGroups
  <2>10. /\ SumFunction([c \in Categories |-> overview[c].income]) = Income(I)
         /\ SumFunction([c \in Categories |-> overview[c].expense]) = Outlay(I)
         /\ SumFunction([c \in Categories |-> overview[c].result]) = Total(I)
    <3>1. /\ [c \in Categories |-> overview[c].income]
               = [c \in Categories |-> Income(Fibre(I, category, c))]
          /\ [c \in Categories |-> overview[c].expense]
               = [c \in Categories |-> Outlay(Fibre(I, category, c))]
          /\ [c \in Categories |-> overview[c].result]
               = [c \in Categories |-> Total(Fibre(I, category, c))]
      BY <2>7
    <3>. QED BY <2>1, <2>2, <3>1, SidesByGroups, TotalByGroups
  <2>. QED BY <2>8, <2>9, <2>10 DEF ReportReconciles
<1>. QED BY <1>1, Invariance, PTL

-----------------------------------------------------------------------------
(* How a statement is saved: StoreInv is inductive, and the properties of   *)
(* StatementStore follow from it.                                          *)

LEMMA StoreInitInv == StoreInit => StoreInv
BY NoIdIsNone DEF StoreInit, StoreInv, StoreTypeOK, OnePerYear, NothingElseIsDeleted, GapOnlyWhileReplacing

-----------------------------------------------------------------------------
(* One lemma for each action of a request.                                 *)

LEMMA LookUpKeepsStore ==
    ASSUME StoreInv, NEW p \in Creators, LookUp(p)
    PROVE  StoreInv'
<1> USE NoIdIsNone DEF StoreInv, LookUp
<1>1. StoreTypeOK'
  <2>1. existing' \in [Creators -> lookedUp' \cup {NoId}]
    BY DEF StoreTypeOK
  <2>2. answered' \in [Creators -> stored' \cup {NoId}] /\ place' \in [Creators -> {"report", "looked", "deleted"}]
    BY DEF StoreTypeOK
  <2>3. \A q \in Creators : place'[q] = "report" => existing'[q] = NoId
    BY DEF StoreTypeOK
  <2> QED
    BY <2>1, <2>2, <2>3 DEF StoreTypeOK
<1>2. OnePerYear' /\ NothingElseIsDeleted'
  BY DEF OnePerYear, NothingElseIsDeleted
<1>3. GapOnlyWhileReplacing'
  BY DEF GapOnlyWhileReplacing, StoreTypeOK
<1> QED
  BY <1>1, <1>2, <1>3

LEMMA LookUpFailsKeepsStore ==
    ASSUME StoreInv, NEW p \in Creators, LookUpFails(p)
    PROVE  StoreInv'
BY NoIdIsNone DEF StoreInv, LookUpFails, StoreTypeOK, OnePerYear, NothingElseIsDeleted,
                  GapOnlyWhileReplacing

\* The deleted row is one that the lookup had returned.
LEMMA DeleteOldKeepsStore ==
    ASSUME StoreInv, NEW p \in Creators, DeleteOld(p)
    PROVE  StoreInv'
<1> USE NoIdIsNone DEF StoreInv, DeleteOld
<1>1. StoreTypeOK' /\ OnePerYear'
  BY DEF StoreTypeOK, OnePerYear
<1>2. NothingElseIsDeleted'
  BY DEF StoreTypeOK, NothingElseIsDeleted
<1>3. GapOnlyWhileReplacing'
  BY DEF StoreTypeOK, GapOnlyWhileReplacing
<1> QED
  BY <1>1, <1>2, <1>3

LEMMA DeleteOldFailsKeepsStore ==
    ASSUME StoreInv, NEW p \in Creators, DeleteOldFails(p)
    PROVE  StoreInv'
BY NoIdIsNone DEF StoreInv, DeleteOldFails, StoreTypeOK, OnePerYear, NothingElseIsDeleted,
                  GapOnlyWhileReplacing

\* The INSERT goes through only if there is no row, so there is one afterwards.
LEMMA CreateKeepsStore ==
    ASSUME StoreInv, NEW p \in Creators, NEW id \in Ids, Create(p, id)
    PROVE  StoreInv'
<1> USE NoIdIsNone DEF StoreInv, Create, End, InsertAllowed
<1>1. StoreTypeOK'
  BY DEF StoreTypeOK
<1>2. table' = {id}
  OBVIOUS
<1>3. OnePerYear' /\ GapOnlyWhileReplacing'
  BY <1>2 DEF OnePerYear, GapOnlyWhileReplacing
<1>4. NothingElseIsDeleted'
  BY DEF NothingElseIsDeleted
<1> QED
  BY <1>1, <1>3, <1>4

LEMMA CreateRefusedKeepsStore ==
    ASSUME StoreInv, NEW p \in Creators, CreateRefused(p)
    PROVE  StoreInv'
BY NoIdIsNone DEF StoreInv, CreateRefused, End, StoreTypeOK, OnePerYear, NothingElseIsDeleted,
                  GapOnlyWhileReplacing

\* A request that dies between its DELETE and its INSERT is remembered in lost.
LEMMA AbortKeepsStore ==
    ASSUME StoreInv, NEW p \in Creators, Abort(p)
    PROVE  StoreInv'
<1> USE NoIdIsNone DEF StoreInv, Abort, End
<1>1. StoreTypeOK' /\ OnePerYear' /\ NothingElseIsDeleted'
  BY DEF StoreTypeOK, OnePerYear, NothingElseIsDeleted
<1>2. GapOnlyWhileReplacing'
  <2>1. CASE place[p] = "deleted"
    BY <2>1 DEF GapOnlyWhileReplacing
  <2>2. CASE place[p] # "deleted"
    BY <2>2 DEF GapOnlyWhileReplacing, StoreTypeOK
  <2> QED
    BY <2>1, <2>2
<1> QED
  BY <1>1, <1>2

LEMMA DeleteByHandKeepsStore ==
    ASSUME StoreInv, NEW id \in Ids, DeleteByHand(id)
    PROVE  StoreInv'
BY NoIdIsNone DEF StoreInv, DeleteByHand, StoreTypeOK, OnePerYear, NothingElseIsDeleted,
                  GapOnlyWhileReplacing

-----------------------------------------------------------------------------
\* The invariant holds in every reachable state, with any number of requests that
\* save a statement for the same year.
THEOREM StoreInvariance == StoreSpec => []StoreInv
<1>1. StoreInv /\ [StoreNext]_storeVars => StoreInv'
  <2> SUFFICES ASSUME StoreInv, [StoreNext]_storeVars PROVE StoreInv'
    OBVIOUS
  <2>1. ASSUME NEW p \in Creators, Save(p) PROVE StoreInv'
    BY <2>1, LookUpKeepsStore, LookUpFailsKeepsStore, DeleteOldKeepsStore,
       DeleteOldFailsKeepsStore, CreateKeepsStore, CreateRefusedKeepsStore,
       AbortKeepsStore DEF Save
  <2>2. ASSUME NEW id \in Ids, DeleteByHand(id) PROVE StoreInv'
    BY <2>2, DeleteByHandKeepsStore
  <2>3. CASE UNCHANGED storeVars
    BY <2>3 DEF storeVars, StoreInv, StoreTypeOK, OnePerYear, NothingElseIsDeleted, GapOnlyWhileReplacing
  <2> QED
    BY <2>1, <2>2, <2>3 DEF StoreNext
<1> QED
  BY StoreInitInv, <1>1, PTL DEF StoreSpec

\* Every row and every request keeps its shape.
THEOREM StoreTypeCorrect == StoreSpec => []StoreTypeOK
BY StoreInvariance, PTL DEF StoreInv

\* UNIQUE (club_id, year) and the order lookup, DELETE, INSERT leave a year with at
\* most one statement, however many requests replace it at a time.
THEOREM YearIsUnique == StoreSpec => []OnePerYear
BY StoreInvariance, PTL DEF StoreInv

\* A year that has had a statement is without one only on the way from a DELETE to
\* an INSERT, or after a request that died there, or after a deletion by hand.
THEOREM GapsAreExplained == StoreSpec => []GapOnlyWhileReplacing
BY StoreInvariance, PTL DEF StoreInv

\* The statement a client was answered 200 with is not displaced by a request that
\* had not looked it up.
THEOREM AnswersAreKept == StoreSpec => []AnsweredIsKept
<1>1. StoreInv => AnsweredIsKept
  BY NoIdIsNone DEF StoreInv, StoreTypeOK, NothingElseIsDeleted, AnsweredIsKept
<1> QED
  BY <1>1, StoreInvariance, PTL
=============================================================================
