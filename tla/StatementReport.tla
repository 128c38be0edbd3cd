-------------------------- MODULE StatementReport --------------------------
(***************************************************************************)
(* How handleCreateFinanceStatement computes the annual statement of a     *)
(* club.  It opens no transaction: it reads the bank accounts, then the    *)
(* bookings, then the receipts that are not booked yet, one query each,    *)
(* while other requests make bookings, edit receipts and open and close    *)
(* bank accounts; then it aggregates what it has seen.  A computation      *)
(* writes nothing, so one of them at a time is enough.                     *)
(*                                                                         *)
(* The finance tables change as in FinanceLedger, with Commit as one step. *)
(* A document is what a client enters or overwrites a receipt with; dates  *)
(* are abstracted to "falls into the year or not", the texts of the report *)
(* are left out, amounts are whole numbers.                                *)
(***************************************************************************)
EXTENDS Integers, Sequences, FiniteSets, FiniteSetsExt

CONSTANTS
    Receipts, Imports,
    Accounts,         \* bank accounts
    BookingAccounts,
    NULL,
    Documents,        \* what clients send as a receipt
    Movements,        \* what clients send when they commit a bank movement
    Majority,         \* majority_list of each booking account
    Opening,          \* initial_balances of the request, by account
    MaxBookings       \* bound

Cash == "cash"
Sammelposten == "9_sammelposten"
Categories == {"1_ideel", "2_vermoegen", "3_zweckbetrieb", "4_wirtschaft", Sammelposten}

\* position names a category, a booking account by its id, or nothing.
Document == [inYear : BOOLEAN, expense : BOOLEAN, amount : Int,
             position : Categories \cup BookingAccounts \cup {NULL}]
Movement == [inYear : BOOLEAN, amount : Int]

ASSUME ReportConstants ==
    /\ Receipts \cap Imports = {}
    /\ Documents \subseteq Document /\ Movements \subseteq Movement
    /\ Majority \in [BookingAccounts -> Categories]
    /\ Opening \in [Accounts \cup {Cash} -> Int]
    /\ NULL \notin Accounts \cup BookingAccounts \cup Categories

VARIABLES
    receipt,     \* receipts: absent, unbooked or booked, gone
    document,    \* what each receipt says
    bookings,    \* table bookings, in the order of their commits
    accounts,    \* bank accounts that exist
    pc,          \* where the computation stands
    seen,        \* what it has read: accounts, bookings, receipts
    steady,      \* history: receipts nobody has touched since it began
    irregular,   \* history: receipts whose flag and bookings were taken apart by hand
    offered      \* history: what each receipt there is has said while it was unbooked

papers == <<receipt, document>>
tables == <<receipt, document, bookings, accounts>>
local == <<pc, seen>>
past == <<irregular, offered>>
history == <<steady, irregular, offered>>
vars == <<receipt, document, bookings, accounts, pc, seen, steady, irregular, offered>>

Nothing == [accounts |-> {}, bookings |-> <<>>, receipts |-> <<>>]

Init ==
    /\ receipt = [r \in Receipts |-> "absent"]
    /\ document = [r \in Receipts |-> NULL]
    /\ bookings = <<>>
    /\ accounts = {}
    /\ pc = "idle"
    /\ seen = Nothing
    /\ steady = {}
    /\ irregular = {}
    /\ offered = [r \in Receipts |-> {}]

-----------------------------------------------------------------------------
(* The finance tables, changed by other requests.                          *)

BookingsOf(r) == {k \in DOMAIN bookings : bookings[k].origin = r}

\* The receipt is no longer what requests under way have seen or will see.
Touch(r) == steady' = steady \ {r}

\* What a request that books the receipt may read from now on.
Offer(r, state, d) ==
    offered' = IF state = "unbooked" THEN [offered EXCEPT ![r] = @ \cup {d}] ELSE offered

EnterReceipt(r, state, d) ==
    /\ receipt[r] = "absent"
    /\ receipt' = [receipt EXCEPT ![r] = state]
    /\ document' = [document EXCEPT ![r] = d]
    /\ Offer(r, state, d)
    /\ Touch(r)
    /\ UNCHANGED <<bookings, accounts, local, irregular>>

\* PUT /finance/receipts/{id} overwrites the receipt, booked or not, with what the
\* client sends, date, type, amount, position and is_booked; its bookings stay.
UpdateReceipt(r, state, d) ==
    /\ receipt[r] \in {"unbooked", "booked"}
    /\ receipt' = [receipt EXCEPT ![r] = state]
    /\ document' = [document EXCEPT ![r] = d]
    /\ Offer(r, state, d)
    /\ irregular' = IF state = receipt[r] \/ BookingsOf(r) = {} THEN irregular
                                                               ELSE irregular \cup {r}
    /\ Touch(r)
    /\ UNCHANGED <<bookings, accounts, local>>

RemoveReceipt(r) ==
    /\ receipt[r] \in {"unbooked", "booked"}
    /\ receipt' = [receipt EXCEPT ![r] = "gone"]
    /\ document' = [document EXCEPT ![r] = NULL]
    /\ offered' = [offered EXCEPT ![r] = {}]
    /\ Touch(r)
    /\ UNCHANGED <<bookings, accounts, local, irregular>>

\* Slip: a category goes where the id of a booking account belongs.
PositionAsItIs(r, d) ==
    [origin |-> r, bank |-> NULL, assigned |-> d.position, amount |-> d.amount, inYear |-> d.inYear]

\* The booking handleBookReceipt makes of what it has read: date and amount as they
\* are, no bank account, a booking account only if position_assignment is its id.
BookingOfReceipt(r, d) ==
    [origin |-> r, bank |-> NULL,
     assigned |-> IF d.position \in BookingAccounts THEN d.position ELSE NULL,
     amount |-> d.amount, inYear |-> d.inYear]

\* POST /finance/receipts/{id}/book, at its commit: the booking says what the receipt
\* said when the request read it, and only is_booked is written.  Overlapping requests
\* may book a receipt that has become booked meanwhile (see FinanceLedger).
BookReceipt(r, d) ==
    /\ receipt[r] \in {"unbooked", "booked"}
    /\ Len(bookings) < MaxBookings
    /\ receipt' = [receipt EXCEPT ![r] = "booked"]
    /\ bookings' = Append(bookings, BookingOfReceipt(r, d))
    /\ irregular' = IF BookingsOf(r) = {} THEN irregular ELSE irregular \cup {r}
    /\ Touch(r)
    /\ UNCHANGED <<document, accounts, local, offered>>

\* POST /finance/import/bookings/{id}/commit, at its commit: the booking is what the
\* client sends, the staged row is not looked at.
CommitImport(i, a, m) ==
    /\ a \in accounts
    /\ Len(bookings) < MaxBookings
    /\ bookings' = Append(bookings, [origin |-> i, bank |-> a, assigned |-> NULL,
                                     amount |-> m.amount, inYear |-> m.inYear])
    /\ UNCHANGED <<papers, accounts, local, history>>

\* PUT /finance/bookings/{id}
AssignBooking(k, b) ==
    /\ bookings' = [bookings EXCEPT ![k].assigned = b]
    /\ UNCHANGED <<papers, accounts, local, history>>

OpenAccount(a) ==
    /\ a \notin accounts
    /\ accounts' = accounts \cup {a}
    /\ UNCHANGED <<papers, bookings, local, history>>

\* ON DELETE SET NULL
CloseAccount(a) ==
    /\ a \in accounts
    /\ accounts' = accounts \ {a}
    /\ bookings' = [k \in DOMAIN bookings |->
                      IF bookings[k].bank = a THEN [bookings[k] EXCEPT !.bank = NULL]
                                              ELSE bookings[k]]
    /\ UNCHANGED <<papers, local, history>>

-----------------------------------------------------------------------------
(* The reads of handleCreateFinanceStatement.                              *)

\* A receipt that is booked exactly when there is one booking of it.
Regular(r) ==
    \/ receipt[r] = "unbooked" /\ BookingsOf(r) = {}
    \/ receipt[r] = "booked" /\ Cardinality(BookingsOf(r)) = 1

ReadAccounts ==
    /\ pc = "idle"
    /\ pc' = "accounts"
    /\ seen' = [seen EXCEPT !.accounts = accounts]
    /\ steady' = {r \in Receipts : Regular(r)}
    /\ UNCHANGED <<tables, past>>

\* Slip: INNER JOIN on the booking account in place of LEFT JOIN.
JoinedBookings == {k \in DOMAIN bookings : bookings[k].assigned # NULL}

\* DebugListAllBookings returns every booking, with or without a booking account.
AllBookings == DOMAIN bookings

\* All bookings, filtered by the year of the valuta date; each row keeps its place.
ReadBookings ==
    /\ pc = "accounts"
    /\ pc' = "bookings"
    /\ seen' = [seen EXCEPT !.bookings =
                  [k \in {j \in AllBookings : bookings[j].inYear} |-> bookings[k]]]
    /\ UNCHANGED <<tables, history>>

\* Slip: the query does not filter by is_booked.
ReceiptsInRange == {r \in Receipts : receipt[r] \in {"unbooked", "booked"} /\ document[r].inYear}

\* ListUnbookedReceiptsInRange
UnbookedReceipts == {r \in Receipts : receipt[r] = "unbooked" /\ document[r].inYear}

\* The later of the two reads: a receipt booked in between shows up in neither.
ReadReceipts ==
    /\ pc = "bookings"
    /\ pc' = "done"
    /\ seen' = [seen EXCEPT !.receipts = [r \in UnbookedReceipts |-> document[r]]]
    /\ UNCHANGED <<tables, history>>

\* The error is printed and the statement goes without any receipt.
ReadReceiptsFails ==
    /\ pc = "bookings"
    /\ pc' = "done"
    /\ steady' = {}
    /\ UNCHANGED <<tables, seen, past>>

\* A failed read answers 500, a finished report goes on to StatementStore.
Leave ==
    /\ pc # "idle"
    /\ pc' = "idle"
    /\ seen' = Nothing
    /\ steady' = {}
    /\ UNCHANGED <<tables, past>>

-----------------------------------------------------------------------------
(* The report, computed from what was read.                                *)

Abs(n) == IF n < 0 THEN -n ELSE n

\* One detail line for a booking: its amount as stored.
BookingItem(bs, k) ==
    [source |-> <<"booking", k>>, origin |-> bs[k].origin, bank |-> bs[k].bank,
     category |-> IF bs[k].assigned = NULL THEN Sammelposten ELSE Majority[bs[k].assigned],
     amount |-> bs[k].amount]

\* One detail line for an unbooked receipt: paid in cash, signed by its type.
ReceiptItem(r, d) ==
    [source |-> <<"receipt", r>>, origin |-> r, bank |-> NULL,
     category |-> IF d.position \in Categories THEN d.position ELSE Sammelposten,
     amount |-> IF d.expense THEN -Abs(d.amount) ELSE Abs(d.amount)]

Items(s) ==
    {BookingItem(s.bookings, k) : k \in DOMAIN s.bookings}
      \cup {ReceiptItem(r, s.receipts[r]) : r \in DOMAIN s.receipts}

\* Slip: no fallback for an account that was not in the list of accounts.
OwnBank(item, accts) == IF item.bank = NULL THEN Cash ELSE item.bank
\* The row of the bank table an item is added to: cash if its account is unknown.
BankOf(item, accts) == IF item.bank \in accts THEN item.bank ELSE Cash

Total(items) == SumFunction([i \in items |-> i.amount])
Income(items) == Total({i \in items : i.amount >= 0})
Outlay(items) == -Total({i \in items : i.amount < 0})

BankRow(name, items) ==
    [start |-> Opening[name], income |-> Income(items), expense |-> Outlay(items),
     end |-> Opening[name] + Total(items)]

BankRows(accts, items) ==
    [name \in accts \cup {Cash} |-> BankRow(name, {i \in items : BankOf(i, accts) = name})]

Details(items) == [c \in Categories |-> {i \in items : i.category = c}]

Overview(items) ==
    [c \in Categories |->
       LET lines == Details(items)[c] IN
       [income |-> Income(lines), expense |-> Outlay(lines), result |-> Total(lines)]]

Report ==
    [banks |-> BankRows(seen.accounts, Items(seen)), overview |-> Overview(Items(seen)),
     details |-> Details(Items(seen))]

-----------------------------------------------------------------------------
Bookkeeping ==
    \/ \E r \in Receipts, state \in {"unbooked", "booked"}, d \in Documents :
         EnterReceipt(r, state, d) \/ UpdateReceipt(r, state, d)
    \/ \E r \in Receipts : RemoveReceipt(r) \/ \E d \in offered[r] : BookReceipt(r, d)
    \/ \E i \in Imports, a \in Accounts, m \in Movements : CommitImport(i, a, m)
    \/ \E k \in DOMAIN bookings, b \in BookingAccounts \cup {NULL} : AssignBooking(k, b)
    \/ \E a \in Accounts : OpenAccount(a) \/ CloseAccount(a)

Compute == ReadAccounts \/ ReadBookings \/ ReadReceipts \/ ReadReceiptsFails \/ Leave

Next == Bookkeeping \/ Compute

Spec == Init /\ [][Next]_vars

-----------------------------------------------------------------------------
(* Properties of a finished report.                                        *)

Amounts == {p.amount : p \in Documents \cup Movements}
Booking == [origin : Receipts \cup Imports, bank : Accounts \cup {NULL},
            assigned : BookingAccounts \cup {NULL}, amount : Amounts, inYear : BOOLEAN]

\* Every table and the computation have the shape the code gives them.
TypeOK ==
    /\ receipt \in [Receipts -> {"absent", "unbooked", "booked", "gone"}]
    /\ \A r \in Receipts :
         /\ document[r] \in IF receipt[r] \in {"unbooked", "booked"} THEN Documents ELSE {NULL}
         /\ offered[r] \subseteq Documents
         /\ receipt[r] = "unbooked" => document[r] \in offered[r]
    /\ DOMAIN document = Receipts /\ DOMAIN offered = Receipts
    /\ bookings \in Seq(Booking)
    /\ accounts \subseteq Accounts
    /\ pc \in {"idle", "accounts", "bookings", "done"}
    /\ DOMAIN seen = {"accounts", "bookings", "receipts"} /\ seen.accounts \subseteq Accounts
    /\ DOMAIN seen.bookings \subseteq DOMAIN bookings
    /\ seen.bookings \in [DOMAIN seen.bookings -> Booking]
    /\ DOMAIN seen.receipts \subseteq Receipts
    /\ seen.receipts \in [DOMAIN seen.receipts -> Documents]
    /\ steady \cup irregular \subseteq Receipts

\* The detail lines of the report, of every category.
Lines == LET details == Details(Items(seen)) IN UNION {details[c] : c \in Categories}
CountOf(r) == Cardinality({i \in Lines : i.origin = r})

\* The bank table and the overview of a report account for the same money, even
\* if an account was opened or closed while the bookings were read ("Einnahmen
\* gesamt = Summe aller Bereiche").
ReportReconciles ==
    pc = "done" =>
      LET banks == Report.banks
          overview == Report.overview
      IN  /\ SumFunction([b \in DOMAIN banks |-> banks[b].income])
               = SumFunction([c \in Categories |-> overview[c].income])
          /\ SumFunction([b \in DOMAIN banks |-> banks[b].expense])
               = SumFunction([c \in Categories |-> overview[c].expense])
          /\ SumFunction([b \in DOMAIN banks |-> banks[b].end - banks[b].start])
               = SumFunction([c \in Categories |-> overview[c].result])

\* A receipt that is booked while the statement is computed does not count both
\* as a booking and as cash: bookings are read before the unbooked receipts.
CountedAtMostOnce ==
    pc = "done" => \A r \in Receipts \ irregular : CountOf(r) <= 1

\* The year a receipt counts in: by its date while it is unbooked, then by the date
\* it was booked with.  An edit of a booked receipt does not move its booking.
FallsIntoYear(r) ==
    IF receipt[r] = "unbooked" THEN document[r].inYear
                               ELSE \E k \in BookingsOf(r) : bookings[k].inYear

\* A receipt that nobody touched while a statement was computed is in it exactly once
\* if it falls into the year, by whichever of the two reads, and else not at all.
SteadyReceiptsCounted ==
    pc = "done" => \A r \in steady : CountOf(r) = IF FallsIntoYear(r) THEN 1 ELSE 0

-----------------------------------------------------------------------------
(* A claim of the documentation that the code does not keep.               *)

\* "Creates a new booking entry in the bookings table based on the receipt data":
\* of a receipt that was always an expense, every line of a report is an outlay.
ExpensesReduceTheResult ==
    pc = "done" =>
      \A i \in Lines, r \in Receipts :
         i.origin = r /\ receipt[r] # "gone" /\ (\A d \in offered[r] : d.expense) => i.amount < 0
=============================================================================
