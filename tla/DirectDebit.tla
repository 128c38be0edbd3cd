----------------------------- MODULE DirectDebit -----------------------------
(***************************************************************************)
(* Members, their bank accounts and their fee history, and the SEPA export *)
(* that turns the due fees into direct debit files.                        *)
(*                                                                         *)
(* handleUpdateMember never changes a fee: it adds a row to the history,   *)
(* or overwrites the row with the same start (ON CONFLICT).  Nothing sets  *)
(* ends_at, so a fee once in the history stays due for good.  The export   *)
(* reads everything in one query and stores nothing, so it is a function   *)
(* of the tables; where the query leaves a choice (two fees with the same  *)
(* maturity, two default accounts) every choice is a possible answer.      *)
(*                                                                         *)
(* handleCreateMember and handleUpdateMember are transactions whose first  *)
(* write locks the member's row, and no other handler writes the rows of   *)
(* an existing member, so each of them is one step; an early return after  *)
(* Begin rolls everything back and is no step at all.  A row of the member *)
(* import is not a transaction: the member and the bank account are two    *)
(* steps that may fail one without the other.  Its third insert, the fee,  *)
(* always fails (assignment 'auto' and a NULL starts_at violate the        *)
(* table's constraints), so an imported member has no fee.                 *)
(*                                                                         *)
(* A deleted member or account is as good as one that never existed: ids   *)
(* are UUIDs and all references go with it.                                *)
(***************************************************************************)
EXTENDS Integers, Sequences, FiniteSets, SequencesExt

CONSTANTS
    Members, Accounts, Ibans, NULL,
    SAME,          \* an attribute that the request does not name
    Starts,        \* starts_at of fees, days as numbers
    Dates,         \* maturity and execution dates, days as numbers
    BankRequests,  \* the bank part of a member request, or NULL if it has no IBAN
    FeeRequests,   \* the fee part of a member request, or NULL if it has none
    ClubIbans,     \* IBANs of club accounts as the treasurer writes them
    Stripped,      \* strings.ReplaceAll(iban, " ", "") on these texts
    AccountRows,   \* the club's accounts as they may be created or updated
    ImportRows,    \* the bank accounts that rows of an import file describe
    MaxEdits       \* bound: member requests

ASSUME DaysAreIntegers == Starts \subseteq Int /\ Dates \subseteq Int /\ MaxEdits \in Nat

Methods == {"sepa", "invoice", "transfer", "cash"}
DebitTypes == {"first", "followup", "last"}
Account == [iban : ClubIbans, isDefault : BOOLEAN, bic : BOOLEAN]
Bank == [iban : Ibans, mandate : BOOLEAN, complete : BOOLEAN, next : DebitTypes]
Fee == [amount : Nat, maturity : Dates \cup {NULL}, method : Methods,
        creditor : Accounts \cup {NULL}]

\* What the request and row types of Go and the constraints of the schema admit;
\* any other request is refused and changes nothing.
ASSUME RequestShapes ==
    /\ BankRequests \subseteq [at : Nat, iban : Ibans, mandate : BOOLEAN, complete : BOOLEAN]
    /\ FeeRequests \subseteq [starts : Starts, amount : Nat \cup {SAME},
                              maturity : Dates \cup {SAME}, method : Methods \cup {SAME},
                              creditor : Accounts \cup {NULL, SAME},
                              other : BOOLEAN]
    /\ AccountRows \subseteq Account
    /\ ImportRows \subseteq [iban : Ibans, mandate : BOOLEAN, next : DebitTypes]

\* What has no spaces left stays as it is.
ASSUME StrippedOnce ==
    /\ Stripped \in [ClubIbans -> ClubIbans]
    /\ \A i \in ClubIbans : Stripped[Stripped[i]] = Stripped[i]

\* NULL, SAME and "absent" are no values.
ASSUME NothingIsAValue ==
    /\ NULL \notin Accounts \cup Dates \cup Account \cup Fee
    /\ SAME \notin Accounts \cup Dates \cup Nat \cup Methods \cup {NULL}
    /\ "absent" \notin Accounts \cup {NULL}

VARIABLES
    members,   \* table members: assigned_club_bank_id of those that exist
    banks,     \* table member_bank_accounts, per member in order of created_at
    fees,      \* table membership_fees, per member and starts_at
    accounts,  \* table club_bank_accounts
    importing, \* members whose row of an import file is under way
    edits      \* number of member requests so far (for the bound)

vars == <<members, banks, fees, accounts, importing, edits>>

Present == {a \in Accounts : accounts[a] # NULL}
Enrolled == {m \in Members : members[m] # "absent"}

\* UNIQUE (club_id, iban) on the text that was sent.
IbansDiffer == \A a, b \in Present : accounts[a].iban = accounts[b].iban => a = b

Init ==
    /\ members = [m \in Members |-> "absent"]
    /\ banks = [m \in Members |-> <<>>]
    /\ fees = [m \in Members |-> [s \in Starts |-> NULL]]
    /\ accounts \in [Accounts -> AccountRows \cup {NULL}]
    /\ IbansDiffer
    /\ importing = {}
    /\ edits = 0

-----------------------------------------------------------------------------
(* The club's accounts.                                                    *)

\* POST and PUT /finance/bank-accounts: the IBAN is stored as it was sent, and is
\* refused only if another account has the very same text; nothing keeps is_default
\* exclusive.
SaveAccount(a, row) ==
    /\ \A b \in Present \ {a} : accounts[b].iban # row.iban
    /\ accounts' = [accounts EXCEPT ![a] = row]
    /\ UNCHANGED <<members, banks, fees, importing, edits>>

\* DELETE /finance/bank-accounts/{id}: members and fees lose the link.
DeleteAccount(a) ==
    /\ a \in Present
    /\ accounts' = [accounts EXCEPT ![a] = NULL]
    /\ members' = [m \in Members |-> IF members[m] = a THEN NULL ELSE members[m]]
    /\ fees' = [m \in Members |-> [s \in Starts |->
                  IF fees[m][s] # NULL /\ fees[m][s].creditor = a
                  THEN [fees[m][s] EXCEPT !.creditor = NULL] ELSE fees[m][s]]]
    /\ UNCHANGED <<banks, importing, edits>>

-----------------------------------------------------------------------------
(* A member's bank accounts.                                               *)

Owned(m) == {banks[m][k].iban : k \in DOMAIN banks[m]}

\* The row that is written.  A hand edit always resets next_direct_debit_type.
BankRow(req) ==
    [iban |-> req.iban, mandate |-> req.mandate, complete |-> req.complete, next |-> "first"]

\* Slip: without bank_account_id nobody looks for the IBAN of the request.
NamedBank(m, req) == DOMAIN banks[m] \cap {req.at}

\* The row named by bank_account_id, else the one with the IBAN of the request.
UpdatedBank(m, req) ==
    {k \in DOMAIN banks[m] : IF req.at # 0 THEN k = req.at ELSE banks[m][k].iban = req.iban}

\* The member's accounts after the request.
BanksAfter(m, req) ==
    IF req = NULL THEN banks[m]
    ELSE IF UpdatedBank(m, req) # {}
         THEN [k \in DOMAIN banks[m] |->
                 IF k \in UpdatedBank(m, req) THEN BankRow(req) ELSE banks[m][k]]
         ELSE Append(banks[m], BankRow(req))

\* 500 if bank_account_id is not an account of the member, or its new IBAN is
\* that of another account of the member (UNIQUE (member_id, iban)).
BankAccepted(m, req) ==
    (req # NULL /\ req.at # 0) =>
        /\ req.at \in DOMAIN banks[m]
        /\ \A k \in DOMAIN banks[m] \ {req.at} : banks[m][k].iban # req.iban

-----------------------------------------------------------------------------
(* A member's fee history.  A request may also name other things of a fee  *)
(* (label or type): req.other.                                             *)

History(m) == {s \in Starts : fees[m][s] # NULL}
Latest(m) == fees[m][CHOOSE s \in History(m) : \A t \in History(m) : t <= s]

\* handleCreateMember: there is a fee if the request names an amount or a method.
NewFee(bank, req) ==
    IF req = NULL \/ (req.amount = SAME /\ req.method = SAME) THEN NULL
    ELSE [amount |-> req.amount,
          maturity |-> IF req.maturity = SAME THEN NULL ELSE req.maturity,
          method |-> IF req.method # SAME THEN req.method
                     ELSE IF bank # NULL /\ bank.mandate THEN "sepa" ELSE "transfer",
          creditor |-> IF req.creditor = SAME THEN NULL ELSE req.creditor]

\* handleUpdateMember: what the request does not name is taken from the latest fee.
\* A new maturity or start alone is no change.
Inherited(m, req, field) ==
    IF req[field] = SAME /\ History(m) # {} THEN Latest(m)[field] ELSE req[field]

ChangedFee(m, req) ==
    IF req = NULL \/ (req.amount = SAME /\ req.method = SAME /\ req.creditor = SAME /\ ~req.other)
    THEN NULL
    ELSE [amount |-> Inherited(m, req, "amount"),
          maturity |-> LET d == Inherited(m, req, "maturity") IN IF d = SAME THEN NULL ELSE d,
          method |-> Inherited(m, req, "method"),
          creditor |-> LET c == Inherited(m, req, "creditor") IN IF c = SAME THEN NULL ELSE c]

\* 400 without an amount or a payment method; 500 if the creditor account is gone.
FeeAccepted(row) ==
    row # NULL =>
        row.amount # SAME /\ row.method # SAME /\ row.creditor \in Present \cup {NULL}

\* Slip: the upsert is keyed by the member alone and forgets the history.
FeesReplaced(m, row, starts) ==
    IF row = NULL THEN fees[m] ELSE [s \in Starts |-> IF s = starts THEN row ELSE NULL]

\* INSERT ... ON CONFLICT (member_id, starts_at) DO UPDATE
FeesAfter(m, row, starts) ==
    IF row = NULL THEN fees[m] ELSE [fees[m] EXCEPT ![starts] = row]

-----------------------------------------------------------------------------
(* Member requests.                                                        *)

Store(m, assigned, bank, feeRow, starts) ==
    /\ edits < MaxEdits
    /\ edits' = edits + 1
    /\ assigned \in Present \cup {NULL}
    /\ BankAccepted(m, bank)
    /\ FeeAccepted(feeRow)
    /\ members' = [members EXCEPT ![m] = assigned]
    /\ banks' = [banks EXCEPT ![m] = BanksAfter(m, bank)]
    /\ fees' = [fees EXCEPT ![m] = FeesAfter(m, feeRow, starts)]
    /\ UNCHANGED <<accounts, importing>>

StartOf(fee) == IF fee = NULL THEN NULL ELSE fee.starts

\* POST /members: there is no bank_account_id to name yet.
CreateMember(m, assigned, bank, fee) ==
    /\ m \notin Enrolled
    /\ bank # NULL => bank.at = 0
    /\ Store(m, assigned, bank, NewFee(bank, fee), StartOf(fee))

\* PUT /members/{id}: assigned_club_bank_id is overwritten even when it is not sent.
UpdateMember(m, assigned, bank, fee) ==
    /\ m \in Enrolled
    /\ Store(m, assigned, bank, ChangedFee(m, fee), StartOf(fee))

\* DELETE /members/{id}: bank accounts and fees go with the member.
DeleteMember(m) ==
    /\ m \in Enrolled
    /\ members' = [members EXCEPT ![m] = "absent"]
    /\ banks' = [banks EXCEPT ![m] = <<>>]
    /\ fees' = [fees EXCEPT ![m] = [s \in Starts |-> NULL]]
    /\ importing' = importing \ {m}
    /\ UNCHANGED <<accounts, edits>>

\* A row of POST /members/import: the member ...
ImportMember(m) ==
    /\ m \notin Enrolled
    /\ members' = [members EXCEPT ![m] = NULL]
    /\ importing' = importing \cup {m}
    /\ UNCHANGED <<banks, fees, accounts, edits>>

\* ... then the bank account; a missing reference or date of the mandate is made up.
ImportBank(m, row) ==
    /\ m \in importing
    /\ row.iban \notin Owned(m)
    /\ banks' = [banks EXCEPT ![m] =
                   Append(@, [iban |-> row.iban, mandate |-> row.mandate, complete |-> TRUE,
                              next |-> row.next])]
    /\ importing' = importing \ {m}
    /\ UNCHANGED <<members, fees, accounts, edits>>

\* There is no IBAN in the row, or the insert fails, or the server goes down.
ImportNoBank(m) ==
    /\ m \in importing
    /\ importing' = importing \ {m}
    /\ UNCHANGED <<members, banks, fees, accounts, edits>>

Next ==
    \/ \E a \in Accounts, row \in AccountRows : SaveAccount(a, row)
    \/ \E a \in Accounts : DeleteAccount(a)
    \/ \E m \in Members, assigned \in Accounts \cup {NULL},
          bank \in BankRequests \cup {NULL}, fee \in FeeRequests \cup {NULL} :
         CreateMember(m, assigned, bank, fee) \/ UpdateMember(m, assigned, bank, fee)
    \/ \E m \in Members : DeleteMember(m) \/ ImportMember(m) \/ ImportNoBank(m)
    \/ \E m \in Members, row \in ImportRows : ImportBank(m, row)

Spec == Init /\ [][Next]_vars

-----------------------------------------------------------------------------
(* GetDueMembershipFees for execution date d.                              *)

Defaults == {a \in Present : accounts[a].isDefault}

\* Slip: the member's account takes precedence over that of the fee.
MemberFirst(m, s) ==
    IF members[m] # NULL THEN {members[m]}
    ELSE IF fees[m][s].creditor # NULL THEN {fees[m][s].creditor} ELSE Defaults

\* COALESCE(fee's account, member's account, a default account of the club)
Creditors(m, s) ==
    IF fees[m][s].creditor # NULL THEN {fees[m][s].creditor}
    ELSE IF members[m] # NULL THEN {members[m]} ELSE Defaults

Due(m, s, d) ==
    /\ fees[m][s].method = "sepa"
    /\ fees[m][s].maturity # NULL
    /\ fees[m][s].maturity <= d

\* The rows of the join: fees, mandated accounts of the member, creditor accounts.
Joined(m, d) ==
    UNION {[fee : {s}, bank : {k \in DOMAIN banks[m] : banks[m][k].mandate},
            creditor : Creditors(m, s)] : s \in {t \in History(m) : Due(m, t, d)}}

Before(m, x, y) ==
    \/ fees[m][x.fee].maturity < fees[m][y.fee].maturity
    \/ fees[m][x.fee].maturity = fees[m][y.fee].maturity /\ x.bank > y.bank

\* DISTINCT ON (member_id): any row of the member that no other comes before.
FirstOf(m, d) ==
    LET joined == Joined(m, d) IN {x \in joined : \A y \in joined : ~Before(m, y, x)}

Debtors(d) == {m \in Enrolled : Joined(m, d) # {}}

\* One row for each debtor, with what the export needs of it.
RowOf(m, x) ==
    [member |-> m, creditor |-> x.creditor, fee |-> x.fee,
     amount |-> fees[m][x.fee].amount, iban |-> banks[m][x.bank].iban,
     complete |-> banks[m][x.bank].complete, next |-> banks[m][x.bank].next]

\* Slip: DISTINCT ON (mf.id).
EveryFee(d) == {UNION {{RowOf(m, x) : x \in Joined(m, d)} : m \in Debtors(d)}}

Selections(d) ==
    LET debtors == Debtors(d)
        first == [m \in debtors |-> FirstOf(m, d)]
    IN  {{RowOf(m, f[m]) : m \in debtors} :
           f \in {g \in [debtors -> UNION {first[m] : m \in debtors}] :
                    \A m \in debtors : g[m] \in first[m]}}

\* The rows come in the order of the members' ids, which are random.
Results(d) == UNION {SetToSeqs(rows) : rows \in Selections(d)}

-----------------------------------------------------------------------------
(* handleGenerateSEPA on the rows the query returned.                      *)

\* A NULL bic does not fit the generated row type, and the query as a whole fails.
ScanFails(rows) == \E x \in ToSet(rows) : ~accounts[x.creditor].bic

\* Slip: only missing mandates are looked for, not incomplete ones.
NoComplaint(rows) == {}

Complaints(rows) == {x \in ToSet(rows) : x.amount > 0 /\ ~x.complete}

Status(rows) ==
    IF ScanFails(rows) THEN "500"
    ELSE IF rows = <<>> THEN "404"
    ELSE IF Complaints(rows) # {} THEN "400" ELSE "200"

\* The files are keyed by the creditor's IBAN without its spaces.
IbanOf(a) == Stripped[accounts[a].iban]

KeyOf(x) == <<IbanOf(x.creditor), x.next>>

GroupOf(groups, key) == IF key \in DOMAIN groups THEN groups[key] ELSE <<>>

\* Slip: the payment group is made anew for every transaction.
AddToNewGroup(groups, x) ==
    [key \in DOMAIN groups \cup {KeyOf(x)} |-> IF key = KeyOf(x) THEN <<x>> ELSE groups[key]]

\* Each transaction goes to the payment group of its target IBAN and sequence type.
AddTransaction(groups, x) ==
    [key \in DOMAIN groups \cup {KeyOf(x)} |->
       IF key = KeyOf(x) THEN Append(GroupOf(groups, key), x) ELSE groups[key]]

\* The groups after the loop has gone through the rows.
Groups(rows) ==
    LET upTo[n \in 0 .. Len(rows)] ==
          IF n = 0 THEN <<>> ELSE AddTransaction(upTo[n - 1], rows[n])
    IN  upTo[Len(rows)]

GroupSum(group) == SumFunction([k \in DOMAIN group |-> group[k].amount])

mapSequenceType(type) ==
    CASE type = "first" -> "FRST"
      [] type = "recurring" -> "RCUR"
      [] type = "final" -> "FNAL"
      [] type = "one-off" -> "OOFF"
      [] OTHER -> type

\* A payment block: holder, BIC and creditor identifier are those of the account
\* of the group's first row.
PaymentInfo(groups, key) ==
    [SeqTp |-> mapSequenceType(key[2]), Cdtr |-> groups[key][1].creditor, txs |-> groups[key]]

\* One file per target IBAN, with the totals of its group header.
GenerateSEPA(groups) ==
    LET keysOf(i) == {key \in DOMAIN groups : key[1] = i}
    IN [i \in {key[1] : key \in DOMAIN groups} |->
          [NbOfTxs |-> SumFunction([key \in keysOf(i) |-> Len(groups[key])]),
           CtrlSum |-> SumFunction([key \in keysOf(i) |-> GroupSum(groups[key])]),
           PmtInf |-> {PaymentInfo(groups, key) : key \in keysOf(i)}]]

Files(rows) == IF Status(rows) = "200" THEN GenerateSEPA(Groups(rows)) ELSE <<>>

-----------------------------------------------------------------------------
(* Properties of every export that could be asked for.                     *)

Transactions(file) == UNION {ToSet(info.txs) : info \in file.PmtInf}

\* Every table row has the shape the constraints of the schema give it.
TypeOK ==
    /\ members \in [Members -> Accounts \cup {NULL, "absent"}]
    /\ banks \in [Members -> Seq(Bank)]
    /\ \A m \in Members : \A j, k \in DOMAIN banks[m] :
         banks[m][j].iban = banks[m][k].iban => j = k
    /\ fees \in [Members -> [Starts -> Fee \cup {NULL}]]
    /\ accounts \in [Accounts -> Account \cup {NULL}]
    /\ IbansDiffer
    /\ importing \subseteq Enrolled
    /\ edits \in 0..MaxEdits

\* However many fees and mandated accounts a member has gathered over the years,
\* the files of one export debit the member at most once (DISTINCT ON in
\* GetDueMembershipFees, then the grouping into files).
OneDebitPerMember ==
    \A d \in Dates : \A rows \in Results(d) :
        LET files == Files(rows)
            infos == UNION {files[i].PmtInf : i \in DOMAIN files}
            debits(m, info) == Cardinality({k \in DOMAIN info.txs : info.txs[k].member = m})
        IN \A m \in Members : SumFunction([info \in infos |-> debits(m, info)]) <= 1

\* The group headers that the bank checks (NbOfTxs, CtrlSum) state what is in
\* the files, and the files together collect all that the query found due, no
\* row lost in the grouping by target IBAN and sequence type.
FilesAddUp ==
    \A d \in Dates : \A rows \in Results(d) :
        LET files == Files(rows) IN
        Status(rows) = "200" =>
          /\ \A i \in DOMAIN files :
               /\ files[i].NbOfTxs = Cardinality(Transactions(files[i]))
               /\ files[i].CtrlSum = SumFunction([x \in Transactions(files[i]) |-> x.amount])
          /\ UNION {Transactions(files[i]) : i \in DOMAIN files} = ToSet(rows)

\* Money is debited only from an account of the member itself that has, at the
\* time of the export, a mandate with reference and date, whichever edits,
\* revocations and imports went before.
MandateBacked ==
    \A d \in Dates : \A rows \in Results(d) :
        LET files == Files(rows) IN
        \A i \in DOMAIN files : \A x \in Transactions(files[i]) :
            x.amount > 0 =>
              \E k \in DOMAIN banks[x.member] :
                 /\ banks[x.member][k].iban = x.iban
                 /\ banks[x.member][k].mandate
                 /\ banks[x.member][k].complete

\* "Fee Level Override": a fee that names its creditor account is collected for the
\* IBAN of that account, also when its rows are regrouped, and every payment block is
\* made out by an account that exists and has the IBAN of the file, also after the
\* account a member was assigned to has been deleted.  By which account, the order of
\* the rows decides if two have that IBAN, one written with other spaces.
CreditorHonoured ==
    \A d \in Dates : \A rows \in Results(d) :
        LET files == Files(rows) IN
        \A i \in DOMAIN files : \A info \in files[i].PmtInf :
            /\ info.Cdtr \in Present /\ IbanOf(info.Cdtr) = i
            /\ \A x \in ToSet(info.txs) :
                 LET named == fees[x.member][x.fee].creditor
                 IN  named # NULL => named \in Present /\ IbanOf(named) = i

\* The fee named an account that goes in this step, and changes in nothing else.
LostCreditor(m, s) ==
    /\ fees[m][s] # NULL
    /\ fees[m][s].creditor \in Present \ Present'
    /\ fees'[m][s] = [fees[m][s] EXCEPT !.creditor = NULL]

Rewritten(m, s) == fees'[m][s] # fees[m][s] /\ ~LostCreditor(m, s)

\* The fee history only grows: no start leaves the history of a member who stays, and
\* a step writes one fee of one member at most; all fees of other starts and of other
\* members keep their amount, method, maturity and creditor, but for a creditor
\* account that is deleted in the step.
HistoryKept ==
    [][/\ \A m \in Enrolled' : History(m) \subseteq History(m)'
       /\ \A m \in Enrolled', s \in Starts : Rewritten(m, s) =>
            \A n \in Enrolled', t \in Starts : Rewritten(n, t) => m = n /\ s = t]_vars

-----------------------------------------------------------------------------
(* A claim of the documentation that the code does not keep.               *)

\* "supporting FRST/RCUR/OOFF/FNAL sequence types"
SequenceTypesKnown ==
    \A d \in Dates : \A rows \in Results(d) :
        LET files == Files(rows) IN
        \A i \in DOMAIN files : \A info \in files[i].PmtInf :
            info.SeqTp \in {"FRST", "RCUR", "OOFF", "FNAL"}
=============================================================================
