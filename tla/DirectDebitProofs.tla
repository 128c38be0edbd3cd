------------------------- MODULE DirectDebitProofs -------------------------
(***************************************************************************)
(* Proofs about DirectDebit, for any members, accounts, fees and dates.    *)
(*                                                                         *)
(* The tables: IInv adds to the shape of the rows that no link to a club   *)
(* account dangles (Linked), and that only finitely many members and fees  *)
(* have been entered so far (FinitelyMany), without which there would be   *)
(* no latest fee and no list of debtors.                                   *)
(*                                                                         *)
(* The export: what the loop over the rows builds is described by Grouped, *)
(* which one more transaction preserves; a number of files is then a       *)
(* partition of the rows by IBAN and sequence type, and the properties     *)
(* of an export are properties of that partition.                          *)
(***************************************************************************)
EXTENDS DirectDebit, Sums

Linked ==
    /\ \A m \in Members : members[m] \in Present \cup {NULL, "absent"}
    /\ \A m \in Members : \A s \in History(m) : fees[m][s].creditor \in Present \cup {NULL}

FinitelyMany ==
    /\ IsFiniteSet(Enrolled)
    /\ \A m \in Members : IsFiniteSet(History(m))

IInv == TypeOK /\ Linked /\ FinitelyMany

Unequal(seq) == \A j, k \in DOMAIN seq : seq[j].iban = seq[k].iban => j = k

-----------------------------------------------------------------------------
(* What a request makes of a member's accounts and fees.                   *)

LEMMA BanksTyped ==
    ASSUME TypeOK, NEW m \in Members
    PROVE  /\ banks[m] \in Seq(Bank) /\ Len(banks[m]) \in Nat
           /\ DOMAIN banks[m] = 1 .. Len(banks[m])
           /\ \A k \in DOMAIN banks[m] : banks[m][k] \in Bank
           /\ Unequal(banks[m])
<1>1. banks[m] \in Seq(Bank) /\ Unequal(banks[m])
  BY DEF TypeOK, Unequal
<1>. QED BY <1>1

\* One more account, with an IBAN that the member does not have yet.
LEMMA AppendedBank ==
    ASSUME TypeOK, NEW m \in Members, NEW b \in Bank, b.iban \notin Owned(m)
    PROVE  Append(banks[m], b) \in Seq(Bank) /\ Unequal(Append(banks[m], b))
<1>. DEFINE n == Len(banks[m])  new == Append(banks[m], b)
<1>1. /\ banks[m] \in Seq(Bank) /\ n \in Nat /\ DOMAIN banks[m] = 1 .. n
      /\ Unequal(banks[m])
  BY BanksTyped
<1>2. /\ new \in Seq(Bank) /\ DOMAIN new = 1 .. n + 1
      /\ \A k \in 1 .. n : new[k] = banks[m][k]
      /\ new[n + 1] = b
  BY <1>1
<1>3. \A k \in 1 .. n : banks[m][k].iban # b.iban
  BY <1>1 DEF Owned
<1>4. DOMAIN new = 1 .. n \cup {n + 1}
  BY <1>1, <1>2
<1>. HIDE DEF new, n
<1>. QED BY <1>1, <1>2, <1>3, <1>4 DEF Unequal, new

LEMMA BanksAfterTyped ==
    ASSUME TypeOK, NEW m \in Members, NEW req \in BankRequests \cup {NULL}, BankAccepted(m, req)
    PROVE  BanksAfter(m, req) \in Seq(Bank) /\ Unequal(BanksAfter(m, req))
<1>1. CASE req = NULL
  BY <1>1, BanksTyped DEF BanksAfter
<1>2. ASSUME req # NULL PROVE BankRow(req) \in Bank /\ BankRow(req).iban = req.iban
  BY <1>2, RequestShapes DEF BankRow, Bank, DebitTypes
<1>3. CASE req # NULL /\ UpdatedBank(m, req) # {}
  <2>. DEFINE U == UpdatedBank(m, req)
              new == [k \in DOMAIN banks[m] |-> IF k \in U THEN BankRow(req) ELSE banks[m][k]]
  <2>1. BanksAfter(m, req) = new
    BY <1>3 DEF BanksAfter
  <2>2. BankRow(req) \in Bank
    BY <1>2, <1>3
  <2>3. new \in Seq(Bank)
    BY <2>2, BanksTyped
  <2>4. \A k \in U : \A j \in DOMAIN banks[m] : banks[m][j].iban = req.iban => j = k
    BY <1>3, BanksTyped DEF BankAccepted, UpdatedBank, Unequal
  <2>5. U \subseteq DOMAIN banks[m] /\ \A j, k \in U : j = k
    BY <1>3, BanksTyped DEF UpdatedBank, Unequal
  <2>6. Unequal(new)
    <3>. HIDE DEF U
    <3>. QED BY <1>2, <1>3, <2>4, <2>5, BanksTyped DEF Unequal
  <2>. QED BY <2>1, <2>3, <2>6
<1>4. CASE req # NULL /\ UpdatedBank(m, req) = {}
  <2>1. BanksAfter(m, req) = Append(banks[m], BankRow(req))
    BY <1>4 DEF BanksAfter
  <2>2. req.iban \notin Owned(m)
    BY <1>4 DEF Owned, UpdatedBank, BankAccepted
  <2>. QED BY <1>2, <1>4, <2>1, <2>2, AppendedBank
<1>. QED BY <1>1, <1>3, <1>4

LEMMA FeesTyped ==
    ASSUME TypeOK, NEW m \in Members
    PROVE  /\ fees[m] \in [Starts -> Fee \cup {NULL}]
           /\ \A s \in History(m) : s \in Starts /\ fees[m][s] \in Fee
  BY DEF TypeOK, History

\* A member with a fee has a latest one.
LEMMA LatestIsFee ==
    ASSUME IInv, NEW m \in Members, History(m) # {}
    PROVE  Latest(m) \in Fee
<1>1. History(m) \in SUBSET Int /\ IsFiniteSet(History(m))
  BY DaysAreIntegers DEF IInv, FinitelyMany, History
<1>2. \E s \in History(m) : \A t \in History(m) : t <= s
  BY <1>1, HasMaximum
<1>. DEFINE last == CHOOSE s \in History(m) : \A t \in History(m) : t <= s
<1>3. last \in History(m)
  BY <1>2
<1>4. Latest(m) = fees[m][last]
  BY DEF Latest
<1>. HIDE DEF last
<1>. QED BY <1>3, <1>4, FeesTyped DEF IInv

\* A fee row that is accepted can be stored.
Storable(row) == row = NULL \/ (row \in Fee /\ row.creditor \in Present \cup {NULL})

LEMMA NewFeeStorable ==
    ASSUME NEW bank, NEW req \in FeeRequests \cup {NULL}, FeeAccepted(NewFee(bank, req))
    PROVE  Storable(NewFee(bank, req)) /\ (NewFee(bank, req) # NULL => StartOf(req) \in Starts)
<1>. DEFINE row == NewFee(bank, req)
<1>. SUFFICES ASSUME row # NULL PROVE Storable(row) /\ StartOf(req) \in Starts
  BY DEF Storable
<1>1. req # NULL /\ req \in FeeRequests /\ ~(req.amount = SAME /\ req.method = SAME)
  BY DEF NewFee
<1>2. row = [amount |-> req.amount,
             maturity |-> IF req.maturity = SAME THEN NULL ELSE req.maturity,
             method |-> IF req.method # SAME THEN req.method
                        ELSE IF bank # NULL /\ bank.mandate THEN "sepa" ELSE "transfer",
             creditor |-> IF req.creditor = SAME THEN NULL ELSE req.creditor]
  BY <1>1 DEF NewFee
<1>3. row.amount # SAME /\ row.creditor \in Present \cup {NULL}
  BY DEF FeeAccepted
<1>4. /\ req.starts \in Starts /\ req.amount \in Nat \cup {SAME}
      /\ req.maturity \in Dates \cup {SAME} /\ req.method \in Methods \cup {SAME}
      /\ req.creditor \in Accounts \cup {NULL, SAME}
  BY <1>1, RequestShapes
<1>. HIDE DEF row
<1>5. /\ row.amount \in Nat /\ row.maturity \in Dates \cup {NULL}
      /\ row.method \in Methods /\ row.creditor \in Accounts \cup {NULL}
  BY <1>2, <1>3, <1>4 DEF Methods
<1>6. row \in Fee
  BY <1>2, <1>5 DEF Fee
<1>. QED BY <1>1, <1>3, <1>4, <1>6 DEF Storable, StartOf

LEMMA ChangedFeeStorable ==
    ASSUME IInv, NEW m \in Members, NEW req \in FeeRequests \cup {NULL},
           FeeAccepted(ChangedFee(m, req))
    PROVE  Storable(ChangedFee(m, req)) /\ (ChangedFee(m, req) # NULL => StartOf(req) \in Starts)
<1>. DEFINE row == ChangedFee(m, req)
            d == Inherited(m, req, "maturity")
            c == Inherited(m, req, "creditor")
<1>. SUFFICES ASSUME row # NULL PROVE Storable(row) /\ StartOf(req) \in Starts
  BY DEF Storable
<1>1. req # NULL /\ req \in FeeRequests
  BY DEF ChangedFee
<1>2. row = [amount |-> Inherited(m, req, "amount"), maturity |-> IF d = SAME THEN NULL ELSE d,
             method |-> Inherited(m, req, "method"), creditor |-> IF c = SAME THEN NULL ELSE c]
  BY DEF ChangedFee
<1>3. row.amount # SAME /\ row.method # SAME /\ row.creditor \in Present \cup {NULL}
  BY DEF FeeAccepted
<1>4. /\ req.starts \in Starts /\ req.amount \in Nat \cup {SAME}
      /\ req.maturity \in Dates \cup {SAME} /\ req.method \in Methods \cup {SAME}
      /\ req.creditor \in Accounts \cup {NULL, SAME}
  BY <1>1, RequestShapes
<1>5. History(m) # {} =>
        /\ Latest(m).amount \in Nat /\ Latest(m).maturity \in Dates \cup {NULL}
        /\ Latest(m).method \in Methods /\ Latest(m).creditor \in Accounts \cup {NULL}
  BY LatestIsFee DEF Fee
<1>6. /\ Inherited(m, req, "amount") \in Nat \cup {SAME}
      /\ d \in Dates \cup {NULL, SAME}
      /\ Inherited(m, req, "method") \in Methods \cup {SAME}
      /\ c \in Accounts \cup {NULL, SAME}
  BY <1>4, <1>5 DEF Inherited
<1>. HIDE DEF row, d, c
<1>7. /\ row.amount \in Nat /\ row.maturity \in Dates \cup {NULL}
      /\ row.method \in Methods /\ row.creditor \in Accounts \cup {NULL}
  BY <1>2, <1>3, <1>6
<1>8. row \in Fee
  BY <1>2, <1>7 DEF Fee
<1>. QED BY <1>1, <1>3, <1>4, <1>8 DEF Storable, StartOf

-----------------------------------------------------------------------------
(* Every step keeps the tables in order.                                   *)

LEMMA SameIbans ==
    ASSUME IbansDiffer, accounts' = accounts
    PROVE  IbansDiffer'
  BY DEF IbansDiffer, Present

LEMMA InitInv == Init => IInv
<1>. SUFFICES ASSUME Init PROVE IInv
  OBVIOUS
<1>1. TypeOK
  <2>1. banks \in [Members -> Seq(Bank)] /\ \A m \in Members : DOMAIN banks[m] = {}
    BY DEF Init
  <2>. QED BY <2>1, RequestShapes, DaysAreIntegers DEF Init, TypeOK, Enrolled
<1>2. Enrolled = {} /\ \A m \in Members : History(m) = {}
  BY DEF Init, Enrolled, History
<1>. QED BY <1>1, <1>2, FS_EmptySet DEF Init, IInv, Linked, FinitelyMany

\* The fees of one member may change by a row that is storable.
LEMMA FeesAfterTyped ==
    ASSUME IInv, NEW m \in Members, NEW row, NEW starts, Storable(row),
           row # NULL => starts \in Starts
    PROVE  /\ FeesAfter(m, row, starts) \in [Starts -> Fee \cup {NULL}]
           /\ \A s \in Starts : FeesAfter(m, row, starts)[s] # NULL =>
                FeesAfter(m, row, starts)[s].creditor \in Present \cup {NULL}
           /\ \A s \in Starts :
                \/ FeesAfter(m, row, starts)[s] = fees[m][s]
                \/ row # NULL /\ s = starts /\ FeesAfter(m, row, starts)[s] = row
<1>. DEFINE new == FeesAfter(m, row, starts)
<1>1. fees[m] \in [Starts -> Fee \cup {NULL}]
  BY FeesTyped DEF IInv
<1>2. \A s \in Starts : fees[m][s] # NULL => fees[m][s].creditor \in Present \cup {NULL}
  BY DEF IInv, Linked, History
<1>3. CASE row = NULL
  BY <1>1, <1>2, <1>3 DEF FeesAfter
<1>4. CASE row # NULL
  <2>1. new = [fees[m] EXCEPT ![starts] = row] /\ row \in Fee /\ starts \in Starts
        /\ row.creditor \in Present \cup {NULL}
    BY <1>4 DEF FeesAfter, Storable
  <2>2. new = [s \in Starts |-> IF s = starts THEN row ELSE fees[m][s]]
    BY <1>1, <2>1
  <2>. HIDE DEF new
  <2>. QED BY <1>1, <1>2, <1>4, <2>1, <2>2 DEF new
<1>. QED BY <1>3, <1>4

LEMMA StoreKeeps ==
    ASSUME IInv, NEW m \in Members, NEW assigned \in Accounts \cup {NULL},
           NEW bank \in BankRequests \cup {NULL}, NEW row, NEW starts,
           Storable(row), row # NULL => starts \in Starts,
           Store(m, assigned, bank, row, starts)
    PROVE  IInv'
<1>. DEFINE newFees == FeesAfter(m, row, starts)  newBanks == BanksAfter(m, bank)
<1>1. /\ edits < MaxEdits /\ edits' = edits + 1
      /\ assigned \in Present \cup {NULL}
      /\ members' = [members EXCEPT ![m] = assigned]
      /\ banks' = [banks EXCEPT ![m] = newBanks]
      /\ fees' = [fees EXCEPT ![m] = newFees]
      /\ accounts' = accounts /\ importing' = importing
  BY DEF Store
<1>2. newBanks \in Seq(Bank) /\ Unequal(newBanks)
  BY BanksAfterTyped DEF Store, IInv
<1>3. /\ newFees \in [Starts -> Fee \cup {NULL}]
      /\ \A s \in Starts : newFees[s] # NULL => newFees[s].creditor \in Present \cup {NULL}
      /\ \A s \in Starts : newFees[s] = fees[m][s] \/ (row # NULL /\ s = starts /\ newFees[s] = row)
  BY FeesAfterTyped
<1>. HIDE DEF newFees, newBanks
<1>4. Present' = Present
  BY <1>1 DEF Present
<1>5. /\ members \in [Members -> Accounts \cup {NULL, "absent"}]
      /\ banks \in [Members -> Seq(Bank)]
      /\ fees \in [Members -> [Starts -> Fee \cup {NULL}]]
      /\ accounts \in [Accounts -> Account \cup {NULL}] /\ IbansDiffer
      /\ importing \subseteq Enrolled /\ edits \in 0 .. MaxEdits
  BY DEF IInv, TypeOK
<1>6. assigned # "absent" /\ members'[m] = assigned
      /\ \A q \in Members \ {m} : members'[q] = members[q]
  BY <1>1, <1>5, NothingIsAValue
<1>7. Enrolled' = Enrolled \cup {m}
  BY <1>6 DEF Enrolled
<1>8. TypeOK'
  <2>1. members' \in [Members -> Accounts \cup {NULL, "absent"}]
    BY <1>1, <1>5
  <2>2. banks' \in [Members -> Seq(Bank)]
    BY <1>1, <1>2, <1>5
  <2>3. \A q \in Members : Unequal(banks'[q])
    BY <1>1, <1>2, <1>5, BanksTyped DEF IInv
  <2>4. fees' \in [Members -> [Starts -> Fee \cup {NULL}]]
    BY <1>1, <1>3, <1>5
  <2>5. edits' \in 0 .. MaxEdits
    BY <1>1, <1>5, DaysAreIntegers
  <2>. QED BY <1>1, <1>5, <1>7, <2>1, <2>2, <2>3, <2>4, <2>5, SameIbans DEF TypeOK, Unequal
<1>9. fees'[m] = newFees /\ \A q \in Members \ {m} : fees'[q] = fees[q]
  BY <1>1, <1>5
<1>10. \A q \in Members \ {m} : History(q)' = History(q)
  BY <1>9 DEF History
<1>11. \A s \in History(m)' : s \in Starts /\ newFees[s] # NULL
  BY <1>9 DEF History
<1>12. Linked'
  <2>1. \A q \in Members : members'[q] \in Present \cup {NULL, "absent"}
    BY <1>1, <1>6 DEF IInv, Linked
  <2>2. ASSUME NEW q \in Members, NEW s \in History(q)'
        PROVE  fees'[q][s].creditor \in Present \cup {NULL}
    <3>1. CASE q = m
      BY <1>3, <1>9, <1>11, <2>2, <3>1
    <3>2. CASE q # m
      BY <1>9, <1>10, <2>2, <3>2 DEF IInv, Linked
    <3>. QED BY <3>1, <3>2
  <2>. QED BY <1>4, <2>1, <2>2 DEF Linked
<1>13. FinitelyMany'
  <2>1. IsFiniteSet(Enrolled')
    BY <1>7, FS_AddElement DEF IInv, FinitelyMany
  <2>2. History(m)' \subseteq History(m) \cup {starts}
    BY <1>3, <1>11 DEF History
  <2>3. IsFiniteSet(History(m)')
    BY <2>2, FS_AddElement, FS_Subset DEF IInv, FinitelyMany
  <2>. QED BY <1>10, <2>1, <2>3 DEF IInv, FinitelyMany
<1>. QED BY <1>8, <1>12, <1>13 DEF IInv

\* What members and fees say of club accounts holds as long as no account goes.
LEMMA SaveAccountKeeps ==
    ASSUME IInv, NEW a \in Accounts, NEW row \in AccountRows, SaveAccount(a, row)
    PROVE  IInv'
<1>1. /\ \A b \in Present \ {a} : accounts[b].iban # row.iban
      /\ accounts' = [accounts EXCEPT ![a] = row] /\ members' = members /\ banks' = banks
      /\ fees' = fees /\ importing' = importing /\ edits' = edits
  BY DEF SaveAccount
<1>2. row \in Account
  BY RequestShapes
<1>3. Enrolled' = Enrolled /\ \A m : History(m)' = History(m)
  BY <1>1 DEF Enrolled, History
<1>4. TypeOK'
  <2>1. accounts' \in [Accounts -> Account \cup {NULL}]
    BY <1>1, <1>2 DEF IInv, TypeOK
  <2>2. accounts'[a] = row /\ \A b \in Accounts \ {a} : accounts'[b] = accounts[b]
    BY <1>1 DEF IInv, TypeOK
  <2>3. Present' \subseteq Present \cup {a}
    BY <2>2 DEF Present
  <2>4. IbansDiffer'
    <3>1. ASSUME NEW b \in Present', NEW c \in Present', accounts'[b].iban = accounts'[c].iban
          PROVE  b = c
      <4>1. b \in Present \cup {a} /\ c \in Present \cup {a}
        BY <2>3
      <4>. QED BY <1>1, <2>2, <3>1, <4>1 DEF IInv, TypeOK, IbansDiffer, Present
    <3>. QED BY <3>1 DEF IbansDiffer
  <2>. QED BY <1>1, <1>3, <2>1, <2>4 DEF IInv, TypeOK
<1>5. Present \subseteq Present'
  BY <1>1, <1>2, NothingIsAValue DEF IInv, TypeOK, Present
<1>6. Linked'
  BY <1>1, <1>3, <1>5 DEF IInv, Linked
<1>. QED BY <1>3, <1>4, <1>6 DEF IInv, FinitelyMany

\* A fee or member that was linked to the account is linked to none afterwards.
LEMMA DeleteAccountKeeps ==
    ASSUME IInv, NEW a \in Accounts, DeleteAccount(a)
    PROVE  IInv'
<1>. DEFINE unlinked(fee) == IF fee # NULL /\ fee.creditor = a
                             THEN [fee EXCEPT !.creditor = NULL] ELSE fee
<1>1. /\ accounts' = [accounts EXCEPT ![a] = NULL]
      /\ members' = [m \in Members |-> IF members[m] = a THEN NULL ELSE members[m]]
      /\ fees' = [m \in Members |-> [s \in Starts |-> unlinked(fees[m][s])]]
      /\ banks' = banks /\ importing' = importing /\ edits' = edits
  BY DEF DeleteAccount
<1>2. /\ members \in [Members -> Accounts \cup {NULL, "absent"}]
      /\ fees \in [Members -> [Starts -> Fee \cup {NULL}]]
      /\ accounts \in [Accounts -> Account \cup {NULL}]
  BY DEF IInv, TypeOK
<1>3. ASSUME NEW fee \in Fee \cup {NULL}
      PROVE  /\ unlinked(fee) \in Fee \cup {NULL}
             /\ unlinked(fee) = NULL <=> fee = NULL
             /\ fee # NULL => unlinked(fee).creditor = IF fee.creditor = a THEN NULL ELSE fee.creditor
  <2>1. CASE fee = NULL
    BY <2>1
  <2>2. CASE fee \in Fee
    <3>1. [fee EXCEPT !.creditor = NULL] \in Fee /\ [fee EXCEPT !.creditor = NULL].creditor = NULL
      BY <2>2 DEF Fee
    <3>. QED BY <2>2, <3>1, NothingIsAValue
  <2>. QED BY <2>1, <2>2
<1>. HIDE DEF unlinked
<1>4. Present' = Present \ {a}
  BY <1>1, <1>2 DEF Present
<1>5. \A m \in Members : /\ members'[m] = IF members[m] = a THEN NULL ELSE members[m]
                         /\ members'[m] = "absent" <=> members[m] = "absent"
  BY <1>1, NothingIsAValue
<1>6. Enrolled' = Enrolled
  BY <1>5 DEF Enrolled
<1>7. \A m \in Members : \A s \in Starts : fees'[m][s] = unlinked(fees[m][s])
  BY <1>1
<1>8. \A m \in Members : \A s \in Starts : fees[m][s] \in Fee \cup {NULL}
  BY <1>2
<1>9. \A m \in Members : History(m)' = History(m)
  BY <1>3, <1>7, <1>8 DEF History
<1>10. TypeOK'
  <2>1. fees' \in [Members -> [Starts -> Fee \cup {NULL}]]
    BY <1>1, <1>3, <1>8
  <2>2. members' \in [Members -> Accounts \cup {NULL, "absent"}]
    BY <1>1, <1>2
  <2>3. accounts' \in [Accounts -> Account \cup {NULL}]
    BY <1>1, <1>2
  <2>4. IbansDiffer'
    <3>1. \A b \in Present' : b \in Present /\ accounts'[b] = accounts[b]
      BY <1>1, <1>2 DEF Present
    <3>. QED BY <3>1 DEF IInv, TypeOK, IbansDiffer
  <2>. QED BY <1>1, <1>6, <2>1, <2>2, <2>3, <2>4 DEF IInv, TypeOK
<1>11. Linked'
  <2>1. \A m \in Members : members'[m] \in Present' \cup {NULL, "absent"}
    BY <1>4, <1>5 DEF IInv, Linked
  <2>2. ASSUME NEW m \in Members, NEW s \in History(m)'
        PROVE  fees'[m][s].creditor \in Present' \cup {NULL}
    <3>1. s \in History(m) /\ s \in Starts /\ fees[m][s] # NULL
      BY <1>9, <2>2 DEF History
    <3>2. fees[m][s].creditor \in Present \cup {NULL}
      BY <3>1 DEF IInv, Linked
    <3>3. fees'[m][s].creditor = IF fees[m][s].creditor = a THEN NULL ELSE fees[m][s].creditor
      BY <1>3, <1>7, <1>8, <3>1
    <3>. QED BY <1>4, <3>2, <3>3
  <2>. QED BY <2>1, <2>2 DEF Linked
<1>. QED BY <1>6, <1>9, <1>10, <1>11 DEF IInv, FinitelyMany

LEMMA DeleteMemberKeeps ==
    ASSUME IInv, NEW m \in Members, DeleteMember(m)
    PROVE  IInv'
<1>1. /\ members' = [members EXCEPT ![m] = "absent"]
      /\ banks' = [banks EXCEPT ![m] = <<>>]
      /\ fees' = [fees EXCEPT ![m] = [s \in Starts |-> NULL]]
      /\ importing' = importing \ {m} /\ accounts' = accounts /\ edits' = edits
  BY DEF DeleteMember
<1>2. /\ members \in [Members -> Accounts \cup {NULL, "absent"}]
      /\ banks \in [Members -> Seq(Bank)]
      /\ fees \in [Members -> [Starts -> Fee \cup {NULL}]]
  BY DEF IInv, TypeOK
<1>3. /\ members'[m] = "absent" /\ banks'[m] = <<>> /\ \A s \in Starts : fees'[m][s] = NULL
      /\ \A q \in Members \ {m} : members'[q] = members[q] /\ banks'[q] = banks[q] /\ fees'[q] = fees[q]
  BY <1>1, <1>2
<1>4. Enrolled' = Enrolled \ {m} /\ Present' = Present
  BY <1>1, <1>3 DEF Enrolled, Present
<1>5. History(m)' = {} /\ \A q \in Members \ {m} : History(q)' = History(q)
  BY <1>3 DEF History
<1>6. TypeOK'
  <2>1. banks' \in [Members -> Seq(Bank)]
    BY <1>1, <1>2
  <2>2. \A q \in Members : Unequal(banks'[q])
    BY <1>3, BanksTyped DEF IInv, Unequal
  <2>3. fees' \in [Members -> [Starts -> Fee \cup {NULL}]]
    BY <1>1, <1>2
  <2>. QED BY <1>1, <1>2, <1>4, <2>1, <2>2, <2>3, SameIbans DEF IInv, TypeOK, Unequal
<1>7. Linked'
  BY <1>3, <1>4, <1>5 DEF IInv, Linked
<1>8. FinitelyMany'
  BY <1>4, <1>5, FS_Subset, FS_EmptySet DEF IInv, FinitelyMany
<1>. QED BY <1>6, <1>7, <1>8 DEF IInv

LEMMA ImportMemberKeeps ==
    ASSUME IInv, NEW m \in Members, ImportMember(m)
    PROVE  IInv'
<1>1. /\ members' = [members EXCEPT ![m] = NULL] /\ importing' = importing \cup {m}
      /\ banks' = banks /\ fees' = fees /\ accounts' = accounts /\ edits' = edits
  BY DEF ImportMember
<1>2. /\ members \in [Members -> Accounts \cup {NULL, "absent"}]
      /\ members'[m] = NULL /\ \A q \in Members \ {m} : members'[q] = members[q]
  BY <1>1 DEF IInv, TypeOK
<1>3. Enrolled' = Enrolled \cup {m} /\ Present' = Present /\ \A q : History(q)' = History(q)
  BY <1>1, <1>2, NothingIsAValue DEF Enrolled, Present, History
<1>4. TypeOK'
  BY <1>1, <1>2, <1>3, SameIbans DEF IInv, TypeOK
<1>5. Linked'
  BY <1>1, <1>2, <1>3 DEF IInv, Linked
<1>6. FinitelyMany'
  BY <1>3, FS_AddElement DEF IInv, FinitelyMany
<1>. QED BY <1>4, <1>5, <1>6 DEF IInv

LEMMA ImportBankKeeps ==
    ASSUME IInv, NEW m \in Members, NEW row \in ImportRows, ImportBank(m, row)
    PROVE  IInv'
<1>. DEFINE b == [iban |-> row.iban, mandate |-> row.mandate, complete |-> TRUE, next |-> row.next]
<1>1. /\ row.iban \notin Owned(m) /\ banks' = [banks EXCEPT ![m] = Append(@, b)]
      /\ importing' = importing \ {m}
      /\ members' = members /\ fees' = fees /\ accounts' = accounts /\ edits' = edits
  BY DEF ImportBank
<1>2. b \in Bank /\ b.iban = row.iban
  BY RequestShapes DEF Bank
<1>. HIDE DEF b
<1>3. Append(banks[m], b) \in Seq(Bank) /\ Unequal(Append(banks[m], b))
  BY <1>1, <1>2, AppendedBank DEF IInv
<1>4. banks \in [Members -> Seq(Bank)]
  BY DEF IInv, TypeOK
<1>5. /\ banks' \in [Members -> Seq(Bank)]
      /\ \A q \in Members : Unequal(banks'[q])
  <2>1. banks'[m] = Append(banks[m], b) /\ \A q \in Members \ {m} : banks'[q] = banks[q]
    BY <1>1, <1>4
  <2>2. banks' \in [Members -> Seq(Bank)]
    BY <1>1, <1>3, <1>4
  <2>. QED BY <1>3, <2>1, <2>2, BanksTyped DEF IInv
<1>6. Enrolled' = Enrolled /\ Present' = Present /\ \A q : History(q)' = History(q)
  BY <1>1 DEF Enrolled, Present, History
<1>7. TypeOK'
  BY <1>1, <1>5, <1>6, SameIbans DEF IInv, TypeOK, Unequal
<1>8. Linked' /\ FinitelyMany'
  BY <1>1, <1>6 DEF IInv, Linked, FinitelyMany
<1>. QED BY <1>7, <1>8 DEF IInv

LEMMA RestKeeps ==
    ASSUME IInv, importing' \subseteq importing,
           UNCHANGED <<members, banks, fees, accounts, edits>>
    PROVE  IInv'
<1>1. Enrolled' = Enrolled /\ Present' = Present /\ \A q : History(q)' = History(q)
  BY DEF Enrolled, Present, History
<1>2. TypeOK'
  BY <1>1, SameIbans DEF IInv, TypeOK
<1>3. Linked' /\ FinitelyMany'
  BY <1>1 DEF IInv, Linked, FinitelyMany
<1>. QED BY <1>2, <1>3 DEF IInv

LEMMA StepInv == IInv /\ [Next]_vars => IInv'
<1>. SUFFICES ASSUME IInv, [Next]_vars PROVE IInv'
  OBVIOUS
<1>1. ASSUME NEW a \in Accounts, NEW row \in AccountRows, SaveAccount(a, row) PROVE IInv'
  BY <1>1, SaveAccountKeeps
<1>2. ASSUME NEW a \in Accounts, DeleteAccount(a) PROVE IInv'
  BY <1>2, DeleteAccountKeeps
<1>3. ASSUME NEW m \in Members, NEW assigned \in Accounts \cup {NULL},
             NEW bank \in BankRequests \cup {NULL}, NEW fee \in FeeRequests \cup {NULL},
             CreateMember(m, assigned, bank, fee)
      PROVE  IInv'
  <2>1. Store(m, assigned, bank, NewFee(bank, fee), StartOf(fee))
        /\ FeeAccepted(NewFee(bank, fee))
    BY <1>3 DEF CreateMember, Store
  <2>. QED BY <2>1, NewFeeStorable, StoreKeeps
<1>4. ASSUME NEW m \in Members, NEW assigned \in Accounts \cup {NULL},
             NEW bank \in BankRequests \cup {NULL}, NEW fee \in FeeRequests \cup {NULL},
             UpdateMember(m, assigned, bank, fee)
      PROVE  IInv'
  <2>1. Store(m, assigned, bank, ChangedFee(m, fee), StartOf(fee))
        /\ FeeAccepted(ChangedFee(m, fee))
    BY <1>4 DEF UpdateMember, Store
  <2>. QED BY <2>1, ChangedFeeStorable, StoreKeeps
<1>5. ASSUME NEW m \in Members, DeleteMember(m) PROVE IInv'
  BY <1>5, DeleteMemberKeeps
<1>6. ASSUME NEW m \in Members, ImportMember(m) PROVE IInv'
  BY <1>6, ImportMemberKeeps
<1>7. ASSUME NEW m \in Members, ImportNoBank(m) PROVE IInv'
  BY <1>7, RestKeeps DEF ImportNoBank
<1>8. ASSUME NEW m \in Members, NEW row \in ImportRows, ImportBank(m, row) PROVE IInv'
  BY <1>8, ImportBankKeeps
<1>9. CASE UNCHANGED vars
  BY <1>9, RestKeeps DEF vars
<1>. QED BY <1>1, <1>2, <1>3, <1>4, <1>5, <1>6, <1>7, <1>8, <1>9 DEF Next

\* No row loses its shape and no link dangles, whatever members, imports and the
\* treasurer do.
THEOREM Invariance == Spec => []IInv
  BY InitInv, StepInv, PTL DEF Spec

\* Every row of the tables has the shape that the schema gives it; the IBANs of a
\* member stay distinct although nobody but UNIQUE (member_id, iban) sees to it.
THEOREM TypeCorrect == Spec => []TypeOK
<1>1. IInv => TypeOK
  BY DEF IInv
<1>. QED BY <1>1, Invariance, PTL

-----------------------------------------------------------------------------
(* The fee history.                                                        *)

\* No start leaves a history, and no fee is rewritten but that of m at s.
OnlyFee(m, s) ==
    /\ \A n \in Enrolled' : History(n) \subseteq History(n)'
    /\ \A n \in Enrolled' : \A t \in Starts : Rewritten(n, t) => n = m /\ t = s

KeepsHistory == \E m, s : OnlyFee(m, s)

LEMMA UntouchedIsKept ==
    ASSUME \A n \in Enrolled' : fees'[n] = fees[n]
    PROVE  KeepsHistory
<1>1. \A m, s : OnlyFee(m, s)
  BY DEF OnlyFee, History, Rewritten
<1>. QED BY <1>1 DEF KeepsHistory

\* The upsert writes the fee of one start, and no request writes NULL.
LEMMA StoredIsKept ==
    ASSUME IInv, NEW m \in Members, NEW assigned, NEW bank, NEW row, NEW starts,
           Storable(row), row # NULL => starts \in Starts,
           Store(m, assigned, bank, row, starts)
    PROVE  KeepsHistory
<1>1. fees' = [fees EXCEPT ![m] = FeesAfter(m, row, starts)]
  BY DEF Store
<1>2. fees \in [Members -> [Starts -> Fee \cup {NULL}]]
  BY DEF IInv, TypeOK
<1>3. \A q \in Members \ {m} : fees'[q] = fees[q]
  BY <1>1, <1>2
<1>4. fees'[m] = FeesAfter(m, row, starts)
  BY <1>1, <1>2
<1>5. \A s \in Starts :
        fees'[m][s] = fees[m][s] \/ (row # NULL /\ s = starts /\ fees'[m][s] = row)
  BY <1>4, FeesAfterTyped
<1>6. Enrolled' \subseteq Members
  BY DEF Enrolled
<1>7. \A n \in Enrolled' : History(n) \subseteq History(n)'
  BY <1>3, <1>5, <1>6 DEF History
<1>8. \A n \in Enrolled' : \A t \in Starts : Rewritten(n, t) => n = m /\ t = starts
  BY <1>3, <1>5, <1>6 DEF Rewritten
<1>9. OnlyFee(m, starts)
  BY <1>7, <1>8 DEF OnlyFee
<1>. QED BY <1>9 DEF KeepsHistory

\* A fee that names the account that goes loses the link and nothing else.
LEMMA UnlinkedIsKept ==
    ASSUME IInv, NEW a \in Accounts, DeleteAccount(a)
    PROVE  KeepsHistory
<1>1. a \in Present \ Present'
  BY DEF DeleteAccount, IInv, TypeOK, Present
<1>2. ASSUME NEW m \in Members, NEW s \in Starts
      PROVE  /\ fees[m][s] # NULL => fees'[m][s] # NULL
             /\ ~Rewritten(m, s)
  <2>1. fees'[m][s] = IF fees[m][s] # NULL /\ fees[m][s].creditor = a
                      THEN [fees[m][s] EXCEPT !.creditor = NULL] ELSE fees[m][s]
    BY DEF DeleteAccount
  <2>2. fees[m][s] \in Fee \cup {NULL}
    BY DEF IInv, TypeOK
  <2>3. CASE fees[m][s] # NULL /\ fees[m][s].creditor = a
    <3>1. [fees[m][s] EXCEPT !.creditor = NULL] \in Fee
      BY <2>2, <2>3 DEF Fee
    <3>. QED BY <1>1, <2>1, <2>3, <3>1, NothingIsAValue DEF Rewritten, LostCreditor
  <2>4. CASE ~(fees[m][s] # NULL /\ fees[m][s].creditor = a)
    BY <2>1, <2>4 DEF Rewritten
  <2>. QED BY <2>3, <2>4
<1>3. Enrolled' \subseteq Members
  BY DEF Enrolled
<1>4. OnlyFee(a, a)
  BY <1>2, <1>3 DEF OnlyFee, History
<1>. QED BY <1>4 DEF KeepsHistory

LEMMA StepKeepsHistory == IInv /\ [Next]_vars => KeepsHistory
<1>. SUFFICES ASSUME IInv, [Next]_vars PROVE KeepsHistory
  OBVIOUS
<1>1. ASSUME NEW a \in Accounts, NEW row \in AccountRows, SaveAccount(a, row) PROVE KeepsHistory
  BY <1>1, UntouchedIsKept DEF SaveAccount
<1>2. ASSUME NEW a \in Accounts, DeleteAccount(a) PROVE KeepsHistory
  BY <1>2, UnlinkedIsKept
<1>3. ASSUME NEW m \in Members, NEW assigned \in Accounts \cup {NULL},
             NEW bank \in BankRequests \cup {NULL}, NEW fee \in FeeRequests \cup {NULL},
             CreateMember(m, assigned, bank, fee) \/ UpdateMember(m, assigned, bank, fee)
      PROVE  KeepsHistory
  <2>1. CASE CreateMember(m, assigned, bank, fee)
    <3>1. Store(m, assigned, bank, NewFee(bank, fee), StartOf(fee))
          /\ FeeAccepted(NewFee(bank, fee))
      BY <2>1 DEF CreateMember, Store
    <3>. QED BY <3>1, NewFeeStorable, StoredIsKept
  <2>2. CASE UpdateMember(m, assigned, bank, fee)
    <3>1. Store(m, assigned, bank, ChangedFee(m, fee), StartOf(fee))
          /\ FeeAccepted(ChangedFee(m, fee))
      BY <2>2 DEF UpdateMember, Store
    <3>. QED BY <3>1, ChangedFeeStorable, StoredIsKept
  <2>. QED BY <1>3, <2>1, <2>2
<1>4. ASSUME NEW m \in Members, DeleteMember(m) PROVE KeepsHistory
  <2>1. /\ members \in [Members -> Accounts \cup {NULL, "absent"}]
        /\ fees \in [Members -> [Starts -> Fee \cup {NULL}]]
    BY DEF IInv, TypeOK
  <2>2. members'[m] = "absent" /\ \A q \in Members \ {m} : fees'[q] = fees[q]
    BY <1>4, <2>1 DEF DeleteMember
  <2>3. \A q \in Enrolled' : fees'[q] = fees[q]
    BY <2>2 DEF Enrolled
  <2>. QED BY <2>3, UntouchedIsKept
<1>5. ASSUME NEW m \in Members, ImportMember(m) \/ ImportNoBank(m) PROVE KeepsHistory
  BY <1>5, UntouchedIsKept DEF ImportMember, ImportNoBank
<1>6. ASSUME NEW m \in Members, NEW row \in ImportRows, ImportBank(m, row) PROVE KeepsHistory
  BY <1>6, UntouchedIsKept DEF ImportBank
<1>7. CASE UNCHANGED vars
  BY <1>7, UntouchedIsKept DEF vars
<1>. QED BY <1>1, <1>2, <1>3, <1>4, <1>5, <1>6, <1>7 DEF Next

\* A fee once in the history of a member stays there as long as the member does, and a
\* step rewrites one fee of one member at most: every other fee keeps its amount,
\* method, maturity and creditor, but for a creditor account deleted in the step.
THEOREM FeesAreKept == Spec => HistoryKept
<1>1. IInv /\ [Next]_vars =>
        [/\ \A m \in Enrolled' : History(m) \subseteq History(m)'
         /\ \A m \in Enrolled', s \in Starts : Rewritten(m, s) =>
              \A n \in Enrolled', t \in Starts : Rewritten(n, t) => m = n /\ s = t]_vars
  <2>. SUFFICES ASSUME IInv, [Next]_vars
                PROVE  /\ \A m \in Enrolled' : History(m) \subseteq History(m)'
                       /\ \A m \in Enrolled', s \in Starts : Rewritten(m, s) =>
                            \A n \in Enrolled', t \in Starts :
                              Rewritten(n, t) => m = n /\ s = t
    OBVIOUS
  <2>1. PICK m0, s0 : OnlyFee(m0, s0)
    BY StepKeepsHistory DEF KeepsHistory
  <2>. QED BY <2>1 DEF OnlyFee
<1>. QED BY <1>1, Invariance, PTL DEF Spec, HistoryKept

-----------------------------------------------------------------------------
(* What the query returns.                                                 *)

\* One row for each debtor, made of a due fee, a mandated account of the member
\* and a creditor account.
LEMMA SelectedRows ==
    ASSUME IInv, NEW d \in Dates, NEW rows \in Selections(d)
    PROVE  /\ IsFiniteSet(rows)
           /\ \A x \in rows : \E m \in Enrolled : \E y \in Joined(m, d) : x = RowOf(m, y)
           /\ \A x, y \in rows : x.member = y.member => x = y
<1>1. PICK f \in [Debtors(d) -> UNION {FirstOf(m, d) : m \in Debtors(d)}] :
        /\ \A m \in Debtors(d) : f[m] \in FirstOf(m, d)
        /\ rows = {RowOf(m, f[m]) : m \in Debtors(d)}
  BY DEF Selections
<1>. DEFINE row == [m \in Debtors(d) |-> RowOf(m, f[m])]
<1>2. rows = {row[m] : m \in Debtors(d)} /\ \A m \in Debtors(d) : row[m] = RowOf(m, f[m])
  BY <1>1
<1>3. IsFiniteSet(Debtors(d)) /\ Debtors(d) \subseteq Enrolled
  BY FS_Subset DEF IInv, FinitelyMany, Debtors
<1>. HIDE DEF row
<1>4. IsFiniteSet(rows)
  BY <1>2, <1>3, ImageIsFinite
<1>5. \A m \in Debtors(d) : f[m] \in Joined(m, d)
  BY <1>1 DEF FirstOf
<1>6. \A m \in Debtors(d) : row[m].member = m
  <2>1. \A m, y : RowOf(m, y).member = m
    BY DEF RowOf
  <2>. QED BY <1>2, <2>1
<1>. QED BY <1>2, <1>3, <1>4, <1>5, <1>6

\* Each row once, whichever row comes first.
Unrepeated(seq) == \A j, k \in DOMAIN seq : seq[j] = seq[k] => j = k

\* A finite set of rows can be listed, and a list holds each of them once.
LEMMA ListedRows ==
    ASSUME NEW R, IsFiniteSet(R)
    PROVE  /\ SetToSeqs(R) # {}
           /\ \A seq \in SetToSeqs(R) : seq \in Seq(R) /\ ToSet(seq) = R /\ Unrepeated(seq)
<1>. DEFINE n == Cardinality(R)
<1>1. n \in Nat /\ Bijection(1 .. n, R) # {}
  BY FS_CardinalityType DEF ExistsBijection
<1>2. SetToSeqs(R) # {}
  <2>1. PICK b : b \in Bijection(1 .. n, R)
    BY <1>1
  <2>2. b \in [1 .. n -> R] /\ IsInjective(b)
    BY <2>1 DEF Bijection, Injection
  <2>3. b \in SetToSeqs(R)
    BY <2>2 DEF SetToSeqs, IsInjective
  <2>. QED BY <2>3
<1>3. ASSUME NEW seq \in SetToSeqs(R)
      PROVE  seq \in Seq(R) /\ ToSet(seq) = R /\ Unrepeated(seq)
  <2>1. seq \in [1 .. n -> R] /\ \A j, k \in 1 .. n : j # k => seq[j] # seq[k]
    BY DEF SetToSeqs
  <2>. HIDE DEF n
  <2>2. seq \in Seq(R) /\ DOMAIN seq = 1 .. n /\ Unrepeated(seq)
    BY <1>1, <2>1 DEF Unrepeated
  <2>3. seq \in Injection(1 .. n, R)
    BY <2>1, <2>2 DEF Injection, IsInjective, Unrepeated
  <2>4. IsFiniteSet(1 .. n) /\ Cardinality(1 .. n) = Cardinality(R)
    BY <1>1, FS_Interval DEF n
  <2>5. seq \in Surjection(1 .. n, R)
    BY <2>3, <2>4, FS_Injection
  <2>6. ToSet(seq) = R
    BY <2>1, <2>2, <2>5 DEF ToSet, Surjection
  <2>. QED BY <2>2, <2>6
<1>. QED BY <1>2, <1>3

\* A result of the query lists a selection.
LEMMA ResultRows ==
    ASSUME IInv, NEW d \in Dates, NEW rows \in Results(d)
    PROVE  /\ ToSet(rows) \in Selections(d)
           /\ rows \in Seq(ToSet(rows)) /\ Unrepeated(rows) /\ IsFiniteSet(ToSet(rows))
           /\ \A x \in ToSet(rows) : \E m \in Enrolled : \E y \in Joined(m, d) : x = RowOf(m, y)
           /\ \A x, y \in ToSet(rows) : x.member = y.member => x = y
<1>1. PICK R \in Selections(d) : rows \in SetToSeqs(R)
  BY DEF Results
<1>2. IsFiniteSet(R)
  BY SelectedRows
<1>3. rows \in Seq(R) /\ ToSet(rows) = R /\ Unrepeated(rows)
  BY <1>1, <1>2, ListedRows
<1>. QED BY <1>2, <1>3, SelectedRows

LEMMA JoinedShape ==
    ASSUME NEW m, NEW d, NEW y \in Joined(m, d)
    PROVE  /\ y.fee \in History(m) /\ y.bank \in DOMAIN banks[m] /\ banks[m][y.bank].mandate
           /\ y.creditor \in Creditors(m, y.fee) /\ Due(m, y.fee, d)
<1>1. PICK s \in {t \in History(m) : Due(m, t, d)} :
        y \in [fee : {s}, bank : {k \in DOMAIN banks[m] : banks[m][k].mandate},
               creditor : Creditors(m, s)]
  BY DEF Joined
<1>. QED BY <1>1

-----------------------------------------------------------------------------
(* The query has an answer.                                                *)

\* Whatever is due has a maturity.
LEMMA MaturitiesAreInt ==
    ASSUME IInv, NEW d \in Dates, NEW m \in Debtors(d), NEW x \in Joined(m, d)
    PROVE  fees[m][x.fee].maturity \in Int
<1>1. m \in Members
  BY DEF Debtors, Enrolled
<1>2. fees[m][x.fee] \in Fee /\ fees[m][x.fee].maturity # NULL
  BY <1>1, JoinedShape, FeesTyped DEF Due, IInv
<1>. QED BY <1>2, DaysAreIntegers DEF Fee

\* Some row that the join yields for a debtor comes first: the maturities of a
\* member's fees have a least one, and of the accounts one was created last.
LEMMA FirstExists ==
    ASSUME IInv, NEW d \in Dates, NEW m \in Debtors(d)
    PROVE  FirstOf(m, d) # {}
<1>. DEFINE F == {x.fee : x \in Joined(m, d)}
            late == [s \in F |-> - fees[m][s].maturity]
            L == {late[s] : s \in F}
<1>1. /\ m \in Members /\ Joined(m, d) # {}
      /\ F \subseteq History(m) /\ IsFiniteSet(F)
  <2>1. m \in Members /\ Joined(m, d) # {} /\ IsFiniteSet(History(m))
    BY DEF Debtors, Enrolled, IInv, FinitelyMany
  <2>2. F \subseteq History(m)
    BY JoinedShape
  <2>. QED BY <2>1, <2>2, FS_Subset
<1>2. \A s \in F : fees[m][s].maturity \in Int
  BY MaturitiesAreInt
<1>3. L \subseteq Int /\ L # {} /\ IsFiniteSet(L)
  <2>1. \A s \in F : late[s] \in Int
    BY <1>2
  <2>2. F # {}
    BY <1>1
  <2>. HIDE DEF late, F
  <2>. QED BY <1>1, <2>1, <2>2, ImageIsFinite
<1>4. PICK least \in F : \A s \in F : late[s] <= late[least]
  <2>. HIDE DEF late, F
  <2>1. PICK b \in L : \A c \in L : c <= b
    <3>. HIDE DEF L
    <3>. QED BY ONLY <1>3, HasMaximum
  <2>. QED BY <2>1
<1>5. \A s \in F : fees[m][least].maturity <= fees[m][s].maturity
  <2>1. ASSUME NEW s \in F PROVE fees[m][least].maturity <= fees[m][s].maturity
    <3>. DEFINE a == fees[m][least].maturity
                b == fees[m][s].maturity
    <3>1. late[s] = -b /\ late[least] = -a
      OBVIOUS
    <3>2. a \in Int /\ b \in Int /\ -b <= -a
      BY <1>2, <1>4, <3>1
    <3>. HIDE DEF a, b
    <3>3. a <= b
      BY <3>2
    <3>. QED BY <3>3 DEF a, b
  <2>. QED BY <2>1
<1>. HIDE DEF late, L
<1>. DEFINE E == {x \in Joined(m, d) : fees[m][x.fee].maturity = fees[m][least].maturity}
            B == {x.bank : x \in E}
<1>6. DOMAIN banks[m] \subseteq Int /\ IsFiniteSet(DOMAIN banks[m])
  <2>1. Len(banks[m]) \in Nat /\ DOMAIN banks[m] = 1 .. Len(banks[m])
    BY <1>1, BanksTyped DEF IInv
  <2>. QED BY <2>1, FS_Interval
<1>7. B \subseteq Int /\ B # {} /\ IsFiniteSet(B)
  <2>1. B \subseteq DOMAIN banks[m]
    BY JoinedShape
  <2>2. E # {}
    OBVIOUS
  <2>. HIDE DEF E
  <2>3. B # {}
    BY <2>2
  <2>. QED BY <1>6, <2>1, <2>3, FS_Subset
<1>8. PICK last \in B : \A k \in B : k <= last
  <2>. HIDE DEF B
  <2>. QED BY ONLY <1>7, HasMaximum
<1>9. PICK x \in E : x.bank = last
  OBVIOUS
<1>10. ASSUME NEW y \in Joined(m, d) PROVE ~Before(m, y, x)
  <2>1. /\ fees[m][y.fee].maturity \in Int /\ fees[m][x.fee].maturity \in Int
        /\ fees[m][x.fee].maturity <= fees[m][y.fee].maturity
    BY <1>2, <1>5
  <2>2. y.bank \in Int /\ x.bank \in Int
    BY <1>6, JoinedShape
  <2>3. fees[m][y.fee].maturity = fees[m][x.fee].maturity => y.bank <= x.bank
    BY <1>8, <1>9
  <2>. QED BY <2>1, <2>2, <2>3 DEF Before
<1>. QED BY <1>9, <1>10 DEF FirstOf

\* Every export for a date gets an answer, with a row for each member who owes a fee
\* that can be collected, and of the fees of a member it takes one that was due first
\* (DISTINCT ON and ORDER BY in getDueMembershipFees).
ExportAnswers ==
    \A d \in Dates :
        /\ Results(d) # {}
        /\ \A rows \in Results(d) :
             /\ {x.member : x \in ToSet(rows)} = Debtors(d)
             /\ \A x \in ToSet(rows) : \A y \in Joined(x.member, d) :
                  fees[x.member][x.fee].maturity <= fees[x.member][y.fee].maturity

\* No history of fees, accounts and mandates leaves the query of the export without an
\* answer, or a debtor out of it, or puts a later fee before an earlier one.
THEOREM DebtorsAreAsked == Spec => []ExportAnswers
<1>1. IInv => ExportAnswers
  <2>. SUFFICES ASSUME IInv, NEW d \in Dates
                PROVE  /\ Results(d) # {}
                       /\ \A rows \in Results(d) :
                            /\ {x.member : x \in ToSet(rows)} = Debtors(d)
                            /\ \A x \in ToSet(rows) : \A y \in Joined(x.member, d) :
                                 fees[x.member][x.fee].maturity <= fees[x.member][y.fee].maturity
    BY DEF ExportAnswers
  <2>. DEFINE D == Debtors(d)
              choices == UNION {FirstOf(m, d) : m \in D}
  <2>1. Results(d) # {}
    <3>. DEFINE g == [m \in D |-> CHOOSE x \in FirstOf(m, d) : TRUE]
    <3>1. \A m \in D : g[m] \in FirstOf(m, d)
      BY FirstExists
    <3>2. g \in [D -> choices]
      BY <3>1
    <3>. HIDE DEF g
    <3>3. {RowOf(m, g[m]) : m \in D} \in Selections(d)
      BY <3>1, <3>2 DEF Selections
    <3>4. PICK R \in Selections(d) : TRUE
      BY <3>3
    <3>5. SetToSeqs(R) # {}
      BY SelectedRows, ListedRows
    <3>. QED BY <3>5 DEF Results
  <2>2. ASSUME NEW rows \in Selections(d)
        PROVE  /\ {x.member : x \in rows} = D
               /\ \A x \in rows : \A y \in Joined(x.member, d) :
                    fees[x.member][x.fee].maturity <= fees[x.member][y.fee].maturity
    <3>1. PICK f \in [D -> choices] :
            /\ \A m \in D : f[m] \in FirstOf(m, d)
            /\ rows = {RowOf(m, f[m]) : m \in D}
      BY DEF Selections
    <3>2. \A m, y : RowOf(m, y).member = m /\ RowOf(m, y).fee = y.fee
      BY DEF RowOf
    <3>3. {x.member : x \in rows} = D
      BY <3>1, <3>2
    <3>4. ASSUME NEW m \in D, NEW y \in Joined(m, d)
          PROVE  fees[m][f[m].fee].maturity <= fees[m][y.fee].maturity
      <4>1. f[m] \in Joined(m, d) /\ ~Before(m, y, f[m])
        BY <3>1 DEF FirstOf
      <4>2. \A z \in Joined(m, d) : fees[m][z.fee].maturity \in Int
        BY MaturitiesAreInt
      <4>. QED BY <4>1, <4>2 DEF Before
    <3>5. ASSUME NEW x \in rows, NEW y \in Joined(x.member, d)
          PROVE  fees[x.member][x.fee].maturity <= fees[x.member][y.fee].maturity
      <4>1. PICK m \in D : x = RowOf(m, f[m])
        BY <3>1
      <4>2. x.member = m /\ x.fee = f[m].fee
        BY <3>2, <4>1
      <4>. QED BY <3>4, <4>2
    <3>. QED BY <3>3, <3>5
  <2>3. \A rows \in Results(d) : ToSet(rows) \in Selections(d)
    BY ResultRows
  <2>. QED BY <2>1, <2>2, <2>3
<1>. QED BY <1>1, Invariance, PTL

-----------------------------------------------------------------------------
(* The loop over the rows.                                                 *)

\* g holds the rows R, each once, under its target IBAN and sequence type.
Grouped(g, R) ==
    /\ DOMAIN g = {KeyOf(x) : x \in R}
    /\ \A key \in DOMAIN g :
         /\ g[key] \in Seq(R)
         /\ ToSet(g[key]) = {x \in R : KeyOf(x) = key}
         /\ \A j, k \in DOMAIN g[key] : g[key][j] = g[key][k] => j = k

LEMMA NothingIsGrouped == Grouped(<<>>, {})
  BY DEF Grouped

LEMMA AddKeepsGrouped ==
    ASSUME NEW g, NEW R, Grouped(g, R), NEW x, x \notin R
    PROVE  Grouped(AddTransaction(g, x), R \cup {x})
<1>. DEFINE k0 == KeyOf(x)
            old == GroupOf(g, k0)
            new == Append(old, x)
            S == R \cup {x}
            h == AddTransaction(g, x)
<1>1. DOMAIN g = {KeyOf(y) : y \in R}
  BY DEF Grouped
<1>2. /\ old \in Seq(R) /\ ToSet(old) = {y \in R : KeyOf(y) = k0}
      /\ \A j, k \in DOMAIN old : old[j] = old[k] => j = k
  <2>1. CASE k0 \in DOMAIN g
    BY <2>1 DEF GroupOf, Grouped
  <2>2. CASE k0 \notin DOMAIN g
    <3>1. old = <<>> /\ {y \in R : KeyOf(y) = k0} = {}
      BY <1>1, <2>2 DEF GroupOf
    <3>. HIDE DEF old, k0
    <3>. QED BY <3>1 DEF ToSet
  <2>. QED BY <2>1, <2>2
<1>3. DOMAIN h = DOMAIN g \cup {k0} /\ h[k0] = new /\ \A key \in DOMAIN g \ {k0} : h[key] = g[key]
  BY DEF AddTransaction
<1>. HIDE DEF old, h
<1>4. /\ new \in Seq(S) /\ Len(old) \in Nat /\ DOMAIN old = 1 .. Len(old)
      /\ DOMAIN new = 1 .. Len(old) + 1
      /\ new[Len(old) + 1] = x /\ \A k \in 1 .. Len(old) : new[k] = old[k] /\ old[k] \in R
  BY <1>2
<1>5. DOMAIN new = DOMAIN old \cup {Len(old) + 1}
  BY <1>4
<1>. HIDE DEF new
<1>6. ToSet(new) = ToSet(old) \cup {x}
  BY <1>4, <1>5 DEF ToSet
<1>7. ToSet(new) = {y \in S : KeyOf(y) = k0}
  BY <1>2, <1>6
<1>8. \A j, k \in DOMAIN new : new[j] = new[k] => j = k
  BY <1>2, <1>4, <1>5
<1>9. DOMAIN h = {KeyOf(y) : y \in S}
  BY <1>1, <1>3
<1>10. ASSUME NEW key \in DOMAIN h, key # k0
       PROVE  /\ h[key] \in Seq(S) /\ ToSet(h[key]) = {y \in S : KeyOf(y) = key}
              /\ \A j, k \in DOMAIN h[key] : h[key][j] = h[key][k] => j = k
  <2>1. key \in DOMAIN g /\ h[key] = g[key]
    BY <1>3, <1>10
  <2>2. {y \in S : KeyOf(y) = key} = {y \in R : KeyOf(y) = key}
    BY <1>10
  <2>3. g[key] \in Seq(R) /\ Seq(R) \subseteq Seq(S)
    BY <2>1 DEF Grouped
  <2>. QED BY <2>1, <2>2, <2>3 DEF Grouped
<1>11. ASSUME NEW key \in DOMAIN h
       PROVE  /\ h[key] \in Seq(S) /\ ToSet(h[key]) = {y \in S : KeyOf(y) = key}
              /\ \A j, k \in DOMAIN h[key] : h[key][j] = h[key][k] => j = k
  <2>1. CASE key = k0
    BY <1>3, <1>4, <1>7, <1>8, <2>1
  <2>. QED BY <1>10, <2>1
<1>. HIDE DEF S, k0
<1>. QED BY <1>9, <1>11 DEF Grouped, h, S

\* The loop as a function of the number of rows it has gone through.
Loop(g, seq, n) ==
    g = [i \in 0 .. n |-> IF i = 0 THEN <<>> ELSE AddTransaction(g[i - 1], seq[i])]

LEMMA LoopRuns ==
    ASSUME NEW seq, NEW L \in Nat
    PROVE  \E g : Loop(g, seq, L)
<1>. DEFINE G == {n \in 0 .. L : \E g : Loop(g, seq, n)}
<1>1. 0 \in G
  <2>. DEFINE g == [i \in 0 .. 0 |-> <<>>]
  <2>1. g = [i \in 0 .. 0 |-> IF i = 0 THEN <<>> ELSE AddTransaction(g[i - 1], seq[i])]
    OBVIOUS
  <2>2. Loop(g, seq, 0)
    BY <2>1 DEF Loop
  <2>. QED BY <2>2
<1>2. ASSUME NEW n \in G, n < L PROVE n + 1 \in G
  <2>1. PICK f : Loop(f, seq, n)
    OBVIOUS
  <2>. DEFINE g == [i \in 0 .. n + 1 |-> IF i = n + 1 THEN AddTransaction(f[n], seq[n + 1]) ELSE f[i]]
  <2>2. ASSUME NEW i \in 0 .. n + 1
        PROVE  g[i] = IF i = 0 THEN <<>> ELSE AddTransaction(g[i - 1], seq[i])
    <3>1. \A j \in 0 .. n : g[j] = f[j]
      OBVIOUS
    <3>2. g[n + 1] = AddTransaction(f[n], seq[n + 1])
      OBVIOUS
    <3>3. \A j \in 0 .. n : f[j] = IF j = 0 THEN <<>> ELSE AddTransaction(f[j - 1], seq[j])
      BY <2>1 DEF Loop
    <3>. HIDE DEF g
    <3>4. CASE i = n + 1
      BY <3>1, <3>2, <3>4
    <3>5. CASE i \in 1 .. n
      <4>1. i - 1 \in 0 .. n /\ i \in 0 .. n /\ i # 0
        BY <3>5
      <4>. QED BY <3>1, <3>3, <4>1
    <3>6. CASE i = 0
      BY <3>1, <3>3, <3>6
    <3>. QED BY <3>4, <3>5, <3>6
  <2>3. g = [i \in 0 .. n + 1 |-> IF i = 0 THEN <<>> ELSE AddTransaction(g[i - 1], seq[i])]
    <3>1. DOMAIN g = 0 .. n + 1
      OBVIOUS
    <3>. HIDE DEF g
    <3>2. g = [i \in 0 .. n + 1 |-> g[i]]
      BY <3>1 DEF g
    <3>. QED BY <2>2, <3>2
  <2>4. Loop(g, seq, n + 1)
    BY <2>3 DEF Loop
  <2>5. n + 1 \in 0 .. L
    BY <1>2
  <2>. HIDE DEF g
  <2>. QED BY <2>4, <2>5
<1>. HIDE DEF G
<1>3. G \in SUBSET (0 .. L)
  BY DEF G
<1>4. G = 0 .. L
  BY <1>1, <1>2, <1>3, AllUpTo
<1>. QED BY <1>4 DEF G

LEMMA LoopGroups ==
    ASSUME NEW R, NEW seq \in Seq(R), Unrepeated(seq)
    PROVE  Grouped(Groups(seq), ToSet(seq))
<1>. DEFINE L == Len(seq)
            g == CHOOSE f : f = [i \in 0 .. L |-> IF i = 0 THEN <<>>
                                                  ELSE AddTransaction(f[i - 1], seq[i])]
            first(n) == {seq[i] : i \in 1 .. n}
            G == {n \in 0 .. L : Grouped(g[n], first(n))}
<1>0. L \in Nat /\ DOMAIN seq = 1 .. L
  OBVIOUS
<1>1. Groups(seq) = g[L]
  BY DEF Groups
<1>2. Loop(g, seq, L)
  <2>1. \E f : f = [i \in 0 .. L |-> IF i = 0 THEN <<>> ELSE AddTransaction(f[i - 1], seq[i])]
    BY <1>0, LoopRuns DEF Loop
  <2>. QED BY <2>1 DEF Loop
<1>. HIDE DEF g
<1>3. \A i \in 0 .. L : g[i] = IF i = 0 THEN <<>> ELSE AddTransaction(g[i - 1], seq[i])
  BY <1>2 DEF Loop
<1>4. 0 \in G
  <2>1. g[0] = <<>> /\ first(0) = {}
    BY <1>0, <1>3
  <2>2. Grouped(g[0], first(0))
    BY <2>1, NothingIsGrouped
  <2>3. 0 \in 0 .. L
    BY <1>0
  <2>. QED BY <2>2, <2>3
<1>5. ASSUME NEW n \in G, n < L PROVE n + 1 \in G
  <2>1. n \in Nat /\ n + 1 \in 0 .. L /\ n + 1 \in 1 .. L /\ n + 1 # 0 /\ (n + 1) - 1 = n
    BY <1>0, <1>5
  <2>2. g[n + 1] = AddTransaction(g[n], seq[n + 1])
    BY <1>3, <2>1
  <2>3. 1 .. n + 1 = 1 .. n \cup {n + 1}
    BY <2>1
  <2>4. first(n + 1) = first(n) \cup {seq[n + 1]}
    BY <2>3
  <2>5. seq[n + 1] \notin first(n)
    BY <1>0, <2>1 DEF Unrepeated
  <2>. QED BY <2>1, <2>2, <2>4, <2>5, AddKeepsGrouped
<1>6. G \in SUBSET (0 .. L)
  OBVIOUS
<1>7. L \in G
  <2>. HIDE DEF G, L
  <2>1. G = 0 .. L
    BY <1>0, <1>4, <1>5, <1>6, AllUpTo
  <2>. QED BY <1>0, <2>1
<1>. QED BY <1>0, <1>1, <1>7 DEF ToSet

-----------------------------------------------------------------------------
(* The files.                                                              *)

KeysOf(g, i) == {key \in DOMAIN g : key[1] = i}

LEMMA FileShape ==
    ASSUME NEW g
    PROVE  /\ DOMAIN GenerateSEPA(g) = {key[1] : key \in DOMAIN g}
           /\ \A a \in DOMAIN GenerateSEPA(g) :
                /\ GenerateSEPA(g)[a].NbOfTxs = SumFunction([key \in KeysOf(g, a) |-> Len(g[key])])
                /\ GenerateSEPA(g)[a].CtrlSum
                     = SumFunction([key \in KeysOf(g, a) |-> GroupSum(g[key])])
                /\ GenerateSEPA(g)[a].PmtInf = {PaymentInfo(g, key) : key \in KeysOf(g, a)}
  BY DEF GenerateSEPA, KeysOf

\* A file holds the rows of its target IBAN, and every target IBAN has a file.
LEMMA FileRows ==
    ASSUME NEW rows, NEW g, Grouped(g, rows)
    PROVE  /\ DOMAIN GenerateSEPA(g) = {IbanOf(x.creditor) : x \in rows}
           /\ \A a \in DOMAIN GenerateSEPA(g) :
                Transactions(GenerateSEPA(g)[a]) = {x \in rows : IbanOf(x.creditor) = a}
<1>1. DOMAIN g = {KeyOf(x) : x \in rows} /\ \A x \in rows : KeyOf(x)[1] = IbanOf(x.creditor)
  BY DEF Grouped, KeyOf
<1>2. DOMAIN GenerateSEPA(g) = {IbanOf(x.creditor) : x \in rows}
  <2>1. /\ \A key \in DOMAIN g : \E x \in rows : key[1] = IbanOf(x.creditor)
        /\ \A x \in rows : \E key \in DOMAIN g : key[1] = IbanOf(x.creditor)
    BY <1>1
  <2>2. {key[1] : key \in DOMAIN g} = {IbanOf(x.creditor) : x \in rows}
    BY <2>1
  <2>. QED BY <2>2, FileShape
<1>3. ASSUME NEW a \in DOMAIN GenerateSEPA(g)
      PROVE  Transactions(GenerateSEPA(g)[a]) = {x \in rows : IbanOf(x.creditor) = a}
  <2>1. GenerateSEPA(g)[a].PmtInf = {PaymentInfo(g, key) : key \in KeysOf(g, a)}
    BY FileShape
  <2>2. \A key : PaymentInfo(g, key).txs = g[key]
    BY DEF PaymentInfo
  <2>3. Transactions(GenerateSEPA(g)[a]) = UNION {ToSet(g[key]) : key \in KeysOf(g, a)}
    BY <2>1, <2>2 DEF Transactions
  <2>4. \A key \in KeysOf(g, a) : ToSet(g[key]) = {x \in rows : KeyOf(x) = key}
    BY DEF KeysOf, Grouped
  <2>5. \A x \in rows : KeyOf(x) \in KeysOf(g, a) <=> IbanOf(x.creditor) = a
    BY <1>1 DEF KeysOf
  <2>. QED BY <2>3, <2>4, <2>5
<1>. QED BY <1>2, <1>3

\* There are files only if the export is answered 200.
LEMMA FilesOfRows ==
    ASSUME IInv, NEW d \in Dates, NEW rows \in Results(d)
    PROVE  /\ Grouped(Groups(rows), ToSet(rows))
           /\ Status(rows) = "200" => Files(rows) = GenerateSEPA(Groups(rows))
           /\ Status(rows) # "200" => DOMAIN Files(rows) = {}
  BY ResultRows, LoopGroups DEF Files

\* Whatever is in a file is one of the rows that the query returned.
LEMMA TransactionIsRow ==
    ASSUME IInv, NEW d \in Dates, NEW rows \in Results(d), NEW i \in DOMAIN Files(rows)
    PROVE  /\ Status(rows) = "200"
           /\ Transactions(Files(rows)[i]) = {x \in ToSet(rows) : IbanOf(x.creditor) = i}
<1>1. Status(rows) = "200" /\ Files(rows) = GenerateSEPA(Groups(rows))
  BY FilesOfRows
<1>. DEFINE g == Groups(rows)
            R == ToSet(rows)
<1>2. Grouped(g, R)
  BY FilesOfRows
<1>. HIDE DEF g, R
<1>3. \A b \in DOMAIN GenerateSEPA(g) :
        Transactions(GenerateSEPA(g)[b]) = {x \in R : IbanOf(x.creditor) = b}
  BY <1>2, FileRows
<1>4. Files(rows) = GenerateSEPA(g)
  BY <1>1 DEF g
<1>. QED BY <1>1, <1>3, <1>4 DEF R

\* Money is debited only from an account of the member that has a complete mandate.
THEOREM DebitsAreMandated == Spec => []MandateBacked
<1>1. IInv => MandateBacked
  <2>. SUFFICES ASSUME IInv, NEW d \in Dates, NEW rows \in Results(d),
                       NEW i \in DOMAIN Files(rows),
                       NEW x \in Transactions(Files(rows)[i]), x.amount > 0
                PROVE  \E k \in DOMAIN banks[x.member] :
                          /\ banks[x.member][k].iban = x.iban
                          /\ banks[x.member][k].mandate
                          /\ banks[x.member][k].complete
    BY DEF MandateBacked
  <2>1. x \in ToSet(rows) /\ Status(rows) = "200"
    BY TransactionIsRow
  <2>2. PICK m \in Enrolled : \E y \in Joined(m, d) : x = RowOf(m, y)
    BY <2>1, ResultRows
  <2>3. PICK y \in Joined(m, d) : x = RowOf(m, y)
    BY <2>2
  <2>4. y.bank \in DOMAIN banks[m] /\ banks[m][y.bank].mandate
    BY JoinedShape
  <2>5. x.member = m /\ x.iban = banks[m][y.bank].iban /\ x.complete = banks[m][y.bank].complete
    BY <2>3 DEF RowOf
  <2>6. Complaints(rows) = {}
    BY <2>1 DEF Status
  <2>7. x.complete
    BY <2>1, <2>6 DEF Complaints
  <2>. QED BY <2>4, <2>5, <2>7
<1>. QED BY <1>1, Invariance, PTL

\* The creditor of a row exists, and is the one that the fee names if it names one.
LEMMA CreditorOfRow ==
    ASSUME IInv, NEW d \in Dates, NEW rows \in Results(d), NEW x \in ToSet(rows)
    PROVE  /\ x.creditor \in Present
           /\ fees[x.member][x.fee].creditor \in {x.creditor, NULL}
<1>1. PICK m \in Enrolled : \E y \in Joined(m, d) : x = RowOf(m, y)
  BY ResultRows
<1>2. PICK y \in Joined(m, d) : x = RowOf(m, y)
  BY <1>1
<1>3. x.member = m /\ x.fee = y.fee /\ x.creditor = y.creditor
  BY <1>2 DEF RowOf
<1>4. y.fee \in History(m) /\ x.creditor \in Creditors(m, y.fee)
  BY <1>3, JoinedShape
<1>5. /\ m \in Members /\ members[m] \in Present \cup {NULL}
      /\ fees[m][y.fee].creditor \in Present \cup {NULL}
  BY <1>4 DEF IInv, Linked, Enrolled
<1>6. Defaults \subseteq Present
  BY DEF Defaults
<1>. QED BY <1>3, <1>4, <1>5, <1>6 DEF Creditors

\* A group has a first row, and all its rows have the target IBAN of the group.
LEMMA GroupHasFirst ==
    ASSUME NEW R, NEW g, Grouped(g, R), NEW key \in DOMAIN g
    PROVE  /\ g[key][1] \in ToSet(g[key])
           /\ \A x \in ToSet(g[key]) : x \in R /\ IbanOf(x.creditor) = key[1]
<1>1. g[key] \in Seq(R) /\ ToSet(g[key]) = {x \in R : KeyOf(x) = key}
  BY DEF Grouped
<1>2. PICK x \in R : KeyOf(x) = key
  BY DEF Grouped
<1>3. x \in ToSet(g[key])
  BY <1>1, <1>2
<1>4. DOMAIN g[key] # {} /\ Len(g[key]) \in Nat /\ DOMAIN g[key] = 1 .. Len(g[key])
  BY <1>1, <1>3 DEF ToSet
<1>5. 1 \in DOMAIN g[key]
  BY <1>4
<1>6. g[key][1] \in ToSet(g[key])
  BY <1>5 DEF ToSet
<1>7. \A y \in R : KeyOf(y)[1] = IbanOf(y.creditor)
  BY DEF KeyOf
<1>. QED BY <1>1, <1>6, <1>7

\* A fee is collected for the IBAN of the account it names, and each payment block is
\* made out by an existing account with the IBAN of its file, in whichever order the
\* rows come and whichever accounts are merged by it.
THEOREM CreditorsAreHonoured == Spec => []CreditorHonoured
<1>1. IInv => CreditorHonoured
  <2>. SUFFICES ASSUME IInv, NEW d \in Dates, NEW rows \in Results(d),
                       NEW i \in DOMAIN Files(rows), NEW info \in Files(rows)[i].PmtInf
                PROVE  /\ info.Cdtr \in Present /\ IbanOf(info.Cdtr) = i
                       /\ \A x \in ToSet(info.txs) :
                            LET named == fees[x.member][x.fee].creditor
                            IN  named # NULL => named \in Present /\ IbanOf(named) = i
    BY DEF CreditorHonoured
  <2>. DEFINE g == Groups(rows)
              R == ToSet(rows)
  <2>1. Grouped(g, R) /\ Files(rows) = GenerateSEPA(g)
    BY TransactionIsRow, FilesOfRows
  <2>2. \A x \in R : x.creditor \in Present /\ fees[x.member][x.fee].creditor \in {x.creditor, NULL}
    BY CreditorOfRow
  <2>. HIDE DEF g, R
  <2>3. PICK key \in KeysOf(g, i) : info = PaymentInfo(g, key)
    <3>1. Files(rows)[i].PmtInf = GenerateSEPA(g)[i].PmtInf /\ i \in DOMAIN GenerateSEPA(g)
      BY <2>1
    <3>2. GenerateSEPA(g)[i].PmtInf = {PaymentInfo(g, key) : key \in KeysOf(g, i)}
      BY <3>1, FileShape
    <3>3. info \in {PaymentInfo(g, key) : key \in KeysOf(g, i)}
      BY <3>1, <3>2
    <3>. QED BY <3>3
  <2>4. key \in DOMAIN g /\ key[1] = i
    BY DEF KeysOf
  <2>5. info.txs = g[key] /\ info.Cdtr = g[key][1].creditor
    BY <2>3 DEF PaymentInfo
  <2>6. /\ g[key][1] \in ToSet(g[key])
        /\ \A x \in ToSet(g[key]) : x \in R /\ IbanOf(x.creditor) = i
    BY <2>1, <2>4, GroupHasFirst
  <2>. QED BY <2>2, <2>5, <2>6
<1>. QED BY <1>1, Invariance, PTL

-----------------------------------------------------------------------------
(* The totals of a file.                                                   *)

\* A quantity added up group by group is that quantity added up over the file.
LEMMA AddedByGroups ==
    ASSUME NEW rows, IsFiniteSet(rows), NEW g, Grouped(g, rows), NEW a,
           NEW f, \A x \in rows : f[x] \in Int
    PROVE  LET sum(key) == SumFunctionOnSet([k \in DOMAIN g[key] |-> f[g[key][k]]], DOMAIN g[key])
           IN  SumFunctionOnSet([key \in KeysOf(g, a) |-> sum(key)], KeysOf(g, a))
                 = SumFunctionOnSet(f, {x \in rows : IbanOf(x.creditor) = a})
<1>. DEFINE sum(key) == SumFunctionOnSet([k \in DOMAIN g[key] |-> f[g[key][k]]], DOMAIN g[key])
            K == KeysOf(g, a)
            T == {x \in rows : IbanOf(x.creditor) = a}
            keys == [x \in rows |-> KeyOf(x)]
            groups == [key \in K |-> SumFunctionOnSet(f, Fibre(T, keys, key))]
            sums == [key \in K |-> sum(key)]
<1>1. DOMAIN g = {keys[x] : x \in rows} /\ \A x \in rows : keys[x] = KeyOf(x) /\ keys[x][1] = IbanOf(x.creditor)
  BY DEF Grouped, KeyOf
<1>2. \A x \in rows : keys[x] \in K <=> IbanOf(x.creditor) = a
  BY <1>1 DEF KeysOf
<1>3. \A key \in K : Fibre(T, keys, key) = {x \in rows : KeyOf(x) = key}
  <2>1. \A key \in K : \A x \in rows : KeyOf(x) = key => IbanOf(x.creditor) = a
    BY <1>1, <1>2
  <2>. QED BY <1>1, <2>1 DEF Fibre
<1>. HIDE DEF keys
<1>4. IsFiniteSet(K) /\ IsFiniteSet(T)
  <2>1. IsFiniteSet(DOMAIN g)
    BY <1>1, ImageIsFinite
  <2>. QED BY <2>1, FS_Subset DEF KeysOf
<1>5. ASSUME NEW key \in K PROVE sum(key) = SumFunctionOnSet(f, Fibre(T, keys, key))
  <2>. DEFINE txs == g[key]
  <2>1. /\ txs \in Seq(rows) /\ ToSet(txs) = {x \in rows : KeyOf(x) = key}
        /\ \A j, k \in DOMAIN txs : txs[j] = txs[k] => j = k
    BY DEF KeysOf, Grouped
  <2>2. IsFiniteSet(DOMAIN txs)
    <3>1. Len(txs) \in Nat /\ DOMAIN txs = 1 .. Len(txs)
      BY <2>1
    <3>. QED BY <3>1, FS_Interval
  <2>3. ToSet(txs) = {txs[k] : k \in DOMAIN txs} /\ \A x \in ToSet(txs) : f[x] \in Int
    BY <2>1 DEF ToSet
  <2>. HIDE DEF txs
  <2>4. SumFunctionOnSet([k \in DOMAIN txs |-> f[txs[k]]], DOMAIN txs) = SumFunctionOnSet(f, ToSet(txs))
    BY <2>1, <2>2, <2>3, SumReindexed
  <2>. QED BY <1>3, <2>1, <2>4 DEF txs
<1>6. \A x \in T : f[x] \in Int /\ keys[x] \in K
  BY <1>2
<1>. HIDE DEF K, T, sum
<1>7. SumFunctionOnSet(groups, K) = SumFunctionOnSet(f, T)
  BY <1>4, <1>6, SumByGroups
<1>8. \A key \in K : sums[key] = groups[key]
  BY <1>5
<1>. HIDE DEF groups, sums
<1>9. SumFunctionOnSet(sums, K) = SumFunctionOnSet(groups, K)
  BY <1>4, <1>8, SumOfSame
<1>. QED BY <1>7, <1>9 DEF sums, K, T, sum

\* The amount of a row is the amount of the fee it was made of.
LEMMA AmountsAreInt ==
    ASSUME IInv, NEW d \in Dates, NEW rows \in Results(d)
    PROVE  \A x \in ToSet(rows) : x.amount \in Int
<1>. SUFFICES ASSUME NEW x \in ToSet(rows) PROVE x.amount \in Int
  OBVIOUS
<1>1. PICK m \in Enrolled : \E y \in Joined(m, d) : x = RowOf(m, y)
  BY ResultRows
<1>2. PICK y \in Joined(m, d) : x = RowOf(m, y)
  BY <1>1
<1>3. x.amount = fees[m][y.fee].amount
  BY <1>2 DEF RowOf
<1>4. m \in Members /\ y.fee \in History(m)
  BY JoinedShape DEF Enrolled
<1>5. fees[m][y.fee] \in Fee
  BY <1>4, FeesTyped DEF IInv
<1>. QED BY <1>3, <1>5 DEF Fee

\* The totals as the group headers add up to them, and as the rows do.
HeaderCount(g, a) == SumFunction([key \in KeysOf(g, a) |-> Len(g[key])])
HeaderSum(g, a) == SumFunction([key \in KeysOf(g, a) |-> GroupSum(g[key])])
RowsOf(rows, a) == {x \in rows : IbanOf(x.creditor) = a}
AmountOf(rows) == SumFunction([x \in rows |-> x.amount])

\* The totals that GenerateSEPA writes are those of the rows in the file.
LEMMA TotalsOfFile ==
    ASSUME NEW rows, IsFiniteSet(rows), \A x \in rows : x.amount \in Int,
           NEW g, Grouped(g, rows), NEW a
    PROVE  /\ HeaderCount(g, a) = Cardinality(RowsOf(rows, a))
           /\ HeaderSum(g, a) = AmountOf(RowsOf(rows, a))
<1>. DEFINE T == {x \in rows : IbanOf(x.creditor) = a}
            K == KeysOf(g, a)
            one == [x \in rows |-> 1]
            amount == [x \in rows |-> x.amount]
            ones(key) == [k \in DOMAIN g[key] |-> one[g[key][k]]]
            amounts(key) == [k \in DOMAIN g[key] |-> amount[g[key][k]]]
<1>1. \A key \in K : g[key] \in Seq(rows)
  BY DEF KeysOf, Grouped
<1>2. IsFiniteSet(T)
  BY FS_Subset
<1>3. SumFunction([key \in K |-> Len(g[key])]) = Cardinality(T)
  <2>1. ASSUME NEW key \in K PROVE Len(g[key]) = SumFunctionOnSet(ones(key), DOMAIN g[key])
    <3>1. /\ Len(g[key]) \in Nat /\ DOMAIN g[key] = 1 .. Len(g[key])
          /\ \A k \in DOMAIN g[key] : g[key][k] \in rows
      BY <1>1
    <3>2. \A k \in DOMAIN g[key] : ones(key)[k] = 1
      BY <3>1
    <3>3. IsFiniteSet(DOMAIN g[key]) /\ Cardinality(DOMAIN g[key]) = Len(g[key])
      BY <3>1, FS_Interval
    <3>. HIDE DEF ones
    <3>. QED BY <3>2, <3>3, CardinalityIsSum
  <2>2. [key \in K |-> Len(g[key])] = [key \in K |-> SumFunctionOnSet(ones(key), DOMAIN g[key])]
    BY <2>1
  <2>3. \A x \in rows : one[x] = 1 /\ one[x] \in Int
    OBVIOUS
  <2>. HIDE DEF one
  <2>4. SumFunctionOnSet([key \in K |-> SumFunctionOnSet(ones(key), DOMAIN g[key])], K)
          = SumFunctionOnSet(one, T)
    BY <2>3, AddedByGroups
  <2>5. SumFunctionOnSet(one, T) = Cardinality(T)
    BY <1>2, <2>3, CardinalityIsSum
  <2>. HIDE DEF ones, K, T
  <2>. QED BY <2>2, <2>4, <2>5 DEF SumFunction
<1>4. SumFunction([key \in K |-> GroupSum(g[key])]) = SumFunction([x \in T |-> x.amount])
  <2>1. ASSUME NEW key \in K PROVE GroupSum(g[key]) = SumFunctionOnSet(amounts(key), DOMAIN g[key])
    <3>1. \A k \in DOMAIN g[key] : g[key][k] \in rows
      BY <1>1
    <3>2. [k \in DOMAIN g[key] |-> g[key][k].amount] = amounts(key)
      BY <3>1
    <3>. HIDE DEF amounts
    <3>. QED BY <3>2 DEF GroupSum, SumFunction, amounts
  <2>2. [key \in K |-> GroupSum(g[key])]
          = [key \in K |-> SumFunctionOnSet(amounts(key), DOMAIN g[key])]
    BY <2>1
  <2>3. \A x \in rows : amount[x] = x.amount /\ amount[x] \in Int
    OBVIOUS
  <2>. HIDE DEF amount
  <2>4. SumFunctionOnSet([key \in K |-> SumFunctionOnSet(amounts(key), DOMAIN g[key])], K)
          = SumFunctionOnSet(amount, T)
    BY <2>3, AddedByGroups
  <2>5. SumFunctionOnSet([x \in T |-> x.amount], T) = SumFunctionOnSet(amount, T)
    <3>1. \A x \in T : [y \in T |-> y.amount][x] = amount[x]
      BY <2>3
    <3>. HIDE DEF T
    <3>. QED BY <1>2, <3>1, SumOfSame
  <2>. HIDE DEF amounts, K, T
  <2>. QED BY <2>2, <2>4, <2>5 DEF SumFunction
<1>. QED BY <1>3, <1>4 DEF HeaderCount, HeaderSum, RowsOf, AmountOf

\* The group headers state what is in the files, and the files together hold all
\* rows that were due.
THEOREM HeadersAddUp == Spec => []FilesAddUp
<1>1. IInv => FilesAddUp
  <2>. SUFFICES ASSUME IInv, NEW d \in Dates, NEW rows \in Results(d), Status(rows) = "200"
                PROVE  /\ \A a \in DOMAIN Files(rows) :
                            /\ Files(rows)[a].NbOfTxs = Cardinality(Transactions(Files(rows)[a]))
                            /\ Files(rows)[a].CtrlSum
                                 = SumFunction([x \in Transactions(Files(rows)[a]) |-> x.amount])
                       /\ UNION {Transactions(Files(rows)[a]) : a \in DOMAIN Files(rows)} = ToSet(rows)
    BY DEF FilesAddUp
  <2>. DEFINE g == Groups(rows)
              R == ToSet(rows)
              files == Files(rows)
  <2>1. Grouped(g, R) /\ files = GenerateSEPA(g) /\ IsFiniteSet(R)
    BY FilesOfRows, ResultRows
  <2>. HIDE DEF g, R, files
  <2>2. /\ DOMAIN files = {IbanOf(x.creditor) : x \in R}
        /\ \A a \in DOMAIN files : Transactions(files[a]) = {x \in R : IbanOf(x.creditor) = a}
    <3>1. /\ DOMAIN GenerateSEPA(g) = {IbanOf(x.creditor) : x \in R}
          /\ \A a \in DOMAIN GenerateSEPA(g) :
               Transactions(GenerateSEPA(g)[a]) = {x \in R : IbanOf(x.creditor) = a}
      <4>1. Grouped(g, R)
        BY <2>1
      <4>. QED BY <4>1, FileRows
    <3>. QED BY <2>1, <3>1
  <2>3. ASSUME NEW a \in DOMAIN files
        PROVE  /\ files[a].NbOfTxs = Cardinality(Transactions(files[a]))
               /\ files[a].CtrlSum = SumFunction([x \in Transactions(files[a]) |-> x.amount])
    <3>1. files[a].NbOfTxs = HeaderCount(g, a) /\ files[a].CtrlSum = HeaderSum(g, a)
      BY <2>1, FileShape DEF HeaderCount, HeaderSum
    <3>2. \A x \in R : x.amount \in Int
      BY AmountsAreInt DEF R
    <3>3. /\ HeaderCount(g, a) = Cardinality(RowsOf(R, a))
          /\ HeaderSum(g, a) = AmountOf(RowsOf(R, a))
      <4>1. Grouped(g, R) /\ IsFiniteSet(R)
        BY <2>1
      <4>. QED BY ONLY <3>2, <4>1, TotalsOfFile
    <3>4. Transactions(files[a]) = RowsOf(R, a)
      BY <2>2 DEF RowsOf
    <3>. QED BY <3>1, <3>3, <3>4 DEF AmountOf
  <2>4. UNION {Transactions(files[a]) : a \in DOMAIN files} = R
    BY <2>2
  <2>. QED BY <2>3, <2>4 DEF R, files
<1>. QED BY <1>1, Invariance, PTL

\* A member is debited at most once: DISTINCT ON leaves it one row, and a row gets
\* into one group, once.
THEOREM DebitedOnce == Spec => []OneDebitPerMember
<1>1. IInv => OneDebitPerMember
  <2>. SUFFICES ASSUME IInv, NEW d \in Dates, NEW rows \in Results(d), NEW m \in Members
                PROVE  LET files == Files(rows)
                           infos == UNION {files[i].PmtInf : i \in DOMAIN files}
                           debits(q, info) ==
                             Cardinality({k \in DOMAIN info.txs : info.txs[k].member = q})
                       IN  SumFunction([info \in infos |-> debits(m, info)]) <= 1
    BY DEF OneDebitPerMember
  <2>. DEFINE g == Groups(rows)
              R == ToSet(rows)
              files == Files(rows)
              infos == UNION {files[i].PmtInf : i \in DOMAIN files}
              hits(info) == {k \in DOMAIN info.txs : info.txs[k].member = m}
              count == [info \in infos |-> Cardinality(hits(info))]
  <2>1. Grouped(g, R) /\ IsFiniteSet(R) /\ \A x, y \in R : x.member = y.member => x = y
    BY FilesOfRows, ResultRows
  <2>2. \A info \in infos : \E key \in DOMAIN g : info = PaymentInfo(g, key)
    <3>1. CASE Status(rows) = "200"
      <4>1. files = GenerateSEPA(g)
        BY <3>1, FilesOfRows
      <4>. HIDE DEF g, files
      <4>2. \A a \in DOMAIN GenerateSEPA(g) :
              GenerateSEPA(g)[a].PmtInf = {PaymentInfo(g, key) : key \in KeysOf(g, a)}
        BY FileShape
      <4>3. ASSUME NEW info \in infos PROVE \E key \in DOMAIN g : info = PaymentInfo(g, key)
        <5>1. PICK a \in DOMAIN files : info \in files[a].PmtInf
          OBVIOUS
        <5>2. PICK key \in KeysOf(g, a) : info = PaymentInfo(g, key)
          BY <4>1, <4>2, <5>1
        <5>. QED BY <5>2 DEF KeysOf
      <4>. QED BY <4>3
    <3>2. CASE Status(rows) # "200"
      <4>1. DOMAIN files = {}
        BY <3>2, FilesOfRows
      <4>. QED BY <4>1
    <3>. QED BY <3>1, <3>2
  <2>. HIDE DEF g, R, files, infos
  <2>3. IsFiniteSet(infos)
    <3>. DEFINE key == [x \in R |-> KeyOf(x)]
                info == [k \in DOMAIN g |-> PaymentInfo(g, k)]
    <3>1. DOMAIN g = {key[x] : x \in R} /\ infos \subseteq {info[k] : k \in DOMAIN g}
      BY <2>1, <2>2 DEF Grouped
    <3>. HIDE DEF key, info
    <3>2. IsFiniteSet(DOMAIN g)
      BY <2>1, <3>1, ImageIsFinite
    <3>3. IsFiniteSet({info[k] : k \in DOMAIN g})
      BY <3>2, ImageIsFinite
    <3>. QED BY <3>1, <3>3, FS_Subset
  <2>4. ASSUME NEW key \in DOMAIN g
        PROVE  /\ PaymentInfo(g, key).txs = g[key]
               /\ \A k \in DOMAIN g[key] : g[key][k] \in R /\ KeyOf(g[key][k]) = key
               /\ \A j, k \in DOMAIN g[key] : g[key][j] = g[key][k] => j = k
    <3>1. g[key] \in Seq(R) /\ ToSet(g[key]) = {x \in R : KeyOf(x) = key}
          /\ \A j, k \in DOMAIN g[key] : g[key][j] = g[key][k] => j = k
      BY <2>1 DEF Grouped
    <3>2. \A k \in DOMAIN g[key] : g[key][k] \in ToSet(g[key])
      BY DEF ToSet
    <3>. QED BY <3>1, <3>2 DEF PaymentInfo
  <2>5. ASSUME NEW info \in infos PROVE hits(info) = {} \/ \E k : hits(info) = {k}
    <3>1. PICK key \in DOMAIN g : info = PaymentInfo(g, key)
      BY <2>2
    <3>2. \A j, k \in hits(info) : j = k
      BY <2>1, <2>4, <3>1
    <3>. HIDE DEF hits
    <3>. QED BY <3>2
  <2>6. ASSUME NEW info \in infos, NEW other \in infos, hits(info) # {}, hits(other) # {}
        PROVE  info = other
    <3>1. PICK key \in DOMAIN g : info = PaymentInfo(g, key)
      BY <2>2
    <3>2. PICK otherKey \in DOMAIN g : other = PaymentInfo(g, otherKey)
      BY <2>2
    <3>3. PICK k \in DOMAIN g[key] : g[key][k].member = m
      BY <2>4, <2>6, <3>1
    <3>4. PICK j \in DOMAIN g[otherKey] : g[otherKey][j].member = m
      BY <2>4, <2>6, <3>2
    <3>5. g[key][k] = g[otherKey][j]
      BY <2>1, <2>4, <3>3, <3>4
    <3>6. key = otherKey
      BY <2>4, <3>5
    <3>. QED BY <3>1, <3>2, <3>6
  <2>7. \A info \in infos : count[info] \in {0, 1} /\ (count[info] = 1 => hits(info) # {})
    <3>. SUFFICES ASSUME NEW info \in infos
                  PROVE  Cardinality(hits(info)) \in {0, 1}
                         /\ (Cardinality(hits(info)) = 1 => hits(info) # {})
      OBVIOUS
    <3>1. CASE hits(info) = {}
      BY <3>1, FS_EmptySet
    <3>2. CASE \E k : hits(info) = {k}
      <4>1. PICK k : hits(info) = {k}
        BY <3>2
      <4>2. Cardinality({k}) = 1
        BY FS_Singleton
      <4>. HIDE DEF hits
      <4>. QED BY <4>1, <4>2
    <3>. QED BY <2>5, <3>1, <3>2
  <2>8. SumFunction(count) = SumFunctionOnSet(count, infos)
    BY DEF SumFunction
  <2>9. SumFunctionOnSet(count, infos) \in {0, 1}
    <3>. HIDE DEF count, hits
    <3>. QED BY <2>3, <2>6, <2>7, SumOfAtMostOne
  <2>10. SumFunction(count) <= 1
    <3>. HIDE DEF count
    <3>. QED BY <2>8, <2>9
  <2>. QED BY <2>10 DEF infos, files
<1>. QED BY <1>1, Invariance, PTL
=============================================================================
