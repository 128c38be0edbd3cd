\* An annual report is computed while a receipt is booked, edited and removed, a
\* bank movement is committed and a bank account is opened and closed.
SPECIFICATION Spec
CONSTANTS
  r1 = r1
  i1 = i1
  a1 = a1
  k1 = k1
  Receipts = {r1}
  Imports = {i1}
  Accounts = {a1}
  BookingAccounts = {k1}
  NULL = NULL
  Documents <- MCDocuments
  Movements <- MCMovements
  Majority <- MCMajority
  Opening <- MCOpening
  MaxBookings = 2
INVARIANTS
  TypeOK
  ReportReconciles
  CountedAtMostOnce
  SteadyReceiptsCounted
