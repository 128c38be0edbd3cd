\* An expense receipt that was booked, in the report (API.md: "based on the receipt data").
SPECIFICATION Spec
CONSTANTS
  r1 = r1
  i1 = i1
  a1 = a1
  k1 = k1
  Receipts = {r1}
  Imports = {i1}
  Accounts = {a1}
  BookingAccounts = {k1}
  NULL = NULL
  Documents <- MCDocuments
  Movements <- MCMovements
  Majority <- MCMajority
  Opening <- MCOpening
  MaxBookings = 2
INVARIANTS
  ExpensesReduceTheResult
