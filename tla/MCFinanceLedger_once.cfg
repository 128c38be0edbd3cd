\* The 400 that API.md promises for a booked receipt, against overlapping requests.
SPECIFICATION Spec
CONSTANTS
  Requests = {p1, p2}
  Receipts = {r1}
  Imports = {}
  Accounts = {}
  Positions = {}
  NULL = NULL
  MaxBookings = 3
  MaxEdits = 1
SYMMETRY RequestSymmetry
INVARIANTS
  BookedAtMostOnce
CHECK_DEADLOCK FALSE
