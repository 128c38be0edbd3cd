\* One import record, one booking (API.md), against a second commit of the record.
SPECIFICATION Spec
CONSTANTS
  Requests = {p1, p2}
  Receipts = {}
  Imports = {i1}
  Accounts = {a1}
  Positions = {}
  NULL = NULL
  MaxBookings = 3
  MaxEdits = 1
SYMMETRY RequestSymmetry
INVARIANTS
  ImportCommittedOnce
CHECK_DEADLOCK FALSE
