\* A receipt, an import and a bank account: two requests book, commit, edit, reset,
\* discard and delete them, each transaction aborting or losing its answer anywhere;
\* requests and row locks are fair, so that every transaction has to end.
SPECIFICATION FairSpec
CONSTANTS
  Requests = {p1, p2}
  Receipts = {r1}
  Imports = {i1}
  Accounts = {a1}
  Positions = {k1}
  NULL = NULL
  MaxBookings = 2
  MaxEdits = 1
INVARIANTS
  NoDanglingLinks
  FlagFollowsBooking
  NoSerialDoubleBooking
  ImportsAccountedFor
  AcknowledgedIsRecorded
PROPERTIES
  LedgerAppendOnly
  EditsSurvive
  JournalSpec
  RequestsTerminate
CHECK_DEADLOCK FALSE
