\* An export with a member whose direct debit type was imported: the sequence
\* type of its file is checked against the list in the README.
SPECIFICATION Spec
CONSTANTS
    Members = {m1, m2}
    Accounts = {a1, a2}
    Ibans = {i1, i2}
    a2 = a2
    i1 = i1
    i2 = i2
    plain = plain
    spaced = spaced
    distinct = distinct
    NULL = NULL
    ClubIbans = {plain, spaced, distinct}
    Stripped <- WithoutSpaces
    SAME = SAME
    Starts = {1, 2}
    Dates = {1, 2}
    BankRequests <- SomeBankRequests
    FeeRequests <- SomeFeeRequests
    AccountRows <- SomeAccountRows
    ImportRows <- SomeImportRows
    MaxEdits = 2
INVARIANTS SequenceTypesKnown
