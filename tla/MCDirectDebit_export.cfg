\* Two members, two creditor accounts, two member requests (create, change,
\* import) with account changes at any time: every export on either of two dates.
\* The members are interchangeable.
SPECIFICATION Spec
CONSTANTS
    Members = {m1, m2}
    Accounts = {a1, a2}
    Ibans = {i1, i2}
    a2 = a2
    i1 = i1
    i2 = i2
    plain = plain
    spaced = spaced
    distinct = distinct
    NULL = NULL
    ClubIbans = {plain, spaced, distinct}
    Stripped <- WithoutSpaces
    SAME = SAME
    Starts = {1, 2}
    Dates = {1, 2}
    BankRequests <- SomeBankRequests
    FeeRequests <- SomeFeeRequests
    AccountRows <- SomeAccountRows
    ImportRows <- SomeImportRows
    MaxEdits = 2
SYMMETRY DebitSymmetry
INVARIANTS TypeOK OneDebitPerMember FilesAddUp MandateBacked CreditorHonoured
PROPERTIES HistoryKept
