\* The records of two clubs, with links between them, and the deletion of clubs.
SPECIFICATION Spec
CONSTANTS
    c1 = c1
    c2 = c2
    d1 = d1
    d2 = d2
    d3 = d3
    k1 = k1
    k2 = k2
    doc1 = doc1
    doc2 = doc2
    a1 = a1
    a2 = a2
    m1 = m1
    m2 = m2
    e1 = e1
    Clubs = {c1, c2}
    Departments = {d1, d2, d3}
    Categories = {k1, k2}
    Documents = {doc1, doc2}
    Events = {e1}
    Accounts = {a1, a2}
    Mappings = {m1, m2}
    Families <- AllFamilies
    NULL = NULL
SYMMETRY Symmetric
CHECK_DEADLOCK FALSE
INVARIANTS NoDanglingRecords
PROPERTIES RecordsKept ClubsApart
