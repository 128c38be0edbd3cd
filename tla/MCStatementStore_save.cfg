\* Three requests save a statement for the same year, each one dying anywhere.
SPECIFICATION StoreSpec
CONSTANTS
  Creators = {p1, p2, p3}
  Ids = {s1, s2, s3}
  NoId = NoId
SYMMETRY StoreSymmetry
INVARIANTS
  GapOnlyWhileReplacing
  AnsweredIsKept
CHECK_DEADLOCK FALSE
