----------------------------- MODULE MCBoardRoles -----------------------------
(* A small instance of BoardRoles for TLC: one person who is a member of two  *)
(* clubs under the same address.                                              *)
EXTENDS BoardRoles, TLC

CONSTANTS m1, m2, c1, c2, e1

OneEach == m1 :> c1 @@ m2 :> c2
SameAddress == [m \in Members |-> e1]

RequestSymmetry == Permutations(Requests)
===============================================================================
