------------------------- MODULE MCStatementStore -------------------------
(* A small instance of StatementStore for TLC. *)
EXTENDS StatementStore, TLC

\* Neither requests nor ids are told apart.
StoreSymmetry == Permutations(Creators) \cup Permutations(Ids)
=============================================================================
