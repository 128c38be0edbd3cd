------------------------- MODULE MCFinanceLedger -------------------------
(* Small instances of FinanceLedger for TLC. *)
EXTENDS FinanceLedger, TLC

\* Request goroutines are interchangeable where no liveness is checked.
RequestSymmetry == Permutations(Requests)
=============================================================================
