------------------------------ MODULE MCClubRecords ------------------------------
(* A small instance of ClubRecords for TLC: the kinds of records that can hang  *)
(* on one another, each in a behaviour of its own.                             *)
EXTENDS ClubRecords, TLC

CONSTANTS c1, c2, d1, d2, d3, k1, k2, doc1, doc2, a1, a2, m1, m2, e1

\* A chain, a fork and a circle of departments; documents that change categories
\* beside an event; two mappings that may share an account.
AllFamilies == {{d1, d2, d3}, {k1, k2, doc1, doc2, e1}, {a1, a2, m1, m2}}

Symmetric == Permutations({c1, c2}) \cup Permutations({d1, d2, d3})
===============================================================================
