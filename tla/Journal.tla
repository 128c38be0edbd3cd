------------------------------ MODULE Journal ------------------------------
(***************************************************************************)
(* What the finance component promises about its two ways of creating a    *)
(* booking: one atomic step posts a receipt (the journal grows and the     *)
(* receipt counts as settled) and one atomic step posts a staged bank      *)
(* import (the journal grows and the import leaves the staging table).     *)
(* Requests, transactions, locks and failures do not exist here.           *)
(***************************************************************************)
EXTENDS Naturals, Sequences

CONSTANTS Receipts, Imports

VARIABLES
    journal,    \* the origins (receipts or imports) of the bookings, in commit order
    settled,    \* the receipts whose is_booked flag is set
    removed,    \* the receipts that were deleted
    edits,      \* how often each receipt was edited by hand
    staged,     \* the imports in the staging table
    discarded   \* the imports thrown away by hand

journalVars == <<journal, settled, removed, edits, staged, discarded>>

Init ==
    /\ journal = <<>>
    /\ settled = {}
    /\ removed = {}
    /\ edits = [r \in Receipts |-> 0]
    /\ staged = {}
    /\ discarded = {}

\* A receipt is posted: the entry and the settlement appear together.
PostReceipt(r) ==
    /\ r \notin removed
    /\ journal' = Append(journal, r)
    /\ settled' = settled \cup {r}
    /\ UNCHANGED <<removed, edits, staged, discarded>>

\* An import is posted: the entry appears as the staged row disappears.
PostImport(i) ==
    /\ journal' = Append(journal, i)
    /\ staged' = staged \ {i}
    /\ UNCHANGED <<settled, removed, edits, discarded>>

\* A receipt is entered by hand, possibly as already settled.
Enter(r) ==
    /\ r \notin settled \cup removed
    /\ edits[r] = 0
    /\ settled' \in {settled, settled \cup {r}}
    /\ UNCHANGED <<journal, removed, edits, staged, discarded>>

\* A hand edit settles or unsettles a receipt, and is counted.
Edit(r) ==
    /\ r \notin removed
    /\ settled' \in {settled \cup {r}, settled \ {r}}
    /\ edits' = [edits EXCEPT ![r] = @ + 1]
    /\ UNCHANGED <<journal, removed, staged, discarded>>

\* A receipt is removed for good; what was posted from it stays in the journal.
Remove(r) ==
    /\ removed' = removed \cup {r}
    /\ settled' = settled \ {r}
    /\ UNCHANGED <<journal, edits, staged, discarded>>

Stage(i) ==
    /\ i \notin staged \cup discarded
    /\ staged' = staged \cup {i}
    /\ UNCHANGED <<journal, settled, removed, edits, discarded>>

Discard(i) ==
    /\ i \in staged
    /\ staged' = staged \ {i}
    /\ discarded' = discarded \cup {i}
    /\ UNCHANGED <<journal, settled, removed, edits>>

Next ==
    \/ \E r \in Receipts : PostReceipt(r) \/ Enter(r) \/ Edit(r) \/ Remove(r)
    \/ \E i \in Imports : PostImport(i) \/ Stage(i) \/ Discard(i)

Spec == Init /\ [][Next]_journalVars
=============================================================================
