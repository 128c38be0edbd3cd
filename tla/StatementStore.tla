--------------------------- MODULE StatementStore ---------------------------
(***************************************************************************)
(* How handleCreateFinanceStatement saves a report for a club and a year:  *)
(* it looks the stored statement up, deletes it by its id and inserts the  *)
(* new one, three statements without a transaction.  The table's           *)
(* UNIQUE (club_id, year) is all that keeps concurrent requests apart.     *)
(* What a report says is the subject of StatementReport.                   *)
(***************************************************************************)
EXTENDS Naturals, FiniteSets

CONSTANTS
    Creators,    \* concurrent POST /finance/statements requests for the year
    Ids,         \* statement ids (UUIDs, never reused)
    NoId

ASSUME NoIdIsNone == NoId \notin Ids

VARIABLES
    table,       \* ids of the rows of the year in finance_statements
    place,       \* where each request stands
    existing,    \* the id its lookup returned, or NoId
    answered,    \* the id each request was answered 200 with, or NoId
    stored,      \* history: ids of all rows ever stored
    lookedUp,    \* history: ids some lookup has returned
    byHand,      \* history: ids deleted by DELETE /finance/statements/{id}
    lost         \* history: since the last INSERT a row was deleted by hand or a
                 \* request died after its DELETE

storeVars == <<table, place, existing, answered, stored, lookedUp, byHand, lost>>

StoreInit ==
    /\ table = {}
    /\ place = [p \in Creators |-> "report"]
    /\ existing = [p \in Creators |-> NoId]
    /\ answered = [p \in Creators |-> NoId]
    /\ stored = {}
    /\ lookedUp = {}
    /\ byHand = {}
    /\ lost = FALSE

\* GetFinanceStatementByYear
LookUp(p) ==
    /\ place[p] = "report"
    /\ place' = [place EXCEPT ![p] = "looked"]
    /\ \/ table = {} /\ UNCHANGED existing
       \/ \E id \in table : existing' = [existing EXCEPT ![p] = id]
    /\ lookedUp' = lookedUp \cup table
    /\ answered' = [answered EXCEPT ![p] = NoId]
    /\ UNCHANGED <<table, stored, byHand, lost>>

\* Any error of the lookup counts as "not found".
LookUpFails(p) ==
    /\ place[p] = "report"
    /\ place' = [place EXCEPT ![p] = "looked"]
    /\ answered' = [answered EXCEPT ![p] = NoId]
    /\ UNCHANGED <<table, existing, stored, lookedUp, byHand, lost>>

\* Slip: whatever is stored for the year is deleted.
DeleteYear(p) ==
    /\ place[p] = "looked"
    /\ place' = [place EXCEPT ![p] = "deleted"]
    /\ table' = IF existing[p] = NoId THEN table ELSE {}
    /\ UNCHANGED <<existing, answered, stored, lookedUp, byHand, lost>>

\* DeleteFinanceStatement, if the lookup returned a row; that the row may have
\* gone meanwhile makes no difference.
DeleteOld(p) ==
    /\ place[p] = "looked"
    /\ place' = [place EXCEPT ![p] = "deleted"]
    /\ table' = table \ {existing[p]}
    /\ UNCHANGED <<existing, answered, stored, lookedUp, byHand, lost>>

\* The error of the DELETE is thrown away.
DeleteOldFails(p) ==
    /\ place[p] = "looked"
    /\ existing[p] # NoId
    /\ place' = [place EXCEPT ![p] = "deleted"]
    /\ UNCHANGED <<table, existing, answered, stored, lookedUp, byHand, lost>>

\* Slip: the row that was looked up outlives the request.
EndKeepingRow(p) ==
    /\ place' = [place EXCEPT ![p] = "report"]
    /\ UNCHANGED existing

\* The request is over; the row it had looked up is forgotten.
End(p) ==
    /\ place' = [place EXCEPT ![p] = "report"]
    /\ existing' = [existing EXCEPT ![p] = NoId]

\* Slip: UNIQUE (club_id, year) is missing.
InsertAlways == TRUE

\* The INSERT goes through only if the year has no row.
InsertAllowed == table = {}

\* CreateFinanceStatement, and the new row is the answer.
Create(p, id) ==
    /\ place[p] = "deleted"
    /\ InsertAllowed
    /\ id \notin stored
    /\ table' = table \cup {id}
    /\ stored' = stored \cup {id}
    /\ answered' = [answered EXCEPT ![p] = id]
    /\ lost' = FALSE
    /\ End(p)
    /\ UNCHANGED <<lookedUp, byHand>>

\* Slip: a conflict is resolved by deleting the other row, the report is not saved.
ConflictClears(p) ==
    /\ place[p] = "deleted"
    /\ table # {}
    /\ table' = {}
    /\ End(p)
    /\ UNCHANGED <<answered, stored, lookedUp, byHand, lost>>

\* 500 "Failed to save statement (already exists?)"
CreateRefused(p) ==
    /\ place[p] = "deleted"
    /\ table # {}
    /\ End(p)
    /\ UNCHANGED <<table, answered, stored, lookedUp, byHand, lost>>

\* The client hangs up or the server stops: what was deleted stays deleted.
Abort(p) ==
    /\ place[p] \in {"looked", "deleted"}
    /\ lost' = (lost \/ place[p] = "deleted")
    /\ End(p)
    /\ UNCHANGED <<table, answered, stored, lookedUp, byHand>>

\* DELETE /finance/statements/{id}
DeleteByHand(id) ==
    /\ id \in table
    /\ table' = table \ {id}
    /\ byHand' = byHand \cup {id}
    /\ lost' = TRUE
    /\ UNCHANGED <<place, existing, answered, stored, lookedUp>>

Save(p) ==
    \/ LookUp(p) \/ LookUpFails(p) \/ DeleteOld(p) \/ DeleteOldFails(p)
    \/ (\E id \in Ids : Create(p, id)) \/ CreateRefused(p) \/ Abort(p)

StoreNext == (\E p \in Creators : Save(p)) \/ \E id \in Ids : DeleteByHand(id)

StoreSpec == StoreInit /\ [][StoreNext]_storeVars

-----------------------------------------------------------------------------
(* Properties.                                                             *)

\* Every row and every request has the shape the code gives it.
StoreTypeOK ==
    /\ place \in [Creators -> {"report", "looked", "deleted"}]
    /\ existing \in [Creators -> lookedUp \cup {NoId}]
    /\ answered \in [Creators -> stored \cup {NoId}]
    /\ table \cup lookedUp \cup byHand \subseteq stored
    /\ stored \subseteq Ids
    /\ \A p \in Creators : place[p] = "report" => existing[p] = NoId
    /\ lost \in BOOLEAN

\* Concurrent requests leave a year with one statement at most.
OnePerYear == \A i, j \in table : i = j

\* Once a year has a statement it is without one only while some request is on its
\* way from the DELETE to the INSERT, unless since the last INSERT one died there or
\* the row was deleted by hand.
GapOnlyWhileReplacing ==
    (stored # {} /\ table = {})
      => lost \/ \E p \in Creators : place[p] = "deleted"

\* A client that was answered 200 finds its statement in the table until somebody
\* deletes it by hand or starts a request that looks it up: a request that was
\* under way already cannot displace it.
AnsweredIsKept ==
    \A p \in Creators :
        answered[p] # NoId => answered[p] \in table \cup lookedUp \cup byHand

\* A row disappears only by hand or by a request whose lookup had returned it.
NothingElseIsDeleted == stored \subseteq table \cup lookedUp \cup byHand

\* The inductive invariant: what was answered is among what was stored, and what
\* was stored is accounted for.
StoreInv == StoreTypeOK /\ OnePerYear /\ NothingElseIsDeleted /\ GapOnlyWhileReplacing
=============================================================================
