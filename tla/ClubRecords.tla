------------------------------ MODULE ClubRecords ------------------------------
(***************************************************************************)
(* Clubs and the records that belong to them: departments, which may stand *)
(* under a parent; categories and the documents in them; events of the     *)
(* calendar; bank accounts and the mapping of a fee type to one of them.   *)
(* Every handler is one statement that names the row and the club of the   *)
(* request; only handleCreateClub goes on to make its creator the          *)
(* administrator of the club.  What a statement takes along is decided by  *)
(* the foreign keys of the migrations: a club takes all its records, a     *)
(* department those below it, an account its mappings, while a document    *)
(* outlives its category.  A foreign key looks for the id alone, so a      *)
(* record can be hung on a record of another club, and a department on     *)
(* itself.                                                                 *)
(*                                                                         *)
(* Ids are generated and never used again.  Names, dates and contents are  *)
(* left out, and with them the refusal of a name that exists.  There is    *)
(* one fee type, since different ones do not meet.                         *)
(***************************************************************************)
EXTENDS Naturals

CONSTANTS
    Clubs,
    Departments, Categories, Documents, Events, Accounts, Mappings,
    Families,       \* bound: a behaviour uses the ids of one of these sets
    NULL

Rows == Departments \cup Categories \cup Documents \cup Events \cup Accounts \cup Mappings

ASSUME KindsDiffer ==
    /\ Mappings \cap (Departments \cup Categories \cup Documents \cup Events \cup Accounts) = {}
    /\ Departments \cap (Categories \cup Documents \cup Events \cup Accounts) = {}
    /\ Documents \cap (Categories \cup Events \cup Accounts) = {}
ASSUME NullIsNoId == NULL \notin Rows \cup Clubs
ASSUME FamiliesOfRows == Families \subseteq SUBSET Rows

VARIABLES
    clubs,      \* rows of clubs: absent, present or gone
    row,        \* the records
    admins,     \* clubs whose creator has the role "admin" in them
    creating,   \* requests that have created a club and go on
    by          \* history: the club of the last request

vars == <<clubs, row, admins, creating, by>>

Lives == {"absent", "present", "gone"}

Absent == [life |-> "absent", club |-> NULL, link |-> NULL]
Gone == [life |-> "gone", club |-> NULL, link |-> NULL]
Row == {Absent, Gone} \cup [life : {"present"}, club : Clubs, link : Rows \cup {NULL}]

Init ==
    /\ clubs = [c \in Clubs |-> "absent"]
    /\ \E ids \in Families : row = [r \in Rows |-> IF r \in ids THEN Absent ELSE Gone]
    /\ admins = {}
    /\ creating = {}
    /\ by = NULL

Present == {r \in Rows : row[r].life = "present"}

Targets(r) ==
    CASE r \in Departments -> Departments   \* parent_id
      [] r \in Documents -> Categories      \* category_id
      [] r \in Mappings -> Accounts         \* club_bank_account_id
      [] OTHER -> {}

\* What the column may be set to: NOT NULL in mappings.
Links(r) == (Targets(r) \cap Present) \cup (IF r \in Mappings THEN {} ELSE {NULL})

-------------------------------------------------------------------------------
(* Deletion, as the foreign keys have it. *)

\* Slip: the category takes its documents along.
CascadingAll == Departments \cup Mappings \cup Documents

\* ON DELETE CASCADE: these go with the row they hang on.
Cascading == Departments \cup Mappings

Closed(D) == \A r \in Present \cap Cascading : row[r].link \in D => r \in D

\* The rows S and all that hangs on them: the least closed set.
Doomed(S) == {r \in Present : \A D \in SUBSET Present : S \subseteq D /\ Closed(D) => r \in D}

\* Slip: no foreign key on the category.
Unreferenced(S) == row' = [r \in Rows |-> IF r \in S THEN Gone ELSE row[r]]

Remove(S) ==
    row' = [r \in Rows |->
        IF r \in S THEN Gone
        ELSE IF row[r].link \in S THEN [row[r] EXCEPT !.link = NULL]    \* ON DELETE SET NULL
        ELSE row[r]]

-------------------------------------------------------------------------------
(* Clubs. *)

CreateClub(c) ==
    /\ clubs[c] = "absent"
    /\ clubs' = [clubs EXCEPT ![c] = "present"]
    /\ creating' = creating \cup {c}
    /\ by' = c
    /\ UNCHANGED <<row, admins>>

\* AddUserRole, unless the club is gone again.
GrantCreator(c) ==
    /\ c \in creating
    /\ admins' = IF clubs[c] = "present" THEN admins \cup {c} ELSE admins
    /\ creating' = creating \ {c}
    /\ by' = c
    /\ UNCHANGED <<clubs, row>>

\* The role is not found, or not stored: the answer is the same.
GrantFails(c) ==
    /\ c \in creating
    /\ creating' = creating \ {c}
    /\ by' = c
    /\ UNCHANGED <<clubs, row, admins>>

RecordsOf(c) == {r \in Present : row[r].club = c}

DeleteClub(c) ==
    /\ clubs[c] = "present"
    /\ clubs' = [clubs EXCEPT ![c] = "gone"]
    /\ Remove(Doomed(RecordsOf(c)))
    /\ admins' = admins \ {c}
    /\ by' = c
    /\ UNCHANGED creating

-------------------------------------------------------------------------------
(* Records. *)

\* UNIQUE (club_id, fee_type)
Duplicate(r, c) == r \in Mappings /\ \E m \in Mappings \cap Present : row[m].club = c

Create(r, c, link) ==
    /\ row[r].life = "absent"
    /\ clubs[c] = "present"
    /\ ~Duplicate(r, c)
    /\ row' = [row EXCEPT ![r] = [life |-> "present", club |-> c, link |-> link]]
    /\ by' = c
    /\ UNCHANGED <<clubs, admins, creating>>

\* Slip: WHERE id = $1
AnybodysRow(r, c) == r \in Present

\* WHERE id = $1 AND club_id = $2; for mappings WHERE club_id = $1 AND fee_type = $2
RowOfClub(r, c) == r \in Present /\ row[r].club = c

Update(r, c, link) ==
    /\ RowOfClub(r, c)
    /\ row' = [row EXCEPT ![r].link = link]
    /\ by' = c
    /\ UNCHANGED <<clubs, admins, creating>>

Delete(r, c) ==
    /\ RowOfClub(r, c)
    /\ Remove(Doomed({r}))
    /\ by' = c
    /\ UNCHANGED <<clubs, admins, creating>>

-------------------------------------------------------------------------------
(* The handlers of the records.  What an update of an event, a category or an *)
(* account changes is left out, so it only touches the row.                   *)

CreateDepartment(r, c, parent) == r \in Departments /\ Create(r, c, parent)
UpdateDepartment(r, c, parent) == r \in Departments /\ Update(r, c, parent)
DeleteDepartment(r, c) == r \in Departments /\ Delete(r, c)

CreateDocumentCategory(r, c) == r \in Categories /\ Create(r, c, NULL)
UpdateDocumentCategory(r, c) == r \in Categories /\ Update(r, c, NULL)
DeleteDocumentCategory(r, c) == r \in Categories /\ Delete(r, c)

\* Without a category in the request the document is in none, or taken out of its own.
UploadDocument(r, c, category) == r \in Documents /\ Create(r, c, category)
UpdateDocument(r, c, category) == r \in Documents /\ Update(r, c, category)
DeleteDocument(r, c) == r \in Documents /\ Delete(r, c)

CreateEvent(r, c) == r \in Events /\ Create(r, c, NULL)
UpdateEvent(r, c) == r \in Events /\ Update(r, c, NULL)
DeleteEvent(r, c) == r \in Events /\ Delete(r, c)

CreateClubBankAccount(r, c) == r \in Accounts /\ Create(r, c, NULL)
UpdateClubBankAccount(r, c) == r \in Accounts /\ Update(r, c, NULL)
DeleteClubBankAccount(r, c) == r \in Accounts /\ Delete(r, c)

CreateFeeAccountMapping(r, c, account) == r \in Mappings /\ Create(r, c, account)
UpdateFeeAccountMapping(r, c, account) == r \in Mappings /\ Update(r, c, account)
DeleteFeeAccountMapping(r, c) == r \in Mappings /\ Delete(r, c)

ClubStep(c) == CreateClub(c) \/ GrantCreator(c) \/ GrantFails(c) \/ DeleteClub(c)

Creation(r, c) ==
    \/ CreateDocumentCategory(r, c) \/ CreateEvent(r, c) \/ CreateClubBankAccount(r, c)
    \/ \E link \in Links(r) :
        CreateDepartment(r, c, link) \/ UploadDocument(r, c, link) \/ CreateFeeAccountMapping(r, c, link)

Change(r, c) ==
    \/ UpdateDocumentCategory(r, c) \/ UpdateEvent(r, c) \/ UpdateClubBankAccount(r, c)
    \/ \E link \in Links(r) :
        UpdateDepartment(r, c, link) \/ UpdateDocument(r, c, link) \/ UpdateFeeAccountMapping(r, c, link)

Deletion(r, c) ==
    \/ DeleteDepartment(r, c) \/ DeleteDocumentCategory(r, c) \/ DeleteDocument(r, c)
    \/ DeleteEvent(r, c) \/ DeleteClubBankAccount(r, c) \/ DeleteFeeAccountMapping(r, c)

Next ==
    \E c \in Clubs :
        ClubStep(c) \/ \E r \in Rows : Creation(r, c) \/ Change(r, c) \/ Deletion(r, c)

Spec == Init /\ [][Next]_vars

-------------------------------------------------------------------------------
TypeOK ==
    /\ clubs \in [Clubs -> Lives]
    /\ row \in [Rows -> Row]
    /\ admins \subseteq Clubs
    /\ creating \subseteq Clubs
    /\ by \in Clubs \cup {NULL}

\* No record hangs in the air, whatever was deleted above it, in whatever club:
\* its club exists, and so does the record it names.
NoDanglingRecords ==
    /\ \A r \in Present : clubs[row[r].club] = "present" /\ row[r].link \in Links(r)
    /\ \A c \in admins : clubs[c] = "present"

Lost == {r \in Present : row'[r].life # "present"}

\* Gone without its club, and not because of a record that it hangs on.
LostAlone(r) ==
    /\ r \in Lost
    /\ clubs'[row[r].club] = "present"
    /\ r \in Departments \cup Mappings => row[r].link \notin Lost

\* A deletion takes a record, what hangs on it, and nothing else, also where
\* departments stand in a circle; a club takes its own records and what hangs on
\* them; a document outlives its category (doc/document_management_api.md:99).
RecordsKept ==
    [][ /\ \A r, s \in Lost : LostAlone(r) /\ LostAlone(s) => r = s
        /\ clubs' # clubs => \A r \in Lost : ~LostAlone(r)
      ]_vars

\* Rows that name a record of another club.
Crossing == {r \in Present : row[r].link # NULL /\ row[row[r].link].club # row[r].club}

\* As long as no record hangs on one of another club, a request changes records
\* of its own club only.
ClubsApart ==
    [][ Crossing = {} =>
          \A r \in Rows : row'[r] # row[r] => by' \in {row[r].club, row'[r].club}
      ]_vars
===============================================================================
