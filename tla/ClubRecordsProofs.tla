--------------------------- MODULE ClubRecordsProofs ---------------------------
(* What a deletion takes along, for any number of clubs and records and any    *)
(* shape of the hierarchy, circles included.  The rows lost are the least set  *)
(* that contains the deleted ones and is closed under "hangs on"; both halves  *)
(* of that are used: closed, so nothing dangles, and least, so nothing more is *)
(* lost and no other club is touched.                                          *)
EXTENDS ClubRecords, TLAPS

Inv == TypeOK /\ NoDanglingRecords

-------------------------------------------------------------------------------
(* The least closed set. *)

LEMMA DoomedPresent == \A S : Doomed(S) \subseteq Present
  BY DEF Doomed

LEMMA DoomedContains == \A S \in SUBSET Present : S \subseteq Doomed(S)
  BY DEF Doomed

LEMMA DoomedClosed == \A S : Closed(Doomed(S))
<1> SUFFICES ASSUME NEW S, NEW r \in Present \cap Cascading, row[r].link \in Doomed(S)
             PROVE  r \in Doomed(S)
  BY DEF Closed
<1>1. ASSUME NEW D \in SUBSET Present, S \subseteq D, Closed(D)
      PROVE  r \in D
  <2>1. row[r].link \in D
    BY <1>1 DEF Doomed
  <2> QED
    BY <1>1, <2>1 DEF Closed
<1> QED
  BY <1>1 DEF Doomed

LEMMA DoomedLeast ==
  ASSUME NEW S, NEW D \in SUBSET Present, S \subseteq D, Closed(D)
  PROVE  Doomed(S) \subseteq D
  BY DEF Doomed

\* What is lost beyond S hangs on something lost.
LEMMA DoomedHang ==
  ASSUME NEW S, S \in SUBSET Present, NEW s \in Doomed(S), s \notin S
  PROVE  s \in Cascading /\ row[s].link \in Doomed(S)
<1> SUFFICES ASSUME ~(s \in Cascading /\ row[s].link \in Doomed(S))
             PROVE  FALSE
  OBVIOUS
<1> DEFINE D == Doomed(S) \ {s}
<1>1. D \in SUBSET Present
  BY DoomedPresent
<1>2. S \subseteq D
  BY DoomedContains
<1>3. Closed(D)
  BY DoomedClosed DEF Closed
<1>4. Doomed(S) \subseteq D
  BY <1>1, <1>2, <1>3, DoomedLeast
<1> QED
  BY <1>4

-------------------------------------------------------------------------------
(* The invariant. *)

LEMMA LinkOfPresent ==
  ASSUME Inv, NEW r \in Present
  PROVE  /\ r \in Rows /\ row[r].life = "present" /\ row[r].club \in Clubs
         /\ row[r] = [life |-> "present", club |-> row[r].club, link |-> row[r].link]
         /\ row[r].link \in Rows \cup {NULL}
         /\ row[r].link \in Links(r) /\ clubs[row[r].club] = "present"
  BY DEF Inv, TypeOK, NoDanglingRecords, Present, Row, Absent, Gone

LEMMA Relinked ==
  ASSUME Inv, NEW r \in Present, NEW link
  PROVE  [row[r] EXCEPT !.link = link] =
           [life |-> "present", club |-> row[r].club, link |-> link]
<1>1. \A c, l : [[life |-> "present", club |-> c, link |-> l] EXCEPT !.link = link] =
                  [life |-> "present", club |-> c, link |-> link]
  OBVIOUS
<1>2. row[r] = [life |-> "present", club |-> row[r].club, link |-> row[r].link]
  BY LinkOfPresent
<1> QED
  BY <1>1, <1>2, Zenon

LEMMA InitInv == Init => Inv
  BY DEF Init, Inv, TypeOK, NoDanglingRecords, Present, Row, Absent, Gone, Lives

\* A deletion leaves rows behind that name what is still there.
LEMMA RemoveKeeps ==
  ASSUME Inv, NEW S \in SUBSET Present, Remove(Doomed(S))
  PROVE  /\ row' \in [Rows -> Row]
         /\ Present' = Present \ Doomed(S)
         /\ \A r \in Present' : row'[r].club = row[r].club /\ row'[r].link \in Links(r)'
<1>1. \A r \in Rows : row'[r] =
        IF r \in Doomed(S) THEN Gone
        ELSE IF row[r].link \in Doomed(S) THEN [row[r] EXCEPT !.link = NULL]
        ELSE row[r]
  BY DEF Remove
<1>2. \A r \in Rows : r \notin Present => row[r] \in {Absent, Gone} /\ row[r].link \notin Doomed(S)
  BY DoomedPresent, NullIsNoId DEF Inv, TypeOK, Row, Present, Absent, Gone
<1>3. \A r \in Present : row[r].link \in Doomed(S) =>
        [row[r] EXCEPT !.link = NULL] = [life |-> "present", club |-> row[r].club, link |-> NULL]
  BY Relinked
<1>4. row' \in [Rows -> Row]
  <2>1. ASSUME NEW r \in Rows
        PROVE  row'[r] \in Row
    <3>1. CASE r \in Doomed(S)
      BY <1>1, <3>1 DEF Row
    <3>2. CASE r \notin Doomed(S) /\ row[r].link \in Doomed(S)
      <4>1. r \in Present
        BY <1>2, <3>2
      <4>2. row'[r] = [life |-> "present", club |-> row[r].club, link |-> NULL]
        BY <1>1, <1>3, <3>2, <4>1
      <4>3. row[r].club \in Clubs /\ NULL \in Rows \cup {NULL}
        BY <4>1, LinkOfPresent
      <4>4. row'[r] \in [life : {"present"}, club : Clubs, link : Rows \cup {NULL}]
        BY <4>2, <4>3
      <4> QED
        BY <4>4 DEF Row
    <3>3. CASE r \notin Doomed(S) /\ row[r].link \notin Doomed(S)
      BY <1>1, <3>3 DEF Inv, TypeOK
    <3> QED
      BY <3>1, <3>2, <3>3
  <2> QED
    BY <2>1 DEF Remove
<1>5. Present' = Present \ Doomed(S)
  <2>1. ASSUME NEW r \in Rows
        PROVE  row'[r].life = "present" <=> r \in Present /\ r \notin Doomed(S)
    <3>1. CASE r \in Doomed(S)
      <4>1. row'[r] = Gone
        BY <1>1, <3>1
      <4>2. Gone.life = "gone"
        BY DEF Gone
      <4> QED
        BY <3>1, <4>1, <4>2
    <3>2. CASE r \notin Doomed(S) /\ row[r].link \in Doomed(S)
      <4>1. r \in Present
        BY <1>2, <3>2
      <4>2. row'[r] = [life |-> "present", club |-> row[r].club, link |-> NULL]
        BY <1>1, <1>3, <3>2, <4>1
      <4> QED
        BY <3>2, <4>1, <4>2
    <3>3. CASE r \notin Doomed(S) /\ row[r].link \notin Doomed(S)
      BY <1>1, <3>3 DEF Present
    <3> QED
      BY <3>1, <3>2, <3>3
  <2> QED
    BY <2>1 DEF Present
<1>6. ASSUME NEW r \in Present'
      PROVE  row'[r].club = row[r].club /\ row'[r].link \in Links(r)'
  <2>1. r \in Present /\ r \notin Doomed(S) /\ r \in Rows
    BY <1>5, <1>6, LinkOfPresent
  <2>2. CASE row[r].link \in Doomed(S)
    <3>1. r \notin Cascading
      BY <2>1, <2>2, DoomedClosed DEF Closed
    <3>2. row'[r] = [life |-> "present", club |-> row[r].club, link |-> NULL]
      BY <1>1, <1>3, <2>1, <2>2
    <3> QED
      BY <3>1, <3>2 DEF Links, Cascading
  <2>3. CASE row[r].link \notin Doomed(S)
    <3>1. row'[r] = row[r]
      BY <1>1, <2>1, <2>3
    <3>2. row[r].link \in Links(r)
      BY <2>1, LinkOfPresent
    <3> QED
      BY <3>1, <3>2, <2>3, <1>5 DEF Links, Targets
  <2> QED
    BY <2>2, <2>3
<1> QED
  BY <1>4, <1>5, <1>6

\* What the handlers come down to.
LEMMA NextCases ==
  ASSUME Next
  PROVE  \E c \in Clubs :
           \/ CreateClub(c) \/ GrantCreator(c) \/ GrantFails(c) \/ DeleteClub(c)
           \/ \E r \in Rows :
               \/ Delete(r, c)
               \/ \E link \in Links(r) : Create(r, c, link) \/ Update(r, c, link)
<1>1. \A r \in Rows : r \in Categories \cup Events \cup Accounts => NULL \in Links(r)
  BY KindsDiffer DEF Links
<1>2. \A r \in Rows, c \in Clubs : Deletion(r, c) => Delete(r, c)
  BY DEF Deletion, DeleteDepartment, DeleteDocumentCategory, DeleteDocument, DeleteEvent,
         DeleteClubBankAccount, DeleteFeeAccountMapping
<1>3. \A r \in Rows, c \in Clubs : Change(r, c) => \E link \in Links(r) : Update(r, c, link)
  BY <1>1 DEF Change, UpdateDocumentCategory, UpdateEvent, UpdateClubBankAccount,
              UpdateDepartment, UpdateDocument, UpdateFeeAccountMapping
<1>4. \A r \in Rows, c \in Clubs : Creation(r, c) => \E link \in Links(r) : Create(r, c, link)
  BY <1>1 DEF Creation, CreateDocumentCategory, CreateEvent, CreateClubBankAccount,
              CreateDepartment, UploadDocument, CreateFeeAccountMapping
<1> QED
  BY <1>2, <1>3, <1>4 DEF Next, ClubStep

LEMMA NextInv == Inv /\ [Next]_vars => Inv'
<1> SUFFICES ASSUME Inv, [Next]_vars PROVE Inv'
  OBVIOUS
<1> USE DEF Lives
<1>1. ASSUME NEW c \in Clubs, CreateClub(c) PROVE Inv'
  <2>1. TypeOK'
    BY <1>1 DEF Inv, TypeOK, CreateClub
  <2>2. Present' = Present /\ \A r \in Rows : Links(r)' = Links(r)
    BY <1>1 DEF CreateClub, Present, Links, Targets
  <2>3. \A r \in Present : row'[r] = row[r] /\ clubs'[row[r].club] = "present"
    BY <1>1, LinkOfPresent DEF CreateClub, Inv, TypeOK
  <2>4. \A k \in admins' : clubs'[k] = "present"
    BY <1>1 DEF Inv, TypeOK, NoDanglingRecords, CreateClub
  <2> QED
    BY <2>1, <2>2, <2>3, <2>4, LinkOfPresent DEF Inv, NoDanglingRecords
<1>2. ASSUME NEW c \in Clubs, GrantCreator(c) \/ GrantFails(c) PROVE Inv'
  <2>1. UNCHANGED <<clubs, row>> /\ admins' \in {admins, admins \cup {c}}
    BY <1>2 DEF GrantCreator, GrantFails
  <2>2. \A k \in admins' : clubs'[k] = "present"
    BY <1>2 DEF Inv, NoDanglingRecords, GrantCreator, GrantFails
  <2>3. TypeOK'
    BY <1>2 DEF Inv, TypeOK, GrantCreator, GrantFails
  <2>4. Present' = Present /\ \A r \in Rows : Links(r)' = Links(r)
    BY <2>1 DEF Present, Links, Targets
  <2> QED
    BY <2>1, <2>2, <2>3, <2>4, LinkOfPresent DEF Inv, NoDanglingRecords
<1>3. ASSUME NEW c \in Clubs, DeleteClub(c) PROVE Inv'
  <2> DEFINE S == RecordsOf(c)
  <2>1. S \in SUBSET Present /\ Remove(Doomed(S))
    BY <1>3 DEF DeleteClub, RecordsOf
  <2>2. row' \in [Rows -> Row] /\ Present' = Present \ Doomed(S)
        /\ \A r \in Present' : row'[r].club = row[r].club /\ row'[r].link \in Links(r)'
    BY <2>1, RemoveKeeps
  <2>3. TypeOK'
    BY <1>3, <2>2 DEF Inv, TypeOK, DeleteClub
  <2>4. \A r \in Present' : clubs'[row'[r].club] = "present"
    <3>1. S \subseteq Doomed(S)
      BY <2>1, DoomedContains
    <3>2. \A r \in Present' : r \in Present /\ row[r].club # c
      BY <3>1, <2>2 DEF RecordsOf
    <3> QED
      BY <1>3, <2>2, <3>2, LinkOfPresent DEF DeleteClub, Inv, TypeOK
  <2>5. \A k \in admins' : clubs'[k] = "present"
    BY <1>3 DEF Inv, TypeOK, NoDanglingRecords, DeleteClub
  <2> QED
    BY <2>2, <2>3, <2>4, <2>5 DEF Inv, NoDanglingRecords
<1>4. ASSUME NEW c \in Clubs, NEW r \in Rows, Delete(r, c) PROVE Inv'
  <2>1. {r} \in SUBSET Present /\ Remove(Doomed({r})) /\ UNCHANGED <<clubs, admins, creating>>
    BY <1>4 DEF Delete, RowOfClub
  <2>2. row' \in [Rows -> Row] /\ Present' = Present \ Doomed({r})
        /\ \A s \in Present' : row'[s].club = row[s].club /\ row'[s].link \in Links(s)'
    BY <2>1, RemoveKeeps
  <2>3. TypeOK'
    BY <1>4, <2>1, <2>2 DEF Inv, TypeOK, Delete
  <2> QED
    BY <2>1, <2>2, <2>3 DEF Inv, NoDanglingRecords
<1>5. ASSUME NEW c \in Clubs, NEW r \in Rows, NEW link \in Links(r),
             Create(r, c, link) \/ Update(r, c, link)
      PROVE  Inv'
  <2>1. link \in Rows \cup {NULL}
    BY DEF Links, Present
  <2> DEFINE new == [life |-> "present", club |-> c, link |-> link]
  <2>2. row' = [row EXCEPT ![r] = new] /\ clubs[c] = "present"
    <3>1. CASE Create(r, c, link)
      BY <3>1 DEF Create
    <3>2. CASE Update(r, c, link)
      <4>1. r \in Present /\ row[r].club = c
        BY <3>2 DEF Update, RowOfClub
      <4>2. [row[r] EXCEPT !.link = link] = new
        BY <4>1, Relinked
      <4>3. row' = [row EXCEPT ![r] = [row[r] EXCEPT !.link = link]]
        BY <3>2 DEF Update
      <4> QED
        BY <4>1, <4>2, <4>3, LinkOfPresent
    <3> QED
      BY <1>5, <3>1, <3>2
  <2>3. UNCHANGED <<clubs, admins, creating>> /\ by' = c
    BY <1>5 DEF Create, Update
  <2>4. TypeOK'
    BY <2>1, <2>2, <2>3 DEF Inv, TypeOK, Row
  <2>5. row'[r] = new /\ \A s \in Rows : s # r => row'[s] = row[s]
    BY <2>2 DEF Inv, TypeOK
  <2>6. Present' = Present \cup {r}
    BY <2>5 DEF Present
  <2>7. \A s \in Rows : Links(s) \subseteq Links(s)'
    BY <2>6 DEF Links, Targets
  <2>8. ASSUME NEW s \in Present'
        PROVE  row'[s].club \in Clubs /\ clubs'[row'[s].club] = "present"
               /\ row'[s].link \in Links(s)'
    <3>1. CASE s = r
      BY <2>2, <2>3, <2>5, <2>7, <3>1
    <3>2. CASE s # r
      BY <2>3, <2>5, <2>6, <2>7, <3>2, LinkOfPresent
    <3> QED
      BY <3>1, <3>2
  <2>9. \A k \in admins' : clubs'[k] = "present"
    BY <2>3 DEF Inv, NoDanglingRecords
  <2> QED
    BY <2>4, <2>8, <2>9 DEF Inv, NoDanglingRecords
<1>6. CASE UNCHANGED vars
  BY <1>6 DEF vars, Inv, TypeOK, NoDanglingRecords, Present, Links, Targets
<1> QED
  BY <1>1, <1>2, <1>3, <1>4, <1>5, <1>6, NextCases

THEOREM Invariance == Spec => []Inv
  BY InitInv, NextInv, PTL DEF Spec

\* Every variable has its type.
THEOREM TypeCorrect == Spec => []TypeOK
<1>1. Inv => TypeOK
  BY DEF Inv
<1> QED
  BY <1>1, Invariance, PTL

\* Whatever is deleted, no record hangs in the air.
THEOREM NothingDangles == Spec => []NoDanglingRecords
<1>1. Inv => NoDanglingRecords
  BY DEF Inv
<1> QED
  BY <1>1, Invariance, PTL

-------------------------------------------------------------------------------
(* The action properties. *)

LEMMA LostIsDoomed ==
  ASSUME Inv, NEW S \in SUBSET Present, Remove(Doomed(S))
  PROVE  Lost = Doomed(S)
<1>1. Present' = Present \ Doomed(S)
  BY RemoveKeeps
<1>2. \A r \in Present : r \in Present' <=> row'[r].life = "present"
  BY DEF Present
<1> QED
  BY <1>1, <1>2, DoomedPresent DEF Lost

\* Nothing is lost alone but what the request deletes, or the club's own.
LEMMA LostAloneAsked ==
  ASSUME Inv, NEW S \in SUBSET Present, Remove(Doomed(S)), NEW s, LostAlone(s)
  PROVE  s \in S
<1>1. s \in Doomed(S) /\ (s \in Cascading => row[s].link \notin Doomed(S))
  BY LostIsDoomed DEF LostAlone, Cascading
<1> QED
  BY <1>1, DoomedHang

LEMMA NothingLost ==
  ASSUME \A r \in Present : row'[r].life = "present"
  PROVE  Lost = {}
  BY DEF Lost

LEMMA StepKeepsRecords ==
  ASSUME Inv, [Next]_vars
  PROVE  /\ \A r, s \in Lost : LostAlone(r) /\ LostAlone(s) => r = s
         /\ clubs' # clubs => \A r \in Lost : ~LostAlone(r)
<1>1. ASSUME NEW c \in Clubs, CreateClub(c) \/ GrantCreator(c) \/ GrantFails(c) PROVE Lost = {}
  <2>1. row' = row
    BY <1>1 DEF CreateClub, GrantCreator, GrantFails
  <2> QED
    BY <2>1, NothingLost, LinkOfPresent
<1>2. ASSUME NEW c \in Clubs, DeleteClub(c) PROVE \A r \in Lost : ~LostAlone(r)
  <2>1. RecordsOf(c) \in SUBSET Present /\ Remove(Doomed(RecordsOf(c)))
    BY <1>2 DEF DeleteClub, RecordsOf
  <2>2. clubs'[c] = "gone"
    BY <1>2 DEF DeleteClub, Inv, TypeOK
  <2>3. \A s : LostAlone(s) => s \in RecordsOf(c)
    BY <2>1, LostAloneAsked
  <2>4. \A s : LostAlone(s) => clubs'[row[s].club] = "present"
    BY DEF LostAlone
  <2> QED
    BY <2>2, <2>3, <2>4 DEF RecordsOf
<1>3. ASSUME NEW c \in Clubs, NEW d \in Rows, Delete(d, c)
      PROVE  clubs' = clubs /\ \A s : LostAlone(s) => s = d
  <2>1. {d} \in SUBSET Present /\ Remove(Doomed({d})) /\ clubs' = clubs
    BY <1>3 DEF Delete, RowOfClub
  <2>2. \A s : LostAlone(s) => s \in {d}
    BY <2>1, LostAloneAsked
  <2> QED
    BY <2>1, <2>2
<1>4. ASSUME NEW c \in Clubs, NEW n \in Rows, NEW link \in Links(n),
             Create(n, c, link) \/ Update(n, c, link)
      PROVE  Lost = {}
  <2>1. \A r \in Present : r # n => row'[r] = row[r]
    BY <1>4, LinkOfPresent DEF Create, Update, Inv, TypeOK
  <2>2. n \in Present => row'[n].life = "present"
    <3>1. ASSUME n \in Present, Update(n, c, link)
          PROVE  row'[n].life = "present"
      <4>1. row'[n] = [row[n] EXCEPT !.link = link]
        BY <3>1 DEF Update, Inv, TypeOK
      <4>2. row'[n] = [life |-> "present", club |-> row[n].club, link |-> link]
        BY <3>1, <4>1, Relinked
      <4> QED
        BY <4>2
    <3> QED
      BY <1>4, <3>1, LinkOfPresent DEF Create
  <2> QED
    BY <2>1, <2>2, NothingLost, LinkOfPresent
<1>5. CASE UNCHANGED vars
  <2>1. Lost = {}
    BY <1>5, NothingLost, LinkOfPresent DEF vars
  <2> QED
    BY <2>1, <1>5 DEF vars
<1> QED
  BY <1>1, <1>2, <1>3, <1>4, <1>5, NextCases

\* A deletion takes the records it is asked for and what hangs on them, no more.
THEOREM KeepsRecords == Spec => RecordsKept
<1>1. Inv /\ Inv' /\ [Next]_vars =>
        [ /\ \A r, s \in Lost : LostAlone(r) /\ LostAlone(s) => r = s
          /\ clubs' # clubs => \A r \in Lost : ~LostAlone(r) ]_vars
  BY StepKeepsRecords
<1> QED
  BY <1>1, Invariance, PTL DEF Spec, RecordsKept

\* Without a link between two clubs the rows of a club are closed.
LEMMA OwnRowsClosed ==
  ASSUME Inv, Crossing = {}, NEW c \in Clubs
  PROVE  Closed(RecordsOf(c))
<1> SUFFICES ASSUME NEW r \in Present \cap Cascading, row[r].link \in RecordsOf(c)
             PROVE  r \in RecordsOf(c)
  BY DEF Closed
<1>1. row[r].link # NULL /\ row[row[r].link].club = c
  BY NullIsNoId DEF RecordsOf, Present
<1> QED
  BY <1>1 DEF Crossing, RecordsOf

LEMMA RemoveOwn ==
  ASSUME Inv, Crossing = {}, NEW c \in Clubs, NEW S \in SUBSET RecordsOf(c),
         Remove(Doomed(S)), NEW r \in Rows, row'[r] # row[r]
  PROVE  row[r].club = c
<1>1. Doomed(S) \subseteq RecordsOf(c)
  <2>1. RecordsOf(c) \in SUBSET Present
    BY DEF RecordsOf
  <2> QED
    BY <2>1, OwnRowsClosed, DoomedLeast
<1>2. r \in Doomed(S) \/ row[r].link \in Doomed(S)
  BY DEF Remove
<1>3. CASE r \in Doomed(S)
  BY <1>1, <1>3 DEF RecordsOf
<1>4. CASE row[r].link \in Doomed(S)
  <2>1. row[r].link # NULL /\ row[row[r].link].club = c
    BY <1>1, <1>4, NullIsNoId DEF RecordsOf, Present
  <2>2. r \in Present
    BY <2>1 DEF Inv, TypeOK, Row, Present, Absent, Gone
  <2> QED
    BY <2>1, <2>2 DEF Crossing
<1> QED
  BY <1>2, <1>3, <1>4

LEMMA StepOfOneClub ==
  ASSUME Inv, [Next]_vars, Crossing = {}, NEW r \in Rows, row'[r] # row[r]
  PROVE  by' \in {row[r].club, row'[r].club}
<1>1. ASSUME NEW c \in Clubs, CreateClub(c) \/ GrantCreator(c) \/ GrantFails(c) PROVE FALSE
  BY <1>1 DEF CreateClub, GrantCreator, GrantFails
<1>2. ASSUME NEW c \in Clubs, DeleteClub(c) PROVE by' = row[r].club
  <2>1. Remove(Doomed(RecordsOf(c))) /\ by' = c
    BY <1>2 DEF DeleteClub
  <2> QED
    BY <2>1, RemoveOwn
<1>3. ASSUME NEW c \in Clubs, NEW d \in Rows, Delete(d, c) PROVE by' = row[r].club
  <2>1. Remove(Doomed({d})) /\ by' = c /\ {d} \in SUBSET RecordsOf(c)
    BY <1>3 DEF Delete, RowOfClub, RecordsOf
  <2> QED
    BY <2>1, RemoveOwn
<1>4. ASSUME NEW c \in Clubs, NEW n \in Rows, NEW link \in Links(n),
             Create(n, c, link) \/ Update(n, c, link)
      PROVE  by' \in {row[r].club, row'[r].club}
  <2>1. by' = c
    BY <1>4 DEF Create, Update
  <2>2. CASE Create(n, c, link)
    <3>1. r = n
      BY <2>2 DEF Create, Inv, TypeOK
    <3>2. row'[r].club = c
      BY <2>2, <3>1 DEF Create, Inv, TypeOK
    <3> QED
      BY <2>1, <3>2
  <2>3. CASE Update(n, c, link)
    <3>1. r = n
      BY <2>3 DEF Update, Inv, TypeOK
    <3> QED
      BY <2>1, <2>3, <3>1 DEF Update, RowOfClub
  <2> QED
    BY <1>4, <2>2, <2>3
<1>5. CASE UNCHANGED vars
  BY <1>5 DEF vars
<1> QED
  BY <1>1, <1>2, <1>3, <1>4, <1>5, NextCases

\* While no record hangs on one of another club, requests keep to their club.
THEOREM KeepsApart == Spec => ClubsApart
<1>1. Inv /\ Inv' /\ [Next]_vars =>
        [ Crossing = {} =>
            \A r \in Rows : row'[r] # row[r] => by' \in {row[r].club, row'[r].club} ]_vars
  BY StepOfOneClub
<1> QED
  BY <1>1, Invariance, PTL DEF Spec, ClubsApart
===============================================================================
