------------------------------ MODULE RateLimiter ------------------------------
(***************************************************************************)
(* The limiter in front of registration and login (api/ratelimit.go): each *)
(* process of the server keeps a map from addresses to a counter and the   *)
(* start of the window it counts in.  A window begins with the first       *)
(* request after the last window; refused requests are counted too.  A     *)
(* goroutine deletes the windows that are over, and a process that ends    *)
(* takes its map along.  Every operation holds the mutex, so it is a step. *)
(***************************************************************************)
EXTENDS RateLimiterState

vars == <<now, records, admitted>>

Init ==
    /\ now = 0
    /\ records = [p \in Instances |-> [a \in Addresses |-> NoRecord]]
    /\ admitted = [p \in Instances |-> [a \in Addresses |-> <<>>]]

SetRecord(p, a, record) == records' = [records EXCEPT ![p][a] = record]

LetIn(p, a, start) ==
    admitted' = [admitted EXCEPT ![p][a] = Append(@, [at |-> now, start |-> start])]

FirstOfWindow(p, a) ==
    /\ ~Open(p, a)
    /\ SetRecord(p, a, [count |-> 1, start |-> now])
    /\ LetIn(p, a, now)
    /\ UNCHANGED now

NextOfWindow(p, a) ==
    /\ Open(p, a) /\ Allowed(p, a)
    /\ SetRecord(p, a, Counted(p, a))
    /\ LetIn(p, a, records[p][a].start)
    /\ UNCHANGED now

\* Allow returns true ...
Admit(p, a) == FirstOfWindow(p, a) \/ NextOfWindow(p, a)

\* ... or false: 429, which is counted.
Refuse(p, a) ==
    /\ Open(p, a) /\ ~Allowed(p, a)
    /\ records[p][a].count < MaxCount
    /\ SetRecord(p, a, Counted(p, a))
    /\ UNCHANGED <<now, admitted>>

Cleanup(p) ==
    /\ \E a \in Addresses : Known(p, a) /\ Over(records[p][a])
    /\ records' = [records EXCEPT ![p] =
            [a \in Addresses |-> IF Open(p, a) THEN @[a] ELSE NoRecord]]
    /\ UNCHANGED <<now, admitted>>

\* The process ends; its successor starts with an empty map, and so does the
\* history, since nothing limits the requests across a restart.
Forget(p) ==
    /\ records' = [records EXCEPT ![p] = [a \in Addresses |-> NoRecord]]
    /\ admitted' = [admitted EXCEPT ![p] = [a \in Addresses |-> <<>>]]
    /\ UNCHANGED now

Tick ==
    /\ now < MaxTime
    /\ now' = now + 1
    /\ UNCHANGED <<records, admitted>>

Next ==
    \/ Tick
    \/ \E p \in Instances :
        \/ Cleanup(p) \/ Forget(p)
        \/ \E a \in Addresses : Admit(p, a) \/ Refuse(p, a)

Spec == Init /\ [][Next]_vars

-------------------------------------------------------------------------------
Admission == [at : Nat, start : Nat]

TypeOK ==
    /\ now \in 0 .. MaxTime
    /\ records \in [Instances -> [Addresses -> Record \cup {NoRecord}]]
    /\ admitted \in [Instances -> [Addresses -> Seq(Admission)]]
===============================================================================
