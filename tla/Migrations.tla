------------------------------ MODULE Migrations ------------------------------
(***************************************************************************)
(* The start of the server (cmd/api/main.go): an instance applies the SQL  *)
(* files that the table schema_migrations does not name yet                *)
(* (database/migrate.go, RunMigrations) and serves requests when that is   *)
(* done; an error ends the process, and docker starts it again.  Nothing   *)
(* keeps two instances apart, say the old image and the new one: there is  *)
(* no lock, and the names of the applied files are read once.              *)
(*                                                                         *)
(* A file is known by its place in the order of the names; an image holds  *)
(* an initial part of that order, since nobody adds a file between two     *)
(* others.  A transaction is seen by others when it commits.  The locks a  *)
(* running file takes on tables are left out, but not the wait for the     *)
(* primary key of schema_migrations.                                       *)
(***************************************************************************)
EXTENDS MigrationsState

vars == <<recorded, schema, inst, faults>>

Stages == {"down", "starting", "migrating", "executed", "recorded", "serving"}

\* applied: the names it has read; next: the file at which its loop is.
Instance == [at : Stages, applied : SUBSET Nat, next : Nat]

Down == [at |-> "down", applied |-> {}, next |-> 1]

Init ==
    /\ recorded = {}
    /\ schema = <<>>
    /\ inst = [i \in Instances |-> Down]
    /\ faults = 0

Become(i, state) == inst' = [inst EXCEPT ![i] = state]
Proceed(i, at) == Become(i, [inst[i] EXCEPT !.at = at])

Fault == faults < MaxFaults /\ faults' = faults + 1
NoFault == UNCHANGED faults

-------------------------------------------------------------------------------
\* "restart: unless-stopped"
Launch(i) ==
    /\ At(i, "down")
    /\ Proceed(i, "starting")
    /\ NoFault /\ UNCHANGED <<recorded, schema>>

Loop(applied, next) == [at |-> "migrating", applied |-> applied, next |-> next]

ReadVersions(i) ==
    /\ At(i, "starting")
    /\ Become(i, Loop(recorded, 1))
    /\ NoFault /\ UNCHANGED <<recorded, schema>>

\* The connection breaks while the rows arrive: rows.Next ends the loop and
\* nobody asks rows.Err, so the start goes on with the names read until then.
ReadVersionsCut(i) ==
    /\ At(i, "starting")
    /\ \E part \in SUBSET recorded : part # recorded /\ Become(i, Loop(part, 1))
    /\ Fault /\ UNCHANGED <<recorded, schema>>

Pending(i) == At(i, "migrating") /\ inst[i].next <= Knows[i]

Advanced(i) == Loop(inst[i].applied, inst[i].next + 1)

Skip(i) ==
    /\ Pending(i) /\ inst[i].next \in inst[i].applied
    /\ Become(i, Advanced(i))
    /\ NoFault /\ UNCHANGED <<recorded, schema>>

\* A transaction begins, and the file runs in it.
Execute(i) ==
    /\ Pending(i) /\ inst[i].next \notin inst[i].applied
    /\ Proceed(i, "executed")
    /\ NoFault /\ UNCHANGED <<recorded, schema>>

\* Slip: the name is recorded with ON CONFLICT DO NOTHING.
OnConflictDoNothing(i) == TRUE

\* The primary key: the name is not there, and no other transaction has just
\* written it (the statement waits until that one has ended).
NameIsFree(i) ==
    /\ inst[i].next \notin recorded
    /\ \A j \in Instances : ~(At(j, "recorded") /\ inst[j].next = inst[i].next)

Record(i) ==
    /\ At(i, "executed")
    /\ NameIsFree(i)
    /\ Proceed(i, "recorded")
    /\ NoFault /\ UNCHANGED <<recorded, schema>>

\* Slip: the failing file is left out and the next one is tried.
LogAndGoOn(i) == Advanced(i)

\* Slip: the transaction is tried again with the same list of names.
TryAgain(i) == [inst[i] EXCEPT !.at = "migrating"]

\* log.Fatalf
Fatal(i) == Down

\* Another instance was faster: rollback, and the process ends.
RecordRefused(i) ==
    /\ At(i, "executed")
    /\ inst[i].next \in recorded
    /\ Become(i, Fatal(i))
    /\ NoFault /\ UNCHANGED <<recorded, schema>>

Committed(i) ==
    /\ recorded' = recorded \cup {inst[i].next}
    /\ schema' = Append(schema, inst[i].next)

Commit(i) ==
    /\ At(i, "recorded")
    /\ Committed(i)
    /\ Become(i, Advanced(i))
    /\ NoFault

\* The commit is effective but its answer is lost, which is an error.
CommitUnacknowledged(i) ==
    /\ At(i, "recorded")
    /\ Committed(i)
    /\ Become(i, Fatal(i))
    /\ Fault

\* The loop is over: the routes are set up and the port is opened.
Serve(i) ==
    /\ At(i, "migrating") /\ inst[i].next > Knows[i]
    /\ Proceed(i, "serving")
    /\ NoFault /\ UNCHANGED <<recorded, schema>>

\* The file cannot be read, or one of the statements fails: rollback.
StatementFails(i) ==
    /\ Pending(i) \/ At(i, "executed") \/ At(i, "recorded")
    /\ Become(i, Fatal(i))
    /\ Fault /\ UNCHANGED <<recorded, schema>>

\* A crash, a deployment, no database at the start: what is not committed is lost.
Stop(i) ==
    /\ ~At(i, "down")
    /\ Become(i, Down)
    /\ Fault /\ UNCHANGED <<recorded, schema>>

Advance(i) ==
    \/ Launch(i) \/ ReadVersions(i) \/ Skip(i) \/ Execute(i)
    \/ Record(i) \/ RecordRefused(i) \/ Commit(i) \/ Serve(i)

Next ==
    \E i \in Instances :
        \/ Advance(i)
        \/ ReadVersionsCut(i) \/ CommitUnacknowledged(i) \/ StatementFails(i) \/ Stop(i)

Spec == Init /\ [][Next]_vars

\* Docker restarts the process and main never pauses; whoever waits for the
\* primary key waits for a transaction that ends.
FairSpec == Spec /\ \A i \in Instances : WF_vars(Advance(i))

-------------------------------------------------------------------------------
TypeOK ==
    /\ recorded \subseteq Nat
    /\ schema \in Seq(Nat)
    /\ inst \in [Instances -> Instance]
    /\ faults \in 0 .. MaxFaults

\* Instances that start together get in each other's way, but no start is
\* refused for ever: in the end all of them serve.
EventuallyServes == \A i \in Instances : <>[]At(i, "serving")
===============================================================================
