--------------------------- MODULE MigrationsState ----------------------------
(***************************************************************************)
(* The state of the starts that Migrations describes, and what they        *)
(* promise to the rest of the server.                                      *)
(***************************************************************************)
EXTENDS Deployment, Sequences

VARIABLES
    recorded,   \* the rows of schema_migrations
    schema,     \* the files whose effects are in the database, in their order
    inst,       \* what each process is about to do
    faults      \* the counter of the bound

At(i, stage) == inst[i].at = stage

-------------------------------------------------------------------------------
\* Every file has taken effect once and in the order of the names, and exactly
\* those files are recorded, whatever instances start together, crash or read
\* only a part of the names.  A second run would be a disaster: file 001 drops
\* all tables, 003 empties the roles (migrate.go:55, 72-87).
AppliedOnceInOrder ==
    /\ schema = [k \in 1 .. Len(schema) |-> k]
    /\ recorded = 1 .. Len(schema)

\* A server that answers requests has the schema it was built for, or a newer one.
ServesMigrated ==
    \A i \in Instances : At(i, "serving") => 1 .. Knows[i] \subseteq recorded
===============================================================================
