----------------------------- MODULE MCDatabase -----------------------------
(* The migrations and, on the schema they end with, the lifecycle of        *)
(* organizations, users and projects.  A behaviour is one of the two.       *)
EXTENDS Lifecycle

VARIABLE part
allVars == <<part, migrationVars, vars>>

Init == part \in {"migrations", "lifecycle"} /\ MigrationsInit /\ LifecycleInit
Next ==
  /\ UNCHANGED part
  /\ \/ part = "migrations" /\ MigrationsNext /\ UNCHANGED vars
     \/ part = "lifecycle" /\ LifecycleNext /\ UNCHANGED migrationVars
Spec == Init /\ [][Next]_allVars /\ LifecycleFairness

\* The two commands, from every version the database can be in and with whatever
\* rows: "upgrade head" runs, and a downgrade fails where, and only where,
\* DowngradesRun says.
CommandsRun == part = "migrations" => UpgradesRun /\ DowngradesRun
=============================================================================
