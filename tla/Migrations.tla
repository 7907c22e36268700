----------------------------- MODULE Migrations -----------------------------
(***************************************************************************)
(* The database under "alembic upgrade" and "alembic downgrade": version   *)
(* is the number of the revision alembic_version holds, db the schema and  *)
(* the cells the scripts move.  A command runs its scripts in one          *)
(* transaction, so one that fails leaves the database as it was.           *)
(***************************************************************************)
EXTENDS Revisions

CONSTANTS Variables,  \* ids of environment variables
          Holders,    \* ids of projects and datasets
          Codes       \* source code that routes between operators

VARIABLES version, db
migrationVars == <<version, db>>

Newest == Len(Revisions)

\* env.py opens one transaction around all the scripts of a command.
Upgrades(d, v, w) ==
  LET at[n \in v..w] == IF n = v THEN d ELSE RunScript(at[n - 1], Revisions[n].up) IN at
Upgraded(d, v, w) == Upgrades(d, v, w)[w]
Downgraded(d, v) == RunScript(d, Revisions[v].down)

\* The schema that the upgrades from the empty database give each version.
SchemaAt == Upgrades(EmptyDatabase, 0, Newest)

MigrationsInit == version = 0 /\ db = EmptyDatabase

\* Mutants: no transaction around the scripts; and one around them, but not
\* around the version.
run_migrations_bare(result, target) ==
  /\ version' = IF result.ok THEN target ELSE version
  /\ db' = [result EXCEPT !.ok = TRUE]
run_migrations_stamped(result, target) ==
  /\ version' = target
  /\ db' = IF result.ok THEN result ELSE db

run_migrations_online(result, target) ==
  /\ version' = IF result.ok THEN target ELSE version
  /\ db' = IF result.ok THEN result ELSE db

\* "db migrate" and "start": alembic upgrade head.
UpgradeHead == version < Newest /\ run_migrations_online(Upgraded(db, version, Newest), Newest)
\* "db upgrade +1" and "db downgrade -1".
UpgradeOne ==
  version < Newest /\ run_migrations_online(Upgraded(db, version, version + 1), version + 1)
DowngradeOne == version > 0 /\ run_migrations_online(Downgraded(db, version), version - 1)

\* The cognition gateway writes the rows whose cells the scripts move: an
\* environment variable, a project and a dataset that use it, and the source
\* code that routes between operators.
VariableTable == "cognition.environment_variable"
VariableRow(v) == IdCell(VariableTable, v)
ReferenceColumns ==
  ({"cognition.project"} \X {"open_ai_env_var_id", "llm_config"})
  \cup ({"cognition.markdown_dataset"} \X {"environment_variable_id", "llm_config"})
RoutingColumns ==
  {"cognition.project"} \X {"operator_routing_source_code", "operator_routing_config"}
Write(column, row, value) ==
  /\ column \in db.columns
  /\ db' = [db EXCEPT !.cells = {c \in @ : <<<<c[1], c[2]>>, c[3]>> # <<column, row>>}
                                \cup {<<column[1], column[2], row, value>>}]
Configure ==
  /\ \/ \E v \in Variables :
          /\ VariableTable \in db.tables
          /\ db' = [db EXCEPT !.cells = @ \cup {VariableRow(v)}]
     \/ \E k \in ReferenceColumns, h \in Holders, v \in Variables :
          VariableRow(v) \in db.cells /\ Write(k, h, v)
     \/ \E k \in RoutingColumns, h \in Holders, c \in Codes : Write(k, h, c)
  /\ UNCHANGED version

\* Deleting a variable clears the columns with a key (all are SET NULL) and
\* leaves the ids in llm_config, which is JSON.
DeleteVariable ==
  \E v \in Variables :
    LET keyed == {c \in db.cells : /\ <<c[1], c[2]>> \in ReferenceColumns /\ c[4] = v
                                  /\ \E k \in db.keys : <<k[1], k[2]>> = <<c[1], c[2]>>}
    IN /\ VariableRow(v) \in db.cells
       /\ db' = [db EXCEPT !.cells = @ \ ({VariableRow(v)} \cup keyed)]
       /\ UNCHANGED version

Migrate == UpgradeHead \/ UpgradeOne \/ DowngradeOne
MigrationsNext == Migrate \/ Configure \/ DeleteVariable

-----------------------------------------------------------------------------
\* The schema is the one its version stands for, on whatever way of upgrades and
\* downgrades the database came there: every downgrade that runs undoes exactly
\* its upgrade (indexes, rules of keys and columns included).
VersionDeterminesSchema == [db EXCEPT !.cells = {}] = SchemaAt[version]

\* "upgrade head" runs from every version, also with rows in the tables.
UpgradesRun == version < Newest => Upgraded(db, version, Newest).ok

\* Revisions whose downgrade() cannot run on the schema its upgrade() made: 4
\* (87f463aa5112) and 5 (09311360f8b9) drop what is not there, 14, 21, 26 and 31
\* drop a constraint without a name, 19 (491ea68a7baf) drops a table that
\* another one refers to.
OneWay == {4, 5, 14, 19, 21, 26, 31}
\* 0d587af700ce adds the keys again, which a row with the id of a variable that
\* was deleted in the meantime forbids.
Parked == {<<"cognition.project", "llm_config">>, <<"cognition.markdown_dataset", "llm_config">>}
Dangling(d) == \E c \in d.cells : <<c[1], c[2]>> \in Parked /\ VariableRow(c[4]) \notin d.cells
MovesReferences(v) == Revisions[v].down = Down_0d587af700ce

\* A downgrade fails on exactly those revisions, and on 0d587af700ce exactly when
\* a reference dangles: every other one can be taken back.
DowngradesRun ==
  version > 0 =>
    (Downgraded(db, version).ok <=> version \notin OneWay /\ ~(MovesReferences(version) /\ Dangling(db)))

\* No migration loses a reference to an environment variable or the routing
\* code of any row: the scripts copy them before they drop their column, up and
\* down.
Held(d) == {<<c[1], c[3], c[4]>> : c \in d.cells}
MigrationsKeepData ==
  [][version' # version => Held(db') = Held(db)]_migrationVars

MigrationsSpec == MigrationsInit /\ [][MigrationsNext]_migrationVars

-----------------------------------------------------------------------------
\* What the theorems take from the scripts.  A column is followed through a
\* script, whatever its cells are: Paths(script)[n] pairs each carrying column
\* with those that hold its content after n operations.
Carrying == {<<VariableTable, "id">>} \cup ReferenceColumns \cup RoutingColumns
Present(base, k) == IF k[2] = "id" THEN k[1] \in base.tables ELSE k \in base.columns
Follow(paths, o) ==
  CASE o.op = "drop" -> {m \in paths : m[2][1] # o.table}
    [] o.op = "remove" -> {m \in paths : m[2] \notin Pairs(o.table, o.columns)}
    [] o.op = "copy" -> paths \cup {<<m[1], <<o.table, o.to>>>> : m \in {n \in paths : n[2] = <<o.table, o.from>>}}
    [] OTHER -> paths
Paths(script) ==
  LET path[n \in 0..Len(script)] ==
        IF n = 0 THEN {<<k, k>> : k \in Carrying} ELSE Follow(path[n - 1], script[n])
  IN path

\* Each column that is there in one schema ends in columns of the other.
Kept(script, from, to) ==
  LET ends == Paths(script)[Len(script)]
  IN \A k \in Carrying : Present(from, k) =>
       /\ \E m \in ends : m[1] = k
       /\ \A m \in ends : m[1] = k => m[2] \in Carrying /\ Present(to, m[2])
\* The columns whose content is put under a key, which is one to the variables.
Keying(script, k, n) ==
  script[n].op = "key" /\ <<k, <<script[n].table, script[n].ref.column>>>> \in Paths(script)[n - 1]
Keyed(script, from) ==
  {k \in Carrying : Present(from, k) /\ \E n \in 1..Len(script) : Keying(script, k, n)}
ToVariables(script) ==
  \A n \in 1..Len(script), k \in Carrying : Keying(script, k, n) =>
    /\ script[n].ref.to = VariableTable
    /\ <<<<VariableTable, "id">>, <<VariableTable, "id">>>> \in Paths(script)[n - 1]

\* Of the 42 scripts: each upgrade runs, keeps every carrying column and puts
\* none under a key; a downgrade that is not one-way leads back to the schema
\* before, keeps every carrying column, and only that of 0d587af700ce puts some
\* under a key; the others cannot run.
UpgradeFacts(v) ==
  LET up == Revisions[v].up
  IN /\ Len(up) \in Nat /\ SchemaAt[v].ok /\ SchemaAt[v].cells = {}
     /\ Kept(up, SchemaAt[v - 1], SchemaAt[v]) /\ Keyed(up, SchemaAt[v - 1]) = {}
DowngradeFacts(v) ==
  LET down == Revisions[v].down
  IN /\ Len(down) \in Nat /\ (Downgraded(SchemaAt[v], v).ok <=> v \notin OneWay)
     /\ v \notin OneWay =>
          /\ Downgraded(SchemaAt[v], v) = SchemaAt[v - 1]
          /\ Kept(down, SchemaAt[v], SchemaAt[v - 1])
          /\ Keyed(down, SchemaAt[v]) = IF MovesReferences(v) THEN Parked ELSE {}
          /\ ToVariables(down)
ASSUME ScriptsAssumption ==
  Newest \in Nat /\ \A v \in 1..Newest : UpgradeFacts(v) /\ DowngradeFacts(v)
=============================================================================
