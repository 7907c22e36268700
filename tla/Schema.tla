------------------------------- MODULE Schema -------------------------------
(***************************************************************************)
(* What the operations of the migration scripts (alembic's "op") do to the *)
(* schema of the database, as far as a later operation can tell: schemas   *)
(* ("spaces"), tables, the columns that some operation names, foreign keys *)
(* with their delete rule, and indexes.  The names of keys and indexes in  *)
(* the scripts are the default ones, so a pair of a table and a column     *)
(* stands for a name.  The operations themselves belong to alembic and     *)
(* PostgreSQL.                                                             *)
(***************************************************************************)
EXTENDS Naturals, Sequences, FiniteSets

Unnamed == "unnamed"      \* drop_constraint(None, ...): alembic refuses it
Public == "public"

\* The tables the scripts create outside the default schema.
CognitionTables == {
  "cognition.consumption_log", "cognition.consumption_summary", "cognition.conversation",
  "cognition.environment_variable", "cognition.file_extraction", "cognition.file_reference",
  "cognition.file_transformation", "cognition.file_transformation_llm_logs",
  "cognition.llm_step", "cognition.macro", "cognition.macro_edge", "cognition.macro_execution",
  "cognition.macro_execution_link", "cognition.macro_execution_summary", "cognition.macro_node",
  "cognition.markdown_dataset", "cognition.markdown_file", "cognition.markdown_llm_logs",
  "cognition.message", "cognition.personal_access_token", "cognition.pipeline_logs",
  "cognition.project", "cognition.python_step", "cognition.refinery_synchronization_task",
  "cognition.retriever", "cognition.retriever_part", "cognition.strategy",
  "cognition.strategy_requirement", "cognition.strategy_requirement_mapping_option",
  "cognition.strategy_step"}
GlobalTables == {
  "global.customer_button", "global.task_queue", "global.websocket_access"}
SpaceOf(table) ==
  IF table \in CognitionTables THEN "cognition"
  ELSE IF table \in GlobalTables THEN "global" ELSE Public

\* The foreign key of one column: ondelete CASCADE, SET NULL, or no rule.
Owned(column, to) == [column |-> column, to |-> to, rule |-> "CASCADE"]
Loose(column, to) == [column |-> column, to |-> to, rule |-> "SET NULL"]
Firm(column, to) == [column |-> column, to |-> to, rule |-> "NO ACTION"]

\* The operations.  Wide, Table and Indexed stand for create_table with the
\* create_index calls that follow it: Wide names the indexed columns and the
\* plain ones some other operation mentions, Table has no such plain column,
\* and Indexed has an index on every key column and nowhere else.
Wide(table, refs, indexed, plain) ==
  [op |-> "table", table |-> table, refs |-> refs, indexed |-> indexed, plain |-> plain]
Table(table, refs, indexed) == Wide(table, refs, indexed, {})
Indexed(table, refs) == Table(table, refs, {r.column : r \in refs})
DropTable(table, indexed) == [op |-> "drop", table |-> table, columns |-> indexed]
AddIndex(table, columns) == [op |-> "index", table |-> table, columns |-> columns]
DropIndex(table, columns) == [op |-> "unindex", table |-> table, columns |-> columns]
AddColumns(table, columns) == [op |-> "add", table |-> table, columns |-> columns]
DropColumns(table, columns) == [op |-> "remove", table |-> table, columns |-> columns]
AddKey(table, ref) == [op |-> "key", table |-> table, ref |-> ref]
DropKey(table, column) == [op |-> "unkey", table |-> table, column |-> column]
AddSpace(space) == [op |-> "space", table |-> space]
DropSpace(space) == [op |-> "unspace", table |-> space]
\* An UPDATE that fills one column from another where it is not null.
Copy(table, from, to) == [op |-> "copy", table |-> table, from |-> from, to |-> to]

-----------------------------------------------------------------------------
\* A database: its schema and, of its rows, the cells the scripts move.  A cell
\* is <<table, column, row, value>>; the id of a row is the row itself.
EmptyDatabase ==
  [spaces |-> {Public}, tables |-> {}, columns |-> {}, keys |-> {}, indexes |-> {},
   cells |-> {}, ok |-> TRUE]

Key(table, ref) == <<table, ref.column, ref.to, ref.rule>>
Pairs(table, columns) == {table} \X columns
Without(set, table) == {x \in set : x[1] # table}
Off(set, pairs) == {x \in set : <<x[1], x[2]>> \notin pairs}

\* The row a cell of a key column refers to is there.
IdCell(table, row) == <<table, "id", row, row>>
Resolves(base, ref, cell) == IdCell(ref.to, cell[4]) \in base.cells

\* What PostgreSQL (or alembic, for an unnamed constraint) needs to run o.
Runs(base, o) ==
  LET t == o.table
  IN \/ /\ o.op = "table" /\ t \notin base.tables /\ SpaceOf(t) \in base.spaces
        /\ \A r \in o.refs : r.to \in base.tables \cup {t}
     \/ /\ o.op = "drop" /\ t \in base.tables /\ Pairs(t, o.columns) \subseteq base.indexes
        /\ \A k \in base.keys : k[3] = t => k[1] = t
     \/ /\ o.op = "index" /\ Pairs(t, o.columns) \subseteq base.columns \ base.indexes
     \/ /\ o.op = "unindex" /\ Pairs(t, o.columns) \subseteq base.indexes
     \/ /\ o.op = "add" /\ t \in base.tables /\ Pairs(t, o.columns) \cap base.columns = {}
     \/ /\ o.op = "remove" /\ Pairs(t, o.columns) \subseteq base.columns
     \/ /\ o.op = "key" /\ o.ref.to \in base.tables /\ <<t, o.ref.column>> \in base.columns
        /\ \A k \in base.keys : <<k[1], k[2]>> # <<t, o.ref.column>>
        /\ \A c \in base.cells : <<c[1], c[2]>> = <<t, o.ref.column>> => Resolves(base, o.ref, c)
     \/ /\ o.op = "unkey" /\ \E k \in base.keys : <<k[1], k[2]>> = <<t, o.column>>
     \/ /\ o.op = "space" /\ t \notin base.spaces
     \/ /\ o.op = "unspace" /\ t \in base.spaces /\ \A u \in base.tables : SpaceOf(u) # t
     \/ /\ o.op = "copy" /\ {<<t, o.from>>, <<t, o.to>>} \subseteq base.columns

\* A dropped column takes its key, its index and its cells with it.
Effect(base, o) ==
  LET t == o.table
      keyed == {r.column : r \in o.refs}
      copied == {<<t, o.to, c[3], c[4]>> : c \in {d \in base.cells : <<d[1], d[2]>> = <<t, o.from>>}}
      gone == Pairs(t, o.columns)
  IN CASE o.op = "table" ->
            [base EXCEPT !.tables = @ \cup {t}, !.indexes = @ \cup Pairs(t, o.indexed),
                       !.columns = @ \cup Pairs(t, keyed \cup o.indexed \cup o.plain),
                       !.keys = @ \cup {Key(t, r) : r \in o.refs}]
       [] o.op = "drop" ->
            [base EXCEPT !.tables = @ \ {t}, !.columns = Without(@, t), !.keys = Without(@, t),
                       !.indexes = Without(@, t), !.cells = Without(@, t)]
       [] o.op = "index" -> [base EXCEPT !.indexes = @ \cup gone]
       [] o.op = "unindex" -> [base EXCEPT !.indexes = @ \ gone]
       [] o.op = "add" -> [base EXCEPT !.columns = @ \cup gone]
       [] o.op = "remove" ->
            [base EXCEPT !.columns = @ \ gone, !.indexes = @ \ gone,
                       !.keys = Off(@, gone), !.cells = Off(@, gone)]
       [] o.op = "key" -> [base EXCEPT !.keys = @ \cup {Key(t, o.ref)}]
       [] o.op = "unkey" -> [base EXCEPT !.keys = Off(@, {<<t, o.column>>})]
       [] o.op = "space" -> [base EXCEPT !.spaces = @ \cup {t}]
       [] o.op = "unspace" -> [base EXCEPT !.spaces = @ \ {t}]
       [] o.op = "copy" -> [base EXCEPT !.cells = @ \cup copied]

\* Mutant: the UPDATE goes over a connection of its own and is not committed.
RunOp_Elsewhere(base, o) ==
  IF o.op = "copy" THEN base
  ELSE IF base.ok /\ Runs(base, o) THEN Effect(base, o) ELSE [base EXCEPT !.ok = FALSE]
\* Running a script: the first operation that cannot run stops it.
RunOp(base, o) == IF base.ok /\ Runs(base, o) THEN Effect(base, o) ELSE [base EXCEPT !.ok = FALSE]
After(base, script) ==
  LET after[n \in 0..Len(script)] == IF n = 0 THEN base ELSE RunOp(after[n - 1], script[n])
  IN after
RunScript(base, script) == IF base.ok THEN After(base, script)[Len(script)] ELSE base
=============================================================================
