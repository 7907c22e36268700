-------------------------- MODULE ProjectTransfer ---------------------------
(***************************************************************************)
(* A project is exported to a file and the file imported as a new project  *)
(* (project_transfer_manager.py).  The export reads one kind of row after  *)
(* the other, each with a query of its own, while users go on; the import  *)
(* makes new rows, with dictionaries from the old ids to the new ones, in  *)
(* one transaction, and leaves the embeddings to a thread that waits for   *)
(* the tokenization.                                                       *)
(***************************************************************************)
EXTENDS Naturals, Sequences, FiniteSets, Functions

CONSTANTS OptionSets,   \* the export options a user may choose
          MaxEdits,     \* bound on edits of the project while it is exported
          MaxFaults     \* bound on calls that raise and stops of the gateway

VARIABLES
  project, finished,   \* rows of the exported project; which embeddings are finished
  options, legacy,     \* export options; the file is of an older version
  reading, dump,       \* number of reads that are done, and the rows they got
  touched,             \* history: records added or deleted during the export
  place, ids, renamed, \* import_file: next section, ids and embedding names known
  session, users,      \* rows and users of the open transaction
  rows,                \* committed rows of the new project
  task,                \* state of the upload task
  post, tokenization,  \* the thread after the import, and the task it waits for
  served,              \* embeddings the thread had uploaded or made anew
  refused,             \* history: a section of import_file raised by itself
  edits, faults
sourceVars == <<project, finished, touched, edits>>
exportVars == <<options, legacy, reading, dump>>
importVars == <<place, ids, renamed, session, users, rows, task, refused>>
afterVars == <<post, tokenization, served>>
vars == <<sourceVars, exportVars, importVars, afterVars, faults>>

\* A row: its id <<kind, number>>, and the columns that hold ids of other rows or the
\* names by which the program finds embeddings.
Row(kind, n, refs) == [id |-> <<kind, n>>, refs |-> refs]
Kind(r) == r.id[1]
New(id) == <<"new", id>>
Renamed(name) == <<"renamed", name>>
Name(n) == <<"name of embedding", n>>
Language == <<"tokenizer", 1>>
Member == <<"user", 1>>
Stranger == <<"user", 2>>     \* not a user of this installation

\* A record with all that hangs on it, and the rest of a project.
RecordRows(n) == {
  Row("record", n, {}),
  Row("token_statistics", n, {<<"record_id", <<"record", n>> >>, <<"attribute_id", <<"attribute", 1>> >>}),
  Row("tensor", n, {<<"record_id", <<"record", n>> >>, <<"embedding_id", <<"embedding", 1>> >>}),
  Row("slice_record", n, {<<"record_id", <<"record", n>> >>, <<"data_slice_id", <<"slice", 1>> >>}),
  Row("association", n, {<<"record_id", <<"record", n>> >>, <<"labeling_task_label_id", <<"label", 1>> >>,
                         <<"source_id", <<"source", 1>> >>, <<"created_by", Stranger>>,
                         <<"weak_supervision_id", <<"weak_supervision", 1>> >>}),
  Row("token", n, {<<"record_label_association_id", <<"association", n>> >>})}
Commented == {"labeling_task", "attribute", "label", "slice", "record", "embedding", "source",
              "knowledge_base"}
slice_columns == {"filter_data", "count_sql", "filter_raw"}
ProjectRows == RecordRows(1) \cup {
  Row("project", 1, {<<"tokenizer", Language>>}),
  Row("attribute", 1, {}),
  Row("labeling_task", 1, {<<"attribute_id", <<"attribute", 1>> >>}),
  Row("label", 1, {<<"labeling_task_id", <<"labeling_task", 1>> >>}),
  Row("embedding", 1, {<<"attribute_id", <<"attribute", 1>> >>, <<"name", Name(1)>>}),
  Row("embedding", 2, {<<"attribute_id", <<"attribute", 1>> >>, <<"name", Name(2)>>}),
  Row("source", 1, {<<"labeling_task_id", <<"labeling_task", 1>> >>, <<"source_code", Name(1)>>}),
  Row("source", 2, {<<"labeling_task_id", <<"labeling_task", 1>> >>, <<"source_code", <<"slice", 1>> >>}),
  Row("payload", 1, {<<"source_id", <<"source", 1>> >>}),
  Row("statistics", 1, {<<"source_id", <<"source", 1>> >>, <<"labeling_task_label_id", <<"label", 1>> >>}),
  Row("weak_supervision", 1, {<<"created_by", Member>>}),
  Row("slice", 1, {<<"created_by", Member>>, <<"info", Name(1)>>, <<"count_sql", <<"project", 1>> >>} \cup
                  (slice_columns \X {<<k, 1>> : k \in {"attribute", "labeling_task", "label", "source", "record"}})),
  Row("knowledge_base", 1, {}),
  Row("term", 1, {<<"knowledge_base_id", <<"knowledge_base", 1>> >>})}
  \cup {Row("comment", k, {<<"xfkey", <<k, 1>> >>, <<"created_by", Stranger>>}) : k \in Commented}
\* A project whose first records are yet to come: it has no tokenizer.
NewProject == Row("project", 2, {})

-----------------------------------------------------------------------------
(* get_project_export_dump *)

\* The reads in their order, and the options each of them needs.
basic_project_data ==
  {"attribute", "labeling_task", "label", "slice", "slice_record"} \X {{"basic project data"}}
records_data ==
  {<<"record", {"records"}>>, <<"token_statistics", {"records", "record attribute token statistics"}>>,
   <<"embedding", {"records", "embeddings"}>>, <<"tensor", {"records", "embeddings", "embedding tensors"}>>}
  \cup ({"association", "token", "weak_supervision"} \X {{"records", "record label associations"}})
information_sources_data ==
  {<<"source", {"information sources"}>>, <<"statistics", {"information sources"}>>,
   <<"payload", {"information sources", "information sources payloads"}>>}
knowledge_bases_data == {"knowledge_base", "term"} \X {{"knowledge bases"}}
project_details_data == {<<"project", {}>>}
Needs(kind) ==
  CHOOSE o \in SUBSET (UNION OptionSets) :
    <<kind, o>> \in project_details_data \cup basic_project_data \cup records_data \cup information_sources_data
                    \cup knowledge_bases_data
ReadOrder == <<"project", "attribute", "labeling_task", "label", "slice", "slice_record", "record",
               "token_statistics", "embedding", "tensor", "association", "token", "weak_supervision",
               "source", "statistics", "payload", "knowledge_base", "term", "comment">>

\* Comments on the basic data are read whether it is exported or not, others if
\* it is.  Embeddings are exported if they are finished, tensors always.
Exported(r, chosen) ==
  IF Kind(r) = "comment"
    THEN /\ "comment data" \in chosen
         /\ r.id[2] \in {"record", "embedding", "source", "knowledge_base"} => Needs(r.id[2]) \subseteq chosen
  ELSE Needs(Kind(r)) \subseteq chosen /\ (Kind(r) = "embedding" => r.id[2] \in finished)

\* The columns with an id or a name that are written to the file.
written_entities == [
  project |-> {"tokenizer"}, attribute |-> {}, labeling_task |-> {"attribute_id"}, label |-> {"labeling_task_id"}, record |-> {},
  source |-> {"source_code", "labeling_task_id"},
  association |-> {"source_id", "record_id", "labeling_task_label_id", "created_by", "weak_supervision_id"},
  weak_supervision |-> {"created_by"}, knowledge_base |-> {}, embedding |-> {"attribute_id", "name"},
  slice |-> {"created_by", "info"} \cup slice_columns, slice_record |-> {"data_slice_id", "record_id"},
  comment |-> {"xfkey", "created_by"}]
written_joins == [
  token |-> {"record_label_association_id"}, payload |-> {"source_id"},
  statistics |-> {"source_id", "labeling_task_label_id"}, token_statistics |-> {"record_id", "attribute_id"},
  term |-> {"knowledge_base_id"}, tensor |-> {"embedding_id", "record_id"}]
Written(r) ==
  [r EXCEPT !.refs = {f \in @ : f[1] \in IF Kind(r) \in DOMAIN written_joins THEN written_joins[Kind(r)]
                                        ELSE written_entities[Kind(r)]}]
ReadNext ==
  /\ reading < Len(ReadOrder) /\ reading' = reading + 1
  /\ dump' = dump \cup {Written(r) : r \in {x \in project : Kind(x) = ReadOrder[reading + 1] /\ Exported(x, options)}}
  /\ UNCHANGED <<sourceVars, options, legacy, importVars, afterVars, faults>>

\* Meanwhile: a record is imported and labelled, one is deleted with all that
\* hangs on it, and an embedding is recreated, or was.
Touch(n, newRows) ==
  /\ reading < Len(ReadOrder) /\ edits < MaxEdits /\ edits' = edits + 1
  /\ project' = newRows
  /\ touched' = IF reading > 0 THEN touched \cup {<<"record", n>>} ELSE touched
AddRecord ==
  /\ NewProject \notin project /\ Row("record", 2, {}) \notin project
  /\ Touch(2, project \cup RecordRows(2))
  /\ UNCHANGED <<finished, exportVars, importVars, afterVars, faults>>
DeleteRecord(n) ==
  /\ Row("record", n, {}) \in project
  /\ Touch(n, (project \ RecordRows(n)) \ {r \in project : Kind(r) = "comment" /\ r.id[2] = "record" /\ n = 1})
  /\ UNCHANGED <<finished, exportVars, importVars, afterVars, faults>>
Recreate(n) ==
  /\ NewProject \notin project
  /\ reading < Len(ReadOrder) /\ edits < MaxEdits /\ edits' = edits + 1
  /\ finished' = IF n \in finished THEN finished \ {n} ELSE finished \cup {n}
  /\ UNCHANGED <<project, touched, exportVars, importVars, afterVars, faults>>

-----------------------------------------------------------------------------
(* import_file.  A section makes the rows of one kind; refs are the columns   *)
(* it carries over.                                                           *)

Section(kind, refs) == [kind |-> kind, refs |-> refs]
project_details == Section("project", {"tokenizer"})
attributes == Section("attribute", {})
labeling_tasks == Section("labeling_task", {"attribute_id"})
labeling_task_labels == Section("label", {"labeling_task_id"})
records == Section("record", {})
token_statistics == Section("token_statistics", {"record_id", "attribute_id"})
embeddings == Section("embedding", {"attribute_id", "name"})
embedding_tensors == Section("tensor", {"record_id", "embedding_id"})
information_sources == Section("source", {"labeling_task_id", "source_code"})
used_users == Section("user", {})
data_slices == Section("slice", {"created_by", "info"} \cup slice_columns)
information_source_payloads == Section("payload", {"source_id"})
information_source_statistics == Section("statistics", {"source_id", "labeling_task_label_id"})
data_slice_record_association == Section("slice_record", {"data_slice_id", "record_id"})
weak_supervision_tasks == Section("weak_supervision", {"created_by"})
record_label_associations ==
  Section("association", {"record_id", "labeling_task_label_id", "source_id", "weak_supervision_id", "created_by"})
record_label_association_tokens == Section("token", {"record_label_association_id"})
knowledge_bases == Section("knowledge_base", {})
terms == Section("term", {"knowledge_base_id"})
comments == Section("comment", {"xfkey", "created_by"})
\* Mutant: embeddings are looked up before they are there.
SectionsTensorsFirst == <<project_details, attributes, labeling_tasks, labeling_task_labels, records, token_statistics,
  embedding_tensors, embeddings, information_sources, used_users, data_slices, information_source_payloads,
  information_source_statistics, data_slice_record_association, weak_supervision_tasks,
  record_label_associations, record_label_association_tokens, knowledge_bases, terms, comments>>
Sections == <<project_details, attributes, labeling_tasks, labeling_task_labels, records, token_statistics, embeddings,
  embedding_tensors, information_sources, used_users, data_slices, information_source_payloads,
  information_source_statistics, data_slice_record_association, weak_supervision_tasks,
  record_label_associations, record_label_association_tokens, knowledge_bases, terms, comments>>

Of(kind) == {r \in dump : Kind(r) = kind}
\* The filter of a slice is text in which every known old id is replaced.
replace_by_mappings(id) == IF id \in ids THEN New(id) ELSE id
\* What a column of a new row holds: users, the tokenizer and the info of a slice are
\* kept, embeddings of old files are renamed, also in the code of sources (any id there
\* stays), any other id is looked up, None if unknown.
Carried(c, id) ==
  IF c \in {"created_by", "tokenizer", "info"} THEN {id}
  ELSE IF c \in slice_columns THEN {replace_by_mappings(id)}
  ELSE IF c = "name" THEN {IF legacy THEN Renamed(id) ELSE id}
  ELSE IF c = "source_code" THEN {IF id \in renamed THEN Renamed(id) ELSE id}
  ELSE {New(x) : x \in {id} \cap ids}
Made(r, refs) ==
  [id |-> New(r.id),
   refs |-> UNION {{ref[1]} \X Carried(ref[1], ref[2]) : ref \in {f \in r.refs : f[1] \in refs}}]
\* A comment on what was not imported is left out, tensors without embeddings too.
Skipped(r) ==
  \/ Kind(r) = "comment" /\ \E ref \in r.refs : ref[1] = "xfkey" /\ ref[2] \notin ids
  \/ Kind(r) = "tensor" /\ Of("embedding") = {}
Held(column, set) == {ref[2] : ref \in UNION {{f \in r.refs : f[1] = column} : r \in set}}
Creators(set) == Held("created_by", set)
WithUsers == Of("slice") \cup Of("association") \cup Of("weak_supervision") \cup Of("comment")

Importing == place \in 1..Len(Sections)
\* The tokenizer is cut to its language; in an old file the attribute of an embedding
\* is in its name only, and the name must be one of the imported attributes; a user
\* must exist.
Raises(s) ==
  \/ s.kind = "project" /\ Held("tokenizer", Of("project")) = {}
  \/ s.kind = "embedding" /\ legacy /\ Of("embedding") # {} /\ <<"attribute", 1>> \notin ids
  \/ "created_by" \in s.refs /\ ~(Creators(Of(s.kind)) \subseteq users)

used_user_ids(s) == IF s.kind = "user" THEN Creators(WithUsers) ELSE {}

import_file ==
  /\ Importing
  /\ \E s \in {Sections[place]} :
       /\ ~Raises(s)
       /\ session' = session \cup {Made(r, s.refs) : r \in {x \in Of(s.kind) : ~Skipped(x)}}
       /\ ids' = ids \cup {r.id : r \in Of(s.kind)}
       /\ renamed' = IF s.kind = "embedding" /\ legacy THEN Held("name", Of("embedding")) ELSE renamed
       /\ users' = users \cup used_user_ids(s)
  /\ place' = place + 1
  /\ UNCHANGED <<sourceVars, exportVars, rows, task, refused, afterVars, faults>>

import_file_by_task ==
  /\ place = 0 /\ reading = Len(ReadOrder) /\ place' = 1 /\ task' = "IN_PROGRESS"
  /\ UNCHANGED <<sourceVars, exportVars, ids, renamed, session, users, rows, refused, afterVars, faults>>

\* The commit of import_file, and the thread it starts.
CommitImport ==
  /\ place = Len(Sections) + 1 /\ place' = place + 1
  /\ rows' = session /\ post' = "sleep"
  /\ UNCHANGED <<sourceVars, exportVars, ids, renamed, session, users, task, refused, tokenization, served, faults>>
FinishTask ==
  /\ place = Len(Sections) + 2 /\ place' = place + 1 /\ task' = "DONE"
  /\ UNCHANGED <<sourceVars, exportVars, ids, renamed, session, users, rows, refused, afterVars, faults>>
init_file_import ==
  /\ place = Len(Sections) + 3 /\ place' = place + 1 /\ tokenization' = "queued"
  /\ UNCHANGED <<sourceVars, exportVars, ids, renamed, session, users, rows, task, refused, post, served, faults>>

\* file_import_error_handling: the open transaction is rolled back.
\* Mutant: it is not, and the commit of the state takes it along.
HandleError_no_rollback ==
  /\ rows' = session /\ task' = "ERROR" /\ place' = Len(Sections) + 4
  /\ UNCHANGED <<sourceVars, exportVars, ids, renamed, session, users, afterVars>>
HandleError ==
  /\ session' = rows /\ users' = IF rows = {} THEN {Member} ELSE users
  /\ task' = "ERROR" /\ place' = Len(Sections) + 4
  /\ UNCHANGED <<sourceVars, exportVars, ids, renamed, rows, afterVars>>
SectionRaises ==
  /\ Importing /\ Raises(Sections[place]) /\ HandleError /\ refused' = TRUE /\ UNCHANGED faults
CallRaises ==
  /\ place \in 1..(Len(Sections) + 3) /\ faults < MaxFaults /\ faults' = faults + 1
  /\ HandleError /\ UNCHANGED refused
\* A stop ends the import and the thread; the transaction is gone.
Stop ==
  /\ place \in 1..(Len(Sections) + 4) /\ post # "stopped" /\ faults < MaxFaults /\ faults' = faults + 1
  /\ session' = rows /\ place' = Len(Sections) + 4 /\ post' = "stopped"
  /\ UNCHANGED <<sourceVars, exportVars, ids, renamed, users, rows, task, refused, tokenization, served>>

\* The thread sleeps and looks for a tokenization every five seconds; then it has the
\* tensors of the file uploaded or the embeddings made anew, one after the other.
TokenizationEnds ==
  /\ tokenization = "queued" /\ tokenization' = "done"
  /\ UNCHANGED <<sourceVars, exportVars, importVars, post, served, faults>>
WaitForTokenization ==
  /\ post = "sleep" /\ tokenization # "queued" /\ post' = "serving"
  /\ UNCHANGED <<sourceVars, exportVars, importVars, tokenization, served, faults>>
\* Mutant: it asks for the tensors of the old ids.
to_serve_old_ids ==
  IF Of("tensor") = {} THEN {r.id : r \in {x \in rows : x.id[2][1] = "embedding"}} ELSE {r.id : r \in Of("embedding")}
to_serve ==
  IF Of("tensor") = {} THEN {r.id : r \in {x \in rows : x.id[2][1] = "embedding"}} ELSE {New(r.id) : r \in Of("embedding")}
post_processing_import_threaded ==
  /\ post = "serving"
  /\ \/ \E id \in to_serve \ served : served' = served \cup {id} /\ UNCHANGED post
     \/ to_serve \subseteq served /\ post' = "over" /\ UNCHANGED served
  /\ UNCHANGED <<sourceVars, exportVars, importVars, tokenization, faults>>
\* No call of the thread has a handler.
ThreadRaises ==
  /\ post \in {"sleep", "serving"} /\ faults < MaxFaults /\ faults' = faults + 1 /\ post' = "raised"
  /\ UNCHANGED <<sourceVars, exportVars, importVars, tokenization, served>>

TransferInit ==
  /\ project \in {ProjectRows, {NewProject}} /\ finished \in SUBSET {1, 2}
  /\ options \in OptionSets /\ legacy \in BOOLEAN
  /\ reading = 0 /\ dump = {} /\ touched = {} /\ place = 0 /\ ids = {} /\ renamed = {}
  /\ session = {} /\ users = {Member} /\ rows = {} /\ task = "CREATED" /\ post = "none"
  /\ tokenization = "none" /\ served = {} /\ refused = FALSE /\ edits = 0 /\ faults = 0
ImportStep == import_file \/ CommitImport \/ FinishTask \/ init_file_import
ThreadStep == WaitForTokenization \/ post_processing_import_threaded
TransferNext ==
  \/ ReadNext \/ AddRecord \/ \E n \in {1, 2} : Recreate(n) \/ DeleteRecord(n)
  \/ import_file_by_task \/ ImportStep \/ SectionRaises \/ CallRaises \/ Stop
  \/ TokenizationEnds \/ ThreadStep \/ ThreadRaises
\* The request that imports goes on, and so do the thread and the tokenizer.
TransferFairness == WF_vars(ImportStep) /\ WF_vars(TokenizationEnds) /\ WF_vars(ThreadStep)

-----------------------------------------------------------------------------
\* Every reference of an exported row is a reference to the imported counterpart
\* (a user stays, a name is that of the imported embedding), unless what it refers
\* to is not in the file: it was not asked for, the record was deleted or
\* came during the export, or the embedding was not finished.  Two are left as the
\* file has them: the slice in the code of a crowd labeler and the embedding in the
\* info of a slice.
AsInFile(ref) == ref[1] \in {"tokenizer", "info"} \/ (ref[1] = "source_code" /\ ref[2][1] = "slice")
Restores(ref, new) ==
  IF ref[1] = "created_by" THEN new = ref[2] /\ new \in users
  ELSE IF AsInFile(ref) THEN new = ref[2]
  ELSE IF ref[1] \in {"name", "source_code"}
    THEN \E e \in rows : e.id = New(<<"embedding", ref[2][2]>>) /\ <<"name", new>> \in e.refs
  ELSE new = New(ref[2]) /\ \E e \in rows : e.id = new
NotThere(id) ==
  /\ id[1] \in Range(ReadOrder) /\ id \notin {r.id : r \in dump}
  /\ \/ ~(Needs(id[1]) \subseteq options)
     \/ id[1] = "embedding" /\ (id[2] \notin finished \/ edits > 0)
     \/ id[1] \in {"record", "association"} /\ <<"record", id[2]>> \in touched
     \/ id \notin {r.id : r \in project}
Absent(id) == NotThere(id) \/ (id = Name(id[2]) /\ NotThere(<<"embedding", id[2]>>))
ReferencesRestored ==
  rows # {} => \A r \in {x \in ProjectRows \cup RecordRows(2) : x.id \in {d.id : d \in dump}} :
    \/ Kind(r) \in {"comment", "tensor"} /\ \E ref \in r.refs : Absent(ref[2])
    \/ \E x \in rows : /\ x.id = New(r.id)
                       /\ \A ref \in r.refs : \/ Absent(ref[2])
                                               \/ \E y \in x.refs : y[1] = ref[1] /\ Restores(ref, y[2])

\* A section raises by itself only on the file of a project without a tokenizer, or
\* on an old file that has embeddings without their attributes.  The new project has
\* all rows of the file or none, and a task that ended in an error left none unless
\* the error came after the commit.
ImportAllOrNothing ==
  /\ refused => Held("tokenizer", Of("project")) = {} \/ (legacy /\ Of("attribute") = {})
  /\ rows # {} => Cardinality(rows) = Cardinality({r \in dump : ~Skipped(r)})
  /\ task = "DONE" => rows = session
  /\ task = "ERROR" /\ rows # {} => post # "none"

\* Every imported embedding has its turn in the thread, with the tensors of the file
\* or new ones, unless the gateway stops or a call of the thread raises.
EmbeddingsServed ==
  \A r \in ProjectRows : Kind(r) = "embedding" =>
    ((\E x \in rows : x.id = New(r.id)) ~> (New(r.id) \in served \/ post \in {"stopped", "raised"}))
=============================================================================
