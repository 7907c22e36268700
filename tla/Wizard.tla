------------------------------- MODULE Wizard -------------------------------
(***************************************************************************)
(* The setup of a cognition project (cognition/import_wizard.py): three    *)
(* refinery projects get records, attributes, labeling tasks and           *)
(* embeddings, and the task master a list of tasks to run in order, the    *)
(* last of which ends the setup.  A thread works on it, and another when   *)
(* the user tries again.  The records are posted to the gateway itself:    *)
(* they go to the object store, whose notification imports them later.     *)
(***************************************************************************)
EXTENDS Naturals, Sequences, Bags, Functions

CONSTANTS Wizards,          \* setups that may be started
          EmptyGroups,      \* labeling tasks for whose group there are no bricks
          MaxWizardFaults   \* bound on calls that raise and stops of the gateway

VARIABLES
  state,        \* of the cognition project
  position, list,  \* of each wizard: its next step, and the tasks it gathered
  seen,         \* what __create_task_and_labels_for knows: {} or one <<is it there, labels>>
  gaveUp,       \* wizards that ended early
  posted,       \* records on their way to a project
  columns,      \* attributes of the projects: <<project, name, who made it>>
  tasks, labels,  \* bags of labeling tasks and of labels, by their names
  docbins,      \* tokenization of the projects
  ran, done,    \* lists the task master worked off, and their entries
  raced,        \* history: a labeling task changed after it was read
  late, lost,   \* history: projects whose records came after they were needed, or not
  wizardFaults
wizardRows == <<columns, tasks, labels>>
threadVars == <<position, list, seen, gaveUp>>
outsideVars == <<posted, docbins, ran, done>>
historyVars == <<raced, late, lost>>
wizardVars == <<state, threadVars, outsideVars, wizardRows, historyVars, wizardFaults>>

Projects == {"REFERENCE", "QUESTION", "RELEVANCE"}
\* An attribute is told apart by who made it: a wizard, or nobody of them.
Given == "given"
Entry(type, p, name, by) == [type |-> type, project |-> p, name |-> name, by |-> by]

-----------------------------------------------------------------------------
(* constants.py.  Labels are told apart by their place; bricks are heuristics     *)
(* of a group that another service knows.                                      *)

Attribute(name) == [kind |-> "attribute", name |-> name]
Task(name, n, bricks) == [kind |-> "task", name |-> name, labels |-> 1..n, bricks |-> bricks]
Embedding(attribute, outliers) == [kind |-> "embedding", name |-> attribute, outliers |-> outliers]

REFERENCE == [
  attributes |-> <<Attribute("Language"), Attribute("reference_chunks")>>,
  labeling_tasks |-> <<Task("Reference Quality", 2, TRUE), Task("Reference Complexity", 3, TRUE),
                       Task("Personal Identifiable Information", 10, TRUE)>>,
  embeddings |-> <<Embedding("reference", TRUE), Embedding("reference_chunks", TRUE)>>]
QUESTION == [
  attributes |-> <<Attribute("search_queries")>>,
  labeling_tasks |-> <<Task("Communication Style", 4, TRUE), Task("Question Type", 3, TRUE),
                       Task("Question Quality", 2, FALSE), Task("Question Complexity", 3, TRUE)>>,
  embeddings |-> <<Embedding("question", FALSE)>>]
RELEVANCE == [
  attributes |-> <<>>,
  labeling_tasks |-> <<Task("Fact is relevant", 2, FALSE)>>,
  embeddings |-> <<Embedding("question", FALSE)>>]

\* What __finalize_setup_for does, in its order, ending with the weak supervision.
Supervise == <<[kind |-> "weak_supervision", name |-> ""]>>
\* Mutant: the weak supervision before the heuristics.
finalize_setup_supervise_first(info) == info.attributes \o Supervise \o info.labeling_tasks \o info.embeddings
finalize_setup_for(info) == info.attributes \o info.labeling_tasks \o info.embeddings \o Supervise
In(p, steps) == [i \in DOMAIN steps |-> [project |-> p, step |-> steps[i]]]
\* The filters a user chose: an attribute with its values, and one that is named
\* like a labeling task that is there already.
qdrant_filter == <<Task("Country", 2, FALSE), Task("Question Quality", 3, FALSE)>>
Post == [kind |-> "post", name |-> ""]
Finish == [kind |-> "finish", name |-> ""]
Program ==
  In("QUESTION", <<Post>>) \o In("RELEVANCE", <<Post>>)
  \o In("REFERENCE", finalize_setup_for(REFERENCE)) \o In("QUESTION", finalize_setup_for(QUESTION))
  \o In("QUESTION", qdrant_filter) \o In("RELEVANCE", finalize_setup_for(RELEVANCE))
  \o In("REFERENCE", <<Finish>>)
\* At the end it asks for the tokenization of one project after the other.
Asked == <<"REFERENCE", "QUESTION", "RELEVANCE">>
Waiting == Len(Program) + 1
Ready == Waiting + Len(Asked)
Queued == Ready + 1

-----------------------------------------------------------------------------
At(w, kind) == position[w] \in DOMAIN Program /\ Program[position[w]].step.kind = kind
Advance(w, entries) ==
  /\ position' = [position EXCEPT ![w] = @ + 1] /\ list' = [list EXCEPT ![w] = @ \o entries]
  /\ seen' = [seen EXCEPT ![w] = {}] /\ UNCHANGED gaveUp
GiveUp(w) ==
  /\ gaveUp' = gaveUp \cup {w} /\ position' = [position EXCEPT ![w] = Queued] /\ UNCHANGED <<list, seen>>

\* Nothing keeps a second wizard from starting next to the first; the bound leaves
\* that out and has it start when the first gave up.  The import is there to race with.
prepare_and_finalize_setup(w) ==
  /\ position[w] = 0 /\ state # "deleted" /\ \A v \in Wizards : position[v] = 0 \/ v \in gaveUp
  /\ Advance(w, <<>>) /\ state' = "WIZARD_RUNNING"
  /\ UNCHANGED <<outsideVars, wizardRows, historyVars, wizardFaults>>

\* Too few references that can be asked about: the wizard ends, nothing else.
NotEnoughRecords(w) ==
  /\ position[w] = 1 /\ GiveUp(w) /\ UNCHANGED <<state, outsideVars, wizardRows, historyVars, wizardFaults>>
\* Nobody looks at the answer: records that were refused are lost.
post_to_refinery_project(w) ==
  /\ At(w, "post") /\ Advance(w, <<>>)
  /\ \E p \in {Program[position[w]].project} :
       \/ posted' = [posted EXCEPT ![p] = @ + 1] /\ UNCHANGED <<lost, wizardFaults>>
       \/ /\ wizardFaults < MaxWizardFaults /\ wizardFaults' = wizardFaults + 1
          /\ lost' = lost \cup {p} /\ UNCHANGED posted
  /\ UNCHANGED <<state, docbins, ran, done, wizardRows, raced, late>>

\* A new attribute, also next to one of the same name.
create_attribute_with(w) ==
  /\ At(w, "attribute")
  /\ \E p \in {Program[position[w]].project}, n \in {Program[position[w]].step.name} :
       /\ columns' = columns \cup {<<p, n, w>>}
       /\ Advance(w, <<Entry("ATTRIBUTE_CALCULATION", p, n, w)>>)
  /\ UNCHANGED <<state, outsideVars, tasks, labels, historyVars, wizardFaults>>

\* __create_task_and_labels_for reads the task and its labels, makes the task if it
\* did not find it, and then the labels that it did not find.
Current(p, n) == <<BagIn(<<p, n>>, tasks), {l[3] : l \in {x \in BagToSet(labels) : x[1] = p /\ x[2] = n}}>>
ReadTask(w) ==
  /\ At(w, "task") /\ seen[w] = {}
  /\ seen' = [seen EXCEPT ![w] = {Current(Program[position[w]].project, Program[position[w]].step.name)}]
  /\ UNCHANGED <<state, position, list, gaveUp, outsideVars, wizardRows, historyVars, wizardFaults>>
create_labeling_task(w) ==
  /\ At(w, "task")
  /\ \E p \in {Program[position[w]].project}, n \in {Program[position[w]].step.name}, found \in seen[w] :
       /\ ~found[1] /\ raced' = (raced \/ found # Current(p, n))
       /\ tasks' = tasks (+) SetToBag({<<p, n>>})
       /\ seen' = [seen EXCEPT ![w] = {<<TRUE, found[2]>>}]
  /\ UNCHANGED <<state, position, list, gaveUp, outsideVars, columns, labels, late, lost, wizardFaults>>
\* Mutant: the labels of a task that has some are taken to be complete.
missing_labels_none(wanted, found) == IF found = {} THEN wanted ELSE {}
missing_labels(wanted, found) == wanted \ found
create_task_and_labels_for(w) ==
  /\ At(w, "task")
  /\ \E p \in {Program[position[w]].project}, s \in {Program[position[w]].step}, found \in seen[w] :
       /\ found[1] /\ raced' = (raced \/ found # Current(p, s.name))
       /\ labels' = labels (+) SetToBag({p} \X {s.name} \X missing_labels(s.labels, found[2]))
       /\ Advance(w, IF s.bricks /\ s.name \notin EmptyGroups
                     THEN <<Entry("INFORMATION_SOURCE", p, s.name, w)>> ELSE <<>>)
  /\ UNCHANGED <<state, outsideVars, columns, tasks, late, lost, wizardFaults>>

\* It takes an attribute of that name, whichever there is: without one there is no
\* embedding, and nobody is told.
add_embedding(w) ==
  /\ At(w, "embedding")
  /\ \E p \in {Program[position[w]].project}, s \in {Program[position[w]].step} :
       LET named == {c \in columns : c[1] = p /\ c[2] = s.name} IN
       \/ \E c \in named :
            /\ Advance(w, <<Entry("EMBEDDING", p, s.name, c[3])>>
                          \o (IF s.outliers THEN <<Entry("CREATE_OUTLIER_SLICE", p, s.name, c[3])>> ELSE <<>>))
            /\ UNCHANGED late
       \/ named = {} /\ Advance(w, <<>>) /\ late' = late \cup {p}
  /\ UNCHANGED <<state, outsideVars, wizardRows, raced, lost, wizardFaults>>
add_weakly_supervise_all_valid(w) ==
  /\ At(w, "weak_supervision")
  /\ Advance(w, <<Entry("RUN_WEAK_SUPERVISION", Program[position[w]].project, "", w)>>)
  /\ UNCHANGED <<state, outsideVars, wizardRows, historyVars, wizardFaults>>
add_finish(w) ==
  /\ At(w, "finish") /\ Advance(w, <<Entry("FINISH_COGNITION_SETUP", "", "", w)>>)
  /\ UNCHANGED <<state, outsideVars, wizardRows, historyVars, wizardFaults>>

\* The loop at the end of __finalize_setup, and queue_task.
is_doc_bin_creation_running_or_queued(p) == docbins[p] = "queued"
\* A project that is at it sends the loop back to the first one.
AskTokenization(w) ==
  /\ position[w] \in Waiting..(Ready - 1)
  /\ \E p \in {Asked[position[w] - Waiting + 1]} :
       IF is_doc_bin_creation_running_or_queued(p)
         THEN position' = [position EXCEPT ![w] = Waiting] /\ UNCHANGED late
         ELSE /\ position' = [position EXCEPT ![w] = @ + 1]
              /\ late' = IF posted[p] > 0 THEN late \cup {p} ELSE late
  /\ UNCHANGED <<state, list, seen, gaveUp, outsideVars, wizardRows, raced, lost, wizardFaults>>
QueueList(w) ==
  /\ position[w] = Ready /\ Advance(w, <<>>)
  /\ UNCHANGED <<state, outsideVars, wizardRows, historyVars, wizardFaults>>

\* Any call raises, or the gateway stops, or the list is refused: what is committed
\* stays, and so does the state of the project.
WizardRaises(w) ==
  /\ position[w] \in 1..Ready /\ wizardFaults < MaxWizardFaults /\ wizardFaults' = wizardFaults + 1
  /\ GiveUp(w) /\ UNCHANGED <<state, outsideVars, wizardRows, historyVars>>

\* Outside: the posted records are imported (FileImport), their columns become
\* attributes, "__Fact is relevant" a labeling task with the label "Yes", and the
\* tokenization is queued; it ends; the task master works off a list in its order.
Imported(p) ==
  /\ posted[p] > 0 /\ posted' = [posted EXCEPT ![p] = @ - 1]
  /\ columns' = IF \E c \in columns : c[1] = p /\ c[2] = "question" THEN columns
                ELSE columns \cup {<<p, "question", Given>>}
  /\ \E t \in {<<p, "Fact is relevant">>} :
       IF p # "RELEVANCE" THEN UNCHANGED <<tasks, labels>>
       ELSE /\ tasks' = IF BagIn(t, tasks) THEN tasks ELSE tasks (+) SetToBag({t})
            /\ labels' = IF 1 \in Current(t[1], t[2])[2] THEN labels ELSE labels (+) SetToBag({t \o <<1>>})
ImportRecords(p) ==
  /\ Imported(p) /\ docbins' = [docbins EXCEPT ![p] = "queued"]
  /\ UNCHANGED <<state, threadVars, ran, done, historyVars, wizardFaults>>
\* An import that ends in ERROR is rolled back, or had committed its records and
\* never asks for their tokenization.
ImportRaises(p) ==
  /\ wizardFaults < MaxWizardFaults /\ wizardFaults' = wizardFaults + 1
  /\ \/ posted[p] > 0 /\ posted' = [posted EXCEPT ![p] = @ - 1] /\ UNCHANGED wizardRows
     \/ Imported(p)
  /\ lost' = lost \cup {p}
  /\ UNCHANGED <<state, threadVars, docbins, ran, done, raced, late>>
WizardTokenizationEnds(p) ==
  /\ docbins[p] = "queued" /\ docbins' = [docbins EXCEPT ![p] = "done"]
  /\ UNCHANGED <<state, threadVars, posted, ran, done, wizardRows, historyVars, wizardFaults>>
\* Mutant: the commit is forgotten.
finish_without_commit == state
finish_cognition_setup == IF state = "deleted" THEN state ELSE "DEVELOPMENT"
RunList(w) ==
  /\ position[w] = Queued /\ w \notin gaveUp \cup ran
  /\ ran' = ran \cup {w} /\ done' = done \cup Range(list[w])
  /\ state' = IF Entry("FINISH_COGNITION_SETUP", "", "", w) \in Range(list[w]) THEN finish_cognition_setup ELSE state
  /\ UNCHANGED <<threadVars, posted, docbins, wizardRows, historyVars, wizardFaults>>
DeleteCognitionProject ==
  /\ state = "WIZARD_RUNNING" /\ wizardFaults < MaxWizardFaults /\ wizardFaults' = wizardFaults + 1
  /\ state' = "deleted" /\ UNCHANGED <<threadVars, outsideVars, wizardRows, historyVars>>

\* The projects are made by another gateway; those of questions may have their
\* attributes from the start.
WizardInit ==
  /\ state = "CREATED" /\ position = [w \in Wizards |-> 0] /\ list = [w \in Wizards |-> <<>>]
  /\ seen = [w \in Wizards |-> {}] /\ gaveUp = {} /\ posted = [p \in Projects |-> 0]
  /\ \E prepared \in {{}, {<<"QUESTION", "question", Given>>, <<"RELEVANCE", "question", Given>>}} :
       columns = {<<"REFERENCE", "reference", Given>>} \cup prepared
  /\ tasks = EmptyBag /\ labels = EmptyBag
  /\ \E t \in {"queued", "done"} : docbins = [p \in Projects |-> IF p = "REFERENCE" THEN t ELSE "none"]
  /\ ran = {} /\ done = {} /\ raced = FALSE /\ late = {} /\ lost = {} /\ wizardFaults = 0
WizardStep(w) ==
  \/ post_to_refinery_project(w) \/ create_attribute_with(w) \/ ReadTask(w)
  \/ create_labeling_task(w) \/ create_task_and_labels_for(w) \/ add_embedding(w)
  \/ add_weakly_supervise_all_valid(w) \/ add_finish(w) \/ AskTokenization(w) \/ QueueList(w)
WizardNext ==
  \/ \E w \in Wizards : \/ prepare_and_finalize_setup(w) \/ WizardStep(w) \/ NotEnoughRecords(w)
                        \/ WizardRaises(w) \/ RunList(w)
  \/ \E p \in Projects : ImportRecords(p) \/ ImportRaises(p) \/ WizardTokenizationEnds(p)
  \/ DeleteCognitionProject
\* The threads go on, the tokenizer and the task master work off what they have.
WizardFairness ==
  /\ WF_wizardVars(\E w \in Wizards : WizardStep(w)) /\ WF_wizardVars(\E w \in Wizards : RunList(w))
  /\ WF_wizardVars(\E p \in Projects : WizardTokenizationEnds(p))

-----------------------------------------------------------------------------
\* Every entry comes after those whose result it uses: an embedding after the
\* calculation of its attribute, the outliers after their embedding, the weak
\* supervision after the heuristics of its project, the end after everything.  Only
\* an embedding may use what is not in the list: an attribute that came with the
\* records, or one of that name that is left, uncalculated, from a wizard that gave up.
Inputs(e, all) ==
  IF e.type = "EMBEDDING" THEN {Entry("ATTRIBUTE_CALCULATION", e.project, e.name, e.by)}
  ELSE IF e.type = "CREATE_OUTLIER_SLICE" THEN {Entry("EMBEDDING", e.project, e.name, e.by)}
  ELSE IF e.type = "RUN_WEAK_SUPERVISION"
    THEN {x \in all : x.type = "INFORMATION_SOURCE" /\ x.project = e.project}
  ELSE IF e.type = "FINISH_COGNITION_SETUP" THEN all \ {e}
  ELSE {}
EntriesFindTheirInputs ==
  \A w \in Wizards : \A i \in DOMAIN list[w] :
    \/ Inputs(list[w][i], Range(list[w])) \subseteq {list[w][j] : j \in 1..(i - 1)}
    \/ list[w][i].type = "EMBEDDING" /\ list[w][i].by \in {Given} \cup (gaveUp \ {w})

\* A setup that ended made all that constants.py asks for, on tokenized records and
\* with every label once, even after setups that failed half way.  It excuses projects
\* whose records were lost or late, with embeddings of attributes that come with the
\* records, and labels made twice where two writers met at one labeling task.
SetupComplete ==
  \A w \in ran :
    /\ \A p \in Projects \ (late \cup lost) : docbins[p] = "done"
    /\ \A x \in Range(Program) :
         /\ x.step.kind = "attribute" => Entry("ATTRIBUTE_CALCULATION", x.project, x.step.name, w) \in done
         /\ x.step.kind = "embedding" =>
              \/ /\ x.project \in late
                 /\ \A y \in Range(Program) : y.project = x.project => y.step # Attribute(x.step.name)
              \/ \E c \in columns : /\ c[1] = x.project /\ c[2] = x.step.name
                                    /\ Entry("EMBEDDING", x.project, x.step.name, c[3]) \in done
         /\ x.step.kind = "task" => \A l \in x.step.labels :
              \E made \in {<<x.project, x.step.name, l>>} :
                BagIn(made, labels) /\ (labels[made] = 1 \/ (raced /\ labels[made] > 1))

\* A wizard brings the project to its end unless it gives up or the project goes.
SetupEnds == (state = "WIZARD_RUNNING") ~> (state \in {"DEVELOPMENT", "deleted"} \/ gaveUp # {})
=============================================================================
