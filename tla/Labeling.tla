------------------------------- MODULE Labeling -------------------------------
(***************************************************************************)
(* Crowd labels of one annotator in one classification task               *)
(* (`record_label_association/manager.py`): requests that set or delete a  *)
(* label commit in several steps, update the payload of the annotator's    *)
(* source, and start daemon threads that ask for new statistics through a  *)
(* debounced function and that remove doubled labels.                      *)
(*                                                                         *)
(* A label is named after the request that created it.                     *)
(***************************************************************************)
EXTENDS Debounce, Integers

CONSTANTS
  Records,      \* records of the annotator's slice
  NoRecord, NoPayload, \* not chosen yet, not found
  MaxFaults, MaxCrashes

\* Every request that sets a label makes one call of the debounced function.
Requests == Calls

ASSUME LabelingAssumption ==
  /\ IsFiniteSet(Calls) /\ IsFiniteSet(Records)
  /\ NoRecord \notin Records
  /\ NoPayload \notin Calls
  /\ MaxFaults \in Nat
  /\ MaxCrashes \in Nat

VARIABLES
  pc,         \* where the handler of a request stands
  kind,       \* what the request does
  on,         \* the record it is about
  labels,     \* labels in the database
  payloads,   \* payloads of the source, named after the request that created them
  progress,   \* labelled records a payload shows, of `Cardinality(Records)`
  finished,   \* payloads in state FINISHED
  found,      \* local: the payload the handler works on
  counted,    \* local: labelled records it has counted
  check,      \* daemon threads that look for doubled labels
  goldMet,    \* history: two requests for gold labels of one record overlapped
  countsMet,  \* history: two updates of the progress overlapped
  faults, crashes

labelVars == <<pc, kind, on, labels, payloads, progress, finished, found, counted,
               check, goldMet, countsMet, faults, crashes>>
vars == <<debounceVars, labelVars>>

Kinds == {"label", "gold", "delete"}
Places == {"idle", "replace", "create", "look", "count", "commit", "spawn", "done", "raised", "dead"}
Total == Cardinality(Records)

TypeOK ==
  /\ DebounceTypeOK
  /\ pc \in [Requests -> Places]
  /\ kind \in [Requests -> Kinds]
  /\ on \in [Requests -> Records \union {NoRecord}]
  /\ labels \subseteq Requests
  /\ payloads \subseteq Requests
  /\ progress \in [Requests -> 0..Total]
  /\ finished \subseteq payloads
  /\ found \in [Requests -> Requests \union {NoPayload}]
  /\ counted \in [Requests -> 0..Total]
  /\ check \subseteq Requests
  /\ goldMet \in BOOLEAN
  /\ countsMet \in BOOLEAN
  /\ faults \in 0..MaxFaults
  /\ crashes \in 0..MaxCrashes

Init ==
  /\ DebounceInit
  /\ pc = [r \in Requests |-> "idle"]
  /\ kind = [r \in Requests |-> "label"]
  /\ on = [r \in Requests |-> NoRecord]
  /\ labels = {}
  /\ payloads = {}
  /\ progress = [r \in Requests |-> 0]
  /\ finished = {}
  /\ found = [r \in Requests |-> NoPayload]
  /\ counted = [r \in Requests |-> 0]
  /\ check = {}
  /\ goldMet = FALSE
  /\ countsMet = FALSE
  /\ faults = 0
  /\ crashes = 0

LabelsOf(d, k) == {l \in labels : on[l] = d /\ kind[l] = k}
GoldUnderWay(d) ==
  {r \in Requests : kind[r] = "gold" /\ on[r] = d /\ pc[r] \in {"replace", "create"}}
Counting == {r \in Requests : pc[r] \in {"count", "commit"}}
LabeledRecords == Cardinality({on[l] : l \in labels})

-----------------------------------------------------------------------------
(* Setting a label: `create_manual_classification_label` *)

BeginLabel(r, d, k) ==
  /\ pc[r] = "idle"
  /\ k \in {"label", "gold"}
  /\ pc' = [pc EXCEPT ![r] = "replace"]
  /\ kind' = [kind EXCEPT ![r] = k]
  /\ on' = [on EXCEPT ![r] = d]
  /\ goldMet' = (goldMet \/ (k = "gold" /\ GoldUnderWay(d) # {}))
  /\ UNCHANGED <<labels, payloads, progress, finished, found, counted, check, countsMet,
                 faults, crashes, debounceVars>>

\* Mutant: the delete looks for labels that are not gold whatever was asked.
DeleteOldNotGold(r) ==
  /\ pc[r] = "replace"
  /\ labels' = labels \ LabelsOf(on[r], "label")
  /\ pc' = [pc EXCEPT ![r] = "create"]
  /\ UNCHANGED <<kind, on, payloads, progress, finished, found, counted, check, goldMet,
                 countsMet, faults, crashes, debounceVars>>

\* The delete takes the labels of its own kind, gold or not, and commits.
DeleteOld(r) ==
  /\ pc[r] = "replace"
  /\ labels' = labels \ LabelsOf(on[r], kind[r])
  /\ pc' = [pc EXCEPT ![r] = "create"]
  /\ UNCHANGED <<kind, on, payloads, progress, finished, found, counted, check, goldMet,
                 countsMet, faults, crashes, debounceVars>>

CreateLabel(r) ==
  /\ pc[r] = "create"
  /\ labels' = labels \union {r}
  /\ pc' = [pc EXCEPT ![r] = "look"]
  /\ UNCHANGED <<kind, on, payloads, progress, finished, found, counted, check, goldMet,
                 countsMet, faults, crashes, debounceVars>>

\* Mutant: doubled labels are not looked for.
SpawnStatistics(r) ==
  /\ pc[r] = "spawn"
  /\ Ask(r)
  /\ pc' = [pc EXCEPT ![r] = "done"]
  /\ UNCHANGED <<kind, on, labels, payloads, progress, finished, found, counted, check,
                 goldMet, countsMet, faults, crashes>>

\* The threads are started one after the other; nobody joins them.
Spawn(r) ==
  /\ pc[r] = "spawn"
  /\ Ask(r)
  /\ pc' = [pc EXCEPT ![r] = "done"]
  /\ check' = IF kind[r] = "label" THEN check \union {r} ELSE check
  /\ UNCHANGED <<kind, on, labels, payloads, progress, finished, found, counted, goldMet,
                 countsMet, faults, crashes>>

\* The update of the relevance between the two threads raises: only the first was started.
RelevanceRaises(r) ==
  /\ pc[r] = "spawn"
  /\ faults < MaxFaults
  /\ faults' = faults + 1
  /\ Ask(r)
  /\ pc' = [pc EXCEPT ![r] = "raised"]
  /\ UNCHANGED <<kind, on, labels, payloads, progress, finished, found, counted, check,
                 goldMet, countsMet, crashes>>

\* `check_label_duplication_classification` keeps one label and deletes the others.
CheckDuplicates(r) ==
  /\ r \in check
  /\ LET own == LabelsOf(on[r], "label") IN
       \/ own = {} /\ UNCHANGED labels
       \/ \E keep \in own : labels' = (labels \ own) \union {keep}
  /\ check' = check \ {r}
  /\ UNCHANGED <<pc, kind, on, payloads, progress, finished, found, counted, goldMet,
                 countsMet, faults, crashes, debounceVars>>

-----------------------------------------------------------------------------
(* Deleting labels: `delete_record_label_association` *)

\* Mutant: the progress is not brought up to date after a delete.
DeleteOnly(r, l) ==
  /\ pc[r] = "idle"
  /\ l # r
  /\ pc[l] \notin {"idle", "replace", "create"}
  /\ kind[l] # "delete"
  /\ kind' = [kind EXCEPT ![r] = "delete"]
  /\ on' = [on EXCEPT ![r] = on[l]]
  /\ labels' = labels \ {l}
  /\ pc' = [pc EXCEPT ![r] = "done"]
  /\ UNCHANGED <<payloads, progress, finished, found, counted, check, goldMet, countsMet,
                 faults, crashes, debounceVars>>

\* Whether the label belongs to a source is read before the delete, so a label that
\* is gone may or may not lead to a new progress.  No statistics are asked for.
Delete(r, l) ==
  /\ pc[r] = "idle"
  /\ l # r
  /\ pc[l] \notin {"idle", "replace", "create"}
  /\ kind[l] # "delete"
  /\ kind' = [kind EXCEPT ![r] = "delete"]
  /\ on' = [on EXCEPT ![r] = on[l]]
  /\ labels' = labels \ {l}
  /\ \/ pc' = [pc EXCEPT ![r] = "look"]
     \/ l \notin labels /\ pc' = [pc EXCEPT ![r] = "done"]
  /\ UNCHANGED <<payloads, progress, finished, found, counted, check, goldMet, countsMet,
                 faults, crashes, debounceVars>>

-----------------------------------------------------------------------------
(* The progress of the source: `update_annotator_progress`, one transaction *)

LookForPayload(r) ==
  /\ pc[r] = "look"
  /\ \/ payloads = {} /\ found' = [found EXCEPT ![r] = NoPayload]
     \/ \E p \in payloads : found' = [found EXCEPT ![r] = p]
  /\ pc' = [pc EXCEPT ![r] = "count"]
  /\ countsMet' = (countsMet \/ Counting # {})
  /\ UNCHANGED <<kind, on, labels, payloads, progress, finished, counted, check, goldMet,
                 faults, crashes, debounceVars>>

CountLabeled(r) ==
  /\ pc[r] = "count"
  /\ counted' = [counted EXCEPT ![r] = LabeledRecords]
  /\ pc' = [pc EXCEPT ![r] = "commit"]
  /\ UNCHANGED <<kind, on, labels, payloads, progress, finished, found, check, goldMet,
                 countsMet, faults, crashes, debounceVars>>


\* A payload that was not found is created in the same transaction.  FINISHED is
\* never taken back.
CommitProgress(r) ==
  /\ pc[r] = "commit"
  /\ LET p == IF found[r] = NoPayload THEN r ELSE found[r] IN
       /\ payloads' = payloads \union {p}
       /\ progress' = [progress EXCEPT ![p] = counted[r]]
       /\ finished' = IF counted[r] = Total THEN finished \union {p} ELSE finished
  /\ pc' = [pc EXCEPT ![r] = IF kind[r] = "delete" THEN "done" ELSE "spawn"]
  /\ found' = [found EXCEPT ![r] = NoPayload]
  /\ counted' = [counted EXCEPT ![r] = 0]
  /\ UNCHANGED <<kind, on, labels, check, goldMet, countsMet, faults, crashes,
                 debounceVars>>

\* Something in the update of the progress raises: the label stays, nothing follows.
ProgressRaises(r) ==
  /\ pc[r] \in {"look", "count", "commit"}
  /\ faults < MaxFaults
  /\ faults' = faults + 1
  /\ pc' = [pc EXCEPT ![r] = "raised"]
  /\ found' = [found EXCEPT ![r] = NoPayload]
  /\ counted' = [counted EXCEPT ![r] = 0]
  /\ UNCHANGED <<kind, on, labels, payloads, progress, finished, check,
                 goldMet, countsMet, crashes, debounceVars>>

-----------------------------------------------------------------------------
StatisticsStep(c) == (CallStep(c) \/ TimerStep(c)) /\ UNCHANGED labelVars

Restart ==
  /\ crashes < MaxCrashes
  /\ crashes' = crashes + 1
  /\ DebounceRestart
  /\ pc' = [r \in Requests |-> IF pc[r] \in {"idle", "done", "raised"} THEN pc[r] ELSE "dead"]
  /\ check' = {}
  /\ found' = [r \in Requests |-> NoPayload]
  /\ counted' = [r \in Requests |-> 0]
  /\ UNCHANGED <<kind, on, labels, payloads, progress, finished, goldMet, countsMet, faults>>

HandlerStep(r) ==
  \/ DeleteOld(r) \/ CreateLabel(r) \/ Spawn(r)
  \/ LookForPayload(r) \/ CountLabeled(r) \/ CommitProgress(r)

Next ==
  \/ \E r \in Requests :
       \/ \E d \in Records, k \in Kinds : BeginLabel(r, d, k)
       \/ \E l \in Requests : Delete(r, l)
       \/ HandlerStep(r) \/ ProgressRaises(r) \/ RelevanceRaises(r) \/ CheckDuplicates(r)
  \/ \E c \in Calls : StatisticsStep(c)
  \/ Restart

Spec == Init /\ [][Next]_vars

LabelingFairness ==
  /\ \A r \in Requests : WF_vars(HandlerStep(r)) /\ WF_vars(CheckDuplicates(r))
  /\ \A c \in Calls : /\ WF_vars(CallStep(c) /\ UNCHANGED labelVars)
                      /\ WF_vars(TimerStep(c) /\ UNCHANGED labelVars)
FairSpec == Spec /\ LabelingFairness

-----------------------------------------------------------------------------
(* Properties *)

Quiet ==
  /\ \A r \in Requests : pc[r] \in {"idle", "done", "raised", "dead"}
  /\ check = {}

\* However the requests of an annotator interleave between the commit that
\* deletes the old label and the one that creates the new (manager.py:104-125),
\* in the end a record has one label if it was labelled and nothing was deleted,
\* and never two.  A restart kills the threads that look for doubled labels; a
\* request that raised has not started its thread.
LabeledOnce ==
  Quiet /\ crashes = 0 /\ faults = 0 =>
    \A d \in Records :
      /\ \A l, m \in LabelsOf(d, "label") : l = m
      /\ (\E r \in Requests : kind[r] = "label" /\ on[r] = d)
           /\ (\A r \in Requests : on[r] = d => kind[r] # "delete")
         => LabelsOf(d, "label") # {}

\* Gold labels are not checked for doubles (manager.py:140): two of one record come
\* from requests that overlapped, and from nothing else.
GoldDoublesOverlap ==
  goldMet \/ \A l, m \in labels : kind[l] = "gold" /\ kind[m] = "gold" /\ on[l] = on[m] => l = m

\* When all is done and no two updates of the progress overlapped, the source has one
\* payload, it shows how much is labelled, and it is finished once all was labelled.
\* An overlapping pair may create two payloads or commit the older count last.
ProgressShowsLabels ==
  Quiet /\ crashes = 0 /\ faults = 0 /\ ~countsMet =>
    /\ \A p, q \in payloads : p = q
    /\ \A p \in payloads : /\ progress[p] = LabeledRecords
                           /\ progress[p] = Total => p \in finished
    /\ labels # {} => payloads # {}
=============================================================================
