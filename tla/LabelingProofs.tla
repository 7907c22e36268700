---------------------------- MODULE LabelingProofs ----------------------------
(***************************************************************************)
(* Proofs about Labeling and the debounced function below it.  What is     *)
(* about the function alone is proved from its own steps, `DebounceNext`.  *)
(***************************************************************************)
EXTENDS Labeling, FiniteSetTheorems, TLAPS

DebounceNext ==
  \/ \E c \in Calls : Ask(c) \/ CallStep(c) \/ TimerStep(c)
  \/ DebounceRestart

\* Every step of the labelling is a step of the debounced function or leaves it alone.
LEMMA DebounceSteps == [Next]_vars => [DebounceNext]_debounceVars
<1> SUFFICES ASSUME [Next]_vars PROVE [DebounceNext]_debounceVars
  OBVIOUS
<1>1. CASE \E r \in Requests, d \in Records, k \in Kinds : BeginLabel(r, d, k)
  BY <1>1 DEF BeginLabel
<1>2. CASE \E r, l \in Requests : Delete(r, l)
  BY <1>2 DEF Delete
<1>3. CASE \E r \in Requests : HandlerStep(r)
  BY <1>3 DEF HandlerStep, DeleteOld, CreateLabel, Spawn, LookForPayload, CountLabeled,
              CommitProgress, DebounceNext, Requests
<1>4. CASE \E r \in Requests : ProgressRaises(r) \/ RelevanceRaises(r) \/ CheckDuplicates(r)
  BY <1>4 DEF ProgressRaises, RelevanceRaises, CheckDuplicates, DebounceNext, Requests
<1>5. CASE \E c \in Calls : StatisticsStep(c)
  BY <1>5 DEF StatisticsStep, DebounceNext
<1>6. CASE Restart
  BY <1>6 DEF Restart, DebounceNext
<1>7. CASE UNCHANGED vars
  BY <1>7 DEF vars
<1> QED
  BY <1>1, <1>2, <1>3, <1>4, <1>5, <1>6, <1>7 DEF Next

-----------------------------------------------------------------------------
(* The debounced function *)

LEMMA DebounceTypeInit == DebounceInit => DebounceTypeOK
  BY DEF DebounceInit, DebounceTypeOK, CallPlaces, TimerStates

LEMMA DebounceTypeStep == DebounceTypeOK /\ [DebounceNext]_debounceVars => DebounceTypeOK'
<1> SUFFICES ASSUME DebounceTypeOK, [DebounceNext]_debounceVars PROVE DebounceTypeOK'
  OBVIOUS
<1> USE DEF DebounceTypeOK, CallPlaces, TimerStates
<1>1. ASSUME NEW c \in Calls, Ask(c) PROVE DebounceTypeOK'
  BY <1>1 DEF Ask
<1>2. ASSUME NEW c \in Calls, CancelOld(c) PROVE DebounceTypeOK'
  BY <1>2 DEF CancelOld
<1>3. ASSUME NEW c \in Calls, StoreTimer(c) PROVE DebounceTypeOK'
  BY <1>3 DEF StoreTimer
<1>4. ASSUME NEW c \in Calls, StartTimer(c) PROVE DebounceTypeOK'
  BY <1>4 DEF StartTimer
<1>5. ASSUME NEW c \in Calls, StartRaises(c) PROVE DebounceTypeOK'
  BY <1>5 DEF StartRaises
<1>6. ASSUME NEW x \in Calls, TimerStep(x) PROVE DebounceTypeOK'
  BY <1>6 DEF TimerStep, Fire, PopEntry, RunFunction
<1>7. CASE DebounceRestart
  BY <1>7 DEF DebounceRestart
<1>8. CASE UNCHANGED debounceVars
  BY <1>8 DEF debounceVars
<1> QED
  BY <1>1, <1>2, <1>3, <1>4, <1>5, <1>6, <1>7, <1>8 DEF DebounceNext, CallStep

\* What keeps a call alive is handed on from step to step.
LEMMA CallsHaveTimerStep ==
  DebounceTypeOK /\ CallsHaveTimer /\ [DebounceNext]_debounceVars => CallsHaveTimer'
<1> SUFFICES ASSUME DebounceTypeOK, CallsHaveTimer, [DebounceNext]_debounceVars
             PROVE CallsHaveTimer'
  OBVIOUS
<1> USE DEF DebounceTypeOK, CallsHaveTimer
<1>1. ASSUME NEW c \in Calls, Ask(c) PROVE CallsHaveTimer'
  BY <1>1 DEF Ask
<1>2. ASSUME NEW c \in Calls, CancelOld(c) PROVE CallsHaveTimer'
  <2>1. call'[c] = "store"
    BY <1>2 DEF CancelOld
  <2> QED
    BY <2>1
<1>3. ASSUME NEW c \in Calls, StoreTimer(c) PROVE CallsHaveTimer'
  <2>1. entry' = c /\ c # NoTimer /\ timer'[c] = "made" /\ call'[c] = "start"
    BY <1>3, DebounceAssumption DEF StoreTimer
  <2> QED
    BY <2>1
<1>4. ASSUME NEW c \in Calls, StartTimer(c) PROVE CallsHaveTimer'
  <2>1. entry \in Calls /\ timer'[entry] = (IF timer[entry] = "made" THEN "waiting" ELSE "over")
    BY <1>4 DEF StartTimer
  <2>2. CASE timer[entry] = "made"
    BY <2>1, <2>2
  <2>3. CASE timer[entry] # "made"
    BY <1>4, <2>1, <2>3 DEF StartTimer
  <2> QED
    BY <2>2, <2>3
<1>5. ASSUME NEW c \in Calls, StartRaises(c) PROVE CallsHaveTimer'
  BY <1>5 DEF StartRaises
<1>6. ASSUME NEW x \in Calls, Fire(x) PROVE CallsHaveTimer'
  <2>1. timer'[x] = "firing"
    BY <1>6 DEF Fire
  <2> QED
    BY <2>1
<1>7. ASSUME NEW x \in Calls, PopEntry(x) PROVE CallsHaveTimer'
  <2>1. timer'[x] = "running"
    BY <1>7 DEF PopEntry
  <2> QED
    BY <2>1
<1>8. ASSUME NEW x \in Calls, RunFunction(x) PROVE CallsHaveTimer'
  BY <1>8 DEF RunFunction
<1>9. CASE DebounceRestart
  BY <1>9 DEF DebounceRestart
<1>10. CASE UNCHANGED debounceVars
  BY <1>10 DEF debounceVars
<1> QED
  BY <1>1, <1>2, <1>3, <1>4, <1>5, <1>6, <1>7, <1>8, <1>9, <1>10
  DEF DebounceNext, CallStep, TimerStep

\* Without a race the timer in the dictionary is the only one that waits, a call that
\* is about to make or to start its timer has the dictionary for itself, and no timer
\* fires meanwhile.
OneTimerInv ==
  raced \/
    /\ \A c, d \in InDebounce : c = d
    /\ \A x \in Calls : timer[x] = "waiting" => entry = x
    /\ \A x \in Calls : timer[x] = "made" => call[x] = "start"
    /\ \A x \in Calls : timer[x] # "disarmed"
    /\ \A c \in Calls : call[c] # "raised"
    /\ \A c \in Calls : call[c] = "start" => entry = c /\ timer[c] = "made"
    /\ InDebounce # {} => \A x \in Calls : timer[x] \notin {"waiting", "firing"}
    /\ Firing # {} => \A x \in Calls : timer[x] # "waiting"

LEMMA OneTimerInit == DebounceInit => OneTimerInv
  BY DebounceAssumption DEF DebounceInit, OneTimerInv, InDebounce, Firing

LEMMA OneTimerStep ==
  DebounceTypeOK /\ OneTimerInv /\ [DebounceNext]_debounceVars => OneTimerInv'
<1> SUFFICES ASSUME DebounceTypeOK, OneTimerInv, [DebounceNext]_debounceVars
             PROVE OneTimerInv'
  OBVIOUS
<1> USE DEF DebounceTypeOK, OneTimerInv, InDebounce, Firing
<1>1. ASSUME NEW c \in Calls, Ask(c) PROVE OneTimerInv'
  BY <1>1 DEF Ask
<1>2. ASSUME NEW c \in Calls, CancelOld(c) PROVE OneTimerInv'
  <2>1. CASE raced \/ InDebounce # {} \/ Firing # {}
    BY <1>2, <2>1 DEF CancelOld
  <2>2. CASE ~raced /\ InDebounce = {} /\ Firing = {}
    <3>1. \A x \in Calls : timer[x] \notin {"made", "disarmed", "firing"}
      BY <2>2
    <3>2. \A x \in Calls : timer'[x] \notin {"made", "disarmed", "firing", "waiting"}
      BY <1>2, <2>2, <3>1 DEF CancelOld
    <3>3. \A d \in Calls : call'[d] \in {"store", "start"} => d = c /\ call'[d] = "store"
      BY <1>2, <2>2 DEF CancelOld
    <3>4. \A d \in Calls : call'[d] # "raised"
      BY <1>2, <2>2 DEF CancelOld
    <3> QED
      BY <3>2, <3>3, <3>4
  <2> QED
    BY <2>1, <2>2
<1>3. ASSUME NEW c \in Calls, StoreTimer(c) PROVE OneTimerInv'
  BY <1>3 DEF StoreTimer
<1>4. ASSUME NEW c \in Calls, StartTimer(c) PROVE OneTimerInv'
  BY <1>4 DEF StartTimer
<1>5. ASSUME NEW c \in Calls, StartRaises(c) PROVE OneTimerInv'
  BY <1>5, DebounceAssumption DEF StartRaises
<1>6. ASSUME NEW x \in Calls, Fire(x) PROVE OneTimerInv'
  BY <1>6 DEF Fire
<1>7. ASSUME NEW x \in Calls, PopEntry(x) PROVE OneTimerInv'
  BY <1>7 DEF PopEntry
<1>8. ASSUME NEW x \in Calls, RunFunction(x) PROVE OneTimerInv'
  BY <1>8 DEF RunFunction
<1>9. CASE DebounceRestart
  BY <1>9 DEF DebounceRestart
<1>10. CASE UNCHANGED debounceVars
  BY <1>10 DEF debounceVars
<1> QED
  BY <1>1, <1>2, <1>3, <1>4, <1>5, <1>6, <1>7, <1>8, <1>9, <1>10
  DEF DebounceNext, CallStep, TimerStep

\* Whoever calls the debounced function is followed by a timer, a call or a run, for
\* any number of calls that overlap in any way, and across restarts.
THEOREM CallsServed == Spec => []CallsHaveTimer
<1>1. Init => DebounceTypeOK /\ CallsHaveTimer
  BY DebounceTypeInit DEF Init, DebounceInit, CallsHaveTimer
<1>2. DebounceTypeOK /\ CallsHaveTimer /\ [Next]_vars => (DebounceTypeOK /\ CallsHaveTimer)'
  BY DebounceSteps, DebounceTypeStep, CallsHaveTimerStep
<1> QED
  BY <1>1, <1>2, PTL DEF Spec

\* A call that meets no other call and no firing timer puts off the run of all calls
\* before it, for any number of calls.
THEOREM OneTimer == Spec => []OneTimerUnlessRaced
<1>1. Init => DebounceTypeOK /\ OneTimerInv
  BY DebounceTypeInit, OneTimerInit DEF Init
<1>2. DebounceTypeOK /\ OneTimerInv /\ [Next]_vars => (DebounceTypeOK /\ OneTimerInv)'
  BY DebounceSteps, DebounceTypeStep, OneTimerStep
<1>3. OneTimerInv => OneTimerUnlessRaced
  BY DEF OneTimerInv, OneTimerUnlessRaced
<1> QED
  BY <1>1, <1>2, <1>3, PTL DEF Spec

\* Every step of the decorator is a step of the promise or changes nothing it speaks of.
THEOREM DebounceRefines == Spec => Promise!Spec
<1>1. Init => Promise!Init
  BY DEF Init, DebounceInit, Promise!Init
<1>2. DebounceTypeOK /\ [Next]_vars => [Promise!Next]_Promise!vars
  <2> SUFFICES ASSUME DebounceTypeOK, [DebounceNext]_debounceVars
               PROVE [Promise!Next]_Promise!vars
    BY DebounceSteps
  <2> USE DEF Promise!Next, Promise!vars
  <2>1. ASSUME NEW c \in Calls, Ask(c) PROVE [Promise!Next]_Promise!vars
    BY <2>1 DEF Ask, Promise!Call
  <2>2. ASSUME NEW c \in Calls, CallStep(c) PROVE [Promise!Next]_Promise!vars
    BY <2>2 DEF CallStep, CancelOld, StoreTimer, StartTimer, StartRaises
  <2>3. ASSUME NEW x \in Calls, TimerStep(x) PROVE [Promise!Next]_Promise!vars
    BY <2>3 DEF TimerStep, Fire, PopEntry, RunFunction, Promise!Run
  <2>4. CASE DebounceRestart
    BY <2>4 DEF DebounceRestart, Promise!Restart
  <2>5. CASE UNCHANGED debounceVars
    BY <2>5 DEF debounceVars
  <2> QED
    BY <2>1, <2>2, <2>3, <2>4, <2>5 DEF DebounceNext
<1>3. Init => DebounceTypeOK
  BY DebounceTypeInit DEF Init
<1>4. DebounceTypeOK /\ [Next]_vars => DebounceTypeOK'
  BY DebounceSteps, DebounceTypeStep
<1> QED
  BY <1>1, <1>2, <1>3, <1>4, PTL DEF Spec, Promise!Spec

-----------------------------------------------------------------------------
(* Types *)

\* A label in the database was created by a request that knows its record.
LabelInv == \A l \in labels : on[l] \in Records

LEMMA Counts == LabelInv => LabeledRecords \in 0..Total
<1> SUFFICES ASSUME LabelInv PROVE LabeledRecords \in 0..Total
  OBVIOUS
<1>1. {on[l] : l \in labels} \subseteq Records
  BY DEF LabelInv
<1>2. /\ Cardinality({on[l] : l \in labels}) \in Nat
      /\ Cardinality(Records) \in Nat
      /\ Cardinality({on[l] : l \in labels}) <= Cardinality(Records)
  BY <1>1, FS_Subset, FS_CardinalityType, LabelingAssumption
<1> QED
  BY <1>2 DEF LabeledRecords, Total

\* A request has a record as soon as it has begun.
PlaceInv == \A r \in Requests : pc[r] = "idle" <=> on[r] = NoRecord

TypeInv == TypeOK /\ LabelInv /\ PlaceInv

LEMMA TypeStep == TypeInv /\ [Next]_vars => TypeInv'
<1> SUFFICES ASSUME TypeInv, [Next]_vars PROVE TypeInv'
  OBVIOUS
<1>d. DebounceTypeOK'
  BY DebounceSteps, DebounceTypeStep DEF TypeInv, TypeOK
<1>t. Total \in Nat /\ LabeledRecords \in 0..Total
  BY Counts, FS_CardinalityType, LabelingAssumption DEF Total, TypeInv
<1> USE <1>d DEF TypeInv, TypeOK, LabelInv, PlaceInv, Kinds, Places, Requests
<1>1. ASSUME NEW r \in Requests, NEW d \in Records, NEW k \in Kinds, BeginLabel(r, d, k)
      PROVE TypeInv'
  BY <1>1, LabelingAssumption DEF BeginLabel
<1>2. ASSUME NEW r \in Requests, NEW l \in Requests, Delete(r, l) PROVE TypeInv'
  <2>1. PlaceInv' /\ LabelInv'
    BY <1>2 DEF Delete
  <2> QED
    BY <1>2, <2>1 DEF Delete
<1>3. ASSUME NEW r \in Requests, DeleteOld(r) PROVE TypeInv'
  BY <1>3 DEF DeleteOld, LabelsOf
<1>4. ASSUME NEW r \in Requests, CreateLabel(r) PROVE TypeInv'
  BY <1>4 DEF CreateLabel
<1>5. ASSUME NEW r \in Requests, Spawn(r) PROVE TypeInv'
  BY <1>5 DEF Spawn
<1>6. ASSUME NEW r \in Requests, LookForPayload(r) PROVE TypeInv'
  BY <1>6 DEF LookForPayload
<1>7. ASSUME NEW r \in Requests, CountLabeled(r) PROVE TypeInv'
  BY <1>7, <1>t DEF CountLabeled
<1>8. ASSUME NEW r \in Requests, CommitProgress(r) PROVE TypeInv'
  BY <1>8, <1>t DEF CommitProgress
<1>9. ASSUME NEW r \in Requests, ProgressRaises(r) PROVE TypeInv'
  BY <1>9, <1>t, LabelingAssumption DEF ProgressRaises
<1>10. ASSUME NEW r \in Requests, RelevanceRaises(r) PROVE TypeInv'
  BY <1>10, <1>t, LabelingAssumption DEF RelevanceRaises
<1>11. ASSUME NEW r \in Requests, CheckDuplicates(r) PROVE TypeInv'
  BY <1>11 DEF CheckDuplicates, LabelsOf
<1>12. ASSUME NEW c \in Calls, StatisticsStep(c) PROVE TypeInv'
  BY <1>12 DEF StatisticsStep, labelVars
<1>13. CASE Restart
  BY <1>13, <1>t, LabelingAssumption DEF Restart
<1>14. CASE UNCHANGED vars
  BY <1>14 DEF vars, labelVars
<1> QED
  BY <1>1, <1>2, <1>3, <1>4, <1>5, <1>6, <1>7, <1>8, <1>9, <1>10, <1>11, <1>12, <1>13,
     <1>14
  DEF Next, HandlerStep

LEMMA TypeInit == Init => TypeInv
<1> SUFFICES ASSUME Init PROVE TypeInv
  OBVIOUS
<1>1. Total \in Nat
  BY FS_CardinalityType, LabelingAssumption DEF Total
<1>2. DebounceTypeOK
  BY DebounceTypeInit DEF Init
<1>3. LabelInv /\ PlaceInv
  BY DEF Init, LabelInv, PlaceInv
<1>4. faults \in 0..MaxFaults /\ crashes \in 0..MaxCrashes
  BY LabelingAssumption DEF Init
<1>5. progress \in [Requests -> 0..Total] /\ counted \in [Requests -> 0..Total]
  BY <1>1 DEF Init
<1> QED
  BY <1>2, <1>3, <1>4, <1>5 DEF Init, TypeInv, TypeOK, Kinds, Places

\* Every variable of the labelling keeps its type.
THEOREM TypeCorrect == Spec => []TypeOK
<1>1. TypeInv => TypeOK
  BY DEF TypeInv
<1> QED
  BY TypeInit, TypeStep, <1>1, PTL DEF Spec

-----------------------------------------------------------------------------
(* Labels *)

\* Of two gold labels of one record, set without overlap, the second replaces the first:
\* between its two commits the record has none.
GoldInv ==
  goldMet \/
    /\ \A d \in Records : \A r, s \in GoldUnderWay(d) : r = s
    /\ \A r \in Requests : pc[r] = "create" /\ kind[r] = "gold" => LabelsOf(on[r], "gold") = {}
    /\ \A l, m \in labels : kind[l] = "gold" /\ kind[m] = "gold" /\ on[l] = on[m] => l = m
    /\ \A l \in labels : pc[l] \notin {"idle", "replace", "create"}

\* While a record has two labels, some request has yet to start the thread that looks for
\* them, or that thread has yet to look; and a record that was labelled has its label,
\* unless it is just being replaced.
Looking(d) ==
  \E r \in Requests :
    /\ on[r] = d /\ kind[r] = "label"
    /\ r \in check \/ pc[r] \in {"look", "count", "commit", "spawn"}

Labeling(d) == \E r \in Requests : on[r] = d /\ kind[r] = "label"
Replacing(d) ==
  \E r \in Requests : on[r] = d /\ kind[r] = "label" /\ pc[r] \in {"replace", "create"}
Deleted(d) == \E r \in Requests : on[r] = d /\ kind[r] = "delete"

OnceInv ==
  faults = 0 /\ crashes = 0 =>
    \A d \in Records :
      /\ (\A l, m \in LabelsOf(d, "label") : l = m) \/ Looking(d)
      /\ Labeling(d) /\ ~Deleted(d) => LabelsOf(d, "label") # {} \/ Replacing(d)

LEMMA GoldStep == TypeInv /\ GoldInv /\ [Next]_vars => GoldInv'
<1> SUFFICES ASSUME TypeInv, GoldInv, [Next]_vars PROVE GoldInv'
  OBVIOUS
<1> USE DEF TypeInv, TypeOK, GoldInv, GoldUnderWay, LabelsOf, Kinds, Places
<1>1. ASSUME NEW r \in Requests, NEW d \in Records, NEW k \in Kinds, BeginLabel(r, d, k)
      PROVE GoldInv'
  <2>1. CASE goldMet'
    BY <2>1
  <2>2. CASE ~goldMet'
    <3>1. /\ ~goldMet
          /\ k = "gold" => GoldUnderWay(d) = {}
          /\ r \notin labels /\ labels' = labels
          /\ pc'[r] = "replace" /\ kind'[r] = k /\ on'[r] = d
          /\ \A s \in Requests : s # r => pc'[s] = pc[s] /\ kind'[s] = kind[s] /\ on'[s] = on[s]
      BY <1>1, <2>2 DEF BeginLabel
    <3>2. \A e \in Records : \A s, u \in GoldUnderWay(e)' : s = u
      BY <3>1
    <3>3. \A s \in Requests : pc'[s] = "create" /\ kind'[s] = "gold" => LabelsOf(on[s], "gold")' = {}
      BY <3>1
    <3> QED
      BY <3>1, <3>2, <3>3
  <2> QED
    BY <2>1, <2>2
<1>2. ASSUME NEW r \in Requests, NEW l \in Requests, Delete(r, l) PROVE GoldInv'
  <2>1. CASE goldMet
    BY <1>2, <2>1 DEF Delete
  <2>2. CASE ~goldMet
    <3>1. /\ r \notin labels
          /\ labels' \subseteq labels
          /\ pc'[r] \notin {"idle", "replace", "create"}
          /\ \A s \in Requests : s # r => pc'[s] = pc[s] /\ kind'[s] = kind[s] /\ on'[s] = on[s]
      BY <1>2, <2>2 DEF Delete
    <3>2. \A d \in Records : \A s, u \in GoldUnderWay(d)' : s = u
      BY <2>2, <3>1
    <3>3. \A s \in Requests : pc'[s] = "create" /\ kind'[s] = "gold" => LabelsOf(on[s], "gold")' = {}
      BY <2>2, <3>1
    <3> QED
      BY <2>2, <3>1, <3>2, <3>3
  <2> QED
    BY <2>1, <2>2
<1>3. ASSUME NEW r \in Requests, DeleteOld(r) PROVE GoldInv'
  BY <1>3 DEF DeleteOld
<1>4. ASSUME NEW r \in Requests, CreateLabel(r) PROVE GoldInv'
  <2>1. CASE goldMet
    BY <1>4, <2>1 DEF CreateLabel
  <2>2. CASE ~goldMet
    <3>1. on[r] \in Records
      BY <1>4 DEF CreateLabel, PlaceInv
    <3>2. \A s \in Requests : s # r /\ pc[s] = "create" /\ kind[s] = "gold" /\ kind[r] = "gold"
                               => on[s] # on[r]
      BY <1>4, <2>2, <3>1 DEF CreateLabel
    <3>3. \A s \in Requests : pc'[s] = "create" /\ kind'[s] = "gold" => LabelsOf(on[s], "gold")' = {}
      BY <1>4, <2>2, <3>2 DEF CreateLabel
    <3>4. \A m \in labels : kind[r] = "gold" /\ kind[m] = "gold" => on[m] # on[r]
      BY <1>4, <2>2 DEF CreateLabel
    <3> QED
      BY <1>4, <2>2, <3>3, <3>4 DEF CreateLabel
  <2> QED
    BY <2>1, <2>2
<1>5. ASSUME NEW r \in Requests, Spawn(r) PROVE GoldInv'
  BY <1>5 DEF Spawn
<1>6. ASSUME NEW r \in Requests, LookForPayload(r) PROVE GoldInv'
  BY <1>6 DEF LookForPayload
<1>7. ASSUME NEW r \in Requests, CountLabeled(r) PROVE GoldInv'
  BY <1>7 DEF CountLabeled
<1>8. ASSUME NEW r \in Requests, CommitProgress(r) PROVE GoldInv'
  BY <1>8 DEF CommitProgress
<1>9. ASSUME NEW r \in Requests, ProgressRaises(r) PROVE GoldInv'
  BY <1>9 DEF ProgressRaises
<1>10. ASSUME NEW r \in Requests, RelevanceRaises(r) PROVE GoldInv'
  BY <1>10 DEF RelevanceRaises
<1>11. ASSUME NEW r \in Requests, CheckDuplicates(r) PROVE GoldInv'
  BY <1>11 DEF CheckDuplicates
<1>12. ASSUME NEW c \in Calls, StatisticsStep(c) PROVE GoldInv'
  BY <1>12 DEF StatisticsStep, labelVars
<1>13. CASE Restart
  BY <1>13 DEF Restart
<1>14. CASE UNCHANGED vars
  BY <1>14 DEF vars, labelVars
<1> QED
  BY <1>1, <1>2, <1>3, <1>4, <1>5, <1>6, <1>7, <1>8, <1>9, <1>10, <1>11, <1>12, <1>13,
     <1>14
  DEF Next, HandlerStep

\* Two gold labels of one record come from requests that overlapped, for any number of
\* requests and records.
THEOREM GoldSingle == Spec => []GoldDoublesOverlap
<1>1. Init => GoldInv
  BY DEF Init, GoldInv, GoldUnderWay, LabelsOf
<1>2. GoldInv => GoldDoublesOverlap
  BY DEF GoldInv, GoldDoublesOverlap
<1> QED
  BY TypeInit, TypeStep, GoldStep, <1>1, <1>2, PTL DEF Spec

LEMMA OnceStep == TypeInv /\ OnceInv /\ [Next]_vars => OnceInv'
<1> SUFFICES ASSUME TypeInv, OnceInv, [Next]_vars, faults' = 0, crashes' = 0, NEW e \in Records
             PROVE /\ (\A l, m \in LabelsOf(e, "label")' : l = m) \/ Looking(e)'
                   /\ Labeling(e)' /\ ~Deleted(e)' => LabelsOf(e, "label")' # {} \/ Replacing(e)'
  BY DEF OnceInv
<1> USE DEF TypeInv, TypeOK, OnceInv, PlaceInv, Looking, Labeling, Replacing, Deleted, LabelsOf,
            Kinds, Places
<1> DEFINE Goal == /\ (\A l, m \in LabelsOf(e, "label")' : l = m) \/ Looking(e)'
                   /\ Labeling(e)' /\ ~Deleted(e)' => LabelsOf(e, "label")' # {} \/ Replacing(e)'
<1>0. /\ faults = 0 /\ crashes = 0 => (\A l, m \in LabelsOf(e, "label") : l = m) \/ Looking(e)
      /\ faults = 0 /\ crashes = 0 /\ Labeling(e) /\ ~Deleted(e)
           => LabelsOf(e, "label") # {} \/ Replacing(e)
  OBVIOUS
<1>1. ASSUME NEW r \in Requests, NEW d \in Records, NEW k \in Kinds, BeginLabel(r, d, k)
      PROVE Goal
  <2>1. /\ faults = 0 /\ crashes = 0
        /\ on[r] = NoRecord /\ r \notin labels /\ labels' = labels /\ check' = check
        /\ pc'[r] = "replace" /\ kind'[r] = k /\ on'[r] = d /\ k \in {"label", "gold"}
        /\ \A s \in Requests : s # r => pc'[s] = pc[s] /\ kind'[s] = kind[s] /\ on'[s] = on[s]
    BY <1>1, LabelingAssumption DEF BeginLabel, LabelInv
  <2>2. LabelsOf(e, "label")' = LabelsOf(e, "label")
    BY <2>1
  <2>3. Looking(e) => Looking(e)'
    BY <2>1, LabelingAssumption
  <2>4. ~Deleted(e)' => ~Deleted(e)
    BY <2>1, LabelingAssumption
  <2>5. Labeling(e)' => Labeling(e) \/ Replacing(e)'
    BY <2>1
  <2>6. Replacing(e) => Replacing(e)'
    BY <2>1
  <2> QED
    BY <1>0, <2>1, <2>2, <2>3, <2>4, <2>5, <2>6
<1>2. ASSUME NEW r \in Requests, NEW l \in Requests, Delete(r, l) PROVE Goal
  <2>1. /\ faults = 0 /\ crashes = 0
        /\ on[r] = NoRecord /\ r \notin labels /\ labels' = labels \ {l} /\ check' = check
        /\ kind'[r] = "delete" /\ on'[r] = on[l]
        /\ \A s \in Requests : s # r => pc'[s] = pc[s] /\ kind'[s] = kind[s] /\ on'[s] = on[s]
    BY <1>2, LabelingAssumption DEF Delete, LabelInv
  <2>2. LabelsOf(e, "label")' \subseteq LabelsOf(e, "label")
    BY <2>1
  <2>3. Looking(e) => Looking(e)'
    BY <2>1, LabelingAssumption
  <2>4. ~Deleted(e)' => ~Deleted(e) /\ LabelsOf(e, "label")' = LabelsOf(e, "label")
    BY <2>1, LabelingAssumption
  <2>5. Labeling(e)' => Labeling(e)
    BY <2>1
  <2>6. Replacing(e) => Replacing(e)'
    BY <2>1, LabelingAssumption
  <2> QED
    BY <1>0, <2>1, <2>2, <2>3, <2>4, <2>5, <2>6
<1>3. ASSUME NEW r \in Requests, DeleteOld(r) PROVE Goal
  BY <1>3 DEF DeleteOld
<1>4. ASSUME NEW r \in Requests, CreateLabel(r) PROVE Goal
  BY <1>4 DEF CreateLabel
<1>5. ASSUME NEW r \in Requests, Spawn(r) PROVE Goal
  BY <1>5 DEF Spawn
<1>6. ASSUME NEW r \in Requests, LookForPayload(r) PROVE Goal
  BY <1>6 DEF LookForPayload
<1>7. ASSUME NEW r \in Requests, CountLabeled(r) PROVE Goal
  BY <1>7 DEF CountLabeled
<1>8. ASSUME NEW r \in Requests, CommitProgress(r) PROVE Goal
  BY <1>8 DEF CommitProgress
<1>9. ASSUME NEW r \in Requests, ProgressRaises(r) PROVE Goal
  BY <1>9 DEF ProgressRaises
<1>10. ASSUME NEW r \in Requests, RelevanceRaises(r) PROVE Goal
  BY <1>10 DEF RelevanceRaises
<1>11. ASSUME NEW r \in Requests, CheckDuplicates(r) PROVE Goal
  BY <1>11 DEF CheckDuplicates
<1>12. ASSUME NEW c \in Calls, StatisticsStep(c) PROVE Goal
  BY <1>12 DEF StatisticsStep, labelVars
<1>13. CASE Restart
  BY <1>13 DEF Restart
<1>14. CASE UNCHANGED vars
  BY <1>14 DEF vars, labelVars
<1> QED
  BY <1>1, <1>2, <1>3, <1>4, <1>5, <1>6, <1>7, <1>8, <1>9, <1>10, <1>11, <1>12, <1>13,
     <1>14
  DEF Next, HandlerStep

\* Once all requests and threads have ended, a record that was labelled has exactly one
\* label, for any number of requests that interleave in any way.
THEOREM OneLabel == Spec => []LabeledOnce
<1>1. Init => OnceInv
  BY LabelingAssumption DEF Init, OnceInv, LabelsOf, Labeling
<1>2. TypeInv /\ OnceInv => LabeledOnce
  <2> SUFFICES ASSUME TypeInv, OnceInv, Quiet, crashes = 0, faults = 0, NEW d \in Records
               PROVE /\ \A l, m \in LabelsOf(d, "label") : l = m
                     /\ Labeling(d) /\ ~Deleted(d) => LabelsOf(d, "label") # {}
    BY DEF LabeledOnce, Labeling, Deleted
  <2>1. ~Looking(d) /\ ~Replacing(d)
    BY DEF Quiet, Looking, Replacing
  <2> QED
    BY <2>1 DEF OnceInv
<1> QED
  BY TypeInit, TypeStep, OnceStep, <1>1, <1>2, PTL DEF Spec

-----------------------------------------------------------------------------
(* The progress of the source *)

\* Somebody has changed labels, or is about to, and has yet to count them.
ToCount == \E r \in Requests : pc[r] \in {"create", "look", "count"}
Committing == {r \in Requests : pc[r] = "commit"}
Shown ==
  /\ \A p \in payloads : progress[p] = LabeledRecords
  /\ labels # {} => payloads # {}

\* As long as updates of the progress do not overlap, the one that runs knows the only
\* payload there is, its count is right unless another update is to come, and when
\* none runs or is to come the payload shows what is labelled.
ProgressInv ==
  /\ \A p \in payloads : progress[p] = Total => p \in finished
  /\ faults = 0 /\ crashes = 0 /\ ~countsMet =>
       /\ \A p, q \in payloads : p = q
       /\ \A r, s \in Counting : r = s
       /\ \A r \in Counting : /\ found[r] = NoPayload => payloads = {}
                              /\ found[r] # NoPayload => found[r] \in payloads
       /\ \A r \in Committing : ToCount \/ counted[r] = LabeledRecords
       /\ ToCount \/ Committing # {} \/ Shown

\* What the invariant says of updates is handed on by a step that touches neither the
\* payloads nor a request that counts or commits, and keeps the set of labelled records
\* or leaves a request behind that will count it.
LEMMA ProgressKept ==
  ASSUME TypeInv, ProgressInv,
         UNCHANGED <<payloads, progress, finished, countsMet>>,
         \A r \in Requests : /\ pc'[r] \in {"count", "commit"} <=> pc[r] \in {"count", "commit"}
                             /\ pc'[r] = "commit" <=> pc[r] = "commit"
                             /\ pc[r] \in {"create", "look"} => pc'[r] \in {"create", "look"}
                             /\ pc[r] \in {"count", "commit"} => found'[r] = found[r] /\ counted'[r] = counted[r],
         faults' = 0 => faults = 0, crashes' = 0 => crashes = 0,
         \/ {on'[l] : l \in labels'} = {on[l] : l \in labels}
         \/ ToCount'
  PROVE  ProgressInv'
<1>1. /\ Counting' = Counting /\ Committing' = Committing
      /\ ToCount => ToCount'
  BY DEF Counting, Committing, ToCount
<1>2. \/ LabeledRecords' = LabeledRecords /\ (labels' # {} <=> labels # {})
      \/ ToCount'
  <2>1. CASE {on'[l] : l \in labels'} = {on[l] : l \in labels}
    <3>1. labels' # {} <=> labels # {}
      BY <2>1
    <3>2. LabeledRecords' = LabeledRecords
      BY <2>1 DEF LabeledRecords
    <3> QED
      BY <3>1, <3>2
  <2> QED
    BY <2>1
<1>3. \A p \in payloads' : progress'[p] = Total => p \in finished'
  BY DEF ProgressInv
<1>4. ASSUME faults' = 0, crashes' = 0, ~countsMet'
      PROVE  /\ \A p, q \in payloads' : p = q
             /\ \A r, s \in Counting' : r = s
             /\ \A r \in Counting' : /\ found'[r] = NoPayload => payloads' = {}
                                     /\ found'[r] # NoPayload => found'[r] \in payloads'
             /\ \A r \in Committing' : ToCount' \/ counted'[r] = LabeledRecords'
             /\ ToCount' \/ Committing' # {} \/ Shown'
  <2>1. faults = 0 /\ crashes = 0 /\ ~countsMet
    BY <1>4
  <2>2. \A r \in Counting : found'[r] = found[r] /\ counted'[r] = counted[r]
    BY DEF Counting
  <2>3. \A r \in Committing : counted'[r] = counted[r]
    BY DEF Committing
  <2>4. \A r \in Committing' : ToCount' \/ counted'[r] = LabeledRecords'
    BY <1>1, <1>2, <2>1, <2>3 DEF ProgressInv
  <2>5. ToCount' \/ Committing' # {} \/ Shown'
    BY <1>1, <1>2, <2>1 DEF ProgressInv, Shown
  <2> QED
    BY <1>1, <2>1, <2>2, <2>4, <2>5 DEF ProgressInv
<1> QED
  BY <1>3, <1>4 DEF ProgressInv, Total

LEMMA ProgressStep == TypeInv /\ ProgressInv /\ [Next]_vars => ProgressInv'
<1> SUFFICES ASSUME TypeInv, ProgressInv, [Next]_vars PROVE ProgressInv'
  OBVIOUS
<1> USE DEF TypeInv, TypeOK, Kinds, Places
<1>0. \A l \in labels : on[l] \in Records /\ pc[l] # "idle"
  BY LabelingAssumption DEF LabelInv, PlaceInv, Requests
<1>1. ASSUME NEW r \in Requests, NEW d \in Records, NEW k \in Kinds, BeginLabel(r, d, k)
      PROVE ProgressInv'
  <2>1. r \notin labels /\ labels' = labels /\ \A s \in Requests \ {r} : on'[s] = on[s]
    BY <1>0, <1>1 DEF BeginLabel
  <2>2. {on'[l] : l \in labels'} = {on[l] : l \in labels}
    BY <2>1
  <2> QED
    BY <1>1, <2>2, ProgressKept DEF BeginLabel
<1>2. ASSUME NEW r \in Requests, NEW l \in Requests, Delete(r, l) PROVE ProgressInv'
  <2>1. r \notin labels /\ labels' = labels \ {l} /\ \A s \in Requests \ {r} : on'[s] = on[s]
    BY <1>0, <1>2 DEF Delete
  <2>2. CASE pc'[r] = "look"
    <3>1. ToCount'
      BY <2>2 DEF ToCount
    <3> QED
      BY <1>2, <2>2, <3>1, ProgressKept DEF Delete
  <2>3. CASE pc'[r] # "look"
    <3>1. l \notin labels /\ labels' = labels
      BY <1>2, <2>1, <2>3 DEF Delete
    <3>2. {on'[m] : m \in labels'} = {on[m] : m \in labels}
      BY <2>1, <3>1
    <3> QED
      BY <1>2, <3>2, ProgressKept DEF Delete
  <2> QED
    BY <2>2, <2>3
<1>3. ASSUME NEW r \in Requests, DeleteOld(r) PROVE ProgressInv'
  <2>1. ToCount'
    BY <1>3 DEF DeleteOld, ToCount
  <2> QED
    BY <1>3, <2>1, ProgressKept DEF DeleteOld
<1>4. ASSUME NEW r \in Requests, CreateLabel(r) PROVE ProgressInv'
  <2>1. ToCount'
    BY <1>4 DEF CreateLabel, ToCount
  <2> QED
    BY <1>4, <2>1, ProgressKept DEF CreateLabel
<1>5. ASSUME NEW r \in Requests, Spawn(r) PROVE ProgressInv'
  <2>1. {on'[l] : l \in labels'} = {on[l] : l \in labels}
    BY <1>5 DEF Spawn
  <2> QED
    BY <1>5, <2>1, ProgressKept DEF Spawn
<1>6. ASSUME NEW r \in Requests, LookForPayload(r) PROVE ProgressInv'
  <2>1. /\ pc[r] = "look" /\ pc'[r] = "count"
        /\ \A s \in Requests \ {r} : pc'[s] = pc[s] /\ found'[s] = found[s]
        /\ UNCHANGED <<labels, on, payloads, progress, finished, counted, faults, crashes>>
        /\ IF payloads = {} THEN found'[r] = NoPayload ELSE found'[r] \in payloads
    BY <1>6 DEF LookForPayload
  <2>2. ~countsMet' => ~countsMet /\ Counting = {}
    BY <1>6 DEF LookForPayload
  <2>3. /\ ToCount' /\ Counting' = Counting \union {r}
        /\ NoPayload \notin payloads
    BY <2>1, LabelingAssumption DEF ToCount, Counting, Requests
  <2> QED
    BY <2>1, <2>2, <2>3 DEF ProgressInv, Total
<1>7. ASSUME NEW r \in Requests, CountLabeled(r) PROVE ProgressInv'
  <2>1. /\ pc[r] = "count" /\ pc'[r] = "commit" /\ counted'[r] = LabeledRecords
        /\ \A s \in Requests \ {r} : pc'[s] = pc[s]
        /\ UNCHANGED <<labels, on, payloads, progress, finished, found, countsMet, faults, crashes>>
    BY <1>7, Counts DEF CountLabeled
  <2>2. Counting' = Counting /\ r \in Counting /\ LabeledRecords' = LabeledRecords
    BY <2>1 DEF Counting, LabeledRecords
  <2>3. r \in Committing' /\ Committing' \subseteq Counting'
    BY <2>1 DEF Committing, Counting
  <2> QED
    BY <2>1, <2>2, <2>3 DEF ProgressInv, Total
<1>8. ASSUME NEW r \in Requests, CommitProgress(r) PROVE ProgressInv'
  <2> DEFINE p == IF found[r] = NoPayload THEN r ELSE found[r]
  <2>1. /\ pc[r] = "commit" /\ pc'[r] \in {"done", "spawn"}
        /\ \A s \in Requests \ {r} : pc'[s] = pc[s] /\ found'[s] = found[s] /\ counted'[s] = counted[s]
        /\ UNCHANGED <<labels, on, countsMet, faults, crashes>>
        /\ payloads' = payloads \union {p} /\ p \in Requests
        /\ progress' = [progress EXCEPT ![p] = counted[r]]
        /\ finished' = IF counted[r] = Total THEN finished \union {p} ELSE finished
    BY <1>8 DEF CommitProgress
  <2>2. \A q \in payloads' : progress'[q] = Total => q \in finished'
    BY <2>1 DEF ProgressInv, Requests
  <2>3. ASSUME faults = 0, crashes = 0, ~countsMet
        PROVE  /\ payloads' = {p} /\ Counting' = {}
               /\ ToCount' \/ Shown'
    <3>1. r \in Counting /\ r \in Committing
      BY <2>1 DEF Counting, Committing
    <3>2. payloads' = {p}
      BY <2>1, <2>3, <3>1 DEF ProgressInv
    <3>3. Counting' = {}
      BY <2>1, <2>3, <3>1 DEF ProgressInv, Counting
    <3>4. ToCount => ToCount'
      BY <2>1 DEF ToCount
    <3>5. LabeledRecords' = LabeledRecords
      BY <2>1 DEF LabeledRecords
    <3>6. ASSUME counted[r] = LabeledRecords PROVE Shown'
      <4>1. progress'[p] = counted[r]
        BY <2>1
      <4> HIDE DEF p
      <4> QED
        BY <3>2, <3>5, <3>6, <4>1 DEF Shown
    <3> QED
      BY <2>3, <3>1, <3>2, <3>3, <3>4, <3>6 DEF ProgressInv
  <2>4. Committing' \subseteq Counting'
    BY DEF Committing, Counting
  <2> HIDE DEF p
  <2> QED
    BY <2>1, <2>2, <2>3, <2>4 DEF ProgressInv, Total
<1>9. ASSUME NEW r \in Requests, ProgressRaises(r) PROVE ProgressInv'
  <2>1. faults' # 0
    BY <1>9 DEF ProgressRaises
  <2> QED
    BY <1>9, <2>1 DEF ProgressRaises, ProgressInv, Total
<1>10. ASSUME NEW r \in Requests, RelevanceRaises(r) PROVE ProgressInv'
  <2>1. faults' # 0
    BY <1>10 DEF RelevanceRaises
  <2> QED
    BY <1>10, <2>1 DEF RelevanceRaises, ProgressInv, Total
<1>11. ASSUME NEW r \in Requests, CheckDuplicates(r) PROVE ProgressInv'
  <2>1. {on'[l] : l \in labels'} = {on[l] : l \in labels}
    BY <1>11 DEF CheckDuplicates, LabelsOf
  <2> QED
    BY <1>11, <2>1, ProgressKept DEF CheckDuplicates
<1>12. ASSUME NEW c \in Calls, StatisticsStep(c) PROVE ProgressInv'
  <2>1. {on'[l] : l \in labels'} = {on[l] : l \in labels}
    BY <1>12 DEF StatisticsStep, labelVars
  <2> QED
    BY <1>12, <2>1, ProgressKept DEF StatisticsStep, labelVars
<1>13. CASE Restart
  <2>1. crashes' # 0
    BY <1>13 DEF Restart
  <2> QED
    BY <1>13, <2>1 DEF Restart, ProgressInv, Total
<1>14. CASE UNCHANGED vars
  <2>1. {on'[l] : l \in labels'} = {on[l] : l \in labels}
    BY <1>14 DEF vars, labelVars
  <2> QED
    BY <1>14, <2>1, ProgressKept DEF vars, labelVars
<1> QED
  BY <1>1, <1>2, <1>3, <1>4, <1>5, <1>6, <1>7, <1>8, <1>9, <1>10, <1>11, <1>12, <1>13,
     <1>14
  DEF Next, HandlerStep

\* When all is done and no two updates of the progress overlapped, the payload of the
\* annotator shows how much is labelled, for any number of requests and records.
THEOREM ProgressTrue == Spec => []ProgressShowsLabels
<1>1. Init => ProgressInv
  BY DEF Init, ProgressInv, Counting, Committing, Shown, ToCount
<1>2. ProgressInv => ProgressShowsLabels
  <2> SUFFICES ASSUME ProgressInv, Quiet, crashes = 0, faults = 0, ~countsMet
               PROVE  /\ \A p, q \in payloads : p = q
                      /\ \A p \in payloads : /\ progress[p] = LabeledRecords
                                             /\ progress[p] = Total => p \in finished
                      /\ labels # {} => payloads # {}
    BY DEF ProgressShowsLabels
  <2>1. ~ToCount /\ Committing = {}
    BY DEF Quiet, ToCount, Committing
  <2> QED
    BY <2>1 DEF ProgressInv, Shown
<1> QED
  BY TypeInit, TypeStep, ProgressStep, <1>1, <1>2, PTL DEF Spec
=============================================================================
