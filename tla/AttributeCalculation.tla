------------------------ MODULE AttributeCalculation ------------------------
(***************************************************************************)
(* Calculated attributes of ONE project (controller/attribute/manager.py): *)
(* create, calculate over all records, cancel, delete, and the thread that *)
(* recalculates all usable attributes after a record import                *)
(* (api/transfer.py).  A calculation reads the project's state, marks its  *)
(* attribute RUNNING and hands over to a daemon thread that runs the       *)
(* attribute's code in a container and writes the values into the records. *)
(*                                                                         *)
(* A calculation is named by the request that started it, one per element  *)
(* of Request; the recalculation starts at most one per attribute, which   *)
(* is named by the attribute.                                              *)
(***************************************************************************)
EXTENDS Naturals, FiniteSets

CONSTANTS Attribute, Request,
          Text,          \* the attributes of data type TEXT
          Name,          \* the name of each attribute
          MaxFaults,     \* calls to docker, s3 or a service that may raise
          MaxCrashes     \* restarts of the gateway process

ASSUME AttributeAssumption ==
  /\ Text \subseteq Attribute
  /\ DOMAIN Name = Attribute
  /\ "project" \notin Attribute
  /\ MaxFaults \in Nat
  /\ MaxCrashes \in Nat

VARIABLES
  astate,      \* state column of the attribute ("NONE": not created yet)
  data,        \* names for which the records hold values
  queued,      \* tokenizations in the queue: attributes, or "project"
  tokenizing,  \* tokenizations the tokenizer works on
  pc, target,  \* place and attribute of each calculation
  payload,     \* attributes whose result object is in s3
  deleting,    \* place of delete_attribute per attribute
  import,      \* place of the request that imports records
  rpc, todo, head,   \* the recalculation: place, attribute_ids, and its head
  faults, crashes,
  raced,       \* history: two calculations passed the check before one was marked
  doubled,     \* history: attributes with two calculations at a time
  cancelled,   \* history: attributes cancelled before the state was last loaded
  recalculated,\* history: the attributes the recalculation was for
  hasty,       \* history: attributes the recalculation was done with while
               \* their tokenization was still in the queue
  disturbed    \* history: something happened that may fail the recalculation

calcVars   == <<pc, target, payload>>
tokenVars  == <<queued, tokenizing>>
recalcVars == <<import, rpc, todo, head>>
bounds     == <<faults, crashes>>
history    == <<raced, doubled, cancelled, recalculated, hasty, disturbed>>
vars == <<astate, data, tokenVars, calcVars, deleting, recalcVars, bounds, history>>

Calculation == Request \cup Attribute
InThread == {"exec", "container", "collect", "write", "publish", "queue",
             "verify", "report", "usable"}
Untokenized == queued \cup tokenizing
Exists(a) == astate[a] \notin {"NONE", "GONE"}
RunningAttributes == {a \in Attribute : astate[a] = "RUNNING"}
CalculationsOf(a) == {c \in Calculation : target[c] = a /\ pc[c] \in InThread}

Init ==
  /\ astate = [a \in Attribute |-> "NONE"]
  /\ data = {}
  /\ queued = {}
  /\ tokenizing = {}
  /\ pc = [c \in Calculation |-> "idle"]
  /\ target \in [Calculation -> Attribute]
  /\ \A a \in Attribute : target[a] = a
  /\ payload = {}
  /\ deleting = [a \in Attribute |-> "no"]
  /\ import = "none"
  /\ rpc = "idle"
  /\ todo = {}
  /\ head = {}
  /\ faults = 0
  /\ crashes = 0
  /\ raced = FALSE
  /\ doubled = {}
  /\ cancelled = {}
  /\ recalculated = {}
  /\ hasty = {}
  /\ disturbed = FALSE

-----------------------------------------------------------------------------
(* Building blocks *)

Goto(c, place) == pc' = [pc EXCEPT ![c] = place]
SetState(a, value) == astate' = [astate EXCEPT ![a] = value]

Raise == faults < MaxFaults /\ faults' = faults + 1 /\ UNCHANGED crashes

(* __notify_attribute_calculation_failed: the calculation ends, its attribute *)
(* is FAILED.                                                                 *)
Fail(c) == SetState(target[c], "FAILED") /\ Goto(c, "done")

(* With the attribute deleted every further statement of the calculation      *)
(* raises, also in its exception handlers: the thread ends.                   *)
AttributeGone(c) ==
  /\ pc[c] \notin {"idle", "container", "done"}
  /\ ~Exists(target[c])
  /\ Goto(c, "done")
  /\ UNCHANGED <<astate, data, tokenVars, target, payload, deleting, recalcVars,
                 bounds, history>>

-----------------------------------------------------------------------------
(* The attribute itself *)

CreateAttribute(a) ==
  /\ astate[a] = "NONE"
  /\ SetState(a, "INITIAL")
  /\ UNCHANGED <<data, tokenVars, calcVars, deleting, recalcVars, bounds, history>>

(* delete_attribute removes the values of an attribute that it finds usable,  *)
(* commits, and then removes the attribute.                                   *)
DeleteValues(a) ==
  /\ Exists(a)
  /\ deleting[a] = "no"
  /\ data' = IF astate[a] = "USABLE" THEN data \ {Name[a]} ELSE data
  /\ deleting' = [deleting EXCEPT ![a] = "row"]
  /\ disturbed' = TRUE
  /\ UNCHANGED <<astate, tokenVars, calcVars, recalcVars, bounds,
                 raced, doubled, cancelled, recalculated, hasty>>

DeleteAttribute(a) ==
  /\ deleting[a] = "row"
  /\ SetState(a, "GONE")
  /\ deleting' = [deleting EXCEPT ![a] = "done"]
  /\ UNCHANGED <<data, tokenVars, calcVars, recalcVars, bounds, history>>

(* cancel_attribute_calculation sets the state; it is seen by a calculation    *)
(* that has not loaded the state for the last time.                            *)
Cancel(a) ==
  /\ astate[a] = "RUNNING"
  /\ SetState(a, "FAILED")
  /\ cancelled' = IF \A c \in CalculationsOf(a) : pc[c] # "usable"
                  THEN cancelled \cup {a} ELSE cancelled
  /\ disturbed' = TRUE
  /\ UNCHANGED <<data, tokenVars, calcVars, deleting, recalcVars, bounds,
                 raced, doubled, recalculated, hasty>>

-----------------------------------------------------------------------------
(* calculate_user_attribute_all_records *)

RequestCalculation(c) ==
  /\ c \in Request
  /\ pc[c] = "idle"
  /\ Exists(target[c])
  /\ Goto(c, "check")
  /\ disturbed' = TRUE
  /\ UNCHANGED <<astate, data, tokenVars, target, payload, deleting, recalcVars,
                 bounds, raced, doubled, cancelled, recalculated, hasty>>

(* The set of equally named attributes intersected with the usable ones, as   *)
(* the code counts it: the attribute itself belongs to it when it is usable.  *)
UsableOfThatName(a) ==
  {b \in Attribute : Name[b] = Name[a] /\ astate[b] = "USABLE"}

(* Mutant: a RUNNING attribute does not keep another one from being started.  *)
RefusedUnlessRunning(a) ==
  Untokenized # {} \/ Cardinality(UsableOfThatName(a)) > 1

(* Another attribute is running, tokenization is not finished, or the name is *)
(* taken.                                                                     *)
Refused(a) ==
  \/ RunningAttributes # {}
  \/ Untokenized # {}
  \/ Cardinality(UsableOfThatName(a)) > 1

Refuse(c) ==
  /\ pc[c] = "check"
  /\ Exists(target[c])
  /\ Refused(target[c])
  /\ Fail(c)
  /\ UNCHANGED <<data, tokenVars, target, payload, deleting, recalcVars, bounds,
                 history>>

Accept(c) ==
  /\ pc[c] = "check"
  /\ Exists(target[c])
  /\ ~Refused(target[c])
  /\ Goto(c, "mark")
  /\ raced' = (raced \/ \E other \in Calculation : pc[other] = "mark")
  /\ UNCHANGED <<astate, data, tokenVars, target, payload, deleting, recalcVars,
                 bounds, doubled, cancelled, recalculated, hasty, disturbed>>

MarkRunning(c) ==
  /\ pc[c] = "mark"
  /\ Exists(target[c])
  /\ SetState(target[c], "RUNNING")
  /\ Goto(c, "exec")
  /\ doubled' = IF CalculationsOf(target[c]) = {} THEN doubled
                                                 ELSE doubled \cup {target[c]}
  /\ cancelled' = cancelled \ {target[c]}
  /\ UNCHANGED <<data, tokenVars, target, payload, deleting, recalcVars, bounds,
                 raced, recalculated, hasty, disturbed>>

-----------------------------------------------------------------------------
(* __calculate_user_attribute_all_records *)

StartContainer(c) ==
  /\ pc[c] = "exec"
  /\ Exists(target[c])
  /\ Goto(c, "container")
  /\ UNCHANGED <<astate, data, tokenVars, target, payload, deleting, recalcVars,
                 bounds, history>>

(* Any s3 or docker call of run_attribute_calculation_exec_env raises.        *)
ExecutionRaises(c) ==
  /\ pc[c] \in {"exec", "collect"}
  /\ Exists(target[c])
  /\ Raise
  /\ Fail(c)
  /\ disturbed' = TRUE
  /\ UNCHANGED <<data, tokenVars, target, payload, deleting, recalcVars,
                 raced, doubled, cancelled, recalculated, hasty>>

(* The container uploads values or, when the code fails, nothing.             *)
ContainerExit(c) ==
  /\ pc[c] = "container"
  /\ \E ok \in BOOLEAN :
       /\ payload' = IF ok THEN payload \cup {target[c]} ELSE payload
       /\ disturbed' = (disturbed \/ ~ok)
  /\ Goto(c, "collect")
  /\ UNCHANGED <<astate, data, tokenVars, target, deleting, recalcVars, bounds,
                 raced, doubled, cancelled, recalculated, hasty>>

(* The object is read and deleted; without values the calculation fails.      *)
CollectValues(c) ==
  /\ pc[c] = "collect"
  /\ Exists(target[c])
  /\ payload' = payload \ {target[c]}
  /\ IF target[c] \in payload
     THEN Goto(c, "write") /\ UNCHANGED astate
     ELSE Fail(c)
  /\ UNCHANGED <<data, tokenVars, target, deleting, recalcVars, bounds, history>>

WriteValues(c) ==
  /\ pc[c] = "write"
  /\ Exists(target[c])
  /\ data' = data \cup {Name[target[c]]}
  /\ Goto(c, "publish")
  /\ UNCHANGED <<astate, tokenVars, target, payload, deleting, recalcVars, bounds,
                 history>>

(* Mutant: the handler of a raising write does not end the calculation.       *)
WriteRaisesGoesOn(c) ==
  /\ pc[c] = "write"
  /\ Exists(target[c])
  /\ Raise
  /\ data' = data \ {Name[target[c]]}
  /\ Goto(c, "publish")
  /\ UNCHANGED <<astate, tokenVars, target, payload, deleting, recalcVars, history>>

(* Writing, or queueing the tokenization of a TEXT attribute, raises: the     *)
(* values are deleted again.                                                  *)
WriteRaises(c) ==
  /\ pc[c] \in {"write", "queue"}
  /\ Exists(target[c])
  /\ Raise
  /\ data' = data \ {Name[target[c]]}
  /\ Fail(c)
  /\ disturbed' = TRUE
  /\ UNCHANGED <<tokenVars, target, payload, deleting, recalcVars,
                 raced, doubled, cancelled, recalculated, hasty>>

(* The attribute is fetched: a TEXT attribute that is not FAILED is to be      *)
(* tokenized, the values of any other are added to the docbins.               *)
PublishValues(c) ==
  /\ pc[c] = "publish"
  /\ Exists(target[c])
  /\ Goto(c, IF target[c] \in Text /\ astate[target[c]] # "FAILED"
             THEN "queue" ELSE "verify")
  /\ UNCHANGED <<astate, data, tokenVars, target, payload, deleting, recalcVars,
                 bounds, history>>

(* The log entry expired the attribute and its id loads it again, before the  *)
(* task is queued; what is fetched after the call is the object loaded here.  *)
TokenizeValues(c) ==
  /\ pc[c] = "queue"
  /\ Exists(target[c])
  /\ queued' = queued \cup {target[c]}
  /\ Goto(c, IF astate[target[c]] = "FAILED" THEN "report" ELSE "usable")
  /\ UNCHANGED <<astate, data, tokenizing, target, payload, deleting, recalcVars,
                 bounds, history>>

(* request_reupload_docbins is in no try: when it raises the thread ends and  *)
(* the attribute keeps its state.                                             *)
ReuploadRaises(c) ==
  /\ pc[c] = "publish"
  /\ Exists(target[c])
  /\ target[c] \notin Text \/ astate[target[c]] = "FAILED"
  /\ Raise
  /\ Goto(c, "done")
  /\ disturbed' = TRUE
  /\ UNCHANGED <<astate, data, tokenVars, target, payload, deleting, recalcVars,
                 raced, doubled, cancelled, recalculated, hasty>>

(* Mutant: the state is taken from the attribute fetched before the write.    *)
VerifyStateStale(c) ==
  /\ pc[c] = "verify"
  /\ Exists(target[c])
  /\ Goto(c, "usable")
  /\ UNCHANGED <<astate, data, tokenVars, target, payload, deleting, recalcVars,
                 bounds, history>>

(* Without a tokenization the attribute is loaded again here.                 *)
VerifyState(c) ==
  /\ pc[c] = "verify"
  /\ Exists(target[c])
  /\ Goto(c, IF astate[target[c]] = "FAILED" THEN "report" ELSE "usable")
  /\ UNCHANGED <<astate, data, tokenVars, target, payload, deleting, recalcVars,
                 bounds, history>>

(* A cancelled attribute is reported, and set, as failed.                     *)
ReportFailure(c) ==
  /\ pc[c] = "report"
  /\ Exists(target[c])
  /\ Fail(c)
  /\ UNCHANGED <<data, tokenVars, target, payload, deleting, recalcVars, bounds,
                 history>>

MarkUsable(c) ==
  /\ pc[c] = "usable"
  /\ Exists(target[c])
  /\ SetState(target[c], "USABLE")
  /\ Goto(c, "done")
  /\ UNCHANGED <<data, tokenVars, target, payload, deleting, recalcVars, bounds,
                 history>>

CalculationStep(c) ==
  \/ Refuse(c) \/ Accept(c) \/ MarkRunning(c)
  \/ StartContainer(c) \/ ExecutionRaises(c) \/ ContainerExit(c) \/ CollectValues(c)
  \/ WriteValues(c) \/ WriteRaises(c) \/ PublishValues(c) \/ TokenizeValues(c)
  \/ ReuploadRaises(c) \/ VerifyState(c) \/ ReportFailure(c) \/ MarkUsable(c)
  \/ AttributeGone(c)

-----------------------------------------------------------------------------
(* init_file_import and the recalculation thread it starts *)

ImportRecords ==
  /\ import = "none"
  /\ import' = "recalculating"
  /\ rpc' = "start"
  /\ UNCHANGED <<astate, data, tokenVars, calcVars, deleting, todo, head, bounds,
                 history>>

(* The project's tokenization is queued after the thread was started; the     *)
(* thread only sleeps five seconds for it.                                    *)
QueueTokenization ==
  /\ import = "recalculating"
  /\ import' = "queued"
  /\ queued' = queued \cup {"project"}
  /\ disturbed' = (disturbed \/ rpc \notin {"start", "wait"})
  /\ UNCHANGED <<astate, data, tokenizing, calcVars, deleting, rpc, todo, head, bounds,
                 raced, doubled, cancelled, recalculated, hasty>>

TokenizationStarts(t) ==
  /\ t \in queued
  /\ queued' = queued \ {t}
  /\ tokenizing' = tokenizing \cup {t}
  /\ UNCHANGED <<astate, data, calcVars, deleting, recalcVars, bounds, history>>

TokenizationEnds(t) ==
  /\ t \in tokenizing
  /\ tokenizing' = tokenizing \ {t}
  /\ UNCHANGED <<astate, data, queued, calcVars, deleting, recalcVars, bounds, history>>

RecalculateUsable ==
  /\ rpc = "start"
  /\ LET usable == {a \in Attribute : astate[a] = "USABLE"} IN
       /\ todo' = usable
       /\ recalculated' = usable
       /\ astate' = [a \in Attribute |-> IF a \in usable THEN "INITIAL" ELSE astate[a]]
       /\ rpc' = IF usable = {} THEN "done" ELSE "wait"
  /\ disturbed' = \/ RunningAttributes # {}
                  \/ \E c \in Calculation : pc[c] \notin {"idle", "done"}
                  \/ \E a \in Attribute : deleting[a] = "row"
  /\ UNCHANGED <<data, tokenVars, calcVars, deleting, import, head, bounds,
                 raced, doubled, cancelled, hasty>>

(* Mutant: the recalculation does not wait for the tokenization.              *)
AwaitNothing ==
  /\ rpc = "wait"
  /\ rpc' = "loop"
  /\ UNCHANGED <<astate, data, tokenVars, calcVars, deleting, import, todo, head,
                 bounds, history>>

AwaitTokenization ==
  /\ rpc = "wait"
  /\ Untokenized = {}
  /\ rpc' = "loop"
  /\ UNCHANGED <<astate, data, tokenVars, calcVars, deleting, import, todo, head,
                 bounds, history>>

(* attribute_ids[0]: the ids are ordered by position, here any order.         *)
TakeHead ==
  /\ rpc = "loop"
  /\ head = {}
  /\ IF todo = {} THEN rpc' = "done" /\ UNCHANGED head
                  ELSE UNCHANGED rpc /\ \E a \in todo : head' = {a}
  /\ UNCHANGED <<astate, data, tokenVars, calcVars, deleting, import, todo,
                 bounds, history>>

(* An INITIAL head is calculated: the call checks and marks in this thread.   *)
CalculateHead(a) ==
  /\ rpc = "loop"
  /\ head = {a}
  /\ astate[a] = "INITIAL"
  /\ pc[a] = "idle"
  /\ Goto(a, "check")
  /\ rpc' = "calling"
  /\ UNCHANGED <<astate, data, tokenVars, target, payload, deleting, import, todo,
                 head, bounds, history>>

CalculateReturns(a) ==
  /\ rpc = "calling"
  /\ head = {a}
  /\ pc[a] \notin {"check", "mark"}
  /\ rpc' = "loop"
  /\ UNCHANGED <<astate, data, tokenVars, calcVars, deleting, import, todo, head,
                 bounds, history>>

(* A tokenization of some attribute of this name is under way; one that is    *)
(* only queued does not count here.                                           *)
BeingTokenized(a) == \E b \in tokenizing \cap Attribute : Name[b] = Name[a]

(* Mutant: only a USABLE head is taken off the list.                          *)
PopHeadIfUsable(a) ==
  /\ rpc = "loop"
  /\ head = {a}
  /\ astate[a] = "USABLE"
  /\ ~BeingTokenized(a)
  /\ todo' = todo \ {a}
  /\ head' = {}
  /\ UNCHANGED <<astate, data, tokenVars, calcVars, deleting, import, rpc, bounds,
                 history>>

(* A head that is neither INITIAL nor RUNNING, nor being tokenized, is done.  *)
PopHead(a) ==
  /\ rpc = "loop"
  /\ head = {a}
  /\ astate[a] \in {"USABLE", "FAILED"}
  /\ ~BeingTokenized(a)
  /\ todo' = todo \ {a}
  /\ head' = {}
  /\ hasty' = IF a \in queued THEN hasty \cup {a} ELSE hasty
  /\ UNCHANGED <<astate, data, tokenVars, calcVars, deleting, import, rpc, bounds,
                 raced, doubled, cancelled, recalculated, disturbed>>

(* The head was deleted: the exception handler fails every INITIAL attribute  *)
(* of the project.                                                            *)
HeadGone(a) ==
  /\ rpc = "loop"
  /\ head = {a}
  /\ ~Exists(a)
  /\ astate' = [b \in Attribute |-> IF astate[b] = "INITIAL" THEN "FAILED" ELSE astate[b]]
  /\ rpc' = "done"
  /\ UNCHANGED <<data, tokenVars, calcVars, deleting, import, todo, head, bounds,
                 history>>

RecalculationStep ==
  \/ RecalculateUsable \/ AwaitTokenization \/ TakeHead
  \/ \E a \in Attribute :
       CalculateHead(a) \/ CalculateReturns(a) \/ PopHead(a) \/ HeadGone(a)

(* Threads and requests die; the database survives.                           *)
Crash ==
  /\ crashes < MaxCrashes
  /\ crashes' = crashes + 1
  /\ pc' = [c \in Calculation |-> IF pc[c] = "idle" THEN "idle" ELSE "done"]
  /\ deleting' = [a \in Attribute |-> IF deleting[a] = "row" THEN "lost" ELSE deleting[a]]
  /\ rpc' = IF rpc = "idle" THEN "idle" ELSE "lost"
  /\ import' = IF import = "recalculating" THEN "lost" ELSE import
  /\ UNCHANGED <<astate, data, tokenVars, target, payload, todo, head, faults, history>>

Next ==
  \/ \E a \in Attribute : \/ CreateAttribute(a) \/ DeleteValues(a)
                          \/ DeleteAttribute(a) \/ Cancel(a)
  \/ \E c \in Calculation : RequestCalculation(c) \/ CalculationStep(c)
  \/ ImportRecords \/ QueueTokenization \/ RecalculationStep
  \/ \E t \in Attribute \cup {"project"} : TokenizationStarts(t) \/ TokenizationEnds(t)
  \/ Crash

Spec == Init /\ [][Next]_vars

(* Threads that can go on do, deletions are carried through, containers end   *)
(* and the tokenizer works off its queue.                                     *)
FairSpec ==
  /\ Spec
  /\ \A c \in Calculation : WF_vars(CalculationStep(c))
  /\ \A a \in Attribute : WF_vars(DeleteAttribute(a))
  /\ WF_vars(RecalculationStep)
  /\ \A t \in Attribute \cup {"project"} : /\ WF_vars(TokenizationStarts(t))
                                           /\ WF_vars(TokenizationEnds(t))

-----------------------------------------------------------------------------
(* Properties *)

(* Every variable keeps its type. *)
TypeOK ==
  /\ astate \in [Attribute -> {"NONE", "INITIAL", "RUNNING", "USABLE", "FAILED", "GONE"}]
  /\ data \subseteq {Name[a] : a \in Attribute}
  /\ queued \subseteq Attribute \cup {"project"}
  /\ tokenizing \subseteq Attribute \cup {"project"}
  /\ pc \in [Calculation -> {"idle", "check", "mark", "done"} \cup InThread]
  /\ target \in [Calculation -> Attribute]
  /\ payload \subseteq Attribute
  /\ deleting \in [Attribute -> {"no", "row", "done", "lost"}]
  /\ import \in {"none", "recalculating", "queued", "lost"}
  /\ rpc \in {"idle", "start", "wait", "loop", "calling", "done", "lost"}
  /\ todo \subseteq Attribute
  /\ head \subseteq Attribute
  /\ faults \in 0..MaxFaults
  /\ crashes \in 0..MaxCrashes
  /\ raced \in BOOLEAN
  /\ doubled \subseteq Attribute
  /\ cancelled \subseteq Attribute
  /\ recalculated \subseteq Attribute
  /\ hasty \subseteq Attribute
  /\ disturbed \in BOOLEAN

(* Two attributes run at the same time only when two requests passed the     *)
(* check before either of them had marked its attribute RUNNING.             *)
OneRunningUnlessRaced ==
  ~raced => \A a, b \in RunningAttributes : a = b

(* "Another attribute with the same name is already in state usable or       *)
(* uploaded.": a calculation that passes the check has no usable namesake.   *)
NoUsableNamesake ==
  [][\A c \in Calculation :
       pc[c] = "check" /\ pc'[c] = "mark"
         => UsableOfThatName(target[c]) \subseteq {target[c]}]_vars

(* The values of a USABLE attribute are in the records, unless two threads   *)
(* calculated it at once, it is being deleted, or a namesake interfered.     *)
UsableHasValues ==
  \A a \in Attribute \ doubled :
    /\ astate[a] = "USABLE"
    /\ deleting[a] = "no"
    /\ \A b \in Attribute \ {a} : Name[b] # Name[a]
    => Name[a] \in data

(* A cancel that comes before the thread loads the attribute for the last    *)
(* time (for a TEXT attribute before its tokenization is queued, otherwise   *)
(* after the docbins were handled) keeps it from becoming USABLE until it is *)
(* calculated anew.  A cancel during the queueing is overwritten.            *)
CancelHonoured ==
  \A a \in cancelled : astate[a] \in {"FAILED", "GONE"}

(* Of equally named attributes the check lets no more than two become usable. *)
Crowded(a) ==
  \E b, c \in recalculated \ {a} : b # c /\ Name[b] = Name[a] /\ Name[c] = Name[a]

(* If nothing interfered (no request, cancel or deletion by a user, no       *)
(* raising call, no failing code, no late tokenization of the project, no    *)
(* restart) every attribute that was usable before the import is usable      *)
(* after it, unless two others of its name were, too, or the loop was done   *)
(* with another attribute while the tokenization of that one was queued: the *)
(* attributes after it may then find tokenization unfinished and fail.       *)
RecalculationRestores ==
  rpc = "done" /\ ~disturbed =>
    \A a \in recalculated : astate[a] = "USABLE" \/ Crowded(a) \/ hasty \ {a} # {}

(* Every RUNNING attribute leaves that state and the recalculation comes to   *)
(* an end, unless a call raises or the gateway is restarted.                 *)
CalculationsEnd ==
  /\ \A a \in Attribute : astate[a] = "RUNNING" ~> astate[a] # "RUNNING" \/ faults + crashes > 0
  /\ rpc = "start" ~> rpc = "done" \/ faults + crashes > 0
=============================================================================
