----------------------------- MODULE PayloadRun -----------------------------
(***************************************************************************)
(* The runs of ONE information source (a labeling function or an active    *)
(* learner), as controller/payload/payload_scheduler.py executes them.     *)
(* Every run owns a payload row, a run thread, a docker container and a    *)
(* thread that polls the container's logs; all runs of the source share    *)
(* its result rows (record_label_association) and, for an active learner,  *)
(* its statistics exclusions.  An administrator may cancel a payload and a *)
(* user may delete the whole source while runs are under way.              *)
(*                                                                         *)
(* Payload identifies a run; pc[p] is the place of its run thread, named   *)
(* after the statement it executes next.  One step is the code between two *)
(* points at which another thread's committed work can become visible.     *)
(***************************************************************************)
EXTENDS Naturals, FiniteSets

CONSTANTS Payload,          \* the payload ids that may be created
          ActiveLearning,   \* TRUE: the source is an active learner
          ReportedProgress, \* percentages a container's log lines report,
                            \* after the reader's factor 0.8
          MaxFaults,        \* calls to s3 or docker that may raise
          MaxCrashes        \* restarts of the gateway process

ASSUME PayloadAssumption ==
  /\ IsFiniteSet(Payload)
  /\ ActiveLearning \in BOOLEAN
  /\ ReportedProgress \subseteq 0..80
  /\ MaxFaults \in Nat
  /\ MaxCrashes \in Nat

VARIABLES
  pstate,      \* state column of the payload row ("NONE": not inserted, "GONE": deleted)
  iteration,   \* iteration column, or the count read for it
  progress,    \* progress column, in percent
  held,        \* the payload's state as the session of its run last loaded it
  pc,          \* place of the run thread
  running,     \* keys of __containers_running
  container,   \* the docker container of the run
  reader,      \* the thread in read_container_logs_thread
  temp,        \* which of the run's input objects are in s3
  output,      \* the run's output object in s3
  rows,        \* runs whose results are in the database
  snapshot,    \* the results the open transaction of a run deletes
  exclusions,  \* runs whose statistics exclusions are in the database
  notes,       \* notifications the user got about the run's outcome
  stats,       \* runs for which source statistics were requested
  deleted,     \* the source was deleted
  faults, crashes,
  met,         \* history: pairs of runs that were active at the same time
  cancelled,   \* history: runs cancelled before they last loaded their payload
  late         \* history: runs whose reader wrote after the container ended

rowVars    == <<pstate, iteration, progress, held>>
dockerVars == <<running, container, reader>>
s3Vars     == <<temp, output>>
dataVars   == <<rows, snapshot, exclusions>>
userVars   == <<notes, stats, deleted>>
bounds     == <<faults, crashes>>
history    == <<met, cancelled, late>>
vars == <<rowVars, pc, dockerVars, s3Vars, dataVars, userVars, bounds, history>>

(* What a container leaves in s3: nothing, results that can be written, or    *)
(* results of which the checks refuse some label or some span of tokens.      *)
Output == {"absent", "good", "bad"}

BeforeLook == {"exclude", "addExclusions", "input", "put", "container",
               "start", "stream", "collect"}
BeforeCheck == BeforeLook \cup {"tidy", "check"}
Place == BeforeCheck \cup
           {"idle", "create", "write", "commit", "wipe", "finish", "announce",
            "inner", "output", "stats", "outer", "done", "killed"}

(* A run is active from the request until its thread returns or is killed. *)
Active(p) == pc[p] \notin {"idle", "done", "killed"}

Init ==
  /\ pstate = [p \in Payload |-> "NONE"]
  /\ iteration = [p \in Payload |-> 0]
  /\ progress = [p \in Payload |-> 0]
  /\ held = [p \in Payload |-> "NONE"]
  /\ pc = [p \in Payload |-> "idle"]
  /\ running = {}
  /\ container = [p \in Payload |-> "none"]
  /\ reader = [p \in Payload |-> "off"]
  /\ temp = [p \in Payload |-> {}]
  /\ output = [p \in Payload |-> "absent"]
  /\ rows = {}
  /\ snapshot = [p \in Payload |-> {}]
  /\ exclusions = {}
  /\ notes = [p \in Payload |-> {}]
  /\ stats = {}
  /\ deleted = FALSE
  /\ faults = 0
  /\ crashes = 0
  /\ met = {}
  /\ cancelled = {}
  /\ late = {}

-----------------------------------------------------------------------------
(* Building blocks *)

Goto(p, place) == pc' = [pc EXCEPT ![p] = place]

(* An external call of run p raises; the handler it lands in is `place`. *)
Raise(p, place) ==
  /\ faults < MaxFaults
  /\ faults' = faults + 1
  /\ Goto(p, place)
  /\ UNCHANGED crashes

(* Deleting the source removes its payload rows, so that the next statement *)
(* of the run that needs its row raises.                                    *)
RowGone(p, here, place) ==
  /\ pc[p] = here
  /\ deleted
  /\ Goto(p, place)
  /\ UNCHANGED <<rowVars, dockerVars, s3Vars, dataVars, userVars, bounds, history>>

SetProgress(p, value) == progress' = [progress EXCEPT ![p] = value]

-----------------------------------------------------------------------------
(* create_payload: count the payloads, then insert the row *)

Request(p) ==
  /\ pc[p] = "idle"
  /\ ~deleted
  /\ iteration' = [iteration EXCEPT
                     ![p] = Cardinality({q \in Payload : pstate[q] # "NONE"}) + 1]
  /\ Goto(p, "create")
  /\ met' = met \cup {{p, q} : q \in {r \in Payload : Active(r)}}
  /\ UNCHANGED <<pstate, progress, held, dockerVars, s3Vars, dataVars, userVars,
                 bounds, cancelled, late>>

Create(p) ==
  /\ pc[p] = "create"
  /\ ~deleted
  /\ pstate' = [pstate EXCEPT ![p] = "CREATED"]
  /\ Goto(p, IF ActiveLearning THEN "exclude" ELSE "input")
  /\ UNCHANGED <<iteration, progress, held, dockerVars, s3Vars, dataVars, userVars,
                 bounds, history>>

-----------------------------------------------------------------------------
(* prepare_input_data_for_payload *)

DeleteExclusions(p) ==
  /\ pc[p] = "exclude"
  /\ ~deleted
  /\ exclusions' = {}
  /\ Goto(p, "addExclusions")
  /\ UNCHANGED <<rowVars, dockerVars, s3Vars, rows, snapshot, userVars, bounds,
                 history>>

AddExclusions(p) ==
  /\ pc[p] = "addExclusions"
  /\ ~deleted
  /\ exclusions' = exclusions \cup {p}
  /\ Goto(p, "input")
  /\ UNCHANGED <<rowVars, dockerVars, s3Vars, rows, snapshot, userVars, bounds,
                 history>>

(* docbin_full or the embedding tensors are in s3, and execution_pipeline   *)
(* loads the payload; otherwise the run is refused.                         *)
PrepareInput(p) ==
  /\ pc[p] = "input"
  /\ Goto(p, IF deleted THEN "inner" ELSE "put")
  /\ UNCHANGED <<rowVars, dockerVars, s3Vars, dataVars, userVars, bounds, history>>

InputMissing(p) ==
  /\ pc[p] = "input"
  /\ Goto(p, "outer")
  /\ UNCHANGED <<rowVars, dockerVars, s3Vars, dataVars, userVars, bounds, history>>

-----------------------------------------------------------------------------
(* run_container *)

(* The function and its input are put one after the other; the second put  *)
(* may raise with the first one done.                                      *)
PutInputs(p) ==
  /\ pc[p] = "put"
  /\ \/ /\ ~deleted
        /\ temp' = [temp EXCEPT ![p] = {"fn", "aux"}]
        /\ SetProgress(p, 0)
        /\ Goto(p, "container")
        /\ UNCHANGED bounds
     \/ /\ deleted
        /\ temp' = [temp EXCEPT ![p] = {"fn", "aux"}]
        /\ Goto(p, "inner")
        /\ UNCHANGED <<progress, bounds>>
     \/ /\ \E stored \in {{}, {"fn"}} : temp' = [temp EXCEPT ![p] = stored]
        /\ Raise(p, "inner")
        /\ UNCHANGED progress
  /\ UNCHANGED <<pstate, iteration, held, dockerVars, output, dataVars, userVars, history>>

(* Creates the container, then writes the progress, then registers the     *)
(* container's name and spawns the reader.                                 *)
CreateContainer(p) ==
  /\ pc[p] = "container"
  /\ container' = [container EXCEPT ![p] = "created"]
  /\ \/ /\ ~deleted
        /\ SetProgress(p, 5)
        /\ running' = running \cup {p}
        /\ reader' = [reader EXCEPT ![p] = "poll"]
        /\ Goto(p, "start")
     \/ /\ deleted
        /\ Goto(p, "inner")
        /\ UNCHANGED <<progress, running, reader>>
  /\ UNCHANGED <<pstate, iteration, held, s3Vars, dataVars, userVars, bounds, history>>

CreateContainerFails(p) ==
  /\ pc[p] = "container"
  /\ Raise(p, "inner")
  /\ UNCHANGED <<rowVars, dockerVars, s3Vars, dataVars, userVars, history>>

StartContainer(p) ==
  /\ pc[p] = "start"
  /\ \/ /\ container' = [container EXCEPT ![p] = "running"]
        /\ Goto(p, "stream")
        /\ UNCHANGED bounds
     \/ /\ Raise(p, "inner")
        /\ UNCHANGED container
  /\ UNCHANGED <<rowVars, running, reader, s3Vars, dataVars, userVars, history>>

(* The log stream ends with the container; then the name is unregistered.  *)
StreamEnds(p) ==
  /\ pc[p] = "stream"
  /\ container[p] \in {"exited", "removed"}
  /\ running' = running \ {p}
  /\ Goto(p, "collect")
  /\ UNCHANGED <<rowVars, container, reader, s3Vars, dataVars, userVars, bounds,
                 history>>

(* The connection to the docker daemon breaks while the logs are streamed. *)
StreamBreaks(p) ==
  /\ pc[p] = "stream"
  /\ Raise(p, "inner")
  /\ UNCHANGED <<rowVars, dockerVars, s3Vars, dataVars, userVars, history>>

(* The commit of the progress expires the payload and the line that reports *)
(* it loads it again.  Up to the next commit of this session every look at  *)
(* the payload gets the object loaded here.                                 *)
CollectLogs(p) ==
  /\ pc[p] = "collect"
  /\ ~deleted
  /\ SetProgress(p, 90)
  /\ held' = [held EXCEPT ![p] = pstate[p]]
  /\ Goto(p, "tidy")
  /\ UNCHANGED <<pstate, iteration, dockerVars, s3Vars, dataVars, userVars, bounds,
                 history>>

(* Mutant: the knowledge base (or input) object is not deleted. *)
DeleteInputsFnOnly(p) ==
  /\ pc[p] = "tidy"
  /\ temp' = [temp EXCEPT ![p] = {"aux"}]
  /\ Goto(p, "check")
  /\ UNCHANGED <<rowVars, dockerVars, output, dataVars, userVars, bounds, history>>

(* An active learner deletes its input, its function and a knowledge base it *)
(* never had; a labeling function its function and then the knowledge base.  *)
(* Each of the calls may raise with the earlier ones done.                   *)
DeleteInputs(p) ==
  /\ pc[p] = "tidy"
  /\ \/ /\ temp' = [temp EXCEPT ![p] = {}]
        /\ Goto(p, "check")
        /\ UNCHANGED bounds
     \/ /\ \E left \in IF ActiveLearning THEN {{"fn", "aux"}, {"fn"}, {}}
                                          ELSE {{"fn", "aux"}, {"aux"}} :
             temp' = [temp EXCEPT ![p] = left]
        /\ Raise(p, "inner")
  /\ UNCHANGED <<rowVars, dockerVars, output, dataVars, userVars, history>>

-----------------------------------------------------------------------------
(* update_records: refuse a run that is known to be cancelled, read the      *)
(* output, write the results                                                *)

(* Mutant: the state is not looked at before the results are written. *)
CheckResultsIgnoringCancel(p) ==
  /\ pc[p] = "check"
  /\ ~deleted
  /\ Goto(p, IF output[p] = "absent" THEN "inner" ELSE "write")
  /\ UNCHANGED <<rowVars, dockerVars, s3Vars, dataVars, userVars, bounds, history>>

CheckResults(p) ==
  /\ pc[p] = "check"
  /\ ~deleted
  /\ Goto(p, IF held[p] = "FAILED" \/ output[p] = "absent" THEN "inner" ELSE "write")
  /\ UNCHANGED <<rowVars, dockerVars, s3Vars, dataVars, userVars, bounds, history>>

(* add_data_classification and add_data_extraction collect the rows and end  *)
(* alike: delete_by_source_id opens the transaction.  Under READ COMMITTED it      *)
(* deletes the rows that were committed when the statement began.           *)
DeleteResults(p) ==
  /\ pc[p] = "write"
  /\ ~deleted
  /\ snapshot' = [snapshot EXCEPT ![p] = rows]
  /\ Goto(p, IF output[p] = "bad" THEN "wipe" ELSE "commit")
  /\ UNCHANGED <<rowVars, dockerVars, s3Vars, rows, exclusions, userVars, bounds,
                 history>>

(* Mutant: the results of earlier runs are not deleted. *)
CommitResultsBesideOld(p) ==
  /\ pc[p] = "commit"
  /\ ~deleted
  /\ rows' = rows \cup {p}
  /\ Goto(p, "finish")
  /\ UNCHANGED <<rowVars, dockerVars, s3Vars, snapshot, exclusions, userVars,
                 bounds, history>>

(* Nothing was refused: the deletion and the new rows are committed.       *)
CommitResults(p) ==
  /\ pc[p] = "commit"
  /\ ~deleted
  /\ rows' = (rows \ snapshot[p]) \cup {p}
  /\ Goto(p, "finish")
  /\ UNCHANGED <<rowVars, dockerVars, s3Vars, snapshot, exclusions, userVars,
                 bounds, history>>

(* Mutant: the deletion also takes results committed after it began. *)
CommitDeletionOfAll(p) ==
  /\ pc[p] = "wipe"
  /\ ~deleted
  /\ rows' = {}
  /\ Goto(p, "inner")
  /\ UNCHANGED <<rowVars, dockerVars, s3Vars, snapshot, exclusions, userVars,
                 bounds, history>>

(* A label or a span was refused: only the deletion is committed and         *)
(* update_records reports an error.                                         *)
CommitDeletion(p) ==
  /\ pc[p] = "wipe"
  /\ ~deleted
  /\ rows' = rows \ snapshot[p]
  /\ Goto(p, "inner")
  /\ UNCHANGED <<rowVars, dockerVars, s3Vars, snapshot, exclusions, userVars,
                 bounds, history>>

-----------------------------------------------------------------------------
(* The end of execution_pipeline and the two exception handlers *)

Finish(p) ==
  /\ pc[p] = "finish"
  /\ ~deleted
  /\ pstate' = [pstate EXCEPT ![p] = "FINISHED"]
  /\ SetProgress(p, 100)
  /\ Goto(p, "announce")
  /\ UNCHANGED <<iteration, held, dockerVars, s3Vars, dataVars, userVars, bounds, history>>

(* Sending the progress and the notification is still inside the try.       *)
Announce(p) ==
  /\ pc[p] = "announce"
  /\ \/ /\ notes' = [notes EXCEPT ![p] = @ \cup {"completed"}]
        /\ Goto(p, "output")
        /\ UNCHANGED bounds
     \/ /\ Raise(p, "inner")
        /\ UNCHANGED notes
  /\ UNCHANGED <<rowVars, dockerVars, s3Vars, dataVars, stats, deleted, history>>

(* Mutant: the handler does not set the state. *)
InnerHandlerSilent(p) ==
  /\ pc[p] = "inner"
  /\ ~deleted
  /\ notes' = [notes EXCEPT ![p] = @ \cup {"failed"}]
  /\ Goto(p, "output")
  /\ UNCHANGED <<rowVars, dockerVars, s3Vars, dataVars, stats, deleted, bounds,
                 history>>

(* FAILED is committed before the user is told, which may raise in turn.    *)
InnerHandler(p) ==
  /\ pc[p] = "inner"
  /\ ~deleted
  /\ pstate' = [pstate EXCEPT ![p] = "FAILED"]
  /\ \/ /\ notes' = [notes EXCEPT ![p] = @ \cup {"failed"}]
        /\ Goto(p, "output")
        /\ UNCHANGED bounds
     \/ /\ Raise(p, "outer")
        /\ UNCHANGED notes
  /\ UNCHANGED <<iteration, progress, held, dockerVars, s3Vars, dataVars, stats, deleted,
                 history>>

(* s3.delete_object is outside the inner try: when it raises, the outer     *)
(* handler of prepare_and_run_execution_pipeline takes over.                *)
DeleteOutput(p) ==
  /\ pc[p] = "output"
  /\ \/ /\ output' = [output EXCEPT ![p] = "absent"]
        /\ Goto(p, "stats")
        /\ UNCHANGED bounds
     \/ /\ Raise(p, "outer")
        /\ UNCHANGED output
  /\ UNCHANGED <<rowVars, dockerVars, temp, dataVars, userVars, history>>

(* Statistics are requested for a run that is (still) FINISHED; a failing   *)
(* request is only printed.                                                 *)
CalculateStats(p) ==
  /\ pc[p] = "stats"
  /\ ~deleted
  /\ stats' = IF pstate[p] = "FINISHED" THEN stats \cup {p} ELSE stats
  /\ Goto(p, "done")
  /\ UNCHANGED <<rowVars, dockerVars, s3Vars, dataVars, notes, deleted, bounds,
                 history>>

OuterHandler(p) ==
  /\ pc[p] = "outer"
  /\ ~deleted
  /\ pstate' = [pstate EXCEPT ![p] = "FAILED"]
  /\ notes' = [notes EXCEPT ![p] = @ \cup {"failed"}]
  /\ Goto(p, "done")
  /\ UNCHANGED <<iteration, progress, held, dockerVars, s3Vars, dataVars, stats, deleted,
                 bounds, history>>

(* With the row gone each of these places ends in the handler around it;    *)
(* the handlers need the row themselves and pass the exception on.          *)
SourceGone(p) ==
  \/ \E here \in {"collect", "check", "write", "commit", "wipe", "finish"} :
       RowGone(p, here, "inner")
  \/ \E here \in {"exclude", "addExclusions", "inner", "stats"} :
       RowGone(p, here, "outer")
  \/ \E here \in {"create", "outer"} : RowGone(p, here, "done")

RunStep(p) ==
  \/ Create(p) \/ DeleteExclusions(p) \/ AddExclusions(p)
  \/ PrepareInput(p) \/ InputMissing(p)
  \/ PutInputs(p) \/ CreateContainer(p) \/ CreateContainerFails(p)
  \/ StartContainer(p) \/ StreamEnds(p) \/ StreamBreaks(p)
  \/ CollectLogs(p) \/ DeleteInputs(p)
  \/ CheckResults(p) \/ DeleteResults(p) \/ CommitResults(p) \/ CommitDeletion(p)
  \/ Finish(p) \/ Announce(p) \/ InnerHandler(p) \/ DeleteOutput(p) \/ CalculateStats(p)
  \/ OuterHandler(p) \/ SourceGone(p)

-----------------------------------------------------------------------------
(* read_container_logs_thread *)

(* One turn of the loop up to the log call.  A container that was never     *)
(* started has no logs, one that is gone makes the call raise.              *)
ReaderPoll(p) ==
  /\ reader[p] = "poll"
  /\ \/ /\ p \notin running \/ container[p] = "removed"
        /\ reader' = [reader EXCEPT ![p] = "stopped"]
     \/ /\ p \in running
        /\ container[p] \in {"running", "exited"}
        /\ reader' = [reader EXCEPT ![p] = "apply"]
  /\ UNCHANGED <<rowVars, pc, running, container, s3Vars, dataVars, userVars, bounds,
                 history>>

(* The rest of the turn: commit the progress that was read.  The row may    *)
(* have been deleted meanwhile, which ends the thread.                      *)
ReaderApply(p) ==
  /\ reader[p] = "apply"
  /\ \/ /\ ~deleted
        /\ \E value \in ReportedProgress \cup {progress[p]} : SetProgress(p, value)
        /\ reader' = [reader EXCEPT ![p] = "poll"]
        /\ late' = IF p \in running \/ progress' = progress THEN late
                                                         ELSE late \cup {p}
     \/ /\ deleted
        /\ reader' = [reader EXCEPT ![p] = "stopped"]
        /\ UNCHANGED <<progress, late>>
  /\ UNCHANGED <<pstate, iteration, held, pc, running, container, s3Vars, dataVars,
                 userVars, bounds, met, cancelled>>

ReaderStep(p) == ReaderPoll(p) \/ ReaderApply(p)

-----------------------------------------------------------------------------
(* The docker daemon, the other users, and the process itself *)

(* The container uploads its output, if any, and exits; auto_remove removes *)
(* it.                                                                      *)
ContainerExit(p) ==
  /\ container[p] = "running"
  /\ container' = [container EXCEPT ![p] = "exited"]
  /\ \E uploaded \in Output :
       output' = [output EXCEPT ![p] = uploaded]
  /\ UNCHANGED <<rowVars, pc, running, reader, temp, dataVars, userVars, bounds,
                 history>>

ContainerRemove(p) ==
  /\ container[p] = "exited"
  /\ container' = [container EXCEPT ![p] = "removed"]
  /\ UNCHANGED <<rowVars, pc, running, reader, s3Vars, dataVars, userVars, bounds,
                 history>>

(* cancel_information_source_payload sets the state and nothing else.  The  *)
(* task stays cancellable while the queue takes the run to be under way.    *)
Cancel(p) ==
  /\ \/ pstate[p] = "CREATED"
     \/ pstate[p] = "FINISHED" /\ Active(p)
  /\ ~deleted
  /\ pstate' = [pstate EXCEPT ![p] = "FAILED"]
  /\ cancelled' = IF pc[p] \in BeforeLook THEN cancelled \cup {p} ELSE cancelled
  /\ UNCHANGED <<iteration, progress, held, pc, dockerVars, s3Vars, dataVars, userVars,
                 bounds, met, late>>

(* Deleting the source cascades to its payloads, results and exclusions.    *)
DeleteSource ==
  /\ ~deleted
  /\ \E p \in Payload : pstate[p] # "NONE"
  /\ deleted' = TRUE
  /\ pstate' = [p \in Payload |-> IF pstate[p] = "NONE" THEN "NONE" ELSE "GONE"]
  /\ rows' = {}
  /\ exclusions' = {}
  /\ UNCHANGED <<iteration, progress, held, pc, dockerVars, s3Vars, snapshot, notes, stats, bounds,
                 history>>

(* All threads die and __containers_running is lost; the containers, s3 and *)
(* the database survive.                                                    *)
Crash ==
  /\ crashes < MaxCrashes
  /\ crashes' = crashes + 1
  /\ pc' = [p \in Payload |-> IF Active(p) THEN "killed" ELSE pc[p]]
  /\ running' = {}
  /\ reader' = [p \in Payload |-> IF reader[p] = "off" THEN "off" ELSE "stopped"]
  /\ UNCHANGED <<rowVars, container, s3Vars, dataVars, userVars, faults, history>>

Next ==
  \/ \E p \in Payload : \/ Request(p) \/ RunStep(p) \/ ReaderStep(p)
                        \/ ContainerExit(p) \/ ContainerRemove(p) \/ Cancel(p)
  \/ DeleteSource
  \/ Crash

Spec == Init /\ [][Next]_vars

(* Threads that can take a step take it, and docker removes what exited.    *)
(* Nothing bounds how long a container runs.                                *)
FairSpec ==
  /\ Spec
  /\ \A p \in Payload : /\ WF_vars(RunStep(p))
                        /\ WF_vars(ReaderStep(p))
                        /\ WF_vars(ContainerRemove(p))

-----------------------------------------------------------------------------
(* Properties *)

(* Every variable keeps its type. *)
TypeOK ==
  /\ pstate \in [Payload -> {"NONE", "CREATED", "FINISHED", "FAILED", "GONE"}]
  /\ iteration \in [Payload -> Nat]
  /\ progress \in [Payload -> {0, 5, 90, 100} \cup ReportedProgress]
  /\ held \in [Payload -> {"NONE", "CREATED", "FINISHED", "FAILED", "GONE"}]
  /\ pc \in [Payload -> Place]
  /\ running \subseteq Payload
  /\ container \in [Payload -> {"none", "created", "running", "exited", "removed"}]
  /\ reader \in [Payload -> {"off", "poll", "apply", "stopped"}]
  /\ temp \in [Payload -> SUBSET {"fn", "aux"}]
  /\ output \in [Payload -> Output]
  /\ rows \subseteq Payload
  /\ snapshot \in [Payload -> SUBSET Payload]
  /\ exclusions \subseteq Payload
  /\ notes \in [Payload -> SUBSET {"completed", "failed"}]
  /\ stats \subseteq Payload
  /\ deleted \in BOOLEAN
  /\ faults \in 0..MaxFaults
  /\ crashes \in 0..MaxCrashes
  /\ met \subseteq SUBSET Payload
  /\ cancelled \subseteq Payload
  /\ late \subseteq Payload

(* The result rows of the source come from one run: those of two runs stand *)
(* side by side only when the two were under way at the same time, because  *)
(* delete_by_source_id does not see what the other one commits after it.    *)
MixedResultsOverlap ==
  \A p, q \in rows : p # q => {p, q} \in met

(* A payload cancelled before its run collects the container's logs, which  *)
(* is when it loads the payload for the last time, stays FAILED and never   *)
(* gets results, although update_records looks at the state only after the  *)
(* s3 deletions that follow.  A cancel during those is overwritten.         *)
EarlyCancelHonoured ==
  \A p \in cancelled : pstate[p] \in {"FAILED", "GONE"} /\ p \notin rows


(* Nothing of a run stays in s3 or in __containers_running after it has     *)
(* returned, if it only succeeded or if no external call ever raised.       *)
NothingLeftBehind ==
  \A p \in Payload :
    /\ pc[p] = "done"
    /\ pstate[p] # "GONE"
    /\ faults = 0 \/ notes[p] = {"completed"}
    => temp[p] = {} /\ output[p] = "absent" /\ p \notin running

(* Results of a FINISHED run disappear only because another run's           *)
(* transaction found them and deleted them.                                 *)
ResultsOnlyReplaced ==
  \A p \in Payload :
    /\ pstate[p] = "FINISHED"
    /\ p \notin rows
    => \E q \in Payload \ {p} : p \in snapshot[q]

(* A run that ends with an error leaves the results of earlier runs in      *)
(* place: "If existing, results of previous run are kept." is what the log  *)
(* of the failed payload says.                                              *)
FailedRunKeepsResults ==
  [][\A p \in Payload :
       pc'[p] = "inner" /\ pc[p] # "inner" => rows' = rows]_vars

(* Every payload leaves CREATED, whichever calls raise, provided containers *)
(* do not run for ever and the gateway is not restarted; and the log reader *)
(* of a container that was started and is gone terminates, whether or not   *)
(* the run thread has unregistered the container's name.                    *)
RunsSettle ==
  /\ (\A p \in Payload : []<>(container[p] # "running"))
       => \A p \in Payload : pstate[p] = "CREATED" ~> pstate[p] # "CREATED" \/ crashes > 0
  /\ \A p \in Payload : container[p] = "removed" ~> reader[p] \in {"off", "stopped"}
=============================================================================
