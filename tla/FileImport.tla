----------------------------- MODULE FileImport -----------------------------
(***************************************************************************)
(* The import of an uploaded file with records into ONE project            *)
(* (api/transfer.py, upload_task/manager.py, record_transfer_manager.py).  *)
(* The object store notifies the gateway of every upload: a default task   *)
(* is imported, a COGNITION task is only analysed and PREPARED, and a PUT  *)
(* of the cognition gateway continues it with the mappings it stored.      *)
(*                                                                         *)
(* Notify.post is a coroutine without an await once it has its body, so    *)
(* notifications are handled one after the other; CognitionImport.put runs *)
(* in the thread pool, next to them and next to other PUTs.  The files     *)
(* hold the same records, cut into chunks that are committed one by one.   *)
(***************************************************************************)
EXTENDS Naturals, FiniteSets

CONSTANTS Task, Cognition, Zip, \* tasks, of upload type COGNITION, of protected files
          Notification, Put,    \* deliveries of the object store; continuations
          Job,                  \* the task of each of them
          Keyed,                \* do the records have a primary key?
          Chunks,               \* chunks of a file
          MaxFaults,            \* calls to s3, pandas or a service that raise
          MaxCrashes            \* restarts of the gateway process

Handler == Notification \cup Put

ASSUME ImportAssumption ==
  /\ Cognition \subseteq Task /\ Zip \subseteq Task
  /\ Notification \cap Put = {}
  /\ Job \in [Handler -> Task]
  /\ Keyed \in BOOLEAN
  /\ Chunks \in Nat \ {0}
  /\ MaxFaults \in Nat
  /\ MaxCrashes \in Nat

VARIABLES
  tstate, utype,  \* state and upload_type of the tasks
  key,            \* tasks that still hold the password of their file
  info,           \* file_additional_info of the tasks
  progress,       \* chunks the task reports as imported
  rows,           \* how often each chunk of records is in the project
  pc, mode,       \* place and kind of work of the handlers
  chunk, found,   \* the chunk a handler is at; whether it found its records
  faults, crashes,
  continued,      \* history: PUTs that went on with their task
  raced,          \* history: tasks with two PUTs between check and commit
  overlapped      \* history: two handlers were importing at a time

taskVars    == <<tstate, utype, key, info, progress>>
handlerVars == <<pc, mode, chunk, found>>
bounds      == <<faults, crashes>>
history     == <<continued, raced, overlapped>>
vars == <<taskVars, rows, handlerVars, bounds, history>>

Chunk == 1..Chunks
Importing == {"read", "store"}
Place == {"idle", "begin", "download", "analyse", "start", "parse", "finish",
          "queue", "error", "done", "lost"} \cup Importing
Active(h) == pc[h] \notin {"idle", "done", "lost"}

Init ==
  /\ tstate = [t \in Task |-> "CREATED"]
  /\ utype = [t \in Task |-> IF t \in Cognition THEN "COGNITION" ELSE "DEFAULT"]
  /\ key = Zip
  /\ info = [t \in Task |-> "none"]
  /\ progress = [t \in Task |-> 0]
  /\ rows = [k \in Chunk |-> 0]
  /\ pc = [h \in Handler |-> "idle"]
  /\ mode = [h \in Handler |-> "import"]
  /\ chunk = [h \in Handler |-> 1]
  /\ found = [h \in Handler |-> FALSE]
  /\ faults = 0
  /\ crashes = 0
  /\ continued = {}
  /\ raced = {}
  /\ overlapped = FALSE

-----------------------------------------------------------------------------
Goto(h, place) == pc' = [pc EXCEPT ![h] = place]
SetState(h, value) == tstate' = [tstate EXCEPT ![Job[h]] = value]
Raise == faults < MaxFaults /\ faults' = faults + 1 /\ UNCHANGED crashes

(* Notify.post: the task decides what init_file_import does. *)
ReceiveNotification(h) ==
  /\ h \in Notification
  /\ pc[h] = "idle"
  /\ \A n \in Notification : ~Active(n)
  /\ mode' = [mode EXCEPT ![h] = IF utype[Job[h]] = "COGNITION" THEN "prepare" ELSE "import"]
  /\ Goto(h, "begin")
  /\ UNCHANGED <<taskVars, rows, chunk, found, bounds, history>>

(* CognitionImport.put: upload_type is set back on the session's object only, *)
(* the next commit writes it.                                                 *)
AcceptPut(h) ==
  /\ h \in Put
  /\ pc[h] = "idle"
  /\ utype[Job[h]] = "COGNITION"
  /\ tstate[Job[h]] = "PREPARED"
  /\ Goto(h, "begin")
  /\ raced' = IF \E p \in Put : Job[p] = Job[h] /\ pc[p] = "begin"
              THEN raced \cup {Job[h]} ELSE raced
  /\ UNCHANGED <<taskVars, rows, mode, chunk, found, bounds, continued, overlapped>>

RefusePut(h) ==
  /\ h \in Put
  /\ pc[h] = "idle"
  /\ utype[Job[h]] # "COGNITION" \/ tstate[Job[h]] # "PREPARED"
  /\ Goto(h, "done")
  /\ UNCHANGED <<taskVars, rows, mode, chunk, found, bounds, history>>

(* Mutant: the download starts without a commit, so nobody sees the new state. *)
BeginDownloadUncommitted(h) ==
  /\ pc[h] = "begin"
  /\ continued' = continued \cup ({h} \cap Put)
  /\ Goto(h, "download")
  /\ UNCHANGED <<taskVars, rows, mode, chunk, found, bounds, raced, overlapped>>

(* download_file sets PENDING: the first commit of the import. *)
BeginDownload(h) ==
  /\ pc[h] = "begin"
  /\ SetState(h, "PENDING")
  /\ utype' = [utype EXCEPT ![Job[h]] = IF h \in Put THEN "DEFAULT" ELSE @]
  /\ continued' = continued \cup ({h} \cap Put)
  /\ Goto(h, "download")
  /\ UNCHANGED <<key, info, progress, rows, mode, chunk, found, bounds, raced,
                 overlapped>>

(* A protected file is unpacked with the password of its task, which is then  *)
(* removed from the task.                                                     *)
Download(h) ==
  /\ pc[h] = "download"
  /\ Job[h] \in Zip => Job[h] \in key
  /\ key' = key \ {Job[h]}
  /\ Goto(h, IF mode[h] = "prepare" THEN "analyse" ELSE "start")
  /\ UNCHANGED <<tstate, utype, info, progress, rows, mode, chunk, found, bounds,
                 history>>

(* Without the password, or when s3 raises.  The preparation catches this, but *)
(* its finally clause reads the file name that was never assigned.             *)
DownloadRaises(h) ==
  /\ pc[h] = "download"
  /\ IF Job[h] \in Zip \ key THEN UNCHANGED bounds ELSE Raise
  /\ Goto(h, "error")
  /\ UNCHANGED <<taskVars, rows, mode, chunk, found, history>>

(* prepare_cognition_import: the columns, or what went wrong in reading them. *)
Analyse(h) ==
  /\ pc[h] = "analyse"
  /\ \/ info' = [info EXCEPT ![Job[h]] = "columns"] /\ UNCHANGED bounds
     \/ info' = [info EXCEPT ![Job[h]] = "errors"] /\ Raise
  /\ SetState(h, "PREPARED")
  /\ Goto(h, "queue")
  /\ UNCHANGED <<utype, key, progress, rows, mode, chunk, found, history>>

StartImport(h) ==
  /\ pc[h] = "start"
  /\ SetState(h, "IN_PROGRESS")
  /\ Goto(h, "parse")
  /\ UNCHANGED <<utype, key, info, progress, rows, mode, chunk, found, bounds, history>>

(* convert_to_record_dict reads the file and applies the mappings and checks. *)
Parse(h) ==
  /\ pc[h] = "parse"
  /\ Goto(h, "read")
  /\ chunk' = [chunk EXCEPT ![h] = 1]
  /\ overlapped' = (overlapped \/ \E other \in Handler \ {h} : pc[other] \in Importing)
  /\ UNCHANGED <<taskVars, rows, mode, found, bounds, continued, raced>>

(* Mutant: records are created without a lookup. *)
ReadNothing(h) ==
  /\ pc[h] = "read"
  /\ Goto(h, "store")
  /\ UNCHANGED <<taskVars, rows, mode, chunk, found, bounds, history>>

(* Records with a primary key are looked up before they are created.          *)
ReadExisting(h) ==
  /\ pc[h] = "read"
  /\ found' = [found EXCEPT ![h] = Keyed /\ rows[chunk[h]] > 0]
  /\ Goto(h, "store")
  /\ UNCHANGED <<taskVars, rows, mode, chunk, bounds, history>>

(* Mutant: the progress is off by one chunk. *)
StoreChunkAhead(h) ==
  /\ pc[h] = "store"
  /\ rows' = IF found[h] THEN rows ELSE [rows EXCEPT ![chunk[h]] = @ + 1]
  /\ \E k \in Chunk : k <= chunk[h] + 1 /\ progress' = [progress EXCEPT ![Job[h]] = k]
  /\ Goto(h, IF chunk[h] = Chunks THEN "finish" ELSE "read")
  /\ chunk' = [chunk EXCEPT ![h] = IF @ = Chunks THEN @ ELSE @ + 1]
  /\ UNCHANGED <<tstate, utype, key, info, mode, found, bounds, history>>

(* Found records are updated, others created; the progress is committed with  *)
(* them.                                                                      *)
StoreChunk(h) ==
  /\ pc[h] = "store"
  /\ rows' = IF found[h] THEN rows ELSE [rows EXCEPT ![chunk[h]] = @ + 1]
  /\ progress' = [progress EXCEPT ![Job[h]] = chunk[h]]
  /\ Goto(h, IF chunk[h] = Chunks THEN "finish" ELSE "read")
  /\ chunk' = [chunk EXCEPT ![h] = IF @ = Chunks THEN @ ELSE @ + 1]
  /\ UNCHANGED <<tstate, utype, key, info, mode, found, bounds, history>>

Finish(h) ==
  /\ pc[h] = "finish"
  /\ SetState(h, "DONE")
  /\ progress' = [progress EXCEPT ![Job[h]] = Chunks]
  /\ Goto(h, "queue")
  /\ UNCHANGED <<utype, key, info, rows, mode, chunk, found, bounds, history>>

(* The labels are validated, the recalculation is started and the             *)
(* tokenization queued.                                                       *)
QueueTokenization(h) ==
  /\ pc[h] = "queue"
  /\ Goto(h, "done")
  /\ UNCHANGED <<taskVars, rows, mode, chunk, found, bounds, history>>

(* Parsing, storing or what follows the import raises.                        *)
ImportRaises(h) ==
  /\ pc[h] \in {"parse", "store", "queue"}
  /\ Raise
  /\ Goto(h, "error")
  /\ UNCHANGED <<taskVars, rows, mode, chunk, found, history>>

(* Mutant: the exception is swallowed. *)
HandleErrorSilent(h) ==
  /\ pc[h] = "error"
  /\ Goto(h, "done")
  /\ UNCHANGED <<taskVars, rows, mode, chunk, found, bounds, history>>

(* file_import_error_handling: what was not committed is rolled back.         *)
HandleError(h) ==
  /\ pc[h] = "error"
  /\ SetState(h, "ERROR")
  /\ Goto(h, "done")
  /\ UNCHANGED <<utype, key, info, progress, rows, mode, chunk, found, bounds, history>>

HandlerStep(h) ==
  \/ BeginDownload(h) \/ Download(h) \/ DownloadRaises(h) \/ Analyse(h)
  \/ StartImport(h) \/ Parse(h) \/ ReadExisting(h) \/ StoreChunk(h) \/ Finish(h)
  \/ QueueTokenization(h) \/ ImportRaises(h) \/ HandleError(h)


(* cancel_upload_task sets the state; no handler looks at it.                 *)
CancelUpload(t) ==
  /\ tstate[t] \in {"PENDING", "PREPARED", "IN_PROGRESS"}
  /\ tstate' = [tstate EXCEPT ![t] = "ERROR"]
  /\ UNCHANGED <<utype, key, info, progress, rows, handlerVars, bounds, history>>

(* The handlers die; clean_up_database removes every password at the start.   *)
Restart ==
  /\ crashes < MaxCrashes
  /\ crashes' = crashes + 1
  /\ pc' = [h \in Handler |-> IF Active(h) THEN "lost" ELSE pc[h]]
  /\ key' = {}
  /\ UNCHANGED <<tstate, utype, info, progress, rows, mode, chunk, found, faults, history>>

Next ==
  \/ \E h \in Handler : \/ ReceiveNotification(h) \/ AcceptPut(h) \/ RefusePut(h)
                        \/ HandlerStep(h)
  \/ \E t \in Task : CancelUpload(t)
  \/ Restart

Spec == Init /\ [][Next]_vars

(* A handler that was started runs on; nobody has to send a request.          *)
FairSpec == Spec /\ \A h \in Handler : WF_vars(HandlerStep(h))

-----------------------------------------------------------------------------
(* Properties *)

(* Every variable keeps its type. *)
TypeOK ==
  /\ tstate \in [Task -> {"CREATED", "PENDING", "PREPARED", "IN_PROGRESS", "DONE", "ERROR"}]
  /\ utype \in [Task -> {"DEFAULT", "COGNITION"}]
  /\ key \subseteq Zip
  /\ info \in [Task -> {"none", "columns", "errors"}]
  /\ progress \in [Task -> 0..Chunks]
  /\ rows \in [Chunk -> Nat]
  /\ pc \in [Handler -> Place]
  /\ mode \in [Handler -> {"prepare", "import"}]
  /\ chunk \in [Handler -> Chunk]
  /\ found \in [Handler -> BOOLEAN]
  /\ faults \in 0..MaxFaults
  /\ crashes \in 0..MaxCrashes
  /\ continued \subseteq Put
  /\ raced \subseteq Task
  /\ overlapped \in BOOLEAN

(* What a task reports is in the project: the chunks its progress counts, and *)
(* all of them when it is DONE, whatever else failed, ran twice or was killed. *)
ReportedRowsExist ==
  \A t \in Task :
    /\ \A k \in 1..progress[t] : rows[k] > 0
    /\ tstate[t] = "DONE" => \A k \in Chunk : rows[k] > 0

(* Records with a primary key are in the project once, however often the      *)
(* import is delivered, unless two imports ran at the same time.              *)
KeyedRowsOnce ==
  Keyed /\ ~overlapped => \A k \in Chunk : rows[k] <= 1

(* "the continuation of the import should only be done once": a prepared     *)
(* task is continued by at most one PUT unless two of them stood   *)
(* between the check of upload_type and the commit that sets it back.         *)
ContinuedOnceUnlessRaced ==
  \A p, q \in continued : Job[p] = Job[q] => p = q \/ Job[p] \in raced

(* "pre init to ensure we can always append an error": a preparation that has *)
(* ended answers with the columns or with an error.                           *)
PreparationAnswers ==
  \A n \in Notification :
    pc[n] = "done" /\ mode[n] = "prepare" => info[Job[n]] # "none"

(* Whatever raises, no task stays PENDING or IN_PROGRESS unless the gateway   *)
(* is restarted.                                                              *)
ImportsSettle ==
  \A t \in Task :
    tstate[t] \in {"PENDING", "IN_PROGRESS"}
      ~> tstate[t] \notin {"PENDING", "IN_PROGRESS"} \/ crashes > 0
=============================================================================
