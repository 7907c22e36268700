----------------------------- MODULE RequestLog -----------------------------
(***************************************************************************)
(* The request log (middleware/log_storage.py).  A request leaves an entry *)
(* in a queue of its process; a thread of the process takes the whole      *)
(* queue once a minute and appends it, file by file, to the csv files of   *)
(* the organizations.  Other gateways write to the same files (the entries *)
(* have a column "gateway"), so a file has a lock file beside it.  An      *)
(* exception ends the batch, whatever is left of it.                       *)
(*                                                                         *)
(* That the other gateways keep to the same steps is assumed.              *)
(***************************************************************************)
EXTENDS Naturals

CONSTANTS Gateways, Entries,
          LogPath,      \* the file of each entry
          MaxLogFaults, \* writes that raise
          MaxLogStops   \* stops of a gateway process

ASSUME LogAssumption == MaxLogFaults \in Nat /\ MaxLogStops \in Nat

VARIABLES
  queue,     \* __not_yet_persisted of each gateway
  batch,     \* what its thread took and has not written yet
  place,     \* of its thread
  file,      \* log_path the thread works on
  folders,   \* files whose directory is there
  locks,     \* files whose lock file is there
  contents,  \* entries of each file that is there
  logFaults, logStops,
  accepted,  \* history: entries a request left
  dropped,   \* history: entries of batches that ended early, for a reason
  met        \* history: two threads worked on one file at a time

threadVars == <<queue, batch, place, file>>
diskVars == <<folders, locks, contents>>
logVars == <<threadVars, diskVars, logFaults, logStops, accepted, dropped, met>>

Paths == {LogPath[e] : e \in Entries}
AtWork == {"makedirs", "create", "open", "new", "append", "remove"}
Others(g, p) == {h \in Gateways \ {g} : file[h] = p /\ place[h] \in AtWork}
OfFile(g) == {e \in batch[g] : LogPath[e] = file[g]}

LogInit ==
  /\ queue = [g \in Gateways |-> {}] /\ batch = queue
  /\ place = [g \in Gateways |-> "sleep"]
  /\ file = [g \in Gateways |-> "none"]
  /\ folders = {} /\ locks = {} /\ contents = [p \in {} |-> {}]
  /\ logFaults = 0 /\ logStops = 0 /\ accepted = {} /\ dropped = {} /\ met = FALSE

ThreadPlaces == AtWork \cup {"sleep", "next", "look", "wait"}
LogTypeOK ==
  /\ queue \in [Gateways -> SUBSET Entries] /\ batch \in [Gateways -> SUBSET Entries]
  /\ place \in [Gateways -> ThreadPlaces] /\ file \in [Gateways -> Paths \cup {"none"}]
  /\ folders \subseteq Paths /\ locks \subseteq Paths
  /\ DOMAIN contents \subseteq Paths /\ contents \in [DOMAIN contents -> SUBSET Entries]
  /\ logFaults \in 0..MaxLogFaults /\ logStops \in 0..MaxLogStops
  /\ accepted \subseteq Entries /\ dropped \subseteq Entries /\ met \in BOOLEAN
  /\ \A g \in Gateways : place[g] \notin {"sleep", "next"} => file[g] \in Paths

-----------------------------------------------------------------------------
GoOn(g, to) == place' = [place EXCEPT ![g] = to]
\* A step to where the thread takes the file for its own.
GoToWork(g, p, to) == GoOn(g, to) /\ met' = (met \/ Others(g, p) # {})
\* An exception that __persist_log_loop catches.
EndBatch(g) == batch' = [batch EXCEPT ![g] = {}] /\ GoOn(g, "sleep")

add_to_persist_queue(g, e) ==
  /\ e \notin accepted
  /\ accepted' = accepted \cup {e}
  /\ queue' = [queue EXCEPT ![g] = @ \cup {e}]
  /\ UNCHANGED <<batch, place, file, diskVars, logFaults, logStops, dropped, met>>

\* Once a minute: the queue is exchanged for an empty one under __THREAD_LOCK.
persist_log_loop(g) ==
  /\ place[g] = "sleep" /\ queue[g] # {}
  /\ batch' = [batch EXCEPT ![g] = queue[g]] /\ queue' = [queue EXCEPT ![g] = {}]
  /\ GoOn(g, "next")
  /\ UNCHANGED <<file, diskVars, logFaults, logStops, accepted, dropped, met>>

\* The next file of the batch, and whether its directory is there.
NextFile(g) ==
  /\ place[g] = "next" /\ batch[g] # {}
  /\ \E e \in batch[g] :
       /\ file' = [file EXCEPT ![g] = LogPath[e]]
       /\ IF LogPath[e] \in folders THEN GoOn(g, "look") /\ UNCHANGED met
                                    ELSE GoToWork(g, LogPath[e], "makedirs")
  /\ UNCHANGED <<queue, batch, diskVars, logFaults, logStops, accepted, dropped>>
BatchEnds(g) ==
  /\ place[g] = "next" /\ batch[g] = {}
  /\ GoOn(g, "sleep")
  /\ UNCHANGED <<queue, batch, file, diskVars, logFaults, logStops, accepted, dropped, met>>

\* os.makedirs raises when the directory came in between.
makedirs(g) ==
  /\ place[g] = "makedirs"
  /\ folders' = folders \cup {file[g]}
  /\ IF file[g] \in folders THEN EndBatch(g) /\ dropped' = dropped \cup batch[g]
                            ELSE GoOn(g, "look") /\ UNCHANGED <<batch, dropped>>
  /\ UNCHANGED <<queue, file, locks, contents, logFaults, logStops, accepted, met>>

\* Is there a lock file?  Then the thread looks once a second, sixty times.
LookForLock(g) ==
  /\ place[g] \in {"look", "wait"}
  /\ IF file[g] \in locks THEN GoOn(g, "wait") /\ UNCHANGED met ELSE GoToWork(g, file[g], "create")
  /\ UNCHANGED <<queue, batch, file, diskVars, logFaults, logStops, accepted, dropped>>
\* After the last look; the lock may have gone in the second since.  A reason to
\* end is somebody at work on the file or just ready, or a lock that a stop left.
LockNotAcquired(g) ==
  /\ place[g] = "wait" /\ EndBatch(g)
  /\ dropped' = IF Others(g, file[g]) # {} \/ file[g] \notin locks \/ logStops > 0
                  THEN dropped \cup batch[g] ELSE dropped
  /\ UNCHANGED <<queue, file, diskVars, logFaults, logStops, accepted, met>>

CreateLock(g) ==
  /\ place[g] = "create"
  /\ locks' = locks \cup {file[g]}
  /\ GoOn(g, "open")
  /\ UNCHANGED <<queue, batch, file, folders, contents, logFaults, logStops, accepted, dropped, met>>

OpenFile(g) ==
  /\ place[g] = "open"
  /\ GoOn(g, IF file[g] \in DOMAIN contents THEN "append" ELSE "new")
  /\ UNCHANGED <<queue, batch, file, diskVars, logFaults, logStops, accepted, dropped, met>>

\* The file after some entries were written: mode "w" empties one that came in
\* between.  Opening and closing is one step.
With(g, entries) ==
  [p \in DOMAIN contents \cup {file[g]} |->
     IF p # file[g] THEN contents[p]
     ELSE entries \cup IF place[g] = "append" /\ p \in DOMAIN contents THEN contents[p] ELSE {}]
write_log_entries(g) ==
  /\ place[g] \in {"new", "append"}
  /\ contents' = With(g, OfFile(g))
  /\ batch' = [batch EXCEPT ![g] = @ \ OfFile(g)]
  /\ GoOn(g, "remove")
  /\ UNCHANGED <<queue, file, folders, locks, logFaults, logStops, accepted, dropped, met>>

\* Making the directory or the lock file raises; no finally clause is entered yet.
LockRaises(g) ==
  /\ place[g] \in {"makedirs", "create"} /\ logFaults < MaxLogFaults
  /\ logFaults' = logFaults + 1 /\ dropped' = dropped \cup batch[g] /\ EndBatch(g)
  /\ UNCHANGED <<queue, file, diskVars, logStops, accepted, met>>

\* What an open or a write that raises, or a stop, leaves of the file.
PartlyWritten(g) ==
  \/ UNCHANGED contents
  \/ place[g] \in {"new", "append"} /\ \E some \in SUBSET OfFile(g) : contents' = With(g, some)
\* The finally clause removes the lock before the exception leaves.
\* Mutant: without it.
WriteRaises_no_finally(g) ==
  /\ place[g] \in {"new", "append"} /\ logFaults < MaxLogFaults
  /\ logFaults' = logFaults + 1 /\ PartlyWritten(g)
  /\ dropped' = dropped \cup batch[g] /\ EndBatch(g)
  /\ UNCHANGED <<queue, file, folders, locks, logStops, accepted, met>>
WriteRaises(g) ==
  /\ place[g] \in {"new", "append"} /\ logFaults < MaxLogFaults
  /\ logFaults' = logFaults + 1 /\ PartlyWritten(g)
  /\ dropped' = dropped \cup batch[g] /\ batch' = [batch EXCEPT ![g] = {}]
  /\ GoOn(g, "remove")
  /\ UNCHANGED <<queue, file, folders, locks, logStops, accepted, met>>

\* os.remove raises when another thread has removed the lock.
RemoveLock(g) ==
  /\ place[g] = "remove"
  /\ locks' = locks \ {file[g]}
  /\ IF file[g] \in locks THEN GoOn(g, "next") /\ UNCHANGED <<batch, dropped>>
                          ELSE EndBatch(g) /\ dropped' = dropped \cup batch[g]
  /\ UNCHANGED <<queue, file, folders, contents, logFaults, logStops, accepted, met>>

\* A process stops and starts again: what it had in memory is gone, its lock is not.
StopGateway(g) ==
  /\ logStops < MaxLogStops /\ logStops' = logStops + 1
  /\ dropped' = dropped \cup queue[g] \cup batch[g]
  /\ queue' = [queue EXCEPT ![g] = {}] /\ EndBatch(g) /\ PartlyWritten(g)
  /\ UNCHANGED <<file, folders, locks, logFaults, accepted, met>>

Persist(g) ==
  \/ persist_log_loop(g) \/ NextFile(g) \/ BatchEnds(g) \/ makedirs(g) \/ LookForLock(g) \/ LockNotAcquired(g)
  \/ CreateLock(g) \/ OpenFile(g) \/ write_log_entries(g) \/ RemoveLock(g)
LogNext ==
  \E g \in Gateways : \/ \E e \in Entries : add_to_persist_queue(g, e)
                      \/ Persist(g) \/ LockRaises(g) \/ WriteRaises(g) \/ StopGateway(g)

\* The thread of a process runs on: it counts its looks, so it does not wait forever.
LogFairness == \A g \in Gateways : WF_logVars(Persist(g))

-----------------------------------------------------------------------------
InFile(e) == LogPath[e] \in DOMAIN contents /\ e \in contents[LogPath[e]]
\* No entry is lost without a reason: until it is in its file, its process has it.
EntriesAccounted ==
  \A e \in accepted : \/ \E g \in Gateways : e \in queue[g] \cup batch[g]
                      \/ InFile(e) \/ e \in dropped \/ met

\* Every entry gets into its file and stays there, also after other batches failed.
\* It may be missing when its own batch ended early: by an exception, by a stop, or
\* after sixty seconds beside somebody at work on a file of the batch or beside a
\* lock file that a stop has left, which nothing ever removes; or when two threads
\* were at work on one file, which looking for the lock file does not exclude.
EntriesReachLog ==
  \A e \in Entries : <>[](e \in accepted => InFile(e) \/ e \in dropped \/ met)
=============================================================================
