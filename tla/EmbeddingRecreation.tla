------------------------ MODULE EmbeddingRecreation ------------------------
(***************************************************************************)
(* Embeddings of ONE project (controller/embedding/manager.py).  After a   *)
(* record import a thread, here a loop, replaces every embedding by a new  *)
(* row of the same configuration, one after the other, and waits for the   *)
(* embedder service to settle each.  Meanwhile users cancel and delete     *)
(* embeddings.                                                             *)
(*                                                                         *)
(* An id is <<e, g>>: the g-th row made for the embedding e.  No id is     *)
(* used twice, and a deleted row never comes back.                         *)
(***************************************************************************)
EXTENDS Naturals, FiniteSets

CONSTANTS Embedding, Loop,
          External,      \* embeddings of a platform that needs an agreement
          MaxGeneration, \* rows made for one embedding after its first
          MaxFaults,     \* calls to a service or the websocket that may raise
          MaxCrashes     \* restarts of the gateway process

ASSUME EmbeddingAssumption ==
  /\ External \subseteq Embedding
  /\ MaxGeneration \in Nat
  /\ MaxFaults \in Nat
  /\ MaxCrashes \in Nat

VARIABLES
  estate,          \* state column of each row ("NONE": not made yet)
  agreed,          \* ids an agreement points to (xfkey)
  requested,       \* ids a daemon thread is about to request
  jobs,            \* ids the embedder service works on
  pc, todo,        \* place of each loop and the embedding_ids left to it
  old, new,        \* the row it replaces and the row it made
  faults, crashes,
  overlapped       \* history: two loops were under way at a time

rowVars  == <<estate, agreed>>
jobVars  == <<requested, jobs>>
loopVars == <<pc, todo, old, new>>
bounds   == <<faults, crashes>>
vars == <<rowVars, jobVars, loopVars, bounds, overlapped>>

Id == Embedding \X (0..MaxGeneration)
NoId == <<>>
Settled == {"FINISHED", "FAILED"}
Pending == {"WAITING", "INITIALIZING"}
Exists(i) == i \in Id /\ estate[i] \in Settled \cup Pending
Rows == {i \in Id : Exists(i)}
HasNew == {"agree", "deleteOld", "wait"}
UnderWay(l) == pc[l] \notin {"idle", "done", "dead"}

Init ==
  /\ estate = [i \in Id |-> IF i[2] = 0 THEN "FINISHED" ELSE "NONE"]
  /\ agreed = External \X {0}
  /\ requested = {}
  /\ jobs = {}
  /\ pc = [l \in Loop |-> "idle"]
  /\ todo = [l \in Loop |-> {}]
  /\ old = [l \in Loop |-> NoId]
  /\ new = [l \in Loop |-> NoId]
  /\ faults = 0
  /\ crashes = 0
  /\ overlapped = FALSE

-----------------------------------------------------------------------------
(* Building blocks *)

Goto(l, place) == pc' = [pc EXCEPT ![l] = place]
Raise == faults < MaxFaults /\ faults' = faults + 1 /\ UNCHANGED crashes

(* Assignment to the state of the row of an id; no row, no effect.            *)
SetState(i, newState) ==
  estate' = IF Exists(i) THEN [estate EXCEPT ![i] = newState] ELSE estate

-----------------------------------------------------------------------------
(* recreate_embeddings, as the import's thread calls it *)

StartLoop(l) ==
  /\ pc[l] = "idle"
  /\ IF Rows = {}
     THEN Goto(l, "done") /\ UNCHANGED <<estate, todo, overlapped>>
     ELSE /\ todo' = [todo EXCEPT ![l] = Rows]
          /\ estate' = [i \in Id |-> IF i \in Rows THEN "WAITING" ELSE estate[i]]
          /\ Goto(l, "announce")
          /\ overlapped' = (overlapped \/ \E m \in Loop \ {l} : UnderWay(m))
  /\ UNCHANGED <<agreed, jobVars, old, new,
                 bounds>>

(* The update for all embeddings, and later the one after each embedding.     *)
Notify(l) ==
  /\ pc[l] \in {"announce", "notify"}
  /\ Goto(l, "loop")
  /\ old' = [old EXCEPT ![l] = NoId]
  /\ new' = [new EXCEPT ![l] = NoId]
  /\ UNCHANGED <<rowVars, jobVars, todo, bounds, overlapped>>

(* No try surrounds the notifications and the handlers: the thread ends.      *)
LoopDies(l) ==
  /\ pc[l] \in {"announce", "notify", "failOld", "failNew"}
  /\ Raise
  /\ Goto(l, "dead")
  /\ UNCHANGED <<rowVars, jobVars, todo, old, new, overlapped>>

(* An embedding that was deleted is skipped.  The code has an order of ids,   *)
(* here any.                                                                  *)
ReadOld(l, i) ==
  /\ pc[l] = "loop"
  /\ i \in todo[l]
  /\ todo' = [todo EXCEPT ![l] = @ \ {i}]
  /\ IF Exists(i) THEN /\ Goto(l, "create")
                       /\ old' = [old EXCEPT ![l] = i]
                  ELSE UNCHANGED <<pc, old>>
  /\ UNCHANGED <<rowVars, jobVars, new, bounds, overlapped>>

(* Mutant: the old row is not deleted with the commit of the new one.         *)
CreateKeepsOld(l, g) ==
  LET i == old[l]
      n == <<i[1], g>> IN
  /\ pc[l] = "create"
  /\ estate[n] = "NONE"
  /\ \A h \in 1..(g - 1) : estate[<<i[1], h>>] # "NONE"
  /\ estate' = [estate EXCEPT ![n] = "INITIALIZING"]
  /\ new' = [new EXCEPT ![l] = n]
  /\ Goto(l, "agree")
  /\ UNCHANGED <<agreed, jobVars, todo, old, bounds, overlapped>>

(* The new row is inserted and the old one deleted in one commit.  The old    *)
(* one may have been deleted since it was read, which the delete statement    *)
(* does not notice.                                                           *)
Create(l, g) ==
  LET i == old[l]
      n == <<i[1], g>> IN
  /\ pc[l] = "create"
  /\ estate[n] = "NONE"
  /\ \A h \in 1..(g - 1) : estate[<<i[1], h>>] # "NONE"
  /\ estate' = [estate EXCEPT ![n] = "INITIALIZING", ![i] = "GONE"]
  /\ new' = [new EXCEPT ![l] = n]
  /\ Goto(l, "agree")
  /\ UNCHANGED <<agreed, jobVars, todo, old, bounds, overlapped>>

(* __recreate_embedding reads the old row again; without it, it raises.       *)
OldGone(l) ==
  /\ pc[l] = "create"
  /\ ~Exists(old[l])
  /\ Goto(l, "failOld")
  /\ UNCHANGED <<rowVars, jobVars, todo, old, new, bounds, overlapped>>

(* Mutant: without an agreement the embedding is requested all the same.      *)
AgreeAnyway(l) ==
  LET e == old[l][1] IN
  /\ pc[l] = "agree"
  /\ IF ~Exists(new[l])
     THEN Goto(l, "failOld") /\ UNCHANGED <<estate, agreed>>
     ELSE /\ Goto(l, "deleteOld")
          /\ UNCHANGED estate
          /\ agreed' = IF e \in External /\ old[l] \in agreed
                       THEN (agreed \ {old[l]}) \cup {new[l]} ELSE agreed
  /\ UNCHANGED <<jobVars, todo, old, new,
                 bounds, overlapped>>

(* Mutant: without an agreement the handler is left to mark the row.          *)
AgreeUnmarked(l) ==
  LET e == old[l][1] IN
  /\ pc[l] = "agree"
  /\ IF ~Exists(new[l]) \/ (e \in External /\ old[l] \notin agreed)
     THEN Goto(l, "failOld") /\ UNCHANGED agreed
     ELSE /\ Goto(l, "deleteOld")
          /\ agreed' = IF e \in External
                       THEN (agreed \ {old[l]}) \cup {new[l]} ELSE agreed
  /\ UNCHANGED <<estate, jobVars, todo, old, new, bounds, overlapped>>

(* The agreement of the old row, if the platform needs one, becomes that of   *)
(* the new row.  To read the platform raises when the new row is gone.        *)
Agree(l) ==
  LET e == old[l][1] IN
  /\ pc[l] = "agree"
  /\ \/ /\ ~Exists(new[l])
        /\ Goto(l, "failOld")
        /\ UNCHANGED <<estate, agreed>>
     \/ /\ Exists(new[l])
        /\ e \in External
        /\ old[l] \notin agreed
        /\ SetState(new[l], "FAILED")
        /\ Goto(l, "failOld")
        /\ UNCHANGED agreed
     \/ /\ Exists(new[l])
        /\ e \in External => old[l] \in agreed
        /\ agreed' = IF e \in External
                     THEN (agreed \ {old[l]}) \cup {new[l]} ELSE agreed
        /\ Goto(l, "deleteOld")
        /\ UNCHANGED estate
  /\ UNCHANGED <<jobVars, todo, old, new,
                 bounds, overlapped>>


(* The old tensors are deleted, a daemon thread is started for the request.   *)
(* The commit of the agreement makes the id be read again, which raises when  *)
(* the new row is gone.                                                       *)
RequestNew(l) ==
  /\ pc[l] = "deleteOld"
  /\ IF old[l][1] \in External /\ ~Exists(new[l])
     THEN Goto(l, "failOld") /\ UNCHANGED requested
     ELSE Goto(l, "wait") /\ requested' = requested \cup {new[l]}
  /\ UNCHANGED <<rowVars, jobs, todo, old, new, bounds, overlapped>>

(* The call raises before new_id is assigned: the handler does not know the   *)
(* new row.                                                                   *)
DeleteOldRaises(l) ==
  /\ pc[l] = "deleteOld"
  /\ Raise
  /\ Goto(l, "failOld")
  /\ UNCHANGED <<rowVars, jobVars, todo, old, new, overlapped>>

(* Mutant: the loop waits for FINISHED only.                                  *)
AwaitFinished(l) ==
  /\ pc[l] = "wait"
  /\ ~Exists(new[l]) \/ estate[new[l]] = "FINISHED"
  /\ Goto(l, IF Exists(new[l]) THEN "notify" ELSE "failNew")
  /\ UNCHANGED <<rowVars, jobVars, todo, old, new, bounds, overlapped>>

(* The row is read again until it is settled; deleted, the loop raises.       *)
AwaitSettled(l) ==
  /\ pc[l] = "wait"
  /\ ~Exists(new[l]) \/ estate[new[l]] \in Settled
  /\ Goto(l, IF Exists(new[l]) THEN "notify" ELSE "failNew")
  /\ UNCHANGED <<rowVars, jobVars, todo, old, new, bounds, overlapped>>

(* __handle_failed_embedding, without and with a new id.                      *)
HandleFailed(l) ==
  /\ \/ pc[l] = "failOld" /\ SetState(old[l], "FAILED")
     \/ pc[l] = "failNew" /\ SetState(new[l], "FAILED")
  /\ Goto(l, "notify")
  /\ UNCHANGED <<agreed, jobVars, todo, old, new, bounds, overlapped>>

FinishLoop(l) ==
  /\ pc[l] = "loop"
  /\ todo[l] = {}
  /\ Goto(l, "done")
  /\ UNCHANGED <<rowVars, jobVars, todo, old, new, bounds, overlapped>>

LoopStep(l) ==
  \/ Notify(l) \/ LoopDies(l)
  \/ \E i \in Id : ReadOld(l, i)
  \/ \E g \in 1..MaxGeneration : Create(l, g)
  \/ OldGone(l) \/ Agree(l) \/ RequestNew(l) \/ DeleteOldRaises(l)
  \/ AwaitSettled(l) \/ HandleFailed(l) \/ FinishLoop(l)

-----------------------------------------------------------------------------
(* The embedder service *)

RequestEmbedding(i) ==
  /\ i \in requested
  /\ requested' = requested \ {i}
  /\ jobs' = jobs \cup {i}
  /\ UNCHANGED <<rowVars, loopVars, bounds, overlapped>>

(* Nobody handles the exception of the daemon thread.                         *)
RequestRaises(i) ==
  /\ i \in requested
  /\ Raise
  /\ requested' = requested \ {i}
  /\ UNCHANGED <<rowVars, jobs, loopVars, overlapped>>

JobEnds(i) ==
  /\ i \in jobs
  /\ jobs' = jobs \ {i}
  /\ \E result \in Settled : SetState(i, result)
  /\ UNCHANGED <<agreed, requested, loopVars, bounds, overlapped>>

-----------------------------------------------------------------------------
(* Users *)


(* cancel_embedding, which the task monitor offers for embeddings under way.  *)
Cancel(i) ==
  /\ estate[i] \in Pending
  /\ SetState(i, "FAILED")
  /\ UNCHANGED <<agreed, jobVars, loopVars, bounds, overlapped>>

DeleteEmbedding(i) ==
  /\ Exists(i)
  /\ SetState(i, "GONE")
  /\ UNCHANGED <<agreed, jobVars, loopVars, bounds, overlapped>>

(* Threads and requests of the gateway die; rows and the embedder's jobs stay.*)
Crash ==
  /\ crashes < MaxCrashes
  /\ crashes' = crashes + 1
  /\ pc' = [l \in Loop |-> IF UnderWay(l) THEN "dead" ELSE pc[l]]
  /\ requested' = {}
  /\ UNCHANGED <<rowVars, jobs, todo, old, new, faults, overlapped>>

Next ==
  \/ \E l \in Loop : StartLoop(l) \/ LoopStep(l)
  \/ \E i \in Id : \/ RequestEmbedding(i) \/ RequestRaises(i) \/ JobEnds(i)
                   \/ Cancel(i) \/ DeleteEmbedding(i)
  \/ Crash

Spec == Init /\ [][Next]_vars

(* A started loop goes on when it can, the daemon thread makes its request,   *)
(* and the embedder settles what it accepted.                                 *)
Fairness ==
  /\ \A l \in Loop : WF_vars(LoopStep(l))
  /\ \A i \in Id : WF_vars(RequestEmbedding(i)) /\ WF_vars(JobEnds(i))

FairSpec == Spec /\ Fairness

-----------------------------------------------------------------------------
(* Properties *)

(* Every variable keeps its type, and a loop has the ids its place needs.    *)
TypeOK ==
  /\ estate \in [Id -> {"NONE", "GONE"} \cup Settled \cup Pending]
  /\ agreed \subseteq Id
  /\ requested \subseteq Id
  /\ jobs \subseteq Id
  /\ pc \in [Loop -> {"idle", "announce", "loop", "create", "agree", "deleteOld",
                      "wait", "failOld", "failNew", "notify", "done", "dead"}]
  /\ todo \in [Loop -> SUBSET Id]
  /\ old \in [Loop -> Id \cup {NoId}]
  /\ new \in [Loop -> Id \cup {NoId}]
  /\ \A l \in Loop : /\ pc[l] \in {"create"} \cup HasNew => old[l] \in Id
                     /\ pc[l] \in HasNew => new[l] \in Id
  /\ faults \in 0..MaxFaults
  /\ crashes \in 0..MaxCrashes
  /\ overlapped \in BOOLEAN

(* A finished embedding of an external platform has an agreement, whatever   *)
(* loops overlap, calls raise and restarts come between the commit of its    *)
(* row and the commit of its agreement.                                      *)
FinishedHasAgreement ==
  \A i \in External \X (0..MaxGeneration) : estate[i] = "FINISHED" => i \in agreed

(* Loops that do not overlap never leave two rows of one embedding, not even *)
(* when it is deleted while it is being replaced.                            *)
OneRowEach ==
  ~overlapped => \A i, j \in Rows : i[1] = j[1] => i = j

(* Those who settle a row: for WAITING a loop that has yet to replace it, for *)
(* INITIALIZING the loop that made it, a thread about to request it or the    *)
(* embedder.                                                                  *)
Awaited(i) == \E l \in Loop : i \in todo[l] \/ (pc[l] = "create" /\ old[l] = i)
Attended(i) == \/ i \in requested \cup jobs
               \/ \E l \in Loop : pc[l] \in {"agree", "deleteOld"} /\ new[l] = i

(* An embedding under way has somebody to settle it, unless a call raised or  *)
(* the gateway was restarted.                                                 *)
PendingHasWorker ==
  faults + crashes = 0 =>
    \A i \in Id : /\ estate[i] = "WAITING" => Awaited(i)
                  /\ estate[i] = "INITIALIZING" => Attended(i)

(* A loop comes to its end and no embedding stays under way, unless a call   *)
(* raises or the gateway restarts.                                           *)
RecreationEnds ==
  /\ \A l \in Loop : pc[l] = "announce" ~> pc[l] = "done" \/ faults + crashes > 0
  /\ \A i \in Id : estate[i] \in Pending ~> estate[i] \notin Pending \/ faults + crashes > 0
=============================================================================
