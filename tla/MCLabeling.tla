------------------------------ MODULE MCLabeling ------------------------------
(* What the requests of one process share in memory and leave to threads and  *)
(* timers: requests of one annotator, on the records of a slice, with the     *)
(* debounced statistics; the queue of the request log; the cached             *)
(* configuration.  A behaviour is one of the three: they share no state.      *)
EXTENDS Labeling, RequestLog, ConfigCache, TLC

CONSTANTS r1, r2, d1, d2, e1, e2, e3

MCCalls == {r1, r2}
MCRecords == {d1, d2}
\* Two entries of one file and one of another.
MCLogPath == (e1 :> "first") @@ (e2 :> "first") @@ (e3 :> "second")

VARIABLE part
allVars == <<part, vars, logVars, configVars>>

MCInit == part \in {"labels", "log", "configuration"} /\ Init /\ LogInit /\ ConfigInit
MCNext ==
  /\ UNCHANGED part
  /\ \/ part = "labels" /\ Next /\ UNCHANGED <<logVars, configVars>>
     \/ part = "log" /\ LogNext /\ UNCHANGED <<vars, configVars>>
     \/ part = "configuration" /\ ConfigNext /\ UNCHANGED <<vars, logVars>>
MCSpec == MCInit /\ [][MCNext]_allVars /\ LabelingFairness /\ LogFairness /\ ConfigFairness
=============================================================================
