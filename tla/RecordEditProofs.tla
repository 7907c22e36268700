-------------------------- MODULE RecordEditProofs --------------------------
(***************************************************************************)
(* For any number of edits, attributes, embeddings and loops.  First the   *)
(* recreation of the embeddings by itself: its types, and who settles what *)
(* is under way.  Then the edits beside it: their types, that their        *)
(* answers are true as long as no two edits met, and that what is derived  *)
(* from a record follows it.                                               *)
(***************************************************************************)
EXTENDS RecordEdit, TLAPS

(* A row that is made and the steps of a loop keep to the ids.                *)
LEMMA StateTyped ==
  ASSUME TypeOK, NEW i, NEW s \in Settled \cup {"GONE"}, SetState(i, s)
  PROVE  estate' \in [Id -> {"NONE", "GONE"} \cup Settled \cup Pending]
BY DEF TypeOK, SetState, Exists

(* Every variable keeps its type: every action assigns a state, a place or a  *)
(* set of ids.                                                                *)
THEOREM TypeCorrect == Spec => []TypeOK
<1>1. Init => TypeOK
  <2> SUFFICES ASSUME Init PROVE TypeOK
    OBVIOUS
  <2>1. faults \in 0..MaxFaults /\ crashes \in 0..MaxCrashes
    BY EmbeddingAssumption DEF Init
  <2>2. agreed \subseteq Id
    BY EmbeddingAssumption DEF Init, Id
  <2>3. estate \in [Id -> {"NONE", "GONE"} \cup Settled \cup Pending]
    BY DEF Init, Settled
  <2> QED
    BY <2>1, <2>2, <2>3 DEF Init, TypeOK, HasNew
<1>2. TypeOK /\ [Next]_vars => TypeOK'
  <2> SUFFICES ASSUME TypeOK, [Next]_vars PROVE TypeOK'
    OBVIOUS
  <2> USE EmbeddingAssumption DEF TypeOK, rowVars, jobVars, loopVars, bounds, Goto, Raise,
        HasNew
  <2>1. ASSUME NEW l \in Loop, StartLoop(l) PROVE TypeOK'
    <3>1. Rows \subseteq Id
      BY DEF Rows
    <3> QED
      BY <2>1, <3>1, ZenonT(60) DEF StartLoop, Pending
  <2>2. ASSUME NEW l \in Loop, LoopStep(l) PROVE TypeOK'
    <3>1. CASE Notify(l)  BY <3>1 DEF Notify
    <3>2. CASE LoopDies(l)  BY <3>2 DEF LoopDies
    <3>3. ASSUME NEW i \in Id, ReadOld(l, i) PROVE TypeOK'
      BY <3>3 DEF ReadOld
    <3>4. ASSUME NEW g \in 1..MaxGeneration, Create(l, g) PROVE TypeOK'
      <4>1. old[l] \in Id
        BY <3>4 DEF Create
      <4>2. <<old[l][1], g>> \in Id
        BY <4>1 DEF Id
      <4> QED
        BY <3>4, <4>1, <4>2 DEF Create, Pending
    <3>5. CASE OldGone(l)  BY <3>5 DEF OldGone
    <3>6. CASE Agree(l)
      <4>1. estate' \in [Id -> {"NONE", "GONE"} \cup Settled \cup Pending]
        BY <3>6, StateTyped DEF Agree, Settled
      <4>2. agreed' \subseteq Id
        BY <3>6 DEF Agree, Exists
      <4> QED
        BY <3>6, <4>1, <4>2 DEF Agree
    <3>7. CASE RequestNew(l)  BY <3>7 DEF RequestNew
    <3>8. CASE DeleteOldRaises(l)  BY <3>8 DEF DeleteOldRaises
    <3>9. CASE AwaitSettled(l)  BY <3>9 DEF AwaitSettled
    <3>10. CASE HandleFailed(l)
      BY <3>10, StateTyped DEF HandleFailed, Settled
    <3>11. CASE FinishLoop(l)  BY <3>11 DEF FinishLoop
    <3> QED
      BY <2>2, <3>1, <3>2, <3>3, <3>4, <3>5, <3>6, <3>7, <3>8, <3>9, <3>10, <3>11
      DEF LoopStep
  <2>3. ASSUME NEW i \in Id, RequestEmbedding(i) \/ RequestRaises(i) \/ JobEnds(i)
        PROVE  TypeOK'
    <3>1. CASE RequestEmbedding(i)  BY <3>1 DEF RequestEmbedding
    <3>2. CASE RequestRaises(i)  BY <3>2 DEF RequestRaises
    <3>3. CASE JobEnds(i)  BY <3>3, StateTyped DEF JobEnds
    <3> QED
      BY <2>3, <3>1, <3>2, <3>3
  <2>4. ASSUME NEW i \in Id, Cancel(i) \/ DeleteEmbedding(i)
        PROVE  TypeOK'
    BY <2>4, StateTyped DEF Cancel, DeleteEmbedding, Settled
  <2>5. CASE Crash
    BY <2>5 DEF Crash
  <2>6. CASE UNCHANGED vars
    BY <2>6 DEF vars
  <2> QED
    BY <2>1, <2>2, <2>3, <2>4, <2>5, <2>6 DEF Next
<1> QED BY <1>1, <1>2, PTL DEF Spec

-----------------------------------------------------------------------------
(* The argument for the agreements.  No row comes back once it is GONE, an    *)
(* agreement leaves only a row that is GONE, and a row gets to the embedder   *)
(* only after its agreement: so every row that is finished, or can still be   *)
(* finished by a job, has one or is GONE.                                     *)
Granted(i) == i \in agreed \/ estate[i] = "GONE"

LoopAgrees(l) ==
  /\ pc[l] \in HasNew => new[l][1] = old[l][1]
  /\ pc[l] = "agree" => estate[old[l]] = "GONE"
  /\ pc[l] = "deleteOld" /\ new[l][1] \in External => Granted(new[l])

AgreeInv ==
  /\ \A i \in External \X (0..MaxGeneration) :
       estate[i] = "FINISHED" \/ i \in requested \cup jobs => Granted(i)
  /\ \A l \in Loop : LoopAgrees(l)

(* An assignment to the state of a row leaves the GONE rows GONE.             *)
LEMMA GoneStays ==
  ASSUME TypeOK, NEW i, NEW s, SetState(i, s)
  PROVE  \A j \in Id : /\ estate[j] = "GONE" => estate'[j] = "GONE"
                       /\ estate'[j] # estate[j] => j = i /\ estate'[j] = s
BY DEF TypeOK, SetState, Exists, Settled, Pending

(* A step that takes no agreement, brings back no row, finishes none, hands   *)
(* none to the embedder and brings no loop to the agreement or behind it      *)
(* keeps the invariant.                                                       *)
LEMMA QuietStep ==
  ASSUME TypeOK, AgreeInv,
         agreed' = agreed,
         \A j \in Id : estate[j] = "GONE" => estate'[j] = "GONE",
         \A j \in Id : estate'[j] = "FINISHED" => estate[j] = "FINISHED" \/ j \in jobs,
         requested' \cup jobs' \subseteq requested \cup jobs,
         \A l \in Loop : pc'[l] \in HasNew
                           => pc'[l] = pc[l] /\ old'[l] = old[l] /\ new'[l] = new[l]
  PROVE  AgreeInv'
<1>1. \A j \in Id : Granted(j) => Granted(j)'
  BY DEF Granted
<1>2. External \X (0..MaxGeneration) \subseteq Id
  BY EmbeddingAssumption DEF Id
<1>3. ASSUME NEW i \in External \X (0..MaxGeneration),
             estate'[i] = "FINISHED" \/ i \in requested' \cup jobs'
      PROVE  Granted(i)'
  BY <1>1, <1>2, <1>3 DEF AgreeInv
<1>4. ASSUME NEW l \in Loop, pc'[l] \in HasNew
      PROVE  LoopAgrees(l)'
  <2>1. /\ old[l] \in Id /\ new[l] \in Id
        /\ pc'[l] = pc[l] /\ old'[l] = old[l] /\ new'[l] = new[l]
        /\ LoopAgrees(l)
    BY <1>4 DEF TypeOK, AgreeInv
  <2> QED
    BY <1>1, <2>1 DEF LoopAgrees, Granted
<1>5. ASSUME NEW l \in Loop, pc'[l] \notin HasNew
      PROVE  LoopAgrees(l)'
  BY <1>5 DEF LoopAgrees, HasNew
<1> QED
  BY <1>3, <1>4, <1>5 DEF AgreeInv

(* A finished embedding of an external platform has an agreement.             *)
THEOREM AgreementsFollow == Spec => []FinishedHasAgreement
<1>1. Init => AgreeInv
  <2> SUFFICES ASSUME Init PROVE AgreeInv
    OBVIOUS
  <2>1. \A l \in Loop : LoopAgrees(l)
    BY DEF Init, LoopAgrees, HasNew
  <2>2. ASSUME NEW i \in External \X (0..MaxGeneration), estate[i] = "FINISHED"
        PROVE  i \in agreed
    <3>1. i \in Id
      BY EmbeddingAssumption DEF Id
    <3>2. i[2] = 0
      BY <2>2, <3>1 DEF Init
    <3> QED
      BY <3>2 DEF Init
  <2> QED
    BY <2>1, <2>2 DEF Init, AgreeInv, Granted
<1>2. TypeOK /\ AgreeInv /\ [Next]_vars => AgreeInv'
  <2> SUFFICES ASSUME TypeOK, AgreeInv, [Next]_vars PROVE AgreeInv'
    OBVIOUS
  <2> USE DEF rowVars, jobVars, loopVars, bounds
  <2>1. ASSUME NEW l \in Loop, StartLoop(l) PROVE AgreeInv'
    <3>1. \A j \in Id : /\ estate[j] = "GONE" => estate'[j] = "GONE"
                        /\ estate'[j] = "FINISHED" => estate[j] = "FINISHED"
      BY <2>1 DEF StartLoop, Rows, Exists, Settled, Pending, TypeOK
    <3>2. \A m \in Loop : pc'[m] \in HasNew => pc'[m] = pc[m]
      BY <2>1 DEF StartLoop, Goto, HasNew, TypeOK
    <3> QED
      BY <2>1, <3>1, <3>2, QuietStep DEF StartLoop
  <2>2. ASSUME NEW l \in Loop, LoopStep(l) PROVE AgreeInv'
    <3>1. CASE \/ Notify(l) \/ LoopDies(l) \/ OldGone(l) \/ DeleteOldRaises(l)
               \/ AwaitSettled(l) \/ FinishLoop(l)
      <4>1. /\ \A m \in Loop : pc'[m] \in HasNew => pc'[m] = pc[m] /\ m # l
            /\ \A m \in Loop \ {l} : old'[m] = old[m] /\ new'[m] = new[m]
        BY <3>1 DEF Notify, LoopDies, OldGone, DeleteOldRaises, AwaitSettled,
             FinishLoop, Goto, HasNew, TypeOK
      <4>2. UNCHANGED <<estate, agreed, requested, jobs>>
        BY <3>1 DEF Notify, LoopDies, OldGone, DeleteOldRaises, AwaitSettled, FinishLoop
      <4> QED
        BY <4>1, <4>2, QuietStep
    <3>2. ASSUME NEW i \in Id, ReadOld(l, i) PROVE AgreeInv'
      <4>1. /\ \A m \in Loop : pc'[m] \in HasNew => pc'[m] = pc[m] /\ m # l
            /\ \A m \in Loop \ {l} : old'[m] = old[m] /\ new'[m] = new[m]
        BY <3>2 DEF ReadOld, Goto, HasNew, TypeOK
      <4> QED
        BY <3>2, <4>1, QuietStep DEF ReadOld
    <3>3. ASSUME NEW g \in 1..MaxGeneration, Create(l, g) PROVE AgreeInv'
      <4> DEFINE i == old[l]
                 n == <<old[l][1], g>>
      <4>1. i \in Id
        BY <3>3 DEF Create, TypeOK
      <4>2. n \in Id
        BY <4>1, EmbeddingAssumption DEF Id
      <4>3. estate' = [estate EXCEPT ![n] = "INITIALIZING", ![i] = "GONE"] /\ estate[n] = "NONE"
        BY <3>3 DEF Create
      <4>4. \A j \in Id : /\ estate[j] = "GONE" => estate'[j] = "GONE"
                          /\ estate'[j] = "FINISHED" => estate[j] = "FINISHED"
        BY <4>1, <4>2, <4>3 DEF TypeOK
      <4>5. estate'[i] = "GONE"
        BY <4>1, <4>3 DEF TypeOK
      <4>6. /\ pc' = [pc EXCEPT ![l] = "agree"]
            /\ new' = [new EXCEPT ![l] = n]
            /\ UNCHANGED <<agreed, requested, jobs, old>>
        BY <3>3 DEF Create, Goto
      <4>7. \A j \in Id : Granted(j) => Granted(j)'
        BY <4>4, <4>6 DEF Granted
      <4>8. \A j \in External \X (0..MaxGeneration) :
              estate'[j] = "FINISHED" \/ j \in requested' \cup jobs' => Granted(j)'
        <5>1. External \X (0..MaxGeneration) \subseteq Id
          BY EmbeddingAssumption DEF Id
        <5> QED
          BY <4>4, <4>6, <4>7, <5>1 DEF AgreeInv
      <4>9. ASSUME NEW m \in Loop
            PROVE  LoopAgrees(m)'
        <5>1. CASE m = l
          BY <4>5, <4>6, <5>1 DEF TypeOK, LoopAgrees
        <5>2. CASE m # l
          <6>1. pc'[m] = pc[m] /\ new'[m] = new[m] /\ old'[m] = old[m]
            BY <4>6, <5>2 DEF TypeOK
          <6>2. /\ pc[m] \in HasNew => old[m] \in Id /\ new[m] \in Id
                /\ LoopAgrees(m)
            BY DEF TypeOK, AgreeInv
          <6> QED
            BY <4>4, <4>7, <6>1, <6>2 DEF LoopAgrees, HasNew, Granted
        <5> QED
          BY <5>1, <5>2
      <4> QED
        BY <4>8, <4>9 DEF AgreeInv
    <3>4. CASE Agree(l)
      <4>1. /\ old[l] \in Id /\ new[l] \in Id
            /\ new[l][1] = old[l][1] /\ estate[old[l]] = "GONE"
        BY <3>4 DEF Agree, TypeOK, AgreeInv, LoopAgrees, HasNew
      <4>2. /\ \A j \in Id : estate[j] = "GONE" => estate'[j] = "GONE"
            /\ \A j \in Id : estate'[j] = "FINISHED" => estate[j] = "FINISHED"
        BY <3>4, GoneStays DEF Agree
      <4>3. \A j \in Id : Granted(j) => Granted(j)'
        BY <3>4, <4>1, <4>2 DEF Granted, Agree
      <4>4. \A m \in Loop : /\ m # l => pc'[m] = pc[m]
                            /\ m = l => pc'[m] \in {"failOld", "deleteOld"}
        BY <3>4 DEF Agree, Goto, TypeOK
      <4>5. pc'[l] = "deleteOld" /\ new[l][1] \in External => new[l] \in agreed'
        BY <3>4, <4>1 DEF Agree, Goto, TypeOK
      <4>6. UNCHANGED <<requested, jobs, old, new>>
        BY <3>4 DEF Agree
      <4>7. \A j \in External \X (0..MaxGeneration) :
              estate'[j] = "FINISHED" \/ j \in requested' \cup jobs' => Granted(j)'
        <5>1. External \X (0..MaxGeneration) \subseteq Id
          BY EmbeddingAssumption DEF Id
        <5> QED
          BY <4>2, <4>3, <4>6, <5>1 DEF AgreeInv
      <4>8. ASSUME NEW m \in Loop
            PROVE  LoopAgrees(m)'
        <5>1. CASE m = l
          BY <4>1, <4>4, <4>5, <4>6, <5>1 DEF LoopAgrees, Granted
        <5>2. CASE m # l
          <6>1. /\ pc[m] \in HasNew => old[m] \in Id /\ new[m] \in Id
                /\ LoopAgrees(m)
            BY DEF TypeOK, AgreeInv
          <6> QED
            BY <4>2, <4>3, <4>4, <4>6, <5>2, <6>1 DEF LoopAgrees, HasNew, Granted
        <5> QED
          BY <5>1, <5>2
      <4> QED
        BY <4>7, <4>8 DEF AgreeInv
    <3>5. CASE RequestNew(l)
      <4>1. UNCHANGED <<estate, agreed, jobs, old, new>>
        BY <3>5 DEF RequestNew
      <4>2. \A m \in Loop : /\ m # l => pc'[m] = pc[m]
                            /\ m = l => pc'[m] \in {"failOld", "wait"}
        BY <3>5 DEF RequestNew, Goto, TypeOK
      <4>3. new[l][1] \in External => Granted(new[l])
        BY <3>5 DEF RequestNew, AgreeInv, LoopAgrees
      <4>4. requested' \subseteq requested \cup {new[l]}
        BY <3>5 DEF RequestNew
      <4>5. ASSUME NEW i \in External \X (0..MaxGeneration),
                   estate'[i] = "FINISHED" \/ i \in requested' \cup jobs'
            PROVE  Granted(i)'
        <5>1. i = new[l] => new[l][1] \in External
          OBVIOUS
        <5> QED
          BY <4>1, <4>3, <4>4, <4>5, <5>1 DEF AgreeInv, Granted
      <4>6. ASSUME NEW m \in Loop
            PROVE  LoopAgrees(m)'
        <5>1. LoopAgrees(m)
          BY DEF AgreeInv
        <5>2. pc[l] = "deleteOld"
          BY <3>5 DEF RequestNew
        <5> QED
          BY <4>1, <4>2, <5>1, <5>2 DEF LoopAgrees, HasNew, Granted
      <4> QED
        BY <4>5, <4>6 DEF AgreeInv
    <3>6. CASE HandleFailed(l)
      <4>1. /\ \A j \in Id : estate[j] = "GONE" => estate'[j] = "GONE"
            /\ \A j \in Id : estate'[j] = "FINISHED" => estate[j] = "FINISHED"
        BY <3>6, GoneStays DEF HandleFailed
      <4>2. \A m \in Loop : pc'[m] \in HasNew => pc'[m] = pc[m]
        BY <3>6 DEF HandleFailed, Goto, HasNew, TypeOK
      <4> QED
        BY <3>6, <4>1, <4>2, QuietStep DEF HandleFailed
    <3> QED
      BY <2>2, <3>1, <3>2, <3>3, <3>4, <3>5, <3>6 DEF LoopStep
  <2>3. ASSUME NEW i \in Id,
               RequestEmbedding(i) \/ RequestRaises(i) \/ JobEnds(i)
               \/ Cancel(i) \/ DeleteEmbedding(i)
        PROVE  AgreeInv'
    <3>1. /\ \A j \in Id : estate[j] = "GONE" => estate'[j] = "GONE"
          /\ \A j \in Id : estate'[j] = "FINISHED" => estate[j] = "FINISHED" \/ j \in jobs
      <4>1. CASE RequestEmbedding(i) \/ RequestRaises(i)
        BY <4>1 DEF RequestEmbedding, RequestRaises
      <4>2. CASE JobEnds(i)
        BY <4>2, GoneStays DEF JobEnds
      <4>3. CASE Cancel(i) \/ DeleteEmbedding(i)
        BY <4>3, GoneStays DEF Cancel, DeleteEmbedding
      <4> QED
        BY <2>3, <4>1, <4>2, <4>3
    <3>2. /\ requested' \cup jobs' \subseteq requested \cup jobs
          /\ UNCHANGED <<agreed, pc, old, new>>
      BY <2>3 DEF RequestEmbedding, RequestRaises, JobEnds, Cancel, DeleteEmbedding
    <3> QED
      BY <3>1, <3>2, QuietStep
  <2>4. CASE Crash
    <3>1. \A l \in Loop : pc'[l] \in HasNew => pc'[l] = pc[l]
      BY <2>4 DEF Crash, HasNew
    <3> QED
      BY <2>4, <3>1, QuietStep DEF Crash
  <2>5. CASE UNCHANGED vars
    BY <2>5, QuietStep DEF vars
  <2> QED
    BY <2>1, <2>2, <2>3, <2>4, <2>5 DEF Next
<1>3. AgreeInv => FinishedHasAgreement
  BY DEF AgreeInv, FinishedHasAgreement, Granted
<1> QED BY TypeCorrect, <1>1, <1>2, <1>3, PTL DEF Spec

-----------------------------------------------------------------------------
(* Nobody stops to care for a row under way: a loop takes an id off its list  *)
(* only to replace the row, replaces it only by a row it holds, and lets go   *)
(* of that one only when it is requested, settled or gone.                    *)

(* A step that puts no row under way and loses none that cares for one.       *)
LEMMA CareGoesOn ==
  ASSUME PendingHasWorker, faults' + crashes' = 0 => faults + crashes = 0,
         \A i \in Id : estate'[i] \in Pending =>
           /\ estate[i] = estate'[i]
           /\ estate[i] = "WAITING" /\ Awaited(i) => Awaited(i)'
           /\ estate[i] = "INITIALIZING" /\ Attended(i) => Attended(i)'
  PROVE  PendingHasWorker'
BY DEF PendingHasWorker, Pending

(* An embedding under way has somebody to settle it.                          *)
THEOREM SomebodySettles == Spec => []PendingHasWorker
<1>1. Init => PendingHasWorker
  BY DEF Init, PendingHasWorker
<1>2. TypeOK /\ PendingHasWorker /\ [Next]_vars => PendingHasWorker'
  <2> SUFFICES ASSUME TypeOK, PendingHasWorker, [Next]_vars PROVE PendingHasWorker'
    OBVIOUS
  <2> USE DEF rowVars, jobVars, loopVars, bounds
  <2>1. ASSUME NEW l \in Loop, StartLoop(l) PROVE PendingHasWorker'
    <3>1. CASE Rows = {}
      <4>1. UNCHANGED <<estate, todo, old, new, requested, jobs, faults, crashes>>
        BY <2>1, <3>1 DEF StartLoop
      <4>2. \A m \in Loop : pc'[m] = pc[m] \/ pc[m] = "idle"
        BY <2>1 DEF StartLoop, Goto, TypeOK
      <4> QED
        BY <4>1, <4>2, CareGoesOn DEF Awaited, Attended
    <3>2. CASE Rows # {}
      <4>1. /\ todo'[l] = Rows
            /\ \A i \in Id : estate'[i] \in Pending => i \in Rows /\ estate'[i] = "WAITING"
        BY <2>1, <3>2 DEF StartLoop, Rows, Exists, Settled, Pending, TypeOK
      <4>2. \A i \in Id : estate'[i] \in Pending => estate'[i] = "WAITING" /\ Awaited(i)'
        BY <4>1 DEF Awaited
      <4> QED
        BY <4>2 DEF PendingHasWorker, Pending
    <3> QED
      BY <3>1, <3>2
  <2>2. ASSUME NEW l \in Loop, LoopStep(l) PROVE PendingHasWorker'
    <3>1. CASE Notify(l) \/ OldGone(l) \/ AwaitSettled(l) \/ FinishLoop(l)
      <4>1. UNCHANGED <<estate, requested, jobs, todo, faults, crashes>>
        BY <3>1 DEF Notify, OldGone, AwaitSettled, FinishLoop
      <4>2. \A m \in Loop \ {l} : pc'[m] = pc[m] /\ old'[m] = old[m] /\ new'[m] = new[m]
        BY <3>1 DEF Notify, OldGone, AwaitSettled, FinishLoop, Goto, TypeOK
      <4>3. pc[l] \notin {"agree", "deleteOld"} /\ (pc[l] = "create" => ~Exists(old[l]))
        BY <3>1 DEF Notify, OldGone, AwaitSettled, FinishLoop
      <4>4. \A i \in Id : estate[i] \in Pending => Exists(i)
        BY DEF Exists
      <4>5. ASSUME NEW i \in Id, estate'[i] \in Pending
            PROVE  /\ Awaited(i) => Awaited(i)'
                   /\ Attended(i) => Attended(i)'
        BY <4>1, <4>2, <4>3, <4>4, <4>5 DEF Awaited, Attended
      <4> QED
        BY <4>1, <4>5, CareGoesOn
    <3>2. CASE LoopDies(l) \/ DeleteOldRaises(l)
      <4>1. faults' + crashes' # 0
        BY <3>2 DEF LoopDies, DeleteOldRaises, Raise, TypeOK
      <4> QED
        BY <4>1 DEF PendingHasWorker
    <3>3. ASSUME NEW i \in Id, ReadOld(l, i) PROVE PendingHasWorker'
      <4>1. UNCHANGED <<estate, requested, jobs, new, faults, crashes>>
        BY <3>3 DEF ReadOld
      <4>2. /\ pc[l] = "loop"
            /\ \A m \in Loop \ {l} : UNCHANGED <<pc[m], todo[m], old[m]>>
            /\ \A j \in todo[l] : j # i => j \in todo'[l]
            /\ Exists(i) => pc'[l] = "create" /\ old'[l] = i
        BY <3>3 DEF ReadOld, Goto, TypeOK
      <4>3. ASSUME NEW j \in Id, estate[j] \in Pending
            PROVE  /\ Awaited(j) => Awaited(j)'
                   /\ Attended(j) => Attended(j)'
        <5>1. Exists(j)
          BY <4>3 DEF Exists
        <5> QED
          BY <4>1, <4>2, <5>1 DEF Awaited, Attended
      <4> QED
        BY <4>1, <4>3, CareGoesOn
    <3>4. ASSUME NEW g \in 1..MaxGeneration, Create(l, g) PROVE PendingHasWorker'
      <4> DEFINE i == old[l]
                 n == <<old[l][1], g>>
      <4>1. i \in Id /\ n \in Id
        <5>1. i \in Id
          BY <3>4 DEF Create, TypeOK
        <5> QED
          BY <5>1, EmbeddingAssumption DEF Id
      <4>2. /\ estate' = [estate EXCEPT ![n] = "INITIALIZING", ![i] = "GONE"]
            /\ new' = [new EXCEPT ![l] = n]
            /\ pc' = [pc EXCEPT ![l] = "agree"]
            /\ pc[l] = "create"
            /\ UNCHANGED <<todo, old, requested, jobs, faults, crashes>>
        BY <3>4 DEF Create, Goto
      <4>3. Attended(n)'
        BY <4>2 DEF Attended, TypeOK
      <4>4. \A j \in Id : /\ estate'[j] = "WAITING" => j # i /\ estate[j] = "WAITING"
                          /\ estate'[j] = "INITIALIZING" => j = n \/ estate[j] = "INITIALIZING"
        BY <4>1, <4>2 DEF TypeOK
      <4>5. \A m \in Loop \ {l} : UNCHANGED <<pc[m], new[m]>>
        BY <4>2 DEF TypeOK
      <4>6. ASSUME NEW j \in Id
            PROVE  /\ j # i /\ Awaited(j) => Awaited(j)'
                   /\ Attended(j) => Attended(j)'
        BY <4>2, <4>5 DEF Awaited, Attended
      <4> QED
        BY <4>2, <4>3, <4>4, <4>6 DEF PendingHasWorker
    <3>5. CASE Agree(l)
      <4>1. /\ pc[l] = "agree" /\ new[l] \in Id
            /\ \A m \in Loop \ {l} : pc'[m] = pc[m]
            /\ UNCHANGED <<requested, jobs, todo, old, new, faults, crashes>>
        BY <3>5 DEF Agree, Goto, TypeOK, HasNew
      <4>2. \A j \in Id : estate'[j] \in Pending => estate'[j] = estate[j]
        BY <3>5, GoneStays DEF Agree, Pending
      <4>3. pc'[l] = "deleteOld" \/ estate'[new[l]] \notin Pending
        BY <3>5, <4>1 DEF Agree, Goto, SetState, Exists, Pending, Settled, TypeOK
      <4>4. ASSUME NEW j \in Id, estate'[j] \in Pending
            PROVE  /\ Awaited(j) => Awaited(j)'
                   /\ Attended(j) => Attended(j)'
        BY <4>1, <4>3, <4>4 DEF Awaited, Attended
      <4> QED
        BY <4>1, <4>2, <4>4, CareGoesOn
    <3>6. CASE RequestNew(l)
      <4>1. /\ pc[l] = "deleteOld" /\ new[l] \in Id
            /\ \A m \in Loop \ {l} : pc'[m] = pc[m]
            /\ requested \subseteq requested'
            /\ Exists(new[l]) => new[l] \in requested'
            /\ UNCHANGED <<estate, jobs, todo, old, new, faults, crashes>>
        BY <3>6 DEF RequestNew, Goto, TypeOK, HasNew
      <4>2. ASSUME NEW j \in Id, estate'[j] \in Pending
            PROVE  /\ Awaited(j) => Awaited(j)'
                   /\ Attended(j) => Attended(j)'
        <5>1. Exists(j)
          BY <4>1, <4>2 DEF Exists
        <5> QED
          BY <4>1, <5>1 DEF Awaited, Attended
      <4> QED
        BY <4>1, <4>2, CareGoesOn
    <3>7. CASE HandleFailed(l)
      <4>1. /\ pc[l] \in {"failOld", "failNew"}
            /\ \A m \in Loop \ {l} : pc'[m] = pc[m]
            /\ UNCHANGED <<requested, jobs, todo, old, new, faults, crashes>>
        BY <3>7 DEF HandleFailed, Goto, TypeOK
      <4>2. \A j \in Id : estate'[j] \in Pending => estate'[j] = estate[j]
        BY <3>7, GoneStays DEF HandleFailed, Pending
      <4>3. ASSUME NEW j \in Id
            PROVE  /\ Awaited(j) => Awaited(j)'
                   /\ Attended(j) => Attended(j)'
        BY <4>1 DEF Awaited, Attended
      <4> QED
        BY <4>1, <4>2, <4>3, CareGoesOn
    <3> QED
      BY <2>2, <3>1, <3>2, <3>3, <3>4, <3>5, <3>6, <3>7 DEF LoopStep
  <2>3. ASSUME NEW i \in Id, RequestEmbedding(i) PROVE PendingHasWorker'
    <3>1. /\ requested' \cup jobs' = requested \cup jobs
          /\ UNCHANGED <<estate, pc, todo, old, new, faults, crashes>>
      BY <2>3 DEF RequestEmbedding
    <3> QED
      BY <3>1, CareGoesOn DEF Awaited, Attended
  <2>4. ASSUME NEW i \in Id, RequestRaises(i) PROVE PendingHasWorker'
    <3>1. faults' + crashes' # 0
      BY <2>4 DEF RequestRaises, Raise, TypeOK
    <3> QED
      BY <3>1 DEF PendingHasWorker
  <2>5. ASSUME NEW i \in Id, JobEnds(i) \/ Cancel(i) \/ DeleteEmbedding(i)
        PROVE  PendingHasWorker'
    <3>1. /\ \A j \in Id : estate'[j] \in Pending => estate'[j] = estate[j]
          /\ estate'[i] \notin Pending
      BY <2>5, GoneStays
      DEF JobEnds, Cancel, DeleteEmbedding, SetState, Exists, Pending, Settled, TypeOK
    <3>2. /\ requested \cup jobs \subseteq requested' \cup jobs' \cup {i}
          /\ UNCHANGED <<pc, todo, old, new, faults, crashes>>
      BY <2>5 DEF JobEnds, Cancel, DeleteEmbedding
    <3>3. ASSUME NEW j \in Id, estate'[j] \in Pending
          PROVE  /\ Awaited(j) => Awaited(j)'
                 /\ Attended(j) => Attended(j)'
      BY <3>1, <3>2, <3>3 DEF Awaited, Attended
    <3> QED
      BY <3>1, <3>2, <3>3, CareGoesOn
  <2>6. CASE UNCHANGED vars
    BY <2>6 DEF vars, PendingHasWorker, Awaited, Attended
  <2>7. CASE Crash
    <3>1. faults' + crashes' # 0
      BY <2>7 DEF Crash, TypeOK
    <3> QED
      BY <3>1 DEF PendingHasWorker
  <2> QED
    BY <2>1, <2>2, <2>3, <2>4, <2>5, <2>6, <2>7 DEF Next
<1> QED BY TypeCorrect, <1>1, <1>2, PTL DEF Spec

-----------------------------------------------------------------------------
(* Why loops that do not overlap leave one row of each embedding: the only    *)
(* loop under way deletes, with the row it makes, the only other row there    *)
(* can be.  That row may be deleted meanwhile, but nobody else makes one.     *)
OneInv ==
  ~overlapped =>
    /\ \A l, m \in Loop : UnderWay(l) /\ UnderWay(m) => l = m
    /\ \A i, j \in Rows : i[1] = j[1] => i = j
    /\ \A l \in Loop : pc[l] = "create" => \A j \in Rows : j[1] = old[l][1] => j = old[l]

(* A step that makes no row, starts no loop and brings none to the place      *)
(* where it makes one.                                                        *)
LEMMA FewerRows ==
  ASSUME OneInv, overlapped' = overlapped, Rows' \subseteq Rows,
         \A l \in Loop : /\ UnderWay(l)' => UnderWay(l)
                         /\ pc'[l] = "create" => pc[l] = "create" /\ old'[l] = old[l]
  PROVE  OneInv'
BY DEF OneInv

(* Rows only become fewer when a state is assigned.                           *)
LEMMA NoNewRow ==
  ASSUME TypeOK, NEW i, NEW s, SetState(i, s)
  PROVE  Rows' \subseteq Rows
BY DEF TypeOK, SetState, Rows, Exists

(* Loops that do not overlap leave one row of each embedding.                 *)
THEOREM RowsStaySingle == Spec => []OneRowEach
<1>1. Init => OneInv
  <2> SUFFICES ASSUME Init PROVE OneInv
    OBVIOUS
  <2>1. ASSUME NEW i \in Rows, NEW j \in Rows, i[1] = j[1] PROVE i = j
    <3>1. i[2] = 0 /\ j[2] = 0
      BY DEF Init, Rows, Exists, Settled, Pending
    <3> QED
      BY <2>1, <3>1 DEF Rows, Id
  <2> QED
    BY <2>1 DEF Init, OneInv, UnderWay
<1>2. TypeOK /\ OneInv /\ [Next]_vars => OneInv'
  <2> SUFFICES ASSUME TypeOK, OneInv, [Next]_vars PROVE OneInv'
    OBVIOUS
  <2> USE DEF rowVars, jobVars, loopVars, bounds
  <2>1. ASSUME NEW l \in Loop, StartLoop(l) PROVE OneInv'
    <3>1. /\ Rows' \subseteq Rows
          /\ pc[l] = "idle" /\ pc'[l] \in {"done", "announce"}
          /\ \A m \in Loop \ {l} : pc'[m] = pc[m]
          /\ UNCHANGED old
      BY <2>1 DEF StartLoop, Goto, Rows, Exists, TypeOK
    <3>2. CASE Rows = {}
      <4>1. overlapped' = overlapped /\ pc'[l] = "done"
        BY <2>1, <3>2 DEF StartLoop, Goto, TypeOK
      <4> QED
        BY <3>1, <4>1, FewerRows DEF UnderWay
    <3>3. CASE Rows # {}
      <4>1. ~overlapped' => ~overlapped /\ \A m \in Loop \ {l} : ~UnderWay(m)
        BY <2>1, <3>3 DEF StartLoop, TypeOK
      <4> QED
        BY <3>1, <4>1 DEF OneInv, UnderWay
    <3> QED
      BY <3>2, <3>3
  <2>2. ASSUME NEW l \in Loop, LoopStep(l) PROVE OneInv'
    <3>1. CASE \/ Notify(l) \/ LoopDies(l) \/ OldGone(l) \/ RequestNew(l)
               \/ DeleteOldRaises(l) \/ AwaitSettled(l) \/ FinishLoop(l)
      <4>1. /\ UNCHANGED <<estate, overlapped>>
            /\ UnderWay(l) /\ pc'[l] # "create"
            /\ \A m \in Loop \ {l} : pc'[m] = pc[m] /\ old'[m] = old[m]
        BY <3>1 DEF Notify, LoopDies, OldGone, RequestNew, DeleteOldRaises,
             AwaitSettled, FinishLoop, Goto, UnderWay, TypeOK
      <4> QED
        BY <4>1, FewerRows DEF UnderWay, Rows, Exists
    <3>2. ASSUME NEW i \in Id, ReadOld(l, i) PROVE OneInv'
      <4>1. /\ UNCHANGED <<estate, overlapped>>
            /\ UnderWay(l) /\ UnderWay(l)'
            /\ \A m \in Loop \ {l} : pc'[m] = pc[m] /\ old'[m] = old[m]
            /\ pc'[l] = "create" => Exists(i) /\ old'[l] = i
        BY <3>2 DEF ReadOld, Goto, UnderWay, TypeOK
      <4> QED
        BY <4>1 DEF OneInv, UnderWay, Rows, Exists
    <3>3. ASSUME NEW g \in 1..MaxGeneration, Create(l, g) PROVE OneInv'
      <4> DEFINE i == old[l]
                 n == <<old[l][1], g>>
      <4>1. i \in Id /\ n \in Id
        <5>1. i \in Id
          BY <3>3 DEF Create, TypeOK
        <5> QED
          BY <5>1, EmbeddingAssumption DEF Id
      <4>2. /\ estate' = [estate EXCEPT ![n] = "INITIALIZING", ![i] = "GONE"]
            /\ pc[l] = "create" /\ pc'[l] = "agree"
            /\ \A m \in Loop \ {l} : pc'[m] = pc[m]
            /\ UNCHANGED <<old, overlapped>>
        BY <3>3 DEF Create, Goto, TypeOK
      <4>3. Rows' \subseteq (Rows \cup {n}) \ {i}
        BY <4>1, <4>2 DEF Rows, Exists, Settled, Pending, TypeOK
      <4>4. UnderWay(l)
        BY <4>2 DEF UnderWay
      <4>5. ASSUME ~overlapped
            PROVE  /\ \A m \in Loop \ {l} : ~UnderWay(m)
                   /\ \A j \in Rows' : j[1] = n[1] => j = n
                   /\ \A j, k \in Rows : j[1] = k[1] => j = k
        BY <4>2, <4>3, <4>4, <4>5 DEF OneInv
      <4>6. \A m \in Loop : /\ UnderWay(m)' => UnderWay(m)
                            /\ pc'[m] = "create" => m # l /\ UnderWay(m)
        BY <4>2, <4>4 DEF UnderWay
      <4> QED
        BY <4>2, <4>3, <4>5, <4>6 DEF OneInv
    <3>4. CASE Agree(l) \/ HandleFailed(l)
      <4>1. Rows' \subseteq Rows
        BY <3>4, NoNewRow DEF Agree, HandleFailed, Rows, Exists
      <4>2. /\ overlapped' = overlapped
            /\ UnderWay(l) /\ pc'[l] # "create"
            /\ \A m \in Loop \ {l} : pc'[m] = pc[m] /\ old'[m] = old[m]
        BY <3>4 DEF Agree, HandleFailed, Goto, UnderWay, TypeOK
      <4> QED
        BY <4>1, <4>2, FewerRows DEF UnderWay
    <3> QED
      BY <2>2, <3>1, <3>2, <3>3, <3>4 DEF LoopStep
  <2>3. ASSUME NEW i \in Id,
               RequestEmbedding(i) \/ RequestRaises(i) \/ JobEnds(i)
               \/ Cancel(i) \/ DeleteEmbedding(i)
        PROVE  OneInv'
    <3>1. CASE RequestEmbedding(i) \/ RequestRaises(i)
      BY <3>1, FewerRows
      DEF RequestEmbedding, RequestRaises, Rows, Exists, UnderWay
    <3>2. CASE JobEnds(i) \/ Cancel(i) \/ DeleteEmbedding(i)
      <4>1. Rows' \subseteq Rows
        BY <3>2, NoNewRow DEF JobEnds, Cancel, DeleteEmbedding
      <4> QED
        BY <3>2, <4>1, FewerRows DEF JobEnds, Cancel, DeleteEmbedding, UnderWay
    <3> QED
      BY <2>3, <3>1, <3>2
  <2>4. CASE Crash
    <3>1. UNCHANGED <<estate, old, overlapped>>
      BY <2>4 DEF Crash
    <3>2. \A l \in Loop : pc'[l] = "dead" \/ pc'[l] = pc[l]
      BY <2>4 DEF Crash
    <3> QED
      BY <3>1, <3>2, FewerRows DEF Rows, Exists, UnderWay
  <2>5. CASE UNCHANGED vars
    BY <2>5, FewerRows DEF vars, Rows, Exists, UnderWay
  <2> QED
    BY <2>1, <2>2, <2>3, <2>4, <2>5 DEF Next
<1>3. OneInv => OneRowEach
  BY DEF OneInv, OneRowEach
<1> QED BY TypeCorrect, <1>1, <1>2, <1>3, PTL DEF Spec

-----------------------------------------------------------------------------
USE DEF Values, Records, Failed

(* The count of imports stays within its bound.                              *)
LEMMA Counted ==
  ASSUME NEW i \in 0..MaxImports, i < MaxImports
  PROVE  i + 1 \in 0..MaxImports
  BY RecordEditAssumption

(* Every step keeps the types.                                               *)
LEMMA EditTypeStep == EditTypeOK /\ [EditNext]_allVars => EditTypeOK'
<1> SUFFICES ASSUME EditTypeOK, [EditNext]_allVars PROVE EditTypeOK'
  OBVIOUS
<1>0. imports \in 0..MaxImports
  BY DEF EditTypeOK
<1> USE DEF EditTypeOK, recordVars, derivedVars, tokenizerVars, editVars
<1>1. CASE UNCHANGED allVars
  BY <1>1 DEF allVars
<1>2. CASE RecreationStep
  <2>1. tensors' \in [Id -> Values]
    BY <1>2, RecordEditAssumption DEF RecreationStep, Id
  <2>2. at' \in [Edit -> {"idle", "embeddings", "tokenization", "write", "labels", "docbins", "request",
                          "wait", "embed", "done", "dead"} \cup Failed]
    BY <1>2 DEF RecreationStep
  <2>3. QED
    BY <1>2, <2>1, <2>2 DEF RecreationStep
<1>3. CASE ImportTokenizes
  <2>1. imports' \in 0..MaxImports
    BY <1>3, Counted DEF ImportTokenizes
  <2>2. tokenization' \in {"none", "queued", "running", "again"}
    BY <1>3 DEF ImportTokenizes, Queue
  <2>3. mingled' \subseteq {"edit", "tokenization", "recreation"}
    BY <1>3 DEF ImportTokenizes
  <2>4. UNCHANGED <<data, labels, docbin, tensors, tokenized, at, attribute, backup, rebuilds, answer>>
    BY <1>3 DEF ImportTokenizes
  <2> QED
    BY <2>1, <2>2, <2>3, <2>4
<1>4. CASE TokenizerReads
  BY <1>4 DEF TokenizerReads
<1>5. CASE TokenizerEnds
  BY <1>5 DEF TokenizerEnds
<1>6. CASE \E a \in Attribute : Label(a)
  BY <1>6 DEF Label
<1>7. ASSUME NEW e \in Edit, EditStep(e) \/ \E a \in Attribute : ReadRecords(e, a)
      PROVE  EditTypeOK'
  <2>1. ASSUME NEW a \in Attribute, ReadRecords(e, a) PROVE EditTypeOK'
    <3>1. backup' \in [Edit -> Records]
      BY <2>1 DEF ReadRecords
    <3>2. attribute' \in [Edit -> Attribute]
      BY <2>1 DEF ReadRecords
    <3> QED
      BY <2>1, <3>1, <3>2 DEF ReadRecords, Go
  <2>2. CASE ReadEmbeddings(e)
    <3>1. rebuilds' \in [Edit -> SUBSET Id]
      BY <2>2 DEF ReadEmbeddings, RowsOf, Rows
    <3>2. mingled' \subseteq {"edit", "tokenization", "recreation"}
      BY <2>2 DEF ReadEmbeddings
    <3>3. /\ at' = [at EXCEPT ![e] = "tokenization"] \/ at' = [at EXCEPT ![e] = "done"]
          /\ answer' = answer \/ answer' = [answer EXCEPT ![e] = "refused"]
          /\ UNCHANGED <<data, labels, docbin, tensors, tokenization, tokenized, attribute, backup, imports>>
      BY <2>2 DEF ReadEmbeddings, Go, Answered
    <3> QED
      BY <3>1, <3>2, <3>3
  <2>3. CASE ReadTokenization(e)
    BY <2>3 DEF ReadTokenization, Go, Answered
  <2>4. CASE WriteData(e)
    BY <2>4 DEF WriteData, Go, Changed
  <2>5. CASE RemoveLabels(e)
    BY <2>5 DEF RemoveLabels, Go
  <2>6. CASE DeleteDocbins(e)
    BY <2>6 DEF DeleteDocbins, Go
  <2>7. CASE RequestTokenization(e)
    BY <2>7 DEF RequestTokenization, Go, Queue
  <2>8. CASE AwaitTokenization(e)
    BY <2>8 DEF AwaitTokenization, Go
  <2>9. CASE request_re_embed_records(e)
    BY <2>9 DEF request_re_embed_records, Answered, Go, ReEmbedded
  <2>10. CASE EditRaises(e)
    BY <2>10 DEF EditRaises, Go
  <2>11. CASE TokenizationRaises(e)
    BY <2>11 DEF TokenizationRaises, Go
  <2>12. CASE ReEmbedRaises(e)
    BY <2>12 DEF ReEmbedRaises, Go, ReEmbedded
  <2>13. CASE revert_record_data_changes(e)
    BY <2>13 DEF revert_record_data_changes, Answered, Go
  <2> QED
    BY <1>7, <2>1, <2>2, <2>3, <2>4, <2>5, <2>6, <2>7, <2>8, <2>9, <2>10, <2>11, <2>12, <2>13 DEF EditStep
<1> QED
  BY <1>1, <1>2, <1>3, <1>4, <1>5, <1>6, <1>7 DEF EditNext

(* At first the record, the backups and the counts have their types.         *)
LEMMA TypesAtFirst ==
  ASSUME Init, EditInit, imports = 0, at = [e \in Edit |-> "idle"] PROVE EditTypeOK
<1>1. data \in Records /\ labels \in [Attribute -> Values \cup {Nothing}]
  BY DEF EditInit
<1>2. docbin \in Records \cup {Nothing} /\ tensors \in [Id -> Values]
  BY <1>1 DEF EditInit
<1>3. backup \in [Edit -> Records]
  BY <1>1 DEF EditInit
<1>4. imports \in 0..MaxImports
  BY RecordEditAssumption
<1> QED
  BY <1>1, <1>2, <1>3, <1>4 DEF EditInit, EditTypeOK

(* Every variable of the edits keeps its type.                               *)
THEOREM EditTypes == EditSpec => []EditTypeOK
<1>1. Init /\ EditInit /\ imports = 0 /\ at = [e \in Edit |-> "idle"] => EditTypeOK
  BY TypesAtFirst
<1> QED
  BY <1>1, EditTypeStep, PTL DEF EditSpec

-----------------------------------------------------------------------------
(* An edit is active from its last check to its end.  While edits do not     *)
(* meet there is one at most, so what it has read of the record is what it   *)
(* changes and what it puts back.                                            *)
Early == {"idle", "embeddings", "tokenization", "write"}
Holding == {"labels", "docbins", "request", "wait", "embed"} \cup Failed
Active(e) == at[e] = "write" \/ at[e] \in Holding

(* A record in which every value was written by an edit that may be there,   *)
(* and every acknowledged edit is there or was followed by another.          *)
Sound(d, attr, ans, place) ==
  /\ \A a \in Attribute : d[a] \in Edit =>
       attr[d[a]] = a /\ ans[d[a]] \in {"", "ok"} /\ place[d[a]] \notin Early
  /\ \A e \in Edit : ans[e] = "ok" => d[attr[e]] \in Edit
Good(d) == Sound(d, attribute, answer, at)

Alone == \A e, f \in Edit : Active(e) /\ Active(f) => e = f
BackupGood == \A e \in Edit : Active(e) => Good(backup[e]) /\ \A a \in Attribute : backup[e][a] # e
DataHeld == \A e \in Edit : /\ at[e] = "write" => data = backup[e]
                            /\ at[e] \in Holding => data = Changed(e)
Unanswered == \A e \in Edit : at[e] # "done" => answer[e] = ""

EditInv == EditTypeOK /\ Unanswered /\ ("edit" \notin mingled => Alone /\ BackupGood /\ DataHeld /\ Good(data))

(* A good record stays good when places only move on and the answers that    *)
(* change are about edits that are not in it, or that become acknowledged    *)
(* with their attribute edited.                                              *)
LEMMA GoodKept ==
  ASSUME EditTypeOK, NEW d \in Records, Good(d), UNCHANGED attribute,
         \A f \in Edit : at[f] \notin Early => at'[f] \notin Early,
         \A f \in Edit : \/ answer'[f] = answer[f]
                         \/ answer'[f] # "ok" /\ \A a \in Attribute : d[a] # f
                         \/ answer'[f] = "ok" /\ d[attribute[f]] \in Edit
  PROVE  Sound(d, attribute', answer', at')
<1> USE DEF Good, Sound
<1>1. ASSUME NEW a \in Attribute, d[a] \in Edit
      PROVE  attribute'[d[a]] = a /\ answer'[d[a]] \in {"", "ok"} /\ at'[d[a]] \notin Early
  BY <1>1
<1>2. ASSUME NEW e \in Edit, answer'[e] = "ok" PROVE d[attribute'[e]] \in Edit
  <2>1. attribute[e] \in Attribute
    BY ZenonT(60) DEF EditTypeOK
  <2> QED
    BY <1>2, <2>1
<1> QED
  BY <1>1, <1>2

(* Steps that leave the record, the backups and the answers alone and let no *)
(* edit become active.                                                       *)
LEMMA Calm ==
  ASSUME EditInv, EditTypeOK', UNCHANGED <<data, attribute, backup, answer>>,
         "edit" \in mingled => "edit" \in mingled',
         \A f \in Edit : \/ at'[f] = at[f]
                         \/ at[f] # "done" /\ at'[f] = "dead"
                         \/ at[f] = "embeddings" /\ at'[f] = "tokenization"
                         \/ at[f] \in Holding /\ at'[f] \in Holding
  PROVE  EditInv'
<1> USE DEF Early, Holding
<1>1. Unanswered'
  BY DEF EditInv, Unanswered
<1>2. ASSUME "edit" \notin mingled' PROVE Alone' /\ BackupGood' /\ DataHeld' /\ Good(data)'
  <2>1. Alone /\ BackupGood /\ DataHeld /\ Good(data) /\ EditTypeOK
    BY <1>2 DEF EditInv
  <2>2. \A f \in Edit : Active(f)' => Active(f)
    BY DEF Active
  <2>3. \A f \in Edit : at[f] \notin Early => at'[f] \notin Early
    OBVIOUS
  <2>4. \A d \in Records : Good(d) => Sound(d, attribute', answer', at')
    BY <2>1, <2>3, GoodKept
  <2>5. Alone'
    BY <2>1, <2>2 DEF Alone
  <2>6. BackupGood'
    <3> SUFFICES ASSUME NEW e \in Edit, Active(e)'
                 PROVE  Good(backup[e])' /\ \A a \in Attribute : backup'[e][a] # e
      BY DEF BackupGood
    <3>1. Active(e) /\ backup[e] \in Records
      BY <2>1, <2>2 DEF EditTypeOK
    <3> QED
      BY <2>1, <2>4, <3>1 DEF BackupGood, Good
  <2>7. DataHeld'
    BY <2>1 DEF DataHeld, Changed
  <2>8. Good(data)'
    BY <2>1, <2>4 DEF Good, EditTypeOK
  <2> QED
    BY <2>5, <2>6, <2>7, <2>8
<1> QED
  BY <1>1, <1>2 DEF EditInv

(* An edit that is refused was never in the record.                          *)
LEMMA Refuse ==
  ASSUME EditInv, EditTypeOK', NEW e \in Edit, at[e] \in {"embeddings", "tokenization"},
         Answered(e, "refused"), UNCHANGED <<data, attribute, backup>>,
         "edit" \in mingled => "edit" \in mingled'
  PROVE  EditInv'
<1> USE DEF Early, Holding
<1>0. EditTypeOK /\ Unanswered
  BY DEF EditInv
<1>1. /\ \A f \in Edit : at'[f] = IF f = e THEN "done" ELSE at[f]
      /\ \A f \in Edit : answer'[f] = IF f = e THEN "refused" ELSE answer[f]
  BY <1>0 DEF Answered, Go, EditTypeOK
<1>2. Unanswered'
  BY <1>0, <1>1 DEF Unanswered
<1>3. ASSUME "edit" \notin mingled' PROVE Alone' /\ BackupGood' /\ DataHeld' /\ Good(data)'
  <2>1. Alone /\ BackupGood /\ DataHeld /\ Good(data)
    BY <1>3 DEF EditInv
  <2>2. \A f \in Edit : Active(f)' => Active(f)
    BY <1>1 DEF Active
  <2>3. ASSUME NEW d \in Records, Good(d) PROVE Sound(d, attribute', answer', at')
    <3>1. \A f \in Edit : at[f] \notin Early => at'[f] \notin Early
      BY <1>1
    <3>2. \A a \in Attribute : d[a] # e
      BY <2>3 DEF Good, Sound
    <3> QED
      BY <1>0, <1>1, <2>3, <3>1, <3>2, GoodKept
  <2>4. Alone'
    BY <2>1, <2>2 DEF Alone
  <2>5. BackupGood'
    <3> SUFFICES ASSUME NEW f \in Edit, Active(f)'
                 PROVE  Good(backup[f])' /\ \A a \in Attribute : backup'[f][a] # f
      BY DEF BackupGood
    <3>1. Active(f) /\ backup[f] \in Records
      BY <1>0, <2>2 DEF EditTypeOK
    <3> QED
      BY <2>1, <2>3, <3>1 DEF BackupGood, Good
  <2>6. DataHeld'
    BY <1>1, <2>1 DEF DataHeld, Changed
  <2>7. Good(data)'
    BY <1>0, <2>1, <2>3 DEF Good, EditTypeOK
  <2> QED
    BY <2>4, <2>5, <2>6, <2>7
<1> QED
  BY <1>2, <1>3 DEF EditInv

(* One edit moves; places of the others stay.                                *)
LEMMA StepKeepsInv ==
  ASSUME EditInv, EditTypeOK', NEW e \in Edit, EditStep(e) \/ \E a \in Attribute : ReadRecords(e, a)
  PROVE  EditInv'
<1> USE DEF Early, Holding
<1>0. EditTypeOK /\ Unanswered
  BY DEF EditInv
<1>1. CASE \E a \in Attribute : ReadRecords(e, a)
  <2>1. /\ at[e] = "idle" /\ answer[e] = "" /\ UNCHANGED <<data, answer, mingled>>
        /\ at' = [at EXCEPT ![e] = "embeddings"]
        /\ \A f \in Edit \ {e} : attribute'[f] = attribute[f] /\ backup'[f] = backup[f]
    BY <1>0, <1>1, ZenonT(60) DEF ReadRecords, Go, recordVars, EditTypeOK, Unanswered
  <2>2. /\ \A f \in Edit : at'[f] = IF f = e THEN "embeddings" ELSE at[f]
        /\ \A f \in Edit : Active(f)' => f # e /\ Active(f)
    BY <1>0, <2>1 DEF EditTypeOK, Active
  <2>3. Unanswered'
    BY <1>0, <2>1, <2>2 DEF Unanswered
  <2>4. ASSUME "edit" \notin mingled' PROVE Alone' /\ BackupGood' /\ DataHeld' /\ Good(data)'
    <3>1. Alone /\ BackupGood /\ DataHeld /\ Good(data)
      BY <2>1, <2>4 DEF EditInv
    <3>2. ASSUME NEW d \in Records, Good(d) PROVE Sound(d, attribute', answer', at')
      <4>1. \A a \in Attribute : d[a] # e
        BY <2>1, <3>2, ZenonT(60) DEF Good, Sound
      <4>2. \A f \in Edit : answer[f] = "ok" => f # e
        BY <2>1
      <4>3. \A a \in Attribute : d[a] \in Edit => d[a] # e
        BY <4>1
      <4>4. \A a \in Attribute : d[a] \in Edit =>
              attribute'[d[a]] = a /\ answer'[d[a]] \in {"", "ok"} /\ at'[d[a]] \notin Early
        <5> SUFFICES ASSUME NEW a \in Attribute, d[a] \in Edit
                     PROVE  attribute'[d[a]] = a /\ answer'[d[a]] \in {"", "ok"} /\ at'[d[a]] \notin Early
          OBVIOUS
        <5>1. d[a] # e /\ attribute[d[a]] = a /\ answer[d[a]] \in {"", "ok"} /\ at[d[a]] \notin Early
          BY <3>2, <4>3 DEF Good, Sound
        <5> QED
          BY <2>1, <2>2, <5>1
      <4>5. \A f \in Edit : answer'[f] = "ok" => d[attribute'[f]] \in Edit
        BY <2>1, <3>2, <4>2 DEF Good, Sound
      <4> QED
        BY <4>4, <4>5 DEF Sound
    <3>3. Alone'
      BY <2>2, <3>1 DEF Alone
    <3>4. BackupGood'
      <4> SUFFICES ASSUME NEW f \in Edit, Active(f)'
                   PROVE  Good(backup[f])' /\ \A a \in Attribute : backup'[f][a] # f
        BY DEF BackupGood
      <4>1. f # e /\ Active(f) /\ backup[f] \in Records
        BY <1>0, <2>2 DEF EditTypeOK
      <4>2. backup'[f] = backup[f]
        BY <2>1, <4>1
      <4> QED
        BY <3>1, <3>2, <4>1, <4>2 DEF BackupGood, Good
    <3>5. DataHeld'
      <4> SUFFICES ASSUME NEW f \in Edit, Active(f)'
                   PROVE  /\ at'[f] = "write" => data' = backup'[f]
                          /\ at'[f] \in Holding => data' = Changed(f)'
        BY DEF DataHeld, Active
      <4>1. f # e /\ at'[f] = at[f]
        BY <2>2
      <4>2. backup'[f] = backup[f] /\ Changed(f)' = Changed(f)
        BY <2>1, <4>1 DEF Changed
      <4> QED
        BY <2>1, <3>1, <4>1, <4>2 DEF DataHeld
    <3>6. Good(data)'
      BY <1>0, <2>1, <3>1, <3>2 DEF Good, EditTypeOK
    <3> QED
      BY <3>3, <3>4, <3>5, <3>6
  <2> QED
    BY <2>3, <2>4 DEF EditInv
<1>2. CASE ReadEmbeddings(e) /\ answer' # answer
  <2>1. at[e] = "embeddings" /\ Answered(e, "refused")
    BY <1>2 DEF ReadEmbeddings
  <2>2. UNCHANGED <<data, attribute, backup>> /\ ("edit" \in mingled => "edit" \in mingled')
    BY <1>2 DEF ReadEmbeddings, recordVars
  <2> QED
    BY <2>1, <2>2, Refuse
<1>3. CASE ReadEmbeddings(e) /\ answer' = answer
  <2>1. at' = [at EXCEPT ![e] = "tokenization"] /\ at[e] = "embeddings"
    BY <1>0, <1>3 DEF ReadEmbeddings, Go, Answered, EditTypeOK, Unanswered
  <2>2. UNCHANGED <<data, attribute, backup, answer>> /\ ("edit" \in mingled => "edit" \in mingled')
    BY <1>3 DEF ReadEmbeddings, recordVars
  <2> QED
    BY <1>0, <2>1, <2>2, Calm DEF EditTypeOK
<1>4. CASE ReadTokenization(e) /\ answer' # answer
  <2>1. at[e] = "tokenization" /\ Answered(e, "refused") /\ UNCHANGED mingled
    BY <1>4 DEF ReadTokenization
  <2>2. UNCHANGED <<data, attribute, backup>>
    BY <1>4 DEF ReadTokenization, recordVars
  <2> QED
    BY <2>1, <2>2, Refuse
<1>10. CASE ReadTokenization(e) /\ answer' = answer
  <2>1. /\ at[e] = "tokenization" /\ at' = [at EXCEPT ![e] = "write"]
        /\ UNCHANGED <<data, attribute, backup, answer>>
        /\ "edit" \in mingled => "edit" \in mingled'
        /\ "edit" \notin mingled' => ~Meets(e) /\ ~is_doc_bin_creation_running_or_queued
    <3>1. ~Answered(e, "refused")
      BY <1>0, <1>10 DEF Answered, EditTypeOK, Unanswered, ReadTokenization
    <3> QED
      BY <1>10, <3>1 DEF ReadTokenization, Go, recordVars
  <2>2. \A f \in Edit : at'[f] = IF f = e THEN "write" ELSE at[f]
    BY <1>0, <2>1 DEF EditTypeOK
  <2>3. Unanswered'
    BY <1>0, <2>1, <2>2 DEF Unanswered
  <2>4. ASSUME "edit" \notin mingled' PROVE Alone' /\ BackupGood' /\ DataHeld' /\ Good(data)'
    <3>1. Good(data) /\ backup[e] = data /\ \A f \in Edit \ {e} : ~Editing(f)
      BY <2>1, <2>4 DEF EditInv, Meets
    <3>2. \A f \in Edit : Active(f)' => f = e
      BY <2>2, <3>1 DEF Active, Editing
    <3>3. Good(data)'
      BY <1>0, <2>1, <2>2, <3>1, GoodKept DEF Good, EditTypeOK
    <3>4. ASSUME NEW a \in Attribute, data[a] = e PROVE FALSE
      <4>1. at[e] \notin Early
        BY <3>1, <3>4 DEF Good, Sound
      <4> QED
        BY <2>1, <4>1
    <3>5. Alone' /\ BackupGood'
      BY <2>1, <3>1, <3>2, <3>3, <3>4 DEF Alone, BackupGood, Good
    <3>6. DataHeld'
      <4>1. at'[e] = "write" /\ data' = backup'[e]
        BY <2>1, <2>2, <3>1
      <4>2. \A f \in Edit : (at'[f] = "write" => f = e) /\ at'[f] \notin Holding
        BY <2>2, <3>2 DEF Active
      <4> QED
        BY <4>1, <4>2 DEF DataHeld
    <3> QED
      BY <3>3, <3>5, <3>6
  <2> QED
    BY <2>3, <2>4 DEF EditInv
<1>5. CASE WriteData(e)
  <2>1. /\ at[e] = "write" /\ at' = [at EXCEPT ![e] = "labels"] /\ data' = Changed(e) /\ answer[e] = ""
        /\ UNCHANGED <<attribute, backup, answer, mingled>>
    BY <1>0, <1>5 DEF WriteData, Go, Unanswered
  <2>2. \A f \in Edit : at'[f] = IF f = e THEN "labels" ELSE at[f]
    BY <1>0, <2>1 DEF EditTypeOK
  <2>3. Unanswered'
    BY <1>0, <2>1, <2>2 DEF Unanswered
  <2>4. ASSUME "edit" \notin mingled' PROVE Alone' /\ BackupGood' /\ DataHeld' /\ Good(data)'
    <3>1. Alone /\ Good(backup[e]) /\ \A a \in Attribute : backup[e][a] # e
      BY <2>1, <2>4 DEF EditInv, BackupGood, Active
    <3>2. \A f \in Edit : Active(f)' => f = e
      BY <2>1, <2>2, <3>1 DEF Alone, Active
    <3>3. backup[e] \in Records /\ attribute[e] \in Attribute
      BY <1>0 DEF EditTypeOK
    <3>4. Sound(backup[e], attribute', answer', at')
      <4>1. \A f \in Edit : at[f] \notin Early => at'[f] \notin Early
        BY <2>2
      <4> QED
        BY <1>0, <2>1, <3>1, <3>3, <4>1, GoodKept
    <3>5. Alone' /\ BackupGood'
      BY <2>1, <3>1, <3>2, <3>4 DEF Alone, BackupGood, Good
    <3>6. DataHeld'
      <4>1. Changed(e)' = Changed(e)
        BY <2>1 DEF Changed
      <4>2. \A f \in Edit : at'[f] # "write" /\ (at'[f] \in Holding => f = e)
        BY <2>2, <3>2 DEF Active
      <4> QED
        BY <2>1, <4>1, <4>2 DEF DataHeld
    <3>7. \A a \in Attribute : data'[a] = IF a = attribute[e] THEN e ELSE backup[e][a]
      BY <2>1, <3>3 DEF Changed
    <3>8. \A f \in Edit : attribute[f] \in Attribute
      BY <1>0 DEF EditTypeOK
    <3>9. Sound(data', attribute', answer', at')
      <4>1. ASSUME NEW a \in Attribute, data'[a] \in Edit
            PROVE  attribute'[data'[a]] = a /\ answer'[data'[a]] \in {"", "ok"} /\ at'[data'[a]] \notin Early
        <5>1. CASE a = attribute[e]
          <6>1. data'[a] = e
            BY <3>7, <5>1
          <6>2. attribute'[e] = a /\ answer'[e] = "" /\ at'[e] = "labels"
            BY <2>1, <2>2, <5>1
          <6> QED
            BY <6>1, <6>2
        <5>2. CASE a # attribute[e]
          <6>1. data'[a] = backup[e][a]
            BY <3>7, <5>2
          <6> QED
            BY <3>4, <4>1, <6>1 DEF Sound
        <5> QED
          BY <5>1, <5>2
      <4>2. ASSUME NEW f \in Edit, answer'[f] = "ok" PROVE data'[attribute'[f]] \in Edit
        BY <2>1, <3>4, <3>7, <3>8, <4>2, ZenonT(60) DEF Sound
      <4> QED
        BY <4>1, <4>2 DEF Sound
    <3> QED
      BY <3>5, <3>6, <3>9 DEF Good
  <2> QED
    BY <2>3, <2>4 DEF EditInv
<1>6. CASE RemoveLabels(e) \/ DeleteDocbins(e) \/ RequestTokenization(e) \/ AwaitTokenization(e)
           \/ TokenizationRaises(e) \/ ReEmbedRaises(e)
  <2>1. /\ at[e] \in Holding
        /\ \E p \in Holding : at' = [at EXCEPT ![e] = p]
    BY <1>6 DEF RemoveLabels, DeleteDocbins, RequestTokenization, AwaitTokenization, TokenizationRaises,
                ReEmbedRaises, Go
  <2>2. UNCHANGED <<data, attribute, backup, answer, mingled>>
    BY <1>6 DEF RemoveLabels, DeleteDocbins, RequestTokenization, AwaitTokenization, TokenizationRaises,
                ReEmbedRaises, recordVars
  <2> QED
    BY <1>0, <2>1, <2>2, Calm DEF EditTypeOK
<1>7. CASE request_re_embed_records(e)
  <2>1. /\ at[e] = "embed" /\ at' = [at EXCEPT ![e] = "done"] /\ answer' = [answer EXCEPT ![e] = "ok"]
        /\ UNCHANGED <<data, attribute, backup, mingled>>
    BY <1>7 DEF request_re_embed_records, Answered, Go, recordVars
  <2>2. /\ \A f \in Edit : at'[f] = IF f = e THEN "done" ELSE at[f]
        /\ \A f \in Edit : answer'[f] = IF f = e THEN "ok" ELSE answer[f]
    BY <1>0, <2>1 DEF EditTypeOK
  <2>3. Unanswered'
    BY <1>0, <2>2 DEF Unanswered
  <2>4. ASSUME "edit" \notin mingled' PROVE Alone' /\ BackupGood' /\ DataHeld' /\ Good(data)'
    <3>1. Alone /\ Good(data) /\ data = Changed(e)
      BY <2>1, <2>4 DEF EditInv, DataHeld
    <3>2. ASSUME NEW f \in Edit, Active(f)' PROVE FALSE
      <4>1. f # e /\ Active(f)
        BY <2>2, <3>2 DEF Active
      <4>2. Active(e)
        BY <2>1 DEF Active
      <4> QED
        BY <3>1, <4>1, <4>2 DEF Alone
    <3>3. Alone' /\ BackupGood' /\ DataHeld'
      BY <3>2 DEF Alone, BackupGood, DataHeld, Active
    <3>4. attribute[e] \in Attribute /\ data[attribute[e]] = e
      BY <1>0, <3>1 DEF EditTypeOK, Changed
    <3>5. Sound(data, attribute', answer', at')
      <4>1. \A f \in Edit : at[f] \notin Early => at'[f] \notin Early
        BY <2>2
      <4>2. \A f \in Edit : answer'[f] = answer[f] \/ (answer'[f] = "ok" /\ data[attribute[f]] \in Edit)
        BY <2>2, <3>4
      <4>3. data \in Records
        BY <1>0 DEF EditTypeOK
      <4> QED
        BY <1>0, <2>1, <3>1, <4>1, <4>2, <4>3, GoodKept
    <3> QED
      BY <2>1, <3>3, <3>5 DEF Good
  <2> QED
    BY <2>3, <2>4 DEF EditInv
<1>8. CASE EditRaises(e)
  <2>1. at[e] # "done" /\ at' = [at EXCEPT ![e] = "dead"]
    BY <1>8 DEF EditRaises, Go
  <2>2. UNCHANGED <<data, attribute, backup, answer, mingled>>
    BY <1>8 DEF EditRaises, recordVars
  <2> QED
    BY <1>0, <2>1, <2>2, Calm DEF EditTypeOK
<1>9. CASE revert_record_data_changes(e)
  <2>1. /\ at[e] \in Failed /\ at' = [at EXCEPT ![e] = "done"] /\ answer' = [answer EXCEPT ![e] = at[e]]
        /\ data' = backup[e] /\ UNCHANGED <<attribute, backup, mingled>>
    BY <1>9 DEF revert_record_data_changes, Answered, Go
  <2>2. /\ \A f \in Edit : at'[f] = IF f = e THEN "done" ELSE at[f]
        /\ \A f \in Edit : answer'[f] = IF f = e THEN at[e] ELSE answer[f]
    BY <1>0, <2>1 DEF EditTypeOK
  <2>3. Unanswered'
    BY <1>0, <2>2 DEF Unanswered
  <2>4. ASSUME "edit" \notin mingled' PROVE Alone' /\ BackupGood' /\ DataHeld' /\ Good(data)'
    <3>1. Alone /\ Good(backup[e]) /\ \A a \in Attribute : backup[e][a] # e
      BY <2>1, <2>4 DEF EditInv, BackupGood, Active
    <3>2. ASSUME NEW f \in Edit, Active(f)' PROVE FALSE
      <4>1. f # e /\ Active(f)
        BY <2>2, <3>2 DEF Active
      <4>2. Active(e)
        BY <2>1 DEF Active
      <4> QED
        BY <3>1, <4>1, <4>2 DEF Alone
    <3>3. Alone' /\ BackupGood' /\ DataHeld'
      BY <3>2 DEF Alone, BackupGood, DataHeld, Active
    <3>4. Sound(backup[e], attribute', answer', at')
      <4>1. \A f \in Edit : at[f] \notin Early => at'[f] \notin Early
        BY <2>2
      <4>2. \A f \in Edit : \/ answer'[f] = answer[f]
                            \/ answer'[f] # "ok" /\ \A a \in Attribute : backup[e][a] # f
        BY <2>1, <2>2, <3>1
      <4>3. backup[e] \in Records
        BY <1>0 DEF EditTypeOK
      <4> QED
        BY <1>0, <2>1, <3>1, <4>1, <4>2, <4>3, GoodKept
    <3> QED
      BY <2>1, <3>3, <3>4 DEF Good
  <2> QED
    BY <2>3, <2>4 DEF EditInv
<1> QED
  BY <1>1, <1>2, <1>3, <1>4, <1>5, <1>6, <1>7, <1>8, <1>9, <1>10 DEF EditStep

(* The invariant is inductive: a restart only ends edits, the tokenizer and   *)
(* imports leave records and answers alone.                                  *)
LEMMA NextKeepsInv == EditInv /\ [EditNext]_allVars => EditInv'
<1> SUFFICES ASSUME EditInv, [EditNext]_allVars PROVE EditInv'
  OBVIOUS
<1>0. EditTypeOK /\ EditTypeOK'
  BY EditTypeStep DEF EditInv
<1>1. CASE RecreationStep
  <2>1. /\ UNCHANGED <<data, attribute, backup, answer>>
        /\ "edit" \in mingled => "edit" \in mingled'
    BY <1>1 DEF RecreationStep, recordVars
  <2>2. \A f \in Edit : at'[f] = at[f] \/ (at[f] # "done" /\ at'[f] = "dead")
    BY <1>1 DEF RecreationStep, Editing
  <2> QED
    BY <1>0, <2>1, <2>2, Calm
<1>2. CASE ImportTokenizes \/ TokenizerReads \/ TokenizerEnds \/ (\E a \in Attribute : Label(a)) \/ UNCHANGED allVars
  <2>1. UNCHANGED <<data, attribute, backup, answer, at>> /\ ("edit" \in mingled => "edit" \in mingled')
    BY <1>2 DEF ImportTokenizes, TokenizerReads, TokenizerEnds, Label, allVars, recordVars, editVars
  <2> QED
    BY <1>0, <2>1, Calm
<1>3. ASSUME NEW e \in Edit, EditStep(e) \/ \E a \in Attribute : ReadRecords(e, a) PROVE EditInv'
  BY <1>0, <1>3, StepKeepsInv
<1> QED
  BY <1>1, <1>2, <1>3 DEF EditNext

(* At first nobody edits and nothing was answered.                           *)
LEMMA InvAtFirst ==
  ASSUME Init, EditInit, imports = 0, at = [e \in Edit |-> "idle"] PROVE EditInv
<1>1. EditTypeOK
  BY TypesAtFirst
<1>2. Unanswered /\ Alone /\ BackupGood /\ DataHeld
  BY DEF EditInit, Unanswered, Alone, BackupGood, DataHeld, Active, Holding
<1>3. Good(data)
  BY RecordEditAssumption DEF EditInit, Good, Sound
<1> QED
  BY <1>1, <1>2, <1>3 DEF EditInv

(* An acknowledged edit is in the record until another edit of the attribute *)
(* is, and one that failed or was refused is not, for edits that do not meet.*)
THEOREM AnswersTrue == EditSpec => []AnswersAreTrue
<1>1. Init /\ EditInit /\ imports = 0 /\ at = [e \in Edit |-> "idle"] => EditInv
  BY InvAtFirst
<1>2. EditInv => AnswersAreTrue
  <2> SUFFICES ASSUME EditInv, "edit" \notin mingled, NEW e \in Edit
               PROVE  /\ answer[e] = "ok" => data[attribute[e]] \in {f \in Edit : attribute[f] = attribute[e] /\ answer[f] \in {"", "ok"}}
                      /\ answer[e] \in Failed \cup {"refused"} => data[attribute[e]] # e
    BY DEF AnswersAreTrue
  <2>1. Good(data) /\ attribute[e] \in Attribute
    BY DEF EditInv, EditTypeOK
  <2> QED
    BY <2>1 DEF Good, Sound
<1> QED
  BY <1>1, <1>2, NextKeepsInv, PTL DEF EditSpec

-----------------------------------------------------------------------------
(* What is made of the record is made of what it says or of what a failed    *)
(* edit wrote, or it is still that of before an edit which is about to make  *)
(* it again or to write the old data back; unless edits met or one was cut   *)
(* off.                                                                      *)
Accident == "edit" \in mingled \/ \E e \in Edit : at[e] = "dead"

\* What an edit at one of the places found in the record.
Found(x, a, places) == \E e \in Edit : at[e] \in places /\ x = backup[e][a]

\* No edit of an element is one of a text.
Elements == \A e \in SubKeyed : at[e] # "idle" => attribute[e] \notin Text
LabelsFollow ==
  \A a \in Text :
    labels[a] \in Told(a) \cup {Nothing} \/ \E e \in Edit : at[e] = "labels" /\ attribute[e] = a

DocbinFollows ==
  /\ tokenized = Nothing \/ \A a \in Attribute : tokenized[a] \in Told(a)
  /\ \/ docbin = Nothing
     \/ \A a \in Attribute : docbin[a] \in Told(a) \/ Found(docbin[a], a, {"labels", "docbins"} \cup Failed)
  /\ \A e \in Edit : at[e] \in {"write", "labels", "docbins"} => tokenization = "none"

(* After its look at the embeddings an edit knows all that are finished, for *)
(* none is made meanwhile.                                                   *)
Past(e) == at[e] \in {"tokenization", "write", "labels", "docbins", "request", "wait", "embed"}
Knows(e) ==
  /\ ~Recreating
  /\ \A i \in Id : estate[i] = "FINISHED" /\ Embeds[i[1]] = attribute[e] => i \in rebuilds[e]
  /\ \A i \in rebuilds[e] : Embeds[i[1]] = attribute[e]
TensorsFollow ==
  /\ \A e \in Edit : Past(e) => Knows(e)
  /\ \A i \in Id : i \in jobs => tensors[i] \in Told(Embeds[i[1]])
  /\ \A i \in Id : estate[i] = "FINISHED" =>
       \/ tensors[i] \in Told(Embeds[i[1]])
       \/ \E e \in Edit : /\ at[e] \in Holding /\ attribute[e] = Embeds[i[1]]
                          /\ tensors[i] = backup[e][attribute[e]]

Stated == estate \in [Id -> {"NONE", "GONE"} \cup Settled \cup Pending]
DerivedInv ==
  /\ Stated /\ Elements
  /\ tokenization \in {"none", "queued"} => tokenized = Nothing
  /\ ~Accident => /\ LabelsFollow
                  /\ "tokenization" \in mingled \/ DocbinFollows
                  /\ "recreation" \in mingled \/ TensorsFollow

(* One edit moves at a time, and only its own attribute and list change.     *)
LEMMA OneMoves ==
  ASSUME EditTypeOK, NEW e \in Edit, EditStep(e) \/ \E a \in Attribute : ReadRecords(e, a)
  PROVE  /\ \A f \in Edit : f # e => /\ at'[f] = at[f] /\ attribute'[f] = attribute[f] /\ backup'[f] = backup[f]
                                     /\ rebuilds'[f] = rebuilds[f] /\ answer'[f] = answer[f]
         /\ \/ UNCHANGED <<attribute, backup>>
            \/ at[e] = "idle" /\ at'[e] = "embeddings" /\ answer' = answer
         /\ at[e] \notin {"done", "dead"} 
         /\ at[e] = "idle" => at'[e] = "embeddings" /\ (e \in SubKeyed => attribute'[e] \notin Text)
         /\ mingled \subseteq mingled'
<1> DEFINE Moved == \E p, q : at' = [at EXCEPT ![e] = p] /\ (answer' = answer \/ answer' = [answer EXCEPT ![e] = q])
<1> USE DEF Go, Answered, editVars
<1>1. CASE \E a \in Attribute : ReadRecords(e, a)
  <2>1. PICK a \in Attribute : /\ attribute' = [attribute EXCEPT ![e] = a]
                               /\ e \in SubKeyed => a \notin Text
    BY <1>1 DEF ReadRecords
  <2>2. /\ at[e] = "idle" /\ at' = [at EXCEPT ![e] = "embeddings"]
        /\ backup' = [backup EXCEPT ![e] = data]
        /\ UNCHANGED <<rebuilds, answer, mingled>>
    BY <1>1 DEF ReadRecords
  <2> QED
    BY <2>1, <2>2 DEF EditTypeOK
<1>2. CASE ReadEmbeddings(e)
  <2>1. PICK r : rebuilds' = [rebuilds EXCEPT ![e] = r]
    BY <1>2 DEF ReadEmbeddings
  <2>2. Moved /\ UNCHANGED <<attribute, backup>> /\ mingled \subseteq mingled' /\ at[e] = "embeddings"
    BY <1>2 DEF ReadEmbeddings
  <2> QED
    BY <2>1, <2>2 DEF EditTypeOK
<1>3. ASSUME EditStep(e), ~ReadEmbeddings(e)
      PROVE  /\ Moved /\ UNCHANGED <<attribute, backup, rebuilds>> /\ mingled \subseteq mingled'
             /\ at[e] \notin {"idle", "done", "dead"}
  <2>1. CASE ReadTokenization(e)
    BY <2>1 DEF ReadTokenization
  <2>2. CASE WriteData(e) \/ RemoveLabels(e) \/ DeleteDocbins(e)
    BY <2>2 DEF WriteData, RemoveLabels, DeleteDocbins
  <2>3. CASE RequestTokenization(e) \/ AwaitTokenization(e) \/ EditRaises(e)
    BY <2>3 DEF RequestTokenization, AwaitTokenization, EditRaises
  <2>4. CASE request_re_embed_records(e) \/ revert_record_data_changes(e)
    BY <2>4 DEF request_re_embed_records, revert_record_data_changes
  <2>5. CASE TokenizationRaises(e) \/ ReEmbedRaises(e)
    BY <2>5 DEF TokenizationRaises, ReEmbedRaises
  <2> QED
    BY <1>3, <2>1, <2>2, <2>3, <2>4, <2>5 DEF EditStep
<1>4. CASE EditStep(e) /\ ~ReadEmbeddings(e)
  BY <1>3, <1>4 DEF EditTypeOK
<1> QED
  BY <1>1, <1>2, <1>4

(* Steps around the edits: only a restart moves edits, to their end.         *)
LEMMA OthersStay ==
  ASSUME \/ RecreationStep \/ ImportTokenizes \/ TokenizerReads \/ TokenizerEnds
         \/ \E a \in Attribute : Label(a)
         \/ UNCHANGED allVars
  PROVE  /\ UNCHANGED <<data, attribute, backup, rebuilds, answer>> /\ mingled \subseteq mingled'
         /\ \A f \in Edit : at'[f] = at[f] \/ (at[f] \notin {"idle", "done", "dead"} /\ at'[f] = "dead")
<1>1. CASE RecreationStep
  BY <1>1 DEF RecreationStep, Editing, recordVars
<1>2. CASE ImportTokenizes \/ TokenizerReads \/ TokenizerEnds
  BY <1>2 DEF ImportTokenizes, TokenizerReads, TokenizerEnds, recordVars, editVars
<1>3. CASE (\E a \in Attribute : Label(a)) \/ UNCHANGED allVars
  BY <1>3 DEF Label, recordVars, editVars, allVars
<1> QED
  BY <1>1, <1>2, <1>3

(* What went wrong once excuses what follows.                                *)
LEMMA AccidentStays ==
  ASSUME EditInv, [EditNext]_allVars, Accident PROVE Accident'
<1>0. EditTypeOK
  BY DEF EditInv
<1>1. ASSUME NEW e \in Edit, EditStep(e) \/ \E a \in Attribute : ReadRecords(e, a) PROVE Accident'
  BY <1>0, <1>1, OneMoves DEF Accident
<1>2. CASE \/ RecreationStep \/ ImportTokenizes \/ TokenizerReads \/ TokenizerEnds
           \/ \E a \in Attribute : Label(a)
           \/ UNCHANGED allVars
  BY <1>2, OthersStay DEF Accident
<1> QED
  BY <1>1, <1>2 DEF EditNext

(* A restart would end an edit: without an accident edits stay put.          *)
LEMMA NoneEnds ==
  ASSUME \/ RecreationStep \/ ImportTokenizes \/ TokenizerReads \/ TokenizerEnds
         \/ \E a \in Attribute : Label(a)
         \/ UNCHANGED allVars,
         ~Accident'
  PROVE  \A f \in Edit : at'[f] = at[f]
  BY OthersStay DEF Accident

(* An edit that holds the record, or is about to, is the only one, and the   *)
(* record says what the edit has read until it writes.                       *)
LEMMA HoldsAlone ==
  ASSUME EditInv, ~Accident, NEW e \in Edit, at[e] \in {"write"} \cup Holding
  PROVE  /\ \A f \in Edit : at[f] \in {"write"} \cup Holding => f = e
         /\ at[e] = "write" => backup[e] = data
         /\ at[e] \in Holding => data = Changed(e)
<1>1. Alone /\ DataHeld
  BY DEF EditInv, Accident
<1>2. \A f \in Edit : at[f] \in {"write"} \cup Holding => f = e
  BY <1>1 DEF Alone, Active
<1>3. (at[e] = "write" => data = backup[e]) /\ (at[e] \in Holding => data = Changed(e))
  BY <1>1 DEF DataHeld
<1> QED
  BY <1>2, <1>3

(* What the record said, or a failed edit wrote, is so after any step but    *)
(* the one that writes the attribute: what is undone was written by an edit  *)
(* that has failed now.                                                      *)
LEMMA ToldKept ==
  ASSUME EditInv, [EditNext]_allVars, ~Accident, NEW a \in Attribute,
         \A e \in Edit : WriteData(e) => attribute[e] # a
  PROVE  \A x \in Told(a) : x \in Told(a)'
<1>0. EditTypeOK /\ Unanswered
  BY DEF EditInv
<1>1. ASSUME NEW e \in Edit, EditStep(e) \/ \E b \in Attribute : ReadRecords(e, b)
      PROVE  \A x \in Told(a) : x \in Told(a)'
  <2>0. /\ \A f \in Edit : f # e => attribute'[f] = attribute[f] /\ answer'[f] = answer[f]
        /\ answer[e] = ""
    BY <1>0, <1>1, OneMoves DEF Unanswered
  <2>1. \A f \in Edit : attribute[f] = a /\ answer[f] \in Failed => attribute'[f] = a /\ answer'[f] \in Failed
    BY <2>0 DEF Failed
  <2>2. SUFFICES data'[a] = data[a] \/ data[a] \in {f \in Edit : attribute'[f] = a /\ answer'[f] \in Failed}
    BY <2>1 DEF Told
  <2>3. CASE revert_record_data_changes(e)
    <3>1. /\ at[e] \in Failed /\ data' = backup[e] /\ answer'[e] = at[e] /\ attribute'[e] = attribute[e]
      BY <1>0, <2>3 DEF revert_record_data_changes, Answered, EditTypeOK
    <3>2. data = Changed(e) /\ backup[e] \in Records /\ attribute[e] \in Attribute
      BY <1>0, <3>1, HoldsAlone DEF Holding, EditTypeOK
    <3>3. CASE a = attribute[e]
      <4>1. data[a] = e
        BY <3>2, <3>3 DEF Changed, Records
      <4> QED
        BY <3>1, <3>3, <4>1
    <3>4. CASE a # attribute[e]
      BY <3>1, <3>2, <3>4 DEF Changed, Records
    <3> QED
      BY <3>3, <3>4
  <2>4. CASE WriteData(e)
    <3>1. data' = Changed(e) /\ at[e] = "write" /\ a # attribute[e]
      BY <2>4 DEF WriteData
    <3>2. backup[e] = data /\ backup[e] \in Records
      BY <1>0, <3>1, HoldsAlone DEF EditTypeOK
    <3> QED
      BY <3>1, <3>2 DEF Changed, Records
  <2>5. CASE (\E b \in Attribute : ReadRecords(e, b)) \/ ReadEmbeddings(e) \/ ReadTokenization(e) \/ RemoveLabels(e)
    BY <2>5 DEF ReadRecords, ReadEmbeddings, ReadTokenization, RemoveLabels, recordVars
  <2>6. CASE DeleteDocbins(e) \/ RequestTokenization(e) \/ AwaitTokenization(e) \/ request_re_embed_records(e)
    BY <2>6 DEF DeleteDocbins, RequestTokenization, AwaitTokenization, request_re_embed_records, recordVars
  <2>7. CASE EditRaises(e) \/ TokenizationRaises(e) \/ ReEmbedRaises(e)
    BY <2>7 DEF EditRaises, TokenizationRaises, ReEmbedRaises, recordVars
  <2> QED
    BY <1>1, <2>3, <2>4, <2>5, <2>6, <2>7 DEF EditStep
<1>2. CASE \/ RecreationStep \/ ImportTokenizes \/ TokenizerReads \/ TokenizerEnds
           \/ \E b \in Attribute : Label(b)
           \/ UNCHANGED allVars
  BY <1>2, OthersStay DEF Told
<1> QED
  BY <1>1, <1>2 DEF EditNext

(* What the record said before an edit writes is what that edit has found.   *)
LEMMA ToldOrFound ==
  ASSUME EditInv, ~Accident, NEW e \in Edit, WriteData(e), NEW a \in Attribute, NEW x \in Told(a)
  PROVE  x \in Told(a)' \/ (a = attribute[e] /\ x = backup[e][a])
<1>0. EditTypeOK
  BY DEF EditInv
<1>1. at[e] = "write" /\ data' = Changed(e) /\ UNCHANGED <<attribute, answer>>
  BY DEF WriteData
<1>2. backup[e] = data /\ data \in Records
  BY <1>0, <1>1, HoldsAlone DEF EditTypeOK
<1>3. a # attribute[e] => data'[a] = data[a]
  BY <1>1, <1>2 DEF Changed, Records
<1>4. x \in Told(a)' \/ (x = data[a] /\ data'[a] # data[a])
  BY <1>1 DEF Told
<1> QED
  BY <1>2, <1>3, <1>4

(* No other edit writes in a step of an edit that does not.                  *)
LEMMA OneWrites ==
  ASSUME EditTypeOK, NEW e \in Edit, EditStep(e) \/ \E a \in Attribute : ReadRecords(e, a), ~WriteData(e)
  PROVE  \A f \in Edit : ~WriteData(f)
<1>1. \A f \in Edit : f # e => at'[f] = at[f]
  BY OneMoves
<1>2. \A f \in Edit : WriteData(f) => at[f] = "write" /\ at'[f] = "labels"
  BY DEF WriteData, Go, EditTypeOK
<1> QED
  BY <1>1, <1>2

(* Steps around the edits that put into a doc bin, or into the hands of the  *)
(* tokenizer, only what was there or what the record says.                   *)
LEMMA OthersKeepDocbin ==
  ASSUME EditTypeOK, DocbinFollows, UNCHANGED <<data, attribute, backup, answer>>,
         \A f \in Edit : at'[f] = at[f],
         tokenized' \in {tokenized, data, Nothing}, docbin' \in {docbin, tokenized},
         tokenization' = tokenization \/ \A f \in Edit : at[f] \notin {"write", "labels", "docbins"}
  PROVE  DocbinFollows'
<1> DEFINE Undone == {"labels", "docbins"} \cup Failed
<1>1. /\ \A a \in Attribute : Told(a)' = Told(a)
      /\ \A a \in Attribute, x \in Values : Found(x, a, Undone) => Found(x, a, Undone)'
  BY DEF Told, Found
<1>2. tokenized' = Nothing \/ \A a \in Attribute : tokenized'[a] \in Told(a)'
  BY <1>1 DEF DocbinFollows, Told
<1>3. ASSUME docbin' # Nothing, NEW a \in Attribute, NEW x, x = docbin'[a]
      PROVE  x \in Told(a)' \/ Found(x, a, Undone)'
  <2>1. CASE docbin' = docbin
    <3>1. x \in Values
      BY <1>3, <2>1 DEF EditTypeOK, Records
    <3>2. x \in Told(a) \/ Found(x, a, Undone)
      BY <1>3, <2>1 DEF DocbinFollows
    <3> QED
      BY <1>1, <3>1, <3>2
  <2>2. CASE docbin' = tokenized
    BY <1>1, <1>3, <2>2 DEF DocbinFollows
  <2> QED
    BY <2>1, <2>2
<1>5. (docbin = Nothing \/ \A a \in Attribute : docbin[a] \in Told(a) \/ Found(docbin[a], a, Undone))'
  <2> SUFFICES ASSUME docbin' # Nothing, NEW a \in Attribute
               PROVE  \/ docbin'[a] \in Told(a)'
                      \/ \E e \in Edit : at'[e] \in Undone /\ docbin'[a] = backup'[e][a]
    BY DEF Found
  <2>1. \A x : x = docbin'[a] => x \in Told(a)' \/ Found(x, a, Undone)'
    BY <1>3
  <2> QED
    BY <2>1 DEF Found
<1>4. \A e \in Edit : at'[e] \in {"write", "labels", "docbins"} => tokenization' = "none"
  BY DEF DocbinFollows
<1> QED
  BY <1>2, <1>4, <1>5 DEF DocbinFollows

(* Labels that no longer say what the record says are about to be removed.   *)
LEMMA LabelsStep ==
  ASSUME EditInv, [EditNext]_allVars, ~Accident, ~Accident', Elements, LabelsFollow
  PROVE  LabelsFollow'
<1>0. EditTypeOK /\ Text \subseteq Attribute
  BY RecordEditAssumption DEF EditInv
<1>1. ASSUME NEW e \in Edit, EditStep(e) \/ \E a \in Attribute : ReadRecords(e, a) PROVE LabelsFollow'
  <2>0. /\ \A f \in Edit : f # e => at'[f] = at[f] /\ attribute'[f] = attribute[f]
        /\ attribute' = attribute \/ (at[e] = "idle" /\ at'[e] = "embeddings")
    BY <1>0, <1>1, OneMoves
  <2>1. CASE WriteData(e)
    <3>1. /\ at[e] = "write" /\ at'[e] = "labels" /\ UNCHANGED <<labels, attribute>>
      BY <1>0, <2>1 DEF WriteData, Go, EditTypeOK
    <3>2. \A f \in Edit : at[f] # "labels"
      BY <3>1, HoldsAlone DEF Holding
    <3>3. ASSUME NEW a \in Text
          PROVE  \/ labels'[a] \in Told(a)' \cup {Nothing}
                 \/ \E f \in Edit : at'[f] = "labels" /\ attribute'[f] = a
      <4>1. labels[a] \in Told(a) \cup {Nothing}
        BY <3>2 DEF LabelsFollow
      <4>2. CASE a = attribute[e]
        BY <3>1, <4>2
      <4>3. CASE a # attribute[e]
        BY <1>0, <2>1, <3>1, <4>1, <4>3, ToldOrFound
      <4> QED
        BY <4>2, <4>3
    <3> QED
      BY <3>3 DEF LabelsFollow
  <2>2. CASE RemoveLabels(e)
    <3>1. /\ at[e] = "labels"
          /\ \A a \in Attribute : labels'[a] = IF a \in rla_delete_tuples(e) THEN Nothing ELSE labels[a]
      BY <2>2 DEF RemoveLabels
    <3>2. (\A f \in Edit : at[f] = "labels" => f = e) /\ ~WriteData(e)
      BY <3>1, HoldsAlone DEF Holding, WriteData
    <3>3. ASSUME NEW a \in Text PROVE labels'[a] \in Told(a)' \cup {Nothing}
      <4>1. CASE a = attribute[e]
        <5>1. e \notin SubKeyed
          BY <3>1, <4>1 DEF Elements
        <5> QED
          BY <1>0, <3>1, <4>1, <5>1 DEF rla_delete_tuples
      <4>2. CASE a # attribute[e]
        <5>1. labels'[a] = labels[a]
          BY <1>0, <3>1, <4>2 DEF rla_delete_tuples
        <5>2. labels[a] \in Told(a) \cup {Nothing}
          BY <3>2, <4>2 DEF LabelsFollow
        <5>3. \A f \in Edit : ~WriteData(f)
          BY <3>1, HoldsAlone DEF Holding, WriteData
        <5>4. \A x \in Told(a) : x \in Told(a)'
          BY <1>0, <5>3, ToldKept
        <5> QED
          BY <5>1, <5>2, <5>4
      <4> QED
        BY <4>1, <4>2
    <3> QED
      BY <3>3 DEF LabelsFollow
  <2>3. CASE ~WriteData(e) /\ ~RemoveLabels(e)
    <3>1. UNCHANGED labels /\ at[e] # "labels"
      <4>1. CASE \E a \in Attribute : ReadRecords(e, a)
        BY <4>1 DEF ReadRecords, recordVars
      <4>2. CASE ReadEmbeddings(e) \/ ReadTokenization(e)
        BY <4>2 DEF ReadEmbeddings, ReadTokenization, recordVars
      <4>3. CASE DeleteDocbins(e) \/ RequestTokenization(e) \/ AwaitTokenization(e)
        BY <4>3 DEF DeleteDocbins, RequestTokenization, AwaitTokenization, recordVars
      <4>4. CASE request_re_embed_records(e) \/ TokenizationRaises(e) \/ ReEmbedRaises(e)
        BY <4>4 DEF request_re_embed_records, TokenizationRaises, ReEmbedRaises, recordVars
      <4>5. CASE EditRaises(e)
        <5>1. at'[e] = "dead"
          BY <1>0, <4>5 DEF EditRaises, Go, EditTypeOK
        <5> QED
          BY <5>1 DEF Accident
      <4>6. CASE revert_record_data_changes(e)
        BY <4>6 DEF revert_record_data_changes, Failed
      <4> QED
        BY <1>1, <2>3, <4>1, <4>2, <4>3, <4>4, <4>5, <4>6 DEF EditStep
    <3>2. ASSUME NEW a \in Text PROVE \A x \in Told(a) : x \in Told(a)'
      <4>1. \A f \in Edit : ~WriteData(f)
        BY <1>0, <1>1, <2>3, OneWrites
      <4> QED
        BY <1>0, <4>1, ToldKept
    <3> QED
      BY <2>0, <3>1, <3>2 DEF LabelsFollow
  <2> QED
    BY <2>1, <2>2, <2>3
<1>2. CASE \/ RecreationStep \/ ImportTokenizes \/ TokenizerReads \/ TokenizerEnds
           \/ \E a \in Attribute : Label(a)
           \/ UNCHANGED allVars
  <2>1. UNCHANGED <<data, attribute, answer>> /\ \A f \in Edit : at'[f] = at[f]
    BY <1>2, OthersStay, NoneEnds
  <2>2. \A a \in Attribute : labels'[a] \in {labels[a], data[a]}
    <3>1. CASE \E a \in Attribute : Label(a)
      <4>1. PICK a \in Attribute : labels' = [labels EXCEPT ![a] = data[a]]
        BY <3>1 DEF Label
      <4>2. labels \in [Attribute -> Values \cup {Nothing}]
        BY <1>0 DEF EditTypeOK
      <4> QED
        BY <4>1, <4>2
    <3>2. CASE RecreationStep \/ ImportTokenizes \/ TokenizerReads \/ TokenizerEnds \/ UNCHANGED allVars
      BY <3>2 DEF RecreationStep, ImportTokenizes, TokenizerReads, TokenizerEnds, allVars, recordVars
    <3> QED
      BY <1>2, <3>1, <3>2
  <2>3. \A a \in Text : labels'[a] = labels[a] \/ labels'[a] \in Told(a)
    BY <1>0, <2>2 DEF Told
  <2>4. \A a \in Text : Told(a)' = Told(a)
    BY <2>1 DEF Told
  <2> QED
    BY <2>1, <2>3, <2>4 DEF LabelsFollow
<1> QED
  BY <1>1, <1>2 DEF EditNext

(* A doc bin of older data is about to be deleted or right again, and no     *)
(* tokenization runs before it is deleted.                                   *)
LEMMA DocbinStep ==
  ASSUME EditInv, [EditNext]_allVars, ~Accident, ~Accident', "tokenization" \notin mingled', DocbinFollows,
         tokenization \in {"none", "queued"} => tokenized = Nothing
  PROVE  DocbinFollows'
<1>0. EditTypeOK
  BY DEF EditInv
<1> DEFINE Undone == {"labels", "docbins"} \cup Failed
           Right(d) == d = Nothing \/ \A a \in Attribute : d[a] \in Told(a)
           Sure(d) == d = Nothing \/ \A a \in Attribute : d[a] \in Told(a) \/ Found(d[a], a, Undone)
           Held == \A f \in Edit : at[f] \in {"write", "labels", "docbins"} => tokenization = "none"
<1>a. DocbinFollows <=> Right(tokenized) /\ Sure(docbin) /\ Held
  BY DEF DocbinFollows
<1>b. DocbinFollows' <=> Right(tokenized)' /\ Sure(docbin)' /\ Held'
  BY DEF DocbinFollows
<1> HIDE DEF Held
<1>1. ASSUME NEW e \in Edit, EditStep(e) \/ \E a \in Attribute : ReadRecords(e, a) PROVE DocbinFollows'
  <2>0. /\ \A f \in Edit : f # e => at'[f] = at[f]
        /\ backup' = backup \/ (at[e] = "idle" /\ at'[e] = "embeddings")
        /\ \A f \in Edit : f # e => backup'[f] = backup[f]
    BY <1>0, <1>1, OneMoves
  <2>1. ASSUME ~WriteData(e)
        PROVE  /\ \A a \in Attribute : \A x \in Told(a) : x \in Told(a)'
               /\ \A a \in Attribute, x \in Values : Found(x, a, Undone) =>
                    x \in Told(a)' \/ Found(x, a, Undone)' \/ (at[e] \in Undone /\ at'[e] \notin Undone /\ x = backup[e][a])
    <3>1. \A f \in Edit : ~WriteData(f)
      BY <1>0, <1>1, <2>1, OneWrites
    <3>2. \A a \in Attribute : \A x \in Told(a) : x \in Told(a)'
      BY <3>1, ToldKept
    <3>3. ASSUME NEW a \in Attribute, NEW x \in Values, Found(x, a, Undone), ~Found(x, a, Undone)'
          PROVE  at[e] \in Undone /\ at'[e] \notin Undone /\ x = backup[e][a]
      <4>1. PICK f \in Edit : at[f] \in Undone /\ x = backup[f][a]
        BY <3>3 DEF Found
      <4>2. at'[f] \notin Undone \/ x # backup'[f][a]
        BY <3>3 DEF Found
      <4>3. f = e
        BY <2>0, <4>1, <4>2
      <4>4. backup' = backup
        BY <2>0, <4>1, <4>3 DEF Failed
      <4> QED
        BY <4>1, <4>2, <4>3, <4>4
    <3> QED
      BY <3>2, <3>3
  <2>2. ASSUME ~WriteData(e), UNCHANGED tokenized PROVE Right(tokenized)'
    BY <1>a, <2>1, <2>2
  <2>3. ASSUME ~WriteData(e), UNCHANGED docbin, at[e] \notin Undone \/ at'[e] \in Undone PROVE Sure(docbin)'
    <3> SUFFICES ASSUME docbin # Nothing, NEW a \in Attribute
                 PROVE  docbin[a] \in Told(a)' \/ Found(docbin[a], a, Undone)'
      BY <2>3
    <3>1. docbin[a] \in Values
      BY <1>0 DEF EditTypeOK, Records
    <3> QED
      BY <1>a, <2>1, <2>3, <3>1
  <2>4. CASE ReadTokenization(e)
    <3>1. UNCHANGED <<docbin, tokenization, tokenized>> /\ at[e] = "tokenization" /\ ~WriteData(e)
      BY <2>4 DEF ReadTokenization, WriteData, derivedVars, tokenizerVars
    <3>2. at'[e] = "done" \/ tokenization = "none"
      BY <1>0, <2>4 DEF ReadTokenization, Go, Answered, EditTypeOK, is_doc_bin_creation_running_or_queued
    <3>3. Held'
      BY <1>a, <2>0, <3>1, <3>2 DEF Held
    <3> QED
      BY <1>b, <2>2, <2>3, <3>1, <3>3 DEF Failed
  <2>5. CASE WriteData(e)
    <3>1. /\ at[e] = "write" /\ at'[e] = "labels" /\ UNCHANGED <<docbin, tokenization, tokenized, backup>>
      BY <1>0, <2>5 DEF WriteData, Go, EditTypeOK, derivedVars, tokenizerVars
    <3>2. tokenization = "none" /\ tokenized = Nothing
      BY <1>a, <3>1 DEF Held
    <3>3. Held'
      BY <3>1, <3>2 DEF Held
    <3>4. \A f \in Edit : at[f] \notin Undone
      BY <3>1, HoldsAlone DEF Holding, Failed
    <3>5. Sure(docbin)'
      <4> SUFFICES ASSUME docbin # Nothing, NEW a \in Attribute
                   PROVE  docbin[a] \in Told(a)' \/ Found(docbin[a], a, Undone)'
        BY <3>1
      <4>1. docbin[a] \in Told(a)
        BY <1>a, <3>4 DEF Found
      <4>2. docbin[a] \in Told(a)' \/ docbin[a] = backup'[e][a]
        BY <2>5, <3>1, <4>1, ToldOrFound
      <4> QED
        BY <3>1, <4>2 DEF Found
    <3> QED
      BY <1>b, <3>1, <3>2, <3>3, <3>5
  <2>6. CASE RemoveLabels(e) \/ TokenizationRaises(e) \/ ReEmbedRaises(e)
    <3>1. /\ UNCHANGED <<docbin, tokenization, tokenized>> /\ ~WriteData(e)
          /\ at'[e] \in Undone
          /\ at[e] \in Holding /\ (at'[e] \in {"write", "labels", "docbins"} => at[e] = "labels")
      BY <1>0, <2>6 DEF RemoveLabels, TokenizationRaises, ReEmbedRaises, WriteData, Go, EditTypeOK, derivedVars,
                        tokenizerVars, Failed, Holding
    <3>2. Held'
      BY <1>a, <2>0, <3>1 DEF Held
    <3> QED
      BY <1>b, <2>2, <2>3, <3>1, <3>2
  <2>7. CASE DeleteDocbins(e)
    <3>1. /\ at[e] = "docbins" /\ at'[e] = "request" /\ docbin' = Nothing
          /\ UNCHANGED <<tokenization, tokenized>> /\ ~WriteData(e)
      BY <1>0, <2>7 DEF DeleteDocbins, WriteData, Go, EditTypeOK, tokenizerVars
    <3>2. Held'
      BY <1>a, <2>0, <3>1 DEF Held
    <3> QED
      BY <1>b, <2>2, <3>1, <3>2
  <2>8. CASE RequestTokenization(e)
    <3>1. at[e] = "request" /\ at'[e] = "wait" /\ UNCHANGED <<docbin, tokenized>> /\ ~WriteData(e)
      BY <1>0, <2>8 DEF RequestTokenization, WriteData, Go, EditTypeOK, derivedVars
    <3>2. \A f \in Edit : at'[f] \notin {"write", "labels", "docbins"}
      BY <2>0, <3>1, HoldsAlone DEF Holding
    <3>3. Held'
      BY <3>2 DEF Held
    <3> QED
      BY <1>b, <2>2, <2>3, <3>1, <3>3 DEF Failed
  <2>9. CASE (\E a \in Attribute : ReadRecords(e, a)) \/ ReadEmbeddings(e) \/ AwaitTokenization(e)
             \/ request_re_embed_records(e)
    <3>1. /\ at[e] \in {"idle", "embeddings", "wait", "embed"} /\ at'[e] \in {"embeddings", "tokenization", "embed", "done"}
          /\ UNCHANGED <<docbin, tokenization, tokenized>> /\ ~WriteData(e)
      BY <1>0, <2>9 DEF ReadRecords, ReadEmbeddings, AwaitTokenization, request_re_embed_records, WriteData, Go,
                        Answered, EditTypeOK, derivedVars, tokenizerVars
    <3>2. Held'
      BY <1>a, <2>0, <3>1 DEF Held
    <3> QED
      BY <1>b, <2>2, <2>3, <3>1, <3>2 DEF Failed
  <2>10. CASE EditRaises(e)
    <3>1. at'[e] = "dead"
      BY <1>0, <2>10 DEF EditRaises, Go, EditTypeOK
    <3> QED
      BY <3>1 DEF Accident
  <2>11. CASE revert_record_data_changes(e)
    <3>1. /\ at[e] \in Failed /\ at'[e] = "done" /\ data' = backup[e]
          /\ UNCHANGED <<docbin, tokenization, tokenized>> /\ ~WriteData(e)
      BY <1>0, <2>11 DEF revert_record_data_changes, WriteData, Answered, Go, EditTypeOK, derivedVars,
                         tokenizerVars, Failed
    <3>2. Held'
      BY <1>a, <2>0, <3>1 DEF Held
    <3>3. Sure(docbin)'
      <4> SUFFICES ASSUME docbin # Nothing, NEW a \in Attribute
                   PROVE  docbin[a] \in Told(a)' \/ Found(docbin[a], a, Undone)'
        BY <3>1
      <4>1. docbin[a] \in Values /\ backup[e][a] \in Told(a)'
        BY <1>0, <3>1 DEF EditTypeOK, Records, Told
      <4> QED
        BY <1>a, <2>1, <3>1, <4>1
    <3> QED
      BY <1>b, <2>2, <3>1, <3>2, <3>3
  <2> QED
    BY <1>1, <2>4, <2>5, <2>6, <2>7, <2>8, <2>9, <2>10, <2>11 DEF EditStep
<1>2. CASE \/ RecreationStep \/ ImportTokenizes \/ TokenizerReads \/ TokenizerEnds
           \/ \E a \in Attribute : Label(a)
           \/ UNCHANGED allVars
  <2>1. UNCHANGED <<data, attribute, backup, answer>> /\ \A f \in Edit : at'[f] = at[f]
    BY <1>2, OthersStay, NoneEnds
  <2>2. tokenization # "none" => \A f \in Edit : at[f] \notin {"write", "labels", "docbins"}
    BY <1>a DEF Held
  <2>3. CASE ImportTokenizes
    <3>1. /\ UNCHANGED <<docbin, tokenized>> /\ \A e \in Edit : at[e] \notin {"write", "labels", "docbins"}
      BY <2>3 DEF ImportTokenizes, derivedVars
    <3> QED
      BY <1>0, <2>1, <2>2, <3>1, OthersKeepDocbin
  <2>4. CASE TokenizerReads
    <3>1. /\ UNCHANGED docbin /\ tokenized' \in {data, Nothing} /\ tokenization = "queued"
      BY <2>4 DEF TokenizerReads, derivedVars
    <3> QED
      BY <1>0, <2>1, <2>2, <3>1, OthersKeepDocbin
  <2>5. CASE TokenizerEnds
    <3>1. /\ tokenized' = Nothing /\ tokenization \in {"running", "again"} /\ docbin' \in {docbin, tokenized}
      BY <2>5 DEF TokenizerEnds
    <3> QED
      BY <1>0, <2>1, <2>2, <3>1, OthersKeepDocbin
  <2>6. CASE RecreationStep \/ (\E a \in Attribute : Label(a)) \/ UNCHANGED allVars
    <3>1. UNCHANGED <<docbin, tokenization, tokenized>>
      BY <2>6 DEF RecreationStep, Label, allVars, derivedVars, tokenizerVars
    <3> QED
      BY <1>0, <2>1, <2>2, <3>1, OthersKeepDocbin
  <2> QED
    BY <1>2, <2>3, <2>4, <2>5, <2>6
<1> QED
  BY <1>1, <1>2 DEF EditNext

(* Rows keep their states in order, and only the end of a job finishes one.  *)
LEMMA RowsStep ==
  ASSUME Stated, Next
  PROVE  Stated' /\ \A i \in Id : estate'[i] = "FINISHED" => estate[i] = "FINISHED" \/ i \in jobs
<1> USE DEF Stated, Settled, Pending, rowVars
<1>1. ASSUME NEW l \in Loop, StartLoop(l)
      PROVE  Stated' /\ \A i \in Id : estate'[i] = "FINISHED" => estate[i] = "FINISHED"
  BY <1>1 DEF StartLoop
<1>2. ASSUME NEW l \in Loop, LoopStep(l)
      PROVE  Stated' /\ \A i \in Id : estate'[i] = "FINISHED" => estate[i] = "FINISHED"
  <2>1. CASE Notify(l) \/ LoopDies(l) \/ \E i \in Id : ReadOld(l, i)
    BY <2>1 DEF Notify, LoopDies, ReadOld
  <2>2. CASE \E g \in 1..MaxGeneration : Create(l, g)
    BY <2>2 DEF Create
  <2>3. CASE OldGone(l) \/ RequestNew(l) \/ DeleteOldRaises(l) \/ AwaitSettled(l) \/ FinishLoop(l)
    BY <2>3 DEF OldGone, RequestNew, DeleteOldRaises, AwaitSettled, FinishLoop
  <2>4. CASE Agree(l)
    BY <2>4 DEF Agree, SetState
  <2>5. CASE HandleFailed(l)
    BY <2>5 DEF HandleFailed, SetState
  <2> QED
    BY <1>2, <2>1, <2>2, <2>3, <2>4, <2>5 DEF LoopStep
<1>3. ASSUME NEW i \in Id, RequestEmbedding(i) \/ RequestRaises(i)
      PROVE  UNCHANGED estate
  BY <1>3 DEF RequestEmbedding, RequestRaises
<1>4. ASSUME NEW j \in Id, JobEnds(j)
      PROVE  Stated' /\ \A i \in Id : estate'[i] = "FINISHED" => estate[i] = "FINISHED" \/ i \in jobs
  BY <1>4 DEF JobEnds, SetState
<1>5. ASSUME NEW j \in Id, Cancel(j) \/ DeleteEmbedding(j)
      PROVE  Stated' /\ \A i \in Id : estate'[i] = "FINISHED" => estate[i] = "FINISHED"
  BY <1>5 DEF Cancel, DeleteEmbedding, SetState
<1>6. CASE Crash
  BY <1>6 DEF Crash
<1> QED
  BY <1>1, <1>2, <1>3, <1>4, <1>5, <1>6 DEF Next

(* Steps of edits leave the rows and the jobs alone.                         *)
LEMMA RowsStay ==
  ASSUME \/ \E e \in Edit : EditStep(e) \/ \E a \in Attribute : ReadRecords(e, a)
         \/ ImportTokenizes \/ TokenizerReads \/ TokenizerEnds
         \/ \E a \in Attribute : Label(a)
         \/ UNCHANGED allVars
  PROVE  UNCHANGED <<estate, requested, jobs>>
<1> USE DEF vars, rowVars, jobVars
<1>1. ASSUME NEW e \in Edit, EditStep(e) PROVE UNCHANGED <<estate, requested, jobs>>
  <2>1. CASE ReadEmbeddings(e) \/ ReadTokenization(e) \/ WriteData(e) \/ RemoveLabels(e) \/ DeleteDocbins(e)
    BY <2>1 DEF ReadEmbeddings, ReadTokenization, WriteData, RemoveLabels, DeleteDocbins
  <2>2. CASE RequestTokenization(e) \/ AwaitTokenization(e) \/ request_re_embed_records(e)
             \/ revert_record_data_changes(e)
    BY <2>2 DEF RequestTokenization, AwaitTokenization, request_re_embed_records, revert_record_data_changes
  <2>3. CASE EditRaises(e) \/ TokenizationRaises(e) \/ ReEmbedRaises(e)
    BY <2>3 DEF EditRaises, TokenizationRaises, ReEmbedRaises
  <2> QED
    BY <1>1, <2>1, <2>2, <2>3 DEF EditStep
<1>2. CASE \E e \in Edit : \E a \in Attribute : ReadRecords(e, a)
  BY <1>2 DEF ReadRecords
<1>3. CASE ImportTokenizes \/ TokenizerReads \/ TokenizerEnds
  BY <1>3 DEF ImportTokenizes, TokenizerReads, TokenizerEnds
<1>4. CASE (\E a \in Attribute : Label(a)) \/ UNCHANGED allVars
  BY <1>4 DEF Label, allVars
<1> QED
  BY <1>1, <1>2, <1>3, <1>4

(* What a step other than a write leaves of the tensors: what was told is    *)
(* told, and what an edit has found it still has, unless it ends.            *)
LEMMA TensorKept ==
  ASSUME EditInv, [EditNext]_allVars, ~Accident, NEW e \in Edit,
         EditStep(e) \/ \E a \in Attribute : ReadRecords(e, a), ~WriteData(e),
         TensorsFollow, NEW i \in Id, estate[i] = "FINISHED"
  PROVE  \/ tensors[i] \in Told(Embeds[i[1]])'
         \/ \E f \in Edit : at'[f] \in Holding /\ attribute'[f] = Embeds[i[1]] /\ tensors[i] = backup'[f][attribute'[f]]
         \/ at[e] \in Holding /\ at'[e] \notin Holding /\ attribute[e] = Embeds[i[1]] /\ tensors[i] = backup[e][attribute[e]]
<1>0. EditTypeOK /\ Embeds[i[1]] \in Attribute
  BY RecordEditAssumption DEF EditInv, Id
<1>1. \A f \in Edit : ~WriteData(f)
  BY <1>0, OneWrites
<1>2. CASE tensors[i] \in Told(Embeds[i[1]])
  BY <1>0, <1>1, <1>2, ToldKept
<1>3. CASE tensors[i] \notin Told(Embeds[i[1]])
  <2>1. PICK f \in Edit : at[f] \in Holding /\ attribute[f] = Embeds[i[1]] /\ tensors[i] = backup[f][attribute[f]]
    BY <1>3 DEF TensorsFollow
  <2>2. /\ f # e => at'[f] = at[f] /\ attribute'[f] = attribute[f] /\ backup'[f] = backup[f]
        /\ f = e => UNCHANGED <<attribute, backup>>
    BY <1>0, <2>1, OneMoves DEF Holding, Failed
  <2> QED
    BY <2>1, <2>2
<1> QED
  BY <1>2, <1>3

(* Data that is written finds no job and no row under way, and the edit that *)
(* wrote it has the tensors made again of every row it makes stale, or       *)
(* writes the old data back.                                                 *)
LEMMA TensorsStep ==
  ASSUME EditInv, Stated, [EditNext]_allVars, ~Accident, ~Accident', "recreation" \notin mingled', TensorsFollow
  PROVE  TensorsFollow'
<1>0. EditTypeOK /\ \A i \in Id : Embeds[i[1]] \in Attribute
  BY RecordEditAssumption DEF EditInv, Id
<1> DEFINE Right(i) ==
      \/ tensors[i] \in Told(Embeds[i[1]])
      \/ \E e \in Edit : at[e] \in Holding /\ attribute[e] = Embeds[i[1]] /\ tensors[i] = backup[e][attribute[e]]
<1>1. ASSUME NEW e \in Edit, EditStep(e) \/ \E a \in Attribute : ReadRecords(e, a) PROVE TensorsFollow'
  <2>0. /\ \A f \in Edit : f # e => /\ at'[f] = at[f] /\ attribute'[f] = attribute[f]
                                    /\ rebuilds'[f] = rebuilds[f]
        /\ attribute' = attribute \/ (at[e] = "idle" /\ at'[e] = "embeddings")
        /\ UNCHANGED <<estate, requested, jobs>>
    BY <1>0, <1>1, OneMoves, RowsStay
  <2>1. Recreating' <=> Recreating
    BY <2>0 DEF Recreating
  <2>2. ASSUME Past(e)' => Knows(e)' PROVE \A f \in Edit : Past(f)' => Knows(f)'
    BY <2>0, <2>1, <2>2 DEF TensorsFollow, Past, Knows
  <2>3. ASSUME ~WriteData(e), UNCHANGED tensors, at[e] \notin Holding \/ at'[e] \in Holding
        PROVE  \A i \in Id : estate'[i] = "FINISHED" => Right(i)'
    BY <1>1, <2>0, <2>3, TensorKept
  <2>4. ASSUME ~WriteData(e), UNCHANGED tensors PROVE \A i \in Id : i \in jobs' => tensors'[i] \in Told(Embeds[i[1]])'
    <3>1. \A f \in Edit : ~WriteData(f)
      BY <1>0, <1>1, <2>4, OneWrites
    <3>2. \A a \in Attribute : \A x \in Told(a) : x \in Told(a)'
      BY <3>1, ToldKept
    <3> SUFFICES ASSUME NEW i \in Id, i \in jobs PROVE tensors[i] \in Told(Embeds[i[1]])'
      BY <2>0, <2>4
    <3>3. tensors[i] \in Told(Embeds[i[1]])
      BY DEF TensorsFollow
    <3> QED
      BY <1>0, <3>2, <3>3
  <2>5. CASE ReadEmbeddings(e)
    <3>1. /\ UNCHANGED <<tensors, attribute>> /\ at[e] = "embeddings" /\ ~Recreating /\ ~WriteData(e)
          /\ rebuilds'[e] = {i \in RowsOf(e) : estate[i] = "FINISHED"}
          /\ at'[e] \in {"tokenization", "done"}
      BY <1>0, <2>5 DEF ReadEmbeddings, WriteData, Go, Answered, EditTypeOK, derivedVars
    <3>2. Knows(e)'
      BY <2>0, <2>1, <3>1 DEF Knows, RowsOf, Rows, Exists, Settled
    <3> QED
      BY <2>2, <2>3, <2>4, <3>1, <3>2 DEF TensorsFollow, Holding, Failed
  <2>6. CASE WriteData(e)
    <3>1. /\ UNCHANGED <<tensors, attribute, backup, rebuilds>> /\ at[e] = "write" /\ at'[e] = "labels"
      BY <1>0, <2>6 DEF WriteData, Go, EditTypeOK, derivedVars
    <3>2. \A f \in Edit : at[f] \notin Holding
      BY <3>1, HoldsAlone DEF Holding, Failed
    <3>3. Knows(e)
      BY <3>1 DEF TensorsFollow, Past
    <3>4. Knows(e)'
      BY <2>0, <2>1, <3>1, <3>3 DEF Knows
    <3>5. \A i \in Id : i \notin jobs'
      BY <2>0, <3>3 DEF Knows, Recreating
    <3>6. ASSUME NEW i \in Id, estate'[i] = "FINISHED" PROVE Right(i)'
      <4>1. tensors[i] \in Told(Embeds[i[1]])
        BY <2>0, <3>2, <3>6 DEF TensorsFollow
      <4>2. \/ tensors[i] \in Told(Embeds[i[1]])'
            \/ Embeds[i[1]] = attribute[e] /\ tensors[i] = backup[e][attribute[e]]
        BY <1>0, <2>6, <4>1, ToldOrFound
      <4> QED
        BY <3>1, <4>2 DEF Holding
    <3> QED
      BY <2>2, <3>4, <3>5, <3>6 DEF TensorsFollow
  <2>7. CASE request_re_embed_records(e) \/ ReEmbedRaises(e)
    <3>1. /\ UNCHANGED <<data, attribute, backup, rebuilds>> /\ at[e] = "embed"
          /\ at'[e] \in {"done", "embedding failed"} /\ ~WriteData(e)
      BY <1>0, <2>7 DEF request_re_embed_records, ReEmbedRaises, WriteData, Go, Answered, EditTypeOK, recordVars
    <3>2. PICK done \in SUBSET rebuilds[e] : /\ ReEmbedded(e, done)
                                             /\ at'[e] = "done" => done = rebuilds[e]
      BY <1>0, <2>7 DEF request_re_embed_records, ReEmbedRaises, Go, Answered, EditTypeOK, Failed
    <3>3. Knows(e)
      BY <3>1 DEF TensorsFollow, Past
    <3>4. ~Past(e)'
      BY <3>1 DEF Past
    <3>5. \A i \in Id : i \notin jobs'
      BY <2>0, <3>3 DEF Knows, Recreating
    <3>6. ASSUME NEW i \in Id, estate'[i] = "FINISHED" PROVE Right(i)'
      <4>1. estate[i] = "FINISHED" /\ Exists(i)
        BY <2>0, <3>6 DEF Exists, Settled
      <4>2. CASE i \in done
        <5>1. tensors'[i] = data[attribute[e]] /\ Embeds[i[1]] = attribute[e]
          BY <3>2, <3>3, <4>1, <4>2 DEF ReEmbedded, Knows
        <5> QED
          BY <3>1, <5>1 DEF Told
      <4>3. CASE i \notin done
        <5>1. tensors'[i] = tensors[i]
          BY <3>2, <4>3 DEF ReEmbedded
        <5>2. at'[e] \in Holding \/ Embeds[i[1]] # attribute[e]
          BY <3>1, <3>2, <3>3, <4>1, <4>3 DEF Knows, Holding, Failed
        <5>3. \/ tensors[i] \in Told(Embeds[i[1]])'
              \/ \E f \in Edit : /\ at'[f] \in Holding /\ attribute'[f] = Embeds[i[1]]
                                  /\ tensors[i] = backup'[f][attribute'[f]]
              \/ at[e] \in Holding /\ at'[e] \notin Holding /\ attribute[e] = Embeds[i[1]]
          <6>1. ~WriteData(e) /\ estate[i] = "FINISHED"
            BY <3>1, <4>1
          <6> QED
            BY <1>1, <3>6, <6>1, TensorKept
        <5> QED
          BY <5>1, <5>2, <5>3
      <4> QED
        BY <4>2, <4>3
    <3> QED
      BY <2>2, <3>4, <3>5, <3>6 DEF TensorsFollow
  <2>8. CASE (\E a \in Attribute : ReadRecords(e, a)) \/ ReadTokenization(e)
    <3>1. /\ UNCHANGED <<tensors, rebuilds>> /\ at[e] \in {"idle", "tokenization"} /\ ~WriteData(e)
          /\ at'[e] \in {"embeddings", "write", "done"}
          /\ at'[e] = "write" => at[e] = "tokenization"
      BY <1>0, <2>8 DEF ReadRecords, ReadTokenization, WriteData, Go, Answered, EditTypeOK, derivedVars
    <3>2. Past(e)' => Knows(e)'
      BY <2>0, <2>1, <3>1 DEF Past, Knows, TensorsFollow
    <3> QED
      BY <2>2, <2>3, <2>4, <3>1, <3>2 DEF TensorsFollow, Holding, Failed
  <2>9. CASE RemoveLabels(e) \/ DeleteDocbins(e) \/ RequestTokenization(e) \/ AwaitTokenization(e)
    <3>1. /\ UNCHANGED <<tensors, attribute, rebuilds>> /\ ~WriteData(e)
          /\ at[e] \in {"labels", "docbins", "request", "wait"}
          /\ at'[e] \in {"docbins", "request", "wait", "embed"}
      BY <1>0, <2>9 DEF RemoveLabels, DeleteDocbins, RequestTokenization, AwaitTokenization, WriteData, Go, EditTypeOK,
                        derivedVars
    <3>2. Past(e)' => Knows(e)'
      BY <2>0, <2>1, <3>1 DEF Past, Knows, TensorsFollow
    <3> QED
      BY <2>2, <2>3, <2>4, <3>1, <3>2 DEF TensorsFollow, Holding
  <2>10. CASE TokenizationRaises(e)
    <3>1. /\ UNCHANGED <<tensors, rebuilds>> /\ ~WriteData(e) /\ at'[e] = "tokenization failed"
      BY <1>0, <2>10 DEF TokenizationRaises, WriteData, Go, EditTypeOK, derivedVars
    <3> QED
      BY <2>2, <2>3, <2>4, <3>1 DEF TensorsFollow, Past, Holding, Failed
  <2>11. CASE EditRaises(e)
    <3>1. at'[e] = "dead"
      BY <1>0, <2>11 DEF EditRaises, Go, EditTypeOK
    <3> QED
      BY <3>1 DEF Accident
  <2>12. CASE revert_record_data_changes(e)
    <3>1. /\ at[e] \in Failed /\ at'[e] = "done" /\ data' = backup[e]
          /\ UNCHANGED <<tensors, attribute>> /\ ~WriteData(e)
      BY <1>0, <2>12 DEF revert_record_data_changes, WriteData, Answered, Go, EditTypeOK, derivedVars, Failed
    <3>2. ASSUME NEW i \in Id, estate'[i] = "FINISHED" PROVE tensors'[i] \in Told(Embeds[i[1]])' \/ Right(i)'
      <4>0. estate[i] = "FINISHED"
        BY <2>0, <3>2
      <4>1. \/ tensors[i] \in Told(Embeds[i[1]])'
            \/ \E f \in Edit : /\ at'[f] \in Holding /\ attribute'[f] = Embeds[i[1]]
                                /\ tensors[i] = backup'[f][attribute'[f]]
            \/ attribute[e] = Embeds[i[1]] /\ tensors[i] = backup[e][attribute[e]]
        BY <1>1, <3>1, <3>2, <4>0, TensorKept
      <4>2. attribute[e] = Embeds[i[1]] => backup[e][attribute[e]] \in Told(Embeds[i[1]])'
        BY <3>1 DEF Told
      <4> QED
        BY <3>1, <4>1, <4>2
    <3> QED
      BY <2>2, <2>4, <3>1, <3>2 DEF TensorsFollow, Past
  <2> QED
    BY <1>1, <2>5, <2>6, <2>7, <2>8, <2>9, <2>10, <2>11, <2>12 DEF EditStep
<1>2. CASE RecreationStep
  <2>0. /\ UNCHANGED <<data, attribute, backup, rebuilds, answer>> /\ Next
        /\ \A f \in Edit : at'[f] = at[f]
        /\ tensors' = [i \in Id |-> IF i \in jobs' \ jobs THEN data[Embeds[i[1]]] ELSE tensors[i]]
        /\ Recreating' => \A f \in Edit : ~Editing(f) \/ at[f] = "embeddings"
    <3>1. /\ UNCHANGED <<data, attribute, backup, rebuilds, answer>>
          /\ \A f \in Edit : at'[f] = at[f]
      BY <1>2, NoneEnds, OthersStay
    <3> QED
      BY <1>2, <3>1 DEF RecreationStep
  <2>1. \A i \in Id : estate'[i] = "FINISHED" => estate[i] = "FINISHED" \/ i \in jobs
    BY <2>0, RowsStep
  <2>2. ASSUME NEW e \in Edit, Past(e)' PROVE Knows(e)'
    <3>1. Past(e) /\ Knows(e) /\ ~Recreating'
      BY <2>0, <2>2 DEF Past, Editing, TensorsFollow
    <3>2. \A i \in Id : i \notin jobs
      BY <3>1 DEF Knows, Recreating
    <3> QED
      BY <2>0, <2>1, <3>1, <3>2 DEF Knows
  <2>3. \A a \in Attribute : Told(a)' = Told(a) /\ data[a] \in Told(a)
    BY <2>0 DEF Told
  <2>4. \A i \in Id : tensors'[i] = IF i \in jobs' \ jobs THEN data[Embeds[i[1]]] ELSE tensors[i]
    BY <2>0
  <2>5. ASSUME NEW i \in Id, i \in jobs' PROVE tensors'[i] \in Told(Embeds[i[1]])'
    BY <1>0, <2>3, <2>4, <2>5 DEF TensorsFollow
  <2>6. ASSUME NEW i \in Id, estate'[i] = "FINISHED" PROVE Right(i)'
    <3>1. Right(i)
      BY <2>1, <2>6 DEF TensorsFollow
    <3>2. CASE tensors'[i] = tensors[i]
      BY <1>0, <2>0, <2>3, <3>1, <3>2
    <3>3. CASE tensors'[i] = data[Embeds[i[1]]]
      BY <1>0, <2>3, <3>3
    <3> QED
      BY <2>4, <3>2, <3>3
  <2> QED
    BY <2>2, <2>5, <2>6 DEF TensorsFollow
<1>3. CASE ImportTokenizes \/ TokenizerReads \/ TokenizerEnds \/ (\E a \in Attribute : Label(a)) \/ UNCHANGED allVars
  <2>1. UNCHANGED <<data, attribute, backup, rebuilds, answer>> /\ \A f \in Edit : at'[f] = at[f]
    BY <1>3, OthersStay, NoneEnds
  <2>2. UNCHANGED tensors
    BY <1>3 DEF ImportTokenizes, TokenizerReads, TokenizerEnds, Label, allVars, derivedVars
  <2>3. UNCHANGED <<estate, requested, jobs>>
    BY <1>3, RowsStay
  <2>4. \A a : Told(a)' = Told(a)
    BY <2>1 DEF Told
  <2>5. \A f \in Edit : Past(f)' => Knows(f)'
    BY <2>1, <2>3 DEF Past, Knows, Recreating, TensorsFollow
  <2>6. \A i \in Id : estate'[i] = "FINISHED" => Right(i)'
    BY <2>1, <2>2, <2>3, <2>4 DEF TensorsFollow
  <2>7. \A i \in Id : i \in jobs' => tensors'[i] \in Told(Embeds[i[1]])'
    BY <2>2, <2>3, <2>4 DEF TensorsFollow
  <2> QED
    BY <2>5, <2>6, <2>7 DEF TensorsFollow
<1> QED
  BY <1>1, <1>2, <1>3 DEF EditNext

(* All of it is kept.                                                        *)
LEMMA DerivedStep == EditInv /\ DerivedInv /\ [EditNext]_allVars => DerivedInv'
<1> SUFFICES ASSUME EditInv, DerivedInv, [EditNext]_allVars PROVE DerivedInv'
  OBVIOUS
<1>0. EditTypeOK
  BY DEF EditInv
<1>1. mingled \subseteq mingled'
  BY <1>0, OneMoves, OthersStay DEF EditNext
<1>2. Stated'
  <2>1. CASE RecreationStep
    BY <2>1, RowsStep DEF RecreationStep, DerivedInv
  <2>2. CASE ~RecreationStep
    BY <2>2, RowsStay DEF EditNext, DerivedInv, Stated
  <2> QED
    BY <2>1, <2>2
<1>2a. Elements'
  <2> SUFFICES ASSUME NEW f \in SubKeyed, at'[f] # "idle" PROVE attribute'[f] \notin Text
    BY DEF Elements
  <2>0. f \in Edit /\ (at[f] # "idle" => attribute[f] \notin Text)
    BY RecordEditAssumption DEF DerivedInv, Elements
  <2>1. ASSUME NEW e \in Edit, EditStep(e) \/ \E a \in Attribute : ReadRecords(e, a)
        PROVE  attribute'[f] \notin Text
    BY <1>0, <2>0, <2>1, OneMoves
  <2>2. CASE \/ RecreationStep \/ ImportTokenizes \/ TokenizerReads \/ TokenizerEnds
             \/ \E a \in Attribute : Label(a)
             \/ UNCHANGED allVars
    BY <2>0, <2>2, OthersStay
  <2> QED
    BY <2>1, <2>2 DEF EditNext
<1>3. tokenization' \in {"none", "queued"} => tokenized' = Nothing
  <2>1. CASE TokenizerReads \/ TokenizerEnds
    BY <2>1 DEF TokenizerReads, TokenizerEnds
  <2>2. CASE RecreationStep \/ (\E a \in Attribute : Label(a)) \/ UNCHANGED allVars
    BY <2>2 DEF RecreationStep, Label, allVars, tokenizerVars, DerivedInv
  <2>3. CASE ImportTokenizes
    BY <2>3 DEF ImportTokenizes, Queue, DerivedInv
  <2>4. ASSUME NEW e \in Edit, EditStep(e) \/ \E a \in Attribute : ReadRecords(e, a)
        PROVE  tokenization' \in {"none", "queued"} => tokenized' = Nothing
    <3>1. CASE RequestTokenization(e)
      BY <3>1 DEF RequestTokenization, Queue, DerivedInv
    <3>2. CASE (\E a \in Attribute : ReadRecords(e, a)) \/ ReadEmbeddings(e) \/ ReadTokenization(e) \/ WriteData(e)
      BY <3>2 DEF ReadRecords, ReadEmbeddings, ReadTokenization, WriteData, tokenizerVars, DerivedInv
    <3>3. CASE RemoveLabels(e) \/ DeleteDocbins(e) \/ AwaitTokenization(e) \/ request_re_embed_records(e)
      BY <3>3 DEF RemoveLabels, DeleteDocbins, AwaitTokenization, request_re_embed_records, tokenizerVars, DerivedInv
    <3>4. CASE EditRaises(e) \/ TokenizationRaises(e) \/ ReEmbedRaises(e) \/ revert_record_data_changes(e)
      BY <3>4 DEF EditRaises, TokenizationRaises, ReEmbedRaises, revert_record_data_changes, tokenizerVars, DerivedInv
    <3> QED
      BY <2>4, <3>1, <3>2, <3>3, <3>4 DEF EditStep
  <2> QED
    BY <2>1, <2>2, <2>3, <2>4 DEF EditNext
<1>4. ASSUME ~Accident'
      PROVE  /\ LabelsFollow'
             /\ "tokenization" \in mingled' \/ DocbinFollows'
             /\ "recreation" \in mingled' \/ TensorsFollow'
  <2>1. ~Accident
    BY <1>4, AccidentStays
  <2>2. LabelsFollow'
    BY <1>4, <2>1, LabelsStep DEF DerivedInv
  <2>3. ASSUME "tokenization" \notin mingled' PROVE DocbinFollows'
    BY <1>1, <1>4, <2>1, <2>3, DocbinStep DEF DerivedInv
  <2>4. ASSUME "recreation" \notin mingled' PROVE TensorsFollow'
    BY <1>1, <1>4, <2>1, <2>4, TensorsStep DEF DerivedInv
  <2> QED
    BY <2>2, <2>3, <2>4
<1> QED
  BY <1>2, <1>2a, <1>3, <1>4 DEF DerivedInv

(* When all is quiet, doc bin, labels and tensors are made of what the       *)
(* record says or of what a failed edit wrote, unless an edit was cut off or *)
(* something came in between.                                                *)
THEOREM DerivedTrue == EditSpec => []DerivedFollowsData
<1>1. Init /\ EditInit /\ imports = 0 /\ at = [e \in Edit |-> "idle"] => EditInv
  BY InvAtFirst
<1>2. Init /\ EditInit /\ imports = 0 /\ at = [e \in Edit |-> "idle"] => DerivedInv
  <2> SUFFICES ASSUME Init, EditInit, at = [e \in Edit |-> "idle"] PROVE DerivedInv
    OBVIOUS
  <2>1. Stated /\ Elements
    BY RecordEditAssumption DEF Stated, Init, Settled, Elements
  <2>2. \A a \in Attribute : data[a] = Original /\ labels[a] = Original /\ Original \in Told(a)
    BY DEF EditInit, Told
  <2>3. LabelsFollow
    BY <2>2, RecordEditAssumption DEF LabelsFollow
  <2>4. DocbinFollows
    BY <2>2 DEF DocbinFollows, EditInit
  <2>5. TensorsFollow
    <3>1. \A i \in Id : tensors[i] \in Told(Embeds[i[1]])
      BY <2>2, RecordEditAssumption DEF EditInit, Id
    <3> QED
      BY <3>1 DEF TensorsFollow, Past
  <2> QED
    BY <2>1, <2>3, <2>4, <2>5 DEF DerivedInv, EditInit
<1>3. DerivedInv => DerivedFollowsData
  <2> SUFFICES ASSUME DerivedInv, Quiet, "edit" \notin mingled, \A e \in Edit : at[e] # "dead"
               PROVE  /\ docbin = Nothing \/ (\A a \in Attribute : docbin[a] \in Told(a)) \/ "tokenization" \in mingled
                      /\ \A a \in Text : labels[a] \in Told(a) \cup {Nothing}
                      /\ \A i \in Id : estate[i] = "FINISHED" =>
                           tensors[i] \in Told(Embeds[i[1]]) \/ "recreation" \in mingled
    BY DEF DerivedFollowsData
  <2>1. \A e \in Edit : at[e] \in {"idle", "done"}
    BY DEF Quiet, Editing
  <2>2. ~Accident
    BY <2>1 DEF Accident
  <2> QED
    BY <2>1, <2>2 DEF DerivedInv, LabelsFollow, DocbinFollows, TensorsFollow, Found, Holding, Failed
<1> QED
  BY <1>1, <1>2, <1>3, NextKeepsInv, DerivedStep, PTL DEF EditSpec
=============================================================================
