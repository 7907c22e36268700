-------------------------- MODULE PayloadRunProofs --------------------------
(* Theorems about PayloadRun, for every set of payloads and every bound.     *)
EXTENDS PayloadRun, FiniteSetTheorems, TLAPS

(* Every variable of the payload runs keeps its type.                        *)
THEOREM TypeCorrect == Spec => []TypeOK
<1>1. Init => TypeOK
  <2> SUFFICES ASSUME Init PROVE TypeOK
    OBVIOUS
  <2>1. faults \in 0..MaxFaults /\ crashes \in 0..MaxCrashes
    BY PayloadAssumption DEF Init
  <2>2. /\ pstate \in [Payload -> {"NONE", "CREATED", "FINISHED", "FAILED", "GONE"}]
        /\ iteration \in [Payload -> Nat]
        /\ progress \in [Payload -> {0, 5, 90, 100} \cup ReportedProgress]
        /\ held \in [Payload -> {"NONE", "CREATED", "FINISHED", "FAILED", "GONE"}]
        /\ pc \in [Payload -> Place]
    BY DEF Init, Place
  <2>3. /\ temp \in [Payload -> SUBSET {"fn", "aux"}]
        /\ snapshot \in [Payload -> SUBSET Payload]
        /\ notes \in [Payload -> SUBSET {"completed", "failed"}]
    BY DEF Init
  <2> QED
    BY <2>1, <2>2, <2>3 DEF Init, TypeOK, Output
<1>2. TypeOK /\ [Next]_vars => TypeOK'
  <2> SUFFICES ASSUME TypeOK, [Next]_vars
               PROVE  TypeOK'
    OBVIOUS
  <2> USE PayloadAssumption DEF TypeOK, Output, Place, BeforeLook, BeforeCheck, Goto, Raise,
        SetProgress, rowVars, dockerVars, s3Vars, dataVars, userVars, bounds,
        history
  <2>1. ASSUME NEW p \in Payload, Request(p)
        PROVE  TypeOK'
    <3>1. Cardinality({q \in Payload : pstate[q] # "NONE"}) + 1 \in Nat
      <4>1. IsFiniteSet({q \in Payload : pstate[q] # "NONE"})
        BY FS_Subset
      <4> QED  BY <4>1, FS_CardinalityType
    <3> QED  BY <2>1, <3>1 DEF Request, Active
  <2>2. ASSUME NEW p \in Payload, RunStep(p)
        PROVE  TypeOK'
    <3>1. CASE Create(p)  BY <3>1 DEF Create
    <3>2. CASE DeleteExclusions(p)  BY <3>2 DEF DeleteExclusions
    <3>3. CASE AddExclusions(p)  BY <3>3 DEF AddExclusions
    <3>4. CASE PrepareInput(p)  BY <3>4 DEF PrepareInput
    <3>5. CASE InputMissing(p)  BY <3>5 DEF InputMissing
    <3>6. CASE PutInputs(p)  BY <3>6 DEF PutInputs
    <3>7. CASE CreateContainer(p)  BY <3>7 DEF CreateContainer
    <3>8. CASE CreateContainerFails(p)  BY <3>8 DEF CreateContainerFails
    <3>9. CASE StartContainer(p)  BY <3>9 DEF StartContainer
    <3>10. CASE StreamEnds(p)  BY <3>10 DEF StreamEnds
    <3>11. CASE StreamBreaks(p)  BY <3>11 DEF StreamBreaks
    <3>12. CASE CollectLogs(p)  BY <3>12 DEF CollectLogs
    <3>13. CASE DeleteInputs(p)
      <4>1. \E left \in SUBSET {"fn", "aux"} : temp' = [temp EXCEPT ![p] = left]
        <5>1. \A left \in IF ActiveLearning THEN {{"fn", "aux"}, {"fn"}, {}}
                                          ELSE {{"fn", "aux"}, {"aux"}} :
                left \in SUBSET {"fn", "aux"}
          OBVIOUS
        <5> QED  BY <3>13, <5>1 DEF DeleteInputs
      <4>2. temp' \in [Payload -> SUBSET {"fn", "aux"}]
        BY <4>1
      <4>3. pc' \in [Payload -> Place] /\ faults' \in 0..MaxFaults /\ crashes' = crashes
        BY <3>13 DEF DeleteInputs
      <4>4. UNCHANGED <<rowVars, dockerVars, output, dataVars, userVars, history>>
        BY <3>13 DEF DeleteInputs
      <4> QED  BY <4>2, <4>3, <4>4
    <3>14. CASE CheckResults(p)  BY <3>14 DEF CheckResults
    <3>15. CASE DeleteResults(p)  BY <3>15 DEF DeleteResults
    <3>16. CASE CommitResults(p)  BY <3>16 DEF CommitResults
    <3>17. CASE CommitDeletion(p)  BY <3>17 DEF CommitDeletion
    <3>18. CASE Finish(p)  BY <3>18 DEF Finish
    <3>19. CASE Announce(p)  BY <3>19 DEF Announce
    <3>20. CASE InnerHandler(p)  BY <3>20 DEF InnerHandler
    <3>21. CASE DeleteOutput(p)  BY <3>21 DEF DeleteOutput
    <3>22. CASE CalculateStats(p)  BY <3>22 DEF CalculateStats
    <3>23. CASE OuterHandler(p)  BY <3>23 DEF OuterHandler
    <3>24. CASE SourceGone(p)  BY <3>24 DEF SourceGone, RowGone
    <3> QED
      BY <2>2, <3>1, <3>2, <3>3, <3>4, <3>5, <3>6, <3>7, <3>8, <3>9, <3>10,
         <3>11, <3>12, <3>13, <3>14, <3>15, <3>16, <3>17, <3>18, <3>19, <3>20,
         <3>21, <3>22, <3>23, <3>24
      DEF RunStep
  <2>3. ASSUME NEW p \in Payload, ReaderStep(p)
        PROVE  TypeOK'
    <3>1. CASE ReaderPoll(p)  BY <3>1 DEF ReaderPoll
    <3>2. CASE ReaderApply(p)  BY <3>2 DEF ReaderApply
    <3> QED  BY <2>3, <3>1, <3>2 DEF ReaderStep
  <2>4. ASSUME NEW p \in Payload, ContainerExit(p)
        PROVE  TypeOK'
    BY <2>4 DEF ContainerExit
  <2>5. ASSUME NEW p \in Payload, ContainerRemove(p)
        PROVE  TypeOK'
    BY <2>5 DEF ContainerRemove
  <2>6. ASSUME NEW p \in Payload, Cancel(p)
        PROVE  TypeOK'
    BY <2>6 DEF Cancel
  <2>7. CASE DeleteSource
    BY <2>7 DEF DeleteSource
  <2>8. CASE Crash
    BY <2>8 DEF Crash
  <2>9. CASE UNCHANGED vars
    BY <2>9 DEF vars
  <2> QED
    BY <2>1, <2>2, <2>3, <2>4, <2>5, <2>6, <2>7, <2>8, <2>9 DEF Next
<1> QED
  BY <1>1, <1>2, PTL DEF Spec

-----------------------------------------------------------------------------
(* Mixed results.  Two runs that are active together have met; a run that    *)
(* has opened its transaction has met every run whose results were committed *)
(* since, because that run was active then.                                  *)

ActiveRunsMet ==
  \A p, q \in Payload : p # q /\ Active(p) /\ Active(q) => {p, q} \in met

OpenTransactionsMet ==
  \A p \in Payload : pc[p] = "commit" =>
    \A q \in rows \ snapshot[p] : q # p => {p, q} \in met

MixedInv == ActiveRunsMet /\ OpenTransactionsMet /\ MixedResultsOverlap

(* What the steps of a run thread have in common: only an active run takes   *)
(* one, it moves that run alone, and only the three steps of the transaction *)
(* touch the results or the snapshot or lead to the commit.                  *)
LEMMA RunStepShape ==
  ASSUME NEW p \in Payload, TypeOK, RunStep(p)
  PROVE  /\ Active(p)
         /\ pc' = [pc EXCEPT ![p] = pc'[p]]
         /\ pc'[p] \in Place \ {"idle", "create"}
         /\ pc'[p] = "commit" => DeleteResults(p)
         /\ met' = met /\ cancelled' = cancelled /\ deleted' = deleted
         /\ DeleteResults(p) \/ snapshot' = snapshot
         /\ CommitResults(p) \/ CommitDeletion(p) \/ rows' = rows
<1> USE DEF TypeOK, Place, BeforeLook, BeforeCheck, Active, Goto, Raise, rowVars, dockerVars,
      s3Vars, dataVars, userVars, bounds, history
<1>1. CASE Create(p)  BY <1>1 DEF Create
<1>2. CASE DeleteExclusions(p)  BY <1>2 DEF DeleteExclusions
<1>3. CASE AddExclusions(p)  BY <1>3 DEF AddExclusions
<1>4. CASE PrepareInput(p)  BY <1>4 DEF PrepareInput
<1>5. CASE InputMissing(p)  BY <1>5 DEF InputMissing
<1>6. CASE PutInputs(p)  BY <1>6 DEF PutInputs
<1>7. CASE CreateContainer(p)  BY <1>7 DEF CreateContainer
<1>8. CASE CreateContainerFails(p)  BY <1>8 DEF CreateContainerFails
<1>9. CASE StartContainer(p)  BY <1>9 DEF StartContainer
<1>10. CASE StreamEnds(p)  BY <1>10 DEF StreamEnds
<1>11. CASE StreamBreaks(p)  BY <1>11 DEF StreamBreaks
<1>12. CASE CollectLogs(p)  BY <1>12 DEF CollectLogs
<1>13. CASE DeleteInputs(p)  BY <1>13 DEF DeleteInputs
<1>14. CASE CheckResults(p)  BY <1>14 DEF CheckResults
<1>15. CASE DeleteResults(p)  BY <1>15 DEF DeleteResults
<1>16. CASE CommitResults(p)  BY <1>16 DEF CommitResults
<1>17. CASE CommitDeletion(p)  BY <1>17 DEF CommitDeletion
<1>18. CASE Finish(p)  BY <1>18 DEF Finish
<1>19. CASE Announce(p)  BY <1>19 DEF Announce
<1>20. CASE InnerHandler(p)  BY <1>20 DEF InnerHandler
<1>21. CASE DeleteOutput(p)  BY <1>21 DEF DeleteOutput
<1>22. CASE CalculateStats(p)  BY <1>22 DEF CalculateStats
<1>23. CASE OuterHandler(p)  BY <1>23 DEF OuterHandler
<1>24. CASE SourceGone(p)  BY <1>24 DEF SourceGone, RowGone
<1> QED
  BY <1>1, <1>2, <1>3, <1>4, <1>5, <1>6, <1>7, <1>8, <1>9, <1>10, <1>11, <1>12,
     <1>13, <1>14, <1>15, <1>16, <1>17, <1>18, <1>19, <1>20, <1>21, <1>22, <1>23,
     <1>24
  DEF RunStep

LEMMA MixedInvStep == TypeOK /\ MixedInv /\ [Next]_vars => MixedInv'
<1> SUFFICES ASSUME TypeOK, MixedInv, [Next]_vars
             PROVE  MixedInv'
  OBVIOUS
<1> USE DEF MixedInv, ActiveRunsMet, OpenTransactionsMet, MixedResultsOverlap
<1>1. ASSUME NEW p \in Payload, Request(p)
      PROVE  MixedInv'
  <2>1. /\ pc' = [pc EXCEPT ![p] = "create"] /\ ~Active(p)
        /\ met' = met \cup {{p, q} : q \in {r \in Payload : Active(r)}}
        /\ rows' = rows /\ snapshot' = snapshot
    BY <1>1 DEF Request, Goto, Active, dataVars
  <2>2. ActiveRunsMet'
    BY <2>1 DEF TypeOK, Active
  <2>3. (OpenTransactionsMet /\ MixedResultsOverlap)'
    BY <2>1 DEF TypeOK
  <2> QED  BY <2>2, <2>3
<1>2. ASSUME NEW p \in Payload, RunStep(p)
      PROVE  MixedInv'
  <2>1. pc' = [pc EXCEPT ![p] = pc'[p]] /\ (pc'[p] = "commit" => DeleteResults(p))
    BY <1>2, RunStepShape
  <2>2. Active(p) /\ met' = met
    BY <1>2, RunStepShape
  <2>3. ActiveRunsMet'
    BY <2>1, <2>2 DEF TypeOK, Active
  <2>4. CASE DeleteResults(p)
    <3>1. snapshot' = [snapshot EXCEPT ![p] = rows] /\ rows' = rows
      BY <2>4 DEF DeleteResults
    <3>2. OpenTransactionsMet'
      BY <2>1, <2>2, <3>1 DEF TypeOK
    <3> QED  BY <2>2, <2>3, <3>1, <3>2
  <2>5. CASE CommitResults(p)
    <3>1. /\ pc[p] = "commit" /\ pc' = [pc EXCEPT ![p] = "finish"]
          /\ rows' = (rows \ snapshot[p]) \cup {p} /\ snapshot' = snapshot
      BY <2>5 DEF CommitResults, Goto
    <3>2. MixedResultsOverlap'
      <4>1. \A q \in rows \ snapshot[p] : q # p => {p, q} \in met /\ {q, p} = {p, q}
        BY <3>1
      <4> QED  BY <2>2, <3>1, <4>1
    <3>3. OpenTransactionsMet'
      <4>1. \A r \in Payload \ {p} : pc[r] = "commit" => {r, p} \in met
        BY <2>2 DEF Active
      <4> QED  BY <2>2, <3>1, <4>1 DEF TypeOK
    <3> QED  BY <2>3, <3>2, <3>3
  <2>6. CASE CommitDeletion(p)
    <3>1. /\ pc' = [pc EXCEPT ![p] = "inner"]
          /\ rows' = rows \ snapshot[p] /\ snapshot' = snapshot
      BY <2>6 DEF CommitDeletion, Goto
    <3> QED  BY <2>2, <2>3, <3>1 DEF TypeOK
  <2>7. CASE rows' = rows /\ snapshot' = snapshot /\ ~DeleteResults(p)
    BY <2>1, <2>2, <2>3, <2>7 DEF TypeOK
  <2> QED  BY <1>2, <2>4, <2>5, <2>6, <2>7, RunStepShape
<1>3. ASSUME NEW p \in Payload,
             ReaderStep(p) \/ ContainerExit(p) \/ ContainerRemove(p) \/ Cancel(p)
      PROVE  MixedInv'
  <2>1. pc' = pc /\ met' = met /\ rows' = rows /\ snapshot' = snapshot
    BY <1>3 DEF ReaderStep, ReaderPoll, ReaderApply, ContainerExit,
         ContainerRemove, Cancel, dataVars, history
  <2> QED  BY <2>1 DEF Active
<1>4. CASE DeleteSource
  BY <1>4 DEF DeleteSource, Active, history
<1>5. CASE Crash
  BY <1>5 DEF Crash, Active, dataVars, history, TypeOK
<1>6. CASE UNCHANGED vars
  BY <1>6 DEF vars, Active, dataVars, history
<1> QED
  BY <1>1, <1>2, <1>3, <1>4, <1>5, <1>6 DEF Next

(* Results of two runs stand side by side only when the runs overlapped:     *)
(* runs of a source that follow one another replace each other's results.    *)
THEOREM MixedResults == Spec => []MixedResultsOverlap
<1>1. Init => MixedInv
  BY DEF Init, MixedInv, ActiveRunsMet, OpenTransactionsMet,
         MixedResultsOverlap, Active
<1> QED
  BY <1>1, TypeCorrect, MixedInvStep, PTL DEF Spec, MixedInv

-----------------------------------------------------------------------------
(* Early cancels.  A run whose results have not been checked has no results; *)
(* a run cancelled before it last loaded its payload carries FAILED to the   *)
(* check, and can only go on towards its exception handler from there:       *)
(* nothing but Finish would take the state away from FAILED.                 *)

UncheckedHasNoResults ==
  \A p \in Payload : pc[p] \in BeforeCheck \cup {"idle", "create"} => p \notin rows

CancelledStaysOut ==
  \A p \in cancelled :
    /\ pstate[p] = "FAILED" \/ (pstate[p] = "GONE" /\ deleted)
    /\ pc[p] \notin {"idle", "create", "write", "commit", "wipe", "finish", "announce"}
    /\ pc[p] \in {"tidy", "check"} => held[p] = "FAILED"

CancelInv == UncheckedHasNoResults /\ CancelledStaysOut /\ EarlyCancelHonoured

(* A step of a run keeps the run on its way: back to before the check only   *)
(* from there, past the check only from the check and beyond, and towards    *)
(* the check with the state its session loaded when it collected the logs.   *)
LEMMA RunStepDirection ==
  ASSUME NEW p \in Payload, TypeOK, RunStep(p)
  PROVE  /\ pc'[p] \in BeforeCheck => pc[p] \in BeforeCheck \cup {"create"}
         /\ pc'[p] \in {"write", "commit", "wipe", "finish", "announce"} =>
              \/ pc[p] \in {"write", "commit", "wipe", "finish", "announce"}
              \/ pc[p] = "check" /\ held[p] # "FAILED"
         /\ pc'[p] \in {"tidy", "check"} =>
              \/ pc[p] \in {"tidy", "check"} /\ held' = held
              \/ held'[p] = pstate[p] /\ ~deleted
         /\ \A q \in Payload \ {p} : held'[q] = held[q]
         /\ \/ pstate' = pstate
            \/ pstate' = [pstate EXCEPT ![p] = "FAILED"] /\ ~deleted
            \/ pstate' = [pstate EXCEPT ![p] = pstate'[p]]
               /\ pc[p] \in {"create", "finish"}
<1> USE DEF TypeOK, BeforeLook, BeforeCheck, Goto, Raise, rowVars, dockerVars, s3Vars, dataVars,
      userVars, bounds, history
<1>1. CASE Create(p)  BY <1>1 DEF Create
<1>2. CASE DeleteExclusions(p)  BY <1>2 DEF DeleteExclusions
<1>3. CASE AddExclusions(p)  BY <1>3 DEF AddExclusions
<1>4. CASE PrepareInput(p)  BY <1>4 DEF PrepareInput
<1>5. CASE InputMissing(p)  BY <1>5 DEF InputMissing
<1>6. CASE PutInputs(p)  BY <1>6 DEF PutInputs
<1>7. CASE CreateContainer(p)  BY <1>7 DEF CreateContainer
<1>8. CASE CreateContainerFails(p)  BY <1>8 DEF CreateContainerFails
<1>9. CASE StartContainer(p)  BY <1>9 DEF StartContainer
<1>10. CASE StreamEnds(p)  BY <1>10 DEF StreamEnds
<1>11. CASE StreamBreaks(p)  BY <1>11 DEF StreamBreaks
<1>12. CASE CollectLogs(p)  BY <1>12 DEF CollectLogs
<1>13. CASE DeleteInputs(p)  BY <1>13 DEF DeleteInputs
<1>14. CASE CheckResults(p)  BY <1>14 DEF CheckResults
<1>15. CASE DeleteResults(p)  BY <1>15 DEF DeleteResults
<1>16. CASE CommitResults(p)  BY <1>16 DEF CommitResults
<1>17. CASE CommitDeletion(p)  BY <1>17 DEF CommitDeletion
<1>18. CASE Finish(p)  BY <1>18 DEF Finish
<1>19. CASE Announce(p)  BY <1>19 DEF Announce
<1>20. CASE InnerHandler(p)  BY <1>20 DEF InnerHandler
<1>21. CASE DeleteOutput(p)  BY <1>21 DEF DeleteOutput
<1>22. CASE CalculateStats(p)  BY <1>22 DEF CalculateStats
<1>23. CASE OuterHandler(p)  BY <1>23 DEF OuterHandler
<1>24. CASE SourceGone(p)  BY <1>24 DEF SourceGone, RowGone
<1> QED
  BY <1>1, <1>2, <1>3, <1>4, <1>5, <1>6, <1>7, <1>8, <1>9, <1>10, <1>11, <1>12,
     <1>13, <1>14, <1>15, <1>16, <1>17, <1>18, <1>19, <1>20, <1>21, <1>22, <1>23,
     <1>24
  DEF RunStep

LEMMA CancelInvStep == TypeOK /\ CancelInv /\ [Next]_vars => CancelInv'
<1> SUFFICES ASSUME TypeOK, CancelInv, [Next]_vars
             PROVE  CancelInv'
  OBVIOUS
<1> USE DEF CancelInv, UncheckedHasNoResults, CancelledStaysOut,
      EarlyCancelHonoured, TypeOK
<1>1. ASSUME NEW p \in Payload, Request(p)
      PROVE  CancelInv'
  BY <1>1 DEF Request, Goto, dataVars, userVars, BeforeLook, BeforeCheck
<1>2. ASSUME NEW p \in Payload, RunStep(p)
      PROVE  CancelInv'
  <2>1. /\ pc' = [pc EXCEPT ![p] = pc'[p]] /\ pc'[p] \notin {"idle", "create"}
        /\ cancelled' = cancelled /\ deleted' = deleted
    BY <1>2, RunStepShape
  <2>2. rows' \subseteq rows \cup {p} /\ (p \in rows' \ rows => pc[p] = "commit")
    BY <1>2, RunStepShape DEF CommitResults, CommitDeletion
  <2>3. UncheckedHasNoResults'
    BY <1>2, <2>1, <2>2, RunStepDirection DEF BeforeLook, BeforeCheck
  <2>4. CancelledStaysOut'
    <3> SUFFICES ASSUME NEW r \in cancelled
                 PROVE  /\ pstate'[r] = "FAILED" \/ (pstate'[r] = "GONE" /\ deleted)
                        /\ pc'[r] \notin {"idle", "create", "write", "commit",
                                         "wipe", "finish", "announce"}
                        /\ pc'[r] \in {"tidy", "check"} => held'[r] = "FAILED"
      BY <2>1
    <3> QED  BY <1>2, <2>1, RunStepDirection
  <2>5. EarlyCancelHonoured'
    BY <2>1, <2>2, <2>4
  <2> QED  BY <2>3, <2>4, <2>5
<1>3. ASSUME NEW p \in Payload, ReaderStep(p) \/ ContainerExit(p) \/ ContainerRemove(p)
      PROVE  CancelInv'
  BY <1>3 DEF ReaderStep, ReaderPoll, ReaderApply, ContainerExit, ContainerRemove,
       rowVars, dataVars, userVars, history
<1>4. ASSUME NEW p \in Payload, Cancel(p)
      PROVE  CancelInv'
  BY <1>4 DEF Cancel, dataVars, userVars, BeforeLook, BeforeCheck
<1>5. CASE DeleteSource
  BY <1>5 DEF DeleteSource, history
<1>6. CASE Crash
  BY <1>6 DEF Crash, rowVars, dataVars, userVars, history, Active, BeforeLook, BeforeCheck
<1>7. CASE UNCHANGED vars
  BY <1>7 DEF vars, rowVars, dataVars, userVars, history
<1> QED
  BY <1>1, <1>2, <1>3, <1>4, <1>5, <1>6, <1>7 DEF Next

(* A payload cancelled before its run loads it for the last time (when it    *)
(* collects the container's logs, before it checks the state) stays FAILED   *)
(* (as long as its row exists) and its results never reach the database.     *)
THEOREM EarlyCancels == Spec => []EarlyCancelHonoured
<1>1. Init => CancelInv
  BY DEF Init, CancelInv, UncheckedHasNoResults, CancelledStaysOut,
         EarlyCancelHonoured
<1> QED
  BY <1>1, TypeCorrect, CancelInvStep, PTL DEF Spec, CancelInv

-----------------------------------------------------------------------------
(* Results that disappear.  A run writes its snapshot once, so whoever found *)
(* the rows of another is known for good; and from its commit on a run has   *)
(* its rows or somebody who found them.                                      *)

Unwritten == BeforeCheck \cup {"idle", "create", "write"}
Ending == {"announce", "inner", "output", "stats", "outer", "done", "killed"}

Kept(p) == p \in rows \/ \E q \in Payload \ {p} : p \in snapshot[q]

SnapshotOnce == \A p \in Payload : pc[p] \in Unwritten => snapshot[p] = {}
KeptFromCommit ==
  \A p \in Payload : (pc[p] = "finish" /\ ~deleted) \/ pstate[p] = "FINISHED" => Kept(p)
FinishedIsEnding == \A p \in Payload : pstate[p] = "FINISHED" => pc[p] \in Ending /\ ~deleted

KeptInv == SnapshotOnce /\ KeptFromCommit /\ FinishedIsEnding

(* A run that is about to write comes from before the check, one about to    *)
(* finish from its commit, and only Finish makes it FINISHED.                *)
LEMMA RunStepEnds ==
  ASSUME NEW p \in Payload, TypeOK, RunStep(p)
  PROVE  /\ pc'[p] \in Unwritten => pc[p] \in Unwritten
         /\ pc'[p] = "finish" => CommitResults(p)
         /\ pc[p] \in Ending => pc'[p] \in Ending
         /\ pc[p] = "finish" => pc'[p] \in Ending
         /\ pstate'[p] = "FINISHED" => pstate[p] = "FINISHED" \/ (pc[p] = "finish" /\ ~deleted)
<1> USE DEF TypeOK, BeforeLook, BeforeCheck, Unwritten, Ending, Goto, Raise, rowVars
<1>1. CASE Create(p)  BY <1>1 DEF Create
<1>2. CASE DeleteExclusions(p)  BY <1>2 DEF DeleteExclusions
<1>3. CASE AddExclusions(p)  BY <1>3 DEF AddExclusions
<1>4. CASE PrepareInput(p)  BY <1>4 DEF PrepareInput
<1>5. CASE InputMissing(p)  BY <1>5 DEF InputMissing
<1>6. CASE PutInputs(p)  BY <1>6 DEF PutInputs
<1>7. CASE CreateContainer(p)  BY <1>7 DEF CreateContainer
<1>8. CASE CreateContainerFails(p)  BY <1>8 DEF CreateContainerFails
<1>9. CASE StartContainer(p)  BY <1>9 DEF StartContainer
<1>10. CASE StreamEnds(p)  BY <1>10 DEF StreamEnds
<1>11. CASE StreamBreaks(p)  BY <1>11 DEF StreamBreaks
<1>12. CASE CollectLogs(p)  BY <1>12 DEF CollectLogs
<1>13. CASE DeleteInputs(p)  BY <1>13 DEF DeleteInputs
<1>14. CASE CheckResults(p)  BY <1>14 DEF CheckResults
<1>15. CASE DeleteResults(p)  BY <1>15 DEF DeleteResults
<1>16. CASE CommitResults(p)  BY <1>16 DEF CommitResults
<1>17. CASE CommitDeletion(p)  BY <1>17 DEF CommitDeletion
<1>18. CASE Finish(p)  BY <1>18 DEF Finish
<1>19. CASE Announce(p)  BY <1>19 DEF Announce
<1>20. CASE InnerHandler(p)  BY <1>20 DEF InnerHandler
<1>21. CASE DeleteOutput(p)  BY <1>21 DEF DeleteOutput
<1>22. CASE CalculateStats(p)  BY <1>22 DEF CalculateStats
<1>23. CASE OuterHandler(p)  BY <1>23 DEF OuterHandler
<1>24. CASE SourceGone(p)  BY <1>24 DEF SourceGone, RowGone
<1> QED
  BY <1>1, <1>2, <1>3, <1>4, <1>5, <1>6, <1>7, <1>8, <1>9, <1>10, <1>11, <1>12,
     <1>13, <1>14, <1>15, <1>16, <1>17, <1>18, <1>19, <1>20, <1>21, <1>22, <1>23,
     <1>24
  DEF RunStep

(* The invariant is inductive: who loses rows to a commit has been found.     *)
LEMMA KeptInvStep == TypeOK /\ KeptInv /\ [Next]_vars => KeptInv'
<1> SUFFICES ASSUME TypeOK, KeptInv, [Next]_vars PROVE KeptInv'
  OBVIOUS
<1> USE DEF KeptInv
<1>1. ASSUME NEW p \in Payload, Request(p) PROVE KeptInv'
  <2>1. /\ pc[p] = "idle" /\ pc' = [pc EXCEPT ![p] = "create"]
        /\ UNCHANGED <<rows, snapshot, pstate, deleted>>
    BY <1>1 DEF Request, Goto, dataVars, userVars
  <2> QED
    BY <2>1 DEF SnapshotOnce, KeptFromCommit, FinishedIsEnding, Kept, Unwritten, Ending, TypeOK
<1>2. ASSUME NEW p \in Payload, RunStep(p) PROVE KeptInv'
  <2>1. /\ \A q \in Payload \ {p} : pc'[q] = pc[q] /\ pstate'[q] = pstate[q]
        /\ deleted' = deleted
    BY <1>2, RunStepShape, RunStepDirection DEF TypeOK
  <2>2. CASE DeleteResults(p)
    <3>1. pc[p] = "write" /\ rows' = rows /\ snapshot' = [snapshot EXCEPT ![p] = rows] /\ pstate' = pstate
      BY <2>2 DEF DeleteResults, rowVars
    <3>2. pc'[p] \in {"wipe", "commit"} /\ snapshot[p] = {}
      BY <2>2, <3>1 DEF DeleteResults, Goto, TypeOK, SnapshotOnce, Unwritten
    <3>3. \A r \in Payload : Kept(r) => Kept(r)'
      BY <3>1, <3>2 DEF Kept, TypeOK
    <3>4. SnapshotOnce'
      BY <2>1, <3>1, <3>2 DEF SnapshotOnce, Unwritten, BeforeLook, BeforeCheck, TypeOK
    <3>5. pstate[p] # "FINISHED"
      BY <3>1 DEF FinishedIsEnding, Ending
    <3>6. KeptFromCommit'
      BY <2>1, <3>1, <3>2, <3>3, <3>5 DEF KeptFromCommit
    <3>7. FinishedIsEnding'
      BY <2>1, <3>1, <3>5 DEF FinishedIsEnding
    <3> QED
      BY <3>4, <3>6, <3>7
  <2>3. CASE CommitResults(p) \/ CommitDeletion(p)
    <3>1. /\ pc[p] \in {"commit", "wipe"} /\ snapshot' = snapshot /\ pstate' = pstate
          /\ pc'[p] \in {"finish", "inner"} /\ (pc'[p] = "finish" => p \in rows')
          /\ rows \ snapshot[p] \subseteq rows'
      BY <2>3 DEF CommitResults, CommitDeletion, Goto, rowVars, TypeOK
    <3>2. \A r \in Payload \ {p} : Kept(r) => Kept(r)'
      BY <3>1 DEF Kept
    <3>3. pstate[p] # "FINISHED"
      BY <3>1 DEF FinishedIsEnding, Ending
    <3>4. SnapshotOnce'
      BY <2>1, <3>1 DEF SnapshotOnce, Unwritten, BeforeLook, BeforeCheck
    <3>5. KeptFromCommit'
      <4> SUFFICES ASSUME NEW r \in Payload, (pc'[r] = "finish" /\ ~deleted') \/ pstate'[r] = "FINISHED"
                   PROVE  Kept(r)'
        BY DEF KeptFromCommit
      <4>1. CASE r = p
        BY <3>1, <3>3, <4>1 DEF Kept
      <4>2. CASE r # p
        BY <2>1, <3>2, <4>2 DEF KeptFromCommit
      <4> QED
        BY <4>1, <4>2
    <3>6. FinishedIsEnding'
      BY <2>1, <3>1, <3>3 DEF FinishedIsEnding
    <3> QED
      BY <3>4, <3>5, <3>6
  <2>4. CASE rows' = rows /\ snapshot' = snapshot /\ ~CommitResults(p)
    <3>1. \A r \in Payload : Kept(r)' <=> Kept(r)
      BY <2>4 DEF Kept
    <3>2. SnapshotOnce'
      BY <1>2, <2>1, <2>4, RunStepEnds DEF SnapshotOnce
    <3>3. pc'[p] # "finish" /\ (pstate'[p] = "FINISHED" => pstate[p] = "FINISHED" \/ (pc[p] = "finish" /\ ~deleted))
      BY <1>2, <2>4, RunStepEnds
    <3>4. KeptFromCommit'
      BY <2>1, <3>1, <3>3 DEF KeptFromCommit
    <3>5. pc[p] \in Ending \cup {"finish"} => pc'[p] \in Ending
      BY <1>2, RunStepEnds
    <3>6. FinishedIsEnding'
      BY <2>1, <3>3, <3>5 DEF FinishedIsEnding
    <3> QED
      BY <3>2, <3>4, <3>6
  <2> QED
    BY <1>2, <2>2, <2>3, <2>4, RunStepShape
<1>3. ASSUME NEW p \in Payload, ReaderStep(p) \/ ContainerExit(p) \/ ContainerRemove(p) PROVE KeptInv'
  <2>1. UNCHANGED <<pc, rows, snapshot, pstate, deleted>>
    BY <1>3 DEF ReaderStep, ReaderPoll, ReaderApply, ContainerExit, ContainerRemove, rowVars, dataVars, userVars
  <2> QED
    BY <2>1 DEF SnapshotOnce, KeptFromCommit, FinishedIsEnding, Kept
<1>4. ASSUME NEW p \in Payload, Cancel(p) PROVE KeptInv'
  <2>1. UNCHANGED <<pc, rows, snapshot, deleted>> /\ \A q \in Payload : pstate'[q] = "FINISHED" => pstate[q] = "FINISHED"
    BY <1>4 DEF Cancel, dataVars, userVars, TypeOK
  <2> QED
    BY <2>1 DEF SnapshotOnce, KeptFromCommit, FinishedIsEnding, Kept
<1>5. CASE DeleteSource
  <2>1. deleted' = TRUE /\ UNCHANGED <<pc, snapshot>> /\ \A q \in Payload : pstate'[q] # "FINISHED"
    BY <1>5 DEF DeleteSource
  <2> QED
    BY <2>1 DEF SnapshotOnce, KeptFromCommit, FinishedIsEnding
<1>6. CASE Crash
  <2>1. /\ UNCHANGED <<rows, snapshot, pstate, deleted>>
        /\ \A q \in Payload : pc'[q] = pc[q] \/ pc'[q] = "killed"
    BY <1>6 DEF Crash, rowVars, dataVars, userVars
  <2>2. SnapshotOnce'
    BY <2>1 DEF SnapshotOnce, Unwritten, BeforeLook, BeforeCheck
  <2> QED
    BY <2>1, <2>2 DEF KeptFromCommit, FinishedIsEnding, Kept, Ending
<1>7. CASE UNCHANGED vars
  BY <1>7 DEF vars, rowVars, dataVars, userVars, SnapshotOnce, KeptFromCommit, FinishedIsEnding, Kept
<1> QED
  BY <1>1, <1>2, <1>3, <1>4, <1>5, <1>6, <1>7 DEF Next

(* The results of a FINISHED run are there, or the transaction of another    *)
(* run found them and deleted them.                                          *)
THEOREM ResultsStay == Spec => []ResultsOnlyReplaced
<1>1. Init => KeptInv
  BY DEF Init, KeptInv, SnapshotOnce, KeptFromCommit, FinishedIsEnding
<1>2. KeptInv => ResultsOnlyReplaced
  BY DEF KeptInv, KeptFromCommit, Kept, ResultsOnlyReplaced
<1> QED
  BY <1>1, <1>2, TypeCorrect, KeptInvStep, PTL DEF Spec

-----------------------------------------------------------------------------
(* What a run leaves behind.  Up to the container there is nothing of it; it *)
(* is tidy again when its inputs are deleted, and every way round that step  *)
(* takes a raising call or a deleted source.                                 *)

Fresh == {"idle", "create", "exclude", "addExclusions", "input", "put"}
Tidied == {"check", "write", "commit", "wipe", "finish", "announce"}

Tidy(p) == temp[p] = {} /\ p \notin running /\ container[p] # "running"
Gone(p) == Tidy(p) /\ output[p] = "absent"
Smooth(p) == faults = 0 /\ pstate[p] # "GONE"
Succeeded(p) == pstate[p] # "GONE" /\ notes[p] = {"completed"}

Residue(p) ==
  /\ pc[p] \in Fresh \cup {"container"} => p \notin running /\ container[p] = "none" /\ output[p] = "absent"
  /\ pc[p] \in Fresh => temp[p] = {}
  /\ pc[p] \in {"collect", "tidy"} => p \notin running /\ container[p] # "running"
  /\ pc[p] \in Tidied => Tidy(p)
  /\ pc[p] \in BeforeCheck \cup Fresh \cup Tidied \cup {"inner"} => notes[p] = {}
  /\ pc[p] = "inner" /\ Smooth(p) => Tidy(p)
  /\ pc[p] = "output" /\ (Smooth(p) \/ Succeeded(p)) => Tidy(p)
  /\ pc[p] \in {"stats", "done"} /\ (Smooth(p) \/ Succeeded(p)) => Gone(p)
  /\ pc[p] = "outer" /\ Smooth(p) => Gone(p)
  /\ pstate[p] = "NONE" => pc[p] \in {"idle", "create", "done", "killed"}
  /\ deleted => pstate[p] \in {"NONE", "GONE"}
  /\ pstate[p] = "GONE" => deleted

ResidueInv == \A p \in Payload : Residue(p)

(* What a step of one run leaves alone of the others.                        *)
LEMMA RunStepFrame ==
  ASSUME NEW p \in Payload, TypeOK, RunStep(p)
  PROVE  /\ \A q \in Payload \ {p} : /\ temp'[q] = temp[q] /\ output'[q] = output[q] /\ notes'[q] = notes[q]
                                     /\ container'[q] = container[q] /\ (q \in running' <=> q \in running)
         /\ faults' = faults \/ faults' # 0
<1> USE DEF TypeOK, Goto, Raise, rowVars, dockerVars, s3Vars, userVars, bounds
<1>1. CASE Create(p)  BY <1>1 DEF Create
<1>2. CASE DeleteExclusions(p)  BY <1>2 DEF DeleteExclusions
<1>3. CASE AddExclusions(p)  BY <1>3 DEF AddExclusions
<1>4. CASE PrepareInput(p)  BY <1>4 DEF PrepareInput
<1>5. CASE InputMissing(p)  BY <1>5 DEF InputMissing
<1>6. CASE PutInputs(p)  BY <1>6 DEF PutInputs
<1>7. CASE CreateContainer(p)  BY <1>7 DEF CreateContainer
<1>8. CASE CreateContainerFails(p)  BY <1>8 DEF CreateContainerFails
<1>9. CASE StartContainer(p)  BY <1>9 DEF StartContainer
<1>10. CASE StreamEnds(p)  BY <1>10 DEF StreamEnds
<1>11. CASE StreamBreaks(p)  BY <1>11 DEF StreamBreaks
<1>12. CASE CollectLogs(p)  BY <1>12 DEF CollectLogs
<1>13. CASE DeleteInputs(p)  BY <1>13 DEF DeleteInputs
<1>14. CASE CheckResults(p)  BY <1>14 DEF CheckResults
<1>15. CASE DeleteResults(p)  BY <1>15 DEF DeleteResults
<1>16. CASE CommitResults(p)  BY <1>16 DEF CommitResults
<1>17. CASE CommitDeletion(p)  BY <1>17 DEF CommitDeletion
<1>18. CASE Finish(p)  BY <1>18 DEF Finish
<1>19. CASE Announce(p)  BY <1>19 DEF Announce
<1>20. CASE InnerHandler(p)  BY <1>20 DEF InnerHandler
<1>21. CASE DeleteOutput(p)  BY <1>21 DEF DeleteOutput
<1>22. CASE CalculateStats(p)  BY <1>22 DEF CalculateStats
<1>23. CASE OuterHandler(p)  BY <1>23 DEF OuterHandler
<1>24. CASE SourceGone(p)  BY <1>24 DEF SourceGone, RowGone
<1> QED
  BY <1>1, <1>2, <1>3, <1>4, <1>5, <1>6, <1>7, <1>8, <1>9, <1>10, <1>11, <1>12,
     <1>13, <1>14, <1>15, <1>16, <1>17, <1>18, <1>19, <1>20, <1>21, <1>22, <1>23,
     <1>24
  DEF RunStep

(* Each step of a run keeps what is known of its own residue.                *)
LEMMA ResidueStep ==
  ASSUME NEW p \in Payload, TypeOK, Residue(p), RunStep(p)
  PROVE  Residue(p)'
<1> USE DEF TypeOK, Residue, Tidy, Gone, Smooth, Succeeded, Fresh, Tidied, BeforeLook, BeforeCheck, Goto, Raise,
      rowVars, dockerVars, s3Vars, userVars, bounds
<1>1. CASE Create(p)  BY <1>1 DEF Create
<1>2. CASE DeleteExclusions(p)  BY <1>2 DEF DeleteExclusions
<1>3. CASE AddExclusions(p)  BY <1>3 DEF AddExclusions
<1>4. CASE PrepareInput(p)  BY <1>4 DEF PrepareInput
<1>5. CASE InputMissing(p)  BY <1>5 DEF InputMissing
<1>6. CASE PutInputs(p)  BY <1>6 DEF PutInputs
<1>7. CASE CreateContainer(p)  BY <1>7 DEF CreateContainer
<1>8. CASE CreateContainerFails(p)  BY <1>8 DEF CreateContainerFails
<1>9. CASE StartContainer(p)  BY <1>9 DEF StartContainer
<1>10. CASE StreamEnds(p)  BY <1>10 DEF StreamEnds
<1>11. CASE StreamBreaks(p)  BY <1>11 DEF StreamBreaks
<1>12. CASE CollectLogs(p)  BY <1>12 DEF CollectLogs
<1>13. CASE DeleteInputs(p)  BY <1>13 DEF DeleteInputs
<1>14. CASE CheckResults(p)  BY <1>14 DEF CheckResults
<1>15. CASE DeleteResults(p)  BY <1>15 DEF DeleteResults
<1>16. CASE CommitResults(p)  BY <1>16 DEF CommitResults
<1>17. CASE CommitDeletion(p)  BY <1>17 DEF CommitDeletion
<1>18. CASE Finish(p)  BY <1>18 DEF Finish
<1>19. CASE Announce(p)  BY <1>19 DEF Announce
<1>20. CASE InnerHandler(p)
  <2>1. /\ pc[p] = "inner" /\ ~deleted /\ pstate'[p] = "FAILED" /\ notes[p] = {}
        /\ UNCHANGED <<temp, output, running, container, deleted>>
    BY <1>20 DEF InnerHandler
  <2>2. \/ pc'[p] = "output" /\ notes'[p] = {"failed"} /\ faults' = faults
        \/ pc'[p] = "outer" /\ faults' # 0
    BY <1>20, <2>1 DEF InnerHandler
  <2>3. faults = 0 => Tidy(p)
    BY <2>1
  <2> QED
    BY <2>1, <2>2, <2>3
<1>21. CASE DeleteOutput(p)  BY <1>21 DEF DeleteOutput
<1>22. CASE CalculateStats(p)  BY <1>22 DEF CalculateStats
<1>23. CASE OuterHandler(p)
  <2>1. /\ pc[p] = "outer" /\ ~deleted /\ pstate'[p] = "FAILED" /\ "failed" \in notes'[p] /\ pc'[p] = "done"
        /\ UNCHANGED <<temp, output, running, container, deleted, faults>>
    BY <1>23 DEF OuterHandler
  <2>2. faults = 0 => Gone(p)
    BY <2>1
  <2> QED
    BY <2>1, <2>2
<1>24. CASE SourceGone(p)  BY <1>24 DEF SourceGone, RowGone
<1> QED
  BY <1>1, <1>2, <1>3, <1>4, <1>5, <1>6, <1>7, <1>8, <1>9, <1>10, <1>11, <1>12,
     <1>13, <1>14, <1>15, <1>16, <1>17, <1>18, <1>19, <1>20, <1>21, <1>22, <1>23,
     <1>24
  DEF RunStep

(* The invariant is inductive: besides its own thread only docker, a         *)
(* deletion and a restart touch what a run leaves.                           *)
LEMMA ResidueInvStep == TypeOK /\ ResidueInv /\ [Next]_vars => ResidueInv'
<1> SUFFICES ASSUME TypeOK, ResidueInv, [Next]_vars, NEW q \in Payload PROVE Residue(q)'
  BY DEF ResidueInv
<1>0. Residue(q)
  BY DEF ResidueInv
<1>a. ASSUME /\ pc'[q] = pc[q] /\ pstate'[q] = pstate[q] /\ temp'[q] = temp[q] /\ output'[q] = output[q]
             /\ notes'[q] = notes[q] /\ container'[q] = container[q] /\ (q \in running' <=> q \in running)
             /\ deleted' = deleted /\ (faults' = faults \/ faults' # 0)
      PROVE  Residue(q)'
  BY <1>0, <1>a DEF Residue, Tidy, Gone, Smooth, Succeeded
<1>1. ASSUME NEW p \in Payload, Request(p) PROVE Residue(q)'
  <2>1. CASE p = q
    BY <1>0, <1>1, <2>1 DEF Request, Goto, dockerVars, s3Vars, userVars, bounds, TypeOK,
         Residue, Fresh, Tidied, BeforeLook, BeforeCheck
  <2>2. CASE p # q
    BY <1>1, <1>a, <2>2 DEF Request, Goto, dockerVars, s3Vars, userVars, bounds, TypeOK
  <2> QED
    BY <2>1, <2>2
<1>2. ASSUME NEW p \in Payload, RunStep(p) PROVE Residue(q)'
  <2>1. CASE p = q
    BY <1>0, <1>2, <2>1, ResidueStep
  <2>2. CASE p # q
    <3>1. pc'[q] = pc[q] /\ pstate'[q] = pstate[q] /\ deleted' = deleted
      BY <1>2, <2>2, RunStepShape, RunStepDirection DEF TypeOK
    <3> QED
      BY <1>2, <1>a, <2>2, <3>1, RunStepFrame
  <2> QED
    BY <2>1, <2>2
<1>3. ASSUME NEW p \in Payload, ReaderStep(p) PROVE Residue(q)'
  BY <1>3, <1>a DEF ReaderStep, ReaderPoll, ReaderApply, rowVars, s3Vars, userVars, bounds
<1>4. ASSUME NEW p \in Payload, ContainerExit(p) \/ ContainerRemove(p) PROVE Residue(q)'
  <2>1. /\ UNCHANGED <<pc, pstate, temp, running, notes, deleted, faults>>
        /\ container[p] \in {"running", "exited"} /\ container'[p] # "running"
        /\ container[p] = "exited" => output' = output
        /\ p # q => container'[q] = container[q] /\ output'[q] = output[q]
    BY <1>4 DEF ContainerExit, ContainerRemove, rowVars, s3Vars, userVars, bounds, TypeOK
  <2>2. CASE p # q
    BY <1>a, <2>1, <2>2
  <2>3. CASE p = q
    BY <1>0, <2>1, <2>3 DEF Residue, Tidy, Gone, Smooth, Succeeded
  <2> QED
    BY <2>2, <2>3
<1>5. ASSUME NEW p \in Payload, Cancel(p) PROVE Residue(q)'
  <2>1. /\ UNCHANGED <<pc, temp, output, running, container, notes, deleted, faults>> /\ ~deleted
        /\ pstate'[q] = pstate[q] \/ (pstate[q] \notin {"NONE", "GONE"} /\ pstate'[q] = "FAILED")
    BY <1>5 DEF Cancel, dockerVars, s3Vars, userVars, bounds, TypeOK
  <2> QED
    BY <1>0, <2>1 DEF Residue, Tidy, Gone, Smooth, Succeeded
<1>6. CASE DeleteSource
  <2>1. /\ UNCHANGED <<pc, temp, output, running, container, notes, faults>>
        /\ pstate'[q] = IF pstate[q] = "NONE" THEN "NONE" ELSE "GONE"
        /\ deleted' = TRUE
    BY <1>6 DEF DeleteSource, dockerVars, s3Vars, bounds
  <2> QED
    BY <1>0, <2>1 DEF Residue, Tidy, Gone, Smooth, Succeeded
<1>7. CASE Crash
  <2>1. /\ UNCHANGED <<pstate, temp, output, container, notes, deleted, faults>> /\ running' = {}
        /\ pc'[q] = IF Active(q) THEN "killed" ELSE pc[q]
    BY <1>7 DEF Crash, rowVars, s3Vars, userVars
  <2> QED
    BY <1>0, <2>1 DEF Residue, Tidy, Gone, Smooth, Succeeded, Fresh, Tidied, BeforeLook, BeforeCheck
<1>8. CASE UNCHANGED vars
  BY <1>8, <1>a DEF vars, rowVars, dockerVars, s3Vars, userVars, bounds
<1> QED
  BY <1>1, <1>2, <1>3, <1>4, <1>5, <1>6, <1>7, <1>8 DEF Next

(* A run that returned without a raising call, or with a success only, left  *)
(* nothing in s3 and is no longer registered.                                *)
THEOREM RunsTidyUp == Spec => []NothingLeftBehind
<1>1. Init => ResidueInv
  BY DEF Init, ResidueInv, Residue, Tidy, Gone, Fresh, Tidied
<1>2. ResidueInv => NothingLeftBehind
  BY DEF ResidueInv, Residue, Smooth, Succeeded, Gone, Tidy, NothingLeftBehind
<1> QED
  BY <1>1, <1>2, TypeCorrect, ResidueInvStep, PTL DEF Spec
=============================================================================
