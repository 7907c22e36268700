--------------------- MODULE AttributeCalculationProofs ---------------------
(* Theorems about AttributeCalculation, for any sets of attributes and       *)
(* requests, any names and any bounds.                                       *)
EXTENDS AttributeCalculation, FiniteSetTheorems, TLAPS

(* Every variable keeps its type: every action assigns a state, a place or a *)
(* set of its range.                                                         *)
THEOREM TypeCorrect == Spec => []TypeOK
<1>1. Init => TypeOK
  <2> SUFFICES ASSUME Init PROVE TypeOK
    OBVIOUS
  <2>1. faults \in 0..MaxFaults /\ crashes \in 0..MaxCrashes
    BY AttributeAssumption DEF Init
  <2>2. /\ astate \in [Attribute -> {"NONE", "INITIAL", "RUNNING", "USABLE", "FAILED", "GONE"}]
        /\ pc \in [Calculation -> {"idle", "check", "mark", "done"} \cup InThread]
        /\ deleting \in [Attribute -> {"no", "row", "done", "lost"}]
    BY DEF Init
  <2> QED
    BY <2>1, <2>2 DEF Init, TypeOK
<1>2. TypeOK /\ [Next]_vars => TypeOK'
  <2> SUFFICES ASSUME TypeOK, [Next]_vars PROVE TypeOK'
    OBVIOUS
  <2> USE AttributeAssumption DEF TypeOK, Calculation, InThread, history, bounds,
        tokenVars, calcVars, recalcVars, Goto, SetState, Raise, Fail
  <2>1. ASSUME NEW a \in Attribute,
               CreateAttribute(a) \/ DeleteValues(a) \/ DeleteAttribute(a) \/ Cancel(a)
        PROVE  TypeOK'
    <3>1. CASE CreateAttribute(a)  BY <3>1 DEF CreateAttribute
    <3>2. CASE DeleteValues(a)  BY <3>2 DEF DeleteValues
    <3>3. CASE DeleteAttribute(a)  BY <3>3 DEF DeleteAttribute
    <3>4. CASE Cancel(a)  BY <3>4 DEF Cancel
    <3> QED
      BY <2>1, <3>1, <3>2, <3>3, <3>4
  <2>2. ASSUME NEW c \in Calculation, RequestCalculation(c)
        PROVE  TypeOK'
    BY <2>2 DEF RequestCalculation
  <2>3. ASSUME NEW c \in Calculation, CalculationStep(c)
        PROVE  TypeOK'
    <3>1. CASE Refuse(c)  BY <3>1 DEF Refuse
    <3>2. CASE Accept(c)  BY <3>2 DEF Accept
    <3>3. CASE MarkRunning(c)  BY <3>3 DEF MarkRunning
    <3>4. CASE StartContainer(c)  BY <3>4 DEF StartContainer
    <3>5. CASE ExecutionRaises(c)  BY <3>5 DEF ExecutionRaises
    <3>6. CASE ContainerExit(c)  BY <3>6 DEF ContainerExit
    <3>7. CASE CollectValues(c)  BY <3>7 DEF CollectValues
    <3>8. CASE WriteValues(c)  BY <3>8 DEF WriteValues
    <3>9. CASE WriteRaises(c)  BY <3>9 DEF WriteRaises
    <3>10. CASE PublishValues(c)  BY <3>10 DEF PublishValues
    <3>11. CASE ReuploadRaises(c)  BY <3>11 DEF ReuploadRaises
    <3>12. CASE VerifyState(c)  BY <3>12 DEF VerifyState
    <3>13. CASE MarkUsable(c)  BY <3>13 DEF MarkUsable
    <3>14. CASE AttributeGone(c)  BY <3>14 DEF AttributeGone
    <3>15. CASE TokenizeValues(c)  BY <3>15 DEF TokenizeValues
    <3>16. CASE ReportFailure(c)  BY <3>16 DEF ReportFailure
    <3> QED
      BY <2>3, <3>1, <3>2, <3>3, <3>4, <3>5, <3>6, <3>7, <3>8, <3>9, <3>10,
         <3>11, <3>12, <3>13, <3>14, <3>15, <3>16
      DEF CalculationStep
  <2>4. CASE ImportRecords
    BY <2>4 DEF ImportRecords
  <2>5. CASE QueueTokenization
    BY <2>5 DEF QueueTokenization
  <2>6. CASE RecalculateUsable
    BY <2>6 DEF RecalculateUsable
  <2>7. CASE AwaitTokenization
    BY <2>7 DEF AwaitTokenization
  <2>8. CASE TakeHead
    BY <2>8 DEF TakeHead
  <2>9. CASE Crash
    BY <2>9 DEF Crash
  <2>10. ASSUME NEW a \in Attribute,
                CalculateHead(a) \/ CalculateReturns(a) \/ PopHead(a) \/ HeadGone(a)
         PROVE  TypeOK'
    <3>1. CASE CalculateHead(a)  BY <3>1 DEF CalculateHead
    <3>2. CASE CalculateReturns(a)  BY <3>2 DEF CalculateReturns
    <3>3. CASE PopHead(a)  BY <3>3 DEF PopHead
    <3>4. CASE HeadGone(a)  BY <3>4 DEF HeadGone
    <3> QED
      BY <2>10, <3>1, <3>2, <3>3, <3>4
  <2>11. ASSUME NEW t \in Attribute \cup {"project"}, TokenizationStarts(t) \/ TokenizationEnds(t)
         PROVE  TypeOK'
    <3>1. CASE TokenizationStarts(t)  BY <3>1 DEF TokenizationStarts
    <3>2. CASE TokenizationEnds(t)  BY <3>2 DEF TokenizationEnds
    <3> QED
      BY <2>11, <3>1, <3>2
  <2>12. CASE UNCHANGED vars
    BY <2>12 DEF vars
  <2> QED
    BY <2>1, <2>2, <2>3, <2>4, <2>5, <2>6, <2>7, <2>8, <2>9, <2>10, <2>11, <2>12
    DEF Next, RecalculationStep
<1> QED BY <1>1, <1>2, PTL DEF Spec

-----------------------------------------------------------------------------
(* What makes the check for a running attribute work as long as no two       *)
(* calculations stand between it and the commit of RUNNING: one that stands  *)
(* there is alone and finds nobody running.                                  *)
Marking(c) == pc[c] = "mark"

MarkInv ==
  ~raced =>
    /\ \A c, d \in Calculation : Marking(c) /\ Marking(d) => c = d
    /\ \A c \in Calculation : Marking(c) => RunningAttributes = {}
    /\ \A a, b \in RunningAttributes : a = b

(* A step that brings nobody between check and mark, makes no attribute      *)
(* RUNNING and forgets no race keeps the invariant.                          *)
LEMMA QuietStep ==
  ASSUME MarkInv, raced' = raced,
         RunningAttributes' \subseteq RunningAttributes,
         \A c \in Calculation : Marking(c)' => Marking(c)
  PROVE  MarkInv'
BY DEF MarkInv, Calculation

(* The steps that set astate to something else than RUNNING.                 *)
LEMMA OtherState ==
  ASSUME TypeOK, NEW a \in Attribute, NEW v, v # "RUNNING", SetState(a, v)
  PROVE  RunningAttributes' \subseteq RunningAttributes
BY DEF TypeOK, SetState, RunningAttributes

(* The steps that send a calculation to another place than the mark.         *)
LEMMA OtherPlace ==
  ASSUME TypeOK, NEW c \in Calculation, NEW place, place # "mark", Goto(c, place)
  PROVE  \A d \in Calculation : Marking(d)' => Marking(d)
BY DEF TypeOK, Goto, Marking

LEMMA SameState ==
  ASSUME UNCHANGED astate
  PROVE  RunningAttributes' \subseteq RunningAttributes
BY DEF RunningAttributes

LEMMA SamePlaces ==
  ASSUME UNCHANGED pc
  PROVE  \A d \in Calculation : Marking(d)' => Marking(d)
BY DEF Marking

(* The steps of a calculation.                                               *)
LEMMA MarkInvCalculation ==
  ASSUME TypeOK, MarkInv, NEW c \in Calculation, CalculationStep(c)
  PROVE  MarkInv'
<1> USE DEF history, bounds
<1>0. target[c] \in Attribute
  BY DEF TypeOK
<1>1. CASE Accept(c)
  <2>1. RunningAttributes = {} /\ RunningAttributes' = RunningAttributes
    BY <1>1 DEF Accept, Refused, RunningAttributes
  <2>2. ASSUME ~raced', NEW d \in Calculation, Marking(d)' PROVE d = c
    BY <1>1, <2>2 DEF Accept, Goto, Marking, TypeOK
  <2> QED BY <2>1, <2>2 DEF MarkInv, Calculation
<1>2. CASE MarkRunning(c)
  <2>1. raced' = raced /\ Marking(c)
    BY <1>2 DEF MarkRunning, Marking
  <2>2. ~raced => RunningAttributes = {}
    BY <2>1 DEF MarkInv
  <2>3. ~raced => RunningAttributes' = {target[c]}
    BY <1>2, <1>0, <2>2 DEF MarkRunning, SetState, RunningAttributes, TypeOK
  <2>4. ~raced => \A d \in Calculation : ~Marking(d)'
    BY <1>2, <2>1 DEF MarkRunning, Goto, Marking, MarkInv, TypeOK
  <2> QED BY <2>1, <2>3, <2>4 DEF MarkInv, Calculation
<1>3. CASE Refuse(c) \/ ReportFailure(c)
  <2>1. raced' = raced /\ SetState(target[c], "FAILED") /\ Goto(c, "done")
    BY <1>3 DEF Refuse, ReportFailure, Fail
  <2> QED BY <1>0, <2>1, OtherState, OtherPlace, QuietStep
<1>4. CASE StartContainer(c) \/ ContainerExit(c) \/ WriteValues(c)
           \/ PublishValues(c) \/ TokenizeValues(c) \/ ReuploadRaises(c) \/ VerifyState(c)
           \/ AttributeGone(c)
  <2>1. PICK place : place # "mark" /\ Goto(c, place)
    BY <1>4 DEF StartContainer, ContainerExit, WriteValues, PublishValues,
                TokenizeValues, ReuploadRaises, VerifyState, AttributeGone
  <2>2. raced' = raced /\ UNCHANGED astate
    BY <1>4 DEF StartContainer, ContainerExit, WriteValues, PublishValues,
                TokenizeValues, ReuploadRaises, VerifyState, AttributeGone
  <2> QED BY <2>1, <2>2, OtherPlace, SameState, QuietStep
<1>5. CASE ExecutionRaises(c) \/ WriteRaises(c)
  <2>1. raced' = raced /\ SetState(target[c], "FAILED") /\ Goto(c, "done")
    BY <1>5 DEF ExecutionRaises, WriteRaises, Fail
  <2> QED BY <1>0, <2>1, OtherState, OtherPlace, QuietStep
<1>6. CASE CollectValues(c)
  <2>1. raced' = raced
    BY <1>6 DEF CollectValues
  <2>2. CASE target[c] \in payload
    <3>1. Goto(c, "write") /\ UNCHANGED astate
      BY <1>6, <2>2 DEF CollectValues
    <3> QED BY <2>1, <3>1, OtherPlace, SameState, QuietStep
  <2>3. CASE target[c] \notin payload
    <3>1. SetState(target[c], "FAILED") /\ Goto(c, "done")
      BY <1>6, <2>3 DEF CollectValues, Fail
    <3> QED BY <1>0, <2>1, <3>1, OtherState, OtherPlace, QuietStep
  <2> QED BY <2>2, <2>3
<1>7. CASE MarkUsable(c)
  <2>1. raced' = raced /\ SetState(target[c], "USABLE") /\ Goto(c, "done")
    BY <1>7 DEF MarkUsable
  <2> QED BY <1>0, <2>1, OtherState, OtherPlace, QuietStep
<1> QED BY <1>1, <1>2, <1>3, <1>4, <1>5, <1>6, <1>7 DEF CalculationStep

(* The steps of users, of the import and of the recalculation.               *)
LEMMA MarkInvOther ==
  ASSUME TypeOK, MarkInv, [Next]_vars,
         \A c \in Calculation : ~CalculationStep(c)
  PROVE  MarkInv'
<1> USE DEF history, bounds, calcVars, recalcVars
<1>1. raced' = raced
  BY DEF Next, CreateAttribute, DeleteValues, DeleteAttribute, Cancel, RequestCalculation,
         ImportRecords, QueueTokenization, TokenizationStarts, TokenizationEnds, RecalculationStep,
         RecalculateUsable, AwaitTokenization, TakeHead, CalculateHead,
         CalculateReturns, PopHead, HeadGone, Crash, vars
<1>2. RunningAttributes' \subseteq RunningAttributes
  <2>1. ASSUME NEW a \in Attribute, CreateAttribute(a) \/ DeleteAttribute(a) \/ Cancel(a)
        PROVE  RunningAttributes' \subseteq RunningAttributes
    <3>1. PICK v : v # "RUNNING" /\ SetState(a, v)
      BY <2>1 DEF CreateAttribute, DeleteAttribute, Cancel
    <3> QED BY <3>1, OtherState
  <2>2. CASE RecalculateUsable \/ \E a \in Attribute : HeadGone(a)
    BY <2>2, ZenonT(60) DEF RecalculateUsable, HeadGone, RunningAttributes, TypeOK
  <2>3. CASE UNCHANGED astate
    BY <2>3, SameState
  <2> QED
    BY <2>1, <2>2, <2>3
    DEF Next, DeleteValues, RequestCalculation, ImportRecords, QueueTokenization,
        TokenizationStarts, TokenizationEnds, RecalculationStep, AwaitTokenization, TakeHead, CalculateHead,
        CalculateReturns, PopHead, Crash, vars
<1>3. \A d \in Calculation : Marking(d)' => Marking(d)
  <2>1. ASSUME NEW c \in Calculation, NEW place, place # "mark", Goto(c, place)
        PROVE  \A d \in Calculation : Marking(d)' => Marking(d)
    BY <2>1, OtherPlace
  <2>2. ASSUME NEW c \in Calculation, RequestCalculation(c)
        PROVE  \A d \in Calculation : Marking(d)' => Marking(d)
    BY <2>1, <2>2 DEF RequestCalculation
  <2>3. ASSUME NEW a \in Attribute, CalculateHead(a)
        PROVE  \A d \in Calculation : Marking(d)' => Marking(d)
    BY <2>1, <2>3 DEF CalculateHead, Calculation
  <2>4. CASE Crash
    BY <2>4 DEF Crash, Marking, TypeOK
  <2>5. CASE UNCHANGED pc
    BY <2>5, SamePlaces
  <2> QED
    BY <2>2, <2>3, <2>4, <2>5
    DEF Next, CreateAttribute, DeleteValues, DeleteAttribute, Cancel, ImportRecords,
        QueueTokenization, TokenizationStarts, TokenizationEnds, RecalculationStep, RecalculateUsable,
        AwaitTokenization, TakeHead, CalculateReturns, PopHead, HeadGone, vars
<1> QED BY <1>1, <1>2, <1>3, QuietStep

(* Two attributes are RUNNING at once only after two calculations stood      *)
(* between the check and the commit of RUNNING together.                     *)
THEOREM OneAtATime == Spec => []OneRunningUnlessRaced
<1>1. Init => MarkInv
  BY DEF Init, MarkInv, Marking, RunningAttributes
<1>2. TypeOK /\ MarkInv /\ [Next]_vars => MarkInv'
  BY MarkInvCalculation, MarkInvOther
<1>3. MarkInv => OneRunningUnlessRaced
  BY DEF MarkInv, OneRunningUnlessRaced
<1> QED BY <1>1, <1>2, <1>3, TypeCorrect, PTL DEF Spec

-----------------------------------------------------------------------------
(* A cancelled attribute stays FAILED because no calculation of it is past   *)
(* its last look at the state, and none comes there while it is FAILED.      *)
Passed(a) == \E c \in Calculation : target[c] = a /\ pc[c] = "usable"
CancelInv == \A a \in cancelled : astate[a] \in {"FAILED", "GONE"} /\ ~Passed(a)

(* A step after which no more attributes count as cancelled, nobody more has *)
(* passed, and a failed or deleted attribute is still one of the two.        *)
LEMMA StaysCancelled ==
  ASSUME CancelInv, TypeOK, cancelled' \subseteq cancelled, UNCHANGED target,
         \A a \in cancelled' : astate[a] \in {"FAILED", "GONE"} => astate'[a] \in {"FAILED", "GONE"},
         \A c \in Calculation : pc'[c] = "usable" => pc[c] = "usable" \/ target[c] \notin cancelled
  PROVE  CancelInv'
<1> SUFFICES ASSUME NEW a \in cancelled' PROVE astate'[a] \in {"FAILED", "GONE"} /\ ~Passed(a)'
  BY DEF CancelInv
<1>1. a \in cancelled /\ astate[a] \in {"FAILED", "GONE"} /\ ~Passed(a)
  BY DEF CancelInv
<1> QED
  BY <1>1 DEF Passed

(* The steps of a calculation.                                               *)
LEMMA CancelInvCalculation ==
  ASSUME TypeOK, CancelInv, NEW c \in Calculation, CalculationStep(c)
  PROVE  CancelInv'
<1> USE DEF history, calcVars
<1>0. target[c] \in Attribute
  BY DEF TypeOK
<1>1. ASSUME NEW place, Goto(c, place), place = "usable" => target[c] \notin cancelled
      PROVE  \A d \in Calculation : pc'[d] = "usable" => pc[d] = "usable" \/ target[d] \notin cancelled
  BY <1>1 DEF Goto, TypeOK
<1>2. ASSUME NEW v \in {"FAILED", "GONE"}, SetState(target[c], v)
      PROVE  \A a \in cancelled : astate[a] \in {"FAILED", "GONE"} => astate'[a] \in {"FAILED", "GONE"}
  BY <1>2 DEF SetState, TypeOK
<1>3. CASE Refuse(c) \/ ExecutionRaises(c) \/ WriteRaises(c) \/ ReportFailure(c)
  <2>1. SetState(target[c], "FAILED") /\ Goto(c, "done") /\ UNCHANGED <<cancelled, target>>
    BY <1>3 DEF Refuse, ExecutionRaises, WriteRaises, ReportFailure, Fail
  <2> QED
    BY <1>1, <1>2, <2>1, StaysCancelled
<1>4. CASE Accept(c) \/ StartContainer(c) \/ ContainerExit(c) \/ WriteValues(c) \/ PublishValues(c)
           \/ ReuploadRaises(c) \/ AttributeGone(c)
  <2>1. PICK place : place # "usable" /\ Goto(c, place)
    BY <1>4 DEF Accept, StartContainer, ContainerExit, WriteValues, PublishValues, ReuploadRaises, AttributeGone
  <2>2. UNCHANGED <<astate, cancelled, target>>
    BY <1>4 DEF Accept, StartContainer, ContainerExit, WriteValues, PublishValues, ReuploadRaises, AttributeGone
  <2> QED
    BY <1>1, <2>1, <2>2, StaysCancelled
<1>5. CASE MarkRunning(c)
  <2>1. /\ SetState(target[c], "RUNNING") /\ Goto(c, "exec") /\ UNCHANGED target
        /\ cancelled' = cancelled \ {target[c]}
    BY <1>5 DEF MarkRunning
  <2>2. \A a \in cancelled' : astate'[a] = astate[a]
    BY <2>1 DEF SetState, TypeOK
  <2> QED
    BY <1>1, <2>1, <2>2, StaysCancelled
<1>6. CASE CollectValues(c)
  <2>1. UNCHANGED <<cancelled, target>>
    BY <1>6 DEF CollectValues
  <2>2. CASE target[c] \in payload
    <3>1. Goto(c, "write") /\ UNCHANGED astate
      BY <1>6, <2>2 DEF CollectValues
    <3> QED
      BY <1>1, <2>1, <3>1, StaysCancelled
  <2>3. CASE target[c] \notin payload
    <3>1. SetState(target[c], "FAILED") /\ Goto(c, "done")
      BY <1>6, <2>3 DEF CollectValues, Fail
    <3> QED
      BY <1>1, <1>2, <2>1, <3>1, StaysCancelled
  <2> QED
    BY <2>2, <2>3
<1>7. CASE VerifyState(c) \/ TokenizeValues(c)
  <2>1. UNCHANGED <<astate, cancelled, target>> /\ Exists(target[c])
    BY <1>7 DEF VerifyState, TokenizeValues
  <2>2. PICK place : Goto(c, place) /\ (place = "usable" => astate[target[c]] # "FAILED")
    BY <1>7 DEF VerifyState, TokenizeValues
  <2>3. place = "usable" => target[c] \notin cancelled
    BY <2>1, <2>2 DEF Exists, CancelInv
  <2> QED
    BY <1>1, <2>1, <2>2, <2>3, StaysCancelled
<1>8. CASE MarkUsable(c)
  <2>1. /\ pc[c] = "usable" /\ SetState(target[c], "USABLE") /\ Goto(c, "done")
        /\ UNCHANGED <<cancelled, target>>
    BY <1>8 DEF MarkUsable
  <2>2. target[c] \notin cancelled
    BY <2>1 DEF CancelInv, Passed
  <2>3. \A a \in cancelled : astate'[a] = astate[a]
    BY <2>1, <2>2 DEF SetState, TypeOK
  <2> QED
    BY <1>1, <2>1, <2>3, StaysCancelled
<1> QED
  BY <1>3, <1>4, <1>5, <1>6, <1>7, <1>8 DEF CalculationStep

(* The steps of users, of the import and of the recalculation.               *)
LEMMA CancelInvOther ==
  ASSUME TypeOK, CancelInv, [Next]_vars, \A c \in Calculation : ~CalculationStep(c)
  PROVE  CancelInv'
<1> USE DEF history, calcVars, recalcVars
<1>1. ASSUME NEW a \in Attribute, Cancel(a) PROVE CancelInv'
  <2>1. /\ SetState(a, "FAILED") /\ UNCHANGED <<pc, target>>
        /\ cancelled' \subseteq cancelled \cup {a}
        /\ a \in cancelled' => a \in cancelled \/ \A c \in CalculationsOf(a) : pc[c] # "usable"
    BY <1>1 DEF Cancel
  <2>2. (\A c \in CalculationsOf(a) : pc[c] # "usable") => ~Passed(a)
    BY DEF CalculationsOf, Passed, InThread
  <2>3. ASSUME NEW b \in cancelled' PROVE astate'[b] \in {"FAILED", "GONE"} /\ ~Passed(b)'
    <3>1. ~Passed(b)
      BY <2>1, <2>2, <2>3 DEF CancelInv
    <3>2. Passed(b)' <=> Passed(b)
      BY <2>1 DEF Passed
    <3>3. astate'[b] \in {"FAILED", "GONE"}
      BY <2>1, <2>3 DEF SetState, CancelInv, TypeOK
    <3> QED
      BY <3>1, <3>2, <3>3
  <2> QED
    BY <2>3 DEF CancelInv
<1>2. ASSUME \A a \in Attribute : ~Cancel(a) PROVE CancelInv'
  <2>1. cancelled' \subseteq cancelled /\ UNCHANGED target
    BY <1>2 DEF Next, CreateAttribute, DeleteValues, DeleteAttribute, RequestCalculation,
         ImportRecords, QueueTokenization, TokenizationStarts, TokenizationEnds, RecalculationStep,
         RecalculateUsable, AwaitTokenization, TakeHead, CalculateHead,
         CalculateReturns, PopHead, HeadGone, Crash, vars
  <2>2. \A a \in Attribute : astate[a] \in {"FAILED", "GONE"} => astate'[a] \in {"FAILED", "GONE"}
    <3>1. ASSUME NEW a \in Attribute, CreateAttribute(a) \/ DeleteAttribute(a)
          PROVE  \A b \in Attribute : astate[b] \in {"FAILED", "GONE"} => astate'[b] \in {"FAILED", "GONE"}
      BY <3>1 DEF CreateAttribute, DeleteAttribute, SetState, TypeOK
    <3>2. CASE RecalculateUsable \/ \E a \in Attribute : HeadGone(a)
      BY <3>2 DEF RecalculateUsable, HeadGone
    <3>3. CASE UNCHANGED astate
      BY <3>3
    <3> QED
      BY <1>2, <3>1, <3>2, <3>3
      DEF Next, DeleteValues, RequestCalculation, ImportRecords, QueueTokenization,
          TokenizationStarts, TokenizationEnds, RecalculationStep, AwaitTokenization, TakeHead, CalculateHead,
          CalculateReturns, PopHead, Crash, vars
  <2>3. \A d \in Calculation : pc'[d] = "usable" => pc[d] = "usable"
    <3>1. ASSUME NEW c \in Calculation, Goto(c, "check")
          PROVE  \A d \in Calculation : pc'[d] = "usable" => pc[d] = "usable"
      BY <3>1 DEF Goto, TypeOK
    <3>2. ASSUME NEW c \in Calculation, RequestCalculation(c)
          PROVE  \A d \in Calculation : pc'[d] = "usable" => pc[d] = "usable"
      BY <3>1, <3>2 DEF RequestCalculation
    <3>3. ASSUME NEW a \in Attribute, CalculateHead(a)
          PROVE  \A d \in Calculation : pc'[d] = "usable" => pc[d] = "usable"
      BY <3>1, <3>3 DEF CalculateHead, Calculation
    <3>4. CASE Crash
      BY <3>4 DEF Crash, TypeOK
    <3>5. CASE UNCHANGED pc
      BY <3>5
    <3> QED
      BY <1>2, <3>2, <3>3, <3>4, <3>5
      DEF Next, CreateAttribute, DeleteValues, DeleteAttribute, ImportRecords,
          QueueTokenization, TokenizationStarts, TokenizationEnds, RecalculationStep, RecalculateUsable,
          AwaitTokenization, TakeHead, CalculateReturns, PopHead, HeadGone, vars
  <2>4. cancelled' \subseteq Attribute
    BY <2>1 DEF TypeOK
  <2> QED
    BY <2>1, <2>2, <2>3, <2>4, StaysCancelled
<1> QED
  BY <1>1, <1>2

(* An attribute that was cancelled before its state was loaded for the last  *)
(* time does not become USABLE, whatever else runs, until it is calculated   *)
(* anew.                                                                     *)
THEOREM CancelsCount == Spec => []CancelHonoured
<1>1. Init => CancelInv
  BY DEF Init, CancelInv
<1>2. TypeOK /\ CancelInv /\ [Next]_vars => CancelInv'
  BY CancelInvCalculation, CancelInvOther
<1>3. CancelInv => CancelHonoured
  BY DEF CancelInv, CancelHonoured
<1> QED
  BY <1>1, <1>2, <1>3, TypeCorrect, PTL DEF Spec

-----------------------------------------------------------------------------
(* An attribute that was never calculated twice at a time has one            *)
(* calculation at most that can take its values out of the records again;    *)
(* once it has written them they stay until the attribute is deleted.        *)
OwnName(a) == \A b \in Attribute \ {a} : Name[b] # Name[a]
Written(c) == pc[c] \in {"publish", "queue", "verify", "usable"}

ValuesInv ==
  \A a \in Attribute \ doubled :
    /\ \A c, d \in CalculationsOf(a) : c = d
    /\ OwnName(a) /\ deleting[a] = "no" =>
         /\ astate[a] = "USABLE" => Name[a] \in data
         /\ \A c \in CalculationsOf(a) : Written(c) => Name[a] \in data

(* What a step may do to an attribute: put it where nothing of it is USABLE  *)
(* or written, leave it in deletion, or keep its values and let it become    *)
(* USABLE or written only with them.                                         *)
LEMMA ValuesKept ==
  ASSUME TypeOK, ValuesInv, doubled \subseteq doubled',
         \A a \in Attribute \ doubled' :
           \/ /\ \A c, d \in CalculationsOf(a)' : c = d
              /\ \A c \in CalculationsOf(a)' : ~Written(c)'
              /\ astate'[a] # "USABLE"
           \/ /\ CalculationsOf(a)' \subseteq CalculationsOf(a)
              /\ deleting'[a] # "no"
           \/ /\ CalculationsOf(a)' \subseteq CalculationsOf(a)
              /\ deleting'[a] = deleting[a]
              /\ OwnName(a) /\ Name[a] \in data => Name[a] \in data'
              /\ astate'[a] = "USABLE" =>
                   \/ astate[a] = "USABLE"
                   \/ \E c \in CalculationsOf(a) : Written(c)
              /\ \A c \in CalculationsOf(a)' : Written(c)' => Written(c) \/ Name[a] \in data'
  PROVE  ValuesInv'
<1> SUFFICES ASSUME NEW a \in Attribute \ doubled'
             PROVE  /\ \A c, d \in CalculationsOf(a)' : c = d
                    /\ OwnName(a) /\ deleting'[a] = "no" =>
                         /\ astate'[a] = "USABLE" => Name[a] \in data'
                         /\ \A c \in CalculationsOf(a)' : Written(c)' => Name[a] \in data'
  BY DEF ValuesInv, OwnName
<1>1. /\ \A c, d \in CalculationsOf(a) : c = d
      /\ OwnName(a) /\ deleting[a] = "no" =>
           /\ astate[a] = "USABLE" => Name[a] \in data
           /\ \A c \in CalculationsOf(a) : Written(c) => Name[a] \in data
  BY DEF ValuesInv
<1> QED
  BY <1>1

(* A calculation that goes on or ends is no new one.                         *)
LEMMA NoMore ==
  ASSUME TypeOK, NEW c \in Calculation, NEW place, Goto(c, place), UNCHANGED target,
         pc[c] \in InThread \/ place \notin InThread
  PROVE  /\ \A a \in Attribute : CalculationsOf(a)' \subseteq CalculationsOf(a)
         /\ \A d \in Calculation : pc'[d] = IF d = c THEN place ELSE pc[d]
BY DEF TypeOK, Goto, CalculationsOf

(* The steps of a calculation.                                               *)
LEMMA ValuesInvCalculation ==
  ASSUME TypeOK, ValuesInv, NEW c \in Calculation, CalculationStep(c)
  PROVE  ValuesInv'
<1> USE DEF history, calcVars
<1>0. /\ target[c] \in Attribute
      /\ \A a \in Attribute : \A d \in CalculationsOf(a) : target[d] = a /\ d \in Calculation
  BY DEF TypeOK, CalculationsOf
<1>1. CASE Accept(c) \/ StartContainer(c) \/ ContainerExit(c) \/ PublishValues(c)
           \/ TokenizeValues(c) \/ ReuploadRaises(c) \/ VerifyState(c) \/ AttributeGone(c)
  <2>1. PICK place : /\ Goto(c, place)
                     /\ pc[c] \in InThread \/ place \notin InThread
                     /\ place \in {"publish", "queue", "verify", "usable"} => Written(c)
    BY <1>1 DEF Accept, StartContainer, ContainerExit, PublishValues, TokenizeValues, ReuploadRaises, VerifyState,
                AttributeGone, Written, InThread
  <2>2. UNCHANGED <<astate, data, deleting, doubled, target>>
    BY <1>1 DEF Accept, StartContainer, ContainerExit, PublishValues, TokenizeValues, ReuploadRaises, VerifyState,
                AttributeGone
  <2>3. /\ \A a \in Attribute : CalculationsOf(a)' \subseteq CalculationsOf(a)
        /\ \A d \in Calculation : Written(d)' => Written(d)
    BY <2>1, <2>2, NoMore DEF Written
  <2> QED
    BY <1>0, <2>2, <2>3, ValuesKept
<1>2. CASE Refuse(c) \/ ReportFailure(c) \/ ExecutionRaises(c) \/ (CollectValues(c) /\ target[c] \notin payload)
  <2>1. /\ Goto(c, "done") /\ SetState(target[c], "FAILED")
        /\ UNCHANGED <<data, deleting, doubled, target>>
    BY <1>2 DEF Refuse, ReportFailure, ExecutionRaises, CollectValues, Fail
  <2>2. /\ \A a \in Attribute : CalculationsOf(a)' \subseteq CalculationsOf(a)
        /\ \A d \in Calculation : Written(d)' => Written(d)
    BY <2>1, NoMore DEF Written, InThread
  <2>3. \A a \in Attribute : astate'[a] = "USABLE" => astate[a] = "USABLE"
    BY <1>0, <2>1 DEF SetState, TypeOK
  <2> QED
    BY <1>0, <2>1, <2>2, <2>3, ValuesKept
<1>3. CASE CollectValues(c) /\ target[c] \in payload
  <2>1. pc[c] = "collect" /\ Goto(c, "write") /\ UNCHANGED <<astate, data, deleting, doubled, target>>
    BY <1>3 DEF CollectValues
  <2>2. /\ \A a \in Attribute : CalculationsOf(a)' \subseteq CalculationsOf(a)
        /\ \A d \in Calculation : Written(d)' => Written(d)
    BY <2>1, NoMore DEF Written, InThread
  <2> QED
    BY <1>0, <2>1, <2>2, ValuesKept
<1>4. CASE MarkRunning(c)
  <2>1. /\ pc[c] = "mark" /\ Goto(c, "exec") /\ SetState(target[c], "RUNNING")
        /\ UNCHANGED <<data, deleting, target>>
        /\ doubled \subseteq doubled'
        /\ target[c] \notin doubled' => CalculationsOf(target[c]) = {}
    BY <1>4 DEF MarkRunning
  <2>2. \A d \in Calculation : pc'[d] = IF d = c THEN "exec" ELSE pc[d]
    BY <2>1 DEF Goto, TypeOK
  <2>3. \A a \in Attribute : astate'[a] = IF a = target[c] THEN "RUNNING" ELSE astate[a]
    BY <2>1, <1>0 DEF SetState, TypeOK
  <2>4. \A a \in Attribute \ {target[c]} : CalculationsOf(a)' \subseteq CalculationsOf(a)
    BY <2>1, <2>2 DEF CalculationsOf
  <2>5. target[c] \notin doubled' => CalculationsOf(target[c])' \subseteq {c}
    BY <2>1, <2>2 DEF CalculationsOf
  <2>6. ~Written(c)' /\ \A d \in Calculation : Written(d)' => Written(d)
    BY <2>2 DEF Written
  <2> QED
    BY <1>0, <2>1, <2>3, <2>4, <2>5, <2>6, ValuesKept
<1>5. CASE WriteValues(c)
  <2>1. /\ pc[c] = "write" /\ Goto(c, "publish") /\ data' = data \cup {Name[target[c]]}
        /\ UNCHANGED <<astate, deleting, doubled, target>>
    BY <1>5 DEF WriteValues
  <2>2. /\ \A a \in Attribute : CalculationsOf(a)' \subseteq CalculationsOf(a)
        /\ \A d \in Calculation \ {c} : Written(d)' => Written(d)
    BY <2>1, NoMore DEF Written, InThread
  <2>3. \A a \in Attribute : \A d \in CalculationsOf(a)' : Written(d)' => Written(d) \/ Name[a] \in data'
    BY <1>0, <2>1, <2>2
  <2> QED
    BY <2>1, <2>2, <2>3, ValuesKept
<1>6. CASE WriteRaises(c)
  <2>1. /\ pc[c] \in {"write", "queue"} /\ Goto(c, "done") /\ SetState(target[c], "FAILED")
        /\ data' = data \ {Name[target[c]]}
        /\ UNCHANGED <<deleting, doubled, target>>
    BY <1>6 DEF WriteRaises, Fail
  <2>2. /\ \A a \in Attribute : CalculationsOf(a)' \subseteq CalculationsOf(a)
        /\ \A d \in Calculation : pc'[d] = IF d = c THEN "done" ELSE pc[d]
    BY <2>1, NoMore DEF InThread
  <2>3. \A a \in Attribute : astate'[a] = IF a = target[c] THEN "FAILED" ELSE astate[a]
    BY <2>1, <1>0 DEF SetState, TypeOK
  <2>4. c \in CalculationsOf(target[c]) /\ c \notin CalculationsOf(target[c])'
    BY <2>1, <2>2 DEF CalculationsOf, InThread
  <2>5. target[c] \notin doubled' => CalculationsOf(target[c])' = {}
    BY <1>0, <2>1, <2>2, <2>4 DEF ValuesInv
  <2>6. \A d \in Calculation : Written(d)' => Written(d)
    BY <2>2 DEF Written
  <2>7. \A a \in Attribute \ {target[c]} : OwnName(a) /\ Name[a] \in data => Name[a] \in data'
    BY <1>0, <2>1 DEF OwnName
  <2> QED
    BY <1>0, <2>1, <2>2, <2>3, <2>5, <2>6, <2>7, ValuesKept
<1>7. CASE MarkUsable(c)
  <2>1. /\ pc[c] = "usable" /\ Goto(c, "done") /\ SetState(target[c], "USABLE")
        /\ UNCHANGED <<data, deleting, doubled, target>>
    BY <1>7 DEF MarkUsable
  <2>2. /\ \A a \in Attribute : CalculationsOf(a)' \subseteq CalculationsOf(a)
        /\ \A d \in Calculation : Written(d)' => Written(d)
    BY <2>1, NoMore DEF Written, InThread
  <2>3. c \in CalculationsOf(target[c]) /\ Written(c)
    BY <2>1 DEF CalculationsOf, InThread, Written
  <2>4. \A a \in Attribute : astate'[a] = "USABLE" => astate[a] = "USABLE" \/ a = target[c]
    BY <1>0, <2>1 DEF SetState, TypeOK
  <2> QED
    BY <1>0, <2>1, <2>2, <2>3, <2>4, ValuesKept
<1> QED
  BY <1>1, <1>2, <1>3, <1>4, <1>5, <1>6, <1>7 DEF CalculationStep

(* The steps of users, of the import and of the recalculation.               *)
LEMMA ValuesInvOther ==
  ASSUME TypeOK, ValuesInv, [Next]_vars, \A c \in Calculation : ~CalculationStep(c)
  PROVE  ValuesInv'
<1> USE DEF history, calcVars, recalcVars
<1>1. doubled' = doubled /\ UNCHANGED target
  BY DEF Next, CreateAttribute, DeleteValues, DeleteAttribute, Cancel, RequestCalculation,
       ImportRecords, QueueTokenization, TokenizationStarts, TokenizationEnds, RecalculationStep,
       RecalculateUsable, AwaitTokenization, TakeHead, CalculateHead,
       CalculateReturns, PopHead, HeadGone, Crash, vars
<1>2. \A c \in Calculation : pc'[c] = pc[c] \/ pc'[c] \notin InThread
  <2>1. ASSUME NEW c \in Calculation, Goto(c, "check")
        PROVE  \A d \in Calculation : pc'[d] = pc[d] \/ pc'[d] \notin InThread
    BY <2>1 DEF Goto, TypeOK, InThread
  <2>2. ASSUME NEW c \in Calculation, RequestCalculation(c)
        PROVE  \A d \in Calculation : pc'[d] = pc[d] \/ pc'[d] \notin InThread
    BY <2>1, <2>2 DEF RequestCalculation
  <2>3. ASSUME NEW a \in Attribute, CalculateHead(a)
        PROVE  \A d \in Calculation : pc'[d] = pc[d] \/ pc'[d] \notin InThread
    BY <2>1, <2>3 DEF CalculateHead, Calculation
  <2>4. CASE Crash
    BY <2>4 DEF Crash, TypeOK, InThread
  <2>5. CASE UNCHANGED pc
    BY <2>5
  <2> QED
    BY <2>2, <2>3, <2>4, <2>5
    DEF Next, CreateAttribute, DeleteValues, DeleteAttribute, Cancel, ImportRecords,
        QueueTokenization, TokenizationStarts, TokenizationEnds, RecalculationStep, RecalculateUsable,
        AwaitTokenization, TakeHead, CalculateReturns, PopHead, HeadGone, vars
<1>3. /\ \A a \in Attribute : CalculationsOf(a)' \subseteq CalculationsOf(a)
      /\ \A a \in Attribute : \A c \in CalculationsOf(a)' : Written(c)' => Written(c)
  BY <1>1, <1>2 DEF CalculationsOf, Written
<1>4. \A a \in Attribute : astate'[a] = "USABLE" => astate[a] = "USABLE"
  <2>1. ASSUME NEW a \in Attribute, CreateAttribute(a) \/ DeleteAttribute(a) \/ Cancel(a)
        PROVE  \A b \in Attribute : astate'[b] = "USABLE" => astate[b] = "USABLE"
    BY <2>1 DEF CreateAttribute, DeleteAttribute, Cancel, SetState, TypeOK
  <2>2. CASE RecalculateUsable \/ \E a \in Attribute : HeadGone(a)
    BY <2>2 DEF RecalculateUsable, HeadGone
  <2>3. CASE UNCHANGED astate
    BY <2>3
  <2> QED
    BY <2>1, <2>2, <2>3
    DEF Next, DeleteValues, RequestCalculation, ImportRecords, QueueTokenization,
        TokenizationStarts, TokenizationEnds, RecalculationStep, AwaitTokenization, TakeHead, CalculateHead,
        CalculateReturns, PopHead, Crash, vars
<1>5. \A a \in Attribute : \/ deleting'[a] # "no"
                           \/ /\ deleting'[a] = deleting[a]
                              /\ OwnName(a) /\ Name[a] \in data => Name[a] \in data'
  <2>1. ASSUME NEW b \in Attribute, DeleteValues(b), NEW a \in Attribute
        PROVE  \/ deleting'[a] # "no"
               \/ /\ deleting'[a] = deleting[a]
                  /\ OwnName(a) /\ Name[a] \in data => Name[a] \in data'
    <3>1. CASE a = b
      BY <2>1, <3>1 DEF DeleteValues, TypeOK
    <3>2. CASE a # b
      BY <2>1, <3>2 DEF DeleteValues, TypeOK, OwnName
    <3> QED
      BY <3>1, <3>2
  <2>2. CASE Crash \/ \E b \in Attribute : DeleteAttribute(b)
    BY <2>2 DEF Crash, DeleteAttribute, TypeOK
  <2>3. CASE UNCHANGED <<data, deleting>>
    BY <2>3
  <2> QED
    BY <2>1, <2>2, <2>3
    DEF Next, CreateAttribute, Cancel, RequestCalculation, ImportRecords, QueueTokenization,
        TokenizationStarts, TokenizationEnds, RecalculationStep, RecalculateUsable, AwaitTokenization, TakeHead,
        CalculateHead, CalculateReturns, PopHead, HeadGone, vars
<1> QED
  BY <1>1, <1>3, <1>4, <1>5, ValuesKept

(* The values of a USABLE attribute of its own name are in the records unless *)
(* it was calculated twice at a time or is being deleted, for any number of  *)
(* attributes and requests.                                                  *)
THEOREM ValuesThere == Spec => []UsableHasValues
<1>1. Init => ValuesInv
  BY DEF Init, ValuesInv, CalculationsOf, InThread, Written
<1>2. TypeOK /\ ValuesInv /\ [Next]_vars => ValuesInv'
  BY ValuesInvCalculation, ValuesInvOther
<1>3. ValuesInv => UsableHasValues
  BY DEF ValuesInv, UsableHasValues, OwnName
<1> QED
  BY <1>1, <1>2, <1>3, TypeCorrect, PTL DEF Spec

-----------------------------------------------------------------------------
(* While the recalculation goes on undisturbed, its head is the only         *)
(* attribute that is calculated, and nothing but it and the attributes that  *)
(* came off the list too early is tokenized: no check finds anything that    *)
(* speaks against it but these or two namesakes.                             *)
Busy(c) == pc[c] \notin {"idle", "done"}
Recalculating == rpc \in {"wait", "loop", "calling", "done"} /\ ~disturbed
Restored(a) ==
  astate[a] = "USABLE" \/ (astate[a] = "FAILED" /\ (Crowded(a) \/ hasty \ {a} # {}))

HeadInv(a) ==
  /\ a \in todo
  /\ head = {a}
  /\ \/ pc[a] \in {"idle", "check", "mark", "done"} /\ astate[a] = "INITIAL"
        /\ a \notin Untokenized
     \/ pc[a] \in InThread \ {"report"} /\ astate[a] = "RUNNING"
     \/ pc[a] = "done" /\ Restored(a)
  /\ pc[a] = "collect" => a \in payload

(* Before the loop: a calculation of the recalculation is named by its       *)
(* attribute, and one import starts one recalculation.                       *)
StartInv ==
  /\ \A a \in Attribute : target[a] = a
  /\ rpc # "idle" => import # "none"
  /\ rpc \in {"idle", "start", "wait"} => head = {} /\ hasty = {}

(* In the loop.                                                              *)
LoopInv ==
  /\ \A a \in Attribute : deleting[a] # "row"
  /\ todo \subseteq recalculated
  /\ rpc = "done" => todo = {}
  /\ rpc \in {"loop", "calling"} => Untokenized \subseteq head \cup hasty
  /\ \A a \in hasty : a \notin todo
  /\ \A c \in Calculation : Busy(c) => c \in head
  /\ RunningAttributes \subseteq head
  /\ \A a \in head : HeadInv(a)
  /\ \A a \in Attribute : astate[a] = "USABLE" => a \in recalculated
  /\ \A a \in recalculated \ todo : Restored(a)
  /\ \A a \in todo \ head : astate[a] = "INITIAL"

RestoreInv == StartInv /\ (Recalculating => LoopInv)

LEMMA TwoElements ==
  ASSUME NEW S, Cardinality(S) > 1
  PROVE  \E x, y \in S : x # y
<1> SUFFICES ASSUME \A x, y \in S : x = y PROVE FALSE
  OBVIOUS
<1>1. S # {}
  BY FS_EmptySet
<1>2. PICK x \in S : S = {x}
  BY <1>1
<1> QED
  BY <1>2, FS_Singleton

(* An undisturbed recalculation has attributes of some state on its list.    *)
LEMMA ListedExist ==
  ASSUME LoopInv, NEW a \in recalculated
  PROVE  astate[a] \in {"INITIAL", "RUNNING", "USABLE", "FAILED"}
<1>1. CASE a \in head
  BY <1>1 DEF LoopInv, HeadInv, Restored
<1>2. CASE a \notin head
  BY <1>2 DEF LoopInv, Restored
<1> QED
  BY <1>1, <1>2

(* Who calculates while the recalculation is undisturbed is its head.        *)
LEMMA HeadAlone ==
  ASSUME TypeOK, RestoreInv, Recalculating, NEW c \in Calculation, Busy(c)
  PROVE  /\ c \in Attribute /\ target[c] = c
         /\ head = {c} /\ HeadInv(c) /\ c \in recalculated
         /\ rpc \in {"loop", "calling"} /\ Untokenized \subseteq {c} \cup hasty
         /\ c \notin hasty
<1>1. c \in head /\ head \subseteq Attribute /\ HeadInv(c)
  BY DEF RestoreInv, LoopInv, TypeOK
<1>2. head = {c} /\ c \in todo
  BY <1>1 DEF HeadInv
<1>3. rpc \in {"loop", "calling"}
  BY <1>2 DEF RestoreInv, LoopInv, StartInv, Recalculating
<1> QED
  BY <1>1, <1>2, <1>3 DEF RestoreInv, StartInv, LoopInv

(* A step of the head that keeps HeadInv keeps all of it.                    *)
LEMMA HeadMoves ==
  ASSUME TypeOK, RestoreInv, Recalculating, NEW c \in Attribute, head = {c}, c \in recalculated,
         UNCHANGED <<target, import, rpc, todo, head, deleting, recalculated, hasty>>,
         \A d \in Calculation \ {c} : pc'[d] = pc[d],
         \A a \in Attribute \ {c} : astate'[a] = astate[a],
         Untokenized' \subseteq {c} \cup hasty, HeadInv(c)'
  PROVE  RestoreInv'
<1>1. LoopInv /\ StartInv'
  BY DEF RestoreInv, StartInv
<1>2. \A a \in Attribute : Crowded(a)' <=> Crowded(a)
  BY DEF Crowded
<1>3. \A a \in Attribute \ {c} : Restored(a)' <=> Restored(a)
  BY <1>2 DEF Restored
<1>4. \A d \in Calculation : Busy(d)' => d \in head'
  BY <1>1 DEF LoopInv, Busy
<1>5. RunningAttributes' \subseteq head'
  BY <1>1 DEF LoopInv, RunningAttributes
<1>6. \A a \in recalculated' \ todo' : Restored(a)'
  BY <1>1, <1>3 DEF LoopInv, HeadInv, TypeOK
<1>7. \A a \in todo' \ head' : astate'[a] = "INITIAL"
  BY <1>1 DEF LoopInv, TypeOK
<1>8. \A a \in Attribute : astate'[a] = "USABLE" => a \in recalculated'
  BY <1>1 DEF LoopInv
<1>9. LoopInv'
  BY <1>1, <1>4, <1>5, <1>6, <1>7, <1>8 DEF LoopInv
<1> QED
  BY <1>1, <1>9 DEF RestoreInv

(* The steps of a calculation.                                               *)
LEMMA RestoreInvCalculation ==
  ASSUME TypeOK, TypeOK', RestoreInv, NEW c \in Calculation, CalculationStep(c)
  PROVE  RestoreInv'
<1> USE DEF history, calcVars, recalcVars
<1>1. /\ UNCHANGED <<target, import, rpc, todo, head, deleting, recalculated, hasty>>
      /\ disturbed => disturbed'
      /\ Busy(c)
  <2> USE DEF Busy
  <2>1. CASE Refuse(c) \/ Accept(c) \/ MarkRunning(c) \/ StartContainer(c) \/ ExecutionRaises(c)
    BY <2>1 DEF Refuse, Accept, MarkRunning, StartContainer, ExecutionRaises
  <2>2. CASE ContainerExit(c)
    BY <2>2 DEF ContainerExit
  <2>3. CASE CollectValues(c) \/ WriteValues(c) \/ WriteRaises(c) \/ PublishValues(c) \/ TokenizeValues(c)
    BY <2>3 DEF CollectValues, WriteValues, WriteRaises, PublishValues, TokenizeValues
  <2>4. CASE ReuploadRaises(c) \/ VerifyState(c) \/ ReportFailure(c) \/ MarkUsable(c) \/ AttributeGone(c)
    BY <2>4 DEF ReuploadRaises, VerifyState, ReportFailure, MarkUsable, AttributeGone
  <2> QED
    BY <2>1, <2>2, <2>3, <2>4 DEF CalculationStep
<1>2. SUFFICES ASSUME Recalculating' PROVE RestoreInv'
  BY <1>1 DEF RestoreInv, StartInv
<1>3. Recalculating /\ ~disturbed'
  BY <1>1, <1>2 DEF Recalculating
<1>4. /\ c \in Attribute /\ target[c] = c
      /\ head = {c} /\ HeadInv(c) /\ c \in recalculated
      /\ rpc \in {"loop", "calling"} /\ Untokenized \subseteq {c} \cup hasty
      /\ c \notin hasty
  BY <1>1, <1>3, HeadAlone
<1>5. c \in todo /\ todo' = todo /\ head' = {c}
  BY <1>1, <1>4 DEF HeadInv
<1>6. ASSUME NEW place, Goto(c, place)
      PROVE  pc'[c] = place /\ \A d \in Calculation \ {c} : pc'[d] = pc[d]
  BY <1>6 DEF Goto, TypeOK
<1>7. ASSUME NEW v, SetState(c, v)
      PROVE  astate'[c] = v /\ \A a \in Attribute \ {c} : astate'[a] = astate[a]
  BY <1>4, <1>7 DEF SetState, TypeOK
<1>8. Exists(c)
  BY <1>3, <1>4, ListedExist DEF RestoreInv, Exists
<1>9. /\ pc[c] \in {"check", "mark"} => astate[c] = "INITIAL" /\ c \notin Untokenized
      /\ pc[c] \in InThread => astate[c] = "RUNNING" /\ pc[c] # "report"
      /\ pc[c] = "collect" => c \in payload
  BY <1>4 DEF HeadInv, InThread
<1>a. UNCHANGED tokenVars => Untokenized' = Untokenized
  BY DEF tokenVars, Untokenized
<1>10. CASE Refuse(c)
  <2>1. pc[c] = "check" /\ Goto(c, "done") /\ SetState(c, "FAILED") /\ Untokenized' = Untokenized
    BY <1>10, <1>4, <1>a DEF Refuse, Fail
  <2>2. RunningAttributes = {}
    BY <1>3, <1>4, <1>9, <2>1 DEF RestoreInv, LoopInv, RunningAttributes
  <2>3. Cardinality(UsableOfThatName(c)) > 1 \/ Untokenized # {}
    BY <1>10, <1>4, <1>9, <2>1, <2>2 DEF Refuse, Refused
  <2>4. ASSUME Cardinality(UsableOfThatName(c)) > 1 PROVE Crowded(c)'
    <3>1. PICK b \in UsableOfThatName(c), d \in UsableOfThatName(c) : b # d
      BY <2>4, TwoElements
    <3> QED
      BY <1>1, <1>3, <1>9, <2>1, <3>1 DEF Crowded, UsableOfThatName, RestoreInv, LoopInv
  <2>5. Crowded(c)' \/ hasty' \ {c} # {}
    BY <1>1, <1>4, <1>9, <2>1, <2>3, <2>4
  <2>6. HeadInv(c)'
    BY <1>5, <1>6, <1>7, <2>1, <2>5 DEF HeadInv, Restored
  <2> QED
    BY <1>1, <1>3, <1>4, <1>6, <1>7, <2>1, <2>6, HeadMoves
<1>11. CASE Accept(c)
  <2>1. pc[c] = "check" /\ Goto(c, "mark") /\ UNCHANGED astate /\ Untokenized' = Untokenized
    BY <1>11, <1>a DEF Accept
  <2>2. HeadInv(c)'
    BY <1>5, <1>6, <1>9, <2>1 DEF HeadInv
  <2> QED
    BY <1>1, <1>3, <1>4, <1>6, <2>1, <2>2, HeadMoves
<1>12. CASE MarkRunning(c)
  <2>1. Goto(c, "exec") /\ SetState(c, "RUNNING") /\ Untokenized' = Untokenized
    BY <1>12, <1>4, <1>a DEF MarkRunning
  <2>2. HeadInv(c)'
    BY <1>5, <1>6, <1>7, <2>1 DEF HeadInv, InThread
  <2> QED
    BY <1>1, <1>3, <1>4, <1>6, <1>7, <2>1, <2>2, HeadMoves
<1>13. CASE StartContainer(c) \/ ContainerExit(c) \/ WriteValues(c) \/ PublishValues(c) \/ TokenizeValues(c)
  <2>1. PICK place : /\ Goto(c, place) /\ place \in InThread \ {"report"} /\ pc[c] \in InThread
                     /\ place = "collect" => c \in payload'
    <3>1. CASE ContainerExit(c)
      <4>1. PICK ok \in BOOLEAN : /\ payload' = IF ok THEN payload \cup {c} ELSE payload
                                 /\ disturbed' = (disturbed \/ ~ok)
        BY <1>4, <3>1 DEF ContainerExit
      <4>2. c \in payload'
        BY <1>3, <4>1
      <4> QED
        BY <3>1, <4>2 DEF ContainerExit, InThread
    <3>2. CASE StartContainer(c) \/ WriteValues(c) \/ PublishValues(c)
      BY <3>2 DEF StartContainer, WriteValues, PublishValues, InThread
    <3>3. CASE TokenizeValues(c)
      <4>1. pc[c] = "queue" /\ astate[c] = "RUNNING"
        BY <1>4, <1>9, <3>3 DEF TokenizeValues, InThread
      <4>2. Goto(c, "usable")
        BY <1>4, <3>3, <4>1 DEF TokenizeValues
      <4> QED
        BY <4>1, <4>2 DEF InThread
    <3> QED
      BY <1>13, <3>1, <3>2, <3>3
  <2>2. UNCHANGED astate /\ Untokenized' \subseteq {c} \cup hasty
    <3>1. CASE TokenizeValues(c)
      BY <1>4, <3>1 DEF TokenizeValues, Untokenized
    <3>2. CASE ~TokenizeValues(c)
      BY <1>13, <1>4, <1>a, <3>2 DEF StartContainer, ContainerExit, WriteValues, PublishValues
    <3> QED
      BY <3>1, <3>2
  <2>3. HeadInv(c)'
    BY <1>5, <1>6, <1>9, <2>1, <2>2 DEF HeadInv
  <2> QED
    BY <1>1, <1>3, <1>4, <1>6, <2>1, <2>2, <2>3, HeadMoves
<1>14. CASE CollectValues(c)
  <2>1. Goto(c, "write") /\ UNCHANGED astate /\ Untokenized' = Untokenized /\ pc[c] \in InThread
    BY <1>14, <1>4, <1>9, <1>a DEF CollectValues, InThread
  <2>2. HeadInv(c)'
    BY <1>5, <1>6, <1>9, <2>1 DEF HeadInv, InThread
  <2> QED
    BY <1>1, <1>3, <1>4, <1>6, <2>1, <2>2, HeadMoves
<1>15. CASE VerifyState(c)
  <2>1. Goto(c, "usable") /\ UNCHANGED astate /\ Untokenized' = Untokenized /\ pc[c] \in InThread
    BY <1>15, <1>4, <1>9, <1>a DEF VerifyState, InThread
  <2>2. HeadInv(c)'
    BY <1>5, <1>6, <1>9, <2>1 DEF HeadInv, InThread
  <2> QED
    BY <1>1, <1>3, <1>4, <1>6, <2>1, <2>2, HeadMoves
<1>16. CASE MarkUsable(c)
  <2>1. Goto(c, "done") /\ SetState(c, "USABLE") /\ Untokenized' = Untokenized
    BY <1>16, <1>4, <1>a DEF MarkUsable
  <2>2. HeadInv(c)'
    BY <1>5, <1>6, <1>7, <2>1 DEF HeadInv, Restored
  <2> QED
    BY <1>1, <1>3, <1>4, <1>6, <1>7, <2>1, <2>2, HeadMoves
<1>17. CASE ExecutionRaises(c) \/ WriteRaises(c) \/ ReuploadRaises(c)
  BY <1>17, <1>3 DEF ExecutionRaises, WriteRaises, ReuploadRaises
<1>18. CASE AttributeGone(c)
  BY <1>18, <1>4, <1>8 DEF AttributeGone
<1>19. CASE ReportFailure(c)
  BY <1>19, <1>9 DEF ReportFailure, InThread
<1> QED
  BY <1>10, <1>11, <1>12, <1>13, <1>14, <1>15, <1>16, <1>17, <1>18, <1>19 DEF CalculationStep

(* The steps of the recalculation.                                           *)
LEMMA RestoreInvRecalculation ==
  ASSUME TypeOK, TypeOK', RestoreInv, RecalculationStep
  PROVE  RestoreInv'
<1> USE DEF history, calcVars, recalcVars
<1>1. StartInv'
  <2>1. UNCHANGED <<target, import>>
    BY DEF RecalculationStep, RecalculateUsable, AwaitTokenization, TakeHead, CalculateHead,
           CalculateReturns, PopHead, HeadGone
  <2>2. rpc # "idle"
    BY DEF RecalculationStep, RecalculateUsable, AwaitTokenization, TakeHead, CalculateHead,
           CalculateReturns, PopHead, HeadGone
  <2>3. rpc' \in {"idle", "start", "wait"} => head' = {} /\ hasty' = {}
    BY DEF RecalculationStep, RecalculateUsable, AwaitTokenization, TakeHead, CalculateHead,
           CalculateReturns, PopHead, HeadGone, RestoreInv, StartInv
  <2> QED
    BY <2>1, <2>2, <2>3 DEF RestoreInv, StartInv
<1>2. SUFFICES ASSUME Recalculating' PROVE LoopInv'
  BY <1>1 DEF RestoreInv
<1>3. CASE RecalculateUsable
  <2> DEFINE usable == {a \in Attribute : astate[a] = "USABLE"}
  <2>1. /\ rpc = "start" /\ todo' = usable /\ recalculated' = usable
        /\ astate' = [a \in Attribute |-> IF a \in usable THEN "INITIAL" ELSE astate[a]]
        /\ rpc' = IF usable = {} THEN "done" ELSE "wait"
        /\ UNCHANGED <<pc, head, deleting, hasty>>
    BY <1>3 DEF RecalculateUsable
  <2>2. /\ RunningAttributes = {}
        /\ \A c \in Calculation : pc[c] \in {"idle", "done"}
        /\ \A a \in Attribute : deleting[a] # "row"
    BY <1>2, <1>3 DEF RecalculateUsable, Recalculating
  <2>3. head' = {} /\ hasty' = {}
    BY <2>1 DEF RestoreInv, StartInv
  <2>4. /\ RunningAttributes' = {}
        /\ \A a \in Attribute : astate'[a] # "USABLE"
        /\ \A a \in todo' : astate'[a] = "INITIAL"
    BY <2>1, <2>2 DEF RunningAttributes
  <2> QED
    BY <2>1, <2>2, <2>3, <2>4 DEF LoopInv, Busy
<1>4. ASSUME ~RecalculateUsable
      PROVE  /\ Recalculating /\ LoopInv
             /\ UNCHANGED <<target, deleting, recalculated, queued, tokenizing, payload>>
             /\ Untokenized' = Untokenized
             /\ hasty' = hasty \/ \E a \in Attribute : PopHead(a)
  <2>1. /\ UNCHANGED <<target, deleting, recalculated, queued, tokenizing, payload, disturbed>>
        /\ hasty' = hasty \/ \E a \in Attribute : PopHead(a)
    BY <1>4 DEF tokenVars, RecalculationStep, AwaitTokenization, TakeHead, CalculateHead,
           CalculateReturns, PopHead, HeadGone
  <2>2. rpc \in {"wait", "loop", "calling"}
    BY <1>4 DEF RecalculationStep, AwaitTokenization, TakeHead, CalculateHead,
           CalculateReturns, PopHead, HeadGone
  <2> QED
    BY <1>2, <2>1, <2>2 DEF Recalculating, RestoreInv, Untokenized
<1>5. ASSUME ~RecalculateUsable, UNCHANGED <<astate, hasty>>
      PROVE  /\ \A a \in Attribute : Restored(a)' <=> Restored(a)
             /\ RunningAttributes' = RunningAttributes
  BY <1>4, <1>5 DEF Restored, Crowded, RunningAttributes
<1>6. ~RecalculateUsable => todo \subseteq Attribute /\ recalculated \subseteq Attribute /\ head \subseteq Attribute
  BY DEF TypeOK
<1>7. CASE AwaitTokenization
  <2>1. /\ ~RecalculateUsable /\ Untokenized = {} /\ rpc = "wait" /\ rpc' = "loop"
        /\ UNCHANGED <<astate, pc, todo, head, hasty>>
    BY <1>7 DEF AwaitTokenization, RecalculateUsable
  <2>2. head = {}
    BY <2>1 DEF RestoreInv, StartInv
  <2> QED
    BY <1>4, <1>5, <1>6, <2>1, <2>2 DEF LoopInv, Busy
<1>8. CASE TakeHead /\ todo = {}
  <2>1. ~RecalculateUsable /\ rpc' = "done" /\ head = {} /\ UNCHANGED <<astate, pc, todo, head, hasty>>
    BY <1>8 DEF TakeHead, RecalculateUsable
  <2> QED
    BY <1>4, <1>5, <1>6, <1>8, <2>1 DEF LoopInv, Busy
<1>9. CASE TakeHead /\ todo # {}
  <2>1. /\ ~RecalculateUsable /\ rpc = "loop" /\ head = {} /\ UNCHANGED <<astate, pc, todo, rpc, hasty>>
    BY <1>9 DEF TakeHead, RecalculateUsable
  <2>2. PICK a \in todo : head' = {a}
    BY <1>9 DEF TakeHead
  <2>3. astate[a] = "INITIAL" /\ a \notin Untokenized /\ ~Busy(a)
    BY <1>4, <1>6, <2>1, <2>2 DEF LoopInv, Calculation
  <2>4. HeadInv(a)'
    BY <1>4, <2>1, <2>2, <2>3 DEF HeadInv, Busy
  <2>5. \A c \in Calculation : ~Busy(c)'
    BY <1>4, <2>1 DEF LoopInv, Busy
  <2>6. RunningAttributes = {}
    BY <1>4, <2>1 DEF LoopInv
  <2> QED
    BY <1>4, <1>5, <1>6, <2>1, <2>2, <2>3, <2>4, <2>5, <2>6 DEF LoopInv
<1>10. ASSUME NEW a \in Attribute, CalculateHead(a) PROVE LoopInv'
  <2>1. /\ ~RecalculateUsable /\ rpc' = "calling" /\ head = {a} /\ astate[a] = "INITIAL"
        /\ UNCHANGED <<astate, todo, head, hasty>>
        /\ pc' = [pc EXCEPT ![a] = "check"]
    BY <1>10 DEF CalculateHead, RecalculateUsable, Goto
  <2>2. HeadInv(a)
    BY <1>4, <2>1 DEF LoopInv
  <2>3. a \in Calculation /\ pc'[a] = "check" /\ \A c \in Calculation \ {a} : pc'[c] = pc[c]
    BY <2>1 DEF TypeOK, Calculation
  <2>4. a \notin Untokenized
    BY <2>1, <2>2 DEF HeadInv, Restored
  <2>5. HeadInv(a)'
    BY <1>4, <2>1, <2>2, <2>3, <2>4 DEF HeadInv
  <2>6. \A c \in Calculation : Busy(c)' => c \in head'
    BY <1>4, <2>1, <2>3 DEF LoopInv, Busy
  <2>7. \A b \in head' : HeadInv(b)'
    BY <2>1, <2>5
  <2>8. /\ \A b \in recalculated' \ todo' : Restored(b)'
        /\ RunningAttributes' \subseteq head'
    BY <1>4, <1>5, <1>6, <2>1 DEF LoopInv
  <2>9. rpc' # "done" /\ Untokenized' \subseteq head' \cup hasty'
    BY <1>4, <1>10, <2>1 DEF LoopInv, CalculateHead
  <2> QED
    BY <1>4, <2>1, <2>6, <2>7, <2>8, <2>9 DEF LoopInv
<1>11. ASSUME NEW a \in Attribute, CalculateReturns(a) PROVE LoopInv'
  <2>1. ~RecalculateUsable /\ rpc = "calling" /\ rpc' = "loop" /\ UNCHANGED <<astate, pc, todo, head, hasty>>
    BY <1>11 DEF CalculateReturns, RecalculateUsable
  <2>2. \A b \in head : HeadInv(b)'
    BY <1>4, <1>5, <1>6, <2>1 DEF LoopInv, HeadInv
  <2> QED
    BY <1>4, <1>5, <1>6, <2>1, <2>2 DEF LoopInv, Busy
<1>12. ASSUME NEW a \in Attribute, PopHead(a) PROVE LoopInv'
  <2>1. /\ ~RecalculateUsable /\ rpc = "loop" /\ head = {a} /\ astate[a] \in {"USABLE", "FAILED"}
        /\ ~BeingTokenized(a) /\ todo' = todo \ {a} /\ head' = {}
        /\ hasty' = IF a \in queued THEN hasty \cup {a} ELSE hasty
        /\ UNCHANGED <<astate, pc, rpc>>
    BY <1>12 DEF PopHead, RecalculateUsable
  <2>2. pc[a] = "done" /\ Restored(a)
    BY <1>4, <2>1 DEF LoopInv, HeadInv
  <2>3. RunningAttributes = {} /\ \A c \in Calculation : ~Busy(c)'
    BY <1>4, <2>1, <2>2 DEF LoopInv, RunningAttributes, Busy
  <2>4. RunningAttributes' = {}
    BY <2>1, <2>3 DEF RunningAttributes
  <2>5. \A b \in Attribute : Restored(b) => Restored(b)'
    <3>1. \A b \in Attribute : Crowded(b)' <=> Crowded(b)
      BY <1>4, <2>1 DEF Crowded
    <3>2. hasty \subseteq hasty'
      BY <2>1
    <3> QED
      BY <2>1, <3>1, <3>2 DEF Restored
  <2>6. Untokenized' \subseteq hasty'
    <3>1. Untokenized \subseteq {a} \cup hasty
      BY <1>4, <2>1 DEF LoopInv
    <3>2. a \notin tokenizing
      BY <2>1 DEF BeingTokenized
    <3> QED
      BY <1>4, <2>1, <3>1, <3>2 DEF Untokenized
  <2>7. \A b \in hasty' : b \notin todo'
    BY <1>4, <2>1 DEF LoopInv
  <2>8. \A b \in recalculated' \ todo' : Restored(b)'
    BY <1>4, <1>6, <2>1, <2>2, <2>5 DEF LoopInv
  <2> QED
    BY <1>4, <1>6, <2>1, <2>3, <2>4, <2>6, <2>7, <2>8 DEF LoopInv
<1>13. ASSUME NEW a \in Attribute, HeadGone(a) PROVE LoopInv'
  <2>1. ~RecalculateUsable /\ head = {a} /\ ~Exists(a)
    BY <1>13 DEF HeadGone, RecalculateUsable
  <2>2. a \in recalculated
    BY <1>4, <2>1 DEF LoopInv, HeadInv
  <2> QED
    BY <1>4, <2>1, <2>2, ListedExist DEF Exists
<1> QED
  BY <1>3, <1>7, <1>8, <1>9, <1>10, <1>11, <1>12, <1>13 DEF RecalculationStep

(* The steps of users, of the import and of the tokenizer.                   *)
LEMMA RestoreInvOther ==
  ASSUME TypeOK, TypeOK', RestoreInv, [Next]_vars,
         \A c \in Calculation : ~CalculationStep(c), ~RecalculationStep
  PROVE  RestoreInv'
<1> USE DEF history, calcVars, recalcVars, tokenVars, Untokenized
<1>1. ASSUME NEW a \in Attribute, CreateAttribute(a) PROVE RestoreInv'
  <2>1. /\ astate[a] = "NONE" /\ SetState(a, "INITIAL")
        /\ UNCHANGED <<pc, target, payload, deleting, import, rpc, todo, head, queued, tokenizing, recalculated, hasty, disturbed>>
    BY <1>1 DEF CreateAttribute
  <2>2. SUFFICES ASSUME Recalculating, LoopInv PROVE LoopInv'
    BY <2>1 DEF RestoreInv, StartInv, Recalculating
  <2>3. a \notin recalculated /\ todo \subseteq recalculated /\ head \subseteq recalculated
    BY <2>1, <2>2, ListedExist DEF LoopInv, HeadInv
  <2>4. \A b \in Attribute : astate'[b] = IF b = a THEN "INITIAL" ELSE astate[b]
    BY <2>1 DEF SetState, TypeOK
  <2>5. \A b \in recalculated : /\ astate'[b] = astate[b]
                                /\ Restored(b)' <=> Restored(b)
                                /\ HeadInv(b)' <=> HeadInv(b)
    BY <2>1, <2>3, <2>4 DEF Restored, Crowded, HeadInv, TypeOK
  <2>6. RunningAttributes' \subseteq RunningAttributes
    BY <2>4 DEF RunningAttributes
  <2> QED
    BY <2>1, <2>2, <2>3, <2>4, <2>5, <2>6 DEF LoopInv, Busy
<1>2. ASSUME NEW a \in Attribute, DeleteValues(a) \/ Cancel(a) PROVE RestoreInv'
  BY <1>2 DEF DeleteValues, Cancel, RestoreInv, StartInv, Recalculating
<1>3. ASSUME NEW a \in Attribute, DeleteAttribute(a) PROVE RestoreInv'
  <2>1. ~Recalculating
    BY <1>3 DEF DeleteAttribute, RestoreInv, LoopInv
  <2> QED
    BY <1>3, <2>1 DEF DeleteAttribute, RestoreInv, StartInv, Recalculating
<1>4. ASSUME NEW c \in Calculation, RequestCalculation(c) PROVE RestoreInv'
  BY <1>4 DEF RequestCalculation, RestoreInv, StartInv, Recalculating
<1>5. CASE ImportRecords
  BY <1>5 DEF ImportRecords, RestoreInv, StartInv, Recalculating
<1>6. CASE QueueTokenization
  <2>1. /\ UNCHANGED <<astate, pc, target, payload, deleting, rpc, todo, head, recalculated, hasty>>
        /\ import' = "queued"
        /\ ~disturbed' => ~disturbed /\ rpc \in {"start", "wait"}
    BY <1>6 DEF QueueTokenization
  <2>2. SUFFICES ASSUME Recalculating' PROVE LoopInv'
    BY <2>1 DEF RestoreInv, StartInv
  <2>3. Recalculating /\ rpc = "wait" /\ head = {}
    BY <2>1, <2>2 DEF Recalculating, RestoreInv, StartInv
  <2> QED
    BY <2>1, <2>3 DEF RestoreInv, LoopInv, Busy, Restored, Crowded, RunningAttributes
<1>7. ASSUME NEW t \in Attribute \cup {"project"}, TokenizationStarts(t) \/ TokenizationEnds(t) PROVE RestoreInv'
  <2>1. /\ UNCHANGED <<astate, pc, target, payload, deleting, import, rpc, todo, head, recalculated, hasty, disturbed>>
        /\ Untokenized' \subseteq Untokenized
    BY <1>7 DEF TokenizationStarts, TokenizationEnds
  <2>2. SUFFICES ASSUME Recalculating, LoopInv PROVE LoopInv'
    BY <2>1 DEF RestoreInv, StartInv, Recalculating
  <2>3. \A b \in Attribute : Restored(b)' <=> Restored(b)
    BY <2>1 DEF Restored, Crowded
  <2>4. \A b \in head : HeadInv(b)'
    BY <2>1, <2>2, <2>3 DEF LoopInv, HeadInv, TypeOK
  <2> QED
    BY <2>1, <2>2, <2>3, <2>4 DEF LoopInv, Busy, RunningAttributes, TypeOK
<1>8. CASE Crash
  BY <1>8 DEF Crash, RestoreInv, StartInv, Recalculating
<1>9. CASE UNCHANGED vars
  <2>1. UNCHANGED <<astate, pc, target, payload, deleting, import, rpc, todo, head, queued, tokenizing, recalculated, hasty, disturbed>>
    BY <1>9 DEF vars
  <2> QED
    BY <2>1 DEF RestoreInv, StartInv, Recalculating, LoopInv, HeadInv, Busy, Restored, Crowded, RunningAttributes
<1> QED
  BY <1>1, <1>2, <1>3, <1>4, <1>5, <1>6, <1>7, <1>8, <1>9 DEF Next

(* What was usable before an import is usable after it, if nothing disturbed *)
(* the recalculation and no other attribute came off the list with its       *)
(* tokenization in the queue, for any number of attributes.                  *)
THEOREM UsableAgain == Spec => []RecalculationRestores
<1>1. Init => RestoreInv
  BY DEF Init, RestoreInv, StartInv, Recalculating
<1>2. TypeOK /\ TypeOK' /\ RestoreInv /\ [Next]_vars => RestoreInv'
  BY RestoreInvCalculation, RestoreInvRecalculation, RestoreInvOther
<1>3. RestoreInv => RecalculationRestores
  BY DEF RestoreInv, Recalculating, LoopInv, Restored, RecalculationRestores
<1> QED
  BY <1>1, <1>2, <1>3, TypeCorrect, PTL DEF Spec
=============================================================================
