-------------------------- MODULE FileImportProofs --------------------------
(* Theorems about FileImport, for any tasks, deliveries, continuations,      *)
(* number of chunks and bounds.                                              *)
EXTENDS FileImport, TLAPS

LEMMA JobType == \A h \in Handler : Job[h] \in Task
BY ImportAssumption

(* Every variable keeps its type. *)
THEOREM TypeCorrect == Spec => []TypeOK
<1> USE ImportAssumption DEF TypeOK, Importing, Place, Chunk
<1>1. Init => TypeOK
  <2> SUFFICES ASSUME Init PROVE TypeOK
    OBVIOUS
  <2>1. /\ 1 \in Chunk /\ 0 \in 0..Chunks
        /\ 0 \in 0..MaxFaults /\ 0 \in 0..MaxCrashes
    OBVIOUS
  <2> QED BY <2>1 DEF Init
<1>2. TypeOK /\ [Next]_vars => TypeOK'
  <2> SUFFICES ASSUME TypeOK, [Next]_vars PROVE TypeOK'
    OBVIOUS
  <2> USE JobType DEF taskVars, handlerVars, bounds, history, Goto, SetState, Raise
  <2>1. ASSUME NEW h \in Handler,
               ReceiveNotification(h) \/ AcceptPut(h) \/ RefusePut(h)
        PROVE  TypeOK'
    <3>1. CASE ReceiveNotification(h)  BY <3>1 DEF ReceiveNotification
    <3>2. CASE AcceptPut(h)  BY <3>2 DEF AcceptPut
    <3>3. CASE RefusePut(h)  BY <3>3 DEF RefusePut
    <3> QED BY <2>1, <3>1, <3>2, <3>3
  <2>2. ASSUME NEW h \in Handler, HandlerStep(h)
        PROVE  TypeOK'
    <3>1. CASE BeginDownload(h)  BY <3>1 DEF BeginDownload
    <3>2. CASE Download(h)  BY <3>2 DEF Download
    <3>3. CASE DownloadRaises(h)
      <4>1. faults' \in 0..MaxFaults /\ crashes' = crashes
        BY <3>3 DEF DownloadRaises
      <4> QED BY <3>3, <4>1 DEF DownloadRaises
    <3>4. CASE Analyse(h)
      <4>1. faults' \in 0..MaxFaults /\ crashes' = crashes
        BY <3>4 DEF Analyse
      <4>2. info' \in [Task -> {"none", "columns", "errors"}]
        BY <3>4 DEF Analyse
      <4> QED BY <3>4, <4>1, <4>2 DEF Analyse
    <3>5. CASE StartImport(h)  BY <3>5 DEF StartImport
    <3>6. CASE Parse(h)  BY <3>6 DEF Parse
    <3>7. CASE ReadExisting(h)  BY <3>7 DEF ReadExisting
    <3>8. CASE StoreChunk(h)
      <4>1. chunk[h] \in 1..Chunks /\ chunk[h] \in 0..Chunks
        OBVIOUS
      <4>2. chunk[h] # Chunks => chunk[h] + 1 \in 1..Chunks
        BY <4>1
      <4> QED BY <3>8, <4>1, <4>2 DEF StoreChunk
    <3>9. CASE Finish(h)  BY <3>9 DEF Finish
    <3>10. CASE QueueTokenization(h)  BY <3>10 DEF QueueTokenization
    <3>11. CASE ImportRaises(h)  BY <3>11 DEF ImportRaises
    <3>12. CASE HandleError(h)  BY <3>12 DEF HandleError
    <3> QED
      BY <2>2, <3>1, <3>2, <3>3, <3>4, <3>5, <3>6, <3>7, <3>8, <3>9, <3>10, <3>11, <3>12
      DEF HandlerStep
  <2>3. ASSUME NEW t \in Task, CancelUpload(t)
        PROVE  TypeOK'
    BY <2>3 DEF CancelUpload
  <2>4. CASE Restart
    BY <2>4 DEF Restart, Active
  <2>5. CASE UNCHANGED vars
    BY <2>5 DEF vars
  <2> QED BY <2>1, <2>2, <2>3, <2>4, <2>5 DEF Next
<1> QED BY <1>1, <1>2, PTL DEF Spec

-----------------------------------------------------------------------------
(* A handler that works on a chunk has stored the chunks before it.          *)
RowInv ==
  /\ ReportedRowsExist
  /\ \A h \in Handler :
       /\ pc[h] \in Importing => \A k \in Chunk : k < chunk[h] => rows[k] > 0
       /\ pc[h] = "store" /\ found[h] => rows[chunk[h]] > 0
       /\ pc[h] = "finish" => \A k \in Chunk : rows[k] > 0

(* No step takes rows away.                                                  *)
LEMMA RowsStay ==
  ASSUME TypeOK, [Next]_vars
  PROVE  \A k \in Chunk : rows[k] > 0 => rows'[k] > 0
<1>1. ASSUME NEW h \in Handler, StoreChunk(h)
      PROVE  \A k \in Chunk : rows[k] > 0 => rows'[k] > 0
  <2>1. rows \in [Chunk -> Nat] /\ (rows' = rows \/ rows' = [rows EXCEPT ![chunk[h]] = @ + 1])
    BY <1>1 DEF StoreChunk, TypeOK
  <2>2. ASSUME NEW k \in Chunk, rows[k] > 0, rows' = [rows EXCEPT ![chunk[h]] = @ + 1]
        PROVE  rows'[k] > 0
    <3>1. rows[k] \in Nat /\ chunk[h] \in Chunk
      BY DEF TypeOK
    <3> QED BY <2>1, <2>2, <3>1
  <2> QED BY <2>1, <2>2
<1>2. CASE rows' = rows
  BY <1>2
<1> QED
  BY <1>1, <1>2
  DEF Next, HandlerStep, ReceiveNotification, AcceptPut, RefusePut, BeginDownload, Download,
      DownloadRaises, Analyse, StartImport, Parse, ReadExisting, Finish,
      QueueTokenization, ImportRaises, HandleError, CancelUpload, Restart, vars

(* What RowInv says of the handlers is only for the handler that moves.      *)
LEMMA RowInvStep ==
  ASSUME TypeOK, RowInv, [Next]_vars
  PROVE  RowInv'
<1> USE ImportAssumption DEF Importing
<1>0. \A k \in Chunk : rows[k] > 0 => rows'[k] > 0
  BY RowsStay
<1>1. CASE UNCHANGED <<progress, tstate, pc, chunk, found>>
  BY <1>0, <1>1 DEF RowInv, ReportedRowsExist, TypeOK, Chunk
<1>2. ASSUME NEW h \in Handler,
             ReceiveNotification(h) \/ AcceptPut(h) \/ RefusePut(h)
             \/ BeginDownload(h) \/ Download(h) \/ DownloadRaises(h) \/ Analyse(h)
             \/ StartImport(h) \/ QueueTokenization(h) \/ ImportRaises(h) \/ HandleError(h)
      PROVE  RowInv'
  <2>1. UNCHANGED <<rows, progress, chunk, found>>
    BY <1>2 DEF ReceiveNotification, AcceptPut, RefusePut, BeginDownload, Download,
         DownloadRaises, Analyse, StartImport, QueueTokenization, ImportRaises,
         HandleError, taskVars
  <2>2. PICK place : place \notin {"read", "store", "finish"} /\ Goto(h, place)
    BY <1>2 DEF ReceiveNotification, AcceptPut, RefusePut, BeginDownload, Download,
         DownloadRaises, Analyse, StartImport, QueueTokenization, ImportRaises, HandleError
  <2>3. \A t \in Task : tstate'[t] = "DONE" => tstate[t] = "DONE"
    BY <1>2 DEF ReceiveNotification, AcceptPut, RefusePut, BeginDownload, Download,
         DownloadRaises, Analyse, StartImport, QueueTokenization, ImportRaises,
         HandleError, taskVars, SetState, TypeOK
  <2>4. ReportedRowsExist'
    BY <2>1, <2>3 DEF RowInv, ReportedRowsExist
  <2> QED BY <2>1, <2>2, <2>4 DEF RowInv, Goto, TypeOK
<1>3. ASSUME NEW h \in Handler, Parse(h)
      PROVE  RowInv'
  <2>1. UNCHANGED <<rows, progress, tstate, found>> /\ Goto(h, "read")
        /\ chunk' = [chunk EXCEPT ![h] = 1]
    BY <1>3 DEF Parse, taskVars
  <2>2. ReportedRowsExist'
    BY <2>1 DEF RowInv, ReportedRowsExist
  <2>3. \A k \in Chunk : ~(k < 1)
    BY DEF Chunk
  <2> QED BY <2>1, <2>2, <2>3 DEF RowInv, Goto, TypeOK
<1>4. ASSUME NEW h \in Handler, ReadExisting(h)
      PROVE  RowInv'
  <2>1. UNCHANGED <<rows, progress, tstate, chunk>> /\ Goto(h, "store") /\ pc[h] = "read"
        /\ found' = [found EXCEPT ![h] = Keyed /\ rows[chunk[h]] > 0]
    BY <1>4 DEF ReadExisting, taskVars
  <2>2. ReportedRowsExist'
    BY <2>1 DEF RowInv, ReportedRowsExist
  <2> QED BY <2>1, <2>2 DEF RowInv, Goto, TypeOK
<1>5. ASSUME NEW h \in Handler, StoreChunk(h)
      PROVE  RowInv'
  <2>0. chunk[h] \in Chunk /\ chunk[h] \in Nat /\ Job[h] \in Task
    BY JobType DEF TypeOK, Chunk
  <2>1. \A k \in Chunk : k <= chunk[h] => rows'[k] > 0
    <3>1. rows'[chunk[h]] > 0
      BY <1>5, <2>0 DEF StoreChunk, RowInv, TypeOK
    <3>2. \A k \in Chunk : k < chunk[h] => rows'[k] > 0
      BY <1>0, <1>5 DEF RowInv, StoreChunk
    <3> QED BY <2>0, <3>1, <3>2 DEF Chunk
  <2>2. ReportedRowsExist'
    <3>1. tstate' = tstate /\ progress' = [progress EXCEPT ![Job[h]] = chunk[h]]
      BY <1>5 DEF StoreChunk
    <3>2. ASSUME NEW t \in Task, NEW k \in 1..progress'[t]
          PROVE  rows'[k] > 0
      <4>1. CASE t = Job[h]
        BY <2>0, <2>1, <3>1, <4>1 DEF TypeOK, Chunk
      <4>2. CASE t # Job[h]
        BY <1>0, <3>1, <3>2, <4>2 DEF RowInv, ReportedRowsExist, TypeOK, Chunk
      <4> QED BY <4>1, <4>2
    <3> QED BY <1>0, <3>1, <3>2 DEF RowInv, ReportedRowsExist
  <2>3. ASSUME NEW other \in Handler
        PROVE  /\ pc'[other] \in Importing => \A k \in Chunk : k < chunk'[other] => rows'[k] > 0
               /\ pc'[other] = "store" /\ found'[other] => rows'[chunk'[other]] > 0
               /\ pc'[other] = "finish" => \A k \in Chunk : rows'[k] > 0
    <3>1. CASE other # h
      <4>1. pc'[other] = pc[other] /\ chunk'[other] = chunk[other] /\ found'[other] = found[other]
        BY <1>5, <3>1 DEF StoreChunk, Goto, TypeOK
      <4>2. chunk[other] \in Chunk
        BY DEF TypeOK
      <4> QED BY <1>0, <4>1, <4>2 DEF RowInv
    <3>2. CASE other = h /\ chunk[h] = Chunks
      <4>1. pc'[other] = "finish"
        BY <1>5, <3>2 DEF StoreChunk, Goto, TypeOK
      <4> QED BY <2>1, <3>2, <4>1 DEF Chunk
    <3>3. CASE other = h /\ chunk[h] # Chunks
      <4>1. pc'[other] = "read" /\ chunk'[other] = chunk[h] + 1
        BY <1>5, <3>3 DEF StoreChunk, Goto, TypeOK
      <4> QED BY <2>0, <2>1, <4>1 DEF Chunk
    <3> QED BY <3>1, <3>2, <3>3
  <2> QED BY <2>2, <2>3 DEF RowInv
<1>6. ASSUME NEW h \in Handler, Finish(h)
      PROVE  RowInv'
  <2>1. UNCHANGED <<rows, chunk, found>> /\ Goto(h, "queue") /\ SetState(h, "DONE")
        /\ progress' = [progress EXCEPT ![Job[h]] = Chunks]
    BY <1>6 DEF Finish
  <2>2. \A k \in Chunk : rows[k] > 0
    BY <1>6 DEF Finish, RowInv
  <2>3. ReportedRowsExist'
    <3>1. \A t \in Task : progress'[t] \in 0..Chunks
      BY <2>1 DEF TypeOK
    <3> QED BY <2>1, <2>2, <3>1 DEF ReportedRowsExist, Chunk
  <2> QED BY <2>1, <2>3 DEF RowInv, Goto, TypeOK
<1>7. ASSUME NEW t \in Task, CancelUpload(t)
      PROVE  RowInv'
  <2>1. UNCHANGED <<rows, progress, pc, chunk, found>>
        /\ tstate' = [tstate EXCEPT ![t] = "ERROR"]
    BY <1>7 DEF CancelUpload, handlerVars
  <2> QED BY <2>1 DEF RowInv, ReportedRowsExist, TypeOK
<1>8. CASE Restart
  <2>1. UNCHANGED <<rows, progress, tstate, chunk, found>>
        /\ pc' = [h \in Handler |-> IF Active(h) THEN "lost" ELSE pc[h]]
    BY <1>8 DEF Restart
  <2>2. ReportedRowsExist'
    BY <2>1 DEF RowInv, ReportedRowsExist
  <2> QED BY <2>1, <2>2 DEF RowInv
<1>9. CASE UNCHANGED vars
  BY <1>1, <1>9 DEF vars, taskVars, handlerVars
<1> QED BY <1>2, <1>3, <1>4, <1>5, <1>6, <1>7, <1>8, <1>9 DEF Next, HandlerStep

(* The chunks a task reports as imported are in the project, and all of them *)
(* when it is DONE: after raising calls, repeated deliveries and restarts.   *)
THEOREM ReportedRows == Spec => []ReportedRowsExist
<1>1. Init => RowInv
  BY ImportAssumption DEF Init, RowInv, ReportedRowsExist, Importing
<1>2. TypeOK /\ RowInv /\ [Next]_vars => RowInv'
  BY RowInvStep
<1>3. RowInv => ReportedRowsExist
  BY DEF RowInv
<1> QED BY <1>1, <1>2, <1>3, TypeCorrect, PTL DEF Spec

-----------------------------------------------------------------------------
(* As long as imports do not overlap only one handler is between looking up  *)
(* and storing records, and what it did not find is not there.               *)
KeyInv ==
  Keyed /\ ~overlapped =>
    /\ \A h, other \in Handler :
         pc[h] \in Importing /\ pc[other] \in Importing => h = other
    /\ \A h \in Handler : pc[h] = "store" /\ ~found[h] => rows[chunk[h]] = 0
    /\ \A k \in Chunk : rows[k] <= 1

(* Steps other than Parse and the two steps of a chunk start no import.      *)
LEMMA KeyInvStep ==
  ASSUME TypeOK, KeyInv, [Next]_vars
  PROVE  KeyInv'
<1> USE DEF Importing
<1>1. ASSUME UNCHANGED <<rows, chunk, found, overlapped>>,
             \A h \in Handler : pc'[h] \in Importing => pc'[h] = pc[h]
      PROVE  KeyInv'
  BY <1>1 DEF KeyInv, TypeOK, Chunk
<1>2. ASSUME NEW h \in Handler,
             ReceiveNotification(h) \/ AcceptPut(h) \/ RefusePut(h)
             \/ BeginDownload(h) \/ Download(h) \/ DownloadRaises(h) \/ Analyse(h)
             \/ StartImport(h) \/ Finish(h) \/ QueueTokenization(h) \/ ImportRaises(h)
             \/ HandleError(h)
      PROVE  KeyInv'
  <2>1. UNCHANGED <<rows, chunk, found, overlapped>>
    BY <1>2 DEF ReceiveNotification, AcceptPut, RefusePut, BeginDownload, Download,
         DownloadRaises, Analyse, StartImport, Finish, QueueTokenization, ImportRaises,
         HandleError, history
  <2>2. PICK place : place \notin Importing /\ Goto(h, place)
    BY <1>2 DEF ReceiveNotification, AcceptPut, RefusePut, BeginDownload, Download,
         DownloadRaises, Analyse, StartImport, Finish, QueueTokenization, ImportRaises,
         HandleError
  <2> QED BY <1>1, <2>1, <2>2 DEF Goto, TypeOK
<1>3. ASSUME NEW h \in Handler, Parse(h)
      PROVE  KeyInv'
  <2>1. rows' = rows /\ found' = found /\ Goto(h, "read")
        /\ chunk' = [chunk EXCEPT ![h] = 1]
        /\ overlapped' = (overlapped \/ \E other \in Handler \ {h} : pc[other] \in Importing)
    BY <1>3 DEF Parse
  <2>2. ASSUME ~overlapped', NEW other \in Handler, pc'[other] \in Importing
        PROVE  other = h
    BY <2>1, <2>2 DEF Goto, TypeOK
  <2>3. pc'[h] = "read"
    BY <2>1 DEF Goto, TypeOK
  <2> QED BY <2>1, <2>2, <2>3 DEF KeyInv
<1>4. ASSUME NEW h \in Handler, ReadExisting(h)
      PROVE  KeyInv'
  <2>1. UNCHANGED <<rows, chunk, overlapped>> /\ Goto(h, "store") /\ pc[h] = "read"
        /\ found' = [found EXCEPT ![h] = Keyed /\ rows[chunk[h]] > 0]
    BY <1>4 DEF ReadExisting, history
  <2>2. rows[chunk[h]] \in Nat
    BY DEF TypeOK
  <2>3. ASSUME Keyed, ~overlapped, NEW other \in Handler, pc'[other] \in Importing
        PROVE  other = h
    BY <2>1, <2>3 DEF KeyInv, Goto, TypeOK
  <2>4. Keyed /\ ~found'[h] => rows[chunk[h]] = 0
    <3>1. found \in [Handler -> BOOLEAN]
      BY DEF TypeOK
    <3>2. found'[h] = (Keyed /\ rows[chunk[h]] > 0)
      BY <2>1, <3>1, Zenon
    <3>3. Keyed /\ ~found'[h] => ~(rows[chunk[h]] > 0)
      BY <3>2, Zenon
    <3> QED BY <2>2, <3>3
  <2> QED BY <2>1, <2>3, <2>4 DEF KeyInv
<1>5. ASSUME NEW h \in Handler, StoreChunk(h)
      PROVE  KeyInv'
  <2>1. /\ pc[h] = "store" /\ overlapped' = overlapped /\ found' = found
        /\ rows' = IF found[h] THEN rows ELSE [rows EXCEPT ![chunk[h]] = @ + 1]
        /\ pc' = [pc EXCEPT ![h] = IF chunk[h] = Chunks THEN "finish" ELSE "read"]
    BY <1>5 DEF StoreChunk, Goto, history
  <2> SUFFICES ASSUME Keyed, ~overlapped PROVE KeyInv'
    BY <2>1 DEF KeyInv
  <2>2. ASSUME NEW other \in Handler, pc'[other] \in Importing
        PROVE  other = h
    BY <2>1, <2>2 DEF KeyInv, TypeOK
  <2>3. pc'[h] # "store"
    BY <2>1 DEF TypeOK
  <2>4. ASSUME NEW k \in Chunk PROVE rows'[k] <= 1
    <3>1. rows[k] \in Nat /\ rows[k] <= 1 /\ (~found[h] => rows[chunk[h]] = 0)
      BY <2>1 DEF KeyInv, TypeOK
    <3> QED BY <2>1, <3>1 DEF TypeOK
  <2> QED BY <2>2, <2>3, <2>4 DEF KeyInv
<1>6. ASSUME NEW t \in Task, CancelUpload(t)
      PROVE  KeyInv'
  BY <1>1, <1>6 DEF CancelUpload, handlerVars, history
<1>7. CASE Restart
  BY <1>1, <1>7 DEF Restart, history
<1>8. CASE UNCHANGED vars
  BY <1>1, <1>8 DEF vars, handlerVars, history
<1> QED BY <1>2, <1>3, <1>4, <1>5, <1>6, <1>7, <1>8 DEF Next, HandlerStep

(* Records with a primary key are created at most once, whatever is delivered *)
(* twice or killed, unless two imports ran at the same time.                  *)
THEOREM KeyedRows == Spec => []KeyedRowsOnce
<1>1. Init => KeyInv
  BY DEF Init, KeyInv, Importing
<1>2. TypeOK /\ KeyInv /\ [Next]_vars => KeyInv'
  BY KeyInvStep
<1>3. KeyInv => KeyedRowsOnce
  BY DEF KeyInv, KeyedRowsOnce
<1> QED BY <1>1, <1>2, <1>3, TypeCorrect, PTL DEF Spec

-----------------------------------------------------------------------------
(* A PUT that went on has set upload_type back, and one that still stands    *)
(* before its commit has raced with it.                                      *)
ContinueInv ==
  /\ ContinuedOnceUnlessRaced
  /\ \A p \in continued : utype[Job[p]] = "DEFAULT" /\ pc[p] \notin {"idle", "begin"}
  /\ \A p \in continued, q \in Put :
       pc[q] = "begin" /\ Job[p] = Job[q] => Job[p] \in raced
  /\ \A p, q \in Put :
       pc[p] = "begin" /\ pc[q] = "begin" /\ Job[p] = Job[q] => p = q \/ Job[p] \in raced

LEMMA ContinueInvStep ==
  ASSUME TypeOK, ContinueInv, [Next]_vars
  PROVE  ContinueInv'
<1>1. ASSUME UNCHANGED <<utype, continued, raced>>,
             \A h \in Put : pc'[h] \in {"idle", "begin"} => pc'[h] = pc[h]
      PROVE  ContinueInv'
  <2>1. continued \subseteq Put
    BY DEF TypeOK
  <2> QED BY <1>1, <2>1 DEF ContinueInv, ContinuedOnceUnlessRaced
<1>2. ASSUME NEW h \in Handler,
             RefusePut(h) \/ Download(h) \/ DownloadRaises(h) \/ Analyse(h) \/ StartImport(h)
             \/ Parse(h) \/ ReadExisting(h) \/ StoreChunk(h) \/ Finish(h)
             \/ QueueTokenization(h) \/ ImportRaises(h) \/ HandleError(h)
      PROVE  ContinueInv'
  <2>1. UNCHANGED <<utype, continued, raced>>
    BY <1>2 DEF RefusePut, Download, DownloadRaises, Analyse, StartImport, Parse,
         ReadExisting, StoreChunk, Finish, QueueTokenization, ImportRaises, HandleError,
         taskVars, history
  <2>2. PICK place : place \notin {"idle", "begin"} /\ Goto(h, place)
    BY <1>2 DEF RefusePut, Download, DownloadRaises, Analyse, StartImport, Parse,
         ReadExisting, StoreChunk, Finish, QueueTokenization, ImportRaises, HandleError
  <2> QED BY <1>1, <2>1, <2>2 DEF Goto, TypeOK, Handler
<1>3. ASSUME NEW h \in Handler, ReceiveNotification(h)
      PROVE  ContinueInv'
  <2>1. UNCHANGED <<utype, continued, raced>> /\ Goto(h, "begin") /\ h \notin Put
    BY <1>3, ImportAssumption DEF ReceiveNotification, taskVars, history
  <2> QED BY <1>1, <2>1 DEF Goto, TypeOK, Handler
<1>4. ASSUME NEW h \in Handler, AcceptPut(h)
      PROVE  ContinueInv'
  <2>1. /\ h \in Put /\ pc[h] = "idle" /\ utype[Job[h]] = "COGNITION"
        /\ utype' = utype /\ continued' = continued /\ Goto(h, "begin")
        /\ raced' = IF \E p \in Put : Job[p] = Job[h] /\ pc[p] = "begin"
                    THEN raced \cup {Job[h]} ELSE raced
    BY <1>4 DEF AcceptPut, taskVars
  <2>2. h \notin continued /\ \A p \in continued : Job[p] # Job[h]
    BY <2>1 DEF ContinueInv
  <2>3. raced \subseteq raced' /\ continued \subseteq Put
    BY <2>1 DEF TypeOK
  <2>4. pc' = [pc EXCEPT ![h] = "begin"] /\ h \in DOMAIN pc
    BY <2>1 DEF Goto, TypeOK
  <2>5. ContinuedOnceUnlessRaced'
    BY <2>1, <2>3 DEF ContinueInv, ContinuedOnceUnlessRaced
  <2>6. \A p \in continued' : utype'[Job[p]] = "DEFAULT" /\ pc'[p] \notin {"idle", "begin"}
    BY <2>1, <2>2, <2>4 DEF ContinueInv
  <2>7. \A p \in continued', q \in Put :
          pc'[q] = "begin" /\ Job[p] = Job[q] => Job[p] \in raced'
    BY <2>1, <2>2, <2>3, <2>4 DEF ContinueInv
  <2>8. \A p, q \in Put :
          pc'[p] = "begin" /\ pc'[q] = "begin" /\ Job[p] = Job[q]
            => p = q \/ Job[p] \in raced'
    BY <2>1, <2>3, <2>4 DEF ContinueInv
  <2> QED BY <2>5, <2>6, <2>7, <2>8 DEF ContinueInv
<1>5. ASSUME NEW h \in Handler, BeginDownload(h)
      PROVE  ContinueInv'
  <2>1. /\ pc[h] = "begin" /\ raced' = raced
        /\ utype' = [utype EXCEPT ![Job[h]] = IF h \in Put THEN "DEFAULT" ELSE @]
        /\ continued' = continued \cup ({h} \cap Put)
        /\ pc' = [pc EXCEPT ![h] = "download"] /\ h \in DOMAIN pc
    BY <1>5 DEF BeginDownload, Goto, TypeOK
  <2>2. continued \subseteq Put /\ \A t \in Task : t \in DOMAIN utype
    BY DEF TypeOK
  <2>3. ContinuedOnceUnlessRaced'
    BY <2>1, <2>2 DEF ContinueInv, ContinuedOnceUnlessRaced
  <2>4. ASSUME NEW p \in continued'
        PROVE  utype'[Job[p]] = "DEFAULT" /\ pc'[p] \notin {"idle", "begin"}
    BY <2>1, <2>2, JobType DEF ContinueInv, Handler, TypeOK
  <2>5. \A p \in continued', q \in Put :
          pc'[q] = "begin" /\ Job[p] = Job[q] => Job[p] \in raced'
    BY <2>1, <2>2 DEF ContinueInv
  <2>6. \A p, q \in Put :
          pc'[p] = "begin" /\ pc'[q] = "begin" /\ Job[p] = Job[q]
            => p = q \/ Job[p] \in raced'
    BY <2>1 DEF ContinueInv
  <2> QED BY <2>3, <2>4, <2>5, <2>6 DEF ContinueInv
<1>6. ASSUME NEW t \in Task, CancelUpload(t)
      PROVE  ContinueInv'
  BY <1>1, <1>6 DEF CancelUpload, handlerVars, history
<1>7. CASE Restart
  <2>1. UNCHANGED <<utype, continued, raced>>
    BY <1>7 DEF Restart, history
  <2>2. \A h \in Put : pc'[h] \in {"idle", "begin"} => pc'[h] = pc[h]
    BY <1>7 DEF Restart, Handler
  <2> QED BY <1>1, <2>1, <2>2
<1>8. CASE UNCHANGED vars
  BY <1>1, <1>8 DEF vars, taskVars, handlerVars, history
<1> QED BY <1>2, <1>3, <1>4, <1>5, <1>6, <1>7, <1>8 DEF Next, HandlerStep

(* Two PUTs continue one task only if both stood between the check of        *)
(* upload_type and the commit that sets it back.                             *)
THEOREM Continuations == Spec => []ContinuedOnceUnlessRaced
<1>1. Init => ContinueInv
  BY DEF Init, ContinueInv, ContinuedOnceUnlessRaced, Handler
<1>2. TypeOK /\ ContinueInv /\ [Next]_vars => ContinueInv'
  BY ContinueInvStep
<1>3. ContinueInv => ContinuedOnceUnlessRaced
  BY DEF ContinueInv
<1> QED BY <1>1, <1>2, <1>3, TypeCorrect, PTL DEF Spec
=============================================================================
