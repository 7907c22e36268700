-------------------------- MODULE BackgroundProofs --------------------------
(***************************************************************************)
(* What goes on beside every request: the log of the requests, for any     *)
(* gateways, entries and files, and the configuration that is cached, for  *)
(* any threads.  The two share nothing.                                    *)
(***************************************************************************)
EXTENDS RequestLog, ConfigCache, TLAPS

\* The request log without fairness.
LogSpec == LogInit /\ [][LogNext]_logVars

(* Every variable keeps its type, and a thread past the choice of a file has one. *)
THEOREM LogTypes == LogSpec => []LogTypeOK
<1> USE LogAssumption DEF LogTypeOK, ThreadPlaces, AtWork, GoOn, EndBatch
<1>1. LogInit => LogTypeOK
  <2> SUFFICES ASSUME LogInit PROVE LogTypeOK
    OBVIOUS
  <2>1. DOMAIN contents = {} /\ contents \in [DOMAIN contents -> SUBSET Entries]
    BY DEF LogInit
  <2>2. /\ queue \in [Gateways -> SUBSET Entries] /\ batch \in [Gateways -> SUBSET Entries]
        /\ place \in [Gateways -> ThreadPlaces] /\ file \in [Gateways -> Paths \cup {"none"}]
        /\ \A g \in Gateways : place[g] = "sleep"
    BY DEF LogInit
  <2>3. 0 \in 0..MaxLogFaults /\ 0 \in 0..MaxLogStops
    OBVIOUS
  <2> QED BY <2>1, <2>2, <2>3 DEF LogInit
<1>2. LogTypeOK /\ [LogNext]_logVars => LogTypeOK'
  <2> SUFFICES ASSUME LogTypeOK, [LogNext]_logVars PROVE LogTypeOK'
    OBVIOUS
  <2>1. ASSUME NEW g \in Gateways, NEW e \in Entries, add_to_persist_queue(g, e) PROVE LogTypeOK'
    BY <2>1 DEF add_to_persist_queue, diskVars
  <2>2. ASSUME NEW g \in Gateways, persist_log_loop(g) PROVE LogTypeOK'
    BY <2>2 DEF persist_log_loop, diskVars
  <2>3. ASSUME NEW g \in Gateways, NextFile(g) PROVE LogTypeOK'
    <3>1. PICK e \in batch[g] : /\ file' = [file EXCEPT ![g] = LogPath[e]]
                                /\ place' \in {[place EXCEPT ![g] = "look"], [place EXCEPT ![g] = "makedirs"]}
                                /\ met' \in BOOLEAN
      BY <2>3 DEF NextFile, GoToWork
    <3>2. LogPath[e] \in Paths
      BY <3>1 DEF Paths
    <3> QED BY <2>3, <3>1, <3>2 DEF NextFile, diskVars
  <2>4. ASSUME NEW g \in Gateways, BatchEnds(g) PROVE LogTypeOK'
    BY <2>4 DEF BatchEnds, diskVars
  <2>5. ASSUME NEW g \in Gateways, makedirs(g) PROVE LogTypeOK'
    BY <2>5 DEF makedirs
  <2>6. ASSUME NEW g \in Gateways, LookForLock(g) PROVE LogTypeOK'
    BY <2>6 DEF LookForLock, GoToWork, diskVars
  <2>7. ASSUME NEW g \in Gateways, LockNotAcquired(g) PROVE LogTypeOK'
    BY <2>7 DEF LockNotAcquired, diskVars
  <2>8. ASSUME NEW g \in Gateways, CreateLock(g) PROVE LogTypeOK'
    BY <2>8 DEF CreateLock
  <2>17. ASSUME NEW g \in Gateways, LockRaises(g) PROVE LogTypeOK'
    BY <2>17 DEF LockRaises, diskVars
  <2>9. ASSUME NEW g \in Gateways, OpenFile(g) PROVE LogTypeOK'
    BY <2>9 DEF OpenFile, diskVars
  <2>10. ASSUME NEW g \in Gateways, NEW S \in SUBSET OfFile(g), place[g] \in {"new", "append"}, contents' = With(g, S)
         PROVE  DOMAIN contents' \subseteq Paths /\ contents' \in [DOMAIN contents' -> SUBSET Entries]
    BY <2>10 DEF With, OfFile
  <2>11. ASSUME NEW g \in Gateways, write_log_entries(g) PROVE LogTypeOK'
    <3>1. DOMAIN contents' \subseteq Paths /\ contents' \in [DOMAIN contents' -> SUBSET Entries]
      BY <2>11, <2>10 DEF write_log_entries
    <3> QED BY <2>11, <3>1 DEF write_log_entries
  <2>12. ASSUME NEW g \in Gateways, PartlyWritten(g)
         PROVE  DOMAIN contents' \subseteq Paths /\ contents' \in [DOMAIN contents' -> SUBSET Entries]
    BY <2>12, <2>10 DEF PartlyWritten
  <2>13. ASSUME NEW g \in Gateways, WriteRaises(g) PROVE LogTypeOK'
    <3>1. DOMAIN contents' \subseteq Paths /\ contents' \in [DOMAIN contents' -> SUBSET Entries]
      BY <2>13, <2>12 DEF WriteRaises
    <3> QED BY <2>13, <3>1 DEF WriteRaises
  <2>14. ASSUME NEW g \in Gateways, RemoveLock(g) PROVE LogTypeOK'
    BY <2>14 DEF RemoveLock
  <2>15. ASSUME NEW g \in Gateways, StopGateway(g) PROVE LogTypeOK'
    <3>1. DOMAIN contents' \subseteq Paths /\ contents' \in [DOMAIN contents' -> SUBSET Entries]
      BY <2>15, <2>12 DEF StopGateway
    <3> QED BY <2>15, <3>1 DEF StopGateway
  <2>16. CASE UNCHANGED logVars
    BY <2>16 DEF logVars, threadVars, diskVars
  <2> QED
    BY <2>1, <2>2, <2>3, <2>4, <2>5, <2>6, <2>7, <2>8, <2>9, <2>11, <2>13, <2>14, <2>15, <2>16, <2>17
    DEF LogNext, Persist
<1> QED BY <1>1, <1>2, PTL DEF LogSpec
-----------------------------------------------------------------------------
(* Until two threads meet, whoever is at work on a file is alone there, a file
   about to be made does not exist, and every lock has its holder unless a stop
   left it.  A thread that sleeps holds nothing.                             *)
Holding == {"open", "new", "append", "remove"}
Alone ==
  \A g, h \in Gateways : place[g] \in AtWork /\ place[h] \in AtWork /\ file[g] = file[h] => g = h
Fresh == \A g \in Gateways : place[g] = "new" => file[g] \notin DOMAIN contents
Held == \A p \in locks : \E h \in Gateways : file[h] = p /\ place[h] \in Holding
Rested == \A g \in Gateways : place[g] = "sleep" => batch[g] = {}
LockInv == (met \/ (Alone /\ Fresh)) /\ (met \/ logStops > 0 \/ Held) /\ Rested

\* A thread that takes a file nobody is at work on is alone there.
LEMMA TakesAlone ==
  ASSUME LogTypeOK, Alone, NEW g \in Gateways, NEW p, NEW to,
         file' = [file EXCEPT ![g] = p], place' = [place EXCEPT ![g] = to],
         Others(g, p) = {}
  PROVE  Alone'
<1>1. \A h \in Gateways \ {g} : file[h] = p => place[h] \notin AtWork
  BY DEF Others
<1>2. \A h \in Gateways \ {g} : file'[h] = file[h] /\ place'[h] = place[h]
  BY DEF LogTypeOK
<1>3. file'[g] = p
  BY DEF LogTypeOK
<1> QED BY <1>1, <1>2, <1>3 DEF Alone

LEMMA Locks == LogSpec => []LockInv
<1> USE LogAssumption DEF LogTypeOK, LockInv, ThreadPlaces, AtWork, Holding, GoOn, EndBatch
<1>1. LogInit => LockInv
  BY DEF LogInit, Alone, Fresh, Held, Rested
<1>2. LogTypeOK /\ LockInv /\ [LogNext]_logVars => LockInv'
  <2> SUFFICES ASSUME LogTypeOK, LockInv, [LogNext]_logVars PROVE LockInv'
    OBVIOUS
  <2>1. ASSUME NEW g \in Gateways, NEW e \in Entries, add_to_persist_queue(g, e) PROVE LockInv'
    BY <2>1 DEF add_to_persist_queue, diskVars, Alone, Fresh, Held, Rested
  <2>2. ASSUME NEW g \in Gateways, persist_log_loop(g) \/ BatchEnds(g) PROVE LockInv'
    BY <2>2 DEF persist_log_loop, BatchEnds, diskVars, Alone, Fresh, Held, Rested
  <2>3. ASSUME NEW g \in Gateways, NextFile(g) PROVE LockInv'
    <3>1. PICK e \in batch[g] :
            /\ file' = [file EXCEPT ![g] = LogPath[e]]
            /\ \/ place' = [place EXCEPT ![g] = "look"] /\ met' = met
               \/ place' = [place EXCEPT ![g] = "makedirs"] /\ met' = (met \/ Others(g, LogPath[e]) # {})
      BY <2>3 DEF NextFile, GoToWork
    <3>2. CASE place' = [place EXCEPT ![g] = "look"]
      BY <2>3, <3>1, <3>2 DEF NextFile, diskVars, Alone, Fresh, Held, Rested
    <3>3. CASE place' = [place EXCEPT ![g] = "makedirs"] /\ met' = (met \/ Others(g, LogPath[e]) # {})
      <4>1. met' \/ Alone'
        BY <3>1, <3>3, TakesAlone
      <4>2. met \/ Fresh'
        BY <2>3, <3>1, <3>3 DEF NextFile, diskVars, Fresh
      <4>3. met' \/ logStops' > 0 \/ Held'
        BY <2>3, <3>1, <3>3 DEF NextFile, diskVars, Held
      <4>4. Rested'
        BY <2>3, <3>1, <3>3 DEF NextFile, Rested
      <4> QED BY <3>3, <4>1, <4>2, <4>3, <4>4
    <3> QED BY <3>1, <3>2, <3>3
  <2>4. ASSUME NEW g \in Gateways, makedirs(g) PROVE LockInv'
    BY <2>4 DEF makedirs, Alone, Fresh, Held, Rested
  <2>5. ASSUME NEW g \in Gateways, LookForLock(g) PROVE LockInv'
    <3>1. CASE file[g] \in locks
      BY <2>5, <3>1 DEF LookForLock, diskVars, Alone, Fresh, Held, Rested
    <3>2. CASE file[g] \notin locks
      <4>1. /\ place' = [place EXCEPT ![g] = "create"] /\ file' = [file EXCEPT ![g] = file[g]]
            /\ met' = (met \/ Others(g, file[g]) # {})
            /\ UNCHANGED <<batch, locks, contents, logStops>>
        BY <2>5, <3>2 DEF LookForLock, GoToWork, diskVars
      <4>2. met' \/ Alone'
        BY <4>1, TakesAlone
      <4>3. met \/ Fresh'
        BY <2>5, <4>1 DEF LookForLock, Fresh
      <4>4. met' \/ logStops' > 0 \/ Held'
        BY <2>5, <4>1 DEF LookForLock, Held
      <4>5. Rested'
        BY <4>1 DEF Rested
      <4> QED BY <4>1, <4>2, <4>3, <4>4, <4>5
    <3> QED BY <3>1, <3>2
  <2>6. ASSUME NEW g \in Gateways, LockNotAcquired(g) PROVE LockInv'
    BY <2>6 DEF LockNotAcquired, diskVars, Alone, Fresh, Held, Rested
  <2>7. ASSUME NEW g \in Gateways, CreateLock(g) PROVE LockInv'
    BY <2>7 DEF CreateLock, Alone, Fresh, Held, Rested
  <2>14. ASSUME NEW g \in Gateways, LockRaises(g) PROVE LockInv'
    BY <2>14 DEF LockRaises, diskVars, Alone, Fresh, Held, Rested
  <2>8. ASSUME NEW g \in Gateways, OpenFile(g) PROVE LockInv'
    BY <2>8 DEF OpenFile, diskVars, Alone, Fresh, Held, Rested
  <2>9. ASSUME NEW g \in Gateways, PartlyWritten(g) \/ contents' = With(g, OfFile(g))
        PROVE  \A p \in DOMAIN contents' : p \in DOMAIN contents \/ p = file[g]
    BY <2>9 DEF PartlyWritten, With
  <2>10. ASSUME NEW g \in Gateways, write_log_entries(g) \/ WriteRaises(g) PROVE LockInv'
    <3>1. /\ place[g] \in {"new", "append"} /\ place' = [place EXCEPT ![g] = "remove"]
          /\ UNCHANGED <<file, locks, logStops, met>>
          /\ \A h \in Gateways : h # g => batch'[h] = batch[h]
      BY <2>10 DEF write_log_entries, WriteRaises
    <3>2. \A p \in DOMAIN contents' : p \in DOMAIN contents \/ p = file[g]
      BY <2>9, <2>10 DEF write_log_entries, WriteRaises
    <3>3. met' \/ (Alone' /\ Fresh')
      BY <3>1, <3>2 DEF Alone, Fresh
    <3>4. met' \/ logStops' > 0 \/ Held'
      BY <3>1 DEF Held
    <3>5. Rested'
      BY <3>1 DEF Rested
    <3> QED BY <3>3, <3>4, <3>5
  <2>11. ASSUME NEW g \in Gateways, RemoveLock(g) PROVE LockInv'
    <3>1. /\ place[g] = "remove" /\ locks' = locks \ {file[g]}
          /\ UNCHANGED <<file, contents, logStops, met>>
          /\ \/ place' = [place EXCEPT ![g] = "next"] /\ batch' = batch
             \/ place' = [place EXCEPT ![g] = "sleep"] /\ batch' = [batch EXCEPT ![g] = {}]
      BY <2>11 DEF RemoveLock
    <3>2. met' \/ (Alone' /\ Fresh')
      BY <3>1 DEF Alone, Fresh
    <3>3. met' \/ logStops' > 0 \/ Held'
      BY <3>1 DEF Held
    <3>4. Rested'
      BY <3>1 DEF Rested
    <3> QED BY <3>2, <3>3, <3>4
  <2>12. ASSUME NEW g \in Gateways, StopGateway(g) PROVE LockInv'
    <3>1. /\ place' = [place EXCEPT ![g] = "sleep"] /\ batch' = [batch EXCEPT ![g] = {}]
          /\ UNCHANGED <<file, met>> /\ logStops' > 0
      BY <2>12 DEF StopGateway
    <3>2. \A p \in DOMAIN contents' : p \in DOMAIN contents \/ (p = file[g] /\ place[g] \in {"new", "append"})
      BY <2>9, <2>12 DEF StopGateway, PartlyWritten
    <3>3. met' \/ (Alone' /\ Fresh')
      BY <3>1, <3>2 DEF Alone, Fresh
    <3>4. Rested'
      BY <3>1 DEF Rested
    <3> QED BY <3>1, <3>3, <3>4
  <2>13. CASE UNCHANGED logVars
    BY <2>13 DEF logVars, threadVars, diskVars, Alone, Fresh, Held, Rested
  <2> QED
    BY <2>1, <2>2, <2>3, <2>4, <2>5, <2>6, <2>7, <2>8, <2>10, <2>11, <2>12, <2>13, <2>14
    DEF LogNext, Persist
<1> QED BY <1>1, <1>2, LogTypes, PTL DEF LogSpec
-----------------------------------------------------------------------------
(* Where an entry may be.                                                    *)
Kept(e) == \/ \E g \in Gateways : e \in queue[g] \cup batch[g]
           \/ InFile(e) \/ e \in dropped \/ met

\* What was written stays, but what a second thread empties.
LEMMA FilesGrow ==
  ASSUME LogTypeOK, LockInv, ~met, NEW g \in Gateways, place[g] \in {"new", "append"},
         NEW S \in SUBSET OfFile(g), contents' = With(g, S), NEW e \in Entries
  PROVE  /\ InFile(e) => InFile(e)'
         /\ e \in S => InFile(e)'
<1>1. file[g] \in DOMAIN contents => place[g] = "append"
  BY DEF LockInv, Fresh
<1>2. e \in S => LogPath[e] = file[g]
  BY DEF OfFile
<1> QED BY <1>1, <1>2 DEF InFile, With

\* A batch that ends early without a reason would need a lock nobody holds.
LEMMA ReasonToEnd ==
  ASSUME LogTypeOK, LockInv, ~met, NEW g \in Gateways, LockNotAcquired(g)
  PROVE  dropped' = dropped \cup batch[g]
<1>1. SUFFICES ASSUME file[g] \in locks, ~(logStops > 0)
               PROVE  Others(g, file[g]) # {}
  BY DEF LockNotAcquired
<1>2. PICK h \in Gateways : file[h] = file[g] /\ place[h] \in Holding
  BY <1>1 DEF LockInv, Held
<1>3. h # g
  BY <1>2 DEF LockNotAcquired, Holding
<1> QED BY <1>2, <1>3 DEF Others, Holding, AtWork

(* No entry is lost but for the reasons of EntriesAccounted.                 *)
THEOREM NothingLost == LogSpec => []EntriesAccounted
<1> USE DEF LogTypeOK, EndBatch, GoOn
<1>1. LogInit => EntriesAccounted
  BY DEF LogInit, EntriesAccounted
<1>2. LogTypeOK /\ LockInv /\ EntriesAccounted /\ [LogNext]_logVars => EntriesAccounted'
  <2> SUFFICES ASSUME LogTypeOK, LockInv, EntriesAccounted, [LogNext]_logVars, NEW x \in accepted'
               PROVE  Kept(x)'
    BY DEF EntriesAccounted, Kept
  <2>1. x \in accepted => Kept(x)
    BY DEF EntriesAccounted, Kept
  <2>2. ASSUME NEW g \in Gateways, NEW e \in Entries, add_to_persist_queue(g, e) PROVE Kept(x)'
    BY <2>1, <2>2 DEF add_to_persist_queue, diskVars, Kept, InFile
  <2>3. ASSUME NEW g \in Gateways, persist_log_loop(g) PROVE Kept(x)'
    <3>1. batch[g] = {}
      BY <2>3 DEF persist_log_loop, LockInv, Rested
    <3> QED BY <2>1, <2>3, <3>1 DEF persist_log_loop, diskVars, Kept, InFile
  <2>4. ASSUME NEW g \in Gateways, NextFile(g) \/ BatchEnds(g) \/ LookForLock(g) \/ CreateLock(g) \/ OpenFile(g)
        PROVE  Kept(x)'
    <3>1. UNCHANGED <<queue, batch, contents, accepted, dropped>> /\ (met => met')
      BY <2>4 DEF NextFile, BatchEnds, LookForLock, CreateLock, OpenFile, diskVars, GoToWork
    <3> QED BY <2>1, <3>1 DEF Kept, InFile
  <2>5. ASSUME NEW g \in Gateways, makedirs(g) \/ RemoveLock(g) PROVE Kept(x)'
    <3>1. /\ UNCHANGED <<queue, contents, accepted, met>>
          /\ \/ UNCHANGED <<batch, dropped>>
             \/ batch' = [batch EXCEPT ![g] = {}] /\ dropped' = dropped \cup batch[g]
      BY <2>5 DEF makedirs, RemoveLock
    <3> QED BY <2>1, <3>1 DEF Kept, InFile
  <2>6. ASSUME NEW g \in Gateways, LockNotAcquired(g) PROVE Kept(x)'
    <3>1. CASE met
      BY <2>6, <3>1 DEF LockNotAcquired, Kept
    <3>2. CASE ~met
      <4>1. dropped' = dropped \cup batch[g]
        BY <2>6, <3>2, ReasonToEnd
      <4> QED BY <2>1, <2>6, <4>1 DEF LockNotAcquired, diskVars, Kept, InFile
    <3> QED BY <3>1, <3>2
  <2>7. ASSUME NEW g \in Gateways, write_log_entries(g) PROVE Kept(x)'
    <3>1. CASE met
      BY <2>7, <3>1 DEF write_log_entries, Kept
    <3>2. CASE ~met
      <4>1. x \in accepted /\ x \in Entries
        BY <2>7 DEF write_log_entries
      <4>2. (InFile(x) => InFile(x)') /\ (x \in OfFile(g) => InFile(x)')
        BY <2>7, <3>2, <4>1, FilesGrow DEF write_log_entries
      <4>3. UNCHANGED <<queue, dropped>> /\ batch' = [batch EXCEPT ![g] = @ \ OfFile(g)]
        BY <2>7 DEF write_log_entries
      <4> QED BY <2>1, <3>2, <4>1, <4>2, <4>3 DEF Kept
    <3> QED BY <3>1, <3>2
  <2>10. ASSUME NEW g \in Gateways, LockRaises(g) PROVE Kept(x)'
    BY <2>1, <2>10 DEF LockRaises, diskVars, Kept, InFile
  <2>8. ASSUME NEW g \in Gateways, WriteRaises(g) \/ StopGateway(g) PROVE Kept(x)'
    <3>1. CASE met
      BY <2>8, <3>1 DEF WriteRaises, StopGateway, Kept
    <3>2. CASE ~met
      <4>1. x \in accepted /\ x \in Entries /\ PartlyWritten(g)
        BY <2>8 DEF WriteRaises, StopGateway
      <4>2. InFile(x) => InFile(x)'
        BY <3>2, <4>1, FilesGrow DEF PartlyWritten, InFile
      <4>3. /\ batch' = [batch EXCEPT ![g] = {}] /\ batch[g] \subseteq dropped' /\ dropped \subseteq dropped'
            /\ \/ queue' = queue
               \/ queue' = [queue EXCEPT ![g] = {}] /\ queue[g] \subseteq dropped'
        BY <2>8 DEF WriteRaises, StopGateway
      <4> QED BY <2>1, <3>2, <4>1, <4>2, <4>3 DEF Kept
    <3> QED BY <3>1, <3>2
  <2>9. CASE UNCHANGED logVars
    BY <2>1, <2>9 DEF logVars, threadVars, diskVars, Kept, InFile
  <2> QED BY <2>2, <2>3, <2>4, <2>5, <2>6, <2>7, <2>8, <2>9, <2>10 DEF LogNext, Persist
<1> QED BY <1>1, <1>2, LogTypes, Locks, PTL DEF LogSpec

-----------------------------------------------------------------------------
\* The cached configuration without fairness.
ConfigSpec == ConfigInit /\ [][ConfigNext]_configVars

(* Every variable keeps its type, and a thread that stores has something to store. *)
THEOREM ConfigTypes == ConfigSpec => []ConfigTypeOK
<1> USE ConfigAssumption DEF ConfigTypeOK, Config, Step, Ended, None, To
<1>1. ConfigInit => ConfigTypeOK
  <2> SUFFICES ASSUME ConfigInit PROVE ConfigTypeOK
    OBVIOUS
  <2>1. 0 \in Config /\ 0 \in 0..MaxConfigFaults /\ "done" \in Step
    OBVIOUS
  <2>2. \A r \in PoolThreads : step[r] = "done"
    BY DEF ConfigInit
  <2>3. /\ step \in [PoolThreads -> Step] /\ due \in [PoolThreads -> Config]
        /\ fetched \in [PoolThreads -> Config \cup {None}] /\ answer = fetched
    BY <2>1 DEF ConfigInit
  <2> QED BY <2>1, <2>2, <2>3 DEF ConfigInit
<1>2. ConfigTypeOK /\ [ConfigNext]_configVars => ConfigTypeOK'
  <2> SUFFICES ASSUME ConfigTypeOK, [ConfigNext]_configVars PROVE ConfigTypeOK'
    OBVIOUS
  <2>1. ASSUME NEW r \in PoolThreads, get_config(r) PROVE ConfigTypeOK'
    BY <2>1 DEF get_config
  <2>2. ASSUME NEW r \in PoolThreads, Fetch(r) PROVE ConfigTypeOK'
    BY <2>2 DEF Fetch
  <2>3. ASSUME NEW r \in PoolThreads, Store(r) PROVE ConfigTypeOK'
    BY <2>3 DEF Store
  <2>4. ASSUME NEW r \in PoolThreads, StartInvalidation(r) PROVE ConfigTypeOK'
    <3>1. fetched[r] \in Config /\ published' \in Config
      BY <2>4 DEF StartInvalidation, Newer
    <3> QED BY <2>4, <3>1 DEF StartInvalidation
  <2>5. ASSUME NEW r \in PoolThreads, Return(r) PROVE ConfigTypeOK'
    BY <2>5 DEF Return
  <2>6. ASSUME NEW r \in PoolThreads, change_config(r) PROVE ConfigTypeOK'
    BY <2>6 DEF change_config
  <2>7. ASSUME NEW r \in PoolThreads, ServiceFails(r) PROVE ConfigTypeOK'
    BY <2>7 DEF ServiceFails
  <2>8. CASE invalidate_after
    BY <2>8 DEF invalidate_after, UnderWay, requestVars
  <2>9. CASE UNCHANGED configVars
    BY <2>9 DEF configVars, requestVars
  <2> QED BY <2>1, <2>2, <2>3, <2>4, <2>5, <2>6, <2>7, <2>8, <2>9 DEF ConfigNext, RequestActs
<1> QED BY <1>1, <1>2, PTL DEF ConfigSpec

-----------------------------------------------------------------------------
(* A cached configuration has a timer that will empty it, or a thread about to
   start one: a timer that runs empties the cache as well.                   *)
THEOREM StaleEnds == ConfigSpec => []CachedHasTimer
<1> USE DEF CachedHasTimer, ConfigTypeOK, To
<1>1. ConfigInit => CachedHasTimer
  BY DEF ConfigInit
<1>2. ConfigTypeOK /\ CachedHasTimer /\ [ConfigNext]_configVars => CachedHasTimer'
  <2> SUFFICES ASSUME ConfigTypeOK, CachedHasTimer, [ConfigNext]_configVars PROVE CachedHasTimer'
    OBVIOUS
  <2>1. ASSUME NEW r \in PoolThreads,
               get_config(r) \/ Fetch(r) \/ Return(r) \/ change_config(r) \/ ServiceFails(r)
        PROVE  CachedHasTimer'
    <3>1. step[r] # "arm" /\ UNCHANGED <<cache, timers>>
      BY <2>1 DEF get_config, Fetch, Return, change_config, ServiceFails, Ended
    <3>2. \A h \in PoolThreads : step[h] = "arm" => step'[h] = "arm"
      BY <2>1, <3>1 DEF get_config, Fetch, Return, change_config, ServiceFails
    <3> QED BY <3>1, <3>2
  <2>2. ASSUME NEW r \in PoolThreads, Store(r) PROVE CachedHasTimer'
    BY <2>2 DEF Store
  <2>3. ASSUME NEW r \in PoolThreads, StartInvalidation(r) PROVE CachedHasTimer'
    BY <2>3 DEF StartInvalidation
  <2>4. CASE invalidate_after
    BY <2>4 DEF invalidate_after
  <2>5. CASE UNCHANGED configVars
    BY <2>5 DEF configVars, requestVars
  <2> QED BY <2>1, <2>2, <2>3, <2>4, <2>5 DEF ConfigNext, RequestActs
<1> QED BY <1>1, <1>2, ConfigTypes, PTL DEF ConfigSpec

-----------------------------------------------------------------------------
(* Until two refreshes cross, responses are stored in the order in which they were
   fetched, so nothing older than what was published is cached or about to be. *)
InOrder ==
  /\ cache # None => cache >= published
  /\ \A r \in PoolThreads :
       /\ step[r] = "store" => fetched[r] >= published
       /\ step[r] = "arm" /\ cache # None => cache >= fetched[r]
       /\ due[r] <= published
       /\ answer[r] # None => answer[r] >= due[r]
  /\ \A r, h \in PoolThreads :
       step[h] = "store" => /\ step[r] = "arm" => fetched[h] >= fetched[r]
                            /\ step[r] = "store" => r = h
\* Nothing is newer than what the service has.
NothingAhead ==
  /\ published <= current
  /\ cache # None => cache <= current
  /\ \A r \in PoolThreads : step[r] \in {"store", "arm"} => fetched[r] <= current
\* A thread that is about to return finds a configuration unless a timer has run.
Found ==
  \A r \in PoolThreads :
    /\ step[r] \in {"arm", "return"} => cache # None \/ r \in emptied
    /\ step[r] = "failed" /\ answer[r] = None => r \in emptied \/ configFaults > 0
SeenInv == NothingAhead /\ (crossed \/ InOrder) /\ Found

(* A request sees what an update before it has published unless two refreshes
   crossed, and finds nothing only if a timer ran meanwhile (or its call failed). *)
THEOREM UpdatesSeen == ConfigSpec => []UpdatesAreSeen
<1> USE DEF ConfigTypeOK, Config, To, None
<1>1. ConfigInit => SeenInv
  BY ConfigAssumption DEF ConfigInit, SeenInv, NothingAhead, InOrder, Found
<1>2. ConfigTypeOK /\ SeenInv /\ [ConfigNext]_configVars => SeenInv'
  <2> SUFFICES ASSUME ConfigTypeOK, SeenInv, [ConfigNext]_configVars PROVE SeenInv'
    OBVIOUS
  <2>1. ASSUME NEW r \in PoolThreads, get_config(r) PROVE SeenInv'
    <3>1. NothingAhead'
      BY <2>1 DEF get_config, SeenInv, NothingAhead
    <3>2. crossed' \/ InOrder'
      BY <2>1 DEF get_config, SeenInv, InOrder
    <3>3. Found'
      BY <2>1 DEF get_config, SeenInv, Found
    <3> QED BY <3>1, <3>2, <3>3 DEF SeenInv
  <2>2. ASSUME NEW r \in PoolThreads, Fetch(r) PROVE SeenInv'
    <3>1. NothingAhead'
      BY <2>2 DEF Fetch, SeenInv, NothingAhead
    <3>2. crossed' \/ InOrder'
      BY <2>2 DEF Fetch, SeenInv, InOrder, NothingAhead
    <3>3. Found'
      BY <2>2 DEF Fetch, SeenInv, Found
    <3> QED BY <3>1, <3>2, <3>3 DEF SeenInv
  <2>3. ASSUME NEW r \in PoolThreads, Store(r) PROVE SeenInv'
    <3>1. NothingAhead'
      BY <2>3 DEF Store, SeenInv, NothingAhead
    <3>2. crossed' \/ InOrder'
      BY <2>3 DEF Store, SeenInv, InOrder
    <3>3. Found'
      BY <2>3 DEF Store, SeenInv, Found
    <3> QED BY <3>1, <3>2, <3>3 DEF SeenInv
  <2>4. ASSUME NEW r \in PoolThreads, StartInvalidation(r) PROVE SeenInv'
    <3>0. published' >= published /\ (published' = published \/ published' = fetched[r])
      BY <2>4 DEF StartInvalidation, Newer
    <3>1. NothingAhead'
      BY <2>4, <3>0 DEF StartInvalidation, SeenInv, NothingAhead
    <3>2. crossed' \/ InOrder'
      BY <2>4, <3>0 DEF StartInvalidation, SeenInv, InOrder
    <3>3. Found'
      BY <2>4 DEF StartInvalidation, SeenInv, Found
    <3> QED BY <3>1, <3>2, <3>3 DEF SeenInv
  <2>5. ASSUME NEW r \in PoolThreads, Return(r) PROVE SeenInv'
    <3>1. NothingAhead'
      BY <2>5 DEF Return, SeenInv, NothingAhead
    <3>2. crossed' \/ InOrder'
      BY <2>5 DEF Return, SeenInv, InOrder
    <3>3. Found'
      BY <2>5 DEF Return, SeenInv, Found
    <3> QED BY <3>1, <3>2, <3>3 DEF SeenInv
  <2>6. ASSUME NEW r \in PoolThreads, change_config(r) PROVE SeenInv'
    <3>1. NothingAhead'
      BY <2>6 DEF change_config, SeenInv, NothingAhead
    <3>2. crossed' \/ InOrder'
      BY <2>6 DEF change_config, SeenInv, InOrder
    <3>3. Found'
      BY <2>6 DEF change_config, SeenInv, Found
    <3> QED BY <3>1, <3>2, <3>3 DEF SeenInv
  <2>7. ASSUME NEW r \in PoolThreads, ServiceFails(r) PROVE SeenInv'
    <3>1. NothingAhead'
      BY <2>7 DEF ServiceFails, SeenInv, NothingAhead
    <3>2. crossed' \/ InOrder'
      BY <2>7 DEF ServiceFails, SeenInv, InOrder
    <3>3. Found'
      BY <2>7 DEF ServiceFails, SeenInv, Found
    <3> QED BY <3>1, <3>2, <3>3 DEF SeenInv
  <2>8. CASE invalidate_after
    BY <2>8 DEF invalidate_after, requestVars, UnderWay, Ended, SeenInv, NothingAhead, InOrder, Found
  <2>9. CASE UNCHANGED configVars
    BY <2>9 DEF configVars, requestVars, SeenInv, NothingAhead, InOrder, Found
  <2> QED BY <2>1, <2>2, <2>3, <2>4, <2>5, <2>6, <2>7, <2>8, <2>9 DEF ConfigNext, RequestActs
<1>3. SeenInv => UpdatesAreSeen
  BY DEF SeenInv, InOrder, Found, UpdatesAreSeen
<1> QED BY <1>1, <1>2, <1>3, ConfigTypes, PTL DEF ConfigSpec
=============================================================================
