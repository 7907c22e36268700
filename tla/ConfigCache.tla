---------------------------- MODULE ConfigCache ----------------------------
(***************************************************************************)
(* The configuration of the platform as the gateway caches it              *)
(* (controller/misc/config_service.py), and the request that changes it    *)
(* (update_config of fast_api/routes/organization.py).  Requests run in a  *)
(* thread pool and share one module variable without a lock.  Every        *)
(* refresh starts a timer that empties the cache an hour later.            *)
(*                                                                         *)
(* A configuration is the number of changes made to it.                    *)
(***************************************************************************)
EXTENDS Integers

CONSTANTS PoolThreads,     \* threads of the pool: each serves one request after the other
          MaxConfigFaults, \* calls of the configuration service that fail
          MaxChanges,      \* changes of the configuration
          MaxTimers        \* timers with which another request still begins

ASSUME ConfigAssumption == MaxConfigFaults \in Nat /\ MaxChanges \in Nat /\ MaxTimers \in Nat

VARIABLES
  current,   \* what the configuration service has
  cache,     \* __config
  timers,    \* threads that sleep in invalidate_after
  step,      \* place of each request
  changing,  \* requests that have changed the configuration
  fetched,   \* response each request got
  answer,    \* what __get_config returned to it
  configFaults,
  published, \* history: the newest configuration an update has refreshed to
  due,       \* history: published when the request began
  emptied,   \* history: requests during which a timer ran
  crossed    \* history: two refreshes had a response to store at a time

requestVars == <<step, changing, fetched, answer>>
configVars == <<current, cache, timers, requestVars, configFaults, published, due, emptied, crossed>>

None == -1
Ended == {"done", "failed"}
UnderWay == {r \in PoolThreads : step[r] \notin Ended}

ConfigInit ==
  /\ current = 0 /\ cache = None /\ timers = 0
  /\ step = [r \in PoolThreads |-> "done"] /\ changing = {}
  /\ fetched = [r \in PoolThreads |-> None] /\ answer = fetched
  /\ configFaults = 0
  /\ published = 0 /\ due = [r \in PoolThreads |-> 0] /\ emptied = {} /\ crossed = FALSE

Config == 0..MaxChanges
Step == Ended \cup {"fetch", "store", "arm", "return", "change"}
ConfigTypeOK ==
  /\ current \in Config /\ cache \in Config \cup {None} /\ timers \in Nat
  /\ step \in [PoolThreads -> Step] /\ changing \subseteq PoolThreads
  /\ fetched \in [PoolThreads -> Config \cup {None}] /\ answer \in [PoolThreads -> Config \cup {None}]
  /\ configFaults \in 0..MaxConfigFaults
  /\ published \in Config /\ due \in [PoolThreads -> Config]
  /\ emptied \subseteq PoolThreads /\ crossed \in BOOLEAN
  /\ \A r \in PoolThreads : step[r] \in {"store", "arm"} => fetched[r] \in Config

-----------------------------------------------------------------------------
To(r, place) == step' = [step EXCEPT ![r] = place]

\* A request begins with a look at the cache.
get_config(r) ==
  /\ step[r] \in Ended /\ timers <= MaxTimers
  /\ To(r, IF cache = None THEN "fetch" ELSE "return")
  /\ answer' = [answer EXCEPT ![r] = None] /\ due' = [due EXCEPT ![r] = published]
  /\ changing' = changing \ {r} /\ emptied' = emptied \ {r}
  /\ UNCHANGED <<current, cache, timers, fetched, configFaults, published, crossed>>

\* refresh_config: the call, the assignment, the timer.
Fetch(r) ==
  /\ step[r] = "fetch"
  /\ fetched' = [fetched EXCEPT ![r] = current]
  /\ To(r, "store")
  /\ crossed' = (crossed \/ \E h \in PoolThreads : step[h] = "store")
  /\ UNCHANGED <<current, cache, timers, changing, answer, configFaults, published, due, emptied>>
Store(r) ==
  /\ step[r] = "store"
  /\ cache' = fetched[r]
  /\ To(r, "arm")
  /\ UNCHANGED <<current, timers, changing, fetched, answer, configFaults, published, due, emptied, crossed>>
Newer(a, b) == IF a > b THEN a ELSE b
\* Mutant: a refresh after a change relies on the timer of an earlier one.
StartInvalidation_first_only(r) ==
  /\ step[r] = "arm"
  /\ timers' = IF r \in changing THEN timers ELSE timers + 1
  /\ To(r, IF r \in changing THEN "done" ELSE "return")
  /\ published' = IF r \in changing THEN Newer(fetched[r], published) ELSE published
  /\ fetched' = [fetched EXCEPT ![r] = None]
  /\ UNCHANGED <<current, cache, changing, answer, configFaults, due, emptied, crossed>>
StartInvalidation(r) ==
  /\ step[r] = "arm"
  /\ timers' = timers + 1
  /\ To(r, IF r \in changing THEN "done" ELSE "return")
  /\ published' = IF r \in changing THEN Newer(fetched[r], published) ELSE published
  /\ fetched' = [fetched EXCEPT ![r] = None]
  /\ UNCHANGED <<current, cache, changing, answer, configFaults, due, emptied, crossed>>

\* __get_config reads the variable once more; get_config_value cannot look up a key
\* in None.  The request of update_config goes on to the change.
Return(r) ==
  /\ step[r] = "return"
  /\ answer' = [answer EXCEPT ![r] = cache]
  /\ IF cache = None THEN To(r, "failed")
     ELSE To(r, "done") \/ (current < MaxChanges /\ To(r, "change"))
  /\ UNCHANGED <<current, cache, timers, changing, fetched, configFaults, published, due, emptied, crossed>>

change_config(r) ==
  /\ step[r] = "change" /\ current < MaxChanges
  /\ current' = current + 1 /\ changing' = changing \cup {r}
  /\ To(r, "fetch")
  /\ UNCHANGED <<cache, timers, fetched, answer, configFaults, published, due, emptied, crossed>>

\* Neither call is caught: after a change the cache stays as it was.
ServiceFails(r) ==
  /\ step[r] \in {"fetch", "change"}
  /\ configFaults < MaxConfigFaults /\ configFaults' = configFaults + 1
  /\ To(r, "failed")
  /\ UNCHANGED <<current, cache, timers, changing, fetched, answer, published, due, emptied, crossed>>

invalidate_after ==
  /\ timers > 0 /\ timers' = timers - 1
  /\ cache' = None
  /\ emptied' = emptied \cup UnderWay
  /\ UNCHANGED <<current, requestVars, configFaults, published, due, crossed>>

RequestActs(r) ==
  Fetch(r) \/ Store(r) \/ StartInvalidation(r) \/ Return(r) \/ change_config(r)
ConfigNext == invalidate_after \/ \E r \in PoolThreads : get_config(r) \/ RequestActs(r) \/ ServiceFails(r)

\* Threads run on and an hour ends; requests come or not.
ConfigFairness == WF_configVars(invalidate_after) /\ \A r \in PoolThreads : WF_configVars(RequestActs(r))

-----------------------------------------------------------------------------
\* A request that begins after an update has ended works with what the update has
\* refreshed to or something newer, unless two refreshes crossed; it finds no
\* configuration at all only if a timer ran meanwhile.
UpdatesAreSeen ==
  \A r \in PoolThreads :
    /\ answer[r] # None => answer[r] >= due[r] \/ crossed
    /\ answer[r] = None /\ step[r] = "failed" => r \in emptied \/ configFaults > 0

\* Whatever is cached has a timer that will empty it, or a thread about to start
\* one: an old configuration, however it got there, goes by itself.
CachedHasTimer == cache # None => timers > 0 \/ \E r \in PoolThreads : step[r] = "arm"

\* So does every request get what updates have made of the configuration, and in
\* the end nothing else is cached.
ConfigFollows == []UpdatesAreSeen /\ <>[](cache \in {None, current})
=============================================================================
