------------------------------- MODULE Debounce -------------------------------
(***************************************************************************)
(* The decorator `debounce` of `util/decorator.py` for one function and    *)
(* one set of arguments, that is for one key of the dictionary `caller`.   *)
(* Keys do not touch one another.  Calls come from threads of their own;   *)
(* each makes one `threading.Timer`, which is named after the call.        *)
(*                                                                         *)
(* Looking up the old timer and cancelling it are one step here: what can  *)
(* come between the two is only that the timer fires, and then cancelling  *)
(* it has no more effect than after it fired.                              *)
(***************************************************************************)
EXTENDS FiniteSets

CONSTANTS
  Calls,    \* calls of the decorated function with the same arguments
  NoTimer   \* `caller` holds nothing under the key

ASSUME DebounceAssumption == NoTimer \notin Calls

VARIABLES
  call,      \* where the thread of a call stands
  timer,     \* the timer a call has made; "disarmed" is cancelled before it was started
  entry,     \* what `caller` holds under the key
  called,    \* history: calls made since the process was started
  served,    \* history: calls made before some run of the function began
  raced      \* history: a call met another call or a timer that was firing

debounceVars == <<call, timer, entry, called, served, raced>>

CallPlaces == {"idle", "cancel", "store", "start", "done", "raised", "dead"}
TimerStates == {"none", "made", "disarmed", "waiting", "firing", "running", "over"}

DebounceTypeOK ==
  /\ call \in [Calls -> CallPlaces]
  /\ timer \in [Calls -> TimerStates]
  /\ entry \in Calls \union {NoTimer}
  /\ called \subseteq Calls
  /\ served \subseteq Calls
  /\ raced \in BOOLEAN

DebounceInit ==
  /\ call = [c \in Calls |-> "idle"]
  /\ timer = [c \in Calls |-> "none"]
  /\ entry = NoTimer
  /\ called = {}
  /\ served = {}
  /\ raced = FALSE

\* The function is called; the thread of the call has not done anything yet.
Ask(c) ==
  /\ call[c] = "idle"
  /\ call' = [call EXCEPT ![c] = "cancel"]
  /\ called' = called \union {c}
  /\ UNCHANGED <<timer, entry, served, raced>>

InDebounce == {c \in Calls : call[c] \in {"store", "start"}}
Firing == {x \in Calls : timer[x] = "firing"}

\* Mutant: the old timer is not cancelled.
CancelNothing(c) ==
  /\ call[c] = "cancel"
  /\ call' = [call EXCEPT ![c] = "store"]
  /\ raced' = (raced \/ InDebounce # {} \/ Firing # {})
  /\ UNCHANGED <<timer, entry, called, served>>

\* `caller[key].cancel()`: a timer that was not started yet will end at once,
\* one that has fired is not held up.
CancelOld(c) ==
  /\ call[c] = "cancel"
  /\ call' = [call EXCEPT ![c] = "store"]
  /\ timer' = [x \in Calls |->
       IF x = entry /\ timer[x] = "made" THEN "disarmed"
       ELSE IF x = entry /\ timer[x] = "waiting" THEN "over" ELSE timer[x]]
  /\ raced' = (raced \/ InDebounce # {} \/ Firing # {})
  /\ UNCHANGED <<entry, called, served>>

\* Mutant: a timer is only made if the dictionary holds none, although it was cancelled.
StoreTimerOnce(c) ==
  /\ call[c] = "store"
  /\ call' = [call EXCEPT ![c] = "start"]
  /\ IF entry = NoTimer
       THEN timer' = [timer EXCEPT ![c] = "made"] /\ entry' = c
       ELSE UNCHANGED <<timer, entry>>
  /\ UNCHANGED <<called, served, raced>>

\* `caller[key] = Timer(...)`.
StoreTimer(c) ==
  /\ call[c] = "store"
  /\ call' = [call EXCEPT ![c] = "start"]
  /\ timer' = [timer EXCEPT ![c] = "made"]
  /\ entry' = c
  /\ UNCHANGED <<called, served, raced>>

\* `caller[key].start()` starts what the dictionary holds by now.
StartTimer(c) ==
  /\ call[c] = "start"
  /\ entry # NoTimer
  /\ timer[entry] \in {"made", "disarmed"}
  /\ timer' = [timer EXCEPT ![entry] = IF @ = "made" THEN "waiting" ELSE "over"]
  /\ call' = [call EXCEPT ![c] = "done"]
  /\ UNCHANGED <<entry, called, served, raced>>

\* Nothing under the key raises a KeyError, starting a thread twice a RuntimeError.
StartRaises(c) ==
  /\ call[c] = "start"
  /\ entry # NoTimer => timer[entry] \notin {"made", "disarmed"}
  /\ call' = [call EXCEPT ![c] = "raised"]
  /\ UNCHANGED <<timer, entry, called, served, raced>>

\* The time is over and the timer has found that it was not cancelled.
Fire(x) ==
  /\ timer[x] = "waiting"
  /\ timer' = [timer EXCEPT ![x] = "firing"]
  /\ UNCHANGED <<call, entry, called, served, raced>>

\* `caller.pop(key)` takes out whatever is there.
PopEntry(x) ==
  /\ timer[x] = "firing"
  /\ timer' = [timer EXCEPT ![x] = "running"]
  /\ entry' = NoTimer
  /\ UNCHANGED <<call, called, served, raced>>

\* `fn(...)` begins.  What it raises ends the thread of the timer and no more.
RunFunction(x) ==
  /\ timer[x] = "running"
  /\ timer' = [timer EXCEPT ![x] = "over"]
  /\ served' = called
  /\ UNCHANGED <<call, entry, called, raced>>

CallStep(c) == CancelOld(c) \/ StoreTimer(c) \/ StartTimer(c) \/ StartRaises(c)
TimerStep(x) == Fire(x) \/ PopEntry(x) \/ RunFunction(x)

\* The gateway process ends, and with it the dictionary and all threads.
DebounceRestart ==
  /\ call' = [c \in Calls |-> IF call[c] \in {"cancel", "store", "start"} THEN "dead" ELSE call[c]]
  /\ timer' = [x \in Calls |-> IF timer[x] = "none" THEN "none" ELSE "over"]
  /\ entry' = NoTimer
  /\ called' = served
  /\ UNCHANGED <<served, raced>>

DebounceFairness ==
  \A c \in Calls : WF_debounceVars(CallStep(c)) /\ WF_debounceVars(TimerStep(c))

-----------------------------------------------------------------------------
(* Properties *)

\* A call that no run has followed yet has somebody who will bring one about:
\* a timer that is on its way, a call that is about to make one, or a timer in
\* the dictionary that some call is about to start.  (decorator.py:25-38: the
\* timer that takes out a foreign entry runs the function after that.)
CallsHaveTimer ==
  called # served =>
    \/ \E x \in Calls : timer[x] \in {"waiting", "firing", "running"}
    \/ \E c \in Calls : call[c] \in {"cancel", "store"}
    \/ /\ \E c \in Calls : call[c] = "start"
       /\ entry # NoTimer
       /\ timer[entry] = "made"

\* "if for 5 sec nothing happens for the task the statistics are calculated": a
\* call puts off the run of those before it, so only one timer can be waiting, and
\* no call raises.  Only a call that met another call or a firing timer leaves a
\* timer nobody can cancel, or starts none.
OneTimerUnlessRaced ==
  raced \/ ( /\ \A x, y \in Calls : timer[x] = "waiting" /\ timer[y] = "waiting" => x = y
             /\ \A c \in Calls : call[c] # "raised" )

\* The decorator implements what it promises: every call is followed by a run.
Promise == INSTANCE DebouncedCall WITH Calls <- Calls, called <- called, served <- served
DebounceImplementsPromise == Promise!FairSpec
=============================================================================
