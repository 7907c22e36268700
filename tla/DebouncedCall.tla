---------------------------- MODULE DebouncedCall ----------------------------
(***************************************************************************)
(* What `util/decorator.py` promises about a debounced function: calls may *)
(* be collapsed, but whoever calls is followed by a run of the function,   *)
(* and one run serves everybody who has called before it began.            *)
(***************************************************************************)
CONSTANT Calls

VARIABLES
  called,   \* calls made since the process was started
  served    \* calls that were made before some run of the function began

vars == <<called, served>>

Init == called = {} /\ served = {}

Call(c) == c \notin called /\ called' = called \union {c} /\ UNCHANGED served

Run == served # called /\ served' = called /\ UNCHANGED called

\* The process ends: calls that no run has served are forgotten.
Restart == called' = served /\ UNCHANGED served

Next == Run \/ Restart \/ \E c \in Calls : Call(c)

Spec == Init /\ [][Next]_vars

FairSpec == Spec /\ WF_vars(Run)
=============================================================================
