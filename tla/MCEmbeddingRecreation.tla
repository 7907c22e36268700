----------------------- MODULE MCEmbeddingRecreation ------------------------
(* Two embeddings and one loop; or one embedding of an external platform     *)
(* (the other is deleted already) and two loops that may overlap; or one     *)
(* embedding and one edit of the record, with a loop or with an import and a *)
(* restart; or two edits and no embedding, the second of any attribute or of *)
(* an element of a list.                                                     *)
EXTENDS RecordEdit

CONSTANTS e1, e2, l1, l2, d1, d2, d3, text, list

MCTwo == {e1, e2}
MCExternal == {e1}
MCLoops == {l1, l2}
MCEdits == {d1, d2, d3}
MCAttributes == {text, list}
MCTexts == {text}
MCSubKeyed == {d3}
MCEmbeds == [e \in MCTwo |-> text]

Deleted(there) == {i \in Id : i[2] = 0 /\ i[1] \notin there}
Begin(there, loops, edits) ==
  /\ estate = [i \in Id |-> IF i \in Deleted(there) THEN "GONE"
                            ELSE IF i[2] = 0 THEN "FINISHED" ELSE "NONE"]
  /\ agreed = MCExternal \X {0}
  /\ pc = [l \in Loop |-> IF l \in loops THEN "idle" ELSE "done"]
  /\ requested = {} /\ jobs = {}
  /\ todo = [l \in Loop |-> {}]
  /\ old = [l \in Loop |-> NoId] /\ new = [l \in Loop |-> NoId]
  /\ overlapped = FALSE /\ EditInit
  /\ at = [e \in Edit |-> IF e \in edits THEN "idle" ELSE "done"]
  /\ attribute = [e \in Edit |-> IF e \in SubKeyed THEN list ELSE text]
MCInit ==
  \/ /\ Begin(MCTwo, {l1}, {}) \/ Begin(MCExternal, MCLoops, {})
     /\ faults = 0 /\ crashes = 0 /\ imports = MaxImports /\ docbin = data
  \/ Begin({e2}, {l1}, {d1}) /\ faults = 0 /\ crashes = MaxCrashes /\ imports = MaxImports
  \/ Begin({e2}, {}, {d1}) /\ faults = 0 /\ crashes = 0 /\ imports = 0
  \/ (Begin({}, {}, {d1, d2}) \/ Begin({}, {}, {d1, d3})) /\ faults = 0 /\ crashes = MaxCrashes /\ imports = MaxImports
MCSpec == MCInit /\ [][EditNext]_allVars /\ Fairness /\ EditFairness
=============================================================================
