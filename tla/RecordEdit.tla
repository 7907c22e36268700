----------------------------- MODULE RecordEdit -----------------------------
(***************************************************************************)
(* Edits of a record (controller/record/manager.py) beside the recreation  *)
(* of embeddings and the tokenizer.  An edit writes the whole data of the  *)
(* record, removes the labels of the attribute if it is a text, has the    *)
(* record tokenized and embedded again, and writes the old data back when  *)
(* one of the two fails: labels, doc bins and tensors are left as they are *)
(* by then.                                                                *)
(* There is one record, an edit of one of its attributes is a request, and *)
(* the value it writes is named after it.  An edit with a sub key replaces *)
(* one element of a list; that element stands for the attribute then.      *)
(***************************************************************************)
EXTENDS EmbeddingRecreation

CONSTANTS Edit, Attribute,
          Text,        \* the attributes whose data type is TEXT
          SubKeyed,    \* the edits that have a sub key
          Embeds,      \* the attribute of each embedding
          MaxImports,  \* tokenizations that others ask for, at most
          Original, Nothing

ASSUME RecordEditAssumption ==
  /\ Text \subseteq Attribute /\ SubKeyed \subseteq Edit
  /\ Embeds \in [Embedding -> Attribute] /\ MaxImports \in Nat /\ Original \notin Edit

VARIABLES
  data,          \* attribute -> value
  labels,        \* attribute -> the value it was labelled for, if it has a label
  docbin,        \* the data the doc bin and the statistics were made of
  tensors,       \* id of an embedding -> value its tensor was made of
  tokenization,  \* "none" | "queued" | "running" | "again" (running, and one is queued)
  tokenized,     \* what a running tokenization has read
  at, attribute, \* place of each edit, and what it changes
  backup,        \* the data it has read
  rebuilds,      \* the embeddings it found
  answer,
  imports,
  mingled        \* history: "edit", "tokenization" or "recreation" came in between
recordVars == <<data, labels>>
derivedVars == <<docbin, tensors>>
tokenizerVars == <<tokenization, tokenized>>
editVars == <<at, attribute, backup, rebuilds, answer>>
allVars == <<vars, recordVars, derivedVars, tokenizerVars, editVars, imports, mingled>>

Values == Edit \cup {Original}
Records == [Attribute -> Values]
Failed == {"tokenization failed", "embedding failed"}
Editing(e) == at[e] \notin {"idle", "done", "dead"}
is_doc_bin_creation_running_or_queued == tokenization # "none"
\* An embedding that is made, or whose job goes on after it was cancelled.
Recreating == jobs \cup requested # {} \/ \E i \in Id : estate[i] \in Pending

Go(e, place) == at' = [at EXCEPT ![e] = place]
Answered(e, text) == answer' = [answer EXCEPT ![e] = text] /\ Go(e, "done")

-----------------------------------------------------------------------------
(* __check_and_prep_edit_records: records, embeddings, tokenization *)

\* No element of a text can be replaced: Python refuses it.
ReadRecords(e, a) ==
  /\ e \in SubKeyed => a \notin Text
  /\ at[e] = "idle" /\ Go(e, "embeddings")
  /\ attribute' = [attribute EXCEPT ![e] = a] /\ backup' = [backup EXCEPT ![e] = data]
  /\ UNCHANGED <<vars, recordVars, derivedVars, tokenizerVars, rebuilds, answer, imports, mingled>>

RowsOf(e) == {i \in Rows : Embeds[i[1]] = attribute[e]}
ReadEmbeddings(e) ==
  /\ at[e] = "embeddings"
  /\ \/ (\A i \in RowsOf(e) : estate[i] \in Settled) /\ Go(e, "tokenization") /\ UNCHANGED answer
     \/ (\E i \in RowsOf(e) : estate[i] \notin Settled) /\ Answered(e, "refused")
  /\ rebuilds' = [rebuilds EXCEPT ![e] = {i \in RowsOf(e) : estate[i] = "FINISHED"}]
  /\ mingled' = mingled \cup {k \in {"recreation"} : Recreating}
  /\ UNCHANGED <<vars, recordVars, derivedVars, tokenizerVars, attribute, backup, imports>>

\* An edit that waits for its tokenization keeps others out; else they meet.  What
\* was read may also be that of an edit which was undone before the check.
Meets(e) ==
  \/ \E f \in Edit \ {e} : Editing(f) /\ ~(at[f] = "wait" /\ is_doc_bin_creation_running_or_queued)
  \/ backup[e] # data
\* Mutant: tokenizations are not looked for.
ReadNoTokenization(e) ==
  /\ at[e] = "tokenization" /\ Go(e, "write")
  /\ mingled' = mingled \cup {k \in {"edit"} : Meets(e)}
  /\ UNCHANGED <<vars, recordVars, derivedVars, tokenizerVars, attribute, backup, rebuilds, answer, imports>>
ReadTokenization(e) ==
  /\ at[e] = "tokenization"
  /\ \/ /\ ~is_doc_bin_creation_running_or_queued /\ Go(e, "write") /\ UNCHANGED answer
        /\ mingled' = mingled \cup {k \in {"edit"} : Meets(e)}
     \/ is_doc_bin_creation_running_or_queued /\ Answered(e, "refused") /\ UNCHANGED mingled
  /\ UNCHANGED <<vars, recordVars, derivedVars, tokenizerVars, attribute, backup, rebuilds, imports>>

-----------------------------------------------------------------------------
(* edit_records *)

Changed(e) == [backup[e] EXCEPT ![attribute[e]] = e]
WriteData(e) ==
  /\ at[e] = "write" /\ Go(e, "labels")
  /\ data' = Changed(e)
  /\ UNCHANGED <<vars, labels, derivedVars, tokenizerVars, attribute, backup, rebuilds, answer, imports, mingled>>

rla_delete_tuples(e) == {attribute[e]} \cap {a \in Text : e \notin SubKeyed}
RemoveLabels(e) ==
  /\ at[e] = "labels" /\ Go(e, "docbins")
  /\ labels' = [a \in Attribute |-> IF a \in rla_delete_tuples(e) THEN Nothing ELSE labels[a]]
  /\ UNCHANGED <<vars, data, derivedVars, tokenizerVars, attribute, backup, rebuilds, answer, imports, mingled>>

\* Mutant: they are left to the tokenizer, which makes only those that are missing.
DeleteNoDocbins(e) ==
  /\ at[e] = "docbins" /\ Go(e, "request")
  /\ UNCHANGED <<vars, recordVars, derivedVars, tokenizerVars, attribute, backup, rebuilds, answer, imports, mingled>>
DeleteDocbins(e) ==
  /\ at[e] = "docbins" /\ Go(e, "request")
  /\ docbin' = Nothing
  /\ UNCHANGED <<vars, recordVars, tensors, tokenizerVars, attribute, backup, rebuilds, answer, imports, mingled>>

Queue == tokenization' = IF tokenization \in {"none", "queued"} THEN "queued" ELSE "again"
RequestTokenization(e) ==
  /\ at[e] = "request" /\ Go(e, "wait") /\ Queue
  /\ UNCHANGED <<vars, recordVars, derivedVars, tokenized, attribute, backup, rebuilds, answer, imports, mingled>>

\* Mutant: the loop waits until there is a doc bin.
AwaitDocbin(e) ==
  /\ at[e] = "wait" /\ docbin # Nothing /\ Go(e, "embed")
  /\ UNCHANGED <<vars, recordVars, derivedVars, tokenizerVars, attribute, backup, rebuilds, answer, imports, mingled>>
AwaitTokenization(e) ==
  /\ at[e] = "wait" /\ ~is_doc_bin_creation_running_or_queued /\ Go(e, "embed")
  /\ UNCHANGED <<vars, recordVars, derivedVars, tokenizerVars, attribute, backup, rebuilds, answer, imports, mingled>>

\* The embedder reads the records itself, and passes over embeddings that are gone.
ReEmbedded(e, done) ==
  tensors' = [i \in Id |-> IF i \in done /\ Exists(i) THEN data[attribute[e]] ELSE tensors[i]]
request_re_embed_records(e) ==
  /\ at[e] = "embed" /\ Answered(e, "ok")
  /\ ReEmbedded(e, rebuilds[e])
  /\ UNCHANGED <<vars, recordVars, docbin, tokenizerVars, attribute, backup, rebuilds, imports, mingled>>

\* Outside the two try blocks an exception ends the request, whatever was committed.
EditRaises(e) ==
  /\ at[e] \in {"embeddings", "tokenization", "write", "labels"} \cup Failed
  /\ Go(e, "dead") /\ Raise
  /\ UNCHANGED <<rowVars, jobVars, loopVars, overlapped, recordVars, derivedVars, tokenizerVars, attribute,
                 backup, rebuilds, answer, imports, mingled>>
\* A call or a commit of the two raises; the embedder may have begun.
TokenizationRaises(e) ==
  /\ at[e] \in {"docbins", "request", "wait"} /\ Go(e, "tokenization failed") /\ Raise
  /\ UNCHANGED <<rowVars, jobVars, loopVars, overlapped, recordVars, derivedVars, tokenizerVars, attribute,
                 backup, rebuilds, answer, imports, mingled>>
ReEmbedRaises(e) ==
  /\ at[e] = "embed" /\ Go(e, "embedding failed") /\ Raise
  /\ \E done \in SUBSET rebuilds[e] : ReEmbedded(e, done)
  /\ UNCHANGED <<rowVars, jobVars, loopVars, overlapped, recordVars, docbin, tokenizerVars, attribute,
                 backup, rebuilds, answer, imports, mingled>>
revert_record_data_changes(e) ==
  /\ at[e] \in Failed /\ Answered(e, at[e])
  /\ data' = backup[e]
  /\ UNCHANGED <<vars, labels, derivedVars, tokenizerVars, attribute, backup, rebuilds, imports, mingled>>

EditStep(e) ==
  \/ ReadEmbeddings(e) \/ ReadTokenization(e) \/ WriteData(e) \/ RemoveLabels(e) \/ DeleteDocbins(e)
  \/ RequestTokenization(e) \/ AwaitTokenization(e) \/ request_re_embed_records(e)
  \/ EditRaises(e) \/ TokenizationRaises(e) \/ ReEmbedRaises(e) \/ revert_record_data_changes(e)

-----------------------------------------------------------------------------
(* Around it *)

\* A user labels what the record says.
Label(a) ==
  /\ labels' = [labels EXCEPT ![a] = data[a]]
  /\ UNCHANGED <<vars, data, derivedVars, tokenizerVars, editVars, imports, mingled>>

\* An import asks for a tokenization, which makes the doc bins that are missing.
ImportTokenizes ==
  /\ imports < MaxImports /\ imports' = imports + 1 /\ Queue
  /\ mingled' = mingled \cup {k \in {"tokenization"} : \E e \in Edit : at[e] \in {"write", "labels", "docbins"}}
  /\ UNCHANGED <<vars, recordVars, derivedVars, tokenized, editVars>>
TokenizerReads ==
  /\ tokenization = "queued" /\ tokenization' = "running"
  /\ tokenized' = IF docbin = Nothing THEN data ELSE Nothing
  /\ UNCHANGED <<vars, recordVars, derivedVars, editVars, imports, mingled>>
\* Its task is finished or failed; either ends the wait.
TokenizerEnds ==
  /\ tokenization \in {"running", "again"} /\ tokenized' = Nothing
  /\ tokenization' = IF tokenization = "again" THEN "queued" ELSE "none"
  /\ \E result \in {docbin, tokenized} : docbin' = IF result = Nothing THEN docbin ELSE result
  /\ UNCHANGED <<vars, recordVars, tensors, editVars, imports, mingled>>

\* A step of the recreation: the embedder reads the record when its job begins, and
\* a restart ends the edits too.
RecreationStep ==
  /\ Next
  /\ tensors' = [i \in Id |-> IF i \in jobs' \ jobs THEN data[Embeds[i[1]]] ELSE tensors[i]]
  /\ at' = [e \in Edit |-> IF crashes' # crashes /\ Editing(e) THEN "dead" ELSE at[e]]
  /\ mingled' = mingled \cup {k \in {"recreation"} : Recreating' /\ \E e \in Edit : Editing(e) /\ at[e] # "embeddings"}
  /\ UNCHANGED <<recordVars, docbin, tokenizerVars, attribute, backup, rebuilds, answer, imports>>

EditInit ==
  /\ data = [a \in Attribute |-> Original] /\ labels = [a \in Attribute |-> Original]
  /\ docbin \in {data, Nothing} /\ tensors = [i \in Id |-> Original]
  /\ tokenization = "none" /\ tokenized = Nothing
  /\ attribute \in [Edit -> Attribute] /\ backup = [e \in Edit |-> data] /\ rebuilds = [e \in Edit |-> {}]
  /\ answer = [e \in Edit |-> ""] /\ mingled = {}
EditNext ==
  \/ RecreationStep \/ ImportTokenizes \/ TokenizerReads \/ TokenizerEnds
  \/ \E e \in Edit : EditStep(e) \/ \E a \in Attribute : ReadRecords(e, a)
  \/ \E a \in Attribute : Label(a)
\* The threads of the requests go on and the tokenizer works off its tasks.
EditFairness ==
  /\ \A e \in Edit : WF_allVars(EditStep(e))
  /\ WF_allVars(TokenizerReads) /\ WF_allVars(TokenizerEnds)
EditSpec == Init /\ EditInit /\ imports = 0 /\ at = [e \in Edit |-> "idle"] /\ [][EditNext]_allVars /\ Fairness /\ EditFairness

-----------------------------------------------------------------------------
EditTypeOK ==
  /\ data \in Records /\ labels \in [Attribute -> Values \cup {Nothing}]
  /\ docbin \in Records \cup {Nothing} /\ tensors \in [Id -> Values]
  /\ tokenization \in {"none", "queued", "running", "again"} /\ tokenized \in Records \cup {Nothing}
  /\ at \in [Edit -> {"idle", "embeddings", "tokenization", "write", "labels", "docbins", "request",
                      "wait", "embed", "done", "dead"} \cup Failed]
  /\ attribute \in [Edit -> Attribute] /\ backup \in [Edit -> Records] /\ rebuilds \in [Edit -> SUBSET Id]
  /\ answer \in [Edit -> {"", "ok", "refused"} \cup Failed]
  /\ imports \in 0..MaxImports /\ mingled \subseteq {"edit", "tokenization", "recreation"}

\* What the user is told is what the record says, whatever others edit next: an
\* edit that was acknowledged is there until somebody edits the same attribute, and
\* nothing is there of one that failed or was refused.  Only edits that met, outside
\* the wait for the tokenization, may undo one another.
AnswersAreTrue ==
  "edit" \notin mingled =>
    \A e \in Edit :
      /\ answer[e] = "ok" => data[attribute[e]] \in {f \in Edit : attribute[f] = attribute[e] /\ answer[f] \in {"", "ok"}}
      /\ answer[e] \in Failed \cup {"refused"} => data[attribute[e]] # e

\* When all is quiet, what was made of the record is made of what it says now: its
\* doc bin, the labels of its texts and the tensors of its finished embeddings,
\* after any edits that succeeded or were refused.  Of an edit that failed only its
\* own value may be left in them, though the record says the old one again.  Edits
\* that met or were cut off by an exception or a restart, a tokenization that was
\* queued in between (for the doc bin) and an embedding that was made in between
\* (for its tensor) excuse it.  The labels of other attributes are never removed.
Quiet == tokenization = "none" /\ ~Recreating /\ \A e \in Edit : ~Editing(e)
Told(a) == {data[a]} \cup {e \in Edit : attribute[e] = a /\ answer[e] \in Failed}
DerivedFollowsData ==
  Quiet /\ "edit" \notin mingled /\ (\A e \in Edit : at[e] # "dead") =>
    /\ docbin = Nothing \/ (\A a \in Attribute : docbin[a] \in Told(a)) \/ "tokenization" \in mingled
    /\ \A a \in Text : labels[a] \in Told(a) \cup {Nothing}
    /\ \A i \in Id : estate[i] = "FINISHED" =>
         tensors[i] \in Told(Embeds[i[1]]) \/ "recreation" \in mingled

\* Every edit ends: its wait is over when the tokenizer is, done or failed.
EditsEnd == \A e \in Edit : Editing(e) ~> ~Editing(e)
=============================================================================
