------------------------------- MODULE MCSetup -------------------------------
(* Projects that are made from a file or by the wizard.  A behaviour is one  *)
(* of the two: they share nothing but the store.                             *)
EXTENDS ProjectTransfer, Wizard

CONSTANTS w1, w2
MCWizards == {w1, w2}
AllOptions ==
  {"basic project data", "records", "record attribute token statistics", "embeddings", "embedding tensors",
   "record label associations", "information sources", "information sources payloads", "knowledge bases",
   "comment data"}
\* Everything, nearly everything, and next to nothing.
MCOptionSets ==
  {AllOptions, {"records", "embeddings"}} \cup
  {AllOptions \ {o} : o \in {"basic project data", "embedding tensors", "records"}}

VARIABLE part
allVars == <<part, vars, wizardVars>>

\* The part that does not run.
TransferIdle ==
  /\ project = {} /\ options = {} /\ dump = {} /\ touched = {} /\ ids = {} /\ renamed = {} /\ session = {}
  /\ users = {} /\ rows = {} /\ served = {} /\ reading = 0 /\ place = 0 /\ edits = 0 /\ faults = 0
  /\ finished = {} /\ legacy = FALSE /\ refused = FALSE /\ task = "" /\ post = "" /\ tokenization = ""
Prepared == <<"QUESTION", "question", Given>> \in columns
WizardIdle == WizardInit /\ docbins["REFERENCE"] = "done" /\ Prepared

\* One wizard where the references are still to be tokenized and the projects of
\* questions have no attributes yet, and one after the other where all is prepared.
\* Wizards are alike: the first is w1.
Init ==
  \/ part = "transfer" /\ TransferInit /\ WizardIdle
  \/ part = "wizard" /\ TransferIdle /\ WizardInit /\ docbins["REFERENCE"] = "queued" /\ ~Prepared
  \/ part = "wizards" /\ TransferIdle /\ WizardInit /\ docbins["REFERENCE"] = "done" /\ Prepared
Next ==
  /\ UNCHANGED part
  /\ \/ part = "transfer" /\ TransferNext /\ UNCHANGED wizardVars
     \/ part \in {"wizard", "wizards"} /\ WizardNext /\ UNCHANGED vars
  /\ position'[w2] # 0 => part = "wizards" /\ position[w1] # 0
Spec == Init /\ [][Next]_allVars /\ TransferFairness /\ WizardFairness
=============================================================================
