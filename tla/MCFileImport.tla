---------------------------- MODULE MCFileImport ----------------------------
(* Tasks, deliveries and continuations for FileImport.                       *)
EXTENDS FileImport, TLC

CONSTANTS t1, t2, n1, n2, p1, p2

MCOneTask == {t1}
MCTwoTasks == {t1, t2}
MCOtherTask == {t2}
MCNone == {}
MCTwoNotifications == {n1, n2}
MCTwoPuts == {p1, p2}
MCSingleJob == [h \in MCTwoNotifications \cup MCTwoPuts |-> t1]
MCTwoJobs == [h \in MCTwoNotifications \cup MCTwoPuts |->
               IF h = n2 THEN t2 ELSE t1]
=============================================================================
