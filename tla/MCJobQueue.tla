----------------------------- MODULE MCJobQueue -----------------------------
(* Model values for checking JobQueue: four submissions against a history  *)
(* of two, so that jobs rotate out while queued, while running and after   *)
(* they finished; two task objects, so that a second worker could exist.   *)
EXTENDS JobQueue
CONSTANTS w1, w2

MCTasks == {w1, w2}
=============================================================================
