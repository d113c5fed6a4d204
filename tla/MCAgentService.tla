--------------------------- MODULE MCAgentService ---------------------------
(* Model values for checking AgentService: three jobs against a history of *)
(* two, so that a job rotates out while its caller waits, and one worker   *)
(* task, because the lifespan starts the queue once.                       *)
EXTENDS AgentService
CONSTANT w1

MCTasks == {w1}
=============================================================================
