--------------------------- MODULE MCVaultService ---------------------------
(* Model values for checking VaultService: three jobs on one file with a   *)
(* history of two, so that a job may rotate out while another runs, two    *)
(* edits, for runs and PUTs in any order, and two crashes.  One task       *)
(* object is enough: start() makes a worker only when there is none left.  *)
EXTENDS VaultService
CONSTANTS a, w

MCFiles == {a}
MCTasks == {w}

(* What VaultEdits keeps for its own properties, and what the client has   *)
(* seen, decide no step here and no property but their own types, which    *)
(* MCVaultEdits checks: states that differ only there are one state.       *)
MCView ==
    <<queueVars, tree, commits, edits, phase, requests, changed, last, put, runs, crashes, ghosts>>
=============================================================================
