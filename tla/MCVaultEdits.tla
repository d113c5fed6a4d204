---------------------------- MODULE MCVaultEdits ----------------------------
(* Model values for checking VaultEdits: two files, two model requests per *)
(* run, and three edits in all, enough for a run, a route and an outside   *)
(* program to edit the same file in every order.                           *)
EXTENDS VaultEdits, TLC
CONSTANTS a, b

MCFiles == {a, b}

MCSymmetry == Permutations(MCFiles)
=============================================================================
