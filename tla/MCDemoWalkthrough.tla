------------------------- MODULE MCDemoWalkthrough -------------------------
(* Model values for checking DemoWalkthrough: two steps and four runs, so  *)
(* that steps fail, are taken back and are replayed; one file is enough,   *)
(* because undo restores the whole tree.                                   *)
EXTENDS DemoWalkthrough
CONSTANT a

MCFiles == {a}
=============================================================================
