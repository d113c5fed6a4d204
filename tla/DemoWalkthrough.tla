-------------------------- MODULE DemoWalkthrough --------------------------
(***************************************************************************)
(* The guided demo of demo.py: a program of its own, without the queue and *)
(* the routes, whose user presses a key to apply the next step with        *)
(* agent.run() or to take the last one back with agent.undo().  The agent  *)
(* and the vault are those of VaultEdits; the user has the vault open in   *)
(* Obsidian meanwhile, which may edit it.                                  *)
(*                                                                         *)
(* DemoRunner keeps only an index.  What it takes back is whatever         *)
(* vault.undo_last_change takes back.                                      *)
(***************************************************************************)
EXTENDS VaultEdits

CONSTANT Steps  \* total_steps

ASSUME DemoAssumption == Steps \in Nat

VARIABLES
    open,      \* run_demo is running
    nextStep,  \* next_step_index
    \* Kept for the properties only.
    done,      \* tree at the beginning of each step counted
    origin,    \* number of commits when the demo was started
    quiet,     \* only steps edited the vault, none created a page or left edits uncommitted
    exact,     \* quiet, and every step counted has changed a file
    owed       \* the tree the last key should have restored, if it was undo

runnerVars == <<open, nextStep, done, origin>>
demoVars   == <<vars, runnerVars, quiet, exact, owed>>

DemoTypeOK ==
    /\ TypeOK
    /\ open \in BOOLEAN
    /\ nextStep \in 0..Steps
    /\ done \in Seq(Trees) /\ Len(done) = nextStep
    /\ origin \in Nat
    /\ quiet \in BOOLEAN /\ exact \in BOOLEAN
    /\ owed \subseteq Trees

DemoInit ==
    /\ Init
    /\ open = FALSE
    /\ nextStep = 0
    /\ done = << >>
    /\ origin = 1
    /\ quiet = FALSE
    /\ exact = FALSE
    /\ owed = {}

(* main: a new DemoRunner, on the vault as it is.                          *)
Open ==
    /\ ~open /\ phase = "idle"
    /\ open' = TRUE
    /\ nextStep' = 0
    /\ done' = << >>
    /\ origin' = Len(commits)
    /\ quiet' = (tree = Committed)
    /\ exact' = quiet'
    /\ owed' = {}
    /\ UNCHANGED vars

(* What a step of the model does to the ghosts.                            *)
Undisturbed ==
    /\ quiet' = (quiet /\ ~excused')
    /\ exact' = (exact /\ quiet')
    /\ owed' = {}

-----------------------------------------------------------------------------
(* The keys.                                                               *)

\* A mutant of PressNext.
AppliesPastTheEnd ==
    /\ open
    /\ nextStep <= Steps
    /\ BeginRun
    /\ Undisturbed
    /\ UNCHANGED runnerVars

(* Enter: apply_next, when a step is left.                                 *)
PressNext ==
    /\ open
    /\ nextStep < Steps
    /\ BeginRun
    /\ Undisturbed
    /\ UNCHANGED runnerVars

\* A mutant of PressBack.
ForgetsToStepBack ==
    /\ open /\ phase = "idle"
    /\ nextStep > 0
    /\ UndoLastChange
    /\ quiet' = (quiet /\ ~excused')
    /\ exact' = (exact /\ quiet')
    /\ owed' = {done[nextStep]}
    /\ UNCHANGED runnerVars

(* Backspace: undo_last, when a step is counted.  An undo that fails       *)
(* changes nothing.                                                        *)
PressBack ==
    /\ open /\ phase = "idle"
    /\ nextStep > 0
    /\ UndoLastChange
    /\ nextStep' = nextStep - 1
    /\ done' = SubSeq(done, 1, nextStep - 1)
    /\ quiet' = (quiet /\ ~excused')
    /\ exact' = (exact /\ quiet')
    /\ owed' = {done[nextStep]}
    /\ UNCHANGED <<open, origin>>

(* q, or Ctrl-C, which cancels the run in progress.                        *)
Quit ==
    /\ open
    /\ open' = FALSE
    /\ \/ phase = "idle" /\ UNCHANGED vars
       \/ phase # "idle" /\ EndsWithout("raised")
    /\ Undisturbed
    /\ UNCHANGED <<nextStep, done, origin>>

-----------------------------------------------------------------------------
(* The step in progress.                                                   *)

StepGoesOn ==
    /\ ModelCallsTools \/ AskAgain \/ \E f \in Files : WriteTool(f)
    /\ Undisturbed
    /\ UNCHANGED runnerVars

(* A page from a template is a commit of its own.                          *)
StepCreatesPage ==
    /\ \E f \in Files, committed \in BOOLEAN : TemplateTool(f, committed)
    /\ quiet' = FALSE /\ exact' = FALSE /\ owed' = {}
    /\ UNCHANGED runnerVars

(* The run ends with ok, whether or not it changed anything.               *)
StepSucceeds ==
    /\ FinishUnchanged \/ \E committed, synced \in BOOLEAN : FinishChanged(committed, synced)
    /\ nextStep' = nextStep + 1
    /\ done' = Append(done, before)
    /\ quiet' = (quiet /\ ~excused')
    /\ exact' = (exact /\ quiet' /\ changed # {})
    /\ owed' = {}
    /\ UNCHANGED <<open, origin>>

\* A mutant of StepFails.
CountsFailedStep ==
    /\ ExceedsLimit \/ ModelFails \/ RunTimesOut
    /\ nextStep' = nextStep + 1
    /\ done' = Append(done, before)
    /\ Undisturbed
    /\ UNCHANGED <<open, origin>>

(* The run ends without ok: the step stays the next one.                   *)
StepFails ==
    /\ ExceedsLimit \/ ModelFails \/ RunTimesOut
    /\ Undisturbed
    /\ UNCHANGED runnerVars

(* main catches no error but KeyboardInterrupt: the demo ends.             *)
StepRaises ==
    /\ ToolRaises
    /\ open' = FALSE
    /\ Undisturbed
    /\ UNCHANGED <<nextStep, done, origin>>

EditorEdits ==
    /\ \E f \in Files : ExternalEdit(f)
    /\ Undisturbed
    /\ UNCHANGED runnerVars

DemoNext ==
    \/ Open \/ PressNext \/ PressBack \/ Quit
    \/ StepGoesOn \/ StepCreatesPage \/ StepSucceeds \/ StepFails \/ StepRaises
    \/ EditorEdits

DemoSpec == DemoInit /\ [][DemoNext]_demoVars

-----------------------------------------------------------------------------
(* Properties.                                                             *)

(* While every step counted has changed a file and nothing else touched    *)
(* the vault, taking a step back restores the tree the step began on,      *)
(* over any sequence of steps, failures, undos and replays (demo.py        *)
(* 104-121).                                                               *)
UndoTakesBackTheStep == exact => \A t \in owed : tree = t

(* In the same sessions the index counts the commits made since the demo   *)
(* began, so undo never reaches what an earlier session or the user did.   *)
IndexCountsCommits ==
    exact /\ open /\ phase = "idle" => Len(commits) = origin + nextStep

(* obsidian-agent_demo-vault/README.md 28: "undo the last step so you can  *)
(* replay it".  A step that ends well without changing a file is counted   *)
(* and has no commit, so undo takes back an earlier one (demo.py 109-111). *)
BackspaceUndoesTheStep == quiet => \A t \in owed : tree = t

=============================================================================
