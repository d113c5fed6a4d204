----------------------- MODULE DemoWalkthrough_proofs -----------------------
(***************************************************************************)
(* Proofs about DemoWalkthrough, for every number of steps, edits, runs    *)
(* and files.  The invariant says that, in a session that is exact, the    *)
(* commits made since the demo began are those of the steps counted, each  *)
(* with the tree it began on just below it.                                *)
(***************************************************************************)
EXTENDS DemoWalkthrough, VaultEdits_proofs

SessionFits ==
    /\ nextStep \in 0..Steps
    /\ phase # "idle" => nextStep < Steps
    /\ origin \in Nat \ {0}
    /\ done \in Seq(Trees) /\ Len(done) = nextStep

(* The commits of an exact session, and what is in the working copy.       *)
StepsStack ==
    exact /\ open =>
        /\ Len(commits) = origin + nextStep
        /\ \A i \in 1..nextStep : done[i] = commits[origin + i - 1]
        /\ phase = "idle" => tree = Committed
        /\ phase # "idle" => before = Committed /\ (touched = unsaved => tree = before)

DemoInv ==
    /\ DemoTypeOK /\ PutHasFile
    /\ SessionFits
    /\ StepsStack
    /\ UndoTakesBackTheStep

LEMMA DemoInitInv == DemoInit => DemoInv
  <1> SUFFICES ASSUME DemoInit PROVE DemoInv
    OBVIOUS
  <1>1. TypeOK /\ PutHasFile /\ phase = "idle"
    BY InitInv DEF DemoInit, VaultInv, Init
  <1>2. SessionFits
    <2>1. 0 \in 0..Steps /\ << >> \in Seq(Trees) /\ Len(<< >>) = 0
      BY DemoAssumption DEF DemoAssumption
    <2> QED
      BY <1>1, <2>1 DEF DemoInit, SessionFits
  <1> QED
    BY <1>1, <1>2 DEF DemoInit, DemoInv, DemoTypeOK, SessionFits, StepsStack, UndoTakesBackTheStep

(* What the keys and the run do to the vault is what VaultEdits has, or    *)
(* the end of a run that was cancelled.                                    *)
LEMMA DemoVaultStep ==
    ASSUME TypeOK, PutHasFile, DemoNext
    PROVE  TypeOK' /\ PutHasFile'
  <1>1. CASE Next \/ UNCHANGED vars
    BY <1>1, TypeStep
  <1>2. CASE EndsWithout("raised")
    BY <1>2, VaultAssumption
       DEF VaultAssumption, EndsWithout, EndsWith, Result, TypeOK, PutHasFile, historyVars
  <1>3. Open => UNCHANGED vars
    BY DEF Open
  <1>4. PressNext \/ StepGoesOn \/ StepCreatesPage => Next
    BY DEF PressNext, StepGoesOn, StepCreatesPage, Next, Run
  <1>5. StepSucceeds \/ StepFails \/ StepRaises => Next
    BY DEF StepSucceeds, StepFails, StepRaises, Next, Run
  <1>6. PressBack \/ EditorEdits => TypeOK' /\ PutHasFile'
    <2>1. EditorEdits => Next
      BY DEF EditorEdits, Next
    <2>2. ASSUME PressBack PROVE TypeOK' /\ PutHasFile'
      <3>1. /\ commits' \in Seq(Trees) /\ commits' # << >>
            /\ commits[Len(commits) - 1] \in Trees
        BY <2>2, LastTakenBack DEF PressBack, UndoLastChange, TypeOK
      <3> QED
        BY <2>2, <3>1 DEF PressBack, UndoLastChange, TypeOK, PutHasFile, runVars
    <2> QED
      BY <1>1, <2>1, <2>2
  <1>7. Quit => UNCHANGED vars \/ EndsWithout("raised")
    BY DEF Quit
  <1> QED
    BY <1>1, <1>2, <1>3, <1>4, <1>5, <1>6, <1>7 DEF DemoNext

(* The end of a run without a commit leaves the tree of an exact session   *)
(* as it was.                                                              *)
LEMMA EndsWithoutAnEdit ==
    ASSUME NEW kind, EndsWithout(kind)
    PROVE  /\ phase' = "idle" /\ UNCHANGED <<tree, commits>>
           /\ ~excused' => touched = unsaved
  BY DEF EndsWithout, EndsWith

LEMMA DemoStep ==
    ASSUME DemoInv, DemoNext
    PROVE  DemoInv'
  <1> USE DEF runnerVars, runVars, historyVars, Undisturbed
  <1>0. /\ TypeOK /\ PutHasFile /\ TypeOK' /\ PutHasFile' /\ SessionFits /\ StepsStack
        /\ open \in BOOLEAN /\ quiet \in BOOLEAN /\ exact \in BOOLEAN
        /\ excused \in BOOLEAN /\ excused' \in BOOLEAN
        /\ Steps \in Nat /\ nextStep \in Nat /\ origin \in Nat
        /\ commits \in Seq(Trees) /\ Len(commits) \in Nat \ {0} /\ tree \in Trees
    BY DemoVaultStep, LastCommit, DemoAssumption
       DEF DemoInv, DemoTypeOK, TypeOK, SessionFits
  <1>1. ASSUME SessionFits', StepsStack', owed' = {}, open' \in BOOLEAN,
               quiet' \in BOOLEAN, exact' \in BOOLEAN
        PROVE  DemoInv'
    BY <1>0, <1>1 DEF DemoInv, DemoTypeOK, SessionFits, UndoTakesBackTheStep
  <1>2. CASE Open
    <2>1. SessionFits'
      BY <1>0, <1>2 DEF Open, vars, SessionFits
    <2>2. StepsStack'
      BY <1>0, <1>2 DEF Open, vars, StepsStack, Committed
    <2> QED
      BY <1>0, <1>1, <1>2, <2>1, <2>2 DEF Open
  <1>3. CASE PressNext
    <2>1. SessionFits'
      BY <1>0, <1>3 DEF PressNext, SessionFits
    <2>2. StepsStack'
      BY <1>0, <1>3 DEF PressNext, BeginRun, StepsStack, Committed
    <2> QED
      BY <1>0, <1>1, <1>3, <2>1, <2>2 DEF PressNext
  <1>4. CASE PressBack
    <2>1. /\ open /\ phase = "idle" /\ nextStep > 0 /\ Len(commits) > 1
          /\ nextStep' = nextStep - 1 /\ done' = SubSeq(done, 1, nextStep - 1)
          /\ commits' = SubSeq(commits, 1, Len(commits) - 1)
          /\ owed' = {done[nextStep]} /\ UNCHANGED <<open, origin, phase>>
          /\ quiet' \in BOOLEAN /\ exact' \in BOOLEAN
          /\ exact' => exact /\ ~excused'
          /\ ~excused' => tree' = commits[Len(commits) - 1]
      BY <1>0, <1>4 DEF PressBack, UndoLastChange
    <2>2. /\ Len(commits') = Len(commits) - 1 /\ Committed' = commits[Len(commits) - 1]
          /\ \A i \in 1..(Len(commits) - 1) : commits'[i] = commits[i]
      <3>1. Len(commits') = Len(commits) - 1 /\ commits'[Len(commits')] = commits[Len(commits) - 1]
        BY <1>0, <2>1, LastTakenBack
      <3>2. \A i \in 1..(Len(commits) - 1) : commits'[i] = commits[i]
        BY <1>0, <2>1
      <3> QED
        BY <3>1, <3>2 DEF Committed
    <2>3. /\ done' \in Seq(Trees) /\ Len(done') = nextStep - 1 /\ done[nextStep] \in Trees
          /\ \A i \in 1..(nextStep - 1) : done'[i] = done[i]
      BY <1>0, <2>1 DEF SessionFits
    <2>4. SessionFits'
      BY <1>0, <2>1, <2>3 DEF SessionFits
    <2>5. ASSUME exact'
          PROVE  /\ Len(commits) = origin + nextStep
                 /\ done[nextStep] = commits[Len(commits) - 1]
                 /\ tree' = commits[Len(commits) - 1]
                 /\ \A i \in 1..(nextStep - 1) : done'[i] = commits'[origin + i - 1]
      <3>1. /\ Len(commits) = origin + nextStep
            /\ \A i \in 1..nextStep : done[i] = commits[origin + i - 1]
        BY <2>1, <2>5 DEF StepsStack, DemoInv
      <3>2. nextStep \in 1..nextStep /\ origin + nextStep - 1 = Len(commits) - 1
        BY <1>0, <2>1, <3>1
      <3>3. ASSUME NEW i \in 1..(nextStep - 1)
            PROVE  i \in 1..nextStep /\ origin + i - 1 \in 1..(Len(commits) - 1)
        BY <1>0, <3>1 DEF SessionFits
      <3> QED
        BY <2>1, <2>2, <2>3, <2>5, <3>1, <3>2, <3>3
    <2>6. StepsStack'
      <3>1. SUFFICES ASSUME exact', open' PROVE StepsStack'
        BY <3>1 DEF StepsStack
      <3>2. phase' = "idle" /\ tree' = Committed' /\ Len(commits') = origin' + nextStep'
        BY <1>0, <2>1, <2>2, <2>5, <3>1
      <3>3. \A i \in 1..nextStep' : done'[i] = commits'[origin' + i - 1]
        BY <2>1, <2>5, <3>1
      <3> QED
        BY <3>2, <3>3 DEF StepsStack
    <2> QED
      BY <1>0, <2>1, <2>3, <2>4, <2>5, <2>6
         DEF DemoInv, DemoTypeOK, SessionFits, UndoTakesBackTheStep
  <1>5. CASE Quit \/ StepRaises
    <2>1. /\ open' = FALSE /\ owed' = {} /\ UNCHANGED <<nextStep, done, origin>>
          /\ quiet' \in BOOLEAN /\ exact' \in BOOLEAN
      BY <1>0, <1>5 DEF Quit, StepRaises
    <2>2. phase' = "idle"
      BY <1>5, EndsWithoutAnEdit DEF Quit, StepRaises, ToolRaises, vars
    <2> QED
      BY <1>0, <1>1, <2>1, <2>2 DEF SessionFits, StepsStack
  <1>6. CASE StepGoesOn
    <2>1. /\ phase # "idle" /\ phase' # "idle" /\ UNCHANGED <<commits, before>>
          /\ touched' = unsaved' => touched = unsaved /\ tree' = tree
      BY <1>6 DEF StepGoesOn, ModelCallsTools, AskAgain, WriteTool, Edit
    <2>2. SessionFits'
      BY <1>0, <1>6, <2>1 DEF StepGoesOn, SessionFits
    <2>3. StepsStack'
      BY <1>0, <1>6, <2>1 DEF StepGoesOn, StepsStack, Committed
    <2> QED
      BY <1>0, <1>1, <1>6, <2>2, <2>3 DEF StepGoesOn
  <1>7. CASE StepCreatesPage \/ EditorEdits
    <2>1. /\ exact' = FALSE /\ quiet' \in BOOLEAN /\ owed' = {}
          /\ UNCHANGED runnerVars /\ (phase = "idle" => phase' = "idle")
      BY <1>0, <1>7 DEF StepCreatesPage, EditorEdits, TemplateTool, ExternalEdit
    <2> QED
      BY <1>0, <1>1, <2>1 DEF SessionFits, StepsStack
  <1>8. CASE StepFails
    <2>1. /\ phase # "idle" /\ phase' = "idle" /\ UNCHANGED <<tree, commits>>
          /\ ~excused' => touched = unsaved
      BY <1>8, EndsWithoutAnEdit DEF StepFails, ExceedsLimit, ModelFails, RunTimesOut
    <2>2. SessionFits'
      BY <1>0, <1>8, <2>1 DEF StepFails, SessionFits
    <2>3. StepsStack'
      BY <1>0, <1>8, <2>1 DEF StepFails, StepsStack, Committed
    <2> QED
      BY <1>0, <1>1, <1>8, <2>2, <2>3 DEF StepFails
  <1>9. CASE StepSucceeds
    <2>1. /\ phase # "idle" /\ phase' = "idle" /\ tree' = tree
          /\ nextStep' = nextStep + 1 /\ done' = Append(done, before)
          /\ owed' = {} /\ quiet' \in BOOLEAN /\ exact' \in BOOLEAN /\ UNCHANGED <<open, origin>>
          /\ exact' => exact /\ commits' = Append(commits, tree)
      BY <1>0, <1>9 DEF StepSucceeds, FinishUnchanged, FinishChanged, EndsWith, Commit
    <2>2. nextStep + 1 \in 0..Steps /\ before \in Trees
      BY <1>0, <2>1 DEF SessionFits, TypeOK
    <2>3. /\ done' \in Seq(Trees) /\ Len(done') = nextStep + 1
          /\ done'[nextStep + 1] = before
          /\ \A i \in 1..nextStep : done'[i] = done[i]
      BY <1>0, <2>1, <2>2 DEF SessionFits
    <2>4. SessionFits'
      BY <1>0, <2>1, <2>2, <2>3 DEF SessionFits
    <2>5. ASSUME exact', open'
          PROVE  /\ Len(commits') = origin + nextStep + 1 /\ tree' = Committed'
                 /\ \A i \in 1..(nextStep + 1) : done'[i] = commits'[origin + i - 1]
      <3>1. /\ commits' = Append(commits, tree) /\ Len(commits) = origin + nextStep
            /\ before = Committed
            /\ \A i \in 1..nextStep : done[i] = commits[origin + i - 1]
        BY <1>0, <2>1, <2>5 DEF StepsStack
      <3>2. /\ Len(commits') = Len(commits) + 1 /\ commits'[Len(commits) + 1] = tree
            /\ \A i \in 1..Len(commits) : commits'[i] = commits[i]
        BY <1>0, <3>1
      <3>3. ASSUME NEW i \in 1..(nextStep + 1) PROVE done'[i] = commits'[origin + i - 1]
        <4>1. CASE i = nextStep + 1
          <5>1. origin + i - 1 = Len(commits) /\ Len(commits) \in 1..Len(commits)
            BY <1>0, <3>1, <4>1
          <5> QED
            BY <2>3, <3>1, <3>2, <4>1, <5>1 DEF Committed
        <4>2. CASE i \in 1..nextStep
          <5>1. origin + i - 1 \in 1..Len(commits)
            BY <1>0, <3>1, <4>2 DEF SessionFits
          <5> QED
            BY <2>3, <3>1, <3>2, <4>2, <5>1
        <4> QED
          BY <1>0, <4>1, <4>2
      <3>4. tree' = Committed' /\ Len(commits') = origin + nextStep + 1
        BY <1>0, <2>1, <3>1, <3>2 DEF Committed
      <3> QED
        BY <3>3, <3>4
    <2>6. StepsStack'
      <3>1. SUFFICES ASSUME exact', open' PROVE StepsStack'
        BY <3>1 DEF StepsStack
      <3>2. phase' = "idle" /\ tree' = Committed' /\ Len(commits') = origin' + nextStep'
        BY <1>0, <2>1, <2>5, <3>1
      <3>3. \A i \in 1..nextStep' : done'[i] = commits'[origin' + i - 1]
        BY <2>1, <2>5, <3>1
      <3> QED
        BY <3>2, <3>3 DEF StepsStack
    <2> QED
      BY <1>0, <1>1, <2>1, <2>4, <2>6
  <1> QED
    BY <1>2, <1>3, <1>4, <1>5, <1>6, <1>7, <1>8, <1>9 DEF DemoNext

LEMMA DemoInvStep == DemoInv /\ [DemoNext]_demoVars => DemoInv'
  <1>1. ASSUME DemoInv, UNCHANGED demoVars PROVE DemoInv'
    BY <1>1 DEF demoVars, vars, runnerVars, runVars, historyVars, DemoInv, DemoTypeOK, TypeOK,
                PutHasFile, SessionFits, StepsStack, UndoTakesBackTheStep, Committed
  <1> QED
    BY <1>1, DemoStep

(* The invariant the next three rest on: the commits of an exact session   *)
(* are those of the steps it counts.                                       *)
THEOREM DemoInvariant == DemoSpec => []DemoInv
  BY DemoInitInv, DemoInvStep, PTL DEF DemoSpec

(* The state of a demo stays within its type, so next_step_index stays     *)
(* between 0 and total_steps (demo.py 89-121).                             *)
THEOREM DemoTypeCorrect == DemoSpec => []DemoTypeOK
  <1>1. DemoInv => DemoTypeOK
    BY DEF DemoInv
  <1> QED
    BY <1>1, DemoInvariant, PTL

(* In a session where every step counted changed a file and nothing else   *)
(* touched the vault, backspace restores the tree the step began on, after *)
(* any sequence of steps, failures, undos and replays (demo.py 104-121).   *)
THEOREM BackspaceRestores == DemoSpec => []UndoTakesBackTheStep
  <1>1. DemoInv => UndoTakesBackTheStep
    BY DEF DemoInv
  <1> QED
    BY <1>1, DemoInvariant, PTL

(* In such a session the index is the number of commits made since the     *)
(* demo began (demo.py 104-121).                                           *)
THEOREM IndexIsExact == DemoSpec => []IndexCountsCommits
  <1>1. DemoInv => IndexCountsCommits
    BY DEF DemoInv, StepsStack, IndexCountsCommits
  <1> QED
    BY <1>1, DemoInvariant, PTL

=============================================================================
