------------------------- MODULE VaultEdits_proofs -------------------------
(***************************************************************************)
(* Proofs about VaultEdits for every set of files, and any number of edits *)
(* and runs.  The invariant says where an uncommitted edit may come from,  *)
(* what a run holds while it lasts, and what a PUT has compared.           *)
(***************************************************************************)
EXTENDS VaultEdits, TLAPS

PutHasFile == put.step # "none" => put.file \in Files

(* What a run will report is what its tools edited, but for the pages      *)
(* whose commit failed.                                                    *)
ChangedIsTouched == phase # "idle" => changed = touched \ unsaved

(* Without a reason on record, an uncommitted file was edited by the run   *)
(* in progress or by the PUT that is about to commit.                      *)
UncommittedIsKnown ==
    ~excused => \A f \in Files :
        \/ tree[f] = Committed[f]
        \/ phase # "idle" /\ f \in touched \ unsaved
        \/ put.step = "commit" /\ put.file = f

AgentEditsAreOld == byAgent \subseteq 1..edits

(* Between the comparison of a checked PUT and its write no tool has       *)
(* edited the file.                                                        *)
CheckedIsCurrent ==
    put.step = "write" /\ put.checked /\ tree[put.file] \in byAgent
        => seen[put.file] = tree[put.file]

WellEnded == last.kind = "ok" /\ ~last.warning /\ last.files # {}

(* Where the tree from before a run that was alone is to be found.         *)
AloneIsUndone ==
    /\ put.step = "commit" => ~alone
    /\ phase # "idle" /\ alone => Committed = before
    /\ phase = "idle" /\ alone /\ WellEnded
          => Len(commits) > 1 /\ commits[Len(commits) - 1] = before

VaultInv ==
    /\ TypeOK /\ PutHasFile
    /\ ChangedIsTouched /\ ReportsWhatItEdited
    /\ UncommittedIsKnown
    /\ AgentEditsAreOld /\ CheckedIsCurrent
    /\ AloneIsUndone

LEMMA Appended ==
    ASSUME NEW S, NEW s \in Seq(S), NEW c \in S, NEW new, new = Append(s, c)
    PROVE  /\ new \in Seq(S) /\ Len(new) = Len(s) + 1 /\ new # << >>
           /\ new[Len(new)] = c
           /\ s # << >> => Len(new) > 1 /\ new[Len(new) - 1] = s[Len(s)]
  <1>1. new \in Seq(S) /\ Len(new) = Len(s) + 1 /\ new[Len(s) + 1] = c /\ Len(s) \in Nat
    OBVIOUS
  <1>2. new # << >>
    BY <1>1
  <1>3. ASSUME s # << >> PROVE Len(new) > 1 /\ new[Len(new) - 1] = s[Len(s)]
    <2>1. Len(s) > 0 /\ Len(s) \in 1..Len(s)
      BY <1>3
    <2>2. new[Len(s)] = s[Len(s)]
      BY <2>1
    <2> QED
      BY <1>1, <2>1, <2>2
  <1> QED
    BY <1>1, <1>2, <1>3

LEMMA LastTakenBack ==
    ASSUME NEW S, NEW s \in Seq(S), Len(s) > 1, NEW new, new = SubSeq(s, 1, Len(s) - 1)
    PROVE  /\ new \in Seq(S) /\ Len(new) = Len(s) - 1 /\ new # << >>
           /\ new[Len(new)] = s[Len(s) - 1]
           /\ s[Len(s) - 1] \in S
  <1>1. Len(s) \in Nat /\ Len(s) - 1 \in 1..Len(s)
    OBVIOUS
  <1>2. new \in Seq(S) /\ Len(new) = Len(s) - 1
    BY <1>1
  <1>3. new[Len(s) - 1] = s[Len(s) - 1] /\ s[Len(s) - 1] \in S
    BY <1>1
  <1>4. new # << >>
    <2>1. Len(new) # 0
      BY <1>1, <1>2
    <2>2. Len(<< >>) = 0
      OBVIOUS
    <2> QED
      BY <2>1, <2>2
  <1> QED
    BY <1>2, <1>3, <1>4

LEMMA LastCommit == TypeOK => Committed \in Trees /\ Len(commits) \in Nat \ {0}
  BY DEF TypeOK, Committed

LEMMA InitInv == Init => VaultInv
  <1> SUFFICES ASSUME Init PROVE VaultInv
    OBVIOUS
  <1> USE VaultAssumption DEF Init, Contents, Trees, Result, NoPut
  <1>1. commits \in Seq(Trees) /\ commits # << >> /\ Committed = tree
    BY DEF Committed
  <1>2. TypeOK
    <2>1. tree \in Trees /\ seen \in Trees /\ before \in Trees
      OBVIOUS
    <2>2. last \in [kind: {"none", "ok", "notOk", "timeout", "raised"},
                    files: SUBSET Files, warning: BOOLEAN]
      OBVIOUS
    <2>3. put \in [step: {"none", "write", "commit"}, file: Files \cup {NoFile},
                   checked: BOOLEAN]
      OBVIOUS
    <2>4. /\ edits \in 0..MaxEdits /\ requests \in 0..MaxIterations /\ runs \in 0..MaxRuns
          /\ changed \subseteq Files /\ byAgent \subseteq 1..MaxEdits
          /\ touched \subseteq Files /\ unsaved \subseteq touched
      OBVIOUS
    <2>5. alone \in BOOLEAN /\ excused \in BOOLEAN
      OBVIOUS
    <2> QED
      BY <1>1, <2>1, <2>2, <2>3, <2>4, <2>5 DEF TypeOK
  <1>3. UncommittedIsKnown
    BY <1>1 DEF UncommittedIsKnown
  <1> QED
    BY <1>2, <1>3 DEF VaultInv, PutHasFile, ChangedIsTouched, ReportsWhatItEdited,
       AgentEditsAreOld, CheckedIsCurrent, AloneIsUndone

(* An edit leaves a tree, and writes a number no edit had before.          *)
LEMMA EditedTree ==
    ASSUME TypeOK, NEW f, Edit(f)
    PROVE  /\ tree' \in Trees /\ edits' \in 0..MaxEdits /\ edits' = edits + 1
           /\ edits + 1 \in 1..MaxEdits
           /\ \A g \in Files : g # f => tree'[g] = tree[g]
           /\ f \in Files => tree'[f] = edits + 1
  <1>1. edits \in Nat /\ MaxEdits \in Nat /\ edits < MaxEdits /\ tree \in [Files -> 0..MaxEdits]
    BY VaultAssumption DEF TypeOK, Edit, Trees, Contents
  <1>2. edits' = edits + 1 /\ edits + 1 \in 1..MaxEdits /\ edits + 1 \in 0..MaxEdits
    BY <1>1 DEF Edit
  <1>3. tree' = [g \in Files |-> IF g = f THEN edits + 1 ELSE tree[g]]
    BY <1>1 DEF Edit
  <1> QED
    BY <1>1, <1>2, <1>3 DEF Trees, Contents

LEMMA TypeStep == TypeOK /\ PutHasFile /\ [Next]_vars => TypeOK' /\ PutHasFile'
  <1> SUFFICES ASSUME TypeOK, PutHasFile, [Next]_vars PROVE TypeOK' /\ PutHasFile'
    OBVIOUS
  <1> USE VaultAssumption, LastCommit
  <1> USE DEF TypeOK, PutHasFile, runVars, historyVars, Result, NoPut
  <1>1. CASE BeginRun
    BY <1>1 DEF BeginRun
  <1>2. CASE ModelCallsTools
    BY <1>2 DEF ModelCallsTools
  <1>2a. CASE AskAgain
    <2>1. requests' \in 0..MaxIterations
      BY <1>2a DEF AskAgain
    <2> QED
      BY <1>2a, <2>1 DEF AskAgain
  <1>3. ASSUME NEW f \in Files, WriteTool(f) PROVE TypeOK' /\ PutHasFile'
    BY <1>3, EditedTree DEF WriteTool
  <1>4. ASSUME NEW f \in Files, NEW committed \in BOOLEAN, TemplateTool(f, committed)
        PROVE  TypeOK' /\ PutHasFile'
    <2>1. commits' \in Seq(Trees) /\ commits' # << >>
      BY <1>4, EditedTree, Appended DEF TemplateTool, Commit
    <2> QED
      BY <1>4, <2>1, EditedTree DEF TemplateTool, Commit
  <1>5. ASSUME NEW kind \in {"notOk", "timeout", "raised"}, EndsWithout(kind)
        PROVE  TypeOK' /\ PutHasFile'
    BY <1>5 DEF EndsWithout, EndsWith
  <1>6. CASE FinishUnchanged
    BY <1>6 DEF FinishUnchanged, EndsWith
  <1>7. ASSUME NEW committed \in BOOLEAN, NEW synced \in BOOLEAN, FinishChanged(committed, synced)
        PROVE  TypeOK' /\ PutHasFile'
    <2>1. commits' \in Seq(Trees) /\ commits' # << >>
      BY <1>7, Appended DEF FinishChanged, Commit
    <2>2. excused' \in BOOLEAN
      BY <1>7 DEF FinishChanged, Commit
    <2> QED
      BY <1>7, <2>1, <2>2 DEF FinishChanged, EndsWith
  <1>8. CASE UndoLastChange
    <2>1. /\ commits' \in Seq(Trees) /\ commits' # << >>
          /\ commits[Len(commits) - 1] \in Trees
      BY <1>8, LastTakenBack DEF UndoLastChange
    <2> QED
      BY <1>8, <2>1 DEF UndoLastChange
  <1>9. ASSUME NEW f \in Files, GetFile(f) PROVE TypeOK' /\ PutHasFile'
    <2>1. seen' \in Trees
      BY <1>9 DEF GetFile, Trees
    <2> QED
      BY <1>9, <2>1 DEF GetFile
  <1>9a. ASSUME NEW f \in Files, ExternalEdit(f) PROVE TypeOK' /\ PutHasFile'
    BY <1>9a, EditedTree DEF ExternalEdit
  <1>9b. ASSUME NEW f \in Files, EnsureAnchor(f) PROVE TypeOK' /\ PutHasFile'
    <2>1. edits + 1 \in Contents
      BY <1>9b, EditedTree DEF EnsureAnchor, Contents
    <2>2. seen' \in Trees
      BY <1>9b, <2>1 DEF EnsureAnchor, Trees
    <2> QED
      BY <1>9b, <2>2, EditedTree DEF EnsureAnchor
  <1>10. ASSUME NEW f \in Files, NEW committed \in BOOLEAN, CreatePage(f, committed)
         PROVE  TypeOK' /\ PutHasFile'
    <2>1. commits' \in Seq(Trees) /\ commits' # << >>
      BY <1>10, EditedTree, Appended DEF CreatePage, Commit
    <2>2. seen' \in Trees
      <3>1. edits + 1 \in Contents
        BY <1>10, EditedTree DEF CreatePage, Contents
      <3>2. seen' = [seen EXCEPT ![f] = edits + 1] \/ seen' = seen
        BY <1>10 DEF CreatePage, Commit
      <3> QED
        BY <3>1, <3>2 DEF Trees
    <2> QED
      BY <1>10, <2>1, <2>2, EditedTree DEF CreatePage, Commit
  <1>11. ASSUME NEW f \in Files, NEW checked \in BOOLEAN, PutCheck(f, checked)
         PROVE  TypeOK' /\ PutHasFile'
    BY <1>11 DEF PutCheck
  <1>12. CASE PutWrite
    BY <1>12, EditedTree DEF PutWrite
  <1>13. CASE PutFails
    BY <1>13 DEF PutFails
  <1>14. ASSUME NEW committed \in BOOLEAN, NEW answered \in BOOLEAN,
                PutCommit(committed, answered)
         PROVE  TypeOK' /\ PutHasFile'
    <2>1. commits' \in Seq(Trees) /\ commits' # << >>
      BY <1>14, Appended DEF PutCommit, Commit
    <2>4. excused' \in BOOLEAN
      BY <1>14 DEF PutCommit, Commit
    <2>2. put.file \in Files /\ tree[put.file] \in Contents
      BY <1>14 DEF PutCommit, Trees
    <2>3. seen' \in Trees
      BY <1>14, <2>2 DEF PutCommit, Trees
    <2> QED
      BY <1>14, <2>1, <2>3, <2>4 DEF PutCommit
  <1>15. CASE UNCHANGED vars
    BY <1>15 DEF vars
  <1> QED
    BY <1>1, <1>2, <1>2a, <1>3, <1>4, <1>5, <1>6, <1>7, <1>8, <1>9, <1>9a, <1>9b, <1>10, <1>11,
       <1>12, <1>13, <1>14, <1>15
       DEF Next, Run, Routes, ExceedsLimit, ModelFails, ToolRaises, RunTimesOut, UndoJob, VaultUndo

LEMMA CommitRecords ==
    ASSUME TypeOK, NEW t, t \in Trees, Commit(t)
    PROVE  /\ Committed' = t /\ ~excused'
           /\ Len(commits') > 1 /\ commits'[Len(commits') - 1] = Committed
  BY Appended DEF TypeOK, Commit, Committed

LEMMA UndoRestores ==
    ASSUME TypeOK, UndoLastChange
    PROVE  Committed' = commits[Len(commits) - 1]
  BY LastTakenBack DEF TypeOK, UndoLastChange, Committed

LEMMA ReportStep ==
    VaultInv /\ [Next]_vars => ChangedIsTouched' /\ ReportsWhatItEdited'
  <1> DEFINE Goal == ChangedIsTouched' /\ ReportsWhatItEdited'
  <1> SUFFICES ASSUME VaultInv, [Next]_vars PROVE Goal
    OBVIOUS
  <1> USE DEF VaultInv, ChangedIsTouched, ReportsWhatItEdited, runVars, historyVars, Result
  <1>1. CASE BeginRun \/ ModelCallsTools \/ AskAgain
    BY <1>1 DEF BeginRun, ModelCallsTools, AskAgain
  <1>2. ASSUME NEW f \in Files, WriteTool(f) PROVE Goal
    BY <1>2 DEF WriteTool
  <1>3. ASSUME NEW f \in Files, NEW committed \in BOOLEAN, TemplateTool(f, committed) PROVE Goal
    BY <1>3 DEF TemplateTool
  <1>4. ASSUME NEW kind \in {"notOk", "timeout", "raised"}, EndsWithout(kind) PROVE Goal
    BY <1>4 DEF EndsWithout, EndsWith
  <1>5. CASE FinishUnchanged
    BY <1>5 DEF FinishUnchanged, EndsWith
  <1>6. ASSUME NEW committed \in BOOLEAN, NEW synced \in BOOLEAN, FinishChanged(committed, synced)
        PROVE  Goal
    BY <1>6 DEF FinishChanged, EndsWith
  <1>7. CASE UNCHANGED <<runVars, touched, unsaved>>
    BY <1>7
  <1>8. CASE UndoLastChange \/ Routes \/ \E f \in Files : ExternalEdit(f)
    BY <1>7, <1>8
       DEF UndoLastChange, Routes, GetFile, EnsureAnchor, CreatePage, PutCheck, PutWrite, PutFails,
           VaultUndo, PutCommit, ExternalEdit
  <1> QED
    BY <1>1, <1>2, <1>3, <1>4, <1>5, <1>6, <1>7, <1>8
       DEF Next, Run, ExceedsLimit, ModelFails, ToolRaises, RunTimesOut, UndoJob, vars

LEMMA UncommittedStep == VaultInv /\ TypeOK' /\ [Next]_vars => UncommittedIsKnown'
  <1> SUFFICES ASSUME VaultInv, TypeOK', [Next]_vars, ~excused', NEW g \in Files
               PROVE  \/ tree'[g] = Committed'[g]
                      \/ phase' # "idle" /\ g \in touched' \ unsaved'
                      \/ put'.step = "commit" /\ put'.file = g
    BY DEF UncommittedIsKnown
  <1> DEFINE Goal == \/ tree'[g] = Committed'[g]
                     \/ phase' # "idle" /\ g \in touched' \ unsaved'
                     \/ put'.step = "commit" /\ put'.file = g
  <1>a. /\ TypeOK /\ PutHasFile
        /\ ~excused => \/ tree[g] = Committed[g]
                       \/ phase # "idle" /\ g \in touched \ unsaved
                       \/ put.step = "commit" /\ put.file = g
        /\ phase # "idle" => changed = touched \ unsaved
        /\ unsaved \subseteq touched
    BY DEF VaultInv, UncommittedIsKnown, ChangedIsTouched, TypeOK
  <1>b. ASSUME UNCHANGED <<tree, commits>>, ~excused, put' = put \/ put.step # "commit",
               \/ phase = "idle" \/ touched = unsaved
               \/ phase' # "idle" /\ touched' = touched /\ unsaved' = unsaved
        PROVE  Goal
    BY <1>a, <1>b DEF Committed
  <1>c. ASSUME NEW t \in Trees, Commit(t), tree' = t PROVE Goal
    BY <1>a, <1>c, CommitRecords
  <1>1. CASE BeginRun
    <2>1. phase = "idle" /\ ~excused /\ UNCHANGED <<tree, commits, put>>
      BY <1>1 DEF BeginRun
    <2> QED
      BY <2>1, <1>b
  <1>1a. CASE ModelCallsTools \/ AskAgain
    BY <1>1a, <1>b DEF ModelCallsTools, AskAgain, historyVars
  <1>2. ASSUME NEW f \in Files, WriteTool(f) PROVE Goal
    <2>1. CASE g = f
      BY <1>2, <2>1 DEF WriteTool, LoopFree
    <2>2. CASE g # f
      BY <1>a, <1>2, <2>2, EditedTree DEF WriteTool, LoopFree, Committed
    <2> QED
      BY <2>1, <2>2
  <1>3. ASSUME NEW f \in Files, NEW committed \in BOOLEAN, TemplateTool(f, committed) PROVE Goal
    BY <1>3, <1>a, <1>c, EditedTree DEF TemplateTool
  <1>4. ASSUME NEW kind, EndsWithout(kind) PROVE Goal
    <2>1. ~excused /\ touched = unsaved /\ UNCHANGED <<tree, commits, put>>
      BY <1>4 DEF EndsWithout
    <2> QED
      BY <2>1, <1>b
  <1>5. CASE FinishUnchanged
    BY <1>5, <1>b, <1>a DEF FinishUnchanged, LoopFree
  <1>6. ASSUME NEW committed \in BOOLEAN, NEW synced \in BOOLEAN, FinishChanged(committed, synced)
        PROVE  Goal
    BY <1>6, <1>a, <1>c DEF FinishChanged, TypeOK
  <1>7. CASE UndoLastChange
    BY <1>7, <1>a, UndoRestores DEF UndoLastChange
  <1>8. ASSUME NEW f \in Files, GetFile(f) \/ \E checked \in BOOLEAN : PutCheck(f, checked)
        PROVE  Goal
    BY <1>8, <1>a, <1>b DEF GetFile, PutCheck, LoopFree, runVars, historyVars
  <1>9. ASSUME NEW f \in Files, ExternalEdit(f) \/ EnsureAnchor(f) PROVE Goal
    BY <1>9 DEF ExternalEdit, EnsureAnchor
  <1>10. ASSUME NEW f \in Files, NEW committed \in BOOLEAN, CreatePage(f, committed) PROVE Goal
    BY <1>10, <1>a, <1>c, EditedTree DEF CreatePage
  <1>11. CASE PutWrite
    <2>1. put'.step = "commit" /\ put'.file = put.file
      BY <1>11, <1>a DEF PutWrite, TypeOK
    <2>2. CASE g = put.file
      BY <2>1, <2>2
    <2>3. CASE g # put.file
      BY <1>a, <1>11, <2>3, EditedTree DEF PutWrite, Committed, runVars
    <2> QED
      BY <2>2, <2>3
  <1>12. CASE PutFails
    BY <1>12, <1>a, <1>b DEF PutFails, runVars, historyVars
  <1>13. ASSUME NEW committed \in BOOLEAN, NEW answered \in BOOLEAN,
                PutCommit(committed, answered)
         PROVE  Goal
    BY <1>13, <1>a, <1>c DEF PutCommit, TypeOK
  <1>14. CASE UNCHANGED vars
    BY <1>14, <1>b DEF vars, runVars, historyVars
  <1> QED
    BY <1>1, <1>1a, <1>2, <1>3, <1>4, <1>5, <1>6, <1>7, <1>8, <1>9, <1>10, <1>11, <1>12, <1>13,
       <1>14
       DEF Next, Run, Routes, ExceedsLimit, ModelFails, ToolRaises, RunTimesOut, UndoJob, VaultUndo

LEMMA PutStep == VaultInv /\ [Next]_vars => AgentEditsAreOld' /\ CheckedIsCurrent'
  <1> DEFINE Goal == AgentEditsAreOld' /\ CheckedIsCurrent'
  <1> SUFFICES ASSUME VaultInv, [Next]_vars PROVE Goal
    OBVIOUS
  <1>a. /\ TypeOK /\ PutHasFile /\ edits \in Nat /\ tree \in Trees
        /\ byAgent \subseteq 1..edits
        /\ put.step = "write" /\ put.checked /\ tree[put.file] \in byAgent
              => seen[put.file] = tree[put.file]
    BY VaultAssumption DEF VaultInv, AgentEditsAreOld, CheckedIsCurrent, TypeOK
  <1>b. ASSUME put'.step # "write", edits' \in Nat,
               \/ edits' = edits /\ byAgent' = byAgent
               \/ edits' = edits + 1 /\ byAgent' \subseteq byAgent \cup {edits + 1}
        PROVE  Goal
    <2>1. CASE edits' = edits /\ byAgent' = byAgent
      BY <1>a, <1>b, <2>1 DEF AgentEditsAreOld, CheckedIsCurrent
    <2>2. CASE edits' = edits + 1 /\ byAgent' \subseteq byAgent \cup {edits + 1}
      BY <1>a, <1>b, <2>2 DEF AgentEditsAreOld, CheckedIsCurrent
    <2> QED
      BY <1>b, <2>1, <2>2
  <1>1. CASE \/ BeginRun \/ ModelCallsTools \/ AskAgain
             \/ \E kind \in {"notOk", "timeout", "raised"} : LoopFree /\ EndsWithout(kind)
             \/ FinishUnchanged
             \/ \E committed, synced \in BOOLEAN : FinishChanged(committed, synced)
    BY <1>1, <1>a, <1>b
       DEF BeginRun, ModelCallsTools, AskAgain, EndsWithout, FinishUnchanged, FinishChanged,
           LoopFree, historyVars
  <1>2. ASSUME NEW f \in Files,
               \/ WriteTool(f) \/ EnsureAnchor(f)
               \/ \E committed \in BOOLEAN : TemplateTool(f, committed) \/ CreatePage(f, committed)
        PROVE  Goal
    BY <1>2, <1>a, <1>b, EditedTree
       DEF WriteTool, TemplateTool, EnsureAnchor, CreatePage, LoopFree, runVars
  <1>3. CASE LoopFree /\ UndoLastChange
    BY <1>3, <1>a, <1>b DEF UndoLastChange, LoopFree
  <1>4. ASSUME NEW f \in Files, GetFile(f) PROVE Goal
    BY <1>4, <1>a, <1>b DEF GetFile, LoopFree, historyVars
  <1>5. ASSUME NEW f \in Files, NEW checked \in BOOLEAN, PutCheck(f, checked) PROVE Goal
    <2>1. put'.checked => seen'[put'.file] = tree'[put'.file]
      BY <1>5 DEF PutCheck
    <2> QED
      BY <1>5, <1>a, <2>1 DEF PutCheck, historyVars, AgentEditsAreOld, CheckedIsCurrent
  <1>6. CASE PutWrite \/ PutFails \/ \E committed, answered \in BOOLEAN : PutCommit(committed, answered)
    <2>1. put'.step # "write"
      BY <1>6, <1>a DEF PutWrite, PutFails, PutCommit, NoPut, TypeOK
    <2> QED
      BY <1>6, <1>a, <1>b, <2>1, EditedTree DEF PutWrite, PutFails, PutCommit, historyVars
  <1>7. ASSUME NEW f \in Files, ExternalEdit(f) PROVE Goal
    <2>1. UNCHANGED <<byAgent, put, seen>> /\ edits' = edits + 1
      BY <1>7, <1>a, EditedTree DEF ExternalEdit
    <2>2. AgentEditsAreOld'
      BY <1>a, <2>1 DEF AgentEditsAreOld
    <2>3. put.step = "write" /\ tree'[put.file] \in byAgent => tree'[put.file] = tree[put.file]
      BY <1>7, <1>a, EditedTree DEF ExternalEdit, PutHasFile
    <2> QED
      BY <1>a, <2>1, <2>2, <2>3 DEF CheckedIsCurrent
  <1>8. CASE UNCHANGED vars
    BY <1>8, <1>a DEF vars, historyVars, AgentEditsAreOld, CheckedIsCurrent
  <1> QED
    BY <1>1, <1>2, <1>3, <1>4, <1>5, <1>6, <1>7, <1>8
       DEF Next, Run, Routes, ExceedsLimit, ModelFails, ToolRaises, RunTimesOut, UndoJob, VaultUndo

LEMMA AloneStep == VaultInv /\ [Next]_vars => AloneIsUndone'
  <1> SUFFICES ASSUME VaultInv, [Next]_vars PROVE AloneIsUndone'
    OBVIOUS
  <1>a. /\ TypeOK
        /\ put.step = "commit" => ~alone
        /\ phase # "idle" /\ alone => Committed = before
        /\ phase = "idle" /\ alone /\ WellEnded
              => Len(commits) > 1 /\ commits[Len(commits) - 1] = before
    BY DEF VaultInv, AloneIsUndone
  <1>b. CASE ~alone'
    BY <1>b DEF AloneIsUndone
  <1>c. ASSUME UNCHANGED <<commits, before, alone, last>>, put' = put \/ put'.step # "commit",
               (phase' = "idle") <=> (phase = "idle")
        PROVE  AloneIsUndone'
    BY <1>c, <1>a DEF AloneIsUndone, WellEnded, Committed
  <1>1. CASE BeginRun
    BY <1>1 DEF BeginRun, AloneIsUndone, Committed, LoopFree
  <1>2. CASE ModelCallsTools \/ AskAgain \/ \E f \in Files : WriteTool(f)
    BY <1>2, <1>c DEF ModelCallsTools, AskAgain, WriteTool, historyVars
  <1>3. ASSUME NEW kind \in {"notOk", "timeout", "raised"}, LoopFree, EndsWithout(kind)
        PROVE  AloneIsUndone'
    BY <1>3 DEF EndsWithout, EndsWith, LoopFree, Result, AloneIsUndone, WellEnded
  <1>4. CASE FinishUnchanged
    BY <1>4 DEF FinishUnchanged, EndsWith, LoopFree, Result, AloneIsUndone, WellEnded
  <1>5. ASSUME NEW committed \in BOOLEAN, NEW synced \in BOOLEAN, FinishChanged(committed, synced)
        PROVE  AloneIsUndone'
    <2>1. phase # "idle" /\ phase' = "idle" /\ put'.step # "commit" /\ UNCHANGED <<alone, before>>
      BY <1>5 DEF FinishChanged, EndsWith, LoopFree, historyVars
    <2>2. ASSUME WellEnded' PROVE Commit(tree)
      BY <1>5, <2>2 DEF FinishChanged, EndsWith, WellEnded, Result
    <2>3. ASSUME WellEnded' PROVE Len(commits') > 1 /\ commits'[Len(commits') - 1] = Committed
      BY <2>2, <2>3, <1>a, CommitRecords DEF TypeOK
    <2> QED
      BY <1>a, <2>1, <2>3 DEF AloneIsUndone
  <1>6. CASE \/ UndoLastChange \/ PutWrite
             \/ \E f \in Files : ExternalEdit(f) \/ EnsureAnchor(f)
             \/ \E f \in Files, committed \in BOOLEAN :
                    TemplateTool(f, committed) \/ CreatePage(f, committed)
    BY <1>6, <1>b
       DEF UndoLastChange, PutWrite, ExternalEdit, EnsureAnchor, TemplateTool, CreatePage
  <1>7. CASE PutFails \/ \E f \in Files : GetFile(f) \/ \E checked \in BOOLEAN : PutCheck(f, checked)
    BY <1>7, <1>c DEF PutFails, GetFile, PutCheck, NoPut, runVars, historyVars
  <1>8. ASSUME NEW committed \in BOOLEAN, NEW answered \in BOOLEAN,
               PutCommit(committed, answered)
        PROVE  AloneIsUndone'
    BY <1>8, <1>a, <1>b DEF PutCommit, historyVars
  <1>9. CASE UNCHANGED vars
    BY <1>9, <1>c DEF vars, runVars, historyVars
  <1> QED
    BY <1>1, <1>2, <1>3, <1>4, <1>5, <1>6, <1>7, <1>8, <1>9
       DEF Next, Run, Routes, ExceedsLimit, ModelFails, ToolRaises, RunTimesOut, UndoJob, VaultUndo

LEMMA InvStep == VaultInv /\ [Next]_vars => VaultInv'
  <1> SUFFICES ASSUME VaultInv, [Next]_vars PROVE VaultInv'
    OBVIOUS
  <1>1. TypeOK' /\ PutHasFile'
    BY TypeStep DEF VaultInv
  <1> QED
    BY <1>1, ReportStep, UncommittedStep, PutStep, AloneStep DEF VaultInv

(* The invariant above holds in every state, for all values of the         *)
(* constants.                                                              *)
THEOREM VaultInvariant == Spec => []VaultInv
  BY InitInv, InvStep, PTL DEF Spec

(* Every variable keeps its type.                                          *)
THEOREM TypeCorrect == Spec => []TypeOK
  <1>1. VaultInv => TypeOK
    BY DEF VaultInv
  <1> QED
    BY VaultInvariant, <1>1, PTL

(* A run that ends well reports exactly the files its tools edited, but    *)
(* for pages from templates whose own commit failed (agent.py 254-303,     *)
(* tools.py 255-275).                                                      *)
THEOREM ReportsAreExact == Spec => []ReportsWhatItEdited
  <1>1. VaultInv => ReportsWhatItEdited
    BY DEF VaultInv
  <1> QED
    BY VaultInvariant, <1>1, PTL

LEMMA InvSettles == VaultInv => SettledIsCommitted
  <1> SUFFICES ASSUME VaultInv, phase = "idle", LoopFree, ~excused PROVE tree = Committed
    BY DEF SettledIsCommitted
  <1>1. \A f \in Files : tree[f] = Committed[f]
    BY DEF VaultInv, UncommittedIsKnown, LoopFree
  <1>2. tree \in Trees /\ Committed \in Trees
    BY LastCommit DEF VaultInv, TypeOK
  <1> QED
    BY <1>1, <1>2 DEF Trees

(* Between operations the working copy equals the last commit, but for the *)
(* reasons on record (agent.py 257-296, vault_routes.py 130-146).          *)
THEOREM NothingStaysUncommitted == Spec => []SettledIsCommitted
  BY VaultInvariant, InvSettles, PTL

LEMMA SuccessStep ==
    ASSUME VaultInv, Next, phase = "asking", phase' = "idle", last'.kind = "ok", ~last'.warning,
           NEW f \in touched \ unsaved
    PROVE  commits'[Len(commits')][f] = tree'[f]
  <1>1. ASSUME NEW kind \in {"notOk", "timeout", "raised"}, EndsWithout(kind) PROVE FALSE
    BY <1>1 DEF EndsWithout, EndsWith, Result
  <1>2. CASE FinishUnchanged
    BY <1>2 DEF FinishUnchanged, VaultInv, ChangedIsTouched
  <1>3. ASSUME NEW committed \in BOOLEAN, NEW synced \in BOOLEAN,
               FinishChanged(committed, synced)
        PROVE  commits'[Len(commits')][f] = tree'[f]
    <2>1. Commit(tree) /\ tree' = tree
      BY <1>3 DEF FinishChanged, EndsWith, Result
    <2> QED
      BY <2>1, CommitRecords DEF VaultInv, TypeOK, Committed
  <1>4. ASSUME phase' # "idle" \/ phase' = phase PROVE FALSE
    BY <1>4
  <1> QED
    BY <1>1, <1>2, <1>3, <1>4
       DEF Next, Run, Routes, BeginRun, ModelCallsTools, WriteTool, TemplateTool, AskAgain,
           ExceedsLimit, ModelFails, ToolRaises, RunTimesOut, UndoJob, VaultUndo,
           UndoLastChange, GetFile, PutCheck, PutWrite, PutFails, PutCommit, EnsureAnchor,
           CreatePage, ExternalEdit, runVars

(* A run that reports success without a warning has committed its edits,   *)
(* but for the same pages (agent.py 257-296).                              *)
THEOREM SuccessIsCommitted == Spec => CommitsBeforeReporting
  <1>1. VaultInv /\ [Next]_vars
            => [ phase = "asking" /\ phase' = "idle" /\ last'.kind = "ok" /\ ~last'.warning
                    => \A f \in touched \ unsaved : commits'[Len(commits')][f] = tree'[f] ]_vars
    BY SuccessStep
  <1> QED
    BY VaultInvariant, <1>1, PTL DEF Spec, CommitsBeforeReporting

(* A checked PUT never overwrites an edit of the agent that its client has *)
(* not seen (vault_routes.py 113-130).                                     *)
THEOREM CheckedPutIsSafe == Spec => CheckedPutKeepsAgentEdits
  <1>1. VaultInv /\ [Next]_vars
            => [ put.step = "write" /\ put'.step = "commit" /\ put.checked
                    /\ tree[put.file] \in byAgent => seen[put.file] = tree[put.file] ]_vars
    BY DEF VaultInv, CheckedIsCurrent
  <1> QED
    BY VaultInvariant, <1>1, PTL DEF Spec, CheckedPutKeepsAgentEdits

LEMMA UndoStep ==
    ASSUME VaultInv, Next, Len(commits') < Len(commits), tree' # tree, phase = "idle", WellEnded,
           alone
    PROVE  tree' = before
  <1>1. CASE UndoLastChange
    BY <1>1 DEF UndoLastChange, VaultInv, AloneIsUndone
  <1>2. ASSUME NEW t \in Trees, Commit(t) PROVE FALSE
    BY <1>2, Appended, LastCommit DEF Commit, VaultInv, TypeOK
  <1>3. CASE UNCHANGED commits
    BY <1>3, LastCommit DEF VaultInv
  <1> QED
    BY <1>1, <1>2, <1>3, EditedTree
       DEF Next, Run, Routes, BeginRun, ModelCallsTools, WriteTool, TemplateTool, AskAgain,
           ExceedsLimit, ModelFails, ToolRaises, RunTimesOut, UndoJob, VaultUndo, EndsWithout,
           FinishUnchanged, FinishChanged, GetFile, PutCheck, PutWrite, PutFails, PutCommit,
           EnsureAnchor, CreatePage, ExternalEdit, VaultInv, TypeOK

(* Undoing a run that was alone restores the tree from before it           *)
(* (agent.py 305-314).                                                     *)
THEOREM UndoRestoresTheTree == Spec => UndoRevertsRun
  <1>1. VaultInv /\ [Next]_vars
            => [ Len(commits') < Len(commits) /\ tree' # tree
                    /\ phase = "idle" /\ last.kind = "ok" /\ ~last.warning /\ last.files # {}
                    /\ alone => tree' = before ]_vars
    BY UndoStep DEF WellEnded
  <1> QED
    BY VaultInvariant, <1>1, PTL DEF Spec, UndoRevertsRun

-----------------------------------------------------------------------------
(* Two steps that Next does not have, for modules in which the process of  *)
(* the service may be stopped or die: a run cancelled wherever it waits,   *)
(* and a death, which leaves the working copy and its commits as they are. *)
Cancelled == LoopFree /\ EndsWithout("raised")

Dies ==
    /\ phase' = "idle" /\ put' = NoPut /\ last' = Result("none", {}, FALSE)
    /\ requests' = 0 /\ changed' = {} /\ touched' = {} /\ unsaved' = {} /\ before' = tree
    /\ alone' = FALSE /\ excused' = TRUE
    /\ UNCHANGED <<tree, commits, edits, seen, runs, byAgent>>

LEMMA CancelledStep == VaultInv /\ Cancelled => VaultInv'
  <1> SUFFICES ASSUME VaultInv, Cancelled PROVE VaultInv'
    OBVIOUS
  <1> USE DEF Cancelled, EndsWithout, EndsWith, Result, LoopFree
  <1>1. TypeOK' /\ PutHasFile'
    BY VaultAssumption DEF VaultInv, TypeOK, PutHasFile, historyVars
  <1>2. ChangedIsTouched' /\ ReportsWhatItEdited'
    BY DEF ChangedIsTouched, ReportsWhatItEdited
  <1>3. UncommittedIsKnown'
    BY DEF VaultInv, UncommittedIsKnown, Committed, historyVars
  <1>4. AgentEditsAreOld' /\ CheckedIsCurrent'
    BY DEF VaultInv, AgentEditsAreOld, CheckedIsCurrent, historyVars
  <1>5. AloneIsUndone'
    BY DEF AloneIsUndone, WellEnded
  <1> QED
    BY <1>1, <1>2, <1>3, <1>4, <1>5 DEF VaultInv

LEMMA DeathStep == VaultInv /\ Dies => VaultInv'
  <1> SUFFICES ASSUME VaultInv, Dies PROVE VaultInv'
    OBVIOUS
  <1> USE DEF Dies, NoPut, Result
  <1>1. TypeOK' /\ PutHasFile'
    <2>1. TypeOK /\ 0 \in 0..MaxIterations
      BY VaultAssumption DEF VaultInv
    <2>2. /\ last' \in [kind: {"none", "ok", "notOk", "timeout", "raised"},
                        files: SUBSET Files, warning: BOOLEAN]
          /\ put' \in [step: {"none", "write", "commit"}, file: Files \cup {NoFile},
                       checked: BOOLEAN]
      OBVIOUS
    <2> QED
      BY <2>1, <2>2 DEF TypeOK, PutHasFile
  <1>2. ChangedIsTouched' /\ ReportsWhatItEdited'
    BY DEF ChangedIsTouched, ReportsWhatItEdited
  <1>3. UncommittedIsKnown'
    BY DEF UncommittedIsKnown
  <1>4. AgentEditsAreOld' /\ CheckedIsCurrent'
    BY DEF VaultInv, AgentEditsAreOld, CheckedIsCurrent
  <1>5. AloneIsUndone'
    BY DEF AloneIsUndone
  <1> QED
    BY <1>1, <1>2, <1>3, <1>4, <1>5 DEF VaultInv

=============================================================================
