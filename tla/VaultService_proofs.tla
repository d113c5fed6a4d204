------------------------ MODULE VaultService_proofs ------------------------
(***************************************************************************)
(* Proofs about VaultService for any number of jobs, files, edits and      *)
(* deaths of the process.  The invariants of JobQueue do not survive a     *)
(* death, so the ones here are smaller: who holds a job, that jobs come    *)
(* before those pending, and which edits a job may have left where.  That  *)
(* of VaultEdits does survive one, because it speaks of the disk.          *)
(***************************************************************************)
EXTENDS VaultService, TLAPS

VP == INSTANCE VaultEdits_proofs WITH MaxRuns <- MaxJobs

Committed == commits[Len(commits)]
Trees     == [Files -> 0..MaxEdits]

(* The parts of the state that the properties speak about.                 *)
Shape ==
    /\ tree \in Trees
    /\ commits \in Seq(Trees) /\ commits # << >>
    /\ edits \in 0..MaxEdits
    /\ author \in [1..MaxEdits -> JobsOrNone]
    /\ owner \in Seq(JobsOrNone) /\ Len(owner) = Len(commits)
    /\ \A i \in DOMAIN commits : \A f \in Files : commits[i][f] \in recorded

(* Only the worker that stop() would cancel holds a job, and one that is   *)
(* waiting for an id holds none.                                           *)
WorkerFits ==
    /\ at \in [Tasks -> {"dead", "get", "agent", "cancelled"}]
    /\ holds \in [Tasks -> JobsOrNone]
    /\ \A t \in Tasks :
          /\ at[t] # "dead" => workerTask = t
          /\ at[t] = "agent" => holds[t] # 0
          /\ at[t] \in {"dead", "get"} => holds[t] = 0

(* Jobs are held, commit and edit in the order of their numbers: a job     *)
(* that is pending comes after all that, and the one that is held has      *)
(* committed nothing yet.                                                  *)
JobsInOrder ==
    /\ submitted \in 0..MaxJobs
    /\ pending \in Seq(1..submitted)
    /\ \A i, k \in DOMAIN pending : i < k => pending[i] < pending[k]
    /\ \A t \in Tasks : holds[t] <= submitted
    /\ \A i \in DOMAIN owner : owner[i] <= submitted
    /\ \A e \in 1..MaxEdits : author[e] <= submitted
    /\ \A k \in DOMAIN pending :
          /\ \A t \in Tasks : holds[t] < pending[k]
          /\ \A i \in DOMAIN owner : owner[i] < pending[k]
          /\ \A e \in 1..MaxEdits : author[e] < pending[k]
    /\ \A t \in Tasks : holds[t] # 0 => \A i \in DOMAIN owner : owner[i] < holds[t]
    /\ JobsCommitOnceInOrder

JobObjects == [op: {"apply", "undo"}, finished: BOOLEAN,
               status: {"absent", "queued", "running", "succeeded", "failed"},
               result: {"none", "ok", "notOk", "timeout"}]

(* A job has no result before its run has ended, and a run that has        *)
(* changed no file has made no edit.                                       *)
ResultsFit ==
    /\ job \in [1..MaxJobs -> JobObjects]
    /\ \A k \in DOMAIN pending : job[pending[k]].result = "none"
    /\ \A t \in Tasks : holds[t] # 0 =>
          /\ job[holds[t]].result = "none"
          /\ changed = {} => \A e \in 1..MaxEdits : author[e] # holds[t]
    /\ UnrecordedEditsAreNotReported

Inv == Shape /\ WorkerFits /\ OneRunPerHeldJob /\ JobsInOrder /\ ResultsFit

-----------------------------------------------------------------------------
(* What a step does to the vault and to the ghosts about it.               *)
Calm == UNCHANGED <<tree, commits, edits, author, owner, recorded>>

Wrote(f, who) ==
    /\ edits < MaxEdits /\ edits' = edits + 1
    /\ tree' = [tree EXCEPT ![f] = edits + 1]
    /\ author' = [author EXCEPT ![edits + 1] = who]
    /\ UNCHANGED <<commits, owner, recorded>>

Created(f) ==
    /\ edits < MaxEdits /\ edits' = edits + 1
    /\ tree' = [tree EXCEPT ![f] = edits + 1]
    /\ author' = [author EXCEPT ![edits + 1] = 0]
    /\ commits' = Append(commits, tree') /\ owner' = Append(owner, 0)
    /\ recorded' = recorded \cup {tree'[g] : g \in Files}

Records(who) ==
    /\ commits' = Append(commits, tree) /\ owner' = Append(owner, who)
    /\ recorded' = recorded \cup {tree[g] : g \in Files}
    /\ UNCHANGED <<tree, edits, author>>

TakesBack ==
    /\ Len(commits) > 1
    /\ commits' = SubSeq(commits, 1, Len(commits) - 1)
    /\ owner' = SubSeq(owner, 1, Len(owner) - 1)
    /\ tree' \in {tree, commits[Len(commits) - 1]}
    /\ UNCHANGED <<edits, author, recorded>>

LEMMA ZeroIsNobody == 0 \in JobsOrNone
  BY ServiceAssumption DEF JobsOrNone, Q!QueueAssumption

LEMMA Appended ==
    ASSUME NEW S, NEW s \in Seq(S), NEW c \in S
    PROVE  /\ Append(s, c) \in Seq(S) /\ Len(Append(s, c)) = Len(s) + 1 /\ Append(s, c) # << >>
           /\ Append(s, c)[Len(s) + 1] = c
           /\ \A i \in 1..Len(s) : Append(s, c)[i] = s[i]
  OBVIOUS

LEMMA LastTakenBack ==
    ASSUME NEW S, NEW s \in Seq(S), Len(s) > 1
    PROVE  /\ SubSeq(s, 1, Len(s) - 1) \in Seq(S)
           /\ Len(SubSeq(s, 1, Len(s) - 1)) = Len(s) - 1
           /\ \A i \in 1..(Len(s) - 1) : SubSeq(s, 1, Len(s) - 1)[i] = s[i]
           /\ s[Len(s) - 1] \in S
  <1>1. Len(s) \in Nat /\ Len(s) - 1 \in 1..Len(s)
    OBVIOUS
  <1> QED
    BY <1>1

LEMMA EditedTree ==
    ASSUME Shape, NEW f, edits < MaxEdits, edits' = edits + 1,
           tree' = [tree EXCEPT ![f] = edits + 1]
    PROVE  tree' \in Trees /\ edits' \in 0..MaxEdits /\ edits + 1 \in 1..MaxEdits
  <1>1. edits \in Nat /\ MaxEdits \in Nat /\ tree \in [Files -> 0..MaxEdits]
    BY ServiceAssumption DEF Shape, Trees, V!VaultAssumption
  <1>2. edits' \in 0..MaxEdits /\ edits + 1 \in 1..MaxEdits /\ edits + 1 \in 0..MaxEdits
    BY <1>1
  <1>3. tree' = [g \in Files |-> IF g = f THEN edits + 1 ELSE tree[g]]
    BY <1>1
  <1> QED
    BY <1>1, <1>2, <1>3 DEF Trees

(* Note, in the cases that occur.                                          *)
LEMMA NoteOfCalm ==
    ASSUME Shape, NEW who, Note(who), UNCHANGED <<tree, commits, edits>>
    PROVE  Calm
  <1>1. Len(commits) \in Nat \ {0} /\ Len(commits) \in DOMAIN commits
    BY DEF Shape
  <1>2. author' = author
    BY DEF Note
  <1>3. owner' = SubSeq(owner, 1, Len(owner))
    BY <1>1 DEF Note, Shape
  <1>4. owner' = owner
    BY <1>3 DEF Shape
  <1>5. {commits[Len(commits)][f] : f \in Files} \subseteq recorded
    BY <1>1 DEF Shape
  <1>6. recorded' = recorded
    BY <1>5 DEF Note
  <1> QED
    BY <1>2, <1>4, <1>6 DEF Calm

LEMMA NoteOfWrite ==
    ASSUME Shape, NEW who, Note(who), NEW f, edits < MaxEdits, edits' = edits + 1,
           tree' = [tree EXCEPT ![f] = edits + 1], commits' = commits
    PROVE  Wrote(f, who)
  <1>1. Len(commits) \in Nat \ {0} /\ Len(commits) \in DOMAIN commits /\ edits \in Nat
    BY ServiceAssumption DEF Shape, V!VaultAssumption
  <1>2. author' = [author EXCEPT ![edits + 1] = who]
    BY <1>1 DEF Note
  <1>3. owner' = SubSeq(owner, 1, Len(owner))
    BY <1>1 DEF Note, Shape
  <1>4. owner' = owner
    BY <1>3 DEF Shape
  <1>5. {commits[Len(commits)][g] : g \in Files} \subseteq recorded
    BY <1>1 DEF Shape
  <1>6. recorded' = recorded
    BY <1>5 DEF Note
  <1> QED
    BY <1>2, <1>4, <1>6 DEF Wrote

LEMMA NoteOfCommit ==
    ASSUME Shape, NEW who, Note(who), NEW T \in Trees, commits' = Append(commits, T)
    PROVE  /\ owner' = Append(owner, who)
           /\ recorded' = recorded \cup {T[g] : g \in Files}
  <1>1. Len(commits') = Len(commits) + 1 /\ Len(commits) \in Nat /\ commits'[Len(commits')] = T
    BY Appended DEF Shape
  <1> QED
    BY <1>1 DEF Note

LEMMA NoteOfUndo ==
    ASSUME Shape, NEW who, Note(who), V!UndoLastChange
    PROVE  TakesBack
  <1>1. /\ Len(commits) > 1 /\ commits' = SubSeq(commits, 1, Len(commits) - 1)
        /\ tree' = commits[Len(commits) - 1] \/ tree' = tree
        /\ edits' = edits
    BY DEF V!UndoLastChange
  <1>2. Len(commits') = Len(commits) - 1 /\ Len(commits) \in Nat
        /\ commits'[Len(commits')] = commits[Len(commits) - 1]
        /\ Len(commits) - 1 \in DOMAIN commits
    BY <1>1, LastTakenBack DEF Shape
  <1>3. author' = author
    BY <1>1 DEF Note
  <1>4. owner' = SubSeq(owner, 1, Len(owner) - 1)
    BY <1>2 DEF Note, Shape
  <1>5. {commits[Len(commits) - 1][g] : g \in Files} \subseteq recorded
    BY <1>2 DEF Shape
  <1>6. recorded' = recorded
    BY <1>2, <1>5 DEF Note
  <1> QED
    BY <1>1, <1>3, <1>4, <1>6 DEF TakesBack

LEMMA ShapeStep ==
    ASSUME Shape,
           \/ Calm
           \/ \E f : \E who \in JobsOrNone : Wrote(f, who)
           \/ \E f \in Files : Created(f)
           \/ \E who \in JobsOrNone : Records(who)
           \/ TakesBack
    PROVE  Shape'
  <1> USE ServiceAssumption DEF V!VaultAssumption
  <1>1. CASE Calm
    BY <1>1 DEF Calm, Shape
  <1>2. ASSUME NEW f, NEW who \in JobsOrNone, Wrote(f, who) PROVE Shape'
    <2>1. tree' \in Trees /\ edits' \in 0..MaxEdits
      BY <1>2, EditedTree DEF Wrote
    <2>2. author' \in [1..MaxEdits -> JobsOrNone]
      BY <1>2 DEF Wrote, Shape
    <2> QED
      BY <1>2, <2>1, <2>2 DEF Wrote, Shape
  <1>3. ASSUME NEW new \in Trees, NEW who \in JobsOrNone, commits' = Append(commits, new),
               owner' = Append(owner, who), recorded' = recorded \cup {new[g] : g \in Files}
        PROVE  /\ commits' \in Seq(Trees) /\ commits' # << >>
               /\ owner' \in Seq(JobsOrNone) /\ Len(owner') = Len(commits')
               /\ \A i \in DOMAIN commits' : \A f \in Files : commits'[i][f] \in recorded'
    <2>1. /\ commits' \in Seq(Trees) /\ commits' # << >> /\ Len(commits') = Len(commits) + 1
          /\ \A i \in 1..Len(commits) : commits'[i] = commits[i]
          /\ commits'[Len(commits) + 1] = new
      BY <1>3, Appended DEF Shape
    <2>2. owner' \in Seq(JobsOrNone) /\ Len(owner') = Len(owner) + 1
      BY <1>3, Appended DEF Shape
    <2>3. ASSUME NEW i \in DOMAIN commits', NEW f \in Files PROVE commits'[i][f] \in recorded'
      <3>1. CASE i \in 1..Len(commits)
        BY <1>3, <2>1, <3>1 DEF Shape
      <3>2. CASE i = Len(commits) + 1
        BY <1>3, <2>1, <3>2
      <3> QED
        BY <2>1, <3>1, <3>2 DEF Shape
    <2> QED
      BY <2>1, <2>2, <2>3 DEF Shape
  <1>4. ASSUME NEW f \in Files, Created(f) PROVE Shape'
    <2>1. tree' \in Trees /\ edits' \in 0..MaxEdits
      BY <1>4, EditedTree DEF Created
    <2>2. author' \in [1..MaxEdits -> JobsOrNone] /\ 0 \in JobsOrNone
      BY <1>4, ServiceAssumption DEF Created, Shape, JobsOrNone, Q!QueueAssumption
    <2> QED
      BY <1>3, <1>4, <2>1, <2>2 DEF Created, Shape
  <1>5. ASSUME NEW who \in JobsOrNone, Records(who) PROVE Shape'
    BY <1>3, <1>5 DEF Records, Shape
  <1>6. CASE TakesBack
    <2>1. /\ commits' \in Seq(Trees) /\ Len(commits') = Len(commits) - 1 /\ commits' # << >>
          /\ \A i \in 1..(Len(commits) - 1) : commits'[i] = commits[i]
          /\ commits[Len(commits) - 1] \in Trees
      BY <1>6, LastTakenBack DEF TakesBack, Shape
    <2>2. owner' \in Seq(JobsOrNone) /\ Len(owner') = Len(owner) - 1
      BY <1>6, LastTakenBack DEF TakesBack, Shape
    <2>3. \A i \in DOMAIN commits' : \A f \in Files : commits'[i][f] \in recorded'
      BY <1>6, <2>1 DEF TakesBack, Shape
    <2> QED
      BY <1>6, <2>1, <2>2, <2>3 DEF TakesBack, Shape
  <1> QED
    BY <1>1, <1>2, <1>4, <1>5, <1>6

-----------------------------------------------------------------------------
(* What the actions that reach the vault do to it.                         *)
LEMMA RunStepEffect ==
    ASSUME Shape, NEW t, RunStep(t)
    PROVE  /\ at[t] = "agent" /\ UNCHANGED <<queueVars, warned>>
           /\ phase # "idle" /\ phase' # "idle"
           /\ changed' = {} => changed = {}
           /\ \/ Calm
              \/ \E f : Wrote(f, holds[t]) /\ changed' # {}
              \/ \E f : Wrote(f, 0)
              \/ \E f \in Files : Created(f)
  <1> USE DEF V!LoopFree
  <1>1. at[t] = "agent" /\ UNCHANGED <<queueVars, warned>>
    BY DEF RunStep
  <1>2. CASE (V!ModelCallsTools \/ V!AskAgain) /\ Note(holds[t])
    <2>1. /\ phase # "idle" /\ phase' # "idle" /\ changed' = changed
          /\ UNCHANGED <<tree, commits, edits>>
      BY <1>2 DEF V!ModelCallsTools, V!AskAgain
    <2> QED
      BY <1>1, <1>2, <2>1, NoteOfCalm
  <1>3. ASSUME NEW f \in Files, V!WriteTool(f), Note(holds[t])
        PROVE  phase # "idle" /\ phase' # "idle" /\ Wrote(f, holds[t]) /\ changed' # {}
    <2>1. /\ phase # "idle" /\ phase' # "idle" /\ changed' # {} /\ commits' = commits
          /\ edits < MaxEdits /\ edits' = edits + 1 /\ tree' = [tree EXCEPT ![f] = edits + 1]
      BY <1>3 DEF V!WriteTool, V!Edit
    <2> QED
      BY <1>3, <2>1, NoteOfWrite
  <1>4. ASSUME NEW f \in Files, NEW committed \in BOOLEAN, V!TemplateTool(f, committed), Note(0)
        PROVE  /\ phase # "idle" /\ phase' # "idle" /\ (changed' = {} => changed = {})
               /\ Wrote(f, 0) \/ Created(f)
    <2>1. /\ phase # "idle" /\ phase' # "idle" /\ (changed' = {} => changed = {})
          /\ edits < MaxEdits /\ edits' = edits + 1 /\ tree' = [tree EXCEPT ![f] = edits + 1]
      BY <1>4 DEF V!TemplateTool, V!Edit
    <2>2. CASE commits' = commits
      BY <1>4, <2>1, <2>2, NoteOfWrite
    <2>3. CASE commits' = Append(commits, tree')
      <3>1. tree' \in Trees
        BY <2>1, EditedTree
      <3>2. author' = [author EXCEPT ![edits + 1] = 0]
        <4>1. edits \in Nat
          BY ServiceAssumption DEF Shape, V!VaultAssumption
        <4> QED
          BY <1>4, <2>1, <4>1 DEF Note
      <3>3. owner' = Append(owner, 0) /\ recorded' = recorded \cup {tree'[g] : g \in Files}
        BY <1>4, <2>3, <3>1, NoteOfCommit
      <3> QED
        BY <2>1, <2>3, <3>2, <3>3 DEF Created
    <2>4. commits' = commits \/ commits' = Append(commits, tree')
      BY <1>4 DEF V!TemplateTool, V!Commit
    <2> QED
      BY <2>1, <2>2, <2>3, <2>4
  <1>5. \/ (V!ModelCallsTools \/ V!AskAgain) /\ Note(holds[t])
        \/ \E f \in Files : V!WriteTool(f) /\ Note(holds[t])
        \/ \E f \in Files, committed \in BOOLEAN : V!TemplateTool(f, committed) /\ Note(0)
    BY Zenon DEF RunStep
  <1>6. CASE \E f \in Files : V!WriteTool(f) /\ Note(holds[t])
    BY <1>1, <1>3, <1>6
  <1>7. CASE \E f \in Files, committed \in BOOLEAN : V!TemplateTool(f, committed) /\ Note(0)
    BY <1>1, <1>4, <1>7
  <1> QED
    BY <1>2, <1>5, <1>6, <1>7

LEMMA EndsWithoutEffect ==
    ASSUME NEW kind, V!EndsWithout(kind)
    PROVE  /\ phase' = "idle" /\ last'.kind = kind /\ changed' = {}
           /\ UNCHANGED <<tree, commits, edits>>
  BY DEF V!EndsWithout, V!EndsWith, V!Result

LEMMA FinishEffect ==
    ASSUME NEW committed \in BOOLEAN, NEW synced \in BOOLEAN,
           V!FinishChanged(committed, synced)
    PROVE  /\ phase' = "idle" /\ last'.kind = "ok" /\ last'.warning = ~(committed /\ synced)
           /\ UNCHANGED <<tree, edits>>
           /\ commits' = IF committed THEN Append(commits, tree) ELSE commits
  BY DEF V!FinishChanged, V!EndsWith, V!Result, V!Commit

LEMMA EndJobEffect ==
    ASSUME Shape, NEW t, EndJob(t)
    PROVE  /\ phase' = "idle"
           /\ Q!AgentReturns(t, last'.kind)
           /\ last'.kind \in {"ok", "notOk", "timeout", "raised"}
           /\ warned \subseteq warned'
           /\ \/ Calm /\ (last'.kind = "ok" => changed = {} \/ holds[t] \in warned')
              \/ Records(holds[t])
  <1>1. Q!AgentReturns(t, last'.kind) /\ warned \subseteq warned' /\ Note(holds[t])
    BY DEF EndJob
  <1>2. last'.warning => holds[t] \in warned'
    BY DEF EndJob
  <1>3. ASSUME NEW kind \in {"notOk", "timeout", "raised"}, V!EndsWithout(kind)
        PROVE  phase' = "idle" /\ last'.kind = kind /\ Calm
    BY <1>1, <1>3, EndsWithoutEffect, NoteOfCalm
  <1>4. CASE V!FinishUnchanged
    <2>1. /\ phase' = "idle" /\ last'.kind = "ok" /\ changed = {}
          /\ UNCHANGED <<tree, commits, edits>>
      BY <1>4 DEF V!FinishUnchanged, V!EndsWith, V!Result
    <2> QED
      BY <1>1, <2>1, NoteOfCalm
  <1>5. ASSUME NEW committed \in BOOLEAN, NEW synced \in BOOLEAN,
           V!FinishChanged(committed, synced)
        PROVE  /\ phase' = "idle" /\ last'.kind = "ok"
               /\ (Calm /\ holds[t] \in warned') \/ Records(holds[t])
    <2>1. CASE committed
      <3>1. /\ phase' = "idle" /\ last'.kind = "ok" /\ UNCHANGED <<tree, edits>>
            /\ commits' = Append(commits, tree) /\ tree \in Trees
        BY <1>5, <2>1, FinishEffect DEF Shape
      <3>2. author' = author
        BY <1>1, <3>1 DEF Note
      <3> QED
        BY <1>1, <3>1, <3>2, NoteOfCommit DEF Records
    <2>2. CASE ~committed
      <3>1. /\ phase' = "idle" /\ last'.kind = "ok" /\ last'.warning
            /\ UNCHANGED <<tree, commits, edits>>
        BY <1>5, <2>2, FinishEffect
      <3> QED
        BY <1>1, <1>2, <3>1, NoteOfCalm
    <2> QED
      BY <2>1, <2>2
  <1>6. \/ \E kind \in {"notOk", "timeout", "raised"} : V!EndsWithout(kind)
        \/ V!FinishUnchanged
        \/ \E committed, synced \in BOOLEAN : V!FinishChanged(committed, synced)
    BY DEF EndJob, RunResult, V!ExceedsLimit, V!ModelFails, V!ToolRaises, V!RunTimesOut
  <1> QED
    BY <1>1, <1>3, <1>4, <1>5, <1>6

LEMMA UndoJobEffect ==
    ASSUME Shape, NEW t, UndoJob(t)
    PROVE  /\ Q!RunUndo(t, "ok") \/ Q!RunUndo(t, "notOk")
           /\ Calm \/ TakesBack
           /\ UNCHANGED <<phase, changed, warned>>
  <1>1. Note(0) /\ warned' = warned
    BY DEF UndoJob
  <1>2. CASE V!UndoLastChange /\ Q!RunUndo(t, "ok")
    <2>1. UNCHANGED <<phase, changed>>
      BY <1>2 DEF V!UndoLastChange, V!runVars
    <2> QED
      BY <1>1, <1>2, <2>1, NoteOfUndo
  <1>3. CASE UNCHANGED vaultVars /\ Q!RunUndo(t, "notOk")
    <2>1. UNCHANGED <<phase, changed, tree, commits, edits>>
      BY <1>3 DEF vaultVars
    <2> QED
      BY <1>1, <1>3, <2>1, NoteOfCalm
  <1> QED
    BY <1>2, <1>3 DEF UndoJob

LEMMA CrashAfterCommitEffect ==
    ASSUME NEW t, CrashAfterCommit(t)
    PROVE  /\ LosesQueue /\ phase' = "idle" /\ warned' = warned
           /\ Records(holds[t])
  <1>1. /\ phase' = "idle" /\ UNCHANGED <<tree, edits>>
        /\ commits' = Append(commits, tree)
    BY FinishEffect DEF CrashAfterCommit
  <1> QED
    BY <1>1 DEF CrashAfterCommit, Records

LEMMA RouteEffect ==
    ASSUME Shape, Route
    PROVE  /\ UNCHANGED <<queueVars, phase, changed, warned>>
           /\ \/ Calm
              \/ \E f : Wrote(f, 0)
              \/ Records(0)
              \/ TakesBack
  <1> USE DEF V!runVars
  <1>1. Note(0) /\ UNCHANGED <<queueVars, warned>>
    BY DEF Route
  <1>2. CASE V!PutFails \/ \E f \in Files : V!PutCheck(f, FALSE)
    <2>1. UNCHANGED <<phase, changed, tree, commits, edits>>
      BY <1>2 DEF V!PutFails, V!PutCheck
    <2> QED
      BY <1>1, <2>1, NoteOfCalm
  <1>3. CASE V!PutWrite
    <2>1. /\ UNCHANGED <<phase, changed, commits>>
          /\ edits < MaxEdits /\ edits' = edits + 1
          /\ tree' = [tree EXCEPT ![put.file] = edits + 1]
      BY <1>3 DEF V!PutWrite, V!Edit
    <2> QED
      BY <1>1, <2>1, NoteOfWrite
  <1>4. CASE V!VaultUndo
    <2>1. UNCHANGED <<phase, changed>>
      BY <1>4 DEF V!VaultUndo, V!UndoLastChange
    <2> QED
      BY <1>1, <1>4, <2>1, NoteOfUndo DEF V!VaultUndo
  <1>5. ASSUME NEW committed \in BOOLEAN, V!PutCommit(committed, FALSE)
        PROVE  UNCHANGED <<phase, changed>> /\ (Calm \/ Records(0))
    <2>1. /\ UNCHANGED <<phase, changed, tree, edits>> /\ tree \in Trees
          /\ commits' = commits \/ commits' = Append(commits, tree)
      BY <1>5 DEF V!PutCommit, V!Commit, Shape
    <2>2. author' = author
      BY <1>1, <2>1 DEF Note
    <2> QED
      BY <1>1, <2>1, <2>2, NoteOfCalm, NoteOfCommit DEF Records
  <1> QED
    BY <1>1, <1>2, <1>3, <1>4, <1>5 DEF Route

-----------------------------------------------------------------------------
(* The id that the worker takes is the oldest of those pending.            *)
LEMMA PendingHead ==
    ASSUME JobsInOrder, pending # << >>
    PROVE  /\ Head(pending) = pending[1] /\ 1 \in DOMAIN pending
           /\ Head(pending) \in 1..submitted /\ Head(pending) \in JobsOrNone /\ Head(pending) # 0
           /\ Tail(pending) \in Seq(1..submitted)
           /\ \A k \in DOMAIN Tail(pending) :
                 /\ k + 1 \in DOMAIN pending /\ Tail(pending)[k] = pending[k + 1]
                 /\ pending[1] < Tail(pending)[k]
  <1>1. pending \in Seq(1..submitted) /\ submitted \in 0..MaxJobs /\ MaxJobs \in Nat
    BY ServiceAssumption DEF JobsInOrder, Q!QueueAssumption
  <1>2. Len(pending) \in Nat \ {0} /\ Head(pending) = pending[1] /\ 1 \in DOMAIN pending
    BY <1>1
  <1>3. Head(pending) \in 1..submitted
    BY <1>1, <1>2
  <1>4. Tail(pending) \in Seq(1..submitted)
    BY <1>1
  <1>5. ASSUME NEW k \in DOMAIN Tail(pending)
        PROVE  k + 1 \in DOMAIN pending /\ Tail(pending)[k] = pending[k + 1] /\ 1 < k + 1
    BY <1>1, <1>2
  <1>6. \A k \in DOMAIN Tail(pending) : pending[1] < Tail(pending)[k]
    BY <1>2, <1>5 DEF JobsInOrder
  <1> QED
    BY <1>1, <1>2, <1>3, <1>4, <1>5, <1>6 DEF JobsOrNone

-----------------------------------------------------------------------------
(* Who holds a job, and when a run is in progress.                         *)
LEMMA WorkerStep ==
    ASSUME Inv, Next
    PROVE  WorkerFits' /\ OneRunPerHeldJob'
  <1> USE DEF Inv, WorkerFits, OneRunPerHeldJob, queueVars
  <1>1. ASSUME NEW t \in Tasks, Boot(t) PROVE WorkerFits' /\ OneRunPerHeldJob'
    <2>1. /\ \A u \in Tasks : at[u] = "dead" /\ holds[u] = 0
          /\ workerTask' = t /\ at' = [at EXCEPT ![t] = "get"]
          /\ UNCHANGED <<holds, phase>>
      BY <1>1 DEF Boot, QueueOnly, Q!Start, Q!WorkerDone, vaultVars
    <2> QED
      BY <2>1
  <1>2. CASE Stop
    <2>1. /\ at[workerTask] \in {"get", "agent"} /\ at' = [at EXCEPT ![workerTask] = "cancelled"]
          /\ UNCHANGED <<holds, phase, workerTask>>
      BY <1>2 DEF Stop, QueueOnly, Q!Stop, vaultVars
    <2> QED
      BY <2>1
  <1>3. ASSUME NEW t \in Tasks, BeginJob(t) PROVE WorkerFits' /\ OneRunPerHeldJob'
    <2>1. /\ at[t] = "get" /\ at' = [at EXCEPT ![t] = "agent"]
          /\ holds' = [holds EXCEPT ![t] = Head(pending)] /\ workerTask' = workerTask
          /\ phase' = "asking"
      BY <1>3 DEF BeginJob, Q!BeginApply, V!BeginRun
    <2>2. Head(pending) \in JobsOrNone /\ Head(pending) # 0
      BY <1>3, PendingHead DEF BeginJob, Q!BeginApply
    <2> QED
      BY <2>1, <2>2
  <1>4. ASSUME NEW t \in Tasks, at' = [at EXCEPT ![t] = "get"], holds' = [holds EXCEPT ![t] = 0],
               at[t] = "agent", workerTask' = workerTask, phase' = "idle"
        PROVE  WorkerFits' /\ OneRunPerHeldJob'
    <2>1. 0 \in JobsOrNone
      BY ServiceAssumption DEF JobsOrNone, Q!QueueAssumption
    <2>2. \A u \in Tasks : u # t => at[u] = "dead"
      BY <1>4
    <2> QED
      BY <1>4, <2>1, <2>2
  <1>5. ASSUME NEW t \in Tasks, EndJob(t) PROVE WorkerFits' /\ OneRunPerHeldJob'
    BY <1>4, <1>5, EndJobEffect DEF Q!AgentReturns
  <1>6. ASSUME NEW t \in Tasks, Interrupt(t) PROVE WorkerFits' /\ OneRunPerHeldJob'
    <2>1. /\ at[t] = "cancelled" /\ at' = [at EXCEPT ![t] = "dead"]
          /\ holds' = [holds EXCEPT ![t] = 0] /\ workerTask' = NoTask
          /\ IF holds[t] = 0 THEN phase' = phase ELSE phase' = "idle"
      BY <1>6, EndsWithoutEffect DEF Interrupt, Q!Unwind, vaultVars
    <2>2. 0 \in JobsOrNone
      BY ServiceAssumption DEF JobsOrNone, Q!QueueAssumption
    <2>3. \A u \in Tasks : u # t => at[u] = "dead"
      BY <2>1
    <2> QED
      BY <2>1, <2>2, <2>3
  <1>7. CASE LosesQueue /\ phase' = "idle"
    <2>1. 0 \in JobsOrNone
      BY ServiceAssumption DEF JobsOrNone, Q!QueueAssumption
    <2> QED
      BY <1>7, <2>1 DEF LosesQueue
  <1>8. CASE Crash
    BY <1>7, <1>8 DEF Crash
  <1>9. ASSUME NEW t \in Tasks, CrashAfterCommit(t) PROVE WorkerFits' /\ OneRunPerHeldJob'
    BY <1>7, <1>9, FinishEffect DEF CrashAfterCommit
  <1>10. CASE UNCHANGED <<at, holds, workerTask, phase>>
    BY <1>10
  <1>11. ASSUME NEW op, Accept(op) PROVE UNCHANGED <<at, holds, workerTask, phase>>
    BY <1>11 DEF Accept, QueueOnly, Q!Submit, vaultVars
  <1>12. ASSUME NEW t, Skip(t) PROVE UNCHANGED <<at, holds, workerTask, phase>>
    BY <1>12 DEF Skip, QueueOnly, Q!SkipEvicted, vaultVars
  <1>13. ASSUME NEW t, UndoJob(t) PROVE UNCHANGED <<at, holds, workerTask, phase>>
    BY <1>13, UndoJobEffect DEF Q!RunUndo
  <1>14. CASE Route
    BY <1>10, <1>14, RouteEffect
  <1>15. ASSUME NEW t \in Tasks, RunStep(t) PROVE WorkerFits' /\ OneRunPerHeldJob'
    <2>1. /\ UNCHANGED <<at, holds, workerTask>>
          /\ phase # "idle" /\ phase' # "idle"
      BY <1>15, RunStepEffect
    <2> QED
      BY <2>1
  <1> QED
    BY <1>1, <1>2, <1>3, <1>5, <1>6, <1>8, <1>9, <1>10, <1>11, <1>12, <1>13, <1>14, <1>15 DEF Next

-----------------------------------------------------------------------------
(* The order of the jobs.                                                  *)
OwnerGrows(who) ==
    \A i \in DOMAIN owner' :
        \/ i \in DOMAIN owner /\ owner'[i] = owner[i]
        \/ i = Len(owner) + 1 /\ owner'[i] = who

AuthorGrows(who) == \A e \in 1..MaxEdits : author'[e] = author[e] \/ author'[e] = who

LEMMA Grows ==
    ASSUME Shape, Shape'
    PROVE  /\ Calm \/ TakesBack => OwnerGrows(0) /\ AuthorGrows(0)
           /\ \A f : Created(f) => OwnerGrows(0) /\ AuthorGrows(0)
           /\ \A f, who : Wrote(f, who) => OwnerGrows(0) /\ AuthorGrows(who)
           /\ \A who \in JobsOrNone : Records(who) => OwnerGrows(who) /\ AuthorGrows(0)
  <1> USE DEF OwnerGrows, AuthorGrows
  <1>1. owner \in Seq(JobsOrNone) /\ Len(owner) \in Nat /\ DOMAIN owner = 1..Len(owner)
        /\ author \in [1..MaxEdits -> JobsOrNone] /\ 0 \in JobsOrNone
    BY ServiceAssumption DEF Shape, JobsOrNone, Q!QueueAssumption
  <1>2. ASSUME NEW who \in JobsOrNone, owner' = Append(owner, who) PROVE OwnerGrows(who)
    BY <1>1, <1>2, Appended
  <1>3. ASSUME TakesBack PROVE OwnerGrows(0) /\ AuthorGrows(0)
    <2>1. /\ Len(owner) > 1 /\ owner' = SubSeq(owner, 1, Len(owner) - 1) /\ author' = author
      BY <1>3 DEF TakesBack, Shape
    <2>2. DOMAIN owner' = 1..(Len(owner) - 1) /\ \A i \in 1..(Len(owner) - 1) : owner'[i] = owner[i]
      BY <1>1, <2>1, LastTakenBack
    <2> QED
      BY <1>1, <2>1, <2>2
  <1>4. ASSUME NEW f, NEW who, author' = [author EXCEPT ![edits + 1] = who] PROVE AuthorGrows(who)
    BY <1>1, <1>4
  <1>5. Calm => OwnerGrows(0) /\ AuthorGrows(0)
    BY DEF Calm
  <1>6. \A f : Created(f) => OwnerGrows(0) /\ AuthorGrows(0)
    BY <1>1, <1>2, <1>4 DEF Created
  <1>7. \A f, who : Wrote(f, who) => OwnerGrows(0) /\ AuthorGrows(who)
    BY <1>4 DEF Wrote
  <1>8. \A who \in JobsOrNone : Records(who) => OwnerGrows(who) /\ AuthorGrows(0)
    BY <1>2 DEF Records
  <1> QED
    BY <1>3, <1>5, <1>6, <1>7, <1>8

LEMMA OrderStep ==
    ASSUME Shape, JobsInOrder,
           NEW ow \in Nat, NEW au \in Nat, OwnerGrows(ow), AuthorGrows(au),
           submitted' \in 0..MaxJobs, submitted <= submitted',
           ow <= submitted', au <= submitted',
           pending' \in Seq(1..submitted'),
           \A i, k \in DOMAIN pending' : i < k => pending'[i] < pending'[k],
           \A t \in Tasks : holds'[t] <= submitted',
           \A k \in DOMAIN pending' :
               /\ ow < pending'[k] /\ au < pending'[k]
               /\ \A t \in Tasks : holds'[t] < pending'[k]
               /\ \A i \in DOMAIN owner : owner[i] < pending'[k]
               /\ \A e \in 1..MaxEdits : author[e] < pending'[k],
           \A t \in Tasks : holds'[t] # 0 =>
               ow < holds'[t] /\ \A i \in DOMAIN owner : owner[i] < holds'[t],
           ow # 0 => \A i \in DOMAIN owner : owner[i] < ow
    PROVE  JobsInOrder'
  <1>1. /\ \A i \in DOMAIN owner : owner[i] \in Nat /\ owner[i] <= submitted /\ i \in 1..Len(owner)
        /\ \A e \in 1..MaxEdits : author[e] \in Nat /\ author[e] <= submitted
        /\ submitted \in Nat /\ submitted' \in Nat /\ Len(owner) \in Nat
    BY ServiceAssumption DEF Shape, JobsInOrder, JobsOrNone, Q!QueueAssumption
  <1>2. \A i \in DOMAIN owner' : owner'[i] <= submitted'
    BY <1>1 DEF OwnerGrows
  <1>3. \A e \in 1..MaxEdits : author'[e] <= submitted'
    BY <1>1 DEF AuthorGrows
  <1>4. \A k \in DOMAIN pending' :
            /\ \A i \in DOMAIN owner' : owner'[i] < pending'[k]
            /\ \A e \in 1..MaxEdits : author'[e] < pending'[k]
    BY DEF OwnerGrows, AuthorGrows
  <1>5. \A t \in Tasks : holds'[t] # 0 => \A i \in DOMAIN owner' : owner'[i] < holds'[t]
    BY DEF OwnerGrows
  <1>6. ASSUME NEW i \in DOMAIN owner', NEW k \in DOMAIN owner', i < k, owner'[i] # 0, owner'[k] # 0
        PROVE  owner'[i] < owner'[k]
    <2>1. CASE k = Len(owner) + 1 /\ owner'[k] = ow
      <3>1. i \in DOMAIN owner /\ owner'[i] = owner[i]
        BY <1>1, <1>6, <2>1 DEF OwnerGrows
      <3> QED
        BY <1>6, <2>1, <3>1
    <2>2. CASE k \in DOMAIN owner /\ owner'[k] = owner[k]
      <3>1. i \in DOMAIN owner /\ owner'[i] = owner[i]
        BY <1>1, <1>6, <2>2 DEF OwnerGrows
      <3> QED
        BY <1>6, <2>2, <3>1 DEF JobsInOrder, JobsCommitOnceInOrder
    <2> QED
      BY <2>1, <2>2 DEF OwnerGrows
  <1> QED
    BY <1>2, <1>3, <1>4, <1>5, <1>6 DEF JobsInOrder, JobsCommitOnceInOrder

(* A worker takes the oldest id, for a job that it then holds or for one   *)
(* that it ends or drops at once.                                          *)
LEMMA OrderOfTaking ==
    ASSUME Inv, OwnerGrows(0), AuthorGrows(0), pending # << >>,
           pending' = Tail(pending), submitted' = submitted,
           \A t \in Tasks : holds'[t] = holds[t] \/ holds'[t] = Head(pending)
    PROVE  JobsInOrder'
  <1> USE DEF Inv
  <1>1. submitted \in 0..MaxJobs /\ submitted \in Nat /\ MaxJobs \in Nat
    BY ServiceAssumption DEF JobsInOrder, Q!QueueAssumption
  <1>2. /\ Tail(pending) \in Seq(1..submitted) /\ Head(pending) \in 1..submitted
        /\ Head(pending) = pending[1] /\ 1 \in DOMAIN pending
        /\ \A k \in DOMAIN Tail(pending) :
              /\ k + 1 \in DOMAIN pending /\ Tail(pending)[k] = pending[k + 1]
              /\ pending[1] < Tail(pending)[k]
    BY PendingHead
  <1>3. ASSUME NEW m \in DOMAIN Tail(pending), NEW k \in DOMAIN Tail(pending), m < k
        PROVE  Tail(pending)[m] < Tail(pending)[k]
    <2>1. m + 1 < k + 1
      BY <1>2, <1>3
    <2> QED
      BY <1>2, <2>1 DEF JobsInOrder
  <1>4. \A t \in Tasks : holds'[t] <= submitted
    BY <1>1, <1>2 DEF JobsInOrder
  <1>5. ASSUME NEW k \in DOMAIN Tail(pending)
        PROVE  /\ 0 < Tail(pending)[k]
               /\ \A t \in Tasks : holds'[t] < Tail(pending)[k]
               /\ \A n \in DOMAIN owner : owner[n] < Tail(pending)[k]
               /\ \A e \in 1..MaxEdits : author[e] < Tail(pending)[k]
    <2>1. /\ k + 1 \in DOMAIN pending /\ Tail(pending)[k] = pending[k + 1]
          /\ Head(pending) < Tail(pending)[k] /\ pending[k + 1] \in 1..submitted
      BY <1>1, <1>2 DEF JobsInOrder
    <2>2. 0 < Tail(pending)[k]
      BY <1>1, <2>1
    <2>3. \A t \in Tasks : holds'[t] < Tail(pending)[k]
      BY <2>1 DEF JobsInOrder
    <2> QED
      BY <2>1, <2>2, <2>3 DEF JobsInOrder
  <1>6. ASSUME NEW t \in Tasks, holds'[t] # 0
        PROVE  0 < holds'[t] /\ \A n \in DOMAIN owner : owner[n] < holds'[t]
    BY <1>2, <1>6 DEF JobsInOrder, WorkerFits, JobsOrNone
  <1> QED
    BY <1>1, <1>2, <1>3, <1>4, <1>5, <1>6, OrderStep

(* A job that is held may end, with its commit.                            *)
LEMMA OrderOfHolding ==
    ASSUME Inv, UNCHANGED <<submitted, pending>>,
           NEW ow \in Nat, NEW au \in Nat, OwnerGrows(ow), AuthorGrows(au),
           \A u \in {ow, au} : u = 0 \/ \E t \in Tasks : u = holds[t],
           \A t \in Tasks : holds'[t] = holds[t] \/ holds'[t] = 0,
           ow = 0 \/ \A t \in Tasks : holds'[t] = 0
    PROVE  JobsInOrder'
  <1> USE DEF Inv
  <1>1. submitted \in 0..MaxJobs /\ submitted \in Nat /\ \A t \in Tasks : holds[t] \in Nat
    BY ServiceAssumption DEF JobsInOrder, WorkerFits, JobsOrNone, Q!QueueAssumption
  <1>2. /\ ow <= submitted /\ au <= submitted
        /\ ow # 0 => \A i \in DOMAIN owner : owner[i] < ow
    BY <1>1 DEF JobsInOrder
  <1>3. \A t \in Tasks : holds'[t] <= submitted
    BY <1>1 DEF JobsInOrder
  <1>4. ASSUME NEW k \in DOMAIN pending
        PROVE  /\ ow < pending[k] /\ au < pending[k]
               /\ \A t \in Tasks : holds'[t] < pending[k]
    <2>1. pending[k] \in 1..submitted
      BY DEF JobsInOrder
    <2>2. 0 < pending[k] /\ \A t \in Tasks : holds[t] < pending[k]
      BY <1>1, <2>1 DEF JobsInOrder
    <2> QED
      BY <2>2
  <1>5. ASSUME NEW t \in Tasks, holds'[t] # 0
        PROVE  ow < holds'[t] /\ \A i \in DOMAIN owner : owner[i] < holds'[t]
    BY <1>1, <1>5 DEF JobsInOrder
  <1>6. /\ pending \in Seq(1..submitted)
        /\ \A i, k \in DOMAIN pending : i < k => pending[i] < pending[k]
        /\ \A k \in DOMAIN pending :
              /\ \A i \in DOMAIN owner : owner[i] < pending[k]
              /\ \A e \in 1..MaxEdits : author[e] < pending[k]
    BY DEF JobsInOrder
  <1> QED
    BY <1>1, <1>2, <1>3, <1>4, <1>5, <1>6, OrderStep

LEMMA OrderOfAccepting ==
    ASSUME Inv, Calm, submitted < MaxJobs, submitted' = submitted + 1,
           pending' = Append(pending, submitted + 1), holds' = holds
    PROVE  JobsInOrder'
  <1> USE DEF Inv
  <1>1. /\ submitted' \in 0..MaxJobs /\ submitted \in Nat /\ Len(pending) \in Nat
        /\ DOMAIN pending = 1..Len(pending)
        /\ \A i \in DOMAIN pending : pending[i] \in Nat /\ pending[i] <= submitted
    BY ServiceAssumption DEF JobsInOrder, Q!QueueAssumption
  <1>2. pending \in Seq(1..(submitted + 1)) /\ submitted + 1 \in 1..(submitted + 1)
    BY <1>1 DEF JobsInOrder
  <1>3. /\ pending' \in Seq(1..(submitted + 1)) /\ DOMAIN pending' = 1..(Len(pending) + 1)
        /\ pending'[Len(pending) + 1] = submitted + 1
        /\ \A i \in 1..Len(pending) : pending'[i] = pending[i]
    BY <1>2, Appended
  <1>4. ASSUME NEW i \in DOMAIN pending', NEW k \in DOMAIN pending', i < k
        PROVE  pending'[i] < pending'[k]
    <2>1. CASE k = Len(pending) + 1
      BY <1>1, <1>3, <1>4, <2>1
    <2>2. CASE k \in 1..Len(pending)
      BY <1>1, <1>3, <1>4, <2>2 DEF JobsInOrder
    <2> QED
      BY <1>1, <1>3, <2>1, <2>2
  <1>5. ASSUME NEW k \in DOMAIN pending'
        PROVE  /\ 0 < pending'[k]
               /\ \A t \in Tasks : holds[t] < pending'[k]
               /\ \A i \in DOMAIN owner : owner[i] < pending'[k]
               /\ \A e \in 1..MaxEdits : author[e] < pending'[k]
    <2>1. CASE k = Len(pending) + 1
      <3>1. \A t \in Tasks : holds[t] \in Nat /\ holds[t] < submitted + 1
        BY <1>1 DEF JobsInOrder, WorkerFits, JobsOrNone
      <3>2. \A i \in DOMAIN owner : owner[i] \in Nat /\ owner[i] < submitted + 1
        <4>1. \A i \in DOMAIN owner : owner[i] \in Nat
          BY ServiceAssumption DEF Shape, JobsOrNone, Q!QueueAssumption
        <4> QED
          BY <1>1, <4>1 DEF JobsInOrder
      <3>3. \A e \in 1..MaxEdits : author[e] \in Nat /\ author[e] < submitted + 1
        BY <1>1 DEF JobsInOrder, Shape, JobsOrNone
      <3> QED
        BY <1>1, <1>3, <2>1, <3>1, <3>2, <3>3
    <2>2. CASE k \in 1..Len(pending)
      <3>1. pending[k] \in 1..submitted
        BY <1>1, <2>2 DEF JobsInOrder
      <3> QED
        BY <1>1, <1>3, <2>2, <3>1 DEF JobsInOrder
    <2> QED
      BY <1>1, <1>3, <2>1, <2>2
  <1>6. OwnerGrows(0) /\ AuthorGrows(0)
    BY DEF Calm, OwnerGrows, AuthorGrows
  <1>7. \A t \in Tasks : holds[t] \in Nat /\ holds[t] <= submitted + 1
    BY <1>1 DEF JobsInOrder, WorkerFits, JobsOrNone
  <1>8. \A t \in Tasks : holds[t] # 0 => 0 < holds[t] /\ \A i \in DOMAIN owner : owner[i] < holds[t]
    BY <1>7 DEF JobsInOrder
  <1> QED
    BY <1>1, <1>3, <1>4, <1>5, <1>6, <1>7, <1>8, OrderStep

LEMMA JobsInOrderStep ==
    ASSUME Inv, Shape', Next
    PROVE  JobsInOrder'
  <1> USE DEF Inv, queueVars
  <1>0. /\ 0 \in Nat /\ 0 \in JobsOrNone
        /\ \A t \in Tasks : holds[t] \in Nat /\ holds[t] \in JobsOrNone
    BY ServiceAssumption DEF WorkerFits, JobsOrNone, Q!QueueAssumption
  <1>1. CASE Calm /\ UNCHANGED <<submitted, pending, holds>>
    BY <1>0, <1>1, Grows, OrderOfHolding
  <1>2. ASSUME NEW t \in Tasks, Boot(t) PROVE JobsInOrder'
    BY <1>1, <1>2 DEF Boot, QueueOnly, Q!Start, vaultVars, ghosts, Calm
  <1>3. CASE Stop
    BY <1>1, <1>3 DEF Stop, QueueOnly, Q!Stop, vaultVars, ghosts, Calm
  <1>4. ASSUME NEW op, Accept(op) PROVE JobsInOrder'
    BY <1>4, OrderOfAccepting DEF Accept, QueueOnly, Q!Submit, vaultVars, ghosts, Calm
  <1>5. ASSUME NEW t \in Tasks, Skip(t) PROVE JobsInOrder'
    <2>1. /\ Calm /\ pending # << >> /\ pending' = Tail(pending)
          /\ UNCHANGED <<submitted, holds>>
      BY <1>5 DEF Skip, QueueOnly, Q!SkipEvicted, vaultVars, ghosts, Calm
    <2> QED
      BY <2>1, Grows, OrderOfTaking
  <1>6. ASSUME NEW t \in Tasks, BeginJob(t) PROVE JobsInOrder'
    <2>1. /\ Calm /\ pending # << >> /\ pending' = Tail(pending) /\ submitted' = submitted
          /\ holds' = [holds EXCEPT ![t] = Head(pending)]
      BY <1>6 DEF BeginJob, Q!BeginApply, V!BeginRun, ghosts, Calm
    <2>2. \A u \in Tasks : holds'[u] = holds[u] \/ holds'[u] = Head(pending)
      BY <2>1 DEF WorkerFits
    <2> QED
      BY <2>1, <2>2, Grows, OrderOfTaking
  <1>7. ASSUME NEW t \in Tasks, RunStep(t) PROVE JobsInOrder'
    <2>1. UNCHANGED <<submitted, pending, holds>>
      BY <1>7, RunStepEffect
    <2>2. CASE \E f : Wrote(f, holds[t])
      <3>1. OwnerGrows(0) /\ AuthorGrows(holds[t])
        BY <2>2, Grows
      <3> QED
        BY <1>0, <2>1, <3>1, OrderOfHolding
    <2>3. CASE Calm \/ (\E f : Wrote(f, 0)) \/ \E f \in Files : Created(f)
      <3>1. OwnerGrows(0) /\ AuthorGrows(0)
        BY <2>3, Grows
      <3> QED
        BY <1>0, <2>1, <3>1, OrderOfHolding
    <2> QED
      BY <1>7, <2>2, <2>3, RunStepEffect
  <1>8. ASSUME NEW t \in Tasks, at[t] = "agent" \/ at[t] = "cancelled",
               UNCHANGED <<submitted, pending>>, holds' = [holds EXCEPT ![t] = 0],
               Calm \/ Records(holds[t])
        PROVE  JobsInOrder'
    <2>1. \A u \in Tasks : holds'[u] = 0
      BY <1>8 DEF WorkerFits
    <2>2. CASE Calm
      BY <1>0, <1>8, <2>1, <2>2, Grows, OrderOfHolding
    <2>3. CASE Records(holds[t])
      <3>1. OwnerGrows(holds[t]) /\ AuthorGrows(0)
        BY <1>0, <2>3, Grows
      <3> QED
        BY <1>0, <1>8, <2>1, <3>1, OrderOfHolding
    <2> QED
      BY <1>8, <2>2, <2>3
  <1>9. ASSUME NEW t \in Tasks, EndJob(t) PROVE JobsInOrder'
    BY <1>8, <1>9, EndJobEffect DEF Q!AgentReturns
  <1>10. ASSUME NEW t \in Tasks, UndoJob(t) PROVE JobsInOrder'
    <2>1. pending # << >> /\ pending' = Tail(pending) /\ UNCHANGED <<submitted, holds>>
      BY <1>10, UndoJobEffect DEF Q!RunUndo
    <2>2. OwnerGrows(0) /\ AuthorGrows(0)
      BY <1>10, UndoJobEffect, Grows
    <2> QED
      BY <2>1, <2>2, OrderOfTaking
  <1>11. ASSUME NEW t \in Tasks, Interrupt(t) PROVE JobsInOrder'
    <2>1. /\ at[t] = "cancelled" /\ UNCHANGED <<submitted, pending>>
          /\ holds' = [holds EXCEPT ![t] = 0]
      BY <1>11 DEF Interrupt, Q!Unwind
    <2>2. Calm
      BY <1>11, EndsWithoutEffect DEF Interrupt, vaultVars, ghosts, Calm
    <2> QED
      BY <1>8, <2>1, <2>2
  <1>12. CASE Route
    <2>1. UNCHANGED <<submitted, pending, holds>>
      BY <1>12, RouteEffect
    <2>2. OwnerGrows(0) /\ AuthorGrows(0)
      BY <1>0, <1>12, RouteEffect, Grows
    <2> QED
      BY <1>0, <2>1, <2>2, OrderOfHolding
  <1>13. ASSUME LosesQueue, NEW ow \in Nat, OwnerGrows(ow), AuthorGrows(0),
                ow = 0 \/ \E t \in Tasks : ow = holds[t]
         PROVE  JobsInOrder'
    <2>1. pending' = << >> /\ submitted' = submitted /\ \A t \in Tasks : holds'[t] = 0
      BY <1>13 DEF LosesQueue
    <2>2. submitted \in 0..MaxJobs /\ submitted \in Nat /\ 0 <= submitted
      BY ServiceAssumption DEF JobsInOrder, Q!QueueAssumption
    <2>3. ow <= submitted /\ (ow # 0 => \A i \in DOMAIN owner : owner[i] < ow)
      BY <1>13, <2>2 DEF JobsInOrder
    <2> QED
      BY <1>0, <1>13, <2>1, <2>2, <2>3, OrderStep
  <1>14. CASE Crash
    <2>1. LosesQueue /\ Calm
      BY <1>14 DEF Crash, ghosts, Calm
    <2> QED
      BY <1>0, <1>13, <2>1, Grows
  <1>15. ASSUME NEW t \in Tasks, CrashAfterCommit(t) PROVE JobsInOrder'
    <2>1. LosesQueue /\ Records(holds[t])
      BY <1>15, CrashAfterCommitEffect
    <2> QED
      BY <1>0, <1>13, <2>1, Grows
  <1> QED
    BY <1>2, <1>3, <1>4, <1>5, <1>6, <1>7, <1>9, <1>10, <1>11, <1>12, <1>14, <1>15 DEF Next

-----------------------------------------------------------------------------
(* The results of jobs.                                                    *)
(* A job that now has the result ok had it before, has a warning, or made  *)
(* no edit.                                                                *)
TellsNothingNew ==
    /\ warned \subseteq warned'
    /\ \A j \in 1..MaxJobs : job'[j].result = "ok" =>
          \/ job[j].result = "ok"
          \/ j \in warned'
          \/ \A e \in 1..MaxEdits : author[e] # j

LEMMA EditAuthors ==
    ASSUME Shape, NEW f \in Files, tree[f] # 0, author[tree[f]] # 0
    PROVE  tree[f] \in 1..MaxEdits /\ author[tree[f]] \in 1..MaxJobs
  <1>1. MaxEdits \in Nat /\ MaxJobs \in Nat
    BY ServiceAssumption DEF V!VaultAssumption, Q!QueueAssumption
  <1>2. tree[f] \in 0..MaxEdits
    BY DEF Shape, Trees
  <1>3. tree[f] \in 1..MaxEdits
    BY <1>1, <1>2
  <1>4. author[tree[f]] \in 0..MaxJobs
    BY <1>3 DEF Shape, JobsOrNone
  <1> QED
    BY <1>1, <1>3, <1>4

LEMMA UnrecordedStep ==
    ASSUME Shape, Shape', UnrecordedEditsAreNotReported,
           \/ /\ TellsNothingNew
              /\ \/ Calm \/ TakesBack \/ \E f : Wrote(f, 0)
                 \/ \E f : \E who : Wrote(f, who) /\ job'[who].result # "ok"
           \/ (\E f \in Files : Created(f)) \/ \E who : Records(who)
    PROVE  UnrecordedEditsAreNotReported'
  <1> DEFINE Fine(f) ==
        tree'[f] # 0 /\ author'[tree'[f]] # 0 /\ tree'[f] \notin recorded'
            => job'[author'[tree'[f]]].result # "ok" \/ author'[tree'[f]] \in warned'
  <1>1. SUFFICES ASSUME NEW f \in Files PROVE Fine(f)
    BY <1>1 DEF UnrecordedEditsAreNotReported
  <1>2. CASE (\E g \in Files : Created(g)) \/ \E who : Records(who)
    <2>1. tree'[f] \in recorded'
      BY <1>2 DEF Created, Records
    <2> QED
      BY <2>1
  <1>3. ASSUME TellsNothingNew, tree'[f] = tree[f], author'[tree[f]] = author[tree[f]],
               recorded' = recorded
        PROVE  Fine(f)
    <2>1. SUFFICES ASSUME tree[f] # 0, author[tree[f]] # 0, tree[f] \notin recorded
                   PROVE  \/ job'[author[tree[f]]].result # "ok"
                          \/ author[tree[f]] \in warned'
      BY <1>3, <2>1
    <2>2. job[author[tree[f]]].result # "ok" \/ author[tree[f]] \in warned
      BY <2>1 DEF UnrecordedEditsAreNotReported
    <2>3. tree[f] \in 1..MaxEdits /\ author[tree[f]] \in 1..MaxJobs
      BY <2>1, EditAuthors
    <2> QED
      BY <1>3, <2>2, <2>3 DEF TellsNothingNew
  <1>4. CASE TellsNothingNew /\ Calm
    BY <1>3, <1>4 DEF Calm
  <1>5. CASE TellsNothingNew /\ TakesBack
    <2>1. CASE tree' = tree
      BY <1>3, <1>5, <2>1 DEF TakesBack
    <2>2. CASE tree' = commits[Len(commits) - 1]
      <3>1. Len(commits) - 1 \in DOMAIN commits
        BY <1>5 DEF TakesBack, Shape
      <3>2. tree'[f] \in recorded'
        BY <1>5, <2>2, <3>1 DEF TakesBack, Shape
      <3> QED
        BY <3>2
    <2> QED
      BY <1>5, <2>1, <2>2 DEF TakesBack
  <1>6. ASSUME TellsNothingNew, NEW g, NEW who, Wrote(g, who), who = 0 \/ job'[who].result # "ok"
        PROVE  Fine(f)
    <2>1. /\ author' = [author EXCEPT ![edits + 1] = who] /\ recorded' = recorded
          /\ tree' = [tree EXCEPT ![g] = edits + 1]
      BY <1>6 DEF Wrote
    <2>2. tree[f] \in 0..MaxEdits /\ edits \in Nat /\ edits + 1 \in 1..MaxEdits /\ MaxEdits \in Nat
      BY <1>6, EditedTree, ServiceAssumption DEF Wrote, Shape, Trees, V!VaultAssumption
    <2>3. CASE tree'[f] = edits + 1
      <3>1. author'[tree'[f]] = who
        BY <2>1, <2>2, <2>3 DEF Shape
      <3> QED
        BY <1>6, <3>1
    <2>4. CASE tree'[f] # edits + 1
      <3>1. tree'[f] = tree[f]
        BY <2>1, <2>4 DEF Shape, Trees
      <3>2. CASE tree[f] = 0
        BY <3>1, <3>2
      <3>3. CASE tree[f] # 0
        <4>1. tree[f] \in 1..MaxEdits
          BY <2>2, <3>3
        <4>2. author'[tree[f]] = author[tree[f]]
          BY <2>1, <2>4, <3>1, <4>1 DEF Shape
        <4> QED
          BY <1>3, <1>6, <2>1, <3>1, <4>2
      <3> QED
        BY <3>2, <3>3
    <2> QED
      BY <2>3, <2>4
  <1> QED
    BY <1>2, <1>4, <1>5, <1>6

(* The jobs that are pending or held, and those that have edited, have     *)
(* numbers.                                                                *)
LEMMA Numbers ==
    ASSUME Inv
    PROVE  /\ \A k \in DOMAIN pending : pending[k] \in 1..MaxJobs
           /\ \A t \in Tasks : holds[t] # 0 => holds[t] \in 1..MaxJobs
           /\ submitted \in Nat /\ MaxJobs \in Nat
  <1>1. MaxJobs \in Nat /\ submitted \in 0..MaxJobs /\ pending \in Seq(1..submitted)
        /\ holds \in [Tasks -> 0..MaxJobs]
    BY ServiceAssumption DEF Inv, JobsInOrder, WorkerFits, JobsOrNone, Q!QueueAssumption
  <1>2. \A k \in DOMAIN pending : pending[k] \in 1..submitted
    BY <1>1
  <1> QED
    BY <1>1, <1>2

(* A step that gives no job a result and lets a job be held only as it     *)
(* was.                                                                    *)
LEMMA NoResultGiven ==
    ASSUME Inv, Shape', UnrecordedEditsAreNotReported',
           job' \in [1..MaxJobs -> JobObjects],
           \A j \in 1..MaxJobs : job[j].result = "none" => job'[j].result = "none",
           \A k \in DOMAIN pending' : \E m \in DOMAIN pending : pending'[k] = pending[m],
           \A t \in Tasks : holds'[t] # 0 =>
               /\ holds'[t] = holds[t]
               /\ changed' = {} => changed = {} /\ AuthorGrows(0)
    PROVE  ResultsFit'
  <1>1. \A k \in DOMAIN pending' : job'[pending'[k]].result = "none"
    BY Numbers DEF Inv, ResultsFit
  <1>2. ASSUME NEW t \in Tasks, holds'[t] # 0
        PROVE  /\ job'[holds'[t]].result = "none"
               /\ changed' = {} => \A e \in 1..MaxEdits : author'[e] # holds'[t]
    BY <1>2, Numbers DEF Inv, ResultsFit, AuthorGrows
  <1> QED
    BY <1>1, <1>2 DEF ResultsFit

(* The worker gives a result to a job that is neither pending nor held     *)
(* any more.                                                               *)
LEMMA ResultGiven ==
    ASSUME Inv, UnrecordedEditsAreNotReported',
           NEW j \in 1..MaxJobs, NEW outcome \in {"ok", "notOk", "timeout", "raised"},
           job' = [job EXCEPT ![j] = Q!Completed(j, outcome)],
           \A k \in DOMAIN pending' :
               \E m \in DOMAIN pending : pending'[k] = pending[m] /\ pending[m] # j,
           \A t \in Tasks : holds'[t] = 0
    PROVE  ResultsFit'
  <1>1. Q!Completed(j, outcome) \in JobObjects
    <2>1. job[j] \in JobObjects
      BY DEF Inv, ResultsFit
    <2>2. /\ (IF outcome = "ok" THEN "succeeded" ELSE "failed") \in {"succeeded", "failed"}
          /\ (IF outcome = "raised" THEN "none" ELSE outcome) \in {"none", "ok", "notOk", "timeout"}
      OBVIOUS
    <2> QED
      BY <2>1, <2>2 DEF Q!Completed, JobObjects
  <1>2. job' \in [1..MaxJobs -> JobObjects]
    BY <1>1 DEF Inv, ResultsFit
  <1>3. \A k \in DOMAIN pending' : job'[pending'[k]].result = "none"
    BY Numbers DEF Inv, ResultsFit
  <1> QED
    BY <1>2, <1>3 DEF ResultsFit

LEMMA ToldOnlyTo ==
    ASSUME Inv, NEW j \in 1..MaxJobs, NEW outcome \in {"ok", "notOk", "timeout", "raised"},
           job' = [job EXCEPT ![j] = Q!Completed(j, outcome)], warned \subseteq warned',
           outcome = "ok" => j \in warned' \/ \A e \in 1..MaxEdits : author[e] # j
    PROVE  TellsNothingNew
  <1>1. job \in [1..MaxJobs -> JobObjects]
    BY DEF Inv, ResultsFit
  <1>2. Q!Completed(j, outcome).result = "ok" => outcome = "ok"
    BY <1>1 DEF Q!Completed, JobObjects
  <1>3. job'[j] = Q!Completed(j, outcome) /\ \A i \in 1..MaxJobs : i # j => job'[i] = job[i]
    BY <1>1
  <1> QED
    BY <1>2, <1>3 DEF TellsNothingNew

LEMMA ResultsFitStep ==
    ASSUME Inv, Shape', Next
    PROVE  ResultsFit'
  <1> USE DEF queueVars
  <1>0. /\ Shape /\ WorkerFits /\ OneRunPerHeldJob /\ JobsInOrder /\ ResultsFit
        /\ UnrecordedEditsAreNotReported /\ job \in [1..MaxJobs -> JobObjects]
    BY DEF Inv, ResultsFit
  <1>1. CASE UNCHANGED <<job, pending, holds, changed, warned>> /\ Calm
    <2>1. TellsNothingNew
      BY <1>1 DEF TellsNothingNew
    <2>2. UnrecordedEditsAreNotReported'
      BY <1>0, <1>1, <2>1, UnrecordedStep
    <2>3. AuthorGrows(0)
      BY <1>1 DEF Calm, AuthorGrows
    <2> QED
      BY <1>0, <1>1, <2>2, <2>3, NoResultGiven
  <1>2. ASSUME NEW t \in Tasks, Boot(t) PROVE ResultsFit'
    BY <1>1, <1>2 DEF Boot, QueueOnly, Q!Start, vaultVars, ghosts, Calm
  <1>3. CASE Stop
    BY <1>1, <1>3 DEF Stop, QueueOnly, Q!Stop, vaultVars, ghosts, Calm
  <1>4. ASSUME NEW op \in {"apply", "undo"}, Accept(op) PROVE ResultsFit'
    <2>1. /\ submitted < MaxJobs /\ job' = [job EXCEPT ![submitted + 1] = Q!NewJob(op)]
          /\ pending' = Append(pending, submitted + 1)
          /\ Calm /\ UNCHANGED <<holds, changed, warned>>
      BY <1>4 DEF Accept, QueueOnly, Q!Submit, vaultVars, ghosts, Calm
    <2>2. Q!NewJob(op) \in JobObjects /\ Q!NewJob(op).result = "none"
      BY DEF Q!NewJob, JobObjects
    <2>3. submitted + 1 \in 1..MaxJobs /\ submitted \in Nat /\ MaxJobs \in Nat
      BY <2>1, Numbers
    <2>4. /\ job' \in [1..MaxJobs -> JobObjects] /\ job'[submitted + 1].result = "none"
          /\ \A j \in 1..MaxJobs : j # submitted + 1 => job'[j] = job[j]
      BY <1>0, <2>1, <2>2, <2>3
    <2>5. UnrecordedEditsAreNotReported'
      <3>1. TellsNothingNew
        BY <2>1, <2>4 DEF TellsNothingNew
      <3> QED
        BY <1>0, <2>1, <3>1, UnrecordedStep
    <2>6. ASSUME NEW k \in DOMAIN pending' PROVE job'[pending'[k]].result = "none"
      <3>1. /\ DOMAIN pending' = 1..(Len(pending) + 1) /\ Len(pending) \in Nat
            /\ pending'[Len(pending) + 1] = submitted + 1
            /\ \A i \in 1..Len(pending) : pending'[i] = pending[i] /\ i \in DOMAIN pending
        <4>1. pending \in Seq(1..(submitted + 1)) /\ submitted + 1 \in 1..(submitted + 1)
          BY <1>0, <2>3 DEF JobsInOrder
        <4> QED
          BY <2>1, <4>1, Appended
      <3>2. CASE k = Len(pending) + 1
        BY <2>4, <3>1, <3>2
      <3>3. CASE k \in 1..Len(pending)
        BY <1>0, <2>4, <3>1, <3>3, Numbers DEF ResultsFit
      <3> QED
        BY <3>1, <3>2, <3>3
    <2>7. ASSUME NEW t \in Tasks, holds'[t] # 0
          PROVE  /\ job'[holds'[t]].result = "none"
                 /\ changed' = {} => \A e \in 1..MaxEdits : author'[e] # holds'[t]
      <3>1. holds'[t] = holds[t] /\ changed' = changed /\ author' = author
        BY <2>1 DEF Calm
      <3>2. holds[t] \in 1..MaxJobs /\ job[holds[t]].result = "none"
        BY <1>0, <2>7, <3>1, Numbers DEF ResultsFit
      <3>3. job'[holds[t]].result = "none"
        BY <2>4, <3>2
      <3> QED
        BY <1>0, <2>7, <3>1, <3>3 DEF ResultsFit
    <2> QED
      BY <2>4, <2>5, <2>6, <2>7 DEF ResultsFit
  <1>5. ASSUME pending # << >>, pending' = Tail(pending)
        PROVE  /\ \A k \in DOMAIN pending' : \E m \in DOMAIN pending :
                     pending'[k] = pending[m] /\ pending[m] # Head(pending)
               /\ Head(pending) \in 1..MaxJobs /\ job[Head(pending)].result = "none"
               /\ \A e \in 1..MaxEdits : author[e] # Head(pending)
    <2>1. /\ 1 \in DOMAIN pending /\ Head(pending) = pending[1] /\ pending[1] \in 1..submitted
          /\ \A k \in DOMAIN Tail(pending) :
                /\ k + 1 \in DOMAIN pending /\ Tail(pending)[k] = pending[k + 1]
                /\ pending[1] < Tail(pending)[k]
      BY <1>0, <1>5, PendingHead
    <2>2. Head(pending) \in 1..MaxJobs /\ job[Head(pending)].result = "none"
      BY <1>0, <2>1, Numbers DEF ResultsFit
    <2>3. \A e \in 1..MaxEdits : author[e] < pending[1] /\ author[e] \in Nat
      BY <1>0, <2>1, ServiceAssumption DEF JobsInOrder, Shape, JobsOrNone, Q!QueueAssumption
    <2>4. \A e \in 1..MaxEdits : author[e] # Head(pending)
      BY <2>1, <2>3
    <2>5. ASSUME NEW k \in DOMAIN pending'
          PROVE  \E m \in DOMAIN pending : pending'[k] = pending[m] /\ pending[m] # Head(pending)
      <3>1. k + 1 \in DOMAIN pending /\ pending'[k] = pending[k + 1] /\ pending[1] < pending[k + 1]
        BY <1>5, <2>1
      <3>2. pending[k + 1] \in 1..submitted /\ submitted \in Nat
        BY <1>0, <3>1, Numbers DEF JobsInOrder
      <3>3. pending[k + 1] # Head(pending)
        BY <2>1, <3>1, <3>2
      <3> QED
        BY <3>1, <3>3
    <2> QED
      BY <2>2, <2>4, <2>5
  <1>6. ASSUME NEW t \in Tasks, Skip(t) PROVE ResultsFit'
    <2>1. /\ Calm /\ pending # << >> /\ pending' = Tail(pending)
          /\ UNCHANGED <<job, holds, changed, warned>>
      BY <1>6 DEF Skip, QueueOnly, Q!SkipEvicted, vaultVars, ghosts, Calm
    <2>2. UnrecordedEditsAreNotReported' /\ AuthorGrows(0)
      <3>1. TellsNothingNew
        BY <2>1 DEF TellsNothingNew
      <3> QED
        BY <1>0, <2>1, <3>1, UnrecordedStep DEF Calm, AuthorGrows
    <2>3. \A k \in DOMAIN pending' : \E m \in DOMAIN pending : pending'[k] = pending[m]
      BY <1>5, <2>1
    <2> QED
      BY <1>0, <2>1, <2>2, <2>3, NoResultGiven
  <1>7. ASSUME NEW t \in Tasks, BeginJob(t) PROVE ResultsFit'
    <2>1. /\ at[t] = "get" /\ pending # << >> /\ pending' = Tail(pending)
          /\ Calm /\ UNCHANGED warned
          /\ job' = [job EXCEPT ![Head(pending)].status = "running"]
          /\ holds' = [holds EXCEPT ![t] = Head(pending)]
      BY <1>7 DEF BeginJob, Q!BeginApply, V!BeginRun, ghosts, Calm
    <2>2. job' \in [1..MaxJobs -> JobObjects] /\ \A j \in 1..MaxJobs : job'[j].result = job[j].result
      BY <1>0, <2>1 DEF JobObjects
    <2>3. UnrecordedEditsAreNotReported'
      <3>1. TellsNothingNew
        BY <2>1, <2>2 DEF TellsNothingNew
      <3> QED
        BY <1>0, <2>1, <3>1, UnrecordedStep
    <2>4. \A k \in DOMAIN pending' : \E m \in DOMAIN pending : pending'[k] = pending[m]
      BY <1>5, <2>1
    <2>5. \A k \in DOMAIN pending' : job'[pending'[k]].result = "none"
      BY <1>0, <2>2, <2>4, Numbers DEF ResultsFit
    <2>6. /\ job'[Head(pending)].result = "none"
          /\ \A e \in 1..MaxEdits : author'[e] # Head(pending)
      BY <1>5, <2>1, <2>2 DEF Calm
    <2>7. ASSUME NEW u \in Tasks, holds'[u] # 0
          PROVE  holds'[u] = Head(pending)
      <3>1. CASE u = t
        BY <1>0, <2>1, <3>1 DEF WorkerFits
      <3>2. CASE u # t
        BY <1>0, <2>1, <2>7, <3>2 DEF WorkerFits
      <3> QED
        BY <3>1, <3>2
    <2> QED
      BY <2>2, <2>3, <2>5, <2>6, <2>7 DEF ResultsFit
  <1>8. ASSUME NEW t \in Tasks, RunStep(t) PROVE ResultsFit'
    <2>1. /\ UNCHANGED <<job, pending, holds, warned>> /\ at[t] = "agent"
          /\ changed' = {} => changed = {}
      BY <1>0, <1>8, RunStepEffect
    <2>2. holds[t] # 0 /\ \A u \in Tasks : u # t => holds[u] = 0
      BY <1>0, <2>1 DEF WorkerFits
    <2>3. TellsNothingNew
      BY <2>1 DEF TellsNothingNew
    <2>4. job'[holds[t]].result # "ok"
      BY <1>0, <2>1, <2>2 DEF ResultsFit
    <2>5. CASE \E f : Wrote(f, holds[t]) /\ changed' # {}
      <3>1. UnrecordedEditsAreNotReported'
        BY <1>0, <2>3, <2>4, <2>5, UnrecordedStep
      <3> QED
        BY <1>0, <2>1, <2>5, <3>1, NoResultGiven
    <2>6. CASE Calm \/ (\E f : Wrote(f, 0)) \/ \E f \in Files : Created(f)
      <3>1. UnrecordedEditsAreNotReported'
        BY <1>0, <2>3, <2>6, UnrecordedStep
      <3>2. AuthorGrows(0)
        BY <1>0, <2>6, Grows
      <3> QED
        BY <1>0, <2>1, <3>1, <3>2, NoResultGiven
    <2> QED
      BY <1>0, <1>8, <2>5, <2>6, RunStepEffect
  <1>9. ASSUME NEW t \in Tasks, EndJob(t) PROVE ResultsFit'
    <2>1. /\ at[t] = "agent" /\ holds' = [holds EXCEPT ![t] = 0] /\ pending' = pending
          /\ job' = [job EXCEPT ![holds[t]] = Q!Completed(holds[t], last'.kind)]
          /\ last'.kind \in {"ok", "notOk", "timeout", "raised"} /\ warned \subseteq warned'
      BY <1>0, <1>9, EndJobEffect DEF Q!AgentReturns
    <2>2. holds[t] # 0 /\ holds[t] \in 1..MaxJobs /\ \A u \in Tasks : holds'[u] = 0
      BY <1>0, <2>1, Numbers DEF WorkerFits
    <2>3. UnrecordedEditsAreNotReported'
      <3>1. CASE Records(holds[t])
        BY <1>0, <3>1, UnrecordedStep
      <3>2. CASE Calm /\ (last'.kind = "ok" => changed = {} \/ holds[t] \in warned')
        <4>1. changed = {} => \A e \in 1..MaxEdits : author[e] # holds[t]
          BY <1>0, <2>2 DEF ResultsFit
        <4>2. TellsNothingNew
          BY <2>1, <2>2, <3>2, <4>1, ToldOnlyTo
        <4> QED
          BY <1>0, <3>2, <4>2, UnrecordedStep
      <3> QED
        BY <1>0, <1>9, <3>1, <3>2, EndJobEffect
    <2>4. \A k \in DOMAIN pending :
              \E m \in DOMAIN pending : pending[k] = pending[m] /\ pending[m] # holds[t]
      <3>1. \A k \in DOMAIN pending : holds[t] < pending[k] /\ pending[k] \in Nat
        BY <1>0, Numbers DEF JobsInOrder
      <3> QED
        BY <2>2, <3>1
    <2>5. \A k \in DOMAIN pending' :
              \E m \in DOMAIN pending : pending'[k] = pending[m] /\ pending[m] # holds[t]
      BY <2>1, <2>4
    <2> QED
      BY <2>1, <2>2, <2>3, <2>5, ResultGiven
  <1>10. ASSUME NEW t \in Tasks, NEW outcome \in {"ok", "notOk"}, UndoJob(t), Q!RunUndo(t, outcome)
         PROVE  ResultsFit'
    <2>1. /\ pending # << >> /\ pending' = Tail(pending) /\ holds' = holds /\ warned' = warned
          /\ at[t] = "get"
          /\ job' = [job EXCEPT ![Head(pending)] = Q!Completed(Head(pending), outcome)]
      BY <1>0, <1>10, UndoJobEffect DEF Q!RunUndo
    <2>2. /\ \A k \in DOMAIN pending' : \E m \in DOMAIN pending :
                pending'[k] = pending[m] /\ pending[m] # Head(pending)
          /\ Head(pending) \in 1..MaxJobs
          /\ \A e \in 1..MaxEdits : author[e] # Head(pending)
      BY <1>5, <2>1
    <2>3. UnrecordedEditsAreNotReported'
      <3>1. TellsNothingNew
        BY <2>1, <2>2, ToldOnlyTo
      <3> QED
        BY <1>0, <1>10, <3>1, UndoJobEffect, UnrecordedStep
    <2>4. \A u \in Tasks : holds'[u] = 0
      BY <1>0, <2>1 DEF WorkerFits
    <2> QED
      BY <2>1, <2>2, <2>3, <2>4, ResultGiven
  <1>11. ASSUME NEW t \in Tasks, Interrupt(t) PROVE ResultsFit'
    <2>1. /\ at[t] = "cancelled" /\ holds' = [holds EXCEPT ![t] = 0] /\ pending' = pending
          /\ holds[t] = 0 => job' = job
          /\ holds[t] # 0 => job' = [job EXCEPT ![holds[t]].finished = TRUE]
      BY <1>11 DEF Interrupt, Q!Unwind
    <2>2. Calm /\ warned' = warned
      BY <1>11, EndsWithoutEffect DEF Interrupt, vaultVars, ghosts, Calm
    <2>3. job' \in [1..MaxJobs -> JobObjects] /\ \A j \in 1..MaxJobs : job'[j].result = job[j].result
      <3>1. CASE holds[t] = 0
        BY <1>0, <2>1, <3>1
      <3>2. CASE holds[t] # 0
        <4>1. holds[t] \in 1..MaxJobs /\ job[holds[t]] \in JobObjects
          BY <1>0, <3>2, Numbers
        <4>2. /\ [job[holds[t]] EXCEPT !.finished = TRUE] \in JobObjects
              /\ [job[holds[t]] EXCEPT !.finished = TRUE].result = job[holds[t]].result
          BY <4>1 DEF JobObjects
        <4>3. job' = [job EXCEPT ![holds[t]] = [job[holds[t]] EXCEPT !.finished = TRUE]]
          BY <2>1, <3>2
        <4> QED
          BY <1>0, <4>1, <4>2, <4>3
      <3> QED
        BY <3>1, <3>2
    <2>4. UnrecordedEditsAreNotReported'
      <3>1. TellsNothingNew
        BY <2>2, <2>3 DEF TellsNothingNew
      <3> QED
        BY <1>0, <2>2, <3>1, UnrecordedStep
    <2>5. \A u \in Tasks : holds'[u] = 0
      BY <1>0, <2>1 DEF WorkerFits
    <2>6. \A k \in DOMAIN pending' : job'[pending'[k]].result = "none"
      BY <1>0, <2>1, <2>3, Numbers DEF ResultsFit
    <2> QED
      BY <2>3, <2>4, <2>5, <2>6 DEF ResultsFit
  <1>12. CASE Route
    <2>1. UNCHANGED <<job, pending, holds, changed, warned>>
      BY <1>0, <1>12, RouteEffect
    <2>2. TellsNothingNew
      BY <2>1 DEF TellsNothingNew
    <2>3. UnrecordedEditsAreNotReported'
      BY <1>0, <1>12, <2>2, RouteEffect, UnrecordedStep
    <2>4. AuthorGrows(0)
      BY <1>0, <1>12, RouteEffect, Grows, ZeroIsNobody
    <2> QED
      BY <1>0, <2>1, <2>3, <2>4, NoResultGiven
  <1>13. ASSUME LosesQueue, Calm \/ \E t \in Tasks : Records(holds[t]), warned' = warned
         PROVE  ResultsFit'
    <2>1. /\ job' = [j \in 1..MaxJobs |-> IF job[j].finished THEN job[j] ELSE Q!Absent]
          /\ pending' = << >> /\ \A t \in Tasks : holds'[t] = 0
      BY <1>13 DEF LosesQueue
    <2>2. Q!Absent \in JobObjects /\ Q!Absent.result = "none"
      BY DEF Q!Absent, JobObjects
    <2>3. /\ job' \in [1..MaxJobs -> JobObjects]
          /\ \A j \in 1..MaxJobs : job'[j].result = "ok" => job[j].result = "ok"
      BY <1>0, <2>1, <2>2
    <2>4. UnrecordedEditsAreNotReported'
      <3>1. TellsNothingNew
        BY <1>13, <2>3 DEF TellsNothingNew
      <3> QED
        BY <1>0, <1>13, <3>1, UnrecordedStep
    <2> QED
      BY <2>1, <2>3, <2>4 DEF ResultsFit
  <1>14. CASE Crash
    BY <1>13, <1>14 DEF Crash, ghosts, Calm
  <1>15. ASSUME NEW t \in Tasks, CrashAfterCommit(t) PROVE ResultsFit'
    BY <1>13, <1>15, CrashAfterCommitEffect
  <1>16. ASSUME NEW t \in Tasks, UndoJob(t) PROVE ResultsFit'
    BY <1>0, <1>10, <1>16, UndoJobEffect
  <1> QED
    BY <1>2, <1>3, <1>4, <1>6, <1>7, <1>8, <1>9, <1>11, <1>12, <1>14, <1>15, <1>16
       DEF Next, Q!Operations

-----------------------------------------------------------------------------
(* The invariant of every behaviour.                                       *)
LEMMA VaultEffect ==
    ASSUME Inv, Next
    PROVE  \/ Calm
           \/ \E f : \E who \in JobsOrNone : Wrote(f, who)
           \/ \E f \in Files : Created(f)
           \/ \E who \in JobsOrNone : Records(who)
           \/ TakesBack
  <1> DEFINE Goal == \/ Calm
                     \/ \E f : \E who \in JobsOrNone : Wrote(f, who)
                     \/ \E f \in Files : Created(f)
                     \/ \E who \in JobsOrNone : Records(who)
                     \/ TakesBack
  <1>1. Shape /\ 0 \in JobsOrNone /\ \A t \in Tasks : holds[t] \in JobsOrNone
    BY ZeroIsNobody DEF Inv, WorkerFits
  <1>2. ASSUME NEW t \in Tasks, BeginJob(t) PROVE Calm
    BY <1>2 DEF BeginJob, V!BeginRun, ghosts, Calm
  <1>3. ASSUME NEW t \in Tasks, Interrupt(t) PROVE Calm
    BY <1>3, EndsWithoutEffect DEF Interrupt, vaultVars, ghosts, Calm
  <1>4. QueueOnly => Calm
    BY DEF QueueOnly, vaultVars, ghosts, Calm
  <1>5. Crash => Calm
    BY DEF Crash, ghosts, Calm
  <1>6. ASSUME NEW t \in Tasks, RunStep(t) PROVE Goal
    BY <1>1, <1>6, RunStepEffect
  <1>7. ASSUME NEW t \in Tasks, EndJob(t) PROVE Goal
    BY <1>1, <1>7, EndJobEffect
  <1>8. ASSUME NEW t \in Tasks, UndoJob(t) PROVE Goal
    BY <1>1, <1>8, UndoJobEffect
  <1>9. ASSUME Route PROVE Goal
    BY <1>1, <1>9, RouteEffect
  <1>10. ASSUME NEW t \in Tasks, CrashAfterCommit(t) PROVE Goal
    BY <1>1, <1>10, CrashAfterCommitEffect
  <1> QED
    BY <1>2, <1>3, <1>4, <1>5, <1>6, <1>7, <1>8, <1>9, <1>10 DEF Next, Boot, Stop, Accept, Skip

LEMMA ShapeNext ==
    ASSUME Inv, Next
    PROVE  Shape'
  BY VaultEffect, ShapeStep DEF Inv

LEMMA InvInit == Init => Inv
  <1> SUFFICES ASSUME Init PROVE Inv
    OBVIOUS
  <1>1. 0 \in JobsOrNone /\ 0 \in 0..MaxJobs /\ 0 \in 0..MaxEdits
    BY ServiceAssumption, ZeroIsNobody DEF V!VaultAssumption, Q!QueueAssumption
  <1>2. /\ tree = [f \in Files |-> 0] /\ commits = <<tree>> /\ edits = 0 /\ phase = "idle"
        /\ author = [e \in 1..MaxEdits |-> 0] /\ owner = <<0>> /\ recorded = {0}
    BY DEF Init, V!Init
  <1>3. /\ at = [t \in Tasks |-> "dead"] /\ holds = [t \in Tasks |-> 0]
        /\ submitted = 0 /\ pending = << >> /\ job = [j \in 1..MaxJobs |-> Q!Absent]
    BY DEF Init, Q!Init, Q!JobIds
  <1>4. Shape
    <2>1. tree \in Trees
      BY <1>1, <1>2 DEF Trees
    <2> QED
      BY <1>1, <1>2, <2>1 DEF Shape
  <1>5. WorkerFits /\ OneRunPerHeldJob
    BY <1>1, <1>2, <1>3 DEF WorkerFits, OneRunPerHeldJob
  <1>6. JobsInOrder
    <2>1. submitted \in 0..MaxJobs /\ pending \in Seq(1..submitted) /\ DOMAIN pending = {}
      BY <1>1, <1>3
    <2>2. DOMAIN owner = {1} /\ owner[1] = 0
      BY <1>2
    <2> QED
      BY <1>2, <1>3, <2>1, <2>2 DEF JobsInOrder, JobsCommitOnceInOrder
  <1>7. ResultsFit
    <2>1. Q!Absent \in JobObjects
      BY DEF Q!Absent, JobObjects
    <2> QED
      BY <1>2, <1>3, <2>1 DEF ResultsFit, UnrecordedEditsAreNotReported
  <1> QED
    BY <1>4, <1>5, <1>6, <1>7 DEF Inv

LEMMA InvStep == Inv /\ [Next]_vars => Inv'
  <1>1. ASSUME Inv, Next PROVE Inv'
    BY <1>1, ShapeNext, WorkerStep, JobsInOrderStep, ResultsFitStep DEF Inv
  <1>2. ASSUME Inv, UNCHANGED vars PROVE Inv'
    BY <1>2 DEF vars, queueVars, vaultVars, ghosts, Inv, Shape, WorkerFits, OneRunPerHeldJob,
                JobsInOrder, JobsCommitOnceInOrder, ResultsFit, UnrecordedEditsAreNotReported
  <1> QED
    BY <1>1, <1>2

(* The invariant the next three rest on: what it says of the worker, the   *)
(* order of jobs and their results survives a death of the process.        *)
THEOREM ServiceInvariant == Spec => []Inv
  BY InvInit, InvStep, PTL DEF Spec

(* A run is in progress exactly while the worker holds a job, over stops,  *)
(* starts and deaths of the process (queue.py 90-116).                     *)
THEOREM OneRunAtATime == Spec => []OneRunPerHeldJob
  <1>1. Inv => OneRunPerHeldJob
    BY DEF Inv
  <1> QED
    BY <1>1, ServiceInvariant, PTL

(* No job commits twice, and jobs commit in the order they were submitted, *)
(* over deaths of the process too (queue.py 90-116, agent.py 257-303).     *)
THEOREM JobsCommitOnce == Spec => []JobsCommitOnceInOrder
  <1>1. Inv => JobsCommitOnceInOrder
    BY DEF Inv, JobsInOrder
  <1> QED
    BY <1>1, ServiceInvariant, PTL

(* No job whose client was told that all is well has left an edit of its   *)
(* editing tools in the vault that never was in a commit (agent.py         *)
(* 257-303).                                                               *)
THEOREM UnrecordedIsUnreported == Spec => []UnrecordedEditsAreNotReported
  <1>1. Inv => UnrecordedEditsAreNotReported
    BY DEF Inv, ResultsFit
  <1> QED
    BY <1>1, ServiceInvariant, PTL

-----------------------------------------------------------------------------
(* VaultEdits in a process that is stopped and that dies: each step here   *)
(* is a step of VaultEdits, a cancelled run, a death, or none of the       *)
(* vault's.                                                                *)
LEMMA SameVaultStep == V!Next => VP!Next
  BY DEF V!Next, V!Run, V!BeginRun, V!ModelCallsTools, V!WriteTool, V!TemplateTool, V!AskAgain,
       V!ExceedsLimit, V!ModelFails, V!ToolRaises, V!RunTimesOut, V!FinishUnchanged,
       V!FinishChanged, V!EndsWith, V!EndsWithout, V!UndoJob, V!VaultUndo, V!UndoLastChange,
       V!Routes, V!GetFile, V!PutCheck, V!PutWrite, V!PutFails, V!PutCommit, V!EnsureAnchor,
       V!CreatePage, V!ExternalEdit, V!LoopFree, V!Edit, V!Commit, V!Committed, V!Result,
       V!NoPut, V!runVars, V!historyVars,
       VP!Next, VP!Run, VP!BeginRun, VP!ModelCallsTools, VP!WriteTool, VP!TemplateTool, VP!AskAgain,
       VP!ExceedsLimit, VP!ModelFails, VP!ToolRaises, VP!RunTimesOut, VP!FinishUnchanged,
       VP!FinishChanged, VP!EndsWith, VP!EndsWithout, VP!UndoJob, VP!VaultUndo, VP!UndoLastChange,
       VP!Routes, VP!GetFile, VP!PutCheck, VP!PutWrite, VP!PutFails, VP!PutCommit, VP!EnsureAnchor,
       VP!CreatePage, VP!ExternalEdit, VP!LoopFree, VP!Edit, VP!Commit, VP!Committed, VP!Result,
       VP!NoPut, VP!runVars, VP!historyVars

LEMMA VaultSteps == [Next]_vars => [VP!Next]_(VP!vars) \/ VP!Cancelled \/ VP!Dies
  <1> DEFINE Goal == [V!Next]_(VP!vars) \/ VP!Cancelled \/ VP!Dies
  <1>0. UNCHANGED vaultVars => UNCHANGED VP!vars
    BY DEF vaultVars, VP!vars, VP!runVars, VP!historyVars
  <1>1. QueueOnly \/ UNCHANGED vars => Goal
    BY <1>0 DEF QueueOnly, vars
  <1>2. ASSUME NEW t, BeginJob(t) \/ RunStep(t) \/ EndJob(t) PROVE Goal
    <2>1. V!Run
      BY <1>2 DEF BeginJob, RunStep, EndJob, RunResult, V!Run
    <2> QED
      BY <2>1 DEF V!Next
  <1>3. ASSUME NEW t, UndoJob(t) PROVE Goal
    <2>1. V!VaultUndo \/ UNCHANGED vaultVars
      BY <1>3 DEF UndoJob, V!VaultUndo
    <2> QED
      BY <1>0, <2>1 DEF V!Next, V!Routes
  <1>4. ASSUME NEW t, Interrupt(t) PROVE Goal
    <2>1. UNCHANGED vaultVars \/ (V!LoopFree /\ V!EndsWithout("raised"))
      BY <1>4 DEF Interrupt
    <2>2. V!LoopFree /\ V!EndsWithout("raised") => VP!Cancelled
      BY DEF V!LoopFree, V!EndsWithout, V!EndsWith, V!Result, V!historyVars, VP!Cancelled,
             VP!LoopFree, VP!EndsWithout, VP!EndsWith, VP!Result, VP!historyVars
    <2> QED
      BY <1>0, <2>1, <2>2
  <1>5. ASSUME NEW t, CrashAfterCommit(t) PROVE Goal
    <2>1. V!Run
      BY <1>5 DEF CrashAfterCommit, V!Run
    <2> QED
      BY <2>1 DEF V!Next
  <1>6. ASSUME Route PROVE Goal
    <2>1. V!Routes
      BY <1>6 DEF Route, V!Routes
    <2> QED
      BY <2>1 DEF V!Next
  <1>7. ASSUME Crash PROVE Goal
    BY <1>7 DEF Crash, V!NoPut, V!Result, VP!Dies, VP!NoPut, VP!Result, ghosts
  <1>8. [Next]_vars => Goal
    BY <1>1, <1>2, <1>3, <1>4, <1>5, <1>6, <1>7 DEF Next, Boot, Stop, Accept, Skip
  <1> QED
    BY <1>8, SameVaultStep

LEMMA SameAssumption == VP!VaultAssumption
  BY ServiceAssumption DEF V!VaultAssumption, VP!VaultAssumption

LEMMA VaultInit == Init => VP!VaultInv
  <1>1. Init => VP!Init
    BY DEF Init, V!Init, V!Result, V!NoPut, VP!Init, VP!Result, VP!NoPut
  <1> QED
    BY <1>1, SameAssumption, VP!InitInv

LEMMA VaultStep == VP!VaultInv /\ [Next]_vars => VP!VaultInv'
  BY VaultSteps, SameAssumption, VP!InvStep, VP!CancelledStep, VP!DeathStep

(* The invariant of VaultEdits survives stops and deaths of the process.   *)
THEOREM VaultInvariantSurvives == Spec => []VP!VaultInv
  BY VaultInit, VaultStep, PTL DEF Spec

(* In a process that is stopped and that dies, a run still reports exactly *)
(* what it edited, but for pages whose own commit failed, and nothing      *)
(* stays uncommitted but for the reasons on record (agent.py 254-303,      *)
(* queue.py 90-116).                                                       *)
THEOREM ReportsAndCommitsSurvive == Spec => [](V!ReportsWhatItEdited /\ V!SettledIsCommitted)
  <1>1. VP!VaultInv => V!ReportsWhatItEdited
    BY DEF VP!VaultInv, VP!ReportsWhatItEdited, V!ReportsWhatItEdited
  <1>2. VP!VaultInv => V!SettledIsCommitted
    BY SameAssumption, VP!InvSettles
       DEF VP!SettledIsCommitted, V!SettledIsCommitted, VP!LoopFree, V!LoopFree, VP!Committed,
           V!Committed
  <1> QED
    BY <1>1, <1>2, VaultInvariantSurvives, PTL

(* It commits its edits, but for such pages, before it reports success     *)
(* without a warning (agent.py 257-296).                                   *)
THEOREM SuccessIsCommitted == Spec => V!CommitsBeforeReporting
  <1>1. VP!VaultInv /\ [Next]_vars
            => [ phase = "asking" /\ phase' = "idle" /\ last'.kind = "ok" /\ ~last'.warning
                    => \A f \in touched \ unsaved : commits'[Len(commits')][f] = tree'[f] ]_(V!vars)
    <2> SUFFICES ASSUME VP!VaultInv, [Next]_vars, phase = "asking", phase' = "idle",
                        last'.kind = "ok", ~last'.warning, NEW f \in touched \ unsaved
                 PROVE  commits'[Len(commits')][f] = tree'[f]
      OBVIOUS
    <2>1. CASE VP!Next
      BY <2>1, SameAssumption, VP!SuccessStep
    <2>2. ~ VP!Cancelled /\ ~ VP!Dies /\ ~ UNCHANGED VP!vars
      BY DEF VP!Cancelled, VP!EndsWithout, VP!EndsWith, VP!Dies, VP!Result, VP!vars, VP!runVars
    <2> QED
      BY <2>1, <2>2, VaultSteps
  <1> QED
    BY <1>1, VaultInvariantSurvives, PTL DEF Spec, V!CommitsBeforeReporting

(* Undoing the last run, when it was alone and the process has not died    *)
(* since, takes back all of it and nothing else (agent.py 305-314).        *)
THEOREM UndoRestoresTheTree == Spec => V!UndoRevertsRun
  <1>1. VP!VaultInv /\ [Next]_vars
            => [ Len(commits') < Len(commits) /\ tree' # tree
                    /\ phase = "idle" /\ last.kind = "ok" /\ ~last.warning /\ last.files # {}
                    /\ alone => tree' = before ]_(V!vars)
    <2> SUFFICES ASSUME VP!VaultInv, [Next]_vars, Len(commits') < Len(commits), tree' # tree,
                        phase = "idle", VP!WellEnded, alone
                 PROVE  tree' = before
      BY DEF VP!WellEnded
    <2>1. CASE VP!Next
      BY <2>1, SameAssumption, VP!UndoStep
    <2>2. ~ VP!Cancelled /\ ~ VP!Dies /\ ~ UNCHANGED VP!vars
      BY DEF VP!Cancelled, VP!EndsWithout, VP!Dies, VP!vars
    <2> QED
      BY <2>1, <2>2, VaultSteps
  <1> QED
    BY <1>1, VaultInvariantSurvives, PTL DEF Spec, V!UndoRevertsRun

-----------------------------------------------------------------------------
(* Types.  What the service keeps beside the vault, and the bounds on the  *)
(* edits, which no step passes because a number is an edit's only once.    *)
QueueFits ==
    /\ registry \subseteq 1..MaxJobs /\ doneEvents \subseteq 1..MaxJobs
    /\ signalled \subseteq 1..MaxJobs
    /\ history \in Seq(1..MaxJobs)
    /\ workerTask \in Tasks \cup {NoTask}

EditsFit ==
    /\ \A f \in Files : tree[f] \in 0..edits
    /\ recorded \subseteq 0..edits

TellingFits ==
    /\ crashes \in 0..MaxCrashes
    /\ warned \subseteq 1..submitted

LEMMA EditsFitStep ==
    ASSUME Inv, EditsFit, Next
    PROVE  EditsFit'
  <1>0. /\ Shape /\ edits \in Nat /\ tree \in Trees
        /\ \A f \in Files : tree[f] \in 0..edits
        /\ recorded \subseteq 0..edits
    BY ServiceAssumption DEF Inv, Shape, EditsFit, V!VaultAssumption
  <1>1. CASE Calm
    BY <1>0, <1>1 DEF Calm, EditsFit
  <1>2. ASSUME NEW f, edits' = edits + 1, tree' = [tree EXCEPT ![f] = edits + 1]
        PROVE  (\A g \in Files : tree'[g] \in 0..edits') /\ recorded \subseteq 0..edits'
    <2>1. \A g \in Files : tree'[g] = IF g = f THEN edits + 1 ELSE tree[g]
      BY <1>0, <1>2 DEF Trees
    <2>2. edits + 1 \in 0..(edits + 1) /\ \A e \in 0..edits : e \in 0..(edits + 1)
      BY <1>0
    <2> QED
      BY <1>0, <1>2, <2>1, <2>2
  <1>3. ASSUME NEW f, NEW who, Wrote(f, who) PROVE EditsFit'
    BY <1>2, <1>3 DEF Wrote, EditsFit
  <1>4. ASSUME NEW f, Created(f) PROVE EditsFit'
    BY <1>2, <1>4 DEF Created, EditsFit
  <1>5. ASSUME NEW who, Records(who) PROVE EditsFit'
    BY <1>0, <1>5 DEF Records, EditsFit
  <1>6. CASE TakesBack
    <2>1. Len(commits) - 1 \in DOMAIN commits
      BY <1>0, <1>6 DEF TakesBack, Shape
    <2>2. \A f \in Files : commits[Len(commits) - 1][f] \in recorded
      BY <1>0, <2>1 DEF Shape
    <2> QED
      BY <1>0, <1>6, <2>2 DEF TakesBack, EditsFit
  <1> QED
    BY <1>1, <1>3, <1>4, <1>5, <1>6, VaultEffect

LEMMA TellingFitsStep ==
    ASSUME Inv, TellingFits, Next
    PROVE  TellingFits'
  <1>0. /\ Shape /\ submitted \in Nat /\ MaxCrashes \in Nat
        /\ crashes \in 0..MaxCrashes /\ warned \subseteq 1..submitted
        /\ \A t \in Tasks : holds[t] # 0 => holds[t] \in 1..submitted
    <2>1. \A t \in Tasks : holds[t] \in 0..MaxJobs /\ holds[t] <= submitted
      BY DEF Inv, WorkerFits, JobsInOrder, JobsOrNone
    <2> QED
      BY <2>1, Numbers, ServiceAssumption DEF Inv, TellingFits
  <1>1. CASE UNCHANGED <<submitted, crashes, warned>>
    BY <1>0, <1>1 DEF TellingFits
  <1>2. ASSUME NEW op, Accept(op) PROVE TellingFits'
    <2>1. submitted' = submitted + 1 /\ UNCHANGED <<crashes, warned>>
      BY <1>2 DEF Accept, QueueOnly, ghosts, Q!Submit
    <2> QED
      BY <1>0, <2>1 DEF TellingFits
  <1>3. QueueOnly /\ submitted' = submitted => UNCHANGED <<submitted, crashes, warned>>
    BY DEF QueueOnly, ghosts
  <1>4. ASSUME NEW t \in Tasks, Boot(t) \/ Skip(t) PROVE TellingFits'
    BY <1>1, <1>3, <1>4 DEF Boot, Skip, Q!Start, Q!SkipEvicted
  <1>5. ASSUME NEW t \in Tasks, BeginJob(t) \/ RunStep(t) \/ UndoJob(t) \/ Interrupt(t)
        PROVE  TellingFits'
    BY <1>1, <1>5
       DEF BeginJob, RunStep, UndoJob, Interrupt, Note, Q!BeginApply, Q!RunUndo, Q!Unwind,
           queueVars, ghosts
  <1>6. CASE Route
    BY <1>1, <1>6 DEF Route, Note, queueVars
  <1>7. ASSUME NEW t \in Tasks, EndJob(t) PROVE TellingFits'
    <2>1. at[t] = "agent" /\ UNCHANGED <<submitted, crashes>> /\ warned' \subseteq warned \cup {holds[t]}
      BY <1>7 DEF EndJob, Note, Q!AgentReturns
    <2>2. holds[t] \in 1..submitted
      BY <1>0, <2>1 DEF Inv, WorkerFits
    <2> QED
      BY <1>0, <2>1, <2>2 DEF TellingFits
  <1>8. ASSUME NEW t \in Tasks, CrashAfterCommit(t) PROVE TellingFits'
    <2>1. crashes < MaxCrashes /\ crashes' = crashes + 1 /\ UNCHANGED <<submitted, warned>>
      BY <1>8 DEF CrashAfterCommit, LosesQueue
    <2> QED
      BY <1>0, <2>1 DEF TellingFits
  <1>9. CASE Stop
    BY <1>1, <1>3, <1>9 DEF Stop, Q!Stop
  <1>10. CASE Crash
    <2>1. crashes < MaxCrashes /\ crashes' = crashes + 1 /\ UNCHANGED <<submitted, warned>>
      BY <1>10 DEF Crash, LosesQueue, ghosts
    <2> QED
      BY <1>0, <2>1 DEF TellingFits
  <1> QED
    BY <1>2, <1>4, <1>5, <1>6, <1>7, <1>8, <1>9, <1>10 DEF Next

LEMMA QueueFitsStep ==
    ASSUME Inv, QueueFits, Next
    PROVE  QueueFits'
  <1>1. ASSUME UNCHANGED <<registry, doneEvents, history>>,
               signalled' = signalled \/ \E j : signalled' = signalled \cup ({j} \cap doneEvents),
               workerTask' \in Tasks \cup {NoTask, workerTask}
        PROVE  QueueFits'
    BY <1>1 DEF QueueFits
  <1>2. CASE LosesQueue
    BY <1>2 DEF LosesQueue, QueueFits
  <1>3. ASSUME NEW op, Accept(op) PROVE QueueFits'
    <2>1. /\ submitted < MaxJobs /\ Q!AppendHistory(submitted + 1)
          /\ UNCHANGED <<signalled, workerTask>>
      BY <1>3 DEF Accept, Q!Submit
    <2>2. submitted + 1 \in 1..MaxJobs
      BY <2>1, Numbers
    <2>3. registry' \subseteq registry \cup {submitted + 1}
          /\ doneEvents' \subseteq doneEvents \cup {submitted + 1}
      BY <2>1 DEF Q!AppendHistory
    <2>4. history' \in Seq(1..MaxJobs)
      <3>1. Append(history, submitted + 1) \in Seq(1..MaxJobs)
            /\ Append(history, submitted + 1) # << >>
        BY <2>2, Appended DEF QueueFits
      <3>2. Tail(Append(history, submitted + 1)) \in Seq(1..MaxJobs)
        BY <3>1
      <3>3. history' \in {Append(history, submitted + 1), Tail(Append(history, submitted + 1))}
        BY <2>1 DEF Q!AppendHistory
      <3> QED
        BY <3>1, <3>2, <3>3
    <2> QED
      BY <2>1, <2>2, <2>3, <2>4 DEF QueueFits
  <1>4. ASSUME NEW t \in Tasks, Boot(t) \/ Skip(t) PROVE QueueFits'
    BY <1>1, <1>4 DEF Boot, Skip, Q!Start, Q!SkipEvicted
  <1>5. CASE Stop
    BY <1>1, <1>5 DEF Stop, Q!Stop
  <1>6. ASSUME NEW t \in Tasks,
               BeginJob(t) \/ RunStep(t) \/ EndJob(t) \/ UndoJob(t) \/ Interrupt(t)
        PROVE  QueueFits'
    BY <1>1, <1>6
       DEF BeginJob, RunStep, EndJob, UndoJob, Interrupt, Q!BeginApply, Q!AgentReturns,
           Q!RunUndo, Q!Unwind, Q!SetDoneEvent, queueVars
  <1>7. CASE Route
    BY <1>1, <1>7 DEF Route, queueVars
  <1> QED
    BY <1>2, <1>3, <1>4, <1>5, <1>6, <1>7 DEF Next, Crash, CrashAfterCommit

TypeInv == Inv /\ QueueFits /\ EditsFit /\ TellingFits

LEMMA TypeInvInit == Init => TypeInv
  <1> SUFFICES ASSUME Init PROVE TypeInv
    OBVIOUS
  <1>1. QueueFits
    BY DEF Init, Q!Init, QueueFits
  <1>2. EditsFit
    BY DEF Init, V!Init, EditsFit
  <1>3. TellingFits
    BY ServiceAssumption DEF Init, TellingFits
  <1> QED
    BY <1>1, <1>2, <1>3, InvInit DEF TypeInv

LEMMA TypeInvStep == TypeInv /\ [Next]_vars => TypeInv'
  <1>1. ASSUME TypeInv, Next PROVE TypeInv'
    BY <1>1, InvStep, QueueFitsStep, EditsFitStep, TellingFitsStep DEF TypeInv
  <1>2. ASSUME TypeInv, UNCHANGED vars PROVE QueueFits' /\ EditsFit' /\ TellingFits'
    BY <1>2 DEF vars, queueVars, vaultVars, ghosts, TypeInv, QueueFits, EditsFit, TellingFits
  <1> QED
    BY <1>1, <1>2, InvStep DEF TypeInv

(* Every variable of the service keeps its type, over stops and deaths of  *)
(* the process: those of the queue, of the vault and of what is kept for   *)
(* the properties (queue.py 24-116, agent.py 115-314).                     *)
THEOREM TypeCorrect == Spec => []TypeOK
  <1>1. Spec => []TypeInv
    BY TypeInvInit, TypeInvStep, PTL DEF Spec
  <1>2. TypeInv /\ VP!VaultInv => TypeOK
    <2> SUFFICES ASSUME TypeInv, VP!VaultInv PROVE TypeOK
      OBVIOUS
    <2>1. Inv /\ QueueFits /\ EditsFit /\ TellingFits
      BY DEF TypeInv
    <2>2. Q!TypeOK
      <3>1. job \in [Q!JobIds -> Q!Job]
        BY <2>1
           DEF Inv, ResultsFit, JobObjects, Q!JobIds, Q!Job, Q!Operations, Q!Statuses, Q!Results
      <3>2. submitted \in 0..MaxJobs /\ pending \in Seq(1..MaxJobs)
        <4>1. pending \in Seq(1..submitted) /\ submitted \in 0..MaxJobs /\ submitted \in Nat
              /\ MaxJobs \in Nat
          BY <2>1, Numbers DEF Inv, JobsInOrder
        <4>2. 1..submitted \subseteq 1..MaxJobs
          BY <4>1
        <4> QED
          BY <4>1, <4>2
      <3>3. at \in [Tasks -> Q!TaskStates] /\ holds \in [Tasks -> Q!JobIds \cup {0}]
        BY <2>1, Numbers DEF Inv, WorkerFits, Q!TaskStates, Q!JobIds, JobsOrNone
      <3> QED
        BY <2>1, <3>1, <3>2, <3>3 DEF QueueFits, Q!TypeOK, Q!JobIds
    <2>3. V!TypeOK
      BY DEF VP!VaultInv, VP!TypeOK, VP!Trees, VP!Contents, V!TypeOK, V!Trees, V!Contents
    <2> QED
      BY <2>1, <2>2, <2>3 DEF Inv, Shape, EditsFit, TellingFits, TypeOK
  <1> QED
    BY <1>1, <1>2, VaultInvariantSurvives, PTL

=============================================================================
