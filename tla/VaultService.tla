---------------------------- MODULE VaultService ----------------------------
(***************************************************************************)
(* The job queue and the vault together.  The worker's agent.run() and     *)
(* agent.undo() are the run and the undo of VaultEdits, and the process    *)
(* may be stopped, or die at any instant, and be started again: the queue  *)
(* is in memory and is lost, the vault is on disk and stays.               *)
(*                                                                         *)
(* The steps are those of JobQueue and VaultEdits, joined where the worker *)
(* calls the agent.  Of the routes, one PUT and the undo are enough to     *)
(* commit and to take back commits between the steps of a run; what        *)
(* clients read is followed in VaultEdits.                                 *)
(***************************************************************************)
EXTENDS Naturals, Sequences

CONSTANTS MaxHistory, MaxJobs, Tasks, NoTask,                           \* JobQueue
          Files, NoFile, MaxIterations, SyncAfterCommit, MaxEdits,      \* VaultEdits
          MaxCrashes  \* bound of the model: deaths of the process

VARIABLES
    submitted, job, registry, doneEvents, signalled, history, pending, at, holds, workerTask,
    tree, commits, edits, phase, requests, changed, last, seen, put, runs,
    touched, unsaved, byAgent, before, alone, excused,
    crashes,   \* deaths of the process so far
    \* Kept for the properties only.
    author,    \* the job whose editing tools made each edit, 0 for any other edit
    owner,     \* the job whose run ended with each commit, 0 for any other commit
    recorded,  \* edits that have been in the tree of a commit
    warned     \* jobs whose result carries a warning

Q == INSTANCE JobQueue
V == INSTANCE VaultEdits WITH MaxRuns <- MaxJobs

ASSUME ServiceAssumption ==
    Q!QueueAssumption /\ V!VaultAssumption /\ MaxCrashes \in Nat

queueVars == <<submitted, job, registry, doneEvents, signalled, history, pending, at, holds,
               workerTask>>
vaultVars == <<tree, commits, edits, phase, requests, changed, last, seen, put, runs, touched,
               unsaved, byAgent, before, alone, excused>>
ghosts == <<author, owner, recorded, warned>>
vars   == <<queueVars, vaultVars, crashes, ghosts>>

JobsOrNone == 0..MaxJobs

TypeOK ==
    /\ Q!TypeOK /\ V!TypeOK
    /\ crashes \in 0..MaxCrashes
    /\ author \in [1..MaxEdits -> JobsOrNone]
    /\ owner \in Seq(JobsOrNone) /\ Len(owner) = Len(commits)
    /\ recorded \subseteq 0..edits
    /\ warned \subseteq 1..submitted

Init ==
    /\ Q!Init /\ V!Init
    /\ crashes = 0
    /\ author = [e \in 1..MaxEdits |-> 0]
    /\ owner = <<0>>
    /\ recorded = {0}
    /\ warned = {}

(* What a step of the vault does to the ghosts, when `who` made it.        *)
Note(who) ==
    /\ author' = IF edits' = edits THEN author ELSE [author EXCEPT ![edits'] = who]
    /\ owner' = IF Len(commits') > Len(commits) THEN Append(owner, who)
                ELSE SubSeq(owner, 1, Len(commits'))
    /\ recorded' = recorded \cup {commits'[Len(commits')][f] : f \in Files}
    /\ UNCHANGED crashes

(* A step of the queue alone; the loop is free between the steps of a PUT. *)
QueueOnly == V!LoopFree /\ UNCHANGED <<vaultVars, crashes, ghosts>>

Serving == \E t \in Tasks : at[t] \in {"get", "agent"}

-----------------------------------------------------------------------------
Boot(t)   == QueueOnly /\ Q!Start(t)
Stop      == QueueOnly /\ Q!Stop
Accept(op) == QueueOnly /\ Serving /\ Q!Submit(op)
Skip(t)   == QueueOnly /\ Q!SkipEvicted(t)

(* The worker calls agent.run().                                           *)
BeginJob(t) ==
    /\ Q!BeginApply(t)
    /\ V!BeginRun
    /\ UNCHANGED <<crashes, ghosts>>

(* A page created from a template, and its commit, are counted as nobody's.*)
RunStep(t) ==
    /\ at[t] = "agent"
    /\ \/ (V!ModelCallsTools \/ V!AskAgain \/ \E f \in Files : V!WriteTool(f)) /\ Note(holds[t])
       \/ (\E f \in Files, committed \in BOOLEAN : V!TemplateTool(f, committed)) /\ Note(0)
    /\ UNCHANGED <<queueVars, warned>>

RunResult ==
    \/ V!ExceedsLimit \/ V!ModelFails \/ V!ToolRaises \/ V!RunTimesOut \/ V!FinishUnchanged
    \/ \E committed, synced \in BOOLEAN : V!FinishChanged(committed, synced)

(* agent.run() returns or raises: the job's outcome is the run's.          *)
EndJob(t) ==
    /\ at[t] = "agent"
    /\ RunResult
    /\ Q!AgentReturns(t, last'.kind)
    /\ Note(holds[t])
    /\ warned' = IF last'.warning THEN warned \cup {holds[t]} ELSE warned

(* agent.undo(): the result is ok unless the vault fails without effect.   *)
UndoJob(t) ==
    /\ V!LoopFree
    /\ \/ V!UndoLastChange /\ Q!RunUndo(t, "ok")
       \/ UNCHANGED vaultVars /\ Q!RunUndo(t, "notOk")
    /\ Note(0) /\ UNCHANGED warned

\* A mutant of Interrupt: the run goes on without its worker.
LeavesRun(t) ==
    /\ V!LoopFree
    /\ Q!Unwind(t)
    /\ UNCHANGED <<vaultVars, crashes, ghosts>>

(* The CancelledError reaches the worker, and the run when there is one.   *)
Interrupt(t) ==
    /\ V!LoopFree
    /\ Q!Unwind(t)
    /\ IF holds[t] = 0 THEN UNCHANGED vaultVars ELSE V!EndsWithout("raised")
    /\ UNCHANGED <<crashes, ghosts>>

(* A PUT begins only while MaxEdits leaves it an edit.                     *)
Route ==
    /\ Serving
    /\ \/ edits < MaxEdits /\ \E f \in Files : V!PutCheck(f, FALSE)
       \/ V!PutWrite \/ V!PutFails \/ V!VaultUndo
       \/ \E committed \in BOOLEAN : V!PutCommit(committed, FALSE)
    /\ UNCHANGED queueVars
    /\ Note(0) /\ UNCHANGED warned

-----------------------------------------------------------------------------
(* The queue of a new process.  The numbers of the jobs go on, since ids   *)
(* are never reused; the results clients were given stay in `job`.         *)
LosesQueue ==
    /\ job' = [j \in 1..MaxJobs |-> IF job[j].finished THEN job[j] ELSE Q!Absent]
    /\ registry' = {} /\ doneEvents' = {} /\ signalled' = {}
    /\ history' = << >> /\ pending' = << >>
    /\ at' = [t \in Tasks |-> "dead"] /\ holds' = [t \in Tasks |-> 0]
    /\ workerTask' = NoTask
    /\ UNCHANGED submitted

(* The process dies, also between the write and the commit of a PUT.       *)
Crash ==
    /\ crashes < MaxCrashes
    /\ crashes' = crashes + 1
    /\ LosesQueue
    /\ phase' = "idle"
    /\ put' = V!NoPut
    /\ last' = V!Result("none", {}, FALSE)
    /\ requests' = 0 /\ changed' = {} /\ touched' = {} /\ unsaved' = {} /\ before' = tree
    /\ alone' = FALSE /\ excused' = TRUE
    /\ UNCHANGED <<tree, commits, edits, seen, runs, byAgent, ghosts>>

(* It dies when a run has committed and nobody has been told.              *)
CrashAfterCommit(t) ==
    /\ crashes < MaxCrashes
    /\ at[t] = "agent"
    /\ V!FinishChanged(TRUE, TRUE)
    /\ LosesQueue
    /\ author' = author
    /\ owner' = Append(owner, holds[t])
    /\ recorded' = recorded \cup {tree[f] : f \in Files}
    /\ crashes' = crashes + 1
    /\ UNCHANGED warned

Next ==
    \/ \E t \in Tasks :
          \/ Boot(t) \/ Skip(t) \/ BeginJob(t) \/ RunStep(t) \/ EndJob(t) \/ UndoJob(t)
          \/ Interrupt(t) \/ CrashAfterCommit(t)
    \/ Stop
    \/ \E op \in Q!Operations : Accept(op)
    \/ Route
    \/ Crash

Spec == Init /\ [][Next]_vars

-----------------------------------------------------------------------------
(* Properties.                                                             *)

(* A run is in progress exactly while the worker holds a job: no other job *)
(* is begun, and none is undone, before it has ended, whatever is          *)
(* submitted, stopped, killed and started again (queue.py 90-116).  So     *)
(* what VaultEdits assumes of the queue, one run at a time and no undo job *)
(* during a run, never holds back a worker.                                *)
OneRunPerHeldJob ==
    /\ phase # "idle" <=> \E t \in Tasks : holds[t] # 0
    /\ \A t \in Tasks : at[t] = "get" => phase = "idle"

(* The commits that end the runs of jobs are in the order of submission,   *)
(* and no job has two: over failures, undo jobs, rotation and restarts no  *)
(* job is applied twice, even when the process dies between its commit and *)
(* its result (queue.py 90-116, agent.py 257-303).                         *)
JobsCommitOnceInOrder ==
    \A i, k \in DOMAIN owner : i < k /\ owner[i] # 0 /\ owner[k] # 0 => owner[i] < owner[k]

(* An edit by a job's editing tools that is in the vault but never was in  *)
(* a commit is of a job that is running, or of one whose client was not    *)
(* told that all is well: it failed, ended with a warning, was             *)
(* interrupted, or died with the process (agent.py 257-303).  A page from  *)
(* a template whose commit failed is no such edit: its run may end well    *)
(* (tools.py 267-275).                                                     *)
UnrecordedEditsAreNotReported ==
    \A f \in Files :
        LET j == IF tree[f] = 0 THEN 0 ELSE author[tree[f]]
        IN  j # 0 /\ tree[f] \notin recorded => job[j].result # "ok" \/ j \in warned

=============================================================================
