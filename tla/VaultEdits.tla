----------------------------- MODULE VaultEdits -----------------------------
(***************************************************************************)
(* Who edits the vault and who commits: the agent's runs (agent.py and the *)
(* write tools of tools.py), the deterministic routes of vault_routes.py,  *)
(* and programs outside the service, such as the Obsidian editor.          *)
(*                                                                         *)
(* A run gives up the event loop while it waits for the language model and *)
(* between tool calls; the routes run in those gaps, because only jobs go  *)
(* through the queue.  A route never awaits, so nothing else in the        *)
(* service runs during it, but a program outside can.                      *)
(*                                                                         *)
(* A file's content is the number of the edit that wrote it, 0 at first; a *)
(* deletion is an edit too.  obsidian-ops and jj are external: a commit    *)
(* records the whole tree, and undo_last_change takes the last commit back *)
(* and restores the tree of the one before.                                *)
(***************************************************************************)
EXTENDS Naturals, Sequences

CONSTANTS Files,
          NoFile,           \* no PUT is in progress
          MaxIterations,    \* config.max_iterations
          SyncAfterCommit,  \* config.sync_after_commit
          MaxEdits,         \* bound of the model: edits of the vault
          MaxRuns           \* bound of the model: runs of the agent

ASSUME VaultAssumption ==
    /\ NoFile \notin Files
    /\ MaxIterations \in Nat \ {0}
    /\ SyncAfterCommit \in BOOLEAN
    /\ MaxEdits \in Nat
    /\ MaxRuns \in Nat

VARIABLES
    tree,     \* content of the working copy
    commits,  \* trees committed, oldest first
    edits,    \* number of edits so far
    phase,    \* the run: "idle", "asking" the model, "acting" between tool calls
    requests, \* model requests of the run
    changed,  \* deps.changed_files
    last,     \* RunResult of the last run
    seen,     \* content of each file when the client last read or wrote it
    put,      \* the PUT in progress
    runs,     \* number of runs so far
    \* Kept for the properties only.
    touched,  \* files the tools of the run have edited
    unsaved,  \* of these, pages from templates whose commit failed, not edited otherwise
    byAgent,  \* edits made by tools
    before,   \* tree when the run began
    alone,    \* the run began on a clean tree and nothing else edited since
    excused   \* a known reason for uncommitted edits

runVars     == <<phase, requests, changed, last, runs>>
historyVars == <<touched, unsaved, byAgent, before, alone>>
vars == <<tree, commits, edits, seen, put, excused, runVars, historyVars>>

Contents  == 0..MaxEdits
Trees     == [Files -> Contents]
Committed == commits[Len(commits)]

NoPut == [step |-> "none", file |-> NoFile, checked |-> FALSE]

Result(kind, files, warning) == [kind |-> kind, files |-> files, warning |-> warning]

TypeOK ==
    /\ tree \in Trees
    /\ commits \in Seq(Trees) /\ commits # << >>
    /\ edits \in 0..MaxEdits
    /\ phase \in {"idle", "asking", "acting"}
    /\ requests \in 0..MaxIterations
    /\ changed \subseteq Files /\ touched \subseteq Files /\ unsaved \subseteq touched
    /\ last \in [kind: {"none", "ok", "notOk", "timeout", "raised"},
                 files: SUBSET Files, warning: BOOLEAN]
    /\ seen \in Trees
    /\ put \in [step: {"none", "write", "commit"}, file: Files \cup {NoFile}, checked: BOOLEAN]
    /\ runs \in 0..MaxRuns
    /\ byAgent \subseteq 1..MaxEdits
    /\ before \in Trees
    /\ alone \in BOOLEAN /\ excused \in BOOLEAN

Init ==
    /\ tree = [f \in Files |-> 0]
    /\ commits = <<tree>>
    /\ edits = 0
    /\ phase = "idle"
    /\ requests = 0
    /\ changed = {}
    /\ last = Result("none", {}, FALSE)
    /\ seen = tree
    /\ put = NoPut
    /\ runs = 0
    /\ touched = {} /\ unsaved = {} /\ byAgent = {} /\ before = tree
    /\ alone = FALSE /\ excused = FALSE

LoopFree == put.step = "none"

(* A successful edit of file f through the vault.                          *)
Edit(f) ==
    /\ edits < MaxEdits
    /\ edits' = edits + 1
    /\ tree' = [tree EXCEPT ![f] = edits + 1]

(* vault.commit with the tree t: everything uncommitted goes in.           *)
Commit(t) == commits' = Append(commits, t) /\ excused' = FALSE

-----------------------------------------------------------------------------
(* A run of the agent.                                                     *)

BeginRun ==
    /\ LoopFree /\ phase = "idle" /\ runs < MaxRuns
    /\ runs' = runs + 1
    /\ phase' = "asking"
    /\ requests' = 1
    /\ changed' = {} /\ touched' = {} /\ unsaved' = {}
    /\ before' = tree
    /\ alone' = (tree = Committed)
    /\ UNCHANGED <<tree, commits, edits, last, seen, put, byAgent, excused>>

(* The model answers with tool calls.                                      *)
ModelCallsTools ==
    /\ LoopFree /\ phase = "asking"
    /\ phase' = "acting"
    /\ UNCHANGED <<tree, commits, edits, seen, put, requests, changed, last, runs,
                   historyVars, excused>>

\* A mutant of WriteTool.
ForgetsPath(f) ==
    /\ LoopFree /\ phase = "acting"
    /\ Edit(f)
    /\ touched' = touched \cup {f} /\ unsaved' = unsaved \ {f}
    /\ byAgent' = byAgent \cup {edits + 1}
    /\ UNCHANGED <<commits, changed, seen, put, phase, requests, last, runs, before, alone,
                   excused>>

(* write_file, delete_file, the frontmatter, heading and block tools.  A   *)
(* call that is refused or that fails with a VaultError changes nothing.   *)
WriteTool(f) ==
    /\ LoopFree /\ phase = "acting"
    /\ Edit(f)
    /\ changed' = changed \cup {f}
    /\ touched' = touched \cup {f} /\ unsaved' = unsaved \ {f}
    /\ byAgent' = byAgent \cup {edits + 1}
    /\ UNCHANGED <<commits, seen, put, phase, requests, last, runs, before, alone, excused>>

(* create_from_template: the vault writes the page and commits.  When the  *)
(* commit fails, the page is there, but the tool reports a VaultError and  *)
(* does not add its path to changed_files.                                 *)
TemplateTool(f, committed) ==
    /\ LoopFree /\ phase = "acting"
    /\ Edit(f)
    /\ touched' = touched \cup {f}
    /\ byAgent' = byAgent \cup {edits + 1}
    /\ alone' = FALSE
    /\ IF committed
       THEN Commit(tree') /\ changed' = changed \cup {f} /\ unsaved' = unsaved \ {f}
       ELSE /\ UNCHANGED <<commits, changed>>
            /\ unsaved' = unsaved \cup ({f} \ touched)
            /\ excused' = TRUE
    /\ UNCHANGED <<seen, put, phase, requests, last, runs, before>>

(* What the run kept of itself goes with it, deps and their changed_files. *)
EndsWith(result) ==
    /\ phase' = "idle"
    /\ last' = result
    /\ requests' = 0 /\ changed' = {}

(* The run ends without a commit: its edits stay in the working copy.      *)
EndsWithout(kind) ==
    /\ EndsWith(Result(kind, {}, FALSE))
    /\ excused' = (excused \/ touched # unsaved)
    /\ UNCHANGED <<tree, commits, edits, seen, put, runs, historyVars>>

\* A mutant of AskAgain.
OneRequestTooMany ==
    /\ LoopFree /\ phase = "acting"
    /\ requests <= MaxIterations
    /\ phase' = "asking"
    /\ requests' = requests + 1
    /\ UNCHANGED <<tree, commits, edits, seen, put, changed, last, runs, historyVars, excused>>

(* The tool results go back to the model, within UsageLimits.              *)
AskAgain ==
    /\ LoopFree /\ phase = "acting"
    /\ requests < MaxIterations
    /\ phase' = "asking"
    /\ requests' = requests + 1
    /\ UNCHANGED <<tree, commits, edits, seen, put, changed, last, runs, historyVars, excused>>

(* UsageLimitExceeded.                                                     *)
ExceedsLimit ==
    /\ LoopFree /\ phase = "acting"
    /\ requests = MaxIterations
    /\ EndsWithout("notOk")

(* ModelAPIError.                                                          *)
ModelFails ==
    /\ LoopFree /\ phase = "asking"
    /\ EndsWithout("notOk")

(* BusyError from a tool, or an error no tool catches.                     *)
ToolRaises ==
    /\ LoopFree /\ phase = "acting"
    /\ EndsWithout("raised")

(* operation_timeout: wait_for cancels _run_impl where it is suspended.    *)
(* A TimeoutError raised inside it, while it asks or by a tool, ends it    *)
(* the same way.                                                           *)
RunTimesOut ==
    /\ LoopFree /\ phase \in {"asking", "acting"}
    /\ EndsWithout("timeout")

(* The model's final answer.  Nothing is awaited from here to the result.  *)
FinishUnchanged ==
    /\ LoopFree /\ phase = "asking" /\ changed = {}
    /\ EndsWith(Result("ok", {}, FALSE))
    /\ UNCHANGED <<tree, commits, edits, seen, put, runs, historyVars, excused>>

\* A mutant of FinishChanged.
HidesCommitFailure(committed, synced) ==
    /\ LoopFree /\ phase = "asking" /\ changed # {}
    /\ EndsWith(Result("ok", changed, FALSE))
    /\ IF committed THEN Commit(tree) ELSE UNCHANGED commits /\ excused' = TRUE
    /\ UNCHANGED <<tree, edits, seen, put, runs, historyVars>>

(* A commit or a sync that fails leaves a warning; there is no sync after  *)
(* a commit that failed.                                                   *)
FinishChanged(committed, synced) ==
    /\ LoopFree /\ phase = "asking" /\ changed # {}
    /\ committed => synced \/ SyncAfterCommit
    /\ EndsWith(Result("ok", changed, ~(committed /\ synced)))
    /\ IF committed THEN Commit(tree) ELSE UNCHANGED commits /\ excused' = TRUE
    /\ UNCHANGED <<tree, edits, seen, put, runs, historyVars>>

Run ==
    \/ BeginRun \/ ModelCallsTools \/ AskAgain
    \/ \E f \in Files : WriteTool(f) \/ \E committed \in BOOLEAN : TemplateTool(f, committed)
    \/ ExceedsLimit \/ ModelFails \/ ToolRaises \/ RunTimesOut
    \/ FinishUnchanged
    \/ \E committed, synced \in BOOLEAN : FinishChanged(committed, synced)

-----------------------------------------------------------------------------
(* vault.undo_last_change, from agent.undo() (a job, so no run is active)  *)
(* or from POST /api/vault/undo (at any time).  It fails without effect,   *)
(* or restores the tree, or reports that restoring failed.                 *)
UndoLastChange ==
    /\ Len(commits) > 1
    /\ commits' = SubSeq(commits, 1, Len(commits) - 1)
    /\ \/ tree' = commits[Len(commits) - 1] /\ excused' = FALSE
       \/ UNCHANGED tree /\ excused' = TRUE
    /\ alone' = FALSE
    /\ UNCHANGED <<edits, seen, put, runVars, touched, unsaved, byAgent, before>>

UndoJob   == LoopFree /\ phase = "idle" /\ UndoLastChange
VaultUndo == LoopFree /\ UndoLastChange

-----------------------------------------------------------------------------
(* The deterministic routes.                                               *)

GetFile(f) ==
    /\ LoopFree
    /\ seen' = [seen EXCEPT ![f] = tree[f]]
    /\ UNCHANGED <<tree, commits, edits, put, excused, runVars, historyVars>>

\* A mutant of PutCheck.
IgnoresHash(f, checked) ==
    /\ LoopFree
    /\ put' = [step |-> "write", file |-> f, checked |-> checked]
    /\ UNCHANGED <<tree, commits, edits, seen, excused, runVars, historyVars>>

(* put_file up to the comparison with expected_sha256, when one was sent.  *)
(* A mismatch is answered 409 and changes nothing.                         *)
PutCheck(f, checked) ==
    /\ LoopFree
    /\ checked => tree[f] = seen[f]
    /\ put' = [step |-> "write", file |-> f, checked |-> checked]
    /\ UNCHANGED <<tree, commits, edits, seen, excused, runVars, historyVars>>

PutWrite ==
    /\ put.step = "write"
    /\ Edit(put.file)
    /\ put' = [put EXCEPT !.step = "commit"]
    /\ alone' = FALSE
    /\ UNCHANGED <<commits, seen, excused, runVars, touched, unsaved, byAgent, before>>

(* write_file failed: the route answers an error.                          *)
PutFails ==
    /\ put.step = "write"
    /\ put' = NoPut
    /\ UNCHANGED <<tree, commits, edits, seen, excused, runVars, historyVars>>

\* A mutant of PutCommit.
PutForgetsCommit(committed, answered) ==
    /\ put.step = "commit"
    /\ UNCHANGED commits
    /\ excused' = (excused \/ ~committed)
    /\ seen' = IF answered THEN [seen EXCEPT ![put.file] = tree[put.file]] ELSE seen
    /\ put' = NoPut
    /\ UNCHANGED <<tree, edits, runVars, historyVars>>

(* The commit, which may fail with a warning, and the answer: the hash of  *)
(* the content read back, or an error when it cannot be read back.         *)
PutCommit(committed, answered) ==
    /\ put.step = "commit"
    /\ IF committed THEN Commit(tree) ELSE UNCHANGED commits /\ excused' = TRUE
    /\ seen' = IF answered THEN [seen EXCEPT ![put.file] = tree[put.file]] ELSE seen
    /\ put' = NoPut
    /\ UNCHANGED <<tree, edits, runVars, historyVars>>

(* ensure_file_anchor: the vault writes a block id; nothing commits it.    *)
EnsureAnchor(f) ==
    /\ LoopFree
    /\ Edit(f)
    /\ seen' = [seen EXCEPT ![f] = edits + 1]
    /\ alone' = FALSE /\ excused' = TRUE
    /\ UNCHANGED <<commits, put, runVars, touched, unsaved, byAgent, before>>

(* create_page_from_template: a commit that fails is answered 424.         *)
CreatePage(f, committed) ==
    /\ LoopFree
    /\ Edit(f)
    /\ IF committed
       THEN Commit(tree') /\ seen' = [seen EXCEPT ![f] = edits + 1]
       ELSE UNCHANGED <<commits, seen>> /\ excused' = TRUE
    /\ alone' = FALSE
    /\ UNCHANGED <<put, runVars, touched, unsaved, byAgent, before>>

(* A program outside the service edits a file.                             *)
ExternalEdit(f) ==
    /\ Edit(f)
    /\ alone' = FALSE /\ excused' = TRUE
    /\ UNCHANGED <<commits, seen, put, runVars, touched, unsaved, byAgent, before>>

Routes ==
    \/ \E f \in Files : GetFile(f) \/ EnsureAnchor(f)
    \/ \E f \in Files, committed \in BOOLEAN : CreatePage(f, committed)
    \/ \E f \in Files, checked \in BOOLEAN : PutCheck(f, checked)
    \/ PutWrite \/ PutFails \/ VaultUndo
    \/ \E committed, answered \in BOOLEAN : PutCommit(committed, answered)

Next ==
    \/ Run
    \/ UndoJob
    \/ Routes
    \/ \E f \in Files : ExternalEdit(f)

Spec == Init /\ [][Next]_vars

-----------------------------------------------------------------------------
(* Properties.                                                             *)

(* A run that ends well reports exactly the files its tools edited, over   *)
(* all its requests, but for one kind: a page whose creation from a        *)
(* template failed in the commit is in the vault, and the report leaves it *)
(* out unless another tool edited it too (agent.py 254-303, tools.py       *)
(* 255-275).                                                               *)
ReportsWhatItEdited ==
    phase = "idle" /\ last.kind = "ok" => last.files = touched \ unsaved

(* A run that ends well without a warning has committed its edits, but for *)
(* pages whose own commit failed, whatever the routes and the editor did   *)
(* meanwhile (agent.py 257-296).                                           *)
CommitsBeforeReporting ==
    [][ phase = "asking" /\ phase' = "idle" /\ last'.kind = "ok" /\ ~last'.warning
        => \A f \in touched \ unsaved : commits'[Len(commits')][f] = tree'[f] ]_vars

(* Between operations the working copy equals the last commit, unless a    *)
(* failed run, a failed commit or restore, an anchor or an outside program *)
(* left edits behind since that commit: what a run that ended well or a    *)
(* PUT wrote is committed.                                                 *)
SettledIsCommitted ==
    phase = "idle" /\ LoopFree /\ ~excused => tree = Committed

(* A PUT that carries the hash of what the client read never overwrites an *)
(* edit of the agent that the client has not seen, although the PUT reads, *)
(* compares and writes in separate steps (vault_routes.py 113-128).        *)
CheckedPutKeepsAgentEdits ==
    [][ put.step = "write" /\ put'.step = "commit" /\ put.checked
        /\ tree[put.file] \in byAgent
        => seen[put.file] = tree[put.file] ]_vars

(* Undoing the last run takes back all of it and nothing else, when it     *)
(* began on a clean tree, created no page from a template, and nothing     *)
(* else edited the vault since (agent.py 305-314).                         *)
UndoRevertsRun ==
    [][ Len(commits') < Len(commits) /\ tree' # tree
        /\ phase = "idle" /\ last.kind = "ok" /\ ~last.warning /\ last.files # {} /\ alone
        => tree' = before ]_vars

(* OBSIDIAN_AGENT_README.md 162, 165: a RunResult says whether and which   *)
(* files were modified.  A run that fails or times out reports none        *)
(* (agent.py 199-206, 240-253), and no run reports a page whose own commit *)
(* failed (tools.py 267-275).                                              *)
EveryRunReportsItsEdits ==
    phase = "idle" /\ last.kind \in {"ok", "notOk", "timeout"} => last.files = touched

=============================================================================
