# Formal models of obsidian-agent

obsidian-agent lets a language model edit an Obsidian vault. It is a FastAPI
service: HTTP requests become jobs, one worker runs the jobs one at a time, a
job asks the model, the model calls tools that edit files, and the edits are
committed with jj. Some routes edit the vault directly, without the model and
without the queue. This directory models the parts of the service where the
order of events matters, checks them with TLC on small instances and proves the
most important results with TLAPS. Paths below are relative to
`src/src/obsidian_agent/`.

## The system

| Part | State | Operations | Works with |
|---|---|---|---|
| Job queue (`queue.py`) | `_pending`, `_jobs`, `_done_events`, `_history`, `_worker_task` | `submit`, `get`, `get_done_event`, `list_recent`, `start`, `stop`, the worker | calls `Agent.run` and `Agent.undo`; called by the handlers |
| HTTP service (`app.py`, `routes/agent_routes.py`, `routes/job_routes.py`) | the lifespan, one suspended handler per synchronous request | start, shutdown, apply, undo, submit, get, list | submits to the queue, waits on a job's event with a timer |
| Agent (`agent.py`) | the run in progress | `run`, `undo` | asks the model, calls tools, commits and syncs the vault |
| Tools (`tools.py`) | `changed_files` of the run | seven editing tools, `create_from_template`, reading tools, sync tools | obsidian-ops `Vault` |
| Vault routes (`routes/vault_routes.py`) | none | get, put, structure, anchors, templates, pages, undo, sync | the vault directly; the rate limiter |
| Rate limiter (`rate_limit.py`) | a bucket of timestamps per client and route | `allow` | `time.monotonic` |
| Interfaces and scopes (`interfaces/`, `scope.py`) | none | which tools a profile allows for a scope | the handlers, the tools' checks |
| Paths (`web_paths.py`) | none | normalise, path to URL and back | routes, scopes, tools |
| Demo (`demo.py`) | index of the next step | next, undo | the agent, without the queue |
| Configuration, models, prompt (`config.py`, `models.py`, `prompt.py`) | none | validation | all |

Everything in the service runs on one asyncio event loop, so code between two
awaits is atomic with respect to the rest of the service. What makes it hard:

- the worker, the handlers and the timers interleave at their awaits, and they
  hold references to jobs that the history has rotated out meanwhile;
- two timers of the same length race, the handler's and the run's;
- `stop()` cancels the worker wherever it is suspended;
- the vault routes run between the tool calls of a run, and other programs
  (the Obsidian editor) edit the vault at any time;
- edits reach the disk before the commit, and the commit can fail.

What should hold, part by part: jobs run one at a time, in order, and none is
lost or repeated; every end of a job is signalled; a caller is answered, and
with the truth; shutdown ends; a run reports and commits what it edited, and
undo takes back that and no more; a write checked against a hash does not
overwrite the agent; the limit holds in every window. `PROJECT.json` lists the
hazards behind these, each with its line and the properties that cover it.

## Modules

| Module | Models |
|---|---|
| `JobQueue` | the queue and its worker |
| `JobLifecycle` | what the queue promises, without its data structures; `JobQueue` refines it |
| `AgentService` | extends `JobQueue` with the lifespan, the handlers and the timers |
| `VaultEdits` | a run's edits and commit, the vault routes, undo, outside programs |
| `VaultService` | composes `JobQueue` and `VaultEdits`: a job's outcome is its run's, and the process may die and be started again |
| `RateLimiter` | the sliding-window limiter |
| `DemoWalkthrough` | extends `VaultEdits` with the keys and the step index of the guided demo |
| `WebPaths` | paths and URLs as operators: normalisation and conversion both ways |
| `ToolPolicy` | extends `WebPaths` with scopes, profiles and the tools' checks, as operators |
| `ModelChoice` | how the language model is chosen, as operators |
| `EditRequests` | composes the last three: a request, the job it becomes, the run's tools, the URL answered |
| `Selection` | what a comprehension with a condition leaves of a sequence; used by `JobQueue`, `WebPaths` and `ModelChoice` |
| `MC...` | constants for TLC |
| `..._proofs` | the proofs |

### JobQueue and JobLifecycle

Each variable is an attribute of the code (`registry` is the key set of
`_jobs`, `doneEvents` that of `_done_events`, `job` the Job objects themselves,
which survive their registration). `Submit`, `Start` and `Stop` are the methods;
the worker's steps run from one await to the next: `BeginApply` from
`pending.get()` to `agent.run()`, `AgentReturns` from there through `finally`,
`RunUndo` at once because `agent.undo()` awaits nothing, `SkipEvicted` for an id
whose job is gone, and `Unwind` when a CancelledError arrives, which runs
`finally` but not `except Exception`. A uuid is the number of its submission.

The model lets other tasks in between a finished job and the next pending one,
although the worker does not suspend when `_pending` is not empty: it has every
behaviour of the code and some more.

`JobLifecycle` keeps a phase per job: accepted in order, begun oldest first and
only when none runs, ended once, dropped only while queued and when
`Retention` newer jobs have been accepted. The refinement maps a running job
with `finished_at` to "interrupted" and a queued, unregistered one to "dropped".

### AgentService

Adds one handler state per job (`caller`), the run's timer and the phase of the
lifespan. The timers are not given durations: all have the length
`operation_timeout`, and the event loop fires them in the order of their
deadlines, so a timer expires only when no timer armed earlier is still
running. `runArmed` places the run's timer among the handlers'. `Drain` and the
guard of `Shutdown` model uvicorn, which waits for open requests before it
sends the lifespan its shutdown event. A handler whose event is set may still
be overtaken by its timer, or by evictions, before it resumes. A run also ends
with the timeout result when a TimeoutError is raised inside it, because
`agent.run` catches both alike; `timedOut`, kept for the properties, holds the
jobs whose run was cancelled by its own timer.

### VaultEdits

A file's content is the number of the edit that wrote it. A run alternates
between waiting for the model ("asking") and its tool calls ("acting"). A tool
is atomic: it is `async` but awaits nothing. A route is atomic for the service
too, but `put_file` is split in read and compare, write, and commit and answer,
because an outside program can act in between (`LoopFree` keeps the rest of the
service out). obsidian-ops is external: `commit` records the whole working copy,
or fails without effect; `undo_last_change` removes the last commit and
restores the tree before it, or reports that restoring failed; any call may
fail with a busy vault. A tool that is refused or fails changes nothing, but for
one: when the commit of `create_from_template` fails, its page is in the vault,
and the tool reports an error and does not add it to `changed_files`. The
variables `touched`, `unsaved`, `byAgent`, `before`, `alone` and `excused` exist
for the properties only. `touched` holds every file the run's tools have written,
such a page too; `unsaved` holds such pages as long as no other tool of the run
has written them. `ReportsWhatItEdited` and `CommitsBeforeReporting` are about
the rest of `touched`, and say so; the report itself is a finding (4). `excused`
says that uncommitted edits have a known cause: a run that failed after an edit,
a failed commit or restore, an anchor, which the route does not commit, or an
outside program.

### VaultService

The variables are those of `JobQueue` and `VaultEdits`, and the actions are
theirs, joined where the worker calls the agent: `BeginJob` is `BeginApply` with
`BeginRun`; `EndJob` is the end of a run with `AgentReturns`, whose outcome is
the run's result, with the warning of a failed commit or of a failed sync after
it; `UndoJob` is `RunUndo` with `UndoLastChange`; `Interrupt` is
`Unwind` with the end of the run it cancels. `RunStep` is the run alone, `Route`
an unchecked PUT or an undo by a client. Nothing here assumes that runs do not
overlap: `BeginRun` needs an idle agent, and `OneRunPerHeldJob` says that it
never has to hold a worker back.

`Crash` may happen between any two steps, the write and the commit of a PUT
included, and `CrashAfterCommit` between a run's commit and its job's result.
`LosesQueue` empties what is in memory; the vault stays, with edits uncommitted.
`Boot` starts the worker of the next process. Job numbers go on, as ids are
never reused. `author`, `owner`, `recorded` and `warned` are there for the
properties: which job made an edit, whose run ended with a commit, which edits
have ever been committed, which jobs ended with a warning.

The properties say what remains over all this: at most one run, and only for a
job that is held; no job commits twice, and jobs commit in submission order, as
far as the commits have not been taken back (an undo shortens `owner` with
`commits`); and
an edit of a run that was never in any commit belongs to a job whose client was
not told that all is well.

### WebPaths, ToolPolicy, ModelChoice and EditRequests

A path is the sequence of its parts between slashes, a part a stem, how often
`.md` follows it and whether blanks stand before it; that is what `strip()`,
`PurePosixPath` and the conversions look at. Blanks after a path are stripped
wherever those before it are, and are left out. Stems are a constant, which holds
at least the empty one, `.`, `..` and `index`; some may contain a character that
ends the path of a URL, and `BeforeMark` and `BeforeSemicolon` say what stands
before it, because `urlparse` cuts there (`UrlPathComponent`) and
`vault_path_to_url` quotes nothing.
An operator that may raise ValueError is the set of its results, empty or with
one element. `ToolPolicy` holds the validators of `scope.py` and `ApplyRequest`,
the tools of each profile and the checks `_tool_allowed` and `_path_allowed`. A
model name is reduced to whether it is generic, whether it contains "instruct",
and whether it is blank, because a blank name the server offers is kept.

`EditRequests` makes a behaviour of them. `BuildAgent` chooses the model, or the
service does not start. `Apply` is an apply request that passes validation;
`JobRequest` is the job the handlers make of it, with the policy of its run.
`EditWith`, `CreateFromTemplate` and `Sync` are tools that succeed, `EditWith`
with any path the policy lets through; `AnswerUrl` is a vault route that resolves
a path or a URL and answers with the file's URL. What is refused changes nothing
and is no action. How edits are committed is in `VaultEdits`, not here.

The policy compares a path freed of blanks and normalised, but the tool hands the
vault the path as the model wrote it, and `edited` keeps it so. What the vault
makes of blanks is not in this repository: the properties say that what a scoped
run writes are spellings of its scope's path, not that the vault opens one file
for all of them. Normalising twice is not always normalising once (`./ a.md`
becomes ` a.md` and then `a.md`), so the properties leave out, each where it
matters, normalised names that begin with blanks; and names whose unquoted URL
ends early have no URL that leads back. The run contains all these cases, and
each property is violated there when its exception is dropped.

### RateLimiter

`Allow` and `Refuse` are the two answers of `allow()` after it has pruned;
`AllowAll` is the limiter switched off. `log` keeps every admission for the
properties. The clock is an integer that advances in unit steps; requests may
come at any instant. The lock is not modelled: the routes call `allow` on the
event loop only.

### DemoWalkthrough

The demo is a program of its own: no queue and no routes, one run at a time, and
the user's vault open in Obsidian. Its actions are the keys (`PressNext`,
`PressBack`, `Quit`), the ends of a run as `apply_next` sees them (`StepSucceeds`,
`StepFails`, `StepRaises`) and the run's own steps, taken from `VaultEdits`.
`Open` starts the program, again too, on the vault as it was left. `done`,
`origin`, `quiet`, `exact` and `owed` are there for the properties: `quiet` means
that since the demo was opened only its steps edited the vault, none left edits
uncommitted and none created a page; `exact` adds that every step counted changed
a file.

## Runs

| Run | Instance | Shows |
|---|---|---|
| `queue` | 4 submissions, history of 2, 2 task objects; about 79,000 states | type, `SingleWriter`, `KeepsTheNewest`, `QueuedExactlyOnce`, `NoLostWakeup`, `ListsNewestFirst`, `StartsInOrder`, `FinishedIsFinal`, the liveness `JobsSettle`, and the refinement `ImplementsLifecycle` |
| `service` | 3 jobs, history of 2, 1 task; about 170,000 states | what callers are told and when (`SyncCallerNeverSeesRunTimeout`, `AnswersAreTrue`, `NotFoundMeansRotatedOut`), what shutdown interrupts, and that callers are answered and shutdown ends |
| `edits` | 2 files, 3 edits, 2 runs, 2 requests per run; about 2.8 million states | `ReportsWhatItEdited`, `CommitsBeforeReporting`, `SettledIsCommitted`, `CheckedPutKeepsAgentEdits`, `UndoRevertsRun` |
| `limiter` | 2 keys, limits 0 and 2, window 2, time 0..7; about 129,000 states | `NeverMoreThanLimit`, `RefusesOnlyAtLimit`, `BucketIsBounded` |
| `demo` | 2 steps, 4 runs, 4 edits, 1 file; about 790,000 states | `UndoTakesBackTheStep`, `IndexCountsCommits` |
| `vault_service` | 3 jobs, history of 2, 1 file, 2 edits, 1 worker task, 2 deaths of the process; about 2.7 million states | `OneRunPerHeldJob`, `JobsCommitOnceInOrder`, `UnrecordedEditsAreNotReported` |
| `requests` | 6 paths in requests and tool calls, 16 paths and 26 URLs to the routes, 3 sites, 5 model names, answers of up to 3 items; about 70,000 states | `ScopedRunKeepsToItsFile`, `PromptFileIsWritable`, `AnsweredUrlLeadsBack`, `AsksAnOfferedModel` |
| `active_jobs`, `finished_terminal`, `timed_out_run`, `failed_run_edits`, `demo_undo` | as above | each finds a behaviour in which the code does other than a document or a test says; see the findings |

The bounds are `MaxJobs` (submissions), `MaxEdits`, `MaxRuns`, `MaxTime` and
`MaxCrashes`, and the sets of inputs of `EditRequests` (`Texts`, `Paths`, `Urls`,
`Sites`, `Answers`); nothing else is cut off. Four submissions against a history of two let jobs
rotate out while queued, running, finished, and while a caller waits, and leave
room for one that is never evicted; three suffice for the service, whose states
are richer. Two tasks allow a second worker and a restart. Three edits are enough
for a run, a route and an outside program to write the same file in any order,
and two runs for one to inherit what another left. Eight instants hold three
windows. The demo needs one file only, because undo restores the whole tree, and
four runs to fail, take back and replay its two steps.

In `vault_service` three jobs against a history of two let one rotate out while
another runs; two edits let a run and a PUT, or two runs, write in any order on
either side of a death, and a second death follows a restart; one file is enough, because commits and undo take the
whole tree, and one task object, because `start()` makes a worker only when
there is none left. A view leaves out the variables that `VaultEdits` keeps for
its own properties, and `seen`: they decide no step here and no property but
their own types, which `edits` checks.
A PUT begins there only while an edit is left. The inputs of
`requests` hold one of every kind the code tells apart: a path as it should be,
with a dot, in a directory, going up, absolute, without extension, with it
twice, with blanks before it or before a later part, with a `#` or a `;` in it,
the names that are nothing but an extension, and URLs with and without a host.

Keys and files are symmetric in `limiter` and `edits`, which have only safety
properties. Deadlock is checked except in the service, which stops for good, and
in `requests`, where the service may fail to start.

### Fairness

`FairSpec` is weak fairness of each worker task: the event loop runs ready tasks,
a cancelled task receives its CancelledError, and `agent.run()` returns, because
its own timer bounds it. `ServiceFairSpec` does not assume that a run returns by
itself: the run's timer expires, and a run whose timer expired returns; handlers
wake or time out; uvicorn ends its shutdown. Timers only expire in order, so
fairness of one follows from the end of the earlier ones. Nobody has to submit,
start, stop or shut down.

`JobsSettle` excuses a job only when it rotates out while it is queued, or when
the queue is stopped, because nothing restarts it; a job that rotates out while
it runs has to end. `ShutdownCompletes` holds although an evicted job may never signal
its caller, because the caller's timer is there to answer.

## Findings

1. `active_jobs`: `SPEC.md` 86 (`.scratch/projects/07-queue-refactor`) says
   `_jobs` holds all active jobs. With `max_history` newer submissions a queued
   or running job is evicted; a queued one then never runs.
2. `finished_terminal`: `SPEC.md` 15 says `finished_at` is set on a terminal
   state. Cancelling a run sets it on a job that stays "running".
3. `timed_out_run`: `tests/test_app.py` 286-307 expects a timed-out run to be
   answered 200 with the agent's error. The handler's timer always wins, so the
   answer is 504.
4. `failed_run_edits`: a `RunResult` is documented to say which files were
   modified. A run that fails or times out after a tool has written a file
   reports none. A run that ends well leaves out one kind of file, the page of a
   template whose commit failed: it is in the vault, and the tool, which got the
   error, does not add it to `changed_files` (`tools.py` 267-275).
5. `demo_undo`: the demo vault's README says Backspace undoes the last step. A
   step that ended well without changing a file has no commit, and undoing it
   takes back an earlier step.

Not counted as findings, because nothing in the repository says otherwise:

- The vault routes edit and commit while a run is in progress. The design
  serializes `Agent.run` and `Agent.undo` and does not name the routes.
  `VaultEdits` shows what still holds.
- The queue is in memory, so a death of the process forgets its jobs and may
  leave edits uncommitted.
- `current_file` is only freed of blanks before it is compared with the
  normalised path of the scope:
  `./a.md` in both is refused, although it names one file.
- `changed_files` keeps paths as the model wrote them, so it may name one file
  under two spellings. The policy, in contrast, looks at the path freed of blanks
  and normalised (`tools.py` 54-58), and the vault gets the one the model wrote
  (79).
- `normalize_vault_path` is not idempotent: `./ a.md` becomes ` a.md`, which
  becomes `a.md`. A scope or a file answered under such a name stands for another
  path when it is normalised again.
- URLs are not quoted: the URL of `a#b.md` or `a?b.md` leads to `a.md`, and on a
  flat site that of `a;b.md` too.
- A URL does not lead back to its page when `site_base_url` has a path, nor for
  files that do not end in `.md` or end in it twice.

## Proofs

| Theorem | States, for every value of the constants |
|---|---|
| `JobQueue_proofs`: `TypeCorrect`, `MutationsAreSerialized`, `DictionariesFollowHistory`, `NoWakeupIsLost`, `NoJobLostOrRepeated`, `StartsAreInOrder`, `FinishedJobsAreFinal`, `ListingIsNewestFirst` | `TypeOK`, `SingleWriter`, `KeepsTheNewest`, `NoLostWakeup`, `QueuedExactlyOnce`, `StartsInOrder`, `FinishedIsFinal`, `ListsNewestFirst` |
| `JobQueue_proofs`: `QueueImplementsLifecycle` | `ImplementsLifecycle` |
| `AgentService_proofs`: `ServiceUsesTheQueue` | every behaviour of the service is one of the queue |
| `AgentService_proofs`: the others | `ServiceTypeOK` and the four safety properties of run `service` |
| `RateLimiter_proofs` | `TypeOK`, `NeverMoreThanLimit`, `BucketIsBounded`, `RefusesOnlyAtLimit` |
| `VaultEdits_proofs` | the type invariant and the five properties of run `edits` |
| `VaultService_proofs`: `TypeCorrect`, `OneRunAtATime`, `JobsCommitOnce`, `UnrecordedIsUnreported` | `TypeOK`, `OneRunPerHeldJob`, `JobsCommitOnceInOrder`, `UnrecordedEditsAreNotReported` |
| `VaultService_proofs`: `VaultInvariantSurvives`, `ReportsAndCommitsSurvive`, `SuccessIsCommitted`, `UndoRestoresTheTree` | what `VaultEdits` says of reports, commits and undo, in a service that is stopped and that dies |
| `EditRequests_proofs`: `RequestsTypes`, `ScopeIsKept`, `CurrentFileIsWritable`, `UrlLeadsBack`, `ModelIsOffered` | the type invariant and the four properties of run `requests` |
| `DemoWalkthrough_proofs` | `DemoTypeOK`, `UndoTakesBackTheStep`, `IndexCountsCommits` |

The assumptions are those the modules name: `QueueAssumption` (`max_history` is
positive, no task is `NoTask`), `LimiterAssumption`, `VaultAssumption`
(`max_iterations` is positive, bounds are numbers), `ServiceAssumption` (both of
the modules it composes), `DemoAssumption`, `StemsAssumption`,
`NamesAssumption` and `RequestsAssumption` (the inputs of `EditRequests` are texts, URLs, sites and
answers of the right shape, in any number and of any length). The proofs hold for
any number of jobs, tasks, keys, files, edits, runs, steps and deaths of the
process, not those of the runs.

**The queue.** `QueueInv` adds to the properties what makes them inductive: the
pending ids are a suffix of the submission numbers (`PendingIsSuffix`), so the
queue is one interval and its head is the oldest unstarted job; the history is
a suffix too; a job's status and its place follow from its number
(`StatusByNumber`, `FinishedByStatus`); and a worker holds a job exactly when
the job is executing (`WorkerHoldsJob`). `QueuedExactlyOnce` is then a
consequence: in an interval every number occurs once. The action properties and
the refinement use `QueueInv` and one lemma per action; `Begin` and `RunAtOnce` of
the lifecycle need `SingleWriter` (nothing else runs) and `PendingIsSuffix`
(the head is the oldest).

**The service.** Its steps are queue steps or stutter, so `QueueInv` comes
for free. `ServiceInv` adds that timers are ordered (`TimersOrdered`: while a run's timer
is on, the handler of its job was armed before it), which gives
`TimeoutIsAnswered`: a caller whose run was cancelled by its timer was answered
504 before; that a finished job's result fits its status
(`ResultsFit`), that an answer fits the job (`CallersFit`), and that nobody
waits once the worker has been cancelled (`StopsUnwatched`).

**The limiter.** `LimiterInv` adds `DroppedExpired`: every admission
that is no longer in the bucket is older than the window. With the bound on the
bucket, two admissions `max_events` apart cannot both be in the window.

**The vault.** `VaultInv` adds to the properties `UncommittedIsKnown`: without a
reason on record, a file that differs from the last commit was edited by the run
in progress or by the PUT about to commit; `ChangedIsTouched`: what a run will
report is what its tools wrote, but for the pages in `unsaved`; `CheckedIsCurrent`: between the comparison and
the write of a checked PUT no tool has edited the file, which needs
`AgentEditsAreOld` (the number of a new edit is nobody's yet); and
`AloneIsUndone`, which keeps track of where the tree from before a run that was
alone is: the last commit while it runs, the one below when it has committed.

**The queue and the vault.** `QueueInv` does not survive a death of the process:
pending ids are then no longer a suffix of the submissions. The invariant here
is smaller. `WorkerFits` says that only the task `stop()` would cancel holds a
job; with it `OneRunPerHeldJob` is inductive. `JobsInOrder` orders the job that
is held after every commit of a run, and the pending ones after that and after
every edit. So a job that is taken has committed and edited nothing yet, and
`ResultsFit`, that it has no result and no edit while it has changed no file,
gives the last property. Each action is first reduced to one of five effects on
the vault (`Calm`, `Wrote`, `Created`, `Records`, `TakesBack`), and each part of
the invariant is then shown to survive the effects. `VaultInv`, in contrast, does
survive a death, because it speaks of the disk. `VaultSteps` shows that each step
of the service is a step of `VaultEdits`, a run cancelled wherever it waits
(`Cancelled`), a death (`Dies`), or leaves the vault alone; the proofs of
`VaultEdits` cover the first, and two lemmas the next two. With `VaultInv`,
`TypeOK` needs little more: `EditsFit`, that no file and no commit holds the
number of an edit yet to come, and what the queue's dictionaries hold.
`CheckedPutKeepsAgentEdits` is not restated there, because the PUTs of
`VaultService` carry no hash.

**Selections.** `ItemsAt` keeps items by their rank: the n-th is the one with n
kept positions up to its own. Ranks grow from one kept position to the next
(`RanksGrow`), so each rank has exactly one (`NthIsKept`); from this follow which
items are kept, and their order. `ListingIsNewestFirst` is this order, read over
the reversed history, which is a suffix of the submissions (`NewestOfHistory`).

**Requests.** A file name in normal form has no empty part and no `.`
(`NormalizedIsFileName`), and normalising it again changes nothing unless it
begins with blanks (`FileNameIsNormal`), so two spellings of a path are compared
by what they name. `RequestsInv` keeps,
with the types (`DataFits`, `ModelFits`, `RunFits`, `LinkFits`), that a run has
done nothing before it begins (`Idle`), and `ScopedRunKeepsToItsFile`, which is
then inductive: a tool edits only a path whose normal form is that of the scope,
whatever blanks and dots it has (`AllowedPathIsTheFile`).
`UrlLeadsBack` rests on `ExtensionComesBack`, that taking `.md` off a page's name
and putting it on again gives the name, on `UnmarkedStaysWhole`, that `urlparse` cuts nothing
off a name without marks, and on `PageUrlResolves`, that stripping
slashes and normalising leave such a name as it is. `ModelIsOffered` holds already
by the choice: `ResolvedModelFits` reads it off `ItemsAt`.

**The demo.** `StepsStack` says that in an exact session the commits since the
demo began are those of the steps counted, and that just below the commit of a
step is the tree it began on; while a run lasts, the tree is still that one until
a tool edits.

Every invariant and every action property the runs check is proved, and the
refinement. Only model-checked:

- the liveness properties `JobsSettle`, `EveryCallerIsAnswered` and
  `ShutdownCompletes`, because the prover does not handle fairness (ENABLED).

## Not modelled

- The sync tools and routes: they forward to obsidian-ops, and what a sync does
  to the vault is not in this repository. Only the outcome of the sync after a
  commit is modelled, and which runs may call a sync tool.
- Characters in paths beyond dots, blanks before a part and the marks that end
  the path of a URL: backslashes, blanks after a part, blanks around a URL. Paths
  are sequences of parts.
- What a scope says beyond its file (heading, block id, lines): it goes into the
  prompt only. `allowed_write_scope` is passed along and never read.
- Prompt text, response classes, logging, the health route, argument parsing and
  the terminal handling of the demo: no behaviour of their own. The bounds that
  `config.py` sets on its fields are the assumptions of the modules.
- A death of the process inside a call of obsidian-ops, between its own writes:
  that is a property of the library.
- Memory held by the pending ids and by the limiter's buckets: a model with
  bounded submissions and keys cannot show growth.

## Plan

The parts were modelled in this order: the queue and what it promises, the
service on top of it, the vault, the limiter, the demo, the requests, and the
queue and the vault together; each was proved after TLC had agreed. What could
still be added: liveness proofs, once the prover handles fairness; and the
sync routes, once what a sync does to a vault can be taken from a source.
