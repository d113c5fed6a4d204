------------------------------ MODULE JobQueue ------------------------------
(***************************************************************************)
(* The in-memory job queue of queue.py: a FIFO of job ids, one worker task *)
(* that drains it, and a history that rotates old jobs out.  asyncio runs  *)
(* one task at a time and switches only where a task awaits, so an action  *)
(* is a stretch of code between two awaits.  The worker awaits in two      *)
(* places: `await self._pending.get()` and `await self._execute(job)`.     *)
(*                                                                         *)
(* A job's uuid4 is modelled by its submission number; the Job object and  *)
(* the asyncio.Event of a job outlive their entries in `_jobs` and         *)
(* `_done_events`, because the worker and the waiting handlers hold        *)
(* references to them.                                                     *)
(***************************************************************************)
EXTENDS Naturals, Sequences, FiniteSets, Selection

CONSTANTS MaxHistory,  \* JobQueue(max_history=...), 200 in the application
          MaxJobs,     \* bound of the model: submissions made to one queue
          Tasks,       \* asyncio.Task objects that start() can create
          NoTask       \* _worker_task is None

(* max_history = 0 would evict a job inside its own submit(); the          *)
(* application never passes one (app.py uses the default).                 *)
ASSUME QueueAssumption ==
    /\ MaxHistory \in Nat \ {0}
    /\ MaxJobs \in Nat
    /\ NoTask \notin Tasks

VARIABLES
    submitted,   \* number of jobs submitted; job ids are 1..submitted
    job,         \* the Job objects
    registry,    \* keys of _jobs
    doneEvents,  \* keys of _done_events
    signalled,   \* jobs whose Event is set
    history,     \* _history, oldest first
    pending,     \* _pending, next to run first
    at,          \* where each worker task is suspended
    holds,       \* the job a worker task is executing, 0 for none
    workerTask   \* _worker_task

queueVars == <<submitted, job, registry, doneEvents, signalled, history,
               pending, at, holds, workerTask>>

JobIds     == 1..MaxJobs
Operations == {"apply", "undo"}
Statuses   == {"absent", "queued", "running", "succeeded", "failed"}
Terminal   == {"succeeded", "failed"}

(* What agent.run() gives back: a result with ok, a result without, the    *)
(* result it returns when its own timer expires, or an exception           *)
(* (VaultBusyError and anything _run_impl does not catch).  "none" is a    *)
(* job whose result was never assigned.                                    *)
Outcomes == {"ok", "notOk", "timeout", "raised"}
Results  == {"none", "ok", "notOk", "timeout"}

Job == [op: Operations, status: Statuses, finished: BOOLEAN, result: Results]

Absent == [op |-> "apply", status |-> "absent", finished |-> FALSE, result |-> "none"]

(* "dead": not started or done.  "get": awaiting _pending.get().           *)
(* "agent": awaiting agent.run().  "cancelled": cancel() was called and    *)
(* the CancelledError has not been delivered yet.                          *)
TaskStates == {"dead", "get", "agent", "cancelled"}

TypeOK ==
    /\ submitted \in 0..MaxJobs
    /\ job \in [JobIds -> Job]
    /\ registry \subseteq JobIds
    /\ doneEvents \subseteq JobIds
    /\ signalled \subseteq JobIds
    /\ history \in Seq(JobIds)
    /\ pending \in Seq(JobIds)
    /\ at \in [Tasks -> TaskStates]
    /\ holds \in [Tasks -> JobIds \cup {0}]
    /\ workerTask \in Tasks \cup {NoTask}

Init ==
    /\ submitted = 0
    /\ job = [j \in JobIds |-> Absent]
    /\ registry = {}
    /\ doneEvents = {}
    /\ signalled = {}
    /\ history = << >>
    /\ pending = << >>
    /\ at = [t \in Tasks |-> "dead"]
    /\ holds = [t \in Tasks |-> 0]
    /\ workerTask = NoTask

-----------------------------------------------------------------------------
(* Submission: a handler's synchronous call, no await inside.              *)

\* Mutants of AppendHistory and Submit.
KeepsEvictedEvent(j) ==
    LET appended == Append(history, j)
        evicted  == IF Len(appended) <= MaxHistory THEN {} ELSE {Head(appended)}
    IN  /\ history' = IF evicted = {} THEN appended ELSE Tail(appended)
        /\ registry' = (registry \cup {j}) \ evicted
        /\ doneEvents' = doneEvents \cup {j}

RotatesOneTooSoon(j) ==
    LET appended == Append(history, j)
        evicted  == IF Len(appended) < MaxHistory THEN {} ELSE {Head(appended)}
    IN  /\ history' = IF evicted = {} THEN appended ELSE Tail(appended)
        /\ registry' = (registry \cup {j}) \ evicted
        /\ doneEvents' = (doneEvents \cup {j}) \ evicted

AppendHistory(j) ==
    LET appended == Append(history, j)
        evicted  == IF Len(appended) <= MaxHistory THEN {} ELSE {Head(appended)}
    IN  /\ history' = IF evicted = {} THEN appended ELSE Tail(appended)
        /\ registry' = (registry \cup {j}) \ evicted
        /\ doneEvents' = (doneEvents \cup {j}) \ evicted

NewJob(op) == [op |-> op, status |-> "queued", finished |-> FALSE, result |-> "none"]

SubmitInFront(op) ==
    /\ submitted < MaxJobs
    /\ submitted' = submitted + 1
    /\ job' = [job EXCEPT ![submitted + 1] = NewJob(op)]
    /\ AppendHistory(submitted + 1)
    /\ pending' = <<submitted + 1>> \o pending
    /\ UNCHANGED <<signalled, at, holds, workerTask>>

Submit(op) ==
    /\ submitted < MaxJobs
    /\ submitted' = submitted + 1
    /\ job' = [job EXCEPT ![submitted + 1] = NewJob(op)]
    /\ AppendHistory(submitted + 1)
    /\ pending' = Append(pending, submitted + 1)
    /\ UNCHANGED <<signalled, at, holds, workerTask>>

-----------------------------------------------------------------------------
(* start() and stop().  Their caller (the lifespan of app.py, the tests)   *)
(* awaits each call before the next one, so nothing calls start() while    *)
(* stop() is waiting for the task to unwind.                               *)

WorkerDone == \A t \in Tasks : workerTask = t => at[t] = "dead"

\* A mutant of Start.
StartAnyway(t) ==
    /\ at[t] = "dead"
    /\ workerTask' = t
    /\ at' = [at EXCEPT ![t] = "get"]
    /\ UNCHANGED <<submitted, job, registry, doneEvents, signalled, history, pending, holds>>

Start(t) ==
    /\ WorkerDone
    /\ at[t] = "dead"
    /\ workerTask' = t
    /\ at' = [at EXCEPT ![t] = "get"]
    /\ UNCHANGED <<submitted, job, registry, doneEvents, signalled, history, pending, holds>>

(* stop() up to its await: task.cancel().                                  *)
Stop ==
    /\ workerTask # NoTask
    /\ at[workerTask] \in {"get", "agent"}
    /\ at' = [at EXCEPT ![workerTask] = "cancelled"]
    /\ UNCHANGED <<submitted, job, registry, doneEvents, signalled, history, pending,
                   holds, workerTask>>

-----------------------------------------------------------------------------
(* The worker task.                                                        *)

(* The job's `finally` block, which every way out of the try runs.         *)
SetDoneEvent(j) == signalled' = signalled \cup ({j} \cap doneEvents)

\* A mutant of Completed.
StoresException(j, outcome) ==
    [job[j] EXCEPT
        !.status   = IF outcome = "ok" THEN "succeeded" ELSE "failed",
        !.result   = outcome,
        !.finished = TRUE]

(* The assignments of the try and of `except Exception`: an exception      *)
(* leaves result unset.                                                    *)
Completed(j, outcome) ==
    [job[j] EXCEPT
        !.status   = IF outcome = "ok" THEN "succeeded" ELSE "failed",
        !.result   = IF outcome = "raised" THEN "none" ELSE outcome,
        !.finished = TRUE]

(* pending.get() gives an id whose job has rotated out: `continue`.        *)
SkipEvicted(t) ==
    /\ at[t] = "get"
    /\ pending # << >>
    /\ Head(pending) \notin registry
    /\ pending' = Tail(pending)
    /\ UNCHANGED <<submitted, job, registry, doneEvents, signalled, history, at, holds,
                   workerTask>>

\* A mutant of BeginApply.
LeavesIdPending(t) ==
    /\ at[t] = "get"
    /\ pending # << >>
    /\ LET j == Head(pending)
       IN  /\ j \in registry
           /\ job[j].op = "apply"
           /\ job' = [job EXCEPT ![j].status = "running"]
           /\ at' = [at EXCEPT ![t] = "agent"]
           /\ holds' = [holds EXCEPT ![t] = j]
    /\ UNCHANGED <<submitted, registry, doneEvents, signalled, history, pending, workerTask>>

(* pending.get() gives the id of an apply job: it is marked running and    *)
(* the worker suspends in agent.run().                                     *)
BeginApply(t) ==
    /\ at[t] = "get"
    /\ pending # << >>
    /\ LET j == Head(pending)
       IN  /\ j \in registry
           /\ job[j].op = "apply"
           /\ job' = [job EXCEPT ![j].status = "running"]
           /\ at' = [at EXCEPT ![t] = "agent"]
           /\ holds' = [holds EXCEPT ![t] = j]
    /\ pending' = Tail(pending)
    /\ UNCHANGED <<submitted, registry, doneEvents, signalled, history, workerTask>>

(* agent.undo() catches every exception and awaits nothing, so an undo job *)
(* runs from start to finish in one step of the event loop.                *)
RunUndo(t, outcome) ==
    /\ at[t] = "get"
    /\ pending # << >>
    /\ LET j == Head(pending)
       IN  /\ j \in registry
           /\ job[j].op = "undo"
           /\ job' = [job EXCEPT ![j] = Completed(j, outcome)]
           /\ SetDoneEvent(j)
    /\ pending' = Tail(pending)
    /\ UNCHANGED <<submitted, registry, doneEvents, history, at, holds, workerTask>>

\* Mutants of AgentReturns.
SignalsOnlySuccess(t, outcome) ==
    /\ at[t] = "agent"
    /\ job' = [job EXCEPT ![holds[t]] = Completed(holds[t], outcome)]
    /\ IF outcome = "raised" THEN UNCHANGED signalled ELSE SetDoneEvent(holds[t])
    /\ at' = [at EXCEPT ![t] = "get"]
    /\ holds' = [holds EXCEPT ![t] = 0]
    /\ UNCHANGED <<submitted, registry, doneEvents, history, pending, workerTask>>

LooksUpTheJobAgain(t, outcome) ==
    /\ at[t] = "agent"
    /\ job' = IF holds[t] \notin registry THEN job
              ELSE [job EXCEPT ![holds[t]] = Completed(holds[t], outcome)]
    /\ SetDoneEvent(holds[t])
    /\ at' = [at EXCEPT ![t] = "get"]
    /\ holds' = [holds EXCEPT ![t] = 0]
    /\ UNCHANGED <<submitted, registry, doneEvents, history, pending, workerTask>>

(* agent.run() returns or raises; the worker goes back to pending.get().   *)
AgentReturns(t, outcome) ==
    /\ at[t] = "agent"
    /\ job' = [job EXCEPT ![holds[t]] = Completed(holds[t], outcome)]
    /\ SetDoneEvent(holds[t])
    /\ at' = [at EXCEPT ![t] = "get"]
    /\ holds' = [holds EXCEPT ![t] = 0]
    /\ UNCHANGED <<submitted, registry, doneEvents, history, pending, workerTask>>

(* The CancelledError reaches the worker.  `except Exception` does not     *)
(* catch it but `finally` runs, so a job that was executing keeps the      *)
(* status "running" while finished_at and its event are set.  The task     *)
(* ends, and stop() clears _worker_task.                                   *)
Unwind(t) ==
    /\ at[t] = "cancelled"
    /\ IF holds[t] = 0
       THEN UNCHANGED <<job, signalled>>
       ELSE /\ job' = [job EXCEPT ![holds[t]].finished = TRUE]
            /\ SetDoneEvent(holds[t])
    /\ at' = [at EXCEPT ![t] = "dead"]
    /\ holds' = [holds EXCEPT ![t] = 0]
    /\ workerTask' = NoTask
    /\ UNCHANGED <<submitted, registry, doneEvents, history, pending>>

-----------------------------------------------------------------------------
(* list_recent(limit): the newest jobs first.                              *)
Smaller(a, b) == IF a < b THEN a ELSE b
Larger(a, b)  == IF a > b THEN a ELSE b

\* A mutant of ListRecent.
OldestFirst(limit) ==
    LET capped == Larger(1, Smaller(limit, MaxHistory))
        first  == Larger(1, Len(history) - capped + 1)
    IN  SubSeq(history, first, Len(history))

ListRecent(limit) ==
    LET capped == Larger(1, Smaller(limit, MaxHistory))
        first  == Larger(1, Len(history) - capped + 1)
        ids    == SubSeq(history, first, Len(history))
        newest == [i \in 1..Len(ids) |-> ids[Len(ids) + 1 - i]]
    IN  ItemsAt(newest, {i \in DOMAIN newest : newest[i] \in registry})

-----------------------------------------------------------------------------
Worker(t) ==
    \/ SkipEvicted(t)
    \/ BeginApply(t)
    \/ \E outcome \in {"ok", "notOk"} : RunUndo(t, outcome)
    \/ \E outcome \in Outcomes : AgentReturns(t, outcome)
    \/ Unwind(t)

Next ==
    \/ \E op \in Operations : Submit(op)
    \/ \E t \in Tasks : Start(t)
    \/ Stop
    \/ \E t \in Tasks : Worker(t)

Spec == Init /\ [][Next]_queueVars

(* The event loop runs every task that is ready, the agent's own timer     *)
(* bounds agent.run(), and a cancelled task receives its CancelledError.   *)
FairSpec == Spec /\ \A t \in Tasks : WF_queueVars(Worker(t))

-----------------------------------------------------------------------------
(* Properties.                                                             *)

Live(t)      == at[t] # "dead"
Executing(j) == job[j].status = "running" /\ ~job[j].finished

(* Whatever the order of start(), stop() and cancellation, at most one     *)
(* worker task is alive, it is the one stop() would cancel, and a job that *)
(* is executing is executed by it: mutations are serialized (queue.py      *)
(* 56-69, 90-116).                                                         *)
SingleWriter ==
    /\ \A t \in Tasks : Live(t) => workerTask = t
    /\ \A j \in JobIds : Executing(j) => \E t \in Tasks : Live(t) /\ holds[t] = j

(* _jobs and _done_events keep the same jobs, and these are exactly the    *)
(* newest max_history submissions: no entry leaks and none is dropped      *)
(* early, however submissions interleave with the worker (queue.py 71-77). *)
KeepsTheNewest ==
    /\ registry = {j \in 1..submitted : j + MaxHistory > submitted}
    /\ doneEvents = registry

(* A registered job that waits is in the queue exactly once, and a         *)
(* registered job that has been taken is not in it: no job is lost and     *)
(* none runs twice (queue.py 30-43, 92-95).                                *)
QueuedExactlyOnce ==
    \A j \in registry :
        Cardinality({i \in DOMAIN pending : pending[i] = j})
            = IF job[j].status = "queued" THEN 1 ELSE 0

(* An event that a handler can still look up is set as soon as its job is  *)
(* over, on every way out of the worker, cancellation included, and no     *)
(* event is set before (queue.py 110-115).                                 *)
NoLostWakeup ==
    /\ \A j \in doneEvents : job[j].finished => j \in signalled
    /\ \A j \in signalled : job[j].finished

(* list_recent(limit) shows the newest submissions, newest first, as many  *)
(* as asked for within [1, max_history] and within what was submitted      *)
(* (queue.py 51-54).                                                       *)
ListsNewestFirst ==
    \A limit \in 0..MaxHistory + 1 :
        LET shown == Smaller(submitted, Larger(1, Smaller(limit, MaxHistory)))
        IN  ListRecent(limit) = [i \in 1..shown |-> submitted + 1 - i]

(* A job starts only when every job submitted before it has started or has *)
(* rotated out of the history: jobs start in submission order.             *)
StartsInOrder ==
    [][\A j, k \in JobIds :
          /\ k < j
          /\ job[j].status = "queued"
          /\ job'[j].status # "queued"
          => job[k].status # "queued" \/ k \notin registry]_queueVars

(* A job that has finished never changes again: nothing re-runs it and     *)
(* stop() does not touch it.                                               *)
FinishedIsFinal ==
    [][\A j \in JobIds : job[j].finished => job'[j] = job[j]]_queueVars

(* Every submitted job finishes, unless it rotates out of the history      *)
(* before it starts or the queue is stopped: a failing job never wedges    *)
(* the worker, and a job that rotates out while it runs still ends.        *)
JobsSettle ==
    \A j \in JobIds :
        job[j].status \in {"queued", "running"} ~>
            \/ job[j].finished
            \/ job[j].status = "queued" /\ j \notin registry
            \/ workerTask = NoTask

(* The queue implements JobLifecycle.                                      *)
Phase(j) ==
    CASE job[j].status = "running" /\ job[j].finished    -> "interrupted"
      [] job[j].status = "queued"  /\ j \notin registry  -> "dropped"
      [] OTHER                                           -> job[j].status

phaseBar == [j \in JobIds |-> Phase(j)]

Lifecycle == INSTANCE JobLifecycle
                WITH Retention <- MaxHistory, Jobs <- MaxJobs,
                     accepted <- submitted, phase <- phaseBar

(* Every behaviour of the queue is one of JobLifecycle: first in first     *)
(* out, one at a time, every job ends at most once, and only a job with    *)
(* max_history newer submissions is dropped.                               *)
ImplementsLifecycle == Lifecycle!Spec

(* What the design document says of the data structures, and the code does *)
(* not do.                                                                 *)

(* SPEC.md 86: `_jobs` holds all active jobs.  A queued or running job     *)
(* rotates out like any other (queue.py 75-77).                            *)
ActiveJobsRegistered ==
    \A j \in 1..submitted : ~job[j].finished => j \in registry

(* SPEC.md 15: finished_at is set on a terminal state.  A cancelled run    *)
(* sets it on a running one (queue.py 110-111).                            *)
FinishedMeansTerminal ==
    \A j \in JobIds : job[j].finished => job[j].status \in Terminal

=============================================================================
