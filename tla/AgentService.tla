---------------------------- MODULE AgentService ----------------------------
(***************************************************************************)
(* The HTTP service around the queue: the lifespan of app.py, the          *)
(* synchronous handlers of agent_routes.py that submit a job and wait for  *)
(* it, the asynchronous submission of job_routes.py, and the two timers of *)
(* length config.operation_timeout that race each other: the handler's,    *)
(* armed when the job is submitted, and agent.run()'s, armed when the job  *)
(* starts.                                                                 *)
(*                                                                         *)
(* All timers have the same length and the event loop fires them in the    *)
(* order of their deadlines, so they expire in the order in which they     *)
(* were armed.  Handler timers are ordered by job number; the run's timer  *)
(* comes after the handler timer of every job submitted when it was armed  *)
(* and before those of later jobs.                                         *)
(***************************************************************************)
EXTENDS JobQueue

VARIABLES
    server,    \* phase of the lifespan
    caller,    \* the synchronous handler of each job
    runTimer,  \* the wait_for timer of agent.run()
    runArmed,  \* submitted, when the run timer was armed
    timedOut   \* for the properties only: jobs whose run was cancelled by its timer

serviceVars == <<server, caller, runTimer, runArmed, timedOut>>

vars == <<queueVars, serviceVars>>

(* "none": no synchronous handler (POST /v1/jobs), or no job yet.          *)
(* "waiting": suspended in wait_for(done_event.wait()).  The others are    *)
(* answers: the job's result, "jobFailed" for a job without a result, and  *)
(* HTTP errors.                                                            *)
Answers == (Results \ {"none"}) \cup {"jobFailed", "404", "500", "504"}

ServiceTypeOK ==
    /\ TypeOK
    /\ server \in {"starting", "serving", "draining", "stopped"}
    /\ caller \in [JobIds -> {"none", "waiting"} \cup Answers]
    /\ runTimer \in {"off", "armed", "expired"}
    /\ runArmed \in 0..MaxJobs
    /\ timedOut \subseteq JobIds

ServiceInit ==
    /\ Init
    /\ server = "starting"
    /\ caller = [j \in JobIds |-> "none"]
    /\ runTimer = "off"
    /\ runArmed = 0
    /\ timedOut = {}

Waiting == {j \in JobIds : caller[j] = "waiting"}

-----------------------------------------------------------------------------
(* The lifespan.  Requests are served between start() and the shutdown.    *)

Boot(t) ==
    /\ server = "starting"
    /\ Start(t)
    /\ server' = "serving"
    /\ UNCHANGED <<caller, runTimer, runArmed, timedOut>>

(* The HTTP server stops accepting requests.                               *)
Drain ==
    /\ server = "serving"
    /\ server' = "draining"
    /\ UNCHANGED <<queueVars, caller, runTimer, runArmed, timedOut>>

\* A mutant of Shutdown.
StopsWithoutDraining ==
    /\ server \in {"serving", "draining"}
    /\ Stop
    /\ server' = "stopped"
    /\ UNCHANGED <<caller, runTimer, runArmed, timedOut>>

(* The HTTP server sends the lifespan its shutdown event once every open   *)
(* request is answered; the lifespan then stops the queue.                 *)
Shutdown ==
    /\ server = "draining"
    /\ Waiting = {}
    /\ Stop
    /\ server' = "stopped"
    /\ UNCHANGED <<caller, runTimer, runArmed, timedOut>>

-----------------------------------------------------------------------------
(* Requests.                                                               *)

(* handle_apply and handle_undo, up to their await.  A request that is     *)
(* refused before submit (blank instruction, unknown interface) changes    *)
(* nothing.                                                                *)
Handle(op) ==
    /\ server = "serving"
    /\ Submit(op)
    /\ caller' = [caller EXCEPT ![submitted + 1] =
                      IF submitted + 1 \in doneEvents' THEN "waiting" ELSE "500"]
    /\ UNCHANGED <<server, runTimer, runArmed, timedOut>>

(* submit_job answers 202 at once.                                         *)
SubmitJob(op) ==
    /\ server = "serving"
    /\ Submit(op)
    /\ UNCHANGED serviceVars

\* Mutants of Answer.
AnswersFromStatus(j) ==
    IF j \notin registry THEN "404"
    ELSE IF job[j].status = "succeeded" THEN "ok"
    ELSE "notOk"

AnswersStatus(j) ==
    IF j \notin registry THEN "404"
    ELSE IF job[j].result # "none" THEN job[j].status
    ELSE "jobFailed"

(* What a handler answers when its event is set.                           *)
Answer(j) ==
    IF j \notin registry THEN "404"
    ELSE IF job[j].result # "none" THEN job[j].result
    ELSE "jobFailed"

CallerWakes(j) ==
    /\ caller[j] = "waiting"
    /\ j \in signalled
    /\ caller' = [caller EXCEPT ![j] = Answer(j)]
    /\ UNCHANGED <<queueVars, server, runTimer, runArmed, timedOut>>

\* A mutant of CallerTimerExpires.
WaitsWithoutTimeout(j) ==
    /\ caller[j] = "waiting"
    /\ UNCHANGED vars

(* The handler's timer expires: no timer armed before it is still running. *)
CallerTimerExpires(j) ==
    /\ caller[j] = "waiting"
    /\ \A k \in Waiting : k >= j
    /\ runTimer = "armed" => runArmed >= j
    /\ caller' = [caller EXCEPT ![j] = "504"]
    /\ UNCHANGED <<queueVars, server, runTimer, runArmed, timedOut>>

-----------------------------------------------------------------------------
(* The worker, with the timer of agent.run().                              *)

\* A mutant of BeginRun.
ArmsAtSubmission(t) ==
    /\ BeginApply(t)
    /\ runTimer' = "armed"
    /\ runArmed' = Head(pending) - 1
    /\ UNCHANGED <<server, caller, timedOut>>

BeginRun(t) ==
    /\ BeginApply(t)
    /\ runTimer' = "armed"
    /\ runArmed' = submitted
    /\ UNCHANGED <<server, caller, timedOut>>

(* The run's timer expires, and wait_for cancels _run_impl.                *)
RunTimerExpires ==
    /\ runTimer = "armed"
    /\ \A k \in Waiting : k > runArmed
    /\ runTimer' = "expired"
    /\ UNCHANGED <<queueVars, server, caller, runArmed, timedOut>>

(* The run returns its result or raises.  A run whose timer has expired    *)
(* cannot end well any more; a run whose timer is still armed ends with    *)
(* the timeout result too when a TimeoutError is raised inside it, by a    *)
(* tool for instance, because wait_for raises the same class.              *)
RunReturns(t, outcome) ==
    /\ outcome = "ok" => runTimer = "armed"
    /\ AgentReturns(t, outcome)
    /\ timedOut' = IF outcome = "timeout" /\ runTimer = "expired"
                   THEN timedOut \cup {holds[t]} ELSE timedOut
    /\ runTimer' = "off"
    /\ UNCHANGED <<server, caller, runArmed>>

Interrupt(t) ==
    /\ Unwind(t)
    /\ runTimer' = "off"
    /\ UNCHANGED <<server, caller, runArmed, timedOut>>

OtherWork(t) ==
    /\ SkipEvicted(t) \/ \E outcome \in {"ok", "notOk"} : RunUndo(t, outcome)
    /\ UNCHANGED serviceVars

ServiceWorker(t) ==
    \/ BeginRun(t)
    \/ \E outcome \in Outcomes : RunReturns(t, outcome)
    \/ Interrupt(t)
    \/ OtherWork(t)

ServiceNext ==
    \/ \E t \in Tasks : Boot(t) \/ ServiceWorker(t)
    \/ Drain
    \/ Shutdown
    \/ \E op \in Operations : Handle(op) \/ SubmitJob(op)
    \/ \E j \in JobIds : CallerWakes(j) \/ CallerTimerExpires(j)
    \/ RunTimerExpires

ServiceSpec == ServiceInit /\ [][ServiceNext]_vars

(* Timers expire, woken tasks run, a run whose timer expired returns, and  *)
(* the HTTP server ends its shutdown.  A run is not assumed to return      *)
(* before its timer expires.                                               *)
ServiceFairSpec ==
    /\ ServiceSpec
    /\ \A t \in Tasks : WF_vars(BeginRun(t) \/ Interrupt(t) \/ OtherWork(t))
    /\ \A t \in Tasks : WF_vars(runTimer = "expired" /\ \E o \in Outcomes : RunReturns(t, o))
    /\ WF_vars(RunTimerExpires)
    /\ \A j \in JobIds : WF_vars(CallerTimerExpires(j) \/ CallerWakes(j))
    /\ WF_vars(Shutdown)

-----------------------------------------------------------------------------
(* Properties.                                                             *)

(* The handler's timer always expires before the timer of the run it waits *)
(* for, so no synchronous caller is ever answered with the result of a run *)
(* that exceeded operation_timeout: its answer is 504 (agent_routes.py     *)
(* 64-69, agent.py 174-206).                                               *)
SyncCallerNeverSeesRunTimeout == \A j \in timedOut : caller[j] # "timeout"

(* An answer is about the caller's own job, at its end: a result is the    *)
(* result the job finished with, and "job failed" is a run that raised,    *)
(* never one that shutdown interrupted (agent_routes.py 71-76).            *)
AnswersAreTrue ==
    \A j \in JobIds :
        /\ caller[j] \in Results \ {"none"} => job[j].finished /\ job[j].result = caller[j]
        /\ caller[j] = "jobFailed" => job[j].status = "failed" /\ job[j].result = "none"

(* A caller is told "job not found" only about a job that is over and has  *)
(* rotated out of the history since; get_done_event never fails            *)
(* (agent_routes.py 61-63, 71-73).                                         *)
NotFoundMeansRotatedOut ==
    \A j \in JobIds :
        /\ caller[j] = "404" => job[j].finished /\ j + MaxHistory <= submitted
        /\ caller[j] # "500"

(* Shutdown interrupts only runs nobody waits for: asynchronous jobs, and  *)
(* jobs whose caller was already answered 504 (app.py 20-48).              *)
InterruptsOnlyUnwatched ==
    \A j \in JobIds :
        job[j].status = "running" /\ job[j].finished => caller[j] \in {"none", "504"}

(* Every synchronous request is answered, evicted jobs included.           *)
EveryCallerIsAnswered ==
    \A j \in JobIds : caller[j] = "waiting" ~> caller[j] # "waiting"

(* Shutdown ends: no run and no handler holds it up for ever.              *)
ShutdownCompletes == server = "draining" ~> (workerTask = NoTask /\ server = "stopped")

(* tests/test_app.py 286-307 expects a timed-out run to be answered with   *)
(* the agent's own timeout result and status 200.                          *)
TimedOutRunIsReported ==
    \A j \in timedOut : caller[j] \in {"none", "waiting", "timeout"}

=============================================================================
