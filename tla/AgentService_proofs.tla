------------------------ MODULE AgentService_proofs ------------------------
(***************************************************************************)
(* The service's safety properties, proved for every history length,       *)
(* every number of requests and every set of task objects.  The service    *)
(* only restricts when the queue's operations happen and records what its  *)
(* callers were told, so every behaviour of the service is a behaviour of  *)
(* JobQueue and inherits its invariant; on top of it stand the order of    *)
(* the timers and what the handlers have answered.                         *)
(***************************************************************************)
EXTENDS AgentService, JobQueue_proofs

-----------------------------------------------------------------------------
(* The inductive invariant.                                                *)

ResultsFit ==
    \A j \in JobIds :
        /\ ~job[j].finished => job[j].result = "none"
        /\ job[j].status = "succeeded" => job[j].result = "ok"

(* What the caller of job j has been told.                                 *)
CallerFits(j) ==
    /\ caller[j] # "none" => j <= submitted
    /\ caller[j] \in Results \ {"none"} => job[j].finished /\ job[j].result = caller[j]
    /\ caller[j] = "jobFailed" => job[j].status = "failed" /\ job[j].result = "none"
    /\ caller[j] = "404" => job[j].finished /\ j + MaxHistory <= submitted
    /\ caller[j] # "500"

CallersFit == \A j \in JobIds : CallerFits(j)

(* The run's timer was armed after the handler timer of the job that runs, *)
(* so when it has expired nobody waits for that job any more.              *)
TimersOrdered ==
    /\ runArmed <= submitted
    /\ \A t \in Tasks : at[t] = "agent" => runTimer # "off" /\ holds[t] <= runArmed
    /\ runTimer = "expired" => \A j \in Waiting : j > runArmed

(* The jobs whose run was cancelled by its timer.                          *)
TimeoutIsAnswered ==
    \A j \in timedOut : j <= submitted /\ caller[j] # "waiting" /\ caller[j] # "timeout"

StopsUnwatched ==
    /\ server = "stopped" => Waiting = {}
    /\ \A t \in Tasks : at[t] = "cancelled" => server = "stopped"

ServiceInv ==
    /\ ServiceTypeOK
    /\ ResultsFit
    /\ CallersFit
    /\ TimersOrdered
    /\ TimeoutIsAnswered
    /\ StopsUnwatched
    /\ InterruptsOnlyUnwatched

-----------------------------------------------------------------------------
(* The service is a use of the queue.                                      *)

LEMMA ServiceStepIsQueueStep == [ServiceNext]_vars => [Next]_queueVars
  <1> SUFFICES ASSUME [ServiceNext]_vars PROVE [Next]_queueVars
    OBVIOUS
  <1>1. ASSUME NEW t \in Tasks, Boot(t) PROVE Next
    BY <1>1 DEF Boot, Next
  <1>2. CASE Drain
    BY <1>2 DEF Drain
  <1>3. CASE Shutdown
    BY <1>3 DEF Shutdown, Next
  <1>4. ASSUME NEW op \in Operations, Handle(op) \/ SubmitJob(op) PROVE Next
    BY <1>4 DEF Handle, SubmitJob, Next
  <1>5. ASSUME NEW j \in JobIds, CallerWakes(j) \/ CallerTimerExpires(j) PROVE UNCHANGED queueVars
    BY <1>5 DEF CallerWakes, CallerTimerExpires
  <1>6. CASE RunTimerExpires
    BY <1>6 DEF RunTimerExpires
  <1>7. ASSUME NEW t \in Tasks, BeginRun(t) PROVE Next
    BY <1>7 DEF BeginRun, Next, Worker
  <1>8. ASSUME NEW t \in Tasks, NEW outcome \in Outcomes, RunReturns(t, outcome) PROVE Next
    BY <1>8 DEF RunReturns, Next, Worker
  <1>9. ASSUME NEW t \in Tasks, Interrupt(t) PROVE Next
    BY <1>9 DEF Interrupt, Next, Worker
  <1>10. ASSUME NEW t \in Tasks, OtherWork(t) PROVE Next
    BY <1>10 DEF OtherWork, Next, Worker
  <1>11. CASE UNCHANGED vars
    BY <1>11 DEF vars
  <1> QED
    BY <1>1, <1>2, <1>3, <1>4, <1>5, <1>6, <1>7, <1>8, <1>9, <1>10, <1>11
       DEF ServiceNext, ServiceWorker

(* What holds of every behaviour of the queue holds in the service.        *)
THEOREM ServiceUsesTheQueue == ServiceSpec => Spec
  <1>1. ServiceInit => Init
    BY DEF ServiceInit
  <1> QED
    BY <1>1, ServiceStepIsQueueStep, PTL DEF ServiceSpec, Spec

-----------------------------------------------------------------------------
(* What a step keeps, whatever it does.                                    *)

LEMMA QueueStepFacts ==
    ASSUME QueueInv, [Next]_queueVars
    PROVE  /\ QueueInv'
           /\ submitted \in Nat /\ submitted' \in Nat /\ submitted <= submitted'
           /\ MaxHistory \in Nat /\ JobIds \subseteq Nat
  <1>1. QueueInv'
    BY NextPreserves
  <1>2. MaxHistory \in Nat /\ JobIds \subseteq Nat /\ MaxJobs \in Nat
    BY QueueAssumption, JobIdsAreNaturals
  <1>3. submitted \in Nat /\ submitted' \in Nat
    BY <1>1, <1>2 DEF QueueInv, TypeOK
  <1>4. submitted' = submitted \/ submitted' = submitted + 1
    BY DEF Next, Submit, Start, Stop, Worker, SkipEvicted, BeginApply, RunUndo, AgentReturns,
           Unwind, queueVars
  <1> QED
    BY <1>1, <1>2, <1>3, <1>4

(* An answer that was true stays true.                                     *)
LEMMA CallerKept ==
    ASSUME QueueInv, [Next]_queueVars, NEW j \in JobIds, CallerFits(j), caller'[j] = caller[j]
    PROVE  CallerFits(j)'
  <1>1. /\ submitted \in Nat /\ submitted' \in Nat /\ submitted <= submitted'
        /\ MaxHistory \in Nat /\ j \in Nat
    BY QueueStepFacts
  <1>2. job[j].finished => job'[j] = job[j]
    BY FinishedStays
  <1>3. job[j].status = "failed" => job[j].finished
    BY DEF QueueInv, FinishedByStatus, Terminal
  <1> QED
    BY <1>1, <1>2, <1>3 DEF CallerFits

(* Two workers are never alive together.                                   *)
LEMMA OneWorker ==
    ASSUME QueueInv, NEW t \in Tasks, NEW u \in Tasks, at[t] # "dead", at[u] # "dead"
    PROVE  t = u
  BY DEF QueueInv, SingleWriter, Live

-----------------------------------------------------------------------------
(* The results that jobs carry.                                            *)

LEMMA ResultsKept ==
    ASSUME QueueInv, ResultsFit, [Next]_queueVars
    PROVE  ResultsFit'
  <1> SUFFICES ASSUME NEW j \in JobIds
               PROVE  /\ ~job'[j].finished => job'[j].result = "none"
                      /\ job'[j].status = "succeeded" => job'[j].result = "ok"
    BY DEF ResultsFit
  <1>1. /\ ~job[j].finished => job[j].result = "none"
        /\ job[j].status = "succeeded" => job[j].result = "ok"
        /\ job \in [JobIds -> Job]
    BY DEF ResultsFit, QueueInv, TypeOK
  <1>2. ASSUME NEW op \in Operations, Submit(op)
        PROVE  job'[j] = job[j] \/ job'[j] = NewJob(op)
    BY <1>1, <1>2 DEF Submit
  <1>3. ASSUME NEW t \in Tasks, BeginApply(t)
        PROVE  job'[j] = job[j] \/ job'[j] = [job[j] EXCEPT !.status = "running"]
    BY <1>1, <1>3 DEF BeginApply
  <1>4. ASSUME NEW t \in Tasks, NEW outcome, RunUndo(t, outcome)
        PROVE  job'[j] = job[j] \/ job'[j] = Completed(j, outcome)
    BY <1>1, <1>4 DEF RunUndo
  <1>5. ASSUME NEW t \in Tasks, NEW outcome, AgentReturns(t, outcome)
        PROVE  job'[j] = job[j] \/ job'[j] = Completed(j, outcome)
    BY <1>1, <1>5 DEF AgentReturns
  <1>6. ASSUME NEW t \in Tasks, Unwind(t)
        PROVE  job'[j] = job[j] \/ job'[j] = [job[j] EXCEPT !.finished = TRUE]
    BY <1>1, <1>6 DEF Unwind
  <1>7. ASSUME NEW outcome, job'[j] = Completed(j, outcome)
        PROVE  job'[j].finished /\ (job'[j].status = "succeeded" => job'[j].result = "ok")
    <2>1. job[j] \in Job
      BY <1>1
    <2>2. /\ job'[j].finished = TRUE
          /\ job'[j].status = (IF outcome = "ok" THEN "succeeded" ELSE "failed")
          /\ job'[j].result = (IF outcome = "raised" THEN "none" ELSE outcome)
      BY <1>7, <2>1 DEF Completed, Job
    <2> QED
      BY <2>2
  <1>8. ASSUME NEW op \in Operations, job'[j] = NewJob(op)
        PROVE  job'[j].result = "none" /\ job'[j].status = "queued"
    BY <1>8 DEF NewJob
  <1>9. ASSUME job'[j] = [job[j] EXCEPT !.status = "running"]
        PROVE  /\ job'[j].result = job[j].result /\ job'[j].status = "running"
               /\ job'[j].finished = job[j].finished
    <2>1. job[j] \in Job
      BY <1>1
    <2> QED
      BY <1>9, <2>1 DEF Job
  <1>10. ASSUME job'[j] = [job[j] EXCEPT !.finished = TRUE]
         PROVE  /\ job'[j].result = job[j].result /\ job'[j].status = job[j].status
                /\ job'[j].finished
    <2>1. job[j] \in Job
      BY <1>1
    <2> QED
      BY <1>10, <2>1 DEF Job
  <1>11. CASE job'[j] = job[j]
    BY <1>1, <1>11
  <1>12. CASE job'[j] # job[j]
    <2>1. \/ \E op \in Operations : job'[j] = NewJob(op)
          \/ job'[j] = [job[j] EXCEPT !.status = "running"]
          \/ \E outcome : job'[j] = Completed(j, outcome)
          \/ job'[j] = [job[j] EXCEPT !.finished = TRUE]
      BY <1>2, <1>3, <1>4, <1>5, <1>6, <1>12
         DEF Next, Worker, Start, Stop, SkipEvicted, queueVars
    <2> QED
      BY <1>1, <1>7, <1>8, <1>9, <1>10, <2>1
  <1> QED
    BY <1>11, <1>12

-----------------------------------------------------------------------------
(* One lemma per part of the invariant that several actions disturb.       *)

LEMMA TypesKept ==
    ASSUME QueueInv, QueueInv', ServiceTypeOK, ResultsFit, CallersFit, [ServiceNext]_vars
    PROVE  ServiceTypeOK'
  <1>1. TypeOK' /\ submitted \in 0..MaxJobs
    BY DEF QueueInv, TypeOK
  <1>2. ASSUME NEW t \in Tasks, Boot(t) PROVE ServiceTypeOK'
    BY <1>1, <1>2 DEF Boot, ServiceTypeOK
  <1>3. CASE Drain
    BY <1>1, <1>3 DEF Drain, ServiceTypeOK
  <1>4. CASE Shutdown
    BY <1>1, <1>4 DEF Shutdown, ServiceTypeOK
  <1>5. ASSUME NEW op \in Operations, Handle(op) PROVE ServiceTypeOK'
    <2>1. caller' = [caller EXCEPT ![submitted + 1] =
                        IF submitted + 1 \in doneEvents' THEN "waiting" ELSE "500"]
      BY <1>5 DEF Handle
    <2>2. caller' \in [JobIds -> {"none", "waiting"} \cup Answers]
      BY <2>1 DEF ServiceTypeOK, Answers
    <2> QED
      BY <1>1, <1>5, <2>2 DEF Handle, ServiceTypeOK
  <1>6. ASSUME NEW op \in Operations, SubmitJob(op) PROVE ServiceTypeOK'
    BY <1>1, <1>6 DEF SubmitJob, ServiceTypeOK, serviceVars
  <1>7. ASSUME NEW j \in JobIds, CallerWakes(j) PROVE ServiceTypeOK'
    <2>1. job[j].result \in Results
      BY DEF QueueInv, TypeOK, Job
    <2>2. Answer(j) \in Answers
      BY <2>1 DEF Answer, Answers
    <2>3. caller' \in [JobIds -> {"none", "waiting"} \cup Answers]
      BY <1>7, <2>2 DEF CallerWakes, ServiceTypeOK
    <2> QED
      BY <1>1, <1>7, <2>3 DEF CallerWakes, ServiceTypeOK
  <1>8. ASSUME NEW j \in JobIds, CallerTimerExpires(j) PROVE ServiceTypeOK'
    BY <1>1, <1>8 DEF CallerTimerExpires, ServiceTypeOK, Answers
  <1>9. CASE RunTimerExpires
    BY <1>1, <1>9 DEF RunTimerExpires, ServiceTypeOK
  <1>10. ASSUME NEW t \in Tasks, BeginRun(t) PROVE ServiceTypeOK'
    BY <1>1, <1>10 DEF BeginRun, ServiceTypeOK
  <1>11. ASSUME NEW t \in Tasks, NEW outcome \in Outcomes, RunReturns(t, outcome)
         PROVE  ServiceTypeOK'
    <2>1. /\ runTimer' = "off" /\ UNCHANGED <<server, caller, runArmed>>
          /\ timedOut' = timedOut \/ timedOut' = timedOut \cup {holds[t]}
          /\ at[t] = "agent"
      BY <1>11 DEF RunReturns, AgentReturns
    <2>2. holds[t] \in JobIds
      BY <2>1 DEF QueueInv, TypeOK, WorkerHoldsJob
    <2> QED
      BY <1>1, <2>1, <2>2 DEF ServiceTypeOK
  <1>12. ASSUME NEW t \in Tasks, Interrupt(t) PROVE ServiceTypeOK'
    BY <1>1, <1>12 DEF Interrupt, ServiceTypeOK
  <1>13. ASSUME NEW t \in Tasks, OtherWork(t) PROVE ServiceTypeOK'
    BY <1>1, <1>13 DEF OtherWork, ServiceTypeOK, serviceVars
  <1>14. CASE UNCHANGED vars
    BY <1>1, <1>14 DEF vars, serviceVars, ServiceTypeOK
  <1> QED
    BY <1>2, <1>3, <1>4, <1>5, <1>6, <1>7, <1>8, <1>9, <1>10, <1>11, <1>12, <1>13, <1>14
       DEF ServiceNext, ServiceWorker

(* The handlers' step: a new caller waits, a waiting caller is answered.   *)
LEMMA CallerSteps ==
    ASSUME ServiceTypeOK, [ServiceNext]_vars, NEW j \in JobIds, caller'[j] # caller[j]
    PROVE  \/ /\ j = submitted + 1 /\ submitted' = submitted + 1 /\ server = "serving"
              /\ caller'[j] = IF j \in doneEvents' THEN "waiting" ELSE "500"
              /\ UNCHANGED <<server, runTimer, runArmed, timedOut, at, holds>>
           \/ CallerWakes(j) /\ caller'[j] = Answer(j)
           \/ CallerTimerExpires(j) /\ caller'[j] = "504"
  <1>1. ASSUME NEW op \in Operations, Handle(op)
        PROVE  /\ j = submitted + 1 /\ submitted' = submitted + 1 /\ server = "serving"
               /\ caller'[j] = IF j \in doneEvents' THEN "waiting" ELSE "500"
               /\ UNCHANGED <<server, runTimer, runArmed, timedOut, at, holds>>
    BY <1>1 DEF Handle, Submit, ServiceTypeOK
  <1>2. ASSUME NEW k \in JobIds, CallerWakes(k) PROVE k = j /\ caller'[j] = Answer(j)
    BY <1>2 DEF CallerWakes, ServiceTypeOK
  <1>3. ASSUME NEW k \in JobIds, CallerTimerExpires(k) PROVE k = j /\ caller'[j] = "504"
    BY <1>3 DEF CallerTimerExpires, ServiceTypeOK
  <1> QED
    BY <1>1, <1>2, <1>3
       DEF ServiceNext, ServiceWorker, Boot, Drain, Shutdown, SubmitJob, RunTimerExpires,
           BeginRun, RunReturns, Interrupt, OtherWork, vars, serviceVars

LEMMA CallersKept ==
    ASSUME QueueInv, ServiceInv, [ServiceNext]_vars
    PROVE  CallersFit'
  <1> SUFFICES ASSUME NEW j \in JobIds PROVE CallerFits(j)'
    BY DEF CallersFit
  <1>1. [Next]_queueVars
    BY ServiceStepIsQueueStep
  <1>2. /\ QueueInv' /\ submitted \in Nat /\ submitted' \in Nat /\ submitted <= submitted'
        /\ MaxHistory \in Nat /\ j \in Nat
    BY <1>1, QueueStepFacts
  <1>3. CASE caller'[j] = caller[j]
    BY <1>1, <1>3, CallerKept DEF ServiceInv, CallersFit
  <1>4. CASE caller'[j] # caller[j]
    <2>1. CASE /\ j = submitted + 1 /\ submitted' = submitted + 1
               /\ caller'[j] = IF j \in doneEvents' THEN "waiting" ELSE "500"
      <3>1. j \in doneEvents'
        <4>1. MaxHistory > 0
          BY QueueAssumption
        <4> QED
          BY <1>2, <2>1, <4>1 DEF QueueInv, KeepsTheNewest
      <3> QED
        BY <1>2, <2>1, <3>1 DEF CallerFits, Results
    <2>2. CASE CallerWakes(j) /\ caller'[j] = Answer(j)
      <3>1. UNCHANGED queueVars /\ j \in signalled /\ caller[j] = "waiting"
        BY <2>2 DEF CallerWakes
      <3>2. job[j].finished /\ j <= submitted
        BY <3>1 DEF QueueInv, NoLostWakeup, ServiceInv, CallersFit, CallerFits
      <3>4. job[j].status = "failed" \/ job[j].result # "none"
        <4>1. job[j].status \in Terminal \cup {"running"}
          BY <3>2 DEF QueueInv, FinishedByStatus
        <4>2. job[j].status # "running"
          BY <3>1, <3>2 DEF ServiceInv, InterruptsOnlyUnwatched
        <4> QED
          BY <4>1, <4>2 DEF ServiceInv, ResultsFit, Terminal
      <3>5. j \notin registry => j + MaxHistory <= submitted
        <4>1. j \in 1..submitted
          BY <1>2, <3>2 DEF JobIds
        <4> QED
          BY <1>2, <4>1 DEF QueueInv, KeepsTheNewest
      <3>6. job' = job /\ submitted' = submitted
        BY <3>1 DEF queueVars
      <3>7. job[j].result \in Results
        BY DEF QueueInv, TypeOK, Job
      <3>8. CASE j \notin registry
        <4>1. caller'[j] = "404"
          BY <2>2, <3>8 DEF Answer
        <4> QED
          BY <1>2, <3>2, <3>5, <3>6, <3>8, <4>1 DEF CallerFits, Results
      <3>9. CASE j \in registry /\ job[j].result # "none"
        <4>1. caller'[j] = job[j].result
          BY <2>2, <3>9 DEF Answer
        <4> QED
          BY <3>2, <3>6, <3>7, <3>9, <4>1 DEF CallerFits, Results
      <3>10. CASE j \in registry /\ job[j].result = "none"
        <4>1. caller'[j] = "jobFailed"
          BY <2>2, <3>10 DEF Answer
        <4> QED
          BY <3>2, <3>4, <3>6, <3>10, <4>1 DEF CallerFits, Results
      <3> QED
        BY <3>8, <3>9, <3>10
    <2>3. CASE CallerTimerExpires(j) /\ caller'[j] = "504"
      <3>1. UNCHANGED queueVars /\ caller[j] = "waiting"
        BY <2>3 DEF CallerTimerExpires
      <3> QED
        BY <2>3, <3>1 DEF queueVars, ServiceInv, CallersFit, CallerFits, Results
    <2> QED
      BY <1>4, <2>1, <2>2, <2>3, CallerSteps DEF ServiceInv
  <1> QED
    BY <1>3, <1>4

-----------------------------------------------------------------------------
(* The timers.                                                             *)

LEMMA TimersKept ==
    ASSUME QueueInv, ServiceInv, [ServiceNext]_vars
    PROVE  TimersOrdered'
  <1>1. [Next]_queueVars
    BY ServiceStepIsQueueStep
  <1>2. /\ QueueInv' /\ submitted \in Nat /\ submitted' \in Nat /\ submitted <= submitted'
        /\ JobIds \subseteq Nat
    BY <1>1, QueueStepFacts
  <1>3. runArmed \in Nat /\ runArmed <= submitted
    BY JobIdsAreNaturals DEF ServiceInv, ServiceTypeOK, TimersOrdered
  <1>4. /\ at \in [Tasks -> TaskStates] /\ holds \in [Tasks -> JobIds \cup {0}]
        /\ caller \in [JobIds -> {"none", "waiting"} \cup Answers]
    BY DEF QueueInv, TypeOK, ServiceInv, ServiceTypeOK
  (* A step that leaves the timers alone and starts no run. *)
  <1>5. ASSUME UNCHANGED <<runTimer, runArmed>>,
               \A t \in Tasks : at'[t] = "agent" => at[t] = "agent" /\ holds'[t] = holds[t],
               \A j \in JobIds : caller'[j] = "waiting"
                                   => caller[j] = "waiting" \/ j = submitted + 1
        PROVE  TimersOrdered'
    <2>1. runArmed' <= submitted'
      BY <1>2, <1>3, <1>5
    <2>2. \A t \in Tasks : at'[t] = "agent" => runTimer' # "off" /\ holds'[t] <= runArmed'
      BY <1>5 DEF ServiceInv, TimersOrdered
    <2>3. runTimer' = "expired" => \A j \in Waiting' : j > runArmed'
      <3> SUFFICES ASSUME runTimer' = "expired", NEW j \in JobIds, caller'[j] = "waiting"
                   PROVE  j > runArmed
        BY <1>5 DEF Waiting
      <3>1. CASE caller[j] = "waiting"
        BY <1>5, <3>1 DEF ServiceInv, TimersOrdered, Waiting
      <3>2. CASE j = submitted + 1
        BY <1>2, <1>3, <3>2
      <3> QED
        BY <1>5, <3>1, <3>2
    <2> QED
      BY <2>1, <2>2, <2>3 DEF TimersOrdered
  (* A step after which no run is under way. *)
  <1>6. ASSUME NEW t \in Tasks, at[t] # "dead", runTimer' = "off", runArmed' = runArmed,
               at'[t] # "agent", \A u \in Tasks \ {t} : at'[u] = at[u]
        PROVE  TimersOrdered'
    <2>1. \A u \in Tasks : at'[u] # "agent"
      BY <1>6, OneWorker
    <2> QED
      BY <1>2, <1>3, <1>6, <2>1 DEF TimersOrdered
  <1>7. ASSUME NEW t \in Tasks, Boot(t) PROVE TimersOrdered'
    <2>1. /\ UNCHANGED <<runTimer, runArmed, caller, holds>>
          /\ at' = [at EXCEPT ![t] = "get"]
      BY <1>7 DEF Boot, Start
    <2> QED
      BY <1>4, <1>5, <2>1
  <1>8. CASE Drain
    BY <1>5, <1>8 DEF Drain, queueVars
  <1>9. CASE Shutdown
    <2>1. /\ UNCHANGED <<runTimer, runArmed, caller, holds>>
          /\ at' = [at EXCEPT ![workerTask] = "cancelled"]
      BY <1>9 DEF Shutdown, Stop
    <2> QED
      BY <1>4, <1>5, <2>1
  <1>10. ASSUME NEW op \in Operations, Handle(op) \/ SubmitJob(op) PROVE TimersOrdered'
    <2>1. UNCHANGED <<runTimer, runArmed, at, holds>>
      BY <1>10 DEF Handle, SubmitJob, Submit, serviceVars
    <2>2. \A j \in JobIds : caller'[j] = "waiting" => caller[j] = "waiting" \/ j = submitted + 1
      BY <1>4, <1>10 DEF Handle, SubmitJob, serviceVars
    <2> QED
      BY <1>5, <2>1, <2>2
  <1>11. ASSUME NEW j \in JobIds, CallerWakes(j) PROVE TimersOrdered'
    <2>1. UNCHANGED <<runTimer, runArmed, at, holds>>
      BY <1>11 DEF CallerWakes, queueVars
    <2>2. \A k \in JobIds : caller'[k] = "waiting" => caller[k] = "waiting"
      BY <1>4, <1>11 DEF CallerWakes
    <2> QED
      BY <1>5, <2>1, <2>2
  <1>12. ASSUME NEW j \in JobIds, CallerTimerExpires(j) PROVE TimersOrdered'
    <2>1. UNCHANGED <<runTimer, runArmed, at, holds>>
      BY <1>12 DEF CallerTimerExpires, queueVars
    <2>2. \A k \in JobIds : caller'[k] = "waiting" => caller[k] = "waiting"
      BY <1>4, <1>12 DEF CallerTimerExpires
    <2> QED
      BY <1>5, <2>1, <2>2
  <1>13. CASE RunTimerExpires
    BY <1>13 DEF RunTimerExpires, queueVars, ServiceInv, TimersOrdered, Waiting
  <1>14. ASSUME NEW t \in Tasks, BeginRun(t) PROVE TimersOrdered'
    <2>1. /\ runTimer' = "armed" /\ runArmed' = submitted /\ submitted' = submitted
          /\ pending # << >> /\ at[t] = "get" /\ t \in Tasks
          /\ at' = [at EXCEPT ![t] = "agent"] /\ holds' = [holds EXCEPT ![t] = Head(pending)]
      BY <1>14 DEF BeginRun, BeginApply
    <2>2. Head(pending) <= submitted
      <3>1. Head(pending) = Taken + 1 /\ Taken \in Nat /\ Taken < submitted
        BY <2>1, HeadOfPending DEF QueueInv
      <3> QED
        BY <1>2, <3>1
    <2>3. ASSUME NEW u \in Tasks, at'[u] = "agent"
          PROVE  holds'[u] <= runArmed'
      <3>1. u = t
        BY <1>4, <2>1, <2>3, OneWorker
      <3> QED
        BY <1>4, <2>1, <2>2, <3>1
    <2> QED
      BY <1>2, <2>1, <2>3 DEF TimersOrdered
  <1>15. ASSUME NEW t \in Tasks, NEW outcome \in Outcomes, RunReturns(t, outcome)
         PROVE  TimersOrdered'
    <2>1. /\ runTimer' = "off" /\ runArmed' = runArmed
          /\ at[t] = "agent" /\ at' = [at EXCEPT ![t] = "get"]
      BY <1>15 DEF RunReturns, AgentReturns
    <2> QED
      BY <1>4, <1>6, <2>1
  <1>16. ASSUME NEW t \in Tasks, Interrupt(t) PROVE TimersOrdered'
    <2>1. /\ runTimer' = "off" /\ runArmed' = runArmed
          /\ at[t] = "cancelled" /\ at' = [at EXCEPT ![t] = "dead"]
      BY <1>16 DEF Interrupt, Unwind
    <2> QED
      BY <1>4, <1>6, <2>1
  <1>17. ASSUME NEW t \in Tasks, OtherWork(t) PROVE TimersOrdered'
    BY <1>5, <1>17 DEF OtherWork, SkipEvicted, RunUndo, serviceVars
  <1>18. CASE UNCHANGED vars
    BY <1>5, <1>18 DEF vars, serviceVars, queueVars
  <1> QED
    BY <1>7, <1>8, <1>9, <1>10, <1>11, <1>12, <1>13, <1>14, <1>15, <1>16, <1>17, <1>18
       DEF ServiceNext, ServiceWorker

(* A run is cancelled by its timer only when the caller of its job has     *)
(* been answered.                                                          *)
LEMMA TimeoutKept ==
    ASSUME QueueInv, ServiceInv, [ServiceNext]_vars
    PROVE  TimeoutIsAnswered'
  <1> SUFFICES ASSUME NEW j \in timedOut'
               PROVE  /\ j <= submitted'
                      /\ caller'[j] # "waiting" /\ caller'[j] # "timeout"
    BY DEF TimeoutIsAnswered
  <1>1. /\ job \in [JobIds -> Job] /\ holds \in [Tasks -> JobIds \cup {0}]
        /\ JobIds \subseteq Nat /\ runArmed \in Nat /\ ServiceTypeOK /\ timedOut \subseteq JobIds
    BY JobIdsAreNaturals DEF QueueInv, TypeOK, ServiceInv, ServiceTypeOK
  <1>a. submitted \in Nat /\ submitted' \in Nat /\ submitted <= submitted'
    BY ServiceStepIsQueueStep, QueueStepFacts
  <1>2. CASE j \in timedOut
    <2>1. j \in JobIds /\ j <= submitted /\ caller[j] # "waiting" /\ caller[j] # "timeout"
      BY <1>1, <1>2 DEF ServiceInv, TimeoutIsAnswered
    <2>2. caller'[j] = caller[j]
      BY <1>1, <1>a, <2>1, CallerSteps DEF CallerWakes, CallerTimerExpires
    <2> QED
      BY <1>1, <1>a, <2>1, <2>2
  <1>3. CASE j \notin timedOut
    <2>1. PICK t \in Tasks, outcome \in Outcomes : RunReturns(t, outcome)
      BY <1>3 DEF ServiceNext, ServiceWorker, Boot, Drain, Shutdown, Handle, SubmitJob,
                  CallerWakes, CallerTimerExpires, RunTimerExpires, BeginRun, Interrupt,
                  OtherWork, vars, serviceVars
    <2>2. /\ j = holds[t] /\ runTimer = "expired" /\ at[t] = "agent" /\ caller' = caller
      BY <1>3, <2>1 DEF RunReturns, AgentReturns
    <2>a. j \in JobIds /\ ~job[j].finished
      BY <1>1, <2>2 DEF QueueInv, WorkerHoldsJob, Executing
    <2>b. j <= submitted
      BY <1>1, <1>a, <2>2, <2>a DEF ServiceInv, TimersOrdered
    <2>3. j \in JobIds /\ j <= submitted /\ ~job[j].finished
      BY <2>a, <2>b
    <2>4. caller[j] # "waiting"
      BY <1>1, <2>2, <2>3 DEF ServiceInv, TimersOrdered, Waiting
    <2>5. caller[j] # "timeout"
      BY <2>3 DEF ServiceInv, CallersFit, CallerFits, Results
    <2> QED
      BY <1>1, <1>a, <2>2, <2>3, <2>4, <2>5
  <1> QED
    BY <1>2, <1>3

-----------------------------------------------------------------------------
(* Shutdown.                                                               *)

LEMMA StopsKept ==
    ASSUME QueueInv, ServiceInv, [ServiceNext]_vars
    PROVE  StopsUnwatched'
  <1>1. /\ at \in [Tasks -> TaskStates]
        /\ caller \in [JobIds -> {"none", "waiting"} \cup Answers]
    BY DEF QueueInv, TypeOK, ServiceInv, ServiceTypeOK
  <1>2. ASSUME server' = "stopped" PROVE Waiting' = {}
    <2>1. Waiting = {}
      BY <1>2 DEF ServiceNext, ServiceWorker, Boot, Drain, Shutdown, Handle, SubmitJob,
                  CallerWakes, CallerTimerExpires, RunTimerExpires, BeginRun, RunReturns,
                  Interrupt, OtherWork, vars, serviceVars, ServiceInv, StopsUnwatched
    <2>2. \A j \in JobIds : caller[j] # "waiting"
      BY <2>1 DEF Waiting
    <2>3. caller' = caller
      BY <1>2, <2>2 DEF ServiceNext, ServiceWorker, Boot, Drain, Shutdown, Handle, SubmitJob,
                  CallerWakes, CallerTimerExpires, RunTimerExpires, BeginRun, RunReturns,
                  Interrupt, OtherWork, vars, serviceVars, ServiceInv, StopsUnwatched
    <2> QED
      BY <2>2, <2>3 DEF Waiting
  <1>3. ASSUME NEW t \in Tasks, at'[t] = "cancelled" PROVE server' = "stopped"
    <2>1. CASE at[t] = "cancelled"
      <3>1. server = "stopped"
        BY <2>1 DEF ServiceInv, StopsUnwatched
      <3> QED
        BY <3>1 DEF ServiceNext, ServiceWorker, Boot, Drain, Shutdown, Handle, SubmitJob,
                    CallerWakes, CallerTimerExpires, RunTimerExpires, BeginRun, RunReturns,
                    Interrupt, OtherWork, vars, serviceVars
    <2>2. CASE at[t] # "cancelled"
      BY <1>1, <1>3, <2>2
         DEF ServiceNext, ServiceWorker, Boot, Start, Drain, Shutdown, Handle, SubmitJob, Submit,
             CallerWakes, CallerTimerExpires, RunTimerExpires, BeginRun, BeginApply, RunReturns,
             AgentReturns, Interrupt, Unwind, OtherWork, SkipEvicted, RunUndo, vars, queueVars
    <2> QED
      BY <2>1, <2>2
  <1> QED
    BY <1>2, <1>3 DEF StopsUnwatched

(* Only Interrupt leaves a job running and finished, and by then nobody    *)
(* waits and no caller can have been given a result of that job.           *)
LEMMA InterruptsKept ==
    ASSUME QueueInv, ServiceInv, [ServiceNext]_vars
    PROVE  InterruptsOnlyUnwatched'
  <1> SUFFICES ASSUME NEW j \in JobIds, job'[j].status = "running", job'[j].finished
               PROVE  caller'[j] \in {"none", "504"}
    BY DEF InterruptsOnlyUnwatched
  <1>1. /\ job \in [JobIds -> Job] /\ holds \in [Tasks -> JobIds \cup {0}]
        /\ caller \in [JobIds -> {"none", "waiting"} \cup Answers]
        /\ QueueInv' /\ j \in Nat /\ submitted \in Nat
    BY ServiceStepIsQueueStep, QueueStepFacts
       DEF QueueInv, TypeOK, ServiceInv, ServiceTypeOK
  <1>2. CASE job'[j] = job[j]
    <2>1. caller[j] \in {"none", "504"}
      BY <1>2 DEF ServiceInv, InterruptsOnlyUnwatched
    <2>2. j # submitted + 1
      BY <1>1, <1>2 DEF QueueInv, StatusByNumber
    <2> QED
      BY <2>1, <2>2, CallerSteps DEF ServiceInv, CallerWakes, CallerTimerExpires
  <1>3. CASE job'[j] # job[j]
    <2>1. ASSUME NEW t \in Tasks, Interrupt(t) PROVE caller'[j] \in {"none", "504"}
      <3>1. j = holds[t] /\ caller' = caller /\ at[t] = "cancelled"
        BY <1>1, <1>3, <2>1 DEF Interrupt, Unwind
      <3>2. job[j].status = "running" /\ ~job[j].finished
        BY <1>1, <3>1, JobIdsAreNaturals DEF QueueInv, WorkerHoldsJob, Executing
      <3>3. caller[j] # "waiting"
        BY <3>1 DEF ServiceInv, StopsUnwatched, Waiting
      <3>4. CallerFits(j)
        BY DEF ServiceInv, CallersFit
      <3> QED
        BY <1>1, <3>1, <3>2, <3>3, <3>4 DEF CallerFits, Answers
    <2>2. ASSUME NEW op \in Operations, Submit(op) PROVE FALSE
      <3>1. job'[j] = NewJob(op)
        BY <1>1, <1>3, <2>2 DEF Submit
      <3> QED
        BY <3>1 DEF NewJob
    <2>3. ASSUME NEW t \in Tasks, BeginApply(t) PROVE FALSE
      <3>1. /\ j = Head(pending) /\ pending # << >>
            /\ job'[j] = [job[j] EXCEPT !.status = "running"]
        BY <1>1, <1>3, <2>3 DEF BeginApply
      <3>2. job[j] \in Job
        BY <1>1
      <3>3. job[j].finished
        BY <3>1, <3>2 DEF Job
      <3>4. job'[j] = job[j]
        BY <3>3, ServiceStepIsQueueStep, FinishedStays
      <3> QED
        BY <1>3, <3>4
    <2>4. ASSUME NEW outcome, job'[j] = Completed(j, outcome) PROVE FALSE
      <3>1. job'[j].status = (IF outcome = "ok" THEN "succeeded" ELSE "failed")
        BY <1>1, <2>4 DEF Completed, Job
      <3> QED
        BY <3>1
    <2>5. ASSUME NEW t \in Tasks, NEW outcome, RunUndo(t, outcome) PROVE FALSE
      BY <1>1, <1>3, <2>4, <2>5 DEF RunUndo
    <2>6. ASSUME NEW t \in Tasks, NEW outcome, AgentReturns(t, outcome) PROVE FALSE
      BY <1>1, <1>3, <2>4, <2>6 DEF AgentReturns
    <2> QED
      BY <1>3, <2>1, <2>2, <2>3, <2>5, <2>6
         DEF ServiceNext, ServiceWorker, Boot, Start, Drain, Shutdown, Stop, Handle, SubmitJob,
             CallerWakes, CallerTimerExpires, RunTimerExpires, BeginRun, RunReturns, OtherWork,
             SkipEvicted, vars, queueVars
  <1> QED
    BY <1>2, <1>3

-----------------------------------------------------------------------------
(* The invariant.                                                          *)

LEMMA ServiceInitEstablishes == ServiceInit => ServiceInv
  <1> SUFFICES ASSUME ServiceInit PROVE ServiceInv
    OBVIOUS
  <1>1. QueueInv
    BY InitEstablishes DEF ServiceInit
  <1>2. ServiceTypeOK
    BY <1>1, JobIdsAreNaturals DEF QueueInv, ServiceInit, ServiceTypeOK
  <1>3. ResultsFit
    BY DEF ServiceInit, Init, ResultsFit, Absent
  <1>4. CallersFit
    BY DEF ServiceInit, CallersFit, CallerFits, Results
  <1>5. TimersOrdered
    BY DEF ServiceInit, Init, TimersOrdered
  <1>6. TimeoutIsAnswered
    BY DEF ServiceInit, TimeoutIsAnswered
  <1>7. StopsUnwatched
    BY DEF ServiceInit, Init, StopsUnwatched
  <1>8. InterruptsOnlyUnwatched
    BY DEF ServiceInit, InterruptsOnlyUnwatched
  <1> QED
    BY <1>2, <1>3, <1>4, <1>5, <1>6, <1>7, <1>8 DEF ServiceInv

LEMMA ServiceNextPreserves ==
    QueueInv /\ ServiceInv /\ [ServiceNext]_vars => QueueInv' /\ ServiceInv'
  <1> SUFFICES ASSUME QueueInv, ServiceInv, [ServiceNext]_vars PROVE QueueInv' /\ ServiceInv'
    OBVIOUS
  <1>1. [Next]_queueVars
    BY ServiceStepIsQueueStep
  <1>2. QueueInv'
    BY <1>1, NextPreserves
  <1>3. ServiceTypeOK'
    BY <1>2, TypesKept DEF ServiceInv
  <1>4. ResultsFit'
    BY <1>1, ResultsKept DEF ServiceInv
  <1> QED
    BY <1>2, <1>3, <1>4, CallersKept, TimersKept, TimeoutKept, StopsKept, InterruptsKept
       DEF ServiceInv

LEMMA ServiceInvariant == ServiceSpec => [](QueueInv /\ ServiceInv)
  <1>1. ServiceInit => QueueInv /\ ServiceInv
    BY InitEstablishes, ServiceInitEstablishes DEF ServiceInit
  <1> QED
    BY <1>1, ServiceNextPreserves, PTL DEF ServiceSpec

-----------------------------------------------------------------------------
(* The results.                                                            *)

(* The service's state always has its types.                               *)
THEOREM ServiceTypeCorrect == ServiceSpec => []ServiceTypeOK
  <1>1. ServiceInv => ServiceTypeOK
    BY DEF ServiceInv
  <1> QED
    BY <1>1, ServiceInvariant, PTL

(* No synchronous caller is ever answered with the result of a run that    *)
(* exceeded its time: its own timer, of the same length, was armed earlier.*)
THEOREM RunTimeoutNeverReachesCaller == ServiceSpec => []SyncCallerNeverSeesRunTimeout
  <1>1. ServiceInv => SyncCallerNeverSeesRunTimeout
    BY DEF ServiceInv, TimeoutIsAnswered, SyncCallerNeverSeesRunTimeout
  <1> QED
    BY <1>1, ServiceInvariant, PTL

(* Every answer is about the caller's own finished job.                    *)
THEOREM CallersAreToldTheTruth == ServiceSpec => []AnswersAreTrue
  <1>1. ServiceInv => AnswersAreTrue
    BY DEF ServiceInv, CallersFit, CallerFits, AnswersAreTrue
  <1> QED
    BY <1>1, ServiceInvariant, PTL

(* "Job not found" is said only of a finished job that has rotated out.    *)
THEOREM NotFoundIsJustified == ServiceSpec => []NotFoundMeansRotatedOut
  <1>1. ServiceInv => NotFoundMeansRotatedOut
    BY DEF ServiceInv, CallersFit, CallerFits, NotFoundMeansRotatedOut
  <1> QED
    BY <1>1, ServiceInvariant, PTL

(* Shutdown interrupts no run that somebody waits for.                     *)
THEOREM ShutdownInterruptsNoWatchedRun == ServiceSpec => []InterruptsOnlyUnwatched
  <1>1. ServiceInv => InterruptsOnlyUnwatched
    BY DEF ServiceInv
  <1> QED
    BY <1>1, ServiceInvariant, PTL

=============================================================================
