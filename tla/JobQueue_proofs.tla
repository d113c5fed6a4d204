-------------------------- MODULE JobQueue_proofs --------------------------
(***************************************************************************)
(* The job queue's safety properties, proved for every history length,    *)
(* every number of submissions and every set of task objects.  The runs of *)
(* JobQueue.cfg check the same properties on a small instance.             *)
(***************************************************************************)
EXTENDS JobQueue, Selection_proofs, SequenceTheorems, FiniteSetTheorems, TLAPS

-----------------------------------------------------------------------------
(* The inductive invariant.  Submissions enter both queues at the back and *)
(* leave at the front, so each queue is an interval of job numbers; what a *)
(* job's status can be then follows from where its number falls.           *)

Taken == submitted - Len(pending)

PendingIsSuffix ==
    /\ Len(pending) <= submitted
    /\ \A i \in 1..Len(pending) : pending[i] = Taken + i

HistoryIsSuffix ==
    /\ Len(history) = Smaller(submitted, MaxHistory)
    /\ \A i \in 1..Len(history) : history[i] = submitted - Len(history) + i

StatusByNumber ==
    \A j \in JobIds :
        /\ job[j].status = "absent" <=> j > submitted
        /\ Taken < j /\ j <= submitted => job[j].status = "queued"
        /\ j <= Taken /\ job[j].status = "queued" => j \notin registry

FinishedByStatus ==
    \A j \in JobIds :
        /\ job[j].status \in Terminal => job[j].finished
        /\ job[j].finished => job[j].status \in Terminal \cup {"running"}

WorkerHoldsJob ==
    /\ workerTask \in Tasks => Live(workerTask)
    /\ \A t \in Tasks :
          /\ at[t] \in {"dead", "get"} => holds[t] = 0
          /\ at[t] = "agent" => holds[t] # 0
          /\ holds[t] # 0 => Executing(holds[t])

QueueInv ==
    /\ TypeOK
    /\ PendingIsSuffix
    /\ HistoryIsSuffix
    /\ KeepsTheNewest
    /\ StatusByNumber
    /\ FinishedByStatus
    /\ WorkerHoldsJob
    /\ SingleWriter
    /\ NoLostWakeup
-----------------------------------------------------------------------------
(* Facts about sequences and the small arithmetic of the history.          *)

LEMMA JobIdsAreNaturals == JobIds \subseteq Nat /\ 0 \notin JobIds /\ MaxJobs \in Nat
  BY QueueAssumption DEF JobIds

(* What Append and Tail do to a sequence, index by index.                  *)
LEMMA AppendFacts ==
  ASSUME NEW S, NEW s \in Seq(S), NEW e \in S
  PROVE  /\ Append(s, e) \in Seq(S)
         /\ Len(Append(s, e)) = Len(s) + 1
         /\ \A i \in 1..Len(s) : Append(s, e)[i] = s[i]
         /\ Append(s, e)[Len(s) + 1] = e
  OBVIOUS

LEMMA TailFacts ==
  ASSUME NEW S, NEW s \in Seq(S), s # << >>
  PROVE  /\ Head(s) \in S
         /\ Head(s) = s[1]
         /\ Len(s) \in Nat \ {0}
         /\ Tail(s) \in Seq(S)
         /\ Len(Tail(s)) = Len(s) - 1
         /\ \A i \in 1..Len(s) - 1 : Tail(s)[i] = s[i + 1]
  <1>1. Len(s) \in Nat /\ Len(s) # 0
    BY EmptySeq, LenProperties
  <1>2. QED
    BY <1>1, HeadTailProperties

(* The head of _pending is the oldest job not yet taken.                   *)
LEMMA HeadOfPending ==
  ASSUME TypeOK, PendingIsSuffix, pending # << >>
  PROVE  /\ Head(pending) = Taken + 1
         /\ Taken \in Nat
         /\ Taken < submitted
         /\ Head(pending) \in JobIds
         /\ Tail(pending) \in Seq(JobIds)
         /\ Len(Tail(pending)) = Len(pending) - 1
         /\ \A i \in 1..Len(pending) - 1 : Tail(pending)[i] = Taken + 1 + i
  <1>1. pending \in Seq(JobIds) /\ submitted \in Nat
    BY JobIdsAreNaturals DEF TypeOK
  <1> DEFINE n == Len(pending)
  <1>2. /\ n \in Nat \ {0}
        /\ Head(pending) \in JobIds
        /\ Head(pending) = pending[1]
        /\ Tail(pending) \in Seq(JobIds)
        /\ Len(Tail(pending)) = n - 1
        /\ \A i \in 1..n - 1 : Tail(pending)[i] = pending[i + 1]
    BY <1>1, TailFacts
  <1>3. n <= submitted /\ \A i \in 1..n : pending[i] = submitted - n + i
    BY DEF PendingIsSuffix, Taken
  <1>4. pending[1] = submitted - n + 1
    BY <1>2, <1>3
  <1>5. \A i \in 1..n - 1 : pending[i + 1] = submitted - n + 1 + i
    <2>1. TAKE i \in 1..n - 1
    <2>2. i + 1 \in 1..n /\ i \in Nat
      BY <1>2
    <2>3. pending[i + 1] = submitted - n + (i + 1)
      BY <1>3, <2>2
    <2>4. QED
      BY <1>1, <1>2, <2>2, <2>3
  <1> HIDE DEF n
  <1>6. submitted - n \in Nat /\ submitted - n < submitted
    BY <1>1, <1>2, <1>3
  <1>7. QED
    BY <1>2, <1>4, <1>5, <1>6 DEF Taken, n

(* What AppendHistory does to the history and to the two dictionaries.     *)
LEMMA AppendHistoryFacts ==
  ASSUME TypeOK, HistoryIsSuffix, KeepsTheNewest,
         submitted < MaxJobs, AppendHistory(submitted + 1)
  PROVE  /\ history' \in Seq(JobIds)
         /\ Len(history') = Smaller(submitted + 1, MaxHistory)
         /\ \A i \in 1..Len(history') : history'[i] = submitted + 1 - Len(history') + i
         /\ registry' = {j \in 1..submitted + 1 : j + MaxHistory > submitted + 1}
         /\ doneEvents' = registry'
  <1> DEFINE n == Len(history)
             new == Append(history, submitted + 1)
  <1>1. /\ submitted \in Nat /\ MaxHistory \in Nat \ {0} /\ MaxJobs \in Nat
        /\ submitted + 1 \in JobIds
        /\ history \in Seq(JobIds) /\ n \in Nat
    BY QueueAssumption, LenProperties DEF TypeOK, JobIds
  <1>2. /\ n = IF submitted < MaxHistory THEN submitted ELSE MaxHistory
        /\ \A i \in 1..n : history[i] = submitted - n + i
    BY DEF HistoryIsSuffix, Smaller
  <1>3. registry = {j \in 1..submitted : j + MaxHistory > submitted} /\ doneEvents = registry
    BY DEF KeepsTheNewest
  <1>4. /\ new \in Seq(JobIds)
        /\ Len(new) = n + 1
        /\ \A i \in 1..n : new[i] = history[i]
        /\ new[n + 1] = submitted + 1
    BY <1>1, AppendFacts
  <1>5. \A i \in 1..n + 1 : new[i] = submitted - n + i
    <2>1. TAKE i \in 1..n + 1
    <2>2. CASE i \in 1..n
      BY <2>2, <1>2, <1>4
    <2>3. CASE i = n + 1
      BY <2>3, <1>1, <1>4
    <2>4. QED
      BY <2>2, <2>3, <1>1
  <1>6. CASE submitted < MaxHistory
    <2>1. n = submitted /\ Len(new) <= MaxHistory
      BY <1>1, <1>2, <1>4, <1>6
    <2>2. /\ history' = new
          /\ registry' = registry \cup {submitted + 1}
          /\ doneEvents' = doneEvents \cup {submitted + 1}
      BY <2>1 DEF AppendHistory
    <2>3. Len(history') = Smaller(submitted + 1, MaxHistory)
      BY <1>1, <1>4, <1>6, <2>1, <2>2 DEF Smaller
    <2>4. \A i \in 1..Len(history') : history'[i] = submitted + 1 - Len(history') + i
      BY <1>1, <1>4, <1>5, <2>1, <2>2
    <2>5. registry' = {j \in 1..submitted + 1 : j + MaxHistory > submitted + 1}
      BY <1>1, <1>3, <1>6, <2>2
    <2>6. QED
      BY <1>3, <1>4, <2>2, <2>3, <2>4, <2>5
  <1>7. CASE ~(submitted < MaxHistory)
    <2>1. n = MaxHistory /\ ~(Len(new) <= MaxHistory) /\ new # << >>
      BY <1>1, <1>2, <1>4, <1>7
    <2>2. /\ history' = Tail(new)
          /\ registry' = (registry \cup {submitted + 1}) \ {Head(new)}
          /\ doneEvents' = (doneEvents \cup {submitted + 1}) \ {Head(new)}
      BY <2>1 DEF AppendHistory
    <2>3. /\ Head(new) = new[1]
          /\ Tail(new) \in Seq(JobIds)
          /\ Len(Tail(new)) = Len(new) - 1
          /\ \A i \in 1..Len(new) - 1 : Tail(new)[i] = new[i + 1]
      BY <1>4, <2>1, TailFacts
    <2>4. Head(new) = submitted + 1 - MaxHistory
      BY <1>1, <1>5, <2>1, <2>3
    <2>5. Len(history') = MaxHistory /\ MaxHistory = Smaller(submitted + 1, MaxHistory)
      BY <1>1, <1>4, <1>7, <2>1, <2>2, <2>3 DEF Smaller
    <2>6. \A i \in 1..Len(history') : history'[i] = submitted + 1 - Len(history') + i
      <3>1. TAKE i \in 1..Len(history')
      <3>2. i \in 1..n /\ i + 1 \in 1..n + 1 /\ i \in Nat
        BY <1>1, <2>1, <2>5
      <3>3. history'[i] = new[i + 1]
        BY <1>1, <1>4, <2>2, <2>3, <3>2
      <3>4. new[i + 1] = submitted - n + (i + 1)
        BY <1>5, <3>2
      <3>5. QED
        BY <1>1, <2>1, <2>5, <3>2, <3>3, <3>4
    <2>7. registry' = {j \in 1..submitted + 1 : j + MaxHistory > submitted + 1}
      <3>1. \A j \in 1..submitted + 1 :
               j + MaxHistory > submitted + 1
               <=> (j \in registry \/ j = submitted + 1) /\ j # submitted + 1 - MaxHistory
        BY <1>1, <1>3, <1>7
      <3>2. registry \subseteq 1..submitted + 1 /\ submitted + 1 \in 1..submitted + 1
        BY <1>1, <1>3
      <3>3. registry' = (registry \cup {submitted + 1}) \ {submitted + 1 - MaxHistory}
        BY <2>2, <2>4
      <3>4. QED
        BY <3>1, <3>2, <3>3
    <2>8. QED
      BY <1>3, <2>2, <2>3, <2>5, <2>6, <2>7
  <1>8. QED
    BY <1>6, <1>7

-----------------------------------------------------------------------------
(* Each action preserves QueueInv.                                         *)

(* Taking the head of _pending leaves the remaining suffix.                *)
LEMMA TakeHead ==
  ASSUME TypeOK, PendingIsSuffix, pending # << >>,
         pending' = Tail(pending), submitted' = submitted
  PROVE  /\ pending' \in Seq(JobIds)
         /\ Taken' = Taken + 1
         /\ PendingIsSuffix'
  <1>1. /\ Taken \in Nat /\ Taken < submitted
        /\ Tail(pending) \in Seq(JobIds)
        /\ Len(Tail(pending)) = Len(pending) - 1
        /\ \A i \in 1..Len(pending) - 1 : Tail(pending)[i] = Taken + 1 + i
    BY HeadOfPending
  <1>2. Len(pending) \in Nat /\ submitted \in Nat
    BY JobIdsAreNaturals, LenProperties DEF TypeOK
  <1>3. Taken' = Taken + 1
    BY <1>1, <1>2 DEF Taken
  <1>4. PendingIsSuffix'
    BY <1>1, <1>2, <1>3 DEF PendingIsSuffix
  <1>5. QED
    BY <1>1, <1>3, <1>4

LEMMA SubmitPreserves ==
  ASSUME QueueInv, NEW op \in Operations, Submit(op)
  PROVE  QueueInv'
  <1> DEFINE j == submitted + 1
  <1>1. /\ TypeOK /\ PendingIsSuffix /\ HistoryIsSuffix /\ KeepsTheNewest /\ StatusByNumber
        /\ FinishedByStatus /\ WorkerHoldsJob /\ SingleWriter /\ NoLostWakeup
    BY DEF QueueInv
  <1>2. /\ submitted \in Nat /\ j \in JobIds /\ j \in Nat
        /\ submitted' = j
        /\ AppendHistory(j)
        /\ pending' = Append(pending, j)
        /\ UNCHANGED <<signalled, at, holds, workerTask>>
    BY <1>1, JobIdsAreNaturals DEF Submit, TypeOK, JobIds
  <1>3. /\ job' \in [JobIds -> Job]
        /\ job'[j] = NewJob(op)
        /\ \A k \in JobIds : k # j => job'[k] = job[k]
    BY <1>1, <1>2 DEF Submit, TypeOK, NewJob, Job, Statuses, Results
  <1>4. /\ history' \in Seq(JobIds)
        /\ Len(history') = Smaller(j, MaxHistory)
        /\ \A i \in 1..Len(history') : history'[i] = j - Len(history') + i
        /\ registry' = {k \in 1..j : k + MaxHistory > j}
        /\ doneEvents' = registry'
    BY <1>1, <1>2, AppendHistoryFacts DEF Submit
  <1>5. /\ pending \in Seq(JobIds) /\ Len(pending) \in Nat
        /\ pending' \in Seq(JobIds)
        /\ Len(pending') = Len(pending) + 1
        /\ \A i \in 1..Len(pending) : pending'[i] = pending[i]
        /\ pending'[Len(pending) + 1] = j
    BY <1>1, <1>2, AppendFacts, LenProperties DEF TypeOK
  <1>6. TypeOK'
    <2>1. registry' \subseteq JobIds
      <3>1. \A k \in 1..j : k \in JobIds
        BY <1>2, JobIdsAreNaturals DEF JobIds
      <3>2. QED
        BY <1>4, <3>1
    <2>2. j \in 0..MaxJobs
      BY <1>2, JobIdsAreNaturals DEF JobIds
    <2>3. QED
      BY <1>1, <1>2, <1>3, <1>4, <1>5, <2>1, <2>2 DEF TypeOK
  <1>7. Taken' = Taken /\ Taken \in Nat
    BY <1>1, <1>2, <1>5 DEF Taken, PendingIsSuffix
  <1>8. PendingIsSuffix'
    <2>1. Len(pending') <= submitted'
      BY <1>1, <1>2, <1>5 DEF PendingIsSuffix
    <2>2. \A i \in 1..Len(pending') : pending'[i] = Taken + i
      <3>1. TAKE i \in 1..Len(pending')
      <3>2. CASE i \in 1..Len(pending)
        BY <3>2, <1>1, <1>5 DEF PendingIsSuffix
      <3>3. CASE i = Len(pending) + 1
        BY <3>3, <1>2, <1>5 DEF Taken
      <3>4. QED
        BY <3>2, <3>3, <1>5
    <2>3. QED
      BY <2>1, <2>2, <1>7 DEF PendingIsSuffix
  <1>9. HistoryIsSuffix'
    BY <1>2, <1>4 DEF HistoryIsSuffix, Smaller
  <1>10. KeepsTheNewest'
    BY <1>2, <1>4 DEF KeepsTheNewest
  <1>11. StatusByNumber'
    <2> SUFFICES ASSUME NEW k \in JobIds
                 PROVE  /\ job'[k].status = "absent" <=> k > submitted'
                        /\ Taken' < k /\ k <= submitted' => job'[k].status = "queued"
                        /\ k <= Taken' /\ job'[k].status = "queued" => k \notin registry'
      BY DEF StatusByNumber
    <2>1. CASE k = j
      BY <2>1, <1>1, <1>2, <1>3, <1>5, <1>7 DEF NewJob, Taken
    <2>2. CASE k # j
      <3>1. job'[k] = job[k] /\ k \in Nat
        BY <1>3, <2>2, JobIdsAreNaturals
      <3>2. k \in registry' => k \in registry
        BY <1>1, <1>2, <1>4, <2>2, <3>1, QueueAssumption DEF KeepsTheNewest
      <3>3. QED
        BY <1>1, <1>2, <1>7, <2>2, <3>1, <3>2 DEF StatusByNumber
    <2>3. QED
      BY <2>1, <2>2
  <1>12. FinishedByStatus'
    BY <1>1, <1>2, <1>3 DEF FinishedByStatus, NewJob, Terminal
  <1>13. job[j].status = "absent"
    BY <1>1, <1>2 DEF StatusByNumber
  <1>14. /\ \A k \in JobIds : Executing(k)' <=> Executing(k)
         /\ \A t \in Tasks : Live(t)' <=> Live(t)
    BY <1>2, <1>3, <1>13 DEF Executing, NewJob, Live
  <1>15. WorkerHoldsJob'
    BY <1>1, <1>2, <1>14, JobIdsAreNaturals DEF WorkerHoldsJob, TypeOK
  <1>16. SingleWriter'
    BY <1>1, <1>2, <1>14 DEF SingleWriter
  <1>17. NoLostWakeup'
    <2>1. ~job'[j].finished
      BY <1>3 DEF NewJob
    <2>2. j \notin signalled
      BY <1>1, <1>2, <1>13 DEF NoLostWakeup, FinishedByStatus, Terminal
    <2>3. \A k \in doneEvents' : k = j \/ k \in doneEvents
      BY <1>1, <1>2, <1>4, QueueAssumption DEF KeepsTheNewest
    <2>4. \A k \in doneEvents' : job'[k].finished => k \in signalled'
      BY <1>1, <1>2, <1>3, <1>6, <2>1, <2>3 DEF NoLostWakeup, TypeOK
    <2>5. \A k \in signalled' : job'[k].finished
      BY <1>1, <1>2, <1>3, <2>2 DEF NoLostWakeup, TypeOK
    <2>6. QED
      BY <2>4, <2>5 DEF NoLostWakeup
  <1>18. QED
    BY <1>6, <1>8, <1>9, <1>10, <1>11, <1>12, <1>15, <1>16, <1>17 DEF QueueInv

(* start() and stop() only move a worker task.                             *)
LEMMA StartPreserves ==
  ASSUME QueueInv, NEW t \in Tasks, Start(t)
  PROVE  QueueInv'
  <1> USE DEF QueueInv
  <1>1. /\ at' = [at EXCEPT ![t] = "get"] /\ workerTask' = t /\ at[t] = "dead"
        /\ UNCHANGED <<submitted, job, registry, doneEvents, signalled, history, pending, holds>>
    BY DEF Start
  <1>2. \A u \in Tasks : at[u] = "dead"
    BY DEF Start, WorkerDone, SingleWriter, Live
  <1>3. TypeOK'
    BY <1>1 DEF TypeOK, TaskStates
  <1>4. /\ PendingIsSuffix' /\ HistoryIsSuffix' /\ KeepsTheNewest' /\ StatusByNumber'
        /\ FinishedByStatus' /\ NoLostWakeup'
    BY <1>1 DEF PendingIsSuffix, HistoryIsSuffix, KeepsTheNewest, StatusByNumber,
                FinishedByStatus, NoLostWakeup, Taken
  <1>5. at' \in [Tasks -> TaskStates] /\ at'[t] = "get" /\ \A u \in Tasks : u # t => at'[u] = "dead"
    BY <1>1, <1>2, <1>3 DEF TypeOK
  <1>6. \A u \in Tasks : holds[u] = 0
    BY <1>2 DEF WorkerHoldsJob
  <1>7. WorkerHoldsJob'
    BY <1>1, <1>5, <1>6 DEF WorkerHoldsJob, Live
  <1>8. \A j \in JobIds : ~Executing(j)
    BY <1>2 DEF SingleWriter, Live
  <1>9. SingleWriter'
    BY <1>1, <1>5, <1>8 DEF SingleWriter, Live, Executing
  <1>10. QED
    BY <1>3, <1>4, <1>7, <1>9

LEMMA StopPreserves ==
  ASSUME QueueInv, Stop
  PROVE  QueueInv'
  <1> USE DEF QueueInv
  <1>1. PICK t \in Tasks :
           /\ workerTask = t
           /\ at[t] \in {"get", "agent"}
           /\ at' = [at EXCEPT ![t] = "cancelled"]
           /\ UNCHANGED <<submitted, job, registry, doneEvents, signalled, history, pending,
                          holds, workerTask>>
    BY DEF Stop, TypeOK
  <1>2. TypeOK'
    BY <1>1 DEF TypeOK, TaskStates
  <1>3. /\ PendingIsSuffix' /\ HistoryIsSuffix' /\ KeepsTheNewest' /\ StatusByNumber'
        /\ FinishedByStatus' /\ NoLostWakeup'
    BY <1>1 DEF PendingIsSuffix, HistoryIsSuffix, KeepsTheNewest, StatusByNumber,
                FinishedByStatus, NoLostWakeup, Taken
  <1>4. /\ at'[t] = "cancelled" /\ \A u \in Tasks : u # t => at'[u] = at[u]
        /\ \A u \in Tasks : Live(u)' <=> Live(u)
    BY <1>1 DEF TypeOK, Live
  <1>5. WorkerHoldsJob'
    BY <1>1, <1>4 DEF WorkerHoldsJob, Executing
  <1>6. SingleWriter'
    BY <1>1, <1>4 DEF SingleWriter, Executing
  <1>7. QED
    BY <1>2, <1>3, <1>5, <1>6

(* The three ways a worker takes the head of _pending.                     *)
LEMMA SkipEvictedPreserves ==
  ASSUME QueueInv, NEW t \in Tasks, SkipEvicted(t)
  PROVE  QueueInv'
  <1> USE DEF QueueInv
  <1>1. /\ pending # << >> /\ Head(pending) \notin registry /\ pending' = Tail(pending)
        /\ UNCHANGED <<submitted, job, registry, doneEvents, signalled, history, at, holds,
                       workerTask>>
    BY DEF SkipEvicted
  <1>2. pending' \in Seq(JobIds) /\ Taken' = Taken + 1 /\ PendingIsSuffix'
    BY <1>1, TakeHead
  <1>3. Head(pending) = Taken + 1 /\ Taken \in Nat /\ Taken < submitted
    BY <1>1, HeadOfPending
  <1>4. TypeOK'
    BY <1>1, <1>2 DEF TypeOK
  <1>5. /\ HistoryIsSuffix' /\ KeepsTheNewest' /\ FinishedByStatus' /\ NoLostWakeup'
        /\ WorkerHoldsJob' /\ SingleWriter'
    BY <1>1 DEF HistoryIsSuffix, KeepsTheNewest, FinishedByStatus, NoLostWakeup,
                WorkerHoldsJob, SingleWriter, Live, Executing
  <1>6. StatusByNumber'
    BY <1>1, <1>2, <1>3, JobIdsAreNaturals DEF StatusByNumber
  <1>7. QED
    BY <1>2, <1>4, <1>5, <1>6

LEMMA BeginApplyPreserves ==
  ASSUME QueueInv, NEW t \in Tasks, BeginApply(t)
  PROVE  QueueInv'
  <1> USE DEF QueueInv
  <1>0. PICK j : j = Head(pending)
    OBVIOUS
  <1>1. /\ at[t] = "get" /\ pending # << >> /\ j \in registry /\ pending' = Tail(pending)
        /\ at' = [at EXCEPT ![t] = "agent"] /\ holds' = [holds EXCEPT ![t] = j]
        /\ UNCHANGED <<submitted, registry, doneEvents, signalled, history, workerTask>>
    BY <1>0 DEF BeginApply
  <1>2. pending' \in Seq(JobIds) /\ Taken' = Taken + 1 /\ PendingIsSuffix'
    BY <1>1, TakeHead
  <1>3. j = Taken + 1 /\ Taken \in Nat /\ Taken < submitted /\ j \in JobIds /\ submitted \in Nat
    BY <1>0, <1>1, HeadOfPending, JobIdsAreNaturals DEF TypeOK
  <1>4. job[j].status = "queued" /\ ~job[j].finished
    BY <1>3, JobIdsAreNaturals DEF StatusByNumber, FinishedByStatus, Terminal
  <1>5. /\ job' \in [JobIds -> Job]
        /\ job'[j].status = "running" /\ ~job'[j].finished
        /\ \A k \in JobIds : k # j => job'[k] = job[k]
    BY <1>0, <1>3, <1>4 DEF BeginApply, TypeOK, Job, Statuses
  <1>6. /\ at' \in [Tasks -> TaskStates] /\ holds' \in [Tasks -> JobIds \cup {0}]
        /\ at'[t] = "agent" /\ holds'[t] = j
        /\ \A u \in Tasks : u # t => at'[u] = at[u] /\ holds'[u] = holds[u]
    BY <1>1, <1>3 DEF TypeOK, TaskStates
  <1>7. TypeOK'
    BY <1>1, <1>2, <1>5, <1>6 DEF TypeOK
  <1>8. HistoryIsSuffix' /\ KeepsTheNewest'
    BY <1>1 DEF HistoryIsSuffix, KeepsTheNewest
  <1>9. StatusByNumber'
    <2> SUFFICES ASSUME NEW k \in JobIds
                 PROVE  /\ job'[k].status = "absent" <=> k > submitted'
                        /\ Taken' < k /\ k <= submitted' => job'[k].status = "queued"
                        /\ k <= Taken' /\ job'[k].status = "queued" => k \notin registry'
      BY DEF StatusByNumber
    <2>1. CASE k = j
      BY <2>1, <1>1, <1>2, <1>3, <1>5
    <2>2. CASE k # j
      BY <2>2, <1>1, <1>2, <1>3, <1>5, JobIdsAreNaturals DEF StatusByNumber
    <2>3. QED
      BY <2>1, <2>2
  <1>10. FinishedByStatus'
    BY <1>3, <1>5 DEF FinishedByStatus, Terminal
  <1>11. /\ Executing(j)' /\ ~Executing(j)
         /\ \A k \in JobIds : k # j => (Executing(k)' <=> Executing(k))
         /\ \A u \in Tasks : Live(u)' <=> Live(u)
    <2>1. Executing(j)' /\ ~Executing(j)
      BY <1>1, <1>3, <1>4, <1>5 DEF Executing
    <2>2. \A k \in JobIds : k # j => (Executing(k)' <=> Executing(k))
      BY <1>5 DEF Executing
    <2>3. \A u \in Tasks : Live(u)' <=> Live(u)
      BY <1>1, <1>6 DEF Live
    <2>4. QED
      BY <2>1, <2>2, <2>3
  <1>12. WorkerHoldsJob'
    <2>1. workerTask' \in Tasks => Live(workerTask)'
      BY <1>1, <1>11 DEF WorkerHoldsJob
    <2>2. ASSUME NEW u \in Tasks
          PROVE  /\ at'[u] \in {"dead", "get"} => holds'[u] = 0
                 /\ at'[u] = "agent" => holds'[u] # 0
                 /\ holds'[u] # 0 => Executing(holds[u])'
      <3>1. CASE u = t
        BY <3>1, <1>3, <1>5, <1>6, JobIdsAreNaturals DEF Executing
      <3>2. CASE u # t
        <4>1. at'[u] = at[u] /\ holds'[u] = holds[u] /\ holds[u] \in JobIds \cup {0}
          BY <3>2, <1>6 DEF TypeOK
        <4>2. holds[u] # 0 => Executing(holds[u])
          BY DEF WorkerHoldsJob
        <4>3. holds[u] # j
          BY <4>2, <1>3, <1>11, JobIdsAreNaturals
        <4>4. holds'[u] # 0 => Executing(holds[u])'
          BY <4>1, <4>2, <4>3, <1>5 DEF Executing
        <4>5. QED
          BY <4>1, <4>4 DEF WorkerHoldsJob
      <3>3. QED
        BY <3>1, <3>2
    <2>3. QED
      BY <2>1, <2>2 DEF WorkerHoldsJob
  <1>13. holds[t] = 0 /\ Live(t)
    BY <1>1 DEF WorkerHoldsJob, Live
  <1>14. SingleWriter'
    <2>1. \A u \in Tasks : Live(u)' => workerTask' = u
      BY <1>1, <1>11 DEF SingleWriter
    <2>2. ASSUME NEW k \in JobIds, Executing(k)'
          PROVE  \E u \in Tasks : Live(u)' /\ holds'[u] = k
      <3>1. CASE k = j
        BY <3>1, <1>6, <1>11, <1>13
      <3>2. CASE k # j
        <4>1. PICK u \in Tasks : Live(u) /\ holds[u] = k
          BY <2>2, <3>2, <1>11 DEF SingleWriter
        <4>2. u # t
          BY <4>1, <1>13, JobIdsAreNaturals
        <4>3. QED
          BY <4>1, <4>2, <1>6, <1>11
      <3>3. QED
        BY <3>1, <3>2
    <2>3. QED
      BY <2>1, <2>2 DEF SingleWriter
  <1>15. NoLostWakeup'
    BY <1>1, <1>3, <1>4, <1>5, <1>7 DEF NoLostWakeup, TypeOK
  <1>16. QED
    BY <1>2, <1>7, <1>8, <1>9, <1>10, <1>12, <1>14, <1>15

(* A completed job is in a terminal state.                                 *)
LEMMA CompletedFacts ==
  ASSUME TypeOK, NEW j \in JobIds, NEW outcome \in Outcomes
  PROVE  /\ Completed(j, outcome) \in Job
         /\ Completed(j, outcome).status \in Terminal
         /\ Completed(j, outcome).finished
  BY DEF TypeOK, Completed, Job, Statuses, Results, Outcomes, Terminal

LEMMA RunUndoPreserves ==
  ASSUME QueueInv, NEW t \in Tasks, NEW outcome \in Outcomes, RunUndo(t, outcome)
  PROVE  QueueInv'
  <1> USE DEF QueueInv
  <1>0. PICK j : j = Head(pending)
    OBVIOUS
  <1>1. /\ at[t] = "get" /\ pending # << >> /\ j \in registry /\ pending' = Tail(pending)
        /\ signalled' = signalled \cup ({j} \cap doneEvents)
        /\ UNCHANGED <<submitted, registry, doneEvents, history, at, holds, workerTask>>
    BY <1>0 DEF RunUndo, SetDoneEvent
  <1>2. pending' \in Seq(JobIds) /\ Taken' = Taken + 1 /\ PendingIsSuffix'
    BY <1>1, TakeHead
  <1>3. j = Taken + 1 /\ Taken \in Nat /\ Taken < submitted /\ j \in JobIds /\ submitted \in Nat
    BY <1>0, <1>1, HeadOfPending, JobIdsAreNaturals DEF TypeOK
  <1>4. job[j].status = "queued" /\ ~job[j].finished
    BY <1>3, JobIdsAreNaturals DEF StatusByNumber, FinishedByStatus, Terminal
  <1>5. /\ job' \in [JobIds -> Job]
        /\ job'[j].status \in Terminal /\ job'[j].finished
        /\ \A k \in JobIds : k # j => job'[k] = job[k]
    <2>1. job' = [job EXCEPT ![j] = Completed(j, outcome)]
      BY <1>0 DEF RunUndo
    <2>2. QED
      BY <2>1, <1>3, CompletedFacts DEF TypeOK
  <1>6. TypeOK'
    BY <1>1, <1>2, <1>3, <1>5 DEF TypeOK
  <1>7. HistoryIsSuffix' /\ KeepsTheNewest'
    BY <1>1 DEF HistoryIsSuffix, KeepsTheNewest
  <1>8. StatusByNumber'
    <2> SUFFICES ASSUME NEW k \in JobIds
                 PROVE  /\ job'[k].status = "absent" <=> k > submitted'
                        /\ Taken' < k /\ k <= submitted' => job'[k].status = "queued"
                        /\ k <= Taken' /\ job'[k].status = "queued" => k \notin registry'
      BY DEF StatusByNumber
    <2>1. CASE k = j
      BY <2>1, <1>1, <1>2, <1>3, <1>5 DEF Terminal
    <2>2. CASE k # j
      BY <2>2, <1>1, <1>2, <1>3, <1>5, JobIdsAreNaturals DEF StatusByNumber
    <2>3. QED
      BY <2>1, <2>2
  <1>9. FinishedByStatus'
    BY <1>3, <1>5 DEF FinishedByStatus
  <1>10. \A k \in JobIds : Executing(k)' <=> Executing(k)
    <2>1. ~Executing(j) /\ ~(job'[j].status = "running" /\ ~job'[j].finished)
      BY <1>4, <1>5 DEF Executing
    <2>2. QED
      BY <1>5, <2>1 DEF Executing
  <1>11. WorkerHoldsJob'
    BY <1>1, <1>10 DEF WorkerHoldsJob, Live, TypeOK
  <1>12. SingleWriter'
    BY <1>1, <1>10 DEF SingleWriter, Live
  <1>13. NoLostWakeup'
    BY <1>1, <1>3, <1>5, <1>6 DEF NoLostWakeup, TypeOK
  <1>14. QED
    BY <1>2, <1>6, <1>7, <1>8, <1>9, <1>11, <1>12, <1>13

(* What is common to AgentReturns and Unwind: the job a worker holds       *)
(* finishes, its event is set, and the worker holds nothing any more.      *)
LEMMA FinishHeld ==
  ASSUME QueueInv, NEW t \in Tasks, NEW j \in JobIds, holds[t] = j,
         SetDoneEvent(j),
         job' \in [JobIds -> Job],
         job'[j].finished,
         job'[j].status \in Terminal \cup {"running"},
         \A k \in JobIds : k # j => job'[k] = job[k],
         holds' = [holds EXCEPT ![t] = 0],
         UNCHANGED <<submitted, registry, doneEvents, history, pending>>
  PROVE  /\ signalled' \subseteq JobIds
         /\ PendingIsSuffix' /\ HistoryIsSuffix' /\ KeepsTheNewest'
         /\ StatusByNumber' /\ FinishedByStatus' /\ NoLostWakeup'
         /\ \A k \in JobIds : Executing(k)' <=> Executing(k) /\ k # j
         /\ \A u \in Tasks : u # t => holds[u] = 0
         /\ \A u \in Tasks : u # t => at[u] = "dead"
         /\ workerTask = t
         /\ \A u \in Tasks : holds'[u] = 0
  <1> USE DEF QueueInv
  <1>1. /\ signalled' = signalled \cup ({j} \cap doneEvents)
        /\ UNCHANGED <<submitted, registry, doneEvents, history, pending>>
    BY DEF SetDoneEvent
  <1>2. PendingIsSuffix' /\ HistoryIsSuffix' /\ KeepsTheNewest'
    BY <1>1 DEF PendingIsSuffix, HistoryIsSuffix, KeepsTheNewest, Taken
  <1>3. Executing(j) /\ Live(t)
    BY JobIdsAreNaturals DEF WorkerHoldsJob, Live
  <1>4. workerTask = t /\ \A u \in Tasks : u # t => at[u] = "dead"
    BY <1>3 DEF SingleWriter, Live
  <1>5. \A u \in Tasks : u # t => holds[u] = 0
    BY <1>4 DEF WorkerHoldsJob
  <1>6. StatusByNumber'
    <2>1. /\ job[j].status = "running"
          /\ ~(job[j].status = "absent") /\ ~(job[j].status = "queued")
          /\ ~(job'[j].status = "absent") /\ ~(job'[j].status = "queued")
      BY <1>3 DEF Executing, Terminal
    <2>2. QED
      BY <1>1, <2>1 DEF StatusByNumber, Taken
  <1>7. FinishedByStatus'
    BY DEF FinishedByStatus
  <1>8. signalled' \subseteq JobIds
    BY <1>1 DEF TypeOK
  <1>9. NoLostWakeup'
    BY <1>1, <1>8 DEF NoLostWakeup, TypeOK
  <1>10. \A k \in JobIds : Executing(k)' <=> Executing(k) /\ k # j
    BY DEF Executing
  <1>11. \A u \in Tasks : holds'[u] = 0
    BY <1>5 DEF TypeOK
  <1>12. QED
    BY <1>2, <1>4, <1>5, <1>6, <1>7, <1>8, <1>9, <1>10, <1>11

LEMMA AgentReturnsPreserves ==
  ASSUME QueueInv, NEW t \in Tasks, NEW outcome \in Outcomes, AgentReturns(t, outcome)
  PROVE  QueueInv'
  <1> USE DEF QueueInv
  <1>0. PICK j : j = holds[t]
    OBVIOUS
  <1>1. /\ at[t] = "agent" /\ at' = [at EXCEPT ![t] = "get"] /\ holds' = [holds EXCEPT ![t] = 0]
        /\ SetDoneEvent(j)
        /\ UNCHANGED <<submitted, registry, doneEvents, history, pending, workerTask>>
    BY <1>0 DEF AgentReturns
  <1>2. j \in JobIds /\ holds[t] = j
    BY <1>0, <1>1 DEF WorkerHoldsJob, TypeOK
  <1>3. /\ job' \in [JobIds -> Job]
        /\ job'[j].status \in Terminal /\ job'[j].finished
        /\ \A k \in JobIds : k # j => job'[k] = job[k]
    <2>1. job' = [job EXCEPT ![j] = Completed(j, outcome)]
      BY <1>0 DEF AgentReturns
    <2>2. QED
      BY <2>1, <1>2, CompletedFacts DEF TypeOK
  <1>4. /\ signalled' \subseteq JobIds
        /\ PendingIsSuffix' /\ HistoryIsSuffix' /\ KeepsTheNewest'
        /\ StatusByNumber' /\ FinishedByStatus' /\ NoLostWakeup'
        /\ \A k \in JobIds : Executing(k)' <=> Executing(k) /\ k # j
        /\ \A u \in Tasks : u # t => holds[u] = 0
        /\ \A u \in Tasks : u # t => at[u] = "dead"
        /\ workerTask = t
        /\ \A u \in Tasks : holds'[u] = 0
    BY <1>1, <1>2, <1>3, FinishHeld
  <1>5. at' \in [Tasks -> TaskStates] /\ at'[t] = "get" /\ \A u \in Tasks : u # t => at'[u] = "dead"
    BY <1>1, <1>4 DEF TypeOK, TaskStates
  <1>6. TypeOK'
    BY <1>1, <1>3, <1>4, <1>5 DEF TypeOK
  <1>7. WorkerHoldsJob'
    BY <1>1, <1>4, <1>5 DEF WorkerHoldsJob, Live
  <1>8. \A k \in JobIds : ~Executing(k)'
    <2>1. ASSUME NEW k \in JobIds, Executing(k)
          PROVE  k = j
      BY <2>1, <1>2, <1>4, JobIdsAreNaturals DEF SingleWriter
    <2>2. QED
      BY <1>4, <2>1
  <1>9. SingleWriter'
    BY <1>1, <1>4, <1>5, <1>8 DEF SingleWriter, Live
  <1>10. QED
    BY <1>4, <1>6, <1>7, <1>9

LEMMA UnwindPreserves ==
  ASSUME QueueInv, NEW t \in Tasks, Unwind(t)
  PROVE  QueueInv'
  <1> USE DEF QueueInv
  <1>1. /\ at[t] = "cancelled" /\ at' = [at EXCEPT ![t] = "dead"]
        /\ holds' = [holds EXCEPT ![t] = 0] /\ workerTask' = NoTask
        /\ UNCHANGED <<submitted, registry, doneEvents, history, pending>>
    BY DEF Unwind
  <1>2. workerTask = t /\ \A u \in Tasks : u # t => at[u] = "dead"
    BY <1>1 DEF SingleWriter, Live
  <1>3. at' \in [Tasks -> TaskStates] /\ \A u \in Tasks : at'[u] = "dead"
    BY <1>1, <1>2 DEF TypeOK, TaskStates
  <1>4. /\ job' \in [JobIds -> Job] /\ signalled' \subseteq JobIds
        /\ PendingIsSuffix' /\ HistoryIsSuffix' /\ KeepsTheNewest'
        /\ StatusByNumber' /\ FinishedByStatus' /\ NoLostWakeup'
        /\ \A u \in Tasks : holds'[u] = 0
        /\ \A k \in JobIds : ~Executing(k)'
    <2>1. CASE holds[t] = 0
      <3>1. UNCHANGED <<job, signalled>>
        BY <2>1 DEF Unwind
      <3>2. \A u \in Tasks : holds[u] = 0
        BY <1>2, <2>1 DEF WorkerHoldsJob
      <3>3. \A k \in JobIds : ~Executing(k)
        BY <3>2, JobIdsAreNaturals DEF SingleWriter
      <3>4. QED
        BY <1>1, <3>1, <3>2, <3>3 DEF TypeOK, PendingIsSuffix, HistoryIsSuffix, KeepsTheNewest,
             StatusByNumber, FinishedByStatus, NoLostWakeup, Taken, Executing
    <2>2. CASE holds[t] # 0
      <3>0. PICK j : j = holds[t]
        OBVIOUS
      <3>1. j \in JobIds /\ holds[t] = j /\ Executing(j)
        BY <2>2, <3>0 DEF TypeOK, WorkerHoldsJob
      <3>2. SetDoneEvent(j) /\ job' = [job EXCEPT ![j].finished = TRUE]
        BY <2>2, <3>0 DEF Unwind
      <3>3. /\ job' \in [JobIds -> Job]
            /\ job'[j].status = "running" /\ job'[j].finished
            /\ \A k \in JobIds : k # j => job'[k] = job[k]
        BY <3>1, <3>2 DEF TypeOK, Job, Executing
      <3>4. /\ signalled' \subseteq JobIds
            /\ PendingIsSuffix' /\ HistoryIsSuffix' /\ KeepsTheNewest'
            /\ StatusByNumber' /\ FinishedByStatus' /\ NoLostWakeup'
            /\ \A k \in JobIds : Executing(k)' <=> Executing(k) /\ k # j
            /\ \A u \in Tasks : u # t => holds[u] = 0
            /\ \A u \in Tasks : holds'[u] = 0
        BY <1>1, <3>1, <3>2, <3>3, FinishHeld
      <3>5. \A k \in JobIds : Executing(k) => k = j
        BY <3>1, <3>4, JobIdsAreNaturals DEF SingleWriter
      <3>6. QED
        BY <3>3, <3>4, <3>5
    <2>3. QED
      BY <2>1, <2>2
  <1>5. TypeOK'
    <2>1. holds' \in [Tasks -> JobIds \cup {0}]
      BY <1>1 DEF TypeOK
    <2>2. QED
      BY <1>1, <1>3, <1>4, <2>1 DEF TypeOK
  <1>6. WorkerHoldsJob'
    BY <1>1, <1>3, <1>4, QueueAssumption DEF WorkerHoldsJob
  <1>7. SingleWriter'
    BY <1>3, <1>4 DEF SingleWriter, Live
  <1>8. QED
    BY <1>4, <1>5, <1>6, <1>7

-----------------------------------------------------------------------------
(* The initial state and the induction.                                    *)

LEMMA InitEstablishes == Init => QueueInv
  <1> SUFFICES ASSUME Init PROVE QueueInv
    OBVIOUS
  <1> USE QueueAssumption DEF Init
  <1>1. TypeOK
    BY JobIdsAreNaturals DEF TypeOK, Job, Absent, Operations, Statuses, Results, TaskStates
  <1>2. Len(pending) = 0 /\ Len(history) = 0
    OBVIOUS
  <1>3. PendingIsSuffix
    BY <1>2 DEF PendingIsSuffix, Taken
  <1>4. HistoryIsSuffix
    BY <1>2 DEF HistoryIsSuffix, Smaller
  <1>5. KeepsTheNewest
    BY DEF KeepsTheNewest
  <1>6. StatusByNumber
    BY <1>2, JobIdsAreNaturals DEF StatusByNumber, Absent, Taken, JobIds
  <1>7. FinishedByStatus /\ NoLostWakeup
    BY DEF FinishedByStatus, NoLostWakeup, Absent, Terminal
  <1>8. WorkerHoldsJob /\ SingleWriter
    BY DEF WorkerHoldsJob, SingleWriter, Live, Executing, Absent
  <1>9. QED
    BY <1>1, <1>3, <1>4, <1>5, <1>6, <1>7, <1>8 DEF QueueInv

LEMMA NextPreserves == QueueInv /\ [Next]_queueVars => QueueInv'
  <1> SUFFICES ASSUME QueueInv, [Next]_queueVars PROVE QueueInv'
    OBVIOUS
  <1>1. ASSUME NEW op \in Operations, Submit(op) PROVE QueueInv'
    BY <1>1, SubmitPreserves
  <1>2. ASSUME NEW t \in Tasks, Start(t) PROVE QueueInv'
    BY <1>2, StartPreserves
  <1>3. ASSUME Stop PROVE QueueInv'
    BY <1>3, StopPreserves
  <1>4. ASSUME NEW t \in Tasks, SkipEvicted(t) PROVE QueueInv'
    BY <1>4, SkipEvictedPreserves
  <1>5. ASSUME NEW t \in Tasks, BeginApply(t) PROVE QueueInv'
    BY <1>5, BeginApplyPreserves
  <1>6. ASSUME NEW t \in Tasks, NEW outcome \in {"ok", "notOk"}, RunUndo(t, outcome)
        PROVE  QueueInv'
    <2>1. outcome \in Outcomes
      BY DEF Outcomes
    <2>2. QED
      BY <1>6, <2>1, RunUndoPreserves
  <1>7. ASSUME NEW t \in Tasks, NEW outcome \in Outcomes, AgentReturns(t, outcome)
        PROVE  QueueInv'
    BY <1>7, AgentReturnsPreserves
  <1>8. ASSUME NEW t \in Tasks, Unwind(t) PROVE QueueInv'
    BY <1>8, UnwindPreserves
  <1>9. ASSUME UNCHANGED queueVars PROVE QueueInv'
    BY <1>9 DEF queueVars, QueueInv, TypeOK, PendingIsSuffix, HistoryIsSuffix, KeepsTheNewest,
         StatusByNumber, FinishedByStatus, WorkerHoldsJob, SingleWriter, NoLostWakeup,
         Taken, Live, Executing
  <1>10. QED
    BY <1>1, <1>2, <1>3, <1>4, <1>5, <1>6, <1>7, <1>8, <1>9 DEF Next, Worker

(* The inductive invariant holds in every reachable state.                 *)
THEOREM QueueInvariant == Spec => []QueueInv
  BY InitEstablishes, NextPreserves, PTL DEF Spec

-----------------------------------------------------------------------------
(* Its consequences.                                                       *)

(* Every variable keeps its type.                                          *)
THEOREM TypeCorrect == Spec => []TypeOK
  <1>1. QueueInv => TypeOK
    BY DEF QueueInv
  <1>2. QED
    BY <1>1, QueueInvariant, PTL

(* At most one worker task is alive, whatever the order of start() and     *)
(* stop(), and only it executes jobs.                                      *)
THEOREM MutationsAreSerialized == Spec => []SingleWriter
  <1>1. QueueInv => SingleWriter
    BY DEF QueueInv
  <1>2. QED
    BY <1>1, QueueInvariant, PTL

(* _jobs and _done_events hold exactly the newest max_history jobs.        *)
THEOREM DictionariesFollowHistory == Spec => []KeepsTheNewest
  <1>1. QueueInv => KeepsTheNewest
    BY DEF QueueInv
  <1>2. QED
    BY <1>1, QueueInvariant, PTL

(* A finished job whose event can still be looked up has it set, and only  *)
(* finished jobs have.                                                     *)
THEOREM NoWakeupIsLost == Spec => []NoLostWakeup
  <1>1. QueueInv => NoLostWakeup
    BY DEF QueueInv
  <1>2. QED
    BY <1>1, QueueInvariant, PTL

(* A registered job is in _pending once while it waits and not at all      *)
(* afterwards.                                                             *)
THEOREM NoJobLostOrRepeated == Spec => []QueuedExactlyOnce
  <1>1. QueueInv => QueuedExactlyOnce
    <2> SUFFICES ASSUME QueueInv, NEW j \in registry
                 PROVE  Cardinality({i \in DOMAIN pending : pending[i] = j})
                            = IF job[j].status = "queued" THEN 1 ELSE 0
      BY DEF QueuedExactlyOnce
    <2> DEFINE n      == Len(pending)
               places == {i \in DOMAIN pending : pending[i] = j}
    <2>1. /\ n \in Nat /\ DOMAIN pending = 1..n /\ submitted \in Nat
          /\ n <= submitted /\ Taken = submitted - n
          /\ \A i \in 1..n : pending[i] = Taken + i
      BY LenProperties, JobIdsAreNaturals DEF QueueInv, TypeOK, PendingIsSuffix, Taken
    <2>2. j \in JobIds /\ j \in Nat /\ 1 <= j /\ j <= submitted
      BY JobIdsAreNaturals DEF QueueInv, TypeOK, KeepsTheNewest
    <2>3. CASE job[j].status = "queued"
      <3>1. Taken < j
        BY <2>1, <2>2, <2>3 DEF QueueInv, StatusByNumber
      <3>2. j - Taken \in 1..n /\ \A i \in 1..n : pending[i] = j <=> i = j - Taken
        <4>1. Taken \in Nat /\ j - Taken \in 1..n
          BY <2>1, <2>2, <3>1
        <4>2. \A i \in 1..n : Taken + i = j <=> i = j - Taken
          BY <2>1, <2>2, <4>1
        <4>3. QED
          BY <2>1, <4>1, <4>2
      <3>3. places = {j - Taken}
        BY <2>1, <3>2
      <3>4. QED
        BY <2>3, <3>3, FS_Singleton
    <2>4. CASE job[j].status # "queued"
      <3>1. j <= Taken
        BY <2>1, <2>2, <2>4 DEF QueueInv, StatusByNumber
      <3>2. places = {}
        BY <2>1, <2>2, <3>1
      <3>3. QED
        BY <2>4, <3>2, FS_EmptySet
    <2>5. QED
      BY <2>3, <2>4
  <1>2. QED
    BY <1>1, QueueInvariant, PTL

-----------------------------------------------------------------------------
(* Action properties.                                                      *)

(* What a step does to a job: it is submitted, it is taken from the head   *)
(* of _pending, it finishes in the hands of a worker, or it stays as it is.*)
LEMMA StepOfAJob ==
  ASSUME QueueInv, [Next]_queueVars, NEW j \in JobIds, job'[j] # job[j]
  PROVE  \/ j = submitted + 1
         \/ pending # << >> /\ j = Head(pending)
         \/ Executing(j)
  <1>1. ASSUME NEW op \in Operations, Submit(op)
        PROVE  j = submitted + 1
    BY <1>1 DEF Submit, QueueInv, TypeOK
  <1>2. ASSUME NEW t \in Tasks, BeginApply(t)
        PROVE  pending # << >> /\ j = Head(pending)
    BY <1>2 DEF BeginApply, QueueInv, TypeOK
  <1>3. ASSUME NEW t \in Tasks, NEW outcome, RunUndo(t, outcome)
        PROVE  pending # << >> /\ j = Head(pending)
    BY <1>3 DEF RunUndo, QueueInv, TypeOK
  <1>4. ASSUME NEW t \in Tasks, NEW outcome, AgentReturns(t, outcome)
        PROVE  Executing(j)
    <2>1. j = holds[t] /\ holds[t] # 0
      BY <1>4, JobIdsAreNaturals DEF AgentReturns, QueueInv, TypeOK
    <2>2. QED
      BY <2>1 DEF QueueInv, WorkerHoldsJob
  <1>5. ASSUME NEW t \in Tasks, Unwind(t)
        PROVE  Executing(j)
    <2>1. j = holds[t] /\ holds[t] # 0
      BY <1>5, JobIdsAreNaturals DEF Unwind, QueueInv, TypeOK
    <2>2. QED
      BY <2>1 DEF QueueInv, WorkerHoldsJob
  <1>6. QED
    BY <1>1, <1>2, <1>3, <1>4, <1>5
       DEF Next, Worker, Start, Stop, SkipEvicted, queueVars

(* Jobs start in the order of their submission.                            *)
THEOREM StartsAreInOrder == Spec => StartsInOrder
  <1> DEFINE InOrder == \A j, k \in JobIds :
                           /\ k < j
                           /\ job[j].status = "queued"
                           /\ job'[j].status # "queued"
                           => job[k].status # "queued" \/ k \notin registry
  <1>1. QueueInv /\ [Next]_queueVars => InOrder
    <2> SUFFICES ASSUME QueueInv, [Next]_queueVars, NEW j \in JobIds, NEW k \in JobIds,
                        k < j, job[j].status = "queued", job'[j].status # "queued",
                        job[k].status = "queued"
                 PROVE  k \notin registry
      OBVIOUS
    <2>1. job[j].status # "absent" /\ ~Executing(j)
      BY DEF Executing
    <2>2. submitted \in Nat /\ j <= submitted /\ j \in Nat /\ k \in Nat
      BY <2>1, JobIdsAreNaturals DEF QueueInv, StatusByNumber, TypeOK
    <2>3. pending # << >> /\ j = Head(pending)
      BY <2>1, <2>2, StepOfAJob
    <2>4. j = Taken + 1 /\ Taken \in Nat
      BY <2>3, HeadOfPending DEF QueueInv
    <2>5. k <= Taken
      BY <2>2, <2>4
    <2>6. QED
      BY <2>5 DEF QueueInv, StatusByNumber
  <1>2. QED
    BY <1>1, QueueInvariant, PTL DEF Spec, StartsInOrder

(* A step changes no job that has finished.                                *)
LEMMA FinishedStays ==
  ASSUME QueueInv, [Next]_queueVars, NEW j \in JobIds, job[j].finished
  PROVE  job'[j] = job[j]
  <1> SUFFICES ASSUME job'[j] # job[j] PROVE FALSE
    OBVIOUS
  <1>1. /\ job[j].status # "absent" /\ job[j].status # "queued" /\ ~Executing(j)
        /\ submitted \in Nat /\ j \in Nat
    BY JobIdsAreNaturals DEF QueueInv, FinishedByStatus, Terminal, Executing, TypeOK
  <1>2. j # submitted + 1
    BY <1>1 DEF QueueInv, StatusByNumber
  <1>3. pending # << >> /\ j = Head(pending)
    BY <1>1, <1>2, StepOfAJob
  <1>4. Taken < j /\ j <= submitted
    BY <1>1, <1>3, HeadOfPending DEF QueueInv
  <1>5. QED
    BY <1>1, <1>4 DEF QueueInv, StatusByNumber

(* A finished job never changes: nothing re-runs it, whatever the order of *)
(* cancellations and restarts (queue.py 90-116).                           *)
THEOREM FinishedJobsAreFinal == Spec => FinishedIsFinal
  <1> DEFINE Final == \A j \in JobIds : job[j].finished => job'[j] = job[j]
  <1>1. QueueInv /\ [Next]_queueVars => Final
    BY FinishedStays
  <1>2. QED
    BY <1>1, QueueInvariant, PTL DEF Spec, FinishedIsFinal

-----------------------------------------------------------------------------
(* Listing.  The last entries of the history are the newest submissions,   *)
(* all of them registered, so the listing skips none.                      *)

LEMMA NewestOfHistory ==
  ASSUME QueueInv, NEW limit \in Nat
  PROVE  LET capped == Larger(1, Smaller(limit, MaxHistory))
             first  == Larger(1, Len(history) - capped + 1)
             ids    == SubSeq(history, first, Len(history))
         IN  /\ ids \in Seq(JobIds) /\ Len(ids) = Smaller(submitted, capped)
             /\ \A i \in 1..Len(ids) : ids[i] = submitted - Len(ids) + i
  <1> DEFINE capped == Larger(1, Smaller(limit, MaxHistory))
             H      == Len(history)
             first  == Larger(1, H - capped + 1)
             ids    == SubSeq(history, first, H)
  <1>1. /\ history \in Seq(JobIds) /\ H \in Nat /\ H = Smaller(submitted, MaxHistory)
        /\ submitted \in Nat /\ MaxHistory \in Nat /\ MaxHistory >= 1
        /\ \A i \in 1..H : history[i] = submitted - H + i
    BY JobIdsAreNaturals, QueueAssumption DEF QueueInv, TypeOK, HistoryIsSuffix
  <1>2. capped \in Nat /\ capped >= 1 /\ capped <= MaxHistory
    BY <1>1 DEF Larger, Smaller
  <1>3. first \in Nat /\ first >= 1 /\ first <= H + 1
        /\ H - first + 1 = Smaller(submitted, capped)
    BY <1>1, <1>2 DEF Larger, Smaller
  <1> HIDE DEF capped, first
  <1>4. /\ ids \in Seq(JobIds) /\ Len(ids) = H - first + 1
        /\ \A i \in 1..(H - first + 1) : ids[i] = history[first + i - 1]
    BY <1>1, <1>3, SubSeqProperties
  <1>5. ASSUME NEW i \in 1..Len(ids)
        PROVE  ids[i] = submitted - Len(ids) + i
    <2>1. first + i - 1 \in 1..H /\ ids[i] = history[first + i - 1]
      BY <1>1, <1>3, <1>4
    <2>2. QED
      BY <1>1, <1>3, <1>4, <2>1
  <1>6. QED
    BY <1>3, <1>4, <1>5 DEF capped, first

(* Whatever rotates while jobs run, the listing shows the newest           *)
(* submissions, newest first, within the limits (queue.py 51-54).          *)
THEOREM ListingIsNewestFirst == Spec => []ListsNewestFirst
  <1>1. ASSUME QueueInv, NEW limit \in 0..MaxHistory + 1
        PROVE  LET shown == Smaller(submitted, Larger(1, Smaller(limit, MaxHistory)))
               IN  ListRecent(limit) = [i \in 1..shown |-> submitted + 1 - i]
    <2> DEFINE capped == Larger(1, Smaller(limit, MaxHistory))
               shown  == Smaller(submitted, capped)
               ids    == SubSeq(history, Larger(1, Len(history) - capped + 1), Len(history))
               newest == [i \in 1..Len(ids) |-> ids[Len(ids) + 1 - i]]
               result == [i \in 1..shown |-> submitted + 1 - i]
    <2>1. /\ submitted \in Nat /\ MaxHistory \in Nat /\ MaxHistory >= 1 /\ limit \in Nat
          /\ registry = {j \in 1..submitted : j + MaxHistory > submitted}
      BY <1>1, JobIdsAreNaturals, QueueAssumption DEF QueueInv, TypeOK, KeepsTheNewest
    <2>2. /\ ids \in Seq(JobIds) /\ Len(ids) = shown
          /\ \A i \in 1..shown : ids[i] = submitted - shown + i
      BY <1>1, <2>1, NewestOfHistory
    <2>3. shown \in Nat /\ shown <= submitted /\ shown <= MaxHistory
      BY <2>1 DEF Larger, Smaller
    <2> HIDE DEF ids, shown
    <2>4. newest = result
      <3>1. \A i \in 1..shown : shown + 1 - i \in 1..shown
        BY <2>3
      <3>2. \A i \in 1..shown : ids[shown + 1 - i] = submitted + 1 - i
        BY <2>1, <2>2, <2>3, <3>1
      <3>3. QED
        BY <2>2, <3>2
    <2>5. result \in Seq(Nat) /\ DOMAIN result = 1..shown
      BY <2>1, <2>3
    <2>6. \A i \in 1..shown : result[i] \in registry
      BY <2>1, <2>3
    <2>7. {i \in DOMAIN newest : newest[i] \in registry} = DOMAIN result
      BY <2>4, <2>5, <2>6
    <2>8. ItemsAt(result, DOMAIN result) = result
      BY <2>5, ItemsAtAll
    <2>9. ListRecent(limit) = ItemsAt(newest, {i \in DOMAIN newest : newest[i] \in registry})
      BY DEF ListRecent, ids
    <2>10. QED
      BY <2>4, <2>7, <2>8, <2>9 DEF shown
  <1>2. QueueInv => ListsNewestFirst
    BY <1>1 DEF ListsNewestFirst
  <1>3. QED
    BY <1>2, QueueInvariant, PTL

-----------------------------------------------------------------------------
(* The job queue implements JobLifecycle: the steps of the queue map to    *)
(* steps of the lifecycle or leave it unchanged.                           *)

(* The refinement mapping, case by case.                                   *)

LEMMA PhaseFacts ==
  ASSUME NEW j \in JobIds
  PROVE  /\ phaseBar[j] = Phase(j)
         /\ Executing(j) => Phase(j) = "running"
         /\ job[j].status = "running" /\ job[j].finished => Phase(j) = "interrupted"
         /\ job[j].status = "queued" /\ j \notin registry => Phase(j) = "dropped"
         /\ job[j].status = "queued" /\ j \in registry => Phase(j) = "queued"
         /\ job[j].status \notin {"running", "queued"} => Phase(j) = job[j].status
  BY DEF phaseBar, Phase, Executing

LEMMA PhaseMeaning ==
  ASSUME TypeOK, NEW j \in JobIds
  PROVE  /\ Phase(j) = "running" <=> Executing(j)
         /\ Phase(j) = "queued" <=> job[j].status = "queued" /\ j \in registry
  <1>1. job[j].status \in Statuses /\ job[j].finished \in BOOLEAN
    BY DEF TypeOK, Job
  <1>2. CASE job[j].status = "running" /\ ~job[j].finished
    BY <1>2, PhaseFacts DEF Executing
  <1>3. CASE job[j].status = "running" /\ job[j].finished
    BY <1>3, PhaseFacts DEF Executing
  <1>4. CASE job[j].status = "queued" /\ j \in registry
    BY <1>4, PhaseFacts DEF Executing
  <1>5. CASE job[j].status = "queued" /\ j \notin registry
    BY <1>5, PhaseFacts DEF Executing
  <1>6. CASE job[j].status \notin {"running", "queued"}
    BY <1>6, PhaseFacts DEF Executing
  <1>7. QED
    BY <1>1, <1>2, <1>3, <1>4, <1>5, <1>6

(* A step that leaves a job and its registration alone leaves its phase.   *)
LEMMA SamePhase ==
  ASSUME NEW j \in JobIds, job'[j] = job[j], j \in registry' <=> j \in registry
  PROVE  Phase(j)' = Phase(j)
  BY DEF Phase

(* When the worker awaits _pending.get(), nothing runs and the head of     *)
(* _pending, if it is registered, is the oldest waiting job.               *)
LEMMA HeadIsOldest ==
  ASSUME QueueInv, NEW t \in Tasks, at[t] = "get",
         pending # << >>, NEW j, j = Head(pending), j \in registry
  PROVE  /\ j \in JobIds
         /\ Lifecycle!Idle
         /\ Lifecycle!Oldest(j)
  <1> USE DEF QueueInv
  <1>1. j = Taken + 1 /\ Taken \in Nat /\ Taken < submitted /\ j \in JobIds /\ submitted \in Nat
    BY HeadOfPending, JobIdsAreNaturals DEF TypeOK
  <1>2. job[j].status = "queued"
    BY <1>1 DEF StatusByNumber
  <1>3. holds[t] = 0 /\ \A u \in Tasks : Live(u) => u = t
    BY DEF WorkerHoldsJob, SingleWriter, Live
  <1>4. \A k \in JobIds : ~Executing(k)
    BY <1>3, JobIdsAreNaturals DEF SingleWriter
  <1>5. \A k \in 1..MaxJobs : phaseBar[k] # "running"
    BY <1>4, PhaseMeaning, PhaseFacts DEF JobIds
  <1>6. phaseBar[j] = "queued"
    BY <1>1, <1>2, PhaseFacts
  <1>7. ASSUME NEW k \in 1..MaxJobs, phaseBar[k] = "queued"
        PROVE  j <= k
    <2>1. k \in JobIds /\ k \in Nat /\ job[k].status = "queued" /\ k \in registry
      BY <1>7, PhaseMeaning, PhaseFacts, JobIdsAreNaturals DEF JobIds
    <2>2. ~(k <= Taken)
      BY <2>1 DEF StatusByNumber
    <2>3. QED
      BY <1>1, <2>1, <2>2
  <1>8. QED
    BY <1>1, <1>5, <1>6, <1>7 DEF Lifecycle!Idle, Lifecycle!Oldest

(* A step that changes one job changes one phase.                          *)
LEMMA OnePhaseChanges ==
  ASSUME NEW j \in JobIds, NEW how, Phase(j)' = how, registry' = registry,
         \A k \in JobIds : k # j => job'[k] = job[k]
  PROVE  phaseBar' = [phaseBar EXCEPT ![j] = how]
  <1>1. \A k \in JobIds : k # j => Phase(k)' = Phase(k)
    BY SamePhase
  <1>2. QED
    BY <1>1 DEF phaseBar

-----------------------------------------------------------------------------
(* The initial state and the steps.                                        *)

LEMMA InitRefines == Init => Lifecycle!Init
  BY DEF Init, Lifecycle!Init, phaseBar, Phase, Absent, JobIds

LEMMA SubmitRefines ==
  ASSUME QueueInv, NEW op \in Operations, Submit(op)
  PROVE  Lifecycle!Accept
  <1> USE DEF QueueInv
  <1>0. PICK j : j = submitted + 1
    OBVIOUS
  <1>1. /\ submitted \in Nat /\ j \in JobIds /\ j \in Nat /\ submitted < MaxJobs
        /\ submitted' = j /\ AppendHistory(submitted + 1)
        /\ MaxHistory \in Nat \ {0}
    BY <1>0, JobIdsAreNaturals, QueueAssumption DEF Submit, TypeOK, JobIds
  <1>2. job'[j] = NewJob(op) /\ \A k \in JobIds : k # j => job'[k] = job[k]
    BY <1>0, <1>1 DEF Submit, TypeOK
  <1>3. registry' = {k \in 1..j : k + MaxHistory > j}
    BY <1>0, <1>1, AppendHistoryFacts
  <1>4. registry = {k \in 1..submitted : k + MaxHistory > submitted}
    BY DEF KeepsTheNewest
  <1>5. ASSUME NEW k \in JobIds
        PROVE  phaseBar'[k] = IF k = submitted + 1 THEN "queued"
                              ELSE IF k + MaxHistory = submitted + 1 /\ phaseBar[k] = "queued"
                                   THEN "dropped"
                              ELSE phaseBar[k]
    <2>1. phaseBar'[k] = Phase(k)' /\ phaseBar[k] = Phase(k) /\ k \in Nat
      BY JobIdsAreNaturals DEF phaseBar
    <2>2. CASE k = j
      <3>1. k \in registry' /\ job'[k].status = "queued"
        <4>1. j \in 1..j /\ j + MaxHistory > j
          BY <1>0, <1>1
        <4>2. QED
          BY <1>2, <1>3, <2>2, <4>1 DEF NewJob
      <3>2. Phase(k)' = "queued"
        BY <3>1 DEF Phase
      <3>3. QED
        BY <1>0, <2>1, <2>2, <3>2
    <2>3. CASE k # j /\ k + MaxHistory = j /\ phaseBar[k] = "queued"
      <3>1. job[k].status = "queued"
        BY <2>1, <2>3, PhaseMeaning
      <3>2. k \notin registry' /\ job'[k].status = "queued"
        BY <1>1, <1>2, <1>3, <2>1, <2>3, <3>1
      <3>3. Phase(k)' = "dropped"
        BY <3>2 DEF Phase
      <3>4. QED
        BY <1>0, <2>1, <2>3, <3>3
    <2>4. CASE k # j /\ k + MaxHistory = j /\ phaseBar[k] # "queued"
      <3>1. k \in registry /\ k \notin registry'
        BY <1>0, <1>1, <1>3, <1>4, <2>1, <2>4, JobIdsAreNaturals DEF JobIds
      <3>2. job'[k] = job[k] /\ job[k].status # "queued"
        BY <1>2, <2>1, <2>4, <3>1, PhaseMeaning
      <3>3. Phase(k)' = Phase(k)
        BY <3>2 DEF Phase
      <3>4. QED
        BY <1>0, <2>1, <2>4, <3>3
    <2>5. CASE k # j /\ k + MaxHistory # j
      <3>1. k \in registry' <=> k \in registry
        BY <1>0, <1>1, <1>3, <1>4, <2>1, <2>5
      <3>2. Phase(k)' = Phase(k)
        BY <1>2, <2>5, <3>1, SamePhase
      <3>3. QED
        BY <1>0, <2>1, <2>5, <3>2
    <2>6. QED
      BY <2>2, <2>3, <2>4, <2>5
  <1>6. phaseBar' = [k \in 1..MaxJobs |->
                        IF k = submitted + 1 THEN "queued"
                        ELSE IF k + MaxHistory = submitted + 1 /\ phaseBar[k] = "queued"
                             THEN "dropped"
                        ELSE phaseBar[k]]
    <2>1. phaseBar' = [k \in 1..MaxJobs |-> Phase(k)']
      BY DEF phaseBar, JobIds
    <2>2. \A k \in 1..MaxJobs : phaseBar'[k] = Phase(k)'
      BY <2>1
    <2>3. QED
      BY <1>5, <2>1, <2>2 DEF JobIds
  <1>7. QED
    BY <1>0, <1>1, <1>6 DEF Lifecycle!Accept

LEMMA BeginApplyRefines ==
  ASSUME QueueInv, NEW t \in Tasks, BeginApply(t)
  PROVE  \E j \in 1..MaxJobs : Lifecycle!Begin(j)
  <1>0. PICK j : j = Head(pending)
    OBVIOUS
  <1>1. /\ at[t] = "get" /\ pending # << >> /\ j \in registry
        /\ registry' = registry /\ submitted' = submitted
    BY <1>0 DEF BeginApply
  <1>2. j \in JobIds /\ Lifecycle!Idle /\ Lifecycle!Oldest(j)
    BY <1>0, <1>1, HeadIsOldest
  <1>3. /\ job'[j].status = "running" /\ job'[j].finished = job[j].finished
        /\ \A k \in JobIds : k # j => job'[k] = job[k]
    BY <1>0, <1>2 DEF BeginApply, QueueInv, TypeOK, Job
  <1>4. ~job[j].finished
    <2>1. job[j].status = "queued"
      BY <1>2, PhaseMeaning, PhaseFacts DEF Lifecycle!Oldest, QueueInv
    <2>2. QED
      BY <1>2, <2>1 DEF QueueInv, FinishedByStatus, Terminal
  <1>5. Phase(j)' = "running"
    BY <1>3, <1>4 DEF Phase
  <1>6. phaseBar' = [phaseBar EXCEPT ![j] = "running"]
    BY <1>1, <1>2, <1>3, <1>5, OnePhaseChanges
  <1>7. QED
    BY <1>1, <1>2, <1>6 DEF Lifecycle!Begin, JobIds

LEMMA RunUndoRefines ==
  ASSUME QueueInv, NEW t \in Tasks, NEW outcome \in {"ok", "notOk"}, RunUndo(t, outcome)
  PROVE  \E j \in 1..MaxJobs, how \in {"succeeded", "failed"} : Lifecycle!RunAtOnce(j, how)
  <1>0. PICK j : j = Head(pending)
    OBVIOUS
  <1>1. /\ at[t] = "get" /\ pending # << >> /\ j \in registry
        /\ registry' = registry /\ submitted' = submitted
    BY <1>0 DEF RunUndo
  <1>2. j \in JobIds /\ Lifecycle!Idle /\ Lifecycle!Oldest(j)
    BY <1>0, <1>1, HeadIsOldest
  <1>3. /\ job'[j] = Completed(j, outcome)
        /\ \A k \in JobIds : k # j => job'[k] = job[k]
    BY <1>0, <1>2 DEF RunUndo, QueueInv, TypeOK
  <1>4. PICK how \in {"succeeded", "failed"} : job'[j].status = how
    BY <1>2, <1>3, CompletedFacts DEF QueueInv, Outcomes, Terminal
  <1>5. Phase(j)' = how
    BY <1>4 DEF Phase
  <1>6. phaseBar' = [phaseBar EXCEPT ![j] = how]
    BY <1>1, <1>2, <1>3, <1>5, OnePhaseChanges
  <1>7. QED
    BY <1>1, <1>2, <1>6 DEF Lifecycle!RunAtOnce, JobIds

LEMMA AgentReturnsRefines ==
  ASSUME QueueInv, NEW t \in Tasks, NEW outcome \in Outcomes, AgentReturns(t, outcome)
  PROVE  \E j \in 1..MaxJobs, how \in {"succeeded", "failed"} : Lifecycle!End(j, how)
  <1>0. PICK j : j = holds[t]
    OBVIOUS
  <1>1. at[t] = "agent" /\ registry' = registry /\ submitted' = submitted
    BY DEF AgentReturns
  <1>2. j \in JobIds /\ Executing(j)
    BY <1>0, <1>1 DEF QueueInv, TypeOK, WorkerHoldsJob
  <1>3. /\ job'[j] = Completed(j, outcome)
        /\ \A k \in JobIds : k # j => job'[k] = job[k]
    BY <1>0, <1>2 DEF AgentReturns, QueueInv, TypeOK
  <1>4. PICK how \in {"succeeded", "failed"} : job'[j].status = how
    BY <1>2, <1>3, CompletedFacts DEF QueueInv, Terminal
  <1>5. Phase(j)' = how
    BY <1>4 DEF Phase
  <1>6. phaseBar' = [phaseBar EXCEPT ![j] = how] /\ phaseBar[j] = "running"
    BY <1>1, <1>2, <1>3, <1>5, OnePhaseChanges, PhaseFacts
  <1>7. QED
    BY <1>1, <1>2, <1>6 DEF Lifecycle!End, JobIds

LEMMA UnwindRefines ==
  ASSUME QueueInv, NEW t \in Tasks, Unwind(t)
  PROVE  \/ UNCHANGED <<submitted, phaseBar>>
         \/ \E j \in 1..MaxJobs : Lifecycle!End(j, "interrupted")
  <1>1. registry' = registry /\ submitted' = submitted
    BY DEF Unwind
  <1>2. CASE holds[t] = 0
    <2>1. job' = job
      BY <1>2 DEF Unwind
    <2>2. QED
      BY <1>1, <2>1 DEF phaseBar, Phase
  <1>3. CASE holds[t] # 0
    <2>0. PICK j : j = holds[t]
      OBVIOUS
    <2>1. j \in JobIds /\ Executing(j)
      BY <1>3, <2>0 DEF QueueInv, TypeOK, WorkerHoldsJob
    <2>2. /\ job'[j].status = "running" /\ job'[j].finished
          /\ \A k \in JobIds : k # j => job'[k] = job[k]
      BY <1>3, <2>0, <2>1 DEF Unwind, QueueInv, TypeOK, Job, Executing
    <2>3. Phase(j)' = "interrupted"
      BY <2>2 DEF Phase
    <2>4. phaseBar' = [phaseBar EXCEPT ![j] = "interrupted"] /\ phaseBar[j] = "running"
      BY <1>1, <2>1, <2>2, <2>3, OnePhaseChanges, PhaseFacts
    <2>5. QED
      BY <1>1, <2>1, <2>4 DEF Lifecycle!End, JobIds
  <1>4. QED
    BY <1>2, <1>3

LEMMA StepRefines == QueueInv /\ [Next]_queueVars => [Lifecycle!Next]_(Lifecycle!lifecycleVars)
  <1> SUFFICES ASSUME QueueInv, [Next]_queueVars
               PROVE  Lifecycle!Next \/ UNCHANGED <<submitted, phaseBar>>
    BY DEF Lifecycle!lifecycleVars
  <1>1. ASSUME NEW op \in Operations, Submit(op) PROVE Lifecycle!Next
    BY <1>1, SubmitRefines DEF Lifecycle!Next
  <1>2. ASSUME NEW t \in Tasks, Start(t) PROVE UNCHANGED <<submitted, phaseBar>>
    BY <1>2 DEF Start, phaseBar, Phase
  <1>3. ASSUME Stop PROVE UNCHANGED <<submitted, phaseBar>>
    BY <1>3 DEF Stop, phaseBar, Phase
  <1>4. ASSUME NEW t \in Tasks, SkipEvicted(t) PROVE UNCHANGED <<submitted, phaseBar>>
    BY <1>4 DEF SkipEvicted, phaseBar, Phase
  <1>5. ASSUME NEW t \in Tasks, BeginApply(t) PROVE Lifecycle!Next
    BY <1>5, BeginApplyRefines DEF Lifecycle!Next
  <1>6. ASSUME NEW t \in Tasks, NEW outcome \in {"ok", "notOk"}, RunUndo(t, outcome)
        PROVE  Lifecycle!Next
    BY <1>6, RunUndoRefines DEF Lifecycle!Next
  <1>7. ASSUME NEW t \in Tasks, NEW outcome \in Outcomes, AgentReturns(t, outcome)
        PROVE  Lifecycle!Next
    BY <1>7, AgentReturnsRefines DEF Lifecycle!Next
  <1>8. ASSUME NEW t \in Tasks, Unwind(t)
        PROVE  Lifecycle!Next \/ UNCHANGED <<submitted, phaseBar>>
    BY <1>8, UnwindRefines DEF Lifecycle!Next
  <1>9. CASE UNCHANGED queueVars
    BY <1>9 DEF queueVars, phaseBar, Phase
  <1>10. QED
    BY <1>1, <1>2, <1>3, <1>4, <1>5, <1>6, <1>7, <1>8, <1>9 DEF Next, Worker

(* The queue implements the abstract lifecycle: jobs start in order, one   *)
(* at a time, end at most once, and are dropped only by max_history newer  *)
(* submissions.                                                            *)
THEOREM QueueImplementsLifecycle == Spec => ImplementsLifecycle
  BY InitRefines, StepRefines, QueueInvariant, PTL
     DEF Spec, ImplementsLifecycle, Lifecycle!Spec

=============================================================================
