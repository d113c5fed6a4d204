---------------------------- MODULE JobLifecycle ----------------------------
(***************************************************************************)
(* What the job queue promises to its callers, without its data            *)
(* structures: jobs are accepted in order, started in the order they were  *)
(* accepted, one at a time, and end once.  A job that is still waiting     *)
(* when Retention newer ones have been accepted is dropped; a job that is  *)
(* running when the worker is cancelled is interrupted.                    *)
(***************************************************************************)
EXTENDS Naturals

CONSTANTS Retention,  \* newer jobs a waiting job survives
          Jobs        \* bound of the model: jobs that can be accepted

VARIABLES
    accepted,  \* number of jobs accepted
    phase      \* phase of each job

lifecycleVars == <<accepted, phase>>

Phases == {"absent", "queued", "running", "succeeded", "failed", "interrupted", "dropped"}

Settled == {"succeeded", "failed", "interrupted", "dropped"}

Init ==
    /\ accepted = 0
    /\ phase = [j \in 1..Jobs |-> "absent"]

(* Accepting a job drops the one that it pushes out of retention, unless   *)
(* that one has started.                                                   *)
Accept ==
    /\ accepted < Jobs
    /\ accepted' = accepted + 1
    /\ phase' = [j \in 1..Jobs |->
                    IF j = accepted + 1 THEN "queued"
                    ELSE IF j + Retention = accepted + 1 /\ phase[j] = "queued" THEN "dropped"
                    ELSE phase[j]]

Oldest(j) == phase[j] = "queued" /\ \A k \in 1..Jobs : phase[k] = "queued" => j <= k

Idle == \A j \in 1..Jobs : phase[j] # "running"

Begin(j) ==
    /\ Idle
    /\ Oldest(j)
    /\ phase' = [phase EXCEPT ![j] = "running"]
    /\ UNCHANGED accepted

End(j, how) ==
    /\ phase[j] = "running"
    /\ phase' = [phase EXCEPT ![j] = how]
    /\ UNCHANGED accepted

(* A job that runs without ever suspending.                                *)
RunAtOnce(j, how) ==
    /\ Idle
    /\ Oldest(j)
    /\ phase' = [phase EXCEPT ![j] = how]
    /\ UNCHANGED accepted

Next ==
    \/ Accept
    \/ \E j \in 1..Jobs :
          \/ Begin(j)
          \/ \E how \in {"succeeded", "failed", "interrupted"} : End(j, how)
          \/ \E how \in {"succeeded", "failed"} : RunAtOnce(j, how)

Spec == Init /\ [][Next]_lifecycleVars

=============================================================================
