---------------------------- MODULE RateLimiter ----------------------------
(***************************************************************************)
(* The sliding-window limiter of rate_limit.py, asked by the write routes  *)
(* of vault_routes.py through _enforce_rate_limit.  A key is a client and  *)
(* a route.  The routes run on the event loop, one at a time, so allow()   *)
(* is one step from its reading of the clock to its answer; a request that *)
(* fails afterwards has still used its event.                              *)
(*                                                                         *)
(* The clock is time.monotonic(), counted in steps of any size.            *)
(***************************************************************************)
EXTENDS Naturals, Sequences

CONSTANTS Keys,
          Limits,   \* values of max_events, deterministic_rate_limit
          Window,   \* window_seconds
          MaxTime   \* bound of the model: clock

ASSUME LimiterAssumption ==
    /\ Limits \subseteq Nat
    /\ Window \in Nat \ {0}
    /\ MaxTime \in Nat

VARIABLES
    maxEvents,  \* max_events of the limiter
    clock,
    bucket,     \* timestamps of each key, oldest first
    \* Kept for the properties only.
    answer,     \* the last answer to each key since the clock changed
    log         \* when the requests of each key were counted and allowed

vars == <<maxEvents, clock, bucket, answer, log>>

Times == 0..MaxTime

TypeOK ==
    /\ maxEvents \in Limits
    /\ clock \in Times
    /\ bucket \in [Keys -> Seq(Times)]
    /\ answer \in [Keys -> {"none", "allowed", "429"}]
    /\ log \in [Keys -> Seq(Times)]

Init ==
    /\ maxEvents \in Limits
    /\ clock = 0
    /\ bucket = [k \in Keys |-> << >>]
    /\ answer = [k \in Keys |-> "none"]
    /\ log = bucket

Tick ==
    /\ clock < MaxTime
    /\ clock' = clock + 1
    /\ answer' = [k \in Keys |-> "none"]
    /\ UNCHANGED <<maxEvents, bucket, log>>

Expired(t) == t + Window < clock

\* A mutant of Prunes.
PrunesOneMore(timestamps, n) ==
    /\ \A i \in 1..n : timestamps[i] + Window <= clock
    /\ n < Len(timestamps) => timestamps[n + 1] + Window > clock

(* The while loop stops after removing n timestamps from the front.        *)
Prunes(timestamps, n) ==
    /\ \A i \in 1..n : Expired(timestamps[i])
    /\ n < Len(timestamps) => ~Expired(timestamps[n + 1])

(* max_events <= 0 switches the limiter off.                               *)
AllowAll(k) ==
    /\ maxEvents = 0
    /\ answer' = [answer EXCEPT ![k] = "allowed"]
    /\ UNCHANGED <<maxEvents, clock, bucket, log>>

\* A mutant of Allow.
StoresDeadline(k) ==
    /\ maxEvents > 0
    /\ \E n \in 0..Len(bucket[k]) :
          /\ Prunes(bucket[k], n)
          /\ Len(bucket[k]) - n < maxEvents
          /\ bucket' = [bucket EXCEPT ![k] = Append(SubSeq(@, n + 1, Len(@)), clock + Window)]
    /\ answer' = [answer EXCEPT ![k] = "allowed"]
    /\ log' = [log EXCEPT ![k] = Append(@, clock)]
    /\ UNCHANGED <<maxEvents, clock>>

Allow(k) ==
    /\ maxEvents > 0
    /\ \E n \in 0..Len(bucket[k]) :
          /\ Prunes(bucket[k], n)
          /\ Len(bucket[k]) - n < maxEvents
          /\ bucket' = [bucket EXCEPT ![k] = Append(SubSeq(@, n + 1, Len(@)), clock)]
    /\ answer' = [answer EXCEPT ![k] = "allowed"]
    /\ log' = [log EXCEPT ![k] = Append(@, clock)]
    /\ UNCHANGED <<maxEvents, clock>>

\* A mutant of Refuse.
RefusesAndCounts(k) ==
    /\ maxEvents > 0
    /\ \E n \in 0..Len(bucket[k]) :
          /\ Prunes(bucket[k], n)
          /\ Len(bucket[k]) - n >= maxEvents
          /\ bucket' = [bucket EXCEPT ![k] = Append(SubSeq(@, n + 1, Len(@)), clock)]
    /\ answer' = [answer EXCEPT ![k] = "429"]
    /\ UNCHANGED <<maxEvents, clock, log>>

Refuse(k) ==
    /\ maxEvents > 0
    /\ \E n \in 0..Len(bucket[k]) :
          /\ Prunes(bucket[k], n)
          /\ Len(bucket[k]) - n >= maxEvents
          /\ bucket' = [bucket EXCEPT ![k] = SubSeq(@, n + 1, Len(@))]
    /\ answer' = [answer EXCEPT ![k] = "429"]
    /\ UNCHANGED <<maxEvents, clock, log>>

Next == Tick \/ \E k \in Keys : AllowAll(k) \/ Allow(k) \/ Refuse(k)

Spec == Init /\ [][Next]_vars

-----------------------------------------------------------------------------
(* Properties.                                                             *)

(* The limit holds in every window, not only in those that begin at a      *)
(* request: any max_events + 1 consecutive admissions of a key are more    *)
(* than window_seconds apart (rate_limit.py 27-39).                        *)
NeverMoreThanLimit ==
    maxEvents > 0 =>
        \A k \in Keys : \A i, j \in 1..Len(log[k]) :
            j = i + maxEvents => log[k][j] > log[k][i] + Window

(* A request is refused only when max_events requests of the same client   *)
(* to the same route were admitted in the window that ends now: refused    *)
(* requests do not count, and other keys do not (rate_limit.py 34-36).     *)
RefusesOnlyAtLimit ==
    [][ \A k \in Keys :
          answer[k] # "429" /\ answer'[k] = "429"
          => /\ Len(log[k]) >= maxEvents
             /\ log[k][Len(log[k]) - maxEvents + 1] + Window >= clock ]_vars

IsEnd(part, whole) ==
    /\ Len(part) <= Len(whole)
    /\ \A i \in 1..Len(part) : part[i] = whole[Len(whole) - Len(part) + i]

(* No bucket grows beyond max_events, and it holds the last admissions of  *)
(* its key, whatever was refused or expired in between (rate_limit.py      *)
(* 31-39).                                                                 *)
BucketIsBounded ==
    \A k \in Keys :
        /\ Len(bucket[k]) <= maxEvents
        /\ IsEnd(bucket[k], log[k])

=============================================================================
