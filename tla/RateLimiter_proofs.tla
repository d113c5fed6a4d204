------------------------ MODULE RateLimiter_proofs ------------------------
(***************************************************************************)
(* Proofs about RateLimiter for every set of keys, every limit and every   *)
(* window.  The limit in every window is not inductive by itself: it needs *)
(* that the bucket is the end of the log (BucketIsBounded) and that what   *)
(* the log holds before it has expired (DroppedExpired).                   *)
(***************************************************************************)
EXTENDS RateLimiter, TLAPS

(* Admissions that are no longer in the bucket have expired.               *)
DroppedExpired ==
    \A k \in Keys : \A i \in 1..(Len(log[k]) - Len(bucket[k])) : Expired(log[k][i])

LimiterInv == TypeOK /\ BucketIsBounded /\ DroppedExpired /\ NeverMoreThanLimit

(* What is left of a sequence whose first n elements are removed.          *)
LEMMA Remainder ==
    ASSUME NEW S, NEW s \in Seq(S), NEW n \in 0..Len(s)
    PROVE  /\ SubSeq(s, n + 1, Len(s)) \in Seq(S)
           /\ Len(SubSeq(s, n + 1, Len(s))) = Len(s) - n
           /\ \A i \in 1..(Len(s) - n) : SubSeq(s, n + 1, Len(s))[i] = s[n + i]
  OBVIOUS

LEMMA Appended ==
    ASSUME NEW S, NEW s \in Seq(S), NEW c \in S, NEW new, new = Append(s, c)
    PROVE  /\ new \in Seq(S) /\ Len(new) = Len(s) + 1
           /\ new[Len(s) + 1] = c
           /\ \A i \in 1..Len(s) : new[i] = s[i]
  OBVIOUS

LEMMA InitInv == Init => LimiterInv
  <1> SUFFICES ASSUME Init PROVE LimiterInv
    OBVIOUS
  <1> USE LimiterAssumption DEF Init
  <1>1. TypeOK
    BY DEF TypeOK, Times
  <1>2. \A k \in Keys : Len(bucket[k]) = 0 /\ Len(log[k]) = 0
    OBVIOUS
  <1>3. BucketIsBounded
    <2>1. maxEvents \in Nat
      OBVIOUS
    <2>2. ASSUME NEW k \in Keys PROVE Len(bucket[k]) <= maxEvents /\ IsEnd(bucket[k], log[k])
      <3>1. Len(bucket[k]) = 0 /\ Len(log[k]) = 0 /\ 1..0 = {}
        BY <1>2
      <3> QED
        BY <2>1, <3>1 DEF IsEnd
    <2> QED
      BY <2>2 DEF BucketIsBounded
  <1>4. DroppedExpired
    BY <1>2 DEF DroppedExpired
  <1>5. NeverMoreThanLimit
    BY <1>2 DEF NeverMoreThanLimit
  <1> QED
    BY <1>1, <1>3, <1>4, <1>5 DEF LimiterInv

(* A refusal shortens the bucket by expired timestamps; since the bucket   *)
(* is never longer than the limit, it removes nothing at all.              *)
LEMMA RefusalChangesNothing ==
    ASSUME LimiterInv, NEW k \in Keys, Refuse(k)
    PROVE  /\ maxEvents > 0
           /\ Len(bucket[k]) = maxEvents
           /\ ~Expired(bucket[k][1])
           /\ bucket' = bucket
  <1> USE LimiterAssumption
  <1>1. PICK n \in 0..Len(bucket[k]) :
          /\ Prunes(bucket[k], n)
          /\ Len(bucket[k]) - n >= maxEvents
          /\ bucket' = [bucket EXCEPT ![k] = SubSeq(@, n + 1, Len(@))]
    BY DEF Refuse
  <1>2. /\ bucket[k] \in Seq(Times) /\ maxEvents \in Nat /\ maxEvents > 0
        /\ Len(bucket[k]) <= maxEvents /\ Len(bucket[k]) \in Nat
    BY DEF LimiterInv, TypeOK, BucketIsBounded, Refuse
  <1>3. n = 0 /\ Len(bucket[k]) = maxEvents
    BY <1>1, <1>2
  <1>4. ~Expired(bucket[k][1])
    BY <1>1, <1>2, <1>3 DEF Prunes
  <1>5. SubSeq(bucket[k], n + 1, Len(bucket[k])) = bucket[k]
    BY <1>2, <1>3
  <1>6. bucket' = bucket
    BY <1>1, <1>5 DEF LimiterInv, TypeOK
  <1> QED
    BY <1>2, <1>3, <1>4, <1>6

(* An admission, seen from the log of its key.                             *)
LEMMA AdmissionKeepsInv ==
    ASSUME LimiterInv, NEW k \in Keys, Allow(k)
    PROVE  LimiterInv'
  <1> USE LimiterAssumption
  <1>1. PICK n \in Nat :
          /\ n \in 0..Len(bucket[k])
          /\ Prunes(bucket[k], n)
          /\ Len(bucket[k]) - n < maxEvents
          /\ bucket' = [bucket EXCEPT ![k] = Append(SubSeq(@, n + 1, Len(@)), clock)]
    <2>1. Len(bucket[k]) \in Nat
      BY DEF LimiterInv, TypeOK
    <2>2. PICK m \in 0..Len(bucket[k]) :
            /\ Prunes(bucket[k], m)
            /\ Len(bucket[k]) - m < maxEvents
            /\ bucket' = [bucket EXCEPT ![k] = Append(SubSeq(@, m + 1, Len(@)), clock)]
      BY DEF Allow
    <2>3. m \in Nat
      BY <2>1
    <2> QED
      BY <2>2, <2>3
  <1>2. /\ maxEvents \in Nat /\ maxEvents > 0 /\ maxEvents' = maxEvents
        /\ clock \in Times /\ clock \in Nat /\ clock' = clock
        /\ bucket \in [Keys -> Seq(Times)] /\ bucket[k] \in Seq(Times)
        /\ log \in [Keys -> Seq(Times)] /\ log[k] \in Seq(Times)
        /\ log' = [log EXCEPT ![k] = Append(@, clock)]
    BY DEF LimiterInv, TypeOK, Allow, Times
  <1>3. PICK held \in Nat, whole \in Nat : held = Len(bucket[k]) /\ whole = Len(log[k])
    BY <1>2
  <1>4. held <= whole /\ n <= held /\ held - n < maxEvents
    BY <1>1, <1>2, <1>3 DEF LimiterInv, BucketIsBounded, IsEnd
  <1>5. \A i \in 1..held : bucket[k][i] = log[k][whole - held + i]
    BY <1>3 DEF LimiterInv, BucketIsBounded, IsEnd
  <1>6. \A q \in Keys \ {k} : bucket'[q] = bucket[q] /\ log'[q] = log[q]
    BY <1>1, <1>2
  <1>7. /\ log'[k] \in Seq(Times)
        /\ Len(log'[k]) = whole + 1
        /\ log'[k][whole + 1] = clock
        /\ \A i \in 1..whole : log'[k][i] = log[k][i]
    <2>1. log'[k] = Append(log[k], clock)
      BY <1>2
    <2> QED
      BY <1>2, <1>3, <2>1, Appended
  <1>8. /\ bucket'[k] \in Seq(Times)
        /\ Len(bucket'[k]) = held - n + 1
        /\ bucket'[k][held - n + 1] = clock
        /\ \A i \in 1..(held - n) : bucket'[k][i] = bucket[k][n + i]
    <2>1. PICK rest : rest = SubSeq(bucket[k], n + 1, held)
      OBVIOUS
    <2>2. /\ rest \in Seq(Times) /\ Len(rest) = held - n
          /\ \A i \in 1..(held - n) : rest[i] = bucket[k][n + i]
      BY <1>1, <1>2, <1>3, <2>1, Remainder
    <2>3. bucket'[k] = Append(rest, clock)
      BY <1>1, <1>2, <1>3, <2>1
    <2> QED
      BY <1>2, <2>2, <2>3, Appended
  <1>9. TypeOK'
    <2>1. bucket' \in [Keys -> Seq(Times)] /\ log' \in [Keys -> Seq(Times)]
      BY <1>1, <1>2, <1>7, <1>8
    <2> QED
      BY <2>1 DEF LimiterInv, TypeOK, Allow
  <1>10. BucketIsBounded'
    <2>1. held - n + 1 <= maxEvents /\ held - n + 1 <= whole + 1
      BY <1>2, <1>4
    <2>2. \A i \in 1..(held - n + 1) :
             bucket'[k][i] = log'[k][whole + 1 - (held - n + 1) + i]
      <3> SUFFICES ASSUME NEW i \in 1..(held - n + 1)
                   PROVE  bucket'[k][i] = log'[k][whole + 1 - (held - n + 1) + i]
        OBVIOUS
      <3>1. CASE i = held - n + 1
        <4>1. whole + 1 - (held - n + 1) + i = whole + 1
          BY <1>4, <3>1
        <4> QED
          BY <1>7, <1>8, <3>1, <4>1
      <3>2. CASE i \in 1..(held - n)
        <4>1. PICK m : m = whole - held + (n + i)
          OBVIOUS
        <4>2. m = whole + 1 - (held - n + 1) + i /\ m \in 1..whole /\ n + i \in 1..held
          BY <1>4, <3>2, <4>1
        <4>3. /\ bucket'[k][i] = bucket[k][n + i]
              /\ bucket[k][n + i] = log[k][m]
              /\ log'[k][m] = log[k][m]
          BY <1>5, <1>7, <1>8, <3>2, <4>1, <4>2
        <4> QED
          BY <4>2, <4>3
      <3> QED
        BY <3>1, <3>2
    <2>3. Len(bucket'[k]) <= maxEvents' /\ IsEnd(bucket'[k], log'[k])
      <3>1. Len(bucket'[k]) = held - n + 1 /\ Len(log'[k]) = whole + 1
        BY <1>7, <1>8
      <3>2. ASSUME NEW i \in 1..Len(bucket'[k])
            PROVE  bucket'[k][i] = log'[k][Len(log'[k]) - Len(bucket'[k]) + i]
        <4>1. i \in 1..(held - n + 1)
          BY <3>1
        <4>2. bucket'[k][i] = log'[k][whole + 1 - (held - n + 1) + i]
          BY <2>2, <4>1
        <4> QED
          BY <3>1, <4>2
      <3>3. Len(bucket'[k]) <= maxEvents' /\ Len(bucket'[k]) <= Len(log'[k])
        BY <1>2, <2>1, <3>1
      <3> QED
        BY <3>2, <3>3 DEF IsEnd
    <2>4. ASSUME NEW q \in Keys, q # k
          PROVE  Len(bucket'[q]) <= maxEvents' /\ IsEnd(bucket'[q], log'[q])
      BY <1>2, <1>6, <2>4 DEF LimiterInv, BucketIsBounded
    <2>5. ASSUME NEW q \in Keys
          PROVE  Len(bucket'[q]) <= maxEvents' /\ IsEnd(bucket'[q], log'[q])
      BY <2>3, <2>4
    <2> QED
      BY <2>5 DEF BucketIsBounded, IsEnd
  (* What the window drops has expired, whether it was dropped before or now. *)
  <1>11. ASSUME NEW i \in 1..(whole - held + n)
         PROVE  i \in 1..whole /\ log[k][i] + Window < clock
    <2>1. i \in 1..whole
      BY <1>4
    <2>2. CASE i \in 1..(whole - held)
      BY <1>3, <2>1, <2>2 DEF LimiterInv, DroppedExpired, Expired
    <2>3. CASE i \notin 1..(whole - held)
      <3>1. PICK p : p = i - (whole - held)
        OBVIOUS
      <3>2. p \in 1..n /\ p \in 1..held /\ i = whole - held + p
        BY <1>4, <2>3, <3>1
      <3>3. bucket[k][p] = log[k][i]
        BY <1>5, <3>2
      <3>4. bucket[k][p] + Window < clock
        BY <1>1, <3>2 DEF Prunes, Expired
      <3> QED
        BY <2>1, <3>3, <3>4
    <2> QED
      BY <2>2, <2>3
  <1>12. DroppedExpired'
    <2>1. ASSUME NEW i \in 1..(Len(log'[k]) - Len(bucket'[k]))
          PROVE  log'[k][i] + Window < clock
      <3>1. i \in 1..(whole + 1 - (held - n + 1))
        BY <1>7, <1>8
      <3>2. i \in 1..(whole - held + n)
        BY <3>1
      <3> QED
        BY <1>7, <1>11, <3>2
    <2>2. ASSUME NEW q \in Keys, q # k, NEW i \in 1..(Len(log'[q]) - Len(bucket'[q]))
          PROVE  log'[q][i] + Window < clock
      BY <1>6, <2>2 DEF LimiterInv, DroppedExpired, Expired
    <2>3. ASSUME NEW q \in Keys, NEW i \in 1..(Len(log'[q]) - Len(bucket'[q]))
          PROVE  log'[q][i] + Window < clock'
      BY <1>2, <2>1, <2>2
    <2> QED
      BY <2>3 DEF DroppedExpired, Expired
  <1>13. NeverMoreThanLimit'
    <2>1. ASSUME NEW i \in 1..(whole + 1), NEW j \in 1..(whole + 1), j = i + maxEvents
          PROVE log'[k][j] > log'[k][i] + Window
      <3>1. i \in 1..whole
        BY <1>2, <2>1
      <3>2. CASE j \in 1..whole
        <4>1. log[k][j] > log[k][i] + Window
          BY <1>2, <1>3, <2>1, <3>1, <3>2 DEF LimiterInv, NeverMoreThanLimit
        <4> QED
          BY <1>7, <3>1, <3>2, <4>1
      <3>3. CASE j = whole + 1
        <4>1. i \in 1..(whole - held + n)
          BY <1>2, <1>4, <2>1, <3>1, <3>3
        <4>2. log[k][i] + Window < clock
          BY <1>11, <4>1
        <4>3. log'[k][j] = clock /\ log'[k][i] = log[k][i]
          BY <1>7, <3>1, <3>3
        <4>4. log[k][i] \in Nat
          BY <1>2, <1>3, <3>1 DEF Times
        <4> QED
          BY <1>2, <4>2, <4>3, <4>4
      <3> QED
        BY <3>2, <3>3
    <2>2. ASSUME NEW q \in Keys, q # k, NEW i \in 1..Len(log'[q]), NEW j \in 1..Len(log'[q]),
                 j = i + maxEvents
          PROVE log'[q][j] > log'[q][i] + Window
      BY <1>2, <1>6, <2>2 DEF LimiterInv, NeverMoreThanLimit
    <2>3. ASSUME NEW q \in Keys, NEW i \in 1..Len(log'[q]), NEW j \in 1..Len(log'[q]),
                 j = i + maxEvents
          PROVE log'[q][j] > log'[q][i] + Window
      BY <1>7, <2>1, <2>2, <2>3
    <2> QED
      BY <1>2, <2>3 DEF NeverMoreThanLimit
  <1> QED
    BY <1>9, <1>10, <1>12, <1>13 DEF LimiterInv

LEMMA NextKeepsInv == LimiterInv /\ [Next]_vars => LimiterInv'
  <1> SUFFICES ASSUME LimiterInv, [Next]_vars PROVE LimiterInv'
    OBVIOUS
  <1> USE LimiterAssumption
  <1>1. CASE Tick
    <2>1. /\ clock \in Nat /\ clock' = clock + 1 /\ clock' \in Times
          /\ maxEvents' = maxEvents /\ bucket' = bucket /\ log' = log
          /\ answer' = [k \in Keys |-> "none"]
      BY <1>1 DEF Tick, LimiterInv, TypeOK, Times
    <2>2. TypeOK'
      BY <2>1 DEF LimiterInv, TypeOK
    <2>3. BucketIsBounded' /\ NeverMoreThanLimit'
      BY <2>1 DEF LimiterInv, BucketIsBounded, NeverMoreThanLimit
    <2>4. \A k \in Keys : \A i \in 1..(Len(log[k]) - Len(bucket[k])) : log[k][i] \in Nat
      BY DEF LimiterInv, TypeOK, BucketIsBounded, IsEnd, Times
    <2>5. DroppedExpired'
      BY <2>1, <2>4 DEF LimiterInv, DroppedExpired, Expired
    <2> QED
      BY <2>2, <2>3, <2>5 DEF LimiterInv
  <1>2. ASSUME NEW k \in Keys, AllowAll(k) PROVE LimiterInv'
    BY <1>2 DEF AllowAll, LimiterInv, TypeOK, BucketIsBounded, DroppedExpired, Expired,
                NeverMoreThanLimit
  <1>3. ASSUME NEW k \in Keys, Allow(k) PROVE LimiterInv'
    BY <1>3, AdmissionKeepsInv
  <1>4. ASSUME NEW k \in Keys, Refuse(k) PROVE LimiterInv'
    <2>1. /\ bucket' = bucket /\ log' = log /\ clock' = clock /\ maxEvents' = maxEvents
          /\ answer' = [answer EXCEPT ![k] = "429"]
      BY <1>4, RefusalChangesNothing DEF Refuse
    <2> QED
      BY <2>1 DEF LimiterInv, TypeOK, BucketIsBounded, DroppedExpired, Expired,
                  NeverMoreThanLimit
  <1>5. CASE UNCHANGED vars
    BY <1>5 DEF vars, LimiterInv, TypeOK, BucketIsBounded, DroppedExpired, Expired,
                NeverMoreThanLimit
  <1> QED
    BY <1>1, <1>2, <1>3, <1>4, <1>5 DEF Next

LEMMA LimiterInvariant == Spec => []LimiterInv
  BY InitInv, NextKeepsInv, PTL DEF Spec

(* The limiter's state always has its types.                               *)
THEOREM TypeCorrect == Spec => []TypeOK
  <1>1. LimiterInv => TypeOK
    BY DEF LimiterInv
  <1> QED
    BY <1>1, LimiterInvariant, PTL

(* No client gets more than max_events requests to one route through in    *)
(* any window of window_seconds, wherever the window begins.               *)
THEOREM LimitHoldsInEveryWindow == Spec => []NeverMoreThanLimit
  <1>1. LimiterInv => NeverMoreThanLimit
    BY DEF LimiterInv
  <1> QED
    BY <1>1, LimiterInvariant, PTL

(* The memory a key takes is bounded by max_events.                        *)
THEOREM BucketsAreBounded == Spec => []BucketIsBounded
  <1>1. LimiterInv => BucketIsBounded
    BY DEF LimiterInv
  <1> QED
    BY <1>1, LimiterInvariant, PTL

(* A request is refused only at the limit, counted over its own key.       *)
THEOREM NoRefusalBelowLimit == Spec => RefusesOnlyAtLimit
  <1>1. ASSUME LimiterInv, [Next]_vars, NEW k \in Keys,
               answer[k] # "429", answer'[k] = "429"
        PROVE  /\ Len(log[k]) >= maxEvents
               /\ log[k][Len(log[k]) - maxEvents + 1] + Window >= clock
    <2>1. answer \in [Keys -> {"none", "allowed", "429"}]
      BY <1>1 DEF LimiterInv, TypeOK
    <2>2. Refuse(k)
      BY <1>1, <2>1 DEF Next, Tick, AllowAll, Allow, Refuse, vars
    <2>3. /\ maxEvents \in Nat /\ maxEvents > 0
          /\ Len(bucket[k]) = maxEvents /\ ~Expired(bucket[k][1])
          /\ bucket[k] \in Seq(Times) /\ log[k] \in Seq(Times)
      BY <1>1, <2>2, RefusalChangesNothing, LimiterAssumption DEF LimiterInv, TypeOK
    <2>4. IsEnd(bucket[k], log[k]) /\ Len(log[k]) \in Nat /\ 1 \in 1..maxEvents
      BY <1>1, <2>3 DEF LimiterInv, BucketIsBounded
    <2>5. /\ maxEvents <= Len(log[k])
          /\ bucket[k][1] = log[k][Len(log[k]) - maxEvents + 1]
      BY <2>3, <2>4 DEF IsEnd
    <2>6. bucket[k][1] \in Times
      BY <2>3, <2>4
    <2>7. bucket[k][1] \in Nat /\ clock \in Nat
      BY <1>1, <2>6 DEF LimiterInv, TypeOK, Times
    <2> QED
      BY <2>3, <2>5, <2>7, LimiterAssumption DEF Expired
  <1>2. LimiterInv /\ [Next]_vars
          => [\A k \in Keys :
                answer[k] # "429" /\ answer'[k] = "429"
                => /\ Len(log[k]) >= maxEvents
                   /\ log[k][Len(log[k]) - maxEvents + 1] + Window >= clock]_vars
    BY <1>1
  <1> QED
    BY <1>2, LimiterInvariant, PTL DEF Spec, RefusesOnlyAtLimit

=============================================================================
