-------------------------- MODULE RenewalClockProofs ------------------------
(***************************************************************************)
(* Proofs about the renewal clock, for every window, number of retries,    *)
(* lifetime and duration of a command.                                     *)
(***************************************************************************)
EXTENDS RenewalClock, TLAPS, WellFoundedInduction

-----------------------------------------------------------------------------
(***************************************************************************)
(* Powers of two.  Every set of natural numbers has a least element, so    *)
(* that what would fail first for n + 1 fails for no n.                    *)
(***************************************************************************)
LEMMA LeastNumber ==
    ASSUME NEW T, T \subseteq Nat, T # {}
    PROVE  \E n \in T : \A m \in T : n <= m
  <1> DEFINE R == OpToRel(<, Nat)
  <1>1. IsWellFoundedOn(R, Nat)
    BY NatLessThanWellFounded
  <1>2. \A m, n \in Nat : <<m, n>> \in R <=> m < n
    BY DEF OpToRel
  <1> HIDE DEF R
  <1>3. PICK n \in T : \A m \in T : ~(<<m, n>> \in R)
    BY <1>1, WFMin
  <1>4. ASSUME NEW m \in T PROVE n <= m
    <2>1. m \in Nat /\ n \in Nat
      OBVIOUS
    <2>2. ~(m < n)
      BY <1>2, <1>3, <2>1
    <2> QED BY <2>1, <2>2
  <1> QED BY <1>4

\* The back-offs are positive,
LEMMA PowersPositive == \A n \in 0 .. MaxRetries + 1 : 2 ^ n \in Nat \ {0}
  <1> USE ClockAssumption
  <1> DEFINE T == {n \in 0 .. MaxRetries + 1 : 2 ^ n \notin Nat \ {0}}
  <1>1. SUFFICES ASSUME T # {} PROVE FALSE
    OBVIOUS
  <1>0. T \subseteq Nat
    OBVIOUS
  <1>2. PICK n \in T : \A m \in T : n <= m
    <2> HIDE DEF T
    <2> QED BY <1>0, <1>1, LeastNumber
  <1>3. n # 0
    <2>1. 2 ^ 0 = 1
      OBVIOUS
    <2>2. 0 \notin T
      BY <2>1
    <2> QED BY <1>2, <2>2
  <1>4. n - 1 \in 0 .. MaxRetries /\ n - 1 \notin T
    BY <1>2, <1>3
  <1>5. 2 ^ (n - 1) \in Nat \ {0} /\ 2 ^ ((n - 1) + 1) = 2 * 2 ^ (n - 1)
    BY <1>4, PowerAssumption
  <1>6. (n - 1) + 1 = n
    BY <1>2
  <1>7. 2 ^ n \in Nat \ {0}
    BY <1>5, <1>6
  <1> QED BY <1>2, <1>7

\* and they grow.
LEMMA PowersGrow ==
    \A n \in 0 .. MaxRetries : \A m \in 0 .. n : 2 ^ m <= 2 ^ n
  <1> USE ClockAssumption
  <1> DEFINE T == {n \in 0 .. MaxRetries : \E m \in 0 .. n : ~(2 ^ m <= 2 ^ n)}
  <1>1. SUFFICES ASSUME T # {} PROVE FALSE
    OBVIOUS
  <1>0. T \subseteq Nat
    OBVIOUS
  <1>2. PICK n \in T : \A m \in T : n <= m
    <2> HIDE DEF T
    <2> QED BY <1>0, <1>1, LeastNumber
  <1>3. PICK m \in 0 .. n : ~(2 ^ m <= 2 ^ n)
    BY <1>2
  <1>4. 2 ^ n \in Nat \ {0} /\ 2 ^ m \in Nat \ {0}
    BY PowersPositive
  <1>5. m # n
    BY <1>3, <1>4
  <1>6. /\ n - 1 \in 0 .. MaxRetries /\ n - 1 \notin T /\ m \in 0 .. n - 1
        /\ (n - 1) + 1 = n
    BY <1>2, <1>5
  <1>7. 2 ^ m <= 2 ^ (n - 1) /\ 2 ^ (n - 1) \in Nat
    BY <1>6, PowersPositive
  <1>8. 2 ^ n = 2 * 2 ^ (n - 1)
    BY <1>6, PowerAssumption
  <1> QED BY <1>3, <1>4, <1>7, <1>8

-----------------------------------------------------------------------------

(***************************************************************************)
(* The constants as numbers, and what acme.sh's answers amount to.         *)
(***************************************************************************)
LEMMA Numbers ==
    /\ MaxRetries \in Nat /\ EarlyBy \in Nat /\ CommandTime \in Nat
    /\ DispatchTime \in Nat /\ MaxTime \in Nat
    /\ Window \in Nat \ {0} /\ Lifetime \in Nat \ {0}
    /\ EarlyBy <= Lifetime
  BY ClockAssumption, EarlyAssumption

\* The recorded expiry lies between the issuance and the true expiry.
LEMMA RecordedExpiry ==
    ASSUME NEW t \in Time, NEW a, NEW e,
           e = ExpiryFromOutput(a, t + Lifetime, t + Lifetime - EarlyBy)
    PROVE  /\ e \in 0 .. MaxTime + Lifetime
           /\ e <= t + Lifetime
           /\ t + Lifetime \in 0 .. MaxTime + Lifetime
  <1>1. e \in {t + Lifetime, t + Lifetime - EarlyBy}
    BY DEF ExpiryFromOutput
  <1>2. t \in Nat /\ t <= MaxTime
    BY Numbers DEF Time
  <1> QED BY <1>1, <1>2, Numbers

\* An error that is not transient is one that retrying cannot mend.
LEMMA ErrorClasses ==
    ASSUME NEW a
    PROVE  /\ Issuance(a) \in {"ok", "transient", "terminal"}
           /\ Issuance(a) = "terminal" => Harsh(a)
  BY DEF Issuance, classify_exit, Error, Harsh

\* A job is placed at a time that has not passed.
LEMMA RunTime ==
    ASSUME NEW e \in Int, now \in Nat
    PROVE  NextRenewalRunTime(e) \in Nat /\ now <= NextRenewalRunTime(e)
  BY Numbers DEF NextRenewalRunTime

\* What the type invariant says of the variables that are numbers.
LEMMA ClockNumbers ==
    ASSUME TypeOK
    PROVE  /\ now \in Nat /\ now \in Time /\ changed \in Nat
           /\ failures \in 0 .. MaxRetries + 1
           /\ renewAt \in Nat \union {None} /\ retryAt \in Nat \union {None}
           /\ since \in Nat \union {None}
           /\ cert.expiry \in Nat /\ cert.notAfter \in Nat
           /\ previous.expiry \in Nat /\ previous.notAfter \in Nat
           /\ \A t \in followers : t.expiry \in Nat /\ t.at \in Nat
  <1>1. cert \in Certificate /\ previous \in Certificate
    BY DEF TypeOK
  <1>2. \A t \in followers : t \in Follower
    BY DEF TypeOK
  <1> QED BY <1>1, <1>2, Numbers DEF TypeOK, Time, Certificate, Follower

(***************************************************************************)
(* Every step keeps the type invariant.                                    *)
(***************************************************************************)
LEMMA CommitTypes ==
    ASSUME TypeOK, NEW kind \in {"renewal", "selection"},
           NEW e \in 0 .. MaxTime + Lifetime, NEW by \in Origins,
           Committed(kind, e, by)
    PROVE  /\ followers' \subseteq Follower /\ changed' \in Time
           /\ crossed' \subseteq {"renewal", "selection", "lost"}
  <1>1. now \in Time /\ followers \subseteq Follower
    BY DEF TypeOK
  <1>2. [at |-> now, expiry |-> e, refreshed |-> kind = "renewal",
         origin |-> by] \in Follower
    BY <1>1 DEF Follower
  <1>3. followers' \subseteq Follower
    BY <1>1, <1>2 DEF Committed
  <1>4. crossed' \subseteq {"renewal", "selection", "lost"}
    BY DEF Committed, TypeOK
  <1> QED BY <1>1, <1>3, <1>4 DEF Committed

LEMMA ClockTypeStep ==
    ASSUME TypeOK, [Next]_vars
    PROVE  TypeOK'
  <1> USE Numbers, ClockNumbers DEF jobs, attempt, history
  <1>f. CountFailure => failures' \in 0 .. MaxRetries + 1
    BY DEF CountFailure
  <1>1. CASE Tick
    <2>1. now' \in Time
      BY <1>1 DEF Tick, Time
    <2> QED BY <1>1, <2>1 DEF TypeOK, Tick
  <1>2. CASE RenewJob \/ RetryJob \/ ManualRenewal
    <2>1. /\ status' \in {"valid", "renewing", "failed"}
          /\ since' \in Nat \union {None} /\ origin' \in Origins
          /\ renewAt' \in Nat \union {None} /\ retryAt' \in Nat \union {None}
      BY <1>2 DEF TypeOK, RenewJob, RetryJob, ManualRenewal, Begin, Origins
    <2>2. /\ up /\ up'
          /\ UNCHANGED <<now, cert, previous, followers, failures, changed,
                         crossed, harsh>>
      BY <1>2 DEF RenewJob, RetryJob, ManualRenewal
    <2> QED BY <2>1, <2>2 DEF TypeOK
  <1>3. ASSUME NEW a \in Answers, Renewed(a)
        PROVE  TypeOK'
    <2>1. PICK e : /\ e = ExpiryFromOutput(a, now + Lifetime,
                                           now + Lifetime - EarlyBy)
                   /\ cert' = [expiry |-> e, notAfter |-> now + Lifetime]
                   /\ Committed("renewal", e, origin)
      BY <1>3 DEF Renewed
    <2>2. /\ e \in 0 .. MaxTime + Lifetime
          /\ now + Lifetime \in 0 .. MaxTime + Lifetime
      BY <2>1, RecordedExpiry
    <2>3. origin \in Origins
      BY DEF TypeOK
    <2>4. cert' \in Certificate
      BY <2>1, <2>2 DEF Certificate
    <2>5. /\ followers' \subseteq Follower /\ changed' \in Time
          /\ crossed' \subseteq {"renewal", "selection", "lost"}
      BY <2>1, <2>2, <2>3, CommitTypes
    <2>6. up
      BY <1>3 DEF Renewed, TypeOK
    <2> QED BY <1>3, <2>4, <2>5, <2>6 DEF TypeOK, Renewed, Origins
  <1>4. ASSUME NEW a \in Answers, RenewalFails(a)
        PROVE  TypeOK'
    <2>1. retryAt' \in Nat \union {None}
      <3>1. CASE MayRetry(Issuance(a))
        <4>1. 2 ^ failures \in Nat
          BY PowersPositive
        <4> QED BY <1>4, <3>1, <4>1 DEF RenewalFails, RetryTime
      <3>2. CASE ~MayRetry(Issuance(a))
        BY <1>4, <3>2 DEF RenewalFails
      <3> QED BY <3>1, <3>2
    <2>2. status' \in {"valid", "renewing", "failed"} /\ harsh' \in BOOLEAN
      BY <1>4 DEF RenewalFails
    <2>3. up
      BY <1>4 DEF RenewalFails, TypeOK
    <2> QED BY <1>4, <1>f, <2>1, <2>2, <2>3 DEF TypeOK, RenewalFails, Origins
  <1>5. CASE DeploymentFails
    BY <1>5, <1>f DEF TypeOK, DeploymentFails, Origins
  <1>6. CASE AttemptRaises
    BY <1>6 DEF TypeOK, AttemptRaises, Origins
  <1>7. CASE SelectPrevious
    <2>1. previous.expiry \in 0 .. MaxTime + Lifetime
      BY DEF TypeOK, Certificate
    <2>2. /\ followers' \subseteq Follower /\ changed' \in Time
          /\ crossed' \subseteq {"renewal", "selection", "lost"}
      BY <1>7, <2>1, CommitTypes DEF SelectPrevious, Origins
    <2> QED BY <1>7, <2>2 DEF TypeOK, SelectPrevious
  <1>8. ASSUME NEW t \in followers, Refresh(t)
        PROVE  TypeOK'
    <2>1. t \in Follower /\ cert.expiry \in 0 .. MaxTime + Lifetime
      BY DEF TypeOK, Certificate
    <2>2. [t EXCEPT !.expiry = cert.expiry, !.refreshed = TRUE] \in Follower
      BY <2>1 DEF Follower
    <2>3. followers' \subseteq Follower
      BY <1>8, <2>2 DEF Refresh, TypeOK
    <2> QED BY <1>8, <2>3 DEF TypeOK, Refresh
  <1>9. ASSUME NEW t \in followers, FollowerSchedules(t)
        PROVE  TypeOK'
    <2>1. renewAt' \in Nat
      BY <1>9, RunTime DEF FollowerSchedules, Schedule
    <2>2. up
      BY DEF TypeOK
    <2> QED BY <1>9, <2>1, <2>2 DEF TypeOK, FollowerSchedules
  <1>10. ASSUME NEW t \in followers, FollowerRaises(t)
         PROVE  TypeOK'
    BY <1>10 DEF TypeOK, FollowerRaises
  <1>11. CASE Stop
    BY <1>11 DEF TypeOK, Stop, Origins
  <1>12. CASE Start
    <2>1. renewAt' \in Nat \union {None}
      BY <1>12, RunTime DEF Start, Schedule
    <2> QED BY <1>12, <2>1 DEF TypeOK, Start
  <1>13. CASE UNCHANGED vars
    BY <1>13 DEF TypeOK, vars
  <1> QED BY <1>1, <1>2, <1>3, <1>4, <1>5, <1>6, <1>7, <1>8, <1>9, <1>10, <1>11,
             <1>12, <1>13 DEF Next

\* The first issuance is well typed.
LEMMA ClockInit == Init => TypeOK
  <1> SUFFICES ASSUME Init PROVE TypeOK
    OBVIOUS
  <1>1. NextRenewalRunTime(Lifetime) \in Nat
    BY Numbers, RunTime DEF Init
  <1>2. now \in Time /\ changed \in Time /\ failures \in 0 .. MaxRetries + 1
    BY Numbers DEF Init, Time
  <1>3. cert \in Certificate /\ previous \in Certificate
    BY Numbers DEF Init, Certificate
  <1> QED BY <1>1, <1>2, <1>3 DEF Init, TypeOK, Origins

(***************************************************************************)
(* Clock, jobs, counts and dates stay in their ranges: the count of        *)
(* failures stops one past MaxRetries, no job is placed before time 0, and *)
(* a stopped process has neither jobs nor an attempt or a coroutine in     *)
(* progress.                                                               *)
(***************************************************************************)
THEOREM ClockTypes == Spec => []TypeOK
  <1>1. TypeOK /\ [Next]_vars => TypeOK'
    BY ClockTypeStep
  <1> QED BY <1>1, ClockInit, PTL DEF Spec

(***************************************************************************)
(* Transient errors alone fail a certificate only after every retry: the   *)
(* classification never takes for terminal what a retry may mend, and the  *)
(* failures are counted one by one.                                        *)
(***************************************************************************)
THEOREM TransientErrorsAreRetried == Spec => []RetriedBeforeFailed
  <1>1. Init => RetriedBeforeFailed
    BY DEF Init, RetriedBeforeFailed
  <1>2. TypeOK /\ RetriedBeforeFailed /\ [Next]_vars => RetriedBeforeFailed'
    <2> SUFFICES ASSUME TypeOK, RetriedBeforeFailed, [Next]_vars
                 PROVE  RetriedBeforeFailed'
      OBVIOUS
    <2> USE DEF history
    <2>1. ASSUME NEW a \in Answers, RenewalFails(a)
          PROVE  RetriedBeforeFailed'
      <3>1. CASE MayRetry(Issuance(a))
        BY <2>1, <3>1 DEF RenewalFails, RetriedBeforeFailed
      <3>2. CASE Issuance(a) = "terminal"
        BY <2>1, <3>2, ErrorClasses DEF RenewalFails, RetriedBeforeFailed
      <3>3. CASE Issuance(a) = "transient" /\ ~(failures < MaxRetries)
        BY <2>1, <3>3, Numbers
           DEF RenewalFails, RetriedBeforeFailed, CountFailure, TypeOK
      <3> QED BY <2>1, <3>1, <3>2, <3>3, ErrorClasses
                 DEF RenewalFails, MayRetry
    <2>2. CASE \/ Tick \/ RenewJob \/ RetryJob \/ ManualRenewal
               \/ DeploymentFails \/ AttemptRaises \/ SelectPrevious
               \/ Stop \/ Start
      BY <2>2 DEF RetriedBeforeFailed, Tick, RenewJob, RetryJob,
                  ManualRenewal, DeploymentFails, AttemptRaises,
                  SelectPrevious, Stop, Start, Begin
    <2>3. ASSUME NEW a \in Answers, Renewed(a)
          PROVE  RetriedBeforeFailed'
      BY <2>3 DEF RetriedBeforeFailed, Renewed
    <2>4. ASSUME NEW t \in followers,
                 Refresh(t) \/ FollowerSchedules(t) \/ FollowerRaises(t)
          PROVE  RetriedBeforeFailed'
      BY <2>4 DEF RetriedBeforeFailed, Refresh, FollowerSchedules,
                  FollowerRaises
    <2>5. CASE UNCHANGED vars
      BY <2>5 DEF RetriedBeforeFailed, vars
    <2> QED BY <2>1, <2>2, <2>3, <2>4, <2>5 DEF Next
  <1> QED BY <1>1, <1>2, ClockTypes, PTL DEF Spec

-----------------------------------------------------------------------------
(***************************************************************************)
(* Time passes no job that is due, no command and no dispatch beyond its   *)
(* limit.                                                                  *)
(***************************************************************************)
LEMMA PendingStep ==
    ASSUME TypeOK, PendingInv, [Next]_vars
    PROVE  PendingInv'
  <1> USE Numbers, ClockNumbers DEF None, jobs, attempt, history
  <1>u. ~up => /\ since = None /\ renewAt = None /\ retryAt = None
               /\ followers = {}
    BY DEF TypeOK
  <1>c. ASSUME NEW kind, NEW e, NEW by, Committed(kind, e, by)
        PROVE  /\ changed' <= now
               /\ \A t \in followers' :
                      t.at <= changed' /\ now <= t.at + DispatchTime
    BY <1>c DEF Committed, PendingInv
  <1>1. CASE Tick
    <2>1. /\ renewAt # None => now < renewAt
          /\ retryAt # None => now < retryAt
      BY <1>1, <1>u DEF Tick, PendingInv
    <2> QED BY <1>1, <1>u, <2>1 DEF Tick, PendingInv
  <1>2. CASE RenewJob \/ RetryJob \/ ManualRenewal
    BY <1>2 DEF RenewJob, RetryJob, ManualRenewal, Begin, PendingInv
  <1>3. ASSUME NEW a \in Answers, Renewed(a)
        PROVE  PendingInv'
    <2>1. PICK e : Committed("renewal", e, origin)
      BY <1>3 DEF Renewed
    <2>2. /\ changed' <= now
          /\ \A t \in followers' :
                 t.at <= changed' /\ now <= t.at + DispatchTime
      BY <2>1, <1>c
    <2> QED BY <1>3, <2>2 DEF Renewed, PendingInv
  <1>4. ASSUME NEW a \in Answers, RenewalFails(a)
        PROVE  PendingInv'
    <2>1. retryAt' # None => now <= retryAt'
      <3>1. CASE MayRetry(Issuance(a))
        <4>1. 2 ^ failures \in Nat
          BY PowersPositive
        <4> QED BY <1>4, <3>1, <4>1 DEF RenewalFails, RetryTime
      <3>2. CASE ~MayRetry(Issuance(a))
        BY <1>4, <3>2 DEF RenewalFails, PendingInv
      <3> QED BY <3>1, <3>2
    <2> QED BY <1>4, <2>1 DEF RenewalFails, PendingInv
  <1>5. CASE DeploymentFails \/ AttemptRaises
    BY <1>5 DEF DeploymentFails, AttemptRaises, PendingInv
  <1>6. CASE SelectPrevious
    <2>1. /\ changed' <= now
          /\ \A t \in followers' :
                 t.at <= changed' /\ now <= t.at + DispatchTime
      BY <1>6, <1>c DEF SelectPrevious
    <2> QED BY <1>6, <2>1 DEF SelectPrevious, PendingInv
  <1>7. ASSUME NEW t \in followers, Refresh(t)
        PROVE  PendingInv'
    <2>1. \A u \in followers' : \E v \in followers : u.at = v.at
      <3>1. [t EXCEPT !.expiry = cert.expiry, !.refreshed = TRUE].at = t.at
        BY DEF TypeOK, Follower
      <3> QED BY <1>7, <3>1 DEF Refresh
    <2> QED BY <1>7, <2>1 DEF Refresh, PendingInv
  <1>8. ASSUME NEW t \in followers, FollowerSchedules(t)
        PROVE  PendingInv'
    <2>1. now <= renewAt'
      BY <1>8, RunTime DEF FollowerSchedules, Schedule
    <2> QED BY <1>8, <2>1 DEF FollowerSchedules, PendingInv
  <1>9. ASSUME NEW t \in followers, FollowerRaises(t)
        PROVE  PendingInv'
    BY <1>9 DEF FollowerRaises, PendingInv
  <1>10. CASE Stop
    BY <1>10 DEF Stop, PendingInv
  <1>11. CASE Start
    <2>1. renewAt' # None => now <= renewAt'
      BY <1>11, <1>u, RunTime DEF Start, Schedule
    <2> QED BY <1>11, <1>u, <2>1 DEF Start, PendingInv
  <1>12. CASE UNCHANGED vars
    BY <1>12 DEF vars, PendingInv
  <1> QED BY <1>1, <1>2, <1>3, <1>4, <1>5, <1>6, <1>7, <1>8, <1>9, <1>10, <1>11,
             <1>12 DEF Next

(***************************************************************************)
(* A coroutine that nothing has overtaken holds the expiry of the row.     *)
(***************************************************************************)
LEMMA AloneStep ==
    ASSUME TypeOK, AloneInv, [Next]_vars
    PROVE  AloneInv'
  <1> USE DEF jobs, attempt, history
  <1>1. CASE \/ Tick \/ RenewJob \/ RetryJob \/ ManualRenewal
             \/ DeploymentFails \/ AttemptRaises \/ UNCHANGED vars
    BY <1>1 DEF AloneInv, Tick, RenewJob, RetryJob, ManualRenewal,
                DeploymentFails, AttemptRaises, vars
  <1>2. ASSUME NEW a \in Answers, RenewalFails(a)
        PROVE  AloneInv'
    BY <1>2 DEF AloneInv, RenewalFails
  <1>3. ASSUME NEW a \in Answers, Renewed(a)
        PROVE  AloneInv'
    <2>1. PICK e : cert'.expiry = e /\ Committed("renewal", e, origin)
      BY <1>3 DEF Renewed
    <2> QED BY <2>1 DEF Committed, AloneInv
  <1>4. CASE SelectPrevious
    BY <1>4 DEF SelectPrevious, Committed, AloneInv
  <1>5. ASSUME NEW t \in followers, Refresh(t)
        PROVE  AloneInv'
    <2> DEFINE u == [t EXCEPT !.expiry = cert.expiry, !.refreshed = TRUE]
    <2>1. u.at = t.at /\ u.expiry = cert.expiry
      BY DEF TypeOK, Follower
    <2>2. followers' = (followers \ {t}) \union {u}
      BY <1>5 DEF Refresh
    <2> HIDE DEF u
    <2>3. UNCHANGED <<cert, changed, crossed>>
      BY <1>5 DEF Refresh
    <2> QED BY <2>1, <2>2, <2>3 DEF AloneInv
  <1>6. ASSUME NEW t \in followers, FollowerSchedules(t)
        PROVE  AloneInv'
    BY <1>6 DEF FollowerSchedules, AloneInv
  <1>7. ASSUME NEW t \in followers, FollowerRaises(t)
        PROVE  AloneInv'
    BY <1>7 DEF FollowerRaises, AloneInv
  <1>8. CASE Stop \/ Start
    BY <1>8 DEF Stop, Start, AloneInv, TypeOK
  <1> QED BY <1>1, <1>2, <1>3, <1>4, <1>5, <1>6, <1>7, <1>8 DEF Next

(***************************************************************************)
(* The job follows the row, for every window, number of retries, lifetime, *)
(* duration and number of coroutines: whoever commits an expiry schedules  *)
(* by it, and the job that is placed replaces the one there was.           *)
(***************************************************************************)
THEOREM JobsFollowRows == Spec => []JobFollowsRow
  <1>1. Init => PendingInv /\ AloneInv /\ JobFollowsRow
    <2> SUFFICES ASSUME Init PROVE PendingInv /\ AloneInv /\ JobFollowsRow
      OBVIOUS
    <2>1. renewAt \in Nat /\ now <= renewAt
      BY Numbers, RunTime DEF Init
    <2>2. PendingInv /\ AloneInv
      BY <2>1 DEF Init, PendingInv, AloneInv
    <2> QED BY <2>2, Numbers DEF Init, JobFollowsRow, NextRenewalRunTime
  <1>2. ASSUME TypeOK, PendingInv, AloneInv, JobFollowsRow, [Next]_vars
        PROVE  JobFollowsRow'
    <2> USE Numbers, ClockNumbers DEF jobs, attempt, history
    <2>1. CASE \/ Tick \/ RenewJob \/ RetryJob \/ ManualRenewal
               \/ DeploymentFails \/ AttemptRaises \/ Stop \/ UNCHANGED vars
      BY <1>2, <2>1 DEF Tick, RenewJob, RetryJob, ManualRenewal,
                DeploymentFails, AttemptRaises, Stop, vars, JobFollowsRow
    <2>2. ASSUME NEW a \in Answers, RenewalFails(a)
          PROVE  JobFollowsRow'
      BY <1>2, <2>2 DEF RenewalFails, JobFollowsRow
    <2>3. ASSUME NEW a \in Answers, Renewed(a)
          PROVE  JobFollowsRow'
      <3>1. PICK e : Committed("renewal", e, origin)
        BY <2>3 DEF Renewed
      <3> QED BY <3>1 DEF Committed, JobFollowsRow
    <2>4. CASE SelectPrevious
      BY <2>4 DEF SelectPrevious, Committed, JobFollowsRow
    <2>5. ASSUME NEW t \in followers, Refresh(t)
          PROVE  JobFollowsRow'
      BY <2>5 DEF Refresh, JobFollowsRow
    <2>6. ASSUME NEW t \in followers, FollowerSchedules(t)
          PROVE  JobFollowsRow'
      <3> SUFFICES ASSUME crossed = {}
                   PROVE  JobFollowsRow'
        BY <2>6 DEF FollowerSchedules, JobFollowsRow
      <3>1. t.at = changed /\ t.expiry = cert.expiry
        BY <1>2, <2>6 DEF FollowerSchedules, AloneInv
      <3>2. now <= changed + DispatchTime
        BY <1>2, <3>1 DEF PendingInv
      <3>3. renewAt' = NextRenewalRunTime(cert.expiry)
        BY <2>6, <3>1 DEF FollowerSchedules, Schedule
      <3>4. UNCHANGED <<cert, changed>>
        BY <2>6 DEF FollowerSchedules
      <3> QED BY <1>2, <3>2, <3>3, <3>4
                 DEF NextRenewalRunTime, JobFollowsRow
    <2>7. ASSUME NEW t \in followers, FollowerRaises(t)
          PROVE  JobFollowsRow'
      BY <2>7 DEF FollowerRaises, JobFollowsRow
    <2>8. CASE Start
      <3>1. CASE status = "valid"
        BY <1>2, <2>8, <3>1
           DEF Start, Schedule, NextRenewalRunTime, JobFollowsRow
      <3>2. CASE status # "valid"
        BY <1>2, <2>8, <3>2 DEF Start, JobFollowsRow, TypeOK
      <3> QED BY <3>1, <3>2
    <2> QED BY <1>2, <2>1, <2>2, <2>3, <2>4, <2>5, <2>6, <2>7, <2>8 DEF Next
  <1>3. /\ TypeOK /\ PendingInv /\ AloneInv /\ JobFollowsRow /\ [Next]_vars
        => PendingInv' /\ AloneInv' /\ JobFollowsRow'
    BY <1>2, PendingStep, AloneStep
  <1> QED BY <1>1, <1>3, ClockTypes, PTL DEF Spec

-----------------------------------------------------------------------------
(***************************************************************************)
(* The recorded expiry is never later than the true one, and no job is     *)
(* later than that of a certificate issued now.                            *)
(***************************************************************************)
LEMMA RecordedStep ==
    ASSUME TypeOK, RecordedInv, [Next]_vars
    PROVE  RecordedInv'
  <1> USE Numbers, ClockNumbers DEF None, jobs, attempt, history
  <1>s. ASSUME NEW e \in Nat, e <= now + Lifetime, Schedule(e), now' = now
        PROVE  renewAt' <= now' \/ renewAt' <= now' + Lifetime - Window
    BY <1>s DEF Schedule, NextRenewalRunTime
  <1>1. CASE \/ Tick \/ RenewJob \/ RetryJob \/ ManualRenewal
             \/ DeploymentFails \/ AttemptRaises \/ Stop \/ UNCHANGED vars
    BY <1>1 DEF Tick, RenewJob, RetryJob, ManualRenewal, DeploymentFails,
                AttemptRaises, Stop, vars, RecordedInv
  <1>2. ASSUME NEW a \in Answers, RenewalFails(a)
        PROVE  RecordedInv'
    BY <1>2 DEF RenewalFails, RecordedInv
  <1>3. ASSUME NEW a \in Answers, Renewed(a)
        PROVE  RecordedInv'
    <2>1. PICK e : /\ e = ExpiryFromOutput(a, now + Lifetime,
                                           now + Lifetime - EarlyBy)
                   /\ cert' = [expiry |-> e, notAfter |-> now + Lifetime]
                   /\ Committed("renewal", e, origin)
      BY <1>3 DEF Renewed
    <2>2. e \in Nat /\ e <= now + Lifetime
      BY <2>1, RecordedExpiry
    <2>3. \A t \in followers' : t.expiry <= now + Lifetime
      BY <2>1, <2>2 DEF Committed, RecordedInv
    <2> QED BY <1>3, <2>1, <2>2, <2>3 DEF Renewed, RecordedInv
  <1>4. CASE SelectPrevious
    <2>1. \A t \in followers' : t.expiry <= now + Lifetime
      BY <1>4 DEF SelectPrevious, Committed, RecordedInv
    <2> QED BY <1>4, <2>1 DEF SelectPrevious, RecordedInv
  <1>5. ASSUME NEW t \in followers, Refresh(t)
        PROVE  RecordedInv'
    <2>1. [t EXCEPT !.expiry = cert.expiry, !.refreshed = TRUE].expiry
              = cert.expiry
      BY DEF TypeOK, Follower
    <2>2. \A u \in followers' : u \in followers \/ u.expiry = cert.expiry
      BY <1>5, <2>1 DEF Refresh
    <2>3. cert.expiry <= now + Lifetime
      BY DEF RecordedInv
    <2> QED BY <1>5, <2>2, <2>3 DEF Refresh, RecordedInv
  <1>6. ASSUME NEW t \in followers, FollowerSchedules(t)
        PROVE  RecordedInv'
    <2>1. renewAt' <= now' \/ renewAt' <= now' + Lifetime - Window
      BY <1>6, <1>s DEF FollowerSchedules, RecordedInv
    <2> QED BY <1>6, <2>1 DEF FollowerSchedules, RecordedInv
  <1>7. ASSUME NEW t \in followers, FollowerRaises(t)
        PROVE  RecordedInv'
    BY <1>7 DEF FollowerRaises, RecordedInv
  <1>8. CASE Start
    <2>1. renewAt' <= now' \/ renewAt' <= now' + Lifetime - Window
      BY <1>8, <1>s DEF Start, RecordedInv
    <2> QED BY <1>8, <2>1 DEF Start, RecordedInv
  <1> QED BY <1>1, <1>2, <1>3, <1>4, <1>5, <1>6, <1>7, <1>8 DEF Next

\* A coroutine that is about to schedule is still before the due date.
LEMMA FollowersBeforeDue ==
    ASSUME TypeOK, PendingInv
    PROVE  /\ Due \in Int
           /\ changed + DispatchTime <= Due /\ cert.notAfter - Window <= Due
           /\ followers # {} => now <= Due
  <1> USE Numbers, ClockNumbers
  <1>1. /\ Due \in Int
        /\ changed + DispatchTime <= Due /\ cert.notAfter - Window <= Due
    BY DEF Due
  <1>2. ASSUME followers # {} PROVE now <= Due
    <2>1. PICK t \in followers : TRUE
      BY <1>2
    <2>2. t.at <= changed /\ now <= t.at + DispatchTime /\ t.at \in Nat
      BY DEF PendingInv
    <2> QED BY <1>1, <2>2
  <1> QED BY <1>1, <1>2

(***************************************************************************)
(* As long as no selection overtakes, what a coroutine holds and the job   *)
(* there is are in time for the certificate in service.                    *)
(***************************************************************************)
LEMMA HeldStep ==
    ASSUME TypeOK, RecordedInv, PendingInv, HeldInv, [Next]_vars
    PROVE  HeldInv'
  <1> USE Numbers, ClockNumbers, FollowersBeforeDue
      DEF None, jobs, attempt, history
  <1>k. ASSUME UNCHANGED <<cert, changed>> PROVE Due' = Due
    BY <1>k DEF Due
  <1>1. CASE \/ Tick \/ RenewJob \/ RetryJob \/ ManualRenewal
             \/ DeploymentFails \/ AttemptRaises \/ UNCHANGED vars
    <2>1. /\ UNCHANGED <<cert, changed, crossed, followers>>
          /\ renewAt' = renewAt \/ renewAt' = None
      BY <1>1 DEF Tick, RenewJob, RetryJob, ManualRenewal, DeploymentFails,
                  AttemptRaises, vars
    <2> QED BY <1>k, <2>1 DEF HeldInv, Kept, Selecting
  <1>2. ASSUME NEW a \in Answers, RenewalFails(a)
        PROVE  HeldInv'
    <2>1. UNCHANGED <<cert, changed, crossed, followers, renewAt>>
      BY <1>2 DEF RenewalFails
    <2> QED BY <1>k, <2>1 DEF HeldInv, Kept, Selecting
  <1>3. ASSUME NEW a \in Answers, Renewed(a)
        PROVE  HeldInv'
    <2>1. PICK e : /\ e = ExpiryFromOutput(a, now + Lifetime,
                                           now + Lifetime - EarlyBy)
                   /\ cert' = [expiry |-> e, notAfter |-> now + Lifetime]
                   /\ Committed("renewal", e, origin)
      BY <1>3 DEF Renewed
    <2>2. e \in Nat /\ e <= now + Lifetime
      BY <2>1, RecordedExpiry
    <2>3. \A t \in followers' : t.expiry <= cert'.notAfter
      BY <2>1, <2>2 DEF Committed, RecordedInv
    <2>4. changed' = now /\ cert'.notAfter = now + Lifetime
      BY <2>1 DEF Committed
    <2>5. renewAt <= Due'
      BY <2>4 DEF Due, RecordedInv
    <2>6. renewAt' = renewAt
      BY <1>3 DEF Renewed
    <2> QED BY <2>3, <2>5, <2>6 DEF HeldInv
  <1>4. CASE SelectPrevious
    <2>1. Committed("selection", previous.expiry, "select")
      BY <1>4 DEF SelectPrevious
    <2>2. CASE followers = {}
      <3>1. PICK u : /\ followers' = {u}
                     /\ u = [at |-> now, expiry |-> previous.expiry,
                             refreshed |-> "selection" = "renewal",
                             origin |-> "select"]
        BY <2>1, <2>2 DEF Committed
      <3>2. u.origin = "select" /\ ~u.refreshed
        BY <3>1
      <3> QED BY <3>1, <3>2 DEF HeldInv, Selecting
    <2>3. CASE followers # {}
      BY <2>1, <2>3 DEF Committed, HeldInv, Kept
    <2> QED BY <2>2, <2>3
  <1>5. ASSUME NEW t \in followers, Refresh(t)
        PROVE  HeldInv'
    <2> DEFINE u == [t EXCEPT !.expiry = cert.expiry, !.refreshed = TRUE]
    <2>1. u.expiry = cert.expiry /\ u.origin = t.origin
      BY DEF TypeOK, Follower
    <2>2. followers' = (followers \ {t}) \union {u}
      BY <1>5 DEF Refresh
    <2> HIDE DEF u
    <2>3. UNCHANGED <<cert, changed, crossed, renewAt>>
      BY <1>5 DEF Refresh
    <2>4. cert.expiry <= cert.notAfter
      BY DEF RecordedInv
    <2>5. Selecting => Selecting'
      BY <2>1, <2>2 DEF Selecting
    <2>6. Kept' => \A v \in followers' :
                       v.refreshed => v.expiry <= cert'.notAfter
      BY <2>1, <2>2, <2>3, <2>4 DEF HeldInv, Kept
    <2> QED BY <1>k, <2>3, <2>5, <2>6 DEF HeldInv, Kept
  <1>6. ASSUME NEW t \in followers, FollowerSchedules(t)
        PROVE  HeldInv'
    <2> SUFFICES ASSUME Kept PROVE HeldInv'
      BY <1>6 DEF FollowerSchedules, HeldInv, Kept
    <2>1. t.expiry <= cert.notAfter /\ now <= Due
      BY <1>6 DEF FollowerSchedules, HeldInv
    <2>2. renewAt' = NextRenewalRunTime(t.expiry)
      BY <1>6 DEF FollowerSchedules, Schedule
    <2>3. renewAt' <= Due
      BY <2>1, <2>2 DEF NextRenewalRunTime
    <2>4. UNCHANGED <<cert, changed, crossed>> /\ followers' \subseteq followers
      BY <1>6 DEF FollowerSchedules
    <2> QED BY <1>k, <2>3, <2>4 DEF HeldInv
  <1>7. ASSUME NEW t \in followers, FollowerRaises(t)
        PROVE  HeldInv'
    BY <1>7 DEF FollowerRaises, HeldInv, Kept
  <1>8. CASE Stop
    BY <1>8 DEF Stop, HeldInv
  <1>9. CASE Start
    <2>1. followers' = {} /\ changed' = now /\ cert' = cert
      BY <1>9 DEF Start, TypeOK
    <2>2. CASE status = "valid"
      <3>1. renewAt' = NextRenewalRunTime(cert.expiry)
        BY <1>9, <2>2 DEF Start, Schedule
      <3>2. cert.expiry <= cert.notAfter
        BY DEF RecordedInv
      <3>3. renewAt' <= Due'
        BY <2>1, <3>1, <3>2 DEF Due, NextRenewalRunTime
      <3> QED BY <2>1, <3>3 DEF HeldInv
    <2>3. CASE status # "valid"
      BY <1>9, <2>1, <2>3 DEF Start, TypeOK, HeldInv
    <2> QED BY <2>2, <2>3
  <1> QED BY <1>1, <1>2, <1>3, <1>4, <1>5, <1>6, <1>7, <1>8, <1>9 DEF Next

(***************************************************************************)
(* The bound on the n-th retry.  It is not before the job came due,        *)
(***************************************************************************)
LEMMA LatestAfterDue ==
    ASSUME TypeOK, NEW n \in 0 .. MaxRetries + 1
    PROVE  /\ Due \in Int /\ Latest(n) \in Int
           /\ Due <= Latest(n)
  <1> USE Numbers
  <1>1. Due \in Int
    BY ClockNumbers DEF Due
  <1>2. 2 ^ n \in Nat \ {0}
    BY PowersPositive
  <1>3. n * CommandTime \in Nat
    OBVIOUS
  <1> QED BY <1>1, <1>2, <1>3 DEF Latest

\* one more failure moves it by the back-off and the command,
LEMMA LatestGrows ==
    ASSUME TypeOK, NEW n \in 0 .. MaxRetries
    PROVE  Latest(n + 1) = Latest(n) + CommandTime + 2 ^ n
  <1> USE Numbers
  <1>1. Due \in Int /\ 2 ^ n \in Nat
    BY LatestAfterDue, PowersPositive
  <1>2. 2 ^ (n + 1) = 2 * 2 ^ n
    BY PowerAssumption
  <1>3. (n + 1) * CommandTime = n * CommandTime + CommandTime
    OBVIOUS
  <1>4. n * CommandTime \in Nat
    OBVIOUS
  <1> QED BY <1>1, <1>2, <1>3, <1>4 DEF Latest

\* and none of those that are made is later than Budget.
LEMMA LatestInBudget ==
    ASSUME TypeOK, NEW n \in 0 .. MaxRetries
    PROVE  Latest(n) <= Due + Budget /\ Budget \in Nat
  <1> USE Numbers
  <1>1. /\ Due \in Int /\ 2 ^ n \in Nat /\ 2 ^ MaxRetries \in Nat \ {0}
        /\ MaxRetries * CommandTime \in Nat
    BY LatestAfterDue, PowersPositive
  <1>2. 2 ^ n <= 2 ^ MaxRetries
    BY PowersGrow
  <1>3. /\ MaxRetries * CommandTime = n * CommandTime
                                        + (MaxRetries - n) * CommandTime
        /\ n * CommandTime \in Nat /\ (MaxRetries - n) * CommandTime \in Nat
    OBVIOUS
  <1> QED BY <1>1, <1>2, <1>3 DEF Latest, Budget

(***************************************************************************)
(* The chain of retries holds: every attempt but the last leads to the     *)
(* next in time.                                                           *)
(***************************************************************************)
LEMMA ChainStep ==
    ASSUME TypeOK, PendingInv, HeldInv, ChainInv, [Next]_vars
    PROVE  ChainInv'
  <1> USE Numbers, ClockNumbers DEF None, jobs, attempt, history
  <1>b. /\ Due \in Int /\ Latest(failures) \in Int /\ Due <= Latest(failures)
        /\ followers # {} => now <= Due
    BY LatestAfterDue, FollowersBeforeDue
  <1>c. ASSUME UNCHANGED <<cert, changed, failures>>
        PROVE  Latest(failures)' = Latest(failures)
    BY <1>c DEF Latest, Due
  <1>1. CASE Tick \/ UNCHANGED vars
    BY <1>1, <1>c DEF Tick, vars, ChainInv, Kept
  <1>2. CASE RenewJob
    <2> SUFFICES ASSUME Kept PROVE ChainInv'
      BY <1>2 DEF RenewJob, Kept, ChainInv
    <2>1. now <= Due /\ Latest(failures)' = Latest(failures)
      BY <1>2, <1>b, <1>c DEF RenewJob, HeldInv, Selecting
    <2>2. status' = "valid" => followers' # {}
      BY <1>2 DEF RenewJob, Begin
    <2>3. since' # None => since' \in Nat /\ since' <= now
      BY <1>2 DEF RenewJob, Begin, PendingInv
    <2> QED BY <1>b, <2>1, <2>2, <2>3 DEF ChainInv
  <1>3. CASE RetryJob \/ ManualRenewal
    <2>1. /\ Latest(failures)' = Latest(failures)
          /\ UNCHANGED <<up, renewAt, followers, crossed>>
      BY <1>3, <1>c DEF RetryJob, ManualRenewal
    <2>2. status' = "valid" => followers' # {}
      BY <1>3 DEF RetryJob, ManualRenewal, Begin
    <2>3. ASSUME up, Kept, renewAt = None, since' # None
          PROVE  since' <= Latest(failures)
      <3>1. CASE since' = since
        BY <2>3, <3>1 DEF ChainInv
      <3>2. CASE since' # since
        <4>1. status = "valid" /\ since' = now
          BY <1>3, <3>2 DEF RetryJob, ManualRenewal, Begin
        <4>2. CASE followers # {}
          BY <1>b, <4>1, <4>2
        <4>3. CASE followers = {}
          <5>1. retryAt \in Nat /\ retryAt <= Latest(failures) /\ now <= retryAt
            BY <2>3, <4>1, <4>3 DEF ChainInv, PendingInv
          <5> QED BY <1>b, <4>1, <5>1
        <4> QED BY <4>2, <4>3
      <3> QED BY <3>1, <3>2
    <2> QED BY <2>1, <2>2, <2>3 DEF ChainInv, Kept
  <1>4. ASSUME NEW a \in Answers, Renewed(a)
        PROVE  ChainInv'
    <2>1. PICK e : Committed("renewal", e, origin)
      BY <1>4 DEF Renewed
    <2>2. since' = None /\ followers' # {}
      BY <1>4, <2>1 DEF Renewed, Committed
    <2> QED BY <2>2 DEF ChainInv
  <1>5. ASSUME NEW a \in Answers, RenewalFails(a)
        PROVE  ChainInv'
    <2> SUFFICES ASSUME Kept, renewAt = None, MayRetry(Issuance(a))
                 PROVE  ChainInv'
      BY <1>5 DEF RenewalFails, ChainInv, Kept
    <2>1. /\ since \in Nat /\ up /\ since <= Latest(failures)
          /\ now <= since + CommandTime
      BY <1>5 DEF RenewalFails, PendingInv, ChainInv
    <2>2. failures \in 0 .. MaxRetries /\ failures < MaxRetries
      BY DEF MayRetry
    <2>3. failures' = failures + 1
      BY <1>5, <2>2 DEF RenewalFails, CountFailure
    <2>4. Latest(failures)' = Latest(failures + 1)
      BY <1>5, <2>3 DEF RenewalFails, Latest, Due
    <2>5. 2 ^ failures \in Nat
      BY PowersPositive
    <2>6. retryAt' = now + 2 ^ failures
      BY <1>5 DEF RenewalFails, RetryTime
    <2>7. retryAt' \in Nat /\ retryAt' <= Latest(failures + 1)
      BY <1>b, <2>1, <2>2, <2>5, <2>6, LatestGrows
    <2>8. since' = None
      BY <1>5 DEF RenewalFails
    <2> QED BY <2>2, <2>3, <2>4, <2>7, <2>8 DEF ChainInv
  <1>6. CASE DeploymentFails \/ AttemptRaises \/ Stop
    BY <1>6 DEF DeploymentFails, AttemptRaises, Stop, ChainInv, PendingInv
  <1>7. CASE SelectPrevious
    <2>1. Committed("selection", previous.expiry, "select")
      BY <1>7 DEF SelectPrevious
    <2>2. followers' # {} /\ changed' = now
      BY <2>1 DEF Committed
    <2>3. UNCHANGED <<failures, since, now>>
      BY <1>7 DEF SelectPrevious
    <2>4. since # None => since <= changed'
      BY <2>2 DEF PendingInv
    <2>5. cert' = previous
      BY <1>7 DEF SelectPrevious
    <2>6. changed' + DispatchTime <= Due' /\ Due' \in Int
      BY <2>2, <2>5 DEF Due
    <2>7. Due' <= Latest(failures)' /\ Latest(failures)' \in Int
      <3>1. 2 ^ failures \in Nat \ {0} /\ failures * CommandTime \in Nat
        BY PowersPositive
      <3> QED BY <2>3, <2>6, <3>1 DEF Latest
    <2>8. since' # None => since' <= Latest(failures)'
      BY <2>2, <2>3, <2>4, <2>6, <2>7
    <2> QED BY <2>2, <2>8 DEF ChainInv
  <1>8. ASSUME NEW t \in followers, Refresh(t)
        PROVE  ChainInv'
    <2>1. /\ UNCHANGED <<up, crossed, renewAt, since>>
          /\ Latest(failures)' = Latest(failures) /\ followers' # {}
      BY <1>8, <1>c DEF Refresh
    <2> QED BY <2>1 DEF ChainInv, Kept
  <1>9. ASSUME NEW t \in followers, FollowerSchedules(t)
        PROVE  ChainInv'
    <2>1. renewAt' \in Nat
      BY <1>9, RunTime DEF FollowerSchedules, Schedule
    <2> QED BY <2>1 DEF ChainInv
  <1>10. ASSUME NEW t \in followers, FollowerRaises(t)
         PROVE  ChainInv'
    BY <1>10 DEF FollowerRaises, ChainInv, Kept
  <1>11. CASE Start
    <2>1. CASE status = "valid"
      <3>1. renewAt' \in Nat
        BY <1>11, <2>1, RunTime DEF Start, Schedule
      <3> QED BY <3>1 DEF ChainInv
    <2>2. CASE status # "valid"
      BY <1>11, <2>2 DEF Start, ChainInv, TypeOK
    <2> QED BY <2>1, <2>2
  <1> QED BY <1>1, <1>2, <1>3, <1>4, <1>5, <1>6, <1>7, <1>8, <1>9, <1>10, <1>11
          DEF Next

(***************************************************************************)
(* The invariants imply the deadline: a job that is pending runs when the  *)
(* window opens or once it is scheduled, and a retry within Budget of it.  *)
(***************************************************************************)
LEMMA InTime ==
    ASSUME TypeOK, PendingInv, HeldInv, ChainInv
    PROVE  RenewedInTime
  <1> USE Numbers, ClockNumbers DEF None
  <1> SUFFICES ASSUME up, status = "valid", Kept
               PROVE  now <= Due + Budget
    BY DEF RenewedInTime
  <1>b. /\ Due \in Int /\ Budget \in Nat
        /\ followers # {} => now <= Due
    BY LatestInBudget, FollowersBeforeDue
  <1>1. CASE followers # {}
    BY <1>b, <1>1
  <1>2. CASE followers = {} /\ renewAt # None
    <2>1. now <= renewAt /\ renewAt <= Due
      BY <1>2 DEF PendingInv, HeldInv, Selecting
    <2> QED BY <1>b, <2>1
  <1>3. CASE followers = {} /\ renewAt = None
    <2>1. /\ retryAt \in Nat /\ now <= retryAt /\ failures \in 0 .. MaxRetries
          /\ retryAt <= Latest(failures)
      BY <1>3 DEF ChainInv, PendingInv
    <2>2. Latest(failures) <= Due + Budget /\ Latest(failures) \in Int
      BY <2>1, LatestInBudget, LatestAfterDue
    <2> QED BY <1>b, <2>1, <2>2
  <1> QED BY <1>1, <1>2, <1>3

(***************************************************************************)
(* Renewal is in time: while the process runs and the row says VALID, no   *)
(* more than Budget has passed since the certificate in service came due,  *)
(* unless a selection overtook another's scheduling or one was lost.  It   *)
(* holds for every window, lifetime, number of retries, duration and       *)
(* number of coroutines between their commit and their scheduling.         *)
(***************************************************************************)
THEOREM RenewalsAreInTime == Spec => []RenewedInTime
  <1> DEFINE ClockInv == RecordedInv /\ PendingInv /\ HeldInv /\ ChainInv
  <1>1. Init => ClockInv
    <2> SUFFICES ASSUME Init PROVE ClockInv
      OBVIOUS
    <2>1. renewAt \in Nat /\ now <= renewAt
      BY Numbers, RunTime DEF Init
    <2>2. RecordedInv /\ HeldInv
      BY Numbers DEF Init, RecordedInv, HeldInv, Due, NextRenewalRunTime
    <2>3. PendingInv /\ ChainInv
      BY <2>1, Numbers DEF Init, PendingInv, ChainInv, None
    <2> QED BY <2>2, <2>3
  <1>2. TypeOK /\ ClockInv /\ [Next]_vars => ClockInv'
    BY RecordedStep, PendingStep, HeldStep, ChainStep
  <1>3. TypeOK /\ ClockInv => RenewedInTime
    BY InTime
  <1> QED BY <1>1, <1>2, <1>3, ClockTypes, PTL DEF Spec

(***************************************************************************)
(* So a window longer than the retries take keeps a certificate from       *)
(* expiring while its row is VALID and the process runs, if it was put     *)
(* into service, or the process started, early enough for the retries, no  *)
(* selection overtook another's scheduling, and none was lost.             *)
(***************************************************************************)
NotExpired ==
    /\ up /\ status = "valid" /\ Kept
    /\ changed + DispatchTime + Budget < cert.notAfter
    => now < cert.notAfter

THEOREM WindowSuffices ==
    ASSUME Budget < Window
    PROVE  Spec => []NotExpired
  <1>1. TypeOK /\ RenewedInTime => NotExpired
    <2> SUFFICES ASSUME TypeOK, RenewedInTime, up, status = "valid", Kept,
                        changed + DispatchTime + Budget < cert.notAfter
                 PROVE  now < cert.notAfter
      BY DEF NotExpired
    <2>1. Budget \in Nat /\ Due \in Int
      BY LatestInBudget, LatestAfterDue, Numbers
    <2>2. now <= Due + Budget
      BY DEF RenewedInTime
    <2>3. Due + Budget < cert.notAfter
      BY <2>1, Numbers, ClockNumbers DEF Due
    <2> QED BY <2>1, <2>2, <2>3, ClockNumbers
  <1> QED BY <1>1, ClockTypes, RenewalsAreInTime, PTL

=============================================================================
