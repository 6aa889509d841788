----------------------------- MODULE RenewalClock ---------------------------
(***************************************************************************)
(* Renewal in time: one issued certificate, the expiry its row records,    *)
(* the run times of its jobs, the renewal window and the back-off, with    *)
(* acme.sh's answers taken apart as AcmeShBackend does.  One tick is the   *)
(* shortest back-off (a minute in the code, where the window is in days).  *)
(*                                                                         *)
(* A renewal and a selection commit the row first and call                 *)
(* schedule_certificate later, with the expiry of the object they hold;    *)
(* the coroutines in between are in followers.                             *)
(*                                                                         *)
(* Time does not pass a job that is due, a command that has run for        *)
(* CommandTime, nor a coroutine DispatchTime after its commit.  Jobs that  *)
(* are late beyond their grace time, and attempts that read the row before *)
(* another's claim, are in RenewalScheduler; that a commit leaves out a    *)
(* column with the value it was loaded with is in Generations; a FAILED    *)
(* row is not authorized anew here, which CertificateService allows.  The  *)
(* webhooks of a failure are taken to be sent before its retry comes due,  *)
(* else APScheduler drops the retry (JobSkipped of RenewalScheduler).      *)
(***************************************************************************)
EXTENDS AcmeSh

CONSTANTS
    Window,       \* renewal.window_days
    MaxRetries,   \* renewal.max_retries
    Lifetime,     \* of the certificates the authority issues
    EarlyBy,      \* how long before the expiry acme.sh's next renewal is
    CommandTime,  \* the longest an acme.sh command takes
    DispatchTime, \* the longest from a commit to the scheduling after it
    Answers,      \* what an acme.sh that exits may leave
    MaxTime,      \* bound: the clock stops here
    MaxFollowers  \* bound: coroutines between their commit and scheduling

\* How long after an attempt comes due the last of its retries begins.
Budget == 2 ^ MaxRetries - 1 + MaxRetries * CommandTime

ASSUME ClockAssumption ==
    /\ {MaxRetries, EarlyBy, CommandTime, DispatchTime, MaxTime} \subseteq Nat
    /\ {Window, Lifetime} \subseteq Nat \ {0}
\* acme.sh's date of the next renewal is not before the issuance.
ASSUME EarlyAssumption == EarlyBy <= Lifetime
ASSUME AnswersAssumption == Answers \subseteq Answer
\* The law of powers, which the proofs need and the provers do not know.
ASSUME PowerAssumption == \A n \in 0 .. MaxRetries : 2 ^ (n + 1) = 2 * 2 ^ n

None == -1

VARIABLES
    now,        \* the clock
    up,         \* whether the process is running
    status,     \* the row's status
    cert,       \* what is in service: the expiry recorded and the true one
    previous,   \* the retained generation before it
    renewAt,    \* run time of the job renew:<id>, None if there is none
    retryAt,    \* run time of the job renew-retry:<id>
    since,      \* when the attempt in progress began, None if there is none
    origin,     \* what began it
    followers,  \* the coroutines that have committed and not yet scheduled
    failures,   \* failed renewal_attempts of the certificate, ever
    changed,    \* history: when a commit or a start last set what to follow
    crossed,    \* history: what came between a commit and its scheduling
    harsh       \* history: a renewal got an answer that retrying cannot mend

jobs == <<renewAt, retryAt>>
attempt == <<since, origin>>
history == <<changed, crossed, harsh>>
vars == <<now, up, status, cert, previous, jobs, attempt, followers, failures,
          history>>

Time == 0 .. MaxTime
Certificate == [expiry : 0 .. MaxTime + Lifetime,
                notAfter : 0 .. MaxTime + Lifetime]
Origins == {"renew", "retry", "manual", "select"}

\* What a coroutine after its commit holds: the expiry it will schedule by
\* (a selection refreshes it first), when it committed, and its origin.  Two
\* that hold the same are one.
Follower == [at : Time, expiry : 0 .. MaxTime + Lifetime, refreshed : BOOLEAN,
             origin : Origins]

TypeOK ==
    /\ now \in Time /\ up \in BOOLEAN
    /\ status \in {"valid", "renewing", "failed"}
    /\ cert \in Certificate /\ previous \in Certificate
    /\ {renewAt, retryAt, since} \subseteq Nat \union {None}
    /\ origin \in Origins
    /\ followers \subseteq Follower
    /\ failures \in 0 .. MaxRetries + 1
    /\ changed \in Time /\ harsh \in BOOLEAN
    /\ crossed \subseteq {"renewal", "selection", "lost"}
    /\ ~up => /\ since = None /\ renewAt = None /\ retryAt = None
              /\ followers = {}

-----------------------------------------------------------------------------
(***************************************************************************)
(* next_renewal_run_time and schedule_certificate: when the window opens,  *)
(* or at once if it has.                                                   *)
(***************************************************************************)
NextRenewalRunTime(expiry) ==
    IF expiry - Window <= now THEN now ELSE expiry - Window

\* Mutant: a job that exists is kept.
ScheduleKeepsJob(expiry) ==
    renewAt' = IF renewAt = None THEN NextRenewalRunTime(expiry) ELSE renewAt

\* The job replaces the one there may be under its name; the retry stays.
Schedule(expiry) == renewAt' = NextRenewalRunTime(expiry)

Init ==
    /\ now = 0 /\ up = TRUE
    /\ status = "valid"
    /\ cert = [expiry |-> Lifetime, notAfter |-> Lifetime]
    /\ previous = cert
    /\ renewAt = NextRenewalRunTime(Lifetime) /\ retryAt = None
    /\ since = None /\ origin = "manual"
    /\ followers = {}
    /\ failures = 0
    /\ changed = 0 /\ crossed = {} /\ harsh = FALSE

Tick ==
    /\ now < MaxTime
    /\ up => /\ renewAt # now /\ retryAt # now
             /\ since # None => now < since + CommandTime
    /\ \A t \in followers : now < t.at + DispatchTime
    /\ now' = now + 1
    /\ UNCHANGED <<up, status, cert, previous, jobs, attempt, followers,
                   failures, history>>

-----------------------------------------------------------------------------
(***************************************************************************)
(* renew_certificate, up to the await of acme.sh: from its job, from its   *)
(* retry job, or on an operator's request.  APScheduler drops a job whose  *)
(* last instance is still running (for one that is at its command, the     *)
(* row's status comes to the same).                                        *)
(***************************************************************************)
Begin(job) ==
    IF status = "valid" /\ \A t \in followers : t.origin # job
    THEN status' = "renewing" /\ since' = now /\ origin' = job
    ELSE UNCHANGED <<status, attempt>>

RenewJob ==
    /\ up /\ renewAt = now
    /\ renewAt' = None
    /\ Begin("renew")
    /\ UNCHANGED <<now, up, cert, previous, retryAt, followers, failures,
                   history>>

RetryJob ==
    /\ up /\ retryAt = now
    /\ retryAt' = None
    /\ Begin("retry")
    /\ UNCHANGED <<now, up, cert, previous, renewAt, followers, failures,
                   history>>

\* A background task of the route, of which there may be several.
ManualRenewal ==
    /\ up /\ status = "valid"
    /\ status' = "renewing" /\ since' = now /\ origin' = "manual"
    /\ UNCHANGED <<now, up, cert, previous, jobs, followers, failures,
                   history>>

-----------------------------------------------------------------------------
(***************************************************************************)
(* A commit that changes the recorded expiry.  Whoever is then between its *)
(* own commit and its scheduling has been overtaken.                       *)
(***************************************************************************)
Committed(kind, expiry, by) ==
    /\ Cardinality(followers) < MaxFollowers
    /\ followers' = followers \union
           {[at |-> now, expiry |-> expiry, refreshed |-> kind = "renewal",
             origin |-> by]}
    /\ changed' = now
    /\ crossed' = IF followers = {} THEN {} ELSE crossed \union {kind}

(***************************************************************************)
(* acme.sh returned a certificate and it was deployed: the row records the *)
(* expiry found in the output.  The webhooks are dispatched next.          *)
(***************************************************************************)
Renewed(a) ==
    LET expiry == ExpiryFromOutput(a, now + Lifetime, now + Lifetime - EarlyBy)
    IN  /\ since # None
        /\ Issuance(a) = "ok"
        /\ status' = "valid"
        /\ cert' = [expiry |-> expiry, notAfter |-> now + Lifetime]
        /\ previous' = cert
        /\ since' = None /\ origin' = "manual"
        /\ Committed("renewal", expiry, origin)
        /\ UNCHANGED <<now, up, jobs, failures, harsh>>

(***************************************************************************)
(* select_deployment_generation, whatever the status: the row takes the    *)
(* expiry of the generation selected.  After its commit the selection      *)
(* reads the row again.                                                    *)
(***************************************************************************)
SelectPrevious ==
    /\ up
    /\ cert' = previous /\ previous' = cert
    /\ Committed("selection", previous.expiry, "select")
    /\ UNCHANGED <<now, up, status, jobs, attempt, failures, harsh>>

Refresh(t) ==
    /\ ~t.refreshed
    /\ followers' = (followers \ {t}) \union
           {[t EXCEPT !.expiry = cert.expiry, !.refreshed = TRUE]}
    /\ UNCHANGED <<now, up, status, cert, previous, jobs, attempt, failures,
                   history>>

(***************************************************************************)
(* schedule_certificate at the end of renew_certificate and of a           *)
(* selection: by the object, whatever the row holds by now.                *)
(***************************************************************************)
FollowerSchedules(t) ==
    /\ t.refreshed
    /\ Schedule(t.expiry)
    /\ followers' = followers \ {t}
    /\ UNCHANGED <<now, up, status, cert, previous, retryAt, attempt, failures,
                   history>>

\* An exception that nobody handles, in a dispatch or a refresh.
FollowerRaises(t) ==
    /\ followers' = followers \ {t}
    /\ crossed' = crossed \union {"lost"}
    /\ UNCHANGED <<now, up, status, cert, previous, jobs, attempt, failures,
                   changed, harsh>>

(***************************************************************************)
(* _record_failure: a transient error is retried with exponential back-off *)
(* as long as the certificate has failed fewer than MaxRetries times ever. *)
(***************************************************************************)
\* Mutant: the attempt that failed is counted before the back-off is taken.
RetryTimeLate(attempts) == now + 2 ^ (attempts + 1)

RetryTime(attempts) == now + 2 ^ attempts

\* Mutant: the attempt is counted with the retry it leads to.
CountFailureTwice == failures' = failures + 2

CountFailure == failures' = IF failures <= MaxRetries THEN failures + 1
                            ELSE failures

\* Mutant: the failure at hand is counted as an earlier one.
MayRetryShort(error) == error = "transient" /\ failures + 1 < MaxRetries

MayRetry(error) == error = "transient" /\ failures < MaxRetries

\* What retrying cannot mend, in the words of _classify_exit's description.
Harsh(a) ==
    LET said == a.out \union a.err
    IN  \/ a.exit = 0
        \/ /\ said \intersect {"dns", "rate"} = {}
           /\ a.exit = 75 => said \intersect {"auth", "config"} # {}

RenewalFails(a) ==
    /\ since # None
    /\ Issuance(a) # "ok"
    /\ IF MayRetry(Issuance(a))
       THEN status' = "valid" /\ retryAt' = RetryTime(failures)
       ELSE status' = "failed" /\ UNCHANGED retryAt
    /\ CountFailure
    /\ harsh' = (harsh \/ Harsh(a))
    /\ since' = None /\ origin' = "manual"
    /\ UNCHANGED <<now, up, cert, previous, renewAt, followers, changed,
                   crossed>>

\* A DeploymentError, which is terminal.
DeploymentFails ==
    /\ since # None
    /\ status' = "failed"
    /\ CountFailure
    /\ harsh' = TRUE
    /\ since' = None /\ origin' = "manual"
    /\ UNCHANGED <<now, up, cert, previous, jobs, followers, changed, crossed>>

\* An exception that nobody handles: the row stays RENEWING.
AttemptRaises ==
    /\ since # None
    /\ since' = None /\ origin' = "manual"
    /\ UNCHANGED <<now, up, status, cert, previous, jobs, followers, failures,
                   history>>

-----------------------------------------------------------------------------
\* A stop, which takes the jobs and an attempt in progress with it.
Stop ==
    /\ up
    /\ up' = FALSE
    /\ renewAt' = None /\ retryAt' = None
    /\ since' = None /\ origin' = "manual"
    /\ followers' = {}
    /\ UNCHANGED <<now, status, cert, previous, failures, history>>

\* start and rebuild_jobs: VALID rows only.  (The certificate.expiring event
\* they may emit changes nothing here.)
Start ==
    /\ ~up
    /\ up' = TRUE
    /\ IF status = "valid" THEN Schedule(cert.expiry) ELSE UNCHANGED renewAt
    /\ changed' = now /\ crossed' = {}
    /\ UNCHANGED <<now, status, cert, previous, retryAt, attempt, followers,
                   failures, harsh>>

-----------------------------------------------------------------------------
Next ==
    \/ Tick
    \/ RenewJob \/ RetryJob \/ ManualRenewal
    \/ \E a \in Answers : Renewed(a) \/ RenewalFails(a)
    \/ DeploymentFails \/ AttemptRaises
    \/ SelectPrevious
    \/ \E t \in followers :
           Refresh(t) \/ FollowerSchedules(t) \/ FollowerRaises(t)
    \/ Stop \/ Start

Spec == Init /\ [][Next]_vars

-----------------------------------------------------------------------------
(***************************************************************************)
(* When the job of the certificate in service runs at the latest: when its *)
(* window opens, or if that has passed, once what last committed or        *)
(* started has scheduled.                                                  *)
(***************************************************************************)
Due == IF cert.notAfter - Window <= changed + DispatchTime
       THEN changed + DispatchTime ELSE cert.notAfter - Window

(***************************************************************************)
(* While the process runs and the row says VALID, no more than Budget has  *)
(* passed since the certificate in service came due, so that it has not    *)
(* expired if Budget is less than the window: retries do not drift, a      *)
(* manual renewal, a job that is skipped or a renewal that overtakes       *)
(* another does not displace the job that is needed, and the expiry read   *)
(* from acme.sh's output is never later than the true one.  Excepted is a  *)
(* selection that commits between another coroutine's commit and its       *)
(* scheduling, which then follows the certificate that is no longer in     *)
(* service (renew_certificate, lines 202 to 205), and a scheduling lost to *)
(* an exception.                                                           *)
(***************************************************************************)
Kept == crossed \intersect {"selection", "lost"} = {}

RenewedInTime == up /\ status = "valid" /\ Kept => now <= Due + Budget

(***************************************************************************)
(* A certificate is FAILED by transient errors alone only when one more    *)
(* than MaxRetries renewals have failed: rate limits, DNS propagation and  *)
(* exit code 75 are retried (_classify_exit, _record_failure).             *)
(***************************************************************************)
RetriedBeforeFailed ==
    status = "failed" /\ ~harsh => failures = MaxRetries + 1

(***************************************************************************)
(* The job follows the row: once nobody is between a commit and its        *)
(* scheduling, and nobody overtook or lost one, the job there is runs when *)
(* the window of the recorded expiry opens, or was placed too late for     *)
(* that and runs at once (schedule_certificate).                           *)
(***************************************************************************)
JobFollowsRow ==
    followers = {} /\ crossed = {} /\ renewAt # None =>
        \/ renewAt = cert.expiry - Window
        \/ cert.expiry - Window <= renewAt /\ renewAt <= changed + DispatchTime

-----------------------------------------------------------------------------
(***************************************************************************)
(* The inductive invariants behind them.  Dates: a recorded expiry is not  *)
(* later than the true one, and neither is later than a certificate issued *)
(* now would last.                                                         *)
(***************************************************************************)
RecordedInv ==
    /\ \A c \in {cert, previous} :
           c.expiry <= c.notAfter /\ c.notAfter <= now + Lifetime
    /\ \A t \in followers : t.expiry <= now + Lifetime
    /\ renewAt <= now \/ renewAt <= now + Lifetime - Window

\* Time passes no job that is due, no command and no dispatch beyond its limit.
PendingInv ==
    /\ renewAt # None => now <= renewAt
    /\ retryAt # None => now <= retryAt
    /\ since # None =>
           /\ up /\ status = "renewing"
           /\ since <= now /\ now <= since + CommandTime
    /\ changed <= now
    /\ \A t \in followers :
           t.at <= changed /\ now <= t.at + DispatchTime

(***************************************************************************)
(* Who has not been overtaken holds the row's expiry.                      *)
(***************************************************************************)
AloneInv ==
    crossed = {} => \A t \in followers :
        /\ followers = {t} /\ t.at = changed
        /\ t.refreshed => t.expiry = cert.expiry

(***************************************************************************)
(* What is held after a commit, and the job, are in time for the           *)
(* certificate in service, or a selection is about to see to the job.      *)
(***************************************************************************)
Selecting == \E t \in followers : t.origin = "select"

HeldInv ==
    Kept => /\ \A t \in followers : t.refreshed => t.expiry <= cert.notAfter
            /\ renewAt # None => renewAt <= Due \/ Selecting

(***************************************************************************)
(* Once the job has been taken off the schedule, an attempt is in          *)
(* progress, a retry is pending or somebody is about to schedule, and      *)
(* after n failures the first two are not later than Latest(n): n commands *)
(* and the back-offs 2^0 .. 2^(n-1) after the job came due.                *)
(***************************************************************************)
Latest(n) == Due + 2 ^ n - 1 + n * CommandTime

ChainInv ==
    up /\ Kept /\ renewAt = None =>
        /\ since # None => since <= Latest(failures)
        /\ status = "valid" /\ followers = {} =>
               /\ retryAt # None
               /\ retryAt <= Latest(failures)
               /\ failures <= MaxRetries

=============================================================================
