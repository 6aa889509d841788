-------------------------- MODULE RenewalScheduler --------------------------
(***************************************************************************)
(* RenewalScheduler and APScheduler as it is used here.  Clocks are left   *)
(* out: a job may fire at any time, early renewals included, and whether a *)
(* job came due too late to be run is a choice.                            *)
(***************************************************************************)
EXTENDS CertificateStore

\* Some coroutine is an instance of job j (APScheduler runs at most one).
Running(j) ==
    \E w \in Workers : task[w].job = j[1] /\ task[w].cert = j[2]

(***************************************************************************)
(* APScheduler (external).  A date job leaves the store when it comes due: *)
(* it is run, or skipped because its last instance is still running, or    *)
(* dropped because its misfire grace time (an hour for renewals, the       *)
(* default of one second for retries) has passed.                          *)
(***************************************************************************)
JobFires(w, j) ==
    /\ up
    /\ j \in jobs
    /\ ~Running(j)
    /\ jobs' = jobs \ {j}
    /\ Begin(w, [At("renew.start", j[2]) EXCEPT !.job = j[1]])
    /\ UNCHANGED <<row, failures, up, recoveryDue, resume, held, disturbed>>

JobSkipped(j) ==
    /\ up
    /\ j \in jobs
    /\ Running(j)
    /\ jobs' = jobs \ {j}
    /\ disturbed' = disturbed \union {j[2]}
    /\ UNCHANGED <<row, failures, task, up, recoveryDue, resume, held>>

JobMissed(j) ==
    /\ up
    /\ j \in jobs
    /\ jobs' = jobs \ {j}
    /\ disturbed' = disturbed \union {j[2]}
    /\ UNCHANGED <<row, failures, task, up, recoveryDue, resume, held>>

(***************************************************************************)
(* POST /v1/certificates/{id}/renew queues the same coroutine without a    *)
(* job.                                                                    *)
(***************************************************************************)
ManualRenew(w, c) ==
    /\ Accepting
    /\ row[c].status = "valid"
    /\ Begin(w, At("renew.start", c))
    /\ UNCHANGED <<row, failures, jobs, up, recoveryDue, resume, held,
                   disturbed>>

-----------------------------------------------------------------------------
(***************************************************************************)
(* renew_certificate.  The status is read once, and every write after that *)
(* is blind.                                                               *)
(***************************************************************************)
RenewRead(w) ==
    /\ task[w].pc = "renew.start"
    /\ IF row[task[w].cert].status = "valid"
       THEN Step(w, "renew.claim") ELSE Finish(w)
    /\ UNCHANGED <<row, failures, jobs, up, recoveryDue, resume, held,
                   disturbed>>

RenewClaim(w) ==
    /\ task[w].pc = "renew.claim"
    /\ BlindStatus(task[w].cert, "valid", "renewing")
    /\ Step(w, "renew.backend")
    /\ UNCHANGED <<failures, jobs, up, recoveryDue, resume, held, disturbed>>

RenewSucceeds(w) ==
    /\ task[w].pc = "renew.backend"
    /\ BlindStatus(task[w].cert, "renewing", "valid")
    /\ Step(w, "renew.schedule")
    /\ UNCHANGED <<failures, jobs, up, recoveryDue, resume, held, disturbed>>

\* Mutant: a renewed certificate is not scheduled again.
RenewForgetsJob(w) ==
    /\ task[w].pc = "renew.schedule"
    /\ Finish(w)
    /\ UNCHANGED <<row, failures, jobs, up, recoveryDue, resume, held,
                   disturbed>>

RenewSchedule(w) ==
    /\ task[w].pc = "renew.schedule"
    /\ jobs' = jobs \union {<<"renew", task[w].cert>>}
    /\ Finish(w)
    /\ UNCHANGED <<row, failures, up, recoveryDue, resume, held, disturbed>>

(***************************************************************************)
(* _record_failure.  The earlier failures are counted, then the row is     *)
(* written and the attempt added; only the comparison with MaxRetries      *)
(* matters, so the count stops there.                                      *)
(***************************************************************************)
AddFailure(c) ==
    failures' = [failures EXCEPT ![c] = IF @ < MaxRetries THEN @ + 1 ELSE @]

\* A TransientAcmeShError: the failures are counted.
RenewFailsTransiently(w) ==
    /\ task[w].pc = "renew.backend"
    /\ task' = [task EXCEPT ![w].pc = "renew.failing",
                            ![w].count = failures[task[w].cert]]
    /\ UNCHANGED <<row, failures, jobs, up, recoveryDue, resume, held,
                   disturbed>>

RenewRetries(w) ==
    LET c == task[w].cert
    IN  /\ task[w].pc = "renew.failing"
        /\ task[w].count < MaxRetries
        /\ BlindStatus(c, "renewing", "valid")
        /\ jobs' = jobs \union {<<"retry", c>>}
        /\ AddFailure(c)
        /\ Step(w, "renew.notify")
        /\ UNCHANGED <<up, recoveryDue, resume, held, disturbed>>

\* The retries are used up, or the error is terminal.
RenewGivesUp(w) ==
    LET c == task[w].cert
    IN  /\ \/ task[w].pc = "renew.failing" /\ task[w].count >= MaxRetries
           \/ task[w].pc = "renew.backend"
        /\ BlindStatus(c, "renewing", "failed")
        /\ AddFailure(c)
        /\ Step(w, "renew.notify")
        /\ UNCHANGED <<jobs, up, recoveryDue, resume, held, disturbed>>

\* The webhooks of a failure are delivered before the coroutine ends.
RenewNotified(w) ==
    /\ task[w].pc = "renew.notify"
    /\ Finish(w)
    /\ UNCHANGED <<row, failures, jobs, up, recoveryDue, resume, held,
                   disturbed>>

-----------------------------------------------------------------------------
Jobs ==
    \E j \in jobs : \/ \E w \in Workers : JobFires(w, j)
                    \/ JobSkipped(j)
                    \/ JobMissed(j)

Renewer(w) ==
    \/ RenewRead(w) \/ RenewClaim(w)
    \/ RenewSucceeds(w) \/ RenewSchedule(w)
    \/ RenewFailsTransiently(w) \/ RenewRetries(w) \/ RenewGivesUp(w)
    \/ RenewNotified(w)

SchedulerNext ==
    \/ Jobs
    \/ \E w \in Workers : Renewer(w) \/ \E c \in Certs : ManualRenew(w, c)

=============================================================================
