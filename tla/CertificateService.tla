------------------------- MODULE CertificateService -------------------------
(***************************************************************************)
(* CertificateLifecycleService and the routes that call it: creation,      *)
(* authorization, release, issuance, recovery after a restart, deletion    *)
(* and manual renewal.  Each action is what a coroutine does between two   *)
(* awaits at which the row may change under it.                            *)
(***************************************************************************)
EXTENDS CertificateStore

-----------------------------------------------------------------------------
(***************************************************************************)
(* POST /v1/certificates.  The lookup and the INSERT are apart, with the   *)
(* generation of the DNS Persist value between them; the unique constraint *)
(* decides which of two creations inserts.  seen is the row to insert.     *)
(***************************************************************************)
InitialStatus(c, hold) ==
    IF c \notin Persist THEN "pending"
    ELSE IF hold THEN "held" ELSE "pending_dns"

CreateFind(w, c, hold) ==
    /\ Accepting
    /\ row[c].status = "absent"
    /\ hold => c \in Persist
    /\ Begin(w, [At("create.insert", c) EXCEPT
                    !.seen.status = InitialStatus(c, hold)])
    /\ UNCHANGED <<row, failures, jobs, up, recoveryDue, resume, held,
                   disturbed>>

CreateInsert(w) ==
    LET c == task[w].cert
    IN  /\ task[w].pc = "create.insert"
        /\ row[c].status = "absent"
        /\ row' = [row EXCEPT ![c] = task[w].seen]
        /\ held' = IF task[w].seen.status = "held"
                   THEN held \union {c} ELSE held
        /\ IF task[w].seen.status = "pending"
           THEN Goto(w, "issue.start") ELSE Finish(w)
        /\ UNCHANGED <<failures, jobs, up, recoveryDue, resume, disturbed>>

\* Mutant: the loser of the INSERT queues an issuance as well.
CollidesAndIssues(w) ==
    /\ task[w].pc = "create.insert"
    /\ row[task[w].cert].status # "absent"
    /\ Goto(w, "issue.start")
    /\ UNCHANGED <<row, failures, jobs, up, recoveryDue, resume, held,
                   disturbed>>

\* The INSERT loses to a concurrent creation of the same identity.
CreateCollides(w) ==
    /\ task[w].pc = "create.insert"
    /\ row[task[w].cert].status # "absent"
    /\ Finish(w)
    /\ UNCHANGED <<row, failures, jobs, up, recoveryDue, resume, held,
                   disturbed>>

-----------------------------------------------------------------------------
(***************************************************************************)
(* POST /v1/certificates/{id}/authorize.                                   *)
(***************************************************************************)
AuthorizeRead(w, c) ==
    /\ Accepting
    /\ c \in Persist
    /\ row[c].status \in {"held", "pending_dns", "failed"}
    /\ Begin(w, [At("authorize.act", c) EXCEPT !.seen = row[c]])
    /\ UNCHANGED <<row, failures, jobs, up, recoveryDue, resume, held,
                   disturbed>>

\* Mutant: the UPDATE does not test status and revision.
AuthorizeReadyUnguarded(w) ==
    /\ task[w].pc = "authorize.act"
    /\ task[w].seen.status = "held"
    /\ row' = [row EXCEPT ![task[w].cert].status = "authorization_ready",
                          ![task[w].cert].revision = @ + 1]
    /\ Finish(w)
    /\ UNCHANGED <<failures, jobs, up, recoveryDue, resume, held, disturbed>>

AuthorizeReady(w) ==
    LET c == task[w].cert
    IN  /\ task[w].pc = "authorize.act"
        /\ task[w].seen.status = "held"
        /\ row' = IF /\ row[c].status = "held"
                     /\ row[c].revision = task[w].seen.revision
                  THEN [row EXCEPT ![c].status = "authorization_ready",
                                   ![c].revision = @ + 1]
                  ELSE row
        /\ Finish(w)
        /\ UNCHANGED <<failures, jobs, up, recoveryDue, resume, held,
                       disturbed>>

AuthorizeIssue(w) ==
    LET c == task[w].cert
    IN  /\ task[w].pc = "authorize.act"
        /\ task[w].seen.status # "held"
        /\ IF row[c].status \in {"pending_dns", "failed"}
           THEN SetStatus(c, "issuing") /\ Goto(w, "persist.start")
           ELSE Finish(w) /\ UNCHANGED row
        /\ UNCHANGED <<failures, jobs, up, recoveryDue, resume, held,
                       disturbed>>

-----------------------------------------------------------------------------
(***************************************************************************)
(* POST /v1/certificates/{id}/release with a revision and a key.           *)
(***************************************************************************)
ReleaseReplay(w, c, k) ==
    /\ Accepting
    /\ c \in Persist
    /\ row[c].key = k
    /\ row[c].status = "released"
    /\ Begin(w, At("released.claim", c))
    /\ UNCHANGED <<row, failures, jobs, up, recoveryDue, resume, held,
                   disturbed>>

ReleaseRead(w, c, r, k) ==
    /\ Accepting
    /\ c \in Persist
    /\ row[c].status # "absent"
    /\ row[c].key # k
    /\ Begin(w, [At("release.act", c) EXCEPT !.rev = r, !.key = k])
    /\ UNCHANGED <<row, failures, jobs, up, recoveryDue, resume, held,
                   disturbed>>

\* Mutant: the UPDATE tests the revision alone.
ReleasableAnytime(c, r) == row[c].revision = r

Releasable(c, r) ==
    /\ row[c].revision = r
    /\ row[c].key = NoKey
    /\ row[c].status \in {"held", "authorization_ready"}

\* Mutant: the key of the accepted release is not stored.
ReleaseForgetsKey(w) ==
    LET c == task[w].cert
    IN  /\ task[w].pc = "release.act"
        /\ Releasable(c, task[w].rev)
        /\ row' = [row EXCEPT ![c].status = "released", ![c].revision = @ + 1]
        /\ Goto(w, "released.claim")
        /\ UNCHANGED <<failures, jobs, up, recoveryDue, resume, held,
                       disturbed>>

ReleaseAct(w) ==
    LET c == task[w].cert
    IN  /\ task[w].pc = "release.act"
        /\ Releasable(c, task[w].rev)
        /\ row' = [row EXCEPT ![c] = [status |-> "released",
                                      revision |-> @.revision + 1,
                                      key |-> task[w].key]]
        /\ Goto(w, "released.claim")
        /\ UNCHANGED <<failures, jobs, up, recoveryDue, resume, held,
                       disturbed>>

(***************************************************************************)
(* The guarded UPDATE matches nothing and the row is read again: a replay  *)
(* of the accepted key may still start issuance, any other is refused.     *)
(* (Reading in the same step loses nothing: a row that comes to hold the   *)
(* key after the failed UPDATE would have failed the UPDATE as well.)      *)
(***************************************************************************)
ReleaseRefused(w) ==
    LET c == task[w].cert
    IN  /\ task[w].pc = "release.act"
        /\ ~Releasable(c, task[w].rev)
        /\ IF row[c].key = task[w].key /\ row[c].status = "released"
           THEN Goto(w, "released.claim") ELSE Finish(w)
        /\ UNCHANGED <<row, failures, jobs, up, recoveryDue, resume, held,
                       disturbed>>

-----------------------------------------------------------------------------
(***************************************************************************)
(* Issuance.  issue_certificate serves dns-01 rows: it reads PENDING, then *)
(* writes ISSUING blindly.                                                 *)
(***************************************************************************)
IssueRead(s) ==
    /\ task[s].pc = "issue.start"
    /\ IF row[task[s].cert].status = "pending"
       THEN Goto(s, "issue.claim") ELSE Finish(s)
    /\ UNCHANGED <<row, failures, jobs, up, recoveryDue, resume, held,
                   disturbed>>

IssueClaim(s) ==
    /\ task[s].pc = "issue.claim"
    /\ BlindStatus(task[s].cert, "pending", "issuing")
    /\ Goto(s, "issue.backend")
    /\ UNCHANGED <<failures, jobs, up, recoveryDue, resume, held, disturbed>>

\* Mutant: the claim does not test the status.
ReleasedClaimUnguarded(s) ==
    /\ task[s].pc = "released.claim"
    /\ SetStatus(task[s].cert, "issuing")
    /\ Goto(s, "issue.backend")
    /\ UNCHANGED <<failures, jobs, up, recoveryDue, resume, held, disturbed>>

\* issue_released_dns_persist_certificate: a guarded claim.
ReleasedClaim(s) ==
    LET c == task[s].cert
    IN  /\ task[s].pc = "released.claim"
        /\ IF row[c].status = "released"
           THEN SetStatus(c, "issuing") /\ Goto(s, "issue.backend")
           ELSE Finish(s) /\ UNCHANGED row
        /\ UNCHANGED <<failures, jobs, up, recoveryDue, resume, held,
                       disturbed>>

\* issue_dns_persist_certificate: the row was set to ISSUING beforehand.
PersistRead(s) ==
    /\ task[s].pc = "persist.start"
    /\ IF row[task[s].cert].status = "issuing"
       THEN Goto(s, "issue.backend") ELSE Finish(s)
    /\ UNCHANGED <<row, failures, jobs, up, recoveryDue, resume, held,
                   disturbed>>

\* Mutant: VALID is written without testing that the row is still ISSUING.
IssueSucceedsBlindly(s) ==
    /\ task[s].pc = "issue.backend"
    /\ SetStatus(task[s].cert, "valid")
    /\ Goto(s, "issue.schedule")
    /\ UNCHANGED <<failures, jobs, up, recoveryDue, resume, held, disturbed>>

(***************************************************************************)
(* _issue_and_deploy.  acme.sh returns and the artifacts are deployed; the *)
(* row becomes VALID only if it is still ISSUING.  The job is added after  *)
(* the webhooks have been delivered.                                       *)
(***************************************************************************)
IssueSucceeds(s) ==
    LET c == task[s].cert
    IN  /\ task[s].pc = "issue.backend"
        /\ IF row[c].status = "issuing"
           THEN SetStatus(c, "valid") /\ Goto(s, "issue.schedule")
           ELSE Finish(s) /\ UNCHANGED row
        /\ UNCHANGED <<failures, jobs, up, recoveryDue, resume, held,
                       disturbed>>

\* An AcmeShError or a DeploymentError, by way of _mark_failed.
IssueFails(s) ==
    LET c == task[s].cert
    IN  /\ task[s].pc = "issue.backend"
        /\ IF row[c].status = "issuing"
           THEN SetStatus(c, "failed") ELSE UNCHANGED row
        /\ Finish(s)
        /\ UNCHANGED <<failures, jobs, up, recoveryDue, resume, held,
                       disturbed>>

IssueSchedule(s) ==
    /\ task[s].pc = "issue.schedule"
    /\ jobs' = jobs \union {<<"renew", task[s].cert>>}
    /\ Finish(s)
    /\ UNCHANGED <<row, failures, up, recoveryDue, resume, held, disturbed>>

-----------------------------------------------------------------------------
\* Mutant: the recovery does not filter by status.
ResumableAnyStatus == {c \in Persist : row[c].key # NoKey}

\* Mutant: the recovery forgets requests that were being issued.
ResumableReleased ==
    {c \in Persist : row[c].key # NoKey /\ row[c].status = "released"}

(***************************************************************************)
(* resume_released_dns_persist_certificates, run once per start: it takes  *)
(* one snapshot and works through it, one certificate after the other.     *)
(***************************************************************************)
Resumable ==
    {c \in Persist : /\ row[c].key # NoKey
                     /\ row[c].status \in {"released", "issuing"}}

ResumeSnapshot ==
    /\ up
    /\ recoveryDue
    /\ recoveryDue' = FALSE
    /\ resume' = {<<c, row[c].status>> : c \in Resumable}
    /\ UNCHANGED <<row, failures, task, jobs, up, held, disturbed>>

ResumeNext(x) ==
    /\ x \in resume
    /\ Begin(Recovery, At(IF x[2] = "released" THEN "released.claim"
                          ELSE "persist.start", x[1]))
    /\ resume' = resume \ {x}
    /\ UNCHANGED <<row, failures, jobs, up, recoveryDue, held, disturbed>>

-----------------------------------------------------------------------------
(***************************************************************************)
(* DELETE /v1/certificates/{id}: the row is read, written blindly, and     *)
(* after the webhooks its jobs are removed.                                *)
(***************************************************************************)
HeldRequest(r) ==
    \/ r.status \in {"held", "authorization_ready", "cancelled"}
    \/ r.status = "released" /\ r.revision > 0
    \/ r.status = "issuing" /\ r.key # NoKey

DeleteRead(w, c) ==
    /\ Accepting
    /\ row[c].status # "absent"
    /\ Begin(w, [At("delete.write", c) EXCEPT !.seen = row[c]])
    /\ UNCHANGED <<row, failures, jobs, up, recoveryDue, resume, held,
                   disturbed>>

DeleteWrite(w) ==
    LET c == task[w].cert
        seen == task[w].seen
    IN  /\ task[w].pc = "delete.write"
        /\ BlindStatus(c, seen.status,
                       IF HeldRequest(seen) THEN "cancelled" ELSE "revoked")
        /\ Goto(w, "delete.remove")
        /\ disturbed' = disturbed \union {c}
        /\ UNCHANGED <<failures, jobs, up, recoveryDue, resume, held>>

DeleteRemove(w) ==
    /\ task[w].pc = "delete.remove"
    /\ jobs' = {j \in jobs : j[2] # task[w].cert}
    /\ Finish(w)
    /\ UNCHANGED <<row, failures, up, recoveryDue, resume, held, disturbed>>

-----------------------------------------------------------------------------
(***************************************************************************)
(* POST /v1/certificates/{id}/generations/select: module Deployer has      *)
(* the switch of the artifacts.  Whatever the status of the row, which is  *)
(* neither tested nor written, a job is added after the commit.            *)
(***************************************************************************)
SelectRead(w, c) ==
    /\ Accepting
    /\ row[c].status # "absent"
    /\ Begin(w, At("select.schedule", c))
    /\ UNCHANGED <<row, failures, jobs, up, recoveryDue, resume, held,
                   disturbed>>

SelectSchedule(w) ==
    /\ task[w].pc = "select.schedule"
    /\ jobs' = jobs \union {<<"renew", task[w].cert>>}
    /\ Finish(w)
    /\ UNCHANGED <<row, failures, up, recoveryDue, resume, held, disturbed>>

-----------------------------------------------------------------------------
(***************************************************************************)
(* An exception that no handler names (the SQLite database is locked,      *)
(* acme.sh cannot be executed, a webhook host cannot be encoded) ends the  *)
(* coroutine where it stands; in the recovery task it also drops the rest  *)
(* of the snapshot.                                                        *)
(***************************************************************************)
TaskRaises(s) ==
    /\ task[s].pc # "idle"
    /\ Finish(s)
    /\ resume' = IF s = Recovery THEN {} ELSE resume
    /\ disturbed' = disturbed \union {task[s].cert}
                        \union IF s = Recovery THEN {x[1] : x \in resume}
                               ELSE {}
    /\ UNCHANGED <<row, failures, jobs, up, recoveryDue, held>>

(***************************************************************************)
(* The process stops, by a crash or by a shutdown: the recovery task and   *)
(* the coroutines of running jobs are cancelled and nothing but the        *)
(* database survives.                                                      *)
(***************************************************************************)
Stop ==
    /\ up
    /\ up' = FALSE
    /\ task' = [s \in Slots |-> Idle]
    /\ jobs' = {}
    /\ recoveryDue' = FALSE
    /\ resume' = {}
    /\ UNCHANGED <<row, failures, held, disturbed>>

(***************************************************************************)
(* The lifespan starts the scheduler, which rebuilds a job for every VALID *)
(* row, and creates the recovery task before the first request is served.  *)
(***************************************************************************)
Start ==
    /\ ~up
    /\ up' = TRUE
    /\ jobs' = {<<"renew", c>> : c \in {d \in Certs : row[d].status = "valid"}}
    /\ recoveryDue' = TRUE
    /\ disturbed' = {}
    /\ UNCHANGED <<row, failures, task, resume, held>>

-----------------------------------------------------------------------------
Request(w) ==
    \/ \E c \in Certs, hold \in BOOLEAN : CreateFind(w, c, hold)
    \/ \E c \in Certs : \/ AuthorizeRead(w, c) \/ DeleteRead(w, c)
                       \/ SelectRead(w, c)
    \/ \E c \in Certs, k \in Keys : ReleaseReplay(w, c, k)
    \/ \E c \in Certs, r \in Revisions, k \in Keys : ReleaseRead(w, c, r, k)

Handler(w) ==
    \/ CreateInsert(w) \/ CreateCollides(w)
    \/ AuthorizeReady(w) \/ AuthorizeIssue(w)
    \/ ReleaseAct(w) \/ ReleaseRefused(w)
    \/ DeleteWrite(w) \/ DeleteRemove(w)
    \/ SelectSchedule(w)

Issuer(s) ==
    \/ IssueRead(s) \/ IssueClaim(s)
    \/ ReleasedClaim(s) \/ PersistRead(s)
    \/ IssueSucceeds(s) \/ IssueFails(s) \/ IssueSchedule(s)

Resume == ResumeSnapshot \/ \E x \in resume : ResumeNext(x)

ServiceNext ==
    \/ \E w \in Workers : Request(w) \/ Handler(w)
    \/ \E s \in Slots : Issuer(s) \/ TaskRaises(s)
    \/ Resume
    \/ Stop \/ Start

ServiceSpec == Init /\ [][ServiceNext]_vars

=============================================================================
