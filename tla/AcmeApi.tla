------------------------------- MODULE AcmeApi ------------------------------
(***************************************************************************)
(* The running program: the certificate service and the renewal scheduler  *)
(* on one event loop and one database, with stops and restarts, and what   *)
(* must hold of them together.                                             *)
(***************************************************************************)
EXTENDS CertificateService, RenewalScheduler

Next == ServiceNext \/ SchedulerNext

Spec == Init /\ [][Next]_vars

-----------------------------------------------------------------------------
(***************************************************************************)
(* A request created as held reaches acme.sh, and any status past the      *)
(* hold, only after a release was accepted for it: whatever authorizations,*)
(* recoveries, renewals and stale deletions are interleaved, its row stays *)
(* held, ready, cancelled or revoked until release_idempotency_key is set. *)
(***************************************************************************)
Unreleased == {"held", "authorization_ready", "cancelled", "revoked"}

HeldNeedsRelease ==
    \A c \in held : row[c].key = NoKey =>
        /\ row[c].status \in Unreleased
        /\ ~Busy(c, {"issue.backend", "issue.schedule", "renew.backend"})

(***************************************************************************)
(* A release is accepted once per request: the key that won stays, and the *)
(* revision it released is never superseded.  This is what makes a replay  *)
(* of release_held_dns_persist_certificate idempotent across retries,      *)
(* concurrent releases and restarts.                                       *)
(***************************************************************************)
ReleaseOnce ==
    [][\A c \in Certs : row[c].key # NoKey =>
           row'[c].key = row[c].key /\ row'[c].revision = row[c].revision]_vars

(***************************************************************************)
(* No accepted release is orphaned: while the process is up, a released    *)
(* request that is not settled has a coroutine that will act on it, or the *)
(* recovery task still has it ahead of it, unless its coroutine ended in   *)
(* an unhandled exception (resume_released_dns_persist_certificates is     *)
(* what covers a stop between the release and the issuance).               *)
(***************************************************************************)
PursuitPoint(status) ==
    IF status = "released" THEN {"released.claim"}
    ELSE {"persist.start", "issue.backend"}

Pursued(c) ==
    \/ recoveryDue
    \/ <<c, row[c].status>> \in resume
    \/ Busy(c, PursuitPoint(row[c].status))

ReleasedNotOrphaned ==
    \A c \in Persist :
        /\ up
        /\ row[c].key # NoKey
        /\ row[c].status \in {"released", "issuing"}
        /\ c \notin disturbed
        => Pursued(c)

(***************************************************************************)
(* A VALID certificate stays on the renewal schedule: it has a job, or a   *)
(* coroutine that will add one, run one or fail the certificate, unless it *)
(* was deleted, a job of it was dropped, or a coroutine of it ended in an  *)
(* unhandled exception since the last start.                               *)
(***************************************************************************)
CoverPoint == {"issue.schedule", "renew.start", "renew.claim",
               "renew.backend", "renew.failing", "renew.schedule"}

Covered(c) == (\E k \in JobKind : <<k, c>> \in jobs) \/ Busy(c, CoverPoint)

RenewalCovered ==
    \A c \in Certs :
        up /\ row[c].status = "valid" /\ c \notin disturbed => Covered(c)

-----------------------------------------------------------------------------
(***************************************************************************)
(* The inductive invariant.  Until a request is released, nothing that     *)
(* could issue or renew it exists: no entry of the recovery task, and no   *)
(* coroutine but the handlers of requests and a renewal that is yet to     *)
(* read the row (selecting a generation adds a job whatever the status).   *)
(***************************************************************************)
Prerelease(c) == row[c].status = "absent" \/ (c \in held /\ row[c].key = NoKey)

HarmlessPoint == {"idle", "create.insert", "authorize.act", "release.act",
                  "delete.write", "delete.remove", "select.schedule",
                  "renew.start"}

Quiet(c) ==
    /\ \A s \in Slots : task[s].cert = c => task[s].pc \in HarmlessPoint
    /\ \A x \in resume : x[1] # c

RowInv ==
    \A c \in Certs :
        /\ row[c].status = "absent" => row[c].key = NoKey /\ c \notin held
        /\ row[c].key # NoKey =>
               row[c].status \notin {"held", "authorization_ready"}
        /\ c \in held /\ row[c].key = NoKey => row[c].status \in Unreleased

\* What a creation inserts, and the key of a release.
ArgsOK(t) ==
    /\ t.pc = "create.insert" =>
           /\ t.seen.key = NoKey
           /\ t.seen.status \in {"pending", "pending_dns", "held"}
    /\ t.pc = "release.act" => t.key \in Keys

ArgsInv == \A s \in Slots : ArgsOK(task[s])

QuietInv == \A c \in Certs : Prerelease(c) => Quiet(c)

HeldInv == TypeOK /\ RowInv /\ ArgsInv /\ QuietInv

(***************************************************************************)
(* What the pursuit of releases and the cover of renewals rest on besides: *)
(* a stopped process has nothing in flight, so that the next start, which  *)
(* forgets what was disturbed, finds every coroutine idle; and a deletion  *)
(* that is about to remove jobs has been recorded as one.                  *)
(***************************************************************************)
DownInv ==
    ~up => /\ \A s \in Slots : task[s].pc = "idle"
           /\ jobs = {}
           /\ resume = {}
           /\ ~recoveryDue

RemoveInv ==
    \A s \in Slots : task[s].pc = "delete.remove" => task[s].cert \in disturbed

-----------------------------------------------------------------------------
(***************************************************************************)
(* Statements of the repository that the code does not keep.               *)
(***************************************************************************)

(***************************************************************************)
(* docs/plan.md: DELETE is a soft delete, it marks the certificate as      *)
(* Revoked and removes it from the renewal schedule.  Stated as: a revoked *)
(* certificate does not become VALID.  It does when it is deleted while    *)
(* acme.sh renews it: renew_certificate then writes VALID on the object it *)
(* loaded before.                                                          *)
(***************************************************************************)
RevokedStaysRevoked ==
    [][\A c \in Certs : row[c].status = "revoked" =>
           row'[c].status # "valid"]_vars

(***************************************************************************)
(* docs/plan.md: jobs are reconstructed from the database on restart, so   *)
(* that a certificate inside its renewal window is rescheduled.  Stated    *)
(* as: a certificate that is in service, one whose renewal the stop cut    *)
(* short included, has a job right after a start.                          *)
(***************************************************************************)
RestartReschedules ==
    [][\A c \in Certs : Start /\ row[c].status \in {"valid", "renewing"} =>
           <<"renew", c>> \in jobs']_vars

=============================================================================
