-------------------------- MODULE CertificateStore --------------------------
(***************************************************************************)
(* The state that the certificate service, the renewal scheduler and the   *)
(* HTTP routers share: the rows of the certificates table, the coroutines  *)
(* in flight on the event loop, and the jobs held in memory by APScheduler.*)
(*                                                                         *)
(* A coroutine is interrupted only where it awaits.  A SELECT runs outside *)
(* any transaction, so what it returns may be stale by the time the        *)
(* coroutine writes.  Two kinds of write follow:                           *)
(*   - a guarded one, UPDATE ... WHERE status = ... RETURNING, which tests  *)
(*     and sets the row in one transaction;                                *)
(*   - a blind one, the UPDATE the ORM emits for an attribute assigned on  *)
(*     an object loaded earlier, which tests nothing but the primary key   *)
(*     and is emitted only if the attribute differs from what was loaded.  *)
(***************************************************************************)
EXTENDS Naturals

CONSTANTS
    Certs,          \* request identities (name, ACME account, method)
    Persist,        \* those whose challenge method is dns-persist
    Workers,        \* coroutines that requests and jobs may occupy at once
    Recovery,       \* the startup task that resumes released requests
    Keys,           \* Idempotency-Key values sent by clients
    NoKey,          \* release_idempotency_key IS NULL
    NoCert,         \* the certificate of an idle coroutine
    Revisions,      \* revisions clients name in a release
    MaxRetries,     \* renewal.max_retries
    PromptRecovery  \* TRUE if the recovery task's SELECT precedes all traffic

ASSUME PersistAssumption == Persist \subseteq Certs
ASSUME RecoveryAssumption == Recovery \notin Workers
ASSUME KeyAssumption == NoKey \notin Keys
ASSUME CertAssumption == NoCert \notin Certs
ASSUME RevisionsAssumption == Revisions \subseteq Nat
ASSUME RetriesAssumption == MaxRetries \in Nat
ASSUME PromptAssumption == PromptRecovery \in BOOLEAN

VARIABLES
    row,          \* the certificates table; status "absent" before the INSERT
    failures,     \* failed renewal_attempts per certificate, up to MaxRetries
    task,         \* the coroutines in flight
    jobs,         \* APScheduler's jobs, <<kind, certificate>>
    up,           \* whether the process is running
    recoveryDue,  \* the recovery task has not read its snapshot yet
    resume,       \* what is left of the recovery task's snapshot
    held,         \* history: the requests created with held = true
    disturbed     \* history: deleted, or cut short, since the last start

vars == <<row, failures, task, jobs, up, recoveryDue, resume, held, disturbed>>

-----------------------------------------------------------------------------
Status == {"pending", "pending_dns", "held", "authorization_ready",
           "released", "issuing", "valid", "renewing", "failed",
           "cancelled", "revoked"}

Row == [status : Status \union {"absent"}, revision : Nat,
        key : Keys \union {NoKey}]

NoRow == [status |-> "absent", revision |-> 1, key |-> NoKey]

JobKind == {"renew", "retry"}

Slots == Workers \union {Recovery}

(***************************************************************************)
(* A coroutine is suspended at one of these points.                        *)
(***************************************************************************)
IssuePoint == {"issue.start", "issue.claim", "released.claim",
               "persist.start", "issue.backend", "issue.schedule"}

RenewPoint == {"renew.start", "renew.claim", "renew.backend",
               "renew.failing", "renew.notify", "renew.schedule"}

Point == {"idle", "create.insert", "authorize.act", "release.act",
          "delete.write", "delete.remove", "select.schedule"}
             \union IssuePoint \union RenewPoint

(***************************************************************************)
(* seen is the row object the coroutine loaded, rev and key the arguments  *)
(* of a release, count the failures a renewal read, and job the kind of    *)
(* the APScheduler job that the coroutine is an instance of.               *)
(***************************************************************************)
Task == [pc : Point, cert : Certs \union {NoCert}, seen : Row, rev : Nat,
         key : Keys \union {NoKey}, count : 0 .. MaxRetries,
         job : JobKind \union {"none"}]

At(p, c) == [pc |-> p, cert |-> c, seen |-> NoRow, rev |-> 0,
             key |-> NoKey, count |-> 0, job |-> "none"]

Idle == At("idle", NoCert)

TaskTypeOK ==
    /\ task \in [Slots -> Task]
    /\ \A s \in Slots : task[s].pc # "idle" => task[s].cert \in Certs

TypeOK ==
    /\ row \in [Certs -> Row]
    /\ failures \in [Certs -> 0 .. MaxRetries]
    /\ TaskTypeOK
    /\ jobs \subseteq JobKind \X Certs
    /\ up \in BOOLEAN
    /\ recoveryDue \in BOOLEAN
    /\ resume \subseteq Certs \X {"released", "issuing"}
    /\ held \subseteq Certs
    /\ disturbed \subseteq Certs

Init ==
    /\ row = [c \in Certs |-> NoRow]
    /\ failures = [c \in Certs |-> 0]
    /\ task = [s \in Slots |-> Idle]
    /\ jobs = {}
    /\ up = FALSE
    /\ recoveryDue = FALSE
    /\ resume = {}
    /\ held = {}
    /\ disturbed = {}

-----------------------------------------------------------------------------
(***************************************************************************)
(* Coroutines.                                                             *)
(***************************************************************************)
Begin(w, t) == task[w].pc = "idle" /\ task' = [task EXCEPT ![w] = t]

Finish(s) == task' = [task EXCEPT ![s] = Idle]

Goto(s, pc) == task' = [task EXCEPT ![s] = At(pc, task[s].cert)]

\* A renewal keeps the identity of the job it is an instance of.
Step(s, pc) == task' = [task EXCEPT ![s].pc = pc]

\* A coroutine whose certificate is c is suspended at a point of P.
Busy(c, P) == \E s \in Slots : task[s].cert = c /\ task[s].pc \in P

(***************************************************************************)
(* Writes.  A blind write of a status lands whatever the row holds now,    *)
(* unless it equals the status that was loaded.                            *)
(***************************************************************************)
SetStatus(c, s) == row' = [row EXCEPT ![c].status = s]

BlindStatus(c, loaded, s) ==
    row' = IF loaded = s THEN row ELSE [row EXCEPT ![c].status = s]

\* Requests are served between the end of the lifespan's startup and its exit.
Accepting == up /\ (PromptRecovery => ~recoveryDue)

=============================================================================
