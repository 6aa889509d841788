----------------------------- MODULE Revocations ----------------------------
(***************************************************************************)
(* POST /v1/certificates/{id}/revoke: revocation of an issued certificate  *)
(* at its certificate authority, one durable row per Idempotency-Key.  A   *)
(* coroutine runs acme.sh only while it holds the lease of the row, which  *)
(* a later request may take over once it is older than Lease.              *)
(***************************************************************************)
EXTENDS AcmeSh

CONSTANTS
    Keys,        \* Idempotency-Key values sent for one certificate
    Reasons,     \* revocation reasons sent by clients
    Workers,     \* coroutines serving revocation requests
    NoKey,       \* the key of an idle coroutine
    NoReason,    \* the reason of a row that does not exist
    Answers,     \* what an acme.sh that exits may leave
    Lease,       \* _REVOCATION_LEASE, in ticks
    WithinLease  \* TRUE if acme.sh always returns before its lease is over

ASSUME KeyAssumption == NoKey \notin Keys
ASSUME ReasonAssumption == NoReason \notin Reasons
ASSUME LeaseAssumption == Lease \in Nat
ASSUME WithinAssumption == WithinLease \in BOOLEAN
ASSUME AnswersAssumption == Answers \subseteq Answer

VARIABLES
    request,  \* the certificate_revocations rows of the certificate, by key
    worker,   \* the coroutines in flight
    atCA,     \* whether the authority has revoked the certificate
    up        \* whether the process is running

vars == <<request, worker, atCA, up>>

Result == {"succeeded", "failed"}

\* Time since attempt_started_at.  Only whether it exceeds Lease is ever asked,
\* so ages stop at Lease + 1; "never" is a NULL attempt_started_at.
Ages == 0 .. Lease + 1

Request == [status : {"absent", "pending"} \union Result,
            reason : Reasons \union {NoReason},
            claimed : BOOLEAN, age : Ages,
            category : {"none", "transient", "terminal"}]

NoRequest == [status |-> "absent", reason |-> NoReason, claimed |-> FALSE,
              age |-> 0, category |-> "none"]

Idle == [pc |-> "idle", key |-> NoKey]

\* A failure has its category, and nothing has one before it failed.
Explained(q) ==
    /\ q.status = "failed" => q.category # "none"
    /\ q.status \in {"absent", "pending"} => q.category = "none"

(***************************************************************************)
(* Rows and coroutines are what the code may leave; in particular a row    *)
(* that FAILED says whether to try again, also when its lease was taken    *)
(* over or its worker died before.                                         *)
(***************************************************************************)
TypeOK ==
    /\ request \in [Keys -> Request]
    /\ \A k \in Keys : Explained(request[k])
    /\ worker \in [Workers -> [pc : {"claim", "backend"}, key : Keys]
                                  \union {Idle}]
    /\ atCA \in BOOLEAN
    /\ up \in BOOLEAN

Init ==
    /\ request = [k \in Keys |-> NoRequest]
    /\ worker = [w \in Workers |-> Idle]
    /\ atCA = FALSE
    /\ up = TRUE

Running(k) == \E w \in Workers : worker[w] = [pc |-> "backend", key |-> k]

-----------------------------------------------------------------------------
(***************************************************************************)
(* The INSERT of the row, or the lookup after the unique constraint on     *)
(* (certificate, key) refuses it.  A replay with another reason is an      *)
(* error and a settled one returns the row: neither changes anything.      *)
(***************************************************************************)
Submit(w, k, r) ==
    /\ up
    /\ worker[w] = Idle
    /\ \/ /\ request[k].status = "absent"
          /\ request' = [request EXCEPT ![k].status = "pending",
                                        ![k].reason = r]
       \/ /\ request[k].status = "pending"
          /\ request[k].reason = r
          /\ UNCHANGED request
    /\ worker' = [worker EXCEPT ![w] = [pc |-> "claim", key |-> k]]
    /\ UNCHANGED <<atCA, up>>

\* Mutant: the claim ignores the lease.
ClaimableAnyPending(k) == request[k].status = "pending"

\* Mutant: the claim ignores the status.
ClaimableSettled(k) == ~request[k].claimed \/ request[k].age > Lease

\* Mutant: an expired lease is not taken over.
ClaimableOnce(k) == request[k].status = "pending" /\ ~request[k].claimed

\* _claim_pending_revocation: one guarded UPDATE.
Claimable(k) ==
    /\ request[k].status = "pending"
    /\ ~request[k].claimed \/ request[k].age > Lease

Claim(w) ==
    LET k == worker[w].key
    IN  /\ worker[w].pc = "claim"
        /\ IF Claimable(k)
           THEN /\ request' = [request EXCEPT ![k].claimed = TRUE,
                                              ![k].age = 0]
                /\ worker' = [worker EXCEPT ![w].pc = "backend"]
           ELSE /\ worker' = [worker EXCEPT ![w] = Idle]
                /\ UNCHANGED request
        /\ UNCHANGED <<atCA, up>>

\* The authority revokes the certificate while some acme.sh runs (external).
AuthorityRevokes ==
    /\ \E w \in Workers : worker[w].pc = "backend"
    /\ atCA' = TRUE
    /\ UNCHANGED <<request, worker, up>>

(***************************************************************************)
(* acme.sh exits.  It tells the truth (external): it exits with 0, or says *)
(* that the certificate was already revoked, only if the authority has     *)
(* revoked it.                                                             *)
(***************************************************************************)
Truthful(a) == a.exit = 0 \/ "revoked" \in a.out \union a.err => atCA

\* Mutant: only a failure worth a retry has its category recorded.
CompleteUncategorized(w, result) ==
    LET k == worker[w].key
    IN  /\ worker[w].pc = "backend"
        /\ request' = CASE result = "ok" ->
                            [request EXCEPT ![k].status = "succeeded"]
                        [] result = "transient" ->
                            [request EXCEPT ![k].status = "failed",
                                            ![k].category = result]
                        [] OTHER -> [request EXCEPT ![k].status = "failed"]
        /\ worker' = [worker EXCEPT ![w] = Idle]
        /\ UNCHANGED <<atCA, up>>

(***************************************************************************)
(* The result is written over whatever the row holds; a success leaves     *)
(* error_category as it is.                                                *)
(***************************************************************************)
Complete(w, result) ==
    LET k == worker[w].key
    IN  /\ worker[w].pc = "backend"
        /\ request' = IF result = "ok"
                      THEN [request EXCEPT ![k].status = "succeeded"]
                      ELSE [request EXCEPT ![k].status = "failed",
                                           ![k].category = result]
        /\ worker' = [worker EXCEPT ![w] = Idle]
        /\ UNCHANGED <<atCA, up>>

Returned(w, a) == Truthful(a) /\ Complete(w, Revocation(a))

\* An OSError: acme.sh could not be executed.
NotExecuted(w) == Complete(w, "terminal")

\* An unhandled exception, a client that went away: the row stays PENDING.
WorkerDies(w) ==
    /\ worker[w] # Idle
    /\ worker' = [worker EXCEPT ![w] = Idle]
    /\ UNCHANGED <<request, atCA, up>>

Stop ==
    /\ up
    /\ up' = FALSE
    /\ worker' = [w \in Workers |-> Idle]
    /\ UNCHANGED <<request, atCA>>

Start ==
    /\ ~up
    /\ up' = TRUE
    /\ UNCHANGED <<request, worker, atCA>>

Tick ==
    /\ WithinLease => \A k \in Keys : Running(k) => request[k].age < Lease
    /\ request' = [k \in Keys |->
                      [request[k] EXCEPT !.age =
                          IF request[k].claimed /\ @ <= Lease
                          THEN @ + 1 ELSE @]]
    /\ UNCHANGED <<worker, atCA, up>>

-----------------------------------------------------------------------------
Next ==
    \/ \E w \in Workers, k \in Keys, r \in Reasons : Submit(w, k, r)
    \/ \E w \in Workers :
          \/ Claim(w) \/ WorkerDies(w)
          \/ NotExecuted(w) \/ \E a \in Answers : Returned(w, a)
    \/ AuthorityRevokes
    \/ Stop \/ Start \/ Tick

Spec == Init /\ [][Next]_vars

-----------------------------------------------------------------------------
(***************************************************************************)
(* The row of a key keeps its result: a replay returns the original one.   *)
(* The completion of request_certificate_revocation does not test the      *)
(* status it overwrites, so this rests on the lease alone.                 *)
(***************************************************************************)
DurableResult ==
    [][\A k \in Keys : request[k].status \in Result =>
           request'[k] = [request[k] EXCEPT !.age = request'[k].age]]_vars

(***************************************************************************)
(* The lease excludes: two coroutines never run acme.sh for the same key.  *)
(***************************************************************************)
SingleRevoker ==
    \A v, w \in Workers :
        /\ worker[v].pc = "backend" /\ worker[w].pc = "backend"
        /\ worker[v].key = worker[w].key
        => v = w

(***************************************************************************)
(* No row says SUCCEEDED unless the authority has revoked the certificate, *)
(* and none holds a result without the claim that produced it, however     *)
(* many workers died or overran their lease before, and whatever phrases   *)
(* revoke_certificate finds in the output of a command that failed.        *)
(***************************************************************************)
SuccessIsReal ==
    \A k \in Keys :
        /\ request[k].status = "succeeded" => atCA
        /\ request[k].status \in Result => request[k].claimed

-----------------------------------------------------------------------------
(***************************************************************************)
(* Fairness: time passes, coroutines are resumed, acme.sh returns, and for *)
(* the client that keeps retrying its key, the request is served.          *)
(***************************************************************************)
Work(w) ==
    Claim(w) \/ NotExecuted(w) \/ \E a \in Answers : Returned(w, a)

FairSpec ==
    /\ Spec
    /\ WF_vars(Tick)
    /\ \A w \in Workers : WF_vars(Work(w))
    /\ \A k \in Keys, r \in Reasons :
          SF_vars(\E w \in Workers : Submit(w, k, r))

\* A worker ends, other than by being refused the lease.
Dies(w) ==
    /\ WorkerDies(w)
    /\ worker[w].pc = "claim" => Claimable(worker[w].key)

(***************************************************************************)
(* A dead worker is recovered from: a pending revocation whose client      *)
(* keeps retrying is settled if from some point on the process stays up    *)
(* and no more workers die, because the lease of the dead one runs out.    *)
(***************************************************************************)
RetrySettles ==
    \A k \in Keys :
        /\ <>[]up
        /\ <>[][\A w \in Workers : ~Dies(w)]_vars
        => (request[k].status = "pending" ~> request[k].status \in Result)

=============================================================================
