-------------------------- MODULE ServiceProperties -------------------------
(***************************************************************************)
(* What holds of the certificate service by itself, that is as long as no  *)
(* renewal runs: its guarded updates keep a DNS Persist request consistent *)
(* under concurrent requests, restarts and unhandled exceptions.           *)
(***************************************************************************)
EXTENDS CertificateService

Closed == {"cancelled", "revoked"}

(***************************************************************************)
(* A DNS Persist request that was cancelled or revoked is never put back   *)
(* to work by an authorization, a release, an issuance or a recovery that  *)
(* was in flight: they all write with the status in the WHERE clause.      *)
(***************************************************************************)
ClosedStaysClosed ==
    [][\A c \in Persist : row[c].status \in Closed =>
           row'[c].status \in Closed]_vars

(***************************************************************************)
(* acme.sh never runs twice at once for a DNS Persist request: each claim  *)
(* of issue_released_dns_persist_certificate, of an authorization and of   *)
(* the recovery task gives the row to one coroutine.                       *)
(***************************************************************************)
SingleIssuer ==
    \A c \in Persist, s, t \in Slots :
        /\ task[s].cert = c /\ task[s].pc = "issue.backend"
        /\ task[t].cert = c /\ task[t].pc = "issue.backend"
        => s = t

(***************************************************************************)
(* A DNS provider request is issued by one coroutine, the one that its     *)
(* creation queued: colliding creations and restarts never start another.  *)
(***************************************************************************)
SingleProviderIssuer ==
    \A c \in Certs \ Persist, s, t \in Slots :
        /\ task[s].cert = c /\ task[s].pc \in IssuePoint
        /\ task[t].cert = c /\ task[t].pc \in IssuePoint
        => s = t

(***************************************************************************)
(* The service implements HeldRequest: authorizing, claiming, issuing,     *)
(* failing and resuming are internal to the phases its clients see.        *)
(***************************************************************************)
Phase ==
    [c \in Certs |->
        CASE c \notin held -> "none"
          [] c \in held /\ row[c].status \in {"held", "authorization_ready"}
                -> "waiting"
          [] c \in held /\ row[c].status \in Closed -> "closed"
          [] OTHER -> "released"]

Accepted == [c \in Certs |-> IF c \in held THEN row[c].key ELSE NoKey]

Abstract == INSTANCE HeldRequest WITH phase <- Phase, accepted <- Accepted

ImplementsHeldRequest == Abstract!Spec

-----------------------------------------------------------------------------
(***************************************************************************)
(* The inductive invariants behind these properties.  A coroutine that     *)
(* belongs to one challenge method works for a certificate of that method, *)
(* and so do the recovery task and the hold.                               *)
(***************************************************************************)
MethodOK(t) ==
    /\ t.pc = "create.insert" =>
           (t.seen.status = "pending" <=> t.cert \notin Persist)
    /\ t.pc \in {"issue.start", "issue.claim"} => t.cert \notin Persist
    /\ t.pc \in {"authorize.act", "release.act", "released.claim",
                 "persist.start"} => t.cert \in Persist

MethodInv ==
    /\ \A s \in Slots : MethodOK(task[s])
    /\ held \subseteq Persist
    /\ \A x \in resume : x[1] \in Persist

(***************************************************************************)
(* The row is given to one owner: the coroutine that will call acme.sh, or *)
(* the entry of the recovery task that will start one.  It is given only   *)
(* while the row is ISSUING, and until the owner gives it back only a      *)
(* deletion can change it.  If recovery reads its snapshot before any      *)
(* traffic, nothing owns a row when it does.                               *)
(***************************************************************************)
Owns(t, c) == t.cert = c /\ t.pc \in {"persist.start", "issue.backend"}

NoOwner(c) ==
    /\ \A s \in Slots : ~Owns(task[s], c)
    /\ <<c, "issuing">> \notin resume

OwnInv ==
    \A c \in Persist :
        /\ \A s, t \in Slots : Owns(task[s], c) /\ Owns(task[t], c) => s = t
        /\ <<c, "issuing">> \in resume => \A s \in Slots : ~Owns(task[s], c)
        /\ row[c].status \notin {"issuing"} \union Closed => NoOwner(c)

DueInv ==
    PromptRecovery /\ recoveryDue =>
        resume = {} /\ \A s \in Slots : task[s].pc = "idle"

-----------------------------------------------------------------------------
(***************************************************************************)
(* Fairness: the event loop resumes every coroutine whose await is over,   *)
(* acme.sh and the webhook deliveries end (neither is waited for with a    *)
(* limit, but acme.sh polls a bounded number of times and deliveries are   *)
(* retried a bounded number of times), and the recovery task is run.       *)
(* Nothing is assumed of requests, stops, starts or exceptions.            *)
(***************************************************************************)
FairServiceSpec ==
    /\ ServiceSpec
    /\ \A w \in Workers : WF_vars(Handler(w))
    /\ \A s \in Slots : WF_vars(Issuer(s))
    /\ WF_vars(Resume)

(***************************************************************************)
(* An accepted release is eventually settled: if from some point on the    *)
(* process stays up and nothing disturbs the request, its row does not     *)
(* stay RELEASED or ISSUING, also when the process stopped between the     *)
(* release and its issuance.                                               *)
(***************************************************************************)
Unsettled(c) == row[c].key # NoKey /\ row[c].status \in {"released", "issuing"}

ReleaseSettles ==
    \A c \in Persist :
        <>[](up /\ c \notin disturbed) => (Unsettled(c) ~> ~Unsettled(c))

=============================================================================
