------------------------------ MODULE Webhooks ------------------------------
(***************************************************************************)
(* WebhookDispatcher.dispatch: one lifecycle event is delivered to the     *)
(* subscriptions that were enabled for it when the dispatch began, one     *)
(* after the other, each with retries; what could not be delivered is put  *)
(* on the session and committed to the events table at the end.            *)
(*                                                                         *)
(* Payload and signature are left out: a subscription is a name, and the   *)
(* answer to a POST is a choice.                                           *)
(***************************************************************************)
EXTENDS Integers

CONSTANTS
    Hooks,      \* rows of webhook_configs
    NoHook,     \* no delivery is under way
    MaxRetries  \* webhooks.max_retries

ASSUME HookAssumption == NoHook \notin Hooks
ASSUME RetriesAssumption == MaxRetries \in Nat

VARIABLES
    subscribed,  \* rows that are enabled and list the event or '*'
    matched,     \* what _matching_configs returned
    pc,          \* where the dispatch is
    todo,        \* matched rows that the loop has not reached
    at,          \* the row being delivered to
    attempt,     \* attempt_number
    acked,       \* rows whose endpoint answered 2xx
    failed,      \* webhook.delivery_failed events added to the session
    log,         \* webhook.delivery_failed events committed
    posts        \* history: POSTs sent for each row

vars == <<subscribed, matched, pc, todo, at, attempt, acked, failed, log,
          posts>>

Attempts == MaxRetries + 1

TypeOK ==
    /\ subscribed \subseteq Hooks /\ matched \subseteq Hooks
    /\ pc \in {"ready", "loop", "post", "done", "raised"}
    /\ todo \subseteq Hooks
    /\ at \in Hooks \union {NoHook}
    /\ at \in Hooks <=> pc = "post"
    /\ attempt \in 1 .. Attempts
    /\ acked \subseteq Hooks /\ failed \subseteq Hooks /\ log \subseteq Hooks
    /\ posts \in [Hooks -> 0 .. Attempts]

Init ==
    /\ subscribed \in SUBSET Hooks
    /\ matched = {} /\ todo = {}
    /\ pc = "ready"
    /\ at = NoHook /\ attempt = 1
    /\ acked = {} /\ failed = {} /\ log = {}
    /\ posts = [h \in Hooks |-> 0]

-----------------------------------------------------------------------------
\* The table is edited by hand (no route writes it), at any time.
Edit(h) ==
    /\ subscribed' = IF h \in subscribed THEN subscribed \ {h}
                     ELSE subscribed \union {h}
    /\ UNCHANGED <<matched, pc, todo, at, attempt, acked, failed, log, posts>>

MatchingConfigs ==
    /\ pc = "ready"
    /\ matched' = subscribed
    /\ todo' = subscribed
    /\ pc' = "loop"
    /\ UNCHANGED <<subscribed, at, attempt, acked, failed, log, posts>>

\* _validate_webhook_url accepts the URL and _deliver_to_config begins.
Deliver(h) ==
    /\ pc = "loop" /\ h \in todo
    /\ todo' = todo \ {h}
    /\ at' = h /\ attempt' = 1
    /\ pc' = "post"
    /\ UNCHANGED <<subscribed, matched, acked, failed, log, posts>>

\* It refuses the URL, or the host does not resolve: no POST, no retry.
Refuse(h) ==
    /\ pc = "loop" /\ h \in todo
    /\ todo' = todo \ {h}
    /\ failed' = failed \union {h}
    /\ UNCHANGED <<subscribed, matched, pc, at, attempt, acked, log, posts>>

Sent == posts' = [posts EXCEPT ![at] = @ + 1]

PostAccepted ==
    /\ pc = "post"
    /\ Sent
    /\ acked' = acked \union {at}
    /\ at' = NoHook /\ pc' = "loop"
    /\ UNCHANGED <<subscribed, matched, todo, attempt, failed, log>>

\* Mutant: the last attempt is not made.
LastAttemptEarly == attempt >= MaxRetries

\* Mutant: one attempt too many is made.
LastAttemptLate == attempt > Attempts

LastAttempt == attempt = Attempts

\* Mutant: a failed delivery is queued again instead of counted.
RetryRequeues ==
    /\ pc = "post"
    /\ todo' = todo \union {at}
    /\ at' = NoHook /\ pc' = "loop"
    /\ UNCHANGED <<subscribed, matched, attempt, acked, failed, log, posts>>

\* Mutant: the endpoint is taken to have answered after a failed attempt.
RetryAcknowledged ==
    /\ pc = "post"
    /\ ~LastAttempt
    /\ Sent
    /\ attempt' = attempt + 1
    /\ acked' = acked \union {at}
    /\ UNCHANGED <<subscribed, matched, pc, todo, at, failed, log>>

\* Another status or an HTTPError, with attempts left.
PostRetried ==
    /\ pc = "post"
    /\ ~LastAttempt
    /\ Sent
    /\ attempt' = attempt + 1
    /\ UNCHANGED <<subscribed, matched, pc, todo, at, acked, failed, log>>

\* The same at the last attempt: a WebhookDeliveryError, which dispatch notes.
PostExhausted ==
    /\ pc = "post"
    /\ LastAttempt
    /\ Sent
    /\ failed' = failed \union {at}
    /\ at' = NoHook /\ pc' = "loop"
    /\ UNCHANGED <<subscribed, matched, todo, attempt, acked, log>>

Commit ==
    /\ pc = "loop" /\ todo = {}
    /\ log' = log \union failed
    /\ pc' = "done"
    /\ UNCHANGED <<subscribed, matched, todo, at, attempt, acked, failed,
                   posts>>

(***************************************************************************)
(* An exception other than a WebhookDeliveryError (a URL that urlsplit or  *)
(* the client cannot parse, a host that cannot be encoded, a database that *)
(* is locked) or a stop of the process: the session is rolled back.        *)
(***************************************************************************)
Raise ==
    /\ pc \in {"loop", "post"}
    /\ at' = NoHook /\ pc' = "raised"
    /\ UNCHANGED <<subscribed, matched, todo, attempt, acked, failed, log,
                   posts>>

-----------------------------------------------------------------------------
Loop ==
    \/ MatchingConfigs
    \/ \E h \in todo : Deliver(h) \/ Refuse(h)
    \/ PostAccepted \/ PostRetried \/ PostExhausted
    \/ Commit

Next == Loop \/ Raise \/ \E h \in Hooks : Edit(h)

Spec == Init /\ [][Next]_vars

(***************************************************************************)
(* Fairness: every await of the dispatch returns.  The sleep does, and a   *)
(* POST to an endpoint that falls silent, because the client is built with *)
(* timeout_seconds; that one which keeps sending comes to an end is an     *)
(* assumption, since the timeout is per operation.                         *)
(***************************************************************************)
FairSpec == Spec /\ WF_vars(Loop)

-----------------------------------------------------------------------------
(***************************************************************************)
(* A dispatch that returns has accounted for everyone: each subscription   *)
(* it matched either acknowledged the event or has a delivery_failed event *)
(* in the database, never both, and nobody else has either.                *)
(***************************************************************************)
Accounted ==
    pc = "done" => /\ matched = acked \union log
                   /\ acked \intersect log = {}

(***************************************************************************)
(* _deliver_to_config gives up neither early nor late: a subscription is   *)
(* reported as failed after all of max_retries + 1 POSTs or, refused by    *)
(* the validation of its URL, after none.                                  *)
(***************************************************************************)
GivesUpOnTime ==
    \A h \in Hooks : h \in failed => posts[h] \in {0, Attempts}

(***************************************************************************)
(* A slow or dead endpoint cannot hold up a lifecycle operation forever:   *)
(* a dispatch that began ends.  (The scheduling of a renewal follows the   *)
(* dispatch of certificate.issued and certificate.renewed.)                *)
(***************************************************************************)
DispatchEnds == pc = "loop" ~> pc \in {"done", "raised"}

-----------------------------------------------------------------------------
(***************************************************************************)
(* The inductive invariant: while the dispatch runs, the matched rows are  *)
(* split among those it has yet to settle, those that acknowledged and     *)
(* those that failed, and the history of POSTs agrees with attempt.        *)
(***************************************************************************)
Unsettled == IF pc = "post" THEN todo \union {at} ELSE todo

SplitInv ==
    /\ pc \in {"loop", "post", "done"} =>
           matched = Unsettled \union acked \union failed
    /\ acked \intersect failed = {}
    /\ Unsettled \intersect (acked \union failed) = {}
    /\ at \notin todo
    /\ pc = "ready" => todo = {} /\ acked = {} /\ failed = {}
    /\ pc = "done" => todo = {}

LogInv == log = IF pc = "done" THEN failed ELSE {}

PostsInv ==
    /\ \A h \in failed : posts[h] \in {0, Attempts}
    /\ \A h \in todo : posts[h] = 0
    /\ pc = "post" => posts[at] = attempt - 1
    /\ pc = "ready" => \A h \in Hooks : posts[h] = 0

DispatchInv == TypeOK /\ SplitInv /\ LogInv /\ PostsInv

=============================================================================
