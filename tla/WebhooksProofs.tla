--------------------------- MODULE WebhooksProofs ---------------------------
(***************************************************************************)
(* What TLAPS proves of the webhook dispatcher, for any set of             *)
(* subscriptions and any number of retries.                                *)
(***************************************************************************)
EXTENDS Webhooks, TLAPS

USE HookAssumption, RetriesAssumption

(***************************************************************************)
(* A dispatch starts with nothing settled, logged or sent.                 *)
(***************************************************************************)
LEMMA DispatchInit == Init => DispatchInv
  BY DEF Init, DispatchInv, TypeOK, SplitInv, Unsettled, LogInv, PostsInv,
         Attempts

(***************************************************************************)
(* Every step of the dispatcher, and every edit of the table meanwhile,    *)
(* keeps the types.                                                        *)
(***************************************************************************)
LEMMA DispatchType == DispatchInv /\ [Next]_vars => TypeOK'
  <1> SUFFICES ASSUME DispatchInv, [Next]_vars PROVE TypeOK'
      OBVIOUS
  <1> USE DEF DispatchInv, TypeOK, Attempts
  <1>1. CASE MatchingConfigs
      BY <1>1 DEF MatchingConfigs
  <1>2. ASSUME NEW h \in todo, Deliver(h) PROVE TypeOK'
      BY <1>2 DEF Deliver
  <1>3. ASSUME NEW h \in todo, Refuse(h) PROVE TypeOK'
      BY <1>3 DEF Refuse
  <1>4. CASE PostAccepted
      BY <1>4 DEF PostAccepted, Sent, PostsInv
  <1>5. CASE PostRetried
      BY <1>5 DEF PostRetried, LastAttempt, Sent, PostsInv
  <1>6. CASE PostExhausted
      BY <1>6 DEF PostExhausted, LastAttempt, Sent, PostsInv
  <1>7. CASE Commit
      BY <1>7 DEF Commit
  <1>8. CASE Raise
      BY <1>8 DEF Raise
  <1>9. ASSUME NEW h \in Hooks, Edit(h) PROVE TypeOK'
      BY <1>9 DEF Edit
  <1>10. CASE UNCHANGED vars
      BY <1>10 DEF vars
  <1> QED
      BY <1>1, <1>2, <1>3, <1>4, <1>5, <1>6, <1>7, <1>8, <1>9, <1>10
         DEF Next, Loop

(***************************************************************************)
(* They keep the split of the matched rows, and the log empty until the    *)
(* commit.                                                                 *)
(***************************************************************************)
LEMMA DispatchSplit == DispatchInv /\ [Next]_vars => SplitInv' /\ LogInv'
  <1> SUFFICES ASSUME DispatchInv, [Next]_vars PROVE SplitInv' /\ LogInv'
      OBVIOUS
  <1> USE DEF DispatchInv, TypeOK, SplitInv, Unsettled, LogInv
  <1>1. CASE MatchingConfigs
      BY <1>1 DEF MatchingConfigs
  <1>2. ASSUME NEW h \in todo, Deliver(h) PROVE SplitInv' /\ LogInv'
      BY <1>2 DEF Deliver
  <1>3. ASSUME NEW h \in todo, Refuse(h) PROVE SplitInv' /\ LogInv'
      BY <1>3 DEF Refuse
  <1>4. CASE PostAccepted
      BY <1>4 DEF PostAccepted
  <1>5. CASE PostRetried
      BY <1>5 DEF PostRetried
  <1>6. CASE PostExhausted
      BY <1>6 DEF PostExhausted
  <1>7. CASE Commit
      BY <1>7 DEF Commit
  <1>8. CASE Raise
      BY <1>8 DEF Raise
  <1>9. ASSUME NEW h \in Hooks, Edit(h) PROVE SplitInv' /\ LogInv'
      BY <1>9 DEF Edit
  <1>10. CASE UNCHANGED vars
      BY <1>10 DEF vars
  <1> QED
      BY <1>1, <1>2, <1>3, <1>4, <1>5, <1>6, <1>7, <1>8, <1>9, <1>10
         DEF Next, Loop

(***************************************************************************)
(* They keep the count of POSTs in step with attempt.                      *)
(***************************************************************************)
LEMMA DispatchPosts == DispatchInv /\ [Next]_vars => PostsInv'
  <1> SUFFICES ASSUME DispatchInv, [Next]_vars PROVE PostsInv'
      OBVIOUS
  <1> USE DEF DispatchInv, TypeOK, SplitInv, Unsettled, PostsInv, Attempts
  <1>1. CASE MatchingConfigs
      BY <1>1 DEF MatchingConfigs
  <1>2. ASSUME NEW h \in todo, Deliver(h) PROVE PostsInv'
      BY <1>2 DEF Deliver
  <1>3. ASSUME NEW h \in todo, Refuse(h) PROVE PostsInv'
      BY <1>3 DEF Refuse
  <1>4. CASE PostAccepted
      BY <1>4 DEF PostAccepted, Sent
  <1>5. CASE PostRetried
      BY <1>5 DEF PostRetried, Sent
  <1>6. CASE PostExhausted
      BY <1>6 DEF PostExhausted, LastAttempt, Sent
  <1>7. CASE Commit
      BY <1>7 DEF Commit
  <1>8. CASE Raise
      BY <1>8 DEF Raise
  <1>9. ASSUME NEW h \in Hooks, Edit(h) PROVE PostsInv'
      BY <1>9 DEF Edit
  <1>10. CASE UNCHANGED vars
      BY <1>10 DEF vars
  <1> QED
      BY <1>1, <1>2, <1>3, <1>4, <1>5, <1>6, <1>7, <1>8, <1>9, <1>10
         DEF Next, Loop

(***************************************************************************)
(* The invariant holds in every reachable state of the dispatcher.         *)
(***************************************************************************)
LEMMA DispatchInvariant == Spec => []DispatchInv
  <1>1. DispatchInv /\ [Next]_vars => DispatchInv'
      BY DispatchType, DispatchSplit, DispatchPosts DEF DispatchInv
  <1> QED
      BY <1>1, DispatchInit, PTL DEF Spec

(***************************************************************************)
(* A dispatch keeps its types: the queue, the attempt and the POSTs stay   *)
(* within what the subscriptions and max_retries allow.                    *)
(***************************************************************************)
THEOREM DispatchTypes == Spec => []TypeOK
  <1>1. DispatchInv => TypeOK
      BY DEF DispatchInv
  <1> QED
      BY <1>1, DispatchInvariant, PTL

(***************************************************************************)
(* A dispatch that returns has accounted for every subscription it matched *)
(* (WebhookDispatcher.dispatch).                                           *)
(***************************************************************************)
THEOREM DispatchAccounts == Spec => []Accounted
  <1>1. DispatchInv => Accounted
      BY DEF DispatchInv, SplitInv, Unsettled, LogInv, Accounted
  <1> QED
      BY <1>1, DispatchInvariant, PTL

(***************************************************************************)
(* A subscription is reported as failed after max_retries + 1 POSTs or,    *)
(* if its URL was refused, after none (_deliver_to_config).                *)
(***************************************************************************)
THEOREM RetriesAreExhausted == Spec => []GivesUpOnTime
  <1>1. DispatchInv => GivesUpOnTime
      BY DEF DispatchInv, PostsInv, GivesUpOnTime
  <1> QED
      BY <1>1, DispatchInvariant, PTL

=============================================================================
