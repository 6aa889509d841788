--------------------------- MODULE RevocationsProofs ------------------------
(* Proofs about revocations at the authority. *)
EXTENDS Revocations, TLAPS

Busy == [pc : {"claim", "backend"}, key : Keys]

LEMMA BusyType ==
    ASSUME TypeOK, NEW w \in Workers, worker[w] # Idle
    PROVE  worker[w] \in Busy /\ worker[w].key \in Keys
  BY DEF TypeOK, Busy

LEMMA BackendType ==
    ASSUME TypeOK, NEW w \in Workers, worker[w].pc \in {"claim", "backend"}
    PROVE  worker[w] \in Busy /\ worker[w].key \in Keys
  BY BusyType DEF Idle

\* revoke_certificate returns, or raises one of two errors.
LEMMA RevocationResults ==
    ASSUME NEW a \in Answer
    PROVE  Revocation(a) \in {"ok", "transient", "terminal"}
  BY DEF Revocation, classify_exit, Error

(***************************************************************************)
(* revoke_certificate returns only for an exit code of 0 or an answer that *)
(* says that the certificate was already revoked.                          *)
(***************************************************************************)
LEMMA SuccessIsSaid ==
    ASSUME NEW a \in Answer, Revocation(a) = "ok"
    PROVE  a.exit = 0 \/ "revoked" \in a.out \union a.err
  BY DEF Revocation, classify_exit, Error

\* What Complete makes of the row and of the worker.
LEMMA CompleteEffect ==
    ASSUME TypeOK, NEW w \in Workers,
           NEW result \in {"ok", "transient", "terminal"}, Complete(w, result)
    PROVE  /\ worker[w].key \in Keys
           /\ request' \in [Keys -> Request]
           /\ \A k \in Keys : k # worker[w].key => request'[k] = request[k]
           /\ LET k == worker[w].key
              IN  /\ request'[k].status = IF result = "ok" THEN "succeeded"
                                          ELSE "failed"
                  /\ request'[k].claimed = request[k].claimed
                  /\ request'[k].age = request[k].age
                  /\ Explained(request'[k])
           /\ worker'[w] = Idle
           /\ \A v \in Workers : v # w => worker'[v] = worker[v]
           /\ atCA' = atCA /\ up' = up
  <1>1. worker[w].key \in Keys
    BY BackendType DEF Complete
  <1>2. request[worker[w].key] \in Request
    BY <1>1 DEF TypeOK
  <1> QED BY <1>1, <1>2 DEF Complete, TypeOK, Request, Result, Explained

-----------------------------------------------------------------------------
LEMMA ZeroAge == 0 \in Ages
  BY LeaseAssumption DEF Ages

LEMMA TypeInit == Init => TypeOK
  <1>1. NoRequest \in Request
    BY ZeroAge DEF NoRequest, Request
  <1>2. Explained(NoRequest)
    BY DEF NoRequest, Explained
  <1> QED BY <1>1, <1>2 DEF Init, TypeOK

LEMMA TypeStep == TypeOK /\ [Next]_vars => TypeOK'
  <1> SUFFICES ASSUME TypeOK, [Next]_vars PROVE TypeOK'
    OBVIOUS
  <1> USE DEF TypeOK
  <1>1. ASSUME NEW w \in Workers, NEW k \in Keys, NEW r \in Reasons,
               Submit(w, k, r)
        PROVE  TypeOK'
    <2>1. request' \in [Keys -> Request]
      BY <1>1 DEF Submit, Request
    <2>2. \A j \in Keys : Explained(request'[j])
      BY <1>1 DEF Submit, Request, Explained
    <2> QED BY <1>1, <2>1, <2>2 DEF Submit
  <1>2. ASSUME NEW w \in Workers, Claim(w)
        PROVE  TypeOK'
    <2>1. worker[w] \in Busy /\ worker[w].key \in Keys
      BY <1>2, BackendType DEF Claim
    <2>2. request' \in [Keys -> Request]
      <3>1. request[worker[w].key] \in Request
        BY <2>1
      <3>2. [request[worker[w].key] EXCEPT !.claimed = TRUE, !.age = 0]
               \in Request
        BY <3>1, ZeroAge DEF Request
      <3> QED BY <1>2, <2>1, <3>2 DEF Claim
    <2>3. [worker[w] EXCEPT !.pc = "backend"] \in Busy
      BY <2>1 DEF Busy
    <2>4. worker' \in [Workers -> Busy \union {Idle}]
      BY <1>2, <2>3 DEF Claim, Busy
    <2>5. \A j \in Keys : Explained(request'[j])
      BY <1>2, <2>1 DEF Claim, Request, Explained
    <2> QED BY <1>2, <2>2, <2>4, <2>5 DEF Claim, Busy
  <1>3. ASSUME NEW w \in Workers, NEW result \in {"ok", "transient", "terminal"},
               Complete(w, result)
        PROVE  TypeOK'
    <2>1. /\ request' \in [Keys -> Request] /\ atCA' = atCA /\ up' = up
          /\ \A j \in Keys : Explained(request'[j])
      BY <1>3, CompleteEffect
    <2>2. worker' \in [Workers -> Busy \union {Idle}]
      BY <1>3 DEF Complete, Busy
    <2> QED BY <2>1, <2>2 DEF Busy
  <1>4. ASSUME NEW w \in Workers, NotExecuted(w)
        PROVE  TypeOK'
    BY <1>3, <1>4 DEF NotExecuted
  <1>5. ASSUME NEW w \in Workers, NEW a \in Answers, Returned(w, a)
        PROVE  TypeOK'
    <2>1. Revocation(a) \in {"ok", "transient", "terminal"}
      BY AnswersAssumption, RevocationResults
    <2> QED BY <1>3, <1>5, <2>1 DEF Returned
  <1>6. ASSUME NEW w \in Workers, WorkerDies(w)
        PROVE  TypeOK'
    BY <1>6 DEF WorkerDies
  <1>7. CASE AuthorityRevokes \/ Stop \/ Start
    BY <1>7 DEF AuthorityRevokes, Stop, Start
  <1>8. CASE Tick
    <2>1. ASSUME NEW k \in Keys
          PROVE  request'[k] \in Request /\ Explained(request'[k])
      <3>1. request[k] \in Request /\ request[k].age \in Ages
        BY DEF Request
      <3>2. request'[k] = [request[k] EXCEPT !.age =
                              IF request[k].claimed /\ request[k].age <= Lease
                              THEN request[k].age + 1 ELSE request[k].age]
        BY <1>8 DEF Tick
      <3>3. (IF request[k].claimed /\ request[k].age <= Lease
             THEN request[k].age + 1 ELSE request[k].age) \in Ages
        BY <3>1, LeaseAssumption DEF Ages
      <3> QED BY <3>1, <3>2, <3>3 DEF Request, Explained
    <2>2. request' \in [Keys -> Request]
      BY <1>8, <2>1 DEF Tick
    <2> QED BY <1>8, <2>1, <2>2 DEF Tick
  <1>9. CASE UNCHANGED vars
    BY <1>9 DEF vars
  <1> QED BY <1>1, <1>2, <1>4, <1>5, <1>6, <1>7, <1>8, <1>9 DEF Next

(***************************************************************************)
(* Rows, leases and coroutines keep their types, and every failure its     *)
(* category, for any numbers of keys, reasons and coroutines and any       *)
(* lease, overrun or not.                                                  *)
(***************************************************************************)
THEOREM RevocationTypes == Spec => []TypeOK
  BY TypeInit, TypeStep, PTL DEF Spec

-----------------------------------------------------------------------------
(***************************************************************************)
(* Whoever runs acme.sh has claimed the row.                               *)
(***************************************************************************)
ClaimInv ==
    \A w \in Workers : worker[w].pc = "backend" => request[worker[w].key].claimed

LEMMA ClaimStep ==
    TypeOK /\ ClaimInv /\ SuccessIsReal /\ [Next]_vars
        => ClaimInv' /\ SuccessIsReal'
  <1> SUFFICES ASSUME TypeOK, ClaimInv, SuccessIsReal, [Next]_vars
               PROVE  ClaimInv' /\ SuccessIsReal'
    OBVIOUS
  <1> DEFINE Grows == \A k \in Keys :
                        /\ request'[k].claimed = request[k].claimed
                        /\ request'[k].status = request[k].status
             Fewer == \A w \in Workers :
                        \/ worker'[w] = worker[w]
                        \/ worker'[w].pc # "backend"
  <1>a. ASSUME Grows, Fewer, atCA' = atCA \/ atCA' = TRUE
        PROVE  ClaimInv' /\ SuccessIsReal'
    <2>1. ClaimInv'
      <3> SUFFICES ASSUME NEW w \in Workers, worker'[w].pc = "backend"
                   PROVE  request'[worker'[w].key].claimed
        BY DEF ClaimInv
      <3>1. worker'[w] = worker[w] /\ worker[w].key \in Keys
        BY <1>a, BackendType
      <3> QED BY <1>a, <3>1 DEF ClaimInv
    <2>2. SuccessIsReal'
      BY <1>a DEF SuccessIsReal, Result
    <2> QED BY <2>1, <2>2
  <1>1. ASSUME NEW w \in Workers, NEW k \in Keys, NEW r \in Reasons,
               Submit(w, k, r)
        PROVE  ClaimInv' /\ SuccessIsReal'
    <2>1. Fewer /\ atCA' = atCA
      BY <1>1 DEF Submit, TypeOK
    <2>2. \A j \in Keys : /\ request'[j].claimed = request[j].claimed
                          /\ request'[j].status \in {request[j].status, "pending"}
      BY <1>1 DEF Submit, TypeOK, Request
    <2>3. ClaimInv'
      <3> SUFFICES ASSUME NEW v \in Workers, worker'[v].pc = "backend"
                   PROVE  request'[worker'[v].key].claimed
        BY DEF ClaimInv
      <3>1. worker'[v] = worker[v] /\ worker[v].key \in Keys
        BY <2>1, BackendType
      <3> QED BY <2>2, <3>1 DEF ClaimInv
    <2>4. SuccessIsReal'
      BY <2>1, <2>2 DEF SuccessIsReal, Result
    <2> QED BY <2>3, <2>4
  <1>2. ASSUME NEW w \in Workers, Claim(w)
        PROVE  ClaimInv' /\ SuccessIsReal'
    <2>1. worker[w] \in Busy /\ worker[w].key \in Keys
      BY <1>2, BackendType DEF Claim
    <2>2. CASE ~Claimable(worker[w].key)
      <3>1. Grows /\ Fewer /\ atCA' = atCA
        BY <1>2, <2>2 DEF Claim, TypeOK, Idle
      <3> QED BY <1>a, <3>1
    <2>3. CASE Claimable(worker[w].key)
      <3>1. /\ \A k \in Keys : /\ request'[k].status = request[k].status
                               /\ request[k].claimed => request'[k].claimed
            /\ request'[worker[w].key].claimed
            /\ atCA' = atCA
        BY <1>2, <2>1, <2>3 DEF Claim, TypeOK, Request
      <3>2. /\ worker'[w].key = worker[w].key
            /\ \A v \in Workers : v # w => worker'[v] = worker[v]
        BY <1>2, <2>1, <2>3 DEF Claim, TypeOK, Busy
      <3>3. ClaimInv'
        <4> SUFFICES ASSUME NEW v \in Workers, worker'[v].pc = "backend"
                     PROVE  request'[worker'[v].key].claimed
          BY DEF ClaimInv
        <4>1. CASE v = w
          BY <3>1, <3>2, <4>1
        <4>2. CASE v # w
          <5>1. worker'[v] = worker[v] /\ worker[v].key \in Keys
            BY <3>2, <4>2, BackendType
          <5> QED BY <3>1, <5>1 DEF ClaimInv
        <4> QED BY <4>1, <4>2
      <3>4. SuccessIsReal'
        BY <3>1 DEF SuccessIsReal, Result
      <3> QED BY <3>3, <3>4
    <2> QED BY <2>2, <2>3
  <1>3. ASSUME NEW w \in Workers, NEW result \in {"ok", "transient", "terminal"},
               Complete(w, result), result = "ok" => atCA
        PROVE  ClaimInv' /\ SuccessIsReal'
    <2>1. /\ worker[w].key \in Keys /\ worker'[w] = Idle
          /\ \A v \in Workers : v # w => worker'[v] = worker[v]
          /\ \A k \in Keys : k # worker[w].key => request'[k] = request[k]
          /\ request'[worker[w].key].claimed = request[worker[w].key].claimed
          /\ request'[worker[w].key].status = IF result = "ok" THEN "succeeded"
                                              ELSE "failed"
          /\ atCA' = atCA
      BY <1>3, CompleteEffect
    <2>2. request[worker[w].key].claimed
      BY <1>3 DEF Complete, ClaimInv
    <2>3. ClaimInv'
      <3> SUFFICES ASSUME NEW v \in Workers, worker'[v].pc = "backend"
                   PROVE  request'[worker'[v].key].claimed
        BY DEF ClaimInv
      <3>1. worker'[v] = worker[v] /\ worker[v].key \in Keys
        BY <2>1, BackendType DEF Idle
      <3> QED BY <2>1, <3>1 DEF ClaimInv
    <2>4. SuccessIsReal'
      BY <1>3, <2>1, <2>2 DEF SuccessIsReal, Result
    <2> QED BY <2>3, <2>4
  <1>4. ASSUME NEW w \in Workers, NotExecuted(w)
        PROVE  ClaimInv' /\ SuccessIsReal'
    BY <1>3, <1>4 DEF NotExecuted
  <1>5. ASSUME NEW w \in Workers, NEW a \in Answers, Returned(w, a)
        PROVE  ClaimInv' /\ SuccessIsReal'
    <2>1. Revocation(a) \in {"ok", "transient", "terminal"}
      BY AnswersAssumption, RevocationResults
    <2>2. Revocation(a) = "ok" => atCA
      BY <1>5, AnswersAssumption, SuccessIsSaid DEF Returned, Truthful
    <2> QED BY <1>3, <1>5, <2>1, <2>2 DEF Returned
  <1>6. ASSUME NEW w \in Workers, WorkerDies(w)
        PROVE  ClaimInv' /\ SuccessIsReal'
    <2>1. Grows /\ Fewer /\ atCA' = atCA
      BY <1>6 DEF WorkerDies, TypeOK, Idle
    <2> QED BY <1>a, <2>1
  <1>7. CASE AuthorityRevokes \/ Stop \/ Start \/ UNCHANGED vars
    <2>1. Grows /\ Fewer /\ (atCA' = atCA \/ atCA' = TRUE)
      BY <1>7 DEF AuthorityRevokes, Stop, Start, vars, Idle
    <2> QED BY <1>a, <2>1
  <1>8. CASE Tick
    <2>1. Fewer /\ atCA' = atCA
      BY <1>8 DEF Tick
    <2>2. Grows
      BY <1>8 DEF Tick, TypeOK, Request
    <2> QED BY <1>a, <2>1, <2>2
  <1> QED BY <1>1, <1>2, <1>4, <1>5, <1>6, <1>7, <1>8 DEF Next

(***************************************************************************)
(* A revocation is recorded as a success only if the authority made it,    *)
(* for any numbers of keys and coroutines, any lease, and whether or not   *)
(* acme.sh returns within it.                                              *)
(***************************************************************************)
THEOREM SuccessesAreReal == Spec => []SuccessIsReal
  <1>1. Init => ClaimInv /\ SuccessIsReal
    BY DEF Init, ClaimInv, SuccessIsReal, Idle, NoRequest, Result
  <1> QED BY <1>1, ClaimStep, RevocationTypes, PTL DEF Spec

-----------------------------------------------------------------------------
(***************************************************************************)
(* If acme.sh returns within its lease, whoever runs it has the row to     *)
(* itself: the row is PENDING and its lease is not over, so that no claim  *)
(* succeeds, and no one else runs acme.sh for the key.                     *)
(***************************************************************************)
Leased(w) ==
    LET row == request[worker[w].key]
    IN  row.status = "pending" /\ row.claimed /\ row.age <= Lease

LeaseInv ==
    WithinLease =>
        /\ SingleRevoker
        /\ \A w \in Workers : worker[w].pc = "backend" => Leased(w)

LEMMA LeaseStep == TypeOK /\ LeaseInv /\ [Next]_vars => LeaseInv'
  <1> SUFFICES ASSUME TypeOK, LeaseInv, [Next]_vars, WithinLease
               PROVE  /\ SingleRevoker'
                      /\ \A w \in Workers :
                            worker'[w].pc = "backend" => Leased(w)'
    BY DEF LeaseInv
  <1> DEFINE Goal == /\ SingleRevoker'
                     /\ \A w \in Workers :
                            worker'[w].pc = "backend" => Leased(w)'
             Fewer == \A w \in Workers :
                        \/ worker'[w] = worker[w]
                        \/ worker'[w].pc # "backend"
             Kept(k) == /\ request'[k].status = request[k].status
                        /\ request'[k].claimed = request[k].claimed
                        /\ request'[k].age <= Lease
  <1> HIDE DEF Goal, Fewer, Kept
  <1>a. ASSUME NEW w \in Workers, worker[w].pc = "backend"
        PROVE  worker[w].key \in Keys /\ Leased(w)
    BY <1>a, BackendType DEF LeaseInv
  <1>b. ASSUME Fewer,
               \A w \in Workers : worker'[w].pc = "backend"
                                     => Kept(worker[w].key)
        PROVE  Goal
    <2>1. SingleRevoker'
      BY <1>b DEF LeaseInv, SingleRevoker, Fewer
    <2>2. ASSUME NEW w \in Workers, worker'[w].pc = "backend"
          PROVE  Leased(w)'
      <3>1. worker'[w] = worker[w] /\ Leased(w) /\ Kept(worker[w].key)
        BY <1>a, <1>b, <2>2 DEF Fewer
      <3> QED BY <3>1 DEF Leased, Kept
    <2> QED BY <2>1, <2>2 DEF Goal
  <1>c. ASSUME Fewer, UNCHANGED request
        PROVE  Goal
    <2>1. ASSUME NEW w \in Workers, worker'[w].pc = "backend"
          PROVE  Kept(worker[w].key)
      BY <1>a, <1>c, <2>1 DEF Fewer, Kept, Leased
    <2> QED BY <1>b, <1>c, <2>1
  <1>1. ASSUME NEW v \in Workers, NEW k \in Keys, NEW r \in Reasons,
               Submit(v, k, r)
        PROVE  Goal
    <2>1. Fewer
      BY <1>1 DEF Submit, TypeOK, Fewer
    <2>2. ASSUME NEW w \in Workers, worker'[w].pc = "backend"
          PROVE  Kept(worker[w].key)
      <3>1. worker[w].key \in Keys /\ Leased(w)
        BY <1>a, <2>1, <2>2 DEF Fewer
      <3>2. request'[worker[w].key] = request[worker[w].key]
        BY <1>1, <3>1 DEF Submit, TypeOK, Leased
      <3> QED BY <3>1, <3>2 DEF Leased, Kept
    <2> QED BY <1>b, <2>1, <2>2
  <1>2. ASSUME NEW v \in Workers, Claim(v)
        PROVE  Goal
    <2>1. worker[v] \in Busy /\ worker[v].key \in Keys
      BY <1>2, BackendType DEF Claim
    <2>2. CASE ~Claimable(worker[v].key)
      BY <1>c, <1>2, <2>2 DEF Claim, TypeOK, Idle, Fewer
    <2>3. CASE Claimable(worker[v].key)
      <3>1. ASSUME NEW w \in Workers, worker[w].pc = "backend"
            PROVE  worker[w].key # worker[v].key
        BY <1>a, <2>3, <3>1, LeaseAssumption DEF Claimable, Leased, TypeOK, Request, Ages
      <3>2. /\ worker'[v].key = worker[v].key
            /\ \A w \in Workers : w # v => worker'[w] = worker[w]
        BY <1>2, <2>1, <2>3 DEF Claim, TypeOK, Busy
      <3>3. /\ \A k \in Keys : k # worker[v].key => request'[k] = request[k]
            /\ request'[worker[v].key].status = request[worker[v].key].status
            /\ request'[worker[v].key].claimed
            /\ request'[worker[v].key].age = 0
        BY <1>2, <2>1, <2>3 DEF Claim, TypeOK, Request
      <3>4. SingleRevoker'
        BY <3>1, <3>2 DEF LeaseInv, SingleRevoker
      <3>5. ASSUME NEW w \in Workers, worker'[w].pc = "backend"
            PROVE  Leased(w)'
        <4>1. CASE w = v
          BY <2>3, <3>2, <3>3, <4>1, LeaseAssumption DEF Leased, Claimable
        <4>2. CASE w # v
          <5>1. worker'[w] = worker[w]
            BY <3>2, <4>2
          <5>2. Leased(w) /\ worker[w].key \in Keys
            BY <1>a, <3>5, <5>1
          <5>3. request'[worker[w].key] = request[worker[w].key]
            BY <3>1, <3>3, <3>5, <5>1, <5>2
          <5> QED BY <5>1, <5>2, <5>3 DEF Leased
        <4> QED BY <4>1, <4>2
      <3> QED BY <3>4, <3>5 DEF Goal
    <2> QED BY <2>2, <2>3
  <1>3. ASSUME NEW v \in Workers, NEW result \in {"ok", "transient", "terminal"},
               Complete(v, result)
        PROVE  Goal
    <2>1. /\ worker[v].key \in Keys /\ worker'[v] = Idle
          /\ \A w \in Workers : w # v => worker'[w] = worker[w]
          /\ \A k \in Keys : k # worker[v].key => request'[k] = request[k]
      BY <1>3, CompleteEffect
    <2>2. Fewer
      BY <2>1 DEF Idle, Fewer
    <2>3. ASSUME NEW w \in Workers, worker'[w].pc = "backend"
          PROVE  Kept(worker[w].key)
      <3>1. worker[w].pc = "backend" /\ w # v
        BY <2>1, <2>2, <2>3 DEF Fewer, Idle
      <3>2. worker[w].key # worker[v].key
        BY <1>3, <3>1 DEF LeaseInv, SingleRevoker, Complete
      <3> QED BY <1>a, <2>1, <3>1, <3>2 DEF Kept, Leased
    <2> QED BY <1>b, <2>2, <2>3
  <1>4. ASSUME NEW w \in Workers, NotExecuted(w)
        PROVE  Goal
    BY <1>3, <1>4 DEF NotExecuted
  <1>5. ASSUME NEW w \in Workers, NEW a \in Answers, Returned(w, a)
        PROVE  Goal
    <2>1. Revocation(a) \in {"ok", "transient", "terminal"}
      BY AnswersAssumption, RevocationResults
    <2> QED BY <1>3, <1>5, <2>1 DEF Returned
  <1>6. ASSUME NEW w \in Workers, WorkerDies(w)
        PROVE  Goal
    BY <1>c, <1>6 DEF WorkerDies, TypeOK, Idle, Fewer
  <1>7. ASSUME AuthorityRevokes \/ Stop \/ Start \/ UNCHANGED vars
        PROVE  Goal
    BY <1>c, <1>7 DEF AuthorityRevokes, Stop, Start, vars, Idle, Fewer
  <1>8. ASSUME Tick
        PROVE  Goal
    <2>1. Fewer
      BY <1>8 DEF Tick, Fewer
    <2>2. ASSUME NEW w \in Workers, worker'[w].pc = "backend"
          PROVE  Kept(worker[w].key)
      <3> DEFINE k == worker[w].key
      <3>1. worker[w].pc = "backend" /\ k \in Keys /\ Leased(w)
        BY <1>a, <1>8, <2>2 DEF Tick
      <3>2. worker[w] = [pc |-> "backend", key |-> k]
        BY <3>1, BackendType DEF Busy
      <3>3. request[k].age < Lease
        BY <1>8, <3>1, <3>2 DEF Tick, Running
      <3>4. request[k].age \in Nat /\ request[k] \in Request
        BY <3>1, LeaseAssumption DEF TypeOK, Request, Ages
      <3>5. request'[k] = [request[k] EXCEPT !.age = request[k].age + 1]
        BY <1>8, <3>1, <3>3, <3>4, LeaseAssumption DEF Tick, Leased
      <3>6. /\ request'[k].status = request[k].status
            /\ request'[k].claimed = request[k].claimed
            /\ request'[k].age = request[k].age + 1
        BY <3>4, <3>5 DEF Request
      <3> QED BY <3>3, <3>4, <3>6, LeaseAssumption DEF Kept
    <2> QED BY <1>b, <2>1, <2>2
  <1>9. Goal
    BY <1>1, <1>2, <1>4, <1>5, <1>6, <1>7, <1>8 DEF Next
  <1> QED BY <1>9 DEF Goal

LEMMA LeaseHolds == Spec => []LeaseInv
  <1>1. Init => LeaseInv
    BY DEF Init, LeaseInv, SingleRevoker, Idle
  <1> QED BY <1>1, LeaseStep, RevocationTypes, PTL DEF Spec

(***************************************************************************)
(* The lease excludes a second acme.sh for a key, provided that the first  *)
(* returns before its lease is over, for any lease and any numbers of keys *)
(* and coroutines, however often coroutines die and leases are taken over. *)
(***************************************************************************)
THEOREM LeasesExclude == Spec => [](WithinLease => SingleRevoker)
  <1>1. LeaseInv => (WithinLease => SingleRevoker)
    BY DEF LeaseInv
  <1> QED BY <1>1, LeaseHolds, PTL

-----------------------------------------------------------------------------
Durable ==
    \A k \in Keys : request[k].status \in Result =>
        request'[k] = [request[k] EXCEPT !.age = request'[k].age]

LEMMA DurableStep ==
    ASSUME WithinLease, TypeOK, LeaseInv, [Next]_vars
    PROVE  Durable
  <1> SUFFICES ASSUME NEW k \in Keys, request[k].status \in Result
               PROVE  request'[k] = [request[k] EXCEPT !.age = request'[k].age]
    BY DEF Durable
  <1>a. request[k] \in Request
    BY DEF TypeOK
  <1>b. ASSUME request'[k] = request[k]
        PROVE  request'[k] = [request[k] EXCEPT !.age = request'[k].age]
    BY <1>a, <1>b DEF Request
  <1>1. ASSUME NEW w \in Workers, NEW j \in Keys, NEW r \in Reasons,
               Submit(w, j, r)
        PROVE  request'[k] = request[k]
    BY <1>1 DEF Submit, TypeOK, Result
  <1>2. ASSUME NEW w \in Workers, Claim(w)
        PROVE  request'[k] = request[k]
    BY <1>2 DEF Claim, Claimable, TypeOK, Result
  <1>3. ASSUME NEW w \in Workers, NEW result \in {"ok", "transient", "terminal"},
               Complete(w, result)
        PROVE  request'[k] = request[k]
    <2>1. worker[w].key # k
      BY <1>3 DEF Complete, LeaseInv, Leased, Result
    <2> QED BY <1>3, <2>1, CompleteEffect
  <1>4. ASSUME NEW w \in Workers, NotExecuted(w)
        PROVE  request'[k] = request[k]
    BY <1>3, <1>4 DEF NotExecuted
  <1>5. ASSUME NEW w \in Workers, NEW a \in Answers, Returned(w, a)
        PROVE  request'[k] = request[k]
    <2>1. Revocation(a) \in {"ok", "transient", "terminal"}
      BY AnswersAssumption, RevocationResults
    <2> QED BY <1>3, <1>5, <2>1 DEF Returned
  <1>6. ASSUME NEW w \in Workers, WorkerDies(w)
        PROVE  request'[k] = request[k]
    BY <1>6 DEF WorkerDies
  <1>7. CASE AuthorityRevokes \/ Stop \/ Start \/ UNCHANGED vars
    BY <1>b, <1>7 DEF AuthorityRevokes, Stop, Start, vars
  <1>8. CASE Tick
    BY <1>8, <1>a DEF Tick, Request
  <1> QED BY <1>b, <1>1, <1>2, <1>4, <1>5, <1>6, <1>7, <1>8 DEF Next

(***************************************************************************)
(* A key's result is never replaced by another, provided that acme.sh      *)
(* returns before its lease is over: although the completion writes        *)
(* without looking at the row, its row is then still PENDING.              *)
(***************************************************************************)
THEOREM ResultsAreDurable ==
    ASSUME WithinLease
    PROVE  Spec => DurableResult
  <1>1. TypeOK /\ LeaseInv /\ [Next]_vars => [Durable]_vars
    BY DurableStep
  <1>2. Spec => [][Durable]_vars
    BY <1>1, LeaseHolds, RevocationTypes, PTL DEF Spec
  <1> QED BY <1>2 DEF DurableResult, Durable

=============================================================================
