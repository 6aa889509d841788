-------------------------- MODULE AdminClientsProofs ------------------------
(* Proofs about API clients and their credentials. *)
EXTENDS AdminClients, TLAPS

Ops == {"idle", "initialize", "create", "rotate", "revoke"}
Session == [op : Ops, name : Clients, role : Roles]

LEMMA IdleType == Idle \in Session
  BY InitialAssumption DEF Idle, Session, Ops, Roles

LEMMA TypeInit == Init => TypeOK
  <1>1. NoClient \in Client /\ 0 \in 0 .. MaxKeys
    BY MaxKeysAssumption DEF NoClient, Client, Roles
  <1>2. Init => \A n \in Clients : Whole(client[n])
    BY DEF Init, NoClient, Whole
  <1> QED BY <1>1, <1>2, IdleType DEF Init, TypeOK, Session, Ops

(***************************************************************************)
(* What a step makes of the table: the rows that are written, and by which *)
(* session.  Every other step leaves the table and the credentials alone.  *)
(***************************************************************************)
Writes(s) == Insert(s) \/ Rotate(s) \/ Revoke(s)

Reads(s) ==
    \/ InitializeRead(s) \/ InsertCollides(s) \/ SessionDies(s)
    \/ \E t \in RawKeys : Request(s, t)

LEMMA StepKinds ==
    ASSUME [Next]_vars
    PROVE  (\E s \in Sessions : Writes(s) \/ Reads(s)) \/ UNCHANGED vars
  BY DEF Next, Commit, Writes, Reads

LEMMA ReadsWriteNothing ==
    ASSUME NEW s \in Sessions, Reads(s)
    PROVE  UNCHANGED <<client, issued>>
  BY DEF Reads, InitializeRead, InsertCollides, SessionDies, Request,
         RotateRead, RevokeRead, ProvisionRead, Open

LEMMA SessionStep ==
    ASSUME TypeOK, NEW s \in Sessions, Writes(s) \/ Reads(s)
    PROVE  /\ session' \in [Sessions -> Session]
           /\ \A r \in Sessions : r # s => session'[r] = session[r]
  <1>1. session \in [Sessions -> Session]
    BY DEF TypeOK, Session, Ops
  <1>2. CASE Writes(s) \/ InsertCollides(s) \/ SessionDies(s)
    <2>1. session' = [session EXCEPT ![s] = Idle]
      BY <1>2 DEF Writes, Insert, Rotate, Revoke, InsertCollides, SessionDies, Close
    <2> QED BY <1>1, <2>1, IdleType
  <1>3. CASE InitializeRead(s) \/ \E t \in RawKeys : Request(s, t)
    <2>1. PICK op \in Ops, n \in Clients, role \in Roles : Open(s, op, n, role)
      <3>1. CASE InitializeRead(s)
        BY <3>1, InitialAssumption DEF InitializeRead, Ops, Roles
      <3>2. ASSUME NEW t \in RawKeys, NEW n \in Clients,
                   RotateRead(s, t, n) \/ RevokeRead(s, t, n)
            PROVE  \E op \in Ops, m \in Clients, role \in Roles :
                       Open(s, op, m, role)
        <4>1. client[n].role \in Roles
          BY DEF TypeOK, Client
        <4> QED BY <3>2, <4>1 DEF RotateRead, RevokeRead, Ops
      <3>3. ASSUME NEW t \in RawKeys, NEW n \in Clients, NEW role \in Roles,
                   ProvisionRead(s, t, n, role)
            PROVE  \E op \in Ops, m \in Clients, r \in Roles : Open(s, op, m, r)
        BY <3>3 DEF ProvisionRead, Ops
      <3> QED BY <1>3, <3>1, <3>2, <3>3 DEF Request
    <2>2. [op |-> op, name |-> n, role |-> role] \in Session
      BY DEF Session
    <2> QED BY <1>1, <2>1, <2>2 DEF Open
  <1> QED BY <1>2, <1>3 DEF Reads

\* The row a writing session leaves, and that it leaves the others alone.
LEMMA WriteEffect ==
    ASSUME TypeOK, NEW s \in Sessions, Writes(s)
    PROVE  LET n == session[s].name
           IN  /\ n \in Clients
               /\ client' \in [Clients -> Client]
               /\ \A m \in Clients : m # n => client'[m] = client[m]
               /\ \/ /\ Insert(s)
                     /\ client'[n].exists
                     /\ client'[n].lookup = issued + 1
                  \/ /\ Rotate(s)
                     /\ client'[n].exists = client[n].exists
                     /\ client'[n].active = client[n].active
                     /\ client'[n].lookup = issued + 1
                  \/ /\ Revoke(s)
                     /\ client'[n].exists = client[n].exists
                     /\ client'[n].active = FALSE
               /\ issued' \in {issued, issued + 1} /\ issued' \in 0 .. MaxKeys
               /\ \A m \in Clients : Whole(client[m])'
               /\ session'[s] = Idle
  <1>1. session[s].name \in Clients /\ session[s].role \in Roles
    BY DEF TypeOK
  <1>2. client[session[s].name] \in Client
    BY <1>1 DEF TypeOK
  <1>3. issued < MaxKeys => issued + 1 \in 0 .. MaxKeys
    BY MaxKeysAssumption DEF TypeOK
  <1>a. issued \in Nat /\ MaxKeys \in Nat
    BY MaxKeysAssumption DEF TypeOK
  <1>b. \A m \in Clients : client[m] \in Client /\ Whole(client[m])
    BY DEF TypeOK
  <1>4. CASE Insert(s)
    <2>1. \A m \in Clients : Whole(client[m])'
      BY <1>1, <1>4, <1>a, <1>b DEF Insert, TypeOK, Client, Whole
    <2> QED BY <1>1, <1>2, <1>3, <1>4, <2>1 DEF Insert, Close, TypeOK, Client
  <1>5. CASE Rotate(s)
    <2>1. \A m \in Clients : Whole(client[m])'
      BY <1>1, <1>5, <1>a, <1>b DEF Rotate, TypeOK, Client, Whole
    <2> QED BY <1>1, <1>2, <1>3, <1>5, <2>1 DEF Rotate, Close, TypeOK, Client
  <1>6. CASE Revoke(s)
    <2>1. \A m \in Clients : Whole(client[m])'
      BY <1>1, <1>6, <1>a, <1>b DEF Revoke, TypeOK, Client, Whole
    <2> QED BY <1>1, <1>2, <1>6, <2>1 DEF Revoke, Close, TypeOK, Client
  <1> QED BY <1>4, <1>5, <1>6 DEF Writes

LEMMA TypeStep == TypeOK /\ [Next]_vars => TypeOK'
  <1> SUFFICES ASSUME TypeOK, [Next]_vars PROVE TypeOK'
    OBVIOUS
  <1>1. ASSUME NEW s \in Sessions, Writes(s)
        PROVE  TypeOK'
    BY <1>1, SessionStep, WriteEffect DEF TypeOK, Session, Ops
  <1>2. ASSUME NEW s \in Sessions, Reads(s)
        PROVE  TypeOK'
    BY <1>2, SessionStep, ReadsWriteNothing DEF TypeOK, Session, Ops, Whole
  <1>3. CASE UNCHANGED vars
    BY <1>3 DEF TypeOK, vars, Whole
  <1> QED BY <1>1, <1>2, <1>3, StepKinds

(***************************************************************************)
(* Every read and every write of the clients' rows, at whatever point of a *)
(* session, leaves rows whose two hashes belong to one credential, and     *)
(* sessions of the kind the next step expects.                             *)
(***************************************************************************)
THEOREM ClientTypes == Spec => []TypeOK
  BY TypeInit, TypeStep, PTL DEF Spec

-----------------------------------------------------------------------------
Revival == \A t \in 1 .. issued : ~Accepted(t) => ~Accepted(t)'

LEMMA NoRevival ==
    ASSUME TypeOK, [Next]_vars
    PROVE  Revival
  <1> SUFFICES ASSUME NEW t \in 1 .. issued, NEW n \in Clients,
                      Authenticates(t, n)'
               PROVE  Authenticates(t, n)
    BY DEF Revival, Accepted
  <1>1. t <= issued /\ t \in Nat /\ issued \in Nat
    BY MaxKeysAssumption DEF TypeOK
  <1>2. ASSUME NEW s \in Sessions, Writes(s)
        PROVE  client'[n] = client[n]
    <2>1. CASE n # session[s].name
      BY <1>2, <2>1, WriteEffect
    <2>2. CASE n = session[s].name
      <3>1. client'[n].lookup = issued + 1 \/ client'[n].active = FALSE
        BY <1>2, <2>2, WriteEffect
      <3> QED BY <1>1, <3>1 DEF Authenticates
    <2> QED BY <2>1, <2>2
  <1>3. client'[n] = client[n]
    BY <1>2, StepKinds, ReadsWriteNothing DEF vars
  <1> QED BY <1>3 DEF Authenticates

(***************************************************************************)
(* A credential that is not accepted once generated is never accepted      *)
(* again, for any numbers of clients and of overlapping sessions           *)
(* (authenticate, rotate_client, revoke_client).                           *)
(***************************************************************************)
THEOREM NoCredentialRevives == Spec => DeadKeysStayDead
  <1>1. TypeOK /\ [Next]_vars => [Revival]_vars
    BY NoRevival
  <1>2. Spec => [][Revival]_vars
    BY <1>1, ClientTypes, PTL DEF Spec
  <1> QED BY <1>2 DEF DeadKeysStayDead, Revival

-----------------------------------------------------------------------------
Final == \A n \in Clients : client[n].exists /\ ~client[n].active =>
             ~client'[n].active

LEMMA FinalStep ==
    ASSUME TypeOK, [Next]_vars
    PROVE  Final
  <1> SUFFICES ASSUME NEW n \in Clients, client[n].exists, ~client[n].active
               PROVE  ~client'[n].active
    BY DEF Final
  <1>1. ASSUME NEW s \in Sessions, Writes(s)
        PROVE  ~client'[n].active
    <2>1. CASE n # session[s].name
      BY <1>1, <2>1, WriteEffect
    <2>2. CASE n = session[s].name
      <3>1. ~Insert(s)
        BY <2>2 DEF Insert
      <3> QED BY <1>1, <2>2, <3>1, WriteEffect
    <2> QED BY <2>1, <2>2
  <1> QED BY <1>1, StepKinds, ReadsWriteNothing DEF vars

(***************************************************************************)
(* A revoked client stays revoked, whatever rotations read it before       *)
(* (revoke_client, rotate_client).                                         *)
(***************************************************************************)
THEOREM RevocationIsFinal == Spec => RevokedIsFinal
  <1>1. TypeOK /\ [Next]_vars => [Final]_vars
    BY FinalStep
  <1>2. Spec => [][Final]_vars
    BY <1>1, ClientTypes, PTL DEF Spec
  <1> QED BY <1>2 DEF RevokedIsFinal, Final

-----------------------------------------------------------------------------
(***************************************************************************)
(* Until the initial admin is in the table nobody is, and nothing but      *)
(* initializations is in flight: every other operation needs an admin.     *)
(***************************************************************************)
EmptyInv ==
    /\ \A n \in Clients : client[n].active => client[n].exists
    /\ \A s \in Sessions : session[s].op = "initialize" =>
           session[s].name = InitialAdmin
    /\ ~client[InitialAdmin].exists =>
           /\ \A n \in Clients : ~client[n].exists
           /\ \A s \in Sessions : session[s].op \in {"idle", "initialize"}

LEMMA EmptyStep == TypeOK /\ EmptyInv /\ [Next]_vars => EmptyInv'
  <1> SUFFICES ASSUME TypeOK, EmptyInv, [Next]_vars PROVE EmptyInv'
    OBVIOUS
  <1>1. ASSUME NEW s \in Sessions, Writes(s)
        PROVE  EmptyInv'
    <2> DEFINE n == session[s].name
    <2>1. /\ n \in Clients /\ session'[s] = Idle
          /\ \A r \in Sessions : r # s => session'[r] = session[r]
      BY <1>1, WriteEffect, SessionStep
    <2>2. \A m \in Clients : client'[m].active => client'[m].exists
      BY <1>1, WriteEffect DEF EmptyInv
    <2>3. \A r \in Sessions : session'[r].op = "initialize" =>
              session'[r].name = InitialAdmin
      BY <2>1 DEF EmptyInv, Idle
    <2>4. ASSUME ~client'[InitialAdmin].exists
          PROVE  FALSE
      <3>1. ~client[InitialAdmin].exists
        BY <1>1, <2>4, WriteEffect, InitialAssumption
      <3>2. session[s].op = "initialize"
        BY <1>1, <3>1 DEF EmptyInv, Writes, Insert, Rotate, Revoke
      <3>3. n = InitialAdmin /\ Insert(s)
        BY <1>1, <3>2 DEF EmptyInv, Writes, Rotate, Revoke
      <3> QED BY <1>1, <2>4, <3>2, <3>3, WriteEffect DEF Rotate, Revoke
    <2> QED BY <2>2, <2>3, <2>4 DEF EmptyInv
  <1>2. ASSUME NEW s \in Sessions, Reads(s)
        PROVE  EmptyInv'
    <2>1. UNCHANGED client
      BY <1>2, ReadsWriteNothing
    <2>2. \A r \in Sessions : r # s => session'[r] = session[r]
      BY <1>2, SessionStep
    <2>3. /\ session'[s].op = "initialize" => session'[s].name = InitialAdmin
          /\ \/ session'[s].op \in {"idle", "initialize"}
             \/ \E n \in Clients : client[n].active
      <3>1. CASE InitializeRead(s)
        BY <3>1 DEF InitializeRead, Open, TypeOK
      <3>2. CASE InsertCollides(s) \/ SessionDies(s)
        BY <3>2 DEF InsertCollides, SessionDies, Close, Idle, TypeOK
      <3>3. CASE \E t \in RawKeys : Request(s, t)
        BY <3>3 DEF Request, RotateRead, RevokeRead, ProvisionRead,
                    RequireAdmin, Authenticates, Open, TypeOK
      <3> QED BY <1>2, <3>1, <3>2, <3>3 DEF Reads
    <2> QED BY <2>1, <2>2, <2>3 DEF EmptyInv
  <1>3. CASE UNCHANGED vars
    BY <1>3 DEF EmptyInv, vars
  <1> QED BY <1>1, <1>2, <1>3, StepKinds

EmptyBefore ==
    \A s \in Sessions :
        /\ session[s].op = "initialize"
        /\ client' # client
        /\ session'[s] = Idle
        => \A n \in Clients : ~client[n].exists

LEMMA EmptyBeforeStep ==
    ASSUME TypeOK, EmptyInv, [Next]_vars
    PROVE  EmptyBefore
  <1> SUFFICES ASSUME NEW s \in Sessions, session[s].op = "initialize",
                      client' # client, session'[s] = Idle
               PROVE  ~client[InitialAdmin].exists
    BY DEF EmptyBefore, EmptyInv
  <1>1. PICK r \in Sessions : Writes(r)
    BY StepKinds, ReadsWriteNothing DEF vars
  <1>2. r = s
    BY <1>1, SessionStep DEF Idle
  <1> QED BY <1>1, <1>2 DEF Writes, Insert, Rotate, Revoke, EmptyInv

(***************************************************************************)
(* initialize_admin inserts into an empty table only, for any numbers of   *)
(* clients and of initializations that overlap with one another and with   *)
(* what the first admin does next.                                         *)
(***************************************************************************)
THEOREM InitializationNeedsEmptyTable == Spec => InitializesEmptyTable
  <1>1. Init => EmptyInv
    BY DEF Init, EmptyInv, NoClient, Idle
  <1>2. TypeOK /\ EmptyInv /\ [Next]_vars => [EmptyBefore]_vars
    BY EmptyBeforeStep
  <1>3. Spec => [][EmptyBefore]_vars
    BY <1>1, <1>2, EmptyStep, ClientTypes, PTL DEF Spec
  <1> QED BY <1>3 DEF InitializesEmptyTable, EmptyBefore

=============================================================================
