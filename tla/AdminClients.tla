---------------------------- MODULE AdminClients ----------------------------
(***************************************************************************)
(* API clients and their credentials: the one-time initialization from the *)
(* command line, creation, rotation and revocation by an admin, and the    *)
(* Bearer authentication that all routes share.                            *)
(*                                                                         *)
(* A session first reads (the table, or the admin's and the client's rows) *)
(* and then commits; other sessions, and the command line in a process of  *)
(* its own, may commit in between.  Rows are never deleted.  Raw keys are  *)
(* random, hence numbered in the order they are generated.                 *)
(***************************************************************************)
EXTENDS Naturals, FiniteSets

CONSTANTS
    Clients,       \* client names, unique in the table
    InitialAdmin,  \* _INITIAL_ADMIN_NAME
    Sessions,      \* requests and initializations in flight at once
    MaxKeys        \* bound: credentials generated

ASSUME InitialAssumption == InitialAdmin \in Clients
ASSUME MaxKeysAssumption == MaxKeys \in Nat

VARIABLES
    client,   \* the api_keys table by name
    session,  \* the sessions in flight
    issued    \* credentials generated so far

vars == <<client, session, issued>>

Roles == {"admin", "operator", "readonly"}
RawKeys == 1 .. MaxKeys

\* active is FALSE and the keys are 0 in a row that does not exist.
Client == [exists : BOOLEAN, role : Roles, active : BOOLEAN,
           hashed : 0 .. MaxKeys, lookup : 0 .. MaxKeys]

NoClient == [exists |-> FALSE, role |-> "readonly", active |-> FALSE,
             hashed |-> 0, lookup |-> 0]

Idle == [op |-> "idle", name |-> InitialAdmin, role |-> "readonly"]

\* A row has both hashes of one credential that was generated.
Whole(c) ==
    /\ c.hashed = c.lookup
    /\ c.exists => c.lookup \in 1 .. issued
    /\ c.active => c.exists

(***************************************************************************)
(* Rows and sessions are what the code may leave: in particular the two    *)
(* hashes of a row, the one that finds it and the one that verifies, are   *)
(* of the same credential, so that no write locks a client out.            *)
(***************************************************************************)
TypeOK ==
    /\ client \in [Clients -> Client]
    /\ \A n \in Clients : Whole(client[n])
    /\ session \in [Sessions -> [op : {"idle", "initialize", "create",
                                       "rotate", "revoke"},
                                 name : Clients, role : Roles]]
    /\ issued \in 0 .. MaxKeys

Init ==
    /\ client = [n \in Clients |-> NoClient]
    /\ session = [s \in Sessions |-> Idle]
    /\ issued = 0

-----------------------------------------------------------------------------
(***************************************************************************)
(* _authenticate finds an active row by the lookup hash and verifies the   *)
(* token against the other hash; require_admin asks for the role.          *)
(***************************************************************************)
Authenticates(t, n) ==
    /\ client[n].active
    /\ client[n].lookup = t
    /\ client[n].hashed = t

RequireAdmin(t) ==
    \E n \in Clients : Authenticates(t, n) /\ client[n].role = "admin"

Open(s, op, n, role) ==
    /\ session[s] = Idle
    /\ session' = [session EXCEPT ![s] =
                      [op |-> op, name |-> n, role |-> role]]
    /\ UNCHANGED <<client, issued>>

Close(s) == session' = [session EXCEPT ![s] = Idle]

-----------------------------------------------------------------------------
\* initialize_admin: the count and the INSERT, which the unique name decides.
InitializeRead(s) ==
    /\ \A n \in Clients : ~client[n].exists
    /\ Open(s, "initialize", InitialAdmin, "admin")

ProvisionRead(s, t, n, role) ==
    /\ RequireAdmin(t)
    /\ Open(s, "create", n, role)

\* Mutant: a second INSERT of a name replaces the row.
InsertReplaces(s) ==
    LET n == session[s].name
    IN  /\ session[s].op \in {"initialize", "create"}
        /\ issued < MaxKeys
        /\ issued' = issued + 1
        /\ client' = [client EXCEPT ![n] =
                         [exists |-> TRUE, role |-> session[s].role,
                          active |-> TRUE, hashed |-> issued + 1,
                          lookup |-> issued + 1]]
        /\ Close(s)

Insert(s) ==
    LET n == session[s].name
    IN  /\ session[s].op \in {"initialize", "create"}
        /\ ~client[n].exists
        /\ issued < MaxKeys
        /\ issued' = issued + 1
        /\ client' = [client EXCEPT ![n] =
                         [exists |-> TRUE, role |-> session[s].role,
                          active |-> TRUE, hashed |-> issued + 1,
                          lookup |-> issued + 1]]
        /\ Close(s)

\* An IntegrityError: the command fails, the request answers 409.
InsertCollides(s) ==
    /\ session[s].op \in {"initialize", "create"}
    /\ client[session[s].name].exists
    /\ Close(s)
    /\ UNCHANGED <<client, issued>>

-----------------------------------------------------------------------------
RotateRead(s, t, n) ==
    /\ RequireAdmin(t)
    /\ client[n].exists
    /\ Open(s, "rotate", n, client[n].role)

\* Mutant: a rotated client is active again.
RotateReactivates(s) ==
    /\ session[s].op = "rotate"
    /\ issued < MaxKeys
    /\ issued' = issued + 1
    /\ client' = [client EXCEPT ![session[s].name].hashed = issued + 1,
                                ![session[s].name].lookup = issued + 1,
                                ![session[s].name].active = TRUE]
    /\ Close(s)

\* Mutant: the lookup hash is left as it was.
RotateKeepsLookup(s) ==
    /\ session[s].op = "rotate"
    /\ issued < MaxKeys
    /\ issued' = issued + 1
    /\ client' = [client EXCEPT ![session[s].name].hashed = issued + 1]
    /\ Close(s)

\* rotate_client writes both hashes, and neither the role nor is_active.
Rotate(s) ==
    /\ session[s].op = "rotate"
    /\ issued < MaxKeys
    /\ issued' = issued + 1
    /\ client' = [client EXCEPT ![session[s].name].hashed = issued + 1,
                                ![session[s].name].lookup = issued + 1]
    /\ Close(s)

RevokeRead(s, t, n) ==
    /\ RequireAdmin(t)
    /\ client[n].exists
    /\ Open(s, "revoke", n, client[n].role)

\* Mutant: a revocation toggles is_active.
RevokeToggles(s) ==
    /\ session[s].op = "revoke"
    /\ client' = [client EXCEPT ![session[s].name].active = ~@]
    /\ Close(s)
    /\ UNCHANGED issued

\* revoke_client writes is_active alone.
Revoke(s) ==
    /\ session[s].op = "revoke"
    /\ client' = [client EXCEPT ![session[s].name].active = FALSE]
    /\ Close(s)
    /\ UNCHANGED issued

\* A crash, a lost connection or a database error before the commit.
SessionDies(s) ==
    /\ session[s] # Idle
    /\ Close(s)
    /\ UNCHANGED <<client, issued>>

-----------------------------------------------------------------------------
Request(s, t) ==
    \E n \in Clients :
        \/ RotateRead(s, t, n) \/ RevokeRead(s, t, n)
        \/ \E role \in Roles : ProvisionRead(s, t, n, role)

Commit(s) ==
    Insert(s) \/ InsertCollides(s) \/ Rotate(s) \/ Revoke(s) \/ SessionDies(s)

Next ==
    \E s \in Sessions : \/ InitializeRead(s)
                        \/ \E t \in RawKeys : Request(s, t)
                        \/ Commit(s)

Spec == Init /\ [][Next]_vars

-----------------------------------------------------------------------------
Accepted(t) == \E n \in Clients : Authenticates(t, n)

(***************************************************************************)
(* A credential that was rotated out, revoked or never came to be stored   *)
(* is never accepted again, however rotations, revocations and creations   *)
(* of the same client overlap.                                             *)
(***************************************************************************)
DeadKeysStayDead ==
    [][\A t \in 1 .. issued : ~Accepted(t) => ~Accepted(t)']_vars

(***************************************************************************)
(* revoke_client is final: a rotation that read the client before it was   *)
(* revoked and commits afterwards does not bring the client back.          *)
(***************************************************************************)
RevokedIsFinal ==
    [][\A n \in Clients : client[n].exists /\ ~client[n].active =>
           ~client'[n].active]_vars

(***************************************************************************)
(* initialize_admin creates a client in an empty table only, although two  *)
(* initializations may both have read it empty before other clients exist. *)
(***************************************************************************)
InitializesEmptyTable ==
    [][\A s \in Sessions :
           /\ session[s].op = "initialize"
           /\ client' # client
           /\ session'[s] = Idle
           => \A n \in Clients : ~client[n].exists]_vars

=============================================================================
