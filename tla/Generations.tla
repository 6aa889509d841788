----------------------------- MODULE Generations ----------------------------
(***************************************************************************)
(* The generation that a row names and the one that is in service: the     *)
(* columns current_generation_id and generation_selection_idempotency_key  *)
(* of the certificates table beside the `current` links of the deployment  *)
(* directories.  The link is switched first, by synchronous code, and the  *)
(* row is committed later; in between other coroutines run and a crash or  *)
(* a failing commit may fall.  Deployer has the steps behind one switch.   *)
(***************************************************************************)
EXTENDS Requests, FiniteSets

CONSTANTS
    Certs,           \* requests, each with a row
    Domains,         \* their normalized names
    Workers,         \* coroutines that deploy or select
    Keys,            \* Idempotency-Key values of selections
    NoKey,           \* no selection was made
    MaxGenerations   \* bound: generations published

ASSUME KeyAssumption == NoKey \notin Keys
ASSUME BoundAssumption == MaxGenerations \in Nat
ASSUME DomainsAssumption ==
    /\ DOMAIN Domains = Certs
    /\ \A c \in Certs : Domains[c][1] \in Seq(Nat) \ {<<>>}

\* models/certificate.py: deployment_directory.
Dir(c) == Directory(Domains[c])
Dirs == {Dir(c) : c \in Certs}

VARIABLES
    row,        \* status, generation and key of every row; 0 for no generation
    current,    \* what the `current` link of each directory points to
    retained,   \* the generations that exist in each directory
    published,  \* generations published so far
    worker,     \* coroutines on their way to a commit
    torn        \* history: directories whose last switch has no commit to match
                \*   (see Switch and Settles)

vars == <<row, current, retained, published, worker, torn>>

Generation == 1 .. MaxGenerations

\* loaded is the generation the row named when the coroutine read it.
Idle == [pc |-> "idle"]
Working == [pc : {"load", "select", "issue", "renew"}, cert : Certs,
            gen : Generation \union {0}, loaded : Generation \union {0},
            key : Keys \union {NoKey}, alone : BOOLEAN]

TypeOK ==
    /\ row \in [Certs -> [status : {"issuing", "valid", "closed"},
                          gen : Generation \union {0},
                          key : Keys \union {NoKey}]]
    /\ current \in [Dirs -> Generation \union {0}]
    /\ retained \in [Dirs -> SUBSET Generation]
    /\ \A d \in Dirs : current[d] # 0 => current[d] \in retained[d]
    /\ published \in 0 .. MaxGenerations
    /\ worker \in [Workers -> Working \union {Idle}]
    /\ torn \subseteq Dirs

Init ==
    /\ row = [c \in Certs |-> [status |-> "issuing", gen |-> 0, key |-> NoKey]]
    /\ current = [d \in Dirs |-> 0]
    /\ retained = [d \in Dirs |-> {}]
    /\ published = 0
    /\ worker = [w \in Workers |-> Idle]
    /\ torn = {}

-----------------------------------------------------------------------------
(***************************************************************************)
(* The switch of a link.  alone is history: no other coroutine has been    *)
(* between its switch and its commit in the same directory since this one  *)
(* read its row.                                                           *)
(***************************************************************************)
Near(d) == {w \in Workers : worker[w] # Idle /\ Dir(worker[w].cert) = d}
Switched(d) == {w \in Near(d) : worker[w].pc # "load"}

Begun(c, pc, g, k) ==
    [pc |-> pc, cert |-> c, gen |-> g, loaded |-> row[c].gen, key |-> k,
     alone |-> Switched(Dir(c)) = {}]

Switch(w, t) ==
    /\ current' = [current EXCEPT ![Dir(t.cert)] = t.gen]
    /\ worker' = [v \in Workers |->
                     IF v = w THEN t
                     ELSE IF v \in Near(Dir(t.cert))
                          THEN [worker[v] EXCEPT !.alone = FALSE]
                     ELSE worker[v]]
    /\ torn' = torn \union {Dir(t.cert)}

(***************************************************************************)
(* deploy_issuance_result on behalf of _issue_and_deploy or of a renewal:  *)
(* a new generation is published, becomes current, and cleanup_generations *)
(* removes some of the others.                                             *)
(***************************************************************************)
Deploy(w, c, pc) ==
    /\ worker[w] = Idle
    /\ published < MaxGenerations
    /\ published' = published + 1
    /\ \E removed \in SUBSET retained[Dir(c)] :
          retained' = [retained EXCEPT ![Dir(c)] =
                          (@ \ removed) \union {published + 1}]
    /\ Switch(w, Begun(c, pc, published + 1, NoKey))
    /\ UNCHANGED row

DeployIssued(w, c) == row[c].status = "issuing" /\ Deploy(w, c, "issue")

DeployRenewed(w, c) == row[c].status # "issuing" /\ Deploy(w, c, "renew")

(***************************************************************************)
(* select_deployment_generation.  The row is read in one step and used in  *)
(* the next.  The key of the last selection is answered from the row, or   *)
(* refused if it was for another generation.                               *)
(***************************************************************************)
LoadRow(w, c, k) ==
    /\ worker[w] = Idle
    /\ row[c].key # k
    /\ worker' = [worker EXCEPT ![w] = Begun(c, "load", 0, k)]
    /\ UNCHANGED <<row, current, retained, published, torn>>

\* Mutant: the generation is not looked for.
SelectAnything(w, g) ==
    /\ worker[w].pc = "load"
    /\ Switch(w, [worker[w] EXCEPT !.pc = "select", !.gen = g])
    /\ UNCHANGED <<row, retained, published>>

\* select_generation; a generation that does not exist ends the request.
Select(w, g) ==
    /\ worker[w].pc = "load"
    /\ g \in retained[Dir(worker[w].cert)]
    /\ Switch(w, [worker[w] EXCEPT !.pc = "select", !.gen = g])
    /\ UNCHANGED <<row, retained, published>>

-----------------------------------------------------------------------------
(***************************************************************************)
(* The commit.  Only columns that differ from what was loaded are written; *)
(* an issuance is committed by a guarded UPDATE, and refused if the        *)
(* request was cancelled or deleted meanwhile.                             *)
(***************************************************************************)
Written(t) == [row[t.cert] EXCEPT !.gen = IF t.gen = t.loaded THEN @ ELSE t.gen]

Settles(w) ==
    torn' = IF worker[w].alone THEN torn \ {Dir(worker[w].cert)} ELSE torn

CommitSelection(w) ==
    LET t == worker[w]
    IN  /\ t.pc = "select"
        /\ row' = [row EXCEPT ![t.cert] = [Written(t) EXCEPT !.key = t.key]]
        /\ worker' = [worker EXCEPT ![w] = Idle]
        /\ Settles(w)
        /\ UNCHANGED <<current, retained, published>>

CommitRenewal(w) ==
    LET t == worker[w]
    IN  /\ t.pc = "renew"
        /\ row' = [row EXCEPT ![t.cert] = [Written(t) EXCEPT !.status = "valid"]]
        /\ worker' = [worker EXCEPT ![w] = Idle]
        /\ Settles(w)
        /\ UNCHANGED <<current, retained, published>>

CommitIssue(w) ==
    LET t == worker[w]
    IN  /\ t.pc = "issue"
        /\ row[t.cert].status = "issuing"
        /\ row' = [row EXCEPT ![t.cert] = [Written(t) EXCEPT !.status = "valid"]]
        /\ worker' = [worker EXCEPT ![w] = Idle]
        /\ Settles(w)
        /\ UNCHANGED <<current, retained, published>>

\* The row was closed, the generation does not exist or the commit fails:
\* the link stays where it is.
CommitLost(w) ==
    /\ worker[w] # Idle
    /\ worker' = [worker EXCEPT ![w] = Idle]
    /\ UNCHANGED <<row, current, retained, published, torn>>

Delete(c) ==
    /\ row[c].status # "closed"
    /\ row' = [row EXCEPT ![c].status = "closed"]
    /\ UNCHANGED <<current, retained, published, worker, torn>>

Crash ==
    /\ worker' = [w \in Workers |-> Idle]
    /\ UNCHANGED <<row, current, retained, published, torn>>

-----------------------------------------------------------------------------
Next ==
    \/ \E w \in Workers, c \in Certs :
          \/ DeployIssued(w, c) \/ DeployRenewed(w, c)
          \/ \E k \in Keys : LoadRow(w, c, k)
    \/ \E w \in Workers :
          \/ \E g \in Generation : Select(w, g)
          \/ CommitSelection(w) \/ CommitRenewal(w) \/ CommitIssue(w)
          \/ CommitLost(w)
    \/ \E c \in Certs : Delete(c)
    \/ Crash

Spec == Init /\ [][Next]_vars

-----------------------------------------------------------------------------
(***************************************************************************)
(* A row names the generation in service: whenever the last switch of a    *)
(* directory was committed without another one in between, `current` is    *)
(* the current_generation_id of a request with that primary name.  A       *)
(* crash, a failing commit or two overlapping selections leave them apart  *)
(* only until the next deployment or selection that is undisturbed, though *)
(* the commit writes no column that looks unchanged; and no request with   *)
(* another primary name reaches the directory, a wildcard beside its apex  *)
(* included.                                                               *)
(***************************************************************************)
RowNamesCurrent ==
    \A c \in Certs : Dir(c) \notin torn =>
        \E e \in Certs : /\ Domains[e][1] = Domains[c][1]
                         /\ row[e].gen = current[Dir(c)]

=============================================================================
