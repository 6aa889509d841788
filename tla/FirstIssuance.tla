----------------------------- MODULE FirstIssuance --------------------------
(***************************************************************************)
(* One request identity from the payload of POST /v1/certificates to the   *)
(* outcome of its first issuance: the validation of the names, the DNS     *)
(* Persist instructions, resubmissions, the acme.sh command and the checks *)
(* on the files it leaves.  What acme.sh and openssl answer, the DNS       *)
(* provider's environment file and the files are arbitrary.  Concurrent    *)
(* creations, holds, releases and restarts are in CertificateService.      *)
(***************************************************************************)
EXTENDS AcmeSh, Requests

CONSTANTS
    Payloads,   \* the domain lists clients send
    Answers,    \* what an acme.sh that exits may leave
    EnvFiles,   \* the contents of the DNS provider's file
    Environ,    \* the variables of the service's own environment
    Logged      \* whether a log file is configured for acme.sh

ASSUME PayloadsAssumption ==
    Payloads \subseteq Seq(RawDomain(Seq(Nat) \ {<<>>}))
ASSUME AnswersAssumption == Answers \subseteq Answer
ASSUME EnvFilesAssumption == EnvFiles \subseteq Seq(EnvLine)
ASSUME EnvironAssumption == Environ \subseteq EnvKey /\ Logged \in BOOLEAN

VARIABLES
    row,       \* the request's row; status "value" while acme.sh is asked
    category,  \* the category in its certificate.failed event, if it has one
    reply,     \* the answer to the last creation request
    sent,      \* history: the names the row was created from
    repeated,  \* history: the last creation request asks for the same names
    given,     \* history: the environment file of the issue command
    deserved   \* history: what the issue command's outcome ought to be

vars == <<row, category, reply, sent, repeated, given, deserved>>

NoRow == [status |-> "absent", persist |-> FALSE, domains |-> <<>>,
          scope |-> <<>>, wildcard |-> FALSE]

Stored == {"pending", "pending_dns", "issuing", "valid", "failed", "closed"}
Category == {"none", "transient", "terminal", "deployment"}
Reply == {"none", "created", "resumed", "conflict", "unprocessable",
          "unavailable"}

TypeOK ==
    /\ row.status \in Stored \union {"absent", "value"}
    /\ row.persist \in BOOLEAN /\ row.wildcard \in BOOLEAN
    /\ category \in Category
    /\ reply \in Reply
    /\ sent \in Payloads \union {<<>>} /\ repeated \in BOOLEAN
    /\ row.status = "absent" <=> row = NoRow
    /\ row.status \in Stored => sent # <<>> /\ row.domains # <<>>
    /\ row.status = "failed" => category # "none"
    /\ category # "none" => row.status \in {"failed", "closed"}

Init ==
    /\ row = NoRow /\ category = "none"
    /\ reply = "none"
    /\ sent = <<>> /\ given = <<>> /\ repeated = FALSE
    /\ deserved = "none"

-----------------------------------------------------------------------------
(***************************************************************************)
(* create_certificate for an identity that has no row: the payload is      *)
(* validated, and for DNS Persist acme.sh is asked for the TXT value       *)
(* before the row is inserted.                                             *)
(***************************************************************************)
NewRow(status, persist, domains) ==
    [status |-> status, persist |-> persist, domains |-> domains,
     scope |-> IF persist THEN Scope(domains) ELSE <<>>,
     wildcard |-> persist /\ WildcardPolicy(domains)]

Create(raws, persist) ==
    LET domains == Normalized(raws)
    IN  /\ row.status = "absent"
        /\ IF Acceptable(raws) /\ (persist => InScope(domains))
           THEN /\ row' = NewRow(IF persist THEN "value" ELSE "pending",
                                 persist, domains)
                /\ reply' = IF persist THEN "none" ELSE "created"
                /\ sent' = raws
           ELSE reply' = "unprocessable" /\ UNCHANGED <<row, sent>>
        /\ UNCHANGED <<category, repeated, given, deserved>>

\* make_dns_persist_value returns: the row is inserted, or nothing is.
ValueMade(a, value) ==
    LET result == PersistValue(a, value)
    IN  /\ row.status = "value"
        /\ IF result = "ok"
           THEN /\ row' = [row EXCEPT !.status = "pending_dns"]
                /\ reply' = "created" /\ UNCHANGED sent
           ELSE /\ row' = NoRow /\ sent' = <<>>
                /\ reply' = IF result = "transient" THEN "unavailable"
                            ELSE "unprocessable"
        /\ UNCHANGED <<category, repeated, given, deserved>>

\* Mutant: a request is told apart by its primary name.
ResumesByPrimary(raws) ==
    /\ row.persist /\ row.status # "closed"
    /\ row.domains[1] = Normalized(raws)[1]

\* _resume_or_reject.
Resumes(raws) ==
    /\ row.persist
    /\ row.status # "closed"
    /\ row.domains = Normalized(raws)

\* The same names, as a client would say: the same primary, the same set.
Spelt(raws) == {raws[i].name : i \in DOMAIN raws}

SameRequest(p, q) == p[1].name = q[1].name /\ Spelt(p) = Spelt(q)

\* create_certificate for an identity that has a row.
Resubmit(raws) ==
    /\ row.status \in Stored
    /\ repeated' = SameRequest(sent, raws)
    /\ reply' = IF ~Acceptable(raws) THEN "unprocessable"
                ELSE IF Resumes(raws) THEN "resumed" ELSE "conflict"
    /\ UNCHANGED <<row, category, sent, given, deserved>>

-----------------------------------------------------------------------------
(***************************************************************************)
(* _validate_source_files: every source must be a regular file that is not *)
(* a link and lies under an allowed root.                                  *)
(***************************************************************************)
SourceKind == {"regular", "missing", "link", "special", "outside"}

Deployable(source) == \A f \in Files : source[f] = "regular"

\* One file may not be what it should be.  (A failed command's do not matter.)
Sources(a) ==
    {[f \in Files |-> IF f = g /\ a.exit = 0 THEN k ELSE "regular"] :
        g \in Files, k \in SourceKind}

(***************************************************************************)
(* _issue_and_deploy and _mark_failed: the row is ISSUING while acme.sh    *)
(* runs (a DNS Persist request was authorized before).                     *)
(***************************************************************************)
StartIssue(env) ==
    /\ row.status \in {"pending", "pending_dns"}
    /\ row.persist => env = <<>>
    /\ row' = [row EXCEPT !.status = "issuing"]
    /\ reply' = "none"
    /\ given' = env
    /\ UNCHANGED <<category, sent, repeated, deserved>>

\* A value with an open quote raises before acme.sh is run, and nobody handles
\* it: the row stays ISSUING.
Stuck == row.status = "issuing" /\ EnvRaises(given)

\* An account or a provider that is not configured, for which acme.sh is not
\* run, comes to the same as a file that may not be deployed.
Outcome(a, source) ==
    IF Issuance(a) # "ok" THEN Issuance(a)
    ELSE IF Deployable(source) THEN "none" ELSE "deployment"

(***************************************************************************)
(* What the outcome ought to be, from the description of _classify_exit: a *)
(* failure is transient if some phrase says that it will pass, or if the   *)
(* exit code does and no phrase says that it will not.                     *)
(***************************************************************************)
Passing(a) ==
    LET says(s) == s \in a.out \/ s \in a.err
    IN  \/ says("dns") \/ says("rate")
        \/ a.exit = 75 /\ ~says("auth") /\ ~says("config")

Deserved(a, source) ==
    CASE a.exit # 0 /\ Passing(a) -> "transient"
      [] a.exit # 0 /\ ~Passing(a) -> "terminal"
      [] a.exit = 0 /\ ~(a.readable /\ Files \ {"fullchain"} \subseteq a.paths)
            -> "terminal"
      [] OTHER -> IF \E f \in Files : source[f] # "regular"
                  THEN "deployment" ELSE "none"

\* Mutant: a failure is recorded without its category.
IssueForgetsCategory(a, source) ==
    /\ row.status = "issuing" /\ ~Stuck
    /\ row' = [row EXCEPT !.status = IF Outcome(a, source) = "none"
                                     THEN "valid" ELSE "failed"]
    /\ deserved' = Deserved(a, source)
    /\ UNCHANGED <<category, reply, sent, repeated, given>>

\* The category is a detail of the certificate.failed event, which is recorded
\* with the status.
Issue(a, source) ==
    /\ row.status = "issuing" /\ ~Stuck
    /\ row' = [row EXCEPT !.status = IF Outcome(a, source) = "none"
                                     THEN "valid" ELSE "failed"]
    /\ category' = Outcome(a, source)
    /\ deserved' = Deserved(a, source)
    /\ UNCHANGED <<reply, sent, repeated, given>>

\* DELETE, other than during the issuance (for that, see CertificateService).
Delete ==
    /\ row.status \in Stored \ {"closed"}
    /\ row.status = "issuing" => Stuck
    /\ row' = [row EXCEPT !.status = "closed"]
    /\ reply' = "none"
    /\ UNCHANGED <<category, sent, repeated, given, deserved>>

-----------------------------------------------------------------------------
Next ==
    \/ \E raws \in Payloads :
          \/ \E persist \in BOOLEAN : Create(raws, persist)
          \/ Resubmit(raws)
    \/ \E a \in Answers, value \in PersistValues : ValueMade(a, value)
    \/ Delete
    \/ \E env \in EnvFiles : StartIssue(env)
    \/ \E a \in Answers : \E source \in Sources(a) : Issue(a, source)

Spec == Init /\ [][Next]_vars

-----------------------------------------------------------------------------
(***************************************************************************)
(* A client that repeats a DNS Persist request gets its row back, and one  *)
(* that asks for other names under the same identity does not: the order   *)
(* and repetition of the alternative names, case and blanks make no        *)
(* difference, the choice of the primary name does (_validate_domains,     *)
(* _resume_or_reject).                                                     *)
(***************************************************************************)
RepetitionResumes ==
    /\ reply = "resumed" => repeated
    /\ reply = "conflict" => ~row.persist \/ row.status = "closed" \/ ~repeated

(***************************************************************************)
(* The DNS record a client is told to publish authorizes the names of the  *)
(* request and only where needed more than one name: they all lie at or    *)
(* under the scope, and the wildcard policy is asked for exactly if some   *)
(* name is not the scope itself (dns_persist_scope).                       *)
(***************************************************************************)
RecordCoversNames ==
    row.status \in Stored /\ row.persist =>
        /\ \A i \in DOMAIN row.domains :
               \E n \in 0 .. Len(row.domains[i]) :
                   SubSeq(row.domains[i], 1, n) = row.scope
        /\ row.wildcard <=> \E i \in DOMAIN row.domains :
                                row.domains[i] # row.scope

(***************************************************************************)
(* The first issuance ends as it should: VALID only with a certificate,    *)
(* key and chain that acme.sh reported and the deployer accepted, and a    *)
(* failure in the category that tells an operator whether to try again.    *)
(***************************************************************************)
OutcomeIsDeserved ==
    row.status \in {"valid", "failed"} => category = deserved

(***************************************************************************)
(* acme.sh runs with the service's environment and, over it, what the DNS  *)
(* provider's file last assigns to each well-formed name: a line is in     *)
(* effect if and only if its name is not one that decides how a command is *)
(* found and run, in whatever case, it is not the configured log file, and *)
(* no later line sets the same variable (load_env_vars, _run).             *)
(***************************************************************************)
Sets(line) == line.named /\ line.key.word \notin BlockedWords

ProviderEnvironment ==
    LET env == CommandEnv(Environ, given, Logged)
        inEffect(i) == given[i].key \in DOMAIN env /\ env[given[i].key] = i
    IN  /\ \A i \in DOMAIN given :
               inEffect(i) <=>
                   /\ Sets(given[i]) /\ ~(Logged /\ given[i].key = LogFile)
                   /\ \A j \in i + 1 .. Len(given) :
                          given[j].key = given[i].key => ~Sets(given[j])
        /\ \A k \in Environ : k.word \in BlockedWords => env[k] = Inherited

=============================================================================
