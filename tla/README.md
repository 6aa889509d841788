# A TLA+ specification of acme.api

acme.api is a self-hosted REST service that keeps TLS certificates: it stores
requests in SQLite, runs `acme.sh` to issue and renew them, deploys the
artifacts to a directory that other programs read, and notifies webhooks. This
directory models the parts of it that keep state, checks them with TLC on small
instances, and proves the most important statements with TLAPS for all values
of the constants.

Paths of Python files below are relative to `src/acme_api/`, those of documents to `src/`.

## 1. The system

One asyncio process serves HTTP requests, runs APScheduler's jobs and a startup
task on one event loop, and shares one SQLite database with occasional
invocations of the command line. A coroutine is interrupted only where it
awaits; every `SELECT`, commit, webhook and `acme.sh` run is such a place.
Nothing but the database, the deployment directory and the state of `acme.sh`
survives a stop.

| Component | State | Operations | Talks to |
|---|---|---|---|
| certificate rows (`models/certificate.py`, `db.py`) | status, revision, release key, identity (unique) | guarded and blind UPDATEs | all services |
| lifecycle service (`services/certificates.py`, `services/certificate_lifecycle_operations.py`, `services/certificate_utilities.py`) | none of its own | create, authorize, release, issue (three entry points), mark failed, resume, delete, select a generation | rows, backend, deployer, scheduler, webhooks |
| routes (`routers/certificates.py`) | none | the HTTP operations and the background tasks they queue | service, scheduler, revocations |
| renewal scheduler (`scheduler.py`, `models/renewal_attempt.py`) | jobs in memory, failed attempts in the database | renew, record a failure, schedule, remove, rebuild, shut down | rows, backend, deployer, webhooks, APScheduler |
| lifespan (`main.py`) | the recovery task | start and stop | scheduler, service |
| revocations (`services/certificate_revocations.py`, `models/certificate_revocation.py`) | a row per Idempotency-Key with a lease | submit, claim, complete | backend |
| deployer (`deployer.py`, `services/deployment_generations.py`) | a directory: names, generations, `current`, pins | deploy (two layouts), migrate, link, select, pin, clean up | consumers in other processes |
| API clients (`admin_clients.py`, `routers/admin_clients.py`, `auth/`, `models/api_key.py`) | credentials | initialize, create, rotate, revoke, authenticate | every route |
| webhook dispatcher (`webhooks.py`, `models/webhook.py`) | subscriptions (edited by hand) | match, validate, post with retries, log failures | endpoints, events table |
| `acme.sh` backend (`backend/`) | that of `acme.sh` | issue, renew, revoke, make a TXT value; reading of exit code and output; the provider's environment file | a subprocess |
| request schemas (`schemas/certificate.py`) | none | validation and normalization of domains | routes |
| events, configuration, migrations, logging, middleware, readiness | append-only rows or none | | |

What is hard, and what makes each part correct:

- **Rows and lifecycle.** Reads are stale by the time of the write. DNS Persist
  requests are written by guarded updates (`UPDATE ... WHERE status = ...
  RETURNING`); dns-01 requests, deletions and renewals by blind ones (an
  attribute assigned on an object loaded earlier). Correct: a held request is
  not issued before it is released; one release wins and stays; a request is
  issued by one coroutine; a closed request stays closed; a release that was
  accepted is acted on across stops.
- **Scheduler.** Jobs are one-shot and in memory; each renewal must schedule
  the next, after awaits that may fail. Run times follow a recorded expiry that
  is parsed from output or taken over from an old generation, and retries back
  off. Correct: a VALID certificate has a job or a coroutine that will see to
  one; the job follows the row; it is renewed before it expires; a transient
  failure is retried.
- **Revocations.** A lease stands for a coroutine that may have died, and the
  completion does not test it. Correct: one `acme.sh` per key, and a result that is
  true and final.
- **Deployer.** Every step is visible to consumers and may be the last before a
  crash, in either layout. Correct: artifacts of two certificates are not mixed,
  paths keep resolving, and the cleanup spares what is in use.
- **Generations.** The link is switched before the row is committed, and
  directories are shared by primary name. Correct: a row names what is in service.
- **Backend and first issuance.** Outcomes are read from phrases in text, in an
  order that matters; names decide the DNS record, the identity and the
  directory. Correct: a failure gets the category it deserves, a repetition
  finds its row, the DNS record covers the names.
- **API clients.** Sessions that read before another's commit. Correct: a dead
  credential or a revoked client stays dead, and initialization needs an empty
  table.
- **Webhooks.** Retries, partial failure, a commit at the end. Correct: everyone
  matched is accounted for, after the configured attempts, and a dispatch ends.

`PROJECT.json` lists the hazards at their lines, each with the properties that
would notice it going wrong.

## 2. The modules

| Module | Models | Extends |
|---|---|---|
| `CertificateStore` | shared state: rows, coroutines, jobs, the process | |
| `CertificateService` | the lifecycle service and its routes, start, stop and recovery | `CertificateStore` |
| `RenewalScheduler` | renewals, their failures, jobs | `CertificateStore` |
| `AcmeApi` | the running program: service and scheduler composed; properties of both; the inductive invariants | both |
| `ServiceProperties` | properties of the service by itself, their inductive invariants, its fairness, the refinement mapping | `CertificateService` |
| `HeldRequest` | abstract: what a held request promises a client | |
| `AcmeSh` | what the backend makes of an `acme.sh` that exited, as operators | |
| `Requests` | names: validation, normal form, DNS Persist scope, directory, as operators | |
| `FirstIssuance` | one identity from its payload to the outcome of its first issuance | `AcmeSh`, `Requests` |
| `RenewalClock` | one certificate in time: expiry, window, back-off, jobs | `AcmeSh` |
| `Revocations` | revocation by key, with leases | `AcmeSh` |
| `Deployer` | the steps of one deployment directory | |
| `Generations` | several directories beside the rows that name their generations | `Requests` |
| `AdminClients` | API clients and authentication | |
| `Webhooks` | one dispatch; its inductive invariant | |
| `AcmeApiProofs` | the proofs about the running program and about the service | `AcmeApi`, `ServiceProperties` |
| `FirstIssuanceProofs`, `RenewalClockProofs`, `GenerationsProofs`, `RevocationsProofs`, `DeployerProofs`, `AdminClientsProofs`, `WebhooksProofs` | the proofs | the module of that name |
| `MC...` | symmetry sets for TLC; values of the constants are in the `.cfg` files | |

### Certificate rows, service and scheduler

`row[c]` is the row of one request identity (name, account and method, the
unique constraint), with status `"absent"` before its INSERT. `task[s]` is a
coroutine: its point of suspension `pc`, its certificate, and what it carries
across the await (`seen`, the loaded object; `rev` and `key`, a release's
arguments; `count`, the failures read; `job`, the identity of the job it is an
instance of). A slot of `Workers` serves a request or a job, and `Recovery` is the
startup task. Two points are told apart exactly where another coroutine's write
could matter in between.

| Code | Actions |
|---|---|
| `create_certificate`, POST `/certificates` | `CreateFind`, `CreateInsert`, `CreateCollides` |
| `authorize_dns_persist_certificate` | `AuthorizeRead`, `AuthorizeReady`, `AuthorizeIssue` |
| `release_held_dns_persist_certificate` | `ReleaseReplay`, `ReleaseRead`, `ReleaseAct`, `ReleaseRefused` |
| `issue_certificate` (dns-01) | `IssueRead`, `IssueClaim` |
| `issue_released_dns_persist_certificate` | `ReleasedClaim` |
| `issue_dns_persist_certificate` | `PersistRead` |
| `_issue_and_deploy`, `_mark_failed` | `IssueSucceeds`, `IssueFails`, `IssueSchedule` |
| `resume_released_dns_persist_certificates` | `ResumeSnapshot`, `ResumeNext` |
| `revoke_certificate` (DELETE), `remove_certificate` | `DeleteRead`, `DeleteWrite`, `DeleteRemove` |
| `select_deployment_generation` (row and job) | `SelectRead`, `SelectSchedule` |
| POST `/renew`, `renew_certificate` | `ManualRenew`, `RenewRead`, `RenewClaim`, `RenewSucceeds`, `RenewSchedule` |
| `_record_failure` | `RenewFailsTransiently`, `RenewRetries`, `RenewGivesUp`, `RenewNotified` |
| APScheduler (external) | `JobFires`, `JobSkipped`, `JobMissed` |
| lifespan, `rebuild_jobs`, `shutdown` | `Start`, `Stop` |
| an exception no handler names | `TaskRaises` |

`BlindStatus` is what SQLAlchemy does with an assigned attribute: it writes
whatever the row holds by then, unless the value equals the loaded one.

Two history variables appear in properties only: `held` (the requests created
as held) and `disturbed` (deleted, or with a coroutine or job cut short, since the
last start). Clocks are left out: a job may fire at any time. `failures` stops
at `MaxRetries`, because it is only compared with it. `renewal.enabled = false`
and the events are abstracted. What these modules leave of a row is in three
others: names and the outcome of an issuance in `FirstIssuance`, expiry and run times
in `RenewalClock`, the generation columns in `Generations`.

### The backend and the first issuance

An `Answer` of `acme.sh` is its exit code, the groups of phrases found in its two
streams, the files and kinds of date its output names, and whether a date can
be read. `classify_exit`, `Issuance`, `Revocation`, `PersistValue` and
`ExpiryFromOutput` say what the backend makes of it, in the code's order: dns and
rate phrases, then auth and config phrases, then exit code 75, and "already
revoked" only for a terminal error whose text carries it. `load_env_vars` reads the
provider's file line by line, leaving out malformed names and those in
`_BLOCKED_ENV_KEYS` in whatever case; `CommandEnv` lays the result over the service's
environment and the configured log file over both, as `_run` does.

A DNS name is the sequence of its labels from the top, so that "at or under"
is a prefix; a star is the label 0. `Normalized` is `_validate_domains`, `Scope`,
`InScope` and `WildcardPolicy` are `dns_persist_scope`, `Directory` is
`deployment_directory_name`.

| Code | Actions of `FirstIssuance` |
|---|---|
| POST `/certificates`, no row | `Create`, and for DNS Persist `ValueMade` |
| POST `/certificates`, `_resume_or_reject` | `Resubmit` |
| `_issue_and_deploy`, `_mark_failed`, `_validate_source_files` | `StartIssue`, `Issue` |
| DELETE | `Delete` |

`category` is the detail of the `certificate.failed` event, not a column. The
history variables `sent`, `repeated`, `given` and `deserved` keep what the client
and `acme.sh` said, for comparison. A DNS provider file with an open quote raises
`ValueError`, which nobody handles: the row is then `Stuck`.

### The renewal clock

`cert` holds two dates: the expiry the row records and the true one. `renewAt` and
`retryAt` are the run times of the jobs `renew:<id>` and `renew-retry:<id>`. One tick
is the shortest back-off. `previous` is the retained generation that
`SelectPrevious` brings back with its expiry.

A renewal commits the new expiry (`scheduler.py:202`), awaits its webhooks and then
schedules by the object it holds (`:205`); sessions have `expire_on_commit=False`
(`db.py:69`), so that object is not read again. A selection commits, refreshes its object and
schedules by that (`services/certificates.py:419-422`). `followers` are the coroutines in
between: `Renewed` and `SelectPrevious` add one, `Refresh`, `FollowerSchedules` and
`FollowerRaises` move it on, and everything else may happen meanwhile.

Time does not pass a job that is due, a command that has run for `CommandTime`,
nor a follower `DispatchTime` after its commit. Late jobs, and attempts that read the
row before another's claim, are in `RenewalScheduler`. The webhooks of a failure are taken
to be sent before the retry comes due; otherwise APScheduler drops the retry, which is
`JobSkipped` there.

History: `changed` (when a commit or a start last set what the job should follow),
`crossed` (what has come between a commit and its scheduling: a renewal, a
selection, or an exception, `"lost"`) and `harsh` (some answer that retrying cannot
mend).

### Generations

`row[c]` holds status, generation and selection key, `current` the links and
`retained` the generations of each directory. A coroutine reads (`LoadRow`),
switches (`Select`, `DeployIssued`, `DeployRenewed`) and commits (`CommitSelection`,
`CommitIssue`, `CommitRenewal`) or does not (`CommitLost`, `Crash`). `Written` is
SQLAlchemy again: a column assigned the value it was loaded with is not written.
Two history variables say when link and row may differ: `torn` holds the
directories whose last switch has no commit to match, and `alone` tells whether
another coroutine was between its switch and its commit in the same directory.

### Revocations

`request[k]` is the `certificate_revocations` row of key `k` for one certificate.
`age` counts ticks since `attempt_started_at` and stops at `Lease + 1`. `atCA` is
the truth at the authority. `WithinLease` says whether `acme.sh` always returns before
its lease is over; the code does not bound it.

### Deployer

Names are `1 .. N` in the order they are replaced; contents are the number of
the deployment they come from (0 for nothing). `file`, `link` and `pending` are
the names in the directory, `gens` the generations' contents, `order` their mtime order,
and `cut` is history: a crash fell while the names were replaced or linked.
A step is one visible change, and `Restart` may come after any. `follow` is whether
`os.link` on a symbolic link links its target, which depends on the platform, so
Init chooses it. Staging directories are invisible until renamed; file modes, fsync
and ownership are left out.

### API clients

A session reads and later commits, and may die in between. Raw keys are numbered
in the order they are generated (they are random), and hashing is injective.
No operation sets an expiry, so keys do not expire.

### Webhooks

One dispatch: `MatchingConfigs`, then for each row `Deliver` or `Refuse`,
`PostAccepted`, `PostRetried` or `PostExhausted`, and at the end `Commit`. `Raise`
is any other exception or a stop.

## 3. What TLC checks

### Runs that pass

| Run | Instance | Distinct states | Properties beside the type invariant (that of `service` is checked in `lifecycle`) |
|---|---|---|---|
| `lifecycle` | one DNS Persist request, 2 workers and the recovery task, 2 keys, revisions 1 and 2, 1 retry | 307 000 (symmetry) | `HeldNeedsRelease`, `ReleasedNotOrphaned`, `RenewalCovered`, `ReleaseOnce` |
| `service` | a DNS Persist and a dns-01 request, 2 workers and the recovery task, 1 key, no renewals, fairness | 638 000 | `SingleIssuer`, `SingleProviderIssuer`, `ClosedStaysClosed`, `ImplementsHeldRequest`, `ReleaseSettles` |
| `first_issuance` | 5 names, every list of 1 or 2 and the plain lists of 3, 280 answers, 5 environment files | 29 000 | `RepetitionResumes`, `RecordCoversNames`, `OutcomeIsDeserved`, `ProviderEnvironment` |
| `renewal_clock` | window 3, lifetime 6, 1 retry, commands of 1 tick, dispatches within one, 7 ticks, 2 followers, 10 answers | 5 368 000 | `RenewedInTime`, `RetriedBeforeFailed`, `JobFollowsRow` |
| `generations` | three requests in two directories, 2 workers, 2 keys, 2 generations | 884 000 (symmetry) | `RowNamesCurrent` |
| `revocations` | 2 keys, 2 reasons, 2 workers, lease of 1 tick, fairness | 11 000 | `SingleRevoker`, `SuccessIsReal`, `DurableResult`, `RetrySettles` |
| `deployer` | 3 names, 3 deployments, keep 1 generation and an age limit, both kinds of platform | 194 000 | `GenerationsNeverMix`, `ProtectedKept`, `NamesKeepResolving`, `CurrentIsWhole`, `OnlyCutLinkingBlocks` |
| `admin_clients` | 3 names, 2 sessions, 4 credentials | 54 000 (symmetry) | `DeadKeysStayDead`, `RevokedIsFinal`, `InitializesEmptyTable` |
| `webhooks` | 3 subscriptions, 2 retries, fairness | 18 000 | `Accounted`, `GivesUpOnTime`, `DispatchEnds` |

Why these bounds. All races over a certificate are between coroutines of one
certificate, so one is enough for `lifecycle`; two workers and the recovery task
give three at once. Revisions start at 1 and rise by at most two (an authorization
and a release), so releases that name revision 1 or 2 cover the accepted, the stale and
the premature ones. `service` has one request of each method. The names of
`first_issuance` are an apex, a subdomain, a wildcard, an unrelated name and a
malformed one, so that every comparison of two names the code makes comes out both
ways; its answers combine every group of phrases in either stream with both exit
codes. Its environment files set blocked names in two cases, one name twice,
a malformed name, the log file, and an open quote. In `renewal_clock` one retry needs a
budget of 2 ticks, one less than the window; in 7 ticks a first certificate comes due
and expires, a renewal of it is due again, and a generation can be selected
before and after its window has opened; two followers suffice for one to overtake the other, in
either order. A dispatch ends within its tick there, with any other steps in between; the
proofs are for any `DispatchTime`. Lifetime and ticks are the least with which the
selection that overtakes (below) makes a certificate late: without the exception `Kept`
TLC reports it in 13 states. `generations` has a request beside
its twin (same primary name) and its wildcard; two generations suffice for a
selection to choose between them, and two workers for switches to overlap. Three names make a half-done replacement or migration
that is neither at its start nor its end; three deployments with one kept
generation make the cleanup remove, and six generations are possible with the
snapshots of migrations. A lease of one tick makes it expire while another worker waits.

`admin_clients` switches off the deadlock check: after the last admin is revoked
and the credentials are used up nothing can happen, which is what the
README of the repository says of lost admin credentials.

Symmetry is used over workers, keys, sessions and client names, in runs of
invariants and action properties only, never in those of a liveness property.

Assumptions in the instances, and what they mean:

- `PromptRecovery` is TRUE in `service`: the recovery task's SELECT precedes the
  first request. The lifespan creates the task before it yields to traffic
  but does not wait for the SELECT. Without it `SingleIssuer` would not hold: a
  request could be claimed, and then read as ISSUING by the SELECT. `lifecycle`
  does not assume it.
- `WithinLease` is TRUE in `revocations` and FALSE in `revocation_overrun`.
- `CommandTime` and `DispatchTime` of `RenewalClock`: a command and a dispatch take at
  most that long; no timeout in the code says how long (see Fairness). `RenewedInTime` and
  `JobFollowsRow` except what `crossed` records, and the first bounds the delay by
  `Budget`, the back-offs and commands of all retries. That `Budget` is less than
  the window is not assumed: nothing in `config.py` enforces it (`max_retries` has no upper
  bound), although with the defaults minutes stand against days.
- `acme.sh` tells the truth (`Truthful` in `Revocations`): it exits with 0 or says
  "already revoked" only if the authority has revoked the certificate.
- `NamesKeepResolving` and `CurrentIsWhole` hold where `follow` is true.

### Fairness

- `FairServiceSpec`: weak fairness of every coroutine's continuation and of the
  recovery task. The event loop resumes a coroutine whose await is over. `acme.sh`
  is taken to end; the code sets no timeout, so this is an assumption about
  `acme.sh` (which polls a bounded number of times), not a consequence of the code. Nothing
  is assumed of requests, starts, stops and exceptions: `ReleaseSettles` speaks of
  behaviours in which the process eventually stays up and the request undisturbed.
- `Revocations!FairSpec`: time passes, coroutines are resumed, and, for
  `RetrySettles`, clients keep retrying: strong fairness of `Submit`, because the
  slots it needs come and go.
- `Webhooks!FairSpec`: weak fairness of the loop. The client has
  `timeout_seconds`, which bounds each read and not the whole answer, and sleeps and
  retries are bounded; that an endpoint which keeps sending comes to an end, and that
  name resolution returns, are assumptions.

### Statements of the repository that the code does not keep

| Run | Statement | What TLC shows |
|---|---|---|
| `deleted_renewal` | `docs/plan.md:142`, soft delete marks as Revoked and removes from the schedule | A renewal claims the row, a DELETE commits REVOKED, and the renewal writes VALID (`scheduler.py:184`, `:202`): the deleted certificate is VALID again. (It goes on to schedule the next renewal, `:205`.) |
| `restart_renewing` | `docs/plan.md:205`, jobs are reconstructed on restart | `rebuild_jobs` selects VALID rows only; one that is RENEWING at the stop never gets a job, and `renew_certificate` refuses it (`scheduler.py:97`). |
| `revocation_overrun` | `README.md:217-218`, a key returns its durable original result | A command that outlives its lease writes over the result of the one that took over (`services/certificate_revocations.py:101`). |

Seen while modelling, without a run of their own:

- A generation may be selected while a renewal dispatches its webhooks. The
  selection records the old expiry and places its job; the renewal then replaces
  that job by one for its own, later expiry (`scheduler.py:202-205`, `db.py:69`). After
  an early manual renewal the selected certificate can therefore expire while its row
  is VALID, although `docs/outline.md:220` says "The service automatically renews
  certificates before expiry". `RenewedInTime` excepts this case and a scheduling lost to an
  exception, and no other; `JobFollowsRow` speaks of what was not overtaken at all.
- `issue_certificate` reads PENDING and writes ISSUING blindly
  (`services/certificates.py:165`): a deletion in between is undone, as in
  `deleted_renewal`.
- The renewal job, the retry job and a manual renewal of one certificate have
  different identities; each may read VALID before another's claim
  (`scheduler.py:136`), run `acme.sh` at the same time, and write its outcome over
  the other's.
- An exception other than `WebhookDeliveryError` at a later subscription
  discards the `delivery_failed` events noted so far (`webhooks.py:187`), so
  `Accounted` is stated of dispatches that return.
- `shutdown(wait=True)` of an `AsyncIOScheduler` cancels the coroutines of running
  jobs (`scheduler.py:92`), so `Stop` does not wait for them.
- `_attempt_count` counts every failure ever recorded (`scheduler.py:355`), so a
  certificate that used its retries up gets none in a later period;
  `RetriedBeforeFailed` is stated accordingly. Likewise `certificate.expiring` is
  emitted once per row for ever (`scheduler.py:219`).
- Between two renames of the single-set layout, and for good after a crash
  there, a new artifact stands beside old ones (`deployer.py:221`). That layout
  is the older one; `GenerationsNeverMix` shows that no generation inherits it.
- A crash between `symlink_to` and `os.replace` leaves `.name.pending`, and every
  later migration fails there (`deployer.py:357`). `OnlyCutLinkingBlocks`
  shows that nothing else blocks a deployment.
- `select_generation` switches the link before the commit, and the commit leaves out a
  column that looks unchanged: a failing commit or two overlapping selections leave
  row and link apart until the next undisturbed switch (`services/certificates.py:409`).
- Requests with one primary name share a directory and replace each other's
  artifacts (`deployer.py:150`), and the artifacts of an issuance whose request was closed
  meanwhile stay current (`services/certificates.py:338`).
- `acme.sh`'s next renewal date is taken for the expiry when the output holds one
  (`backend/acmesh_output.py:45`): early, hence harmless to `RenewedInTime`.
- A `ValueError` from the provider's environment file leaves the row ISSUING
  (`backend/acmesh_backend.py:373`).
- A dns-01 row that is PENDING or ISSUING at a stop is not taken up again
  (`services/certificates.py:163`); no document says that it should be.

## 4. What is proved

For any sets of requests, names, payloads, coroutines, keys, revisions, clients, sessions,
subscriptions, answers and environment files, any numbers of retries, artifacts,
generations and credentials, and any durations. Every property of a passing run
that is not a liveness property is a theorem:

| Module | Theorem | States |
|---|---|---|
| `AcmeApiProofs` | `TypeCorrect` | `Spec => []TypeOK` |
| | `HeldRequestsAreHeld` | `Spec => []HeldNeedsRelease` |
| | `ReleasesAreFinal` | `Spec => ReleaseOnce` |
| | `RenewalsAreCovered` | `Spec => []RenewalCovered` |
| | `ReleasesArePursued` | `Spec => []ReleasedNotOrphaned` |
| | `ClosingIsFinal` | `ServiceSpec => ClosedStaysClosed` |
| | `ServiceImplementsHold` | `ServiceSpec => ImplementsHeldRequest` (a refinement) |
| | `ProviderIssuedOnce` | `ServiceSpec => []SingleProviderIssuer` |
| | `PersistIssuedOnce` | `ServiceSpec => []SingleIssuer`, if `PromptRecovery` |
| `FirstIssuanceProofs` | `IssuanceTypes` | `Spec => []TypeOK` |
| | `RepetitionsResume` | `Spec => []RepetitionResumes` |
| | `RecordsCoverNames` | `Spec => []RecordCoversNames` |
| | `OutcomesAreDeserved` | `Spec => []OutcomeIsDeserved` |
| | `EnvironmentIsTheProviders` | `Spec => []ProviderEnvironment` |
| `RenewalClockProofs` | `ClockTypes` | `Spec => []TypeOK` |
| | `JobsFollowRows` | `Spec => []JobFollowsRow` |
| | `TransientErrorsAreRetried` | `Spec => []RetriedBeforeFailed` |
| | `RenewalsAreInTime` | `Spec => []RenewedInTime` |
| | `WindowSuffices` | `Spec => []NotExpired`, if `Budget < Window` |
| `GenerationsProofs` | `LinksLead`, `RowsNameCurrent` | `Spec => []TypeOK`, `Spec => []RowNamesCurrent` |
| `RevocationsProofs` | `RevocationTypes`, `SuccessesAreReal` | `Spec => []TypeOK`, `Spec => []SuccessIsReal` |
| | `LeasesExclude`, `ResultsAreDurable` | `Spec => [](WithinLease => SingleRevoker)`, and `Spec => DurableResult` if `WithinLease` |
| `DeployerProofs` | `DeployerTypes` | `Spec => []TypeOK` |
| | `ProtectedAreKept` | `Spec => ProtectedKept` |
| | `BlockedOnlyByCuts` | `Spec => OnlyCutLinkingBlocks` |
| | `GenerationsAreNotMixed` | `Spec => GenerationsNeverMix` |
| | `NamesResolve`, `CurrentBecomesWhole` | `Spec => NamesKeepResolving`, `Spec => CurrentIsWhole` |
| `AdminClientsProofs` | `ClientTypes` | `Spec => []TypeOK` |
| | `NoCredentialRevives`, `RevocationIsFinal`, `InitializationNeedsEmptyTable` | `Spec => DeadKeysStayDead`, `Spec => RevokedIsFinal`, `Spec => InitializesEmptyTable` |
| `WebhooksProofs` | `DispatchTypes`, `DispatchAccounts`, `RetriesAreExhausted` | `Spec => []TypeOK`, `Spec => []Accounted`, `Spec => []GivesUpOnTime` |

The assumptions are those the modules name. A null value is none of the values it
stands beside (`NoKey \notin Keys`, `NoCert \notin Certs`, `NoHook \notin Hooks`,
`Recovery \notin Workers`), `Persist \subseteq Certs`, numbers are naturals, flags are
Booleans, answers are members of `Answer`, lines of `EnvLine`, and names are nonempty sequences of labels. Of more
weight are:

- `PromptRecovery`, a hypothesis of `PersistIssuedOnce` only, and `WithinLease`, one
  of `LeasesExclude` and `ResultsAreDurable` only: see section 3;
- `Budget < Window`, a hypothesis of `WindowSuffices` only, and `EarlyAssumption`
  (acme.sh's date of the next renewal is not before the issuance);
- `PowerAssumption`, 2^(n+1) = 2 * 2^n for the retries there are: a law of
  arithmetic, which the provers do not know and TLC evaluates on the instance.

The provers cannot instantiate induction over data (the library's theorems
take an operator as a parameter). Where an argument needs it, it is made by the least
counterexample, with `WFMin` applied to a set of naturals: that powers of two are positive and
grow, that a finite set of names can be sorted, that the recursive function over the lines of a
file has a value for every prefix, and that this value has the last assignments.

TLC has checked the inductive invariants below on the instances of section 3.

**The hold.** `HeldNeedsRelease` is not inductive: it says nothing of the
coroutine that is about to claim the row. `HeldInv` adds

- `RowInv`: a row that does not exist has no key and is not in `held`; a row with
  a key has left the waiting statuses; one that is held and has no key is in
  `Unreleased`;
- `ArgsInv`: what a creation will insert has no key and an initial status, and the key of
  a release is a real one;
- `QuietInv`: as long as a request is absent or held without a key, every
  coroutine of it is at a `HarmlessPoint` and the recovery snapshot has no entry
  of it.

`QuietInv` is what carries the argument: no coroutine past a claim exists for such a
request, and none can come to be, because `ReleasedClaim`, `PersistRead`,
`IssueRead` and `RenewRead` look for statuses outside `Unreleased` and
`ResumeSnapshot` looks for a key. `"renew.start"` is harmless although a held row can
reach it: selecting a generation adds a job whatever the status is, and the
renewal ends at its first read. `ReleaseOnce` follows because only `ReleaseAct`
and `CreateInsert` write a key, the first where there is none and the second where
there is no row, and only `AuthorizeReady` and `ReleaseAct` write a revision, from statuses that
`RowInv` excludes once there is a key.

**The cover and the pursuit.** `RenewalCovered` and `ReleasedNotOrphaned` say that
something still in flight will see to the row. They are inductive once two facts are
added: `DownInv`, a stopped process has no coroutine, job or snapshot, so that the
next start, which forgets what was disturbed, forgets nothing it needs; and
`RemoveInv`, a deletion that is about to remove jobs is `disturbed`. The
proofs then follow the witness: whichever action moves the coroutine that covers
(`CoverPoint`) or pursues (`PursuitPoint`) a request leaves a job, a later point of the same
kind, an entry of the snapshot, or a row that needs neither; `Stop` leaves a VALID
or an unsettled row to the next `Start`.

**The service.** `ClosedStaysClosed`, the refinement and the single issuers are
stated of the service by itself. They need `MethodInv`: a coroutine of one
challenge method works for a request of that method, so that the blind writes of
dns-01 meet no DNS Persist row. `ServiceImplementsHold` goes through the
actions: a creation, an authorization, a release, a closing and the others that change
what a client sees map to the abstract action of that name, all else leaves the abstract
variables alone; `HeldInv` supplies that an issued request was released.
`ProviderIssuedOnce` rests on the unique row: only the coroutine whose
INSERT was accepted goes on to issue. `PersistIssuedOnce` needs `OwnInv`, a row that is
given has one owner, a coroutine or an entry of the snapshot, and is given only while it is
ISSUING; and `DueInv`, nothing owns a row when the recovery reads its snapshot, which
is where `PromptRecovery` is needed.

**The dispatch.** `DispatchInv` adds to the types: `SplitInv`, the matched rows
are divided among those to settle, acknowledged and failed; `LogInv`, the log
is empty until the commit and equals the failures after it; `PostsInv`, the POSTs
counted agree with `attempt`, are 0 for rows to come, and 0 or `MaxRetries + 1` for failed ones.

**The clock.** `JobFollowsRow` needs `AloneInv`: as long as nobody has been
overtaken there is one follower at most, it committed when the row last changed, and once
refreshed it holds the row's expiry; so what it schedules follows the row.
`RetriedBeforeFailed` needs the types and that an answer that is not harsh is
classified as transient. `RenewedInTime` needs the whole chain of retries. `RecordedInv`: a
recorded expiry is not later than the true one, and neither is later than what a certificate issued
now would last. `PendingInv`: time has not passed a job, nor the limit of a command or
of a dispatch. `HeldInv`: unless a selection overtook somebody, what a follower will
schedule by is not later than the true expiry in service, and the job is not later than `Due`
or a selection is about to replace it; this is where a renewal that overtakes another turns
out to be harmless, because a certificate issued later expires later. `ChainInv`: when
the job is off the schedule and the row is served, an attempt is in progress, a
retry is pending or a follower is about to schedule, and after n failures the first two are not later than
`Latest(n)`, that is n commands and 2^n - 1 ticks of back-off after the job came due. One more failure
moves the bound from `Latest(n)` to `Latest(n + 1)`, by the law of powers, and
`Latest(MaxRetries)` is `Due + Budget`. `WindowSuffices` draws the conclusion an operator wants: with a
window longer than `Budget`, a certificate that was put into service in time does not expire.

**The first issuance.** `RowInv` says that a row's names are the normal form of
the payload it was created from, and its record the one for those names. The weight is in the lemmas on `Requests`:
`Before` is a strict total order of names and every finite set of names has a sorted
sequence, so two payloads have one normal form exactly if they have one
primary name and one set of names. That is `RepetitionResumes`: the code compares lists and
the client means sets. `RecordCoversNames` is the scope test read as prefixes.
`OutcomeIsDeserved` runs through the answers by exit code and phrases, in the order of
`classify_exit`. `ProviderEnvironment` is proved in both directions: every prefix of the
file yields exactly the last lines in it that set something, and no blocked name is set, because
making a name upper case does not change its word. What `_run` lays over and under it then
leaves each line in effect or not as stated.

**The generations.** `RowNamesCurrent` needs to know what a commit will write. `AloneInv`
says of a coroutine that is `alone` that nobody else has switched in its
directory, that its row still names what it loaded, and that the link is where
it put it: so leaving out an unchanged column is the same as writing it. `TornInv`
says that in a directory that is not torn nobody is between switch and commit. Beneath
both lies that `Directory` is injective on primary names, which is where
the mark for a star is needed.

**The revocations.** The type invariant includes `Explained`: a failed request has its
category, and a pending one none. `SuccessIsReal` needs that whoever runs `acme.sh` has
claimed the row (`ClaimInv`). For the lease, `LeaseInv` adds that under
`WithinLease` the row of whoever runs `acme.sh` is PENDING with a lease that is
not over: hence nobody else can claim it, and a completion, which does not look
at the row, overwrites no result. Without `WithinLease` both fail, as
`revocation_overrun` shows of the second.

**The directory.** The properties of `Deployer` are about single steps; what a step
may rely on is the invariant. `CountInv` bounds the generations by the
deployments. `VictimInv`: what the cleanup is removing is neither current nor pinned, although
the test was made before the removal. `NewInv`: the generation being deployed exists
and is complete until the link is switched. `SnapshotInv`: what a migration is about to adopt shows what the
names show. `LinkInv`: while names are being replaced by links, a name that is not a
link yet shows what `current` holds, or nothing. `UncutInv`: unless a crash cut a loop
over the names short, no pending link is left over and the names are alike (`Uniform`),
and this is what `OnlyCutLinkingBlocks` rests on. `GenerationsNeverMix`, `NamesKeepResolving` and
`CurrentIsWhole` follow step by step.

**The clients.** The type invariant includes `Whole`: a row holds both hashes of one
credential, so that the key that is looked up is the key that is verified. `DeadKeysStayDead` and `RevokedIsFinal` need types only: a write stores a
credential newer than all issued before, or makes the client inactive.
`InitializesEmptyTable` needs `EmptyInv`: as long as the initial admin is not in
the table nobody is, and no session but initializations is open, since all others
need an admin. So the unique name decides the race for the whole table.

Only model-checked: the liveness properties `ReleaseSettles`, `RetrySettles` and
`DispatchEnds`, because fairness and ENABLED are outside the prover's reach. The
safety part of the first is `ReleasesArePursued`. The runs that expect a violation
are counterexamples and need no proof.

## 5. What is not modelled

- **Of the backend**: the arguments of the command line, `register_account` and
  `get_certificate_expiry`, which no part of the service calls, and the mock.
  `acme.sh`, `openssl` and the text they write are external; phrases stand for text.
- **Audit events** other than `webhook.delivery_failed`: inserted in the
  transaction of the change they describe. One is read again:
  `certificate.expiring`, by the test that emits it once.
- **Configuration, migrations, logging, middleware, readiness**: read
  once, stateless, or generated. Values of the configuration are CONSTANTS.
- **Of the schemas**: fields other than the domains, and all responses.
- File modes, ownership, fsync, signatures and payloads of webhooks.
- Attempts that overlap in time, late jobs and clocks are never in one module: the
  first two are in `RenewalScheduler`, the last in `RenewalClock`.

## 6. Plan

Done: the core; first issuance, clock and generations; every safety property and
the refinement as theorems. Left, in this order:

1. Safety facts beneath the liveness properties, as theorems where they say
   something by themselves: a measure that every step of a dispatch and of a
   retried revocation decreases.
2. A theorem that ties modules that share an abstraction: what `AcmeApi` assumes of
   an issuance (a row that leaves ISSUING is VALID or FAILED) is what `FirstIssuance`
   shows of it.
