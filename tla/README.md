# DeployGuard AI: a TLA+ development

DeployGuard analyses the risk of code changes, publishes the result as a GitHub
Check Run, records the deployments and incidents that follow, and keeps the
evidence a team agrees on. The backend is a FastAPI server and one or more
worker processes over one SQL database (PostgreSQL, or SQLite in the demo),
driven by GitHub's webhooks, the users' requests and an outbox of background
jobs. Beside it stand a control plane that fronts it, a verification command for
CI and scripts for backups, rehearsals and retention. This directory models the
parts where several processes, GitHub, the SMTP server or operators act on the
same state, and the analyses whose results others rely on.

Contents: [inventory](#inventory), [the modules](#the-modules),
[the runs](#the-runs), [the proofs](#the-proofs), [findings](#findings),
[abstractions and what is not modelled](#abstractions), [plan](#plan).

## Inventory

| Component | State | Operations | Hard behaviour | What makes it correct |
|---|---|---|---|---|
| Job outbox and worker (`job_queue.py`, `worker.py`, `job_services.py`) | `background_jobs` rows, one ORM session per worker iteration and per request | enqueue, sweep of lapsed leases, claim, complete, fail, replay | stale sessions, crashed and stalled workers, overlapping replays | no job is lost, budgets hold, a final status is final |
| Check publication (`provider_services.py`, `github_client.py`) | `github_check_publications`, the connection's `error_code`, GitHub's Check Runs | fetch, insert, mark, find, create or update, record | lost answers, late POSTs and PATCHes, crashes, two publishers | Check Runs and row account for each other, a publication undisturbed by others settles what they left |
| Invitations (`workspace_services.py`, `email_delivery.py`) | `invitations`, `workspace_memberships`, delivery rows, e-mails | create, revoke, accept, deliver | overlapping requests, replayed deliveries, a rotating secret | one e-mail, links that work, revocation |
| Webhooks (`services.py`) | `webhook_deliveries`, changes, scenario, event ledger, outbox | record, analyse, activate, enqueue, finish or fail | redelivery, two processes, failure between commits | processed means done, nothing is stuck without a cause |
| Deployments (`deployment_services.py`) | `deployments`, `deployment_status` of a change | upsert | events out of order and repeated | the row is one event, never an older one |
| GitHub connection (`provider_services.py`) | `provider_connections`, `repositories` | callback, sync, disconnect, installation events | the callback races the signed event | connected only after a signed event |
| Installation (`provider_services.py`) | `github_installation_states`, `installation_id` of a connection | begin, callback | a state read before GitHub is asked, two callbacks | one workspace per installation, a state works once |
| Connector health (`provider_services.py`) | none; reads deliveries and publications | report | five statements at READ COMMITTED, deliveries that end between them, are sent again, or never end | healthy is earned |
| Incidents (`operations_services.py`) | incident with its timeline, notifications | advance, note, mark read | two requests rewrite one JSON list | nothing committed is lost, resolved is final |
| Verdicts, snapshots, consent (`services.py`) | hypotheses, feedback, snapshots, decisions | judge, snapshot, decide, readiness | nothing is locked between read and commit | what is ready is documented and consented |
| Event ledger (`services.py`, `operations_services.py`) | `operational_events` | ingest by members, adapters and collectors | retries, two inserts of one key, a service that moves | who was told accepted finds its event |
| Service catalog (`operations_services.py`) | services with dependencies | create, update | a cycle closed by two requests | acyclic as far as the check saw |
| Risk policy (`operations_services.py`) | one row with a version | get, update | first row inserted twice, two updates | no update overwrites one its author had not seen |
| Change analysis (`services.py`) | analyses by digest | analyse or reuse | the catalog changes meanwhile | a reused analysis is not stale |
| Engines (`engines.py`, `evidence_synthesis.py`) | none | risk score, blast radius, ranking, synthesis | caps and roundings, cycles, ways of equal length, broken citations | monotone, agree with a reference definition |
| DORA metrics (`services.py`) | none | metrics of a window | a window that moves, missing times | rates are rates, demonstrations do not fade |
| Workspaces and context (`tenant.py`, `workspace_services.py`) | context row, memberships | ensure, select, activate, create, join | each request writes single columns | the context is the user's |
| Identity (`auth/dependencies.py`) | users | look up, insert, update | first requests at once, an address that moves | one subject, one account |
| Row level security (`rls.py`) | a setting per connection, `session.info` | begin, set, end | connections are shared through a pool | a policy sees the request's workspace |
| Rate limiter (`request_guard.py`) | per-process buckets | admit or reject | window boundary, pruning | never more than the limit per window |
| Readiness of the control plane (`ReadinessServices.cs`) | two cached fields, a semaphore | ask, probe, cancel | fields read without the semaphore | no answer older than its validity |
| Verification command (`verify/`) | a receipt file | collect, decide, write, exit | a stop anywhere, evidence of another commit | a pass is earned, the receipt answers for the exit code |
| Scripts (`scripts/`) | archive, target database, rows | back up, rehearse, delete | two operators at once, failures, stops | the archive is whole, the target is its own, the audit adds up |
| Observability, HTTP layer, migrations and seed, comments, web console | none that decides | | | |

How they interact: a webhook commits a change and a `github.check.publish` job
in the outbox; the worker claims the job and publishes the Check Run through
the GitHub client. Creating an invitation commits the row and an
`invitation.email.deliver` job; the worker mails it. A deployment webhook
updates the record and the change it was made from. Every handler and request
has a session of its own; sessions keep what they loaded after a commit
(`expire_on_commit=False`) and write by primary key only the columns whose
value differs from what was loaded. That is the reason why most operations here
are two or more actions, and where most hazards come from. `PROJECT.json`
lists the hazards at their lines.

## The modules

**JobQueue** models `background_jobs` (`job`), the identity map of each session
(`session`), and each worker's place in `run_worker` / `run_one_job` (`pc`,
`cands`, `held`). One iteration of a worker is `SweepRead`, `SweepCommit`
(`requeue_expired_jobs`), `ClaimRead`, `ClaimWin` or `ClaimMiss` (the
conditional UPDATE of `claim_next_job`), `Load`, `Reload` (a handler that rolls
its session back), then `Complete`, `Fail` or `FinishRejected`. `ReplayRead` and
`ReplayCommit` are `replay_failed_job`; `Enqueue` is the insert under the unique
idempotency key; `Crash` ends the process at any step and `Restart` is the
supervisor. `Flush` is the ORM's UPDATE: columns that changed, by primary key.
Of time the model keeps the two comparisons the code makes: `due`
(`available_at <= now`) and `lock` (`locked_at` fresh, or older than the lease).
**JobLifecycle** is the abstract specification of one job with no sessions,
leases or clocks. **MCJobQueue** instantiates the queue.

**CheckPublication** models one publication row, the Check Runs at GitHub and
the publishers (worker handlers and the responder endpoint). A publisher takes
`Begin`, `Fetch`, `Insert`, `Mark`, `Find`, `Send`, `RecordSuccess` or
`RecordFailure`, one per commit or call. `SendUnanswered` loses the answer,
`RequestFails` the request, `SendLate` and `LateArrives` execute a POST or a PATCH
after the client's 15 seconds; `Reanalyze` changes the analysis meanwhile. The
history variable `alone` marks a publication during which no other one was under
way and no late request took effect.
**MCCheckPublication** instantiates it.

**Invitation** models the invitations of one address to a workspace: requests
read in one action and commit in another (`CreateRead`, `CreateCommit`,
`RevokeRead`, `RevokeCommit`, `AcceptRead`, `AcceptLook`, `AcceptCommit`), and a
delivery handler is `Start`, `Check`, `Look`, `Insert`, `Mail` or `MailRefused`,
`RecordOutcome`. `Mail` may be answered or not. A token is told by the secret it
was derived with. **MCInvitation** instantiates it.

**Webhook** models one workspace, its connection, one repository, its scenario
and one deployment. A handler (`h[p]`) takes `Receive`, `Record` or
`RecordInstallation`, and for a pull request `Mark`, `Analyze`, `InsertChange`,
`Activate`, `RecordEvent`, `Enqueue`, `Store` or `Finish`, for a deployment
`RecordEvent`, `UpsertRead`, `UpsertWrite`, `Finish`. `Throw` and `Fail` are the
`except` clause of the analysis; `Stop` is a kill, or an exception where there
is no such clause. The user's `CallbackRead`, `CallbackCommit`, `Sync` and
`Disconnect` run in between. **MCWebhook** instantiates it with three sets of
events.

The components that share no rows with these, nor with each other, have small
modules of their own, each with its `Init`, `Next` and `Spec`. Reads and commits
are separate actions wherever the code holds no lock between them.

| Module | Models | Actors and faults |
|---|---|---|
| **Catalog** | `create_service`, `update_service`, the cycle check under `FOR UPDATE` with PostgreSQL's snapshot (`Snapshot`, `Checked`) | two clients, a service committed while a request waits |
| **RiskPolicy** | `get_risk_policy`, `update_risk_policy`: first insert, flushed insert, conditional UPDATE | clients, a stop before the commit |
| **IncidentLifecycle** | `update_incident_lifecycle`, `add_incident_note`, `mark_notification_read` under the row lock | responders, a stop |
| **Feedback** | `submit_feedback`: the list of hypotheses is read and written as a whole | judges, a stop |
| **DatasetConsent** | `create_postmortem_snapshot`, `get_dataset_readiness`, `record_dataset_consent` | reviewers, verdicts in between, a stop |
| **EventLedger** | the writers of `operational_events`, compared material with the time of receipt where an event names none, reserved sources | two posts of one key, a retry, a service that moves |
| **UserContext** | `tenant.py` and what creates or joins a workspace: the ORM writes the columns that differ from the copy | a user's tabs, a stop |
| **Identity** | `_synchronize_oidc_user` with the two unique columns | first requests at once, deactivation |
| **InstallState** | `begin_github_installation`, `complete_github_installation` | callbacks at once, expiry, a stop |
| **TenantSetting** | `set_tenant_context` and the `after_begin` hook over a pool | sessions, every order of begin, set, end |
| **RateLimit** | `_is_rate_limited` with its sweep | keys, a clock |
| **Sorting** | `sorted` and `list.sort` where no two keys are equal (external) | |
| **Rounding** | `round` and `clamp` on exact fractions | |
| **RiskScore** | `calculate_change_risk`; a step changes one thing about the change | |
| **BlastRadius** | `calculate_blast_radius`, one action per turn of its loops | every subset of a pool of eleven edges |
| **HypothesisRanking** | `rank_hypotheses`; a step adds an item of evidence | |
| **ChangeAnalysis** | `analyze_change`: digest, reuse, insert | analysts, edits of the catalog |
| **EvidenceSynthesis** | `build_evidence_synthesis` and its validator | evidence and citations that change |
| **DoraMetrics** | `get_dora_metrics` | time passes, records come in |
| **ConnectorHealth** | `connector_health`: one action per statement (`ReadConnection`, `ReadSuccess`, `ReadFailure`, `CountStuck`, `CountLost`), the answer from what they read | deliveries and publications that change between the statements, redelivery, a stop, time |
| **ReadinessProbe** | `UpstreamReadinessProbe`: fast path, semaphore, renewal | threads, cancellation, the upstream comes and goes |
| **VerifyGate** | one invocation of `deployguard-verify`: each stage, the decision, the receipt, the exit code | every stage fails, a stop anywhere |
| **Backup** | `backup_database.py` | two operators, a dump that fails, a stop |
| **RestoreRehearsal** | `restore_rehearsal.py` | two operators with one target, failures, a stop |
| **Retention** | `retention_report.py --apply` | overlapping runs, late rows, an unwritable log, a stop |

**MCOperations** instantiates the modules from Catalog to RateLimit,
**MCAnalysis** the others. Because the components share nothing, a behaviour
follows one of them: the variable `subject` is chosen by the first state, the
others keep their first state, so the states add up instead of multiplying. No
interleaving is lost by it that a property of one component could tell.

**JobQueueProofs**, **JobQueueRefinement**, **CheckPublicationProofs**,
**InvitationProofs** and **WebhookProofs** hold the theorems about the modules
they are named after, **OperationsProofs** those about TenantSetting, RiskPolicy,
InstallState, UserContext and RateLimit, **RecordsProofs** those about
EventLedger, Identity, IncidentLifecycle, Catalog, Feedback and DatasetConsent,
and **AnalysisProofs** those about what MCAnalysis instantiates.

The modules meet at the outbox. `Webhook` and `CreateCommit` of `Invitation` end
with the job in it, `JobQueue` shows when a handler runs, runs again or runs
twice at once, and `CheckPublication` and `Invitation` assume no more of it than
that: a handler may start at any time, in any worker, again after a crash.

## The runs

| Run | Instance | Shows |
|---|---|---|
| `job_workers` | 1 job, 2 workers, 2 replay requests, budget 2, 2 replays | `StampsFollowStatus`: a running row never loses the `locked_at` the sweep needs, a final status has `completed_at` though columns are written separately; `AttemptOvershootBounded`: stale commits overshoot the budget by fewer attempts than there are sessions; `Settles`: a queued job ends |
| `job_solo_lifecycle` | 2 jobs, 1 worker, 1 replay request | `ImplementsLifecycle`: the composition that `docker-compose.yml` deploys refines `JobLifecycle` |
| `job_success_undone` | 1 job, 2 workers | violates `SucceededIsFinal` |
| `check_retries` | 2 publishers at once, 4 starts, 2 versions, 1 late POST or PATCH | `ChecksAreAccountedFor` (`ChecksBoundedByPublishers`, `PublishedExists`); `LonePublicationSettles`: a publication that meets no other one takes no Check Run back, leaves row, Check Run and `error_code` agreeing, whatever overlaps, crashes and late requests left behind |
| `check_duplicate` | 2 publishers | violates `AtMostOneCheck` |
| `invitation_overlap` | 2 invitations, 2 requests, 1 worker, 3 starts, 2 secrets | `MailsMatchRecords` (`LinksMatchDigest`, `SentWasMailed`), `MailsBoundedByWorkers`, `AcceptedJoins` |
| `invitation_revoked_join` | 1 invitation, 2 requests | violates `RevokedNeverJoins` |
| `webhook_pull_requests` | 2 processes, 4 deliveries received 4 times in all, 3 requests of the user | `ProcessedIsComplete`, `KnownBeforeUsed`, `ProcessingIsOwned`, `ConnectedIsVerified` |
| `webhook_deployments` | 1 process, 7 deliveries received 4 times in all, 2 requests of the user | `RecordFollowsDeliveries` (`RowIsOneDelivery`, `NeverOlder`, `ChangeFollowsRow`) |
| `webhook_replay` | 1 process, 2 statuses of one second | violates `AppliedOnce` |
| `workspace_operations` | `MCOperations`: 2 clients, 3 services, 2 hypotheses, 2 repositories in 2 workspaces, 2 connections, a limit of 2 | `TypeOK` and the properties of the next table from `AcyclicWhereSeen` to `WindowHolds` |
| `analysis` | `MCAnalysis`: 5 services with 11 possible edges, 3 candidates with 13 items of evidence, 2 analysts, 2 deliveries, 2 requests for the readiness, 4 policies with 8 reports, 2 operators | `TypeOK` and the others |

| Property | Says |
|---|---|
| `AcyclicWhereSeen` | however requests interleave, a cycle needs a request that missed one of its services |
| `UpdatesFollowWhatWasShown` | the i-th accepted update of the policy was composed on version i |
| `LifecycleOnlyAdds` | committed entries stay, the status never moves back, resolved is final, every entry notifies every member once |
| `VerdictLostOnlyByOverlap` | a hypothesis shows the last verdict on it unless two requests overlapped |
| `ReadinessIsJustified`: `ReadyIsDocumented`, `RevocationHolds`, `OneSnapshotPerContent` | readiness rests on a snapshot with a verified verdict, a revocation ends an approval that stood, equal texts are one snapshot |
| `AnswersMatchLedger`: `AcceptedIsStored`, `AdaptersAreNotCrowdedOut`, `RepeatIsAccepted` | who was told accepted finds its event; an adapter is not refused for what a member wrote; a repeat gets the first answer if the event names its own time and its service has not moved |
| `ContextIsCoherent`: `ContextIsAMembership`, `ContextFitsUnlessCrossed` | the context's workspace is the user's; repository and scenario fit it unless two requests overlapped |
| `AccountIsTheSubjects` | one subject, one account |
| `InstallationsAreSound`: `InstallationHasOneWorkspace`, `StateIsUsedOnceUnlessShared` | callbacks that race link an installation once and use a state once unless both held it |
| `PolicySeesTheRequest` | row level security sees the workspace of the request on every pooled connection |
| `WindowHolds` | no window holds more than the limit, a refusal only in a full one |
| `ScoresAreSound`: `MonotoneRisk`, `CriticalIsExplained` | a change that gets worse is not scored lower; a critical one comes with something to do |
| `BlastRadiusIsExact`: `ShortestAndSurest`, `ImpactIsDrawn` | the walk agrees with the definition over all ways of at most `max_hops` edges; its edges explain it |
| `RankingFollowsEvidence` | support costs no place, contradiction earns none, the others keep their order |
| `AnswerFitsCatalog` | an analysis, reused or new, is the one of the catalog that was read |
| `OnlySoundOnesAreExplained` | one hypothesis with broken citations does not cost the others their explanation |
| `MetricsAreCoherent`: `SyntheticStandsStill`, `RatesAreRates` | metrics of a demonstration do not change with time; no more failures than deployments, no negative duration |
| `HealthyIsEarned` | for a request that answers "healthy", the connection was up at its first statement and no publication lost at its last; while it ran, a delivery that was failed all along had a success recorded no earlier, one that was processing all along was not too old |
| `ProbesAreSound`: `AnswerIsFresh`, `GateHasItsHolder` | readiness answers are within their validity; a cancelled probe gives the semaphore back |
| `VerdictIsEarned`: `PassIsEarned`, `StaleDecidesNothing`, `ReceiptAnswers` | exit code 0 needs good evidence of every kind required; reports of another commit decide nothing; the receipt is whole and says what the exit code says |
| `BackupsAreSafe`: `ArchiveIsWhole`, `UnforcedReplacesOnlyUnseen` | the destination is never a partial dump; without `--force` only an unseen archive is replaced |
| `RehearsalsAreSafe`: `TargetIsItsOwn`, `SuccessLeavesNothing` | nobody else touches the target of a rehearsal; success means checked and dropped |
| `DeletionsAreAccountedFor`: `AuditAddsUp`, `NoMoreThanCounted` | completed runs account for every deleted row; a run deletes no more than it counted |

Where a property is a conjunction of named parts, as the names after the colon
show, the run checks them all; its mutant in `PROJECT.json` breaks one of them.
The types of the four core modules are proved and not part of a run.

Bounds. Every race here is between two actors over one row, so two workers,
requests or processes and one row exhibit it; a second job, invitation or change
is there where the claim, the pending test or the match chooses between two.
A budget of two has a first, a middle and a last attempt; two replays let one
replay overtake another. Two versions let a publisher that read the first
meet the second, and four starts let a pair that overlapped be followed by one that
is alone and retries. Four received webhooks allow a delivery, its redelivery and two
others. `MaxReplays`, `MaxVersion`, `MaxStarts`, `MaxReceived`, `MaxCalls` and
`MaxTime` bound only how often the environment acts, and so do
`MaxPolicyVersion`, `MaxEntries`, `MaxVerdicts`, `MaxRatings`, `MaxTicks`,
`MaxUses`, `MaxEdits`, `MaxReports`, `MaxRehearsals` and the ends of the clocks
(`EndOfTime`, `LastDay`, `LastTick`, `LastInstant`). `MaxAttempts`,
`ClaimLimit` and `MaxLate` are parameters of the system.

`webhook_deployments` has one process because that is what the Dockerfile starts:
with two, `RowIsOneDelivery` and `NeverOlder` do not hold (each writes only the
columns that differ from its own copy). The proved bounds hold for any number.

In `workspace_operations` three services are what a cycle through a service that
a request missed needs; two connections let a session move from one to the
other; a limit and a window of two have a boundary and a place next to it, and
`MaxBuckets` of one lets the sweep run (4096 in the code). In `analysis` the
pool of edges has cycles, parallel edges, two of which tie in what they are sorted
by, two ways of one length with different confidences, an edge of no confidence
and a service that is listed only when it is changed; `max_hops` of two leaves services out of reach; ready results are
valid for four half seconds and failed ones for one, as in the code; two
deliveries are the one that fails and the one that succeeds, and `StaleAfter` of
0 makes every delivery of an earlier tick of the clock old; the one incident of
the metrics does not make a change fail twice, which the theorem alone covers; the
policies cover the built-in one, one without rules, thresholds and path rules.

Deadlock is checked for the job queue. In the other modules the environment may
stop: no publication, invitation or delivery need ever start.

Fairness. Only `job_workers` assumes any: weak fairness of each worker's next
step and of the clock. The loop of `run_worker` polls for ever, a handler ends
because its calls are cut off by timeouts of 15 seconds, and the supervisor
restarts a worker that stopped. Nothing makes a producer or an operator act. A
crash loop is excluded: eventually no worker crashes any more.

## The proofs

All are safety properties of `Spec` for every value of the constants, under the
`ASSUME` of the module: finite sets of workers, requests, publishers or rows,
natural bounds, a budget of at least one, and inputs as the parsers let them
through (`VerifyAssumption`: what `_validate_policy` accepts and the report
parsers return; `RiskAssumption`: counts that are natural numbers;
`RankingAssumption`: qualities and priors that are percentages; `BlastAssumption`:
finitely many edges between known services, each at a place of its own in the
request, with a confidence that is a fraction of `Scale`; `DoraAssumption`: a last
day no earlier than the last record). Three theorems also assume that there is one
worker or API process, which is how `backend/Dockerfile` and
`docker-compose.yml` start the service; with two, the races listed under Findings
and in `PROJECT.json` break what they state.

*JobQueueProofs.* `TypeCorrect`; `RowsStayStamped`; `OvershootBounded`. The
second needs `SessionDiscipline`: a session
between iterations is empty, a sweep holds only rows it read as running, a replay
only rows it found replayable; so a commit that makes a row final writes the
stamp too, and none that makes it running clears the lock (`CommitEnds`). The
third counts. `Debt(j)` adds to the attempts of a job every session whose copy
still shows budget and one for a queued row; once the budget is used up each
further attempt is paid for by such a session, so `DebtCovered` is inductive.

*JobQueueRefinement.* `SoloImplementsLifecycle`: with at most one worker and
one replay request the queue implements `JobLifecycle`. `SoloInv` says that
copies are current, a held job is running and the budget is kept; every step
then maps to a step of the lifecycle or to a stutter.

*CheckPublicationProofs.* `CheckTypeCorrect`; `PublishedCheckExists` from
`IdsExist` (an ID that is held anywhere exists and is never forgotten);
`ChecksBounded`, which counts `Creators`, the publishers that will create
without looking: once a Check Run exists or is under way the attempt was
committed (`AttemptsPrecedeRequests`), so nobody joins them.
`ChecksStayAccountedFor` puts the two together. `LonePublicationAgrees`, for any
number of publishers, rests on `AloneKnows`: nobody else is at work, no Check Run
shows a newer analysis than the one it read (`KnownContent` when it begins), and
its copies of the row and of `error_code` are what is stored, so the columns it
writes are the ones that need it.

*InvitationProofs.* `InvitationTypeCorrect`; `AcceptedHasJoined` from
`MembershipStays`; `MailsBounded`, which counts `Senders` as above: once the
delivery row exists no handler joins those who send without looking.
`MailsMatch`, for one worker: what the handler holds is the digest that is stored
(`HandlerFits`) and a record that says sent has its mail (`RecordsFit`), also
across the rotation that a replay makes.

*WebhookProofs.* `WebhookTypeCorrect`, `ProcessedHasCompleted` and `UsedIsKnown`
from one invariant: `HandlersKnow` says for each place in a handler what must
already be committed (past `activate` the change exists, past `event` the ledger
has the event, at `finish` the job or the reason there is none, the deployment's
record). What handlers know only `Grows`, so no step of another process takes
it away. `ProcessingHasAnOwner` and `ConnectionIsSigned` need only that a handler
past its first commit is the owner or has marked the delivery (`OwnInv`).
`RecordFollows`, for one process: the record is that of one delivery and no older
than any processed one (`RowIsSound`), and the copy the handler took is still the
stored row (`CopyIsFresh`, `Caught`).

*OperationsProofs.* `PolicyAlwaysSeesTheRequest`: `SettingInv` adds that open
transactions have a connection each and that a pooled connection carries no
workspace. `NoUpdateIsOverwrittenUnseen`: `PolicyInv` adds that the version
counts the updates, that a flushed INSERT stands for a row nobody else sees, and
that a request past the version check was composed on what it read.
`InstallationsStaySound`: a used state is spent, and a
state that is spent and held, or held twice, is shared (`UsesAreCovered`).
`ContextStaysCoherent`: the row a request will write names a workspace the
user belongs to or joins with it, and a row that was read is still there
(`TabFits`), so the merge of columns is never half of nothing; and as long as no
two requests overlapped, the one that is open holds the row as it is stored
(`OneAtATime`), so what it merges is its own row, which fits.
`WindowAlwaysHolds`: each deque is the end of the list of
granted requests, what it no longer holds is out of the window, and both are
sorted (`DequeFits`); a deque that the sweep removes has an old last entry, so
all its entries are old.

*RecordsProofs.* `AnswersStayTrue`: what a request posts was derived from its
event, and its answer holds against a ledger that only grows (`Current`,
`AnswerHolds`); what is compared of an event that names its own time does not
depend on when it is received. `AccountsStayTheSubjects`: two rows share neither an id nor a
subject, and whoever is about to update holds a row of its subject (`Owns`).
`LifecycleLosesNothing`: only the holder of the row lock has a patch, and what it
patches is the committed row (`PatchFits`). `CatalogStaysAcyclic`: a request that
has passed the check holds the locks of all services it saw, so its graph is still
the stored one when it writes (`EditFits`); a new edge that closed a cycle would
have closed it in what the request saw. `VerdictsAreKept`: as long as no two
requests met, at most one is under way and the list it read is the stored one.
`ReadinessStaysJustified`: snapshots and decisions are ordered by their time of
commit (`SnapshotsHold`, `DecisionsHold`), so the latest one that the readiness
reads exists and no revocation is behind it. `OperationsStayTyped`: the
types that the run checks, for all eleven components of MCOperations at once, from
these invariants and those of OperationsProofs; added are only the bounds of the
counters (`ConsentBounds`, `RateTypes`).

*AnalysisProofs.* `ProbesStaySound`: `_validUntil` never
exceeds the validity of the stored result, not even between the two assignments
(`NotOverstated`), because whoever probes found it in its past and it only grows
(`TestsHold`). `BackupsStaySafe`: a backup under
way without `--force` saw no archive (`LooksHold`). `RehearsalsStaySafe`: a
target that was left has a creator that will not come back,
and the steps that succeeded are the first of the checks (`ChecksInOrder`).
`VerdictStaysEarned` says what the two files hold at each stage; that a pass is
earned is then a lemma about `EvaluateDecision`. `HealthStaysEarned`: what each
statement of the request read is borne out by what was committed while it ran
(`SuccessIsWitnessed`, `FailuresAreSeen`, `StuckAreCounted`, `LossIsCurrent`),
and neither the later statements nor the deliveries between them take that away
(`DeliveriesMove`). `AnswersFit`: an analysis that is stored or about to
be is that of the roots and edges in its identifier. `ScoresStaySound`
is a chain of lemmas: rounding, clamping and `Max` keep the order, hence each
part of the score does, hence the sum; and without anything to recommend the parts
add up to at most 67, three below critical. `DeletionsStayAccountedFor`: there is
a way to tell which run deleted which of the rows that are gone (`Portions`), and a
run has selected no more than it may still delete (`RunFits`): the oldest rows, as
many as the limit says, are that few because no two have the same number of older
ones. `MetricsStayCoherent`: a response is one of the rows as they are, and the
window of a demonstration does not depend on the day. `ExplanationsStaySound`: the
list of the sound hypotheses exists and starts with the first of them, so what
`build_evidence_synthesis` puts together is what its validator accepts
(`BuiltIsSound`). `RankingStaysExplained`: a score never falls with more support and
less contradiction (`ScoreGrows`, with `RoundsInOrder` for any denominator), so one
item for a candidate leaves no more candidates ahead of it (`FewerAhead`); and the
place of a candidate is one more than the number ahead of it, or the last one
(`PlaceCounts`).

`BlastRadiusStaysExact`: the walk of `calculate_blast_radius` finds for every
topology, every set of changed services and any `max_hops` the shortest ways and
among them the surest, and its edges explain what it reports. `BlastInv` says that
what is known of a service is true of one of the ways to it (`ReachedByWays`), and
that an edge that would still help its target leaves a service that is queued, or is
one of those that are being followed (`RestIsQueued`). It needs no order of the
queue: when nothing is left to do, every edge is `Relaxed`, and the ways of each
length, one after the other, can be no better than what is known (`NothingBetter`).
The ways themselves, and the powers of the decay factor, are recursive functions
over 0..`MaxHops`; that they exist is shown without induction over data, since there
is no least length up to which they do not (`WaysExist`, `PowersMultiply`).

`AnalysesStayTyped`: the types of all twelve components of MCAnalysis, from the
invariants above. What is added says that scores and qualities are percentages
(`RiskTyped`), confidences between 5 and 98 (`ConfidenceIsClamped`), and that the
names in an analysis are those of the catalog or of the request (`HitStays`).

That a finite set can be sorted is proved by counting: an element goes to the place
after those that come before it, and no two have equally many before them
(`ListExists`, `ListPlaces`).

The folds of the community modules are recursive functions over the subsets of a
finite set. What they sum to is proved without an induction theorem: a function
that satisfies the recursion is built one size of subsets after the other
(`TotalExists`), and two of them cannot differ at a smallest subset
(`TotalIsUnique`, `AddingIsUnique`), since the strict subset order is well founded.
That the order of summation does not matter is `TotalAdds`.

Only model-checked: liveness (`Settles`), since fairness is beyond the prover, and
the four violations, which are counterexamples. Every invariant and every action
property of a passing run, and the refinement, is also a theorem.

## Findings

* `job_success_undone`: a worker whose lease lapsed finishes after another one
  has completed the same job; it tests the status of the copy in its identity
  map and overwrites the success.
* `check_duplicate`: the lock on the publication row is given up by a commit
  before the row is marked; two publishers both see a first attempt and both
  create a Check Run.
* `invitation_revoked_join`: accept and revoke read the status without a lock;
  somebody joins with an invitation whose revocation has been committed.
* `webhook_replay`: a redelivery of a status that shares its second with the
  last one applied is applied again.

Properties with a proviso say where requests that overlap do break what one
would expect, and that nothing else does: a verdict is lost
(`VerdictLostOnlyByOverlap`), a context mixes two selections
(`ContextFitsUnlessCrossed`), and two services end up depending on each other
because one of them was committed while the other request waited for its locks
(`AcyclicWhereSeen`). Publications that overlap may leave a Check Run with the
older analysis, and a success may leave an `error_code` that another one recorded
after the connection was loaded; so may a PATCH that GitHub executes late. The run
goes through these states, and `LonePublicationSettles` says that they last only
until the next publication that meets no other one. `connector_health` counts a
stuck delivery neither as failed nor as stuck when it fails between those two
statements, so that one answer may be "healthy"; `HealthyIsEarned` speaks of
deliveries whose status lasts through the request.

Documents that say more than the code does, where a property follows the code:

* `docs/API_CONTRACT.md:117` and `:135`: a stable `X-DeployGuard-Event-ID` makes
  retries of telemetry idempotent. The time of receipt is `occurred_at` of the
  event (`services.py:1460`, `:1474`) and part of what is compared, so a retry
  whose first answer was lost is refused as a conflict. The same holds of a GitHub
  event whose payload has no time, or one that lies in the future
  (`services.py:861-879`). `RepeatIsAccepted` excepts events dated at receipt.
* `scripts/backup_database.py:5-6`: no overwrite is allowed unless `--force` is
  passed, and `docs/OPERATIONS.md:437`: an existing destination is refused. The
  destination is looked at before the dump and replaced after it, so an archive
  that another backup made in between is overwritten without `--force`.
  `UnforcedReplacesOnlyUnseen` says that no other one is.
* `docs/DATA_MODEL.md:53` and `docs/SECURITY.md:33`: the state of a GitHub
  installation is single-use. Two callbacks that read it before either has
  consumed it both succeed. `StateIsUsedOnceUnlessShared` says that otherwise it
  works once, and `InstallationHasOneWorkspace` that no installation is linked
  twice even then.
* `docs/SECURITY.md:23`: evidence must declare the commit that produced it. The
  command takes evidence with no declared commit for the head
  (`verify/deployguard_verify/cli.py:92`). `PassIsEarned` excludes only evidence
  declared for another commit.

## Abstractions

* Audit rows, notifications of failures, error texts and the text of Check Runs
  and e-mails are left out: no decision reads them. What an analysis computes is
  the identity of its result.
* `claim_next_job` compares `available_at` in its UPDATE; the model reads `due`
  at that moment. The ORDER BY of the claim is dropped: any order of candidates
  is explored. `locked_by` is dropped: nothing reads it.
* An insert under a unique key is one action; the read before it, which only
  saves the insert, is part of it where the code recovers from the conflict,
  and an action of its own where it does not (`InsertChange`, `Store`, `Record`).
* A delivery handler may start for any invitation whose job was ever enqueued.
  Whether e-mail is sent or kept in the development outbox is chosen freely.
* Webhooks with a wrong signature or of an unlinked installation change nothing
  in production; the synthetic fallback of other environments is left out.
  Checks are enabled.
* Several installations of one workspace and several deployments of a commit are
  not modelled. The single-use state of the callback is in `InstallState`, what
  the connection then goes through in `Webhook`.
* Floating point is replaced by exact fractions (`Rounding`): where a sum lies
  exactly between two integers the code may round to the other one. Percentages
  are integers, the mean of durations a sum and a count.
* One request of `connector_health` stands for all: it only reads, and its
  behaviours end with the answer.
* The rehearsal of an SQLite backup works on a private copy, with an integrity
  check and a write probe, and is left out; grants and the runtime role are those
  of PostgreSQL.
* What an account of deletions would owe to a run that failed is not stated: the
  code logs no numbers then, and `AuditAddsUp` speaks of completed runs.
* Digests are the tuple of what is digested: collisions are excluded.
* A stop of a process before its commit is an action of its own (`PolicyStops`,
  `DropPatch`, `DropTab`, ...), and so is a stop of a script between any two steps.

Not modelled, as `PROJECT.json` says component by component: logging, metrics and
tracing (nothing reads them back); the HTTP routes, settings and schemas, which
validate and pass on; the database schema, migrations and seed data, which are
declarations (their unique keys and foreign keys are in the modules that rely on
them); pull request comments, which are posted and not read; the web console,
which keeps only what the API told it. Of modelled components: the routing
table of the gateway and its stateless database probe, `deployguard-verify init`,
the scripts that only read, the development sign-in, the checks of headers and
body sizes, and the synthetic fallbacks of development servers.

## Plan

1. Done: the outbox and its lifecycle, Check publication, invitations, webhooks
   with deployments and the connection; the operations of the API; the analyses,
   the control plane's probe, the verification command and the scripts; theorems
   about each group.
2. Done: a theorem for each invariant and action property that the runs check.
3. Liveness of the readiness probe and of the webhook handlers, under the
   fairness of a thread pool and of GitHub's redeliveries.
