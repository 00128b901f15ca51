# A specification of Sentinel

TLA+ modules, TLC configurations and TLAPS proofs for Sentinel (the repository
is named `SafeCameroon`): anonymous reports, reviewed cases, policy-scoped
alerts, and their delivery to subscribed consumers. `PROJECT.json` maps every
definition to the lines it models and lists runs, mutants, findings, hazards and
theorems. The comments in the code often cite a `docs/` directory that is not
in the repository, so the reference is the code, its comments, its tests, the
migrations and the top-level `README.md`.

    tlc -workers 2 -config CaseRaces.cfg MCCaseWorkflow      # one run
    tlapm CaseAndAlertProofs.tla                             # one proof module

Contents: [the system](#1-the-system), [the modules](#2-the-modules),
[the runs](#3-the-runs), [bounds](#4-bounds), [fairness](#5-fairness),
[the proofs](#6-the-proofs), [where code and comments
disagree](#7-where-code-and-comments-disagree), [what is not
modelled](#8-what-is-not-modelled), [the plan](#9-the-plan).

## 1. The system

    citizen app --> report --> case --> alert --> outbox --> matching --> deliveries --> provider
      (queue)       (API)      (API)    (API)    (Postgres)  (worker)      (worker)         |
                                                                  ^--------- webhooks ------+
                                                                             (API)

Any number of API processes and worker processes share one Postgres database.
There is no other shared state and no queue but the `outbox_events` table; rows
are protected by transactions, `FOR UPDATE SKIP LOCKED`, unique indexes and
version columns (optimistic locking). A request or a worker holds an aggregate
in memory between a read and a later write, which is where the interesting
interleavings are.

| component | state | operations | hard behaviour | what makes it correct |
|---|---|---|---|---|
| Delivery aggregate (`domain/src/delivery.rs`) | status, attempt count, version, retry time | plan, start attempt, record success / failure / delivered | boundary of `max_attempts`, waits between attempts | the status follows from the attempts |
| Delivery workers and repository (`worker/src/dispatch.rs`, `postgres/deliveries.rs`, `api/src/deliveries.rs`) | `deliveries`, `delivery_attempts`, `delivery_events`; the claimed batch in memory | `create_planned`, `claim_next`, send, `apply_attempt_transition`, lists and details | concurrent polls, fallback gate, timeouts, sends that never return, stops between claim and record; details read in two statements | one owner per row; fallbacks wait; ledger and history complete; answers explain a status; everything settles unless a worker that stopped or hangs in a send has it |
| Channel adapters (`infrastructure/src/channels`) | none | one call to a provider | answers that are lost or cannot be read; which refusal is final | copies accounted for; final means final |
| Provider webhooks (`api/src/webhooks.rs`) | `webhook_replay_guard`; the aggregate in memory | `receive_webhook` | repeated, early, late callbacks; failure after the guard commits | a conflict loses nothing; DELIVERED is backed by a receipt |
| Subscription matching and outbox (`worker/src/subscription_matching.rs`, `postgres/outbox.rs`) | `outbox_events.claimed_at`, `published_at`; matches and preferences in memory | claim, match, read preferences, plan, publish | stops in mid-batch; reads at different times; per-delivery commits | only stops lose alerts; a published alert reached those who waited; tiers of one recipient are whole |
| Subscriptions, preferences, consumers (`api/src/subscriptions.rs`, `citizen_subscriptions.rs`, `consumers.rs`) | `subscriptions`, `delivery_preferences`, `consumers` | create, update (versioned), delete, upsert, by reviewers and by citizens with a token | lost updates; three commits per citizen subscription; rules in two stored forms | a version names one rule set; rules keep their meaning; a token opens what it was given for |
| Case workflow (`domain/src/case.rs`, `api/src/cases.rs`, `postgres/cases.rs`) | `cases`, `case_reports`, `case_events`, `reports.status` | create, link, review, verify, resolve, read | two reads per load; concurrent reviewers; rollback | lifecycle path; one case per report; answers agree with the version they show |
| Alert issuance (`domain/src/alert.rs`, `api/src/alerts.rs`) | `alerts`, `alert_events`, idempotency keys | create from case, cancel, read, list | lost answers and retries; concurrent cancels; case read before the write; lists scanned in batches | one alert per kept key; one cancellation; verified cases only; nothing restricted leaves |
| Report intake (`api/src/reports.rs`, `postgres/reports.rs`) | `reports`, idempotency keys | create anonymous report, review, list | duplicate and late posts | stored once at most |
| Citizen offline queue (`apps/citizen/src/offline`) | IndexedDB store, receipts in localStorage | `submitOrQueue`, `flushPendingReports` | overlapping flushes, closed tabs, lost answers | what the author is told is true; the queue empties |
| Attachments and AI helpers (`api/src/attachments.rs`, `extractions.rs`, `alert_description.rs`) | `attachments`, bucket, suggestions | register, upload, download; extract, describe, transcribe | row and object written by two parties; a provider between a read and a write | no object without a row; what was shown stays on record |
| Organizations, authorization, trust (`api/src/organizations.rs`, `application/src/authorization.rs`) | memberships, organizations, trust grants | grant, link, activate, trust; decide | rights read in one transaction and used in another; first registration | memberships are rooted; who acts had the right |
| Reviewer sessions (`api/src/auth.rs`, `postgres/reviewers.rs`) | reviewers, revocation time, audit rows | register, sign in, check, log out | three commits; tokens in whole seconds | a logout ends sessions; lockouts are explained |
| Rate limits (`api/src/rate_limit.rs`, `postgres/rate_limits.rs`) | `rate_limit_windows` | count and check, cleanup | the limit, window boundaries, cleanup against late requests | never more than the limit, nobody refused early |
| Audit trail (`api/src/audit_events.rs`) | `audit_events` | append, list | rows that appear out of order while pages are read | a walk misses nothing |
| Invite mailer, console, citizen app, HTTP server | none that lasts | - | - | section 8 |

Interactions: `create_alert` writes the alert and its outbox row in one
transaction, having read the case in an earlier one. Workers turn outbox rows
into planned deliveries and, in the same cycle, dispatch whatever is claimable.
The provider calls back into the API, which updates the same delivery rows.
`create_case` and `link_report` change the status of reports, as does
`start_report_review`. The citizen app posts reports under a key of its own, and
then a photo. Every reviewer request reads the session, the membership and
possibly the organization before it does its work, and writes audit rows after it.

## 2. The modules

| module | code it stands for | kind |
|---|---|---|
| `DeliveryLifecycle` | the Delivery aggregate | functions from row to row with their guards |
| `DeliveryEngine` (extends it) | workers, repository, webhooks, provider | state machine |
| `DeliveryViews` (extends that) | lists and details of deliveries | composition: readers beside the engine |
| `DeliveryContract` | - | abstract: bounded tries, one end, fallbacks wait |
| `DeliveryEngineProofs` | - | invariants and refinement of the engine, what readers are told, proved |
| `SubscriptionMatching` | outbox, matching, planning, edits meanwhile | state machine |
| `SubscriptionMatchingProofs` | - | invariants, proved |
| `SubscriptionRules` | rules: accepted, stored, read back, shown, evaluated, deduplicated | operators |
| `Subscribers` (extends it) | consumers, subscriptions, preferences, tokens | state machine |
| `CaseWorkflow` | cases, links, reviews, report review | state machine |
| `CaseViews` (extends it) | cases, lists and histories as they are read | composition: readers beside the workflow |
| `CaseContract` | - | abstract: reviewed lifecycle, exclusive evidence, no versions or requests |
| `AlertIssuance` (extends `CaseWorkflow`) | alerts, their keys, posting clients, cancellation | composition: alerts read the cases that others move |
| `CaseAndAlertProofs` | - | invariants and refinement of the workflow, what readers are told, and on top of it the invariants of the alerts, proved |
| `AlertPages` | one alert, lists of alerts | state machine of a growing table and a scan |
| `ReviewerLists` (extends it) | lists of audit events, reports, cases | the same for a client that walks through all pages |
| `AlertMessages` | alert policy and fields, messages, adapters, backoff | state machine of one delivery |
| `ListsAndMessagesProofs` | - | invariants of these three, proved, and with `CaseAndAlertProofs` the types of all that `alerts_issued` runs |
| `AlertPipeline` (extends `AlertIssuance`) | the cycle of a worker, the transactions that store an alert with its event and a planned delivery | composition of `AlertIssuance`, `SubscriptionMatching` and `DeliveryEngine` |
| `AlertPipelineProofs` | - | it implements the three, and what it promises as a whole, proved |
| `ReportIntake` | offline queue, endpoint, idempotent insert | state machine |
| `IntakeProofs` | - | invariants, proved |
| `ReportEvidence` | photos, extraction, description, transcription | state machine |
| `ServicesProofs` | - | invariants of `ReportEvidence`, `SubscriptionRules` and `Subscribers`, proved, and with `AccessProofs` the types of all that `services` runs |
| `OrganizationTrust` | memberships, organizations, trust and every authorization rule | state machine |
| `ReviewerSessions` | registration, sign-in, tokens, logout | state machine |
| `RateLimits` | counters, windows, cleanup | state machine |
| `AccessProofs` | - | invariants of these three, proved |
| `MC*` | - | constants, owners, keys and symmetry for TLC |

How state and actions correspond to the code:

- **One action per transaction or external call.** What a handler keeps in
  memory between two of them is a variable (`batch`, `answer`, `loaded`,
  `editing`, `matched`, `plan`, `job`, `cancelling`, `call`, `rest`, `view`, `requests`,
  `calls`, `checks`, `desk`, `errands`). A handler's early
  returns are guards or separate actions; its conversions of errors to answers are in the action.
- **DeliveryEngine.** `ClaimNext` is `claim_next` with its `WHERE`, `ORDER BY`,
  `LIMIT` and `SKIP LOCKED` (any subset of claimable rows may be locked by a concurrent
  claim); `Send` is the return of the adapter call, `TakeMessage` the provider's taking of the
  message while it has not returned, `NoAdapter` the refusal without a call. A timeout is a retryable
  error and hides whether the message was taken; a call may also never return. `Record` persists the outcome; `Abort`
  is the `?` of `process_batch`, a shutdown or a crash. `RecordIfNew`, `Load`,
  `ApplyWebhook` and `WebhookFails` are the steps of `receive_webhook`. Time is
  `BackoffElapses`.
- **DeliveryViews.** `ListDeliveries` is one statement; `FindDelivery` and
  `FindAttempts` are the two of `get_delivery`, with anything in between.
- **SubscriptionMatching.** `ClaimUnpublished`, `Match` (one read of all
  subscriptions), `ReadPreference` (one read per consumer), `CreatePlanned` (one
  commit per delivery, in list order), `MarkPublished`, `Abort`. A rule set is the set
  of alerts it matches. `promised` and `editions` are history: who was waiting when
  an alert was created and has not changed their mind since, and which rules a version had.
  `find_by_id` of the alert at the start of `match_and_plan` is part of `Match`: the
  row is there, because the alert and its event are written together.
- **SubscriptionRules and Subscribers.** `ToDomainRule`, `RuleToJson`, `RuleFromJson`,
  `EvaluateRule`, `Shown`, `CitizenRules` are the conversions by those names, on values with a
  level for each severity and a constant relation for which area's name contains which
  target. `CreateConsumerWithToken`, `CreatePreference`, `InsertSubscription`, `AnswerCitizen`
  are the commits of one citizen subscription and its answer; `StoreOwn` and
  `ReplaceEndpoint` the two commits of an update. `Listed`, the decisions and the areas are sets:
  the order of `list_all` decides only in which order deliveries are planned, which is
  `SubscriptionMatching`'s.
- **CaseWorkflow and CaseViews.** A request is `Begin`, `ReadRow`, `ReadReports`, then `Store`
  or `Refuse`; `Fail` may end it anywhere. `Store` is the whole transaction: versioned
  update, link, report status, event, and the answer built from memory.
  `is_allowed_transition` is `IsAllowed`. Readers do `ReadRows`, `ReadLinks` and, if
  they ask for it, `ReadHistory`.
- **AlertIssuance.** `Submit`, `LoseAnswer` and `Answer` are the client; a post
  whose answer was lost goes on at the server and may be handled later than the
  next one. `CheckCase` reads the case; `InsertAlert` writes the alert without
  looking again. `keying` distinguishes the console (a new key per call), a
  client that keeps its key, and one that sends none.
- **AlertPipeline.** Every action is one of a component's, or two that the code commits in one
  transaction: `IssueAlert` (`PostgresAlertRepository::create`: the alert and the event that
  matching claims) and `WritePlanned` (`create_planned`: the delivery that matching planned and the row
  that the engine works off). The components' actions are used as they are, through `INSTANCE`;
  cancelled alerts stay in `Issued`, since their events do. `cycle` says in which half of
  `process_cycle` a worker is: matching, until its batch is done or there is nothing to claim, then
  dispatch; an error of either half starts the next cycle (`StopMatching`, `StopDispatching`).
  `Waiting` says that a worker is in a send over a channel of `NoTimeout`, whose adapter waits for
  as long as it takes (push); it may stay there for good, and does nothing else meanwhile.
  `inserted` is history: which planned delivery a row was inserted for. The rows of `DeliveryEngine` have a
  constant recipient and tier, so a slot foretells its columns: every run of the system has such a
  numbering of the rows it will insert, and the theorems hold for every numbering.
- **AlertPages and ReviewerLists.** `BeginCreate` and `CommitCreate` of an alert are
  two steps, because a row carries the time at which its transaction began. A row's place in the
  model's sequence is its place in that order, newest at the end, whether it is committed yet, or
  ever; a query is the set of the places it finds, and LIMIT and OFFSET cut it by how many places
  of the set are as new (`Place`, `Cut`).
  `ScanBatch` is one query of `list_alerts` for a reviewer who is no platform admin,
  `ListForAdmin` the only one for an admin. `NextPage` is one request of a client that goes on
  until a page is empty; `ChangeReport` and `MoveCase` move the rows it walks over.
- **AlertMessages.** `DraftAlert` and `StoreAlert` check the fields in memory and
  in the table's constraints; `ClaimToSend`, one of `RefuseLocally`, `PrintInSandbox`,
  `PostToProvider` with its outcomes, and `RecordOutcome` are one attempt. `Retryable` is the
  classification of each adapter, `BackoffAfterAttempt` the wait in seconds.
- **ReportIntake.** `Submit`/`SubmitReturns` are `submitOrQueue`;
  `StartFlush`, `SendNext`, `FlushReturns` are `flushPendingReports`. `orphans` are
  posts nobody waits for that may still arrive. `CloseTab` may strike before or
  after the store was updated. `receipts` ignores the limit of 20
  (`MAX_RECEIPTS`) and a localStorage that throws, in which the code accepts a lost receipt.
- **ReportEvidence.** `CheckReport`, `PrepareUpload`, `CreateAttachment`,
  `AnswerUpload`, `PutPhoto` are the steps between the citizen app, the API and the bucket;
  the desk's requests are three steps each: read, ask the provider, store.
- **OrganizationTrust.** A request is `BeginRequest` (membership and role),
  `ReadOrganization` (organization, trust, subscriptions), then the actions that store
  what was allowed (`CreateReviewer` and `AddMembership` are two commits, as are
  `CreateOrganization` and `LinkConsumer`); `CutOff` may end it in between.
- **ReviewerSessions.** `Tick` is the database's clock, of which tokens know
  the seconds. `Verify` checks signature and expiry, `CheckRevocation` asks the database.
- **RateLimits.** `ReadClock` computes the window; `Admit`, `RefuseLimited` and
  `CheckFails` are the statement that counts and what is answered; `DeleteExpiredWindows`
  is the worker. `asked`, `admitted` and `refused` are history.

## 3. The runs

Passing runs (distinct states with symmetry, where it applies; two TLC workers):

| run | what it shows | states |
|---|---|---|
| `deliveries` | one initial state for each of three: two workers, a primary with a fallback and a recipient with two channels (one without adapter), two faults; two callbacks and two concurrent requests, early, late, repeated; one of each beside a reader: what is in flight is held, rows, attempts and events tell one story, conflicts lose nothing, receipts back what is stored, details explain the status, refinement of `DeliveryContract` | 696 914 |
| `matching_races` | two workers with batches of two, a stop, and one of: two concurrent edits, a citizen with two subscriptions and changing preferences, consumers that come and go; as long as some worker comes back to the outbox, every alert is published unless its worker stopped | 247 231 |
| `alert_pipeline` | two workers in their cycles, one alert of a verified case, two subscribers, and one of: a preference that changes, a stop, callbacks, a second subscriber who wants all endpoints at once; a worker may hang in a push: who hears of it is explained, one row reaches them, who waits has rows, and under fairness every row is worked off that no stopped or hanging worker holds up | 132 060 |
| `case_races` | two requests that change or read, two cases, two reports, complete state space: history, links, answers, refinement of `CaseContract` | 663 007 |
| `alerts_issued` | one initial state for each of four: clients with two posts each, cancellations and a moving case; a reader of alerts; a client that walks through a list; one alert's text and its delivery through every adapter | 1 926 021 |
| `intake_faults` | three reports, two overlapping flushes, three faults; under fairness, the queue empties for good | 393 378 |
| `services` | one initial state for each of six parts that share no state in the models: trust, sessions, limits, photos, the reviewers' desk, subscribers | 492 740 |

The parts of `alerts_issued` and `services` do not interact in the models, so a
product of their states would show nothing more; each part is explored completely. What
they share in the code (a membership, a session, an audit row) is repeated in the part that needs it.

Violated on purpose (section 7): `webhook_early`, `webhook_retry`,
`matching_skips`, `alert_retries`, `intake_receipt`. Each states what a comment or message of the
repository claims.

Every property of a passing run has a mutant in `PROJECT.json`: a definition of
the model changed as a plausible bug would change the code (a version left out of a `WHERE`, a
gate that ignores rows in flight, an attempt too many, a 429 taken for permanent, a right checked
against the wrong organization), under which TLC finds the property violated. The mutant operators stand
just before the definition they replace, marked `Mutant:`.

`CHECK_DEADLOCK FALSE` is set in all of them but `alert_pipeline`: work is finite under the
bounds, and a system with nothing left to do may stop. Not so the workers of `alert_pipeline`, which
poll for ever: there TLC also shows that they never wait on each other.

## 4. Bounds

- *Versions and attempts* need no cut-off in the case workflow (the lifecycle
  and the links are finite). `MaxAttempts = 2` covers a first, a last and a
  retried attempt: the code only compares the counter with the limit. `RetryLimit = 8` in
  `AlertMessages` is more than the 5 of `RetryPolicy::standard` (`delivery.rs`, 278-280), so that the wait
  reaches its cap of 30 minutes (after the seventh attempt, so never in production).
  `MaxVersion = 2` lets two edits that start from one version collide.
- *Two of each racing actor* (workers, requests, handlers, cancellers, flushes, calls): every
  conflict in this code is pairwise, because an update compares one version with one row and a
  claim excludes one other claim.
- *Deliveries*: a primary with its fallback needs two, a second recipient
  shows that a batch spans recipients, and a fourth that a batch of two leaves
  something over. With callbacks and readers one worker and two deliveries in one chain are enough, since a
  webhook and a detail touch one row; beside a reader the callback is handled without a fault.
- *MaxFaults* counts errors, crashes, shutdowns, refusals and lost connections: 1 to 3 per
  run, so that a fault can follow a recovery from another.
- *MaxTries = 2*: a post and its retry, in either order of arrival.
- *EventId* bounds callbacks; each may be repeated without bound.
- *MaxAlerts = 3* and *Batch = 2*, *MaxRows = 4* with pages of 1 and `MaxLimit = 2`: a page, the
  next one and a row that moves across the cut. A limit of 3 is cut
  down to `MaxLimit`; a limit of 0 stays 0 and is answered with an empty list (`alerts.rs`, 488 and 502).
- *Reviewers, organizations*: an admin of the platform, one of the organization, and a third to
  be given a membership; two requests, so that one takes back what the other relies on. The run
  keeps one active alert at a time, and a request that only reads an organization beside one
  that changes it: it disturbs no other.
- *Clock*: `TicksPerSecond = 2` gives a second an earlier and a later half, which is where a
  logout can fall; `Window = 2`, `Limit = 2`, `MaxNow = 5` give three windows with room
  for a refusal; `Retention = Window + MaxDelay` is the tightest cleanup the assumption allows (the code's
  is a day).
- *AlertPipeline* needs all its actors to say anything, so each of its four initial states (`scene`)
  lets one kind of disturbance happen beside two workers (with callbacks, one): preferences and
  cancellations that come before the event is published, one stop of either half, one callback, or
  a second subscriber with all endpoints at once, the last of which takes no message. The case is verified
  first and on its own; the races around it are those of `case_races` and `alerts_issued`, and
  `ImplementsIssuance` says that nothing here adds to them. Five slots are a fallback chain, or one row of
  the first subscriber and three of the second, in a batch of two: with both workers hanging in a push a row is left over that neither
  holds, and one is behind another in a batch. The worker that claims the event is always the same one
  of two that are alike. Where there is one worker only, its sends return. Each
  restriction is a named conjunct of `Allowed` in `MCAlertPipeline`; the theorems are about
  `PipelineSpec`, which has none.
- *Rules*: two severities, one area, two audiences, both stored forms; announcements in every
  combination of those.

## 5. Fairness

In `matching_races`, `alert_pipeline` and `intake_faults`, the runs with a liveness
property (their safety properties do not need it), as weak fairness:

- of a worker: `main.rs` polls in an endless loop and sleeps five seconds when idle or after an
  error. Assumed are that a statement of the database ends or fails and that a worker that stopped is restarted.
  A send is another matter: the clients for SMS and mail give up after 30 seconds
  (`infobip.rs`, 36, `resend.rs`, 47), the one for push never (`push.rs`, 37), nor does `dispatch_one` (84), and
  the loop that awaits the send is the one that polls the outbox. So a worker may hang in a push for good,
  without having stopped;
- in `alert_pipeline`, each worker's cycle as a whole, *unless it waits for a push* (`Waiting`), and the
  clock (time passes), and nothing else: that a worker comes from one half of its cycle to the other
  is what the property is about. `OwedIsServed` says what is left of the promise: rows that a hanging
  worker holds, and the fallbacks behind them, are excused, everything else is worked off by the other
  workers, and nothing is owed when all of them hang. In the scene with callbacks, which has
  one worker, a push returns;
- in `matching_races`, which has no sends: a worker that holds events goes on with them (`EventStep`), since between
  claim and publication there are only statements; and *some* worker comes back to the outbox
  (`SomeoneClaims`), which is an assumption about the deployment: it fails if every worker hangs in
  a push. No single worker need ever come back;
- in `intake_faults`, the API finishes the requests it accepted; the browser flushes every 20
  seconds while the app is open.

Nothing else is assumed of the provider, of reviewers or of authors, and no fault is owed.
Faults are bounded, so "eventually" means after the last of them.

## 6. The proofs

For every value of the constants that satisfies the named assumptions of the module:

- **`DeliveryEngineProofs`**: `EngineInv` is inductive; it gives `TypeOK`,
  `FallbackGate`, `OwnedExclusively` and `ConflictMeansApplied` (together `ConflictsLoseNothing`), and
  `ImplementsContract`, which says what `FallbackGate` does to the recipient. `FallbackGate` alone is not inductive: a
  gate that was open must stay open. This needs `PlannedInOrder` (a fallback row exists
  only after the rows below it), `OwnedExclusively` (what a worker persists is a
  transition of the stored row) and `SentIsReached` with `LoadedIsReceipt` (a late
  webhook never takes a reached row back). On top of it, `DeliverySteps` says that a step,
  seen from one delivery, keeps, plans, starts, records or confirms it, and from these five
  cases follow `HistoryComplete`, `AttemptLedger` (together `RecordsComplete`) and `ReceiptBacked` (which also needs that a
  request handles a callback that was emitted, for the attempt it loaded, and that a worker
  told "sent" holds the delivery the provider took). `SendingIsHeldOrStranded` counts: a batch is
  no larger than `BatchSize`, because each member has fewer older claimable rows. `ViewsExplain` is
  about a row that a reader holds while others commit: `Behind` relates it to the stored row (a
  failed row is the stored one, a retried one has been attempted again or not, a reached one stays
  reached), every one of the five cases keeps it, and whoever is behind finds in the ledger, read
  later, what explains the row read earlier.
- **`CaseAndAlertProofs`**: `CaseInv` = types, `RowsExist` (version 0 exactly for
  absent cases, evidence only for present ones) and `LoadedIsEarlier` (a row in memory has
  a version not above the stored one, and is the stored row when the versions
  are equal). With the last, the version check implies that the aggregate was
  changed from what is stored, so each `Store` is one edge of `CaseContract`. A history grows by
  one event per version, at the end and along an edge, which keeps it a path (`HistoryIsPath`);
  links and their events are counted together (`LinksAgree`). `AnsweredTruly` adds two
  invariants. A request that loaded a row and, in a later statement, its reports has those of the
  row's version if that is still the stored one when it stores (`LoadedReports`), so the answer
  built from memory is true; what a reader holds is about versions that were stored and histories
  that have at least the events of the version shown (`ReadersInv`).
  For the alerts, `AlertInv` adds to `CaseInv`, whose steps interleave with those
  of the alerts: `StoryTold` (the events of an alert, by its status), `LoadedAsCreated` (a
  cancellation loaded the first version, so of several one can store), `KeysUnique` and
  `KeyOfItsClient` (a kept key is that of the first post, so two alerts of a client would share it), and
  `LaterIsOnRecord` (a status after VERIFIED has the verification among the case's events,
  which nothing removes).
- **`SubscriptionMatchingProofs`**: three layers, each inductive with those below.
  `OutboxInv`: types, `OnlyStopsLose`, and a worker between events remembers nothing.
  `PlanInv`: the stored version of a subscription is its newest and on record
  (`EditionsKept`), the deliveries of an event still held were written by its worker after all
  reading (`Placed`), and written and planned together are, for each
  consumer, what one preference asks for, lowest tier first (`InPlan`). This gives
  `TiersFromOnePreference`, `DeliveriesExplained` and `SealedWhenPublished`.
  `PromiseInv`: who waited and did not change their mind is still matched (`StillWanted`) and
  what they are owed is written, planned or yet to be looked up (`OnItsWay`). This gives
  `PublishedReachesMatched`.
- **`IntakeProofs`**: `IntakeInv` = types, `AnswersTrue` (an answer on its
  way to a caller agrees with the table), `FreshIsUnknown` (a report not yet sent
  is in no store, queue, call or post), `ToldInStep`, and the two safety properties
  themselves, which hold for any number of reports, flushes and faults.
- **`ServicesProofs`**: `EvidenceInv` = types, `PhotosInStep` (what each stage of an upload
  says about row and object, and that both are of the one file that was checked), `DeskInStep` (what
  a request of the desk carries from one statement to the next) and `AnswersOnRecord`, which only
  tables that grow can keep (`TablesGrow`). Transcriptions write nothing.
  For subscribers, `SubscriberInv` = types, `RowOK` (a row reads back as what was last
  accepted, in the form of today or of old rows, and what a citizen wrote has a citizen's three
  rules), `ErrandBacked` (a request's consumer, preference and row are there as far as it has come) and
  `TokenOpens`, which is not inductive: the id that a creation drew must not be anybody else's before
  it is stored (`IdsApart`). `RulesKeepMeaning` then follows from what the conversions compute, by
  lemmas about each of them on any rule: stored and read back it is the same rule, the form of old
  rows reads as its one area, deduplication keeps every match, and the rules shown to a citizen,
  accepted again, are the rules. `ServicesTypeHolds` puts the types of these two and of
  the three of `AccessProofs` together, for the composition that the run explores.
- **`ListsAndMessagesProofs`**: about sets of places first. A set cut at a place divides it
  (`BatchDivides`), and two neighbouring cuts joined are one (`PageJoins`), so a scan's batches
  make up one page; adding rows moves others down the list and none up (`ShownOrLater`).
  `PagesInv` = types, `ShownAllowed` (what was selected so far may be read), `ScanOnCourse` and the
  property. A scan is on course when what it has is the beginning of the page that was there at
  first (`QuietSoFar`), or, if alerts appeared since, holds or is still to find every alert of that
  page (`GrowingSoFar`). `ListsInv` = types, `RowsDistinct`, and `OwedAhead`: unless the list
  became shorter, each row still owed to the client is there and no nearer to the head than the pages
  shown, which moving another case to the head keeps (`MoveKeepsPlaces`).
  `MessagesInv`, of one alert and its delivery, has `FieldsPublishable`
  (each field once, none forbidden or restricted, whether the policy or an earlier one let it in),
  from which `OneDescription` computes what `build_outbound_message` tells; and `SendingInv`: an attempt
  is under way exactly while the row is SENDING, `Outcome` ties what can be retried to what the provider
  said, and `WaitsBackOff` says the wait after each attempt, whose doubling up to the cap is a lemma
  about `backoff_after_attempt` for every number of attempts (`BackoffDoubles`).
  `AlertsTypeHolds` puts the types of cases, alerts, lists and messages together.
- **`AlertPipelineProofs`**: the pipeline implements `AlertIssuance` (`ImplementsIssuance`),
  `SubscriptionMatching` with the alerts that were issued as its alerts and `planned` as its table
  (`ImplementsMatching`), and `DeliveryEngine` with slots as its rows (`ImplementsEngine`): every step is
  one of theirs or leaves them alone. So all that is proved of the three holds here, in terms of
  the pipeline's own variables (`PartsInvariant`); no invariant of theirs is proved again. What is
  new is the join: `RowsArePlanned`, with the types of `inserted` and `cycle`, is inductive given
  that only `create_planned` inserts a row (`OnlyPlanningInserts`, of the engine) and only it adds to
  the planned (`PlannedUntouched`). The three other properties each follow from invariants of more than one
  part. `HeardIsExplained`: what a provider took was claimed (`AcceptedIsStarted`, an invariant
  added to the engine for this), so its tier's gate was open and stays so; its row is for a planned delivery,
  whose matches are editions on record; and its alert is one of a verified case. `ReachedOnce`: the
  gate orders the tiers, and two rows in tier 0 are two planned deliveries of one preference,
  whose endpoints differ. It counts rows that are SENT or DELIVERED: who was sent a message whose answer was
  lost may hear of the alert again. `OwedIsInTable`: `PublishedReachesMatched`, carried over to the rows.
- **`AccessProofs`**, three components that decide who gets in:
  - `RateLimits`: `LimitInv` = types, `CountsSurvive` and `WindowAdmitsLimit`.
    The limit alone is not inductive: a request is judged by the row's count, which must be the
    number of requests counted so far. `CountsSurvive` says so: a row is missing only when its window is
    older than the retention, a request under way is younger than that (`LimitAssumption`), so
    whoever counts finds the true number.
  - `ReviewerSessions`: `SessionInv` = types, `TokensHonest` (issued in the past, expiring a
    lifetime after the second of its issue), `CallsBacked` (what a request may rely on since its
    earlier steps) and `LockoutExplained`. `LogoutEndsSessions` needs besides only that a second
    begins no later than any of its ticks.
  - `OrganizationTrust`: `TrustInv` = types, `MembersOK`, `SoleInsert` and `JobOK` of
    every request. Rights were read in one transaction and are used in another, so `JobOK` says
    what of them cannot change meanwhile: the actor's membership is the one that was read, what a
    registration gives was granted by it, and the reviewer it inserted has no
    membership yet. The last needs `SoleInsert`: were two registrations to insert one
    reviewer, the second would find a membership there.

Each proof has one lemma or step per action of `Next`. Assumptions used: those named
`...Assumption` in the modules, which TLC evaluates in every run whose module extends them. Most
bound a constant (limits are positive, lists are of the inputs' type). Those that say more:
`LimitAssumption`, a request is decided sooner than its window is cleaned up; `AbsenceAssumption` and the last
line of `EvidenceAssumption`, the marker for no row is no row; `LegacyAssumption`, alerts from before
descriptions had two languages were stored under the constraints of their table by a policy that
`AlertPolicy::new` accepted for the community.

Model-checked only: liveness (`PublishedUnlessLost`, `OwedIsServed`, `QueueSettles`; fairness is outside what the prover handles). Every other property of a passing run is
stated by a theorem. No module declares a RECURSIVE operator.

## 7. Where code and comments disagree

Shown by a run:

1. `webhook_early`: a callback that comes before the worker has committed the message
   id is answered 200 and its event id is spent; the comment says that retrying would
   not change the outcome.
2. `webhook_retry`: after the replay guard commits, a database error is answered
   "Please retry.", and the retry is ignored as a duplicate.
3. `matching_skips`: an error in the middle of a batch leaves the rest claimed for
   good; the comment says they are not permanently skipped.
4. `alert_retries`: the console makes a new key per submission, so a retry after
   a lost answer issues a second alert, although the comment says it cannot.
5. `intake_receipt`: when the answer to a stored report is lost, the retry is
   a 409 without the reference code, and the queue drops the report without a receipt.

Met while modelling, stated by the modules as the code does it:

- `list_alerts` answers an organization without subscriptions with an empty list
  (`alerts.rs`, 211-215), although the comment on `can_read` (502) says an organization always
  sees its own alert, and `get_alert` shows it. `PagesFaithful`, in `ListsFaithful`, says so.
- A description of tabs passes the `btrim` of the table's constraint (migration 0005, line 51) and
  counts as there, so `description_for_locale` (`alert.rs`, 661-668) prefers it, and
  the recipient reads nothing. `NothingUnpublished` is about descriptions that say something.
- A registration cut off after its first commit leaves a reviewer without membership, for whom
  sign-in fails at an `expect` (`auth.rs`, 283). `LockoutExplained` says that nothing else does.
- `list_alerts` may show an alert twice in one answer when others appear during the
  scan; and a client that walks through the reports or cases of one status misses the
  rows after one that leaves that status. `ListsFaithful` says that nothing else is missed.
- `WebPushChannel` sets no timeout (`push.rs`, 37) and `dispatch_one` adds none (84): a push endpoint
  that takes the connection and never answers keeps its worker from dispatching *and* from matching
  until the worker is stopped, after which the rows of its batch stay SENDING. `OwedIsServed` says that the harm
  ends there while another worker runs.
- Reports and cases are ordered by a time alone (audit events by their id, too): rows of one microsecond have
  no fixed order between pages. The model has no two such rows.

## 8. What is not modelled

Listed with reasons in `PROJECT.json`. In short: cryptography (webhook signatures,
session tokens, reference codes, signed URLs), the bytes of requests to providers, storage, mail and
AI models, formatting and presentation, the invite mailer (one best-effort call), health
and error pages, the push subscription with the browser, the limit of 20 receipts in the offline
queue. What a name of an area contains is a constant relation; texts are blank
or not, and a rule in `SubscriptionMatching` is the set of alerts it matches (what rules compute is
in `SubscriptionRules`). Isolation is that of Postgres READ COMMITTED as the code uses it: each action is
one transaction whose conditional updates see the committed row.

That a cancelled alert reaches nobody is no property here: one that is cancelled before its outbox
event is processed is matched and delivered all the same, and the code promises nothing else.
`OwedIsInTable` and `HeardIsExplained` hold with the alert cancelled at any point.

## 9. The plan

Done: everything above, the pipeline from a case to its recipients included. What would be next:

1. Liveness of the pipeline with callbacks and stops at the same time, which needs a smaller model
   of the engine than `DeliveryEngine` to be explored.
2. Several alerts in one `alert_pipeline` scene (the theorems cover them, the run has one).
