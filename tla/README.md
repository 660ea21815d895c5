# OntoDecide CE: verification project

TLA+ modules for the parts of OntoDecide CE where concurrency, crashes and
retries decide correctness, TLC runs on small instances, and TLAPS proofs.
Paths below are relative to the repository root (`src/` here).

## 1. The system

OntoDecide CE is seven Cloudflare Workers, a web application and a B2 bucket.
Each Worker owns one D1 database (SQLite; a statement or a `batch` is atomic,
two statements are not) and talks to the others by RPC. There are no locks:
any two requests interleave at every `await`, a request may be killed at any
of them, and cron invocations may overlap. Correctness rests on guarded
statements (`WHERE version = ?`, `WHERE updated_at = ?`, counts inside an
`INSERT ... SELECT`), on idempotency keys and on an outbox.

| component | state | operations | correct when |
|---|---|---|---|
| identity: tenancy and archive saga (`packages/identity/application/tenancy`) | `workspace`, `purge_ledger`, `archive_index`, refresh sessions, staging parts and ZIPs in B2 | trial end (owner, admin, cron), `archiveTick`, final delete, orphan sweep | nothing is purged before the owner is told; everything purged is in the archive; every ended trial is erased in the end |
| identity: sign-in (`application/identity`) | pending codes, daily limits, sessions, passkeys | issue and verify codes, sign-up, refresh, logout | limits hold under concurrency; a rotated refresh token works once; no session outlives its trial |
| identity: admin, audit, maintenance (`application/platform_admin`) | audit chain, ops flags, pending changes, usage counters | `/admin` writes under an idempotency key, chain append, daily anchor | one row per key, one unbroken chain |
| ontology (`packages/ontology`) | workspace schema with etag; compiled cache per isolate | copy template, change definition, compile | edits do not overwrite each other; a cached schema belongs to its etag |
| integration (`packages/integration`) | import jobs, batches, rejects, daily row counter | create, map, batch, stop, sample | rows count once, within job and day |
| object-graph (`packages/object-graph`) | objects, property index, links, action log, outbox | `upsertBatch`, `patchObject`, `applyAction`, clear, outbox cron | limits hold, index and links agree with the objects, guarded writes are never lost, every change reaches the queue |
| situation (`packages/situation`) | a Durable Object per workspace: object cache, KPIs, automations, alerts, event buffer, tickets | queue consumer, scheduled evaluation, alert handling, stream | the cache follows the graph; one active alert per automation and object |
| decision (`packages/decision`) | scenarios, recommendations, AI usage | simulate, generate, decide and execute, expire, clear | one decision, acted on at most once, only if confirmed |
| api-gateway (`apps/api-gateway`) | Act-as cache | routing, authentication, `POST /workspace/clear` over five Workers | a failed clear can be repeated |
| web (`apps/web`) | client caches, stream leadership | upload in batches, WebSocket with polling fallback | it repeats only what is idempotent |

Interactions: the gateway calls every Worker; decision executes through
object-graph's `applyAction`; integration writes through `upsertBatch`;
object-graph tells situation through the domain-events queue (at least once,
unordered); the archive saga calls `exportTenant`, `purgeTenant` and
`countTenant` of the five data-owning Workers, B2 and the mailer; purged
services keep a tombstone against late writes.

What is hard here, and hardly reached by the unit and e2e tests, which run
one request at a time:

* overlapping cron ticks and requests that planned from a stale read;
* a request killed between two statements, or between a commit and an RPC;
* an RPC whose answer is lost although it committed, and its retry;
* time: tokens that outlive a trial, mails deferred for days, bucket rules;
* limits checked by several requests at once;
* clears and deletions that run beside the operations they sweep up after.

`PROJECT.json` lists these hazards line by line.

## 2. Modules

| module | models | instance |
|---|---|---|
| `ArchiveSaga` | the end of a trial | `MCArchiveSaga` |
| `TrialLifecycle` | what the saga promises the owner; abstract | |
| `ArchiveSagaProofs` | theorems about `ArchiveSaga`, its refinement and the archive's content | |
| `RecommendationProofs`, `ObjectGraphProofs`, `ImportJobProofs`, `SituationRoomProofs`, `SignInProofs`, `OntologyProofs`, `PlatformAdminProofs` | theorems about the modules they are named after | |
| `Recommendation` | deciding and executing a recommendation, across decision and object-graph | `MCRecommendation` |
| `ObjectGraph` | the writes of one workspace's graph, and the outbox | `MCObjectGraph` |
| `ImportJob` | import jobs and sample loads, with the browser's upload runner | `MCImportJob` |
| `SituationRoom` | the Durable Object that follows the graph | `MCSituationRoom` |
| `SignIn` | codes, sign-up, sessions, and the tabs that share a cookie | `MCSignIn` |
| `LiveStream` | the room's realtime messages, the stream client and its tabs | `MCLiveStream` |
| `Ontology` | the workspace's schema, its cache, and the page that edits it | `MCOntology` |
| `PlatformAdmin` | the administrator's second factor, writes, audit chain and delayed changes | `MCPlatformAdmin` |

One rule in all of them: **a D1 statement or batch, an RPC, a bucket or a
queue call is one step**, and whatever a request holds in local variables
between two of them is state of that request. Between two steps anything else
may run. A Durable Object is different: its own storage is synchronous to it,
so a step of the room is the code between two awaits of another service.

In the later modules a request that is refused before it writes changes
nothing and is a stuttering step. Their instances are cut by *workloads*: the
initial state picks one, and it says who is at work and how often each kind of
step may still happen (`left`). A workload is a bound, never a guard of the
code.

A definition named after another with a suffix (`ReferencesToFew`), most with
"Mutant" in their comment, is a deliberately wrong variant of it; the list
"mutants" in `PROJECT.json` says which property it breaks.

### ArchiveSaga

State: `ws`, `delMode`, `age` are the `workspace` row; `sessions` the owner's
refresh sessions; `rows`, `tomb` what the services hold; `ledger` is
`purge_ledger` (phase, mode, export service and cursor, staged parts, purge
service, `updated_at`); `staging`, `zip` are B2; `index` is `archive_index`.
A tick `k` has the next call `pc[k]`, the tenant `at[k]`, the ledger it read
`copy[k]`, the ledger it is about to write `plan[k]`, the page or ZIP in hand
`buf[k]` and the mailer's answer `ok[k]`. `writes` are the owner's requests
between their checks and their commit. `told`, `zipped`, `late` and `moved` are
history variables for the properties.

Actions follow `archive_saga_service.ts` method by method: `ReadLedger` and
`StepOf` (`tick`, `step`); `Start`, `Count`, `Create`, `Mark` (`start`,
`resume`); `SkipExport`, `ReadPage`, `StagePart` (`exportStep`); `ReadParts`,
`PutZip`, `HeadZip`, `Unstage` (`zipStep`); `Mail`, `MailZipGone`,
`UpsertIndex`, `Send`, `MailResult` (`mailStep`); `PurgeBudget`, `Purge`,
`WriteTombstone` (`purgeStep`); `Verify`, `DeleteAccount`, `KeepLedger`,
`DeleteLedger` (`deleteAccountStep`); `Patch` is the compare-and-set on
`updated_at`; `Throw`/`Catch` is the `catch` of `tick` and `Die` a killed
invocation. Beside the ticks: `StartWrite`, `CommitWrite`, `SignIn`, `EndTrial`,
`SetTrialExpiry`, `DeleteUser`/`DeleteUserEnd`, the final delete
(`FindArchive`, `DeleteZip`, `DeleteIndex`) by cron or a person,
`DeleteOrphans`, the bucket's lifecycle rules, and `Advance` for time.

A write of the owner is two steps, as in the code. `StartWrite` checks the
access token (good while the trial runs and `TokenTtl` after) and, in the
services of `Checked`, reads the tombstone: object-graph's `upsertObjects`,
`applyAction` and `clear` read it with their counts. `CommitWrite` stores the
row later, by a batch that does not ask again, unless the service is in
`Guarded`: ontology tests the tombstone in the statement, situation in the same
synchronous code. (`patchObject` reads none, and adds no row; integration and
decision read none at all.) Between the two steps the service may be purged,
get its tombstone and be counted. A row stored behind a tombstone is put into
`late[t]`. How long a request may hang is not said by the code: `RequestTtl` is
what `limits.ts:55` allows for it in `archiveDelayMin` ("access token TTL + 1
min"), `Grace` is the sum, and `Advance` waits for requests to end within it.

Abstracted: the sign-in, whose session is stored in the step that reads the
workspace (module `SignIn` takes it apart; a session after the account's
deletion is refused by a foreign key); file contents to sets of rows, sizes to a
number of rows that fit (`ZipRows`), time to saturating ages, the daily purge budget to "may be
exhausted now". `noteFailure`/`clearFailure` only feed an alert and are left
out.

### TrialLifecycle

Four things an owner may count on, without ticks, ledgers, services or a
bucket: `stage` (kept, noticed, closed), the `data` held, and who has
`access`. Data is destroyed only after the notice; the account is closed only
when no data is left; what is closed takes neither data nor sign-ins again.
`ArchiveSaga` instantiates it (`Lifecycle`, with `LifecycleKept` as the
property): `data` is `rows` without those in `late` (`AccountDeletedClean`
says when there are any), `access` is `sessions`, and `stage` is "closed"
when the workspace row is gone, else "noticed" when the owner was told, the
tenant is left by an older version or the saga has begun and is past
`archiveDays` (`Cleared`), else "kept".

### Recommendation

State: `rec` (the `dec_recommendation` rows), `log` (`og_action_log`), `obj`
(versions of the target objects), `calls` (decide calls in flight) and
`applies` (applyAction requests in flight; an abandoned request runs on).
Actions: `Generate`, `ExpireOnRead`; `Decide`, `Read`, `Expire`, `Claim`,
`Reread`, `Begin`, `Load`, `Send`, `RpcFails`, `Finish` (`Decide.execute`,
`replay`, `run`); `FindByKey`, `ReadTarget`, `Refuse`, `CommitAction`,
`ReplayAgain` (`applyAction`); `Touch` and `Import` for other writers of the
object; `ClearDecisions`, `ClearObjects`, `ClearStops`; `Die`.

### ObjectGraph

State: `objs` (by rid: properties and version), `idx` (property index),
`links`, `outbox`, `sent` (queue messages), `writers` (requests with what they
have read), `cron`; `changes` and `revived` are history variables. A rid is a
key and the request that made it. Actions: `Begin`, `ReadCounts`, `ReadObjects` (the two
reads of a `Promise.all` come in any order), `ReadLinks`; `CommitUpsert` (the
whole batch: objects under the limit, index, links with ends and limit,
outbox row), `Refuse`, `CommitGuarded` (`commitPatch`, `commitAction`),
`ClearAll`; `Publish`, `DeleteRow` (`deliver`); `CronRead`, `CronPublish`,
`CronDelete`; `Stop` and `CronStop` for killed invocations and failed sends.
`PlanObjects` and `PlanLinks` are `planUpsert`.

Abstracted: one object type and one link type, small value sets, validation
and preconditions (a refused request changes nothing).

### ImportJob

State: `jobs` (`int_job`), `stored` (`int_batch`), `rejects`, `usage` and
`seeds` (`int_usage`), `graph` (keys of the objects), `template`, the requests
`reqs` on the server, and `up`, the page's `UploadState`. Actions:
`RunnerStep` is `runUpload` (create, map, send, split after 413, retry, resume,
cancel); `ServerStep` the handlers between statements (`createImport`'s
reservation and insert, `setMapping`, `submitBatch`: status check, mapping,
upsert, `commitBatch`, refund; `loadSample`); `CreateUndo`, `SampleFail` their
`catch`; `LoseAnswer`, `Kill` the faults; `SendAny` a script with its own
order of batches; `EditMapping`, `GoStale` (`expireStale`), `NextDay`;
`ClearImports`, `ClearObjects`, `ClearTemplate` the steps of
`clearWorkspaceBff`. Abstracted: cell values and transforms (a row is a key or
is refused), links, saved mappings.

### SituationRoom

State: `graph`, `template`, `events` and `queue` are the outside; `room` is the
object's storage (cache, KPIs, rules, alerts, seen events, tombstone, flags),
`alarm` its one alarm, `inits` and `initializing` the attempt that callers
share, `work` the consumers and `calls` the people. Actions: `Write` (a graph
change and its event), `Service` (deliveries, reads of changed objects, the
pages of an initialization and its install), `FailRead`, `FailInit`,
`StartCall`, `CheckType`, `CommitRule`, `Acknowledge`, `ResetForTemplate`,
`ClearGraph`, `ClearRoom`, `Ring`, `RunAlarm`, `CloseStreams`, `PurgeRoom`,
`Tick`. History variables: `missed` (the objects of which an overtaken read was
stored, section 3; `late` in a consumer or an attempt is what was written since
it read) and `unarmed`. Abstracted: one object type with two properties, alert
texts, all trend points but the latest, the dedupe window of a day.

### SignIn

State: `limit`, `pending`, `account`, `workspace`, `usage`, `session`,
`rotated` are the tables; `req` the requests; `jar`, `tab`, `webLock` the
browser. Actions: `SendCode`, `Submit` and `CodeStep` (`issue`, `verify` and
its failure path in separate statements, `signUp`, `login`, `terminate`),
`WantRefresh`, `SendRefresh`, `RefreshStep`, `Answer`, `LoseRefresh`,
`Logout`, `Expire`, `RevokeUser`, `AdminActs`, `ToggleSignup`, `Sweep`.
Secrets are fresh numbers. Abstracted: one IP address, one sign-up switch,
Turnstile, the administrator's own sign-in.

### LiveStream

State: the room's last number `maxSeq`, its sockets `listed`, the connections
`conns` with what is under way, and per tab the hub, the client and what it
shows. Actions follow `ws_client.ts` (`Connect` within `Retry`,
`TicketIssued`, `Deliver`, `PollRead`, `PollAnswered`, `Recheck`,
`TurnedAway`), `stream_hub.ts` (`Grant`, `Hear`, `SetVisible`, `HiddenLong`,
`StopTab`), `frame_batcher.ts` (`Flush`) and the room's `ws_hub`/`stream`
(`Accept`, `SendSnapshot`, `ReceiveResume`, `NoticeGone`, `EndTrial`).
Abstracted: one user, the delays of timers, heartbeats (a connection may just
break), the badge, browsers without Web Locks.

### Ontology

State: `row` (`ont_workspace_schema`), `tomb`, `cache` (one isolate's compiled
schemas), `req` and `page`. Actions: `Fetch`, `Edit`, `Discard`, `Save`,
`Delete`, `AnswerPage` (with the 412 conflict), `LoseAnswer` for the page;
`LoadForEdit` and `Write` for put and delete (read, validate, write under
`WHERE etag`); `StartTemplate`, `LoadForTemplate`, `AnswerLoader` for
`setTemplate` (which validates what it writes); `Head`, `LoadRow`, `ReadDone`, `Evict` for `getCompiledSchema`
and its cache; `Purge`.
`ValidateOntology` and `ReferencesTo` translate the reference rules of
`validation.ts`. Abstracted: a compiled schema is the definition it was
compiled from; a body is what it names. A template's definitions are
well-formed by assumption, as the packs of the repository are.

### PlatformAdmin

State: `settings`, `domains`, `audit`, `passkeys`, `setupUsed`, `codes`,
`challenges`, `sessions`, `changes`, `address`; `req` and `cron`. Actions:
`Begin` and `RequestNext` (`idempotent`, `patchSettings`, `putBlockedDomains`,
`AuditChain.append` with its retries, setup, register, assert, recover, remove
passkey), `RegistrationOptions`, `AssertionOptions`, `RequestChange`,
`CronNextStep` (`pendingChanges`: notify, apply, mark), `Die`, `CronDies`,
`SweepAudit`, `Tick`. Requests read clocks that disagree. Abstracted:
`row_hash` to the row's id, the e-mail code and the step-up (further guards of
the same kind), expiry of challenges.

## 3. Runs

Each run asks one question of one component; a property with several parts is
a conjunction of named parts, defined at the end of its module.

| run | instance | properties |
|---|---|---|
| `saga_one` | 1 workspace, 1 tick at a time, 1 fault, 2 rows, 2 parts; cron and person delete archives | `SagaWellFormed` (shape; staged parts stay within the cap); `NoticeBeforePurge`; `NothingLostUnarchived`; `EventuallyErased` |
| `saga_overlap` | 1 workspace, 2 overlapping ticks, admin extends the trial, requests that commit behind the tombstone | `AccountDeletedClean` (no session and no row from before a tombstone; none at all where nobody extended the trial while a tick opened its saga); `NothingUndone` (a tick that overslept moves no saga back and replaces no ZIP by less); `LifecycleKept` (refinement) |
| `rec` | 1 recommendation, 2 callers, 2 keys, a death, a lost answer, a clear | `ActsOnce` (one execution, only confirmed); `OutcomeTrue` (Executed is in the log, history complete); `DecisionFinal`; `ConfirmedSettles` |
| `graph` | imports of 2 writers competing for the last places; patches, actions and a clear among imports; an import and an action with a clear between their reads and commits (3 writers) | `LimitsKept`; `GraphConsistent` (index, links and events agree with the objects); `GuardedWriteCurrent`; `OutboxDrains` |
| `import` | a file of 3 rows, one key twice, batches of 2, 1 fault; also a script, sample loads, a clear | `ImportExact` (counters are the sums of the stored batches, a finished upload holds each row once); `RowsCharged`; `EndsForGood` |
| `room` | 2 objects, 2 consumers, 2 callers, 3 ticks, 2 initializations | `DerivedMatchesCache`; `CacheFresh`; `TimersKept`; `TombstoneEmpty`; `WaitersServed` |
| `signin` | 2 addresses, 2 requests, 2 tabs, 2 ticks | `LimitsExact`; `TokensSpent`; `EndedNotRefreshed`; `RefreshShared` |
| `stream` | 2 tabs of one browser, 1 of another, limit 2, replay buffer 1 | `OneConnection`; `StreamInOrder`; `CatchesUp`; `PausedIffHidden` |
| `ontology` | 2 editing pages, a loader, a reader, 5 definitions | `StoreSound` (valid, purged stays gone, deletions refused exactly when needed); `ServedFresh`; `EditsAddUp` |
| `admin` | 2 requests, 2 keys, 2 append retries, 2 recovery codes, cool-down of 1 tick | `LogSound`; `SentTwiceCountsOnce`; `EditsWhatWasSeen`; `SecondFactorKept`; `NoticedFirst` and `ChangesApplied` |

Two runs show behaviour that contradicts what the repository says of itself;
`findings` in `PROJECT.json` quotes the lines:

* `saga_stale_candidate`: a trial the admin extends between the candidate's
  read and the ledger's insert is archived and deleted while ACTIVE.
* `rec_killed`: a call killed between `beginExecution` and `finishExecution`
  leaves the recommendation Confirmed for ever.

### What the properties except

A property says what the code keeps; where the code gives something up, the
property names the condition, in the module, and this list says why.

* `NothingUndone`: the ZIP half is about two overlapping invocations. With a
  third, one asleep in `exportStep` before it reads its page and one in
  `zipStep` before it reads the parts, both until the purge has begun, the first
  stages the emptied page again, the second finds all parts and puts a ZIP of
  them over the archive that was mailed. Their patches are refused by
  `updated_at`; the objects they have put stay. TLC finds this with a `Ticks`
  of three in `saga_overlap`, with two parts; every part takes an invocation of
  its own that sleeps for minutes, and there is one per service at least. The other half, `SagaForward`,
  is proved for any number.
  Of a workspace in `moved` the ZIP half says nothing: its admin extended the
  trial while a tick was opening its saga, so that rows may be stored between
  two exports of which the slower one is uploaded last.
* `NothingLostUnarchived`: as long as the admin moves no trial end
  (`AdminExtends`); run `saga_stale_candidate` is the case where he does.
* `AccountDeletedClean`, `LifecycleKept`: a row stored behind a tombstone
  (`late`) may outlive the account. It is there only after the admin extended
  the trial while a tick was opening its saga (`moved`), the same race as in
  `saga_stale_candidate`; otherwise every token and the requests it let in have
  ended before the first tombstone. TLC reaches such rows in `saga_overlap`.
* `CacheFresh`, alerts in `DerivedMatchesCache`: not for the objects in
  `missed`, nor between the clear of the graph and of the room. The room
  compares no versions: what it stores of an object is what it read, however
  long ago. `missed` holds the objects of which it stored a read older than an
  event it had seen, or saw together with it, in four ways: two consumers store
  their reads in the other order; an initialization installs pages that it had
  read before the change, while the consumer of the event waits for it and then
  marks it seen; that consumer waits for an attempt that installs nothing
  because another one was first; a deleted object stays in a cache that a reset
  kept. The ghost looks only at the order of reads and events (`late` of a
  consumer or an attempt), not at whether cache and graph differ, and overlap
  alone excuses nothing: a delivery that meets an initialization is checked
  like any other.
* `LimitsExact`: sends and sign-ups are exact. The attempts of a code and the
  failures of an address are compared with their limits in one statement and
  counted in another, so requests at once exceed them; `GuessesBounded` and
  `FailuresBounded` say by how much at most, one less than there are requests
  (for failures: where a lock lasts a day, as in the code). Requests of
  `SignIn` are not killed.
* `SentTwiceCountsOnce` speaks of answers that succeed. Of two copies of an
  edit of the settings at work at once the second may be refused with 412,
  since the version its page showed has moved; it has then applied nothing.
* `LimitsKept`: the link limit only among imports. `commitAction` counts links
  before its batch, so two actions may both take the last one. Objects in
  `revived` are not counted, and links from them may end nowhere
  (`GraphConsistent`); a write of one may pass with the version of the object
  it was before the clear (`GuardedWriteCurrent`). See below.
* `SecondFactorKept`: an administrator always has a way in, except after a
  setup killed between its flag and its passkey (until operations reset); shown
  recovery codes stand, except when two passkeys are added at once (`clean`).
* `RefreshShared`: a live session is revoked as replayed only after the answer
  of a refresh was lost (`lost`).
* `RowsCharged` and row numbers in `ImportExact`: for the web runner. A script
  that sends batches at once may import more rows than it reserved, and a
  batch's row numbers are counted from the batches stored before it.
* `ConfirmedSettles`: while no call is killed (see `rec_killed`).
* `SentTwiceCountsOnce` needs the audit row of a key to outlive its repeats;
  the retention is months, a repeat comes within minutes.

### Met while modelling, not findings

Behaviour a maintainer may want to know, which no line of the repository
denies or which no run here isolates:

* object-graph: an import that found an object, and commits after a clear
  deleted it, inserts it again: its row has no number among the new ones, so
  the limit is not asked (`n IS NULL OR ...`, `d1_object_writer.ts:103-106`),
  and its version starts at 1. The workspace may so hold more objects than the
  limit, where `d1_object_writer.ts:4-6` says that concurrent batches never
  exceed it, and a patch or an action that read version 1 before the clear
  passes its version guard on the new object. `revived` marks these objects.
  This came out of the proof of `LimitsKept`: with two requests no run could
  reach it.
* object-graph: a batch writes back properties it does not name, with the
  value it read (`d1_object_writer.ts:115`).
* shared kernel: `tombstone.ts:2-4` says a service "drops late requests", but
  a request that read no tombstone in object-graph commits behind one
  (`d1_object_writer.ts:79-202` does not ask), and integration and decision
  never ask. What keeps a trial's end clean is `archiveDelayMin`, not the
  tombstone; run `saga_overlap` excepts just these rows (`late`).
* situation: `process_situation_event.ts:62-64` marks events seen because the
  initialization "already includes these changes". It does not when the
  delivery joins an attempt that had read the page of the object before the
  change: the cache then stays behind until a later event of that object. So it
  does after two consumers that overlap, and after events that are
  dead-lettered.
* identity: `otp.ts:3` promises at most 5 attempts per code. `verify` compares
  (`otp_service.ts:121-124`) and counts later (130-132), so n wrong codes
  submitted at once are n - 1 guesses more.
* identity: a late check of a code may delete a newer code
  (`otp_service.ts:134`); `mailStep` inserts the index row of an archive that a
  person deleted since its HEAD (`archive_saga_service.ts:428`); after
  24 h of failing mails, notice and application of an operations' change fall
  into one cron run, and a cron killed before `markApplied` applies a reset
  again; a killed request or a busy audit chain leaves a write without its
  audit row; adding and deleting a passkey are not idempotent.
* web: an answer of 401 that comes late clears a newer cookie; a polled
  overview replaces newer data (`stream.ts`); a client whose connection was
  evicted for the limit (4408, `ws_client.ts:279`) dials again and evicts
  another; after a trial is extended a stopped
  stream stays dead until the page is loaded again; loading a sample discards
  custom types; the ontology page wants a hinted property on the target type
  where the server accepts it on any.

### Bounds

Every bound is a constant or a field of a workload with a name. Two actors are enough for every race on
one row, since each guard compares with what one other actor did; a limit is
set just above what is there at the start, so that the last place is
contended; counters of attempts and retries are 1 or 2, so that the last one
is reached. `MaxWrites` lies well above a complete saga. Ages, ticks and
versions saturate or stop one past the largest value they are compared with.
Two services suffice for the export and purge orders, one of them paged. The
workloads of `ImportJob`, `SituationRoom`, `SignIn`, `LiveStream`, `Ontology`
and `PlatformAdmin` each put together the steps that conflict: a workload
leaves out what does not touch the same rows, because all of them at once is
out of reach. So a hazard of three kinds of step in different workloads is not
covered.

Symmetry is used for the ticks of `saga_overlap` and the pages of `ontology`,
which check no liveness.

CHECK_DEADLOCK is off where the system may come to rest: an erased workspace
has nothing left to do, and the other instances stop when their workload is
used up.

### Fairness

* `ArchiveSaga`: the cron fires every few minutes, so the steps of ticks, the
  expiry of due trials, the cron's final delete and the orphan sweep are
  weakly fair, and time passes; a request that has begun commits or fails. Owner, admin and faults owe nothing; faults
  are finite.
* `Recommendation`: the runtime finishes a call it does not kill, and an
  applyAction request; nobody has to call again.
* `ObjectGraph`: only the cron is fair. Requests may stop anywhere.
* `ImportJob`: the server finishes or is killed (a fault); the runner's timers
  fire. Nobody has to resume an upload.
* `SignIn`: a running request goes on, its answer arrives unless it is lost,
  and a browser grants a free Web Lock to a waiting tab.
* `LiveStream`: timers fire, requests are answered, messages on a connection
  that holds are delivered, a free lock is granted, a batch is rendered.
* `PlatformAdmin`: time passes and the cron runs every two minutes; people owe
  nothing.
* `SituationRoom` and `Ontology` check safety only.

## 4. Proofs

Each theorem holds for every value of the constants under the module's named
assumptions, which TLC evaluates on the instances: limits are numbers in the
order the code's configuration keeps, sets of actors are finite where they are
counted, `None` is none of the values it stands beside. Every inductive
invariant was checked by TLC on an instance before it was proved.

| theorems | module | property |
|---|---|---|
| `SagaWellFormedHolds`, `NoticeBeforePurgeHolds` | `ArchiveSagaProofs` | `SagaWellFormed`, `NoticeBeforePurge` |
| `AccountDeletedCleanHolds`, `LifecycleImplemented` | `ArchiveSagaProofs` | `AccountDeletedClean`, `LifecycleKept` |
| `SagaForwardHolds`, `NothingLostUnarchivedHolds` | `ArchiveSagaProofs` | `SagaForward` (half of `NothingUndone`), `NothingLostUnarchived` |
| `ActsOnceHolds`, `OutcomeIsTrue`, `DecisionsAreFinal` | `RecommendationProofs` | `ActsOnce`, `OutcomeTrue`, `DecisionFinal` |
| `LimitsHold`, `GraphStaysConsistent`, `GuardedWritesAreCurrent` | `ObjectGraphProofs` | `LimitsKept`, `GraphConsistent`, `GuardedWriteCurrent` |
| `WaitersServedHolds`, `TombstoneEmptyHolds`, `TimersKeptHolds` | `SituationRoomProofs` | `WaitersServed`, `TombstoneEmpty`, `TimersKept` |
| `DerivedMatchesCacheHolds`, `CacheFreshHolds` | `SituationRoomProofs` | `DerivedMatchesCache`, `CacheFresh` |
| `ImportExactHolds`, `RowsChargedHolds`, `FinishedStaysHolds` | `ImportJobProofs` | `ImportExact`, `RowsCharged`, `FinishedStays` (the safety half of `EndsForGood`) |
| `LimitsAreExact`, `TokensAreSpent`, `EndedStaysOut` | `SignInProofs` | `LimitsExact`, `TokensSpent`, `EndedNotRefreshed` |
| `StoreStaysSound`, `EditsNeverLost`, `ServedFreshHolds` | `OntologyProofs` | `StoreSound`, `EditsAddUp`, `ServedFresh` |
| `LogIsSound`, `SentTwiceIsOnce`, `NoticedBeforeApplied`, `OnlyWhatWasSeen`, `FactorIsKept` | `PlatformAdminProofs` | `LogSound`, `SentTwiceCountsOnce`, `NoticedFirst`, `EditsWhatWasSeen`, `SecondFactorKept` |

### The archive saga

The theorems of `ArchiveSagaProofs` hold for every number of workspaces,
overlapping ticks, services, rows and every value of the limits
(under `OrderAssumption`, `BoundAssumption` and `DelayAssumption` of
`ArchiveSaga`):

* `TypeCorrect`: `Spec => []TypeOK`.
* `StagingBoundedHolds`: `Spec => []StagingBounded`.
* `SagaWellFormedHolds`: both, as `saga_one` checks them.
* `NoticeBeforePurgeHolds`: `Spec => NoticeBeforePurge`.
* `AccountDeletedCleanHolds`: `Spec => []AccountDeletedClean`.
* `LifecycleImplemented`: `Spec => LifecycleKept`, that is, `ArchiveSaga`
  implements `TrialLifecycle`.
* `SagaForwardHolds`: `Spec => SagaForward`.
* `NothingLostUnarchivedHolds`: `~ AdminExtends /\ Spec =>
  NothingLostUnarchived`.

The first three need `TypeInv == TypeOK /\ RoomInv /\ PageInv`. `parts =<
MaxParts` is not inductive: a ledger with room for one part only and three
services still to export would overflow it. `RoomInv` says that every ledger,
stored, read or about to be written, leaves one part for each service still to
be exported; `IsLastAllowedPart` is exactly what keeps this, and `Len(
ExportOrder) =< MaxParts` what starts it. `PageInv` says that a tick that
reads a page has a service to read it from.

`NoticeBeforePurge` needs to know, at the moment a tick purges, that the owner was told
although the phase it acts on was read earlier and perhaps written by another
tick. `Entitled` is not stable
by itself: for a saga that has not begun, `start` reads a new `expired_at` and
the age begins again. `Cleared` is its stable form (told, left by an older
version, or begun and past `archiveDays`), and `Begun` says the ledger exists
or the account is gone. `NoticeInv` has a part for each workspace (`TenantInv`:
a ledger in a phase after the mail belongs to a cleared workspace) and one for
each tick (`TickInv`: what a tick has read or plans to write is covered in the
same way, and which phase its copy has at each call). `Stable` says that no
step undoes `Begun`, `Cleared` or `told`. The proof of a step goes action by action; the
lemmas `SameTickInv`, `SameTenants`, `OneTickMoves` and `NoTickMoves` carry over
what an action leaves alone, and `OnlyPurgeDeletes` shows that `Purge` is the
only action after which a row is missing.

The second section of `ArchiveSagaProofs` adds `SweepInv`: every service before the one a ledger is
purging has a tombstone, for the stored ledger, what a tick has read and what
it is about to write (`Swept`, `TenantSwept`, `TickSwept`). A step keeps it
because tombstones stay, and because a row that is new in a tombstoned service
is in `late` (`Growing`): once `Verify` has counted nothing in services that
all have tombstones, only such rows can come before the account goes, however
long the tick sleeps in between. That is the first half of
`AccountDeletedClean`, and the guard of `Close` in the abstract specification.
The second half, that there are no such rows in a workspace that was not moved,
is `QuietInv` below. The lemma `Moves` splits a step by what
the mapping sees of it (a row stored, access, a purge or the end, or none of
these); `LifecycleImplemented` takes each to one action of `TrialLifecycle` or
a stutter, with `NoticeInv` giving `Destroy` its guard. Tenants left ARCHIVING by an older version (`Legacy`)
occur in no run but in every theorem.

The last section is about ticks that overslept. Its first table, `LedgerStep`,
lists what a step can do to a stored ledger, and `TickTable` the five things a
step can do to a tick's own state; every later lemma goes through them instead
of through the actions. `StampInv` says that a stored ledger with the stamp a
tick has read is the ledger it has read, and that what a tick is about to write
lies ahead of what it read; `LedgerForward` follows for the compare-and-set of
`Patch`. `LagInv` (a tick is never ahead of its saga, while the account exists)
turns this into knowledge about ticks at work.

That nothing is purged unarchived is a chain of four facts. `QuietInv`: once a
saga is open, or a tick has picked its workspace (`Opened`), the trial has been
over for `Grace`, unless the admin extended it in between (`moved`), and a
request under way is younger than that (`InTime`). So there is none in that
workspace (`Quiet`): rows only go (`RowsGo`), none comes behind a tombstone
(`NoneLate`), and before the saga has left "exporting" none goes either
(`NoPurgeYet`). While it exports, the spots it passes, a service and a cursor
each, form a path `P[0], .., P[n]`, one page apart (`Path`); `Before` and
`Between` say which rows lie on it. Any tick that reads part `i`, now or
asleep since long ago, started from `P[i]`. As long as no row has gone its page
leads exactly to `P[i + 1]` (`Follows`); after that only the weaker `Reaches`
is stable: the rows left between the two spots still fit a page, so the page
has all of them or is marked truncated (`PageCovers`). `StageInv` says that
such a path exists for each open saga, that its ledger and its ticks are on it
and that every staged part covers its stretch; the step that takes a page at
the end of the path makes it longer (`Extend`). At the last spot all rows lie
before it, so the parts, if all are there, have what is left (`ExportWhole`),
and so does the ZIP, whichever tick packs it (`PackedWhole`, `KeptInv`). A row
that a purge deletes is one that was left. The full page arithmetic (`PageRead`,
`SmallPage`: fewer than a page's rows are all of them) is for every `PageRows`
and every finite set of rows, and the path is a witness in the proof only: no
variable holds it.

`~ AdminExtends` is needed at one place, `QuietNow`: then no workspace is ever
in `moved`. An end of trial that is moved while a tick opens the saga lets
tokens store rows behind the export, the race of `saga_stale_candidate`. The other constants are free; the
hypothesis is that of run `saga_one`.

### Recommendations

`IInv` of `RecommendationProofs` relates four places where one decision leaves
a trace: the row, the call that executes it, the `applyAction` requests it
started, and the action log. `KeyInv` is the heart: for each recommendation
there is one key such that its row, every call that runs it, every request and
every log entry are under that key (`ActsUnder`). With the log's uniqueness of
keys this gives `ActsOnce`; a call that was killed or whose answer was lost is
no exception, because what it left behind is under the same key. `RunInv` says
that one call at most is between `beginExecution` and `finishExecution`, which
rests on the guard of `beginExecution` alone; `CallInv` that what this call has
read (attempt, history) is still what the row says; `QuietInv` that nothing is
under way for a row that is undecided, rejected or expired. `RowInv` counts the
history: an entry per attempt, a success only in the last.

### The object graph

`ObjectCap` is not inductive: an import that planned from counts that are no
longer true numbers its new objects, and the statement compares the number
plus the count at that time with the limit. `RoomForAll` is the lemma: new
elements with different numbers, each of which leaves room among all there
are, never exceed the limit together. `IdInv` keeps rids apart (nothing bears
the number of a request that has committed nothing), `FoundInv` says that what
a request found is still there at a version no lower, and the same object at
the same version, unless a clear came; `GuardedWriteCurrent` is this at the
moment of the commit. Its first form was wrong: TLC with three requests and
the failing step of the proof both showed the revived object of section 3.
`EventInv` adds to `NoEventLost` that who delivers an event delivers every
object of the change, and deletes the row only after it was sent.

### Imports

`ImportInv` of `ImportJobProofs` is the conjunction of four parts. *Shape* is
the type invariant and what a request carries at each of its steps. *Counters*
(`CountInv`): the stored batches of a job have one seq each and its counters
are their sums. This is the decision of `commitBatch`: of two attempts with one
seq the later finds a row and counts nothing.

*The runner* (`RunnerInv`) is why a finished upload has every row once. The
stored batches are `Stacked`: batch `n` starts where the batches before it end,
there is no gap below it, and it was small enough for the gateway. Each batch
request on its way that will get through `Follows`: its rows start where the
stored batches with a smaller seq end, its snapshot has counted what is before
it, and what it has read of earlier batches is still what is stored. Where the
runner itself stands is `UpPlaced`: its plan tiles the file from row 1 to row
`N` (`Tiles`), what it was told is stored is stored, and every batch, stored
or on its way, is the plan's batch of that seq. Halving a batch that was too
large (`HalvedTiles`) moves every later batch by one place, which is sound
only because nothing at or after that place has ever got through: an earlier
attempt with the same seq had the same rows and was refused as well
(`HalvedStays`). `planBatches` tiles the file for every file and every batch
size (`PlanBatchesTile`): `SplitToFit` is a recursive function on the batches, and
its facts are derived from a least counterexample. At the end the stack has as
many batches as the plan, so they are the tiles, and each row is in one
(`Complete`). *Scripts* (`ScriptInv`): the script's workload never reports.

`RowsCharged` needs two more. *Reservations* (`PaidInv`): a day's counter holds
`N` for each job created for that day and `N` for each request that has
reserved and not yet inserted. The last batch of the runner leaves nothing
unused, so `Refund` never runs beside it, and `adjustCounter`'s floor at zero
is never met. *The seed budget* (`SeedInv`) holds the rows of the loads that
finished and of every load that still may: a request that has taken its rows
and not yet given them back has a job of its own, of the same size, that is
not done and that no other such request has (`Owns`). So the step that makes a
job DONE turns a charge that was held into one that stays, and the step that
gives rows back does so for a job that will never be DONE.

All of these rest on sums over finite sets. A fold takes the elements in the
order `CHOOSE` gives them; `SumOf` is that recursion written as a function, and
`PickInduction`, `SumTake`, `SumSame`, `SumWithin` and `SumChange` are what the
proofs use of it, for every finite set.

`ImportAssumption` says that no single row exceeds the limit the runner plans
with: `planBatches` throws on such a row before anything is sent. The gateway's
limit may be any number: a single row above it ends the upload (`TooLarge`).

### The situation room

`RoomInv` of `SituationRoomProofs` has four parts. *Waiting* (`LocalInv`): the
attempt that `rt.initializing` names is at work, and so is every attempt
somebody waits for. The first is needed for the second, because a call joins
the shared attempt; the second does not follow from it, because a reset, a
purge or the end of another attempt replaces or clears what is shared while
people still wait for the old one. *The room* (`RoomKept`): an empty room under
a tombstone; trends that are current unless a flush is on its way; no more
scheduled rules than the limit. Each piece of code that runs between two
awaits (`Applied`, `Install`, `Ran`, `Stored`, `Deleted`) has a lemma that it
keeps this. *The clock*, and *the alarm* (`AlarmInv`). `Effect` is what every
step does to the alarm: it sets it for what the room now holds (`Rearmed`), or
it leaves it and adds nothing to wake for (`Kept`), or the alarm rings.
`advanceRun` does find a slot after `now` (`NextRun`), so a run that is done is
never due again at once. `RoomAssumption` says of the definitions people give
that they have a trigger of the two kinds and a property of the object type.

`DataInv` is what the cached objects, KPIs and alerts rest on. *Events*
(`EventInv`): they are numbered without a gap, what waits in the queue has been
written, and no two consumers hold the same event. *The graph and its readers*
(`GraphInv`, `ReadInv`): what a consumer's answer, or the pages of an attempt,
can hold. *The room's data* (`RoomData`): KPIs are exact for the cache they
stand beside, alerts are well-formed, times are not in the future. The KPIs are
sums over the cache, kept by adding what one change takes away and brings; that
the difference is the right one is an equation on `MapThenSumSet`, reached by
unfolding the fold to a recursive function on sets whose facts the proof
derives by induction on finite sets. *Freshness* (`FreshInv`): what the
cache does not show yet of an object that is not in `missed` has an event the
room has not seen (`CacheShown`, with `Shown` and `Unseen`); what an answer in
hand or the pages of an attempt do not show has an event that came after the
read (`CurShown`, `FoundShown`, with `late` and `Numbered`); an alert that
disagrees with the cache waits for an event of its object (`AlertsShown`). So
when the last event of an object is marked seen, the change it announced is in
the cache, or the read that is being stored was overtaken, and the object enters
`missed`. Readers may overlap as they like. Steps that only note in `late` what
was written since are split off (`Marked`, `MarksMoveNobody`, `MarkedReads`);
`FreshKept` and `ReadsKept` carry the invariant over steps that see and read
nothing, and `FreshCleared` is the clear of the graph, which overtakes every
read.
`RoomAssumption` adds that the object of the graph's start is one of `Objects`.

### Sign-in

`IInv` of `SignInProofs` has a part for each hazard. *Sessions*: ids and
tokens are unique and below `fresh`, and an exchanged token is in no session
(`SessionInv`); `Rotates` compares the token in the row, so a second exchange
finds none. *Refresh after the end* (`LetThrough`): a request that has read
its account as usable commits a rotation only if the account still is, or the
deletion of its sessions is still due (`revoking`), because a ban and a trial's
end come before that deletion and nothing undoes it in between. *Failure
limit and attempts* (`LockInv`, `DropInv`): an address with the day's failures
used up is locked or some request is about to lock it, a code out of guesses
is gone or some request is about to drop it. This needs the count that
`recordFailure` returns to be its own, which is why the statement and not a
read before it decides. *Guesses* (`OverrunInv`): a request joins those
about to count a guess only when it saw the attempts below the limit, and
counting moves it from one side of `GuessesBounded` to the other. The failures of
a day are below the limit and one for each request about to lock the address
(`Locking`); once it is locked nobody joins. *Sign-ups*: the counter of a day is the number of
workspaces of that day (`SlotsCounted`); the proof adds one element to the set
counted where the batch adds one to the counter. *Session cap*: `NewestFew`
shows that of elements with different numbers the newest n are n at most.

### The ontology

`ReqOK` says of a write under way that it comes next after the version it read
(`WriteOK`), that the row may since have moved on but never back, and that as
long as the statement's `WHERE` still holds, what it changes is what it read:
`EditsAddUp` is that at the step. `StoreOK` gives `StoreSound`: what is written
was validated. `HistInv` (the history of versions, of the cache and of the
readers) gives `ServedFresh`: a reader remembers the version at its start, and
what a cache holds under a tag is what the store held under that tag.

### The administrator

`IInv` of `PlatformAdminProofs` says what each request carries between two of
its steps. *The chain* (`AuditInv`, `Ordered`): no two rows share a time. The row
a request is about to insert comes after the head it has read, because
`append` takes the later of its own clock and the head's next; the insert takes
place only while that head is still the last row, so the new row is the last
one and names its predecessor, whatever the clocks of the Workers say. *Repeats* (`KeyInv`): a key has one row, and an
answer given is the one in it; nothing is said of a copy that is refused.
*Evidence* (`UsedUp`): a challenge or recovery
code that some operation has used is not good any more, no other operation
holds it and no session was opened for it. The proof does not use the counter
of the authenticator, which `signCountOk` ignores where both sides are 0. *The version* (`Informed`): a
version is not below the one that was seen, equal versions are equal settings,
and the next one is greater; with the clock alone as version this is not
inductive, and the mutant `NextVersionNow` breaks it. *Delayed changes*
(`CronOK`, `ChangeInv`): whatever the cron holds was due when it was read, and
nothing makes a due change not due, so that a cron killed and started again
applies nothing early. *The way in* (`WayInv`): without setup code and
passkeys, either a setup is about to store one or a due reset will clear the
flag. That removals leave `MinPasskeys` is one statement that counts and
deletes; that a removal does take exactly one row is a fact about the
cardinality of finite sets.

`WorkloadAssumption` says of the bounds that a run sweeps no audit row within
the retention or repeats no confirmation: see `SentTwiceCountsOnce` in
section 3.

### Only model-checked

* Liveness under fairness (`EventuallyErased`, `ConfirmedSettles`,
  `OutboxDrains`, `EndsForGood`'s `UploadEnds`, `RefreshShared`, `CatchesUp`,
  `PausedIffHidden`, `ChangesApplied`): outside the prover's reach.
* The ZIP half of `NothingUndone`, which is about two ticks (section 3).
* `OneConnection` and `StreamInOrder` of `LiveStream`: what a tab shows
  (`Merged`) and whom the room tells (`Told` in `Push`, `Accept` and
  `EndTrial`) are a fold over a sequence and folds over sets of connections,
  whose facts would have to be proved first.

## 5. Not modelled

* Mapping, transforms, ontology compilation, propagation and candidate
  scoring: sequential computations on strings and floats, better served by the
  repository's unit tests. Models have their outcomes only.
* Queries, routing, user interface, deployment, cryptography.
* The AI neuron budget, the mail providers' routing and quotas, admin listings
  and reports, Act-as entries and the gateway's cache of them.
* The purge's exact daily row budget, the sweep of tombstones after 48 h and
  the alert after 24 h of failures.

Much of the repository's code is of the first two kinds, which keeps the share
of lines the models stand for low; `PROJECT.json` lists each part with its
reason.

## 6. Plan

1. `AiQuota`: reserve and settle in two steps, with killed calls.
2. The Act-as cache of the gateway beside revocation.
3. Proofs: `OneConnection` of `LiveStream`, with the recursion equations of
   `Told` and `Merged` as lemmas; then `NothingSkipped`.
4. An abstract specification of the import ("each row once, paid once") that
   `ImportJob` implements.
