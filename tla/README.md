# A formal model of relaydot

relaydot keeps the home-directory state of coding assistants in sync on a fleet
of machines. Each machine runs an **agent** (Python, `src/agent`); one
**controller** (TypeScript on SQLite, `src/apps/web`) enrolls devices, sends
them commands and shows usage; all agents exchange content through one shared
**WebDAV store**. This directory holds TLA+ models of its core, the TLC
configurations that check them on small instances and TLAPS proofs of their main
properties for every size.

All source paths below are relative to `src/`; agent files are in
`agent/src/relaydot/`, controller files in `apps/web/src/lib/`.

## Inventory

| component | state | operations | what makes it hard | correct means |
|---|---|---|---|---|
| Sync engine: `sync.py`, `manifest.py`, `streams.py`, agent `webdav.py` | live files, `sync-state.json` (`uploaded`, `applied`), the store's objects and manifests | `run_sync`: inventory, publish, pull, plan, apply, save | no lock and no server logic: devices race through the store, users write at any time, uploads are cut short, a run dies anywhere | manifests list only what can be fetched; nothing a user wrote is lost; unpublished edits are not replaced; logs only grow; devices converge |
| Staged apply: `apply.py` | work, backup and recovery directories | `atomic_apply` | several paths, failure and crash between any two | all or nothing; what is replaced is kept |
| Command bus: `store.ts`, `api.ts`, `controller.py` | `commands` and `audit_events` rows; the batch an agent holds | create, claim, acknowledge; `run_once`, `run_forever` | lost answers, late requests, restarts, two processes of one device | at most one execution, true and final outcomes, order |
| Usage ingest: `ingest.ts`, `usage-parse.ts` | `usage_facts`, `ingested_objects`, `ingest_runs` | `ingestUsage`, `runIngest`, parse | awaits between reading rates and using them; grown logs read again | a fact is counted once, at the approved rate |
| Prices and catalog: `prices.ts`, `catalog.ts`, `store.ts` | `model_prices`, `catalog_models`, checks | seed, approve, withdraw, reprice, refresh, review | rate changes race with ingest and restarts | stored cost agrees with the approved rate |
| Job queue and schedules: `worker.ts`, `store.ts` | queue rows, schedules | enqueue, claim, ack, retry, register | visibility timeout, retries, restart | no job lost, effects once |
| Storage backend: `storage.ts`, `api.ts`, `store.ts` | one `storage_backends` row | save, probe, delete | a probe answers after another backend was saved | verified means this backend was probed |
| Enrollment: `store.ts`, `security.ts` | tokens, devices | create token, enroll, authenticate | token races, lost answer | a token enrolls one device |
| Administrator sessions: `session.ts`, `store.ts` | `admin_sessions` | create, authenticate, revoke, purge | expiry and revocation against use | a revoked or expired session is never accepted |
| Merge, ignore rules, policy: `merge.py`, `ignore.py`, `policy.py`, `paths.py` | none | pure functions | order of rules, three-way merge | agree with a reference definition |
| Migrations: `migrations.ts`, `store.ts` | schema version | apply | crash between two | applied once, in order |
| Analytics, configuration and fetch: `analytics.ts`, `yaml-lite.ts`, `catalog.ts` | none | `summarizeUsage`, `parseYaml`, `fetchLimited` | edges of windows and indentation, chains of redirects | grouping keeps totals; nothing read is lost; requests stay on allowed hosts |
| Everything else: dashboard, routes, crypto, bundles, CLI, infrastructure scripts | none or read-only | formatting, queries | no concurrency of their own | outside this project |

Interaction: an administrator creates a *command* (HTTP); an agent claims it,
runs it — for `sync`, one pass of the sync engine over the shared store — and
acknowledges it. The controller's worker reads the same store's manifests and
objects for usage ingest. A store method is synchronous on one SQLite
connection, so it is one atomic step; agents share no lock with anything.

`PROJECT.json` lists the hazards of this code line by line, with the properties
that cover each or the reason none does yet.

## Plan

1. `AgentSync`, `SharedStore`: the sync engine and the contract it owes the
   store. **Done**, with proofs.
2. `CommandBus`. **Done**, with proofs.
3. `UsageLedger`: ingest runs, rates, review queue, catalog checks, worker, job
   queue, restarts, in one module because they write the same rows between each
   other's awaits. **Done**, with proofs of all its safety properties.
4. `ControllerApi`, `Enrollment`: sign-in, sessions, enrollment, the storage
   backend, and the abstract single-use token. **Done**, with proofs.
5. `UsageParse`, `UsageReport`, `YamlLite`, `CatalogConfig`, `CatalogFetch`, composed by
   `Readers`: the controller's readers against reference definitions. **Done**,
   with proofs of all its properties.
6. `AtomicApply`: `apply.py` step by step, with deletes, a rollback that fails
   half-way, an interruption that is not an `Exception`; an abstract
   all-or-nothing apply it refines while the rollback succeeds.
7. A second run of `AgentSync` on one device (`sync now` beside the service),
   and a peer manifest that stays unreadable.
8. Ignore rules and three-way merge of the agent; migrations.

Theorem still to prove: that step 6 refines the abstract apply.

## Modules

| module | what it is |
|---|---|
| `AgentSync` | the fleet: users, runs of `run_sync`, failures; all sync properties; the mutated operators the properties are tested with |
| `SharedStore` | the abstract contract of the store; `AgentSync` implements it (`Contract == INSTANCE SharedStore`, objects and manifests mapped by name) |
| `MCAgentSync` | symmetry for TLC |
| `AgentSyncProofs`, `AgentSyncSafety` | TLAPS proofs about `AgentSync` |
| `CommandBus` | commands table, agent processes, lossy HTTP |
| `MCCommandBus` | model-checking extension for the command runs |
| `CommandBusProofs` | TLAPS proofs about `CommandBus` |
| `UsageLedger` | ingest runs, prices, review queue, catalog checks, worker and job queue |
| `MCUsageLedger` | its instances; checks that what their entries yield is what `UsageParse` makes of concrete logs |
| `UsageLedgerProofs` | TLAPS proofs about `UsageLedger` |
| `ControllerApi` | requests of operators and devices: sessions, throttle, enrollment, storage backend |
| `Enrollment` | the abstract single-use token; `ControllerApi` implements it (`Promise == INSTANCE Enrollment`) |
| `MCControllerApi`, `ControllerApiProofs` | symmetry and request mixes for TLC; TLAPS proofs |
| `UsageParse`, `UsageReport` | the log parsers; costs and dashboard totals |
| `YamlLite`, `CatalogConfig`, `CatalogFetch` | the configuration reader; what the declared sources allow; a check of an endpoint under these limits, with redirects |
| `Readers` | growing logs, configuration file and replies for the parsers, the report, the configuration reader and the catalog check, and the properties of what they read |
| `MCReaders` | lines, files, replies and rates for TLC |
| `ReadersProofs`, `YamlProofs` | TLAPS proofs about `Readers`; the second about the configuration file |
| `FoldTheory` | folds of sequences and of functions over finite sets, for those proofs |

### AgentSync and the code

A file's content is the sequence of edits that made it; each edit has its own
number, so equality and prefix of sequences are equality and prefix of bytes,
and a digest is the content itself. `-e` at the end is a record (or object) of
which only a part is written. A Python dict keyed by path is a total function
with `None` for absent keys.

| variable | code |
|---|---|
| `live[d]` | the files under the sync root, with `st_mtime` in whole seconds |
| `copies[d]` | files written under a conflict name |
| `kept[d]` | recovery directories, and work directories left by a dead process |
| `objects`, `torn`, `manifests` | `objects/<digest>` (intact or truncated) and `manifests/<device>.json` |
| `saved[d]`, `mem[d]` | `sync-state.json`, and the `SyncState` of the run |
| `run[d]` | the locals of the run, with `pc` its phase and `todo` the rest of its loop |

| actions | code |
|---|---|
| `BuildManifest` | `AgentService._sync`: inventory, `SyncState.load` |
| `PublishNothing`, `PublishPresent`, `Upload`, `UploadFails` | one iteration of the loop of `publish` |
| `Announce`, `AnnounceFails` | PUT of the manifest |
| `ReadPeer`, `StartPlan` | `_read_peer_manifests` and `_winners`, one peer at a time |
| `PlanTake`, `PlanConflict`, `PlanNothing`, `FetchFails` | one iteration of the loop of `pull` |
| `Stage`, `Replace`, `AddCopy`, `FinishApply`, `ApplyFails`, `CrashInApply` | `atomic_apply`: staging with backup, each `os.replace`, the recovery directory, rollback, death |
| `SaveState`, `Crash` | `state.save()`; the run raises or dies before it |
| `Edit`, `BeginRecord`, `EndRecord`, `Delete`, `Tick` | users, sessions that append to logs, the clock |
| `SwitchBackend` | the operator saves another, empty backend |

Each request and each file operation of a run is a step of its own, so users and
other devices act between any two. Snapshots (`read_snapshot`) are atomic: the
code retries while a file changes and hashes exactly what it returns.

Abstractions: one root; no symlinks, no managed-path and peer bookkeeping;
conflict copies are not taken up again as ordinary files; one run per device at
a time; the sorted loops take paths in some fixed order; a rollback succeeds;
truncated manifests are not modelled.

### CommandBus and the code

`rows`, `audit` are the tables; `agent[a]` is one process of a device (its
service, or `relaydot sync now`), in `idle`, `claiming`, `working` on a batch or
`acking` an outcome; `late` holds requests whose sender gave up; `done[i]` is
what the world saw: the executions of command `i`. `CreateCommand`,
`ClaimCommands` and `AcknowledgeCommand` are the store methods; `Claim` and
`Acknowledge` handle a request and deliver its answer; with `TimesOut` the answer
is lost and the request is handled late (`LateClaim`, `LateAcknowledge`) or never
(`Drop`). A late acknowledgement may be delivered again; a claim is delivered once. An exception in `run_once` ends the process; systemd restarts it with
an empty memory (`Resting`). Ids are random, so commands of the same second come
in any order.

### UsageLedger and the code

The controller is one JavaScript thread: nothing is interleaved between two
awaits, except that the process may die between two SQLite transactions. `cpu`
names the run inside such a stretch. A run is an operator's request
(`Operators`) or the job the worker handles (`Worker`).

| variable | code |
|---|---|
| `published[d]` | how far device `d` has moved through `Listing[d]`, its successive manifests on the store |
| `configured` | a `storage_backends` row whose password can be read |
| `prices`, `catalog`, `facts`, `ingested` | `model_prices`, `catalog_models.status`, `usage_facts`, `ingested_objects` |
| `queue`, `schedules`, `job` | honker's live jobs with their deliveries, its schedules, the job in `LedgerWorker.process` |
| `pc`, `item`, `due`, `entries`, `held`, `observed`, `clean` | the locals of `ingestUsage` and `refreshCatalog`: where the run waits, what for, what is left, rates, models, errors |
| `kind[r]`, `row[r]` | the `ingest_runs` or `catalog_checks` row of the run and its status |
| `seen`, `moved`, `forgotten` | history: entries met, models whose rate was written while a run held an older one, models a dead run had met |

| actions | code |
|---|---|
| `Publish`, `SetBackend` | an agent's manifest PUT; save or delete of the backend |
| `SavePrice`, `DeletePrice`, `SetStatus` | `savePrice` with `rateChangeGuard` and `upsertModelPrices`, `deleteModelPrice`, `setCatalogModelStatus`, each with the repricing of stored facts and the queue's change |
| `IngestNow`, `CheckCatalog`, `HandleUsageIngest`, `HandleCatalogRefresh` | the requests and the job handlers, up to their first await |
| `ReceiveListing`, `ReceiveManifest`, `StoreFacts`, `Mark` and their `...Fails` | `ingestUsage`, one answer of the store at a time; `NextObject` is the way from one answer to the next request |
| `ReceiveModels`, `FetchFails` | `refreshCatalog`, one endpoint at a time |
| `Observe`, `Finish`, `Answer`, `Settle` | `observeCatalogModels`; the closing of the run's row; the answer; `ack` or `retry` |
| `Fire`, `Expire` | the scheduler; the visibility timeout (external: honker) |
| `Start`, `Crash` | the worker's `seed` and schedule registration; death, also between two transactions |

A cost is the pair of token count and rate it was computed from: that is all the
properties tell apart; the arithmetic is in `UsageReport`. A message names one
model in every copy of its log (`ConstantsOK`). One tick of the schedule adds one
job per slot. Who may send an operator's request is `ControllerApi`'s subject.

### ControllerApi and the code

A request is admitted when it arrives, waits for its body, acts, and, when it
probes the backend, waits for the network. `req[r]` is a request under way with
what it read before its await; `failed` is history, for `ThrottleBound`; `sessions`, `tokens`, `devices`, `backend` are
tables; `attempts` is the throttle's map; `key` the secret key of the process.

| actions | code |
|---|---|
| `ArriveSignIn`, `SignInFails`, `SignIn`, `SignOut`, `View` | `signIn` before and after its body, `createAdminSession` with its purge, `signOut`, `requireAdmin` of what only reads |
| `ArriveAdmin`, `CreateEnrollmentToken` | `requireAdmin` and the handler after the body |
| `ArriveEnroll`, `EnrollRead`, `EnrollCommit`, `EnrollConflict` | `enrollDevice`: the SELECT and the transaction, which another process may come between |
| `ArriveHeartbeat`, `Heartbeat` | `requireDevice`, the heartbeat |
| `SaveStorage`, `TestStorage`, `Probe`, `DeleteStorage` | the backend's handlers; `Probe` is the outcome of `probeStorage`, its three requests as one wait |
| `Reject`, `Restart` | a bad or lost request; a restart, perhaps with a rotated key |

### The readers and the code

Lines, configuration lines and replies are records with the fields the code
looks at. `Readers` lets each input grow by one line or reply, so that TLC meets
every small input, and `CodexOnlyGrows` compares a log with its continuation.
`YamlLite` keeps the recursive descent of `yaml-lite.ts` as a recursive function
over the lines (`Blocks`): what `parseMapping` and `parseSequence` read from a line on,
for each indent, given what they read from later lines. The line that
`- key: value` splices in is the same line read two columns from the dash, where the
code takes its key to be (`ParseEntries`; the line record has the real column too, as
`inner`), and a document is its outline: each key, dash and value with its
depth. Scalars' syntax is abstracted. No module has a RECURSIVE operator. The loops
of the parsers and the sums of the report are folds (`ReadJsonl`, `ParseCodex`,
`TotalOf`, `EstimateCost`). A declaration of sources (`CatalogConfig`) is the record
of its fields, absent, mistaken or written; `CheckEndpoint` goes from it to the
requests that are sent. `MCUsageLedger` ties the ledger to the parser: its entries' yields are
checked to be what `ParseByPath` makes of the logs they stand for.

## Runs

| run | instance | checks |
|---|---|---|
| `sync_quiet` | 2 devices, a log and a file, 2 edits, 2 failures of any kind but truncation; users act between runs | `TypeOK`, `StoreBacksManifests`, `KeepsContract` (refinement of `SharedStore`), `FreshEditNotOverwritten`, `OverwrittenWasPublished`, `LogsOnlyGrow` |
| `sync_races` | 2 devices, 3 edits on one path, 1 failure including truncation and a change of backend; users act in every phase but between backup and replacement | `EveryEditSurvives`, `NothingTornTravels`, `OverwrittenIsKept` |
| `sync_converges` | fair runs, no two writes in one second | `LogsConverge`, `FilesConverge` |
| `conflict_not_paused` | 2 devices, 2 edits | *violates* `DivergedNotOverwritten` |
| `log_race` | 2 devices, 3 appends to one log, one of them while the run plans | *violates* `ComparedLogsGrow` |
| `log_hidden` | 3 devices, 2 edits | *violates* `LongerLogNotHidden` |
| `commands` | 3 commands, 2 processes, claims of 2, 2 timeouts or crashes, late acknowledgements delivered any number of times | everything in `CommandBus` but `CommandsAnswered` |
| `commands_lost` | 1 command, 1 process, 1 failure | *violates* `CommandsAnswered` |
| `ledger_races` | a log in two versions and an object too large, an operator and the worker, one crash | `TypeOK`, `QueueIsTrue`, `CostsFollowPrices`, `IngestedIsStored`, `SeenIsQueued`, `OkLeavesNothing` |
| `ledger_jobs` | the worker alone with both kinds of jobs, 2 deliveries, one crash, fair | `HandledOrExhausted`, `EventuallyIngested` |
| `access` | 2 requests, 2 sessions, 2 tokens, 2 devices, 2 backends, 2 keys, one restart | everything in `ControllerApi`, with `EnrollmentPromise` (refinement of `Enrollment`) |
| `readers` | all logs of up to 3 lines, files of up to 4 lines with one or two blanks after a dash, declarations with every mixture of absent, mistaken and written fields, chains of up to 5 replies | everything in `Readers` |

Bounds of the sync and command runs: two devices are enough for every property
of pairs (a writer and a reader); three are needed only where two peers compete
(`log_hidden`). Two edits make versions that diverge, three let one of them be
extended; `MaxPaths` restricts how many paths are in use at once, so that one run
checks logs and files. Two failures make one failed upload and one crash of the
following run, and a late acknowledgement that meets a later crash. In `sync_quiet`
sessions are midway through a record while runs go by (`UserActs`); in `sync_races`,
with its many more interleavings, users write whole records on one path. No run has
the four edits it takes to replace two files that exist, so that taking back an
*earlier* replacement loses nothing (`EveryEditSurvives`, `OverwrittenIsKept`), and that
`NothingTornTravels` holds of half-written records too, is left to the
theorems (`EditsSurvive`, `OverwrittenKept`, `NothingTorn`). Three commands with
claims of two leave one behind; two processes compete for them. `Limit` is 10 in the
code; only its relation to the number of pending commands matters. The clock bound
gives equal and different seconds. In the command run `NamesInOrder` lets commands and keys be taken in one order only: they are names that
the model compares for equality and nothing else, and no fairness is assumed of
creating commands, so every behaviour is one of these under other names.

Bounds of the ledger runs: two overlapping runs are what a race on a row needs,
and they meet the same log in two versions: in the first a message is still
streaming, so that its counters change and a second message follows; an object
above the size limit lies beside the second. The rates 2 and 5 are further apart
than the change guard allows, so that both a refused and a confirmed change
occur. `ledger_races` gives a job one delivery, `ledger_jobs` two, so that
`HandledOrExhausted` is checked where a job does come back; the code's five
differ from two only in length. There is no built-in rate in the instances
(`NoSeed`); the proofs cover any.

Bounds of `access`: two requests overlap, two sessions distinguish whose session
is revoked; a session lives 2 ticks, a token 1, an attempts window 2, so that each
reaches its end within the clock's bound of 2; the sign-in limit is 2, so that
two overlapping attempts pass it together. Each behaviour has one of three mixes of requests
(`MixesV`): enrollment and storage share no rows, so mixing them would only
multiply the states. The proofs cover every mix and size.

Bounds of `readers`: three log lines allow a record, its repetition and one between
them; the lines include torn, unknown, malformed and nameless records. Four
configuration lines nest three deep and come back out. Five replies are one more
than three redirects and their answer. `Mtok`, `MsFloor` and the ranges are scaled
down: they enter only as a divisor, a threshold and multiples of the bucket. `Now`
lies inside a bucket of the longer range, so that the window's start cuts it, and
there are records on both sides of the cut. Byte caps include a
negative one, which a file may declare.

What the violated runs show (quotations in `PROJECT.json`): a diverged file *is*
replaced in place once both versions were published, because `publish` makes the
local digest the baseline; a record appended between planning and replacing
leaves the live log; `_winners` picks logs by date before prefixes are compared;
a command claimed by an agent that fails stays claimed for ever. In the first two the
replaced content is still in a recovery directory (`EveryEditSurvives`).

What the passing runs had to say with care, because the code does less than one
might expect:

- `CostsFollowPrices` excludes models in `moved`. A run reads the rates once
  (`ingest.ts:133`); a rate approved while it runs reprices the stored facts, and
  the run then writes costs at the old rate over them. The comment at
  `store.ts:680-686` promises that an approval reaches stored rows; in this race it
  does not last, until the rate is written again.
- `SeenIsQueued` excludes models in `forgotten`: a run that dies after it marked
  objects and before it filed their models in the queue leaves priceless facts that
  nobody is asked about.
- `VerifiedWasProbed` excludes a backend saved while a probe was under way: the
  outcome is recorded on the row that is there by then.
- `NoLateUse` is about admission: a request admitted with a live session still acts
  after its session was revoked.
- `ThrottleBound` counts all sign-ins of a client that fail between two openings of
  its window, the ones that a dropped window forgets included (`failed`), and allows
  as many more than `Limit` as can overlap, twice: those that pass the throttle
  together, and those left over from the window before. Windows follow each
  other after `Window`, or at once after a successful sign-in or a restart. The
  property is about sign-ins only. A wrong `x-relaydot-admin-token` header is
  refused with no throttle at all (`api.ts:669-673`), so that the comment at
  `security.ts:126-128`, that the administrator's token cannot be brute forced,
  holds of the sign-in page and not of the other routes.
- `CodexIsFirstRecord` says what `parseCodex` does. `docs/usage-analytics.md:93-103`
  counts each new `token_count` event once, with
  `max(0, input - cached - written)` uncached tokens; the code reports an event with
  cached + written > input as malformed (`usage-parse.ts:229-231`), drops a second
  event that declares the same id as a duplicate, whatever its counters
  (`:239-251`), and does not look at `total_token_usage`.
- `YamlLosesNothing` gives depths only for files with one blank after each dash. The
  reader takes the key after a dash to be two columns from it (`yaml-lite.ts:218`)
  whatever blanks it trims (`:211`), so below `-   key:` a line at the key's own
  column, its sibling, is nested under it silently, although `yaml-lite.ts:9-11` says
  that such files are not misinterpreted. Two other oddities are left out: `- - a` is
  text, and a `...` between documents is dropped.
- `OverwrittenIsKept` and `EveryEditSurvives` hold of a rollback and of a `Keep` that
  succeed. In the code `os.replace` at `apply.py:119` may fail, and an exception that
  is not an `Exception` skips the rollback; the `finally` clause then removes the
  work directory with the backup.
- `TotalsAgree` does not say that a range counts everything in it: the window is
  aligned to bucket edges and never longer than the range (`analytics.ts:123-125`),
  so usage in less than one bucket at the range's start is left out. The property
  says that nothing else of the range is.

### Fairness

`sync_converges` assumes weak fairness of `RunStep(d)` for each device: a device
is asked to sync again and again, and a started run takes its next step. The first
is an assumption about the operators: `run_forever` only polls for commands, and the
controller's own schedules are of ingest and catalog checks (`worker.ts:85-98`), so
somebody must keep issuing sync commands, or `relaydot sync now`. Users and failures are not fair: they are
bounded and stop. `commands` assumes weak fairness of `AgentStep(a)`: the polling
loop, restarted by the service manager (`Restart=on-failure` in `service.py`).
Handling late requests is not fair: they may be dropped. `DistinctSeconds` is a
genuine restriction: with equal dates the code keeps both versions for ever.

`ledger_jobs` (`FairSpec` of `UsageLedger`) assumes weak fairness of what the
process and its surroundings do by themselves: restart by the service manager,
stretches without await, the scheduler's ticks, the visibility timeout, and some
answer, good or bad, to each request. The last is an assumption the code does not
enforce: requests to the WebDAV server have no timeout (see the hazards).
Strong fairness is assumed of the environment where failures may come again and
again but not always: the listing, each manifest and each object are answered
properly infinitely often if asked for infinitely often; and of handing out each
ingest job, since the queue delivers in order and none waits for ever. Operators
and crashes are not fair.

## Proofs

For every number of devices, paths, edits, failures, commands and processes.

`AgentSyncProofs`
: `TypeCorrect`. Type correctness needs `AppliesPlanned` (a run only replaces
  paths of its plan), and is proved together with it. The lemmas `...Run` state
  once what each step does to the nested record `run[d]`; `OthersUntouched` says a
  run does not touch another device.
: `NothingTorn`, without hypotheses. `WholeInv` follows whole contents from
  snapshots through objects, manifests, winners, plans, backups and disks.

`AgentSyncSafety`, whose theorems have hypotheses about the environment, each
stated where it is first used:
: `ManifestsBacked` and `ContractKept` under `StoreIsSound` (uploads are not
  truncated, the backend is not exchanged). `StoreBacksManifests` is not
  inductive: `Backed` adds that entries being published, and digests remembered
  as uploaded in memory *and in the saved state*, are in the store — this is what
  makes a skipped upload safe after a crash.
: `OverwrittenKept` under `DiskIsQuiet` (nobody writes between backup and
  replacement; the code has no way to see such a write). Its invariant `Intact`
  says that while a run applies, each path still to be replaced holds what the
  backup has.
: `EditsSurvive` under `DiskIsQuiet` and `NobodyDeletes`; the store may do anything.
  `EveryEditSurvives` is not inductive, because a rollback undoes what an apply has
  written: `EditsLast` says that each edit is in what some device would hold
  *after* rolling back, which no step reduces, and `CopiesStay` that an apply only
  adds conflict copies.
: `FreshEditsKept` and `LogsGrow` under `UsersWait` (users act between runs).
  `Settled` says that the disk is then what the inventory says until the run itself
  replaces a file, so that a decision of the plan is still right when it is carried
  out (`SafeToTake`). `log_race` shows that `LogsGrow` needs the hypothesis.
: `OverwrittenPublished` under `UsersWait` and `StoreIsSound`, from `Settled` and
  `AppliedStored`: a digest enters the baseline only with an object behind it.

`CommandBusProofs`
: `TypeCorrect`; `AtMostOnce`, `OutcomeTrue` from `BusInv`: what a process holds is
  claimed by its device, held by nobody else and has not run, and every report in
  flight — also one whose sender gave up — tells of an execution that happened.
  `OutcomeFinal` follows from what a step may do to a row (`RowsChange`); `NoneOvertakes` adds that no row is newer than the clock;
  `AuditComplete` adds the audit counts.
: `LossBounded` from `LossInv`, which counts what failures *may yet* cost: lost
  commands, plus `Limit` for each claim in flight whose sender gave up, are at most
  `Limit` for each failure. A failure either adds such a claim or loses what one
  process held, which is never more than one claim handed out.
: `NoneIsAbsent` is assumed: `None` is neither a row nor a request.

`UsageLedgerProofs`
: `TypeCorrect`. `Sound` adds `PlacesOK` to the types: where a run waits says what it
  asked for (`Fits`: a manifest it waits for was published, an object is an entry),
  only one run is inside a stretch, nothing runs when the process is down. The
  lemma `NextObjectGoes` says once where a run may go after an answer, and
  `MoveIsSound` that every such move keeps `Sound`.
: `QueueStaysTrue` by itself inductive over `Sound`.
: `IngestedStaysStored` from `StoredInv`: also an object being marked has all its
  messages stored, since the facts are written before the mark and never withdrawn.
: `CostsStayRight` from `CostInv`: every run that still prices holds the current rate
  of each model not in `moved` (`HoldsRates`), and a stored fact has the model every
  reading of its message has (`NamesModel`).
: `SeenStaysQueued` from `SeenInv`: at the end of a run, everything it observed is in
  the queue before its variables are cleared.
: `OkMeansDone` from `LeftInv`: what a clean run met is ingested, too large, or still
  in its hand (`InHand`), and a run that finishes has empty hands.
: `JobsAreHandled` from `QueueInv`: no job has more deliveries than it is due, and the
  worker reaches `settle` only with a closed row.

`ControllerApiProofs`
: `TypeCorrect`. `RequestsOK` says what a request in each place holds.
: `PromiseKept`: every step is one of `Enrollment` or leaves it alone.
: `InTime` adds that a token between its SELECT and its transaction was read in time.
: `NeverUsedLate` from `UseInv`, which also says that times recorded lie in the past.
: `GuessesAreBounded` from `ThrottleInv`, which splits the failures since a client's
  window was opened: those the window has counted, *plus* the sign-ins under way
  that it will count, stay below `Limit` and the other requests; those it
  forgets, *plus* the sign-ins left from a window before, are at most the other
  requests. This is where `Requests` must be finite and not empty.
: `VerifiedIsProbed` adds that a probe under way is of the saved backend, unless
  it was overtaken.

`FoldTheory`
: Induction over data. A theorem with an operator as parameter cannot be
  instantiated by the provers, but a *module* can: `FoldTheory` has the operator, the
  base and the invariant of a loop as CONSTANTS, and each loop of the readers is
  an instance. `FoldOfAppend` and `FoldKeeps` come from the recursion that defines
  `FoldLeft`, by taking the least prefix that fails. For sums, `OverAnyOrder` and
  `OverRegroups` say that an operator that commutes may take the elements of a
  finite set in any order, or group by group.

`ReadersProofs`, for logs, files, replies and rates of any number and size:
: `CodexFirst` and `ClaudeLast` from the invariants of the two loops, `CodexInv` and
  `ClaudeInv`: what the accumulator holds after any prefix of the log. `CodexGrows`
  follows, since a longer log has the same first records.
: `FetchAllowed` from `FetchInv`, the invariant of `fetchLimited`'s loop over replies.
: `TotalsAlwaysAgree`: each total of the summary is a sum over the facts of a window
  (`SumsAreFolds`), adding usage commutes (`PlusAdds`), and providers, models and
  buckets split the facts of the window (`TotalRegroups`; `Quotient` and `WindowOf` for
  the buckets, which are numbered by a division).

`YamlProofs`, for files of any length and nesting:
: `YamlNeverLoses`. A function defined by recursion need not exist: `ReaderExists`
  builds the one of `Blocks` line by line from the last (`FromTheEnd`), because what is
  read from a line depends on later lines only (`BlockIsLater`), and `BlocksUnfold` says
  that it is then what the code computes. The property is not about depths that the
  reader has, but about columns: `OutlineOf` gives each token the number of tokens it
  is below. It is proved first of the columns the reader takes (`ReadTokens`: a key
  after a dash is two columns from it); `LinesAreShown` then says that in a file with
  one blank after each dash these are the real ones, and `SameLabels` that the tokens
  and their order are the same in every file. The invariant of the descent, `Whole`, says of each block that it is the
  outline of the tokens of exactly the lines it consumed, that none of them is to the
  left of the block's column, that the first is at it, and that no key is repeated.
  `OutlineBelow` and `OutlineBeside` say what the outline of a key with its value, and
  of one entry after the other, is; they hold because of those columns, and fail for
  the mutated reader, which lets a child start at the column of its parent.
  `Twins` looks for a key twice in one mapping; `TwinsBeside` needs the check for a
  duplicate key that `parseMapping` makes.

Assumed, each by name in the module that declares the constants: `ConstantsOK` (the
kinds of actors are disjoint, one model per message, limits are positive),
`NoneIsAbsent` (`None` is none of the values it stands beside), `MixesOK`, `ReadersOK`
and `LinesOK` (sizes, counters, times, rates and columns are numbers, as the parsers
have checked them), `ReportOK` (a range is a whole number of its buckets, as in `RANGES`).
TLC evaluates them in the runs.

Only model-checked: liveness (`LogsConverge`, `FilesConverge`, `AnsweredOrLost`,
`EventuallyIngested`), which is out of the prover's reach here. Every other property
of the passing runs is a theorem, under the hypotheses named above.

Each property is tested against a mutated operator of the model
(`PROJECT.json`, "mutants"): remembering a failed upload, reading the baseline
after publish, not keeping the backup, handing out claimed commands again, and
so on. Each makes TLC report the property violated.

## Running

    tlc -config SyncQuiet.cfg MCAgentSync.tla
    tlc -config Commands.cfg MCCommandBus.tla
    tlc -config LedgerRaces.cfg MCUsageLedger.tla
    tlc -config Access.cfg MCControllerApi.tla
    tlc -config Readers.cfg MCReaders.tla
    for m in AgentSyncProofs AgentSyncSafety CommandBusProofs UsageLedgerProofs \
             ControllerApiProofs FoldTheory ReadersProofs YamlProofs
    do tlapm $m.tla; done

The longest run takes a few minutes, the proofs about as long.

## Not modelled

"components" in `PROJECT.json` has each part with its reason. In short:

- of the agent: symlinks and managed paths, several roots, a second run on one
  device, deletes and a failing rollback in `atomic_apply`, ignore rules, merge;
- of the controller: migrations; `command_created` jobs, whose handler writes one
  audit row; validation and wording of bodies, the extraction of model ids from a
  provider's answer; the order of models on the dashboard; YAML scalars and
  flow sequences, and two oddities of block structure (`- - a` is text, `...`
  between documents is dropped); the token header of `requireAdmin` when it is
  wrong, which changes no state;
- the dashboard, routes, cryptography, bundles, command line and infrastructure
  scripts: they keep no state whose steps could interleave.
