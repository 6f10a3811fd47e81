# Sakura MCP Server: verification project

TLA+ models of the server in `src/src`, of the SQL it relies on in
`src/migrations`, and of the `cline-sync` tray daemon in
`src/tools/cline-sync`, the TLC runs that check them on small instances, and
TLAPS proofs of what matters most. All paths below are relative to the
repository root (here `src/`).

## 1. The system

A multi-user memory service.  MCP clients and a web console talk to one Node
process; everything shared lives in PostgreSQL.  Several server processes may
run against one database: each of them also runs a background worker.  A
separate daemon on a user's machine, `cline-sync`, reads local conversations and
uploads them through an MCP tool.

| Component | Source | State it keeps | Operations |
|---|---|---|---|
| Job queue | `src/jobs/repository.ts` | rows of `ingestion_jobs`: status, attempts, lock, cancel flag, backoff | enqueue, cancel, retry, claim, heartbeat, progress, complete, fail, release |
| Background worker | `src/jobs/worker.ts` | timer, in-flight run, AbortController, stopping flag | start/poll, runOnce, execute, stop |
| Queued import | `src/transfer/queue.ts`, `queue-item.ts` | `import_items` per job | enqueue, execute, processImportItem; cleanup in `src/maintenance/service.ts` |
| Embeddings | `src/semantic/service.ts`, migration 012 | one `memory_embeddings` row per memory, `embedding_revision` | claim a slot, call the Provider, store; triggers on edits |
| Memories | `src/memory/*.ts`, migration 016 | memories, versions, quota counters | remember, update, forget, archive, restore, revert, purge |
| Governance | `src/governance/service.ts` | `memory_conflicts`: pairs of similar memories, open or decided | detect after a write, resolve |
| Synchronous import, export | `src/transfer/service.ts`, `stream.ts` | a job row no worker claims, cursors | import record by record, cancel; streamed export |
| Spaces and agents | `src/spaces/*.ts`, `src/agents/repository.ts` | members, roles, invitations, agent grants | invite, accept, change role, remove, transfer, grant |
| Sign-in | `src/web/session.ts`, `local-login.ts`, `src/security/password.ts` | login attempts, sessions, failure counters, credential version | OIDC and local login, logout, password change, account management |
| Settings and setup | `src/settings/repository.ts`, `src/setup/service.ts`, `src/index.ts` | instance settings, installation state, the copy in force | install once, save, apply, test sign-in |
| Provider calls | `src/providers/*.ts` | daily usage counters, limits | reserve a call, run it with a timeout, record it |
| Request lifecycle | `src/lifecycle.ts`, `operations.ts`, `mcp-routing.ts` | admitted requests and their detached work | admit, stream, cancel, shut down |
| Client sessions | `src/clients/*.ts` | presence of a client, operations in flight | begin, end, disconnect, list |
| HTTP limits, audit | `src/security/*.ts`, `src/audit.ts` | rate-limit buckets, audit file | consume, rotate |
| cline-sync engine | `tools/cline-sync/src/sync.ts`, `chunks.ts` | cursors per conversation | scan, upload, save the cursors |
| cline-sync scheduler | `tools/cline-sync/src/scheduler.ts` | timer, run, breaker | start, tick, manual sync, pause, resume, close |
| cline-sync desktop | `tools/cline-sync/src/main.ts`, `store.ts`, `window.ts`, `lifecycle.ts` | configuration file, tray helper, window | save settings, toggle, open, shut down |

How they interact.  Workers and users meet only in rows: a user's cancel, retry
or cleanup is an SQL statement that can land between any two statements of a
run.  A run's body calls the embedding service, which calls a Provider for
seconds at a time; the memory it read may be edited, trashed or purged
meanwhile.  A connection that closes aborts its request's work through
`operationSignal`.  Shutdown stops admission, aborts the worker's run and waits
for both before the database pool is closed.  A request has its role checked
when it arrives and again under the lock of the space; a login checks a
password in one transaction and opens its session in the next.

What is hard here is always an order nobody tests: a worker that is slow rather
than dead and reports after its lease was taken over; a statement that took
effect although its answer was lost; a Provider answer for a text that no longer
exists; a crash between two transactions; something that was checked (a role, a
password, a quota, that another administrator exists) and changed before it was
used; two actors who do the same thing at the same time.

### What makes each part correct

- **Job queue.** Each job is run a bounded number of times and ends; only the
  process that holds a row's lease may end its run; a cancel binds until a
  retry; no row is left in a state that nothing can move.
- **Queued import.** Each record becomes at most one memory, a completed job has
  no record left, and a job that may run has its payload.
- **Embeddings.** A vector that search may use belongs to the present text; a
  late answer never replaces a newer claim; a claimed slot is settled.
- **Request lifecycle.** Work is bounded by the slots even after the response;
  slots come back when clients leave; PostgreSQL is closed last; SIGTERM ends
  the process.  The first and the third hold but for the cleanup that a
  cancelled stream may leave behind (section 7).
- **Client sessions.** The counter of open calls loses no update and never
  invents a call.  It may hide one after a DELETE (section 7).
- **Spaces and agents.** One owner at all times; administrators are made and
  unmade by the owner of the moment.
- **Sign-in.** A session is worth as much as the password it was opened with; no
  guess goes uncounted; an administrator who can sign in remains; an attempt
  opens at most one session; what was saved is in force.
- **Memories and governance.** The quota holds under any sequence of writes; a
  memory's text is that of its newest version; whoever lost a role
  changes no memory; a conflict is decided once; what an import reports bounds
  what it stored.
- **cline-sync.** The cursor never covers what the server did not get, everything
  arrives in the end, no schedule is lost, the breaker trips on what it says it
  trips on, settings survive restarts, a shutdown ends the process.  That the
  end of a breaker's pause is the end of the pause does not hold (section 7).

## 2. Plan

The order is by what a mistake would cost and how unlikely a test is to find it.

| # | Modules | Composes or refines | State |
|---|---|---|---|
| 1 | `JobLifecycle`, `JobQueue` | `JobQueue` implements `JobLifecycle` | checked, proved |
| 2 | `ImportQueue` | extends `JobQueue`, implements it | checked, proved |
| 3 | `Embeddings` | | checked, safety proved |
| 4 | `ServerLifecycle` | | checked, safety proved |
| 5 | `ClientSessions` | | checked, proved |
| 6 | `SyncScheduler`, `SyncEngine` | | checked, safety proved |
| 7 | `Spaces` | | checked, proved |
| 8 | `Accounts` | | checked, proved |
| 9 | `SignIn` | | checked, proved |
| 10 | `Memories` | | checked, proved |
| 11 | `Panel` | extends `SyncScheduler`, implements it | checked, safety proved |

Abstract specifications: `JobLifecycle` (what a user is promised of a job) and
`JobQueue` itself (what an import may do to it).  The other components have no
detour between what they promise and what they do that an abstract machine
would say better than an invariant.

Every safety invariant and every action property that a run checks is also a
theorem (section 6).  What remains is liveness, which stays with TLC, and the
components of section 1 that are modelled partly or not at all.

## 3. The modules

Each SQL statement or transaction, and each stretch of code between two awaits,
is one step.  Texts, vectors, tokens and wording are abstracted to what a
property can tell apart.  Counters whose name begins with `Max` bound what an
environment may do (faults, retries, edits) unless a constant of the code has
that name.  A definition under a comment that begins with *Mutation:* is a
plausible mistake in the definition that follows it; it is used by no
specification and serves to show that a property notices it.

### `JobLifecycle`, `JobQueue` (`src/jobs`)

`JobLifecycle` has two variables: what the user sees of a job, and how many runs
it may still be charged for.  `JobQueue` has the columns of `ingestion_jobs`
(`status`, `attempts`, `cancelRequested`, `lockedBy`), two flags that stand for
the clock (`stale`: `locked_at` is older than the lease; `due`: `available_at` has
passed), and for each worker process the stage of `runOnce` (`phase`), the job it
runs, its `AbortController` and its `stopping` flag.

| Code | Model |
|---|---|
| `enqueue`, `cancel`, `retry` | `Enqueue`, `Cancel`, `Retry` |
| `claim` (reap, then pick, then lock, in one transaction) | `ClaimRows`, used by `ClaimJob`, `ClaimNothing`, `ClaimSkips`, `ClaimError` |
| `heartbeat`, `progress` | `RefreshLease` inside `Heartbeat`, `Progress` and their `...Error` forms |
| `complete`, `fail`, `release` | `CompleteRow`, `FailRow`, `ReleaseRow` under `Report`, which a worker calls in `Complete`, `Fail`, `Release` |
| `start`, `stop`, `execute` | `Poll`, `Stop`, `LeaveBody`, `BodyReturns`, `BodyThrows`, `ObserveAbort`, `EndRun` |
| a statement that fails, with or without effect | the `...Error` actions and `ReportError`, each costs a fault |
| a process that dies | `Crash` |

`epoch` and `token` are history variables: the number of a row's claims, and the
number of the claim a run belongs to.  The code has no such number; the question
is whether `locked_by` does as well.

### `ImportQueue` (`src/transfer`, `src/maintenance`)

Extends `JobQueue` with `item` (the rows of `import_items`), `copies` (how many
memories a record became) and what `execute` holds in memory (`loaded`, `work`).
The body of `JobQueue` is replaced by `LoadPositions`, `ImportItem` (one transaction
of `processImportItem`), `ImportItemUnacknowledged` (it committed, its answer was
lost), `FinishImport` and `ThrowImport`.  `RetryImport` is refused when the items are
gone, and `Cleanup` removes the items of finished jobs.

### `Embeddings` (`src/semantic`, migration 012)

`revision` counts the texts a memory has had (`embedding_revision`), `slot` is its
row in `memory_embeddings`; `stage`, `batch`, `read` and `todo` are one request's
local state.

| Code | Model |
|---|---|
| `embedMemory`, a batch of `rebuildEmbeddings` | `Begin` with one memory or several, `BeginConfigured`, `BeginUnconfigured` (no model: every memory is marked failed) |
| `storeEmbedding`, one statement | `StoreEmbedding`, with its comparison of the revision (`Current`) and its conflict clause (`HoldsSlot`) |
| the calls of it, before and after the Provider | `Claim`, `Store`, one memory of the batch after the other |
| what follows a claim or a result for a single memory | `AfterClaim`, `AfterResult` |
| the Provider | `Answer`: vectors, or an error, or an invalid vector for some |
| migration 012's triggers | `ChangeText`, `Purge` |
| closed connection, stopping worker, crash | `Abort` |

### `ServerLifecycle` (`src/lifecycle.ts`, `operations.ts`, `mcp-routing.ts`, `index.ts`)

`stage` is where `RequestLifecycle.handle` stands, `op` the operations its context
tracks, `transport` the cleanup of an MCP response, `awaited` the snapshot that
`stop()` waits for.  `Shutdown` is the signal handler, `Drained` the condition under
which `CloseDatabase` runs, `Deadline` the 25 second timer.  `Leave` and `CancelStream`
are the two ways a client goes: the request's signal fires, or the HTTP layer
cancels the body.  In the second the slot may be free before the cleanup of the
response starts, which is then `"stray"`.  `AtWork` counts such a cleanup as work;
`Strays` is the exception that the properties make by name (section 7).

### `ClientSessions` (`src/clients`)

One client key: the row of `mcp_client_sessions`, and calls that begin (`Touch`) and
end (`Release`) in any order with a DELETE (`Disconnect`), failed statements and
crashes.  `orphans` and `torn` record crashes and DELETEs that caught open calls.

### `Spaces` (`src/spaces`, `src/agents`)

One shared space: `role`, the `invitation` per address that was not accepted, the
address on file (`mail`), and the agents' credentials and grants.  Everything that
changes members or invitations locks the row of the space, so each is one action
(`Invite`, `Revoke`, `Accept`, `Transfer`, `Change`).  A grant is two (`CheckGrant`,
`InsertGrant`), because the code takes no lock there; no property reads them, they
are there for the behaviour section 7 describes.  Editors,
contributors and viewers differ in what they may do to memories only and are
all *member*.

### `Accounts` (`src/web/local-login.ts`, `session.ts`)

Local accounts (`known`, `version`, `admin`, `failed`, `locked`), their sessions,
and requests that wait at a `stage`.  `row` says which transaction holds the row
of an account `FOR UPDATE`.

| Code | Model |
|---|---|
| `LocalLoginService.login` | `Login` takes the row and reads it, `RightPassword` or `LoginFails` commits |
| `issueSession` | `IssueReads` (the `SELECT` and its fence), `IssueRefused`, `IssueCommits`: others see the row only then |
| `authenticate`, `adminApi` | `Valid`, `Begin`: a session is looked at once, when the request comes |
| `transaction` with its advisory lock | `Acquire`, then `LockAccount` or `Reject` |
| `requireAnotherAdmin` | `Decide`, which keeps the rows of the others, or `NoOtherAdmin` |
| create, reset, remove, promote, demote, unlock, declared administrator | `Writes` |
| `changePassword` | `ChangePassword`, `ChangeFails` (a wrong guess is committed) |
| logout, end other sessions | `EndOwnSession`, `EndOtherSessions` |
| failed statement, timeout, crash | `Abandon` |
| time | `Unlocks`, `Expire` |

`session[s].proved` (which password its login showed) and `guesses` are history.
Lock times double in the code; here a lock has some length.

### `SignIn` (`src/web/session.ts`, `src/settings`, `src/setup`, `src/index.ts`)

One process.  A setting is the number of the save that wrote it.  `stored` is the
table, `config` the copy in force, `auth` what the present `AuthService` was built
from.

| Code | Model |
|---|---|
| the guards, and the tests of a provider before a save | `BeginSave` |
| `complete`, `saveProvider`, `saveAuthentik`, `saveSakura` | `Install`, `Save` |
| `apply()`, one key after the other | `ReadKey`, `Apply` |
| `/auth/start`, the silent probe of `/auth/login` | `StartLogin`, `StartProbe` |
| `consumeAttempt` | `Consume`; `Expires` for the ten minutes |
| `probeCallback`, then the ordinary `callback` | `RedeemProbe`, `ProbeVerified`, `ProbeThrows`, `RedeemLogin` |
| `verifyIdToken`, `ensureUser`, `issueSession` | `Trusts`, `EnsureUser`, `IssueSession` |
| an error from the provider or anywhere | `FailedCallback`, `CallbackFails`, `SaveFails` |
| start | `Restart` |

`alone` and `behind` are history: whether the request that applies met no other,
and what may differ from the table because two did.

### `Memories` (`src/memory`, `src/governance`, `src/transfer/service.ts`, migration 016)

One space.  A text is its number of bytes, a status is active or not.  Transactions
hold the row of the space, so each is one action; what happened before it is
in `Begin` (the first check of the role) and `Allowed` (the second, under the
lock).

| Code | Model |
|---|---|
| `enforce_memory_quota()`, the trigger | `Writes`: what a transaction adds against `limit`, into `counted`; `SumOf` adds up sizes as the number of their `Units` |
| `remember`, `extractAndRemember`, `update`, `forget`, restore of a version | `Remember`, `ExtractAndRemember`, `Update`, `Forget`, `ForgetForGood`, `Revert` |
| `MemoryManagement.change`, `purge` | `Change`, `Purge`: all of the chosen or none |
| a snapshot in `memory_versions` | `Saves` |
| `detectAfterWrite` | `Detect` reads the candidates, `Flag` inserts one pair after the other |
| `resolve` | `Resolve` with `Supersede`, `Merge` |
| synchronous import | `StartImport`, `Look`, `ImportRecord`, `RecordFails`, `Judge`, `CloseImport`; `CancelImport` |
| a record whose `remember` throws | `Throws`: rolled back, or the COMMIT took effect and its answer was lost; counted in `RecordFails`, not counted in `Interrupted` (the client has gone) |
| changes of quota and role | `SetQuota`, `RoleChanges` |

`job.stored`, the memories an import has stored, is history.

### `SyncScheduler`, `Panel` and `SyncEngine` (`tools/cline-sync`)

`SyncScheduler` is the class of that name and what the tray, the panel and the
process do to it; a run is a black box that returns, throws or is aborted.

`Panel` extends it with what stands around it: the configuration file, emptied
and filled again by two writers (`Write`, `Saved`, `WriteFails`); `startTray()`
(`Construct`, `Ready`, `ReadyTimesOut`, `NeverReady`) and the helper process it
starts (`HelperStarts`, `HelperEnds`); the window; `Lifecycle.close()` (`Shutdown`,
`Cleaning`), its deadline, and the end of the process when nothing holds the
event loop (`Leave`) or when it is killed.  Saves call `UpdateConfig` of
`SyncScheduler`, the tray calls `Resume`, a shutdown calls `Close`.

`SyncEngine` opens the run instead: listing, reading and certifying a history that
Cline keeps rewriting, comparing it with the cursor, cutting it into chunks (with
a surrogate pair as two units; that no chunk parts one is the theorem
`PairsAreWhole`), uploading, advancing and saving the cursor.

## 4. The runs

| Run | Instance | States | Shows |
|---|---|---|---|
| `job_queue` | 1 job, a worker that survives and one that may die, 2 attempts, 1 retry, 2 faults | 172 k | `NoStrandedJob`, `FenceIsExact`, `LeaseRespected`, refinement of `JobLifecycle`, `EveryJobSettles`, `CancelHonoured` |
| `import_queue` | 1 job of 2 records, 2 workers, 1 attempt, 1 retry, 1 fault | 342 k | `ExactlyOnce`, `CompletedImportsEverything`, `PayloadKept`, refinement of `JobQueue` |
| `embeddings` | 2 memories, 2 requests, an edit of each, a soft delete, an abort | 229 k | `VectorIsCurrent`, `NewestClaimWins`, `PendingSettles` |
| `server_lifecycle` | 3 requests, 1 slot, 1 operation each | 228 k | `WorkIsBounded`, `DatabaseOutlivesWork`, `AbandonedSlotsReturn`, `ShutdownEnds` |
| `client_sessions` | 3 calls, 2 other requests, 2 DELETEs, 2 faults | 15 k | `CountMatches`, `NoPhantomUpload` |
| `spaces` | an owner, 2 users, an address each, an agent | 148 k | `OneOwner`, `PowerComesFromOwner` |
| `accounts` | 2 users, 2 requests, 2 sessions, a lock at every 2nd guess, 2 credential versions | 1.1 M | `OldPasswordIsDead`, `EveryGuessCounts`, `AnotherAdminRemains` |
| `sign_in` | 2 requests, 1 attempt, 3 saves | 593 k | `AttemptIsSingleUse`, `SavedIsInForce` |
| `memories` | 2 memories, 1 conflict, 2 requests, texts of 1 and 2 bytes, quotas of 1 or 2 memories and 2 bytes, an import of 2, 4 versions | 966 k | `QuotaHolds`, `HistoryIsKept`, `WritesNeedTheRole`, `DecidedOnce`, `ImportTellsTheTruth` |
| `panel` | breaker at 2 failures, 1 more while halted | 257 k | `TimerIsDue`, `ScheduleIsKept`, `HaltIsEarned`, `SettingsSurvive`, `ShutdownEnds` |
| `sync_engine` | up to 3 messages (empty, short, of several chunks), 2 rewrites, 1 fault | 1.6 M | `CursorNeverAhead`, `SkippedIsExtracted`, `NoSecondExtraction`, `AllArrives` |
| `sync_pause_lifted` | `SyncScheduler` alone, breaker at 3 failures | - | a violation, section 7 |

The runs carry no type invariants: that of each module is proved (the one
of `SignIn` as a part of its inductive invariant).

Why the bounds are enough.  Jobs share nothing but the workers, so one job with
two workers has every race between a holder and a successor; two attempts have
a run that may be repeated and a last one; two faults allow a lost claim
followed by a lost report.  An import needs a second record to have one settled
and one not.  A slot and its successor need two requests; two memories give
batches and a batch that is half claimed.  One slot and three requests have
one that holds, one that is refused and one that comes after.  Three users have
an owner, a successor and a witness.  Two accounts are an administrator and the
other one, two requests any pair of a login, a change and a removal; a guess more
than the threshold is there too.  Three saves are an installation and two saves
that overlap; one attempt with two callbacks is a callback that arrives twice.
Two memories are the two sides of a conflict and can exceed either limit
together; quotas may be set below what is used.  A breaker at two failures
already has failures in a row that a success or a cancelled run parts.  In
`sync_engine` the long message is cut more than once, at, before and after a
surrogate pair, with room left from a short one.  The safety properties of all
runs do not rest on these bounds: they are proved for all of them.  What rests on
them is liveness.

Runs say `CHECK_DEADLOCK FALSE` where the system may really stop: all jobs ended
and no worker left, all requests and edits spent, the process gone, or a bound
on versions and saves reached.

## 5. Fairness

- `JobQueue!Fairness`.  A worker that is alive polls (a timer of at least 250 ms,
  `config.ts:48`), its statements are answered or fail (statement timeout of
  15 s, `database.ts:10`), its body ends (Provider calls have timeouts), and the
  lease of a row that nobody runs becomes stale (`config.ts:49`).  The claim is
  answered by taking *some* eligible job.  Nothing is assumed of users, faults,
  stops and crashes; `EveryJobSettles` needs one worker that survives (`Durable`),
  which the model does not grant to the others.
  The 15 s statement timeout is also below the shortest lease (30 s), which is
  why a heartbeat that is on its way is not modelled to land after its lease.
- `Embeddings!Fairness`.  A request that was not aborted runs to its end; the
  Provider call has a timeout.
- `ServerLifecycle!TimerSpec` assumes the shutdown timer and nothing else:
  operations may hang, clients may stall.  `AbandonedSlotsReturn` is about a server
  whose operations do not hang, and says so itself (`Prompt => ...`).  No client is
  ever assumed to read.
- `Panel!PanelSpec`.  File writes are answered and a connection that shutdown cuts
  is noticed; `startTray()` has a timer of five seconds (`main.ts:139`); a helper
  comes up or fails to; one that is asked to stop is killed after two seconds
  (`lifecycle.ts:4`); the deadline is a timer.  Runs and the window may hang for
  ever.
- `SyncEngine!EngineFairSpec`.  Scans are repeated and their steps are taken; Cline,
  users and faults are unconstrained.  `SyncScheduler!FairSpec` (timers fire, runs
  end) serves the violated run only.

`ClientSessions`, `Spaces`, `Accounts`, `SignIn` and `Memories` are about safety:
a request that fails is answered with an error and nothing is owed to it.

## 6. The proofs

TLAPS checks the theorems of eight modules, for any number of jobs, workers,
records, memories, requests, calls, users, sessions, attempts, addresses and
agents, any bound on attempts, retries, guesses, saves and faults, any quota, any
threshold of the breaker, and conversations of any messages of any length.  They
assume the named `...Assumption` of each module, which says that the null values
are no elements, that limits are natural numbers and that the sets that are
counted are finite; for `SyncEngine` also that surrogate pairs do not overlap and
lie inside their message, and that a chunk has room for a separator and a pair.
Nothing else is assumed.

- **`QueueProofs`**, `JobQueue`.  `IInv` is the type invariant with four facts.
  `NoStrandedJob` is not inductive alone: `Enqueue` makes a row pending as it is,
  so rows must be clean before (`AbsentIsClean`), and what a report, a reap or a
  retry leaves behind depends on the cancel flag (`CancelBinds`).  `FenceIsExact`
  is inductive because a worker runs one job at a time and a claim makes the
  claimer's own token current.  From `IInv` follow `LeaseRespected`,
  `FinishedStaysFinished`, `NoRunAfterCancel` and the step simulation `Refinement`:
  for every action, what the user of each job sees moves as `JobLifecycle` allows
  or stays.
- **`QueueProofs`**, `ImportQueue`.  `ImportsRunTheQueue` shows that each step of an import is
  a step of the queue, so that the queue's `IInv` holds of imports and is used
  from then on.  `ItemInv` adds `ItemsTogether` (items of a job exist together) and
  `RunKnows`, what a run that still holds its lease knows of the records behind
  it.  Without `RunKnows` nothing forbids to report completion after another run
  changed the items; with it, `WorkerEffect` says that no other run can.
- **`EmbeddingsProofs`.**  A slot without a row has no request and no revision
  (`EmptyIsBlank`), and one `storeEmbedding`, whoever calls it with whatever
  revision it read, keeps every slot current (`StoreKeeps`).  `VectorIsCurrent`,
  `PurgeIsFinal` and `NewestClaimStays` follow.
- **`ConnectionsProofs`**, `ServerLifecycle`.  `SlotHeld` (whoever is at work is active),
  `SnapshotCovers` (after SIGTERM every active request is among those awaited) and
  `ClosedLast` are inductive together and give `DatabaseClosesLast`; with the count
  of slots they give `BoundedWork`.  Both make an exception for `Strays`, and
  `SlotHeld` says what a stray cleanup is: its request is done and its client gone.
  `StraysPredateShutdown` limits the exception: SIGTERM aborts every stream
  (`ShutdownAborts`), so that no cleanup becomes stray after it.
- **`ConnectionsProofs`**, `ClientSessions`.  A client without a row has nothing open
  (`NoRowIsBlank`); `OpenGrows` and `OpenShrinks` say what one call adds to or takes
  from a finite set of them.  The exact count is inductive, and so is the bound
  that holds after DELETEs.
- **`SpacesProofs`.**  `OneOwner` is inductive with the type invariant: an
  invitation never confers ownership, a transfer moves it, and `IsLastOwner`
  refuses every other change of the owner.  `OwnersAppoint` is an action property
  from the same invariant.
- **`AccountsProofs`.**  A rely-guarantee argument: each request relies on facts
  about the rows it holds (`Relies`), requests that hold rows hold different ones
  (`Separation`), so that no step of another disturbs them (`OthersRely`), and each
  of its own steps establishes those of its next stage (`Establishes`).
  `BoundIsProved` says that a session under way is bound to the password that was
  shown.  The argument uses the locks of the rows only: the advisory lock is not
  needed for it.
- **`SignInProofs`.**  `Single`: while an attempt is there nobody has redeemed it; once
  it is gone, at most one request goes on with it, and that one opens the
  session.
  `AloneReadsStored`: whoever applies alone has read what is stored;
  `OverlapIsBehind` and `SakuraLeavesAuth` carry the rest of `SavesTakeEffect`.
- **`MemoriesProofs`.**  The quota trigger adds what a transaction adds; that it
  refuses the right ones needs `Counted`: its counters are the number of the live
  rows and the sum of their bytes.  That is inductive because the sum of the
  changes, with their signs, takes the old sum to the new one (`SumsFollow`).
  The library has no sums, so `SumOf` is the cardinality of a set of units, and
  its lemmas are bijections of finite sets.  Actions that write are then of one
  kind, `ContentStep`, for which `QuotaHolds`, `Counted` and `TextIsNewest` (the
  text of a memory is that of its newest version) are shown once.
  `ConflictsOK` says that an open conflict is about memories that are there, and
  `ImportOK` who runs an import and how what it counts bounds what it stored: a
  memory that an import stored is never unmade, only trashed or purged
  (`StoredStay`), and each record stores one more or none (`OneMoreStored`).  `DecidedOnce`, `HistoryIsKept`,
  `WritesNeedTheRole` and `ImportTellsTheTruth` follow.
- **`SyncProofs`**, `SyncScheduler` and `Panel`.  `CountIsRecent` ties the
  breaker's counter to the last outcomes: as many as it counts have failed, in a
  row.  `HaltIsEarned` is not inductive without it.  With `RunsInside` (a run lives
  in a process, a shutdown leaves no schedule) it gives `TimerIsDue` and
  `ScheduleIsKept`.  `PanelRunsTheScheduler` shows that every step of the daemon,
  startup, saves, window and shutdown included, is a step of the scheduler or
  none, so that the three hold of the daemon too.  This needs an invariant of its
  own: what is read from the file are settings, and only a running daemon saves
  (`StoreInv`).  `Kept` says where a configuration is while no write has met
  another, failed or been cut off, in the file or in the one write under way, and
  gives `SettingsSurvive`.  `NoHelperIsForgotten` is the safety part of
  `ShutdownEnds`: after a shutdown began, a helper that runs is being stopped or
  startup still waits for it and stops it; it needs `DesktopInv`, which ties the
  stage of `startTray()` to the helper.
- **`SyncProofs`**, `SyncEngine`.  `EngineInv` has five parts.  `Placed`: where the
  cutter stands between two chunks, and where the chunk under way begins and
  ends.  `Sent`: a cursor, the saved one or the one in use, covers nothing that
  the server did not get; in the middle of a message that takes a claim about
  what is in the buffer, what is in the chunk and what is already there.  It gives
  `CursorNeverAhead`.  `Grown`: what was read, and what a cursor was certified
  against, is a beginning of a file that has only grown since; it gives
  `SkippedIsExtracted`.  `InOrder` holds while nothing failed and nothing was
  rewritten (`Calm`): all that was extracted lies behind the cursor and all that
  is still to be cut lies before it; it gives `NoSecondExtraction`, which says so
  itself.  `PairsAreWhole` is about what is in a chunk: messages are cut between
  pairs only (`PairsKept`), wherever a cursor resumes.

Only model-checked: liveness (`EveryJobSettles`, `CancelHonoured`, `PendingSettles`,
`AbandonedSlotsReturn`, both `ShutdownEnds`, `AllArrives`), which needs fairness and
`ENABLED` and is out of the prover's reach.

## 7. Where the code and what is said of it disagree

- **`sync_pause_lifted`.**  `halt()` calls `stop()`, which clears `scheduled`.  A manual
  run that succeeds clears `halted` and logs that the automatic pause is lifted
  (`scheduler.ts:166`), but nothing sets `scheduled` again: no automatic run
  follows, and the panel shows neither a halt nor a next run.

Behaviour that is modelled and contradicts no document, worth knowing
nevertheless:

- Jobs: the oldest job is preferred, also when it is retried again and again; a
  crash after the transaction of an imported record leaves a memory without a
  vector.
- Embeddings: restoring an old version drops the vector until the next rebuild;
  a request that was aborted, or whose memory was in the trash when the answer
  came, leaves its slot pending until an edit or a rebuild.
- A client that reads slowly keeps its slot.
- `lifecycle.ts:62` says that PostgreSQL remains available until its users have
  drained, and the repository's README (line 264) that the cleanup of HTTP and
  MCP is awaited before the pool is closed.  One cleanup is not: when the HTTP
  layer cancels the body of an MCP response and nothing else of its request is
  pending, the request's slot is freed one microtask before the cleanup
  (`index.ts:669-673`) starts.  It then runs beside as many admitted requests as
  there are slots, and a shutdown may close the pool before its last statement
  (`Admit`, `RespondStream`, `CancelStream`, `Shutdown`, `CloseHttp`, `CloseDatabase`
  with the cleanup still to come).  If that statement is lost the client's
  counter of open calls stays up, as after a crash (an orphan in
  `ClientSessions`).  `WorkIsBounded` and `DatabaseOutlivesWork` say so themselves
  (`Strays`) and have no run that shows them violated without the exception;
  `StraysPredateShutdown` says that only streams cancelled before SIGTERM can be
  concerned.
- A DELETE zeroes the counter of open calls; the late release of one of them may
  then hide a call that began after the client came back.
- `grant()` checks membership and inserts without the lock that a removal takes:
  a removal in between leaves a grant of a user who is no member, in force again
  when the user rejoins.
- `keep_a` and `keep_b` do not look at the side they keep, which may be trashed by
  now, so that neither side is visible; they write no version.
- A synchronous import counts a record as failed when `remember` throws, also when
  its COMMIT took effect and the answer was lost (`memory/repository.ts:76-78`,
  `transfer/service.ts:114-116`): an import reported failed may have stored
  memories, and repeating it stores them twice.
- The check of a role in `detect()` is not repeated when it inserts: `Flag` may
  still add a conflict after the role is gone (`governance/service.ts:64`).
- A synchronous import ends with an unconditional update (`transfer/service.ts:123`)
  that overwrites a cancel which came after its last look; a crash leaves its job
  processing, which migration 016 repaired once.
- Saves of the settings that overlap, or one whose `apply()` fails, can leave older
  settings in force until the next save or start; saving Sakura's settings does
  not build a new `AuthService` (`index.ts:545`).  The issuer a user is recorded
  under is read again after the token was verified (`session.ts:210`).
- cline-sync: the breaker is forgotten at a restart; a conversation that is rolled
  back and grows past its cursor between two scans is taken for one that only
  grew; the tray and the panel may overwrite each other's settings, and a write
  of the file (`store.ts:32`) that is cut off loses them.

## 8. What is not modelled

- Provider quotas (`src/providers`): one statement reserves a call and nothing is
  given back; the clients translate formats.
- Rate limits and audit rotation: buckets without an invariant across requests,
  a file that is rotated by its size.
- Search, ranking and extraction prompts, encryption, password hashing, OIDC
  verification, discovery: computations and library calls without state of
  their own.  They succeed or fail nondeterministically where a model needs them.
- Links, feedback, relations between memories, `configureStrategy`, scopes and
  expiry of agent credentials: single statements on rows that nothing else here
  reads.  Tags, importance and validity of a memory, and more than one space.
- Routes that only call a service, pages and their scripts, schemas of the tools,
  `config.ts`, version checks.
- cline-sync: autostart, the tray's binary, the lock of the instance, the log, the
  list of past runs (`history.ts`), the panel's page.
- `database.ts`: a pool and a migration loop that runs before anything else.
- `prune()` in `src/clients/repository.ts`: nothing calls it.
