# Verification of Image Agent Studio

TLA+ models of the parts of Image Agent Studio whose correctness depends on
order, failure and recovery, with TLC configurations that check them on small
instances and TLAPS proofs of their most important properties for every
instance. The models are translated from the source; the file `PROJECT.json`
maps each definition to the lines it stands for, and lists the runs, the
mutants that show each property can fail, the hazards and the theorems.

## 1. The system

Image Agent Studio lets users generate images and videos through third-party
providers, keeps their history and sessions, and bills them in credits.

| Part | Where | State | Operations |
|---|---|---|---|
| Node Studio service | `scripts/image-agent-studio-history-service.mjs` | per user: `jobs.json`, `records.json`, sessions, assets (files); `jobQueues`, `activeJobControllers`, two keyed locks (memory) | HTTP handlers for jobs, history, sessions, prompts, backups; runners that call the providers |
| Billing | `scripts/studio-service/standaloneBilling.js` | SQLite: accounts, transactions, credit codes | reserve, attach task, record output, settle, refund, adjust, redeem |
| Keyed lock | `studio-service/keyedLock.js` | the map `tails` | `acquire`, release, `run` |
| Backup and restore | `userBackup.js`, `restoreTransaction.js`, `assetSnapshots.js` | `.restore-transaction` with journal, staged and previous entries | restore, recover |
| Accounts | `standaloneAuth.js` | SQLite: users, sessions, reset tokens; login limiter (memory) | register, log in, reset, revoke |
| Providers | `platformProviders.js`, `standaloneProviderConnections.js`, `providerProfiles.js` | SQLite rows with a revision | save, synchronise models |
| Prompts | `publicPrompts.js`, `communityPrompts.js` | publication files, votes | publish, withdraw, react |
| Go server | `apps/server-go/internal/` | jobs, assets, projects (JSON files under one mutex); event streams and cancel functions (memory) | create, claim, transition, cancel, retry, recover; execute; event stream |
| Web workstation | `apps/web/src/` | the job shown, the event it resumes after (memory) | create, execute, cancel, follow over the event stream |
| Web client | `src/` | session and queue (memory, local storage, a copy on the service), canvas, history (IndexedDB) | submission, retry, cancel, following of jobs, autosave, session sync |
| Shells and tools | `apps/desktop`, `apps/android`, `deploy`, `packages`, `scripts/check-*` | none of interest | packaging, contracts, operations |

How they interact. A request of a signed-in user takes the lock of the user's
data (`userDataLocks`), recovers an interrupted restore, and then does its whole
work under the lock. A submission reserves credits in the billing database,
writes the job to `jobs.json` (under a second lock, that of the jobs file) and
puts it in the user's in-memory queue. A timer drains the queue into at most
`STUDIO_JOB_CONCURRENCY` runners. A runner holds neither lock while it waits for
the provider; it takes the lock of the jobs file for every status it saves, calls
the billing database directly, and takes the user's data lock only to write the
history. A cancel aborts the runner's controller and writes the job itself. A
read of the jobs normalises records that a former process left active and puts
videos whose upstream task can be followed back into the queue.

The Go server keeps its own job file. Each operation of its store is one critical
section; a request strings several together, publishes an event after each on an
in-memory stream, and registers a cancel function while it talks to the provider.
A video goes on in a goroutine after its request was answered. A browser follows
a job over server-sent events: a snapshot, then the bounded replay, then live
events; it connects again a few times when the stream breaks. At the start the
server fails the jobs that were in flight.

The web client keeps its session in memory, in local storage (at once for a
transition of the queue, through an autosave for the rest) and, 800 ms later, as a
copy on the service, whose stamped answer it may take over. It submits a task as a
job of the service, waits for it by polling, and after a refresh lists the jobs to
find those that went on without it. An administrator configures the provider of
the platform, discovers its models and sets prices; a submission reserves at the
price of the moment and its charge names the connection.

What is hard. Two locks and a database that are not one transaction; cancel,
timer, provider and runner racing for one job; a process that may die between any
two writes; videos that outlive the process; a restore that renames six
directory entries one by one. For each component the properties that make it
correct are: delivered work is paid and undelivered work is refunded, once; the
provider is never asked for more than was ordered; the record never contradicts
the ledger; a job ends; no job has two runners; the lock excludes, is fair and
forgets nobody; a restore is all or nothing; on the Go server a job is dispatched
once, a settled record is final, nothing in flight is abandoned, and who follows
a job learns its end; an entry of the public square is listed with its image and
its votes; pictures are removed only when nothing shows them; the credits of an
account are those of its rows; a paid job runs on the connection it was charged
for, at prices the administrator last chose; a disabled user has no session; what
the user gave up in the browser stays given up, and its transitions survive a
refresh.

## 2. Modules

| Module | Models | Notes |
|---|---|---|
| `GenerationLedger` | the billing entry of one generation job | operators only, one per SQLite call |
| `GenerationJobs` | jobs, queue, runners, requests, billing of one user, provider, crash | extends `GenerationLedger`; the core |
| `KeyedLock` | `createKeyedLock` | implements `FifoLock` |
| `FifoLock` | a first come, first served lock per key | abstract; `GenerationJobs` relies on it |
| `RestoreTransaction` | restore, recovery and the accesses between | implements `AtomicRestore` |
| `AtomicRestore` | saving an entry, restoring a snapshot in one step | abstract |
| `JobEvents` | `jobevents.Stream` of one job | operators only, one per critical section |
| `GoJobs` | the job store, the handlers and executions of the Go server, restart | extends `JobEvents` |
| `JobFollower` | the event request of a browser and the effect that reads it | extends `GoJobs`, whose steps go on meanwhile |
| `PublicPrompts` | the public square under the lock of the user and that of the publication | extends `KeyedLock`: the composition of both |
| `UserFiles` | history, session and private shares of a user with their pictures, file by file | the requests of one user, one after the other |
| `CreditAccounts` | accounts, rows, codes, bonus, adjustments, settings of the billing database | one synchronous transaction per action |
| `PlatformProviders` | the platform's provider, its discovery, and paid jobs from submission to resumption | extends `CreditAccounts`: the composition of both |
| `StudioAccounts` | users, passwords, sessions, reset tokens, the login limiter | the waits of a login, crashes between transactions |
| `WebQueue` | one desk of the web client: queue, canvas, autosave, session copies, generations, the remote-jobs effect | with as much of the service's jobs as the desk sees |
| `MC*` | instances for TLC | constants only |
| `*Proofs` | theorems | extend the module they are about and TLAPS |

### GenerationJobs and the code

The processes are the runners (one per slot), the one request that holds the
user's data lock (`handler`), the drain timer (`drainDue`), the job timers, the
provider, and the crash. JavaScript runs one continuation at a time, so that an
action is what runs between two awaits. Each access to `jobs.json` is a critical
section of a FIFO lock; the model keeps the order of the waiters in `lock`, and
an action that needs the lock is the critical section together with the
continuation that follows it, up to the next await. That merge is sound because
a continuation touches only memory of its own process and the billing database,
which nothing else can observe between the release and the continuation except
through a later critical section.

| Variable | Code |
|---|---|
| `jobs[j]` | the record in `jobs.json`: status, billing status, upstream task, whether it predates this process |
| `ledger[j]`, `balance` | the `generation_charge` and `generation_refund` rows of a job; `credit_accounts.balance` |
| `items`, `running`, `drainDue` | the queue of `jobQueues` and its pending `setTimeout` |
| `controller[j]` | `activeJobControllers` |
| `run[r]` | the local variables of `runGenerationJob` and of the request it is in, with `pc` naming its await |
| `handler` | the request in progress, with the part of its decision that it will write |
| `sent`, `task` | the provider: requests received, state of a video task |

`Submit/Refuse/Reserve/Accept/AcceptFails` are POST, `Cancel/CancelNothing/
CancelJob/CancelWrite` are DELETE, `Get/GetRead/Resume/Skip/Block/BlockWrite` are
the two GETs with `recoverPersistedVideoJobs`. `Drop`, `Take`, `Start`,
`Gateway` ... `Finish`, `History`, `Catch`, `Fail` are `runGenerationJob` with
`runGenerationRequest` and `runVideoGenerationRequest`. `RunnerFault`,
`AcceptFails` and `RequestFault` are failing writes.

Abstractions: one user (nothing is shared between users but the code); the order
of the records is ignored and none is dropped (`STUDIO_JOB_LIMIT` is 0, unlimited,
by default); an image job stores one output per item, either all from one request
(`Batch`) or each from its own; the wait before a poll and the poll are one
action; `Source[j] = "user"` stands for manual and linked keys, which are not
billed; a refund and the settlement that follows it are one action, because they
are synchronous; a restore of a backup is refused while jobs are active and is a
model of its own.

### KeyedLock and the code

`calls[t]` is the t-th call of `acquire`: its key, the call whose promise it
awaits, and whether it waits, holds or has released. `tails` is the map.
`Acquire` is the synchronous part of `acquire`, `Enter` the resumption after
`await previous`, `Release` the returned function. The refinement maps the calls
of a key that are not done to the waiting line of `FifoLock`.

### RestoreTransaction and the code

`home`, `staged` and `previous` map each of the `ENTRIES` to its contents, `None`
or `Torn` (half written or half removed). `journal` and `had` are `journal.json`.
`pc` is the file operation awaited next, `goal` what follows a recovery. One
action is one file operation of `recoverUserRestore`, `restoreUserBackup` or
`commitUserRestore`. `RecoverFails` and `RestoreFails` are a failing operation
with the catch blocks around it, `Crash` the death of the process. Renames and
atomic JSON writes are atomic; `rm` of a directory and copying into the staging
area are not. The parts of the transaction directory may be removed in any order.
The user's data lock makes the accesses of one user sequential. The backup file
written before a restore lies outside the transaction and is left out; loss of
writes by the operating system (there is no fsync in the code) is not modelled.

### GoJobs and the code

A call is a request with the goroutine it may leave behind; `calls[c].pc` names
what it does next. A step is one critical section (of the store, of the event
stream, of `executionMu`) or one exchange with the provider, and any other call
may run between two steps: Go may preempt a handler anywhere, but it shares
nothing outside these sections.

| Variable | Code |
|---|---|
| `record`, `order` | `GenerationJobs` of the user in the state file; "evicted" is a record that the limit dropped |
| `calls[c]` | the local variables of a handler: `plan` is the job whose plan was made, `job` the handler's copy (the zero job once a transition found no record), `key` what it registered under, `canceled` its context |
| `executionCancels` | the map of the same name |
| `streams` | the streams of `jobevents` |
| `sent` | the provider: generation requests received for a job |

`CreateJob`, `RetryJob`, `CancelExecution; CancelJob` and `Execute` are POST, POST
retry, DELETE and POST execute; `ClaimJob` ... `Finish` are the execution, an
image's in the request and a video's in its goroutine (`executeVideoJob` takes the
same transitions). `TransitionJob` has the four outcomes its callers tell apart.
`Restart` is the death of the process with the `RecoverInterruptedJobs` of the
next one. An early return without an effect (unknown job, twin, not retryable) is
a stutter. Abstractions: job ids are unique; one user and one session; a read of
the state file does not fail, nor the write of a recovery (the server would not
start); images that need no saving and those that do are one nondeterministic
answer; the statuses `gateway` and `image`, which the Go code knows but never
assigns, are left out; a video reports progress a bounded number of times.

### JobFollower and the code

`web` is the effect of `useGenerationWorkspace` for the job it shows, `sse` the
handler of its event request, `wire` the frames between them. `Connect` is the
snapshot, `Subscribe` and `Send` the handler's subscription and loop, `Read` one
`reader.read()` with all frames it returned, `Refetch` the `getJob` after a broken
stream. The job the effect starts with is the one just created or found active
after a reload; what the responses of execute and cancel write over it is not
modelled.

### PublicPrompts and the code

A request is first a call on the lock of its user (`outer`), then one on the lock
of the publication (`inner`); `calls` and `tails` are those of `KeyedLock`, whose
`Acquire`, `Enter` and `Release` are the first conjunct of `Arrive`, `LineUp`,
`Admit` and `Leave`. `metadata` is the JSON file of each publication, `files` the
copied images. Between the locks every file operation is a step that may fail.
`promised` collects the reactions as if each were applied at once; comparing it
with the file is `ReactionsKept`.

### UserFiles and the code

`assets` maps a URL (directory, index) to the picture in its file; `saved` are the
documents (`records.json`, the session), `shares` is `community-prompts.json`,
`request` is the one request that holds the lock of the user, with the file
operation it is at. `StoreUrl` is `storeResultUrl` for one position, `Prune` is
`pruneSessionAssets`, `PreserveOne` and `PreserveDone` are
`preserveLegacySharedAssets`. `CutShort` is a failing operation or the death of the
process, after part of a removal where files are removed. `meant` remembers what the
last complete save of a document was to show.

### CreditAccounts, PlatformProviders and the code

An operation of the billing store is one SQLite transaction, so that its action is
the whole call. `rows` are the transactions by reference, `charges` the metadata of
a charge row. `provider` is the row of `studio_platform_providers`; `secret` stands
for the encrypted key, which is encrypted anew whenever it is saved. `BeginSync` is
`sync` up to its request, `FinishSync` the conditional update that follows.
`Submit` is `runtime` with `reserveJobCredits`, `Recover` the branch of
`recoverPersistedVideoJobs` for a paid task. `jobs[j].runtime` is the runtime in
memory, which `Crash` loses. The jobs' own order of events is that of
`GenerationJobs`; here a job only attaches, delivers, completes and fails.

### StudioAccounts and the code

`logins[r]` is a login or registration that waits for `derivePassword`, with the row it
read before. All other calls are synchronous. `CreateUser` and `GrantRegistrationBonus` are
two transactions: `Crash` may come between them. `Age` is the window of the limiter
and the life of a reset token. The number of a password stands for its hash.

### WebQueue and the code

| Variable | Code |
|---|---|
| `queue`, `canvas`, `changed` | `generationQueueRef`, the canvas nodes, `updatedAt` of the session in memory |
| `stored`, `pending` | the session in local storage, the snapshot that `useSessionAutosave` holds |
| `saves`, `server`, `clock` | the session saves, the copy of the service, the stamps it has given |
| `run[t]`, `foreground` | the `generate` of a task at one of its awaits, with its request context; `generationRef` |
| `sync`, `recovered` | the remote-jobs effect and `recoveredJobIds` |
| `jobs`, `cancels` | the service's jobs and the cancel requests on their way |

`Commit` is `commitCurrentSessionPatch`, which every transition of the queue ends
with; an action of the browser is what runs between two awaits. `Posted`, `Waited`,
`Resolved`, `PostFails` are the continuations of `generate`; `TimesOut` is its timer;
`CancelRemote`, `StopLocal`, `Retry`, `Dismiss` are the buttons; `Listed`, `BeginAttach`,
`Attach`, `Follow`, `Followed` are the effect after a refresh. Abstractions: one desk and one
session; tasks are images without references, through the service; the canvas is
the set of jobs whose pictures it shows; concurrency is unlimited, the default; the
clocks of page and service agree, and time passes with each stamp.

## 3. What the runs check

| Run | Bounds | Shows |
|---|---|---|
| `queue` | 1 slot, a platform image job of 2 outputs and a video on the service key, cancels | `CanceledNeverSent`, `FailureRefunded`, `BalanceAccounted`, `NoLostWakeup`, `EveryJobEnds` |
| `crash` | 2 slots, 1 platform video, 1 crash, cancels, 1 transient poll failure | `RequestsWithinOrder`, `SuccessPaid`, `BillTruthful` |
| `faults` | 2 slots, 2 platform orders of 2 with one fingerprint, 4 credits, a cancel, 1 failed write | `KeptCoversDelivered`, `ChargeHasJob`, `OneRunner`, `ActiveJobsDiffer` |
| `restore` | 3 entries, 2 contents, any number of crashes and failures | `Atomic`, `RecoveryKeepsData`, `AccessEnds` |
| `go_jobs` | 3 records with one fingerprint, room for 2, images and videos, 5 requests of which 3 at a time, 1 restart, 1 failed write | `DispatchedOnce`, `InFlightHasRunner`, `RunningIsCancelable`, `AttemptsDiffer`, `TerminalFinal` |
| `follower` | 1 image job, 2 requests at a time, 1 restart, 2 frames on the wire, 2 connections, fair | `CaughtUpKnows`, `SettledShownIsStored`, `FollowingEnds`, `ClaimedJobsSettle` |
| `publications` | 2 users, 1 publication, 3 requests, 6 calls of the locks, fair | `ListedIsWhole`, `ReactionsKept`, `MapIsLive`, `Implements`, `EveryRequestEnds` |
| `user_files` | 1 record, the session, 2 shares, 1 picture, 2 pictures per document, any number of requests and failures | `ReferencesResolve`, `SharesKeepPictures` |
| `platform` | 1 user, 1 model, 1 price, 1 job of 2 outputs, 1 code, 1 adjustment, 4 writes of the provider | `BooksBalance`, `OffersReported`, `ChoicesStand`, `RunsAsCharged` |
| `accounts` | 2 users, 1 of them from a gateway, 3 login requests, 2 at a time, 2 sessions, limit 2 | `SessionsOfActive`, `FailuresBounded` |
| `client` | 2 tasks with one fingerprint, 1 job, 1 save, 1 refresh | `DurableTransitions`, `AbandonedNeverPublish`, `CanceledStays` |
| `client_saves` | 1 task, 1 save, no refresh | `CanvasKept` is violated |

The passing instances have from 120,837 (`publications`) to 3,197,979 distinct states; the largest, `client`,
takes under three minutes with two workers.

Why the bounds are enough to be interesting. Two slots are the least with which
a runner can meet another. Two jobs on one slot let a job wait while the slot
frees, two jobs with one fingerprint let a twin be submitted while the first is
active or cancelled. An order of two is the least with a partial delivery. One
crash reaches every pair of steps; a second one finds no state that the first did
not (records are stale or not). Three entries give a restore an entry that is done,
one in work and one untouched; crashes and failures are unbounded there. Five
requests settle a job, retry it, retry it again and submit it again, or execute it
twice under a cancel; three at a time let two executions and a cancel meet. Room for
two of three records drops one while it is in flight. A replay of 8 keeps everything
(as 64 does for one execution) while a live buffer of 1 loses events (as 16 does for a
slow browser); two connections let a browser resume once. Two frames on the wire are
the least that one read can return together. Three requests on one publication are a
publish and two that meet on it, or one that comes while another waits; six calls
are the two locks of each. Two pictures in a document let a new one take the file of
an old one, and two shares let a removal be cut short between their copies. Four
writes of the provider fit two saves and a discovery between them after the first. Two
logins at a time with a limit of two let the limit be passed by the one that was
waiting. One refresh and one save with two tasks reach every order of a list, a
cancel and a retry of one job; what two saves could add is a second adoption of the
same kind.

### The disagreement found

`client_saves`: the answer of a session save is taken over by the desk whenever its
stamp is newer than the last local change. The stamp is that of the service, after it
has sanitized the copy; the content is at least 800 ms older. A picture that is
published in between vanishes from the canvas, although `useCanvasNodes.js:37-42` promises
that a late arrival never overwrites an edited canvas. The finding in `PROJECT.json`
has the lines. A later list of jobs brings the picture back after a refresh.

### Observations without a run

Behaviours met while modelling that no property states, because the code or its
documents promise nothing, or because the property is stated where it holds:

* Node jobs. A video that was saving, or already refunded, when the process died is
  neither normalised (history service, line 862) nor resumed, and stays active at every
  later read. The failed status of a polled video is saved before its refund (line
  2090): a crash in between loses the refund. A resumed video that waits in the queue is
  canceled as never dispatched (line 3375) and refunded in full although its task runs
  upstream.
* Go jobs. A cancel between the claim and the registration of the cancel function
  (`server.go:647`, `862`) changes the record and stops nothing: the provider is asked all
  the same. The server publishes `canceled` after a DELETE of a job that had completed or
  failed, and `failed` with an empty record when a save fails after a cancel. The job limit
  drops active records.
* Browser of the Go server. Frames that are read together with a settled record are shown
  after it, so that it may stop following on an older stage (`SettledShownIsStored` holds:
  it never shows a settled status that is not stored). `CaughtUpKnows` names the two ways in
  which the end of a job can be missed: a slow subscriber, and a cursor that a former
  process numbered.
* Pictures. A save stores a new picture at its position, also over a file that the same
  body still names at another position; the document then shows the new picture twice
  (`ReferencesResolve` asks for a picture, not for which). Deleting a record leaves URLs of a
  session that showed it dangling, and a source image is not collected by the prune.
  The server accepts any well-formed identifier of a record; one that names the directory of
  a session or a share would break `DirsDiffer`, but clients draw theirs at random.
* Providers. Saving the same key again encrypts it anew and so changes the connection: the
  models must be discovered again and paid tasks upstream are blocked at the next restart. So
  does switching credits off.
* Accounts. A crash between the creation of a user and its bonus loses the bonus
  (`BonusOnce` is "at most").
* Web client. The Stop buttons pass the click event as the task identifier
  (`studio.jsx:4609`, `5363`, `5406`), so that `stopGeneration` finds no task; the model has the action for
  a caller that names one. `runGenerationQueue` marks items of the service that are queued as
  failed (3037-3043) until the next list. The remote-jobs effect follows one active job only.
  A retry does not repeat the test for duplicates. The POST of a job is not aborted.

### Fairness

`GenerationJobs!FairSpec`: the event loop runs every continuation that is ready
(weak fairness of a runner's step, of the drain timer and of the request's step);
the job timer fires; the write of the history awaits a FIFO lock behind requests
that each end, hence strong fairness. The provider owes nothing, so that
`EveryJobEnds` rests on the timers alone. `PublicPrompts!PSpec`: every request that
can go on is resumed by the event loop (weak fairness per request); a failing file
operation ends in the same `finally` blocks, so that it releases both locks. `RestoreTransaction!FairSpec`:
the event loop goes on with an access; failures and crashes are allowed at any
time and never required. `JobFollower!FFairSpec`: goroutines are scheduled, the
deadline of the context ends a provider that does not answer (so that the step
that waits for it is taken), frames arrive and the browser reads them; the
connection may break at any time and need not.

## 4. What is proved

TLAPS proves what follows for every value of the constants that satisfies the named
assumptions of the modules. TLC evaluates each of them in a run. Those that say more
than the type of a constant, and why the code justifies them:

* `LedgerAssumption`, `JobsAssumption`: prices and orders are numbers, a video has one
  output, the slots are finitely many.
* `KeysAssumption` (`PublicPrompts`): the users are finitely many; a counter of reactions
  counts votes of users.
* `DirsDiffer` (`UserFiles`): records, session and shares have directories of their own, as long
  as no client makes up the name of another's directory (section 3).
* `CreditAssumption`: no user is called as a state of a credit code is; the code keeps
  the two in different columns.
* `NamesDiffer` (`WebQueue`): task and job identifiers come from different generators.
* `IsFiniteSet(Jobs)` is a hypothesis of `CreditsAreKept` and of `CanceledTasksStay`, which
  speak of a sum and of a list over all jobs; `ReplayCapacity >= 4` one of `FollowerLearns`.

With these, every safety property and every action property of a passing run is stated by
a theorem. Those of `GenerationJobs` first, all in `GenerationJobsProofs`:

* `DeliveredIsPaid`: what a platform job was charged, net of its refund, covers what it
  delivered. The property alone is not inductive: an output recorded after a partial
  refund would break it. `IInv` adds, per entry (`EntryOK` of `GenerationLedger`), that
  the outputs never exceed the order, that nothing is given back without a refund row (so
  that an entry that still accepts outputs has given nothing back), that a refund leaves
  the price of what was delivered, and the types of all variables. Lemmas of their own
  show that each billing call preserves `EntryOK`; the step lemmas show that no action
  changes an entry in any other way. `TypeCorrect` follows, with the balance never negative.
* `SafetyInvariant`: `SInv`, from which `CanceledStaysUnsent`, `RunnersAreAlone`, `SuccessIsPaid`,
  `SentWithinOrder`, `ChargesHaveJobs`, `FailuresAreRefunded`, `BillsAreTrue` and `TwinsAreRefused`
  follow. It was first checked with TLC on the runs of `GenerationJobs`. Its parts say
  what one piece of state means for the others: what an entry's flags say of its amounts
  (`EntriesFull`); what a record claims of its entry and of the requests sent (`JobsOK`);
  what a runner, by the await it is in, has sent, recorded and paid (`RunnersOK`); that a
  first run of a job is its only one (`FirstRunAlone`) and owns its controller
  (`ControllersOK`); that an item of the queue stands for a job untouched since its
  submission, unless it resumes a video (`ItemsOK`); that what the request in progress is
  about to write is still right (`RequestOK`); that a canceled image job has nothing left
  in memory and got its credits back (`CanceledOK`). A step changes one job, so that each
  part is shown for that job and the rest carried over.
* Two of these properties hold only without the failures that really break them, and the
  theorems say so. `ChargesHaveJobs` has the hypothesis `crashes = 0`: a process that dies
  between `reserveCredits` and the write of the record leaves a charge without a job.
  `FailuresAreRefunded` has `crashes = 0` and `faults = 0`: a poll that learns of the
  failure writes the record before the refund, and a crash or a failing write in between
  leaves the job failed and the charge kept. The runs bound both to the same cases.
* `QueueAwake`: a queue whose head can run has a drain pending.
* `CreditsAreKept`: each step moves credits between the balance and one entry (`Exchange`),
  so that their sum stays. The sum is a fold over `Jobs`. The induction over a fold is
  done without the library's induction theorems: a smallest subset for which a claim
  fails exists, because the strict subsets of a finite set are well founded
  (`FS_StrictSubsetOrderingWellFounded`, `WFMin`), and it cannot. The lemmas on sums
  appear again in `PlatformProvidersProofs`, which has no module in common with this one.

`KeyedLockProofs`, the lock and the public square under it:

* `MutualExclusion`, `MapMatches` and `Refinement` (the promise chain implements `FifoLock`) from
  `Chained`: a call that is not done is never behind the promise that a later call of
  its key awaits, nor behind the map.
* `ListedStaysWhole` and `NoReactionIsLost` from `PInv`: a request inside the lock of its
  publication has a place in that lock's line nobody else has (`LinesOK`, `PlacesDiffer`),
  so that by mutual exclusion what it read is still stored (`WorkOK`); an identifier is
  drawn once (`DrawnOnce`); a listed publication has its image, and its counters are the
  numbers of its users' votes (`ListedOK`). The last is not a bookkeeping identity: the
  code adds and subtracts one, and the proof is that a vote joins one set and leaves the
  other.

`RestoreTransactionProofs`:

* `RestoreIsAtomic` (the journaled restore implements the atomic one), `RecoveryIsHarmless`
  and `CleanAfterRecovery`. The view of the user's data is the old entry, in `previous` or
  still in place, under a prepared journal, and what is in place otherwise; the invariant
  says, phase by phase, which entries have moved (`Journaled`, `RollbackOK`, `StageOK`,
  `SwitchOK`), so that every step leaves the view alone except a save and the one write
  of the committed journal.

`UserFilesProofs`:

* `PicturesStay` and `SharesStayWhole` from `UInv`: a document refers only to pictures of its own
  directory (`FilesOK`); what its last complete save was to show is there unless a request
  is changing it (`ShownOK`); a save under way has stored what it names so far, and still
  has what it was given by URL (`SaveOK`); a share of an older version shows a record's
  picture only until the request that removes that record has made the copy
  (`SharesOK`, `CopiesOK`, `RequestOK`).

`GoJobsProofs`, the Go server and the browser that follows it:

* `SentOnce` and `SettledStays`. `DispatchedOnce` is not inductive: a second request on its
  way to the provider would break it. `IInv` adds that a request which has passed
  `ClaimJob` is the only one with its job, that the job was not sent before that request
  is past `Request`, and that a claimed job is never queued again (so that the next claim
  fails), restarts included. For `TerminalFinal` it adds that exactly completed work has
  a result: the transition table lets a status be written over itself. Every step but two
  is shown to advance the records (`RecordsAdvance`) and the requests (`CallsAdvance`), which
  is enough (`AdvanceKeepsInv`); the claim and the send have proofs of their own.
* `NoneIsLeft` from `JInv`, whose `StagesOK` says which statuses a record may have while its
  execution is at each of its steps, and what the execution's copy of the job may be (the
  zero job once a transition found no record); `CancelFindsIt` from `KeysOK` (the entry of
  the table under an execution's key is that execution); `AttemptsAreApart`, which is inductive
  once `IInv` is known.
* `ShownIsTrue` and `FollowerLearns` from `FInv` and `LearnsOK`. Whatever says that a job has
  settled, in a request, in a replay, in a channel, on the wire or in the browser, is true
  (`TruthOK`). And of a job that has settled, what will tell the browser so is somewhere:
  on the wire, still to be published, in its channel, or in the replay with few enough
  events behind it. How few is a budget: after the event that settles a job, at most
  three late events can still be published on it (the "queued" of the request that made
  it, one that the execution was about to publish, and the "" of a failed save that found
  the job gone), and each uses up a part of the budget (`Heard`, `Budget`). A replay of four
  is therefore enough, and TLC finds `CaughtUpKnows` violated with three; the code keeps 64.

`StudioAccountsProofs`:

* `NoSessionOfDisabled`, `FailuresStayBounded` and `BonusGrantedOnce`, each with an invariant
  of its own. A session is opened only by a login whose `MayOpen` reads the user again.
  For the limiter the invariant is the property, with finite sets of waiting logins:
  letting one in adds one to the waiting and leaves room below the concurrency, ending it
  moves one from the waiting to the failures at most. A second bonus is excluded because
  a user who does not exist has none.

`PlatformProvidersProofs`:

* `PaidForRuns` from `JobsInv`; `OffersAreReported` and `ChoicesAreKept` from `ProviderInv`. Both
  fail to be inductive because a discovery writes models it read long before; the
  invariant says that a discovery whose revision is still that of the row has read this
  very row, and that no discovery has a revision of the future.
* `BooksAreBalanced` from `CreditInv`. The code clamps `lifetime_spent` at zero, so that the
  account would part from its rows if a refund ever exceeded what was spent. `Books` adds to
  the property that a refund row has its charge row, which covers it, and that what was
  spent is also the sum of these net costs, none negative; `OrdersCharged` that a charge is the
  price of its order, of which no more is delivered than was ordered; `CodesPaid` that a code's
  row is its redeemer's; `Owned` that a job in memory is some user's. A refund, then, never
  reaches the clamp.

`WebQueueProofs`:

* `AbandonedAreSilent` from `RunsInv` (what was given up is not current, and an identifier is
  not taken twice, so that a retry cannot make it current again), and
  `TransitionsAreDurable` from `DurableInv`: a snapshot that the autosave holds is that of the
  desk unless a copy was taken over, and every copy that may come back is already as a
  refresh restores it (restoring twice is restoring once, and what the service sanitizes
  stays restored).
* `CanceledTasksStay`. The property needs that the item under the identifier of a job is that
  job's, in the queue and in every copy that may come back (`Keyed`, `DocsKeyed`): otherwise
  taking in one job could overwrite the canceled item of another. A list of jobs is a
  fold; one job of it leaves every canceled task canceled or idle (`Calm`,
  `TakeKeepsCalm`), and the smallest subset of the jobs after which it would not does
  not exist (`UpsertAllCalm`). Every other transition only settles or removes items
  (`Fewer`), adds one of no job, or is the one that ties a task to its job, which the
  property names.

What stays with TLC: the liveness properties `EveryJobEnds`, `AccessEnds`, `FollowingEnds`,
`ClaimedJobsSettle` and `EveryRequestEnds`, because neither `ENABLED` nor fairness is in reach
of the prover; and `CanvasKept`, which is violated.

## 5. What is not modelled, and the plan

In order of importance:

1. `WebQueue` with two desks or users, references awaited before the request, batches and
   videos; a stop that knows the job while its POST is under way.
2. `JobFollower` with the responses of execute and cancel, which also replace the shown job.
3. Several sessions of a user and their indexes (`userStorage.js`), the cached assets of the
   library, the limiters per address, user provider connections.
4. The asset store, projects and migration of the Go server; `STUDIO_JOB_LIMIT` of the Node
   service.
5. Proofs: that `GenerationJobs` relies on no more of its locks than `FifoLock` promises, as a
   refinement; the parts of the liveness arguments that are safety (what decreases, and
   that nothing else can undo it).

Left out for good: the user interface (most of `studio.jsx` and the components), translations,
provider request formats (`aiGatewayClient.js`), hashing and encryption, operations and smoke
scripts, data and assets: they keep no state whose order matters, or are pure conversion.
They are most of the lines of the repository.
