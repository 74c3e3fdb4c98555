# Orchestrate: a TLA+ verification project

Orchestrate is a multi-tenant job system on NestJS, BullMQ, Redis and PostgreSQL.
An API accepts jobs, a per-tenant cap admits or parks them, BullMQ delivers the
admitted ones to worker processes, a base class runs every job through the same
life cycle, and a chain service strings jobs into workflows.  All coordination is
done by separate Redis commands and separate SQL statements issued from several
Node.js processes: no transactions, no locks, no scripts.  Between two `await`s
anything may happen, and that is what this project models.

## Inventory

| Component | State | Operations | Talks to |
|---|---|---|---|
| Tenant cap (`tenant-cap.service.ts`) | Redis counter `tenant:inflight:<id>` with a TTL, list `tenant:staging:<id>` | `submitJob`, `release`, `drainOne` | called by jobs, batch, chain services and by every worker; calls the queue service |
| Queue service (`queue.service.ts`, `resolvedQueueName.ts`) | BullMQ queues and repetitions | `enqueue` (queue lookup, attempts, priority, delay, cron, idempotency key), list/stop recurring | BullMQ |
| Job execution (`base.processor.ts`) | rows `jobs`, `job_attempts`, `queue_sequences`, `recurring_jobs` | `execute`: skip, number, open attempt, process, close, release | tenant cap, chain service, reconcile counters |
| Base worker, worker registry | BullMQ workers (concurrency 1), rate key `jobs:<tenant>:<minute>`, `<queue>_DLQ` | handler, `failed` listener, spawn, terminate | execution, BullMQ |
| Workflows (`chain.service.ts`) | `jobs.status`, `job_dependencies` | `createWorkFlow`, `onJobCompleted`, `unlockChildren`, `scheduleNextJob`, `handleParentFailure` | called from `execute()`; calls the tenant cap |
| Jobs service | `jobs`, `recurring_job` | create and enqueue, `retryFailedJob` | tenant cap |
| Batch jobs | `jobs` | `submitBatch`, one submission per entry | tenant cap |
| Autoscaler | time of the last scaling per queue | periodic `tick` | worker registry, BullMQ counts |
| Band promoter | job priorities in BullMQ | periodic promotion by waiting time | BullMQ |
| Reconcile counters | Redis hashes per queue | increments, `decrementFloorZero`, `/metrics/reconcile` | cap, execution, metrics controller |
| Email processor | `notifications` rows, mails | `process`: verify, look up, insert, send, update, per recipient | Hunter, SMTP, PostgreSQL |
| ETL processor | `processed_users`, a chained job | `process`: check dependency, extract, transform, load, chain | tenant cap |
| Media, report processors | files: downloads, outputs, the shared temporary directory | `process`: download, transcode, filter, write, copy, clean | disk, S3 |
| ML processor | `ModelLoader`'s Tesseract worker | `process`: inference under a timeout | Tesseract |
| Auth, roles, metrics, dashboard, deployment | - | request handling, observability, wiring | - |

What is hard here, and where each component can go wrong:

* **Tenant cap.** Slots must balance although the counter is changed before and
  after the fact by different processes, a payload must be in one place only, a
  staged job must not be lost.
* **Execution.** BullMQ, the database and the cap each learn of a job's end in a
  different step; any step may throw, the process may die, the lock may be lost and
  the job run twice.  Releases, attempt rows and statuses must survive that.
* **Processors.** `process()` is repeated from its beginning after any failure, and
  may run twice at once; mails, chained jobs and files must bear it.
* **Workflows.** Counting, picking and claiming are separate statements; a job must
  not start before its parents, nor two at once, and the pick must not miss a job.
* **Requests.** None is a transaction: rows are saved before the payload is handed
  over, and what was saved before a throw stays.
* **Autoscaler, promoter.** Decisions on counts and lists that are stale when used,
  in ticks that overlap.
* **Reconcile counters.** A decrement is a read and a write, and its floor at zero
  forgets; the report adds up reads taken at different moments.

`PROJECT.json` lists the hazards with the line where each bites.

## Modules

| Module | Models | State and actions |
|---|---|---|
| `TenantCap` | `tenant-cap.service.ts` for one tenant | `inflight`, `ttl`, `staging` are the Redis keys; `sub` the position of each `submitJob()` call, `wrk`/`cur`/`held` of each `release()`; `place` is BullMQ's view. One action per Redis command or `enqueue()`. `drift` is a ghost: what the counter was made to forget |
| `AdmissionControl` | what the cap promises, atomically | one action each to admit, park, unpark, finish and refuse |
| `Reconcile` | the reconcile counters, the calls in `submitJob()`, `drainOne()` and `execute()` that move them, and `/metrics/reconcile` | `totals`, `pre`, `terminal` are the hashes; `reg` what an HGET read; `rep`/`seen` the report. `calm` and `hazy` are ghosts: the report began at rest; an HSET wrote something else than one less |
| `JobExecution` | `execute()`, the worker's handler and `failed` listener | `run[w]` holds the locals of the `execute()` that worker `w` is in; one action per `await`; `tally` counts the calls made to other components |
| `Delivery` | what a processor sees of `JobExecution`: deliveries, attempts, skip of a completed job, crashes, lost locks | `bull`, `made`, `lock`, `finished`; `pc`/`at` per worker. A frame: each processor adds its own steps between `"start"` and `"done"` |
| `EmailProcessor`, `EtlProcessor`, `FileProcessors`, `MlProcessor` | `process()` of each worker | one action per statement, request or file operation; `note`/`mails`, `dep`/`next`, `files`/`tempDir`, `cached`/`late` are what is left outside the process |
| `Processors` | the composition: jobs of any kind under `Delivery` | `kind` says which processor a job has |
| `Workflow` | `chain.service.ts` for one running workflow | every scheduler (the creating API call, each BullMQ task) is an actor with `pc` and locals; `stack` is the explicit call stack of the depth-first pick: per level, the siblings not yet visited |
| `JobApi` | what requests do up to `submitJob()`: create, batch, `createWorkFlow()`, retry, stop, notifications | a request is a process, `at` the key or position its loop has in hand; `rows`, `deps`, `recurring` are the tables, `staged`/`sent` the payloads, `repeats` BullMQ's repetitions |
| `Scaling` | autoscaler, worker registry and band promoter over one queue | `pool` is the registry's list, `closing` the workers whose `close()` is under way, `pc` the position of each tick; times are ages that stop at the cooldown |
| `TenantCapProofs`, `ScalingProofs`, `ExecutionProofs`, `ExecutionLedgerProofs`, `ReconcileProofs`, `ProcessorsProofs`, `WorkflowProofs`, `JobApiProofs` | theorems about the modules they name | - |
| `MC...` | small instances | constants, sets of loads and scenes, symmetry |

How they fit: `JobApi` ends where a payload reaches `submitJob()`, `TenantCap` opens
that call up and ends where BullMQ has the job, `JobExecution` begins there and ends
with `release()` (back in `TenantCap`) and with the calls into `Workflow`; `Processors`
opens the one step that `JobExecution` leaves as success or failure, and `Reconcile`
runs across the cap and the execution at the grain of the counters' commands.

Names follow the source.  A definition whose name ends in `_Something` after an
action's name is that action with one plausible mistake; it is used by no
specification and is there to show that a property would notice.

Abstractions.  Payloads are identities; of mails, rows, files and images only what a
property tells apart is kept.  BullMQ is modelled by what the code relies on: it
delivers a waiting job to one free worker, counts attempts, ignores an id it knows,
redelivers a job whose worker died and fails a job that stalls twice; delays and
back-off are arbitrary waiting.  Log rows and Prometheus metrics, which nothing reads
back, are left out.  In `JobExecution` `release()` and the chain service's calls are
single steps, in `Workflow` and `JobApi` `submitJob()` is one, which may throw before or
after its effect.  In `Workflow` the children and strategies of a job, which never
change, are read together with the step that uses them.

## Runs

Passing runs:

| Run | Instance | Shows |
|---|---|---|
| `cap_faults` | 4 jobs (one cron), 2 workers, cap 1; one crash, key expiry, throwing `enqueue()`, retry and cron run | the counter and its drift account for every slot (`SlotLedger`); the overshoot is one job per release under way (`CapSlack`); no payload is in two places (`NoDuplicate`) and only a crash loses one (`LostOnlyByCrash`) |
| `cap_refines` | 4 jobs, 1 worker, cap 2, one throw, one retry; fair | `TenantCap` implements `AdmissionControl` with a limit of cap + 1; every admitted job ends and is released (`AdmittedCompletes`) |
| `exec_faults` | 1 job, 2 workers, 3 attempts, 2 failing statements, 2 crashes, lost lock | releases, terminal counts and attempt rows are off by a fault at most (`ReleaseBalance`, `CountedOnce`, `RowsClosed`); BullMQ and database agree (`OutcomeAgrees`); a completed job is not started over (`CompletedSticks`) |
| `exec_settles` | 2 jobs (one cron, run twice), one limited and one spawned worker, 1 job a minute, 2 attempts; fair | every job completes or reaches the DLQ (`Settles`) |
| `proc_faults` | one job of any kind, or two reports, or two OCR jobs; 2 workers, 2 attempts, 2 recipients (one malformed); one failing call, crash and lost lock | a second mail (beyond the clashes of a lost lock), chained job or abandoned file is explained by a fault (`MailedAgainOnlyByFault`, `ChainedOnce`, `FilesKept`); rows and mails agree (`MailLedger`); reports cost each other one attempt per clean-up at most (`FewReportsLost`); one OCR worker is enough once it is there (`OcrWorkerKept`) |
| `flow_faults` | 4 jobs in five graphs (two roots, two parents, two levels, a diamond), 2 attempts, crash, throwing `submitJob()` | no job before its parents have run (`DependencyOrder`), one at a time until a crash (`OneActive`), left QUEUED by a fault only (`StrandedOnlyByFault`), also where two schedulers overlap after a crash and write each other's rows back |
| `flow_forest` | all forests over 3 jobs, 2 attempts; fair | the workflow comes to rest with nothing left that could run (`WorkflowEnds`) |
| `api_requests` | a create or batch, another request and a retry at once, or one workflow of any shape over 3 keys with unknown parents and missing types; one crash, failing statement, failed job | nobody answered ok is left waiting (`LimboIsTold`); a key buys one job and a job is sent once (`SubmittedOnce`); no job of a torn workflow can run (`FlowWhole`); the cycle check is exact for single parents (`CycleCheckExact`) |
| `scale_ticks` | 3 jobs in mixed bands, 1 to 2 workers, 2 overlapping ticks, one restart; fair | `PoolInBounds`, `JobsKept`, `CooldownKept`, `AllRun` |
| `recon_races` | 3 submissions, 2 workers, one throwing command | the counters are exact at rest unless a decrement raced (`LedgerExact`); a throw costs or doubles one payload at most (`PayloadsKept`); a report on a quiet queue is off by the DLQ exactly (`ReportOffByDlq`) |

Runs that disagree with a comment or message of the source (each is a finding):

| Run | Instance | The source says | The code does |
|---|---|---|---|
| `flow_inversion` | all graphs over 3 jobs, 2 priorities | "returns the first ready job found respecting prority among the siblings" | a WAITING sibling ahead of it hides it for good |
| `flow_skip` | a chain of 2, 2 attempts | "skipped due to STRICT failure strategy" | also when the parent completes on a retry |

What the passing properties allow on purpose, because the code does not do better:

* `CapSlack` allows one job above the cap per worker: between release's `DECR` and
  the drain's `INCR` a new submission may take the slot of the drained job.  `drift`
  in `SlotLedger` also stands for slots nobody holds: a drained job that is released
  before `drainOne()` has counted it takes the counter to -1, which is reset, and the
  late `INCR` stays until the key expires.
* A job staged just after the tenant's last release found the list empty waits until
  another job of the tenant ends.
* `ReleaseBalance` has a term for a final attempt stopped by the rate limiter, which
  is never released, and one for a statement that throws after `process()`, where
  the job is released and then runs, and is released, again.
* `CountedOnce` does not make the failed and the dead-letter bucket exclusive: the
  code counts a finally failed job in both, although the comment above that code
  says it is counted once; `ReportOffByDlq` says by how much the report is off.
* `OneActive` holds until a crash: after one, two schedulers may pick the same job,
  and the slower claim, an unconditional UPDATE, may reset a COMPLETED job to QUEUED;
  `unlockChildren()` may set one back to READY in the same way.  `DependencyOrder`
  therefore lets a parent be put back after a crash, though not run again.  It takes
  four jobs to see this, hence the four of `flow_faults`.
* `StrandedOnlyByFault` counts one job per fault only for the jobs that BullMQ never had.
  A job that has ended and is put back to QUEUED is never run again either; with one crash
  and one throw three of six jobs can be left, more than one per scheduler, so of these
  only that it takes a crash is claimed.
* A second READY job of a workflow stays in the database until the first has ended,
  although `scheduleNextJob()`'s comment says that no job is blocked from entering the
  queue (`chain.service.ts:259`).
* Two jobs may read the same sequence number; nothing relies on it being unique.
* `LimboIsTold` and `FlowWhole` do not say that a refused request leaves no rows:
  `createAndEnqueue()` leaves a QUEUED row when `submitJob()` throws and
  `createWorkFlow()` leaves the rows it saved before it met an unknown parent.
* A payload with the alias `media-jobs` can be staged but never enqueued: each release
  pops it, is refused a queue and puts it back at the head of the list.
* `stopRecurringJob()` removes nothing: it looks for the tenant's id inside ids that
  do not contain it (`Includes`).
* `MailedAgainOnlyByFault` allows a second mail per fault and, once a lock was lost, one
  more for each later recipient of the job (`Clashes`): the run that goes on without its
  lock may insert a recipient's row between the other run's lookup and its insert, which
  then throws, and the next attempt begins with the first recipient again.  A row is
  created once, so there is one clash per row at most, but the cost of a single lost lock
  grows with the recipients.  `FewReportsLost` allows one lost attempt per clean-up of another report.
* `CooldownKept` holds only while ticks do not overlap an unfinished `close()`.

**Bounds.**  Two workers give every pairwise race of two releases, of two runs of one
job, of two inferences or of two reports; a third would add only more of the same per
worker, and the theorems cover any number.  Jobs of a queue meet only in the sequence
row and the rate key, so one job is enough for `exec_faults` and two for
`exec_settles`.  Three jobs are the smallest workflow with a diamond-free inversion,
two roots with a subtree, or a child of two parents; four are the smallest in which two
schedulers that overlap after a crash set back a parent whose child is unlocked, and the
five graphs of `flow_faults` are those where their walks differ (`WorkflowProofs` covers
every graph).  Three
keys are the smallest graph in which the cycle search meets a node that an earlier search
has left; equal priorities lose nothing when all labelled graphs are enumerated, since
only the order of siblings matters (`flow_inversion` has two priorities because its point
is that order).  Three requests are a job, a competitor for its key or its repetition, and a
retry of either.  Two ticks overlap in every way that two can; firings while both are
under way are dropped, and times stop counting at the cooldown.  A promotion scan
loads one job, so that jobs change between the load and the promotion.  Three
submissions fill the list twice while two workers drain.  A report that is overtaken
is not followed further, since nothing is claimed of what it adds up.  Faults are
counted in `Faults`: one of each, so that every pair of kinds meets, and two failing
statements where a fault in the retry of a fault matters.  Counters need no cap of
their own: each is bounded by the jobs, attempts and faults.

**Deadlock** is not checked: the system rests when all jobs have ended and all
requests are answered.

**Fairness.**  Weak fairness of each process's own steps: an `await` whose answer has
come is resumed by the event loop, BullMQ hands a waiting job to an idle worker (in
`Scaling`, to some worker of the pool: the jobs compete, and each that is taken
finishes), a listener that was called runs, a job's work ends, time passes and the
interval fires.  No fairness for a client's submission, a user's retry, the aging or
promotion of a job, or a fault.

## Proofs

Seven components are proved about, for every value of their constants.  No assumption is
used but the named ones in the component's module: finite sets, natural numbers, shapes
that are shapes; the one exception, `OneQuietWorker`, is explained below.

**`TenantCapProofs`** (any jobs, workers, cap, faults).  `NoDuplicate` is not inductive:
that a payload pushed back is nowhere else depends on each worker's `cur` matching its
place in `drainOne()`.  `Shape` adds this (`Consistent`) and the types, and the three are
inductive together; `TypeCorrect` and `NeverDuplicated` read them off.  `LedgerInvariant`
proves `SlotLedger` with `OvershootBound`: every action moves the counter, `drift` and the
number of jobs and calls that use a slot by amounts that cancel, which the lemmas
`SubCount`, `PlaceCount` and `WrkCount` count from one fact on the cardinality of a set of
positions when one position changes; the overshoot has one term per worker between `DECR`
and `INCR`.  `CapHolds` (`CapSlack`) is the arithmetic of the two.  `LossesAreCrashes`
(`LostOnlyByCrash`) has one fact per action: the step loses nothing (`Kept`), or it spends
a crash and loses what the dead worker held (`CostsOne`).

`AdmissionImplemented` is the refinement of `AdmissionControl`, step by step: under
`OneQuietWorker` every command of `submitJob()` and `release()` maps to one abstract step
or to a stutter.  The hypothesis says one worker,
no crash, no expired key and no repetition of a cron job; a throwing `enqueue()` and
retries stay allowed.  It is needed: with two workers one can release the job that the
other has drained and not yet counted, the counter falls below zero, and the `SET 0` that
follows may overwrite admissions made meanwhile, so that the cap is exceeded for good.
`Quiet` carries it through a behaviour (`drift` stays
0); `RoomToSubmit` and `RoomToDrain` turn the ledger into the abstract guards.

**`ScalingProofs`** (any jobs, bounds of the pool, number of ticks and restarts).  `IInv`
has four parts.  `Roster`: the list names no worker twice, and each worker that closes
has a waiting tick of its own; then `closing` is the image of the waiting ticks, and its
size is bounded by a surjection (`PoolBounded`), and there is always an unused worker to
spawn.  `Hands`: an active job is held by exactly one worker that is in the list or
closing (`NoJobDropped`).  `Pace`: unless ticks have overlapped, `lastScaleAt` is no older
than the last change of the pool, so that the cooldown a tick has checked is the real one
(`CooldownRespected`, an action property).

**`ExecutionProofs`** (any jobs, workers, attempts, faults, rate limit).  BullMQ and the row
are written at different awaits, so agreement at the end must be carried through all of
them: `Locks` says which run holds which job and that a deliverable job has an attempt
left, `Alone` that without a lost lock no two runs have one job, and `RowsAgree` what the
row says at each await of `execute()`, its catch and its finally block.  `OutcomesAgree`
and `CompletedStays` follow; TLC's instance of two crashes was needed to find that a job
that stalls past the limit is failed by BullMQ alone.

**`ExecutionLedgerProofs`** (the same, any number of recurring jobs).  `ReleaseBalance`,
`CountedOnce` and `RowsClosed` are sums over a whole history, so the invariant states what
is still to come: `Books` adds to the calls made so far those that are due, namely the one
that the run with the lock will make (`WillRelease`, `WillCount`), a second one when a
statement after `process()` has thrown, and one for each run that lost its lock and goes
on (`Stray`); this sum never exceeds the deliveries by more than the faults.  A recurring
job counts one delivery per repetition (`Cycles`).  `Locals` says what `ok` and `threw` are
at each await and `Fresh` that without a fault a COMPLETED one-time job is over.  The
proof maps every action to one of a few kinds (a `Hop` of one run along a `Path`, a
throw, an outcome, a delivery, a lost run) and settles the books once per kind.

**`ReconcileProofs`** (any payloads, workers and throwing commands).  `RInv` has four
parts: `Shape` (types; an empty hand when idle), `PayloadsKept`, `Tallied` and `ReportOK`.  `Tallied` completes
the ledger between two commands: `pre.staged` plus the submissions between RPUSH and
HINCRBY is the length of the list plus the drains between LPOP and HSET, `pre.pending` is
the number of drains that have incremented it, and `totals` the number of submissions
begun.  At rest all of the terms in between are 0 (`LedgerCorrect`).  `ReportOK` says that
what an undisturbed report has read is still true, from which `ReportCorrect` computes its
error.  The jobs waiting in BullMQ are counted as the cardinality of a set of copies
(`Waiting`), since a sum over a function could only be reasoned about by induction.

**`WorkflowProofs`** (any set of shapes, with cycles too, any number of jobs, attempts,
crashes and throwing submissions).  Until the first crash the argument is a token: of all
schedulers and tasks at most one is `Live`, and `Place` says what it knows of the rows at
its point in the code, for example that the statuses it loaded are still the statuses.  A
failed attempt that is not the last keeps its own job PROCESSING, finds it in its count,
and so never picks.  `Ordered` (started jobs have COMPLETED parents) is what makes
`handleParentFailure()` harmless to jobs that have started.  `Handover` adds that the
token is passed on: the job submitted is new to BullMQ, and a child whose parents are done
is still on somebody's list.  From these follows `OneAtATime`.

A crash breaks the token: the redelivered task schedules again next to the scheduler that
survives, and statuses are no longer what a scheduler has read.  What outlasts it is
stated without them (`AfterOneCrash`).  `Ran` is a job's own record that it has run, kept
when its row is put back; `AfterParents` says that a job anybody has touched, in a row, in
BullMQ or in what a scheduler holds of it, has parents that ran.  The one thing that could
undo this is the redelivery of a job whose row had been put back, which would run again
and might fail; `Redelivered` says that at the first crash there is no such row, because
until then the token held, and that nobody is about to write it.  A second crash may find
one, which is why `DependencyOrder` stops there.  `ParentsFirst` follows.  `NothingStranded`
holds after any number of faults: `LostCounted` charges each job that BullMQ never had to
the crash or the throw that hit its submission.

**`ProcessorsProofs`** (any jobs of any kinds, workers, attempts, recipients, faults).
`Frame` is the common ground: the types, which run has which job and lock (`Locks`,
`Alone`), that a run stands at a step of its own kind (`Standing`), and that an email run
has sent at most one mail per recipient behind it (`LoopOK`, without which the counter of
mails has no bound).  On top of it stand independent invariants, each a sum of what has
happened and what may still happen.

* Mails: a job can be run again while it waits (`Pending`) or while the run that holds its
  lock goes on (`Carries`).  `TokenKept` says once, for all processors, that these two
  together never grow but by a fault.  `MailsBounded` adds to the mails sent the runs that
  may still mail (`MayMail`) and, once a lock was lost, the rows that two runs may still
  both create (`ClashesLeft`); each step pays for what it adds.  `MailedAgain` reads the
  bound off.  The attempt to prove a bound of two mails per lost lock failed at the
  insertion of a row, and TLC then showed four mails with three recipients and four
  attempts; the two recipients and two attempts of `proc_faults` are too few to tell the
  bounds apart.  `MailsAgreeWithRows` needs that a run past the SMTP answer has mailed, and
  that `validEmailsSent` counts mails that exist.
* Chained jobs: `Chained` keeps the same books for the rows saved and submitted, plus those
  runs between the two (`Submitting`), and `ChainedOnceHolds` is the case of no run.
* Files: `Lost`, the inputs in no run's hands, grows by one file per fault at most, since
  every step that ends a run removes its own input and touches no other run's.
  `ResultsKept` follows the output of a run from its creation to the row (`FilesAreKept`):
  nobody removes anything from the two result directories.
* Reports: an attempt of a report is lost when its run is `Wrecked`, and no step but a
  clean-up by another report wrecks one.  `AttemptsLost` counts the attempts and the wreck
  against `Cleaners`; that a clean-up adds a new cleaner, and not an old one once more,
  is `CleanedOver`: without a fault a report that has cleaned up never runs again
  (`ReportsAreMade`).
* `OneOcrWorker` is an action property and needs no invariant.

**`JobApiProofs`** (any requests, bodies, keys and faults).  `RequestOK` is what each
request knows at each of its statements: `createAndEnqueue()` has saved its row when it
submits, the rows of a batch are those up to the item in hand, a workflow is whole before
its first job is scheduled.  Such knowledge is about tables that everybody writes, so
`OthersSpared` shows that no request touches the rows of another but to requeue one that is
saved.  Each step is then one of three kinds (`Kinds`): it hands a row to `submitJob()`
(`Hands`), writes one row (`Writes`), or does neither (`Quiet`); the invariants about rows
are settled once per kind.  `LimboIsTold` speaks of requests that have ended; `LimboHeld`
extends it to those that have not, where a queued row without a payload is in somebody's
hands (`InHand`).  `OnceOK` is the same for the second payload: a row that has one is in
nobody's hands unless there is already an excuse (`Excused`), and no row is FAILED without
one, so that a retry that has found it FAILED carries the excuse until it submits.
`KeysUnique` is the UNIQUE constraint as an invariant of `rows`.  The order of the items in a
batch and of the keys in a workflow is stated in the model by what comes next (`Before`,
`Later`), not by a sorted sequence, and the proof needs only that the order has no cycles
(`BeforeOrders`).

`CycleCheck` is about the recursive search of `createWorkFlow()`, for any number of keys
and any dependencies.  The induction principle it needs, `Induct`, is one about sets of
numbers, read off the well-foundedness of `<` on them.  The recursion goes over the keys
not visited: `DfsDefined` shows with it that `dfs()` ends, so that its equation may be used,
and `DfsSearches` what a call answers (`Searched`).  A cycle found is one, because the path
in `recStack` closes (`PathIsCycle`).  A cycle is not missed, because a ring of keys whose
neighbours are in the ring is never left with `false` (`Inside`): the search is in it or has
visited nothing of it.  `LoopDefined` and `LoopSearches` do the same for the loop over the
keys, which keeps `visited`.  That a ring is closed under neighbours is where single parents
are needed: an array of two is a neighbour that is no key.

Only model-checked: liveness (`AdmittedCompletes`, `Settles`, `WorkflowEnds`, `AllRun`),
since the prover has no rule for fairness.  Every invariant and action property of the
passing runs is stated by a theorem.

## Not modelled

* Authentication and roles, the dashboard, bootstrap and deployment: wiring, library
  calls and presentation without protocol state.
* Prometheus metrics and the tenant and worker-health collectors: write-only.
* Shutdown hooks (`onModuleDestroy`): no bootstrap enables them; a stop is a crash.
* The API process's own autoscaler: it has no workers registered, so its utilization
  is 0 and it neither adds nor removes any (`Base = 0`).
* Retries of a workflow's job by a user while the workflow is being scheduled: `JobApi`
  has the retry, `Workflow` the scheduler, and no run composes them.
* Contents: what is transcoded, transformed, summarised, recognised or rendered.
