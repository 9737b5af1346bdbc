# A verification of task-hunter in TLA+

task-hunter collects programming tasks: a cron and an admin API put *collection jobs* into a queue
in PostgreSQL, workers take a job, read its Telegram channels and problem URLs, normalise what they
find and hand the candidates to the service *tasks*. This directory models that system, checks the
models with TLC and proves theorems about all of them with TLAPS. Paths below are relative to the
repository.

## Inventory

| Component (source) | State it keeps | Operations | What makes it correct | Model |
|---|---|---|---|---|
| Job queue (`internal/collection/store.go`, `worker.go`, `migrations/002_collection_jobs.sql`) | rows of jobs and sources, leases, acknowledgements; per worker the job, the snapshot taken at the claim, the current source | create, claim, renew, start and finish a source, finish, requeue, acknowledge | one executor per job; a job ends with the status its sources add up to; finished sources are not collected again; every job ends unless a call hangs; a living worker keeps its lease | `CollectionQueue`, `LeaseTimer` |
| Telegram collection (`worker.go` 124–299, checkpoints) | the checkpoint of each channel | read a range after the checkpoint, normalise, import, move the checkpoint | the checkpoint never passes a message that was not judged; every acceptable message reaches tasks | `ChannelCollection` |
| Telegram reader (`telegram.go`) | pages of one call | `ReadRange` | the oldest texts of the range are returned, the loop ends | `TelegramReader`, `SourceCollection` |
| Website reader (`website.go`, `internal/parser/source/{codeforces,leetcode,coderun}`) | tickers | `ReadURL`, `Close` | whole tasks or an error; bounded request rate; shutdown ends | `WebsiteReader` |
| Client of tasks (`tasksit.go`, `worker.go` 256–299) | attempts of one batch | `Import` with retries | success means stored; nothing is counted twice; the run ends | `TasksImport` |
| Scheduler (`scheduler.go`) | cron; keys in the queue | start, bootstrap, requeue, tick, stop | every channel without a checkpoint gets a bootstrap; running jobs are left alone | `CollectionScheduler` |
| Admin API (`http.go`, `models.go`, `store.go` 35–152) | the queue | create, list, acknowledge | one job per key and the same answer for each retry; stored jobs can be run; the requester is notified | `AdminAPI` |
| Pipeline (`internal/parser/pipeline`, `classifier`, `domain`) | the task in work | five stages | what fits the limits is accepted, with the right type; a source yields a candidate for each text or none | `TaskPipeline`, `SourceCollection` |
| Wiring, configuration (`internal/app/taskhunter`, `config`, `cmd`) | – | start and stop | order of shutdown | parts of `CollectionQueue`, `WebsiteReader` |
| Parser application (`internal/parser/{app,scheduler}.go`) | `running`, `stopCh`, the pool of connections; nothing under `cmd/` reaches it | `Init`, `Run`, `Shutdown`, `Start`, `Stop`, `RunOnce` | every cycle ends; a graceful stop leaves no cycle behind | `ParserApp` |
| Catalog collectors and task storage (`internal/parser/source`, `storage`) | per collector a mutex and the problems seen; the table of tasks | `Collect`, `SaveIfNotDuplicate` | no problem is taken by two cycles; none gets lost without an error | `ParserCycle` |

**How they interact.** The scheduler and the API insert rows; workers of every replica poll the rows
(`FOR UPDATE SKIP LOCKED`) and know of each other only through status and lease. A worker calls
the readers, the pipeline and the client of tasks one after the other; only the goroutine that
renews the lease runs beside it. Checkpoint and tasks' own table are the only memory between jobs. A
process is stopped by cancelling one context; the worker's `Run` returns, then the reader is closed.
The parser application is a program of its own: its cron starts cycles that may overlap and that share
the collectors and the table of tasks, while its shutdown closes the database.

**What is hard.** Writes by a worker that has lost its lease; crashes, store errors and shutdowns
between any two statements; jobs with overlapping ranges on one checkpoint; replies lost after the
work was done, towards tasks and towards the API's clients; several replicas starting at once;
tickers that are waited for without looking at the context; limits applied in different
places to the same field. `PROJECT.json` lists each such hazard with its line and its properties.

## Modules

`A <- B` below: A uses B's contract, or extends it.

* **`CollectionQueue`** – one action per Store method that writes jobs or sources, because each is
  one SQL statement or transaction, plus the faults. `status`, `leaseOwner`, `acked`, `srcStatus`
  are the columns of their names; `leaseLive` is `lease_expires_at >= now()`, the only thing a query
  asks of the time. `pc`, `held`, `todo`, `cur` are the local state of `runNext`: `todo` is the
  snapshot of sources that `Claim` returned, so the model can act on stale rows as the code does.
  Faults: `crash`, `shutdown`, `store` (a statement fails), `lapse` (a lease runs out under a living
  worker), `hang` (a call never returns: `CallHangs` with a job whose lease goes on being renewed, `ClaimHangs` without). `MCCollectionQueue` gives host names and triggers.
* **`JobLifecycle`** – what the queue promises to its users: a job is absent, queued, running with an
  executor, or ended with a verdict on its sources. **`CollectionQueueRefinement`** instantiates it over the queue;
  `ImplementsLifecycle` is checked by TLC and proved by TLAPS.
* **`LeaseTimer`** – extends `CollectionQueue` with a clock: `left` is `lease_expires_at - now()`, `due` the
  time to the next tick of `renewLease`, `missed` the renewals that failed in a row. Every action of the queue that
  touches a lease has a timed counterpart; `LeaseExpires` and `LeaseLapses` are replaced by `Expire`,
  which happens when the time is over, whoever holds the lease. `Timely` is the inequality between lease, interval,
  delays and failures. `ImplementsQueue` is the refinement: the timed queue is a
  `CollectionQueue` without lapses. This is what the assumption of `queue_timely` rests on.
* **`ChannelCollection`** – one channel, its messages (ids are publication times), jobs of the three
  triggers, executors at `processSource`, `collectTelegram`, `importCandidates`. It uses
  `ReadRange` by the contract that `TelegramReader` checks and `Import` by that of `TasksImport`.
  `Overlap` states whether two executors may hold jobs of the channel at once, which is
  what `CollectionQueue` is about. `start` is a history variable.
* **`CheckpointLog`** – what a checkpoint promises, without jobs, ranges and failures: answers of tasks are never withdrawn
  (`Answer`), the first run that is recorded may begin anywhere (`Record`), and each later one takes up where the
  checkpoint is and passes only what is answered (`Advance`). `ImplementsLog` is checked by TLC and proved by TLAPS.
* **`TelegramReader`** – `ReadRange` page by page over an arbitrary history.
* **`SourceCollection`** – extends `TelegramReader` and `TaskPipeline` with what `processSource` does before the import: the read,
  then one text after the other through the pipeline, whose first refusal fails the source. The locals of `ReadRange` and of the
  pipeline are dropped when they return, as in the code, so the texts of a source are arbitrary ones of `Messages` or `Pages`.
* **`TasksImport`** – batches, attempts, back-off, classes of HTTP answers, lost and late calls.
* **`CollectionScheduler`** – `Start`, `enqueueBootstrap` statement by statement, `RequeueFailed`,
  cron ticks and `Stop` of several replicas; jobs are seen from outside.
* **`WebsiteReader`** – `ReadURL` of the three adapters, one action per request and answer; a page is
  what the site's parser finds in it. `phase` and `tick` are the `time.Ticker` with its
  channel of one element; `since` holds the ages of the last two requests.
* **`AdminAPI`** – handlers of `createJob` with the transaction of `Store.create` in steps (a key
  inserted by an open transaction blocks others), clients that give up and send again,
  `Acknowledge` and the unread list. URLs and channels are records of the features that
  `NormalizeWebsiteURL` and `ValidateCreateInput` look at.
* **`TaskPipeline`** – the five stages on lengths of fields (0 is absent) and on hits of rules.
* **`ParserCycle`** – `RunOnce` with `CollectAll`, the `Collect` of a collector and `SaveIfNotDuplicate`, for cycles that
  overlap: `lock` and `seen` are `mu` and `lastIDs`/`lastSlugs`/`lastURLs`, `stored` the unique `source_hash` of the table,
  `given` what was given up with an error or at the end of the time. The three collectors have one shape,
  so one set of actions stands for them. `ids` says whether tasks have an ID when they are saved: `NewDefaultPipeline` sets none,
  so `Save` panics; a pipeline that sets one is modelled too, since otherwise nothing would ever be stored.
* **`ParserApp`** – extends `ParserCycle` with `RunApp`: `main` is the goroutine of `RunApp` and its `Shutdown`, `sched` the
  goroutine of `Start`; `Restart` begins a new process on the same table.
* **`CollectionQueueProofs`** (also of `LeaseTimer`), **`TasksImportProofs`**, **`ChannelCollectionProofs`**,
  **`CollectionSchedulerProofs`**, **`AdminAPIProofs`**, **`WebsiteReaderProofs`**, **`ParserAppProofs`**,
  **`ReadingProofs`** (`TelegramReader` and `TaskPipeline`) – theorems.

Definitions keep the source's names where there is one, and `map` in `PROJECT.json` gives the lines each
stands for. Operators named as mutants in a comment stand before the definition they distort; no
specification uses them. They show that a property would notice such a bug.

## Runs

| Run | Instance | What it shows |
|---|---|---|
| `queue_timely` | 2 replicas, 2 jobs with up to 2 sources, 2 faults (crash, shutdown, store error, hanging call) | when leases do not lapse under a living worker: `OneWorkerPerJob`, `AloneUntilFault` (replicas take turns until something fails), `TerminalMatchesSources`, `DoneIsKept` (a finished source is not started again), `OutcomeIsFinal`, refinement of `JobLifecycle` |
| `queue_live` | 2 replicas, 2 jobs with 1 source, 2 faults (crash, store error, lapse, hanging call) | `LeasedIffRunning`, `AckedIsTerminal` in spite of lapses; `EveryJobEnds`, unless a worker hangs for good |
| `lease_clock` | 2 replicas, 2 jobs, 1 source, 1 fault; a lease of 5.5 s in ticks of half a second, delays of one tick, one renewal in a row fails | `LeaseCoversMisses`, `ImplementsQueue` |
| `source_collect` | all histories of 5 messages, pages of 2, limit 2, at most one service message in a row; every text and page of lengths up to one beyond each limit | `ReturnsOldest`, `LoopEnds`, `AcceptedIsClassified`, `FittingIsAccepted`, `CandidatesAreComplete` |
| `channel_alone` | 3 messages of which at most one is invalid or malformed, 2 jobs at a time, one executor, one fault, limit 2, batches of 1 | `NothingSkipped` (also: the checkpoint is a message that tasks keeps), refinement of `CheckpointLog`, `EveryTaskArrives` |
| `channel_race` | 4 messages, two executors that overlap, no faults | *violation* of `NothingSkipped` |
| `import_retry` | 4 candidates in 2 batches, one of them invalid, 3 runs, 2 retries | `SuccessIsStored`, `DoneIsDecided`, `ImportedOnce`, `RunEnds` |
| `scheduler_start` | 2 replicas, 2 channels, 1 cron slot, 1 fault, any channels with checkpoints at first | `BootstrapCovers`, `RunningUndisturbed`, `FailedBootstrapRepeats` |
| `website_read` | 3 sites with tickers of 2, 3, 1 units, up to 2 samples | `ReturnedIsWhole`, `ErrorHasCause`, `RateIsBounded`, `ShutdownEnds` |
| `website_rate` | the same | *violation* of `RequestsAreSpaced`: two requests less than an interval apart |
| `admin_jobs` | 2 clients with bodies of every kind, the same or different keys and actors, 2 faults | `AnswersAgree`, `AcceptedIsWanted`, `StoredIsRunnable`, `AcceptedIsNotified`, `RetriedIsAnswered` |
| `parser_app` | 2 overlapping cycles, 1 collector with 2 problems, any number of failures, timeouts and restarts | `OneHolder`, `SeenIsAccounted`, `GracefulMeansIdle`, `CycleEnds` |

**Bounds.** Two replicas are enough for every race here, since statements of a pair interleave and no
rule counts workers. Two jobs and two sources make "another active job", "partial" and "some sources
done" possible. Two faults give a crash during the recovery from a crash. Limits and page and
batch sizes are one or two so that the instance goes beyond each (more texts than the limit, two pages,
two batches). Ticker periods are in the proportion of the code's 2.1, 3.1 and 1.1 s.
`MaxFaults`, `MaxJobs`, `MaxRuns`, `MaxSlot`, `MaxServiceRun` and `MaxSamples` are bounds of
the models; the code has none. `parser_app` has none of these: its faults are unbounded, and its
states are finite because a cycle slot is used again. One collector is enough there, since collectors share nothing but the cycles that
ask them one after the other, and two cycles suffice for a mutex; the theorems lift both bounds. In
`lease_clock` the interval is 3 of 10 granted ticks, so a delay of one tick and one miss just fit; with a delay of two TLC finds the lease gone. In `AdminAPI` the second client's body is fixed, because the first
sends every body and keys and actors vary. `TelegramReader` bounds service messages in a row in
order to be checked apart from a known flaw (Findings): with `MaxServiceRun = 2` `ReturnsOldest` fails.

**Fairness.** *Queue:* workers poll on a ticker, the orchestrator restarts a process that went
down, and an expired `lease_expires_at` is a matter of time; nothing is assumed of faults, creation or
acknowledgement. No deadline ends a call of a worker (`worker.go` 71–96 and 197, `telegram.go` 51–56), so a call that does not hang returns,
and one that hangs is the fault `hang`: `EveryJobEnds` demands nothing while a worker hangs for ever, and everything once it is restarted.
*Source:* only that the calls of `ReadRange` return. *Channel:* the cron fires (strong fairness, as places for jobs are bounded), the claim is taken
by age of jobs and so gets to scheduled ones in the end, and an executor that has begun goes on. *Import:* calls end because
the HTTP client has a timeout, the back-off is a timer. *Scheduler:* jobs are executed, a start
goes on, and a replica that is up is restarted some day: `FailedBootstrapRepeats` is about what restarts do. *Website:* time passes, the client has a timeout of 30 s, `Run` returns to
`Close`. *API:* clients send again until answered, which is what the idempotency key is for;
handlers run; PostgreSQL grants a waited-for key in turn (strong fairness of a handler's
step). *Parser application:* a cycle goes on, because every request has a timeout (`app.go` 235) and every tick comes (weak
fairness of its steps as a whole, so no particular answer is assumed), and a goroutine that waits for the
mutex of a collector gets it in the end although others take it in between (strong fairness; `sync.Mutex` has a starvation
mode for that). Nothing is assumed of ticks, signals, restarts or shutdowns. `LeaseTimer`, `channel_race` and `website_rate` assume none.

`CHECK_DEADLOCK FALSE` stands where the system really stops: when the collection of a source is over, after
the last run of an import, after the last answer of the API, and, in the runs of the queue, when every replica hangs.

## Proofs

TLAPS proves, for any numbers of workers, jobs, sources, clients, sites, rules, candidates and faults:

* `CollectionQueueProofs`, for all faults: `TypeCorrect`, `LeaseCorrect`, `AckedCorrect`, `AloneCorrect`.
  When `lapse` is not among `FaultKinds`: `OneWorkerCorrect`, `TerminalCorrect`,
  `OutcomeIsFinalCorrect`, `DoneIsKeptCorrect`, and `QueueImplementsLifecycle`, the step-by-step refinement.
  For the queue with the clock, when the lease is `Timely` and `lapse` is not among `FaultKinds`: `LeaseCoversCorrect`,
  `TimerImplementsQueue`, and from it `TimedOneWorker`: one executor per job, with nothing assumed of the
  environment but delays and failures within `Latency` and `MaxMissed`.
* `TasksImportProofs`: `TypeCorrect`, `SuccessCorrect`, `CreditCorrect`, `DoneCorrect`.
* `ChannelCollectionProofs`: `ChannelTypeCorrect`, and without overlap `NothingSkippedCorrect` and
  `ChannelImplementsLog`, the refinement of `CheckpointLog`.
* `CollectionSchedulerProofs`: `TypeCorrect`, `BootstrapCoversCorrect`, `RunningUndisturbedCorrect`.
* `AdminAPIProofs`: `AnswersAgreeCorrect`, `AcceptedIsWantedCorrect`, `StoredIsRunnableCorrect`, `AcceptedIsNotifiedCorrect`.
* `WebsiteReaderProofs`: `ReturnedIsWholeCorrect`, `ErrorHasCauseCorrect`, `RateIsBoundedCorrect`.
* `ReadingProofs`: `ReturnsOldestCorrect`, if `MaxServiceRun < PageLimit`; `PagesGetOlderCorrect`, whatever the history;
  `AcceptedIsClassifiedCorrect`, `FittingIsAcceptedCorrect`; they are about the reader and the pipeline each by itself, for any texts.
* `ParserAppProofs`, whatever fails: `ParserTypeCorrect`, `OneHolderCorrect`, `SeenIsAccountedCorrect`,
  `GracefulMeansIdleCorrect`.

*Argument for the queue.* `OneWorkerPerJob` and `TerminalMatchesSources` are not inductive: a step
that ends a job is right only if the worker's snapshot still agrees with the rows. `ExecInv` adds
`SnapshotInv`: for the worker that holds a job, the sources that still need a result are those in `todo` and
`cur`, and no other. It holds because no other worker writes these rows while the holder's lease is live
(`LeaseInv`: leased exactly while running), and a takeover needs a lease that is not live, which,
without lapses, only belongs to a worker that is gone. `ExecStep` has one step per action; `UnheldStep` and
`DropStep` treat jobs nobody holds and workers that let go. The refinement uses `ExecInv` of the
state before and maps the holder to the executor of `JobLifecycle`. `DoneIsKeptCorrect` needs one fact more,
`NoneBefore`: a job that does not exist yet has no sources.
`AloneCorrect` needs none of this and allows lapses: `SerialInv` says that before the first fault every running job is held
under a live lease, so nothing is taken over and, by `Claimable`, nothing queued is begun beside it.

*Argument for the lease.* `TimedInv` joins the invariants of the queue with `TimerInv`: what is left of the lease of a busy
worker exceeds the time to its next tick, the renewals it may still miss and the delay of one call. Each tick
of the clock takes one from both sides; a missed renewal adds an interval to the time to the next tick and takes one from `Room`;
a renewal that succeeds starts again from `Granted`, where `Timely` is exactly what is needed. As the left side is therefore
never 0, `Expire` only happens to jobs without a worker, which is `LeaseExpires` of the queue.

*Argument for the import.* `ReplyInv` ties the answers of the current call to what tasks keeps,
whatever calls given up earlier may still do; `DecidedInv` says that the batches before the current one are
decided by the counters. Credits are bounded because an item is "imported" only by the
call that inserts it, and items stay stored.

*Argument for the checkpoint.* `SkipInv` adds to `NothingSkipped` that a run that may write the checkpoint has begun where the
checkpoint still is (`Resumes`; this is where overlap would break it) and that a run leaves no gap: what is older than one of its messages
and in its range is answered or still to be sent (`Covers`). `OldestIsOldest` gives the latter from the cut
at the limit, and `GreatestId` that the checkpoint is one of the confirmed messages. Both are lemmas on finite sets of
ids, proved from the library's theorems. In the refinement of `CheckpointLog` only `Finish` moves the checkpoint
(`FinishMoves`: by `Record` or `Advance`); every other step is an `Answer` or none.

*Argument for the scheduler.* `CoverInv` follows a start statement by statement: the channels still to look up
and those found without a checkpoint are accounted for (`LookedUp`) until each is in a bootstrap (`Covered`). It survives the steps of other
replicas because checkpoints and jobs stay (`JobsStay`), so what a replica has read of them may be old but not wrong.
`RunningUndisturbed` needs only the types: what `RequeueFailed` reads and writes is one statement.

*Argument for the API.* Answers under one key agree because the key names one row (`KeysAreUnique`), and it does
because two transactions that are open at once never insert the same key, nor one that is stored
(`TransactionsExclude`). `HandlersAreSound` and `RepliesAreSound` carry this to the job a handler looks up and to the reply of a
client, and `RowsAreWishes` says that a row is the valid wish of one of its senders. `FreshIDIsFresh`, that a new id can
always be found, is a pigeonhole argument on finite sets.

*Argument for the readers.* `ResultInv` of the websites says what a read in progress can have so far, `ClockInv` how the phase of a ticker,
the tick in its channel and the ages of the last two requests hang together (`SiteInv`); the rate follows from the latter for any
intervals. In `TelegramReader` `LoopInv` is: the items kept are the oldest among all texts seen so far. `OldestOfMerged` lets the
cut at the limit be made page by page, and `LastPageIsLast` shows that the three ways to leave the loop leave no text of
the range behind; the one on a page of service messages needs `MaxServiceRun < PageLimit`, without which the property is false (Findings).

*Argument for the pipeline.* `StageInv` gives the fields as functions of the raw task at each stage (`FieldsAreMade`). The scan of the classifier
is a recursive function: that it exists and what it returns (`ScanExists`, `BestRuleIsBest`) is shown by taking the least rule at which it would fail, since an
induction theorem cannot be instantiated.

*Argument for the cycles.* `ListInv`: a list is walked under the mutex of its collector and nothing on it is seen yet, so two lists are
disjoint, and what `Fetch` adds to one cycle no other has (`OneHolder`). `SavingInv`: a cycle has a task exactly while it saves
it, so every way out of `SaveIfNotDuplicate` leaves the task stored or counted.

Assumptions are the named `ASSUME`s of the modules (sets of model values, bounds in `Nat`; in `AdminAPI`, finitely many clients
whose channels and URLs are sequences, as slices are).
Only model-checked: the liveness properties `EveryJobEnds`, `EveryTaskArrives`, `RunEnds`, `LoopEnds`, `FailedBootstrapRepeats`,
`ShutdownEnds`, `RetriedIsAnswered` and `CycleEnds`, as the provers have neither fairness nor `ENABLED`. Of `LoopEnds` the
safety part is proved (`PagesGetOlder`). Every invariant and action property that a passing run checks has a theorem, except `CandidatesAreComplete`.

## Findings

`channel_race` – two overlapping jobs of one channel move the checkpoint over messages nobody
has read (`worker.go` 157, `store.go` 372). Without overlap the theorem says that this cannot happen, and
`AloneCorrect` that an overlap takes a failure first. After one,
`Claim` allows it (`store.go` 171–175): it takes over a job whose lease has expired while another, say a requeued bootstrap, is running.

`website_rate` – two requests to a site may follow each other at once, since a tick waits in the ticker while
the site is idle (`codeforces.go` 54, and the same in `leetcode.go` 71 and `coderun.go` 51), though `codeforces.go` 7 and 61 and `docs/module.md` 31–33 and 104
promise an interval between any two. That three do not is `RateIsBounded`.

Observed while modelling, each visible in a model but without a run:

* A read of Telegram that hangs (`telegram.go` 51–56: no timeout) keeps its job running for ever, since `renewLease` goes on renewing its lease
  (`worker.go` 104–121), and no replica claims a queued job meanwhile. Only a restart of that process ends it. (`CallHangs`.)

* `FinishJob`, `StartSource` and `FinishSource` (`store.go` 302–339) do not ask for the
  lease. With `lapse` among the faults, `TerminalMatchesSources` fails: a worker whose lease lapsed ends a job another replica is
  executing, and with no failed source the job is reported *succeeded* though sources were never collected (compare `store.go` 323).
* `ValidateRuntime` accepts every positive lease (`config.go` 195), but one of a second or less is never `Timely`: it runs out
  before, or while, its first renewal is made, and below a second `int(lease.Seconds())` grants nothing at all. A lease of whole
  seconds stands one renewal that fails, not two in a row. The default of ten minutes is safe with delays of up to 100 seconds.
* A page that consists of service messages ends `ReadRange` (`telegram.go` 124), although older texts of the range were not
  read (compare the comment at 77). (`MaxServiceRun` of `TelegramReader`.)
* `Shutdown` of the parser application closes the database without waiting for the cycle in progress (`app.go` 117–125), while
  `docs/module.md` 160–165 has the cycle end first: the cycle goes on and fails on every save. `SeenIsAccounted` and `CycleEnds` hold all the same.
* A `Stop` that comes before `Start` has set `running` is lost (`scheduler.go` 223). A context that is cancelled makes `RunApp` return without a shutdown.
* `uuid.MustParse(task.ID)` (`postgres.go` 30) panics on the first new task of the default pipeline, which sets no ID, in
  a goroutine nobody recovers: the process ends, although `scheduler.go` 55 says that single errors do not interrupt the whole. (`SavePanics`.)
* A problem whose save fails is marked as seen and is not tried again by this process (`codeforces.go` 151).

* A shutdown cancels the context under the job: its last writes fail and it waits for its lease
  to expire, though `worker.go` 51 says that `Run` waits for the current job. (`Shutdown` in `CollectionQueue`.)
* A bootstrap with one quiet and one failing channel ends *partial*; the next start computes the
  same key, finds that job and does not repeat it (`BootstrapKey`; compare `README.md` 8).
* Two replicas that start after a failed bootstrap: the later `RequeueFailed` finds nothing to requeue,
  and `Start` of that replica fails (`pc = "refused"` in `CollectionScheduler`; compare
  `docs/telegram-session.md` 32).
* `truncateField` returns the limit and `...`, three bytes more than `Validator` allows: a first line longer
  than 200 bytes fails its source on each run (`normalizer.go` 105; compare the comments at 13, 22 and 100 there and `docs/module.md` 133).
  `FittingIsAccepted` is therefore about fields within their limits only.
* Retrying after `429` of a site is left to a later job.
* Neither the Reader fallback nor CodeRun's raw page is searched for a blocking page
  (`codeforces.go` 187, `structured.go` 63).
* A request that lists a channel twice passes the validation and is answered 500 each time
  (`SourcesCollide`). A request under a key used by another administrator gets that one's job and no
  notification; a body that differs under a known key is ignored.

## Left out

Texts: how titles, tags, constraints and examples are found in HTML, Markdown and messages
(`TaskPipeline` and `WebsiteReader` take what is found as input). Authorization, paging and reads
of the API. Migrations, health checks, configuration and the session tool
(I/O only). Of the parser application: the collector of Telegram channels, which `createCollector` skips, the reads of the storage, which nothing
calls, and a second `Start` or `Stop`. Generated bindings and tests.

## Plan

1. Safety parts of further liveness properties: steps of an import and of a read are bounded.
2. A composition of `CollectionQueue` with `ChannelCollection`, in which `Overlap` is no longer a
   constant but follows from the leases. `AloneUntilFault` is the side of the queue: without faults there is no overlap.
