# TLA+ models of the prerender plugin

The plugin (`packages/plugin`, a Harper application) serves crawlers prerendered pages. It
keeps a schedule of URLs to render, hands due URLs to a fleet of render workers
(`packages/browser`) over HTTP, and stores what the fleet sends back. `packages/console` is a
dashboard over it. Line numbers below are of the file named, under `src/`.

The modules here model the concurrent core: which URL is handed to which renderer, what becomes
of the answer, how the rows of a URL come and go together, and how one render worker keeps its
jobs and browsers. That is where threads, nodes, transactions, a fleet that crashes and an origin
that changes meet, and where the code's comments argue about orders of events that its tests do
not reach.

## 1. Inventory

### Deployment

A node runs several worker threads. Tables (`Target`, `RenderSchedule`, `PrerenderedPage`,
`QueueState`, ...) are replicated between nodes; each URL has one **owner** node (residency) and
only the owner grants its renders. Threads of a node share memory through named buffers
(`util/coordination.js`): the lease table, the ready set, and small JSON snapshots. Worker 0 of
a node runs the queue keeper and the sweeps. A worker is a single-threaded event loop, so
JavaScript interleaves at `await`; between threads the words of the shared buffers are accessed
with `Atomics`. A request's writes join one transaction, committed **after** the handler has
returned.

### Components

| Component | State | Operations | What makes it correct |
|---|---|---|---|
| **Ready set** `util/readyQueue.js` | two slots of entries, active index, cursor, counts, in shared memory | `publish` (worker 0), `take` (any worker), `state`, `peek` | a take sees one whole generation; no entry skipped; an idle cursor does not run away |
| **Lease table** `util/renderLease.js` | open-addressed slots (key hash, expiry, due minute, grant stamp, miss count), occupancy gauge | `grant`, `hold`, `release`, `grantOf`, `missesOf`, `isLeased`, `scanLive` | one renderer per key; a release frees only the lease it names; a wedged key is held back |
| **Render cycle** `util/renderSchedule.js`, `resources/RenderQueue.js` | the schedule row (due minute, ask, change mark), the stored page, the strikes | `claimSchedules`, `processJobResult`, `fileDueNow`, `reschedule` | no render lost, stored stale, granted for ever or granted behind its own result |
| **Change probe** `util/changeProbe.js` + | probe state per URL, budgets, pacing | probe passes, `actOnChange`, `recordPageClaim`, `actOnStaleRender` | a page found changed is replaced by a render of the change |
| **Queue keeper** `util/queueKeeper.js`, `queueKeeperService.js` | an in-memory index of the schedule table, a subscription, walks, point repairs, epoch | `applyEvent`, `repairFromTable`, `load`, `verify`, `resync`, `publish` | the index converges to the table; a read never undoes a newer event |
| **Queue status and pause** `resources/QueueState.js`, `RenderQueue.js` | intent rows, a node-local flag | `setPause`, `syncQueueState` | a later intent is not undone by an earlier one read late |
| **Shared snapshot** `util/sharedSnapshot.js` | two byte slots, active, generation | `publish`, `read` | a reader gets one whole document, or none |
| **Run state** `util/runState.js` | one row per job: running, heartbeat, cancel | claim, heartbeat, finish, cancel | one run at a time; a cancel reaches its run |
| **Target lifecycle** `resources/Target.js`, `util/suppression.js`, `failureBackoff.js` | target, suppression, strikes | create, delete, suppress, reactivate, strike | strikes count what happened; suppression ends |
| **Peer forwarding** `util/peerHeal.js` | per-peer cooldown | `forwardDueNow`, time-out, local fall-back | an ask is filed at least once |
| **Fleet, claiming and posting** `packages/browser` `RenderQueueConsumer`, `HostHealth`, `RenderJob`, `asyncQueue` | poll timer, in-flight jobs, circuit breaker, bounded queue | poll, wake-up on status, prefetch, post with retry | no lost wake-up; capacity respected |
| **Fleet, rendering** `renderer.ts`, `readiness.ts`, audit | page | render, audit | outside a model: puppeteer and text analysis |
| **Serve path** `http_handlers/bot_request.js` + | caches, freshness | serve, ask for a render | per-request decisions |
| **Fleet, worker** `Worker.ts`, `ManagedBrowser.ts`, `asyncQueue.ts`, `errorHandler.ts` | job pool, renders in hand, the current and the retired browsers with their counters | pull, take, render a variant, retire, reap, drain, destroy | every job settles; no Chrome lost sight of, left behind or closed under a render |
| **Corpus of a URL** `Target.js`, `RenderSchedule.js`, `PrerenderedPage.js`, reconciler, purge, page sweep | the target, schedule row and page, in separate databases | create, list, retire, delete, repair, sweep | a row exactly if there is a target; no live page deleted; orphans reclaimed |
| **Sitemaps**, **other sweeps**, **demand and sampling**, **entities**, **administration**, **console** | own tables, runs | fetch, walk, count, configure, show | I/O, numeric tuning, formatting |

`PROJECT.json` lists every component with its files and status, and under `hazards` each place
where something hard to test can go wrong, with the property that covers it or the reason none
does yet.

### How they interact

The keeper follows the table and publishes a ready set; a fleet claim on any worker **takes**
entries, checks the lease, reads the row, and **grants** the key's lease; the fleet renders and
posts a result; the handler judges it against the row and the lease, writes page, row and
strikes in the request's transaction and **releases** the lease before that transaction commits.
Beside it, the probe marks rows whose page it found changed, callers ask for renders, sweeps
move rows, and a restart of a node forgets all shared memory but no row.

### Hard behaviours

- interleavings of threads on shared words (ready set, lease table, snapshots);
- reads that are old when used: the claim's read of the row before the grant, the filing's read
  before its put, the result's read before its commit, the keeper's repair;
- renderers that crash, answer after their lease, or post one result twice;
- a lease released before the commit that justifies it, and commits that fail;
- a restart that forgets leases while renders are out;
- liveness: a key granted for ever, or held back for ever.

## 2. Modules

| Module | Models | Composes with |
|---|---|---|
| `ReadyQueue` | `readyQueue.js`, one action per atomic operation | decides which entry a claim gets |
| `RenderLease` | `renderLease.js`, one action per atomic operation | decides which of several claims gets the lease |
| `RenderQueue` | the cycle of one URL: claim, render, result, filing, restart | takes the lease as one atomic word, the ready set as "the URL may be claimed when it is due" |
| `Corpus` | target, schedule row and page of one URL, and everything that creates, retires or repairs them | takes the cycle of `RenderQueue` as "claimed, and in the end answered" |
| `QueueKeeper` | worker 0's index of the schedule table (`queueKeeperService.js`) | its publish is the publisher of `ReadyQueue` |
| `SharedDocument` | what a shared snapshot promises | abstract |
| `SharedSnapshot` | `sharedSnapshot.js`, one action per atomic operation and piece copied | implements `SharedDocument` |
| `RunState` | `runState.js`: the row that says which run of a sweep a node makes | guards the sweeps of `Corpus` |
| `RenderWorker` | one worker of the fleet (`packages/browser`) | makes the renders of `RenderQueue` |
| `ReadyQueueProofs`, `RenderLeaseProofs`, `RenderQueueProofs`, `CorpusProofs`, `QueueKeeperProofs`, `SharedSnapshotProofs`, `RunStateProofs`, `RenderWorkerProofs` | theorems (section 4) | each extends its module and `TLAPS` |
| `MC...` | the small sets, and the symmetry, of the runs | |

The layers meet at named interfaces. `RenderQueue` uses `grant`, `hold`, `release` and
`missesOf` as atomic steps, which is what `RenderLease` examines (`ExclusiveOnceSlotted`,
`NoForeignTruncation`); that an entry may be stale when taken is in `RenderQueue` (the claim
reads the row), that it is taken at all is in `ReadyQueue`. `Corpus` takes a lease for a flag and
a result for what it writes to three rows; `RenderWorker` takes the plugin for an iterator of jobs.

### ReadyQueue

State: the shared words `active`, `cursor`, `count`; `gen` and `written` say which generation's
entries a slot holds and how many of them are written so far (the bytes of an entry are
abstracted to that); `ppc`, `target`, `size` are the publisher's place and locals, `tpc`, `left`,
`index`, `slot`, `limit` each taker's. History: `epoch` (generations whose publish has reset the
cursor), `began`, `handed`, `straddlers`.

Actions: `PublishStart`, `PublishEntry`, `PublishCount`, `PublishFlip`, `PublishReset` are
`publish` in its order (entries, count, flip, reset); `TakeAdd`, `TakeSlot`, `TakeCount`,
`TakeClamp`, `TakeEntry`, `TakeTorn` are `take`. `publish` stores any prefix of the rows offered,
as its capacity and key region decide. `state` and `peek` only read and are left out.

- `ActiveSetWhole`: the slot readers are pointed at holds one complete generation.
- `NeverSkipped`: what the cursor has passed has been handed out, or is about to be.
- `DuplicatesFromStraddlers`: an entry is repeated at most once per take in progress at the reset.
- `CursorBounded`: with no call in progress the cursor is within the capacity.
- `EveryEntryServed` (liveness): while consumers poll, an entry is handed out unless replaced.

### RenderLease

State: the words of each slot (`lo`, `hi`, `expires`, `due`, `granted`), the gauge `occupancy`,
and per worker the operation it is in the middle of (`op`: place and locals). History: `leases`,
every lease reported as granted. Time is the table's own second.

Actions: `Grant*` (probe, the key's own slot: read, due word, stamp, compare-exchange of the
expiry; a fresh slot: payload, compare-exchange of the key word, look elsewhere, give back),
`Release*` (ownership and stamp check, one release per lease, shortening to the grace),
`Scan*` (the walk and its plain store). `hold` is a grant that leases nothing, for longer
(`HoldTicks`; in the code `min(cadence, leaseTime * 2^n)`, `renderSchedule.js:394-395`). Runs of
operations no other thread can tell from one step are one action, and the comment at each says
so. The miss count is not here but in `RenderQueue`.

- `ExclusiveOnceSlotted`: a key has one renderer, but for a lease that is one of twins: two
  overlapping grants into one fresh slot (`Twins`), for as long as such a lease lasts. The model
  starts a grant only if at most one other of the key is under way, which is as many as the ready
  set's two generations hand out (l.19-22): of three at once, one that gives back the slot it
  won can give back the slot another has just been granted.
- `NoForeignTruncation`: no release shortens a lease other than the one its stamp names.

### RenderQueue

The whole cycle of one URL. The code compares instants (grant, mark, ask, start of a render) and
due minutes only for order and equality; the model keeps the outcome of each comparison, not a
clock: `row.same` says that the row's due minute is the one the latest lease was granted for, and
a render carries which marks and asks were filed since its grant and since its fetch.

| Model | Code |
|---|---|
| `row` (`due`, `same`, `mark`, `ask`) | the committed `RenderSchedule` row: `nextRenderTime`, `changedAt`, `urgentAt` |
| `lease`, `misses`, `leftDue` | the key's slot: expiry and markers, miss count, `GRANT_LEFT_DUE` |
| `strikes`, `page` | the target's strike count; what the stored page shows against the origin |
| `filing` | a `fileDueNow` between its read and its put |
| `claims`, `jobs`, `results` | a claim between its read and its grant; a render the fleet has in hand; a result request |
| `ClaimReads`, `ClaimRefused`, `ClaimHolds`, `ClaimGrants` | `claimSchedules`, one entry |
| `ResultArrives`, `ResultSuperseded`, `ResultReads`, `ResultRendered`, `ResultFailsFast`, `ResultFailsSlow`, `ResultThrows` | `processJobResult` and `processDecodedJobResult` up to their answer |
| `CommitLands`, `CommitFails` | the request's transaction |
| `AskForRender`, `ProbeFindsChange`, `FilingWrites` | `fileDueNow` for a caller's ask and for `actOnChange` |
| `ComeDue`, `LeaseExpires`, `GraceEnds`, `HoldEnds`, `OriginChanges`, `Fetch`, `JobEnds`, `Restart` | the environment: time, the origin, the fleet, the process |

- `WedgeBound`: a key whose leases end without moving its row is held back after
  `fastRetries + 2` of them, however they end.
- `HeldForCause`: only such a key is held back; the lane that keeps the lease after a failure
  never adds up to a hold by itself. `cause` also records two kinds of result after which the
  misses and the strikes are no longer cleared together: one that is stored but leaves the row
  due (the strikes are cleared, the next grant carries the misses), and one of an older lease.
- `NoGrantBehindCommit`: between the release and the commit of a result the key is not granted.
- `ForeignLeaseKept`: a live lease is given up only by a result of its own render, or by one of
  an older render that arrived under it and proved nothing (`stale`): never by one that proves its
  age, nor by one that was in hand when the lease was granted or came before there was one.
- `AskOutlivesRender`: an ask is not cleared by the success of a result whose lease was granted
  before it.
- `FoundChangeKept`: a page found changed stays marked until a render granted after the mark
  replaces it, `raced` apart. `NoStaleLanding`, what the code's comment says, adds the documents
  found changed while the row still carried an older mark (`page = "missed"`), and is violated
  (finding 1).
- `FoundChangeRendered` (liveness): and such a render does replace it.

A renderer names no lease in what it posts. The handler bounds the start of the render by the
time of arrival less the render times reported (`RenderQueue.js:255-262`) and drops a result only
if that is before the latest grant (627-636). So the bound shows nothing if the post was delayed,
or is the repeat of one whose answer was lost, or reports no times. `ResultArrives` therefore
chooses `timed`: an older render's result that is timed is `Late` and dropped; one that is not is
taken for the latest lease's, may release that lease and store its page. With no lease in the
table `timed` decides what the result is compared by (`Since`, 820-837): the start of the render,
or nothing.

`raced` names what the code accepts: a writer that read the row before another's commit replaces
it whole (tables have no merge of a row), and a page is stored by a result that nothing proves
older: one that arrives after a restart; one that arrives after a later grant and is not timed;
or one in time when it arrived and overtaken, while it was being handled, by a grant whose result
landed first. It ends when the latest lease's own render is stored. The properties say where they
excuse it. `unseen` is history: what was put on the row after a handler read it.

### Corpus

The `Target`, the `RenderSchedule` row and the `PrerenderedPage` of one URL are in separate
databases: everything that creates, retires or repairs a URL writes them one after the other,
each on what it read earlier.

State: `target` (active, held by a verdict, gone; listed by a sitemap or not), `row` (none, filed
without a cadence, recurring, deferred because its target was missing, overdue after `graceMs`),
`page` (none, stub, fresh, old), `leased`; per kind of writer the writes issued and not landed
(`puts`); `render`, `purge`, `repair`, `sweep`, `expiry`: what each has read and where it is.
`stranded` is history.

Actions: `Discover` (`handlePageScheduling`), `WalkCreates`, `WalkAttaches`, `WalkUnlinks`,
`RenderNow`, `Revalidate` issue writes; `TargetLands`, `RowLands`, `RowLost` land them in any order;
`Claim`, `ResultReads`, `ResultReadsRow`, `TargetedLands`, `TargetlessLands`, the verdicts
(`VerdictLands`, `VerdictMints`, `VerdictRetires`) and `GraceEnds` are the cycle; `Purge*`,
`Delete*` the purge of discovered targets with its cascade; `Reconcile*` the schedule reconciler;
`PageAges`, `Expiry*` the expiry of pages; `Sweep*` the sweep of orphaned pages; `Crash`.

- `OrphanForCause`: a page without a target was stored by a result that read a target being
  deleted, or had no rotation to withhold it from; a target still on its way leaves none behind.
- `SweepSparesLive`: the sweep deletes no page of a target, and none written since it walked.
- `RowFollowsTarget` (liveness): in the end there is a row exactly if there is a target.
- `PagesReclaimed` (liveness): if sweeps go on being started no page is left without a target.

### QueueKeeper

State: `table` and the events of it not yet delivered (`pending`); the node list and the
configuration; the keeper's `phase`, entries (`held`), `subscription`; the walk in progress
(`walker`, `at`, `row`, `touched`, `seen`, `phantoms`); what has been asked for (`walkWanted`,
`walkRetry`, `verifySoon`, `asked`, `queued`, `backoff`); point repairs (`repair`) and the resync
(`resync`, `rest`, `resyncNodes`). `lapsed` is history: the kinds of mistake that only the
periodic walk puts right.

Actions are what runs between two awaits: `Write`, `NodesChange`, `ConfigChange`,
`SubscriptionCloses` disturb; `Start`, `Load*`, `Settle` load; `Deliver` applies an event; `WalkRead`,
`WalkApply`, `Verify*`, `PhantomCheck` walk; `RepairRead`, `RepairApply` repair; `Publish`
notices a closed subscription or another node list, and ranks the head; `Resync*`, `Reclassify*`
resync; the `...Fails` actions are the error paths.

- `MismatchOwed`: in a live keeper an entry that differs from the table is owed a correction: an
  event, a read of a walk still to come, or a resync. Excused are four named lapses: `flap` (the
  node list changes and changes back between two publishes), `repair` (a point repair
  applies an older read to an entry that changed and changed back, or drops a newer one),
  `failed` (a reclassification that throws), `unwalked` (the third finding below).
- `IndexConverges`, `VerifyHeals` (liveness): without a lapse the index comes to equal the table
  with no periodic walk; with the walk it does, whatever lapses were made.

### SharedDocument and SharedSnapshot

`SharedDocument` is the promise: one document that changes at an instant, and reads that return
a document that was current while they ran, or none. `SharedSnapshot` is the code: `active`,
`generation`, `length`, the pieces of two slots; a writer (`Write*`) and readers (`Read*`) that
copy piece by piece in any order.

- `OneDocument`: `SharedSnapshot` implements `SharedDocument` under the mapping beside it (the
  abstract document changes at the flip of `active`; an answer is the document the copied pieces
  are the whole of).
- `NullForCause`: a read gives up only before the first document, or if a write completed in each
  of its attempts.

### RunState

State: the `row` (running, heartbeat within `staleMs`, cancel), the mutex (`lock`), and per run
its place, what its progress and its heartbeat have read, the latch of its cancel poller; per
request to stop its place and what it has read.

Actions: `ClaimLock`, `ClaimPut`, `ClaimFails` are `claimRun`, `ClaimUnread` the claim whose read
fails: `readRunState` turns the error into null (70-77), which `claimRun` takes for no claim
(127-128). `ProgressGet`, `ProgressPut`, `BeatGet`, `BeatPut`, `FinishPut` are the read-merge-put of
`publishRunState`, `RunPutFails`, `BeatFails` its failures; `Poll`, `SweepEnd` the sweep; `StopRead`,
`StopGet`, `StopPut`, `StopPutFails` `requestCancel`; `Crash`, `Pause`, `Age`. History: `unclaimed`
(a stop overwrote a claim), `unread` (a claim whose read failed went over a live one), `erased` (a
write lost a stop), `carried` (a write brought a stop back onto a row that had been reset), `aged`.

- `OneRunner`: two runs are alive at once only after one was silent for `staleMs`, a stop put
  back a row it had read before a claim, or a claim's own read failed.
- `CanceledForCause`: a run is cancelled only by a stop requested while it was alive: one meant
  for an earlier run ends no later one, however it crosses the finish and the claim, unless a
  write of the earlier run that had read it lands after the claim.
- `StopHeeded` (liveness): a stop reported as requested ends its run, but for a write under way
  that erased it, a failed one, a silence, or a claim that could not read the run it went over.

### RenderWorker

State: the two loops of `run` (`filler`, `loop`, `hand`) and the bounded `pool` with its capacity;
per job its fate and the stage of its render; per browser its process, `refs` (jobRefs), `active`
and `opened` pages, pages whose close event is to come (`disposing`); `current`, `launching`,
`retired`, `aged`; the shutdown (`draining`, `phase`, `awaited`); the browsers the reaper is closing
(`reaping`) and those whose `close()` failed (`unclosed`).

An action is what runs between two awaits on something outside the process: `FillerPulls`,
`TakeJob`, `Start` move jobs; `GetBrowser` (`UseBrowser`, `WaitForLaunch`, `Launch`), `ContextMade`,
`PageOpened`, `RenderEnds`, `RenderRetires`, `VariantDone`, `Post` render; `Reap`, `Reaped`,
`Disposed`, `ChromeCloses`, `Age` clean up; `LaunchFails`, `ContextFails`, `PageFails`, `CloseFails`,
`ChromeCrashes`, `Uncaught`, `Unhandled` fail; `Terminate`, `EndDrain`, `Exit`, `FailExit`,
`ForceExit` end.

`ManagedBrowser.close` swallows the failure of `browser.close()` (170-185): to whoever awaits it
the close has returned (`CloseReturned`), and Chrome is killed five seconds later, if the process
is still there. An uncaught exception, at any time, tears down and exits within a second
(`phase = "failing"`); an unhandled rejection exits a second later without a teardown. A browser
retired again after it was reaped stays in `retiredBrowsers`, as `closing` keeps the reaper off it.

- `ChromeKnown`, `NoChromeLeft`: every Chrome is tracked or told to close; a drained exit leaves
  none running or launching. Excused are `stray`, a browser forgotten when another is retired twice,
  and in `NoChromeLeft` `unclosed`: the exit does not wait for the kill.
- `ReapedIdle`: a retired browser is closed before its deadline only when no render uses it.
- `JobsSettle`, `RetiredReaped` (liveness): every job comes to its end; every retired browser is
  closed, even one with a page whose close event never comes.

## 3. Runs

| Run | Question | Bounds and why they are enough |
|---|---|---|
| `ReadyQueue` | all interleavings of publishes with takes; is every entry served | 2 workers, capacity 2, batch 1, 3 generations (the third rewrites the slot of the first, which a take may still be reading), cursor begun below 4: takes across one and two publishes, two takes straddling one reset, an exhausted set clamped by both |
| `RenderLease` | exclusivity and release, word by word | 2 workers, 1 key, 2 slots, one of them left by another key (so that a grant in progress looks live under the wrong key, and two grants can win two slots), leases of 5 ticks, holds of 6, grace 2, renders of at least 2, 7 ticks, 3 leases, walks of the slots begun by tick 3: a lease, its expiry or release, a second over the same slot and a late release of the first; leases longer than a render and its release, so that a released slot is taken again while the old lease would still run |
| `RenderQueue` | the safety of the cycle | 2 claims, 2 renders out, 1 result, 1 fast retry, misses told apart to 3, one change or ask, no restart, every result timed or not: an old and a new lease of a key, both answering, under each lane (3.9 million states) |
| `RenderQueueLive` | does the change get rendered, whatever a restart forgets | 1 claim, 1 render, 1 result, no fast retry, 2 misses, one change, one restart: a result of a render granted before the restart, with no lease to test it by, and handled across a later grant |
| `RenderQueueMark` | violation: a mark survives a second change | as `RenderQueueLive`, two changes, no restart |
| `Corpus` | do the three rows agree in the end | 2 events (any two creations, walks, purges, expiries or retirements overlap), one fault anywhere |
| `QueueKeeper` | is a wrong entry owed a correction | 1 key, which the node owns under one of two node lists, 3 disturbances (say a write during a walk, a failed read, a change of the list) |
| `KeeperGained` | violation: gained rows are walked in | as `QueueKeeper` |
| `SharedSnapshot` | does it implement one document | 2 readers, 4 documents of sizes 2, 1, 1, 2 (each slot is rewritten, by one of another length), 3 attempts |
| `RunState` | one runner, stops that end their run and no other | 3 runs (one ended, one claimed over, one beside it), 1 stop, 1 fault |
| `RunStateMutex` | violation: the claim is a mutex | as `RunState`, no fault |
| `RenderWorker` | jobs settle, no Chrome lost | 2 jobs (one of one variant, one of two sharing a context), concurrency 2, pool 1 to 2, 3 launches, a ceiling of 1 page (a browser is retired while used), 1 fault, one short lease, shutdown at any moment |

With two TLC workers `SharedSnapshot` takes seconds, `Corpus`, `RunState`, `RenderQueueLive`,
`QueueKeeper` and `ReadyQueue` about a minute or less each, `RenderLease`,
`RenderWorker` and `RenderQueue` about two, the violations less. Larger instances run once to the
end by hand, with the same properties: `ReadyQueue` with batch 2; `RenderQueue` with one
restart (8.0 million states); `RenderQueue` with one change
**and** one ask (one claim, `FastRetries = 0`, two renders, no restart; `FoundChangeKept`, 19
million states, in an earlier form); `QueueKeeper` with two values of a row (2.2 million states),
and its safety with two keys in an earlier form (8.8 million). `MaxMisses` is above the hold limit,
and the code tells no count above the limit apart.

`CHECK_DEADLOCK FALSE` is set for `RenderLease`, `QueueKeeper`, `KeeperGained`, `RunState`,
`RunStateMutex`, `RenderWorker` and `Corpus`: their clock, events or jobs are bounded, and at the
end nothing is left to do. That nothing stops early is what their liveness properties say. The
other runs check deadlock.

Symmetry is used for interchangeable claims, renders and results in the `RenderQueue` run only,
which checks safety.

Each property of a passing run has at least one mutant (`PROJECT.json`): one definition changed
the way a plausible bug would change the code - a plain store for a compare-exchange, a release
without grace, a mark not carried forward, a merged request dropped - under which the run finds
the property violated. The mutated forms stand beside their originals, introduced by "Mutant:".

### Fairness

`ReadyQueue`: `publish` and `take` are synchronous, so each runs to its end once begun (weak
fairness of each one's steps); consumers poll for as long as they live. No fairness on
publishing: an idle keeper publishes nothing.

`RenderQueue`, `FairSpec`: time passes; handlers, claims and filings begun come to an end; the
fleet keeps claiming; a renderer in hand of a job ends it. Renders may fail and commits may fail
again and again, but not for ever: a key granted infinitely often is in the end answered by a
render of its own lease, whose reads do not always throw and whose commit in the end lands.
Without that the page cannot be replaced by anyone. What the property then says is about the
plugin: no hold, drop, lane or mark keeps such a page out of rotation.

`Corpus`: writes land or are lost, leases and graces end, the fleet claims and answers, the
reconciler's timer keeps firing. Nobody need start a walk, a purge or a sweep of pages;
`PagesReclaimed` says what follows if someone goes on starting sweeps.

`QueueKeeper`: the event loop runs what is ready, and the timers of publish, of the retries and of
the backoff fire. Head checks reach due keys only and need not come; the periodic walk is assumed
only in `VerifyHeals`.

`RunState`: store operations end, a sweep polls and obeys. Nothing says that a sweep ends by itself,
or that a claim ages. `RenderWorker`: loops, launches, renders, posts, closes and the reaper go on;
a page's close event need not come. One weak fairness of the disjunction is enough there, because no
step is ever undone and every behaviour is finite.

### Findings

Three claims of the comments that the code does not keep; each has a run that violates the claim.

1. `RenderQueueMark` - a second change found while the first is still marked keeps the first
   instant (`renderSchedule.js:269`), so a render granted between the two is stored as fresh and
   clears the mark.
2. `RunStateMutex` - the claim is called "a genuine cross-worker mutex" (`runState.js:29-35`), but
   a stop that read the row before a claim writes it back over the claim.
3. `KeeperGained` - a resync records the node list it reclassified by whether or not it walks
   (`queueKeeperService.js:557`), so the walk that adds gained rows can be skipped.

Met while modelling and accepted or excused in a property, with no run of their own:

- ready set and lease: two takes can be handed one index of one generation (`readyQueue.js:230`),
  which the lease then refuses; two overlapping grants into one fresh slot can both succeed
  (`renderLease.js:309`); the walk's plain store (`renderLease.js:515`) can erase a grant made
  during it from the gauge; the release of an expired lease starts no grace;
- cycle: a result that arrives after a re-grant and cannot prove its age (a repeat of a post whose
  answer was lost, or one without render times) releases the new lease and may land over a newer
  render, as "processed exactly as before" says (`RenderQueue.js:624-636`); so may one from before
  a restart, and one handled so slowly that the key is granted and answered meanwhile (lateness is
  tested once, on arrival); "the first result that comes back for the key resets it"
  (`renderSchedule.js:336`) is not so of a result that leaves its row due, which carries the
  misses (`renderLease.js:434-437`); strikes of interleaved
  results are written from values read earlier; an ask's put replaces a mark committed since its
  read; an ask kept at its first instant has the shape of finding 1;
- run state: a claim whose read failed goes over a live run (`runState.js:70-77, 127-128`), against
  l.29-35 as finding 2; a first progress or heartbeat that read the row before a stop erases it,
  against 178-179, and one that read a stop puts it on the next run; a beat that lands after the
  finish resurrects `running`; `requestCancel`
  answers `requested: true` when its write failed; `finishRun` does not check whose run it ends;
- worker: `destroy` clears its lists of browsers while closes are pending, so a forced exit finds
  none to kill (`Worker.ts:695-726` against `errorHandler.ts:8-12`); a failed `browser.close()` counts
  as closed in a drain; `retireBrowser` nulls
  `this.browser` also when another is current (766-773); between `createContext` and its answer
  a browser carries no job reference (962-967);
- corpus: the purge's delete trusts a predicate tested earlier (`discoveredPurge.js:182` against
  31-34); `Target.revalidate` files a null cadence (`Target.js:430`) where a result would read
  one; a mint's read and put can strip `sitemapUrl` until the next walk.

## 4. Proofs

All theorems hold for every value of the constants that satisfies the module's assumption: sets of
any size, any number of workers, events, faults and restarts. The assumptions are types (`MissLimit`
within the misses told apart, a queue depth within its maximum) and, for the lease table, whose
clock is in ticks, that a hold is no shorter than a lease and that no thread is preempted inside an
operation for as long as a render, a grace or a third of a lease.

**`ReadyQueueProofs`** (any workers, capacity, batch, generations): `ReadyTypeCorrect`,
`ReadySetWhole`, `ReadyNeverSkips`, `ReadyCursorBounded`, `ReadyDuplicatesBounded`. The first four
have one inductive invariant `IInv`. The properties alone are not inductive: that the active slot
is whole needs to know where the publisher is (`PubInv`: it writes the other slot, which holds
what it will announce); that nothing is skipped needs what each take has read (`TakeInv`: a take
whose increment followed the latest reset has read the active slot, and an index it holds to read
is below that slot's count; a clamp goes no further back than the index it was counted at); that
the cursor is bounded needs who is responsible for a cursor past the capacity (`CursorOwned`: the
take whose increment it is, and which is about to clamp it). The bound on repeats is a counting
argument (`DupInv`): for each entry, the times it was handed out, the takes about to hand it out,
one if the cursor has still to pass it, and the straddling takes, each of which can put the
cursor back once, together stay within `1 + straddlers`.

**`RenderLeaseProofs`** (any workers, slots, clock, stalls, leases):

- `LeaseTypeCorrect`, for any keys. `OpsOK` says what every operation carries from one atomic
  step to the next.
- `LeaseExclusive` (`ExclusiveOnceSlotted`), `LeaseNoForeignTruncation` (`NoForeignTruncation`) and
  `LeaseOrder`, the inductive invariant `LeaseInv` they follow from, for a table that one key of
  the model uses (`OneKey`, a hypothesis of each), beside slots that other keys have left (`Stale`).
  With two keys neither holds: the loser of a race for a fresh slot may have stored its high word
  over the winner's, so that the slot is found by neither and the winner's key is leased again.
  `renderLease.js:255-258` accepts that.

  The actions are used through `Moves` alone: what a step of one worker does, by the step it
  comes to. `SlotInv` is about where the key is. A grant is *blind* to a slot if it takes a fresh
  one or has probed past it. A slot that holds the key and that nobody is about to give back is
  its *home*: every other slot with the key is about to be given back, and at most one grant is
  blind to it (`Home`). It is never given back, because a slot with the key is live, for at least
  a stall, to every grant blind to it (`BlindLive`, `FreshLive`), so that the look at the other
  slots finds it (`ClaimElsewhere`, `ClaimBack`). There is one home (`HomeUnique`), and every lease
  is in it (`LeaseHome`). This is where two grants at once matter (`Pair`): a third could give
  back a slot just granted.

  The rest of `LeaseInv` is about when. The home's expiry is more than a stall past the start of
  each of its leases (`Later`) and, but for a stall and for twins, as far off as a lease in flight
  lasts (`Lasting`). So a grant that has read it expired comes a stall after every lease before it
  (`Ordered`) and when they are over (`Over`); only fresh grants overlap, and those are twins
  (`FreshTwins`). For a release: the stamp it has found in the slot is no older than a stall before
  the last lease (`Stamps`), the lease it names was handed out a render ago, so that no grant is
  blind to its slot any more (`ReleaseSees`), and the expiry it compares with is not past the
  start of any later lease (`ReleaseSpares`), which `Later` says the slot's own expiry is.

**`RenderQueueProofs`** (any number of claims, renders, results, retries, events, restarts):

- `RenderTypeCorrect`, `RenderWedgeBound`, `RenderNoGrantBehindCommit`, `RenderForeignLeaseKept`.
  `RecordsOK` types what is in progress. `StreakInv` ties the number of grants to the miss count
  the slot carries: never more than one ahead of it, and not ahead once the due minute was
  forgotten. `MinuteInv` is why a reset of the count is honest: a row, or what an unmoved claim or
  filing has read of it, can differ from the granted minute only if the streak started again.
  `ResultInv`: a result taken for a lease and of another render is one that proved nothing, and what
  is being committed for a lease it gave up is under that lease's grace.
- `RenderAskOutlives`. `AskInv`: a result whose lease was granted before an ask has read that ask on
  the row, or the ask was put after it read; and one that read it is not in the lane that clears it.
- `RenderHeldForCause`. `HoldInv` compares the misses the next grant will carry with the strikes:
  without a cause the misses are never more than the strikes, and fewer once the lease's own
  failure is committed; a failure still to be committed has its strikes above the misses
  (`PendingInv`). As the strikes end the fast lane at `fastRetries`, the misses never reach the limit.
- `RenderFoundChangeKept`. `MarkInv`: a copy in hand of a document found changed knows of the mark
  (it was filed after its grant), so it is dropped, unless the handler read the row before the mark
  was put, and then the mark is among its `unseen`. Results of the latest lease's render are of one
  render (`OneRender`), so what one of them may do the others may. A result of another render, whose
  lease tells nothing of its age, may replace the page only at the price of `raced`.

**`QueueKeeperProofs`** (any keys, values, node lists, disturbances): `KeeperTypeCorrect`,
`KeeperMismatchOwed`. `StateInv` says what can run in which phase and that every walk wanted for
later has a timer or a walk that will see to it. `OwedInv`, while no lapse has been made, for each
key: a correction is due whatever the walk under way has read, or the entry is right, or the walk
under way is owed and has still to see it (`KeyInv`); and what a walk or a point repair has read
and not yet applied is the table's value, or will be overtaken (`RowRight`, `PhantomRight`,
`HeadRight`). A head check that outlives a walk is the hardest case (`ToSee`, `Gone`).

**`RenderWorkerProofs`** (any jobs, browsers, concurrency, ceiling, faults): `WorkerTypeCorrect`,
`WorkerChromeKnown`, `WorkerNoChromeLeft`, `WorkerCountsTrue`, `WorkerReapedIdle`. `PlaceInv`
places every render on the browser being launched or on one that has been up, `CountInv` says what
the two counters of a browser count (the renders that hold it; their pages and those whose close
event is to come), so that a browser with both at zero is idle; `SlotInv` and `QueueInv` that the
loop starts no more than it may; `TeardownInv` that the teardown after a drain awaits every Chrome
there is, but for those whose close failed.

**`SharedSnapshotProofs`** (any readers, documents, sizes, attempts): `SnapshotTypeCorrect`,
`SnapshotNullForCause`, `SnapshotImplementsDocument`. `WriterInv` and `SlotsInv` say what the slots
hold at each place of the writer, `ReadInv` that a copy taken while the generation stands still
is of the document seen, `AttemptInv` counts attempts against generations. Every step then maps
to a step of `SharedDocument` or to a stutter: the flip to `Publish`, a load of `active` to
`Look`, the end of a read to `Return`.

**`RunStateProofs`** (any runs, stops, faults): `RunTypeCorrect`, `RunOneRunner`,
`RunCanceledForCause`. `LockInv`: the claiming run holds the lock, and it alone. `ClaimInv`: while no
run was silent, no stop overwrote a claim and no claim's read failed over a live one, the run
alive is the only one, the row says it runs, and every heartbeat or progress under way carries
that. `CancelInv`: while nothing carried a cancel over, the row of a run alive says it is cancelled
only if it was stopped itself.

**`CorpusProofs`** (any events, faults): `CorpusTypeCorrect`, `CorpusOrphanForCause`,
`CorpusSweepSparesLive`. What each render has read bounds what its landing may leave (`RenderOK`),
what the sweep has read is old unless it was written since (`SweepOK`, `SeenOld`).

The proofs corrected the models where the small instances had not reached: the count of pages
opened has to be capped for more renders than the ceiling allows (`Capped`); overlapping results
of one URL may rewrite an ask or a mark that the other has not seen (`unseen`); two arms of
`FoundOut` and of `CauseOf` overlapped; with two results at once a page overtaken by a newer grant
can replace the newer page (`~res.latest` in `raced`); the fast lane can add up to a hold after a
result that cleared the strikes and left the misses (`cause`); and a second or third lease beside
twins is not excluded by the order of the words (`Twins`, `Granting`).

Only model-checked: all liveness, which is out of this proof system's reach (`EveryEntryServed`,
`FoundChangeRendered`, `IndexConverges`, `VerifyHeals`, `StopHeeded`, `JobsSettle`,
`RetiredReaped`, `RowFollowsTarget`, `PagesReclaimed`). Every invariant and every action property
of a passing run is a theorem.

## 5. What is not modelled, and what is assumed

`RenderLease`: the runs take one key. Two keys that race for one fresh slot can leave one's low word
beside the other's high word, which leases neither; `renderLease.js:255-258` accepts that.
`LeaseAssumption` says no thread is preempted inside an operation for as long as a render, a grace
(5 seconds, `renderLease.js:130`) or a third of a lease (at least 2 minutes, l.124-130) takes;
without it the clock could run through a lease inside one call. The third is what the proofs need (a
fresh slot's expiry may be stored a stall late, by a grant that began a stall before it, and the
slot must be live for a stall yet). A slot taken over and taken back with the same expiry second is
not distinguished.

A hold is taken to be no shorter than a lease: no cadence is shorter than `queue.jobLeaseTime`. At most
two grants of a key are under way at once (`GrantBegin`); nothing in the table enforces that, it is
what the ready set hands out.

`RenderQueue` assumes one device per URL, the row on its owner, that a claim or filing in progress
does not straddle the end of a lease, and that the grace outlasts the commit it is for
(`GraceEnds`): the code gives the commit a fixed 5 seconds, and a commit slower than that is granted
behind. A start reported later than the grant changes neither test; one within the 5 seconds of
slack before it (`LEASE_GENERATION_SLACK_MS`), for which a mark or ask of just those seconds would
count as later than the render, is taken for the grant. A probe pass that finds again the change it
already found is left out, and a restart does not fall between a mark filing's read and put. Not in
it: redirects, suppression, refiling and targets deleted during a render; results for several
devices of which some fail; and the render check (`recordPageClaim`, `actOnStaleRender`).

`Corpus`: one commit per result (page and row together), one render at a time, the page sweep's
re-check and delete one step (the lease is not looked at again there), the redirect verdicts
folded into retirements, one URL on its owner. The sweep by key rule (`orphanSweep.js`), the
reopening of gone URLs and the entity gate are left out; `dryRun` is off.

`QueueKeeper`: `start` runs again only after a failed load, so that the epoch never changes under
a walk; unreadable rows and walks that stop early, the ranking, the 60 s of the published head
and the withdrawal at shutdown are left out.

`SharedSnapshot`: the writer does not stop between the flip and the increment; a document too
large for a slot is refused before anything is written. `RunState`: no worker dies holding the
mutex, whose timeout is not modelled; the age of the heartbeat is one bit. `RenderWorker`: the
loop without prefetch, the fetching of documents (`documentReuse`, `documentPrefetch`) and a
failure to wipe a shared context are left out; what runs between two awaits on the event loop
alone is one action.

Not modelled at all, with the reason in `PROJECT.json`: what happens inside a page (renderer,
readiness, audit), how a request is answered, fetching and parsing of sitemaps, sampling and
demand, entities, configuration, metrics, the endpoints of the administration and the console.
Most of the repository's lines are of that kind: they read, format and present state, drive
Chrome, or compute decisions of one call from its arguments.

## 6. Plan

Done: the ready set, the lease table, the render cycle, the three rows of a URL, the keeper, the
shared snapshot with its abstract document, the run state, the render worker; the safety of all of
these proved.

Left, in this order:

1. `QueuePause`: the intent rows of `QueueState` against the node-local flag.
2. The fleet's consumer (`RenderQueueConsumer`, `HostHealth`): lost wake-ups, the circuit breaker.
3. `PeerHeal`: a forwarded filing that timed out and was filed all the same.
4. An abstract lease that `RenderLease` implements once a key is slotted, and an abstract ready
   set that `ReadyQueue` implements; backoff arithmetic as operators over bounded inputs.
