# OtelContext in TLA+

OtelContext ingests OpenTelemetry data, answers each OTLP Export only after the
*aggregated* form of it is durable, keeps a bounded selection of raw rows beside it,
and serves queries from memory and from the store. This directory models the
aggregation core (`src/internal/aggregate`), the raw path around it and the platform a
process starts and stops, model-checks them with TLC and proves most of their safety
properties with TLAPS.

## The system

| Part | State it keeps | Operations | What is hard | What makes it correct |
|---|---|---|---|---|
| group-commit writer (`writer.go`) | waiters, pending bytes and deltas, the submission channel, the batch | `ApplyErr`, `commitLoop`, `commit`, `RunBarrier`, `Shutdown` | clients, the loop, a barrier and Shutdown meet on channels; commits fail; crashes | answered only after durable; every admission released once; everybody answered |
| window engine (`engine.go`) | shards, mutable and closed windows, the finalized watermark | `PlanAdmission`, `CommitAdmission`, `Rollover`, `MarkFinalized` | a window changes owner while a batch is in flight | a window has one owner and its rows are counted once |
| window finalizer (`writer.go`) | the pass in progress | `FinalizeDue` | a window fails, others do not; a crash between the store and the engine | expired windows leave memory, no row is lost |
| aggregate store (`store_sqlite.go`) | delta log, buckets, dictionary, series, watermarks | `CommitGroup`, `FinalizeWindow`, `PurgeBefore`, `SweepIdentities` | a window may be finalized twice | transactions add, never replace |
| rollups and service summaries (`rollup.go`, `service_summary.go`) | markers, hourly rows, summary cells, owners of the derived tables | open, discover, build an hour, build and clean a summary, read | nothing is locked while history is merged; buckets change, other processes and older binaries share the file | derived rows answer only what the buckets would |
| recovery (`recovery.go`) | none of its own | `Recover` | the clock moves between its steps | memory is what the log says |
| queries (`query.go`) | the read in progress | `planStore`, `SumBuckets` | memory and store are read at two instants | complete and without double counts |
| identities (`registrar.go`, `dict.go`, `gc.go`) | forward maps, staged rows, touched and fenced sets, cache | `Intern`, `Register`, `Collect` | the mark runs without a lock | a stored row keeps its name; an ID means one name |
| limiter (`cardinality.go`) | counts per scope, overflow series | `Admit`, `Release` | windows are left and re-entered in any order | the counts are the live series |
| baselines (`temporality.go`) | cumulative value, inflight and owed increase per producer | `ObserveCumulative`, `DrainDirty`, `Rollback`, `Seed` | the drain does not know which export a baseline belongs to | totals exact over failures and retries but for refused exports, never too high after a crash |
| topology projection (`topology.go`) and its view in GraphRAG | entries per window, dropped counters, revisions | fold, prune, reconcile | caps, pruning and re-admission | a loss is always declared |
| template miner (`template_miner.go`) | tree, staged rows, aliases | mine, drain, confirm, reload | a pattern moves on while an older version commits | an acknowledged line's identity still covers it after a crash |
| raw pipeline and receivers (`ingest/pipeline.go`, `otlp.go`, `aggregate_bridge.go`) | queue, byte and tenant accounts; the groups of a request | `Submit`, `process`, `Shutdown`, the three `Export`s | reservation and send are two steps; clients retry; three modes order raw and aggregate differently | accounts exact; what a client was told holds |
| exemplar policy (`exemplar.go`) | cells per service and window, byte reservations | `AdmitSpan`, `ReserveSpan`, `ReserveLog`, commit, release, merge, prune | cells are pruned while reservations are open | ledgers agree with the reservations |
| dead letter queue (`queue/dlq.go`) | files and retry counts | `Enqueue`, `processFiles` | eviction and failed removals against replay; crash | bounded, nothing vanishes uncounted |
| Prometheus backend (`prometheus/client.go`) | semaphores, waiters, byte budgets | forward, query | a response is lost after the request was applied | every point accounted for |
| gates and cache (`api`, `authn`, `cache`) | buckets per address, cached answers | health, rate, authentication, tenant binding, `Get`, `Set` | the tenant comes from several places and an answer outlives its request | a tenant sees its own data |
| raw storage, retention, watchdog (`storage`) | rows, partitions, the shedding level | inserts, purges, partition drop, `Sample` | purges in batches that fail or are cancelled between two; blind samples | only what expired goes |
| TSDB aggregator (`tsdb`) | buckets, rings, flush channel | `Ingest`, flush, `Shutdown` | a full channel, failed writes | a clean shutdown saved everything |
| GraphRAG (`graphrag`) | stores per tenant, event channel, high-water mark, templates | events, rebuild, prune, evict, `Shutdown` | enqueue against close, panics, pages with overlap | a clean shutdown processed everything |
| realtime and event hubs (`realtime`) | clients, send channels, buffers, announced revision | register, unregister, publish, seed, `Stop` | three goroutines per client and a loop that ends | Stop returns; nothing goes back in time or to another tenant |
| migrations (`migrate`) | ledger, schema | `up`, `baseline`, `status`, startup gate | unlocked inspection while a peer migrates or dies | an inspection never takes migrating for damage |
| lifecycle and backup (`main.go`, `shutdown.go`, `backup`) | markers, proofs, owners, bundle | start, shutdown steps, create, restore, verify | a failure or death between any two steps | what a restore verified is one clean stop |
| dependency graph, sketches, MCP's tools, configuration, TLS, AI, UI | read models, arithmetic and I/O | | | not protocols of their own |

An Export is reduced to deltas per (series, window), interning names, mining log lines
and converting cumulative points on the way, submits the deltas to the writer and parks.
The commit loop merges the parked submissions, asks the engine for an admission plan,
writes registrations and deltas in one transaction, applies the plan to the shards and
answers. The finalizer moves expired windows from the delta log to the buckets and then
tells the engine to hand the window over. The identity collector borrows the commit loop
through `RunBarrier`. After a crash recovery finalizes what expired and replays the rest
of the log. Beside the aggregate, the receivers offer rows to the exemplar policy and
submit what it keeps to the pipeline, whose failures go to the dead letter queue; in
aggregate mode the aggregate is the acknowledgement and comes first, in shadow mode it
follows the raw submit, in legacy mode there is none.

`PROJECT.json` lists every component, modelled or not, and every hazard with the
line at which it bites.

## The modules

### The aggregation core

**`DurableAck`** is the promise to a client, without any mechanism: a set of
Exports becomes durable at once, a durable one may be acknowledged, one that is not
durable may be refused, and an answer is final.

**`GroupCommit`** models the writer. `pc[e]` is where an Export is inside `ApplyErr`
(the closed check, `admit`, the `select` with its send and its stop branch, the wait
for `done`). `loop` is where `commitLoop` is; `Collect` and `CloseBatch` are the
batch loop, whose timer may end it at any moment. `CommitOK`/`CommitErr` are the
transaction, `Apply` the shard apply, `Finish(e)` one iteration of `finish`'s loop:
other goroutines run between any two of them. The channel is a sequence, so its
order and its capacity are kept. `Crash` keeps `durable` only and restarts with the
shards replayed. `raced` is a history variable: Shutdown overlapped an Export
between its closed check and its send.

**`AggregateWindows`** models the life of windows. One series stands for all: a
delta is a function from Exports to counts, so `Merge` is addition and a lost or
doubled contribution is visible per Export. The commit goroutine is `PlanAdmission`
(rollover included), `CommitGroup` or `CommitGroupFails`, `CommitAdmission`; the
finalizer is `ListFinalizable`, then per window `FinalizeWindow` (or its failure) and
`MarkFinalized`; a query is `ReadMutable`, `ReadStore`, `Respond`; recovery is
`BeginRecover`, `FinalizeExpired`, `Replay`. `Tick` moves the clock between any two
steps. The windows an Export's points fall in are any that `admitPoint` accepts at
its arrival. `straddled` (a batch was applied after one of its windows expired) and
`failures` are histories.

**`IdentityGC`** models names and their collection. An Export interns a name
(`Intern`, on a miss `RegisterKnown`/`RegisterNew`, then `CacheStore`: three steps
under three separate lockings), the commit goroutine drains staged rows and commits
them with the deltas, `PurgeBefore` deletes the last data row of a series, and
the collector takes `GCSnapshot`, marks (`MarkSeries`, `MarkRegistrar`, `MarkCache`)
and, inside the barrier, runs `Revalidate`, `Fence`, `FenceCache`,
`SweepIdentities` or `SweepFails`, `ForgetCache`, `Forget`. `named` records the first
name ever durable under an ID, `raced` that an ID was handed out after the collector
could still have rescued it.

### The ingest path (checked by `MCIngest`)

- **`DeadLetter`**, **`Pipeline`**, **`RawIngest`** extend one another. A file of the dead
  letter queue is numbered in creation order; the replay walks a snapshot, and `Enqueue`
  with its evictions, which may fail after any of them, runs between its steps. `Submit`
  is three steps: the soft threshold, the tenant's slot with the bytes, and the send.
  `Shutdown` may also meet its deadline. `RawIngest` adds the Export handlers of the three
  modes, the synchronous fallback of each, the exemplar reservations and a client that
  delivers a failed Export again. The fallback inserts trace rows, the client's rows and the
  synthesized logs one after the other and answers OK although the first or the last failed;
  rows kept that way are `"bare"`.
- **`Intake`**: the concurrent goroutines of a request's resources and the merge of
  their rows and flags into one group per tenant. Every synthesized log of a span is
  reserved, or refused, on its own.
- **`ExemplarPolicy`**: cells and traces carry the number of the offer that created them,
  because a pruned one lives on in the reservations that point to it. An entry of a
  reservation names its cell, its trace and its window by these numbers, so settling
  changes what the pointers still reach and nothing else.
- **`MetricsExport`**: the metrics handler over the bounded Prometheus client; a forwarded
  request may be applied although its response is lost.
- **`Gates`**: health gate, rate limiter, authentication, tenant binding (HTTP, gRPC,
  WebSocket, MCP and the read API each in its own way), TTL cache.
- **`SeriesLimiter`**: `Admit` and `Release` in any order; every caller in the engine is
  a sequence of the two.
- **`Baselines`**: one series, two producers; the group drains *every* dirty baseline as
  `DrainDirty` does, points are observed until the transaction ends, its rows seed the
  tracker after a restart and are purged by age. `BlRefuse` is an admission that fails
  after the reduction: the baseline has moved and nothing moves it back. A point whose window closed more than the
  allowed lateness ago is excluded before it reaches the tracker (`Late`, the rule of
  `Classify`), and a purge is further back than that; without this a retried point
  would open a purged baseline again and its increase would count twice. Histories:
  `noted`, `stranded` and `seen` ride in the record and in its row, so a restart takes them
  back too; `grown` is what a counter really grew, also up to each point; `blOverlap` says
  that a drain met the increase of an export that waits outside its group; `blOrphan`,
  `orphan` of a group and `blLost` follow the increase of refused exports from the tracker
  through a drain to a durable baseline without its delta.
- **`TemplateMiner`**: mining, generalisation, aliases and the hand-over of staged rows to
  the group commit, crash and reload.
- **`TopologyProjection`**: the engine's fold per tenant and GraphRAG's reconciliation.
- **`Rollups`**: processes of different binaries open, rebuild and close one file; bucket
  changes fire the triggers; the worker's build of an hour, the slices of a summary and the
  cleanup of a purge each check their token in the transaction that writes. A history read
  runs in one snapshot, so `SumRead`, `WindowRead` and `SketchRead` are functions of the
  state.

### The platform (checked by `MCPlatform`)

- **`RawStorage`**: rows as sets, the scheduler and the on-demand exemplar purge as
  batch steps, daily partitions, and the watchdog's ladder.
- **`Tsdb`**: buckets under both caps, rings, the ticker's and the final flush, workers,
  Shutdown.
- **`GraphRag`**: event channel and workers, tenant stores, incremental rebuild by page
  and overlap, eviction, templates, the shutdown barrier.
- **`Hub`**, **`EventHub`**: handler, reader and writer of each connection, the run loop,
  Stop. A send on a closed channel is a panic and ends the behaviour. `Selection` is the
  loop with which both keep the entries a client may see.
- **`Migrate`**: several processes; an inspection reads ledger, structure and ledger again
  in three steps. The startup gate's check of the full-text index is a step after its
  verdict (`CheckFts`), and turns an exact verdict into incompatible when the index is
  missing.
- **`Backup`**: runtime markers and proofs, the shutdown steps, create, restore, verify.
  After a restore compared its targets with the manifest it starts this binary on them
  (`CandidateStarts`), which writes to them as any runtime does (`CandidateWrites`), until
  `ReadinessProof`; nothing compares them again.
  `BkStartDuringCreate` says whether a runtime may be started while `backup create`
  copies; nothing in the code excludes it, the documented procedure does, and the run
  takes the procedure.

The parts of a suite share no variables, so each behaviour of `MCIngest` and
`MCPlatform` runs one part, chosen in the initial state, and the others keep their first
value; no interleaving that could matter is lost, since a step of one part can neither
enable nor disturb a step of another.

A definition whose comment begins "Mutant:" is a plausible bug in the definition
that follows; it is used only to show that a property can fail.

Simplifications worth knowing:
- `PlanAdmission` reads the clock twice in one function; the model reads it once. The
  two readings of recovery are separate.
- Shards are one map. Applying them happens under one ownership lock in the code.
- Sketches, histograms and all payloads are counts; the merge is addition.
- One dictionary namespace; one series per name; template and alias candidates of the
  collector follow the dictionary's path and are not separate state; `Cache.Forget` and
  `Cache.Unfence`, which follow one another, are one step.
- In `AggregateWindows` the limiter admits everything, so `RollbackAdmission` has nothing
  to give back except the plan; `SeriesLimiter` models the limiter by itself.
- `Backup` has one runtime at a time. `BeginRuntime` (`runtime.go:143`) replaces whatever
  marker it finds, so a second process over the same files would make the first fail the
  mismatch check of `CompleteRuntime` (`runtime.go:195`); that check does not fire here.
- GraphRAG is started before Shutdown can be called (`main.go:788`, ahead of the
  receivers); the early return of a Shutdown without a start (`builder.go:443`) is left out.
- MCP's tool cache is not modelled; only the tenant of its requests is.
- The exports of one group share a topology revision and fold one after the other;
  `TopologyProjection` keeps that, and its property is about the projection itself, not
  about when GraphRAG's view catches up.

## The runs

| Run | Checks | Bounds |
|---|---|---|
| `group_commit` | the writer: exact budgets, no lost or doubled waiter, truthful answers, refinement of `DurableAck`, and that waiters, barriers and Shutdown end | three Exports of sizes that make each of the three admission bounds and both batch bounds bind; two waiters; one barrier at a time; one crash; 55,176 states |
| `windows_safety` | stored exactly once, shards follow the store, queries complete and without double counts | two Exports in up to three windows each, window and lateness one tick, four ticks (two expired windows at once, one above the cap), one crash, one failed finalization; 1,117,671 states |
| `windows_live` | an expired window leaves memory | the same with three ticks, no symmetry; 247,697 states |
| `identity_gc` | references resolve (rows, names, caches and fences agree), IDs are never reused | three Exports, two names, three IDs, two passes, two restarts (one leaves a name that is known but in no cache, the other comes after its ID was swept); 504,201 states |
| `ingest` | the eleven parts of the ingest path, below | 818,660 states |
| `platform` | the nine parts of the platform, below | 1,088,922 states |
| `query_gap`, `straddle`, `identity_race`, `baseline_drain`, `baseline_refused`, `rebuild_lag` | statements of the code's comments that the code does not keep; see Findings | as above, or one or two tenants, producers and series |

What `ingest` shows, and the bounds of each part:

| Property | What it says | Instance |
|---|---|---|
| `AccountsExact`, `AnswerKept` | the pipeline's byte and tenant accounts are what is being sent, queued or processed; the rows of every group answered as kept are somewhere or their loss was counted, and where the aggregate is the acknowledgement an Export counts once over all its deliveries (without the pipeline at most once per delivery) | every mode with the pipeline and without; two Exports with three groups of two tenants, a queue of one, two bytes, one worker; one disturbance per behaviour (a retry, a panic or raw_off) |
| `DlNothingVanishes` | an accepted envelope is on disk, stored, evicted or dropped after its retries | three envelopes, two files, three ticks, one crash |
| `BytesSettle` | reserved bytes of cells, traces and windows are those of the open reservations; budgets, strata and counts hold; retained spans never go negative | one service, two windows, two traces, three offers, every cap one or two |
| `MetricsAccounted` | an OK answer accounts for every point, and a resource is counted at most once over all deliveries | three Exports, one reader, two deliveries, limits of one |
| `BoundStaysHome` | a tenant's credential reads and caches that tenant's data only | fourteen requests over six surfaces, two cache entries, two clock ticks |
| `IntakeExact` | the aggregate sees every valid record once; groups hold their own tenant's rows, with the flags of their failed spans and ERROR or FATAL logs; the sampler loses no failed or slow span | four trace and two log resources, both policies |
| `CensusExact` | every counter is the number of live series charged to it and its cap binds | five series, two windows, two tenants and signals, every cap reached |
| `TotalsExactAlone` | totals exact over failed groups and retries but for what refused exports left, never too high after a restart, and no counter credited with more than it grew, unless a failed drain had met the increase of another export that waits | three exports, two producers (one past the cap, the other's counter moves twice in four units of time), windows and lateness of one unit, one failure, one crash or one refusal, or a failure with one of the others, two of the exports meeting them |
| `AckedLinesResolve` | the durable row of an acknowledged line covers it, through its alias if merged | two exports, five lines, two templates, one crash |
| `TruncationDeclared` | while no drop was counted the projection is exactly what was folded | three exports, three windows, caps of one |
| `HistoryExact` | in every state each history read, by service, by window or of sketches, returns what the buckets hold, and regroups only where that is exact | two binaries of different schema versions, one without the derived tables; two series of two services, two windows of one hour, two bucket changes, three builds or three stores |

The name cap is left out of `CensusExact`: `releaseLocked` (`cardinality.go:429`) deletes a
name when *one* of its series goes, so the number of live names under a scope may pass
its cap.

What `platform` shows:

| Property | What it says | Instance |
|---|---|---|
| `OnlyExpiredGo` | nothing within its retention disappears, whichever batch fails or is cancelled | three drivers, two tenants with one trace identity, two rows, six half days |
| `BlindNeverRelaxes` | a failed walk never relaxes shedding and the observers hold the current state | three volumes, three usages |
| `CleanShutdownSavedAll` | a Shutdown without error saved every point ingested before it | two tenants, two series, caps and channel of one, three points, two ticks |
| `ShutdownProcessedAll` | the same of GraphRAG's events and templates | two tenants, two workers, channel of one, two events; rows of the rebuild in behaviours of their own |
| `StopNeverWedged` | until Stop returned some goroutine can go on without a client | two clients, one more than admitted, channels of one |
| `ToldInOrder`, `EhToldInOrder` | what a client is told never goes back and never comes from another tenant | three and two revisions |
| `MigratingIsNotDamage` | no inspection takes a migration in progress, or half dead, for damage, and only the gate and the baseline command refuse; a gate that comes between the last migration and its full-text index is the one process told "incompatible" | two migrating processes and the gate, or one and two baselines; one fault |
| `RestoredIsOneStop` | what a restore has verified, and starts its candidate on, is one clean stop in every target | two starts, one write, one create, two restores, one write of the candidate |

`AggregateWindows` was also explored with windows of two ticks, lateness two and
future skew one over eight ticks (8,000,466 states, no violation), which is too slow
to keep as a run: points in the future and several ticks per window add nothing the
smaller instance does not show. `ExemplarPolicy` was explored alone with four offers
(735,132 states, no violation). Deadlock is not checked: clients stop calling, the
clock stops at its bound, and a writer that was shut down stays down. Two branches of
`Migrate.ApplyNext` (a peer with a newer binary recorded a newer or a failed version under
the lock) need such a peer and do not fire with processes of one binary.

Two Exports are enough for windows because every property speaks of one Export and
one other that moves the window under it; three in the writer let one wait in the
channel while another is in the batch and a third is refused. In the suites every cap,
channel and budget is one or two, so that the second or third item meets it; the bounds
of `MCIngest` and `MCPlatform` that keep two disturbances of one part apart are named
definitions there (`OneDisturbance`, `FewRows`, `RowsOrEvents` and so on).

### Fairness

Go's scheduler eventually runs a goroutine that can run. `GroupCommit` assumes weak
fairness of the commit loop, of each Export past its first step (each is a
goroutine inside `ApplyErr`) and of the barrier's rendezvous. `AggregateWindows`
assumes it of the commit loop and of the finalizer's ticker loop. Nothing obliges a
client to call, the clock to reach a value, the process to stop or crash, or a
transaction to fail or succeed; failures are bounded, so a retry eventually meets a
success, as the code's retry every pass assumes. The suites `ingest` and `platform`
check safety only; `StopNeverWedged` states the absence of a wedge by what is enabled,
without fairness.

### Findings

- `query_gap`: a failed finalization lets a newer window leave memory before an older
  one; the query's single bound, justified by "a contiguous suffix by construction",
  then skips the newer window. `QueryComplete` states what holds.
- `straddle`: a batch applied after its window was finalized makes memory own the
  window again with the late rows only, and queries miss the rest.
- `identity_race`: `Revalidate` releases the registrar's mutex before `Fence` takes it;
  a `Register` in between returns an ID the sweep deletes. `ReferencesResolve` holds
  when no ID was handed out in such a gap; the same history covers a goroutine that is
  still between `Register` and its cache store when a pass clears the touched set.
- `baseline_drain`: a group commit drains the baselines of exports outside it; when it
  fails, their increase is owed to the next point and still commits with its own export.
  `TotalsExactAlone` states what holds.
- `baseline_refused`: an export refused at admission has already moved its baselines, and
  nothing takes that back. Its retry is stale, carries nothing and is acknowledged; the
  increase is stored nowhere. The writer's comment rules this out ("It never degrades to
  bounded-loss ACK on its own"). `TotalsExactAlone` accounts for it as `Forgone`.
- `rebuild_lag`: once a page is full of rows inside the overlap, the rebuild's mark does
  not move, and the lag outlasts the next tick.

One disagreement among the repository's own statements: `engine.go:29-32`, the comment of
`Rollover` (`engine.go:827-841`), the help text of the metric ("Each one is lost data.",
`telemetry/metrics.go:734`) and the test at `engine_test.go:191` say that a window the
closed-window cap forces out of memory before its finalization is lost. That is so of an
engine without a store, which is what the test builds. With the group-commit writer installed
its rows are still in `aggregate_delta_log`, where store reads find them
(`store_sqlite.go:1793-1800` says so) and the next pass that succeeds finalizes them:
`QueryComplete` includes such windows and holds, so there the counter reports a loss that
did not happen.

Known limits that no run reports: the first point of a new overflow bucket of the TSDB is
counted and summed twice (`tsdb/aggregator.go:254-264` against `313-314`; the model does the
same); after Shutdown both cases of `ApplyErr`'s `select` are
ready, so an Export that passed the closed check may be sent to a channel nobody reads
any more (`main.go` stops the servers gracefully first; `ParkedIsAnswered` excludes exactly
this overlap through the history `raced`); a client's send channel may be closed
between the hub's check and its send (`hub.go:690`), a panic the model records and stops
at; an exception event on a span that did not fail is stored as an ERROR log, while its
batch lacks the flag that exempts errors from soft backpressure (`otlp.go:919` against
`otlp.go:879`); a displaced trace that `pruneEvictedLocked` forgot may be selected again
by a later span of a higher class; in aggregate mode without the asynchronous pipeline an
insert that fails after the aggregate counted answers an error (`otlp.go:1168`), and the
client's retry counts again, the double count `aggregate_bridge.go:72` warns of; a restore that
has reported holds what its candidate made of the verified targets; and a process that
starts between a peer's last migration and its full-text transaction is refused as
incompatible, not as behind.

## What is proved

For every value of the constants that satisfies the `ASSUME`s (bounds such as `MaxTime`
and `MaxCrashes` included), by an inductive invariant per component. The `ASSUME`s say
what the source says of its configuration and nothing more: limits are naturals, the key
file is one that loads, migrations have versions, an Export has groups, connections, Exports
and series are finitely many, a send channel has room for one message.

`Totals` holds what the proofs need to know of sums. The models add with
`MapThenSumSet`, a fold the provers cannot unfold. A sum of naturals over a finite set is
shown to be the cardinality of a set of dots, `f[x]` of them in the row of each `x`;
then adding, removing or changing one element is a fact about cardinalities. The
induction that links the fold to the dots is a least counterexample over the naturals,
because the library's induction rules take an operator parameter. A sum of some of
another's terms is at most the other (`TotalOfSome`), which is what thinning a directory
needs. That the loop `Selected` keeps only what passed its condition is shown there too
(`SelectedWithin`).

`GroupCommitProofs`. None of the properties is inductive alone: that an answer is
truthful needs to know what a batch in each stage of the loop may contain, and that a
release never goes below zero needs the waiter count to be exact. `IInv` adds
`LoopShape` (a batch exists exactly while the loop is collecting to finishing, and
has a result exactly after the transaction), `DurableExact` and `AppliedExact` (what
is durable and applied, by the Export's and the loop's state) and `WaitersBounded`.
From it: `TypeCorrect`, `ParkedExactlyOnce`, `WaitersAreExact`, `SendHasRoom`,
`AnswersAreTruthful`, `ShardsTrackStore`, `AnswersNeverChange`, and
`WriterImplementsDurableAck`, the refinement (without fairness). With `Totals`, also
`BudgetsAreExact` (the pending bytes and deltas are the sums over the outstanding Exports)
and `BudgetsHold` (they stay between zero and their limits). The proof needs the
Exports to be a finite set, because it counts them. `TotalsStayExact` is about the
baselines the same commits carry. Its `TotalsInv` is a ledger with two sides: a group that
did not overlap drained what its exports took and what refused exports left (`GroupCarries`), the rows, and the rows the
group under way would leave, noted at least what is durable (`RowsCovered`,
`GroupCovered`), which is what a restart falls back on, and the tracker noted what is held
(`TrackerCovers`); a clean record agrees with its row (`InStep`). That a counter is not
credited with more than it grew needs every mark of a producer, in the tracker, the rows,
the group and the points on their way, to be a mark of one counter (`MarksAgree`), and that
a forgotten baseline is older than any point that is not late (`ForgottenIsLate`).

`AggregateWindowsProofs`. That an acknowledged point is stored once needs what the
store holds of Exports that are *not* acknowledged yet: `PlanExact` (a plan holds each
Export of the batch once per kept window) and `StoredExact` (the store's content of
an Export is decided by its status). That a query counts once, although it reads
at two instants, needs `DisjointParts`: memory contributed nothing below the bound
the store will be read to. That the shards never hold more than the store needs
`ShardsAfterCommit`. From these: `TypeCorrect`, `AckedAreStoredOnce`, `NoDoubleCount`,
`ShardsAreProjection`, `OwnershipCoversMemory`, `QueriesNeverDoubleCount`,
`StoreIsMonotone`. `QueriesAreComplete` needs a second invariant, `QInv`: while no
finalization failed and nothing straddled, windows leave memory oldest first and only
after they expired, so the single bound of `planStore` splits memory from the store
although the finalizer runs between the query's two reads. `HistoryIsExact` is about the
rows derived from the same buckets. Its `RuInv` says what a token is worth: a token is
handed out once (`HourTokens`, `SumTokens`); a build whose token is still in its hour's
marker has a snapshot that is what the buckets hold, right rows where it has been and no
rows where it has not (`BuildTrue`), so what it publishes is right (`HoursTrue`); and for a
slice whose token and source are current, the cells written, the cells pending and the
cells being read hold together, for every service, exactly the series read so far
(`SliceTrue`), although any transactions of other processes may lie between a read and
its write. All of this is claimed only while the triggers exist: without them a bucket may
change under a marker, and what makes that harmless is that a store which owns the derived
tables has its triggers (`StoresOnce`) and that `ensureRollupSchema` voids every marker
before it restores them. It assumes finitely many series and windows, and series that are
numbered, because slices go through them in that order.

`IdentityGCProofs`. `IInv` follows an ID through its life: numbers in use are below
`next` (`NumbersOK`), the registrar's forward map and its staged rows agree
(`RegistrarOK`), what the sweep still holds is fenced in both maps (`SweepOK`), and,
outside the race the run `identity_race` shows, whatever an Export holds, a batch carries
or the store references is not condemned (`UseOK`, `BatchOK`, `StoreOK`, `MarkOK`; the
mark may be stale and its revalidation is what saves a touched ID). From it:
`IdentityTypes`, `NumbersStayUnique`, `NamesOutliveReferences`.

`AdmissionProofs`. `TenantsStayHome`: a cached answer belongs to its key's tenant, a
computation in progress was authorized for the tenant it computes for, and each of the
four resolutions of a tenant (HTTP, WebSocket, MCP, read API) gives a bound principal its own.
`LimiterCensus`: each counter is a cardinality of live series; `Admit` and `Release`
change the set by one element or not at all, which is where the overflow key that is
charged once and reserved once needs care. `GatesKeepLimits`: `Set` evicts until what
remains and the new entry fit, so the entries, the charged bytes (exactly the sum over the
entries), the rate limiter's clients and the breaker's failures stay within their limits.
`ClientKeepsBudgets`: the bytes held are the sum over the Exports that passed the
reservation, and they, the write slots, the waiters and the running queries stay within
their budgets. `MetricsAreAccounted`: what each side holds of
a request is decided by where its Export is, and the forward's acknowledgement is only
provisional until the answer (`MxInv`); it assumes that a request has finitely many
resources. `IntakeIsExact`: a goroutine reduced exactly the records it is past
(`Progress`), a kept span left its trace and its flags (`SpansFlagged`), a kept log its
severity, and the sampler kept what it must (`RecordsKept`); the merge then
only unites what the goroutines hold, and the sum of the reduced counts is a cardinality.
`BytesAlwaysSettle`: that a settlement finds in a cell what was charged to it needs
the ledger of every trace (`TraceLedgerOK`), that an entry is in one reservation
(`EntriesOK`), and that what an entry holds is older than the next offer: a cell or trace
created now, even under the name of one that was pruned, is held by nobody, so a late
commit cannot reach it. The caps need the counts per class and stratum to be those of the
selected traces (`RanksOK`) through the two displacements of one admission.

`StorageProofs`. `RetentionDeletesOnlyExpired`: the CAS on `running` gives a pass its own
cutoffs (`OnePass`), which are never after the clock less the retention.
`BlindSamplesNeverRelax`: the ladder is at rest for the last ratio (`LadderRests`).
`MigrateTypes`, `LedgerNeverLies` and `MigrationNeverLooksDamaged`: a recorded version is
the structure's version, and what an unlocked inspection read in its first step bounds
what it can find in the later ones (`ProcOK`); the gate's late check of the index adds one
case, an exact database whose index is pending. `RestoreIsOneCleanStop`: while a create
runs no runtime works, so what it copied is the disk, a bundle is one proved stop, and
targets are that bundle until the candidate starts on them. It assumes that no runtime is started during a create,
which the code does not prevent and `docs/OPERATIONS.md:265` rules out ("This is an
**offline** workflow").

`DeliveryProofs`. `SuccessMeansSaved`: without an error every point is in a bucket, on
its way through the channel or a worker, or saved, and once the loop stops, what came
before Shutdown is past the buckets. `ShutdownLosesNothing`: the admitted events are the
applied, the queued and those in hand, and workers are gone only when the channel is empty.
`HubTellsInOrder`: `HbInv` says that a channel holds only what its client may see
(`SelectedWithin`: the filter returns nothing else) and that no client was told a revision
newer than the published one, which only grows. `EventsTellInOrder` has two renderers, the
handler's seed and the loop: a client joins the groups of a scope only after its seed
(`SeedFirst`), the loop renders only when everything it rendered before is delivered
(`OneDuty`), and a scope's render is therefore no older than what its clients were told,
from the render (`RenderedAhead`) to the delivery (`DeliveredAhead`). `StopCanGoOn` says
with guards what `StopNeverWedged` says with `ENABLED`: `StInv` gives, for every connection
Stop waits for, a place with a step. A client outside the loop's set has its channel closed
(`OpenAreKnown`), so its writer drains and ends; one that was not registered yet finds
`stopCh` closed. `StopOnlyDrains`: no step after Stop began adds a connection to wait for.
`HubKeepsLimits` and `EventHubKeepsLimits`: both hubs count a connection before they check
the cap and a refused one gives its place back, so the counter may exceed the cap; what
stays within it is the connections accepted. The counter is exactly the places held, so
none leaks, channels stay within their capacities, and in the event hub the writer of a
client that left has a closed channel to end by. `TsdbKeepsCaps`: `seriesPerTenant` is the
number of the tenant's own series, every bucket is a series under both caps or an overflow
bucket, and the rings and the flush channel keep their sizes.

`IngestProofs`. `AnswersAreKept`: `RawInv` says where the batches of every Export are by
where the Export is (`ExportOK`), batches only move between the queue, a worker, the
database, the dead letter directory and the counted losses. It holds for every mode with
the pipeline and without; only the bound on the aggregate's count depends on it.
`AccountsStayExact`: `Accounts` adds that a batch on its way is in one place once and older than
the batch at hand (`InFlightOnce`), that slots and bytes are the totals of those batches
(`SlotsExact`), and that the ledger is the groups still to settle (`LedgerExact`).
`DeadLettersNeverVanish`: an eviction or a replay thins the directory and keeps its order
and its limits, and what the worker read is its file's content or was evicted under it.
`AckedLinesStayResolved`: `TmInv` relates three generations of a template, the miner's, the
one riding in a group and the durable row: a version only grows and a newer one is wider
(`GroupOK`), what is staged is what the miner holds (`StagedOK`), what is not staged is
durable as it is (`KeptOK`), and a line is covered by the generation its Export has reached:
the miner's entry, the rows the commit would leave, the durable row (`LineOK`). A restart
rebuilds the tree from the durable rows in the order of their ordinals. That
patterns stay distinct is part of the invariant: a template that would be widened to
another's pattern takes a line the other covers already, and the other would have been the
best match (`PatternsNeverConverge`, which `template_miner_test.go:194` says and the code
does not rely on). `RowsNeverRollBack` follows from the version guard of the upsert.
`TruncationIsDeclared`: `TenantExact` compares the projection with the set of pairs of an
export and one of its facts that were folded. An export's facts are walked in any order, as
Go walks a map; the claim about a walk is shown for its least counterexample, the shortest
prefix that breaks it, an induction written without the induction rules. A kind with
nothing dropped then holds, in every retained window, the count of what was folded. `MinerTyped` and `TopologyTyped` follow from the
same invariants.

Only model-checked:
- everything temporal under fairness (`ParkedIsAnswered`, `BarrierReturns`,
  `ShutdownDrains`, `ExpiredLeavesMemory`) and what is stated with `ENABLED`
  (`StopNeverWedged`, whose guard form is proved), which are outside the prover;
- the type invariants of the two suites, which name the types of every component at once.
  Of their parts, those of `TemplateMiner`, `TopologyProjection`, `Hub`, `EventHub`,
  `Gates`, `MetricsExport`, `SeriesLimiter` and `Migrate` are theorems; the others are covered as
  far as the inductive invariant of their component needs shapes.

`ParkedOnce`, `SendNeverBlocks`, `NothingStoredTwice`, `ShardsFollowStore`,
`AnswersAreFinal`, `MemoryOwnsItsRows` and `StoreNeverLoses` are proved for every instance
and no run repeats them.

## What is not modelled, and the plan

Not modelled: SQL and its dialects (a transaction is one step that happens or does
not), OTLP decoding, handlers that only parse and render, MCP's tools and UI, GraphRAG's ranking
and anomaly heuristics, the local PromQL engine, the legacy dependency graph, sketch
arithmetic, configuration, TLS and the reload of key files. They are I/O or data the
properties cannot tell apart.

Next, in this order:
1. The remaining parts of the two suites' type invariants as theorems.
2. Liveness of the pipeline's and the TSDB's drain under the workers' fairness.
