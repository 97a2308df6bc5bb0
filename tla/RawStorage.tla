---------------------------- MODULE RawStorage ----------------------------
(***************************************************************************)
(* The raw tier on disk: the rows of the relational repository, the        *)
(* retention scheduler that purges them, the exemplar purge both the       *)
(* scheduler and the disk watchdog start, the daily partitions of the logs *)
(* table and the disk watchdog's shedding ladder.                          *)
(*                                                                         *)
(* Time counts ticks of 1 / RsTicksPerDay day, so that a cutoff may fall   *)
(* inside a day and inside a partition.  Row identity is what the          *)
(* predicates compare: tenant, trace id, timestamp.  The pacing between    *)
(* batches, VACUUM and the metrics have no effect on the rows and are left *)
(* out; the transaction boundaries, the batches, the cancellation points   *)
(* and the failures are kept.                                              *)
(***************************************************************************)
EXTENDS Integers, FiniteSets

CONSTANTS RsKeys,            \* trace identities: <<tenant, trace id>>
          RsDrivers,         \* subset of {"sqlite", "postgres", "partitioned"}
          RsRetention,       \* HotRetentionDays, in ticks
          RsExemplar,        \* exemplarRetentionDays, in ticks; 0 turns it off
          RsBatch,           \* purgeBatchSize
          RsTicksPerDay, RsLookahead,   \* ticks in a day, lookaheadDays
          RsBudget,          \* BudgetBytes; 0 is "no budget"
          RsVolumes,         \* what statfs may answer: [total, avail]
          RsUsages,          \* what the data directory may hold, in bytes
          RsAges,            \* ages of rows at their insertion, in ticks
          RsMaxNow, RsMaxRows           \* bounds: clock, rows inserted

ASSUME RsAssumption ==
    /\ RsDrivers \subseteq {"sqlite", "postgres", "partitioned"}
    /\ RsBatch \in Nat \ {0}
    /\ RsTicksPerDay \in Nat \ {0}
    /\ RsRetention \in Nat \ {0} /\ RsExemplar \in 0 .. RsRetention
    /\ RsBudget \in Int /\ RsVolumes \subseteq [total : Nat, avail : Nat]
    /\ RsUsages \subseteq Nat /\ RsAges \subseteq Int

VARIABLES rsNow, rsDriver,
          rsTraces, rsSpans,   \* [key, at] and [key, at, n]
          rsRows,              \* the tables purged by age alone: [at, n]
          rsParts,             \* days that have a partition of logs
          rsInserted,          \* rows inserted so far (bound, row numbers)
          rsRunning,           \* RetentionScheduler.running
          rsPc,                \* where the loop and the watchdog callback are
          rsCut,               \* the cutoffs of the pass of each: exemplar, hot
          rsJobs,              \* stage of each table purge of the hot pass
          rsCancelled,         \* ctxRetention is cancelled
          rsShed, rsRatio, rsUsed,      \* state, ratio (percent), used
          rsObserved           \* what the watchdog last told the observers

rsRetVars == <<rsRunning, rsPc, rsCut, rsJobs>>
rsRowVars == <<rsTraces, rsSpans, rsRows, rsParts>>
rsDiskVars == <<rsShed, rsRatio, rsUsed, rsObserved>>
rsVars == <<rsNow, rsDriver, rsRowVars, rsInserted, rsRetVars, rsCancelled, rsDiskVars>>

Callers == {"loop", "watchdog"}
AgedTables == {"logs", "metric_buckets", "promql"}

\* The order of runPurgeSerial.
SerialOrder == <<"logs", "traces", "metric_buckets", "promql">>
Jobs == {SerialOrder[i] : i \in 1 .. 4}

---------------------------------------------------------------------------
(* Rows *)

HasTrace(s, traces) == \E t \in traces : t.key = s.key

\* Rows older than a cutoff.
Expired(rows, cut) == {r \in rows : r.at < cut}

\* Mutant: the trace-existence probe is dropped.
ExpiredOrphansBlind(spans, traces, cut) == Expired(spans, cut)

\* Expired spans without a trace row of the same tenant and trace id.
ExpiredOrphans(spans, traces, cut) ==
    {s \in Expired(spans, cut) : ~ HasTrace(s, traces)}

\* One batched DELETE: it takes LIMIT candidates, or all when there are fewer.
Batches(candidates) ==
    IF Cardinality(candidates) <= RsBatch THEN {candidates}
    ELSE {b \in SUBSET candidates : Cardinality(b) = RsBatch}

Full(batch) == Cardinality(batch) = RsBatch

Day(tick) == tick \div RsTicksPerDay
Upper(day) == (day + 1) * RsTicksPerDay

\* Inserting a trace row keeps the first row of its identity: a duplicate
\* updates its status and truncation columns, never its timestamp.
UpsertTrace(rows, t) == IF HasTrace(t, rows) THEN rows ELSE rows \union {t}

Insertable(at) == rsDriver # "partitioned" \/ Day(at) \in rsParts

Stamps == {rsNow - age : age \in RsAges} \cap Nat

Inserted(n) == /\ rsInserted + n <= RsMaxRows
               /\ rsInserted' = rsInserted + n

\* One transaction for a trace, its span and a log; a log of a day without a
\* partition rolls all of it back.
BatchCreateAll(key, at) ==
    /\ Inserted(1)
    /\ Insertable(at)
    /\ rsTraces' = UpsertTrace(rsTraces, [key |-> key, at |-> at])
    /\ rsSpans' = rsSpans \union {[key |-> key, at |-> at, n |-> rsInserted]}
    /\ rsRows' = [rsRows EXCEPT !["logs"] = @ \union {[at |-> at, n |-> rsInserted]}]
    /\ UNCHANGED <<rsNow, rsDriver, rsParts, rsRunning, rsPc, rsCut, rsJobs,
                   rsCancelled, rsDiskVars>>

\* The synchronous path writes spans in a statement of its own.
BatchCreateSpans(key, at) ==
    /\ Inserted(1)
    /\ rsSpans' = rsSpans \union {[key |-> key, at |-> at, n |-> rsInserted]}
    /\ UNCHANGED <<rsNow, rsDriver, rsTraces, rsRows, rsParts, rsRunning, rsPc, rsCut,
                   rsJobs, rsCancelled, rsDiskVars>>

\* Metric buckets and local PromQL samples.
BatchCreateMetrics(table, at) ==
    /\ Inserted(1)
    /\ rsRows' = [rsRows EXCEPT ![table] = @ \union {[at |-> at, n |-> rsInserted]}]
    /\ UNCHANGED <<rsNow, rsDriver, rsTraces, rsSpans, rsParts, rsRunning, rsPc, rsCut,
                   rsJobs, rsCancelled, rsDiskVars>>

---------------------------------------------------------------------------
(* The retention scheduler *)

ExemplarStage == IF RsExemplar > 0 THEN "traces" ELSE "hot"

\* A pass begins: the CAS on running, then both cutoffs from the clock.
BeginPass(c) ==
    /\ rsRunning' = TRUE
    /\ rsPc' = [rsPc EXCEPT ![c] = ExemplarStage]
    /\ rsCut' = [exemplar |-> rsNow - RsExemplar, hot |-> rsNow - RsRetention]
    /\ rsJobs' = [k \in Jobs |-> IF k = "logs" /\ rsDriver = "partitioned" /\ c = "loop"
                                 THEN "done" ELSE "todo"]

\* running goes back to false on every way out.
EndPass(c) == /\ rsRunning' = FALSE
              /\ rsPc' = [rsPc EXCEPT ![c] = "idle"]
              /\ rsCut' = [exemplar |-> 0, hot |-> 0]
              /\ rsJobs' = [k \in Jobs |-> "done"]

\* What follows the exemplar tier: the watchdog's callback is done, the loop
\* goes on with the hot tables unless the context is cancelled.
AfterExemplars(c) ==
    IF c = "watchdog" \/ rsCancelled
    THEN EndPass(c)
    ELSE /\ rsPc' = [rsPc EXCEPT ![c] = "hot"]
         /\ UNCHANGED <<rsRunning, rsCut, rsJobs>>

\* The hourly tick; a tick that finds a run in progress is skipped.
RunPurge ==
    /\ rsPc["loop"] = "idle"
    /\ ~ rsCancelled
    /\ ~ rsRunning
    /\ BeginPass("loop")
    /\ UNCHANGED <<rsNow, rsDriver, rsRowVars, rsInserted, rsCancelled, rsDiskVars>>

\* The daily tick holds running while VACUUM and the aggregate GC run.
RunMaintenance ==
    /\ rsPc["loop"] = "idle"
    /\ ~ rsCancelled
    /\ ~ rsRunning
    /\ rsRunning' = TRUE
    /\ rsPc' = [rsPc EXCEPT !["loop"] = "maintenance"]
    /\ UNCHANGED <<rsNow, rsDriver, rsRowVars, rsInserted, rsCut, rsJobs,
                   rsCancelled, rsDiskVars>>

MaintenanceEnds ==
    /\ rsPc["loop"] = "maintenance"
    /\ EndPass("loop")
    /\ UNCHANGED <<rsNow, rsDriver, rsRowVars, rsInserted, rsCancelled, rsDiskVars>>

\* The exemplar purge gives up: the context is cancelled or a delete failed.
ExemplarPurgeFails(c) ==
    /\ rsPc[c] \in {"traces", "logs", "orphans"}
    /\ AfterExemplars(c)
    /\ UNCHANGED <<rsNow, rsDriver, rsRowVars, rsInserted, rsCancelled, rsDiskVars>>

Stays(c, next, again) ==
    /\ rsPc' = [rsPc EXCEPT ![c] = IF again THEN @ ELSE next]
    /\ UNCHANGED <<rsRunning, rsCut, rsJobs>>

\* One transaction: a batch of expired traces, then a batch of the expired
\* spans no trace row covers any more.
PurgeExemplarTraces(c) ==
    /\ rsPc[c] = "traces"
    /\ ~ rsCancelled
    /\ \E ts \in Batches(Expired(rsTraces, rsCut.exemplar)) :
         /\ rsTraces' = rsTraces \ ts
         /\ \E ss \in Batches(ExpiredOrphans(rsSpans, rsTraces', rsCut.exemplar)) :
              /\ rsSpans' = rsSpans \ ss
              /\ Stays(c, "logs", Full(ts) \/ Full(ss))
    /\ UNCHANGED <<rsNow, rsDriver, rsRows, rsParts, rsInserted, rsCancelled, rsDiskVars>>

PurgeExemplarLogs(c) ==
    /\ rsPc[c] = "logs"
    /\ ~ rsCancelled
    /\ \E ls \in Batches(Expired(rsRows["logs"], rsCut.exemplar)) :
         /\ rsRows' = [rsRows EXCEPT !["logs"] = @ \ ls]
         /\ Stays(c, "orphans", Full(ls))
    /\ UNCHANGED <<rsNow, rsDriver, rsTraces, rsSpans, rsParts, rsInserted, rsCancelled,
                   rsDiskVars>>

PurgeExemplarOrphans(c) ==
    /\ rsPc[c] = "orphans"
    /\ ~ rsCancelled
    /\ \E ss \in Batches(ExpiredOrphans(rsSpans, rsTraces, rsCut.exemplar)) :
         /\ rsSpans' = rsSpans \ ss
         /\ IF Full(ss) THEN Stays(c, "orphans", TRUE) ELSE AfterExemplars(c)
    /\ UNCHANGED <<rsNow, rsDriver, rsTraces, rsRows, rsParts, rsInserted, rsCancelled,
                   rsDiskVars>>

\* SQLite purges one table after the other, the other drivers all at once.
JobTurn(k) ==
    /\ rsPc["loop"] = "hot"
    /\ rsJobs[k] # "done"
    /\ rsDriver = "sqlite" =>
         \A i, j \in 1 .. 4 : SerialOrder[j] = k /\ i < j => rsJobs[SerialOrder[i]] = "done"

Job(k, stage) == rsJobs' = [rsJobs EXCEPT ![k] = stage]

\* A purge that fails or panics counts as done; the others go on.
JobFails(k) ==
    /\ JobTurn(k)
    /\ Job(k, "done")
    /\ UNCHANGED <<rsNow, rsDriver, rsRowVars, rsInserted, rsRunning, rsPc, rsCut,
                   rsCancelled, rsDiskVars>>

\* Logs and metric buckets go in one DELETE on SQLite and in batches elsewhere;
\* local PromQL is batched everywhere.
AgedBatches(k) ==
    LET old == Expired(rsRows[k], rsCut.hot)
    IN  IF rsDriver = "sqlite" /\ k # "promql" THEN {old} ELSE Batches(old)

PurgeAged(k) ==
    /\ JobTurn(k)
    /\ ~ rsCancelled
    /\ \E b \in AgedBatches(k) :
         /\ rsRows' = [rsRows EXCEPT ![k] = @ \ b]
         /\ Job(k, IF Full(b) THEN "todo" ELSE "done")
    /\ UNCHANGED <<rsNow, rsDriver, rsTraces, rsSpans, rsParts, rsInserted, rsRunning, rsPc, rsCut, rsCancelled, rsDiskVars>>

\* PurgeTracesBatched: first the traces, then the spans they leave behind.
PurgeTraces ==
    /\ JobTurn("traces")
    /\ ~ rsCancelled
    /\ \/ /\ rsJobs["traces"] = "todo"
          /\ \E ts \in Batches(Expired(rsTraces, rsCut.hot)) :
               /\ rsTraces' = rsTraces \ ts
               /\ Job("traces", IF Full(ts) THEN "todo" ELSE "spans")
          /\ UNCHANGED rsSpans
       \/ /\ rsJobs["traces"] = "spans"
          /\ \E ss \in Batches(ExpiredOrphans(rsSpans, rsTraces, rsCut.hot)) :
               /\ rsSpans' = rsSpans \ ss
               /\ Job("traces", IF Full(ss) THEN "spans" ELSE "done")
          /\ UNCHANGED rsTraces
    /\ UNCHANGED <<rsNow, rsDriver, rsRows, rsParts, rsInserted, rsRunning, rsPc, rsCut,
                   rsCancelled, rsDiskVars>>

PurgeEnds ==
    /\ rsPc["loop"] = "hot"
    /\ \A k \in Jobs : rsJobs[k] = "done"
    /\ EndPass("loop")
    /\ UNCHANGED <<rsNow, rsDriver, rsRowVars, rsInserted, rsCancelled, rsDiskVars>>

\* Stop cancels the context; the passes end at their next check of it.
StopRetention ==
    /\ ~ rsCancelled
    /\ rsCancelled' = TRUE
    /\ UNCHANGED <<rsNow, rsDriver, rsRowVars, rsInserted, rsRetVars, rsDiskVars>>

---------------------------------------------------------------------------
(* The daily partitions *)

\* Today's and the lookahead partitions, in order; a failure leaves the rest
\* for the next tick.
EnsureLookahead ==
    /\ rsDriver = "partitioned"
    /\ ~ rsCancelled
    /\ \E last \in -1 .. RsLookahead :
         rsParts' = rsParts \union {Day(rsNow) + i : i \in 0 .. last}
    /\ UNCHANGED <<rsNow, rsDriver, rsTraces, rsSpans, rsRows, rsInserted, rsRetVars, rsCancelled,
                   rsDiskVars>>

\* Mutant: compares the lower bound of the partition.
DroppableEarly(cut) == {d \in rsParts : d * RsTicksPerDay <= cut}

Droppable(cut) == {d \in rsParts : Upper(d) <= cut}

\* A partition goes with its rows once its upper bound is at or before the
\* cutoff; a failure leaves some of them standing.
DropExpired ==
    /\ rsDriver = "partitioned"
    /\ ~ rsCancelled
    /\ \E gone \in SUBSET Droppable(rsNow - RsRetention) :
         /\ rsParts' = rsParts \ gone
         /\ rsRows' = [rsRows EXCEPT !["logs"] = {r \in @ : Day(r.at) \notin gone}]
    /\ UNCHANGED <<rsNow, rsDriver, rsTraces, rsSpans, rsInserted, rsRetVars, rsCancelled, rsDiskVars>>

---------------------------------------------------------------------------
(* The disk watchdog *)

\* The ladder: 0 none, 1 errors-only, 2 raw-off; entry above exit.
NextState(cur, ratio) ==
    CASE ratio >= 95 -> 2
      [] ratio >= 90 /\ ratio < 95 -> IF cur = 2 THEN 2 ELSE 1
      [] ratio >= 85 /\ ratio < 90 -> IF cur = 0 THEN 0 ELSE 1
      [] OTHER -> 0

Ceiling(v) == IF v.total > 0 /\ (RsBudget <= 0 \/ v.total < RsBudget) THEN v.total ELSE RsBudget

Larger(a, b) == IF a >= b THEN a ELSE b

\* Used bytes and the reserved free space, each as a share of the ceiling.
Pressure(v, used) ==
    LET c == Ceiling(v)
    IN  IF c <= 0 THEN 0 ELSE Larger((100 * used) \div c, 100 - (100 * v.avail) \div c)

\* Mutant: a failed walk uses the volume's figures alone.
SampledRatioBlind(v, used, failed) ==
    IF failed THEN Pressure(v, rsUsed) ELSE Pressure(v, used)

\* A failed usage walk keeps the last estimate and never lowers the ratio.
SampledRatio(v, used, failed) ==
    IF failed THEN Larger(Pressure(v, rsUsed), rsRatio) ELSE Pressure(v, used)

\* One sample.  The watchdog goroutine runs the observers and the raw-off
\* callback itself, so it samples again only after the callback returned; the
\* callback is skipped when a retention run is in progress.
Sample(v, used, failed) ==
    /\ rsPc["watchdog"] = "idle"
    /\ rsUsed' = IF failed THEN rsUsed ELSE used
    /\ rsRatio' = SampledRatio(v, used, failed)
    /\ rsShed' = NextState(rsShed, rsRatio')
    /\ IF rsShed' = rsShed
       THEN UNCHANGED <<rsObserved, rsRetVars>>
       ELSE /\ rsObserved' = rsShed'
            /\ IF rsShed' = 2 /\ RsExemplar > 0 /\ ~ rsRunning
               THEN BeginPass("watchdog")
               ELSE UNCHANGED rsRetVars
    /\ UNCHANGED <<rsNow, rsDriver, rsRowVars, rsInserted, rsCancelled>>

\* A failed statfs holds everything; it is a stutter of the ladder.
---------------------------------------------------------------------------

RsTick == /\ rsNow < RsMaxNow
          /\ rsNow' = rsNow + 1
          /\ UNCHANGED <<rsDriver, rsRowVars, rsInserted, rsRetVars, rsCancelled, rsDiskVars>>

\* Start-up: setup creates the partitions from yesterday to the lookahead.
RsInitOn(driver) ==
    /\ rsNow = 2 * RsTicksPerDay
    /\ rsDriver = driver
    /\ rsTraces = {} /\ rsSpans = {}
    /\ rsRows = [t \in AgedTables |-> {}]
    /\ rsParts = IF driver = "partitioned" THEN 1 .. (2 + RsLookahead) ELSE {}
    /\ rsInserted = 0
    /\ rsRunning = FALSE
    /\ rsPc = [c \in Callers |-> "idle"]
    /\ rsCut = [exemplar |-> 0, hot |-> 0]
    /\ rsJobs = [k \in Jobs |-> "done"]
    /\ rsCancelled = FALSE
    /\ rsShed = 0 /\ rsRatio = 0 /\ rsUsed = 0 /\ rsObserved = 0

RsInit == \E d \in RsDrivers : RsInitOn(d)

RsNext ==
    \/ \E k \in RsKeys, at \in Stamps : BatchCreateAll(k, at)
    \/ \E k \in RsKeys, at \in Stamps : BatchCreateSpans(k, at)
    \/ \E t \in AgedTables \ {"logs"}, at \in Stamps : BatchCreateMetrics(t, at)
    \/ RunPurge \/ RunMaintenance \/ MaintenanceEnds
    \/ \E c \in Callers : \/ ExemplarPurgeFails(c)
                          \/ PurgeExemplarTraces(c)
                          \/ PurgeExemplarLogs(c)
                          \/ PurgeExemplarOrphans(c)
    \/ \E k \in Jobs : JobFails(k)
    \/ \E k \in AgedTables : PurgeAged(k)
    \/ PurgeTraces \/ PurgeEnds \/ StopRetention
    \/ EnsureLookahead \/ DropExpired
    \/ \E v \in RsVolumes, u \in RsUsages, f \in BOOLEAN : Sample(v, u, f)
    \/ RsTick

RsSpec == RsInit /\ [][RsNext]_rsVars

---------------------------------------------------------------------------

\* Type correctness of the raw tier.
RsTypeOK ==
    /\ rsNow \in 0 .. RsMaxNow
    /\ rsDriver \in RsDrivers
    /\ \A t, u \in rsTraces : t.key = u.key => t = u
    /\ rsPc \in [Callers -> {"idle", "traces", "logs", "orphans", "hot", "maintenance"}]
    /\ rsShed \in 0 .. 2

\* Nothing within its retention disappears: a deleted log, metric, trace or
\* span is older than the exemplar retention, a deleted span has no trace row
\* left in its own tenant, and only logs go with a partition
\* (batchedDeleteSQL, expiredOrphanSpansPredicate, DropExpiredLogsPartitions).
GoneWereExpired ==
    LET keep == rsNow - (IF RsExemplar > 0 THEN RsExemplar ELSE RsRetention)
    IN  /\ \A t \in rsTraces : HasTrace(t, rsTraces') \/ t.at < keep
        /\ \A s \in rsSpans \ rsSpans' : s.at < keep /\ ~ HasTrace(s, rsTraces')
        /\ \A r \in rsRows["logs"] \ rsRows'["logs"] : r.at < keep
        /\ \A k \in {"metric_buckets", "promql"} :
             \A r \in rsRows[k] \ rsRows'[k] : r.at < rsNow - RsRetention

OnlyExpiredGo == [][GoneWereExpired]_rsVars

\* A sample that could not read the data usage never relaxes the ladder, and
\* whatever the samples were, the observers hold the state the last ratio
\* keeps: the hysteresis and the kept estimate of a failed walk agree
\* (Sample, nextState, notify).
LadderHolds ==
    /\ (\E v \in RsVolumes, u \in RsUsages : Sample(v, u, TRUE)) => rsShed' >= rsShed
    /\ rsObserved' = NextState(rsShed', rsRatio')

BlindNeverRelaxes == [][LadderHolds]_rsVars
===========================================================================
