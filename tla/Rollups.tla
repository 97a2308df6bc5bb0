------------------------------ MODULE Rollups ------------------------------
(***************************************************************************)
(* Opening the aggregate store, and the hourly rows and service summaries  *)
(* derived from its buckets (internal/aggregate: store_sqlite.go,          *)
(* rollup.go, service_summary.go).                                         *)
(*                                                                         *)
(* Nothing holds a lock while history is read and merged.  A build owns a  *)
(* token in the marker of its hour, every change of a bucket removes that  *)
(* marker by a trigger, and each write of a build checks its token in its  *)
(* own transaction.  History reads take an hour from the derived rows only *)
(* when the markers and the owners of the derived tables say so, within    *)
(* one snapshot: a read is a function of the state.                        *)
(*                                                                         *)
(* Several processes may have the file open, of different schema versions  *)
(* and with or without knowledge of the derived tables.  A row is its      *)
(* number of points; a lossy series stands for durations that do not add   *)
(* exactly and sketches that do not merge exactly.  Which hours are old    *)
(* enough to build is left open, rows of the delta log are read beside     *)
(* either source and left out, and a batch is one series or one service.   *)
(***************************************************************************)
EXTENDS Integers, FiniteSets, FiniteSetsExt

CONSTANTS
    RuProcs,
    RuVersion,          \* process -> StoreSchemaVersion of its binary
    RuRebuild,          \* processes with AGGREGATE_ALLOW_REBUILD
    RuAware,            \* processes whose binary knows the derived tables
    RuSeries,           \* series, numbered in identity order
    RuService,          \* series -> its (tenant, service)
    RuLossy,            \* series whose sums or sketches do not regroup exactly
    RuWindows,          \* window starts
    RuPerHour,          \* windows in an hour
    RuMaxAdds, RuMaxTokens, RuMaxStores     \* bounds

\* The series of an hour are read in the order of their numbers.
ASSUME RuAssumption ==
    RuSeries \in SUBSET Nat /\ IsFiniteSet(RuSeries) /\ IsFiniteSet(RuWindows)

VARIABLES
    ruUuid, ruVersion,  \* aggregate_meta: store_uuid (0: no tables), schema_version
    ruBuckets,          \* aggregate_buckets: <<series, window>> -> points (0: no row)
    ruTriggers,         \* the three invalidation triggers exist
    ruOwner, ruSumOwner,    \* aggregate_rollup_meta: store_uuid, service_summary_store_uuid
    ruHour,             \* aggregate_rollup_hours: hour -> marker
    ruHourly,           \* aggregate_hourly: <<hour, series>> -> points
    ruSum,              \* aggregate_service_summary_hours: hour -> marker
    ruCells,            \* aggregate_service_summary: <<hour, service>> -> cells
    ruProc,             \* process -> how far it opened the store, and s.uuid
    ruBuild,            \* process -> the hour its worker is building
    ruSlice,            \* process -> summaryBuild
    ruPurge,            \* process -> the running PurgeBefore
    ruCount             \* bounds: adds, tokens, stores

ruStoreVars == <<ruUuid, ruVersion, ruBuckets, ruTriggers>>
ruRollupVars == <<ruOwner, ruHour, ruHourly>>
ruSummaryVars == <<ruSumOwner, ruSum, ruCells>>
ruWorkVars == <<ruProc, ruBuild, ruSlice, ruPurge>>
ruVars == <<ruStoreVars, ruRollupVars, ruSummaryVars, ruWorkVars, ruCount>>

HourStart(t) == t - (t % RuPerHour)
RuHours == {HourStart(w) : w \in RuWindows}
HourWindows(h) == {w \in RuWindows : HourStart(w) = h}
RuServices == {RuService[s] : s \in RuSeries}
SeriesOfService(v) == {s \in RuSeries : RuService[s] = v}

NoHour == [state |-> -1, id |-> 0, safe |-> FALSE]
NoSum == [state |-> -1, id |-> 0, src |-> 0]
NoCells == [windows |-> [w \in RuWindows |-> 0], total |-> 0, sketch |-> 0]
NoBuild == [at |-> "no", hour |-> 0, id |-> 0, snap |-> <<>>, todo |-> {}, any |-> FALSE, safe |-> TRUE]
NoSlice == [at |-> "no", hour |-> 0, uuid |-> 0, src |-> 0, id |-> 0, todo |-> {},
            group |-> 0, acc |-> NoCells, pending |-> {}, unsafe |-> FALSE, done |-> FALSE]
NoPurge == [at |-> "no", cutoff |-> 0, after |-> 0, hour |-> 0, id |-> 0, src |-> 0]

Counter(k) == ruCount' = [ruCount EXCEPT ![k] = @ + 1]
Token == ruCount.tokens + 1
FreshToken == ruCount.tokens < RuMaxTokens /\ Counter("tokens")

PointsIn(f, S, W) == MapThenSumSet(LAMBDA x : f[x], S \X W)
Up(p) == ruProc[p].pc = "up"

-----------------------------------------------------------------------------
(* Opening the store *)

\* verifyMeta.
VersionMatches(p) == ruVersion = RuVersion[p]

\* ensureSchema's decision.  A version mismatch without the permission refuses the start.
Inspect(p) ==
    /\ ruProc[p].pc = "down"
    /\ \/ ruUuid = 0 /\ ruProc' = [ruProc EXCEPT ![p].pc = "create"]
       \/ /\ ruUuid # 0 /\ VersionMatches(p)
          /\ ruProc' = [ruProc EXCEPT ![p] = [pc |-> IF p \in RuAware THEN "rollup" ELSE "up",
                                              uuid |-> ruUuid]]
       \/ /\ ruUuid # 0 /\ ~ VersionMatches(p) /\ p \in RuRebuild
          /\ ruProc' = [ruProc EXCEPT ![p].pc = "drop"]
    /\ UNCHANGED <<ruStoreVars, ruRollupVars, ruSummaryVars, ruBuild, ruSlice, ruPurge, ruCount>>

\* rebuild: the aggregate tables go, and the triggers with them; the derived tables stay.
DropTables(p) ==
    /\ ruProc[p].pc = "drop"
    /\ ruUuid' = 0 /\ ruTriggers' = FALSE
    /\ ruBuckets' = [x \in DOMAIN ruBuckets |-> 0]
    /\ ruProc' = [ruProc EXCEPT ![p].pc = "create"]
    /\ UNCHANGED <<ruVersion, ruRollupVars, ruSummaryVars, ruBuild, ruSlice, ruPurge, ruCount>>

\* createSchema: tables that exist are kept, the meta rows are replaced.
CreateSchema(p) ==
    /\ ruProc[p].pc = "create" /\ ruCount.stores < RuMaxStores
    /\ ruUuid' = ruCount.stores + 1 /\ ruVersion' = RuVersion[p]
    /\ ruProc' = [ruProc EXCEPT ![p] = [pc |-> IF p \in RuAware THEN "rollup" ELSE "up",
                                        uuid |-> ruCount.stores + 1]]
    /\ Counter("stores")
    /\ UNCHANGED <<ruBuckets, ruTriggers, ruRollupVars, ruSummaryVars, ruBuild, ruSlice, ruPurge>>

\* ensureRollupSchema: claims made for another store, or without triggers, are void.
EnsureRollup(p) ==
    /\ ruProc[p].pc = "rollup" /\ ruUuid # 0
    /\ ruHour' = IF ruOwner # ruProc[p].uuid \/ ~ ruTriggers
                 THEN [h \in RuHours |-> IF ruHour[h].state >= 0 THEN [NoHour EXCEPT !.state = 0] ELSE NoHour]
                 ELSE ruHour
    /\ ruOwner' = ruProc[p].uuid /\ ruTriggers' = TRUE
    /\ ruProc' = [ruProc EXCEPT ![p].pc = "summary"]
    /\ UNCHANGED <<ruUuid, ruVersion, ruBuckets, ruHourly, ruSummaryVars, ruBuild, ruSlice, ruPurge, ruCount>>

\* ensureServiceSummarySchema.
EnsureSummary(p) ==
    /\ ruProc[p].pc = "summary"
    /\ ruSum' = IF ruSumOwner # ruProc[p].uuid
                THEN [h \in RuHours |-> IF ruSum[h].state >= 0 THEN [NoSum EXCEPT !.state = 0] ELSE NoSum]
                ELSE ruSum
    /\ ruSumOwner' = ruProc[p].uuid
    /\ ruProc' = [ruProc EXCEPT ![p].pc = "up"]
    /\ UNCHANGED <<ruStoreVars, ruRollupVars, ruCells, ruBuild, ruSlice, ruPurge, ruCount>>

\* The process is closed or dies, anywhere.
Stop(p) ==
    /\ ruProc[p].pc # "down"
    /\ ruProc' = [ruProc EXCEPT ![p] = [pc |-> "down", uuid |-> 0]]
    /\ ruBuild' = [ruBuild EXCEPT ![p] = NoBuild]
    /\ ruSlice' = [ruSlice EXCEPT ![p] = NoSlice]
    /\ ruPurge' = [ruPurge EXCEPT ![p] = NoPurge]
    /\ UNCHANGED <<ruStoreVars, ruRollupVars, ruSummaryVars, ruCount>>

-----------------------------------------------------------------------------
(* The buckets change *)

\* The triggers on aggregate_buckets: the marker of the hour goes with the same transaction.
Invalidate(w) ==
    ruHour' = IF ruTriggers THEN [ruHour EXCEPT ![HourStart(w)] = NoHour] ELSE ruHour

\* FinalizeWindow adds to the bucket of a series, at the first and at any later finalization.
AddToBucket(p, s, w) ==
    /\ Up(p) /\ ruUuid # 0 /\ ruCount.adds < RuMaxAdds
    /\ ruBuckets' = [ruBuckets EXCEPT ![<<s, w>>] = @ + 1]
    /\ Invalidate(w)
    /\ Counter("adds")
    /\ UNCHANGED <<ruUuid, ruVersion, ruTriggers, ruOwner, ruHourly, ruSummaryVars, ruWorkVars>>

\* PurgeBefore lists the windows below its cutoff ...
BeginPurge(p, cutoff) ==
    /\ Up(p) /\ ruPurge[p].at = "no"
    /\ ruPurge' = [ruPurge EXCEPT ![p] = [NoPurge EXCEPT !.at = "windows", !.cutoff = cutoff]]
    /\ UNCHANGED <<ruStoreVars, ruRollupVars, ruSummaryVars, ruProc, ruBuild, ruSlice, ruCount>>

\* ... deletes them one by one (purgeWindow) ...
PurgeRow(p, w) ==
    /\ ruPurge[p].at = "windows" /\ w < ruPurge[p].cutoff
    /\ ruUuid # 0 /\ PointsIn(ruBuckets, RuSeries, {w}) > 0
    /\ ruBuckets' = [x \in DOMAIN ruBuckets |-> IF x[2] = w THEN 0 ELSE ruBuckets[x]]
    /\ Invalidate(w)
    /\ UNCHANGED <<ruUuid, ruVersion, ruTriggers, ruOwner, ruHourly, ruSummaryVars, ruWorkVars, ruCount>>

\* ... and goes on to the summaries.
PurgeSummaries(p) ==
    /\ ruPurge[p].at = "windows"
    /\ ruPurge' = [ruPurge EXCEPT ![p].at = IF p \in RuAware THEN "hours" ELSE "no",
                                  ![p].after = Min(RuHours)]
    /\ UNCHANGED <<ruStoreVars, ruRollupVars, ruSummaryVars, ruProc, ruBuild, ruSlice, ruCount>>

-----------------------------------------------------------------------------
(* The worker: hourly rows *)

\* discoverRollupHours.
Discover(p, h) ==
    /\ Up(p) /\ p \in RuAware /\ ruHour[h] = NoHour
    /\ \/ PointsIn(ruBuckets, RuSeries, HourWindows(h)) > 0
       \/ \E s \in RuSeries : ruHourly[<<h, s>>] > 0
    /\ ruHour' = [ruHour EXCEPT ![h] = [NoHour EXCEPT !.state = 0]]
    /\ UNCHANGED <<ruStoreVars, ruOwner, ruHourly, ruSummaryVars, ruWorkVars, ruCount>>

\* summaryWorkerStep finds an hour that is not complete ...
PickHour(p, h) ==
    /\ Up(p) /\ p \in RuAware /\ ruBuild[p].at = "no" /\ ruSlice[p].at # "write"
    /\ ruHour[h].state \in {0, 1}
    /\ ruBuild' = [ruBuild EXCEPT ![p] = [NoBuild EXCEPT !.at = "claim", !.hour = h]]
    /\ UNCHANGED <<ruStoreVars, ruRollupVars, ruSummaryVars, ruProc, ruSlice, ruPurge, ruCount>>

\* ... and buildRollupHour claims it, unless it was completed meanwhile.
ClaimHour(p) ==
    /\ ruBuild[p].at = "claim" /\ ruHour[ruBuild[p].hour].state # 2
    /\ FreshToken
    /\ ruHour' = [ruHour EXCEPT ![ruBuild[p].hour] = [state |-> 1, id |-> Token, safe |-> FALSE]]
    /\ ruBuild' = [ruBuild EXCEPT ![p].at = "clear", ![p].id = Token]
    /\ UNCHANGED <<ruStoreVars, ruOwner, ruHourly, ruSummaryVars, ruProc, ruSlice, ruPurge>>

\* Mutant: a write does not look at its token.
CheckAnyBuild(p) == TRUE

\* checkRollupBuild, in the transaction of the write.
CheckBuild(p) ==
    LET b == ruBuild[p] IN ruHour[b.hour].state = 1 /\ ruHour[b.hour].id = b.id

\* Rows of an abandoned build are deleted in batches ...
ClearHour(p) ==
    /\ ruBuild[p].at = "clear" /\ CheckBuild(p)
    /\ LET h == ruBuild[p].hour
           rows == {s \in RuSeries : ruHourly[<<h, s>>] > 0}
       IN  IF rows = {}
           THEN ruBuild' = [ruBuild EXCEPT ![p].at = "read"] /\ UNCHANGED ruHourly
           ELSE ruHourly' = [ruHourly EXCEPT ![<<h, Min(rows)>>] = 0] /\ UNCHANGED ruBuild
    /\ UNCHANGED <<ruStoreVars, ruOwner, ruHour, ruSummaryVars, ruProc, ruSlice, ruPurge, ruCount>>

\* ... and one read snapshot serves all the chunks of the hour.
OpenSnapshot(p) ==
    /\ ruBuild[p].at = "read" /\ ruUuid # 0
    /\ ruBuild' = [ruBuild EXCEPT ![p].at = "chunks", ![p].snap = ruBuckets, ![p].todo = RuSeries]
    /\ UNCHANGED <<ruStoreVars, ruRollupVars, ruSummaryVars, ruProc, ruSlice, ruPurge, ruCount>>

\* rollupSeriesBatch and readRollupBatch: the rows of one series merge into one.
WriteChunk(p) ==
    /\ ruBuild[p].at = "chunks" /\ ruBuild[p].todo # {}
    /\ LET b == ruBuild[p]
           s == Min(b.todo)
           n == PointsIn(b.snap, {s}, HourWindows(b.hour))
       IN  IF n = 0
           THEN ruBuild' = [ruBuild EXCEPT ![p].todo = @ \ {s}] /\ UNCHANGED ruHourly
           ELSE /\ CheckBuild(p)
                /\ ruHourly[<<b.hour, s>>] = 0
                /\ ruHourly' = [ruHourly EXCEPT ![<<b.hour, s>>] = n]
                /\ ruBuild' = [ruBuild EXCEPT ![p].todo = @ \ {s}, ![p].any = TRUE,
                                              ![p].safe = @ /\ s \notin RuLossy]
    /\ UNCHANGED <<ruStoreVars, ruOwner, ruHour, ruSummaryVars, ruProc, ruSlice, ruPurge, ruCount>>

\* Completion; an hour without rows loses its marker.
PublishHour(p) ==
    /\ ruBuild[p].at = "chunks" /\ ruBuild[p].todo = {} /\ CheckBuild(p)
    /\ LET b == ruBuild[p] IN
       ruHour' = [ruHour EXCEPT ![b.hour] = IF b.any THEN [@ EXCEPT !.state = 2, !.safe = b.safe] ELSE NoHour]
    /\ ruBuild' = [ruBuild EXCEPT ![p] = NoBuild]
    /\ UNCHANGED <<ruStoreVars, ruOwner, ruHourly, ruSummaryVars, ruProc, ruSlice, ruPurge, ruCount>>

\* The token is gone, a statement failed or the time is up: the next pass tries again.
BuildFails(p) ==
    /\ ruBuild[p].at # "no"
    /\ ruBuild' = [ruBuild EXCEPT ![p] = NoBuild]
    /\ UNCHANGED <<ruStoreVars, ruRollupVars, ruSummaryVars, ruProc, ruSlice, ruPurge, ruCount>>

-----------------------------------------------------------------------------
(* The worker: service summaries *)

SourceCurrent(h) == ruHour[h].state = 2 /\ ruSum[h].src = ruHour[h].id
Owned == ruOwner = ruUuid
\* summaryReadySQL and summaryCompleteSQL.
SummaryIn(h, states) == ruSum[h].state \in states /\ SourceCurrent(h) /\ ruSumOwner = ruUuid /\ Owned

\* claimSummaryBuild.
ClaimSummary(p, h) ==
    /\ Up(p) /\ p \in RuAware /\ ruBuild[p].at = "no" /\ ruSlice[p].at = "no"
    /\ ruUuid # 0 /\ ruUuid = ruProc[p].uuid
    /\ ruHour[h].state = 2 /\ ~ SummaryIn(h, {2, 4})
    /\ FreshToken
    /\ ruSum' = [ruSum EXCEPT ![h] = [state |-> 1, id |-> Token, src |-> ruHour[h].id]]
    /\ ruSlice' = [ruSlice EXCEPT ![p] = [NoSlice EXCEPT !.at = "clean", !.hour = h, !.uuid = ruProc[p].uuid,
                                            !.src = ruHour[h].id, !.id = Token, !.todo = RuSeries]]
    /\ UNCHANGED <<ruStoreVars, ruRollupVars, ruSumOwner, ruCells, ruProc, ruBuild, ruPurge>>

\* checkSummaryBuild.
CheckSlice(p) ==
    LET c == ruSlice[p] IN
    /\ ruSum[c.hour] = [state |-> 1, id |-> c.id, src |-> c.src]
    /\ ruHour[c.hour].state = 2 /\ ruHour[c.hour].id = c.src
    /\ ruUuid = c.uuid /\ ruOwner = c.uuid /\ ruSumOwner = c.uuid

\* deleteSummaryBatch: the cells of a service, or nothing when none is left.
HasCells(h) == {v \in RuServices : ruCells[<<h, v>>] # NoCells}
DeleteCells(h) ==
    ruCells' = IF HasCells(h) = {} THEN ruCells ELSE [ruCells EXCEPT ![<<h, Min(HasCells(h))>>] = NoCells]

\* summaryBuildSlice, while it clears an abandoned generation.
CleanSlice(p) ==
    /\ ruSlice[p].at = "clean" /\ ruBuild[p].at = "no" /\ CheckSlice(p)
    /\ DeleteCells(ruSlice[p].hour)
    /\ ruSlice' = [ruSlice EXCEPT ![p].at = IF HasCells(ruSlice[p].hour) = {} THEN "read" ELSE "clean"]
    /\ UNCHANGED <<ruStoreVars, ruRollupVars, ruSumOwner, ruSum, ruProc, ruBuild, ruPurge, ruCount>>

\* flushService: the cells of the service the build was in.
Flushed(c) == IF c.acc = NoCells THEN c.pending ELSE c.pending \cup {<<c.group, c.acc>>}

\* consume: the hourly row decides the hour's cell, the buckets the cells of the windows.
Consumed(c, s) ==
    LET v == RuService[s]
        acc == IF c.group = v THEN c.acc ELSE NoCells
        n == ruHourly[<<c.hour, s>>]
        lossy == s \in RuLossy \/ ~ ruHour[c.hour].safe \/ acc.sketch = 2
    IN  [c EXCEPT !.todo = @ \ {s}, !.group = v,
                  !.pending = IF c.group = v THEN @ ELSE Flushed(c),
                  !.unsafe = @ \/ (n > 0 /\ s \in RuLossy),
                  !.acc = IF n = 0 THEN acc
                          ELSE [windows |-> [w \in RuWindows |-> acc.windows[w] +
                                               (IF HourStart(w) = c.hour THEN ruBuckets[<<s, w>>] ELSE 0)],
                                total |-> acc.total + n, sketch |-> IF lossy THEN 2 ELSE 1]]

\* summaryBuildSlice, its read: a fresh checked snapshot for every slice ...
ReadSlice(p) ==
    /\ ruSlice[p].at = "read" /\ ruBuild[p].at = "no" /\ CheckSlice(p)
    /\ LET c == ruSlice[p] IN
       ruSlice' = [ruSlice EXCEPT ![p] =
           IF c.todo = {} THEN [c EXCEPT !.at = "write", !.pending = Flushed(c), !.acc = NoCells, !.done = TRUE]
           ELSE [Consumed(c, Min(c.todo)) EXCEPT !.at = "write"]]
    /\ UNCHANGED <<ruStoreVars, ruRollupVars, ruSummaryVars, ruProc, ruBuild, ruPurge, ruCount>>

\* ... and its write, checked again, with the publication at the end.
WriteSlice(p) ==
    /\ ruSlice[p].at = "write" /\ CheckSlice(p)
    /\ LET c == ruSlice[p] IN
       /\ \A x \in c.pending : ruCells[<<c.hour, x[1]>>] = NoCells
       /\ ruCells' = [k \in DOMAIN ruCells |->
            IF k[1] = c.hour /\ \E x \in c.pending : x[1] = k[2]
            THEN (CHOOSE x \in c.pending : x[1] = k[2])[2] ELSE ruCells[k]]
       /\ ruSum' = [ruSum EXCEPT ![c.hour].state = IF ~ c.done THEN @ ELSE IF c.unsafe THEN 4 ELSE 2]
       /\ ruSlice' = [ruSlice EXCEPT ![p] = IF c.done THEN NoSlice ELSE [c EXCEPT !.at = "read", !.pending = {}]]
    /\ UNCHANGED <<ruStoreVars, ruRollupVars, ruSumOwner, ruProc, ruBuild, ruPurge, ruCount>>

\* Any error poisons the generation.
SliceFails(p) ==
    /\ ruSlice[p].at # "no"
    /\ ruSlice' = [ruSlice EXCEPT ![p] = NoSlice]
    /\ UNCHANGED <<ruStoreVars, ruRollupVars, ruSummaryVars, ruProc, ruBuild, ruPurge, ruCount>>

-----------------------------------------------------------------------------
(* Retention of the summaries *)

\* summaryNeedsCleanup.
NeedsCleanup(h, cutoff) ==
    \/ ruSum[h] = NoSum \/ ruSum[h].state = 3 \/ ~ SourceCurrent(h)
    \/ cutoff >= h + RuPerHour
    \/ h < cutoff /\ PointsIn(ruBuckets, RuSeries, {w \in HourWindows(h) : w < cutoff}) > 0

\* summarySourceToken.
SourceToken(h) == IF ruHour[h].state = 2 THEN ruHour[h].id ELSE 0

LeftHours(after) == {h \in RuHours : h >= after /\ (HasCells(h) # {} \/ ruSum[h] # NoSum)}

\* purgeServiceSummaries takes the next hour and claims its cleanup, if it needs one.
ClaimCleanup(p) ==
    /\ ruPurge[p].at = "hours" /\ LeftHours(ruPurge[p].after) # {}
    /\ LET h == Min(LeftHours(ruPurge[p].after)) IN
       IF NeedsCleanup(h, ruPurge[p].cutoff)
       THEN /\ FreshToken
            /\ ruSum' = [ruSum EXCEPT ![h] = [state |-> 3, id |-> Token, src |-> SourceToken(h)]]
            /\ ruPurge' = [ruPurge EXCEPT ![p].at = "clean", ![p].hour = h, ![p].id = Token,
                                          ![p].src = SourceToken(h)]
       ELSE ruPurge' = [ruPurge EXCEPT ![p].after = h + RuPerHour] /\ UNCHANGED <<ruSum, ruCount>>
    /\ UNCHANGED <<ruStoreVars, ruRollupVars, ruSumOwner, ruCells, ruProc, ruBuild, ruSlice>>

\* summaryCleanupSlice checks the claim and the need again for every batch.
OwnsCleanup(p) ==
    LET c == ruPurge[p] IN
    /\ ruSum[c.hour] = [state |-> 3, id |-> c.id, src |-> c.src] /\ ruUuid = ruProc[p].uuid
    /\ SourceToken(c.hour) = c.src
    /\ NeedsCleanup(c.hour, c.cutoff)

CleanupSlice(p) ==
    /\ ruPurge[p].at = "clean"
    /\ LET h == ruPurge[p].hour
           next == [ruPurge EXCEPT ![p].at = "hours", ![p].after = h + RuPerHour]
       IN  IF ~ OwnsCleanup(p)
           THEN ruPurge' = next /\ UNCHANGED <<ruCells, ruSum>>
           ELSE /\ DeleteCells(h)
                /\ IF HasCells(h) = {}
                   THEN ruSum' = [ruSum EXCEPT ![h] = NoSum] /\ ruPurge' = next
                   ELSE UNCHANGED <<ruSum, ruPurge>>
    /\ UNCHANGED <<ruStoreVars, ruRollupVars, ruSumOwner, ruProc, ruBuild, ruSlice, ruCount>>

\* No hour is left, or a statement failed.
PurgeEnds(p) ==
    /\ ruPurge[p].at # "no"
    /\ ruPurge' = [ruPurge EXCEPT ![p] = NoPurge]
    /\ UNCHANGED <<ruStoreVars, ruRollupVars, ruSummaryVars, ruProc, ruBuild, ruSlice, ruCount>>

-----------------------------------------------------------------------------
RuInit ==
    /\ ruUuid = 0 /\ ruVersion = 0 /\ ruTriggers = FALSE
    /\ ruBuckets = [x \in RuSeries \X RuWindows |-> 0]
    /\ ruOwner = 0 /\ ruSumOwner = 0
    /\ ruHour = [h \in RuHours |-> NoHour]
    /\ ruHourly = [x \in RuHours \X RuSeries |-> 0]
    /\ ruSum = [h \in RuHours |-> NoSum]
    /\ ruCells = [x \in RuHours \X RuServices |-> NoCells]
    /\ ruProc = [p \in RuProcs |-> [pc |-> "down", uuid |-> 0]]
    /\ ruBuild = [p \in RuProcs |-> NoBuild]
    /\ ruSlice = [p \in RuProcs |-> NoSlice]
    /\ ruPurge = [p \in RuProcs |-> NoPurge]
    /\ ruCount = [adds |-> 0, tokens |-> 0, stores |-> 0]

RuNext == \E p \in RuProcs :
    \/ Inspect(p) \/ DropTables(p) \/ CreateSchema(p) \/ EnsureRollup(p) \/ EnsureSummary(p) \/ Stop(p)
    \/ \E s \in RuSeries, w \in RuWindows : AddToBucket(p, s, w)
    \/ \E w \in RuWindows : BeginPurge(p, w + 1) \/ PurgeRow(p, w)
    \/ PurgeSummaries(p) \/ ClaimCleanup(p) \/ CleanupSlice(p) \/ PurgeEnds(p)
    \/ \E h \in RuHours : Discover(p, h) \/ PickHour(p, h) \/ ClaimSummary(p, h)
    \/ ClaimHour(p) \/ ClearHour(p) \/ OpenSnapshot(p) \/ WriteChunk(p) \/ PublishHour(p) \/ BuildFails(p)
    \/ CleanSlice(p) \/ ReadSlice(p) \/ WriteSlice(p) \/ SliceFails(p)

RuSpec == RuInit /\ [][RuNext]_ruVars

-----------------------------------------------------------------------------
(* History reads, each in one snapshot *)

\* appendRollupRanges: may the hour be read from its hourly rows?
Rolled(h, sketches) == ruHour[h].state = 2 /\ (sketches => ruHour[h].safe) /\ Owned

FromBuckets(h, v) == PointsIn(ruBuckets, SeriesOfService(v), HourWindows(h))
FromHourly(h, v) == PointsIn(ruHourly, {h}, SeriesOfService(v))
Exact(n) == [points |-> n, exact |-> TRUE]
\* What was regrouped is exact only without a lossy contribution.
Regrouped(h, n, S) == [points |-> n, exact |-> \A s \in S \cap RuLossy : PointsIn(ruBuckets, {s}, HourWindows(h)) = 0]

\* sumRollupSnapshot: a complete hour, grouped by service.
SumRead(h, v) ==
    IF ~ Rolled(h, FALSE) THEN Exact(FromBuckets(h, v))
    ELSE IF SummaryIn(h, {2}) THEN Regrouped(h, ruCells[<<h, v>>].total, RuSeries)
    ELSE Exact(FromHourly(h, v))

\* sumWindowSnapshotFor: grouped by window; the traffic projection reads counts only.
WindowRead(h, w, v, traffic) ==
    IF SummaryIn(h, IF traffic THEN {2, 4} ELSE {2}) THEN ruCells[<<h, v>>].windows[w]
    ELSE PointsIn(ruBuckets, SeriesOfService(v), {w})

\* readSummarySketchHour: one selected cell without a safe sketch refuses the hour.
SketchesSafe(h, selected) == \A u \in selected : ruCells[<<h, u>>].sketch # 2

\* visitServiceSummarySketches, and visitSQLiteSketches behind it.
SketchRead(h, selected, v) ==
    IF SummaryIn(h, {2, 4}) /\ SketchesSafe(h, selected)
    THEN Regrouped(h, ruCells[<<h, v>>].total, SeriesOfService(v))
    ELSE IF Rolled(h, TRUE) THEN Regrouped(h, FromHourly(h, v), SeriesOfService(v))
    ELSE Exact(FromBuckets(h, v))

-----------------------------------------------------------------------------
\* Type correctness.
RuTypeOK ==
    /\ ruUuid \in 0 .. RuMaxStores /\ ruTriggers \in BOOLEAN
    /\ \A x \in DOMAIN ruBuckets : ruBuckets[x] \in 0 .. RuMaxAdds
    /\ \A h \in RuHours : ruHour[h].state \in -1 .. 2 /\ ruSum[h].state \in -1 .. 4
    /\ \A p \in RuProcs : /\ ruProc[p].pc \in {"down", "create", "drop", "rollup", "summary", "up"}
                          /\ ruBuild[p].at \in {"no", "claim", "clear", "read", "chunks"}
                          /\ ruSlice[p].at \in {"no", "clean", "read", "write"}
                          /\ ruPurge[p].at \in {"no", "windows", "hours", "clean"}

\* Whatever builds, cleanups, finalizations, purges, rebuilds and restarts of several
\* processes are under way, a history read that takes an hour from derived rows gets what
\* the buckets hold, per service and per window, and regroups sums and sketches only where
\* that is exact (appendRollupRanges, summaryReadySQL, "the persistent token is invalidated
\* by any bucket mutation, including another process", rollup.go).
HistoryExact ==
    ruUuid # 0 =>
        \A h \in RuHours, v \in RuServices :
            /\ SumRead(h, v) = Exact(FromBuckets(h, v))
            /\ \A selected \in SUBSET RuServices :
                 v \in selected => SketchRead(h, selected, v) = Exact(FromBuckets(h, v))
            /\ \A w \in HourWindows(h), traffic \in BOOLEAN :
                 WindowRead(h, w, v, traffic) = PointsIn(ruBuckets, SeriesOfService(v), {w})
=============================================================================
