-------------------------------- MODULE Tsdb --------------------------------
(***************************************************************************)
(* The in-memory metric aggregator of the legacy and shadow modes          *)
(* (internal/tsdb): points fold into the buckets of the current window     *)
(* under two series caps and into the ring of recent windows of their      *)
(* series; a ticker swaps the buckets out to a bounded channel that three  *)
(* workers drain into the database; Shutdown flushes the last window and     *)
(* joins the workers.                                                      *)
(*                                                                         *)
(* A point is a number, a bucket keeps its Count and the points folded     *)
(* into it, sums and percentiles are left out, and time is a window        *)
(* number.                                                                 *)
(***************************************************************************)
EXTENDS Integers, FiniteSets, Sequences, FiniteSetsExt, Functions

CONSTANTS
  TsTenants, TsSeries,  \* tenants and the series names of each
  TsPerTenantCap,       \* perTenantCardinality (0: unlimited)
  TsGlobalCap,          \* maxCardinality (0: unlimited)
  TsChanCap,            \* capacity of flushChan
  TsWorkers,            \* persistence workers
  TsRingSlots,          \* slots of a MetricRing
  TsRingMax,            \* maxSeries of the RingBuffer (0: unlimited)
  TsMaxWindow,          \* bound: the latest window a point may be in
  TsMaxPoints,          \* bound: points ingested
  TsMaxTicks            \* bound: ticker flushes

\* Caps are numbers.
ASSUME TsAssumption ==
  {TsPerTenantCap, TsGlobalCap, TsChanCap, TsRingMax} \subseteq Nat

VARIABLES
  tsBuckets,   \* bucket key -> [count, pts]
  tsPerTenant, \* seriesPerTenant
  tsRings,     \* series key -> ring
  tsChan,      \* flushChan: batches of buckets
  tsClosed,    \* flushChan is closed
  tsRun,       \* Start: "new", "loop", "final", "drain", "done"
  tsFinal,     \* the batch the final flush is sending
  tsWorker,    \* worker -> the batch it persists, or {}
  tsSaved,     \* buckets in the database
  tsErr,       \* shutdownErr is set
  tsStop,      \* stopChan is closed
  tsShut,      \* Shutdown: "no", "waiting", "ok", "error", "unstarted", "late"
  tsBefore,    \* points ingested before Shutdown was called
  tsPoints, tsTicks

tsVars == <<tsBuckets, tsPerTenant, tsRings, tsChan, tsClosed, tsRun, tsFinal,
            tsWorker, tsSaved, tsErr, tsStop, tsShut, tsBefore, tsPoints,
            tsTicks>>

tsPipe == <<tsChan, tsClosed, tsRun, tsFinal, tsWorker, tsSaved, tsErr>>

SeriesKey(t, s) == <<"series", t, s>>
TenantOverflow(t) == <<"overflow", t>>
GlobalOverflow == <<"overflow">>

-----------------------------------------------------------------------------
\* The ring of one series.

NewMetricRing(now) ==
  [idx |-> 0, start |-> now,
   slot |-> [i \in 0 .. TsRingSlots - 1 |->
               [start |-> IF i = 0 THEN now ELSE -1, count |-> 0]]]

\* n windows on: each slot passed over is emptied and takes its new start.
Advanced(r, n) ==
  [idx |-> (r.idx + n) % TsRingSlots, start |-> r.start + n,
   slot |-> [i \in 0 .. TsRingSlots - 1 |->
               LET k == ((i - r.idx + TsRingSlots - 1) % TsRingSlots) + 1
               IN  IF k <= n THEN [start |-> r.start + k, count |-> 0]
                   ELSE r.slot[i]]]

\* A later window advances the ring, by at most its size however long the gap
\* was; a point of an earlier window counts in the current slot.
RingRecord(r, w) ==
  LET steps == IF w > r.start THEN w - r.start ELSE 0
      r1 == Advanced(r, IF steps < TsRingSlots THEN steps ELSE TsRingSlots)
  IN  [r1 EXCEPT !.slot[r1.idx].count = @ + 1]

\* RingBuffer.Record: a new series is refused at the cap.  A ring starts at
\* the window of the wall clock, which is not later than TsMaxWindow.
RecordRing(k, w, now) ==
  IF k \in DOMAIN tsRings
  THEN tsRings' = [tsRings EXCEPT ![k] = RingRecord(@, w)]
  ELSE IF TsRingMax > 0 /\ Cardinality(DOMAIN tsRings) >= TsRingMax
       THEN UNCHANGED tsRings
       ELSE tsRings' = [x \in DOMAIN tsRings \cup {k} |->
                          IF x = k THEN RingRecord(NewMetricRing(now), w)
                          ELSE tsRings[x]]

\* The windows a query for the last n gets, newest first.
Windows(r, n) ==
  LET Slot(i) == r.slot[(r.idx - i + TsRingSlots) % TsRingSlots]
  IN  {Slot(i) : i \in {j \in 0 .. (IF n > TsRingSlots THEN TsRingSlots
                                    ELSE n) - 1 : Slot(j).count > 0}}

-----------------------------------------------------------------------------
\* Buckets.

TsInit ==
  /\ tsBuckets = <<>> /\ tsRings = <<>>
  /\ tsPerTenant = [t \in TsTenants |-> 0]
  /\ tsChan = <<>> /\ tsClosed = FALSE
  /\ tsRun = "new" /\ tsFinal = {}
  /\ tsWorker = [w \in TsWorkers |-> {}]
  /\ tsSaved = {} /\ tsErr = FALSE
  /\ tsStop = FALSE /\ tsShut = "no" /\ tsBefore = {}
  /\ tsPoints = 0 /\ tsTicks = 0

\* Where a point goes: its series while that exists or both caps have room,
\* else the overflow bucket of its tenant, else the shared one.
BucketKey(t, s) ==
  IF SeriesKey(t, s) \in DOMAIN tsBuckets THEN SeriesKey(t, s)
  ELSE IF TsPerTenantCap > 0 /\ tsPerTenant[t] >= TsPerTenantCap
       THEN TenantOverflow(t)
  ELSE IF TsGlobalCap > 0 /\ Cardinality(DOMAIN tsBuckets) >= TsGlobalCap
       THEN GlobalOverflow
       ELSE SeriesKey(t, s)

\* A new series bucket is created with its point and returned from; a new
\* overflow bucket is created with its point and then also updated with it.
Ingest(t, s, w, now) ==
  /\ tsPoints < TsMaxPoints
  /\ RecordRing(SeriesKey(t, s), w, now)
  /\ LET k   == BucketKey(t, s)
         new == k \notin DOMAIN tsBuckets
         own == k = SeriesKey(t, s)
         b   == IF new THEN [count |-> 1, pts |-> {tsPoints + 1}]
                ELSE tsBuckets[k]
         b1  == IF new /\ own THEN b
                ELSE [count |-> b.count + 1, pts |-> b.pts \cup {tsPoints + 1}]
     IN  /\ tsBuckets' = [x \in DOMAIN tsBuckets \cup {k} |->
                            IF x = k THEN b1 ELSE tsBuckets[x]]
         /\ tsPerTenant' = IF new /\ own THEN [tsPerTenant EXCEPT ![t] = @ + 1]
                           ELSE tsPerTenant
  /\ tsPoints' = tsPoints + 1
  /\ UNCHANGED <<tsPipe, tsStop, tsShut, tsBefore, tsTicks>>

Batch == Range(tsBuckets)

\* flush swaps the buckets and the tenant counters out together.
SwapOut ==
  /\ tsBuckets' = <<>>
  /\ tsPerTenant' = [t \in TsTenants |-> 0]

StartRun ==
  /\ tsRun = "new" /\ tsRun' = "loop"
  /\ UNCHANGED <<tsBuckets, tsPerTenant, tsRings, tsChan, tsClosed, tsFinal,
                 tsWorker, tsSaved, tsErr, tsStop, tsShut, tsBefore, tsPoints,
                 tsTicks>>

\* Mutant: a dropped batch is only counted.
TickFlushQuiet ==
  /\ tsRun = "loop" /\ tsTicks < TsMaxTicks
  /\ tsTicks' = tsTicks + 1
  /\ SwapOut
  /\ tsChan' = IF tsBuckets # <<>> /\ Len(tsChan) < TsChanCap
               THEN Append(tsChan, Batch) ELSE tsChan
  /\ UNCHANGED <<tsErr, tsRings, tsClosed, tsRun, tsFinal, tsWorker, tsSaved,
                 tsStop, tsShut, tsBefore, tsPoints>>

\* A ticker flush never blocks: a full channel drops the batch and Shutdown
\* will report it.
TickFlush ==
  /\ tsRun = "loop" /\ tsTicks < TsMaxTicks
  /\ tsTicks' = tsTicks + 1
  /\ SwapOut
  /\ \/ tsBuckets = <<>> /\ UNCHANGED <<tsChan, tsErr>>
     \/ /\ tsBuckets # <<>> /\ Len(tsChan) < TsChanCap
        /\ tsChan' = Append(tsChan, Batch)
        /\ UNCHANGED tsErr
     \/ /\ tsBuckets # <<>> /\ Len(tsChan) >= TsChanCap
        /\ tsErr' = TRUE
        /\ UNCHANGED tsChan
  /\ UNCHANGED <<tsRings, tsClosed, tsRun, tsFinal, tsWorker, tsSaved, tsStop,
                 tsShut, tsBefore, tsPoints>>

\* The loop sees stopChan closed, or its context cancelled before that (which
\* is an error of its own), and swaps the last window out.
StopRun(cancelled) ==
  /\ tsRun = "loop" /\ (cancelled \/ tsStop)
  /\ tsErr' = (tsErr \/ cancelled)
  /\ tsFinal' = Batch
  /\ SwapOut
  /\ tsRun' = "final"
  /\ UNCHANGED <<tsRings, tsChan, tsClosed, tsWorker, tsSaved, tsStop, tsShut,
                 tsBefore, tsPoints, tsTicks>>

\* The final flush waits for room in the channel, then closes it.
FinalSend ==
  /\ tsRun = "final"
  /\ \/ tsFinal = {} /\ UNCHANGED tsChan
     \/ /\ tsFinal # {} /\ Len(tsChan) < TsChanCap
        /\ tsChan' = Append(tsChan, tsFinal)
  /\ tsFinal' = {} /\ tsClosed' = TRUE
  /\ tsRun' = "drain"
  /\ UNCHANGED <<tsBuckets, tsPerTenant, tsRings, tsWorker, tsSaved, tsErr,
                 tsStop, tsShut, tsBefore, tsPoints, tsTicks>>

WorkerTakes(w) ==
  /\ tsRun # "new" /\ tsWorker[w] = {} /\ tsChan # <<>>
  /\ tsWorker' = [tsWorker EXCEPT ![w] = Head(tsChan)]
  /\ tsChan' = Tail(tsChan)
  /\ UNCHANGED <<tsBuckets, tsPerTenant, tsRings, tsClosed, tsRun, tsFinal,
                 tsSaved, tsErr, tsStop, tsShut, tsBefore, tsPoints, tsTicks>>

\* BatchCreateMetrics writes the batch or fails; a failure is recorded for
\* Shutdown and the batch is gone.
WorkerPersists(w, ok) ==
  /\ tsWorker[w] # {}
  /\ tsSaved' = IF ok THEN tsSaved \cup tsWorker[w] ELSE tsSaved
  /\ tsErr' = (tsErr \/ ~ok)
  /\ tsWorker' = [tsWorker EXCEPT ![w] = {}]
  /\ UNCHANGED <<tsBuckets, tsPerTenant, tsRings, tsChan, tsClosed, tsRun,
                 tsFinal, tsStop, tsShut, tsBefore, tsPoints, tsTicks>>

\* Start waits for the workers, which leave once the closed channel is empty.
RunDone ==
  /\ tsRun = "drain" /\ tsChan = <<>> /\ \A w \in TsWorkers : tsWorker[w] = {}
  /\ tsRun' = "done"
  /\ UNCHANGED <<tsBuckets, tsPerTenant, tsRings, tsChan, tsClosed, tsFinal,
                 tsWorker, tsSaved, tsErr, tsStop, tsShut, tsBefore, tsPoints,
                 tsTicks>>

\* Shutdown closes stopChan and does not wait for a loop that never started.
TsShutdown ==
  /\ tsShut = "no"
  /\ tsStop' = TRUE
  /\ tsShut' = IF tsRun = "new" THEN "unstarted" ELSE "waiting"
  /\ tsBefore' = 1 .. tsPoints
  /\ UNCHANGED <<tsBuckets, tsPerTenant, tsRings, tsPipe, tsPoints, tsTicks>>

TsShutdownReturns ==
  /\ tsShut = "waiting"
  /\ \/ tsRun = "done" /\ tsShut' = IF tsErr THEN "error" ELSE "ok"
     \/ tsShut' = "late"
  /\ UNCHANGED <<tsBuckets, tsPerTenant, tsRings, tsPipe, tsStop, tsBefore,
                 tsPoints, tsTicks>>

TsNext ==
  \/ \E t \in TsTenants, s \in TsSeries, w, now \in 0 .. TsMaxWindow :
       Ingest(t, s, w, now)
  \/ StartRun
  \/ TickFlush
  \/ \E cancelled \in BOOLEAN : StopRun(cancelled)
  \/ FinalSend
  \/ \E w \in TsWorkers : WorkerTakes(w)
  \/ \E w \in TsWorkers, ok \in BOOLEAN : WorkerPersists(w, ok)
  \/ RunDone
  \/ TsShutdown
  \/ TsShutdownReturns

TsSpec == TsInit /\ [][TsNext]_tsVars

\* Type correctness.
TsTypeOK ==
  /\ \A k \in DOMAIN tsBuckets : tsBuckets[k].count \in Nat
  /\ tsPerTenant \in [TsTenants -> Nat]
  /\ \A k \in DOMAIN tsRings : tsRings[k].idx \in 0 .. TsRingSlots - 1
  /\ TsRingMax > 0 => Cardinality(DOMAIN tsRings) <= TsRingMax
  /\ Len(tsChan) <= TsChanCap
  /\ tsRun \in {"new", "loop", "final", "drain", "done"}
  /\ tsShut \in {"no", "waiting", "ok", "error", "unstarted", "late"}
  /\ tsClosed \in BOOLEAN /\ tsErr \in BOOLEAN /\ tsStop \in BOOLEAN
  /\ tsBefore \subseteq 1 .. tsPoints
  /\ tsPoints \in 0 .. TsMaxPoints /\ tsTicks \in 0 .. TsMaxTicks

-----------------------------------------------------------------------------
\* A Shutdown that reports success after the loop ran means that every point
\* ingested before it was called is in the database: a full channel, a failed
\* write or a cancelled context on the way must have turned into its error.
CleanShutdownSavedAll ==
  tsShut = "ok" => \A p \in tsBefore : \E b \in tsSaved : p \in b.pts
=============================================================================
