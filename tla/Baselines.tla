----------------------------- MODULE Baselines -----------------------------
(***************************************************************************)
(* Cumulative counters: the baselines that turn the points of a producer's *)
(* counter into increases, and the ledger that carries the increase of a   *)
(* failed group commit forward.  An export observes its point and asks the *)
(* writer for admission; the writer refuses it, or commits or refuses it   *)
(* with its group.  The writer drains every dirty baseline into the group  *)
(* it builds, and further points are observed until the transaction ends.  *)
(* A restart seeds the tracker from the durable rows.  A client sends an   *)
(* export again, with the same point, when it was refused or its answer    *)
(* was lost.                                                               *)
(*                                                                         *)
(* One series; producer 0 is the degraded one that absorbs the producers   *)
(* past the cap.  Time and counter values are small numbers.               *)
(***************************************************************************)
EXTENDS Integers, FiniteSets, FiniteSetsExt

CONSTANTS BlExports, BlProducers, BlProducer,   \* exports and the producer of each
          MaxProducersPerSeries, MaxBaselines, GapThreshold,
          BlWindowSize, BlAllowedLateness,      \* how long the window of a point is mutable
          BlMaxTime, BlMaxFails, BlMaxCrashes, BlMaxRefusals   \* bounds

VARIABLES blSource,     \* each producer's counter: start, time, value, and how much it grew
          blPoint,      \* the point each export carries; as a history, how much had grown
          blExport,     \* "new", "made", "reduced", "acked", "refused"
          blDelta,      \* the increase each export's reducer took
          blBase,       \* baselineState: start, last, value, pending, owed; and, as
                        \* histories, the increase noted and stranded up to this state,
                        \* and how much the counter had grown at its last point
          blKnown,      \* producers with a baseline
          blDirty,
          blGroup,      \* the group commit under way: exports, drained records, their state;
                        \* and, as a history, what it drained of refused exports
          blRows,       \* aggregate_baseline: what a committed group left of each record
          blStored,     \* records with a row
          blFails, blCrashes, blRefusals,
          blDurable,    \* history: increase durable rows hold
          blOverlap,    \* history: a drain met the increase of another export that waits
          blOrphan,     \* history: pending increase of exports refused at admission
          blLost        \* history: increase of those whose baselines became durable without it

blSourceVars == <<blSource, blPoint>>
blTrackerVars == <<blBase, blKnown, blDirty>>
blStoreVars == <<blRows, blStored>>
blCounts == <<blFails, blCrashes, blRefusals>>
blHistory == <<blDurable, blOverlap, blOrphan, blLost>>
blVars == <<blSourceVars, blExport, blDelta, blTrackerVars, blGroup, blStoreVars, blCounts, blHistory>>

Degraded == 0
BlRecords == BlProducers \union {Degraded}

ASSUME BlAssumption ==
    /\ IsFiniteSet(BlExports) /\ IsFiniteSet(BlProducers) /\ Degraded \notin BlProducers
    /\ BlProducer \in [BlExports -> BlProducers]
    /\ GapThreshold \in Nat /\ BlWindowSize \in Nat \ {0} /\ BlAllowedLateness \in Nat
    /\ BlMaxTime \in Nat /\ BlMaxFails \in Nat /\ BlMaxCrashes \in Nat /\ BlMaxRefusals \in Nat

NoBaseline ==
    [start |-> 0, last |-> 0, value |-> 0, pending |-> 0, owed |-> 0,
     noted |-> 0, stranded |-> 0, seen |-> 0]
NoDrain == [xs |-> {}, dirty |-> {}, base |-> [r \in BlRecords |-> NoBaseline], orphan |-> 0]

---------------------------------------------------------------------------
(* Producers *)

\* The counter grows; a restarted producer begins again at zero.
Produce(p) ==
    /\ \E dt \in {1, GapThreshold + 1}, restart \in BOOLEAN :
         /\ blSource[p].ts + dt <= BlMaxTime
         /\ blSource' = [blSource EXCEPT ![p] =
              [start |-> IF restart THEN @.ts ELSE @.start, ts |-> @.ts + dt,
               value |-> IF restart THEN 1 ELSE @.value + 1, grown |-> @.grown + 1]]
    /\ UNCHANGED <<blPoint, blExport, blDelta, blTrackerVars, blGroup, blStoreVars, blCounts, blHistory>>

\* An export leaves with its producer's current point.
Send(x) ==
    /\ blExport[x] = "new"
    /\ blPoint' = [blPoint EXCEPT ![x] = blSource[BlProducer[x]]]
    /\ blExport' = [blExport EXCEPT ![x] = "made"]
    /\ UNCHANGED <<blSource, blDelta, blTrackerVars, blGroup, blStoreVars, blCounts, blHistory>>

---------------------------------------------------------------------------
(* The tracker *)

\* A new producer past a cap shares the degraded baseline.
RecordOf(p) ==
    IF p \notin blKnown /\ (Cardinality(blKnown) >= MaxProducersPerSeries
                            \/ Cardinality(blKnown) >= MaxBaselines)
    THEN Degraded ELSE p

\* What a point newer than the baseline adds: everything after a reset.
Increase(b, pt) == IF pt.start # b.start \/ pt.value < b.value THEN pt.value ELSE pt.value - b.value

Settled(b) == [b EXCEPT !.owed = 0]

\* Classify: the point's window is no longer mutable at the arrival of the export.  The clock
\* is that of the most advanced producer.
Late(ts) ==
    \E p \in BlProducers : blSource[p].ts >= (ts - (ts % BlWindowSize)) + BlWindowSize + BlAllowedLateness

\* ReduceMetricPoint: a late point is excluded, any other is observed by ObserveCumulative.
ObserveCumulative(x) ==
    /\ blExport[x] = "made"
    /\ LET pt == blPoint[x]
           r == RecordOf(BlProducer[x])
           b == blBase[r]
           moved == [b EXCEPT !.start = pt.start, !.last = pt.ts, !.value = pt.value, !.seen = pt.grown]
           put(nb, d) == /\ blBase' = [blBase EXCEPT ![r] = nb]
                         /\ blDelta' = [blDelta EXCEPT ![x] = d]
                         /\ blDirty' = blDirty \union {r}
                         /\ blKnown' = blKnown \union {r}
       IN  \/ /\ Late(pt.ts)
              /\ blDelta' = [blDelta EXCEPT ![x] = 0] /\ UNCHANGED blTrackerVars
           \/ /\ ~Late(pt.ts) /\ r \notin blKnown
              /\ put(moved, 0)
           \/ /\ ~Late(pt.ts) /\ r \in blKnown /\ pt.ts <= b.last
              /\ IF b.owed > 0
                 THEN put([Settled(b) EXCEPT !.pending = @ + b.owed], b.owed)
                 ELSE blDelta' = [blDelta EXCEPT ![x] = 0] /\ UNCHANGED blTrackerVars
           \/ /\ ~Late(pt.ts) /\ r \in blKnown /\ pt.ts - b.last > GapThreshold
              /\ put([Settled(moved) EXCEPT !.stranded = @ + b.owed], 0)
           \/ /\ ~Late(pt.ts) /\ r \in blKnown /\ pt.ts > b.last /\ pt.ts - b.last <= GapThreshold
              /\ put([Settled(moved) EXCEPT !.pending = @ + Increase(b, pt) + b.owed,
                                            !.noted = @ + Increase(b, pt)],
                     Increase(b, pt) + b.owed)
    /\ blExport' = [blExport EXCEPT ![x] = "reduced"]
    /\ UNCHANGED <<blSourceVars, blGroup, blStoreVars, blCounts, blHistory>>

Sum(f, S) == MapThenSumSet(LAMBDA e : f[e], S)

\* ApplyErr refuses a reduced export: a bound of admit is reached, or the writer closed.  The
\* baseline has moved and keeps the pending increase; nothing gives it back.
BlRefuse(x) ==
    /\ blExport[x] = "reduced" /\ x \notin blGroup.xs
    /\ blRefusals < BlMaxRefusals
    /\ blRefusals' = blRefusals + 1
    /\ blExport' = [blExport EXCEPT ![x] = "refused"]
    /\ blOrphan' = blOrphan + blDelta[x]
    /\ UNCHANGED <<blSourceVars, blDelta, blTrackerVars, blGroup, blStoreVars, blFails, blCrashes,
                   blDurable, blOverlap, blLost>>

\* The drain takes increase of an export that waits and is not in the group.
Overlaps(xs) ==
    Sum([r \in BlRecords |-> IF r \in blDirty THEN blBase[r].pending ELSE 0], BlRecords)
      # Sum(blDelta, xs) + blOrphan

\* The commit loop builds a group of waiting exports; DrainDirty hands it the state and the
\* pending increase of every dirty record.
DrainDirty(xs) ==
    /\ blGroup = NoDrain /\ xs # {} /\ \A x \in xs : blExport[x] = "reduced"
    /\ blGroup' = [xs |-> xs, dirty |-> blDirty, base |-> blBase, orphan |-> blOrphan]
    /\ blBase' = [r \in BlRecords |-> IF r \in blDirty THEN [blBase[r] EXCEPT !.pending = 0] ELSE blBase[r]]
    /\ blDirty' = {}
    /\ blOverlap' = (blOverlap \/ Overlaps(xs))
    /\ blOrphan' = 0
    /\ UNCHANGED <<blSourceVars, blExport, blDelta, blKnown, blStoreVars, blCounts, blDurable, blLost>>

\* The group's rows and the drained baselines become durable together; the increase
\* handed over is settled.
BlCommitOK ==
    /\ blGroup # NoDrain
    /\ blRows' = [r \in BlRecords |-> IF r \in blGroup.dirty
                                      THEN [blGroup.base[r] EXCEPT !.pending = 0, !.owed = 0] ELSE blRows[r]]
    /\ blStored' = blStored \union blGroup.dirty
    /\ blDurable' = blDurable + Sum(blDelta, blGroup.xs)
    /\ blExport' = [x \in BlExports |-> IF x \in blGroup.xs THEN "acked" ELSE blExport[x]]
    /\ blLost' = blLost + blGroup.orphan
    /\ blGroup' = NoDrain
    /\ UNCHANGED <<blSourceVars, blDelta, blTrackerVars, blCounts, blOverlap, blOrphan>>

\* Mutant: a failed commit makes the baselines dirty again and no more.
RollbackForgets == blBase

\* Rollback: each drained record owes the increase the commit carried.
Rollback ==
    [r \in BlRecords |-> IF r \in blGroup.dirty THEN [blBase[r] EXCEPT !.owed = @ + blGroup.base[r].pending]
                         ELSE blBase[r]]

\* The commit failed: the exports of the group are refused.
BlCommitFails ==
    /\ blGroup # NoDrain /\ blFails < BlMaxFails
    /\ blFails' = blFails + 1
    /\ blBase' = Rollback
    /\ blDirty' = blDirty \union blGroup.dirty
    /\ blExport' = [x \in BlExports |-> IF x \in blGroup.xs THEN "refused" ELSE blExport[x]]
    /\ blGroup' = NoDrain
    /\ UNCHANGED <<blSourceVars, blDelta, blKnown, blStoreVars, blCrashes, blRefusals, blHistory>>

\* The client sends the export again, with the same point.
BlRetry(x) ==
    /\ blExport[x] \in {"refused", "acked"}
    /\ blExport' = [blExport EXCEPT ![x] = "made"]
    /\ UNCHANGED <<blSourceVars, blDelta, blTrackerVars, blGroup, blStoreVars, blCounts, blHistory>>

---------------------------------------------------------------------------
(* The process dies, also inside a transaction, and starts again *)

\* LoadBaselines and Seed: the rows are all the tracker knows.
Seeded ==
    /\ blBase' = blRows
    /\ blKnown' = blStored
    /\ blDirty' = {}

BlRestart ==
    /\ blCrashes < BlMaxCrashes
    /\ blCrashes' = blCrashes + 1
    /\ Seeded
    /\ blGroup' = NoDrain
    /\ blExport' = [x \in BlExports |-> IF blExport[x] = "reduced" THEN "refused" ELSE blExport[x]]
    /\ blOrphan' = 0
    /\ UNCHANGED <<blSourceVars, blDelta, blStoreVars, blFails, blRefusals, blDurable, blOverlap, blLost>>

\* PurgeBefore deletes rows last seen before the retention horizon, which is further back
\* than a point may be late.  The histories stay.
PurgeBaselines(cutoff) ==
    /\ \E p \in BlProducers : blSource[p].ts - cutoff >= BlWindowSize + BlAllowedLateness
    /\ \E r \in blStored : blRows[r].last < cutoff
    /\ blStored' = {r \in blStored : blRows[r].last >= cutoff}
    /\ UNCHANGED <<blSourceVars, blExport, blDelta, blTrackerVars, blGroup, blRows, blCounts, blHistory>>

BlInit ==
    /\ blSource = [p \in BlProducers |-> [start |-> 0, ts |-> 1, value |-> 1, grown |-> 0]]
    /\ blPoint = [x \in BlExports |-> [start |-> 0, ts |-> 0, value |-> 0, grown |-> 0]]
    /\ blExport = [x \in BlExports |-> "new"]
    /\ blDelta = [x \in BlExports |-> 0]
    /\ blBase = [r \in BlRecords |-> NoBaseline]
    /\ blKnown = {} /\ blDirty = {} /\ blGroup = NoDrain
    /\ blRows = [r \in BlRecords |-> NoBaseline] /\ blStored = {}
    /\ blFails = 0 /\ blCrashes = 0 /\ blRefusals = 0
    /\ blDurable = 0 /\ blOverlap = FALSE /\ blOrphan = 0 /\ blLost = 0

BlNext ==
    \/ \E p \in BlProducers : Produce(p)
    \/ \E x \in BlExports : Send(x) \/ ObserveCumulative(x) \/ BlRefuse(x) \/ BlRetry(x)
    \/ \E xs \in SUBSET BlExports : DrainDirty(xs)
    \/ BlCommitOK \/ BlCommitFails \/ BlRestart
    \/ \E cutoff \in 1 .. BlMaxTime : PurgeBaselines(cutoff)

BlSpec == BlInit /\ [][BlNext]_blVars

\* Type correctness.
BlTypeOK ==
    /\ blExport \in [BlExports -> {"new", "made", "reduced", "acked", "refused"}]
    /\ blDelta \in [BlExports -> Nat]
    /\ blKnown \subseteq BlRecords /\ blDirty \subseteq blKnown /\ blStored \subseteq BlRecords
    /\ blGroup.xs \subseteq BlExports /\ blGroup.dirty \subseteq blKnown
    /\ \A r \in BlRecords : \A b \in {blBase[r], blRows[r], blGroup.base[r]} :
         b.pending \in Nat /\ b.owed \in Nat /\ b.noted \in Nat /\ b.stranded \in Nat
    /\ blFails \in 0 .. BlMaxFails /\ blCrashes \in 0 .. BlMaxCrashes
    /\ blRefusals \in 0 .. BlMaxRefusals
    /\ blDurable \in Nat /\ blOverlap \in BOOLEAN /\ blOrphan \in Nat /\ blGroup.orphan \in Nat /\ blLost \in Nat

---------------------------------------------------------------------------
\* The increase the baselines took note of, and where it is: durable, in an export that
\* still waits for the writer, owed for a later point, or counted as stranded.
NotedIncrease == Sum([r \in BlRecords |-> blBase[r].noted], BlRecords)
HeldIncrease ==
    blDurable + Sum(blDelta, {x \in BlExports : blExport[x] = "reduced"})
              + Sum([r \in BlRecords |-> blBase[r].owed + blBase[r].stranded], BlRecords)

\* The increase of exports refused at admission: pending still, in the group under way, or
\* behind durable baselines.
Forgone == blOrphan + blGroup.orphan + blLost

\* Totals stay exact across commit failures and retries of any point, but for the increase of
\* exports refused at admission, which only a failed commit that drained it gives back; across
\* a restart a baseline may be ahead of the durable deltas but never behind them, which would
\* count an increase twice (DrainDirty's comment); and a counter is never credited with more
\* than it grew.  All as long as no failed commit had drained the increase of an export that
\* waited outside its group (ObserveCumulative, DrainDirty, Rollback, Seed).
TotalsExactAlone ==
    (~ blOverlap \/ blFails = 0) =>
        /\ HeldIncrease + Forgone <= NotedIncrease
        /\ blCrashes = 0 => HeldIncrease + Forgone = NotedIncrease
        /\ \A p \in BlProducers : blBase[p].noted <= blSource[p].grown

\* Totals stay exact across a commit failure whichever point arrives first
\* (Rollback, the comments of baselineState and ObserveCumulative).
TotalsExact == HeldIncrease = NotedIncrease

\* A writer that refuses exports "never degrades to bounded-loss ACK on its own" (writer.go):
\* when every export that was sent is acknowledged, the increase noted is held.
AckedIsWhole ==
    (\A x \in BlExports : blExport[x] \in {"new", "acked"}) => HeldIncrease = NotedIncrease
===========================================================================
