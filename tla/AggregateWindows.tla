--------------------------- MODULE AggregateWindows ---------------------------
(***************************************************************************)
(* The life of an aggregation window (internal/aggregate: engine.go,       *)
(* writer.go, recovery.go, query.go, store_sqlite.go).  Exports reduce     *)
(* points into windows; the commit goroutine plans, commits and applies    *)
(* them; a second goroutine finalizes windows whose lateness expired and   *)
(* hands their ownership from the shards to the store; queries read the    *)
(* memory-owned windows from the shards and everything older from the      *)
(* store; a crash loses the shards and recovery replays the delta log.     *)
(*                                                                         *)
(* One series stands for all: a delta is the multiset of the Exports whose *)
(* points it counts, so Merge is addition, and losing or counting twice is *)
(* visible per Export.                                                     *)
(***************************************************************************)
EXTENDS Integers, FiniteSets

CONSTANTS
    Exports,                \* Export requests; a client retry is another Export
    WindowSize,             \* WindowSize, in clock ticks
    AllowedLateness,        \* AllowedLateness, in clock ticks
    MaxFutureSkew,          \* MaxFutureSkew, in clock ticks
    MaxClosedWindows,       \* EngineConfig.MaxClosedWindows, the closed-window cap
    FinalizePerPass,        \* finalizeWindowsPerPass
    MaxTime,                \* bound: last clock tick explored
    MaxCrashes,             \* bound: crashes explored
    MaxFailures             \* bound: failed FinalizeWindow transactions explored

ASSUME TimesAssumption ==
    /\ WindowSize \in Nat \ {0}
    /\ AllowedLateness \in Nat /\ AllowedLateness % WindowSize = 0
    /\ MaxFutureSkew \in Nat
    /\ MaxTime \in Nat
ASSUME CapsAssumption ==
    /\ MaxClosedWindows \in Nat \ {0}
    /\ FinalizePerPass \in Nat \ {0}
    /\ MaxCrashes \in Nat /\ MaxFailures \in Nat

VARIABLES
    now,            \* the wall clock
    status,         \* the Exports: idle, submitted to the writer, answered, or lost in a crash
    points,         \* the windows each Export's reduced deltas fall in
    dropped,        \* of those, the windows PlanAdmission discarded as expired
    commit,         \* the commit goroutine: idle, planned (before CommitGroup), durable (after it)
    batch,          \* the Exports of the group in flight
    plan,           \* AdmissionPlan.Resolved, per window
    log,            \* aggregate_delta_log, per window
    buckets,        \* aggregate_buckets, per window
    shards,         \* the in-memory shards, per window
    mutable,        \* ownership.mutable
    closed,         \* ownership.closed
    watermark,      \* ownership.watermark; 0 is none
    todo,           \* windows FinalizeDue listed and has not tried yet
    handover,       \* windows finalized in the store and not yet marked in the engine
    reader,         \* the query in progress
    mode,           \* the process: up, down, or recovering
    recoverNow,     \* the now Recover was called with
    straddled,      \* history: a batch was applied after one of its windows expired
    crashes,
    failures        \* FinalizeWindow transactions that failed

clientVars == <<status, points, dropped>>
commitVars == <<commit, batch, plan>>
storeVars == <<log, buckets>>
ownVars == <<shards, mutable, closed, watermark>>
finalizeVars == <<todo, handover>>
modeVars == <<mode, recoverNow, crashes>>
vars == <<now, clientVars, commitVars, storeVars, ownVars, finalizeVars, reader,
          modeVars, straddled, failures>>

-------------------------------------------------------------------------------
(* Window arithmetic.                                                      *)

WindowStart(t) == t - (t % WindowSize)

\* Window starts that can occur; 0 is left out because the code reserves it.
Windows == {t \in 1 .. (MaxTime + MaxFutureSkew) : t % WindowSize = 0}
FirstTick == WindowSize

\* Classify of a point at time t in an Export that arrived at arrival.
Classify(arrival, t) ==
    CASE t - arrival > MaxFutureSkew -> "future"
      [] arrival >= WindowStart(t) + WindowSize + AllowedLateness -> "late"
      [] OTHER -> "accepted"

\* Mutant: the reserved window 0 is accepted.
AcceptedWindowsFromZero(arrival) ==
    {w \in Windows \cup {0} :
        \E t \in w .. (w + WindowSize - 1) : Classify(arrival, t) = "accepted"}

AcceptedWindows(arrival) ==
    {w \in Windows : \E t \in w .. (w + WindowSize - 1) : Classify(arrival, t) = "accepted"}

\* The newest window start whose lateness horizon has expired at t.
FinalizeCutoff(t) == t - WindowSize - AllowedLateness

\* The oldest window start still mutable at t.
MutableSince(t) == WindowStart(t) - AllowedLateness

-------------------------------------------------------------------------------
(* Deltas.                                                                 *)

Delta == [Exports -> Nat]
NoDelta == [e \in Exports |-> 0]
Merge(d1, d2) == [e \in Exports |-> d1[e] + d2[e]]

Empty == [w \in Windows |-> NoDelta]
Held(m) == {w \in Windows : m[w] # NoDelta}

Oldest(S) == CHOOSE w \in S : \A v \in S : w <= v
Newest(S) == CHOOSE w \in S : \A v \in S : v <= w

\* The n oldest members of S.
OldestOf(S, n) == {w \in S : Cardinality({v \in S : v < w}) < n}

NoReader == [pc |-> "idle", from |-> 0, storeEnd |-> 0, rows |-> Empty, owed |-> Empty]

Init ==
    /\ now = FirstTick
    /\ status = [e \in Exports |-> "idle"]
    /\ points = [e \in Exports |-> {}]
    /\ dropped = [e \in Exports |-> {}]
    /\ commit = "idle" /\ batch = {} /\ plan = Empty
    /\ log = Empty /\ buckets = Empty
    /\ shards = Empty /\ mutable = {} /\ closed = {} /\ watermark = 0
    /\ todo = {} /\ handover = {}
    /\ reader = NoReader
    /\ mode = "up" /\ recoverNow = 0
    /\ straddled = FALSE
    /\ crashes = 0 /\ failures = 0

Tick ==
    /\ now < MaxTime
    /\ now' = now + 1
    /\ UNCHANGED <<clientVars, commitVars, storeVars, ownVars, finalizeVars, reader,
                   modeVars, straddled, failures>>

-------------------------------------------------------------------------------
(* Exports and the commit goroutine.                                       *)

\* An Export reduces its points with one arrival time and submits the deltas.
\* Late and future points never reach a delta.
Reduce(e) ==
    /\ mode = "up"
    /\ status[e] = "idle"
    /\ \E W \in SUBSET AcceptedWindows(now) :
         /\ W # {}
         /\ points' = [points EXCEPT ![e] = W]
    /\ status' = [status EXCEPT ![e] = "submitted"]
    /\ UNCHANGED <<now, dropped, commitVars, storeVars, ownVars, finalizeVars, reader,
                   modeVars, straddled, failures>>

\* overCapClosedLocked and Rollover: windows at or below the cutoff close, and the oldest closed windows
\* beyond the cap leave memory.
ClosedAt(t) == closed \cup {w \in mutable : w <= FinalizeCutoff(t)}

OverCap(C) == OldestOf(C, Cardinality(C) - MaxClosedWindows)

Rollover ==
    LET C == ClosedAt(now)
        over == OverCap(C)
    IN /\ shards' = [w \in Windows |-> IF w \in over THEN NoDelta ELSE shards[w]]
       /\ closed' = C \ over
       /\ mutable' = mutable \ over
       /\ watermark' = Newest(over \cup {watermark})

\* PlanAdmission of one coalesced batch: roll the windows over, discard the
\* deltas whose window expired since reduction, reserve the rest.
PlanAdmission(B) ==
    /\ mode = "up"
    /\ commit = "idle"
    /\ B # {}
    /\ \A e \in B : status[e] = "submitted"
    /\ Rollover
    /\ plan' = [w \in Windows |-> [e \in Exports |->
                  IF e \in B /\ w \in points[e] /\ w > FinalizeCutoff(now) THEN 1 ELSE 0]]
    /\ dropped' = [e \in Exports |->
                     IF e \in B THEN {w \in points[e] : w <= FinalizeCutoff(now)}
                                ELSE dropped[e]]
    /\ batch' = B
    /\ commit' = "planned"
    /\ UNCHANGED <<now, status, points, storeVars, finalizeVars, reader,
                   modeVars, straddled, failures>>

\* CommitGroup merges the planned deltas into the delta log in one transaction.
CommitGroup ==
    /\ commit = "planned"
    /\ log' = [w \in Windows |-> Merge(log[w], plan[w])]
    /\ commit' = "durable"
    /\ UNCHANGED <<now, clientVars, batch, plan, buckets, ownVars, finalizeVars, reader,
                   modeVars, straddled, failures>>

\* Mutant: the batch is applied on the error path too.
ApplyOnError ==
    /\ commit = "planned"
    /\ shards' = [w \in Windows |-> Merge(shards[w], plan[w])]
    /\ mutable' = mutable \cup Held(plan)
    /\ status' = [e \in Exports |-> IF e \in batch THEN "failed" ELSE status[e]]
    /\ commit' = "idle" /\ batch' = {} /\ plan' = Empty
    /\ UNCHANGED <<now, points, dropped, storeVars, closed, watermark, finalizeVars, reader,
                   modeVars, straddled, failures>>

\* CommitGroup fails: the transaction rolled back and the batch is refused.
CommitGroupFails ==
    /\ commit = "planned"
    /\ status' = [e \in Exports |-> IF e \in batch THEN "failed" ELSE status[e]]
    /\ commit' = "idle" /\ batch' = {} /\ plan' = Empty
    /\ UNCHANGED <<now, points, dropped, storeVars, ownVars, finalizeVars, reader,
                   modeVars, straddled, failures>>

\* CommitAdmission applies the plan to the shards and takes ownership of its
\* windows in one critical section; then finish acknowledges the batch.
CommitAdmission ==
    /\ commit = "durable"
    /\ shards' = [w \in Windows |-> Merge(shards[w], plan[w])]
    /\ mutable' = mutable \cup Held(plan)
    /\ straddled' = (straddled \/ \E w \in Held(plan) : w <= FinalizeCutoff(now))
    /\ status' = [e \in Exports |-> IF e \in batch THEN "acked" ELSE status[e]]
    /\ commit' = "idle" /\ batch' = {} /\ plan' = Empty
    /\ UNCHANGED <<now, points, dropped, storeVars, closed, watermark, finalizeVars,
                   reader, modeVars, failures>>

-------------------------------------------------------------------------------
(* The finalize goroutine.                                                 *)

Finalizable(t) == {w \in Held(log) : w <= FinalizeCutoff(t)}

\* FinalizeDue lists the expired windows that still have delta rows.
ListFinalizable ==
    /\ mode = "up"
    /\ todo = {} /\ handover = {}
    /\ Finalizable(now) # {}
    /\ todo' = OldestOf(Finalizable(now), FinalizePerPass)
    /\ UNCHANGED <<now, clientVars, commitVars, storeVars, ownVars, handover, reader,
                   modeVars, straddled, failures>>

\* Mutant: a second finalization of a window replaces its buckets.
MaterializeReplaces(w) ==
    /\ buckets' = [buckets EXCEPT ![w] = log[w]]
    /\ log' = [log EXCEPT ![w] = NoDelta]

\* One transaction adds the window's delta rows to its buckets and deletes them.
Materialize(w) ==
    /\ buckets' = [buckets EXCEPT ![w] = Merge(@, log[w])]
    /\ log' = [log EXCEPT ![w] = NoDelta]

FinalizeWindow ==
    /\ mode = "up"
    /\ todo # {} /\ handover = {}
    /\ Materialize(Oldest(todo))
    /\ handover' = {Oldest(todo)}
    /\ todo' = todo \ {Oldest(todo)}
    /\ UNCHANGED <<now, clientVars, commitVars, ownVars, reader, modeVars, straddled, failures>>

\* A failed FinalizeWindow is counted and the pass goes on with the next window.
FinalizeWindowFails ==
    /\ mode = "up"
    /\ todo # {} /\ handover = {}
    /\ failures < MaxFailures
    /\ failures' = failures + 1
    /\ todo' = todo \ {Oldest(todo)}
    /\ UNCHANGED <<now, clientVars, commitVars, storeVars, ownVars, handover, reader,
                   modeVars, straddled>>

\* Mutant: a finalized window stays in the mutable set.
MarkStaysMutable ==
    /\ handover # {}
    /\ shards' = [w \in Windows |-> IF w \in handover THEN NoDelta ELSE shards[w]]
    /\ mutable' = mutable
    /\ closed' = closed \ handover
    /\ watermark' = Newest(handover \cup {watermark})
    /\ handover' = {}
    /\ UNCHANGED <<now, clientVars, commitVars, storeVars, todo, reader,
                   modeVars, straddled, failures>>

\* MarkFinalized: evict the window and hand its ownership to the store.
MarkFinalized ==
    /\ handover # {}
    /\ shards' = [w \in Windows |-> IF w \in handover THEN NoDelta ELSE shards[w]]
    /\ mutable' = mutable \ handover
    /\ closed' = closed \ handover
    /\ watermark' = Newest(handover \cup {watermark})
    /\ handover' = {}
    /\ UNCHANGED <<now, clientVars, commitVars, storeVars, todo, reader,
                   modeVars, straddled, failures>>

-------------------------------------------------------------------------------
(* Queries over [from, end of time).                                       *)

\* readMutable and planStore: the memory-owned windows are read from the shards
\* under the ownership lock, and the store is asked for what is older than the
\* oldest of them.  owed is history: what was acknowledged before the query.
ReadMutable(from) ==
    LET mem == {w \in mutable : w >= from}
    IN /\ mode = "up"
       /\ reader.pc = "idle"
       /\ reader' = [pc |-> "memory",
                     from |-> from,
                     storeEnd |-> IF mem = {} THEN MaxTime + MaxFutureSkew + 1 ELSE Oldest(mem),
                     rows |-> [w \in Windows |-> IF w \in mem THEN shards[w] ELSE NoDelta],
                     owed |-> [w \in Windows |-> [e \in Exports |->
                        IF status[e] = "acked" /\ w \in points[e] \ dropped[e] THEN 1 ELSE 0]]]
       /\ UNCHANGED <<now, clientVars, commitVars, storeVars, ownVars, finalizeVars,
                      modeVars, straddled, failures>>

\* Mutant: the range asked of the store includes the oldest memory window.
ReadStoreInclusive ==
    /\ reader.pc = "memory"
    /\ reader' = [reader EXCEPT
         !.pc = "answered",
         !.rows = [w \in Windows |->
                     IF w >= reader.from /\ w <= reader.storeEnd
                     THEN Merge(reader.rows[w], Merge(buckets[w], log[w]))
                     ELSE reader.rows[w]]]
    /\ UNCHANGED <<now, clientVars, commitVars, storeVars, ownVars, finalizeVars,
                   modeVars, straddled, failures>>

\* The store read: one snapshot over the buckets and the delta rows in range is
\* added to what memory returned.
ReadStore ==
    /\ reader.pc = "memory"
    /\ reader' = [reader EXCEPT
         !.pc = "answered",
         !.rows = [w \in Windows |->
                     IF w >= reader.from /\ w < reader.storeEnd
                     THEN Merge(reader.rows[w], Merge(buckets[w], log[w]))
                     ELSE reader.rows[w]]]
    /\ UNCHANGED <<now, clientVars, commitVars, storeVars, ownVars, finalizeVars,
                   modeVars, straddled, failures>>

Respond ==
    /\ reader.pc = "answered"
    /\ reader' = NoReader
    /\ UNCHANGED <<now, clientVars, commitVars, storeVars, ownVars, finalizeVars,
                   modeVars, straddled, failures>>

-------------------------------------------------------------------------------
(* Crash and recovery.                                                     *)

\* The process dies: the shards, the ownership record and both goroutines are
\* gone; submitted Exports never hear an answer.
Crash ==
    /\ mode # "down"
    /\ crashes < MaxCrashes
    /\ crashes' = crashes + 1
    /\ mode' = "down" /\ recoverNow' = 0
    /\ status' = [e \in Exports |-> IF status[e] = "submitted" THEN "lost" ELSE status[e]]
    /\ commit' = "idle" /\ batch' = {} /\ plan' = Empty
    /\ shards' = Empty /\ mutable' = {} /\ closed' = {} /\ watermark' = 0
    /\ todo' = {} /\ handover' = {}
    /\ reader' = NoReader
    /\ UNCHANGED <<now, points, dropped, storeVars, straddled, failures>>

BeginRecover ==
    /\ mode = "down"
    /\ mode' = "recovering"
    /\ recoverNow' = now
    /\ UNCHANGED <<now, clientVars, commitVars, storeVars, ownVars, finalizeVars, reader,
                   crashes, straddled, failures>>

\* finalizeExpired: one transaction per window whose lateness expired in downtime.
FinalizeExpired ==
    /\ mode = "recovering"
    /\ Finalizable(recoverNow) # {}
    /\ Materialize(Oldest(Finalizable(recoverNow)))
    /\ UNCHANGED <<now, clientVars, commitVars, ownVars, finalizeVars, reader,
                   modeVars, straddled, failures>>

\* replayRows: the mutable delta log goes back into the shards through
\* ApplyCommitted, which reads the clock again and skips what expired meanwhile.
Replay ==
    LET W == {w \in Held(log) : w >= MutableSince(recoverNow) /\ w > FinalizeCutoff(now)}
    IN /\ mode = "recovering"
       /\ Finalizable(recoverNow) = {}
       /\ shards' = [w \in Windows |-> IF w \in W THEN log[w] ELSE NoDelta]
       /\ mutable' = W
       /\ mode' = "up"
       /\ UNCHANGED <<now, clientVars, commitVars, storeVars, closed, watermark,
                      finalizeVars, reader, recoverNow, crashes, straddled, failures>>

CommitLoop ==
    \/ \E B \in SUBSET Exports : PlanAdmission(B)
    \/ CommitGroup
    \/ CommitGroupFails
    \/ CommitAdmission

FinalizeLoop ==
    \/ ListFinalizable
    \/ FinalizeWindow
    \/ FinalizeWindowFails
    \/ MarkFinalized

Recover ==
    \/ BeginRecover
    \/ FinalizeExpired
    \/ Replay

Next ==
    \/ Tick
    \/ \E e \in Exports : Reduce(e)
    \/ CommitLoop
    \/ FinalizeLoop
    \/ \E w \in Windows : ReadMutable(w)
    \/ ReadStore
    \/ Respond
    \/ Crash
    \/ Recover

Spec == Init /\ [][Next]_vars

\* The finalize goroutine ticks for the life of the process and the commit
\* goroutine never stops between two steps; nothing forces a query, an Export,
\* the clock or a restart.
Fairness == WF_vars(FinalizeLoop) /\ WF_vars(CommitLoop)

FairSpec == Spec /\ Fairness

-------------------------------------------------------------------------------
(* Properties.                                                             *)

WindowDeltas == [Windows -> Delta]

\* The domains of the state.
TypeOK ==
    /\ now \in Nat
    /\ status \in [Exports -> {"idle", "submitted", "acked", "failed", "lost"}]
    /\ points \in [Exports -> SUBSET Windows]
    /\ dropped \in [Exports -> SUBSET Windows]
    /\ commit \in {"idle", "planned", "durable"}
    /\ batch \in SUBSET Exports
    /\ plan \in WindowDeltas
    /\ log \in WindowDeltas /\ buckets \in WindowDeltas /\ shards \in WindowDeltas
    /\ mutable \in SUBSET Windows /\ closed \in SUBSET Windows
    /\ watermark \in Windows \cup {0}
    /\ todo \in SUBSET Windows /\ handover \in SUBSET Windows
    /\ reader \in [pc : {"idle", "memory", "answered"}, from : Nat, storeEnd : Nat,
                   rows : WindowDeltas, owed : WindowDeltas]
    /\ mode \in {"up", "down", "recovering"}
    /\ recoverNow \in Nat
    /\ straddled \in BOOLEAN
    /\ crashes \in Nat /\ failures \in Nat

\* What the store holds of Export e in window w, over both tables.
Stored(w, e) == log[w][e] + buckets[w][e]

\* An acknowledged Export is in the store exactly once for every window the plan
\* kept, whatever was finalized, refinalized, crashed or replayed since.
AckedStoredOnce ==
    \A e \in Exports : status[e] = "acked" =>
        \A w \in points[e] \ dropped[e] : Stored(w, e) = 1

\* Nothing is stored twice, and an Export answered with an error stored nothing.
NothingStoredTwice ==
    \A e \in Exports, w \in Windows :
        /\ Stored(w, e) <= 1
        /\ status[e] = "failed" => Stored(w, e) = 0

\* Commit-then-apply: the shards never hold what the store does not.
ShardsProjectStore ==
    \A w \in Windows, e \in Exports : shards[w][e] <= Stored(w, e)

\* Memory holds rows only for windows it owns, and only owned windows close.
MemoryOwnsItsRows ==
    /\ Held(shards) \subseteq mutable
    /\ closed \subseteq mutable

\* A query never counts an Export twice in a window: the memory part and the
\* store part of an answer are disjoint although they are read at two instants.
QueryCountsOnce ==
    reader.pc = "answered" =>
        \A w \in Windows, e \in Exports : reader.rows[w][e] <= 1

Complete ==
    \A w \in Windows, e \in Exports :
        w >= reader.from => reader.owed[w][e] <= reader.rows[w][e]

\* A query returns everything acknowledged before it began, as long as no
\* finalization failed and no batch was applied after its window had expired.
\* A window the closed-window cap forced out of memory is included: engine.go:29-32
\* and the metric's help text call it lost data, which it is without a store; with
\* the writer installed its rows stay in the delta log, which the store's read covers
\* (bucketSources in store_sqlite.go says so) and the next pass finalizes.
QueryComplete ==
    (reader.pc = "answered" /\ failures = 0 /\ ~straddled) => Complete

\* An expired window leaves memory: finalization hands it over, the cap evicts
\* it, or the process restarts; only a straddling batch can keep it.
ExpiredLeavesMemory ==
    \A w \in Windows :
        (w \in mutable /\ w <= FinalizeCutoff(now)) ~> (w \notin mutable \/ straddled)

\* The store only grows: a step may move an Export's contribution from the delta
\* log to the buckets, and no step loses it.
StoreNeverLoses ==
    [][\A w \in Windows, e \in Exports : Stored(w, e) <= Stored(w, e)']_vars

\* The claim of query.go's planStore, "The mutable set is a contiguous suffix by
\* construction", in the form the query relies on: whatever finalization fails,
\* an answer holds everything acknowledged before the query began.
QueryCompleteWhenFinalizeFails ==
    (reader.pc = "answered" /\ ~straddled) => Complete

\* The claim of the ownership record in engine.go, "A window is owned by memory
\* or by the store, never by both and never by neither", as a reader sees it:
\* also when a commit straddles the expiry of its window, a query returns
\* everything acknowledged before it began.
QueryCompleteWhenCommitStraddles ==
    (reader.pc = "answered" /\ failures = 0) => Complete
===============================================================================
