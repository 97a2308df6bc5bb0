------------------------------ MODULE GraphRag ------------------------------
(***************************************************************************)
(* The in-memory graph of the raw modes (internal/graphrag): the event     *)
(* channel and its workers, the stores of every tenant, the refresh loop   *)
(* that merges the spans table into them, the eviction of idle tenants,    *)
(* the mined log templates and the shutdown barrier.                       *)
(*                                                                         *)
(* Time counts ticks.  The spans table is a number of rows per start time; *)
(* what a merged row adds to a service, an operation or an edge is left    *)
(* out, only which rows were merged is kept.  The tree of the template     *)
(* miner is left out: a log line is its template.                          *)
(***************************************************************************)
EXTENDS Integers, Sequences, FiniteSets, FiniteSetsExt

CONSTANTS
  GrTenants, GrDefault,  \* tenants; the one that is never evicted
  GrWorkers,             \* event workers
  GrChannel,             \* ChannelSize
  GrMaxSpans,            \* MaxSpansPerTenant
  GrClusterCap,          \* maxLogClustersPerTenant
  GrWindow,              \* the hour a fresh slice reads
  GrOverlap,             \* rebuildOverlap
  GrLimit,               \* rebuildRowLimit
  GrIdle,                \* tenantIdleTTL
  GrLate,                \* bound: how late a row reaches the table
  GrMaxTime, GrMaxRows, GrMaxEvents    \* bounds

ASSUME GrAssumption ==
  /\ GrDefault \in GrTenants
  /\ GrWorkers # {}
  /\ GrLate \in Nat /\ GrOverlap \in Nat /\ GrLate < GrOverlap

VARIABLES
  grMode,     \* "legacy", "aggregate-shadow" or "aggregate"
  grNow,
  grTable,    \* tenant -> start time -> rows of the spans table
  grStore,    \* tenant -> its slice, or NoSlice
  grChan,     \* eventCh
  grWorker,   \* worker -> [pc, ev, gen]
  grClosed,   \* the admission is closed and stopCh with it
  grCancel,   \* the context of the workers is cancelled
  grError,    \* shutdownErr was recorded
  grShut,     \* Shutdown: "no", "waiting", "nil", "error" or "deadline"
  grMined,    \* templates the shared miner knows
  grSaved,    \* templates in the table
  grDropped,  \* events and spans dropped and counted
  grCount,    \* [events, rows, gens] so far
  grAdmitted, grApplied,  \* history: events sent, and processed to the end
  grStalled   \* history: tenants whose tick after a full page did not move on

grVars == <<grMode, grNow, grTable, grStore, grChan, grWorker, grClosed,
            grCancel, grError, grShut, grMined, grSaved, grDropped, grCount,
            grAdmitted, grApplied, grStalled>>
grGraph == <<grTable, grStore, grStalled>>
grQueue == <<grChan, grWorker, grAdmitted, grApplied, grDropped>>
grLife == <<grMode, grClosed, grCancel, grShut, grSaved>>

Times == 1 .. GrMaxTime
NoSlice == [gen |-> 0, access |-> 0, hwm |-> 0, merged |-> [s \in Times |-> 0],
            spans |-> {}, clusters |-> {}, full |-> FALSE]
Slice(gen) == [NoSlice EXCEPT !.gen = gen, !.access = grNow]
NoEvent == [id |-> 0, kind |-> "none", tenant |-> GrDefault]
IdleWorker == [pc |-> "idle", ev |-> NoEvent, gen |-> 0]

\* New: the default tenant has its slice, and the templates of the table are
\* loaded, none at first.
GrInit ==
  /\ grMode \in {"legacy", "aggregate-shadow", "aggregate"}
  /\ grNow = 1
  /\ grTable = [t \in GrTenants |-> [s \in Times |-> 0]]
  /\ grStore = [t \in GrTenants |->
                  IF t = GrDefault THEN [NoSlice EXCEPT !.gen = 1, !.access = 1] ELSE NoSlice]
  /\ grChan = <<>> /\ grWorker = [w \in GrWorkers |-> IdleWorker]
  /\ grClosed = FALSE /\ grCancel = FALSE /\ grError = FALSE /\ grShut = "no"
  /\ grMined = {} /\ grSaved = {} /\ grDropped = 0
  /\ grCount = [events |-> 0, rows |-> 0, gens |-> 1]
  /\ grAdmitted = {} /\ grApplied = {} /\ grStalled = {}

AggregateMode == grMode = "aggregate"
externalTemplates == grMode # "legacy"

Tick ==
  /\ grNow < GrMaxTime /\ grNow' = grNow + 1
  /\ UNCHANGED <<grGraph, grQueue, grLife, grError, grMined, grCount>>

(* --------------------------- events and workers ------------------------- *)

\* Mutant: the closed admission is not looked at.
AdmitsAlways == TRUE

\* enqueueEvent looks at closed under the admission lock.
Admits == ~grClosed

\* A span, log, metric or template fact is ingested; a full channel drops it.
Enqueue(kind, t) ==
  /\ grCount.events < GrMaxEvents /\ Admits
  /\ LET id == grCount.events + 1 IN
     /\ grCount' = [grCount EXCEPT !.events = id]
     /\ IF Len(grChan) < GrChannel
        THEN /\ grChan' = Append(grChan, [id |-> id, kind |-> kind, tenant |-> t])
             /\ grAdmitted' = grAdmitted \cup {id}
             /\ UNCHANGED grDropped
        ELSE /\ grDropped' = grDropped + 1
             /\ UNCHANGED <<grChan, grAdmitted>>
  /\ UNCHANGED <<grNow, grGraph, grWorker, grApplied, grLife, grError, grMined>>

SetWorker(w, f) == grWorker' = [grWorker EXCEPT ![w] = f]

\* tenantStoresNoTouch: the tenant's slice, created when there is none.
SliceOf(t) == IF grStore[t].gen = 0 THEN Slice(grCount.gens + 1) ELSE grStore[t]
Generations(t) == [grCount EXCEPT !.gens = IF grStore[t].gen = 0 THEN @ + 1 ELSE @]

\* A worker receives an event and looks its tenant's slice up.
Receive(w) ==
  /\ grWorker[w].pc = "idle" /\ grChan # <<>>
  /\ LET ev == Head(grChan) IN
     /\ grStore' = [grStore EXCEPT ![ev.tenant] = [SliceOf(ev.tenant) EXCEPT !.access = grNow]]
     /\ grCount' = Generations(ev.tenant)
     /\ SetWorker(w, [pc |-> "busy", ev |-> ev, gen |-> SliceOf(ev.tenant).gen])
  /\ grChan' = Tail(grChan)
  /\ UNCHANGED <<grNow, grTable, grStalled, grAdmitted, grApplied, grDropped,
                 grLife, grError, grMined>>

Finish(w, ev) ==
  /\ SetWorker(w, IdleWorker)
  /\ grApplied' = grApplied \cup {ev.id}

\* The slice the worker holds, when it is still the tenant's; updates of a slice
\* evicted in between go with it.
Held(w) == grStore[grWorker[w].ev.tenant].gen = grWorker[w].gen

\* UpsertSpan: a new span over the cap is skipped.
AtSpanCap(s) == Cardinality(s.spans) >= GrMaxSpans
UpsertSpan(s, ev) ==
  IF AtSpanCap(s) THEN s ELSE [s EXCEPT !.spans = @ \cup {[id |-> ev.id, at |-> grNow]}]

\* processSpan: the skipped span is counted.
ProcessSpan(w) ==
  LET ev == grWorker[w].ev
      s  == grStore[ev.tenant]
  IN  /\ grWorker[w].pc = "busy" /\ ev.kind = "span"
      /\ Finish(w, ev)
      /\ grStore' = IF Held(w) THEN [grStore EXCEPT ![ev.tenant] = UpsertSpan(s, ev)] ELSE grStore
      /\ grDropped' = IF Held(w) /\ AtSpanCap(s) THEN grDropped + 1 ELSE grDropped
      /\ UNCHANGED <<grNow, grTable, grStalled, grChan, grAdmitted, grLife,
                     grError, grMined, grCount>>

UpsertLogCluster(s, ev) == [s EXCEPT !.clusters = @ \cup {[id |-> ev.id, at |-> grNow]}]

\* processLog mines the line; processTemplateFact takes a template that the
\* ingest's miner found.
ProcessLog(w) ==
  LET ev == grWorker[w].ev IN
  /\ grWorker[w].pc = "busy" /\ ev.kind = "log"
  /\ Finish(w, ev)
  /\ grMined' = IF externalTemplates THEN grMined ELSE grMined \cup {ev.id}
  /\ grStore' = IF Held(w) THEN [grStore EXCEPT ![ev.tenant] = UpsertLogCluster(@, ev)] ELSE grStore
  /\ UNCHANGED <<grNow, grTable, grStalled, grChan, grAdmitted, grDropped,
                 grLife, grError, grCount>>

\* A worker panics on an event: guardWorker records it, the worker is gone.
WorkerPanics(w) ==
  /\ grWorker[w].pc = "busy"
  /\ SetWorker(w, [IdleWorker EXCEPT !.pc = "gone"])
  /\ grError' = TRUE
  /\ UNCHANGED <<grNow, grGraph, grChan, grAdmitted, grApplied, grDropped,
                 grLife, grMined, grCount>>

\* Mutant: stopCh ends a worker at once.
DrainedAlways == TRUE

\* After stopCh a worker receives until the channel is empty.
Drained == grChan = <<>>

WorkerStops(w) ==
  /\ grWorker[w].pc = "idle" /\ grClosed /\ Drained
  /\ SetWorker(w, [IdleWorker EXCEPT !.pc = "gone"])
  /\ UNCHANGED <<grNow, grGraph, grChan, grAdmitted, grApplied, grDropped,
                 grLife, grError, grMined, grCount>>

\* A cancelled context ends a worker whatever the channel holds, which is an
\* error.
WorkerCancelled(w) ==
  /\ grWorker[w].pc = "idle" /\ grCancel
  /\ SetWorker(w, [IdleWorker EXCEPT !.pc = "gone"])
  /\ grError' = TRUE
  /\ UNCHANGED <<grNow, grGraph, grChan, grAdmitted, grApplied, grDropped,
                 grLife, grMined, grCount>>

(* ---------------------------- the refresh loop -------------------------- *)

\* A row reaches the spans table, up to GrLate after its start.
StoreRow(t, s) ==
  /\ grCount.rows < GrMaxRows /\ s \in Times /\ s <= grNow /\ grNow - s <= GrLate
  /\ grTable' = [grTable EXCEPT ![t][s] = @ + 1]
  /\ grCount' = [grCount EXCEPT !.rows = @ + 1]
  /\ UNCHANGED <<grNow, grStore, grStalled, grQueue, grLife, grError, grMined>>

\* From where a tick reads: the mark less the overlap, at most an hour back.
incrementalSince(s) ==
  IF s.hwm # 0 THEN Max({s.hwm - GrOverlap, grNow - GrWindow}) ELSE grNow - GrWindow

RowsUpTo(rows, since, s) ==
  MapThenSumSet(LAMBDA x : rows[x], {x \in Times : x > since /\ x <= s})

\* The page of a tick: the oldest GrLimit rows after since, by start time.
Page(rows, since) ==
  [s \in Times |-> IF s <= since THEN 0
                   ELSE Max({0, Min({rows[s], GrLimit - RowsUpTo(rows, since, s - 1)})})]

\* rebuildFromDBForTenant: the page is merged into the slice, which is created if
\* need be, and the mark moves to the last row.
Rebuild(t) ==
  /\ ~AggregateMode /\ ~grClosed
  /\ grStore[t].gen # 0 \/ \E s \in Times : s > grNow - GrWindow /\ grTable[t][s] > 0
  /\ LET old   == SliceOf(t)
         page  == Page(grTable[t], incrementalSince(old))
         read  == {s \in Times : page[s] > 0}
         hwm   == IF read = {} THEN old.hwm ELSE Max({old.hwm, Max(read)})
         newer == \E s \in Times : s > old.hwm /\ grTable[t][s] > 0
     IN  /\ grStore' = [grStore EXCEPT ![t] =
              [old EXCEPT !.hwm = hwm,
                          !.merged = [s \in Times |-> Max({@[s], page[s]})],
                          !.full = MapThenSumSet(LAMBDA s : page[s], Times) = GrLimit]]
         /\ grCount' = Generations(t)
         /\ grStalled' = IF old.full /\ newer /\ hwm = old.hwm
                         THEN grStalled \cup {t} ELSE grStalled
  /\ UNCHANGED <<grNow, grTable, grQueue, grLife, grError, grMined>>

\* What is left of aged entries when the newest cap of them stay.
Capped(entries, cap) ==
  {e \in entries : Cardinality({f \in entries : f.at > e.at}) < cap}

\* The prunes of a tick: spans past the trace TTL, clusters past the cap.
Prune(t) ==
  /\ grStore[t].gen # 0 /\ ~grClosed
  /\ grStore' = [grStore EXCEPT
       ![t].spans = {x \in @ : x.at > grNow - GrWindow},
       ![t].clusters = Capped(@, GrClusterCap)]
  /\ grStore' # grStore
  /\ UNCHANGED <<grNow, grTable, grStalled, grQueue, grLife, grError, grMined, grCount>>

\* evictIdleTenants.
Evict(t) ==
  /\ t # GrDefault /\ grStore[t].gen # 0 /\ ~grClosed
  /\ grStore[t].access < grNow - GrIdle
  /\ grStore' = [grStore EXCEPT ![t] = NoSlice]
  /\ UNCHANGED <<grNow, grTable, grStalled, grQueue, grLife, grError, grMined, grCount>>

\* snapshotLoop saves the templates; an error is logged.
PersistTemplates ==
  /\ ~grClosed /\ grSaved # grMined
  /\ grSaved' = grMined
  /\ UNCHANGED <<grMode, grNow, grGraph, grQueue, grClosed, grCancel, grShut,
                 grError, grMined, grCount>>

(* ------------------------------- shutdown ------------------------------- *)

Shutdown ==
  /\ grShut = "no" /\ grShut' = "waiting"
  /\ grClosed' = TRUE
  /\ UNCHANGED <<grMode, grNow, grGraph, grQueue, grCancel, grSaved, grError,
                 grMined, grCount>>

WorkersDone == \A w \in GrWorkers : grWorker[w].pc = "gone"

\* SaveDrainTemplates: all of them, or the error of the database.
SaveDrainTemplates(ok) ==
  /\ ~ok => grMined # {}
  /\ grSaved' = IF ok THEN grMined ELSE grSaved

\* workersDone: the final templates are saved, and the first error returned.
ShutdownReturns ==
  /\ grShut = "waiting" /\ WorkersDone
  /\ \E ok \in BOOLEAN :
       /\ SaveDrainTemplates(ok)
       /\ grError' = (grError \/ ~ok)
       /\ grShut' = IF grError' THEN "error" ELSE "nil"
  /\ UNCHANGED <<grMode, grNow, grGraph, grQueue, grClosed, grCancel, grMined, grCount>>

\* The shutdown's context is spent first; then main cancels the workers.
ShutdownDeadline ==
  /\ grShut = "waiting"
  /\ grShut' = "deadline" /\ grCancel' = TRUE
  /\ UNCHANGED <<grMode, grNow, grGraph, grQueue, grClosed, grSaved, grError,
                 grMined, grCount>>

GrNext ==
  \/ Tick \/ Shutdown \/ ShutdownReturns \/ ShutdownDeadline \/ PersistTemplates
  \/ \E t \in GrTenants : \/ \E kind \in {"span", "log"} : Enqueue(kind, t)
                          \/ \E s \in Times : StoreRow(t, s)
                          \/ Rebuild(t) \/ Prune(t) \/ Evict(t)
  \/ \E w \in GrWorkers : \/ Receive(w) \/ ProcessSpan(w) \/ ProcessLog(w)
                          \/ WorkerPanics(w) \/ WorkerStops(w) \/ WorkerCancelled(w)

GrSpec == GrInit /\ [][GrNext]_grVars

\* Type correctness.
GrTypeOK ==
  /\ grMode \in {"legacy", "aggregate-shadow", "aggregate"}
  /\ grNow \in Times /\ grTable \in [GrTenants -> [Times -> Nat]]
  /\ \A t \in GrTenants :
       /\ grStore[t].gen \in 0 .. grCount.gens /\ grStore[t].access \in 0 .. grNow
       /\ grStore[t].hwm \in 0 .. GrMaxTime /\ grStore[t].merged \in [Times -> Nat]
       /\ Cardinality(grStore[t].spans) <= GrMaxSpans
  /\ Len(grChan) <= GrChannel
  /\ grClosed \in BOOLEAN /\ grCancel \in BOOLEAN /\ grError \in BOOLEAN
  /\ grShut \in {"no", "waiting", "nil", "error", "deadline"}
  /\ grApplied \subseteq grAdmitted /\ grStalled \subseteq GrTenants

(***************************************************************************)
(* A shutdown that returns without an error has processed every event that *)
(* was admitted, and saved every template they taught the miner, however   *)
(* the ingest, the workers and the barrier interleave.                     *)
(***************************************************************************)
ShutdownProcessedAll ==
  grShut = "nil" => grApplied = grAdmitted /\ grChan = <<>> /\ grSaved = grMined

(***************************************************************************)
(* The lag of a full page ends with the next tick: the tick after it moves *)
(* on to rows that are newer than the mark, while there are any            *)
(* (refresh.go:25, "topology lags until the next tick").                   *)
(***************************************************************************)
LagEndsNextTick == grStalled = {}

=============================================================================
