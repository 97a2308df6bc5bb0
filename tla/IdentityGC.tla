------------------------------ MODULE IdentityGC ------------------------------
(***************************************************************************)
(* Durable identities and their garbage collection (internal/aggregate:    *)
(* registrar.go, dict.go, gc.go, store_sqlite.go).  Exports intern names   *)
(* through a cache in front of the registrar, which mints IDs and stages   *)
(* their rows; the commit goroutine writes staged rows with the deltas     *)
(* that use them; retention deletes the last references; the collector     *)
(* marks without a lock and sweeps inside the writer's barrier; a crash    *)
(* keeps the tables and reloads the registrar from them.                   *)
(*                                                                         *)
(* One dictionary namespace stands for all, and a series is identified by  *)
(* the dictionary ID its key names.                                        *)
(***************************************************************************)
EXTENDS Integers, FiniteSets, FiniteSetsExt

CONSTANTS
    Exports,        \* reducing goroutines, one interned name each
    Values,         \* the names telemetry carries
    None,           \* no name
    MaxId,          \* bound: dictionary IDs minted
    MaxPasses,      \* bound: collection passes
    MaxCrashes      \* bound: crashes

ASSUME IdentityAssumption ==
    /\ None \notin Values
    /\ MaxId \in Nat /\ MaxPasses \in Nat /\ MaxCrashes \in Nat

VARIABLES
    pc, value, held,            \* the Exports: where they are, the name, the ID they hold
    ids, next, pending,         \* DurableRegistrar.ids, next and pending
    touched, fenced,            \* DurableRegistrar.touched and fenced
    cache, cacheFenced,         \* Cache.ids and Cache.fenced
    seriesTouched,              \* seriesRegistry.touched
    seriesPending,              \* seriesRegistry.pending
    commit, batch, drained,     \* the commit goroutine and the rows it drained
    dict, series, refs,         \* aggregate_dict; aggregate_series; series with data rows
    watermark,                  \* MetaDictWatermark
    gc,                         \* where the collector is
    snap,                       \* GCSnapshot: rows and references of one instant
    liveDict,                   \* IDs marked so far
    seriesCand, dictCand,       \* markSet.seriesCandidates and dictCandidates
    named,                      \* history: the first durable name of an ID
    raced,                      \* history: an ID was handed out too late to be rescued
    passes, crashes

exportVars == <<pc, value, held>>
regVars == <<ids, next, pending, touched, fenced>>
cacheVars == <<cache, cacheFenced>>
commitVars == <<commit, batch, drained, seriesTouched, seriesPending>>
storeVars == <<dict, series, refs, watermark, named>>
gcVars == <<gc, snap, liveDict, seriesCand, dictCand, passes>>
vars == <<exportVars, regVars, cacheVars, commitVars, storeVars, gcVars, raced, crashes>>

Ids == 1 .. MaxId
Rows(d) == {i \in Ids : d[i] # None}

NoSnap == [refs |-> {}, series |-> {}, dict |-> {}]

Init ==
    /\ pc = [e \in Exports |-> "idle"]
    /\ value = [e \in Exports |-> None]
    /\ held = [e \in Exports |-> 0]
    /\ ids = [v \in Values |-> 0] /\ next = 1
    /\ pending = {} /\ touched = {} /\ fenced = {}
    /\ cache = [v \in Values |-> 0] /\ cacheFenced = {}
    /\ seriesTouched = {} /\ seriesPending = {}
    /\ commit = "idle" /\ batch = {} /\ drained = {}
    /\ dict = [i \in Ids |-> None] /\ series = {} /\ refs = {} /\ watermark = 0
    /\ gc = "idle" /\ snap = NoSnap /\ liveDict = {} /\ seriesCand = {} /\ dictCand = {}
    /\ named = [i \in Ids |-> None]
    /\ raced = FALSE
    /\ passes = 0 /\ crashes = 0

-------------------------------------------------------------------------------
(* Interning a name.                                                       *)

\* lookupCached: a hit returns the ID unless it is fenced.
Intern(e, v) ==
    /\ pc[e] = "idle"
    /\ value' = [value EXCEPT ![e] = v]
    /\ IF cache[v] # 0 /\ cache[v] \notin cacheFenced
       THEN pc' = [pc EXCEPT ![e] = "holding"] /\ held' = [held EXCEPT ![e] = cache[v]]
       ELSE pc' = [pc EXCEPT ![e] = "missed"] /\ UNCHANGED held
    /\ UNCHANGED <<regVars, cacheVars, commitVars, storeVars, gcVars, raced, crashes>>

\* The sweep has passed Revalidate and has not fenced the candidates yet.
Decided == gc = "revalidated"

\* Register of a known name: refused while fenced, else the ID is handed out.
RegisterKnown(e) ==
    LET i == ids[value[e]]
    IN /\ pc[e] = "missed"
       /\ i # 0
       /\ IF i \in fenced
          THEN /\ pc' = [pc EXCEPT ![e] = "other"]
               /\ UNCHANGED <<held, touched, raced>>
          ELSE /\ pc' = [pc EXCEPT ![e] = "registered"]
               /\ held' = [held EXCEPT ![e] = i]
               /\ touched' = touched \cup {i}
               /\ raced' = (raced \/ (Decided /\ i \in dictCand))
       /\ UNCHANGED <<value, ids, next, pending, fenced, cacheVars, commitVars, storeVars,
                      gcVars, crashes>>

\* mintLocked: a new name gets the next ID and a staged row.
RegisterNew(e) ==
    /\ pc[e] = "missed"
    /\ ids[value[e]] = 0
    /\ next <= MaxId
    /\ pc' = [pc EXCEPT ![e] = "registered"]
    /\ held' = [held EXCEPT ![e] = next]
    /\ ids' = [ids EXCEPT ![value[e]] = next]
    /\ next' = next + 1
    /\ pending' = pending \cup {next}
    /\ touched' = touched \cup {next}
    /\ UNCHANGED <<value, fenced, cacheVars, commitVars, storeVars, gcVars, raced, crashes>>

\* The miss path stores the ID in the cache after the registrar returned it.
CacheStore(e) ==
    /\ pc[e] = "registered"
    /\ pc' = [pc EXCEPT ![e] = "holding"]
    /\ cache' = [cache EXCEPT ![value[e]] = held[e]]
    /\ UNCHANGED <<value, held, regVars, cacheFenced, commitVars, storeVars, gcVars,
                   raced, crashes>>

-------------------------------------------------------------------------------
(* The group commit.                                                       *)

InBarrier == gc \in {"revalidated", "fenced", "cacheFenced", "swept", "cacheForgotten"}

\* commit resolves the series of the batch and drains every staged row.
Drain(B) ==
    /\ commit = "idle" /\ ~InBarrier
    /\ B # {} /\ \A e \in B : pc[e] = "holding"
    /\ commit' = "drained"
    /\ batch' = B
    /\ seriesTouched' = seriesTouched \cup {held[e] : e \in B}
    /\ seriesPending' = seriesPending \cup ({held[e] : e \in B} \ series)
    /\ drained' = pending
    /\ UNCHANGED <<exportVars, regVars, cacheVars, storeVars, gcVars, raced, crashes>>

NameOf(i) == CHOOSE v \in Values : ids[v] = i

\* CommitGroup and Committed: dictionary rows, series rows, data rows and the
\* watermark in one transaction; then the drained rows are no longer staged.
CommitGroup ==
    /\ commit = "drained"
    /\ dict' = [i \in Ids |-> IF i \in drained THEN NameOf(i) ELSE dict[i]]
    /\ named' = [i \in Ids |-> IF i \in drained /\ named[i] = None THEN NameOf(i) ELSE named[i]]
    /\ series' = series \cup seriesPending
    /\ seriesPending' = {}
    /\ refs' = refs \cup {held[e] : e \in batch}
    /\ watermark' = Max({watermark} \cup {i + 1 : i \in drained})
    /\ pending' = pending \ drained
    /\ pc' = [e \in Exports |-> IF e \in batch THEN "committed" ELSE pc[e]]
    /\ commit' = "idle" /\ batch' = {} /\ drained' = {}
    /\ UNCHANGED <<value, held, ids, next, touched, fenced, cacheVars, seriesTouched, gcVars,
                   raced, crashes>>

\* A failed CommitGroup leaves the rows staged.
CommitGroupFails ==
    /\ commit = "drained"
    /\ pc' = [e \in Exports |-> IF e \in batch THEN "failed" ELSE pc[e]]
    /\ commit' = "idle" /\ batch' = {} /\ drained' = {}
    /\ UNCHANGED <<value, held, regVars, cacheVars, seriesTouched, seriesPending, storeVars,
                   gcVars, raced, crashes>>

\* Retention deletes the last data row of a series.
PurgeBefore(i) ==
    /\ i \in refs
    /\ refs' = refs \ {i}
    /\ UNCHANGED <<exportVars, regVars, cacheVars, commitVars, dict, series, watermark, named,
                   gcVars, raced, crashes>>

-------------------------------------------------------------------------------
(* The mark phase: no lock, five reads at five instants.                   *)

GCSnapshot ==
    /\ gc = "idle"
    /\ passes < MaxPasses
    /\ passes' = passes + 1
    /\ gc' = "snapshot"
    /\ snap' = [refs |-> refs, series |-> series, dict |-> Rows(dict)]
    /\ UNCHANGED <<exportVars, regVars, cacheVars, commitVars, storeVars, liveDict,
                   seriesCand, dictCand, raced, crashes>>

\* rootsLocked: the series the registry staged or handed out since the last sweep.
seriesRoots == seriesTouched \cup seriesPending

\* A series survives when data rows reference it or the registry handed it out;
\* a surviving series marks the name it is keyed by.
MarkSeries ==
    /\ gc = "snapshot"
    /\ gc' = "series"
    /\ liveDict' = snap.series \cap (snap.refs \cup seriesRoots)
    /\ seriesCand' = snap.series \ (snap.refs \cup seriesRoots)
    /\ UNCHANGED <<exportVars, regVars, cacheVars, commitVars, storeVars, snap, dictCand,
                   passes, raced, crashes>>

MarkRegistrar ==
    /\ gc = "series"
    /\ gc' = "registrar"
    /\ liveDict' = liveDict \cup pending \cup touched
    /\ UNCHANGED <<exportVars, regVars, cacheVars, commitVars, storeVars, snap, seriesCand,
                   dictCand, passes, raced, crashes>>

MarkCache ==
    /\ gc = "registrar"
    /\ gc' = "marked"
    /\ liveDict' = {}
    /\ dictCand' = snap.dict \ (liveDict \cup {cache[v] : v \in Values})
    /\ snap' = NoSnap
    /\ UNCHANGED <<exportVars, regVars, cacheVars, commitVars, storeVars, seriesCand,
                   passes, raced, crashes>>

-------------------------------------------------------------------------------
(* The sweep, inside RunBarrier: no group commit is in flight.             *)

\* Mutant of Revalidate: IDs handed out since the mark are not rescued.
RevalidateStagedOnly ==
    /\ gc = "marked"
    /\ commit = "idle"
    /\ gc' = "revalidated"
    /\ seriesCand' = seriesCand \ seriesRoots
    /\ dictCand' = dictCand \ (pending \cup (seriesCand \cap seriesRoots))
    /\ UNCHANGED <<exportVars, regVars, cacheVars, commitVars, storeVars, snap, liveDict,
                   passes, raced, crashes>>

\* Candidates handed out or staged since are rescued, and a rescued series
\* rescues its name.
Revalidate ==
    /\ gc = "marked"
    /\ commit = "idle"
    /\ gc' = "revalidated"
    /\ seriesCand' = seriesCand \ seriesRoots
    /\ dictCand' = dictCand \ (pending \cup touched \cup (seriesCand \cap seriesRoots))
    /\ UNCHANGED <<exportVars, regVars, cacheVars, commitVars, storeVars, snap, liveDict,
                   passes, raced, crashes>>

\* Nothing left to sweep: only the touched sets are reset.
ClearTouched ==
    /\ gc = "revalidated"
    /\ seriesCand = {} /\ dictCand = {}
    /\ touched' = {} /\ seriesTouched' = {}
    /\ raced' = (raced \/ \E e \in Exports : pc[e] = "registered")
    /\ gc' = "idle"
    /\ UNCHANGED <<exportVars, ids, next, pending, fenced, cacheVars, commit, batch, drained,
                   seriesPending, storeVars, snap, liveDict, seriesCand, dictCand, passes, crashes>>

Fence ==
    /\ gc = "revalidated"
    /\ seriesCand # {} \/ dictCand # {}
    /\ gc' = "fenced"
    /\ fenced' = fenced \cup dictCand
    /\ UNCHANGED <<exportVars, ids, next, pending, touched, cacheVars, commitVars, storeVars,
                   snap, liveDict, seriesCand, dictCand, passes, raced, crashes>>

FenceCache ==
    /\ gc = "fenced"
    /\ gc' = "cacheFenced"
    /\ cacheFenced' = cacheFenced \cup dictCand
    /\ UNCHANGED <<exportVars, regVars, cache, commitVars, storeVars, snap, liveDict,
                   seriesCand, dictCand, passes, raced, crashes>>

\* One transaction deletes the rows; forgetLocked drops the series.
SweepIdentities ==
    /\ gc = "cacheFenced"
    /\ gc' = "swept"
    /\ series' = series \ seriesCand
    /\ dict' = [i \in Ids |-> IF i \in dictCand THEN None ELSE dict[i]]
    /\ seriesTouched' = {}
    /\ UNCHANGED <<exportVars, regVars, cacheVars, commit, batch, drained, seriesPending,
                   refs, watermark, named, snap, liveDict, seriesCand, dictCand, passes, raced, crashes>>

\* A failed sweep releases both fences and changes nothing else.
SweepFails ==
    /\ gc = "cacheFenced"
    /\ gc' = "idle"
    /\ fenced' = {} /\ cacheFenced' = {}
    /\ seriesCand' = {} /\ dictCand' = {}
    /\ UNCHANGED <<exportVars, ids, next, pending, touched, cache, commitVars, storeVars,
                   snap, liveDict, passes, raced, crashes>>

ForgetCache ==
    /\ gc = "swept"
    /\ gc' = "cacheForgotten"
    /\ cache' = [v \in Values |-> IF cache[v] \in dictCand THEN 0 ELSE cache[v]]
    /\ cacheFenced' = {}
    /\ UNCHANGED <<exportVars, regVars, commitVars, storeVars, snap, liveDict, seriesCand,
                   dictCand, passes, raced, crashes>>

Forget ==
    /\ gc = "cacheForgotten"
    /\ gc' = "idle"
    /\ ids' = [v \in Values |-> IF ids[v] \in dictCand THEN 0 ELSE ids[v]]
    /\ fenced' = {} /\ touched' = {}
    /\ raced' = (raced \/ \E e \in Exports : pc[e] = "registered")
    /\ seriesCand' = {} /\ dictCand' = {}
    /\ UNCHANGED <<exportVars, next, pending, cacheVars, commitVars, storeVars, snap, liveDict,
                   passes, crashes>>

-------------------------------------------------------------------------------

IdWithName(v) == {i \in Ids : dict[i] = v}

\* Mutant of Crash: the next ID comes from the rows alone.
CrashSeedsFromRows ==
    /\ crashes < MaxCrashes
    /\ crashes' = crashes + 1
    /\ pc' = [e \in Exports |->
                IF pc[e] \in {"committed", "failed", "other", "idle"} THEN pc[e] ELSE "lost"]
    /\ ids' = [v \in Values |-> IF IdWithName(v) = {} THEN 0 ELSE Max(IdWithName(v))]
    /\ next' = Max({1} \cup {i + 1 : i \in Rows(dict)})
    /\ pending' = {} /\ touched' = {} /\ fenced' = {}
    /\ cache' = [v \in Values |-> 0] /\ cacheFenced' = {}
    /\ seriesTouched' = {} /\ seriesPending' = {}
    /\ commit' = "idle" /\ batch' = {} /\ drained' = {}
    /\ gc' = "idle" /\ snap' = NoSnap /\ liveDict' = {} /\ seriesCand' = {} /\ dictCand' = {}
    /\ UNCHANGED <<value, held, storeVars, passes, raced>>

\* Mutant of Crash: the next ID comes from the watermark alone.
CrashSeedsFromWatermark ==
    /\ crashes < MaxCrashes
    /\ crashes' = crashes + 1
    /\ pc' = [e \in Exports |->
                IF pc[e] \in {"committed", "failed", "other", "idle"} THEN pc[e] ELSE "lost"]
    /\ ids' = [v \in Values |-> IF IdWithName(v) = {} THEN 0 ELSE Max(IdWithName(v))]
    /\ next' = watermark
    /\ pending' = {} /\ touched' = {} /\ fenced' = {}
    /\ cache' = [v \in Values |-> 0] /\ cacheFenced' = {}
    /\ seriesTouched' = {} /\ seriesPending' = {}
    /\ commit' = "idle" /\ batch' = {} /\ drained' = {}
    /\ gc' = "idle" /\ snap' = NoSnap /\ liveDict' = {} /\ seriesCand' = {} /\ dictCand' = {}
    /\ UNCHANGED <<value, held, storeVars, passes, raced>>

\* The process dies; the registrar is warmed from the dictionary and reseeded
\* from the watermark, and the cache starts empty.
Crash ==
    /\ crashes < MaxCrashes
    /\ crashes' = crashes + 1
    /\ pc' = [e \in Exports |->
                IF pc[e] \in {"committed", "failed", "other", "idle"} THEN pc[e] ELSE "lost"]
    /\ ids' = [v \in Values |-> IF IdWithName(v) = {} THEN 0 ELSE Max(IdWithName(v))]
    /\ next' = Max({1, watermark} \cup {i + 1 : i \in Rows(dict)})
    /\ pending' = {} /\ touched' = {} /\ fenced' = {}
    /\ cache' = [v \in Values |-> 0] /\ cacheFenced' = {}
    /\ seriesTouched' = {} /\ seriesPending' = {}
    /\ commit' = "idle" /\ batch' = {} /\ drained' = {}
    /\ gc' = "idle" /\ snap' = NoSnap /\ liveDict' = {} /\ seriesCand' = {} /\ dictCand' = {}
    /\ UNCHANGED <<value, held, storeVars, passes, raced>>

Ingest(e) ==
    \/ \E v \in Values : Intern(e, v)
    \/ RegisterKnown(e)
    \/ RegisterNew(e)
    \/ CacheStore(e)

commitLoop ==
    \/ \E B \in SUBSET Exports : Drain(B)
    \/ CommitGroup
    \/ CommitGroupFails

sweepPhase ==
    \/ Revalidate
    \/ ClearTouched
    \/ Fence
    \/ FenceCache
    \/ SweepIdentities
    \/ SweepFails
    \/ ForgetCache
    \/ Forget

Collect ==
    \/ GCSnapshot
    \/ MarkSeries
    \/ MarkRegistrar
    \/ MarkCache
    \/ sweepPhase

Next ==
    \/ \E e \in Exports : Ingest(e)
    \/ commitLoop
    \/ \E i \in Ids : PurgeBefore(i)
    \/ Collect
    \/ Crash

Spec == Init /\ [][Next]_vars

-------------------------------------------------------------------------------
(* Properties.                                                             *)

\* The domains of the state.
TypeOK ==
    /\ pc \in [Exports -> {"idle", "missed", "registered", "holding", "committed", "failed",
                           "other", "lost"}]
    /\ value \in [Exports -> Values \cup {None}] /\ held \in [Exports -> Ids \cup {0}]
    /\ ids \in [Values -> Ids \cup {0}] /\ next \in 1 .. (MaxId + 1)
    /\ pending \subseteq Ids /\ touched \subseteq Ids /\ fenced \subseteq Ids
    /\ cache \in [Values -> Ids \cup {0}] /\ cacheFenced \subseteq Ids
    /\ seriesTouched \subseteq Ids /\ seriesPending \subseteq Ids
    /\ commit \in {"idle", "drained"} /\ batch \subseteq Exports /\ drained \subseteq Ids
    /\ dict \in [Ids -> Values \cup {None}] /\ named \in [Ids -> Values \cup {None}]
    /\ series \subseteq Ids /\ refs \subseteq Ids /\ watermark \in 0 .. (MaxId + 1)
    /\ gc \in {"idle", "snapshot", "series", "registrar", "marked", "revalidated", "fenced",
               "cacheFenced", "swept", "cacheForgotten"}
    /\ snap \in [refs : SUBSET Ids, series : SUBSET Ids, dict : SUBSET Ids]
    /\ liveDict \subseteq Ids /\ seriesCand \subseteq Ids /\ dictCand \subseteq Ids
    /\ raced \in BOOLEAN /\ passes \in Nat /\ crashes \in Nat

\* Every data row has its series row and every series row its dictionary row: no
\* interleaving of purge, mark, commit and sweep deletes the name of something
\* kept, or of something committed while the collector ran.  What an Export
\* committed is stored under the name it carried, as long as retention keeps it;
\* the cache hands out only IDs the registrar would; and no ID stays fenced once
\* the pass is over, also when its sweep failed.
ReferencesResolve ==
    /\ ~raced => /\ refs \subseteq series
                 /\ \A i \in series : dict[i] # None
                 /\ \A e \in Exports :
                      (pc[e] = "committed" /\ held[e] \in refs) => dict[held[e]] = value[e]
                 /\ \A v \in Values : cache[v] \in {0, ids[v]}
    /\ gc = "idle" => fenced = {} /\ cacheFenced = {}

\* A number that was durable for one name is never durable for another, across
\* sweeps of the highest ID and restarts.
IdsNeverReused == \A i \in Rows(dict) : dict[i] = named[i]

\* The claim of Revalidate's comment, "an ID a concurrent Register returned either
\* lands in touched before this runs (and survives) or blocks until the sweep has
\* decided (and gets re-minted)": no durable series row ever loses its name.
RegisteredIdsSurvive == \A i \in series : dict[i] # None
===============================================================================
