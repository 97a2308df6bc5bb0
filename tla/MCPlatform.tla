----------------------------- MODULE MCPlatform -----------------------------
(***************************************************************************)
(* Model checking of the raw tier and of what a process starts, serves and *)
(* stops.  Every behaviour belongs to one part, chosen at the start, and   *)
(* the variables of the other parts keep their first value.  The parts do  *)
(* not share state, so nothing is lost.                                    *)
(***************************************************************************)
EXTENDS RawStorage, Tsdb, GraphRag, Hub, EventHub, Migrate, Backup

VARIABLE part

Parts == {"rows", "partitions", "ladder", "tsdb", "graphrag", "hub", "events", "migrate", "backup"}
StorageParts == {"rows", "partitions", "ladder"}

\* The same trace identity in two tenants; volumes past each threshold.
MCRsKeys == {<<1, 1>>, <<2, 1>>}
MCRsVolumes == {[total |-> 100, avail |-> a] : a \in {3, 12, 50}}

\* Hub: one client per tenant.  Event hub: a scoped client and an unscoped one.
MCHbTenant == <<1, 2>>
MCEhTenant == <<1, 0>>

\* Two migrating processes and the startup gate, or one and two baselines.
MCMgRole(p) == <<"up", "up", "gate", "baseline", "baseline">>[p]
MCMgIdle == {{2, 3}, {4, 5}}

-----------------------------------------------------------------------------
platformVars == <<part, rsVars, tsVars, grVars, hbVars, ehVars, mgVars, bkVars>>

\* A part that does not run starts in one state only.
Pinned ==
    /\ rsDriver = IF part = "partitions" THEN "partitioned" ELSE rsDriver
    /\ part = "rows" => rsDriver \in {"sqlite", "postgres"}
    /\ part \notin {"rows", "partitions"} => rsDriver = "sqlite"
    /\ part # "graphrag" => grMode = "legacy"
    /\ part # "hub" => hbMode = "legacy"
    /\ part # "events" => ehMode = "legacy"
    /\ part # "migrate" => mgFrom = "managed" /\ mgSchema = 0
    /\ part # "backup" => bkConfig = [adapter |-> "sqlite", tls |-> FALSE, mode |-> "legacy"]

MCInit ==
    /\ part \in Parts
    /\ RsInit /\ TsInit /\ GrInit /\ HbInit /\ EhInit /\ BkInit
    /\ \E idle \in MCMgIdle :
         /\ MgInitWith([p \in MgProcs |-> IF p \in idle THEN [Fresh EXCEPT !.pc = "dead"] ELSE Fresh])
         /\ part # "migrate" => 4 \in idle
    /\ Pinned

Others(p) ==
    /\ part = p /\ UNCHANGED part
    /\ p \notin StorageParts => UNCHANGED rsVars
    /\ p # "tsdb" => UNCHANGED tsVars
    /\ p # "graphrag" => UNCHANGED grVars
    /\ p # "hub" => UNCHANGED hbVars
    /\ p # "events" => UNCHANGED ehVars
    /\ p # "migrate" => UNCHANGED mgVars
    /\ p # "backup" => UNCHANGED bkVars

\* Bound: rows on a plain table meet the two extreme samples, partitions no sample, and
\* the ladder no rows.
FewRows ==
    /\ rsUsed \in {0, 96} /\ rsRatio \in {0, 97}
    /\ rsNow <= 5
    /\ rsInserted <= IF rsDriver = "sqlite" THEN 2 ELSE 1
    /\ rsRows["promql"] = {} /\ rsRows["metric_buckets"] = {}
    /\ rsCancelled => rsInserted = 1
FewPartitioned == rsInserted <= 1 /\ rsRatio = 0
NoRows == rsInserted = 0 /\ rsNow = 2 * RsTicksPerDay

\* Bound: ring windows move only before the loop runs, for one series.
RingsStill == \A k \in DOMAIN tsRings : tsRings[k].start = 0
RingMoves == /\ tsRun = "new" /\ tsShut = "no"
             /\ DOMAIN tsRings \subseteq {SeriesKey(1, 1)}
             /\ \E w, now \in 0 .. TsMaxWindow : Ingest(1, 1, w, now)

\* Bound: one create; two binaries and the TLS pair in aggregate mode only.
FewConfigs ==
    /\ bkCount.creates <= 1
    /\ bkConfig.mode # "aggregate" => ~ bkConfig.tls /\ bkRuntime.cand \in {0, 1}

\* Bound: rows of the table and events do not meet.
RowsOrEvents ==
    /\ grCount.rows > 0 => grCount.events = 0 /\ grShut = "no" /\ grMode = "legacy"
    /\ grCount.events > 0 => grNow <= 3

\* Bound: one client in legacy mode, which filters by service; two without a filter
\* in aggregate mode.
FewScopes ==
    IF ehMode = "legacy" THEN ehHandler[2] = "out" ELSE ehService = [c \in EhClients |-> 0]

MCNext ==
    \/ Others("rows") /\ RsNext /\ FewRows'
    \/ Others("partitions") /\ RsNext /\ FewPartitioned'
    \/ Others("ladder") /\ RsNext /\ NoRows'
    \/ Others("tsdb") /\ TsNext /\ RingsStill'
    \/ Others("tsdb") /\ RingMoves
    \/ Others("graphrag") /\ GrNext /\ RowsOrEvents'
    \/ Others("hub") /\ HbNext
    \/ Others("events") /\ EhNext /\ FewScopes'
    \/ Others("migrate") /\ MgNext
    \/ Others("backup") /\ BkNext /\ FewConfigs'

MCSpec == MCInit /\ [][MCNext]_platformVars

\* Type correctness of every part.
PlatformTypeOK ==
    /\ part \in Parts
    /\ part \in StorageParts => RsTypeOK
    /\ part = "tsdb" => TsTypeOK
    /\ part = "graphrag" => GrTypeOK
    /\ part = "hub" => HbTypeOK
    /\ part = "events" => EhTypeOK
    /\ part = "migrate" => MgTypeOK
    /\ part = "backup" => BkTypeOK
=============================================================================
