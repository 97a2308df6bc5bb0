------------------------------ MODULE MCIngest ------------------------------
(***************************************************************************)
(* Model checking of the ingest path: every behaviour belongs to one part, *)
(* chosen at the start, and the variables of the other parts keep their    *)
(* first value.  The parts do not share state, so nothing is lost.         *)
(***************************************************************************)
EXTENDS RawIngest, ExemplarPolicy, MetricsExport, Gates, Intake, SeriesLimiter,
        Baselines, TemplateMiner, TopologyProjection, Rollups

VARIABLE part

Parts == {"raw", "dead letters", "exemplars", "metrics", "gates", "intake", "limiter",
          "baselines", "templates", "topology", "rollups"}

\* Raw exports: a healthy and a priority group, and one Export too large for the queue
\* together with anything else; every mode, with the pipeline and without.
MCRqGroups ==
    [e \in {1, 2} |->
       IF e = 1 THEN <<[tenant |-> 1, prio |-> FALSE, size |-> 1], [tenant |-> 2, prio |-> TRUE, size |-> 1]>>
       ELSE <<[tenant |-> 1, prio |-> FALSE, size |-> 2]>>]
MCRqConfigs == {"legacy", "shadow", "aggregate"} \X BOOLEAN

\* Dead letters: three envelopes, one of which fills most of the directory.
MCDlBatches == {[id |-> 1, size |-> 1], [id |-> 2, size |-> 1], [id |-> 3, size |-> 2]}

\* Metrics: resources of the primary tenant "p" and of another one.
Metrics(tenant, ingest, bad, delta) ==
    [tenant |-> tenant, ingest |-> ingest, good |-> 1, bad |-> bad, delta |-> delta, bytes |-> 1]
MCMxResources ==
    <<  <<Metrics("p", TRUE, 1, FALSE), Metrics("o", TRUE, 1, FALSE)>>,
        <<Metrics("p", TRUE, 0, FALSE), Metrics("p", FALSE, 0, FALSE)>>,
        <<Metrics("p", TRUE, 0, TRUE), Metrics("o", TRUE, 0, FALSE)>>  >>
MCMxQueries ==
    {[tenant |-> t, span |-> 1, bytes |-> 1, status |-> 200, series |-> n] :
       <<t, n>> \in {<<"o", 1>>, <<"p", 1>>, <<"p", 2>>}}

\* Gates: one key of tenant "t1", the operator's key, and requests that assert another tenant.
MCGtPairs == <<[key |-> "k1", tenant |-> "t1"]>>
GtRequest(path, scheme, token, external, asserted, ip) ==
    [path |-> path, scheme |-> scheme, token |-> token, external |-> external,
     header |-> asserted, query |-> "none", resource |-> asserted, ip |-> ip]
MCGtRequests ==
         {GtRequest(p, TRUE, "k1", "none", "t2", 1) : p \in {"api", "v1", "mcp", "ws", "grpc"}}
    \cup {GtRequest(p, TRUE, "none", "t2", "t1", 1) : p \in {"api", "v1", "mcp", "ws"}}
    \cup {GtRequest("api", TRUE, "op", "none", "t1", 2), GtRequest("ws", TRUE, "op", "none", "inv", 2),
          GtRequest("v1", FALSE, "k1", "t2", "t2", 1), GtRequest("v1", TRUE, "op", "none", "none", 2),
          GtRequest("health", TRUE, "none", "none", "none", 1)}

\* Intake: failed, slow, malformed and excluded spans of two tenants, and logs.
Span(valid, err, slow, trace, events) ==
    [valid |-> valid, err |-> err, slow |-> slow, trace |-> trace, events |-> events]
Log(valid, sev) == [valid |-> valid, sev |-> sev]
MCItRequests ==
    <<[kind |-> "traces", resources |-> <<
         [name |-> "a", host |-> "none", tenant |-> 1,
          records |-> <<Span(TRUE, TRUE, FALSE, 1, {"ERROR"}), Span(TRUE, FALSE, FALSE, 1, {"INFO"})>>],
         [name |-> "none", host |-> "h", tenant |-> 1,
          records |-> <<Span(FALSE, FALSE, FALSE, 2, {}), Span(TRUE, FALSE, FALSE, 2, {"ERROR"})>>],
         [name |-> "x", host |-> "none", tenant |-> 2, records |-> <<Span(TRUE, TRUE, FALSE, 3, {})>>],
         [name |-> "a", host |-> "none", tenant |-> 2, records |-> <<Span(TRUE, FALSE, TRUE, 3, {})>>]>>],
      [kind |-> "logs", resources |-> <<
         [name |-> "a", host |-> "none", tenant |-> 1,
          records |-> <<Log(TRUE, "ERROR"), Log(TRUE, "DEBUG"), Log(FALSE, "INFO")>>],
         [name |-> "none", host |-> "none", tenant |-> 1, records |-> <<Log(TRUE, "INFO")>>]>>]>>
MCItHostEntity(h) == "host:h"

\* Limiter: names and dimensions past every cap, in two tenants and signals.
SeriesOf(t, sg, n, d) == [tenant |-> t, service |-> 1, signal |-> sg, name |-> n, dims |-> d, status |-> 0]
MCLmKeys == {SeriesOf(1, "trace", 1, 1), SeriesOf(1, "trace", 1, 2), SeriesOf(1, "trace", 2, 1),
             SeriesOf(1, "metric", 1, 1), SeriesOf(2, "trace", 1, 1)}
MCSignalCap == [s \in {"trace", "metric"} |-> IF s = "trace" THEN 2 ELSE 1]
MCNameCap == [s \in {"trace", "metric"} |-> IF s = "trace" THEN 1 ELSE 0]

\* Baselines: two exports of one producer and one of another, past the producer cap.
MCBlProducer == <<1, 1, 2>>

\* Templates: one line whose dictionary value is too long.
MCTmLong == {<<"a", "y">>}

\* Topology: a second operation, limited identities, and windows that are pruned.
Fact(k, b, w, limited) == [kind |-> k, a |-> "s", b |-> b, window |-> w, limited |-> limited]
MCTpTenant == <<1, 1, 1>>
MCTpFacts == <<{Fact("trace", "x", 1, FALSE), Fact("metric", "x", 1, FALSE)},
               {Fact("trace", "y", 2, TRUE), Fact("edge", "y", 1, FALSE)},
               {Fact("trace", "x", 3, FALSE), Fact("log", "x", 3, TRUE)}>>

\* Rollups: two binaries of different schema versions, one of which knows the derived tables.
MCRuVersion == <<1, 2>>
MCRuService == <<1, 2>>

-----------------------------------------------------------------------------
ingestVars == <<part, rawVars, dlAccepted, exVars, mxVars, gtVars, itVars, lmVars, blVars, tmVars, tpVars, ruVars>>

\* A part that does not run starts in one state only.
Pinned ==
    /\ part # "raw" => rqMode = "legacy" /\ ~rqAsync
    /\ part # "metrics" => mxRequired = TRUE
    /\ part # "intake" => itPolicy = "sampler"

MCInit ==
    /\ part \in Parts
    /\ RawInit /\ dlAccepted = {}
    /\ ExInit /\ MxInit /\ GtInit /\ ItInit /\ LmInit /\ BlInit /\ TmInit /\ TpInit
    /\ RuInit
    /\ Pinned

Others(p) ==
    /\ part = p /\ UNCHANGED part
    /\ p \notin {"raw", "dead letters"} => UNCHANGED <<rawVars, dlAccepted>>
    /\ p # "exemplars" => UNCHANGED exVars
    /\ p # "metrics" => UNCHANGED mxVars
    /\ p # "gates" => UNCHANGED gtVars
    /\ p # "intake" => UNCHANGED itVars
    /\ p # "limiter" => UNCHANGED lmVars
    /\ p # "baselines" => UNCHANGED blVars
    /\ p # "templates" => UNCHANGED tmVars
    /\ p # "topology" => UNCHANGED tpVars
    /\ p # "rollups" => UNCHANGED ruVars

\* Bound: in a behaviour of the raw path one Export is retried (in shadow mode the one of a
\* single group), or a worker panics (in shadow mode), or the watchdog reaches raw_off (in
\* aggregate mode).
OneDisturbance ==
    /\ rqAttempt[1] + rqAttempt[2] + plPanics + (IF rqShed THEN 1 ELSE 0) <= 3
    /\ plPanics > 0 => rqMode = "shadow"
    /\ rqAttempt[IF rqMode = "shadow" THEN 1 ELSE 2] = 1

\* Bound: the counter of one producer moves twice and the other, past the cap, does not.  Two
\* exports meet a failure, a restart or a refusal, or a failure and one of the others; a
\* refusal meets the exports of the first producer.
OneMoves ==
    /\ blSource[2].ts = 1 /\ blSource[1].grown <= 2
    /\ blCrashes + blRefusals <= 1
    /\ blRefusals > 0 => blExport[3] = "new"
    /\ blFails + blCrashes > 0 => "new" \in {blExport[2], blExport[3]}

\* Bound: a process purges alone and before the store is rebuilt; the more often it was
\* rebuilt, the fewer builds are claimed; one process is left for the third.
OneStoreGrows ==
    /\ ruPurge[2].at = "no"
    /\ ruPurge[1].at # "no" => ruProc[2].pc = "down" /\ ruCount.stores = 1
    /\ ruCount.stores + ruCount.tokens <= 4
    /\ ruCount.tokens = 3 => ruProc[2].pc = "down"

MCNext ==
    \/ Others("raw") /\ RawNext /\ OneDisturbance' /\ UNCHANGED dlAccepted
    \/ Others("dead letters") /\ DlNext /\ UNCHANGED <<rqVars, plVars>>
    \/ Others("exemplars") /\ ExNext
    \/ Others("metrics") /\ MxNext
    \/ Others("gates") /\ GtNext
    \/ Others("intake") /\ ItNext
    \/ Others("limiter") /\ LmNext
    \/ Others("baselines") /\ BlNext /\ OneMoves'
    \/ Others("templates") /\ TmNext
    \/ Others("topology") /\ TpNext
    \/ Others("rollups") /\ RuNext /\ OneStoreGrows'

MCSpec == MCInit /\ [][MCNext]_ingestVars

\* Type correctness of every part.
IngestTypeOK ==
    /\ part \in Parts
    /\ part \in {"raw", "dead letters"} => RawTypeOK
    /\ part = "exemplars" => ExTypeOK
    /\ part = "metrics" => MxTypeOK
    /\ part = "gates" => GtTypeOK
    /\ part = "intake" => ItTypeOK
    /\ part = "limiter" => LmTypeOK
    /\ part = "baselines" => BlTypeOK
    /\ part = "templates" => TmTypeOK
    /\ part = "topology" => TpTypeOK
    /\ part = "rollups" => RuTypeOK
=============================================================================
