---------------------------- MODULE MetricsExport ----------------------------
(***************************************************************************)
(* MetricsServer.Export (internal/ingest/otlp.go) and the bounded client   *)
(* of the Prometheus backend it forwards to (internal/prometheus/client.go)*)
(*                                                                         *)
(* The resources of the backend's tenant are forwarded first; the answer   *)
(* decides which resources the local aggregate still owes an account of.   *)
(* A forwarded request may be applied by the backend although its response *)
(* is lost.  The client retries every retryable failure.                   *)
(***************************************************************************)
EXTENDS Naturals, FiniteSets, FiniteSetsExt, Sequences

CONSTANTS
    MxExporters,        \* OTLP clients, one Export each
    MxResources,        \* exporter -> sequence of [tenant, ingest, good, bad, delta, bytes]
    MxReaders,          \* callers of the query API
    MxQueries,          \* [tenant, span, bytes, status, series]: a query and its upstream result
    MxPromTenant,       \* Client.TenantID()
    MxHasClient,        \* a backend is configured
    MxRequiredModes,    \* values of PrometheusRequired explored
    MxMaxConcurrent, MxMaxIngest, MxMaxWaiters,     \* admission limits of the client
    MxMaxBytes, MxMaxRequestBytes, MxMaxQueryBytes, MxMaxRange, MxMaxSeries,
    MxMaxAttempts       \* bound: deliveries of one Export

VARIABLES
    mxRequired,         \* SetPrometheusClient(client, required)
    mxPc, mxAttempt,
    mxAck, mxAll,       \* acknowledged and allForwarded of Export
    mxUpRejected,       \* points the backend refused in this attempt
    mxUpstream,         \* the backend (external) accepted this attempt's forward
    mxPartial,          \* the backend's answer was partial: its resources skip the local path
    mxResp,             \* last response
    mxLocal,            \* exporter, resource -> times the local aggregate counted it
    mxQuery             \* reader -> "idle", "running" or the status it got

mxVars == <<mxRequired, mxPc, mxAttempt, mxAck, mxAll, mxUpRejected, mxPartial, mxUpstream, mxResp, mxLocal, mxQuery>>

Indexes(e) == DOMAIN MxResources[e]
Ingested(e) == {i \in Indexes(e) : MxResources[e][i].ingest}
Forward(e) == {i \in Ingested(e) : MxHasClient /\ MxResources[e][i].tenant = MxPromTenant}
Goods(e) == [i \in Indexes(e) |-> MxResources[e][i].good]
Bads(e) == [i \in Indexes(e) |-> MxResources[e][i].bad]
Good(e, is) == MapThenSumSet(LAMBDA i : Goods(e)[i], is)
Bad(e, is) == MapThenSumSet(LAMBDA i : Bads(e)[i], is)
Points(e, is) == Good(e, is) + Bad(e, is)
Bytes(e) == [i \in Indexes(e) |-> MxResources[e][i].bytes]
RequestBytes(e) == MapThenSumSet(LAMBDA i : Bytes(e)[i], Forward(e))

\* A request has finitely many resources, each with its numbers of points and bytes.
ASSUME MxAssumption ==
    \A e \in MxExporters :
        /\ IsFiniteSet(Indexes(e))
        /\ \A i \in Indexes(e) : MxResources[e][i].good \in Nat /\ MxResources[e][i].bad \in Nat
                                /\ MxResources[e][i].bytes \in Nat

\* Callers are finitely many and limits are numbers.
ASSUME MxLimits ==
    /\ IsFiniteSet(MxExporters) /\ IsFiniteSet(MxReaders)
    /\ {MxMaxConcurrent, MxMaxIngest, MxMaxWaiters, MxMaxBytes} \subseteq Nat
    /\ MxMaxAttempts \in Nat \ {0}

None == [code |-> "none", rejected |-> 0]
Answer(e, c, n) ==
    /\ mxResp' = [mxResp EXCEPT ![e] = [code |-> c, rejected |-> n]]
    /\ mxPc' = [mxPc EXCEPT ![e] = "answered"]
MxGoto(e, l) == mxPc' = [mxPc EXCEPT ![e] = l]

\* The three admission budgets of the client, as the calls in flight hold them.
MxSending == {e \in MxExporters : mxPc[e] = "sent"}
Waiting == {e \in MxExporters : mxPc[e] = "waiting"}
HeldBytes ==
    LET bytes == [e \in MxExporters |-> RequestBytes(e)]
    IN  MapThenSumSet(LAMBDA e : bytes[e], MxSending \cup Waiting)

MxInit ==
    /\ mxRequired \in MxRequiredModes
    /\ mxPc = [e \in MxExporters |-> "idle"]
    /\ mxAttempt = [e \in MxExporters |-> 1]
    /\ mxAck = [e \in MxExporters |-> {}]
    /\ mxAll = [e \in MxExporters |-> FALSE]
    /\ mxUpRejected = [e \in MxExporters |-> 0]
    /\ mxPartial = [e \in MxExporters |-> FALSE]
    /\ mxUpstream = [e \in MxExporters |-> FALSE]
    /\ mxResp = [e \in MxExporters |-> None]
    /\ mxLocal = [e \in MxExporters |-> [i \in Indexes(e) |-> 0]]
    /\ mxQuery = [r \in MxReaders |-> "idle"]

\* Export up to the forward: nothing to forward is the plain local path.
Split(e) ==
    /\ mxPc[e] = "idle"
    /\ mxAck' = [mxAck EXCEPT ![e] = Forward(e)]
    /\ mxAll' = [mxAll EXCEPT ![e] = Forward(e) # {} /\ Forward(e) = Ingested(e)]
    /\ mxUpRejected' = [mxUpRejected EXCEPT ![e] = 0]
    /\ mxPartial' = [mxPartial EXCEPT ![e] = FALSE]
    /\ mxUpstream' = [mxUpstream EXCEPT ![e] = FALSE]
    /\ mxResp' = [mxResp EXCEPT ![e] = None]
    /\ MxGoto(e, IF Forward(e) = {} THEN "local" ELSE "forward")
    /\ UNCHANGED <<mxAttempt, mxLocal, mxQuery>>

\* Mutant: a failed forward keeps the resources marked as acknowledged.
ForwardFailedKeepsAck(e, status) ==
    /\ IF mxRequired
       THEN Answer(e, IF status \in 400..499 /\ status # 429 THEN "invalid" ELSE "retry", 0)
       ELSE MxGoto(e, "local") /\ UNCHANGED mxResp
    /\ UNCHANGED <<mxAttempt, mxAck, mxAll, mxUpRejected, mxPartial, mxUpstream, mxLocal, mxQuery>>

\* err # nil: a required backend decides the Export, an optional one leaves
\* the whole request to the local path.
ForwardFailed(e, status) ==
    /\ IF mxRequired
       THEN /\ Answer(e, IF status \in 400..499 /\ status # 429 THEN "invalid" ELSE "retry", 0)
            /\ UNCHANGED <<mxAck, mxAll>>
       ELSE /\ MxGoto(e, "local")
            /\ mxAck' = [mxAck EXCEPT ![e] = {}]
            /\ mxAll' = [mxAll EXCEPT ![e] = FALSE]
            /\ UNCHANGED mxResp
    /\ UNCHANGED <<mxAttempt, mxUpRejected, mxPartial, mxUpstream, mxLocal, mxQuery>>

HasDelta(e) == \E i \in Forward(e) : MxResources[e][i].delta

\* Client.Export before the request: temporality, request size, byte budget.
Precheck(e) ==
    IF HasDelta(e) THEN 400
    ELSE IF RequestBytes(e) > MxMaxRequestBytes THEN 413
    ELSE IF HeldBytes + RequestBytes(e) > MxMaxBytes THEN 503
    ELSE 200

\* Client.admit for the ingest path: a slot, else a place among the waiters.
MxAdmit(e) ==
    /\ mxPc[e] = "forward"
    /\ IF Precheck(e) # 200 THEN ForwardFailed(e, Precheck(e))
       ELSE IF Cardinality(MxSending) < MxMaxIngest
         THEN MxGoto(e, "sent")
              /\ UNCHANGED <<mxAttempt, mxAck, mxAll, mxUpRejected, mxPartial, mxUpstream, mxResp, mxLocal, mxQuery>>
       ELSE IF Cardinality(Waiting) < MxMaxWaiters
         THEN MxGoto(e, "waiting")
              /\ UNCHANGED <<mxAttempt, mxAck, mxAll, mxUpRejected, mxPartial, mxUpstream, mxResp, mxLocal, mxQuery>>
       ELSE ForwardFailed(e, 503)

WaiterGetsSlot(e) ==
    /\ mxPc[e] = "waiting" /\ Cardinality(MxSending) < MxMaxIngest
    /\ MxGoto(e, "sent")
    /\ UNCHANGED <<mxAttempt, mxAck, mxAll, mxUpRejected, mxPartial, mxUpstream, mxResp, mxLocal, mxQuery>>

WaiterTimesOut(e) ==
    /\ mxPc[e] = "waiting"
    /\ ForwardFailed(e, 503)

\* A failed request: refused, or timed out after the backend may have applied it.
UpstreamFails(e, status) ==
    /\ mxPc[e] = "sent"
    /\ ForwardFailed(e, status)

\* 200: everything accepted, or some points of it refused.
UpstreamAccepts(e, rejected) ==
    /\ mxPc[e] = "sent"
    /\ rejected \in 0..Points(e, Forward(e))
    /\ mxUpRejected' = [mxUpRejected EXCEPT ![e] = rejected]
    /\ mxPartial' = [mxPartial EXCEPT ![e] = rejected > 0]
    /\ mxUpstream' = [mxUpstream EXCEPT ![e] = TRUE]
    /\ MxGoto(e, "local")
    /\ UNCHANGED <<mxAttempt, mxAck, mxAll, mxResp, mxLocal, mxQuery>>

-------------------------------------------------------------------------------
(* exportMetrics.                                                          *)

\* The resources of localReq whose service is ingested.
LocalResources(e) == Ingested(e) \ (IF mxPartial[e] THEN mxAck[e] ELSE {})
\* Points of unacknowledged resources: refused by the reducer, or accepted
\* and waiting for the apply (rejected.total and localPending).
LocalRejected(e) == Bad(e, LocalResources(e) \ mxAck[e])
LocalPending(e) == Good(e, LocalResources(e) \ mxAck[e])

ApplyOK(e) ==
    /\ mxPc[e] = "local"
    /\ mxLocal' = [mxLocal EXCEPT ![e] = [i \in Indexes(e) |->
                     IF i \in LocalResources(e) THEN @[i] + 1 ELSE @[i]]]
    /\ Answer(e, "ok", LocalRejected(e) + mxUpRejected[e])
    /\ UNCHANGED <<mxAttempt, mxAck, mxAll, mxUpRejected, mxPartial, mxUpstream, mxQuery>>

\* The aggregate refused the reduced deltas (saturated, disk full, failed).
ApplyFails(e) ==
    /\ mxPc[e] = "local"
    /\ IF mxAll[e] THEN Answer(e, "ok", mxUpRejected[e])
       ELSE IF mxAck[e] = {} THEN Answer(e, "retry", 0)
       ELSE Answer(e, "ok", LocalRejected(e) + LocalPending(e) + mxUpRejected[e])
    /\ UNCHANGED <<mxAttempt, mxAck, mxAll, mxUpRejected, mxPartial, mxUpstream, mxLocal, mxQuery>>

MxRetry(e) ==
    /\ mxPc[e] = "answered" /\ mxResp[e].code = "retry" /\ mxAttempt[e] < MxMaxAttempts
    /\ mxAttempt' = [mxAttempt EXCEPT ![e] = @ + 1]
    /\ MxGoto(e, "idle")
    /\ UNCHANGED <<mxAck, mxAll, mxUpRejected, mxPartial, mxUpstream, mxResp, mxLocal, mxQuery>>

-------------------------------------------------------------------------------
(* The query API of the client shares the backend, never the ingest slots. *)

\* checkTenant, checkRange and the parameter budget of queryAPI.
QueryRefused(q) ==
    CASE q.tenant # MxPromTenant -> 501
      [] q.tenant = MxPromTenant /\ q.span > MxMaxRange -> 400
      [] OTHER -> IF q.bytes > MxMaxQueryBytes THEN 413 ELSE 200

\* The response: an error keeps its status if it is one, a series too many is 422.
QueryStatus(q) ==
    IF q.status # 200 THEN IF q.status \in 400..599 THEN q.status ELSE 502
    ELSE IF q.series > MxMaxSeries THEN 422 ELSE 200

Running == {r \in MxReaders : mxQuery[r] = "running"}

QueryStart(r, q) ==
    /\ mxQuery[r] = "idle"
    /\ mxQuery' = [mxQuery EXCEPT ![r] =
                     IF QueryRefused(q) # 200 THEN "refused"
                     ELSE IF Cardinality(Running) < MxMaxConcurrent THEN "running" ELSE "busy"]
    /\ UNCHANGED <<mxPc, mxAttempt, mxAck, mxAll, mxUpRejected, mxPartial, mxUpstream, mxResp, mxLocal>>

QueryEnds(r, q) ==
    /\ mxQuery[r] = "running" /\ QueryRefused(q) = 200
    /\ mxQuery' = [mxQuery EXCEPT ![r] = IF QueryStatus(q) = 200 THEN "done" ELSE "failed"]
    /\ UNCHANGED <<mxPc, mxAttempt, mxAck, mxAll, mxUpRejected, mxPartial, mxUpstream, mxResp, mxLocal>>

MxStep ==
    \/ \E e \in MxExporters :
         \/ Split(e) \/ MxAdmit(e) \/ WaiterGetsSlot(e) \/ WaiterTimesOut(e)
         \/ \E s \in {307, 400, 429, 503} : UpstreamFails(e, s)
         \/ \E n \in 0..Points(e, Forward(e)) : UpstreamAccepts(e, n)
         \/ ApplyOK(e) \/ ApplyFails(e) \/ MxRetry(e)
    \/ \E r \in MxReaders, q \in MxQueries : QueryStart(r, q) \/ QueryEnds(r, q)

MxNext == MxStep /\ UNCHANGED mxRequired

MxSpec == MxInit /\ [][MxNext]_mxVars

-------------------------------------------------------------------------------
\* Type correctness.
MxTypeOK ==
    /\ mxPc \in [MxExporters -> {"idle", "forward", "waiting", "sent", "local", "answered"}]
    /\ mxAttempt \in [MxExporters -> 1..MxMaxAttempts]
    /\ \A e \in MxExporters : mxAck[e] \subseteq Forward(e) /\ mxLocal[e] \in [Indexes(e) -> Nat]
    /\ Cardinality(MxSending) <= MxMaxIngest /\ Cardinality(Waiting) <= MxMaxWaiters
    /\ HeldBytes <= MxMaxBytes /\ Cardinality(Running) <= MxMaxConcurrent

\* What the two sides hold of the last attempt.
Accepted(e) == IF mxUpstream[e] THEN Forward(e) ELSE {}
HeldUpstream(e) == Points(e, Accepted(e)) - mxUpRejected[e]
HeldLocally(e) == Good(e, {i \in Ingested(e) \ Accepted(e) : mxLocal[e][i] > 0})

\* An OK answer to a metrics Export accounts for every point of every ingested
\* resource: the points neither the backend nor the local aggregate holds are
\* exactly the RejectedDataPoints it reports; and over all the deliveries of
\* one Export the aggregate counts a resource at most once (otlp.go:356-588:
\* a retry must not double-count, a rejected point must not look accepted).
MetricsAccounted ==
    \A e \in MxExporters :
        /\ \A i \in Indexes(e) : mxLocal[e][i] <= 1
        /\ mxPc[e] = "answered" /\ mxResp[e].code = "ok" =>
             mxResp[e].rejected = Points(e, Ingested(e)) - HeldUpstream(e) - HeldLocally(e)
===============================================================================
