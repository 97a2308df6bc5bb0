-------------------------------- MODULE Intake --------------------------------
(***************************************************************************)
(* How TraceServer.Export and LogsServer.Export turn a request into the    *)
(* per-tenant groups they submit (internal/ingest/otlp.go:683-1073,        *)
(* 1210-1343; otlp_ids.go; sampler.go).  The resources of a request are    *)
(* processed by concurrent goroutines that share the sampler; the groups   *)
(* are merged after all of them returned.  What the exemplar policy        *)
(* answers is free here (ExemplarPolicy models it).                        *)
(***************************************************************************)
EXTENDS Naturals, Sequences, FiniteSets, FiniteSetsExt, Selection

CONSTANTS
    ItRequests,         \* id -> [kind, resources]; a resource is [name, host, tenant, records]
    ItNoName, ItUnknown,            \* absent service.name / host; "unknown-service"
    ItHostEntity(_),                \* HostPrefix + host
    ItAllowed, ItExcluded,          \* service lists; empty means no filter
    ItMinSeverity,                  \* 10 .. 50
    ItPolicies,                     \* subset of {"sampler", "exemplar"}
    ItCapacity                      \* burst of a sampler bucket

VARIABLES
    itPolicy, itPc,
    itNext,             \* request, resource -> next record to process
    itOut,              \* request, resource -> what its goroutine accumulated
    itBuckets,          \* sampler: service -> tokens, for the services seen
    itGroups            \* request -> set of merged tenant groups

itVars == <<itPolicy, itPc, itNext, itOut, itBuckets, itGroups>>

Ids == DOMAIN ItRequests
Resources(q) == DOMAIN ItRequests[q].resources
Resource(q, i) == ItRequests[q].resources[i]
RecordSet(q, i) == {Resource(q, i).records[j] : j \in DOMAIN Resource(q, i).records}

\* A request has finitely many resources of finitely many records, and a span's status and
\* duration decide whether it failed and whether it was slow.
ASSUME ItAssumption ==
    \A q \in Ids :
        /\ IsFiniteSet(Resources(q))
        /\ \A i \in Resources(q) : Resource(q, i).records \in Seq(RecordSet(q, i))
        /\ ItRequests[q].kind = "traces" =>
             \A i \in Resources(q) : \A r \in RecordSet(q, i) : r.err \in BOOLEAN /\ r.slow \in BOOLEAN

\* sanitizeTraceRequest and sanitizeLogsRequest: malformed records leave first.
Sanitized(q, i) == Selected(Resource(q, i).records, {r \in RecordSet(q, i) : r.valid})
RefusedRecords(q) ==
    MapThenSumSet(LAMBDA i : Len(Resource(q, i).records) - Len(Sanitized(q, i)), Resources(q))

\* resolveServiceIdentity and shouldIngestService.
Service(q, i) ==
    IF Resource(q, i).name # ItNoName THEN Resource(q, i).name
    ELSE IF Resource(q, i).host # ItNoName THEN ItHostEntity(Resource(q, i).host)
    ELSE ItUnknown
ShouldIngest(s) == s \notin ItExcluded /\ (ItAllowed # {} => s \in ItAllowed)

\* shouldIngestSeverity looks for a substring; hasPriorityLog compares the text.
Level(sev) ==
    CASE sev = "DEBUG" -> 10 [] sev \in {"INFO", "other"} -> 20 [] sev = "WARN" -> 30
      [] sev \in {"ERROR", "SEVERITY_NUMBER_ERROR"} -> 40 [] sev = "FATAL" -> 50
ShouldIngestSeverity(sev) == Level(sev) >= ItMinSeverity
HasPriorityLog(sevs) == sevs \cap {"ERROR", "FATAL"} # {}

Empty == [reduced |-> 0, spans |-> {}, traces |-> {}, failed |-> {}, logs |-> {},
          sevs |-> {}, hasErr |-> FALSE, hasSlow |-> FALSE]

ItInit ==
    /\ itPolicy \in ItPolicies
    /\ itPc = [q \in Ids |-> "idle"]
    /\ itNext = [q \in Ids |-> [i \in Resources(q) |-> 1]]
    /\ itOut = [q \in Ids |-> [i \in Resources(q) |-> Empty]]
    /\ itBuckets = [s \in {} |-> 0]
    /\ itGroups = [q \in Ids |-> {}]

ItReceive(q) ==
    /\ itPc[q] = "idle"
    /\ itPc' = [itPc EXCEPT ![q] = "running"]
    /\ UNCHANGED <<itPolicy, itNext, itOut, itBuckets, itGroups>>

Pending(q, i) ==
    itPc[q] = "running" /\ ShouldIngest(Service(q, i)) /\ itNext[q][i] <= Len(Sanitized(q, i))

-------------------------------------------------------------------------------
(* Sampler.ShouldSample: errors and slow spans always; the first span of a *)
(* service is free and opens its bucket; then one token a span.            *)

Sampled(s, r) == r.err \/ r.slow \/ s \notin DOMAIN itBuckets \/ itBuckets[s] >= 1
TakeToken(s, r) ==
    itBuckets' =
        IF r.err \/ r.slow THEN itBuckets
        ELSE [x \in DOMAIN itBuckets \cup {s} |->
                IF x # s THEN itBuckets[x]
                ELSE IF s \notin DOMAIN itBuckets THEN ItCapacity
                ELSE IF itBuckets[s] >= 1 THEN itBuckets[s] - 1 ELSE 0]

Refill(s) ==
    /\ s \in DOMAIN itBuckets /\ itBuckets[s] < ItCapacity
    /\ itBuckets' = [itBuckets EXCEPT ![s] = @ + 1]
    /\ UNCHANGED <<itPolicy, itPc, itNext, itOut, itGroups>>

-------------------------------------------------------------------------------
(* One record of one resource.  The reducer sees every valid record, what  *)
(* is retained raw is decided after it.                                    *)

\* Severities of the logs synthesized for a kept span: one per event, and one
\* ERROR for a failed span no event of which became one.  Each is reserved on its
\* own; granted names the events, and the status, whose reservation succeeded.
EventSevs(r) == {sev \in r.events : ShouldIngestSeverity(sev)}
SynthSevs(r, granted) ==
    LET evs == EventSevs(r) \cap granted
    IN  evs \cup (IF /\ r.err /\ "ERROR" \notin evs
                     /\ ShouldIngestSeverity("ERROR") /\ "status" \in granted
                  THEN {"ERROR"} ELSE {})
Reservable(r) == r.events \cup (IF r.err THEN {"status"} ELSE {})

\* admitted: the sampler or the policy takes the span; keep: ReserveSpan granted the bytes;
\* logs: what ReserveSynthesizedLog granted.
AddSpan(o, j, r, admitted, keep, logs) ==
    IF ~admitted THEN [o EXCEPT !.reduced = @ + 1]
    ELSE [o EXCEPT !.reduced = @ + 1,
                   !.spans = IF keep THEN @ \cup {j} ELSE @,
                   !.traces = @ \cup {r.trace},
                   !.failed = IF r.err THEN @ \cup {r.trace} ELSE @,
                   !.logs = IF keep THEN @ \cup {<<j, s>> : s \in SynthSevs(r, logs)} ELSE @,
                   !.hasErr = @ \/ r.err,
                   !.hasSlow = @ \/ r.slow]

AddLog(o, j, r, retained) ==
    [o EXCEPT !.reduced = @ + 1,
              !.logs = IF retained THEN @ \cup {<<j, r.sev>>} ELSE @,
              !.sevs = IF retained THEN @ \cup {r.sev} ELSE @]

ProcessSpan(q, i) ==
    LET j == itNext[q][i]
        r == Sanitized(q, i)[j]
        s == Service(q, i)
    IN  /\ ItRequests[q].kind = "traces" /\ Pending(q, i)
        /\ \E admit, keep \in BOOLEAN : \E logs \in SUBSET (IF keep THEN Reservable(r) ELSE {}) :
             /\ itPolicy = "sampler" => (admit <=> Sampled(s, r)) /\ keep /\ logs = Reservable(r)
             /\ itOut' = [itOut EXCEPT ![q][i] = AddSpan(@, j, r, admit, keep, logs)]
        /\ itNext' = [itNext EXCEPT ![q][i] = @ + 1]
        /\ IF itPolicy = "sampler" THEN TakeToken(s, r) ELSE UNCHANGED itBuckets
        /\ UNCHANGED <<itPolicy, itPc, itGroups>>

ProcessLog(q, i, keep) ==
    LET j == itNext[q][i]
        r == Sanitized(q, i)[j]
        retained == ShouldIngestSeverity(r.sev) /\ keep
    IN  /\ ItRequests[q].kind = "logs" /\ Pending(q, i)
        /\ itPolicy = "sampler" => keep
        /\ itOut' = [itOut EXCEPT ![q][i] = AddLog(@, j, r, retained)]
        /\ itNext' = [itNext EXCEPT ![q][i] = @ + 1]
        /\ UNCHANGED <<itPolicy, itPc, itBuckets, itGroups>>

-------------------------------------------------------------------------------
(* tenantGroups: results are added in request order, one group a tenant.   *)

Contributes(q, i) == itOut[q][i].traces # {} \/ itOut[q][i].spans # {} \/ itOut[q][i].logs # {}
ErrorFlag(q, i) ==
    IF ItRequests[q].kind = "logs" THEN HasPriorityLog(itOut[q][i].sevs) ELSE itOut[q][i].hasErr

\* Mutant: a later resource of the tenant replaces the group's flag.
GroupErrLast(q, is) == ErrorFlag(q, Max(is))
GroupErr(q, is) == \E i \in is : ErrorFlag(q, i)

\* A trace row: the trace and whether it is stored as failed.
TraceRows(o) == {<<t, t \in o.failed>> : t \in o.traces}

Group(q, tn) ==
    LET is == {i \in Resources(q) : Resource(q, i).tenant = tn /\ Contributes(q, i)}
    IN  [tenant |-> tn,
         traces |-> UNION {{i} \X TraceRows(itOut[q][i]) : i \in is},
         spans |-> UNION {{i} \X itOut[q][i].spans : i \in is},
         logs |-> UNION {{i} \X itOut[q][i].logs : i \in is},
         hasErr |-> GroupErr(q, is),
         hasSlow |-> \E i \in is : itOut[q][i].hasSlow]

Merge(q) ==
    /\ itPc[q] = "running" /\ \A i \in Resources(q) : ~Pending(q, i)
    /\ itGroups' = [itGroups EXCEPT ![q] =
         {Group(q, t) : t \in {Resource(q, i).tenant : i \in {k \in Resources(q) : Contributes(q, k)}}}]
    /\ itPc' = [itPc EXCEPT ![q] = "merged"]
    /\ UNCHANGED <<itPolicy, itNext, itOut, itBuckets>>

ItNext ==
    \/ \E q \in Ids : ItReceive(q) \/ Merge(q)
    \/ \E q \in Ids : \E i \in Resources(q) :
         \/ ProcessSpan(q, i)
         \/ \E k \in BOOLEAN : ProcessLog(q, i, k)
    \/ \E s \in DOMAIN itBuckets : Refill(s)

ItSpec == ItInit /\ [][ItNext]_itVars

\* Type correctness.
ItTypeOK ==
    /\ itPolicy \in ItPolicies
    /\ itPc \in [Ids -> {"idle", "running", "merged"}]
    /\ \A q \in Ids : \A i \in Resources(q) :
          /\ itNext[q][i] \in 1 .. Len(Sanitized(q, i)) + 1
          /\ itOut[q][i].reduced \in 0 .. Len(Sanitized(q, i))
    /\ \A s \in DOMAIN itBuckets : itBuckets[s] \in 0 .. ItCapacity

-------------------------------------------------------------------------------
\* Records of the request, with their resource, that satisfy P.
Records(q, P(_)) ==
    {p \in UNION {{<<i, j>> : j \in DOMAIN Sanitized(q, i)} : i \in Resources(q)} :
        ShouldIngest(Service(q, p[1])) /\ P(Sanitized(q, p[1])[p[2]])}

Reduced(q) == [i \in Resources(q) |-> itOut[q][i].reduced]

\* Once a request is merged: the aggregate saw every valid record of every ingested service
\* once, whatever the sampler or the policy kept; each group holds rows of its own tenant's
\* resources only; a group that holds a failed span, or an ERROR or FATAL record of a logs
\* request, has the flag that exempts it from soft backpressure, and a failed span a failed
\* trace row; and no failed or slow span of a sampled request is dropped
\* (otlp.go:806-818, 879-884, 1045-1073, 1499-1525, sampler.go:44-56).
IntakeExact ==
    \A q \in Ids : itPc[q] = "merged" =>
        /\ MapThenSumSet(LAMBDA i : Reduced(q)[i], Resources(q)) = Cardinality(Records(q, LAMBDA r : TRUE))
        /\ \A g \in itGroups[q] :
             /\ \A row \in g.spans : Resource(q, row[1]).tenant = g.tenant
             /\ \A row \in g.logs :
                  /\ Resource(q, row[1]).tenant = g.tenant
                  /\ ItRequests[q].kind = "logs" /\ row[2][2] \in {"ERROR", "FATAL"} => g.hasErr
             /\ \A row \in g.spans : LET r == Sanitized(q, row[1])[row[2]] IN
                  /\ r.err => g.hasErr /\ <<row[1], <<r.trace, TRUE>>>> \in g.traces
                  /\ r.slow => g.hasSlow
        /\ itPolicy = "sampler" /\ ItRequests[q].kind = "traces" =>
             Records(q, LAMBDA r : r.err \/ r.slow) \subseteq UNION {g.spans : g \in itGroups[q]}
===============================================================================
