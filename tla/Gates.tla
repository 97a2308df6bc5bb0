--------------------------------- MODULE Gates ---------------------------------
(***************************************************************************)
(* What a request passes before a handler sees it (main.go:1343-1440,      *)
(* internal/api, internal/authn, internal/ingest/grpc_auth.go): the        *)
(* database health gate, the per-address rate limiter, authentication, the *)
(* binding of a tenant, and, behind them, a read whose answer is kept in   *)
(* the bounded TTL cache under a key that names the tenant.                *)
(*                                                                         *)
(* Time is a counter of the limiter's refill unit; tokens refill by GtRps. *)
(***************************************************************************)
EXTENDS Naturals, FiniteSets, FiniteSetsExt, Functions

CONSTANTS
    GtNone,             \* an absent header, token or tenant
    GtInvalid,          \* a value SanitizeTenantID turns into the empty string
    GtOperator,         \* the shared operator key, or GtNone
    GtPairs,            \* key file: sequence of [key, tenant]
    GtTrustExternal, GtTrustResource, GtDefault,
    GtRequests,         \* [path, scheme, token, external, header, query, resource, ip]
    GtRps, GtMaxClients, GtIdle,                    \* rate limiter
    GtThreshold,        \* failureThreshold of the health probe
    GtTTL, GtMaxEntries, GtMaxCacheBytes, GtEntryCharge, GtSizes,
    GtMaxClock          \* bound: clock ticks

\* Limits and sizes are numbers.
ASSUME GtLimits ==
    /\ {GtMaxClients, GtThreshold, GtMaxEntries, GtMaxCacheBytes, GtEntryCharge, GtMaxClock} \subseteq Nat
    /\ GtSizes \subseteq Nat

VARIABLES
    gtClock, gtFails, gtHealthy, gtBuckets, gtCache, gtCharged,
    gtComputing,        \* cache misses being computed: [request, key]
    gtServed            \* the last answer: [request, tenant, owner of the data]

gtVars == <<gtClock, gtFails, gtHealthy, gtBuckets, gtCache, gtCharged,
            gtComputing, gtServed>>

\* The map f with v stored under k.
Stored(f, k, v) == [x \in DOMAIN f \cup {k} |-> IF x = k THEN v ELSE f[x]]

Sanitize(v) == IF v = GtInvalid THEN GtNone ELSE v

\* newKeyStore: an empty file, an unusable key, an invalid tenant or a
\* duplicate key refuses the whole file (nil store, fatal at start).
ValidPairs(pairs) ==
    /\ pairs # <<>>
    /\ \A i \in DOMAIN pairs : pairs[i].key # GtNone /\ Sanitize(pairs[i].tenant) # GtNone
    /\ \A i, j \in DOMAIN pairs : pairs[i].key = pairs[j].key => i = j
ASSUME KeyFileLoads == ValidPairs(GtPairs)

\* The store the process starts with; a refused file is fatal (KeyFileLoads).
LoadKeyStore == {GtPairs[i] : i \in DOMAIN GtPairs}
Lookup(token) == {p.tenant : p \in {q \in LoadKeyStore : q.key = token}}

Nobody == [kind |-> "none", tenant |-> GtNone]
Bound(p) == p.kind \in {"tenant", "external"} /\ p.tenant # GtNone

\* TokenFromAuthorization, then AuthenticateToken; without a credential, the
\* identity the front proxy injected, when the deployment trusts it.
AuthenticateToken(token) ==
    IF token = GtOperator THEN [kind |-> "operator", tenant |-> GtNone]
    ELSE IF Lookup(token) # {} THEN [kind |-> "tenant", tenant |-> CHOOSE t \in Lookup(token) : TRUE]
    ELSE Nobody
ExternalPrincipal(raw) ==
    IF GtTrustExternal /\ Sanitize(raw) # GtNone
    THEN [kind |-> "external", tenant |-> Sanitize(raw)] ELSE Nobody
Principal(r) ==
    IF r.token # GtNone /\ r.scheme THEN AuthenticateToken(r.token)
    ELSE IF r.token # GtNone THEN Nobody
    ELSE ExternalPrincipal(r.external)

Protected(path) == path \in {"api", "v1", "mcp", "ws", "grpc"}
NeedsDB(path) == path \in {"api", "v1"}
RateLimited(path) == path \notin {"v1", "grpc"}

-------------------------------------------------------------------------------
(* Which tenant a request acts for.                                        *)

FirstOf(a, b) == IF a # GtNone THEN a ELSE b

\* Mutant: the header of an authenticated tenant is believed.
ResolveTenantTrusting(p, r) ==
    FirstOf(Sanitize(r.header), IF Bound(p) THEN p.tenant ELSE GtDefault)

\* resolveTenant: a bound principal, the request's header or metadata, the
\* resource attribute if trusted, the configured default.
ResolveTenant(p, r) ==
    IF Bound(p) THEN p.tenant
    ELSE FirstOf(Sanitize(r.header),
                 FirstOf(IF GtTrustResource THEN Sanitize(r.resource) ELSE GtNone, GtDefault))

\* TenantMiddleware on the read API.
ReadTenant(p, r) ==
    IF Bound(p) THEN p.tenant ELSE FirstOf(Sanitize(r.header), GtDefault)

\* wsTenantScope: an invalid selection is refused, not defaulted.
WsTenant(p, r) ==
    IF Bound(p) THEN p.tenant
    ELSE IF FirstOf(r.query, r.header) = GtNone THEN GtDefault
    ELSE Sanitize(FirstOf(r.query, r.header))

\* requestTenant of the MCP server: what is asserted is taken as it is.
McpTenant(p, r) ==
    IF Bound(p) THEN p.tenant ELSE FirstOf(r.header, GtDefault)

TenantOf(p, r) ==
    CASE r.path \in {"v1", "grpc"} -> ResolveTenant(p, r)
      [] r.path = "mcp" -> McpTenant(p, r)
      [] r.path = "ws" -> WsTenant(p, r)
      [] OTHER -> ReadTenant(p, r)

-------------------------------------------------------------------------------
(* Rate limiter.                                                           *)

Lesser(a, b) == IF a < b THEN a ELSE b
\* The tokens of a bucket after refill; a new address starts with the burst.
Tokens(ip) ==
    IF ip \in DOMAIN gtBuckets
    THEN Lesser(GtRps, gtBuckets[ip].tokens + (gtClock - gtBuckets[ip].seen) * GtRps)
    ELSE GtRps
Known(ip) == ip \in DOMAIN gtBuckets \/ Cardinality(DOMAIN gtBuckets) < GtMaxClients
Allowed(ip) == Known(ip) /\ Tokens(ip) >= 1
RateCharge(ip) ==
    IF ~Known(ip) THEN UNCHANGED gtBuckets
    ELSE gtBuckets' = Stored(gtBuckets, ip,
                             [tokens |-> IF Tokens(ip) >= 1 THEN Tokens(ip) - 1 ELSE Tokens(ip),
                              seen |-> gtClock])

RateCleanup ==
    /\ \E ip \in DOMAIN gtBuckets : gtBuckets[ip].seen + GtIdle < gtClock
    /\ gtBuckets' = Restrict(gtBuckets, {ip \in DOMAIN gtBuckets : gtBuckets[ip].seen + GtIdle >= gtClock})
    /\ UNCHANGED <<gtClock, gtFails, gtHealthy, gtCache, gtCharged, gtComputing, gtServed>>

-------------------------------------------------------------------------------
(* The TTL cache.                                                          *)

EmptyCache == <<>>
CacheKey(tenant, r) == tenant     \* dashboardCacheKey; one parameter set
CacheLive(k) == k \in DOMAIN gtCache /\ gtClock < gtCache[k].expires
EntryCharges(items) == [k \in DOMAIN items |-> items[k].charge]
CacheCharged(items) == MapThenSumSet(LAMBDA k : EntryCharges(items)[k], DOMAIN items)

\* Set: what may remain of the other entries once the new one fits.
\* The victims are arbitrary: Go ranges over the map.
CacheRemains(k, size) ==
    LET others == {j \in DOMAIN gtCache \ {k} : gtClock < gtCache[j].expires}
        Fits(s) == /\ Cardinality(s) < GtMaxEntries
                   /\ CacheCharged(Restrict(gtCache, s)) + GtEntryCharge + size <= GtMaxCacheBytes
    IN  IF Fits(others) THEN {others}
        ELSE {s \in SUBSET others : Fits(s) /\ \E v \in others \ s : ~Fits(s \cup {v})}

CacheSet(k, owner, size) ==
    IF GtEntryCharge + size > GtMaxCacheBytes
    THEN /\ gtCache' = Restrict(gtCache, DOMAIN gtCache \ {k})
         /\ gtCharged' = gtCharged - (IF k \in DOMAIN gtCache THEN gtCache[k].charge ELSE 0)
    ELSE \E s \in CacheRemains(k, size) :
         /\ gtCache' = Stored(Restrict(gtCache, s), k,
                            [owner |-> owner, expires |-> gtClock + GtTTL, charge |-> GtEntryCharge + size])
         /\ gtCharged' = gtCharged - CacheCharged(Restrict(gtCache, DOMAIN gtCache \ s)) + GtEntryCharge + size

CacheEvict ==
    /\ \E k \in DOMAIN gtCache : ~CacheLive(k)
    /\ gtCache' = Restrict(gtCache, {k \in DOMAIN gtCache : CacheLive(k)})
    /\ gtCharged' = CacheCharged(gtCache')
    /\ UNCHANGED <<gtClock, gtFails, gtHealthy, gtBuckets, gtComputing, gtServed>>

-------------------------------------------------------------------------------
Refused(r) == [request |-> r, tenant |-> GtNone, owner |-> GtNone]
Serve(r, t, owner) == gtServed' = [request |-> r, tenant |-> t, owner |-> owner]

Authorized(r) == Protected(r.path) => Principal(r) # Nobody
DBUp(r) == NeedsDB(r.path) => gtHealthy
WebSocketGate(r) == r.path = "ws" => Principal(r) # Nobody /\ WsTenant(Principal(r), r) # GtNone
Passes(r) ==
    /\ DBUp(r)
    /\ RateLimited(r.path) => Allowed(r.ip)
    /\ Authorized(r) /\ WebSocketGate(r)

\* The outcome behind the gates: a read answers from the cache or computes.
Dispatch(r, t) ==
    IF r.path # "api" THEN Serve(r, t, t) /\ UNCHANGED gtComputing
    ELSE IF CacheLive(CacheKey(t, r)) THEN Serve(r, t, gtCache[CacheKey(t, r)].owner) /\ UNCHANGED gtComputing
    ELSE gtComputing' = gtComputing \cup {[request |-> r, tenant |-> t]} /\ UNCHANGED gtServed

Handle(r) ==
    /\ IF DBUp(r) /\ RateLimited(r.path)
       THEN RateCharge(r.ip) ELSE UNCHANGED gtBuckets
    /\ IF Passes(r) THEN Dispatch(r, TenantOf(Principal(r), r))
       ELSE gtServed' = Refused(r) /\ UNCHANGED gtComputing
    /\ UNCHANGED <<gtClock, gtFails, gtHealthy, gtCache, gtCharged>>

\* A computed view enters the cache and is served.
ComputeEnds(c, size) ==
    /\ c \in gtComputing
    /\ gtComputing' = gtComputing \ {c}
    /\ CacheSet(CacheKey(c.tenant, c.request), c.tenant, size)
    /\ Serve(c.request, c.tenant, c.tenant)
    /\ UNCHANGED <<gtClock, gtFails, gtHealthy, gtBuckets>>

\* DBHealth.ping: down after GtThreshold failures in a row, up after one success.
Ping(ok) ==
    /\ gtFails' = IF ok THEN 0 ELSE Lesser(GtThreshold, gtFails + 1)
    /\ gtHealthy' = IF ok THEN TRUE ELSE IF gtFails + 1 >= GtThreshold THEN FALSE ELSE gtHealthy
    /\ UNCHANGED <<gtClock, gtBuckets, gtCache, gtCharged, gtComputing, gtServed>>

GtTick ==
    /\ gtClock < GtMaxClock
    /\ gtClock' = gtClock + 1
    /\ UNCHANGED <<gtFails, gtHealthy, gtBuckets, gtCache, gtCharged, gtComputing, gtServed>>

Addresses == {r.ip : r \in GtRequests}
GtInit ==
    /\ gtClock = 0 /\ gtFails = 0 /\ gtHealthy = TRUE
    /\ gtBuckets = <<>>
    /\ gtCache = EmptyCache /\ gtCharged = 0 /\ gtComputing = {}
    /\ gtServed = [request |-> GtNone, tenant |-> GtNone, owner |-> GtNone]

GtNext ==
    \/ \E r \in GtRequests : Handle(r)
    \/ \E c \in gtComputing, n \in GtSizes : ComputeEnds(c, n)
    \/ \E ok \in BOOLEAN : Ping(ok)
    \/ RateCleanup \/ CacheEvict \/ GtTick

GtSpec == GtInit /\ [][GtNext]_gtVars

-------------------------------------------------------------------------------
\* Type correctness.
GtTypeOK ==
    /\ gtClock \in 0..GtMaxClock /\ gtFails \in 0..GtThreshold /\ gtHealthy \in BOOLEAN
    /\ Cardinality(DOMAIN gtBuckets) <= GtMaxClients
    /\ Cardinality(DOMAIN gtCache) <= GtMaxEntries
    /\ gtCharged = CacheCharged(gtCache) /\ gtCharged <= GtMaxCacheBytes

\* Whatever tenant the client asserts in a header, a query parameter or a
\* resource attribute, an answer on a protected path to a tenant's own
\* credential (a key of the key file other than the operator's, or an identity
\* the proxy injected) acts for that tenant and, from the cache or freshly
\* computed, carries that tenant's data only
\* (otlp.go:79-89, tenant_middleware.go:41, ws_auth.go:167, metrics_handlers.go:163).
BoundStaysHome ==
    gtServed.tenant # GtNone =>
        /\ gtServed.owner = gtServed.tenant
        /\ LET r == gtServed.request IN
             /\ Protected(r.path) /\ Lookup(r.token) # {} /\ r.token # GtOperator
                => gtServed.tenant \in Lookup(r.token)
             /\ r.token = GtNone /\ Protected(r.path) => gtServed.tenant = r.external

===============================================================================
