---------------------------- MODULE AdmissionProofs ----------------------------
(***************************************************************************)
(* Proofs about what is let in.  Gates: a tenant's credential acts for its *)
(* tenant only, for every key file, every set of requests and every limit, *)
(* and the cache and the rate limiter keep theirs.                         *)
(* SeriesLimiter: the census that admits series is exact, for every set of *)
(* keys and windows and every value of the caps.  MetricsExport: every     *)
(* point of a metrics request is held by one side or reported as rejected, *)
(* and the client keeps its slots, waiters, bytes and queries in budget.   *)
(* Intake: what a trace or log request turned into is exact, for every     *)
(* request, every policy and every interleaving of its goroutines.         *)
(* ExemplarPolicy: the byte and count ledgers agree with the reservations  *)
(* in flight and stay within their budgets.                                *)
(***************************************************************************)
EXTENDS Gates, SeriesLimiter, MetricsExport, Intake, ExemplarPolicy, Totals, TLAPS,
        FiniteSetTheorems

-------------------------------------------------------------------------------
(* The tenant of a request.                                                *)

\* A token of the key file names a tenant that is not the empty string.
LEMMA KeysNameTenants ==
    ASSUME NEW token, NEW t \in Lookup(token)
    PROVE  t # GtNone /\ token # GtNone
<1>1. PICK p \in LoadKeyStore : p.key = token /\ p.tenant = t
  BY DEF Lookup
<1>2. PICK i \in DOMAIN GtPairs : p = GtPairs[i]
  BY DEF LoadKeyStore
<1> QED
  BY <1>1, <1>2, KeyFileLoads DEF ValidPairs, Sanitize

\* What a request that passed authentication says about its tenant: a key of
\* the key file, or the identity of the proxy, decides it alone.
Home(r, t) ==
    Protected(r.path) =>
        /\ Lookup(r.token) # {} /\ r.token # GtOperator => t \in Lookup(r.token)
        /\ r.token = GtNone => t = r.external

\* Each of the three resolutions gives a bound principal its own tenant.
LEMMA AuthorizedIsHome ==
    ASSUME NEW r, Authorized(r)
    PROVE  Home(r, TenantOf(Principal(r), r))
<1> SUFFICES ASSUME Protected(r.path) PROVE Home(r, TenantOf(Principal(r), r))
  BY DEF Home
<1>1. Principal(r) # Nobody
  BY DEF Authorized
<1>2. Bound(Principal(r)) => TenantOf(Principal(r), r) = Principal(r).tenant
  BY DEF TenantOf, ResolveTenant, WsTenant, ReadTenant, McpTenant, Protected
<1>3. CASE Lookup(r.token) # {} /\ r.token # GtOperator
  <2> DEFINE t == CHOOSE u \in Lookup(r.token) : TRUE
  <2>1. t \in Lookup(r.token)
    BY <1>3
  <2> HIDE DEF t
  <2>2. r.token # GtNone /\ t # GtNone
    BY <2>1, KeysNameTenants
  <2>3. Principal(r) = [kind |-> "tenant", tenant |-> t]
    BY <1>1, <1>3, <2>2 DEF Principal, AuthenticateToken, t
  <2>4. Bound(Principal(r)) /\ Principal(r).tenant = t
    BY <2>2, <2>3 DEF Bound
  <2> QED BY <1>2, <2>1, <2>2, <2>4 DEF Home
<1>4. CASE r.token = GtNone
  <2>1. Principal(r) = ExternalPrincipal(r.external)
    BY <1>4 DEF Principal
  <2>2. /\ Principal(r) = [kind |-> "external", tenant |-> r.external]
        /\ r.external # GtNone
    BY <1>1, <2>1 DEF ExternalPrincipal, Sanitize
  <2>3. Bound(Principal(r)) /\ Principal(r).tenant = r.external
    BY <2>2 DEF Bound
  <2>4. Lookup(GtNone) = {}
    BY KeysNameTenants
  <2> QED BY <1>2, <1>4, <2>3, <2>4 DEF Home
<1>5. CASE ~ (Lookup(r.token) # {} /\ r.token # GtOperator) /\ r.token # GtNone
  BY <1>5 DEF Home
<1> QED
  BY <1>3, <1>4, <1>5

-------------------------------------------------------------------------------
(* The inductive invariant.                                                *)

\* An entry of the cache holds the data of the tenant its key names.
CacheIsHome == \A k \in DOMAIN gtCache : gtCache[k].owner = k

\* A view is computed for the tenant its request was bound to when it passed.
ComputingIsHome == \A c \in gtComputing : Home(c.request, c.tenant)

ServedIsHome ==
    gtServed.tenant # GtNone =>
        gtServed.owner = gtServed.tenant /\ Home(gtServed.request, gtServed.tenant)

GtInv == CacheIsHome /\ ComputingIsHome /\ ServedIsHome

\* The invariant is the property.
LEMMA GtInvIsBound == GtInv => BoundStaysHome
BY DEF GtInv, ServedIsHome, Home, BoundStaysHome

\* Restricting the cache keeps the entries it keeps.
LEMMA RestrictedCache ==
    ASSUME CacheIsHome, NEW S, S \subseteq DOMAIN gtCache
    PROVE  /\ DOMAIN Restrict(gtCache, S) = S
           /\ \A k \in S : Restrict(gtCache, S)[k].owner = k
BY DEF CacheIsHome, Restrict

\* An entry stored under its owner keeps the cache at home.
LEMMA SetKeepsHome ==
    ASSUME CacheIsHome, NEW k, NEW size, CacheSet(k, k, size)
    PROVE  CacheIsHome'
<1>1. CASE GtEntryCharge + size > GtMaxCacheBytes
  BY <1>1, RestrictedCache DEF CacheSet, CacheIsHome
<1>2. CASE ~ (GtEntryCharge + size > GtMaxCacheBytes)
  <2>1. PICK s \in CacheRemains(k, size) :
          gtCache' = Stored(Restrict(gtCache, s), k,
                            [owner |-> k, expires |-> gtClock + GtTTL, charge |-> GtEntryCharge + size])
    BY <1>2 DEF CacheSet
  <2>2. s \subseteq DOMAIN gtCache
    BY DEF CacheRemains
  <2>3. /\ DOMAIN Restrict(gtCache, s) = s
        /\ \A j \in s : Restrict(gtCache, s)[j].owner = j
    BY <2>2, RestrictedCache
  <2> DEFINE e == [owner |-> k, expires |-> gtClock + GtTTL, charge |-> GtEntryCharge + size]
             old == Restrict(gtCache, s)
  <2>4. e.owner = k
    OBVIOUS
  <2> HIDE DEF e, old
  <2>5. gtCache' = [j \in DOMAIN old \cup {k} |-> IF j = k THEN e ELSE old[j]]
    BY <2>1 DEF Stored, e, old
  <2>6. DOMAIN gtCache' = {k} \cup s
    BY <2>3, <2>5 DEF old
  <2>7. \A j \in {k} \cup s : gtCache'[j].owner = j
    BY <2>3, <2>4, <2>5 DEF old
  <2> QED BY <2>6, <2>7 DEF CacheIsHome
<1> QED
  BY <1>1, <1>2

-------------------------------------------------------------------------------
(* The theorem.                                                            *)

\* A request is served, or its view computed, for the tenant it is bound to.
LEMMA HandleKeepsHome ==
    ASSUME GtInv, NEW r \in GtRequests, Handle(r)
    PROVE  GtInv'
<1>1. CacheIsHome'
  BY DEF GtInv, CacheIsHome, Handle
<1>2. CASE ~ Passes(r)
  <2>1. gtServed' = Refused(r) /\ gtComputing' = gtComputing
    BY <1>2 DEF Handle
  <2>2. gtServed'.tenant = GtNone
    BY <2>1 DEF Refused
  <2> QED BY <1>1, <2>1, <2>2 DEF GtInv, ComputingIsHome, ServedIsHome
<1>3. CASE Passes(r)
  <2> DEFINE t == TenantOf(Principal(r), r)
  <2>1. Home(r, t)
    BY <1>3, AuthorizedIsHome DEF Passes
  <2>2. Dispatch(r, t)
    BY <1>3 DEF Handle
  <2> HIDE DEF t
  <2>3. CASE r.path # "api"
    <3>1. gtServed' = [request |-> r, tenant |-> t, owner |-> t] /\ gtComputing' = gtComputing
      BY <2>2, <2>3 DEF Dispatch, Serve
    <3> QED BY <1>1, <2>1, <3>1 DEF GtInv, ComputingIsHome, ServedIsHome
  <2>4. CASE r.path = "api" /\ CacheLive(t)
    <3>1. /\ gtServed' = [request |-> r, tenant |-> t, owner |-> gtCache[t].owner]
          /\ gtComputing' = gtComputing
      BY <2>2, <2>4 DEF Dispatch, Serve, CacheKey
    <3>2. gtCache[t].owner = t
      BY <2>4 DEF CacheLive, GtInv, CacheIsHome
    <3> QED BY <1>1, <2>1, <3>1, <3>2 DEF GtInv, ComputingIsHome, ServedIsHome
  <2>5. CASE r.path = "api" /\ ~ CacheLive(t)
    <3>1. /\ gtComputing' = gtComputing \cup {[request |-> r, tenant |-> t]}
          /\ gtServed' = gtServed
      BY <2>2, <2>5 DEF Dispatch, CacheKey
    <3>2. ComputingIsHome'
      BY <2>1, <3>1 DEF GtInv, ComputingIsHome
    <3> QED BY <1>1, <3>1, <3>2 DEF GtInv, ServedIsHome
  <2> QED BY <2>3, <2>4, <2>5
<1> QED
  BY <1>2, <1>3

\* A view that was computed is kept and served under the tenant it was computed for.
LEMMA ComputeEndsKeepsHome ==
    ASSUME GtInv, NEW c \in gtComputing, NEW size, ComputeEnds(c, size)
    PROVE  GtInv'
<1>1. Home(c.request, c.tenant)
  BY DEF GtInv, ComputingIsHome
<1>2. CacheIsHome'
  BY SetKeepsHome DEF GtInv, ComputeEnds, CacheKey
<1>3. ComputingIsHome'
  BY DEF GtInv, ComputingIsHome, ComputeEnds
<1>4. ServedIsHome'
  BY <1>1 DEF ServedIsHome, ComputeEnds, Serve
<1> QED
  BY <1>2, <1>3, <1>4 DEF GtInv

\* Whatever a client asserts, an answer on a protected path to a tenant's own
\* credential acts for that tenant and carries its data only, through every
\* interleaving of requests, of views computed while others are answered, of
\* cache evictions and of a failing database (otlp.go:79, tenant_middleware.go:41,
\* ws_auth.go:167, metrics_handlers.go:163).
THEOREM TenantsStayHome == GtSpec => []BoundStaysHome
<1>1. GtInit => GtInv
  BY DEF GtInit, GtInv, CacheIsHome, ComputingIsHome, ServedIsHome, EmptyCache
<1>2. GtInv /\ [GtNext]_gtVars => GtInv'
  <2> SUFFICES ASSUME GtInv, [GtNext]_gtVars PROVE GtInv'
    OBVIOUS
  <2>1. ASSUME NEW r \in GtRequests, Handle(r) PROVE GtInv'
    BY <2>1, HandleKeepsHome
  <2>2. ASSUME NEW c \in gtComputing, NEW n \in GtSizes, ComputeEnds(c, n) PROVE GtInv'
    BY <2>2, ComputeEndsKeepsHome
  <2>3. CASE CacheEvict
    <3>1. CacheIsHome'
      BY <2>3, RestrictedCache DEF GtInv, CacheEvict, CacheIsHome
    <3> QED BY <2>3, <3>1 DEF CacheEvict, GtInv, ComputingIsHome, ServedIsHome
  <2>4. ASSUME UNCHANGED <<gtCache, gtComputing, gtServed>> PROVE GtInv'
    BY <2>4 DEF GtInv, CacheIsHome, ComputingIsHome, ServedIsHome
  <2>5. ASSUME NEW ok \in BOOLEAN, Ping(ok) PROVE GtInv'
    BY <2>4, <2>5 DEF Ping
  <2>6. CASE RateCleanup
    BY <2>4, <2>6 DEF RateCleanup
  <2>7. CASE GtTick
    BY <2>4, <2>7 DEF GtTick
  <2>8. CASE UNCHANGED gtVars
    BY <2>4, <2>8 DEF gtVars
  <2> QED BY <2>1, <2>2, <2>3, <2>5, <2>6, <2>7, <2>8 DEF GtNext
<1> QED
  BY <1>1, <1>2, GtInvIsBound, PTL DEF GtSpec

-------------------------------------------------------------------------------
(* The limits of the cache and of the rate limiter.                        *)

\* A cache whose charges add up.
CacheOK(items) == IsFiniteSet(DOMAIN items) /\ \A k \in DOMAIN items : items[k].charge \in Nat

\* What a cache is charged is the total of its entries.
LEMMA ChargedIsTotal ==
    ASSUME NEW items, CacheOK(items)
    PROVE  CacheCharged(items) = Total(EntryCharges(items), DOMAIN items) /\ CacheCharged(items) \in Nat
<1> DEFINE f == EntryCharges(items)
           D == DOMAIN items
<1>1. IsFiniteSet(D) /\ \A x \in D : f[x] \in Nat
  BY DEF CacheOK, EntryCharges
<1>2. CacheCharged(items) = MapThenSumSet(LAMBDA k : f[k], D)
  BY DEF CacheCharged
<1> HIDE DEF f, D
<1>3. MapThenSumSet(LAMBDA k : f[k], D) = Total(f, D)
  BY <1>1, SumIsTotal
<1>4. Total(f, D) \in Nat
  BY <1>1, TotalType
<1> QED
  BY <1>2, <1>3, <1>4 DEF f, D

\* What remains of a cache is charged the total of what remains.
LEMMA ChargedRest ==
    ASSUME NEW items, CacheOK(items), NEW S \in SUBSET DOMAIN items
    PROVE  /\ CacheOK(Restrict(items, S)) /\ DOMAIN Restrict(items, S) = S
           /\ CacheCharged(Restrict(items, S)) = Total(EntryCharges(items), S)
<1> DEFINE r == Restrict(items, S)
<1>1. DOMAIN r = S /\ \A x \in S : r[x] = items[x]
  BY DEF Restrict
<1> HIDE DEF r
<1>2. IsFiniteSet(S)
  BY FS_Subset DEF CacheOK
<1>3. CacheOK(r)
  BY <1>1, <1>2 DEF CacheOK
<1>4. \A x \in S : EntryCharges(r)[x] = EntryCharges(items)[x]
  BY <1>1 DEF EntryCharges
<1>5. CacheCharged(r) = Total(EntryCharges(r), S)
  BY <1>1, <1>3, ChargedIsTotal
<1>6. Total(EntryCharges(r), S) = Total(EntryCharges(items), S)
  BY <1>4, TotalSame
<1> QED
  BY <1>1, <1>3, <1>5, <1>6 DEF r

\* Taking some entries away gives back what they were charged.
LEMMA ChargedSplit ==
    ASSUME NEW items, CacheOK(items), NEW S \in SUBSET DOMAIN items
    PROVE  /\ CacheCharged(Restrict(items, S)) \in Nat
           /\ CacheCharged(Restrict(items, DOMAIN items \ S)) \in Nat
           /\ CacheCharged(items) = CacheCharged(Restrict(items, S))
                                    + CacheCharged(Restrict(items, DOMAIN items \ S))
<1> DEFINE f == EntryCharges(items)
           R == DOMAIN items \ S
<1>1. R \in SUBSET DOMAIN items /\ S \cup R = DOMAIN items /\ S \cap R = {}
  OBVIOUS
<1>2. IsFiniteSet(S) /\ IsFiniteSet(R) /\ \A x \in S \cup R : f[x] \in Nat
  BY FS_Subset DEF CacheOK, EntryCharges
<1>3. /\ CacheCharged(Restrict(items, S)) = Total(f, S)
      /\ CacheCharged(Restrict(items, R)) = Total(f, R)
      /\ CacheCharged(items) = Total(f, DOMAIN items)
  BY <1>1, ChargedRest, ChargedIsTotal
<1> HIDE DEF f, R
<1>4. Total(f, S) \in Nat /\ Total(f, R) \in Nat /\ Total(f, S \cup R) = Total(f, S) + Total(f, R)
  BY <1>1, <1>2, TotalUnion
<1>5. /\ CacheCharged(Restrict(items, S)) \in Nat /\ CacheCharged(Restrict(items, R)) \in Nat
      /\ CacheCharged(items) = CacheCharged(Restrict(items, S)) + CacheCharged(Restrict(items, R))
  BY <1>1, <1>3, <1>4
<1> QED
  BY <1>5 DEF R

\* A new entry adds its charge.
LEMMA ChargedStored ==
    ASSUME NEW m, CacheOK(m), NEW k, k \notin DOMAIN m, NEW v, v.charge \in Nat
    PROVE  /\ CacheOK(Stored(m, k, v)) /\ DOMAIN Stored(m, k, v) = DOMAIN m \cup {k}
           /\ CacheCharged(Stored(m, k, v)) = CacheCharged(m) + v.charge
<1> DEFINE n == Stored(m, k, v)
<1>1. DOMAIN n = DOMAIN m \cup {k} /\ n[k] = v /\ \A x \in DOMAIN m : n[x] = m[x]
  BY DEF Stored
<1> HIDE DEF n
<1>2. IsFiniteSet(DOMAIN m) /\ IsFiniteSet(DOMAIN m \cup {k})
  BY FS_AddElement DEF CacheOK
<1>3. CacheOK(n)
  BY <1>1, <1>2 DEF CacheOK
<1> DEFINE f == EntryCharges(n)
           D == DOMAIN m
<1>4. f[k] = v.charge /\ \A x \in D : f[x] = EntryCharges(m)[x]
  BY <1>1 DEF EntryCharges
<1>5. \A x \in D \cup {k} : f[x] \in Nat
  BY <1>1, <1>3 DEF EntryCharges, CacheOK
<1>6. CacheCharged(n) = Total(f, D \cup {k}) /\ CacheCharged(m) = Total(EntryCharges(m), D)
  BY <1>1, <1>3, ChargedIsTotal
<1>7. Total(f, D) = Total(EntryCharges(m), D)
  BY <1>4, TotalSame
<1> HIDE DEF f, D
<1>8. Total(f, D) \in Nat /\ Total(f, D \cup {k}) = f[k] + Total(f, D)
  BY <1>2, <1>5, TotalAdd DEF D
<1>9. CacheCharged(n) = CacheCharged(m) + v.charge
  BY <1>4, <1>6, <1>7, <1>8
<1> QED
  BY <1>1, <1>3, <1>9 DEF n

\* The clock and the probe within their bounds.
ProbeOK == gtClock \in 0 .. GtMaxClock /\ gtFails \in 0 .. GtThreshold /\ gtHealthy \in BOOLEAN
BucketsOK == IsFiniteSet(DOMAIN gtBuckets) /\ Cardinality(DOMAIN gtBuckets) <= GtMaxClients
Budgeted ==
    /\ CacheOK(gtCache) /\ Cardinality(DOMAIN gtCache) <= GtMaxEntries
    /\ gtCharged = CacheCharged(gtCache) /\ gtCharged <= GtMaxCacheBytes

\* Set keeps the budget: whichever victims the map's order offers, what it leaves has room
\* for the new entry, and the charge follows.
LEMMA SetKeepsBudget ==
    ASSUME Budgeted, NEW k, NEW owner, NEW size \in GtSizes, CacheSet(k, owner, size)
    PROVE  Budgeted'
<1>0. /\ GtEntryCharge + size \in Nat /\ GtMaxCacheBytes \in Nat /\ GtMaxEntries \in Nat
      /\ CacheOK(gtCache) /\ IsFiniteSet(DOMAIN gtCache) /\ CacheCharged(gtCache) \in Nat
      /\ Cardinality(DOMAIN gtCache) \in Nat
  BY GtLimits, ChargedIsTotal, FS_CardinalityType DEF Budgeted, CacheOK
<1>1. CASE GtEntryCharge + size > GtMaxCacheBytes
  <2> DEFINE S == DOMAIN gtCache \ {k}
  <2>1. gtCache' = Restrict(gtCache, S)
    BY <1>1 DEF CacheSet
  <2>2. gtCharged' = gtCharged - (IF k \in DOMAIN gtCache THEN gtCache[k].charge ELSE 0)
    BY <1>1 DEF CacheSet
  <2>3. S \in SUBSET DOMAIN gtCache
    OBVIOUS
  <2>4. CacheOK(gtCache') /\ DOMAIN gtCache' = S /\ CacheCharged(gtCache') = Total(EntryCharges(gtCache), S)
    BY <1>0, <2>1, <2>3, ChargedRest
  <2>5. Cardinality(S) <= Cardinality(DOMAIN gtCache) /\ Cardinality(S) \in Nat
    BY <1>0, <2>3, FS_Subset, FS_CardinalityType
  <2>6. CacheCharged(gtCache) = Total(EntryCharges(gtCache), DOMAIN gtCache)
    BY <1>0, ChargedIsTotal
  <2>7. CASE k \in DOMAIN gtCache
    <3>1. \A y \in DOMAIN gtCache : EntryCharges(gtCache)[y] \in Nat
      BY <1>0 DEF CacheOK, EntryCharges
    <3>2. /\ Total(EntryCharges(gtCache), S) = Total(EntryCharges(gtCache), DOMAIN gtCache) - EntryCharges(gtCache)[k]
          /\ Total(EntryCharges(gtCache), S) \in Nat
      BY <1>0, <2>7, <3>1, TotalRemove
    <3>3. EntryCharges(gtCache)[k] = gtCache[k].charge /\ gtCache[k].charge \in Nat
      BY <1>0, <2>7 DEF EntryCharges, CacheOK
    <3>4. gtCharged' = CacheCharged(gtCache') /\ gtCharged' <= gtCharged
      BY <1>0, <2>2, <2>4, <2>6, <2>7, <3>2, <3>3 DEF Budgeted
    <3> HIDE DEF S
    <3> QED
      BY <1>0, <2>4, <2>5, <2>6, <3>2, <3>4 DEF Budgeted
  <2>8. CASE k \notin DOMAIN gtCache
    <3>1. S = DOMAIN gtCache
      BY <2>8
    <3>2. gtCharged' = gtCharged
      BY <1>0, <2>2, <2>8 DEF Budgeted
    <3> QED
      BY <1>0, <2>4, <2>6, <3>1, <3>2 DEF Budgeted
  <2> QED
    BY <2>7, <2>8
<1>2. CASE ~ (GtEntryCharge + size > GtMaxCacheBytes)
  <2> DEFINE v == [owner |-> owner, expires |-> gtClock + GtTTL, charge |-> GtEntryCharge + size]
  <2>1. PICK s \in CacheRemains(k, size) :
          /\ gtCache' = Stored(Restrict(gtCache, s), k, v)
          /\ gtCharged' = gtCharged - CacheCharged(Restrict(gtCache, DOMAIN gtCache \ s)) + GtEntryCharge + size
    BY <1>2 DEF CacheSet
  <2>2. /\ s \in SUBSET (DOMAIN gtCache \ {k}) /\ Cardinality(s) < GtMaxEntries
        /\ CacheCharged(Restrict(gtCache, s)) + GtEntryCharge + size <= GtMaxCacheBytes
    BY <2>1 DEF CacheRemains
  <2>3. v.charge = GtEntryCharge + size
    OBVIOUS
  <2> HIDE DEF v
  <2> DEFINE m == Restrict(gtCache, s)
             r == Restrict(gtCache, DOMAIN gtCache \ s)
  <2>4. s \in SUBSET DOMAIN gtCache /\ k \notin s
    BY <2>2
  <2>5. CacheOK(m) /\ DOMAIN m = s
    BY <1>0, <2>4, ChargedRest
  <2>6. CacheCharged(m) \in Nat /\ CacheCharged(r) \in Nat /\ CacheCharged(gtCache) = CacheCharged(m) + CacheCharged(r)
    BY <1>0, <2>4, ChargedSplit
  <2>7. gtCache' = Stored(m, k, v) /\ gtCharged' = gtCharged - CacheCharged(r) + GtEntryCharge + size
    BY <2>1
  <2>8. CacheCharged(m) + GtEntryCharge + size <= GtMaxCacheBytes
    BY <2>2
  <2> HIDE DEF m, r
  <2>9. CacheOK(gtCache') /\ DOMAIN gtCache' = s \cup {k} /\ CacheCharged(gtCache') = CacheCharged(m) + v.charge
    BY <1>0, <2>3, <2>4, <2>5, <2>7, ChargedStored
  <2>10. IsFiniteSet(s) /\ Cardinality(s) \in Nat
    BY <1>0, <2>4, FS_Subset, FS_CardinalityType
  <2>11. Cardinality(s \cup {k}) = Cardinality(s) + 1
    BY <2>4, <2>10, FS_AddElement
  <2>12. GtEntryCharge \in Nat /\ size \in Nat
    BY GtLimits
  <2>13. gtCharged' = CacheCharged(gtCache') /\ gtCharged' <= GtMaxCacheBytes
    BY <1>0, <2>3, <2>6, <2>7, <2>8, <2>9, <2>12 DEF Budgeted
  <2>14. Cardinality(DOMAIN gtCache') <= GtMaxEntries
    BY <1>0, <2>2, <2>9, <2>10, <2>11
  <2> QED
    BY <2>9, <2>13, <2>14 DEF Budgeted
<1> QED
  BY <1>1, <1>2

\* The sweep keeps it too.
LEMMA EvictKeepsBudget ==
    ASSUME Budgeted, CacheEvict
    PROVE  Budgeted'
<1> DEFINE S == {k \in DOMAIN gtCache : CacheLive(k)}
<1>0. /\ CacheOK(gtCache) /\ IsFiniteSet(DOMAIN gtCache) /\ Cardinality(DOMAIN gtCache) \in Nat
      /\ GtMaxCacheBytes \in Nat /\ GtMaxEntries \in Nat
  BY GtLimits, FS_CardinalityType DEF Budgeted, CacheOK
<1>1. gtCache' = Restrict(gtCache, S) /\ gtCharged' = CacheCharged(gtCache') /\ S \in SUBSET DOMAIN gtCache
  BY DEF CacheEvict
<1> HIDE DEF S
<1>2. CacheOK(gtCache') /\ DOMAIN gtCache' = S
  BY <1>0, <1>1, ChargedRest
<1>3. Cardinality(S) <= Cardinality(DOMAIN gtCache) /\ Cardinality(S) \in Nat
  BY <1>0, <1>1, FS_Subset, FS_CardinalityType
<1>4. /\ CacheCharged(gtCache') \in Nat /\ CacheCharged(Restrict(gtCache, DOMAIN gtCache \ S)) \in Nat
      /\ CacheCharged(gtCache) = CacheCharged(gtCache') + CacheCharged(Restrict(gtCache, DOMAIN gtCache \ S))
  BY <1>0, <1>1, ChargedSplit
<1> QED
  BY <1>0, <1>1, <1>2, <1>3, <1>4 DEF Budgeted

\* A charge to an address never makes the limiter remember more addresses than it may.
LEMMA RateKeepsBuckets ==
    ASSUME BucketsOK, NEW ip, RateCharge(ip)
    PROVE  BucketsOK'
<1>1. CASE ~ Known(ip)
  BY <1>1 DEF RateCharge, BucketsOK
<1>2. CASE Known(ip)
  <2>1. DOMAIN gtBuckets' = DOMAIN gtBuckets \cup {ip}
    BY <1>2 DEF RateCharge, Stored
  <2>2. IsFiniteSet(DOMAIN gtBuckets) /\ Cardinality(DOMAIN gtBuckets) \in Nat /\ GtMaxClients \in Nat
    BY GtLimits, FS_CardinalityType DEF BucketsOK
  <2>3. CASE ip \in DOMAIN gtBuckets
    <3>1. DOMAIN gtBuckets' = DOMAIN gtBuckets
      BY <2>1, <2>3
    <3> QED
      BY <3>1 DEF BucketsOK
  <2>4. CASE ip \notin DOMAIN gtBuckets
    <3>1. Cardinality(DOMAIN gtBuckets) < GtMaxClients
      BY <1>2, <2>4 DEF Known
    <3>2. /\ IsFiniteSet(DOMAIN gtBuckets \cup {ip})
          /\ Cardinality(DOMAIN gtBuckets \cup {ip}) = Cardinality(DOMAIN gtBuckets) + 1
      BY <2>2, <2>4, FS_AddElement
    <3> QED
      BY <2>1, <2>2, <3>1, <3>2 DEF BucketsOK
  <2> QED
    BY <2>3, <2>4
<1> QED
  BY <1>1, <1>2

\* Every step keeps the limits.
LEMMA GtLimitsStep ==
    ASSUME ProbeOK, BucketsOK, Budgeted, [GtNext]_gtVars
    PROVE  ProbeOK' /\ BucketsOK' /\ Budgeted'
<1>1. ASSUME NEW r \in GtRequests, Handle(r) PROVE ProbeOK' /\ BucketsOK' /\ Budgeted'
  <2>1. UNCHANGED <<gtClock, gtFails, gtHealthy, gtCache, gtCharged>>
    BY <1>1 DEF Handle
  <2>2. RateCharge(r.ip) \/ UNCHANGED gtBuckets
    BY <1>1 DEF Handle
  <2>3. BucketsOK'
    BY <2>2, RateKeepsBuckets DEF BucketsOK
  <2> QED
    BY <2>1, <2>3 DEF ProbeOK, Budgeted
<1>2. ASSUME NEW c \in gtComputing, NEW n \in GtSizes, ComputeEnds(c, n)
      PROVE  ProbeOK' /\ BucketsOK' /\ Budgeted'
  <2>1. CacheSet(CacheKey(c.tenant, c.request), c.tenant, n) /\ UNCHANGED <<gtClock, gtFails, gtHealthy, gtBuckets>>
    BY <1>2 DEF ComputeEnds
  <2>2. Budgeted'
    BY <2>1, SetKeepsBudget
  <2> QED
    BY <2>1, <2>2 DEF ProbeOK, BucketsOK
<1>3. ASSUME NEW ok \in BOOLEAN, Ping(ok) PROVE ProbeOK' /\ BucketsOK' /\ Budgeted'
  <2>1. /\ UNCHANGED <<gtClock, gtBuckets, gtCache, gtCharged>>
        /\ gtFails' = (IF ok THEN 0 ELSE Lesser(GtThreshold, gtFails + 1))
        /\ gtHealthy' = IF ok THEN TRUE ELSE IF gtFails + 1 >= GtThreshold THEN FALSE ELSE gtHealthy
    BY <1>3 DEF Ping
  <2>2. gtFails' \in 0 .. GtThreshold
    BY <2>1, GtLimits DEF ProbeOK, Lesser
  <2>3. gtHealthy' \in BOOLEAN
    BY <2>1 DEF ProbeOK
  <2> QED
    BY <2>1, <2>2, <2>3 DEF ProbeOK, BucketsOK, Budgeted
<1>4. CASE RateCleanup
  <2>1. UNCHANGED <<gtClock, gtFails, gtHealthy, gtCache, gtCharged>>
    BY <1>4 DEF RateCleanup
  <2>2. DOMAIN gtBuckets' \subseteq DOMAIN gtBuckets
    BY <1>4 DEF RateCleanup, Restrict
  <2>3. /\ IsFiniteSet(DOMAIN gtBuckets') /\ Cardinality(DOMAIN gtBuckets') <= Cardinality(DOMAIN gtBuckets)
        /\ Cardinality(DOMAIN gtBuckets') \in Nat /\ Cardinality(DOMAIN gtBuckets) \in Nat /\ GtMaxClients \in Nat
    BY <2>2, FS_Subset, FS_CardinalityType, GtLimits DEF BucketsOK
  <2>4. BucketsOK'
    BY <2>3 DEF BucketsOK
  <2> QED
    BY <2>1, <2>4 DEF ProbeOK, Budgeted
<1>5. CASE CacheEvict
  <2>1. UNCHANGED <<gtClock, gtFails, gtHealthy, gtBuckets>>
    BY <1>5 DEF CacheEvict
  <2> QED
    BY <1>5, <2>1, EvictKeepsBudget DEF ProbeOK, BucketsOK
<1>6. CASE GtTick
  BY <1>6, GtLimits DEF GtTick, ProbeOK, BucketsOK, Budgeted
<1>7. CASE UNCHANGED gtVars
  BY <1>7 DEF gtVars, ProbeOK, BucketsOK, Budgeted
<1> QED
  BY <1>1, <1>2, <1>3, <1>4, <1>5, <1>6, <1>7 DEF GtNext

\* The cache is charged what its entries are charged and stays within its entries and its
\* bytes, and the rate limiter remembers at most its number of addresses: for every limit,
\* every size and every choice of victims, over overwrites, expiry, oversized values and the
\* sweep (ttl.go: Set, deleteExpiredLocked; ratelimit.go: allow, cleanup).
THEOREM GatesKeepLimits == GtSpec => []GtTypeOK
<1>1. ASSUME GtInit PROVE ProbeOK /\ BucketsOK /\ Budgeted
  <2>1. DOMAIN gtBuckets = {} /\ DOMAIN gtCache = {} /\ gtCharged = 0
    BY <1>1 DEF GtInit, EmptyCache
  <2>2. IsFiniteSet({}) /\ Cardinality({}) = 0
    BY FS_EmptySet
  <2>3. CacheOK(gtCache)
    BY <2>1, <2>2 DEF CacheOK
  <2>4. CacheCharged(gtCache) = 0
    BY <2>1, <2>3, ChargedIsTotal, TotalEmpty
  <2>5. ProbeOK
    BY <1>1, GtLimits DEF GtInit, ProbeOK
  <2> QED
    BY <2>1, <2>2, <2>3, <2>4, <2>5, GtLimits DEF BucketsOK, Budgeted
<1>2. ProbeOK /\ BucketsOK /\ Budgeted => GtTypeOK
  BY DEF ProbeOK, BucketsOK, Budgeted, GtTypeOK
<1>3. ProbeOK /\ BucketsOK /\ Budgeted /\ [GtNext]_gtVars => (ProbeOK /\ BucketsOK /\ Budgeted)'
  BY GtLimitsStep
<1> QED
  BY <1>1, <1>2, <1>3, PTL DEF GtSpec

-------------------------------------------------------------------------------
(* Keys.                                                                   *)

\* overflowKey keeps the tenant, the service, the signal and the status.
LEMMA OverflowKeyFields ==
    ASSUME NEW k \in LmKeys
    PROVE  /\ OverflowKey(k).tenant = k.tenant
           /\ OverflowKey(k).signal = k.signal
           /\ OverflowKey(k).name = OtherName
           /\ ScopeOf(OverflowKey(k)) = ScopeOf(k)
           /\ OverflowKey(OverflowKey(k)) = OverflowKey(k)
<1>1. k \in KeyRecords
  BY LmKeysAssumption
<1>2. /\ OverflowKey(k) \in KeyRecords
      /\ OverflowKey(k).tenant = k.tenant /\ OverflowKey(k).service = k.service
      /\ OverflowKey(k).signal = k.signal /\ OverflowKey(k).name = OtherName
      /\ OverflowKey(OverflowKey(k)) = OverflowKey(k)
  BY <1>1 DEF OverflowKey, KeyRecords
<1> QED
  BY <1>2 DEF ScopeOf

\* A key and its overflow key are counted by the same counters.
LEMMA KeyFacts ==
    ASSUME NEW k \in AllKeys
    PROVE  /\ OverflowKey(k) \in AllKeys
           /\ k.signal \in LmSignals /\ k.tenant \in LmTenants /\ ScopeOf(k) \in LmScopes
           /\ SignalCap[k.signal] \in Nat /\ NameCap[k.signal] \in Nat
           /\ SeriesCap[k.signal] \in Nat
           /\ ScopeOf(k)[3] = k.signal
<1>1. PICK j \in LmKeys : k = j \/ k = OverflowKey(j)
  BY DEF AllKeys
<1>2. /\ k.signal = j.signal /\ k.tenant = j.tenant /\ ScopeOf(k) = ScopeOf(j)
      /\ OverflowKey(k) = OverflowKey(j)
  BY <1>1, OverflowKeyFields
<1>3. /\ j.signal \in LmSignals /\ j.tenant \in LmTenants /\ ScopeOf(j) \in LmScopes
      /\ OverflowKey(j) \in AllKeys
  BY DEF LmSignals, LmTenants, LmScopes, AllKeys
<1>4. ScopeOf(k)[3] = k.signal
  BY DEF ScopeOf
<1> QED
  BY <1>2, <1>3, <1>4, LmCapsAssumption

-------------------------------------------------------------------------------
(* Counting.                                                               *)

\* The members of a set of keys that a counter counts.
OfSignal(S, s) == {k \in S : k.signal = s}
OfTenant(S, t) == {k \in S : k.tenant = t}
OfScope(S, c) == {k \in S : ScopeOf(k) = c}

\* Counting a part of a set before and after one member enters or leaves it.
LEMMA CountPart ==
    ASSUME NEW S, IsFiniteSet(S), NEW A \in SUBSET S, NEW x
    PROVE  /\ IsFiniteSet(A) /\ Cardinality(A) \in Nat
           /\ x \notin S => Cardinality(A \cup {x}) = Cardinality(A) + 1
           /\ x \in A => Cardinality(A) = Cardinality(A \ {x}) + 1
           /\ Cardinality(A \ {x}) \in Nat
<1>1. IsFiniteSet(A)
  BY FS_Subset
<1>2. IsFiniteSet(A \ {x}) /\ Cardinality(A) \in Nat
  BY <1>1, FS_RemoveElement, FS_CardinalityType
<1>3. Cardinality(A \ {x}) \in Nat
  BY <1>2, FS_CardinalityType
<1>4. x \notin S => Cardinality(A \cup {x}) = Cardinality(A) + 1
  BY <1>1, FS_AddElement
<1>5. Cardinality(A \ {x}) = IF x \in A THEN Cardinality(A) - 1 ELSE Cardinality(A)
  BY <1>1, FS_RemoveElement
<1> QED
  BY <1>1, <1>2, <1>3, <1>4, <1>5

\* One key more or less moves the counter of its own signal by one and no other.
LEMMA CountSignal ==
    ASSUME NEW S, IsFiniteSet(S), NEW x, NEW s
    PROVE  /\ Cardinality(OfSignal(S, s)) \in Nat
           /\ x \notin S /\ x.signal = s => Cardinality(OfSignal(S \cup {x}, s)) = Cardinality(OfSignal(S, s)) + 1
           /\ x \in S /\ x.signal = s => Cardinality(OfSignal(S, s)) = Cardinality(OfSignal(S \ {x}, s)) + 1
           /\ x.signal # s => OfSignal(S \cup {x}, s) = OfSignal(S, s) /\ OfSignal(S \ {x}, s) = OfSignal(S, s)
           /\ Cardinality(OfSignal(S \ {x}, s)) \in Nat
<1> DEFINE A == OfSignal(S, s)
<1>0. A = OfSignal(S, s)
  OBVIOUS
<1>1. A \in SUBSET S
  BY DEF OfSignal
<1>2. OfSignal(S \ {x}, s) = A \ {x}
  BY DEF OfSignal
<1>3. x.signal = s => OfSignal(S \cup {x}, s) = A \cup {x}
  BY DEF OfSignal
<1>4. x.signal # s => OfSignal(S \cup {x}, s) = A /\ A \ {x} = A
  BY DEF OfSignal
<1>5. x \in S /\ x.signal = s => x \in A
  BY DEF OfSignal
<1> HIDE DEF A
<1>6. /\ Cardinality(A) \in Nat /\ Cardinality(A \ {x}) \in Nat
      /\ x \notin S => Cardinality(A \cup {x}) = Cardinality(A) + 1
      /\ x \in A => Cardinality(A) = Cardinality(A \ {x}) + 1
  <2>1. Cardinality(A) \in Nat
    BY <1>1, CountPart
  <2>2. Cardinality(A \ {x}) \in Nat
    BY <1>1, CountPart
  <2>3. x \notin S => Cardinality(A \cup {x}) = Cardinality(A) + 1
    BY <1>1, CountPart
  <2>4. x \in A => Cardinality(A) = Cardinality(A \ {x}) + 1
    BY <1>1, CountPart
  <2> QED BY <2>1, <2>2, <2>3, <2>4
<1>7. CASE x.signal = s
  <2>1. OfSignal(S \cup {x}, s) = A \cup {x}
    BY <1>3, <1>7
  <2>2. x \in S => Cardinality(A) = Cardinality(A \ {x}) + 1
    BY <1>5, <1>6, <1>7
  <2> QED BY <1>0, <1>2, <1>6, <1>7, <2>1, <2>2
<1>8. CASE x.signal # s
  BY <1>0, <1>2, <1>4, <1>6, <1>8
<1> QED
  BY <1>7, <1>8

\* One key more or less moves the counter of its own tenant by one and no other.
LEMMA CountTenant ==
    ASSUME NEW S, IsFiniteSet(S), NEW x, NEW t
    PROVE  /\ Cardinality(OfTenant(S, t)) \in Nat
           /\ x \notin S /\ x.tenant = t => Cardinality(OfTenant(S \cup {x}, t)) = Cardinality(OfTenant(S, t)) + 1
           /\ x \in S /\ x.tenant = t => Cardinality(OfTenant(S, t)) = Cardinality(OfTenant(S \ {x}, t)) + 1
           /\ x.tenant # t => OfTenant(S \cup {x}, t) = OfTenant(S, t) /\ OfTenant(S \ {x}, t) = OfTenant(S, t)
           /\ Cardinality(OfTenant(S \ {x}, t)) \in Nat
<1> DEFINE A == OfTenant(S, t)
<1>0. A = OfTenant(S, t)
  OBVIOUS
<1>1. A \in SUBSET S
  BY DEF OfTenant
<1>2. OfTenant(S \ {x}, t) = A \ {x}
  BY DEF OfTenant
<1>3. x.tenant = t => OfTenant(S \cup {x}, t) = A \cup {x}
  BY DEF OfTenant
<1>4. x.tenant # t => OfTenant(S \cup {x}, t) = A /\ A \ {x} = A
  BY DEF OfTenant
<1>5. x \in S /\ x.tenant = t => x \in A
  BY DEF OfTenant
<1> HIDE DEF A
<1>6. /\ Cardinality(A) \in Nat /\ Cardinality(A \ {x}) \in Nat
      /\ x \notin S => Cardinality(A \cup {x}) = Cardinality(A) + 1
      /\ x \in A => Cardinality(A) = Cardinality(A \ {x}) + 1
  <2>1. Cardinality(A) \in Nat
    BY <1>1, CountPart
  <2>2. Cardinality(A \ {x}) \in Nat
    BY <1>1, CountPart
  <2>3. x \notin S => Cardinality(A \cup {x}) = Cardinality(A) + 1
    BY <1>1, CountPart
  <2>4. x \in A => Cardinality(A) = Cardinality(A \ {x}) + 1
    BY <1>1, CountPart
  <2> QED BY <2>1, <2>2, <2>3, <2>4
<1>7. CASE x.tenant = t
  <2>1. OfTenant(S \cup {x}, t) = A \cup {x}
    BY <1>3, <1>7
  <2>2. x \in S => Cardinality(A) = Cardinality(A \ {x}) + 1
    BY <1>5, <1>6, <1>7
  <2> QED BY <1>0, <1>2, <1>6, <1>7, <2>1, <2>2
<1>8. CASE x.tenant # t
  BY <1>0, <1>2, <1>4, <1>6, <1>8
<1> QED
  BY <1>7, <1>8

\* One key more or less moves the counter of its own scope by one and no other.
LEMMA CountScope ==
    ASSUME NEW S, IsFiniteSet(S), NEW x, NEW c
    PROVE  /\ Cardinality(OfScope(S, c)) \in Nat
           /\ x \notin S /\ ScopeOf(x) = c => Cardinality(OfScope(S \cup {x}, c)) = Cardinality(OfScope(S, c)) + 1
           /\ x \in S /\ ScopeOf(x) = c => Cardinality(OfScope(S, c)) = Cardinality(OfScope(S \ {x}, c)) + 1
           /\ ScopeOf(x) # c => OfScope(S \cup {x}, c) = OfScope(S, c) /\ OfScope(S \ {x}, c) = OfScope(S, c)
           /\ Cardinality(OfScope(S \ {x}, c)) \in Nat
<1> DEFINE A == OfScope(S, c)
<1>0. A = OfScope(S, c)
  OBVIOUS
<1>1. A \in SUBSET S
  BY DEF OfScope
<1>2. OfScope(S \ {x}, c) = A \ {x}
  BY DEF OfScope
<1>3. ScopeOf(x) = c => OfScope(S \cup {x}, c) = A \cup {x}
  BY DEF OfScope
<1>4. ScopeOf(x) # c => OfScope(S \cup {x}, c) = A /\ A \ {x} = A
  BY DEF OfScope
<1>5. x \in S /\ ScopeOf(x) = c => x \in A
  BY DEF OfScope
<1> HIDE DEF A
<1>6. /\ Cardinality(A) \in Nat /\ Cardinality(A \ {x}) \in Nat
      /\ x \notin S => Cardinality(A \cup {x}) = Cardinality(A) + 1
      /\ x \in A => Cardinality(A) = Cardinality(A \ {x}) + 1
  <2>1. Cardinality(A) \in Nat
    BY <1>1, CountPart
  <2>2. Cardinality(A \ {x}) \in Nat
    BY <1>1, CountPart
  <2>3. x \notin S => Cardinality(A \cup {x}) = Cardinality(A) + 1
    BY <1>1, CountPart
  <2>4. x \in A => Cardinality(A) = Cardinality(A \ {x}) + 1
    BY <1>1, CountPart
  <2> QED BY <2>1, <2>2, <2>3, <2>4
<1>7. CASE ScopeOf(x) = c
  <2>1. OfScope(S \cup {x}, c) = A \cup {x}
    BY <1>3, <1>7
  <2>2. x \in S => Cardinality(A) = Cardinality(A \ {x}) + 1
    BY <1>5, <1>6, <1>7
  <2> QED BY <1>0, <1>2, <1>6, <1>7, <2>1, <2>2
<1>8. CASE ScopeOf(x) # c
  BY <1>0, <1>2, <1>4, <1>6, <1>8
<1> QED
  BY <1>7, <1>8

-------------------------------------------------------------------------------
(* The inductive invariant.                                                *)

\* Each counter is the number of charged series of its class.
ChargeExact ==
    /\ IsFiniteSet(Charged)
    /\ lmTotal = Cardinality(Charged)
    /\ \A s \in LmSignals : lmBySignal[s] = Cardinality(OfSignal(Charged, s))
    /\ \A c \in LmScopes : lmByService[c] = Cardinality(OfScope(Charged, c))
    /\ \A t \in LmTenants : lmByTenant[t] = Cardinality(OfTenant(Charged, t))

\* The reserve is part of what is active, and counted per signal.
ReserveExact ==
    /\ IsFiniteSet(lmOverflow)
    /\ lmOverflow \subseteq Active
    /\ \A s \in LmSignals : lmOverflowBySignal[s] = Cardinality(OfSignal(lmOverflow, s))

\* No counter is past its cap.
CapsBind ==
    /\ MaxSeries > 0 => lmTotal <= MaxSeries
    /\ \A s \in LmSignals : SignalCap[s] > 0 => lmBySignal[s] <= SignalCap[s]
    /\ \A c \in LmScopes : SeriesCap[c[3]] > 0 => lmByService[c] <= SeriesCap[c[3]]
    /\ \A t \in LmTenants : TenantLimit > 0 => lmByTenant[t] <= TenantLimit

\* A name is remembered only while a charged series of the service has it.
NamesLive ==
    \A c \in LmScopes : \A n \in lmNames[c] : \E k \in Charged : ScopeOf(k) = c /\ k.name = n

LmNamesOK == lmNames \in [LmScopes -> SUBSET {k.name : k \in AllKeys}]

LmInv == LmTypeOK /\ LmNamesOK /\ ChargeExact /\ ReserveExact /\ CapsBind /\ NamesLive

\* The inductive invariant is the census, in parts.
LEMMA LmInvIsCensus == LmInv => LmTypeOK /\ CensusExact
<1> SUFFICES ASSUME LmInv PROVE CensusExact
  BY DEF LmInv
<1>1. ASSUME NEW c \in LmScopes
      PROVE  lmNames[c] \subseteq {k.name : k \in {j \in Charged : ScopeOf(j) = c}}
  BY Zenon DEF LmInv, NamesLive
<1> QED
  BY <1>1 DEF LmInv, ChargeExact, ReserveExact, CapsBind, CensusExact, OfSignal, OfTenant, OfScope

\* Entering a window activates a series; a series is active while it has a window.
LEMMA ActiveAdd ==
    ASSUME NEW k, NEW w, lmPresent' = lmPresent \cup {<<k, w>>}
    PROVE  Active' = Active \cup {k}
<1>1. <<k, w>>[1] = k
  OBVIOUS
<1>2. \A j : j \in Active' <=> \E p \in lmPresent \cup {<<k, w>>} : j = p[1]
  BY Zenon DEF Active
<1>3. \A j : j \in Active <=> \E p \in lmPresent : j = p[1]
  BY Zenon DEF Active
<1>4. \A j : j \in Active' <=> j \in Active \/ j = k
  BY <1>1, <1>2, <1>3, Zenon
<1> QED
  BY <1>4

\* A series is active while it holds a window.
LEMMA ActiveHasWindow ==
    ASSUME LmTypeOK, NEW k
    PROVE  WindowsOf(lmPresent, k) # {} <=> k \in Active
<1>1. ASSUME k \in Active PROVE \E w \in LmWindows : <<k, w>> \in lmPresent
  <2>1. PICK p \in lmPresent : k = p[1]
    BY <1>1 DEF Active
  <2>2. PICK a \in AllKeys, w \in LmWindows : p = <<a, w>>
    BY DEF LmTypeOK
  <2> QED BY <2>1, <2>2
<1>2. ASSUME NEW w \in LmWindows, <<k, w>> \in lmPresent PROVE k \in Active
  <2>1. <<k, w>>[1] = k
    OBVIOUS
  <2> QED BY <1>2, <2>1, Zenon DEF Active
<1> QED
  BY <1>1, <1>2 DEF WindowsOf

\* Leaving a window deactivates a series exactly when it was the last one.
LEMMA ActiveRemove ==
    ASSUME LmTypeOK, NEW k, NEW w, <<k, w>> \in lmPresent, lmPresent' = lmPresent \ {<<k, w>>}
    PROVE  Active' = IF LastWindow(k, w) THEN Active \ {k} ELSE Active
<1>1. ASSUME NEW j PROVE j \in Active' <=> \E v \in LmWindows : <<j, v>> \in lmPresent'
  <2>1. ASSUME j \in Active' PROVE \E v \in LmWindows : <<j, v>> \in lmPresent'
    <3>1. PICK p \in lmPresent' : j = p[1]
      BY <2>1 DEF Active
    <3>2. PICK a \in AllKeys, v \in LmWindows : p = <<a, v>>
      BY DEF LmTypeOK
    <3> QED BY <3>1, <3>2
  <2>2. ASSUME NEW v \in LmWindows, <<j, v>> \in lmPresent' PROVE j \in Active'
    <3>1. <<j, v>>[1] = j
      OBVIOUS
    <3> QED BY <2>2, <3>1, Zenon DEF Active
  <2> QED BY <2>1, <2>2
<1>2. ASSUME NEW j PROVE j \in Active <=> \E v \in LmWindows : <<j, v>> \in lmPresent
  BY ActiveHasWindow DEF WindowsOf
<1>3. LastWindow(k, w) <=> k \notin Active'
  BY <1>1 DEF LastWindow, WindowsOf
<1>4. k \in Active
  <2>1. w \in LmWindows
    BY DEF LmTypeOK
  <2> QED BY <1>2, <2>1
<1>5. ASSUME NEW j, j # k PROVE j \in Active' <=> j \in Active
  BY <1>1, <1>2, <1>5
<1> QED
  BY <1>3, <1>4, <1>5

-------------------------------------------------------------------------------
(* The steps.                                                              *)

\* A new series, not yet charged, charged once: every census stays exact.
LEMMA ChargeUp ==
    ASSUME LmInv, NEW x \in AllKeys, x \notin Charged, Charged' = Charged \cup {x},
           Charge(x, 1)
    PROVE  /\ ChargeExact'
           /\ lmTotal' \in Nat /\ lmBySignal' \in [LmSignals -> Nat]
           /\ lmByService' \in [LmScopes -> Nat] /\ lmByTenant' \in [LmTenants -> Nat]
<1> USE DEF LmInv, LmTypeOK
<1>1. /\ x.signal \in LmSignals /\ x.tenant \in LmTenants /\ ScopeOf(x) \in LmScopes
  BY KeyFacts
<1>2. IsFiniteSet(Charged) /\ Charged \in SUBSET Charged
  BY DEF ChargeExact
<1>3. IsFiniteSet(Charged')
  BY <1>2, FS_AddElement
<1>4. lmTotal' = Cardinality(Charged')
  BY <1>2, CountPart DEF ChargeExact, Charge
<1>5. ASSUME NEW s \in LmSignals PROVE lmBySignal'[s] = Cardinality(OfSignal(Charged', s))
  <2>1. lmBySignal[s] = Cardinality(OfSignal(Charged, s))
    BY DEF ChargeExact
  <2>2. lmBySignal'[s] = IF x.signal = s THEN lmBySignal[s] + 1 ELSE lmBySignal[s]
    BY DEF Charge
  <2> QED BY <1>2, <2>1, <2>2, CountSignal
<1>6. ASSUME NEW c \in LmScopes PROVE lmByService'[c] = Cardinality(OfScope(Charged', c))
  <2>1. lmByService[c] = Cardinality(OfScope(Charged, c))
    BY DEF ChargeExact
  <2>2. lmByService'[c] = IF ScopeOf(x) = c THEN lmByService[c] + 1 ELSE lmByService[c]
    BY DEF Charge
  <2> QED BY <1>2, <2>1, <2>2, CountScope
<1>7. ASSUME NEW t \in LmTenants PROVE lmByTenant'[t] = Cardinality(OfTenant(Charged', t))
  <2>1. lmByTenant[t] = Cardinality(OfTenant(Charged, t))
    BY DEF ChargeExact
  <2>2. lmByTenant'[t] = IF x.tenant = t THEN lmByTenant[t] + 1 ELSE lmByTenant[t]
    BY DEF Charge
  <2> QED BY <1>2, <2>1, <2>2, CountTenant
<1>8. /\ lmTotal' \in Nat /\ lmBySignal' \in [LmSignals -> Nat]
      /\ lmByService' \in [LmScopes -> Nat] /\ lmByTenant' \in [LmTenants -> Nat]
  BY <1>1 DEF Charge
<1> QED
  BY <1>3, <1>4, <1>5, <1>6, <1>7, <1>8 DEF ChargeExact

\* A charged series that leaves its last window gives its charge back once.
LEMMA ChargeDown ==
    ASSUME LmInv, NEW x \in AllKeys, x \in Charged, Charged' = Charged \ {x},
           Charge(x, -1)
    PROVE  /\ ChargeExact' /\ CapsBind'
           /\ lmTotal' \in Nat /\ lmBySignal' \in [LmSignals -> Nat]
           /\ lmByService' \in [LmScopes -> Nat] /\ lmByTenant' \in [LmTenants -> Nat]
<1> USE DEF LmInv, LmTypeOK
<1>1. /\ x.signal \in LmSignals /\ x.tenant \in LmTenants /\ ScopeOf(x) \in LmScopes
  BY KeyFacts
<1>2. IsFiniteSet(Charged) /\ Charged \in SUBSET Charged
  BY DEF ChargeExact
<1>3. IsFiniteSet(Charged')
  BY <1>2, FS_RemoveElement
<1>4. lmTotal' = Cardinality(Charged') /\ lmTotal' \in Nat
  <2>1. Cardinality(Charged) = Cardinality(Charged \ {x}) + 1
    BY <1>2, CountPart
  <2>2. Cardinality(Charged \ {x}) \in Nat
    BY <1>2, CountPart
  <2> QED BY <2>1, <2>2 DEF ChargeExact, Charge
<1>5. ASSUME NEW s \in LmSignals
      PROVE  lmBySignal'[s] = Cardinality(OfSignal(Charged', s)) /\ lmBySignal'[s] \in Nat
  <2>1. lmBySignal[s] = Cardinality(OfSignal(Charged, s))
    BY DEF ChargeExact
  <2>2. lmBySignal'[s] = IF x.signal = s THEN lmBySignal[s] - 1 ELSE lmBySignal[s]
    BY DEF Charge
  <2> QED BY <1>2, <2>1, <2>2, CountSignal
<1>6. ASSUME NEW c \in LmScopes
      PROVE  lmByService'[c] = Cardinality(OfScope(Charged', c)) /\ lmByService'[c] \in Nat
  <2>1. lmByService[c] = Cardinality(OfScope(Charged, c))
    BY DEF ChargeExact
  <2>2. lmByService'[c] = IF ScopeOf(x) = c THEN lmByService[c] - 1 ELSE lmByService[c]
    BY DEF Charge
  <2>3. Cardinality(OfScope(Charged, c)) \in Nat /\ Cardinality(OfScope(Charged \ {x}, c)) \in Nat
    BY <1>2, CountScope
  <2>4. ScopeOf(x) = c => Cardinality(OfScope(Charged, c)) = Cardinality(OfScope(Charged \ {x}, c)) + 1
    BY <1>2, CountScope
  <2>5. ScopeOf(x) # c => OfScope(Charged \ {x}, c) = OfScope(Charged, c)
    BY <1>2, CountScope
  <2> QED BY <2>1, <2>2, <2>3, <2>4, <2>5
<1>7. ASSUME NEW t \in LmTenants
      PROVE  lmByTenant'[t] = Cardinality(OfTenant(Charged', t)) /\ lmByTenant'[t] \in Nat
  <2>1. lmByTenant[t] = Cardinality(OfTenant(Charged, t))
    BY DEF ChargeExact
  <2>2. lmByTenant'[t] = IF x.tenant = t THEN lmByTenant[t] - 1 ELSE lmByTenant[t]
    BY DEF Charge
  <2>3. Cardinality(OfTenant(Charged, t)) \in Nat /\ Cardinality(OfTenant(Charged \ {x}, t)) \in Nat
    BY <1>2, CountTenant
  <2>4. x.tenant = t => Cardinality(OfTenant(Charged, t)) = Cardinality(OfTenant(Charged \ {x}, t)) + 1
    BY <1>2, CountTenant
  <2>5. x.tenant # t => OfTenant(Charged \ {x}, t) = OfTenant(Charged, t)
    BY <1>2, CountTenant
  <2> QED BY <2>1, <2>2, <2>3, <2>4, <2>5
<1>8. /\ lmBySignal' \in [LmSignals -> Nat]
      /\ lmByService' \in [LmScopes -> Nat] /\ lmByTenant' \in [LmTenants -> Nat]
  BY <1>1, <1>5, <1>6, <1>7 DEF Charge
<1>9. ChargeExact'
  BY <1>3, <1>4, <1>5, <1>6, <1>7 DEF ChargeExact
<1>10. CapsBind'
  <2>1. lmTotal' <= lmTotal
    BY DEF Charge
  <2>2. \A s \in LmSignals : lmBySignal'[s] <= lmBySignal[s]
    BY DEF Charge
  <2>3. \A c \in LmScopes : lmByService'[c] <= lmByService[c]
    BY DEF Charge
  <2>4. \A t \in LmTenants : lmByTenant'[t] <= lmByTenant[t]
    BY DEF Charge
  <2>5. /\ MaxSeries \in Nat /\ TenantLimit \in Nat
        /\ \A s \in LmSignals : SignalCap[s] \in Nat
        /\ \A c \in LmScopes : SeriesCap[c[3]] \in Nat
    BY LmCapsAssumption DEF LmSignals, LmScopes, ScopeOf
  <2>6. MaxSeries > 0 => lmTotal' <= MaxSeries
    BY <1>4, <2>1, <2>5 DEF CapsBind
  <2>7. \A s \in LmSignals : SignalCap[s] > 0 => lmBySignal'[s] <= SignalCap[s]
    BY <1>8, <2>2, <2>5 DEF CapsBind
  <2>8. \A c \in LmScopes : SeriesCap[c[3]] > 0 => lmByService'[c] <= SeriesCap[c[3]]
    BY <1>8, <2>3, <2>5 DEF CapsBind
  <2>9. \A t \in LmTenants : TenantLimit > 0 => lmByTenant'[t] <= TenantLimit
    BY <1>8, <2>4, <2>5 DEF CapsBind
  <2> QED BY <2>6, <2>7, <2>8, <2>9 DEF CapsBind
<1> QED
  BY <1>4, <1>8, <1>9, <1>10

\* A window more or less of a series that stays active leaves the census alone.
LEMMA CensusStays ==
    ASSUME LmInv, Active' = Active, lmPresent' \subseteq AllKeys \X LmWindows,
           Uncharged, UNCHANGED <<lmOverflow, lmOverflowBySignal>>
    PROVE  LmInv'
<1>1. Charged' = Charged
  BY DEF Charged
<1>2. LmTypeOK' /\ LmNamesOK' /\ CapsBind'
  BY DEF LmInv, LmTypeOK, LmNamesOK, CapsBind, Uncharged
<1>3. ChargeExact'
  BY <1>1 DEF LmInv, ChargeExact, Uncharged
<1>4. ReserveExact'
  BY DEF LmInv, ReserveExact
<1>5. NamesLive'
  BY <1>1 DEF LmInv, NamesLive, Uncharged
<1> QED
  BY <1>2, <1>3, <1>4, <1>5 DEF LmInv

\* The reserve gains or loses one overflow series and nothing else is touched.
LEMMA ReserveMoves ==
    ASSUME LmInv, NEW x \in AllKeys, lmPresent' \subseteq AllKeys \X LmWindows, Uncharged,
           \/ /\ x \notin Active /\ Active' = Active \cup {x} /\ lmOverflow' = lmOverflow \cup {x}
              /\ lmOverflowBySignal' = [lmOverflowBySignal EXCEPT ![x.signal] = @ + 1]
           \/ /\ x \in lmOverflow /\ Active' = Active \ {x} /\ lmOverflow' = lmOverflow \ {x}
              /\ lmOverflowBySignal' = [lmOverflowBySignal EXCEPT ![x.signal] = @ - 1]
    PROVE  LmInv'
<1>1. lmOverflow \subseteq Active /\ IsFiniteSet(lmOverflow)
  BY DEF LmInv, ReserveExact
<1>2. Charged' = Charged
  BY <1>1 DEF Charged
<1>3. x.signal \in LmSignals
  BY KeyFacts
<1>4. ASSUME NEW s \in LmSignals
      PROVE  /\ lmOverflowBySignal'[s] = Cardinality(OfSignal(lmOverflow', s))
             /\ lmOverflowBySignal'[s] \in Nat
  <2>1. lmOverflowBySignal[s] = Cardinality(OfSignal(lmOverflow, s)) /\ lmOverflowBySignal[s] \in Nat
    BY DEF LmInv, ReserveExact, LmTypeOK
  <2>2. Cardinality(OfSignal(lmOverflow \ {x}, s)) \in Nat
    BY <1>1, CountSignal
  <2>3. x.signal # s => /\ OfSignal(lmOverflow \cup {x}, s) = OfSignal(lmOverflow, s)
                        /\ OfSignal(lmOverflow \ {x}, s) = OfSignal(lmOverflow, s)
    BY <1>1, CountSignal
  <2>4. x \notin lmOverflow /\ x.signal = s =>
          Cardinality(OfSignal(lmOverflow \cup {x}, s)) = Cardinality(OfSignal(lmOverflow, s)) + 1
    BY <1>1, CountSignal
  <2>5. x \in lmOverflow /\ x.signal = s =>
          Cardinality(OfSignal(lmOverflow, s)) = Cardinality(OfSignal(lmOverflow \ {x}, s)) + 1
    BY <1>1, CountSignal
  <2>6. lmOverflowBySignal \in [LmSignals -> Nat]
    BY DEF LmInv, LmTypeOK
  <2>7. CASE x \notin Active
    <3>1. x \notin lmOverflow
      BY <1>1, <2>7
    <3>2. lmOverflowBySignal'[s] = IF x.signal = s THEN lmOverflowBySignal[s] + 1 ELSE lmOverflowBySignal[s]
      BY <2>6, <3>1
    <3>3. lmOverflow' = lmOverflow \cup {x}
      BY <3>1
    <3> QED BY <2>1, <2>3, <2>4, <3>1, <3>2, <3>3
  <2>8. CASE x \in lmOverflow
    <3>1. x \in Active
      BY <1>1, <2>8
    <3>2. lmOverflowBySignal'[s] = IF x.signal = s THEN lmOverflowBySignal[s] - 1 ELSE lmOverflowBySignal[s]
      BY <2>6, <3>1
    <3>3. lmOverflow' = lmOverflow \ {x}
      BY <3>1
    <3> QED BY <2>1, <2>2, <2>3, <2>5, <2>8, <3>2, <3>3
  <2> QED BY <2>7, <2>8
<1>5. lmOverflowBySignal' \in [LmSignals -> Nat]
  BY <1>4 DEF LmInv, LmTypeOK
<1>6. IsFiniteSet(lmOverflow') /\ lmOverflow' \subseteq Active' /\ lmOverflow' \subseteq AllKeys
  BY <1>1, FS_AddElement, FS_RemoveElement DEF LmInv, LmTypeOK
<1>7. LmTypeOK' /\ LmNamesOK' /\ CapsBind'
  BY <1>5, <1>6 DEF LmInv, LmTypeOK, LmNamesOK, CapsBind, Uncharged
<1>8. ChargeExact'
  BY <1>2 DEF LmInv, ChargeExact, Uncharged
<1>9. ReserveExact'
  BY <1>4, <1>6 DEF ReserveExact
<1>10. NamesLive'
  BY <1>2 DEF LmInv, NamesLive, Uncharged
<1> QED
  BY <1>7, <1>8, <1>9, <1>10 DEF LmInv

\* addLocked keeps the census, as the caller checks the caps before a new series is charged.
LEMMA AddKeepsCensus ==
    ASSUME LmInv, NEW x \in AllKeys, NEW w \in LmWindows, NEW isOverflow \in BOOLEAN,
           Add(x, w, isOverflow), isOverflow \/ x \in Active \/ ~ Overflows(x)
    PROVE  LmInv'
<1>1. Active' = Active \cup {x} /\ lmPresent' \subseteq AllKeys \X LmWindows
  <2>1. lmPresent' = lmPresent \cup {<<x, w>>}
    BY DEF Add
  <2>2. Active' = Active \cup {x}
    BY <2>1, ActiveAdd
  <2> QED BY <2>1, <2>2 DEF LmInv, LmTypeOK
<1>2. WindowsOf(lmPresent, x) # {} <=> x \in Active
  BY ActiveHasWindow DEF LmInv
<1>3. CASE x \in Active
  <2>1. Active' = Active
    BY <1>1, <1>3
  <2>2. Uncharged /\ UNCHANGED <<lmOverflow, lmOverflowBySignal>>
    BY <1>2, <1>3 DEF Add
  <2> QED BY <1>1, <2>1, <2>2, CensusStays
<1>4. CASE x \notin Active /\ isOverflow
  <2>1. /\ lmOverflow' = lmOverflow \cup {x} /\ Uncharged
        /\ lmOverflowBySignal' = [lmOverflowBySignal EXCEPT ![x.signal] = @ + 1]
    BY <1>2, <1>4 DEF Add
  <2> QED BY <1>1, <1>4, <2>1, ReserveMoves
<1>5. CASE x \notin Active /\ ~ isOverflow
  <2>0. LmTypeOK /\ CapsBind /\ ReserveExact /\ NamesLive /\ LmNamesOK
    BY DEF LmInv
  <2>1. /\ Charge(x, 1) /\ UNCHANGED <<lmOverflow, lmOverflowBySignal>>
        /\ lmNames' = IF NameCap[x.signal] > 0
                      THEN [lmNames EXCEPT ![ScopeOf(x)] = @ \union {x.name}] ELSE lmNames
    BY <1>2, <1>5 DEF Add
  <2>2. x \notin Charged /\ Charged' = Charged \cup {x}
    <3>1. x \notin lmOverflow
      BY <1>5, <2>0 DEF ReserveExact
    <3> QED BY <1>1, <1>5, <2>1, <3>1 DEF Charged
  <2>3. /\ ChargeExact'
        /\ lmTotal' \in Nat /\ lmBySignal' \in [LmSignals -> Nat]
        /\ lmByService' \in [LmScopes -> Nat] /\ lmByTenant' \in [LmTenants -> Nat]
    BY <2>1, <2>2, ChargeUp
  <2>4. LmTypeOK'
    BY <1>1, <2>0, <2>1, <2>3 DEF LmTypeOK
  <2>5. ReserveExact'
    BY <1>1, <2>0, <2>1 DEF ReserveExact
  <2>6. ~ Overflows(x)
    BY <1>5
  <2>7. CapsBind'
    <3> USE <2>0 DEF LmTypeOK
    <3>0. /\ MaxSeries \in Nat /\ TenantLimit \in Nat
          /\ x.signal \in LmSignals /\ x.tenant \in LmTenants /\ ScopeOf(x) \in LmScopes
          /\ SignalCap[x.signal] \in Nat /\ SeriesCap[x.signal] \in Nat /\ ScopeOf(x)[3] = x.signal
      BY KeyFacts, LmCapsAssumption
    <3>1. MaxSeries > 0 => lmTotal' <= MaxSeries
      BY <2>1, <2>6, <3>0 DEF Overflows, Charge
    <3>2. ASSUME NEW s \in LmSignals, SignalCap[s] > 0 PROVE lmBySignal'[s] <= SignalCap[s]
      <4>1. CASE s = x.signal
        BY <2>1, <2>6, <3>0, <3>2, <4>1 DEF Overflows, Charge
      <4>2. CASE s # x.signal
        BY <2>1, <3>0, <3>2, <4>2 DEF CapsBind, Charge
      <4> QED BY <4>1, <4>2
    <3>3. ASSUME NEW c \in LmScopes, SeriesCap[c[3]] > 0 PROVE lmByService'[c] <= SeriesCap[c[3]]
      <4>1. CASE c = ScopeOf(x)
        <5>1. lmByService'[c] = lmByService[c] + 1
          BY <2>1, <4>1 DEF Charge
        <5>2. ~ (lmByService[c] >= SeriesCap[c[3]])
          BY <2>6, <3>0, <3>3, <4>1 DEF Overflows
        <5> QED BY <3>0, <4>1, <5>1, <5>2
      <4>2. CASE c # ScopeOf(x)
        BY <2>1, <3>0, <3>3, <4>2 DEF CapsBind, Charge
      <4> QED BY <4>1, <4>2
    <3>4. ASSUME NEW t \in LmTenants, TenantLimit > 0 PROVE lmByTenant'[t] <= TenantLimit
      <4>1. CASE t = x.tenant
        BY <2>1, <2>6, <3>0, <3>4, <4>1 DEF Overflows, Charge
      <4>2. CASE t # x.tenant
        BY <2>1, <3>0, <3>4, <4>2 DEF CapsBind, Charge
      <4> QED BY <4>1, <4>2
    <3> QED BY <3>1, <3>2, <3>3, <3>4 DEF CapsBind
  <2>8. LmNamesOK'
    BY <2>0, <2>1 DEF LmNamesOK
  <2>9. NamesLive'
    <3> SUFFICES ASSUME NEW c \in LmScopes, NEW n \in lmNames'[c]
                 PROVE  \E k \in Charged' : ScopeOf(k) = c /\ k.name = n
      BY DEF NamesLive
    <3>1. n \in lmNames[c] \/ (c = ScopeOf(x) /\ n = x.name)
      BY <2>0, <2>1 DEF LmNamesOK
    <3> QED BY <2>0, <2>2, <3>1 DEF NamesLive
  <2> QED BY <2>3, <2>4, <2>5, <2>7, <2>8, <2>9 DEF LmInv
<1> QED
  BY <1>3, <1>4, <1>5

\* Releasing a window keeps the census.
LEMMA ReleaseKeepsCensus ==
    ASSUME LmInv, NEW x \in AllKeys, NEW w \in LmWindows, Release(x, w)
    PROVE  LmInv'
<1>0. LmTypeOK /\ CapsBind /\ ReserveExact /\ NamesLive /\ LmNamesOK
  BY DEF LmInv
<1>1. /\ Active' = IF LastWindow(x, w) THEN Active \ {x} ELSE Active
      /\ lmPresent' \subseteq AllKeys \X LmWindows
  BY <1>0, ActiveRemove DEF Release, LmTypeOK
<1>2. x \in Active
  <2>1. x = <<x, w>>[1]
    OBVIOUS
  <2> QED BY <2>1, Zenon DEF Active, Release
<1>3. CASE ~ LastWindow(x, w)
  BY <1>1, <1>3, CensusStays DEF Release
<1>4. CASE LastWindow(x, w) /\ x \in lmOverflow
  <2>1. /\ lmOverflow' = lmOverflow \ {x} /\ Uncharged
        /\ lmOverflowBySignal' = [lmOverflowBySignal EXCEPT ![x.signal] = @ - 1]
    BY <1>4 DEF Release
  <2> QED BY <1>1, <1>4, <2>1, ReserveMoves
<1>5. CASE LastWindow(x, w) /\ x \notin lmOverflow
  <2>1. /\ Charge(x, -1) /\ UNCHANGED <<lmOverflow, lmOverflowBySignal>>
        /\ lmNames' = [lmNames EXCEPT ![ScopeOf(x)] = @ \ {x.name}]
    BY <1>5 DEF Release
  <2>2. x \in Charged /\ Charged' = Charged \ {x}
    BY <1>1, <1>2, <1>5, <2>1 DEF Charged
  <2>3. /\ ChargeExact' /\ CapsBind'
        /\ lmTotal' \in Nat /\ lmBySignal' \in [LmSignals -> Nat]
        /\ lmByService' \in [LmScopes -> Nat] /\ lmByTenant' \in [LmTenants -> Nat]
    BY <2>1, <2>2, ChargeDown
  <2>4. LmTypeOK'
    BY <1>0, <1>1, <2>1, <2>3 DEF LmTypeOK
  <2>5. ReserveExact'
    BY <1>0, <1>1, <1>5, <2>1 DEF ReserveExact
  <2>6. LmNamesOK'
    BY <1>0, <2>1 DEF LmNamesOK
  <2>7. NamesLive'
    <3> SUFFICES ASSUME NEW c \in LmScopes, NEW n \in lmNames'[c]
                 PROVE  \E k \in Charged' : ScopeOf(k) = c /\ k.name = n
      BY DEF NamesLive
    <3>1. n \in lmNames[c] /\ ~ (c = ScopeOf(x) /\ n = x.name)
      BY <1>0, <2>1 DEF LmNamesOK
    <3>2. PICK k \in Charged : ScopeOf(k) = c /\ k.name = n
      BY <1>0, <3>1 DEF NamesLive
    <3> QED BY <2>2, <3>1, <3>2
  <2> QED BY <2>3, <2>4, <2>5, <2>6, <2>7 DEF LmInv
<1> QED
  BY <1>3, <1>4, <1>5

-------------------------------------------------------------------------------
(* The theorem.                                                            *)

\* The census of the limiter is exact and every cap but the name cap binds,
\* however windows are entered, left, rolled back and re-entered, and whether
\* an overflow key is charged as a series of its own or kept in the reserve
\* (checkLocked, addLocked, releaseLocked).
THEOREM LimiterCensus == LmSpec => [](LmTypeOK /\ CensusExact)
<1>1. LmInit => LmInv
  <2> SUFFICES ASSUME LmInit PROVE LmInv
    OBVIOUS
  <2>1. Active = {} /\ Charged = {}
    BY DEF LmInit, Active, Charged
  <2>2. IsFiniteSet({}) /\ Cardinality({}) = 0
    BY FS_EmptySet
  <2>3. /\ \A s : OfSignal({}, s) = {}
        /\ \A c : OfScope({}, c) = {}
        /\ \A t : OfTenant({}, t) = {}
    BY DEF OfSignal, OfScope, OfTenant
  <2>4. ChargeExact
    BY <2>1, <2>2, <2>3 DEF LmInit, ChargeExact
  <2>5. ReserveExact
    BY <2>1, <2>2, <2>3 DEF LmInit, ReserveExact
  <2>6. CapsBind
    <3>1. /\ MaxSeries \in Nat /\ TenantLimit \in Nat
          /\ \A s \in LmSignals : SignalCap[s] \in Nat
          /\ \A c \in LmScopes : SeriesCap[c[3]] \in Nat
      BY LmCapsAssumption DEF LmSignals, LmScopes, ScopeOf
    <3> QED BY <3>1 DEF LmInit, CapsBind
  <2>7. LmTypeOK /\ LmNamesOK /\ NamesLive
    BY DEF LmInit, LmTypeOK, LmNamesOK, NamesLive
  <2> QED BY <2>4, <2>5, <2>6, <2>7 DEF LmInv
<1>2. LmInv /\ [LmNext]_lmVars => LmInv'
  <2> SUFFICES ASSUME LmInv, [LmNext]_lmVars PROVE LmInv'
    OBVIOUS
  <2>1. ASSUME NEW k \in AllKeys, NEW w \in LmWindows, Admit(k, w) PROVE LmInv'
    <3>1. WindowsOf(lmPresent, k) # {} <=> k \in Active
      BY ActiveHasWindow DEF LmInv
    <3>2. CASE k \in Active \/ ~ Overflows(k)
      <4>1. Add(k, w, FALSE)
        BY <2>1, <3>1, <3>2 DEF Admit
      <4> QED BY <3>2, <4>1, AddKeepsCensus
    <3>3. CASE ~ (k \in Active \/ ~ Overflows(k))
      <4>1. Add(OverflowKey(k), w, TRUE) /\ OverflowKey(k) \in AllKeys
        BY <2>1, <3>1, <3>3, KeyFacts DEF Admit
      <4> QED BY <4>1, AddKeepsCensus
    <3> QED BY <3>2, <3>3
  <2>2. ASSUME NEW k \in AllKeys, NEW w \in LmWindows, Release(k, w) PROVE LmInv'
    BY <2>2, ReleaseKeepsCensus
  <2>3. CASE UNCHANGED lmVars
    <3>1. Active' = Active /\ lmPresent' \subseteq AllKeys \X LmWindows /\ Uncharged
          /\ UNCHANGED <<lmOverflow, lmOverflowBySignal>>
      BY <2>3 DEF lmVars, Active, Uncharged, LmInv, LmTypeOK
    <3> QED BY <3>1, CensusStays
  <2> QED BY <2>1, <2>2, <2>3 DEF LmNext
<1> QED
  BY <1>1, <1>2, LmInvIsCensus, PTL DEF LmSpec

-------------------------------------------------------------------------------
(* The points of a metrics Export.                                         *)

\* The sums of points are numbers, and they add up over disjoint sets.
LEMMA PointSums ==
    ASSUME NEW e \in MxExporters, NEW A \in SUBSET Indexes(e), NEW B \in SUBSET Indexes(e),
           A \cap B = {}
    PROVE  /\ Good(e, A) \in Nat /\ Bad(e, A) \in Nat
           /\ Good(e, A \cup B) = Good(e, A) + Good(e, B)
           /\ Bad(e, A \cup B) = Bad(e, A) + Bad(e, B)
<1>1. \A i \in Indexes(e) : Goods(e)[i] \in Nat /\ Bads(e)[i] \in Nat
  BY MxAssumption DEF Goods, Bads
<1>2. \A S \in SUBSET Indexes(e) :
         /\ IsFiniteSet(S)
         /\ Good(e, S) = Total(Goods(e), S) /\ Bad(e, S) = Total(Bads(e), S)
  <2> SUFFICES ASSUME NEW S \in SUBSET Indexes(e)
               PROVE  /\ IsFiniteSet(S)
                      /\ Good(e, S) = Total(Goods(e), S) /\ Bad(e, S) = Total(Bads(e), S)
    OBVIOUS
  <2>1. IsFiniteSet(S)
    BY MxAssumption, FS_Subset
  <2>2. Good(e, S) = (CHOOSE it : Iterates(it, Goods(e), S))[S]
    BY DEF Good, MapThenSumSet, MapThenFoldSet, Iterates
  <2>3. Bad(e, S) = (CHOOSE it : Iterates(it, Bads(e), S))[S]
    BY DEF Bad, MapThenSumSet, MapThenFoldSet, Iterates
  <2> QED
    BY <1>1, <2>1, <2>2, <2>3, ChosenIsTotal
<1>3. A \cup B \in SUBSET Indexes(e)
  OBVIOUS
<1> QED
  BY <1>1, <1>2, <1>3, TotalUnion, TotalType

\* An empty set has no points.
LEMMA NoPoints ==
    ASSUME NEW e \in MxExporters
    PROVE  Good(e, {}) = 0 /\ Bad(e, {}) = 0
<1>1. /\ Good(e, {}) \in Nat /\ Bad(e, {}) \in Nat
      /\ Good(e, {} \cup {}) = Good(e, {}) + Good(e, {})
      /\ Bad(e, {} \cup {}) = Bad(e, {}) + Bad(e, {})
  BY PointSums
<1>2. {} \cup {} = {}
  OBVIOUS
<1>3. \A x \in Nat : x = x + x => x = 0
  OBVIOUS
<1>4. Good(e, {}) = Good(e, {}) + Good(e, {}) /\ Bad(e, {}) = Bad(e, {}) + Bad(e, {})
  BY <1>1, <1>2, Zenon
<1> QED
  BY <1>1, <1>3, <1>4, Zenon

\* The parts of a request.
LEMMA Parts ==
    ASSUME NEW e \in MxExporters
    PROVE  /\ Forward(e) \subseteq Ingested(e) /\ Ingested(e) \subseteq Indexes(e)
           /\ Good(e, Ingested(e)) = Good(e, Forward(e)) + Good(e, Ingested(e) \ Forward(e))
           /\ Bad(e, Ingested(e)) = Bad(e, Forward(e)) + Bad(e, Ingested(e) \ Forward(e))
           /\ Good(e, Forward(e)) \in Nat /\ Bad(e, Forward(e)) \in Nat
           /\ Good(e, Ingested(e) \ Forward(e)) \in Nat /\ Bad(e, Ingested(e) \ Forward(e)) \in Nat
           /\ Good(e, Ingested(e)) \in Nat /\ Bad(e, Ingested(e)) \in Nat
<1> DEFINE I == Ingested(e)
           F == Forward(e)
           R == I \ F
<1>1. F \subseteq I /\ I \subseteq Indexes(e) /\ R \subseteq Indexes(e)
  BY DEF Forward, Ingested
<1>2. I = F \cup R /\ F \cap R = {}
  BY <1>1
<1> HIDE DEF I, F, R
<1>3. /\ Good(e, F) \in Nat /\ Bad(e, F) \in Nat
      /\ Good(e, I) = Good(e, F) + Good(e, R) /\ Bad(e, I) = Bad(e, F) + Bad(e, R)
  BY <1>1, <1>2, PointSums
<1>4. /\ Good(e, R) \in Nat /\ Bad(e, R) \in Nat
  <2>1. R \cap {} = {} /\ {} \in SUBSET Indexes(e)
    OBVIOUS
  <2> QED
    BY <1>1, <2>1, PointSums
<1> QED
  BY <1>1, <1>3, <1>4 DEF I, F, R

-------------------------------------------------------------------------------
(* Where an Export is decides what each side holds of it.                  *)

MxFunctions ==
    /\ DOMAIN mxPc = MxExporters /\ DOMAIN mxAck = MxExporters /\ DOMAIN mxAll = MxExporters
    /\ DOMAIN mxUpRejected = MxExporters /\ DOMAIN mxPartial = MxExporters
    /\ DOMAIN mxUpstream = MxExporters /\ DOMAIN mxResp = MxExporters
    /\ DOMAIN mxLocal = MxExporters

\* Until the backend answers, its resources are acknowledged provisionally.
BeforeAnswer(e) ==
    mxPc[e] \in {"forward", "waiting", "sent"} =>
        /\ mxAck[e] = Forward(e) /\ Forward(e) # {}
        /\ mxUpstream[e] = FALSE /\ mxUpRejected[e] = 0 /\ mxPartial[e] = FALSE
        /\ mxAll[e] = (Forward(e) = Ingested(e))

\* The local path knows by then what the backend holds.
AfterAnswer(e) ==
    mxPc[e] = "local" =>
        \/ /\ mxUpstream[e] = TRUE /\ mxAck[e] = Forward(e) /\ Forward(e) # {}
           /\ mxAll[e] = (Forward(e) = Ingested(e)) /\ mxUpRejected[e] \in Nat
        \/ /\ mxUpstream[e] = FALSE /\ mxAck[e] = {} /\ mxAll[e] = FALSE
           /\ mxUpRejected[e] = 0 /\ mxPartial[e] = FALSE

\* Only an Export that is answered OK has been counted.
LocalOnce(e) ==
    /\ DOMAIN mxLocal[e] = Indexes(e)
    /\ \A i \in Indexes(e) : mxLocal[e][i] \in {0, 1}
    /\ ~(mxPc[e] = "answered" /\ mxResp[e].code = "ok") => \A i \in Indexes(e) : mxLocal[e][i] = 0

\* Every point of an Export that is answered OK is accounted for.
OkAccounts(e) ==
    mxPc[e] = "answered" /\ mxResp[e].code = "ok" =>
        mxResp[e].rejected = Points(e, Ingested(e)) - HeldUpstream(e) - HeldLocally(e)

MxHolds(e) == BeforeAnswer(e) /\ AfterAnswer(e) /\ LocalOnce(e) /\ OkAccounts(e)

MxInv == MxFunctions /\ \A e \in MxExporters : MxHolds(e)

\* Nothing of an Export moves.
MxRests(e) ==
    /\ mxPc'[e] = mxPc[e] /\ mxAck'[e] = mxAck[e] /\ mxAll'[e] = mxAll[e]
    /\ mxUpRejected'[e] = mxUpRejected[e] /\ mxPartial'[e] = mxPartial[e]
    /\ mxUpstream'[e] = mxUpstream[e] /\ mxResp'[e] = mxResp[e] /\ mxLocal'[e] = mxLocal[e]

\* An Export at rest keeps its facts.
LEMMA RestHolds ==
    ASSUME NEW e \in MxExporters, MxHolds(e), MxRests(e)
    PROVE  MxHolds(e)'
<1>1. HeldUpstream(e)' = HeldUpstream(e)
  BY DEF MxRests, HeldUpstream, Accepted
<1>2. HeldLocally(e)' = HeldLocally(e)
  BY DEF MxRests, HeldLocally, Accepted
<1>3. OkAccounts(e)'
  BY <1>1, <1>2 DEF MxRests, OkAccounts, MxHolds
<1> QED
  BY <1>3 DEF MxRests, MxHolds, BeforeAnswer, AfterAnswer, LocalOnce

\* A forward that fails leaves everything to the local path, or ends the Export.
LEMMA FailureHolds ==
    ASSUME NEW e \in MxExporters, NEW s, MxFunctions, MxHolds(e), ForwardFailed(e, s),
           mxPc[e] \in {"forward", "waiting", "sent"}
    PROVE  MxFunctions' /\ MxHolds(e)' /\ \A f \in MxExporters \ {e} : MxRests(f)
<1>1. CASE mxRequired
  <2>1. PICK c \in {"invalid", "retry"} : Answer(e, c, 0)
    BY <1>1 DEF ForwardFailed
  <2>2. UNCHANGED <<mxAck, mxAll, mxUpRejected, mxPartial, mxUpstream, mxLocal>>
    BY <1>1 DEF ForwardFailed
  <2>3. mxPc'[e] = "answered" /\ mxResp'[e].code # "ok"
    BY <2>1 DEF Answer, MxFunctions
  <2>4. MxFunctions' /\ \A f \in MxExporters \ {e} : MxRests(f)
    BY <2>1, <2>2 DEF MxFunctions, MxRests, Answer
  <2> QED
    BY <2>2, <2>3, <2>4 DEF MxHolds, BeforeAnswer, AfterAnswer, LocalOnce, OkAccounts
<1>2. CASE ~ mxRequired
  <2>1. /\ MxGoto(e, "local")
        /\ mxAck' = [mxAck EXCEPT ![e] = {}] /\ mxAll' = [mxAll EXCEPT ![e] = FALSE]
        /\ UNCHANGED <<mxResp, mxUpRejected, mxPartial, mxUpstream, mxLocal>>
    BY <1>2 DEF ForwardFailed
  <2>2. mxPc'[e] = "local" /\ mxAck'[e] = {} /\ mxAll'[e] = FALSE
    BY <2>1 DEF MxGoto, MxFunctions
  <2>3. MxFunctions' /\ \A f \in MxExporters \ {e} : MxRests(f)
    BY <2>1 DEF MxFunctions, MxRests, MxGoto
  <2>4. mxUpstream[e] = FALSE /\ mxUpRejected[e] = 0 /\ mxPartial[e] = FALSE
    BY DEF MxHolds, BeforeAnswer
  <2> QED
    BY <2>1, <2>2, <2>3, <2>4 DEF MxHolds, BeforeAnswer, AfterAnswer, LocalOnce, OkAccounts
<1> QED
  BY <1>1, <1>2

\* Moving between the stations of the forward changes nothing else.
LEMMA ForwardMoves ==
    ASSUME NEW e \in MxExporters, MxFunctions, MxHolds(e),
           mxPc[e] \in {"forward", "waiting", "sent"},
           NEW l \in {"waiting", "sent"}, MxGoto(e, l),
           UNCHANGED <<mxAck, mxAll, mxUpRejected, mxPartial, mxUpstream, mxResp, mxLocal>>
    PROVE  MxFunctions' /\ MxHolds(e)' /\ \A f \in MxExporters \ {e} : MxRests(f)
<1>1. mxPc'[e] = l
  BY DEF MxGoto, MxFunctions
<1>2. MxFunctions' /\ \A f \in MxExporters \ {e} : MxRests(f)
  BY DEF MxFunctions, MxRests, MxGoto
<1> QED
  BY <1>1, <1>2 DEF MxHolds, BeforeAnswer, AfterAnswer, LocalOnce, OkAccounts

\* An OK answer that reports what neither side holds.
LEMMA LocalAnswers ==
    ASSUME NEW e \in MxExporters, MxFunctions, MxHolds(e), ApplyOK(e) \/ ApplyFails(e)
    PROVE  MxFunctions' /\ MxHolds(e)' /\ \A f \in MxExporters \ {e} : MxRests(f)
<1> DEFINE I == Ingested(e)
           F == Forward(e)
           R == I \ F
<1>1. mxPc[e] = "local" /\ \A i \in Indexes(e) : mxLocal[e][i] = 0
  BY DEF ApplyOK, ApplyFails, MxHolds, LocalOnce
<1>2. UNCHANGED <<mxAck, mxAll, mxUpRejected, mxPartial, mxUpstream>>
  BY DEF ApplyOK, ApplyFails
<1>3. PICK c, n : c \in {"ok", "retry"} /\ Answer(e, c, n)
  BY DEF ApplyOK, ApplyFails
<1>4. mxPc'[e] = "answered" /\ mxResp'[e] = [code |-> c, rejected |-> n]
  BY <1>3 DEF Answer, MxFunctions
<1>5. MxFunctions' /\ \A f \in MxExporters \ {e} : MxRests(f)
  BY <1>2, <1>3 DEF ApplyOK, ApplyFails, MxFunctions, MxRests, Answer
<1>6. BeforeAnswer(e)' /\ AfterAnswer(e)'
  BY <1>4 DEF BeforeAnswer, AfterAnswer
<1>7. /\ F \subseteq I /\ I \subseteq Indexes(e)
      /\ Good(e, I) = Good(e, F) + Good(e, R) /\ Bad(e, I) = Bad(e, F) + Bad(e, R)
      /\ Good(e, F) \in Nat /\ Bad(e, F) \in Nat /\ Good(e, R) \in Nat /\ Bad(e, R) \in Nat
      /\ Good(e, I) \in Nat /\ Bad(e, I) \in Nat /\ Good(e, {}) = 0 /\ Bad(e, {}) = 0
  BY Parts, NoPoints
<1>8. \/ mxUpstream[e] = TRUE /\ mxAck[e] = F /\ F # {} /\ mxAll[e] = (F = I)
           /\ mxUpRejected[e] \in Nat
      \/ mxUpstream[e] = FALSE /\ mxAck[e] = {} /\ mxAll[e] = FALSE
           /\ mxUpRejected[e] = 0 /\ mxPartial[e] = FALSE
  BY <1>1 DEF MxHolds, AfterAnswer
<1>9. LocalResources(e) \ mxAck[e] = IF mxUpstream[e] THEN R ELSE I
  BY <1>7, <1>8 DEF LocalResources
<1>10. HeldUpstream(e)' = IF mxUpstream[e] THEN Good(e, F) + Bad(e, F) - mxUpRejected[e] ELSE 0
  <2>1. Accepted(e)' = IF mxUpstream[e] THEN F ELSE {}
    BY <1>2 DEF Accepted
  <2>2. HeldUpstream(e)' = Points(e, Accepted(e)') - mxUpRejected[e]
    BY <1>2 DEF HeldUpstream
  <2> QED
    BY <1>7, <1>8, <2>1, <2>2 DEF Points
<1>11. CASE ApplyOK(e)
  <2>1. \A i \in Indexes(e) : mxLocal'[e][i] = IF i \in LocalResources(e) THEN 1 ELSE 0
    BY <1>1, <1>11 DEF ApplyOK, MxFunctions
  <2>2. DOMAIN mxLocal'[e] = Indexes(e)
    BY <1>11 DEF ApplyOK, MxFunctions
  <2>3. c = "ok" /\ n = LocalRejected(e) + mxUpRejected[e]
    <3>1. Answer(e, "ok", LocalRejected(e) + mxUpRejected[e])
      BY <1>11 DEF ApplyOK
    <3>2. mxResp'[e] = [code |-> "ok", rejected |-> LocalRejected(e) + mxUpRejected[e]]
      BY <3>1 DEF Answer, MxFunctions
    <3> QED
      BY <1>4, <3>2
  <2>4. LocalOnce(e)'
    BY <1>4, <2>1, <2>2, <2>3 DEF LocalOnce
  <2>5. {i \in I \ Accepted(e)' : mxLocal'[e][i] > 0} = IF mxUpstream[e] THEN R ELSE I
    BY <1>2, <1>7, <1>8, <1>9, <2>1 DEF Accepted, LocalResources
  <2>6. HeldLocally(e)' = IF mxUpstream[e] THEN Good(e, R) ELSE Good(e, I)
    <3>1. HeldLocally(e)' = Good(e, {i \in I \ Accepted(e)' : mxLocal'[e][i] > 0})
      BY DEF HeldLocally
    <3> QED
      BY <2>5, <3>1
  <2>7. n = IF mxUpstream[e] THEN Bad(e, R) + mxUpRejected[e] ELSE Bad(e, I)
    <3>1. LocalRejected(e) = IF mxUpstream[e] THEN Bad(e, R) ELSE Bad(e, I)
      BY <1>9 DEF LocalRejected
    <3>2. Bad(e, I) + 0 = Bad(e, I)
      BY <1>7
    <3> QED
      BY <1>8, <2>3, <3>1, <3>2
  <2>8. OkAccounts(e)'
    <3> SUFFICES n = Points(e, I) - HeldUpstream(e)' - HeldLocally(e)'
      BY <1>4 DEF OkAccounts
    <3> QED
      BY <1>7, <1>8, <1>10, <2>6, <2>7 DEF Points
  <2> QED
    BY <1>5, <1>6, <2>4, <2>8 DEF MxHolds
<1>12. CASE ApplyFails(e)
  <2>1. mxLocal' = mxLocal
    BY <1>12 DEF ApplyFails
  <2>2. LocalOnce(e)'
    BY <1>1, <2>1 DEF LocalOnce, MxHolds
  <2>3. {i \in I \ Accepted(e)' : mxLocal'[e][i] > 0} = {}
    BY <1>1, <1>7, <2>1
  <2>4. HeldLocally(e)' = 0
    <3>1. HeldLocally(e)' = Good(e, {i \in I \ Accepted(e)' : mxLocal'[e][i] > 0})
      BY DEF HeldLocally
    <3> QED
      BY <1>7, <2>3, <3>1
  <2>5. c = "ok" => mxUpstream[e] = TRUE /\ n = Good(e, R) + Bad(e, R) + mxUpRejected[e]
    <3> SUFFICES ASSUME c = "ok"
                 PROVE  mxUpstream[e] = TRUE /\ n = Good(e, R) + Bad(e, R) + mxUpRejected[e]
      OBVIOUS
    <3>1. CASE mxAll[e]
      <4>1. mxUpstream[e] = TRUE /\ F = I /\ mxUpRejected[e] \in Nat
        BY <1>8, <3>1
      <4>2. Answer(e, "ok", mxUpRejected[e])
        BY <1>12, <3>1 DEF ApplyFails
      <4>3. mxResp'[e] = [code |-> "ok", rejected |-> mxUpRejected[e]]
        BY <4>2 DEF Answer, MxFunctions
      <4>4. n = mxUpRejected[e]
        BY <1>4, <4>3
      <4>5. R = {}
        BY <4>1
      <4> QED
        BY <1>7, <4>1, <4>4, <4>5
    <3>2. CASE ~ mxAll[e] /\ mxAck[e] = {}
      <4>1. Answer(e, "retry", 0)
        BY <1>12, <3>2 DEF ApplyFails
      <4>2. mxResp'[e].code = "retry"
        BY <4>1 DEF Answer, MxFunctions
      <4> QED
        BY <1>4, <4>2
    <3>3. CASE ~ mxAll[e] /\ mxAck[e] # {}
      <4>1. mxUpstream[e] = TRUE /\ mxUpRejected[e] \in Nat
        BY <1>8, <3>3
      <4>2. Answer(e, "ok", LocalRejected(e) + LocalPending(e) + mxUpRejected[e])
        BY <1>12, <3>3 DEF ApplyFails
      <4>3. mxResp'[e] = [code |-> "ok",
                          rejected |-> LocalRejected(e) + LocalPending(e) + mxUpRejected[e]]
        BY <4>2 DEF Answer, MxFunctions
      <4>4. n = LocalRejected(e) + LocalPending(e) + mxUpRejected[e]
        BY <1>4, <4>3
      <4>5. LocalRejected(e) = Bad(e, R) /\ LocalPending(e) = Good(e, R)
        BY <1>9, <4>1 DEF LocalRejected, LocalPending
      <4> QED
        BY <1>7, <4>1, <4>4, <4>5
    <3> QED
      BY <3>1, <3>2, <3>3
  <2>6. OkAccounts(e)'
    <3> SUFFICES ASSUME c = "ok" PROVE n = Points(e, I) - HeldUpstream(e)' - HeldLocally(e)'
      BY <1>4 DEF OkAccounts
    <3>1. mxUpRejected[e] \in Nat
      BY <1>8
    <3> QED
      BY <1>7, <1>10, <2>4, <2>5, <3>1 DEF Points
  <2> QED
    BY <1>5, <1>6, <2>2, <2>6 DEF MxHolds
<1> QED
  BY <1>11, <1>12

\* A step of one Export keeps its facts and leaves the others alone.
LEMMA ExportHolds ==
    ASSUME NEW e \in MxExporters, MxFunctions, MxHolds(e),
           \/ Split(e) \/ MxAdmit(e) \/ WaiterGetsSlot(e) \/ WaiterTimesOut(e)
           \/ \E s \in {307, 400, 429, 503} : UpstreamFails(e, s)
           \/ \E n \in 0 .. Points(e, Forward(e)) : UpstreamAccepts(e, n)
           \/ ApplyOK(e) \/ ApplyFails(e) \/ MxRetry(e)
    PROVE  MxFunctions' /\ MxHolds(e)' /\ \A f \in MxExporters \ {e} : MxRests(f)
<1>1. CASE Split(e)
  <2>1. MxFunctions' /\ \A f \in MxExporters \ {e} : MxRests(f)
    BY <1>1 DEF Split, MxGoto, MxFunctions, MxRests
  <2>2. /\ mxAck'[e] = Forward(e) /\ mxAll'[e] = (Forward(e) # {} /\ Forward(e) = Ingested(e))
        /\ mxUpRejected'[e] = 0 /\ mxPartial'[e] = FALSE /\ mxUpstream'[e] = FALSE
        /\ mxPc'[e] = IF Forward(e) = {} THEN "local" ELSE "forward"
        /\ mxLocal' = mxLocal
    BY <1>1 DEF Split, MxGoto, MxFunctions
  <2>3. mxPc[e] = "idle"
    BY <1>1 DEF Split
  <2> QED
    BY <2>1, <2>2, <2>3 DEF MxHolds, BeforeAnswer, AfterAnswer, LocalOnce, OkAccounts
<1>2. CASE MxAdmit(e)
  <2>1. mxPc[e] = "forward"
    BY <1>2 DEF MxAdmit
  <2>2. \/ \E s : ForwardFailed(e, s)
        \/ \E l \in {"waiting", "sent"} :
             /\ MxGoto(e, l)
             /\ UNCHANGED <<mxAck, mxAll, mxUpRejected, mxPartial, mxUpstream, mxResp, mxLocal>>
    BY <1>2 DEF MxAdmit
  <2> QED
    BY <2>1, <2>2, FailureHolds, ForwardMoves
<1>3. CASE WaiterGetsSlot(e)
  BY <1>3, ForwardMoves DEF WaiterGetsSlot
<1>4. CASE WaiterTimesOut(e)
  BY <1>4, FailureHolds DEF WaiterTimesOut
<1>5. CASE \E s \in {307, 400, 429, 503} : UpstreamFails(e, s)
  BY <1>5, FailureHolds DEF UpstreamFails
<1>6. CASE \E n \in 0 .. Points(e, Forward(e)) : UpstreamAccepts(e, n)
  <2>1. PICK n \in 0 .. Points(e, Forward(e)) : UpstreamAccepts(e, n)
    BY <1>6
  <2>2. MxFunctions' /\ \A f \in MxExporters \ {e} : MxRests(f)
    BY <2>1 DEF UpstreamAccepts, MxGoto, MxFunctions, MxRests
  <2>3. /\ mxPc[e] = "sent" /\ mxPc'[e] = "local" /\ mxUpRejected'[e] = n
        /\ mxUpstream'[e] = TRUE /\ mxLocal' = mxLocal
        /\ mxAck' = mxAck /\ mxAll' = mxAll
    BY <2>1 DEF UpstreamAccepts, MxGoto, MxFunctions
  <2>4. n \in Nat
    BY Parts DEF Points
  <2> QED
    BY <2>2, <2>3, <2>4 DEF MxHolds, BeforeAnswer, AfterAnswer, LocalOnce, OkAccounts
<1>7. CASE ApplyOK(e) \/ ApplyFails(e)
  BY <1>7, LocalAnswers
<1>8. CASE MxRetry(e)
  <2>1. MxFunctions' /\ \A f \in MxExporters \ {e} : MxRests(f)
    BY <1>8 DEF MxRetry, MxGoto, MxFunctions, MxRests
  <2>2. /\ mxPc[e] = "answered" /\ mxResp[e].code = "retry"
        /\ mxPc'[e] = "idle" /\ mxLocal' = mxLocal
    BY <1>8 DEF MxRetry, MxGoto, MxFunctions
  <2> QED
    BY <2>1, <2>2 DEF MxHolds, BeforeAnswer, AfterAnswer, LocalOnce, OkAccounts
<1> QED
  BY <1>1, <1>2, <1>3, <1>4, <1>5, <1>6, <1>7, <1>8

\* An OK answer to a metrics Export reports exactly the points neither the backend nor the
\* aggregate holds, and no resource is counted twice over the deliveries of an Export, for
\* any requests, limits and tenant of the backend (exportMetrics, Export).
THEOREM MetricsAreAccounted == MxSpec => []MetricsAccounted
<1>1. MxInit => MxInv
  BY DEF MxInit, MxInv, MxFunctions, MxHolds, BeforeAnswer, AfterAnswer, LocalOnce, OkAccounts
<1>2. MxInv /\ [MxNext]_mxVars => MxInv'
  <2> SUFFICES ASSUME MxInv, [MxNext]_mxVars PROVE MxInv'
    OBVIOUS
  <2>1. ASSUME NEW e \in MxExporters,
               \/ Split(e) \/ MxAdmit(e) \/ WaiterGetsSlot(e) \/ WaiterTimesOut(e)
               \/ \E s \in {307, 400, 429, 503} : UpstreamFails(e, s)
               \/ \E n \in 0 .. Points(e, Forward(e)) : UpstreamAccepts(e, n)
               \/ ApplyOK(e) \/ ApplyFails(e) \/ MxRetry(e)
        PROVE  MxInv'
    <3>1. MxFunctions' /\ MxHolds(e)' /\ \A f \in MxExporters \ {e} : MxRests(f)
      BY <2>1, ExportHolds DEF MxInv
    <3>2. \A f \in MxExporters \ {e} : MxHolds(f)'
      BY <3>1, RestHolds DEF MxInv
    <3> QED
      BY <3>1, <3>2 DEF MxInv
  <2>2. CASE UNCHANGED <<mxPc, mxAck, mxAll, mxUpRejected, mxPartial, mxUpstream, mxResp, mxLocal>>
    <3>1. MxFunctions' /\ \A e \in MxExporters : MxRests(e)
      BY <2>2 DEF MxInv, MxFunctions, MxRests
    <3>2. \A e \in MxExporters : MxHolds(e)'
      BY <3>1, RestHolds DEF MxInv
    <3> QED
      BY <3>1, <3>2 DEF MxInv
  <2>3. CASE \E r \in MxReaders, q \in MxQueries : QueryStart(r, q) \/ QueryEnds(r, q)
    BY <2>2, <2>3 DEF QueryStart, QueryEnds
  <2>4. CASE UNCHANGED mxVars
    BY <2>2, <2>4 DEF mxVars
  <2> QED
    BY <2>1, <2>3, <2>4 DEF MxNext, MxStep
<1>3. MxInv => MetricsAccounted
  BY DEF MxInv, MxHolds, LocalOnce, OkAccounts, MetricsAccounted
<1> QED
  BY <1>1, <1>2, <1>3, PTL DEF MxSpec

-------------------------------------------------------------------------------
(* The admission budgets of the Prometheus client.                         *)

\* The bytes every Export would hold.
HeldBy == [e \in MxExporters |-> RequestBytes(e)]
Holding == MxSending \cup Waiting

\* A request has a size.
LEMMA RequestSized == \A e \in MxExporters : RequestBytes(e) \in Nat
<1> SUFFICES ASSUME NEW e \in MxExporters PROVE RequestBytes(e) \in Nat
  OBVIOUS
<1> DEFINE f == Bytes(e)
           D == Forward(e)
<1>1. D \subseteq Indexes(e)
  BY DEF Forward, Ingested
<1>2. IsFiniteSet(D) /\ \A i \in D : f[i] \in Nat
  BY <1>1, MxAssumption, FS_Subset DEF Bytes
<1>3. RequestBytes(e) = (CHOOSE it : Iterates(it, f, D))[D]
  BY DEF RequestBytes, MapThenSumSet, MapThenFoldSet, Iterates
<1> HIDE DEF f, D
<1>4. RequestBytes(e) = Total(f, D) /\ Total(f, D) \in Nat
  BY <1>2, <1>3, ChosenIsTotal, TotalType
<1> QED
  BY <1>4

\* The byte budget's use is the total over the calls that hold a place.
LEMMA HeldIsTotal ==
    /\ IsFiniteSet(Holding) /\ \A e \in Holding : HeldBy[e] \in Nat
    /\ HeldBytes = Total(HeldBy, Holding) /\ HeldBytes \in Nat
<1>1. Holding \subseteq MxExporters
  BY DEF Holding, MxSending, Waiting
<1>2. IsFiniteSet(Holding) /\ \A e \in Holding : HeldBy[e] \in Nat
  BY <1>1, MxLimits, FS_Subset, RequestSized DEF HeldBy
<1>3. HeldBytes = (CHOOSE it : Iterates(it, HeldBy, Holding))[Holding]
  BY DEF HeldBytes, MapThenSumSet, MapThenFoldSet, Iterates, HeldBy, Holding
<1> QED
  BY <1>2, <1>3, ChosenIsTotal, TotalType

\* So it is after any step: what a request weighs does not change.
LEMMA HeldNext == HeldBytes' = Total(HeldBy, Holding')
<1>1. (HeldBytes = Total(HeldBy, Holding))'
  BY HeldIsTotal, PTL
<1>2. HeldBy' = HeldBy
  BY DEF HeldBy, RequestBytes, Bytes, Indexes, Forward, Ingested, MapThenSumSet, MapThenFoldSet
<1> QED
  BY <1>1, <1>2

\* The slots, the waiters and the bytes within their limits.
Slotted ==
    /\ Cardinality(MxSending) <= MxMaxIngest /\ Cardinality(Waiting) <= MxMaxWaiters
    /\ HeldBytes <= MxMaxBytes

MxPlaces == {"idle", "forward", "waiting", "sent", "local", "answered"}
MxTypes ==
    /\ mxPc \in [MxExporters -> MxPlaces]
    /\ mxAttempt \in [MxExporters -> 1 .. MxMaxAttempts]
    /\ DOMAIN mxAck = MxExporters /\ DOMAIN mxLocal = MxExporters
    /\ \A e \in MxExporters : mxAck[e] \subseteq Forward(e) /\ mxLocal[e] \in [Indexes(e) -> Nat]

\* The two sets are finite, and disjoint.
LEMMA PlacesFinite ==
    /\ IsFiniteSet(MxSending) /\ Cardinality(MxSending) \in Nat
    /\ IsFiniteSet(Waiting) /\ Cardinality(Waiting) \in Nat
    /\ MxMaxIngest \in Nat /\ MxMaxWaiters \in Nat /\ MxMaxBytes \in Nat
<1>1. MxSending \subseteq MxExporters /\ Waiting \subseteq MxExporters
  BY DEF MxSending, Waiting
<1> QED
  BY <1>1, MxLimits, FS_Subset, FS_CardinalityType

\* An Export that leaves, or was not there, frees its place.
LEMMA LeavingKeepsSlots ==
    ASSUME MxTypes, Slotted, NEW e \in MxExporters, NEW l \in MxPlaces \ {"sent", "waiting"},
           mxPc' = [mxPc EXCEPT ![e] = l]
    PROVE  Slotted'
<1>1. MxSending' = MxSending \ {e} /\ Waiting' = Waiting \ {e} /\ Holding' = Holding \ {e}
  BY DEF MxTypes, MxSending, Waiting, Holding
<1>2. MxSending' \subseteq MxSending /\ Waiting' \subseteq Waiting
  BY <1>1
<1>3. /\ Cardinality(MxSending') <= Cardinality(MxSending) /\ Cardinality(MxSending') \in Nat
      /\ Cardinality(Waiting') <= Cardinality(Waiting) /\ Cardinality(Waiting') \in Nat
  BY <1>2, PlacesFinite, FS_Subset, FS_CardinalityType
<1>4. HeldBytes' = Total(HeldBy, Holding')
  BY HeldNext
<1>5. Total(HeldBy, Holding \ {e}) <= Total(HeldBy, Holding) /\ Total(HeldBy, Holding \ {e}) \in Nat
  <2>1. CASE e \in Holding
    <3>1. HeldBy[e] \in Nat /\ Total(HeldBy, Holding \ {e}) = Total(HeldBy, Holding) - HeldBy[e]
          /\ Total(HeldBy, Holding) \in Nat /\ Total(HeldBy, Holding \ {e}) \in Nat
      BY <2>1, HeldIsTotal, TotalRemove
    <3> QED
      BY <3>1
  <2>2. CASE e \notin Holding
    <3>1. Holding \ {e} = Holding
      BY <2>2
    <3> QED
      BY <3>1, HeldIsTotal
  <2> QED
    BY <2>1, <2>2
<1> QED
  BY <1>1, <1>3, <1>4, <1>5, HeldIsTotal, PlacesFinite DEF Slotted

\* One that goes ahead keeps them: it found a slot or a place among the waiters, and room
\* for its bytes.
LEMMA EnteringKeepsSlots ==
    ASSUME MxTypes, Slotted, NEW e \in MxExporters, mxPc[e] = "forward",
           HeldBytes + RequestBytes(e) <= MxMaxBytes, NEW l \in {"sent", "waiting"},
           l = "sent" => Cardinality(MxSending) < MxMaxIngest,
           l = "waiting" => Cardinality(Waiting) < MxMaxWaiters,
           mxPc' = [mxPc EXCEPT ![e] = l]
    PROVE  Slotted'
<1>1. /\ MxSending' = IF l = "sent" THEN MxSending \cup {e} ELSE MxSending
      /\ Waiting' = IF l = "waiting" THEN Waiting \cup {e} ELSE Waiting
      /\ Holding' = Holding \cup {e}
      /\ e \notin MxSending /\ e \notin Waiting /\ e \notin Holding
  BY DEF MxTypes, MxSending, Waiting, Holding
<1>2. /\ Cardinality(MxSending \cup {e}) = Cardinality(MxSending) + 1
      /\ Cardinality(Waiting \cup {e}) = Cardinality(Waiting) + 1
  BY <1>1, PlacesFinite, FS_AddElement
<1>3. HeldBytes' = Total(HeldBy, Holding')
  BY HeldNext
<1>4. HeldBy[e] = RequestBytes(e) /\ RequestBytes(e) \in Nat
  BY RequestSized DEF HeldBy
<1>5. Total(HeldBy, Holding \cup {e}) = HeldBy[e] + Total(HeldBy, Holding)
  BY <1>1, <1>4, HeldIsTotal, TotalAdd
<1>6. HeldBytes' <= MxMaxBytes
  BY <1>1, <1>3, <1>4, <1>5, HeldIsTotal
<1>7. Cardinality(MxSending') <= MxMaxIngest /\ Cardinality(Waiting') <= MxMaxWaiters
  BY <1>1, <1>2, PlacesFinite DEF Slotted
<1> QED
  BY <1>6, <1>7 DEF Slotted

\* A waiter that gets a slot passes its bytes on.
LEMMA PassingKeepsSlots ==
    ASSUME MxTypes, Slotted, NEW e \in MxExporters, WaiterGetsSlot(e)
    PROVE  Slotted'
<1>1. /\ MxSending' = MxSending \cup {e} /\ Waiting' = Waiting \ {e} /\ Holding' = Holding
      /\ e \notin MxSending /\ Cardinality(MxSending) < MxMaxIngest
  BY DEF MxTypes, MxSending, Waiting, Holding, WaiterGetsSlot, MxGoto
<1>2. Cardinality(MxSending') = Cardinality(MxSending) + 1
  BY <1>1, PlacesFinite, FS_AddElement
<1>3. Cardinality(Waiting') <= Cardinality(Waiting) /\ Cardinality(Waiting') \in Nat
  BY <1>1, PlacesFinite, FS_Subset, FS_CardinalityType
<1>4. HeldBytes' = HeldBytes
  BY <1>1, HeldNext, HeldIsTotal
<1> QED
  BY <1>1, <1>2, <1>3, <1>4, PlacesFinite DEF Slotted

\* A failed forward leaves, and forgets at most the acknowledgement.
LEMMA FailingKeepsSlots ==
    ASSUME MxTypes, Slotted, NEW e \in MxExporters, NEW s, ForwardFailed(e, s)
    PROVE  MxTypes' /\ Slotted'
<1>1. PICK l \in {"answered", "local"} : mxPc' = [mxPc EXCEPT ![e] = l]
  BY DEF ForwardFailed, Answer, MxGoto
<1>2. Slotted'
  BY <1>1, LeavingKeepsSlots DEF MxPlaces
<1>3. UNCHANGED <<mxAttempt, mxLocal>> /\ (mxAck' = mxAck \/ mxAck' = [mxAck EXCEPT ![e] = {}])
  BY DEF ForwardFailed
<1>4. MxTypes'
  BY <1>1, <1>3 DEF MxTypes, MxPlaces
<1> QED
  BY <1>2, <1>4

\* The steps of an Export.
LEMMA MxExportStep ==
    ASSUME MxTypes, Slotted, NEW e \in MxExporters,
           \/ Split(e) \/ MxAdmit(e) \/ WaiterGetsSlot(e) \/ WaiterTimesOut(e)
           \/ \E s \in {307, 400, 429, 503} : UpstreamFails(e, s)
           \/ \E n \in 0..Points(e, Forward(e)) : UpstreamAccepts(e, n)
           \/ ApplyOK(e) \/ ApplyFails(e) \/ MxRetry(e)
    PROVE  MxTypes' /\ Slotted'
<1>1. CASE Split(e)
  <2>1. PICK l \in {"local", "forward"} : mxPc' = [mxPc EXCEPT ![e] = l]
    BY <1>1 DEF Split, MxGoto
  <2>2. UNCHANGED <<mxAttempt, mxLocal>> /\ mxAck' = [mxAck EXCEPT ![e] = Forward(e)]
    BY <1>1 DEF Split
  <2>3. MxTypes'
    BY <2>1, <2>2 DEF MxTypes, MxPlaces
  <2> QED
    BY <2>1, <2>3, LeavingKeepsSlots DEF MxPlaces
<1>2. CASE MxAdmit(e)
  <2>1. CASE Precheck(e) # 200
    BY <1>2, <2>1, FailingKeepsSlots DEF MxAdmit
  <2>2. ASSUME Precheck(e) = 200, NEW l \in {"sent", "waiting"},
               l = "sent" => Cardinality(MxSending) < MxMaxIngest,
               l = "waiting" => Cardinality(Waiting) < MxMaxWaiters,
               MxGoto(e, l), UNCHANGED <<mxAttempt, mxAck, mxLocal>>
        PROVE  MxTypes' /\ Slotted'
    <3>1. HeldBytes + RequestBytes(e) <= MxMaxBytes
      <4>1. ~ (HeldBytes + RequestBytes(e) > MxMaxBytes)
        BY <2>2 DEF Precheck
      <4> QED
        BY <4>1, HeldIsTotal, RequestSized, PlacesFinite
    <3>2. mxPc[e] = "forward" /\ mxPc' = [mxPc EXCEPT ![e] = l]
      BY <1>2, <2>2 DEF MxAdmit, MxGoto
    <3>3. Slotted'
      BY <2>2, <3>1, <3>2, EnteringKeepsSlots
    <3>4. MxTypes'
      BY <2>2, <3>2 DEF MxTypes, MxPlaces
    <3> QED
      BY <3>3, <3>4
  <2>3. CASE Precheck(e) = 200 /\ Cardinality(MxSending) < MxMaxIngest
    BY <1>2, <2>2, <2>3 DEF MxAdmit
  <2>4. CASE Precheck(e) = 200 /\ ~ (Cardinality(MxSending) < MxMaxIngest) /\ Cardinality(Waiting) < MxMaxWaiters
    BY <1>2, <2>2, <2>4 DEF MxAdmit
  <2>5. CASE Precheck(e) = 200 /\ ~ (Cardinality(MxSending) < MxMaxIngest) /\ ~ (Cardinality(Waiting) < MxMaxWaiters)
    BY <1>2, <2>5, FailingKeepsSlots DEF MxAdmit
  <2> QED
    BY <2>1, <2>3, <2>4, <2>5
<1>3. CASE WaiterGetsSlot(e)
  <2>1. mxPc' = [mxPc EXCEPT ![e] = "sent"] /\ UNCHANGED <<mxAttempt, mxAck, mxLocal>>
    BY <1>3 DEF WaiterGetsSlot, MxGoto
  <2>2. MxTypes'
    BY <2>1 DEF MxTypes, MxPlaces
  <2> QED
    BY <1>3, <2>2, PassingKeepsSlots
<1>4. CASE WaiterTimesOut(e) \/ \E s \in {307, 400, 429, 503} : UpstreamFails(e, s)
  BY <1>4, FailingKeepsSlots DEF WaiterTimesOut, UpstreamFails
<1>5. CASE \E n \in 0..Points(e, Forward(e)) : UpstreamAccepts(e, n)
  <2>1. mxPc' = [mxPc EXCEPT ![e] = "local"] /\ UNCHANGED <<mxAttempt, mxAck, mxLocal>>
    BY <1>5 DEF UpstreamAccepts, MxGoto
  <2>2. MxTypes'
    BY <2>1 DEF MxTypes, MxPlaces
  <2> QED
    BY <2>1, <2>2, LeavingKeepsSlots DEF MxPlaces
<1>6. CASE ApplyOK(e)
  <2> DEFINE L == [i \in Indexes(e) |-> IF i \in LocalResources(e) THEN mxLocal[e][i] + 1 ELSE mxLocal[e][i]]
  <2>1. /\ mxPc' = [mxPc EXCEPT ![e] = "answered"] /\ UNCHANGED <<mxAttempt, mxAck>>
        /\ mxLocal' = [mxLocal EXCEPT ![e] = L]
    BY <1>6 DEF ApplyOK, Answer
  <2>2. L \in [Indexes(e) -> Nat]
    BY DEF MxTypes
  <2> HIDE DEF L
  <2>3. MxTypes'
    BY <2>1, <2>2 DEF MxTypes, MxPlaces
  <2> QED
    BY <2>1, <2>3, LeavingKeepsSlots DEF MxPlaces
<1>7. CASE ApplyFails(e)
  <2>1. mxPc' = [mxPc EXCEPT ![e] = "answered"] /\ UNCHANGED <<mxAttempt, mxAck, mxLocal>>
    BY <1>7 DEF ApplyFails, Answer
  <2>2. MxTypes'
    BY <2>1 DEF MxTypes, MxPlaces
  <2> QED
    BY <2>1, <2>2, LeavingKeepsSlots DEF MxPlaces
<1>8. CASE MxRetry(e)
  <2>1. /\ mxPc' = [mxPc EXCEPT ![e] = "idle"] /\ UNCHANGED <<mxAck, mxLocal>>
        /\ mxAttempt[e] < MxMaxAttempts /\ mxAttempt' = [mxAttempt EXCEPT ![e] = @ + 1]
    BY <1>8 DEF MxRetry, MxGoto
  <2>2. mxAttempt' \in [MxExporters -> 1 .. MxMaxAttempts]
    BY <2>1, MxLimits DEF MxTypes
  <2>3. MxTypes'
    BY <2>1, <2>2 DEF MxTypes, MxPlaces
  <2> QED
    BY <2>1, <2>3, LeavingKeepsSlots DEF MxPlaces
<1> QED
  BY <1>1, <1>2, <1>3, <1>4, <1>5, <1>6, <1>7, <1>8

\* A step that moves no Export leaves the budgets as they are.
LEMMA SlottedRests ==
    ASSUME Slotted, mxPc' = mxPc
    PROVE  Slotted'
<1>1. MxSending' = MxSending /\ Waiting' = Waiting /\ Holding' = Holding
  BY DEF MxSending, Waiting, Holding
<1>2. HeldBytes' = HeldBytes
  BY <1>1, HeldNext, HeldIsTotal
<1> QED
  BY <1>1, <1>2 DEF Slotted

\* The queries under way within their limit.
QueriesOK == DOMAIN mxQuery = MxReaders /\ Cardinality(Running) <= MxMaxConcurrent

\* A query starts only with a place for it.
LEMMA QueryStep ==
    ASSUME QueriesOK, NEW r \in MxReaders, NEW q \in MxQueries, QueryStart(r, q) \/ QueryEnds(r, q)
    PROVE  QueriesOK'
<1>0. IsFiniteSet(Running) /\ Cardinality(Running) \in Nat /\ MxMaxConcurrent \in Nat
  <2>1. Running \subseteq MxReaders
    BY DEF Running
  <2> QED
    BY <2>1, MxLimits, FS_Subset, FS_CardinalityType
<1>1. PICK v \in {"refused", "running", "busy", "done", "failed"} :
        /\ mxQuery' = [mxQuery EXCEPT ![r] = v]
        /\ v = "running" => mxQuery[r] = "idle" /\ Cardinality(Running) < MxMaxConcurrent
  BY DEF QueryStart, QueryEnds
<1>2. CASE v = "running"
  <2>1. Running' = Running \cup {r} /\ r \notin Running
    BY <1>1, <1>2 DEF Running, QueriesOK
  <2>2. Cardinality(Running') = Cardinality(Running) + 1
    BY <1>0, <2>1, FS_AddElement
  <2> QED
    BY <1>0, <1>1, <1>2, <2>2 DEF QueriesOK
<1>3. CASE v # "running"
  <2>1. Running' \subseteq Running
    BY <1>1, <1>3 DEF Running, QueriesOK
  <2>2. Cardinality(Running') <= Cardinality(Running) /\ Cardinality(Running') \in Nat
    BY <1>0, <2>1, FS_Subset, FS_CardinalityType
  <2> QED
    BY <1>0, <1>1, <2>2 DEF QueriesOK
<1> QED
  BY <1>2, <1>3

\* The Prometheus client keeps its budgets in every state: requests in flight within the
\* ingest slots, callers in line within the waiters, the bytes of both within the byte budget
\* and queries within theirs, for any requests and limits, whoever times out, fails or is
\* handed a slot (prometheus/client.go: admit, Export, queryAPI).
THEOREM ClientKeepsBudgets == MxSpec => []MxTypeOK
<1> DEFINE Inv == MxTypes /\ Slotted /\ QueriesOK
<1>1. ASSUME MxInit PROVE Inv
  <2>1. MxSending = {} /\ Waiting = {} /\ Holding = {} /\ Running = {}
    BY <1>1 DEF MxInit, MxSending, Waiting, Holding, Running
  <2>2. Cardinality({}) = 0
    BY FS_EmptySet
  <2>3. HeldBytes = 0
    BY <2>1, HeldIsTotal, TotalEmpty
  <2>4. Slotted /\ QueriesOK
    BY <1>1, <2>1, <2>2, <2>3, MxLimits DEF Slotted, QueriesOK, MxInit
  <2>5. MxTypes
    BY <1>1, MxLimits DEF MxInit, MxTypes, MxPlaces
  <2> QED
    BY <2>4, <2>5
<1>2. ASSUME Inv, [MxNext]_mxVars PROVE Inv'
  <2>1. ASSUME NEW e \in MxExporters,
               \/ Split(e) \/ MxAdmit(e) \/ WaiterGetsSlot(e) \/ WaiterTimesOut(e)
               \/ \E s \in {307, 400, 429, 503} : UpstreamFails(e, s)
               \/ \E n \in 0..Points(e, Forward(e)) : UpstreamAccepts(e, n)
               \/ ApplyOK(e) \/ ApplyFails(e) \/ MxRetry(e)
        PROVE  Inv'
    <3>1. MxTypes' /\ Slotted'
      BY <1>2, <2>1, MxExportStep
    <3>2. mxQuery' = mxQuery
      BY <2>1 DEF Split, MxAdmit, WaiterGetsSlot, WaiterTimesOut, UpstreamFails, UpstreamAccepts, ApplyOK,
         ApplyFails, MxRetry, ForwardFailed
    <3> QED
      BY <1>2, <3>1, <3>2 DEF QueriesOK, Running
  <2>2. ASSUME NEW r \in MxReaders, NEW q \in MxQueries, QueryStart(r, q) \/ QueryEnds(r, q)
        PROVE  Inv'
    <3>1. UNCHANGED <<mxPc, mxAttempt, mxAck, mxLocal>>
      BY <2>2 DEF QueryStart, QueryEnds
    <3>2. MxTypes'
      BY <1>2, <3>1 DEF MxTypes
    <3>3. Slotted'
      BY <1>2, <3>1, SlottedRests
    <3> QED
      BY <1>2, <2>2, <3>2, <3>3, QueryStep
  <2>3. CASE UNCHANGED mxVars
    <3>1. UNCHANGED <<mxPc, mxAttempt, mxAck, mxLocal, mxQuery>>
      BY <2>3 DEF mxVars
    <3> QED
      BY <1>2, <3>1, SlottedRests DEF MxTypes, QueriesOK, Running
  <2> QED
    BY <1>2, <2>1, <2>2, <2>3 DEF MxNext, MxStep
<1>3. Inv => MxTypeOK
  BY DEF MxTypes, MxPlaces, Slotted, QueriesOK, MxTypeOK
<1> QED
  BY <1>1, <1>2, <1>3, PTL DEF MxSpec

-------------------------------------------------------------------------------
(* The rows of a request.                                                  *)

AllRecords == UNION {UNION {RecordSet(q, i) : i \in Resources(q)} : q \in Ids}
TraceIds == {r.trace : r \in AllRecords}
Severities == {"ERROR"} \cup {r.sev : r \in AllRecords} \cup UNION {r.events : r \in AllRecords}

\* What a resource's goroutine accumulates.
Outputs == [reduced : Nat, spans : SUBSET Nat, traces : SUBSET TraceIds, failed : SUBSET TraceIds,
            logs : SUBSET (Nat \X Severities), sevs : SUBSET Severities,
            hasErr : BOOLEAN, hasSlow : BOOLEAN]

\* The valid records of a resource.
LEMMA SanitizedAre ==
    ASSUME NEW q \in Ids, NEW i \in Resources(q)
    PROVE  /\ Len(Sanitized(q, i)) \in Nat
           /\ DOMAIN Sanitized(q, i) = 1 .. Len(Sanitized(q, i))
           /\ \A j \in 1 .. Len(Sanitized(q, i)) :
                /\ Sanitized(q, i)[j] \in AllRecords
                /\ ItRequests[q].kind = "traces" =>
                     Sanitized(q, i)[j].err \in BOOLEAN /\ Sanitized(q, i)[j].slow \in BOOLEAN
<1> DEFINE T == {r \in RecordSet(q, i) : r.valid}
<1>1. Resource(q, i).records \in Seq(RecordSet(q, i))
  BY ItAssumption
<1>2. Sanitized(q, i) = Selected(Resource(q, i).records, T)
  BY DEF Sanitized
<1>3. T \subseteq RecordSet(q, i) /\ RecordSet(q, i) \subseteq AllRecords
  BY DEF AllRecords
<1> HIDE DEF T
<1>4. Sanitized(q, i) \in Seq(T)
  BY <1>1, <1>2, SelectedWithin
<1>5. Len(Sanitized(q, i)) \in Nat /\ DOMAIN Sanitized(q, i) = 1 .. Len(Sanitized(q, i))
  BY <1>4
<1>6. \A j \in 1 .. Len(Sanitized(q, i)) : Sanitized(q, i)[j] \in RecordSet(q, i)
  BY <1>3, <1>4
<1> QED
  BY <1>3, <1>5, <1>6, ItAssumption

\* What one span adds.
SpanAdded(o, j, r, kept, admitted, n) ==
    /\ n \in Outputs /\ n.reduced = o.reduced + 1
    /\ n.spans = (IF kept THEN o.spans \cup {j} ELSE o.spans)
    /\ o.traces \subseteq n.traces /\ o.failed \subseteq n.failed
    /\ o.hasErr => n.hasErr
    /\ o.hasSlow => n.hasSlow
    /\ admitted => /\ r.trace \in n.traces
                   /\ r.err => n.hasErr /\ r.trace \in n.failed
                   /\ r.slow => n.hasSlow

\* AddSpan does just that.
LEMMA AddSpanIs ==
    ASSUME NEW o \in Outputs, NEW j \in Nat, NEW r \in AllRecords, r.err \in BOOLEAN,
           r.slow \in BOOLEAN, NEW admitted \in BOOLEAN, NEW keep \in BOOLEAN, NEW logs
    PROVE  SpanAdded(o, j, r, admitted /\ keep, admitted, AddSpan(o, j, r, admitted, keep, logs))
<1> DEFINE n == AddSpan(o, j, r, admitted, keep, logs)
<1> SUFFICES SpanAdded(o, j, r, admitted /\ keep, admitted, n)
  OBVIOUS
<1>1. /\ o.reduced \in Nat /\ o.spans \in SUBSET Nat /\ o.traces \in SUBSET TraceIds
      /\ o.failed \in SUBSET TraceIds /\ o.logs \in SUBSET (Nat \X Severities)
      /\ o.sevs \in SUBSET Severities /\ o.hasErr \in BOOLEAN /\ o.hasSlow \in BOOLEAN
      /\ r.trace \in TraceIds
  BY DEF Outputs, TraceIds
<1>2. SynthSevs(r, logs) \subseteq Severities
  BY DEF SynthSevs, EventSevs, Severities
<1>3. CASE ~ admitted
  <2>1. n = [o EXCEPT !.reduced = @ + 1]
    BY <1>3 DEF AddSpan
  <2> HIDE DEF n
  <2> QED
    BY <1>1, <1>3, <2>1 DEF Outputs, SpanAdded
<1>4. CASE admitted
  <2> DEFINE sp == IF keep THEN o.spans \cup {j} ELSE o.spans
             tr == o.traces \cup {r.trace}
             fa == IF r.err THEN o.failed \cup {r.trace} ELSE o.failed
             lo == IF keep THEN o.logs \cup {<<j, s>> : s \in SynthSevs(r, logs)} ELSE o.logs
             er == o.hasErr \/ r.err
             sl == o.hasSlow \/ r.slow
  <2>1. n = [o EXCEPT !.reduced = o.reduced + 1, !.spans = sp, !.traces = tr, !.failed = fa,
                      !.logs = lo, !.hasErr = er, !.hasSlow = sl]
    BY <1>4 DEF AddSpan
  <2>2. /\ sp \in SUBSET Nat /\ tr \in SUBSET TraceIds /\ fa \in SUBSET TraceIds
        /\ lo \in SUBSET (Nat \X Severities) /\ er \in BOOLEAN /\ sl \in BOOLEAN
    BY <1>1, <1>2
  <2>3. /\ o.traces \subseteq tr /\ o.failed \subseteq fa /\ r.trace \in tr
        /\ (o.hasErr => er) /\ (o.hasSlow => sl) /\ (r.err => er /\ r.trace \in fa) /\ (r.slow => sl)
        /\ sp = (IF admitted /\ keep THEN o.spans \cup {j} ELSE o.spans)
    BY <1>4
  <2> HIDE DEF n, sp, tr, fa, lo, er, sl
  <2>4. /\ n \in Outputs /\ n.reduced = o.reduced + 1 /\ n.spans = sp /\ n.traces = tr
        /\ n.failed = fa /\ n.hasErr = er /\ n.hasSlow = sl
    <3>1. n = [reduced |-> o.reduced + 1, spans |-> sp, traces |-> tr, failed |-> fa, logs |-> lo,
               sevs |-> o.sevs, hasErr |-> er, hasSlow |-> sl]
      BY <2>1 DEF Outputs
    <3> QED
      BY <1>1, <2>2, <3>1 DEF Outputs
  <2> QED
    BY <1>4, <2>3, <2>4 DEF SpanAdded
<1> QED
  BY <1>3, <1>4

\* What one log record adds.
LEMMA AddLogIs ==
    ASSUME NEW o \in Outputs, NEW j \in Nat, NEW r \in AllRecords, NEW retained \in BOOLEAN,
           NEW n, n = AddLog(o, j, r, retained)
    PROVE  /\ n \in Outputs /\ n.reduced = o.reduced + 1 /\ n.spans = o.spans
           /\ (\A row \in o.logs : row[2] \in o.sevs) => \A row \in n.logs : row[2] \in n.sevs
<1>1. /\ o.reduced \in Nat /\ o.logs \in SUBSET (Nat \X Severities)
      /\ o.sevs \in SUBSET Severities /\ r.sev \in Severities
  BY DEF Outputs, Severities
<1> DEFINE lo == IF retained THEN o.logs \cup {<<j, r.sev>>} ELSE o.logs
           se == IF retained THEN o.sevs \cup {r.sev} ELSE o.sevs
<1>2. n = [o EXCEPT !.reduced = o.reduced + 1, !.logs = lo, !.sevs = se]
  BY DEF AddLog
<1>3. lo \in SUBSET (Nat \X Severities) /\ se \in SUBSET Severities
  BY <1>1
<1>4. (\A row \in o.logs : row[2] \in o.sevs) => \A row \in lo : row[2] \in se
  OBVIOUS
<1> HIDE DEF lo, se
<1>5. n \in Outputs /\ n.reduced = o.reduced + 1 /\ n.spans = o.spans /\ n.logs = lo /\ n.sevs = se
  <2>1. n = [reduced |-> o.reduced + 1, spans |-> o.spans, traces |-> o.traces, failed |-> o.failed,
             logs |-> lo, sevs |-> se, hasErr |-> o.hasErr, hasSlow |-> o.hasSlow]
    BY <1>2 DEF Outputs
  <2> QED
    BY <1>1, <1>3, <2>1 DEF Outputs
<1> QED
  BY <1>4, <1>5

-------------------------------------------------------------------------------
\* The shapes of the state.
IntakeShapes ==
    /\ itPc \in [Ids -> {"idle", "running", "merged"}]
    /\ DOMAIN itNext = Ids /\ DOMAIN itOut = Ids /\ DOMAIN itGroups = Ids
    /\ \A q \in Ids : DOMAIN itNext[q] = Resources(q) /\ DOMAIN itOut[q] = Resources(q)

\* A goroutine reduced the records it is past, and no others.
Progress(q, i) ==
    /\ itOut[q][i] \in Outputs
    /\ itNext[q][i] \in 1 .. Len(Sanitized(q, i)) + 1
    /\ itOut[q][i].reduced = itNext[q][i] - 1
    /\ ~ShouldIngest(Service(q, i)) => itNext[q][i] = 1

\* A span it kept left its trace and its flags.
SpansFlagged(q, i) ==
    /\ ItRequests[q].kind # "traces" => itOut[q][i].spans = {}
    /\ \A j \in itOut[q][i].spans :
         /\ j \in 1 .. itNext[q][i] - 1
         /\ Sanitized(q, i)[j].trace \in itOut[q][i].traces
         /\ Sanitized(q, i)[j].err =>
              itOut[q][i].hasErr /\ Sanitized(q, i)[j].trace \in itOut[q][i].failed
         /\ Sanitized(q, i)[j].slow => itOut[q][i].hasSlow

\* A log record it kept left its severity, and the sampler kept what it must.
RecordsKept(q, i) ==
    /\ ItRequests[q].kind = "logs" => \A row \in itOut[q][i].logs : row[2] \in itOut[q][i].sevs
    /\ itPolicy = "sampler" /\ ItRequests[q].kind = "traces" =>
         \A j \in 1 .. itNext[q][i] - 1 :
            Sanitized(q, i)[j].err \/ Sanitized(q, i)[j].slow => j \in itOut[q][i].spans

ResourceOK(q, i) == Progress(q, i) /\ SpansFlagged(q, i) /\ RecordsKept(q, i)

\* What IntakeExact says of a merged request's groups.
GroupOK(q, g) ==
    /\ \A row \in g.spans : Resource(q, row[1]).tenant = g.tenant
    /\ \A row \in g.logs :
         /\ Resource(q, row[1]).tenant = g.tenant
         /\ ItRequests[q].kind = "logs" /\ row[2][2] \in {"ERROR", "FATAL"} => g.hasErr
    /\ \A row \in g.spans : LET r == Sanitized(q, row[1])[row[2]] IN
         /\ r.err => g.hasErr /\ <<row[1], <<r.trace, TRUE>>>> \in g.traces
         /\ r.slow => g.hasSlow

\* The valid records of the ingested services, and the ones no sampler may drop.
ValidRecords(q) == Records(q, LAMBDA r : TRUE)
PriorityRecords(q) == Records(q, LAMBDA r : r.err \/ r.slow)

GroupsOK(q) ==
    /\ \A i \in Resources(q) : ShouldIngest(Service(q, i)) => itNext[q][i] = Len(Sanitized(q, i)) + 1
    /\ \A g \in itGroups[q] : GroupOK(q, g)
    /\ itPolicy = "sampler" /\ ItRequests[q].kind = "traces" =>
         PriorityRecords(q) \subseteq UNION {g.spans : g \in itGroups[q]}

ItInv ==
    /\ IntakeShapes
    /\ \A q \in Ids : \A i \in Resources(q) : ResourceOK(q, i)
    /\ \A q \in Ids : itPc[q] = "merged" => GroupsOK(q)

\* A request that is merged counted every valid record of an ingested service once.
LEMMA ReducedIsAll ==
    ASSUME ItInv, NEW q \in Ids, itPc[q] = "merged"
    PROVE  MapThenSumSet(LAMBDA i : Reduced(q)[i], Resources(q))
             = Cardinality(ValidRecords(q))
<1> DEFINE f == Reduced(q)
           S == Resources(q)
<1>1. MapThenSumSet(LAMBDA i : Reduced(q)[i], Resources(q)) = (CHOOSE it : Iterates(it, f, S))[S]
  BY DEF MapThenSumSet, MapThenFoldSet, Iterates
<1>2. \A i \in S : /\ f[i] = IF ShouldIngest(Service(q, i)) THEN Len(Sanitized(q, i)) ELSE 0
                   /\ f[i] \in Nat
  <2> SUFFICES ASSUME NEW i \in S
               PROVE  /\ f[i] = IF ShouldIngest(Service(q, i)) THEN Len(Sanitized(q, i)) ELSE 0
                      /\ f[i] \in Nat
    OBVIOUS
  <2>1. Len(Sanitized(q, i)) \in Nat
    BY SanitizedAre
  <2>2. f[i] = itNext[q][i] - 1 /\ itNext[q][i] \in 1 .. Len(Sanitized(q, i)) + 1
    BY DEF ItInv, ResourceOK, Progress, Reduced
  <2>3. itNext[q][i] = IF ShouldIngest(Service(q, i)) THEN Len(Sanitized(q, i)) + 1 ELSE 1
    BY DEF ItInv, ResourceOK, Progress, GroupsOK
  <2> HIDE DEF f
  <2> QED
    BY <2>1, <2>2, <2>3
<1>3. ValidRecords(q) = Dots(f, S)
  <2>1. \A i \in S : DOMAIN Sanitized(q, i) = 1 .. Len(Sanitized(q, i)) /\ Len(Sanitized(q, i)) \in Nat
    BY SanitizedAre
  <2>2. ValidRecords(q)
          = {p \in UNION {{<<i, j>> : j \in 1 .. Len(Sanitized(q, i))} : i \in S} :
               ShouldIngest(Service(q, p[1]))}
    BY <2>1 DEF ValidRecords, Records
  <2> HIDE DEF f
  <2>3. ASSUME NEW p
        PROVE  p \in ValidRecords(q) <=> \E i \in S : \E j \in 1 .. f[i] : p = <<i, j>>
    <3>1. ASSUME p \in ValidRecords(q)
          PROVE  \E i \in S : \E j \in 1 .. f[i] : p = <<i, j>>
      <4>1. PICK i \in S : \E j \in 1 .. Len(Sanitized(q, i)) : p = <<i, j>>
        BY <2>2, <3>1
      <4>2. ShouldIngest(Service(q, p[1])) /\ p[1] = i
        BY <2>2, <3>1, <4>1
      <4> QED
        BY <1>2, <4>1, <4>2
    <3>2. ASSUME NEW i \in S, NEW j \in 1 .. f[i], p = <<i, j>>
          PROVE  p \in ValidRecords(q)
      <4>1. ShouldIngest(Service(q, i)) /\ j \in 1 .. Len(Sanitized(q, i))
        BY <1>2
      <4>2. p[1] = i
        BY <3>2
      <4> QED
        BY <2>2, <3>2, <4>1, <4>2
    <3> QED
      BY <3>1, <3>2
  <2>4. \A p : p \in Dots(f, S) <=> \E i \in S : \E j \in 1 .. f[i] : p = <<i, j>>
    BY DotsMember
  <2>5. \A p : p \in ValidRecords(q) <=> p \in Dots(f, S)
    BY <2>3, <2>4
  <2> HIDE DEF S
  <2> QED
    BY <2>5
<1>4. IsFiniteSet(S)
  BY ItAssumption
<1> HIDE DEF f, S
<1>5. (CHOOSE it : Iterates(it, f, S))[S] = Total(f, S)
  BY <1>2, <1>4, ChosenIsTotal
<1> QED
  BY <1>1, <1>3, <1>5 DEF Total

\* The invariant gives the property.
LEMMA ItInvIsExact == ItInv => IntakeExact
<1> SUFFICES ASSUME ItInv, NEW q \in Ids, itPc[q] = "merged"
             PROVE  /\ MapThenSumSet(LAMBDA i : Reduced(q)[i], Resources(q))
                         = Cardinality(ValidRecords(q))
                    /\ \A g \in itGroups[q] : GroupOK(q, g)
                    /\ itPolicy = "sampler" /\ ItRequests[q].kind = "traces" =>
                         PriorityRecords(q) \subseteq UNION {g.spans : g \in itGroups[q]}
  BY DEF IntakeExact, GroupOK, ValidRecords, PriorityRecords
<1> QED
  BY ReducedIsAll DEF ItInv, GroupsOK

\* The resources of a tenant that have rows.
Contributing(q, tn) == {i \in Resources(q) : Resource(q, i).tenant = tn /\ Contributes(q, i)}

\* The rows of a group.
LEMMA GroupRows ==
    ASSUME NEW q \in Ids, NEW tn, NEW g, g = Group(q, tn)
    PROVE  /\ g.tenant = tn
           /\ \A row : row \in g.spans <=>
                \E i \in Contributing(q, tn) : \E x \in itOut[q][i].spans : row = <<i, x>>
           /\ \A row : row \in g.logs <=>
                \E i \in Contributing(q, tn) : \E x \in itOut[q][i].logs : row = <<i, x>>
<1> DEFINE is == Contributing(q, tn)
<1>1. /\ g.tenant = tn
      /\ g.spans = UNION {{i} \X itOut[q][i].spans : i \in is}
      /\ g.logs = UNION {{i} \X itOut[q][i].logs : i \in is}
  BY DEF Group, Contributing
<1> HIDE DEF is
<1>2. \A row : row \in g.spans <=> \E i \in is : \E x \in itOut[q][i].spans : row = <<i, x>>
  BY <1>1
<1>3. \A row : row \in g.logs <=> \E i \in is : \E x \in itOut[q][i].logs : row = <<i, x>>
  BY <1>1
<1> QED
  BY <1>1, <1>2, <1>3 DEF is

\* The trace rows and the flags of a group.
LEMMA GroupFlags ==
    ASSUME NEW q \in Ids, NEW tn, NEW g, g = Group(q, tn), NEW i \in Contributing(q, tn)
    PROVE  /\ ErrorFlag(q, i) => g.hasErr
           /\ itOut[q][i].hasSlow => g.hasSlow
           /\ \A t \in itOut[q][i].traces : t \in itOut[q][i].failed => <<i, <<t, TRUE>>>> \in g.traces
<1> DEFINE is == Contributing(q, tn)
<1>1. /\ g.traces = UNION {{k} \X TraceRows(itOut[q][k]) : k \in is}
      /\ g.hasErr = \E k \in is : ErrorFlag(q, k)
      /\ g.hasSlow = \E k \in is : itOut[q][k].hasSlow
  BY DEF Group, Contributing, GroupErr
<1>2. ASSUME NEW t \in itOut[q][i].traces, t \in itOut[q][i].failed
      PROVE  <<i, <<t, TRUE>>>> \in g.traces
  <2>1. <<t, TRUE>> \in TraceRows(itOut[q][i])
    BY <1>2 DEF TraceRows
  <2>2. <<i, <<t, TRUE>>>> \in {i} \X TraceRows(itOut[q][i])
    BY <2>1
  <2> HIDE DEF is
  <2>3. i \in is
    BY DEF is
  <2> QED
    BY <1>1, <2>2, <2>3
<1> QED
  BY <1>1, <1>2

\* The groups Merge builds are right.
LEMMA MergedGroupOK ==
    ASSUME ItInv, NEW q \in Ids, NEW tn, NEW g, g = Group(q, tn)
    PROVE  GroupOK(q, g)
<1>1. ASSUME NEW row \in g.spans
      PROVE  /\ Resource(q, row[1]).tenant = g.tenant
             /\ LET r == Sanitized(q, row[1])[row[2]] IN
                /\ r.err => g.hasErr /\ <<row[1], <<r.trace, TRUE>>>> \in g.traces
                /\ r.slow => g.hasSlow
  <2>1. PICK i \in Contributing(q, tn) : \E y \in itOut[q][i].spans : row = <<i, y>>
    BY GroupRows
  <2>0. PICK x \in itOut[q][i].spans : row = <<i, x>>
    BY <2>1
  <2> DEFINE r == Sanitized(q, i)[x]
  <2>2. i \in Resources(q) /\ Resource(q, i).tenant = tn /\ row[1] = i /\ row[2] = x
    BY <2>0, <2>1 DEF Contributing
  <2>3. /\ ItRequests[q].kind = "traces" /\ r.trace \in itOut[q][i].traces
        /\ r.err => itOut[q][i].hasErr /\ r.trace \in itOut[q][i].failed
        /\ r.slow => itOut[q][i].hasSlow
    BY <2>0, <2>1, <2>2 DEF ItInv, ResourceOK, SpansFlagged
  <2>4. g.tenant = tn
    BY GroupRows
  <2>5. ASSUME r.err PROVE g.hasErr /\ <<i, <<r.trace, TRUE>>>> \in g.traces
    <3>1. ErrorFlag(q, i)
      BY <2>3, <2>5 DEF ErrorFlag
    <3> QED
      BY <2>1, <2>3, <2>5, <3>1, GroupFlags
  <2>6. ASSUME r.slow PROVE g.hasSlow
    BY <2>1, <2>3, <2>6, GroupFlags
  <2> QED
    BY <2>2, <2>4, <2>5, <2>6
<1>2. ASSUME NEW row \in g.logs
      PROVE  /\ Resource(q, row[1]).tenant = g.tenant
             /\ ItRequests[q].kind = "logs" /\ row[2][2] \in {"ERROR", "FATAL"} => g.hasErr
  <2>1. PICK i \in Contributing(q, tn) : \E y \in itOut[q][i].logs : row = <<i, y>>
    BY GroupRows
  <2>0. PICK x \in itOut[q][i].logs : row = <<i, x>>
    BY <2>1
  <2>2. i \in Resources(q) /\ Resource(q, i).tenant = tn /\ row[1] = i /\ row[2] = x /\ g.tenant = tn
    BY <2>0, <2>1, GroupRows DEF Contributing
  <2>3. ASSUME ItRequests[q].kind = "logs", row[2][2] \in {"ERROR", "FATAL"} PROVE g.hasErr
    <3>1. x[2] \in itOut[q][i].sevs
      BY <2>0, <2>1, <2>2, <2>3 DEF ItInv, ResourceOK, RecordsKept
    <3>2. ErrorFlag(q, i)
      BY <2>2, <2>3, <3>1 DEF ErrorFlag, HasPriorityLog
    <3> QED
      BY <2>1, <3>2, GroupFlags
  <2> QED
    BY <2>2, <2>3
<1> QED
  BY <1>1, <1>2 DEF GroupOK

\* A step that only moves one resource of a running request keeps the invariant when it keeps
\* that resource's part.
LEMMA OneResource ==
    ASSUME ItInv, NEW q \in Ids, NEW i \in Resources(q), itPc[q] = "running", NEW n, NEW m,
           itOut' = [itOut EXCEPT ![q][i] = n], itNext' = [itNext EXCEPT ![q][i] = m],
           UNCHANGED <<itPolicy, itPc, itGroups>>,
           ResourceOK(q, i)'
    PROVE  ItInv'
<1>1. IntakeShapes'
  BY DEF ItInv, IntakeShapes
<1>2. ASSUME NEW p \in Ids, NEW k \in Resources(p), p # q \/ k # i
      PROVE  itOut'[p][k] = itOut[p][k] /\ itNext'[p][k] = itNext[p][k]
  BY <1>2 DEF ItInv, IntakeShapes
<1>3. ASSUME NEW p \in Ids, NEW k \in Resources(p)
      PROVE  ResourceOK(p, k)'
  <2>1. CASE p = q /\ k = i
    BY <2>1
  <2>2. CASE p # q \/ k # i
    <3>1. itOut'[p][k] = itOut[p][k] /\ itNext'[p][k] = itNext[p][k] /\ ResourceOK(p, k)
      BY <1>2, <2>2 DEF ItInv
    <3> QED
      BY <3>1 DEF ResourceOK, Progress, SpansFlagged, RecordsKept
  <2> QED
    BY <2>1, <2>2
<1>4. ASSUME NEW p \in Ids, itPc'[p] = "merged"
      PROVE  GroupsOK(p)'
  <2>1. p # q /\ itPc[p] = "merged" /\ GroupsOK(p)
    BY <1>4 DEF ItInv
  <2>2. \A k \in Resources(p) : itNext'[p][k] = itNext[p][k]
    BY <1>2, <2>1
  <2> QED
    BY <2>1, <2>2 DEF GroupsOK
<1> QED
  BY <1>1, <1>3, <1>4 DEF ItInv

\* The goroutine of a resource takes its next record.
LEMMA NextRecord ==
    ASSUME ItInv, NEW q \in Ids, NEW i \in Resources(q), Pending(q, i), NEW j, j = itNext[q][i]
    PROVE  /\ itPc[q] = "running" /\ ShouldIngest(Service(q, i))
           /\ j \in 1 .. Len(Sanitized(q, i)) /\ j \in Nat /\ Len(Sanitized(q, i)) \in Nat
           /\ itOut[q][i] \in Outputs /\ itOut[q][i].reduced = j - 1
           /\ Sanitized(q, i)[j] \in AllRecords
           /\ ItRequests[q].kind = "traces" =>
                Sanitized(q, i)[j].err \in BOOLEAN /\ Sanitized(q, i)[j].slow \in BOOLEAN
<1>1. Len(Sanitized(q, i)) \in Nat
  BY SanitizedAre
<1>2. /\ itPc[q] = "running" /\ ShouldIngest(Service(q, i)) /\ j <= Len(Sanitized(q, i))
      /\ j \in 1 .. Len(Sanitized(q, i)) + 1 /\ itOut[q][i] \in Outputs /\ itOut[q][i].reduced = j - 1
  BY DEF ItInv, ResourceOK, Progress, Pending
<1>3. j \in 1 .. Len(Sanitized(q, i)) /\ j \in Nat
  BY <1>1, <1>2
<1> QED
  BY <1>1, <1>2, <1>3, SanitizedAre

\* A span keeps the invariant, whatever the sampler or the policy decides on it.
LEMMA ProcessSpanStep ==
    ASSUME ItInv, NEW q \in Ids, NEW i \in Resources(q), ProcessSpan(q, i)
    PROVE  ItInv'
<1> DEFINE j == itNext[q][i]
           o == itOut[q][i]
           r == Sanitized(q, i)[j]
<1>a. PICK adm \in BOOLEAN, keep \in BOOLEAN, logs \in SUBSET Reservable(r) :
        /\ itPolicy = "sampler" => (adm <=> Sampled(Service(q, i), r)) /\ keep
        /\ itOut' = [itOut EXCEPT ![q][i] = AddSpan(o, j, r, adm, keep, logs)]
  BY DEF ProcessSpan
<1> DEFINE n == AddSpan(o, j, r, adm, keep, logs)
<1>1. /\ ItRequests[q].kind = "traces" /\ Pending(q, i)
      /\ itOut' = [itOut EXCEPT ![q][i] = n]
      /\ itNext' = [itNext EXCEPT ![q][i] = j + 1]
      /\ UNCHANGED <<itPolicy, itPc, itGroups>>
  BY <1>a DEF ProcessSpan
<1>2. /\ itPc[q] = "running" /\ ShouldIngest(Service(q, i))
      /\ j \in 1 .. Len(Sanitized(q, i)) /\ j \in Nat /\ Len(Sanitized(q, i)) \in Nat
      /\ o \in Outputs /\ o.reduced = j - 1 /\ r \in AllRecords
      /\ r.err \in BOOLEAN /\ r.slow \in BOOLEAN
  BY <1>1, NextRecord
<1>3. adm \in BOOLEAN /\ (itPolicy = "sampler" /\ (r.err \/ r.slow) => adm /\ keep)
  BY <1>a, <1>2 DEF Sampled
<1>4. itOut'[q][i] = n /\ itNext'[q][i] = j + 1
  BY <1>1 DEF ItInv, IntakeShapes
<1>5. SpansFlagged(q, i) /\ RecordsKept(q, i)
  BY DEF ItInv, ResourceOK
<1> HIDE DEF n
<1>6. n = AddSpan(o, j, r, adm, keep, logs)
  BY DEF n
<1>0. /\ j \in Nat /\ o \in Outputs /\ r \in AllRecords /\ adm \in BOOLEAN
       /\ r.err \in BOOLEAN /\ r.slow \in BOOLEAN
  BY <1>2, <1>3
<1> HIDE DEF o, r, j
<1>7. /\ n \in Outputs /\ n.reduced = o.reduced + 1
      /\ n.spans = (IF adm /\ keep THEN o.spans \cup {j} ELSE o.spans)
      /\ o.traces \subseteq n.traces /\ o.failed \subseteq n.failed
      /\ o.hasErr => n.hasErr
      /\ o.hasSlow => n.hasSlow
      /\ adm => /\ r.trace \in n.traces
                /\ r.err => n.hasErr /\ r.trace \in n.failed
                /\ r.slow => n.hasSlow
  <2>1. SpanAdded(o, j, r, adm /\ keep, adm, AddSpan(o, j, r, adm, keep, logs))
    BY <1>0, AddSpanIs
  <2> QED
    BY <1>6, <2>1 DEF SpanAdded
<1>8. Progress(q, i)'
  BY <1>2, <1>4, <1>7 DEF Progress
<1>9. SpansFlagged(q, i)'
  <2> SUFFICES ASSUME NEW x \in n.spans
               PROVE  /\ x \in 1 .. j
                      /\ Sanitized(q, i)[x].trace \in n.traces
                      /\ Sanitized(q, i)[x].err => n.hasErr /\ Sanitized(q, i)[x].trace \in n.failed
                      /\ Sanitized(q, i)[x].slow => n.hasSlow
    BY <1>1, <1>2, <1>4 DEF SpansFlagged
  <2>1. CASE x \in o.spans
    <3>1. /\ x \in 1 .. j - 1 /\ Sanitized(q, i)[x].trace \in o.traces
          /\ Sanitized(q, i)[x].err => o.hasErr /\ Sanitized(q, i)[x].trace \in o.failed
          /\ Sanitized(q, i)[x].slow => o.hasSlow
      BY <1>5, <2>1 DEF SpansFlagged, o, j
    <3> QED
      BY <1>2, <1>7, <3>1
  <2>2. CASE x \notin o.spans
    <3>1. x = j /\ adm
      BY <1>7, <2>2
    <3> QED
      BY <1>2, <1>7, <3>1 DEF r, j
  <2> QED
    BY <2>1, <2>2
<1>10. RecordsKept(q, i)'
  <2> SUFFICES ASSUME itPolicy = "sampler", NEW x \in 1 .. j, Sanitized(q, i)[x].err \/ Sanitized(q, i)[x].slow
               PROVE  x \in n.spans
    BY <1>1, <1>2, <1>4 DEF RecordsKept
  <2>1. CASE x = j
    BY <1>3, <1>7, <2>1 DEF r, j
  <2>2. CASE x # j
    <3>1. x \in 1 .. itNext[q][i] - 1
      BY <1>2, <2>2 DEF j
    <3>2. x \in o.spans
      BY <1>1, <1>5, <3>1 DEF RecordsKept, o, j
    <3> QED
      BY <1>7, <3>2
  <2> QED
    BY <2>1, <2>2
<1>11. ResourceOK(q, i)'
  BY <1>8, <1>9, <1>10 DEF ResourceOK
<1> QED
  BY <1>1, <1>2, <1>11, OneResource DEF j

\* A log record keeps the invariant, retained or not.
LEMMA ProcessLogStep ==
    ASSUME ItInv, NEW q \in Ids, NEW i \in Resources(q), NEW keep \in BOOLEAN, ProcessLog(q, i, keep)
    PROVE  ItInv'
<1> DEFINE j == itNext[q][i]
           o == itOut[q][i]
           r == Sanitized(q, i)[j]
           ret == ShouldIngestSeverity(r.sev) /\ keep
           n == AddLog(o, j, r, ret)
<1>1. /\ ItRequests[q].kind = "logs" /\ Pending(q, i)
      /\ itOut' = [itOut EXCEPT ![q][i] = n]
      /\ itNext' = [itNext EXCEPT ![q][i] = j + 1]
      /\ UNCHANGED <<itPolicy, itPc, itGroups>>
  BY DEF ProcessLog
<1>2. /\ itPc[q] = "running" /\ ShouldIngest(Service(q, i))
      /\ j \in 1 .. Len(Sanitized(q, i)) /\ j \in Nat /\ Len(Sanitized(q, i)) \in Nat
      /\ o \in Outputs /\ o.reduced = j - 1 /\ r \in AllRecords
  BY <1>1, NextRecord
<1>3. ret \in BOOLEAN
  OBVIOUS
<1>4. itOut'[q][i] = n /\ itNext'[q][i] = j + 1
  BY <1>1 DEF ItInv, IntakeShapes
<1>5. SpansFlagged(q, i) /\ RecordsKept(q, i)
  BY DEF ItInv, ResourceOK
<1> HIDE DEF ret, n
<1>6. n = AddLog(o, j, r, ret)
  BY DEF n
<1>0. j \in Nat /\ o \in Outputs /\ r \in AllRecords /\ ret \in BOOLEAN
  BY <1>2, <1>3
<1> HIDE DEF o, r, j
<1>7. /\ n \in Outputs /\ n.reduced = o.reduced + 1 /\ n.spans = o.spans
      /\ (\A row \in o.logs : row[2] \in o.sevs) => \A row \in n.logs : row[2] \in n.sevs
  BY <1>6, <1>0, AddLogIs
<1>8. Progress(q, i)'
  BY <1>2, <1>4, <1>7 DEF Progress
<1>9. SpansFlagged(q, i)'
  <2>1. n.spans = {}
    BY <1>1, <1>5, <1>7 DEF SpansFlagged, o, j
  <2> QED
    BY <1>4, <2>1 DEF SpansFlagged
<1>10. RecordsKept(q, i)'
  <2>1. \A row \in o.logs : row[2] \in o.sevs
    BY <1>1, <1>5 DEF RecordsKept, o, j
  <2> QED
    BY <1>1, <1>4, <1>7, <2>1 DEF RecordsKept
<1>11. ResourceOK(q, i)'
  BY <1>8, <1>9, <1>10 DEF ResourceOK
<1> QED
  BY <1>1, <1>2, <1>11, OneResource DEF j

\* A step that leaves the goroutines and the merged requests alone.
LEMMA GoroutinesAtRest ==
    ASSUME ItInv, UNCHANGED <<itPolicy, itNext, itOut, itGroups>>, IntakeShapes',
           \A q \in Ids : itPc'[q] = "merged" => itPc[q] = "merged"
    PROVE  ItInv'
<1>1. \A q \in Ids : \A i \in Resources(q) : ResourceOK(q, i)'
  BY DEF ItInv, ResourceOK, Progress, SpansFlagged, RecordsKept
<1>2. \A q \in Ids : itPc'[q] = "merged" => GroupsOK(q)'
  BY DEF ItInv, GroupsOK
<1> QED
  BY <1>1, <1>2 DEF ItInv

\* The merge keeps the invariant: no goroutine has a record left.
LEMMA MergeStep ==
    ASSUME ItInv, NEW q \in Ids, Merge(q)
    PROVE  ItInv'
<1> DEFINE tenants == {Resource(q, i).tenant : i \in {k \in Resources(q) : Contributes(q, k)}}
           gs == {Group(q, t) : t \in tenants}
<1>1. /\ itPc[q] = "running" /\ \A i \in Resources(q) : ~Pending(q, i)
      /\ itGroups' = [itGroups EXCEPT ![q] = gs]
      /\ itPc' = [itPc EXCEPT ![q] = "merged"]
      /\ UNCHANGED <<itPolicy, itNext, itOut>>
  BY DEF Merge
<1>2. IntakeShapes'
  BY <1>1 DEF ItInv, IntakeShapes
<1>3. \A p \in Ids : \A i \in Resources(p) : ResourceOK(p, i)'
  BY <1>1 DEF ItInv, ResourceOK, Progress, SpansFlagged, RecordsKept
<1>4. ASSUME NEW p \in Ids, itPc'[p] = "merged", p # q
      PROVE  GroupsOK(p)'
  <2>1. itPc[p] = "merged" /\ itGroups'[p] = itGroups[p]
    BY <1>1, <1>4 DEF ItInv, IntakeShapes
  <2> QED
    BY <1>1, <2>1 DEF ItInv, GroupsOK
<1>5. itGroups'[q] = gs
  BY <1>1 DEF ItInv, IntakeShapes
<1>6. \A i \in Resources(q) : ShouldIngest(Service(q, i)) => itNext[q][i] = Len(Sanitized(q, i)) + 1
  <2> SUFFICES ASSUME NEW i \in Resources(q), ShouldIngest(Service(q, i))
               PROVE  itNext[q][i] = Len(Sanitized(q, i)) + 1
    OBVIOUS
  <2>1. Len(Sanitized(q, i)) \in Nat /\ itNext[q][i] \in 1 .. Len(Sanitized(q, i)) + 1
    BY SanitizedAre DEF ItInv, ResourceOK, Progress
  <2>2. ~(itNext[q][i] <= Len(Sanitized(q, i)))
    BY <1>1 DEF Pending
  <2> QED
    BY <2>1, <2>2
<1>7. \A g \in gs : GroupOK(q, g)
  BY MergedGroupOK
<1>8. ASSUME itPolicy = "sampler", ItRequests[q].kind = "traces",
             NEW p \in PriorityRecords(q)
      PROVE  \E g \in gs : p \in g.spans
  <2>1. PICK i \in Resources(q) : \E y \in DOMAIN Sanitized(q, i) : p = <<i, y>>
    BY DEF PriorityRecords, Records
  <2>2. PICK x \in DOMAIN Sanitized(q, i) : p = <<i, x>>
    BY <2>1
  <2>3. ShouldIngest(Service(q, i)) /\ (Sanitized(q, i)[x].err \/ Sanitized(q, i)[x].slow)
    <3>1. ShouldIngest(Service(q, p[1])) /\ (Sanitized(q, p[1])[p[2]].err \/ Sanitized(q, p[1])[p[2]].slow)
      BY DEF PriorityRecords, Records
    <3>2. p[1] = i /\ p[2] = x
      BY <2>2
    <3> QED
      BY <3>1, <3>2
  <2>4. x \in 1 .. itNext[q][i] - 1
    BY <1>6, <2>2, <2>3, SanitizedAre
  <2>5. x \in itOut[q][i].spans
    BY <1>8, <2>3, <2>4 DEF ItInv, ResourceOK, RecordsKept
  <2> DEFINE tn == Resource(q, i).tenant
             g == Group(q, tn)
  <2>6. i \in Contributing(q, tn) /\ tn \in tenants
    BY <2>5 DEF Contributing, Contributes
  <2>7. g \in gs
    BY <2>6
  <2>8. \A row : row \in g.spans <=>
          \E k \in Contributing(q, tn) : \E y \in itOut[q][k].spans : row = <<k, y>>
    <3> HIDE DEF tn, g
    <3>1. g = Group(q, tn)
      BY DEF g
    <3> QED
      BY <3>1, GroupRows
  <2> HIDE DEF g, tn, gs
  <2> QED
    BY <2>2, <2>5, <2>6, <2>7, <2>8
<1>9. GroupsOK(q)'
  <2>1. /\ \A i \in Resources(q) : ShouldIngest(Service(q, i)) => itNext'[q][i] = Len(Sanitized(q, i)) + 1
        /\ \A g \in itGroups'[q] : GroupOK(q, g)
    BY <1>1, <1>5, <1>6, <1>7
  <2>2. itPolicy = "sampler" /\ ItRequests[q].kind = "traces" =>
          PriorityRecords(q) \subseteq UNION {g.spans : g \in itGroups'[q]}
    BY <1>5, <1>8
  <2> QED
    BY <1>1, <2>1, <2>2 DEF GroupsOK
<1> QED
  BY <1>2, <1>3, <1>4, <1>9 DEF ItInv

\* No request is received, no record is reduced.
LEMMA ItInitInv == ItInit => ItInv
<1> SUFFICES ASSUME ItInit PROVE ItInv
  OBVIOUS
<1>1. IntakeShapes /\ \A q \in Ids : itPc[q] # "merged"
  BY DEF ItInit, IntakeShapes
<1>2. ASSUME NEW q \in Ids, NEW i \in Resources(q)
      PROVE  ResourceOK(q, i)
  <2>1. itNext[q][i] = 1 /\ itOut[q][i] = Empty
    BY DEF ItInit
  <2>2. Empty \in Outputs /\ Empty.reduced = 0 /\ Empty.spans = {} /\ Empty.logs = {}
    BY DEF Empty, Outputs
  <2>3. Len(Sanitized(q, i)) \in Nat
    BY SanitizedAre
  <2>4. Progress(q, i)
    BY <2>1, <2>2, <2>3 DEF Progress
  <2>5. SpansFlagged(q, i)
    BY <2>1, <2>2 DEF SpansFlagged
  <2>6. RecordsKept(q, i)
    BY <2>1, <2>2 DEF RecordsKept
  <2> QED
    BY <2>4, <2>5, <2>6 DEF ResourceOK
<1> QED
  BY <1>1, <1>2 DEF ItInv

\* Every step of the intake keeps the invariant.
LEMMA ItNextInv == ItInv /\ [ItNext]_itVars => ItInv'
<1> SUFFICES ASSUME ItInv, [ItNext]_itVars PROVE ItInv'
  OBVIOUS
<1>1. ASSUME NEW q \in Ids, ItReceive(q) PROVE ItInv'
  <2>1. UNCHANGED <<itPolicy, itNext, itOut, itGroups>> /\ itPc' = [itPc EXCEPT ![q] = "running"]
    BY <1>1 DEF ItReceive
  <2>2. IntakeShapes' /\ \A p \in Ids : itPc'[p] = "merged" => itPc[p] = "merged"
    BY <2>1 DEF ItInv, IntakeShapes
  <2> QED
    BY <2>1, <2>2, GoroutinesAtRest
<1>2. ASSUME UNCHANGED <<itPolicy, itPc, itNext, itOut, itGroups>> PROVE ItInv'
  <2>1. IntakeShapes'
    BY <1>2 DEF ItInv, IntakeShapes
  <2> QED
    BY <1>2, <2>1, GoroutinesAtRest
<1>3. ASSUME NEW s \in DOMAIN itBuckets, Refill(s) PROVE ItInv'
  BY <1>2, <1>3 DEF Refill
<1>4. CASE UNCHANGED itVars
  BY <1>2, <1>4 DEF itVars
<1> QED
  BY <1>1, <1>3, <1>4, MergeStep, ProcessSpanStep, ProcessLogStep DEF ItNext

\* Whatever the requests, the policy and the interleaving of the goroutines: see IntakeExact.
THEOREM IntakeIsExact == ItSpec => []IntakeExact
<1>1. ItSpec => []ItInv
  BY ItInitInv, ItNextInv, PTL DEF ItSpec
<1> QED
  BY <1>1, ItInvIsExact, PTL

-------------------------------------------------------------------------------
(* The ledgers of the exemplar policy.                                     *)

Strata == {<<>>} \cup (ExOps \X Classes)
TraceStates ==
    [born : Nat, class : Classes, stratum : Strata, observed : Nat, retained : Nat, bytes : Nat,
     reserved : Nat, synth : Nat, truncated : BOOLEAN, evicted : BOOLEAN]
TraceMaps == UNION {[T -> TraceStates] : T \in SUBSET ExTraces}
CellStates ==
    [id : Nat, traces : TraceMaps, perName : [Classes -> Nat], bytes : Nat, reserved : Nat,
     logs : [{0, 1} -> Nat]]
GlobalStates == [id : Nat, traces : Nat, bytes : Nat, reserved : Nat]
EntryStates ==
    [at : Nat, svc : ExServices, win : ExWindows, sw : Nat, gw : Nat, trace : ExTraces \cup {NoTrace},
     st : Nat, span : BOOLEAN]

\* The counts of a cell are those of its selected traces, within the caps.
OfClass(cell, c) == {t \in LiveTraces(cell) : cell.traces[t].class = c}
RanksOK(cell) ==
    /\ \A c \in Classes : cell.perName[c] = Cardinality(OfClass(cell, c))
    /\ SelectedCount(cell) <= TracesPerServiceWindow
    /\ \A op \in ExOps, c \in Classes : Cardinality(Members(cell, <<op, c>>)) <= StratumTopK

\* The bytes of a cell and of its traces are those of the entries that hold them.
TraceLedgerOK(S, k, cell, t) ==
    /\ cell.traces[t].reserved = Cardinality(TraceCharges(S, k, cell, t))
    /\ Cardinality(Spans(TraceCharges(S, k, cell, t))) <= cell.traces[t].retained
    /\ cell.traces[t].bytes + cell.traces[t].reserved <= MaxBytesPerTrace
LedgerOK(S, k, cell) ==
    /\ cell.reserved = Cardinality(Charges(S, k, cell))
    /\ cell.bytes + cell.reserved <= BytesPerServiceWindow
    /\ \A t \in DOMAIN cell.traces : TraceLedgerOK(S, k, cell, t)

\* A cell and its traces are older than offer n.
CellOK(S, k, cell, n) ==
    /\ cell \in CellStates /\ cell.id < n /\ \A t \in DOMAIN cell.traces : cell.traces[t].born < n
    /\ RanksOK(cell) /\ LedgerOK(S, k, cell)

GlobalOK(S, w, gw, n) ==
    /\ gw \in GlobalStates /\ gw.id < n
    /\ gw.reserved = Cardinality(GlobalCharges(S, w, gw))
    /\ gw.bytes + gw.reserved <= BytesGlobalWindow
    /\ gw.traces <= TracesGlobalWindow

\* An entry is in one reservation, and what it holds is older than the next offer.
EntriesOK ==
    /\ exRes \in [ExReservations -> SUBSET EntryStates]
    /\ IsFiniteSet(Outstanding)
    /\ \A r, s \in ExReservations : r # s => exRes[r] \cap exRes[s] = {}
    /\ \A e \in Outstanding : e.at < exOffers /\ e.sw < exOffers /\ e.gw < exOffers /\ e.st < exOffers

ExInv ==
    /\ exOffers \in Nat /\ EntriesOK
    /\ DOMAIN exCells \subseteq ExServices \X ExWindows
    /\ \A k \in DOMAIN exCells : CellOK(Outstanding, k, exCells[k], exOffers)
    /\ DOMAIN exGlobal \subseteq ExWindows
    /\ \A w \in DOMAIN exGlobal : GlobalOK(Outstanding, w, exGlobal[w], exOffers)

-------------------------------------------------------------------------------
\* The limits are numbers.
LEMMA ExNats ==
    /\ TracesPerServiceWindow \in Nat /\ TracesGlobalWindow \in Nat /\ StratumTopK \in Nat
    /\ BytesPerServiceWindow \in Nat /\ BytesGlobalWindow \in Nat /\ MaxBytesPerTrace \in Nat
BY ExAssumption

\* A map of traces.
LEMMA TraceMapIs ==
    ASSUME NEW f
    PROVE  f \in TraceMaps <=> /\ f = [u \in DOMAIN f |-> f[u]] /\ DOMAIN f \subseteq ExTraces
                               /\ \A u \in DOMAIN f : f[u] \in TraceStates
<1>1. ASSUME f \in TraceMaps
      PROVE  /\ f = [u \in DOMAIN f |-> f[u]] /\ DOMAIN f \subseteq ExTraces
             /\ \A u \in DOMAIN f : f[u] \in TraceStates
  <2>1. PICK T \in SUBSET ExTraces : f \in [T -> TraceStates]
    BY <1>1 DEF TraceMaps
  <2> QED
    BY <2>1
<1>2. ASSUME f = [u \in DOMAIN f |-> f[u]], DOMAIN f \subseteq ExTraces,
             \A u \in DOMAIN f : f[u] \in TraceStates
      PROVE  f \in TraceMaps
  <2>1. f \in [DOMAIN f -> TraceStates] /\ DOMAIN f \in SUBSET ExTraces
    BY <1>2
  <2> QED
    BY <2>1 DEF TraceMaps
<1> QED
  BY <1>1, <1>2

\* The fields of a cell.
LEMMA CellFields ==
    ASSUME NEW cell \in CellStates
    PROVE  /\ cell.id \in Nat /\ cell.traces \in TraceMaps /\ cell.perName \in [Classes -> Nat]
           /\ cell.bytes \in Nat /\ cell.reserved \in Nat /\ cell.logs \in [{0, 1} -> Nat]
           /\ DOMAIN cell.traces \subseteq ExTraces
           /\ \A u \in DOMAIN cell.traces : cell.traces[u] \in TraceStates
BY TraceMapIs DEF CellStates

\* A cell with one trace changed or added.
LEMMA WithTraceIs ==
    ASSUME NEW cell \in CellStates, NEW t \in ExTraces, NEW st \in TraceStates,
           NEW n, n = WithTrace(cell, t, st)
    PROVE  /\ n \in CellStates /\ n.id = cell.id /\ n.perName = cell.perName
           /\ n.bytes = cell.bytes /\ n.reserved = cell.reserved /\ n.logs = cell.logs
           /\ DOMAIN n.traces = DOMAIN cell.traces \cup {t} /\ n.traces[t] = st
           /\ \A u \in DOMAIN cell.traces : u # t => n.traces[u] = cell.traces[u]
<1> DEFINE f == [u \in DOMAIN cell.traces \cup {t} |-> IF u = t THEN st ELSE cell.traces[u]]
<1>1. /\ DOMAIN cell.traces \subseteq ExTraces
      /\ \A u \in DOMAIN cell.traces : cell.traces[u] \in TraceStates
  BY CellFields
<1>2. /\ DOMAIN f = DOMAIN cell.traces \cup {t} /\ f[t] = st
      /\ \A u \in DOMAIN cell.traces : u # t => f[u] = cell.traces[u]
      /\ f = [u \in DOMAIN f |-> f[u]] /\ DOMAIN f \subseteq ExTraces
      /\ \A u \in DOMAIN f : f[u] \in TraceStates
  BY <1>1
<1>3. n = [cell EXCEPT !.traces = f]
  BY DEF WithTrace
<1> HIDE DEF f
<1>4. f \in TraceMaps
  BY <1>2, TraceMapIs
<1>5. /\ n \in CellStates /\ n.id = cell.id /\ n.perName = cell.perName /\ n.traces = f
      /\ n.bytes = cell.bytes /\ n.reserved = cell.reserved /\ n.logs = cell.logs
  BY <1>3, <1>4 DEF CellStates
<1> QED
  BY <1>2, <1>5

\* Sizes of what a cell selected.
LEMMA LiveFinite ==
    ASSUME NEW cell \in CellStates
    PROVE  /\ LiveTraces(cell) \subseteq ExTraces /\ IsFiniteSet(LiveTraces(cell))
           /\ \A c : IsFiniteSet(OfClass(cell, c)) /\ Cardinality(OfClass(cell, c)) \in Nat
           /\ \A x : IsFiniteSet(Members(cell, x)) /\ Cardinality(Members(cell, x)) \in Nat
<1>1. LiveTraces(cell) \subseteq ExTraces
  BY CellFields DEF LiveTraces
<1>2. IsFiniteSet(LiveTraces(cell))
  BY <1>1, ExAssumption, FS_Subset
<1>3. \A c : IsFiniteSet(OfClass(cell, c))
  BY <1>2, FS_Subset DEF OfClass
<1>4. \A x : IsFiniteSet(Members(cell, x))
  BY <1>2, FS_Subset DEF Members
<1> QED
  BY <1>1, <1>2, <1>3, <1>4, FS_CardinalityType

\* The largest of finitely many numbers.
LEMMA MaxIs ==
    ASSUME NEW S \in SUBSET Nat, IsFiniteSet(S), S # {}
    PROVE  Max(S) \in S /\ \A x \in S : x <= Max(S)
<1> DEFINE G == {T \in SUBSET S : T # {} => \E x \in T : \A y \in T : y <= x}
<1>1. {} \in G
  OBVIOUS
<1>2. ASSUME NEW T \in SUBSET S, T # {}, \A x \in T : T \ {x} \in G
      PROVE  T \in G
  <2>1. PICK z \in T : TRUE
    BY <1>2
  <2>2. T \ {z} \in G
    BY <1>2
  <2>3. CASE T \ {z} = {}
    BY <2>1, <2>3
  <2>4. CASE T \ {z} # {}
    <3>1. PICK x \in T \ {z} : \A y \in T \ {z} : y <= x
      BY <2>2, <2>4
    <3>2. x \in Nat /\ z \in Nat /\ \A y \in T : y \in Nat
      OBVIOUS
    <3>3. CASE z <= x
      BY <3>1, <3>2, <3>3
    <3>4. CASE ~(z <= x)
      <4>1. \A y \in T : y <= z
        BY <3>1, <3>2, <3>4
      <4> QED
        BY <4>1
    <3> QED
      BY <3>3, <3>4
  <2> QED
    BY <2>3, <2>4
<1> HIDE DEF G
<1>3. S \in G
  BY <1>1, <1>2, FiniteInduction
<1>4. \E x \in S : \A y \in S : y <= x
  BY <1>3 DEF G
<1>5. \E x \in S : \A y \in S : x >= y
  BY <1>4
<1> QED
  BY <1>5 DEF Max

\* One element less.
LEMMA OneLess ==
    ASSUME NEW S, IsFiniteSet(S), NEW x \in S
    PROVE  IsFiniteSet(S \ {x}) /\ Cardinality(S \ {x}) = Cardinality(S) - 1 /\ Cardinality(S) \in Nat
           /\ Cardinality(S \ {x}) \in Nat
BY FS_RemoveElement, FS_CardinalityType, FS_Subset

\* One element more.
LEMMA OneMore ==
    ASSUME NEW S, IsFiniteSet(S), NEW x, x \notin S
    PROVE  IsFiniteSet(S \cup {x}) /\ Cardinality(S \cup {x}) = Cardinality(S) + 1 /\ Cardinality(S) \in Nat
BY FS_AddElement, FS_CardinalityType

\* Entries that leave.
LEMMA ManyLess ==
    ASSUME NEW S, IsFiniteSet(S), NEW T \in SUBSET S
    PROVE  /\ Cardinality(S) \in Nat /\ Cardinality(T) \in Nat /\ Cardinality(S \ T) \in Nat
           /\ Cardinality(S \ T) = Cardinality(S) - Cardinality(T)
<1>1. IsFiniteSet(T) /\ IsFiniteSet(S \ T)
  BY FS_Subset
<1>2. Cardinality(S) \in Nat /\ Cardinality(T) \in Nat /\ Cardinality(S \ T) \in Nat
  BY <1>1, FS_CardinalityType
<1> DEFINE U == S \ T
<1>3. S = U \cup T /\ U \cap T = {}
  OBVIOUS
<1> HIDE DEF U
<1>4. Cardinality(U \cup T) = Cardinality(U) + Cardinality(T) - Cardinality(U \cap T)
  BY <1>1, FS_Union DEF U
<1>5. Cardinality({}) = 0
  BY FS_EmptySet
<1>6. Cardinality(S) = Cardinality(U) + Cardinality(T) - 0
  BY <1>3, <1>4, <1>5
<1> QED
  BY <1>2, <1>6 DEF U

-------------------------------------------------------------------------------
\* A cell whose selected traces keep their class and their stratum keeps its counts.
LEMMA SameRanks ==
    ASSUME NEW cell, NEW n, RanksOK(cell), LiveTraces(n) = LiveTraces(cell), n.perName = cell.perName,
           \A t \in LiveTraces(cell) : /\ n.traces[t].class = cell.traces[t].class
                                       /\ n.traces[t].stratum = cell.traces[t].stratum
    PROVE  RanksOK(n)
<1>1. \A c : OfClass(n, c) = OfClass(cell, c)
  BY DEF OfClass
<1>2. \A x : Members(n, x) = Members(cell, x)
  BY DEF Members
<1>3. SelectedCount(n) = SelectedCount(cell)
  BY DEF SelectedCount
<1> QED
  BY <1>1, <1>2, <1>3 DEF RanksOK

\* What is the same to the ledgers in two records of a trace.
SameMoney(s, u) ==
    s.born = u.born /\ s.reserved = u.reserved /\ s.retained = u.retained /\ s.bytes = u.bytes

\* A cell that lost records keeps its ledger.
LEMMA SameLedger ==
    ASSUME NEW S, NEW k, NEW cell, NEW n, LedgerOK(S, k, cell), n.id = cell.id, n.bytes = cell.bytes,
           n.reserved = cell.reserved, DOMAIN n.traces \subseteq DOMAIN cell.traces,
           \A t \in DOMAIN n.traces : SameMoney(n.traces[t], cell.traces[t])
    PROVE  LedgerOK(S, k, n)
<1>1. Charges(S, k, n) = Charges(S, k, cell)
  BY DEF Charges
<1>2. ASSUME NEW t \in DOMAIN n.traces
      PROVE  TraceLedgerOK(S, k, n, t)
  <2>1. TraceCharges(S, k, n, t) = TraceCharges(S, k, cell, t)
    BY <1>1 DEF TraceCharges, SameMoney
  <2>2. TraceLedgerOK(S, k, cell, t) /\ SameMoney(n.traces[t], cell.traces[t])
    BY DEF LedgerOK
  <2> QED
    BY <2>1, <2>2 DEF TraceLedgerOK, SameMoney
<1> QED
  BY <1>1, <1>2 DEF LedgerOK

\* A trace that is displaced gives up its rank; the displaced may be forgotten.
Thinner(cell, n) ==
    /\ n \in CellStates /\ n.id = cell.id /\ n.bytes = cell.bytes /\ n.reserved = cell.reserved
    /\ DOMAIN n.traces \subseteq DOMAIN cell.traces
    /\ LiveTraces(n) \subseteq LiveTraces(cell)
    /\ \A t \in DOMAIN n.traces : /\ SameMoney(n.traces[t], cell.traces[t])
                                  /\ n.traces[t].class = cell.traces[t].class
                                  /\ n.traces[t].stratum = cell.traces[t].stratum

\* pruneEvictedLocked forgets displaced traces only.
LEMMA PruneIs ==
    ASSUME NEW cell \in CellStates, NEW n, n = PruneEvicted(cell)
    PROVE  /\ Thinner(cell, n) /\ LiveTraces(n) = LiveTraces(cell) /\ n.perName = cell.perName
<1>1. /\ cell.traces \in TraceMaps /\ DOMAIN cell.traces \subseteq ExTraces
      /\ \A u \in DOMAIN cell.traces : cell.traces[u] \in TraceStates
  BY CellFields
<1>2. CASE n = cell
  BY <1>2 DEF Thinner, SameMoney
<1>3. CASE n # cell
  <2> DEFINE f == [t \in LiveTraces(cell) |-> cell.traces[t]]
  <2>1. n = [cell EXCEPT !.traces = f]
    BY <1>3 DEF PruneEvicted
  <2>2. LiveTraces(cell) \subseteq DOMAIN cell.traces
    BY DEF LiveTraces
  <2>3. /\ DOMAIN f = LiveTraces(cell) /\ \A t \in DOMAIN f : f[t] = cell.traces[t]
        /\ f = [u \in DOMAIN f |-> f[u]] /\ DOMAIN f \subseteq ExTraces
        /\ \A u \in DOMAIN f : f[u] \in TraceStates
    BY <1>1, <2>2
  <2> HIDE DEF f
  <2>4. f \in TraceMaps
    BY <2>3, TraceMapIs
  <2>5. /\ n \in CellStates /\ n.id = cell.id /\ n.bytes = cell.bytes /\ n.reserved = cell.reserved
        /\ n.traces = f /\ n.perName = cell.perName
    BY <2>1, <2>4 DEF CellStates
  <2>6. LiveTraces(n) = LiveTraces(cell)
    BY <2>3, <2>5 DEF LiveTraces
  <2> QED
    BY <2>2, <2>3, <2>5, <2>6 DEF Thinner, SameMoney
<1> QED
  BY <1>2, <1>3

\* evictLocked: one trace less is selected, in its class and in its stratum.
LEMMA EvictIs ==
    ASSUME NEW cell \in CellStates, RanksOK(cell), NEW v \in LiveTraces(cell), NEW n, n = Evict(cell, {v})
    PROVE  /\ Thinner(cell, n) /\ RanksOK(n) /\ LiveTraces(n) = LiveTraces(cell) \ {v}
           /\ SelectedCount(n) = SelectedCount(cell) - 1
<1> DEFINE st == cell.traces[v]
           gone == [st EXCEPT !.evicted = TRUE]
           m == WithTrace(cell, v, gone)
           pn == [cell.perName EXCEPT ![st.class] = @ - 1]
           o == [m EXCEPT !.perName = pn]
<1>1. /\ DOMAIN cell.traces \subseteq ExTraces /\ v \in DOMAIN cell.traces /\ v \in ExTraces
      /\ st \in TraceStates /\ cell.perName \in [Classes -> Nat] /\ ~st.evicted
      /\ \A u \in DOMAIN cell.traces : cell.traces[u] \in TraceStates
  BY CellFields DEF LiveTraces
<1>2. /\ gone \in TraceStates /\ gone.evicted = TRUE /\ gone.class = st.class
      /\ gone.stratum = st.stratum /\ SameMoney(gone, st) /\ st.class \in Classes
  BY <1>1 DEF TraceStates, SameMoney
<1>3. n = PruneEvicted([m EXCEPT !.perName[st.class] = @ - 1])
  <2>1. (CHOOSE u \in {v} : TRUE) = v
    OBVIOUS
  <2> QED
    BY <2>1 DEF Evict
<1> HIDE DEF gone
<1>4. /\ m \in CellStates /\ m.id = cell.id /\ m.perName = cell.perName
      /\ m.bytes = cell.bytes /\ m.reserved = cell.reserved /\ m.logs = cell.logs
      /\ DOMAIN m.traces = DOMAIN cell.traces \cup {v} /\ m.traces[v] = gone
      /\ \A u \in DOMAIN cell.traces : u # v => m.traces[u] = cell.traces[u]
  BY <1>1, <1>2, WithTraceIs
<1> HIDE DEF m, st
<1>5. [m EXCEPT !.perName[st.class] = @ - 1] = o
  BY <1>4
<1>6. cell.perName[st.class] = Cardinality(OfClass(cell, st.class)) /\ v \in OfClass(cell, st.class)
  BY <1>2 DEF RanksOK, OfClass, st
<1>7. cell.perName[st.class] - 1 \in Nat
  BY <1>6, LiveFinite, OneLess
<1>8. /\ pn \in [Classes -> Nat] /\ pn[st.class] = cell.perName[st.class] - 1
      /\ \A c \in Classes : c # st.class => pn[c] = cell.perName[c]
  BY <1>1, <1>2, <1>7
<1> HIDE DEF pn
<1>9. /\ o \in CellStates /\ o.id = cell.id /\ o.perName = pn /\ o.traces = m.traces
      /\ o.bytes = cell.bytes /\ o.reserved = cell.reserved
  BY <1>4, <1>8 DEF CellStates
<1> HIDE DEF o
<1>10. /\ LiveTraces(o) = LiveTraces(cell) \ {v}
       /\ \A u \in DOMAIN o.traces : /\ SameMoney(o.traces[u], cell.traces[u])
                                     /\ o.traces[u].class = cell.traces[u].class
                                     /\ o.traces[u].stratum = cell.traces[u].stratum
       /\ DOMAIN o.traces = DOMAIN cell.traces
  <2>1. DOMAIN o.traces = DOMAIN cell.traces
    BY <1>1, <1>4, <1>9
  <2>2. ASSUME NEW u \in DOMAIN o.traces
        PROVE  /\ SameMoney(o.traces[u], cell.traces[u])
               /\ o.traces[u].class = cell.traces[u].class
               /\ o.traces[u].stratum = cell.traces[u].stratum
               /\ o.traces[u].evicted <=> (cell.traces[u].evicted \/ u = v)
    <3>1. CASE u = v
      BY <1>2, <1>4, <1>9, <3>1 DEF st
    <3>2. CASE u # v
      BY <1>4, <1>9, <2>1, <3>2 DEF SameMoney
    <3> QED
      BY <3>1, <3>2
  <2> QED
    BY <2>1, <2>2 DEF LiveTraces
<1>11. /\ Thinner(o, n) /\ LiveTraces(n) = LiveTraces(o) /\ n.perName = o.perName
  BY <1>3, <1>5, <1>9, PruneIs
<1>12. Thinner(cell, n)
  <2>1. /\ n \in CellStates /\ n.id = o.id /\ n.bytes = o.bytes /\ n.reserved = o.reserved
        /\ DOMAIN n.traces \subseteq DOMAIN o.traces
    BY <1>11 DEF Thinner
  <2>2. ASSUME NEW u \in DOMAIN n.traces
        PROVE  /\ SameMoney(n.traces[u], cell.traces[u])
               /\ n.traces[u].class = cell.traces[u].class
               /\ n.traces[u].stratum = cell.traces[u].stratum
    <3>1. /\ SameMoney(n.traces[u], o.traces[u]) /\ n.traces[u].class = o.traces[u].class
          /\ n.traces[u].stratum = o.traces[u].stratum
      BY <1>11 DEF Thinner
    <3>2. /\ SameMoney(o.traces[u], cell.traces[u]) /\ o.traces[u].class = cell.traces[u].class
          /\ o.traces[u].stratum = cell.traces[u].stratum
      BY <1>10, <2>1
    <3> QED
      BY <3>1, <3>2 DEF SameMoney
  <2>3. DOMAIN n.traces \subseteq DOMAIN cell.traces /\ LiveTraces(n) \subseteq LiveTraces(cell)
    BY <1>10, <1>11, <2>1
  <2> QED
    BY <1>9, <2>1, <2>2, <2>3 DEF Thinner
<1>13. LiveTraces(n) = LiveTraces(cell) \ {v}
  BY <1>10, <1>11
<1>14. \A u \in LiveTraces(n) : /\ n.traces[u].class = cell.traces[u].class
                                /\ n.traces[u].stratum = cell.traces[u].stratum
  BY <1>12 DEF Thinner, LiveTraces
<1>15. \A c \in Classes : n.perName[c] = Cardinality(OfClass(n, c))
  <2> SUFFICES ASSUME NEW c \in Classes PROVE n.perName[c] = Cardinality(OfClass(n, c))
    OBVIOUS
  <2>1. CASE c = st.class
    <3>1. OfClass(n, c) = OfClass(cell, c) \ {v}
      BY <1>13, <1>14 DEF OfClass
    <3>2. IsFiniteSet(OfClass(cell, c)) /\ v \in OfClass(cell, c)
      BY <1>6, <2>1, LiveFinite
    <3>3. Cardinality(OfClass(n, c)) = Cardinality(OfClass(cell, c)) - 1
      BY <3>1, <3>2, OneLess
    <3> QED
      BY <1>6, <1>8, <1>9, <1>11, <2>1, <3>3
  <2>2. CASE c # st.class
    <3>1. OfClass(n, c) = OfClass(cell, c)
      BY <1>13, <1>14, <2>2 DEF OfClass, st
    <3> QED
      BY <1>8, <1>9, <1>11, <2>2, <3>1 DEF RanksOK
  <2> QED
    BY <2>1, <2>2
<1>16. SelectedCount(n) = SelectedCount(cell) - 1
  <2>1. st.class = Error \/ st.class = Slow \/ st.class = Healthy
    BY <1>2 DEF Classes
  <2>2. /\ n.perName = pn /\ Error \in Classes /\ Slow \in Classes /\ Healthy \in Classes
        /\ cell.perName[Error] \in Nat /\ cell.perName[Slow] \in Nat /\ cell.perName[Healthy] \in Nat
    BY <1>1, <1>9, <1>11 DEF Classes
  <2>3. Error # Slow /\ Slow # Healthy /\ Error # Healthy
    BY DEF Error, Slow, Healthy
  <2> QED
    BY <1>8, <2>1, <2>2, <2>3 DEF SelectedCount
<1>17. ASSUME NEW op \in ExOps, NEW c \in Classes
       PROVE  Cardinality(Members(n, <<op, c>>)) <= StratumTopK
  <2>1. Members(n, <<op, c>>) \subseteq Members(cell, <<op, c>>)
    BY <1>13, <1>14 DEF Members
  <2>2. Cardinality(Members(n, <<op, c>>)) <= Cardinality(Members(cell, <<op, c>>))
    BY <2>1, LiveFinite, FS_Subset
  <2>3. /\ Cardinality(Members(cell, <<op, c>>)) <= StratumTopK /\ StratumTopK \in Nat
        /\ Cardinality(Members(cell, <<op, c>>)) \in Nat /\ n \in CellStates
    BY <1>12, LiveFinite, ExAssumption DEF RanksOK, Thinner
  <2>4. Cardinality(Members(n, <<op, c>>)) \in Nat
    BY <2>3, LiveFinite
  <2> QED
    BY <2>2, <2>3, <2>4
<1>18. SelectedCount(n) <= TracesPerServiceWindow
  <2>1. SelectedCount(cell) \in Nat
    BY <1>1 DEF SelectedCount, Classes
  <2> QED
    BY <1>16, <2>1, ExAssumption DEF RanksOK
<1> QED
  BY <1>12, <1>13, <1>15, <1>16, <1>17, <1>18 DEF RanksOK

\* A cell n with one trace of another changed or added.
Changed(cell, n, t, st) ==
    /\ n \in CellStates /\ RanksOK(n) /\ n.id = cell.id /\ n.bytes = cell.bytes
    /\ n.reserved = cell.reserved /\ DOMAIN n.traces = DOMAIN cell.traces \cup {t} /\ n.traces[t] = st
    /\ \A u \in DOMAIN cell.traces : u # t => n.traces[u] = cell.traces[u]

\* A new trace takes a free place.
LEMMA AddTraceRanks ==
    ASSUME NEW cell \in CellStates, RanksOK(cell), NEW t \in ExTraces \ DOMAIN cell.traces,
           NEW op \in ExOps, NEW c \in Classes, exOffers \in Nat,
           SelectedCount(cell) < TracesPerServiceWindow,
           c # Healthy => Cardinality(Members(cell, <<op, c>>)) < StratumTopK,
           NEW n, n = [WithTrace(cell, t, NewTrace(op, c)) EXCEPT !.perName[c] = @ + 1]
    PROVE  Changed(cell, n, t, NewTrace(op, c))
<1> DEFINE st == NewTrace(op, c)
           m == WithTrace(cell, t, st)
           pn == [cell.perName EXCEPT ![c] = @ + 1]
<1>1. /\ st \in TraceStates /\ ~st.evicted /\ st.class = c
      /\ st.stratum = (IF c = Healthy THEN <<>> ELSE <<op, c>>)
  BY DEF NewTrace, TraceStates, Strata
<1>2. cell.perName \in [Classes -> Nat]
  BY CellFields
<1> HIDE DEF st
<1>3. /\ m \in CellStates /\ m.id = cell.id /\ m.perName = cell.perName
      /\ m.bytes = cell.bytes /\ m.reserved = cell.reserved /\ m.logs = cell.logs
      /\ DOMAIN m.traces = DOMAIN cell.traces \cup {t} /\ m.traces[t] = st
      /\ \A u \in DOMAIN cell.traces : u # t => m.traces[u] = cell.traces[u]
  BY <1>1, WithTraceIs
<1>4. n = [m EXCEPT !.perName[c] = @ + 1]
  BY DEF st
<1> HIDE DEF m
<1>5. n = [m EXCEPT !.perName = pn]
  BY <1>3, <1>4
<1>6. /\ pn \in [Classes -> Nat] /\ pn[c] = cell.perName[c] + 1
      /\ \A d \in Classes : d # c => pn[d] = cell.perName[d]
  BY <1>2
<1> HIDE DEF pn
<1>7. /\ n \in CellStates /\ n.id = cell.id /\ n.perName = pn /\ n.traces = m.traces
      /\ n.bytes = cell.bytes /\ n.reserved = cell.reserved
  BY <1>3, <1>5, <1>6 DEF CellStates
<1>8. LiveTraces(n) = LiveTraces(cell) \cup {t} /\ t \notin LiveTraces(cell)
  BY <1>1, <1>3, <1>7 DEF LiveTraces
<1>9. \A u \in LiveTraces(cell) : n.traces[u] = cell.traces[u] /\ u # t
  BY <1>3, <1>7 DEF LiveTraces
<1>10. n.traces[t] = st
  BY <1>3, <1>7
<1>11. ASSUME NEW d \in Classes PROVE n.perName[d] = Cardinality(OfClass(n, d))
  <2>1. CASE d = c
    <3>1. OfClass(n, d) = OfClass(cell, d) \cup {t} /\ t \notin OfClass(cell, d)
      BY <1>1, <1>8, <1>9, <1>10, <2>1 DEF OfClass
    <3>2. Cardinality(OfClass(n, d)) = Cardinality(OfClass(cell, d)) + 1
      BY <3>1, LiveFinite, OneMore
    <3> QED
      BY <1>6, <1>7, <2>1, <3>2 DEF RanksOK
  <2>2. CASE d # c
    <3>1. OfClass(n, d) = OfClass(cell, d)
      BY <1>1, <1>8, <1>9, <1>10, <2>2 DEF OfClass
    <3> QED
      BY <1>6, <1>7, <2>2, <3>1 DEF RanksOK
  <2> QED
    BY <2>1, <2>2
<1>12. SelectedCount(n) <= TracesPerServiceWindow
  <2>1. c = Error \/ c = Slow \/ c = Healthy
    BY DEF Classes
  <2>2. /\ n.perName = pn /\ Error \in Classes /\ Slow \in Classes /\ Healthy \in Classes
        /\ cell.perName[Error] \in Nat /\ cell.perName[Slow] \in Nat /\ cell.perName[Healthy] \in Nat
    BY <1>2, <1>7 DEF Classes
  <2>3. Error # Slow /\ Slow # Healthy /\ Error # Healthy
    BY DEF Error, Slow, Healthy
  <2>4. SelectedCount(n) = SelectedCount(cell) + 1 /\ SelectedCount(cell) \in Nat
    BY <1>6, <2>1, <2>2, <2>3 DEF SelectedCount
  <2> QED
    BY <2>4, ExAssumption
<1>13. ASSUME NEW o \in ExOps, NEW d \in Classes
       PROVE  Cardinality(Members(n, <<o, d>>)) <= StratumTopK
  <2>1. CASE <<o, d>> = st.stratum
    <3>1. c # Healthy /\ <<o, d>> = <<op, c>>
      BY <1>1, <2>1
    <3>2. Members(n, <<o, d>>) = Members(cell, <<op, c>>) \cup {t} /\ t \notin Members(cell, <<op, c>>)
      BY <1>8, <1>9, <1>10, <2>1, <3>1 DEF Members
    <3>3. Cardinality(Members(n, <<o, d>>)) = Cardinality(Members(cell, <<op, c>>)) + 1
      BY <3>2, LiveFinite, OneMore
    <3>4. Cardinality(Members(cell, <<op, c>>)) \in Nat
      BY LiveFinite
    <3> QED
      BY <3>1, <3>3, <3>4, ExAssumption
  <2>2. CASE <<o, d>> # st.stratum
    <3>1. Members(n, <<o, d>>) = Members(cell, <<o, d>>)
      BY <1>8, <1>9, <1>10, <2>2 DEF Members
    <3> QED
      BY <3>1 DEF RanksOK
  <2> QED
    BY <2>1, <2>2
<1> QED
  BY <1>3, <1>7, <1>10, <1>11, <1>12, <1>13 DEF RanksOK, Changed, st

\* A trace that turns out slow or failed counts in its new class and keeps its stratum.
LEMMA UpgradeRanks ==
    ASSUME NEW cell \in CellStates, RanksOK(cell), NEW t \in LiveTraces(cell), NEW st \in TraceStates,
           NEW c \in Classes, c # cell.traces[t].class, st.class = c, ~st.evicted,
           st.stratum = cell.traces[t].stratum, NEW n,
           n = [WithTrace(cell, t, st) EXCEPT !.perName = Reranked(@, cell.traces[t].class, c)]
    PROVE  Changed(cell, n, t, st)
<1> DEFINE b == cell.traces[t].class
           m == WithTrace(cell, t, st)
           pn == Reranked(cell.perName, b, c)
<1>1. /\ t \in DOMAIN cell.traces /\ t \in ExTraces /\ cell.traces[t] \in TraceStates
      /\ cell.perName \in [Classes -> Nat] /\ ~cell.traces[t].evicted
  BY CellFields DEF LiveTraces
<1>2. b \in Classes /\ b # c
  BY <1>1 DEF TraceStates
<1>3. /\ m \in CellStates /\ m.id = cell.id /\ m.perName = cell.perName
      /\ m.bytes = cell.bytes /\ m.reserved = cell.reserved /\ m.logs = cell.logs
      /\ DOMAIN m.traces = DOMAIN cell.traces \cup {t} /\ m.traces[t] = st
      /\ \A u \in DOMAIN cell.traces : u # t => m.traces[u] = cell.traces[u]
  BY <1>1, WithTraceIs
<1>4. n = [m EXCEPT !.perName = Reranked(@, b, c)]
  OBVIOUS
<1>5. t \in OfClass(cell, b) /\ cell.perName[b] = Cardinality(OfClass(cell, b))
  BY <1>1, <1>2 DEF OfClass, RanksOK
<1>6. cell.perName[b] - 1 \in Nat
  BY <1>5, LiveFinite, OneLess
<1> HIDE DEF m, b
<1>7. n = [m EXCEPT !.perName = pn]
  BY <1>3, <1>4
<1>8. /\ pn \in [Classes -> Nat] /\ pn[b] = cell.perName[b] - 1 /\ pn[c] = cell.perName[c] + 1
      /\ \A d \in Classes : d # b /\ d # c => pn[d] = cell.perName[d]
  BY <1>1, <1>2, <1>6 DEF Reranked
<1> HIDE DEF pn
<1>9. /\ n \in CellStates /\ n.id = cell.id /\ n.perName = pn /\ n.traces = m.traces
      /\ n.bytes = cell.bytes /\ n.reserved = cell.reserved
  BY <1>3, <1>7, <1>8 DEF CellStates
<1>10. LiveTraces(n) = LiveTraces(cell) /\ DOMAIN n.traces = DOMAIN cell.traces
  BY <1>1, <1>3, <1>9 DEF LiveTraces
<1>11. /\ \A u \in LiveTraces(cell) : u # t => n.traces[u] = cell.traces[u]
       /\ n.traces[t] = st
  BY <1>3, <1>9 DEF LiveTraces
<1>12. ASSUME NEW d \in Classes PROVE n.perName[d] = Cardinality(OfClass(n, d))
  <2>1. CASE d = b
    <3>1. OfClass(n, d) = OfClass(cell, d) \ {t}
      BY <1>2, <1>10, <1>11, <2>1 DEF OfClass
    <3>2. Cardinality(OfClass(n, d)) = Cardinality(OfClass(cell, d)) - 1
      BY <1>5, <2>1, <3>1, LiveFinite, OneLess
    <3> QED
      BY <1>5, <1>8, <1>9, <2>1, <3>2
  <2>2. CASE d = c
    <3>1. OfClass(n, d) = OfClass(cell, d) \cup {t} /\ t \notin OfClass(cell, d)
      BY <1>2, <1>10, <1>11, <2>2 DEF OfClass, b
    <3>2. Cardinality(OfClass(n, d)) = Cardinality(OfClass(cell, d)) + 1
      BY <3>1, LiveFinite, OneMore
    <3> QED
      BY <1>8, <1>9, <2>2, <3>2 DEF RanksOK
  <2>3. CASE d # b /\ d # c
    <3>1. OfClass(n, d) = OfClass(cell, d)
      BY <1>10, <1>11, <2>3 DEF OfClass, b
    <3> QED
      BY <1>8, <1>9, <2>3, <3>1 DEF RanksOK
  <2> QED
    BY <2>1, <2>2, <2>3
<1>13. SelectedCount(n) = SelectedCount(cell)
  <2>1. b \in {Error, Slow, Healthy} /\ c \in {Error, Slow, Healthy}
    BY <1>2 DEF Classes
  <2>2. /\ n.perName = pn /\ Error \in Classes /\ Slow \in Classes /\ Healthy \in Classes
        /\ cell.perName[Error] \in Nat /\ cell.perName[Slow] \in Nat /\ cell.perName[Healthy] \in Nat
    BY <1>1, <1>9 DEF Classes
  <2>3. Error # Slow /\ Slow # Healthy /\ Error # Healthy
    BY DEF Error, Slow, Healthy
  <2> QED
    BY <1>2, <1>8, <2>1, <2>2, <2>3 DEF SelectedCount
<1>14. \A x : Members(n, x) = Members(cell, x)
  BY <1>10, <1>11 DEF Members
<1> QED
  BY <1>3, <1>9, <1>10, <1>12, <1>13, <1>14 DEF RanksOK, Changed

\* At most one trace is displaced, and it was selected.
LEMMA VictimIs ==
    ASSUME NEW cell \in CellStates, NEW c \in Classes, NEW t \in Nat, NEW V, V = LowestPriorityVictim(cell, c, t)
    PROVE  V = {} \/ \E v \in LiveTraces(cell) : V = {v}
<1> DEFINE lower == {d \in Classes : d > c /\ OfClass(cell, d) # {}}
<1>1. V = CASE lower # {} -> {Max(OfClass(cell, Max(lower)))}
            [] lower = {} /\ OfClass(cell, c) # {} /\ t < Max(OfClass(cell, c)) -> {Max(OfClass(cell, c))}
            [] OTHER -> {}
  BY DEF LowestPriorityVictim, OfClass
<1>2. \A d : OfClass(cell, d) \subseteq LiveTraces(cell)
  BY DEF OfClass
<1>3. ASSUME NEW d, OfClass(cell, d) # {} PROVE Max(OfClass(cell, d)) \in LiveTraces(cell)
  <2> DEFINE S == OfClass(cell, d)
  <2>1. IsFiniteSet(S) /\ S \in SUBSET Nat /\ S # {}
    BY <1>2, <1>3, LiveFinite, ExAssumption
  <2> HIDE DEF S
  <2>2. Max(S) \in S
    BY <2>1, MaxIs
  <2> QED
    BY <1>2, <2>2 DEF S
<1>4. lower # {} => OfClass(cell, Max(lower)) # {}
  <2> SUFFICES ASSUME lower # {} PROVE Max(lower) \in lower
    OBVIOUS
  <2>1. Classes \in SUBSET Nat /\ IsFiniteSet(Classes)
    <3>1. IsFiniteSet(0 .. 2)
      <4>1. 0 \in Int /\ 2 \in Int
        OBVIOUS
      <4> QED
        BY <4>1, FS_Interval
    <3>2. Classes \subseteq 0 .. 2 /\ 0 .. 2 \subseteq Nat
      BY DEF Classes, Error, Slow, Healthy
    <3>3. IsFiniteSet(Classes)
      BY <3>1, <3>2, FS_Subset
    <3> QED
      BY <3>2, <3>3
  <2>2. lower \in SUBSET Nat /\ IsFiniteSet(lower)
    BY <2>1, FS_Subset
  <2> HIDE DEF lower
  <2> QED
    BY <2>2, MaxIs
<1> HIDE DEF lower
<1>5. CASE lower # {}
  BY <1>1, <1>3, <1>4, <1>5
<1>6. CASE lower = {} /\ OfClass(cell, c) # {} /\ t < Max(OfClass(cell, c))
  BY <1>1, <1>3, <1>6
<1>7. CASE ~(lower # {}) /\ ~(lower = {} /\ OfClass(cell, c) # {} /\ t < Max(OfClass(cell, c)))
  BY <1>1, <1>7
<1> QED
  BY <1>5, <1>6, <1>7

\* What displacing at most one trace does.
LEMMA DisplaceIs ==
    ASSUME NEW cell \in CellStates, RanksOK(cell), NEW V, V = {} \/ \E v \in LiveTraces(cell) : V = {v},
           NEW n, n = Evict(cell, V)
    PROVE  /\ Thinner(cell, n) /\ RanksOK(n) /\ LiveTraces(n) = LiveTraces(cell) \ V
           /\ V = {} => n = cell
           /\ V # {} => SelectedCount(n) = SelectedCount(cell) - 1
           /\ Cardinality(V) \in Nat
<1>1. CASE V = {}
  <2>1. n = cell
    BY <1>1 DEF Evict
  <2> QED
    BY <1>1, <2>1, FS_EmptySet DEF Thinner, SameMoney
<1>2. CASE V # {}
  <2>1. PICK v \in LiveTraces(cell) : V = {v}
    BY <1>2
  <2>2. Cardinality({v}) = 1
    BY FS_Singleton
  <2> QED
    BY <1>2, <2>1, <2>2, EvictIs
<1> QED
  BY <1>1, <1>2

\* AdmitSpan of a new trace: the worst member of a full stratum leaves ...
Worst(cell, op, c) ==
    IF c # Healthy /\ Cardinality(Members(cell, <<op, c>>)) >= StratumTopK
    THEN {Max(Members(cell, <<op, c>>))} ELSE {}

\* A full stratum makes room, because its newcomer was eligible.
LEMMA WorstLeaves ==
    ASSUME NEW cell \in CellStates, RanksOK(cell), NEW t \in ExTraces, NEW op \in ExOps, NEW c \in Classes,
           Eligible(cell, t, op, c), NEW one, one = Evict(cell, Worst(cell, op, c))
    PROVE  /\ Thinner(cell, one) /\ RanksOK(one) /\ Cardinality(Worst(cell, op, c)) \in Nat
           /\ c # Healthy => Cardinality(Members(one, <<op, c>>)) < StratumTopK
<1> DEFINE M == Members(cell, <<op, c>>)
           W == Worst(cell, op, c)
<1>0. StratumTopK \in Nat
  BY ExNats
<1>1. IsFiniteSet(M) /\ M \subseteq LiveTraces(cell) /\ M \in SUBSET Nat /\ Cardinality(M) \in Nat
  BY LiveFinite, ExAssumption DEF Members
<1>2. c # Healthy /\ Cardinality(M) >= StratumTopK => M # {}
  BY <1>0, <1>1 DEF Eligible, StratumAdmits
<1>3. M # {} => Max(M) \in M
  <2> HIDE DEF M
  <2> QED
    BY <1>1, MaxIs
<1>4. W = {} \/ \E v \in LiveTraces(cell) : W = {v}
  BY <1>1, <1>2, <1>3 DEF Worst
<1>5. c # Healthy => (IF Cardinality(M) >= StratumTopK THEN W = {Max(M)} ELSE W = {})
  BY DEF Worst
<1>6. c # Healthy => Cardinality(M) <= StratumTopK
  BY DEF RanksOK
<1>7. one = Evict(cell, W)
  OBVIOUS
<1> HIDE DEF W
<1>8. /\ Thinner(cell, one) /\ RanksOK(one) /\ LiveTraces(one) = LiveTraces(cell) \ W
      /\ Cardinality(W) \in Nat
  BY <1>4, <1>7, DisplaceIs
<1>9. ASSUME c # Healthy PROVE Cardinality(Members(one, <<op, c>>)) < StratumTopK
  <2>1. \A u \in LiveTraces(one) : one.traces[u].stratum = cell.traces[u].stratum
    BY <1>8 DEF Thinner, LiveTraces
  <2>2. Members(one, <<op, c>>) = M \ W
    BY <1>8, <2>1 DEF Members
  <2> HIDE DEF M
  <2>3. CASE Cardinality(M) >= StratumTopK
    <3>1. W = {Max(M)} /\ Max(M) \in M /\ Cardinality(M) <= StratumTopK
      BY <1>2, <1>3, <1>5, <1>6, <1>9, <2>3
    <3>2. Cardinality(M \ W) = Cardinality(M) - 1
      BY <1>1, <3>1, OneLess
    <3> QED
      BY <1>0, <1>1, <2>2, <3>1, <3>2
  <2>4. CASE ~(Cardinality(M) >= StratumTopK)
    <3>1. M \ W = M
      BY <1>5, <1>9, <2>4
    <3> QED
      BY <1>0, <1>1, <2>2, <2>4, <3>1
  <2> QED
    BY <2>3, <2>4
<1> QED
  BY <1>8, <1>9 DEF W

\* ... then, at the budget, the trace of the lowest priority, if one may be displaced.
Victim(cell, c, t) ==
    IF SelectedCount(cell) >= TracesPerServiceWindow THEN LowestPriorityVictim(cell, c, t) ELSE {}

\* A full service makes room or refuses the newcomer.
LEMMA VictimLeaves ==
    ASSUME NEW cell \in CellStates, RanksOK(cell), NEW t \in ExTraces, NEW c \in Classes,
           NEW two, two = Evict(cell, Victim(cell, c, t))
    PROVE  /\ Thinner(cell, two) /\ RanksOK(two) /\ Cardinality(Victim(cell, c, t)) \in Nat
           /\ \A x : Cardinality(Members(two, x)) <= Cardinality(Members(cell, x))
           /\ \/ SelectedCount(cell) >= TracesPerServiceWindow /\ Victim(cell, c, t) = {}
              \/ SelectedCount(two) < TracesPerServiceWindow
<1> DEFINE V == Victim(cell, c, t)
<1>0. TracesPerServiceWindow \in Nat /\ t \in Nat
  BY ExNats, ExAssumption
<1>1. V = {} \/ \E v \in LiveTraces(cell) : V = {v}
  BY <1>0, VictimIs DEF Victim
<1>2. ~(SelectedCount(cell) >= TracesPerServiceWindow) => V = {}
  BY DEF Victim
<1>3. two = Evict(cell, V)
  OBVIOUS
<1>4. SelectedCount(cell) \in Nat /\ SelectedCount(cell) <= TracesPerServiceWindow
  <2>1. cell.perName \in [Classes -> Nat]
    BY CellFields
  <2> QED
    BY <2>1 DEF SelectedCount, Classes, RanksOK
<1> HIDE DEF V
<1>5. /\ Thinner(cell, two) /\ RanksOK(two) /\ LiveTraces(two) = LiveTraces(cell) \ V
      /\ V = {} => two = cell
      /\ V # {} => SelectedCount(two) = SelectedCount(cell) - 1
      /\ Cardinality(V) \in Nat
  BY <1>1, <1>3, DisplaceIs
<1>6. ASSUME NEW x PROVE Cardinality(Members(two, x)) <= Cardinality(Members(cell, x))
  <2>1. Members(two, x) \subseteq Members(cell, x)
    BY <1>5 DEF Thinner, Members, LiveTraces
  <2> QED
    BY <2>1, LiveFinite, FS_Subset
<1>7. \/ SelectedCount(cell) >= TracesPerServiceWindow /\ V = {}
      \/ SelectedCount(two) < TracesPerServiceWindow
  BY <1>0, <1>2, <1>4, <1>5
<1> QED
  BY <1>5, <1>6, <1>7 DEF V

-------------------------------------------------------------------------------
\* A cell whose charges did not change, seen later.
LEMMA CellKept ==
    ASSUME NEW S, NEW T, NEW k, NEW cell, NEW n \in Nat, NEW m \in Nat, n <= m, CellOK(S, k, cell, n),
           Charges(T, k, cell) = Charges(S, k, cell)
    PROVE  CellOK(T, k, cell, m)
<1>1. cell \in CellStates /\ \A t \in DOMAIN cell.traces : cell.traces[t] \in TraceStates
  BY CellFields DEF CellOK
<1>2. cell.id \in Nat /\ \A t \in DOMAIN cell.traces : cell.traces[t].born \in Nat
  BY <1>1 DEF CellStates, TraceStates
<1>3. cell.id < m /\ \A t \in DOMAIN cell.traces : cell.traces[t].born < m
  BY <1>2 DEF CellOK
<1>4. \A t : TraceCharges(T, k, cell, t) = TraceCharges(S, k, cell, t)
  BY DEF TraceCharges
<1>5. LedgerOK(S, k, cell)
  BY DEF CellOK
<1>6. \A t \in DOMAIN cell.traces : TraceLedgerOK(T, k, cell, t)
  <2> SUFFICES ASSUME NEW t \in DOMAIN cell.traces PROVE TraceLedgerOK(T, k, cell, t)
    OBVIOUS
  <2>1. TraceLedgerOK(S, k, cell, t)
    BY <1>5 DEF LedgerOK
  <2> QED
    BY <1>4, <2>1 DEF TraceLedgerOK
<1>7. LedgerOK(T, k, cell)
  BY <1>5, <1>6 DEF LedgerOK
<1> QED
  BY <1>1, <1>3, <1>7 DEF CellOK

\* The same for an instance-wide cell.
LEMMA GlobalKept ==
    ASSUME NEW S, NEW T, NEW w, NEW gw, NEW n \in Nat, NEW m \in Nat, n <= m, GlobalOK(S, w, gw, n),
           GlobalCharges(T, w, gw) = GlobalCharges(S, w, gw)
    PROVE  GlobalOK(T, w, gw, m)
<1>1. gw.id \in Nat
  BY DEF GlobalOK, GlobalStates
<1> QED
  BY <1>1 DEF GlobalOK

\* Traces that leave a cell, or give up their rank, leave the rest in order.
LEMMA ThinnerOK ==
    ASSUME NEW S, NEW k, NEW cell, NEW n \in Nat, CellOK(S, k, cell, n), NEW one, Thinner(cell, one),
           RanksOK(one)
    PROVE  CellOK(S, k, one, n)
<1>1. LedgerOK(S, k, one)
  <2>1. LedgerOK(S, k, cell)
    BY DEF CellOK
  <2> QED
    BY <2>1, SameLedger DEF Thinner
<1>2. \A t \in DOMAIN one.traces : one.traces[t].born < n
  BY DEF CellOK, Thinner, SameMoney
<1> QED
  BY <1>1, <1>2 DEF CellOK, Thinner

\* A trace whose bytes and rank stay.
SameTrace(s, u) == SameMoney(s, u) /\ s.class = u.class /\ s.stratum = u.stratum /\ s.evicted = u.evicted

\* Counting a span or marking a trace truncated leaves its cell in order.
LEMMA TraceTouched ==
    ASSUME NEW S, NEW k, NEW cell, NEW n \in Nat, CellOK(S, k, cell, n), NEW t \in DOMAIN cell.traces,
           NEW st \in TraceStates, SameTrace(st, cell.traces[t])
    PROVE  CellOK(S, k, WithTrace(cell, t, st), n)
<1> DEFINE m == WithTrace(cell, t, st)
<1>1. cell \in CellStates /\ t \in ExTraces
  BY CellFields DEF CellOK
<1>2. /\ m \in CellStates /\ m.id = cell.id /\ m.perName = cell.perName
      /\ m.bytes = cell.bytes /\ m.reserved = cell.reserved /\ m.logs = cell.logs
      /\ DOMAIN m.traces = DOMAIN cell.traces \cup {t} /\ m.traces[t] = st
      /\ \A u \in DOMAIN cell.traces : u # t => m.traces[u] = cell.traces[u]
  BY <1>1, WithTraceIs
<1> HIDE DEF m
<1>3. DOMAIN m.traces = DOMAIN cell.traces
  BY <1>2
<1>4. \A u \in DOMAIN cell.traces : SameTrace(m.traces[u], cell.traces[u])
  BY <1>2 DEF SameTrace, SameMoney
<1>5. Thinner(cell, m) /\ LiveTraces(m) = LiveTraces(cell)
  BY <1>2, <1>3, <1>4 DEF Thinner, LiveTraces, SameTrace
<1>6. RanksOK(m)
  <2>1. RanksOK(cell) /\ LiveTraces(cell) \subseteq DOMAIN cell.traces
    BY DEF CellOK, LiveTraces
  <2>2. \A u \in LiveTraces(cell) : /\ m.traces[u].class = cell.traces[u].class
                                    /\ m.traces[u].stratum = cell.traces[u].stratum
    BY <1>4, <2>1 DEF SameTrace
  <2> QED
    BY <1>2, <1>5, <2>1, <2>2, SameRanks
<1>7. CellOK(S, k, m, n)
  BY <1>5, <1>6, ThinnerOK
<1> QED
  BY <1>7 DEF m

\* markTruncated.
LEMMA TruncatedOK ==
    ASSUME NEW S, NEW k, NEW cell, NEW n \in Nat, CellOK(S, k, cell, n), NEW t \in LiveTraces(cell)
    PROVE  CellOK(S, k, Truncated(cell, t), n)
<1> DEFINE st == [cell.traces[t] EXCEPT !.truncated = TRUE]
<1>1. t \in DOMAIN cell.traces /\ cell.traces[t] \in TraceStates
  BY CellFields DEF CellOK, LiveTraces
<1>2. st \in TraceStates /\ SameTrace(st, cell.traces[t])
  BY <1>1 DEF TraceStates, SameTrace, SameMoney
<1> HIDE DEF st
<1>3. CellOK(S, k, WithTrace(cell, t, st), n)
  BY <1>1, <1>2, TraceTouched
<1> QED
  BY <1>3 DEF Truncated, st

\* A cell that exists is in order; one that is created now holds nothing, and no reservation
\* holds it.
LEMMA CellIsOK ==
    ASSUME ExInv, NEW svc \in ExServices, NEW w \in ExWindows
    PROVE  CellOK(Outstanding, <<svc, w>>, Cell(svc, w), exOffers + 1)
<1> DEFINE k == <<svc, w>>
           S == Outstanding
<1>0. exOffers \in Nat /\ exOffers + 1 \in Nat /\ exOffers <= exOffers + 1
  BY DEF ExInv
<1>1. CASE k \in DOMAIN exCells
  <2>1. Cell(svc, w) = exCells[k] /\ CellOK(S, k, exCells[k], exOffers)
    BY <1>1 DEF Cell, ExInv
  <2> QED
    BY <1>0, <2>1, CellKept
<1>2. CASE k \notin DOMAIN exCells
  <2> DEFINE c == NewServiceWindow
             z == [i \in {0, 1} |-> 0]
             p == [d \in Classes |-> 0]
  <2>1. Cell(svc, w) = c
    BY <1>2 DEF Cell
  <2>2. <<>> \in TraceMaps /\ DOMAIN <<>> = {}
    <3>1. <<>> \in [{} -> TraceStates]
      OBVIOUS
    <3>2. {} \in SUBSET ExTraces
      OBVIOUS
    <3> QED
      BY <3>1, <3>2 DEF TraceMaps
  <2>3. z \in [{0, 1} -> Nat] /\ p \in [Classes -> Nat] /\ \A d \in Classes : p[d] = 0
    OBVIOUS
  <2>4. c = [id |-> exOffers, traces |-> <<>>, perName |-> p, bytes |-> 0, reserved |-> 0, logs |-> z]
    BY DEF NewServiceWindow
  <2> HIDE DEF z, p, c
  <2>5. /\ c \in CellStates /\ c.id = exOffers /\ c.traces = <<>> /\ c.perName = p /\ c.bytes = 0
        /\ c.reserved = 0
    BY <1>0, <2>2, <2>3, <2>4 DEF CellStates
  <2>6. LiveTraces(c) = {}
    BY <2>2, <2>5 DEF LiveTraces
  <2>7. (\A d : OfClass(c, d) = {}) /\ (\A x : Members(c, x) = {})
    BY <2>6 DEF OfClass, Members
  <2>8. Cardinality({}) = 0
    BY FS_EmptySet
  <2>9. RanksOK(c)
    <3>1. SelectedCount(c) = 0
      BY <2>3, <2>5 DEF SelectedCount, Classes
    <3>2. TracesPerServiceWindow \in Nat /\ StratumTopK \in Nat
      BY ExNats
    <3>3. \A d \in Classes : c.perName[d] = Cardinality(OfClass(c, d))
      BY <2>3, <2>5, <2>7, <2>8
    <3>4. \A x : Cardinality(Members(c, x)) = 0
      BY <2>7, <2>8
    <3>5. \A op \in ExOps, d \in Classes : Cardinality(Members(c, <<op, d>>)) <= StratumTopK
      BY <3>2, <3>4
    <3> QED
      BY <3>1, <3>2, <3>3, <3>5 DEF RanksOK
  <2>10. Charges(S, k, c) = {}
    <3>1. \A e \in S : e.sw < exOffers /\ e.sw \in Nat
      BY DEF ExInv, EntriesOK, EntryStates, Outstanding
    <3> HIDE DEF S
    <3> QED
      BY <1>0, <2>5, <3>1 DEF Charges
  <2>11. LedgerOK(S, k, c)
    <3>1. BytesPerServiceWindow \in Nat /\ c.bytes + c.reserved = 0
      BY <2>5, ExNats
    <3>2. \A t \in DOMAIN c.traces : FALSE
      BY <2>2, <2>5
    <3>3. c.reserved = Cardinality(Charges(S, k, c))
      BY <2>5, <2>8, <2>10
    <3> QED
      BY <3>1, <3>2, <3>3 DEF LedgerOK
  <2> QED
    BY <1>0, <2>1, <2>2, <2>5, <2>9, <2>11 DEF CellOK
<1> QED
  BY <1>1, <1>2

\* The same for an instance-wide cell that exists or is created now.
LEMMA GlobalIsOK ==
    ASSUME ExInv, NEW w \in ExWindows
    PROVE  GlobalOK(Outstanding, w, Global(w), exOffers + 1)
<1> DEFINE S == Outstanding
<1>0. exOffers \in Nat /\ exOffers + 1 \in Nat /\ exOffers <= exOffers + 1
  BY DEF ExInv
<1>1. CASE w \in DOMAIN exGlobal
  <2>1. Global(w) = exGlobal[w] /\ GlobalOK(S, w, exGlobal[w], exOffers)
    BY <1>1 DEF Global, ExInv
  <2> QED
    BY <1>0, <2>1, GlobalKept
<1>2. CASE w \notin DOMAIN exGlobal
  <2> DEFINE c == NewGlobalWindow
  <2>1. Global(w) = c
    BY <1>2 DEF Global
  <2>2. /\ c \in GlobalStates /\ c.id = exOffers /\ c.traces = 0 /\ c.bytes = 0 /\ c.reserved = 0
    BY <1>0 DEF GlobalStates, NewGlobalWindow
  <2>3. GlobalCharges(S, w, c) = {}
    <3>1. \A e \in S : e.gw < exOffers /\ e.gw \in Nat
      BY DEF ExInv, EntriesOK, EntryStates, Outstanding
    <3> HIDE DEF S, c
    <3> QED
      BY <1>0, <2>2, <3>1 DEF GlobalCharges
  <2>4. Cardinality({}) = 0
    BY FS_EmptySet
  <2> HIDE DEF c
  <2> QED
    BY <1>0, <2>1, <2>2, <2>3, <2>4, ExNats DEF GlobalOK
<1> QED
  BY <1>1, <1>2

\* The entries while nothing is reserved or settled.
LEMMA EntriesWait ==
    ASSUME ExInv, exRes' = exRes, exOffers' = exOffers + 1
    PROVE  EntriesOK' /\ Outstanding' = Outstanding
<1>1. Outstanding' = Outstanding
  BY DEF Outstanding
<1>2. \A e \in Outstanding : e \in EntryStates
  BY DEF ExInv, EntriesOK, Outstanding
<1>3. \A e \in Outstanding : e.at < exOffers' /\ e.sw < exOffers' /\ e.gw < exOffers' /\ e.st < exOffers'
  BY <1>2 DEF ExInv, EntriesOK, EntryStates
<1> QED
  BY <1>1, <1>3 DEF ExInv, EntriesOK

\* An offer changes one cell, and at most one instance-wide cell.
LEMMA OfferStep ==
    ASSUME ExInv, NEW svc \in ExServices, NEW w \in ExWindows, EntriesOK', exOffers' = exOffers + 1,
           Outstanding \subseteq Outstanding',
           \A e \in Outstanding' : e \in Outstanding \/ (e.svc = svc /\ e.win = w),
           NEW cell, exCells' = WithCell(svc, w, cell), CellOK(Outstanding', <<svc, w>>, cell, exOffers'),
           \/ exGlobal' = exGlobal /\ Outstanding' = Outstanding
           \/ \E gw : exGlobal' = WithGlobal(w, gw) /\ GlobalOK(Outstanding', w, gw, exOffers')
    PROVE  ExInv'
<1>0. exOffers \in Nat /\ exOffers' \in Nat /\ exOffers <= exOffers'
  BY DEF ExInv
<1>1. DOMAIN exCells \subseteq ExServices \X ExWindows /\ DOMAIN exGlobal \subseteq ExWindows
  BY DEF ExInv
<1>2. /\ DOMAIN exCells' \subseteq DOMAIN exCells \cup {<<svc, w>>}
      /\ \A k \in DOMAIN exCells' : exCells'[k] = IF k = <<svc, w>> THEN cell ELSE exCells[k]
  BY DEF WithCell
<1>3. DOMAIN exCells' \subseteq ExServices \X ExWindows
  BY <1>1, <1>2
<1>4. ASSUME NEW k \in DOMAIN exCells'
      PROVE  CellOK(Outstanding', k, exCells'[k], exOffers')
  <2>1. CASE k = <<svc, w>>
    BY <1>2, <2>1
  <2>2. CASE k # <<svc, w>>
    <3>1. k \in DOMAIN exCells /\ exCells'[k] = exCells[k] /\ CellOK(Outstanding, k, exCells[k], exOffers)
      BY <1>2, <2>2 DEF ExInv
    <3>2. k[1] # svc \/ k[2] # w
      BY <1>3, <2>2
    <3>3. Charges(Outstanding', k, exCells[k]) = Charges(Outstanding, k, exCells[k])
      BY <3>2 DEF Charges
    <3> QED
      BY <1>0, <3>1, <3>3, CellKept
  <2> QED
    BY <2>1, <2>2
<1>5. DOMAIN exGlobal' \subseteq ExWindows /\ \A v \in DOMAIN exGlobal' : GlobalOK(Outstanding', v, exGlobal'[v], exOffers')
  <2>1. CASE exGlobal' = exGlobal /\ Outstanding' = Outstanding
    <3> SUFFICES ASSUME NEW v \in DOMAIN exGlobal PROVE GlobalOK(Outstanding, v, exGlobal[v], exOffers')
      BY <1>1, <2>1
    <3>1. GlobalOK(Outstanding, v, exGlobal[v], exOffers)
      BY DEF ExInv
    <3> QED
      BY <1>0, <3>1, GlobalKept
  <2>2. ASSUME NEW gw, exGlobal' = WithGlobal(w, gw), GlobalOK(Outstanding', w, gw, exOffers')
        PROVE  /\ DOMAIN exGlobal' \subseteq ExWindows
               /\ \A v \in DOMAIN exGlobal' : GlobalOK(Outstanding', v, exGlobal'[v], exOffers')
    <3>1. /\ DOMAIN exGlobal' \subseteq DOMAIN exGlobal \cup {w}
          /\ \A v \in DOMAIN exGlobal' : exGlobal'[v] = IF v = w THEN gw ELSE exGlobal[v]
      BY <2>2 DEF WithGlobal
    <3>2. ASSUME NEW v \in DOMAIN exGlobal', v # w
          PROVE  GlobalOK(Outstanding', v, exGlobal'[v], exOffers')
      <4>1. GlobalOK(Outstanding, v, exGlobal[v], exOffers) /\ exGlobal'[v] = exGlobal[v]
        BY <3>1, <3>2 DEF ExInv
      <4>2. GlobalCharges(Outstanding', v, exGlobal[v]) = GlobalCharges(Outstanding, v, exGlobal[v])
        BY <3>2 DEF GlobalCharges
      <4> QED
        BY <1>0, <4>1, <4>2, GlobalKept
    <3> QED
      BY <1>1, <2>2, <3>1, <3>2
  <2> QED
    BY <2>1, <2>2
<1> QED
  BY <1>0, <1>3, <1>4, <1>5 DEF ExInv

-------------------------------------------------------------------------------
\* Spans of a set of charges with one more.
LEMMA SpansMore ==
    ASSUME NEW T, IsFiniteSet(T), NEW e, e \notin T, e.span \in BOOLEAN
    PROVE  /\ Cardinality(Spans(T)) \in Nat
           /\ Cardinality(Spans(T \cup {e})) = Cardinality(Spans(T)) + (IF e.span THEN 1 ELSE 0)
<1>1. IsFiniteSet(Spans(T)) /\ e \notin Spans(T)
  BY FS_Subset DEF Spans
<1>2. CASE e.span
  <2>1. Spans(T \cup {e}) = Spans(T) \cup {e}
    BY <1>2 DEF Spans
  <2> QED
    BY <1>1, <1>2, <2>1, OneMore
<1>3. CASE ~e.span
  <2>1. Spans(T \cup {e}) = Spans(T)
    BY <1>3 DEF Spans
  <2>2. Cardinality(Spans(T)) \in Nat
    BY <1>1, FS_CardinalityType
  <2> QED
    BY <1>3, <2>1, <2>2
<1> QED
  BY <1>2, <1>3

\* An entry that holds a cell.
Holds(e, k, cell) == e \in EntryStates /\ e.svc = k[1] /\ e.win = k[2] /\ e.sw = cell.id

OneCharge(S, T, k, cell, e) ==
    /\ Charges(T, k, cell) = Charges(S, k, cell) \cup {e}
    /\ IsFiniteSet(Charges(S, k, cell)) /\ e \notin Charges(S, k, cell)
    /\ Cardinality(Charges(S, k, cell)) \in Nat
    /\ Cardinality(Charges(T, k, cell)) = Cardinality(Charges(S, k, cell)) + 1

\* A new entry is one charge more to the cell it holds.
LEMMA ChargesMore ==
    ASSUME NEW S, NEW k, NEW cell, NEW e, e \notin S, Holds(e, k, cell), IsFiniteSet(S),
           NEW T, T = S \cup {e}
    PROVE  OneCharge(S, T, k, cell, e)
<1>1. Charges(T, k, cell) = Charges(S, k, cell) \cup {e}
  BY DEF Charges, Holds
<1>2. IsFiniteSet(Charges(S, k, cell)) /\ e \notin Charges(S, k, cell)
  BY FS_Subset DEF Charges
<1> QED
  BY <1>1, <1>2, OneMore DEF OneCharge

\* A cell with one more byte reserved.
LEMMA MoreReserved ==
    ASSUME NEW cell \in CellStates, NEW n, n = [cell EXCEPT !.reserved = @ + 1]
    PROVE  /\ n \in CellStates /\ n.id = cell.id /\ n.perName = cell.perName /\ n.bytes = cell.bytes
           /\ n.traces = cell.traces /\ n.reserved = cell.reserved + 1
BY DEF CellStates

\* The record of a trace that is charged with one more row.
RowCharged(s, u, span) ==
    /\ s \in TraceStates /\ s.born = u.born /\ s.class = u.class /\ s.stratum = u.stratum
    /\ s.evicted = u.evicted /\ s.reserved = u.reserved + 1 /\ s.bytes = u.bytes
    /\ s.retained = u.retained + (IF span THEN 1 ELSE 0)

\* A row of a trace: the cell and the trace are charged.
LEMMA TraceCharged ==
    ASSUME NEW S, IsFiniteSet(S), NEW k, NEW cell, NEW n \in Nat, CellOK(S, k, cell, n), NEW gw,
           NEW t \in DOMAIN cell.traces, NEW st, NEW e, e \notin S, Holds(e, k, cell),
           RowCharged(st, cell.traces[t], e.span), e.trace = t, e.st = cell.traces[t].born, Fits(cell, gw, t)
    PROVE  CellOK(S \cup {e}, k, [WithTrace(cell, t, st) EXCEPT !.reserved = @ + 1], n)
<1> DEFINE m == WithTrace(cell, t, st)
           c == [m EXCEPT !.reserved = @ + 1]
           T == S \cup {e}
<1>1. /\ cell \in CellStates /\ t \in ExTraces /\ st \in TraceStates /\ RanksOK(cell)
      /\ LedgerOK(S, k, cell) /\ cell.id < n /\ t \in Nat /\ t # NoTrace
      /\ \A u \in DOMAIN cell.traces : cell.traces[u] \in TraceStates /\ cell.traces[u].born < n
  BY CellFields, ExAssumption DEF CellOK, RowCharged, NoTrace
<1>2. /\ m \in CellStates /\ m.id = cell.id /\ m.perName = cell.perName
      /\ m.bytes = cell.bytes /\ m.reserved = cell.reserved /\ m.logs = cell.logs
      /\ DOMAIN m.traces = DOMAIN cell.traces \cup {t} /\ m.traces[t] = st
      /\ \A u \in DOMAIN cell.traces : u # t => m.traces[u] = cell.traces[u]
  BY <1>1, WithTraceIs
<1> HIDE DEF m
<1>3. /\ c \in CellStates /\ c.id = cell.id /\ c.perName = cell.perName /\ c.bytes = cell.bytes
      /\ c.reserved = cell.reserved + 1 /\ DOMAIN c.traces = DOMAIN cell.traces /\ c.traces[t] = st
      /\ \A u \in DOMAIN cell.traces : u # t => c.traces[u] = cell.traces[u]
  <2>1. /\ c \in CellStates /\ c.id = m.id /\ c.perName = m.perName /\ c.bytes = m.bytes
        /\ c.traces = m.traces /\ c.reserved = m.reserved + 1
    BY <1>2, MoreReserved
  <2> HIDE DEF c
  <2>2. DOMAIN cell.traces \cup {t} = DOMAIN cell.traces
    OBVIOUS
  <2> QED
    BY <1>2, <2>1, <2>2
<1> HIDE DEF c
<1>4. LiveTraces(c) = LiveTraces(cell)
  BY <1>3 DEF LiveTraces, RowCharged
<1>5. RanksOK(c)
  <2>1. \A u \in LiveTraces(cell) : /\ c.traces[u].class = cell.traces[u].class
                                    /\ c.traces[u].stratum = cell.traces[u].stratum
    BY <1>3 DEF LiveTraces, RowCharged
  <2> QED
    BY <1>1, <1>3, <1>4, <2>1, SameRanks
<1>6. /\ Charges(T, k, cell) = Charges(S, k, cell) \cup {e}
      /\ IsFiniteSet(Charges(S, k, cell)) /\ e \notin Charges(S, k, cell)
      /\ Cardinality(Charges(T, k, cell)) = Cardinality(Charges(S, k, cell)) + 1
  <2>1. T = S \cup {e}
    OBVIOUS
  <2> HIDE DEF T
  <2>2. OneCharge(S, T, k, cell, e)
    BY <2>1, ChargesMore
  <2> QED
    BY <2>2 DEF OneCharge
<1>7. Charges(T, k, c) = Charges(T, k, cell)
  BY <1>3 DEF Charges
<1> HIDE DEF T
<1>8. c.reserved = Cardinality(Charges(T, k, c)) /\ c.bytes + c.reserved <= BytesPerServiceWindow
  <2>1. cell.bytes \in Nat /\ cell.reserved \in Nat /\ BytesPerServiceWindow \in Nat
    BY <1>1, CellFields, ExNats
  <2> QED
    BY <1>1, <1>3, <1>6, <1>7, <2>1 DEF LedgerOK, Fits
<1>9. ASSUME NEW u \in DOMAIN c.traces, u # t PROVE TraceLedgerOK(T, k, c, u)
  <2>1. TraceCharges(T, k, c, u) = TraceCharges(S, k, cell, u)
    BY <1>3, <1>6, <1>7, <1>9 DEF TraceCharges
  <2>2. TraceLedgerOK(S, k, cell, u) /\ c.traces[u] = cell.traces[u]
    BY <1>1, <1>3, <1>9 DEF LedgerOK
  <2> QED
    BY <2>1, <2>2 DEF TraceLedgerOK
<1>10. TraceLedgerOK(T, k, c, t)
  <2> DEFINE A == TraceCharges(S, k, cell, t)
             old == cell.traces[t]
  <2>1. TraceCharges(T, k, c, t) = A \cup {e}
    BY <1>3, <1>6, <1>7 DEF TraceCharges, RowCharged
  <2>2. IsFiniteSet(A) /\ e \notin A
    BY <1>6, FS_Subset DEF TraceCharges
  <2>3. TraceLedgerOK(S, k, cell, t)
    BY <1>1 DEF LedgerOK
  <2>4. e.span \in BOOLEAN
    BY DEF Holds, EntryStates
  <2>5. old.bytes \in Nat /\ old.reserved \in Nat /\ old.retained \in Nat /\ MaxBytesPerTrace \in Nat
    BY <1>1, ExNats DEF TraceStates
  <2>6. /\ old.reserved = Cardinality(A) /\ Cardinality(Spans(A)) <= old.retained
        /\ old.bytes + old.reserved + 1 <= MaxBytesPerTrace
    BY <1>1, <2>3 DEF TraceLedgerOK, Fits
  <2> HIDE DEF A
  <2>7. Cardinality(A \cup {e}) = Cardinality(A) + 1
    BY <2>2, OneMore
  <2>8. /\ Cardinality(Spans(A)) \in Nat
        /\ Cardinality(Spans(A \cup {e})) = Cardinality(Spans(A)) + (IF e.span THEN 1 ELSE 0)
    BY <2>2, <2>4, SpansMore
  <2>9. /\ st.reserved = old.reserved + 1 /\ st.bytes = old.bytes
        /\ st.retained = old.retained + (IF e.span THEN 1 ELSE 0)
    BY DEF RowCharged
  <2> HIDE DEF old
  <2>10. st.reserved = Cardinality(A \cup {e}) /\ st.bytes + st.reserved <= MaxBytesPerTrace
    BY <2>5, <2>6, <2>7, <2>9
  <2>11. Cardinality(Spans(A \cup {e})) <= st.retained
    BY <2>4, <2>5, <2>6, <2>8, <2>9
  <2> QED
    BY <1>3, <2>1, <2>10, <2>11 DEF TraceLedgerOK
<1>11. LedgerOK(T, k, c)
  BY <1>8, <1>9, <1>10 DEF LedgerOK
<1>12. \A u \in DOMAIN c.traces : c.traces[u].born < n
  BY <1>1, <1>3 DEF RowCharged
<1>13. CellOK(T, k, c, n)
  BY <1>1, <1>3, <1>5, <1>11, <1>12 DEF CellOK
<1> QED
  BY <1>13 DEF T, c, m

\* A client log: only the cell is charged.
LEMMA LogCharged ==
    ASSUME NEW S, IsFiniteSet(S), NEW k, NEW cell, NEW n \in Nat, CellOK(S, k, cell, n), NEW gw,
           NEW slot \in {0, 1}, NEW e, e \notin S, Holds(e, k, cell), e.trace = NoTrace, Fits(cell, gw, NoTrace)
    PROVE  CellOK(S \cup {e}, k, [[cell EXCEPT !.logs[slot] = @ + 1] EXCEPT !.reserved = @ + 1], n)
<1> DEFINE m == [cell EXCEPT !.logs[slot] = @ + 1]
           c == [m EXCEPT !.reserved = @ + 1]
           T == S \cup {e}
           l == [cell.logs EXCEPT ![slot] = @ + 1]
<1>1. /\ cell \in CellStates /\ RanksOK(cell) /\ LedgerOK(S, k, cell) /\ cell.id < n
      /\ \A u \in DOMAIN cell.traces : u \in ExTraces /\ cell.traces[u].born < n
  BY CellFields DEF CellOK
<1>2. l \in [{0, 1} -> Nat]
  BY <1>1, CellFields
<1>3. m = [cell EXCEPT !.logs = l]
  OBVIOUS
<1> HIDE DEF l, m
<1>4. /\ m \in CellStates /\ m.id = cell.id /\ m.perName = cell.perName /\ m.traces = cell.traces
      /\ m.bytes = cell.bytes /\ m.reserved = cell.reserved
  BY <1>1, <1>2, <1>3 DEF CellStates
<1>5. /\ c \in CellStates /\ c.id = cell.id /\ c.perName = cell.perName /\ c.bytes = cell.bytes
      /\ c.reserved = cell.reserved + 1 /\ c.traces = cell.traces
  BY <1>4, MoreReserved
<1> HIDE DEF c
<1>6. RanksOK(c)
  <2>1. LiveTraces(c) = LiveTraces(cell)
    BY <1>5 DEF LiveTraces
  <2> QED
    BY <1>1, <1>5, <2>1, SameRanks
<1>7. /\ Charges(T, k, cell) = Charges(S, k, cell) \cup {e}
      /\ IsFiniteSet(Charges(S, k, cell)) /\ e \notin Charges(S, k, cell)
      /\ Cardinality(Charges(T, k, cell)) = Cardinality(Charges(S, k, cell)) + 1
  <2>1. T = S \cup {e}
    OBVIOUS
  <2> HIDE DEF T
  <2>2. OneCharge(S, T, k, cell, e)
    BY <2>1, ChargesMore
  <2> QED
    BY <2>2 DEF OneCharge
<1>8. Charges(T, k, c) = Charges(T, k, cell)
  BY <1>5 DEF Charges
<1> HIDE DEF T
<1>9. c.reserved = Cardinality(Charges(T, k, c)) /\ c.bytes + c.reserved <= BytesPerServiceWindow
  <2>1. cell.bytes \in Nat /\ cell.reserved \in Nat /\ BytesPerServiceWindow \in Nat
    BY <1>1, CellFields, ExNats
  <2> QED
    BY <1>1, <1>5, <1>7, <1>8, <2>1 DEF LedgerOK, Fits
<1>10. ASSUME NEW u \in DOMAIN c.traces PROVE TraceLedgerOK(T, k, c, u)
  <2>1. u # NoTrace
    BY <1>1, <1>5, ExAssumption
  <2>2. TraceCharges(T, k, c, u) = TraceCharges(S, k, cell, u)
    BY <1>5, <1>7, <1>8, <2>1 DEF TraceCharges
  <2>3. TraceLedgerOK(S, k, cell, u) /\ c.traces[u] = cell.traces[u]
    BY <1>1, <1>5 DEF LedgerOK
  <2> QED
    BY <2>2, <2>3 DEF TraceLedgerOK
<1>11. LedgerOK(T, k, c)
  BY <1>9, <1>10 DEF LedgerOK
<1>12. CellOK(T, k, c, n)
  BY <1>1, <1>5, <1>6, <1>11 DEF CellOK
<1> QED
  BY <1>12 DEF T, c, m

\* A row is charged to the instance-wide cell of its window.
LEMMA GlobalCharged ==
    ASSUME NEW S, IsFiniteSet(S), NEW w, NEW gw, NEW n \in Nat, GlobalOK(S, w, gw, n), NEW cell, NEW t,
           NEW e, e \notin S, e.win = w, e.gw = gw.id, Fits(cell, gw, t)
    PROVE  GlobalOK(S \cup {e}, w, [gw EXCEPT !.reserved = @ + 1], n)
<1> DEFINE g == [gw EXCEPT !.reserved = @ + 1]
           A == GlobalCharges(S, w, gw)
<1>1. /\ g \in GlobalStates /\ g.id = gw.id /\ g.bytes = gw.bytes /\ g.traces = gw.traces
      /\ g.reserved = gw.reserved + 1 /\ gw.bytes \in Nat /\ gw.reserved \in Nat
  BY DEF GlobalOK, GlobalStates
<1>2. IsFiniteSet(A) /\ e \notin A
  BY FS_Subset DEF GlobalCharges
<1>3. GlobalCharges(S \cup {e}, w, g) = A \cup {e}
  BY <1>1 DEF GlobalCharges
<1> HIDE DEF A, g
<1>4. Cardinality(A \cup {e}) = Cardinality(A) + 1
  BY <1>2, OneMore
<1>5. gw.reserved = Cardinality(A) /\ gw.id < n /\ gw.traces <= TracesGlobalWindow
  BY DEF GlobalOK, A
<1>6. gw.bytes + gw.reserved + 1 <= BytesGlobalWindow /\ BytesGlobalWindow \in Nat
  BY ExNats DEF Fits
<1>7. g.bytes + g.reserved <= BytesGlobalWindow
  BY <1>1, <1>6
<1>8. GlobalOK(S \cup {e}, w, g, n)
  BY <1>1, <1>3, <1>4, <1>5, <1>7 DEF GlobalOK
<1> QED
  BY <1>8 DEF g

-------------------------------------------------------------------------------
\* The ledger of one trace against the entries B that hold it.
TraceBooks(st, B) ==
    /\ st.reserved = Cardinality(B) /\ Cardinality(Spans(B)) <= st.retained
    /\ st.bytes + st.reserved <= MaxBytesPerTrace

\* Settling some of the entries that hold a trace.
LEMMA SettledTraceIs ==
    ASSUME NEW st \in TraceStates, NEW B, IsFiniteSet(B), NEW A \in SUBSET B, TraceBooks(st, B),
           NEW committed \in BOOLEAN, NEW n, n = SettledTrace(st, A, committed)
    PROVE  /\ n \in TraceStates /\ TraceBooks(n, B \ A)
           /\ n.born = st.born /\ n.class = st.class /\ n.stratum = st.stratum /\ n.evicted = st.evicted
<1> DEFINE a == Cardinality(A)
           s == Cardinality(Spans(A))
           by == IF committed THEN st.bytes + a ELSE st.bytes
           rt == IF committed THEN st.retained ELSE st.retained - s
           rv == st.reserved - a
<1>1. /\ Cardinality(B) \in Nat /\ a \in Nat /\ Cardinality(B \ A) = Cardinality(B) - a
      /\ Cardinality(B \ A) \in Nat
  BY ManyLess
<1>2. /\ Cardinality(Spans(B)) \in Nat /\ s \in Nat /\ Cardinality(Spans(B \ A)) \in Nat
      /\ Cardinality(Spans(B \ A)) = Cardinality(Spans(B)) - s
  <2>1. IsFiniteSet(Spans(B)) /\ Spans(A) \in SUBSET Spans(B)
    BY FS_Subset DEF Spans
  <2>2. Spans(B \ A) = Spans(B) \ Spans(A)
    BY DEF Spans
  <2> QED
    BY <2>1, <2>2, ManyLess
<1>3. /\ st.reserved \in Nat /\ st.bytes \in Nat /\ st.retained \in Nat /\ MaxBytesPerTrace \in Nat
      /\ st.reserved = Cardinality(B) /\ Cardinality(Spans(B)) <= st.retained
      /\ st.bytes + st.reserved <= MaxBytesPerTrace
  BY ExNats DEF TraceStates, TraceBooks
<1>4. n = [st EXCEPT !.reserved = rv, !.bytes = by, !.retained = rt]
  BY DEF SettledTrace
<1> HIDE DEF a, s
<1>5. rv \in Nat /\ by \in Nat /\ rt \in Nat /\ by + rv <= MaxBytesPerTrace
  BY <1>1, <1>2, <1>3
<1>6. rv = Cardinality(B \ A) /\ Cardinality(Spans(B \ A)) <= rt
  BY <1>1, <1>2, <1>3
<1> HIDE DEF by, rt, rv
<1>7. n = [born |-> st.born, class |-> st.class, stratum |-> st.stratum, observed |-> st.observed,
           retained |-> rt, bytes |-> by, reserved |-> rv, synth |-> st.synth,
           truncated |-> st.truncated, evicted |-> st.evicted]
  BY <1>4 DEF TraceStates
<1>8. /\ n \in TraceStates /\ n.reserved = rv /\ n.bytes = by /\ n.retained = rt
      /\ n.born = st.born /\ n.class = st.class /\ n.stratum = st.stratum /\ n.evicted = st.evicted
  BY <1>5, <1>7 DEF TraceStates
<1> QED
  BY <1>5, <1>6, <1>8 DEF TraceBooks

\* Settling a reservation in one cell.
LEMMA SettledCellOK ==
    ASSUME NEW S, IsFiniteSet(S), NEW R \in SUBSET S, NEW k, NEW cell, NEW n \in Nat, CellOK(S, k, cell, n),
           NEW committed \in BOOLEAN
    PROVE  CellOK(S \ R, k, SettledCell(R, k, cell, committed), n)
<1> DEFINE c == SettledCell(R, k, cell, committed)
           T == S \ R
           a == Cardinality(Charges(R, k, cell))
           by == IF committed THEN cell.bytes + a ELSE cell.bytes
           rv == cell.reserved - a
           f == [t \in DOMAIN cell.traces |-> SettledTrace(cell.traces[t], TraceCharges(R, k, cell, t), committed)]
<1>1. /\ cell \in CellStates /\ RanksOK(cell) /\ LedgerOK(S, k, cell) /\ cell.id < n
      /\ DOMAIN cell.traces \subseteq ExTraces
      /\ \A u \in DOMAIN cell.traces : cell.traces[u] \in TraceStates /\ cell.traces[u].born < n
  BY CellFields DEF CellOK
<1>2. /\ Charges(R, k, cell) \in SUBSET Charges(S, k, cell) /\ IsFiniteSet(Charges(S, k, cell))
      /\ Charges(T, k, cell) = Charges(S, k, cell) \ Charges(R, k, cell)
  BY FS_Subset DEF Charges
<1>3. /\ Cardinality(Charges(S, k, cell)) \in Nat /\ a \in Nat
      /\ Cardinality(Charges(T, k, cell)) = Cardinality(Charges(S, k, cell)) - a
      /\ Cardinality(Charges(T, k, cell)) \in Nat
  BY <1>2, ManyLess
<1>4. c = [cell EXCEPT !.reserved = rv, !.bytes = by, !.traces = f]
  BY DEF SettledCell
<1>5. /\ cell.bytes \in Nat /\ cell.reserved \in Nat /\ BytesPerServiceWindow \in Nat
      /\ cell.reserved = Cardinality(Charges(S, k, cell))
      /\ cell.bytes + cell.reserved <= BytesPerServiceWindow
  BY <1>1, CellFields, ExNats DEF LedgerOK
<1>6. rv \in Nat /\ by \in Nat /\ by + rv <= BytesPerServiceWindow /\ rv = Cardinality(Charges(T, k, cell))
  <2> HIDE DEF a, T
  <2> QED
    BY <1>3, <1>5
<1>7. ASSUME NEW u \in DOMAIN cell.traces
      PROVE  /\ f[u] \in TraceStates /\ TraceBooks(f[u], TraceCharges(T, k, cell, u))
             /\ f[u].born = cell.traces[u].born /\ f[u].class = cell.traces[u].class
             /\ f[u].stratum = cell.traces[u].stratum /\ f[u].evicted = cell.traces[u].evicted
  <2> DEFINE B == TraceCharges(S, k, cell, u)
             A == TraceCharges(R, k, cell, u)
             st == cell.traces[u]
             m == f[u]
  <2>1. IsFiniteSet(B) /\ A \in SUBSET B /\ TraceCharges(T, k, cell, u) = B \ A
    BY <1>2, FS_Subset DEF TraceCharges
  <2>2. TraceBooks(st, B) /\ st \in TraceStates
    BY <1>1 DEF LedgerOK, TraceLedgerOK, TraceBooks
  <2>3. m = SettledTrace(st, A, committed)
    OBVIOUS
  <2> HIDE DEF A, B, f, st, m
  <2>4. /\ m \in TraceStates /\ TraceBooks(m, B \ A)
        /\ m.born = st.born /\ m.class = st.class /\ m.stratum = st.stratum /\ m.evicted = st.evicted
    BY <2>1, <2>2, <2>3, SettledTraceIs
  <2> QED
    BY <2>1, <2>4 DEF st, m
<1>8. DOMAIN f = DOMAIN cell.traces /\ f = [u \in DOMAIN f |-> f[u]]
  OBVIOUS
<1> HIDE DEF f
<1>9. f \in TraceMaps
  BY <1>1, <1>7, <1>8, TraceMapIs
<1> HIDE DEF by, rv, c
<1>10. /\ c \in CellStates /\ c.id = cell.id /\ c.perName = cell.perName /\ c.bytes = by
       /\ c.reserved = rv /\ c.traces = f
  <2>1. c = [id |-> cell.id, traces |-> f, perName |-> cell.perName, bytes |-> by, reserved |-> rv,
             logs |-> cell.logs]
    BY <1>1, <1>4 DEF CellStates
  <2> QED
    BY <1>1, <1>6, <1>9, <2>1 DEF CellStates
<1>11. LiveTraces(c) = LiveTraces(cell)
  BY <1>7, <1>8, <1>10 DEF LiveTraces
<1>12. RanksOK(c)
  <2>1. \A u \in LiveTraces(cell) : /\ c.traces[u].class = cell.traces[u].class
                                    /\ c.traces[u].stratum = cell.traces[u].stratum
    BY <1>7, <1>10 DEF LiveTraces
  <2> QED
    BY <1>1, <1>10, <1>11, <2>1, SameRanks
<1>13. Charges(T, k, c) = Charges(T, k, cell)
  BY <1>10 DEF Charges
<1> HIDE DEF T
<1>14. ASSUME NEW u \in DOMAIN c.traces
       PROVE  TraceLedgerOK(T, k, c, u) /\ c.traces[u].born < n
  <2>1. u \in DOMAIN cell.traces /\ c.traces[u] = f[u]
    BY <1>8, <1>10
  <2>2. f[u].born = cell.traces[u].born /\ TraceBooks(f[u], TraceCharges(T, k, cell, u))
    BY <1>7, <2>1
  <2>3. TraceCharges(T, k, c, u) = TraceCharges(T, k, cell, u)
    BY <1>13, <2>1, <2>2 DEF TraceCharges
  <2> QED
    BY <1>1, <2>1, <2>2, <2>3 DEF TraceLedgerOK, TraceBooks
<1>15. LedgerOK(T, k, c)
  BY <1>6, <1>10, <1>13, <1>14 DEF LedgerOK
<1>16. CellOK(T, k, c, n)
  BY <1>1, <1>10, <1>12, <1>14, <1>15 DEF CellOK
<1> QED
  BY <1>16 DEF T, c

\* Settling a reservation in one instance-wide cell.
LEMMA SettledGlobalOK ==
    ASSUME NEW S, IsFiniteSet(S), NEW R \in SUBSET S, NEW w, NEW gw, NEW n \in Nat, GlobalOK(S, w, gw, n),
           NEW committed \in BOOLEAN
    PROVE  GlobalOK(S \ R, w, SettledGlobal(R, w, gw, committed), n)
<1> DEFINE g == SettledGlobal(R, w, gw, committed)
           T == S \ R
           a == Cardinality(GlobalCharges(R, w, gw))
           by == IF committed THEN gw.bytes + a ELSE gw.bytes
           rv == gw.reserved - a
<1>1. /\ GlobalCharges(R, w, gw) \in SUBSET GlobalCharges(S, w, gw) /\ IsFiniteSet(GlobalCharges(S, w, gw))
      /\ GlobalCharges(T, w, gw) = GlobalCharges(S, w, gw) \ GlobalCharges(R, w, gw)
  BY FS_Subset DEF GlobalCharges
<1>2. /\ Cardinality(GlobalCharges(S, w, gw)) \in Nat /\ a \in Nat
      /\ Cardinality(GlobalCharges(T, w, gw)) = Cardinality(GlobalCharges(S, w, gw)) - a
      /\ Cardinality(GlobalCharges(T, w, gw)) \in Nat
  BY <1>1, ManyLess
<1>3. g = [gw EXCEPT !.reserved = rv, !.bytes = by]
  BY DEF SettledGlobal
<1>4. /\ gw \in GlobalStates /\ gw.bytes \in Nat /\ gw.reserved \in Nat /\ BytesGlobalWindow \in Nat
      /\ gw.reserved = Cardinality(GlobalCharges(S, w, gw)) /\ gw.id < n
      /\ gw.bytes + gw.reserved <= BytesGlobalWindow /\ gw.traces <= TracesGlobalWindow
  BY ExNats DEF GlobalOK, GlobalStates
<1>5. rv \in Nat /\ by \in Nat /\ by + rv <= BytesGlobalWindow /\ rv = Cardinality(GlobalCharges(T, w, gw))
  <2> HIDE DEF a, T
  <2> QED
    BY <1>2, <1>4
<1> HIDE DEF by, rv, g
<1>6. /\ g \in GlobalStates /\ g.id = gw.id /\ g.traces = gw.traces /\ g.bytes = by /\ g.reserved = rv
  BY <1>3, <1>4, <1>5 DEF GlobalStates
<1>7. GlobalCharges(T, w, g) = GlobalCharges(T, w, gw)
  BY <1>6 DEF GlobalCharges
<1> HIDE DEF T
<1>8. GlobalOK(T, w, g, n)
  BY <1>4, <1>5, <1>6, <1>7 DEF GlobalOK
<1> QED
  BY <1>8 DEF T, g

-------------------------------------------------------------------------------
\* What an offer that reserves nothing leaves.
LEMMA QuietOffer ==
    ASSUME ExInv, exRes' = exRes, exOffers' = exOffers + 1, NEW svc \in ExServices, NEW w \in ExWindows,
           NEW cell, exCells' = WithCell(svc, w, cell), CellOK(Outstanding, <<svc, w>>, cell, exOffers + 1),
           \/ exGlobal' = exGlobal
           \/ \E gw : exGlobal' = WithGlobal(w, gw) /\ GlobalOK(Outstanding, w, gw, exOffers + 1)
    PROVE  ExInv'
<1>1. EntriesOK' /\ Outstanding' = Outstanding
  BY EntriesWait
<1>2. Outstanding \subseteq Outstanding' /\ \A e \in Outstanding' : e \in Outstanding
  BY <1>1
<1>3. CellOK(Outstanding', <<svc, w>>, cell, exOffers')
  BY <1>1
<1>4. \/ exGlobal' = exGlobal /\ Outstanding' = Outstanding
      \/ \E gw : exGlobal' = WithGlobal(w, gw) /\ GlobalOK(Outstanding', w, gw, exOffers')
  BY <1>1
<1> QED
  BY <1>1, <1>2, <1>3, <1>4, OfferStep

\* A shed span.
LEMMA AdmitShedKeeps ==
    ASSUME ExInv, NEW svc \in ExServices, NEW w \in ExWindows, NEW t \in ExTraces, NEW op \in ExOps,
           NEW c \in Classes, AdmitShed(svc, w, t, op, c), Count
    PROVE  ExInv'
<1> DEFINE cell == Cell(svc, w)
           n == IF t \in LiveTraces(cell) THEN Truncated(cell, t) ELSE cell
<1>1. exOffers + 1 \in Nat /\ CellOK(Outstanding, <<svc, w>>, cell, exOffers + 1)
  BY CellIsOK DEF ExInv
<1>2. exRes' = exRes /\ exOffers' = exOffers + 1 /\ exGlobal' = exGlobal /\ exCells' = WithCell(svc, w, n)
  BY DEF AdmitShed, Count
<1> HIDE DEF cell
<1>3. CellOK(Outstanding, <<svc, w>>, n, exOffers + 1)
  BY <1>1, TruncatedOK
<1> HIDE DEF n
<1> QED
  BY <1>2, <1>3, QuietOffer

\* A span of a trace the window knows.
LEMMA AdmitKnownKeeps ==
    ASSUME ExInv, NEW svc \in ExServices, NEW w \in ExWindows, NEW t \in ExTraces, NEW op \in ExOps,
           NEW c \in Classes, AdmitKnown(svc, w, t, op, c), Count
    PROVE  ExInv'
<1> DEFINE cell == Cell(svc, w)
           st == cell.traces[t]
           seen == [st EXCEPT !.observed = @ + 1, !.truncated = @ \/ st.observed >= MaxSpansPerTrace]
           tr == st.truncated \/ st.observed >= MaxSpansPerTrace
           up == [seen EXCEPT !.class = c]
           n == IF st.evicted THEN cell
                ELSE IF c >= st.class THEN WithTrace(cell, t, seen)
                ELSE [WithTrace(cell, t, up) EXCEPT !.perName = Reranked(@, st.class, c)]
           S == Outstanding
           k == <<svc, w>>
<1>1. exOffers + 1 \in Nat /\ CellOK(S, k, cell, exOffers + 1)
  BY CellIsOK DEF ExInv
<1>2. /\ exRes' = exRes /\ exOffers' = exOffers + 1 /\ exGlobal' = exGlobal /\ exCells' = WithCell(svc, w, n)
      /\ t \in DOMAIN cell.traces
  BY DEF AdmitKnown, Count
<1> HIDE DEF cell, S, k
<1>3. cell \in CellStates /\ st \in TraceStates /\ RanksOK(cell) /\ LedgerOK(S, k, cell)
  BY <1>1, <1>2, CellFields DEF CellOK
<1>4. /\ seen \in TraceStates /\ SameTrace(seen, st)
  <2>1. st.truncated \in BOOLEAN /\ st.observed + 1 \in Nat
    BY <1>3 DEF TraceStates
  <2>2. tr \in BOOLEAN
    BY <2>1
  <2>3. seen = [st EXCEPT !.observed = st.observed + 1, !.truncated = tr]
    OBVIOUS
  <2> HIDE DEF tr, seen, st
  <2>4. seen = [born |-> st.born, class |-> st.class, stratum |-> st.stratum, observed |-> st.observed + 1,
                retained |-> st.retained, bytes |-> st.bytes, reserved |-> st.reserved, synth |-> st.synth,
                truncated |-> tr, evicted |-> st.evicted]
    BY <1>3, <2>3 DEF TraceStates
  <2> QED
    BY <1>3, <2>1, <2>2, <2>4 DEF TraceStates, SameTrace, SameMoney
<1>5. CASE n = cell
  BY <1>1, <1>2, <1>5, QuietOffer DEF S, k
<1>6. CASE n = WithTrace(cell, t, seen)
  <2>1. CellOK(S, k, n, exOffers + 1)
    <3> HIDE DEF n, seen
    <3> QED
      BY <1>1, <1>2, <1>4, <1>6, TraceTouched
  <2> HIDE DEF n
  <2> QED
    BY <1>2, <2>1, QuietOffer DEF S, k
<1>7. CASE ~st.evicted /\ ~(c >= st.class)
  <2>1. n = [WithTrace(cell, t, up) EXCEPT !.perName = Reranked(@, st.class, c)]
    BY <1>7
  <2>2. t \in LiveTraces(cell)
    BY <1>2, <1>7 DEF LiveTraces
  <2>3. /\ up \in TraceStates /\ up.class = c /\ ~up.evicted /\ up.stratum = st.stratum /\ SameMoney(up, st)
        /\ c # st.class /\ up.born = st.born
    <3>1. c \in Int
      BY DEF Classes, Error, Slow, Healthy
    <3>2. c # st.class
      BY <1>7, <3>1
    <3> HIDE DEF seen, st
    <3>3. up \in TraceStates /\ up.class = c /\ up.evicted = seen.evicted /\ up.stratum = seen.stratum
          /\ SameMoney(up, seen) /\ up.born = seen.born
      BY <1>4 DEF TraceStates, SameMoney
    <3> HIDE DEF up
    <3> QED
      BY <1>4, <1>7, <3>2, <3>3 DEF SameTrace, SameMoney
  <2> HIDE DEF n, up
  <2>4. /\ n \in CellStates /\ RanksOK(n) /\ n.id = cell.id /\ n.bytes = cell.bytes
        /\ n.reserved = cell.reserved /\ DOMAIN n.traces = DOMAIN cell.traces
        /\ n.traces[t] = up
        /\ \A u \in DOMAIN cell.traces : u # t => n.traces[u] = cell.traces[u]
    <3>1. Changed(cell, n, t, up)
      BY <1>3, <2>1, <2>2, <2>3, UpgradeRanks
    <3> QED
      BY <1>2, <3>1 DEF Changed
  <2>5. \A u \in DOMAIN n.traces : SameMoney(n.traces[u], cell.traces[u])
    BY <2>3, <2>4 DEF SameMoney
  <2>6. LedgerOK(S, k, n)
    BY <1>3, <2>4, <2>5, SameLedger
  <2>7. n.id < exOffers + 1 /\ \A u \in DOMAIN n.traces : n.traces[u].born < exOffers + 1
    BY <1>1, <2>4, <2>5 DEF CellOK, SameMoney
  <2>8. CellOK(S, k, n, exOffers + 1)
    BY <2>4, <2>6, <2>7 DEF CellOK
  <2> QED
    BY <1>2, <2>8, QuietOffer DEF S, k
<1> QED
  BY <1>5, <1>6, <1>7

\* A new trace that is refused.
LEMMA AdmitRefusedKeeps ==
    ASSUME ExInv, NEW svc \in ExServices, NEW w \in ExWindows, NEW t \in ExTraces, NEW op \in ExOps,
           NEW c \in Classes, AdmitRefused(svc, w, t, op, c), Count
    PROVE  ExInv'
<1> DEFINE cell == Cell(svc, w)
<1>1. CellOK(Outstanding, <<svc, w>>, cell, exOffers + 1) /\ GlobalOK(Outstanding, w, Global(w), exOffers + 1)
  BY CellIsOK, GlobalIsOK
<1>2. /\ exRes' = exRes /\ exOffers' = exOffers + 1 /\ exCells' = WithCell(svc, w, cell)
      /\ exGlobal' = exGlobal \/ exGlobal' = WithGlobal(w, Global(w))
  BY DEF AdmitRefused, Count
<1> HIDE DEF cell
<1> QED
  BY <1>1, <1>2, QuietOffer

\* A trace is counted in, and what was displaced is given back.
LEMMA GiveBackOK ==
    ASSUME NEW S, NEW w, NEW gw, NEW n, GlobalOK(S, w, gw, n), gw.traces < TracesGlobalWindow, NEW x \in Nat
    PROVE  GlobalOK(S, w, GiveBack([gw EXCEPT !.traces = @ + 1], x), n)
<1> DEFINE h == [gw EXCEPT !.traces = @ + 1]
           y == IF h.traces > x THEN h.traces - x ELSE 0
           g == GiveBack(h, x)
<1>1. gw \in GlobalStates /\ gw.traces \in Nat /\ TracesGlobalWindow \in Nat
  BY ExNats DEF GlobalOK, GlobalStates
<1>2. h \in GlobalStates /\ h.traces = gw.traces + 1 /\ h.id = gw.id /\ h.bytes = gw.bytes /\ h.reserved = gw.reserved
  BY <1>1 DEF GlobalStates
<1> HIDE DEF h
<1>3. y \in Nat /\ y <= TracesGlobalWindow
  BY <1>1, <1>2
<1>4. g = [h EXCEPT !.traces = y]
  BY DEF GiveBack
<1> HIDE DEF y, g
<1>5. g \in GlobalStates /\ g.traces = y /\ g.id = gw.id /\ g.bytes = gw.bytes /\ g.reserved = gw.reserved
  BY <1>2, <1>3, <1>4 DEF GlobalStates
<1>6. GlobalCharges(S, w, g) = GlobalCharges(S, w, gw)
  BY <1>5 DEF GlobalCharges
<1>7. GlobalOK(S, w, g, n)
  BY <1>3, <1>5, <1>6 DEF GlobalOK
<1> QED
  BY <1>7 DEF g, h

\* A new trace starts with an empty ledger: no reservation holds it.
LEMMA TraceAdmitted ==
    ASSUME exOffers \in Nat, NEW S, \A e \in S : e.st \in Nat /\ e.st < exOffers, NEW k, NEW cell,
           CellOK(S, k, cell, exOffers + 1), NEW t \in ExTraces \ DOMAIN cell.traces,
           NEW op \in ExOps, NEW c \in Classes, SelectedCount(cell) < TracesPerServiceWindow,
           c # Healthy => Cardinality(Members(cell, <<op, c>>)) < StratumTopK
    PROVE  CellOK(S, k, [WithTrace(cell, t, NewTrace(op, c)) EXCEPT !.perName[c] = @ + 1], exOffers + 1)
<1> DEFINE n == [WithTrace(cell, t, NewTrace(op, c)) EXCEPT !.perName[c] = @ + 1]
           new == NewTrace(op, c)
<1>1. cell \in CellStates /\ RanksOK(cell) /\ LedgerOK(S, k, cell) /\ cell.id < exOffers + 1
  BY DEF CellOK
<1>2. /\ n \in CellStates /\ RanksOK(n) /\ n.id = cell.id /\ n.bytes = cell.bytes
      /\ n.reserved = cell.reserved /\ DOMAIN n.traces = DOMAIN cell.traces \cup {t}
      /\ n.traces[t] = new
      /\ \A u \in DOMAIN cell.traces : n.traces[u] = cell.traces[u]
  <2>1. Changed(cell, n, t, new)
    BY <1>1, AddTraceRanks
  <2> QED
    BY <2>1 DEF Changed
<1>3. new.born = exOffers /\ new.reserved = 0 /\ new.bytes = 0 /\ new.retained = 0
  BY DEF NewTrace
<1> HIDE DEF n, new
<1>4. Charges(S, k, n) = Charges(S, k, cell)
  BY <1>2 DEF Charges
<1>5. ASSUME NEW u \in DOMAIN cell.traces PROVE TraceLedgerOK(S, k, n, u)
  <2>1. TraceLedgerOK(S, k, cell, u) /\ n.traces[u] = cell.traces[u]
    BY <1>1, <1>2 DEF LedgerOK
  <2>2. TraceCharges(S, k, n, u) = TraceCharges(S, k, cell, u)
    BY <1>4, <2>1 DEF TraceCharges
  <2> QED
    BY <2>1, <2>2 DEF TraceLedgerOK
<1>6. TraceLedgerOK(S, k, n, t)
  <2>1. TraceCharges(S, k, n, t) = {}
    BY <1>2, <1>3 DEF TraceCharges, Charges
  <2>2. Spans({}) = {} /\ Cardinality({}) = 0
    BY FS_EmptySet DEF Spans
  <2>3. MaxBytesPerTrace \in Nat
    BY ExNats
  <2>4. n.traces[t].reserved = 0 /\ n.traces[t].bytes = 0 /\ n.traces[t].retained = 0
    BY <1>2, <1>3
  <2>5. /\ n.traces[t].reserved = Cardinality(TraceCharges(S, k, n, t))
        /\ Cardinality(Spans(TraceCharges(S, k, n, t))) = 0
    BY <2>1, <2>2, <2>4
  <2>6. /\ Cardinality(Spans(TraceCharges(S, k, n, t))) <= n.traces[t].retained
        /\ n.traces[t].bytes + n.traces[t].reserved <= MaxBytesPerTrace
    BY <2>3, <2>4, <2>5
  <2> QED
    BY <2>5, <2>6 DEF TraceLedgerOK
<1>7. LedgerOK(S, k, n)
  BY <1>1, <1>2, <1>4, <1>5, <1>6 DEF LedgerOK
<1>8. \A u \in DOMAIN n.traces : n.traces[u].born < exOffers + 1
  BY <1>2, <1>3 DEF CellOK
<1>9. CellOK(S, k, n, exOffers + 1)
  BY <1>1, <1>2, <1>7, <1>8 DEF CellOK
<1> QED
  BY <1>9 DEF n

\* A new trace that takes a slot, displacing others, or gives it back.
LEMMA AdmitNewKeeps ==
    ASSUME ExInv, NEW svc \in ExServices, NEW w \in ExWindows, NEW t \in ExTraces, NEW op \in ExOps,
           NEW c \in Classes, AdmitNew(svc, w, t, op, c), Count
    PROVE  ExInv'
<1> DEFINE cell == Cell(svc, w)
           gw == Global(w)
           worst == Worst(cell, op, c)
           one == Evict(cell, worst)
           victim == Victim(one, c, t)
           two == Evict(one, victim)
           refused == SelectedCount(one) >= TracesPerServiceWindow /\ victim = {}
           n == [WithTrace(two, t, NewTrace(op, c)) EXCEPT !.perName[c] = @ + 1]
           x == Cardinality(worst) + Cardinality(victim) + (IF refused THEN 1 ELSE 0)
           g == GiveBack([gw EXCEPT !.traces = @ + 1], x)
           S == Outstanding
           k == <<svc, w>>
<1>1. /\ t \notin DOMAIN cell.traces /\ Eligible(cell, t, op, c) /\ gw.traces < TracesGlobalWindow
      /\ exRes' = exRes /\ exOffers' = exOffers + 1
      /\ exGlobal' = WithGlobal(w, g)
      /\ exCells' = WithCell(svc, w, IF refused THEN one ELSE n)
  BY DEF AdmitNew, Count, Worst, Victim
<1>2. /\ exOffers \in Nat /\ exOffers + 1 \in Nat /\ CellOK(S, k, cell, exOffers + 1)
      /\ GlobalOK(S, w, gw, exOffers + 1)
  BY CellIsOK, GlobalIsOK DEF ExInv
<1>3. \A e \in S : e.st \in Nat /\ e.st < exOffers
  BY DEF ExInv, EntriesOK, EntryStates, Outstanding
<1> HIDE DEF cell, gw, S, k
<1>4. cell \in CellStates /\ RanksOK(cell)
  BY <1>2 DEF CellOK
<1>5. /\ Thinner(cell, one) /\ RanksOK(one) /\ Cardinality(worst) \in Nat
      /\ c # Healthy => Cardinality(Members(one, <<op, c>>)) < StratumTopK
  BY <1>1, <1>4, WorstLeaves
<1> HIDE DEF worst, one
<1>6. CellOK(S, k, one, exOffers + 1) /\ one \in CellStates
  BY <1>2, <1>5, ThinnerOK DEF Thinner
<1>7. /\ Thinner(one, two) /\ RanksOK(two) /\ Cardinality(victim) \in Nat
      /\ \A y : Cardinality(Members(two, y)) <= Cardinality(Members(one, y))
      /\ refused \/ SelectedCount(two) < TracesPerServiceWindow
  BY <1>5, <1>6, VictimLeaves
<1> HIDE DEF victim
<1>8. x \in Nat
  BY <1>5, <1>7
<1> HIDE DEF refused, two, x
<1>9. GlobalOK(S, w, g, exOffers + 1)
  BY <1>1, <1>2, <1>8, GiveBackOK
<1>10. ASSUME ~refused PROVE CellOK(S, k, n, exOffers + 1)
  <2>1. CellOK(S, k, two, exOffers + 1) /\ two \in CellStates
    BY <1>2, <1>6, <1>7, ThinnerOK DEF Thinner
  <2>2. t \in ExTraces \ DOMAIN two.traces
    BY <1>1, <1>5, <1>7 DEF Thinner
  <2>3. c # Healthy => Cardinality(Members(two, <<op, c>>)) < StratumTopK
    <3>1. Cardinality(Members(two, <<op, c>>)) \in Nat /\ Cardinality(Members(one, <<op, c>>)) \in Nat
      BY <1>6, <2>1, LiveFinite
    <3>2. Cardinality(Members(two, <<op, c>>)) <= Cardinality(Members(one, <<op, c>>)) /\ StratumTopK \in Nat
      BY <1>7, ExNats
    <3> QED
      BY <1>5, <3>1, <3>2
  <2>4. SelectedCount(two) < TracesPerServiceWindow
    BY <1>7, <1>10
  <2> QED
    BY <1>2, <1>3, <2>1, <2>2, <2>3, <2>4, TraceAdmitted
<1> HIDE DEF n, g
<1> DEFINE m == IF refused THEN one ELSE n
<1>11. CellOK(S, k, m, exOffers + 1) /\ exCells' = WithCell(svc, w, m)
  BY <1>1, <1>6, <1>10
<1> HIDE DEF m
<1> QED
  BY <1>1, <1>9, <1>11, QuietOffer DEF S, k

-------------------------------------------------------------------------------
\* A new entry joins one reservation.
LEMMA EntryJoins ==
    ASSUME ExInv, NEW r \in ExReservations, NEW e \in EntryStates, e.at = exOffers, e.sw < exOffers + 1,
           e.gw < exOffers + 1, e.st < exOffers + 1, exRes' = [exRes EXCEPT ![r] = @ \cup {e}],
           exOffers' = exOffers + 1
    PROVE  /\ e \notin Outstanding /\ IsFiniteSet(Outstanding)
           /\ Outstanding' = Outstanding \cup {e} /\ EntriesOK'
<1>1. exOffers \in Nat /\ exRes \in [ExReservations -> SUBSET EntryStates] /\ IsFiniteSet(Outstanding)
  BY DEF ExInv, EntriesOK
<1>2. \A d \in Outstanding : d \in EntryStates /\ d.at < exOffers /\ d.sw < exOffers /\ d.gw < exOffers /\ d.st < exOffers
  BY <1>1 DEF ExInv, EntriesOK, Outstanding
<1>3. e \notin Outstanding
  BY <1>1, <1>2
<1>4. /\ exRes' \in [ExReservations -> SUBSET EntryStates] /\ exRes'[r] = exRes[r] \cup {e}
      /\ \A s \in ExReservations : s # r => exRes'[s] = exRes[s]
  BY <1>1
<1>5. Outstanding' = UNION {exRes'[s] : s \in ExReservations}
  BY DEF Outstanding
<1>6. Outstanding' = Outstanding \cup {e}
  BY <1>4, <1>5 DEF Outstanding
<1>7. IsFiniteSet(Outstanding')
  BY <1>1, <1>3, <1>6, OneMore
<1>8. \A s, u \in ExReservations : s # u => exRes'[s] \cap exRes'[u] = {}
  <2>1. \A s, u \in ExReservations : s # u => exRes[s] \cap exRes[u] = {}
    BY DEF ExInv, EntriesOK
  <2>2. \A s \in ExReservations : e \notin exRes[s]
    BY <1>3 DEF Outstanding
  <2> QED
    BY <1>4, <2>1, <2>2
<1>9. \A d \in Outstanding' : d.at < exOffers' /\ d.sw < exOffers' /\ d.gw < exOffers' /\ d.st < exOffers'
  <2>1. ASSUME NEW d \in Outstanding
        PROVE  d.at < exOffers' /\ d.sw < exOffers' /\ d.gw < exOffers' /\ d.st < exOffers'
    BY <1>1, <1>2 DEF EntryStates
  <2> QED
    BY <1>1, <1>6, <2>1
<1> QED
  BY <1>1, <1>3, <1>4, <1>6, <1>7, <1>8, <1>9 DEF EntriesOK

\* The entry of a row.
LEMMA EntryIs ==
    ASSUME exOffers \in Nat, NEW svc \in ExServices, NEW w \in ExWindows, NEW cell \in CellStates,
           NEW gw \in GlobalStates, NEW t \in ExTraces \cup {NoTrace}, NEW span \in BOOLEAN,
           t # NoTrace => t \in DOMAIN cell.traces, NEW e, e = Entry(svc, w, cell, gw, t, span)
    PROVE  /\ e \in EntryStates /\ e.at = exOffers /\ e.svc = svc /\ e.win = w /\ e.sw = cell.id
           /\ e.gw = gw.id /\ e.trace = t /\ e.span = span
           /\ e.st = IF t = NoTrace THEN 0 ELSE cell.traces[t].born
<1>1. cell.id \in Nat /\ gw.id \in Nat
  BY DEF CellStates, GlobalStates
<1>2. t # NoTrace => cell.traces[t].born \in Nat
  BY CellFields DEF TraceStates
<1> DEFINE b == IF t = NoTrace THEN 0 ELSE cell.traces[t].born
<1>3. b \in Nat
  BY <1>2
<1>4. e = [at |-> exOffers, svc |-> svc, win |-> w, sw |-> cell.id, gw |-> gw.id, trace |-> t,
           st |-> b, span |-> span]
  BY DEF Entry
<1> HIDE DEF b
<1>5. /\ e \in EntryStates /\ e.at = exOffers /\ e.svc = svc /\ e.win = w /\ e.sw = cell.id
      /\ e.gw = gw.id /\ e.trace = t /\ e.span = span /\ e.st = b
  BY <1>1, <1>3, <1>4 DEF EntryStates
<1> QED
  BY <1>5 DEF b

\* A row that is charged leaves everything in order.
LEMMA ChargeStep ==
    ASSUME ExInv, NEW r \in ExReservations, NEW svc \in ExServices, NEW w \in ExWindows,
           NEW e \in EntryStates, e.at = exOffers, e.sw < exOffers + 1, e.st < exOffers + 1,
           e.svc = svc, e.win = w, e.gw = Global(w).id, NEW cell, NEW t, Fits(cell, Global(w), t),
           NEW n, CellOK(Outstanding \cup {e}, <<svc, w>>, n, exOffers + 1),
           exCells' = WithCell(svc, w, n), exGlobal' = WithGlobal(w, [Global(w) EXCEPT !.reserved = @ + 1]),
           exRes' = [exRes EXCEPT ![r] = @ \cup {e}], exOffers' = exOffers + 1
    PROVE  ExInv'
<1>1. exOffers + 1 \in Nat /\ GlobalOK(Outstanding, w, Global(w), exOffers + 1) /\ e.gw < exOffers + 1
  BY GlobalIsOK DEF ExInv, GlobalOK
<1>2. /\ e \notin Outstanding /\ IsFiniteSet(Outstanding)
      /\ Outstanding' = Outstanding \cup {e} /\ EntriesOK'
  BY <1>1, EntryJoins
<1> DEFINE g == [Global(w) EXCEPT !.reserved = @ + 1]
<1>3. GlobalOK(Outstanding \cup {e}, w, g, exOffers + 1)
  BY <1>1, <1>2, GlobalCharged
<1> HIDE DEF g
<1>4. exGlobal' = WithGlobal(w, g) /\ GlobalOK(Outstanding', w, g, exOffers')
  BY <1>2, <1>3 DEF g
<1>5. Outstanding \subseteq Outstanding' /\ \A d \in Outstanding' : d \in Outstanding \/ (d.svc = svc /\ d.win = w)
  BY <1>2
<1>6. CellOK(Outstanding', <<svc, w>>, n, exOffers')
  BY <1>2
<1> QED
  BY <1>2, <1>4, <1>5, <1>6, OfferStep

\* A row of a trace.
LEMMA RowReserved ==
    ASSUME ExInv, NEW r \in ExReservations, NEW svc \in ExServices, NEW w \in ExWindows,
           NEW t \in LiveTraces(Cell(svc, w)), Fits(Cell(svc, w), Global(w), t), NEW span \in BOOLEAN,
           NEW st, RowCharged(st, Cell(svc, w).traces[t], span),
           Reserve(r, svc, w, WithTrace(Cell(svc, w), t, st), t, span), exOffers' = exOffers + 1
    PROVE  ExInv'
<1> DEFINE cell == Cell(svc, w)
           m == WithTrace(cell, t, st)
           gw == Global(w)
           e == Entry(svc, w, m, gw, t, span)
           n == [m EXCEPT !.reserved = @ + 1]
           k == <<svc, w>>
<1>1. /\ exOffers \in Nat /\ exOffers + 1 \in Nat /\ CellOK(Outstanding, k, cell, exOffers + 1)
      /\ IsFiniteSet(Outstanding) /\ \A d \in Outstanding : d.at \in Nat /\ d.at < exOffers
  BY CellIsOK DEF ExInv, EntriesOK, EntryStates, Outstanding
<1>2. GlobalOK(Outstanding, w, gw, exOffers + 1) /\ gw \in GlobalStates
  BY GlobalIsOK DEF GlobalOK
<1>3. /\ exCells' = WithCell(svc, w, n) /\ exGlobal' = WithGlobal(w, [gw EXCEPT !.reserved = @ + 1])
      /\ exRes' = [exRes EXCEPT ![r] = @ \cup {e}]
  BY DEF Reserve
<1>4. /\ t \in LiveTraces(cell) /\ Fits(cell, gw, t) /\ RowCharged(st, cell.traces[t], span)
  OBVIOUS
<1> HIDE DEF cell, gw
<1>5. /\ cell \in CellStates /\ t \in DOMAIN cell.traces /\ t \in ExTraces /\ t # NoTrace /\ st \in TraceStates
      /\ cell.id < exOffers + 1 /\ cell.traces[t].born < exOffers + 1 /\ st.born = cell.traces[t].born
  BY <1>1, <1>4, CellFields, ExAssumption DEF CellOK, LiveTraces, RowCharged
<1>6. /\ m \in CellStates /\ m.id = cell.id /\ t \in DOMAIN m.traces /\ m.traces[t] = st
  BY <1>5, WithTraceIs
<1> HIDE DEF m
<1>7. /\ e \in EntryStates /\ e.at = exOffers /\ e.svc = svc /\ e.win = w /\ e.sw = m.id
      /\ e.gw = gw.id /\ e.trace = t /\ e.span = span
      /\ e.st = IF t = NoTrace THEN 0 ELSE m.traces[t].born
  BY <1>1, <1>2, <1>5, <1>6, EntryIs
<1> HIDE DEF e
<1>8. e.st = cell.traces[t].born /\ e.sw = cell.id /\ Holds(e, k, cell) /\ e \notin Outstanding
  BY <1>1, <1>5, <1>6, <1>7 DEF Holds
<1>9. CellOK(Outstanding \cup {e}, k, n, exOffers + 1)
  BY <1>1, <1>4, <1>5, <1>7, <1>8, TraceCharged DEF m
<1> HIDE DEF n
<1> QED
  BY <1>3, <1>4, <1>5, <1>7, <1>8, <1>9, ChargeStep DEF gw

\* ReserveSpan: a row, a truncation or nothing.
LEMMA ReserveSpanKeeps ==
    ASSUME ExInv, NEW r \in ExReservations, NEW svc \in ExServices, NEW w \in ExWindows, NEW t \in ExTraces,
           ReserveSpan(r, svc, w, t)
    PROVE  ExInv'
<1> DEFINE cell == Cell(svc, w)
           old == cell.traces[t]
           st == [old EXCEPT !.reserved = @ + 1, !.retained = @ + 1]
<1>1. /\ exOffers + 1 \in Nat /\ CellOK(Outstanding, <<svc, w>>, cell, exOffers + 1)
      /\ exOffers' = exOffers + 1
  BY CellIsOK DEF ExInv, ReserveSpan, Count
<1>2. CASE /\ t \in LiveTraces(cell) /\ Fits(cell, Global(w), t)
           /\ Reserve(r, svc, w, WithTrace(cell, t, st), t, TRUE)
  <2>1. old \in TraceStates
    BY <1>1, <1>2, CellFields DEF CellOK, LiveTraces
  <2>2. RowCharged(st, old, TRUE)
    <3> DEFINE a == old.reserved + 1
               b == old.retained + 1
    <3>1. st = [old EXCEPT !.reserved = a, !.retained = b]
      OBVIOUS
    <3>2. a \in Nat /\ b \in Nat /\ old.retained + 0 = old.retained
      BY <2>1 DEF TraceStates
    <3> HIDE DEF old, st, a, b
    <3>3. st = [born |-> old.born, class |-> old.class, stratum |-> old.stratum, observed |-> old.observed,
               retained |-> b, bytes |-> old.bytes, reserved |-> a, synth |-> old.synth,
               truncated |-> old.truncated, evicted |-> old.evicted]
      BY <2>1, <3>1 DEF TraceStates
    <3>4. /\ st \in TraceStates /\ st.reserved = a /\ st.retained = b /\ st.bytes = old.bytes
          /\ st.born = old.born /\ st.class = old.class /\ st.stratum = old.stratum /\ st.evicted = old.evicted
      BY <2>1, <3>2, <3>3 DEF TraceStates
    <3> QED
      BY <3>2, <3>4 DEF RowCharged, a, b
  <2> HIDE DEF st
  <2> QED
    BY <1>1, <1>2, <2>2, RowReserved
<1>3. CASE /\ t \in LiveTraces(cell) /\ exCells' = WithCell(svc, w, Truncated(cell, t))
           /\ UNCHANGED <<exGlobal, exRes>>
  <2>1. CellOK(Outstanding, <<svc, w>>, Truncated(cell, t), exOffers + 1)
    BY <1>1, <1>3, TruncatedOK
  <2> QED
    BY <1>1, <1>3, <2>1, QuietOffer
<1>4. CASE exCells' = WithCell(svc, w, cell) /\ UNCHANGED <<exGlobal, exRes>>
  BY <1>1, <1>4, QuietOffer
<1> QED
  BY <1>2, <1>3, <1>4 DEF ReserveSpan

\* ReserveSynthesizedLog: a row, a truncation or nothing.
LEMMA ReserveSynthesizedLogKeeps ==
    ASSUME ExInv, NEW r \in ExReservations, NEW svc \in ExServices, NEW w \in ExWindows, NEW t \in ExTraces,
           ReserveSynthesizedLog(r, svc, w, t)
    PROVE  ExInv'
<1> DEFINE cell == Cell(svc, w)
           old == cell.traces[t]
           st == [old EXCEPT !.reserved = @ + 1, !.synth = @ + 1]
<1>1. /\ exOffers + 1 \in Nat /\ CellOK(Outstanding, <<svc, w>>, cell, exOffers + 1)
      /\ exOffers' = exOffers + 1
  BY CellIsOK DEF ExInv, ReserveSynthesizedLog, Count
<1>2. CASE /\ t \in LiveTraces(cell) /\ Fits(cell, Global(w), t)
           /\ Reserve(r, svc, w, WithTrace(cell, t, st), t, FALSE)
  <2>1. old \in TraceStates
    BY <1>1, <1>2, CellFields DEF CellOK, LiveTraces
  <2>2. RowCharged(st, old, FALSE)
    <3> DEFINE a == old.reserved + 1
               b == old.synth + 1
    <3>1. st = [old EXCEPT !.reserved = a, !.synth = b]
      OBVIOUS
    <3>2. a \in Nat /\ b \in Nat /\ old.retained + 0 = old.retained
      BY <2>1 DEF TraceStates
    <3> HIDE DEF old, st, a, b
    <3>3. st = [born |-> old.born, class |-> old.class, stratum |-> old.stratum, observed |-> old.observed,
               retained |-> old.retained, bytes |-> old.bytes, reserved |-> a, synth |-> b,
               truncated |-> old.truncated, evicted |-> old.evicted]
      BY <2>1, <3>1 DEF TraceStates
    <3>4. /\ st \in TraceStates /\ st.reserved = a /\ st.retained = old.retained /\ st.bytes = old.bytes
          /\ st.born = old.born /\ st.class = old.class /\ st.stratum = old.stratum /\ st.evicted = old.evicted
      BY <2>1, <3>2, <3>3 DEF TraceStates
    <3> QED
      BY <3>2, <3>4 DEF RowCharged, a, b
  <2> HIDE DEF st
  <2> QED
    BY <1>1, <1>2, <2>2, RowReserved
<1>3. CASE /\ t \in LiveTraces(cell) /\ exCells' = WithCell(svc, w, Truncated(cell, t))
           /\ UNCHANGED <<exGlobal, exRes>>
  <2>1. CellOK(Outstanding, <<svc, w>>, Truncated(cell, t), exOffers + 1)
    BY <1>1, <1>3, TruncatedOK
  <2> QED
    BY <1>1, <1>3, <2>1, QuietOffer
<1>4. CASE exCells' = WithCell(svc, w, cell) /\ UNCHANGED <<exGlobal, exRes>>
  BY <1>1, <1>4, QuietOffer
<1> QED
  BY <1>2, <1>3, <1>4 DEF ReserveSynthesizedLog

\* ReserveLog: a row or nothing.
LEMMA ReserveLogKeeps ==
    ASSUME ExInv, NEW r \in ExReservations, NEW svc \in ExServices, NEW w \in ExWindows, NEW slot \in {0, 1},
           ReserveLog(r, svc, w, slot)
    PROVE  ExInv'
<1> DEFINE cell == Cell(svc, w)
           gw == Global(w)
           m == [cell EXCEPT !.logs[slot] = @ + 1]
           n == [m EXCEPT !.reserved = @ + 1]
           e == Entry(svc, w, m, gw, NoTrace, FALSE)
           k == <<svc, w>>
<1>1. /\ exOffers \in Nat /\ exOffers + 1 \in Nat /\ CellOK(Outstanding, k, cell, exOffers + 1)
      /\ exOffers' = exOffers + 1 /\ IsFiniteSet(Outstanding)
      /\ \A d \in Outstanding : d.at \in Nat /\ d.at < exOffers
  BY CellIsOK DEF ExInv, EntriesOK, EntryStates, Outstanding, ReserveLog, Count
<1>2. CASE /\ Fits(cell, gw, NoTrace) /\ exCells' = WithCell(svc, w, n)
           /\ exGlobal' = WithGlobal(w, [gw EXCEPT !.reserved = @ + 1])
           /\ exRes' = [exRes EXCEPT ![r] = @ \cup {e}]
  <2>1. GlobalOK(Outstanding, w, gw, exOffers + 1) /\ gw \in GlobalStates
    BY GlobalIsOK DEF GlobalOK
  <2> HIDE DEF cell, gw
  <2>2. cell \in CellStates /\ cell.id < exOffers + 1
    BY <1>1 DEF CellOK
  <2> DEFINE l == [cell.logs EXCEPT ![slot] = @ + 1]
  <2>3. l \in [{0, 1} -> Nat]
    BY <2>2, CellFields
  <2>4. m = [cell EXCEPT !.logs = l]
    OBVIOUS
  <2> HIDE DEF l, m
  <2>5. m \in CellStates /\ m.id = cell.id
    BY <2>2, <2>3, <2>4 DEF CellStates
  <2>6. /\ e \in EntryStates /\ e.at = exOffers /\ e.svc = svc /\ e.win = w /\ e.sw = m.id
        /\ e.gw = gw.id /\ e.trace = NoTrace /\ e.st = 0
    <3>1. NoTrace \in ExTraces \cup {NoTrace}
      OBVIOUS
    <3>2. m.id \in Nat /\ gw.id \in Nat
      BY <2>1, <2>5 DEF CellStates, GlobalStates
    <3>3. e = [at |-> exOffers, svc |-> svc, win |-> w, sw |-> m.id, gw |-> gw.id, trace |-> NoTrace,
               st |-> 0, span |-> FALSE]
      BY DEF Entry
    <3> HIDE DEF e
    <3> QED
      BY <1>1, <3>1, <3>2, <3>3 DEF EntryStates
  <2> HIDE DEF e
  <2>7. e.sw = cell.id /\ Holds(e, k, cell) /\ e \notin Outstanding /\ e.st < exOffers + 1
    BY <1>1, <2>5, <2>6 DEF Holds
  <2>8. CellOK(Outstanding \cup {e}, k, n, exOffers + 1)
    BY <1>1, <1>2, <2>6, <2>7, LogCharged DEF m
  <2> HIDE DEF n
  <2> QED
    BY <1>1, <1>2, <2>2, <2>6, <2>7, <2>8, ChargeStep DEF gw
<1>3. CASE exCells' = WithCell(svc, w, cell) /\ UNCHANGED <<exGlobal, exRes>>
  BY <1>1, <1>3, QuietOffer
<1> QED
  BY <1>2, <1>3 DEF ReserveLog, Reserve

\* A destination answered: the entries of one reservation leave the ledgers they are in.
LEMMA SettleKeeps ==
    ASSUME ExInv, NEW r \in ExReservations, NEW committed \in BOOLEAN, Settle(r, committed)
    PROVE  ExInv'
<1> DEFINE R == exRes[r]
           S == Outstanding
<1>1. /\ exOffers \in Nat /\ exRes \in [ExReservations -> SUBSET EntryStates] /\ IsFiniteSet(S)
      /\ \A s, u \in ExReservations : s # u => exRes[s] \cap exRes[u] = {}
      /\ \A d \in S : d.at < exOffers /\ d.sw < exOffers /\ d.gw < exOffers /\ d.st < exOffers
  BY DEF ExInv, EntriesOK
<1>2. /\ exCells' = [k \in DOMAIN exCells |-> SettledCell(R, k, exCells[k], committed)]
      /\ exGlobal' = [w \in DOMAIN exGlobal |-> SettledGlobal(R, w, exGlobal[w], committed)]
      /\ exRes' = [exRes EXCEPT ![r] = {}] /\ exOffers' = exOffers
  BY DEF Settle
<1>3. R \in SUBSET S
  BY DEF Outstanding
<1>4. /\ exRes' \in [ExReservations -> SUBSET EntryStates] /\ exRes'[r] = {}
      /\ \A s \in ExReservations : s # r => exRes'[s] = exRes[s]
  BY <1>1, <1>2
<1>5. Outstanding' = S \ R
  <2>1. Outstanding' = UNION {exRes'[s] : s \in ExReservations}
    BY DEF Outstanding
  <2> QED
    BY <1>1, <1>4, <2>1 DEF Outstanding
<1>6. EntriesOK'
  <2>1. IsFiniteSet(Outstanding')
    BY <1>1, <1>5, FS_Subset
  <2>2. \A s, u \in ExReservations : s # u => exRes'[s] \cap exRes'[u] = {}
    BY <1>1, <1>4
  <2> QED
    BY <1>1, <1>2, <1>4, <1>5, <2>1, <2>2 DEF EntriesOK
<1> HIDE DEF R, S
<1>7. ASSUME NEW k \in DOMAIN exCells' PROVE CellOK(Outstanding', k, exCells'[k], exOffers')
  <2>1. CellOK(S, k, exCells[k], exOffers) /\ exCells'[k] = SettledCell(R, k, exCells[k], committed)
    BY <1>2 DEF ExInv, S
  <2>2. CellOK(S \ R, k, SettledCell(R, k, exCells[k], committed), exOffers)
    BY <1>1, <1>3, <2>1, SettledCellOK
  <2> QED
    BY <1>2, <1>5, <2>1, <2>2
<1>8. ASSUME NEW w \in DOMAIN exGlobal' PROVE GlobalOK(Outstanding', w, exGlobal'[w], exOffers')
  <2>1. GlobalOK(S, w, exGlobal[w], exOffers) /\ exGlobal'[w] = SettledGlobal(R, w, exGlobal[w], committed)
    BY <1>2 DEF ExInv, S
  <2>2. GlobalOK(S \ R, w, SettledGlobal(R, w, exGlobal[w], committed), exOffers)
    BY <1>1, <1>3, <2>1, SettledGlobalOK
  <2> QED
    BY <1>2, <1>5, <2>1, <2>2
<1>9. DOMAIN exCells' = DOMAIN exCells /\ DOMAIN exGlobal' = DOMAIN exGlobal
  BY <1>2
<1> QED
  BY <1>1, <1>2, <1>6, <1>7, <1>8, <1>9 DEF ExInv

\* Entries that change hands stay the same entries.
LEMMA MergeKeeps ==
    ASSUME ExInv, NEW r \in ExReservations, NEW other \in ExReservations, MergeReservation(r, other)
    PROVE  ExInv'
<1>1. /\ exRes \in [ExReservations -> SUBSET EntryStates] /\ IsFiniteSet(Outstanding) /\ r # other
      /\ \A s, u \in ExReservations : s # u => exRes[s] \cap exRes[u] = {}
      /\ exRes' = [exRes EXCEPT ![r] = @ \cup exRes[other], ![other] = {}]
      /\ exCells' = exCells /\ exGlobal' = exGlobal /\ exOffers' = exOffers
  BY DEF ExInv, EntriesOK, MergeReservation
<1>2. /\ exRes' \in [ExReservations -> SUBSET EntryStates]
      /\ exRes'[r] = exRes[r] \cup exRes[other] /\ exRes'[other] = {}
      /\ \A s \in ExReservations : s # r /\ s # other => exRes'[s] = exRes[s]
  BY <1>1
<1>3. Outstanding' = Outstanding
  <2>1. Outstanding' = UNION {exRes'[s] : s \in ExReservations}
    BY DEF Outstanding
  <2> QED
    BY <1>2, <2>1 DEF Outstanding
<1>4. \A s, u \in ExReservations : s # u => exRes'[s] \cap exRes'[u] = {}
  BY <1>1, <1>2
<1> QED
  BY <1>1, <1>2, <1>3, <1>4 DEF ExInv, EntriesOK

\* Nothing is selected or reserved at the start.
LEMMA ExStart == ExInit => ExInv
<1> SUFFICES ASSUME ExInit PROVE ExInv
  OBVIOUS
<1>1. DOMAIN exCells = {} /\ DOMAIN exGlobal = {} /\ exOffers \in Nat
  BY DEF ExInit
<1>2. Outstanding = {}
  BY DEF ExInit, Outstanding
<1>3. EntriesOK
  BY <1>2, FS_EmptySet DEF ExInit, EntriesOK
<1> QED
  BY <1>1, <1>2, <1>3 DEF ExInv

\* One step per operation of the policy.
LEMMA ExStep == ExInv /\ [ExNext]_exVars => ExInv'
<1> SUFFICES ASSUME ExInv, [ExNext]_exVars PROVE ExInv'
  OBVIOUS
<1>1. CASE UNCHANGED exVars
  BY <1>1 DEF exVars, ExInv, EntriesOK, Outstanding
<1>2. ASSUME NEW svc \in ExServices, NEW w \in ExWindows, NEW t \in ExTraces, NEW op \in ExOps,
             NEW c \in Classes, AdmitSpan(svc, w, t, op, c)
      PROVE  ExInv'
  BY <1>2, AdmitShedKeeps, AdmitKnownKeeps, AdmitRefusedKeeps, AdmitNewKeeps DEF AdmitSpan
<1>3. ASSUME NEW r \in ExReservations, NEW svc \in ExServices, NEW w \in ExWindows, NEW t \in ExTraces,
             ReserveSpan(r, svc, w, t) \/ ReserveSynthesizedLog(r, svc, w, t)
      PROVE  ExInv'
  BY <1>3, ReserveSpanKeeps, ReserveSynthesizedLogKeeps
<1>4. ASSUME NEW r \in ExReservations, NEW svc \in ExServices, NEW w \in ExWindows, NEW slot \in {0, 1},
             ReserveLog(r, svc, w, slot)
      PROVE  ExInv'
  BY <1>4, ReserveLogKeeps
<1>5. ASSUME NEW r \in ExReservations, NEW other \in ExReservations, MergeReservation(r, other)
      PROVE  ExInv'
  BY <1>5, MergeKeeps
<1>6. ASSUME NEW r \in ExReservations, CommitReservation(r) \/ ReleaseReservation(r)
      PROVE  ExInv'
  BY <1>6, SettleKeeps DEF CommitReservation, ReleaseReservation
<1>7. ASSUME NEW s, SetShedding(s)
      PROVE  ExInv'
  BY <1>7 DEF SetShedding, ExInv, EntriesOK, Outstanding
<1> QED
  BY <1>1, <1>2, <1>3, <1>4, <1>5, <1>6, <1>7 DEF ExNext

\* The invariant gives the property.
LEMMA ExInvSettles == ExInv => BytesSettle
<1> SUFFICES ASSUME ExInv PROVE BytesSettle
  OBVIOUS
<1>1. ASSUME NEW k \in DOMAIN exCells, NEW t \in DOMAIN exCells[k].traces
      PROVE  /\ exCells[k].traces[t].bytes + exCells[k].traces[t].reserved <= MaxBytesPerTrace
             /\ exCells[k].traces[t].retained >= 0
  <2>1. CellOK(Outstanding, k, exCells[k], exOffers)
    BY DEF ExInv
  <2>2. TraceLedgerOK(Outstanding, k, exCells[k], t)
    BY <2>1 DEF CellOK, LedgerOK
  <2>3. exCells[k].traces[t] \in TraceStates
    BY <2>1, CellFields DEF CellOK
  <2>4. exCells[k].traces[t].retained \in Nat
    BY <2>3 DEF TraceStates
  <2> QED
    BY <2>2, <2>4 DEF TraceLedgerOK
<1>2. ASSUME NEW k \in DOMAIN exCells PROVE RanksOK(exCells[k]) /\ LedgerOK(Outstanding, k, exCells[k])
  BY DEF ExInv, CellOK
<1>3. ASSUME NEW w \in DOMAIN exGlobal PROVE GlobalOK(Outstanding, w, exGlobal[w], exOffers)
  BY DEF ExInv
<1> QED
  BY <1>1, <1>2, <1>3 DEF BytesSettle, RanksOK, LedgerOK, GlobalOK, OfClass

\* The byte and count ledgers of the exemplar policy agree with the reservations in flight and
\* stay within every budget, for any number of services, windows, traces, operations and
\* reservations.
THEOREM BytesAlwaysSettle == ExSpec => []BytesSettle
<1>1. ExInit => ExInv
  BY ExStart
<1>2. ExInv /\ [ExNext]_exVars => ExInv'
  BY ExStep
<1>3. ExInv => BytesSettle
  BY ExInvSettles
<1> QED
  BY <1>1, <1>2, <1>3, PTL DEF ExSpec

===============================================================================
