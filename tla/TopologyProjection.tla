------------------------- MODULE TopologyProjection -------------------------
(***************************************************************************)
(* The engine's per-tenant topology projection and its consumer GraphRAG.  *)
(* An export is committed with its group, which gives every export of the  *)
(* group the same revision; each export then folds its own facts under the *)
(* projection's lock.  GraphRAG replaces its view of a tenant whenever the *)
(* tenant's revision differs from the one it applied.                      *)
(*                                                                         *)
(* A fact is a series of one window: its kind, the two names it resolved   *)
(* to and whether its identity was limited.  An entry is its count per     *)
(* window, and exists while it has one; durations, sketches, values and    *)
(* the time stamps of an entry are left out.                               *)
(***************************************************************************)
EXTENDS Integers, FiniteSets

CONSTANTS TpExports, TpTenants, TpTenant,   \* exports and the tenant of each
          TpFacts,                          \* and its facts
          TpServices, TpNames,              \* names; "" is no operation
          TpWindows,                        \* window indexes
          TpMaxServices, TpMaxOps, TpMaxEdges, TpMaxMetrics,   \* TopologyConfig
          TpRetain,                         \* horizon and lateness, in windows
          TpMaxRev                          \* bound on revisions

\* What a fact resolves to: a service, a name (none for a span without an operation), and a
\* window the clock can reach.
TpFactsOf(x) ==
    /\ IsFiniteSet(TpFacts[x])
    /\ \A f \in TpFacts[x] :
          /\ f.kind \in {"trace", "edge", "metric", "log"}
          /\ f.a \in TpServices /\ f.b \in (IF f.kind = "trace" THEN TpNames \cup {""} ELSE TpNames)
          /\ f.window \in TpWindows /\ f.limited \in BOOLEAN

ASSUME TpAssumption ==
    /\ IsFiniteSet(TpExports) /\ IsFiniteSet(TpNames)
    /\ TpTenant \in [TpExports -> TpTenants]
    /\ TpWindows \subseteq Nat /\ TpWindows # {}
    /\ TpRetain \in Nat
    /\ \A x \in TpExports : TpFactsOf(x)

VARIABLES tpRev,        \* the engine's revision
          tpExport,     \* per export: "new", "committed", "folded"
          tpGroupRev,   \* the revision its group was given
          tpNow,        \* the current window
          tpEntries, tpOpsPerService, tpDropped, tpIdentity, tpTenantRev, tpKnown,
          tpReconcile,  \* tenants the running reconciliation still visits
          tpView,       \* GraphRAG's stores: applied revision and topology
          tpGone        \* history: the first window never pruned, per tenant

tpTenantVars == <<tpEntries, tpOpsPerService, tpDropped, tpIdentity, tpTenantRev, tpKnown, tpGone>>
tpVars == <<tpRev, tpExport, tpGroupRev, tpNow, tpTenantVars, tpReconcile, tpView>>

Pairs == TpServices \X TpNames
Entities == ({"service"} \X TpServices \X {""}) \union ({"op", "edge", "metric"} \X TpServices \X TpNames)
EntityKinds == {"service", "op", "edge", "metric"}

TpLive(es, e) == \E w \in TpWindows : es[e][w] > 0
OfKind(es, k) == {e \in Entities : e[1] = k /\ TpLive(es, e)}

---------------------------------------------------------------------------
(* Folding *)

\* The entries a fact is counted in: a trace fact counts for its service and,
\* when it names one, its operation; a log fact for none.
EntitiesOf(f) ==
    CASE f.kind = "trace" -> {<<"service", f.a, "">>} \union
                             (IF f.b = "" THEN {} ELSE {<<"op", f.a, f.b>>})
      [] f.kind = "edge"  -> {<<"edge", f.a, f.b>>}
      [] f.kind = "metric" -> {<<"metric", f.a, f.b>>}
      [] f.kind = "log" -> {}

\* A tenant's topology while one fold runs over it.
Tenancy(t) == [entries |-> tpEntries[t], ops |-> tpOpsPerService[t], dropped |-> tpDropped[t],
               identity |-> tpIdentity[t], touched |-> FALSE]

\* serviceEntry, operationEntry, edgeEntry and metricEntry: an existing entry
\* is found whatever the caps, a new one needs room.
Room(s, e) ==
    \/ TpLive(s.entries, e)
    \/ CASE e[1] = "service" -> Cardinality(OfKind(s.entries, "service")) < TpMaxServices
         [] e[1] = "op" -> s.ops[e[2]] < TpMaxOps
         [] e[1] = "edge" -> Cardinality(OfKind(s.entries, "edge")) < TpMaxEdges
         [] e[1] = "metric" -> Cardinality(OfKind(s.entries, "metric")) < TpMaxMetrics

Dropped(s, e) == [s EXCEPT !.dropped[e[1]] = @ + 1]

\* One entry of one fact; refused entries are counted and change nothing else.
FoldEntry(s, e, w) ==
    IF ~ Room(s, e) THEN Dropped(s, e)
    ELSE [s EXCEPT !.ops[e[2]] = IF e[1] = "op" /\ ~ TpLive(s.entries, e) THEN @ + 1 ELSE @,
                   !.entries[e][w] = @ + 1,
                   !.touched = TRUE]

\* The entries of one fact in the code's order, service before operation.
FoldEntries(s, f) ==
    LET es == EntitiesOf(f)
        svc == {e \in es : e[1] = "service"}
        rest == es \ svc
        s1 == IF svc = {} THEN s ELSE FoldEntry(s, CHOOSE e \in svc : TRUE, f.window)
    IN  IF rest = {} THEN s1 ELSE FoldEntry(s1, CHOOSE e \in rest : TRUE, f.window)

FoldOne(s, f) ==
    FoldEntries(IF f.limited THEN [s EXCEPT !.identity[f.window] = @ + 1, !.touched = TRUE] ELSE s, f)

RetainCutoff == tpNow - TpRetain

\* Mutant: pruning frees the entries but not their place under the cap.
PrunedKeepsOps(s, cutoff) ==
    [s EXCEPT !.entries = [e \in Entities |-> [w \in TpWindows |-> IF w < cutoff THEN 0 ELSE @[e][w]]],
              !.identity = [w \in TpWindows |-> IF w < cutoff THEN 0 ELSE @[w]]]

\* pruneTenantLocked: windows before the cutoff go, and the operations that
\* lose their last one give their place back.
Pruned(s, cutoff) ==
    LET keep(es) == [e \in Entities |-> [w \in TpWindows |-> IF w < cutoff THEN 0 ELSE es[e][w]]]
        lost(a) == {b \in TpNames : TpLive(s.entries, <<"op", a, b>>)
                                    /\ ~ TpLive(keep(s.entries), <<"op", a, b>>)}
    IN  [s EXCEPT !.entries = keep(s.entries),
                  !.identity = [w \in TpWindows |-> IF w < cutoff THEN 0 ELSE @[w]],
                  !.ops = [a \in TpServices |-> IF @[a] > Cardinality(lost(a))
                                                THEN @[a] - Cardinality(lost(a)) ELSE 0]]

SetTenant(t, s) ==
    /\ tpEntries' = [tpEntries EXCEPT ![t] = s.entries]
    /\ tpOpsPerService' = [tpOpsPerService EXCEPT ![t] = s.ops]
    /\ tpDropped' = [tpDropped EXCEPT ![t] = s.dropped]
    /\ tpIdentity' = [tpIdentity EXCEPT ![t] = s.identity]

\* The facts of an export in the order its map is walked.
Orders(x) == {o \in [1 .. Cardinality(TpFacts[x]) -> TpFacts[x]] :
                \A i, j \in DOMAIN o : o[i] = o[j] => i = j}

\* The facts of an export in one order; those of windows before the cutoff are skipped.
FoldFacts(s, x, o) ==
    LET step[i \in 0 .. Cardinality(TpFacts[x])] ==
          IF i = 0 THEN s
          ELSE IF o[i].window >= RetainCutoff THEN FoldOne(step[i - 1], o[i])
          ELSE step[i - 1]
    IN  step[Cardinality(TpFacts[x])]

\* A group commit: its exports become durable and share the next revision.
CommitGroup(xs) ==
    /\ xs # {} /\ tpRev < TpMaxRev
    /\ \A x \in xs : tpExport[x] = "new"
    /\ tpRev' = tpRev + 1
    /\ tpExport' = [x \in TpExports |-> IF x \in xs THEN "committed" ELSE tpExport[x]]
    /\ tpGroupRev' = [x \in TpExports |-> IF x \in xs THEN tpRev + 1 ELSE tpGroupRev[x]]
    /\ UNCHANGED <<tpNow, tpTenantVars, tpReconcile, tpView>>

\* fold: a tenant the export touched takes the export's revision and is pruned.
Fold(x) ==
    /\ tpExport[x] = "committed"
    /\ tpExport' = [tpExport EXCEPT ![x] = "folded"]
    /\ \E o \in Orders(x) :
         LET t == TpTenant[x]
             s == FoldFacts(Tenancy(t), x, o)
             retained == \E f \in TpFacts[x] : f.window >= RetainCutoff
         IN  /\ SetTenant(t, IF s.touched THEN Pruned(s, RetainCutoff) ELSE s)
             /\ tpTenantRev' = [tpTenantRev EXCEPT ![t] = IF s.touched THEN tpGroupRev[x] ELSE @]
             /\ tpKnown' = IF retained THEN tpKnown \union {t} ELSE tpKnown
             /\ tpGone' = [tpGone EXCEPT ![t] = IF s.touched THEN RetainCutoff ELSE @]
    /\ UNCHANGED <<tpRev, tpGroupRev, tpNow, tpReconcile, tpView>>

---------------------------------------------------------------------------
(* Pruning and GraphRAG *)

Visible(t) == <<tpEntries[t], tpIdentity[t]>>

\* Prune: every tenant that lost something shares one new revision.
Prune ==
    LET s == [t \in TpTenants |-> Pruned(Tenancy(t), RetainCutoff)]
        hit == {t \in TpTenants : <<s[t].entries, s[t].identity>> # Visible(t)}
    IN  /\ tpEntries' = [t \in TpTenants |-> s[t].entries]
        /\ tpOpsPerService' = [t \in TpTenants |-> s[t].ops]
        /\ tpIdentity' = [t \in TpTenants |-> s[t].identity]
        /\ tpRev' = IF hit = {} THEN tpRev ELSE tpRev + 1
        /\ tpTenantRev' = [t \in TpTenants |-> IF t \in hit THEN tpRev + 1 ELSE tpTenantRev[t]]
        /\ tpGone' = [t \in TpTenants |-> RetainCutoff]
        /\ UNCHANGED <<tpDropped, tpKnown>>

\* reconcileTopology, and ensureTopologyCurrent before every topology read.
ReconcileTopology ==
    /\ tpReconcile = {}
    /\ tpKnown # {}
    /\ Prune
    /\ tpReconcile' = tpKnown
    /\ UNCHANGED <<tpExport, tpGroupRev, tpNow, tpView>>

\* One tenant: an unchanged revision is skipped, any other replaces the view.
ReconcileTenant(t) ==
    /\ t \in tpReconcile
    /\ tpReconcile' = tpReconcile \ {t}
    /\ tpView' = IF tpView[t].rev = tpTenantRev[t] THEN tpView
                 ELSE [tpView EXCEPT ![t] = [rev |-> tpTenantRev[t], entries |-> tpEntries[t]]]
    /\ UNCHANGED <<tpRev, tpExport, tpGroupRev, tpNow, tpTenantVars>>

TpTick ==
    /\ tpNow + 1 \in TpWindows
    /\ tpNow' = tpNow + 1
    /\ UNCHANGED <<tpRev, tpExport, tpGroupRev, tpTenantVars, tpReconcile, tpView>>

NoEntries == [e \in Entities |-> [w \in TpWindows |-> 0]]

TpInit ==
    /\ tpRev = 0
    /\ tpExport = [x \in TpExports |-> "new"]
    /\ tpGroupRev = [x \in TpExports |-> 0]
    /\ tpNow = CHOOSE w \in TpWindows : \A v \in TpWindows : w <= v
    /\ tpEntries = [t \in TpTenants |-> NoEntries]
    /\ tpOpsPerService = [t \in TpTenants |-> [a \in TpServices |-> 0]]
    /\ tpDropped = [t \in TpTenants |-> [k \in EntityKinds |-> 0]]
    /\ tpIdentity = [t \in TpTenants |-> [w \in TpWindows |-> 0]]
    /\ tpTenantRev = [t \in TpTenants |-> 0]
    /\ tpKnown = {} /\ tpReconcile = {}
    /\ tpView = [t \in TpTenants |-> [rev |-> 0, entries |-> NoEntries]]
    /\ tpGone = [t \in TpTenants |-> RetainCutoff]

TpNext ==
    \/ \E xs \in SUBSET TpExports : CommitGroup(xs)
    \/ \E x \in TpExports : Fold(x)
    \/ ReconcileTopology
    \/ \E t \in TpTenants : ReconcileTenant(t)
    \/ TpTick

TpSpec == TpInit /\ [][TpNext]_tpVars

\* Type correctness.
TpTypeOK ==
    /\ tpRev \in Nat /\ tpNow \in TpWindows
    /\ tpExport \in [TpExports -> {"new", "committed", "folded"}]
    /\ \A t \in TpTenants :
          /\ tpEntries[t] \in [Entities -> [TpWindows -> Nat]]
          /\ tpOpsPerService[t] \in [TpServices -> Nat] /\ tpDropped[t] \in [EntityKinds -> Nat]
          /\ tpTenantRev[t] \in 0 .. tpRev /\ tpView[t].rev \in 0 .. tpRev
    /\ tpKnown \subseteq TpTenants /\ tpReconcile \subseteq TpTenants

---------------------------------------------------------------------------

\* Facts of folded exports that count for an entry in a window.
Counted(t, e, w) ==
    LET folded == {x \in TpExports : tpExport[x] = "folded" /\ TpTenant[x] = t}
    IN  Cardinality(UNION {{<<x, f>> : f \in {g \in TpFacts[x] : g.window = w /\ e \in EntitiesOf(g)}} :
                              x \in folded})

\* A topology that lost something says so: while a tenant's dropped counter of
\* a kind is zero, every entry of that kind holds exactly what the folded
\* exports brought to the windows not pruned yet, whatever was pruned and
\* re-admitted in between; and the per-service operation count is the number
\* of live operations (foldOne, operationEntry, pruneTenantLocked).
TruncationDeclared ==
    \A t \in tpKnown :
      /\ \A a \in TpServices :
           tpOpsPerService[t][a] = Cardinality({e \in OfKind(tpEntries[t], "op") : e[2] = a})
      /\ \A e \in Entities, w \in TpWindows :
           w >= RetainCutoff /\ w >= tpGone[t] /\ tpDropped[t][e[1]] = 0 =>
               tpEntries[t][e][w] = Counted(t, e, w)

===========================================================================
