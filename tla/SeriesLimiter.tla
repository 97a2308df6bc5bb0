--------------------------- MODULE SeriesLimiter ---------------------------
(***************************************************************************)
(* The cardinality limiter: the census of the series present in a mutable  *)
(* window, the caps it is compared with, and the __other__ series that     *)
(* absorb what exceeds them.  Admit and Release are its two calls; every   *)
(* other call of the engine (a plan, its rollback, a rollover, a dropped   *)
(* window) is a sequence of them, in any order.                            *)
(*                                                                         *)
(* A key is a tenant, a service, a signal, a name, the rest of its         *)
(* dimensions and a status class; OtherName is the name of an overflow     *)
(* key.  A cap of 0 is no cap.                                             *)
(***************************************************************************)
EXTENDS Integers, FiniteSets

CONSTANTS LmKeys, LmWindows, OtherName,
          MaxSeries, SignalCap, NameCap, SeriesCap,   \* the last three per signal
          TenantLimit                                 \* 0: no tenant fraction

\* The records of six fields that keys and overflow keys are taken from.
KeyRecords == [tenant : {k.tenant : k \in LmKeys}, service : {k.service : k \in LmKeys},
               signal : {k.signal : k \in LmKeys}, name : {k.name : k \in LmKeys} \cup {OtherName},
               dims : {k.dims : k \in LmKeys} \cup {0}, status : {k.status : k \in LmKeys}]

ASSUME LmKeysAssumption == LmKeys \subseteq KeyRecords

\* Every cap is a non-negative integer.
ASSUME LmCapsAssumption ==
    /\ MaxSeries \in Nat /\ TenantLimit \in Nat
    /\ \A k \in LmKeys : /\ SignalCap[k.signal] \in Nat /\ NameCap[k.signal] \in Nat
                         /\ SeriesCap[k.signal] \in Nat

VARIABLES lmPresent,                    \* present; windows counts it per key
          lmTotal, lmBySignal, lmByService, lmByTenant, lmNames,
          lmOverflow, lmOverflowBySignal

lmVars == <<lmPresent, lmTotal, lmBySignal, lmByService, lmByTenant, lmNames, lmOverflow,
            lmOverflowBySignal>>

\* overflowKey: the status class survives, the name and the dimensions do not.
OverflowKey(k) == [k EXCEPT !.name = OtherName, !.dims = 0]

AllKeys == LmKeys \union {OverflowKey(k) : k \in LmKeys}
LmSignals == {k.signal : k \in LmKeys}
ScopeOf(k) == <<k.tenant, k.service, k.signal>>
LmScopes == {ScopeOf(k) : k \in LmKeys}
LmTenants == {k.tenant : k \in LmKeys}

WindowsOf(present, k) == {w \in LmWindows : <<k, w>> \in present}

---------------------------------------------------------------------------

\* checkLocked, in its frozen order: tenant fraction, names and series of the
\* service, signal, global.
Overflows(k) ==
    \/ TenantLimit > 0 /\ lmByTenant[k.tenant] >= TenantLimit
    \/ /\ NameCap[k.signal] > 0
       /\ Cardinality(lmNames[ScopeOf(k)]) >= NameCap[k.signal]
       /\ k.name \notin lmNames[ScopeOf(k)]
    \/ SeriesCap[k.signal] > 0 /\ lmByService[ScopeOf(k)] >= SeriesCap[k.signal]
    \/ SignalCap[k.signal] > 0 /\ lmBySignal[k.signal] >= SignalCap[k.signal]
    \/ MaxSeries > 0 /\ lmTotal >= MaxSeries

\* Adds d to every counter a charged series of this key is counted in.
Charge(k, d) ==
    /\ lmTotal' = lmTotal + d
    /\ lmBySignal' = [lmBySignal EXCEPT ![k.signal] = @ + d]
    /\ lmByService' = [lmByService EXCEPT ![ScopeOf(k)] = @ + d]
    /\ lmByTenant' = [lmByTenant EXCEPT ![k.tenant] = @ + d]

Uncharged == UNCHANGED <<lmTotal, lmBySignal, lmByService, lmByTenant, lmNames>>

\* addLocked: only the first window of a series is charged, and an overflow
\* series is counted apart.
Add(k, w, isOverflow) ==
    /\ lmPresent' = lmPresent \union {<<k, w>>}
    /\ IF WindowsOf(lmPresent, k) # {}
       THEN Uncharged /\ UNCHANGED <<lmOverflow, lmOverflowBySignal>>
       ELSE IF isOverflow
       THEN /\ lmOverflow' = lmOverflow \union {k}
            /\ lmOverflowBySignal' = [lmOverflowBySignal EXCEPT ![k.signal] = @ + 1]
            /\ Uncharged
       ELSE /\ Charge(k, 1)
            /\ lmNames' = IF NameCap[k.signal] > 0
                          THEN [lmNames EXCEPT ![ScopeOf(k)] = @ \union {k.name}] ELSE lmNames
            /\ UNCHANGED <<lmOverflow, lmOverflowBySignal>>

\* A known series is never rerouted, whatever the caps; a new one past a cap
\* goes to its overflow series.
Admit(k, w) ==
    /\ <<k, w>> \notin lmPresent
    /\ IF WindowsOf(lmPresent, k) # {} \/ ~ Overflows(k)
       THEN Add(k, w, FALSE)
       ELSE LET other == OverflowKey(k)
            IN  /\ <<other, w>> \notin lmPresent
                /\ Add(other, w, TRUE)

\* Mutant: a series gives its charge back with the first window it leaves.
LastWindowAny(k, w) == TRUE

\* The series leaves its last window.
LastWindow(k, w) == WindowsOf(lmPresent \ {<<k, w>>}, k) = {}

Release(k, w) ==
    /\ <<k, w>> \in lmPresent
    /\ lmPresent' = lmPresent \ {<<k, w>>}
    /\ IF ~ LastWindow(k, w)
       THEN Uncharged /\ UNCHANGED <<lmOverflow, lmOverflowBySignal>>
       ELSE IF k \in lmOverflow
       THEN /\ lmOverflow' = lmOverflow \ {k}
            /\ lmOverflowBySignal' = [lmOverflowBySignal EXCEPT ![k.signal] = @ - 1]
            /\ Uncharged
       ELSE /\ Charge(k, -1)
            /\ lmNames' = [lmNames EXCEPT ![ScopeOf(k)] = @ \ {k.name}]
            /\ UNCHANGED <<lmOverflow, lmOverflowBySignal>>

LmInit ==
    /\ lmPresent = {} /\ lmTotal = 0
    /\ lmBySignal = [s \in LmSignals |-> 0]
    /\ lmByService = [s \in LmScopes |-> 0]
    /\ lmByTenant = [t \in LmTenants |-> 0]
    /\ lmNames = [s \in LmScopes |-> {}]
    /\ lmOverflow = {}
    /\ lmOverflowBySignal = [s \in LmSignals |-> 0]

LmNext == \E k \in AllKeys, w \in LmWindows : Admit(k, w) \/ Release(k, w)

LmSpec == LmInit /\ [][LmNext]_lmVars

\* Type correctness.
LmTypeOK ==
    /\ lmPresent \subseteq AllKeys \X LmWindows
    /\ lmTotal \in Nat
    /\ lmBySignal \in [LmSignals -> Nat] /\ lmOverflowBySignal \in [LmSignals -> Nat]
    /\ lmByService \in [LmScopes -> Nat] /\ lmByTenant \in [LmTenants -> Nat]
    /\ lmOverflow \subseteq AllKeys

---------------------------------------------------------------------------

Active == {p[1] : p \in lmPresent}
Charged == Active \ lmOverflow

\* The census is exact and its caps bind: each counter is the number of
\* active series charged to it, however windows were left and re-entered and
\* whether an overflow key was charged or reserved; no cap but the name cap
\* can be passed, and the reserve is counted apart (addLocked, releaseLocked).
CensusExact ==
    /\ lmOverflow \subseteq Active
    /\ lmTotal = Cardinality(Charged)
    /\ MaxSeries > 0 => lmTotal <= MaxSeries
    /\ \A s \in LmSignals :
         /\ lmBySignal[s] = Cardinality({k \in Charged : k.signal = s})
         /\ SignalCap[s] > 0 => lmBySignal[s] <= SignalCap[s]
         /\ lmOverflowBySignal[s] = Cardinality({k \in lmOverflow : k.signal = s})
    /\ \A c \in LmScopes :
         /\ lmByService[c] = Cardinality({k \in Charged : ScopeOf(k) = c})
         /\ SeriesCap[c[3]] > 0 => lmByService[c] <= SeriesCap[c[3]]
         /\ lmNames[c] \subseteq {k.name : k \in {j \in Charged : ScopeOf(j) = c}}
    /\ \A t \in LmTenants :
         /\ lmByTenant[t] = Cardinality({k \in Charged : k.tenant = t})
         /\ TenantLimit > 0 => lmByTenant[t] <= TenantLimit
===========================================================================
