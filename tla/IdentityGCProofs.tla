--------------------------- MODULE IdentityGCProofs ---------------------------
(***************************************************************************)
(* Proofs about IdentityGC, for every set of Exports and names and every   *)
(* bound.                                                                  *)
(***************************************************************************)
EXTENDS IdentityGC, TLAPS, WellFoundedInduction

-------------------------------------------------------------------------------
(* Greatest IDs.                                                           *)

\* A non-empty set of naturals has a least member.
LEMMA LeastNatural ==
    ASSUME NEW S \in SUBSET Nat, S # {}
    PROVE  \E m \in S : \A y \in S : m <= y
<1>1. PICK m \in S : \A y \in S : ~(<<y, m>> \in OpToRel(<, Nat))
  BY NatLessThanWellFounded, WFMin, Zenon
<1>2. \A y \in S : ~(y < m)
  BY <1>1, Zenon DEF OpToRel
<1> QED
  BY <1>2

\* A non-empty set of naturals below a bound has a greatest member, which Max picks.
LEMMA MaxOfNaturals ==
    ASSUME NEW B \in Nat, NEW S \in SUBSET (0 .. B), S # {}
    PROVE  Max(S) \in S /\ \A y \in S : Max(S) >= y
<1> DEFINE T == {n \in Nat : \A y \in S : n >= y}
<1>1. B \in T
  OBVIOUS
<1>2. T \in SUBSET Nat /\ T # {}
  BY <1>1
<1> HIDE DEF T
<1>3. PICK m \in T : \A y \in T : m <= y
  BY <1>2, LeastNatural
<1>5. \A y \in T : ~(y < m)
  BY <1>2, <1>3
<1>6. m \in S
  <2> SUFFICES ASSUME m \notin S PROVE FALSE
    OBVIOUS
  <2>1. m \in Nat /\ \A y \in S : y \in Nat /\ m >= y
    BY DEF T
  <2>2. \A y \in S : y # m
    OBVIOUS
  <2>3. \A y \in S : m - 1 >= y
    BY <2>1, <2>2
  <2>4. PICK z \in S : TRUE
    OBVIOUS
  <2>5. m - 1 \in Nat
    BY <2>1, <2>2, <2>4
  <2>6. m - 1 \in T
    BY <2>3, <2>5 DEF T
  <2> QED BY <1>5, <2>1, <2>6
<1>7. \A y \in S : m >= y
  BY DEF T
<1> QED
  BY <1>6, <1>7 DEF Max

-------------------------------------------------------------------------------
(* The inductive invariant.                                                *)

CacheIds == {cache[v] : v \in Values}
Named == {i \in Ids : named[i] # None}

\* An Export past Intern has a name, and past the registrar an ID.
ExportsOK ==
    \A e \in Exports : /\ pc[e] # "idle" => value[e] \in Values
                       /\ pc[e] \in {"registered", "holding"} => held[e] # 0

\* Numbers.  A durable name is below the watermark and the watermark at most at
\* the next ID, so that a new ID was never durable; what is staged never was.
NumbersOK ==
    /\ \A i \in Ids : dict[i] # None => dict[i] = named[i]
    /\ \A i \in Named : i < watermark
    /\ watermark <= next
    /\ drained \subseteq pending
    /\ \A i \in pending : i < next /\ named[i] = None /\ \E v \in Values : ids[v] = i
    /\ snap.dict \subseteq Named /\ dictCand \subseteq Named

\* The registrar.  Its IDs are below the next one, one name each, and staged or
\* durable under their name, except what a sweep has just deleted.
RegistrarOK ==
    /\ \A v \in Values : ids[v] < next
    /\ \A v, w \in Values : ids[v] = ids[w] /\ ids[v] # 0 => v = w
    /\ \A v \in Values : ids[v] # 0 =>
         \/ ids[v] \in pending
         \/ dict[ids[v]] = v
         \/ gc \in {"swept", "cacheForgotten"} /\ ids[v] \in dictCand

\* The sweep runs while no commit does, and fences its candidates first.
SweepOK ==
    /\ InBarrier => commit = "idle"
    /\ commit = "idle" => batch = {} /\ drained = {}
    /\ \A e \in batch : pc[e] = "holding"
    /\ gc \in {"fenced", "cacheFenced", "swept", "cacheForgotten"} => dictCand \subseteq fenced
    /\ gc \notin {"fenced", "cacheFenced", "swept", "cacheForgotten"} => fenced = {}
    /\ gc \notin {"cacheFenced", "swept"} => cacheFenced = {}

\* Unless an ID was handed out too late to be rescued, an ID in use is touched or
\* cached, and the cache agrees with the registrar.
UseOK ==
    /\ \A e \in Exports : pc[e] \in {"registered", "holding"} =>
         held[e] = ids[value[e]]
    /\ \A e \in Exports : pc[e] = "registered" => held[e] \in touched
    /\ \A e \in Exports : pc[e] = "holding" => cache[value[e]] = held[e]
    /\ \A v \in Values : cache[v] \in {0, ids[v]}
    /\ seriesPending \subseteq CacheIds
    /\ \A e \in Exports : pc[e] = "committed" => held[e] \in Ids /\ named[held[e]] = value[e]

\* The batch being committed has its series and its names with it.
BatchOK ==
    commit = "drained" =>
        /\ \A e \in batch : /\ held[e] \in series \cup seriesPending
                            /\ held[e] \in seriesTouched
                            /\ held[e] \in pending => held[e] \in drained
        /\ \A i \in seriesPending : i \in pending => i \in drained

StoreOK ==
    /\ refs \subseteq series
    /\ \A i \in series : dict[i] # None

\* What the mark phase has established so far about what it will sweep.
MarkOK ==
    /\ gc = "snapshot" => refs \subseteq snap.refs \cup seriesTouched
    /\ gc \in {"snapshot", "series", "registrar"} => series \subseteq snap.series \cup CacheIds
    /\ gc \in {"series", "registrar"} => snap.series \subseteq seriesCand \cup liveDict
    /\ gc \in {"series", "registrar", "marked"} => refs \cap seriesCand \subseteq seriesTouched
    /\ gc = "marked" => /\ dictCand \cap CacheIds \subseteq touched
                        /\ dictCand \cap series \subseteq seriesCand \cup CacheIds
    /\ InBarrier => dictCand \cap (touched \cup CacheIds) = {}
    /\ gc \in {"revalidated", "fenced", "cacheFenced"} =>
         /\ refs \cap seriesCand = {}
         /\ dictCand \cap series \subseteq seriesCand

IInv ==
    /\ TypeOK /\ ExportsOK /\ NumbersOK /\ RegistrarOK /\ SweepOK
    /\ ~raced => UseOK /\ BatchOK /\ StoreOK /\ MarkOK

-------------------------------------------------------------------------------
(* What a commit and a restart compute.                                    *)

\* The watermark moves past every row it commits and never back.
LEMMA CommitWatermark ==
    ASSUME TypeOK, NumbersOK, CommitGroup
    PROVE  /\ watermark' \in 0 .. (MaxId + 1) /\ watermark' <= next
           /\ watermark' >= watermark
           /\ \A i \in drained : i < watermark'
<1> DEFINE S == {watermark} \cup {i + 1 : i \in drained}
<1>1. /\ watermark \in 0 .. (MaxId + 1) /\ watermark <= next /\ next \in Nat
      /\ MaxId + 1 \in Nat
  BY IdentityAssumption DEF TypeOK, NumbersOK
<1>2. \A i \in drained : i \in Ids /\ i < next
  BY DEF TypeOK, NumbersOK
<1>3. S \in SUBSET (0 .. (MaxId + 1)) /\ S # {} /\ \A y \in S : y <= next
  <2>1. ASSUME NEW y \in S PROVE y \in 0 .. (MaxId + 1) /\ y <= next
    <3>1. CASE y = watermark
      BY <1>1, <3>1
    <3>2. ASSUME NEW i \in drained, y = i + 1 PROVE y \in 0 .. (MaxId + 1) /\ y <= next
      BY <1>1, <1>2, <3>2, IdentityAssumption DEF Ids
    <3> QED BY <3>1, <3>2
  <2> QED BY <2>1
<1>4. watermark' = Max(S)
  BY DEF CommitGroup
<1>5. watermark \in S /\ \A i \in drained : i + 1 \in S
  OBVIOUS
<1> HIDE DEF S
<1>6. Max(S) \in S /\ \A y \in S : Max(S) >= y
  BY <1>1, <1>3, MaxOfNaturals
<1>7. \A i \in drained : i < watermark'
  <2> SUFFICES ASSUME NEW i \in drained PROVE i < watermark'
    OBVIOUS
  <2>1. i \in Nat
    BY <1>2 DEF Ids
  <2>2. i + 1 \in S
    BY <1>5
  <2>3. Max(S) \in 0 .. (MaxId + 1) /\ Max(S) >= i + 1
    BY <1>3, <1>6, <2>2
  <2> QED BY <1>1, <1>4, <2>1, <2>3
<1> QED
  BY <1>3, <1>4, <1>5, <1>6, <1>7

\* A restart maps a name to the greatest ID it is durable under, and seeds the
\* next ID past the watermark and past every row.
LEMMA CrashSeeds ==
    ASSUME TypeOK, Crash
    PROVE  /\ ids' \in [Values -> Ids \cup {0}]
           /\ \A v \in Values : ids'[v] # 0 => ids'[v] \in Ids /\ dict[ids'[v]] = v
           /\ next' \in 1 .. (MaxId + 1)
           /\ next' >= watermark /\ \A i \in Rows(dict) : i < next'
<1>0. MaxId + 1 \in Nat /\ MaxId \in Nat
  BY IdentityAssumption
<1>1. ASSUME NEW v \in Values, IdWithName(v) # {}
      PROVE  Max(IdWithName(v)) \in Ids /\ dict[Max(IdWithName(v))] = v
  <2>1. IdWithName(v) \in SUBSET (0 .. MaxId)
    BY DEF IdWithName, Ids
  <2>2. Max(IdWithName(v)) \in IdWithName(v)
    BY <1>0, <1>1, <2>1, MaxOfNaturals
  <2> QED BY <2>2 DEF IdWithName
<1>2. ids' = [v \in Values |-> IF IdWithName(v) = {} THEN 0 ELSE Max(IdWithName(v))]
  BY DEF Crash
<1>3. /\ ids' \in [Values -> Ids \cup {0}]
      /\ \A v \in Values : ids'[v] # 0 => ids'[v] \in Ids /\ dict[ids'[v]] = v
  BY <1>1, <1>2
<1> DEFINE S == {1, watermark} \cup {i + 1 : i \in Rows(dict)}
<1>4. S \in SUBSET (0 .. (MaxId + 1)) /\ S # {}
  <2>1. ASSUME NEW y \in S PROVE y \in 0 .. (MaxId + 1)
    <3>1. CASE y = 1 \/ y = watermark
      BY <1>0, <3>1 DEF TypeOK
    <3>2. ASSUME NEW i \in Rows(dict), y = i + 1 PROVE y \in 0 .. (MaxId + 1)
      BY <1>0, <3>2 DEF Rows, Ids
    <3> QED BY <3>1, <3>2
  <2> QED BY <2>1
<1>5. 1 \in S /\ watermark \in S /\ \A i \in Rows(dict) : i + 1 \in S
  OBVIOUS
<1>6. next' = Max(S)
  BY DEF Crash
<1> HIDE DEF S
<1>7. Max(S) \in S /\ \A y \in S : Max(S) >= y
  BY <1>0, <1>4, MaxOfNaturals
<1>8. next' \in 1 .. (MaxId + 1) /\ next' >= watermark
  <2>1. Max(S) \in 0 .. (MaxId + 1)
    BY <1>4, <1>7
  <2>2. Max(S) >= 1 /\ Max(S) >= watermark
    BY <1>5, <1>7
  <2> QED BY <1>0, <1>6, <2>1, <2>2
<1>9. \A i \in Rows(dict) : i < next'
  <2> SUFFICES ASSUME NEW i \in Rows(dict) PROVE i < next'
    OBVIOUS
  <2>1. i \in Nat
    BY DEF Rows, Ids
  <2>2. i + 1 \in S
    BY <1>5
  <2>3. Max(S) >= i + 1
    BY <1>7, <2>2
  <2> QED BY <1>0, <1>6, <1>8, <2>1, <2>3
<1> QED
  BY <1>3, <1>8, <1>9

\* Every action keeps the types.
LEMMA TypeStep ==
    ASSUME TypeOK, ExportsOK, NumbersOK, SweepOK, [Next]_vars
    PROVE  TypeOK'
<1>1. ASSUME NEW e \in Exports, NEW v \in Values, Intern(e, v) PROVE TypeOK'
  BY <1>1 DEF Intern, exportVars, regVars, cacheVars, commitVars, storeVars, gcVars, TypeOK, Ids
<1>2. ASSUME NEW e \in Exports, RegisterKnown(e) PROVE TypeOK'
  <2>1. value[e] \in Values
    BY <1>2 DEF RegisterKnown, ExportsOK
  <2>2. ids[value[e]] \in Ids
    BY <1>2, <2>1 DEF RegisterKnown, TypeOK
  <2>3. raced' \in BOOLEAN
    BY <1>2 DEF RegisterKnown, TypeOK
  <2>4. /\ pc' = pc \/ pc' = [pc EXCEPT ![e] = "other"] \/ pc' = [pc EXCEPT ![e] = "registered"]
        /\ held' = held \/ held' = [held EXCEPT ![e] = ids[value[e]]]
        /\ touched' = touched \/ touched' = touched \cup {ids[value[e]]}
    BY <1>2 DEF RegisterKnown
  <2>5. UNCHANGED <<value, ids, next, pending, fenced, cacheVars, commitVars, storeVars, gcVars, crashes>>
    BY <1>2 DEF RegisterKnown
  <2> QED BY <2>1, <2>2, <2>3, <2>4, <2>5 DEF TypeOK, exportVars, regVars, cacheVars, commitVars, storeVars, gcVars
<1>3. ASSUME NEW e \in Exports, RegisterNew(e) PROVE TypeOK'
  <2>1. value[e] \in Values
    BY <1>3 DEF RegisterNew, ExportsOK
  <2>2. next \in Ids /\ next + 1 \in 1 .. (MaxId + 1)
    BY <1>3, IdentityAssumption DEF RegisterNew, TypeOK, Ids
  <2> QED BY <1>3, <2>1, <2>2 DEF RegisterNew, TypeOK, exportVars, regVars, cacheVars, commitVars, storeVars, gcVars
<1>4. ASSUME NEW e \in Exports, CacheStore(e) PROVE TypeOK'
  BY <1>4
     DEF CacheStore, exportVars, regVars, cacheVars, commitVars, storeVars, gcVars, TypeOK, Ids
<1>5. ASSUME NEW B \in SUBSET Exports, Drain(B) PROVE TypeOK'
  <2>1. {held[e] : e \in B} \subseteq Ids
    BY <1>5 DEF Drain, TypeOK, ExportsOK
  <2> QED BY <1>5, <2>1 DEF Drain, TypeOK, exportVars, regVars, cacheVars, commitVars, storeVars, gcVars
<1>6. CASE CommitGroup
  <2>1. \A i \in drained : NameOf(i) \in Values
    BY DEF NumbersOK, NameOf
  <2>2. dict' \in [Ids -> Values \cup {None}] /\ named' \in [Ids -> Values \cup {None}]
    BY <1>6, <2>1 DEF CommitGroup, TypeOK
  <2>3. {held[e] : e \in batch} \subseteq Ids
    BY <1>6 DEF CommitGroup, TypeOK, ExportsOK, SweepOK
  <2>4. watermark' \in 0 .. (MaxId + 1)
    BY <1>6, CommitWatermark
  <2>5. pc' \in [Exports -> {"idle", "missed", "registered", "holding", "committed", "failed",
                           "other", "lost"}]
    BY <1>6 DEF CommitGroup, TypeOK
  <2> QED BY <1>6, <2>2, <2>3, <2>4, <2>5 DEF CommitGroup, TypeOK, exportVars, regVars, cacheVars, commitVars, storeVars, gcVars
<1>7. CASE CommitGroupFails
  BY <1>7
     DEF CommitGroupFails, exportVars, regVars, cacheVars, commitVars, storeVars, gcVars, TypeOK,
         Ids
<1>8. ASSUME NEW i \in Ids, PurgeBefore(i) PROVE TypeOK'
  BY <1>8
     DEF PurgeBefore, exportVars, regVars, cacheVars, commitVars, storeVars, gcVars, TypeOK, Ids
<1>9. CASE GCSnapshot
  <2>1. snap' \in [refs : SUBSET Ids, series : SUBSET Ids, dict : SUBSET Ids]
    BY <1>9 DEF GCSnapshot, TypeOK, Rows
  <2> QED BY <1>9, <2>1 DEF GCSnapshot, TypeOK, exportVars, regVars, cacheVars, commitVars, storeVars, gcVars
<1>10. CASE MarkSeries
  BY <1>10
     DEF MarkSeries, seriesRoots, exportVars, regVars, cacheVars, commitVars, storeVars, gcVars,
         TypeOK, Ids
<1>11. CASE MarkRegistrar
  BY <1>11
     DEF MarkRegistrar, exportVars, regVars, cacheVars, commitVars, storeVars, gcVars, TypeOK,
         Ids
<1>12. CASE MarkCache
  <2>1. snap' \in [refs : SUBSET Ids, series : SUBSET Ids, dict : SUBSET Ids]
    BY <1>12 DEF MarkCache, NoSnap
  <2>2. dictCand' \subseteq Ids
    BY <1>12 DEF MarkCache, TypeOK
  <2> QED BY <1>12, <2>1, <2>2 DEF MarkCache, TypeOK, exportVars, regVars, cacheVars, commitVars, storeVars, gcVars
<1>13. CASE Revalidate
  BY <1>13
     DEF Revalidate, seriesRoots, exportVars, regVars, cacheVars, commitVars, storeVars, gcVars,
         TypeOK, Ids
<1>14. CASE ClearTouched
  BY <1>14
     DEF ClearTouched, exportVars, regVars, cacheVars, commitVars, storeVars, gcVars, TypeOK, Ids
<1>15. CASE Fence
  BY <1>15 DEF Fence, exportVars, regVars, cacheVars, commitVars, storeVars, gcVars, TypeOK, Ids
<1>16. CASE FenceCache
  BY <1>16
     DEF FenceCache, exportVars, regVars, cacheVars, commitVars, storeVars, gcVars, TypeOK, Ids
<1>17. CASE SweepIdentities
  BY <1>17
     DEF SweepIdentities, exportVars, regVars, cacheVars, commitVars, storeVars, gcVars, TypeOK,
         Ids
<1>18. CASE SweepFails
  BY <1>18
     DEF SweepFails, exportVars, regVars, cacheVars, commitVars, storeVars, gcVars, TypeOK, Ids
<1>19. CASE ForgetCache
  BY <1>19
     DEF ForgetCache, exportVars, regVars, cacheVars, commitVars, storeVars, gcVars, TypeOK, Ids
<1>20. CASE Forget
  BY <1>20 DEF Forget, exportVars, regVars, cacheVars, commitVars, storeVars, gcVars, TypeOK, Ids
<1>21. CASE Crash
  <2>1. snap' \in [refs : SUBSET Ids, series : SUBSET Ids, dict : SUBSET Ids]
    BY <1>21 DEF Crash, NoSnap
  <2>2. next' \in 1 .. (MaxId + 1) /\ ids' \in [Values -> Ids \cup {0}]
    BY <1>21, CrashSeeds
  <2>3. pc' \in [Exports -> {"idle", "missed", "registered", "holding", "committed", "failed",
                           "other", "lost"}]
    BY <1>21 DEF Crash, TypeOK
  <2> QED BY <1>21, <2>1, <2>2, <2>3 DEF Crash, TypeOK, exportVars, regVars, cacheVars, commitVars, storeVars, gcVars
<1>22. CASE UNCHANGED vars
  BY <1>22 DEF vars, exportVars, regVars, cacheVars, commitVars, storeVars, gcVars, TypeOK, Ids
<1> QED
  BY <1>1, <1>2, <1>3, <1>4, <1>5, <1>6, <1>7, <1>8, <1>9, <1>10, <1>11, <1>12, <1>13,
     <1>14, <1>15, <1>16, <1>17, <1>18, <1>19, <1>20, <1>21, <1>22
     DEF Next, Ingest, commitLoop, Collect, sweepPhase

\* An Export keeps its name and its ID.
LEMMA ExportsStep ==
    ASSUME TypeOK, ExportsOK, SweepOK, [Next]_vars
    PROVE  ExportsOK'
<1>0. ASSUME UNCHANGED <<pc, value, held>> PROVE ExportsOK'
  BY <1>0 DEF ExportsOK, TypeOK
<1>1. ASSUME NEW e \in Exports, NEW v \in Values, Intern(e, v) PROVE ExportsOK'
  BY <1>1
     DEF Intern, exportVars, regVars, cacheVars, commitVars, storeVars, gcVars, ExportsOK, TypeOK
<1>2. ASSUME NEW e \in Exports, RegisterKnown(e) PROVE ExportsOK'
  BY <1>2
     DEF RegisterKnown, Decided, exportVars, regVars, cacheVars, commitVars, storeVars, gcVars,
         ExportsOK, TypeOK
<1>3. ASSUME NEW e \in Exports, RegisterNew(e) PROVE ExportsOK'
  BY <1>3
     DEF RegisterNew, exportVars, regVars, cacheVars, commitVars, storeVars, gcVars, ExportsOK,
         TypeOK
<1>4. ASSUME NEW e \in Exports, CacheStore(e) PROVE ExportsOK'
  BY <1>4
     DEF CacheStore, exportVars, regVars, cacheVars, commitVars, storeVars, gcVars, ExportsOK,
         TypeOK
<1>5. ASSUME NEW B \in SUBSET Exports, Drain(B) PROVE ExportsOK'
  BY <1>0, <1>5 DEF Drain, exportVars, regVars, cacheVars, commitVars, storeVars, gcVars
<1>6. CASE CommitGroup
  BY <1>6
     DEF SweepOK, CommitGroup, exportVars, regVars, cacheVars, commitVars, storeVars, gcVars,
         ExportsOK, TypeOK
<1>7. CASE CommitGroupFails
  BY <1>7
     DEF SweepOK, CommitGroupFails, exportVars, regVars, cacheVars, commitVars, storeVars, gcVars,
         ExportsOK, TypeOK
<1>8. ASSUME NEW i \in Ids, PurgeBefore(i) PROVE ExportsOK'
  BY <1>0, <1>8 DEF PurgeBefore, exportVars, regVars, cacheVars, commitVars, storeVars, gcVars
<1>9. CASE GCSnapshot
  BY <1>0, <1>9 DEF GCSnapshot, exportVars, regVars, cacheVars, commitVars, storeVars, gcVars
<1>10. CASE MarkSeries
  BY <1>0, <1>10
     DEF MarkSeries, seriesRoots, exportVars, regVars, cacheVars, commitVars, storeVars, gcVars
<1>11. CASE MarkRegistrar
  BY <1>0, <1>11 DEF MarkRegistrar, exportVars, regVars, cacheVars, commitVars, storeVars, gcVars
<1>12. CASE MarkCache
  BY <1>0, <1>12 DEF MarkCache, exportVars, regVars, cacheVars, commitVars, storeVars, gcVars
<1>13. CASE Revalidate
  BY <1>0, <1>13
     DEF Revalidate, seriesRoots, exportVars, regVars, cacheVars, commitVars, storeVars, gcVars
<1>14. CASE ClearTouched
  BY <1>0, <1>14 DEF ClearTouched, exportVars, regVars, cacheVars, commitVars, storeVars, gcVars
<1>15. CASE Fence
  BY <1>0, <1>15 DEF Fence, exportVars, regVars, cacheVars, commitVars, storeVars, gcVars
<1>16. CASE FenceCache
  BY <1>0, <1>16 DEF FenceCache, exportVars, regVars, cacheVars, commitVars, storeVars, gcVars
<1>17. CASE SweepIdentities
  BY <1>0, <1>17
     DEF SweepIdentities, exportVars, regVars, cacheVars, commitVars, storeVars, gcVars
<1>18. CASE SweepFails
  BY <1>0, <1>18 DEF SweepFails, exportVars, regVars, cacheVars, commitVars, storeVars, gcVars
<1>19. CASE ForgetCache
  BY <1>0, <1>19 DEF ForgetCache, exportVars, regVars, cacheVars, commitVars, storeVars, gcVars
<1>20. CASE Forget
  BY <1>0, <1>20 DEF Forget, exportVars, regVars, cacheVars, commitVars, storeVars, gcVars
<1>21. CASE Crash
  BY <1>21
     DEF Crash, exportVars, regVars, cacheVars, commitVars, storeVars, gcVars, ExportsOK, TypeOK
<1>22. CASE UNCHANGED vars
  BY <1>0, <1>22 DEF vars, exportVars, regVars, cacheVars, commitVars, storeVars, gcVars
<1> QED
  BY <1>1, <1>2, <1>3, <1>4, <1>5, <1>6, <1>7, <1>8, <1>9, <1>10, <1>11, <1>12, <1>13,
     <1>14, <1>15, <1>16, <1>17, <1>18, <1>19, <1>20, <1>21, <1>22
     DEF Next, Ingest, commitLoop, Collect, sweepPhase

\* The writer's barrier keeps commits out of the sweep.
LEMMA SweepStep ==
    ASSUME TypeOK, SweepOK, [Next]_vars
    PROVE  SweepOK'
<1>1. ASSUME NEW e \in Exports, NEW v \in Values, Intern(e, v) PROVE SweepOK'
  BY <1>1
     DEF Intern, exportVars, regVars, cacheVars, commitVars, storeVars, gcVars, SweepOK, TypeOK,
         InBarrier
<1>2. ASSUME NEW e \in Exports, RegisterKnown(e) PROVE SweepOK'
  BY <1>2
     DEF RegisterKnown, Decided, exportVars, regVars, cacheVars, commitVars, storeVars, gcVars,
         SweepOK, TypeOK, InBarrier
<1>3. ASSUME NEW e \in Exports, RegisterNew(e) PROVE SweepOK'
  BY <1>3
     DEF RegisterNew, exportVars, regVars, cacheVars, commitVars, storeVars, gcVars, SweepOK,
         TypeOK, InBarrier
<1>4. ASSUME NEW e \in Exports, CacheStore(e) PROVE SweepOK'
  BY <1>4
     DEF CacheStore, exportVars, regVars, cacheVars, commitVars, storeVars, gcVars, SweepOK,
         TypeOK, InBarrier
<1>5. ASSUME NEW B \in SUBSET Exports, Drain(B) PROVE SweepOK'
  BY <1>5
     DEF Drain, exportVars, regVars, cacheVars, commitVars, storeVars, gcVars, SweepOK, TypeOK,
         InBarrier
<1>6. CASE CommitGroup
  BY <1>6
     DEF CommitGroup, exportVars, regVars, cacheVars, commitVars, storeVars, gcVars, SweepOK,
         TypeOK, InBarrier
<1>7. CASE CommitGroupFails
  BY <1>7
     DEF CommitGroupFails, exportVars, regVars, cacheVars, commitVars, storeVars, gcVars, SweepOK,
         TypeOK, InBarrier
<1>8. ASSUME NEW i \in Ids, PurgeBefore(i) PROVE SweepOK'
  BY <1>8
     DEF PurgeBefore, exportVars, regVars, cacheVars, commitVars, storeVars, gcVars, SweepOK,
         TypeOK, InBarrier
<1>9. CASE GCSnapshot
  BY <1>9
     DEF GCSnapshot, exportVars, regVars, cacheVars, commitVars, storeVars, gcVars, SweepOK,
         TypeOK, InBarrier
<1>10. CASE MarkSeries
  BY <1>10
     DEF MarkSeries, seriesRoots, exportVars, regVars, cacheVars, commitVars, storeVars, gcVars,
         SweepOK, TypeOK, InBarrier
<1>11. CASE MarkRegistrar
  BY <1>11
     DEF MarkRegistrar, exportVars, regVars, cacheVars, commitVars, storeVars, gcVars, SweepOK,
         TypeOK, InBarrier
<1>12. CASE MarkCache
  BY <1>12
     DEF MarkCache, exportVars, regVars, cacheVars, commitVars, storeVars, gcVars, SweepOK,
         TypeOK, InBarrier
<1>13. CASE Revalidate
  BY <1>13
     DEF Revalidate, seriesRoots, exportVars, regVars, cacheVars, commitVars, storeVars, gcVars,
         SweepOK, TypeOK, InBarrier
<1>14. CASE ClearTouched
  BY <1>14
     DEF ClearTouched, exportVars, regVars, cacheVars, commitVars, storeVars, gcVars, SweepOK,
         TypeOK, InBarrier
<1>15. CASE Fence
  BY <1>15
     DEF Fence, exportVars, regVars, cacheVars, commitVars, storeVars, gcVars, SweepOK, TypeOK,
         InBarrier
<1>16. CASE FenceCache
  BY <1>16
     DEF FenceCache, exportVars, regVars, cacheVars, commitVars, storeVars, gcVars, SweepOK,
         TypeOK, InBarrier
<1>17. CASE SweepIdentities
  BY <1>17
     DEF SweepIdentities, exportVars, regVars, cacheVars, commitVars, storeVars, gcVars, SweepOK,
         TypeOK, InBarrier
<1>18. CASE SweepFails
  BY <1>18
     DEF SweepFails, exportVars, regVars, cacheVars, commitVars, storeVars, gcVars, SweepOK,
         TypeOK, InBarrier
<1>19. CASE ForgetCache
  BY <1>19
     DEF ForgetCache, exportVars, regVars, cacheVars, commitVars, storeVars, gcVars, SweepOK,
         TypeOK, InBarrier
<1>20. CASE Forget
  BY <1>20
     DEF Forget, exportVars, regVars, cacheVars, commitVars, storeVars, gcVars, SweepOK, TypeOK,
         InBarrier
<1>21. CASE Crash
  BY <1>21
     DEF Crash, exportVars, regVars, cacheVars, commitVars, storeVars, gcVars, SweepOK, TypeOK,
         InBarrier
<1>22. CASE UNCHANGED vars
  BY <1>22
     DEF vars, exportVars, regVars, cacheVars, commitVars, storeVars, gcVars, SweepOK, TypeOK,
         InBarrier
<1> QED
  BY <1>1, <1>2, <1>3, <1>4, <1>5, <1>6, <1>7, <1>8, <1>9, <1>10, <1>11, <1>12, <1>13,
     <1>14, <1>15, <1>16, <1>17, <1>18, <1>19, <1>20, <1>21, <1>22
     DEF Next, Ingest, commitLoop, Collect, sweepPhase

\* IDs are never handed out twice.
LEMMA NumbersStep ==
    ASSUME TypeOK, ExportsOK, NumbersOK, RegistrarOK, SweepOK, [Next]_vars
    PROVE  NumbersOK'
<1>1. ASSUME NEW e \in Exports, NEW v \in Values, Intern(e, v) PROVE NumbersOK'
  BY <1>1
     DEF Intern, exportVars, regVars, cacheVars, commitVars, storeVars, gcVars, NumbersOK, TypeOK,
         Named
<1>2. ASSUME NEW e \in Exports, RegisterKnown(e) PROVE NumbersOK'
  BY <1>2
     DEF RegisterKnown, Decided, exportVars, regVars, cacheVars, commitVars, storeVars, gcVars,
         NumbersOK, TypeOK, Named
<1>3. ASSUME NEW e \in Exports, RegisterNew(e) PROVE NumbersOK'
  <2>1. value[e] \in Values /\ next \in Ids /\ ids[value[e]] = 0
    BY <1>3, IdentityAssumption DEF RegisterNew, ExportsOK, TypeOK, Ids
  <2>2. named[next] = None
    BY <2>1 DEF NumbersOK, TypeOK, Named, Ids
  <2>3. \A i \in pending' : i < next' /\ named[i] = None
    BY <1>3, <2>1, <2>2 DEF RegisterNew, NumbersOK, TypeOK, Ids
  <2>4. ASSUME NEW i \in pending' PROVE \E v \in Values : ids'[v] = i
    <3>1. CASE i = next
      BY <1>3, <2>1, <3>1 DEF RegisterNew, TypeOK
    <3>2. CASE i \in pending
      <4>1. PICK v \in Values : ids[v] = i
        BY <3>2 DEF NumbersOK
      <4>2. v # value[e]
        BY <2>1, <3>2, <4>1 DEF TypeOK, Ids
      <4> QED BY <1>3, <4>1, <4>2 DEF RegisterNew, TypeOK
    <3> QED BY <1>3, <3>1, <3>2 DEF RegisterNew
  <2>5. watermark' <= next'
    BY <1>3 DEF RegisterNew, storeVars, NumbersOK, TypeOK
  <2> QED BY <1>3, <2>3, <2>4, <2>5 DEF RegisterNew, NumbersOK, Named, exportVars, regVars, cacheVars, commitVars, storeVars, gcVars
<1>4. ASSUME NEW e \in Exports, CacheStore(e) PROVE NumbersOK'
  BY <1>4
     DEF CacheStore, exportVars, regVars, cacheVars, commitVars, storeVars, gcVars, NumbersOK,
         TypeOK, Named
<1>5. ASSUME NEW B \in SUBSET Exports, Drain(B) PROVE NumbersOK'
  BY <1>5
     DEF Drain, exportVars, regVars, cacheVars, commitVars, storeVars, gcVars, NumbersOK, TypeOK,
         Named
<1>6. CASE CommitGroup
  <2>1. /\ \A i \in drained : i \in Ids /\ named[i] = None /\ NameOf(i) \in Values
        /\ None \notin Values
    BY IdentityAssumption DEF NumbersOK, TypeOK, NameOf
  <2>2. \A i \in Ids : dict'[i] # None => dict'[i] = named'[i]
    BY <1>6, <2>1 DEF CommitGroup, NumbersOK, TypeOK
  <2>3. Named' = Named \cup drained
    BY <1>6, <2>1 DEF CommitGroup, Named, TypeOK
  <2>4. watermark' \in 0 .. (MaxId + 1) /\ watermark' >= watermark /\ watermark' <= next
        /\ \A i \in drained : i < watermark'
    BY <1>6, CommitWatermark
  <2>5. \A i \in Named' : i < watermark'
    BY <2>3, <2>4 DEF NumbersOK, TypeOK, Named, Ids
  <2>6. \A i \in pending' : i < next' /\ named'[i] = None /\ \E v \in Values : ids'[v] = i
    BY <1>6 DEF CommitGroup, NumbersOK, TypeOK
  <2>7. snap'.dict \subseteq Named' /\ dictCand' \subseteq Named' /\ drained' \subseteq pending'
    BY <1>6, <2>3 DEF CommitGroup, NumbersOK, gcVars
  <2> QED BY <1>6, <2>2, <2>4, <2>5, <2>6, <2>7 DEF CommitGroup, NumbersOK
<1>7. CASE CommitGroupFails
  BY <1>7
     DEF CommitGroupFails, exportVars, regVars, cacheVars, commitVars, storeVars, gcVars,
         NumbersOK, TypeOK, Named
<1>8. ASSUME NEW i \in Ids, PurgeBefore(i) PROVE NumbersOK'
  BY <1>8
     DEF PurgeBefore, exportVars, regVars, cacheVars, commitVars, storeVars, gcVars, NumbersOK,
         TypeOK, Named
<1>9. CASE GCSnapshot
  <2>1. snap'.dict = Rows(dict)
    BY <1>9 DEF GCSnapshot
  <2>2. Rows(dict) \subseteq Named
    BY DEF Rows, NumbersOK, Named
  <2> QED BY <1>9, <2>1, <2>2 DEF GCSnapshot, NumbersOK, Named, exportVars, regVars, cacheVars, commitVars, storeVars, gcVars
<1>10. CASE MarkSeries
  BY <1>10
     DEF MarkSeries, seriesRoots, exportVars, regVars, cacheVars, commitVars, storeVars, gcVars,
         NumbersOK, TypeOK, Named
<1>11. CASE MarkRegistrar
  BY <1>11
     DEF MarkRegistrar, exportVars, regVars, cacheVars, commitVars, storeVars, gcVars, NumbersOK,
         TypeOK, Named
<1>12. CASE MarkCache
  <2>1. snap'.dict = {} /\ dictCand' \subseteq snap.dict
    BY <1>12 DEF MarkCache, NoSnap
  <2> QED BY <1>12, <2>1 DEF MarkCache, NumbersOK, Named, exportVars, regVars, cacheVars, commitVars, storeVars, gcVars
<1>13. CASE Revalidate
  BY <1>13
     DEF Revalidate, seriesRoots, exportVars, regVars, cacheVars, commitVars, storeVars, gcVars,
         NumbersOK, TypeOK, Named
<1>14. CASE ClearTouched
  BY <1>14
     DEF ClearTouched, exportVars, regVars, cacheVars, commitVars, storeVars, gcVars, NumbersOK,
         TypeOK, Named
<1>15. CASE Fence
  BY <1>15
     DEF Fence, exportVars, regVars, cacheVars, commitVars, storeVars, gcVars, NumbersOK, TypeOK,
         Named
<1>16. CASE FenceCache
  BY <1>16
     DEF FenceCache, exportVars, regVars, cacheVars, commitVars, storeVars, gcVars, NumbersOK,
         TypeOK, Named
<1>17. CASE SweepIdentities
  BY <1>17
     DEF SweepIdentities, exportVars, regVars, cacheVars, commitVars, storeVars, gcVars,
         NumbersOK, TypeOK, Named
<1>18. CASE SweepFails
  BY <1>18
     DEF SweepFails, exportVars, regVars, cacheVars, commitVars, storeVars, gcVars, NumbersOK,
         TypeOK, Named
<1>19. CASE ForgetCache
  BY <1>19
     DEF ForgetCache, exportVars, regVars, cacheVars, commitVars, storeVars, gcVars, NumbersOK,
         TypeOK, Named
<1>20. CASE Forget
  <2>1. ASSUME NEW i \in pending PROVE \E v \in Values : ids'[v] = i
    <3>1. i \notin dictCand
      BY DEF NumbersOK, Named
    <3>2. PICK v \in Values : ids[v] = i
      BY DEF NumbersOK
    <3> QED BY <1>20, <3>1, <3>2 DEF Forget
  <2> QED BY <1>20, <2>1 DEF Forget, NumbersOK, Named, exportVars, regVars, cacheVars, commitVars, storeVars, gcVars
<1>21. CASE Crash
  <2>1. snap'.dict = {} /\ dictCand' = {} /\ pending' = {} /\ drained' = {}
    BY <1>21 DEF Crash, NoSnap
  <2>2. watermark' <= next'
    BY <1>21, CrashSeeds DEF Crash, storeVars, TypeOK
  <2> QED BY <1>21, <2>1, <2>2 DEF Crash, NumbersOK, Named, storeVars
<1>22. CASE UNCHANGED vars
  BY <1>22
     DEF vars, exportVars, regVars, cacheVars, commitVars, storeVars, gcVars, NumbersOK, TypeOK,
         Named
<1> QED
  BY <1>1, <1>2, <1>3, <1>4, <1>5, <1>6, <1>7, <1>8, <1>9, <1>10, <1>11, <1>12, <1>13,
     <1>14, <1>15, <1>16, <1>17, <1>18, <1>19, <1>20, <1>21, <1>22
     DEF Next, Ingest, commitLoop, Collect, sweepPhase

\* A name's ID is staged or durable under that name.
LEMMA RegistrarStep ==
    ASSUME TypeOK, ExportsOK, NumbersOK, RegistrarOK, SweepOK, [Next]_vars
    PROVE  RegistrarOK'
<1>0. ASSUME UNCHANGED <<ids, next, pending, dict, dictCand, gc>> PROVE RegistrarOK'
  BY <1>0 DEF RegistrarOK
<1>1. ASSUME NEW e \in Exports, NEW v \in Values, Intern(e, v) PROVE RegistrarOK'
  BY <1>0, <1>1 DEF Intern, exportVars, regVars, cacheVars, commitVars, storeVars, gcVars
<1>2. ASSUME NEW e \in Exports, RegisterKnown(e) PROVE RegistrarOK'
  BY <1>0, <1>2
     DEF RegisterKnown, Decided, exportVars, regVars, cacheVars, commitVars, storeVars, gcVars
<1>3. ASSUME NEW e \in Exports, RegisterNew(e) PROVE RegistrarOK'
  <2>1. value[e] \in Values /\ next \in Ids /\ ids[value[e]] = 0
    BY <1>3, IdentityAssumption DEF RegisterNew, ExportsOK, TypeOK, Ids
  <2>2. ids' = [ids EXCEPT ![value[e]] = next] /\ next' = next + 1 /\ pending' = pending \cup {next}
        /\ UNCHANGED <<gc, dict, dictCand>>
    BY <1>3 DEF RegisterNew, storeVars, gcVars
  <2>3. \A v \in Values : ids'[v] = IF v = value[e] THEN next ELSE ids[v]
    BY <2>1, <2>2 DEF TypeOK
  <2>4. \A v \in Values : ids[v] \in Nat /\ next \in Nat /\ ids[v] < next
    BY <2>1, IdentityAssumption DEF RegistrarOK, TypeOK, Ids
  <2>5. \A v \in Values : ids'[v] < next'
    BY <2>2, <2>3, <2>4
  <2>6. \A v, w \in Values : ids'[v] = ids'[w] /\ ids'[v] # 0 => v = w
    BY <2>3, <2>4 DEF RegistrarOK
  <2>7. \A v \in Values : ids'[v] # 0 =>
         \/ ids'[v] \in pending'
         \/ dict'[ids'[v]] = v
         \/ gc' \in {"swept", "cacheForgotten"} /\ ids'[v] \in dictCand'
    BY <2>2, <2>3 DEF RegistrarOK
  <2> QED BY <2>5, <2>6, <2>7 DEF RegistrarOK
<1>4. ASSUME NEW e \in Exports, CacheStore(e) PROVE RegistrarOK'
  BY <1>0, <1>4 DEF CacheStore, exportVars, regVars, cacheVars, commitVars, storeVars, gcVars
<1>5. ASSUME NEW B \in SUBSET Exports, Drain(B) PROVE RegistrarOK'
  BY <1>0, <1>5 DEF Drain, exportVars, regVars, cacheVars, commitVars, storeVars, gcVars
<1>6. CASE CommitGroup
  <2>1. UNCHANGED <<ids, next, gc, dictCand>> /\ pending' = pending \ drained
        /\ dict' = [i \in Ids |-> IF i \in drained THEN NameOf(i) ELSE dict[i]]
    BY <1>6 DEF CommitGroup, gcVars
  <2>2. ASSUME NEW v \in Values, ids[v] \in drained PROVE NameOf(ids[v]) = v
    <3>1. ids[v] # 0
      BY <2>2 DEF TypeOK, Ids
    <3> QED BY <3>1 DEF NameOf, RegistrarOK
  <2>3. \A v \in Values : ids[v] # 0 => ids[v] \in Ids
    BY DEF TypeOK
  <2> QED BY <2>1, <2>2, <2>3 DEF RegistrarOK
<1>7. CASE CommitGroupFails
  BY <1>0, <1>7
     DEF CommitGroupFails, exportVars, regVars, cacheVars, commitVars, storeVars, gcVars
<1>8. ASSUME NEW i \in Ids, PurgeBefore(i) PROVE RegistrarOK'
  BY <1>0, <1>8 DEF PurgeBefore, exportVars, regVars, cacheVars, commitVars, storeVars, gcVars
<1>9. CASE GCSnapshot
  BY <1>9
     DEF GCSnapshot, exportVars, regVars, cacheVars, commitVars, storeVars, gcVars, RegistrarOK
<1>10. CASE MarkSeries
  BY <1>10
     DEF MarkSeries, seriesRoots, exportVars, regVars, cacheVars, commitVars, storeVars, gcVars,
         RegistrarOK
<1>11. CASE MarkRegistrar
  BY <1>11
     DEF MarkRegistrar, exportVars, regVars, cacheVars, commitVars, storeVars, gcVars,
         RegistrarOK
<1>12. CASE MarkCache
  BY <1>12
     DEF MarkCache, exportVars, regVars, cacheVars, commitVars, storeVars, gcVars, RegistrarOK
<1>13. CASE Revalidate
  BY <1>13
     DEF Revalidate, seriesRoots, exportVars, regVars, cacheVars, commitVars, storeVars, gcVars,
         RegistrarOK
<1>14. CASE ClearTouched
  BY <1>14
     DEF ClearTouched, exportVars, regVars, cacheVars, commitVars, storeVars, gcVars, RegistrarOK
<1>15. CASE Fence
  BY <1>15 DEF Fence, exportVars, regVars, cacheVars, commitVars, storeVars, gcVars, RegistrarOK
<1>16. CASE FenceCache
  BY <1>16
     DEF FenceCache, exportVars, regVars, cacheVars, commitVars, storeVars, gcVars, RegistrarOK
<1>17. CASE SweepIdentities
  <2>1. \A v \in Values : ids[v] # 0 => ids[v] \in Ids
    BY DEF TypeOK
  <2> QED BY <1>17, <2>1 DEF SweepIdentities, RegistrarOK, exportVars, regVars, cacheVars, commitVars, storeVars, gcVars
<1>18. CASE SweepFails
  BY <1>18
     DEF SweepFails, exportVars, regVars, cacheVars, commitVars, storeVars, gcVars, RegistrarOK
<1>19. CASE ForgetCache
  BY <1>19
     DEF ForgetCache, exportVars, regVars, cacheVars, commitVars, storeVars, gcVars, RegistrarOK
<1>20. CASE Forget
  <2>1. \A v \in Values : ids'[v] = IF ids[v] \in dictCand THEN 0 ELSE ids[v]
    BY <1>20 DEF Forget
  <2>2. next \in Nat /\ next > 0
    BY IdentityAssumption DEF TypeOK
  <2> QED BY <1>20, <2>1, <2>2 DEF Forget, RegistrarOK, exportVars, regVars, cacheVars, commitVars, storeVars, gcVars
<1>21. CASE Crash
  <2>1. /\ \A v \in Values : ids'[v] \in Ids \cup {0}
        /\ \A v \in Values : ids'[v] # 0 => ids'[v] \in Ids /\ dict[ids'[v]] = v
        /\ next' \in 1 .. (MaxId + 1) /\ \A i \in Rows(dict) : i < next'
    BY <1>21, CrashSeeds
  <2>2. \A v \in Values : v # None
    BY IdentityAssumption
  <2>3. \A v \in Values : ids'[v] < next'
    BY <2>1, <2>2 DEF Rows
  <2>4. dict' = dict
    BY <1>21 DEF Crash, storeVars
  <2> QED BY <2>1, <2>3, <2>4 DEF RegistrarOK
<1>22. CASE UNCHANGED vars
  BY <1>0, <1>22 DEF vars, exportVars, regVars, cacheVars, commitVars, storeVars, gcVars
<1> QED
  BY <1>1, <1>2, <1>3, <1>4, <1>5, <1>6, <1>7, <1>8, <1>9, <1>10, <1>11, <1>12, <1>13,
     <1>14, <1>15, <1>16, <1>17, <1>18, <1>19, <1>20, <1>21, <1>22
     DEF Next, Ingest, commitLoop, Collect, sweepPhase

-------------------------------------------------------------------------------
(* Unless an ID was handed out too late.                                   *)

Safe == TypeOK /\ ExportsOK /\ NumbersOK /\ RegistrarOK /\ SweepOK
Live == UseOK /\ BatchOK /\ StoreOK /\ MarkOK

\* That an ID was handed out too late is remembered.
LEMMA RacedStays ==
    ASSUME TypeOK, [Next]_vars, ~ raced'
    PROVE  ~ raced
<1>1. CASE UNCHANGED vars
  BY <1>1 DEF vars
<1>2. CASE Next
  <2>1. raced' = raced \/ (\E e \in Exports : RegisterKnown(e)) \/ ClearTouched \/ Forget
    BY <1>2
       DEF Next, Ingest, commitLoop, Collect, sweepPhase, Intern, RegisterNew, CacheStore, Drain,
       CommitGroup, CommitGroupFails, PurgeBefore, GCSnapshot, MarkSeries, MarkRegistrar, MarkCache,
       Revalidate, Fence, FenceCache, SweepIdentities, SweepFails, ForgetCache, Crash
  <2> QED BY <2>1 DEF RegisterKnown, ClearTouched, Forget
<1> QED
  BY <1>1, <1>2

\* An ID in use stays touched or cached.
LEMMA UseStep ==
    ASSUME Safe, Live, ~ raced', [Next]_vars
    PROVE  UseOK'
<1>0. ASSUME UNCHANGED <<pc, value, held, ids, cache, touched, seriesPending, named>> PROVE UseOK'
  BY <1>0 DEF UseOK, CacheIds, Live
<1>1. ASSUME NEW e \in Exports, NEW v \in Values, Intern(e, v) PROVE UseOK'
  <2> USE DEF Safe, Live
  <2>1. UNCHANGED <<ids, cache, touched, seriesPending, named>>
    BY <1>1 DEF Intern, exportVars, regVars, cacheVars, commitVars, storeVars, gcVars
  <2>2. value' = [value EXCEPT ![e] = v]
        /\ \/ pc' = [pc EXCEPT ![e] = "holding"] /\ held' = [held EXCEPT ![e] = cache[v]] /\ cache[v] # 0
           \/ pc' = [pc EXCEPT ![e] = "missed"] /\ held' = held
    BY <1>1 DEF Intern
  <2>3. CacheIds' = CacheIds
    BY <2>1 DEF CacheIds
  <2>4. ASSUME NEW f \in Exports, f # e
        PROVE pc'[f] = pc[f] /\ value'[f] = value[f] /\ held'[f] = held[f]
    BY <2>2, <2>4 DEF TypeOK
  <2>5. /\ value'[e] = v
        /\ pc'[e] = "missed" \/ (pc'[e] = "holding" /\ held'[e] = cache[v] /\ cache[v] # 0)
    BY <2>2 DEF TypeOK
  <2> QED BY <2>1, <2>3, <2>4, <2>5 DEF UseOK
<1>2. ASSUME NEW e \in Exports, RegisterKnown(e) PROVE UseOK'
  <2> USE DEF Safe, Live
  <2>1. UNCHANGED <<value, ids, cache, seriesPending, named>> /\ value[e] \in Values
    BY <1>2
       DEF RegisterKnown, ExportsOK, exportVars, regVars, cacheVars, commitVars, storeVars,
           gcVars
  <2>2. CacheIds' = CacheIds
    BY <2>1 DEF CacheIds
  <2>3. \/ pc' = [pc EXCEPT ![e] = "other"] /\ held' = held /\ touched' = touched
        \/ /\ pc' = [pc EXCEPT ![e] = "registered"] /\ held' = [held EXCEPT ![e] = ids[value[e]]]
           /\ touched' = touched \cup {ids[value[e]]}
    BY <1>2 DEF RegisterKnown
  <2>4. ASSUME NEW f \in Exports, f # e
        PROVE pc'[f] = pc[f] /\ held'[f] = held[f] /\ (held[f] \in touched => held[f] \in touched')
    BY <2>3, <2>4 DEF TypeOK
  <2>5. \/ pc'[e] = "other"
        \/ pc'[e] = "registered" /\ held'[e] = ids[value[e]] /\ held'[e] \in touched'
    BY <2>3 DEF TypeOK
  <2> QED BY <2>1, <2>2, <2>4, <2>5 DEF UseOK
<1>3. ASSUME NEW e \in Exports, RegisterNew(e) PROVE UseOK'
  <2> USE DEF Safe, Live
  <2>1. UNCHANGED <<value, cache, seriesPending, named>> /\ value[e] \in Values /\ ids[value[e]] = 0
    BY <1>3
       DEF RegisterNew, ExportsOK, exportVars, regVars, cacheVars, commitVars, storeVars, gcVars
  <2>2. CacheIds' = CacheIds
    BY <2>1 DEF CacheIds
  <2>3. /\ pc' = [pc EXCEPT ![e] = "registered"] /\ held' = [held EXCEPT ![e] = next]
        /\ ids' = [ids EXCEPT ![value[e]] = next] /\ touched' = touched \cup {next}
    BY <1>3 DEF RegisterNew
  <2>4. \A v \in Values : ids'[v] = IF v = value[e] THEN next ELSE ids[v]
    BY <2>3 DEF TypeOK
  <2>5. ASSUME NEW f \in Exports, f # e
        PROVE pc'[f] = pc[f] /\ held'[f] = held[f] /\ (held[f] \in touched => held[f] \in touched')
    BY <2>3, <2>5 DEF TypeOK
  <2>6. pc'[e] = "registered" /\ held'[e] = ids'[value[e]] /\ held'[e] \in touched'
    BY <2>1, <2>3, <2>4 DEF TypeOK
  <2>7. ASSUME NEW f \in Exports, f # e, pc[f] \in {"registered", "holding"}
        PROVE  held[f] = ids'[value[f]]
    <3>1. held[f] = ids[value[f]] /\ held[f] # 0 /\ value[f] \in Values
      BY <2>7 DEF UseOK, ExportsOK
    <3> QED BY <2>1, <2>4, <3>1
  <2>8. \A v \in Values : cache[v] \in {0, ids'[v]}
    BY <2>1, <2>4 DEF UseOK
  <2> QED BY <2>1, <2>2, <2>5, <2>6, <2>7, <2>8 DEF UseOK
<1>4. ASSUME NEW e \in Exports, CacheStore(e) PROVE UseOK'
  <2> USE DEF Safe, Live
  <2>1. UNCHANGED <<value, held, ids, touched, seriesPending, named>> /\ pc[e] = "registered"
        /\ value[e] \in Values /\ held[e] = ids[value[e]]
    BY <1>4
       DEF CacheStore, ExportsOK, UseOK, exportVars, regVars, cacheVars, commitVars, storeVars,
           gcVars
  <2>2. /\ pc' = [pc EXCEPT ![e] = "holding"]
        /\ cache' = [cache EXCEPT ![value[e]] = held[e]]
    BY <1>4 DEF CacheStore
  <2>3. \A v \in Values : cache'[v] = IF v = value[e] THEN ids[v] ELSE cache[v]
    BY <2>1, <2>2 DEF TypeOK
  <2>4. \A i \in Ids : i \in CacheIds => i \in CacheIds'
    <3> SUFFICES ASSUME NEW v \in Values, cache[v] \in Ids PROVE cache[v] = cache'[v]
      BY DEF CacheIds
    <3>1. cache[v] # 0
      BY DEF Ids
    <3> QED BY <2>3, <3>1 DEF UseOK
  <2>5. \A f \in Exports : pc'[f] = IF f = e THEN "holding" ELSE pc[f]
    BY <2>2 DEF TypeOK
  <2>6. \A f \in Exports : pc'[f] = "holding" => cache'[value[f]] = held[f]
    BY <2>1, <2>3, <2>5 DEF UseOK, ExportsOK
  <2>7. seriesPending' \subseteq CacheIds'
    BY <2>1, <2>4 DEF UseOK, TypeOK
  <2> QED BY <2>1, <2>3, <2>5, <2>6, <2>7 DEF UseOK
<1>5. ASSUME NEW B \in SUBSET Exports, Drain(B) PROVE UseOK'
  <2> USE DEF Safe, Live
  <2>1. UNCHANGED <<pc, value, held, ids, cache, touched, named>>
    BY <1>5 DEF Drain, exportVars, regVars, cacheVars, commitVars, storeVars, gcVars
  <2>2. CacheIds' = CacheIds
    BY <2>1 DEF CacheIds
  <2>3. \A e \in B : held[e] \in CacheIds
    BY <1>5 DEF Drain, UseOK, ExportsOK, CacheIds
  <2>4. seriesPending' \subseteq CacheIds
    BY <1>5, <2>3 DEF Drain, UseOK
  <2> QED BY <2>1, <2>2, <2>4 DEF UseOK
<1>6. CASE CommitGroup
  <2> USE DEF Safe, Live
  <2>1. /\ pc' = [e \in Exports |-> IF e \in batch THEN "committed" ELSE pc[e]]
        /\ named' = [i \in Ids |-> IF i \in drained /\ named[i] = None THEN NameOf(i) ELSE named[i]]
        /\ UNCHANGED <<value, held, ids, cache, touched>> /\ seriesPending' = {}
    BY <1>6 DEF CommitGroup, cacheVars
  <2>2. \A v \in Values : v # None
    BY IdentityAssumption
  <2>3. ASSUME NEW e \in batch PROVE held[e] \in Ids /\ named'[held[e]] = value[e]
    <3>1. e \in Exports /\ pc[e] = "holding" /\ value[e] \in Values /\ held[e] = ids[value[e]]
          /\ held[e] # 0 /\ held[e] \in Ids
      BY DEF TypeOK, SweepOK, ExportsOK, UseOK
    <3>2. held[e] \in pending \/ dict[held[e]] = value[e]
      BY <1>6, <3>1 DEF RegistrarOK, SweepOK, InBarrier, CommitGroup
    <3>3. CASE held[e] \in pending
      <4>1. held[e] \in drained /\ named[held[e]] = None
        BY <1>6, <3>3 DEF BatchOK, CommitGroup, NumbersOK
      <4>2. NameOf(held[e]) = value[e]
        BY <3>1 DEF NameOf, RegistrarOK
      <4> QED BY <2>1, <3>1, <4>1, <4>2
    <3>4. CASE dict[held[e]] = value[e]
      BY <2>1, <2>2, <3>1, <3>4 DEF NumbersOK
    <3> QED BY <3>1, <3>2, <3>3, <3>4
  <2>4. ASSUME NEW e \in Exports, pc[e] = "committed"
        PROVE  held[e] \in Ids /\ named'[held[e]] = value[e]
    BY <2>1, <2>2, <2>4 DEF UseOK, ExportsOK
  <2>5. \A e \in Exports : pc'[e] = "committed" => held[e] \in Ids /\ named'[held[e]] = value[e]
    BY <2>1, <2>3, <2>4
  <2> QED BY <2>1, <2>5 DEF UseOK
<1>7. CASE CommitGroupFails
  <2>1. UNCHANGED <<value, held, ids, cache, touched, seriesPending, named>> /\ CacheIds' = CacheIds
    BY <1>7
       DEF CommitGroupFails, CacheIds, exportVars, regVars, cacheVars, commitVars, storeVars,
           gcVars
  <2>2. \A e \in Exports : pc'[e] = pc[e] \/ pc'[e] = "failed"
    BY <1>7 DEF CommitGroupFails
  <2> QED BY <2>1, <2>2 DEF UseOK, Live
<1>8. ASSUME NEW i \in Ids, PurgeBefore(i) PROVE UseOK'
  BY <1>0, <1>8 DEF PurgeBefore, exportVars, regVars, cacheVars, commitVars, storeVars, gcVars
<1>9. CASE GCSnapshot
  BY <1>0, <1>9 DEF GCSnapshot, exportVars, regVars, cacheVars, commitVars, storeVars, gcVars
<1>10. CASE MarkSeries
  BY <1>0, <1>10
     DEF MarkSeries, seriesRoots, exportVars, regVars, cacheVars, commitVars, storeVars, gcVars
<1>11. CASE MarkRegistrar
  BY <1>0, <1>11 DEF MarkRegistrar, exportVars, regVars, cacheVars, commitVars, storeVars, gcVars
<1>12. CASE MarkCache
  BY <1>0, <1>12 DEF MarkCache, exportVars, regVars, cacheVars, commitVars, storeVars, gcVars
<1>13. CASE Revalidate
  BY <1>0, <1>13
     DEF Revalidate, seriesRoots, exportVars, regVars, cacheVars, commitVars, storeVars, gcVars
<1>14. CASE ClearTouched
  <2>1. UNCHANGED <<pc, value, held, ids, cache, seriesPending, named>> /\ CacheIds' = CacheIds
    BY <1>14
       DEF ClearTouched, CacheIds, exportVars, regVars, cacheVars, commitVars, storeVars, gcVars
  <2>2. \A e \in Exports : pc[e] # "registered"
    BY <1>14 DEF ClearTouched
  <2> QED BY <2>1, <2>2 DEF UseOK, Live
<1>15. CASE Fence
  BY <1>0, <1>15 DEF Fence, exportVars, regVars, cacheVars, commitVars, storeVars, gcVars
<1>16. CASE FenceCache
  BY <1>0, <1>16 DEF FenceCache, exportVars, regVars, cacheVars, commitVars, storeVars, gcVars
<1>17. CASE SweepIdentities
  BY <1>0, <1>17
     DEF SweepIdentities, exportVars, regVars, cacheVars, commitVars, storeVars, gcVars
<1>18. CASE SweepFails
  BY <1>0, <1>18 DEF SweepFails, exportVars, regVars, cacheVars, commitVars, storeVars, gcVars
<1>19. CASE ForgetCache
  <2> USE DEF Safe, Live
  <2>1. UNCHANGED <<pc, value, held, ids, touched, seriesPending, named>> /\ InBarrier
    BY <1>19
       DEF ForgetCache, InBarrier, exportVars, regVars, cacheVars, commitVars, storeVars, gcVars
  <2>2. \A v \in Values : cache[v] \notin dictCand
    BY <2>1 DEF MarkOK, CacheIds
  <2>3. \A v \in Values : cache'[v] = cache[v]
    BY <1>19, <2>2 DEF ForgetCache
  <2>4. CacheIds' = CacheIds
    BY <2>3 DEF CacheIds
  <2> QED BY <2>1, <2>3, <2>4 DEF UseOK, ExportsOK
<1>20. CASE Forget
  <2> USE DEF Safe, Live
  <2>1. UNCHANGED <<pc, value, held, cache, seriesPending, named>> /\ InBarrier /\ CacheIds' = CacheIds
    BY <1>20
       DEF Forget, InBarrier, CacheIds, exportVars, regVars, cacheVars, commitVars, storeVars,
           gcVars
  <2>2. \A e \in Exports : pc[e] # "registered"
    BY <1>20 DEF Forget
  <2>3. \A v \in Values : ids'[v] = IF ids[v] \in dictCand THEN 0 ELSE ids[v]
    BY <1>20 DEF Forget
  <2>4. \A v \in Values : cache[v] \notin dictCand
    BY <2>1 DEF MarkOK, CacheIds
  <2>5. \A e \in Exports : pc[e] = "holding" => held[e] = ids'[value[e]]
    BY <2>3, <2>4 DEF UseOK, ExportsOK
  <2>6. \A v \in Values : cache[v] \in {0, ids'[v]}
    BY <2>3, <2>4 DEF UseOK
  <2> QED BY <2>1, <2>2, <2>5, <2>6 DEF UseOK
<1>21. CASE Crash
  <2>1. UNCHANGED <<value, held, named>> /\ seriesPending' = {} /\ cache' = [v \in Values |-> 0]
    BY <1>21 DEF Crash, storeVars
  <2>2. \A e \in Exports : /\ pc'[e] \notin {"registered", "holding"}
                           /\ pc'[e] = "committed" => pc[e] = "committed"
    BY <1>21 DEF Crash
  <2> QED BY <2>1, <2>2 DEF UseOK, Live
<1>22. CASE UNCHANGED vars
  BY <1>0, <1>22 DEF vars, exportVars, regVars, cacheVars, commitVars, storeVars, gcVars
<1> QED
  BY <1>1, <1>2, <1>3, <1>4, <1>5, <1>6, <1>7, <1>8, <1>9, <1>10, <1>11, <1>12, <1>13,
     <1>14, <1>15, <1>16, <1>17, <1>18, <1>19, <1>20, <1>21, <1>22
     DEF Next, Ingest, commitLoop, Collect, sweepPhase

\* The batch being committed keeps its series and its names.
LEMMA BatchStep ==
    ASSUME Safe, Live, ~ raced', [Next]_vars
    PROVE  BatchOK'
<1>0. ASSUME UNCHANGED <<commit, batch, held, series, seriesPending, seriesTouched, pending, drained>>
      PROVE  BatchOK'
  BY <1>0 DEF BatchOK, Live
<1>1. ASSUME NEW e \in Exports, NEW v \in Values, Intern(e, v) PROVE BatchOK'
  <2> USE DEF Safe, Live
  <2>1. UNCHANGED <<commit, batch, series, seriesPending, seriesTouched, pending, drained>>
        /\ e \notin batch
    BY <1>1 DEF Intern, SweepOK, exportVars, regVars, cacheVars, commitVars, storeVars, gcVars
  <2>2. \A f \in Exports : f # e => held'[f] = held[f]
    BY <1>1 DEF Intern, TypeOK
  <2>3. \A f \in batch : held'[f] = held[f]
    BY <2>1, <2>2 DEF TypeOK
  <2> QED BY <2>1, <2>3 DEF BatchOK
<1>2. ASSUME NEW e \in Exports, RegisterKnown(e) PROVE BatchOK'
  <2> USE DEF Safe, Live
  <2>1. UNCHANGED <<commit, batch, series, seriesPending, seriesTouched, pending, drained>>
        /\ e \notin batch
    BY <1>2
       DEF RegisterKnown, SweepOK, exportVars, regVars, cacheVars, commitVars, storeVars, gcVars
  <2>2. \A f \in Exports : f # e => held'[f] = held[f]
    BY <1>2 DEF RegisterKnown, TypeOK
  <2>3. \A f \in batch : held'[f] = held[f]
    BY <2>1, <2>2 DEF TypeOK
  <2> QED BY <2>1, <2>3 DEF BatchOK
<1>3. ASSUME NEW e \in Exports, RegisterNew(e) PROVE BatchOK'
  <2> USE DEF Safe, Live
  <2>1. UNCHANGED <<commit, batch, series, seriesPending, seriesTouched, drained>>
        /\ e \notin batch /\ pending' = pending \cup {next}
    BY <1>3
       DEF RegisterNew, SweepOK, exportVars, regVars, cacheVars, commitVars, storeVars, gcVars
  <2>2. \A f \in Exports : f # e => held'[f] = held[f]
    BY <1>3 DEF RegisterNew, TypeOK
  <2>3. \A v \in Values : ids[v] # next
    BY DEF RegistrarOK, TypeOK, Ids
  <2>4. \A f \in batch : held'[f] = held[f] /\ held[f] # next
    BY <2>1, <2>2, <2>3 DEF TypeOK, SweepOK, UseOK, ExportsOK
  <2>5. next \notin seriesPending
    BY <2>3 DEF UseOK, CacheIds, TypeOK
  <2> QED BY <2>1, <2>4, <2>5 DEF BatchOK
<1>4. ASSUME NEW e \in Exports, CacheStore(e) PROVE BatchOK'
  BY <1>0, <1>4 DEF CacheStore, exportVars, regVars, cacheVars, commitVars, storeVars, gcVars
<1>5. ASSUME NEW B \in SUBSET Exports, Drain(B) PROVE BatchOK'
  <2>1. /\ batch' = B /\ drained' = pending /\ UNCHANGED <<held, pending, series>>
        /\ seriesTouched' = seriesTouched \cup {held[e] : e \in B}
        /\ seriesPending' = seriesPending \cup ({held[e] : e \in B} \ series)
    BY <1>5 DEF Drain, exportVars, regVars, cacheVars, commitVars, storeVars, gcVars
  <2>2. \A e \in B : held[e] \in seriesTouched' /\ held[e] \in series \cup seriesPending'
    BY <2>1
  <2> QED BY <2>1, <2>2 DEF BatchOK
<1>6. CASE CommitGroup
  BY <1>6 DEF CommitGroup, BatchOK
<1>7. CASE CommitGroupFails
  BY <1>7 DEF CommitGroupFails, BatchOK
<1>8. ASSUME NEW i \in Ids, PurgeBefore(i) PROVE BatchOK'
  BY <1>0, <1>8 DEF PurgeBefore, exportVars, regVars, cacheVars, commitVars, storeVars, gcVars
<1>9. CASE GCSnapshot
  BY <1>0, <1>9 DEF GCSnapshot, exportVars, regVars, cacheVars, commitVars, storeVars, gcVars
<1>10. CASE MarkSeries
  BY <1>0, <1>10
     DEF MarkSeries, seriesRoots, exportVars, regVars, cacheVars, commitVars, storeVars, gcVars
<1>11. CASE MarkRegistrar
  BY <1>0, <1>11 DEF MarkRegistrar, exportVars, regVars, cacheVars, commitVars, storeVars, gcVars
<1>12. CASE MarkCache
  BY <1>0, <1>12 DEF MarkCache, exportVars, regVars, cacheVars, commitVars, storeVars, gcVars
<1>13. CASE Revalidate
  BY <1>0, <1>13
     DEF Revalidate, seriesRoots, exportVars, regVars, cacheVars, commitVars, storeVars, gcVars
<1>14. CASE ClearTouched
  BY <1>14 DEF ClearTouched, BatchOK, Safe, SweepOK, InBarrier
<1>15. CASE Fence
  BY <1>0, <1>15 DEF Fence, exportVars, regVars, cacheVars, commitVars, storeVars, gcVars
<1>16. CASE FenceCache
  BY <1>0, <1>16 DEF FenceCache, exportVars, regVars, cacheVars, commitVars, storeVars, gcVars
<1>17. CASE SweepIdentities
  BY <1>17 DEF SweepIdentities, BatchOK, Safe, SweepOK, InBarrier
<1>18. CASE SweepFails
  BY <1>0, <1>18 DEF SweepFails, exportVars, regVars, cacheVars, commitVars, storeVars, gcVars
<1>19. CASE ForgetCache
  BY <1>0, <1>19 DEF ForgetCache, exportVars, regVars, cacheVars, commitVars, storeVars, gcVars
<1>20. CASE Forget
  BY <1>0, <1>20 DEF Forget, exportVars, regVars, cacheVars, commitVars, storeVars, gcVars
<1>21. CASE Crash
  BY <1>21 DEF Crash, BatchOK
<1>22. CASE UNCHANGED vars
  BY <1>0, <1>22 DEF vars, exportVars, regVars, cacheVars, commitVars, storeVars, gcVars
<1> QED
  BY <1>1, <1>2, <1>3, <1>4, <1>5, <1>6, <1>7, <1>8, <1>9, <1>10, <1>11, <1>12, <1>13,
     <1>14, <1>15, <1>16, <1>17, <1>18, <1>19, <1>20, <1>21, <1>22
     DEF Next, Ingest, commitLoop, Collect, sweepPhase

\* What is stored resolves after every step.
LEMMA StoreStep ==
    ASSUME Safe, Live, ~ raced', [Next]_vars
    PROVE  StoreOK'
<1>0. ASSUME UNCHANGED <<refs, series, dict>> PROVE StoreOK'
  BY <1>0 DEF StoreOK, Live
<1>1. ASSUME NEW e \in Exports, NEW v \in Values, Intern(e, v) PROVE StoreOK'
  BY <1>0, <1>1 DEF Intern, exportVars, regVars, cacheVars, commitVars, storeVars, gcVars
<1>2. ASSUME NEW e \in Exports, RegisterKnown(e) PROVE StoreOK'
  BY <1>0, <1>2
     DEF RegisterKnown, Decided, exportVars, regVars, cacheVars, commitVars, storeVars, gcVars
<1>3. ASSUME NEW e \in Exports, RegisterNew(e) PROVE StoreOK'
  BY <1>0, <1>3 DEF RegisterNew, exportVars, regVars, cacheVars, commitVars, storeVars, gcVars
<1>4. ASSUME NEW e \in Exports, CacheStore(e) PROVE StoreOK'
  BY <1>0, <1>4 DEF CacheStore, exportVars, regVars, cacheVars, commitVars, storeVars, gcVars
<1>5. ASSUME NEW B \in SUBSET Exports, Drain(B) PROVE StoreOK'
  BY <1>0, <1>5 DEF Drain, exportVars, regVars, cacheVars, commitVars, storeVars, gcVars
<1>6. CASE CommitGroup
  <2> USE DEF Safe, Live
  <2>1. /\ dict' = [i \in Ids |-> IF i \in drained THEN NameOf(i) ELSE dict[i]]
        /\ series' = series \cup seriesPending
        /\ refs' = refs \cup {held[e] : e \in batch} /\ commit = "drained"
    BY <1>6 DEF CommitGroup
  <2>2. refs' \subseteq series'
    BY <2>1 DEF StoreOK, BatchOK
  <2>3. \A v \in Values : v # None
    BY IdentityAssumption
  <2>4. \A i \in drained : NameOf(i) \in Values
    BY DEF NumbersOK, NameOf
  <2>5. ASSUME NEW i \in series PROVE dict'[i] # None
    BY <2>1, <2>3, <2>4 DEF StoreOK, TypeOK
  <2>6. ASSUME NEW i \in seriesPending PROVE dict'[i] # None
    <3>1. i \in Ids /\ i # 0
      BY DEF TypeOK, Ids
    <3>2. PICK v \in Values : cache[v] = i
      BY DEF UseOK, CacheIds
    <3>3. ids[v] = i
      BY <3>1, <3>2 DEF UseOK
    <3>4. i \in pending \/ dict[i] = v
      BY <2>1, <3>1, <3>3 DEF RegistrarOK, SweepOK, InBarrier
    <3>5. i \in pending => i \in drained
      BY <2>1 DEF BatchOK
    <3> QED BY <2>1, <2>3, <2>4, <3>1, <3>4, <3>5
  <2> QED BY <2>1, <2>2, <2>5, <2>6 DEF StoreOK
<1>7. CASE CommitGroupFails
  BY <1>0, <1>7
     DEF CommitGroupFails, exportVars, regVars, cacheVars, commitVars, storeVars, gcVars
<1>8. ASSUME NEW i \in Ids, PurgeBefore(i) PROVE StoreOK'
  BY <1>8 DEF PurgeBefore, StoreOK, Live
<1>9. CASE GCSnapshot
  BY <1>0, <1>9 DEF GCSnapshot, exportVars, regVars, cacheVars, commitVars, storeVars, gcVars
<1>10. CASE MarkSeries
  BY <1>0, <1>10
     DEF MarkSeries, seriesRoots, exportVars, regVars, cacheVars, commitVars, storeVars, gcVars
<1>11. CASE MarkRegistrar
  BY <1>0, <1>11 DEF MarkRegistrar, exportVars, regVars, cacheVars, commitVars, storeVars, gcVars
<1>12. CASE MarkCache
  BY <1>0, <1>12 DEF MarkCache, exportVars, regVars, cacheVars, commitVars, storeVars, gcVars
<1>13. CASE Revalidate
  BY <1>0, <1>13
     DEF Revalidate, seriesRoots, exportVars, regVars, cacheVars, commitVars, storeVars, gcVars
<1>14. CASE ClearTouched
  BY <1>0, <1>14 DEF ClearTouched, exportVars, regVars, cacheVars, commitVars, storeVars, gcVars
<1>15. CASE Fence
  BY <1>0, <1>15 DEF Fence, exportVars, regVars, cacheVars, commitVars, storeVars, gcVars
<1>16. CASE FenceCache
  BY <1>0, <1>16 DEF FenceCache, exportVars, regVars, cacheVars, commitVars, storeVars, gcVars
<1>17. CASE SweepIdentities
  <2> USE DEF Safe, Live
  <2>1. /\ refs \cap seriesCand = {} /\ dictCand \cap series \subseteq seriesCand
        /\ refs' = refs /\ series' = series \ seriesCand
        /\ dict' = [i \in Ids |-> IF i \in dictCand THEN None ELSE dict[i]]
    BY <1>17 DEF SweepIdentities, MarkOK
  <2> QED BY <2>1 DEF StoreOK, TypeOK
<1>18. CASE SweepFails
  BY <1>0, <1>18 DEF SweepFails, exportVars, regVars, cacheVars, commitVars, storeVars, gcVars
<1>19. CASE ForgetCache
  BY <1>0, <1>19 DEF ForgetCache, exportVars, regVars, cacheVars, commitVars, storeVars, gcVars
<1>20. CASE Forget
  BY <1>0, <1>20 DEF Forget, exportVars, regVars, cacheVars, commitVars, storeVars, gcVars
<1>21. CASE Crash
  BY <1>0, <1>21 DEF Crash, exportVars, regVars, cacheVars, commitVars, storeVars, gcVars
<1>22. CASE UNCHANGED vars
  BY <1>0, <1>22 DEF vars, exportVars, regVars, cacheVars, commitVars, storeVars, gcVars
<1> QED
  BY <1>1, <1>2, <1>3, <1>4, <1>5, <1>6, <1>7, <1>8, <1>9, <1>10, <1>11, <1>12, <1>13,
     <1>14, <1>15, <1>16, <1>17, <1>18, <1>19, <1>20, <1>21, <1>22
     DEF Next, Ingest, commitLoop, Collect, sweepPhase

\* What the mark established holds until the sweep.
LEMMA MarkStep ==
    ASSUME Safe, Live, ~ raced', [Next]_vars
    PROVE  MarkOK'
<1>0. ASSUME UNCHANGED <<gc, refs, snap, seriesTouched, series, cache, seriesCand, liveDict, dictCand, touched>>
      PROVE  MarkOK'
  BY <1>0 DEF MarkOK, CacheIds, InBarrier, Live
<1>1. ASSUME NEW e \in Exports, NEW v \in Values, Intern(e, v) PROVE MarkOK'
  BY <1>0, <1>1 DEF Intern, exportVars, regVars, cacheVars, commitVars, storeVars, gcVars
<1>2. ASSUME NEW e \in Exports, RegisterKnown(e) PROVE MarkOK'
  <2> USE DEF Safe, Live
  <2>1. UNCHANGED <<gc, refs, snap, seriesTouched, series, cache, seriesCand, liveDict, dictCand>>
        /\ CacheIds' = CacheIds
    BY <1>2
       DEF RegisterKnown, CacheIds, exportVars, regVars, cacheVars, commitVars, storeVars, gcVars
  <2>2. touched' = touched \/ (touched' = touched \cup {ids[value[e]]} /\ ids[value[e]] \notin fenced
                                /\ (Decided => ids[value[e]] \notin dictCand))
    BY <1>2 DEF RegisterKnown
  <2>3. InBarrier => dictCand \cap touched' = {}
    BY <2>2 DEF MarkOK, InBarrier, Decided, SweepOK
  <2>4. touched \subseteq touched'
    BY <2>2
  <2> QED BY <2>1, <2>3, <2>4 DEF MarkOK, InBarrier
<1>3. ASSUME NEW e \in Exports, RegisterNew(e) PROVE MarkOK'
  <2> USE DEF Safe, Live
  <2>1. UNCHANGED <<gc, refs, snap, seriesTouched, series, cache, seriesCand, liveDict, dictCand>>
        /\ CacheIds' = CacheIds /\ touched' = touched \cup {next}
    BY <1>3
       DEF RegisterNew, CacheIds, exportVars, regVars, cacheVars, commitVars, storeVars, gcVars
  <2>2. next \notin dictCand
    BY DEF NumbersOK, Named, TypeOK, Ids
  <2> QED BY <2>1, <2>2 DEF MarkOK, InBarrier
<1>4. ASSUME NEW e \in Exports, CacheStore(e) PROVE MarkOK'
  <2> USE DEF Safe, Live
  <2>1. UNCHANGED <<gc, refs, snap, seriesTouched, series, seriesCand, liveDict, dictCand, touched>>
        /\ cache' = [cache EXCEPT ![value[e]] = held[e]]
        /\ value[e] \in Values /\ held[e] = ids[value[e]] /\ held[e] \in touched
    BY <1>4
       DEF CacheStore, ExportsOK, UseOK, exportVars, regVars, cacheVars, commitVars, storeVars,
           gcVars
  <2>2. \A v \in Values : cache'[v] = IF v = value[e] THEN ids[v] ELSE cache[v]
    BY <2>1 DEF TypeOK
  <2>3. \A i \in Ids : i \in CacheIds => i \in CacheIds'
    <3> SUFFICES ASSUME NEW v \in Values, cache[v] \in Ids PROVE cache[v] = cache'[v]
      BY DEF CacheIds
    <3>1. cache[v] # 0
      BY DEF Ids
    <3> QED BY <2>2, <3>1 DEF UseOK
  <2>4. CacheIds' \subseteq CacheIds \cup touched
    BY <2>1, <2>2 DEF CacheIds
  <2>5. series \subseteq Ids /\ dictCand \subseteq Ids
    BY DEF TypeOK
  <2> HIDE DEF Safe
  <2> QED BY <2>1, <2>3, <2>4, <2>5 DEF MarkOK, InBarrier
<1>5. ASSUME NEW B \in SUBSET Exports, Drain(B) PROVE MarkOK'
  <2>1. UNCHANGED <<gc, refs, snap, series, cache, seriesCand, liveDict, dictCand, touched>>
        /\ seriesTouched \subseteq seriesTouched' /\ CacheIds' = CacheIds
    BY <1>5 DEF Drain, CacheIds, exportVars, regVars, cacheVars, commitVars, storeVars, gcVars
  <2> QED BY <2>1 DEF MarkOK, InBarrier, Live
<1>6. CASE CommitGroup
  <2> USE DEF Safe, Live
  <2>1. /\ UNCHANGED <<gc, snap, seriesTouched, cache, seriesCand, liveDict, dictCand, touched>>
        /\ CacheIds' = CacheIds
        /\ refs' = refs \cup {held[e] : e \in batch}
        /\ series' = series \cup seriesPending /\ ~ InBarrier /\ commit = "drained"
    BY <1>6
       DEF CommitGroup, CacheIds, SweepOK, exportVars, regVars, cacheVars, commitVars, storeVars,
           gcVars
  <2>2. refs' \subseteq refs \cup seriesTouched
    BY <2>1 DEF BatchOK
  <2>3. series' \subseteq series \cup CacheIds
    BY <2>1 DEF UseOK
  <2> HIDE DEF Safe
  <2> QED BY <2>1, <2>2, <2>3 DEF MarkOK, InBarrier
<1>7. CASE CommitGroupFails
  BY <1>0, <1>7
     DEF CommitGroupFails, exportVars, regVars, cacheVars, commitVars, storeVars, gcVars
<1>8. ASSUME NEW i \in Ids, PurgeBefore(i) PROVE MarkOK'
  <2>1. UNCHANGED <<gc, snap, seriesTouched, series, cache, seriesCand, liveDict, dictCand, touched>>
        /\ refs' \subseteq refs /\ CacheIds' = CacheIds
    BY <1>8
       DEF PurgeBefore, CacheIds, exportVars, regVars, cacheVars, commitVars, storeVars, gcVars
  <2> QED BY <2>1 DEF MarkOK, InBarrier, Live
<1>9. CASE GCSnapshot
  <2>1. gc' = "snapshot" /\ snap' = [refs |-> refs, series |-> series, dict |-> Rows(dict)]
        /\ UNCHANGED <<refs, series>>
    BY <1>9 DEF GCSnapshot, storeVars
  <2>2. refs' \subseteq snap'.refs /\ series' \subseteq snap'.series
    BY <2>1
  <2> QED BY <2>1, <2>2 DEF MarkOK, InBarrier
<1>10. CASE MarkSeries
  <2>1. UNCHANGED <<refs, snap, series, cache, seriesTouched>> /\ CacheIds' = CacheIds
        /\ gc = "snapshot" /\ gc' = "series"
        /\ liveDict' = snap.series \cap (snap.refs \cup seriesRoots)
        /\ seriesCand' = snap.series \ (snap.refs \cup seriesRoots)
    BY <1>10
       DEF MarkSeries, CacheIds, exportVars, regVars, cacheVars, commitVars, storeVars, gcVars
  <2>2. seriesTouched \subseteq seriesRoots
    BY DEF seriesRoots
  <2> QED BY <2>1, <2>2 DEF MarkOK, InBarrier, Live
<1>11. CASE MarkRegistrar
  <2>1. UNCHANGED <<refs, snap, series, cache, seriesTouched, seriesCand>> /\ CacheIds' = CacheIds
        /\ gc = "series" /\ gc' = "registrar" /\ liveDict \subseteq liveDict'
    BY <1>11
       DEF MarkRegistrar, CacheIds, exportVars, regVars, cacheVars, commitVars, storeVars, gcVars
  <2> QED BY <2>1 DEF MarkOK, InBarrier, Live
<1>12. CASE MarkCache
  <2>1. UNCHANGED <<refs, series, cache, seriesTouched, seriesCand, touched>> /\ CacheIds' = CacheIds
        /\ gc = "registrar" /\ gc' = "marked" /\ dictCand' = snap.dict \ (liveDict \cup CacheIds)
    BY <1>12
       DEF MarkCache, CacheIds, exportVars, regVars, cacheVars, commitVars, storeVars, gcVars
  <2> QED BY <2>1 DEF MarkOK, InBarrier, Live
<1>13. CASE Revalidate
  <2>1. UNCHANGED <<refs, series, touched>> /\ CacheIds' = CacheIds
        /\ gc = "marked" /\ gc' = "revalidated" /\ seriesCand' = seriesCand \ seriesRoots
        /\ dictCand' = dictCand \ (pending \cup touched \cup (seriesCand \cap seriesRoots))
    BY <1>13
       DEF Revalidate, CacheIds, exportVars, regVars, cacheVars, commitVars, storeVars, gcVars
  <2>2. seriesTouched \subseteq seriesRoots
    BY DEF seriesRoots
  <2> QED BY <2>1, <2>2 DEF MarkOK, InBarrier, Live
<1>14. CASE ClearTouched
  BY <1>14 DEF ClearTouched, MarkOK, InBarrier
<1>15. CASE Fence
  BY <1>15
     DEF Fence, exportVars, regVars, cacheVars, commitVars, storeVars, gcVars, MarkOK, CacheIds,
         InBarrier, Live
<1>16. CASE FenceCache
  BY <1>16
     DEF FenceCache, exportVars, regVars, cacheVars, commitVars, storeVars, gcVars, MarkOK,
         CacheIds, InBarrier, Live
<1>17. CASE SweepIdentities
  BY <1>17
     DEF SweepIdentities, exportVars, regVars, cacheVars, commitVars, storeVars, gcVars, MarkOK,
         CacheIds, InBarrier, Live
<1>18. CASE SweepFails
  BY <1>18 DEF SweepFails, MarkOK, InBarrier
<1>19. CASE ForgetCache
  <2>1. UNCHANGED <<touched, dictCand>> /\ gc = "swept" /\ gc' = "cacheForgotten"
    BY <1>19 DEF ForgetCache, exportVars, regVars, cacheVars, commitVars, storeVars, gcVars
  <2>2. \A v \in Values : cache[v] \notin dictCand
    BY <2>1 DEF MarkOK, CacheIds, InBarrier, Live
  <2>3. \A v \in Values : cache'[v] = cache[v]
    BY <1>19, <2>2 DEF ForgetCache
  <2>4. CacheIds' = CacheIds
    BY <2>3 DEF CacheIds
  <2> QED BY <2>1, <2>4 DEF MarkOK, InBarrier, Live
<1>20. CASE Forget
  BY <1>20 DEF Forget, MarkOK, InBarrier
<1>21. CASE Crash
  BY <1>21 DEF Crash, MarkOK, InBarrier
<1>22. CASE UNCHANGED vars
  BY <1>0, <1>22 DEF vars, exportVars, regVars, cacheVars, commitVars, storeVars, gcVars
<1> QED
  BY <1>1, <1>2, <1>3, <1>4, <1>5, <1>6, <1>7, <1>8, <1>9, <1>10, <1>11, <1>12, <1>13,
     <1>14, <1>15, <1>16, <1>17, <1>18, <1>19, <1>20, <1>21, <1>22
     DEF Next, Ingest, commitLoop, Collect, sweepPhase

-------------------------------------------------------------------------------
(* The theorems.                                                           *)

\* The invariant is inductive.
LEMMA IInvInductive ==
    /\ Init => IInv
    /\ IInv /\ [Next]_vars => IInv'
<1>1. Init => IInv
  <2> SUFFICES ASSUME Init PROVE IInv
    OBVIOUS
  <2>0. MaxId \in Nat /\ 1 \in 1 .. (MaxId + 1) /\ 0 \in 0 .. (MaxId + 1)
    BY IdentityAssumption
  <2>1. snap \in [refs : SUBSET Ids, series : SUBSET Ids, dict : SUBSET Ids] /\ snap.dict = {}
    BY DEF Init, NoSnap
  <2>2. TypeOK
    BY <2>0, <2>1 DEF Init, TypeOK
  <2>3. ExportsOK
    BY DEF Init, ExportsOK
  <2>4. NumbersOK
    BY <2>1 DEF Init, NumbersOK, Named
  <2>5. RegistrarOK
    BY DEF Init, RegistrarOK
  <2>6. SweepOK
    BY DEF Init, SweepOK, InBarrier
  <2>7. UseOK
    BY DEF Init, UseOK, CacheIds
  <2>8. BatchOK /\ StoreOK /\ MarkOK
    BY DEF Init, BatchOK, StoreOK, MarkOK, InBarrier
  <2> QED BY <2>2, <2>3, <2>4, <2>5, <2>6, <2>7, <2>8 DEF IInv
<1>2. ASSUME IInv, [Next]_vars PROVE IInv'
  <2>1. TypeOK /\ ExportsOK /\ NumbersOK /\ RegistrarOK /\ SweepOK
    BY <1>2 DEF IInv
  <2>2. TypeOK' /\ ExportsOK' /\ NumbersOK' /\ RegistrarOK' /\ SweepOK'
    BY <1>2, <2>1, TypeStep, ExportsStep, NumbersStep, RegistrarStep, SweepStep
  <2>3. ASSUME ~ raced' PROVE UseOK' /\ BatchOK' /\ StoreOK' /\ MarkOK'
    <3>1. ~ raced
      BY <1>2, <2>1, <2>3, RacedStays
    <3>2. Safe /\ Live
      BY <1>2, <2>1, <3>1 DEF IInv, Safe, Live
    <3> QED BY <1>2, <2>3, <3>2, UseStep, BatchStep, StoreStep, MarkStep
  <2> QED BY <2>2, <2>3 DEF IInv
<1> QED
  BY <1>1, <1>2

\* The registrar, the cache, the store and the collector keep their types: in
\* particular a restart reseeds the next ID within the IDs there are.
THEOREM IdentityTypes == Spec => []TypeOK
<1>1. IInv => TypeOK
  BY DEF IInv
<1> QED
  BY <1>1, IInvInductive, PTL DEF Spec

\* A number that was durable for one name is never durable for another, whatever
\* was swept and however often the process restarted.
THEOREM NumbersStayUnique == Spec => []IdsNeverReused
<1>1. IInv => IdsNeverReused
  BY DEF IInv, NumbersOK, IdsNeverReused, Rows
<1> QED
  BY <1>1, IInvInductive, PTL DEF Spec

\* Every reference resolves, unless an ID was handed out between the sweep's
\* decision and its fence or was still on its way to the cache when touched was
\* reset: no interleaving of commits, purges, marks, sweeps, failures and crashes
\* deletes the name of something kept.
THEOREM NamesOutliveReferences == Spec => []ReferencesResolve
<1>1. ASSUME IInv PROVE ReferencesResolve
  <2>1. gc = "idle" => fenced = {} /\ cacheFenced = {}
    BY <1>1 DEF IInv, SweepOK
  <2>2. ASSUME ~ raced, NEW e \in Exports, pc[e] = "committed", held[e] \in refs
        PROVE  dict[held[e]] = value[e]
    <3>1. held[e] \in Ids /\ named[held[e]] = value[e] /\ held[e] \in series
      BY <1>1, <2>2 DEF IInv, UseOK, StoreOK
    <3> QED BY <1>1, <2>2, <3>1 DEF IInv, StoreOK, NumbersOK
  <2> QED BY <1>1, <2>1, <2>2 DEF IInv, StoreOK, UseOK, ReferencesResolve
<1> QED
  BY <1>1, IInvInductive, PTL DEF Spec

===============================================================================
