---------------------------- MODULE StorageProofs -----------------------------
(***************************************************************************)
(* Proofs about the raw tier on disk (RawStorage), the schema migrations   *)
(* (Migrate) and the cold backup (Backup), for every value of their        *)
(* constants.                                                              *)
(***************************************************************************)
EXTENDS RawStorage, Migrate, Backup, TLAPS

-------------------------------------------------------------------------------
(* The raw tier: retention, partitions and the disk watchdog.              *)

Stages == {"idle", "traces", "logs", "orphans", "hot", "maintenance"}

\* Rows carry integer times; a pass has one set of cutoffs.
RsShapes ==
  /\ rsNow \in Int /\ rsInserted \in Nat
  /\ rsTraces \subseteq [key : RsKeys, at : Int]
  /\ rsSpans \subseteq [key : RsKeys, at : Int, n : Int]
  /\ rsRows \in [AgedTables -> SUBSET [at : Int, n : Int]]
  /\ rsPc \in [Callers -> Stages]
  /\ rsCut \in [exemplar : Int, hot : Int]

\* The CAS on running lets one pass in at a time, so its cutoffs are its own:
\* they are not after the clock less the retention, however long it takes.
OnePass ==
  /\ \A c \in Callers : rsPc[c] # "idle" =>
       rsRunning /\ \A d \in Callers \ {c} : rsPc[d] = "idle"
  /\ \A c \in Callers : rsPc[c] \in {"traces", "logs", "orphans"} =>
       RsExemplar > 0 /\ rsCut.exemplar <= rsNow - RsExemplar
  /\ \A c \in Callers : rsPc[c] \in {"traces", "logs", "orphans", "hot"} =>
       rsCut.hot <= rsNow - RsRetention

\* A batch holds nothing but candidates.
LEMMA BatchesWithin == \A rows : \A b \in Batches(rows) : b \subseteq rows
BY DEF Batches

\* Expired rows are rows, and older than the cutoff; so are expired orphans, which
\* have no trace.
LEMMA ExpiredAre ==
  /\ \A rows, cut : Expired(rows, cut) \subseteq rows /\ \A r \in Expired(rows, cut) : r.at < cut
  /\ \A spans, traces, cut :
       /\ ExpiredOrphans(spans, traces, cut) \subseteq spans
       /\ \A s \in ExpiredOrphans(spans, traces, cut) : s.at < cut /\ ~ HasTrace(s, traces)
BY DEF Expired, ExpiredOrphans

\* A row of a partition that may be dropped is before the cutoff.
LEMMA PartitionsExpire ==
  ASSUME NEW at \in Int, NEW cut \in Int, Upper(Day(at)) <= cut
  PROVE  at < cut
<1>1. Day(at) \in Int /\ at < (Day(at) + 1) * RsTicksPerDay
  BY RsAssumption DEF Day
<1>2. (Day(at) + 1) * RsTicksPerDay \in Int
  BY <1>1, RsAssumption
<1> QED
  BY <1>1, <1>2 DEF Upper

\* Every step keeps the shapes.
LEMMA RsShapesStep ==
  ASSUME RsShapes, RsNext
  PROVE  RsShapes'
<1> USE DEF RsShapes, rsRowVars, rsRetVars
<1>0. RsRetention \in Int /\ RsExemplar \in Int
  BY RsAssumption
<1>b. ASSUME NEW c \in Callers, BeginPass(c)
      PROVE  rsPc' \in [Callers -> Stages] /\ rsCut' \in [exemplar : Int, hot : Int]
  BY <1>0, <1>b DEF BeginPass, ExemplarStage, Stages
<1>e. ASSUME NEW c \in Callers, EndPass(c)
      PROVE  rsPc' \in [Callers -> Stages] /\ rsCut' \in [exemplar : Int, hot : Int]
  BY <1>e DEF EndPass, Stages
<1>a. ASSUME NEW c \in Callers, AfterExemplars(c)
      PROVE  rsPc' \in [Callers -> Stages] /\ rsCut' \in [exemplar : Int, hot : Int]
  BY <1>a, <1>e DEF AfterExemplars, Stages
<1>s. ASSUME NEW c \in Callers, NEW next \in Stages, NEW again, Stays(c, next, again)
      PROVE  rsPc' \in [Callers -> Stages] /\ rsCut' = rsCut
  BY <1>s DEF Stays
<1>l. "logs" \in AgedTables /\ "loop" \in Callers /\ "watchdog" \in Callers
  BY DEF AgedTables, Callers
<1>t. \A at \in Stamps : at \in Int
  BY DEF Stamps
<1>1. ASSUME NEW k \in RsKeys, NEW at \in Stamps, BatchCreateAll(k, at) PROVE RsShapes'
  <2>1. rsTraces' \subseteq [key : RsKeys, at : Int]
    BY <1>1, <1>t DEF BatchCreateAll, UpsertTrace
  <2>2. rsSpans' \subseteq [key : RsKeys, at : Int, n : Int]
    BY <1>1, <1>t DEF BatchCreateAll
  <2>3. rsRows' \in [AgedTables -> SUBSET [at : Int, n : Int]]
    BY <1>1, <1>t, <1>l DEF BatchCreateAll
  <2> QED
    BY <1>1, <2>1, <2>2, <2>3 DEF BatchCreateAll, Inserted
<1>2. ASSUME NEW k \in RsKeys, NEW at \in Stamps, BatchCreateSpans(k, at) PROVE RsShapes'
  BY <1>2, <1>t DEF BatchCreateSpans, Inserted
<1>3. ASSUME NEW k \in AgedTables \ {"logs"}, NEW at \in Stamps, BatchCreateMetrics(k, at)
      PROVE  RsShapes'
  BY <1>3, <1>t DEF BatchCreateMetrics, Inserted
<1>4. CASE RunPurge
  BY <1>4, <1>b, <1>l DEF RunPurge
<1>5. CASE RunMaintenance
  BY <1>5, <1>l DEF RunMaintenance, Stages
<1>6. CASE MaintenanceEnds
  BY <1>6, <1>e, <1>l DEF MaintenanceEnds
<1>7. ASSUME NEW c \in Callers, ExemplarPurgeFails(c) PROVE RsShapes'
  BY <1>7, <1>a DEF ExemplarPurgeFails
<1>8. ASSUME NEW c \in Callers, PurgeExemplarTraces(c) PROVE RsShapes'
  <2>1. PICK ts, ss : rsTraces' = rsTraces \ ts /\ rsSpans' = rsSpans \ ss
                      /\ Stays(c, "logs", Full(ts) \/ Full(ss))
    BY <1>8 DEF PurgeExemplarTraces
  <2>2. rsPc' \in [Callers -> Stages] /\ rsCut' = rsCut
    BY <2>1, <1>s DEF Stages
  <2> QED
    BY <1>8, <2>1, <2>2 DEF PurgeExemplarTraces
<1>9. ASSUME NEW c \in Callers, PurgeExemplarLogs(c) PROVE RsShapes'
  <2>1. PICK ls : rsRows' = [rsRows EXCEPT !["logs"] = @ \ ls] /\ Stays(c, "orphans", Full(ls))
    BY <1>9 DEF PurgeExemplarLogs
  <2>2. rsPc' \in [Callers -> Stages] /\ rsCut' = rsCut
    BY <2>1, <1>s DEF Stages
  <2> QED
    BY <1>9, <1>l, <2>1, <2>2 DEF PurgeExemplarLogs
<1>10. ASSUME NEW c \in Callers, PurgeExemplarOrphans(c) PROVE RsShapes'
  <2>1. PICK ss : /\ rsSpans' = rsSpans \ ss
                  /\ IF Full(ss) THEN Stays(c, "orphans", TRUE) ELSE AfterExemplars(c)
    BY <1>10 DEF PurgeExemplarOrphans
  <2>2. rsPc' \in [Callers -> Stages] /\ rsCut' \in [exemplar : Int, hot : Int]
    BY <2>1, <1>s, <1>a DEF Stages
  <2> QED
    BY <1>10, <2>1, <2>2 DEF PurgeExemplarOrphans
<1>11. ASSUME NEW k \in Jobs, JobFails(k) PROVE RsShapes'
  BY <1>11 DEF JobFails
<1>12. ASSUME NEW k \in AgedTables, PurgeAged(k) PROVE RsShapes'
  <2>1. PICK gone : rsRows' = [rsRows EXCEPT ![k] = @ \ gone]
    BY <1>12 DEF PurgeAged
  <2> QED
    BY <1>12, <2>1 DEF PurgeAged
<1>13. CASE PurgeTraces
  BY <1>13 DEF PurgeTraces
<1>14. CASE PurgeEnds
  BY <1>14, <1>e, <1>l DEF PurgeEnds
<1>15. CASE StopRetention
  BY <1>15 DEF StopRetention
<1>16. CASE EnsureLookahead
  BY <1>16 DEF EnsureLookahead
<1>17. CASE DropExpired
  <2>1. PICK gone : rsRows' = [rsRows EXCEPT !["logs"] = {r \in @ : Day(r.at) \notin gone}]
    BY <1>17 DEF DropExpired
  <2>2. rsRows' \in [AgedTables -> SUBSET [at : Int, n : Int]]
    BY <1>l, <2>1
  <2> QED
    BY <1>17, <2>2 DEF DropExpired
<1>18. ASSUME NEW v \in RsVolumes, NEW u \in RsUsages, NEW f \in BOOLEAN, Sample(v, u, f)
       PROVE  RsShapes'
  BY <1>18, <1>b, <1>l DEF Sample
<1>19. CASE RsTick
  BY <1>19 DEF RsTick
<1> QED
  BY <1>1, <1>2, <1>3, <1>4, <1>5, <1>6, <1>7, <1>8, <1>9, <1>10, <1>11, <1>12, <1>13, <1>14,
     <1>15, <1>16, <1>17, <1>18, <1>19
     DEF RsNext

\* Every step keeps passes apart and their cutoffs behind the clock.
LEMMA OnePassStep ==
  ASSUME RsShapes, OnePass, RsNext
  PROVE  OnePass'
<1> USE DEF OnePass, RsShapes, rsRetVars
<1>0. RsRetention \in Int /\ RsExemplar \in Int
  BY RsAssumption
<1>l. "loop" \in Callers /\ "watchdog" \in Callers
  BY DEF Callers
<1>q. ASSUME UNCHANGED <<rsRunning, rsPc, rsCut, rsNow>> PROVE OnePass'
  BY <1>q
<1>b. ASSUME NEW c \in Callers, ~rsRunning, BeginPass(c), UNCHANGED rsNow PROVE OnePass'
  <2>1. \A d \in Callers : rsPc[d] = "idle"
    BY <1>b
  <2>2. \A d \in Callers : rsPc'[d] = IF d = c THEN ExemplarStage ELSE "idle"
    BY <1>b, <2>1 DEF BeginPass
  <2>3. rsCut'.exemplar = rsNow - RsExemplar /\ rsCut'.hot = rsNow - RsRetention /\ rsRunning'
    BY <1>b DEF BeginPass
  <2> QED
    BY <1>0, <1>b, <2>2, <2>3 DEF ExemplarStage
<1>e. ASSUME NEW c \in Callers, rsPc[c] # "idle", EndPass(c) PROVE OnePass'
  <2>1. \A d \in Callers : rsPc'[d] = "idle"
    BY <1>e DEF EndPass
  <2> QED
    BY <2>1
<1>m. ASSUME NEW c \in Callers, NEW next \in {"logs", "orphans", "hot"},
             rsPc[c] \in {"traces", "logs", "orphans"},
             rsPc' = [rsPc EXCEPT ![c] = next], UNCHANGED <<rsRunning, rsCut, rsNow>>
      PROVE  OnePass'
  <2>1. rsPc'[c] = next /\ \A d \in Callers \ {c} : rsPc'[d] = "idle"
    BY <1>m
  <2> QED
    BY <1>m, <2>1
<1>s. ASSUME NEW c \in Callers, NEW next \in {"logs", "orphans"}, NEW again,
             rsPc[c] \in {"traces", "logs", "orphans"}, Stays(c, next, again), UNCHANGED rsNow
      PROVE  OnePass'
  <2>1. CASE again
    <3>1. rsPc' = rsPc
      BY <1>s, <2>1 DEF Stays
    <3> QED
      BY <1>q, <1>s, <3>1 DEF Stays
  <2>2. CASE ~again
    BY <1>m, <1>s, <2>2 DEF Stays
  <2> QED
    BY <2>1, <2>2
<1>a. ASSUME NEW c \in Callers, rsPc[c] \in {"traces", "logs", "orphans"}, AfterExemplars(c),
             UNCHANGED rsNow
      PROVE  OnePass'
  BY <1>a, <1>e, <1>m DEF AfterExemplars
<1>1. ASSUME NEW k \in RsKeys, NEW at \in Stamps, BatchCreateAll(k, at) PROVE OnePass'
  BY <1>1, <1>q DEF BatchCreateAll
<1>2. ASSUME NEW k \in RsKeys, NEW at \in Stamps, BatchCreateSpans(k, at) PROVE OnePass'
  BY <1>2, <1>q DEF BatchCreateSpans
<1>3. ASSUME NEW k \in AgedTables \ {"logs"}, NEW at \in Stamps, BatchCreateMetrics(k, at)
      PROVE  OnePass'
  BY <1>3, <1>q DEF BatchCreateMetrics
<1>4. CASE RunPurge
  BY <1>4, <1>b, <1>l DEF RunPurge
<1>5. CASE RunMaintenance
  <2>1. \A d \in Callers : rsPc[d] = "idle"
    BY <1>5 DEF RunMaintenance
  <2>2. \A d \in Callers : rsPc'[d] = IF d = "loop" THEN "maintenance" ELSE "idle"
    BY <1>5, <2>1 DEF RunMaintenance
  <2> QED
    BY <1>5, <2>2 DEF RunMaintenance
<1>6. CASE MaintenanceEnds
  BY <1>6, <1>e, <1>l DEF MaintenanceEnds
<1>7. ASSUME NEW c \in Callers, ExemplarPurgeFails(c) PROVE OnePass'
  BY <1>7, <1>a DEF ExemplarPurgeFails
<1>8. ASSUME NEW c \in Callers, PurgeExemplarTraces(c) PROVE OnePass'
  <2>1. PICK again : Stays(c, "logs", again)
    BY <1>8 DEF PurgeExemplarTraces
  <2> QED
    BY <1>8, <1>s, <2>1 DEF PurgeExemplarTraces
<1>9. ASSUME NEW c \in Callers, PurgeExemplarLogs(c) PROVE OnePass'
  <2>1. PICK again : Stays(c, "orphans", again)
    BY <1>9 DEF PurgeExemplarLogs
  <2> QED
    BY <1>9, <1>s, <2>1 DEF PurgeExemplarLogs
<1>10. ASSUME NEW c \in Callers, PurgeExemplarOrphans(c) PROVE OnePass'
  <2>1. CASE \E again : Stays(c, "orphans", again)
    <3>1. PICK again : Stays(c, "orphans", again)
      BY <2>1
    <3> QED
      BY <1>10, <1>s, <3>1 DEF PurgeExemplarOrphans
  <2>2. CASE AfterExemplars(c)
    BY <1>10, <1>a, <2>2 DEF PurgeExemplarOrphans
  <2> QED
    BY <1>10, <2>1, <2>2 DEF PurgeExemplarOrphans
<1>11. ASSUME NEW k \in Jobs, JobFails(k) PROVE OnePass'
  BY <1>11, <1>q DEF JobFails
<1>12. ASSUME NEW k \in AgedTables, PurgeAged(k) PROVE OnePass'
  BY <1>12, <1>q DEF PurgeAged
<1>13. CASE PurgeTraces
  BY <1>13, <1>q DEF PurgeTraces
<1>14. CASE PurgeEnds
  BY <1>14, <1>e, <1>l DEF PurgeEnds
<1>15. CASE StopRetention
  BY <1>15, <1>q DEF StopRetention
<1>16. CASE EnsureLookahead
  BY <1>16, <1>q DEF EnsureLookahead
<1>17. CASE DropExpired
  BY <1>17, <1>q DEF DropExpired
<1>18. ASSUME NEW v \in RsVolumes, NEW u \in RsUsages, NEW f \in BOOLEAN, Sample(v, u, f)
       PROVE  OnePass'
  BY <1>18, <1>b, <1>q, <1>l DEF Sample
<1>19. CASE RsTick
  <2>1. rsNow' = rsNow + 1 /\ UNCHANGED <<rsRunning, rsPc, rsCut>>
    BY <1>19 DEF RsTick
  <2> QED
    BY <1>0, <2>1
<1> QED
  BY <1>1, <1>2, <1>3, <1>4, <1>5, <1>6, <1>7, <1>8, <1>9, <1>10, <1>11, <1>12, <1>13, <1>14,
     <1>15, <1>16, <1>17, <1>18, <1>19
     DEF RsNext

\* Every step removes only what has expired.
LEMMA StepsOnlyExpire ==
  ASSUME RsShapes, OnePass, RsNext
  PROVE  GoneWereExpired
<1> DEFINE keep == rsNow - (IF RsExemplar > 0 THEN RsExemplar ELSE RsRetention)
<1>0. keep \in Int /\ rsNow - RsRetention \in Int /\ rsNow - RsRetention <= keep
  BY RsAssumption DEF RsShapes
<1>l. "logs" \in AgedTables /\ "loop" \in Callers
  BY DEF AgedTables, Callers
<1>q. ASSUME \A t \in rsTraces : HasTrace(t, rsTraces'), rsSpans \subseteq rsSpans',
             \A k \in AgedTables : rsRows[k] \subseteq rsRows'[k]
      PROVE  GoneWereExpired
  BY <1>q DEF GoneWereExpired, AgedTables
<1>h. \A t \in rsTraces : \A ts : rsTraces \subseteq ts => HasTrace(t, ts)
  BY DEF HasTrace
<1>u. ASSUME UNCHANGED rsRowVars PROVE GoneWereExpired
  BY <1>u, <1>q, <1>h DEF rsRowVars
<1>t. ASSUME NEW cut \in Int, cut <= keep, NEW ts, ts \subseteq Expired(rsTraces, cut),
             rsTraces' = rsTraces \ ts, NEW ss,
             ss \subseteq ExpiredOrphans(rsSpans, rsTraces', cut), rsSpans' = rsSpans \ ss,
             UNCHANGED rsRows
      PROVE  GoneWereExpired
  <2>1. ASSUME NEW t \in rsTraces PROVE HasTrace(t, rsTraces') \/ t.at < keep
    <3>1. CASE t \in ts
      <4>1. t.at < cut /\ t.at \in Int
        BY <1>t, <3>1, ExpiredAre DEF RsShapes
      <4> QED
        BY <1>0, <1>t, <4>1
    <3>2. CASE t \notin ts
      BY <1>t, <3>2 DEF HasTrace
    <3> QED
      BY <3>1, <3>2
  <2>2. ASSUME NEW s \in rsSpans \ rsSpans' PROVE s.at < keep /\ ~ HasTrace(s, rsTraces')
    <3>1. s.at < cut /\ s.at \in Int /\ ~ HasTrace(s, rsTraces')
      BY <1>t, ExpiredAre DEF RsShapes
    <3> QED
      BY <1>0, <1>t, <3>1
  <2> QED
    BY <1>t, <2>1, <2>2 DEF GoneWereExpired
<1>r. ASSUME NEW cut \in Int, NEW k \in AgedTables, NEW b, b \subseteq Expired(rsRows[k], cut),
             cut <= keep, k # "logs" => cut <= rsNow - RsRetention,
             rsRows' = [rsRows EXCEPT ![k] = @ \ b], UNCHANGED <<rsTraces, rsSpans>>
      PROVE  GoneWereExpired
  <2>1. ASSUME NEW r \in rsRows[k] \ rsRows'[k]
        PROVE  r.at < keep /\ (k # "logs" => r.at < rsNow - RsRetention)
    <3>1. r.at < cut /\ r.at \in Int
      BY <1>r, ExpiredAre DEF RsShapes
    <3> QED
      BY <1>0, <1>r, <3>1
  <2>2. \A j \in AgedTables \ {k} : rsRows'[j] = rsRows[j]
    BY <1>r DEF RsShapes
  <2> QED
    BY <1>r, <1>h, <2>1, <2>2 DEF GoneWereExpired, AgedTables
<1>c. /\ rsCut.exemplar \in Int /\ rsCut.hot \in Int
      /\ \A c \in Callers : rsPc[c] \in {"traces", "logs", "orphans"} => rsCut.exemplar <= keep
      /\ rsPc["loop"] = "hot" => rsCut.hot <= keep /\ rsCut.hot <= rsNow - RsRetention
  <2>1. rsCut.exemplar \in Int /\ rsCut.hot \in Int
    BY DEF RsShapes
  <2> QED
    BY <1>0, <1>l, <2>1, RsAssumption DEF OnePass
<1> HIDE DEF keep
<1>1. ASSUME NEW k \in RsKeys, NEW at \in Stamps, BatchCreateAll(k, at) PROVE GoneWereExpired
  <2>1. \A t \in rsTraces : HasTrace(t, rsTraces')
    BY <1>1, <1>h DEF BatchCreateAll, UpsertTrace
  <2>2. \A j \in AgedTables : rsRows[j] \subseteq rsRows'[j]
    BY <1>1, <1>l DEF BatchCreateAll, RsShapes
  <2> QED
    BY <1>1, <1>q, <2>1, <2>2 DEF BatchCreateAll
<1>2. ASSUME NEW k \in RsKeys, NEW at \in Stamps, BatchCreateSpans(k, at) PROVE GoneWereExpired
  BY <1>2, <1>q, <1>h DEF BatchCreateSpans
<1>3. ASSUME NEW k \in AgedTables \ {"logs"}, NEW at \in Stamps, BatchCreateMetrics(k, at)
      PROVE  GoneWereExpired
  <2>2. \A j \in AgedTables : rsRows[j] \subseteq rsRows'[j]
    BY <1>3 DEF BatchCreateMetrics, RsShapes
  <2> QED
    BY <1>3, <1>q, <1>h, <2>2 DEF BatchCreateMetrics
<1>4. CASE RunPurge
  BY <1>4, <1>u DEF RunPurge
<1>5. CASE RunMaintenance
  BY <1>5, <1>u DEF RunMaintenance
<1>6. CASE MaintenanceEnds
  BY <1>6, <1>u DEF MaintenanceEnds
<1>7. ASSUME NEW c \in Callers, ExemplarPurgeFails(c) PROVE GoneWereExpired
  BY <1>7, <1>u DEF ExemplarPurgeFails
<1>8. ASSUME NEW c \in Callers, PurgeExemplarTraces(c) PROVE GoneWereExpired
  <2>1. PICK ts \in Batches(Expired(rsTraces, rsCut.exemplar)) :
          /\ rsTraces' = rsTraces \ ts
          /\ \E ss \in Batches(ExpiredOrphans(rsSpans, rsTraces', rsCut.exemplar)) :
               rsSpans' = rsSpans \ ss
    BY <1>8 DEF PurgeExemplarTraces
  <2>2. PICK ss \in Batches(ExpiredOrphans(rsSpans, rsTraces', rsCut.exemplar)) :
          rsSpans' = rsSpans \ ss
    BY <2>1
  <2>3. /\ ts \subseteq Expired(rsTraces, rsCut.exemplar)
        /\ ss \subseteq ExpiredOrphans(rsSpans, rsTraces', rsCut.exemplar)
    BY BatchesWithin
  <2> QED
    BY <1>8, <1>c, <1>t, <2>1, <2>2, <2>3 DEF PurgeExemplarTraces
<1>9. ASSUME NEW c \in Callers, PurgeExemplarLogs(c) PROVE GoneWereExpired
  <2>1. PICK ls \in Batches(Expired(rsRows["logs"], rsCut.exemplar)) :
          rsRows' = [rsRows EXCEPT !["logs"] = @ \ ls]
    BY <1>9 DEF PurgeExemplarLogs
  <2>2. ls \subseteq Expired(rsRows["logs"], rsCut.exemplar)
    BY BatchesWithin
  <2> QED
    BY <1>9, <1>c, <1>l, <1>r, <2>1, <2>2 DEF PurgeExemplarLogs
<1>10. ASSUME NEW c \in Callers, PurgeExemplarOrphans(c) PROVE GoneWereExpired
  <2>1. PICK ss \in Batches(ExpiredOrphans(rsSpans, rsTraces, rsCut.exemplar)) :
          rsSpans' = rsSpans \ ss
    BY <1>10 DEF PurgeExemplarOrphans
  <2>2. ss \subseteq ExpiredOrphans(rsSpans, rsTraces', rsCut.exemplar) /\ rsTraces' = rsTraces \ {}
    BY <1>10, BatchesWithin DEF PurgeExemplarOrphans
  <2>3. {} \subseteq Expired(rsTraces, rsCut.exemplar)
    OBVIOUS
  <2> QED
    BY <1>10, <1>c, <1>t, <2>1, <2>2, <2>3 DEF PurgeExemplarOrphans
<1>11. ASSUME NEW k \in Jobs, JobFails(k) PROVE GoneWereExpired
  BY <1>11, <1>u DEF JobFails
<1>12. ASSUME NEW k \in AgedTables, PurgeAged(k) PROVE GoneWereExpired
  <2>1. PICK gone \in AgedBatches(k) : rsRows' = [rsRows EXCEPT ![k] = @ \ gone]
    BY <1>12 DEF PurgeAged
  <2>2. gone \subseteq Expired(rsRows[k], rsCut.hot)
    BY <2>1, BatchesWithin DEF AgedBatches
  <2> QED
    BY <1>12, <1>c, <1>r, <2>1, <2>2 DEF PurgeAged, JobTurn
<1>13. CASE PurgeTraces
  <2>1. CASE rsJobs["traces"] = "todo" /\ UNCHANGED rsSpans /\
             \E ts \in Batches(Expired(rsTraces, rsCut.hot)) : rsTraces' = rsTraces \ ts
    <3>1. PICK ts \in Batches(Expired(rsTraces, rsCut.hot)) : rsTraces' = rsTraces \ ts
      BY <2>1
    <3>2. ts \subseteq Expired(rsTraces, rsCut.hot) /\ rsSpans' = rsSpans \ {}
      BY <2>1, BatchesWithin
    <3>3. {} \subseteq ExpiredOrphans(rsSpans, rsTraces', rsCut.hot)
      OBVIOUS
    <3> QED
      BY <1>13, <1>c, <1>t, <3>1, <3>2, <3>3 DEF PurgeTraces, JobTurn
  <2>2. CASE UNCHANGED rsTraces /\
             \E ss \in Batches(ExpiredOrphans(rsSpans, rsTraces, rsCut.hot)) :
               rsSpans' = rsSpans \ ss
    <3>1. PICK ss \in Batches(ExpiredOrphans(rsSpans, rsTraces, rsCut.hot)) :
                 rsSpans' = rsSpans \ ss
      BY <2>2
    <3>2. ss \subseteq ExpiredOrphans(rsSpans, rsTraces', rsCut.hot) /\ rsTraces' = rsTraces \ {}
      BY <2>2, BatchesWithin
    <3>3. {} \subseteq Expired(rsTraces, rsCut.hot)
      OBVIOUS
    <3> QED
      BY <1>13, <1>c, <1>t, <3>1, <3>2, <3>3 DEF PurgeTraces, JobTurn
  <2> QED
    BY <1>13, <2>1, <2>2 DEF PurgeTraces
<1>14. CASE PurgeEnds
  BY <1>14, <1>u DEF PurgeEnds
<1>15. CASE StopRetention
  BY <1>15, <1>u DEF StopRetention
<1>16. CASE EnsureLookahead
  BY <1>16, <1>q, <1>h DEF EnsureLookahead
<1>17. CASE DropExpired
  <2>1. PICK gone \in SUBSET Droppable(rsNow - RsRetention) :
          rsRows' = [rsRows EXCEPT !["logs"] = {r \in @ : Day(r.at) \notin gone}]
    BY <1>17 DEF DropExpired
  <2>2. ASSUME NEW r \in rsRows["logs"] \ rsRows'["logs"] PROVE r.at < keep
    <3>1. r.at \in Int /\ Day(r.at) \in gone
      BY <1>l, <2>1 DEF RsShapes
    <3>2. Upper(Day(r.at)) <= rsNow - RsRetention
      BY <3>1 DEF Droppable
    <3>3. r.at < rsNow - RsRetention
      BY <1>0, <3>1, <3>2, PartitionsExpire
    <3> QED
      BY <1>0, <3>1, <3>3
  <2>3. \A j \in AgedTables \ {"logs"} : rsRows'[j] = rsRows[j]
    BY <1>l, <2>1 DEF RsShapes
  <2> QED
    BY <1>17, <1>h, <2>2, <2>3 DEF DropExpired, GoneWereExpired, AgedTables, keep
<1>18. ASSUME NEW v \in RsVolumes, NEW u \in RsUsages, NEW f \in BOOLEAN, Sample(v, u, f)
       PROVE  GoneWereExpired
  BY <1>18, <1>u DEF Sample
<1>19. CASE RsTick
  BY <1>19, <1>u DEF RsTick
<1> QED
  BY <1>1, <1>2, <1>3, <1>4, <1>5, <1>6, <1>7, <1>8, <1>9, <1>10, <1>11, <1>12, <1>13, <1>14,
     <1>15, <1>16, <1>17, <1>18, <1>19
     DEF RsNext

\* The ladder rests at the state its last ratio keeps, and the observers know it.
LadderRests ==
  /\ rsShed \in 0 .. 2 /\ rsRatio \in Int /\ rsUsed \in Nat
  /\ rsObserved = rsShed /\ rsShed = NextState(rsShed, rsRatio)

\* The ladder has three rungs, a second look at the same ratio moves nothing, and
\* from a rung at rest a ratio that is not lower never leads down.
LEMMA LadderSteps ==
  ASSUME NEW cur \in 0 .. 2, NEW ratio \in Int
  PROVE  /\ NextState(cur, ratio) \in 0 .. 2
         /\ NextState(NextState(cur, ratio), ratio) = NextState(cur, ratio)
         /\ \A old \in Int : cur = NextState(cur, old) /\ old <= ratio
              => NextState(cur, ratio) >= cur
BY DEF NextState

\* The pressure is a whole percentage.
LEMMA PressureIsInt ==
  ASSUME NEW v \in RsVolumes, NEW used \in Nat
  PROVE  Pressure(v, used) \in Int
<1>1. v.total \in Nat /\ v.avail \in Nat /\ Ceiling(v) \in Int
  BY RsAssumption DEF Ceiling
<1>2. CASE Ceiling(v) <= 0
  BY <1>2 DEF Pressure
<1>3. CASE Ceiling(v) > 0
  <2>1. (100 * used) \div Ceiling(v) \in Int /\ (100 * v.avail) \div Ceiling(v) \in Int
    BY <1>1, <1>3
  <2> QED
    BY <1>1, <1>3, <2>1 DEF Pressure, Larger
<1> QED
  BY <1>1, <1>2, <1>3

\* A sample keeps the ladder at rest; one that failed to walk never relaxes it.
LEMMA SampleRests ==
  ASSUME LadderRests, NEW v \in RsVolumes, NEW u \in RsUsages, NEW f \in BOOLEAN, Sample(v, u, f)
  PROVE  LadderRests' /\ (f => rsShed' >= rsShed)
<1>1. u \in Nat /\ rsUsed' \in Nat
  BY RsAssumption DEF Sample, LadderRests
<1>2. rsRatio' \in Int /\ (f => rsRatio <= rsRatio')
  BY <1>1, PressureIsInt DEF Sample, SampledRatio, Larger, LadderRests
<1>3. rsShed' = NextState(rsShed, rsRatio')
  BY DEF Sample
<1>4. rsShed' \in 0 .. 2 /\ rsShed' = NextState(rsShed', rsRatio')
  BY <1>2, <1>3, LadderSteps DEF LadderRests
<1>5. f => rsShed' >= rsShed
  BY <1>2, <1>3, LadderSteps DEF LadderRests
<1>6. rsObserved' = rsShed'
  BY DEF Sample, LadderRests
<1> QED
  BY <1>1, <1>2, <1>4, <1>5, <1>6 DEF LadderRests

\* Only a sample moves the ladder.
LEMMA LadderStep ==
  ASSUME LadderRests, RsNext
  PROVE  LadderRests' /\ LadderHolds
<1>1. \/ UNCHANGED rsDiskVars
      \/ \E v \in RsVolumes, u \in RsUsages, f \in BOOLEAN : Sample(v, u, f)
  BY DEF RsNext, BatchCreateAll, BatchCreateSpans, BatchCreateMetrics, RunPurge,
         RunMaintenance, MaintenanceEnds, ExemplarPurgeFails, PurgeExemplarTraces,
         PurgeExemplarLogs, PurgeExemplarOrphans, JobFails, PurgeAged, PurgeTraces,
         PurgeEnds, StopRetention, EnsureLookahead, DropExpired, RsTick
<1>2. LadderRests'
  <2>1. CASE UNCHANGED rsDiskVars
    BY <2>1 DEF LadderRests, rsDiskVars
  <2> QED
    BY <1>1, <2>1, SampleRests
<1>3. (\E v \in RsVolumes, u \in RsUsages : Sample(v, u, TRUE)) => rsShed' >= rsShed
  <2> SUFFICES ASSUME NEW v \in RsVolumes, NEW u \in RsUsages, Sample(v, u, TRUE)
               PROVE  rsShed' >= rsShed
    OBVIOUS
  <2>1. PICK f \in BOOLEAN : f /\ Sample(v, u, f)
    BY Zenon
  <2> QED
    BY <2>1, SampleRests
<1> QED
  BY <1>2, <1>3 DEF LadderHolds, LadderRests

(***************************************************************************)
(* OnlyExpiredGo: whatever interleaving of the scheduler, the watchdog's   *)
(* callback, the partition drops and the writers, on every driver, nothing *)
(* within its retention is deleted, and no span whose trace is still there.*)
(***************************************************************************)
THEOREM RetentionDeletesOnlyExpired == RsSpec => OnlyExpiredGo
<1>1. RsInit => RsShapes /\ OnePass
  BY RsAssumption DEF RsInit, RsInitOn, RsShapes, OnePass, Stages, AgedTables, Callers
<1>2. RsShapes /\ OnePass /\ [RsNext]_rsVars => (RsShapes /\ OnePass)'
  <2>1. CASE RsNext
    BY <2>1, RsShapesStep, OnePassStep
  <2>2. CASE UNCHANGED rsVars
    BY <2>2 DEF rsVars, rsRowVars, rsRetVars, RsShapes, OnePass
  <2> QED
    BY <2>1, <2>2
<1>3. RsShapes /\ OnePass /\ [RsNext]_rsVars => [GoneWereExpired]_rsVars
  BY StepsOnlyExpire
<1> QED
  BY <1>1, <1>2, <1>3, PTL DEF RsSpec, OnlyExpiredGo

\* BlindNeverRelaxes: the hysteresis of the ladder and the estimate a failed walk
\* keeps agree in every sequence of samples.
THEOREM BlindSamplesNeverRelax == RsSpec => BlindNeverRelaxes
<1>1. RsInit => LadderRests
  BY DEF RsInit, RsInitOn, LadderRests, NextState
<1>2. LadderRests /\ [RsNext]_rsVars => LadderRests'
  <2>1. CASE UNCHANGED rsVars
    BY <2>1 DEF rsVars, rsDiskVars, LadderRests
  <2> QED
    BY <2>1, LadderStep
<1>3. LadderRests /\ [RsNext]_rsVars => [LadderHolds]_rsVars
  BY LadderStep
<1> QED
  BY <1>1, <1>2, <1>3, PTL DEF RsSpec, BlindNeverRelaxes

-------------------------------------------------------------------------------
(* The schema migrations.                                                  *)

MgPcs == {"inspect", "tables", "validate", "verdict", "checkfts", "apply", "fts", "precheck",
          "record", "verify", "done", "refused", "dead"}
MgOuts == {"none", "empty", "unmanaged", "dirty", "ahead", "incompatible", "behind", "exact",
           "gave up"}
MgProcess == [pc : MgPcs, tries : Nat, read : -1 .. CurrentVersion + 1, half : {0, 1},
              out : MgOuts, recorded : BOOLEAN]

MgTyped ==
  /\ mgLedger \in -1 .. CurrentVersion + 1 /\ mgSchema \in 0 .. CurrentVersion + 1
  /\ mgDirty \in BOOLEAN /\ mgFts \in BOOLEAN /\ mgFaults \in 0 .. MgMaxFaults
  /\ mgProc \in [MgProcs -> MgProcess]

\* The ledger records the version of the structure; who is about to record the
\* baseline finds its structure or a ledger.
LedgerTrue ==
  /\ mgLedger # -1 => mgLedger = mgSchema
  /\ \A p \in MgProcs : mgProc[p].pc = "record" => mgSchema = MgBaseline \/ mgLedger # -1

Level(l) == IF l = -1 THEN 0 ELSE l

Good == {"empty", "behind", "exact"}

\* A process on a managed database whose ledger records l.  It retried at most as
\* often as the ledger moved, a wrong verdict is one the ledger has left behind, and
\* what looks for the index is a gate that found the last version.
ProcOK(p, s, l) ==
  /\ s.pc \notin {"precheck", "record", "verify"}
  /\ s.pc = "inspect" => s.tries <= Level(l)
  /\ s.pc \in {"tables", "validate", "verdict"} =>
       s.read <= l /\ s.read # 0 /\ s.tries <= Level(s.read)
  /\ s.pc = "tables" => s.read = -1
  /\ s.pc = "validate" => s.read # -1
  /\ s.pc = "verdict" => s.out \in Good \/ (s.out \in {"unmanaged", "incompatible"} /\ s.read < l)
  /\ s.pc \in {"verdict", "checkfts"} /\ s.out = "exact" => s.read = CurrentVersion
  /\ s.pc = "checkfts" => s.out = "exact" /\ MgRole(p) = "gate" /\ MgFtsEnabled
  /\ s.pc \in {"apply", "fts"} => s.tries = 0
  /\ s.pc \in {"apply", "fts", "done"} => s.out \in Good
  /\ s.pc = "refused" =>
       \/ s.out \in Good
       \/ /\ MgRole(p) = "gate" /\ MgFtsEnabled
          /\ s.out = "incompatible" /\ s.read = CurrentVersion
  /\ s.pc = "refused" => MgRole(p) \in {"gate", "baseline"}

Managed ==
  mgFrom = "managed" =>
    /\ ~ mgDirty
    /\ mgLedger = -1 => mgSchema = 0
    /\ mgLedger # 0 /\ mgLedger <= CurrentVersion
    /\ \A p \in MgProcs : ProcOK(p, mgProc[p], mgLedger)

MgIInv == MgTyped /\ LedgerTrue /\ Managed

MgAct(p) ==
    \/ ReadLedger(p) \/ CountTables(p) \/ ValidateSchema(p) \/ Inspected(p)
    \/ CheckFts(p) \/ ApplyNext(p) \/ EnsureFts(p)
    \/ BaselinePrecheck(p) \/ BaselineRecord(p) \/ BaselineVerify(p)
    \/ Fails(p)

\* Where a verdict leads is a place of the program.
LEMMA AfterIsPc ==
    ASSUME NEW p \in MgProcs, NEW o \in MgOuts
    PROVE  After(p, o) \in MgPcs
<1>1. \/ MgRole(p) = "up" \/ MgRole(p) = "baseline" \/ MgRole(p) = "gate"
      \/ MgRole(p) \notin {"up", "baseline", "gate"}
  OBVIOUS
<1> QED
  BY <1>1 DEF After, MgPcs

\* Every action keeps the types.
LEMMA MgTypedStep ==
    ASSUME MgTyped, LedgerTrue, NEW p \in MgProcs, MgAct(p)
    PROVE  MgTyped'
<1> USE MgAssumption
<1>0. ASSUME NEW s \in MgProcess, Go(p, s) PROVE mgProc' \in [MgProcs -> MgProcess]
  BY <1>0 DEF Go, MgTyped
<1>s. mgProc[p] \in MgProcess
  BY DEF MgTyped
<1>1. CASE ReadLedger(p)
  <2>1. \/ Go(p, [[mgProc[p] EXCEPT !.read = mgLedger] EXCEPT !.pc = "tables"])
        \/ Go(p, [[mgProc[p] EXCEPT !.read = mgLedger] EXCEPT !.pc = "verdict", !.out = "dirty"])
        \/ Go(p, [[mgProc[p] EXCEPT !.read = mgLedger] EXCEPT !.pc = "verdict", !.out = "ahead"])
        \/ Go(p, [[mgProc[p] EXCEPT !.read = mgLedger] EXCEPT !.pc = "validate", !.half = 0])
    BY <1>1 DEF ReadLedger
  <2>2. /\ [[mgProc[p] EXCEPT !.read = mgLedger] EXCEPT !.pc = "tables"] \in MgProcess
        /\ [[mgProc[p] EXCEPT !.read = mgLedger]
              EXCEPT !.pc = "verdict", !.out = "dirty"] \in MgProcess
        /\ [[mgProc[p] EXCEPT !.read = mgLedger]
              EXCEPT !.pc = "verdict", !.out = "ahead"] \in MgProcess
        /\ [[mgProc[p] EXCEPT !.read = mgLedger] EXCEPT !.pc = "validate", !.half = 0] \in MgProcess
    BY <1>s DEF MgTyped, MgProcess, MgPcs, MgOuts
  <2>3. mgProc' \in [MgProcs -> MgProcess]
    BY <1>0, <2>1, <2>2
  <2> QED BY <1>1, <2>3 DEF ReadLedger, mgDb, MgTyped
<1>2. CASE CountTables(p)
  <2>1. PICK o \in MgOuts : Go(p, [mgProc[p] EXCEPT !.pc = "verdict", !.out = o])
    BY <1>2 DEF CountTables, Verdict, MgOuts
  <2>2. [mgProc[p] EXCEPT !.pc = "verdict", !.out = o] \in MgProcess
    BY <1>s DEF MgProcess, MgPcs
  <2>3. mgProc' \in [MgProcs -> MgProcess]
    BY <1>0, <2>1, <2>2
  <2> QED BY <1>2, <2>3 DEF CountTables, mgDb, MgTyped
<1>3. CASE ValidateSchema(p)
  <2>1. \/ Go(p, [mgProc[p] EXCEPT !.half = 1])
        \/ \E o \in MgOuts : Go(p, [mgProc[p] EXCEPT !.pc = "verdict", !.out = o])
    BY <1>3 DEF ValidateSchema, Verdict, MgOuts
  <2>2. /\ [mgProc[p] EXCEPT !.half = 1] \in MgProcess
        /\ \A o \in MgOuts : [mgProc[p] EXCEPT !.pc = "verdict", !.out = o] \in MgProcess
    BY <1>s DEF MgProcess, MgPcs
  <2>3. mgProc' \in [MgProcs -> MgProcess]
    BY <1>0, <2>1, <2>2
  <2> QED BY <1>3, <2>3 DEF ValidateSchema, mgDb, MgTyped
<1>4. CASE Inspected(p)
  <2>0. mgProc[p].out \in MgOuts /\ mgProc[p].tries + 1 \in Nat
    BY <1>s DEF MgProcess
  <2>1. \/ Go(p, [mgProc[p] EXCEPT !.pc = After(p, mgProc[p].out), !.tries = 0])
        \/ Go(p, [mgProc[p] EXCEPT !.pc = "inspect", !.tries = mgProc[p].tries + 1])
        \/ Go(p, [mgProc[p] EXCEPT !.pc = "refused", !.out = "gave up"])
    BY <1>4 DEF Inspected
  <2>4. After(p, mgProc[p].out) \in MgPcs
    BY <2>0, AfterIsPc
  <2>2. /\ [mgProc[p] EXCEPT !.pc = After(p, mgProc[p].out), !.tries = 0] \in MgProcess
        /\ [mgProc[p] EXCEPT !.pc = "inspect", !.tries = mgProc[p].tries + 1] \in MgProcess
        /\ [mgProc[p] EXCEPT !.pc = "refused", !.out = "gave up"] \in MgProcess
    BY <1>s, <2>0, <2>4 DEF MgProcess, MgPcs, MgOuts
  <2>3. mgProc' \in [MgProcs -> MgProcess]
    BY <1>0, <2>1, <2>2
  <2> QED BY <1>4, <2>3 DEF Inspected, mgDb, MgTyped
<1>a. \A q \in MgPcs : [mgProc[p] EXCEPT !.pc = q] \in MgProcess
  BY <1>s DEF MgProcess
<1>5. CASE ApplyNext(p)
  <2>1. \E q \in MgPcs : Go(p, [mgProc[p] EXCEPT !.pc = q])
    BY <1>5 DEF ApplyNext, MgPcs
  <2>2. mgProc' \in [MgProcs -> MgProcess]
    BY <1>0, <1>a, <2>1
  <2>3. mgLedger' \in -1 .. CurrentVersion + 1 /\ mgSchema' \in 0 .. CurrentVersion + 1
    BY <1>5 DEF ApplyNext, MgTyped, LedgerTrue
  <2> QED BY <1>5, <2>2, <2>3 DEF ApplyNext, MgTyped
<1>6. CASE EnsureFts(p)
  <2>1. \E q \in MgPcs : Go(p, [mgProc[p] EXCEPT !.pc = q])
    BY <1>6 DEF EnsureFts, MgPcs
  <2>2. mgProc' \in [MgProcs -> MgProcess]
    BY <1>0, <1>a, <2>1
  <2> QED BY <1>6, <2>2 DEF EnsureFts, MgTyped
<1>7. CASE BaselinePrecheck(p)
  <2>1. \E q \in MgPcs : Go(p, [mgProc[p] EXCEPT !.pc = q])
    BY <1>7 DEF BaselinePrecheck, MgPcs
  <2>2. mgProc' \in [MgProcs -> MgProcess]
    BY <1>0, <1>a, <2>1
  <2> QED BY <1>7, <2>2 DEF BaselinePrecheck, mgDb, MgTyped
<1>8. CASE BaselineRecord(p)
  <2>1. \/ Go(p, [mgProc[p] EXCEPT !.pc = "verify", !.recorded = TRUE])
        \/ Go(p, [mgProc[p] EXCEPT !.pc = "refused"])
    BY <1>8 DEF BaselineRecord
  <2>2. /\ [mgProc[p] EXCEPT !.pc = "verify", !.recorded = TRUE] \in MgProcess
        /\ [mgProc[p] EXCEPT !.pc = "refused"] \in MgProcess
    BY <1>s DEF MgProcess, MgPcs
  <2>3. mgProc' \in [MgProcs -> MgProcess]
    BY <1>0, <2>1, <2>2
  <2> QED BY <1>8, <2>3 DEF BaselineRecord, MgTyped
<1>9. CASE BaselineVerify(p)
  <2>1. \E q \in MgPcs : Go(p, [mgProc[p] EXCEPT !.pc = q])
    BY <1>9 DEF BaselineVerify, MgPcs
  <2>2. mgProc' \in [MgProcs -> MgProcess]
    BY <1>0, <1>a, <2>1
  <2> QED BY <1>9, <2>2 DEF BaselineVerify, mgDb, MgTyped
<1>10. CASE Fails(p)
  <2>1. \E q \in MgPcs : Go(p, [mgProc[p] EXCEPT !.pc = q])
    BY <1>10 DEF Fails, MgPcs
  <2>2. mgProc' \in [MgProcs -> MgProcess]
    BY <1>0, <1>a, <2>1
  <2> QED BY <1>10, <2>2 DEF Fails, mgDb, MgTyped
<1>11. CASE CheckFts(p)
  <2>1. \/ Go(p, [mgProc[p] EXCEPT !.pc = "done"])
        \/ Go(p, [mgProc[p] EXCEPT !.pc = "refused", !.out = "incompatible"])
    BY <1>11 DEF CheckFts
  <2>2. /\ [mgProc[p] EXCEPT !.pc = "done"] \in MgProcess
        /\ [mgProc[p] EXCEPT !.pc = "refused", !.out = "incompatible"] \in MgProcess
    BY <1>s DEF MgProcess, MgPcs, MgOuts
  <2>3. mgProc' \in [MgProcs -> MgProcess]
    BY <1>0, <2>1, <2>2
  <2> QED BY <1>11, <2>3 DEF CheckFts, mgDb, MgTyped
<1> QED
  BY <1>1, <1>2, <1>3, <1>4, <1>5, <1>6, <1>7, <1>8, <1>9, <1>10, <1>11 DEF MgAct

\* Only p moves, and only ApplyNext and BaselineRecord move the ledger, never back.
LEMMA MgFrame ==
    ASSUME MgTyped, LedgerTrue, NEW p \in MgProcs, MgAct(p)
    PROVE  /\ \A q \in MgProcs : q # p => mgProc'[q] = mgProc[q]
           /\ mgLedger' >= mgLedger /\ (mgLedger' = 0 => mgLedger = 0) /\ mgFrom' = mgFrom
<1> USE MgAssumption
<1>1. \E s : Go(p, s)
  <2>1. CASE ReadLedger(p)
    BY <2>1 DEF ReadLedger
  <2>2. CASE CountTables(p)
    BY <2>2 DEF CountTables, Verdict
  <2>3. CASE ValidateSchema(p)
    BY <2>3 DEF ValidateSchema, Verdict
  <2>4. CASE Inspected(p) \/ CheckFts(p)
    BY <2>4 DEF Inspected, CheckFts
  <2>5. CASE ApplyNext(p) \/ EnsureFts(p)
    BY <2>5 DEF ApplyNext, EnsureFts
  <2>6. CASE BaselinePrecheck(p) \/ BaselineRecord(p) \/ BaselineVerify(p) \/ Fails(p)
    BY <2>6 DEF BaselinePrecheck, BaselineRecord, BaselineVerify, Fails
  <2> QED BY <2>1, <2>2, <2>3, <2>4, <2>5, <2>6 DEF MgAct
<1>2. \A q \in MgProcs : q # p => mgProc'[q] = mgProc[q]
  BY <1>1 DEF Go, MgTyped
<1>3. mgFrom' = mgFrom
  BY DEF MgAct, ReadLedger, CountTables, ValidateSchema, Inspected, CheckFts, ApplyNext,
     EnsureFts, BaselinePrecheck, BaselineRecord, BaselineVerify, Fails
<1>4. mgLedger' = mgLedger \/ ApplyNext(p) \/ BaselineRecord(p)
  BY DEF MgAct, ReadLedger, CountTables, ValidateSchema, Inspected, CheckFts, EnsureFts,
     BaselinePrecheck, BaselineVerify, Fails, mgDb
<1>5. mgLedger' >= mgLedger /\ (mgLedger' = 0 => mgLedger = 0)
  BY <1>4 DEF ApplyNext, BaselineRecord, MgTyped
<1> QED
  BY <1>2, <1>3, <1>5

\* A process that ends in "record" came from BaselinePrecheck or was there.
LEMMA LedgerTrueStep ==
    ASSUME MgTyped, LedgerTrue, NEW p \in MgProcs, MgAct(p)
    PROVE  LedgerTrue'
<1> USE MgAssumption
<1>1. /\ \A q \in MgProcs : q # p => mgProc'[q] = mgProc[q]
      /\ mgLedger' >= mgLedger
  BY MgFrame
<1>2. mgProc[p] \in MgProcess
  BY DEF MgTyped
<1>3. CASE ApplyNext(p)
  <2>1. mgLedger' # -1 => mgLedger' = mgSchema'
    BY <1>3 DEF ApplyNext, LedgerTrue, MgTyped
  <2>2. mgProc'[p].pc # "record"
    BY <1>2, <1>3 DEF ApplyNext, Go, MgTyped, MgProcess
  <2>3. mgSchema' = mgSchema \/ mgLedger' # -1
    BY <1>3 DEF ApplyNext, MgTyped
  <2>4. mgLedger # -1 => mgLedger' # -1
    BY <1>1 DEF MgTyped
  <2> QED BY <1>1, <2>1, <2>2, <2>3, <2>4 DEF LedgerTrue
<1>4. CASE BaselineRecord(p)
  <2>1. mgSchema' = mgSchema /\ (mgLedger' = mgLedger \/ (mgLedger = -1 /\ mgLedger' = MgBaseline))
    BY <1>4 DEF BaselineRecord
  <2>2. mgLedger' # -1 => mgLedger' = mgSchema'
    BY <1>4, <2>1 DEF BaselineRecord, LedgerTrue
  <2>3. mgProc'[p].pc # "record"
    <3>1. \/ mgProc'[p] = [mgProc[p] EXCEPT !.pc = "verify", !.recorded = TRUE]
          \/ mgProc'[p] = [mgProc[p] EXCEPT !.pc = "refused"]
      BY <1>4 DEF BaselineRecord, Go, MgTyped
    <3> QED BY <1>2, <3>1 DEF MgProcess
  <2>4. mgLedger # -1 => mgLedger' # -1
    BY <2>1
  <2> QED BY <1>1, <2>1, <2>2, <2>3, <2>4 DEF LedgerTrue
<1>5. CASE BaselinePrecheck(p)
  <2>1. mgProc'[p].pc = "record" => mgSchema = MgBaseline
    <3>1. \/ mgSchema = MgBaseline
          \/ mgProc'[p] = [mgProc[p] EXCEPT !.pc = "refused"]
      BY <1>5 DEF BaselinePrecheck, Go, MgTyped
    <3> QED BY <1>2, <3>1 DEF MgProcess
  <2>2. mgLedger' = mgLedger /\ mgSchema' = mgSchema
    BY <1>5 DEF BaselinePrecheck, mgDb
  <2> QED BY <1>1, <2>1, <2>2 DEF LedgerTrue
<1>6. CASE ReadLedger(p) \/ CountTables(p) \/ ValidateSchema(p) \/ EnsureFts(p)
           \/ BaselineVerify(p) \/ Fails(p) \/ CheckFts(p)
  <2>1. mgProc'[p].pc # "record"
    <3>1. CASE ReadLedger(p)
      BY <1>2, <3>1 DEF ReadLedger, Go, MgTyped, MgProcess
    <3>2. CASE CountTables(p) \/ ValidateSchema(p)
      BY <1>2, <3>2 DEF CountTables, ValidateSchema, Verdict, Go, MgTyped, MgProcess
    <3>3. CASE EnsureFts(p) \/ BaselineVerify(p) \/ Fails(p)
      <4>1. \/ mgProc'[p] = [mgProc[p] EXCEPT !.pc = "done"]
            \/ mgProc'[p] = [mgProc[p] EXCEPT !.pc = "inspect"]
            \/ mgProc'[p] = [mgProc[p] EXCEPT !.pc = "refused"]
            \/ mgProc'[p] = [mgProc[p] EXCEPT !.pc = "dead"]
        BY <3>3 DEF EnsureFts, BaselineVerify, Fails, Go, MgTyped
      <4> QED BY <1>2, <4>1 DEF MgProcess
    <3>4. CASE CheckFts(p)
      <4>1. \/ mgProc'[p] = [mgProc[p] EXCEPT !.pc = "done"]
            \/ mgProc'[p] = [mgProc[p] EXCEPT !.pc = "refused", !.out = "incompatible"]
        BY <3>4 DEF CheckFts, Go, MgTyped
      <4> QED BY <1>2, <4>1 DEF MgProcess
    <3> QED BY <1>6, <3>1, <3>2, <3>3, <3>4
  <2>2. mgLedger' = mgLedger /\ mgSchema' = mgSchema
    BY <1>6 DEF ReadLedger, CountTables, ValidateSchema, EnsureFts, BaselineVerify, Fails,
       CheckFts, mgDb
  <2> QED BY <1>1, <2>1, <2>2 DEF LedgerTrue
<1>7. CASE Inspected(p)
  <2>1. mgProc'[p].pc \in {"inspect", "refused"} \/ mgProc'[p].pc = After(p, mgProc[p].out)
    <3>1. \/ mgProc'[p] = [mgProc[p] EXCEPT !.pc = After(p, mgProc[p].out), !.tries = 0]
          \/ mgProc'[p] = [mgProc[p] EXCEPT !.pc = "inspect", !.tries = @ + 1]
          \/ mgProc'[p] = [mgProc[p] EXCEPT !.pc = "refused", !.out = "gave up"]
      BY <1>7 DEF Inspected, Go, MgTyped
    <3> QED BY <1>2, <3>1 DEF MgProcess
  <2>2. After(p, mgProc[p].out) # "record"
    <3>1. \/ MgRole(p) = "up" \/ MgRole(p) = "baseline" \/ MgRole(p) = "gate"
          \/ MgRole(p) \notin {"up", "baseline", "gate"}
      OBVIOUS
    <3> QED BY <3>1 DEF After
  <2> QED BY <1>1, <1>7, <2>1, <2>2 DEF Inspected, mgDb, LedgerTrue
<1> QED
  BY <1>3, <1>4, <1>5, <1>6, <1>7 DEF MgAct

\* A process that does not move keeps its promise while the ledger advances.
LEMMA OthersKeep ==
    ASSUME NEW p \in MgProcs, NEW s \in MgProcess, NEW l \in Int, NEW m \in Int,
           ProcOK(p, s, l), m >= l, l >= -1, l # 0
    PROVE  ProcOK(p, s, m)
<1>1. Level(l) <= Level(m) /\ s.read \in Int /\ s.tries \in Int
  BY MgAssumption DEF Level, MgProcess
<1>2. Level(l) \in Int /\ Level(m) \in Int
  BY DEF Level
<1> QED
  BY <1>1, <1>2 DEF ProcOK

\* On a managed database no step leads a process to a verdict of damage.
LEMMA ManagedStep ==
    ASSUME MgTyped, LedgerTrue, Managed, NEW p \in MgProcs, MgAct(p)
    PROVE  Managed'
<1> USE MgAssumption
<1> SUFFICES ASSUME mgFrom' = "managed" PROVE Managed'
  BY DEF Managed
<1>1. /\ \A q \in MgProcs : q # p => mgProc'[q] = mgProc[q]
      /\ mgLedger' >= mgLedger /\ (mgLedger' = 0 => mgLedger = 0) /\ mgFrom = "managed"
  BY MgFrame
<1>2. /\ ~ mgDirty /\ (mgLedger = -1 => mgSchema = 0)
      /\ mgLedger # 0 /\ mgLedger <= CurrentVersion /\ mgLedger >= -1
      /\ ProcOK(p, mgProc[p], mgLedger) /\ mgProc[p] \in MgProcess
      /\ mgLedger \in Int /\ mgSchema \in Int
  BY <1>1 DEF Managed, MgTyped
<1>3. MgTyped'
  BY MgTypedStep
<1>4. \A q \in MgProcs : q # p => ProcOK(q, mgProc'[q], mgLedger')
  BY <1>1, <1>2, <1>3, OthersKeep DEF Managed, MgTyped
<1>5. ~ mgDirty'
  BY <1>2 DEF MgAct, ReadLedger, CountTables, ValidateSchema, Inspected, CheckFts, ApplyNext,
     EnsureFts, BaselinePrecheck, BaselineRecord, BaselineVerify, Fails, mgDb
<1>6. mgProc[p].pc \notin {"precheck", "record", "verify"}
  BY <1>2 DEF ProcOK
<1>s. /\ mgProc[p].read \in Int /\ mgProc[p].tries \in Int /\ Level(mgLedger) \in Int
      /\ Level(mgProc[p].read) \in Int
  BY <1>2 DEF MgProcess, Level
<1>7. /\ mgLedger' = -1 => mgSchema' = 0
      /\ mgLedger' # 0 /\ mgLedger' <= CurrentVersion
  <2>1. (mgLedger' = mgLedger /\ mgSchema' = mgSchema) \/ ApplyNext(p)
    BY <1>6 DEF MgAct, ReadLedger, CountTables, ValidateSchema, Inspected, CheckFts, EnsureFts,
       BaselinePrecheck, BaselineRecord, BaselineVerify, Fails, mgDb
  <2> QED BY <1>2, <2>1 DEF ApplyNext
<1>8. ProcOK(p, mgProc'[p], mgLedger')
  <2> DEFINE s == mgProc[p]
             t == mgProc'[p]
  <2>1. CASE ReadLedger(p)
    <3>1. mgLedger' = mgLedger /\ s.pc = "inspect"
      BY <2>1 DEF ReadLedger, mgDb
    <3>2. \/ mgLedger = -1 /\ t = [[s EXCEPT !.read = mgLedger] EXCEPT !.pc = "tables"]
          \/ /\ mgLedger # -1
             /\ t = [[s EXCEPT !.read = mgLedger] EXCEPT !.pc = "validate", !.half = 0]
      <4>1. \/ mgLedger = -1 /\ Go(p, [[s EXCEPT !.read = mgLedger] EXCEPT !.pc = "tables"])
            \/ /\ mgLedger # -1
               /\ Go(p, [[s EXCEPT !.read = mgLedger] EXCEPT !.pc = "validate", !.half = 0])
        BY <1>2, <2>1 DEF ReadLedger, Versions
      <4> QED BY <4>1 DEF Go, MgTyped
    <3>3. /\ t.read = mgLedger /\ t.tries = s.tries /\ t.pc \in {"tables", "validate"}
          /\ t.pc = "tables" => mgLedger = -1
          /\ t.pc = "validate" => mgLedger # -1
      BY <1>2, <3>2 DEF MgProcess
    <3>4. s.tries <= Level(mgLedger)
      BY <1>2, <3>1 DEF ProcOK
    <3> QED BY <1>2, <3>1, <3>3, <3>4 DEF ProcOK
  <2>2. CASE CountTables(p)
    <3>1. mgLedger' = mgLedger /\ s.pc = "tables" /\ s.read = -1 /\ s.tries <= Level(s.read)
      BY <1>2, <2>2 DEF CountTables, mgDb, ProcOK
    <3>2. t = [s EXCEPT !.pc = "verdict", !.out = IF mgSchema = 0 THEN "empty" ELSE "unmanaged"]
      BY <2>2 DEF CountTables, Verdict, Go, MgTyped
    <3>3. /\ t.read = -1 /\ t.tries = s.tries /\ t.pc = "verdict"
          /\ t.out = IF mgSchema = 0 THEN "empty" ELSE "unmanaged"
      BY <1>2, <3>1, <3>2 DEF MgProcess
    <3>4. t.out \in Good \/ (t.out = "unmanaged" /\ t.read < mgLedger)
      BY <1>2, <3>3 DEF Good
    <3> QED BY <1>2, <3>1, <3>3, <3>4 DEF ProcOK
  <2>3. CASE ValidateSchema(p)
    <3>1. mgLedger' = mgLedger /\ s.pc = "validate" /\ s.read # -1 /\ s.tries <= Level(s.read)
          /\ s.read <= mgLedger /\ s.read # 0
      BY <1>2, <2>3 DEF ValidateSchema, mgDb, ProcOK
    <3>2. \/ t = [s EXCEPT !.pc = "verdict", !.out = "incompatible"] /\ mgSchema # s.read
          \/ t = [s EXCEPT !.half = 1]
          \/ t = [s EXCEPT !.pc = "verdict", !.out = IF s.read < CurrentVersion THEN "behind"
                                                     ELSE "exact"]
      BY <2>3 DEF ValidateSchema, Verdict, Go, MgTyped
    <3>3. /\ t.read = s.read /\ t.tries = s.tries
          /\ \/ t.pc = "verdict" /\ t.out = "incompatible" /\ mgSchema # s.read
             \/ t.pc = "validate"
             \/ /\ t.pc = "verdict" /\ t.out \in Good
                /\ t.out = "exact" => ~(s.read < CurrentVersion)
      BY <1>2, <3>1, <3>2 DEF MgProcess, Good
    <3>5. ~(s.read < CurrentVersion) => s.read = CurrentVersion
      BY <1>2, <1>s, <3>1
    <3>4. mgSchema # s.read => s.read < mgLedger
      BY <1>2, <1>s, <3>1 DEF LedgerTrue
    <3> QED BY <1>2, <3>1, <3>3, <3>4, <3>5 DEF ProcOK
  <2>4. CASE Inspected(p)
    <3>1. /\ mgLedger' = mgLedger /\ s.pc = "verdict"
          /\ s.read <= mgLedger /\ s.read # 0 /\ s.tries <= Level(s.read)
          /\ s.out \in Good \/ (s.out \in {"unmanaged", "incompatible"} /\ s.read < mgLedger)
          /\ s.out = "exact" => s.read = CurrentVersion
      BY <1>2, <2>4 DEF Inspected, mgDb, ProcOK
    <3>2. CASE Stable(p)
      <4>1. t = [s EXCEPT !.pc = After(p, s.out), !.tries = 0] /\ mgLedger = s.read
        BY <2>4, <3>2 DEF Inspected, Go, MgTyped, Stable
      <4>2. s.out \in Good
        BY <1>s, <3>1, <4>1
      <4>3. t.pc = After(p, s.out) /\ t.tries = 0 /\ t.out = s.out /\ t.read = s.read
        BY <1>2, <4>1 DEF MgProcess
      <4>4. /\ After(p, s.out) \in {"fts", "done", "apply", "refused", "checkfts"}
            /\ After(p, s.out) = "refused" => MgRole(p) \in {"gate", "baseline"}
            /\ After(p, s.out) = "checkfts" =>
                 s.out = "exact" /\ MgRole(p) = "gate" /\ MgFtsEnabled
        <5>1. \/ MgRole(p) = "up" \/ MgRole(p) = "baseline" \/ MgRole(p) = "gate"
              \/ MgRole(p) \notin {"up", "baseline", "gate"}
          OBVIOUS
        <5> QED BY <4>2, <5>1 DEF After, Good
      <4> QED BY <3>1, <4>2, <4>3, <4>4 DEF ProcOK
    <3>3. CASE ~ Stable(p)
      <4>1. s.read < mgLedger
        BY <1>2, <1>s, <3>1, <3>3 DEF Stable
      <4>2. Level(s.read) < Level(mgLedger) /\ Level(mgLedger) <= CurrentVersion
        BY <1>2, <1>s, <3>1, <4>1 DEF Level, MgProcess
      <4>3. s.tries + 1 <= Level(mgLedger) /\ s.tries + 1 # CurrentVersion + 2
        BY <1>s, <3>1, <4>2
      <4>4. t = [s EXCEPT !.pc = "inspect", !.tries = s.tries + 1]
        BY <2>4, <3>3, <4>3 DEF Inspected, Go, MgTyped
      <4>5. t.pc = "inspect" /\ t.tries = s.tries + 1
        BY <1>2, <4>4 DEF MgProcess
      <4> QED BY <3>1, <4>3, <4>5 DEF ProcOK
    <3> QED BY <3>2, <3>3
  <2>5. CASE ApplyNext(p)
    <3>1. s.pc = "apply" /\ s.tries = 0
      BY <1>2, <2>5 DEF ApplyNext, ProcOK
    <3>2. t = [s EXCEPT !.pc = "inspect"]
      BY <1>2, <2>5 DEF ApplyNext, Go, MgTyped
    <3>3. t.pc = "inspect" /\ t.tries = 0
      BY <1>2, <3>1, <3>2 DEF MgProcess
    <3>4. Level(mgLedger') >= 0
      BY <1>1, <1>2, <1>3 DEF Level, MgTyped
    <3> QED BY <3>3, <3>4 DEF ProcOK
  <2>6. CASE EnsureFts(p)
    <3>1. s.pc = "fts" /\ s.out \in Good /\ t = [s EXCEPT !.pc = "done"]
      BY <1>2, <2>6 DEF EnsureFts, ProcOK, Go, MgTyped
    <3>2. t.pc = "done" /\ t.out = s.out
      BY <1>2, <3>1 DEF MgProcess
    <3> QED BY <3>1, <3>2 DEF ProcOK
  <2>7. CASE Fails(p)
    <3>1. t.pc = "dead"
      BY <1>2, <2>7 DEF Fails, Go, MgTyped, MgProcess
    <3> QED BY <3>1 DEF ProcOK
  <2>8. CASE CheckFts(p)
    <3>1. /\ s.pc = "checkfts" /\ s.out = "exact" /\ s.read = CurrentVersion
          /\ MgRole(p) = "gate" /\ MgFtsEnabled
      BY <1>2, <2>8 DEF CheckFts, ProcOK
    <3>2. \/ t = [s EXCEPT !.pc = "done"]
          \/ t = [s EXCEPT !.pc = "refused", !.out = "incompatible"]
      BY <2>8 DEF CheckFts, Go, MgTyped
    <3>3. /\ t.read = s.read
          /\ \/ t.pc = "done" /\ t.out = "exact"
             \/ t.pc = "refused" /\ t.out = "incompatible"
      BY <1>2, <3>1, <3>2 DEF MgProcess
    <3> QED BY <3>1, <3>3 DEF ProcOK, Good
  <2> QED BY <1>6, <2>1, <2>2, <2>3, <2>4, <2>5, <2>6, <2>7, <2>8
          DEF MgAct, BaselinePrecheck, BaselineRecord, BaselineVerify
<1> QED
  BY <1>4, <1>5, <1>7, <1>8 DEF Managed

\* The invariant is inductive.
LEMMA MgInductive ==
    /\ MgInit => MgIInv
    /\ MgIInv /\ [MgNext]_mgVars => MgIInv'
<1>1. ASSUME MgInit PROVE MgIInv
  <2> USE MgAssumption
  <2>1. mgProc = [p \in MgProcs |-> Fresh] /\ mgFts = FALSE /\ mgFaults = 0
    BY <1>1 DEF MgInit, MgInitWith
  <2>2. Fresh \in MgProcess /\ Fresh.pc = "inspect" /\ Fresh.tries = 0
    BY DEF Fresh, MgProcess, MgPcs, MgOuts
  <2>3. PICK v \in Versions, kind \in {"managed", "unmanaged", "ahead", "dirty"} :
       /\ mgSchema = IF kind = "ahead" THEN CurrentVersion + 1 ELSE v
       /\ mgLedger = CASE kind = "managed"   -> IF v = 0 THEN -1 ELSE v
                       [] kind = "unmanaged" -> -1
                       [] kind = "ahead"     -> CurrentVersion + 1
                       [] kind = "dirty"     -> v
       /\ kind \in {"unmanaged", "dirty"} => v > 0
       /\ mgDirty = (kind = "dirty")
       /\ mgFrom = kind
    BY <1>1 DEF MgInit, MgInitWith
  <2>4. /\ mgLedger \in -1 .. CurrentVersion + 1 /\ mgSchema \in 0 .. CurrentVersion + 1
        /\ mgLedger # -1 => mgLedger = mgSchema
        /\ mgFrom = "managed" => (mgLedger = -1 => mgSchema = 0) /\ mgLedger # 0
                                 /\ mgLedger <= CurrentVersion
    <3>1. CASE kind = "managed"
      BY <2>3, <3>1 DEF Versions
    <3>2. CASE kind = "unmanaged"
      BY <2>3, <3>2 DEF Versions
    <3>3. CASE kind = "ahead"
      BY <2>3, <3>3 DEF Versions
    <3>4. CASE kind = "dirty"
      BY <2>3, <3>4 DEF Versions
    <3> QED BY <3>1, <3>2, <3>3, <3>4
  <2>c. mgDirty = (kind = "dirty") /\ mgFrom = kind
    BY <2>3, Zenon
  <2>d. mgDirty \in BOOLEAN /\ (mgFrom = "managed" => ~ mgDirty)
    <3>1. CASE kind = "dirty"
      BY <2>c, <3>1
    <3>2. CASE kind # "dirty"
      BY <2>c, <3>2
    <3> QED BY <3>1, <3>2
  <2>5. MgTyped
    <3>1. mgProc \in [MgProcs -> MgProcess] /\ mgFaults \in 0 .. MgMaxFaults
      BY <2>1, <2>2
    <3>2. mgFts \in BOOLEAN
      BY <2>1, Zenon
    <3> QED BY <2>4, <2>d, <3>1, <3>2, Zenon DEF MgTyped
  <2>6. LedgerTrue
    BY <2>1, <2>2, <2>4 DEF LedgerTrue
  <2>7. Level(mgLedger) >= 0
    BY <2>4 DEF Level
  <2>8. \A p \in MgProcs : ProcOK(p, mgProc[p], mgLedger)
    BY <2>1, <2>2, <2>7 DEF ProcOK
  <2>9. Managed
    BY <2>4, <2>d, <2>8 DEF Managed
  <2> QED BY <2>5, <2>6, <2>9 DEF MgIInv
<1>2. ASSUME MgIInv, MgNext PROVE MgIInv'
  <2>1. PICK p \in MgProcs : MgAct(p)
    BY <1>2 DEF MgNext, MgAct
  <2> QED BY <1>2, <2>1, MgTypedStep, LedgerTrueStep, ManagedStep DEF MgIInv
<1>3. ASSUME MgIInv, UNCHANGED mgVars PROVE MgIInv'
  <2>1. MgTyped' /\ LedgerTrue'
    BY <1>3 DEF MgIInv, mgVars, MgTyped, LedgerTrue
  <2>2. Managed'
    BY <1>3 DEF MgIInv, mgVars, Managed
  <2> QED BY <2>1, <2>2 DEF MgIInv
<1> QED
  BY <1>1, <1>2, <1>3

\* The database, the ledger and every process keep their types.
THEOREM MigrateTypes == MgSpec => []MgTypeOK
<1>1. MgIInv => MgTypeOK
  BY DEF MgIInv, MgTyped, MgTypeOK, MgProcess
<1> QED
  BY <1>1, MgInductive, PTL DEF MgSpec

\* Whatever ran, raced, failed or died, a ledger records the version the
\* structure has: also when two baselines and a migration race, since the
\* baseline checks the structure before its lock and the emptiness of the
\* ledger under it.
THEOREM LedgerNeverLies == MgSpec => [](mgLedger # -1 => mgLedger = mgSchema)
<1>1. MgIInv => (mgLedger # -1 => mgLedger = mgSchema)
  BY DEF MgIInv, LedgerTrue
<1> QED
  BY <1>1, MgInductive, PTL DEF MgSpec

\* No inspection takes a migration in progress for damage, for any number of
\* processes and migrations: the retries of Inspect always suffice.  Who is refused
\* as incompatible is a startup gate, at the last version, whose index is missing.
THEOREM MigrationNeverLooksDamaged == MgSpec => []MigratingIsNotDamage
<1>1. MgIInv => MigratingIsNotDamage
  BY DEF MgIInv, Managed, ProcOK, Good, MigratingIsNotDamage, IndexPending
<1> QED
  BY <1>1, MgInductive, PTL DEF MgSpec

-------------------------------------------------------------------------------
(* The runtime lifecycle and the cold backup.                              *)

Owners == {"main", "aggregate", "dlq", "tls"}
Contents == [rows : Int, ver : Int]

\* How far create or restore has come: the owners before this one are done.
Reached(x) ==
  CASE x = "main" -> 1 [] x = "aggregate" -> 2 [] x = "dlq" -> 3 [] x = "tls" -> 4
    [] x \in {"end", "restored"} -> 5 [] OTHER -> 0

Proofs == [id : 0 .. BkMaxRuntimes, cand : BkCandidates \cup {0}]
Runtimes == [id : 0 .. BkMaxRuntimes, cand : BkCandidates \cup {0},
             pc : {"down", "marked", "begun", "up", "stopping", "proved"},
             step : Nat, failed : BOOLEAN]
Images == [Owners -> Contents]
Creates == [pc : Owners \cup {"idle", "failed", "inspect", "end"},
            cand : BkCandidates \cup {0}, proof : 0 .. BkMaxRuntimes,
            seen : Images, copy : Images]
Bundles == [proof : 0 .. BkMaxRuntimes, copy : Images, damaged : BOOLEAN]
Places == Owners \cup {"idle", "failed", "end", "restored", "serving", "ready"}
Counts == [runtimes : Nat, writes : Nat, creates : Nat, restores : Nat, served : Nat]

BkShapes ==
  /\ bkActive \in Nat /\ bkProof \in Proofs /\ bkRuntime \in Runtimes
  /\ bkDisk \in Images /\ bkMemory \in Nat /\ bkStopped \in [1 .. BkMaxRuntimes -> Images]
  /\ bkCreate \in Creates /\ bkBundle \in Bundles
  /\ bkTarget \in Images /\ bkRestore \in Places /\ bkCount \in Counts

\* The marker is a live runtime's; memory is empty once the tsdb has stopped in
\* good order; with no marker, the disk is what the proof's runtime ended with.
StopProved ==
  /\ bkRuntime.pc # "down" =>
       bkRuntime.id # 0 /\ bkActive = bkRuntime.id /\ bkRuntime.id = bkCount.runtimes
  /\ bkRuntime.pc \in {"marked", "begun", "up"} => bkRuntime.step = 0
  /\ bkRuntime.pc = "stopping" /\ ~bkRuntime.failed /\ bkRuntime.step >= 8 => bkMemory = 0
  /\ bkRuntime.pc = "proved" => bkProof.id = bkRuntime.id
  /\ bkRuntime.pc = "proved" \/ (bkActive = 0 /\ bkProof.id # 0)
       => bkDisk = bkStopped[bkProof.id]
  /\ bkProof.id <= bkCount.runtimes

\* While create runs there is no runtime, and what it has copied is the disk.
CopiesAreDisk ==
  CreateRuns =>
    /\ bkActive = 0 /\ bkProof.id # 0 /\ bkProof.id = bkCreate.proof /\ bkBundle.proof = 0
    /\ bkCreate.pc \in Owned \cup {"inspect", "end"}
    /\ \A o \in Owned : Reached(o) < Reached(bkCreate.pc) => bkCreate.copy[o] = bkDisk[o]

\* A sound bundle is the stop its proof names, which no later stop can rewrite.
BundleIsStop ==
  /\ bkBundle.proof <= bkCount.runtimes
  /\ bkRuntime.pc \in {"marked", "begun", "up", "stopping"} =>
       bkBundle.proof < bkCount.runtimes
  /\ BundleSound => \A o \in Owned : bkBundle.copy[o] = bkStopped[bkBundle.proof][o]

\* What restore has published is what the bundle holds, until the candidate serves it.
TargetsAreBundle ==
  bkRestore # "idle" =>
    /\ BundleSound
    /\ bkRestore \in Owned \cup {"failed", "end", "restored", "serving", "ready"}
    /\ \A o \in Owned : Reached(o) < Reached(bkRestore) => bkTarget[o] = bkBundle.copy[o]

BkInductive == BkShapes /\ StopProved /\ CopiesAreDisk /\ BundleIsStop /\ TargetsAreBundle

\* The kinds, one by one.
LEMMA Kinds4 ==
 /\ DOMAIN Kinds = {1,2,3,4}
 /\ Kinds[1] = "main" /\ Kinds[2] = "aggregate" /\ Kinds[3] = "dlq" /\ Kinds[4] = "tls"
BY DEF Kinds

\* The owner after each owner.
LEMMA FollowingIs ==
    /\ Following("main") = IF bkConfig.mode = "legacy" THEN "dlq" ELSE "aggregate"
    /\ "aggregate" \in Owned => Following("aggregate") = "dlq"
    /\ Following("dlq") = IF bkConfig.tls THEN "tls" ELSE "end"
    /\ Following("tls") = "end"
<1> DEFINE L(o) == {i \in DOMAIN Kinds : Kinds[i] \in Owned /\ \E j \in 1 .. i - 1 : Kinds[j] = o}
<1>1. "main" \in Owned /\ "dlq" \in Owned /\ ("aggregate" \in Owned <=> bkConfig.mode # "legacy")
      /\ ("tls" \in Owned <=> bkConfig.tls)
  BY DEF Owned
<1>2. ASSUME NEW o, NEW i \in L(o), \A j \in L(o) : i <= j
      PROVE  Following(o) = Kinds[i]
  <2>1. \A k \in L(o) : (\A j \in L(o) : k <= j) => k = i
    BY <1>2, Kinds4
  <2>2. (CHOOSE k \in L(o) : \A j \in L(o) : k <= j) = i
    BY <1>2, <2>1
  <2> QED BY <1>2, <2>2 DEF Following
<1>3. ASSUME NEW o, L(o) = {} PROVE Following(o) = "end"
  BY <1>3 DEF Following
<1>4. Following("main") = IF bkConfig.mode = "legacy" THEN "dlq" ELSE "aggregate"
  <2>1. CASE bkConfig.mode = "legacy"
    <3>1. 3 \in L("main") /\ \A j \in L("main") : 3 <= j
      BY <1>1, <2>1, Kinds4
    <3> QED BY <1>2, <2>1, <3>1, Kinds4
  <2>2. CASE bkConfig.mode # "legacy"
    <3>1. 2 \in L("main") /\ \A j \in L("main") : 2 <= j
      BY <1>1, <2>2, Kinds4
    <3> QED BY <1>2, <2>2, <3>1, Kinds4
  <2> QED BY <2>1, <2>2
<1>5. Following("aggregate") = "dlq"
  <2>1. 3 \in L("aggregate") /\ \A j \in L("aggregate") : 3 <= j
    BY <1>1, Kinds4
  <2> QED BY <1>2, <2>1, Kinds4
<1>6. Following("dlq") = IF bkConfig.tls THEN "tls" ELSE "end"
  <2>1. CASE bkConfig.tls
    <3>1. 4 \in L("dlq") /\ \A j \in L("dlq") : 4 <= j
      BY <1>1, <2>1, Kinds4
    <3> QED BY <1>2, <2>1, <3>1, Kinds4
  <2>2. CASE ~ bkConfig.tls
    <3>1. L("dlq") = {}
      BY <1>1, <2>2, Kinds4
    <3> QED BY <1>3, <2>2, <3>1
  <2> QED BY <2>1, <2>2
<1>7. Following("tls") = "end"
  <2>1. L("tls") = {}
    BY Kinds4
  <2> QED BY <1>3, <2>1
<1> QED
  BY <1>4, <1>5, <1>6, <1>7

\* The admission stops second and the tsdb eighth of twenty steps.
LEMMA StopSteps == Stops("http") = 2 /\ Stops("tsdb") = 8 /\ Len(shutdownOwners) = 20
<1>1. DOMAIN shutdownOwners = 1 .. 20 /\ Len(shutdownOwners) = 20
  BY DEF shutdownOwners
<1>2. shutdownOwners[2] = "http" /\ shutdownOwners[8] = "tsdb"
  BY DEF shutdownOwners
<1>3. \A i \in 1 .. 20 : (shutdownOwners[i] = "http" => i = 2)
                         /\ (shutdownOwners[i] = "tsdb" => i = 8)
  BY DEF shutdownOwners
<1> QED
  BY <1>1, <1>2, <1>3 DEF Stops


\* The owners are among the four, main and dlq always.
LEMMA OwnedAre == "main" \in Owned /\ "dlq" \in Owned /\ Owned \subseteq Owners
BY DEF Owned, Owners

\* Following goes to an owner or to the end, and skips no owner.
LEMMA FollowingSkipsNone ==
  ASSUME NEW o \in Owned
  PROVE  /\ Following(o) \in Owned \cup {"end"}
         /\ \A p \in Owned : Reached(p) < Reached(Following(o)) => p = o \/ Reached(p) < Reached(o)
<1>1. /\ "aggregate" \in Owned <=> bkConfig.mode # "legacy"
      /\ "tls" \in Owned <=> bkConfig.tls
  BY DEF Owned
<1>2. o \in Owners /\ \A p \in Owned : p \in Owners
  BY OwnedAre
<1>3. /\ Reached("main") = 1 /\ Reached("aggregate") = 2 /\ Reached("dlq") = 3
      /\ Reached("tls") = 4 /\ Reached("end") = 5
  BY DEF Reached
<1>4. CASE o = "main"
  BY <1>1, <1>2, <1>3, <1>4, OwnedAre, FollowingIs DEF Owners
<1>5. CASE o = "aggregate"
  BY <1>1, <1>2, <1>3, <1>5, OwnedAre, FollowingIs DEF Owners
<1>6. CASE o = "dlq"
  BY <1>1, <1>2, <1>3, <1>6, OwnedAre, FollowingIs DEF Owners
<1>7. CASE o = "tls"
  BY <1>1, <1>2, <1>3, <1>7, OwnedAre, FollowingIs DEF Owners
<1> QED
  BY <1>2, <1>4, <1>5, <1>6, <1>7 DEF Owners

\* The places of a command: all but the owners and the end are before the first owner.
LEMMA ReachedAt ==
  /\ \A o \in Owned : Reached(o) \in 1 .. 4
  /\ Reached("main") = 1 /\ Reached("end") = 5
  /\ Reached("restored") = 5 /\ Reached("serving") = 0 /\ Reached("ready") = 0
  /\ Reached("failed") = 0 /\ Reached("inspect") = 0 /\ Reached("idle") = 0
<1>1. \A o \in Owners : Reached(o) \in 1 .. 4
  BY DEF Reached, Owners
<1> QED
  BY <1>1, OwnedAre DEF Reached

\* The constants of the state have their shapes.
LEMMA StartShapes ==
  /\ NoCopy \in Images /\ NoRuntime \in Runtimes /\ NoRuntime.pc = "down"
  /\ NoCreate \in Creates /\ NoBundle \in Bundles
<1>1. NoCopy \in Images
  BY DEF NoCopy, Owners, Contents, Absent, Images
<1>2. 0 \in 0 .. BkMaxRuntimes
  BY BkAssumption
<1> QED
  BY <1>1, <1>2 DEF NoRuntime, NoCreate, NoBundle, Runtimes, Creates, Bundles

\* A change of an owner's contents is contents again.
LEMMA ChangedShape ==
  ASSUME NEW d \in Images, NEW o \in Owners, NEW rows \in Int
  PROVE  Changed(d, o, rows) \in Images
BY DEF Changed, Contents, Images

\* Every step keeps the shapes.
LEMMA BkShapesStep ==
  ASSUME BkInductive, BkNext
  PROVE  BkShapes'
<1> USE DEF BkInductive, BkShapes
<1>1. CASE MarkActive
  <2>1. bkCount.runtimes + 1 \in 0 .. BkMaxRuntimes
    BY <1>1, BkAssumption DEF MarkActive, Counts
  <2>2. bkRuntime' \in Runtimes
    BY <1>1, <2>1, StartShapes DEF MarkActive, Runtimes
  <2>3. bkCount' \in Counts
    BY <1>1 DEF MarkActive, Counted, Counts
  <2>4. bkActive' \in Nat
    BY <1>1 DEF MarkActive, Counts
  <2> QED
    BY <1>1, <2>1, <2>2, <2>3, <2>4 DEF MarkActive, bkSource
<1>2. CASE DropProof
  <2>1. bkProof' \in Proofs
    BY <1>2, BkAssumption DEF DropProof, Proofs
  <2>2. bkRuntime' \in Runtimes
    BY <1>2 DEF DropProof, Runtimes
  <2> QED
    BY <1>2, <2>1, <2>2 DEF DropProof, bkSource
<1>3. CASE OpenOwners
  <2>1. bkRuntime' \in Runtimes
    BY <1>3 DEF OpenOwners, Runtimes
  <2>2. bkDisk' \in Images
    <3>1. bkDisk' = bkDisk \/ bkDisk' = [bkDisk EXCEPT !["tls"] = [rows |-> 1, ver |-> 1]]
      BY <1>3 DEF OpenOwners
    <3>2. [rows |-> 1, ver |-> 1] \in Contents
      BY DEF Contents
    <3> QED BY <3>1, <3>2 DEF Images
  <2> QED
    BY <1>3, <2>1, <2>2 DEF OpenOwners, bkSource
<1>4. ASSUME NEW o \in {"main", "aggregate", "dlq"}, Write(o) PROVE BkShapes'
  <2>1. PICK rows \in {-1, 0, 1} : bkDisk' = Changed(bkDisk, o, rows)
    BY <1>4 DEF Write
  <2>2. bkDisk' \in Images
    BY <2>1, ChangedShape DEF Owners
  <2>3. bkCount' \in Counts
    BY <1>4 DEF Write, Counted, Counts
  <2> QED
    BY <1>4, <2>2, <2>3 DEF Write
<1>5. CASE Accept
  <2>1. bkCount' \in Counts
    BY <1>5 DEF Accept, Counted, Counts
  <2>2. bkMemory' \in Nat
    BY <1>5 DEF Accept
  <2> QED
    BY <1>5, <2>1, <2>2 DEF Accept, bkSource
<1>6. CASE StopSignal
  <2>1. bkRuntime' \in Runtimes
    BY <1>6 DEF StopSignal, Runtimes
  <2> QED
    BY <1>6, <2>1 DEF StopSignal, bkSource
<1>7. CASE StepFails
  <2>1. bkRuntime' = [id |-> bkRuntime.id, cand |-> bkRuntime.cand, pc |-> bkRuntime.pc,
                      step |-> bkRuntime.step + 1, failed |-> TRUE]
    BY <1>7 DEF StepFails, Runtimes
  <2>2. bkRuntime' \in Runtimes
    BY <2>1 DEF Runtimes
  <2> QED
    BY <1>7, <2>2 DEF StepFails
<1>8. CASE StepSucceeds
  <2>1. Changed(bkDisk, "main", bkMemory) \in Images
    BY ChangedShape DEF Owners
  <2>2. bkRuntime' \in Runtimes
    BY <1>8 DEF StepSucceeds, Runtimes
  <2>3. bkDisk' \in Images /\ bkMemory' \in Nat
    BY <1>8, <2>1 DEF StepSucceeds
  <2> QED
    BY <1>8, <2>1, <2>2, <2>3 DEF StepSucceeds, bkSource
<1>9. CASE WriteProof
  <2>1. Changed(bkDisk, "main", bkMemory) \in Images
    BY ChangedShape DEF Owners
  <2>2. bkRuntime' \in Runtimes
    BY <1>9 DEF WriteProof, Runtimes
  <2>3. bkProof' \in Proofs
    BY <1>9 DEF WriteProof, Runtimes, Proofs
  <2>4. bkStopped' \in [1 .. BkMaxRuntimes -> Images]
    BY <1>9, <2>1 DEF WriteProof
  <2> QED
    BY <1>9, <2>1, <2>2, <2>3, <2>4 DEF WriteProof, bkSource
<1>10. CASE DropMarker
  <2>1. bkRuntime' \in Runtimes
    BY <1>10, StartShapes DEF DropMarker
  <2> QED
    BY <1>10, <2>1 DEF DropMarker, bkSource
<1>11. CASE RuntimeExits
  <2>1. bkRuntime' \in Runtimes
    BY <1>11, StartShapes DEF RuntimeExits
  <2> QED
    BY <1>11, <2>1 DEF RuntimeExits, bkSource
<1>12. CASE CreateAdmitted
  <2>1. bkCreate' \in Creates
    BY <1>12, StartShapes DEF CreateAdmitted, Creates, Proofs
  <2>2. bkCount' \in Counts
    BY <1>12 DEF CreateAdmitted, Counted, Counts
  <2> QED
    BY <1>12, <2>1, <2>2 DEF CreateAdmitted, bkSource
<1>13. CASE CreateInspect
  <2>1. bkCreate' \in Creates
    BY <1>13 DEF CreateInspect, Creates, Owners
  <2> QED
    BY <1>13, <2>1 DEF CreateInspect, bkSource
<1>14. CASE CaptureDump
  <2>1. /\ "main" \in Owners /\ bkDisk["main"] \in Contents /\ bkBundle.copy["main"] \in Contents
        /\ Following("main") \in Owners \cup {"end"}
    BY OwnedAre, FollowingSkipsNone DEF Images, Bundles
  <2>2. bkCreate' \in Creates
    BY <1>14, <2>1 DEF CaptureDump, Creates, Images
  <2> QED
    BY <1>14, <2>1, <2>2 DEF CaptureDump, bkSource
<1>15. ASSUME NEW o \in Owned, CaptureSnapshot(o) PROVE BkShapes'
  <2>1. /\ o \in Owners /\ bkDisk[o] \in Contents /\ bkBundle.copy[o] \in Contents
        /\ Following(o) \in Owners \cup {"end"}
    BY OwnedAre, FollowingSkipsNone DEF Images, Bundles
  <2>2. bkCreate' \in Creates
    BY <1>15, <2>1, StartShapes DEF CaptureSnapshot, Creates, Images
  <2> QED
    BY <1>15, <2>1, <2>2 DEF CaptureSnapshot, bkSource
<1>16. ASSUME NEW o \in Owned, CaptureSidecar(o) PROVE BkShapes'
  <2>1. /\ o \in Owners /\ bkDisk[o] \in Contents /\ bkBundle.copy[o] \in Contents
        /\ Following(o) \in Owners \cup {"end"}
    BY OwnedAre, FollowingSkipsNone DEF Images, Bundles
  <2>2. bkCreate' \in Creates
    BY <1>16, <2>1 DEF CaptureSidecar, Creates, Images
  <2> QED
    BY <1>16, <2>1, <2>2 DEF CaptureSidecar, bkSource
<1>17. CASE CreateFails
  <2>1. bkCreate' \in Creates
    BY <1>17, StartShapes DEF CreateFails, Creates
  <2> QED
    BY <1>17, <2>1 DEF CreateFails, bkSource
<1>18. CASE Publish
  <2>1. bkCreate' \in Creates
    BY <1>18, StartShapes DEF Publish
  <2>2. bkBundle' \in Bundles
    BY <1>18 DEF Publish, Creates, Bundles
  <2> QED
    BY <1>18, <2>1, <2>2 DEF Publish, bkSource
<1>19. CASE BundleRots
  <2>1. PICK o \in Owned :
          bkBundle' = [bkBundle EXCEPT !.damaged = TRUE, !.copy[o].ver = @ + 100]
    BY <1>19 DEF BundleRots
  <2>2. [bkBundle.copy EXCEPT ![o].ver = @ + 100] \in Images
    <3>1. o \in Owners /\ bkBundle.copy[o] \in Contents
      BY OwnedAre DEF Images, Bundles
    <3>2. [bkBundle.copy[o] EXCEPT !.ver = @ + 100] \in Contents
      BY <3>1 DEF Contents
    <3> QED
      BY <3>1, <3>2 DEF Images, Bundles
  <2>3. bkBundle' = [proof |-> bkBundle.proof, damaged |-> TRUE,
                     copy |-> [bkBundle.copy EXCEPT ![o].ver = @ + 100]]
    BY <2>1 DEF Bundles
  <2>4. bkBundle' \in Bundles
    BY <2>2, <2>3 DEF Bundles
  <2> QED
    BY <1>19, <2>4 DEF BundleRots, bkSource
<1>20. CASE RestoreBegins
  <2>1. bkRestore' \in Places
    BY <1>20 DEF RestoreBegins, Places, Owners
  <2>2. bkCount' \in Counts
    BY <1>20 DEF RestoreBegins, Counted, Counts
  <2> QED
    BY <1>20, <2>1, <2>2 DEF RestoreBegins, bkSource
<1>21. CASE ImportDump
  <2>1. /\ "main" \in Owners /\ bkDisk["main"] \in Contents /\ bkBundle.copy["main"] \in Contents
        /\ Following("main") \in Owners \cup {"end"}
    BY OwnedAre, FollowingSkipsNone DEF Images, Bundles
  <2>2. bkTarget' \in Images
    BY <1>21, <2>1 DEF ImportDump, Images
  <2>3. bkRestore' \in Places
    BY <1>21, <2>1 DEF ImportDump, Places
  <2> QED
    BY <1>21, <2>1, <2>2, <2>3 DEF ImportDump, bkSource
<1>22. ASSUME NEW o \in Owned, PublishCopy(o) PROVE BkShapes'
  <2>1. /\ o \in Owners /\ bkDisk[o] \in Contents /\ bkBundle.copy[o] \in Contents
        /\ Following(o) \in Owners \cup {"end"}
    BY OwnedAre, FollowingSkipsNone DEF Images, Bundles
  <2>2. bkTarget' \in Images
    BY <1>22, <2>1 DEF PublishCopy, Images
  <2>3. bkRestore' \in Places
    BY <1>22, <2>1 DEF PublishCopy, Places
  <2> QED
    BY <1>22, <2>1, <2>2, <2>3 DEF PublishCopy, bkSource
<1>23. CASE RestoreFails
  <2>1. Partial \in Contents
    BY DEF Partial, Contents
  <2>2. bkTarget' \in Images
    BY <1>23, <2>1, OwnedAre DEF RestoreFails, Images
  <2>3. bkRestore' \in Places
    BY <1>23 DEF RestoreFails, Places
  <2> QED
    BY <1>23, <2>1, <2>2, <2>3 DEF RestoreFails, bkSource
<1>24. CASE RestoreVerified
  <2>1. bkRestore' \in Places
    BY <1>24 DEF RestoreVerified, Places
  <2> QED
    BY <1>24, <2>1 DEF RestoreVerified, bkSource
<1>25. CASE ReadinessProof
  <2>1. bkRestore' \in Places
    BY <1>25 DEF ReadinessProof, Places
  <2> QED
    BY <1>25, <2>1 DEF ReadinessProof, bkSource
<1>26. CASE CandidateStarts
  <2>1. bkRestore' \in Places
    BY <1>26 DEF CandidateStarts, Places
  <2> QED
    BY <1>26, <2>1 DEF CandidateStarts, bkSource
<1>27. ASSUME NEW o \in {"main", "aggregate", "dlq"}, CandidateWrites(o) PROVE BkShapes'
  <2>1. PICK rows \in {-1, 0, 1} : bkTarget' = Changed(bkTarget, o, rows)
    BY <1>27 DEF CandidateWrites
  <2>2. bkTarget' \in Images
    BY <2>1, ChangedShape DEF Owners
  <2>3. bkCount' \in Counts
    BY <1>27 DEF CandidateWrites, Counted, Counts
  <2> QED
    BY <1>27, <2>2, <2>3 DEF CandidateWrites, bkSource
<1> QED
  BY <1>1, <1>2, <1>3, <1>4, <1>5, <1>6, <1>7, <1>8, <1>9, <1>10, <1>11, <1>12, <1>13, <1>14,
     <1>15, <1>16, <1>17, <1>18, <1>19, <1>20, <1>21, <1>22, <1>23, <1>24, <1>25, <1>26, <1>27
     DEF BkNext

\* Every step keeps the proof of a stop true of the disk.
LEMMA StopProvedStep ==
  ASSUME BkInductive, BkNext
  PROVE  StopProved'
<1>0. ASSUME UNCHANGED bkSource, bkCount'.runtimes = bkCount.runtimes PROVE StopProved'
  BY <1>0 DEF BkInductive, StopProved, bkSource
<1> USE DEF BkInductive, BkShapes, StopProved, Runtimes, Counts, Proofs
<1>1. CASE MarkActive
  <2>1. /\ bkRuntime'.pc = "marked" /\ bkRuntime'.id = bkCount.runtimes + 1
        /\ bkRuntime'.step = 0
        /\ bkCount'.runtimes = bkCount.runtimes + 1
    BY <1>1 DEF MarkActive, Counted, NoRuntime
  <2> QED
    BY <1>1, <2>1 DEF MarkActive
<1>2. CASE DropProof
  BY <1>2 DEF DropProof
<1>3. CASE OpenOwners
  <2>1. bkRuntime'.pc = "up" /\ bkRuntime'.id = bkRuntime.id
    BY <1>3 DEF OpenOwners
  <2> QED
    BY <1>3, <2>1 DEF OpenOwners
<1>4. ASSUME NEW o \in {"main", "aggregate", "dlq"}, Write(o) PROVE StopProved'
  <2>1. bkRuntime.pc \in {"up", "stopping"} /\ bkCount'.runtimes = bkCount.runtimes
    BY <1>4 DEF Write, Works, Counted
  <2> QED
    BY <1>4, <2>1 DEF Write
<1>5. CASE Accept
  <2>1. /\ bkRuntime.pc \in {"up", "stopping"} /\ bkRuntime.step < 2
        /\ bkCount'.runtimes = bkCount.runtimes
    BY <1>5, StopSteps DEF Accept, Works, Counted
  <2> QED
    BY <1>5, <2>1 DEF Accept
<1>6. CASE StopSignal
  <2>1. bkRuntime' = [bkRuntime EXCEPT !.pc = "stopping"] /\ bkRuntime.step = 0
    BY <1>6 DEF StopSignal
  <2> QED
    BY <1>6, <2>1 DEF StopSignal
<1>7. CASE StepFails
  <2>1. bkRuntime'.failed /\ bkRuntime'.pc = "stopping" /\ bkRuntime'.id = bkRuntime.id
    BY <1>7 DEF StepFails
  <2> QED
    BY <1>7, <2>1 DEF StepFails
<1>8. CASE StepSucceeds
  <2>1. /\ bkRuntime'.failed = bkRuntime.failed /\ bkRuntime'.pc = "stopping"
        /\ bkRuntime'.id = bkRuntime.id /\ bkRuntime'.step = bkRuntime.step + 1
    BY <1>8 DEF StepSucceeds
  <2>2. shutdownOwners[8] = "tsdb"
    BY DEF shutdownOwners
  <2>3. ASSUME ~bkRuntime.failed, bkRuntime.step + 1 >= 8 PROVE bkMemory' = 0
    <3>1. CASE bkRuntime.step + 1 = 8
      BY <1>8, <2>2, <3>1 DEF StepSucceeds
    <3>2. CASE bkRuntime.step >= 8
      BY <1>8, <2>3, <3>2 DEF StepSucceeds
    <3> QED
      BY <2>3, <3>1, <3>2
  <2> QED
    BY <1>8, <2>1, <2>3 DEF StepSucceeds
<1>9. CASE WriteProof
  <2>1. bkMemory = 0
    BY <1>9, StopSteps DEF WriteProof
  <2>2. bkStopped' = [bkStopped EXCEPT ![bkRuntime.id] = bkDisk]
    BY <1>9, <2>1 DEF WriteProof
  <2>3. bkRuntime.id \in 1 .. BkMaxRuntimes
    BY <1>9 DEF WriteProof
  <2>4. bkStopped'[bkRuntime.id] = bkDisk
    BY <2>2, <2>3
  <2>5. bkProof'.id = bkRuntime.id /\ bkRuntime'.pc = "proved" /\ bkRuntime'.id = bkRuntime.id
    BY <1>9 DEF WriteProof
  <2> QED
    BY <1>9, <2>4, <2>5 DEF WriteProof
<1>10. CASE DropMarker
  BY <1>10, StartShapes DEF DropMarker
<1>11. CASE RuntimeExits
  BY <1>11, StartShapes DEF RuntimeExits
<1>12. CASE CreateAdmitted
  BY <1>12, <1>0 DEF CreateAdmitted, Counted
<1>13. CASE CreateInspect
  BY <1>13, <1>0 DEF CreateInspect
<1>14. CASE CaptureDump
  BY <1>14, <1>0 DEF CaptureDump
<1>15. ASSUME NEW o \in Owned, CaptureSnapshot(o) PROVE StopProved'
  BY <1>15, <1>0 DEF CaptureSnapshot
<1>16. ASSUME NEW o \in Owned, CaptureSidecar(o) PROVE StopProved'
  BY <1>16, <1>0 DEF CaptureSidecar
<1>17. CASE CreateFails
  BY <1>17, <1>0 DEF CreateFails
<1>18. CASE Publish
  BY <1>18, <1>0 DEF Publish
<1>19. CASE BundleRots
  BY <1>19, <1>0 DEF BundleRots
<1>20. CASE RestoreBegins
  BY <1>20, <1>0 DEF RestoreBegins, Counted
<1>21. CASE ImportDump
  BY <1>21, <1>0 DEF ImportDump
<1>22. ASSUME NEW o \in Owned, PublishCopy(o) PROVE StopProved'
  BY <1>22, <1>0 DEF PublishCopy
<1>23. CASE RestoreFails
  BY <1>23, <1>0 DEF RestoreFails
<1>24. CASE RestoreVerified
  BY <1>24, <1>0 DEF RestoreVerified
<1>25. CASE ReadinessProof
  BY <1>25, <1>0 DEF ReadinessProof
<1>26. CASE CandidateStarts
  BY <1>26, <1>0 DEF CandidateStarts
<1>27. ASSUME NEW o \in {"main", "aggregate", "dlq"}, CandidateWrites(o) PROVE StopProved'
  BY <1>27, <1>0 DEF CandidateWrites, Counted
<1> QED
  BY <1>1, <1>2, <1>3, <1>4, <1>5, <1>6, <1>7, <1>8, <1>9, <1>10, <1>11, <1>12, <1>13, <1>14,
     <1>15, <1>16, <1>17, <1>18, <1>19, <1>20, <1>21, <1>22, <1>23, <1>24, <1>25, <1>26, <1>27
     DEF BkNext

\* No step changes the configuration, so the owners stay the same.
LEMMA OwnedKept == BkNext => Owned' = Owned
<1>1. BkNext => bkConfig' = bkConfig
  BY DEF BkNext, MarkActive, DropProof, OpenOwners, Write, Accept, StopSignal, StepFails,
         StepSucceeds, WriteProof, DropMarker, RuntimeExits, CreateAdmitted, CreateInspect,
         CaptureDump, CaptureSnapshot, CaptureSidecar, CreateFails, Publish, BundleRots,
         RestoreBegins, ImportDump, PublishCopy, RestoreFails, RestoreVerified,
         CandidateStarts, CandidateWrites, ReadinessProof
<1> QED
  BY <1>1 DEF Owned

\* Every step keeps the copies of a create what the disk holds.
LEMMA CopiesAreDiskStep ==
  ASSUME ~BkStartDuringCreate, BkInductive, BkNext
  PROVE  CopiesAreDisk'
<1>o. Owned' = Owned
  BY OwnedKept
<1>q. ASSUME UNCHANGED <<bkSource, bkCreate>>, bkBundle'.proof = bkBundle.proof
      PROVE  CopiesAreDisk'
  BY <1>o, <1>q DEF BkInductive, CopiesAreDisk, CreateRuns, bkSource
<1>f. ASSUME ~CreateRuns' PROVE CopiesAreDisk'
  BY <1>f DEF CopiesAreDisk
<1>l. ASSUME bkActive # 0, UNCHANGED bkCreate PROVE CopiesAreDisk'
  BY <1>l DEF BkInductive, CopiesAreDisk, CreateRuns
<1> USE DEF BkInductive, BkShapes
<1>1. CASE MarkActive
  <2>1. ~CreateRuns'
    BY <1>1 DEF MarkActive, CreateRuns
  <2> QED
    BY <2>1, <1>f
<1>2. CASE DropProof
  <2>1. bkActive # 0
    BY <1>2 DEF DropProof, StopProved, Runtimes
  <2> QED
    BY <1>2, <2>1, <1>l DEF DropProof
<1>3. CASE OpenOwners
  <2>1. bkActive # 0
    BY <1>3 DEF OpenOwners, StopProved, Runtimes
  <2> QED
    BY <1>3, <2>1, <1>l DEF OpenOwners
<1>4. ASSUME NEW o \in {"main", "aggregate", "dlq"}, Write(o) PROVE CopiesAreDisk'
  <2>1. bkActive # 0
    BY <1>4 DEF Write, StopProved, Runtimes, Works
  <2> QED
    BY <1>4, <2>1, <1>l DEF Write
<1>5. CASE Accept
  <2>1. bkActive # 0
    BY <1>5 DEF Accept, StopProved, Runtimes, Works
  <2> QED
    BY <1>5, <2>1, <1>l DEF Accept
<1>6. CASE StopSignal
  <2>1. bkActive # 0
    BY <1>6 DEF StopSignal, StopProved, Runtimes
  <2> QED
    BY <1>6, <2>1, <1>l DEF StopSignal
<1>7. CASE StepFails
  <2>1. bkActive # 0
    BY <1>7 DEF StepFails, StopProved, Runtimes
  <2> QED
    BY <1>7, <2>1, <1>l DEF StepFails
<1>8. CASE StepSucceeds
  <2>1. bkActive # 0
    BY <1>8 DEF StepSucceeds, StopProved, Runtimes
  <2> QED
    BY <1>8, <2>1, <1>l DEF StepSucceeds
<1>9. CASE WriteProof
  <2>1. bkActive # 0
    BY <1>9 DEF WriteProof, StopProved, Runtimes
  <2> QED
    BY <1>9, <2>1, <1>l DEF WriteProof
<1>10. CASE DropMarker
  <2>1. bkActive # 0
    BY <1>10 DEF DropMarker, StopProved, Runtimes
  <2> QED
    BY <1>10, <2>1, <1>l DEF DropMarker
<1>11. CASE RuntimeExits
  <2>1. bkActive # 0
    BY <1>11 DEF RuntimeExits, StopProved, Runtimes
  <2> QED
    BY <1>11, <2>1, <1>l DEF RuntimeExits
<1>12. CASE CreateAdmitted
  <2>1. /\ bkCreate'.pc = "inspect" /\ bkCreate'.proof = bkProof.id
        /\ bkActive = 0 /\ bkProof.id # 0
    BY <1>12, StartShapes DEF CreateAdmitted, Creates, Proofs
  <2>2. \A o \in Owned : ~(Reached(o) < Reached("inspect"))
    BY ReachedAt
  <2> QED
    BY <1>12, <1>o, <2>1, <2>2 DEF CreateAdmitted, CopiesAreDisk, CreateRuns, bkSource
<1>13. CASE CreateInspect
  <2>1. bkCreate'.pc = "main" /\ bkCreate'.proof = bkCreate.proof
    BY <1>13 DEF CreateInspect, Creates
  <2>2. \A o \in Owned : ~(Reached(o) < Reached("main"))
    BY ReachedAt
  <2> QED
    BY <1>13, <1>o, <2>1, <2>2, OwnedAre DEF CreateInspect, CopiesAreDisk, CreateRuns, bkSource
<1>14. CASE CaptureDump
  <2>1. /\ bkCreate'.pc = Following("main") /\ bkCreate'.proof = bkCreate.proof
        /\ bkCreate'.copy = [bkCreate.copy EXCEPT !["main"] = bkDisk["main"]]
    BY <1>14 DEF CaptureDump, Creates
  <2>2. \A p \in Owned : p = "main" \/ Reached(p) < Reached("main") => bkCreate'.copy[p] = bkDisk[p]
    BY <1>14, <2>1, OwnedAre DEF CaptureDump, CopiesAreDisk, CreateRuns, Creates, Images, Owners
  <2>3. CreateRuns
    BY <1>14, OwnedAre DEF CaptureDump, CreateRuns, Owners
  <2>4. \A p \in Owned : Reached(p) < Reached(Following("main")) => bkCreate'.copy[p] = bkDisk[p]
    BY <2>2, FollowingSkipsNone, OwnedAre
  <2>5. Following("main") \in Owned \cup {"inspect", "end"}
    BY FollowingSkipsNone, OwnedAre
  <2> QED
    BY <1>14, <1>o, <2>1, <2>3, <2>4, <2>5 DEF CaptureDump, CopiesAreDisk, bkSource
<1>15. ASSUME NEW o \in Owned, CaptureSnapshot(o) PROVE CopiesAreDisk'
  <2>a. CASE Agrees(bkCreate.seen[o], bkDisk[o])
    <3>1. /\ bkCreate'.pc = Following(o) /\ bkCreate'.proof = bkCreate.proof
          /\ bkCreate'.copy = [bkCreate.copy EXCEPT ![o] = bkDisk[o]]
      BY <2>a, <1>15 DEF CaptureSnapshot, Creates
    <3>2. \A p \in Owned : p = o \/ Reached(p) < Reached(o) => bkCreate'.copy[p] = bkDisk[p]
      BY <2>a, <1>15, <3>1, OwnedAre
         DEF CaptureSnapshot, CopiesAreDisk, CreateRuns, Creates, Images, Owners
    <3>3. CreateRuns
      BY <2>a, <1>15, OwnedAre DEF CaptureSnapshot, CreateRuns, Owners
    <3>4. \A p \in Owned : Reached(p) < Reached(Following(o)) => bkCreate'.copy[p] = bkDisk[p]
      BY <3>2, FollowingSkipsNone, OwnedAre
    <3>5. Following(o) \in Owned \cup {"inspect", "end"}
      BY FollowingSkipsNone, OwnedAre
    <3> QED
      BY <2>a, <1>15, <1>o, <3>1, <3>3, <3>4, <3>5 DEF CaptureSnapshot, CopiesAreDisk, bkSource
  <2>b. CASE ~Agrees(bkCreate.seen[o], bkDisk[o])
    <3>1. ~CreateRuns'
      BY <2>b, <1>15, StartShapes DEF CaptureSnapshot, CreateRuns, Creates
    <3> QED
      BY <3>1, <1>f
  <2> QED
    BY <2>a, <2>b
<1>16. ASSUME NEW o \in Owned, CaptureSidecar(o) PROVE CopiesAreDisk'
  <2>1. /\ bkCreate'.pc = Following(o) /\ bkCreate'.proof = bkCreate.proof
        /\ bkCreate'.copy = [bkCreate.copy EXCEPT ![o] = bkDisk[o]]
    BY <1>16 DEF CaptureSidecar, Creates
  <2>2. \A p \in Owned : p = o \/ Reached(p) < Reached(o) => bkCreate'.copy[p] = bkDisk[p]
    BY <1>16, <2>1, OwnedAre
       DEF CaptureSidecar, CopiesAreDisk, CreateRuns, Creates, Images, Owners
  <2>3. CreateRuns
    BY <1>16, OwnedAre DEF CaptureSidecar, CreateRuns, Owners
  <2>4. \A p \in Owned : Reached(p) < Reached(Following(o)) => bkCreate'.copy[p] = bkDisk[p]
    BY <2>2, FollowingSkipsNone, OwnedAre
  <2>5. Following(o) \in Owned \cup {"inspect", "end"}
    BY FollowingSkipsNone, OwnedAre
  <2> QED
    BY <1>16, <1>o, <2>1, <2>3, <2>4, <2>5 DEF CaptureSidecar, CopiesAreDisk, bkSource
<1>17. CASE CreateFails
  <2>1. ~CreateRuns'
    BY <1>17 DEF CreateFails, CreateRuns, NoCreate
  <2> QED
    BY <2>1, <1>f
<1>18. CASE Publish
  <2>1. ~CreateRuns'
    BY <1>18 DEF Publish, CreateRuns, NoCreate
  <2> QED
    BY <2>1, <1>f
<1>19. CASE BundleRots
  BY <1>19, <1>q DEF BundleRots, Bundles
<1>20. CASE RestoreBegins
  BY <1>20, <1>q DEF RestoreBegins
<1>21. CASE ImportDump
  BY <1>21, <1>q DEF ImportDump
<1>22. ASSUME NEW o \in Owned, PublishCopy(o) PROVE CopiesAreDisk'
  BY <1>22, <1>q DEF PublishCopy
<1>23. CASE RestoreFails
  BY <1>23, <1>q DEF RestoreFails
<1>24. CASE RestoreVerified
  BY <1>24, <1>q DEF RestoreVerified
<1>25. CASE ReadinessProof
  BY <1>25, <1>q DEF ReadinessProof
<1>26. CASE CandidateStarts
  BY <1>26, <1>q DEF CandidateStarts
<1>27. ASSUME NEW o \in {"main", "aggregate", "dlq"}, CandidateWrites(o) PROVE CopiesAreDisk'
  BY <1>27, <1>q DEF CandidateWrites
<1> QED
  BY <1>1, <1>2, <1>3, <1>4, <1>5, <1>6, <1>7, <1>8, <1>9, <1>10, <1>11, <1>12, <1>13, <1>14,
     <1>15, <1>16, <1>17, <1>18, <1>19, <1>20, <1>21, <1>22, <1>23, <1>24, <1>25, <1>26, <1>27
     DEF BkNext

\* Every step keeps a sound bundle the stop its proof names.
LEMMA BundleIsStopStep ==
  ASSUME BkInductive, BkNext
  PROVE  BundleIsStop'
<1>o. Owned' = Owned
  BY OwnedKept
<1>q. ASSUME UNCHANGED <<bkBundle, bkStopped>>, bkCount'.runtimes = bkCount.runtimes,
             bkRuntime'.pc \in {"marked", "begun", "up", "stopping"} =>
               bkRuntime.pc \in {"marked", "begun", "up", "stopping"}
      PROVE  BundleIsStop'
  BY <1>o, <1>q DEF BkInductive, BundleIsStop, BundleSound
<1> USE DEF BkInductive, BkShapes
<1>1. CASE MarkActive
  <2>1. bkCount'.runtimes = bkCount.runtimes + 1 /\ bkBundle.proof \in Nat
        /\ bkCount.runtimes \in Nat
    BY <1>1 DEF MarkActive, Counted, Counts, Bundles
  <2> QED
    BY <1>1, <1>o, <2>1 DEF MarkActive, BundleIsStop, BundleSound
<1>2. CASE DropProof
  BY <1>2, <1>q, StartShapes DEF DropProof, Runtimes
<1>3. CASE OpenOwners
  BY <1>3, <1>q, StartShapes DEF OpenOwners, Runtimes
<1>4. ASSUME NEW o \in {"main", "aggregate", "dlq"}, Write(o) PROVE BundleIsStop'
  BY <1>4, <1>q, StartShapes DEF Write, Runtimes, Counted, Counts
<1>5. CASE Accept
  BY <1>5, <1>q, StartShapes DEF Accept, Runtimes, Counted, Counts
<1>6. CASE StopSignal
  BY <1>6, <1>q, StartShapes DEF StopSignal, Runtimes
<1>7. CASE StepFails
  BY <1>7, <1>q, StartShapes DEF StepFails, Runtimes
<1>8. CASE StepSucceeds
  BY <1>8, <1>q, StartShapes DEF StepSucceeds, Runtimes
<1>9. CASE WriteProof
  <2>1. /\ bkRuntime'.pc = "proved" /\ bkBundle.proof < bkCount.runtimes
        /\ bkRuntime.id = bkCount.runtimes
    BY <1>9 DEF WriteProof, Runtimes, BundleIsStop, StopProved
  <2>2. ASSUME BundleSound PROVE bkStopped'[bkBundle.proof] = bkStopped[bkBundle.proof]
    BY <1>9, <2>1, <2>2 DEF WriteProof, BundleSound, Bundles, Counts
  <2>3. BundleSound' => BundleSound /\ UNCHANGED <<bkBundle, bkCount>>
    BY <1>9 DEF WriteProof, BundleSound
  <2> QED
    BY <1>9, <1>o, <2>1, <2>2, <2>3 DEF WriteProof, BundleIsStop, Bundles, Counts
<1>10. CASE DropMarker
  BY <1>10, <1>q, StartShapes DEF DropMarker, Runtimes
<1>11. CASE RuntimeExits
  BY <1>11, <1>q, StartShapes DEF RuntimeExits, Runtimes
<1>12. CASE CreateAdmitted
  BY <1>12, <1>q DEF CreateAdmitted, bkSource, Counted, Counts
<1>13. CASE CreateInspect
  BY <1>13, <1>q DEF CreateInspect, bkSource
<1>14. CASE CaptureDump
  BY <1>14, <1>q DEF CaptureDump, bkSource
<1>15. ASSUME NEW o \in Owned, CaptureSnapshot(o) PROVE BundleIsStop'
  BY <1>15, <1>q DEF CaptureSnapshot, bkSource
<1>16. ASSUME NEW o \in Owned, CaptureSidecar(o) PROVE BundleIsStop'
  BY <1>16, <1>q DEF CaptureSidecar, bkSource
<1>17. CASE CreateFails
  BY <1>17, <1>q DEF CreateFails, bkSource
<1>18. CASE Publish
  <2>1. /\ CreateRuns /\ bkActive = 0 /\ bkProof.id # 0 /\ bkProof.id = bkCreate.proof
        /\ \A o \in Owned : Reached(o) < Reached("end") => bkCreate.copy[o] = bkDisk[o]
    BY <1>18 DEF Publish, CreateRuns, CopiesAreDisk
  <2>2. bkRuntime.pc = "down"
    BY <2>1 DEF StopProved
  <2>3. bkDisk = bkStopped[bkProof.id] /\ bkProof.id <= bkCount.runtimes
    BY <2>1 DEF StopProved
  <2>4. \A o \in Owned : bkCreate.copy[o] = bkStopped[bkCreate.proof][o]
    BY <2>1, <2>3, ReachedAt
  <2>5. bkBundle'.proof = bkCreate.proof /\ bkBundle'.copy = bkCreate.copy
    BY <1>18 DEF Publish
  <2> QED
    BY <1>18, <1>o, <2>1, <2>2, <2>3, <2>4, <2>5 DEF Publish, BundleIsStop, bkSource
<1>19. CASE BundleRots
  <2>1. bkBundle'.damaged /\ bkBundle'.proof = bkBundle.proof
    BY <1>19 DEF BundleRots, Bundles
  <2> QED
    BY <1>19, <2>1 DEF BundleRots, BundleIsStop, BundleSound, bkSource
<1>20. CASE RestoreBegins
  BY <1>20, <1>q DEF RestoreBegins, bkSource, Counted, Counts
<1>21. CASE ImportDump
  BY <1>21, <1>q DEF ImportDump, bkSource
<1>22. ASSUME NEW o \in Owned, PublishCopy(o) PROVE BundleIsStop'
  BY <1>22, <1>q DEF PublishCopy, bkSource
<1>23. CASE RestoreFails
  BY <1>23, <1>q DEF RestoreFails, bkSource
<1>24. CASE RestoreVerified
  BY <1>24, <1>q DEF RestoreVerified, bkSource
<1>25. CASE ReadinessProof
  BY <1>25, <1>q DEF ReadinessProof, bkSource
<1>26. CASE CandidateStarts
  BY <1>26, <1>q DEF CandidateStarts, bkSource
<1>27. ASSUME NEW o \in {"main", "aggregate", "dlq"}, CandidateWrites(o) PROVE BundleIsStop'
  BY <1>27, <1>q DEF CandidateWrites, bkSource, Counted, Counts
<1> QED
  BY <1>1, <1>2, <1>3, <1>4, <1>5, <1>6, <1>7, <1>8, <1>9, <1>10, <1>11, <1>12, <1>13, <1>14,
     <1>15, <1>16, <1>17, <1>18, <1>19, <1>20, <1>21, <1>22, <1>23, <1>24, <1>25, <1>26, <1>27
     DEF BkNext

\* Every step keeps what restore has published what the bundle holds.
LEMMA TargetsAreBundleStep ==
  ASSUME BkInductive, BkNext
  PROVE  TargetsAreBundle'
<1>o. Owned' = Owned
  BY OwnedKept
<1>q. ASSUME UNCHANGED <<bkBundle, bkTarget, bkRestore>> PROVE TargetsAreBundle'
  BY <1>o, <1>q DEF BkInductive, TargetsAreBundle, BundleSound
<1>f. ASSUME UNCHANGED bkBundle, bkRestore' \in {"failed", "serving", "ready"}, BundleSound
      PROVE  TargetsAreBundle'
  <2>1. \A o \in Owned : ~(Reached(o) < Reached(bkRestore'))
    BY <1>f, ReachedAt
  <2> QED
    BY <1>o, <1>f, <2>1 DEF TargetsAreBundle, BundleSound
<1>s. bkRestore # "idle" => BundleSound
  BY DEF BkInductive, TargetsAreBundle
<1> USE DEF BkInductive, BkShapes
<1>1. CASE MarkActive
  BY <1>1, <1>q DEF MarkActive
<1>2. CASE DropProof
  BY <1>2, <1>q DEF DropProof
<1>3. CASE OpenOwners
  BY <1>3, <1>q DEF OpenOwners
<1>4. ASSUME NEW o \in {"main", "aggregate", "dlq"}, Write(o) PROVE TargetsAreBundle'
  BY <1>4, <1>q DEF Write
<1>5. CASE Accept
  BY <1>5, <1>q DEF Accept
<1>6. CASE StopSignal
  BY <1>6, <1>q DEF StopSignal
<1>7. CASE StepFails
  BY <1>7, <1>q DEF StepFails
<1>8. CASE StepSucceeds
  BY <1>8, <1>q DEF StepSucceeds
<1>9. CASE WriteProof
  BY <1>9, <1>q DEF WriteProof
<1>10. CASE DropMarker
  BY <1>10, <1>q DEF DropMarker
<1>11. CASE RuntimeExits
  BY <1>11, <1>q DEF RuntimeExits
<1>12. CASE CreateAdmitted
  BY <1>12, <1>q DEF CreateAdmitted
<1>13. CASE CreateInspect
  BY <1>13, <1>q DEF CreateInspect
<1>14. CASE CaptureDump
  BY <1>14, <1>q DEF CaptureDump
<1>15. ASSUME NEW o \in Owned, CaptureSnapshot(o) PROVE TargetsAreBundle'
  BY <1>15, <1>q DEF CaptureSnapshot
<1>16. ASSUME NEW o \in Owned, CaptureSidecar(o) PROVE TargetsAreBundle'
  BY <1>16, <1>q DEF CaptureSidecar
<1>17. CASE CreateFails
  BY <1>17, <1>q DEF CreateFails
<1>18. CASE Publish
  <2>1. CreateRuns /\ bkBundle.proof = 0
    BY <1>18 DEF Publish, CreateRuns, CopiesAreDisk
  <2>2. bkRestore = "idle"
    BY <2>1, <1>s DEF BundleSound
  <2> QED
    BY <1>18, <2>2 DEF Publish, TargetsAreBundle
<1>19. CASE BundleRots
  <2>1. bkRestore = "idle" /\ bkRestore' = "idle"
    BY <1>19 DEF BundleRots
  <2> QED
    BY <2>1 DEF TargetsAreBundle
<1>20. CASE RestoreBegins
  <2>1. \A o \in Owned : ~(Reached(o) < Reached("main"))
    BY ReachedAt
  <2> QED
    BY <1>20, <1>o, <2>1, OwnedAre DEF RestoreBegins, TargetsAreBundle, BundleSound
<1>21. CASE ImportDump
  <2>1. ASSUME bkTarget' = [bkTarget EXCEPT !["main"] = bkBundle.copy["main"]],
               bkRestore' = Following("main"), bkRestore = "main", UNCHANGED bkBundle
        PROVE  TargetsAreBundle'
    <3>1. \A p \in Owned : p = "main" \/ Reached(p) < Reached("main") =>
            bkTarget'[p] = bkBundle.copy[p]
      BY <2>1, OwnedAre DEF TargetsAreBundle, Images, Owners
    <3>2. \A p \in Owned : Reached(p) < Reached(Following("main")) =>
            bkTarget'[p] = bkBundle.copy[p]
      BY <3>1, FollowingSkipsNone, OwnedAre
    <3>3. Following("main") \in Owned \cup {"end"} /\ BundleSound
      BY <2>1, <1>s, FollowingSkipsNone, OwnedAre DEF Owners
    <3> QED
      BY <1>o, <2>1, <3>2, <3>3 DEF TargetsAreBundle, BundleSound
  <2> QED
    BY <1>21, <2>1 DEF ImportDump
<1>22. ASSUME NEW o \in Owned, PublishCopy(o) PROVE TargetsAreBundle'
  <2>1. ASSUME bkTarget' = [bkTarget EXCEPT ![o] = bkBundle.copy[o]],
               bkRestore' = Following(o), bkRestore = o, UNCHANGED bkBundle
        PROVE  TargetsAreBundle'
    <3>1. \A p \in Owned : p = o \/ Reached(p) < Reached(o) => bkTarget'[p] = bkBundle.copy[p]
      BY <2>1, OwnedAre DEF TargetsAreBundle, Images, Owners
    <3>2. \A p \in Owned : Reached(p) < Reached(Following(o)) => bkTarget'[p] = bkBundle.copy[p]
      BY <3>1, FollowingSkipsNone, OwnedAre
    <3>3. Following(o) \in Owned \cup {"end"} /\ BundleSound
      BY <2>1, <1>s, FollowingSkipsNone, OwnedAre DEF Owners
    <3> QED
      BY <1>o, <2>1, <3>2, <3>3 DEF TargetsAreBundle, BundleSound
  <2>2. BundleSound
    BY <1>22, <1>s, OwnedAre DEF PublishCopy, Owners
  <2> QED
    BY <1>22, <2>1, <2>2, <1>f DEF PublishCopy
<1>23. CASE RestoreFails
  BY <1>23, <1>f, <1>s DEF RestoreFails
<1>24. CASE RestoreVerified
  <2>1. CASE bkRestore' = "restored"
    BY <1>24, <2>1, <1>o, <1>s, ReachedAt DEF RestoreVerified, TargetsAreBundle, BundleSound
  <2>2. CASE bkRestore' = "failed"
    BY <1>24, <2>2, <1>f, <1>s DEF RestoreVerified
  <2> QED
    BY <1>24, <2>1, <2>2 DEF RestoreVerified
<1>25. CASE ReadinessProof
  BY <1>25, <1>f, <1>s DEF ReadinessProof
<1>26. CASE CandidateStarts
  BY <1>26, <1>f, <1>s DEF CandidateStarts
<1>27. ASSUME NEW o \in {"main", "aggregate", "dlq"}, CandidateWrites(o) PROVE TargetsAreBundle'
  BY <1>27, <1>f, <1>s DEF CandidateWrites
<1> QED
  BY <1>1, <1>2, <1>3, <1>4, <1>5, <1>6, <1>7, <1>8, <1>9, <1>10, <1>11, <1>12, <1>13, <1>14,
     <1>15, <1>16, <1>17, <1>18, <1>19, <1>20, <1>21, <1>22, <1>23, <1>24, <1>25, <1>26, <1>27
     DEF BkNext

\* The first state satisfies the inductive invariant.
LEMMA BkInitially == BkInit => BkInductive
<1> SUFFICES ASSUME BkInit PROVE BkInductive
  OBVIOUS
<1>1. BkShapes
  <2>1. bkDisk \in Images /\ bkCount \in Counts /\ bkRestore \in Places
    BY DEF BkInit, Images, Owners, Contents, Empty, Counts, Places
  <2>2. bkProof \in Proofs
    BY BkAssumption DEF BkInit, Proofs
  <2> QED
    BY <2>1, <2>2, StartShapes DEF BkInit, BkShapes
<1>2. /\ bkRuntime.pc = "down" /\ bkProof.id = 0 /\ bkCount.runtimes = 0
      /\ bkBundle.proof = 0 /\ ~CreateRuns /\ bkRestore = "idle"
  BY DEF BkInit, NoRuntime, NoBundle, NoCreate, CreateRuns
<1> QED
  BY <1>1, <1>2 DEF BkInductive, StopProved, CopiesAreDisk, BundleIsStop, TargetsAreBundle,
                    BundleSound

(***************************************************************************)
(* RestoredIsOneStop of the cold backup: no runtime starts while create    *)
(* copies, which is what the command's contract asks of its operator.      *)
(* Then, however processes die, what restore verified and starts its       *)
(* candidate on is the whole of one clean stop.                            *)
(***************************************************************************)
THEOREM RestoreIsOneCleanStop ==
  ASSUME ~BkStartDuringCreate
  PROVE  BkSpec => []RestoredIsOneStop
<1>1. BkInductive /\ [BkNext]_bkVars => BkInductive'
  <2> SUFFICES ASSUME BkInductive, [BkNext]_bkVars PROVE BkInductive'
    OBVIOUS
  <2>1. CASE BkNext
    BY <2>1, BkShapesStep, StopProvedStep, CopiesAreDiskStep, BundleIsStopStep,
       TargetsAreBundleStep DEF BkInductive
  <2>2. CASE UNCHANGED bkVars
    BY <2>2 DEF bkVars, BkInductive, BkShapes, StopProved, CopiesAreDisk, BundleIsStop,
                TargetsAreBundle, BundleSound, CreateRuns, Owned
  <2> QED
    BY <2>1, <2>2
<1>2. BkInductive => RestoredIsOneStop
  BY ReachedAt DEF BkInductive, BundleIsStop, TargetsAreBundle, RestoredIsOneStop
<1> QED
  BY BkInitially, <1>1, <1>2, PTL DEF BkSpec
===============================================================================
