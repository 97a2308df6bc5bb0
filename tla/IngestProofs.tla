----------------------------- MODULE IngestProofs -----------------------------
(***************************************************************************)
(* What an Export was told holds (RawIngest): the batches of the raw path  *)
(* only move between the queue, a worker's hands, the database, the dead   *)
(* letter directory and the counted losses, and every Export is where its  *)
(* outcomes, its answer and the aggregate's count say it is.  The byte and *)
(* tenant accounts of the queue and the exemplar ledger are then exact,    *)
(* because a batch is on its way in one place and once.  The dead letter   *)
(* queue on its own (DeadLetter) keeps what it accepted and its limits.    *)
(* Of what an ingest derives: every line whose export was acknowledged     *)
(* keeps a durable template that covers it (TemplateMiner), and a topology *)
(* that lost something says so (TopologyProjection).                       *)
(***************************************************************************)
EXTENDS RawIngest, TemplateMiner, TopologyProjection, SequenceTheorems, Totals, TLAPS

\* The batches an Export can submit.
RqBatches ==
    [exp : RqExporters, att : Nat, grp : Nat, tenant : PlTenants, prio : BOOLEAN, size : Nat]
Envelopes == [name : Nat, batch : RqBatches]
Hands == [st : {"idle", "draining", "gone"}, b : Seq(RqBatches)]

\* What the client and the handler know of an Export.
ClientShapes ==
    /\ rqPc \in [RqExporters -> {"idle", "pre", "submit", "slot", "send", "offer", "sync", "post", "done"}]
    /\ rqResp \in [RqExporters -> {"none", "ok", "warn", "error"}]
    /\ rqAttempt \in [RqExporters -> Nat]
    /\ rqGroup \in [RqExporters -> Nat]
    /\ rqCounted \in [RqExporters -> Nat]
    /\ rqPlace \in [RqExporters -> Seq({"queued", "dropped", "deferred", "lost", "stored", "bare"})]

\* The queue, the workers and the dead letter directory.
PathShapes ==
    /\ plQueue \in Seq(RqBatches)
    /\ plWorker \in [PlWorkers -> Hands]
    /\ dlFiles \in Seq(Envelopes)
    /\ dlNext \in Nat
    /\ plDlqEnqueued \in Nat

\* A worker holds at most one batch.
OneInHand == \A w \in PlWorkers : Len(plWorker[w].b) <= 1

\* Where the batches of the raw path are.
InHand == UNION {Range(plWorker[w].b) : w \in PlWorkers}
Filed == {dlFiles[i].batch : i \in DOMAIN dlFiles}
Kept == Accounted \cup plLost

\* Kept, by destination.
LEMMA KeptIs ==
    /\ Kept = Range(plQueue) \cup InHand \cup rawStored \cup Filed \cup dlEvicted \cup dlDropped
                \cup plLost
    /\ Kept' = (Range(plQueue) \cup InHand \cup rawStored \cup Filed \cup dlEvicted \cup dlDropped
                  \cup plLost)'
BY DEF Kept, Accounted, InFlight, InHand, Filed

\* A non-empty set of naturals has a least member, and Min picks it.
LEMMA MinIsMember ==
    ASSUME NEW S \in SUBSET Nat, S # {}
    PROVE  Min(S) \in S
<1>1. \E n \in S : \A m \in S : n <= m
  BY LeastMember
<1> QED
  BY <1>1 DEF Min

\* enforceLimits evicts a number of the files there are.
LEMMA EvictionsInRange ==
    ASSUME PathShapes, NEW b
    PROVE  Evictions(b) \in 0 .. Len(dlFiles)
<1> DEFINE S == {i \in 0 .. Len(dlFiles) :
                   i = Len(dlFiles) \/ ~OverLimits(SubSeq(dlFiles, i + 1, Len(dlFiles)), b)}
<1>1. Len(dlFiles) \in Nat
  BY DEF PathShapes
<1>2. Len(dlFiles) \in S /\ S \in SUBSET Nat /\ S \subseteq 0 .. Len(dlFiles)
  BY <1>1
<1>3. Evictions(b) = Min(S)
  BY DEF Evictions
<1> HIDE DEF S
<1>4. Min(S) \in S
  BY <1>2, MinIsMember
<1> QED
  BY <1>2, <1>3, <1>4

\* Evicting the oldest files moves their batches to the counted losses.
LEMMA EvictKeeps ==
    ASSUME PathShapes, NEW k \in 0 .. Len(dlFiles), EvictOldest(k),
           NEW rest, rest = SubSeq(dlFiles, k + 1, Len(dlFiles))
    PROVE  /\ rest \in Seq(Envelopes)
           /\ Filed \cup dlEvicted \subseteq {rest[i].batch : i \in DOMAIN rest} \cup dlEvicted'
<1>1. Len(dlFiles) \in Nat /\ dlFiles \in Seq(Envelopes) /\ k \in Nat /\ k <= Len(dlFiles)
  BY DEF PathShapes
<1>2. /\ rest \in Seq(Envelopes) /\ Len(rest) = Len(dlFiles) - k
      /\ \A i \in 1 .. (Len(dlFiles) - k) : rest[i] = dlFiles[k + i]
  BY <1>1
<1>3. DOMAIN rest = 1 .. (Len(dlFiles) - k)
  BY <1>1, <1>2
<1>4. ASSUME NEW i \in DOMAIN dlFiles
      PROVE  dlFiles[i].batch \in {rest[j].batch : j \in DOMAIN rest} \cup dlEvicted'
  <2>1. i \in 1 .. Len(dlFiles)
    BY <1>1
  <2>2. CASE i <= k
    BY <1>1, <2>1, <2>2 DEF EvictOldest
  <2>3. CASE i > k
    <3>1. i - k \in DOMAIN rest /\ k + (i - k) = i
      BY <1>1, <1>3, <2>1, <2>3
    <3>2. rest[i - k] = dlFiles[i]
      BY <1>2, <1>3, <3>1
    <3> QED
      BY <3>1, <3>2
  <2> QED
    BY <1>1, <2>1, <2>2, <2>3
<1>5. dlEvicted \subseteq dlEvicted'
  BY DEF EvictOldest
<1> QED
  BY <1>2, <1>4, <1>5 DEF Filed

\* Enqueue files the envelope, an Enqueue that fails files nothing, and neither
\* takes an envelope away without counting its eviction.
LEMMA EnqueueKeeps ==
    ASSUME PathShapes, NEW b \in RqBatches
    PROVE  /\ Enqueue(b) => /\ dlFiles' \in Seq(Envelopes) /\ dlNext' \in Nat
                            /\ b \in Filed' /\ dlDropped' = dlDropped
                            /\ Filed \cup dlEvicted \subseteq Filed' \cup dlEvicted'
           /\ EnqueueFails(b) => /\ dlFiles' \in Seq(Envelopes) /\ dlNext' \in Nat
                                 /\ dlDropped' = dlDropped
                                 /\ Filed \cup dlEvicted \subseteq Filed' \cup dlEvicted'
<1>1. ASSUME Enqueue(b)
      PROVE  /\ dlFiles' \in Seq(Envelopes) /\ dlNext' \in Nat
             /\ b \in Filed' /\ dlDropped' = dlDropped
             /\ Filed \cup dlEvicted \subseteq Filed' \cup dlEvicted'
  <2> DEFINE k == Evictions(b)
             rest == SubSeq(dlFiles, k + 1, Len(dlFiles))
             f == [name |-> dlNext, batch |-> b]
  <2>1. k \in 0 .. Len(dlFiles)
    BY EvictionsInRange
  <2>2. /\ EvictOldest(k) /\ dlFiles' = Append(rest, f) /\ dlNext' = dlNext + 1
        /\ dlDropped' = dlDropped
    BY <1>1 DEF Enqueue
  <2>3. f \in Envelopes /\ f.batch = b /\ dlNext' \in Nat
    BY <2>2 DEF PathShapes, Envelopes
  <2> HIDE DEF k
  <2>4. /\ rest \in Seq(Envelopes)
        /\ Filed \cup dlEvicted \subseteq {rest[i].batch : i \in DOMAIN rest} \cup dlEvicted'
    BY <2>1, <2>2, EvictKeeps
  <2> HIDE DEF rest, f
  <2>5. /\ dlFiles' \in Seq(Envelopes)
        /\ DOMAIN dlFiles' = 1 .. (Len(rest) + 1) /\ DOMAIN rest = 1 .. Len(rest)
        /\ Len(rest) \in Nat
        /\ dlFiles'[Len(rest) + 1] = f
        /\ \A i \in 1 .. Len(rest) : dlFiles'[i] = rest[i]
    BY <2>2, <2>3, <2>4
  <2>6. b \in Filed'
    BY <2>3, <2>5 DEF Filed
  <2>7. \A i \in DOMAIN rest : rest[i].batch \in Filed'
    BY <2>5 DEF Filed
  <2> QED
    BY <2>2, <2>3, <2>4, <2>5, <2>6, <2>7
<1>2. ASSUME EnqueueFails(b)
      PROVE  /\ dlFiles' \in Seq(Envelopes) /\ dlNext' \in Nat
             /\ dlDropped' = dlDropped
             /\ Filed \cup dlEvicted \subseteq Filed' \cup dlEvicted'
  <2>1. PICK k \in 0 .. (IF DlMaxBytes > 0 /\ b.size > DlMaxBytes THEN 0 ELSE Evictions(b)) :
          /\ EvictOldest(k) /\ dlFiles' = SubSeq(dlFiles, k + 1, Len(dlFiles))
          /\ UNCHANGED <<dlNext, dlDropped>>
    BY <1>2 DEF EnqueueFails
  <2>2. k \in 0 .. Len(dlFiles)
    BY <2>1, EvictionsInRange DEF PathShapes
  <2> DEFINE rest == SubSeq(dlFiles, k + 1, Len(dlFiles))
  <2>3. /\ rest \in Seq(Envelopes)
        /\ Filed \cup dlEvicted \subseteq {rest[i].batch : i \in DOMAIN rest} \cup dlEvicted'
    BY <2>1, <2>2, EvictKeeps
  <2> HIDE DEF rest
  <2>4. dlFiles' = rest
    BY <2>1 DEF rest
  <2>5. Filed' = {rest[i].batch : i \in DOMAIN rest}
    BY <2>4 DEF Filed
  <2> QED
    BY <2>1, <2>3, <2>4, <2>5 DEF PathShapes
<1> QED
  BY <1>1, <1>2

\* What an Export carries for one tenant.
RqGroupSet == [tenant : PlTenants, prio : BOOLEAN, size : Nat]

\* A submitted group is a batch.
LEMMA GroupIsBatch ==
    ASSUME ClientShapes, NEW e \in RqExporters, NEW g \in Groups(e)
    PROVE  BatchOf(e, g) \in RqBatches /\ g \in 1 .. Len(RqGroups[e])
<1>1. RqGroups \in [RqExporters -> Seq(RqGroupSet)]
  BY RqAssumption DEF RqGroupSet
<1>2. RqGroups[e] \in Seq(RqGroupSet)
  BY <1>1
<1>3. g \in 1 .. Len(RqGroups[e]) /\ g \in Nat
  BY <1>2 DEF Groups
<1>4. RqGroups[e][g] \in RqGroupSet
  BY <1>2, <1>3
<1>5. /\ RqGroups[e][g].tenant \in PlTenants /\ RqGroups[e][g].prio \in BOOLEAN
      /\ RqGroups[e][g].size \in Nat
  BY <1>4 DEF RqGroupSet
<1>6. rqAttempt[e] \in Nat
  BY DEF ClientShapes
<1>7. BatchOf(e, g) \in RqBatches
  BY <1>3, <1>5, <1>6 DEF BatchOf, RqBatches
<1> QED
  BY <1>3, <1>7

\* A worker changes what it holds and nothing else.
LEMMA HandChanges ==
    ASSUME PathShapes, NEW w \in PlWorkers, NEW s \in Seq(RqBatches),
           plWorker' = [plWorker EXCEPT ![w].b = s]
    PROVE  /\ plWorker' \in [PlWorkers -> Hands] /\ plWorker'[w].b = s
           /\ \A v \in PlWorkers : v # w => plWorker'[v] = plWorker[v]
<1>1. plWorker \in [PlWorkers -> Hands] /\ plWorker[w] \in Hands
  BY DEF PathShapes
<1> DEFINE h == [plWorker[w] EXCEPT !.b = s]
<1>2. h \in Hands /\ h.b = s
  BY <1>1 DEF Hands
<1>3. plWorker' = [plWorker EXCEPT ![w] = h]
  OBVIOUS
<1> HIDE DEF h
<1> QED
  BY <1>1, <1>2, <1>3

\* A worker with free hands takes a batch.
LEMMA HandTakes ==
    ASSUME PathShapes, OneInHand, NEW w \in PlWorkers, NEW x \in RqBatches,
           plWorker[w].b = <<>>, plWorker' = [plWorker EXCEPT ![w].b = <<x>>]
    PROVE  /\ plWorker' \in [PlWorkers -> Hands] /\ OneInHand'
           /\ InHand \cup {x} \subseteq InHand'
<1>1. /\ plWorker'[w].b = <<x>>
      /\ \A v \in PlWorkers : v # w => plWorker'[v] = plWorker[v]
      /\ plWorker' \in [PlWorkers -> Hands]
  <2>1. <<x>> \in Seq(RqBatches)
    OBVIOUS
  <2> QED
    BY <2>1, HandChanges
<1>2. OneInHand'
  BY <1>1 DEF OneInHand
<1>3. \A v \in PlWorkers : v # w => Range(plWorker[v].b) \subseteq InHand'
  BY <1>1 DEF InHand
<1>4. Range(plWorker[w].b) = {}
  BY DEF Range
<1>5. x \in Range(plWorker'[w].b)
  BY <1>1 DEF Range
<1>6. x \in InHand'
  BY <1>5 DEF InHand
<1>7. InHand \subseteq InHand'
  BY <1>3, <1>4 DEF InHand
<1> QED
  BY <1>1, <1>2, <1>6, <1>7

\* A sequence of at most one element that is not empty has one.
LEMMA SingleIsOne ==
    ASSUME NEW S, NEW s \in Seq(S), s # <<>>, Len(s) <= 1
    PROVE  Len(s) = 1
<1>1. Len(s) \in Nat \ {0}
  BY EmptySeq
<1> QED
  BY <1>1

\* A worker done with its batch has free hands again.
LEMMA HandEmpties ==
    ASSUME PathShapes, OneInHand, NEW w \in PlWorkers, plWorker[w].b # <<>>,
           plWorker' = [plWorker EXCEPT ![w].b = <<>>]
    PROVE  /\ plWorker' \in [PlWorkers -> Hands] /\ OneInHand'
           /\ plWorker[w].b[1] \in RqBatches
           /\ InHand \subseteq InHand' \cup {plWorker[w].b[1]}
<1>1. /\ plWorker'[w].b = <<>>
      /\ \A v \in PlWorkers : v # w => plWorker'[v] = plWorker[v]
      /\ plWorker' \in [PlWorkers -> Hands]
      /\ plWorker[w].b \in Seq(RqBatches)
  <2>1. <<>> \in Seq(RqBatches)
    OBVIOUS
  <2>2. plWorker[w] \in Hands
    BY DEF PathShapes
  <2>3. plWorker[w].b \in Seq(RqBatches)
    BY <2>2 DEF Hands
  <2> QED
    BY <2>1, <2>3, HandChanges
<1>2. OneInHand'
  BY <1>1 DEF OneInHand
<1>3. \A v \in PlWorkers : v # w => Range(plWorker[v].b) \subseteq InHand'
  BY <1>1 DEF InHand
<1>4. Len(plWorker[w].b) = 1
  BY <1>1, SingleIsOne DEF OneInHand
<1>5. DOMAIN plWorker[w].b = {1} /\ plWorker[w].b[1] \in RqBatches
  BY <1>1, <1>4
<1>6. Range(plWorker[w].b) = {plWorker[w].b[1]}
  BY <1>5 DEF Range
<1>7. InHand \subseteq InHand' \cup {plWorker[w].b[1]}
  BY <1>3, <1>6 DEF InHand
<1> QED
  BY <1>1, <1>2, <1>5, <1>7

\* enqueueDLQ files the batch or counts its loss, and says which.
LEMMA EnqueueDLQKeeps ==
    ASSUME PathShapes, NEW b \in RqBatches, EnqueueDLQ(b)
    PROVE  /\ dlFiles' \in Seq(Envelopes) /\ dlNext' \in Nat /\ plDlqEnqueued' \in Nat
           /\ Filed \cup dlEvicted \cup dlDropped \cup plLost \cup {b}
                \subseteq Filed' \cup dlEvicted' \cup dlDropped' \cup plLost'
           /\ plDlqEnqueued' > plDlqEnqueued => b \in Filed'
<1>1. CASE /\ ~PlHasDLQ /\ plLost' = plLost \cup {b}
           /\ UNCHANGED <<plDlqEnqueued, plDlqFailed, dlVars>>
  BY <1>1 DEF dlVars, PathShapes, Filed
<1>2. CASE PlHasDLQ /\ Enqueue(b) /\ plDlqEnqueued' = plDlqEnqueued + 1 /\ UNCHANGED plLost
  BY <1>2, EnqueueKeeps DEF PathShapes
<1>3. CASE PlHasDLQ /\ EnqueueFails(b) /\ plLost' = plLost \cup {b} /\ UNCHANGED plDlqEnqueued
  BY <1>3, EnqueueKeeps DEF PathShapes
<1> QED
  BY <1>1, <1>2, <1>3 DEF EnqueueDLQ

\* No worker step loses a batch: taken, stored, filed or counted as lost.
LEMMA WorkerKeeps ==
    ASSUME PathShapes, OneInHand, NEW w \in PlWorkers, WorkerNext(w)
    PROVE  PathShapes' /\ OneInHand' /\ Kept \subseteq Kept'
<1> DEFINE x == plWorker[w].b[1]
<1>1. CASE TakeBatch(w)
  <2> DEFINE h == Head(plQueue)
  <2>1. /\ plWorker[w].b = <<>> /\ plQueue # <<>> /\ plQueue' = Tail(plQueue)
        /\ plWorker' = [plWorker EXCEPT ![w].b = <<h>>]
        /\ UNCHANGED <<dlFiles, dlNext, plDlqEnqueued, dlEvicted, dlDropped, plLost, rawStored>>
    BY <1>1 DEF TakeBatch, dlVars
  <2>2. plQueue \in Seq(RqBatches)
    BY DEF PathShapes
  <2>3. /\ h \in RqBatches /\ Tail(plQueue) \in Seq(RqBatches)
        /\ Len(plQueue) \in Nat /\ Len(plQueue) > 0 /\ h = plQueue[1]
        /\ DOMAIN plQueue = 1 .. Len(plQueue)
        /\ DOMAIN Tail(plQueue) = 1 .. (Len(plQueue) - 1)
        /\ \A i \in 1 .. (Len(plQueue) - 1) : Tail(plQueue)[i] = plQueue[i + 1]
    BY <2>1, <2>2
  <2> HIDE DEF h
  <2>4. Range(plQueue) \subseteq Range(plQueue') \cup {h}
    <3> SUFFICES ASSUME NEW i \in DOMAIN plQueue PROVE plQueue[i] \in Range(plQueue') \cup {h}
      BY DEF Range
    <3>1. CASE i = 1
      BY <2>3, <3>1
    <3>2. CASE i # 1
      <4>1. i - 1 \in DOMAIN plQueue' /\ plQueue'[i - 1] = plQueue[i]
        BY <2>1, <2>3, <3>2
      <4> QED
        BY <4>1 DEF Range
    <3> QED
      BY <3>1, <3>2
  <2>5. /\ plWorker' \in [PlWorkers -> Hands] /\ OneInHand' /\ InHand \cup {h} \subseteq InHand'
    BY <2>1, <2>3, HandTakes
  <2>6. Filed' = Filed
    BY <2>1 DEF Filed
  <2> QED
    BY <2>1, <2>3, <2>4, <2>5, <2>6, KeptIs DEF PathShapes
<1>2. ASSUME Processed(w)
      PROVE  /\ plWorker' \in [PlWorkers -> Hands] /\ OneInHand' /\ plQueue' = plQueue
             /\ x \in RqBatches /\ InHand \subseteq InHand' \cup {x}
  BY <1>2, HandEmpties DEF Processed
<1> HIDE DEF x
<1>3. CASE ProcessOK(w) \/ ProcessPanics(w)
  <2>1. /\ Processed(w) /\ UNCHANGED <<dlFiles, dlNext, plDlqEnqueued, dlEvicted, dlDropped>>
        /\ \/ rawStored' = rawStored \cup {x} /\ plLost' = plLost
           \/ rawStored' = rawStored /\ plLost' = plLost \cup {x}
    BY <1>3 DEF ProcessOK, ProcessPanics, dlVars, x
  <2>2. Filed' = Filed
    BY <2>1 DEF Filed
  <2>3. Kept \subseteq Kept'
    BY <1>2, <2>1, <2>2, KeptIs
  <2> QED
    BY <1>2, <2>1, <2>3 DEF PathShapes
<1>4. CASE ProcessFails(w)
  <2>1. Processed(w) /\ EnqueueDLQ(x) /\ UNCHANGED rawStored
    BY <1>4 DEF ProcessFails, x
  <2>2. /\ dlFiles' \in Seq(Envelopes) /\ dlNext' \in Nat /\ plDlqEnqueued' \in Nat
        /\ Filed \cup dlEvicted \cup dlDropped \cup plLost \cup {x}
             \subseteq Filed' \cup dlEvicted' \cup dlDropped' \cup plLost'
    BY <1>2, <2>1, EnqueueDLQKeeps
  <2>3. Kept \subseteq Kept'
    BY <1>2, <2>1, <2>2, KeptIs
  <2> QED
    BY <1>2, <2>1, <2>2, <2>3 DEF PathShapes
<1>5. CASE SeeStop(w) \/ WorkerReturns(w)
  <2>1. /\ \A v \in PlWorkers : plWorker'[v].b = plWorker[v].b
        /\ plWorker' \in [PlWorkers -> Hands]
        /\ UNCHANGED <<plQueue, dlFiles, dlNext, plDlqEnqueued, dlEvicted, dlDropped, plLost,
                       rawStored>>
    BY <1>5 DEF SeeStop, WorkerReturns, dlVars, PathShapes, Hands
  <2>2. Filed' = Filed /\ InHand' = InHand /\ OneInHand'
    BY <2>1 DEF Filed, InHand, OneInHand
  <2> QED
    BY <2>1, <2>2, KeptIs DEF PathShapes
<1> QED
  BY <1>1, <1>3, <1>4, <1>5 DEF WorkerNext

-------------------------------------------------------------------------------
(* One Export.                                                             *)

\* Where the handler is tells how many groups have been handed over.
Underway(e) ==
    /\ rqPc[e] \in {"pre", "sync"} => rqPlace[e] = <<>> /\ rqGroup[e] = 1
    /\ rqPc[e] \in {"submit", "slot", "send", "offer"} =>
         rqGroup[e] \in Groups(e) /\ Len(rqPlace[e]) = rqGroup[e] - 1
    /\ rqPc[e] = "post" => Len(rqPlace[e]) = Len(RqGroups[e])
    /\ rqPc[e] = "sync" => ~rqAsync
    /\ rqPc[e] \in {"submit", "slot", "send", "offer"} => rqAsync

\* Every group handed over in this delivery is somewhere, answered or not.
PlacesKept(e) ==
    rqPc[e] # "idle" =>
        \A i \in DOMAIN rqPlace[e] :
            rqPlace[e][i] \in {"queued", "deferred", "stored", "bare"} => BatchOf(e, i) \in Kept

\* A success answers for every group and announces what was lost.
AnsweredWhole(e) ==
    rqResp[e] \in {"ok", "warn"} =>
        /\ rqPc[e] = "done" /\ Len(rqPlace[e]) = Len(RqGroups[e])
        /\ \A i \in DOMAIN rqPlace[e] : rqPlace[e][i] = "lost" => rqResp[e] = "warn"

\* The acknowledging aggregate runs with the pipeline, not with the synchronous fallback.
AckIsAsync == AggregateACK => rqAsync

\* As acknowledgement the aggregate has counted the Export exactly when its pre-apply is past
\* and has not failed; in shadow mode only a success can have counted it.
CountedOnce(e) ==
    AckIsAsync =>
        /\ AggregateACK =>
             rqCounted[e] = IF \/ rqPc[e] \in {"idle", "pre"}
                               \/ rqPc[e] = "done" /\ rqResp[e] \notin {"ok", "warn"}
                            THEN 0 ELSE 1
        /\ ~AggregateACK =>
             \/ rqCounted[e] = 0
             \/ rqCounted[e] = 1 /\ rqPc[e] = "done" /\ rqResp[e] \in {"ok", "warn"}

\* With the synchronous fallback the acknowledging aggregate has counted at most once in each
\* delivery, and has counted the one that goes on to the answer.
CountedEach(e) ==
    AggregateACK =>
        /\ rqCounted[e] <= IF rqPc[e] \in {"idle", "pre"} THEN rqAttempt[e] - 1 ELSE rqAttempt[e]
        /\ rqPc[e] \in {"sync", "post"} \/ rqResp[e] \in {"ok", "warn"} => rqCounted[e] >= 1

ExportOK(e) == Underway(e) /\ PlacesKept(e) /\ AnsweredWhole(e) /\ CountedOnce(e)

\* Nothing moved on the raw path but rows into the database.
PathRests ==
    /\ UNCHANGED <<plQueue, plWorker, dlFiles, dlNext, plDlqEnqueued, dlEvicted, dlDropped, plLost>>
    /\ rawStored \subseteq rawStored'

\* The client and the handler of an Export did not move.
ExportRests(e) ==
    /\ rqPc'[e] = rqPc[e] /\ rqResp'[e] = rqResp[e] /\ rqAttempt'[e] = rqAttempt[e]
    /\ rqGroup'[e] = rqGroup[e] /\ rqCounted'[e] = rqCounted[e] /\ rqPlace'[e] = rqPlace[e]

\* Nothing is lost where nothing moves.
LEMMA RestingPathKeeps ==
    ASSUME PathShapes, OneInHand, PathRests
    PROVE  PathShapes' /\ OneInHand' /\ Kept \subseteq Kept'
<1>1. PathShapes' /\ OneInHand'
  BY DEF PathRests, PathShapes, OneInHand
<1>2. InHand' = InHand /\ Filed' = Filed
  BY DEF PathRests, InHand, Filed
<1>3. Kept \subseteq Kept'
  BY <1>2, KeptIs DEF PathRests
<1> QED
  BY <1>1, <1>3

\* An Export that rests is disturbed by nobody, as long as the path keeps its batches.
LEMMA RestingExport ==
    ASSUME NEW e \in RqExporters, ExportOK(e), ExportRests(e),
           UNCHANGED <<rqMode, rqAsync>>, Kept \subseteq Kept'
    PROVE  ExportOK(e)'
<1>1. (AggregateACK' <=> AggregateACK) /\ (AckIsAsync' <=> AckIsAsync)
  BY DEF AggregateACK, AckIsAsync
<1>2. Underway(e)'
  BY <1>1 DEF ExportOK, ExportRests, Underway, Groups
<1>3. \A i : BatchOf(e, i)' = BatchOf(e, i)
  BY DEF BatchOf, ExportRests
<1>4. PlacesKept(e)'
  BY <1>3 DEF ExportOK, ExportRests, PlacesKept
<1>5. AnsweredWhole(e)'
  BY DEF ExportOK, ExportRests, AnsweredWhole
<1>6. CountedOnce(e)'
  BY <1>1 DEF ExportOK, ExportRests, CountedOnce
<1> QED
  BY <1>2, <1>4, <1>5, <1>6 DEF ExportOK

\* Handing a group over leaves one more outcome behind, and moves to the next group or, after
\* the last one, to the post-apply.
LEMMA HandedOver ==
    ASSUME ClientShapes, NEW e \in RqExporters, ExportOK(e),
           rqPc[e] \in {"submit", "slot", "send", "offer"},
           NEW p \in {"queued", "dropped", "deferred", "lost", "stored", "bare"},
           Place(e, rqGroup[e], p), Advance(e),
           UNCHANGED <<rqMode, rqAsync, rqAttempt, rqCounted, rqResp>>,
           Kept \subseteq Kept',
           p \in {"queued", "deferred", "stored", "bare"} => Current(e) \in Kept'
    PROVE  ClientShapes' /\ ExportOK(e)' /\ \A v \in RqExporters : v # e => ExportRests(v)
<1> DEFINE s == rqPlace[e]
           O == {"queued", "dropped", "deferred", "lost", "stored", "bare"}
<1>1. s \in Seq(O) /\ rqPlace \in [RqExporters -> Seq(O)]
  BY DEF ClientShapes
<1>2. /\ Append(s, p) \in Seq(O) /\ Len(Append(s, p)) = Len(s) + 1
      /\ Append(s, p)[Len(s) + 1] = p
      /\ \A i \in 1 .. Len(s) : Append(s, p)[i] = s[i]
      /\ DOMAIN Append(s, p) = 1 .. (Len(s) + 1) /\ DOMAIN s = 1 .. Len(s) /\ Len(s) \in Nat
  BY <1>1
<1>3. rqPlace' \in [RqExporters -> Seq(O)] /\ rqPlace'[e] = Append(s, p)
  BY <1>1, <1>2 DEF Place
<1>4. /\ rqGroup[e] \in Groups(e) /\ Len(s) = rqGroup[e] - 1 /\ rqGroup[e] \in Nat
      /\ Groups(e) = 1 .. Len(RqGroups[e]) /\ Len(RqGroups[e]) \in Nat
  <2>1. rqGroup[e] \in Groups(e) /\ Len(s) = rqGroup[e] - 1
    BY DEF ExportOK, Underway
  <2>2. RqGroups[e] \in Seq(RqGroupSet)
    BY RqAssumption DEF RqGroupSet
  <2> QED
    BY <2>1, <2>2 DEF Groups
<1> DEFINE l == IF rqGroup[e] = Len(RqGroups[e]) THEN "post" ELSE "submit"
<1>5. /\ rqPc' = [rqPc EXCEPT ![e] = l] /\ rqGroup' = [rqGroup EXCEPT ![e] = @ + 1]
      /\ rqPc'[e] = l /\ rqGroup'[e] = rqGroup[e] + 1
  BY DEF Advance, Goto, ClientShapes
<1>6. ClientShapes'
  BY <1>3, <1>4, <1>5 DEF ClientShapes
<1>7. rqResp[e] \notin {"ok", "warn"} /\ rqResp'[e] = rqResp[e] /\ rqCounted'[e] = rqCounted[e]
  BY DEF ExportOK, AnsweredWhole
<1>8. Underway(e)'
  <2>1. rqAsync
    BY DEF ExportOK, Underway
  <2> QED
    BY <1>2, <1>3, <1>4, <1>5, <2>1 DEF Underway, Groups
<1>9. PlacesKept(e)'
  <2> SUFFICES ASSUME NEW i \in DOMAIN rqPlace'[e],
                      rqPlace'[e][i] \in {"queued", "deferred", "stored", "bare"}
               PROVE  BatchOf(e, i)' \in Kept'
    BY DEF PlacesKept
  <2>1. BatchOf(e, i)' = BatchOf(e, i)
    BY DEF BatchOf
  <2>2. CASE i = Len(s) + 1
    <3>1. i = rqGroup[e] /\ rqPlace'[e][i] = p
      BY <1>2, <1>3, <1>4, <2>2
    <3> QED
      BY <2>1, <3>1 DEF Current
  <2>3. CASE i # Len(s) + 1
    <3>1. i \in 1 .. Len(s)
      BY <1>2, <1>3, <2>3
    <3>2. i \in DOMAIN rqPlace[e] /\ rqPlace[e][i] = rqPlace'[e][i]
      BY <1>2, <1>3, <3>1
    <3> QED
      BY <2>1, <3>2 DEF ExportOK, PlacesKept
  <2> QED
    BY <2>2, <2>3
<1>10. AnsweredWhole(e)'
  BY <1>7 DEF AnsweredWhole
<1>11. CountedOnce(e)'
  <2>1. (AggregateACK' <=> AggregateACK) /\ (AckIsAsync' <=> AckIsAsync)
    BY DEF AggregateACK, AckIsAsync
  <2>2. CountedOnce(e)
    BY DEF ExportOK
  <2> QED
    BY <1>5, <1>7, <2>1, <2>2 DEF CountedOnce
<1>12. \A v \in RqExporters : v # e => ExportRests(v)
  BY <1>1, <1>5 DEF ExportRests, Place, ClientShapes
<1> QED
  BY <1>6, <1>8, <1>9, <1>10, <1>11, <1>12 DEF ExportOK

\* An Export that stops with an error has counted nothing and promises nothing.
LEMMA Failing ==
    ASSUME ClientShapes, NEW e \in RqExporters, ExportOK(e), rqPc[e] # "idle",
           AckIsAsync => rqCounted[e] = 0,
           Goto(e, "done"), rqResp' = [rqResp EXCEPT ![e] = "error"],
           UNCHANGED <<rqMode, rqAsync, rqAttempt, rqGroup, rqCounted, rqPlace>>, Kept \subseteq Kept'
    PROVE  ClientShapes' /\ ExportOK(e)' /\ \A v \in RqExporters : v # e => ExportRests(v)
<1>1. rqPc'[e] = "done" /\ rqResp'[e] = "error"
  BY DEF Goto, ClientShapes
<1>2. ClientShapes' /\ \A v \in RqExporters : v # e => ExportRests(v)
  BY DEF ClientShapes, Goto, ExportRests
<1>3. \A i : BatchOf(e, i)' = BatchOf(e, i)
  BY DEF BatchOf
<1>4. PlacesKept(e)'
  BY <1>3 DEF PlacesKept, ExportOK
<1>5. Underway(e)' /\ AnsweredWhole(e)'
  BY <1>1 DEF Underway, AnsweredWhole
<1>6. CountedOnce(e)'
  <2>1. (AggregateACK' <=> AggregateACK) /\ (AckIsAsync' <=> AckIsAsync)
    BY DEF AggregateACK, AckIsAsync
  <2> QED
    BY <1>1, <2>1 DEF CountedOnce
<1> QED
  BY <1>2, <1>4, <1>5, <1>6 DEF ExportOK

\* The handler: every step keeps the path whole and its own Export in order, and
\* leaves the other Exports alone.
LEMMA ExportSteps ==
    ASSUME ClientShapes, PathShapes, OneInHand,
           NEW e \in RqExporters, ExportOK(e), ExportNext(e)
    PROVE  /\ ClientShapes' /\ PathShapes' /\ OneInHand' /\ Kept \subseteq Kept'
           /\ UNCHANGED <<rqMode, rqAsync>> /\ ExportOK(e)'
           /\ \A v \in RqExporters : v # e => ExportRests(v)
<1> DEFINE Goal == /\ ClientShapes' /\ ExportOK(e)'
                   /\ \A v \in RqExporters : v # e => ExportRests(v)
<1>mode. UNCHANGED <<rqMode, rqAsync>>
  BY DEF ExportNext, Config, Receive, ApplyPre, ApplyPreFails, SubmitSoftDrop, SubmitBelowSoft, SubmitReserve,
         SubmitSend, SubmitRefused, OfferRefused, SyncInsert, SyncInsertFails, ApplyPost,
         ApplyPostSaturated, Retry
<1>ack. (AggregateACK' <=> AggregateACK) /\ (AckIsAsync' <=> AckIsAsync)
  BY <1>mode DEF AggregateACK, AckIsAsync
<1>groups. /\ RqGroups[e] \in Seq(RqGroupSet) /\ Len(RqGroups[e]) \in Nat \ {0}
           /\ Groups(e) = 1 .. Len(RqGroups[e])
  <2>1. RqGroups[e] \in Seq(RqGroupSet) /\ RqGroups[e] # <<>>
    BY RqAssumption DEF RqGroupSet
  <2> QED
    BY <2>1, EmptySeq DEF Groups
<1>same. rqAttempt' = rqAttempt => \A i : BatchOf(e, i)' = BatchOf(e, i)
  BY DEF BatchOf
<1>1. CASE Receive(e)
  <2>1. PathRests
    BY <1>1 DEF Receive, plVars, dlVars, PathRests
  <2>2. /\ rqPc[e] = "idle" /\ rqResp[e] \in {"none", "error"}
        /\ rqPc' = [rqPc EXCEPT ![e] = "pre"] /\ rqGroup' = [rqGroup EXCEPT ![e] = 1]
        /\ rqPlace' = [rqPlace EXCEPT ![e] = <<>>]
        /\ UNCHANGED <<rqAttempt, rqCounted, rqResp>>
    BY <1>1 DEF Receive, Goto
  <2>3. rqPc'[e] = "pre" /\ rqGroup'[e] = 1 /\ rqPlace'[e] = <<>>
    BY <2>2 DEF ClientShapes
  <2>4. ClientShapes' /\ \A v \in RqExporters : v # e => ExportRests(v)
    BY <2>2 DEF ClientShapes, ExportRests
  <2>5. Underway(e)' /\ PlacesKept(e)' /\ AnsweredWhole(e)'
    BY <2>2, <2>3 DEF Underway, PlacesKept, AnsweredWhole
  <2>6. CountedOnce(e)'
    BY <1>ack, <2>2, <2>3 DEF CountedOnce, ExportOK
  <2> QED
    BY <1>mode, <2>1, <2>4, <2>5, <2>6, RestingPathKeeps DEF ExportOK
<1>2. CASE ApplyPre(e)
  <2>1. PathRests
    BY <1>2 DEF ApplyPre, plVars, dlVars, PathRests
  <2>2. /\ rqPc[e] = "pre"
        /\ rqCounted' = IF AggregateACK THEN [rqCounted EXCEPT ![e] = @ + 1] ELSE rqCounted
        /\ rqPc' = [rqPc EXCEPT ![e] = IF rqAsync THEN "submit" ELSE "sync"]
        /\ UNCHANGED <<rqAttempt, rqGroup, rqPlace, rqResp>>
    BY <1>2 DEF ApplyPre, Goto
  <2>3. /\ rqPc'[e] = IF rqAsync THEN "submit" ELSE "sync"
        /\ rqCounted'[e] = IF AggregateACK THEN rqCounted[e] + 1 ELSE rqCounted[e]
    BY <2>2 DEF ClientShapes
  <2>4. ClientShapes' /\ \A v \in RqExporters : v # e => ExportRests(v)
    BY <2>2 DEF ClientShapes, ExportRests
  <2>5. /\ rqPlace[e] = <<>> /\ rqGroup[e] = 1 /\ rqResp[e] \notin {"ok", "warn"}
        /\ AckIsAsync => rqCounted[e] = 0
    BY <2>2 DEF ExportOK, Underway, AnsweredWhole, CountedOnce
  <2>6. Underway(e)'
    BY <1>mode, <1>groups, <2>2, <2>3, <2>5 DEF Underway, Groups
  <2>7. PlacesKept(e)' /\ AnsweredWhole(e)'
    BY <2>2, <2>5 DEF PlacesKept, AnsweredWhole
  <2>8. CountedOnce(e)'
    BY <1>ack, <2>2, <2>3, <2>5 DEF CountedOnce
  <2> QED
    BY <1>mode, <2>1, <2>4, <2>6, <2>7, <2>8, RestingPathKeeps DEF ExportOK
<1>3. CASE ApplyPreFails(e)
  <2>1. PathRests
    BY <1>3 DEF ApplyPreFails, plVars, dlVars, PathRests
  <2>2. PathShapes' /\ OneInHand' /\ Kept \subseteq Kept'
    BY <2>1, RestingPathKeeps
  <2>3. (AckIsAsync => rqCounted[e] = 0) /\ rqPc[e] # "idle"
    BY <1>3 DEF ApplyPreFails, ExportOK, CountedOnce
  <2>4. Goal
    BY <1>3, <2>2, <2>3, Failing DEF ApplyPreFails, Config
  <2> QED
    BY <1>mode, <2>2, <2>4
<1>4. CASE SubmitSoftDrop(e)
  <2>1. PathRests
    BY <1>4 DEF SubmitSoftDrop, plVars, dlVars, PathRests
  <2>2. PathShapes' /\ OneInHand' /\ Kept \subseteq Kept'
    BY <2>1, RestingPathKeeps
  <2>3. Goal
    BY <1>4, <2>2, HandedOver DEF SubmitSoftDrop, Config
  <2> QED
    BY <1>mode, <2>2, <2>3
<1>soft. CASE SubmitBelowSoft(e)
  <2>1. PathRests
    BY <1>soft DEF SubmitBelowSoft, plVars, dlVars, PathRests
  <2>2. PathShapes' /\ OneInHand' /\ Kept \subseteq Kept'
    BY <2>1, RestingPathKeeps
  <2>3. /\ rqPc[e] = "submit" /\ rqPc' = [rqPc EXCEPT ![e] = "slot"]
        /\ UNCHANGED <<rqAttempt, rqGroup, rqPlace, rqResp, rqCounted>>
    BY <1>soft DEF SubmitBelowSoft, Goto
  <2>4. rqPc'[e] = "slot"
    BY <2>3 DEF ClientShapes
  <2>5. ClientShapes' /\ \A v \in RqExporters : v # e => ExportRests(v)
    BY <2>3 DEF ClientShapes, ExportRests
  <2>6. Underway(e)' /\ AnsweredWhole(e)'
    BY <1>mode, <2>3, <2>4 DEF ExportOK, Underway, AnsweredWhole, Groups
  <2>7. PlacesKept(e)'
    BY <1>same, <2>2, <2>3, <2>4 DEF ExportOK, PlacesKept
  <2>8. CountedOnce(e)'
    BY <1>ack, <2>3, <2>4 DEF ExportOK, CountedOnce
  <2> QED
    BY <1>mode, <2>2, <2>5, <2>6, <2>7, <2>8 DEF ExportOK
<1>5. CASE SubmitReserve(e)
  <2>1. PathRests
    BY <1>5 DEF SubmitReserve, TakeSlot, plVars, dlVars, PathRests
  <2>2. PathShapes' /\ OneInHand' /\ Kept \subseteq Kept'
    BY <2>1, RestingPathKeeps
  <2>3. /\ rqPc[e] = "slot" /\ rqPc' = [rqPc EXCEPT ![e] = "send"]
        /\ UNCHANGED <<rqAttempt, rqGroup, rqPlace, rqResp, rqCounted>>
    BY <1>5 DEF SubmitReserve, Goto
  <2>4. rqPc'[e] = "send"
    BY <2>3 DEF ClientShapes
  <2>5. ClientShapes' /\ \A v \in RqExporters : v # e => ExportRests(v)
    BY <2>3 DEF ClientShapes, ExportRests
  <2>6. Underway(e)' /\ AnsweredWhole(e)'
    BY <1>mode, <2>3, <2>4 DEF ExportOK, Underway, AnsweredWhole, Groups
  <2>7. PlacesKept(e)'
    BY <1>same, <2>2, <2>3, <2>4 DEF ExportOK, PlacesKept
  <2>8. CountedOnce(e)'
    BY <1>ack, <2>3, <2>4 DEF ExportOK, CountedOnce
  <2> QED
    BY <1>mode, <2>2, <2>5, <2>6, <2>7, <2>8 DEF ExportOK
<1>6. CASE SubmitSend(e)
  <2> DEFINE b == Current(e)
  <2>1. /\ plQueue' = Append(plQueue, b)
        /\ UNCHANGED <<plWorker, dlFiles, dlNext, plDlqEnqueued, dlEvicted, dlDropped, plLost,
                       rawStored>>
        /\ rqPc[e] = "send"
    BY <1>6 DEF SubmitSend, SendBatch, dlVars
  <2>2. b \in RqBatches
    BY <2>1, GroupIsBatch DEF Current, ExportOK, Underway
  <2> HIDE DEF b
  <2>3. /\ plQueue' \in Seq(RqBatches) /\ Range(plQueue) \cup {b} \subseteq Range(plQueue')
    <3>1. plQueue \in Seq(RqBatches)
      BY DEF PathShapes
    <3>2. /\ Append(plQueue, b) \in Seq(RqBatches)
          /\ DOMAIN Append(plQueue, b) = 1 .. (Len(plQueue) + 1)
          /\ DOMAIN plQueue = 1 .. Len(plQueue) /\ Len(plQueue) \in Nat
          /\ Append(plQueue, b)[Len(plQueue) + 1] = b
          /\ \A i \in 1 .. Len(plQueue) : Append(plQueue, b)[i] = plQueue[i]
      BY <2>2, <3>1
    <3> QED
      BY <2>1, <3>2 DEF Range
  <2>4. PathShapes' /\ OneInHand'
    BY <2>1, <2>3 DEF PathShapes, OneInHand
  <2>5. InHand' = InHand /\ Filed' = Filed
    BY <2>1 DEF InHand, Filed
  <2>6. Kept \subseteq Kept' /\ b \in Kept'
    BY <2>1, <2>3, <2>5, KeptIs
  <2>7. Goal
    BY <1>6, <2>6, HandedOver DEF SubmitSend, Config, b
  <2> QED
    BY <1>mode, <2>4, <2>6, <2>7
<1>7. CASE SubmitRefused(e)
  <2>1. PathRests
    BY <1>7 DEF SubmitRefused, RefuseBatch, plVars, dlVars, PathRests
  <2>2. PathShapes' /\ OneInHand' /\ Kept \subseteq Kept'
    BY <2>1, RestingPathKeeps
  <2>3. rqPc[e] = "send" /\ UNCHANGED <<rqAttempt, rqGroup, rqCounted, rqPlace>>
    BY <1>7 DEF SubmitRefused
  <2>4. CASE AggregateACK
    <3>1. rqPc' = [rqPc EXCEPT ![e] = "offer"] /\ rqResp' = rqResp
      BY <1>7, <2>4 DEF SubmitRefused, Goto
    <3>2. rqPc'[e] = "offer"
      BY <3>1 DEF ClientShapes
    <3>3. ClientShapes' /\ \A v \in RqExporters : v # e => ExportRests(v)
      BY <2>3, <3>1 DEF ClientShapes, ExportRests
    <3>4. Underway(e)' /\ AnsweredWhole(e)'
      BY <1>mode, <2>3, <3>1, <3>2 DEF ExportOK, Underway, AnsweredWhole, Groups
    <3>5. PlacesKept(e)'
      BY <1>same, <2>2, <2>3, <3>2 DEF ExportOK, PlacesKept
    <3>6. CountedOnce(e)'
      BY <1>ack, <2>3, <2>4, <3>1, <3>2 DEF ExportOK, CountedOnce
    <3> QED
      BY <1>mode, <2>2, <3>3, <3>4, <3>5, <3>6 DEF ExportOK
  <2>5. CASE ~AggregateACK
    <3>1. AckIsAsync => rqCounted[e] = 0
      BY <2>3, <2>5 DEF ExportOK, CountedOnce
    <3>2. Goal
      BY <1>mode, <1>7, <2>2, <2>3, <2>5, <3>1, Failing DEF SubmitRefused
    <3> QED
      BY <1>mode, <2>2, <3>2
  <2> QED
    BY <2>4, <2>5
<1>8. CASE OfferRefused(e)
  <2>1. /\ rqPc[e] = "offer" /\ Advance(e)
        /\ UNCHANGED <<rqAttempt, rqCounted, rqResp, rawStored>>
    BY <1>8 DEF OfferRefused
  <2>2. CASE rqDlqOff[e] /\ Place(e, rqGroup[e], "lost") /\ UNCHANGED <<plVars, dlVars>>
    <3>1. PathRests
      BY <2>1, <2>2 DEF plVars, dlVars, PathRests
    <3>2. PathShapes' /\ OneInHand' /\ Kept \subseteq Kept'
      BY <3>1, RestingPathKeeps
    <3>3. Goal
      BY <1>mode, <2>1, <2>2, <3>2, HandedOver
    <3> QED
      BY <1>mode, <3>2, <3>3
  <2>3. CASE /\ OfferToDLQ(Current(e))
             /\ \/ plDlqEnqueued' > plDlqEnqueued /\ Place(e, rqGroup[e], "deferred")
                \/ Place(e, rqGroup[e], "lost")
    <3> DEFINE b == Current(e)
    <3>1. EnqueueDLQ(b) /\ UNCHANGED <<plQueue, plWorker>>
      BY <2>3 DEF OfferToDLQ
    <3>2. b \in RqBatches
      BY <2>1, GroupIsBatch DEF Current, ExportOK, Underway
    <3> HIDE DEF b
    <3>3. /\ dlFiles' \in Seq(Envelopes) /\ dlNext' \in Nat /\ plDlqEnqueued' \in Nat
          /\ Filed \cup dlEvicted \cup dlDropped \cup plLost \cup {b}
               \subseteq Filed' \cup dlEvicted' \cup dlDropped' \cup plLost'
          /\ plDlqEnqueued' > plDlqEnqueued => b \in Filed'
      BY <3>1, <3>2, EnqueueDLQKeeps
    <3>4. PathShapes' /\ OneInHand'
      BY <3>1, <3>3 DEF PathShapes, OneInHand
    <3>5. InHand' = InHand
      BY <3>1 DEF InHand
    <3>6. Kept \subseteq Kept' /\ b \in Kept'
      BY <2>1, <3>1, <3>3, <3>5, KeptIs
    <3>7. Goal
      BY <1>mode, <2>1, <2>3, <3>6, HandedOver DEF b
    <3> QED
      BY <1>mode, <3>4, <3>6, <3>7
  <2> QED
    BY <1>8, <2>2, <2>3 DEF OfferRefused
<1>9. CASE SyncInsert(e)
  <2>1. PathRests
    BY <1>9 DEF SyncInsert, plVars, dlVars, PathRests
  <2>2. PathShapes' /\ OneInHand' /\ Kept \subseteq Kept'
    BY <2>1, RestingPathKeeps
  <2>p. PICK p \in {"stored", "bare"} : rqPlace' = [rqPlace EXCEPT ![e] = [g \in Groups(e) |-> p]]
    BY <1>9 DEF SyncInsert
  <2> DEFINE s == [g \in Groups(e) |-> p]
             O == {"queued", "dropped", "deferred", "lost", "stored", "bare"}
  <2>3. /\ rqPc[e] = "sync" /\ rqPc' = [rqPc EXCEPT ![e] = "post"]
        /\ rqPlace' = [rqPlace EXCEPT ![e] = s]
        /\ rawStored' = rawStored \cup {BatchOf(e, g) : g \in Groups(e)}
        /\ UNCHANGED <<rqAttempt, rqGroup, rqResp, rqCounted>>
    BY <1>9, <2>p DEF SyncInsert, Goto
  <2>4. s \in Seq(O) /\ Len(s) = Len(RqGroups[e]) /\ DOMAIN s = Groups(e)
    BY <1>groups
  <2> HIDE DEF s
  <2>5. rqPc'[e] = "post" /\ rqPlace'[e] = s
    BY <2>3 DEF ClientShapes
  <2>6. ClientShapes' /\ \A v \in RqExporters : v # e => ExportRests(v)
    BY <2>3, <2>4 DEF ClientShapes, ExportRests
  <2>7. Underway(e)' /\ AnsweredWhole(e)'
    BY <2>3, <2>4, <2>5 DEF ExportOK, Underway, AnsweredWhole
  <2>8. PlacesKept(e)'
    <3>1. \A g \in Groups(e) : BatchOf(e, g) \in Kept'
      BY <2>3, KeptIs
    <3> QED
      BY <1>same, <2>3, <2>4, <2>5, <3>1 DEF PlacesKept
  <2>9. CountedOnce(e)'
    BY <1>ack, <2>3, <2>5 DEF ExportOK, Underway, CountedOnce, AckIsAsync
  <2> QED
    BY <1>mode, <2>2, <2>6, <2>7, <2>8, <2>9 DEF ExportOK
<1>10. CASE SyncInsertFails(e)
  <2>1. PathRests
    BY <1>10 DEF SyncInsertFails, plVars, dlVars, PathRests
  <2>2. PathShapes' /\ OneInHand' /\ Kept \subseteq Kept'
    BY <2>1, RestingPathKeeps
  <2>3. (AckIsAsync => rqCounted[e] = 0) /\ rqPc[e] # "idle"
    BY <1>10 DEF SyncInsertFails, ExportOK, Underway, CountedOnce, AckIsAsync
  <2>4. Goal
    BY <1>mode, <1>10, <2>2, <2>3, Failing DEF SyncInsertFails
  <2> QED
    BY <1>mode, <2>2, <2>4
<1>11. CASE ApplyPost(e)
  <2>1. PathRests
    BY <1>11 DEF ApplyPost, plVars, dlVars, PathRests
  <2>2. PathShapes' /\ OneInHand' /\ Kept \subseteq Kept'
    BY <2>1, RestingPathKeeps
  <2>3. /\ rqPc[e] = "post" /\ rqPc' = [rqPc EXCEPT ![e] = "done"]
        /\ rqResp' = [rqResp EXCEPT ![e] = Response(e)]
        /\ \/ rqMode = "shadow" /\ rqCounted' = [rqCounted EXCEPT ![e] = @ + 1]
           \/ rqCounted' = rqCounted
        /\ UNCHANGED <<rqAttempt, rqGroup, rqPlace>>
    BY <1>11 DEF ApplyPost, Goto
  <2>4. /\ Response(e) \in {"ok", "warn"}
        /\ \A i \in DOMAIN rqPlace[e] : rqPlace[e][i] = "lost" => Response(e) = "warn"
    BY DEF Response
  <2>counted.
        /\ rqCounted' \in [RqExporters -> Nat]
        /\ \A v \in RqExporters : v # e => rqCounted'[v] = rqCounted[v]
        /\ \/ rqCounted'[e] = rqCounted[e]
           \/ rqMode = "shadow" /\ rqCounted'[e] = rqCounted[e] + 1
    <3>1. CASE rqMode = "shadow" /\ rqCounted' = [rqCounted EXCEPT ![e] = @ + 1]
      BY <3>1 DEF ClientShapes
    <3>2. CASE rqCounted' = rqCounted
      BY <3>2 DEF ClientShapes
    <3> QED
      BY <2>3, <3>1, <3>2
  <2>5. rqPc'[e] = "done" /\ rqResp'[e] = Response(e)
    BY <2>3 DEF ClientShapes
  <2>others.
        /\ rqPc' \in [RqExporters -> {"idle", "pre", "submit", "slot", "send", "offer", "sync", "post", "done"}]
        /\ rqResp' \in [RqExporters -> {"none", "ok", "warn", "error"}]
        /\ \A v \in RqExporters : v # e => rqPc'[v] = rqPc[v] /\ rqResp'[v] = rqResp[v]
    BY <2>3, <2>4 DEF ClientShapes
  <2>6. ClientShapes' /\ \A v \in RqExporters : v # e => ExportRests(v)
    BY <2>3, <2>counted, <2>others DEF ClientShapes, ExportRests
  <2>7. Underway(e)' /\ AnsweredWhole(e)'
    BY <2>3, <2>4, <2>5 DEF ExportOK, Underway, AnsweredWhole
  <2>8. PlacesKept(e)'
    BY <1>same, <2>2, <2>3 DEF ExportOK, PlacesKept
  <2>9. CountedOnce(e)'
    BY <1>ack, <2>3, <2>4, <2>5, <2>counted DEF ExportOK, CountedOnce, AggregateACK
  <2> QED
    BY <1>mode, <2>2, <2>6, <2>7, <2>8, <2>9 DEF ExportOK
<1>12. CASE ApplyPostSaturated(e)
  <2>1. PathRests
    BY <1>12 DEF ApplyPostSaturated, plVars, dlVars, PathRests
  <2>2. PathShapes' /\ OneInHand' /\ Kept \subseteq Kept'
    BY <2>1, RestingPathKeeps
  <2>3. (AckIsAsync => rqCounted[e] = 0) /\ rqPc[e] # "idle"
    BY <1>12 DEF ApplyPostSaturated, ExportOK, CountedOnce, AggregateACK
  <2>4. Goal
    BY <1>mode, <1>12, <2>2, <2>3, Failing DEF ApplyPostSaturated
  <2> QED
    BY <1>mode, <2>2, <2>4
<1>13. CASE Retry(e)
  <2>1. PathRests
    BY <1>13 DEF Retry, plVars, dlVars, PathRests
  <2>2. PathShapes' /\ OneInHand' /\ Kept \subseteq Kept'
    BY <2>1, RestingPathKeeps
  <2>3. /\ rqPc[e] = "done" /\ rqResp[e] = "error" /\ rqPc' = [rqPc EXCEPT ![e] = "idle"]
        /\ rqAttempt' = [rqAttempt EXCEPT ![e] = @ + 1]
        /\ UNCHANGED <<rqGroup, rqCounted, rqPlace, rqResp>>
    BY <1>13 DEF Retry, Goto
  <2>4. rqPc'[e] = "idle"
    BY <2>3 DEF ClientShapes
  <2>5. ClientShapes' /\ \A v \in RqExporters : v # e => ExportRests(v)
    BY <2>3 DEF ClientShapes, ExportRests
  <2>6. Underway(e)' /\ PlacesKept(e)' /\ AnsweredWhole(e)'
    BY <2>3, <2>4 DEF Underway, PlacesKept, AnsweredWhole
  <2>7. CountedOnce(e)'
    BY <1>ack, <2>3, <2>4 DEF ExportOK, CountedOnce
  <2> QED
    BY <1>mode, <2>2, <2>5, <2>6, <2>7 DEF ExportOK
<1> QED
  BY <1>1, <1>2, <1>3, <1>4, <1>soft, <1>5, <1>6, <1>7, <1>8, <1>9, <1>10, <1>11, <1>12, <1>13
  DEF ExportNext

\* Every step of the handler counts at most once, and before the answer.
LEMMA CountsEach ==
    ASSUME ClientShapes, NEW e \in RqExporters, AnsweredWhole(e), CountedEach(e), ExportNext(e),
           UNCHANGED <<rqMode, rqAsync>>, ~AckIsAsync, Underway(e)
    PROVE  CountedEach(e)'
<1> SUFFICES ASSUME AggregateACK PROVE CountedEach(e)'
  BY DEF CountedEach, AggregateACK
<1>1. /\ rqCounted[e] \in Nat /\ rqAttempt[e] \in Nat /\ ~rqAsync /\ AggregateACK'
      /\ e \in DOMAIN rqPc /\ e \in DOMAIN rqResp /\ e \in DOMAIN rqCounted /\ e \in DOMAIN rqAttempt
  BY DEF ClientShapes, AckIsAsync, AggregateACK
<1>2. CASE Receive(e)
  <2>1. rqPc[e] = "idle" /\ rqPc'[e] = "pre" /\ UNCHANGED <<rqAttempt, rqCounted, rqResp>>
    BY <1>1, <1>2 DEF Receive, Goto
  <2>2. rqResp[e] \notin {"ok", "warn"}
    BY <2>1 DEF AnsweredWhole
  <2> QED
    BY <1>1, <2>1, <2>2 DEF CountedEach
<1>3. CASE ApplyPre(e)
  <2>1. /\ rqPc[e] = "pre" /\ rqPc'[e] = "sync" /\ rqCounted'[e] = rqCounted[e] + 1
        /\ UNCHANGED <<rqAttempt, rqResp>>
    BY <1>1, <1>3 DEF ApplyPre, Goto
  <2> QED
    BY <1>1, <2>1 DEF CountedEach
<1>4. CASE ApplyPreFails(e) \/ SyncInsertFails(e) \/ ApplyPostSaturated(e)
  <2>1. /\ rqPc'[e] = "done" /\ rqResp'[e] = "error" /\ UNCHANGED <<rqAttempt, rqCounted>>
    BY <1>1, <1>4 DEF ApplyPreFails, SyncInsertFails, ApplyPostSaturated, Goto
  <2> QED
    BY <1>1, <2>1 DEF CountedEach
<1>5. CASE SyncInsert(e)
  <2>1. rqPc[e] = "sync" /\ rqPc'[e] = "post" /\ UNCHANGED <<rqAttempt, rqCounted, rqResp>>
    BY <1>1, <1>5 DEF SyncInsert, Goto
  <2> QED
    BY <1>1, <2>1 DEF CountedEach
<1>6. CASE ApplyPost(e)
  <2>1. rqPc[e] = "post" /\ rqPc'[e] = "done" /\ UNCHANGED <<rqAttempt, rqCounted>>
    BY <1>1, <1>6 DEF ApplyPost, Goto, AggregateACK
  <2> QED
    BY <1>1, <2>1 DEF CountedEach
<1>7. CASE Retry(e)
  <2>1. /\ rqPc[e] = "done" /\ rqPc'[e] = "idle" /\ rqResp[e] = "error"
        /\ rqAttempt'[e] = rqAttempt[e] + 1 /\ UNCHANGED <<rqCounted, rqResp>>
    BY <1>1, <1>7 DEF Retry, Goto
  <2> QED
    BY <1>1, <2>1 DEF CountedEach
<1>8. rqPc[e] \notin {"submit", "slot", "send", "offer"}
  BY <1>1 DEF Underway
<1>9. ~(SubmitSoftDrop(e) \/ SubmitBelowSoft(e) \/ SubmitReserve(e) \/ SubmitSend(e) \/ SubmitRefused(e) \/ OfferRefused(e))
  BY <1>8 DEF SubmitSoftDrop, SubmitBelowSoft, SubmitReserve, SubmitSend, SubmitRefused, OfferRefused
<1> QED
  BY <1>2, <1>3, <1>4, <1>5, <1>6, <1>7, <1>9 DEF ExportNext

-------------------------------------------------------------------------------
(* The theorem.                                                            *)

\* The inductive invariant: shapes, one batch per worker, and every Export in order.
RawInv ==
    /\ ClientShapes /\ PathShapes /\ OneInHand
    /\ \A e \in RqExporters : ExportOK(e)

\* Every step of the raw path keeps the invariant.
LEMMA RawInvStep ==
    ASSUME RawInv, [RawNext]_rawVars
    PROVE  RawInv'
<1>1. ASSUME UNCHANGED <<rqMode, rqAsync, rqPc, rqResp, rqAttempt, rqGroup, rqCounted, rqPlace>>,
             PathShapes', OneInHand', Kept \subseteq Kept'
      PROVE  RawInv'
  <2>1. \A e \in RqExporters : ExportRests(e)
    BY <1>1 DEF ExportRests
  <2>2. \A e \in RqExporters : ExportOK(e)'
    BY <1>1, <2>1, RestingExport DEF RawInv
  <2>3. ClientShapes'
    BY <1>1 DEF RawInv, ClientShapes
  <2> QED
    BY <1>1, <2>2, <2>3 DEF RawInv
<1>2. ASSUME NEW e \in RqExporters, ExportNext(e)
      PROVE  RawInv'
  <2>1. /\ ClientShapes' /\ PathShapes' /\ OneInHand' /\ Kept \subseteq Kept'
        /\ UNCHANGED <<rqMode, rqAsync>> /\ ExportOK(e)'
        /\ \A v \in RqExporters : v # e => ExportRests(v)
    BY <1>2, ExportSteps DEF RawInv
  <2>2. \A v \in RqExporters : v # e => ExportOK(v)'
    BY <2>1, RestingExport DEF RawInv
  <2> QED
    BY <2>1, <2>2 DEF RawInv
<1>3. ASSUME \/ ShedChanges \/ StopPipeline
             \/ ShutdownReturns /\ UNCHANGED rqVars
             \/ UNCHANGED rawVars
      PROVE  RawInv'
  <2>1. UNCHANGED <<rqMode, rqAsync, rqPc, rqResp, rqAttempt, rqGroup, rqCounted, rqPlace>>
    BY <1>3 DEF ShedChanges, StopPipeline, rqVars, rawVars
  <2>2. PathRests
    BY <1>3 DEF ShedChanges, StopPipeline, CloseStop, ShutdownReturns, rawVars, plVars, dlVars,
               PathRests
  <2> QED
    BY <1>1, <2>1, <2>2, RestingPathKeeps DEF RawInv
<1>4. ASSUME NEW w \in PlWorkers, WorkerNext(w), UNCHANGED rqVars
      PROVE  RawInv'
  <2>1. PathShapes' /\ OneInHand' /\ Kept \subseteq Kept'
    BY <1>4, WorkerKeeps DEF RawInv
  <2> QED
    BY <1>1, <1>4, <2>1 DEF rqVars
<1> QED
  BY <1>2, <1>3, <1>4 DEF RawNext

\* The invariant of the raw path.
LEMMA RawInductive == RawSpec => []RawInv
<1>1. ASSUME RawInit PROVE RawInv
  <2>1. /\ rqPc = [e \in RqExporters |-> "idle"] /\ rqAttempt = [e \in RqExporters |-> 1]
        /\ rqGroup = [e \in RqExporters |-> 1] /\ rqCounted = [e \in RqExporters |-> 0]
        /\ rqPlace = [e \in RqExporters |-> <<>>] /\ rqResp = [e \in RqExporters |-> "none"]
        /\ plQueue = <<>> /\ plWorker = [w \in PlWorkers |-> [st |-> "idle", b |-> <<>>]]
        /\ dlFiles = <<>> /\ dlNext = 1 /\ plDlqEnqueued = 0
    BY <1>1 DEF RawInit, RqInit, PlInit, DlInit
  <2>2. ClientShapes
    BY <2>1 DEF ClientShapes
  <2>3. PathShapes
    <3>1. [st |-> "idle", b |-> <<>>] \in Hands
      BY DEF Hands
    <3> QED
      BY <2>1, <3>1 DEF PathShapes
  <2>4. OneInHand
    BY <2>1 DEF OneInHand
  <2>5. \A e \in RqExporters : ExportOK(e)
    BY <2>1 DEF ExportOK, Underway, PlacesKept, AnsweredWhole, CountedOnce
  <2> QED
    BY <2>2, <2>3, <2>4, <2>5 DEF RawInv
<1>2. RawInv /\ [RawNext]_rawVars => RawInv'
  BY RawInvStep
<1> QED
  BY <1>1, <1>2, PTL DEF RawSpec

\* The mode and the choice of the pipeline never change.
LEMMA ConfigurationStays ==
    ASSUME [RawNext]_rawVars
    PROVE  UNCHANGED <<rqMode, rqAsync>>
<1>1. CASE UNCHANGED rqVars
  BY <1>1 DEF rqVars
<1>2. CASE ShedChanges
  BY <1>2 DEF ShedChanges
<1>3. ASSUME NEW e \in RqExporters, ExportNext(e)
      PROVE  UNCHANGED <<rqMode, rqAsync>>
  BY <1>3 DEF ExportNext, Config, Receive, ApplyPre, ApplyPreFails, SubmitSoftDrop, SubmitBelowSoft, SubmitReserve,
     SubmitSend, SubmitRefused, OfferRefused, SyncInsert, SyncInsertFails, ApplyPost,
     ApplyPostSaturated, Retry
<1> QED
  BY <1>1, <1>2, <1>3 DEF RawNext, StopPipeline, rawVars

\* The acknowledging aggregate of the synchronous fallback, over all the steps.
CountedApart == ~AckIsAsync => \A e \in RqExporters : CountedEach(e)

\* The steps of the other parts leave the counts of the Exports alone.
LEMMA CountsStep ==
    ASSUME RawInv, CountedApart, [RawNext]_rawVars
    PROVE  CountedApart'
<1>1. UNCHANGED <<rqMode, rqAsync>>
  BY ConfigurationStays
<1> SUFFICES ASSUME ~AckIsAsync, NEW v \in RqExporters PROVE CountedEach(v)'
  BY <1>1 DEF CountedApart, AckIsAsync, AggregateACK
<1>2. CountedEach(v)
  BY DEF CountedApart
<1>3. ASSUME ExportRests(v) PROVE CountedEach(v)'
  BY <1>1, <1>2, <1>3 DEF CountedEach, ExportRests, AggregateACK
<1>4. CASE UNCHANGED rqVars
  BY <1>3, <1>4 DEF rqVars, ExportRests
<1>5. CASE ShedChanges
  BY <1>3, <1>5 DEF ShedChanges, ExportRests
<1>6. ASSUME NEW e \in RqExporters, ExportNext(e) PROVE CountedEach(v)'
  <2>1. /\ \A u \in RqExporters : u # e => ExportRests(u)
        /\ AnsweredWhole(e) /\ Underway(e) /\ ClientShapes
    BY <1>6, ExportSteps DEF RawInv, ExportOK
  <2>2. CASE v = e
    BY <1>1, <1>2, <1>6, <2>1, <2>2, CountsEach
  <2> QED
    BY <1>3, <2>1, <2>2
<1> QED
  BY <1>4, <1>5, <1>6 DEF RawNext, StopPipeline, rawVars

\* What the client was told holds in every interleaving of Exports, workers, retries, shedding
\* and shutdown, in every mode, with the pipeline and without, for any groups, queue and dead
\* letter limits.
THEOREM AnswersAreKept == RawSpec => []AnswerKept
<1>1. RawInit => CountedApart
  <2> SUFFICES ASSUME RawInit, NEW e \in RqExporters PROVE CountedEach(e)
    BY DEF CountedApart
  <2>1. rqCounted[e] = 0 /\ rqAttempt[e] = 1 /\ rqPc[e] = "idle" /\ rqResp[e] = "none"
    BY DEF RawInit, RqInit
  <2> QED
    BY <2>1 DEF CountedEach
<1>2. RawInv /\ CountedApart /\ [RawNext]_rawVars => CountedApart'
  BY CountsStep
<1>3. ASSUME RawInv, CountedApart PROVE AnswerKept
  <2> SUFFICES ASSUME NEW e \in RqExporters, rqResp[e] \in {"ok", "warn"}
               PROVE  /\ \A i \in DOMAIN rqPlace[e] :
                            /\ rqPlace[e][i] \in {"queued", "deferred", "stored", "bare"} =>
                                  BatchOf(e, i) \in Accounted \cup plLost
                            /\ rqPlace[e][i] = "lost" => rqResp[e] = "warn"
                      /\ Len(rqPlace[e]) = Len(RqGroups[e])
                      /\ rqCounted[e] <= IF AggregateACK /\ ~rqAsync THEN rqAttempt[e] ELSE 1
                      /\ AggregateACK => rqCounted[e] >= 1
    BY DEF AnswerKept
  <2>1. ExportOK(e)
    BY <1>3 DEF RawInv
  <2>2. /\ rqPc[e] = "done" /\ Len(rqPlace[e]) = Len(RqGroups[e])
        /\ \A i \in DOMAIN rqPlace[e] : rqPlace[e][i] = "lost" => rqResp[e] = "warn"
    BY <2>1 DEF ExportOK, AnsweredWhole
  <2>3. \A i \in DOMAIN rqPlace[e] :
          rqPlace[e][i] \in {"queued", "deferred", "stored", "bare"} =>
             BatchOf(e, i) \in Accounted \cup plLost
    BY <2>1, <2>2 DEF ExportOK, PlacesKept, Kept
  <2>4. AckIsAsync => rqCounted[e] <= 1 /\ (AggregateACK => rqCounted[e] >= 1)
    BY <2>1, <2>2 DEF ExportOK, CountedOnce
  <2>5. ~AckIsAsync => rqCounted[e] <= rqAttempt[e] /\ rqCounted[e] >= 1
    BY <1>3, <2>2 DEF CountedApart, CountedEach, AckIsAsync
  <2> QED
    BY <2>2, <2>3, <2>4, <2>5 DEF AckIsAsync
<1> QED
  BY <1>1, <1>2, <1>3, RawInductive, PTL DEF RawSpec

-------------------------------------------------------------------------------
(* The byte and tenant accounts of the queue.                              *)

\* The sizes of the batches, the batches a tenant's cap counts, and those whose slot is taken.
Sizes == [b \in RqBatches |-> b.size]
Capped(S, t) == {b \in S : b.tenant = t /\ TenantCapped(b)}
Out == InFlight \cup Sending

\* The accounts as sums the provers can reason about.
SlotsExact ==
    /\ Out \in SUBSET RqBatches /\ IsFiniteSet(Out)
    /\ plBytes = Total(Sizes, Out)
    /\ plTenant \in [PlTenants -> Int]
    /\ \A t \in PlTenants : plTenant[t] = Cardinality(Capped(Out, t))

\* A batch was submitted in an earlier delivery, or in this one before the group at hand.
Older(b) ==
    \/ b.att < rqAttempt[b.exp]
    \/ b.att = rqAttempt[b.exp] /\ b.grp < rqGroup[b.exp] /\ rqPc[b.exp] # "idle"

\* A batch on its way is in one place, once.
InFlightOnce ==
    /\ \A i, j \in DOMAIN plQueue : plQueue[i] = plQueue[j] => i = j
    /\ \A w \in PlWorkers : Range(plWorker[w].b) \cap Range(plQueue) = {}
    /\ \A v, w \in PlWorkers : v # w => Range(plWorker[v].b) \cap Range(plWorker[w].b) = {}
    /\ \A b \in InFlight : Older(b)

\* The fields of a batch.
LEMMA BatchFields ==
    ASSUME NEW b \in RqBatches
    PROVE  /\ b.exp \in RqExporters /\ b.att \in Nat /\ b.grp \in Nat /\ b.tenant \in PlTenants
           /\ b.size \in Nat /\ Sizes[b] = b.size
BY DEF RqBatches, Sizes

\* TakeSlot: one batch more, its bytes and its slot.
LEMMA SlotTaken ==
    ASSUME SlotsExact, NEW b \in RqBatches, b \notin Out, Out' = Out \cup {b},
           plTenant' = IF TenantCapped(b) THEN [plTenant EXCEPT ![b.tenant] = @ + 1] ELSE plTenant,
           plBytes' = plBytes + b.size
    PROVE  SlotsExact'
<1>1. \A y \in Out \cup {b} : Sizes[y] \in Nat
  BY BatchFields DEF SlotsExact
<1>2. /\ Total(Sizes, Out) \in Nat
      /\ Total(Sizes, Out \cup {b}) = Sizes[b] + Total(Sizes, Out)
  BY <1>1, TotalAdd DEF SlotsExact
<1>3. plBytes' = Total(Sizes, Out')
  BY <1>2, BatchFields DEF SlotsExact
<1>4. Out' \in SUBSET RqBatches /\ IsFiniteSet(Out')
  BY FS_AddElement DEF SlotsExact
<1>5. plTenant' \in [PlTenants -> Int]
  BY BatchFields DEF SlotsExact
<1>6. ASSUME NEW t \in PlTenants
      PROVE  plTenant'[t] = Cardinality(Capped(Out', t))
  <2>1. Capped(Out, t) \in SUBSET Out
    BY DEF Capped
  <2>2. IsFiniteSet(Capped(Out, t)) /\ Cardinality(Capped(Out, t)) \in Nat
    BY <2>1, FS_Subset, FS_CardinalityType DEF SlotsExact
  <2>3. CASE b.tenant = t /\ TenantCapped(b)
    <3>1. Capped(Out', t) = Capped(Out, t) \cup {b} /\ b \notin Capped(Out, t)
      BY <2>3 DEF Capped
    <3>2. Cardinality(Capped(Out', t)) = Cardinality(Capped(Out, t)) + 1
      BY <2>2, <3>1, FS_AddElement
    <3>3. plTenant'[t] = plTenant[t] + 1
      BY <2>3 DEF SlotsExact
    <3> QED
      BY <3>2, <3>3 DEF SlotsExact
  <2>4. CASE ~(b.tenant = t /\ TenantCapped(b))
    <3>1. Capped(Out', t) = Capped(Out, t)
      BY <2>4 DEF Capped
    <3>2. plTenant'[t] = plTenant[t]
      BY <2>4, BatchFields DEF SlotsExact
    <3> QED
      BY <3>1, <3>2 DEF SlotsExact
  <2> QED
    BY <2>3, <2>4
<1> QED
  BY <1>3, <1>4, <1>5, <1>6 DEF SlotsExact

\* GiveSlotBack: one batch less.
LEMMA SlotGivenBack ==
    ASSUME SlotsExact, NEW b \in Out, Out' = Out \ {b}, GiveSlotBack(b)
    PROVE  SlotsExact'
<1>0. b \in RqBatches
  BY DEF SlotsExact
<1>1. \A y \in Out : Sizes[y] \in Nat
  BY BatchFields DEF SlotsExact
<1>2. /\ Total(Sizes, Out) \in Nat
      /\ Total(Sizes, Out \ {b}) = Total(Sizes, Out) - Sizes[b]
  BY <1>1, TotalRemove DEF SlotsExact
<1>3. plBytes' = Total(Sizes, Out')
  BY <1>0, <1>2, BatchFields DEF SlotsExact, GiveSlotBack
<1>4. Out' \in SUBSET RqBatches /\ IsFiniteSet(Out')
  BY FS_RemoveElement DEF SlotsExact
<1>5. plTenant' \in [PlTenants -> Int]
  BY <1>0, BatchFields DEF SlotsExact, GiveSlotBack
<1>6. ASSUME NEW t \in PlTenants
      PROVE  plTenant'[t] = Cardinality(Capped(Out', t))
  <2>1. Capped(Out, t) \in SUBSET Out
    BY DEF Capped
  <2>2. IsFiniteSet(Capped(Out, t)) /\ Cardinality(Capped(Out, t)) \in Nat
    BY <2>1, FS_Subset, FS_CardinalityType DEF SlotsExact
  <2>3. CASE b.tenant = t /\ TenantCapped(b)
    <3>1. Capped(Out', t) = Capped(Out, t) \ {b} /\ b \in Capped(Out, t)
      BY <2>3 DEF Capped
    <3>2. Cardinality(Capped(Out', t)) = Cardinality(Capped(Out, t)) - 1
      BY <2>2, <3>1, FS_RemoveElement
    <3>3. plTenant'[t] = plTenant[t] - 1
      BY <2>3 DEF SlotsExact, GiveSlotBack
    <3> QED
      BY <3>2, <3>3 DEF SlotsExact
  <2>4. CASE ~(b.tenant = t /\ TenantCapped(b))
    <3>1. Capped(Out', t) = Capped(Out, t)
      BY <2>4 DEF Capped
    <3>2. plTenant'[t] = plTenant[t]
      BY <1>0, <2>4, BatchFields DEF SlotsExact, GiveSlotBack
    <3> QED
      BY <3>1, <3>2 DEF SlotsExact
  <2> QED
    BY <2>3, <2>4
<1> QED
  BY <1>3, <1>4, <1>5, <1>6 DEF SlotsExact

\* Where no slot is taken or given back the accounts stay.
LEMMA SlotsRest ==
    ASSUME SlotsExact, Out' = Out, UNCHANGED <<plBytes, plTenant>>
    PROVE  SlotsExact'
BY DEF SlotsExact

-------------------------------------------------------------------------------
(* Fresh and older batches.                                                *)

\* An Export moves on: to a later delivery, or within one never to an earlier group.
Onward(e) ==
    \/ rqAttempt'[e] > rqAttempt[e]
    \/ /\ rqAttempt'[e] = rqAttempt[e]
       /\ rqPc[e] = "idle" \/ (rqGroup'[e] >= rqGroup[e] /\ rqPc'[e] # "idle")

\* What was older stays older.
LEMMA OlderStays ==
    ASSUME ClientShapes, ClientShapes', NEW b \in RqBatches, Older(b), Onward(b.exp) \/ ExportRests(b.exp)
    PROVE  Older(b)'
<1> DEFINE e == b.exp
<1>1. /\ rqAttempt[e] \in Nat /\ rqAttempt'[e] \in Nat /\ rqGroup[e] \in Nat /\ rqGroup'[e] \in Nat
      /\ b.att \in Nat /\ b.grp \in Nat
  BY BatchFields DEF ClientShapes
<1> QED
  BY <1>1 DEF Older, Onward, ExportRests

\* The batch at hand was not submitted before, so it is not on its way.
LEMMA CurrentIsFresh ==
    ASSUME ClientShapes, InFlightOnce, NEW e \in RqExporters, rqGroup[e] \in Groups(e)
    PROVE  Current(e) \in RqBatches /\ Current(e) \notin InFlight /\ Current(e).exp = e
<1>1. Current(e) \in RqBatches
  BY GroupIsBatch DEF Current
<1>2. Current(e).exp = e /\ Current(e).att = rqAttempt[e] /\ Current(e).grp = rqGroup[e]
  BY DEF Current, BatchOf
<1>3. rqAttempt[e] \in Nat /\ rqGroup[e] \in Nat
  BY DEF ClientShapes
<1>4. ~Older(Current(e))
  BY <1>2, <1>3 DEF Older
<1> QED
  BY <1>1, <1>2, <1>4 DEF InFlightOnce

\* What is being sent, before and after a step.
LEMMA SendingIs ==
    /\ \A b : b \in Sending <=> \E x \in RqExporters : rqPc[x] = "send" /\ b = Current(x)
    /\ \A b : b \in Sending' <=> \E x \in RqExporters : rqPc'[x] = "send" /\ b = Current(x)'
BY DEF Sending, Current

\* The batch at hand of an Export that rests.
LEMMA RestingCurrent ==
    ASSUME NEW v, ExportRests(v)
    PROVE  Current(v)' = Current(v)
BY DEF Current, BatchOf, ExportRests

\* When one Export moves, its own batch at hand is all that enters or leaves Sending.
LEMMA SendingMoves ==
    ASSUME ClientShapes, NEW e \in RqExporters, \A v \in RqExporters : v # e => ExportRests(v)
    PROVE  /\ rqPc[e] # "send" /\ rqPc'[e] # "send" => Sending' = Sending
           /\ rqPc[e] # "send" /\ rqPc'[e] = "send" /\ Current(e)' = Current(e) =>
                Sending' = Sending \cup {Current(e)} /\ Current(e) \notin Sending
           /\ rqPc[e] = "send" /\ rqPc'[e] # "send" =>
                Sending' = Sending \ {Current(e)} /\ Current(e) \in Sending
<1>1. \A v \in RqExporters : v # e => rqPc'[v] = rqPc[v] /\ Current(v)' = Current(v)
  BY RestingCurrent DEF ExportRests
<1>2. \A v \in RqExporters : v # e => Current(v) # Current(e)
  <2>1. \A v \in RqExporters : Current(v).exp = v
    BY DEF Current, BatchOf
  <2> QED
    BY <2>1
<1>3. ASSUME rqPc[e] # "send", rqPc'[e] # "send" PROVE Sending' = Sending
  BY <1>1, <1>3, SendingIs
<1>4. ASSUME rqPc[e] # "send", rqPc'[e] = "send", Current(e)' = Current(e)
      PROVE  Sending' = Sending \cup {Current(e)} /\ Current(e) \notin Sending
  BY <1>1, <1>2, <1>4, SendingIs
<1>5. ASSUME rqPc[e] = "send", rqPc'[e] # "send"
      PROVE  Sending' = Sending \ {Current(e)} /\ Current(e) \in Sending
  BY <1>1, <1>2, <1>5, SendingIs
<1> QED
  BY <1>3, <1>4, <1>5

-------------------------------------------------------------------------------
(* Workers.                                                                *)

\* The head leaves a queue without repetitions.
LEMMA TailSplits ==
    ASSUME NEW S, NEW q \in Seq(S), q # <<>>, \A i, j \in DOMAIN q : q[i] = q[j] => i = j
    PROVE  /\ Head(q) \in S /\ Tail(q) \in Seq(S)
           /\ Range(q) = Range(Tail(q)) \cup {Head(q)} /\ Head(q) \notin Range(Tail(q))
           /\ \A i, j \in DOMAIN Tail(q) : Tail(q)[i] = Tail(q)[j] => i = j
<1>1. /\ Head(q) \in S /\ Tail(q) \in Seq(S)
      /\ Len(q) \in Nat /\ Len(q) > 0 /\ Head(q) = q[1]
      /\ DOMAIN q = 1 .. Len(q)
      /\ DOMAIN Tail(q) = 1 .. (Len(q) - 1)
      /\ \A i \in 1 .. (Len(q) - 1) : Tail(q)[i] = q[i + 1]
  OBVIOUS
<1> DEFINE h == Head(q)
           t == Tail(q)
<1> HIDE DEF h, t
<1>2. /\ Len(q) \in Nat /\ Len(q) > 0 /\ h = q[1] /\ DOMAIN q = 1 .. Len(q)
      /\ DOMAIN t = 1 .. (Len(q) - 1) /\ \A i \in 1 .. (Len(q) - 1) : t[i] = q[i + 1]
  BY <1>1 DEF h, t
<1>3. \A i \in DOMAIN t : i + 1 \in DOMAIN q /\ t[i] = q[i + 1] /\ i + 1 # 1
  BY <1>2
<1>4. \A i, j \in DOMAIN t : t[i] = t[j] => i = j
  <2> SUFFICES ASSUME NEW i \in DOMAIN t, NEW j \in DOMAIN t, t[i] = t[j] PROVE i = j
    OBVIOUS
  <2>1. i + 1 = j + 1
    BY <1>3
  <2> QED
    BY <1>2, <2>1
<1>5. 1 \in DOMAIN q
  BY <1>2
<1>6. h \notin Range(t)
  BY <1>2, <1>3, <1>5 DEF Range
<1>7. Range(t) \cup {h} \subseteq Range(q)
  BY <1>2, <1>3, <1>5 DEF Range
<1>8. ASSUME NEW i \in DOMAIN q PROVE q[i] \in Range(t) \cup {h}
  <2>1. CASE i = 1
    BY <1>2, <2>1
  <2>2. CASE i # 1
    <3>1. i - 1 \in DOMAIN t /\ t[i - 1] = q[i]
      BY <1>2, <2>2
    <3> QED
      BY <3>1 DEF Range
  <2> QED
    BY <2>1, <2>2
<1>9. Range(q) \subseteq Range(t) \cup {h}
  BY <1>8 DEF Range
<1> QED
  BY <1>1, <1>4, <1>6, <1>7, <1>9 DEF h, t

\* What one worker holds.
Holds(w) == Range(plWorker[w].b)

\* A batch on its way is in one place, once, in terms of Holds.
LEMMA OnceIs ==
    /\ InFlightOnce <=>
         /\ \A i, j \in DOMAIN plQueue : plQueue[i] = plQueue[j] => i = j
         /\ \A w \in PlWorkers : Holds(w) \cap Range(plQueue) = {}
         /\ \A v, w \in PlWorkers : v # w => Holds(v) \cap Holds(w) = {}
         /\ \A b \in InFlight : Older(b)
    /\ \A b : b \in InFlight <=> b \in Range(plQueue) \/ \E w \in PlWorkers : b \in Holds(w)
    /\ \A b : b \in InFlight' <=> b \in Range(plQueue') \/ \E w \in PlWorkers : b \in Holds(w)'
BY DEF InFlightOnce, Holds, InFlight

\* Nobody's progress makes a batch fresh again.
LEMMA OlderRests ==
    ASSUME UNCHANGED rqVars, NEW b, Older(b)
    PROVE  Older(b)'
BY DEF Older, rqVars

\* A worker that takes the head moves a batch from the queue into its hands.
LEMMA TakingMovesOne ==
    ASSUME PathShapes, InFlightOnce, NEW w \in PlWorkers, TakeBatch(w), UNCHANGED rqVars
    PROVE  InFlight' = InFlight /\ InFlightOnce'
<1> DEFINE h == Head(plQueue)
<1>1. /\ plWorker[w].b = <<>> /\ plQueue # <<>> /\ plQueue' = Tail(plQueue)
      /\ plWorker' = [plWorker EXCEPT ![w].b = <<h>>]
  BY DEF TakeBatch
<1>2. plQueue \in Seq(RqBatches) /\ \A i, j \in DOMAIN plQueue : plQueue[i] = plQueue[j] => i = j
  BY DEF PathShapes, InFlightOnce
<1>3. /\ h \in RqBatches
      /\ Range(plQueue) = Range(plQueue') \cup {h} /\ h \notin Range(plQueue')
      /\ \A i, j \in DOMAIN plQueue' : plQueue'[i] = plQueue'[j] => i = j
  BY <1>1, <1>2, TailSplits
<1> HIDE DEF h
<1>4. plWorker'[w].b = <<h>> /\ \A v \in PlWorkers : v # w => plWorker'[v] = plWorker[v]
  <2>1. <<h>> \in Seq(RqBatches)
    BY <1>3
  <2> QED
    BY <1>1, <2>1, HandChanges
<1>5. Holds(w) = {} /\ Holds(w)' = {h}
  BY <1>1, <1>4 DEF Holds, Range
<1>6. \A v \in PlWorkers : v # w => Holds(v)' = Holds(v)
  BY <1>4 DEF Holds
<1>7. InFlight' = InFlight
  BY <1>3, <1>5, <1>6, OnceIs
<1>8. \A b \in InFlight' : Older(b)'
  BY <1>7, OlderRests, OnceIs
<1>9. \A v \in PlWorkers : Holds(v)' \cap Range(plQueue') = {}
  BY <1>3, <1>5, <1>6, OnceIs
<1>10. \A u, v \in PlWorkers : u # v => Holds(u)' \cap Holds(v)' = {}
  BY <1>3, <1>5, <1>6, OnceIs
<1> QED
  BY <1>3, <1>7, <1>8, <1>9, <1>10 DEF InFlightOnce, Holds

\* A worker that is done leaves nothing of its batch behind.
LEMMA ProcessedLeaves ==
    ASSUME PathShapes, OneInHand, InFlightOnce, NEW w \in PlWorkers, Processed(w),
           UNCHANGED rqVars
    PROVE  /\ InFlight' = InFlight \ {plWorker[w].b[1]} /\ plWorker[w].b[1] \in InFlight
           /\ InFlightOnce'
<1> DEFINE x == plWorker[w].b[1]
<1>1. /\ plWorker[w].b # <<>> /\ plQueue' = plQueue
      /\ plWorker' = [plWorker EXCEPT ![w].b = <<>>]
  BY DEF Processed
<1>2. plWorker'[w].b = <<>> /\ \A v \in PlWorkers : v # w => plWorker'[v] = plWorker[v]
  <2>1. <<>> \in Seq(RqBatches)
    OBVIOUS
  <2> QED
    BY <1>1, <2>1, HandChanges
<1>3. Holds(w) = {x}
  <2>1. plWorker[w] \in Hands
    BY DEF PathShapes
  <2>2. plWorker[w].b \in Seq(RqBatches)
    BY <2>1 DEF Hands
  <2>3. Len(plWorker[w].b) = 1
    BY <1>1, <2>2, SingleIsOne DEF OneInHand
  <2>4. DOMAIN plWorker[w].b = {1}
    BY <2>2, <2>3
  <2> QED
    BY <2>4 DEF Holds, Range
<1> HIDE DEF x
<1>4. Holds(w)' = {} /\ \A v \in PlWorkers : v # w => Holds(v)' = Holds(v)
  BY <1>2 DEF Holds, Range
<1>5. InFlight' = InFlight \ {x} /\ x \in InFlight
  BY <1>1, <1>3, <1>4, OnceIs
<1>6. \A b \in InFlight' : Older(b)'
  BY <1>5, OlderRests, OnceIs
<1>7. /\ \A v \in PlWorkers : Holds(v)' \cap Range(plQueue') = {}
      /\ \A u, v \in PlWorkers : u # v => Holds(u)' \cap Holds(v)' = {}
  BY <1>1, <1>4, OnceIs
<1> QED
  BY <1>1, <1>5, <1>6, <1>7 DEF InFlightOnce, Holds, x

\* What is on its way stays, when neither queue nor hands change.
LEMMA FlightRests ==
    ASSUME InFlightOnce, plQueue' = plQueue,
           \A w \in PlWorkers : plWorker'[w].b = plWorker[w].b,
           \A b \in InFlight : Older(b)'
    PROVE  InFlight' = InFlight /\ InFlightOnce'
<1>1. \A v \in PlWorkers : Holds(v)' = Holds(v)
  BY DEF Holds
<1>2. InFlight' = InFlight
  BY <1>1, OnceIs
<1>3. \A b \in InFlight' : Older(b)'
  BY <1>2
<1> QED
  BY <1>1, <1>2, <1>3, OnceIs DEF InFlightOnce, Holds

\* What is being sent is not on its way yet.
LEMMA SendingIsApart ==
    ASSUME ClientShapes, InFlightOnce, \A e \in RqExporters : ExportOK(e)
    PROVE  InFlight \cap Sending = {}
<1>1. \A e \in RqExporters : rqPc[e] = "send" => Current(e) \notin InFlight
  BY CurrentIsFresh DEF ExportOK, Underway
<1> QED
  BY <1>1, SendingIs

\* The worker's steps keep the slots and the batches on their way.
LEMMA WorkerAccounts ==
    ASSUME RawInv, SlotsExact, InFlightOnce, NEW w \in PlWorkers, WorkerNext(w), UNCHANGED rqVars
    PROVE  SlotsExact' /\ InFlightOnce'
<1>1. Sending' = Sending
  BY DEF Sending, BatchOf, rqVars
<1>2. CASE TakeBatch(w)
  <2>1. InFlight' = InFlight /\ InFlightOnce'
    BY <1>2, TakingMovesOne DEF RawInv
  <2>2. Out' = Out /\ UNCHANGED <<plBytes, plTenant>>
    BY <1>1, <1>2, <2>1 DEF Out, TakeBatch
  <2> QED
    BY <2>1, <2>2, SlotsRest
<1>3. CASE Processed(w)
  <2> DEFINE x == plWorker[w].b[1]
  <2>1. InFlight' = InFlight \ {x} /\ x \in InFlight /\ InFlightOnce'
    BY <1>3, ProcessedLeaves DEF RawInv
  <2>2. GiveSlotBack(x)
    BY <1>3 DEF Processed
  <2> HIDE DEF x
  <2>3. x \notin Sending
    BY <2>1, SendingIsApart DEF RawInv
  <2>4. x \in Out /\ Out' = Out \ {x}
    BY <1>1, <2>1, <2>3 DEF Out
  <2> QED
    BY <2>1, <2>2, <2>4, SlotGivenBack
<1>4. CASE SeeStop(w) \/ WorkerReturns(w)
  <2>1. /\ \A v \in PlWorkers : plWorker'[v].b = plWorker[v].b
        /\ UNCHANGED <<plQueue, plBytes, plTenant>>
    BY <1>4 DEF SeeStop, WorkerReturns, RawInv, PathShapes, Hands
  <2>2. \A b \in InFlight : Older(b)'
    BY OlderRests, OnceIs
  <2>3. InFlight' = InFlight /\ InFlightOnce'
    BY <2>1, <2>2, FlightRests
  <2>4. Out' = Out
    BY <1>1, <2>3 DEF Out
  <2> QED
    BY <2>1, <2>3, <2>4, SlotsRest
<1> QED
  BY <1>2, <1>3, <1>4 DEF WorkerNext, ProcessOK, ProcessPanics, ProcessFails

-------------------------------------------------------------------------------
(* Exports over the queue.                                                 *)

\* An Export never goes back to a group or a delivery it is done with.
LEMMA ExportGoesOnward ==
    ASSUME ClientShapes, NEW e \in RqExporters, ExportNext(e)
    PROVE  Onward(e)
<1>1. rqAttempt[e] \in Nat /\ rqGroup[e] \in Nat
  BY DEF ClientShapes
<1>2. CASE Receive(e)
  BY <1>2 DEF Receive, Onward
<1>3. CASE Retry(e)
  <2>1. rqAttempt'[e] = rqAttempt[e] + 1
    BY <1>3 DEF Retry, ClientShapes
  <2> QED
    BY <1>1, <2>1 DEF Onward
<1>4. CASE SubmitSoftDrop(e) \/ SubmitSend(e) \/ OfferRefused(e)
  <2>1. Advance(e) /\ rqAttempt' = rqAttempt
    BY <1>4 DEF SubmitSoftDrop, SubmitSend, OfferRefused
  <2>2. rqGroup'[e] = rqGroup[e] + 1 /\ rqPc'[e] \in {"post", "submit"}
    BY <2>1 DEF Advance, Goto, ClientShapes
  <2> QED
    BY <1>1, <2>1, <2>2 DEF Onward
<1>5. CASE \/ ApplyPre(e) \/ ApplyPreFails(e) \/ SubmitBelowSoft(e) \/ SubmitReserve(e) \/ SubmitRefused(e)
           \/ SyncInsert(e) \/ SyncInsertFails(e) \/ ApplyPost(e) \/ ApplyPostSaturated(e)
  <2>1. /\ rqAttempt' = rqAttempt /\ rqGroup' = rqGroup
        /\ \E l \in {"submit", "slot", "sync", "done", "send", "offer", "post"} : Goto(e, l)
    BY <1>5 DEF ApplyPre, ApplyPreFails, SubmitBelowSoft, SubmitReserve, SubmitRefused, SyncInsert,
                SyncInsertFails, ApplyPost, ApplyPostSaturated
  <2>2. rqPc'[e] # "idle"
    BY <2>1 DEF Goto, ClientShapes
  <2> QED
    BY <1>1, <2>1, <2>2 DEF Onward
<1> QED
  BY <1>2, <1>3, <1>4, <1>5 DEF ExportNext

\* The queue takes one more batch.
LEMMA AppendAdds ==
    ASSUME NEW S, NEW q \in Seq(S), NEW b \in S, b \notin Range(q),
           \A i, j \in DOMAIN q : q[i] = q[j] => i = j
    PROVE  /\ Range(Append(q, b)) = Range(q) \cup {b}
           /\ \A i, j \in DOMAIN Append(q, b) : Append(q, b)[i] = Append(q, b)[j] => i = j
<1> DEFINE a == Append(q, b)
<1>1. /\ Len(q) \in Nat /\ DOMAIN q = 1 .. Len(q) /\ DOMAIN a = 1 .. (Len(q) + 1)
      /\ a[Len(q) + 1] = b /\ \A i \in 1 .. Len(q) : a[i] = q[i]
  OBVIOUS
<1> HIDE DEF a
<1>2. \A i \in DOMAIN a : i # Len(q) + 1 => i \in DOMAIN q /\ a[i] = q[i]
  <2> SUFFICES ASSUME NEW i \in DOMAIN a, i # Len(q) + 1 PROVE i \in DOMAIN q /\ a[i] = q[i]
    OBVIOUS
  <2>1. i \in 1 .. Len(q)
    BY <1>1
  <2> QED
    BY <1>1, <2>1
<1>3. Range(a) = Range(q) \cup {b}
  BY <1>1, <1>2 DEF Range
<1>4. \A i \in DOMAIN q : q[i] # b
  BY DEF Range
<1>5. \A i, j \in DOMAIN a : a[i] = a[j] => i = j
  BY <1>1, <1>2, <1>4
<1> QED
  BY <1>3, <1>5 DEF a

\* The steps of an Export keep the slots and the batches on their way.
LEMMA ExportAccounts ==
    ASSUME RawInv, SlotsExact, InFlightOnce, NEW e \in RqExporters, ExportNext(e)
    PROVE  SlotsExact' /\ InFlightOnce'
<1> DEFINE c == Current(e)
<1>1. ClientShapes' /\ \A v \in RqExporters : v # e => ExportRests(v)
  BY ExportSteps DEF RawInv
<1>2. ClientShapes /\ PathShapes /\ ExportOK(e)
  BY DEF RawInv
<1>3. \A b \in InFlight : Older(b)'
  <2> SUFFICES ASSUME NEW b \in InFlight PROVE Older(b)'
    OBVIOUS
  <2>1. b \in RqBatches /\ Older(b)
    BY DEF SlotsExact, Out, InFlightOnce
  <2>2. b.exp \in RqExporters
    BY <2>1, BatchFields
  <2>3. Onward(b.exp) \/ ExportRests(b.exp)
    BY <1>1, <1>2, <2>2, ExportGoesOnward
  <2> QED
    BY <1>1, <1>2, <2>1, <2>3, OlderStays
<1>4. rqPc[e] \in {"slot", "send"} =>
        c \in RqBatches /\ c \notin InFlight /\ c.exp = e
  BY <1>2, CurrentIsFresh DEF ExportOK, Underway
<1> HIDE DEF c
<1>5. ASSUME UNCHANGED <<plQueue, plWorker, plBytes, plTenant>>,
             rqPc[e] # "send", rqPc'[e] # "send"
      PROVE  SlotsExact' /\ InFlightOnce'
  <2>1. InFlight' = InFlight /\ InFlightOnce'
    BY <1>3, <1>5, FlightRests
  <2>2. Sending' = Sending
    BY <1>1, <1>2, <1>5, SendingMoves
  <2>3. Out' = Out
    BY <2>1, <2>2 DEF Out
  <2> QED
    BY <1>5, <2>1, <2>3, SlotsRest
<1>6. CASE \/ Receive(e) \/ ApplyPre(e) \/ ApplyPreFails(e) \/ SubmitSoftDrop(e) \/ SubmitBelowSoft(e)
           \/ SyncInsert(e) \/ SyncInsertFails(e) \/ ApplyPost(e) \/ ApplyPostSaturated(e)
           \/ Retry(e)
  <2>1. /\ UNCHANGED <<plQueue, plWorker, plBytes, plTenant>> /\ rqPc[e] # "send"
        /\ \E l \in {"pre", "submit", "slot", "sync", "done", "post", "idle"} : Goto(e, l)
    BY <1>6 DEF Receive, ApplyPre, ApplyPreFails, SubmitSoftDrop, SubmitBelowSoft, Advance, SyncInsert,
                SyncInsertFails, ApplyPost, ApplyPostSaturated, Retry, plVars
  <2>2. rqPc'[e] # "send"
    BY <1>2, <2>1 DEF Goto, ClientShapes
  <2> QED
    BY <1>5, <2>1, <2>2
<1>7. CASE OfferRefused(e)
  <2>1. /\ UNCHANGED <<plQueue, plWorker, plBytes, plTenant>> /\ rqPc[e] # "send"
    BY <1>7 DEF OfferRefused, OfferToDLQ, plVars
  <2>2. \E l \in {"submit", "post"} : Goto(e, l)
    BY <1>7 DEF OfferRefused, Advance
  <2>3. rqPc'[e] # "send"
    BY <1>2, <2>2 DEF Goto, ClientShapes
  <2> QED
    BY <1>5, <2>1, <2>3
<1>8. CASE SubmitReserve(e)
  <2>1. /\ rqPc[e] = "slot" /\ Goto(e, "send") /\ TakeSlot(c)
        /\ UNCHANGED <<plQueue, plWorker, rqAttempt, rqGroup>>
    BY <1>8 DEF SubmitReserve, TakeSlot, c
  <2>2. rqPc'[e] = "send"
    BY <1>2, <2>1 DEF Goto, ClientShapes
  <2>3. Current(e)' = c
    BY <2>1 DEF Current, BatchOf, c
  <2>4. Sending' = Sending \cup {c} /\ c \notin Sending
    BY <1>1, <1>2, <2>1, <2>2, <2>3, SendingMoves DEF c
  <2>5. InFlight' = InFlight /\ InFlightOnce'
    BY <1>3, <2>1, FlightRests
  <2>6. Out' = Out \cup {c} /\ c \notin Out /\ c \in RqBatches
    BY <1>4, <2>1, <2>4, <2>5 DEF Out
  <2>7. /\ plTenant' = IF TenantCapped(c) THEN [plTenant EXCEPT ![c.tenant] = @ + 1] ELSE plTenant
        /\ plBytes' = plBytes + c.size
    BY <2>1 DEF TakeSlot
  <2>8. SlotsExact'
    BY <2>6, <2>7, SlotTaken
  <2> QED
    BY <2>5, <2>8
<1>9. CASE SubmitSend(e)
  <2>1. /\ rqPc[e] = "send" /\ plQueue' = Append(plQueue, c) /\ Advance(e)
        /\ UNCHANGED <<plWorker, plBytes, plTenant, rqAttempt>>
    BY <1>9 DEF SubmitSend, SendBatch, c
  <2>2. rqPc'[e] \in {"submit", "post"} /\ rqGroup'[e] = rqGroup[e] + 1
    BY <1>2, <2>1 DEF Advance, Goto, ClientShapes
  <2>3. Sending' = Sending \ {c} /\ c \in Sending
    BY <1>1, <1>2, <2>1, <2>2, SendingMoves DEF c
  <2>4. /\ plQueue \in Seq(RqBatches) /\ c \notin Range(plQueue)
        /\ \A i, j \in DOMAIN plQueue : plQueue[i] = plQueue[j] => i = j
    BY <1>2, <1>4, <2>1, OnceIs DEF PathShapes
  <2>5. /\ Range(plQueue') = Range(plQueue) \cup {c}
        /\ \A i, j \in DOMAIN plQueue' : plQueue'[i] = plQueue'[j] => i = j
    BY <1>4, <2>1, <2>4, AppendAdds
  <2>6. \A v \in PlWorkers : Holds(v)' = Holds(v)
    BY <2>1 DEF Holds
  <2>7. InFlight' = InFlight \cup {c}
    BY <2>5, <2>6, OnceIs
  <2>k. PICK k \in RqBatches : k = c
    BY <1>4, <2>1
  <2>8. Older(k)'
    <3>1. k.exp = e /\ k.att = rqAttempt[e] /\ k.grp = rqGroup[e]
      BY <2>k DEF c, Current, BatchOf
    <3>2. rqGroup[e] \in Nat /\ rqPc'[e] # "idle"
      BY <1>2, <2>2 DEF ClientShapes
    <3> QED
      BY <2>1, <2>2, <3>1, <3>2 DEF Older
  <2>9. \A b \in InFlight' : Older(b)'
    BY <1>3, <2>7, <2>8, <2>k
  <2>10. \A v \in PlWorkers : Holds(v)' \cap Range(plQueue') = {}
    BY <1>4, <2>1, <2>5, <2>6, OnceIs
  <2>11. \A u, v \in PlWorkers : u # v => Holds(u)' \cap Holds(v)' = {}
    BY <2>6, OnceIs
  <2>12. InFlightOnce'
    BY <2>5, <2>9, <2>10, <2>11 DEF InFlightOnce, Holds
  <2>13. Out' = Out
    BY <2>3, <2>7 DEF Out
  <2> QED
    BY <2>1, <2>12, <2>13, SlotsRest
<1>10. CASE SubmitRefused(e)
  <2>1. /\ rqPc[e] = "send" /\ GiveSlotBack(c) /\ UNCHANGED <<plQueue, plWorker>>
        /\ \E l \in {"offer", "done"} : Goto(e, l)
    BY <1>10 DEF SubmitRefused, RefuseBatch, c
  <2>2. rqPc'[e] # "send"
    BY <1>2, <2>1 DEF Goto, ClientShapes
  <2>3. Sending' = Sending \ {c} /\ c \in Sending
    BY <1>1, <1>2, <2>1, <2>2, SendingMoves DEF c
  <2>4. InFlight' = InFlight /\ InFlightOnce'
    BY <1>3, <2>1, FlightRests
  <2>5. Out' = Out \ {c} /\ c \in Out
    BY <1>4, <2>1, <2>3, <2>4 DEF Out
  <2> QED
    BY <2>1, <2>4, <2>5, SlotGivenBack
<1> QED
  BY <1>6, <1>7, <1>8, <1>9, <1>10 DEF ExportNext

-------------------------------------------------------------------------------
(* The exemplar ledger.                                                    *)

\* The sizes of an Export's groups.
SizeOf(e) == [g \in Groups(e) |-> RqGroups[e][g].size]

\* The groups of an Export and their sizes.
LEMMA GroupsAre ==
    ASSUME NEW e \in RqExporters
    PROVE  /\ Len(RqGroups[e]) \in Nat /\ Groups(e) = 1 .. Len(RqGroups[e]) /\ IsFiniteSet(Groups(e))
           /\ \A g \in Groups(e) : SizeOf(e)[g] = RqGroups[e][g].size /\ SizeOf(e)[g] \in Nat
<1>1. RqGroups[e] \in Seq(RqGroupSet)
  BY RqAssumption DEF RqGroupSet
<1>2. Len(RqGroups[e]) \in Nat /\ Groups(e) = 1 .. Len(RqGroups[e])
  BY <1>1 DEF Groups
<1>3. IsFiniteSet(Groups(e))
  BY <1>2, FS_Interval
<1>4. ASSUME NEW g \in Groups(e)
      PROVE  SizeOf(e)[g] = RqGroups[e][g].size /\ SizeOf(e)[g] \in Nat
  <2>1. RqGroups[e][g] \in RqGroupSet
    BY <1>1, <1>2
  <2> QED
    BY <2>1 DEF SizeOf, RqGroupSet
<1> QED
  BY <1>2, <1>3, <1>4

\* The recursion behind Weight.
WeightIterates(it, e, gs) ==
    it = [s \in SUBSET gs |-> IF s = {} THEN 0
                              ELSE RqGroups[e][CHOOSE x \in s : TRUE].size
                                     + it[s \ {CHOOSE x \in s : TRUE}]]

\* Weight adds the sizes up.
LEMMA WeightIs ==
    ASSUME NEW e \in RqExporters, NEW gs \in SUBSET Groups(e)
    PROVE  Weight(e, gs) = Total(SizeOf(e), gs) /\ Total(SizeOf(e), gs) \in Nat /\ IsFiniteSet(gs)
<1>1. Weight(e, gs) = (CHOOSE it : WeightIterates(it, e, gs))[gs]
  BY DEF Weight, MapThenSumSet, MapThenFoldSet, WeightIterates
<1>2. IsFiniteSet(gs) /\ \A g \in gs : SizeOf(e)[g] \in Nat /\ SizeOf(e)[g] = RqGroups[e][g].size
  BY GroupsAre, FS_Subset
<1>3. ASSUME NEW it PROVE WeightIterates(it, e, gs) <=> Iterates(it, SizeOf(e), gs)
  <2>1. \A s \in SUBSET gs : s # {} =>
          RqGroups[e][CHOOSE x \in s : TRUE].size = SizeOf(e)[CHOOSE x \in s : TRUE]
    <3> SUFFICES ASSUME NEW s \in SUBSET gs, s # {}
                 PROVE  RqGroups[e][CHOOSE x \in s : TRUE].size = SizeOf(e)[CHOOSE x \in s : TRUE]
      OBVIOUS
    <3>1. (CHOOSE x \in s : TRUE) \in s
      OBVIOUS
    <3> QED
      BY <1>2, <3>1
  <2>2. [s \in SUBSET gs |-> IF s = {} THEN 0 ELSE RqGroups[e][CHOOSE x \in s : TRUE].size
                                     + it[s \ {CHOOSE x \in s : TRUE}]]
      = [s \in SUBSET gs |-> IF s = {} THEN 0 ELSE SizeOf(e)[CHOOSE x \in s : TRUE]
                                     + it[s \ {CHOOSE x \in s : TRUE}]]
    BY <2>1
  <2> QED
    BY <2>2 DEF WeightIterates, Iterates
<1>4. \E it : WeightIterates(it, e, gs)
  BY <1>2, <1>3, TotalIsIter
<1>5. WeightIterates(CHOOSE it : WeightIterates(it, e, gs), e, gs)
  BY <1>4, Zenon
<1>6. Weight(e, gs) = Total(SizeOf(e), gs)
  BY <1>1, <1>2, <1>3, <1>5, IterIsTotal
<1> QED
  BY <1>2, <1>6, TotalType

\* The recursion behind the sum of the batches' sizes.
SizeIterates(it, S) ==
    it = [s \in SUBSET S |-> IF s = {} THEN 0
                             ELSE (CHOOSE x \in s : TRUE).size + it[s \ {CHOOSE x \in s : TRUE}]]

\* It adds the sizes up.
LEMMA SizesAddUp ==
    ASSUME NEW S \in SUBSET RqBatches, IsFiniteSet(S)
    PROVE  MapThenSumSet(LAMBDA b : b.size, S) = Total(Sizes, S)
<1>1. MapThenSumSet(LAMBDA b : b.size, S) = (CHOOSE it : SizeIterates(it, S))[S]
  BY DEF MapThenSumSet, MapThenFoldSet, SizeIterates
<1>2. \A b \in S : Sizes[b] \in Nat /\ Sizes[b] = b.size
  BY BatchFields
<1>3. ASSUME NEW it PROVE SizeIterates(it, S) <=> Iterates(it, Sizes, S)
  <2>1. \A s \in SUBSET S : s # {} => (CHOOSE x \in s : TRUE).size = Sizes[CHOOSE x \in s : TRUE]
    <3> SUFFICES ASSUME NEW s \in SUBSET S, s # {}
                 PROVE  (CHOOSE x \in s : TRUE).size = Sizes[CHOOSE x \in s : TRUE]
      OBVIOUS
    <3>1. (CHOOSE x \in s : TRUE) \in s
      OBVIOUS
    <3> QED
      BY <1>2, <3>1
  <2>2. [s \in SUBSET S |-> IF s = {} THEN 0 ELSE (CHOOSE x \in s : TRUE).size
                                     + it[s \ {CHOOSE x \in s : TRUE}]]
      = [s \in SUBSET S |-> IF s = {} THEN 0 ELSE Sizes[CHOOSE x \in s : TRUE]
                                     + it[s \ {CHOOSE x \in s : TRUE}]]
    BY <2>1
  <2> QED
    BY <2>2 DEF SizeIterates, Iterates
<1>4. \E it : SizeIterates(it, S)
  BY <1>2, <1>3, TotalIsIter
<1>5. SizeIterates(CHOOSE it : SizeIterates(it, S), S)
  BY <1>4, Zenon
<1> QED
  BY <1>1, <1>2, <1>3, <1>5, IterIsTotal

\* What an Export's handler must still settle.
Expected(e) ==
    IF AggregateACK /\ rqPc[e] \in {"pre", "submit", "slot", "send", "offer", "sync"}
    THEN {g \in Groups(e) : g >= rqGroup[e]} ELSE {}

\* What each Export has reserved.
Shares == [e \in RqExporters |-> Weight(e, rqHeld[e])]

\* The open reservations are those of the groups still to settle, and the ledger is their sum.
LedgerExact ==
    /\ rqHeld \in [RqExporters -> SUBSET Nat]
    /\ \A e \in RqExporters : rqHeld[e] = Expected(e)
    /\ rqReserved = Total(Shares, RqExporters)

\* The recursion behind the sum of the Exports' reservations.
ShareIterates(it) ==
    it = [s \in SUBSET RqExporters |->
            IF s = {} THEN 0
            ELSE Weight(CHOOSE x \in s : TRUE, rqHeld[CHOOSE x \in s : TRUE])
                   + it[s \ {CHOOSE x \in s : TRUE}]]

\* It adds the reservations up.
LEMMA SharesAddUp ==
    ASSUME LedgerExact
    PROVE  /\ MapThenSumSet(LAMBDA e : Weight(e, rqHeld[e]), RqExporters) = Total(Shares, RqExporters)
           /\ \A e \in RqExporters : Shares[e] = Weight(e, rqHeld[e]) /\ Shares[e] \in Nat
<1>1. MapThenSumSet(LAMBDA e : Weight(e, rqHeld[e]), RqExporters)
        = (CHOOSE it : ShareIterates(it))[RqExporters]
  BY DEF MapThenSumSet, MapThenFoldSet, ShareIterates
<1>2. \A e \in RqExporters : Shares[e] = Weight(e, rqHeld[e]) /\ Shares[e] \in Nat
  <2> SUFFICES ASSUME NEW e \in RqExporters
               PROVE  Shares[e] = Weight(e, rqHeld[e]) /\ Shares[e] \in Nat
    OBVIOUS
  <2>1. rqHeld[e] \in SUBSET Groups(e)
    BY DEF LedgerExact, Expected
  <2> QED
    BY <2>1, WeightIs DEF Shares
<1>3. ASSUME NEW it PROVE ShareIterates(it) <=> Iterates(it, Shares, RqExporters)
  <2>1. \A s \in SUBSET RqExporters : s # {} =>
           Weight(CHOOSE x \in s : TRUE, rqHeld[CHOOSE x \in s : TRUE])
             = Shares[CHOOSE x \in s : TRUE]
    <3> SUFFICES ASSUME NEW s \in SUBSET RqExporters, s # {}
                 PROVE  Weight(CHOOSE x \in s : TRUE, rqHeld[CHOOSE x \in s : TRUE])
                          = Shares[CHOOSE x \in s : TRUE]
      OBVIOUS
    <3>1. (CHOOSE x \in s : TRUE) \in s
      OBVIOUS
    <3> QED
      BY <1>2, <3>1
  <2>2. [s \in SUBSET RqExporters |-> IF s = {} THEN 0
           ELSE Weight(CHOOSE x \in s : TRUE, rqHeld[CHOOSE x \in s : TRUE])
                  + it[s \ {CHOOSE x \in s : TRUE}]]
      = [s \in SUBSET RqExporters |-> IF s = {} THEN 0 ELSE Shares[CHOOSE x \in s : TRUE]
                                     + it[s \ {CHOOSE x \in s : TRUE}]]
    BY <2>1
  <2> QED
    BY <2>2 DEF ShareIterates, Iterates
<1>f. IsFiniteSet(RqExporters)
  BY RqAssumption
<1>4. \E it : ShareIterates(it)
  BY <1>f, <1>2, <1>3, TotalIsIter
<1>5. ShareIterates(CHOOSE it : ShareIterates(it))
  BY <1>4, Zenon
<1> QED
  BY <1>f, <1>1, <1>2, <1>3, <1>5, IterIsTotal

\* One Export's reservation changes, and the ledger with it.
LEMMA LedgerMoves ==
    ASSUME LedgerExact, NEW e \in RqExporters, NEW h \in SUBSET Groups(e),
           rqHeld' = [rqHeld EXCEPT ![e] = h], h = Expected(e)',
           \A v \in RqExporters : v # e => Expected(v)' = Expected(v),
           rqReserved' = rqReserved - Weight(e, rqHeld[e]) + Weight(e, h)
    PROVE  LedgerExact'
<1>1. \A v \in RqExporters : rqHeld[v] \in SUBSET Groups(v) /\ rqHeld'[v] \in SUBSET Groups(v)
  BY DEF LedgerExact, Expected
<1>2. rqHeld'[e] = h /\ \A v \in RqExporters : v # e => rqHeld'[v] = rqHeld[v]
  BY DEF LedgerExact
<1>3. h \in SUBSET Nat
  BY GroupsAre
<1>4. rqHeld' \in [RqExporters -> SUBSET Nat] /\ \A v \in RqExporters : rqHeld'[v] = Expected(v)'
  BY <1>2, <1>3 DEF LedgerExact
<1> DEFINE f == Shares
           g == [v \in RqExporters |-> Weight(v, rqHeld'[v])]
<1>5. Shares' = g
  BY DEF Shares, Weight, MapThenSumSet, MapThenFoldSet
<1>6. \A v \in RqExporters : f[v] = Weight(v, rqHeld[v]) /\ g[v] = Weight(v, rqHeld'[v])
                          /\ f[v] \in Nat /\ g[v] \in Nat
  BY <1>1, WeightIs DEF Shares
<1>7. f[e] = Weight(e, rqHeld[e]) /\ g[e] = Weight(e, h) /\ f[e] \in Nat /\ g[e] \in Nat
  BY <1>2, <1>6
<1>8. \A v \in RqExporters : v # e => f[v] = g[v]
  BY <1>2, <1>6
<1> HIDE DEF f, g
<1>9. Total(f, RqExporters) \in Nat /\ Total(g, RqExporters) = Total(f, RqExporters) - f[e] + g[e]
  <2>1. IsFiniteSet(RqExporters)
    BY RqAssumption
  <2> QED
    BY <1>6, <1>8, <2>1, TotalChange
<1>10. rqReserved = Total(f, RqExporters)
  BY DEF LedgerExact, f
<1>11. rqReserved' = Total(g, RqExporters)
  BY <1>7, <1>9, <1>10
<1> QED
  BY <1>4, <1>5, <1>11 DEF LedgerExact

\* Settling some groups, kept or not, takes what they weigh off the ledger.
LEMMA Settled ==
    ASSUME LedgerExact, NEW e \in RqExporters, NEW gs,
           rqHeld' = [rqHeld EXCEPT ![e] = @ \ gs],
           rqReserved' = rqReserved - Weight(e, gs \cap rqHeld[e]),
           rqHeld[e] \ gs = Expected(e)',
           \A v \in RqExporters : v # e => Expected(v)' = Expected(v)
    PROVE  LedgerExact'
<1> DEFINE A == rqHeld[e] \ gs
           B == gs \cap rqHeld[e]
           f == SizeOf(e)
<1>1. rqHeld[e] \in SUBSET Groups(e)
  BY DEF LedgerExact, Expected
<1>2. A \in SUBSET Groups(e) /\ B \in SUBSET Groups(e) /\ A \cap B = {} /\ A \cup B = rqHeld[e]
  BY <1>1
<1>3. rqHeld' = [rqHeld EXCEPT ![e] = A] /\ A = Expected(e)'
      /\ rqReserved' = rqReserved - Weight(e, B)
  OBVIOUS
<1> HIDE DEF A, B
<1>4. /\ Weight(e, A) = Total(f, A) /\ Weight(e, B) = Total(f, B)
      /\ Weight(e, rqHeld[e]) = Total(f, rqHeld[e])
      /\ IsFiniteSet(A) /\ IsFiniteSet(B)
  BY <1>1, <1>2, WeightIs
<1>5. \A g \in A \cup B : f[g] \in Nat
  BY <1>2, GroupsAre
<1> HIDE DEF f
<1>6. Total(f, A) \in Nat /\ Total(f, B) \in Nat /\ Total(f, A \cup B) = Total(f, A) + Total(f, B)
  BY <1>2, <1>4, <1>5, TotalUnion
<1>7. rqReserved \in Int
  <2>1. IsFiniteSet(RqExporters) /\ \A v \in RqExporters : Shares[v] \in Nat
    BY RqAssumption, SharesAddUp
  <2> QED
    BY <2>1, TotalType DEF LedgerExact
<1>8. rqReserved' = rqReserved - Weight(e, rqHeld[e]) + Weight(e, A)
  <2>1. Weight(e, rqHeld[e]) = Weight(e, A) + Weight(e, B)
    BY <1>2, <1>4, <1>6
  <2>2. Weight(e, A) \in Nat /\ Weight(e, B) \in Nat
    BY <1>4, <1>6
  <2>3. rqReserved' = rqReserved - Weight(e, B)
    BY <1>3
  <2> QED
    BY <1>7, <2>1, <2>2, <2>3
<1> QED
  BY <1>2, <1>3, <1>8, LedgerMoves

\* The ledger stays where no Export passes from one group to another.
LEMMA LedgerRests ==
    ASSUME LedgerExact, UNCHANGED <<rqHeld, rqReserved>>,
           \A v \in RqExporters : Expected(v)' = Expected(v)
    PROVE  LedgerExact'
<1>1. Shares' = Shares
  BY DEF Shares, Weight, MapThenSumSet, MapThenFoldSet
<1> QED
  BY <1>1 DEF LedgerExact

\* The ledger over the steps of an Export.
LEMMA ExportLedger ==
    ASSUME RawInv, LedgerExact, NEW e \in RqExporters, ExportNext(e)
    PROVE  LedgerExact'
<1> DEFINE Open == {"pre", "submit", "slot", "send", "offer", "sync"}
<1>1. /\ \A v \in RqExporters : v # e => ExportRests(v)
      /\ UNCHANGED <<rqMode, rqAsync>> /\ ExportOK(e)'
  BY ExportSteps DEF RawInv
<1>2. ClientShapes /\ ExportOK(e) /\ (AggregateACK' <=> AggregateACK)
  BY <1>1 DEF RawInv, AggregateACK
<1>3. \A v \in RqExporters : v # e => Expected(v)' = Expected(v)
  BY <1>1, <1>2 DEF ExportRests, Expected, Groups
<1>4. /\ rqHeld[e] = IF AggregateACK /\ rqPc[e] \in Open
                     THEN {g \in Groups(e) : g >= rqGroup[e]} ELSE {}
      /\ Expected(e)' = IF AggregateACK /\ rqPc'[e] \in Open
                        THEN {g \in Groups(e) : g >= rqGroup'[e]} ELSE {}
  BY <1>2 DEF LedgerExact, Expected, Groups
<1>5. Groups(e) \in SUBSET Nat /\ \A g \in Groups(e) : g >= 1 /\ g <= Len(RqGroups[e])
  BY GroupsAre
<1>6. rqGroup[e] \in Nat
  BY <1>2 DEF ClientShapes
<1>7. CASE Receive(e)
  <2>1. /\ rqPc[e] = "idle" /\ HoldAll(e) /\ rqPc'[e] = "pre" /\ rqGroup'[e] = 1
    BY <1>2, <1>7 DEF Receive, Goto, ClientShapes
  <2>2. rqHeld[e] = {}
    BY <1>4, <2>1
  <2>3. Weight(e, {}) = 0
    <3>1. Weight(e, {}) = Total(SizeOf(e), {})
      BY WeightIs
    <3> QED
      BY <3>1, TotalEmpty
  <2> DEFINE h == IF AggregateACK THEN Groups(e) ELSE {}
  <2>4. /\ rqHeld' = [rqHeld EXCEPT ![e] = h] /\ h \in SUBSET Groups(e)
        /\ rqReserved' = rqReserved + Weight(e, h)
    <3>1. rqHeld' = [rqHeld EXCEPT ![e] = h] /\ h \in SUBSET Groups(e)
      BY <2>1 DEF HoldAll
    <3>2. CASE AggregateACK
      BY <2>1, <3>2 DEF HoldAll
    <3>3. CASE ~AggregateACK
      BY <2>1, <2>3, <3>3 DEF HoldAll
    <3> QED
      BY <3>1, <3>2, <3>3
  <2>5. {g \in Groups(e) : g >= 1} = Groups(e)
    BY <1>5
  <2>6. h = Expected(e)'
    BY <1>4, <2>1, <2>5
  <2> HIDE DEF h
  <2>7. rqReserved \in Int /\ Weight(e, h) \in Nat
    <3>1. IsFiniteSet(RqExporters) /\ \A v \in RqExporters : Shares[v] \in Nat
      BY RqAssumption, SharesAddUp
    <3> QED
      BY <2>4, <3>1, TotalType, WeightIs DEF LedgerExact
  <2>8. rqReserved' = rqReserved - Weight(e, rqHeld[e]) + Weight(e, h)
    BY <2>2, <2>3, <2>4, <2>7
  <2> QED
    BY <1>3, <2>4, <2>6, <2>8, LedgerMoves
<1>8. CASE ApplyPre(e) \/ SubmitBelowSoft(e) \/ SubmitReserve(e) \/ ApplyPost(e) \/ ApplyPostSaturated(e) \/ Retry(e)
  <2>1. /\ UNCHANGED <<rqHeld, rqReserved, rqGroup>>
        /\ \/ rqPc[e] \in Open /\ \E l \in Open : Goto(e, l)
           \/ rqPc[e] \notin Open /\ \E l \in {"idle", "done"} : Goto(e, l)
    BY <1>8 DEF ApplyPre, SubmitBelowSoft, SubmitReserve, ApplyPost, ApplyPostSaturated, Retry
  <2>2. (rqPc[e] \in Open /\ rqPc'[e] \in Open) \/ (rqPc[e] \notin Open /\ rqPc'[e] \notin Open)
    BY <1>2, <2>1 DEF Goto, ClientShapes
  <2>3. Expected(e)' = Expected(e)
    BY <1>2, <2>1, <2>2 DEF Expected, Groups
  <2> QED
    BY <1>3, <2>1, <2>3, LedgerRests
<1>9. CASE ApplyPreFails(e) \/ SyncInsert(e) \/ SyncInsertFails(e)
  <2>1. /\ CommitGroups(e, Groups(e)) \/ ReleaseGroups(e, Groups(e))
        /\ \E l \in {"done", "post"} : Goto(e, l)
    BY <1>9 DEF ApplyPreFails, SyncInsert, SyncInsertFails
  <2>2. rqPc'[e] \notin Open
    BY <1>2, <2>1 DEF Goto, ClientShapes
  <2>3. rqHeld[e] \ Groups(e) = {} /\ Expected(e)' = {}
    BY <1>4, <2>2
  <2>4. /\ rqHeld' = [rqHeld EXCEPT ![e] = @ \ Groups(e)]
        /\ rqReserved' = rqReserved - Weight(e, Groups(e) \cap rqHeld[e])
    BY <2>1 DEF CommitGroups, ReleaseGroups
  <2> QED
    BY <1>3, <2>3, <2>4, Settled
<1>10. CASE SubmitSoftDrop(e) \/ SubmitSend(e) \/ OfferRefused(e)
  <2> DEFINE n == rqGroup[e]
  <2>1. /\ CommitGroups(e, {n}) \/ ReleaseGroups(e, {n})
        /\ Advance(e) /\ rqPc[e] \in {"submit", "slot", "send", "offer"}
    BY <1>10 DEF SubmitSoftDrop, SubmitSend, OfferRefused
  <2>2. /\ rqPc'[e] = IF n = Len(RqGroups[e]) THEN "post" ELSE "submit"
        /\ rqGroup'[e] = n + 1
    BY <1>2, <2>1 DEF Advance, Goto, ClientShapes
  <2>3. rqHeld[e] \ {n} = Expected(e)'
    <3>1. CASE ~AggregateACK
      BY <1>4, <3>1
    <3>2. CASE AggregateACK /\ n # Len(RqGroups[e])
      <4>1. rqHeld[e] = {g \in Groups(e) : g >= n}
            /\ Expected(e)' = {g \in Groups(e) : g >= n + 1}
        BY <1>4, <2>1, <2>2, <3>2
      <4>2. \A g \in Groups(e) : (g >= n /\ g # n) <=> g >= n + 1
        BY <1>5, <1>6
      <4> QED
        BY <4>1, <4>2
    <3>3. CASE AggregateACK /\ n = Len(RqGroups[e])
      <4>1. rqHeld[e] = {g \in Groups(e) : g >= n} /\ Expected(e)' = {}
        BY <1>4, <2>1, <2>2, <3>3
      <4>2. \A g \in Groups(e) : g >= n => g = n
        BY <1>5, <1>6, <3>3
      <4> QED
        BY <4>1, <4>2
    <3> QED
      BY <3>1, <3>2, <3>3
  <2>4. /\ rqHeld' = [rqHeld EXCEPT ![e] = @ \ {n}]
        /\ rqReserved' = rqReserved - Weight(e, {n} \cap rqHeld[e])
    BY <2>1 DEF CommitGroups, ReleaseGroups
  <2> HIDE DEF n
  <2> QED
    BY <1>3, <2>3, <2>4, Settled
<1>11. CASE SubmitRefused(e)
  <2>1. CASE AggregateACK
    <3>1. UNCHANGED <<rqHeld, rqReserved, rqGroup>> /\ rqPc[e] = "send" /\ Goto(e, "offer")
      BY <1>11, <2>1 DEF SubmitRefused
    <3>2. rqPc'[e] = "offer"
      BY <1>2, <3>1 DEF Goto, ClientShapes
    <3>3. Expected(e)' = Expected(e)
      BY <1>2, <3>1, <3>2 DEF Expected, Groups
    <3> QED
      BY <1>3, <3>1, <3>3, LedgerRests
  <2>2. CASE ~AggregateACK
    <3> DEFINE gs == {g \in Groups(e) : g >= rqGroup[e]}
    <3>1. ReleaseGroups(e, gs)
      BY <1>11, <2>2 DEF SubmitRefused
    <3>2. /\ rqHeld' = [rqHeld EXCEPT ![e] = @ \ gs]
          /\ rqReserved' = rqReserved - Weight(e, gs \cap rqHeld[e])
      BY <3>1 DEF ReleaseGroups
    <3>3. rqHeld[e] \ gs = Expected(e)'
      BY <1>4, <2>2
    <3> HIDE DEF gs
    <3> QED
      BY <1>3, <3>2, <3>3, Settled
  <2> QED
    BY <2>1, <2>2
<1> QED
  BY <1>7, <1>8, <1>9, <1>10, <1>11 DEF ExportNext

-------------------------------------------------------------------------------
(* The theorem.                                                            *)

\* The inductive part beside RawInv.
Accounts == SlotsExact /\ InFlightOnce /\ LedgerExact

\* Every step keeps the accounts.
LEMMA AccountsStep ==
    ASSUME RawInv, Accounts, [RawNext]_rawVars
    PROVE  Accounts'
<1>1. ASSUME NEW e \in RqExporters, ExportNext(e) PROVE Accounts'
  BY <1>1, ExportAccounts, ExportLedger DEF Accounts
<1>2. ASSUME UNCHANGED <<rqMode, rqPc, rqAttempt, rqGroup, rqHeld, rqReserved>> PROVE LedgerExact'
  <2>1. \A v \in RqExporters : Expected(v)' = Expected(v)
    BY <1>2 DEF Expected, Groups, AggregateACK
  <2> QED
    BY <1>2, <2>1, LedgerRests DEF Accounts
<1>3. ASSUME NEW w \in PlWorkers, WorkerNext(w), UNCHANGED rqVars PROVE Accounts'
  BY <1>2, <1>3, WorkerAccounts DEF Accounts, rqVars
<1>4. CASE \/ ShedChanges \/ StopPipeline
           \/ ShutdownReturns /\ UNCHANGED rqVars
           \/ UNCHANGED rawVars
  <2>1. /\ UNCHANGED <<rqMode, rqPc, rqAttempt, rqGroup, rqHeld, rqReserved>>
        /\ UNCHANGED <<plQueue, plWorker, plBytes, plTenant>>
    BY <1>4 DEF ShedChanges, StopPipeline, CloseStop, ShutdownReturns, rqVars, rawVars, plVars
  <2>2. Sending' = Sending
    BY <2>1 DEF Sending, BatchOf
  <2>3. \A b \in InFlight : Older(b)'
    <3>1. \A b \in InFlight : Older(b)
      BY DEF Accounts, InFlightOnce
    <3> QED
      BY <2>1, <3>1 DEF Older
  <2>4. InFlight' = InFlight /\ InFlightOnce'
    BY <2>1, <2>3, FlightRests DEF Accounts
  <2>5. Out' = Out
    BY <2>2, <2>4 DEF Out
  <2> QED
    BY <1>2, <2>1, <2>4, <2>5, SlotsRest DEF Accounts
<1> QED
  BY <1>1, <1>3, <1>4 DEF RawNext

\* Submit, process, refusal and retry run against each other in any order and number, yet the
\* queue's byte and tenant accounts are exactly what is being sent, queued or processed, and
\* the reserved exemplar bytes exactly those of the Exports under way, for any groups, sizes,
\* caps, modes and number of Exports and workers: no slot or byte leaks or is freed twice.
THEOREM AccountsStayExact == RawSpec => []AccountsExact
<1>1. ASSUME RawInit PROVE Accounts
  <2>1. /\ rqPc = [e \in RqExporters |-> "idle"] /\ rqHeld = [e \in RqExporters |-> {}]
        /\ rqReserved = 0 /\ plQueue = <<>> /\ plBytes = 0 /\ plTenant = [t \in PlTenants |-> 0]
        /\ plWorker = [w \in PlWorkers |-> [st |-> "idle", b |-> <<>>]]
    BY <1>1 DEF RawInit, RqInit, PlInit
  <2>2. \A w \in PlWorkers : Holds(w) = {}
    BY <2>1 DEF Holds, Range
  <2>3. Range(plQueue) = {}
    BY <2>1 DEF Range
  <2>4. InFlight = {} /\ Sending = {}
    BY <2>1, <2>2, <2>3, OnceIs, SendingIs
  <2>5. Out = {}
    BY <2>4 DEF Out
  <2>6. SlotsExact
    <3>1. \A t \in PlTenants : Capped(Out, t) = {}
      BY <2>5 DEF Capped
    <3>2. IsFiniteSet({}) /\ Cardinality({}) = 0 /\ Total(Sizes, {}) = 0
      BY FS_EmptySet, TotalEmpty
    <3>3. plTenant \in [PlTenants -> Int] /\ \A t \in PlTenants : plTenant[t] = 0
      BY <2>1
    <3>4. \A t \in PlTenants : plTenant[t] = Cardinality(Capped(Out, t))
      BY <3>1, <3>2, <3>3
    <3> QED
      BY <2>1, <2>5, <3>2, <3>3, <3>4 DEF SlotsExact
  <2>7. InFlightOnce
    BY <2>1, <2>2, <2>4, OnceIs
  <2>8. LedgerExact
    <3>1. \A e \in RqExporters : rqHeld[e] = Expected(e)
      BY <2>1 DEF Expected
    <3>2. \A e \in RqExporters : Shares[e] = 0
      <4> SUFFICES ASSUME NEW e \in RqExporters PROVE Shares[e] = 0
        OBVIOUS
      <4>1. Weight(e, {}) = Total(SizeOf(e), {})
        BY WeightIs
      <4> QED
        BY <2>1, <4>1, TotalEmpty DEF Shares
    <3>3. Dots(Shares, RqExporters) = {}
      BY <3>2, DotsMember
    <3>4. Total(Shares, RqExporters) = 0
      BY <3>3, FS_EmptySet DEF Total
    <3> QED
      BY <2>1, <3>1, <3>4 DEF LedgerExact
  <2> QED
    BY <2>6, <2>7, <2>8 DEF Accounts
<1>2. RawInv /\ Accounts /\ [RawNext]_rawVars => Accounts'
  BY AccountsStep
<1>3. Accounts => AccountsExact
  <2> SUFFICES ASSUME Accounts PROVE AccountsExact
    OBVIOUS
  <2>1. plBytes = MapThenSumSet(LAMBDA b : b.size, InFlight \cup Sending)
    <3>1. Out \in SUBSET RqBatches /\ IsFiniteSet(Out) /\ plBytes = Total(Sizes, Out)
      BY DEF Accounts, SlotsExact
    <3>2. MapThenSumSet(LAMBDA b : b.size, Out) = Total(Sizes, Out)
      BY <3>1, SizesAddUp
    <3> QED
      BY <3>1, <3>2 DEF Out
  <2>2. \A t \in PlTenants : plTenant[t] =
          Cardinality({b \in InFlight \cup Sending : b.tenant = t /\ TenantCapped(b)})
    BY DEF Accounts, SlotsExact, Capped, Out
  <2>3. rqReserved = MapThenSumSet(LAMBDA e : Weight(e, rqHeld[e]), RqExporters)
    BY SharesAddUp DEF Accounts, LedgerExact
  <2>4. \A e \in RqExporters : rqPc[e] = "done" => rqHeld[e] = {}
    BY DEF Accounts, LedgerExact, Expected
  <2> QED
    BY <2>1, <2>2, <2>3, <2>4 DEF AccountsExact
<1> QED
  BY <1>1, <1>2, <1>3, RawInductive, PTL DEF RawSpec

-------------------------------------------------------------------------------
(* The dead letter queue on its own.                                       *)

DlEnvelopes == [name : Nat, batch : DlBatches]

\* A file's batch has a size.
LEMMA EnvelopeFields ==
    ASSUME NEW f \in DlEnvelopes
    PROVE  f.name \in Nat /\ f.batch \in DlBatches /\ f.batch.size \in Nat
BY DlAssumption DEF DlEnvelopes

\* The bytes of a directory are the total of its files' sizes.
LEMMA BytesAre ==
    ASSUME NEW s \in Seq(DlEnvelopes)
    PROVE  /\ Len(s) \in Nat /\ DOMAIN s = 1 .. Len(s) /\ IsFiniteSet(DOMAIN s)
           /\ \A i \in DOMAIN s : s[i] \in DlEnvelopes
           /\ \A i \in DOMAIN s : FileSizes(s)[i] = s[i].batch.size /\ FileSizes(s)[i] \in Nat
           /\ DirBytes(s) = Total(FileSizes(s), DOMAIN s) /\ DirBytes(s) \in Nat
<1>1. Len(s) \in Nat /\ DOMAIN s = 1 .. Len(s) /\ \A i \in DOMAIN s : s[i] \in DlEnvelopes
  OBVIOUS
<1>2. IsFiniteSet(DOMAIN s)
  BY <1>1, FS_Interval
<1>3. \A i \in DOMAIN s : FileSizes(s)[i] = s[i].batch.size /\ FileSizes(s)[i] \in Nat
  BY <1>1, EnvelopeFields DEF FileSizes
<1>4. DirBytes(s) = (CHOOSE it : Iterates(it, FileSizes(s), DOMAIN s))[DOMAIN s]
  BY DEF DirBytes, MapThenSumSet, MapThenFoldSet, Iterates
<1>5. DirBytes(s) = Total(FileSizes(s), DOMAIN s)
  BY <1>2, <1>3, <1>4, ChosenIsTotal
<1> QED
  BY <1>1, <1>2, <1>3, <1>5, TotalType

\* The directory t holds files of the directory s, in their order.
Thinned(t, s) ==
    \E pi \in [DOMAIN t -> DOMAIN s] :
        /\ \A i, j \in DOMAIN t : i < j => pi[i] < pi[j]
        /\ \A i \in DOMAIN t : t[i] = s[pi[i]]

\* A thinned directory is no larger, and its files are as ordered as before.
LEMMA ThinnedIsSmaller ==
    ASSUME NEW s \in Seq(DlEnvelopes), NEW t \in Seq(DlEnvelopes), Thinned(t, s)
    PROVE  /\ DirBytes(t) <= DirBytes(s)
           /\ \A i \in DOMAIN t : \E j \in DOMAIN s : t[i] = s[j]
           /\ (\A i, j \in DOMAIN s : i < j => s[i].name < s[j].name)
                => \A i, j \in DOMAIN t : i < j => t[i].name < t[j].name
<1>1. PICK pi \in [DOMAIN t -> DOMAIN s] :
        /\ \A i, j \in DOMAIN t : i < j => pi[i] < pi[j]
        /\ \A i \in DOMAIN t : t[i] = s[pi[i]]
  BY DEF Thinned
<1>2. DOMAIN t = 1 .. Len(t) /\ DOMAIN s = 1 .. Len(s) /\ Len(s) \in Nat /\ Len(t) \in Nat
  OBVIOUS
<1>3. ASSUME NEW i \in DOMAIN t, NEW j \in DOMAIN t, pi[i] = pi[j] PROVE i = j
  <2>1. i \in Nat /\ j \in Nat /\ pi[i] \in Nat /\ pi[j] \in Nat
    BY <1>1, <1>2
  <2> QED
    BY <1>1, <1>3, <2>1
<1>4. \A i \in DOMAIN t : FileSizes(t)[i] = FileSizes(s)[pi[i]]
  <2> SUFFICES ASSUME NEW i \in DOMAIN t PROVE FileSizes(t)[i] = FileSizes(s)[pi[i]]
    OBVIOUS
  <2>1. pi[i] \in DOMAIN s /\ t[i] = s[pi[i]]
    BY <1>1
  <2>2. FileSizes(t)[i] = t[i].batch.size /\ FileSizes(s)[pi[i]] = s[pi[i]].batch.size
    BY <2>1, BytesAre
  <2> QED
    BY <2>1, <2>2
<1>5. DirBytes(t) <= DirBytes(s)
  BY <1>1, <1>3, <1>4, BytesAre, TotalOfSome
<1> QED
  BY <1>1, <1>5

\* What eviction leaves is the directory without its oldest files.
LEMMA SuffixThins ==
    ASSUME NEW s \in Seq(DlEnvelopes), NEW k \in 0 .. Len(s)
    PROVE  LET t == SubSeq(s, k + 1, Len(s))
           IN  /\ t \in Seq(DlEnvelopes) /\ Len(t) = Len(s) - k /\ Thinned(t, s)
               /\ DOMAIN t = 1 .. (Len(s) - k)
               /\ \A i \in DOMAIN t : t[i] = s[k + i]
               /\ \A i \in DOMAIN s : i > k => i - k \in DOMAIN t /\ t[i - k] = s[i]
<1> DEFINE t == SubSeq(s, k + 1, Len(s))
<1>1. Len(s) \in Nat /\ k \in Nat /\ k <= Len(s) /\ DOMAIN s = 1 .. Len(s)
  OBVIOUS
<1>2. /\ t \in Seq(DlEnvelopes)
      /\ Len(t) = IF k + 1 <= Len(s) THEN Len(s) - (k + 1) + 1 ELSE 0
      /\ \A i \in 1 .. Len(s) - (k + 1) + 1 : t[i] = s[(k + 1) + i - 1]
  <2>1. \A i \in (k + 1) .. Len(s) : s[i] \in DlEnvelopes
    BY <1>1
  <2>2. k + 1 \in Int /\ Len(s) \in Int
    BY <1>1
  <2> QED
    BY <2>1, <2>2, SubSeqProperties
<1> HIDE DEF t
<1>3. /\ Len(t) = Len(s) - k /\ DOMAIN t = 1 .. (Len(s) - k)
      /\ \A i \in 1 .. (Len(s) - k) : t[i] = s[k + i]
  <2>1. \A n, m \in Nat : m <= n =>
          n - m = IF m + 1 <= n THEN n - (m + 1) + 1 ELSE 0
    OBVIOUS
  <2>2. Len(t) = Len(s) - k
    BY <1>1, <1>2, <2>1, Zenon
  <2>3. \A i \in 1 .. (Len(s) - k) : i \in 1 .. Len(s) - (k + 1) + 1 /\ (k + 1) + i - 1 = k + i
    BY <1>1
  <2> QED
    BY <1>2, <2>2, <2>3
<1>4. Thinned(t, s)
  <2> DEFINE pi == [i \in DOMAIN t |-> k + i]
  <2>1. pi \in [DOMAIN t -> DOMAIN s]
    BY <1>1, <1>3
  <2>2. \A i, j \in DOMAIN t : i < j => pi[i] < pi[j]
    BY <1>1, <1>3
  <2>3. \A i \in DOMAIN t : t[i] = s[pi[i]]
    BY <1>3
  <2> QED
    BY <2>1, <2>2, <2>3 DEF Thinned
<1>5. \A i \in DOMAIN s : i > k => i - k \in DOMAIN t /\ t[i - k] = s[i]
  <2> SUFFICES ASSUME NEW i \in DOMAIN s, i > k PROVE i - k \in DOMAIN t /\ t[i - k] = s[i]
    OBVIOUS
  <2>1. i - k \in 1 .. (Len(s) - k) /\ k + (i - k) = i
    BY <1>1
  <2> QED
    BY <1>3, <2>1
<1> QED
  BY <1>2, <1>3, <1>4, <1>5 DEF t

\* Removing a file leaves all the others.
LEMMA WithoutThins ==
    ASSUME dlFiles \in Seq(DlEnvelopes), NEW name \in Names
    PROVE  /\ Position(name) \in DOMAIN dlFiles /\ dlFiles[Position(name)].name = name
           /\ Without(name) \in Seq(DlEnvelopes) /\ Len(Without(name)) = Len(dlFiles) - 1
           /\ Thinned(Without(name), dlFiles)
           /\ \A i \in DOMAIN dlFiles : i # Position(name) =>
                \E j \in DOMAIN Without(name) : Without(name)[j] = dlFiles[i]
<1> DEFINE p == Position(name)
           t == Without(name)
           pi == [i \in 1 .. Len(dlFiles) - 1 |-> IF i < p THEN i ELSE i + 1]
<1>1. Len(dlFiles) \in Nat /\ DOMAIN dlFiles = 1 .. Len(dlFiles)
  OBVIOUS
<1>2. \E i \in DOMAIN dlFiles : dlFiles[i].name = name
  BY DEF Names
<1>3. p \in DOMAIN dlFiles /\ dlFiles[p].name = name
  BY <1>2 DEF Position
<1>4. t = [i \in 1 .. Len(dlFiles) - 1 |-> dlFiles[IF i < p THEN i ELSE i + 1]]
  BY DEF Without
<1> HIDE DEF p, t
<1>5. Len(dlFiles) - 1 \in Nat /\ p \in 1 .. Len(dlFiles)
  BY <1>1, <1>3
<1>6. \A i \in 1 .. Len(dlFiles) - 1 : pi[i] \in DOMAIN dlFiles /\ t[i] = dlFiles[pi[i]]
  BY <1>1, <1>4, <1>5
<1>7. t \in Seq(DlEnvelopes) /\ Len(t) = Len(dlFiles) - 1 /\ DOMAIN t = 1 .. Len(dlFiles) - 1
  <2>1. \A i \in 1 .. Len(dlFiles) - 1 : t[i] \in DlEnvelopes
    BY <1>6
  <2>2. t \in [1 .. Len(dlFiles) - 1 -> DlEnvelopes]
    BY <1>4, <2>1
  <2> QED
    BY <1>5, <2>2
<1>8. Thinned(t, dlFiles)
  <2>1. pi \in [DOMAIN t -> DOMAIN dlFiles]
    BY <1>6, <1>7
  <2>2. \A i, j \in DOMAIN t : i < j => pi[i] < pi[j]
    BY <1>5, <1>7
  <2> QED
    BY <1>6, <1>7, <2>1, <2>2 DEF Thinned
<1>9. ASSUME NEW i \in DOMAIN dlFiles, i # p
      PROVE  \E j \in DOMAIN t : t[j] = dlFiles[i]
  <2>1. CASE i < p
    <3>1. i \in DOMAIN t /\ pi[i] = i
      BY <1>1, <1>5, <1>7, <2>1
    <3> QED
      BY <1>6, <1>7, <3>1
  <2>2. CASE i > p
    <3>1. i - 1 \in DOMAIN t /\ pi[i - 1] = i
      BY <1>1, <1>5, <1>7, <2>2
    <3> QED
      BY <1>6, <1>7, <3>1
  <2> QED
    BY <1>1, <1>5, <1>9, <2>1, <2>2
<1> QED
  BY <1>3, <1>7, <1>8, <1>9 DEF p, t

-------------------------------------------------------------------------------
\* The directory: its files are numbered in order, and it is within its limits.
DirectoryOK ==
    /\ dlFiles \in Seq(DlEnvelopes) /\ dlNext \in Nat
    /\ \A i \in DOMAIN dlFiles : dlFiles[i].name < dlNext
    /\ \A i, j \in DOMAIN dlFiles : i < j => dlFiles[i].name < dlFiles[j].name
    /\ DlMaxFiles > 0 => Len(dlFiles) <= DlMaxFiles
    /\ DlMaxBytes > 0 => DirBytes(dlFiles) <= DlMaxBytes

\* What the replay worker has read is the file of that name while there is one, and
\* when there is none any more, it was evicted; what it replayed is stored.
ReplayOK ==
    /\ dlCur \in Seq(DlEnvelopes) /\ Len(dlCur) <= 1
    /\ \A c \in Range(dlCur) :
         /\ c.name < dlNext
         /\ c.name \in Names \/ c.batch \in dlEvicted
         /\ \A i \in DOMAIN dlFiles : dlFiles[i].name = c.name => dlFiles[i] = c
         /\ dlReplayed => c.batch \in rawStored

DlHeld == Filed \cup rawStored \cup dlEvicted \cup dlDropped

DlInv == DirectoryOK /\ ReplayOK /\ dlAccepted \subseteq DlHeld

\* The invariant gives the property.
LEMMA DlInvIsKept == DlInv => DlNothingVanishes
<1> SUFFICES ASSUME DlInv PROVE DlNothingVanishes
  OBVIOUS
<1>1. \A i \in DOMAIN dlCur : dlCur[i].name \in Names \/ dlCur[i].batch \in dlEvicted
  BY DEF DlInv, ReplayOK, Range
<1> QED
  BY <1>1 DEF DlInv, DirectoryOK, DlHeld, Filed, DlNothingVanishes

\* A directory that was thinned stays in order and within its limits.
LEMMA ThinnedDirectory ==
    ASSUME DirectoryOK, dlFiles' \in Seq(DlEnvelopes), Thinned(dlFiles', dlFiles),
           Len(dlFiles') <= Len(dlFiles), dlNext' = dlNext
    PROVE  DirectoryOK' /\ \A i \in DOMAIN dlFiles' : \E j \in DOMAIN dlFiles : dlFiles'[i] = dlFiles[j]
<1>1. /\ DirBytes(dlFiles') <= DirBytes(dlFiles)
      /\ \A i \in DOMAIN dlFiles' : \E j \in DOMAIN dlFiles : dlFiles'[i] = dlFiles[j]
      /\ \A i, j \in DOMAIN dlFiles' : i < j => dlFiles'[i].name < dlFiles'[j].name
  BY ThinnedIsSmaller DEF DirectoryOK
<1>2. \A i \in DOMAIN dlFiles' : dlFiles'[i].name < dlNext'
  BY <1>1 DEF DirectoryOK
<1>3. /\ DirBytes(dlFiles') \in Nat /\ DirBytes(dlFiles) \in Nat
      /\ Len(dlFiles) \in Nat /\ Len(dlFiles') \in Nat
  BY BytesAre DEF DirectoryOK
<1>4. DlMaxFiles > 0 => Len(dlFiles') <= DlMaxFiles
  BY <1>3, DlAssumption DEF DirectoryOK
<1>5. DlMaxBytes > 0 => DirBytes(dlFiles') <= DlMaxBytes
  BY <1>1, <1>3, DlAssumption DEF DirectoryOK
<1> QED
  BY <1>1, <1>2, <1>4, <1>5 DEF DirectoryOK

\* What enforceLimits evicts leaves room for the envelope, or leaves nothing.
LEMMA EvictionsMakeRoom ==
    ASSUME DirectoryOK, NEW b
    PROVE  LET k == Evictions(b)
           IN  /\ k \in 0 .. Len(dlFiles)
               /\ k = Len(dlFiles) \/ ~OverLimits(SubSeq(dlFiles, k + 1, Len(dlFiles)), b)
<1> DEFINE S == {i \in 0 .. Len(dlFiles) :
                   i = Len(dlFiles) \/ ~OverLimits(SubSeq(dlFiles, i + 1, Len(dlFiles)), b)}
<1>1. Len(dlFiles) \in Nat
  BY DEF DirectoryOK
<1>2. Len(dlFiles) \in S /\ S \in SUBSET Nat
  BY <1>1
<1>3. Evictions(b) = Min(S)
  BY DEF Evictions
<1> HIDE DEF S
<1>4. Evictions(b) \in S
  BY <1>2, <1>3, MinIsMember
<1> QED
  BY <1>4 DEF S

\* The oldest files leave: what the worker read of them is counted as evicted.
LEMMA EvictedAreCounted ==
    ASSUME DirectoryOK, ReplayOK, NEW k \in 0 .. Len(dlFiles), EvictOldest(k)
    PROVE  LET rest == SubSeq(dlFiles, k + 1, Len(dlFiles))
           IN  /\ \A c \in Range(dlCur) :
                    \/ \E i \in DOMAIN rest : rest[i].name = c.name
                    \/ c.batch \in dlEvicted'
               /\ \A i \in DOMAIN rest : \E j \in DOMAIN dlFiles : rest[i] = dlFiles[j]
               /\ Filed \cup dlEvicted \subseteq {rest[i].batch : i \in DOMAIN rest} \cup dlEvicted'
<1> DEFINE rest == SubSeq(dlFiles, k + 1, Len(dlFiles))
<1>1. dlFiles \in Seq(DlEnvelopes) /\ Len(dlFiles) \in Nat /\ DOMAIN dlFiles = 1 .. Len(dlFiles)
  BY DEF DirectoryOK
<1>2. /\ rest \in Seq(DlEnvelopes) /\ Thinned(rest, dlFiles)
      /\ \A i \in DOMAIN dlFiles : i > k => i - k \in DOMAIN rest /\ rest[i - k] = dlFiles[i]
  BY <1>1, SuffixThins
<1> HIDE DEF rest
<1>3. \A i \in DOMAIN dlFiles :
        (\E j \in DOMAIN rest : rest[j] = dlFiles[i]) \/ dlFiles[i].batch \in dlEvicted'
  <2> SUFFICES ASSUME NEW i \in DOMAIN dlFiles
               PROVE  (\E j \in DOMAIN rest : rest[j] = dlFiles[i]) \/ dlFiles[i].batch \in dlEvicted'
    OBVIOUS
  <2>1. CASE i > k
    BY <1>2, <2>1
  <2>2. CASE ~(i > k)
    <3>1. i \in 1 .. k
      BY <1>1, <2>2
    <3> QED
      BY <3>1 DEF EvictOldest
  <2> QED
    BY <2>1, <2>2
<1>4. dlEvicted \subseteq dlEvicted'
  BY DEF EvictOldest
<1>5. ASSUME NEW c \in Range(dlCur)
      PROVE  (\E i \in DOMAIN rest : rest[i].name = c.name) \/ c.batch \in dlEvicted'
  <2>1. CASE c.name \in Names
    <3>1. PICK i \in DOMAIN dlFiles : dlFiles[i].name = c.name
      BY <2>1 DEF Names
    <3>2. dlFiles[i] = c
      BY <3>1 DEF ReplayOK
    <3> QED
      BY <1>3, <3>2
  <2>2. CASE c.batch \in dlEvicted
    BY <1>4, <2>2
  <2> QED
    BY <2>1, <2>2 DEF ReplayOK
<1>6. \A i \in DOMAIN rest : \E j \in DOMAIN dlFiles : rest[i] = dlFiles[j]
  BY <1>1, <1>2, ThinnedIsSmaller
<1>7. Filed \cup dlEvicted \subseteq {rest[i].batch : i \in DOMAIN rest} \cup dlEvicted'
  BY <1>3, <1>4 DEF Filed
<1> QED
  BY <1>5, <1>6, <1>7 DEF rest

\* A file at the end of a directory adds its size.
LEMMA AppendBytes ==
    ASSUME NEW s \in Seq(DlEnvelopes), NEW f \in DlEnvelopes
    PROVE  DirBytes(Append(s, f)) = DirBytes(s) + f.batch.size
<1> DEFINE t == Append(s, f)
           n == Len(s)
<1>1. /\ t \in Seq(DlEnvelopes) /\ n \in Nat /\ DOMAIN s = 1 .. n /\ DOMAIN t = (1 .. n) \cup {n + 1}
      /\ t[n + 1] = f /\ \A i \in 1 .. n : t[i] = s[i]
  OBVIOUS
<1>2. n + 1 \notin 1 .. n
  BY <1>1
<1> HIDE DEF t, n
<1>3. /\ IsFiniteSet(1 .. n)
      /\ \A i \in (1 .. n) \cup {n + 1} : FileSizes(t)[i] \in Nat /\ FileSizes(t)[i] = t[i].batch.size
      /\ \A i \in 1 .. n : FileSizes(s)[i] = s[i].batch.size
      /\ DirBytes(t) = Total(FileSizes(t), (1 .. n) \cup {n + 1})
      /\ DirBytes(s) = Total(FileSizes(s), 1 .. n)
  BY <1>1, BytesAre
<1>4. Total(FileSizes(t), 1 .. n) = Total(FileSizes(s), 1 .. n)
  BY <1>1, <1>3, TotalSame
<1>5. /\ Total(FileSizes(t), (1 .. n) \cup {n + 1}) = FileSizes(t)[n + 1] + Total(FileSizes(t), 1 .. n)
      /\ Total(FileSizes(t), 1 .. n) \in Nat
  BY <1>2, <1>3, TotalAdd, Zenon
<1> QED
  BY <1>1, <1>3, <1>4, <1>5 DEF t

\* Enqueue: the envelope is filed last and the directory stays within its limits.
LEMMA EnqueueKeepsDirectory ==
    ASSUME DlInv, NEW b \in DlBatches, Enqueue(b), rawStored' = rawStored
    PROVE  DirectoryOK' /\ ReplayOK' /\ DlHeld \cup {b} \subseteq DlHeld'
<1> DEFINE k == Evictions(b)
           rest == SubSeq(dlFiles, k + 1, Len(dlFiles))
           f == [name |-> dlNext, batch |-> b]
<1>0. DirectoryOK /\ ReplayOK
  BY DEF DlInv
<1>1. /\ dlFiles \in Seq(DlEnvelopes) /\ Len(dlFiles) \in Nat /\ DOMAIN dlFiles = 1 .. Len(dlFiles)
      /\ dlNext \in Nat /\ b.size \in Nat /\ DlMaxFiles \in Nat /\ DlMaxBytes \in Nat
  BY <1>0, DlAssumption DEF DirectoryOK
<1>2. k \in 0 .. Len(dlFiles) /\ (k = Len(dlFiles) \/ ~OverLimits(rest, b))
  BY <1>0, EvictionsMakeRoom
<1>3. /\ DlMaxBytes > 0 => b.size <= DlMaxBytes
      /\ EvictOldest(k) /\ dlFiles' = Append(rest, f) /\ dlNext' = dlNext + 1
      /\ UNCHANGED <<dlCur, dlReplayed, dlDropped>>
  BY DEF Enqueue
<1> HIDE DEF k
<1>4. /\ rest \in Seq(DlEnvelopes) /\ Len(rest) = Len(dlFiles) - k /\ Thinned(rest, dlFiles)
  BY <1>1, <1>2, SuffixThins
<1>5. /\ \A c \in Range(dlCur) :
           (\E i \in DOMAIN rest : rest[i].name = c.name) \/ c.batch \in dlEvicted'
      /\ \A i \in DOMAIN rest : \E j \in DOMAIN dlFiles : rest[i] = dlFiles[j]
      /\ Filed \cup dlEvicted \subseteq {rest[i].batch : i \in DOMAIN rest} \cup dlEvicted'
  BY <1>0, <1>2, <1>3, EvictedAreCounted
<1>6. f \in DlEnvelopes /\ f.name = dlNext /\ f.batch = b
  BY <1>1 DEF DlEnvelopes
<1> HIDE DEF rest, f
<1>7. /\ Len(rest) \in Nat /\ DOMAIN rest = 1 .. Len(rest)
      /\ dlFiles' \in Seq(DlEnvelopes) /\ Len(dlFiles') = Len(rest) + 1
      /\ DOMAIN dlFiles' = 1 .. (Len(rest) + 1) /\ dlFiles'[Len(rest) + 1] = f
      /\ \A i \in 1 .. Len(rest) : dlFiles'[i] = rest[i]
  BY <1>3, <1>4, <1>6
<1>8. \A i \in DOMAIN dlFiles' : dlFiles'[i] = f \/ \E j \in DOMAIN dlFiles : dlFiles'[i] = dlFiles[j]
  BY <1>5, <1>7
<1>9. /\ DirBytes(dlFiles') = DirBytes(rest) + b.size /\ DirBytes(rest) \in Nat
  BY <1>3, <1>4, <1>6, AppendBytes, BytesAre
<1>10. \A i \in DOMAIN dlFiles' : dlFiles'[i].name < dlNext'
  <2>1. \A j \in DOMAIN dlFiles : dlFiles[j].name < dlNext /\ dlFiles[j].name \in Nat
    BY <1>0, <1>1, EnvelopeFields DEF DirectoryOK
  <2> QED
    BY <1>1, <1>3, <1>6, <1>8, <2>1
<1>11. \A i, j \in DOMAIN dlFiles' : i < j => dlFiles'[i].name < dlFiles'[j].name
  <2> SUFFICES ASSUME NEW i \in DOMAIN dlFiles', NEW j \in DOMAIN dlFiles', i < j
               PROVE  dlFiles'[i].name < dlFiles'[j].name
    OBVIOUS
  <2>1. i \in DOMAIN rest
    BY <1>7
  <2>2. CASE j \in DOMAIN rest
    <3>1. rest[i].name < rest[j].name
      BY <1>0, <1>1, <1>4, <2>1, <2>2, ThinnedIsSmaller DEF DirectoryOK
    <3> QED
      BY <1>7, <2>1, <2>2, <3>1
  <2>3. CASE j = Len(rest) + 1
    BY <1>0, <1>5, <1>6, <1>7, <2>1, <2>3 DEF DirectoryOK
  <2> QED
    BY <1>7, <2>2, <2>3
<1>12. DlMaxFiles > 0 => Len(dlFiles') <= DlMaxFiles
  <2>1. CASE k = Len(dlFiles)
    BY <1>1, <1>4, <1>7, <2>1
  <2>2. CASE ~OverLimits(rest, b)
    BY <1>1, <1>7, <2>2 DEF OverLimits
  <2> QED
    BY <1>2, <2>1, <2>2
<1>13. DlMaxBytes > 0 => DirBytes(dlFiles') <= DlMaxBytes
  <2>1. CASE k = Len(dlFiles)
    <3>1. Len(rest) = 0 /\ DOMAIN rest = {}
      BY <1>1, <1>4, <1>7, <2>1
    <3>2. DirBytes(rest) = 0
      BY <1>4, <3>1, BytesAre, TotalEmpty
    <3> QED
      BY <1>1, <1>3, <1>9, <3>2
  <2>2. CASE ~OverLimits(rest, b)
    BY <1>1, <1>9, <2>2 DEF OverLimits
  <2> QED
    BY <1>2, <2>1, <2>2
<1>14. DirectoryOK'
  BY <1>1, <1>3, <1>7, <1>10, <1>11, <1>12, <1>13 DEF DirectoryOK
<1>15. ReplayOK'
  <2> SUFFICES ASSUME NEW c \in Range(dlCur)
               PROVE  /\ c.name < dlNext'
                      /\ c.name \in Names' \/ c.batch \in dlEvicted'
                      /\ \A i \in DOMAIN dlFiles' : dlFiles'[i].name = c.name => dlFiles'[i] = c
                      /\ dlReplayed => c.batch \in rawStored
    BY <1>0, <1>3 DEF ReplayOK
  <2>1. c \in DlEnvelopes /\ c.name \in Nat /\ c.name < dlNext
    BY <1>0, EnvelopeFields DEF ReplayOK, Range
  <2>2. c.name < dlNext'
    BY <1>1, <1>3, <2>1
  <2>3. c.name \in Names' \/ c.batch \in dlEvicted'
    BY <1>5, <1>7 DEF Names
  <2>4. \A i \in DOMAIN dlFiles' : dlFiles'[i].name = c.name => dlFiles'[i] = c
    BY <1>0, <1>1, <1>6, <1>8, <2>1 DEF ReplayOK
  <2> QED
    BY <1>0, <2>2, <2>3, <2>4 DEF ReplayOK
<1>16. DlHeld \cup {b} \subseteq DlHeld'
  <2>1. b \in Filed' /\ {rest[i].batch : i \in DOMAIN rest} \subseteq Filed'
    BY <1>6, <1>7 DEF Filed
  <2> QED
    BY <1>3, <1>5, <2>1 DEF DlHeld
<1> QED
  BY <1>14, <1>15, <1>16

\* An Enqueue that fails keeps the evictions it made.
LEMMA FailedEnqueueKeepsDirectory ==
    ASSUME DlInv, NEW b \in DlBatches, EnqueueFails(b), rawStored' = rawStored
    PROVE  DirectoryOK' /\ ReplayOK' /\ DlHeld \subseteq DlHeld'
<1>0. DirectoryOK /\ ReplayOK
  BY DEF DlInv
<1>1. /\ dlFiles \in Seq(DlEnvelopes) /\ Len(dlFiles) \in Nat
  BY <1>0 DEF DirectoryOK
<1>2. PICK k \in 0 .. (IF DlMaxBytes > 0 /\ b.size > DlMaxBytes THEN 0 ELSE Evictions(b)) :
        /\ EvictOldest(k) /\ dlFiles' = SubSeq(dlFiles, k + 1, Len(dlFiles))
        /\ UNCHANGED <<dlNext, dlCur, dlReplayed, dlDropped>>
  BY DEF EnqueueFails
<1>3. k \in 0 .. Len(dlFiles)
  BY <1>0, <1>1, <1>2, EvictionsMakeRoom
<1>4. /\ dlFiles' \in Seq(DlEnvelopes) /\ Len(dlFiles') = Len(dlFiles) - k
      /\ Thinned(dlFiles', dlFiles)
  BY <1>1, <1>2, <1>3, SuffixThins
<1>5. DirectoryOK'
  BY <1>0, <1>1, <1>2, <1>3, <1>4, ThinnedDirectory
<1>6. /\ \A c \in Range(dlCur) :
           (\E i \in DOMAIN dlFiles' : dlFiles'[i].name = c.name) \/ c.batch \in dlEvicted'
      /\ \A i \in DOMAIN dlFiles' : \E j \in DOMAIN dlFiles : dlFiles'[i] = dlFiles[j]
      /\ Filed \cup dlEvicted \subseteq {dlFiles'[i].batch : i \in DOMAIN dlFiles'} \cup dlEvicted'
  <2> DEFINE rest == SubSeq(dlFiles, k + 1, Len(dlFiles))
  <2>1. /\ \A c \in Range(dlCur) :
             (\E i \in DOMAIN rest : rest[i].name = c.name) \/ c.batch \in dlEvicted'
        /\ \A i \in DOMAIN rest : \E j \in DOMAIN dlFiles : rest[i] = dlFiles[j]
        /\ Filed \cup dlEvicted \subseteq {rest[i].batch : i \in DOMAIN rest} \cup dlEvicted'
    BY <1>0, <1>2, <1>3, EvictedAreCounted
  <2>2. dlFiles' = rest
    BY <1>2
  <2> HIDE DEF rest
  <2> QED
    BY <2>1, <2>2
<1>7. ReplayOK'
  <2>1. \A c \in Range(dlCur) : c.name \in Names' \/ c.batch \in dlEvicted'
    BY <1>6 DEF Names
  <2>2. \A c \in Range(dlCur) : \A i \in DOMAIN dlFiles' : dlFiles'[i].name = c.name => dlFiles'[i] = c
    BY <1>0, <1>6 DEF ReplayOK
  <2> QED
    BY <1>0, <1>2, <2>1, <2>2 DEF ReplayOK
<1>8. DlHeld \subseteq DlHeld'
  BY <1>2, <1>6 DEF DlHeld, Filed
<1> QED
  BY <1>5, <1>7, <1>8

\* Removing a file whose batch is held elsewhere, while the worker has nothing in hand.
LEMMA RemovalKeepsDirectory ==
    ASSUME DlInv, NEW name, dlFiles' = Without(name), dlCur' = <<>>, dlNext' = dlNext,
           rawStored' = rawStored, dlEvicted' = dlEvicted, dlDropped \subseteq dlDropped',
           \A i \in DOMAIN dlFiles : dlFiles[i].name = name =>
              dlFiles[i].batch \in rawStored \cup dlDropped'
    PROVE  DirectoryOK' /\ ReplayOK' /\ DlHeld \subseteq DlHeld'
<1>0. DirectoryOK /\ dlFiles \in Seq(DlEnvelopes) /\ Len(dlFiles) \in Nat
  BY DEF DlInv, DirectoryOK
<1>1. ReplayOK'
  <2>1. <<>> \in Seq(DlEnvelopes) /\ Len(<<>>) = 0 /\ Range(<<>>) = {}
    BY EmptySeq DEF Range
  <2> QED
    BY <2>1 DEF ReplayOK
<1>2. CASE name \in Names
  <2>1. /\ Position(name) \in DOMAIN dlFiles /\ dlFiles[Position(name)].name = name
        /\ dlFiles' \in Seq(DlEnvelopes) /\ Len(dlFiles') = Len(dlFiles) - 1
        /\ Thinned(dlFiles', dlFiles)
        /\ \A i \in DOMAIN dlFiles : i # Position(name) =>
             \E j \in DOMAIN dlFiles' : dlFiles'[j] = dlFiles[i]
    BY <1>0, <1>2, WithoutThins
  <2>2. DirectoryOK'
    BY <1>0, <2>1, ThinnedDirectory
  <2>3. DlHeld \subseteq DlHeld'
    BY <2>1 DEF DlHeld, Filed
  <2> QED
    BY <1>1, <2>2, <2>3
<1>3. CASE name \notin Names
  <2>1. dlFiles' = dlFiles
    BY <1>3 DEF Without
  <2> QED
    BY <1>0, <1>1, <2>1 DEF DirectoryOK, DlHeld, Filed
<1> QED
  BY <1>2, <1>3

\* The replay worker loses nothing.
LEMMA ReplayKeepsDirectory ==
    ASSUME DlInv, ReplayNext
    PROVE  DirectoryOK' /\ ReplayOK' /\ DlHeld \subseteq DlHeld'
<1>0. DirectoryOK /\ ReplayOK
  BY DEF DlInv
<1>1. ASSUME UNCHANGED <<dlFiles, dlNext, dlEvicted, dlDropped>>, rawStored \subseteq rawStored'
      PROVE  DirectoryOK' /\ DlHeld \subseteq DlHeld'
  BY <1>0, <1>1 DEF DirectoryOK, DlHeld, Filed
<1>2. <<>> \in Seq(DlEnvelopes) /\ Len(<<>>) = 0 /\ Range(<<>>) = {}
  BY EmptySeq DEF Range
<1>3. CASE ReplayTick \/ SkipFile
  BY <1>0, <1>1, <1>3 DEF ReplayTick, SkipFile, ReplayOK, Names
<1>4. CASE DropExhausted
  <2>1. dlCur' = <<>> /\ UNCHANGED <<dlNext, dlEvicted, rawStored>>
    BY <1>4 DEF DropExhausted, Visiting
  <2>2. CASE UNCHANGED <<dlDropped, dlFiles>>
    BY <1>1, <1>2, <2>1, <2>2 DEF ReplayOK
  <2>3. CASE ~UNCHANGED <<dlDropped, dlFiles>>
    <3>1. /\ dlFiles' = Without(Head(dlWalk))
          /\ dlDropped' = dlDropped \cup {dlFiles[i].batch : i \in {j \in DOMAIN dlFiles :
                                                                 dlFiles[j].name = Head(dlWalk)}}
      BY <1>4, <2>3 DEF DropExhausted
    <3>2. \A i \in DOMAIN dlFiles : dlFiles[i].name = Head(dlWalk) => dlFiles[i].batch \in dlDropped'
      BY <3>1
    <3> QED
      BY <2>1, <3>1, <3>2, RemovalKeepsDirectory
  <2> QED
    BY <2>2, <2>3
<1>5. CASE ReadFile
  <2> DEFINE p == Position(Head(dlWalk))
  <2>1. /\ dlCur' = <<dlFiles[p]>> /\ dlReplayed' = FALSE /\ Head(dlWalk) \in Names
        /\ UNCHANGED <<dlFiles, dlNext, dlEvicted, dlDropped, rawStored>>
    BY <1>5 DEF ReadFile
  <2>2. p \in DOMAIN dlFiles
    BY <1>0, <2>1, WithoutThins DEF DirectoryOK
  <2> HIDE DEF p
  <2>3. /\ dlFiles[p] \in DlEnvelopes /\ dlFiles[p].name < dlNext /\ dlFiles[p].name \in Names
    BY <1>0, <2>2, BytesAre DEF DirectoryOK, Names
  <2>4. \A i \in DOMAIN dlFiles : dlFiles[i].name = dlFiles[p].name => dlFiles[i] = dlFiles[p]
    <3> SUFFICES ASSUME NEW i \in DOMAIN dlFiles, dlFiles[i].name = dlFiles[p].name
                 PROVE  i = p
      OBVIOUS
    <3>1. i \in Nat /\ p \in Nat /\ dlFiles[p].name \in Nat
      BY <1>0, <2>2, <2>3, EnvelopeFields DEF DirectoryOK
    <3> QED
      BY <1>0, <2>2, <3>1 DEF DirectoryOK
  <2>5. dlCur' \in Seq(DlEnvelopes) /\ Len(dlCur') <= 1 /\ Range(dlCur') = {dlFiles[p]}
    BY <2>1, <2>3 DEF Range
  <2>6. ReplayOK'
    BY <2>1, <2>3, <2>4, <2>5 DEF ReplayOK, Names
  <2> QED
    BY <1>1, <2>1, <2>6
<1>6. CASE ReplayFails
  BY <1>1, <1>2, <1>6 DEF ReplayFails, ReplayOK
<1>7. CASE ReplayCommits
  <2>1. /\ UNCHANGED <<dlFiles, dlNext, dlEvicted, dlDropped, dlCur>>
        /\ rawStored' = rawStored \cup {dlCur[1].batch} /\ dlCur # <<>>
    BY <1>7 DEF ReplayCommits
  <2>2. \A c \in Range(dlCur) : c = dlCur[1]
    BY <1>0, <2>1 DEF ReplayOK, Range
  <2> QED
    BY <1>0, <1>1, <2>1, <2>2 DEF ReplayOK, Names
<1>8. CASE RemoveReplayed
  <2>1. /\ dlCur # <<>> /\ dlReplayed /\ dlCur' = <<>>
        /\ UNCHANGED <<dlNext, dlEvicted, dlDropped, rawStored>>
        /\ dlFiles' = Without(dlCur[1].name) \/ dlFiles' = dlFiles
    BY <1>8 DEF RemoveReplayed
  <2>2. dlCur[1] \in Range(dlCur)
    BY <1>0, <2>1 DEF ReplayOK, Range
  <2>3. \A i \in DOMAIN dlFiles : dlFiles[i].name = dlCur[1].name => dlFiles[i].batch \in rawStored
    BY <1>0, <2>1, <2>2 DEF ReplayOK
  <2>4. CASE dlFiles' = Without(dlCur[1].name)
    BY <2>1, <2>3, <2>4, RemovalKeepsDirectory
  <2>5. CASE dlFiles' = dlFiles
    BY <1>1, <1>2, <2>1, <2>5 DEF ReplayOK
  <2> QED
    BY <2>1, <2>4, <2>5
<1> QED
  BY <1>3, <1>4, <1>5, <1>6, <1>7, <1>8 DEF ReplayNext

\* An accepted envelope is on disk, in the database, evicted and counted, or dropped after
\* its retries, and the directory keeps its order and its limits, for every limit, size of
\* batch and number of ticks and restarts (Enqueue, enforceLimits, processFiles).
THEOREM DeadLettersNeverVanish == DlSpec => []DlNothingVanishes
<1>1. DlSpecInit => DlInv
  <2> SUFFICES ASSUME DlSpecInit PROVE DlInv
    OBVIOUS
  <2>1. <<>> \in Seq(DlEnvelopes) /\ Len(<<>>) = 0 /\ Range(<<>>) = {} /\ DOMAIN <<>> = {}
    BY EmptySeq DEF Range
  <2>2. DirBytes(<<>>) = 0
    BY <2>1, BytesAre, TotalEmpty
  <2>3. DirectoryOK
    BY <2>1, <2>2, DlAssumption DEF DlSpecInit, DlInit, DirectoryOK
  <2>4. ReplayOK
    BY <2>1 DEF DlSpecInit, DlInit, ReplayOK
  <2> QED
    BY <2>3, <2>4 DEF DlInv, DlSpecInit
<1>2. DlInv /\ [DlNext]_<<dlVars, rawStored, dlAccepted>> => DlInv'
  <2> SUFFICES ASSUME DlInv, [DlNext]_<<dlVars, rawStored, dlAccepted>> PROVE DlInv'
    OBVIOUS
  <2>1. CASE \E b \in DlBatches : DlOffer(b)
    <3>1. PICK b \in DlBatches : DlOffer(b)
      BY <2>1
    <3>2. CASE Enqueue(b) /\ dlAccepted' = dlAccepted \cup {b}
      BY <3>1, <3>2, EnqueueKeepsDirectory DEF DlInv, DlOffer
    <3>3. CASE EnqueueFails(b) /\ UNCHANGED dlAccepted
      BY <3>1, <3>3, FailedEnqueueKeepsDirectory DEF DlInv, DlOffer
    <3> QED
      BY <3>1, <3>2, <3>3 DEF DlOffer
  <2>2. CASE ReplayNext /\ UNCHANGED dlAccepted
    BY <2>2, ReplayKeepsDirectory DEF DlInv
  <2>3. CASE DlStop /\ UNCHANGED dlAccepted
    BY <2>3 DEF DlStop, DlInv, DirectoryOK, ReplayOK, DlHeld, Filed, Names
  <2>4. CASE DlCrash /\ UNCHANGED <<rawStored, dlAccepted>>
    <3>1. <<>> \in Seq(DlEnvelopes) /\ Len(<<>>) = 0 /\ Range(<<>>) = {}
      BY EmptySeq DEF Range
    <3>2. ReplayOK'
      BY <2>4, <3>1 DEF DlCrash, ReplayOK
    <3>3. DirectoryOK' /\ DlHeld' = DlHeld
      BY <2>4 DEF DlCrash, DlInv, DirectoryOK, DlHeld, Filed
    <3> QED
      BY <2>4, <3>2, <3>3 DEF DlInv
  <2>5. CASE UNCHANGED <<dlVars, rawStored, dlAccepted>>
    BY <2>5 DEF dlVars, DlInv, DirectoryOK, ReplayOK, DlHeld, Filed, Names
  <2> QED
    BY <2>1, <2>2, <2>3, <2>4, <2>5 DEF DlNext
<1> QED
  BY <1>1, <1>2, DlInvIsKept, PTL DEF DlSpec

(***************************************************************************)
(* Log templates.                                                          *)
(***************************************************************************)

Tokens == TmFirst \cup TmSecond \cup {TemplateWildcard}
Patterns == [1 .. 2 -> Tokens]

\* p covers whatever q covers; of a line, p covers it.
Wider(p, q) == \A i \in 1 .. 2 : p[i] = q[i] \/ p[i] = TemplateWildcard

IsMiner(m) ==
  m = [entries |-> m.entries, kids |-> m.kids, other |-> m.other, seq |-> m.seq,
       dict |-> m.dict, pending |-> m.pending]

IsEntry(t) ==
  /\ t = [tokens |-> t.tokens, version |-> t.version, seq |-> t.seq, alias |-> t.alias,
          leaf |-> t.leaf]
  /\ t.tokens \in Patterns /\ t.version \in Nat /\ t.seq \in Nat /\ t.alias = 0

\* Every template sits in the leaf its own pattern leads to, and no two have the same
\* pattern or the same sequence.
TreeOK(m) ==
  /\ IsFiniteSet(m.kids) /\ IsFiniteSet(DOMAIN m.entries) /\ m.seq \in Nat
  /\ \A id \in DOMAIN m.entries :
       /\ id \in Nat /\ id # OtherId /\ IsEntry(m.entries[id])
       /\ m.entries[id].seq < m.seq
       /\ m.entries[id].leaf \in m.kids
       /\ m.entries[id].leaf = Leaf(m, m.entries[id].tokens[1])
  /\ \A i, j \in DOMAIN m.entries :
       i # j => /\ m.entries[i].tokens # m.entries[j].tokens
                /\ m.entries[i].seq # m.entries[j].seq

DictOK(d) == IsFiniteSet(DOMAIN d) /\ \A l \in DOMAIN d : d[l] \in Nat

\* What is staged is what the miner holds now.
StagedOK(m) ==
  /\ m.other \in {0, OtherId}
  /\ DictOK(m.dict)
  /\ \A id \in DOMAIN m.pending :
       IF id = OtherId THEN m.pending[id] = OtherRow /\ m.other = OtherId
       ELSE id \in DOMAIN m.entries /\ m.pending[id] = TemplateRow(m.entries[id])

IsTemplateRow(r) ==
  /\ r = [tokens |-> r.tokens, version |-> r.version, seq |-> r.seq, alias |-> 0,
          other |-> FALSE]
  /\ r.tokens \in Patterns /\ r.version \in Nat /\ r.seq \in Nat

\* Rows a restart can rebuild a tree from.
RowsOK(rows) ==
  /\ IsFiniteSet(DOMAIN rows)
  /\ \A id \in DOMAIN rows :
       IF id = OtherId THEN rows[id] = OtherRow ELSE id \in Nat /\ IsTemplateRow(rows[id])
  /\ \A i, j \in DOMAIN rows \ {OtherId} :
       i # j => rows[i].tokens # rows[j].tokens /\ rows[i].seq # rows[j].seq

\* row is an earlier state of the template t, or its present one.
Earlier(row, t) ==
  /\ row.version <= t.version /\ row.seq = t.seq
  /\ row.version = t.version => row.tokens = t.tokens
  /\ Wider(t.tokens, row.tokens)

\* Every row is an earlier state of a template the miner knows.
Behind(rows, m) ==
  /\ OtherId \in DOMAIN rows => m.other = OtherId
  /\ \A id \in DOMAIN rows \ {OtherId} :
       id \in DOMAIN m.entries /\ Earlier(rows[id], m.entries[id])

\* What is not staged is stored.
KeptOK(m, rows) ==
  /\ \A id \in DOMAIN m.entries \ DOMAIN m.pending :
       id \in DOMAIN rows /\ rows[id] = TemplateRow(m.entries[id])
  /\ m.other = OtherId /\ OtherId \notin DOMAIN m.pending => OtherId \in DOMAIN rows

\* rows resolves the identity of an export to a pattern of its line.
Resolves(rows, x) ==
  /\ x.id \in DOMAIN rows
  /\ x.id # OtherId => x.line \in Patterns /\ Wider(rows[x.id].tokens, x.line)

NextRows == UpsertTemplates(tmStore.rows, tmGroup.rows)

GroupOK ==
  /\ DictOK(tmGroup.dict)
  /\ tmGroup.members \subseteq TmExports
  /\ tmGroup = [members |-> tmGroup.members, rows |-> tmGroup.rows, dict |-> tmGroup.dict]
  /\ RowsOK(NextRows)
  /\ Behind(tmGroup.rows, tm)
  /\ \A id \in DOMAIN tmGroup.rows :
       IF id = OtherId THEN tmGroup.rows[id] = OtherRow
       ELSE id \in Nat /\ IsTemplateRow(tmGroup.rows[id])
  /\ \A id \in DOMAIN tmGroup.rows \cap DOMAIN tmStore.rows :
       /\ tmGroup.rows[id].version >= tmStore.rows[id].version
       /\ id # OtherId => Wider(tmGroup.rows[id].tokens, tmStore.rows[id].tokens)

StoreOK ==
  /\ tmStore = [rows |-> tmStore.rows, dict |-> tmStore.dict]
  /\ DictOK(tmStore.dict)
  /\ RowsOK(tmStore.rows) /\ Behind(tmStore.rows, tm)

LineOK(e) ==
  LET x == tmExp[e]
  IN  /\ x = [st |-> x.st, line |-> x.line, id |-> x.id]
      /\ x.line \in Lines /\ x.id \in Nat
      /\ x.st = "grouped" <=> e \in tmGroup.members
      /\ x.st = "mined" =>
           IF x.id = OtherId THEN tm.other = OtherId
           ELSE /\ x.id \in DOMAIN tm.entries
                /\ x.line \in Patterns /\ Wider(tm.entries[x.id].tokens, x.line)
      /\ x.st = "grouped" => Resolves(NextRows, x)
      /\ x.st = "acked" => Resolves(tmStore.rows, x)

\* The inductive invariant of the miner and its durable rows.
TmInv ==
  /\ IsMiner(tm) /\ TreeOK(tm) /\ StagedOK(tm) /\ KeptOK(tm, tmStore.rows)
  /\ StoreOK /\ GroupOK
  /\ tmExp = [e \in TmExports |-> tmExp[e]]
  /\ \A e \in TmExports : LineOK(e)
  /\ tmMines \in 0 .. TmMaxMines /\ tmCrashes \in 0 .. TmMaxCrashes

\* A line that is not empty is a pattern without wildcards of its own.
LEMMA TmLinePattern ==
  ASSUME NEW line \in Lines, line # <<>>
  PROVE  line \in Patterns
<1>1. line \in TmFirst \X TmSecond
  BY DEF Lines
<1>2. line = <<line[1], line[2]>> /\ line[1] \in TmFirst /\ line[2] \in TmSecond
  BY <1>1
<1>3. line = [i \in 1 .. 2 |-> line[i]]
  BY <1>2
<1>4. \A i \in 1 .. 2 : line[i] \in Tokens
  BY <1>2 DEF Tokens
<1> QED
  BY <1>3, <1>4 DEF Patterns

\* Similarity counts the positions a pattern covers: all of them exactly when it covers the
\* line.
LEMMA TmSimilarity ==
  ASSUME NEW p \in Patterns, NEW l \in Patterns
  PROVE  /\ Similarity(p, l) \in 0 .. 2
         /\ Similarity(p, l) = 2 <=> Wider(p, l)
         /\ Len(l) = 2
         /\ Similar(p, l) <=> Similarity(p, l) >= 1
<1> DEFINE S == {i \in DOMAIN l : p[i] = TemplateWildcard \/ p[i] = l[i]}
<1>1. DOMAIN l = 1 .. 2 /\ Len(l) = 2
  BY DEF Patterns
<1>2. IsFiniteSet(1 .. 2) /\ Cardinality(1 .. 2) = 2
  <2>1. \A n \in Nat : IsFiniteSet(1 .. n) /\ Cardinality(1 .. n) = n
    BY FS_Interval
  <2> QED
    BY <2>1
<1>3. S \in SUBSET (1 .. 2)
  BY <1>1
<1>4. IsFiniteSet(S) /\ Cardinality(S) <= 2 /\ (Cardinality(S) = 2 => S = 1 .. 2)
  BY <1>2, <1>3, FS_Subset
<1>5. Cardinality(S) \in Nat
  BY <1>4, FS_CardinalityType
<1>6. Similarity(p, l) = Cardinality(S)
  BY DEF Similarity
<1>7. S = 1 .. 2 <=> Wider(p, l)
  BY <1>1 DEF Wider
<1>8. Similar(p, l) <=> Similarity(p, l) >= 1
  BY <1>1, <1>5, <1>6 DEF Similar
<1> HIDE DEF S
<1>9. Cardinality(S) = 2 <=> Wider(p, l)
  BY <1>2, <1>4, <1>7
<1> QED
  BY <1>1, <1>4, <1>5, <1>6, <1>8, <1>9

\* A token leads to its own child or to the wildcard child.
LEMMA TmLeafCases ==
  ASSUME NEW m, NEW tok
  PROVE  /\ Leaf(m, tok) \in {tok, TemplateWildcard}
         /\ Leaf(m, TemplateWildcard) = TemplateWildcard
BY DEF Leaf

\* The children of n are those of m and the one tok leads to.
Grown(m, tok, n) == n.kids = m.kids \cup {Leaf(m, tok)}

\* Descending makes the leaf exist and moves no leaf that exists: a full node stays full.
LEMMA TmLeafStable ==
  ASSUME NEW m, IsFiniteSet(m.kids), NEW tok, NEW n, Grown(m, tok, n)
  PROVE  /\ IsFiniteSet(n.kids)
         /\ Leaf(n, tok) = Leaf(m, tok)
         /\ \A t : Leaf(m, t) \in m.kids => Leaf(n, t) = Leaf(m, t)
<1> DEFINE K == m.kids
           L == n.kids
<1> USE DEF Grown
<1>1. /\ IsFiniteSet(L) /\ Cardinality(K) \in Nat /\ Cardinality(L) \in Nat
      /\ Cardinality(K) <= Cardinality(L)
  <2>1. IsFiniteSet(L)
    BY FS_AddElement
  <2>2. K \in SUBSET L
    OBVIOUS
  <2> QED
    BY <2>1, <2>2, FS_Subset, FS_CardinalityType
<1>2. Leaf(n, tok) = Leaf(m, tok)
  BY <1>1, TmAssumption DEF Leaf
<1>3. ASSUME NEW t, Leaf(m, t) \in m.kids
      PROVE  Leaf(n, t) = Leaf(m, t)
  <2>1. CASE t \in K
    BY <2>1 DEF Leaf
  <2>2. CASE t \notin K
    <3>1. Cardinality(K) >= TmMaxChildren /\ TemplateWildcard \in K /\ Leaf(m, t) = TemplateWildcard
      BY <1>3, <2>2 DEF Leaf
    <3>2. L = K
      BY <3>1 DEF Leaf
    <3> QED
      BY <3>2 DEF Leaf
  <2> QED
    BY <2>1, <2>2
<1> QED
  BY <1>1, <1>2, <1>3

\* The best match is in the line's leaf, similar, and no other template there is more so.
LEMMA TmBestIs ==
  ASSUME NEW m, NEW line, NEW b \in BestMatch(m, line), TreeOK(m), line \in Patterns
  PROVE  /\ b \in DOMAIN m.entries
         /\ m.entries[b].leaf = Leaf(m, line[1])
         /\ \A j \in DOMAIN m.entries :
              m.entries[j].leaf = Leaf(m, line[1])
              => Similarity(m.entries[j].tokens, line) <= Similarity(m.entries[b].tokens, line)
<1>1. /\ b \in DOMAIN m.entries
      /\ m.entries[b].leaf = Leaf(m, line[1])
      /\ \A j \in DOMAIN m.entries :
           m.entries[j].leaf = Leaf(m, line[1]) /\ j # b
           => \/ Similarity(m.entries[b].tokens, line) > Similarity(m.entries[j].tokens, line)
              \/ Similarity(m.entries[b].tokens, line) = Similarity(m.entries[j].tokens, line)
  BY DEF BestMatch
<1>2. \A j \in DOMAIN m.entries : Similarity(m.entries[j].tokens, line) \in 0 .. 2
  BY TmSimilarity DEF TreeOK, IsEntry
<1> QED
  BY <1>1, <1>2

\* A line that a template of its leaf covers has a best match.
LEMMA TmBestExists ==
  ASSUME NEW m, TreeOK(m), NEW line \in Patterns, NEW j \in DOMAIN m.entries,
         m.entries[j].leaf = Leaf(m, line[1]), Wider(m.entries[j].tokens, line)
  PROVE  BestMatch(m, line) # {}
<1> DEFINE Sim(i) == Similarity(m.entries[i].tokens, line)
           All == {i \in DOMAIN m.entries : m.entries[i].leaf = Leaf(m, line[1]) /\ Sim(i) = 2}
           Seqs == {m.entries[i].seq : i \in All}
<1>1. \A i \in DOMAIN m.entries : m.entries[i].tokens \in Patterns /\ m.entries[i].seq \in Nat
  BY DEF TreeOK, IsEntry
<1>2. \A i \in DOMAIN m.entries :
        Sim(i) \in 0 .. 2 /\ (Similar(m.entries[i].tokens, line) <=> Sim(i) >= 1)
  BY <1>1, TmSimilarity
<1>3. Sim(j) = 2
  BY <1>1, TmSimilarity
<1>4. Seqs \in SUBSET Nat /\ Seqs # {}
  BY <1>1, <1>3
<1>5. PICK n \in Seqs : \A k \in Seqs : n <= k
  <2> HIDE DEF Seqs
  <2> QED
    BY <1>4, LeastMember
<1>6. PICK i \in All : m.entries[i].seq = n
  BY <1>5
<1>7. ASSUME NEW k \in DOMAIN m.entries, m.entries[k].leaf = Leaf(m, line[1]), k # i
      PROVE  \/ Sim(i) > Sim(k)
             \/ Sim(i) = Sim(k) /\ m.entries[i].seq < m.entries[k].seq
  <2>1. CASE Sim(k) = 2
    <3>1. m.entries[k].seq \in Seqs /\ m.entries[k].seq # m.entries[i].seq
      BY <1>6, <1>7, <2>1 DEF TreeOK
    <3>2. i \in DOMAIN m.entries /\ Sim(i) = 2
      BY <1>6
    <3>3. n <= m.entries[k].seq
      BY <1>5, <3>1
    <3>4. m.entries[i].seq < m.entries[k].seq
      BY <1>1, <1>6, <3>1, <3>2, <3>3
    <3> HIDE DEF Sim
    <3> QED
      BY <2>1, <3>2, <3>4
  <2>2. CASE Sim(k) # 2
    BY <1>2, <1>6, <1>7, <2>2
  <2> QED
    BY <2>1, <2>2
<1>8. Similar(m.entries[i].tokens, line)
  BY <1>2, <1>6
<1>9. i \in BestMatch(m, line)
  BY <1>6, <1>7, <1>8 DEF BestMatch
<1> QED
  BY <1>9

\* A generalised pattern covers the line and what it covered, stays in its leaf, and is no
\* other template's: one that had it would have been the better match.
LEMMA TmGeneralised ==
  ASSUME NEW m, TreeOK(m), NEW line \in Patterns, NEW b \in BestMatch(m, line)
  PROVE  LET p == Generalised(m.entries[b].tokens, line)
         IN  /\ p \in Patterns /\ Wider(p, line) /\ Wider(p, m.entries[b].tokens)
             /\ Leaf(m, p[1]) = m.entries[b].leaf
             /\ p # m.entries[b].tokens =>
                  \A j \in DOMAIN m.entries : m.entries[j].tokens # p
<1> DEFINE q == m.entries[b].tokens
           p == Generalised(q, line)
<1>1. /\ b \in DOMAIN m.entries /\ m.entries[b].leaf = Leaf(m, line[1])
      /\ \A j \in DOMAIN m.entries :
           m.entries[j].leaf = Leaf(m, line[1])
           => Similarity(m.entries[j].tokens, line) <= Similarity(q, line)
  BY TmBestIs
<1>2. /\ \A j \in DOMAIN m.entries : m.entries[j].tokens \in Patterns
      /\ \A j \in DOMAIN m.entries : m.entries[j].leaf = Leaf(m, m.entries[j].tokens[1])
      /\ q \in Patterns
  BY <1>1 DEF TreeOK, IsEntry
<1>3. p = [i \in 1 .. 2 |-> IF q[i] = line[i] THEN q[i] ELSE TemplateWildcard]
  BY <1>2 DEF Generalised, Patterns
<1>4. p \in Patterns /\ Wider(p, line) /\ Wider(p, q)
  BY <1>2, <1>3 DEF Patterns, Wider, Tokens
<1>5. Leaf(m, p[1]) = m.entries[b].leaf
  <2>1. CASE q[1] = line[1]
    BY <1>1, <1>3, <2>1
  <2>2. CASE q[1] # line[1]
    <3>1. p[1] = TemplateWildcard
      BY <1>3, <2>2
    <3>2. Leaf(m, q[1]) = Leaf(m, line[1])
      BY <1>1, <1>2
    <3>3. Leaf(m, line[1]) = TemplateWildcard
      BY <2>2, <3>2, TmLeafCases
    <3> QED
      BY <1>1, <3>1, <3>3, TmLeafCases
  <2> QED
    BY <2>1, <2>2
<1>6. ASSUME p # q, NEW j \in DOMAIN m.entries, m.entries[j].tokens = p
      PROVE  FALSE
  <2>1. Similarity(q, line) < 2
    <3>1. ~ Wider(q, line)
      <4> SUFFICES ASSUME Wider(q, line) PROVE p = q
        BY <1>6
      <4>1. \A i \in 1 .. 2 : p[i] = q[i]
        BY <1>3 DEF Wider
      <4> QED
        BY <1>2, <1>4, <4>1 DEF Patterns
    <3> QED
      BY <1>2, <3>1, TmSimilarity
  <2>2. Similarity(p, line) = 2
    BY <1>4, TmSimilarity
  <2>3. m.entries[j].leaf = Leaf(m, line[1])
    BY <1>1, <1>2, <1>5, <1>6
  <2>4. Similarity(p, line) <= Similarity(q, line)
    BY <1>1, <1>6, <2>3
  <2>5. Similarity(q, line) \in 0 .. 2
    BY <1>2, TmSimilarity
  <2> QED
    BY <2>1, <2>2, <2>4, <2>5
<1> QED
  BY <1>4, <1>5, <1>6

\* How the miner moves while lines are mined: templates stay and only widen, what is staged
\* is current, and what leaves the staging area does so by a commit alone.
Sound(m) == IsMiner(m) /\ TreeOK(m) /\ StagedOK(m)

Advances(m, n) ==
  /\ \A id \in DOMAIN m.entries :
       id \in DOMAIN n.entries /\ Earlier(TemplateRow(m.entries[id]), n.entries[id])
  /\ \A id \in DOMAIN n.entries \ DOMAIN n.pending :
       /\ id \in DOMAIN m.entries \ DOMAIN m.pending
       /\ TemplateRow(n.entries[id]) = TemplateRow(m.entries[id])
  /\ m.other = OtherId => n.other = OtherId
  /\ n.other = OtherId /\ OtherId \notin DOMAIN n.pending =>
       m.other = OtherId /\ OtherId \notin DOMAIN m.pending

\* The identity a line was given.
Issued(m, id, line) ==
  /\ id \in Nat
  /\ IF id = OtherId THEN m.other = OtherId
     ELSE id \in DOMAIN m.entries /\ line \in Patterns /\ Wider(m.entries[id].tokens, line)

\* Putting a value under a key.
LEMMA TmPut ==
  ASSUME NEW f, NEW k, NEW v
  PROVE  /\ DOMAIN Put(f, k, v) = DOMAIN f \cup {k}
         /\ Put(f, k, v)[k] = v
         /\ \A x \in DOMAIN f : x # k => Put(f, k, v)[x] = f[x]
BY DEF Put

\* Widening is transitive, and so is being an earlier state.
LEMMA TmWiderTrans ==
  ASSUME NEW p, NEW q, NEW r, Wider(p, q), Wider(q, r)
  PROVE  Wider(p, r)
BY DEF Wider

\* A row earlier than an entry is earlier than what that entry becomes.
LEMMA TmEarlierTrans ==
  ASSUME NEW row, NEW t, NEW u, row.version \in Nat, t.version \in Nat, u.version \in Nat,
         Earlier(row, t), Earlier(TemplateRow(t), u)
  PROVE  Earlier(row, u)
<1>1. Wider(u.tokens, t.tokens) /\ Wider(t.tokens, row.tokens)
  BY DEF Earlier, TemplateRow
<1>2. Wider(u.tokens, row.tokens)
  BY <1>1, TmWiderTrans
<1> QED
  BY <1>2 DEF Earlier, TemplateRow

\* Nothing moves in a miner that keeps its templates, its staged rows and its overflow.
LEMMA TmAdvancesSame ==
  ASSUME NEW m, NEW n, TreeOK(m), n.entries = m.entries, n.pending = m.pending, n.other = m.other
  PROVE  Advances(m, n)
<1>1. \A id \in DOMAIN m.entries : m.entries[id].version \in Nat
  BY DEF TreeOK, IsEntry
<1>2. \A id \in DOMAIN m.entries : Earlier(TemplateRow(m.entries[id]), m.entries[id])
  BY <1>1 DEF Earlier, Wider, TemplateRow
<1> QED
  BY <1>2 DEF Advances

\* A miner that advances twice has advanced.
LEMMA TmAdvancesTrans ==
  ASSUME NEW m, NEW n, NEW o, TreeOK(m), TreeOK(n), TreeOK(o), Advances(m, n), Advances(n, o)
  PROVE  Advances(m, o)
<1>1. ASSUME NEW id \in DOMAIN m.entries
      PROVE  id \in DOMAIN o.entries /\ Earlier(TemplateRow(m.entries[id]), o.entries[id])
  <2>1. /\ id \in DOMAIN n.entries /\ Earlier(TemplateRow(m.entries[id]), n.entries[id])
        /\ id \in DOMAIN o.entries /\ Earlier(TemplateRow(n.entries[id]), o.entries[id])
    BY DEF Advances
  <2>2. /\ TemplateRow(m.entries[id]).version \in Nat /\ n.entries[id].version \in Nat
        /\ o.entries[id].version \in Nat
    BY <2>1 DEF TreeOK, IsEntry, TemplateRow
  <2> QED
    BY <2>1, <2>2, TmEarlierTrans
<1>2. ASSUME NEW id \in DOMAIN o.entries \ DOMAIN o.pending
      PROVE  /\ id \in DOMAIN m.entries \ DOMAIN m.pending
             /\ TemplateRow(o.entries[id]) = TemplateRow(m.entries[id])
  BY DEF Advances
<1> QED
  BY <1>1, <1>2 DEF Advances

\* The overflow identity is there before anything else.
LEMMA TmEnsured ==
  ASSUME NEW m, Sound(m)
  PROVE  /\ Sound(EnsureOther(m)) /\ Advances(m, EnsureOther(m))
         /\ EnsureOther(m).other = OtherId
         /\ EnsureOther(m).entries = m.entries /\ EnsureOther(m).kids = m.kids
         /\ EnsureOther(m).dict = m.dict
<1> DEFINE n == EnsureOther(m)
<1>1. CASE m.other # 0
  <2>1. n = m /\ m.other = OtherId
    BY <1>1 DEF EnsureOther, Sound, StagedOK
  <2> QED
    BY <2>1, TmAdvancesSame DEF Sound
<1>2. CASE m.other = 0
  <2>1. OtherId \notin DOMAIN m.pending
    BY <1>2 DEF Sound, StagedOK, OtherId
  <2> DEFINE r == [m EXCEPT !.other = OtherId]
  <2>2. /\ r = [entries |-> m.entries, kids |-> m.kids, other |-> OtherId, seq |-> m.seq,
               dict |-> m.dict, pending |-> m.pending]
    BY DEF Sound, IsMiner
  <2>3. n = [r EXCEPT !.pending = Put(@, OtherId, OtherRow)]
    BY <1>2, <2>1, <2>2 DEF EnsureOther, StageRow
  <2>4. n = [entries |-> m.entries, kids |-> m.kids, other |-> OtherId, seq |-> m.seq,
             dict |-> m.dict, pending |-> Put(m.pending, OtherId, OtherRow)]
    BY <2>2, <2>3
  <2>5. IsMiner(n)
    BY <2>4 DEF IsMiner
  <2>6. TreeOK(n)
    BY <2>4 DEF TreeOK, Sound, Leaf
  <2>7. StagedOK(n)
    <3>0. n.pending = Put(m.pending, OtherId, OtherRow)
      BY <2>4
    <3> HIDE DEF n
    <3>1. /\ DOMAIN n.pending = DOMAIN m.pending \cup {OtherId}
          /\ n.pending[OtherId] = OtherRow
          /\ \A x \in DOMAIN m.pending : x # OtherId => n.pending[x] = m.pending[x]
      BY <3>0 DEF Put
    <3> QED
      BY <2>4, <3>1 DEF StagedOK, Sound
  <2>8. Advances(m, n)
    <3>1. \A id \in DOMAIN m.entries : m.entries[id].version \in Nat /\ id # OtherId
      BY DEF Sound, TreeOK, IsEntry
    <3>0. n.pending = Put(m.pending, OtherId, OtherRow) /\ n.entries = m.entries /\ n.other = OtherId
      BY <2>4
    <3> HIDE DEF n
    <3>2. DOMAIN n.pending = DOMAIN m.pending \cup {OtherId}
      BY <3>0 DEF Put
    <3>3. \A id \in DOMAIN m.entries : Earlier(TemplateRow(m.entries[id]), m.entries[id])
      BY <3>1 DEF Earlier, Wider, TemplateRow
    <3> QED
      BY <3>0, <3>1, <3>2, <3>3 DEF Advances
  <2> QED
    BY <2>4, <2>5, <2>6, <2>7, <2>8 DEF Sound
<1> QED
  BY <1>1, <1>2

\* A descent only makes children.
LEMMA TmDescends ==
  ASSUME NEW m, Sound(m), NEW line
  PROVE  /\ Sound(Descend(m, line)) /\ Advances(m, Descend(m, line))
         /\ Descend(m, line) = [entries |-> m.entries, kids |-> m.kids \cup {Leaf(m, line[1])},
                                other |-> m.other, seq |-> m.seq, dict |-> m.dict,
                                pending |-> m.pending]
         /\ Leaf(Descend(m, line), line[1]) = Leaf(m, line[1])
<1> DEFINE n == Descend(m, line)
<1>1. n = [entries |-> m.entries, kids |-> m.kids \cup {Leaf(m, line[1])},
           other |-> m.other, seq |-> m.seq, dict |-> m.dict, pending |-> m.pending]
  BY DEF Descend, Sound, IsMiner
<1>2. /\ n.entries = m.entries /\ n.kids = m.kids \cup {Leaf(m, line[1])} /\ n.other = m.other
      /\ n.seq = m.seq /\ n.dict = m.dict /\ n.pending = m.pending
  BY <1>1
<1>3. IsMiner(n)
  BY <1>1 DEF IsMiner
<1> HIDE DEF n
<1>4. /\ IsFiniteSet(n.kids) /\ Leaf(n, line[1]) = Leaf(m, line[1])
      /\ \A t : Leaf(m, t) \in m.kids => Leaf(n, t) = Leaf(m, t)
  <2>1. IsFiniteSet(m.kids)
    BY DEF Sound, TreeOK
  <2>2. Grown(m, line[1], n)
    BY <1>2 DEF Grown
  <2> QED
    BY <2>1, <2>2, TmLeafStable
<1>5. TreeOK(n)
  BY <1>2, <1>4 DEF Sound, TreeOK
<1>6. StagedOK(n)
  BY <1>2 DEF Sound, StagedOK
<1>7. Advances(m, n)
  BY <1>2, TmAdvancesSame DEF Sound
<1> QED
  BY <1>1, <1>3, <1>4, <1>5, <1>6, <1>7 DEF Sound, n

\* Writing a template: what the miner stages is the row of what it wrote.
LEMMA TmWrites ==
  ASSUME NEW m, Sound(m), NEW id, id # OtherId, NEW t, NEW n, DictOK(n.dict),
         n.entries = Put(m.entries, id, t), n.pending = Put(m.pending, id, TemplateRow(t)),
         n.other = m.other,
         id \in DOMAIN m.entries => Earlier(TemplateRow(m.entries[id]), t)
  PROVE  StagedOK(n) /\ Advances(m, n)
<1>1. /\ DOMAIN n.entries = DOMAIN m.entries \cup {id} /\ n.entries[id] = t
      /\ \A x \in DOMAIN m.entries : x # id => n.entries[x] = m.entries[x]
  BY DEF Put
<1>2. /\ DOMAIN n.pending = DOMAIN m.pending \cup {id} /\ n.pending[id] = TemplateRow(t)
      /\ \A x \in DOMAIN m.pending : x # id => n.pending[x] = m.pending[x]
  BY DEF Put
<1>3. StagedOK(n)
  BY <1>1, <1>2 DEF StagedOK, Sound
<1>4. \A x \in DOMAIN m.entries : Earlier(TemplateRow(m.entries[x]), m.entries[x])
  <2>1. \A x \in DOMAIN m.entries : m.entries[x].version \in Nat
    BY DEF Sound, TreeOK, IsEntry
  <2> QED
    BY <2>1 DEF Earlier, Wider, TemplateRow
<1>5. Advances(m, n)
  BY <1>1, <1>2, <1>4 DEF Advances
<1> QED
  BY <1>3, <1>5

\* Staging a template whose staged row, if any, is not newer.
LEMMA TmStages ==
  ASSUME NEW m, IsMiner(m), NEW id,
         id \in DOMAIN m.pending => m.pending[id].version <= m.entries[id].version
  PROVE  Stage(m, id) =
           [entries |-> m.entries, kids |-> m.kids, other |-> m.other, seq |-> m.seq,
            dict |-> m.dict, pending |-> Put(m.pending, id, TemplateRow(m.entries[id]))]
<1>1. TemplateRow(m.entries[id]).version = m.entries[id].version
  BY DEF TemplateRow
<1>2. id \in DOMAIN m.pending => TemplateRow(m.entries[id]).version >= m.pending[id].version
  BY <1>1
<1>3. Stage(m, id) = [m EXCEPT !.pending = Put(@, id, TemplateRow(m.entries[id]))]
  BY <1>2 DEF Stage, StageRow
<1> QED
  BY <1>3 DEF IsMiner

\* A new version of a template.
LEMMA TmBumped ==
  ASSUME NEW t, IsEntry(t), NEW p
  PROVE  [t EXCEPT !.tokens = p, !.version = @ + 1] =
           [tokens |-> p, version |-> t.version + 1, seq |-> t.seq, alias |-> 0, leaf |-> t.leaf]
<1> DEFINE v == t.version
           a == t.tokens
           s == t.seq
           f == t.leaf
<1>1. t = [tokens |-> a, version |-> v, seq |-> s, alias |-> 0, leaf |-> f]
  BY DEF IsEntry
<1> HIDE DEF v, a, s, f
<1> DEFINE w == v + 1
           q == [t EXCEPT !.tokens = p]
<1> HIDE DEF w
<1>2. q = [tokens |-> p, version |-> v, seq |-> s, alias |-> 0, leaf |-> f]
  BY <1>1
<1>3. [t EXCEPT !.tokens = p, !.version = w] = [q EXCEPT !.version = w]
  OBVIOUS
<1> HIDE DEF q
<1>4. [q EXCEPT !.version = w] = [tokens |-> p, version |-> w, seq |-> s, alias |-> 0, leaf |-> f]
  BY <1>2
<1> QED
  BY <1>1, <1>3, <1>4 DEF v, s, f, w

\* A match widens the template it found, and no other template gets in its way.
LEMMA TmMatches ==
  ASSUME NEW m, Sound(m), NEW line \in Patterns, NEW b \in BestMatch(m, line)
  PROVE  LET n == Matched(m, b, line)
         IN  /\ Sound(n) /\ Advances(m, n) /\ n.other = m.other
             /\ ResolveAlias(n.entries, b) = b
             /\ b \in DOMAIN n.entries /\ Wider(n.entries[b].tokens, line)
<1> DEFINE t == m.entries[b]
           p == Generalised(t.tokens, line)
           u == [t EXCEPT !.tokens = p, !.version = @ + 1]
           m0 == [m EXCEPT !.entries[b] = u]
           n == Stage(m0, b)
<1>0. IsMiner(m) /\ TreeOK(m) /\ StagedOK(m)
  BY DEF Sound
<1>1. b \in DOMAIN m.entries
  BY <1>0, TmBestIs
<1>2. /\ p \in Patterns /\ Wider(p, line) /\ Wider(p, t.tokens)
      /\ Leaf(m, p[1]) = t.leaf
      /\ p # t.tokens => \A j \in DOMAIN m.entries : m.entries[j].tokens # p
  BY <1>0, TmGeneralised
<1>3. IsEntry(t) /\ t.seq < m.seq /\ t.leaf \in m.kids /\ b # OtherId /\ b \in Nat
  BY <1>0, <1>1 DEF TreeOK
<1> HIDE DEF p
<1>4. u = [tokens |-> p, version |-> t.version + 1, seq |-> t.seq, alias |-> 0, leaf |-> t.leaf]
  BY <1>3, TmBumped
<1>5. CASE p = t.tokens
  <2>1. Matched(m, b, line) = m
    BY <1>5 DEF Matched, p
  <2>2. ResolveAlias(m.entries, b) = b
    BY <1>3 DEF ResolveAlias, IsEntry
  <2> QED
    BY <1>0, <1>1, <1>2, <1>5, <2>1, <2>2, TmAdvancesSame
<1>6. CASE p # t.tokens
  <2> HIDE DEF u
  <2>1. m0 = [entries |-> Put(m.entries, b, u), kids |-> m.kids, other |-> m.other,
              seq |-> m.seq, dict |-> m.dict, pending |-> m.pending]
    <3>1. [m.entries EXCEPT ![b] = u] = Put(m.entries, b, u)
      BY <1>1 DEF Put
    <3> QED
      BY <1>0, <3>1 DEF IsMiner
  <2> HIDE DEF m0
  <2>2. /\ DOMAIN m0.entries = DOMAIN m.entries /\ m0.entries[b] = u
        /\ \A x \in DOMAIN m.entries : x # b => m0.entries[x] = m.entries[x]
        /\ m0.pending = m.pending /\ m0.kids = m.kids /\ m0.seq = m.seq /\ m0.dict = m.dict
        /\ m0.other = m.other /\ m0.entries = Put(m.entries, b, u)
    BY <1>1, <2>1 DEF Put
  <2>3. IsMiner(m0)
    BY <2>1 DEF IsMiner
  <2>4. b \in DOMAIN m0.pending => m0.pending[b].version <= m0.entries[b].version
    <3>1. b \in DOMAIN m.pending => m.pending[b] = TemplateRow(t)
      BY <1>0, <1>3 DEF StagedOK
    <3>2. TemplateRow(t).version = t.version /\ u.version = t.version + 1 /\ t.version \in Nat
      BY <1>3, <1>4 DEF TemplateRow, IsEntry
    <3> QED
      BY <2>2, <3>1, <3>2
  <2>5. n = [entries |-> m0.entries, kids |-> m.kids, other |-> m.other, seq |-> m.seq,
             dict |-> m.dict, pending |-> Put(m.pending, b, TemplateRow(u))]
    BY <2>2, <2>3, <2>4, TmStages
  <2> HIDE DEF n
  <2>6. /\ n.entries = m0.entries /\ n.kids = m.kids /\ n.other = m.other /\ n.seq = m.seq
        /\ n.dict = m.dict /\ n.pending = Put(m.pending, b, TemplateRow(u))
    BY <2>5
  <2>7. IsEntry(u)
    BY <1>2, <1>3, <1>4 DEF IsEntry
  <2>8. TreeOK(n)
    <3>1. \A tok : Leaf(n, tok) = Leaf(m, tok)
      BY <2>6 DEF Leaf
    <3>2. ASSUME NEW id \in DOMAIN n.entries
          PROVE  /\ id \in Nat /\ id # OtherId /\ IsEntry(n.entries[id])
                 /\ n.entries[id].seq < n.seq
                 /\ n.entries[id].leaf \in n.kids
                 /\ n.entries[id].leaf = Leaf(n, n.entries[id].tokens[1])
      <4>1. CASE id = b
        BY <1>2, <1>3, <1>4, <2>2, <2>6, <2>7, <3>1, <4>1
      <4>2. CASE id # b
        BY <1>0, <2>2, <2>6, <3>1, <4>2 DEF TreeOK
      <4> QED
        BY <4>1, <4>2
    <3>3. ASSUME NEW i \in DOMAIN n.entries, NEW j \in DOMAIN n.entries, i # j
          PROVE  n.entries[i].tokens # n.entries[j].tokens /\ n.entries[i].seq # n.entries[j].seq
      <4>1. u.tokens = p /\ u.seq = t.seq
        BY <1>4
      <4>2. \A k \in DOMAIN m.entries : k # b => m.entries[k].seq # t.seq /\ m.entries[k].tokens # p
        BY <1>0, <1>1, <1>2, <1>6 DEF TreeOK
      <4>3. m.entries[i].tokens # m.entries[j].tokens /\ m.entries[i].seq # m.entries[j].seq
        BY <1>0, <2>2, <2>6, <3>3 DEF TreeOK
      <4> QED
        BY <2>2, <2>6, <3>3, <4>1, <4>2, <4>3
    <3> QED
      BY <1>0, <2>2, <2>6, <3>2, <3>3 DEF TreeOK
  <2>9. Earlier(TemplateRow(t), u)
    BY <1>2, <1>3, <1>4 DEF Earlier, TemplateRow, IsEntry
  <2>10. StagedOK(n) /\ Advances(m, n)
    <3>1. DictOK(n.dict)
      BY <1>0, <2>6 DEF StagedOK
    <3>2. n.entries = Put(m.entries, b, u)
      BY <2>2, <2>6
    <3> QED
      BY <1>3, <2>6, <2>9, <3>1, <3>2, TmWrites
  <2>11. IsMiner(n)
    BY <2>5, <2>6 DEF IsMiner
  <2>12. FindTwin(n, b) = {}
    <3>1. \A j \in DOMAIN n.entries : j # b => n.entries[j].tokens # n.entries[b].tokens
      BY <1>1, <2>2, <2>6, <2>8 DEF TreeOK
    <3> QED
      BY <3>1 DEF FindTwin, Live
  <2>13. Matched(m, b, line) = n
    BY <1>6, <2>12 DEF Matched, n, m0, u, p
  <2>14. /\ b \in DOMAIN n.entries /\ n.entries[b].tokens = p /\ n.entries[b].alias = 0
    BY <1>1, <1>4, <2>2, <2>6
  <2> QED
    BY <1>2, <2>6, <2>8, <2>10, <2>11, <2>13, <2>14 DEF Sound, ResolveAlias
<1> QED
  BY <1>5, <1>6

\* The identity a new pattern gets from the dictionary is a number.
LEMMA TmRegisters ==
  ASSUME NEW m, DictOK(m.dict), NEW line
  PROVE  /\ RegisterTemplate(m, line) \in Nat
         /\ DictOK(Put(m.dict, line, RegisterTemplate(m, line)))
<1> DEFINE id == RegisterTemplate(m, line)
           d == Put(m.dict, line, id)
<1>1. Cardinality(DOMAIN m.dict) \in Nat
  BY FS_CardinalityType DEF DictOK
<1>2. id \in Nat
  BY <1>1 DEF RegisterTemplate, DictOK, OtherId
<1>3. DOMAIN d = DOMAIN m.dict \cup {line} /\ \A l \in DOMAIN d : d[l] \in Nat
  <2> HIDE DEF id
  <2> QED
    BY <1>2 DEF Put, DictOK
<1>4. IsFiniteSet(DOMAIN m.dict \cup {line})
  BY FS_AddElement DEF DictOK
<1> HIDE DEF d
<1>5. DictOK(d)
  BY <1>3, <1>4 DEF DictOK
<1> QED
  BY <1>2, <1>5 DEF d

\* A template planted in the leaf its pattern leads to, with a pattern and a sequence of its
\* own, keeps the tree in order.
LEMMA TmPlants ==
  ASSUME NEW m, TreeOK(m), NEW id \in Nat, id # OtherId, id \notin DOMAIN m.entries,
         NEW t, IsEntry(t), t.leaf = Leaf(m, t.tokens[1]),
         \A j \in DOMAIN m.entries :
           m.entries[j].tokens # t.tokens /\ m.entries[j].seq # t.seq,
         NEW n, n.kids = m.kids \cup {Leaf(m, t.tokens[1])}, n.entries = Put(m.entries, id, t),
         n.seq \in Nat, m.seq <= n.seq, t.seq < n.seq
  PROVE  TreeOK(n)
<1>1. /\ DOMAIN n.entries = DOMAIN m.entries \cup {id} /\ n.entries[id] = t
      /\ \A x \in DOMAIN m.entries : n.entries[x] = m.entries[x]
  BY DEF Put
<1>2. /\ IsFiniteSet(n.kids) /\ Leaf(n, t.tokens[1]) = Leaf(m, t.tokens[1])
      /\ \A tok : Leaf(m, tok) \in m.kids => Leaf(n, tok) = Leaf(m, tok)
  <2> DEFINE k == t.tokens[1]
  <2>1. IsFiniteSet(m.kids) /\ Grown(m, k, n)
    BY DEF TreeOK, Grown
  <2> HIDE DEF k
  <2>2. /\ IsFiniteSet(n.kids) /\ Leaf(n, k) = Leaf(m, k)
        /\ \A tok : Leaf(m, tok) \in m.kids => Leaf(n, tok) = Leaf(m, tok)
    BY ONLY <2>1, TmLeafStable
  <2> QED
    BY <2>2 DEF k
<1>3. ASSUME NEW x \in DOMAIN n.entries
      PROVE  /\ x \in Nat /\ x # OtherId /\ IsEntry(n.entries[x])
             /\ n.entries[x].seq < n.seq
             /\ n.entries[x].leaf \in n.kids
             /\ n.entries[x].leaf = Leaf(n, n.entries[x].tokens[1])
  <2>1. CASE x = id
    BY <1>1, <1>2, <2>1
  <2>2. CASE x # id
    <3>1. x \in DOMAIN m.entries /\ n.entries[x] = m.entries[x]
      BY <1>1, <2>2
    <3>2. /\ x \in Nat /\ x # OtherId /\ IsEntry(m.entries[x]) /\ m.entries[x].seq < m.seq
          /\ m.entries[x].leaf \in m.kids
          /\ m.entries[x].leaf = Leaf(m, m.entries[x].tokens[1]) /\ m.seq \in Nat
          /\ m.entries[x].seq \in Nat
      BY <3>1 DEF TreeOK, IsEntry
    <3> QED
      BY <1>2, <3>1, <3>2
  <2> QED
    BY <2>1, <2>2
<1>4. ASSUME NEW i \in DOMAIN n.entries, NEW j \in DOMAIN n.entries, i # j
      PROVE  n.entries[i].tokens # n.entries[j].tokens /\ n.entries[i].seq # n.entries[j].seq
  <2>1. \A x, y \in DOMAIN m.entries :
          x # y => /\ m.entries[x].tokens # m.entries[y].tokens
                   /\ m.entries[x].seq # m.entries[y].seq
    BY DEF TreeOK
  <2> QED
    BY <1>1, <1>4, <2>1
<1>5. IsFiniteSet(DOMAIN n.entries)
  BY <1>1, FS_AddElement DEF TreeOK
<1> QED
  BY <1>2, <1>3, <1>4, <1>5 DEF TreeOK

\* A new pattern gets a template of its own, or counts as overflow.
LEMMA TmAdds ==
  ASSUME NEW m, Sound(m), m.other = OtherId, NEW line \in Patterns, BestMatch(m, line) = {},
         NEW kids, kids = m.kids \cup {Leaf(m, line[1])}
  PROVE  LET r == [Added(m, line) EXCEPT !.m.kids = kids]
         IN  Sound(r.m) /\ Advances(m, r.m) /\ Issued(r.m, r.id, line)
<1> DEFINE id == RegisterTemplate(m, line)
           m1 == IF id = OtherId THEN m ELSE [m EXCEPT !.dict = Put(@, line, id)]
           t == [tokens |-> line, version |-> 0, seq |-> m.seq, alias |-> 0,
                 leaf |-> Leaf(m, line[1])]
           d1 == m1.dict
           a == Added(m, line)
           r == [a EXCEPT !.m.kids = kids]
<1>0. IsMiner(m) /\ TreeOK(m) /\ StagedOK(m)
  BY DEF Sound
<1>1. id \in Nat /\ DictOK(Put(m.dict, line, id)) /\ DictOK(m.dict)
  BY <1>0, TmRegisters DEF StagedOK
<1>2. /\ a = IF id \in Live(m) \cup {m.other}
             THEN [m |-> m1, id |-> m.other]
             ELSE [m |-> Stage([m1 EXCEPT !.entries = Put(@, id, t), !.seq = @ + 1], id), id |-> id]
  BY DEF Added
<1> HIDE DEF id
<1>3. m1 = [entries |-> m.entries, kids |-> m.kids, other |-> m.other, seq |-> m.seq,
            dict |-> d1, pending |-> m.pending] /\ DictOK(d1)
  <2>1. CASE id = OtherId
    BY <1>0, <1>1, <2>1 DEF IsMiner
  <2>2. CASE id # OtherId
    BY <1>0, <1>1, <2>2 DEF IsMiner
  <2> QED
    BY <2>1, <2>2
<1> HIDE DEF m1, d1, a, t
<1>4. /\ IsFiniteSet(kids)
      /\ \A n : n.kids = kids => /\ Leaf(n, line[1]) = Leaf(m, line[1])
                                 /\ \A tok : Leaf(m, tok) \in m.kids => Leaf(n, tok) = Leaf(m, tok)
  <2>1. IsFiniteSet(m.kids)
    BY <1>0 DEF TreeOK
  <2>2. IsFiniteSet(kids)
    BY <2>1, FS_AddElement
  <2>3. \A n : n.kids = kids => Grown(m, line[1], n)
    BY DEF Grown
  <2> QED
    BY <2>1, <2>2, <2>3, TmLeafStable
<1>5. Live(m) = DOMAIN m.entries
  BY <1>0 DEF Live, TreeOK, IsEntry
<1>6. CASE id \in Live(m) \cup {m.other}
  <2> DEFINE n == [entries |-> m.entries, kids |-> kids, other |-> m.other, seq |-> m.seq,
                   dict |-> d1, pending |-> m.pending]
  <2>1. r = [m |-> n, id |-> m.other]
    <3>1. a = [m |-> m1, id |-> m.other]
      BY <1>2, <1>6
    <3>2. [m1 EXCEPT !.kids = kids] = n
      BY <1>3
    <3>3. r = [m |-> [m1 EXCEPT !.kids = kids], id |-> m.other]
      BY <3>1
    <3> QED
      BY <3>2, <3>3
  <2>2. /\ n.entries = m.entries /\ n.kids = kids /\ n.other = m.other /\ n.seq = m.seq
        /\ n.dict = d1 /\ n.pending = m.pending /\ IsMiner(n)
    BY DEF IsMiner
  <2> HIDE DEF n
  <2>3. TreeOK(n)
    BY <1>0, <1>4, <2>2 DEF TreeOK
  <2>4. StagedOK(n)
    BY <1>0, <1>3, <2>2 DEF StagedOK
  <2>5. Advances(m, n)
    BY <1>0, <2>2, TmAdvancesSame
  <2>6. Issued(n, m.other, line)
    BY <2>2 DEF Issued, OtherId
  <2> HIDE DEF r
  <2>7. r.m = n /\ r.id = m.other
    BY <2>1
  <2> QED
    BY <2>2, <2>3, <2>4, <2>5, <2>6, <2>7 DEF Sound, r, a
<1>7. CASE id \notin Live(m) \cup {m.other}
  <2> DEFINE m2 == [entries |-> Put(m.entries, id, t), kids |-> m.kids, other |-> m.other,
                    seq |-> m.seq + 1, dict |-> d1, pending |-> m.pending]
             n == [entries |-> Put(m.entries, id, t), kids |-> kids, other |-> m.other,
                   seq |-> m.seq + 1, dict |-> d1, pending |-> Put(m.pending, id, TemplateRow(t))]
  <2>0. id \notin DOMAIN m.entries /\ id # OtherId /\ id \notin DOMAIN m.pending
    BY <1>0, <1>5, <1>7 DEF StagedOK
  <2>1. [m1 EXCEPT !.entries = Put(@, id, t), !.seq = @ + 1] = m2
    <3> DEFINE es == Put(m.entries, id, t)
               k == m.seq + 1
               q == [m1 EXCEPT !.entries = es]
    <3> HIDE DEF es, k
    <3>1. q = [entries |-> es, kids |-> m.kids, other |-> m.other, seq |-> m.seq,
               dict |-> d1, pending |-> m.pending]
      BY <1>3
    <3>2. [m1 EXCEPT !.entries = es, !.seq = k] = [q EXCEPT !.seq = k]
      OBVIOUS
    <3> HIDE DEF q
    <3>3. [q EXCEPT !.seq = k] = [entries |-> es, kids |-> m.kids, other |-> m.other, seq |-> k,
                                  dict |-> d1, pending |-> m.pending]
      BY <3>1
    <3> QED
      BY <1>3, <3>2, <3>3 DEF es, k
  <2>2. Stage(m2, id) = [entries |-> m2.entries, kids |-> m2.kids, other |-> m2.other,
                         seq |-> m2.seq, dict |-> m2.dict,
                         pending |-> Put(m2.pending, id, TemplateRow(m2.entries[id]))]
    <3>1. IsMiner(m2) /\ id \notin DOMAIN m2.pending
      BY <2>0 DEF IsMiner
    <3> HIDE DEF m2
    <3> QED
      BY <3>1, TmStages
  <2>3. r = [m |-> n, id |-> id]
    <3> DEFINE s == Stage(m2, id)
    <3>1. a = [m |-> s, id |-> id]
      BY <1>2, <1>7, <2>1
    <3>2. m2.entries[id] = t
      BY DEF Put
    <3>3. s = [entries |-> Put(m.entries, id, t), kids |-> m.kids, other |-> m.other,
               seq |-> m.seq + 1, dict |-> d1, pending |-> Put(m.pending, id, TemplateRow(t))]
      BY <2>2, <3>2
    <3> HIDE DEF s
    <3>4. [s EXCEPT !.kids = kids] = n
      BY <3>3
    <3>5. r = [m |-> [s EXCEPT !.kids = kids], id |-> id]
      BY <3>1
    <3> QED
      BY <3>4, <3>5
  <2>4. /\ n.entries = Put(m.entries, id, t) /\ n.kids = kids /\ n.other = m.other
        /\ n.seq = m.seq + 1 /\ n.dict = d1 /\ n.pending = Put(m.pending, id, TemplateRow(t))
        /\ IsMiner(n)
    BY DEF IsMiner
  <2> HIDE DEF n
  <2>5. /\ DOMAIN n.entries = DOMAIN m.entries \cup {id} /\ n.entries[id] = t
        /\ \A x \in DOMAIN m.entries : n.entries[x] = m.entries[x]
    BY <2>0, <2>4 DEF Put
  <2>6. /\ t.tokens = line /\ t.version = 0 /\ t.seq = m.seq /\ t.alias = 0
        /\ t.leaf = Leaf(m, line[1]) /\ IsEntry(t)
    BY <1>0 DEF t, IsEntry, TreeOK
  <2>7. \A j \in DOMAIN m.entries : m.entries[j].tokens # line /\ m.entries[j].seq # m.seq
    <3> SUFFICES ASSUME NEW j \in DOMAIN m.entries
                 PROVE  m.entries[j].tokens # line /\ m.entries[j].seq # m.seq
      OBVIOUS
    <3>1. m.entries[j].seq # m.seq
      <4>1. m.entries[j].seq < m.seq /\ m.seq \in Nat /\ IsEntry(m.entries[j])
        BY <1>0 DEF TreeOK
      <4>2. m.entries[j].seq \in Nat
        BY <4>1 DEF IsEntry
      <4> QED
        BY <4>1, <4>2
    <3>2. ASSUME m.entries[j].tokens = line PROVE FALSE
      <4>1. m.entries[j].leaf = Leaf(m, line[1]) /\ Wider(m.entries[j].tokens, line)
        BY <1>0, <3>2 DEF TreeOK, Wider
      <4> QED
        BY <1>0, <4>1, TmBestExists
    <3> QED
      BY <3>1, <3>2
  <2>8. TreeOK(n)
    <3>1. m.seq \in Nat
      BY <1>0 DEF TreeOK
    <3> QED
      BY <1>0, <1>1, <2>0, <2>4, <2>6, <2>7, <3>1, TmPlants
  <2>9. StagedOK(n) /\ Advances(m, n)
    BY <1>3, <2>0, <2>4, TmWrites
  <2>10. Issued(n, id, line)
    BY <1>1, <2>0, <2>5, <2>6 DEF Issued, Wider
  <2> HIDE DEF r
  <2>11. r.m = n /\ r.id = id
    BY <2>3
  <2> QED
    BY <2>4, <2>8, <2>9, <2>10, <2>11 DEF Sound, r, a
<1> QED
  BY <1>6, <1>7

\* mine: whatever a line becomes, the miner moves forward and the identity covers the line.
LEMMA TmMines ==
  ASSUME NEW m, Sound(m), NEW line \in Lines
  PROVE  /\ Sound(Mined(m, line).m) /\ Advances(m, Mined(m, line).m)
         /\ Issued(Mined(m, line).m, Mined(m, line).id, line)
<1> DEFINE m1 == EnsureOther(m)
           m2 == Descend(m1, line)
           r == Mined(m, line)
<1>1. /\ Sound(m1) /\ Advances(m, m1) /\ m1.other = OtherId
  BY TmEnsured
<1> HIDE DEF m1
<1>2. CASE line = <<>>
  <2>1. r = [m |-> m1, id |-> m1.other]
    BY <1>2 DEF Mined, m1
  <2>2. Issued(m1, m1.other, line)
    BY <1>1 DEF Issued, OtherId
  <2> QED
    BY <1>1, <2>1, <2>2
<1>3. CASE line # <<>>
  <2>1. line \in Patterns
    BY <1>3, TmLinePattern
  <2>2. /\ Sound(m2) /\ Advances(m1, m2)
        /\ m2.entries = m1.entries /\ m2.kids = m1.kids \cup {Leaf(m1, line[1])}
        /\ m2.other = m1.other
        /\ Leaf(m2, line[1]) = Leaf(m1, line[1])
    <3>1. /\ Sound(m2) /\ Advances(m1, m2) /\ Leaf(m2, line[1]) = Leaf(m1, line[1])
          /\ m2 = [entries |-> m1.entries, kids |-> m1.kids \cup {Leaf(m1, line[1])},
                   other |-> m1.other, seq |-> m1.seq, dict |-> m1.dict, pending |-> m1.pending]
      BY <1>1, TmDescends
    <3> HIDE DEF m2
    <3> QED
      BY <3>1
  <2> HIDE DEF m2
  <2>3. Advances(m, m2)
    BY <1>1, <2>2, TmAdvancesTrans DEF Sound
  <2>4. CASE BestMatch(m1, line) # {}
    <3> DEFINE b == CHOOSE i \in BestMatch(m1, line) : TRUE
    <3>1. b \in BestMatch(m1, line)
      BY <2>4
    <3> HIDE DEF b
    <3>2. BestMatch(m2, line) = BestMatch(m1, line)
      BY <2>2 DEF BestMatch
    <3>3. b \in DOMAIN m1.entries
      BY <1>1, <2>1, <3>1, TmBestIs DEF Sound
    <3>4. ResolveAlias(m1.entries, b) = b
      BY <1>1, <3>3 DEF ResolveAlias, Sound, TreeOK, IsEntry
    <3> DEFINE n == Matched(m2, b, line)
    <3>5. /\ Sound(n) /\ Advances(m2, n) /\ n.other = m2.other
          /\ ResolveAlias(n.entries, b) = b
          /\ b \in DOMAIN n.entries /\ Wider(n.entries[b].tokens, line)
      BY <2>1, <2>2, <3>1, <3>2, TmMatches
    <3>6. r = [m |-> n, id |-> b]
      BY <1>3, <2>4, <3>4, <3>5 DEF Mined, m1, m2, b
    <3> HIDE DEF n
    <3>7. Advances(m, n)
      BY <2>2, <2>3, <3>5, TmAdvancesTrans DEF Sound
    <3>8. Issued(n, b, line)
      BY <2>1, <3>5 DEF Issued, Sound, TreeOK
    <3> HIDE DEF r
    <3>9. r.m = n /\ r.id = b
      BY <3>6
    <3> QED
      BY <3>5, <3>7, <3>8, <3>9 DEF r
  <2>5. CASE BestMatch(m1, line) = {} /\ Cardinality(Live(m2)) >= TmMaxTemplates
    <3>1. r = [m |-> m2, id |-> m2.other]
      BY <1>3, <2>5 DEF Mined, m1, m2
    <3>2. Issued(m2, m2.other, line)
      BY <1>1, <2>2 DEF Issued, OtherId
    <3> QED
      BY <2>2, <2>3, <3>1, <3>2
  <2>6. CASE BestMatch(m1, line) = {} /\ ~ (Cardinality(Live(m2)) >= TmMaxTemplates)
    <3> DEFINE s == [Added(m1, line) EXCEPT !.m.kids = m2.kids]
    <3>1. r = s
      BY <1>3, <2>6 DEF Mined, m1, m2
    <3>2. Sound(s.m) /\ Advances(m1, s.m) /\ Issued(s.m, s.id, line)
      BY <1>1, <2>1, <2>2, <2>6, TmAdds
    <3> HIDE DEF s, r
    <3>3. Advances(m, s.m)
      BY <1>1, <3>2, TmAdvancesTrans DEF Sound
    <3> QED
      BY <3>1, <3>2, <3>3 DEF r
  <2> QED
    BY <2>4, <2>5, <2>6
<1> QED
  BY <1>2, <1>3

\* One row of the replay and what the replay has built after n rows.
Replays(g, rows, dict, o, n) ==
  g = [k \in 0 .. n |-> IF k = 0 THEN [NewTemplateMiner EXCEPT !.dict = dict]
                        ELSE RestoreRow(g[k - 1], o[k], rows[o[k]])]

\* The replay's recursion has a solution, row by row.
LEMMA TmReplayExists ==
  ASSUME NEW rows, NEW dict, NEW o, NEW n \in Nat
  PROVE  \E g : Replays(g, rows, dict, o, n)
<1> DEFINE Zero == [NewTemplateMiner EXCEPT !.dict = dict]
           Row(m, k) == RestoreRow(m, o[k], rows[o[k]])
           Is(g, j) == g = [k \in 0 .. j |-> IF k = 0 THEN Zero ELSE Row(g[k - 1], k)]
           Bad == {k \in Nat : ~ \E g : Is(g, k)}
<1> HIDE DEF Zero, Row
<1>1. SUFFICES ASSUME Bad # {} PROVE FALSE
  <2>1. \E g : Is(g, n)
    BY <1>1
  <2> QED
    BY <2>1 DEF Replays, Zero, Row
<1>2. PICK k \in Bad : \A j \in Bad : k <= j
  <2>1. Bad \in SUBSET Nat
    OBVIOUS
  <2> HIDE DEF Bad
  <2> QED
    BY <1>1, <2>1, LeastMember
<1>3. k # 0
  <2>1. Is([j \in 0 .. 0 |-> Zero], 0)
    OBVIOUS
  <2> QED
    BY <2>1
<1>4. k - 1 \in Nat /\ k - 1 \notin Bad
  BY <1>2, <1>3
<1>5. PICK g : Is(g, k - 1)
  BY <1>4
<1> DEFINE h == [j \in 0 .. k |-> IF j = k THEN Row(g[k - 1], k) ELSE g[j]]
<1>6. Is(h, k)
  <2>1. \A j \in 0 .. k - 1 : g[j] = IF j = 0 THEN Zero ELSE Row(g[j - 1], j)
    BY <1>5, <1>4
  <2>2. \A j \in 0 .. k : h[j] = IF j = 0 THEN Zero ELSE Row(h[j - 1], j)
    <3> SUFFICES ASSUME NEW j \in 0 .. k
                 PROVE  h[j] = IF j = 0 THEN Zero ELSE Row(h[j - 1], j)
      OBVIOUS
    <3>1. CASE j = k
      <4>1. h[k] = Row(g[k - 1], k) /\ h[k - 1] = g[k - 1]
        BY <1>3
      <4> QED
        BY <3>1, <4>1, <1>3
    <3>2. CASE j # k
      <4>1. j \in 0 .. k - 1 /\ (j # 0 => j - 1 \in 0 .. k /\ j - 1 # k)
        BY <3>2
      <4>2. h[j] = g[j] /\ (j # 0 => h[j - 1] = g[j - 1])
        BY <3>2, <4>1
      <4> QED
        BY <4>1, <4>2, <2>1
    <3> QED
      BY <3>1, <3>2
  <2>3. h = [j \in 0 .. k |-> h[j]]
    OBVIOUS
  <2> QED
    BY <2>2, <2>3, Zenon
<1> QED
  BY <1>6

\* What the replay has built when the rows of done are in: their templates, in a tree that is
\* in order, and nothing staged.
Rebuilt(m, rows, dict, done) ==
  /\ IsMiner(m) /\ TreeOK(m) /\ m.dict = dict /\ m.pending = <<>>
  /\ m.other = IF OtherId \in done THEN OtherId ELSE 0
  /\ DOMAIN m.entries = done \ {OtherId}
  /\ \A id \in DOMAIN m.entries : TemplateRow(m.entries[id]) = rows[id]

\* Restore's next row adds exactly that row to what is rebuilt.
LEMMA TmReplaysRow ==
  ASSUME NEW rows, RowsOK(rows), NEW dict, NEW done \in SUBSET DOMAIN rows,
         NEW m, Rebuilt(m, rows, dict, done), NEW id \in DOMAIN rows, id \notin done
  PROVE  Rebuilt(RestoreRow(m, id, rows[id]), rows, dict, done \cup {id})
<1> DEFINE row == rows[id]
           n == RestoreRow(m, id, row)
<1>0. IsMiner(m) /\ TreeOK(m) /\ m.seq \in Nat
  BY DEF Rebuilt, TreeOK
<1>1. CASE id = OtherId
  <2>1. row.other
    BY <1>1 DEF RowsOK, OtherRow
  <2>2. n = [m EXCEPT !.other = OtherId]
    BY <1>1, <2>1 DEF RestoreRow
  <2>3. n = [entries |-> m.entries, kids |-> m.kids, other |-> OtherId, seq |-> m.seq,
             dict |-> m.dict, pending |-> m.pending]
    BY <1>0, <2>2 DEF IsMiner
  <2> HIDE DEF n
  <2>4. /\ n.entries = m.entries /\ n.kids = m.kids /\ n.other = OtherId /\ n.seq = m.seq
        /\ n.dict = m.dict /\ n.pending = m.pending /\ IsMiner(n)
    BY <2>3 DEF IsMiner
  <2>5. TreeOK(n)
    BY <1>0, <2>4 DEF TreeOK, Leaf
  <2>6. Rebuilt(n, rows, dict, done \cup {id})
    BY <1>1, <2>4, <2>5 DEF Rebuilt
  <2> QED
    BY <2>6 DEF n
<1>2. CASE id # OtherId
  <2>1. IsTemplateRow(row) /\ id \in Nat
    BY <1>2 DEF RowsOK
  <2>2. /\ row = [tokens |-> row.tokens, version |-> row.version, seq |-> row.seq, alias |-> 0,
                  other |-> FALSE]
        /\ row.tokens \in Patterns /\ row.version \in Nat /\ row.seq \in Nat
    BY <2>1 DEF IsTemplateRow
  <2>3. row.other = FALSE /\ row.alias = 0
    BY <2>2
  <2> DEFINE t == [tokens |-> row.tokens, version |-> row.version, seq |-> row.seq,
                   alias |-> 0, leaf |-> Leaf(m, row.tokens[1])]
             d == Descend(m, row.tokens)
             k == IF row.seq >= m.seq THEN row.seq + 1 ELSE m.seq
             es == Put(m.entries, id, t)
             ks == m.kids \cup {Leaf(m, row.tokens[1])}
  <2>4. d = [entries |-> m.entries, kids |-> ks, other |-> m.other, seq |-> m.seq,
             dict |-> m.dict, pending |-> m.pending]
    BY <1>0 DEF Descend, IsMiner
  <2>5. n = [d EXCEPT !.entries = Put(@, id, t), !.seq = IF row.seq >= @ THEN row.seq + 1 ELSE @]
    BY <2>3 DEF RestoreRow
  <2>6. n = [entries |-> es, kids |-> ks, other |-> m.other, seq |-> k,
             dict |-> m.dict, pending |-> m.pending]
    <3> HIDE DEF n, t, d, ks
    <3>1. d.entries = m.entries /\ d.seq = m.seq
      BY <2>4
    <3>2. n = [d EXCEPT !.entries = es, !.seq = k]
      BY <2>5, <3>1
    <3> DEFINE q == [d EXCEPT !.entries = es]
    <3> HIDE DEF es, k
    <3>3. q = [entries |-> es, kids |-> ks, other |-> m.other, seq |-> m.seq,
               dict |-> m.dict, pending |-> m.pending]
      BY <2>4
    <3>4. [d EXCEPT !.entries = es, !.seq = k] = [q EXCEPT !.seq = k]
      OBVIOUS
    <3> HIDE DEF q
    <3>5. [q EXCEPT !.seq = k] = [entries |-> es, kids |-> ks, other |-> m.other, seq |-> k,
                                  dict |-> m.dict, pending |-> m.pending]
      BY <3>3
    <3> QED
      BY <3>2, <3>4, <3>5
  <2> HIDE DEF n
  <2>7. /\ n.entries = es /\ n.kids = ks /\ n.other = m.other /\ n.seq = k /\ n.dict = m.dict
        /\ n.pending = m.pending /\ IsMiner(n)
    BY <2>6 DEF IsMiner
  <2>8. k \in Nat /\ m.seq <= k /\ row.seq < k
    BY <1>0, <2>2
  <2>9. /\ t.tokens = row.tokens /\ t.seq = row.seq /\ t.leaf = Leaf(m, t.tokens[1])
        /\ IsEntry(t)
    BY <2>2 DEF IsEntry
  <2>10. id \notin DOMAIN m.entries
    BY DEF Rebuilt
  <2>11. \A j \in DOMAIN m.entries : m.entries[j].tokens # t.tokens /\ m.entries[j].seq # t.seq
    <3> SUFFICES ASSUME NEW j \in DOMAIN m.entries
                 PROVE  m.entries[j].tokens # row.tokens /\ m.entries[j].seq # row.seq
      BY <2>9
    <3>1. j \in DOMAIN rows \ {OtherId} /\ j # id /\ TemplateRow(m.entries[j]) = rows[j]
      BY <2>10 DEF Rebuilt
    <3>2. rows[j].tokens = m.entries[j].tokens /\ rows[j].seq = m.entries[j].seq
      <4>1. /\ TemplateRow(m.entries[j]).tokens = m.entries[j].tokens
            /\ TemplateRow(m.entries[j]).seq = m.entries[j].seq
        BY DEF TemplateRow
      <4> QED
        BY <3>1, <4>1
    <3>3. rows[j].tokens # rows[id].tokens /\ rows[j].seq # rows[id].seq
      BY <1>2, <3>1 DEF RowsOK
    <3> QED
      BY <3>2, <3>3
  <2> HIDE DEF k
  <2>12. TreeOK(n)
    <3> HIDE DEF t
    <3>1. n.kids = m.kids \cup {Leaf(m, t.tokens[1])}
      BY <2>7, <2>9
    <3>2. n.entries = Put(m.entries, id, t) /\ n.seq \in Nat /\ m.seq <= n.seq /\ t.seq < n.seq
      BY <2>7, <2>8, <2>9
    <3> QED
      BY <1>0, <1>2, <2>1, <2>9, <2>10, <2>11, <3>1, <3>2, TmPlants
  <2>13. DOMAIN n.entries = DOMAIN m.entries \cup {id} /\ n.entries[id] = t
         /\ \A x \in DOMAIN m.entries : n.entries[x] = m.entries[x]
    <3> HIDE DEF t
    <3> QED
      BY <2>7, <2>10 DEF Put
  <2>14. TemplateRow(t) = row
    BY <2>2 DEF TemplateRow
  <2>15. Rebuilt(n, rows, dict, done \cup {id})
    <3> HIDE DEF t
    <3> QED
      BY <1>2, <2>7, <2>12, <2>13, <2>14 DEF Rebuilt
  <2> QED
    BY <2>15 DEF n
<1> QED
  BY <1>1, <1>2

\* A restart rebuilds exactly the stored templates, in a tree that is in order.
LEMMA TmRestores ==
  ASSUME NEW rows, RowsOK(rows), NEW dict, NEW o \in RestoreOrders(rows)
  PROVE  Rebuilt(Restore(rows, dict, o), rows, dict, DOMAIN rows)
<1> DEFINE c == Cardinality(DOMAIN rows)
           g == CHOOSE f : Replays(f, rows, dict, o, c)
           Done(k) == {o[i] : i \in 1 .. k}
           Bad == {k \in 0 .. c : ~ Rebuilt(g[k], rows, dict, Done(k))}
<1>1. c \in Nat
  BY FS_CardinalityType DEF RowsOK
<1>2. Restore(rows, dict, o) = g[c]
  BY DEF Restore, Replays
<1> HIDE DEF c
<1>3. Replays(g, rows, dict, o, c)
  <2>1. \E f : Replays(f, rows, dict, o, c)
    BY <1>1, TmReplayExists
  <2> QED
    BY <2>1
<1> HIDE DEF g
<1>4. /\ \A k \in 1 .. c : o[k] \in DOMAIN rows
      /\ Done(c) = DOMAIN rows
      /\ \A k, l \in 1 .. c : k < l => o[k] # o[l]
  <2>1. /\ o \in [1 .. c -> DOMAIN rows] /\ {o[k] : k \in DOMAIN o} = DOMAIN rows
        /\ \A k, l \in DOMAIN o :
             k < l => \/ rows[o[k]].seq < rows[o[l]].seq
                      \/ rows[o[k]].seq = rows[o[l]].seq /\ o[k] < o[l]
    BY DEF RestoreOrders, c
  <2>2. \A id \in DOMAIN rows : id \in Nat /\ rows[id].seq \in Nat
    BY DEF RowsOK, IsTemplateRow, OtherRow, OtherId
  <2>3. DOMAIN o = 1 .. c /\ \A k \in 1 .. c : o[k] \in DOMAIN rows
    BY <2>1
  <2>4. Done(c) = DOMAIN rows
    BY <2>1, <2>3
  <2>5. ASSUME NEW k \in 1 .. c, NEW l \in 1 .. c, k < l, o[k] = o[l]
        PROVE  FALSE
    <3>1. \/ rows[o[k]].seq < rows[o[l]].seq
          \/ rows[o[k]].seq = rows[o[l]].seq /\ o[k] < o[l]
      BY <2>1, <2>3, <2>5
    <3>2. o[k] \in Nat /\ rows[o[k]].seq \in Nat
      BY <2>2, <2>3
    <3> QED
      BY <2>5, <3>1, <3>2
  <2> QED
    BY <2>3, <2>4, <2>5
<1>5. \A k \in 0 .. c : g[k] = IF k = 0 THEN [NewTemplateMiner EXCEPT !.dict = dict]
                               ELSE RestoreRow(g[k - 1], o[k], rows[o[k]])
  BY <1>1, <1>3 DEF Replays
<1>6. Rebuilt(g[0], rows, dict, Done(0))
  <2>1. Done(0) = {}
    OBVIOUS
  <2>2. g[0] = [entries |-> <<>>, kids |-> {}, other |-> 0, seq |-> 0, dict |-> dict,
                pending |-> <<>>]
    <3>1. g[0] = [NewTemplateMiner EXCEPT !.dict = dict]
      BY <1>1, <1>5
    <3> QED
      BY <3>1 DEF NewTemplateMiner
  <2> HIDE DEF Done
  <2>3. /\ g[0].entries = <<>> /\ g[0].kids = {} /\ g[0].other = 0 /\ g[0].seq = 0
        /\ g[0].dict = dict /\ g[0].pending = <<>> /\ IsMiner(g[0])
    BY <2>2 DEF IsMiner
  <2>4. DOMAIN g[0].entries = {}
    BY <2>3
  <2>5. TreeOK(g[0])
    BY <2>3, <2>4, FS_EmptySet DEF TreeOK
  <2> QED
    BY <2>1, <2>3, <2>4, <2>5 DEF Rebuilt
<1>7. ASSUME Bad # {} PROVE FALSE
  <2>1. PICK k \in Bad : \A j \in Bad : k <= j
    <3>1. Bad \in SUBSET Nat
      BY <1>1
    <3> HIDE DEF Bad
    <3> QED
      BY <1>7, <3>1, LeastMember
  <2>2. k \in 1 .. c /\ k - 1 \in 0 .. c
    BY <1>1, <1>6, <2>1
  <2>3. Rebuilt(g[k - 1], rows, dict, Done(k - 1))
    <3>1. k - 1 \notin Bad
      <4>1. k \in Int
        BY <2>2
      <4> HIDE DEF Bad
      <4> QED
        BY <2>1, <4>1
    <3>2. \A j \in 0 .. c : j \notin Bad => Rebuilt(g[j], rows, dict, Done(j))
      <4> HIDE DEF Done
      <4> QED
        OBVIOUS
    <3> HIDE DEF Bad, Done
    <3> QED
      BY <2>2, <3>1, <3>2
  <2>4. /\ Done(k - 1) \in SUBSET DOMAIN rows /\ o[k] \in DOMAIN rows /\ o[k] \notin Done(k - 1)
        /\ Done(k) = Done(k - 1) \cup {o[k]}
    <3>1. 1 .. k = (1 .. k - 1) \cup {k} /\ \A i \in 1 .. k - 1 : i \in 1 .. c /\ i < k
      BY <1>1, <2>2
    <3> QED
      BY <1>1, <1>4, <2>2, <3>1
  <2>5. g[k] = RestoreRow(g[k - 1], o[k], rows[o[k]])
    BY <1>1, <1>5, <2>2
  <2> HIDE DEF Done, Bad
  <2>6. Rebuilt(g[k], rows, dict, Done(k))
    BY <2>3, <2>4, <2>5, TmReplaysRow
  <2> QED
    BY <2>1, <2>6 DEF Bad
<1>8. Rebuilt(g[c], rows, dict, Done(c))
  <2>1. \A j \in 0 .. c : j \notin Bad => Rebuilt(g[j], rows, dict, Done(j))
    <3> HIDE DEF Done
    <3> QED
      OBVIOUS
  <2>2. c \in 0 .. c
    BY <1>1
  <2> HIDE DEF Bad, Done
  <2> QED
    BY <1>7, <2>1, <2>2
<1> QED
  BY <1>2, <1>4, <1>8

\* Rows stay behind a miner that moves forward, and what is not staged stays stored.
LEMMA TmBehindMoves ==
  ASSUME NEW m, NEW n, TreeOK(m), TreeOK(n), Advances(m, n), NEW rows, Behind(rows, m),
         \A id \in DOMAIN rows \ {OtherId} : rows[id].version \in Nat
  PROVE  Behind(rows, n)
<1>1. OtherId \in DOMAIN rows => n.other = OtherId
  BY DEF Behind, Advances
<1>2. ASSUME NEW id \in DOMAIN rows \ {OtherId}
      PROVE  id \in DOMAIN n.entries /\ Earlier(rows[id], n.entries[id])
  <2>1. id \in DOMAIN m.entries /\ Earlier(rows[id], m.entries[id])
    BY <1>2 DEF Behind
  <2>2. id \in DOMAIN n.entries /\ Earlier(TemplateRow(m.entries[id]), n.entries[id])
    BY <2>1 DEF Advances
  <2>3. rows[id].version \in Nat /\ m.entries[id].version \in Nat /\ n.entries[id].version \in Nat
    BY <1>2, <2>1, <2>2 DEF TreeOK, IsEntry
  <2> QED
    BY <2>1, <2>2, <2>3, TmEarlierTrans
<1> QED
  BY <1>1, <1>2 DEF Behind

\* An entry that is not pending still has its row when the miner advances.
LEMMA TmKeptMoves ==
  ASSUME NEW m, NEW n, Advances(m, n), NEW rows, KeptOK(m, rows)
  PROVE  KeptOK(n, rows)
<1>1. ASSUME NEW id \in DOMAIN n.entries \ DOMAIN n.pending
      PROVE  id \in DOMAIN rows /\ rows[id] = TemplateRow(n.entries[id])
  <2>1. /\ id \in DOMAIN m.entries \ DOMAIN m.pending
        /\ TemplateRow(n.entries[id]) = TemplateRow(m.entries[id])
    BY <1>1 DEF Advances
  <2>2. id \in DOMAIN rows /\ rows[id] = TemplateRow(m.entries[id])
    BY <2>1 DEF KeptOK
  <2> QED
    BY <2>1, <2>2
<1>2. n.other = OtherId /\ OtherId \notin DOMAIN n.pending => OtherId \in DOMAIN rows
  BY DEF Advances, KeptOK
<1> QED
  BY <1>1, <1>2 DEF KeptOK

\* The row of a template is a row, and an earlier state of it.
LEMMA TmRowOf ==
  ASSUME NEW t, IsEntry(t)
  PROVE  /\ IsTemplateRow(TemplateRow(t)) /\ Earlier(TemplateRow(t), t)
         /\ TemplateRow(t).tokens = t.tokens /\ TemplateRow(t).seq = t.seq
         /\ TemplateRow(t).version = t.version
<1>1. /\ TemplateRow(t) = [tokens |-> t.tokens, version |-> t.version, seq |-> t.seq,
                           alias |-> 0, other |-> FALSE]
      /\ t.tokens \in Patterns /\ t.version \in Nat /\ t.seq \in Nat
  BY DEF TemplateRow, IsEntry
<1> DEFINE r == TemplateRow(t)
<1> HIDE DEF r
<1>2. r.tokens = t.tokens /\ r.version = t.version /\ r.seq = t.seq
  BY <1>1 DEF r
<1>3. IsTemplateRow(r)
  BY <1>1, <1>2 DEF IsTemplateRow, r
<1>4. Earlier(r, t)
  BY <1>1, <1>2 DEF Earlier, Wider
<1> QED
  BY <1>2, <1>3, <1>4 DEF r

\* A row with the version of its template is the template's row.
LEMMA TmSameVersion ==
  ASSUME NEW r, IsTemplateRow(r), NEW t, IsEntry(t), Earlier(r, t), r.version >= t.version
  PROVE  r = TemplateRow(t)
<1>1. r.version \in Nat /\ t.version \in Nat
  BY DEF IsTemplateRow, IsEntry
<1>2. r.version = t.version
  BY <1>1 DEF Earlier
<1>3. r.tokens = t.tokens /\ r.seq = t.seq
  BY <1>2 DEF Earlier
<1>4. r = [tokens |-> t.tokens, version |-> t.version, seq |-> t.seq, alias |-> 0,
           other |-> FALSE]
  BY <1>2, <1>3 DEF IsTemplateRow
<1> QED
  BY <1>4 DEF TemplateRow, IsEntry

\* UpsertTemplates row by row.
LEMMA TmUpserts ==
  ASSUME NEW S, NEW P
  PROVE  /\ DOMAIN UpsertTemplates(S, P) = DOMAIN S \cup DOMAIN P
         /\ \A i \in DOMAIN P : (i \in DOMAIN S => P[i].version >= S[i].version)
                                => UpsertTemplates(S, P)[i] = P[i]
         /\ \A i \in DOMAIN S : ~ (i \in DOMAIN P /\ P[i].version >= S[i].version)
                                => UpsertTemplates(S, P)[i] = S[i]
BY DEF UpsertTemplates

\* What holds of rows only depends on them.
LEMMA TmSameRows ==
  ASSUME NEW S, NEW N, DOMAIN N = DOMAIN S, \A i \in DOMAIN S : N[i] = S[i]
  PROVE  /\ RowsOK(S) => RowsOK(N)
         /\ \A x : Resolves(S, x) => Resolves(N, x)
<1>1. RowsOK(S) => RowsOK(N)
  BY DEF RowsOK
<1>2. \A x : Resolves(S, x) => Resolves(N, x)
  BY DEF Resolves
<1> QED
  BY <1>1, <1>2

\* An upsert of no rows changes none.
LEMMA TmUpsertsNone ==
  ASSUME NEW S
  PROVE  /\ RowsOK(S) => RowsOK(UpsertTemplates(S, <<>>))
         /\ \A x : Resolves(S, x) => Resolves(UpsertTemplates(S, <<>>), x)
<1> DEFINE N == UpsertTemplates(S, <<>>)
<1>1. DOMAIN N = DOMAIN S /\ \A i \in DOMAIN S : N[i] = S[i]
  BY DEF UpsertTemplates
<1> HIDE DEF N
<1>2. /\ RowsOK(S) => RowsOK(N)
      /\ \A x : Resolves(S, x) => Resolves(N, x)
  BY <1>1, TmSameRows
<1> QED
  BY <1>2 DEF N

\* A commit of what is staged now would store what the miner holds now.
LEMMA TmSnapshot ==
  ASSUME NEW m, Sound(m), NEW S, RowsOK(S), Behind(S, m), KeptOK(m, S)
  PROVE  LET N == UpsertTemplates(S, m.pending)
         IN  /\ RowsOK(N)
             /\ \A id \in DOMAIN m.entries : id \in DOMAIN N /\ N[id] = TemplateRow(m.entries[id])
             /\ m.other = OtherId => OtherId \in DOMAIN N
<1> DEFINE P == m.pending
           N == UpsertTemplates(S, P)
<1>1. DOMAIN N = DOMAIN S \cup DOMAIN P
  BY DEF UpsertTemplates
<1>2. /\ \A i \in DOMAIN P : (i \in DOMAIN S => P[i].version >= S[i].version) => N[i] = P[i]
      /\ \A i \in DOMAIN S : ~ (i \in DOMAIN P /\ P[i].version >= S[i].version) => N[i] = S[i]
  <2> HIDE DEF P
  <2> QED
    BY DEF UpsertTemplates
<1> HIDE DEF N
<1>3. ASSUME NEW id \in DOMAIN m.entries
      PROVE  id \in DOMAIN N /\ N[id] = TemplateRow(m.entries[id])
  <2>0. id # OtherId /\ IsEntry(m.entries[id]) /\ m.entries[id].version \in Nat
    BY <1>3 DEF Sound, TreeOK, IsEntry
  <2>1. CASE id \in DOMAIN P
    <3>1. P[id] = TemplateRow(m.entries[id])
      BY <2>0, <2>1 DEF Sound, StagedOK
    <3>2. P[id].version = m.entries[id].version
      BY <2>0, <3>1, TmRowOf
    <3>3. id \in DOMAIN S => P[id].version >= S[id].version
      <4>1. SUFFICES ASSUME id \in DOMAIN S PROVE m.entries[id].version >= S[id].version
        BY <3>2
      <4>2. S[id].version <= m.entries[id].version /\ S[id].version \in Nat
        BY <2>0, <4>1 DEF Behind, Earlier, RowsOK, IsTemplateRow
      <4> QED
        BY <2>0, <4>2
    <3> QED
      BY <1>1, <1>2, <2>1, <3>1, <3>3
  <2>2. CASE id \notin DOMAIN P
    <3>1. id \in DOMAIN S /\ S[id] = TemplateRow(m.entries[id])
      BY <2>2 DEF KeptOK
    <3> QED
      BY <1>1, <1>2, <2>2, <3>1
  <2> QED
    BY <2>1, <2>2
<1>4. DOMAIN N \ {OtherId} \subseteq DOMAIN m.entries
  BY <1>1 DEF Sound, StagedOK, Behind
<1>5. OtherId \in DOMAIN N => N[OtherId] = OtherRow
  <2>1. OtherId \in DOMAIN P => P[OtherId] = OtherRow
    BY DEF Sound, StagedOK
  <2>2. OtherId \in DOMAIN S => S[OtherId] = OtherRow
    BY DEF RowsOK
  <2> QED
    BY <1>1, <1>2, <2>1, <2>2
<1>6. IsFiniteSet(DOMAIN N)
  <2>1. IsFiniteSet(DOMAIN m.entries \cup {OtherId})
    BY FS_AddElement DEF Sound, TreeOK
  <2>2. DOMAIN N \subseteq DOMAIN m.entries \cup {OtherId}
    BY <1>4
  <2> HIDE DEF P
  <2> QED
    BY <2>1, <2>2, FS_Subset
<1>7. RowsOK(N)
  <2>1. ASSUME NEW id \in DOMAIN N \ {OtherId}
        PROVE  /\ id \in DOMAIN m.entries /\ id \in Nat /\ IsTemplateRow(N[id])
               /\ N[id].tokens = m.entries[id].tokens /\ N[id].seq = m.entries[id].seq
    <3>1. id \in DOMAIN m.entries /\ IsEntry(m.entries[id]) /\ id \in Nat
      BY <1>4, <2>1 DEF Sound, TreeOK
    <3> QED
      BY <1>3, <3>1, TmRowOf
  <2>2. ASSUME NEW i \in DOMAIN N \ {OtherId}, NEW j \in DOMAIN N \ {OtherId}, i # j
        PROVE  N[i].tokens # N[j].tokens /\ N[i].seq # N[j].seq
    <3>1. /\ m.entries[i].tokens # m.entries[j].tokens
          /\ m.entries[i].seq # m.entries[j].seq
      BY <2>1, <2>2 DEF Sound, TreeOK
    <3> QED
      BY <2>1, <2>2, <3>1
  <2> QED
    BY <1>5, <1>6, <2>1, <2>2 DEF RowsOK
<1>8. m.other = OtherId => OtherId \in DOMAIN N
  BY <1>1 DEF KeptOK
<1> QED
  BY <1>3, <1>7, <1>8 DEF N

\* An export that is not part of a group or durable needs the miner alone.
LEMMA TmIdleExport ==
  ASSUME NEW e, tmExp'[e] = [st |-> "idle", line |-> <<>>, id |-> 0], e \notin tmGroup.members'
  PROVE  LineOK(e)'
<1> DEFINE x == tmExp'[e]
<1>1. /\ x = [st |-> x.st, line |-> x.line, id |-> x.id]
      /\ x.st = "idle" /\ x.line = <<>> /\ x.id = 0
  OBVIOUS
<1>2. x.line \in Lines /\ x.id \in Nat
  BY <1>1 DEF Lines
<1> HIDE DEF x
<1> QED
  BY <1>1, <1>2 DEF LineOK, x

\* Without a group nothing is under way.
LEMMA TmNoGroup ==
  ASSUME TmInv, tmGroup' = NoGroup, RowsOK(tmStore.rows')
  PROVE  GroupOK' /\ tmGroup.members' = {}
<1>1. /\ tmGroup' = [members |-> {}, rows |-> <<>>, dict |-> <<>>]
      /\ tmGroup.members' = {} /\ tmGroup.rows' = <<>> /\ tmGroup.dict' = <<>>
  BY DEF NoGroup
<1>2. DOMAIN tmGroup.rows' = {}
  BY <1>1
<1>3. DictOK(tmGroup.dict')
  BY <1>1, FS_EmptySet DEF DictOK
<1>4. RowsOK(NextRows)'
  BY <1>1, TmUpsertsNone DEF NextRows
<1>5. Behind(tmGroup.rows', tm')
  BY <1>2 DEF Behind
<1> QED
  BY <1>1, <1>2, <1>3, <1>4, <1>5 DEF GroupOK

\* The invariant holds of a fresh database.
LEMMA TmInvInit == TmInit => TmInv
<1> SUFFICES ASSUME TmInit PROVE TmInv
  OBVIOUS
<1>1. /\ tm.entries = <<>> /\ tm.kids = {} /\ tm.other = 0 /\ tm.seq = 0 /\ tm.dict = <<>>
      /\ tm.pending = <<>> /\ IsMiner(tm)
  BY DEF TmInit, NewTemplateMiner, IsMiner
<1>2. DOMAIN tm.entries = {} /\ DOMAIN tm.dict = {} /\ DOMAIN tm.pending = {}
  BY <1>1
<1>3. TreeOK(tm) /\ StagedOK(tm) /\ KeptOK(tm, tmStore.rows)
  BY <1>1, <1>2, FS_EmptySet DEF TreeOK, StagedOK, KeptOK, DictOK, OtherId
<1>4. /\ tmStore.rows = <<>> /\ tmStore.dict = <<>>
      /\ tmStore = [rows |-> tmStore.rows, dict |-> tmStore.dict]
  BY DEF TmInit
<1>5. DOMAIN tmStore.rows = {} /\ DOMAIN tmStore.dict = {}
  BY <1>4
<1>6. RowsOK(tmStore.rows)
  BY <1>5, FS_EmptySet DEF RowsOK
<1>7. StoreOK
  BY <1>4, <1>5, <1>6, FS_EmptySet DEF StoreOK, DictOK, Behind
<1>8. /\ tmGroup = [members |-> {}, rows |-> <<>>, dict |-> <<>>]
      /\ tmGroup.members = {} /\ tmGroup.rows = <<>> /\ tmGroup.dict = <<>>
  BY DEF TmInit, NoGroup
<1>9. DOMAIN tmGroup.rows = {} /\ DOMAIN tmGroup.dict = {}
  BY <1>8
<1>10. RowsOK(NextRows)
  BY <1>6, <1>8, TmUpsertsNone DEF NextRows
<1>11. GroupOK
  BY <1>8, <1>9, <1>10, FS_EmptySet DEF GroupOK, DictOK, Behind
<1>12. ASSUME NEW e \in TmExports PROVE LineOK(e)
  <2> DEFINE x == tmExp[e]
  <2>1. x = [st |-> "idle", line |-> <<>>, id |-> 0]
    BY DEF TmInit
  <2>2. /\ x = [st |-> x.st, line |-> x.line, id |-> x.id]
        /\ x.st = "idle" /\ x.line = <<>> /\ x.id = 0
    BY <2>1
  <2>3. x.line \in Lines /\ x.id \in Nat
    BY <2>2 DEF Lines
  <2> HIDE DEF x
  <2> QED
    BY <1>8, <2>2, <2>3 DEF LineOK, x
<1>13. tmExp = [e \in TmExports |-> tmExp[e]]
  BY DEF TmInit
<1>14. tmMines \in 0 .. TmMaxMines /\ tmCrashes \in 0 .. TmMaxCrashes
  BY TmAssumption DEF TmInit
<1> QED
  BY <1>1, <1>3, <1>7, <1>11, <1>12, <1>13, <1>14 DEF TmInv

\* Mining a line: the miner moves forward, and what is durable or under way stays behind it.
LEMMA TmInvMine ==
  ASSUME TmInv, NEW e \in TmExports, NEW line \in Lines, MineAt(e, line)
  PROVE  TmInv'
<1> DEFINE r == Mined(tm, line)
<1>1. /\ tm' = r.m /\ tmGroup' = tmGroup /\ tmStore' = tmStore /\ tmCrashes' = tmCrashes
      /\ tmExp' = [tmExp EXCEPT ![e] = [st |-> "mined", line |-> line, id |-> r.id]]
      /\ tmMines' = tmMines + 1 /\ tmMines < TmMaxMines /\ tmExp[e].st = "idle"
  BY DEF MineAt
<1>2. Sound(tm)
  BY DEF TmInv, Sound
<1>3. Sound(tm') /\ Advances(tm, tm') /\ Issued(tm', r.id, line)
  BY <1>1, <1>2, TmMines
<1> HIDE DEF r
<1>4. IsMiner(tm') /\ TreeOK(tm') /\ StagedOK(tm') /\ TreeOK(tm)
  BY <1>2, <1>3 DEF Sound
<1>5. KeptOK(tm', tmStore.rows')
  BY <1>1, <1>3, TmKeptMoves DEF TmInv
<1>6. StoreOK'
  <2>1. RowsOK(tmStore.rows) /\ Behind(tmStore.rows, tm)
    BY DEF TmInv, StoreOK
  <2>2. \A id \in DOMAIN tmStore.rows \ {OtherId} : tmStore.rows[id].version \in Nat
    BY <2>1 DEF RowsOK, IsTemplateRow
  <2>3. Behind(tmStore.rows, tm')
    BY <1>3, <1>4, <2>1, <2>2, TmBehindMoves
  <2> QED
    BY <1>1, <2>3 DEF TmInv, StoreOK
<1>7. GroupOK'
  <2>1. /\ Behind(tmGroup.rows, tm)
        /\ \A id \in DOMAIN tmGroup.rows \ {OtherId} : tmGroup.rows[id].version \in Nat
    BY DEF TmInv, GroupOK, IsTemplateRow
  <2>2. Behind(tmGroup.rows, tm')
    BY <1>3, <1>4, <2>1, TmBehindMoves
  <2>3. NextRows' = NextRows
    BY <1>1 DEF NextRows
  <2> QED
    BY <1>1, <2>2, <2>3 DEF TmInv, GroupOK
<1>8. ASSUME NEW f \in TmExports PROVE LineOK(f)'
  <2>0. LineOK(f) /\ LineOK(e) /\ NextRows' = NextRows
    BY <1>1 DEF TmInv, NextRows
  <2>1. CASE f = e
    <3> DEFINE x == tmExp'[e]
    <3>1. x = [st |-> "mined", line |-> line, id |-> r.id]
      BY <1>1 DEF TmInv
    <3>2. x = [st |-> x.st, line |-> x.line, id |-> x.id] /\ x.st = "mined" /\ x.line = line /\ x.id = r.id
      BY <3>1
    <3>3. e \notin tmGroup.members'
      BY <1>1, <2>0 DEF LineOK
    <3> HIDE DEF x
    <3>4. LineOK(e)'
      BY <1>3, <3>2, <3>3 DEF LineOK, Issued, x
    <3> QED
      BY <2>1, <3>4
  <2>2. CASE f # e
    <3>1. tmExp'[f] = tmExp[f]
      BY <1>1, <2>2 DEF TmInv
    <3> DEFINE x == tmExp[f]
    <3>2. x.st = "mined" =>
            IF x.id = OtherId THEN tm'.other = OtherId
            ELSE /\ x.id \in DOMAIN tm'.entries
                 /\ x.line \in Patterns /\ Wider(tm'.entries[x.id].tokens, x.line)
      <4>1. SUFFICES ASSUME x.st = "mined"
                     PROVE  IF x.id = OtherId THEN tm'.other = OtherId
                            ELSE /\ x.id \in DOMAIN tm'.entries
                                 /\ x.line \in Patterns /\ Wider(tm'.entries[x.id].tokens, x.line)
        OBVIOUS
      <4>2. CASE x.id = OtherId
        BY <1>3, <2>0, <4>1, <4>2 DEF LineOK, Advances
      <4>3. CASE x.id # OtherId
        <5>1. x.id \in DOMAIN tm.entries /\ x.line \in Patterns /\ Wider(tm.entries[x.id].tokens, x.line)
          BY <2>0, <4>1, <4>3 DEF LineOK
        <5>2. x.id \in DOMAIN tm'.entries /\ Earlier(TemplateRow(tm.entries[x.id]), tm'.entries[x.id])
          BY <1>3, <5>1 DEF Advances
        <5>3. TemplateRow(tm.entries[x.id]).tokens = tm.entries[x.id].tokens
          BY DEF TemplateRow
        <5>4. Wider(tm'.entries[x.id].tokens, tm.entries[x.id].tokens)
          BY <5>2, <5>3 DEF Earlier
        <5>5. Wider(tm'.entries[x.id].tokens, x.line)
          BY <5>1, <5>4, TmWiderTrans
        <5> QED
          BY <4>3, <5>1, <5>2, <5>5
      <4> QED
        BY <4>2, <4>3
    <3> QED
      BY <1>1, <2>0, <3>1, <3>2 DEF LineOK
  <2> QED
    BY <2>1, <2>2
<1>9. tmExp' = [f \in TmExports |-> tmExp'[f]]
  BY <1>1 DEF TmInv
<1>10. tmMines' \in 0 .. TmMaxMines /\ tmCrashes' \in 0 .. TmMaxCrashes
  BY <1>1, TmAssumption DEF TmInv
<1> QED
  BY <1>4, <1>5, <1>6, <1>7, <1>8, <1>9, <1>10 DEF TmInv

\* Closing a group: what the group would store is what the miner holds at that moment.
LEMMA TmInvDrain ==
  ASSUME TmInv, NEW es \in SUBSET TmExports, DrainPending(es)
  PROVE  TmInv'
<1>1. /\ tm' = tm /\ tmStore' = tmStore /\ tmMines' = tmMines /\ tmCrashes' = tmCrashes
      /\ tmGroup.members = {} /\ \A e \in es : tmExp[e].st = "mined"
      /\ tmExp' = [e \in TmExports |->
                     IF e \in es THEN [tmExp[e] EXCEPT !.st = "grouped"] ELSE tmExp[e]]
  BY DEF DrainPending
<1>2. tmGroup' = [members |-> es, rows |-> tm.pending, dict |-> tm.dict]
  BY DEF DrainPending
<1>3. tmGroup.members' = es /\ tmGroup.rows' = tm.pending /\ tmGroup.dict' = tm.dict
  BY <1>2
<1>4. /\ Sound(tm) /\ RowsOK(tmStore.rows) /\ Behind(tmStore.rows, tm)
      /\ KeptOK(tm, tmStore.rows)
  BY DEF TmInv, StoreOK, Sound
<1>5. /\ RowsOK(NextRows')
      /\ \A id \in DOMAIN tm.entries :
           id \in DOMAIN NextRows' /\ NextRows'[id] = TemplateRow(tm.entries[id])
      /\ tm.other = OtherId => OtherId \in DOMAIN NextRows'
  <2>1. NextRows' = UpsertTemplates(tmStore.rows, tm.pending)
    BY <1>1, <1>3 DEF NextRows
  <2> QED
    BY <1>4, <2>1, TmSnapshot
<1>6. \A id \in DOMAIN tm.entries :
        /\ id # OtherId /\ id \in Nat /\ IsEntry(tm.entries[id])
        /\ tm.entries[id].version \in Nat
  BY <1>4 DEF Sound, TreeOK, IsEntry
<1>7. ASSUME NEW id \in DOMAIN tm.pending
      PROVE  IF id = OtherId THEN tm.pending[id] = OtherRow /\ tm.other = OtherId
             ELSE /\ id \in DOMAIN tm.entries /\ id \in Nat /\ IsTemplateRow(tm.pending[id])
                  /\ Earlier(tm.pending[id], tm.entries[id])
                  /\ tm.pending[id].version = tm.entries[id].version
                  /\ tm.pending[id].tokens = tm.entries[id].tokens
  <2>1. CASE id = OtherId
    BY <1>4, <2>1 DEF Sound, StagedOK
  <2>2. CASE id # OtherId
    <3>1. id \in DOMAIN tm.entries /\ tm.pending[id] = TemplateRow(tm.entries[id])
      BY <1>4, <2>2 DEF Sound, StagedOK
    <3> QED
      BY <1>6, <2>2, <3>1, TmRowOf
  <2> QED
    BY <2>1, <2>2
<1>8. GroupOK'
  <2>1. DictOK(tmGroup.dict')
    BY <1>3, <1>4 DEF Sound, StagedOK
  <2>2. Behind(tm.pending, tm)
    BY <1>7 DEF Behind
  <2>3. ASSUME NEW id \in DOMAIN tm.pending \cap DOMAIN tmStore.rows
        PROVE  /\ tm.pending[id].version >= tmStore.rows[id].version
               /\ id # OtherId => Wider(tm.pending[id].tokens, tmStore.rows[id].tokens)
    <3>1. CASE id = OtherId
      <4>1. tm.pending[id] = OtherRow /\ tmStore.rows[id] = OtherRow
        BY <1>4, <1>7, <3>1 DEF RowsOK
      <4>2. OtherRow.version = 0
        BY DEF OtherRow
      <4> QED
        BY <3>1, <4>1, <4>2
    <3>2. CASE id # OtherId
      <4>1. Earlier(tmStore.rows[id], tm.entries[id]) /\ tmStore.rows[id].version \in Nat
        BY <1>4, <3>2 DEF Behind, RowsOK, IsTemplateRow
      <4>2. /\ tmStore.rows[id].version <= tm.entries[id].version
            /\ Wider(tm.entries[id].tokens, tmStore.rows[id].tokens)
        BY <4>1 DEF Earlier
      <4> QED
        BY <1>6, <1>7, <3>2, <4>1, <4>2
    <3> QED
      BY <3>1, <3>2
  <2>4. \A id \in DOMAIN tm.pending :
          IF id = OtherId THEN tm.pending[id] = OtherRow
          ELSE id \in Nat /\ IsTemplateRow(tm.pending[id])
    BY <1>7
  <2> QED
    BY <1>1, <1>2, <1>3, <1>5, <2>1, <2>2, <2>3, <2>4 DEF GroupOK
<1>9. ASSUME NEW e \in TmExports PROVE LineOK(e)'
  <2>0. LineOK(e)
    BY DEF TmInv
  <2>1. CASE e \in es
    <3> DEFINE x == tmExp[e]
               y == tmExp'[e]
    <3>1. x = [st |-> x.st, line |-> x.line, id |-> x.id] /\ x.st = "mined"
      BY <1>1, <2>0, <2>1 DEF LineOK
    <3>2. y = [x EXCEPT !.st = "grouped"]
      BY <1>1, <2>1
    <3> HIDE DEF x, y
    <3>3. y = [st |-> "grouped", line |-> x.line, id |-> x.id]
      BY <3>1, <3>2
    <3>4. y = [st |-> y.st, line |-> y.line, id |-> y.id] /\ y.st = "grouped"
          /\ y.line = x.line /\ y.id = x.id
      BY <3>3
    <3>5. Resolves(NextRows', y)
      <4>1. CASE x.id = OtherId
        BY <1>5, <2>0, <3>1, <3>4, <4>1 DEF LineOK, Resolves, x
      <4>2. CASE x.id # OtherId
        <5>1. x.id \in DOMAIN tm.entries /\ x.line \in Patterns
              /\ Wider(tm.entries[x.id].tokens, x.line)
          BY <2>0, <3>1, <4>2 DEF LineOK, x
        <5>2. x.id \in DOMAIN NextRows' /\ NextRows'[x.id].tokens = tm.entries[x.id].tokens
          BY <1>5, <1>6, <5>1, TmRowOf
        <5> QED
          BY <3>4, <5>1, <5>2 DEF Resolves
      <4> QED
        BY <4>1, <4>2
    <3>6. y.line \in Lines /\ y.id \in Nat
      BY <2>0, <3>4 DEF LineOK, x
    <3> QED
      BY <1>3, <2>1, <3>4, <3>5, <3>6 DEF LineOK, y
  <2>2. CASE e \notin es
    <3>1. tmExp'[e] = tmExp[e] /\ e \notin tmGroup.members /\ e \notin tmGroup.members'
      BY <1>1, <1>3, <2>2
    <3>2. tmExp[e].st # "grouped"
      BY <2>0, <3>1 DEF LineOK
    <3> QED
      BY <1>1, <2>0, <3>1, <3>2 DEF LineOK
  <2> QED
    BY <2>1, <2>2
<1>10. tmExp' = [e \in TmExports |-> tmExp'[e]]
  BY <1>1
<1> QED
  BY <1>1, <1>8, <1>9, <1>10 DEF TmInv, StoreOK

\* A commit stores no row older than the one it replaces, and every template it takes off the
\* staging area is stored as the miner holds it.
LEMMA TmInvCommit ==
  ASSUME TmInv, CommitGroupOk
  PROVE  TmInv'
<1> DEFINE S == tmStore.rows
           G == tmGroup.rows
           N == NextRows
           E == tm.entries
<1>1. /\ tmStore' = [rows |-> N, dict |-> tmGroup.dict]
      /\ tm' = [tm EXCEPT !.pending = Committed(@, G)]
      /\ tmGroup' = NoGroup /\ tmMines' = tmMines /\ tmCrashes' = tmCrashes
      /\ tmExp' = [e \in TmExports |->
                     IF e \in tmGroup.members THEN [tmExp[e] EXCEPT !.st = "acked"] ELSE tmExp[e]]
  BY DEF CommitGroupOk, NextRows
<1>2. tmStore.rows' = N /\ tmStore.dict' = tmGroup.dict
  BY <1>1
<1>3. tm' = [entries |-> E, kids |-> tm.kids, other |-> tm.other, seq |-> tm.seq,
             dict |-> tm.dict, pending |-> Committed(tm.pending, G)]
  BY <1>1 DEF TmInv, IsMiner
<1>4. /\ IsMiner(tm') /\ tm'.entries = E /\ tm'.kids = tm.kids /\ tm'.other = tm.other
      /\ tm'.seq = tm.seq /\ tm'.dict = tm.dict /\ tm'.pending = Committed(tm.pending, G)
  BY <1>3 DEF IsMiner
<1>5. /\ DOMAIN Committed(tm.pending, G) =
           {j \in DOMAIN tm.pending : j \in DOMAIN G => tm.pending[j].version > G[j].version}
      /\ \A j \in DOMAIN Committed(tm.pending, G) : Committed(tm.pending, G)[j] = tm.pending[j]
  BY DEF Committed
<1>6. /\ DOMAIN N = DOMAIN S \cup DOMAIN G
      /\ \A i \in DOMAIN G : (i \in DOMAIN S => G[i].version >= S[i].version) => N[i] = G[i]
      /\ \A i \in DOMAIN S : ~ (i \in DOMAIN G /\ G[i].version >= S[i].version) => N[i] = S[i]
  BY TmUpserts DEF NextRows
<1>7. /\ RowsOK(S) /\ Behind(S, tm) /\ RowsOK(N) /\ Behind(G, tm) /\ DictOK(tmGroup.dict)
      /\ \A id \in DOMAIN G : IF id = OtherId THEN G[id] = OtherRow
                              ELSE id \in Nat /\ IsTemplateRow(G[id])
      /\ \A id \in DOMAIN G \cap DOMAIN S :
           /\ G[id].version >= S[id].version
           /\ id # OtherId => Wider(G[id].tokens, S[id].tokens)
  BY DEF TmInv, StoreOK, GroupOK
<1>8. TreeOK(tm) /\ StagedOK(tm) /\ KeptOK(tm, S)
  BY DEF TmInv
<1>9. /\ \A i \in DOMAIN G : N[i] = G[i]
      /\ \A i \in DOMAIN S \ DOMAIN G : N[i] = S[i]
  BY <1>6, <1>7
<1> HIDE DEF N
<1>10. TreeOK(tm')
  BY <1>4, <1>8 DEF TreeOK, Leaf
<1>11. StagedOK(tm')
  <2>1. ASSUME NEW id \in DOMAIN tm'.pending
        PROVE  IF id = OtherId THEN tm'.pending[id] = OtherRow /\ tm'.other = OtherId
               ELSE id \in DOMAIN tm'.entries /\ tm'.pending[id] = TemplateRow(tm'.entries[id])
    <3>1. id \in DOMAIN tm.pending /\ tm'.pending[id] = tm.pending[id]
      BY <1>4, <1>5, <2>1
    <3> QED
      BY <1>4, <1>8, <3>1 DEF StagedOK
  <2> QED
    BY <1>4, <1>8, <2>1 DEF StagedOK
<1>12. KeptOK(tm', N)
  <2>1. ASSUME NEW id \in DOMAIN E, id \notin DOMAIN tm'.pending
        PROVE  id \in DOMAIN N /\ N[id] = TemplateRow(E[id])
    <3>0. id # OtherId /\ IsEntry(E[id]) /\ E[id].version \in Nat
      BY <1>8, <2>1 DEF TreeOK, IsEntry
    <3>1. ASSUME id \in DOMAIN G, G[id].version >= E[id].version
          PROVE  G[id] = TemplateRow(E[id])
      <4>1. IsTemplateRow(G[id]) /\ Earlier(G[id], E[id])
        BY <1>7, <3>0, <3>1 DEF Behind
      <4> QED
        BY <3>0, <3>1, <4>1, TmSameVersion
    <3>2. CASE id \in DOMAIN tm.pending
      <4>1. id \in DOMAIN G /\ ~ (tm.pending[id].version > G[id].version)
        BY <1>4, <1>5, <2>1, <3>2
      <4>2. tm.pending[id].version = E[id].version
        BY <1>8, <3>0, <3>2, TmRowOf DEF StagedOK
      <4>3. G[id].version \in Nat
        BY <1>7, <3>0, <4>1 DEF IsTemplateRow
      <4>4. G[id].version >= E[id].version
        BY <3>0, <4>1, <4>2, <4>3
      <4> QED
        BY <1>6, <1>9, <3>1, <4>1, <4>4
    <3>3. CASE id \notin DOMAIN tm.pending
      <4>1. id \in DOMAIN S /\ S[id] = TemplateRow(E[id])
        BY <1>8, <2>1, <3>3 DEF KeptOK
      <4>2. CASE id \notin DOMAIN G
        BY <1>6, <1>9, <4>1, <4>2
      <4>3. CASE id \in DOMAIN G
        <5>1. G[id].version >= S[id].version /\ S[id].version = E[id].version
          BY <1>7, <3>0, <4>1, <4>3, TmRowOf
        <5>2. G[id].version >= E[id].version
          BY <5>1
        <5> QED
          BY <1>6, <1>9, <3>1, <4>3, <5>2
      <4> QED
        BY <4>2, <4>3
    <3> QED
      BY <3>2, <3>3
  <2>2. ASSUME tm.other = OtherId, OtherId \notin DOMAIN tm'.pending
        PROVE  OtherId \in DOMAIN N
    BY <1>4, <1>5, <1>6, <1>8, <2>2 DEF KeptOK
  <2> QED
    BY <1>4, <2>1, <2>2 DEF KeptOK
<1>13. Behind(N, tm')
  <2>1. ASSUME NEW id \in DOMAIN N \ {OtherId}
        PROVE  id \in DOMAIN E /\ Earlier(N[id], E[id])
    <3>1. CASE id \in DOMAIN G
      BY <1>7, <1>9, <2>1, <3>1 DEF Behind
    <3>2. CASE id \notin DOMAIN G
      BY <1>6, <1>7, <1>9, <2>1, <3>2 DEF Behind
    <3> QED
      BY <3>1, <3>2
  <2>2. OtherId \in DOMAIN N => tm.other = OtherId
    BY <1>6, <1>7 DEF Behind
  <2> QED
    BY <1>4, <2>1, <2>2 DEF Behind
<1>14. StoreOK'
  BY <1>1, <1>2, <1>7, <1>13 DEF StoreOK
<1>15. GroupOK' /\ tmGroup.members' = {}
  BY <1>1, <1>2, <1>7, TmNoGroup
<1>16. ASSUME NEW x, Resolves(S, x) PROVE Resolves(N, x)
  <2>1. x.id \in DOMAIN N
    BY <1>6, <1>16 DEF Resolves
  <2>2. ASSUME x.id # OtherId PROVE x.line \in Patterns /\ Wider(N[x.id].tokens, x.line)
    <3>1. x.id \in DOMAIN S /\ x.line \in Patterns /\ Wider(S[x.id].tokens, x.line)
      BY <1>16, <2>2 DEF Resolves
    <3>2. CASE x.id \in DOMAIN G
      <4>1. Wider(G[x.id].tokens, S[x.id].tokens)
        BY <1>7, <2>2, <3>1, <3>2
      <4>2. Wider(G[x.id].tokens, x.line)
        BY <3>1, <4>1, TmWiderTrans
      <4> QED
        BY <1>9, <3>1, <3>2, <4>2
    <3>3. CASE x.id \notin DOMAIN G
      BY <1>9, <3>1, <3>3
    <3> QED
      BY <3>2, <3>3
  <2> QED
    BY <2>1, <2>2 DEF Resolves
<1>17. ASSUME NEW e \in TmExports PROVE LineOK(e)'
  <2>0. LineOK(e)
    BY DEF TmInv
  <2>1. CASE e \in tmGroup.members
    <3> DEFINE x == tmExp[e]
               y == tmExp'[e]
    <3>1. x = [st |-> x.st, line |-> x.line, id |-> x.id] /\ x.st = "grouped" /\ Resolves(N, x)
      BY <2>0, <2>1 DEF LineOK, N
    <3>2. y = [x EXCEPT !.st = "acked"]
      BY <1>1, <2>1
    <3> HIDE DEF x, y
    <3>3. y = [st |-> "acked", line |-> x.line, id |-> x.id]
      BY <3>1, <3>2
    <3>4. /\ y = [st |-> y.st, line |-> y.line, id |-> y.id] /\ y.st = "acked"
          /\ y.line = x.line /\ y.id = x.id
      BY <3>3
    <3>5. Resolves(N, y)
      BY <3>1, <3>4 DEF Resolves
    <3>6. y.line \in Lines /\ y.id \in Nat
      BY <2>0, <3>4 DEF LineOK, x
    <3> QED
      BY <1>2, <1>15, <3>4, <3>5, <3>6 DEF LineOK, y
  <2>2. CASE e \notin tmGroup.members
    <3>1. tmExp'[e] = tmExp[e] /\ tmExp[e].st # "grouped"
      BY <1>1, <2>0, <2>2 DEF LineOK
    <3>2. tmExp[e].st = "acked" => Resolves(N, tmExp[e])
      BY <1>16, <2>0 DEF LineOK
    <3> QED
      BY <1>2, <1>4, <1>15, <2>0, <3>1, <3>2 DEF LineOK
  <2> QED
    BY <2>1, <2>2
<1>18. tmExp' = [e \in TmExports |-> tmExp'[e]]
  BY <1>1
<1> QED
  BY <1>1, <1>2, <1>4, <1>10, <1>11, <1>12, <1>14, <1>15, <1>17, <1>18 DEF TmInv

\* A failed commit changes neither the miner nor the store.
LEMMA TmInvFails ==
  ASSUME TmInv, CommitGroupFails
  PROVE  TmInv'
<1>1. /\ tm' = tm /\ tmStore' = tmStore /\ tmGroup' = NoGroup
      /\ tmMines' = tmMines /\ tmCrashes' = tmCrashes
      /\ tmExp' = [e \in TmExports |->
                     IF e \in tmGroup.members
                     THEN [st |-> "idle", line |-> <<>>, id |-> 0] ELSE tmExp[e]]
  BY DEF CommitGroupFails
<1>2. GroupOK' /\ tmGroup.members' = {}
  <2>1. RowsOK(tmStore.rows')
    BY <1>1 DEF TmInv, StoreOK
  <2> QED
    BY <1>1, <2>1, TmNoGroup
<1>3. ASSUME NEW e \in TmExports PROVE LineOK(e)'
  <2>1. CASE e \in tmGroup.members
    <3>1. tmExp'[e] = [st |-> "idle", line |-> <<>>, id |-> 0] /\ e \notin tmGroup.members'
      BY <1>1, <1>2, <2>1
    <3> QED
      BY <3>1, TmIdleExport
  <2>2. CASE e \notin tmGroup.members
    <3>1. tmExp'[e] = tmExp[e] /\ LineOK(e)
      BY <1>1, <2>2 DEF TmInv
    <3>2. tmExp[e].st # "grouped"
      BY <2>2, <3>1 DEF LineOK
    <3> QED
      BY <1>1, <1>2, <3>1, <3>2 DEF LineOK
  <2> QED
    BY <2>1, <2>2
<1>4. tmExp' = [e \in TmExports |-> tmExp'[e]]
  BY <1>1
<1> QED
  BY <1>1, <1>2, <1>3, <1>4 DEF TmInv, StoreOK

\* A restart rebuilds the miner its store describes.
LEMMA TmInvCrash ==
  ASSUME TmInv, CrashAndRestore
  PROVE  TmInv'
<1> DEFINE S == tmStore.rows
<1>1. /\ tmStore' = tmStore /\ tmGroup' = NoGroup /\ tmMines' = tmMines
      /\ tmCrashes' = tmCrashes + 1 /\ tmCrashes < TmMaxCrashes
      /\ tmExp' = [e \in TmExports |->
                     IF tmExp[e].st = "acked" THEN tmExp[e]
                     ELSE [st |-> "idle", line |-> <<>>, id |-> 0]]
  BY DEF CrashAndRestore
<1>2. PICK o \in RestoreOrders(S) : tm' = Restore(S, tmStore.dict, o)
  BY DEF CrashAndRestore
<1>3. RowsOK(S) /\ DictOK(tmStore.dict)
  BY DEF TmInv, StoreOK
<1>4. Rebuilt(tm', S, tmStore.dict, DOMAIN S)
  BY <1>2, <1>3, TmRestores
<1>5. /\ IsMiner(tm') /\ TreeOK(tm') /\ tm'.dict = tmStore.dict /\ tm'.pending = <<>>
      /\ tm'.other = IF OtherId \in DOMAIN S THEN OtherId ELSE 0
      /\ DOMAIN tm'.entries = DOMAIN S \ {OtherId}
      /\ \A id \in DOMAIN tm'.entries : TemplateRow(tm'.entries[id]) = S[id]
  BY <1>4 DEF Rebuilt
<1>6. DOMAIN tm'.pending = {}
  BY <1>5
<1>7. StagedOK(tm')
  BY <1>3, <1>5, <1>6 DEF StagedOK
<1>8. KeptOK(tm', S)
  BY <1>5 DEF KeptOK, OtherId
<1>9. Behind(S, tm')
  <2>1. ASSUME NEW id \in DOMAIN S \ {OtherId}
        PROVE  id \in DOMAIN tm'.entries /\ Earlier(S[id], tm'.entries[id])
    <3>1. id \in DOMAIN tm'.entries /\ TemplateRow(tm'.entries[id]) = S[id]
      BY <1>5, <2>1
    <3>2. IsEntry(tm'.entries[id])
      BY <1>5, <3>1 DEF TreeOK
    <3>3. Earlier(TemplateRow(tm'.entries[id]), tm'.entries[id])
      BY <3>2, TmRowOf
    <3> QED
      BY <3>1, <3>3
  <2> QED
    BY <1>5, <2>1 DEF Behind
<1>10. StoreOK'
  BY <1>1, <1>9 DEF TmInv, StoreOK
<1>11. GroupOK' /\ tmGroup.members' = {}
  <2>1. RowsOK(tmStore.rows')
    BY <1>1, <1>3
  <2> QED
    BY <1>1, <2>1, TmNoGroup
<1>12. ASSUME NEW e \in TmExports PROVE LineOK(e)'
  <2>1. CASE tmExp[e].st = "acked"
    <3>1. tmExp'[e] = tmExp[e] /\ LineOK(e)
      BY <1>1, <2>1 DEF TmInv
    <3> QED
      BY <1>1, <1>11, <2>1, <3>1 DEF LineOK
  <2>2. CASE tmExp[e].st # "acked"
    <3>1. tmExp'[e] = [st |-> "idle", line |-> <<>>, id |-> 0] /\ e \notin tmGroup.members'
      BY <1>1, <1>11, <2>2
    <3> QED
      BY <3>1, TmIdleExport
  <2> QED
    BY <2>1, <2>2
<1>13. tmExp' = [e \in TmExports |-> tmExp'[e]]
  BY <1>1
<1>14. tmMines' \in 0 .. TmMaxMines /\ tmCrashes' \in 0 .. TmMaxCrashes
  BY <1>1, TmAssumption DEF TmInv
<1> QED
  BY <1>1, <1>5, <1>7, <1>8, <1>10, <1>11, <1>12, <1>13, <1>14 DEF TmInv

\* Every step of the miner, the writer and a restart keeps the invariant.
LEMMA TmInvStep == TmInv /\ [TmNext]_tmVars => TmInv'
<1> SUFFICES ASSUME TmInv, [TmNext]_tmVars PROVE TmInv'
  OBVIOUS
<1>1. CASE \E e \in TmExports, line \in Lines : MineAt(e, line)
  BY <1>1, TmInvMine
<1>2. CASE \E es \in SUBSET TmExports : DrainPending(es)
  BY <1>2, TmInvDrain
<1>3. CASE CommitGroupOk
  BY <1>3, TmInvCommit
<1>4. CASE CommitGroupFails
  BY <1>4, TmInvFails
<1>5. CASE CrashAndRestore
  BY <1>5, TmInvCrash
<1>6. CASE UNCHANGED tmVars
  BY <1>6 DEF tmVars, TmInv, StoreOK, GroupOK, NextRows, LineOK
<1> QED
  BY <1>1, <1>2, <1>3, <1>4, <1>5, <1>6 DEF TmNext

\* So it holds in every state.
LEMMA TmInvariant == TmSpec => []TmInv
<1> QED
  BY TmInvInit, TmInvStep, PTL DEF TmSpec

\* The miner, its store and its exports are well typed.
THEOREM MinerTyped == TmSpec => []TmTypeOK
<1>1. TmInv => TmTypeOK
  <2> SUFFICES ASSUME TmInv PROVE TmTypeOK
    OBVIOUS
  <2>1. ASSUME NEW id \in DOMAIN tm.entries
        PROVE  id \in Nat /\ tm.entries[id].seq \in 0 .. tm.seq
    <3>1. /\ id \in Nat /\ tm.seq \in Nat /\ tm.entries[id].seq < tm.seq
          /\ tm.entries[id].seq \in Nat
      BY <2>1 DEF TmInv, TreeOK, IsEntry
    <3> QED
      BY <3>1
  <2> QED
    BY <2>1 DEF TmInv, TmTypeOK, LineOK, GroupOK
<1> QED
  BY <1>1, TmInvariant, PTL

\* Every line whose export was acknowledged was counted under an identity that the durable
\* templates resolve to a pattern that covers it, or to __other__: across any interleaving of
\* mining, group commits that succeed or fail, and restarts (template_miner.go: mine,
\* drainPending, committed, Restore).
THEOREM AckedLinesStayResolved == TmSpec => []AckedLinesResolve
<1>1. TmInv => AckedLinesResolve
  <2> SUFFICES ASSUME TmInv, NEW e \in TmExports, tmExp[e].st = "acked"
               PROVE  /\ tmExp[e].id \in DOMAIN tmStore.rows
                      /\ LET row == tmStore.rows[tmExp[e].id]
                         IN  Covers(IF row.alias = 0 THEN row ELSE tmStore.rows[row.alias],
                                    tmExp[e].line)
    BY DEF AckedLinesResolve
  <2> DEFINE x == tmExp[e]
             row == tmStore.rows[x.id]
  <2>1. Resolves(tmStore.rows, x) /\ RowsOK(tmStore.rows)
    BY DEF TmInv, LineOK, StoreOK
  <2>2. x.id \in DOMAIN tmStore.rows
    BY <2>1 DEF Resolves
  <2>3. row.alias = 0 /\ Covers(row, x.line)
    <3>1. CASE x.id = OtherId
      <4>1. row = OtherRow
        BY <2>1, <2>2, <3>1 DEF RowsOK
      <4> QED
        BY <4>1 DEF OtherRow, Covers
    <3>2. CASE x.id # OtherId
      <4>1. IsTemplateRow(row) /\ x.line \in Patterns /\ Wider(row.tokens, x.line)
        BY <2>1, <2>2, <3>2 DEF RowsOK, Resolves
      <4>2. row.alias = 0 /\ row.tokens \in Patterns
        BY <4>1 DEF IsTemplateRow
      <4> HIDE DEF row, x
      <4>3. Similarity(row.tokens, x.line) = 2 /\ Len(x.line) = 2 /\ Len(row.tokens) = 2
        BY <4>1, <4>2, TmSimilarity
      <4> QED
        BY <4>2, <4>3 DEF Covers
    <3> QED
      BY <3>1, <3>2
  <2> QED
    BY <2>2, <2>3
<1> QED
  BY <1>1, TmInvariant, PTL

\* No two templates of a miner ever have the same pattern, none ever forwards to another, and
\* the same holds of the durable rows.  template_miner_test.go:194: "Convergence is not
\* reachable through best-match dynamics".
PatternsDistinct ==
  /\ \A i, j \in DOMAIN tm.entries : i # j => tm.entries[i].tokens # tm.entries[j].tokens
  /\ \A i \in DOMAIN tm.entries : tm.entries[i].alias = 0
  /\ \A i, j \in DOMAIN tmStore.rows : i # j => tmStore.rows[i].tokens # tmStore.rows[j].tokens
  /\ \A i \in DOMAIN tmStore.rows : tmStore.rows[i].alias = 0

\* Best-match mining never widens two templates to one pattern, for any tokens of the model's
\* two-token lines, so the merge that would alias one to the other is not reached
\* (template_miner.go: findTwin, converge).
THEOREM PatternsNeverConverge == TmSpec => []PatternsDistinct
<1>1. TmInv => PatternsDistinct
  <2> SUFFICES ASSUME TmInv PROVE PatternsDistinct
    OBVIOUS
  <2>1. \A i, j \in DOMAIN tm.entries : i # j => tm.entries[i].tokens # tm.entries[j].tokens
    BY DEF TmInv, TreeOK
  <2>2. \A i \in DOMAIN tm.entries : tm.entries[i].alias = 0
    BY DEF TmInv, TreeOK, IsEntry
  <2>3. RowsOK(tmStore.rows)
    BY DEF TmInv, StoreOK
  <2>4. \A i \in DOMAIN tmStore.rows :
          IF i = OtherId THEN tmStore.rows[i].alias = 0 /\ tmStore.rows[i].tokens = <<>>
          ELSE tmStore.rows[i].alias = 0 /\ tmStore.rows[i].tokens \in Patterns
    <3>1. OtherRow.alias = 0 /\ OtherRow.tokens = <<>>
      BY DEF OtherRow
    <3>2. ASSUME NEW i \in DOMAIN tmStore.rows, i # OtherId
          PROVE  tmStore.rows[i].alias = 0 /\ tmStore.rows[i].tokens \in Patterns
      <4>1. IsTemplateRow(tmStore.rows[i])
        BY <2>3, <3>2 DEF RowsOK
      <4> QED
        BY <4>1 DEF IsTemplateRow
    <3>3. OtherId \in DOMAIN tmStore.rows => tmStore.rows[OtherId] = OtherRow
      BY <2>3 DEF RowsOK
    <3> QED
      BY <3>1, <3>2, <3>3
  <2>5. <<>> \notin Patterns
    <3>1. SUFFICES ASSUME <<>> \in Patterns PROVE FALSE
      OBVIOUS
    <3>2. DOMAIN <<>> = 1 .. 2 /\ 1 \in 1 .. 2
      BY <3>1 DEF Patterns
    <3>3. DOMAIN <<>> = {}
      OBVIOUS
    <3> QED
      BY <3>2, <3>3
  <2>6. ASSUME NEW i \in DOMAIN tmStore.rows, NEW j \in DOMAIN tmStore.rows, i # j
        PROVE  tmStore.rows[i].tokens # tmStore.rows[j].tokens
    BY <2>3, <2>4, <2>5, <2>6 DEF RowsOK
  <2> QED
    BY <2>1, <2>2, <2>4, <2>6 DEF PatternsDistinct
<1> QED
  BY <1>1, TmInvariant, PTL

\* A durable template row is never lost and never goes back to an older or narrower pattern,
\* although rows drained earlier may be committed after newer ones were staged.
RowsOnlyWiden ==
  \A id \in DOMAIN tmStore.rows :
    /\ id \in DOMAIN tmStore'.rows
    /\ tmStore.rows[id].version <= tmStore'.rows[id].version
    /\ id # OtherId => Wider(tmStore'.rows[id].tokens, tmStore.rows[id].tokens)

\* No group commit and no restart takes a durable template back to an older pattern
\* (aggregate store: the version guard of the template upsert).
THEOREM RowsNeverRollBack == TmSpec => [][RowsOnlyWiden]_tmVars
<1>1. TmInv /\ [TmNext]_tmVars => [RowsOnlyWiden]_tmVars
  <2> SUFFICES ASSUME TmInv, TmNext PROVE RowsOnlyWiden
    OBVIOUS
  <2> SUFFICES ASSUME NEW id \in DOMAIN tmStore.rows
               PROVE  /\ id \in DOMAIN tmStore'.rows
                      /\ tmStore.rows[id].version <= tmStore'.rows[id].version
                      /\ id # OtherId => Wider(tmStore'.rows[id].tokens, tmStore.rows[id].tokens)
    BY DEF RowsOnlyWiden
  <2>0. tmStore.rows[id].version \in Nat
    <3>1. OtherRow.version = 0
      BY DEF OtherRow
    <3> QED
      BY <3>1 DEF TmInv, StoreOK, RowsOK, IsTemplateRow
  <2>1. CASE tmStore' = tmStore
    BY <2>0, <2>1 DEF Wider
  <2>2. CASE CommitGroupOk
    <3> DEFINE S == tmStore.rows
               G == tmGroup.rows
    <3>1. tmStore'.rows = UpsertTemplates(S, G)
      BY <2>2 DEF CommitGroupOk
    <3>2. /\ id \in DOMAIN tmStore'.rows
          /\ id \in DOMAIN G /\ G[id].version >= S[id].version => tmStore'.rows[id] = G[id]
          /\ ~ (id \in DOMAIN G /\ G[id].version >= S[id].version) => tmStore'.rows[id] = S[id]
      <4>1. id \in DOMAIN S
        OBVIOUS
      <4> HIDE DEF S, G
      <4> QED
        BY <3>1, <4>1 DEF UpsertTemplates
    <3>3. CASE id \in DOMAIN G
      <4>1. /\ G[id].version >= S[id].version
            /\ id # OtherId => Wider(G[id].tokens, S[id].tokens)
        BY <3>3 DEF TmInv, GroupOK
      <4>2. G[id].version \in Nat
        <5>1. OtherRow.version = 0
          BY DEF OtherRow
        <5> QED
          BY <3>3, <5>1 DEF TmInv, GroupOK, IsTemplateRow
      <4> QED
        BY <2>0, <3>2, <3>3, <4>1, <4>2
    <3>4. CASE id \notin DOMAIN G
      BY <2>0, <3>2, <3>4 DEF Wider
    <3> QED
      BY <3>3, <3>4
  <2> QED
    BY <2>1, <2>2 DEF TmNext, MineAt, DrainPending, CommitGroupFails, CrashAndRestore
<1> QED
  BY <1>1, TmInvariant, PTL DEF TmSpec

(***************************************************************************)
(* The topology projection.                                                *)
(***************************************************************************)

\* The operations of a service that have an entry.
TpLiveOps(es, a) == {b \in TpNames : TpLive(es, <<"op", a, b>>)}

\* A tenant's topology whose count of operations is the number of live ones.
IsTenancy(s) ==
  /\ s = [entries |-> s.entries, ops |-> s.ops, dropped |-> s.dropped,
          identity |-> s.identity, touched |-> s.touched]
  /\ s.entries \in [Entities -> [TpWindows -> Nat]] /\ s.ops \in [TpServices -> Nat]
  /\ s.dropped \in [EntityKinds -> Nat] /\ s.identity \in [TpWindows -> Nat]
  /\ \A a \in TpServices : s.ops[a] = Cardinality(TpLiveOps(s.entries, a))

\* From s to n the entries of es gained one in window w, unless n says that one of their
\* kind was refused.
Adds(s, n, es, w) ==
  \A e \in Entities, v \in TpWindows :
    n.dropped[e[1]] = 0 =>
      /\ s.dropped[e[1]] = 0
      /\ e \in es /\ v = w => n.entries[e][v] = s.entries[e][v] + 1
      /\ ~ (e \in es /\ v = w) => n.entries[e][v] = s.entries[e][v]

\* The facts of K, pairs of an export and a fact, that count for an entry in a window.
TpCount(K, e, w) == Cardinality({p \in K : p[2].window = w /\ e \in EntitiesOf(p[2])})

\* From the cutoff on, the entries of a kind that refused nothing hold what K brought.
TpExact(s, K, c) ==
  \A e \in Entities, w \in TpWindows :
    w >= c /\ s.dropped[e[1]] = 0 => s.entries[e][w] = TpCount(K, e, w)

\* Names of entries.
LEMMA TpEntities ==
  /\ \A e \in Entities : /\ e[1] \in EntityKinds /\ e[2] \in TpServices
                         /\ e[1] = "op" => e[3] \in TpNames /\ e = <<"op", e[2], e[3]>>
  /\ \A a \in TpServices, b \in TpNames :
       /\ <<"op", a, b>> \in Entities /\ <<"edge", a, b>> \in Entities
       /\ <<"metric", a, b>> \in Entities
  /\ \A a \in TpServices : <<"service", a, "">> \in Entities
<1> DEFINE A == {"service"} \X TpServices \X {""}
           B == {"op", "edge", "metric"} \X TpServices \X TpNames
<1>1. Entities = A \cup B
  BY DEF Entities
<1>2. ASSUME NEW e \in A PROVE e[1] = "service" /\ e[2] \in TpServices
  OBVIOUS
<1>3. ASSUME NEW e \in B
      PROVE  /\ e[1] \in {"op", "edge", "metric"} /\ e[2] \in TpServices /\ e[3] \in TpNames
             /\ e = <<e[1], e[2], e[3]>>
  OBVIOUS
<1>4. ASSUME NEW a \in TpServices, NEW b \in TpNames, NEW k \in {"op", "edge", "metric"}
      PROVE  <<k, a, b>> \in B
  OBVIOUS
<1>5. ASSUME NEW a \in TpServices PROVE <<"service", a, "">> \in A
  OBVIOUS
<1> HIDE DEF A, B
<1> QED
  BY <1>1, <1>2, <1>3, <1>4, <1>5 DEF EntityKinds

\* A service has finitely many live operations.
LEMMA TpLiveOpsFinite ==
  ASSUME NEW es, NEW a
  PROVE  IsFiniteSet(TpLiveOps(es, a)) /\ Cardinality(TpLiveOps(es, a)) \in Nat
<1>1. TpLiveOps(es, a) \in SUBSET TpNames
  BY DEF TpLiveOps
<1>2. IsFiniteSet(TpLiveOps(es, a))
  BY <1>1, FS_Subset, TpAssumption
<1> QED
  BY <1>2, FS_CardinalityType

\* Refusing an entry only counts it.
LEMMA TpRefuses ==
  ASSUME NEW s, IsTenancy(s), NEW e \in Entities, NEW w \in TpWindows
  PROVE  IsTenancy(Dropped(s, e)) /\ Adds(s, Dropped(s, e), {e}, w)
<1> DEFINE d == [s.dropped EXCEPT ![e[1]] = @ + 1]
           n == Dropped(s, e)
<1>1. n = [entries |-> s.entries, ops |-> s.ops, dropped |-> d, identity |-> s.identity,
           touched |-> s.touched]
  BY DEF Dropped, IsTenancy
<1>2. e[1] \in EntityKinds
  BY TpEntities
<1>3. /\ d \in [EntityKinds -> Nat] /\ d[e[1]] # 0
      /\ \A k \in EntityKinds : k # e[1] => d[k] = s.dropped[k]
  BY <1>2 DEF IsTenancy
<1> HIDE DEF n, d
<1>4. /\ n.entries = s.entries /\ n.ops = s.ops /\ n.dropped = d /\ n.identity = s.identity
      /\ n.touched = s.touched
  BY <1>1
<1>5. IsTenancy(n)
  BY <1>1, <1>3, <1>4 DEF IsTenancy
<1>6. Adds(s, n, {e}, w)
  <2> SUFFICES ASSUME NEW f \in Entities, NEW v \in TpWindows, n.dropped[f[1]] = 0
               PROVE  /\ s.dropped[f[1]] = 0
                      /\ f \in {e} /\ v = w => n.entries[f][v] = s.entries[f][v] + 1
                      /\ ~ (f \in {e} /\ v = w) => n.entries[f][v] = s.entries[f][v]
    BY DEF Adds
  <2>1. f[1] # e[1] /\ f[1] \in EntityKinds
    BY <1>3, <1>4, TpEntities
  <2> QED
    BY <1>3, <1>4, <2>1
<1> QED
  BY <1>5, <1>6 DEF n

\* fs is es with one more in window w of entry e.
TpBump(es, fs, e, w) == fs = [es EXCEPT ![e] = [es[e] EXCEPT ![w] = es[e][w] + 1]]

\* Counting in an entry makes it live and leaves the others as they are.
LEMMA TpBumps ==
  ASSUME NEW es \in [Entities -> [TpWindows -> Nat]], NEW e \in Entities, NEW w \in TpWindows,
         NEW fs, TpBump(es, fs, e, w)
  PROVE  /\ fs \in [Entities -> [TpWindows -> Nat]]
         /\ fs[e][w] = es[e][w] + 1
         /\ \A v \in TpWindows : v # w => fs[e][v] = es[e][v]
         /\ \A f \in Entities : f # e => fs[f] = es[f]
         /\ TpLive(fs, e)
         /\ \A f \in Entities : f # e => (TpLive(fs, f) <=> TpLive(es, f))
<1> DEFINE r == [es[e] EXCEPT ![w] = es[e][w] + 1]
<1>1. es[e] \in [TpWindows -> Nat] /\ es[e][w] \in Nat
  OBVIOUS
<1>2. /\ r \in [TpWindows -> Nat] /\ r[w] = es[e][w] + 1
      /\ \A v \in TpWindows : v # w => r[v] = es[e][v]
  BY <1>1
<1>3. fs = [es EXCEPT ![e] = r]
  BY DEF TpBump
<1> HIDE DEF r
<1>4. fs \in [Entities -> [TpWindows -> Nat]] /\ fs[e] = r /\ \A f \in Entities : f # e => fs[f] = es[f]
  BY <1>2, <1>3
<1>5. TpLive(fs, e)
  <2>1. fs[e][w] > 0
    BY <1>1, <1>2, <1>4
  <2> QED
    BY <2>1 DEF TpLive
<1>6. \A f \in Entities : f # e => (TpLive(fs, f) <=> TpLive(es, f))
  BY <1>4 DEF TpLive
<1> QED
  BY <1>2, <1>4, <1>5, <1>6

\* Counting an entry that has or finds room.
LEMMA TpCounts ==
  ASSUME NEW s, IsTenancy(s), NEW e \in Entities, NEW w \in TpWindows, NEW o, NEW es, NEW n,
         o = [s.ops EXCEPT ![e[2]] = IF e[1] = "op" /\ ~ TpLive(s.entries, e)
                                     THEN s.ops[e[2]] + 1 ELSE s.ops[e[2]]],
         TpBump(s.entries, es, e, w),
         n = [entries |-> es, ops |-> o, dropped |-> s.dropped, identity |-> s.identity,
              touched |-> TRUE]
  PROVE  IsTenancy(n) /\ Adds(s, n, {e}, w)
<1>1. n = [entries |-> es, ops |-> o, dropped |-> s.dropped, identity |-> s.identity,
           touched |-> TRUE]
  OBVIOUS
<1>2. /\ es \in [Entities -> [TpWindows -> Nat]]
      /\ es[e][w] = s.entries[e][w] + 1
      /\ \A v \in TpWindows : v # w => es[e][v] = s.entries[e][v]
      /\ \A f \in Entities : f # e => es[f] = s.entries[f]
      /\ TpLive(es, e)
      /\ \A f \in Entities : f # e => (TpLive(es, f) <=> TpLive(s.entries, f))
  <2> DEFINE old == s.entries
  <2>1. /\ old \in [Entities -> [TpWindows -> Nat]]
        /\ TpBump(old, es, e, w)
    BY DEF IsTenancy
  <2> HIDE DEF old
  <2>2. /\ es \in [Entities -> [TpWindows -> Nat]]
        /\ es[e][w] = old[e][w] + 1
        /\ \A v \in TpWindows : v # w => es[e][v] = old[e][v]
        /\ \A f \in Entities : f # e => es[f] = old[f]
        /\ TpLive(es, e)
        /\ \A f \in Entities : f # e => (TpLive(es, f) <=> TpLive(old, f))
    BY <2>1, TpBumps
  <2> QED
    BY <2>2 DEF old
<1>3. /\ n.entries = es /\ n.ops = o /\ n.dropped = s.dropped /\ n.identity = s.identity
      /\ n.touched = TRUE
  BY <1>1
<1>4. e[2] \in TpServices /\ s.ops \in [TpServices -> Nat] /\ s.ops[e[2]] \in Nat
  BY TpEntities DEF IsTenancy
<1>5. /\ o \in [TpServices -> Nat]
      /\ \A a \in TpServices : a # e[2] => o[a] = s.ops[a]
      /\ e[1] = "op" /\ ~ TpLive(s.entries, e) => o[e[2]] = s.ops[e[2]] + 1
      /\ ~ (e[1] = "op" /\ ~ TpLive(s.entries, e)) => o[e[2]] = s.ops[e[2]]
  BY <1>4
<1>6. ASSUME NEW a \in TpServices PROVE o[a] = Cardinality(TpLiveOps(es, a))
  <2>0. s.ops[a] = Cardinality(TpLiveOps(s.entries, a))
    BY DEF IsTenancy
  <2>1. CASE e[1] = "op" /\ a = e[2]
    <3>1. e[3] \in TpNames /\ e = <<"op", a, e[3]>>
      BY <2>1, TpEntities
    <3>2. \A b \in TpNames : b # e[3] => <<"op", a, b>> \in Entities /\ <<"op", a, b>> # e
      BY <3>1, TpEntities
    <3>3. TpLiveOps(es, a) = TpLiveOps(s.entries, a) \cup {e[3]}
      <4>1. \A b \in TpNames : b # e[3] => (TpLive(es, <<"op", a, b>>) <=> TpLive(s.entries, <<"op", a, b>>))
        BY <1>2, <3>2
      <4>2. TpLive(es, <<"op", a, e[3]>>)
        BY <1>2, <3>1
      <4> QED
        BY <3>1, <4>1, <4>2 DEF TpLiveOps
    <3>4. e[3] \in TpLiveOps(s.entries, a) <=> TpLive(s.entries, e)
      BY <3>1 DEF TpLiveOps
    <3>5. Cardinality(TpLiveOps(es, a)) =
            IF TpLive(s.entries, e) THEN Cardinality(TpLiveOps(s.entries, a))
            ELSE Cardinality(TpLiveOps(s.entries, a)) + 1
      BY <3>3, <3>4, TpLiveOpsFinite, FS_AddElement
    <3> QED
      BY <1>5, <2>0, <2>1, <3>5
  <2>2. CASE ~ (e[1] = "op" /\ a = e[2])
    <3>1. ASSUME NEW b \in TpNames PROVE <<"op", a, b>> \in Entities /\ <<"op", a, b>> # e
      <4>1. <<"op", a, b>>[1] = "op" /\ <<"op", a, b>>[2] = a
        OBVIOUS
      <4> QED
        BY <2>2, <4>1, TpEntities
    <3>2. TpLiveOps(es, a) = TpLiveOps(s.entries, a)
      BY <1>2, <3>1 DEF TpLiveOps
    <3> QED
      BY <1>5, <2>0, <2>2, <3>2
  <2> QED
    BY <2>1, <2>2
<1>7. IsTenancy(n)
  BY <1>1, <1>2, <1>3, <1>5, <1>6 DEF IsTenancy
<1>8. Adds(s, n, {e}, w)
  BY <1>2, <1>3 DEF Adds
<1> QED
  BY <1>7, <1>8

\* One entry of one fact.
LEMMA TpFoldsEntry ==
  ASSUME NEW s, IsTenancy(s), NEW e \in Entities, NEW w \in TpWindows
  PROVE  IsTenancy(FoldEntry(s, e, w)) /\ Adds(s, FoldEntry(s, e, w), {e}, w)
<1>1. CASE ~ Room(s, e)
  BY <1>1, TpRefuses DEF FoldEntry
<1>2. CASE Room(s, e)
  <2> DEFINE o == [s.ops EXCEPT ![e[2]] = IF e[1] = "op" /\ ~ TpLive(s.entries, e)
                                          THEN s.ops[e[2]] + 1 ELSE s.ops[e[2]]]
             es == [s.entries EXCEPT ![e] = [s.entries[e] EXCEPT ![w] = s.entries[e][w] + 1]]
             n == FoldEntry(s, e, w)
             q1 == [s EXCEPT !.ops = o]
             q2 == [q1 EXCEPT !.entries = es]
  <2>1. s = [entries |-> s.entries, ops |-> s.ops, dropped |-> s.dropped,
             identity |-> s.identity, touched |-> s.touched]
    BY DEF IsTenancy
  <2>2. n = [s EXCEPT !.ops = o, !.entries = es, !.touched = TRUE]
    BY <1>2 DEF FoldEntry
  <2>3. /\ o = [s.ops EXCEPT ![e[2]] = IF e[1] = "op" /\ ~ TpLive(s.entries, e)
                                       THEN s.ops[e[2]] + 1 ELSE s.ops[e[2]]]
        /\ TpBump(s.entries, es, e, w)
    BY DEF TpBump
  <2> HIDE DEF o, es, n
  <2>4. q1 = [entries |-> s.entries, ops |-> o, dropped |-> s.dropped,
              identity |-> s.identity, touched |-> s.touched]
    BY <2>1
  <2>5. n = [q2 EXCEPT !.touched = TRUE]
    BY <2>2
  <2> HIDE DEF q1
  <2>6. q2 = [entries |-> es, ops |-> o, dropped |-> s.dropped,
              identity |-> s.identity, touched |-> s.touched]
    BY <2>4
  <2> HIDE DEF q2
  <2>7. n = [entries |-> es, ops |-> o, dropped |-> s.dropped,
             identity |-> s.identity, touched |-> TRUE]
    BY <2>5, <2>6
  <2>8. IsTenancy(n) /\ Adds(s, n, {e}, w)
    BY <2>3, <2>7, TpCounts
  <2> QED
    BY <2>8 DEF n
<1> QED
  BY <1>1, <1>2

\* One entry after another.
LEMMA TpAddsTrans ==
  ASSUME NEW s, NEW m, NEW n, IsTenancy(s), NEW A, NEW B, NEW w, A \cap B = {},
         Adds(s, m, A, w), Adds(m, n, B, w)
  PROVE  Adds(s, n, A \cup B, w)
<1> SUFFICES ASSUME NEW e \in Entities, NEW v \in TpWindows, n.dropped[e[1]] = 0
             PROVE  /\ s.dropped[e[1]] = 0
                    /\ e \in A \cup B /\ v = w => n.entries[e][v] = s.entries[e][v] + 1
                    /\ ~ (e \in A \cup B /\ v = w) => n.entries[e][v] = s.entries[e][v]
  BY DEF Adds
<1>1. /\ m.dropped[e[1]] = 0
      /\ e \in B /\ v = w => n.entries[e][v] = m.entries[e][v] + 1
      /\ ~ (e \in B /\ v = w) => n.entries[e][v] = m.entries[e][v]
  BY DEF Adds
<1>2. /\ s.dropped[e[1]] = 0
      /\ e \in A /\ v = w => m.entries[e][v] = s.entries[e][v] + 1
      /\ ~ (e \in A /\ v = w) => m.entries[e][v] = s.entries[e][v]
  BY <1>1 DEF Adds
<1>3. ~ (e \in A /\ e \in B)
  OBVIOUS
<1> QED
  BY <1>1, <1>2, <1>3

\* A limited identity is counted apart from the entries.
LEMMA TpMarks ==
  ASSUME NEW s, IsTenancy(s), NEW w \in TpWindows, NEW v
  PROVE  LET n == [s EXCEPT !.identity[w] = @ + 1, !.touched = TRUE]
         IN  IsTenancy(n) /\ Adds(s, n, {}, v)
<1> DEFINE i == [s.identity EXCEPT ![w] = s.identity[w] + 1]
           n == [s EXCEPT !.identity[w] = @ + 1, !.touched = TRUE]
           q == [s EXCEPT !.identity = i]
<1>1. s = [entries |-> s.entries, ops |-> s.ops, dropped |-> s.dropped,
           identity |-> s.identity, touched |-> s.touched]
  BY DEF IsTenancy
<1>2. i \in [TpWindows -> Nat]
  BY DEF IsTenancy
<1>3. n = [q EXCEPT !.touched = TRUE]
  OBVIOUS
<1> HIDE DEF i, n
<1>4. q = [entries |-> s.entries, ops |-> s.ops, dropped |-> s.dropped,
           identity |-> i, touched |-> s.touched]
  BY <1>1
<1> HIDE DEF q
<1>5. n = [entries |-> s.entries, ops |-> s.ops, dropped |-> s.dropped,
           identity |-> i, touched |-> TRUE]
  BY <1>3, <1>4
<1>6. /\ n.entries = s.entries /\ n.ops = s.ops /\ n.dropped = s.dropped /\ n.identity = i
      /\ n.touched = TRUE
  BY <1>5
<1>7. IsTenancy(n)
  BY <1>2, <1>5, <1>6 DEF IsTenancy
<1>8. Adds(s, n, {}, v)
  BY <1>6 DEF Adds
<1> QED
  BY <1>7, <1>8 DEF n

\* A topology is itself with nothing added.
LEMMA TpAddsNone ==
  ASSUME NEW s, NEW w
  PROVE  Adds(s, s, {}, w)
BY DEF Adds

\* The entries of one fact, each once.
LEMMA TpFoldsEntries ==
  ASSUME NEW s, IsTenancy(s), NEW x \in TpExports, NEW f \in TpFacts[x]
  PROVE  IsTenancy(FoldEntries(s, f)) /\ Adds(s, FoldEntries(s, f), EntitiesOf(f), f.window)
<1> DEFINE w == f.window
           es == EntitiesOf(f)
           svc == {e \in es : e[1] = "service"}
           rest == es \ svc
           s1 == IF svc = {} THEN s ELSE FoldEntry(s, CHOOSE e \in svc : TRUE, w)
           s2 == IF rest = {} THEN s1 ELSE FoldEntry(s1, CHOOSE e \in rest : TRUE, w)
<1>0. FoldEntries(s, f) = s2
  BY DEF FoldEntries
<1>1. /\ f.kind \in {"trace", "edge", "metric", "log"} /\ f.a \in TpServices
      /\ f.b \in (IF f.kind = "trace" THEN TpNames \cup {""} ELSE TpNames) /\ w \in TpWindows
  BY TpAssumption DEF TpFactsOf
<1>2. svc \cup rest = es /\ svc \cap rest = {}
  OBVIOUS
<1>3. \/ svc = {}
      \/ \E e \in Entities : svc = {e}
  <2>1. <<"service", f.a, "">> \in Entities
    BY <1>1, TpEntities
  <2>2. svc \subseteq {<<"service", f.a, "">>}
    <3>1. /\ <<"op", f.a, f.b>>[1] = "op" /\ <<"edge", f.a, f.b>>[1] = "edge"
          /\ <<"metric", f.a, f.b>>[1] = "metric"
      OBVIOUS
    <3>2. \A e \in es : \/ e = <<"service", f.a, "">>
                       \/ e \in {<<"op", f.a, f.b>>, <<"edge", f.a, f.b>>, <<"metric", f.a, f.b>>}
      BY <1>1 DEF EntitiesOf
    <3> HIDE DEF es
    <3> QED
      BY <3>1, <3>2
  <2> QED
    BY <2>1, <2>2
<1>4. \/ rest = {}
      \/ \E e \in Entities : rest = {e}
  <2>1. CASE f.kind = "trace"
    <3>1. CASE f.b = ""
      <4>1. es = {<<"service", f.a, "">>} /\ <<"service", f.a, "">>[1] = "service"
        BY <2>1, <3>1 DEF EntitiesOf
      <4> QED
        BY <4>1
    <3>2. CASE f.b # ""
      <4>1. es = {<<"service", f.a, "">>, <<"op", f.a, f.b>>}
        BY <2>1, <3>2 DEF EntitiesOf
      <4>2. <<"service", f.a, "">>[1] = "service" /\ <<"op", f.a, f.b>>[1] = "op"
        OBVIOUS
      <4>3. rest = {<<"op", f.a, f.b>>}
        BY <4>1, <4>2
      <4>4. <<"op", f.a, f.b>> \in Entities
        BY <1>1, <2>1, <3>2, TpEntities
      <4> QED
        BY <4>3, <4>4
    <3> QED
      BY <3>1, <3>2
  <2>2. CASE f.kind = "edge"
    <3>1. es = {<<"edge", f.a, f.b>>} /\ <<"edge", f.a, f.b>> \in Entities
      BY <1>1, <2>2, TpEntities DEF EntitiesOf
    <3> QED
      BY <3>1
  <2>3. CASE f.kind = "metric"
    <3>1. es = {<<"metric", f.a, f.b>>} /\ <<"metric", f.a, f.b>> \in Entities
      BY <1>1, <2>3, TpEntities DEF EntitiesOf
    <3> QED
      BY <3>1
  <2>4. CASE f.kind = "log"
    <3>1. es = {}
      BY <2>4 DEF EntitiesOf
    <3> QED
      BY <3>1
  <2> QED
    BY <1>1, <2>1, <2>2, <2>3, <2>4
<1> HIDE DEF w, es, svc, rest
<1>5. IsTenancy(s1) /\ Adds(s, s1, svc, w)
  <2>1. CASE svc = {}
    BY <2>1, TpAddsNone
  <2>2. CASE \E e \in Entities : svc = {e}
    <3>1. PICK e \in Entities : svc = {e}
      BY <2>2
    <3>2. s1 = FoldEntry(s, e, w)
      BY <3>1
    <3> QED
      BY <1>1, <3>1, <3>2, TpFoldsEntry
  <2> QED
    BY <1>3, <2>1, <2>2
<1> HIDE DEF s1
<1>6. IsTenancy(s2) /\ Adds(s1, s2, rest, w)
  <2>1. CASE rest = {}
    BY <1>5, <2>1, TpAddsNone
  <2>2. CASE \E e \in Entities : rest = {e}
    <3>1. PICK e \in Entities : rest = {e}
      BY <2>2
    <3>2. s2 = FoldEntry(s1, e, w)
      BY <3>1
    <3> QED
      BY <1>1, <1>5, <3>1, <3>2, TpFoldsEntry
  <2> QED
    BY <1>4, <2>1, <2>2
<1> HIDE DEF s2
<1>7. Adds(s, s2, es, w)
  <2>1. Adds(s, s2, svc \cup rest, w)
    BY <1>2, <1>5, <1>6, TpAddsTrans
  <2> QED
    BY <1>2, <2>1
<1> QED
  BY <1>0, <1>6, <1>7 DEF es, w

\* One fact.
LEMMA TpFoldsFact ==
  ASSUME NEW s, IsTenancy(s), NEW x \in TpExports, NEW f \in TpFacts[x]
  PROVE  IsTenancy(FoldOne(s, f)) /\ Adds(s, FoldOne(s, f), EntitiesOf(f), f.window)
<1> DEFINE m == IF f.limited THEN [s EXCEPT !.identity[f.window] = @ + 1, !.touched = TRUE] ELSE s
<1>1. IsTenancy(m) /\ Adds(s, m, {}, f.window)
  <2>1. f.window \in TpWindows
    BY TpAssumption DEF TpFactsOf
  <2>2. CASE f.limited
    BY <2>1, <2>2, TpMarks
  <2>3. CASE ~ f.limited
    BY <2>3, TpAddsNone
  <2> QED
    BY <2>2, <2>3
<1>2. FoldOne(s, f) = FoldEntries(m, f)
  BY DEF FoldOne
<1> HIDE DEF m
<1>3. IsTenancy(FoldEntries(m, f)) /\ Adds(m, FoldEntries(m, f), EntitiesOf(f), f.window)
  BY <1>1, TpFoldsEntries
<1>4. {} \cup EntitiesOf(f) = EntitiesOf(f) /\ {} \cap EntitiesOf(f) = {}
  OBVIOUS
<1> DEFINE n == FoldEntries(m, f)
<1> HIDE DEF n
<1>5. Adds(s, n, {} \cup EntitiesOf(f), f.window)
  BY <1>1, <1>3, <1>4, TpAddsTrans DEF n
<1> QED
  BY <1>2, <1>3, <1>4, <1>5 DEF n

\* One more fact counts for its entries in its window.
LEMMA TpCountAdds ==
  ASSUME NEW K, IsFiniteSet(K), NEW x, NEW f, <<x, f>> \notin K, NEW e, NEW w
  PROVE  /\ TpCount(K, e, w) \in Nat
         /\ e \in EntitiesOf(f) /\ w = f.window =>
              TpCount(K \cup {<<x, f>>}, e, w) = TpCount(K, e, w) + 1
         /\ ~ (e \in EntitiesOf(f) /\ w = f.window) =>
              TpCount(K \cup {<<x, f>>}, e, w) = TpCount(K, e, w)
<1> DEFINE Of(L) == {p \in L : p[2].window = w /\ e \in EntitiesOf(p[2])}
           q == <<x, f>>
<1>1. IsFiniteSet(Of(K))
  BY FS_Subset
<1>2. q[2] = f
  OBVIOUS
<1>3. e \in EntitiesOf(f) /\ w = f.window => Of(K \cup {q}) = Of(K) \cup {q}
  BY <1>2
<1>4. ~ (e \in EntitiesOf(f) /\ w = f.window) => Of(K \cup {q}) = Of(K)
  BY <1>2
<1>5. q \notin Of(K)
  OBVIOUS
<1> HIDE DEF q
<1>6. Cardinality(Of(K)) \in Nat /\ Cardinality(Of(K) \cup {q}) = Cardinality(Of(K)) + 1
  <2> HIDE DEF Of
  <2> QED
    BY <1>1, <1>5, FS_AddElement, FS_CardinalityType
<1>7. \A L : TpCount(L, e, w) = Cardinality(Of(L))
  BY DEF TpCount
<1> HIDE DEF Of
<1> QED
  BY <1>3, <1>4, <1>6, <1>7 DEF q

\* An exact topology that one more fact was added to is exact for one fact more.
LEMMA TpExactAdds ==
  ASSUME NEW s, NEW n, NEW K, IsFiniteSet(K), NEW x, NEW f, <<x, f>> \notin K, NEW c,
         TpExact(s, K, c), Adds(s, n, EntitiesOf(f), f.window)
  PROVE  TpExact(n, K \cup {<<x, f>>}, c)
<1> SUFFICES ASSUME NEW e \in Entities, NEW w \in TpWindows, w >= c, n.dropped[e[1]] = 0
             PROVE  n.entries[e][w] = TpCount(K \cup {<<x, f>>}, e, w)
  BY DEF TpExact
<1>1. /\ s.dropped[e[1]] = 0
      /\ e \in EntitiesOf(f) /\ w = f.window => n.entries[e][w] = s.entries[e][w] + 1
      /\ ~ (e \in EntitiesOf(f) /\ w = f.window) => n.entries[e][w] = s.entries[e][w]
  BY DEF Adds
<1>2. s.entries[e][w] = TpCount(K, e, w)
  BY <1>1 DEF TpExact
<1> QED
  BY <1>1, <1>2, TpCountAdds

\* A fact of a window before the cutoff counts for nothing from there on.
LEMMA TpExactSkips ==
  ASSUME NEW s, NEW K, IsFiniteSet(K), NEW x, NEW f, <<x, f>> \notin K, NEW c \in Int,
         f.window \in Int, ~ (f.window >= c), TpExact(s, K, c)
  PROVE  TpExact(s, K \cup {<<x, f>>}, c)
<1> SUFFICES ASSUME NEW e \in Entities, NEW w \in TpWindows, w >= c, s.dropped[e[1]] = 0
             PROVE  s.entries[e][w] = TpCount(K \cup {<<x, f>>}, e, w)
  BY DEF TpExact
<1>1. w # f.window
  OBVIOUS
<1>2. s.entries[e][w] = TpCount(K, e, w)
  BY DEF TpExact
<1> QED
  BY <1>1, <1>2, TpCountAdds

\* The walk over an export's facts.
TpWalks(g, s, x, o, n) ==
  g = [i \in 0 .. n |-> IF i = 0 THEN s
                        ELSE IF o[i].window >= RetainCutoff THEN FoldOne(g[i - 1], o[i])
                        ELSE g[i - 1]]

\* The walk's recursion has a solution, fact by fact.
LEMMA TpWalkExists ==
  ASSUME NEW s, NEW x, NEW o, NEW n \in Nat
  PROVE  \E g : TpWalks(g, s, x, o, n)
<1> DEFINE Step(m, i) == IF o[i].window >= RetainCutoff THEN FoldOne(m, o[i]) ELSE m
           Is(g, j) == g = [i \in 0 .. j |-> IF i = 0 THEN s ELSE Step(g[i - 1], i)]
           Bad == {k \in Nat : ~ \E g : Is(g, k)}
<1> HIDE DEF Step
<1>1. SUFFICES ASSUME Bad # {} PROVE FALSE
  <2>1. \E g : Is(g, n)
    BY <1>1
  <2> QED
    BY <2>1 DEF TpWalks, Step
<1>2. PICK k \in Bad : \A j \in Bad : k <= j
  <2>1. Bad \in SUBSET Nat
    OBVIOUS
  <2> HIDE DEF Bad
  <2> QED
    BY <1>1, <2>1, LeastMember
<1>3. k # 0
  <2>1. Is([j \in 0 .. 0 |-> s], 0)
    OBVIOUS
  <2> QED
    BY <2>1
<1>4. k - 1 \in Nat /\ k - 1 \notin Bad
  BY <1>2, <1>3
<1>5. PICK g : Is(g, k - 1)
  BY <1>4
<1> DEFINE h == [j \in 0 .. k |-> IF j = k THEN Step(g[k - 1], k) ELSE g[j]]
<1>6. Is(h, k)
  <2>1. \A j \in 0 .. k - 1 : g[j] = IF j = 0 THEN s ELSE Step(g[j - 1], j)
    BY <1>5, <1>4
  <2>2. \A j \in 0 .. k : h[j] = IF j = 0 THEN s ELSE Step(h[j - 1], j)
    <3> SUFFICES ASSUME NEW j \in 0 .. k
                 PROVE  h[j] = IF j = 0 THEN s ELSE Step(h[j - 1], j)
      OBVIOUS
    <3>1. CASE j = k
      <4>1. h[k] = Step(g[k - 1], k) /\ h[k - 1] = g[k - 1]
        BY <1>3
      <4> QED
        BY <3>1, <4>1, <1>3
    <3>2. CASE j # k
      <4>1. j \in 0 .. k - 1 /\ (j # 0 => j - 1 \in 0 .. k /\ j - 1 # k)
        BY <3>2
      <4>2. h[j] = g[j] /\ (j # 0 => h[j - 1] = g[j - 1])
        BY <3>2, <4>1
      <4> QED
        BY <4>1, <4>2, <2>1
    <3> QED
      BY <3>1, <3>2
  <2>3. h = [j \in 0 .. k |-> h[j]]
    OBVIOUS
  <2> QED
    BY <2>2, <2>3, Zenon
<1> QED
  BY <1>6

\* The facts of an export in one order: each of them, once.
LEMMA TpOrder ==
  ASSUME NEW x \in TpExports, NEW o \in Orders(x)
  PROVE  LET c == Cardinality(TpFacts[x])
         IN  /\ c \in Nat
             /\ \A i \in 1 .. c : o[i] \in TpFacts[x]
             /\ \A i, j \in 1 .. c : i # j => o[i] # o[j]
             /\ TpFacts[x] = {o[i] : i \in 1 .. c}
<1> DEFINE F == TpFacts[x]
           c == Cardinality(F)
<1>1. IsFiniteSet(F)
  BY TpAssumption DEF TpFactsOf
<1>2. c \in Nat
  BY <1>1, FS_CardinalityType
<1>3. o \in [1 .. c -> F] /\ \A i, j \in 1 .. c : o[i] = o[j] => i = j
  BY DEF Orders
<1>4. o \in Injection(1 .. c, F)
  BY <1>3 DEF Injection, IsInjective
<1>5. Cardinality(1 .. c) = c
  <2>1. \A n \in Nat : Cardinality(1 .. n) = n
    BY FS_Interval
  <2> HIDE DEF c
  <2> QED
    BY <1>2, <2>1
<1> HIDE DEF F
<1>6. o \in Surjection(1 .. c, F)
  BY <1>1, <1>4, <1>5, FS_Injection
<1>7. F = {o[i] : i \in 1 .. c}
  BY <1>3, <1>6 DEF Surjection
<1> QED
  BY <1>2, <1>3, <1>7 DEF F

\* fold: every fact of the export is in.
LEMMA TpFolds ==
  ASSUME NEW x \in TpExports, NEW o \in Orders(x), NEW s, IsTenancy(s), NEW K, IsFiniteSet(K),
         \A p \in K : p[1] # x, RetainCutoff \in Int, TpExact(s, K, RetainCutoff)
  PROVE  /\ IsTenancy(FoldFacts(s, x, o))
         /\ TpExact(FoldFacts(s, x, o), K \cup ({x} \X TpFacts[x]), RetainCutoff)
<1> DEFINE c == Cardinality(TpFacts[x])
           g == CHOOSE f : TpWalks(f, s, x, o, c)
           Done(k) == K \cup {<<x, o[i]>> : i \in 1 .. k}
           Good(k) == IsTenancy(g[k]) /\ TpExact(g[k], Done(k), RetainCutoff) /\ IsFiniteSet(Done(k))
           Bad == {k \in 0 .. c : ~ Good(k)}
<1>1. /\ c \in Nat
      /\ \A i \in 1 .. c : o[i] \in TpFacts[x]
      /\ \A i, j \in 1 .. c : i # j => o[i] # o[j]
      /\ TpFacts[x] = {o[i] : i \in 1 .. c}
  BY TpOrder
<1>2. FoldFacts(s, x, o) = g[c]
  BY DEF FoldFacts, TpWalks
<1> HIDE DEF c
<1>3. TpWalks(g, s, x, o, c)
  <2>1. \E f : TpWalks(f, s, x, o, c)
    BY <1>1, TpWalkExists
  <2> QED
    BY <2>1
<1> HIDE DEF g
<1>4. \A k \in 0 .. c : g[k] = IF k = 0 THEN s
                               ELSE IF o[k].window >= RetainCutoff THEN FoldOne(g[k - 1], o[k])
                               ELSE g[k - 1]
  BY <1>1, <1>3 DEF TpWalks
<1>5. Good(0)
  <2>1. g[0] = s
    BY <1>1, <1>4
  <2>2. Done(0) = K
    OBVIOUS
  <2> HIDE DEF Done
  <2> QED
    BY <2>1, <2>2
<1>6. ASSUME NEW k \in 1 .. c, Good(k - 1) PROVE Good(k)
  <2> DEFINE f == o[k]
  <2>1. f \in TpFacts[x] /\ f.window \in Int
    <3>1. f \in TpFacts[x]
      BY <1>1
    <3>2. f.window \in TpWindows
      BY <3>1, TpAssumption DEF TpFactsOf
    <3> QED
      BY <3>1, <3>2, TpAssumption
  <2>2. Done(k) = Done(k - 1) \cup {<<x, f>>}
    <3>1. 1 .. k = (1 .. k - 1) \cup {k}
      BY <1>1
    <3> QED
      BY <3>1
  <2>3. <<x, f>> \notin Done(k - 1)
    <3>1. \A i \in 1 .. k - 1 : i \in 1 .. c /\ i # k
      BY <1>1
    <3>2. <<x, f>> \notin K
      OBVIOUS
    <3>3. \A i \in 1 .. k - 1 : o[i] # o[k]
      BY <1>1, <3>1
    <3> QED
      BY <3>2, <3>3
  <2>4. g[k] = IF f.window >= RetainCutoff THEN FoldOne(g[k - 1], f) ELSE g[k - 1]
    <3>1. k \in 0 .. c /\ k # 0
      BY <1>1
    <3> QED
      BY <1>4, <3>1
  <2> HIDE DEF f, Done
  <2>5. /\ IsTenancy(g[k - 1]) /\ TpExact(g[k - 1], Done(k - 1), RetainCutoff)
        /\ IsFiniteSet(Done(k - 1))
    BY <1>6
  <2>6. IsFiniteSet(Done(k))
    <3> DEFINE L == Done(k - 1)
               q == <<x, f>>
    <3>1. IsFiniteSet(L) /\ Done(k) = L \cup {q}
      BY <2>2, <2>5
    <3> HIDE DEF L, q
    <3> QED
      BY <3>1, FS_AddElement
  <2>7. CASE f.window >= RetainCutoff
    <3> DEFINE m == g[k - 1]
               n == g[k]
    <3>1. n = FoldOne(m, f)
      BY <2>4, <2>7
    <3>2. IsTenancy(n) /\ Adds(m, n, EntitiesOf(f), f.window)
      BY <2>1, <2>5, <3>1, TpFoldsFact
    <3> HIDE DEF m, n
    <3>3. TpExact(n, Done(k - 1) \cup {<<x, f>>}, RetainCutoff)
      BY <2>3, <2>5, <3>2, TpExactAdds DEF m
    <3> QED
      BY <2>2, <2>6, <3>2, <3>3 DEF n
  <2>8. CASE ~ (f.window >= RetainCutoff)
    <3>1. g[k] = g[k - 1]
      BY <2>4, <2>8
    <3>2. TpExact(g[k - 1], Done(k - 1) \cup {<<x, f>>}, RetainCutoff)
      BY <2>1, <2>3, <2>5, <2>8, TpExactSkips
    <3> QED
      BY <2>2, <2>5, <2>6, <3>1, <3>2
  <2> QED
    BY <2>7, <2>8
<1> HIDE DEF Good
<1>7. ASSUME Bad # {} PROVE FALSE
  <2>1. PICK k \in Bad : \A j \in Bad : k <= j
    <3>1. Bad \in SUBSET Nat
      BY <1>1
    <3> HIDE DEF Bad
    <3> QED
      BY <1>7, <3>1, LeastMember
  <2>2. k \in 0 .. c /\ ~ Good(k)
    BY <2>1
  <2>3. k # 0
    BY <1>5, <2>2
  <2>4. k \in 1 .. c /\ k - 1 \in 0 .. c
    BY <1>1, <2>2, <2>3
  <2>5. k - 1 \notin Bad
    <3>1. k \in Int
      BY <2>4
    <3> HIDE DEF Bad
    <3> QED
      BY <2>1, <3>1
  <2>6. Good(k - 1)
    BY <2>4, <2>5
  <2> QED
    BY <1>6, <2>2, <2>4, <2>6
<1>8. Good(c)
  <2>1. c \in 0 .. c
    BY <1>1
  <2> QED
    BY <1>7, <2>1
<1>9. Done(c) = K \cup ({x} \X TpFacts[x])
  <2>1. {<<x, o[i]>> : i \in 1 .. c} = {x} \X TpFacts[x]
    BY <1>1
  <2> QED
    BY <2>1
<1> QED
  BY <1>2, <1>8, <1>9 DEF Good

\* pruneTenantLocked: the windows before the cutoff go, nothing else does, and the count of
\* operations goes down by those that lost their last window.
LEMMA TpPrunes ==
  ASSUME NEW s, IsTenancy(s), NEW c \in Int, NEW K, TpExact(s, K, c)
  PROVE  /\ IsTenancy(Pruned(s, c)) /\ TpExact(Pruned(s, c), K, c)
         /\ Pruned(s, c).dropped = s.dropped
<1> DEFINE ke == [e \in Entities |-> [w \in TpWindows |-> IF w < c THEN 0 ELSE s.entries[e][w]]]
           id == [w \in TpWindows |-> IF w < c THEN 0 ELSE s.identity[w]]
           lost(a) == {b \in TpNames : TpLive(s.entries, <<"op", a, b>>)
                                       /\ ~ TpLive(ke, <<"op", a, b>>)}
           op == [a \in TpServices |-> IF s.ops[a] > Cardinality(lost(a))
                                       THEN s.ops[a] - Cardinality(lost(a)) ELSE 0]
           n == Pruned(s, c)
           q1 == [s EXCEPT !.entries = ke]
           q2 == [q1 EXCEPT !.identity = id]
<1>1. n = [s EXCEPT !.entries = ke, !.identity = id, !.ops = op]
  BY DEF Pruned
<1>2. s = [entries |-> s.entries, ops |-> s.ops, dropped |-> s.dropped,
           identity |-> s.identity, touched |-> s.touched]
  BY DEF IsTenancy
<1>3. /\ ke \in [Entities -> [TpWindows -> Nat]]
      /\ \A e \in Entities, w \in TpWindows : ke[e][w] = IF w < c THEN 0 ELSE s.entries[e][w]
  BY DEF IsTenancy
<1>4. id \in [TpWindows -> Nat]
  BY DEF IsTenancy
<1>5. \A e \in Entities : TpLive(ke, e) => TpLive(s.entries, e)
  <2> SUFFICES ASSUME NEW e \in Entities, TpLive(ke, e) PROVE TpLive(s.entries, e)
    OBVIOUS
  <2> HIDE DEF ke
  <2>1. PICK w \in TpWindows : ke[e][w] > 0
    BY DEF TpLive
  <2>2. ke[e][w] = s.entries[e][w]
    BY <1>3, <2>1
  <2> QED
    BY <2>1, <2>2 DEF TpLive
<1> HIDE DEF ke, id, n
<1>6. ASSUME NEW a \in TpServices
      PROVE  op[a] \in Nat /\ op[a] = Cardinality(TpLiveOps(ke, a))
  <2> DEFINE A == TpLiveOps(s.entries, a)
             L == lost(a)
  <2>1. A \cap L = L /\ A \ L = TpLiveOps(ke, a)
    <3>1. \A b \in TpNames : <<"op", a, b>> \in Entities
      BY TpEntities
    <3> QED
      BY <1>5, <3>1 DEF TpLiveOps
  <2>2. s.ops[a] = Cardinality(A)
    BY DEF IsTenancy
  <2>3. op[a] = IF s.ops[a] > Cardinality(L) THEN s.ops[a] - Cardinality(L) ELSE 0
    OBVIOUS
  <2>4. IsFiniteSet(A) /\ IsFiniteSet(TpLiveOps(ke, a))
    BY TpLiveOpsFinite
  <2> HIDE DEF A, L, op
  <2>5. Cardinality(TpLiveOps(ke, a)) = Cardinality(A) - Cardinality(L)
    BY <2>1, <2>4, FS_Difference
  <2>6. Cardinality(A) \in Nat /\ Cardinality(L) \in Nat /\ Cardinality(TpLiveOps(ke, a)) \in Nat
    <3>1. IsFiniteSet(L)
      BY <2>1, <2>4, FS_Intersection
    <3> QED
      BY <2>4, <3>1, FS_CardinalityType
  <2> QED
    BY <2>2, <2>3, <2>5, <2>6
<1>7. op \in [TpServices -> Nat]
  <2>1. op = [a \in TpServices |-> op[a]]
    OBVIOUS
  <2> HIDE DEF op
  <2> QED
    BY <1>6, <2>1
<1> HIDE DEF op
<1>8. n = [entries |-> ke, ops |-> op, dropped |-> s.dropped, identity |-> id,
           touched |-> s.touched]
  <2>1. q1 = [entries |-> ke, ops |-> s.ops, dropped |-> s.dropped, identity |-> s.identity,
              touched |-> s.touched]
    BY <1>2
  <2>2. n = [q2 EXCEPT !.ops = op]
    BY <1>1
  <2> HIDE DEF q1
  <2>3. q2 = [entries |-> ke, ops |-> s.ops, dropped |-> s.dropped, identity |-> id,
              touched |-> s.touched]
    BY <2>1
  <2> HIDE DEF q2
  <2> QED
    BY <2>2, <2>3
<1>9. /\ n.entries = ke /\ n.ops = op /\ n.dropped = s.dropped /\ n.identity = id
      /\ n.touched = s.touched
  BY <1>8
<1>10. IsTenancy(n)
  BY <1>3, <1>4, <1>6, <1>7, <1>8, <1>9 DEF IsTenancy
<1>11. TpExact(n, K, c)
  <2> SUFFICES ASSUME NEW e \in Entities, NEW w \in TpWindows, w >= c, s.dropped[e[1]] = 0
               PROVE  ke[e][w] = TpCount(K, e, w)
    BY <1>9 DEF TpExact
  <2>1. w \in Int
    BY TpAssumption
  <2>2. ke[e][w] = s.entries[e][w]
    BY <1>3, <2>1
  <2> QED
    BY <2>2 DEF TpExact
<1> QED
  BY <1>9, <1>10, <1>11 DEF n

\* The live operations of a service, counted as entries or as names.
LEMMA TpOpsByName ==
  ASSUME NEW es, NEW a \in TpServices
  PROVE  Cardinality({e \in OfKind(es, "op") : e[2] = a}) = Cardinality(TpLiveOps(es, a))
<1> DEFINE N == TpLiveOps(es, a)
           T == {e \in OfKind(es, "op") : e[2] = a}
           f == [b \in N |-> <<"op", a, b>>]
<1>1. \A e \in T : e[3] \in N /\ e = <<"op", a, e[3]>>
  <2> SUFFICES ASSUME NEW e \in T PROVE e[3] \in N /\ e = <<"op", a, e[3]>>
    OBVIOUS
  <2>1. e \in Entities /\ e[1] = "op" /\ TpLive(es, e) /\ e[2] = a
    BY DEF OfKind
  <2>2. e[3] \in TpNames /\ e = <<"op", a, e[3]>>
    BY <2>1, TpEntities
  <2> QED
    BY <2>1, <2>2 DEF TpLiveOps
<1>2. \A b \in N : <<"op", a, b>> \in T
  <2> SUFFICES ASSUME NEW b \in N PROVE <<"op", a, b>> \in T
    OBVIOUS
  <2>1. b \in TpNames /\ TpLive(es, <<"op", a, b>>)
    BY DEF TpLiveOps
  <2>2. <<"op", a, b>> \in Entities /\ <<"op", a, b>>[1] = "op" /\ <<"op", a, b>>[2] = a
    BY <2>1, TpEntities
  <2> QED
    BY <2>1, <2>2 DEF OfKind
<1>3. IsFiniteSet(N)
  BY TpLiveOpsFinite
<1> HIDE DEF N, T
<1>4. f \in Bijection(N, T)
  <2>1. f \in [N -> T]
    BY <1>2
  <2>2. \A b, d \in N : f[b] = f[d] => b = d
    OBVIOUS
  <2>3. \A e \in T : \E b \in N : f[b] = e
    BY <1>1
  <2> QED
    BY <2>1, <2>2, <2>3 DEF Bijection, Injection, Surjection, IsInjective
<1>5. ExistsBijection(N, T)
  BY <1>4 DEF ExistsBijection
<1>6. Cardinality(T) = Cardinality(N)
  BY <1>3, <1>5, FS_Bijection
<1> QED
  BY <1>6 DEF N, T

\* The exports of a tenant that were folded, and their facts.
TpFoldedOf(t) == {x \in TpExports : tpExport[x] = "folded" /\ TpTenant[x] = t}
TpFoldedFacts(t) == UNION {{x} \X TpFacts[x] : x \in TpFoldedOf(t)}

TpShapes ==
  /\ tpNow \in TpWindows /\ tpRev \in Nat
  /\ tpExport \in [TpExports -> {"new", "committed", "folded"}]
  /\ tpGroupRev \in [TpExports -> 0 .. tpRev]
  /\ tpTenantRev \in [TpTenants -> 0 .. tpRev]
  /\ tpView = [t \in TpTenants |-> tpView[t]]
  /\ \A t \in TpTenants : tpView[t].rev \in 0 .. tpRev
  /\ tpEntries = [t \in TpTenants |-> tpEntries[t]]
  /\ tpOpsPerService = [t \in TpTenants |-> tpOpsPerService[t]]
  /\ tpDropped = [t \in TpTenants |-> tpDropped[t]]
  /\ tpIdentity = [t \in TpTenants |-> tpIdentity[t]]
  /\ tpKnown \subseteq TpTenants /\ tpReconcile \subseteq TpTenants

\* A tenant's topology is well formed and, from the cutoff on, holds what was folded.
TenantExact(t) ==
  IsTenancy(Tenancy(t)) /\ TpExact(Tenancy(t), TpFoldedFacts(t), RetainCutoff)

\* The inductive invariant of the projection.
TpInv == TpShapes /\ \A t \in TpTenants : TenantExact(t)

\* A topology is what its fields are.
LEMMA TpSameFields ==
  ASSUME NEW s, IsTenancy(s), NEW n,
         n = [entries |-> s.entries, ops |-> s.ops, dropped |-> s.dropped,
              identity |-> s.identity, touched |-> FALSE]
  PROVE  IsTenancy(n) /\ \A K, c : TpExact(s, K, c) => TpExact(n, K, c)
<1>1. /\ n.entries = s.entries /\ n.ops = s.ops /\ n.dropped = s.dropped
      /\ n.identity = s.identity /\ n.touched = FALSE
  OBVIOUS
<1>2. IsTenancy(n)
  BY <1>1 DEF IsTenancy
<1> QED
  BY <1>1, <1>2 DEF TpExact

\* A tenant's folded facts are finitely many.
LEMMA TpFoldedFinite ==
  ASSUME NEW t
  PROVE  IsFiniteSet(TpFoldedFacts(t))
<1> DEFINE X == TpFoldedOf(t)
           N == {{x} \X TpFacts[x] : x \in X}
           f == [x \in X |-> {x} \X TpFacts[x]]
<1>1. IsFiniteSet(X)
  <2>1. X \in SUBSET TpExports
    BY DEF TpFoldedOf
  <2> QED
    BY <2>1, FS_Subset, TpAssumption
<1>2. \A S \in N : IsFiniteSet(S)
  <2> SUFFICES ASSUME NEW x \in X PROVE IsFiniteSet({x} \X TpFacts[x])
    OBVIOUS
  <2>1. IsFiniteSet({x}) /\ IsFiniteSet(TpFacts[x])
    BY FS_Singleton, TpAssumption DEF TpFoldedOf, TpFactsOf
  <2> QED
    BY <2>1, FS_Product
<1> HIDE DEF X
<1>3. f \in Surjection(X, N)
  <2>1. f \in [X -> N] /\ \A S \in N : \E x \in X : f[x] = S
    OBVIOUS
  <2> QED
    BY <2>1 DEF Surjection
<1>4. IsFiniteSet(N)
  <2> HIDE DEF f, N
  <2> QED
    BY <1>1, <1>3, FS_Surjection
<1>5. TpFoldedFacts(t) = UNION N
  BY DEF TpFoldedFacts, X
<1> HIDE DEF N
<1> QED
  BY <1>2, <1>4, <1>5, FS_UNION

\* The retention cutoff is a number.
LEMMA TpCutoffType == TpShapes => RetainCutoff \in Int
BY TpAssumption DEF TpShapes, RetainCutoff

\* A tenant whose topology and folded exports stay as they are stays exact while the cutoff
\* does not go back.
LEMMA TpTenantStays ==
  ASSUME NEW t \in TpTenants, TenantExact(t), Tenancy(t)' = Tenancy(t),
         TpFoldedFacts(t)' = TpFoldedFacts(t), RetainCutoff \in Int, RetainCutoff' \in Int,
         RetainCutoff <= RetainCutoff'
  PROVE  TenantExact(t)'
<1> DEFINE s == Tenancy(t)
           K == TpFoldedFacts(t)
           c == RetainCutoff
           d == RetainCutoff'
<1>1. IsTenancy(s) /\ TpExact(s, K, c)
  BY DEF TenantExact
<1>2. TpExact(s, K, d)
  <2> SUFFICES ASSUME NEW e \in Entities, NEW w \in TpWindows, w >= d, s.dropped[e[1]] = 0
               PROVE  s.entries[e][w] = TpCount(K, e, w)
    BY DEF TpExact
  <2> HIDE DEF s, K, c, d
  <2>1. c \in Int /\ d \in Int /\ c <= d /\ w \in Int
    BY TpAssumption DEF c, d
  <2>2. w >= c
    BY <2>1
  <2> QED
    BY <1>1, <2>2 DEF TpExact
<1>3. TenantExact(t)' = (IsTenancy(Tenancy(t)') /\ TpExact(Tenancy(t)', TpFoldedFacts(t)', d))
  BY DEF TenantExact, IsTenancy, TpExact, TpLiveOps, TpLive, TpCount
<1> HIDE DEF s, K, d
<1> QED
  BY <1>1, <1>2, <1>3 DEF s, K

\* The projection starts empty and exact.
LEMMA TpInvInit == TpInit => TpInv
<1> SUFFICES ASSUME TpInit PROVE TpInv
  OBVIOUS
<1>1. TpShapes
  <2>1. \E w \in TpWindows : \A v \in TpWindows : w <= v
    BY TpAssumption, LeastMember
  <2>2. tpNow \in TpWindows
    BY <2>1 DEF TpInit
  <2> QED
    BY <2>2 DEF TpInit, TpShapes
<1>2. ASSUME NEW t \in TpTenants PROVE TenantExact(t)
  <2> DEFINE s == Tenancy(t)
             z == [a \in TpServices |-> 0]
             d == [k \in EntityKinds |-> 0]
             i == [w \in TpWindows |-> 0]
  <2>1. s = [entries |-> NoEntries, ops |-> z, dropped |-> d, identity |-> i, touched |-> FALSE]
    BY DEF TpInit, Tenancy
  <2>2. /\ NoEntries \in [Entities -> [TpWindows -> Nat]]
        /\ \A e \in Entities, w \in TpWindows : NoEntries[e][w] = 0
    BY DEF NoEntries
  <2>3. /\ z \in [TpServices -> Nat] /\ \A a \in TpServices : z[a] = 0
        /\ d \in [EntityKinds -> Nat] /\ i \in [TpWindows -> Nat]
    OBVIOUS
  <2>4. \A a \in TpServices : TpLiveOps(NoEntries, a) = {}
    <3>1. \A e \in Entities : ~ TpLive(NoEntries, e)
      BY <2>2 DEF TpLive
    <3> QED
      BY <3>1, TpEntities DEF TpLiveOps
  <2> HIDE DEF s, z, d, i
  <2>5. /\ s.entries = NoEntries /\ s.ops = z /\ s.dropped = d /\ s.identity = i
        /\ s.touched = FALSE
    BY <2>1
  <2>6. IsTenancy(s)
    BY <2>1, <2>2, <2>3, <2>4, <2>5, FS_EmptySet DEF IsTenancy
  <2>7. TpFoldedFacts(t) = {}
    BY DEF TpFoldedFacts, TpFoldedOf, TpInit
  <2>8. TpExact(s, {}, RetainCutoff)
    <3>1. \A e, w : TpCount({}, e, w) = 0
      BY FS_EmptySet DEF TpCount
    <3> QED
      BY <2>2, <2>5, <3>1 DEF TpExact
  <2> QED
    BY <2>6, <2>7, <2>8 DEF TenantExact, s
<1> QED
  BY <1>1, <1>2 DEF TpInv

\* A group commit folds nothing.
LEMMA TpInvCommit ==
  ASSUME TpInv, NEW xs \in SUBSET TpExports, CommitGroup(xs)
  PROVE  TpInv'
<1>1. /\ \A x \in xs : tpExport[x] = "new"
      /\ tpRev' = tpRev + 1
      /\ tpExport' = [x \in TpExports |-> IF x \in xs THEN "committed" ELSE tpExport[x]]
      /\ tpGroupRev' = [x \in TpExports |-> IF x \in xs THEN tpRev + 1 ELSE tpGroupRev[x]]
      /\ tpNow' = tpNow /\ tpEntries' = tpEntries /\ tpOpsPerService' = tpOpsPerService
      /\ tpDropped' = tpDropped /\ tpIdentity' = tpIdentity /\ tpTenantRev' = tpTenantRev
      /\ tpKnown' = tpKnown /\ tpReconcile' = tpReconcile /\ tpView' = tpView
  BY DEF CommitGroup, tpTenantVars
<1>2. TpShapes
  BY DEF TpInv
<1>3. TpShapes'
  <2>1. tpRev' \in Nat /\ 0 .. tpRev \subseteq 0 .. tpRev' /\ tpRev + 1 \in 0 .. tpRev'
    BY <1>1, <1>2 DEF TpShapes
  <2>2. tpExport' \in [TpExports -> {"new", "committed", "folded"}]
    BY <1>1, <1>2 DEF TpShapes
  <2>3. tpGroupRev' \in [TpExports -> 0 .. tpRev']
    BY <1>1, <1>2, <2>1 DEF TpShapes
  <2>4. tpTenantRev' \in [TpTenants -> 0 .. tpRev']
    BY <1>1, <1>2, <2>1 DEF TpShapes
  <2> QED
    BY <1>1, <1>2, <2>1, <2>2, <2>3, <2>4 DEF TpShapes
<1>4. ASSUME NEW t \in TpTenants PROVE TenantExact(t)'
  <2>1. Tenancy(t)' = Tenancy(t) /\ RetainCutoff' = RetainCutoff
    BY <1>1 DEF Tenancy, RetainCutoff
  <2>2. TpFoldedOf(t)' = TpFoldedOf(t)
    BY <1>1 DEF TpFoldedOf
  <2>3. TpFoldedFacts(t)' = TpFoldedFacts(t)
    BY <2>2 DEF TpFoldedFacts
  <2>4. RetainCutoff \in Int /\ RetainCutoff' \in Int /\ RetainCutoff <= RetainCutoff'
    BY <1>2, <2>1, TpCutoffType
  <2>5. TenantExact(t)
    BY DEF TpInv
  <2> QED
    BY <2>1, <2>3, <2>4, <2>5, TpTenantStays
<1> QED
  BY <1>3, <1>4 DEF TpInv

\* The tenant whose topology is replaced.
LEMMA TpTenantSet ==
  ASSUME NEW t \in TpTenants, NEW s, IsTenancy(s), NEW c,
         tpEntries'[t] = s.entries, tpOpsPerService'[t] = s.ops, tpDropped'[t] = s.dropped,
         tpIdentity'[t] = s.identity, RetainCutoff' = c, TpExact(s, TpFoldedFacts(t)', c)
  PROVE  TenantExact(t)'
<1> DEFINE n == Tenancy(t)'
           K == TpFoldedFacts(t)'
<1>1. n = [entries |-> s.entries, ops |-> s.ops, dropped |-> s.dropped,
           identity |-> s.identity, touched |-> FALSE]
  BY DEF Tenancy
<1>2. TpExact(s, K, c)
  OBVIOUS
<1>3. TenantExact(t)' = (IsTenancy(n) /\ TpExact(n, K, RetainCutoff'))
  BY DEF TenantExact, IsTenancy, TpExact, TpLiveOps, TpLive, TpCount
<1> HIDE DEF n, K
<1>4. IsTenancy(n) /\ TpExact(n, K, c)
  BY <1>1, <1>2, TpSameFields
<1> QED
  BY <1>3, <1>4

\* An export is folded: its tenant holds its facts too, the others what they held.
LEMMA TpInvFold ==
  ASSUME TpInv, NEW x \in TpExports, Fold(x)
  PROVE  TpInv'
<1> DEFINE t == TpTenant[x]
           c == RetainCutoff
<1>1. PICK o \in Orders(x) :
        LET s == FoldFacts(Tenancy(t), x, o)
            retained == \E f \in TpFacts[x] : f.window >= c
        IN  /\ SetTenant(t, IF s.touched THEN Pruned(s, c) ELSE s)
            /\ tpTenantRev' = [tpTenantRev EXCEPT ![t] = IF s.touched THEN tpGroupRev[x] ELSE @]
            /\ tpKnown' = IF retained THEN tpKnown \union {t} ELSE tpKnown
  BY DEF Fold
<1> DEFINE s == FoldFacts(Tenancy(t), x, o)
           n == IF s.touched THEN Pruned(s, c) ELSE s
<1>2. /\ tpExport[x] = "committed" /\ tpExport' = [tpExport EXCEPT ![x] = "folded"]
      /\ tpRev' = tpRev /\ tpGroupRev' = tpGroupRev /\ tpNow' = tpNow
      /\ tpReconcile' = tpReconcile /\ tpView' = tpView
  BY DEF Fold
<1>3. TpShapes /\ t \in TpTenants /\ \A u \in TpTenants : TenantExact(u)
  BY TpAssumption DEF TpInv
<1>4. c \in Int /\ RetainCutoff' = c
  BY <1>2, <1>3, TpCutoffType DEF RetainCutoff
<1>5. /\ tpEntries' = [tpEntries EXCEPT ![t] = n.entries]
      /\ tpOpsPerService' = [tpOpsPerService EXCEPT ![t] = n.ops]
      /\ tpDropped' = [tpDropped EXCEPT ![t] = n.dropped]
      /\ tpIdentity' = [tpIdentity EXCEPT ![t] = n.identity]
  BY <1>1 DEF SetTenant
<1>6. /\ tpTenantRev' \in [TpTenants -> 0 .. tpRev] /\ tpKnown' \subseteq TpTenants
  <2>1. tpTenantRev' = [tpTenantRev EXCEPT ![t] = IF s.touched THEN tpGroupRev[x] ELSE tpTenantRev[t]]
    BY <1>1
  <2>2. tpKnown' \in {tpKnown \union {t}, tpKnown}
    BY <1>1
  <2> HIDE DEF s, t
  <2>3. tpTenantRev' \in [TpTenants -> 0 .. tpRev]
    BY <1>3, <2>1 DEF TpShapes
  <2> QED
    BY <1>3, <2>2, <2>3 DEF TpShapes
<1>7. \A y \in TpExports : tpExport'[y] = IF y = x THEN "folded" ELSE tpExport[y]
  BY <1>2, <1>3 DEF TpShapes
<1>8. TpFoldedOf(t)' = TpFoldedOf(t) \cup {x} /\ x \notin TpFoldedOf(t)
  BY <1>2, <1>7 DEF TpFoldedOf
<1>9. TpFoldedFacts(t)' = TpFoldedFacts(t) \cup ({x} \X TpFacts[x])
  BY <1>8 DEF TpFoldedFacts
<1>10. \A p \in TpFoldedFacts(t) : p[1] # x
  BY <1>8 DEF TpFoldedFacts
<1>11. IsTenancy(n) /\ TpExact(n, TpFoldedFacts(t)', c)
  <2> DEFINE K == TpFoldedFacts(t)
             L == TpFoldedFacts(t)'
             z == Tenancy(t)
  <2>1. IsTenancy(z) /\ TpExact(z, K, RetainCutoff)
    BY <1>3 DEF TenantExact
  <2>2. IsFiniteSet(K) /\ \A p \in K : p[1] # x
    BY <1>10, TpFoldedFinite
  <2>3. L = K \cup ({x} \X TpFacts[x])
    BY <1>9
  <2>4. s = FoldFacts(z, x, o)
    OBVIOUS
  <2> HIDE DEF K, L, z, s, t
  <2>5. IsTenancy(FoldFacts(z, x, o))
        /\ TpExact(FoldFacts(z, x, o), K \cup ({x} \X TpFacts[x]), RetainCutoff)
    BY <1>4, <2>1, <2>2, TpFolds
  <2>6. IsTenancy(s) /\ TpExact(s, L, c)
    BY <2>3, <2>4, <2>5
  <2>7. IsTenancy(Pruned(s, c)) /\ TpExact(Pruned(s, c), L, c)
    <3> HIDE DEF c
    <3> QED
      BY <1>4, <2>6, TpPrunes
  <2> QED
    BY <2>6, <2>7 DEF L
<1> HIDE DEF n, s, t
<1>12. TenantExact(t)'
  <2>1. /\ tpEntries'[t] = n.entries /\ tpOpsPerService'[t] = n.ops /\ tpDropped'[t] = n.dropped
        /\ tpIdentity'[t] = n.identity
    BY <1>3, <1>5 DEF TpShapes
  <2> HIDE DEF c
  <2> QED
    BY <1>3, <1>4, <1>11, <2>1, TpTenantSet
<1>13. ASSUME NEW u \in TpTenants, u # t PROVE TenantExact(u)'
  <2>1. Tenancy(u)' = Tenancy(u)
    <3>1. /\ tpEntries'[u] = tpEntries[u] /\ tpOpsPerService'[u] = tpOpsPerService[u]
          /\ tpDropped'[u] = tpDropped[u] /\ tpIdentity'[u] = tpIdentity[u]
      BY <1>3, <1>5, <1>13 DEF TpShapes
    <3> QED
      BY <3>1 DEF Tenancy
  <2>2. TpFoldedOf(u)' = TpFoldedOf(u)
    BY <1>2, <1>7, <1>13 DEF TpFoldedOf, t
  <2>3. TpFoldedFacts(u)' = TpFoldedFacts(u)
    BY <2>2 DEF TpFoldedFacts
  <2>4. RetainCutoff \in Int /\ RetainCutoff' \in Int /\ RetainCutoff <= RetainCutoff'
    BY <1>4
  <2> QED
    BY <1>3, <2>1, <2>3, <2>4, TpTenantStays
<1>14. TpShapes'
  <2>1. /\ tpEntries' = [u \in TpTenants |-> tpEntries'[u]]
        /\ tpOpsPerService' = [u \in TpTenants |-> tpOpsPerService'[u]]
        /\ tpDropped' = [u \in TpTenants |-> tpDropped'[u]]
        /\ tpIdentity' = [u \in TpTenants |-> tpIdentity'[u]]
    BY <1>3, <1>5 DEF TpShapes
  <2>2. tpExport' \in [TpExports -> {"new", "committed", "folded"}]
    BY <1>2, <1>3 DEF TpShapes
  <2> QED
    BY <1>2, <1>3, <1>6, <2>1, <2>2 DEF TpShapes
<1> QED
  BY <1>12, <1>13, <1>14 DEF TpInv

\* Pruning every tenant before GraphRAG reads them.
LEMMA TpInvReconcile ==
  ASSUME TpInv, ReconcileTopology
  PROVE  TpInv'
<1> DEFINE c == RetainCutoff
           s == [t \in TpTenants |-> Pruned(Tenancy(t), c)]
           hit == {t \in TpTenants : <<s[t].entries, s[t].identity>> # Visible(t)}
<1>1. /\ tpEntries' = [t \in TpTenants |-> s[t].entries]
      /\ tpOpsPerService' = [t \in TpTenants |-> s[t].ops]
      /\ tpIdentity' = [t \in TpTenants |-> s[t].identity]
      /\ tpDropped' = tpDropped /\ tpKnown' = tpKnown
  BY DEF ReconcileTopology, Prune
<1>2. /\ tpRev' = IF hit = {} THEN tpRev ELSE tpRev + 1
      /\ tpTenantRev' = [t \in TpTenants |-> IF t \in hit THEN tpRev + 1 ELSE tpTenantRev[t]]
  BY DEF ReconcileTopology, Prune
<1>3. /\ tpReconcile' = tpKnown /\ tpExport' = tpExport /\ tpGroupRev' = tpGroupRev
      /\ tpNow' = tpNow /\ tpView' = tpView
  BY DEF ReconcileTopology
<1>4. TpShapes
  BY DEF TpInv
<1>5. c \in Int /\ RetainCutoff' = c
  BY <1>3, <1>4, TpCutoffType DEF RetainCutoff
<1>6. \A t \in TpTenants : s[t] = Pruned(Tenancy(t), c)
  OBVIOUS
<1> HIDE DEF s
<1>7. TpShapes'
  <2> HIDE DEF hit
  <2>1. tpRev' \in Nat /\ 0 .. tpRev \subseteq 0 .. tpRev' /\ (hit # {} => tpRev + 1 \in 0 .. tpRev')
    BY <1>2, <1>4 DEF TpShapes
  <2>2. tpGroupRev' \in [TpExports -> 0 .. tpRev']
    BY <1>3, <1>4, <2>1 DEF TpShapes
  <2>3. tpTenantRev' \in [TpTenants -> 0 .. tpRev']
    <3>1. \A t \in TpTenants : tpTenantRev[t] \in 0 .. tpRev' /\ (t \in hit => tpRev + 1 \in 0 .. tpRev')
      BY <1>4, <2>1 DEF TpShapes
    <3> QED
      BY <1>2, <3>1
  <2>4. \A t \in TpTenants : tpView'[t].rev \in 0 .. tpRev'
    BY <1>3, <1>4, <2>1 DEF TpShapes
  <2>5. /\ tpEntries' = [t \in TpTenants |-> tpEntries'[t]]
        /\ tpOpsPerService' = [t \in TpTenants |-> tpOpsPerService'[t]]
        /\ tpIdentity' = [t \in TpTenants |-> tpIdentity'[t]]
    BY <1>1
  <2> QED
    BY <1>1, <1>3, <1>4, <2>1, <2>2, <2>3, <2>4, <2>5 DEF TpShapes
<1>8. ASSUME NEW t \in TpTenants PROVE TenantExact(t)'
  <2> DEFINE z == Tenancy(t)
             n == Pruned(z, c)
             K == TpFoldedFacts(t)
  <2>1. IsTenancy(z) /\ TpExact(z, K, c)
    BY DEF TpInv, TenantExact
  <2>2. z.dropped = tpDropped[t]
    BY DEF Tenancy
  <2>3. TpFoldedFacts(t)' = K
    BY <1>3 DEF TpFoldedFacts, TpFoldedOf
  <2>4. /\ tpEntries'[t] = n.entries /\ tpOpsPerService'[t] = n.ops
        /\ tpIdentity'[t] = n.identity
    BY <1>1, <1>6
  <2> HIDE DEF z, K, c
  <2>5. IsTenancy(n) /\ TpExact(n, K, c) /\ n.dropped = z.dropped
    BY <1>5, <2>1, TpPrunes
  <2> HIDE DEF n
  <2>6. tpDropped'[t] = n.dropped
    BY <1>1, <2>2, <2>5
  <2> QED
    BY <1>5, <2>3, <2>4, <2>5, <2>6, TpTenantSet
<1> QED
  BY <1>7, <1>8 DEF TpInv

\* Every step of the projection and of its readers keeps the invariant.
LEMMA TpInvStep == TpInv /\ [TpNext]_tpVars => TpInv'
<1> SUFFICES ASSUME TpInv, [TpNext]_tpVars PROVE TpInv'
  OBVIOUS
<1>0. TpShapes /\ RetainCutoff \in Int
  BY TpCutoffType DEF TpInv
<1>1. CASE \E xs \in SUBSET TpExports : CommitGroup(xs)
  BY <1>1, TpInvCommit
<1>2. CASE \E x \in TpExports : Fold(x)
  BY <1>2, TpInvFold
<1>3. CASE ReconcileTopology
  BY <1>3, TpInvReconcile
<1>4. ASSUME tpEntries' = tpEntries, tpOpsPerService' = tpOpsPerService,
             tpDropped' = tpDropped, tpIdentity' = tpIdentity, tpExport' = tpExport,
             RetainCutoff' \in Int, RetainCutoff <= RetainCutoff'
      PROVE  \A t \in TpTenants : TenantExact(t)'
  <2> SUFFICES ASSUME NEW t \in TpTenants PROVE TenantExact(t)'
    OBVIOUS
  <2>1. Tenancy(t)' = Tenancy(t)
    BY <1>4 DEF Tenancy
  <2>2. TpFoldedFacts(t)' = TpFoldedFacts(t)
    BY <1>4 DEF TpFoldedFacts, TpFoldedOf
  <2>3. TenantExact(t)
    BY DEF TpInv
  <2> QED
    BY <1>0, <1>4, <2>1, <2>2, <2>3, TpTenantStays
<1>5. CASE \E t \in TpTenants : ReconcileTenant(t)
  <2>1. PICK t \in TpTenants : ReconcileTenant(t)
    BY <1>5
  <2>2. /\ tpReconcile' = tpReconcile \ {t}
        /\ tpView' = IF tpView[t].rev = tpTenantRev[t] THEN tpView
                     ELSE [tpView EXCEPT ![t] = [rev |-> tpTenantRev[t], entries |-> tpEntries[t]]]
        /\ tpRev' = tpRev /\ tpExport' = tpExport /\ tpGroupRev' = tpGroupRev /\ tpNow' = tpNow
        /\ tpEntries' = tpEntries /\ tpOpsPerService' = tpOpsPerService /\ tpDropped' = tpDropped
        /\ tpIdentity' = tpIdentity /\ tpTenantRev' = tpTenantRev /\ tpKnown' = tpKnown
    BY <2>1 DEF ReconcileTenant, tpTenantVars
  <2>3. /\ tpView' = [u \in TpTenants |-> tpView'[u]]
        /\ \A u \in TpTenants : tpView'[u].rev \in 0 .. tpRev'
    <3>1. tpTenantRev[t] \in 0 .. tpRev
      BY <1>0 DEF TpShapes
    <3> DEFINE v == [rev |-> tpTenantRev[t], entries |-> tpEntries[t]]
    <3>2. v.rev = tpTenantRev[t]
      OBVIOUS
    <3>3. tpView' = tpView \/ tpView' = [tpView EXCEPT ![t] = v]
      BY <2>2
    <3> HIDE DEF v
    <3>4. tpView' = [u \in TpTenants |-> tpView'[u]]
      BY <1>0, <3>3 DEF TpShapes
    <3>5. \A u \in TpTenants : tpView'[u] = tpView[u] \/ tpView'[u] = v
      BY <1>0, <3>3 DEF TpShapes
    <3> QED
      BY <1>0, <2>2, <3>1, <3>2, <3>4, <3>5 DEF TpShapes
  <2>4. TpShapes'
    BY <1>0, <2>2, <2>3 DEF TpShapes
  <2>5. RetainCutoff' = RetainCutoff
    BY <2>2 DEF RetainCutoff
  <2> QED
    BY <1>0, <1>4, <2>2, <2>4, <2>5 DEF TpInv
<1>6. CASE TpTick
  <2>1. /\ tpNow' \in TpWindows /\ tpNow' = tpNow + 1
        /\ tpRev' = tpRev /\ tpExport' = tpExport /\ tpGroupRev' = tpGroupRev
        /\ tpEntries' = tpEntries /\ tpOpsPerService' = tpOpsPerService /\ tpDropped' = tpDropped
        /\ tpIdentity' = tpIdentity /\ tpTenantRev' = tpTenantRev /\ tpKnown' = tpKnown
        /\ tpReconcile' = tpReconcile /\ tpView' = tpView
    BY <1>6 DEF TpTick, tpTenantVars
  <2>2. TpShapes'
    BY <1>0, <2>1 DEF TpShapes
  <2>3. RetainCutoff' = RetainCutoff + 1
    BY <1>0, <2>1, TpAssumption DEF RetainCutoff, TpShapes
  <2>4. RetainCutoff' \in Int /\ RetainCutoff <= RetainCutoff'
    BY <1>0, <2>3
  <2> QED
    BY <1>4, <2>1, <2>2, <2>4 DEF TpInv
<1>7. CASE UNCHANGED tpVars
  <2>1. /\ tpNow' = tpNow
        /\ tpRev' = tpRev /\ tpExport' = tpExport /\ tpGroupRev' = tpGroupRev
        /\ tpEntries' = tpEntries /\ tpOpsPerService' = tpOpsPerService /\ tpDropped' = tpDropped
        /\ tpIdentity' = tpIdentity /\ tpTenantRev' = tpTenantRev /\ tpKnown' = tpKnown
        /\ tpReconcile' = tpReconcile /\ tpView' = tpView
    BY <1>7 DEF tpVars, tpTenantVars
  <2>2. TpShapes'
    BY <1>0, <2>1 DEF TpShapes
  <2>3. RetainCutoff' = RetainCutoff
    BY <2>1 DEF RetainCutoff
  <2> QED
    BY <1>0, <1>4, <2>1, <2>2, <2>3 DEF TpInv
<1> QED
  BY <1>1, <1>2, <1>3, <1>5, <1>6, <1>7 DEF TpNext

\* So it holds in every state.
LEMMA TpInvariant == TpSpec => []TpInv
<1> QED
  BY TpInvInit, TpInvStep, PTL DEF TpSpec

\* The projection, its revisions and GraphRAG's view are well typed; no tenant and no view is
\* ahead of the engine's revision.
THEOREM TopologyTyped == TpSpec => []TpTypeOK
<1>1. TpInv => TpTypeOK
  <2> SUFFICES ASSUME TpInv PROVE TpTypeOK
    OBVIOUS
  <2>1. ASSUME NEW t \in TpTenants
        PROVE  /\ tpEntries[t] \in [Entities -> [TpWindows -> Nat]]
               /\ tpOpsPerService[t] \in [TpServices -> Nat] /\ tpDropped[t] \in [EntityKinds -> Nat]
    <3>1. IsTenancy(Tenancy(t))
      BY DEF TpInv, TenantExact
    <3>2. /\ Tenancy(t).entries = tpEntries[t] /\ Tenancy(t).ops = tpOpsPerService[t]
          /\ Tenancy(t).dropped = tpDropped[t]
      BY DEF Tenancy
    <3> QED
      BY <3>1, <3>2 DEF IsTenancy
  <2> QED
    BY <2>1 DEF TpInv, TpShapes, TpTypeOK
<1> QED
  BY <1>1, TpInvariant, PTL

\* A topology that lost something says so, whatever was folded, refused, pruned and admitted
\* again in between and in whatever order an export's facts were walked (topology.go: foldOne,
\* operationEntry, pruneTenantLocked).
THEOREM TruncationIsDeclared == TpSpec => []TruncationDeclared
<1>1. TpInv => TruncationDeclared
  <2> SUFFICES ASSUME TpInv, NEW t \in tpKnown
               PROVE  /\ \A a \in TpServices :
                           tpOpsPerService[t][a] =
                             Cardinality({e \in OfKind(tpEntries[t], "op") : e[2] = a})
                      /\ \A e \in Entities, w \in TpWindows :
                           w >= RetainCutoff /\ w >= tpGone[t] /\ tpDropped[t][e[1]] = 0 =>
                               tpEntries[t][e][w] = Counted(t, e, w)
    BY DEF TruncationDeclared
  <2>1. /\ IsTenancy(Tenancy(t)) /\ TpExact(Tenancy(t), TpFoldedFacts(t), RetainCutoff)
    BY DEF TpInv, TpShapes, TenantExact
  <2>2. /\ Tenancy(t).entries = tpEntries[t] /\ Tenancy(t).ops = tpOpsPerService[t]
        /\ Tenancy(t).dropped = tpDropped[t]
    BY DEF Tenancy
  <2>3. ASSUME NEW a \in TpServices
        PROVE  tpOpsPerService[t][a] = Cardinality({e \in OfKind(tpEntries[t], "op") : e[2] = a})
    <3>1. tpOpsPerService[t][a] = Cardinality(TpLiveOps(tpEntries[t], a))
      BY <2>1, <2>2 DEF IsTenancy
    <3> QED
      BY <3>1, TpOpsByName
  <2>4. ASSUME NEW e \in Entities, NEW w \in TpWindows, w >= RetainCutoff, tpDropped[t][e[1]] = 0
        PROVE  tpEntries[t][e][w] = Counted(t, e, w)
    <3>1. tpEntries[t][e][w] = TpCount(TpFoldedFacts(t), e, w)
      BY <2>1, <2>2, <2>4 DEF TpExact
    <3>2. {p \in TpFoldedFacts(t) : p[2].window = w /\ e \in EntitiesOf(p[2])} =
          UNION {{<<x, f>> : f \in {g \in TpFacts[x] : g.window = w /\ e \in EntitiesOf(g)}} :
                   x \in TpFoldedOf(t)}
      BY DEF TpFoldedFacts
    <3>3. TpCount(TpFoldedFacts(t), e, w) = Counted(t, e, w)
      BY <3>2 DEF TpCount, Counted, TpFoldedOf
    <3> QED
      BY <3>1, <3>3
  <2> QED
    BY <2>3, <2>4
<1> QED
  BY <1>1, TpInvariant, PTL
===============================================================================
