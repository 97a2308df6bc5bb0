---------------------------- MODULE DeliveryProofs ----------------------------
(***************************************************************************)
(* Proofs about the components that hand on what they accepted: the tsdb   *)
(* aggregator (Tsdb) and GraphRAG (GraphRag) lose nothing when the process *)
(* stops, and the two WebSocket hubs (Hub, EventHub) tell a client nothing *)
(* older than before and nothing of another tenant; the Stop of the first  *)
(* can always go on and leaves no writer.  The hubs keep their connection  *)
(* and channel limits, the aggregator its cardinality caps.  For every     *)
(* value of their constants.                                               *)
(***************************************************************************)
EXTENDS Tsdb, GraphRag, Hub, EventHub, SequenceTheorems, Totals, TLAPS

-------------------------------------------------------------------------------
(* The tsdb aggregator.                                                    *)

TsBucket == [count : Nat, pts : SUBSET Nat]

Has(batch, p) == \E b \in batch : p \in b.pts

\* The point is past the buckets and not lost: saved, or on its way there.
OnItsWay(p) ==
  \/ Has(tsSaved, p) \/ Has(tsFinal, p)
  \/ \E w \in TsWorkers : Has(tsWorker[w], p)
  \/ \E i \in DOMAIN tsChan : Has(tsChan[i], p)

Stopping == tsRun \in {"final", "drain", "done"}

TsShapes ==
  /\ \A k \in DOMAIN tsBuckets : tsBuckets[k] \in TsBucket
  /\ tsChan \in Seq(SUBSET TsBucket) /\ tsFinal \subseteq TsBucket
  /\ DOMAIN tsWorker = TsWorkers
  /\ tsPoints \in Nat /\ tsBefore \subseteq 1 .. tsPoints

\* What the stages of the run and of Shutdown imply.
TsStages ==
  /\ tsStop => tsShut # "no"
  /\ tsRun # "final" => tsFinal = {}
  /\ tsRun = "done" => tsChan = <<>> /\ \A w \in TsWorkers : tsWorker[w] = {}
  /\ Stopping /\ ~ tsErr => tsStop

\* Without an error no point is lost, and once the loop stops, what came before
\* Shutdown is past the buckets.
PointsKept ==
  ~ tsErr => /\ \A p \in 1 .. tsPoints : Has(Batch, p) \/ OnItsWay(p)
             /\ Stopping => \A p \in tsBefore : OnItsWay(p)

TsIInv == TsShapes /\ TsStages /\ PointsKept /\ CleanShutdownSavedAll

\* Every step keeps the shapes.
LEMMA TsShapesStep ==
    ASSUME TsIInv, [TsNext]_tsVars
    PROVE  TsShapes'
<1> USE DEF TsIInv
<1>0. ASSUME UNCHANGED <<tsBuckets, tsChan, tsFinal, tsWorker, tsPoints, tsBefore>>
      PROVE  TsShapes'
  BY <1>0 DEF TsShapes
<1>b. tsChan \in Seq(SUBSET TsBucket) /\ Batch \in SUBSET TsBucket /\ tsFinal \in SUBSET TsBucket
  BY DEF TsShapes, Batch, Range
<1>e. ASSUME NEW f, f = <<>> PROVE \A k \in DOMAIN f : f[k] \in TsBucket
  BY <1>e
<1>1. ASSUME NEW t \in TsTenants, NEW s \in TsSeries, NEW w \in 0 .. TsMaxWindow,
             NEW now \in 0 .. TsMaxWindow, Ingest(t, s, w, now)
      PROVE  TsShapes'
  <2>1. UNCHANGED <<tsChan, tsFinal, tsWorker, tsBefore>> /\ tsPoints' = tsPoints + 1
    BY <1>1 DEF Ingest, tsPipe
  <2>2. PICK k, b : /\ b \in TsBucket
                    /\ tsBuckets' = [x \in DOMAIN tsBuckets \cup {k} |->
                                       IF x = k THEN b ELSE tsBuckets[x]]
    <3> DEFINE k == BucketKey(t, s)
               new == k \notin DOMAIN tsBuckets
               own == k = SeriesKey(t, s)
               a == IF new THEN [count |-> 1, pts |-> {tsPoints + 1}] ELSE tsBuckets[k]
               b == IF new /\ own THEN a
                    ELSE [count |-> a.count + 1, pts |-> a.pts \cup {tsPoints + 1}]
    <3>1. a \in TsBucket
      BY DEF TsShapes, TsBucket
    <3>2. b \in TsBucket
      BY <3>1 DEF TsShapes, TsBucket
    <3>3. tsBuckets' = [x \in DOMAIN tsBuckets \cup {k} |-> IF x = k THEN b ELSE tsBuckets[x]]
      BY <1>1 DEF Ingest
    <3> HIDE DEF k, b
    <3> QED BY <3>2, <3>3
  <2>3. \A x \in DOMAIN tsBuckets' : tsBuckets'[x] \in TsBucket
    BY <2>2 DEF TsShapes
  <2> QED BY <2>1, <2>3 DEF TsShapes
<1>2. CASE StartRun
  BY <1>0, <1>2 DEF StartRun
<1>3. CASE TickFlush
  <2>1. tsChan' = tsChan \/ tsChan' = Append(tsChan, Batch)
    BY <1>3 DEF TickFlush
  <2>2. tsChan' \in Seq(SUBSET TsBucket)
    BY <1>b, <2>1, AppendProperties
  <2>3. tsBuckets' = <<>> /\ UNCHANGED <<tsFinal, tsWorker, tsPoints, tsBefore>>
    BY <1>3 DEF TickFlush, SwapOut
  <2> QED BY <1>e, <2>2, <2>3 DEF TsShapes
<1>4. ASSUME NEW c \in BOOLEAN, StopRun(c) PROVE TsShapes'
  <2>1. tsBuckets' = <<>> /\ tsFinal' = Batch /\ UNCHANGED <<tsChan, tsWorker, tsPoints, tsBefore>>
    BY <1>4 DEF StopRun, SwapOut
  <2> QED BY <1>b, <1>e, <2>1 DEF TsShapes
<1>5. CASE FinalSend
  <2>1. tsChan' = tsChan \/ tsChan' = Append(tsChan, tsFinal)
    BY <1>5 DEF FinalSend
  <2>2. tsChan' \in Seq(SUBSET TsBucket)
    BY <1>b, <2>1, AppendProperties
  <2> QED BY <1>5, <2>2 DEF FinalSend, TsShapes
<1>6. ASSUME NEW w \in TsWorkers, WorkerTakes(w) PROVE TsShapes'
  <2>1. tsChan' \in Seq(SUBSET TsBucket)
    BY <1>6, <1>b, HeadTailProperties DEF WorkerTakes
  <2> QED BY <1>6, <2>1 DEF WorkerTakes, TsShapes
<1>7. ASSUME NEW w \in TsWorkers, NEW ok \in BOOLEAN, WorkerPersists(w, ok) PROVE TsShapes'
  BY <1>7 DEF WorkerPersists, TsShapes
<1>8. CASE RunDone
  BY <1>0, <1>8 DEF RunDone
<1>9. CASE TsShutdown
  BY <1>9 DEF TsShutdown, tsPipe, TsShapes
<1>10. CASE TsShutdownReturns
  BY <1>0, <1>10 DEF TsShutdownReturns, tsPipe
<1>11. CASE UNCHANGED tsVars
  BY <1>0, <1>11 DEF tsVars
<1> QED
  BY <1>1, <1>2, <1>3, <1>4, <1>5, <1>6, <1>7, <1>8, <1>9, <1>10, <1>11 DEF TsNext

\* The run loop stops for Shutdown or with an error, and is done when nothing is left.
LEMMA TsStagesStep ==
    ASSUME TsIInv, [TsNext]_tsVars
    PROVE  TsStages'
<1> USE DEF TsIInv
<1>0. ASSUME UNCHANGED <<tsStop, tsShut, tsRun, tsFinal, tsChan, tsWorker, tsErr>> PROVE TsStages'
  BY <1>0 DEF TsStages, Stopping
<1>1. ASSUME NEW t \in TsTenants, NEW s \in TsSeries, NEW w \in 0 .. TsMaxWindow,
             NEW now \in 0 .. TsMaxWindow, Ingest(t, s, w, now)
      PROVE  TsStages'
  BY <1>0, <1>1 DEF Ingest, tsPipe
<1>2. CASE StartRun
  BY <1>2 DEF StartRun, TsStages, Stopping
<1>3. CASE TickFlush
  <2>1. tsRun = "loop" /\ UNCHANGED <<tsStop, tsShut, tsRun, tsFinal>>
    BY <1>3 DEF TickFlush
  <2> QED BY <2>1 DEF TsStages, Stopping
<1>4. ASSUME NEW c \in BOOLEAN, StopRun(c) PROVE TsStages'
  <2>1. tsRun' = "final" /\ UNCHANGED <<tsStop, tsShut>>
    BY <1>4 DEF StopRun
  <2>2. ~ tsErr' => tsStop
    BY <1>4 DEF StopRun
  <2> QED BY <2>1, <2>2 DEF TsStages, Stopping
<1>5. CASE FinalSend
  <2>1. tsRun = "final" /\ tsRun' = "drain" /\ tsFinal' = {} /\ UNCHANGED <<tsStop, tsShut, tsErr>>
    BY <1>5 DEF FinalSend
  <2> QED BY <2>1 DEF TsStages, Stopping
<1>6. ASSUME NEW w \in TsWorkers, WorkerTakes(w) PROVE TsStages'
  <2>1. tsChan # <<>> /\ UNCHANGED <<tsStop, tsShut, tsRun, tsFinal, tsErr>>
    BY <1>6 DEF WorkerTakes
  <2> QED BY <2>1 DEF TsStages, Stopping
<1>7. ASSUME NEW w \in TsWorkers, NEW ok \in BOOLEAN, WorkerPersists(w, ok) PROVE TsStages'
  <2>1. tsWorker[w] # {} /\ UNCHANGED <<tsStop, tsShut, tsRun, tsFinal>>
    BY <1>7 DEF WorkerPersists
  <2>2. ~ tsErr' => ~ tsErr
    BY <1>7 DEF WorkerPersists
  <2> QED BY <2>1, <2>2 DEF TsStages, Stopping
<1>8. CASE RunDone
  BY <1>8 DEF RunDone, TsStages, Stopping
<1>9. CASE TsShutdown
  <2>1. UNCHANGED <<tsRun, tsFinal, tsChan, tsWorker, tsErr>> /\ tsStop' /\ tsShut' # "no"
    BY <1>9 DEF TsShutdown, tsPipe
  <2> QED BY <2>1 DEF TsStages, Stopping
<1>10. CASE TsShutdownReturns
  <2>1. UNCHANGED <<tsRun, tsFinal, tsChan, tsWorker, tsErr, tsStop>> /\ tsShut' # "no"
    BY <1>10 DEF TsShutdownReturns, tsPipe
  <2> QED BY <2>1 DEF TsStages, Stopping
<1>11. CASE UNCHANGED tsVars
  BY <1>0, <1>11 DEF tsVars
<1> QED
  BY <1>1, <1>2, <1>3, <1>4, <1>5, <1>6, <1>7, <1>8, <1>9, <1>10, <1>11 DEF TsNext

\* A batch put into the channel is found there, and one taken from it is the rest's.
LEMMA BatchMoves ==
    ASSUME NEW q \in Seq(SUBSET TsBucket), NEW p
    PROVE  /\ \A b \in SUBSET TsBucket :
                /\ \A i \in DOMAIN q : Has(q[i], p) =>
                     \E j \in DOMAIN Append(q, b) : Has(Append(q, b)[j], p)
                /\ Has(b, p) => \E j \in DOMAIN Append(q, b) : Has(Append(q, b)[j], p)
           /\ q # <<>> => \A i \in DOMAIN q : Has(q[i], p) =>
                Has(Head(q), p) \/ \E j \in DOMAIN Tail(q) : Has(Tail(q)[j], p)
<1>1. ASSUME NEW b \in SUBSET TsBucket
      PROVE  /\ \A i \in DOMAIN q : Has(q[i], p) =>
                  \E j \in DOMAIN Append(q, b) : Has(Append(q, b)[j], p)
             /\ Has(b, p) => \E j \in DOMAIN Append(q, b) : Has(Append(q, b)[j], p)
  <2>1. /\ DOMAIN q = 1 .. Len(q) /\ DOMAIN Append(q, b) = 1 .. (Len(q) + 1) /\ Len(q) \in Nat
        /\ \A i \in 1 .. Len(q) : Append(q, b)[i] = q[i]
        /\ Append(q, b)[Len(q) + 1] = b
    BY AppendProperties, LenProperties
  <2>2. Len(q) + 1 \in 1 .. (Len(q) + 1) /\ \A i \in 1 .. Len(q) : i \in 1 .. (Len(q) + 1)
    BY <2>1
  <2> QED BY <2>1, <2>2
<1>2. ASSUME q # <<>>, NEW i \in DOMAIN q, Has(q[i], p)
      PROVE  Has(Head(q), p) \/ \E j \in DOMAIN Tail(q) : Has(Tail(q)[j], p)
  <2>1. /\ Tail(q) \in Seq(SUBSET TsBucket) /\ Len(Tail(q)) = Len(q) - 1
        /\ \A j \in 1 .. Len(Tail(q)) : Tail(q)[j] = q[j + 1]
    BY <1>2, HeadTailProperties
  <2>2. /\ Len(q) \in Nat /\ Head(q) = q[1]
        /\ DOMAIN q = 1 .. Len(q) /\ DOMAIN Tail(q) = 1 .. (Len(q) - 1)
    BY <1>2, <2>1, LenProperties, EmptySeq
  <2>3. i = 1 \/ (i - 1 \in 1 .. (Len(q) - 1) /\ q[i] = Tail(q)[i - 1])
    BY <2>1, <2>2
  <2> QED BY <1>2, <2>2, <2>3
<1> QED
  BY <1>1, <1>2

\* Without an error, a point on its way stays on it, and leaves the buckets only
\* for it.
LEMMA PointsMove ==
    ASSUME TsIInv, TsNext, ~ tsErr', NEW p
    PROVE  /\ ~ tsErr
           /\ OnItsWay(p) => OnItsWay(p)'
           /\ Has(Batch, p) => Has(Batch, p)' \/ OnItsWay(p)'
<1> USE DEF TsIInv
<1>0. ASSUME UNCHANGED <<tsBuckets, tsChan, tsFinal, tsWorker, tsSaved>>
      PROVE  /\ OnItsWay(p) => OnItsWay(p)'
             /\ Has(Batch, p) => Has(Batch, p)'
  BY <1>0 DEF OnItsWay, Has, Batch
<1>q. tsChan \in Seq(SUBSET TsBucket) /\ Batch \in SUBSET TsBucket /\ tsFinal \in SUBSET TsBucket
  BY DEF TsShapes, Batch, Range
<1>1. ASSUME NEW t \in TsTenants, NEW s \in TsSeries, NEW w \in 0 .. TsMaxWindow,
             NEW now \in 0 .. TsMaxWindow, Ingest(t, s, w, now)
      PROVE  /\ ~ tsErr
             /\ OnItsWay(p) => OnItsWay(p)'
             /\ Has(Batch, p) => Has(Batch, p)' \/ OnItsWay(p)'
  <2>1. UNCHANGED <<tsChan, tsFinal, tsWorker, tsSaved, tsErr>>
    BY <1>1 DEF Ingest, tsPipe
  <2>2. OnItsWay(p) => OnItsWay(p)'
    BY <2>1 DEF OnItsWay, Has
  <2>3. ASSUME NEW x \in DOMAIN tsBuckets
        PROVE  x \in DOMAIN tsBuckets' /\ tsBuckets[x].pts \subseteq tsBuckets'[x].pts
    <3> DEFINE k == BucketKey(t, s)
               new == k \notin DOMAIN tsBuckets
               own == k = SeriesKey(t, s)
               a == IF new THEN [count |-> 1, pts |-> {tsPoints + 1}] ELSE tsBuckets[k]
               b == IF new /\ own THEN a
                    ELSE [count |-> a.count + 1, pts |-> a.pts \cup {tsPoints + 1}]
    <3>1. tsBuckets' = [y \in DOMAIN tsBuckets \cup {k} |-> IF y = k THEN b ELSE tsBuckets[y]]
      BY <1>1 DEF Ingest
    <3>2. x = k => b = [count |-> tsBuckets[x].count + 1,
                        pts |-> tsBuckets[x].pts \cup {tsPoints + 1}]
      OBVIOUS
    <3> HIDE DEF k, b
    <3> QED BY <3>1, <3>2
  <2>4. Has(Batch, p) => Has(Batch, p)'
    BY <2>3 DEF Has, Batch, Range
  <2> QED BY <2>1, <2>2, <2>4
<1>2. CASE StartRun
  BY <1>0, <1>2 DEF StartRun
<1>3. CASE TickFlush
  <2>1. UNCHANGED <<tsFinal, tsWorker, tsSaved>>
    BY <1>3 DEF TickFlush
  <2>2. CASE tsBuckets = <<>> /\ UNCHANGED <<tsChan, tsErr>>
    <3>1. ~ Has(Batch, p)
      BY <2>2 DEF Has, Batch, Range
    <3> QED BY <2>1, <2>2, <3>1 DEF OnItsWay, Has
  <2>3. CASE tsChan' = Append(tsChan, Batch) /\ UNCHANGED tsErr
    <3>1. /\ \A i \in DOMAIN tsChan : Has(tsChan[i], p) =>
               \E j \in DOMAIN tsChan' : Has(tsChan'[j], p)
          /\ Has(Batch, p) => \E j \in DOMAIN tsChan' : Has(tsChan'[j], p)
      BY <1>q, <2>3, BatchMoves
    <3>2. OnItsWay(p)' <=> \/ Has(tsSaved, p) \/ Has(tsFinal, p)
                           \/ \E w \in TsWorkers : Has(tsWorker[w], p)
                           \/ \E i \in DOMAIN tsChan' : Has(tsChan'[i], p)
      BY <2>1 DEF OnItsWay, Has
    <3> QED BY <2>3, <3>1, <3>2 DEF OnItsWay
  <2> QED BY <1>3, <2>2, <2>3 DEF TickFlush
<1>4. ASSUME NEW c \in BOOLEAN, StopRun(c)
      PROVE  /\ ~ tsErr
             /\ OnItsWay(p) => OnItsWay(p)'
             /\ Has(Batch, p) => Has(Batch, p)' \/ OnItsWay(p)'
  <2>1. tsFinal = {} /\ tsFinal' = Batch /\ UNCHANGED <<tsChan, tsWorker, tsSaved>>
    BY <1>4 DEF StopRun, TsStages
  <2>2. ~ tsErr
    BY <1>4 DEF StopRun
  <2>3. Has(Batch, p) => Has(tsFinal', p)
    BY <2>1
  <2> QED BY <2>1, <2>2, <2>3 DEF OnItsWay, Has
<1>5. CASE FinalSend
  <2>1. UNCHANGED <<tsBuckets, tsWorker, tsSaved, tsErr>> /\ tsFinal' = {}
    BY <1>5 DEF FinalSend
  <2>2. (tsFinal = {} /\ tsChan' = tsChan) \/ tsChan' = Append(tsChan, tsFinal)
    BY <1>5 DEF FinalSend
  <2>3. /\ \A i \in DOMAIN tsChan : Has(tsChan[i], p) =>
             \E j \in DOMAIN tsChan' : Has(tsChan'[j], p)
        /\ Has(tsFinal, p) => \E j \in DOMAIN tsChan' : Has(tsChan'[j], p)
    <3>1. CASE tsFinal = {} /\ tsChan' = tsChan
      BY <3>1 DEF Has
    <3>2. CASE tsChan' = Append(tsChan, tsFinal)
      BY <1>q, <3>2, BatchMoves
    <3> QED BY <2>2, <3>1, <3>2
  <2>4. OnItsWay(p)' <=> \/ Has(tsSaved, p) \/ Has({}, p)
                         \/ \E w \in TsWorkers : Has(tsWorker[w], p)
                         \/ \E i \in DOMAIN tsChan' : Has(tsChan'[i], p)
    BY <2>1 DEF OnItsWay, Has
  <2>5. Has(Batch, p) => Has(Batch, p)'
    BY <2>1 DEF Has, Batch
  <2> QED BY <2>1, <2>3, <2>4, <2>5 DEF OnItsWay
<1>6. ASSUME NEW w \in TsWorkers, WorkerTakes(w)
      PROVE  /\ ~ tsErr
             /\ OnItsWay(p) => OnItsWay(p)'
             /\ Has(Batch, p) => Has(Batch, p)' \/ OnItsWay(p)'
  <2>1. /\ UNCHANGED <<tsBuckets, tsFinal, tsSaved, tsErr>> /\ tsWorker[w] = {}
        /\ tsChan # <<>> /\ tsChan' = Tail(tsChan)
        /\ tsWorker' = [tsWorker EXCEPT ![w] = Head(tsChan)]
    BY <1>6 DEF WorkerTakes
  <2>2. \A i \in DOMAIN tsChan : Has(tsChan[i], p) =>
          Has(Head(tsChan), p) \/ \E j \in DOMAIN tsChan' : Has(tsChan'[j], p)
    BY <1>q, <2>1, BatchMoves
  <2>3. \A x \in TsWorkers : tsWorker'[x] = IF x = w THEN Head(tsChan) ELSE tsWorker[x]
    BY <2>1 DEF TsShapes
  <2>4. ~ Has(tsWorker[w], p)
    BY <2>1 DEF Has
  <2>5. OnItsWay(p)' <=> \/ Has(tsSaved, p) \/ Has(tsFinal, p)
                         \/ \E x \in TsWorkers : Has(tsWorker'[x], p)
                         \/ \E i \in DOMAIN tsChan' : Has(tsChan'[i], p)
    BY <2>1 DEF OnItsWay, Has
  <2>6. Has(Batch, p) => Has(Batch, p)'
    BY <2>1 DEF Has, Batch
  <2> QED BY <2>1, <2>2, <2>3, <2>4, <2>5, <2>6 DEF OnItsWay
<1>7. ASSUME NEW w \in TsWorkers, NEW ok \in BOOLEAN, WorkerPersists(w, ok)
      PROVE  /\ ~ tsErr
             /\ OnItsWay(p) => OnItsWay(p)'
             /\ Has(Batch, p) => Has(Batch, p)' \/ OnItsWay(p)'
  <2>1. UNCHANGED <<tsBuckets, tsFinal, tsChan>> /\ tsWorker' = [tsWorker EXCEPT ![w] = {}]
    BY <1>7 DEF WorkerPersists
  <2>2. ~ tsErr /\ ok
    BY <1>7 DEF WorkerPersists
  <2>3. tsSaved' = tsSaved \cup tsWorker[w]
    BY <1>7, <2>2 DEF WorkerPersists
  <2>4. \A x \in TsWorkers : x # w => tsWorker'[x] = tsWorker[x]
    BY <2>1 DEF TsShapes
  <2>5. Has(tsSaved, p) \/ Has(tsWorker[w], p) => Has(tsSaved', p)
    BY <2>3 DEF Has
  <2>6. Has(Batch, p) => Has(Batch, p)'
    BY <2>1 DEF Has, Batch
  <2>7. OnItsWay(p)' <=> \/ Has(tsSaved', p) \/ Has(tsFinal, p)
                         \/ \E x \in TsWorkers : Has(tsWorker'[x], p)
                         \/ \E i \in DOMAIN tsChan : Has(tsChan[i], p)
    BY <2>1 DEF OnItsWay, Has
  <2> QED BY <2>2, <2>4, <2>5, <2>6, <2>7 DEF OnItsWay
<1>8. CASE RunDone
  BY <1>0, <1>8 DEF RunDone
<1>9. CASE TsShutdown
  BY <1>0, <1>9 DEF TsShutdown, tsPipe
<1>10. CASE TsShutdownReturns
  BY <1>0, <1>10 DEF TsShutdownReturns, tsPipe
<1> QED
  BY <1>1, <1>2, <1>3, <1>4, <1>5, <1>6, <1>7, <1>8, <1>9, <1>10 DEF TsNext

\* The new point is in a bucket.
LEMMA PointEnters ==
    ASSUME NEW t \in TsTenants, NEW s \in TsSeries, NEW w, NEW now, Ingest(t, s, w, now)
    PROVE  \E k \in DOMAIN tsBuckets' : tsPoints + 1 \in tsBuckets'[k].pts
<1> DEFINE k == BucketKey(t, s)
           new == k \notin DOMAIN tsBuckets
           own == k = SeriesKey(t, s)
           a == IF new THEN [count |-> 1, pts |-> {tsPoints + 1}] ELSE tsBuckets[k]
           b == IF new /\ own THEN a
                ELSE [count |-> a.count + 1, pts |-> a.pts \cup {tsPoints + 1}]
<1>1. tsBuckets' = [y \in DOMAIN tsBuckets \cup {k} |-> IF y = k THEN b ELSE tsBuckets[y]]
  BY DEF Ingest
<1>2. tsPoints + 1 \in b.pts
  OBVIOUS
<1> HIDE DEF k, b
<1> QED
  BY <1>1, <1>2

\* Every step moves a point on or leaves it where it is.
LEMMA PointsKeptStep ==
    ASSUME TsIInv, [TsNext]_tsVars
    PROVE  PointsKept'
<1> USE DEF TsIInv
<1>1. CASE UNCHANGED tsVars
  BY <1>1 DEF tsVars, PointsKept, OnItsWay, Has, Batch, Stopping
<1>2. CASE TsNext
  <2> SUFFICES ASSUME ~ tsErr'
               PROVE  /\ \A p \in 1 .. tsPoints' : Has(Batch, p)' \/ OnItsWay(p)'
                      /\ Stopping' => \A p \in tsBefore' : OnItsWay(p)'
    BY DEF PointsKept
  <2>1. \A p : /\ ~ tsErr
               /\ OnItsWay(p) => OnItsWay(p)'
               /\ Has(Batch, p) => Has(Batch, p)' \/ OnItsWay(p)'
    BY <1>2, PointsMove
  <2>2. \A p \in 1 .. tsPoints' : Has(Batch, p)' \/ OnItsWay(p)'
    <3>1. \A p \in 1 .. tsPoints : Has(Batch, p)' \/ OnItsWay(p)'
      BY <2>1 DEF PointsKept
    <3>2. CASE tsPoints' = tsPoints
      BY <3>1, <3>2
    <3>3. CASE \E t \in TsTenants, s \in TsSeries, w, now \in 0 .. TsMaxWindow :
                 Ingest(t, s, w, now)
      <4>1. tsPoints' = tsPoints + 1
        BY <3>3 DEF Ingest
      <4>2. \E k \in DOMAIN tsBuckets' : tsPoints' \in tsBuckets'[k].pts
        BY <3>3, <4>1, PointEnters
      <4>3. Has(Batch', tsPoints')
        BY <4>2 DEF Has, Batch, Range
      <4>4. \A p \in 1 .. tsPoints' : p \in 1 .. tsPoints \/ p = tsPoints'
        BY <4>1 DEF TsShapes
      <4>5. \A p : Has(Batch, p)' <=> Has(Batch', p)
        BY DEF Has
      <4> QED BY <3>1, <4>3, <4>4, <4>5
    <3> QED BY <1>2, <3>2, <3>3 DEF TsNext, StartRun, TickFlush, StopRun, FinalSend, WorkerTakes,
                                    WorkerPersists, RunDone, TsShutdown, TsShutdownReturns
  <2>3. ASSUME Stopping', NEW p \in tsBefore' PROVE OnItsWay(p)'
    <3>1. CASE Stopping /\ tsBefore' = tsBefore
      BY <2>1, <2>3, <3>1 DEF PointsKept
    <3>2. CASE TsShutdown
      <4>1. ~ Stopping
        BY <2>1, <3>2 DEF TsShutdown, TsStages
      <4> QED BY <2>3, <3>2, <4>1 DEF TsShutdown, tsPipe, Stopping
    <3>3. ASSUME NEW c \in BOOLEAN, StopRun(c) PROVE OnItsWay(p)'
      <4>1. tsBuckets' = <<>> /\ p \in 1 .. tsPoints'
        BY <2>3, <3>3 DEF StopRun, SwapOut, TsShapes
      <4>2. ~ Has(Batch, p)'
        BY <4>1 DEF Has, Batch, Range
      <4> QED BY <2>2, <4>1, <4>2
    <3>4. ((Stopping' => Stopping) /\ tsBefore' = tsBefore) \/ TsShutdown
                                  \/ \E c \in BOOLEAN : StopRun(c)
      <4>1. CASE \E t \in TsTenants, s \in TsSeries, w, now \in 0 .. TsMaxWindow : Ingest(t, s, w, now)
        BY <4>1 DEF Ingest, tsPipe, Stopping
      <4>2. CASE StartRun \/ TickFlush \/ TsShutdownReturns
        BY <4>2 DEF StartRun, TickFlush, TsShutdownReturns, tsPipe, Stopping
      <4>3. CASE FinalSend \/ RunDone
        BY <4>3 DEF FinalSend, RunDone, Stopping
      <4>4. CASE \E w \in TsWorkers : WorkerTakes(w) \/ \E ok \in BOOLEAN : WorkerPersists(w, ok)
        BY <4>4 DEF WorkerTakes, WorkerPersists, Stopping
      <4> QED BY <1>2, <4>1, <4>2, <4>3, <4>4 DEF TsNext
    <3> QED BY <2>3, <3>1, <3>2, <3>3, <3>4
  <2> QED BY <2>2, <2>3
<1> QED
  BY <1>1, <1>2

\* Success is reported only when all is saved, and what is saved stays.
LEMMA CleanStep ==
    ASSUME TsIInv, [TsNext]_tsVars
    PROVE  CleanShutdownSavedAll'
<1> USE DEF TsIInv
<1>1. CASE tsShut' = tsShut
  <2>1. tsSaved \subseteq tsSaved'
    BY
       DEF TsNext, Ingest, tsPipe, StartRun, TickFlush, StopRun, FinalSend, WorkerTakes,
           WorkerPersists,
       RunDone, TsShutdown, TsShutdownReturns, tsVars
  <2>2. tsBefore' = tsBefore \/ tsShut = "no"
    BY DEF TsNext, Ingest, StartRun, TickFlush, StopRun, FinalSend, WorkerTakes, WorkerPersists,
       RunDone, TsShutdown, TsShutdownReturns, tsVars
  <2> QED BY <1>1, <2>1, <2>2 DEF CleanShutdownSavedAll
<1>2. CASE TsShutdown
  BY <1>2 DEF TsShutdown, CleanShutdownSavedAll
<1>3. CASE TsShutdownReturns
  <2>1. UNCHANGED <<tsSaved, tsBefore>>
    BY <1>3 DEF TsShutdownReturns, tsPipe
  <2>2. ASSUME tsShut' = "ok" PROVE \A p \in tsBefore : Has(tsSaved, p)
    <3>1. tsRun = "done" /\ ~ tsErr
      BY <1>3, <2>2 DEF TsShutdownReturns
    <3>2. /\ tsFinal = {} /\ tsChan = <<>> /\ \A w \in TsWorkers : tsWorker[w] = {}
          /\ \A p \in tsBefore : OnItsWay(p)
      BY <3>1 DEF TsStages, PointsKept, Stopping
    <3>3. \A p : ~ Has(tsFinal, p) /\ \A w \in TsWorkers : ~ Has(tsWorker[w], p)
      BY <3>2 DEF Has
    <3>4. DOMAIN tsChan = {}
      BY <3>2
    <3> QED BY <3>2, <3>3, <3>4 DEF OnItsWay
  <2> QED BY <2>1, <2>2 DEF CleanShutdownSavedAll, Has
<1> QED
  BY <1>1, <1>2, <1>3 DEF TsNext, Ingest, StartRun, TickFlush, StopRun, FinalSend, WorkerTakes,
     WorkerPersists, RunDone, tsVars

\* The invariant of the aggregator holds in every state.
LEMMA TsInvariant == TsSpec => []TsIInv
<1>1. TsInit => TsIInv
  <2> SUFFICES ASSUME TsInit PROVE TsIInv
    OBVIOUS
  <2>1. tsChan \in Seq(SUBSET TsBucket)
    BY EmptySeq DEF TsInit
  <2>2. TsShapes
    BY <2>1 DEF TsInit, TsShapes
  <2>3. TsStages
    BY DEF TsInit, TsStages, Stopping
  <2>4. PointsKept
    BY DEF TsInit, PointsKept, Stopping
  <2>5. CleanShutdownSavedAll
    BY DEF TsInit, CleanShutdownSavedAll
  <2> QED BY <2>2, <2>3, <2>4, <2>5 DEF TsIInv
<1>2. TsIInv /\ [TsNext]_tsVars => TsIInv'
  BY TsShapesStep, TsStagesStep, PointsKeptStep, CleanStep DEF TsIInv
<1> QED
  BY <1>1, <1>2, PTL DEF TsSpec

\* A Shutdown that reports success has saved every point ingested before it, for
\* every channel capacity, number of workers, series and caps: a dropped batch, a
\* failed write or a cancelled context always surfaces as its error.
THEOREM SuccessMeansSaved == TsSpec => []CleanShutdownSavedAll
<1>1. TsIInv => CleanShutdownSavedAll
  BY DEF TsIInv
<1> QED
  BY <1>1, TsInvariant, PTL

\* The bucket keys a tenant's own series take, those of them in use, and the keys of
\* overflow buckets.
OwnKeys(t) == {SeriesKey(t, s) : s \in TsSeries}
OwnSeries(t) == DOMAIN tsBuckets \cap OwnKeys(t)
AllOwn == UNION {OwnKeys(t) : t \in TsTenants}
SeriesBuckets == DOMAIN tsBuckets \cap AllOwn
Overflows == {TenantOverflow(t) : t \in TsTenants} \cup {GlobalOverflow}

\* The aggregator keeps its caps: seriesPerTenant is the number of a tenant's own series and
\* within its cap, the series of all tenants are within the global cap, every other bucket is
\* an overflow bucket, and the rings and the flush channel are within theirs.
TsCaps ==
  /\ \A t \in TsTenants : /\ tsPerTenant[t] = Cardinality(OwnSeries(t))
                          /\ TsPerTenantCap > 0 => Cardinality(OwnSeries(t)) <= TsPerTenantCap
  /\ TsGlobalCap > 0 => Cardinality(SeriesBuckets) <= TsGlobalCap
  /\ DOMAIN tsBuckets \subseteq SeriesBuckets \cup Overflows
  /\ TsRingMax > 0 => Cardinality(DOMAIN tsRings) <= TsRingMax
  /\ Len(tsChan) <= TsChanCap

\* The caps of the buckets, which only Ingest and a flush move.
BucketCaps ==
  /\ IsFiniteSet(DOMAIN tsBuckets) /\ DOMAIN tsPerTenant = TsTenants
  /\ \A t \in TsTenants : /\ tsPerTenant[t] = Cardinality(OwnSeries(t))
                          /\ TsPerTenantCap > 0 => Cardinality(OwnSeries(t)) <= TsPerTenantCap
  /\ TsGlobalCap > 0 => Cardinality(SeriesBuckets) <= TsGlobalCap
  /\ DOMAIN tsBuckets \subseteq SeriesBuckets \cup Overflows

RingCap == IsFiniteSet(DOMAIN tsRings) /\ (TsRingMax > 0 => Cardinality(DOMAIN tsRings) <= TsRingMax)

\* A key names one tenant's series or an overflow.
LEMMA KeysApart ==
  /\ \A t, u, s, v : SeriesKey(t, s) = SeriesKey(u, v) => t = u /\ s = v
  /\ \A t, u, s : SeriesKey(t, s) # TenantOverflow(u)
  /\ \A t, s : SeriesKey(t, s) # GlobalOverflow
BY DEF SeriesKey, TenantOverflow, GlobalOverflow

\* Series in use are finitely many.
LEMMA SeriesFinite ==
  ASSUME IsFiniteSet(DOMAIN tsBuckets)
  PROVE  /\ \A t \in TsTenants : IsFiniteSet(OwnSeries(t)) /\ Cardinality(OwnSeries(t)) \in Nat
         /\ IsFiniteSet(SeriesBuckets) /\ Cardinality(SeriesBuckets) \in Nat
         /\ Cardinality(SeriesBuckets) <= Cardinality(DOMAIN tsBuckets) /\ Cardinality(DOMAIN tsBuckets) \in Nat
<1>1. SeriesBuckets \subseteq DOMAIN tsBuckets /\ \A t \in TsTenants : OwnSeries(t) \subseteq DOMAIN tsBuckets
  BY DEF SeriesBuckets, OwnSeries
<1> QED
  BY <1>1, FS_Subset, FS_CardinalityType

\* A point finds its bucket, opens one within the caps, or goes to an overflow bucket.
LEMMA IngestKeepsCaps ==
  ASSUME BucketCaps, NEW t \in TsTenants, NEW s \in TsSeries, NEW w, NEW now, Ingest(t, s, w, now)
  PROVE  BucketCaps'
<1> DEFINE k == BucketKey(t, s)
           D == DOMAIN tsBuckets
<1>1. /\ DOMAIN tsBuckets' = D \cup {k}
      /\ tsPerTenant' = IF k \notin D /\ k = SeriesKey(t, s) THEN [tsPerTenant EXCEPT ![t] = @ + 1]
                        ELSE tsPerTenant
  BY DEF Ingest
<1>2. k \in {SeriesKey(t, s), TenantOverflow(t), GlobalOverflow}
  BY DEF BucketKey
<1>3. k = SeriesKey(t, s) /\ k \notin D =>
        /\ ~ (TsPerTenantCap > 0 /\ tsPerTenant[t] >= TsPerTenantCap)
        /\ ~ (TsGlobalCap > 0 /\ Cardinality(D) >= TsGlobalCap)
  BY KeysApart DEF BucketKey
<1>4. /\ IsFiniteSet(D \cup {k})
      /\ {TsPerTenantCap, TsGlobalCap} \subseteq Nat
  BY FS_AddElement, TsAssumption DEF BucketCaps
<1>5. SeriesKey(t, s) \in OwnKeys(t) /\ SeriesKey(t, s) \in AllOwn
  BY DEF OwnKeys, AllOwn
<1> HIDE DEF k, D
<1>6. CASE k \in D
  <2>1. DOMAIN tsBuckets' = DOMAIN tsBuckets /\ tsPerTenant' = tsPerTenant
    BY <1>1, <1>6 DEF D
  <2>2. (\A u \in TsTenants : OwnSeries(u)' = OwnSeries(u)) /\ SeriesBuckets' = SeriesBuckets
    BY <2>1 DEF OwnSeries, SeriesBuckets, OwnKeys, AllOwn, SeriesKey
  <2> QED
    BY <2>1, <2>2 DEF BucketCaps, Overflows, TenantOverflow, GlobalOverflow
<1>7. CASE k \notin D /\ k = SeriesKey(t, s)
  <2>1. OwnSeries(t)' = OwnSeries(t) \cup {k} /\ k \notin OwnSeries(t)
    BY <1>1, <1>5, <1>7 DEF OwnSeries, OwnKeys, SeriesKey, D
  <2>2. \A u \in TsTenants \ {t} : OwnSeries(u)' = OwnSeries(u)
    <3> SUFFICES ASSUME NEW u \in TsTenants \ {t} PROVE OwnSeries(u)' = OwnSeries(u)
      OBVIOUS
    <3>1. k \notin OwnKeys(u)
      BY <1>7, KeysApart DEF OwnKeys
    <3>2. OwnSeries(u)' = (D \cup {k}) \cap OwnKeys(u)
      BY <1>1 DEF OwnSeries, OwnKeys, SeriesKey
    <3> QED
      BY <3>1, <3>2 DEF OwnSeries, D
  <2>3. SeriesBuckets' = SeriesBuckets \cup {k} /\ k \notin SeriesBuckets
    <3>1. SeriesBuckets' = (D \cup {k}) \cap AllOwn
      BY <1>1 DEF SeriesBuckets, AllOwn, OwnKeys, SeriesKey
    <3> QED
      BY <1>5, <1>7, <3>1 DEF SeriesBuckets, D
  <2>4. /\ Cardinality(OwnSeries(t)') = Cardinality(OwnSeries(t)) + 1
        /\ Cardinality(SeriesBuckets') = Cardinality(SeriesBuckets) + 1
    BY <2>1, <2>3, SeriesFinite, FS_AddElement DEF BucketCaps
  <2>5. \A u \in TsTenants : /\ tsPerTenant'[u] = Cardinality(OwnSeries(u)')
                             /\ TsPerTenantCap > 0 => Cardinality(OwnSeries(u)') <= TsPerTenantCap
    <3>1. tsPerTenant'[t] = tsPerTenant[t] + 1 /\ \A u \in TsTenants \ {t} : tsPerTenant'[u] = tsPerTenant[u]
      BY <1>1, <1>7 DEF BucketCaps
    <3>2. tsPerTenant[t] = Cardinality(OwnSeries(t)) /\ Cardinality(OwnSeries(t)) \in Nat
      BY SeriesFinite DEF BucketCaps
    <3>3. TsPerTenantCap > 0 => Cardinality(OwnSeries(t)') <= TsPerTenantCap
      BY <1>3, <1>4, <1>7, <2>4, <3>2
    <3>4. ASSUME NEW u \in TsTenants \ {t}
          PROVE  /\ tsPerTenant'[u] = Cardinality(OwnSeries(u)')
                 /\ TsPerTenantCap > 0 => Cardinality(OwnSeries(u)') <= TsPerTenantCap
      BY <2>2, <3>1, <3>4 DEF BucketCaps
    <3> QED
      BY <2>4, <3>1, <3>2, <3>3, <3>4
  <2>6. TsGlobalCap > 0 => Cardinality(SeriesBuckets') <= TsGlobalCap
    BY <1>3, <1>4, <1>7, <2>4, SeriesFinite DEF BucketCaps, D
  <2>7. D \cup {k} \subseteq SeriesBuckets' \cup Overflows'
    BY <2>3 DEF BucketCaps, D, Overflows, TenantOverflow, GlobalOverflow
  <2>8. DOMAIN tsPerTenant' = TsTenants
    BY <1>1, <1>7 DEF BucketCaps
  <2> QED
    BY <1>1, <1>4, <2>5, <2>6, <2>7, <2>8 DEF BucketCaps
<1>8. CASE k \notin D /\ k # SeriesKey(t, s)
  <2>1. tsPerTenant' = tsPerTenant /\ k \in Overflows
    BY <1>1, <1>2, <1>8 DEF Overflows
  <2>2. k \notin AllOwn /\ \A u \in TsTenants : k \notin OwnKeys(u)
    BY <1>2, <1>8, KeysApart DEF AllOwn, OwnKeys
  <2>3. /\ SeriesBuckets' = (D \cup {k}) \cap AllOwn
        /\ \A u \in TsTenants : OwnSeries(u)' = (D \cup {k}) \cap OwnKeys(u)
    BY <1>1 DEF SeriesBuckets, OwnSeries, AllOwn, OwnKeys, SeriesKey
  <2>4. SeriesBuckets' = SeriesBuckets /\ \A u \in TsTenants : OwnSeries(u)' = OwnSeries(u)
    BY <2>2, <2>3 DEF SeriesBuckets, OwnSeries, D
  <2>5. D \cup {k} \subseteq SeriesBuckets \cup Overflows
    BY <2>1 DEF BucketCaps, D
  <2>6. Overflows' = Overflows
    BY DEF Overflows, TenantOverflow, GlobalOverflow
  <2> QED
    BY <1>1, <1>4, <2>1, <2>4, <2>5, <2>6 DEF BucketCaps
<1> QED
  BY <1>6, <1>7, <1>8

\* Nothing in the buckets, nothing charged to anyone.
LEMMA EmptyKeepsCaps ==
  ASSUME tsBuckets = <<>>, tsPerTenant = [t \in TsTenants |-> 0]
  PROVE  BucketCaps
<1>1. DOMAIN tsBuckets = {} /\ Cardinality({}) = 0 /\ IsFiniteSet({})
  BY FS_EmptySet
<1>2. SeriesBuckets = {} /\ \A t \in TsTenants : OwnSeries(t) = {}
  BY <1>1 DEF SeriesBuckets, OwnSeries
<1> QED
  BY <1>1, <1>2, TsAssumption DEF BucketCaps

\* The buckets after a step.
LEMMA BucketCapsStep ==
  ASSUME BucketCaps, [TsNext]_tsVars
  PROVE  BucketCaps'
<1>1. ASSUME UNCHANGED <<tsBuckets, tsPerTenant>> PROVE BucketCaps'
  <2>1. SeriesBuckets' = SeriesBuckets /\ \A t \in TsTenants : OwnSeries(t)' = OwnSeries(t)
    BY <1>1 DEF SeriesBuckets, OwnSeries, AllOwn, OwnKeys, SeriesKey
  <2>2. Overflows' = Overflows
    BY DEF Overflows, TenantOverflow, GlobalOverflow
  <2> QED
    BY <1>1, <2>1, <2>2 DEF BucketCaps
<1>2. ASSUME NEW t \in TsTenants, NEW s \in TsSeries, NEW w, NEW now, Ingest(t, s, w, now) PROVE BucketCaps'
  BY <1>2, IngestKeepsCaps
<1>3. ASSUME SwapOut PROVE BucketCaps'
  <2>1. (tsBuckets = <<>> /\ tsPerTenant = [t \in TsTenants |-> 0] => BucketCaps)'
    BY EmptyKeepsCaps, PTL
  <2> QED
    BY <1>3, <2>1 DEF SwapOut
<1>4. ASSUME TickFlush \/ \E cancelled \in BOOLEAN : StopRun(cancelled) PROVE BucketCaps'
  BY <1>3, <1>4 DEF TickFlush, StopRun
<1>5. ASSUME \/ StartRun \/ FinalSend \/ RunDone \/ TsShutdown \/ TsShutdownReturns \/ UNCHANGED tsVars
             \/ \E w \in TsWorkers : WorkerTakes(w) \/ \E ok \in BOOLEAN : WorkerPersists(w, ok)
      PROVE  BucketCaps'
  BY <1>1, <1>5 DEF StartRun, FinalSend, RunDone, TsShutdown, TsShutdownReturns, WorkerTakes, WorkerPersists, tsVars
<1> QED
  BY <1>2, <1>4, <1>5 DEF TsNext

\* The rings after a step: a new series is refused at the cap.
LEMMA RingCapStep ==
  ASSUME RingCap, [TsNext]_tsVars
  PROVE  RingCap'
<1>1. ASSUME UNCHANGED tsRings PROVE RingCap'
  BY <1>1 DEF RingCap
<1>2. ASSUME NEW t \in TsTenants, NEW s \in TsSeries, NEW w, NEW now, Ingest(t, s, w, now) PROVE RingCap'
  <2> DEFINE k == SeriesKey(t, s)
  <2>1. RecordRing(k, w, now)
    BY <1>2 DEF Ingest
  <2> HIDE DEF k
  <2>2. \/ DOMAIN tsRings' = DOMAIN tsRings
        \/ /\ k \notin DOMAIN tsRings /\ ~ (TsRingMax > 0 /\ Cardinality(DOMAIN tsRings) >= TsRingMax)
           /\ DOMAIN tsRings' = DOMAIN tsRings \cup {k}
    BY <2>1 DEF RecordRing
  <2>3. /\ IsFiniteSet(DOMAIN tsRings \cup {k}) /\ Cardinality(DOMAIN tsRings) \in Nat /\ TsRingMax \in Nat
        /\ k \notin DOMAIN tsRings => Cardinality(DOMAIN tsRings \cup {k}) = Cardinality(DOMAIN tsRings) + 1
    BY FS_AddElement, FS_CardinalityType, TsAssumption DEF RingCap
  <2> QED
    BY <2>2, <2>3 DEF RingCap
<1>3. ASSUME \/ TickFlush \/ \E cancelled \in BOOLEAN : StopRun(cancelled)
             \/ StartRun \/ FinalSend \/ RunDone \/ TsShutdown \/ TsShutdownReturns \/ UNCHANGED tsVars
             \/ \E w \in TsWorkers : WorkerTakes(w) \/ \E ok \in BOOLEAN : WorkerPersists(w, ok)
      PROVE  RingCap'
  BY <1>1, <1>3 DEF TickFlush, StopRun, StartRun, FinalSend, RunDone, TsShutdown, TsShutdownReturns, WorkerTakes,
     WorkerPersists, tsVars
<1> QED
  BY <1>2, <1>3 DEF TsNext

\* The flush channel after a step.
LEMMA FlushChanStep ==
  ASSUME TsShapes, Len(tsChan) <= TsChanCap, [TsNext]_tsVars
  PROVE  Len(tsChan') <= TsChanCap
<1>0. tsChan \in Seq(SUBSET TsBucket) /\ Len(tsChan) \in Nat /\ TsChanCap \in Nat
  BY LenProperties, TsAssumption DEF TsShapes
<1>1. ASSUME NEW b, tsChan' = Append(tsChan, b), Len(tsChan) < TsChanCap PROVE Len(tsChan') <= TsChanCap
  <2>1. Len(Append(tsChan, b)) = Len(tsChan) + 1
    BY <1>0, LenProperties
  <2> QED
    BY <1>0, <1>1, <2>1
<1>2. ASSUME NEW w \in TsWorkers, WorkerTakes(w) PROVE Len(tsChan') <= TsChanCap
  <2>1. tsChan # <<>> /\ tsChan' = Tail(tsChan)
    BY <1>2 DEF WorkerTakes
  <2>2. Len(Tail(tsChan)) = Len(tsChan) - 1
    BY <1>0, <2>1, HeadTailProperties
  <2> QED
    BY <1>0, <2>1, <2>2
<1>3. ASSUME TickFlush \/ FinalSend PROVE Len(tsChan') <= TsChanCap
  <2>1. \/ tsChan' = tsChan
        \/ Len(tsChan) < TsChanCap /\ \E b : tsChan' = Append(tsChan, b)
    BY <1>3 DEF TickFlush, FinalSend
  <2> QED
    BY <1>1, <2>1
<1>4. ASSUME \/ \E t \in TsTenants, s \in TsSeries, w, now \in 0 .. TsMaxWindow : Ingest(t, s, w, now)
             \/ \E cancelled \in BOOLEAN : StopRun(cancelled)
             \/ StartRun \/ RunDone \/ TsShutdown \/ TsShutdownReturns \/ UNCHANGED tsVars
             \/ \E w \in TsWorkers, ok \in BOOLEAN : WorkerPersists(w, ok)
      PROVE  Len(tsChan') <= TsChanCap
  <2>1. tsChan' = tsChan
    BY <1>4 DEF Ingest, StopRun, StartRun, RunDone, TsShutdown, TsShutdownReturns, WorkerPersists, tsVars, tsPipe
  <2> QED
    BY <2>1
<1> QED
  BY <1>2, <1>3, <1>4 DEF TsNext

\* No order of points, flushes and Shutdown takes a tenant or the aggregator over its series
\* caps or lets seriesPerTenant drift from the buckets it counts: the two are reset together,
\* and overflow buckets are nobody's series (aggregator.go: Ingest, flush; ringbuffer.go: Record).
THEOREM TsdbKeepsCaps == TsSpec => []TsCaps
<1>1. TsInit => BucketCaps /\ RingCap /\ Len(tsChan) <= TsChanCap
  <2> SUFFICES ASSUME TsInit PROVE BucketCaps /\ RingCap /\ Len(tsChan) <= TsChanCap
    OBVIOUS
  <2>1. BucketCaps
    BY EmptyKeepsCaps DEF TsInit
  <2>2. DOMAIN tsRings = {} /\ Len(tsChan) = 0
    BY DEF TsInit
  <2> QED
    BY <2>1, <2>2, FS_EmptySet, TsAssumption DEF RingCap
<1>2. TsIInv /\ BucketCaps /\ RingCap /\ Len(tsChan) <= TsChanCap /\ [TsNext]_tsVars =>
        (BucketCaps /\ RingCap /\ Len(tsChan) <= TsChanCap)'
  BY BucketCapsStep, RingCapStep, FlushChanStep DEF TsIInv
<1>3. BucketCaps /\ RingCap /\ Len(tsChan) <= TsChanCap => TsCaps
  BY DEF BucketCaps, RingCap, TsCaps
<1> QED
  BY <1>1, <1>2, <1>3, TsInvariant, PTL DEF TsSpec

-------------------------------------------------------------------------------
(* GraphRAG.                                                               *)

GrEvent == [id : Nat, kind : {"span", "log"}, tenant : GrTenants]

Queued == {grChan[i].id : i \in DOMAIN grChan}
InHand == {grWorker[w].ev.id : w \in {x \in GrWorkers : grWorker[x].pc = "busy"}}

\* The channel, the workers and the barrier, as far as the proof needs them.
GrShapes ==
  /\ grChan \in Seq(GrEvent) /\ DOMAIN grWorker = GrWorkers
  /\ grCount \in [events : Nat, rows : Nat, gens : Nat]
  /\ grShut # "no" <=> grClosed

\* Without an error, what was admitted and not applied is queued or in a hand.
NoneLost == ~ grError => grAdmitted = grApplied \cup Queued \cup InHand

\* A worker leaves only a channel that is closed and empty, unless with an error.
GoneMeansEmpty ==
  ~ grError => \A w \in GrWorkers : grWorker[w].pc = "gone" => grClosed /\ grChan = <<>>

ReturnedClean ==
  grShut = "nil" => ~ grError /\ WorkersDone /\ grSaved = grMined

GrIInv == GrShapes /\ NoneLost /\ GoneMeansEmpty /\ ReturnedClean

\* An event is queued at the end and taken from the front.
LEMMA QueueIds ==
    ASSUME NEW q \in Seq(GrEvent)
    PROVE  /\ \A e \in GrEvent : {Append(q, e)[i].id : i \in DOMAIN Append(q, e)} =
                                   {q[i].id : i \in DOMAIN q} \cup {e.id}
           /\ q # <<>> => /\ Tail(q) \in Seq(GrEvent) /\ Head(q) \in GrEvent
                          /\ {q[i].id : i \in DOMAIN q} =
                               {Tail(q)[i].id : i \in DOMAIN Tail(q)} \cup {Head(q).id}
<1>1. ASSUME NEW e \in GrEvent
      PROVE  {Append(q, e)[i].id : i \in DOMAIN Append(q, e)} =
               {q[i].id : i \in DOMAIN q} \cup {e.id}
  <2>1. /\ DOMAIN q = 1 .. Len(q) /\ DOMAIN Append(q, e) = 1 .. (Len(q) + 1) /\ Len(q) \in Nat
        /\ \A i \in 1 .. Len(q) : Append(q, e)[i] = q[i]
        /\ Append(q, e)[Len(q) + 1] = e
    BY AppendProperties, LenProperties
  <2>2. \A i \in 1 .. (Len(q) + 1) : i \in 1 .. Len(q) \/ i = Len(q) + 1
    BY <2>1
  <2>3. Len(q) + 1 \in 1 .. (Len(q) + 1) /\ \A i \in 1 .. Len(q) : i \in 1 .. (Len(q) + 1)
    BY <2>1
  <2> QED BY <2>1, <2>2, <2>3
<1>2. ASSUME q # <<>>
      PROVE  /\ Tail(q) \in Seq(GrEvent) /\ Head(q) \in GrEvent
             /\ {q[i].id : i \in DOMAIN q} =
                  {Tail(q)[i].id : i \in DOMAIN Tail(q)} \cup {Head(q).id}
  <2>1. /\ Head(q) \in GrEvent /\ Tail(q) \in Seq(GrEvent) /\ Len(Tail(q)) = Len(q) - 1
        /\ \A i \in 1 .. Len(Tail(q)) : Tail(q)[i] = q[i + 1]
    BY <1>2, HeadTailProperties
  <2>2. /\ Len(q) \in Nat /\ Len(q) # 0 /\ Head(q) = q[1]
        /\ DOMAIN q = 1 .. Len(q) /\ DOMAIN Tail(q) = 1 .. (Len(q) - 1)
    BY <1>2, <2>1, LenProperties, EmptySeq
  <2>3. \A i \in 1 .. Len(q) : i = 1 \/ (i - 1 \in 1 .. (Len(q) - 1) /\ q[i] = Tail(q)[i - 1])
    BY <2>1, <2>2
  <2>4. \A i \in 1 .. (Len(q) - 1) : i + 1 \in 1 .. Len(q) /\ Tail(q)[i] = q[i + 1]
    BY <2>1, <2>2
  <2>5. 1 \in 1 .. Len(q)
    BY <2>2
  <2>6. \A i \in DOMAIN q : q[i].id \in {Tail(q)[j].id : j \in DOMAIN Tail(q)} \cup {Head(q).id}
    BY <2>2, <2>3
  <2>7. \A j \in DOMAIN Tail(q) : Tail(q)[j].id \in {q[i].id : i \in DOMAIN q}
    BY <2>2, <2>4
  <2>8. Head(q).id \in {q[i].id : i \in DOMAIN q}
    BY <2>2, <2>5
  <2> QED BY <2>1, <2>6, <2>7, <2>8
<1> QED BY <1>1, <1>2

\* Every action keeps the shapes.
LEMMA GrShapesStep ==
    ASSUME GrIInv, [GrNext]_grVars
    PROVE  GrShapes'
<1> USE DEF GrIInv
<1>0. ASSUME UNCHANGED <<grChan, grWorker, grCount, grShut, grClosed>> PROVE GrShapes'
  BY <1>0 DEF GrShapes
<1>1. CASE Tick
  BY <1>0, <1>1 DEF Tick, grGraph, grQueue, grLife
<1>2. CASE Shutdown
  BY <1>2 DEF Shutdown, grGraph, grQueue, grLife, GrShapes
<1>3. CASE ShutdownReturns
  BY <1>3 DEF ShutdownReturns, SaveDrainTemplates, grGraph, grQueue, grLife, GrShapes
<1>4. CASE ShutdownDeadline
  BY <1>4 DEF ShutdownDeadline, grGraph, grQueue, grLife, GrShapes
<1>5. CASE PersistTemplates
  BY <1>0, <1>5 DEF PersistTemplates, grGraph, grQueue, grLife
<1>6. ASSUME NEW t \in GrTenants, NEW kind \in {"span", "log"}, Enqueue(kind, t) PROVE GrShapes'
  <2>1. grCount' = [grCount EXCEPT !.events = grCount.events + 1]
    BY <1>6 DEF Enqueue
  <2>2. grCount' \in [events : Nat, rows : Nat, gens : Nat]
    BY <2>1 DEF GrShapes
  <2>3. [id |-> grCount.events + 1, kind |-> kind, tenant |-> t] \in GrEvent
    BY DEF GrEvent, GrShapes
  <2>4. grChan' \in Seq(GrEvent)
    <3> DEFINE e == [id |-> grCount.events + 1, kind |-> kind, tenant |-> t]
    <3>1. grChan' = Append(grChan, e) \/ grChan' = grChan
      BY <1>6 DEF Enqueue
    <3>2. e \in GrEvent /\ grChan \in Seq(GrEvent)
      BY <2>3 DEF GrShapes
    <3> HIDE DEF e
    <3> QED BY <3>1, <3>2, AppendProperties
  <2> QED BY <1>6, <2>2, <2>4 DEF Enqueue, GrShapes, grGraph, grQueue, grLife
<1>7. ASSUME NEW t \in GrTenants, NEW s \in Times, StoreRow(t, s) PROVE GrShapes'
  <2>1. grCount' \in [events : Nat, rows : Nat, gens : Nat]
    BY <1>7 DEF StoreRow, GrShapes
  <2> QED BY <1>7, <2>1 DEF StoreRow, GrShapes, grGraph, grQueue, grLife
<1>8. ASSUME NEW t \in GrTenants, Rebuild(t) PROVE GrShapes'
  <2>1. grCount' \in [events : Nat, rows : Nat, gens : Nat]
    BY <1>8 DEF Rebuild, Generations, GrShapes
  <2> QED BY <1>8, <2>1 DEF Rebuild, GrShapes, grGraph, grQueue, grLife
<1>9. ASSUME NEW t \in GrTenants, Prune(t) PROVE GrShapes'
  BY <1>0, <1>9 DEF Prune, grGraph, grQueue, grLife
<1>10. ASSUME NEW t \in GrTenants, Evict(t) PROVE GrShapes'
  BY <1>0, <1>10 DEF Evict, grGraph, grQueue, grLife
<1>11. ASSUME NEW w \in GrWorkers, Receive(w) PROVE GrShapes'
  <2>1. grCount' \in [events : Nat, rows : Nat, gens : Nat]
    <3>1. grCount' = Generations(Head(grChan).tenant)
      BY <1>11 DEF Receive
    <3> QED BY <3>1 DEF Generations, GrShapes
  <2>2. grChan' \in Seq(GrEvent)
    BY <1>11, QueueIds DEF Receive, GrShapes
  <2> QED BY <1>11, <2>1, <2>2 DEF Receive, SetWorker, GrShapes, grGraph, grQueue, grLife
<1>12. ASSUME NEW w \in GrWorkers, ProcessSpan(w) PROVE GrShapes'
  BY <1>12 DEF ProcessSpan, Finish, SetWorker, grGraph, grQueue, grLife, GrShapes
<1>13. ASSUME NEW w \in GrWorkers, ProcessLog(w) PROVE GrShapes'
  BY <1>13 DEF ProcessLog, Finish, SetWorker, grGraph, grQueue, grLife, GrShapes
<1>14. ASSUME NEW w \in GrWorkers, WorkerPanics(w) PROVE GrShapes'
  BY <1>14 DEF WorkerPanics, SetWorker, grGraph, grQueue, grLife, GrShapes
<1>15. ASSUME NEW w \in GrWorkers, WorkerStops(w) PROVE GrShapes'
  BY <1>15 DEF WorkerStops, SetWorker, Drained, grGraph, grQueue, grLife, GrShapes
<1>16. ASSUME NEW w \in GrWorkers, WorkerCancelled(w) PROVE GrShapes'
  BY <1>16 DEF WorkerCancelled, SetWorker, grGraph, grQueue, grLife, GrShapes
<1>17. CASE UNCHANGED grVars
  BY <1>0, <1>17 DEF grVars
<1> QED
  BY <1>1, <1>2, <1>3, <1>4, <1>5, <1>6, <1>7, <1>8, <1>9, <1>10, <1>11, <1>12, <1>13, <1>14,
     <1>15, <1>16, <1>17
     DEF GrNext

\* An admitted event is applied, queued, in a hand, or an error is on record.
LEMMA NoneLostStep ==
    ASSUME GrIInv, [GrNext]_grVars
    PROVE  NoneLost'
<1> USE DEF GrIInv
<1>0. ASSUME UNCHANGED <<grChan, grWorker, grAdmitted, grApplied, grError>> PROVE NoneLost'
  BY <1>0 DEF NoneLost, Queued, InHand
<1>1. CASE Tick
  BY <1>0, <1>1 DEF Tick, grGraph, grQueue, grLife
<1>2. CASE Shutdown
  BY <1>0, <1>2 DEF Shutdown, grGraph, grQueue, grLife
<1>3. CASE ShutdownReturns
  <2>1. UNCHANGED <<grChan, grWorker, grAdmitted, grApplied>>
    BY <1>3 DEF ShutdownReturns, grQueue
  <2>2. ~ grError' => ~ grError
    BY <1>3 DEF ShutdownReturns
  <2>3. Queued' = Queued /\ InHand' = InHand
    BY <2>1 DEF Queued, InHand
  <2> QED BY <2>1, <2>2, <2>3 DEF NoneLost
<1>4. CASE ShutdownDeadline
  BY <1>0, <1>4 DEF ShutdownDeadline, grGraph, grQueue, grLife
<1>5. CASE PersistTemplates
  BY <1>0, <1>5 DEF PersistTemplates, grGraph, grQueue, grLife
<1>6. ASSUME NEW t \in GrTenants, NEW kind \in {"span", "log"}, Enqueue(kind, t) PROVE NoneLost'
  <2>1. InHand' = InHand
    BY <1>6 DEF Enqueue, InHand
  <2>2. [id |-> grCount.events + 1, kind |-> kind, tenant |-> t] \in GrEvent
    BY DEF GrEvent, GrShapes
  <2>3. CASE Len(grChan) < GrChannel
    <3>1. /\ grChan' = Append(grChan, [id |-> grCount.events + 1, kind |-> kind, tenant |-> t])
          /\ grAdmitted' = grAdmitted \cup {grCount.events + 1}
          /\ UNCHANGED <<grApplied, grError>>
      BY <1>6, <2>3 DEF Enqueue
    <3>2. Queued' = Queued \cup {[id |-> grCount.events + 1, kind |-> kind, tenant |-> t].id}
      <4> DEFINE e == [id |-> grCount.events + 1, kind |-> kind, tenant |-> t]
      <4>1. e \in GrEvent /\ grChan' = Append(grChan, e) /\ grChan \in Seq(GrEvent)
        BY <2>2, <3>1 DEF GrShapes
      <4> HIDE DEF e
      <4>2. Queued' = Queued \cup {e.id}
        BY <4>1, QueueIds DEF Queued
      <4> QED BY <4>2 DEF e
    <3> QED BY <2>1, <3>1, <3>2 DEF NoneLost
  <2>4. CASE ~ (Len(grChan) < GrChannel)
    <3>1. UNCHANGED <<grChan, grWorker, grAdmitted, grApplied, grError>>
      BY <1>6, <2>4 DEF Enqueue
    <3> QED BY <1>0, <3>1
  <2> QED BY <2>3, <2>4
<1>7. ASSUME NEW t \in GrTenants, NEW s \in Times, StoreRow(t, s) PROVE NoneLost'
  BY <1>0, <1>7 DEF StoreRow, grGraph, grQueue, grLife
<1>8. ASSUME NEW t \in GrTenants, Rebuild(t) PROVE NoneLost'
  BY <1>0, <1>8 DEF Rebuild, grGraph, grQueue, grLife
<1>9. ASSUME NEW t \in GrTenants, Prune(t) PROVE NoneLost'
  BY <1>0, <1>9 DEF Prune, grGraph, grQueue, grLife
<1>10. ASSUME NEW t \in GrTenants, Evict(t) PROVE NoneLost'
  BY <1>0, <1>10 DEF Evict, grGraph, grQueue, grLife
<1>11. ASSUME NEW w \in GrWorkers, Receive(w) PROVE NoneLost'
  <2>1. /\ grChan # <<>> /\ grChan' = Tail(grChan) /\ UNCHANGED <<grAdmitted, grApplied, grError>>
        /\ grWorker[w].pc = "idle"
        /\ grWorker' = [grWorker EXCEPT ![w] = [pc |-> "busy", ev |-> Head(grChan),
                                                 gen |-> SliceOf(Head(grChan).tenant).gen]]
    BY <1>11 DEF Receive, SetWorker
  <2>2. Queued = Queued' \cup {Head(grChan).id}
    BY <2>1, QueueIds DEF Queued, GrShapes
  <2>3. InHand' = InHand \cup {Head(grChan).id}
    BY <2>1 DEF InHand, GrShapes
  <2> QED BY <2>1, <2>2, <2>3 DEF NoneLost
<1>12. ASSUME NEW w \in GrWorkers, ProcessSpan(w) PROVE NoneLost'
  <2>1. /\ UNCHANGED <<grChan, grAdmitted, grError>> /\ grWorker[w].pc = "busy"
        /\ grWorker' = [grWorker EXCEPT ![w] = IdleWorker]
        /\ grApplied' = grApplied \cup {grWorker[w].ev.id}
    BY <1>12 DEF ProcessSpan, Finish, SetWorker
  <2>2. /\ \A x \in GrWorkers : x # w => grWorker'[x] = grWorker[x]
        /\ grWorker'[w].pc = "idle"
    BY <2>1 DEF GrShapes, IdleWorker
  <2>3. InHand' \subseteq InHand /\ InHand \subseteq InHand' \cup {grWorker[w].ev.id}
        /\ grWorker[w].ev.id \in InHand
    BY <2>1, <2>2 DEF InHand
  <2>4. Queued' = Queued
    BY <2>1 DEF Queued
  <2> QED BY <2>1, <2>3, <2>4 DEF NoneLost
<1>13. ASSUME NEW w \in GrWorkers, ProcessLog(w) PROVE NoneLost'
  <2>1. /\ UNCHANGED <<grChan, grAdmitted, grError>> /\ grWorker[w].pc = "busy"
        /\ grWorker' = [grWorker EXCEPT ![w] = IdleWorker]
        /\ grApplied' = grApplied \cup {grWorker[w].ev.id}
    BY <1>13 DEF ProcessLog, Finish, SetWorker
  <2>2. /\ \A x \in GrWorkers : x # w => grWorker'[x] = grWorker[x]
        /\ grWorker'[w].pc = "idle"
    BY <2>1 DEF GrShapes, IdleWorker
  <2>3. InHand' \subseteq InHand /\ InHand \subseteq InHand' \cup {grWorker[w].ev.id}
        /\ grWorker[w].ev.id \in InHand
    BY <2>1, <2>2 DEF InHand
  <2>4. Queued' = Queued
    BY <2>1 DEF Queued
  <2> QED BY <2>1, <2>3, <2>4 DEF NoneLost
<1>14. ASSUME NEW w \in GrWorkers, WorkerPanics(w) PROVE NoneLost'
  BY <1>14 DEF WorkerPanics, NoneLost
<1>15. ASSUME NEW w \in GrWorkers, WorkerStops(w) PROVE NoneLost'
  <2>1. UNCHANGED <<grChan, grAdmitted, grApplied, grError>> /\ grWorker[w].pc = "idle"
        /\ grWorker' = [grWorker EXCEPT ![w] = [IdleWorker EXCEPT !.pc = "gone"]]
    BY <1>15 DEF WorkerStops, SetWorker, grQueue
  <2>2. /\ \A x \in GrWorkers : x # w => grWorker'[x] = grWorker[x]
        /\ grWorker'[w].pc = "gone"
    BY <2>1 DEF GrShapes, IdleWorker
  <2>3. InHand' = InHand
    BY <2>1, <2>2 DEF InHand
  <2> QED BY <2>1, <2>3 DEF NoneLost, Queued
<1>16. ASSUME NEW w \in GrWorkers, WorkerCancelled(w) PROVE NoneLost'
  BY <1>16 DEF WorkerCancelled, NoneLost
<1>17. CASE UNCHANGED grVars
  BY <1>0, <1>17 DEF grVars
<1> QED
  BY <1>1, <1>2, <1>3, <1>4, <1>5, <1>6, <1>7, <1>8, <1>9, <1>10, <1>11, <1>12, <1>13, <1>14,
     <1>15, <1>16, <1>17
     DEF GrNext

\* A worker leaves a closed and empty channel.
LEMMA GoneStep ==
    ASSUME GrIInv, [GrNext]_grVars
    PROVE  GoneMeansEmpty'
<1> USE DEF GrIInv
<1>0. ASSUME UNCHANGED <<grChan, grWorker, grClosed, grError>> PROVE GoneMeansEmpty'
  BY <1>0 DEF GoneMeansEmpty
<1>1. CASE Tick
  BY <1>0, <1>1 DEF Tick, grGraph, grQueue, grLife
<1>2. CASE Shutdown
  <2>1. UNCHANGED <<grChan, grWorker, grError>> /\ grClosed'
    BY <1>2 DEF Shutdown, grQueue
  <2> QED BY <2>1 DEF GoneMeansEmpty
<1>3. CASE ShutdownReturns
  <2>1. UNCHANGED <<grChan, grWorker, grClosed>>
    BY <1>3 DEF ShutdownReturns, grQueue
  <2>2. ~ grError' => ~ grError
    BY <1>3 DEF ShutdownReturns
  <2> QED BY <2>1, <2>2 DEF GoneMeansEmpty
<1>4. CASE ShutdownDeadline
  BY <1>0, <1>4 DEF ShutdownDeadline, grGraph, grQueue, grLife
<1>5. CASE PersistTemplates
  BY <1>0, <1>5 DEF PersistTemplates, grGraph, grQueue, grLife
<1>6. ASSUME NEW t \in GrTenants, NEW kind \in {"span", "log"}, Enqueue(kind, t)
      PROVE  GoneMeansEmpty'
  <2>1. ~ grClosed /\ UNCHANGED <<grWorker, grError>>
    BY <1>6 DEF Enqueue, Admits
  <2> QED BY <2>1 DEF GoneMeansEmpty
<1>7. ASSUME NEW t \in GrTenants, NEW s \in Times, StoreRow(t, s) PROVE GoneMeansEmpty'
  BY <1>0, <1>7 DEF StoreRow, grGraph, grQueue, grLife
<1>8. ASSUME NEW t \in GrTenants, Rebuild(t) PROVE GoneMeansEmpty'
  BY <1>0, <1>8 DEF Rebuild, grGraph, grQueue, grLife
<1>9. ASSUME NEW t \in GrTenants, Prune(t) PROVE GoneMeansEmpty'
  BY <1>0, <1>9 DEF Prune, grGraph, grQueue, grLife
<1>10. ASSUME NEW t \in GrTenants, Evict(t) PROVE GoneMeansEmpty'
  BY <1>0, <1>10 DEF Evict, grGraph, grQueue, grLife
<1>11. ASSUME NEW w \in GrWorkers, Receive(w) PROVE GoneMeansEmpty'
  <2>1. /\ \A x \in GrWorkers : x # w => grWorker'[x] = grWorker[x]
        /\ grWorker'[w].pc = "busy"
    BY <1>11 DEF Receive, SetWorker, GrShapes
  <2> QED BY <1>11, <2>1 DEF Receive, GoneMeansEmpty, grGraph, grQueue, grLife
<1>12. ASSUME NEW w \in GrWorkers, ProcessSpan(w) PROVE GoneMeansEmpty'
  <2>1. /\ \A x \in GrWorkers : x # w => grWorker'[x] = grWorker[x]
        /\ grWorker'[w].pc = "idle"
    BY <1>12 DEF ProcessSpan, Finish, SetWorker, IdleWorker, GrShapes
  <2> QED BY <1>12, <2>1 DEF ProcessSpan, GoneMeansEmpty, grGraph, grQueue, grLife
<1>13. ASSUME NEW w \in GrWorkers, ProcessLog(w) PROVE GoneMeansEmpty'
  <2>1. /\ \A x \in GrWorkers : x # w => grWorker'[x] = grWorker[x]
        /\ grWorker'[w].pc = "idle"
    BY <1>13 DEF ProcessLog, Finish, SetWorker, IdleWorker, GrShapes
  <2> QED BY <1>13, <2>1 DEF ProcessLog, GoneMeansEmpty, grGraph, grQueue, grLife
<1>14. ASSUME NEW w \in GrWorkers, WorkerPanics(w) PROVE GoneMeansEmpty'
  BY <1>14 DEF WorkerPanics, GoneMeansEmpty
<1>15. ASSUME NEW w \in GrWorkers, WorkerStops(w) PROVE GoneMeansEmpty'
  <2>1. /\ \A x \in GrWorkers : x # w => grWorker'[x] = grWorker[x]
        /\ grWorker'[w].pc = "gone"
    BY <1>15 DEF WorkerStops, Finish, SetWorker, IdleWorker, GrShapes
  <2> QED BY <1>15, <2>1 DEF WorkerStops, Drained, GoneMeansEmpty, grGraph, grQueue, grLife
<1>16. ASSUME NEW w \in GrWorkers, WorkerCancelled(w) PROVE GoneMeansEmpty'
  BY <1>16 DEF WorkerCancelled, GoneMeansEmpty
<1>17. CASE UNCHANGED grVars
  BY <1>0, <1>17 DEF grVars
<1> QED
  BY <1>1, <1>2, <1>3, <1>4, <1>5, <1>6, <1>7, <1>8, <1>9, <1>10, <1>11, <1>12, <1>13, <1>14,
     <1>15, <1>16, <1>17
     DEF GrNext

\* Nothing moves after a shutdown that returned without an error.
LEMMA ReturnedStep ==
    ASSUME GrIInv, [GrNext]_grVars
    PROVE  ReturnedClean'
<1> USE DEF GrIInv
<1>0. ASSUME UNCHANGED <<grShut, grError, grWorker, grSaved, grMined>> PROVE ReturnedClean'
  BY <1>0 DEF ReturnedClean, WorkersDone
<1>1. CASE Tick
  BY <1>0, <1>1 DEF Tick, grGraph, grQueue, grLife
<1>2. CASE Shutdown
  BY <1>2 DEF Shutdown, ReturnedClean
<1>3. CASE ShutdownReturns
  <2>1. PICK ok \in BOOLEAN : /\ SaveDrainTemplates(ok)
                               /\ grError' = (grError \/ ~ok)
                               /\ grShut' = IF grError' THEN "error" ELSE "nil"
    BY <1>3 DEF ShutdownReturns
  <2>2. WorkersDone /\ grWorker' = grWorker /\ grMined' = grMined
    BY <1>3 DEF ShutdownReturns, grQueue
  <2>3. grShut' = "nil" => ~ grError'
    BY <2>1
  <2>4. ~ grError' => ok
    BY <2>1
  <2>5. ok => grSaved' = grMined
    BY <2>1 DEF SaveDrainTemplates
  <2> QED BY <2>2, <2>3, <2>4, <2>5 DEF ReturnedClean, WorkersDone
<1>4. CASE ShutdownDeadline
  BY <1>4 DEF ShutdownDeadline, ReturnedClean
<1>5. CASE PersistTemplates
  <2>1. ~ grClosed /\ UNCHANGED grShut
    BY <1>5 DEF PersistTemplates
  <2> QED BY <2>1 DEF ReturnedClean, GrShapes
<1>6. ASSUME NEW t \in GrTenants, NEW kind \in {"span", "log"}, Enqueue(kind, t)
      PROVE  ReturnedClean'
  BY <1>6 DEF Enqueue, ReturnedClean, WorkersDone, grLife
<1>7. ASSUME NEW t \in GrTenants, NEW s \in Times, StoreRow(t, s) PROVE ReturnedClean'
  BY <1>0, <1>7 DEF StoreRow, grGraph, grQueue, grLife
<1>8. ASSUME NEW t \in GrTenants, Rebuild(t) PROVE ReturnedClean'
  BY <1>0, <1>8 DEF Rebuild, grGraph, grQueue, grLife
<1>9. ASSUME NEW t \in GrTenants, Prune(t) PROVE ReturnedClean'
  BY <1>0, <1>9 DEF Prune, grGraph, grQueue, grLife
<1>10. ASSUME NEW t \in GrTenants, Evict(t) PROVE ReturnedClean'
  BY <1>0, <1>10 DEF Evict, grGraph, grQueue, grLife
<1>11. ASSUME NEW w \in GrWorkers, Receive(w) PROVE ReturnedClean'
  <2>1. grWorker[w].pc # "gone" /\ UNCHANGED grShut
    BY <1>11 DEF Receive, grLife
  <2> QED BY <2>1 DEF ReturnedClean, WorkersDone
<1>12. ASSUME NEW w \in GrWorkers, ProcessSpan(w) PROVE ReturnedClean'
  <2>1. grWorker[w].pc # "gone" /\ UNCHANGED grShut
    BY <1>12 DEF ProcessSpan, grLife
  <2> QED BY <2>1 DEF ReturnedClean, WorkersDone
<1>13. ASSUME NEW w \in GrWorkers, ProcessLog(w) PROVE ReturnedClean'
  <2>1. grWorker[w].pc # "gone" /\ UNCHANGED grShut
    BY <1>13 DEF ProcessLog, grLife
  <2> QED BY <2>1 DEF ReturnedClean, WorkersDone
<1>14. ASSUME NEW w \in GrWorkers, WorkerPanics(w) PROVE ReturnedClean'
  <2>1. grWorker[w].pc # "gone" /\ UNCHANGED grShut
    BY <1>14 DEF WorkerPanics, grLife
  <2> QED BY <2>1 DEF ReturnedClean, WorkersDone
<1>15. ASSUME NEW w \in GrWorkers, WorkerStops(w) PROVE ReturnedClean'
  <2>1. grWorker[w].pc # "gone" /\ UNCHANGED grShut
    BY <1>15 DEF WorkerStops, grLife
  <2> QED BY <2>1 DEF ReturnedClean, WorkersDone
<1>16. ASSUME NEW w \in GrWorkers, WorkerCancelled(w) PROVE ReturnedClean'
  <2>1. grWorker[w].pc # "gone" /\ UNCHANGED grShut
    BY <1>16 DEF WorkerCancelled, grLife
  <2> QED BY <2>1 DEF ReturnedClean, WorkersDone
<1>17. CASE UNCHANGED grVars
  BY <1>0, <1>17 DEF grVars
<1> QED
  BY <1>1, <1>2, <1>3, <1>4, <1>5, <1>6, <1>7, <1>8, <1>9, <1>10, <1>11, <1>12, <1>13, <1>14,
     <1>15, <1>16, <1>17
     DEF GrNext

\* Graceful shutdown loses nothing: when it returns without an error, every event
\* the ingest was told is admitted has been processed, however many workers there
\* are and however they, the barrier, panics and cancellations interleave.
THEOREM ShutdownLosesNothing == GrSpec => []ShutdownProcessedAll
<1>1. GrInit => GrIInv
  <2> SUFFICES ASSUME GrInit PROVE GrIInv
    OBVIOUS
  <2>1. \A w \in GrWorkers : grWorker[w].pc = "idle"
    BY DEF GrInit, IdleWorker
  <2>2. grChan = <<>> /\ grChan \in Seq(GrEvent) /\ Queued = {}
    BY EmptySeq DEF GrInit, Queued
  <2>3. InHand = {}
    BY <2>1 DEF InHand
  <2>4. GrShapes
    BY <2>2 DEF GrInit, GrShapes
  <2>5. NoneLost
    BY <2>2, <2>3 DEF GrInit, NoneLost
  <2>6. GoneMeansEmpty /\ ReturnedClean
    BY <2>1 DEF GrInit, GoneMeansEmpty, ReturnedClean
  <2> QED BY <2>4, <2>5, <2>6 DEF GrIInv
<1>2. GrIInv /\ [GrNext]_grVars => GrIInv'
  BY GrShapesStep, NoneLostStep, GoneStep, ReturnedStep DEF GrIInv
<1>3. ASSUME GrIInv PROVE ShutdownProcessedAll
  <2> SUFFICES ASSUME grShut = "nil"
               PROVE  grApplied = grAdmitted /\ grChan = <<>> /\ grSaved = grMined
    BY DEF ShutdownProcessedAll
  <2>1. ~ grError /\ WorkersDone /\ grSaved = grMined
    BY <1>3 DEF GrIInv, ReturnedClean
  <2>2. PICK w \in GrWorkers : TRUE
    BY GrAssumption
  <2>3. grChan = <<>>
    BY <1>3, <2>1, <2>2 DEF GrIInv, GoneMeansEmpty, WorkersDone
  <2>4. Queued = {} /\ InHand = {}
    BY <2>1, <2>3 DEF Queued, InHand, WorkersDone
  <2> QED BY <1>3, <2>1, <2>3, <2>4 DEF GrIInv, NoneLost
<1> QED
  BY <1>1, <1>2, <1>3, PTL DEF GrSpec

-------------------------------------------------------------------------------
(* The broadcast hub.                                                      *)

\* A message for a client carries entries of its scope only; the state a fan-out
\* works on.
MsgFor(c) == [entries : Seq({e \in HbEntry : InScope(c, e)}), rev : Nat, reset : BOOLEAN]
AllMsgs == [entries : Seq(HbEntry), rev : Nat, reset : BOOLEAN]
Sent == {g \in [HbClients -> Seq(AllMsgs)] : \A c \in HbClients : g[c] \in Seq(MsgFor(c))}
Fans == [send : Sent, closed : [HbClients -> BOOLEAN], clients : SUBSET HbClients, panic : BOOLEAN]

\* Channels keep to the scopes of their clients, and nobody was told a revision
\* the hub has not announced.
HbInv ==
  /\ hbSend \in Sent
  /\ hbClosed \in [HbClients -> BOOLEAN]
  /\ hbClients \in SUBSET HbClients
  /\ hbChan \in [HbKinds -> Seq(HbEntry)]
  /\ hbBuf \in [HbKinds -> Seq(HbEntry)]
  /\ hbEngine \in Nat /\ hbPublished \in Nat
  /\ hbTold \in [HbClients -> Nat]
  /\ \A c \in HbClients : hbTold[c] <= hbPublished

\* A message of a scope is a message.
LEMMA ScopedAreMessages == \A c \in HbClients : MsgFor(c) \subseteq AllMsgs
<1> SUFFICES ASSUME NEW c \in HbClients, NEW x \in MsgFor(c) PROVE x \in AllMsgs
  OBVIOUS
<1>1. /\ x.entries \in Seq({e \in HbEntry : InScope(c, e)}) /\ x.rev \in Nat /\ x.reset \in BOOLEAN
      /\ x = [entries |-> x.entries, rev |-> x.rev, reset |-> x.reset]
  BY DEF MsgFor
<1>2. x.entries \in Seq(HbEntry)
  BY <1>1
<1> QED
  BY <1>1, <1>2 DEF AllMsgs

\* One more message of its scope for a client.
LEMMA MessagesFit ==
  ASSUME NEW c \in HbClients, NEW s \in Seq(MsgFor(c)), NEW m \in MsgFor(c)
  PROVE  Append(s, m) \in Seq(MsgFor(c)) /\ Append(s, m) \in Seq(AllMsgs) /\ s \in Seq(AllMsgs)
<1>1. MsgFor(c) \subseteq AllMsgs
  BY ScopedAreMessages
<1>2. Append(s, m) \in Seq(MsgFor(c))
  BY AppendProperties
<1>3. ASSUME NEW t \in Seq(MsgFor(c)) PROVE t \in Seq(AllMsgs)
  BY <1>1
<1> QED
  BY <1>2, <1>3

\* A fan-out of messages that keep to the scopes keeps the channels to theirs.
LEMMA SendsSound ==
  ASSUME NEW f \in Fans, NEW cs \in SUBSET HbClients, NEW msgs,
         \A c \in HbClients : msgs[c] \in MsgFor(c)
  PROVE  Sends(f, cs, msgs) \in Fans
<1>1. CASE f.panic \/ \E c \in cs : f.closed[c]
  BY <1>1 DEF Sends, Fans
<1>2. CASE ~ (f.panic \/ \E c \in cs : f.closed[c])
  <2> DEFINE slow == {c \in cs : Len(f.send[c]) >= HbSendCap}
             send == [c \in HbClients |-> IF c \in cs \ slow THEN Append(f.send[c], msgs[c])
                                                             ELSE f.send[c]]
             closed == [c \in HbClients |-> f.closed[c] \/ c \in slow]
  <2>1. /\ f.send \in Sent /\ f.closed \in [HbClients -> BOOLEAN] /\ f.clients \in SUBSET HbClients
        /\ f.panic \in BOOLEAN
    BY DEF Fans
  <2>2. send \in Sent
    <3>1. \A c \in HbClients : f.send[c] \in Seq(MsgFor(c)) /\ f.send[c] \in Seq(AllMsgs)
      BY <2>1 DEF Sent
    <3>2. \A c \in HbClients : /\ Append(f.send[c], msgs[c]) \in Seq(MsgFor(c))
                               /\ Append(f.send[c], msgs[c]) \in Seq(AllMsgs)
      BY <3>1, MessagesFit
    <3> HIDE DEF slow
    <3> QED
      BY <3>1, <3>2 DEF Sent
  <2>3. closed \in [HbClients -> BOOLEAN]
    BY <2>1
  <2>4. Sends(f, cs, msgs) = [f EXCEPT !.send = send, !.closed = closed, !.clients = f.clients \ slow]
    BY <1>2 DEF Sends
  <2> HIDE DEF slow, send, closed
  <2> QED
    BY <2>1, <2>2, <2>3, <2>4 DEF Fans
<1> QED
  BY <1>1, <1>2

\* One batch, filtered for each client, keeps to the scopes.
LEMMA BroadcastSound ==
  ASSUME NEW f \in Fans, NEW es \in Seq(HbEntry)
  PROVE  BroadcastTagged(f, es) \in Fans
<1> DEFINE msgs == [c \in HbClients |-> [entries |-> ForScope(c, es), rev |-> 0, reset |-> FALSE]]
           cs == {c \in f.clients : msgs[c].entries # <<>>}
<1>1. \A c \in HbClients : ForScope(c, es) \in Seq({e \in HbEntry : InScope(c, e)})
  BY SelectedWithin DEF ForScope
<1>2. \A c \in HbClients : msgs[c] \in MsgFor(c)
  BY <1>1 DEF MsgFor
<1>3. cs \in SUBSET HbClients
  BY DEF Fans
<1>4. BroadcastTagged(f, es) = Sends(f, cs, msgs)
  BY DEF BroadcastTagged
<1> HIDE DEF cs, msgs
<1> QED
  BY <1>2, <1>3, <1>4, SendsSound

\* So do the two batches of a flush.
LEMMA FlushedSound ==
  ASSUME HbInv, NEW bufs \in [HbKinds -> Seq(HbEntry)]
  PROVE  Fan \in Fans /\ Flushed(bufs) \in Fans
<1>1. Fan \in Fans
  BY DEF Fan, Fans, HbInv
<1>2. bufs["logs"] \in Seq(HbEntry) /\ bufs["metrics"] \in Seq(HbEntry)
  BY DEF HbKinds
<1> QED
  BY <1>1, <1>2, BroadcastSound DEF Flushed

\* A fan-out that keeps to the scopes leaves the channels so.
LEMMA AppliedSound ==
  ASSUME NEW f \in Fans, Apply(f)
  PROVE  hbSend' \in Sent /\ hbClosed' \in [HbClients -> BOOLEAN] /\ hbClients' \in SUBSET HbClients
BY DEF Apply, Fans

\* No announcement goes back.
Forward == \A c \in HbClients : hbTold'[c] >= hbTold[c]

\* Every step of the hub keeps the invariant, and none goes back.
LEMMA HubStep ==
  ASSUME HbInv, HbNext
  PROVE  HbInv' /\ Forward
<1> USE DEF Forward
<1>0. \A c \in HbClients : hbTold[c] \in Nat
  BY DEF HbInv
<1>1. ASSUME UNCHANGED <<hbSend, hbTopoVars>>, UNCHANGED <<hbClosed, hbClients, hbChan, hbBuf>>
      PROVE  HbInv' /\ Forward
  BY <1>0, <1>1 DEF HbInv, hbTopoVars
<1>2. ASSUME NEW f \in Fans, Apply(f), UNCHANGED hbTopoVars,
             hbChan' \in [HbKinds -> Seq(HbEntry)], hbBuf' \in [HbKinds -> Seq(HbEntry)]
      PROVE  HbInv' /\ Forward
  BY <1>0, <1>2, AppliedSound DEF HbInv, hbTopoVars
<1>3. ASSUME NEW c \in HbClients, NEW s \in Seq(MsgFor(c)), hbSend' = [hbSend EXCEPT ![c] = s],
             UNCHANGED <<hbTopoVars, hbChan, hbBuf>>, hbClients' \subseteq HbClients,
             hbClosed' \in [HbClients -> BOOLEAN]
      PROVE  HbInv' /\ Forward
  <2>1. hbSend' \in Sent
    <3>1. s \in Seq(AllMsgs)
      <4>1. MsgFor(c) \subseteq AllMsgs
        BY ScopedAreMessages
      <4> QED
        BY <4>1
    <3> QED
      BY <1>3, <3>1 DEF HbInv, Sent
  <2> QED
    BY <1>0, <1>3, <2>1 DEF HbInv, hbTopoVars
<1>4. ASSUME NEW c \in HbClients, hbClosed' = [hbClosed EXCEPT ![c] = TRUE],
             UNCHANGED <<hbSend, hbTopoVars, hbClients, hbChan, hbBuf>>
      PROVE  HbInv' /\ Forward
  BY <1>0, <1>4 DEF HbInv, hbTopoVars
<1>5. \A c \in HbClients : hbSend[c] \in Seq(MsgFor(c))
  BY DEF HbInv, Sent
<1>6. [k \in HbKinds |-> <<>>] \in [HbKinds -> Seq(HbEntry)]
  BY EmptySeq
<1>7. ASSUME NEW c \in HbClients,
             NotAccepted(c) \/ AdmitWriter(c) \/ RegisterRefused(c) \/ WriterDrained(c) \/ Arrive(c)
      PROVE  HbInv' /\ Forward
  BY <1>1, <1>7 DEF NotAccepted, AdmitWriter, RegisterRefused, WriterDrained, Arrive
<1>8. ASSUME NEW c \in HbClients, ReaderEnds(c) PROVE HbInv' /\ Forward
  BY <1>4, <1>8 DEF ReaderEnds
<1>9. ASSUME NEW c \in HbClients, HbWrite(c) PROVE HbInv' /\ Forward
  <2>1. Tail(hbSend[c]) \in Seq(MsgFor(c))
    BY <1>5, <1>9, HeadTailProperties DEF HbWrite
  <2> QED
    BY <1>3, <1>9, <2>1 DEF HbWrite, HbInv
<1>10. ASSUME NEW c \in HbClients, UnregisterAbandoned(c) \/ Unregister(c) PROVE HbInv' /\ Forward
  <2>1. <<>> \in Seq(MsgFor(c))
    BY EmptySeq
  <2>2. WriterDone(c) /\ UNCHANGED <<hbTopoVars, hbChan, hbBuf>> /\ hbClients' \subseteq HbClients
    BY <1>10 DEF UnregisterAbandoned, Unregister, HbInv
  <2>3. hbClosed' \in [HbClients -> BOOLEAN]
    BY <2>2 DEF WriterDone, HbInv
  <2> QED
    BY <1>3, <2>1, <2>2, <2>3 DEF WriterDone
<1>11. ASSUME NEW c \in HbClients, Register(c) PROVE HbInv' /\ Forward
  <2>1. hbClients' \subseteq HbClients /\ UNCHANGED <<hbClosed, hbChan, hbBuf, hbEngine>>
    BY <1>11 DEF Register, HbInv
  <2>2. CASE UNCHANGED <<hbSend, hbPublished, hbTold>>
    BY <1>0, <2>1, <2>2 DEF HbInv
  <2>3. ASSUME NEW r \in 1 .. hbEngine, NEW rev,
               rev = IF r < hbPublished THEN hbPublished ELSE r,
               hbSend' = [hbSend EXCEPT ![c] = Append(@, Refresh(rev, TRUE))],
               hbPublished' = rev, hbTold' = [hbTold EXCEPT ![c] = rev]
        PROVE  HbInv' /\ Forward
    <3>1. rev \in Nat /\ rev >= hbPublished
      BY <2>3 DEF HbInv
    <3>2. <<>> \in Seq({e \in HbEntry : InScope(c, e)})
      BY EmptySeq
    <3>3. Refresh(rev, TRUE) \in MsgFor(c)
      BY <3>1, <3>2 DEF Refresh, MsgFor
    <3>4. /\ Append(hbSend[c], Refresh(rev, TRUE)) \in Seq(MsgFor(c))
          /\ Append(hbSend[c], Refresh(rev, TRUE)) \in Seq(AllMsgs)
      BY <1>5, <3>3, MessagesFit
    <3>5. hbSend' \in Sent
      BY <2>3, <3>4 DEF HbInv, Sent
    <3>6. hbTold' \in [HbClients -> Nat] /\ \A d \in HbClients : hbTold'[d] <= hbPublished'
      BY <1>0, <2>3, <3>1 DEF HbInv
    <3>7. Forward
      BY <1>0, <2>3, <3>1 DEF HbInv
    <3> QED
      BY <2>1, <2>3, <3>1, <3>5, <3>6, <3>7 DEF HbInv
  <2> QED
    BY <1>11, <2>2, <2>3 DEF Register
<1>12. ASSUME NEW k \in HbKinds, NEW t \in HbTenants, Broadcast(k, t) PROVE HbInv' /\ Forward
  <2>1. [tenant |-> t] \in HbEntry
    BY DEF HbEntry
  <2>2. Append(hbChan[k], [tenant |-> t]) \in Seq(HbEntry)
    BY <2>1, AppendProperties DEF HbInv
  <2>3. hbChan' \in [HbKinds -> Seq(HbEntry)]
    BY <1>12, <2>2 DEF Broadcast, HbInv
  <2> QED
    BY <1>0, <1>12, <2>3 DEF Broadcast, HbInv, hbTopoVars, hbConnVars
<1>13. ASSUME NEW k \in HbKinds, Buffer(k) PROVE HbInv' /\ Forward
  <2> DEFINE bufs == [hbBuf EXCEPT ![k] = Append(@, Head(hbChan[k]))]
  <2>1. hbChan[k] \in Seq(HbEntry) /\ hbChan[k] # <<>> /\ hbBuf[k] \in Seq(HbEntry)
    BY <1>13 DEF Buffer, HbInv
  <2>2. Head(hbChan[k]) \in HbEntry /\ Tail(hbChan[k]) \in Seq(HbEntry)
    BY <2>1, HeadTailProperties
  <2>3. Append(hbBuf[k], Head(hbChan[k])) \in Seq(HbEntry)
    BY <2>1, <2>2, AppendProperties
  <2>4. bufs \in [HbKinds -> Seq(HbEntry)]
    BY <2>3 DEF HbInv
  <2>5. hbChan' \in [HbKinds -> Seq(HbEntry)] /\ UNCHANGED hbTopoVars
    BY <1>13, <2>2 DEF Buffer, HbInv
  <2>6. \/ Apply(Flushed(bufs)) /\ hbBuf' = [j \in HbKinds |-> <<>>]
        \/ Apply(Fan) /\ hbBuf' = bufs
    BY <1>13 DEF Buffer
  <2> HIDE DEF bufs
  <2>7. Fan \in Fans /\ Flushed(bufs) \in Fans
    BY <2>4, FlushedSound
  <2> QED
    BY <1>2, <1>6, <2>4, <2>5, <2>6, <2>7
<1>14. ASSUME FlushTick PROVE HbInv' /\ Forward
  <2>1. hbBuf \in [HbKinds -> Seq(HbEntry)] /\ hbChan \in [HbKinds -> Seq(HbEntry)]
    BY DEF HbInv
  <2>2. Flushed(hbBuf) \in Fans
    BY <2>1, FlushedSound
  <2>3. Apply(Flushed(hbBuf)) /\ UNCHANGED <<hbTopoVars, hbChan>> /\ hbBuf' = [k \in HbKinds |-> <<>>]
    BY <1>14 DEF FlushTick
  <2> QED
    BY <1>2, <1>6, <2>1, <2>2, <2>3
<1>15. ASSUME RunStops PROVE HbInv' /\ Forward
  <2>1. hbBuf \in [HbKinds -> Seq(HbEntry)] /\ hbChan \in [HbKinds -> Seq(HbEntry)]
    BY DEF HbInv
  <2>2. PICK f \in Fans : f = Flushed(hbBuf)
    BY <2>1, FlushedSound
  <2> DEFINE g == [f EXCEPT !.closed = [c \in HbClients |-> @[c] \/ c \in f.clients]]
  <2>3. /\ Apply(g) /\ UNCHANGED <<hbTopoVars, hbChan>>
        /\ hbBuf' = [k \in HbKinds |-> <<>>]
    BY <1>15, <2>2 DEF RunStops
  <2>4. g \in Fans
    BY DEF Fans
  <2> HIDE DEF g
  <2> QED
    BY <1>2, <1>6, <2>1, <2>3, <2>4
<1>16. ASSUME PublishTopology PROVE HbInv' /\ Forward
  <2>1. PICK r \in 1 .. hbEngine :
          /\ ~ StaleRender(r)
          /\ hbPublished' = r
          /\ Apply(Sends(Fan, hbClients, [c \in HbClients |-> Refresh(r, FALSE)]))
          /\ hbTold' = [c \in HbClients |-> IF hbSend'[c] # hbSend[c] THEN r ELSE hbTold[c]]
    BY <1>16 DEF PublishTopology
  <2>2. r \in Nat /\ r >= hbPublished
    BY <2>1 DEF StaleRender, HbInv
  <2> DEFINE msgs == [c \in HbClients |-> Refresh(r, FALSE)]
  <2>3. \A c \in HbClients : msgs[c] \in MsgFor(c)
    <3>1. \A c \in HbClients : <<>> \in Seq({e \in HbEntry : InScope(c, e)})
      BY EmptySeq
    <3> QED
      BY <2>2, <3>1 DEF MsgFor, Refresh
  <2>4. Fan \in Fans /\ hbClients \in SUBSET HbClients
    BY DEF HbInv, Fan, Fans
  <2> HIDE DEF msgs
  <2>5. Sends(Fan, hbClients, msgs) \in Fans
    BY <2>3, <2>4, SendsSound
  <2>6. /\ hbSend' \in Sent /\ hbClosed' \in [HbClients -> BOOLEAN]
        /\ hbClients' \in SUBSET HbClients
    BY <2>1, <2>5, AppliedSound DEF msgs
  <2>7. UNCHANGED <<hbChan, hbBuf, hbEngine>>
    BY <1>16 DEF PublishTopology
  <2>8. /\ hbTold' \in [HbClients -> Nat] /\ \A c \in HbClients : hbTold'[c] <= hbPublished'
        /\ \A c \in HbClients : hbTold'[c] >= hbTold[c]
    BY <1>0, <2>1, <2>2 DEF HbInv
  <2> QED
    BY <2>1, <2>2, <2>6, <2>7, <2>8 DEF HbInv
<1>17. ASSUME EngineMoves PROVE HbInv' /\ Forward
  BY <1>0, <1>17 DEF EngineMoves, HbInv, hbConnVars
<1>18. ASSUME HbStartRun \/ StopBegins \/ StopSignals \/ StopWaits PROVE HbInv' /\ Forward
  BY <1>1, <1>18 DEF HbStartRun, StopBegins, StopSignals, StopWaits, hbConnVars
<1> QED
  BY <1>7, <1>8, <1>9, <1>10, <1>11, <1>12, <1>13, <1>14, <1>15, <1>16, <1>17, <1>18
     DEF HbNext, HbProgress

\* The hub starts with empty channels and nobody told anything.
LEMMA HubStarts == HbInit => HbInv
<1> SUFFICES ASSUME HbInit PROVE HbInv
  OBVIOUS
<1>1. hbSend \in Sent
  <2>1. \A c \in HbClients : <<>> \in Seq(MsgFor(c)) /\ <<>> \in Seq(AllMsgs)
    BY EmptySeq
  <2> QED
    BY <2>1 DEF HbInit, HbInitIn, Sent
<1>2. <<>> \in Seq(HbEntry)
  BY EmptySeq
<1> QED
  BY <1>1, <1>2 DEF HbInit, HbInitIn, HbInv

\* What the hub tells a client never goes back and never leaves its scope, for
\* every number of clients, every capacity and every interleaving of registrations,
\* flushes, publications and Stop.
THEOREM HubTellsInOrder == HbSpec => ToldInOrder
<1>1. HbInit => HbInv
  BY HubStarts
<1>2. HbInv /\ [HbNext]_hbVars => HbInv'
  <2>1. HbInv /\ UNCHANGED hbVars => HbInv'
    BY DEF HbInv, hbVars, hbConnVars, hbTopoVars
  <2> QED
    BY <2>1, HubStep
<1> DEFINE Told ==
      \A c \in HbClients :
        /\ hbTold'[c] >= hbTold[c]
        /\ \A i \in DOMAIN hbSend'[c] :
             \A j \in DOMAIN hbSend'[c][i].entries : InScope(c, hbSend'[c][i].entries[j])
<1>3. HbInv /\ [HbNext]_hbVars => [Told]_hbVars
  <2> SUFFICES ASSUME HbInv, HbNext PROVE Told
    OBVIOUS
  <2>1. HbInv' /\ Forward
    BY HubStep
  <2> SUFFICES ASSUME NEW c \in HbClients, NEW i \in DOMAIN hbSend'[c],
                      NEW j \in DOMAIN hbSend'[c][i].entries
               PROVE  InScope(c, hbSend'[c][i].entries[j])
    BY <2>1 DEF Forward
  <2>2. hbSend'[c] \in Seq(MsgFor(c))
    BY <2>1 DEF HbInv, Sent
  <2>3. hbSend'[c][i] \in MsgFor(c)
    BY <2>2, ElementOfSeq, LenProperties
  <2>4. hbSend'[c][i].entries \in Seq({e \in HbEntry : InScope(c, e)})
    BY <2>3 DEF MsgFor
  <2>5. hbSend'[c][i].entries[j] \in {e \in HbEntry : InScope(c, e)}
    BY <2>4, ElementOfSeq, LenProperties
  <2> QED
    BY <2>5
<1> QED
  BY <1>1, <1>2, <1>3, PTL DEF HbSpec, ToldInOrder

-------------------------------------------------------------------------------
(* Stopping the hub.                                                       *)

\* The connections Stop has to see the end of: admitted and not yet registered,
\* or with a writer that has not left.
Awaited == {c \in HbClients : hbHandler[c] = "admitted" \/ hbWriter[c] \in {"run", "exit"}}

\* A step of Stop, the run loop, a handler or a writer can be taken: each
\* disjunct is the whole guard of the action it names.
StopHasAStep ==
  \/ hbStop = "closing"                                             \* StopSignals
  \/ Running /\ StopChClosed                                        \* RunStops
  \/ hbStop = "stopping" /\ hbRun = "done"                          \* StopWaits
  \/ hbStop = "waiting" /\ hbWg = 0                                 \* StopWaits
  \/ \E c \in HbClients :
       \/ hbHandler[c] = "admitted" /\ StopChClosed                 \* RegisterRefused
       \/ hbWriter[c] = "run" /\ hbSend[c] # <<>>                   \* HbWrite
       \/ hbWriter[c] = "run" /\ hbSend[c] = <<>> /\ hbClosed[c]    \* WriterDrained
       \/ hbWriter[c] = "exit" /\ StopChClosed                      \* UnregisterAbandoned

\* writerWg counts the awaited connections, Stop always has a step until it
\* returned, and once it returned nobody is left.
StopSound ==
  /\ hbWg = Cardinality(Awaited)
  /\ hbStop \notin {"no", "done"} /\ ~ hbPanic => StopHasAStep
  /\ hbStop = "done" => Awaited = {}

\* Where the goroutines can be.
Places ==
  /\ hbHandler \in [HbClients -> {"out", "refused", "counted", "admitted", "reading", "gone"}]
  /\ hbWriter \in [HbClients -> {"none", "run", "exit", "done"}]
  /\ hbClosed \in [HbClients -> BOOLEAN]
  /\ hbClients \in SUBSET HbClients
  /\ hbRun \in {"new", "running", "done"}
  /\ hbStop \in {"no", "closing", "stopping", "waiting", "done"}

\* A writer starts with the registration, not before, and the loop registers.
NotYetWriting ==
  \A c \in HbClients :
    hbHandler[c] \in {"out", "refused", "counted", "admitted"} \/ hbRun = "new" => hbWriter[c] = "none"

\* What Stop has reached tells where the run loop is.
StopAndRun ==
  /\ hbRun = "done" => StopChClosed
  /\ StopChClosed => hbRun # "new"
  /\ hbStop \in {"waiting", "done"} => hbRun = "done"

\* The loop knows every client whose channel is open, and leaves none open.
OpenAreKnown ==
  ~ hbPanic => \A c \in HbClients :
                 hbWriter[c] = "run" => hbClosed[c] \/ (c \in hbClients /\ hbRun # "done")

WaitsForThem == hbWg = Cardinality(Awaited) /\ (hbStop = "done" => Awaited = {})

StInv == Places /\ NotYetWriting /\ StopAndRun /\ OpenAreKnown /\ WaitsForThem

\* What a fan-out leaves, unless it panicked: a closed channel stays closed, and
\* a client the loop dropped has its channel closed.
FanKept(f, g) ==
  ~ g.panic => /\ ~ f.panic
               /\ \A c \in HbClients : /\ f.closed[c] => g.closed[c]
                                       /\ c \in f.clients => c \in g.clients \/ g.closed[c]

\* Queueing a message for some clients drops none without closing its channel.
LEMMA SendsKeep ==
  ASSUME NEW f \in Fans, NEW cs \in SUBSET HbClients, NEW msgs
  PROVE  FanKept(f, Sends(f, cs, msgs))
<1>0. /\ f.closed \in [HbClients -> BOOLEAN] /\ f.clients \in SUBSET HbClients /\ f.panic \in BOOLEAN
      /\ f = [send |-> f.send, closed |-> f.closed, clients |-> f.clients, panic |-> f.panic]
  BY DEF Fans
<1>1. CASE f.panic \/ \E c \in cs : f.closed[c]
  <2>1. Sends(f, cs, msgs).panic = TRUE
    BY <1>0, <1>1 DEF Sends
  <2> QED
    BY <2>1 DEF FanKept
<1>2. CASE ~ (f.panic \/ \E c \in cs : f.closed[c])
  <2> DEFINE slow == {c \in cs : Len(f.send[c]) >= HbSendCap}
             send == [c \in HbClients |-> IF c \in cs \ slow THEN Append(f.send[c], msgs[c])
                                                             ELSE f.send[c]]
             closed == [c \in HbClients |-> f.closed[c] \/ c \in slow]
  <2>1. Sends(f, cs, msgs) = [f EXCEPT !.send = send, !.closed = closed, !.clients = f.clients \ slow]
    BY <1>2 DEF Sends
  <2>2. \A c \in HbClients : closed[c] = (f.closed[c] \/ c \in slow)
    OBVIOUS
  <2> HIDE DEF slow, send, closed
  <2>3. Sends(f, cs, msgs) = [send |-> send, closed |-> closed, clients |-> f.clients \ slow, panic |-> f.panic]
    BY <1>0, <2>1
  <2> DEFINE g == Sends(f, cs, msgs)
  <2>4. g.closed = closed /\ g.clients = f.clients \ slow /\ g.panic = f.panic
    BY <2>3
  <2> HIDE DEF g
  <2>5. \A c \in HbClients : /\ f.closed[c] => g.closed[c]
                             /\ c \in f.clients => c \in g.clients \/ g.closed[c]
    BY <1>0, <2>2, <2>4
  <2>6. FanKept(f, g)
    BY <1>2, <2>5 DEF FanKept
  <2> QED
    BY <2>6 DEF g
<1> QED
  BY <1>1, <1>2

\* Nor does a batch.
LEMMA BroadcastKeeps ==
  ASSUME NEW f \in Fans, NEW es \in Seq(HbEntry)
  PROVE  FanKept(f, BroadcastTagged(f, es))
<1> DEFINE msgs == [c \in HbClients |-> [entries |-> ForScope(c, es), rev |-> 0, reset |-> FALSE]]
           cs == {c \in f.clients : msgs[c].entries # <<>>}
<1>1. cs \in SUBSET HbClients
  BY DEF Fans
<1>2. BroadcastTagged(f, es) = Sends(f, cs, msgs)
  BY DEF BroadcastTagged
<1> HIDE DEF cs, msgs
<1> QED
  BY <1>1, <1>2, SendsKeep

\* Nor does a flush of both buffers.
LEMMA FlushedKeeps ==
  ASSUME HbInv, NEW bufs \in [HbKinds -> Seq(HbEntry)]
  PROVE  FanKept(Fan, Flushed(bufs))
<1>1. Fan \in Fans
  BY DEF Fan, Fans, HbInv
<1>2. bufs["logs"] \in Seq(HbEntry) /\ bufs["metrics"] \in Seq(HbEntry)
  BY DEF HbKinds
<1> DEFINE g == BroadcastTagged(Fan, bufs["logs"])
           h == BroadcastTagged(g, bufs["metrics"])
<1>3. g \in Fans /\ FanKept(Fan, g)
  BY <1>1, <1>2, BroadcastSound, BroadcastKeeps
<1> HIDE DEF g
<1>4. FanKept(g, h)
  BY <1>2, <1>3, BroadcastKeeps
<1>5. Flushed(bufs) = h
  BY DEF Flushed, g
<1> HIDE DEF h
<1> QED
  BY <1>3, <1>4, <1>5 DEF FanKept

\* So the loop still knows every open channel when the fan-out took effect.
LEMMA AppliedKnows ==
  ASSUME StInv, ~ hbPanic, NEW f \in Fans, FanKept(Fan, f), Apply(f), hbWriter' = hbWriter, hbRun' = hbRun
  PROVE  OpenAreKnown'
<1>1. /\ hbPanic' = f.panic /\ hbClosed' = f.closed /\ hbClients' = f.clients
  BY DEF Apply
<1>2. Fan.closed = hbClosed /\ Fan.clients = hbClients
  BY DEF Fan
<1> SUFFICES ASSUME ~ f.panic, NEW c \in HbClients, hbWriter[c] = "run"
             PROVE  f.closed[c] \/ (c \in f.clients /\ hbRun # "done")
  BY <1>1 DEF OpenAreKnown
<1>3. hbClosed[c] \/ (c \in hbClients /\ hbRun # "done")
  BY DEF StInv, OpenAreKnown
<1> QED
  BY <1>2, <1>3 DEF FanKept

\* The awaited connections are finitely many.
LEMMA AwaitedFinite == IsFiniteSet(Awaited) /\ Cardinality(Awaited) \in Nat
<1>1. Awaited \subseteq HbClients
  BY DEF Awaited
<1> QED
  BY <1>1, HbAssumption, FS_Subset, FS_CardinalityType

\* One connection fewer to wait for.
LEMMA OneLessAwaited ==
  ASSUME StInv, NEW c \in Awaited, Awaited' = Awaited \ {c}, hbWg' = hbWg - 1, hbStop' = hbStop
  PROVE  WaitsForThem'
<1>1. Cardinality(Awaited \ {c}) = Cardinality(Awaited) - 1
  BY AwaitedFinite, FS_RemoveElement
<1>2. hbWg' = Cardinality(Awaited') /\ (hbStop = "done" => Awaited = {})
  BY <1>1 DEF StInv, WaitsForThem
<1> QED
  BY <1>2 DEF WaitsForThem

\* A step that moves neither handlers nor writers nor the writer group.
LEMMA SameAwaited ==
  ASSUME UNCHANGED <<hbHandler, hbWriter>>
  PROVE  Awaited' = Awaited
BY DEF Awaited

\* From the time Stop begins, it waits for fewer and fewer connections.
Drains == hbStop # "no" => Awaited' \subseteq Awaited

\* The steps of one connection.
LEMMA StConnStep ==
  ASSUME HbInv, StInv, ~ hbPanic, NEW c \in HbClients,
         \/ NotAccepted(c) \/ AdmitWriter(c) \/ RegisterRefused(c) \/ HbWrite(c) \/ WriterDrained(c)
         \/ UnregisterAbandoned(c) \/ Register(c) \/ Unregister(c) \/ Arrive(c) \/ ReaderEnds(c)
  PROVE  StInv' /\ Drains
<1> USE DEF StInv
<1>1. CASE NotAccepted(c) \/ Arrive(c)
  <2>1. UNCHANGED <<hbWriter, hbClosed, hbWg, hbClients, hbRun, hbStop, hbPanic>>
    BY <1>1 DEF NotAccepted, Arrive
  <2>2. PICK pc \in {"refused", "counted", "gone"} :
           hbHandler[c] \in {"out", "refused", "counted"} /\ hbHandler' = [hbHandler EXCEPT ![c] = pc]
    BY <1>1 DEF NotAccepted, Arrive, Goto
  <2>3. Awaited' = Awaited
    BY <2>1, <2>2 DEF Awaited, Places
  <2> QED
    BY <2>1, <2>2, <2>3 DEF Places, NotYetWriting, StopAndRun, StopChClosed, OpenAreKnown, WaitsForThem, Drains
<1>2. CASE AdmitWriter(c)
  <2>1. UNCHANGED <<hbWriter, hbClosed, hbClients, hbRun, hbStop, hbPanic>> /\ hbHandler[c] = "counted"
    BY <1>2 DEF AdmitWriter
  <2>2. CASE hbStop = "no"
    <3>1. hbWg' = hbWg + 1 /\ hbHandler' = [hbHandler EXCEPT ![c] = "admitted"]
      BY <1>2, <2>2 DEF AdmitWriter, Goto
    <3>2. Awaited' = Awaited \union {c} /\ c \notin Awaited
      BY <2>1, <3>1 DEF Awaited, Places, NotYetWriting
    <3>3. Cardinality(Awaited \union {c}) = Cardinality(Awaited) + 1
      BY <3>2, AwaitedFinite, FS_AddElement
    <3>4. WaitsForThem'
      BY <2>1, <2>2, <3>1, <3>2, <3>3 DEF WaitsForThem
    <3> QED
      BY <2>1, <2>2, <3>1, <3>4 DEF Places, NotYetWriting, StopAndRun, StopChClosed, OpenAreKnown, Drains
  <2>3. CASE hbStop # "no"
    <3>1. hbWg' = hbWg /\ hbHandler' = [hbHandler EXCEPT ![c] = "gone"]
      BY <1>2, <2>3 DEF AdmitWriter, Goto
    <3>2. Awaited' = Awaited
      BY <2>1, <3>1 DEF Awaited, Places
    <3> QED
      BY <2>1, <3>1, <3>2 DEF Places, NotYetWriting, StopAndRun, StopChClosed, OpenAreKnown, WaitsForThem, Drains
  <2> QED
    BY <2>2, <2>3
<1>3. CASE RegisterRefused(c)
  <2>1. /\ UNCHANGED <<hbWriter, hbClosed, hbClients, hbRun, hbStop, hbPanic>> /\ hbHandler[c] = "admitted"
        /\ hbWg' = hbWg - 1 /\ hbHandler' = [hbHandler EXCEPT ![c] = "gone"]
    BY <1>3 DEF RegisterRefused, Goto
  <2>2. c \in Awaited /\ Awaited' = Awaited \ {c}
    BY <2>1 DEF Awaited, Places, NotYetWriting
  <2>3. WaitsForThem'
    BY <2>1, <2>2, OneLessAwaited
  <2> QED
    BY <2>1, <2>2, <2>3 DEF Places, NotYetWriting, StopAndRun, StopChClosed, OpenAreKnown, Drains
<1>4. CASE HbWrite(c) \/ WriterDrained(c)
  <2>1. /\ UNCHANGED <<hbHandler, hbClosed, hbWg, hbClients, hbRun, hbStop, hbPanic>> /\ hbWriter[c] = "run"
        /\ \E w \in {"run", "exit"} : hbWriter' = [hbWriter EXCEPT ![c] = w]
    BY <1>4 DEF HbWrite, WriterDrained
  <2>2. Awaited' = Awaited
    BY <2>1 DEF Awaited, Places
  <2> QED
    BY <2>1, <2>2 DEF Places, NotYetWriting, StopAndRun, StopChClosed, OpenAreKnown, WaitsForThem, Drains
<1>5. CASE UnregisterAbandoned(c) \/ Unregister(c)
  <2>1. /\ UNCHANGED <<hbHandler, hbRun, hbStop, hbPanic>> /\ hbWriter[c] = "exit" /\ WriterDone(c)
        /\ hbClients' \in {hbClients, hbClients \ {c}}
    BY <1>5 DEF UnregisterAbandoned, Unregister
  <2>2. /\ hbWriter' = [hbWriter EXCEPT ![c] = "done"] /\ hbClosed' = [hbClosed EXCEPT ![c] = TRUE]
        /\ hbWg' = hbWg - 1
    BY <2>1 DEF WriterDone
  <2>3. c \in Awaited /\ Awaited' = Awaited \ {c}
    BY <2>1, <2>2 DEF Awaited, Places, NotYetWriting
  <2>4. WaitsForThem'
    BY <2>1, <2>2, <2>3, OneLessAwaited
  <2>5. Places' /\ NotYetWriting' /\ StopAndRun'
    BY <2>1, <2>2 DEF Places, NotYetWriting, StopAndRun, StopChClosed
  <2>6. OpenAreKnown'
    BY <2>1, <2>2 DEF Places, OpenAreKnown
  <2> QED
    BY <2>3, <2>4, <2>5, <2>6 DEF Drains
<1>6. CASE Register(c)
  <2>1. /\ UNCHANGED <<hbClosed, hbWg, hbRun, hbStop, hbPanic>> /\ hbRun = "running"
        /\ hbHandler[c] = "admitted" /\ hbHandler' = [hbHandler EXCEPT ![c] = "reading"]
        /\ hbWriter' = [hbWriter EXCEPT ![c] = "run"] /\ hbClients' = hbClients \union {c}
    BY <1>6 DEF Register, Goto, Running
  <2>2. Awaited' = Awaited
    BY <2>1 DEF Awaited, Places
  <2>3. OpenAreKnown'
    BY <2>1 DEF Places, OpenAreKnown
  <2> QED
    BY <2>1, <2>2, <2>3 DEF Places, NotYetWriting, StopAndRun, StopChClosed, WaitsForThem, Drains
<1>7. CASE ReaderEnds(c)
  <2>1. /\ UNCHANGED <<hbWriter, hbWg, hbClients, hbRun, hbStop, hbPanic>> /\ hbHandler[c] = "reading"
        /\ hbHandler' = [hbHandler EXCEPT ![c] = "gone"] /\ hbClosed' = [hbClosed EXCEPT ![c] = TRUE]
    BY <1>7 DEF ReaderEnds, Goto
  <2>2. Awaited' = Awaited
    BY <2>1 DEF Awaited, Places
  <2> QED
    BY <2>1, <2>2 DEF Places, NotYetWriting, StopAndRun, StopChClosed, OpenAreKnown, WaitsForThem, Drains
<1> QED
  BY <1>1, <1>2, <1>3, <1>4, <1>5, <1>6, <1>7

\* The steps of the run loop that fan something out, and its last turn.
LEMMA StLoopStep ==
  ASSUME HbInv, StInv, ~ hbPanic,
         (\E k \in HbKinds : Buffer(k)) \/ FlushTick \/ PublishTopology \/ RunStops
  PROVE  StInv' /\ Drains
<1> USE DEF StInv
<1>0. UNCHANGED <<hbHandler, hbWriter, hbWg, hbStop>> /\ Running
  BY DEF Buffer, FlushTick, PublishTopology, RunStops
<1>1. Awaited' = Awaited
  BY <1>0, SameAwaited
<1>2. NotYetWriting' /\ WaitsForThem' /\ Drains
  <2>1. hbRun' # "new"
    BY <1>0 DEF Buffer, FlushTick, PublishTopology, RunStops, Running
  <2> QED
    BY <1>0, <1>1, <2>1 DEF NotYetWriting, WaitsForThem, Drains
<1>3. hbBuf \in [HbKinds -> Seq(HbEntry)] /\ Fan \in Fans
  BY DEF HbInv, Fan, Fans
<1>4. ASSUME NEW f \in Fans, FanKept(Fan, f), Apply(f), hbRun' = hbRun PROVE StInv' /\ Drains
  <2>1. OpenAreKnown'
    BY <1>0, <1>4, AppliedKnows
  <2>2. hbClosed' \in [HbClients -> BOOLEAN] /\ hbClients' \in SUBSET HbClients
    BY <1>4, AppliedSound
  <2>3. Places' /\ StopAndRun'
    BY <1>0, <1>4, <2>2 DEF Places, StopAndRun, StopChClosed
  <2> QED
    BY <1>2, <2>1, <2>3
<1>5. ASSUME NEW bufs \in [HbKinds -> Seq(HbEntry)] PROVE Flushed(bufs) \in Fans /\ FanKept(Fan, Flushed(bufs))
  BY <1>5, FlushedSound, FlushedKeeps
<1>6. ASSUME NEW k \in HbKinds, Buffer(k) PROVE StInv' /\ Drains
  <2> DEFINE bufs == [hbBuf EXCEPT ![k] = Append(@, Head(hbChan[k]))]
  <2>1. hbChan[k] \in Seq(HbEntry) /\ hbChan[k] # <<>> /\ hbBuf[k] \in Seq(HbEntry)
    BY <1>6 DEF Buffer, HbInv
  <2>2. Append(hbBuf[k], Head(hbChan[k])) \in Seq(HbEntry)
    BY <2>1, HeadTailProperties, AppendProperties
  <2>3. bufs \in [HbKinds -> Seq(HbEntry)]
    BY <1>3, <2>2
  <2>4. (Apply(Flushed(bufs)) \/ Apply(Fan)) /\ hbRun' = hbRun
    BY <1>6 DEF Buffer
  <2> HIDE DEF bufs
  <2>5. FanKept(Fan, Fan)
    BY DEF FanKept
  <2> QED
    BY <1>3, <1>4, <1>5, <2>3, <2>4, <2>5
<1>7. CASE FlushTick
  <2>1. Apply(Flushed(hbBuf)) /\ hbRun' = hbRun
    BY <1>7 DEF FlushTick
  <2> QED
    BY <1>3, <1>4, <1>5, <2>1
<1>8. CASE PublishTopology
  <2>1. PICK r \in 1 .. hbEngine :
          /\ ~ StaleRender(r)
          /\ Apply(Sends(Fan, hbClients, [c \in HbClients |-> Refresh(r, FALSE)]))
    BY <1>8 DEF PublishTopology
  <2> DEFINE msgs == [c \in HbClients |-> Refresh(r, FALSE)]
  <2>2. r \in Nat
    BY <2>1 DEF HbInv
  <2>3. \A c \in HbClients : msgs[c] \in MsgFor(c)
    <3>1. \A c \in HbClients : <<>> \in Seq({e \in HbEntry : InScope(c, e)})
      BY EmptySeq
    <3> QED
      BY <2>2, <3>1 DEF MsgFor, Refresh
  <2>4. hbClients \in SUBSET HbClients /\ hbRun' = hbRun
    BY <1>8 DEF HbInv, PublishTopology
  <2>5. Apply(Sends(Fan, hbClients, msgs))
    BY <2>1
  <2> HIDE DEF msgs
  <2>6. Sends(Fan, hbClients, msgs) \in Fans /\ FanKept(Fan, Sends(Fan, hbClients, msgs))
    BY <1>3, <2>3, <2>4, SendsSound, SendsKeep
  <2> QED
    BY <1>4, <2>4, <2>5, <2>6
<1>9. CASE RunStops
  <2>1. PICK f \in Fans : f = Flushed(hbBuf) /\ FanKept(Fan, f)
    BY <1>3, <1>5
  <2>2. /\ f.closed \in [HbClients -> BOOLEAN] /\ f.clients \in SUBSET HbClients
        /\ f = [send |-> f.send, closed |-> f.closed, clients |-> f.clients, panic |-> f.panic]
    BY DEF Fans
  <2> DEFINE cl == [c \in HbClients |-> f.closed[c] \/ c \in f.clients]
             g == [f EXCEPT !.closed = cl]
  <2>3. Apply(g) /\ hbRun' = "done" /\ StopChClosed
    BY <1>9, <2>1 DEF RunStops
  <2>4. cl \in [HbClients -> BOOLEAN] /\ \A c \in HbClients : cl[c] = (f.closed[c] \/ c \in f.clients)
    BY <2>2
  <2> HIDE DEF cl
  <2>5. g.closed = cl /\ g.clients = f.clients /\ g.panic = f.panic
    BY <2>2
  <2>6. hbPanic' = f.panic /\ hbClosed' = cl /\ hbClients' = f.clients
    BY <2>3, <2>5 DEF Apply
  <2>7. Fan.closed = hbClosed /\ Fan.clients = hbClients
    BY DEF Fan
  <2> HIDE DEF g
  <2>8. OpenAreKnown'
    <3> SUFFICES ASSUME ~ f.panic, NEW c \in HbClients, hbWriter[c] = "run"
                 PROVE  cl[c]
      BY <1>0, <2>6 DEF OpenAreKnown
    <3>1. hbClosed[c] \/ c \in hbClients
      BY DEF OpenAreKnown
    <3> QED
      BY <2>1, <2>4, <2>7, <3>1 DEF FanKept
  <2>9. Places' /\ StopAndRun'
    BY <1>0, <2>2, <2>3, <2>4, <2>6 DEF Places, StopAndRun, StopChClosed
  <2> QED
    BY <1>2, <2>8, <2>9
<1> QED
  BY <1>6, <1>7, <1>8, <1>9

\* The steps that touch no connection: Stop, the start of the loop, callers.
LEMMA StOtherStep ==
  ASSUME HbInv, StInv, ~ hbPanic,
         \/ StopBegins \/ StopSignals \/ StopWaits \/ HbStartRun \/ EngineMoves
         \/ \E k \in HbKinds, t \in HbTenants : Broadcast(k, t)
  PROVE  StInv' /\ Drains
<1> USE DEF StInv
<1>0. UNCHANGED <<hbHandler, hbWriter, hbClosed, hbWg, hbClients, hbPanic>>
  BY DEF StopBegins, StopSignals, StopWaits, HbStartRun, EngineMoves, Broadcast, hbConnVars
<1>1. Awaited' = Awaited
  BY <1>0, SameAwaited
<1>2. NotYetWriting' /\ Drains
  <2>1. hbRun' = "new" => hbRun = "new"
    BY DEF StopBegins, StopSignals, StopWaits, HbStartRun, EngineMoves, Broadcast
  <2> QED
    BY <1>0, <1>1, <2>1 DEF NotYetWriting, Drains
<1>3. CASE StopBegins
  <2>1. hbStop = "no" /\ hbStop' = "closing" /\ hbRun' = hbRun
    BY <1>3 DEF StopBegins, StopTo
  <2> QED
    BY <1>0, <1>1, <1>2, <2>1 DEF Places, StopAndRun, StopChClosed, OpenAreKnown, WaitsForThem
<1>4. CASE StopSignals
  <2>1. hbStop = "closing" /\ hbStop' = "stopping" /\ hbRun' = IF hbRun = "new" THEN "done" ELSE hbRun
    BY <1>4 DEF StopSignals, StopTo
  <2>2. OpenAreKnown'
    BY <1>0, <2>1 DEF NotYetWriting, OpenAreKnown
  <2> QED
    BY <1>0, <1>1, <1>2, <2>1, <2>2 DEF Places, StopAndRun, StopChClosed, WaitsForThem
<1>5. CASE StopWaits
  <2>1. hbRun' = hbRun
    BY <1>5 DEF StopWaits
  <2>2. \/ hbStop = "stopping" /\ hbRun = "done" /\ hbStop' = "waiting"
        \/ hbStop = "waiting" /\ hbWg = 0 /\ hbStop' = "done"
    BY <1>5 DEF StopWaits, StopTo
  <2>3. hbWg = 0 => Awaited = {}
    BY AwaitedFinite, FS_EmptySet DEF WaitsForThem
  <2> QED
    BY <1>0, <1>1, <1>2, <2>1, <2>2, <2>3 DEF Places, StopAndRun, StopChClosed, OpenAreKnown, WaitsForThem
<1>6. CASE HbStartRun
  <2>1. hbRun = "new" /\ hbRun' = "running" /\ hbStop' = hbStop
    BY <1>6 DEF HbStartRun
  <2> QED
    BY <1>0, <1>1, <1>2, <2>1 DEF Places, StopAndRun, StopChClosed, OpenAreKnown, WaitsForThem
<1>7. CASE EngineMoves \/ \E k \in HbKinds, t \in HbTenants : Broadcast(k, t)
  <2>1. UNCHANGED <<hbRun, hbStop>>
    BY <1>7 DEF EngineMoves, Broadcast
  <2> QED
    BY <1>0, <1>1, <1>2, <2>1 DEF Places, StopAndRun, StopChClosed, OpenAreKnown, WaitsForThem
<1> QED
  BY <1>3, <1>4, <1>5, <1>6, <1>7

\* The invariant is inductive, and a step after Stop began awaits nobody new.
LEMMA StInvStep ==
  ASSUME HbInv, StInv, [HbNext]_hbVars
  PROVE  StInv' /\ (hbVars' # hbVars => Drains)
<1>1. CASE HbNext
  <2>1. ~ hbPanic
    BY <1>1 DEF HbNext
  <2> QED
    BY <1>1, <2>1, StConnStep, StLoopStep, StOtherStep DEF HbNext, HbProgress
<1>2. CASE UNCHANGED hbVars
  <2>1. UNCHANGED <<hbHandler, hbWriter, hbClosed, hbWg, hbClients, hbRun, hbStop, hbPanic>>
    BY <1>2 DEF hbVars, hbConnVars
  <2>2. Awaited' = Awaited
    BY <2>1, SameAwaited
  <2> QED
    BY <1>2, <2>1, <2>2 DEF StInv, Places, NotYetWriting, StopAndRun, StopChClosed, OpenAreKnown, WaitsForThem
<1> QED
  BY <1>1, <1>2

\* Where Stop can be, somebody can go on: the loop up to its last turn, then Stop,
\* then each awaited connection by itself, since its channel was closed.
LEMMA SomebodyGoesOn ==
  ASSUME StInv, hbStop \notin {"no", "done"}, ~ hbPanic
  PROVE  StopHasAStep
<1> USE DEF StInv
<1>1. CASE hbStop = "closing"
  BY <1>1 DEF StopHasAStep
<1>2. CASE hbStop = "stopping"
  BY <1>2 DEF StopHasAStep, Places, StopAndRun, StopChClosed, Running
<1>3. CASE hbStop = "waiting"
  <2>1. hbRun = "done" /\ StopChClosed
    BY <1>3 DEF StopAndRun, StopChClosed
  <2>2. CASE hbWg = 0
    BY <1>3, <2>2 DEF StopHasAStep
  <2>3. CASE hbWg # 0
    <3>1. Awaited # {}
      BY <2>3, FS_EmptySet DEF WaitsForThem
    <3>2. PICK c \in HbClients : hbHandler[c] = "admitted" \/ hbWriter[c] \in {"run", "exit"}
      BY <3>1 DEF Awaited
    <3>3. hbWriter[c] = "run" => hbClosed[c]
      BY <2>1 DEF OpenAreKnown
    <3> QED
      BY <2>1, <3>2, <3>3 DEF StopHasAStep
  <2> QED
    BY <2>2, <2>3
<1> QED
  BY <1>1, <1>2, <1>3 DEF Places

\* Both invariants of the hub, together.
LEMMA HubInvariant == HbSpec => [](HbInv /\ StInv)
<1>1. ASSUME HbInit PROVE HbInv /\ StInv
  <2>1. HbInv
    BY <1>1, HubStarts
  <2>2. Awaited = {}
    BY <1>1 DEF HbInit, HbInitIn, Awaited
  <2>3. Cardinality(Awaited) = 0
    BY <2>2, FS_EmptySet
  <2> QED
    BY <1>1, <2>1, <2>2, <2>3
       DEF HbInit, HbInitIn, StInv, Places, NotYetWriting, StopAndRun, StopChClosed, OpenAreKnown, WaitsForThem
<1>2. HbInv /\ StInv /\ [HbNext]_hbVars => (HbInv /\ StInv)'
  <2>1. HbInv /\ UNCHANGED hbVars => HbInv'
    BY DEF HbInv, hbVars, hbConnVars, hbTopoVars
  <2> QED
    BY <2>1, HubStep, StInvStep
<1> QED
  BY <1>1, <1>2, PTL DEF HbSpec

\* Stop is never wedged, for every number of clients and every capacity: writerWg
\* counts exactly the connections Stop has to see the end of, until it returned
\* some goroutine has a step whose guard holds without a client or a caller acting,
\* and once it returned no writer and no admitted handler is left (Stop,
\* admitWriter, the stopCh branches of register and unregister).  This is
\* StopNeverWedged with its ENABLED written out as the guards of the actions.
THEOREM StopCanGoOn == HbSpec => []StopSound
<1>1. ASSUME HbInv /\ StInv PROVE StopSound
  BY <1>1, SomebodyGoesOn DEF StInv, WaitsForThem, StopSound
<1> QED
  BY <1>1, HubInvariant, PTL

\* From the time Stop begins it waits for fewer and fewer connections: no
\* interleaving of upgrades and registrations adds one to the group while Stop
\* waits for it (admitWriter under lifecycleMu, Stop's closing flag).
THEOREM StopOnlyDrains == HbSpec => [][Drains]_hbVars
<1>1. HbInv /\ StInv /\ [HbNext]_hbVars => [Drains]_hbVars
  BY StInvStep
<1> QED
  BY <1>1, HubInvariant, PTL DEF HbSpec

\* The connections that hold a slot: the handlers before their writer, refused ones
\* included until they gave it back, and the awaited; and those of them accepted.
Slots == {c \in HbClients : hbHandler[c] \in {"refused", "counted"}} \cup Awaited
Accepted == {c \in HbClients : hbHandler[c] = "counted"} \cup Awaited

\* The hub keeps its limits: the client counter is the slots held, the connections
\* accepted at a time are at most maxClients, a send channel and an entry channel
\* hold at most their capacity.
HbLimits ==
  /\ hbCount = Cardinality(Slots)
  /\ HbMaxClients > 0 => Cardinality(Accepted) <= HbMaxClients
  /\ \A c \in HbClients : Len(hbSend[c]) <= HbSendCap
  /\ \A k \in HbKinds : Len(hbChan[k]) <= HbChanCap

\* Until its writer starts, a client is not in the loop's set and its channel is empty.
QuietBefore == \A c \in HbClients : hbWriter[c] = "none" => c \notin hbClients /\ hbSend[c] = <<>>

\* A send channel within its capacity.
Fits(s) == Len(s) <= HbSendCap

\* What a fan-out leaves of the channels: nobody is added to the set, nothing is queued
\* for those outside it, and no channel gets past its capacity.
FanFits(f, g) ==
  /\ g.clients \subseteq f.clients
  /\ \A c \in HbClients : c \notin f.clients => g.send[c] = f.send[c]
  /\ \A c \in HbClients : Fits(f.send[c]) => Fits(g.send[c])

\* A message is queued for a channel with room only.
LEMMA SendsFit ==
  ASSUME NEW f \in Fans, NEW cs \in SUBSET f.clients, NEW msgs
  PROVE  FanFits(f, Sends(f, cs, msgs))
<1>0. /\ f.closed \in [HbClients -> BOOLEAN] /\ f.clients \in SUBSET HbClients /\ f.panic \in BOOLEAN
      /\ f.send \in Sent
      /\ f = [send |-> f.send, closed |-> f.closed, clients |-> f.clients, panic |-> f.panic]
  BY DEF Fans
<1>1. CASE f.panic \/ \E c \in cs : f.closed[c]
  <2> DEFINE g == Sends(f, cs, msgs)
  <2>1. g = [f EXCEPT !.panic = TRUE]
    BY <1>1 DEF Sends
  <2>2. g.clients = f.clients /\ g.send = f.send
    BY <1>0, <2>1
  <2> HIDE DEF g
  <2>3. FanFits(f, g)
    BY <2>2 DEF FanFits
  <2> QED
    BY <2>3 DEF g
<1>2. CASE ~ (f.panic \/ \E c \in cs : f.closed[c])
  <2> DEFINE slow == {c \in cs : Len(f.send[c]) >= HbSendCap}
             send == [c \in HbClients |-> IF c \in cs \ slow THEN Append(f.send[c], msgs[c])
                                                             ELSE f.send[c]]
             closed == [c \in HbClients |-> f.closed[c] \/ c \in slow]
             g == Sends(f, cs, msgs)
  <2>1. g = [f EXCEPT !.send = send, !.closed = closed, !.clients = f.clients \ slow]
    BY <1>2 DEF Sends
  <2>2. ASSUME NEW c \in HbClients
        PROVE  /\ c \notin f.clients => send[c] = f.send[c]
               /\ Fits(f.send[c]) => Fits(send[c])
    <3>1. f.send[c] \in Seq(AllMsgs)
      BY <1>0 DEF Sent
    <3>2. Len(f.send[c]) \in Nat /\ Len(Append(f.send[c], msgs[c])) = Len(f.send[c]) + 1
      <4>1. f.send[c] \in Seq(AllMsgs \cup {msgs[c]})
        BY <3>1
      <4> QED
        BY <4>1, AppendProperties, LenProperties
    <3>3. send[c] = IF c \in cs /\ ~ (Len(f.send[c]) >= HbSendCap) THEN Append(f.send[c], msgs[c])
                                                                   ELSE f.send[c]
      OBVIOUS
    <3> HIDE DEF send, slow
    <3> QED
      BY <3>2, <3>3, HbAssumption DEF Fits
  <2> HIDE DEF slow, send, closed, g
  <2>3. g = [send |-> send, closed |-> closed, clients |-> f.clients \ slow, panic |-> f.panic]
    BY <1>0, <2>1
  <2>4. g.clients = f.clients \ slow /\ g.send = send
    BY <2>3
  <2>5. FanFits(f, g)
    BY <2>2, <2>4 DEF FanFits
  <2> QED
    BY <2>5 DEF g
<1> QED
  BY <1>1, <1>2

\* So for a batch.
LEMMA BroadcastFits ==
  ASSUME NEW f \in Fans, NEW es \in Seq(HbEntry)
  PROVE  FanFits(f, BroadcastTagged(f, es))
<1> DEFINE msgs == [c \in HbClients |-> [entries |-> ForScope(c, es), rev |-> 0, reset |-> FALSE]]
           cs == {c \in f.clients : msgs[c].entries # <<>>}
<1>1. cs \in SUBSET f.clients
  OBVIOUS
<1>2. BroadcastTagged(f, es) = Sends(f, cs, msgs)
  BY DEF BroadcastTagged
<1> HIDE DEF cs, msgs
<1> QED
  BY <1>1, <1>2, SendsFit

\* And for a flush of both buffers.
LEMMA FlushedFits ==
  ASSUME HbInv, NEW bufs \in [HbKinds -> Seq(HbEntry)]
  PROVE  FanFits(Fan, Flushed(bufs))
<1>1. Fan \in Fans
  BY DEF Fan, Fans, HbInv
<1>2. bufs["logs"] \in Seq(HbEntry) /\ bufs["metrics"] \in Seq(HbEntry)
  BY DEF HbKinds
<1> DEFINE g == BroadcastTagged(Fan, bufs["logs"])
           h == BroadcastTagged(g, bufs["metrics"])
<1>3. g \in Fans /\ FanFits(Fan, g)
  BY <1>1, <1>2, BroadcastSound, BroadcastFits
<1> HIDE DEF g
<1>4. FanFits(g, h)
  BY <1>2, <1>3, BroadcastFits
<1>5. Flushed(bufs) = h
  BY DEF Flushed, g
<1> HIDE DEF h
<1>6. h.clients \subseteq Fan.clients
  BY <1>3, <1>4 DEF FanFits
<1>7. ASSUME NEW c \in HbClients
      PROVE  /\ c \notin Fan.clients => h.send[c] = Fan.send[c]
             /\ Fits(Fan.send[c]) => Fits(h.send[c])
  <2>1. /\ c \notin Fan.clients => c \notin g.clients /\ g.send[c] = Fan.send[c]
        /\ Fits(Fan.send[c]) => Fits(g.send[c])
    BY <1>3 DEF FanFits
  <2>2. /\ c \notin g.clients => h.send[c] = g.send[c]
        /\ Fits(g.send[c]) => Fits(h.send[c])
    BY <1>4 DEF FanFits
  <2> QED
    BY <2>1, <2>2
<1> QED
  BY <1>5, <1>6, <1>7 DEF FanFits

\* The slots and the accepted connections are finitely many.
LEMMA SlotsFinite ==
  /\ IsFiniteSet(Slots) /\ Cardinality(Slots) \in Nat
  /\ IsFiniteSet(Accepted) /\ Cardinality(Accepted) \in Nat
  /\ Cardinality(Accepted) <= Cardinality(Slots)
<1>1. Slots \subseteq HbClients /\ Accepted \subseteq Slots
  BY DEF Slots, Accepted, Awaited
<1>2. IsFiniteSet(Slots)
  BY <1>1, HbAssumption, FS_Subset
<1> QED
  BY <1>1, <1>2, FS_Subset, FS_CardinalityType

\* What the channels hold, and when they do, after a step.
HbRoom ==
  /\ \A c \in HbClients : Fits(hbSend[c])
  /\ \A k \in HbKinds : Len(hbChan[k]) <= HbChanCap

\* The counter and the cap, which only handlers and writers move.
HbSlots == hbCount = Cardinality(Slots) /\ (HbMaxClients > 0 => Cardinality(Accepted) <= HbMaxClients)

\* A slot given back.
LEMMA SlotReleased ==
  ASSUME HbSlots, NEW c \in Slots, Slots' = Slots \ {c}, Accepted' \subseteq Accepted, hbCount' = hbCount - 1
  PROVE  HbSlots'
<1>1. Cardinality(Slots \ {c}) = Cardinality(Slots) - 1
  BY SlotsFinite, FS_RemoveElement
<1>2. Cardinality(Accepted') <= Cardinality(Accepted) /\ Cardinality(Accepted') \in Nat
  BY SlotsFinite, FS_Subset, FS_CardinalityType
<1>3. hbCount' = Cardinality(Slots')
  BY <1>1 DEF HbSlots
<1> QED
  BY <1>2, <1>3, SlotsFinite, HbAssumption DEF HbSlots

\* Nobody's slot moved.
LEMMA SlotsStay ==
  ASSUME HbSlots, Slots' = Slots, Accepted' = Accepted, hbCount' = hbCount
  PROVE  HbSlots'
BY DEF HbSlots

\* The steps of one connection keep the counter and the cap.
LEMMA SlotsConnStep ==
  ASSUME StInv, HbSlots, NEW c \in HbClients,
         \/ NotAccepted(c) \/ AdmitWriter(c) \/ RegisterRefused(c) \/ HbWrite(c) \/ WriterDrained(c)
         \/ UnregisterAbandoned(c) \/ Register(c) \/ Unregister(c) \/ Arrive(c) \/ ReaderEnds(c)
  PROVE  HbSlots'
<1> USE DEF StInv
<1>1. CASE Arrive(c)
  <2> DEFINE pc == IF HbMaxClients > 0 /\ hbCount + 1 > HbMaxClients THEN "refused" ELSE "counted"
  <2>1. /\ hbHandler[c] = "out" /\ hbCount' = hbCount + 1 /\ hbWriter' = hbWriter
        /\ hbHandler' = [hbHandler EXCEPT ![c] = pc]
    BY <1>1 DEF Arrive, Goto
  <2>2. hbWriter[c] = "none"
    BY <2>1 DEF NotYetWriting
  <2>3. pc \in {"refused", "counted"}
    OBVIOUS
  <2>4. pc = "counted" /\ HbMaxClients > 0 => hbCount + 1 <= HbMaxClients
    BY SlotsFinite, HbAssumption DEF HbSlots
  <2> HIDE DEF pc
  <2>5. Slots' = Slots \cup {c} /\ c \notin Slots
    BY <2>1, <2>2, <2>3 DEF Slots, Awaited, Places
  <2>6. Cardinality(Slots') = Cardinality(Slots) + 1
    BY <2>5, SlotsFinite, FS_AddElement
  <2>7. CASE pc = "refused"
    <3>1. Accepted' = Accepted
      BY <2>1, <2>2, <2>7 DEF Accepted, Awaited, Places
    <3> QED
      BY <2>1, <2>6, <3>1 DEF HbSlots
  <2>8. CASE pc = "counted"
    <3>1. Accepted' = Accepted \cup {c} /\ c \notin Accepted
      BY <2>1, <2>2, <2>8 DEF Accepted, Awaited, Places
    <3>2. Cardinality(Accepted') = Cardinality(Accepted) + 1
      BY <3>1, SlotsFinite, FS_AddElement
    <3> QED
      BY <2>1, <2>4, <2>6, <2>8, <3>2, SlotsFinite, HbAssumption DEF HbSlots
  <2> QED
    BY <2>3, <2>7, <2>8
<1>2. CASE NotAccepted(c)
  <2>1. /\ hbHandler[c] \in {"refused", "counted"} /\ hbCount' = hbCount - 1 /\ hbWriter' = hbWriter
        /\ hbHandler' = [hbHandler EXCEPT ![c] = "gone"]
    BY <1>2 DEF NotAccepted, ReleaseSlot, Goto
  <2>2. hbWriter[c] = "none"
    BY <2>1 DEF NotYetWriting
  <2>3. c \in Slots /\ Slots' = Slots \ {c} /\ Accepted' \subseteq Accepted
    BY <2>1, <2>2 DEF Slots, Accepted, Awaited, Places
  <2> QED
    BY <2>1, <2>3, SlotReleased
<1>3. CASE AdmitWriter(c)
  <2>1. hbHandler[c] = "counted" /\ hbWriter' = hbWriter
    BY <1>3 DEF AdmitWriter
  <2>2. hbWriter[c] = "none"
    BY <2>1 DEF NotYetWriting
  <2>3. CASE hbStop = "no"
    <3>1. hbHandler' = [hbHandler EXCEPT ![c] = "admitted"] /\ hbCount' = hbCount
      BY <1>3, <2>3 DEF AdmitWriter, Goto
    <3>2. Slots' = Slots /\ Accepted' = Accepted
      BY <2>1, <3>1 DEF Slots, Accepted, Awaited, Places
    <3> QED
      BY <3>1, <3>2, SlotsStay
  <2>4. CASE hbStop # "no"
    <3>1. hbHandler' = [hbHandler EXCEPT ![c] = "gone"] /\ hbCount' = hbCount - 1
      BY <1>3, <2>4 DEF AdmitWriter, Goto, ReleaseSlot
    <3>2. c \in Slots /\ Slots' = Slots \ {c} /\ Accepted' \subseteq Accepted
      BY <2>1, <2>2, <3>1 DEF Slots, Accepted, Awaited, Places
    <3> QED
      BY <3>1, <3>2, SlotReleased
  <2> QED
    BY <2>3, <2>4
<1>4. CASE RegisterRefused(c)
  <2>1. /\ hbHandler[c] = "admitted" /\ hbCount' = hbCount - 1 /\ hbWriter' = hbWriter
        /\ hbHandler' = [hbHandler EXCEPT ![c] = "gone"]
    BY <1>4 DEF RegisterRefused, ReleaseSlot, Goto
  <2>2. hbWriter[c] = "none"
    BY <2>1 DEF NotYetWriting
  <2>3. c \in Slots /\ Slots' = Slots \ {c} /\ Accepted' \subseteq Accepted
    BY <2>1, <2>2 DEF Slots, Accepted, Awaited, Places
  <2> QED
    BY <2>1, <2>3, SlotReleased
<1>5. CASE HbWrite(c) \/ WriterDrained(c)
  <2>1. /\ UNCHANGED <<hbHandler, hbCount>> /\ hbWriter[c] = "run"
        /\ \E w \in {"run", "exit"} : hbWriter' = [hbWriter EXCEPT ![c] = w]
    BY <1>5 DEF HbWrite, WriterDrained
  <2>2. Slots' = Slots /\ Accepted' = Accepted
    BY <2>1 DEF Slots, Accepted, Awaited, Places
  <2> QED
    BY <2>1, <2>2, SlotsStay
<1>6. CASE UnregisterAbandoned(c) \/ Unregister(c)
  <2>1. UNCHANGED hbHandler /\ hbWriter[c] = "exit" /\ WriterDone(c)
    BY <1>6 DEF UnregisterAbandoned, Unregister
  <2>2. hbWriter' = [hbWriter EXCEPT ![c] = "done"] /\ hbCount' = hbCount - 1
    BY <2>1 DEF WriterDone, ReleaseSlot
  <2>3. hbHandler[c] \notin {"refused", "counted", "admitted"}
    BY <2>1 DEF NotYetWriting
  <2>4. c \in Slots /\ Slots' = Slots \ {c} /\ Accepted' \subseteq Accepted
    BY <2>1, <2>2, <2>3 DEF Slots, Accepted, Awaited, Places
  <2> QED
    BY <2>2, <2>4, SlotReleased
<1>7. CASE Register(c)
  <2>1. /\ hbHandler[c] = "admitted" /\ hbHandler' = [hbHandler EXCEPT ![c] = "reading"]
        /\ hbWriter' = [hbWriter EXCEPT ![c] = "run"] /\ hbCount' = hbCount
    BY <1>7 DEF Register, Goto
  <2>2. Slots' = Slots /\ Accepted' = Accepted
    BY <2>1 DEF Slots, Accepted, Awaited, Places
  <2> QED
    BY <2>1, <2>2, SlotsStay
<1>8. CASE ReaderEnds(c)
  <2>1. /\ UNCHANGED <<hbWriter, hbCount>> /\ hbHandler[c] = "reading"
        /\ hbHandler' = [hbHandler EXCEPT ![c] = "gone"]
    BY <1>8 DEF ReaderEnds, Goto
  <2>2. Slots' = Slots /\ Accepted' = Accepted
    BY <2>1 DEF Slots, Accepted, Awaited, Places
  <2> QED
    BY <2>1, <2>2, SlotsStay
<1> QED
  BY <1>1, <1>2, <1>3, <1>4, <1>5, <1>6, <1>7, <1>8

\* What the loop's fan-outs keep.
HbQuiet == HbRoom /\ QuietBefore /\ hbPublished <= hbEngine /\ hbEngine \in 1 .. HbMaxRev

\* A fan-out that fits leaves every channel within its capacity and touches nobody
\* whose writer has not started.
LEMMA AppliedFits ==
  ASSUME HbInv, HbRoom, QuietBefore, NEW f, FanFits(Fan, f), hbSend' = f.send, hbClients' = f.clients,
         hbWriter' = hbWriter
  PROVE  QuietBefore' /\ \A c \in HbClients : Fits(hbSend'[c])
<1>1. Fan.send = hbSend /\ Fan.clients = hbClients
  BY DEF Fan
<1> SUFFICES ASSUME NEW c \in HbClients
             PROVE  /\ hbWriter[c] = "none" => c \notin f.clients /\ f.send[c] = <<>>
                    /\ Fits(f.send[c])
  BY DEF QuietBefore
<1>2. /\ hbWriter[c] = "none" => c \notin hbClients /\ hbSend[c] = <<>>
      /\ Fits(hbSend[c])
  BY DEF QuietBefore, HbRoom
<1>3. /\ f.clients \subseteq hbClients
      /\ c \notin hbClients => f.send[c] = hbSend[c]
      /\ Fits(hbSend[c]) => Fits(f.send[c])
  BY <1>1 DEF FanFits
<1> QED
  BY <1>2, <1>3

\* A step that changes the channel of one client, whose writer then runs or is done.
LEMMA OneFits ==
  ASSUME HbInv, StInv, HbQuiet, NEW c \in HbClients, NEW s, hbSend' = [hbSend EXCEPT ![c] = s],
         Fits(s), NEW w \in {"run", "exit", "done"}, hbWriter' = [hbWriter EXCEPT ![c] = w],
         hbClients' \subseteq hbClients \cup {c}, hbChan' = hbChan
  PROVE  HbRoom' /\ QuietBefore'
<1>1. hbSend \in Sent /\ hbWriter \in [HbClients -> {"none", "run", "exit", "done"}]
  BY DEF HbInv, StInv, Places
<1>2. \A d \in HbClients : hbSend'[d] = IF d = c THEN s ELSE hbSend[d]
  BY <1>1 DEF Sent
<1>3. HbRoom'
  BY <1>2 DEF HbQuiet, HbRoom
<1>4. QuietBefore'
  BY <1>1, <1>2 DEF HbQuiet, QuietBefore
<1> QED
  BY <1>3, <1>4

\* Every step keeps the channels within their capacities and the clients quiet before
\* their writer, and announces nothing the engine does not have.
LEMMA RoomStep ==
  ASSUME HbInv, StInv, HbQuiet, HbNext
  PROVE  HbQuiet'
<1>0. /\ hbEngine \in Nat /\ hbPublished \in Nat /\ HbMaxRev \in Nat /\ HbSendCap \in Nat \ {0}
      /\ HbChanCap \in Nat
  BY HbAssumption DEF HbInv
<1>1. ASSUME UNCHANGED <<hbSend, hbChan, hbClients, hbPublished, hbEngine>>,
             \A c \in HbClients : hbWriter'[c] = "none" => hbWriter[c] = "none"
      PROVE  HbQuiet'
  BY <1>1 DEF HbQuiet, HbRoom, QuietBefore
<1>2. \A c \in HbClients : hbSend[c] \in Seq(MsgFor(c)) /\ Len(hbSend[c]) \in Nat
  BY LenProperties DEF HbInv, Sent
<1>3. hbWriter \in [HbClients -> {"none", "run", "exit", "done"}]
  BY DEF StInv, Places
<1>4. ASSUME NEW c \in HbClients,
             NotAccepted(c) \/ AdmitWriter(c) \/ RegisterRefused(c) \/ Arrive(c) \/ ReaderEnds(c)
      PROVE  HbQuiet'
  <2>1. UNCHANGED <<hbWriter, hbSend, hbChan, hbClients, hbTopoVars>>
    BY <1>4 DEF NotAccepted, AdmitWriter, RegisterRefused, Arrive, ReaderEnds
  <2> QED
    BY <1>1, <2>1 DEF hbTopoVars
<1>5. ASSUME NEW c \in HbClients, WriterDrained(c) PROVE HbQuiet'
  <2>1. /\ UNCHANGED <<hbSend, hbChan, hbClients, hbTopoVars>> /\ hbWriter' = [hbWriter EXCEPT ![c] = "exit"]
    BY <1>5 DEF WriterDrained
  <2>2. \A d \in HbClients : hbWriter'[d] = "none" => hbWriter[d] = "none"
    BY <1>3, <2>1
  <2> QED
    BY <1>1, <2>1, <2>2 DEF hbTopoVars
<1>6. ASSUME NEW c \in HbClients, HbWrite(c) PROVE HbQuiet'
  <2>1. /\ hbSend[c] # <<>> /\ hbSend' = [hbSend EXCEPT ![c] = Tail(@)] /\ hbWriter[c] = "run"
        /\ \E w \in {"run", "exit"} : hbWriter' = [hbWriter EXCEPT ![c] = w]
        /\ UNCHANGED <<hbChan, hbClients, hbPublished, hbEngine>>
    BY <1>6 DEF HbWrite, hbTopoVars
  <2>2. Len(Tail(hbSend[c])) = Len(hbSend[c]) - 1
    BY <1>2, <2>1, HeadTailProperties
  <2>3. Fits(Tail(hbSend[c]))
    BY <1>0, <1>2, <2>2 DEF HbQuiet, HbRoom, Fits
  <2>4. PICK w \in {"run", "exit", "done"} : hbWriter' = [hbWriter EXCEPT ![c] = w]
    BY <2>1
  <2>5. HbRoom' /\ QuietBefore'
    BY <2>1, <2>3, <2>4, OneFits
  <2> QED
    BY <2>1, <2>5 DEF HbQuiet
<1>7. ASSUME NEW c \in HbClients, UnregisterAbandoned(c) \/ Unregister(c) PROVE HbQuiet'
  <2>1. /\ WriterDone(c) /\ hbClients' \subseteq hbClients /\ UNCHANGED <<hbChan, hbPublished, hbEngine>>
    BY <1>7 DEF UnregisterAbandoned, Unregister, hbTopoVars
  <2>2. hbSend' = [hbSend EXCEPT ![c] = <<>>] /\ hbWriter' = [hbWriter EXCEPT ![c] = "done"]
    BY <2>1 DEF WriterDone
  <2>3. Fits(<<>>)
    BY <1>0, EmptySeq DEF Fits
  <2>4. HbRoom' /\ QuietBefore'
    BY <2>1, <2>2, <2>3, OneFits
  <2> QED
    BY <2>1, <2>4 DEF HbQuiet
<1>8. ASSUME NEW c \in HbClients, Register(c) PROVE HbQuiet'
  <2>1. /\ hbHandler[c] = "admitted" /\ hbWriter' = [hbWriter EXCEPT ![c] = "run"]
        /\ hbClients' = hbClients \cup {c} /\ UNCHANGED <<hbChan, hbEngine>>
    BY <1>8 DEF Register
  <2>2. hbSend[c] = <<>>
    BY <2>1 DEF StInv, NotYetWriting, HbQuiet, QuietBefore
  <2>3. CASE UNCHANGED <<hbSend, hbPublished, hbTold>>
    <3>1. hbSend' = [hbSend EXCEPT ![c] = hbSend[c]]
      BY <2>3 DEF HbInv, Sent
    <3>2. Fits(hbSend[c])
      BY DEF HbQuiet, HbRoom
    <3>3. HbRoom' /\ QuietBefore'
      BY <2>1, <3>1, <3>2, OneFits
    <3> QED
      BY <2>1, <2>3, <3>3 DEF HbQuiet
  <2>4. ASSUME NEW r \in 1 .. hbEngine, NEW rev, rev = IF r < hbPublished THEN hbPublished ELSE r,
               hbSend' = [hbSend EXCEPT ![c] = Append(@, Refresh(rev, TRUE))], hbPublished' = rev
        PROVE  HbQuiet'
    <3>1. Append(<<>>, Refresh(rev, TRUE)) = <<Refresh(rev, TRUE)>> /\ Len(<<Refresh(rev, TRUE)>>) = 1
      OBVIOUS
    <3>2. Fits(Append(hbSend[c], Refresh(rev, TRUE)))
      BY <1>0, <2>2, <3>1 DEF Fits
    <3>3. HbRoom' /\ QuietBefore'
      BY <2>1, <2>4, <3>2, OneFits
    <3>4. rev <= hbEngine
      BY <1>0, <2>4 DEF HbQuiet
    <3> QED
      BY <2>1, <2>4, <3>3, <3>4 DEF HbQuiet
  <2> QED
    BY <1>8, <2>3, <2>4 DEF Register
<1>9. ASSUME NEW k \in HbKinds, NEW t \in HbTenants, Broadcast(k, t) PROVE HbQuiet'
  <2>1. /\ UNCHANGED <<hbWriter, hbSend, hbClients, hbPublished, hbEngine>>
        /\ hbChan' = IF Len(hbChan[k]) < HbChanCap
                     THEN [hbChan EXCEPT ![k] = Append(@, [tenant |-> t])] ELSE hbChan
    BY <1>9 DEF Broadcast, hbConnVars, hbTopoVars
  <2>2. hbChan \in [HbKinds -> Seq(HbEntry)] /\ [tenant |-> t] \in HbEntry
    BY DEF HbInv, HbEntry
  <2>3. Len(Append(hbChan[k], [tenant |-> t])) = Len(hbChan[k]) + 1 /\ Len(hbChan[k]) \in Nat
    BY <2>2, AppendProperties, LenProperties
  <2>4. \A j \in HbKinds : Len(hbChan'[j]) <= HbChanCap
    BY <1>0, <2>1, <2>2, <2>3 DEF HbQuiet, HbRoom
  <2> QED
    BY <2>1, <2>4 DEF HbQuiet, HbRoom, QuietBefore
<1>10. ASSUME NEW f, FanFits(Fan, f), hbSend' = f.send, hbClients' = f.clients,
              UNCHANGED <<hbWriter, hbPublished, hbEngine>>,
              \A k \in HbKinds : Len(hbChan'[k]) <= HbChanCap
       PROVE  HbQuiet'
  BY <1>10, AppliedFits DEF HbQuiet, HbRoom
<1>11. \A k \in HbKinds : Len(hbChan[k]) <= HbChanCap
  BY DEF HbQuiet, HbRoom
<1>12. hbBuf \in [HbKinds -> Seq(HbEntry)] /\ Fan \in Fans
  BY DEF HbInv, Fan, Fans
<1>13. ASSUME NEW k \in HbKinds, Buffer(k) PROVE HbQuiet'
  <2> DEFINE bufs == [hbBuf EXCEPT ![k] = Append(@, Head(hbChan[k]))]
  <2>1. /\ hbChan \in [HbKinds -> Seq(HbEntry)] /\ hbChan[k] # <<>> /\ hbBuf[k] \in Seq(HbEntry)
        /\ hbChan' = [hbChan EXCEPT ![k] = Tail(@)]
    BY <1>13 DEF Buffer, HbInv
  <2>2. Append(hbBuf[k], Head(hbChan[k])) \in Seq(HbEntry)
    BY <2>1, HeadTailProperties, AppendProperties
  <2>3. bufs \in [HbKinds -> Seq(HbEntry)]
    BY <1>12, <2>2
  <2>4. (Apply(Flushed(bufs)) \/ Apply(Fan)) /\ UNCHANGED <<hbWriter, hbPublished, hbEngine>>
    BY <1>13 DEF Buffer, hbTopoVars
  <2> HIDE DEF bufs
  <2>5. Len(Tail(hbChan[k])) = Len(hbChan[k]) - 1 /\ Len(hbChan[k]) \in Nat
    BY <2>1, HeadTailProperties, LenProperties
  <2>6. \A j \in HbKinds : Len(hbChan'[j]) <= HbChanCap
    BY <1>0, <1>11, <2>1, <2>5
  <2>7. FanFits(Fan, Fan) /\ FanFits(Fan, Flushed(bufs))
    BY <2>3, FlushedFits DEF FanFits
  <2> QED
    BY <1>10, <2>4, <2>6, <2>7 DEF Apply
<1>14. ASSUME FlushTick PROVE HbQuiet'
  <2>1. Apply(Flushed(hbBuf)) /\ UNCHANGED <<hbWriter, hbChan, hbPublished, hbEngine>>
    BY <1>14 DEF FlushTick, hbTopoVars
  <2>2. FanFits(Fan, Flushed(hbBuf))
    BY <1>12, FlushedFits
  <2> QED
    BY <1>10, <1>11, <2>1, <2>2 DEF Apply
<1>15. ASSUME RunStops PROVE HbQuiet'
  <2>1. PICK f \in Fans : f = Flushed(hbBuf) /\ FanFits(Fan, f)
    BY <1>12, FlushedSound, FlushedFits
  <2> DEFINE g == [f EXCEPT !.closed = [c \in HbClients |-> @[c] \/ c \in f.clients]]
  <2>2. Apply(g) /\ UNCHANGED <<hbWriter, hbChan, hbPublished, hbEngine>>
    BY <1>15, <2>1 DEF RunStops, hbTopoVars
  <2>3. g.send = f.send /\ g.clients = f.clients
    BY DEF Fans
  <2> HIDE DEF g
  <2> QED
    BY <1>10, <1>11, <2>1, <2>2, <2>3 DEF Apply
<1>16. ASSUME PublishTopology PROVE HbQuiet'
  <2>1. PICK r \in 1 .. hbEngine :
          /\ hbPublished' = r
          /\ Apply(Sends(Fan, hbClients, [c \in HbClients |-> Refresh(r, FALSE)]))
    BY <1>16 DEF PublishTopology
  <2>2. UNCHANGED <<hbWriter, hbChan, hbEngine>>
    BY <1>16 DEF PublishTopology
  <2> DEFINE g == Sends(Fan, hbClients, [c \in HbClients |-> Refresh(r, FALSE)])
  <2>3. hbClients \in SUBSET Fan.clients
    BY DEF Fan
  <2>4. FanFits(Fan, g)
    BY <1>12, <2>3, SendsFit
  <2>5. hbSend' = g.send /\ hbClients' = g.clients
    BY <2>1 DEF Apply
  <2> HIDE DEF g
  <2>6. QuietBefore' /\ \A c \in HbClients : Fits(hbSend'[c])
    BY <2>2, <2>4, <2>5, AppliedFits DEF HbQuiet
  <2> QED
    BY <1>0, <1>11, <2>1, <2>2, <2>6 DEF HbQuiet, HbRoom
<1>17. ASSUME EngineMoves PROVE HbQuiet'
  <2>1. /\ hbEngine < HbMaxRev /\ hbEngine' = hbEngine + 1
        /\ UNCHANGED <<hbWriter, hbSend, hbChan, hbClients, hbPublished>>
    BY <1>17 DEF EngineMoves, hbConnVars
  <2> QED
    BY <1>0, <2>1 DEF HbQuiet, HbRoom, QuietBefore
<1>18. ASSUME HbStartRun \/ StopBegins \/ StopSignals \/ StopWaits PROVE HbQuiet'
  <2>1. UNCHANGED <<hbWriter, hbSend, hbChan, hbClients, hbPublished, hbEngine>>
    BY <1>18 DEF HbStartRun, StopBegins, StopSignals, StopWaits, hbConnVars, hbTopoVars
  <2> QED
    BY <1>1, <2>1
<1> QED
  BY <1>4, <1>5, <1>6, <1>7, <1>8, <1>9, <1>13, <1>14, <1>15, <1>16, <1>17, <1>18
     DEF HbNext, HbProgress

\* Every step keeps the counter and the cap.
LEMMA SlotsStep ==
  ASSUME HbInv, StInv, HbSlots, HbNext
  PROVE  HbSlots'
<1>1. ASSUME UNCHANGED <<hbHandler, hbWriter, hbCount>> PROVE HbSlots'
  <2>1. Slots' = Slots /\ Accepted' = Accepted
    BY <1>1 DEF Slots, Accepted, Awaited
  <2> QED
    BY <1>1, <2>1, SlotsStay
<1>2. CASE \E c \in HbClients :
             \/ NotAccepted(c) \/ AdmitWriter(c) \/ RegisterRefused(c) \/ HbWrite(c) \/ WriterDrained(c)
             \/ UnregisterAbandoned(c) \/ Register(c) \/ Unregister(c) \/ Arrive(c) \/ ReaderEnds(c)
  BY <1>2, SlotsConnStep
<1>3. CASE (\E k \in HbKinds : Buffer(k)) \/ FlushTick \/ PublishTopology \/ RunStops
  BY <1>1, <1>3 DEF Buffer, FlushTick, PublishTopology, RunStops
<1>4. CASE \/ StopBegins \/ StopSignals \/ StopWaits \/ HbStartRun \/ EngineMoves
           \/ \E k \in HbKinds, t \in HbTenants : Broadcast(k, t)
  BY <1>1, <1>4 DEF StopBegins, StopSignals, StopWaits, HbStartRun, EngineMoves, Broadcast, hbConnVars
<1> QED
  BY <1>2, <1>3, <1>4 DEF HbNext, HbProgress

\* A process has panicked or not.
LEMMA PanicIsBoolean ==
  ASSUME HbInv, hbPanic \in BOOLEAN, HbNext
  PROVE  hbPanic' \in BOOLEAN
<1>1. ASSUME NEW f \in Fans, Apply(f) PROVE hbPanic' \in BOOLEAN
  BY <1>1 DEF Apply, Fans
<1>2. hbBuf \in [HbKinds -> Seq(HbEntry)] /\ Fan \in Fans
  BY DEF HbInv, Fan, Fans
<1>3. ASSUME NEW k \in HbKinds, Buffer(k) PROVE hbPanic' \in BOOLEAN
  <2> DEFINE bufs == [hbBuf EXCEPT ![k] = Append(@, Head(hbChan[k]))]
  <2>1. hbChan[k] \in Seq(HbEntry) /\ hbChan[k] # <<>> /\ hbBuf[k] \in Seq(HbEntry)
    BY <1>3 DEF Buffer, HbInv
  <2>2. Append(hbBuf[k], Head(hbChan[k])) \in Seq(HbEntry)
    BY <2>1, HeadTailProperties, AppendProperties
  <2>3. bufs \in [HbKinds -> Seq(HbEntry)]
    BY <1>2, <2>2
  <2>4. Apply(Flushed(bufs)) \/ Apply(Fan)
    BY <1>3 DEF Buffer
  <2> HIDE DEF bufs
  <2> QED
    BY <1>1, <1>2, <2>3, <2>4, FlushedSound
<1>4. ASSUME FlushTick PROVE hbPanic' \in BOOLEAN
  BY <1>1, <1>2, <1>4, FlushedSound DEF FlushTick
<1>5. ASSUME RunStops PROVE hbPanic' \in BOOLEAN
  <2>1. PICK f \in Fans : f = Flushed(hbBuf)
    BY <1>2, FlushedSound
  <2>2. Apply([f EXCEPT !.closed = [c \in HbClients |-> @[c] \/ c \in f.clients]])
    BY <1>5, <2>1 DEF RunStops
  <2> QED
    BY <2>2 DEF Apply, Fans
<1>6. ASSUME PublishTopology PROVE hbPanic' \in BOOLEAN
  <2>1. PICK r \in 1 .. hbEngine : Apply(Sends(Fan, hbClients, [c \in HbClients |-> Refresh(r, FALSE)]))
    BY <1>6 DEF PublishTopology
  <2>2. hbPanic' = Sends(Fan, hbClients, [c \in HbClients |-> Refresh(r, FALSE)]).panic
    BY <2>1 DEF Apply
  <2> QED
    BY <2>2 DEF Sends, Fan
<1>7. ASSUME NEW c \in HbClients,
             \/ NotAccepted(c) \/ AdmitWriter(c) \/ RegisterRefused(c) \/ HbWrite(c) \/ WriterDrained(c)
             \/ UnregisterAbandoned(c) \/ Register(c) \/ Unregister(c) \/ Arrive(c) \/ ReaderEnds(c)
      PROVE  hbPanic' = hbPanic
  BY <1>7 DEF NotAccepted, AdmitWriter, RegisterRefused, HbWrite, WriterDrained, UnregisterAbandoned, Register,
     Unregister, Arrive, ReaderEnds
<1>8. ASSUME \/ StopBegins \/ StopSignals \/ StopWaits \/ HbStartRun \/ EngineMoves
             \/ \E k \in HbKinds, t \in HbTenants : Broadcast(k, t)
      PROVE  hbPanic' = hbPanic
  BY <1>8 DEF StopBegins, StopSignals, StopWaits, HbStartRun, EngineMoves, Broadcast
<1> QED
  BY <1>3, <1>4, <1>5, <1>6, <1>7, <1>8 DEF HbNext, HbProgress

\* The hub keeps its limits in every state, and its state is well typed: no interleaving of
\* upgrades, refusals, registrations, dropped slow clients and Stop accepts more than
\* maxClients at a time, loses or doubles a slot, or queues more than a channel holds
\* (hub.go: HandleWebSocket, admitWriter, broadcastTagged, Run).
THEOREM HubKeepsLimits == HbSpec => [](HbLimits /\ HbTypeOK)
<1>1. ASSUME HbInit PROVE HbSlots /\ HbQuiet /\ hbMode \in {"legacy", "aggregate"} /\ hbPanic \in BOOLEAN
  <2>1. Slots = {} /\ Accepted = {}
    BY <1>1 DEF HbInit, HbInitIn, Slots, Accepted, Awaited
  <2>2. Cardinality(Slots) = 0 /\ Cardinality(Accepted) = 0
    BY <2>1, FS_EmptySet
  <2>3. Len(<<>>) = 0
    OBVIOUS
  <2>4. HbSlots
    BY <1>1, <2>2, HbAssumption DEF HbInit, HbInitIn, HbSlots
  <2>5. HbRoom /\ QuietBefore
    BY <1>1, <2>3, HbAssumption DEF HbInit, HbInitIn, HbRoom, QuietBefore, Fits
  <2>6. hbEngine = 1 /\ hbPublished = 0 /\ HbMaxRev \in Nat /\ HbMaxRev # 0
    BY <1>1, HbAssumption DEF HbInit, HbInitIn
  <2>7. hbPublished <= hbEngine /\ hbEngine \in 1 .. HbMaxRev
    BY <2>6
  <2> QED
    BY <1>1, <2>4, <2>5, <2>7 DEF HbInit, HbInitIn, HbQuiet
<1>2. ASSUME HbInv /\ StInv, HbSlots /\ HbQuiet /\ hbMode \in {"legacy", "aggregate"} /\ hbPanic \in BOOLEAN,
             [HbNext]_hbVars
      PROVE  (HbSlots /\ HbQuiet /\ hbMode \in {"legacy", "aggregate"} /\ hbPanic \in BOOLEAN)'
  <2>1. CASE HbNext
    <3>1. HbSlots' /\ HbQuiet'
      BY <1>2, <2>1, SlotsStep, RoomStep
    <3>2. hbMode' = hbMode
      BY <2>1 DEF HbNext, HbProgress, NotAccepted, AdmitWriter, RegisterRefused, HbWrite, WriterDrained,
         UnregisterAbandoned, Register, Unregister, Arrive, ReaderEnds, Buffer, FlushTick, PublishTopology,
         RunStops, StopBegins, StopSignals, StopWaits, HbStartRun, EngineMoves, Broadcast
    <3>3. hbPanic' \in BOOLEAN
      BY <1>2, <2>1, PanicIsBoolean
    <3> QED
      BY <1>2, <3>1, <3>2, <3>3
  <2>2. CASE UNCHANGED hbVars
    <3>1. UNCHANGED <<hbMode, hbHandler, hbWriter, hbSend, hbChan, hbClients, hbCount, hbPublished, hbEngine, hbPanic>>
      BY <2>2 DEF hbVars, hbConnVars, hbTopoVars
    <3>2. Slots' = Slots /\ Accepted' = Accepted
      BY <3>1 DEF Slots, Accepted, Awaited
    <3> QED
      BY <1>2, <3>1, <3>2 DEF HbSlots, HbQuiet, HbRoom, QuietBefore
  <2> QED
    BY <1>2, <2>1, <2>2
<1>3. ASSUME HbInv /\ StInv, HbSlots /\ HbQuiet /\ hbMode \in {"legacy", "aggregate"} /\ hbPanic \in BOOLEAN
      PROVE  HbLimits /\ HbTypeOK
  <2>1. HbLimits
    BY <1>3 DEF HbLimits, HbSlots, HbQuiet, HbRoom, Fits
  <2>2. hbCount \in Nat /\ hbWg \in Nat
    BY <1>3, SlotsFinite, AwaitedFinite DEF HbSlots, StInv, WaitsForThem
  <2>3. hbTold \in [HbClients -> 0 .. hbEngine]
    BY <1>3 DEF HbInv, HbQuiet
  <2> QED
    BY <1>3, <2>1, <2>2, <2>3 DEF HbTypeOK, HbInv, HbLimits, StInv, Places, HbQuiet
<1> QED
  BY <1>1, <1>2, <1>3, HubInvariant, PTL DEF HbSpec

-------------------------------------------------------------------------------
(* The event hub.                                                          *)

\* An entry a client may see, and a message that holds no other.
EhScoped(c) == {e \in EhEntrySet : EhTenant[c] \in {0, e.tenant}}
EhTypes == {"snapshot", "logs", "metrics"}
EhMsgFor(c) == [kind : EhTypes, rev : Nat, reset : BOOLEAN, entries : Seq(EhScoped(c))]
EhMsgs == [kind : EhTypes, rev : Nat, reset : BOOLEAN, entries : Seq(EhEntrySet)]
EhQueues == {g \in [EhClients -> Seq(EhMsgs)] : \A c \in EhClients : g[c] \in Seq(EhMsgFor(c))}
EhPubs == [rev : Nat, reset : BOOLEAN, groups : [Scopes -> SUBSET EhClients], todo : SUBSET Scopes,
           made : [Scopes -> Nat]]

\* Where a handler is before its seed was queued, and after its seed was attempted.
BeforeSeed == {"out", "refused", "counted", "added", "render", "send"}
EhPlaces == BeforeSeed \cup {"unseeded", "adopt", "attempted", "reading", "gone"}

EhShapes ==
  /\ ehHandler \in [EhClients -> EhPlaces]
  /\ ehSeed \in [EhClients -> Nat] /\ ehSeeded \in [EhClients -> BOOLEAN]
  /\ ehClients \in SUBSET EhClients
  /\ ehChan \in [EhKinds -> Seq(EhEntrySet)] /\ ehBuf \in [EhKinds -> Seq(EhEntrySet)]
  /\ ehSend \in EhQueues /\ ehOut \in EhQueues
  /\ ehPub \in EhPubs
  /\ ehRetry \in BOOLEAN /\ ehEngine \in Nat
  /\ ehTold \in [EhClients -> Nat]

\* A client is told nothing before its seed, and is seeded after it was told it.
SeedFirst ==
  \A c \in EhClients :
    /\ ehSeed[c] <= ehEngine /\ ehTold[c] <= ehEngine
    /\ ~ Aggregate => ehSeed[c] = 0 /\ ehTold[c] = 0
    /\ ehHandler[c] \in BeforeSeed => ehTold[c] = 0
    /\ ehSeeded[c] => ehHandler[c] \in {"reading", "gone"}

\* The loop renders only when it has delivered everything.
OneDuty ==
  /\ ehLoop = "rendering" => ehOut = Nothing
  /\ \A c \in EhClients : ehAt = {c} => ehOut[c] # <<>>

\* What a scope was rendered from is no older than what its clients were told.
RenderedAhead ==
  ehLoop = "rendering" =>
    \A k \in Scopes : \A c \in ehPub.groups[k] :
      /\ ehSeeded[c]
      /\ k \notin ehPub.todo =>
           /\ ehPub.made[k] >= ehTold[c] /\ ehPub.made[k] <= ehEngine
           /\ ~ Aggregate => ehPub.made[k] = 0

\* A snapshot to be delivered is the only message for its client, and no older
\* than what the client was told.
DeliveredAhead ==
  \A c \in EhClients : \A i \in DOMAIN ehOut[c] :
    ehOut[c][i].kind = "snapshot" =>
      /\ ehSeeded[c] /\ Len(ehOut[c]) = 1
      /\ ehOut[c][i].rev >= ehTold[c] /\ ehOut[c][i].rev <= ehEngine
      /\ ~ Aggregate => ehOut[c][i].rev = 0

EhInv == EhShapes /\ SeedFirst /\ OneDuty /\ RenderedAhead /\ DeliveredAhead

EhForward == \A c \in EhClients : ehTold'[c] >= ehTold[c]

\* A message of a scope is a message.
LEMMA EhScopedAreMessages == \A c \in EhClients : EhMsgFor(c) \subseteq EhMsgs
<1> SUFFICES ASSUME NEW c \in EhClients, NEW x \in EhMsgFor(c) PROVE x \in EhMsgs
  OBVIOUS
<1>1. /\ x.entries \in Seq(EhScoped(c)) /\ x.rev \in Nat /\ x.reset \in BOOLEAN /\ x.kind \in EhTypes
      /\ x = [kind |-> x.kind, rev |-> x.rev, reset |-> x.reset, entries |-> x.entries]
  BY DEF EhMsgFor
<1>2. x.entries \in Seq(EhEntrySet)
  BY <1>1 DEF EhScoped
<1> QED
  BY <1>1, <1>2 DEF EhMsgs

\* Another queue for one client.
LEMMA OtherQueue ==
  ASSUME NEW q \in EhQueues, NEW c \in EhClients, NEW s \in Seq(EhMsgFor(c))
  PROVE  [q EXCEPT ![c] = s] \in EhQueues
<1>1. s \in Seq(EhMsgs)
  <2>1. EhMsgFor(c) \subseteq EhMsgs
    BY EhScopedAreMessages
  <2> QED
    BY <2>1
<1> QED
  BY <1>1 DEF EhQueues

\* A snapshot is a message for anyone.
LEMMA SnapFits ==
  ASSUME NEW c \in EhClients, NEW rev \in Nat, NEW reset \in BOOLEAN
  PROVE  Snap(rev, reset) \in EhMsgFor(c) /\ <<>> \in Seq(EhMsgFor(c))
<1>1. <<>> \in Seq(EhScoped(c)) /\ <<>> \in Seq(EhMsgFor(c))
  BY EmptySeq
<1> QED
  BY <1>1 DEF Snap, EhMsgFor, EhTypes

\* enqueue: one more message, or a client removed, or a panic.
LEMMA Enqueued ==
  ASSUME EhShapes, NEW c \in EhClients, NEW msg \in EhMsgFor(c), EhEnqueue(c, msg)
  PROVE  /\ ehSend' \in EhQueues
         /\ ehClients' \in SUBSET EhClients
         /\ \/ ehTold' = ehTold
            \/ msg.kind = "snapshot" /\ ehTold' = [ehTold EXCEPT ![c] = msg.rev]
<1>1. ehSend \in EhQueues /\ ehSend[c] \in Seq(EhMsgFor(c))
  BY DEF EhShapes, EhQueues
<1>2. Append(ehSend[c], msg) \in Seq(EhMsgFor(c))
  BY <1>1, AppendProperties
<1>3. [ehSend EXCEPT ![c] = Append(ehSend[c], msg)] \in EhQueues
  BY <1>1, <1>2, OtherQueue
<1>4. ehSend' = ehSend \/ ehSend' = [ehSend EXCEPT ![c] = Append(ehSend[c], msg)]
  BY DEF EhEnqueue
<1>5. ehClients' \in SUBSET EhClients
  BY DEF EhEnqueue, RemoveClient, EhShapes
<1>6. \/ ehTold' = ehTold
      \/ msg.kind = "snapshot" /\ ehTold' = [ehTold EXCEPT ![c] = msg.rev]
  BY DEF EhEnqueue
<1> QED
  BY <1>1, <1>3, <1>4, <1>5, <1>6

\* Steps that tell nobody anything and leave the loop alone.
LEMMA QuietStep ==
  ASSUME EhInv, EhShapes', UNCHANGED <<ehMode, ehTold, ehOut, ehPub, ehLoop, ehAt>>,
         ehEngine' >= ehEngine,
         \A c \in EhClients : /\ ehSeed'[c] <= ehEngine' /\ (~ Aggregate => ehSeed'[c] = 0)
                              /\ ehHandler'[c] \in BeforeSeed => ehHandler[c] \in BeforeSeed
                              /\ ehSeeded[c] => ehSeeded'[c]
                              /\ ehSeeded'[c] => ehHandler'[c] \in {"reading", "gone"}
  PROVE  EhInv' /\ EhForward
<1>0. /\ \A c \in EhClients : ehTold[c] \in Nat /\ ehTold'[c] = ehTold[c]
      /\ ehEngine \in Nat /\ ehEngine' \in Nat /\ Aggregate' = Aggregate
      /\ ehPub.made \in [Scopes -> Nat] /\ ehPub.groups \in [Scopes -> SUBSET EhClients]
  BY DEF EhInv, EhShapes, Aggregate, EhPubs
<1>1. SeedFirst'
  BY <1>0 DEF EhInv, SeedFirst
<1>2. OneDuty'
  BY DEF EhInv, OneDuty, Nothing
<1>3. RenderedAhead'
  <2> SUFFICES ASSUME ehLoop = "rendering", NEW k \in Scopes, NEW c \in ehPub.groups[k]
               PROVE  /\ ehSeeded'[c]
                      /\ k \notin ehPub.todo =>
                           /\ ehPub.made[k] >= ehTold[c] /\ ehPub.made[k] <= ehEngine'
                           /\ ~ Aggregate => ehPub.made[k] = 0
    BY <1>0 DEF RenderedAhead, Scopes
  <2>1. c \in EhClients /\ ehPub.made[k] \in Nat
    BY <1>0
  <2> QED
    BY <1>0, <2>1 DEF EhInv, RenderedAhead
<1>4. DeliveredAhead'
  <2> SUFFICES ASSUME NEW c \in EhClients, NEW i \in DOMAIN ehOut[c], ehOut[c][i].kind = "snapshot"
               PROVE  /\ ehSeeded'[c] /\ Len(ehOut[c]) = 1
                      /\ ehOut[c][i].rev >= ehTold[c] /\ ehOut[c][i].rev <= ehEngine'
                      /\ ~ Aggregate => ehOut[c][i].rev = 0
    BY <1>0 DEF DeliveredAhead
  <2>1. ehOut[c][i].rev \in Nat
    <3>1. ehOut[c] \in Seq(EhMsgs)
      BY DEF EhInv, EhShapes, EhQueues
    <3>2. ehOut[c][i] \in EhMsgs
      BY <3>1, ElementOfSeq, LenProperties
    <3> QED
      BY <3>2 DEF EhMsgs
  <2> QED
    BY <1>0, <2>1 DEF EhInv, DeliveredAhead
<1>5. EhForward
  BY <1>0 DEF EhForward
<1> QED
  BY <1>1, <1>2, <1>3, <1>4, <1>5 DEF EhInv

\* Connections, the writer, the entry channels, the engine and Stop tell nobody
\* anything.
LEMMA QuietSteps ==
  ASSUME EhInv,
         \/ \E c \in EhClients :
              \/ EhArrive(c) \/ AddClient(c) \/ StartWriter(c) \/ RenderSeed(c) \/ AdoptSeed(c)
              \/ SeedFailed(c) \/ Seeded(c) \/ ReadEnds(c) \/ EhWrite(c)
              \/ \E s \in EhServices : UpdateClientFilter(c, s)
         \/ NotifyRefresh \/ EhEngineMoves \/ EhStopSignal \/ StopCloses \/ StopReturns
         \/ \E k \in EhKinds : BufferEntry(k) \/ \E e \in EhEntrySet : BroadcastLog(k, e)
  PROVE  EhInv' /\ EhForward
<1> USE DEF ehConnVars, ehQueueVars, ehLoopVars, ehBatchVars, ehIdVars
<1>0. /\ EhShapes
      /\ \A c \in EhClients : ehSeed[c] <= ehEngine /\ (~ Aggregate => ehSeed[c] = 0)
      /\ \A c \in EhClients : ehSeeded[c] => ehHandler[c] \in {"reading", "gone"}
      /\ ehEngine \in Nat
  BY DEF EhInv, SeedFirst, EhShapes
<1> DEFINE Quiet ==
      /\ EhShapes' /\ UNCHANGED <<ehMode, ehTold, ehOut, ehPub, ehLoop, ehAt>>
      /\ ehEngine' >= ehEngine
      /\ \A c \in EhClients : /\ ehSeed'[c] <= ehEngine' /\ (~ Aggregate => ehSeed'[c] = 0)
                              /\ ehHandler'[c] \in BeforeSeed => ehHandler[c] \in BeforeSeed
                              /\ ehSeeded[c] => ehSeeded'[c]
                              /\ ehSeeded'[c] => ehHandler'[c] \in {"reading", "gone"}
<1> SUFFICES Quiet
  BY QuietStep
<1>1. ASSUME NEW c \in EhClients, NEW from \in EhPlaces, NEW pc \in EhPlaces, ehHandler[c] = from,
             EhGoto(c, pc), pc \in BeforeSeed => from \in BeforeSeed,
             from \notin {"reading", "gone"} \/ pc = "gone",
             UNCHANGED <<ehMode, ehTold, ehOut, ehPub, ehLoop, ehAt, ehEngine, ehSeeded, ehSend,
                         ehChan, ehBuf>>,
             ehClients' \in SUBSET EhClients, ehRetry' \in BOOLEAN,
             \/ ehSeed' = ehSeed
             \/ ehSeed' = [ehSeed EXCEPT ![c] = IF Aggregate THEN ehEngine ELSE 0]
      PROVE  Quiet
  <2>1. ehHandler' = [ehHandler EXCEPT ![c] = pc]
    BY <1>1 DEF EhGoto
  <2>2. ehHandler' \in [EhClients -> EhPlaces]
    BY <1>0, <2>1 DEF EhShapes
  <2>3. /\ ehSeed' \in [EhClients -> Nat]
        /\ \A d \in EhClients : ehSeed'[d] <= ehEngine /\ (~ Aggregate => ehSeed'[d] = 0)
    <3>1. ehSeed \in [EhClients -> Nat]
      BY <1>0 DEF EhShapes
    <3>2. CASE ehSeed' = ehSeed
      BY <1>0, <3>1, <3>2
    <3>3. CASE ehSeed' = [ehSeed EXCEPT ![c] = IF Aggregate THEN ehEngine ELSE 0]
      <4>1. PICK r \in Nat : r = IF Aggregate THEN ehEngine ELSE 0
        BY <1>0
      <4>2. r <= ehEngine /\ (~ Aggregate => r = 0)
        BY <1>0, <4>1
      <4> HIDE DEF Quiet
      <4> QED
        BY <1>0, <3>1, <3>3, <4>1, <4>2
    <3> QED
      BY <1>1, <3>2, <3>3
  <2>4. EhShapes'
    BY <1>0, <1>1, <2>2, <2>3 DEF EhShapes
  <2>5. \A d \in EhClients : /\ ehHandler'[d] \in BeforeSeed => ehHandler[d] \in BeforeSeed
                             /\ ehSeeded'[d] => ehHandler'[d] \in {"reading", "gone"}
    BY <1>0, <1>1, <2>1 DEF EhShapes
  <2> QED
    BY <1>0, <1>1, <2>3, <2>4, <2>5
<1>2. ASSUME NEW c \in EhClients, EhArrive(c) PROVE Quiet
  <2>1. ehClients' \in SUBSET EhClients /\ ehRetry' \in BOOLEAN
    BY <1>0, <1>2 DEF EhArrive, EhShapes
  <2>2. CASE EhGoto(c, "refused")
    BY <1>1, <1>2, <2>1, <2>2 DEF EhArrive, EhPlaces, BeforeSeed
  <2>3. CASE EhGoto(c, "counted")
    BY <1>1, <1>2, <2>1, <2>3 DEF EhArrive, EhPlaces, BeforeSeed
  <2> QED
    BY <1>2, <2>2, <2>3 DEF EhArrive
<1>3. ASSUME NEW c \in EhClients, AddClient(c) PROVE Quiet
  <2>1. ehClients' \in SUBSET EhClients /\ ehRetry' \in BOOLEAN
    BY <1>0, <1>3 DEF AddClient, EhShapes
  <2>2. CASE EhGoto(c, "gone")
    BY <1>1, <1>3, <2>1, <2>2 DEF AddClient, EhPlaces, BeforeSeed
  <2>3. CASE EhGoto(c, "added")
    BY <1>1, <1>3, <2>1, <2>3 DEF AddClient, EhPlaces, BeforeSeed
  <2> QED
    BY <1>3, <2>2, <2>3 DEF AddClient
<1>4. ASSUME NEW c \in EhClients, StartWriter(c) PROVE Quiet
  <2>1. ehClients' \in SUBSET EhClients /\ ehRetry' \in BOOLEAN
    BY <1>0, <1>4 DEF StartWriter, EhShapes
  <2> QED
    BY <1>1, <1>4, <2>1 DEF StartWriter, EhPlaces, BeforeSeed
<1>5. ASSUME NEW c \in EhClients, RenderSeed(c) PROVE Quiet
  <2>1. ehClients' \in SUBSET EhClients /\ ehRetry' \in BOOLEAN
    BY <1>0, <1>5 DEF RenderSeed, EhShapes
  <2>2. CASE EhGoto(c, "unseeded") /\ UNCHANGED ehSeed
    BY <1>1, <1>5, <2>1, <2>2 DEF RenderSeed, EhPlaces, BeforeSeed
  <2>3. CASE EhGoto(c, "adopt") /\ ehSeed' = [ehSeed EXCEPT ![c] = IF Aggregate THEN ehEngine ELSE 0]
    BY <1>1, <1>5, <2>1, <2>3 DEF RenderSeed, EhPlaces, BeforeSeed
  <2>4. CASE EhGoto(c, "send") /\ ehSeed' = [ehSeed EXCEPT ![c] = IF Aggregate THEN ehEngine ELSE 0]
    BY <1>1, <1>5, <2>1, <2>4 DEF RenderSeed, EhPlaces, BeforeSeed
  <2> QED
    BY <1>5, <2>2, <2>3, <2>4 DEF RenderSeed
<1>6. ASSUME NEW c \in EhClients, AdoptSeed(c) PROVE Quiet
  <2>1. ehClients' \in SUBSET EhClients /\ ehRetry' \in BOOLEAN
    BY <1>0, <1>6 DEF AdoptSeed, EhShapes
  <2> QED
    BY <1>1, <1>6, <2>1 DEF AdoptSeed, EhPlaces, BeforeSeed
<1>7. ASSUME NEW c \in EhClients, SeedFailed(c) PROVE Quiet
  <2>1. ehClients' \in SUBSET EhClients /\ ehRetry' \in BOOLEAN
    BY <1>0, <1>7 DEF SeedFailed, EhShapes
  <2> QED
    BY <1>1, <1>7, <2>1 DEF SeedFailed, EhPlaces, BeforeSeed
<1>8. ASSUME NEW c \in EhClients, Seeded(c) PROVE Quiet
  <2>1. /\ ehHandler' = [ehHandler EXCEPT ![c] = "reading"]
        /\ ehSeeded' = [ehSeeded EXCEPT ![c] = TRUE]
    BY <1>8 DEF Seeded, EhGoto
  <2>2. ehHandler' \in [EhClients -> EhPlaces] /\ ehSeeded' \in [EhClients -> BOOLEAN]
    BY <1>0, <2>1 DEF EhShapes, EhPlaces
  <2>3. EhShapes'
    BY <1>0, <1>8, <2>2 DEF Seeded, EhShapes
  <2>4. \A d \in EhClients : /\ ehHandler'[d] \in BeforeSeed => ehHandler[d] \in BeforeSeed
                             /\ ehSeeded[d] => ehSeeded'[d]
                             /\ ehSeeded'[d] => ehHandler'[d] \in {"reading", "gone"}
    BY <1>0, <2>1 DEF EhShapes, BeforeSeed
  <2> QED
    BY <1>0, <1>8, <2>3, <2>4 DEF Seeded
<1>9. ASSUME NEW c \in EhClients, ReadEnds(c) PROVE Quiet
  <2>1. ehClients' \in SUBSET EhClients /\ ehRetry' \in BOOLEAN
    BY <1>0, <1>9 DEF ReadEnds, RemoveClient, EhShapes
  <2> QED
    BY <1>1, <1>9, <2>1 DEF ReadEnds, EhPlaces, BeforeSeed
<1>10. ASSUME NEW c \in EhClients, EhWrite(c) PROVE Quiet
  <2>1. ehSend \in EhQueues /\ ehSend[c] \in Seq(EhMsgFor(c))
    BY <1>0 DEF EhShapes, EhQueues
  <2>2. ehSend[c] # <<>> => [ehSend EXCEPT ![c] = Tail(ehSend[c])] \in EhQueues
    BY <2>1, HeadTailProperties, OtherQueue
  <2>3. ehSend' \in EhQueues
    BY <1>10, <2>1, <2>2 DEF EhWrite
  <2>4. ehClients' \in SUBSET EhClients
    BY <1>0, <1>10 DEF EhWrite, RemoveClient, EhShapes
  <2>5. EhShapes'
    BY <1>0, <1>10, <2>3, <2>4 DEF EhWrite, EhShapes
  <2> QED
    BY <1>0, <1>10, <2>5 DEF EhWrite
<1>11. ASSUME NEW c \in EhClients, NEW s \in EhServices, UpdateClientFilter(c, s) PROVE Quiet
  <2>1. EhShapes'
    BY <1>0, <1>11 DEF UpdateClientFilter, EhShapes
  <2> QED
    BY <1>0, <1>11, <2>1 DEF UpdateClientFilter
<1>12. ASSUME NotifyRefresh \/ EhStopSignal \/ StopReturns PROVE Quiet
  <2>1. EhShapes'
    BY <1>0, <1>12 DEF NotifyRefresh, EhStopSignal, StopReturns, EhShapes
  <2> QED
    BY <1>0, <1>12, <2>1 DEF NotifyRefresh, EhStopSignal, StopReturns
<1>13. ASSUME EhEngineMoves PROVE Quiet
  <2>1. EhShapes'
    BY <1>0, <1>13 DEF EhEngineMoves, EhShapes
  <2>2. \A c \in EhClients : ehSeed[c] \in Nat
    BY <1>0 DEF EhShapes
  <2> QED
    BY <1>0, <1>13, <2>1, <2>2 DEF EhEngineMoves
<1>14. ASSUME StopCloses PROVE Quiet
  <2>1. EhShapes'
    BY <1>0, <1>14 DEF StopCloses, EhShapes
  <2> QED
    BY <1>0, <1>14, <2>1 DEF StopCloses
<1>15. ASSUME NEW k \in EhKinds, BufferEntry(k) PROVE Quiet
  <2>1. ehChan[k] \in Seq(EhEntrySet) /\ ehChan[k] # <<>> /\ ehBuf[k] \in Seq(EhEntrySet)
    BY <1>0, <1>15 DEF BufferEntry, EhShapes
  <2>2. Head(ehChan[k]) \in EhEntrySet /\ Tail(ehChan[k]) \in Seq(EhEntrySet)
    BY <2>1, HeadTailProperties
  <2>3. Append(ehBuf[k], Head(ehChan[k])) \in Seq(EhEntrySet)
    BY <2>1, <2>2, AppendProperties
  <2>4. ehChan' \in [EhKinds -> Seq(EhEntrySet)] /\ ehBuf' \in [EhKinds -> Seq(EhEntrySet)]
    BY <1>0, <1>15, <2>2, <2>3 DEF BufferEntry, EhShapes
  <2>5. EhShapes'
    BY <1>0, <1>15, <2>4 DEF BufferEntry, EhShapes
  <2> QED
    BY <1>0, <1>15, <2>5 DEF BufferEntry
<1>16. ASSUME NEW k \in EhKinds, NEW e \in EhEntrySet, BroadcastLog(k, e) PROVE Quiet
  <2>1. Append(ehChan[k], e) \in Seq(EhEntrySet)
    BY <1>0, AppendProperties DEF EhShapes
  <2>2. ehChan' \in [EhKinds -> Seq(EhEntrySet)]
    BY <1>0, <1>16, <2>1 DEF BroadcastLog, EhShapes
  <2>3. EhShapes'
    BY <1>0, <1>16, <2>2 DEF BroadcastLog, EhShapes
  <2> QED
    BY <1>0, <1>16, <2>3 DEF BroadcastLog
<1> HIDE DEF Quiet
<1> QED
  BY <1>2, <1>3, <1>4, <1>5, <1>6, <1>7, <1>8, <1>9, <1>10, <1>11, <1>12, <1>13, <1>14, <1>15, <1>16

\* The loop starts, makes and ends a publication, and stops.
LEMMA LoopSteps ==
  ASSUME EhInv,
         \/ PublishIfChanged \/ FlushSnapshots \/ Rendered \/ FlushBatches \/ LoopStops
         \/ \E k \in Scopes : RenderScope(k)
  PROVE  EhInv' /\ EhForward
<1> USE DEF ehConnVars, ehQueueVars, ehLoopVars, ehBatchVars, ehIdVars
<1>0. /\ EhShapes /\ SeedFirst /\ OneDuty /\ RenderedAhead /\ DeliveredAhead
      /\ \A c \in EhClients : ehTold[c] \in Nat
      /\ ehEngine \in Nat
      /\ UNCHANGED <<ehMode, ehTold, ehSeed, ehSeeded, ehHandler, ehEngine, ehClients, ehSend, ehAt>>
  BY DEF EhInv, SeedFirst, EhShapes, PublishIfChanged, FlushSnapshots, Rendered, FlushBatches,
         LoopStops, RenderScope
<1>1. EhForward /\ SeedFirst' /\ Aggregate' = Aggregate
  BY <1>0 DEF EhForward, SeedFirst, Aggregate
<1>2. ASSUME UNCHANGED <<ehOut, ehPub, ehBuf, ehChan>>, ehLoop' # "rendering", ehRetry' \in BOOLEAN
      PROVE  EhInv'
  <2>1. EhShapes'
    BY <1>0, <1>2 DEF EhShapes
  <2>2. OneDuty' /\ RenderedAhead'
    BY <1>0, <1>2 DEF OneDuty, RenderedAhead
  <2>3. DeliveredAhead'
    BY <1>0, <1>1, <1>2 DEF DeliveredAhead
  <2> QED
    BY <1>1, <2>1, <2>2, <2>3 DEF EhInv
<1>3. ASSUME NEW rev \in Nat, NEW reset \in BOOLEAN, Render(rev, reset), LoopFree,
             UNCHANGED <<ehOut, ehBuf, ehChan, ehRetry>>
      PROVE  EhInv'
  <2>1. GroupByScope \in [Scopes -> SUBSET EhClients]
    BY <1>0 DEF GroupByScope, EhShapes
  <2>2. \A k \in Scopes : \A c \in GroupByScope[k] : c \in EhClients /\ ehSeeded[c]
    BY <2>1 DEF GroupByScope
  <2>3. /\ ehPub' = [rev |-> rev, reset |-> reset, groups |-> GroupByScope,
                     todo |-> {k \in Scopes : GroupByScope[k] # {}}, made |-> [k \in Scopes |-> 0]]
        /\ ehLoop' = "rendering" /\ ehOut = Nothing
    BY <1>3 DEF Render, LoopFree
  <2> HIDE DEF GroupByScope
  <2>4. ehPub' \in EhPubs
    BY <2>1, <2>3 DEF EhPubs
  <2>5. EhShapes'
    BY <1>0, <1>3, <2>4 DEF EhShapes
  <2>6. OneDuty'
    BY <1>0, <1>3, <2>3 DEF OneDuty, Nothing
  <2>7. /\ ehPub'.groups = GroupByScope
        /\ \A k \in Scopes : GroupByScope[k] # {} => k \in ehPub'.todo
    BY <2>3
  <2>8. RenderedAhead'
    BY <1>0, <2>2, <2>7 DEF RenderedAhead, Scopes
  <2>9. DeliveredAhead'
    BY <1>0, <1>1, <1>3 DEF DeliveredAhead
  <2> QED
    BY <1>1, <2>5, <2>6, <2>8, <2>9 DEF EhInv
<1>4. CASE PublishIfChanged
  <2>1. CASE ehClients = {}
    BY <1>1, <1>2, <1>4, <2>1 DEF PublishIfChanged, LoopFree
  <2>2. CASE ehClients # {}
    <3>1. ehEngine \in Nat /\ ehRetry \in BOOLEAN
      BY <1>0 DEF EhShapes
    <3>2. Render(ehEngine, ehRetry) /\ LoopFree /\ UNCHANGED <<ehOut, ehBuf, ehChan, ehRetry>>
      BY <1>4, <2>2 DEF PublishIfChanged
    <3> QED
      BY <1>1, <1>3, <3>1, <3>2
  <2> QED
    BY <2>1, <2>2
<1>5. CASE FlushSnapshots
  <2>0. ehRetry' \in BOOLEAN /\ UNCHANGED ehRetry
    BY <1>0, <1>5 DEF FlushSnapshots, EhShapes
  <2>1. CASE ehClients = {}
    BY <1>1, <1>2, <1>5, <2>0, <2>1 DEF FlushSnapshots, LoopFree
  <2>2. CASE ehClients # {}
    <3>1. Render(0, FALSE) /\ LoopFree /\ UNCHANGED <<ehOut, ehBuf, ehChan, ehRetry>>
      BY <1>5, <2>2 DEF FlushSnapshots
    <3> QED
      BY <1>1, <1>3, <3>1
  <2> QED
    BY <2>1, <2>2
<1>6. ASSUME NEW k \in Scopes, RenderScope(k) PROVE EhInv'
  <2>0. /\ ehPub \in EhPubs /\ ehPub.groups \in [Scopes -> SUBSET EhClients]
        /\ ehPub.made \in [Scopes -> Nat] /\ ehPub.todo \in SUBSET Scopes
        /\ ehLoop = "rendering" /\ k \in ehPub.todo /\ ehOut = Nothing
        /\ UNCHANGED <<ehOut, ehBuf, ehChan, ehRetry>>
    BY <1>0, <1>6 DEF EhShapes, EhPubs, RenderScope, OneDuty
  <2>1. OneDuty' /\ DeliveredAhead'
    BY <1>0, <1>1, <2>0 DEF OneDuty, DeliveredAhead, Nothing
  <2>2. CASE ehLoop' = "idle" /\ ehPub' = [ehPub EXCEPT !.todo = {}]
    <3>1. ehPub' \in EhPubs
      BY <2>0, <2>2 DEF EhPubs
    <3>2. EhShapes'
      BY <1>0, <2>0, <3>1 DEF EhShapes
    <3>3. RenderedAhead'
      BY <2>2 DEF RenderedAhead
    <3> QED
      BY <1>1, <2>1, <3>2, <3>3 DEF EhInv
  <2>3. CASE /\ ehPub' = [ehPub EXCEPT !.todo = @ \ {k}, !.made[k] = IF Aggregate THEN ehEngine ELSE 0]
             /\ UNCHANGED ehLoop
    <3>1. PICK r \in Nat : r = IF Aggregate THEN ehEngine ELSE 0
      BY <1>0
    <3>2. /\ ehPub'.groups = ehPub.groups /\ ehPub'.todo = ehPub.todo \ {k}
          /\ ehPub'.made = [ehPub.made EXCEPT ![k] = r]
          /\ ehPub'.rev = ehPub.rev /\ ehPub'.reset = ehPub.reset
          /\ ehPub' \in EhPubs
      BY <2>0, <2>3, <3>1 DEF EhPubs
    <3>3. EhShapes'
      BY <1>0, <2>0, <3>2 DEF EhShapes
    <3>4. RenderedAhead'
      <4> SUFFICES ASSUME NEW j \in Scopes, NEW c \in ehPub.groups[j]
                   PROVE  /\ ehSeeded[c]
                          /\ j \notin ehPub'.todo =>
                               /\ ehPub'.made[j] >= ehTold[c] /\ ehPub'.made[j] <= ehEngine
                               /\ ~ Aggregate => ehPub'.made[j] = 0
        BY <1>0, <1>1, <3>2 DEF RenderedAhead, Scopes
      <4>1. c \in EhClients /\ ehSeeded[c]
        BY <1>0, <2>0 DEF RenderedAhead
      <4>2. CASE j = k
        <5>1. ehPub'.made[j] = r
          BY <2>0, <3>2, <4>2
        <5>2. ehTold[c] <= ehEngine /\ (~ Aggregate => ehTold[c] = 0)
          BY <1>0, <4>1 DEF SeedFirst
        <5> QED
          BY <1>0, <3>1, <4>1, <5>1, <5>2
      <4>3. CASE j # k
        <5>1. ehPub'.made[j] = ehPub.made[j] /\ (j \notin ehPub'.todo => j \notin ehPub.todo)
          BY <2>0, <3>2, <4>3
        <5> QED
          BY <1>0, <2>0, <4>1, <5>1 DEF RenderedAhead
      <4> QED
        BY <4>2, <4>3
    <3> QED
      BY <1>1, <2>1, <3>3, <3>4 DEF EhInv
  <2> QED
    BY <1>6, <2>2, <2>3 DEF RenderScope
<1>7. CASE Rendered
  <2>0. /\ ehPub \in EhPubs /\ ehPub.groups \in [Scopes -> SUBSET EhClients]
        /\ ehPub.made \in [Scopes -> Nat] /\ ehPub.todo = {} /\ ehPub.reset \in BOOLEAN
        /\ ehLoop = "rendering" /\ ehOut = Nothing /\ ehLoop' = "idle"
        /\ UNCHANGED <<ehPub, ehBuf, ehChan>> /\ ehRetry' \in BOOLEAN
    BY <1>0, <1>7 DEF EhShapes, EhPubs, Rendered, OneDuty
  <2> DEFINE Snapshots(c) ==
        {Snap(ehPub.made[k], ehPub.reset) : k \in {j \in Scopes : c \in ehPub.groups[j]}}
  <2>1. ehOut' = [c \in EhClients |->
                   LET ks == {k \in Scopes : c \in ehPub.groups[k]}
                   IN  IF ks = {} THEN <<>>
                       ELSE <<Snap(ehPub.made[CHOOSE k \in ks : TRUE], ehPub.reset)>>]
    BY <1>7 DEF Rendered
  <2>2. \A c \in EhClients : ehOut'[c] = <<>> \/ \E m \in Snapshots(c) : ehOut'[c] = <<m>>
    <3> SUFFICES ASSUME NEW c \in EhClients
                 PROVE  ehOut'[c] = <<>> \/ \E m \in Snapshots(c) : ehOut'[c] = <<m>>
      OBVIOUS
    <3> DEFINE ks == {k \in Scopes : c \in ehPub.groups[k]}
    <3>1. ehOut'[c] = IF ks = {} THEN <<>>
                      ELSE <<Snap(ehPub.made[CHOOSE k \in ks : TRUE], ehPub.reset)>>
      BY <2>1
    <3>2. ks # {} => (CHOOSE k \in ks : TRUE) \in ks
      OBVIOUS
    <3> HIDE DEF ks
    <3>3. ks # {} => Snap(ehPub.made[CHOOSE k \in ks : TRUE], ehPub.reset) \in Snapshots(c)
      BY <3>2 DEF ks
    <3> QED
      BY <3>1, <3>3
  <2>3. \A c \in EhClients : \A m \in Snapshots(c) :
          /\ m \in EhMsgFor(c) /\ ehSeeded[c]
          /\ m.rev \in Nat /\ m.rev >= ehTold[c] /\ m.rev <= ehEngine
          /\ ~ Aggregate => m.rev = 0
    <3> SUFFICES ASSUME NEW c \in EhClients, NEW k \in Scopes, c \in ehPub.groups[k],
                        NEW m, m = Snap(ehPub.made[k], ehPub.reset)
                 PROVE  /\ m \in EhMsgFor(c) /\ ehSeeded[c]
                        /\ m.rev \in Nat /\ m.rev >= ehTold[c] /\ m.rev <= ehEngine
                        /\ ~ Aggregate => m.rev = 0
      OBVIOUS
    <3>1. m \in EhMsgFor(c) /\ m.rev = ehPub.made[k] /\ m.rev \in Nat
      BY <2>0, SnapFits DEF Snap
    <3> QED
      BY <1>0, <2>0, <3>1 DEF RenderedAhead
  <2> HIDE DEF Snapshots
  <2>4. \A c \in EhClients : ehOut'[c] \in Seq(EhMsgFor(c)) /\ ehOut'[c] \in Seq(EhMsgs)
    <3> SUFFICES ASSUME NEW c \in EhClients
                 PROVE  ehOut'[c] \in Seq(EhMsgFor(c)) /\ ehOut'[c] \in Seq(EhMsgs)
      OBVIOUS
    <3>1. EhMsgFor(c) \subseteq EhMsgs
      BY EhScopedAreMessages
    <3>2. CASE ehOut'[c] = <<>>
      BY <3>2, EmptySeq
    <3>3. ASSUME NEW m \in Snapshots(c), ehOut'[c] = <<m>>
          PROVE  ehOut'[c] \in Seq(EhMsgFor(c)) /\ ehOut'[c] \in Seq(EhMsgs)
      <4>1. m \in EhMsgFor(c) /\ m \in EhMsgs
        BY <2>3, <3>1
      <4> QED
        BY <3>3, <4>1
    <3> QED
      BY <2>2, <3>2, <3>3
  <2>5. ehOut' \in EhQueues
    <3>1. DOMAIN ehOut' = EhClients /\ ehOut' = [c \in EhClients |-> ehOut'[c]]
      BY <2>1
    <3> QED
      BY <2>4, <3>1 DEF EhQueues
  <2>6. EhShapes'
    BY <1>0, <2>0, <2>5 DEF EhShapes
  <2>7. OneDuty' /\ RenderedAhead'
    BY <1>0, <2>0 DEF OneDuty, Nothing, RenderedAhead
  <2>8. DeliveredAhead'
    <3> SUFFICES ASSUME NEW c \in EhClients, NEW i \in DOMAIN ehOut'[c]
                 PROVE  /\ ehSeeded[c] /\ Len(ehOut'[c]) = 1
                        /\ ehOut'[c][i].rev >= ehTold[c] /\ ehOut'[c][i].rev <= ehEngine
                        /\ ~ Aggregate => ehOut'[c][i].rev = 0
      BY <1>0, <1>1 DEF DeliveredAhead
    <3>1. PICK m \in Snapshots(c) : ehOut'[c] = <<m>>
      BY <2>2
    <3>2. Len(ehOut'[c]) = 1 /\ ehOut'[c][i] = m
      BY <3>1
    <3> QED
      BY <2>3, <3>2
  <2> QED
    BY <1>1, <2>6, <2>7, <2>8 DEF EhInv
<1>8. CASE FlushBatches
  <2>0. /\ LoopFree /\ UNCHANGED <<ehPub, ehChan, ehRetry, ehLoop>>
        /\ ehBuf' = [k \in EhKinds |-> <<>>]
    BY <1>8 DEF FlushBatches
  <2> DEFINE es(c, k) == Selected(ehBuf[k], {e \in EhEntrySet : Matches(c, e)})
             batch(c, k) == IF es(c, k) = <<>> THEN <<>>
                            ELSE <<[kind |-> k, rev |-> 0, reset |-> FALSE, entries |-> es(c, k)]>>
  <2>1. ehOut' = [c \in EhClients |->
                    IF c \in ehClients THEN batch(c, "logs") \o batch(c, "metrics") ELSE <<>>]
    BY <1>8 DEF FlushBatches
  <2>2. ASSUME NEW c \in EhClients, NEW k \in EhKinds
        PROVE  /\ batch(c, k) \in Seq(EhMsgFor(c))
               /\ \A i \in DOMAIN batch(c, k) : batch(c, k)[i].kind = k
    <3>1. es(c, k) \in Seq({e \in EhEntrySet : Matches(c, e)})
      BY <1>0, SelectedWithin DEF EhShapes
    <3>2. {e \in EhEntrySet : Matches(c, e)} \subseteq EhScoped(c)
      BY DEF EhScoped, Matches
    <3>3. es(c, k) \in Seq(EhScoped(c))
      BY <3>1, <3>2
    <3> HIDE DEF es
    <3>4. [kind |-> k, rev |-> 0, reset |-> FALSE, entries |-> es(c, k)] \in EhMsgFor(c)
      BY <3>3 DEF EhMsgFor, EhTypes, EhKinds
    <3> QED
      BY <3>4
  <2> HIDE DEF batch
  <2>3. ASSUME NEW c \in EhClients
        PROVE  /\ ehOut'[c] \in Seq(EhMsgFor(c)) /\ ehOut'[c] \in Seq(EhMsgs)
               /\ \A i \in DOMAIN ehOut'[c] : ehOut'[c][i].kind # "snapshot"
    <3>1. /\ batch(c, "logs") \in Seq(EhMsgFor(c)) /\ batch(c, "metrics") \in Seq(EhMsgFor(c))
          /\ \A i \in DOMAIN batch(c, "logs") : batch(c, "logs")[i].kind = "logs"
          /\ \A i \in DOMAIN batch(c, "metrics") : batch(c, "metrics")[i].kind = "metrics"
      BY <2>2 DEF EhKinds
    <3>2. PICK a \in Seq(EhMsgFor(c)) : a = batch(c, "logs")
      BY <3>1
    <3>3. PICK b \in Seq(EhMsgFor(c)) : b = batch(c, "metrics")
      BY <3>1
    <3>4. /\ a \o b \in Seq(EhMsgFor(c))
          /\ \A i \in DOMAIN (a \o b) : (a \o b)[i].kind # "snapshot"
      <4>1. Len(a) \in Nat /\ Len(b) \in Nat /\ DOMAIN a = 1 .. Len(a) /\ DOMAIN b = 1 .. Len(b)
        BY LenProperties
      <4>2. /\ a \o b \in Seq(EhMsgFor(c)) /\ DOMAIN (a \o b) = 1 .. Len(a) + Len(b)
            /\ \A i \in 1 .. Len(a) + Len(b) : (a \o b)[i] = IF i <= Len(a) THEN a[i] ELSE b[i - Len(a)]
        BY ConcatProperties, LenProperties
      <4>3. /\ \A i \in 1 .. Len(a) : a[i].kind = "logs"
            /\ \A i \in 1 .. Len(b) : b[i].kind = "metrics"
        BY <3>1, <3>2, <3>3, <4>1
      <4> SUFFICES ASSUME NEW i \in 1 .. Len(a) + Len(b) PROVE (a \o b)[i].kind # "snapshot"
        BY <4>2
      <4>4. CASE i <= Len(a)
        BY <4>1, <4>2, <4>3, <4>4
      <4>5. CASE i > Len(a)
        BY <4>1, <4>2, <4>3, <4>5
      <4> QED
        BY <4>1, <4>4, <4>5
    <3>5. EhMsgFor(c) \subseteq EhMsgs /\ <<>> \in Seq(EhMsgFor(c))
      BY EhScopedAreMessages, EmptySeq
    <3>6. ehOut'[c] = a \o b \/ ehOut'[c] = <<>>
      BY <2>1, <3>2, <3>3
    <3>7. \A t \in Seq(EhMsgFor(c)) : t \in Seq(EhMsgs)
      BY <3>5
    <3>8. CASE ehOut'[c] = <<>>
      BY <3>5, <3>7, <3>8
    <3>9. CASE ehOut'[c] = a \o b
      BY <3>4, <3>7, <3>9
    <3> QED
      BY <3>6, <3>8, <3>9
  <2>4. ehOut' \in EhQueues
    <3>1. DOMAIN ehOut' = EhClients /\ ehOut' = [c \in EhClients |-> ehOut'[c]]
      BY <2>1
    <3> QED
      BY <2>3, <3>1 DEF EhQueues
  <2>5. ehBuf' \in [EhKinds -> Seq(EhEntrySet)]
    BY <2>0, EmptySeq
  <2>6. EhShapes'
    BY <1>0, <2>0, <2>4, <2>5 DEF EhShapes
  <2>7. OneDuty' /\ RenderedAhead'
    BY <1>0, <2>0 DEF OneDuty, Nothing, RenderedAhead, LoopFree
  <2>8. DeliveredAhead'
    BY <2>3 DEF DeliveredAhead
  <2> QED
    BY <1>1, <2>6, <2>7, <2>8 DEF EhInv
<1>9. CASE LoopStops
  <2>1. ehRetry' \in BOOLEAN
    BY <1>0, <1>9 DEF LoopStops, EhShapes
  <2> QED
    BY <1>1, <1>2, <1>9, <2>1 DEF LoopStops
<1> QED
  BY <1>1, <1>4, <1>5, <1>6, <1>7, <1>8, <1>9

\* The handler's seed is the first thing a client is told.
LEMMA SeedStep ==
  ASSUME EhInv, NEW c \in EhClients, SendSeed(c)
  PROVE  EhInv' /\ EhForward
<1> USE DEF ehConnVars, ehQueueVars, ehLoopVars, ehBatchVars, ehIdVars
<1>0. /\ EhShapes /\ SeedFirst /\ OneDuty /\ RenderedAhead /\ DeliveredAhead
      /\ ehTold \in [EhClients -> Nat] /\ ehSeed[c] \in Nat /\ ehEngine \in Nat
      /\ ehHandler \in [EhClients -> EhPlaces]
      /\ ehHandler[c] = "send" /\ ehHandler' = [ehHandler EXCEPT ![c] = "adopt"]
      /\ UNCHANGED <<ehMode, ehSeed, ehSeeded, ehEngine, ehAt, ehOut, ehPub, ehLoop, ehChan, ehBuf,
                     ehRetry>>
  BY DEF EhInv, EhShapes, SendSeed, EhGoto
<1>1. PICK reset \in BOOLEAN : reset = Aggregate
  BY DEF Aggregate
<1>2. PICK m \in EhMsgFor(c) : m = Snap(ehSeed[c], reset) /\ m.rev = ehSeed[c]
  BY <1>0, SnapFits DEF Snap
<1>3. EhEnqueue(c, m)
  BY <1>1, <1>2 DEF SendSeed
<1>4. /\ ehSend' \in EhQueues /\ ehClients' \in SUBSET EhClients
      /\ ehTold' = ehTold \/ ehTold' = [ehTold EXCEPT ![c] = ehSeed[c]]
  BY <1>0, <1>2, <1>3, Enqueued
<1>5. /\ ehTold[c] = 0 /\ ~ ehSeeded[c] /\ ehSeed[c] <= ehEngine
      /\ ~ Aggregate => ehSeed[c] = 0
  BY <1>0 DEF SeedFirst, BeforeSeed
<1>6. /\ ehTold' \in [EhClients -> Nat]
      /\ \A d \in EhClients : d # c => ehTold'[d] = ehTold[d]
      /\ ehTold'[c] >= 0 /\ ehTold'[c] <= ehEngine /\ (~ Aggregate => ehTold'[c] = 0)
  BY <1>0, <1>4, <1>5
<1>7. EhForward
  <2>1. \A d \in EhClients : ehTold[d] \in Nat /\ ehTold'[d] \in Nat
    BY <1>0, <1>6
  <2> QED
    BY <1>5, <1>6, <2>1 DEF EhForward
<1>8. ehHandler' \in [EhClients -> EhPlaces]
  BY <1>0 DEF EhPlaces
<1>9. EhShapes'
  BY <1>0, <1>4, <1>6, <1>8 DEF EhShapes
<1>10. Aggregate' = Aggregate
  BY <1>0 DEF Aggregate
<1>11. SeedFirst'
  <2> SUFFICES ASSUME NEW d \in EhClients
               PROVE  /\ ehSeed[d] <= ehEngine /\ ehTold'[d] <= ehEngine
                      /\ ~ Aggregate => ehSeed[d] = 0 /\ ehTold'[d] = 0
                      /\ ehHandler'[d] \in BeforeSeed => ehTold'[d] = 0
                      /\ ehSeeded[d] => ehHandler'[d] \in {"reading", "gone"}
    BY <1>0, <1>10 DEF SeedFirst
  <2>1. CASE d = c
    BY <1>0, <1>5, <1>6, <2>1 DEF SeedFirst, BeforeSeed
  <2>2. CASE d # c
    BY <1>0, <1>6, <2>2 DEF SeedFirst
  <2> QED
    BY <2>1, <2>2
<1>12. OneDuty'
  BY <1>0 DEF OneDuty, Nothing
<1>13. RenderedAhead'
  <2> SUFFICES ASSUME ehLoop = "rendering", NEW k \in Scopes, NEW d \in ehPub.groups[k]
               PROVE  /\ ehSeeded[d]
                      /\ k \notin ehPub.todo =>
                           /\ ehPub.made[k] >= ehTold'[d] /\ ehPub.made[k] <= ehEngine
                           /\ ~ Aggregate => ehPub.made[k] = 0
    BY <1>0, <1>10 DEF RenderedAhead, Scopes
  <2>1. d \in EhClients
    BY <1>0 DEF EhShapes, EhPubs
  <2>2. ehSeeded[d] /\ d # c
    BY <1>0, <1>5 DEF RenderedAhead
  <2> QED
    BY <1>0, <1>6, <2>1, <2>2 DEF RenderedAhead
<1>14. DeliveredAhead'
  <2> SUFFICES ASSUME NEW d \in EhClients, NEW i \in DOMAIN ehOut[d], ehOut[d][i].kind = "snapshot"
               PROVE  /\ ehSeeded[d] /\ Len(ehOut[d]) = 1
                      /\ ehOut[d][i].rev >= ehTold'[d] /\ ehOut[d][i].rev <= ehEngine
                      /\ ~ Aggregate => ehOut[d][i].rev = 0
    BY <1>0, <1>10 DEF DeliveredAhead
  <2>1. ehSeeded[d] /\ d # c
    BY <1>0, <1>5 DEF DeliveredAhead
  <2> QED
    BY <1>0, <1>6, <2>1 DEF DeliveredAhead
<1> QED
  BY <1>7, <1>9, <1>11, <1>12, <1>13, <1>14 DEF EhInv

\* The loop delivers, or gives up on a client that left.
LEMMA DeliverStep ==
  ASSUME EhInv, NEW c \in EhClients, DeliverCheck(c) \/ DeliverSend(c)
  PROVE  EhInv' /\ EhForward
<1> USE DEF ehConnVars, ehQueueVars, ehLoopVars, ehBatchVars, ehIdVars
<1>0. /\ EhShapes /\ SeedFirst /\ OneDuty /\ RenderedAhead /\ DeliveredAhead
      /\ ehTold \in [EhClients -> Nat] /\ ehEngine \in Nat
      /\ ehOut \in EhQueues /\ ehOut[c] \in Seq(EhMsgFor(c))
      /\ UNCHANGED <<ehMode, ehHandler, ehSeed, ehSeeded, ehEngine, ehPub, ehLoop, ehChan, ehBuf,
                     ehRetry>>
  BY DEF EhInv, EhShapes, EhQueues, DeliverCheck, DeliverSend
<1>1. ehOut[c] # <<>> /\ ehLoop # "rendering" /\ Aggregate' = Aggregate
  <2>1. ehOut[c] # <<>>
    BY <1>0 DEF DeliverCheck, DeliverSend, OneDuty
  <2> QED
    BY <1>0, <2>1 DEF OneDuty, Nothing, Aggregate
<1>2. RenderedAhead'
  BY <1>0, <1>1 DEF RenderedAhead
<1>3. Head(ehOut[c]) \in EhMsgFor(c) /\ Tail(ehOut[c]) \in Seq(EhMsgFor(c))
  BY <1>0, <1>1, HeadTailProperties
<1>4. /\ Head(ehOut[c]) = ehOut[c][1] /\ 1 \in DOMAIN ehOut[c]
      /\ \A i \in DOMAIN Tail(ehOut[c]) : /\ i + 1 \in DOMAIN ehOut[c]
                                          /\ Tail(ehOut[c])[i] = ehOut[c][i + 1]
                                          /\ Len(ehOut[c]) # 1
  BY <1>0, <1>1, HeadTailProperties, LenProperties
<1>5. \A i \in DOMAIN Tail(ehOut[c]) : Tail(ehOut[c])[i].kind # "snapshot"
  BY <1>0, <1>4 DEF DeliveredAhead
<1>6. [ehOut EXCEPT ![c] = Tail(ehOut[c])] \in EhQueues
  BY <1>0, <1>3, OtherQueue
<1>7. ehOut' = ehOut \/ ehOut' = [ehOut EXCEPT ![c] = Tail(ehOut[c])]
  BY DEF DeliverCheck, DeliverSend
<1>8. ehOut' \in EhQueues
  BY <1>0, <1>6, <1>7
<1>9. OneDuty'
  <2>1. CASE DeliverCheck(c)
    <3>1. ehAt = {}
      BY <2>1 DEF DeliverCheck
    <3>2. CASE ehClosed[c]
      BY <1>0, <1>1, <2>1, <3>1, <3>2 DEF DeliverCheck, OneDuty
    <3>3. CASE ~ ehClosed[c]
      <4>1. ehAt' = {c} /\ ehOut' = ehOut
        BY <2>1, <3>3 DEF DeliverCheck
      <4> QED
        BY <1>0, <1>1, <4>1 DEF OneDuty
    <3> QED
      BY <3>2, <3>3
  <2>2. CASE DeliverSend(c)
    BY <1>0, <1>1, <2>2 DEF DeliverSend, OneDuty
  <2> QED
    BY <2>1, <2>2
<1>10. CASE ehTold' = ehTold /\ ehSend' \in EhQueues /\ ehClients' \in SUBSET EhClients
  <2>1. EhShapes'
    BY <1>0, <1>8, <1>10 DEF EhShapes
  <2>2. SeedFirst' /\ EhForward
    BY <1>0, <1>1, <1>10 DEF SeedFirst, EhForward
  <2>3. DeliveredAhead'
    <3> SUFFICES ASSUME NEW d \in EhClients, NEW i \in DOMAIN ehOut'[d],
                        ehOut'[d][i].kind = "snapshot"
                 PROVE  /\ ehSeeded[d] /\ Len(ehOut'[d]) = 1
                        /\ ehOut'[d][i].rev >= ehTold[d] /\ ehOut'[d][i].rev <= ehEngine
                        /\ ~ Aggregate => ehOut'[d][i].rev = 0
      BY <1>0, <1>1, <1>10 DEF DeliveredAhead
    <3>1. ehOut'[d] = ehOut[d] \/ (d = c /\ ehOut'[d] = Tail(ehOut[c]))
      BY <1>0, <1>7 DEF EhQueues
    <3> QED
      BY <1>0, <1>5, <3>1 DEF DeliveredAhead
  <2> QED
    BY <1>2, <1>9, <2>1, <2>2, <2>3 DEF EhInv
<1>11. CASE DeliverCheck(c)
  <2>1. ehTold' = ehTold /\ ehSend' = ehSend /\ ehClients' = ehClients
    BY <1>11 DEF DeliverCheck
  <2> QED
    BY <1>0, <1>10, <2>1 DEF EhShapes
<1>12. CASE DeliverSend(c)
  <2>1. PICK m \in EhMsgFor(c) : m = Head(ehOut[c])
    BY <1>3
  <2>2. EhEnqueue(c, m) /\ ehOut' = [ehOut EXCEPT ![c] = Tail(ehOut[c])]
    BY <1>12, <2>1 DEF DeliverSend
  <2>3. /\ ehSend' \in EhQueues /\ ehClients' \in SUBSET EhClients
        /\ \/ ehTold' = ehTold
           \/ m.kind = "snapshot" /\ ehTold' = [ehTold EXCEPT ![c] = m.rev]
    BY <1>0, <2>2, Enqueued
  <2>4. CASE m.kind = "snapshot" /\ ehTold' = [ehTold EXCEPT ![c] = m.rev]
    <3>1. /\ ehSeeded[c] /\ Len(ehOut[c]) = 1 /\ m.rev \in Nat
          /\ m.rev >= ehTold[c] /\ m.rev <= ehEngine /\ (~ Aggregate => m.rev = 0)
      BY <1>0, <1>4, <2>1, <2>4 DEF DeliveredAhead, EhMsgFor
    <3>2. DOMAIN Tail(ehOut[c]) = {}
      BY <1>4, <3>1
    <3>3. /\ ehTold' \in [EhClients -> Nat] /\ ehTold'[c] = m.rev
          /\ \A d \in EhClients : d # c => ehTold'[d] = ehTold[d]
      BY <1>0, <2>4, <3>1
    <3>4. EhForward
      <4>1. \A d \in EhClients : ehTold[d] \in Nat
        BY <1>0
      <4> QED
        BY <3>1, <3>3, <4>1 DEF EhForward
    <3>5. EhShapes'
      BY <1>0, <1>8, <2>3, <3>3 DEF EhShapes
    <3>6. SeedFirst'
      <4> SUFFICES ASSUME NEW d \in EhClients
                   PROVE  /\ ehSeed[d] <= ehEngine /\ ehTold'[d] <= ehEngine
                          /\ ~ Aggregate => ehSeed[d] = 0 /\ ehTold'[d] = 0
                          /\ ehHandler[d] \in BeforeSeed => ehTold'[d] = 0
                          /\ ehSeeded[d] => ehHandler[d] \in {"reading", "gone"}
        BY <1>0, <1>1 DEF SeedFirst
      <4>1. CASE d = c
        BY <1>0, <3>1, <3>3, <4>1 DEF SeedFirst, BeforeSeed
      <4>2. CASE d # c
        BY <1>0, <3>3, <4>2 DEF SeedFirst
      <4> QED
        BY <4>1, <4>2
    <3>7. DeliveredAhead'
      <4> SUFFICES ASSUME NEW d \in EhClients, NEW i \in DOMAIN ehOut'[d],
                          ehOut'[d][i].kind = "snapshot"
                   PROVE  /\ ehSeeded[d] /\ Len(ehOut'[d]) = 1
                          /\ ehOut'[d][i].rev >= ehTold'[d] /\ ehOut'[d][i].rev <= ehEngine
                          /\ ~ Aggregate => ehOut'[d][i].rev = 0
        BY <1>0, <1>1 DEF DeliveredAhead
      <4>1. d # c /\ ehOut'[d] = ehOut[d]
        BY <1>0, <2>2, <3>2 DEF EhQueues
      <4> QED
        BY <1>0, <3>3, <4>1 DEF DeliveredAhead
    <3> QED
      BY <1>2, <1>9, <3>4, <3>5, <3>6, <3>7 DEF EhInv
  <2> QED
    BY <1>10, <2>3, <2>4
<1> QED
  BY <1>11, <1>12

\* The event hub starts with nobody told anything.
LEMMA EhStarts == EhInit => EhInv
<1> SUFFICES ASSUME EhInit PROVE EhInv
  OBVIOUS
<1>1. PICK mode \in {"legacy", "aggregate"} : EhInitIn(mode)
  BY DEF EhInit
<1>2. Nothing \in EhQueues
  <2>1. \A c \in EhClients : <<>> \in Seq(EhMsgFor(c)) /\ <<>> \in Seq(EhMsgs)
    BY EmptySeq
  <2> QED
    BY <2>1 DEF Nothing, EhQueues
<1>3. ehPub \in EhPubs
  BY <1>1 DEF EhInitIn, EhPubs
<1>4. <<>> \in Seq(EhEntrySet)
  BY EmptySeq
<1>5. EhShapes
  BY <1>1, <1>2, <1>3, <1>4 DEF EhInitIn, EhShapes, EhPlaces, BeforeSeed
<1>6. SeedFirst
  BY <1>1 DEF EhInitIn, SeedFirst
<1>7. OneDuty /\ RenderedAhead /\ DeliveredAhead
  BY <1>1 DEF EhInitIn, OneDuty, RenderedAhead, DeliveredAhead, Nothing
<1> QED
  BY <1>5, <1>6, <1>7 DEF EhInv

\* Every step of the event hub keeps the invariant and takes no client back.
LEMMA EhAdvances ==
  ASSUME EhInv, EhNext
  PROVE  EhInv' /\ EhForward
BY QuietSteps, LoopSteps, SeedStep, DeliverStep DEF EhNext

\* Nor does a step that changes nothing break it.
LEMMA EhKept == EhInv /\ [EhNext]_ehVars => EhInv'
<1>1. ASSUME EhInv, UNCHANGED ehVars PROVE EhInv'
  <2>1. UNCHANGED <<ehMode, ehTold, ehOut, ehPub, ehLoop, ehAt, ehEngine, ehSeed, ehHandler,
                    ehSeeded, ehClients, ehChan, ehBuf, ehSend, ehRetry>>
    BY <1>1 DEF ehVars, ehConnVars, ehQueueVars, ehLoopVars, ehBatchVars, ehIdVars
  <2>2. EhShapes'
    BY <1>1, <2>1 DEF EhInv, EhShapes
  <2>3. ehEngine' >= ehEngine /\ \A c \in EhClients : ehSeed'[c] <= ehEngine'
    BY <1>1, <2>1 DEF EhInv, EhShapes, SeedFirst
  <2> QED
    BY <1>1, <2>1, <2>2, <2>3, QuietStep DEF EhInv, SeedFirst
<1> QED
  BY <1>1, EhAdvances

\* The invariant holds in every state.
LEMMA EhInvariant == EhSpec => []EhInv
BY EhStarts, EhKept, PTL DEF EhSpec

\* The snapshots queued for a client never go back to an older revision and no entry
\* of another tenant is queued for it, although its handler seeds it while the loop
\* renders and delivers.
THEOREM EventsTellInOrder == EhSpec => EhToldInOrder
<1> DEFINE Told ==
      \A c \in EhClients :
        /\ ehTold'[c] >= ehTold[c]
        /\ \A i \in DOMAIN ehSend'[c] : \A j \in DOMAIN ehSend'[c][i].entries :
             EhTenant[c] \in {0, ehSend'[c][i].entries[j].tenant}
<1>1. EhInv /\ [EhNext]_ehVars => [Told]_ehVars
  <2> SUFFICES ASSUME EhInv, EhNext PROVE Told
    OBVIOUS
  <2>1. EhInv' /\ EhForward
    BY EhAdvances
  <2> SUFFICES ASSUME NEW c \in EhClients, NEW i \in DOMAIN ehSend'[c],
                      NEW j \in DOMAIN ehSend'[c][i].entries
               PROVE  EhTenant[c] \in {0, ehSend'[c][i].entries[j].tenant}
    BY <2>1 DEF EhForward
  <2>2. ehSend'[c] \in Seq(EhMsgFor(c))
    BY <2>1 DEF EhInv, EhShapes, EhQueues
  <2>3. ehSend'[c][i] \in EhMsgFor(c)
    BY <2>2, ElementOfSeq, LenProperties
  <2>4. ehSend'[c][i].entries \in Seq(EhScoped(c))
    BY <2>3 DEF EhMsgFor
  <2>5. ehSend'[c][i].entries[j] \in EhScoped(c)
    BY <2>4, ElementOfSeq, LenProperties
  <2> QED
    BY <2>5 DEF EhScoped
<1> QED
  BY <1>1, EhInvariant, PTL DEF EhSpec, EhToldInOrder

-------------------------------------------------------------------------------
(* The slots of the event hub and how its connections end.                 *)

\* The connections whose writer runs; those that hold a slot, refused ones until they
\* gave it back; and those of them accepted.
EhWriting == {c \in EhClients : ehWriter[c] = "run"}
EhSlots == {c \in EhClients : ehHandler[c] \in {"refused", "counted", "added"}} \cup EhWriting
EhAccepted == {c \in EhClients : ehHandler[c] \in {"counted", "added"}} \cup EhWriting

\* The event hub keeps its limits: the client counter is the slots held and the writer group
\* the writers running, at most maxClients connections are accepted at a time, and the
\* entry channels hold at most their capacity (that of a send channel is part of EhTypeOK).
EhLimits ==
  /\ ehCount = Cardinality(EhSlots) /\ ehWg = Cardinality(EhWriting)
  /\ EhMaxClients > 0 => Cardinality(EhAccepted) <= EhMaxClients
  /\ \A k \in EhKinds : Len(ehChan[k]) <= EhChanCap

\* A client in the set is open, so that its channel is closed once; and when the reader is
\* gone the channel is closed, so that the writer ends and its slot comes back.
EhLeaves ==
  \A c \in EhClients :
    /\ c \in ehClients => ~ ehClosed[c]
    /\ ehHandler[c] = "gone" /\ ehWriter[c] = "run" => ehClosed[c]

\* Where a writer is by where its handler is; a client joins once and leaves closed.
EhConns ==
  /\ EhLeaves
  /\ ehWriter \in [EhClients -> {"none", "run", "done"}]
  /\ ehClosed \in [EhClients -> BOOLEAN]
  /\ \A c \in EhClients :
       /\ ehHandler[c] \in {"out", "refused", "counted", "added"} => ehWriter[c] = "none"
       /\ ehHandler[c] \in {"out", "refused", "counted"} => ~ ehClosed[c] /\ c \notin ehClients
       /\ ehHandler[c] \notin {"out", "refused", "counted", "gone"} => c \in ehClients \/ ehClosed[c]

\* The counters, which handlers and writers move.
EhCounts ==
  /\ ehCount = Cardinality(EhSlots) /\ ehWg = Cardinality(EhWriting)
  /\ EhMaxClients > 0 => Cardinality(EhAccepted) <= EhMaxClients

\* What the channels hold.
EhFits(s) == Len(s) <= EhSendCap
EhRoom ==
  /\ \A c \in EhClients : EhFits(ehSend[c])
  /\ \A k \in EhKinds : Len(ehChan[k]) <= EhChanCap

\* The loop and Stop, and the revisions they know of.
EhStages ==
  /\ ehMode \in {"legacy", "aggregate"} /\ ehAt \subseteq EhClients
  /\ ehService \in [EhClients -> EhServices]
  /\ ehLoop \in {"idle", "rendering", "done"} /\ ehStop \in {"no", "signalled", "closed", "done"}
  /\ ehLast \in Nat /\ ehLast <= ehEngine /\ ehPub.rev <= ehEngine /\ ehEngine \in 1 .. EhMaxRev
  /\ ehPending \in BOOLEAN /\ ehPanic \in BOOLEAN

\* Slots, writers and accepted connections are finitely many.
LEMMA EhSlotsFinite ==
  /\ IsFiniteSet(EhSlots) /\ Cardinality(EhSlots) \in Nat
  /\ IsFiniteSet(EhWriting) /\ Cardinality(EhWriting) \in Nat
  /\ IsFiniteSet(EhAccepted) /\ Cardinality(EhAccepted) \in Nat
  /\ Cardinality(EhAccepted) <= Cardinality(EhSlots)
<1>1. EhSlots \subseteq EhClients /\ EhAccepted \subseteq EhSlots /\ EhWriting \subseteq EhClients
  BY DEF EhSlots, EhAccepted, EhWriting
<1>2. IsFiniteSet(EhSlots) /\ IsFiniteSet(EhWriting)
  BY <1>1, EhAssumption, FS_Subset
<1> QED
  BY <1>1, <1>2, FS_Subset, FS_CardinalityType

\* Where writers and channels are after a step.
LEMMA EhConnsStep ==
  ASSUME EhShapes, EhConns, EhNext
  PROVE  EhConns'
<1> USE DEF ehConnVars, ehQueueVars, ehLoopVars, ehBatchVars, ehIdVars, EhGoto, EhLeaves
<1>0. ehHandler \in [EhClients -> EhPlaces]
  BY DEF EhShapes
<1>1. ASSUME UNCHANGED <<ehHandler, ehWriter, ehClosed, ehClients>> PROVE EhConns'
  BY <1>1 DEF EhConns
<1>2. ASSUME NEW c \in EhClients, NEW from \in EhPlaces \ {"out", "refused", "counted", "added", "gone"},
             NEW pc \in EhPlaces \ {"out", "refused", "counted", "added", "gone"}, ehHandler[c] = from,
             ehHandler' = [ehHandler EXCEPT ![c] = pc], UNCHANGED <<ehWriter, ehClosed, ehClients>>
      PROVE  EhConns'
  BY <1>0, <1>2 DEF EhConns
<1>3. ASSUME NEW c \in EhClients, NEW msg, EhEnqueue(c, msg), UNCHANGED <<ehHandler, ehWriter>>,
             ehHandler[c] \notin {"out", "refused", "counted"} \/ c \in ehClients
      PROVE  EhConns'
  BY <1>0, <1>3 DEF EhConns, EhEnqueue, RemoveClient
<1>4. ASSUME NEW c \in EhClients, EhArrive(c) PROVE EhConns'
  BY <1>0, <1>4 DEF EhConns, EhArrive
<1>5. ASSUME NEW c \in EhClients, AddClient(c) PROVE EhConns'
  BY <1>0, <1>5 DEF EhConns, AddClient
<1>6. ASSUME NEW c \in EhClients, StartWriter(c) PROVE EhConns'
  BY <1>0, <1>6 DEF EhConns, StartWriter
<1>7. ASSUME NEW c \in EhClients, RenderSeed(c) \/ AdoptSeed(c) \/ SeedFailed(c) \/ Seeded(c) PROVE EhConns'
  BY <1>2, <1>7 DEF RenderSeed, AdoptSeed, SeedFailed, Seeded, EhPlaces, BeforeSeed
<1>8. ASSUME NEW c \in EhClients, SendSeed(c) PROVE EhConns'
  <2>1. /\ ehHandler[c] = "send" /\ ehHandler' = [ehHandler EXCEPT ![c] = "adopt"] /\ ehWriter' = ehWriter
        /\ EhEnqueue(c, Snap(ehSeed[c], Aggregate))
    BY <1>8 DEF SendSeed
  <2> QED
    BY <1>0, <2>1 DEF EhConns, EhEnqueue, RemoveClient
<1>9. ASSUME NEW c \in EhClients, ReadEnds(c) \/ EhWrite(c) PROVE EhConns'
  BY <1>0, <1>9 DEF EhConns, ReadEnds, EhWrite, RemoveClient
<1>10. ASSUME NEW c \in EhClients, DeliverSend(c) PROVE EhConns'
  <2>1. EhEnqueue(c, Head(ehOut[c])) /\ UNCHANGED <<ehHandler, ehWriter>>
    BY <1>10 DEF DeliverSend
  <2> QED
    BY <1>0, <2>1 DEF EhConns, EhEnqueue, RemoveClient
<1>11. ASSUME StopCloses PROVE EhConns'
  BY <1>0, <1>11 DEF EhConns, StopCloses
<1>12. ASSUME \/ \E c \in EhClients : DeliverCheck(c) \/ \E s \in EhServices : UpdateClientFilter(c, s)
              \/ PublishIfChanged \/ FlushSnapshots \/ Rendered \/ \E k \in Scopes : RenderScope(k)
              \/ NotifyRefresh \/ FlushBatches \/ EhEngineMoves \/ EhStopSignal \/ LoopStops \/ StopReturns
              \/ \E k \in EhKinds : BufferEntry(k) \/ \E e \in EhEntrySet : BroadcastLog(k, e)
       PROVE  EhConns'
  <2>1. UNCHANGED <<ehHandler, ehWriter, ehClosed, ehClients>>
    BY <1>12 DEF DeliverCheck, UpdateClientFilter, PublishIfChanged, FlushSnapshots, Rendered, RenderScope,
       NotifyRefresh, FlushBatches, EhEngineMoves, EhStopSignal, LoopStops, StopReturns, BufferEntry, BroadcastLog
  <2> QED
    BY <1>1, <2>1
<1> QED
  BY <1>4, <1>5, <1>6, <1>7, <1>8, <1>9, <1>10, <1>11, <1>12 DEF EhNext

\* A slot given back, and the writer's place with it when it had one.
LEMMA EhSlotReleased ==
  ASSUME EhCounts, NEW c \in EhSlots, EhSlots' = EhSlots \ {c}, EhAccepted' \subseteq EhAccepted,
         ehCount' = ehCount - 1,
         \/ EhWriting' = EhWriting /\ ehWg' = ehWg
         \/ c \in EhWriting /\ EhWriting' = EhWriting \ {c} /\ ehWg' = ehWg - 1
  PROVE  EhCounts'
<1>1. Cardinality(EhSlots \ {c}) = Cardinality(EhSlots) - 1
  BY EhSlotsFinite, FS_RemoveElement
<1>2. Cardinality(EhAccepted') <= Cardinality(EhAccepted) /\ Cardinality(EhAccepted') \in Nat
  BY EhSlotsFinite, FS_Subset, FS_CardinalityType
<1>3. ehCount' = Cardinality(EhSlots')
  BY <1>1 DEF EhCounts
<1>4. ehWg' = Cardinality(EhWriting')
  <2>1. c \in EhWriting => Cardinality(EhWriting \ {c}) = Cardinality(EhWriting) - 1
    BY EhSlotsFinite, FS_RemoveElement
  <2> QED
    BY <2>1 DEF EhCounts
<1> QED
  BY <1>2, <1>3, <1>4, EhSlotsFinite, EhAssumption DEF EhCounts

\* The counters after a step.
LEMMA EhCountsStep ==
  ASSUME EhShapes, EhConns, EhCounts, EhNext
  PROVE  EhCounts'
<1> USE DEF ehConnVars, ehQueueVars, ehLoopVars, ehBatchVars, ehIdVars, EhGoto
<1>0. ehHandler \in [EhClients -> EhPlaces] /\ ehWriter \in [EhClients -> {"none", "run", "done"}]
  BY DEF EhShapes, EhConns
<1>1. ASSUME EhSlots' = EhSlots, EhAccepted' = EhAccepted, EhWriting' = EhWriting,
             UNCHANGED <<ehCount, ehWg>>
      PROVE  EhCounts'
  BY <1>1 DEF EhCounts
<1>2. ASSUME NEW c \in EhClients, NEW pc \in EhPlaces \ {"refused", "counted", "added"},
             ehHandler[c] \notin {"refused", "counted", "added"},
             ehHandler' = [ehHandler EXCEPT ![c] = pc], UNCHANGED <<ehWriter, ehCount, ehWg>>
      PROVE  EhCounts'
  <2>1. EhSlots' = EhSlots /\ EhAccepted' = EhAccepted /\ EhWriting' = EhWriting
    BY <1>0, <1>2 DEF EhSlots, EhAccepted, EhWriting
  <2> QED
    BY <1>1, <1>2, <2>1
<1>3. ASSUME NEW c \in EhClients, EhArrive(c) PROVE EhCounts'
  <2> DEFINE pc == IF EhMaxClients > 0 /\ ehCount + 1 > EhMaxClients THEN "refused" ELSE "counted"
  <2>1. /\ ehHandler[c] = "out" /\ ehCount' = ehCount + 1 /\ UNCHANGED <<ehWriter, ehWg>>
        /\ ehHandler' = [ehHandler EXCEPT ![c] = pc]
    BY <1>3 DEF EhArrive
  <2>2. ehWriter[c] = "none"
    BY <2>1 DEF EhConns
  <2>3. pc \in {"refused", "counted"}
    OBVIOUS
  <2>4. pc = "counted" /\ EhMaxClients > 0 => ehCount + 1 <= EhMaxClients
    BY EhSlotsFinite, EhAssumption DEF EhCounts
  <2> HIDE DEF pc
  <2>5. EhSlots' = EhSlots \cup {c} /\ c \notin EhSlots /\ EhWriting' = EhWriting
    BY <1>0, <2>1, <2>2, <2>3 DEF EhSlots, EhWriting
  <2>6. Cardinality(EhSlots') = Cardinality(EhSlots) + 1
    BY <2>5, EhSlotsFinite, FS_AddElement
  <2>7. CASE pc = "refused"
    <3>1. EhAccepted' = EhAccepted
      BY <1>0, <2>1, <2>2, <2>7 DEF EhAccepted, EhWriting
    <3> QED
      BY <2>1, <2>5, <2>6, <3>1 DEF EhCounts
  <2>8. CASE pc = "counted"
    <3>1. EhAccepted' = EhAccepted \cup {c} /\ c \notin EhAccepted
      BY <1>0, <2>1, <2>2, <2>8 DEF EhAccepted, EhWriting
    <3>2. Cardinality(EhAccepted') = Cardinality(EhAccepted) + 1
      BY <3>1, EhSlotsFinite, FS_AddElement
    <3> QED
      BY <2>1, <2>4, <2>5, <2>6, <2>8, <3>2, EhSlotsFinite, EhAssumption DEF EhCounts
  <2> QED
    BY <2>3, <2>7, <2>8
<1>4. ASSUME NEW c \in EhClients, AddClient(c) PROVE EhCounts'
  <2>1. ehHandler[c] \in {"refused", "counted"} /\ UNCHANGED <<ehWriter, ehWg>>
    BY <1>4 DEF AddClient
  <2>2. ehWriter[c] = "none"
    BY <2>1 DEF EhConns
  <2>3. CASE ehHandler' = [ehHandler EXCEPT ![c] = "gone"] /\ ehCount' = ehCount - 1
    <3>1. /\ c \in EhSlots /\ EhSlots' = EhSlots \ {c} /\ EhAccepted' \subseteq EhAccepted
          /\ EhWriting' = EhWriting
      BY <1>0, <2>1, <2>2, <2>3 DEF EhSlots, EhAccepted, EhWriting
    <3> QED
      BY <2>1, <2>3, <3>1, EhSlotReleased
  <2>4. CASE ehHandler[c] = "counted" /\ ehHandler' = [ehHandler EXCEPT ![c] = "added"] /\ ehCount' = ehCount
    <3>1. EhSlots' = EhSlots /\ EhAccepted' = EhAccepted /\ EhWriting' = EhWriting
      BY <1>0, <2>1, <2>4 DEF EhSlots, EhAccepted, EhWriting
    <3> QED
      BY <1>1, <2>1, <2>4, <3>1
  <2> QED
    BY <1>4, <2>3, <2>4 DEF AddClient
<1>5. ASSUME NEW c \in EhClients, StartWriter(c) PROVE EhCounts'
  <2>1. /\ ehHandler[c] = "added" /\ ehHandler' = [ehHandler EXCEPT ![c] = "render"]
        /\ ehWriter' = [ehWriter EXCEPT ![c] = "run"] /\ ehCount' = ehCount /\ ehWg' = ehWg + 1
    BY <1>5 DEF StartWriter
  <2>2. ehWriter[c] = "none"
    BY <2>1 DEF EhConns
  <2>3. /\ EhSlots' = EhSlots /\ EhAccepted' = EhAccepted
        /\ EhWriting' = EhWriting \cup {c} /\ c \notin EhWriting
    BY <1>0, <2>1, <2>2 DEF EhSlots, EhAccepted, EhWriting
  <2>4. Cardinality(EhWriting') = Cardinality(EhWriting) + 1
    BY <2>3, EhSlotsFinite, FS_AddElement
  <2> QED
    BY <2>1, <2>3, <2>4 DEF EhCounts
<1>6. ASSUME NEW c \in EhClients, EhWrite(c) PROVE EhCounts'
  <2>1. ehWriter[c] = "run" /\ ehHandler' = ehHandler
    BY <1>6 DEF EhWrite
  <2>2. CASE UNCHANGED <<ehWriter, ehWg, ehCount>>
    <3>1. EhSlots' = EhSlots /\ EhAccepted' = EhAccepted /\ EhWriting' = EhWriting
      BY <2>1, <2>2 DEF EhSlots, EhAccepted, EhWriting
    <3> QED
      BY <1>1, <2>2, <3>1
  <2>3. CASE ehWriter' = [ehWriter EXCEPT ![c] = "done"] /\ ehWg' = ehWg - 1 /\ ehCount' = ehCount - 1
    <3>1. ehHandler[c] \notin {"refused", "counted", "added"}
      BY <2>1 DEF EhConns
    <3>2. /\ c \in EhSlots /\ EhSlots' = EhSlots \ {c} /\ EhAccepted' \subseteq EhAccepted
          /\ c \in EhWriting /\ EhWriting' = EhWriting \ {c}
      BY <1>0, <2>1, <2>3, <3>1 DEF EhSlots, EhAccepted, EhWriting
    <3> QED
      BY <2>3, <3>2, EhSlotReleased
  <2> QED
    BY <1>6, <2>2, <2>3 DEF EhWrite
<1>7. ASSUME NEW c \in EhClients,
             RenderSeed(c) \/ SendSeed(c) \/ AdoptSeed(c) \/ SeedFailed(c) \/ Seeded(c) \/ ReadEnds(c)
      PROVE  EhCounts'
  BY <1>2, <1>7 DEF RenderSeed, SendSeed, AdoptSeed, SeedFailed, Seeded, ReadEnds, EhPlaces, BeforeSeed
<1>8. ASSUME \/ \E c \in EhClients : \/ DeliverCheck(c) \/ DeliverSend(c)
                                     \/ \E s \in EhServices : UpdateClientFilter(c, s)
             \/ PublishIfChanged \/ FlushSnapshots \/ Rendered \/ \E k \in Scopes : RenderScope(k)
             \/ NotifyRefresh \/ FlushBatches \/ EhEngineMoves
             \/ EhStopSignal \/ LoopStops \/ StopCloses \/ StopReturns
             \/ \E k \in EhKinds : BufferEntry(k) \/ \E e \in EhEntrySet : BroadcastLog(k, e)
      PROVE  EhCounts'
  <2>1. UNCHANGED <<ehHandler, ehWriter, ehCount, ehWg>>
    BY <1>8 DEF DeliverCheck, DeliverSend, UpdateClientFilter, PublishIfChanged, FlushSnapshots, Rendered,
       RenderScope, NotifyRefresh, FlushBatches, EhEngineMoves, EhStopSignal, LoopStops, StopCloses, StopReturns,
       BufferEntry, BroadcastLog
  <2>2. EhSlots' = EhSlots /\ EhAccepted' = EhAccepted /\ EhWriting' = EhWriting
    BY <2>1 DEF EhSlots, EhAccepted, EhWriting
  <2> QED
    BY <1>1, <2>1, <2>2
<1> QED
  BY <1>3, <1>4, <1>5, <1>6, <1>7, <1>8 DEF EhNext

\* The channels after a step.
LEMMA EhRoomStep ==
  ASSUME EhShapes, EhRoom, EhNext
  PROVE  EhRoom'
<1> USE DEF ehConnVars, ehQueueVars, ehLoopVars, ehBatchVars, ehIdVars
<1>0. /\ ehSend \in [EhClients -> Seq(EhMsgs)] /\ ehChan \in [EhKinds -> Seq(EhEntrySet)]
      /\ EhSendCap \in Nat /\ EhChanCap \in Nat
  BY EhAssumption DEF EhShapes, EhQueues
<1>1. ASSUME UNCHANGED <<ehSend, ehChan>> PROVE EhRoom'
  BY <1>1 DEF EhRoom
<1>2. ASSUME NEW c \in EhClients, NEW s, EhFits(s), ehSend' = [ehSend EXCEPT ![c] = s], ehChan' = ehChan
      PROVE  EhRoom'
  BY <1>0, <1>2 DEF EhRoom
<1>3. ASSUME NEW c \in EhClients, NEW msg, EhEnqueue(c, msg), ehChan' = ehChan PROVE EhRoom'
  <2>1. CASE ehSend' = ehSend
    BY <1>1, <1>3, <2>1
  <2>2. CASE Len(ehSend[c]) < EhSendCap /\ ehSend' = [ehSend EXCEPT ![c] = Append(@, msg)]
    <3>1. Len(Append(ehSend[c], msg)) = Len(ehSend[c]) + 1 /\ Len(ehSend[c]) \in Nat
      BY <1>0, LenProperties
    <3>2. EhFits(Append(ehSend[c], msg))
      BY <1>0, <2>2, <3>1 DEF EhFits
    <3> QED
      BY <1>2, <1>3, <2>2, <3>2
  <2> QED
    BY <1>3, <2>1, <2>2 DEF EhEnqueue
<1>4. ASSUME NEW c \in EhClients, SendSeed(c) \/ DeliverSend(c) PROVE EhRoom'
  <2>1. ehChan' = ehChan /\ \E msg : EhEnqueue(c, msg)
    BY <1>4 DEF SendSeed, DeliverSend
  <2> QED
    BY <1>3, <2>1
<1>5. ASSUME NEW c \in EhClients, EhWrite(c) PROVE EhRoom'
  <2>1. CASE ehSend' = ehSend
    BY <1>1, <1>5, <2>1 DEF EhWrite
  <2>2. CASE ehSend[c] # <<>> /\ ehSend' = [ehSend EXCEPT ![c] = Tail(@)]
    <3>1. Len(Tail(ehSend[c])) = Len(ehSend[c]) - 1 /\ Len(ehSend[c]) \in Nat
      BY <1>0, <2>2, HeadTailProperties, LenProperties
    <3>2. EhFits(Tail(ehSend[c]))
      BY <1>0, <3>1 DEF EhRoom, EhFits
    <3> QED
      BY <1>2, <1>5, <2>2, <3>2 DEF EhWrite
  <2> QED
    BY <1>5, <2>1, <2>2 DEF EhWrite
<1>6. ASSUME NEW k \in EhKinds, NEW e \in EhEntrySet, BroadcastLog(k, e) PROVE EhRoom'
  <2>1. CASE ehChan' = ehChan
    BY <1>1, <1>6, <2>1 DEF BroadcastLog
  <2>2. CASE Len(ehChan[k]) < EhChanCap /\ ehChan' = [ehChan EXCEPT ![k] = Append(@, e)]
    <3>1. Len(Append(ehChan[k], e)) = Len(ehChan[k]) + 1 /\ Len(ehChan[k]) \in Nat
      BY <1>0, LenProperties
    <3>2. \A l \in EhKinds : Len(ehChan'[l]) <= EhChanCap
      BY <1>0, <2>2, <3>1 DEF EhRoom
    <3>3. ehSend' = ehSend
      BY <1>6 DEF BroadcastLog
    <3> QED
      BY <3>2, <3>3 DEF EhRoom
  <2> QED
    BY <1>6, <2>1, <2>2 DEF BroadcastLog
<1>7. ASSUME NEW k \in EhKinds, BufferEntry(k) PROVE EhRoom'
  <2>1. ehChan[k] # <<>> /\ ehChan' = [ehChan EXCEPT ![k] = Tail(@)] /\ ehSend' = ehSend
    BY <1>7 DEF BufferEntry
  <2>2. Len(Tail(ehChan[k])) = Len(ehChan[k]) - 1 /\ Len(ehChan[k]) \in Nat
    BY <1>0, <2>1, HeadTailProperties, LenProperties
  <2>3. \A l \in EhKinds : Len(ehChan'[l]) <= EhChanCap
    BY <1>0, <2>1, <2>2 DEF EhRoom
  <2> QED
    BY <2>1, <2>3 DEF EhRoom
<1>8. ASSUME \/ \E c \in EhClients :
                  \/ EhArrive(c) \/ AddClient(c) \/ StartWriter(c) \/ RenderSeed(c) \/ AdoptSeed(c)
                  \/ SeedFailed(c) \/ Seeded(c) \/ ReadEnds(c) \/ DeliverCheck(c)
                  \/ \E s \in EhServices : UpdateClientFilter(c, s)
             \/ PublishIfChanged \/ FlushSnapshots \/ Rendered \/ \E k \in Scopes : RenderScope(k)
             \/ NotifyRefresh \/ FlushBatches \/ EhEngineMoves
             \/ EhStopSignal \/ LoopStops \/ StopCloses \/ StopReturns
      PROVE  EhRoom'
  <2>1. UNCHANGED <<ehSend, ehChan>>
    BY <1>8 DEF EhArrive, AddClient, StartWriter, RenderSeed, AdoptSeed, SeedFailed, Seeded, ReadEnds, DeliverCheck,
       UpdateClientFilter, PublishIfChanged, FlushSnapshots, Rendered, RenderScope, NotifyRefresh, FlushBatches,
       EhEngineMoves, EhStopSignal, LoopStops, StopCloses, StopReturns
  <2> QED
    BY <1>1, <2>1
<1> QED
  BY <1>4, <1>5, <1>6, <1>7, <1>8 DEF EhNext

\* The loop, Stop and the revisions after a step.
LEMMA EhStagesStep ==
  ASSUME EhInv, EhStages, EhNext
  PROVE  EhStages'
<1> USE DEF ehConnVars, ehQueueVars, ehLoopVars, ehBatchVars, ehIdVars
<1>0. /\ ehEngine \in Nat /\ ehPub \in EhPubs /\ ehPub.rev \in Nat
      /\ \A c \in EhClients : ehSeed[c] \in Nat /\ ehSeed[c] <= ehEngine
  BY DEF EhInv, EhShapes, SeedFirst, EhPubs
<1>1. ASSUME UNCHANGED <<ehMode, ehAt, ehService, ehLoop, ehStop, ehLast, ehPub, ehEngine, ehPending>>,
             ehPanic' \in BOOLEAN
      PROVE  EhStages'
  BY <1>1 DEF EhStages
<1>2. ASSUME NEW c \in EhClients, NEW msg, EhEnqueue(c, msg) PROVE ehPanic' \in BOOLEAN
  BY <1>2 DEF EhEnqueue, EhStages
<1>3. ASSUME NEW c \in EhClients,
             \/ EhArrive(c) \/ StartWriter(c) \/ RenderSeed(c) \/ SeedFailed(c) \/ Seeded(c)
             \/ ReadEnds(c) \/ EhWrite(c)
      PROVE  EhStages'
  <2>1. /\ UNCHANGED <<ehMode, ehAt, ehService, ehLoop, ehStop, ehLast, ehPub, ehEngine, ehPending>>
        /\ ehPanic' = ehPanic
    BY <1>3 DEF EhArrive, StartWriter, RenderSeed, SeedFailed, Seeded, ReadEnds, EhWrite
  <2> QED
    BY <1>1, <2>1 DEF EhStages
<1>4. ASSUME NEW c \in EhClients, SendSeed(c) PROVE EhStages'
  <2>1. /\ UNCHANGED <<ehMode, ehAt, ehService, ehLoop, ehStop, ehLast, ehPub, ehEngine, ehPending>>
        /\ EhEnqueue(c, Snap(ehSeed[c], Aggregate))
    BY <1>4 DEF SendSeed
  <2> QED
    BY <1>1, <1>2, <2>1
<1>5. ASSUME NEW c \in EhClients, AddClient(c) PROVE EhStages'
  BY <1>5 DEF AddClient, EhStages
<1>6. ASSUME NEW c \in EhClients, NEW s \in EhServices, UpdateClientFilter(c, s) PROVE EhStages'
  BY <1>6 DEF UpdateClientFilter, EhStages
<1>7. ASSUME NEW c \in EhClients, AdoptSeed(c) PROVE EhStages'
  <2>1. /\ UNCHANGED <<ehMode, ehAt, ehService, ehLoop, ehStop, ehPub, ehEngine, ehPending, ehPanic>>
        /\ ehLast' = ehSeed[c] \/ ehLast' = ehLast
    BY <1>7 DEF AdoptSeed
  <2>2. ehLast' \in Nat /\ ehLast' <= ehEngine
    BY <1>0, <2>1 DEF EhStages
  <2> QED
    BY <2>1, <2>2 DEF EhStages
<1>8. ASSUME NEW c \in EhClients, DeliverCheck(c) PROVE EhStages'
  BY <1>8 DEF DeliverCheck, EhStages
<1>9. ASSUME NEW c \in EhClients, DeliverSend(c) PROVE EhStages'
  <2>1. /\ UNCHANGED <<ehMode, ehService, ehLoop, ehStop, ehLast, ehPub, ehEngine, ehPending>> /\ ehAt' = {}
        /\ EhEnqueue(c, Head(ehOut[c]))
    BY <1>9 DEF DeliverSend
  <2>2. ehPanic' \in BOOLEAN
    BY <1>2, <2>1
  <2> QED
    BY <2>1, <2>2 DEF EhStages
<1>10. ASSUME PublishIfChanged \/ FlushSnapshots PROVE EhStages'
  <2>1. /\ UNCHANGED <<ehMode, ehAt, ehService, ehStop, ehEngine, ehPanic>>
        /\ ehPending' = ehPending \/ ehPending' = FALSE
        /\ ehLast' = ehLast \/ ehLast' = ehEngine
    BY <1>10 DEF PublishIfChanged, FlushSnapshots
  <2>2. \/ UNCHANGED <<ehPub, ehLoop>>
        \/ Render(ehEngine, ehRetry) \/ Render(0, FALSE)
    BY <1>10 DEF PublishIfChanged, FlushSnapshots
  <2>3. /\ ehLoop' = ehLoop \/ ehLoop' = "rendering"
        /\ ehPub'.rev = ehPub.rev \/ ehPub'.rev = ehEngine \/ ehPub'.rev = 0
    BY <2>2 DEF Render
  <2>4. ehLast' \in Nat /\ ehLast' <= ehEngine /\ ehPub'.rev <= ehEngine
    BY <1>0, <2>1, <2>3 DEF EhStages
  <2>5. ehPending' \in BOOLEAN /\ ehLoop' \in {"idle", "rendering", "done"}
    BY <2>1, <2>3 DEF EhStages
  <2> QED
    BY <2>1, <2>4, <2>5 DEF EhStages
<1>11. ASSUME NEW k \in Scopes, RenderScope(k) PROVE EhStages'
  <2>1. /\ UNCHANGED <<ehMode, ehAt, ehService, ehStop, ehLast, ehEngine, ehPending, ehPanic>>
        /\ ehLoop' \in {"idle", "rendering", "done"}
    BY <1>11 DEF RenderScope, EhStages
  <2>2. ehPub'.rev = ehPub.rev
    BY <1>0, <1>11 DEF RenderScope, EhPubs
  <2> QED
    BY <2>1, <2>2 DEF EhStages
<1>12. ASSUME Rendered PROVE EhStages'
  <2>1. /\ UNCHANGED <<ehMode, ehAt, ehService, ehStop, ehEngine, ehPending, ehPanic, ehPub>> /\ ehLoop' = "idle"
        /\ (ehLast' = ehLast \/ ehLast' = ehPub.rev)
    BY <1>12 DEF Rendered
  <2> QED
    BY <1>0, <2>1 DEF EhStages
<1>13. ASSUME NotifyRefresh \/ FlushBatches \/ EhStopSignal \/ LoopStops \/ StopCloses \/ StopReturns
       PROVE  EhStages'
  BY <1>13 DEF NotifyRefresh, FlushBatches, EhStopSignal, LoopStops, StopCloses, StopReturns, EhStages
<1>14. ASSUME EhEngineMoves PROVE EhStages'
  <2>1. /\ UNCHANGED <<ehMode, ehAt, ehService, ehLoop, ehStop, ehLast, ehPub, ehPending, ehPanic>>
        /\ ehEngine' = ehEngine + 1 /\ ehEngine < EhMaxRev
    BY <1>14 DEF EhEngineMoves
  <2>2. ehEngine' \in 1 .. EhMaxRev /\ ehLast <= ehEngine' /\ ehPub.rev <= ehEngine'
    BY <1>0, <2>1, EhAssumption DEF EhStages
  <2> QED
    BY <2>1, <2>2 DEF EhStages
<1>15. ASSUME NEW k \in EhKinds, BufferEntry(k) \/ \E e \in EhEntrySet : BroadcastLog(k, e) PROVE EhStages'
  <2>1. /\ UNCHANGED <<ehMode, ehAt, ehService, ehLoop, ehStop, ehLast, ehPub, ehEngine, ehPending>>
        /\ ehPanic' = ehPanic
    BY <1>15 DEF BufferEntry, BroadcastLog
  <2> QED
    BY <1>1, <2>1 DEF EhStages
<1> QED
  BY <1>3, <1>4, <1>5, <1>6, <1>7, <1>8, <1>9, <1>10, <1>11, <1>12, <1>13, <1>14, <1>15 DEF EhNext

\* What the event hub keeps beside EhInv.
EhKeeps == EhConns /\ EhCounts /\ EhRoom /\ EhStages

\* The event hub keeps its limits and its connections can leave: no interleaving of
\* arrivals over the cap, failed upgrades, writers that die, slow clients that are dropped
\* and Stop loses or doubles a slot or a place in the writer group, accepts more than
\* maxClients, closes a channel twice, or leaves a writer waiting on an open channel
\* after its reader went (events_ws.go: HandleWebSocket, removeClient, deliver, Stop).
THEOREM EventHubKeepsLimits == EhSpec => [](EhLimits /\ EhLeaves /\ EhTypeOK)
<1>1. ASSUME EhInit PROVE EhKeeps
  <2>1. PICK mode \in {"legacy", "aggregate"} : EhInitIn(mode)
    BY <1>1 DEF EhInit
  <2>2. EhSlots = {} /\ EhAccepted = {} /\ EhWriting = {}
    BY <2>1 DEF EhInitIn, EhSlots, EhAccepted, EhWriting
  <2>3. Cardinality({}) = 0 /\ Len(<<>>) = 0
    BY FS_EmptySet
  <2>4. EhCounts
    BY <2>1, <2>2, <2>3, EhAssumption DEF EhInitIn, EhCounts
  <2>5. EhRoom
    BY <2>1, <2>3, EhAssumption DEF EhInitIn, EhRoom, EhFits, Nothing
  <2>6. EhConns
    BY <2>1 DEF EhInitIn, EhConns, EhLeaves
  <2>7. EhMaxRev \in Nat /\ EhMaxRev # 0 /\ 0 \in EhServices
    BY EhAssumption
  <2>8. ehEngine = 1 /\ ehLast = 0 /\ ehPub.rev = 0 /\ 1 \in 1 .. EhMaxRev
    BY <2>1, <2>7 DEF EhInitIn
  <2>9. ehService \in [EhClients -> EhServices] /\ ehMode \in {"legacy", "aggregate"}
    BY <2>1, <2>7 DEF EhInitIn
  <2>10. /\ ehAt \subseteq EhClients /\ ehLoop \in {"idle", "rendering", "done"}
         /\ ehStop \in {"no", "signalled", "closed", "done"}
    BY <2>1 DEF EhInitIn
  <2>11. ehPending \in BOOLEAN /\ ehPanic \in BOOLEAN
    BY <2>1, Zenon DEF EhInitIn
  <2>12. ehLast \in Nat /\ ehLast <= ehEngine /\ ehPub.rev <= ehEngine /\ ehEngine \in 1 .. EhMaxRev
    BY <2>8
  <2>13. EhStages
    BY <2>9, <2>10, <2>11, <2>12, Zenon DEF EhStages
  <2> QED
    BY <2>4, <2>5, <2>6, <2>13 DEF EhKeeps
<1>2. EhInv /\ EhKeeps /\ [EhNext]_ehVars => EhKeeps'
  <2> SUFFICES ASSUME EhInv, EhKeeps, [EhNext]_ehVars PROVE EhKeeps'
    OBVIOUS
  <2>1. CASE EhNext
    BY <2>1, EhConnsStep, EhCountsStep, EhRoomStep, EhStagesStep DEF EhKeeps, EhInv
  <2>2. CASE UNCHANGED ehVars
    <3>1. UNCHANGED <<ehMode, ehHandler, ehWriter, ehSend, ehClosed, ehService, ehClients, ehCount, ehWg,
                      ehLoop, ehPub, ehAt, ehPending, ehChan, ehLast, ehEngine, ehStop, ehPanic>>
      BY <2>2 DEF ehVars, ehConnVars, ehQueueVars, ehLoopVars, ehBatchVars, ehIdVars
    <3>2. EhSlots' = EhSlots /\ EhAccepted' = EhAccepted /\ EhWriting' = EhWriting
      BY <3>1 DEF EhSlots, EhAccepted, EhWriting
    <3>3. EhCounts' /\ EhRoom'
      BY <3>1, <3>2 DEF EhKeeps, EhCounts, EhRoom
    <3>4. EhConns' /\ EhStages'
      BY <3>1 DEF EhKeeps, EhConns, EhLeaves, EhStages
    <3> QED
      BY <3>3, <3>4 DEF EhKeeps
  <2> QED
    BY <2>1, <2>2
<1>3. EhInv /\ EhKeeps => EhLimits /\ EhLeaves /\ EhTypeOK
  <2> SUFFICES ASSUME EhInv, EhKeeps PROVE EhLimits /\ EhLeaves /\ EhTypeOK
    OBVIOUS
  <2>1. EhLimits
    BY DEF EhKeeps, EhLimits, EhCounts, EhRoom
  <2>2. EhLeaves
    BY DEF EhKeeps, EhConns
  <2>3. ehCount \in Nat /\ ehWg \in Nat
    BY EhSlotsFinite DEF EhKeeps, EhCounts
  <2>4. ehTold \in [EhClients -> 0 .. ehEngine] /\ ehLast \in 0 .. ehEngine
    BY DEF EhInv, EhShapes, SeedFirst, EhKeeps, EhStages
  <2>5. \A c \in EhClients : Len(ehSend[c]) <= EhSendCap
    BY DEF EhKeeps, EhRoom, EhFits
  <2> QED
    BY <2>1, <2>2, <2>3, <2>4, <2>5 DEF EhTypeOK, EhInv, EhShapes, EhKeeps, EhConns, EhStages
<1> QED
  BY <1>1, <1>2, <1>3, EhInvariant, PTL DEF EhSpec
===============================================================================
