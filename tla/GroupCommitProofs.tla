--------------------------- MODULE GroupCommitProofs ---------------------------
(***************************************************************************)
(* Proofs about GroupCommit, for every finite set of Exports, every size   *)
(* and every limit, and about the cumulative baselines its commits carry   *)
(* (Baselines), for every set of exports and producers.                    *)
(***************************************************************************)
EXTENDS GroupCommit, Baselines, Totals, TLAPS, FiniteSetTheorems, SequenceTheorems

-------------------------------------------------------------------------------
(* The channel as a sequence without repetitions.                          *)

Queued(s) == {s[i] : i \in 1 .. Len(s)}
Distinct(s) == \A i, j \in 1 .. Len(s) : s[i] = s[j] => i = j

\* Sending an Export that is not in the channel keeps the channel free of duplicates.
LEMMA AppendKeepsDistinct ==
    ASSUME NEW s \in Seq(Exports), NEW x \in Exports, Distinct(s), x \notin Queued(s)
    PROVE  /\ Append(s, x) \in Seq(Exports)
           /\ Distinct(Append(s, x))
           /\ Queued(Append(s, x)) = Queued(s) \cup {x}
<1> DEFINE t == Append(s, x)
<1>1. /\ t \in Seq(Exports) /\ Len(t) = Len(s) + 1 /\ Len(s) \in Nat
      /\ \A i \in 1 .. Len(s) : t[i] = s[i]
      /\ t[Len(s) + 1] = x
  BY AppendProperties
<1> HIDE DEF t
<1>2. 1 .. Len(t) = (1 .. Len(s)) \cup {Len(s) + 1}
  BY <1>1
<1>3. Distinct(t)
  BY <1>1, <1>2 DEF Distinct, Queued
<1>4. Queued(t) = Queued(s) \cup {x}
  BY <1>1, <1>2 DEF Queued
<1> QED
  BY <1>1, <1>3, <1>4 DEF t

\* Receiving the head keeps the rest of the channel, without the head.
LEMMA TailKeepsDistinct ==
    ASSUME NEW s \in Seq(Exports), s # << >>, Distinct(s)
    PROVE  /\ Head(s) \in Exports /\ Tail(s) \in Seq(Exports)
           /\ Distinct(Tail(s))
           /\ Head(s) \notin Queued(Tail(s))
           /\ Queued(s) = Queued(Tail(s)) \cup {Head(s)}
<1> DEFINE t == Tail(s)
<1>1. /\ Head(s) \in Exports /\ t \in Seq(Exports) /\ Len(t) = Len(s) - 1
      /\ \A i \in 1 .. Len(t) : t[i] = s[i + 1]
  BY HeadTailProperties
<1>2. Len(s) \in Nat /\ Len(s) # 0 /\ Head(s) = s[1]
  BY EmptySeq, LenProperties
<1> HIDE DEF t
<1>3. \A i \in 1 .. Len(t) : i + 1 \in 1 .. Len(s) /\ i + 1 # 1
  BY <1>1, <1>2
<1>4. \A i \in 1 .. Len(s) : i = 1 \/ (i - 1 \in 1 .. Len(t) /\ t[i - 1] = s[i])
  BY <1>1, <1>2
<1>5. Distinct(t)
  BY <1>1, <1>3 DEF Distinct
<1>6. s[1] \notin Queued(t)
  BY <1>1, <1>2, <1>3 DEF Distinct, Queued
<1>7. Queued(s) = Queued(t) \cup {s[1]}
  <2>1. Queued(s) \subseteq Queued(t) \cup {s[1]}
    BY <1>4 DEF Queued
  <2>2. Queued(t) \cup {s[1]} \subseteq Queued(s)
    BY <1>1, <1>2, <1>3 DEF Queued
  <2> QED
    BY <2>1, <2>2
<1> QED
  BY <1>1, <1>2, <1>5, <1>6, <1>7 DEF t

\* A channel without repetitions is as long as the set of what it holds.
LEMMA DistinctLength ==
    ASSUME NEW s \in Seq(Exports), Distinct(s)
    PROVE  IsFiniteSet(Queued(s)) /\ Cardinality(Queued(s)) = Len(s)
<1>1. Len(s) \in Nat /\ s \in [1 .. Len(s) -> Queued(s)]
  BY LenProperties DEF Queued
<1>2. s \in Bijection(1 .. Len(s), Queued(s))
  BY <1>1 DEF Bijection, Injection, Surjection, IsInjective, Distinct, Queued
<1>3. ExistsBijection(1 .. Len(s), Queued(s))
  BY <1>2 DEF ExistsBijection
<1>4. IsFiniteSet(1 .. Len(s)) /\ Cardinality(1 .. Len(s)) = Len(s)
  BY <1>1, FS_Interval
<1> QED
  BY <1>3, <1>4, FS_Bijection

-------------------------------------------------------------------------------
(* Type correctness.                                                       *)

\* The empty channel is a channel of length zero.
LEMMA NothingQueued == << >> \in Seq(Exports) /\ Len(<< >>) = 0
BY EmptySeq

\* A freshly built writer is well typed.
LEMMA InitTypeOK == Init => TypeOK
<1> SUFFICES ASSUME Init PROVE TypeOK
  OBVIOUS
<1>1. submissions \in Seq(Exports)
  BY NothingQueued DEF Init
<1>2. pc \in [Exports -> ExportStates]
  BY DEF Init, ExportStates
<1>3. draining \in BOOLEAN /\ closed \in BOOLEAN /\ raced \in BOOLEAN
  BY Zenon DEF Init
<1>4. /\ waiters \in Nat /\ pendingBytes \in Int /\ pendingDeltas \in Int /\ crashes \in Nat
      /\ batch \in SUBSET Exports /\ durable \in SUBSET Exports /\ applied \in SUBSET Exports
  BY DEF Init
<1> QED
  BY <1>1, <1>2, <1>3, <1>4, Zenon DEF Init, TypeOK

-------------------------------------------------------------------------------
(* The inductive invariant.                                                *)

\* A batch exists exactly between its first submission and its last answer, and
\* the result it is answered with only after the transaction.
LoopShape ==
    /\ batch # {} <=> loop \in {"collect", "commit", "apply", "finish"}
    /\ result = "none" <=> loop \notin {"apply", "finish"}
    /\ loop = "apply" => result = "ok"

\* What is durable was acknowledged, was lost in a crash, or is in a batch whose
\* transaction committed; what was acknowledged is durable.
DurableExact ==
    /\ result = "ok" => batch \subseteq durable
    /\ \A e \in durable : pc[e] \in {"acked", "lost"} \/ (e \in batch /\ result = "ok")
    /\ \A e \in Exports : pc[e] = "acked" => e \in durable

AppliedExact ==
    /\ loop = "apply" => durable = applied \cup batch
    /\ loop # "apply" => durable = applied

WaitersBounded == waiters <= MaxWaiters

IInv ==
    /\ ParkedOnce
    /\ LoopShape
    /\ DurableExact
    /\ AppliedExact
    /\ WaitersExact
    /\ WaitersBounded

Parked == {e \in Exports : pc[e] = "queued"}

\* ParkedOnce in terms of the channel's contents.
LEMMA ParkedOnceIs ==
    ParkedOnce <=> /\ Distinct(submissions)
                   /\ Queued(submissions) \cap batch = {}
                   /\ Parked = batch \cup Queued(submissions)
<1>1. (\A i \in 1 .. Len(submissions) : submissions[i] \notin batch)
        <=> Queued(submissions) \cap batch = {}
  BY DEF Queued
<1> QED
  BY <1>1, Zenon DEF ParkedOnce, Distinct, Queued, Parked

\* The same after a step.
LEMMA ParkedOnceIsPrimed ==
    ParkedOnce' <=> /\ Distinct(submissions')
                    /\ Queued(submissions') \cap batch' = {}
                    /\ Parked' = batch' \cup Queued(submissions')
<1>1. (\A i \in 1 .. Len(submissions') : submissions'[i] \notin batch')
        <=> Queued(submissions') \cap batch' = {}
  BY DEF Queued
<1> QED
  BY <1>1, Zenon DEF ParkedOnce, Distinct, Queued, Parked

\* The inductive invariant holds of a freshly built writer.
LEMMA InitIInv == Init => IInv
<1> SUFFICES ASSUME Init PROVE IInv
  OBVIOUS
<1>1. Queued(submissions) = {} /\ Distinct(submissions)
  BY NothingQueued DEF Init, Queued, Distinct
<1>2. Parked = {} /\ Outstanding = {}
  BY DEF Init, Parked, Outstanding
<1>3. ParkedOnce
  BY <1>1, <1>2, ParkedOnceIs DEF Init
<1>4. WaitersExact /\ WaitersBounded
  BY <1>2, FS_EmptySet, LimitsAssumption DEF Init, WaitersExact, WaitersBounded
<1> QED
  BY <1>3, <1>4 DEF Init, IInv, LoopShape, DurableExact, AppliedExact

\* Only parked Exports are in the batch.
LEMMA BatchIsParked ==
    ASSUME TypeOK, IInv, NEW e \in Exports, e \in batch
    PROVE  pc[e] = "queued"
BY ParkedOnceIs DEF IInv, Parked

\* Finitely many Exports hold admission budget.
LEMMA OutstandingIsFinite == IsFiniteSet(Outstanding) /\ Cardinality(Outstanding) \in Nat
<1>1. Outstanding \in SUBSET Exports
  BY DEF Outstanding
<1> QED
  BY <1>1, ExportsAssumption, FS_Subset, FS_CardinalityType

\* While an Export holds admission budget, the waiter count is at least one: release never goes below zero.
LEMMA OutstandingIsCounted ==
    ASSUME TypeOK, IInv, NEW e \in Outstanding
    PROVE  waiters >= 1
<1>1. Cardinality(Outstanding) # 0
  BY OutstandingIsFinite, FS_EmptySet
<1> QED
  BY <1>1, OutstandingIsFinite DEF IInv, WaitersExact

\* The waiter count stays a natural number because it is exact: what is released
\* was admitted.
LEMMA StepTypeOK == TypeOK /\ IInv /\ [Next]_vars => TypeOK'
<1> SUFFICES ASSUME TypeOK, IInv, [Next]_vars PROVE TypeOK'
  OBVIOUS
<1> USE DEF TypeOK, exportVars, loopVars, storeVars, ExportStates
<1>1. ASSUME NEW e \in Exports, ApplyErr(e) PROVE TypeOK'
  <2>1. Bytes[e] \in Nat /\ Deltas[e] \in Nat
    BY SizesAssumption
  <2>2. CASE CheckClosed(e)
    BY <2>2 DEF CheckClosed
  <2>3. CASE Admit(e)
    BY <2>1, <2>3 DEF Admit
  <2>4. CASE RefuseSaturated(e)
    BY <2>4 DEF RefuseSaturated
  <2>5. CASE Enqueue(e)
    <3>1. Append(submissions, e) \in Seq(Exports)
      BY AppendProperties
    <3> QED
      BY <2>5, <3>1 DEF Enqueue
  <2>6. CASE RefuseStopped(e)
    <3>1. waiters >= 1
      BY <2>6, OutstandingIsCounted DEF RefuseStopped, Outstanding
    <3> QED
      BY <2>1, <2>6, <3>1 DEF RefuseStopped, Release
  <2> QED
    BY <1>1, <2>2, <2>3, <2>4, <2>5, <2>6 DEF ApplyErr
<1>2. CASE Receive
  BY <1>2, HeadTailProperties DEF Receive
<1>3. CASE BeginDrain
  BY <1>3 DEF BeginDrain
<1>4. CASE DrainDone
  BY <1>4 DEF DrainDone
<1>5. CASE Collect
  BY <1>5, HeadTailProperties DEF Collect
<1>6. CASE CloseBatch
  BY <1>6 DEF CloseBatch
<1>7. CASE CommitOK
  BY <1>7 DEF CommitOK
<1>8. CASE CommitErr
  BY <1>8 DEF CommitErr
<1>9. CASE Apply
  BY <1>9 DEF Apply
<1>10. ASSUME NEW e \in Exports, Finish(e) PROVE TypeOK'
  <2>1. Bytes[e] \in Nat /\ Deltas[e] \in Nat
    BY SizesAssumption
  <2>2. waiters >= 1
    BY <1>10, BatchIsParked, OutstandingIsCounted DEF Finish, Outstanding
  <2> QED
    BY <1>10, <2>1, <2>2 DEF Finish, Release
<1>11. CASE BarrierDone
  BY <1>11 DEF BarrierDone
<1>12. CASE RunBarrier
  BY <1>12 DEF RunBarrier, BarrierCheck, BarrierRun, BarrierRefused
<1>13. CASE Shutdown
  <2>1. raced' \in BOOLEAN
    BY <1>13, Zenon DEF Shutdown
  <2> QED
    BY <1>13, <2>1 DEF Shutdown
<1>14. CASE Crash
  <2>1. submissions' \in Seq(Exports)
    BY <1>14, NothingQueued DEF Crash
  <2>2. pc' \in [Exports -> ExportStates]
    BY <1>14 DEF Crash
  <2>3. draining' \in BOOLEAN /\ closed' \in BOOLEAN /\ raced' \in BOOLEAN
    BY <1>14, Zenon DEF Crash
  <2>4. /\ waiters' \in Nat /\ pendingBytes' \in Int /\ pendingDeltas' \in Int
        /\ crashes' \in Nat /\ batch' \in SUBSET Exports
        /\ durable' \in SUBSET Exports /\ applied' \in SUBSET Exports
    BY <1>14 DEF Crash
  <2> QED
    BY <1>14, <2>1, <2>2, <2>3, <2>4, Zenon DEF Crash
<1>15. CASE UNCHANGED vars
  BY <1>15 DEF vars
<1> QED
  BY <1>1, <1>2, <1>3, <1>4, <1>5, <1>6, <1>7, <1>8, <1>9, <1>10, <1>11, <1>12, <1>13,
     <1>14, <1>15 DEF Next, commitLoop

\* A step of one Export x that neither parks nor answers it through the loop.
LEMMA ExportMoves ==
    ASSUME TypeOK, IInv, NEW x \in Exports, NEW q \in ExportStates,
           pc[x] \notin {"queued", "acked", "failed", "refused", "lost"},
           q \in {"checked", "admitted", "refused"},
           pc' = [pc EXCEPT ![x] = q],
           UNCHANGED <<submissions, loopVars, storeVars>>
    PROVE  ParkedOnce' /\ LoopShape' /\ DurableExact' /\ AppliedExact'
<1>1. \A e \in Exports : pc'[e] = IF e = x THEN q ELSE pc[e]
  BY DEF TypeOK
<1>2. Parked' = Parked
  BY <1>1 DEF Parked
<1>3. ParkedOnce'
  BY <1>2, ParkedOnceIs, ParkedOnceIsPrimed DEF IInv, loopVars
<1>4. x \notin durable
  <2>1. x \notin batch
    BY BatchIsParked
  <2> QED
    BY <2>1 DEF IInv, DurableExact
<1>5. DurableExact'
  <2>1. \A e \in durable : pc'[e] = pc[e]
    BY <1>1, <1>4 DEF TypeOK
  <2> QED
    BY <1>1, <2>1 DEF IInv, DurableExact, loopVars, storeVars
<1>6. LoopShape' /\ AppliedExact'
  BY DEF IInv, LoopShape, AppliedExact, loopVars, storeVars
<1> QED
  BY <1>3, <1>5, <1>6

\* Every step of ApplyErr preserves the inductive invariant.
LEMMA ApplyErrPreserves ==
    ASSUME TypeOK, IInv, NEW x \in Exports, ApplyErr(x)
    PROVE  IInv'
<1>1. CASE CheckClosed(x) \/ RefuseSaturated(x)
  <2>1. PICK q \in {"checked", "refused"} : pc' = [pc EXCEPT ![x] = q]
    BY <1>1 DEF CheckClosed, RefuseSaturated
  <2>2. /\ pc[x] \in {"idle", "checked"}
        /\ UNCHANGED <<submissions, loopVars, storeVars, waiters>>
    BY <1>1 DEF CheckClosed, RefuseSaturated
  <2>3. ParkedOnce' /\ LoopShape' /\ DurableExact' /\ AppliedExact'
    BY <2>1, <2>2, ExportMoves DEF ExportStates
  <2>4. Outstanding' = Outstanding
    BY <2>1, <2>2 DEF Outstanding, TypeOK
  <2> QED
    BY <2>2, <2>3, <2>4 DEF IInv, WaitersExact, WaitersBounded
<1>2. CASE Admit(x)
  <2>1. /\ pc[x] = "checked" /\ pc' = [pc EXCEPT ![x] = "admitted"]
        /\ UNCHANGED <<submissions, loopVars, storeVars>>
        /\ waiters' = waiters + 1 /\ ~(waiters >= MaxWaiters)
    BY <1>2 DEF Admit, Saturated
  <2>2. ParkedOnce' /\ LoopShape' /\ DurableExact' /\ AppliedExact'
    BY <2>1, ExportMoves DEF ExportStates
  <2>3. Outstanding' = Outstanding \cup {x} /\ x \notin Outstanding
    BY <2>1 DEF Outstanding, TypeOK
  <2>4. Cardinality(Outstanding') = Cardinality(Outstanding) + 1
    BY <2>3, OutstandingIsFinite, FS_AddElement
  <2>5. WaitersExact'
    BY <2>1, <2>4 DEF IInv, WaitersExact
  <2>6. WaitersBounded'
    BY <2>1, LimitsAssumption DEF WaitersBounded, TypeOK
  <2> QED
    BY <2>2, <2>5, <2>6 DEF IInv
<1>3. CASE Enqueue(x)
  <2>1. /\ pc[x] = "admitted" /\ pc' = [pc EXCEPT ![x] = "queued"]
        /\ submissions' = Append(submissions, x)
        /\ UNCHANGED <<loopVars, storeVars, waiters>>
    BY <1>3 DEF Enqueue
  <2>2. \A e \in Exports : pc'[e] = IF e = x THEN "queued" ELSE pc[e]
    BY <2>1 DEF TypeOK
  <2>3. /\ Distinct(submissions) /\ Queued(submissions) \cap batch = {}
        /\ Parked = batch \cup Queued(submissions)
    BY ParkedOnceIs DEF IInv
  <2>4. x \notin Parked /\ Parked' = Parked \cup {x}
    BY <2>1, <2>2 DEF Parked
  <2>5. Distinct(submissions') /\ Queued(submissions') = Queued(submissions) \cup {x}
    BY <2>1, <2>3, <2>4, AppendKeepsDistinct DEF TypeOK
  <2>6. ParkedOnce'
    BY <2>1, <2>3, <2>4, <2>5, ParkedOnceIsPrimed DEF loopVars
  <2>7. DurableExact'
    <3>1. x \notin durable
      BY <2>1, <2>3, <2>4 DEF IInv, DurableExact
    <3>2. \A e \in durable : pc'[e] = pc[e]
      BY <2>2, <3>1 DEF TypeOK
    <3> QED
      BY <2>1, <2>2, <3>2 DEF IInv, DurableExact, loopVars, storeVars
  <2>8. LoopShape' /\ AppliedExact'
    BY <2>1 DEF IInv, LoopShape, AppliedExact, loopVars, storeVars
  <2>9. Outstanding' = Outstanding
    BY <2>1, <2>2 DEF Outstanding
  <2> QED
    BY <2>1, <2>6, <2>7, <2>8, <2>9 DEF IInv, WaitersExact, WaitersBounded
<1>4. CASE RefuseStopped(x)
  <2>1. /\ pc[x] = "admitted" /\ pc' = [pc EXCEPT ![x] = "refused"]
        /\ UNCHANGED <<submissions, loopVars, storeVars>>
        /\ waiters' = waiters - 1
    BY <1>4 DEF RefuseStopped, Release
  <2>2. ParkedOnce' /\ LoopShape' /\ DurableExact' /\ AppliedExact'
    BY <2>1, ExportMoves DEF ExportStates
  <2>3. Outstanding' = Outstanding \ {x} /\ x \in Outstanding
    BY <2>1 DEF Outstanding, TypeOK
  <2>4. Cardinality(Outstanding') = Cardinality(Outstanding) - 1
    BY <2>3, OutstandingIsFinite, FS_RemoveElement
  <2>5. WaitersExact' /\ WaitersBounded'
    BY <2>1, <2>4, OutstandingIsFinite, LimitsAssumption
       DEF IInv, WaitersExact, WaitersBounded, TypeOK
  <2> QED
    BY <2>2, <2>5 DEF IInv
<1> QED
  BY <1>1, <1>2, <1>3, <1>4 DEF ApplyErr

\* Receive and Collect move the head of the channel into the batch.
LEMMA TakePreserves ==
    ASSUME TypeOK, IInv, Receive \/ Collect
    PROVE  IInv'
<1> DEFINE h == Head(submissions)
<1>1. /\ submissions # << >> /\ submissions' = Tail(submissions)
      /\ batch' = batch \cup {h} /\ loop' = "collect"
      /\ loop \in {"select", "collect"} /\ result = "none"
      /\ UNCHANGED <<pc, waiters, result, durable, applied>>
  BY DEF Receive, Collect, storeVars, IInv, LoopShape
<1>2. /\ Distinct(submissions) /\ Queued(submissions) \cap batch = {}
      /\ Parked = batch \cup Queued(submissions)
  BY ParkedOnceIs DEF IInv
<1>3. /\ Distinct(submissions') /\ h \notin Queued(submissions')
      /\ Queued(submissions) = Queued(submissions') \cup {h}
  BY <1>1, <1>2, TailKeepsDistinct DEF TypeOK
<1> HIDE DEF h
<1>4. Parked' = Parked /\ Outstanding' = Outstanding
  BY <1>1 DEF Parked, Outstanding
<1>5. ParkedOnce'
  BY <1>1, <1>2, <1>3, <1>4, ParkedOnceIsPrimed
<1>6. LoopShape' /\ AppliedExact'
  BY <1>1 DEF IInv, LoopShape, AppliedExact
<1>7. DurableExact'
  BY <1>1 DEF IInv, DurableExact
<1> QED
  BY <1>1, <1>4, <1>5, <1>6, <1>7 DEF IInv, WaitersExact, WaitersBounded

\* A step of the loop that leaves the Exports, the channel and the batch alone.
LEMMA LoopMoves ==
    ASSUME IInv, UNCHANGED <<exportVars, batch>>
    PROVE  ParkedOnce' /\ WaitersExact' /\ WaitersBounded'
<1>1. Parked' = Parked /\ Outstanding' = Outstanding
  BY DEF Parked, Outstanding, exportVars
<1>2. ParkedOnce'
  BY <1>1, ParkedOnceIs, ParkedOnceIsPrimed DEF IInv, exportVars
<1> QED
  BY <1>1, <1>2 DEF IInv, WaitersExact, WaitersBounded, exportVars

\* finish answers one Export of the batch and releases its admission.
LEMMA FinishPreserves ==
    ASSUME TypeOK, IInv, NEW x \in Exports, Finish(x)
    PROVE  IInv'
<1>1. /\ loop = "finish" /\ x \in batch /\ batch' = batch \ {x} /\ waiters' = waiters - 1
      /\ pc' = [pc EXCEPT ![x] = IF result = "ok" THEN "acked" ELSE "failed"]
      /\ loop' = IF batch = {x} THEN "select" ELSE "finish"
      /\ result' = IF batch = {x} THEN "none" ELSE result
      /\ UNCHANGED <<submissions, durable, applied>>
  BY DEF Finish, Release, storeVars
<1>2. \A e \in Exports :
        pc'[e] = IF e = x THEN (IF result = "ok" THEN "acked" ELSE "failed") ELSE pc[e]
  BY <1>1 DEF TypeOK
<1>3. /\ Distinct(submissions) /\ Queued(submissions) \cap batch = {}
      /\ Parked = batch \cup Queued(submissions)
  BY ParkedOnceIs DEF IInv
<1>4. Parked' = Parked \ {x}
  BY <1>2 DEF Parked
<1>5. ParkedOnce'
  BY <1>1, <1>3, <1>4, ParkedOnceIsPrimed
<1>6. LoopShape'
  BY <1>1 DEF IInv, LoopShape
<1>7. DurableExact'
  <2>1. result' = "ok" => result = "ok"
    BY <1>1
  <2>2. result \in {"ok", "err"}
    BY <1>1 DEF IInv, LoopShape, TypeOK
  <2>3. result' = "ok" => batch' \subseteq durable'
    BY <1>1, <2>1 DEF IInv, DurableExact
  <2>4. \A e \in Exports : pc'[e] = "acked" => e \in durable'
    BY <1>1, <1>2 DEF IInv, DurableExact
  <2>5. ASSUME NEW e \in durable
        PROVE  pc'[e] \in {"acked", "lost"} \/ (e \in batch' /\ result' = "ok")
    <3>1. CASE e = x
      <4>1. pc[x] = "queued"
        BY <1>1, BatchIsParked
      <4>2. result = "ok"
        BY <2>5, <3>1, <4>1 DEF IInv, DurableExact
      <4> QED
        BY <1>2, <3>1, <4>2
    <3>2. CASE e # x
      BY <1>1, <1>2, <2>5, <3>2 DEF IInv, DurableExact, TypeOK
    <3> QED
      BY <3>1, <3>2
  <2> QED
    BY <1>1, <2>3, <2>4, <2>5 DEF DurableExact
<1>8. AppliedExact'
  BY <1>1 DEF IInv, AppliedExact
<1>9. Outstanding' = Outstanding \ {x} /\ x \in Outstanding
  <2>1. pc[x] = "queued"
    BY <1>1, BatchIsParked
  <2> QED
    BY <1>2, <2>1 DEF Outstanding
<1>10. Cardinality(Outstanding') = Cardinality(Outstanding) - 1
  BY <1>9, OutstandingIsFinite, FS_RemoveElement
<1>11. WaitersExact' /\ WaitersBounded'
  BY <1>1, <1>10, OutstandingIsFinite, LimitsAssumption
     DEF IInv, WaitersExact, WaitersBounded, TypeOK
<1> QED
  BY <1>5, <1>6, <1>7, <1>8, <1>11 DEF IInv

\* CommitGroup and the apply preserve the inductive invariant.
LEMMA CommitPreserves ==
    ASSUME TypeOK, IInv, CommitOK \/ CommitErr \/ Apply
    PROVE  IInv'
<1>1. ParkedOnce' /\ WaitersExact' /\ WaitersBounded'
  BY LoopMoves DEF CommitOK, CommitErr, Apply
<1>2. CASE CommitOK
  BY <1>1, <1>2 DEF CommitOK, IInv, LoopShape, DurableExact, AppliedExact, exportVars
<1>3. CASE CommitErr
  BY <1>1, <1>3 DEF CommitErr, IInv, LoopShape, DurableExact, AppliedExact, exportVars, storeVars
<1>4. CASE Apply
  BY <1>1, <1>4 DEF Apply, IInv, LoopShape, DurableExact, AppliedExact, exportVars
<1> QED
  BY <1>2, <1>3, <1>4

\* Steps that change neither the Exports nor the store nor what is in the batch.
LEMMA IdlePreserves ==
    ASSUME TypeOK, IInv,
           \/ BeginDrain \/ DrainDone \/ CloseBatch \/ BarrierDone \/ RunBarrier
           \/ Shutdown \/ UNCHANGED vars
    PROVE  IInv'
<1> USE DEF BeginDrain, DrainDone, CloseBatch, BarrierDone, RunBarrier, BarrierCheck,
            BarrierRun, BarrierRefused, Shutdown, vars
<1>1. UNCHANGED <<exportVars, batch, result, durable, applied>>
  BY DEF loopVars, storeVars
<1>2. \/ loop' = loop
      \/ loop = "collect" /\ loop' = "commit"
      \/ /\ loop \in {"select", "barrier"}
         /\ loop' \in {"select", "barrier", "stopped"}
  BY DEF loopVars
<1>3. ParkedOnce' /\ WaitersExact' /\ WaitersBounded'
  BY <1>1, LoopMoves
<1>4. LoopShape' /\ AppliedExact'
  BY <1>1, <1>2 DEF IInv, LoopShape, AppliedExact
<1>5. DurableExact'
  BY <1>1 DEF IInv, DurableExact, exportVars
<1> QED
  BY <1>3, <1>4, <1>5 DEF IInv

\* A crash empties the channel and the batch and keeps what is durable.
LEMMA CrashPreserves ==
    ASSUME TypeOK, IInv, Crash
    PROVE  IInv'
<1>1. /\ submissions' = << >> /\ batch' = {} /\ loop' = "select" /\ result' = "none"
      /\ waiters' = 0 /\ durable' = durable /\ applied' = durable
      /\ \A e \in Exports :
           pc'[e] = IF pc[e] \in {"checked", "admitted", "queued"} THEN "lost" ELSE pc[e]
  BY DEF Crash
<1>2. Parked' = {} /\ Outstanding' = {}
  BY <1>1 DEF Parked, Outstanding
<1>3. Queued(submissions') = {} /\ Distinct(submissions')
  BY <1>1, NothingQueued DEF Queued, Distinct
<1>4. ParkedOnce'
  BY <1>1, <1>2, <1>3, ParkedOnceIsPrimed
<1>5. WaitersExact' /\ WaitersBounded'
  BY <1>1, <1>2, FS_EmptySet, LimitsAssumption DEF WaitersExact, WaitersBounded
<1>6. DurableExact'
  <2>1. \A e \in batch : pc[e] = "queued"
    BY BatchIsParked DEF TypeOK
  <2> QED
    BY <1>1, <2>1 DEF IInv, DurableExact, TypeOK
<1>7. LoopShape' /\ AppliedExact'
  BY <1>1 DEF LoopShape, AppliedExact
<1> QED
  BY <1>4, <1>5, <1>6, <1>7 DEF IInv

\* Every step of the writer preserves the inductive invariant.
LEMMA StepIInv == TypeOK /\ IInv /\ [Next]_vars => IInv'
BY ApplyErrPreserves, TakePreserves, FinishPreserves, CommitPreserves, IdlePreserves,
   CrashPreserves DEF Next, commitLoop

\* The inductive invariant of the writer: where every Export is, and with it what
\* the channel, the batch, the store, the shards and the waiter count hold.
THEOREM Inductive == Spec => [](TypeOK /\ IInv)
<1>1. Init => TypeOK /\ IInv
  BY InitTypeOK, InitIInv
<1>2. TypeOK /\ IInv /\ [Next]_vars => TypeOK' /\ IInv'
  BY StepTypeOK, StepIInv
<1> QED
  BY <1>1, <1>2, PTL DEF Spec

\* The writer's state keeps its types through every path of ApplyErr, the commit
\* loop, RunBarrier, Shutdown and a crash.
THEOREM TypeCorrect == Spec => []TypeOK
BY Inductive, PTL

-------------------------------------------------------------------------------
(* What follows.                                                           *)

\* An Export between admit and its answer is in one slot of the channel or in
\* the batch, once: none is lost, none is answered or released twice.
THEOREM ParkedExactlyOnce == Spec => []ParkedOnce
<1>1. TypeOK /\ IInv => ParkedOnce
  BY DEF IInv
<1> QED
  BY <1>1, Inductive, PTL

\* Writer.waiters counts exactly the outstanding Exports.
THEOREM WaitersAreExact == Spec => []WaitersExact
<1>1. TypeOK /\ IInv => WaitersExact
  BY DEF IInv
<1> QED
  BY <1>1, Inductive, PTL

-------------------------------------------------------------------------------
(* The byte and delta budgets.                                             *)

\* The budgets as sums the provers can reason about, and their bounds.
BudgetTotal ==
    /\ pendingBytes = Total(Bytes, Outstanding)
    /\ pendingDeltas = Total(Deltas, Outstanding)

WithinLimits == pendingBytes <= MaxPendingBytes /\ pendingDeltas <= MaxPendingDeltas

\* What the outstanding Exports charged, in both currencies.
LEMMA OutstandingSizes ==
    /\ IsFiniteSet(Outstanding) /\ Outstanding \subseteq Exports
    /\ \A x \in Exports : Bytes[x] \in Nat /\ Deltas[x] \in Nat
    /\ Total(Bytes, Outstanding) \in Nat /\ Total(Deltas, Outstanding) \in Nat
<1>1. IsFiniteSet(Outstanding) /\ Outstanding \subseteq Exports
  BY OutstandingIsFinite DEF Outstanding
<1>2. \A x \in Exports : Bytes[x] \in Nat /\ Deltas[x] \in Nat
  BY SizesAssumption
<1>3. Total(Bytes, Outstanding) \in Nat /\ Total(Deltas, Outstanding) \in Nat
  BY <1>1, <1>2, TotalType
<1> QED
  BY <1>1, <1>2, <1>3

\* admit charges what it adds to the outstanding Exports, within both limits.
LEMMA AdmitCharges ==
    ASSUME BudgetTotal, NEW e \in Exports, e \notin Outstanding,
           Outstanding' = Outstanding \cup {e}, ~Saturated(e),
           pendingBytes' = pendingBytes + Bytes[e], pendingDeltas' = pendingDeltas + Deltas[e]
    PROVE  BudgetTotal' /\ WithinLimits'
<1>1. \A y \in Outstanding \cup {e} : Bytes[y] \in Nat /\ Deltas[y] \in Nat
  BY OutstandingSizes
<1>2. Total(Bytes, Outstanding \cup {e}) = Bytes[e] + Total(Bytes, Outstanding)
  BY <1>1, OutstandingSizes, TotalAdd
<1>3. Total(Deltas, Outstanding \cup {e}) = Deltas[e] + Total(Deltas, Outstanding)
  BY <1>1, OutstandingSizes, TotalAdd
<1>4. Bytes[e] \in Nat /\ Deltas[e] \in Nat
  BY <1>1
<1>5. BudgetTotal'
  BY <1>2, <1>3, <1>4, OutstandingSizes DEF BudgetTotal
<1>6. WithinLimits'
  BY <1>4, OutstandingSizes, LimitsAssumption DEF BudgetTotal, WithinLimits, Saturated
<1> QED
  BY <1>5, <1>6

\* release gives back what the Export leaving the outstanding ones had charged.
LEMMA ReleaseReturns ==
    ASSUME BudgetTotal, WithinLimits, NEW e \in Outstanding,
           Outstanding' = Outstanding \ {e}, Release(e)
    PROVE  BudgetTotal' /\ WithinLimits'
<1>1. \A y \in Outstanding : Bytes[y] \in Nat /\ Deltas[y] \in Nat
  BY OutstandingSizes
<1>2. Total(Bytes, Outstanding \ {e}) = Total(Bytes, Outstanding) - Bytes[e]
  BY <1>1, OutstandingSizes, TotalRemove
<1>3. Total(Deltas, Outstanding \ {e}) = Total(Deltas, Outstanding) - Deltas[e]
  BY <1>1, OutstandingSizes, TotalRemove
<1>4. Bytes[e] \in Nat /\ Deltas[e] \in Nat
  BY <1>1
<1>5. BudgetTotal'
  BY <1>2, <1>3, <1>4, OutstandingSizes DEF BudgetTotal, Release
<1>6. WithinLimits'
  BY <1>4, OutstandingSizes, LimitsAssumption DEF BudgetTotal, WithinLimits, Release
<1> QED
  BY <1>5, <1>6

\* Every step keeps the budgets exact and within their limits.
LEMMA StepBudget ==
    ASSUME TypeOK, IInv, BudgetTotal, WithinLimits, [Next]_vars
    PROVE  BudgetTotal' /\ WithinLimits'
<1>1. ASSUME UNCHANGED <<pc, pendingBytes, pendingDeltas>>
      PROVE  BudgetTotal' /\ WithinLimits'
  BY <1>1 DEF BudgetTotal, WithinLimits, Outstanding
<1>2. ASSUME NEW e \in Exports, CheckClosed(e) \/ RefuseSaturated(e) \/ Enqueue(e)
      PROVE  BudgetTotal' /\ WithinLimits'
  <2>1. Outstanding' = Outstanding
    BY <1>2 DEF CheckClosed, RefuseSaturated, Enqueue, Outstanding, TypeOK
  <2>2. UNCHANGED <<pendingBytes, pendingDeltas>>
    BY <1>2 DEF CheckClosed, RefuseSaturated, Enqueue
  <2> QED
    BY <2>1, <2>2 DEF BudgetTotal, WithinLimits
<1>3. ASSUME NEW e \in Exports, Admit(e)
      PROVE  BudgetTotal' /\ WithinLimits'
  <2>1. Outstanding' = Outstanding \cup {e} /\ e \notin Outstanding
    BY <1>3 DEF Admit, Outstanding, TypeOK
  <2> QED
    BY <1>3, <2>1, AdmitCharges DEF Admit
<1>4. ASSUME NEW e \in Exports, RefuseStopped(e)
      PROVE  BudgetTotal' /\ WithinLimits'
  <2>1. Outstanding' = Outstanding \ {e} /\ e \in Outstanding
    BY <1>4 DEF RefuseStopped, Outstanding, TypeOK
  <2> QED
    BY <1>4, <2>1, ReleaseReturns DEF RefuseStopped
<1>5. ASSUME NEW e \in Exports, Finish(e)
      PROVE  BudgetTotal' /\ WithinLimits'
  <2>1. pc[e] = "queued"
    BY <1>5, BatchIsParked DEF Finish
  <2>2. Outstanding' = Outstanding \ {e} /\ e \in Outstanding
    BY <1>5, <2>1 DEF Finish, Outstanding, TypeOK
  <2> QED
    BY <1>5, <2>2, ReleaseReturns DEF Finish
<1>6. CASE Crash
  <2>1. Outstanding' = {} /\ pendingBytes' = 0 /\ pendingDeltas' = 0
    BY <1>6 DEF Crash, Outstanding, TypeOK
  <2> QED
    BY <2>1, TotalEmpty, LimitsAssumption DEF BudgetTotal, WithinLimits
<1>7. CASE Receive \/ BeginDrain \/ DrainDone \/ Collect \/ CloseBatch \/ CommitOK \/ CommitErr
           \/ Apply \/ BarrierDone \/ RunBarrier \/ Shutdown \/ UNCHANGED vars
  BY <1>1, <1>7 DEF Receive, BeginDrain, DrainDone, Collect, CloseBatch, CommitOK, CommitErr,
     Apply, BarrierDone, RunBarrier, BarrierCheck, BarrierRun, BarrierRefused, Shutdown,
     vars, exportVars
<1> QED
  BY <1>2, <1>3, <1>4, <1>5, <1>6, <1>7 DEF Next, ApplyErr, commitLoop

\* Exact and within the limits, in every reachable state.
LEMMA BudgetInductive == Spec => [](BudgetTotal /\ WithinLimits)
<1>1. Init => BudgetTotal /\ WithinLimits
  <2> SUFFICES ASSUME Init PROVE BudgetTotal /\ WithinLimits
    OBVIOUS
  <2>1. Outstanding = {}
    BY DEF Init, Outstanding
  <2> QED
    BY <2>1, TotalEmpty, LimitsAssumption DEF Init, BudgetTotal, WithinLimits
<1>2. TypeOK /\ IInv /\ BudgetTotal /\ WithinLimits /\ [Next]_vars => (BudgetTotal /\ WithinLimits)'
  BY StepBudget
<1> QED
  BY <1>1, <1>2, Inductive, PTL DEF Spec

\* Writer.pendingBytes and pendingDeltas are exactly what the outstanding Exports
\* charged, on every path out of ApplyErr and finish and after every crash.
THEOREM BudgetsAreExact == Spec => []BudgetExact
<1>1. BudgetTotal => BudgetExact
  <2>1. MapThenSumSet(LAMBDA e : Bytes[e], Outstanding) = Total(Bytes, Outstanding)
    BY OutstandingSizes, SumIsTotal
  <2>2. MapThenSumSet(LAMBDA e : Deltas[e], Outstanding) = Total(Deltas, Outstanding)
    BY OutstandingSizes, SumIsTotal
  <2> QED
    BY <2>1, <2>2 DEF BudgetTotal, BudgetExact
<1> QED
  BY <1>1, BudgetInductive, PTL

\* The budgets never go below zero and never past MaxPendingBytes and
\* MaxPendingDeltas: a release on one path too many, or an admission that looked
\* at one limit only, would break it.
THEOREM BudgetsHold ==
    Spec => [](pendingBytes \in 0 .. MaxPendingBytes /\ pendingDeltas \in 0 .. MaxPendingDeltas)
<1>1. BudgetTotal /\ WithinLimits =>
        pendingBytes \in 0 .. MaxPendingBytes /\ pendingDeltas \in 0 .. MaxPendingDeltas
  BY OutstandingSizes, LimitsAssumption DEF BudgetTotal, WithinLimits
<1> QED
  BY <1>1, BudgetInductive, PTL

-------------------------------------------------------------------------------
(* The channel and the answers.                                            *)

\* The channel send of ApplyErr never blocks: an admitted Export is one of at
\* most MaxWaiters outstanding ones and is not in the channel, so the channel,
\* which holds only outstanding Exports and each once, has a free slot.
THEOREM SendHasRoom == Spec => []SendNeverBlocks
<1>1. TypeOK /\ IInv => SendNeverBlocks
  <2> SUFFICES ASSUME TypeOK, IInv, NEW x \in Exports, pc[x] = "admitted"
               PROVE  Len(submissions) < MaxWaiters
    BY DEF SendNeverBlocks
  <2>1. Distinct(submissions) /\ Queued(submissions) \subseteq Parked
    BY ParkedOnceIs DEF IInv
  <2>2. Queued(submissions) \subseteq Outstanding \ {x} /\ x \in Outstanding
    BY <2>1 DEF Parked, Outstanding
  <2>3. /\ IsFiniteSet(Outstanding \ {x})
        /\ Cardinality(Outstanding \ {x}) = Cardinality(Outstanding) - 1
    BY <2>2, OutstandingIsFinite, FS_RemoveElement
  <2>4. Cardinality(Queued(submissions)) <= Cardinality(Outstanding \ {x})
    BY <2>2, <2>3, FS_Subset
  <2>5. Cardinality(Queued(submissions)) = Len(submissions) /\ Len(submissions) \in Nat
    BY <2>1, DistinctLength, LenProperties DEF TypeOK
  <2>6. Cardinality(Outstanding) \in Nat /\ Cardinality(Outstanding) <= MaxWaiters
    BY OutstandingIsFinite DEF IInv, WaitersExact, WaitersBounded
  <2> QED
    BY <2>3, <2>4, <2>5, <2>6, LimitsAssumption
<1> QED
  BY <1>1, Inductive, PTL

\* The durable-ACK contract: OK means durable and visible, an error means that
\* nothing of the Export is in the store.
THEOREM AnswersAreTruthful == Spec => []AnsweredTruthfully
<1>1. TypeOK /\ IInv => AnsweredTruthfully
  <2> SUFFICES ASSUME TypeOK, IInv, NEW x \in Exports
               PROVE  /\ pc[x] = "acked" => x \in durable /\ x \in applied
                      /\ pc[x] \in {"failed", "refused"} => x \notin durable
    BY DEF AnsweredTruthfully
  <2>1. pc[x] # "queued" => x \notin batch
    BY BatchIsParked
  <2> QED
    BY <2>1 DEF IInv, DurableExact, AppliedExact
<1> QED
  BY <1>1, Inductive, PTL

\* The shards hold exactly what is durable, except between CommitGroup and
\* CommitAdmission, when they lag by the batch.
THEOREM ShardsTrackStore == Spec => []ShardsFollowStore
<1>1. TypeOK /\ IInv => ShardsFollowStore
  BY DEF IInv, AppliedExact, ShardsFollowStore
<1> QED
  BY <1>1, Inductive, PTL

\* An answer, once given, is never changed, and nothing durable is dropped.
THEOREM AnswersNeverChange == Spec => AnswersAreFinal
<1> DEFINE Final ==
      /\ durable \subseteq durable'
      /\ \A e \in Exports :
           pc[e] \in {"acked", "failed", "refused", "lost"} => pc'[e] = pc[e]
<1>1. TypeOK /\ IInv /\ [Next]_vars => [Final]_vars
  <2> SUFFICES ASSUME TypeOK, IInv, Next PROVE Final
    BY DEF vars
  <2>1. ASSUME NEW x \in Exports, ApplyErr(x) PROVE Final
    BY <2>1 DEF ApplyErr, CheckClosed, Admit, RefuseSaturated, Enqueue, RefuseStopped,
                storeVars, TypeOK
  <2>2. ASSUME NEW x \in Exports, Finish(x) PROVE Final
    <3>1. pc[x] = "queued"
      BY <2>2, BatchIsParked DEF Finish
    <3> QED
      BY <2>2, <3>1 DEF Finish, storeVars, TypeOK
  <2>3. CASE Crash
    BY <2>3 DEF Crash
  <2>4. CASE \/ Receive \/ BeginDrain \/ DrainDone \/ Collect \/ CloseBatch \/ CommitOK
             \/ CommitErr \/ Apply \/ BarrierDone \/ RunBarrier \/ Shutdown
    <3>1. durable \subseteq durable' /\ pc' = pc
      BY <2>4 DEF Receive, BeginDrain, DrainDone, Collect, CloseBatch, CommitOK, CommitErr,
                  Apply, BarrierDone, RunBarrier, BarrierCheck, BarrierRun, BarrierRefused,
                  Shutdown, exportVars, storeVars
    <3> QED
      BY <3>1
  <2> QED
    BY <2>1, <2>2, <2>3, <2>4 DEF Next, commitLoop
<1> QED
  BY <1>1, Inductive, PTL DEF Spec, AnswersAreFinal

-------------------------------------------------------------------------------
(* The writer implements the durable-ACK promise.                          *)

\* The refinement mapping applied to one Export.
LEMMA AnswerIsFunction ==
    ASSUME NEW e \in Exports
    PROVE  Answer[e] = CASE pc[e] = "acked" -> "ok"
                         [] pc[e] \in {"failed", "refused"} -> "error"
                         [] OTHER -> "none"
BY DEF Answer

\* A step after which every Export has the same kind of answer keeps Answer.
LEMMA SameAnswer ==
    ASSUME \A e \in Exports :
             /\ pc[e] = "acked" <=> pc'[e] = "acked"
             /\ pc[e] \in {"failed", "refused"} <=> pc'[e] \in {"failed", "refused"}
    PROVE  Answer' = Answer
BY DEF Answer

\* Every step of the writer is a step of DurableAck or leaves its variables alone.
LEMMA RefinementStep == TypeOK /\ IInv /\ [Next]_vars => [DA!Next]_(DA!vars)
<1> SUFFICES ASSUME TypeOK, IInv, [Next]_vars PROVE [DA!Next]_(DA!vars)
  OBVIOUS
<1> USE DEF DA!vars, DA!Next
\* The steps that answer one Export with an error.
<1>1. ASSUME NEW x \in Exports, pc[x] \in {"idle", "checked", "admitted"},
             pc' = [pc EXCEPT ![x] = "refused"], durable' = durable
      PROVE  DA!AnswerError(x)
  <2>1. x \notin durable
    BY <1>1, BatchIsParked DEF IInv, DurableExact
  <2>2. Answer[x] = "none"
    BY <1>1, AnswerIsFunction
  <2>3. Answer' = [Answer EXCEPT ![x] = "error"]
    BY <1>1 DEF Answer, TypeOK
  <2> QED
    BY <1>1, <2>1, <2>2, <2>3 DEF DA!AnswerError
<1>2. ASSUME NEW x \in Exports, ApplyErr(x) PROVE [DA!Next]_(DA!vars)
  <2>1. durable' = durable
    BY <1>2 DEF ApplyErr, CheckClosed, Admit, RefuseSaturated, Enqueue, RefuseStopped, storeVars
  <2>2. \/ /\ pc[x] \in {"idle", "checked", "admitted"}
           /\ pc' = [pc EXCEPT ![x] = "refused"]
        \/ /\ pc[x] \in {"idle", "checked", "admitted"}
           /\ \E q \in {"checked", "admitted", "queued"} : pc' = [pc EXCEPT ![x] = q]
    BY <1>2 DEF ApplyErr, CheckClosed, Admit, RefuseSaturated, Enqueue, RefuseStopped
  <2>3. CASE pc' = [pc EXCEPT ![x] = "refused"] /\ pc[x] \in {"idle", "checked", "admitted"}
    BY <1>1, <2>1, <2>3
  <2>4. CASE /\ pc[x] \in {"idle", "checked", "admitted"}
             /\ \E q \in {"checked", "admitted", "queued"} : pc' = [pc EXCEPT ![x] = q]
    <3>1. Answer' = Answer
      BY <2>4, SameAnswer DEF TypeOK
    <3> QED
      BY <2>1, <3>1
  <2> QED
    BY <2>2, <2>3, <2>4
<1>3. ASSUME NEW x \in Exports, Finish(x) PROVE DA!AnswerOK(x) \/ DA!AnswerError(x)
  <2>1. /\ x \in batch /\ loop = "finish" /\ pc[x] = "queued" /\ durable' = durable
        /\ pc' = [pc EXCEPT ![x] = IF result = "ok" THEN "acked" ELSE "failed"]
    BY <1>3, BatchIsParked DEF Finish, storeVars
  <2>2. Answer[x] = "none"
    BY <2>1, AnswerIsFunction
  <2>3. CASE result = "ok"
    <3>1. x \in durable
      BY <2>1, <2>3 DEF IInv, DurableExact
    <3>2. Answer' = [Answer EXCEPT ![x] = "ok"]
      BY <2>1, <2>3 DEF Answer, TypeOK
    <3> QED
      BY <2>1, <2>2, <3>1, <3>2 DEF DA!AnswerOK
  <2>4. CASE result # "ok"
    <3>1. x \notin durable
      BY <2>1, <2>4 DEF IInv, DurableExact
    <3>2. Answer' = [Answer EXCEPT ![x] = "error"]
      BY <2>1, <2>4 DEF Answer, TypeOK
    <3> QED
      BY <2>1, <2>2, <3>1, <3>2 DEF DA!AnswerError
  <2> QED
    BY <2>3, <2>4
<1>4. CASE CommitOK
  <2>1. /\ loop = "commit" /\ durable' = durable \cup batch /\ pc' = pc
    BY <1>4 DEF CommitOK, exportVars
  <2>2. batch # {} /\ batch \in SUBSET Exports /\ result = "none"
    BY <2>1 DEF IInv, LoopShape, TypeOK
  <2>3. \A e \in batch : pc[e] = "queued"
    BY <2>2, BatchIsParked
  <2>4. batch \cap durable = {}
    BY <2>2, <2>3 DEF IInv, DurableExact
  <2>5. \A e \in batch : Answer[e] = "none"
    BY <2>2, <2>3, AnswerIsFunction
  <2>6. Answer' = Answer
    BY <2>1, SameAnswer
  <2>7. DA!Persist(batch)
    BY <2>1, <2>2, <2>4, <2>5, <2>6 DEF DA!Persist
  <2> QED
    BY <2>2, <2>7
<1>5. CASE Crash
  <2>1. Answer' = Answer
    BY <1>5, SameAnswer DEF Crash, TypeOK
  <2> QED
    BY <1>5, <2>1 DEF Crash
<1>6. CASE \/ Receive \/ BeginDrain \/ DrainDone \/ Collect \/ CloseBatch \/ CommitErr
           \/ Apply \/ BarrierDone \/ RunBarrier \/ Shutdown \/ UNCHANGED vars
  <2>1. durable' = durable /\ pc' = pc
    BY <1>6 DEF Receive, BeginDrain, DrainDone, Collect, CloseBatch, CommitErr, Apply,
                BarrierDone, RunBarrier, BarrierCheck, BarrierRun, BarrierRefused,
                Shutdown, exportVars, storeVars, vars
  <2>2. Answer' = Answer
    BY <2>1, SameAnswer
  <2> QED
    BY <2>1, <2>2
<1> QED
  BY <1>2, <1>3, <1>4, <1>5, <1>6 DEF Next, commitLoop

\* Refinement: every behaviour of the group-commit writer is, seen through its
\* answers and the store, a behaviour of the durable-ACK promise.
THEOREM WriterImplementsDurableAck == Spec => ImplementsDurableAck
<1>1. Init => DA!Init
  BY DEF Init, DA!Init, Answer
<1> QED
  BY <1>1, RefinementStep, Inductive, PTL DEF Spec, ImplementsDurableAck, DA!Spec

-------------------------------------------------------------------------------
(* Cumulative baselines (Baselines): totals over failed commits, retries,   *)
(* crashes and purges.                                                      *)

\* The records of the tracker and of the rows, and the points of a counter.
BaseStates ==
    [start : Nat, last : Nat, value : Nat, pending : Nat, owed : Nat,
     noted : Nat, stranded : Nat, seen : Nat]
CounterMarks == [start : Nat, ts : Nat, value : Nat, grown : Nat]
MarkOf(b) == [start |-> b.start, ts |-> b.last, value |-> b.value, grown |-> b.seen]

BlGroups ==
    [xs : SUBSET BlExports, dirty : SUBSET BlRecords, base : [BlRecords -> BaseStates], orphan : Nat]

\* The types the proof needs.
BlShapes ==
    /\ blSource \in [BlProducers -> CounterMarks]
    /\ blPoint \in [BlExports -> CounterMarks]
    /\ blExport \in [BlExports -> {"new", "made", "reduced", "acked", "refused"}]
    /\ blDelta \in [BlExports -> Nat]
    /\ blBase \in [BlRecords -> BaseStates] /\ blRows \in [BlRecords -> BaseStates]
    /\ blKnown \subseteq BlRecords /\ blDirty \subseteq BlRecords /\ blStored \subseteq BlRecords
    /\ blGroup \in BlGroups
    /\ blFails \in Nat /\ blCrashes \in Nat /\ blDurable \in Nat /\ blOverlap \in BOOLEAN
    /\ blOrphan \in Nat /\ blLost \in Nat

-------------------------------------------------------------------------------
(* What one observed point does to a baseline.                             *)

\* The tracker is left alone and the export takes nothing.
Quiet(x) == blDelta' = [blDelta EXCEPT ![x] = 0] /\ UNCHANGED blTrackerVars

\* What the record b turns into under the point pt of an export.
Opens(b, pt, nb) == MarkOf(nb) = pt /\ nb.noted = b.noted
Repeats(b, nb) == MarkOf(nb) = MarkOf(b) /\ nb.noted = b.noted
Advances(b, pt, nb) ==
    /\ pt.ts > b.last /\ MarkOf(nb) = pt
    /\ nb.noted = b.noted \/ nb.noted = b.noted + Increase(b, pt)

\* The export takes the increase d, and the record r becomes nb: what was noted and what was
\* held move together.
Observes(x, r, nb, d) ==
    /\ r = RecordOf(BlProducer[x])
    /\ blBase' = [blBase EXCEPT ![r] = nb] /\ blDelta' = [blDelta EXCEPT ![x] = d]
    /\ blDirty' = blDirty \cup {r} /\ blKnown' = blKnown \cup {r}
    /\ nb.noted + blBase[r].owed + blBase[r].stranded
         = blBase[r].noted + nb.owed + nb.stranded + d
    /\ \/ r \notin blKnown /\ ~Late(blPoint[x].ts) /\ Opens(blBase[r], blPoint[x], nb)
       \/ r \in blKnown /\ Repeats(blBase[r], nb)
       \/ r \in blKnown /\ Advances(blBase[r], blPoint[x], nb)

\* The increase of a point is a number.
LEMMA IncreaseType ==
    ASSUME NEW b \in BaseStates, NEW pt \in CounterMarks
    PROVE  Increase(b, pt) \in Nat
<1>1. b.value \in Nat /\ pt.value \in Nat
  BY DEF BaseStates, CounterMarks
<1> QED
  BY <1>1 DEF Increase

\* The record a new producer, or the first point after a gap, opens.
LEMMA MovedRecord ==
    ASSUME NEW b \in BaseStates, NEW pt \in CounterMarks
    PROVE  [b EXCEPT !.start = pt.start, !.last = pt.ts, !.value = pt.value, !.seen = pt.grown]
             = [start |-> pt.start, last |-> pt.ts, value |-> pt.value, pending |-> b.pending,
                owed |-> b.owed, noted |-> b.noted, stranded |-> b.stranded, seen |-> pt.grown]
<1> DEFINE st == pt.start
           ts == pt.ts
           va == pt.value
           gr == pt.grown
           m1 == [b EXCEPT !.start = st]
           m2 == [m1 EXCEPT !.last = ts]
           m3 == [m2 EXCEPT !.value = va]
           m4 == [m3 EXCEPT !.seen = gr]
<1>1. b = [start |-> b.start, last |-> b.last, value |-> b.value, pending |-> b.pending,
           owed |-> b.owed, noted |-> b.noted, stranded |-> b.stranded, seen |-> b.seen]
  BY DEF BaseStates
<1> HIDE DEF st, ts, va, gr
<1>2. m1 = [start |-> st, last |-> b.last, value |-> b.value, pending |-> b.pending,
            owed |-> b.owed, noted |-> b.noted, stranded |-> b.stranded, seen |-> b.seen]
  BY <1>1
<1>3. [b EXCEPT !.start = st, !.last = ts, !.value = va, !.seen = gr] = m4
  OBVIOUS
<1> HIDE DEF m1
<1>4. m2 = [start |-> st, last |-> ts, value |-> b.value, pending |-> b.pending,
            owed |-> b.owed, noted |-> b.noted, stranded |-> b.stranded, seen |-> b.seen]
  BY <1>2
<1> HIDE DEF m2
<1>5. m3 = [start |-> st, last |-> ts, value |-> va, pending |-> b.pending,
            owed |-> b.owed, noted |-> b.noted, stranded |-> b.stranded, seen |-> b.seen]
  BY <1>4
<1> HIDE DEF m3
<1>6. m4 = [start |-> st, last |-> ts, value |-> va, pending |-> b.pending,
            owed |-> b.owed, noted |-> b.noted, stranded |-> b.stranded, seen |-> gr]
  BY <1>5
<1> QED
  BY <1>6, <1>3 DEF st, ts, va, gr

\* The updates of a record, as records.
LEMMA SettledRecord ==
    ASSUME NEW b \in BaseStates, NEW u, NEW w
    PROVE  /\ [Settled(b) EXCEPT !.pending = @ + u]
                = [start |-> b.start, last |-> b.last, value |-> b.value, pending |-> b.pending + u,
                   owed |-> 0, noted |-> b.noted, stranded |-> b.stranded, seen |-> b.seen]
           /\ [Settled(b) EXCEPT !.stranded = @ + u]
                = [start |-> b.start, last |-> b.last, value |-> b.value, pending |-> b.pending,
                   owed |-> 0, noted |-> b.noted, stranded |-> b.stranded + u, seen |-> b.seen]
           /\ [Settled(b) EXCEPT !.pending = @ + u + w, !.noted = @ + u]
                = [start |-> b.start, last |-> b.last, value |-> b.value, pending |-> b.pending + u + w,
                   owed |-> 0, noted |-> b.noted + u, stranded |-> b.stranded, seen |-> b.seen]
<1> DEFINE s == Settled(b)
           pu == b.pending + u
           su == b.stranded + u
           nu == b.noted + u
           puw == b.pending + u + w
<1>1. s = [start |-> b.start, last |-> b.last, value |-> b.value, pending |-> b.pending,
           owed |-> 0, noted |-> b.noted, stranded |-> b.stranded, seen |-> b.seen]
  BY DEF Settled, BaseStates
<1>2. s.pending = b.pending /\ s.stranded = b.stranded /\ s.noted = b.noted
  BY <1>1
<1>3. /\ [s EXCEPT !.pending = @ + u] = [s EXCEPT !.pending = pu]
      /\ [s EXCEPT !.stranded = @ + u] = [s EXCEPT !.stranded = su]
      /\ [s EXCEPT !.pending = @ + u + w, !.noted = @ + u] = [s EXCEPT !.pending = puw, !.noted = nu]
  <2> HIDE DEF s
  <2> QED
    BY <1>2
<1> HIDE DEF s, pu, su, nu, puw
<1>4. [s EXCEPT !.pending = pu]
        = [start |-> b.start, last |-> b.last, value |-> b.value, pending |-> pu,
           owed |-> 0, noted |-> b.noted, stranded |-> b.stranded, seen |-> b.seen]
  BY <1>1
<1>5. [s EXCEPT !.stranded = su]
        = [start |-> b.start, last |-> b.last, value |-> b.value, pending |-> b.pending,
           owed |-> 0, noted |-> b.noted, stranded |-> su, seen |-> b.seen]
  BY <1>1
<1>6. [s EXCEPT !.pending = puw, !.noted = nu]
        = [start |-> b.start, last |-> b.last, value |-> b.value, pending |-> puw,
           owed |-> 0, noted |-> nu, stranded |-> b.stranded, seen |-> b.seen]
  <2> DEFINE q == [s EXCEPT !.pending = puw]
  <2>1. q = [start |-> b.start, last |-> b.last, value |-> b.value, pending |-> puw,
             owed |-> 0, noted |-> b.noted, stranded |-> b.stranded, seen |-> b.seen]
    BY <1>1
  <2>2. [s EXCEPT !.pending = puw, !.noted = nu] = [q EXCEPT !.noted = nu]
    OBVIOUS
  <2> HIDE DEF q
  <2> QED
    BY <2>1, <2>2
<1> QED
  BY <1>3, <1>4, <1>5, <1>6 DEF s, pu, su, nu, puw

\* A point is observed in one of these ways.
LEMMA ObserveStep ==
    ASSUME BlShapes, NEW x \in BlExports, ObserveCumulative(x)
    PROVE  \/ Quiet(x)
           \/ \E r \in BlRecords, nb \in BaseStates, d \in Nat : Observes(x, r, nb, d)
<1> DEFINE pt == blPoint[x]
           r == RecordOf(BlProducer[x])
           b == blBase[r]
           moved == [b EXCEPT !.start = pt.start, !.last = pt.ts, !.value = pt.value, !.seen = pt.grown]
           put(nb, d) == /\ blBase' = [blBase EXCEPT ![r] = nb]
                         /\ blDelta' = [blDelta EXCEPT ![x] = d]
                         /\ blDirty' = blDirty \union {r}
                         /\ blKnown' = blKnown \union {r}
<1>1. BlProducer[x] \in BlProducers
  BY BlAssumption
<1>2. r \in BlRecords
  BY <1>1 DEF RecordOf, BlRecords
<1>3. pt \in CounterMarks /\ b \in BaseStates
  BY <1>2 DEF BlShapes
<1>4. \/ Quiet(x)
      \/ ~Late(pt.ts) /\ r \notin blKnown /\ put(moved, 0)
      \/ r \in blKnown /\ put([Settled(b) EXCEPT !.pending = @ + b.owed], b.owed)
      \/ r \in blKnown /\ pt.ts - b.last > GapThreshold /\ put([Settled(moved) EXCEPT !.stranded = @ + b.owed], 0)
      \/ r \in blKnown /\ pt.ts > b.last
         /\ put([Settled(moved) EXCEPT !.pending = @ + Increase(b, pt) + b.owed,
                                       !.noted = @ + Increase(b, pt)],
                Increase(b, pt) + b.owed)
  BY DEF ObserveCumulative, Quiet
<1>5. Increase(b, pt) \in Nat
  BY <1>3, IncreaseType
<1>6. /\ b.start \in Nat /\ b.last \in Nat /\ b.value \in Nat /\ b.pending \in Nat /\ b.owed \in Nat
      /\ b.noted \in Nat /\ b.stranded \in Nat /\ b.seen \in Nat
      /\ pt.start \in Nat /\ pt.ts \in Nat /\ pt.value \in Nat /\ pt.grown \in Nat
      /\ pt = [start |-> pt.start, ts |-> pt.ts, value |-> pt.value, grown |-> pt.grown]
  BY <1>3 DEF BaseStates, CounterMarks
<1>7. GapThreshold \in Nat
  BY BlAssumption
<1>8. moved = [start |-> pt.start, last |-> pt.ts, value |-> pt.value, pending |-> b.pending,
               owed |-> b.owed, noted |-> b.noted, stranded |-> b.stranded, seen |-> pt.grown]
  BY <1>3, MovedRecord
<1>9. moved \in BaseStates
  BY <1>6, <1>8 DEF BaseStates
<1> DEFINE i == Increase(b, pt)
<1>10. /\ [Settled(b) EXCEPT !.pending = @ + b.owed]
            = [start |-> b.start, last |-> b.last, value |-> b.value, pending |-> b.pending + b.owed,
               owed |-> 0, noted |-> b.noted, stranded |-> b.stranded, seen |-> b.seen]
  BY <1>3, SettledRecord
<1>11. /\ [Settled(moved) EXCEPT !.stranded = @ + b.owed]
            = [start |-> moved.start, last |-> moved.last, value |-> moved.value, pending |-> moved.pending,
               owed |-> 0, noted |-> moved.noted, stranded |-> moved.stranded + b.owed, seen |-> moved.seen]
       /\ [Settled(moved) EXCEPT !.pending = @ + i + b.owed, !.noted = @ + i]
            = [start |-> moved.start, last |-> moved.last, value |-> moved.value,
               pending |-> moved.pending + i + b.owed,
               owed |-> 0, noted |-> moved.noted + i, stranded |-> moved.stranded, seen |-> moved.seen]
  <2> HIDE DEF moved, i
  <2> QED
    BY <1>9, SettledRecord
<1>12. /\ moved.start = pt.start /\ moved.last = pt.ts /\ moved.value = pt.value /\ moved.seen = pt.grown
       /\ moved.pending = b.pending /\ moved.owed = b.owed /\ moved.noted = b.noted
       /\ moved.stranded = b.stranded
  BY <1>8
<1> HIDE DEF moved, pt, b, r, i
<1>13. CASE ~Late(pt.ts) /\ r \notin blKnown /\ put(moved, 0)
  <2>1. MarkOf(moved) = pt
    BY <1>6, <1>12 DEF MarkOf
  <2>2. Observes(x, r, moved, 0)
    BY <1>13, <2>1, <1>6, <1>12 DEF Observes, Opens, r, pt, b
  <2> QED
    BY <2>2, <1>2, <1>9
<1>14. CASE r \in blKnown /\ put([Settled(b) EXCEPT !.pending = @ + b.owed], b.owed)
  <2> DEFINE nb == [start |-> b.start, last |-> b.last, value |-> b.value, pending |-> b.pending + b.owed,
                    owed |-> 0, noted |-> b.noted, stranded |-> b.stranded, seen |-> b.seen]
  <2>1. r \in blKnown /\ put(nb, b.owed)
    BY <1>10, <1>14
  <2>2. nb \in BaseStates /\ MarkOf(nb) = MarkOf(b) /\ nb.noted = b.noted
        /\ nb.owed = 0 /\ nb.stranded = b.stranded
    BY <1>6 DEF BaseStates, MarkOf
  <2> HIDE DEF nb
  <2>3. Observes(x, r, nb, b.owed)
    BY <2>1, <2>2, <1>6 DEF Observes, Repeats, r, b
  <2> QED
    BY <2>2, <2>3, <1>2, <1>6
<1>15. CASE /\ r \in blKnown /\ pt.ts - b.last > GapThreshold
            /\ put([Settled(moved) EXCEPT !.stranded = @ + b.owed], 0)
  <2> DEFINE nb == [start |-> moved.start, last |-> moved.last, value |-> moved.value,
                    pending |-> moved.pending, owed |-> 0, noted |-> moved.noted,
                    stranded |-> moved.stranded + b.owed, seen |-> moved.seen]
  <2>0. pt.ts > b.last
    BY <1>6, <1>7, <1>15
  <2>1. r \in blKnown /\ pt.ts > b.last /\ put(nb, 0)
    BY <2>0, <1>11, <1>15
  <2>2. nb \in BaseStates /\ MarkOf(nb) = pt /\ nb.noted = b.noted
        /\ nb.owed = 0 /\ nb.stranded = b.stranded + b.owed
    BY <1>6, <1>12 DEF BaseStates, MarkOf
  <2> HIDE DEF nb
  <2>3. Observes(x, r, nb, 0)
    BY <2>1, <2>2, <1>6 DEF Observes, Advances, r, b, pt
  <2> QED
    BY <2>2, <2>3, <1>2
<1>16. CASE /\ r \in blKnown /\ pt.ts > b.last
            /\ put([Settled(moved) EXCEPT !.pending = @ + Increase(b, pt) + b.owed,
                                          !.noted = @ + Increase(b, pt)],
                   Increase(b, pt) + b.owed)
  <2> DEFINE nb == [start |-> moved.start, last |-> moved.last, value |-> moved.value,
                    pending |-> moved.pending + i + b.owed, owed |-> 0, noted |-> moved.noted + i,
                    stranded |-> moved.stranded, seen |-> moved.seen]
  <2>1. r \in blKnown /\ pt.ts > b.last /\ put(nb, i + b.owed)
    BY <1>11, <1>16 DEF i
  <2>2. i \in Nat /\ i = Increase(b, pt)
    BY <1>5 DEF i
  <2>3. nb \in BaseStates /\ MarkOf(nb) = pt /\ nb.noted = b.noted + i
        /\ nb.owed = 0 /\ nb.stranded = b.stranded
    BY <1>6, <1>12, <2>2 DEF BaseStates, MarkOf
  <2> HIDE DEF nb
  <2>4. nb.noted + b.owed + b.stranded = b.noted + nb.owed + nb.stranded + (i + b.owed)
    BY <2>2, <2>3, <1>6
  <2>5. Observes(x, r, nb, i + b.owed)
    BY <2>1, <2>2, <2>3, <2>4 DEF Observes, Advances, r, b, pt
  <2>6. i + b.owed \in Nat
    BY <2>2, <1>6
  <2> QED
    BY <2>3, <2>5, <2>6, <1>2
<1> QED
  BY <1>4, <1>13, <1>14, <1>15, <1>16

-------------------------------------------------------------------------------
(* The records a drain, a commit and a failed commit leave.                *)

\* Two states of a record that took note of the same increase, and stranded the same.
SameBooks(a, b) == a.noted = b.noted /\ a.stranded = b.stranded

\* The pending increase a group drained.
Drained(g) == [r \in BlRecords |-> IF r \in g.dirty THEN g.base[r].pending ELSE 0]

\* A drain empties the pending increase and changes nothing else of a record.
LEMMA DrainedRecord ==
    ASSUME BlShapes, NEW xs, DrainDirty(xs), NEW r \in BlRecords
    PROVE  /\ blBase'[r] \in BaseStates /\ MarkOf(blBase'[r]) = MarkOf(blBase[r])
           /\ SameBooks(blBase'[r], blBase[r]) /\ blBase'[r].owed = blBase[r].owed
           /\ blBase'[r].last = blBase[r].last /\ blBase'[r].seen = blBase[r].seen
<1> DEFINE b == blBase[r]
           z == [b EXCEPT !.pending = 0]
<1>1. b \in BaseStates
  BY DEF BlShapes
<1>2. blBase'[r] = IF r \in blDirty THEN z ELSE b
  BY DEF DrainDirty
<1> HIDE DEF b
<1>3. /\ z \in BaseStates /\ z.start = b.start /\ z.last = b.last /\ z.value = b.value
      /\ z.seen = b.seen /\ z.owed = b.owed /\ z.noted = b.noted /\ z.stranded = b.stranded
  BY <1>1 DEF BaseStates
<1> HIDE DEF z
<1> QED
  BY <1>1, <1>2, <1>3 DEF MarkOf, SameBooks, b

\* A failed commit adds the drained increase to what a record owes and changes nothing else.
LEMMA RolledBackRecord ==
    ASSUME BlShapes, BlCommitFails, NEW r \in BlRecords
    PROVE  /\ blBase'[r] \in BaseStates /\ MarkOf(blBase'[r]) = MarkOf(blBase[r])
           /\ SameBooks(blBase'[r], blBase[r])
           /\ blBase'[r].owed = blBase[r].owed + Drained(blGroup)[r]
           /\ blBase'[r].last = blBase[r].last /\ blBase'[r].seen = blBase[r].seen
<1> DEFINE b == blBase[r]
           n == b.owed + blGroup.base[r].pending
           z == [b EXCEPT !.owed = n]
<1>1. b \in BaseStates /\ blGroup.base[r] \in BaseStates
  BY DEF BlShapes, BlGroups
<1>2. blBase'[r] = IF r \in blGroup.dirty THEN z ELSE b
  BY DEF BlCommitFails, Rollback
<1>3. Drained(blGroup)[r] = IF r \in blGroup.dirty THEN blGroup.base[r].pending ELSE 0
  BY DEF Drained
<1>4. n \in Nat /\ b.owed \in Nat /\ blGroup.base[r].pending \in Nat
  BY <1>1 DEF BaseStates
<1>5. n = b.owed + blGroup.base[r].pending
  OBVIOUS
<1> HIDE DEF b, n
<1>6. /\ z \in BaseStates /\ z.start = b.start /\ z.last = b.last /\ z.value = b.value
      /\ z.seen = b.seen /\ z.owed = n /\ z.noted = b.noted /\ z.stranded = b.stranded
  BY <1>1, <1>4 DEF BaseStates
<1> HIDE DEF z
<1> QED
  BY <1>1, <1>2, <1>3, <1>4, <1>5, <1>6 DEF MarkOf, SameBooks, b

\* A commit makes the drained records durable, with nothing pending or owed.
LEMMA CommittedRecord ==
    ASSUME BlShapes, BlCommitOK, NEW r \in BlRecords
    PROVE  /\ blRows'[r] \in BaseStates
           /\ r \notin blGroup.dirty => blRows'[r] = blRows[r]
           /\ r \in blGroup.dirty =>
                /\ MarkOf(blRows'[r]) = MarkOf(blGroup.base[r])
                /\ SameBooks(blRows'[r], blGroup.base[r]) /\ blRows'[r].owed = 0
                /\ blRows'[r].last = blGroup.base[r].last /\ blRows'[r].seen = blGroup.base[r].seen
<1> DEFINE b == blGroup.base[r]
           y == [b EXCEPT !.pending = 0]
           z == [y EXCEPT !.owed = 0]
<1>1. b \in BaseStates /\ blRows[r] \in BaseStates
  BY DEF BlShapes, BlGroups
<1>2. blRows'[r] = IF r \in blGroup.dirty THEN z ELSE blRows[r]
  BY DEF BlCommitOK
<1> HIDE DEF b
<1>3. /\ y \in BaseStates /\ y.start = b.start /\ y.last = b.last /\ y.value = b.value
      /\ y.seen = b.seen /\ y.noted = b.noted /\ y.stranded = b.stranded
  BY <1>1 DEF BaseStates
<1> HIDE DEF y
<1>4. /\ z \in BaseStates /\ z.start = y.start /\ z.last = y.last /\ z.value = y.value
      /\ z.seen = y.seen /\ z.noted = y.noted /\ z.stranded = y.stranded /\ z.owed = 0
  BY <1>3 DEF BaseStates
<1> HIDE DEF z
<1> QED
  BY <1>1, <1>2, <1>3, <1>4 DEF MarkOf, SameBooks, b

-------------------------------------------------------------------------------
(* Types.                                                                  *)

\* The sum of the increases of a set of exports is a number.
LEMMA SumTotal ==
    ASSUME NEW A, IsFiniteSet(A), NEW f, \A x \in A : f[x] \in Nat
    PROVE  Sum(f, A) = Total(f, A) /\ Sum(f, A) \in Nat
<1>1. Sum(f, A) = Total(f, A)
  BY SumIsTotal DEF Sum
<1> QED
  BY <1>1, TotalType

\* An absent record is a record.
LEMMA NoBaselineType == NoBaseline \in BaseStates
BY DEF NoBaseline, BaseStates

\* Without a group nothing is drained.
LEMMA NoDrainType ==
    /\ NoDrain \in BlGroups
    /\ NoDrain.xs = {} /\ NoDrain.dirty = {} /\ NoDrain.orphan = 0
    /\ \A r \in BlRecords : NoDrain.base[r] = NoBaseline
BY NoBaselineType DEF NoDrain, BlGroups

\* There are finitely many exports and records.
LEMMA BlFinite ==
    /\ IsFiniteSet(BlExports) /\ IsFiniteSet(BlRecords)
    /\ \A xs \in SUBSET BlExports : IsFiniteSet(xs)
<1>1. IsFiniteSet(BlExports) /\ IsFiniteSet(BlProducers)
  BY BlAssumption
<1>2. IsFiniteSet(BlRecords)
  BY <1>1, FS_AddElement DEF BlRecords
<1> QED
  BY <1>1, <1>2, FS_Subset

\* The types hold at first.
LEMMA BlShapesInit == BlInit => BlShapes
<1> SUFFICES ASSUME BlInit PROVE BlShapes
  OBVIOUS
<1>1. blGroup = NoDrain
  BY DEF BlInit
<1>2. blGroup \in BlGroups
  BY <1>1, NoDrainType
<1>3. blSource \in [BlProducers -> CounterMarks] /\ blPoint \in [BlExports -> CounterMarks]
  BY DEF BlInit, CounterMarks
<1> QED
  BY <1>2, <1>3, NoBaselineType DEF BlInit, BlShapes

\* Every action keeps the types.
LEMMA BlShapesKept ==
    ASSUME BlShapes, [BlNext]_blVars
    PROVE  BlShapes'
<1> USE DEF blSourceVars, blTrackerVars, blStoreVars, blCounts, blHistory
<1>1. CASE UNCHANGED blVars
  BY <1>1 DEF BlShapes, blVars
<1>2. ASSUME NEW p \in BlProducers, Produce(p) PROVE BlShapes'
  <2>1. PICK dt \in {1, GapThreshold + 1}, restart \in BOOLEAN :
          blSource' = [blSource EXCEPT ![p] =
              [start |-> IF restart THEN @.ts ELSE @.start, ts |-> @.ts + dt,
               value |-> IF restart THEN 1 ELSE @.value + 1, grown |-> @.grown + 1]]
    BY <1>2 DEF Produce
  <2> DEFINE s == blSource[p]
             n == [start |-> IF restart THEN s.ts ELSE s.start, ts |-> s.ts + dt,
                   value |-> IF restart THEN 1 ELSE s.value + 1, grown |-> s.grown + 1]
  <2>2. s \in CounterMarks /\ dt \in Nat
    BY BlAssumption DEF BlShapes
  <2>3. blSource' = [blSource EXCEPT ![p] = n]
    BY <2>1
  <2> HIDE DEF s
  <2>4. n \in CounterMarks
    BY <2>2 DEF CounterMarks
  <2> HIDE DEF n
  <2>5. blSource' \in [BlProducers -> CounterMarks]
    BY <2>3, <2>4 DEF BlShapes
  <2> QED
    BY <1>2, <2>5 DEF Produce, BlShapes
<1>3. ASSUME NEW x \in BlExports, Send(x) PROVE BlShapes'
  <2>1. blSource[BlProducer[x]] \in CounterMarks
    BY BlAssumption DEF BlShapes
  <2>2. blPoint' \in [BlExports -> CounterMarks]
    BY <1>3, <2>1 DEF Send, BlShapes
  <2> QED
    BY <1>3, <2>2 DEF Send, BlShapes
<1>4. ASSUME NEW x \in BlExports, ObserveCumulative(x) PROVE BlShapes'
  <2>1. /\ blExport' = [blExport EXCEPT ![x] = "reduced"]
        /\ UNCHANGED <<blSourceVars, blGroup, blStoreVars, blCounts, blHistory>>
    BY <1>4 DEF ObserveCumulative
  <2>2. /\ blBase' \in [BlRecords -> BaseStates] /\ blDelta' \in [BlExports -> Nat]
        /\ blKnown' \subseteq BlRecords /\ blDirty' \subseteq BlRecords
    <3>1. CASE Quiet(x)
      BY <3>1 DEF Quiet, BlShapes
    <3>2. ASSUME NEW r \in BlRecords, NEW nb \in BaseStates, NEW d \in Nat, Observes(x, r, nb, d)
          PROVE  /\ blBase' \in [BlRecords -> BaseStates] /\ blDelta' \in [BlExports -> Nat]
                 /\ blKnown' \subseteq BlRecords /\ blDirty' \subseteq BlRecords
      BY <3>2 DEF Observes, BlShapes
    <3> QED
      BY <1>4, <3>1, <3>2, ObserveStep
  <2> QED
    BY <2>1, <2>2 DEF BlShapes
<1>5. ASSUME NEW xs \in SUBSET BlExports, DrainDirty(xs) PROVE BlShapes'
  <2>1. /\ blGroup' = [xs |-> xs, dirty |-> blDirty, base |-> blBase, orphan |-> blOrphan] /\ blDirty' = {}
        /\ DOMAIN blBase' = BlRecords /\ blBase' = [r \in BlRecords |-> blBase'[r]]
        /\ blOverlap' \in BOOLEAN
    BY <1>5 DEF DrainDirty
  <2>2. \A r \in BlRecords : blBase'[r] \in BaseStates
    BY <1>5, DrainedRecord
  <2>3. blBase' \in [BlRecords -> BaseStates]
    BY <2>1, <2>2
  <2>4. blGroup' \in BlGroups
    BY <2>1 DEF BlShapes, BlGroups
  <2> QED
    BY <1>5, <2>1, <2>3, <2>4 DEF DrainDirty, BlShapes
<1>6. CASE BlCommitOK
  <2>1. blRows' = [r \in BlRecords |-> blRows'[r]]
    BY <1>6 DEF BlCommitOK
  <2>2. blRows' \in [BlRecords -> BaseStates]
    BY <1>6, <2>1, CommittedRecord
  <2>3. Sum(blDelta, blGroup.xs) \in Nat
    BY BlFinite, SumTotal DEF BlShapes, BlGroups
  <2>4. blDurable' \in Nat
    <3>1. blDurable' = blDurable + Sum(blDelta, blGroup.xs)
      BY <1>6 DEF BlCommitOK
    <3>2. blDurable \in Nat
      BY DEF BlShapes
    <3> QED
      BY <2>3, <3>1, <3>2
  <2>7. blLost' \in Nat
    <3>1. blLost' = blLost + blGroup.orphan /\ blLost \in Nat /\ blGroup.orphan \in Nat
      BY <1>6 DEF BlCommitOK, BlShapes, BlGroups
    <3> QED
      BY <3>1
  <2>5. blExport' \in [BlExports -> {"new", "made", "reduced", "acked", "refused"}]
    BY <1>6 DEF BlCommitOK, BlShapes
  <2>6. blStored' \subseteq BlRecords
    BY <1>6 DEF BlCommitOK, BlShapes, BlGroups
  <2> QED
    BY <1>6, <2>2, <2>4, <2>5, <2>6, <2>7, NoDrainType DEF BlCommitOK, BlShapes
<1>7. CASE BlCommitFails
  <2>1. blBase' = [r \in BlRecords |-> blBase'[r]]
    BY <1>7 DEF BlCommitFails, Rollback
  <2>2. blBase' \in [BlRecords -> BaseStates]
    BY <1>7, <2>1, RolledBackRecord
  <2>3. blExport' \in [BlExports -> {"new", "made", "reduced", "acked", "refused"}]
    BY <1>7 DEF BlCommitFails, BlShapes
  <2>4. blFails' \in Nat /\ blDirty' \subseteq BlRecords
    BY <1>7 DEF BlCommitFails, BlShapes, BlGroups
  <2> QED
    BY <1>7, <2>2, <2>3, <2>4, NoDrainType DEF BlCommitFails, BlShapes
<1>8. ASSUME NEW x \in BlExports, BlRetry(x) PROVE BlShapes'
  BY <1>8 DEF BlRetry, BlShapes
<1>11. ASSUME NEW x \in BlExports, BlRefuse(x) PROVE BlShapes'
  <2>1. blOrphan' \in Nat
    BY <1>11 DEF BlRefuse, BlShapes
  <2> QED
    BY <1>11, <2>1 DEF BlRefuse, BlShapes
<1>9. CASE BlRestart
  <2>1. blExport' \in [BlExports -> {"new", "made", "reduced", "acked", "refused"}]
    BY <1>9 DEF BlRestart, BlShapes
  <2>2. blBase' \in [BlRecords -> BaseStates] /\ blKnown' \subseteq BlRecords /\ blDirty' \subseteq BlRecords
        /\ blCrashes' \in Nat
    BY <1>9 DEF BlRestart, Seeded, BlShapes
  <2> QED
    BY <1>9, <2>1, <2>2, NoDrainType DEF BlRestart, BlShapes
<1>10. ASSUME NEW c \in 1 .. BlMaxTime, PurgeBaselines(c) PROVE BlShapes'
  BY <1>10 DEF PurgeBaselines, BlShapes
<1> QED
  BY <1>1, <1>2, <1>3, <1>4, <1>5, <1>6, <1>7, <1>8, <1>9, <1>10, <1>11 DEF BlNext

-------------------------------------------------------------------------------
(* The group under way, and what the tracker knows.                        *)

\* The exports of a group wait for it, and a group has one; a row owes nothing.
GroupSound ==
    /\ \A x \in blGroup.xs : blExport[x] = "reduced"
    /\ blGroup # NoDrain => blGroup.xs # {}
    /\ \A r \in BlRecords : blRows[r].owed = 0

\* There is no group at first.
LEMMA GroupSoundInit == BlInit => GroupSound
BY NoDrainType DEF BlInit, GroupSound, NoBaseline

\* A waiting export leaves that state with its group only, and a commit settles its rows.
LEMMA GroupSoundKept ==
    ASSUME BlShapes, GroupSound, [BlNext]_blVars
    PROVE  GroupSound'
<1> USE DEF blSourceVars, blTrackerVars, blStoreVars, blCounts, blHistory
<1>1. CASE UNCHANGED blVars
  BY <1>1 DEF GroupSound, blVars
<1>2. ASSUME NEW p \in BlProducers, Produce(p) PROVE GroupSound'
  BY <1>2 DEF Produce, GroupSound
<1>3. ASSUME NEW x \in BlExports, Send(x) \/ ObserveCumulative(x) \/ BlRetry(x) PROVE GroupSound'
  <2>1. /\ blExport[x] # "reduced" /\ UNCHANGED <<blGroup, blRows>>
        /\ \E e : blExport' = [blExport EXCEPT ![x] = e]
    BY <1>3 DEF Send, ObserveCumulative, BlRetry
  <2>2. \A y \in blGroup.xs : y \in BlExports /\ y # x
    BY <2>1 DEF GroupSound, BlShapes, BlGroups
  <2> QED
    BY <2>1, <2>2 DEF GroupSound, BlShapes
<1>4. ASSUME NEW x \in BlExports, BlRefuse(x) PROVE GroupSound'
  <2>1. /\ x \notin blGroup.xs /\ UNCHANGED <<blGroup, blRows>>
        /\ blExport' = [blExport EXCEPT ![x] = "refused"]
    BY <1>4 DEF BlRefuse
  <2>2. \A y \in blGroup.xs : y \in BlExports /\ y # x
    BY <2>1 DEF BlShapes, BlGroups
  <2> QED
    BY <2>1, <2>2 DEF GroupSound, BlShapes
<1>5. ASSUME NEW xs \in SUBSET BlExports, DrainDirty(xs) PROVE GroupSound'
  <2>1. /\ blGroup'.xs = xs /\ xs # {} /\ \A x \in xs : blExport[x] = "reduced"
        /\ UNCHANGED <<blExport, blRows>>
    BY <1>5 DEF DrainDirty
  <2> QED
    BY <2>1 DEF GroupSound
<1>6. CASE BlCommitOK
  <2>1. \A r \in BlRecords : blRows'[r].owed = 0
    BY <1>6, CommittedRecord DEF GroupSound
  <2>2. blGroup' = NoDrain
    BY <1>6 DEF BlCommitOK
  <2> QED
    BY <2>1, <2>2, NoDrainType DEF GroupSound
<1>7. CASE BlCommitFails \/ BlRestart
  <2>1. blGroup' = NoDrain /\ UNCHANGED blRows
    BY <1>7 DEF BlCommitFails, BlRestart
  <2> QED
    BY <2>1, NoDrainType DEF GroupSound
<1>10. ASSUME NEW c \in 1 .. BlMaxTime, PurgeBaselines(c) PROVE GroupSound'
  BY <1>10 DEF PurgeBaselines, GroupSound
<1> QED
  BY <1>1, <1>2, <1>3, <1>4, <1>5, <1>6, <1>7, <1>10 DEF BlNext

\* A record that is known, stored or drained holds a point, and so does an export that left.
KnownSound ==
    /\ blDirty \subseteq blKnown /\ blGroup.dirty \subseteq blKnown
    /\ \A p \in BlProducers : blSource[p].ts > 0
    /\ \A x \in BlExports : blExport[x] # "new" => blPoint[x].ts > 0
    /\ \A r \in blKnown : blBase[r].last > 0
    /\ \A r \in blStored : blRows[r].last > 0
    /\ \A r \in blGroup.dirty : blGroup.base[r].last > 0

\* Nothing is known at first.
LEMMA KnownSoundInit == BlInit => KnownSound
BY NoDrainType DEF BlInit, KnownSound

\* A record becomes known with a point, and a restart knows the stored ones.
LEMMA KnownSoundKept ==
    ASSUME BlShapes, GroupSound, KnownSound, [BlNext]_blVars
    PROVE  KnownSound'
<1> USE DEF blSourceVars, blTrackerVars, blStoreVars, blCounts, blHistory
<1>1. CASE UNCHANGED blVars
  BY <1>1 DEF KnownSound, blVars
<1>2. ASSUME NEW p \in BlProducers, Produce(p) PROVE KnownSound'
  <2>1. PICK dt \in {1, GapThreshold + 1}, restart \in BOOLEAN :
          blSource' = [blSource EXCEPT ![p] =
              [start |-> IF restart THEN @.ts ELSE @.start, ts |-> @.ts + dt,
               value |-> IF restart THEN 1 ELSE @.value + 1, grown |-> @.grown + 1]]
    BY <1>2 DEF Produce
  <2>2. /\ blSource'[p].ts = blSource[p].ts + dt
        /\ \A q \in BlProducers : q # p => blSource'[q] = blSource[q]
    BY <2>1 DEF BlShapes
  <2>3. blSource[p].ts \in Nat /\ dt \in Nat
    BY BlAssumption DEF BlShapes, CounterMarks
  <2>4. \A q \in BlProducers : blSource'[q].ts > 0
    BY <2>2, <2>3 DEF KnownSound
  <2> QED
    BY <1>2, <2>4 DEF Produce, KnownSound
<1>3. ASSUME NEW x \in BlExports, Send(x) PROVE KnownSound'
  <2>1. BlProducer[x] \in BlProducers
    BY BlAssumption
  <2>2. \A y \in BlExports : blExport'[y] # "new" => blPoint'[y].ts > 0
    BY <1>3, <2>1 DEF Send, KnownSound, BlShapes
  <2> QED
    BY <1>3, <2>2 DEF Send, KnownSound
<1>4. ASSUME NEW x \in BlExports, ObserveCumulative(x) PROVE KnownSound'
  <2>1. /\ blExport[x] = "made" /\ blExport' = [blExport EXCEPT ![x] = "reduced"]
        /\ UNCHANGED <<blSourceVars, blGroup, blStoreVars, blCounts, blHistory>>
    BY <1>4 DEF ObserveCumulative
  <2>2. \A y \in BlExports : blExport'[y] # "new" => blPoint'[y].ts > 0
    BY <2>1 DEF KnownSound, BlShapes
  <2>3. CASE Quiet(x)
    BY <2>1, <2>2, <2>3 DEF Quiet, KnownSound
  <2>4. ASSUME NEW r \in BlRecords, NEW nb \in BaseStates, NEW d \in Nat, Observes(x, r, nb, d)
        PROVE  KnownSound'
    <3>1. /\ blBase' = [blBase EXCEPT ![r] = nb]
          /\ blDirty' = blDirty \cup {r} /\ blKnown' = blKnown \cup {r}
      BY <2>4 DEF Observes
    <3>2. blPoint[x].ts > 0 /\ blPoint[x].ts \in Nat /\ blBase[r].last \in Nat
      BY <2>1 DEF KnownSound, BlShapes, CounterMarks, BaseStates
    <3>3. nb.last = MarkOf(nb).ts /\ blBase[r].last = MarkOf(blBase[r]).ts
      BY DEF MarkOf
    <3>4. nb.last > 0
      BY <2>4, <3>2, <3>3 DEF Observes, Opens, Repeats, Advances, KnownSound
    <3>5. \A q \in blKnown' : blBase'[q].last > 0
      BY <3>1, <3>4 DEF KnownSound, BlShapes
    <3>6. blDirty' \subseteq blKnown' /\ blGroup'.dirty \subseteq blKnown'
      BY <2>1, <3>1 DEF KnownSound
    <3> QED
      BY <2>1, <2>2, <3>5, <3>6 DEF KnownSound
  <2> QED
    BY <1>4, <2>3, <2>4, ObserveStep
<1>5. ASSUME NEW xs \in SUBSET BlExports, DrainDirty(xs) PROVE KnownSound'
  <2>1. /\ blGroup'.dirty = blDirty /\ blGroup'.base = blBase /\ blDirty' = {} /\ UNCHANGED blKnown
    BY <1>5 DEF DrainDirty
  <2>2. \A r \in blKnown' : blBase'[r].last > 0
    BY <1>5, <2>1, DrainedRecord DEF KnownSound, BlShapes
  <2> QED
    BY <1>5, <2>1, <2>2 DEF DrainDirty, KnownSound
<1>6. CASE BlCommitOK
  <2>1. \A r \in blStored' : blRows'[r].last > 0
    <3> SUFFICES ASSUME NEW r \in blStored' PROVE blRows'[r].last > 0
      OBVIOUS
    <3>1. r \in BlRecords /\ (r \in blGroup.dirty \/ r \in blStored)
      BY <1>6 DEF BlCommitOK, BlShapes, BlGroups
    <3> QED
      BY <1>6, <3>1, CommittedRecord DEF KnownSound
  <2>2. \A x \in BlExports : blExport'[x] # "new" => blPoint'[x].ts > 0
    <3>1. \A x \in blGroup.xs : blExport'[x] = "acked"
      BY <1>6 DEF BlCommitOK, BlShapes, BlGroups
    <3> QED
      BY <1>6, <3>1 DEF BlCommitOK, BlShapes, KnownSound, GroupSound
  <2> QED
    BY <1>6, <2>1, <2>2, NoDrainType DEF BlCommitOK, KnownSound
<1>7. CASE BlCommitFails
  <2>1. blGroup' = NoDrain /\ blDirty' = blDirty \cup blGroup.dirty
        /\ UNCHANGED <<blKnown, blSource, blPoint, blStored, blRows>>
    BY <1>7 DEF BlCommitFails
  <2>2. \A r \in blKnown' : blBase'[r].last > 0
    BY <1>7, <2>1, RolledBackRecord DEF KnownSound, BlShapes
  <2>3. \A x \in BlExports : blExport'[x] # "new" => blPoint'[x].ts > 0
    BY <1>7 DEF BlCommitFails, BlShapes, KnownSound, GroupSound
  <2> QED
    BY <2>1, <2>2, <2>3, NoDrainType DEF KnownSound
<1>8. ASSUME NEW x \in BlExports, BlRetry(x) \/ BlRefuse(x) PROVE KnownSound'
  BY <1>8 DEF BlRetry, BlRefuse, KnownSound, BlShapes
<1>9. CASE BlRestart
  <2>1. blGroup' = NoDrain /\ blDirty' = {} /\ blKnown' = blStored /\ blBase' = blRows
        /\ UNCHANGED <<blSource, blPoint, blStored, blRows>>
    BY <1>9 DEF BlRestart, Seeded
  <2>2. \A x \in BlExports : blExport'[x] # "new" => blPoint'[x].ts > 0
    BY <1>9 DEF BlRestart, BlShapes, KnownSound
  <2> QED
    BY <2>1, <2>2, NoDrainType DEF KnownSound
<1>10. ASSUME NEW c \in 1 .. BlMaxTime, PurgeBaselines(c) PROVE KnownSound'
  BY <1>10 DEF PurgeBaselines, KnownSound
<1> QED
  BY <1>1, <1>2, <1>3, <1>4, <1>5, <1>6, <1>7, <1>8, <1>9, <1>10 DEF BlNext

\* A record that is not dirty took note of what its row did, and a drained one of what the
\* group holds, unless it moved again.
InStep ==
    /\ \A r \in BlRecords :
         r \notin blDirty /\ r \notin blGroup.dirty => SameBooks(blRows[r], blBase[r])
    /\ \A r \in blGroup.dirty : r \notin blDirty => SameBooks(blGroup.base[r], blBase[r])

\* The rows and the tracker agree at first.
LEMMA InStepInit == BlInit => InStep
BY NoDrainType DEF BlInit, InStep, SameBooks

\* A record that takes note becomes dirty; a commit brings its row up to what was drained.
LEMMA InStepKept ==
    ASSUME BlShapes, InStep, [BlNext]_blVars
    PROVE  InStep'
<1> USE DEF blSourceVars, blTrackerVars, blStoreVars, blCounts, blHistory
<1>1. CASE UNCHANGED blVars
  BY <1>1 DEF InStep, blVars, SameBooks
<1>2. ASSUME NEW p \in BlProducers, Produce(p) PROVE InStep'
  BY <1>2 DEF Produce, InStep, SameBooks
<1>3. ASSUME NEW x \in BlExports, Send(x) \/ BlRefuse(x) \/ BlRetry(x) PROVE InStep'
  BY <1>3 DEF Send, BlRefuse, BlRetry, InStep, SameBooks
<1>4. ASSUME NEW x \in BlExports, ObserveCumulative(x) PROVE InStep'
  <2>1. UNCHANGED <<blGroup, blRows>>
    BY <1>4 DEF ObserveCumulative
  <2>2. CASE Quiet(x)
    BY <2>1, <2>2 DEF Quiet, InStep, SameBooks
  <2>3. ASSUME NEW r \in BlRecords, NEW nb \in BaseStates, NEW d \in Nat, Observes(x, r, nb, d)
        PROVE  InStep'
    <3>1. blBase' = [blBase EXCEPT ![r] = nb] /\ blDirty' = blDirty \cup {r}
      BY <2>3 DEF Observes
    <3>2. \A q \in BlRecords : q \notin blDirty' => q \notin blDirty /\ blBase'[q] = blBase[q]
      BY <3>1 DEF BlShapes
    <3>3. blGroup.dirty \subseteq BlRecords
      BY DEF BlShapes, BlGroups
    <3> QED
      BY <2>1, <3>2, <3>3 DEF InStep, SameBooks
  <2> QED
    BY <1>4, <2>2, <2>3, ObserveStep
<1>5. ASSUME NEW xs \in SUBSET BlExports, DrainDirty(xs) PROVE InStep'
  <2>1. /\ blGroup = NoDrain /\ blGroup'.dirty = blDirty /\ blGroup'.base = blBase
        /\ blDirty' = {} /\ UNCHANGED blRows
    BY <1>5 DEF DrainDirty
  <2>2. \A r \in BlRecords : SameBooks(blBase'[r], blBase[r])
    BY <1>5, DrainedRecord
  <2>3. blDirty \subseteq BlRecords
    BY DEF BlShapes
  <2> QED
    BY <2>1, <2>2, <2>3, NoDrainType DEF InStep, SameBooks
<1>6. CASE BlCommitOK
  <2>1. blGroup' = NoDrain /\ UNCHANGED <<blBase, blDirty>>
    BY <1>6 DEF BlCommitOK
  <2>2. ASSUME NEW r \in BlRecords, r \notin blDirty PROVE SameBooks(blRows'[r], blBase[r])
    <3>1. CASE r \in blGroup.dirty
      BY <1>6, <2>2, <3>1, CommittedRecord DEF InStep, SameBooks
    <3>2. CASE r \notin blGroup.dirty
      BY <1>6, <2>2, <3>2, CommittedRecord DEF InStep, SameBooks
    <3> QED
      BY <3>1, <3>2
  <2> QED
    BY <2>1, <2>2, NoDrainType DEF InStep, SameBooks
<1>7. CASE BlCommitFails
  <2>1. blGroup' = NoDrain /\ blDirty' = blDirty \cup blGroup.dirty /\ UNCHANGED blRows
    BY <1>7 DEF BlCommitFails
  <2>2. \A r \in BlRecords : SameBooks(blBase'[r], blBase[r])
    BY <1>7, RolledBackRecord
  <2> QED
    BY <2>1, <2>2, NoDrainType DEF InStep, SameBooks
<1>9. CASE BlRestart
  <2>1. blGroup' = NoDrain /\ blBase' = blRows /\ UNCHANGED blRows
    BY <1>9 DEF BlRestart, Seeded
  <2> QED
    BY <2>1, NoDrainType DEF InStep, SameBooks
<1>10. ASSUME NEW c \in 1 .. BlMaxTime, PurgeBaselines(c) PROVE InStep'
  BY <1>10 DEF PurgeBaselines, InStep, SameBooks
<1> QED
  BY <1>1, <1>2, <1>3, <1>4, <1>5, <1>6, <1>7, <1>9, <1>10 DEF BlNext

-------------------------------------------------------------------------------
(* Sums over the records and over the exports.                             *)

NotedBy(b) == [r \in BlRecords |-> b[r].noted]
OwedBy(b) == [r \in BlRecords |-> b[r].owed]
StrandedBy(b) == [r \in BlRecords |-> b[r].stranded]
AwayIn(b) == [r \in BlRecords |-> b[r].owed + b[r].stranded]

\* The sums are numbers, and what is away is owed or stranded.
LEMMA BooksType ==
    ASSUME NEW b \in [BlRecords -> BaseStates]
    PROVE  /\ \A r \in BlRecords : /\ b[r].noted \in Nat /\ b[r].owed \in Nat /\ b[r].stranded \in Nat
                                   /\ b[r].pending \in Nat
           /\ Total(NotedBy(b), BlRecords) \in Nat /\ Total(OwedBy(b), BlRecords) \in Nat
           /\ Total(StrandedBy(b), BlRecords) \in Nat /\ Total(AwayIn(b), BlRecords) \in Nat
           /\ Total(AwayIn(b), BlRecords) = Total(OwedBy(b), BlRecords) + Total(StrandedBy(b), BlRecords)
<1>1. \A r \in BlRecords : /\ b[r].noted \in Nat /\ b[r].owed \in Nat /\ b[r].stranded \in Nat
                           /\ b[r].pending \in Nat
  BY DEF BaseStates
<1>2. \A r \in BlRecords : /\ NotedBy(b)[r] = b[r].noted /\ OwedBy(b)[r] = b[r].owed
                           /\ StrandedBy(b)[r] = b[r].stranded
                           /\ AwayIn(b)[r] = b[r].owed + b[r].stranded
  BY DEF NotedBy, OwedBy, StrandedBy, AwayIn
<1>3. \A r \in BlRecords : /\ OwedBy(b)[r] \in Nat /\ StrandedBy(b)[r] \in Nat
                           /\ AwayIn(b)[r] = OwedBy(b)[r] + StrandedBy(b)[r]
  BY <1>1, <1>2
<1>4. \A r \in BlRecords : NotedBy(b)[r] \in Nat
  BY <1>1, <1>2
<1>5. Total(NotedBy(b), BlRecords) \in Nat
  BY <1>4, BlFinite, TotalType
<1>6. /\ Total(OwedBy(b), BlRecords) \in Nat /\ Total(StrandedBy(b), BlRecords) \in Nat
      /\ Total(AwayIn(b), BlRecords) \in Nat
      /\ Total(AwayIn(b), BlRecords) = Total(OwedBy(b), BlRecords) + Total(StrandedBy(b), BlRecords)
  BY <1>3, BlFinite, TotalPlus
<1> QED
  BY <1>1, <1>5, <1>6

\* Records that agree on what they noted and stranded have the same sums.
LEMMA BooksSame ==
    ASSUME NEW b \in [BlRecords -> BaseStates], NEW c \in [BlRecords -> BaseStates],
           \A r \in BlRecords : SameBooks(c[r], b[r])
    PROVE  /\ Total(NotedBy(c), BlRecords) = Total(NotedBy(b), BlRecords)
           /\ Total(StrandedBy(c), BlRecords) = Total(StrandedBy(b), BlRecords)
<1>1. \A r \in BlRecords : NotedBy(c)[r] = NotedBy(b)[r] /\ StrandedBy(c)[r] = StrandedBy(b)[r]
  BY DEF NotedBy, StrandedBy, SameBooks
<1> QED
  BY <1>1, TotalSame

\* What is owed in all grows by the sum of what each record owes more.
LEMMA OwedPlus ==
    ASSUME NEW b, NEW c, NEW n,
           \A r \in BlRecords : OwedBy(b)[r] \in Nat /\ n[r] \in Nat /\ OwedBy(c)[r] = OwedBy(b)[r] + n[r]
    PROVE  /\ Total(n, BlRecords) \in Nat
           /\ Total(OwedBy(c), BlRecords) = Total(OwedBy(b), BlRecords) + Total(n, BlRecords)
BY BlFinite, TotalPlus

\* Records that owe more by as much as was drained.
LEMMA BooksOwe ==
    ASSUME NEW b \in [BlRecords -> BaseStates], NEW c \in [BlRecords -> BaseStates],
           NEW n \in [BlRecords -> Nat],
           \A r \in BlRecords : SameBooks(c[r], b[r]) /\ c[r].owed = b[r].owed + n[r]
    PROVE  /\ Total(n, BlRecords) \in Nat
           /\ Total(AwayIn(c), BlRecords) = Total(AwayIn(b), BlRecords) + Total(n, BlRecords)
<1>1. \A r \in BlRecords : OwedBy(b)[r] \in Nat /\ n[r] \in Nat /\ OwedBy(c)[r] = OwedBy(b)[r] + n[r]
  BY DEF OwedBy, BaseStates
<1>2. /\ Total(n, BlRecords) \in Nat
      /\ Total(OwedBy(c), BlRecords) = Total(OwedBy(b), BlRecords) + Total(n, BlRecords)
  BY <1>1, OwedPlus
<1>3. Total(StrandedBy(c), BlRecords) = Total(StrandedBy(b), BlRecords)
  BY BooksSame
<1>4. /\ Total(AwayIn(b), BlRecords) = Total(OwedBy(b), BlRecords) + Total(StrandedBy(b), BlRecords)
      /\ Total(OwedBy(b), BlRecords) \in Nat /\ Total(StrandedBy(b), BlRecords) \in Nat
  BY BooksType
<1>5. Total(AwayIn(c), BlRecords) = Total(OwedBy(c), BlRecords) + Total(StrandedBy(c), BlRecords)
  BY BooksType
<1> QED
  BY <1>2, <1>3, <1>4, <1>5

\* Records that owe the same have the same increase away.
LEMMA BooksKeep ==
    ASSUME NEW b \in [BlRecords -> BaseStates], NEW c \in [BlRecords -> BaseStates],
           \A r \in BlRecords : SameBooks(c[r], b[r]) /\ c[r].owed = b[r].owed
    PROVE  Total(AwayIn(c), BlRecords) = Total(AwayIn(b), BlRecords)
<1>1. \A r \in BlRecords : AwayIn(c)[r] = AwayIn(b)[r]
  BY DEF AwayIn, SameBooks
<1> QED
  BY <1>1, TotalSame

\* One record changes.
LEMMA BooksMove ==
    ASSUME NEW b \in [BlRecords -> BaseStates], NEW r \in BlRecords, NEW nb \in BaseStates,
           NEW c, c = [b EXCEPT ![r] = nb]
    PROVE  /\ Total(NotedBy(c), BlRecords) = Total(NotedBy(b), BlRecords) - b[r].noted + nb.noted
           /\ Total(AwayIn(c), BlRecords)
                = Total(AwayIn(b), BlRecords) - (b[r].owed + b[r].stranded) + (nb.owed + nb.stranded)
<1>1. c \in [BlRecords -> BaseStates] /\ c[r] = nb /\ \A q \in BlRecords : q # r => c[q] = b[q]
  OBVIOUS
<1>2. \A q \in BlRecords : /\ NotedBy(b)[q] = b[q].noted /\ NotedBy(c)[q] = c[q].noted
                           /\ NotedBy(b)[q] \in Nat /\ NotedBy(c)[q] \in Nat
  BY <1>1 DEF NotedBy, BaseStates
<1>3. \A q \in BlRecords : /\ AwayIn(b)[q] = b[q].owed + b[q].stranded
                           /\ AwayIn(c)[q] = c[q].owed + c[q].stranded
                           /\ AwayIn(b)[q] \in Nat /\ AwayIn(c)[q] \in Nat
  BY <1>1 DEF AwayIn, BaseStates
<1>4. \A q \in BlRecords : q # r => NotedBy(b)[q] = NotedBy(c)[q] /\ AwayIn(b)[q] = AwayIn(c)[q]
  BY <1>1, <1>2, <1>3
<1>5. Total(NotedBy(c), BlRecords) = Total(NotedBy(b), BlRecords) - NotedBy(b)[r] + NotedBy(c)[r]
  <2> DEFINE f == NotedBy(b)
             g == NotedBy(c)
  <2>1. /\ \A q \in BlRecords : f[q] \in Nat /\ g[q] \in Nat
        /\ \A q \in BlRecords : q # r => f[q] = g[q]
    BY <1>2, <1>4
  <2> HIDE DEF f, g
  <2>2. Total(g, BlRecords) = Total(f, BlRecords) - f[r] + g[r]
    BY <2>1, BlFinite, TotalChange
  <2> QED
    BY <2>2 DEF f, g
<1>6. Total(AwayIn(c), BlRecords) = Total(AwayIn(b), BlRecords) - AwayIn(b)[r] + AwayIn(c)[r]
  <2> DEFINE f == AwayIn(b)
             g == AwayIn(c)
  <2>1. /\ \A q \in BlRecords : f[q] \in Nat /\ g[q] \in Nat
        /\ \A q \in BlRecords : q # r => f[q] = g[q]
    BY <1>3, <1>4
  <2> HIDE DEF f, g
  <2>2. Total(g, BlRecords) = Total(f, BlRecords) - f[r] + g[r]
    BY <2>1, BlFinite, TotalChange
  <2> QED
    BY <2>2 DEF f, g
<1> QED
  BY <1>1, <1>2, <1>3, <1>5, <1>6

\* The sum of g over S and x is that of f over S and d more.
Joined(f, g, S, x, d) == Total(g, S \cup {x}) = Total(f, S) + d /\ Total(f, S) \in Nat

\* An export that joins the waiting ones adds the increase it took.
LEMMA DeltaJoins ==
    ASSUME NEW f \in [BlExports -> Nat], NEW S \in SUBSET BlExports, NEW x \in BlExports, x \notin S,
           NEW d \in Nat
    PROVE  Joined(f, [f EXCEPT ![x] = d], S, x, d)
<1> DEFINE g == [f EXCEPT ![x] = d]
<1>1. IsFiniteSet(S)
  BY BlFinite
<1>2. g[x] = d /\ (\A y \in S : g[y] = f[y]) /\ (\A y \in S \cup {x} : g[y] \in Nat)
  OBVIOUS
<1> HIDE DEF g
<1>3. Total(g, S) = Total(f, S)
  BY <1>2, TotalSame
<1>4. Total(g, S) \in Nat /\ Total(g, S \cup {x}) = g[x] + Total(g, S)
  BY <1>1, <1>2, TotalAdd
<1>5. Total(g, S \cup {x}) = Total(f, S) + d /\ Total(f, S) \in Nat
  BY <1>2, <1>3, <1>4
<1> QED
  BY <1>5 DEF Joined, g

\* The exports of a group and the other waiting ones.
LEMMA DeltaSplits ==
    ASSUME NEW f \in [BlExports -> Nat], NEW S \in SUBSET BlExports, NEW T \in SUBSET S
    PROVE  /\ Total(f, T) \in Nat /\ Total(f, S \ T) \in Nat
           /\ Total(f, S) = Total(f, T) + Total(f, S \ T)
<1> DEFINE U == S \ T
<1>1. IsFiniteSet(T) /\ IsFiniteSet(U) /\ T \cap U = {} /\ S = T \cup U
  BY BlFinite
<1>2. \A x \in T \cup U : f[x] \in Nat
  OBVIOUS
<1> HIDE DEF U
<1>3. /\ Total(f, T) \in Nat /\ Total(f, U) \in Nat /\ Total(f, T \cup U) = Total(f, T) + Total(f, U)
  BY <1>1, <1>2, TotalUnion
<1> QED
  BY <1>1, <1>3 DEF U

-------------------------------------------------------------------------------
(* The ledger.                                                             *)

\* No failed commit had drained the increase of an export outside its group.
Alone == ~ blOverlap \/ blFails = 0

\* The exports that wait for the writer, and the rows the group under way would leave.
Waiting(ex) == {x \in BlExports : ex[x] = "reduced"}
RowsAfter(g, rows) == [r \in BlRecords |-> IF r \in g.dirty THEN g.base[r] ELSE rows[r]]

\* The increase that is accounted for: durable, or of an export refused at admission; of it, what
\* the rows noted, and what the rows note once the group under way committed.
Accounted == blDurable + Forgone
Booked == blDurable + blLost
Booking == Booked + blGroup.orphan

\* A group drained what its exports, and those refused at admission before it, took.
GroupCarries ==
    ~ blOverlap /\ blGroup # NoDrain =>
        Total(Drained(blGroup), BlRecords) = Total(blDelta, blGroup.xs) + blGroup.orphan

\* What is durable is covered by the rows, and with the group under way by the rows it leaves.
RowsCovered ==
    Alone => Booked + Total(StrandedBy(blRows), BlRecords) <= Total(NotedBy(blRows), BlRecords)
GroupCovered ==
    Alone /\ blGroup # NoDrain =>
        Booking + Total(blDelta, blGroup.xs) + Total(StrandedBy(RowsAfter(blGroup, blRows)), BlRecords)
          <= Total(NotedBy(RowsAfter(blGroup, blRows)), BlRecords)

\* What the tracker noted covers what is held, and is no more as long as nothing crashed.
TrackerCovers ==
    Alone =>
        /\ Accounted + Total(blDelta, Waiting(blExport)) + Total(AwayIn(blBase), BlRecords)
             <= Total(NotedBy(blBase), BlRecords)
        /\ blCrashes = 0 =>
             Accounted + Total(blDelta, Waiting(blExport)) + Total(AwayIn(blBase), BlRecords)
               = Total(NotedBy(blBase), BlRecords)

\* The rows a group leaves are records.
LEMMA RowsAfterType ==
    ASSUME BlShapes
    PROVE  RowsAfter(blGroup, blRows) \in [BlRecords -> BaseStates]
BY DEF RowsAfter, BlShapes, BlGroups

\* What is accounted for are numbers, and the group's share is part of it.
LEMMA AccountType ==
    ASSUME BlShapes
    PROVE  /\ Accounted \in Nat /\ Booked \in Nat /\ Booking \in Nat /\ blGroup.orphan \in Nat
           /\ blOrphan \in Nat /\ Accounted = Booking + blOrphan
BY DEF BlShapes, BlGroups, Accounted, Forgone, Booked, Booking

\* The increases of a group are not touched by the point of another export.
LEMMA GroupDeltaKept ==
    ASSUME BlShapes, GroupSound, NEW x \in BlExports, ObserveCumulative(x)
    PROVE  Total(blDelta', blGroup.xs) = Total(blDelta, blGroup.xs)
<1>1. blExport[x] = "made"
  BY DEF ObserveCumulative
<1>2. \A y \in blGroup.xs : y \in BlExports /\ y # x
  BY <1>1 DEF GroupSound, BlShapes, BlGroups
<1>3. \A y \in BlExports : y # x => blDelta'[y] = blDelta[y]
  BY ObserveStep DEF Quiet, Observes, BlShapes
<1>4. \A y \in blGroup.xs : blDelta'[y] = blDelta[y]
  BY <1>2, <1>3
<1> QED
  BY <1>4, TotalSame

\* The drain that did not overlap took what the exports of its group had taken.
LEMMA GroupCarriesKept ==
    ASSUME BlShapes, GroupSound, GroupCarries, [BlNext]_blVars
    PROVE  GroupCarries'
<1> USE DEF blSourceVars, blTrackerVars, blStoreVars, blCounts, blHistory
<1>1. CASE UNCHANGED <<blGroup, blDelta, blOverlap>>
  BY <1>1 DEF GroupCarries
<1>2. CASE blGroup' = NoDrain
  BY <1>2 DEF GroupCarries
<1>3. ASSUME NEW x \in BlExports, ObserveCumulative(x) PROVE GroupCarries'
  <2>1. UNCHANGED <<blGroup, blOverlap>>
    BY <1>3 DEF ObserveCumulative
  <2>2. Total(blDelta', blGroup.xs) = Total(blDelta, blGroup.xs)
    BY <1>3, GroupDeltaKept
  <2> QED
    BY <2>1, <2>2 DEF GroupCarries
<1>4. ASSUME NEW xs \in SUBSET BlExports, DrainDirty(xs) PROVE GroupCarries'
  <2> DEFINE n == [r \in BlRecords |-> IF r \in blDirty THEN blBase[r].pending ELSE 0]
  <2>1. /\ blGroup' = [xs |-> xs, dirty |-> blDirty, base |-> blBase, orphan |-> blOrphan] /\ UNCHANGED blDelta
        /\ blOverlap' = (blOverlap \/ Overlaps(xs))
    BY <1>4 DEF DrainDirty
  <2>2. Drained(blGroup') = n
    BY <2>1 DEF Drained
  <2>3. \A r \in BlRecords : n[r] \in Nat
    BY DEF BlShapes, BaseStates
  <2>4. Overlaps(xs) = (Sum(n, BlRecords) # Sum(blDelta, xs) + blOrphan)
    BY DEF Overlaps
  <2> HIDE DEF n
  <2>5. Sum(n, BlRecords) = Total(n, BlRecords)
    BY <2>3, BlFinite, SumTotal
  <2>6. Sum(blDelta, xs) = Total(blDelta, xs)
    <3>1. IsFiniteSet(xs) /\ \A x \in xs : blDelta[x] \in Nat
      BY BlFinite DEF BlShapes
    <3> QED
      BY <3>1, SumTotal
  <2>7. blGroup'.xs = xs /\ blGroup'.orphan = blOrphan
    BY <2>1
  <2>8. ~ blOverlap' => Sum(n, BlRecords) = Sum(blDelta, xs) + blOrphan
    BY <2>1, <2>4
  <2>9. ~ blOverlap' => Total(n, BlRecords) = Total(blDelta, xs) + blOrphan
    BY <2>5, <2>6, <2>8
  <2> QED
    BY <2>1, <2>2, <2>7, <2>9 DEF GroupCarries
<1>5. ASSUME NEW p \in BlProducers, Produce(p) PROVE UNCHANGED <<blGroup, blDelta, blOverlap>>
  BY <1>5 DEF Produce
<1>6. ASSUME NEW x \in BlExports, Send(x) \/ BlRefuse(x) \/ BlRetry(x)
      PROVE  UNCHANGED <<blGroup, blDelta, blOverlap>>
  BY <1>6 DEF Send, BlRefuse, BlRetry
<1>7. ASSUME NEW c \in 1 .. BlMaxTime, PurgeBaselines(c) PROVE UNCHANGED <<blGroup, blDelta, blOverlap>>
  BY <1>7 DEF PurgeBaselines
<1>8. ASSUME BlCommitOK \/ BlCommitFails \/ BlRestart PROVE blGroup' = NoDrain
  BY <1>8 DEF BlCommitOK, BlCommitFails, BlRestart
<1>9. ASSUME UNCHANGED blVars PROVE UNCHANGED <<blGroup, blDelta, blOverlap>>
  BY <1>9 DEF blVars
<1> QED
  BY <1>1, <1>2, <1>3, <1>4, <1>5, <1>6, <1>7, <1>8, <1>9 DEF BlNext

\* A drain that overlapped and a failed commit are not forgotten.
LEMMA AloneBack ==
    ASSUME BlShapes, [BlNext]_blVars
    PROVE  Alone' => Alone
<1> USE DEF blSourceVars, blTrackerVars, blStoreVars, blCounts, blHistory
<1>1. (blOverlap => blOverlap') /\ (blFails' = 0 => blFails = 0)
  <2>1. CASE UNCHANGED <<blOverlap, blFails>>
    BY <2>1
  <2>2. ASSUME NEW xs \in SUBSET BlExports, DrainDirty(xs) PROVE (blOverlap => blOverlap') /\ (blFails' = 0 => blFails = 0)
    BY <2>2 DEF DrainDirty
  <2>3. CASE BlCommitFails
    BY <2>3 DEF BlCommitFails, BlShapes
  <2>4. ASSUME NEW p \in BlProducers, Produce(p) PROVE UNCHANGED <<blOverlap, blFails>>
    BY <2>4 DEF Produce
  <2>5. ASSUME NEW x \in BlExports, Send(x) \/ ObserveCumulative(x) \/ BlRefuse(x) \/ BlRetry(x)
        PROVE  UNCHANGED <<blOverlap, blFails>>
    BY <2>5 DEF Send, ObserveCumulative, BlRefuse, BlRetry
  <2>6. ASSUME NEW c \in 1 .. BlMaxTime, PurgeBaselines(c) PROVE UNCHANGED <<blOverlap, blFails>>
    BY <2>6 DEF PurgeBaselines
  <2>7. ASSUME BlCommitOK \/ BlRestart PROVE UNCHANGED <<blOverlap, blFails>>
    BY <2>7 DEF BlCommitOK, BlRestart
  <2>8. ASSUME UNCHANGED blVars PROVE UNCHANGED <<blOverlap, blFails>>
    BY <2>8 DEF blVars
  <2> QED
    BY <2>1, <2>2, <2>3, <2>4, <2>5, <2>6, <2>7, <2>8 DEF BlNext
<1> QED
  BY <1>1 DEF Alone

\* A commit makes its group's increase durable with the records that noted it.
LEMMA RowsCoveredKept ==
    ASSUME BlShapes, BlShapes', GroupCovered, RowsCovered, [BlNext]_blVars
    PROVE  RowsCovered'
<1> USE DEF blSourceVars, blTrackerVars, blStoreVars, blCounts, blHistory
<1> SUFFICES ASSUME Alone'
             PROVE  Booked' + Total(StrandedBy(blRows'), BlRecords) <= Total(NotedBy(blRows'), BlRecords)
  BY DEF RowsCovered
<1>1. Alone
  BY AloneBack
<1>2. CASE UNCHANGED <<blDurable, blLost, blRows>>
  BY <1>1, <1>2 DEF RowsCovered, Booked
<1>3. CASE BlCommitOK
  <2> DEFINE n == RowsAfter(blGroup, blRows)
  <2>1. n \in [BlRecords -> BaseStates] /\ blRows' \in [BlRecords -> BaseStates]
    BY RowsAfterType DEF BlShapes
  <2>2. \A r \in BlRecords : SameBooks(blRows'[r], n[r])
    <3> SUFFICES ASSUME NEW r \in BlRecords PROVE SameBooks(blRows'[r], n[r])
      OBVIOUS
    <3>1. n[r] = IF r \in blGroup.dirty THEN blGroup.base[r] ELSE blRows[r]
      BY DEF RowsAfter
    <3> QED
      BY <1>3, <3>1, CommittedRecord DEF SameBooks
  <2> HIDE DEF n
  <2>3. /\ Total(NotedBy(blRows'), BlRecords) = Total(NotedBy(n), BlRecords)
        /\ Total(StrandedBy(blRows'), BlRecords) = Total(StrandedBy(n), BlRecords)
    BY <2>1, <2>2, BooksSame
  <2>4. /\ blGroup # NoDrain /\ blDurable' = blDurable + Sum(blDelta, blGroup.xs)
        /\ blLost' = blLost + blGroup.orphan
    BY <1>3 DEF BlCommitOK
  <2>5. Sum(blDelta, blGroup.xs) = Total(blDelta, blGroup.xs)
    BY BlFinite, SumTotal DEF BlShapes, BlGroups
  <2>6. Booking + Total(blDelta, blGroup.xs) + Total(StrandedBy(n), BlRecords)
          <= Total(NotedBy(n), BlRecords)
    BY <1>1, <2>4 DEF GroupCovered, n
  <2>7. Booked' = Booking + Total(blDelta, blGroup.xs)
    <3>1. Total(blDelta, blGroup.xs) \in Nat
      BY <2>5, BlFinite, SumTotal DEF BlShapes, BlGroups
    <3> QED
      BY <2>4, <2>5, <3>1 DEF Booked, Booking, BlShapes, BlGroups
  <2> QED
    BY <2>3, <2>6, <2>7
<1>4. ASSUME NEW p \in BlProducers, Produce(p) PROVE UNCHANGED <<blDurable, blLost, blRows>>
  BY <1>4 DEF Produce
<1>5. ASSUME NEW x \in BlExports, Send(x) \/ ObserveCumulative(x) \/ BlRefuse(x) \/ BlRetry(x)
      PROVE  UNCHANGED <<blDurable, blLost, blRows>>
  BY <1>5 DEF Send, ObserveCumulative, BlRefuse, BlRetry
<1>6. ASSUME NEW xs \in SUBSET BlExports, DrainDirty(xs) PROVE UNCHANGED <<blDurable, blLost, blRows>>
  BY <1>6 DEF DrainDirty
<1>7. ASSUME NEW c \in 1 .. BlMaxTime, PurgeBaselines(c) PROVE UNCHANGED <<blDurable, blLost, blRows>>
  BY <1>7 DEF PurgeBaselines
<1>8. ASSUME BlCommitFails \/ BlRestart PROVE UNCHANGED <<blDurable, blLost, blRows>>
  BY <1>8 DEF BlCommitFails, BlRestart
<1>9. ASSUME UNCHANGED blVars PROVE UNCHANGED <<blDurable, blLost, blRows>>
  BY <1>9 DEF blVars
<1> QED
  BY <1>2, <1>3, <1>4, <1>5, <1>6, <1>7, <1>8, <1>9 DEF BlNext

\* A group drains records that noted at least what is durable and what its exports took.
LEMMA GroupCoveredKept ==
    ASSUME BlShapes, GroupSound, InStep, TrackerCovers, GroupCovered, [BlNext]_blVars
    PROVE  GroupCovered'
<1> USE DEF blSourceVars, blTrackerVars, blStoreVars, blCounts, blHistory
<1>1. Alone' => Alone
  BY AloneBack
<1>2. CASE UNCHANGED <<blDurable, blLost, blDelta, blRows, blGroup>>
  BY <1>1, <1>2 DEF GroupCovered, Booking, Booked
<1>3. CASE blGroup' = NoDrain
  BY <1>3 DEF GroupCovered
<1>4. ASSUME NEW x \in BlExports, ObserveCumulative(x) PROVE GroupCovered'
  <2>1. UNCHANGED <<blDurable, blLost, blRows, blGroup>>
    BY <1>4 DEF ObserveCumulative
  <2>2. Total(blDelta', blGroup.xs) = Total(blDelta, blGroup.xs)
    BY <1>4, GroupDeltaKept
  <2> QED
    BY <1>1, <2>1, <2>2 DEF GroupCovered, Booking, Booked
<1>5. ASSUME NEW xs \in SUBSET BlExports, DrainDirty(xs) PROVE GroupCovered'
  <2> SUFFICES ASSUME Alone'
               PROVE  Booking' + Total(blDelta', blGroup'.xs)
                          + Total(StrandedBy(RowsAfter(blGroup', blRows')), BlRecords)
                        <= Total(NotedBy(RowsAfter(blGroup', blRows')), BlRecords)
    BY DEF GroupCovered
  <2> DEFINE n == RowsAfter(blGroup', blRows')
             W == Waiting(blExport)
  <2>1. /\ blGroup = NoDrain /\ blGroup' = [xs |-> xs, dirty |-> blDirty, base |-> blBase, orphan |-> blOrphan]
        /\ UNCHANGED <<blDurable, blLost, blDelta, blRows>> /\ \A x \in xs : blExport[x] = "reduced"
    BY <1>5 DEF DrainDirty
  <2>2. n = [r \in BlRecords |-> IF r \in blDirty THEN blBase[r] ELSE blRows[r]]
    BY <2>1 DEF RowsAfter
  <2>3. n \in [BlRecords -> BaseStates] /\ blBase \in [BlRecords -> BaseStates]
    BY <2>2 DEF BlShapes
  <2>4. \A r \in BlRecords : SameBooks(n[r], blBase[r])
    BY <2>1, <2>2, NoDrainType DEF InStep, SameBooks
  <2> HIDE DEF n
  <2>5. /\ Total(NotedBy(n), BlRecords) = Total(NotedBy(blBase), BlRecords)
        /\ Total(StrandedBy(n), BlRecords) = Total(StrandedBy(blBase), BlRecords)
    BY <2>3, <2>4, BooksSame
  <2>6. W \in SUBSET BlExports /\ xs \in SUBSET W /\ blDelta \in [BlExports -> Nat]
    BY <2>1 DEF Waiting, BlShapes
  <2> HIDE DEF W
  <2>7. /\ Total(blDelta, xs) \in Nat /\ Total(blDelta, W \ xs) \in Nat
        /\ Total(blDelta, W) = Total(blDelta, xs) + Total(blDelta, W \ xs)
    BY <2>6, DeltaSplits
  <2>8. /\ Total(OwedBy(blBase), BlRecords) \in Nat /\ Total(StrandedBy(blBase), BlRecords) \in Nat
        /\ Total(NotedBy(blBase), BlRecords) \in Nat
        /\ Total(AwayIn(blBase), BlRecords)
             = Total(OwedBy(blBase), BlRecords) + Total(StrandedBy(blBase), BlRecords)
    BY <2>3, BooksType
  <2>9. Accounted + Total(blDelta, W) + Total(AwayIn(blBase), BlRecords)
          <= Total(NotedBy(blBase), BlRecords)
    BY <1>1 DEF TrackerCovers, W
  <2>10. Booked \in Nat /\ blOrphan \in Nat /\ Accounted = Booked + blOrphan
    BY <2>1, AccountType, NoDrainType DEF Booking
  <2>11. Booked + blOrphan + Total(blDelta, xs) + Total(StrandedBy(blBase), BlRecords)
          <= Total(NotedBy(blBase), BlRecords)
    BY <2>7, <2>8, <2>9, <2>10
  <2>12. Booking' = Booked + blOrphan /\ blDelta' = blDelta /\ blGroup'.xs = xs
    BY <2>1 DEF Booking, Booked
  <2> QED
    BY <2>5, <2>11, <2>12 DEF n
<1>6. ASSUME NEW p \in BlProducers, Produce(p) PROVE UNCHANGED <<blDurable, blLost, blDelta, blRows, blGroup>>
  BY <1>6 DEF Produce
<1>7. ASSUME NEW x \in BlExports, Send(x) \/ BlRefuse(x) \/ BlRetry(x)
      PROVE  UNCHANGED <<blDurable, blLost, blDelta, blRows, blGroup>>
  BY <1>7 DEF Send, BlRefuse, BlRetry
<1>8. ASSUME NEW c \in 1 .. BlMaxTime, PurgeBaselines(c)
      PROVE  UNCHANGED <<blDurable, blLost, blDelta, blRows, blGroup>>
  BY <1>8 DEF PurgeBaselines
<1>9. ASSUME BlCommitOK \/ BlCommitFails \/ BlRestart PROVE blGroup' = NoDrain
  BY <1>9 DEF BlCommitOK, BlCommitFails, BlRestart
<1>10. ASSUME UNCHANGED blVars PROVE UNCHANGED <<blDurable, blLost, blDelta, blRows, blGroup>>
  BY <1>10 DEF blVars
<1> QED
  BY <1>2, <1>3, <1>4, <1>5, <1>6, <1>7, <1>8, <1>9, <1>10 DEF BlNext

\* What a sum of the tracker's books becomes.
Covers(dur, del, ex, base, died) ==
    /\ dur + Total(del, Waiting(ex)) + Total(AwayIn(base), BlRecords)
         <= Total(NotedBy(base), BlRecords)
    /\ died = 0 =>
         dur + Total(del, Waiting(ex)) + Total(AwayIn(base), BlRecords)
           = Total(NotedBy(base), BlRecords)

\* A point notes as much as its export takes, less what was owed and is not stranded.
LEMMA ObserveCovers ==
    ASSUME BlShapes, BlShapes', NEW x \in BlExports, ObserveCumulative(x),
           Covers(Accounted, blDelta, blExport, blBase, blCrashes)
    PROVE  Covers(Accounted', blDelta', blExport', blBase', blCrashes')
<1> USE DEF blSourceVars, blTrackerVars, blStoreVars, blCounts, blHistory
<1> DEFINE W == Waiting(blExport)
<1>1. /\ blExport[x] = "made" /\ blExport' = [blExport EXCEPT ![x] = "reduced"]
      /\ UNCHANGED <<Accounted, blCrashes>>
  BY DEF ObserveCumulative, Accounted, Forgone
<1>2. W \in SUBSET BlExports /\ x \notin W /\ Waiting(blExport') = W \cup {x}
  BY <1>1 DEF Waiting, BlShapes
<1>3. blDelta \in [BlExports -> Nat] /\ blBase \in [BlRecords -> BaseStates] /\ Accounted \in Nat
  BY AccountType DEF BlShapes
<1>4. /\ Total(NotedBy(blBase), BlRecords) \in Nat /\ Total(AwayIn(blBase), BlRecords) \in Nat
      /\ \A r \in BlRecords : /\ blBase[r].noted \in Nat /\ blBase[r].owed \in Nat
                              /\ blBase[r].stranded \in Nat
  BY <1>3, BooksType
<1>5. /\ Accounted + Total(blDelta, W) + Total(AwayIn(blBase), BlRecords)
           <= Total(NotedBy(blBase), BlRecords)
      /\ blCrashes = 0 => Accounted + Total(blDelta, W) + Total(AwayIn(blBase), BlRecords)
                            = Total(NotedBy(blBase), BlRecords)
  BY DEF Covers
<1> HIDE DEF W
<1>6. CASE Quiet(x)
  <2>1. blDelta' = [blDelta EXCEPT ![x] = 0] /\ blBase' = blBase
    BY <1>6 DEF Quiet
  <2>2. Total(blDelta', W \cup {x}) = Total(blDelta, W) + 0 /\ Total(blDelta, W) \in Nat
    <3>1. Joined(blDelta, [blDelta EXCEPT ![x] = 0], W, x, 0)
      BY <1>2, <1>3, DeltaJoins
    <3> QED
      BY <2>1, <3>1 DEF Joined
  <2>3. Total(blDelta', Waiting(blExport')) = Total(blDelta, W)
    BY <1>2, <2>2
  <2> QED
    BY <1>1, <1>5, <2>1, <2>3 DEF Covers
<1>7. ASSUME NEW r \in BlRecords, NEW nb \in BaseStates, NEW d \in Nat, Observes(x, r, nb, d)
      PROVE  Covers(Accounted', blDelta', blExport', blBase', blCrashes')
  <2>1. /\ blDelta' = [blDelta EXCEPT ![x] = d] /\ blBase' = [blBase EXCEPT ![r] = nb]
        /\ nb.noted + blBase[r].owed + blBase[r].stranded
             = blBase[r].noted + nb.owed + nb.stranded + d
    BY <1>7 DEF Observes
  <2>2. Total(blDelta', W \cup {x}) = Total(blDelta, W) + d /\ Total(blDelta, W) \in Nat
    <3>1. Joined(blDelta, [blDelta EXCEPT ![x] = d], W, x, d)
      BY <1>2, <1>3, DeltaJoins
    <3> QED
      BY <2>1, <3>1 DEF Joined
  <2>3. /\ Total(NotedBy(blBase'), BlRecords) = Total(NotedBy(blBase), BlRecords) - blBase[r].noted + nb.noted
        /\ Total(AwayIn(blBase'), BlRecords)
             = Total(AwayIn(blBase), BlRecords) - (blBase[r].owed + blBase[r].stranded)
                 + (nb.owed + nb.stranded)
    BY <1>3, <2>1, BooksMove
  <2>4. nb.noted \in Nat /\ nb.owed \in Nat /\ nb.stranded \in Nat
    BY DEF BaseStates
  <2>5. Total(blDelta', Waiting(blExport')) = Total(blDelta, W) + d
    BY <1>2, <2>2
  <2> DEFINE N == Total(NotedBy(blBase), BlRecords)
             NN == Total(NotedBy(blBase'), BlRecords)
             A == Total(AwayIn(blBase), BlRecords)
             AA == Total(AwayIn(blBase'), BlRecords)
             D == Total(blDelta, W)
             DD == Total(blDelta', Waiting(blExport'))
             b == blBase[r]
  <2>6. /\ N \in Nat /\ A \in Nat /\ D \in Nat /\ DD = D + d
        /\ NN = N - b.noted + nb.noted /\ AA = A - (b.owed + b.stranded) + (nb.owed + nb.stranded)
        /\ b.noted \in Nat /\ b.owed \in Nat /\ b.stranded \in Nat
        /\ nb.noted + b.owed + b.stranded = b.noted + nb.owed + nb.stranded + d
        /\ Accounted + D + A <= N /\ (blCrashes = 0 => Accounted + D + A = N)
    BY <1>4, <1>5, <2>1, <2>2, <2>3, <2>5
  <2>7. Covers(Accounted', blDelta', blExport', blBase', blCrashes')
          <=> /\ Accounted' + DD + AA <= NN
              /\ blCrashes' = 0 => Accounted' + DD + AA = NN
    BY DEF Covers
  <2> HIDE DEF N, NN, A, AA, D, DD, b
  <2>8. Accounted + DD + AA <= NN /\ (blCrashes = 0 => Accounted + DD + AA = NN)
    BY <1>3, <2>4, <2>6
  <2> QED
    BY <1>1, <2>7, <2>8
<1> QED
  BY <1>6, <1>7, ObserveStep

\* Increase moves between the durable rows, the waiting exports and what is owed, and a
\* restart falls back on rows that cover what is durable.
LEMMA TrackerCoversKept ==
    ASSUME BlShapes, BlShapes', GroupSound, RowsCovered, GroupCarries, TrackerCovers, [BlNext]_blVars
    PROVE  TrackerCovers'
<1> USE DEF blSourceVars, blTrackerVars, blStoreVars, blCounts, blHistory
<1> SUFFICES ASSUME Alone'
             PROVE  Covers(Accounted', blDelta', blExport', blBase', blCrashes')
  BY DEF TrackerCovers, Covers
<1>1. Alone
  BY AloneBack
<1>2. Covers(Accounted, blDelta, blExport, blBase, blCrashes)
  BY <1>1 DEF TrackerCovers, Covers
<1> DEFINE W == Waiting(blExport)
           G == blGroup.xs
<1>3. /\ blDelta \in [BlExports -> Nat] /\ blBase \in [BlRecords -> BaseStates] /\ Accounted \in Nat
      /\ blBase' \in [BlRecords -> BaseStates] /\ blRows \in [BlRecords -> BaseStates]
  BY AccountType DEF BlShapes
<1>4. W \in SUBSET BlExports /\ G \in SUBSET W
  BY DEF Waiting, GroupSound, BlShapes, BlGroups
<1>5. /\ Total(blDelta, G) \in Nat /\ Total(blDelta, W \ G) \in Nat
      /\ Total(blDelta, W) = Total(blDelta, G) + Total(blDelta, W \ G)
  <2>1. blDelta \in [BlExports -> Nat]
    BY <1>3
  <2> HIDE DEF W, G
  <2> QED
    BY <1>4, <2>1, DeltaSplits
<1>6. /\ Total(NotedBy(blBase), BlRecords) \in Nat /\ Total(AwayIn(blBase), BlRecords) \in Nat
  BY <1>3, BooksType
<1>7. /\ Accounted + Total(blDelta, W) + Total(AwayIn(blBase), BlRecords)
           <= Total(NotedBy(blBase), BlRecords)
      /\ blCrashes = 0 => Accounted + Total(blDelta, W) + Total(AwayIn(blBase), BlRecords)
                            = Total(NotedBy(blBase), BlRecords)
  BY <1>2 DEF Covers
<1>8. ASSUME UNCHANGED <<Accounted, blDelta, blBase, blCrashes>>, Waiting(blExport') = W
      PROVE  Covers(Accounted', blDelta', blExport', blBase', blCrashes')
  BY <1>7, <1>8 DEF Covers
<1>9. ASSUME NEW x \in BlExports, Send(x) \/ BlRetry(x)
      PROVE  Covers(Accounted', blDelta', blExport', blBase', blCrashes')
  <2>1. /\ UNCHANGED <<Accounted, blDelta, blBase, blCrashes>>
        /\ blExport[x] # "reduced" /\ blExport' = [blExport EXCEPT ![x] = "made"]
    BY <1>9 DEF Send, BlRetry, Accounted, Forgone
  <2>2. Waiting(blExport') = W
    BY <2>1 DEF Waiting, BlShapes
  <2> QED
    BY <1>8, <2>1, <2>2
<1>10. ASSUME NEW xs \in SUBSET BlExports, DrainDirty(xs)
       PROVE  Covers(Accounted', blDelta', blExport', blBase', blCrashes')
  <2>1. UNCHANGED <<blDelta, blExport, blCrashes>>
    BY <1>10 DEF DrainDirty
  <2>4. Accounted' = Accounted
    <3>1. /\ blGroup.orphan = 0 /\ blGroup'.orphan = blOrphan /\ blOrphan' = 0
          /\ UNCHANGED <<blDurable, blLost>>
      BY <1>10, NoDrainType DEF DrainDirty
    <3> QED
      BY <3>1 DEF Accounted, Forgone, BlShapes
  <2>2. \A r \in BlRecords : SameBooks(blBase'[r], blBase[r]) /\ blBase'[r].owed = blBase[r].owed
    BY <1>10, DrainedRecord
  <2>3. /\ Total(NotedBy(blBase'), BlRecords) = Total(NotedBy(blBase), BlRecords)
        /\ Total(AwayIn(blBase'), BlRecords) = Total(AwayIn(blBase), BlRecords)
    BY <1>3, <2>2, BooksSame, BooksKeep
  <2> QED
    BY <1>7, <2>1, <2>3, <2>4 DEF Covers
<1>11. ASSUME BlCommitOK PROVE Covers(Accounted', blDelta', blExport', blBase', blCrashes')
  <2>1. UNCHANGED <<blDelta, blBase, blCrashes>>
    BY <1>11 DEF BlCommitOK
  <2>2. Waiting(blExport') = W \ G
    BY <1>11 DEF BlCommitOK, Waiting
  <2>3. Accounted' = Accounted + Total(blDelta, G)
    <3>1. /\ blDurable' = blDurable + Sum(blDelta, G) /\ blLost' = blLost + blGroup.orphan
          /\ blGroup'.orphan = 0 /\ UNCHANGED blOrphan
      BY <1>11, NoDrainType DEF BlCommitOK
    <3>2. Sum(blDelta, G) = Total(blDelta, G)
      BY BlFinite, SumTotal DEF BlShapes, BlGroups
    <3>3. blDurable \in Nat /\ blLost \in Nat /\ blOrphan \in Nat /\ blGroup.orphan \in Nat
      BY DEF BlShapes, BlGroups
    <3> HIDE DEF G
    <3> QED
      BY <1>5, <3>1, <3>2, <3>3 DEF Accounted, Forgone
  <2> DEFINE N == Total(NotedBy(blBase), BlRecords)
             A == Total(AwayIn(blBase), BlRecords)
             D == Total(blDelta, W)
             E == Total(blDelta, W \ G)
             F == Total(blDelta, G)
  <2>4. /\ N \in Nat /\ A \in Nat /\ E \in Nat /\ F \in Nat /\ D = F + E /\ Accounted' = Accounted + F
        /\ Accounted + D + A <= N /\ (blCrashes = 0 => Accounted + D + A = N)
    BY <1>5, <1>6, <1>7, <2>1, <2>3
  <2>5. Covers(Accounted', blDelta', blExport', blBase', blCrashes')
          <=> Accounted' + E + A <= N /\ (blCrashes = 0 => Accounted' + E + A = N)
    BY <2>1, <2>2 DEF Covers
  <2> HIDE DEF N, A, D, E, F
  <2> QED
    BY <1>3, <2>4, <2>5
<1>12. ASSUME BlCommitFails PROVE Covers(Accounted', blDelta', blExport', blBase', blCrashes')
  <2>1. /\ UNCHANGED <<blDelta, blCrashes, blOverlap>> /\ blFails' = blFails + 1
        /\ blGroup # NoDrain
    BY <1>12 DEF BlCommitFails
  <2>2. Waiting(blExport') = W \ G
    BY <1>12 DEF BlCommitFails, Waiting
  <2>3. ~ blOverlap
    BY <2>1 DEF Alone, BlShapes
  <2> DEFINE n == Drained(blGroup)
  <2>4. \A r \in BlRecords : SameBooks(blBase'[r], blBase[r]) /\ blBase'[r].owed = blBase[r].owed + n[r]
    BY <1>12, RolledBackRecord
  <2>5. n \in [BlRecords -> Nat]
    BY DEF Drained, BlShapes, BlGroups, BaseStates
  <2> DEFINE o == blGroup.orphan
  <2>6. Total(n, BlRecords) = Total(blDelta, G) + o
    BY <2>1, <2>3 DEF GroupCarries
  <2>10. Accounted = Accounted' + o /\ o \in Nat /\ Accounted' \in Nat
    <3>1. blGroup'.orphan = 0 /\ UNCHANGED <<blDurable, blOrphan, blLost>>
      BY <1>12, NoDrainType DEF BlCommitFails
    <3> QED
      BY <3>1 DEF Accounted, Forgone, BlShapes, BlGroups
  <2> HIDE DEF n, W, G, o
  <2>7. /\ Total(NotedBy(blBase'), BlRecords) = Total(NotedBy(blBase), BlRecords)
        /\ Total(AwayIn(blBase'), BlRecords) = Total(AwayIn(blBase), BlRecords) + Total(n, BlRecords)
    BY <1>3, <2>4, <2>5, BooksSame, BooksOwe
  <2> DEFINE N == Total(NotedBy(blBase), BlRecords)
             A == Total(AwayIn(blBase), BlRecords)
             D == Total(blDelta, W)
             E == Total(blDelta, W \ G)
             F == Total(blDelta, G)
  <2>8. /\ N \in Nat /\ A \in Nat /\ E \in Nat /\ F \in Nat /\ D = F + E
        /\ Accounted + D + A <= N /\ (blCrashes = 0 => Accounted + D + A = N)
    BY <1>5, <1>6, <1>7
  <2>9. Covers(Accounted', blDelta', blExport', blBase', blCrashes')
          <=> Accounted' + E + (A + (F + o)) <= N /\ (blCrashes = 0 => Accounted' + E + (A + (F + o)) = N)
    BY <2>1, <2>2, <2>6, <2>7 DEF Covers
  <2> HIDE DEF N, A, D, E, F
  <2>11. Accounted' + E + (A + (F + o)) = Accounted + D + A
    BY <2>8, <2>10
  <2> QED
    BY <2>8, <2>9, <2>11
<1>13. ASSUME BlRestart PROVE Covers(Accounted', blDelta', blExport', blBase', blCrashes')
  <2>1. /\ UNCHANGED blDelta /\ blCrashes' = blCrashes + 1 /\ blBase' = blRows
    BY <1>13 DEF BlRestart, Seeded
  <2>7. Accounted' = Booked /\ Booked \in Nat
    <3>1. blGroup'.orphan = 0 /\ blOrphan' = 0 /\ UNCHANGED <<blDurable, blLost>>
      BY <1>13, NoDrainType DEF BlRestart
    <3> QED
      BY <3>1 DEF Accounted, Forgone, Booked, BlShapes
  <2>2. Waiting(blExport') = {}
    BY <1>13 DEF BlRestart, Waiting
  <2>3. Total(blDelta', Waiting(blExport')) = 0
    BY <2>2, TotalEmpty
  <2>4. blCrashes' # 0
    BY <2>1 DEF BlShapes
  <2>5. Booked + Total(StrandedBy(blRows), BlRecords) <= Total(NotedBy(blRows), BlRecords)
    BY <1>1 DEF RowsCovered
  <2>6. Total(AwayIn(blRows), BlRecords) = Total(StrandedBy(blRows), BlRecords)
    <3>1. \A r \in BlRecords : AwayIn(blRows)[r] = StrandedBy(blRows)[r]
      BY DEF AwayIn, StrandedBy, GroupSound, BlShapes, BaseStates
    <3> QED
      BY <3>1, TotalSame
  <2> QED
    BY <1>3, <2>1, <2>3, <2>4, <2>5, <2>6, <2>7 DEF Covers
<1>14. ASSUME NEW p \in BlProducers, Produce(p)
       PROVE  UNCHANGED <<Accounted, blDelta, blBase, blCrashes, blExport>>
  BY <1>14 DEF Produce, Accounted, Forgone
<1>15. ASSUME NEW c \in 1 .. BlMaxTime, PurgeBaselines(c)
       PROVE  UNCHANGED <<Accounted, blDelta, blBase, blCrashes, blExport>>
  BY <1>15 DEF PurgeBaselines, Accounted, Forgone
<1>16. ASSUME UNCHANGED blVars PROVE UNCHANGED <<Accounted, blDelta, blBase, blCrashes, blExport>>
  BY <1>16 DEF blVars, Accounted, Forgone
<1>17. ASSUME UNCHANGED <<Accounted, blDelta, blBase, blCrashes, blExport>>
       PROVE  Covers(Accounted', blDelta', blExport', blBase', blCrashes')
  BY <1>2, <1>17
<1>18. ASSUME NEW x \in BlExports, ObserveCumulative(x)
       PROVE  Covers(Accounted', blDelta', blExport', blBase', blCrashes')
  BY <1>2, <1>18, ObserveCovers
<1>19. ASSUME NEW x \in BlExports, BlRefuse(x)
       PROVE  Covers(Accounted', blDelta', blExport', blBase', blCrashes')
  <2>1. /\ UNCHANGED <<blDelta, blBase, blCrashes>> /\ x \in W
        /\ blExport' = [blExport EXCEPT ![x] = "refused"]
    BY <1>19 DEF BlRefuse, Waiting
  <2>2. Waiting(blExport') = W \ {x}
    BY <2>1 DEF Waiting, BlShapes
  <2>3. Accounted' = Accounted + blDelta[x] /\ blDelta[x] \in Nat
    <3>1. blOrphan' = blOrphan + blDelta[x] /\ UNCHANGED <<blDurable, blGroup, blLost>>
      BY <1>19 DEF BlRefuse
    <3>2. /\ blDurable \in Nat /\ blLost \in Nat /\ blOrphan \in Nat /\ blGroup.orphan \in Nat
          /\ blDelta[x] \in Nat
      BY DEF BlShapes, BlGroups
    <3> QED
      BY <3>1, <3>2 DEF Accounted, Forgone
  <2> HIDE DEF W
  <2>4. Total(blDelta, W) = blDelta[x] + Total(blDelta, W \ {x}) /\ Total(blDelta, W \ {x}) \in Nat
    <3> DEFINE V == W \ {x}
    <3>1. IsFiniteSet(V) /\ x \notin V /\ W = V \cup {x} /\ \A y \in V \cup {x} : blDelta[y] \in Nat
      BY <1>3, <1>4, <2>1, BlFinite
    <3> HIDE DEF V
    <3>2. Total(blDelta, V) \in Nat /\ Total(blDelta, V \cup {x}) = blDelta[x] + Total(blDelta, V)
      BY <3>1, TotalAdd
    <3> QED
      BY <3>1, <3>2 DEF V
  <2> DEFINE N == Total(NotedBy(blBase), BlRecords)
             A == Total(AwayIn(blBase), BlRecords)
             D == Total(blDelta, W)
             E == Total(blDelta, W \ {x})
             d == blDelta[x]
  <2>5. /\ N \in Nat /\ A \in Nat /\ E \in Nat /\ d \in Nat /\ D = d + E /\ Accounted' = Accounted + d
        /\ Accounted + D + A <= N /\ (blCrashes = 0 => Accounted + D + A = N)
    BY <1>6, <1>7, <2>3, <2>4
  <2>6. Covers(Accounted', blDelta', blExport', blBase', blCrashes')
          <=> Accounted' + E + A <= N /\ (blCrashes = 0 => Accounted' + E + A = N)
    BY <2>1, <2>2 DEF Covers
  <2> HIDE DEF N, A, D, E, d
  <2> QED
    BY <1>3, <2>5, <2>6
<1> QED
  BY <1>9, <1>10, <1>11, <1>12, <1>13, <1>14, <1>15, <1>16, <1>17, <1>18, <1>19 DEF BlNext

-------------------------------------------------------------------------------
(* What a counter is credited with.                                        *)

\* Two marks of one counter: the later one grew from the earlier one, or from a reset after it.
InOrder(a, b) ==
    /\ a.ts = b.ts => a = b
    /\ a.ts < b.ts =>
         /\ a.grown <= b.grown
         /\ \/ a.start = b.start /\ b.value = a.value + (b.grown - a.grown)
            \/ a.start # b.start /\ b.value <= b.grown - a.grown

\* The marks of a producer: its counter, the points on their way, and what the tracker, the
\* rows and the group under way remember.
IsMark(p, m) ==
    /\ m.ts > 0
    /\ \/ m = blSource[p]
       \/ \E x \in BlExports : BlProducer[x] = p /\ m = blPoint[x]
       \/ m \in {MarkOf(blBase[p]), MarkOf(blRows[p]), MarkOf(blGroup.base[p])}

\* They are marks of one counter, and not newer than it.
MarksAgree ==
    \A p \in BlProducers : \A m \in CounterMarks : IsMark(p, m) =>
        /\ m.start < m.ts /\ m.ts <= blSource[p].ts
        /\ \A n \in CounterMarks : IsMark(p, n) => InOrder(m, n)

\* A record noted no more than its counter had grown.
Credited(b) == b.noted <= b.seen /\ (b.last = 0 => b.noted = 0)
CreditsBounded ==
    \A p \in BlProducers : Credited(blBase[p]) /\ Credited(blRows[p]) /\ Credited(blGroup.base[p])

\* A point of this time, or an older one, is late.
Expired(ts) == \E q \in BlProducers : blSource[q].ts - ts >= BlWindowSize + BlAllowedLateness

\* A record that was forgotten is older than any point that is not late.
ForgottenIsLate ==
    \A p \in BlProducers :
        /\ p \notin blKnown /\ blBase[p].last > 0 => Expired(blBase[p].last)
        /\ p \notin blStored /\ blRows[p].last > 0 => Expired(blRows[p].last)

\* The mark of a record.
LEMMA MarkType ==
    ASSUME NEW b \in BaseStates
    PROVE  MarkOf(b) \in CounterMarks /\ MarkOf(b).ts = b.last /\ MarkOf(b).grown = b.seen
           /\ MarkOf(b).start = b.start /\ MarkOf(b).value = b.value
BY DEF MarkOf, BaseStates, CounterMarks

\* At first a producer has one mark and no credit.
LEMMA CreditsInit == BlInit => MarksAgree /\ CreditsBounded /\ ForgottenIsLate
<1> SUFFICES ASSUME BlInit PROVE MarksAgree /\ CreditsBounded /\ ForgottenIsLate
  OBVIOUS
<1>1. /\ \A r \in BlRecords : blBase[r] = NoBaseline /\ blRows[r] = NoBaseline
                              /\ blGroup.base[r] = NoBaseline
      /\ BlProducers \subseteq BlRecords
  BY NoDrainType DEF BlInit, BlRecords
<1>2. MarkOf(NoBaseline).ts = 0 /\ Credited(NoBaseline) /\ NoBaseline.last = 0
  BY DEF MarkOf, NoBaseline, Credited
<1>3. /\ \A x \in BlExports : blPoint[x].ts = 0
      /\ \A p \in BlProducers : blSource[p] = [start |-> 0, ts |-> 1, value |-> 1, grown |-> 0]
  BY DEF BlInit
<1>4. ASSUME NEW p \in BlProducers, NEW m \in CounterMarks, IsMark(p, m) PROVE m = blSource[p]
  BY <1>1, <1>2, <1>3, <1>4 DEF IsMark, CounterMarks
<1>5. MarksAgree
  BY <1>3, <1>4 DEF MarksAgree, InOrder
<1> QED
  BY <1>1, <1>2, <1>5 DEF CreditsBounded, ForgottenIsLate

\* A step that adds no mark keeps them in agreement.
LEMMA NoNewMark ==
    ASSUME MarksAgree, UNCHANGED blSource,
           \A p \in BlProducers : \A m \in CounterMarks : IsMark(p, m)' => IsMark(p, m)
    PROVE  MarksAgree'
BY DEF MarksAgree

\* What the counter's next mark is to an earlier one.
LEMMA NextMark ==
    ASSUME NEW s \in CounterMarks, NEW m \in CounterMarks, NEW n \in CounterMarks,
           NEW restart \in BOOLEAN, NEW dt \in Nat, dt > 0,
           n = [start |-> IF restart THEN s.ts ELSE s.start, ts |-> s.ts + dt,
                value |-> IF restart THEN 1 ELSE s.value + 1, grown |-> s.grown + 1],
           m.start < m.ts, m.ts <= s.ts, s.start < s.ts, InOrder(m, s)
    PROVE  InOrder(m, n) /\ InOrder(n, m) /\ m.ts <= n.ts /\ n.start < n.ts
<1>1. /\ m.start \in Nat /\ m.ts \in Nat /\ m.value \in Nat /\ m.grown \in Nat
      /\ s.start \in Nat /\ s.ts \in Nat /\ s.value \in Nat /\ s.grown \in Nat
  BY DEF CounterMarks
<1>2. /\ n.start = IF restart THEN s.ts ELSE s.start
      /\ n.ts = s.ts + dt /\ n.value = (IF restart THEN 1 ELSE s.value + 1) /\ n.grown = s.grown + 1
  OBVIOUS
<1>3. m.ts < n.ts /\ n.start < n.ts
  BY <1>1, <1>2
<1>4. m.grown <= s.grown
  BY <1>1 DEF InOrder
<1>5. \/ m.start = n.start /\ n.value = m.value + (n.grown - m.grown)
      \/ m.start # n.start /\ n.value <= n.grown - m.grown
  <2>1. CASE restart
    BY <1>1, <1>2, <1>4, <2>1
  <2>2. CASE ~restart /\ m.ts = s.ts
    <3>1. m = s
      BY <2>2 DEF InOrder
    <3> QED
      BY <1>1, <1>2, <2>2, <3>1
  <2>3. CASE ~restart /\ m.ts < s.ts
    BY <1>1, <1>2, <2>3 DEF InOrder
  <2> QED
    BY <1>1, <2>1, <2>2, <2>3
<1>6. m.grown <= n.grown
  BY <1>1, <1>2, <1>4
<1>7. n.ts \in Nat
  BY <1>1, <1>2
<1>8. InOrder(m, n)
  BY <1>1, <1>3, <1>5, <1>6, <1>7 DEF InOrder
<1>9. InOrder(n, m)
  BY <1>1, <1>3, <1>7 DEF InOrder
<1> QED
  BY <1>1, <1>3, <1>7, <1>8, <1>9

\* A counter that grows keeps its marks in agreement.
LEMMA ProduceKeepsMarks ==
    ASSUME BlShapes, KnownSound, MarksAgree, NEW p \in BlProducers, Produce(p)
    PROVE  MarksAgree'
<1> USE DEF blSourceVars, blTrackerVars, blStoreVars, blCounts, blHistory
<1>1. PICK dt \in {1, GapThreshold + 1}, restart \in BOOLEAN :
        blSource' = [blSource EXCEPT ![p] =
            [start |-> IF restart THEN @.ts ELSE @.start, ts |-> @.ts + dt,
             value |-> IF restart THEN 1 ELSE @.value + 1, grown |-> @.grown + 1]]
  BY DEF Produce
<1> DEFINE s == blSource[p]
           n == [start |-> IF restart THEN s.ts ELSE s.start, ts |-> s.ts + dt,
                 value |-> IF restart THEN 1 ELSE s.value + 1, grown |-> s.grown + 1]
<1>2. UNCHANGED <<blPoint, blBase, blRows, blGroup>>
  BY DEF Produce
<1>3. s \in CounterMarks /\ dt \in Nat /\ dt > 0
  BY BlAssumption DEF BlShapes
<1>4. blSource'[p] = n /\ \A q \in BlProducers : q # p => blSource'[q] = blSource[q]
  BY <1>1 DEF BlShapes
<1>5. n = [start |-> IF restart THEN s.ts ELSE s.start, ts |-> s.ts + dt,
           value |-> IF restart THEN 1 ELSE s.value + 1, grown |-> s.grown + 1]
  OBVIOUS
<1>6. IsMark(p, s)
  BY DEF IsMark, KnownSound
<1> HIDE DEF s
<1>7. n \in CounterMarks
  BY <1>3 DEF CounterMarks
<1> HIDE DEF n
<1>8. ASSUME NEW q \in BlProducers, NEW m \in CounterMarks, IsMark(q, m)'
      PROVE  IsMark(q, m) \/ (q = p /\ m = n)
  BY <1>2, <1>4, <1>8 DEF IsMark
<1>9. s.start < s.ts /\ s.ts \in Nat /\ s.start \in Nat
  BY <1>3, <1>6 DEF MarksAgree, CounterMarks
<1>10. ASSUME NEW m \in CounterMarks, IsMark(p, m)
       PROVE  InOrder(m, n) /\ InOrder(n, m) /\ m.start < m.ts /\ m.ts <= n.ts /\ n.start < n.ts
  <2>1. m.start < m.ts /\ m.ts <= s.ts /\ InOrder(m, s)
    BY <1>3, <1>6, <1>10 DEF MarksAgree, s
  <2> QED
    BY <1>3, <1>5, <1>7, <1>9, <2>1, NextMark
<1>11. InOrder(n, n)
  <2>1. n.ts \in Nat
    BY <1>7 DEF CounterMarks
  <2> QED
    BY <2>1 DEF InOrder
<1>12. n.ts <= n.ts
  BY <1>7 DEF CounterMarks
<1> SUFFICES ASSUME NEW q \in BlProducers, NEW m \in CounterMarks, IsMark(q, m)'
             PROVE  /\ m.start < m.ts /\ m.ts <= blSource'[q].ts
                    /\ \A k \in CounterMarks : IsMark(q, k)' => InOrder(m, k)
  BY DEF MarksAgree
<1>13. CASE q # p
  <2>1. IsMark(q, m) /\ blSource'[q] = blSource[q]
    BY <1>4, <1>8, <1>13
  <2>2. \A k \in CounterMarks : IsMark(q, k)' => IsMark(q, k)
    BY <1>8, <1>13
  <2> QED
    BY <2>1, <2>2 DEF MarksAgree
<1>14. CASE q = p
  <2>1. IsMark(p, m) \/ m = n
    BY <1>8, <1>14
  <2>2. n.start < n.ts
    BY <1>3, <1>6, <1>10
  <2>3. m.start < m.ts /\ m.ts <= n.ts
    BY <1>10, <1>12, <2>1, <2>2
  <2>4. ASSUME NEW k \in CounterMarks, IsMark(p, k)' PROVE InOrder(m, k)
    <3>1. IsMark(p, k) \/ k = n
      BY <1>8, <2>4
    <3>2. IsMark(p, m) /\ IsMark(p, k) => InOrder(m, k)
      BY DEF MarksAgree
    <3> QED
      BY <1>10, <1>11, <2>1, <3>1, <3>2
  <2> QED
    BY <1>4, <1>14, <2>3, <2>4
<1> QED
  BY <1>13, <1>14

\* A record of a producer other than the degraded one is the record of that producer.
LEMMA RecordIsOwn ==
    ASSUME NEW x \in BlExports, NEW p \in BlProducers, p = RecordOf(BlProducer[x])
    PROVE  p = BlProducer[x]
BY BlAssumption DEF RecordOf

\* Only a counter that grows adds a mark.
LEMMA MarksAgreeKept ==
    ASSUME BlShapes, KnownSound, MarksAgree, [BlNext]_blVars
    PROVE  MarksAgree'
<1> USE DEF blSourceVars, blTrackerVars, blStoreVars, blCounts, blHistory
<1>0. BlProducers \subseteq BlRecords
  BY DEF BlRecords
<1>1. ASSUME UNCHANGED <<blSource, blPoint, blBase, blRows, blGroup>> PROVE MarksAgree'
  BY <1>1 DEF MarksAgree, IsMark
<1>2. ASSUME NEW p \in BlProducers, Produce(p) PROVE MarksAgree'
  BY <1>2, ProduceKeepsMarks
<1>3. ASSUME NEW x \in BlExports, Send(x) PROVE MarksAgree'
  <2>1. blPoint' = [blPoint EXCEPT ![x] = blSource[BlProducer[x]]]
        /\ UNCHANGED <<blSource, blBase, blRows, blGroup>>
    BY <1>3 DEF Send
  <2>2. /\ blPoint'[x] = blSource[BlProducer[x]]
        /\ \A y \in BlExports : y # x => blPoint'[y] = blPoint[y]
    BY <2>1 DEF BlShapes
  <2>3. ASSUME NEW p \in BlProducers, NEW m \in CounterMarks, IsMark(p, m)' PROVE IsMark(p, m)
    BY <2>1, <2>2, <2>3 DEF IsMark
  <2> QED
    BY <2>1, <2>3, NoNewMark
<1>4. ASSUME NEW x \in BlExports, ObserveCumulative(x) PROVE MarksAgree'
  <2>1. UNCHANGED <<blSource, blPoint, blRows, blGroup>>
    BY <1>4 DEF ObserveCumulative
  <2>2. CASE Quiet(x)
    BY <1>1, <2>1, <2>2 DEF Quiet
  <2>3. ASSUME NEW r \in BlRecords, NEW nb \in BaseStates, NEW d \in Nat, Observes(x, r, nb, d)
        PROVE  MarksAgree'
    <3>1. /\ blBase' = [blBase EXCEPT ![r] = nb] /\ r = RecordOf(BlProducer[x])
          /\ MarkOf(nb) = blPoint[x] \/ MarkOf(nb) = MarkOf(blBase[r])
      BY <2>3 DEF Observes, Opens, Repeats, Advances
    <3>2. \A p \in BlProducers : \/ p # r /\ blBase'[p] = blBase[p]
                                 \/ p = r /\ p = BlProducer[x] /\ blBase'[p] = nb
      BY <1>0, <3>1, RecordIsOwn DEF BlShapes
    <3>3. ASSUME NEW p \in BlProducers, NEW m \in CounterMarks, IsMark(p, m)' PROVE IsMark(p, m)
      <4>1. \/ MarkOf(blBase'[p]) = MarkOf(blBase[p])
            \/ BlProducer[x] = p /\ MarkOf(blBase'[p]) = blPoint[x]
        BY <3>1, <3>2
      <4> QED
        BY <2>1, <3>3, <4>1 DEF IsMark
    <3> QED
      BY <2>1, <3>3, NoNewMark
  <2> QED
    BY <1>4, <2>2, <2>3, ObserveStep
<1>5. ASSUME NEW xs \in SUBSET BlExports, DrainDirty(xs) PROVE MarksAgree'
  <2>1. UNCHANGED <<blSource, blPoint, blRows>> /\ blGroup'.base = blBase
    BY <1>5 DEF DrainDirty
  <2>2. \A p \in BlProducers : MarkOf(blBase'[p]) = MarkOf(blBase[p])
    BY <1>0, <1>5, DrainedRecord
  <2>3. ASSUME NEW p \in BlProducers, NEW m \in CounterMarks, IsMark(p, m)' PROVE IsMark(p, m)
    BY <2>1, <2>2, <2>3 DEF IsMark
  <2> QED
    BY <2>1, <2>3, NoNewMark
<1> DEFINE z == MarkOf(NoBaseline)
<1>6. z.ts = 0
  BY DEF MarkOf, NoBaseline
<1> HIDE DEF z
<1>7. ASSUME BlCommitOK PROVE MarksAgree'
  <2>1. UNCHANGED <<blSource, blPoint, blBase>> /\ blGroup' = NoDrain
    BY <1>7 DEF BlCommitOK
  <2>2. \A p \in BlProducers : MarkOf(blRows'[p]) \in {MarkOf(blRows[p]), MarkOf(blGroup.base[p])}
    BY <1>0, <1>7, CommittedRecord
  <2>3. \A p \in BlProducers : MarkOf(blGroup'.base[p]) = z
    BY <1>0, <2>1, NoDrainType DEF z
  <2>4. ASSUME NEW p \in BlProducers, NEW m \in CounterMarks, IsMark(p, m)' PROVE IsMark(p, m)
    BY <1>6, <2>1, <2>2, <2>3, <2>4 DEF IsMark
  <2> QED
    BY <2>1, <2>4, NoNewMark
<1>8. ASSUME BlCommitFails PROVE MarksAgree'
  <2>1. UNCHANGED <<blSource, blPoint, blRows>> /\ blGroup' = NoDrain
    BY <1>8 DEF BlCommitFails
  <2>2. \A p \in BlProducers : MarkOf(blBase'[p]) = MarkOf(blBase[p])
    BY <1>0, <1>8, RolledBackRecord
  <2>3. \A p \in BlProducers : MarkOf(blGroup'.base[p]) = z
    BY <1>0, <2>1, NoDrainType DEF z
  <2>4. ASSUME NEW p \in BlProducers, NEW m \in CounterMarks, IsMark(p, m)' PROVE IsMark(p, m)
    BY <1>6, <2>1, <2>2, <2>3, <2>4 DEF IsMark
  <2> QED
    BY <2>1, <2>4, NoNewMark
<1>9. ASSUME BlRestart PROVE MarksAgree'
  <2>1. UNCHANGED <<blSource, blPoint, blRows>> /\ blGroup' = NoDrain /\ blBase' = blRows
    BY <1>9 DEF BlRestart, Seeded
  <2>2. \A p \in BlProducers : MarkOf(blGroup'.base[p]) = z
    BY <1>0, <2>1, NoDrainType DEF z
  <2>3. ASSUME NEW p \in BlProducers, NEW m \in CounterMarks, IsMark(p, m)' PROVE IsMark(p, m)
    BY <1>6, <2>1, <2>2, <2>3 DEF IsMark
  <2> QED
    BY <2>1, <2>3, NoNewMark
<1>10. ASSUME NEW x \in BlExports, BlRefuse(x) \/ BlRetry(x)
       PROVE  UNCHANGED <<blSource, blPoint, blBase, blRows, blGroup>>
  BY <1>10 DEF BlRefuse, BlRetry
<1>11. ASSUME NEW c \in 1 .. BlMaxTime, PurgeBaselines(c)
       PROVE  UNCHANGED <<blSource, blPoint, blBase, blRows, blGroup>>
  BY <1>11 DEF PurgeBaselines
<1>12. ASSUME UNCHANGED blVars PROVE UNCHANGED <<blSource, blPoint, blBase, blRows, blGroup>>
  BY <1>12 DEF blVars
<1> QED
  BY <1>1, <1>2, <1>3, <1>4, <1>5, <1>7, <1>8, <1>9, <1>10, <1>11, <1>12 DEF BlNext

\* A point that is not late is newer than an expired one.
LEMMA NotLateIsNewer ==
    ASSUME BlShapes, NEW ts \in Nat, NEW last \in Nat, Expired(last), ~Late(ts)
    PROVE  ts > last
<1>1. PICK q \in BlProducers : blSource[q].ts - last >= BlWindowSize + BlAllowedLateness
  BY DEF Expired
<1>2. blSource[q].ts < (ts - (ts % BlWindowSize)) + BlWindowSize + BlAllowedLateness
  <2>1. blSource[q].ts \in Nat /\ BlWindowSize \in Nat \ {0} /\ BlAllowedLateness \in Nat
    BY BlAssumption DEF BlShapes, CounterMarks
  <2>2. ts % BlWindowSize \in Nat
    BY <2>1
  <2> QED
    BY <2>1, <2>2 DEF Late
<1>3. blSource[q].ts \in Nat /\ BlWindowSize \in Nat \ {0} /\ BlAllowedLateness \in Nat
  BY BlAssumption DEF BlShapes, CounterMarks
<1>4. ts % BlWindowSize \in Nat
  BY <1>3
<1> QED
  BY <1>1, <1>2, <1>3, <1>4

\* An expired time stays expired.
LEMMA ExpiredStays ==
    ASSUME BlShapes, [BlNext]_blVars, NEW ts \in Nat, Expired(ts)
    PROVE  Expired(ts)'
<1> USE DEF blSourceVars, blTrackerVars, blStoreVars, blCounts, blHistory
<1>1. PICK q \in BlProducers : blSource[q].ts - ts >= BlWindowSize + BlAllowedLateness
  BY DEF Expired
<1>2. blSource[q].ts \in Nat /\ BlWindowSize + BlAllowedLateness \in Nat
  BY BlAssumption DEF BlShapes, CounterMarks
<1>3. CASE UNCHANGED blSource
  BY <1>1, <1>3 DEF Expired
<1>4. ASSUME NEW p \in BlProducers, Produce(p) PROVE Expired(ts)'
  <2>1. PICK dt \in {1, GapThreshold + 1}, restart \in BOOLEAN :
          blSource' = [blSource EXCEPT ![p] =
              [start |-> IF restart THEN @.ts ELSE @.start, ts |-> @.ts + dt,
               value |-> IF restart THEN 1 ELSE @.value + 1, grown |-> @.grown + 1]]
    BY <1>4 DEF Produce
  <2>2. blSource'[q].ts = IF q = p THEN blSource[q].ts + dt ELSE blSource[q].ts
    BY <2>1 DEF BlShapes
  <2>3. dt \in Nat
    BY BlAssumption
  <2>4. blSource'[q].ts - ts >= BlWindowSize + BlAllowedLateness
    BY <1>1, <1>2, <2>2, <2>3
  <2> QED
    BY <2>4 DEF Expired
<1>5. ASSUME NEW x \in BlExports, Send(x) \/ ObserveCumulative(x) \/ BlRefuse(x) \/ BlRetry(x) PROVE UNCHANGED blSource
  BY <1>5 DEF Send, ObserveCumulative, BlRefuse, BlRetry
<1>6. ASSUME NEW xs \in SUBSET BlExports, DrainDirty(xs) PROVE UNCHANGED blSource
  BY <1>6 DEF DrainDirty
<1>7. ASSUME NEW c \in 1 .. BlMaxTime, PurgeBaselines(c) PROVE UNCHANGED blSource
  BY <1>7 DEF PurgeBaselines
<1>8. ASSUME BlCommitOK \/ BlCommitFails \/ BlRestart PROVE UNCHANGED blSource
  BY <1>8 DEF BlCommitOK, BlCommitFails, BlRestart
<1>9. ASSUME UNCHANGED blVars PROVE UNCHANGED blSource
  BY <1>9 DEF blVars
<1> QED
  BY <1>3, <1>4, <1>5, <1>6, <1>7, <1>8, <1>9 DEF BlNext

\* A purge forgets what is further back than a point may be late.
LEMMA ForgottenKept ==
    ASSUME BlShapes, KnownSound, ForgottenIsLate, [BlNext]_blVars
    PROVE  ForgottenIsLate'
<1> USE DEF blSourceVars, blTrackerVars, blStoreVars, blCounts, blHistory
<1>0. /\ BlProducers \subseteq BlRecords
      /\ \A r \in BlRecords : blBase[r].last \in Nat /\ blRows[r].last \in Nat
  BY DEF BlRecords, BlShapes, BaseStates
<1>1. \A ts \in Nat : Expired(ts) => Expired(ts)'
  BY ExpiredStays
\* The tracker's side and the rows' side.
<1>2. ASSUME NEW p \in BlProducers, blKnown \subseteq blKnown', blBase'[p].last = blBase[p].last
      PROVE  p \notin blKnown' /\ blBase'[p].last > 0 => Expired(blBase[p].last)'
  <2>1. p \notin blKnown /\ blBase[p].last > 0 => Expired(blBase[p].last)
    BY DEF ForgottenIsLate
  <2>2. blBase[p].last \in Nat
    BY <1>0
  <2>3. Expired(blBase[p].last) => Expired(blBase[p].last)'
    <3> DEFINE t == blBase[p].last
    <3>1. t \in Nat /\ blBase'[p].last = t
      BY <1>2, <2>2
    <3>2. Expired(t) => \E q \in BlProducers : blSource'[q].ts - t >= BlWindowSize + BlAllowedLateness
      BY <3>1, ExpiredStays DEF Expired
    <3> QED
      BY <3>1, <3>2 DEF Expired
  <2> QED
    BY <1>2, <2>1, <2>3
<1>3. ASSUME NEW p \in BlProducers, blStored \subseteq blStored', blRows'[p].last = blRows[p].last
      PROVE  p \notin blStored' /\ blRows'[p].last > 0 => Expired(blRows[p].last)'
  <2>1. p \notin blStored /\ blRows[p].last > 0 => Expired(blRows[p].last)
    BY DEF ForgottenIsLate
  <2>2. blRows[p].last \in Nat
    BY <1>0
  <2>3. Expired(blRows[p].last) => Expired(blRows[p].last)'
    <3> DEFINE t == blRows[p].last
    <3>1. t \in Nat /\ blRows'[p].last = t
      BY <1>3, <2>2
    <3>2. Expired(t) => \E q \in BlProducers : blSource'[q].ts - t >= BlWindowSize + BlAllowedLateness
      BY <3>1, ExpiredStays DEF Expired
    <3> QED
      BY <3>1, <3>2 DEF Expired
  <2> QED
    BY <1>3, <2>1, <2>3
<1> DEFINE Base(p) == p \notin blKnown' /\ blBase'[p].last > 0 => Expired(blBase[p].last)'
           Rows(p) == p \notin blStored' /\ blRows'[p].last > 0 => Expired(blRows[p].last)'
<1>4. ASSUME UNCHANGED <<blBase, blKnown, blRows, blStored>>
      PROVE  \A p \in BlProducers : Base(p) /\ Rows(p)
  BY <1>2, <1>3, <1>4
<1>5. ASSUME NEW x \in BlExports, ObserveCumulative(x) PROVE \A p \in BlProducers : Base(p) /\ Rows(p)
  <2>1. UNCHANGED <<blRows, blStored>>
    BY <1>5 DEF ObserveCumulative
  <2>2. CASE Quiet(x)
    BY <1>4, <2>1, <2>2 DEF Quiet
  <2>3. ASSUME NEW r \in BlRecords, NEW nb \in BaseStates, NEW d \in Nat, Observes(x, r, nb, d),
               NEW p \in BlProducers
        PROVE  Base(p)
    <3>1. blBase' = [blBase EXCEPT ![r] = nb] /\ blKnown' = blKnown \cup {r}
      BY <2>3 DEF Observes
    <3>2. p # r => blBase'[p].last = blBase[p].last
      BY <1>0, <3>1 DEF BlShapes
    <3>3. p = r => p \in blKnown'
      BY <3>1
    <3> QED
      BY <1>2, <3>1, <3>2, <3>3
  <2>4. \A p \in BlProducers : Rows(p)
    BY <1>3, <2>1
  <2> QED
    BY <1>5, <2>2, <2>3, <2>4, ObserveStep
<1>6. ASSUME NEW xs \in SUBSET BlExports, DrainDirty(xs) PROVE \A p \in BlProducers : Base(p) /\ Rows(p)
  <2>1. UNCHANGED <<blRows, blStored, blKnown>>
    BY <1>6 DEF DrainDirty
  <2>2. \A p \in BlProducers : blBase'[p].last = blBase[p].last
    BY <1>0, <1>6, DrainedRecord
  <2> QED
    BY <1>2, <1>3, <2>1, <2>2
<1>7. ASSUME BlCommitOK PROVE \A p \in BlProducers : Base(p) /\ Rows(p)
  <2>1. UNCHANGED <<blBase, blKnown>> /\ blStored' = blStored \cup blGroup.dirty
    BY <1>7 DEF BlCommitOK
  <2>2. \A p \in BlProducers : p \in blStored' \/ blRows'[p].last = blRows[p].last
    BY <1>0, <1>7, <2>1, CommittedRecord
  <2> QED
    BY <1>2, <1>3, <2>1, <2>2
<1>8. ASSUME BlCommitFails PROVE \A p \in BlProducers : Base(p) /\ Rows(p)
  <2>1. UNCHANGED <<blRows, blStored, blKnown>>
    BY <1>8 DEF BlCommitFails
  <2>2. \A p \in BlProducers : blBase'[p].last = blBase[p].last
    BY <1>0, <1>8, RolledBackRecord
  <2> QED
    BY <1>2, <1>3, <2>1, <2>2
<1>9. ASSUME BlRestart PROVE \A p \in BlProducers : Base(p) /\ Rows(p)
  <2>1. UNCHANGED <<blRows, blStored>> /\ blBase' = blRows /\ blKnown' = blStored
    BY <1>9 DEF BlRestart, Seeded
  <2>2. \A p \in BlProducers : Rows(p)
    BY <1>3, <2>1
  <2>3. \A p \in BlProducers : Base(p)
    BY <2>1, <2>2 DEF Expired
  <2> QED
    BY <2>2, <2>3
<1>10. ASSUME NEW c \in 1 .. BlMaxTime, PurgeBaselines(c) PROVE \A p \in BlProducers : Base(p) /\ Rows(p)
  <2>1. /\ UNCHANGED <<blSource, blBase, blKnown, blRows>> /\ c \in Nat
        /\ blStored' = {r \in blStored : blRows[r].last >= c}
        /\ \E q \in BlProducers : blSource[q].ts - c >= BlWindowSize + BlAllowedLateness
    BY <1>10, BlAssumption DEF PurgeBaselines
  <2>2. ASSUME NEW p \in BlProducers, p \notin blStored', blRows'[p].last > 0
        PROVE  Expired(blRows[p].last)'
    <3>1. CASE p \in blStored
      <4>1. blRows[p].last < c /\ blRows[p].last \in Nat
        BY <1>0, <2>1, <2>2, <3>1
      <4>2. PICK q \in BlProducers : blSource[q].ts - c >= BlWindowSize + BlAllowedLateness
        BY <2>1
      <4>3. blSource[q].ts \in Nat /\ BlWindowSize + BlAllowedLateness \in Nat
        BY BlAssumption DEF BlShapes, CounterMarks
      <4>4. blSource[q].ts - blRows[p].last >= BlWindowSize + BlAllowedLateness
        BY <2>1, <4>1, <4>2, <4>3
      <4> QED
        BY <2>1, <4>4 DEF Expired
    <3>2. CASE p \notin blStored
      <4>1. Expired(blRows[p].last)
        BY <2>1, <2>2, <3>2 DEF ForgottenIsLate
      <4> QED
        BY <2>1, <4>1 DEF Expired
    <3> QED
      BY <3>1, <3>2
  <2>3. \A p \in BlProducers : Base(p)
    BY <1>2, <2>1
  <2> QED
    BY <2>2, <2>3
<1>11. ASSUME NEW x \in BlExports, Send(x) \/ BlRefuse(x) \/ BlRetry(x)
       PROVE  UNCHANGED <<blBase, blKnown, blRows, blStored>>
  BY <1>11 DEF Send, BlRefuse, BlRetry
<1>12. ASSUME NEW p \in BlProducers, Produce(p) PROVE UNCHANGED <<blBase, blKnown, blRows, blStored>>
  BY <1>12 DEF Produce
<1>13. ASSUME UNCHANGED blVars PROVE UNCHANGED <<blBase, blKnown, blRows, blStored>>
  BY <1>13 DEF blVars
<1>14. \A p \in BlProducers : Base(p) /\ Rows(p)
  <2> HIDE DEF Base, Rows
  <2> QED
    BY <1>4, <1>5, <1>6, <1>7, <1>8, <1>9, <1>10, <1>11, <1>12, <1>13 DEF BlNext
<1> QED
  BY <1>14 DEF ForgottenIsLate

\* What a point newer than a record adds to it is at most what the counter grew in between.
LEMMA CreditKept ==
    ASSUME NEW b \in BaseStates, NEW pt \in CounterMarks, NEW nb \in BaseStates,
           InOrder(MarkOf(b), pt), pt.ts > b.last, b.last > 0, Credited(b), MarkOf(nb) = pt,
           nb.noted = b.noted \/ nb.noted = b.noted + Increase(b, pt)
    PROVE  Credited(nb)
<1>1. /\ MarkOf(b).ts = b.last /\ MarkOf(b).grown = b.seen /\ MarkOf(b).start = b.start
      /\ MarkOf(b).value = b.value /\ nb.last = pt.ts /\ nb.seen = pt.grown
  BY MarkType
<1>2. /\ b.start \in Nat /\ b.last \in Nat /\ b.value \in Nat /\ b.seen \in Nat /\ b.noted \in Nat
      /\ pt.start \in Nat /\ pt.ts \in Nat /\ pt.value \in Nat /\ pt.grown \in Nat
  BY DEF BaseStates, CounterMarks
<1>3. /\ b.seen <= pt.grown
      /\ \/ b.start = pt.start /\ pt.value = b.value + (pt.grown - b.seen)
         \/ b.start # pt.start /\ pt.value <= pt.grown - b.seen
  BY <1>1, <1>2 DEF InOrder
<1>4. Increase(b, pt) <= pt.grown - b.seen /\ Increase(b, pt) \in Nat
  BY <1>2, <1>3 DEF Increase
<1>5. b.noted <= b.seen
  BY DEF Credited
<1>6. nb.noted <= pt.grown
  BY <1>2, <1>3, <1>4, <1>5
<1> QED
  BY <1>1, <1>2, <1>6 DEF Credited

\* A record is credited with what its counter grew, also when it was forgotten in between.
LEMMA CreditsKept ==
    ASSUME BlShapes, KnownSound, MarksAgree, ForgottenIsLate, CreditsBounded, [BlNext]_blVars
    PROVE  CreditsBounded'
<1> USE DEF blSourceVars, blTrackerVars, blStoreVars, blCounts, blHistory
<1>0. /\ BlProducers \subseteq BlRecords
      /\ \A p \in BlProducers : Credited(NoDrain.base[p])
  BY NoDrainType DEF BlRecords, NoBaseline, Credited
<1>1. ASSUME UNCHANGED <<blBase, blRows, blGroup>> PROVE CreditsBounded'
  BY <1>1 DEF CreditsBounded
<1>2. ASSUME NEW x \in BlExports, ObserveCumulative(x) PROVE CreditsBounded'
  <2>1. UNCHANGED <<blRows, blGroup>> /\ blExport[x] = "made"
    BY <1>2 DEF ObserveCumulative
  <2>2. CASE Quiet(x)
    BY <1>1, <2>1, <2>2 DEF Quiet
  <2>3. ASSUME NEW r \in BlRecords, NEW nb \in BaseStates, NEW d \in Nat, Observes(x, r, nb, d),
               r \in BlProducers
        PROVE  Credited(nb)
    <3> DEFINE b == blBase[r]
               pt == blPoint[x]
    <3>1. r = BlProducer[x]
      BY <2>3, RecordIsOwn DEF Observes
    <3>2. b \in BaseStates /\ pt \in CounterMarks /\ pt.ts > 0 /\ Credited(b) /\ pt.ts \in Nat /\ b.last \in Nat
      BY <2>1, <2>3 DEF BlShapes, KnownSound, CreditsBounded, CounterMarks, BaseStates
    <3>3. IsMark(r, pt)
      BY <3>1, <3>2 DEF IsMark
    <3>4. b.last > 0 => InOrder(MarkOf(b), pt)
      <4>1. MarkOf(b) \in CounterMarks /\ MarkOf(b).ts = b.last
        BY <3>2, MarkType
      <4>2. b.last > 0 => IsMark(r, MarkOf(b))
        BY <4>1 DEF IsMark
      <4> QED
        BY <2>3, <3>2, <3>3, <4>1, <4>2 DEF MarksAgree
    <3>5. nb.last = MarkOf(nb).ts /\ nb.seen = MarkOf(nb).grown /\ b.last = MarkOf(b).ts
          /\ b.seen = MarkOf(b).grown /\ nb.noted \in Nat /\ nb.seen \in Nat /\ nb.last \in Nat
      BY <3>2, MarkType DEF BaseStates
    <3>6. \/ r \notin blKnown /\ ~Late(pt.ts) /\ Opens(b, pt, nb)
          \/ r \in blKnown /\ Repeats(b, nb)
          \/ r \in blKnown /\ Advances(b, pt, nb)
      BY <2>3 DEF Observes
    <3>7. r \notin blKnown /\ b.last > 0 => Expired(b.last)
      BY <2>3 DEF ForgottenIsLate
    <3>8. r \in blKnown => b.last > 0
      BY DEF KnownSound
    <3> HIDE DEF b, pt
    <3>9. CASE r \in blKnown /\ Advances(b, pt, nb)
      BY <3>2, <3>4, <3>8, <3>9, CreditKept DEF Advances
    <3>10. CASE r \in blKnown /\ Repeats(b, nb)
      BY <3>2, <3>5, <3>10 DEF Repeats, Credited
    <3>11. CASE r \notin blKnown /\ ~Late(pt.ts) /\ Opens(b, pt, nb)
      <4>1. CASE b.last = 0
        <5>1. nb.noted = 0
          BY <3>2, <3>11, <4>1 DEF Opens, Credited
        <5> QED
          BY <3>5, <5>1 DEF Credited
      <4>2. CASE b.last > 0
        <5>1. pt.ts > b.last
          BY <3>2, <3>7, <3>11, <4>2, NotLateIsNewer
        <5> QED
          BY <3>2, <3>4, <3>11, <4>2, <5>1, CreditKept DEF Opens
      <4> QED
        BY <3>2, <4>1, <4>2
    <3> QED
      BY <3>6, <3>9, <3>10, <3>11
  <2>4. ASSUME NEW r \in BlRecords, NEW nb \in BaseStates, NEW d \in Nat, Observes(x, r, nb, d)
        PROVE  CreditsBounded'
    <3>1. blBase' = [blBase EXCEPT ![r] = nb]
      BY <2>4 DEF Observes
    <3>2. \A p \in BlProducers : Credited(blBase'[p])
      <4> SUFFICES ASSUME NEW p \in BlProducers PROVE Credited(blBase'[p])
        OBVIOUS
      <4>1. blBase'[p] = IF p = r THEN nb ELSE blBase[p]
        BY <1>0, <3>1 DEF BlShapes
      <4> QED
        BY <2>3, <2>4, <4>1 DEF CreditsBounded
    <3> QED
      BY <2>1, <3>2 DEF CreditsBounded
  <2> QED
    BY <1>2, <2>2, <2>4, ObserveStep
<1>3. ASSUME NEW xs \in SUBSET BlExports, DrainDirty(xs) PROVE CreditsBounded'
  <2>1. UNCHANGED blRows /\ blGroup'.base = blBase
    BY <1>3 DEF DrainDirty
  <2>2. \A p \in BlProducers : Credited(blBase'[p])
    BY <1>0, <1>3, DrainedRecord DEF CreditsBounded, Credited, SameBooks
  <2> QED
    BY <2>1, <2>2 DEF CreditsBounded
<1>4. ASSUME BlCommitOK PROVE CreditsBounded'
  <2>1. UNCHANGED blBase /\ blGroup' = NoDrain
    BY <1>4 DEF BlCommitOK
  <2>2. \A p \in BlProducers : Credited(blRows'[p])
    BY <1>0, <1>4, CommittedRecord DEF CreditsBounded, Credited, SameBooks
  <2> QED
    BY <1>0, <2>1, <2>2 DEF CreditsBounded
<1>5. ASSUME BlCommitFails PROVE CreditsBounded'
  <2>1. UNCHANGED blRows /\ blGroup' = NoDrain
    BY <1>5 DEF BlCommitFails
  <2>2. \A p \in BlProducers : Credited(blBase'[p])
    BY <1>0, <1>5, RolledBackRecord DEF CreditsBounded, Credited, SameBooks
  <2> QED
    BY <1>0, <2>1, <2>2 DEF CreditsBounded
<1>6. ASSUME BlRestart PROVE CreditsBounded'
  <2>1. UNCHANGED blRows /\ blGroup' = NoDrain /\ blBase' = blRows
    BY <1>6 DEF BlRestart, Seeded
  <2> QED
    BY <1>0, <2>1 DEF CreditsBounded
<1>7. ASSUME NEW p \in BlProducers, Produce(p) PROVE UNCHANGED <<blBase, blRows, blGroup>>
  BY <1>7 DEF Produce
<1>8. ASSUME NEW x \in BlExports, Send(x) \/ BlRefuse(x) \/ BlRetry(x) PROVE UNCHANGED <<blBase, blRows, blGroup>>
  BY <1>8 DEF Send, BlRefuse, BlRetry
<1>9. ASSUME NEW c \in 1 .. BlMaxTime, PurgeBaselines(c) PROVE UNCHANGED <<blBase, blRows, blGroup>>
  BY <1>9 DEF PurgeBaselines
<1>10. ASSUME UNCHANGED blVars PROVE UNCHANGED <<blBase, blRows, blGroup>>
  BY <1>10 DEF blVars
<1> QED
  BY <1>1, <1>2, <1>3, <1>4, <1>5, <1>6, <1>7, <1>8, <1>9, <1>10 DEF BlNext

-------------------------------------------------------------------------------
\* The inductive invariant of the baselines.
TotalsInv ==
    /\ BlShapes /\ GroupSound /\ KnownSound /\ InStep
    /\ GroupCarries /\ RowsCovered /\ GroupCovered /\ TrackerCovers
    /\ MarksAgree /\ CreditsBounded /\ ForgottenIsLate

\* The invariant holds at first.
LEMMA TotalsInvInit == BlInit => TotalsInv
<1> SUFFICES ASSUME BlInit PROVE TotalsInv
  OBVIOUS
<1>1. BlShapes /\ GroupSound /\ KnownSound /\ InStep /\ MarksAgree /\ CreditsBounded /\ ForgottenIsLate
  BY BlShapesInit, GroupSoundInit, KnownSoundInit, InStepInit, CreditsInit
<1>2. /\ blGroup = NoDrain /\ Accounted = 0 /\ Booked = 0 /\ blRows = blBase
      /\ \A r \in BlRecords : blBase[r] = NoBaseline
  BY NoDrainType DEF BlInit, Accounted, Forgone, Booked
<1>3. blBase \in [BlRecords -> BaseStates]
  BY <1>1 DEF BlShapes
<1>4. NoBaseline.owed = 0 /\ NoBaseline.stranded = 0 /\ NoBaseline.noted = 0
  BY DEF NoBaseline
<1>5. \A r \in BlRecords : NotedBy(blBase)[r] = StrandedBy(blBase)[r] /\ AwayIn(blBase)[r] = NotedBy(blBase)[r]
  BY <1>2, <1>4 DEF NotedBy, StrandedBy, AwayIn
<1>6. /\ Total(NotedBy(blBase), BlRecords) = Total(StrandedBy(blBase), BlRecords)
      /\ Total(AwayIn(blBase), BlRecords) = Total(NotedBy(blBase), BlRecords)
      /\ Total(NotedBy(blBase), BlRecords) \in Nat
  BY <1>3, <1>5, TotalSame, BooksType
<1>7. Waiting(blExport) = {}
  BY DEF BlInit, Waiting
<1>8. Total(blDelta, Waiting(blExport)) = 0
  BY <1>7, TotalEmpty
<1> QED
  BY <1>1, <1>2, <1>6, <1>8 DEF TotalsInv, GroupCarries, RowsCovered, GroupCovered, TrackerCovers

\* Every step keeps the invariant.
LEMMA TotalsInvKept == TotalsInv /\ [BlNext]_blVars => TotalsInv'
<1> SUFFICES ASSUME TotalsInv, [BlNext]_blVars PROVE TotalsInv'
  OBVIOUS
<1> USE DEF TotalsInv
<1>1. BlShapes'
  BY BlShapesKept
<1>2. GroupSound' /\ KnownSound' /\ InStep'
  BY GroupSoundKept, KnownSoundKept, InStepKept
<1>3. GroupCarries' /\ GroupCovered'
  BY GroupCarriesKept, GroupCoveredKept
<1>4. RowsCovered' /\ TrackerCovers'
  BY <1>1, RowsCoveredKept, TrackerCoversKept
<1>5. MarksAgree' /\ CreditsBounded' /\ ForgottenIsLate'
  BY MarksAgreeKept, CreditsKept, ForgottenKept
<1> QED
  BY <1>1, <1>2, <1>3, <1>4, <1>5

\* The invariant gives the exact totals.
LEMMA TotalsInvGives == TotalsInv => TotalsExactAlone
<1> SUFFICES ASSUME TotalsInv PROVE TotalsExactAlone
  OBVIOUS
<1>1. /\ blBase \in [BlRecords -> BaseStates] /\ blDelta \in [BlExports -> Nat]
      /\ blSource \in [BlProducers -> CounterMarks] /\ BlProducers \subseteq BlRecords
  BY DEF TotalsInv, BlShapes, BlRecords
<1>2. NotedIncrease = Total(NotedBy(blBase), BlRecords)
  <2>1. NotedIncrease = Sum(NotedBy(blBase), BlRecords)
    BY DEF NotedIncrease, NotedBy
  <2>2. \A r \in BlRecords : NotedBy(blBase)[r] \in Nat
    BY <1>1 DEF NotedBy, BaseStates
  <2> QED
    BY <2>1, <2>2, BlFinite, SumTotal
<1>3. HeldIncrease = blDurable + Total(blDelta, Waiting(blExport)) + Total(AwayIn(blBase), BlRecords)
  <2>1. HeldIncrease = blDurable + Sum(blDelta, Waiting(blExport)) + Sum(AwayIn(blBase), BlRecords)
    BY DEF HeldIncrease, AwayIn, Waiting
  <2>2. \A r \in BlRecords : AwayIn(blBase)[r] \in Nat
    BY <1>1 DEF AwayIn, BaseStates
  <2>3. Sum(AwayIn(blBase), BlRecords) = Total(AwayIn(blBase), BlRecords)
    BY <2>2, BlFinite, SumTotal
  <2>4. Waiting(blExport) \in SUBSET BlExports
    BY DEF Waiting
  <2>5. Sum(blDelta, Waiting(blExport)) = Total(blDelta, Waiting(blExport))
    BY <1>1, <2>4, BlFinite, SumTotal
  <2> QED
    BY <2>1, <2>3, <2>5
<1>4. ASSUME NEW p \in BlProducers PROVE blBase[p].noted <= blSource[p].grown
  <2> DEFINE b == blBase[p]
             s == blSource[p]
  <2>1. /\ b \in BaseStates /\ s \in CounterMarks /\ Credited(b) /\ s.ts > 0
        /\ s.ts \in Nat /\ s.grown \in Nat /\ b.last \in Nat /\ b.seen \in Nat /\ b.noted \in Nat
    BY <1>1 DEF TotalsInv, CreditsBounded, KnownSound, BaseStates, CounterMarks
  <2>2. CASE b.last = 0
    BY <2>1, <2>2 DEF Credited
  <2>3. CASE b.last > 0
    <3>1. MarkOf(b) \in CounterMarks /\ MarkOf(b).ts = b.last /\ MarkOf(b).grown = b.seen
      BY <2>1, MarkType
    <3>2. IsMark(p, MarkOf(b)) /\ IsMark(p, s)
      BY <2>1, <2>3, <3>1 DEF IsMark
    <3>3. InOrder(MarkOf(b), s) /\ MarkOf(b).ts <= s.ts
      BY <2>1, <3>1, <3>2 DEF TotalsInv, MarksAgree
    <3>4. b.seen <= s.grown
      BY <2>1, <3>1, <3>3 DEF InOrder
    <3> QED
      BY <2>1, <3>4 DEF Credited
  <2> QED
    BY <2>1, <2>2, <2>3
<1>5. HeldIncrease + Forgone
        = Accounted + Total(blDelta, Waiting(blExport)) + Total(AwayIn(blBase), BlRecords)
  <2>1. blDurable \in Nat /\ Forgone \in Nat
    BY DEF TotalsInv, BlShapes, BlGroups, Forgone
  <2>2. Total(blDelta, Waiting(blExport)) \in Nat /\ Total(AwayIn(blBase), BlRecords) \in Nat
    <3>1. Waiting(blExport) \in SUBSET BlExports
      BY DEF Waiting
    <3>2. IsFiniteSet(Waiting(blExport)) /\ \A x \in Waiting(blExport) : blDelta[x] \in Nat
      BY <1>1, <3>1, BlFinite
    <3> QED
      BY <1>1, <3>2, TotalType, BooksType
  <2> QED
    BY <1>3, <2>1, <2>2 DEF Accounted
<1>6. Alone => /\ HeldIncrease + Forgone <= NotedIncrease
               /\ blCrashes = 0 => HeldIncrease + Forgone = NotedIncrease
  BY <1>2, <1>5 DEF TotalsInv, TrackerCovers
<1> QED
  BY <1>4, <1>6 DEF TotalsExactAlone, Alone

\* Totals stay exact, for every set of exports and producers, every gap, lateness and cap: the
\* increase the tracker took note of is durable, waiting, owed, stranded or of an export refused
\* at admission, over any failed commits, refusals and retries; it is never counted twice after
\* a crash, and never exceeds what the counter grew, unless a failed commit had drained the
\* increase of another export that waited (ObserveCumulative, DrainDirty, Rollback, Seed,
\* ApplyErr).
THEOREM TotalsStayExact == BlSpec => []TotalsExactAlone
<1>1. BlInit => TotalsInv
  BY TotalsInvInit
<1>2. TotalsInv /\ [BlNext]_blVars => TotalsInv'
  BY TotalsInvKept
<1>3. TotalsInv => TotalsExactAlone
  BY TotalsInvGives
<1> QED
  BY <1>1, <1>2, <1>3, PTL DEF BlSpec
===============================================================================
