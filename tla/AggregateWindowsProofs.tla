------------------------ MODULE AggregateWindowsProofs ------------------------
(***************************************************************************)
(* Proofs about AggregateWindows, for every set of Exports, every window   *)
(* length, lateness, cap and bound, and about Rollups, for every set of    *)
(* processes, series, services and windows.                                *)
(***************************************************************************)
EXTENDS AggregateWindows, Rollups, Totals, FiniteSetTheorems, TLAPS, WellFoundedInduction

-------------------------------------------------------------------------------
(* Least and greatest windows.                                             *)

\* Window starts are natural numbers, as WindowStart computes them.
LEMMA WindowsAreNaturals == Windows \in SUBSET Nat
BY TimesAssumption DEF Windows

\* A non-empty set of naturals has a least member.
LEMMA LeastExists ==
    ASSUME NEW S \in SUBSET Nat, S # {}
    PROVE  \E m \in S : \A v \in S : m <= v
<1>1. IsWellFoundedOn(OpToRel(<, Nat), Nat)
  BY NatLessThanWellFounded
<1>2. PICK x \in S : \A y \in S : ~(<<y, x>> \in OpToRel(<, Nat))
  BY <1>1, WFMin, Zenon
<1>3. \A y \in S : ~(y < x)
  BY <1>2, Zenon DEF OpToRel
<1> QED
  BY <1>3

\* Oldest picks a member, and it is the least one.
LEMMA OldestIsLeast ==
    ASSUME NEW S \in SUBSET Nat, S # {}
    PROVE  /\ Oldest(S) \in S
           /\ \A v \in S : Oldest(S) <= v
<1> QED
  BY LeastExists DEF Oldest

\* Newest of a bounded set of naturals picks a member.
LEMMA NewestIsMember ==
    ASSUME NEW S \in SUBSET Nat, S # {}, NEW B \in Nat, \A v \in S : v <= B
    PROVE  Newest(S) \in S
<1> DEFINE T == {B - v : v \in S}
<1>1. T \in SUBSET Nat /\ T # {}
  <2>1. \A v \in S : B - v \in Nat
    OBVIOUS
  <2>2. \E v \in S : B - v \in T
    OBVIOUS
  <2> QED
    BY <2>1, <2>2
<1> HIDE DEF T
<1>2. PICK m \in T : \A v \in T : m <= v
  BY <1>1, LeastExists
<1>3. PICK w \in S : m = B - w
  BY <1>2 DEF T
<1>4. \A v \in S : v <= w
  BY <1>2, <1>3 DEF T
<1> QED
  BY <1>4 DEF Newest

\* The watermark moves to a window or stays: what Rollover and MarkFinalized need.
LEMMA NewestWithWatermark ==
    ASSUME NEW S \in SUBSET Windows, NEW m \in Windows \cup {0}
    PROVE  Newest(S \cup {m}) \in Windows \cup {0}
<1> DEFINE T == S \cup {m}
           B == MaxTime + MaxFutureSkew
<1>1. T \in SUBSET Nat /\ T # {} /\ B \in Nat
  BY TimesAssumption DEF Windows
<1>2. \A v \in T : v <= B
  BY TimesAssumption DEF Windows
<1>3. Newest(T) \in T
  <2> HIDE DEF T, B
  <2> QED BY <1>1, <1>2, NewestIsMember
<1> QED
  BY <1>3

-------------------------------------------------------------------------------
(* Deltas.                                                                 *)

\* Merging two deltas gives a delta (Delta.Merge is addition).
LEMMA MergeIsDelta ==
    ASSUME NEW d1 \in Delta, NEW d2 \in Delta
    PROVE  /\ Merge(d1, d2) \in Delta
           /\ \A e \in Exports : Merge(d1, d2)[e] = d1[e] + d2[e]
BY DEF Merge, Delta

\* The empty delta, and a table of empty deltas, are well typed.
LEMMA NoDeltaIsDelta ==
    /\ NoDelta \in Delta
    /\ \A e \in Exports : NoDelta[e] = 0
    /\ Empty \in WindowDeltas
    /\ \A w \in Windows : Empty[w] = NoDelta
BY DEF NoDelta, Delta, Empty, WindowDeltas

\* One transaction of the finalizer keeps both tables well formed.
LEMMA MaterializeTypes ==
    ASSUME log \in WindowDeltas, buckets \in WindowDeltas, NEW w \in Windows, Materialize(w)
    PROVE  log' \in WindowDeltas /\ buckets' \in WindowDeltas
BY MergeIsDelta, NoDeltaIsDelta DEF Materialize, WindowDeltas

\* It moves an Export's contribution from the delta log to the buckets and
\* changes no sum.
LEMMA MaterializeKeepsStored ==
    ASSUME log \in WindowDeltas, buckets \in WindowDeltas, NEW u \in Windows, Materialize(u),
           NEW w \in Windows, NEW e \in Exports
    PROVE  Stored(w, e)' = Stored(w, e)
<1>1. log[w] \in Delta /\ buckets[w] \in Delta
  BY DEF WindowDeltas
<1>2. CASE w = u
  <2>1. log'[w] = NoDelta /\ buckets'[w] = Merge(buckets[w], log[w])
    BY <1>2 DEF Materialize, WindowDeltas
  <2> QED
    BY <1>1, <2>1, MergeIsDelta, NoDeltaIsDelta DEF Stored, Delta
<1>3. CASE w # u
  <2>1. log'[w] = log[w] /\ buckets'[w] = buckets[w]
    BY <1>3 DEF Materialize, WindowDeltas
  <2> QED
    BY <2>1 DEF Stored
<1> QED
  BY <1>2, <1>3

-------------------------------------------------------------------------------
(* Type correctness.                                                       *)

\* A freshly built engine over an empty store is well typed.
LEMMA InitTypeOK == Init => TypeOK
<1> SUFFICES ASSUME Init PROVE TypeOK
  OBVIOUS
<1>1. now \in Nat
  BY TimesAssumption DEF Init, FirstTick
<1>2. reader \in [pc : {"idle", "memory", "answered"}, from : Nat, storeEnd : Nat,
                  rows : WindowDeltas, owed : WindowDeltas]
  BY NoDeltaIsDelta DEF Init, NoReader
<1> QED
  BY <1>1, <1>2, NoDeltaIsDelta DEF Init, TypeOK

\* Rollover keeps the ownership record well formed.
LEMMA RolloverTypes ==
    ASSUME TypeOK, Rollover
    PROVE  /\ shards' \in WindowDeltas
           /\ mutable' \in SUBSET Windows /\ closed' \in SUBSET Windows
           /\ watermark' \in Windows \cup {0}
<1> DEFINE over == OverCap(ClosedAt(now))
<1>1. ClosedAt(now) \in SUBSET Windows
  BY DEF TypeOK, ClosedAt
<1>2. over \in SUBSET Windows
  BY <1>1 DEF OverCap, OldestOf
<1>3. /\ shards' = [w \in Windows |-> IF w \in over THEN NoDelta ELSE shards[w]]
      /\ closed' = ClosedAt(now) \ over
      /\ mutable' = mutable \ over
      /\ watermark' = Newest(over \cup {watermark})
  BY DEF Rollover
<1> HIDE DEF over
<1>4. shards' \in WindowDeltas
  BY <1>3, NoDeltaIsDelta DEF TypeOK, WindowDeltas
<1>5. watermark' \in Windows \cup {0}
  BY <1>2, <1>3, NewestWithWatermark DEF TypeOK
<1> QED
  BY <1>1, <1>3, <1>4, <1>5 DEF TypeOK

\* The windows a commit or a replay reads from the delta log.
LEMMA HeldAreWindows == \A m : Held(m) \in SUBSET Windows
BY DEF Held

\* Every step of engine, writer, finalizer, reader and recovery keeps the types.
LEMMA StepTypeOK == TypeOK /\ [Next]_vars => TypeOK'
<1> SUFFICES ASSUME TypeOK, [Next]_vars PROVE TypeOK'
  OBVIOUS
<1> USE DEF clientVars, commitVars, storeVars, ownVars, finalizeVars, modeVars
<1>1. CASE Tick
  BY <1>1 DEF Tick, TypeOK
<1>2. ASSUME NEW e \in Exports, Reduce(e) PROVE TypeOK'
  BY <1>2 DEF Reduce, TypeOK, AcceptedWindows
<1>3. ASSUME NEW B \in SUBSET Exports, PlanAdmission(B) PROVE TypeOK'
  <2>1. Rollover
    BY <1>3 DEF PlanAdmission
  <2>2. plan' \in WindowDeltas
    BY <1>3 DEF PlanAdmission, WindowDeltas, Delta
  <2>3. dropped' \in [Exports -> SUBSET Windows]
    BY <1>3 DEF PlanAdmission, TypeOK
  <2> QED
    BY <1>3, <2>1, <2>2, <2>3, RolloverTypes DEF PlanAdmission, TypeOK
<1>4. CASE CommitGroup
  <2>1. log' \in WindowDeltas
    BY <1>4, MergeIsDelta DEF CommitGroup, TypeOK, WindowDeltas
  <2> QED
    BY <1>4, <2>1 DEF CommitGroup, TypeOK
<1>5. CASE CommitGroupFails
  BY <1>5, NoDeltaIsDelta DEF CommitGroupFails, TypeOK
<1>6. CASE CommitAdmission
  <2>1. shards' \in WindowDeltas
    BY <1>6, MergeIsDelta DEF CommitAdmission, TypeOK, WindowDeltas
  <2>2. mutable' \in SUBSET Windows
    BY <1>6, HeldAreWindows DEF CommitAdmission, TypeOK
  <2>3. straddled' \in BOOLEAN
    BY <1>6, Zenon DEF CommitAdmission, TypeOK
  <2> QED
    BY <1>6, <2>1, <2>2, <2>3, NoDeltaIsDelta DEF CommitAdmission, TypeOK
<1>7. CASE ListFinalizable
  <2>1. todo' \in SUBSET Windows
    BY <1>7 DEF ListFinalizable, OldestOf, Finalizable, Held
  <2> QED
    BY <1>7, <2>1 DEF ListFinalizable, TypeOK
<1>8. CASE FinalizeWindow
  <2>1. Oldest(todo) \in Windows
    <3>1. todo \in SUBSET Nat /\ todo # {}
      BY <1>8, WindowsAreNaturals DEF FinalizeWindow, TypeOK
    <3> QED
      BY <3>1, OldestIsLeast DEF TypeOK
  <2>2. log' \in WindowDeltas /\ buckets' \in WindowDeltas
    BY <1>8, <2>1, MaterializeTypes DEF FinalizeWindow, TypeOK
  <2> QED
    BY <1>8, <2>1, <2>2 DEF FinalizeWindow, TypeOK
<1>9. CASE FinalizeWindowFails
  BY <1>9 DEF FinalizeWindowFails, TypeOK
<1>10. CASE MarkFinalized
  <2>1. shards' \in WindowDeltas
    BY <1>10, NoDeltaIsDelta DEF MarkFinalized, TypeOK, WindowDeltas
  <2>2. watermark' \in Windows \cup {0}
    BY <1>10, NewestWithWatermark DEF MarkFinalized, TypeOK
  <2> QED
    BY <1>10, <2>1, <2>2 DEF MarkFinalized, TypeOK
<1>11. ASSUME NEW from \in Windows, ReadMutable(from) PROVE TypeOK'
  <2> DEFINE mem == {w \in mutable : w >= from}
  <2>1. mem = {} \/ Oldest(mem) \in mem
    BY OldestIsLeast DEF TypeOK, Windows
  <2>2. MaxTime + MaxFutureSkew + 1 \in Nat /\ from \in Nat /\ mem \in SUBSET Nat
    <3>1. MaxTime + MaxFutureSkew + 1 \in Nat
      BY TimesAssumption
    <3>2. from \in Nat /\ mutable \in SUBSET Nat
      BY WindowsAreNaturals DEF TypeOK
    <3> QED
      BY <3>1, <3>2
  <2>3. (IF mem = {} THEN MaxTime + MaxFutureSkew + 1 ELSE Oldest(mem)) \in Nat
    BY <2>1, <2>2
  <2>4. [w \in Windows |-> IF w \in mem THEN shards[w] ELSE NoDelta] \in WindowDeltas
    BY NoDeltaIsDelta DEF WindowDeltas, TypeOK
  <2>5. [w \in Windows |-> [x \in Exports |->
           IF status[x] = "acked" /\ w \in points[x] \ dropped[x] THEN 1 ELSE 0]] \in WindowDeltas
    BY DEF WindowDeltas, Delta
  <2>6. reader' \in [pc : {"idle", "memory", "answered"}, from : Nat, storeEnd : Nat,
                     rows : WindowDeltas, owed : WindowDeltas]
    <3> HIDE DEF mem
    <3> QED BY <1>11, <2>2, <2>3, <2>4, <2>5 DEF ReadMutable, mem
  <2> QED
    BY <1>11, <2>6 DEF ReadMutable, TypeOK
<1>12. CASE ReadStore
  <2>1. [w \in Windows |-> IF w >= reader.from /\ w < reader.storeEnd
                           THEN Merge(reader.rows[w], Merge(buckets[w], log[w]))
                           ELSE reader.rows[w]] \in WindowDeltas
    BY MergeIsDelta DEF TypeOK, WindowDeltas
  <2> QED
    BY <1>12, <2>1 DEF ReadStore, TypeOK
<1>13. CASE Respond
  BY <1>13, NoDeltaIsDelta DEF Respond, TypeOK, NoReader
<1>14. CASE Crash
  <2>1. reader' \in [pc : {"idle", "memory", "answered"}, from : Nat, storeEnd : Nat,
                     rows : WindowDeltas, owed : WindowDeltas]
    BY <1>14, NoDeltaIsDelta DEF Crash, NoReader
  <2> QED
    BY <1>14, <2>1, NoDeltaIsDelta DEF Crash, TypeOK
<1>15. CASE BeginRecover
  BY <1>15 DEF BeginRecover, TypeOK
<1>16. CASE FinalizeExpired
  <2>1. Oldest(Finalizable(recoverNow)) \in Windows
    BY <1>16, OldestIsLeast DEF FinalizeExpired, Finalizable, Held, Windows
  <2>2. log' \in WindowDeltas /\ buckets' \in WindowDeltas
    BY <1>16, <2>1, MaterializeTypes DEF FinalizeExpired, TypeOK
  <2> QED
    BY <1>16, <2>2 DEF FinalizeExpired, TypeOK
<1>17. CASE Replay
  <2>1. shards' \in WindowDeltas /\ mutable' \in SUBSET Windows
    BY <1>17, NoDeltaIsDelta, HeldAreWindows DEF Replay, TypeOK, WindowDeltas
  <2> QED
    BY <1>17, <2>1 DEF Replay, TypeOK
<1>18. CASE UNCHANGED vars
  BY <1>18 DEF vars, TypeOK
<1> QED
  BY <1>1, <1>2, <1>3, <1>4, <1>5, <1>6, <1>7, <1>8, <1>9, <1>10, <1>11, <1>12, <1>13,
     <1>14, <1>15, <1>16, <1>17, <1>18
     DEF Next, CommitLoop, FinalizeLoop, Recover

\* The state keeps its types: no counter goes negative, no window outside the
\* explored range is owned, logged or finalized.
THEOREM TypeCorrect == Spec => []TypeOK
BY InitTypeOK, StepTypeOK, PTL DEF Spec

-------------------------------------------------------------------------------
(* The inductive invariant of the durable path.                            *)

\* The batch in flight, if any, is parked Exports of a running process.
BatchParked ==
    /\ \A e \in batch : status[e] = "submitted"
    /\ commit = "idle" => batch = {}
    /\ mode # "up" => commit = "idle" /\ closed = {}

\* The plan holds each Export of the batch once in every window it kept.
PlanExact ==
    \A w \in Windows, e \in Exports :
        plan[w][e] = IF e \in batch /\ w \in points[e] \ dropped[e] THEN 1 ELSE 0

\* What the store holds of an Export is decided by the Export's status; before
\* the answer, by whether its group has committed.
StoredExact ==
    \A w \in Windows, e \in Exports :
        /\ status[e] = "acked" =>
             Stored(w, e) = IF w \in points[e] \ dropped[e] THEN 1 ELSE 0
        /\ status[e] \in {"idle", "failed"} => Stored(w, e) = 0
        /\ status[e] = "submitted" =>
             Stored(w, e) = IF commit = "durable" THEN plan[w][e] ELSE 0
        /\ status[e] = "lost" => Stored(w, e) <= 1

\* The shards hold nothing of an Export that has not been answered or lost.
ShardsAfterCommit ==
    \A w \in Windows, e \in Exports :
        status[e] \in {"idle", "submitted", "failed"} => shards[w][e] = 0

\* Whatever a query has gathered so far counts an Export at most once.
RowsOnce == \A w \in Windows, e \in Exports : reader.rows[w][e] <= 1

\* Memory contributed nothing to the range the store is about to be asked for.
DisjointParts ==
    reader.pc = "memory" =>
        \A w \in Windows : w < reader.storeEnd => reader.rows[w] = NoDelta

IInv ==
    /\ BatchParked
    /\ PlanExact
    /\ StoredExact
    /\ ShardsAfterCommit
    /\ ShardsProjectStore
    /\ MemoryOwnsItsRows
    /\ RowsOnce
    /\ DisjointParts

\* The inductive invariant holds of a freshly built engine.
LEMMA InitIInv == Init => IInv
<1> SUFFICES ASSUME Init PROVE IInv
  OBVIOUS
<1>1. \A w \in Windows, e \in Exports :
        /\ plan[w][e] = 0 /\ shards[w][e] = 0 /\ reader.rows[w][e] = 0
        /\ Stored(w, e) = 0
  BY NoDeltaIsDelta DEF Init, NoReader, Stored
<1>2. Held(shards) = {}
  BY NoDeltaIsDelta DEF Init, Held
<1>3. reader.pc = "idle"
  BY DEF Init, NoReader
<1> QED
  BY <1>1, <1>2, <1>3 DEF Init, IInv, BatchParked, PlanExact, StoredExact, ShardsAfterCommit,
                    ShardsProjectStore, MemoryOwnsItsRows, RowsOnce, DisjointParts

\* A step that touches neither table changes nothing that is stored.
LEMMA StoredUnchanged ==
    ASSUME UNCHANGED storeVars
    PROVE  \A w \in Windows, e \in Exports : Stored(w, e)' = Stored(w, e)
BY DEF storeVars, Stored

\* A step that moves nothing but the clock, the query, the finalizer's lists or
\* rows between the two tables keeps everything except what the query gathered.
LEMMA QuietStep ==
    ASSUME IInv,
           UNCHANGED <<clientVars, commitVars, shards, mutable, closed>>,
           mode' # "up" => mode # "up",
           \A w \in Windows, e \in Exports : Stored(w, e)' = Stored(w, e)
    PROVE  /\ BatchParked' /\ PlanExact' /\ StoredExact' /\ ShardsAfterCommit'
           /\ ShardsProjectStore' /\ MemoryOwnsItsRows'
<1> USE DEF clientVars, commitVars
<1>1. BatchParked'
  BY DEF IInv, BatchParked
<1>2. PlanExact'
  BY DEF IInv, PlanExact
<1>3. StoredExact'
  BY DEF IInv, StoredExact
<1>4. ShardsAfterCommit'
  BY DEF IInv, ShardsAfterCommit
<1>5. ShardsProjectStore'
  BY DEF IInv, ShardsProjectStore
<1>6. MemoryOwnsItsRows'
  BY DEF IInv, MemoryOwnsItsRows, Held
<1> QED
  BY <1>1, <1>2, <1>3, <1>4, <1>5, <1>6

\* No Export is in the store more than once, wherever it is in its life.
LEMMA StoredAtMostOnce ==
    ASSUME TypeOK, IInv, NEW w \in Windows, NEW e \in Exports
    PROVE  Stored(w, e) \in Nat /\ Stored(w, e) <= 1
<1>1. Stored(w, e) \in Nat
  BY DEF TypeOK, WindowDeltas, Delta, Stored
<1>2. plan[w][e] <= 1
  BY DEF IInv, PlanExact
<1>3. status[e] \in {"idle", "submitted", "acked", "failed", "lost"}
  BY DEF TypeOK
<1> QED
  BY <1>1, <1>2, <1>3 DEF IInv, StoredExact

\* Evicting windows, by the cap or by finalization, only removes rows.
LEMMA EvictionShrinks ==
    ASSUME TypeOK, MemoryOwnsItsRows, NEW over,
           shards' = [w \in Windows |-> IF w \in over THEN NoDelta ELSE shards[w]],
           mutable' = mutable \ over,
           closed' \subseteq mutable \ over
    PROVE  /\ \A w \in Windows, e \in Exports : shards'[w][e] = 0 \/ shards'[w][e] = shards[w][e]
           /\ MemoryOwnsItsRows'
<1>1. \A w \in Windows : shards'[w] = IF w \in over THEN NoDelta ELSE shards[w]
  OBVIOUS
<1>2. \A w \in Windows, e \in Exports : shards'[w][e] = 0 \/ shards'[w][e] = shards[w][e]
  BY <1>1, NoDeltaIsDelta
<1>3. Held(shards)' \subseteq mutable'
  BY <1>1 DEF Held, MemoryOwnsItsRows
<1> QED
  BY <1>2, <1>3 DEF MemoryOwnsItsRows

\* Submitting an Export preserves the inductive invariant.
LEMMA ReducePreserves ==
    ASSUME TypeOK, IInv, NEW x \in Exports, Reduce(x)
    PROVE  IInv'
<1> USE DEF clientVars, commitVars, storeVars, ownVars, finalizeVars, modeVars
<1>1. /\ status[x] = "idle" /\ x \notin batch
      /\ \A e \in Exports : status'[e] = IF e = x THEN "submitted" ELSE status[e]
      /\ \A e \in Exports : e # x => points'[e] = points[e]
      /\ UNCHANGED <<dropped, commit, batch, plan, log, buckets, shards, mutable, closed,
                     reader, mode>>
  BY DEF Reduce, TypeOK, IInv, BatchParked
<1>2. \A w \in Windows, e \in Exports : Stored(w, e)' = Stored(w, e)
  BY <1>1, StoredUnchanged
<1>3. BatchParked'
  BY <1>1 DEF IInv, BatchParked, TypeOK
<1>4. PlanExact'
  BY <1>1 DEF IInv, PlanExact
<1>5. StoredExact'
  <2>1. \A w \in Windows : plan[w][x] = 0 /\ Stored(w, x) = 0
    BY <1>1 DEF IInv, PlanExact, StoredExact
  <2> QED
    BY <1>1, <1>2, <2>1 DEF IInv, StoredExact
<1>6. ShardsAfterCommit'
  BY <1>1 DEF IInv, ShardsAfterCommit
<1>7. ShardsProjectStore' /\ MemoryOwnsItsRows' /\ RowsOnce' /\ DisjointParts'
  BY <1>1, <1>2 DEF IInv, ShardsProjectStore, MemoryOwnsItsRows, RowsOnce, DisjointParts, Held
<1> QED
  BY <1>3, <1>4, <1>5, <1>6, <1>7 DEF IInv

\* PlanAdmission, its rollover included, preserves the inductive invariant.
LEMMA PlanAdmissionPreserves ==
    ASSUME TypeOK, IInv, NEW B \in SUBSET Exports, PlanAdmission(B)
    PROVE  IInv'
<1> USE DEF clientVars, commitVars, storeVars, ownVars, finalizeVars, modeVars
<1> DEFINE over == OverCap(ClosedAt(now))
<1>1. /\ commit = "idle" /\ commit' = "planned" /\ batch' = B /\ mode = "up"
      /\ \A e \in B : status[e] = "submitted"
      /\ UNCHANGED <<status, points, log, buckets, reader, mode>>
  BY DEF PlanAdmission
<1>2. \A w \in Windows, e \in Exports : Stored(w, e)' = Stored(w, e)
  BY <1>1, StoredUnchanged
<1>3. /\ \A w \in Windows, e \in Exports : shards'[w][e] = 0 \/ shards'[w][e] = shards[w][e]
      /\ MemoryOwnsItsRows'
  <2>1. /\ shards' = [w \in Windows |-> IF w \in over THEN NoDelta ELSE shards[w]]
        /\ mutable' = mutable \ over
        /\ closed' \subseteq mutable \ over
    BY DEF PlanAdmission, Rollover, ClosedAt, IInv, MemoryOwnsItsRows
  <2> HIDE DEF over
  <2> QED
    BY <2>1, EvictionShrinks DEF IInv
<1>4. BatchParked'
  BY <1>1 DEF BatchParked
<1>5. PlanExact'
  <2> SUFFICES ASSUME NEW w \in Windows, NEW e \in Exports
               PROVE  plan'[w][e] = IF e \in B /\ w \in points[e] \ dropped'[e] THEN 1 ELSE 0
    BY <1>1 DEF PlanExact
  <2>1. plan'[w][e] = IF e \in B /\ w \in points[e] /\ w > FinalizeCutoff(now) THEN 1 ELSE 0
    BY DEF PlanAdmission
  <2>2. e \in B => dropped'[e] = {v \in points[e] : v <= FinalizeCutoff(now)}
    BY DEF PlanAdmission
  <2>3. w \in Int /\ FinalizeCutoff(now) \in Int
    BY WindowsAreNaturals, TimesAssumption DEF FinalizeCutoff, TypeOK
  <2> QED
    BY <2>1, <2>2, <2>3
<1>6. StoredExact'
  <2>1. \A e \in Exports : status[e] = "acked" => dropped'[e] = dropped[e]
    BY <1>1 DEF PlanAdmission
  <2> QED
    BY <1>1, <1>2, <2>1 DEF IInv, StoredExact
<1>7. ShardsAfterCommit'
  BY <1>1, <1>3 DEF IInv, ShardsAfterCommit
<1>8. ShardsProjectStore'
  <2>1. \A w \in Windows, e \in Exports : Stored(w, e) \in Nat
    BY StoredAtMostOnce
  <2> QED
    BY <1>2, <1>3, <2>1 DEF IInv, ShardsProjectStore
<1>9. RowsOnce' /\ DisjointParts'
  BY <1>1 DEF IInv, RowsOnce, DisjointParts
<1> QED
  BY <1>3, <1>4, <1>5, <1>6, <1>7, <1>8, <1>9 DEF IInv

\* CommitGroup makes the whole batch durable; CommitGroupFails none of it.
LEMMA CommitGroupPreserves ==
    ASSUME TypeOK, IInv, CommitGroup
    PROVE  IInv'
<1> USE DEF clientVars, commitVars, storeVars, ownVars, finalizeVars, modeVars
<1>1. /\ commit = "planned" /\ commit' = "durable"
      /\ UNCHANGED <<status, points, dropped, batch, plan, buckets, shards, mutable, closed,
                     reader, mode>>
  BY DEF CommitGroup
<1>2. \A w \in Windows, e \in Exports :
        /\ Stored(w, e)' = Stored(w, e) + plan[w][e]
        /\ plan[w][e] \in Nat /\ Stored(w, e) \in Nat /\ shards[w][e] \in Nat
  <2> SUFFICES ASSUME NEW w \in Windows, NEW e \in Exports
               PROVE  /\ Stored(w, e)' = Stored(w, e) + plan[w][e]
                      /\ plan[w][e] \in Nat /\ Stored(w, e) \in Nat /\ shards[w][e] \in Nat
    OBVIOUS
  <2>1. log[w] \in Delta /\ plan[w] \in Delta /\ buckets[w] \in Delta /\ shards[w] \in Delta
    BY DEF TypeOK, WindowDeltas
  <2>2. log'[w] = Merge(log[w], plan[w])
    BY DEF CommitGroup
  <2>3. log'[w][e] = log[w][e] + plan[w][e]
    BY <2>1, <2>2, MergeIsDelta
  <2> QED
    BY <1>1, <2>1, <2>3 DEF Stored, Delta
<1>3. BatchParked'
  BY <1>1 DEF IInv, BatchParked
<1>4. PlanExact'
  BY <1>1 DEF IInv, PlanExact
<1>5. StoredExact'
  <2>1. \A w \in Windows, e \in Exports : status[e] # "submitted" => plan[w][e] = 0
    BY DEF IInv, PlanExact, BatchParked
  <2> QED
    BY <1>1, <1>2, <2>1 DEF IInv, StoredExact
<1>6. ShardsProjectStore'
  BY <1>1, <1>2 DEF IInv, ShardsProjectStore
<1>7. ShardsAfterCommit' /\ MemoryOwnsItsRows' /\ RowsOnce' /\ DisjointParts'
  BY <1>1 DEF IInv, ShardsAfterCommit, MemoryOwnsItsRows, RowsOnce, DisjointParts, Held
<1> QED
  BY <1>3, <1>4, <1>5, <1>6, <1>7 DEF IInv

\* A failed group transaction preserves the inductive invariant.
LEMMA CommitGroupFailsPreserves ==
    ASSUME TypeOK, IInv, CommitGroupFails
    PROVE  IInv'
<1> USE DEF clientVars, commitVars, storeVars, ownVars, finalizeVars, modeVars
<1>1. /\ commit = "planned" /\ commit' = "idle" /\ batch' = {} /\ plan' = Empty
      /\ \A e \in Exports : status'[e] = IF e \in batch THEN "failed" ELSE status[e]
      /\ UNCHANGED <<points, dropped, log, buckets, shards, mutable, closed, reader, mode>>
  BY DEF CommitGroupFails
<1>2. \A w \in Windows, e \in Exports : Stored(w, e)' = Stored(w, e)
  BY <1>1, StoredUnchanged
<1>3. \A e \in batch : status[e] = "submitted"
  BY DEF IInv, BatchParked
<1>4. BatchParked'
  BY <1>1 DEF IInv, BatchParked
<1>5. PlanExact'
  BY <1>1, NoDeltaIsDelta DEF PlanExact
<1>6. StoredExact'
  BY <1>1, <1>2, <1>3 DEF IInv, StoredExact
<1>7. ShardsAfterCommit'
  BY <1>1, <1>3 DEF IInv, ShardsAfterCommit
<1>8. ShardsProjectStore' /\ MemoryOwnsItsRows' /\ RowsOnce' /\ DisjointParts'
  BY <1>1, <1>2 DEF IInv, ShardsProjectStore, MemoryOwnsItsRows, RowsOnce, DisjointParts, Held
<1> QED
  BY <1>4, <1>5, <1>6, <1>7, <1>8 DEF IInv

\* CommitAdmission folds the batch into the shards once, after its transaction.
LEMMA CommitAdmissionPreserves ==
    ASSUME TypeOK, IInv, CommitAdmission
    PROVE  IInv'
<1> USE DEF clientVars, commitVars, storeVars, ownVars, finalizeVars, modeVars
<1>1. /\ commit = "durable" /\ commit' = "idle" /\ batch' = {} /\ plan' = Empty
      /\ \A e \in Exports : status'[e] = IF e \in batch THEN "acked" ELSE status[e]
      /\ mutable' = mutable \cup Held(plan)
      /\ UNCHANGED <<points, dropped, log, buckets, closed, reader, mode>>
  BY DEF CommitAdmission
<1>2. \A w \in Windows, e \in Exports : Stored(w, e)' = Stored(w, e)
  BY <1>1, StoredUnchanged
<1>3. \A e \in batch : status[e] = "submitted"
  BY DEF IInv, BatchParked
<1>4. \A w \in Windows : /\ shards'[w] = Merge(shards[w], plan[w])
                         /\ shards[w] \in Delta /\ plan[w] \in Delta
  BY DEF CommitAdmission, TypeOK, WindowDeltas
<1>5. \A w \in Windows, e \in Exports : shards'[w][e] = shards[w][e] + plan[w][e]
  BY <1>4, MergeIsDelta
<1>6. \A w \in Windows, e \in Exports : e \notin batch => plan[w][e] = 0
  BY DEF IInv, PlanExact
<1>7. \A w \in Windows, e \in Exports : shards[w][e] \in Nat /\ plan[w][e] \in Nat
  BY <1>4 DEF Delta
<1>8. BatchParked'
  BY <1>1 DEF IInv, BatchParked
<1>9. PlanExact'
  BY <1>1, NoDeltaIsDelta DEF PlanExact
<1>10. StoredExact'
  <2>1. \A w \in Windows, e \in Exports : e \in batch =>
          Stored(w, e) = IF w \in points[e] \ dropped[e] THEN 1 ELSE 0
    BY <1>1, <1>3 DEF IInv, StoredExact, PlanExact
  <2>2. \A w \in Windows, e \in Exports : status[e] = "submitted" /\ e \notin batch =>
          Stored(w, e) = 0
    BY <1>1, <1>6 DEF IInv, StoredExact
  <2> QED
    BY <1>1, <1>2, <1>3, <2>1, <2>2 DEF IInv, StoredExact
<1>11. ShardsAfterCommit'
  BY <1>1, <1>5, <1>6 DEF IInv, ShardsAfterCommit
<1>12. ShardsProjectStore'
  <2> SUFFICES ASSUME NEW w \in Windows, NEW e \in Exports
               PROVE  shards'[w][e] <= Stored(w, e)
    BY <1>2 DEF ShardsProjectStore
  <2>1. CASE e \in batch
    <3>1. shards[w][e] = 0 /\ Stored(w, e) = plan[w][e]
      BY <1>1, <1>3, <2>1 DEF IInv, ShardsAfterCommit, StoredExact
    <3> QED
      BY <1>5, <1>7, <3>1
  <2>2. CASE e \notin batch
    BY <1>5, <1>6, <1>7, <2>2 DEF IInv, ShardsProjectStore
  <2> QED
    BY <2>1, <2>2
<1>13. MemoryOwnsItsRows'
  <2>1. \A w \in Windows : w \notin Held(shards) /\ w \notin Held(plan) => shards'[w] = NoDelta
    BY <1>4 DEF Held, Merge, NoDelta
  <2>2. Held(shards)' \subseteq Held(shards) \cup Held(plan)
    BY <2>1 DEF Held
  <2> QED
    BY <1>1, <2>2 DEF IInv, MemoryOwnsItsRows
<1>14. RowsOnce' /\ DisjointParts'
  BY <1>1 DEF IInv, RowsOnce, DisjointParts
<1> QED
  BY <1>8, <1>9, <1>10, <1>11, <1>12, <1>13, <1>14 DEF IInv

\* Handing a window to the store preserves the inductive invariant.
LEMMA MarkFinalizedPreserves ==
    ASSUME TypeOK, IInv, MarkFinalized
    PROVE  IInv'
<1> USE DEF clientVars, commitVars, storeVars, ownVars, finalizeVars, modeVars
<1>1. UNCHANGED <<status, points, dropped, commit, batch, plan, log, buckets, reader, mode>>
  BY DEF MarkFinalized
<1>2. \A w \in Windows, e \in Exports : Stored(w, e)' = Stored(w, e)
  BY <1>1, StoredUnchanged
<1>3. /\ \A w \in Windows, e \in Exports : shards'[w][e] = 0 \/ shards'[w][e] = shards[w][e]
      /\ MemoryOwnsItsRows'
  <2>1. /\ shards' = [w \in Windows |-> IF w \in handover THEN NoDelta ELSE shards[w]]
        /\ mutable' = mutable \ handover
        /\ closed' \subseteq mutable \ handover
    BY DEF MarkFinalized, IInv, MemoryOwnsItsRows
  <2> QED
    BY <2>1, EvictionShrinks DEF IInv
<1>4. BatchParked'
  BY <1>1 DEF MarkFinalized, IInv, BatchParked
<1>5. PlanExact' /\ RowsOnce' /\ DisjointParts'
  BY <1>1 DEF IInv, PlanExact, RowsOnce, DisjointParts
<1>6. StoredExact'
  BY <1>1, <1>2 DEF IInv, StoredExact
<1>7. ShardsAfterCommit'
  BY <1>1, <1>3 DEF IInv, ShardsAfterCommit
<1>8. ShardsProjectStore'
  <2>1. \A w \in Windows, e \in Exports : Stored(w, e) \in Nat
    BY StoredAtMostOnce
  <2> QED
    BY <1>2, <1>3, <2>1 DEF IInv, ShardsProjectStore
<1> QED
  BY <1>3, <1>4, <1>5, <1>6, <1>7, <1>8 DEF IInv

\* A crash forgets the batch: a submitted Export is lost, durable or not.
LEMMA CrashPreserves ==
    ASSUME TypeOK, IInv, Crash
    PROVE  IInv'
<1> USE DEF clientVars, commitVars, storeVars, ownVars, finalizeVars, modeVars
<1>1. /\ commit' = "idle" /\ batch' = {} /\ plan' = Empty /\ shards' = Empty
      /\ mutable' = {} /\ closed' = {} /\ reader' = NoReader
      /\ \A e \in Exports : status'[e] = IF status[e] = "submitted" THEN "lost" ELSE status[e]
      /\ UNCHANGED <<points, dropped, log, buckets>>
  BY DEF Crash
<1>2. \A w \in Windows, e \in Exports : Stored(w, e)' = Stored(w, e)
  BY <1>1, StoredUnchanged
<1>3. \A w \in Windows, e \in Exports :
        plan'[w][e] = 0 /\ shards'[w][e] = 0 /\ reader'.rows[w][e] = 0
  BY <1>1, NoDeltaIsDelta DEF NoReader
<1>4. \A w \in Windows, e \in Exports : Stored(w, e) \in Nat /\ Stored(w, e) <= 1
  BY StoredAtMostOnce
<1>5. BatchParked'
  BY <1>1 DEF BatchParked
<1>6. PlanExact' /\ RowsOnce' /\ DisjointParts'
  <2>1. reader'.pc = "idle"
    BY <1>1 DEF NoReader
  <2> QED
    BY <1>1, <1>3, <2>1 DEF PlanExact, RowsOnce, DisjointParts
<1>7. StoredExact'
  BY <1>1, <1>2, <1>4 DEF IInv, StoredExact
<1>8. ShardsAfterCommit' /\ ShardsProjectStore'
  BY <1>2, <1>3, <1>4 DEF ShardsAfterCommit, ShardsProjectStore
<1>9. MemoryOwnsItsRows'
  BY <1>1, NoDeltaIsDelta DEF MemoryOwnsItsRows, Held
<1> QED
  BY <1>5, <1>6, <1>7, <1>8, <1>9 DEF IInv

\* Replay rebuilds the shards from the delta log while nothing is in flight.
LEMMA ReplayPreserves ==
    ASSUME TypeOK, IInv, Replay
    PROVE  IInv'
<1> USE DEF clientVars, commitVars, storeVars, ownVars, finalizeVars, modeVars
<1> DEFINE W == {w \in Held(log) : w >= MutableSince(recoverNow) /\ w > FinalizeCutoff(now)}
<1>1. /\ mode = "recovering" /\ mutable' = W
      /\ \A w \in Windows : shards'[w] = IF w \in W THEN log[w] ELSE NoDelta
      /\ UNCHANGED <<status, points, dropped, commit, batch, plan, log, buckets, closed, reader>>
  BY DEF Replay
<1>2. commit = "idle" /\ batch = {} /\ closed = {}
  BY <1>1 DEF IInv, BatchParked
<1> HIDE DEF W
<1>3. \A w \in Windows, e \in Exports : Stored(w, e)' = Stored(w, e)
  BY <1>1, StoredUnchanged
<1>4. \A w \in Windows, e \in Exports :
        /\ log[w][e] \in Nat /\ log[w][e] <= Stored(w, e)
        /\ shards'[w][e] = log[w][e] \/ shards'[w][e] = 0
  <2>1. \A w \in Windows, e \in Exports : log[w][e] \in Nat /\ buckets[w][e] \in Nat
    BY DEF TypeOK, WindowDeltas, Delta
  <2> QED
    BY <1>1, <2>1, NoDeltaIsDelta DEF Stored
<1>5. BatchParked'
  BY <1>1, <1>2 DEF BatchParked
<1>6. PlanExact' /\ RowsOnce' /\ DisjointParts'
  BY <1>1 DEF IInv, PlanExact, RowsOnce, DisjointParts
<1>7. StoredExact'
  BY <1>1, <1>3 DEF IInv, StoredExact
<1>8. ShardsAfterCommit'
  <2>1. \A w \in Windows, e \in Exports :
          status[e] \in {"idle", "submitted", "failed"} => Stored(w, e) = 0
    BY <1>2 DEF IInv, StoredExact
  <2>2. \A w \in Windows, e \in Exports :
          status[e] \in {"idle", "submitted", "failed"} => log[w][e] = 0
    BY <1>4, <2>1
  <2> QED
    BY <1>1, <1>4, <2>2 DEF ShardsAfterCommit
<1>9. ShardsProjectStore'
  <2>1. \A w \in Windows, e \in Exports : Stored(w, e) \in Nat
    BY StoredAtMostOnce
  <2> QED
    BY <1>3, <1>4, <2>1 DEF ShardsProjectStore
<1>10. MemoryOwnsItsRows'
  BY <1>1, <1>2 DEF MemoryOwnsItsRows, Held
<1> QED
  BY <1>5, <1>6, <1>7, <1>8, <1>9, <1>10 DEF IInv

\* Every step preserves the inductive invariant.
LEMMA StepIInv == TypeOK /\ IInv /\ [Next]_vars => IInv'
<1> SUFFICES ASSUME TypeOK, IInv, [Next]_vars PROVE IInv'
  OBVIOUS
<1> USE DEF clientVars, commitVars, storeVars, ownVars, finalizeVars, modeVars
<1>1. ASSUME Tick \/ ListFinalizable \/ FinalizeWindowFails \/ BeginRecover \/ UNCHANGED vars
      PROVE  IInv'
  <2>1. /\ UNCHANGED <<clientVars, commitVars, shards, mutable, closed>>
        /\ UNCHANGED storeVars /\ UNCHANGED reader
        /\ mode' # "up" => mode # "up"
    BY <1>1 DEF Tick, ListFinalizable, FinalizeWindowFails, BeginRecover, vars
  <2>2. \A w \in Windows, e \in Exports : Stored(w, e)' = Stored(w, e)
    BY <2>1, StoredUnchanged
  <2>3. RowsOnce' /\ DisjointParts'
    BY <2>1 DEF IInv, RowsOnce, DisjointParts
  <2> QED
    BY <2>1, <2>2, <2>3, QuietStep DEF IInv
<1>2. ASSUME FinalizeWindow \/ FinalizeExpired PROVE IInv'
  <2>1. PICK u \in Windows : Materialize(u)
    <3>1. CASE FinalizeWindow
      <4>1. todo \in SUBSET Nat /\ todo # {}
        BY <3>1, WindowsAreNaturals DEF FinalizeWindow, TypeOK
      <4> QED
        BY <3>1, <4>1, OldestIsLeast DEF FinalizeWindow, TypeOK
    <3>2. CASE FinalizeExpired
      <4>1. Finalizable(recoverNow) \in SUBSET Nat /\ Finalizable(recoverNow) # {}
        BY <3>2, WindowsAreNaturals DEF FinalizeExpired, Finalizable, Held
      <4> QED
        BY <3>2, <4>1, OldestIsLeast DEF FinalizeExpired, Finalizable, Held
    <3> QED
      BY <1>2, <3>1, <3>2
  <2>2. /\ UNCHANGED <<clientVars, commitVars, shards, mutable, closed>>
        /\ UNCHANGED reader /\ UNCHANGED mode
    BY <1>2 DEF FinalizeWindow, FinalizeExpired
  <2>3. \A w \in Windows, e \in Exports : Stored(w, e)' = Stored(w, e)
    BY <2>1, MaterializeKeepsStored DEF TypeOK
  <2>4. RowsOnce' /\ DisjointParts'
    BY <2>2 DEF IInv, RowsOnce, DisjointParts
  <2> QED
    BY <2>2, <2>3, <2>4, QuietStep DEF IInv
<1>3. ASSUME (\E from \in Windows : ReadMutable(from)) \/ ReadStore \/ Respond PROVE IInv'
  <2>1. /\ UNCHANGED <<clientVars, commitVars, shards, mutable, closed>>
        /\ UNCHANGED storeVars /\ UNCHANGED mode
    BY <1>3 DEF ReadMutable, ReadStore, Respond
  <2>2. \A w \in Windows, e \in Exports : Stored(w, e)' = Stored(w, e)
    BY <2>1, StoredUnchanged
  <2>3. \A w \in Windows, e \in Exports : Stored(w, e) \in Nat /\ Stored(w, e) <= 1
    BY StoredAtMostOnce
  <2>4. ASSUME NEW from \in Windows, ReadMutable(from) PROVE RowsOnce' /\ DisjointParts'
    <3> DEFINE mem == {w \in mutable : w >= from}
    <3>1. /\ \A w \in Windows : reader'.rows[w] = IF w \in mem THEN shards[w] ELSE NoDelta
          /\ reader'.storeEnd = IF mem = {} THEN MaxTime + MaxFutureSkew + 1 ELSE Oldest(mem)
      BY <2>4 DEF ReadMutable
    <3>2. \A w \in Windows, e \in Exports : shards[w][e] \in Nat /\ shards[w][e] <= 1
      BY <2>3 DEF IInv, ShardsProjectStore, TypeOK, WindowDeltas, Delta
    <3>3. RowsOnce'
      BY <3>1, <3>2, NoDeltaIsDelta DEF RowsOnce
    <3>4. mem \in SUBSET Nat
      BY WindowsAreNaturals DEF TypeOK
    <3> HIDE DEF mem
    <3>5. \A w \in mem : ~(w < reader'.storeEnd)
      <4> SUFFICES ASSUME NEW w \in mem PROVE ~(w < Oldest(mem))
        BY <3>1
      <4>1. Oldest(mem) \in Nat /\ w \in Nat /\ Oldest(mem) <= w
        BY <3>4, OldestIsLeast
      <4> QED
        BY <4>1
    <3>6. DisjointParts'
      BY <3>1, <3>5 DEF DisjointParts
    <3> QED
      BY <3>3, <3>6
  <2>5. ASSUME ReadStore PROVE RowsOnce' /\ DisjointParts'
    <3>1. /\ reader.pc = "memory" /\ reader'.pc = "answered"
          /\ \A w \in Windows :
               \/ /\ w < reader.storeEnd
                  /\ reader'.rows[w] = Merge(reader.rows[w], Merge(buckets[w], log[w]))
               \/ reader'.rows[w] = reader.rows[w]
      BY <2>5 DEF ReadStore, TypeOK
    <3>2. \A w \in Windows, e \in Exports :
            w < reader.storeEnd =>
              Merge(reader.rows[w], Merge(buckets[w], log[w]))[e] = Stored(w, e)
      <4> SUFFICES ASSUME NEW w \in Windows, NEW e \in Exports, w < reader.storeEnd
                   PROVE  Merge(reader.rows[w], Merge(buckets[w], log[w]))[e] = Stored(w, e)
        OBVIOUS
      <4>1. reader.rows[w] = NoDelta
        BY <3>1 DEF IInv, DisjointParts
      <4>2. buckets[w] \in Delta /\ log[w] \in Delta
        BY DEF TypeOK, WindowDeltas
      <4>3. /\ Merge(buckets[w], log[w]) \in Delta
            /\ Merge(buckets[w], log[w])[e] = buckets[w][e] + log[w][e]
        BY <4>2, MergeIsDelta
      <4>4. Merge(NoDelta, Merge(buckets[w], log[w]))[e] = 0 + (buckets[w][e] + log[w][e])
        BY <4>3, MergeIsDelta, NoDeltaIsDelta
      <4> QED
        BY <4>1, <4>2, <4>4 DEF Stored, Delta
    <3>3. RowsOnce'
      BY <2>3, <3>1, <3>2 DEF IInv, RowsOnce
    <3> QED
      BY <3>1, <3>3 DEF DisjointParts
  <2>6. ASSUME Respond PROVE RowsOnce' /\ DisjointParts'
    BY <2>6, NoDeltaIsDelta DEF Respond, NoReader, RowsOnce, DisjointParts
  <2>7. RowsOnce' /\ DisjointParts'
    BY <1>3, <2>4, <2>5, <2>6
  <2> QED
    BY <2>1, <2>2, <2>7, QuietStep DEF IInv
<1> QED
  BY <1>1, <1>2, <1>3, ReducePreserves, PlanAdmissionPreserves, CommitGroupPreserves,
     CommitGroupFailsPreserves, CommitAdmissionPreserves, MarkFinalizedPreserves,
     CrashPreserves, ReplayPreserves
     DEF Next, CommitLoop, FinalizeLoop, Recover

\* The inductive invariant holds: what the store, the shards and a query in
\* progress hold of an Export is decided by the Export's status and its group,
\* at every point of the commit, finalize, query and recovery code.
THEOREM Inductive == Spec => [](TypeOK /\ IInv)
<1>1. Init => TypeOK /\ IInv
  BY InitTypeOK, InitIInv
<1>2. TypeOK /\ IInv /\ [Next]_vars => TypeOK' /\ IInv'
  BY StepTypeOK, StepIInv
<1> QED
  BY <1>1, <1>2, PTL DEF Spec

-------------------------------------------------------------------------------
(* What follows.                                                           *)

\* No acknowledged Export is lost from, or doubled in, the store by any
\* interleaving of commits, finalizations, evictions, crashes and recoveries:
\* the durable-ACK contract of Writer.commit, FinalizeWindow and Recover.
THEOREM AckedAreStoredOnce == Spec => []AckedStoredOnce
<1>1. TypeOK /\ IInv => AckedStoredOnce
  BY DEF TypeOK, IInv, StoredExact, AckedStoredOnce
<1> QED
  BY <1>1, Inductive, PTL

\* The store never counts an Export twice and holds nothing of a batch whose
\* CommitGroup failed.
THEOREM NoDoubleCount == Spec => []NothingStoredTwice
<1>1. TypeOK /\ IInv => NothingStoredTwice
  BY StoredAtMostOnce DEF IInv, StoredExact, NothingStoredTwice
<1> QED
  BY <1>1, Inductive, PTL

\* Commit-then-apply: the shards are always covered by the store, so a crash
\* loses no more than what recovery can replay.
THEOREM ShardsAreProjection == Spec => []ShardsProjectStore
<1>1. TypeOK /\ IInv => ShardsProjectStore
  BY DEF IInv
<1> QED
  BY <1>1, Inductive, PTL

\* Every in-memory row belongs to a memory-owned window, through eviction,
\* finalization, crash and replay.
THEOREM OwnershipCoversMemory == Spec => []MemoryOwnsItsRows
<1>1. TypeOK /\ IInv => MemoryOwnsItsRows
  BY DEF IInv
<1> QED
  BY <1>1, Inductive, PTL

\* A query reads memory and store at two instants with finalization, eviction
\* and commits in between, and still counts no Export twice.
THEOREM QueriesNeverDoubleCount == Spec => []QueryCountsOnce
<1>1. TypeOK /\ IInv => QueryCountsOnce
  BY DEF IInv, RowsOnce, QueryCountsOnce
<1> QED
  BY <1>1, Inductive, PTL

\* No step, finalization and recovery included, lowers what the store holds of an
\* Export.
LEMMA StoreGrows ==
    ASSUME TypeOK, [Next]_vars, NEW w \in Windows, NEW e \in Exports
    PROVE  Stored(w, e)' \in Int /\ Stored(w, e) <= Stored(w, e)'
<1> USE DEF clientVars, commitVars, storeVars, ownVars, finalizeVars, modeVars
<1>1. /\ log[w] \in Delta /\ buckets[w] \in Delta /\ plan[w] \in Delta
      /\ log[w][e] \in Nat /\ buckets[w][e] \in Nat /\ plan[w][e] \in Nat
  BY DEF TypeOK, WindowDeltas, Delta
<1>2. CASE CommitGroup
  <2>1. log'[w] = Merge(log[w], plan[w]) /\ buckets' = buckets
    BY <1>2 DEF CommitGroup
  <2>2. log'[w][e] = log[w][e] + plan[w][e]
    BY <1>1, <2>1, MergeIsDelta
  <2> QED
    BY <1>1, <2>1, <2>2 DEF Stored
<1>3. CASE FinalizeWindow
  <2>1. todo \in SUBSET Nat /\ todo # {}
    BY <1>3, WindowsAreNaturals DEF FinalizeWindow, TypeOK
  <2>2. Oldest(todo) \in Windows /\ Materialize(Oldest(todo))
    BY <1>3, <2>1, OldestIsLeast DEF FinalizeWindow, TypeOK
  <2>3. Stored(w, e)' = Stored(w, e)
    BY <2>2, MaterializeKeepsStored DEF TypeOK
  <2> QED
    BY <1>1, <2>3 DEF Stored
<1>4. CASE FinalizeExpired
  <2> DEFINE due == Finalizable(recoverNow)
  <2>1. due \in SUBSET Nat /\ due # {}
    BY <1>4, WindowsAreNaturals DEF FinalizeExpired, Finalizable, Held
  <2>2. Oldest(due) \in Windows /\ Materialize(Oldest(due))
    BY <1>4, <2>1, OldestIsLeast DEF FinalizeExpired, Finalizable, Held
  <2>3. Stored(w, e)' = Stored(w, e)
    BY <2>2, MaterializeKeepsStored DEF TypeOK
  <2> QED
    BY <1>1, <2>3 DEF Stored
<1>5. CASE UNCHANGED storeVars
  BY <1>1, <1>5 DEF Stored
<1> QED
  BY <1>2, <1>3, <1>4, <1>5
     DEF Next, CommitLoop, FinalizeLoop, Recover, vars, Tick, Reduce, PlanAdmission,
         CommitGroupFails, CommitAdmission, ListFinalizable, FinalizeWindowFails,
         MarkFinalized, ReadMutable, ReadStore, Respond, Crash, BeginRecover, Replay

\* No step takes anything out of the store.
THEOREM StoreIsMonotone == Spec => StoreNeverLoses
<1>1. TypeOK /\ [Next]_vars =>
        [\A w \in Windows, e \in Exports : Stored(w, e) <= Stored(w, e)']_vars
  BY StoreGrows
<1> QED
  BY <1>1, TypeCorrect, PTL DEF Spec, StoreNeverLoses

-------------------------------------------------------------------------------
(* Completeness of queries: the inductive invariant.                       *)

\* No finalization failed and no batch was applied after its window expired.
Clean == failures = 0 /\ ~straddled

\* An acknowledged Export kept its points in the window.
Owes(w, e) == status[e] = "acked" /\ w \in points[e] \ dropped[e]

\* Whatever leaves memory or reaches the buckets has expired, and a process that
\* is not up owns and finalizes nothing.
OnlyExpiredLeave ==
    /\ \A w \in closed \cup todo \cup handover : w <= FinalizeCutoff(now)
    /\ \A w \in Windows, e \in Exports : w > FinalizeCutoff(now) => buckets[w][e] = 0
    /\ recoverNow <= now
    /\ mode # "up" => mutable = {} /\ todo = {} /\ handover = {}

\* What was acknowledged in a window that has not expired is in the shards.
FreshInMemory ==
    mode = "up" =>
        \A w \in Windows, e \in Exports :
            w > FinalizeCutoff(now) /\ Owes(w, e) => shards[w][e] >= 1

\* An owned window still has delta rows, unless it is being handed over.
OwnedHasRows == \A v \in mutable : v \in Held(log) \cup handover

\* The finalizer takes the owned windows oldest first.
OldestFirst ==
    /\ \A w \in todo, v \in mutable : v < w => v \in todo \cup handover
    /\ \A w \in handover, v \in mutable : w <= v

\* From any owned window on, all that was acknowledged is in the shards.
SuffixInMemory ==
    \A v \in mutable, w \in Windows, e \in Exports :
        v <= w /\ Owes(w, e) => shards[w][e] >= 1

\* Memory owns its windows as a suffix.
OwnedSuffix == Clean => OwnedHasRows /\ OldestFirst /\ SuffixInMemory

\* Between the two reads of a query, the store still supplies what is owed below
\* the oldest window of memory, and memory has supplied the rest.
StoreSupplies ==
    reader.pc = "memory" =>
        \A w \in Windows, e \in Exports : w >= reader.from =>
            reader.owed[w][e] <= IF w < reader.storeEnd THEN Stored(w, e)
                                                        ELSE reader.rows[w][e]

SuppliesOwed == Clean => StoreSupplies /\ (reader.pc = "answered" => Complete)

QInv == OnlyExpiredLeave /\ FreshInMemory /\ OwnedSuffix /\ SuppliesOwed

-------------------------------------------------------------------------------
(* Window arithmetic and the oldest windows.                               *)

\* The expiry cutoff is an integer, and a later clock expires no fewer windows.
LEMMA CutoffGrows ==
    ASSUME NEW s \in Nat, NEW t \in Nat, s <= t
    PROVE  /\ FinalizeCutoff(s) \in Int /\ FinalizeCutoff(t) \in Int
           /\ FinalizeCutoff(s) <= FinalizeCutoff(t)
BY TimesAssumption DEF FinalizeCutoff

\* Between the newest expired window and the oldest mutable one there is no
\* window: the two ways engine.go and recovery.go state expiry agree.
LEMMA NotExpiredIsMutable ==
    ASSUME NEW w \in Windows, NEW t \in Nat, w > FinalizeCutoff(t)
    PROVE  w >= MutableSince(t)
<1> DEFINE s == WindowSize
           k == w \div s
           a == AllowedLateness \div s
           m == t \div s
<1>1. s \in Nat \ {0} /\ AllowedLateness \in Nat /\ w \in Nat
  BY TimesAssumption, WindowsAreNaturals
<1>2. w % s = 0 /\ AllowedLateness % s = 0
  BY TimesAssumption DEF Windows
<1>3. /\ k \in Int /\ w = s * k + (w % s)
      /\ a \in Int /\ AllowedLateness = s * a + (AllowedLateness % s)
      /\ m \in Int /\ t = s * m + (t % s) /\ t % s \in 0 .. (s - 1)
  BY <1>1
<1>4. w > t - s - AllowedLateness
  BY DEF FinalizeCutoff
<1> HIDE DEF k, a, m, s
<1>5. (k + a) * s > (m - 1) * s
  BY <1>1, <1>2, <1>3, <1>4
<1>6. (k + a) * s >= m * s
  BY <1>1, <1>3, <1>5
<1>7. w >= t - (t % s) - AllowedLateness
  BY <1>1, <1>2, <1>3, <1>6
<1> QED
  BY <1>7 DEF MutableSince, WindowStart, s

\* OldestOf takes members of the set, and with a member every older one.
LEMMA OldestOfIsDownClosed ==
    ASSUME NEW S \in SUBSET Windows, NEW n \in Int
    PROVE  /\ OldestOf(S, n) \subseteq S
           /\ \A w \in OldestOf(S, n), v \in S : v < w => v \in OldestOf(S, n)
<1>1. OldestOf(S, n) \subseteq S
  BY DEF OldestOf
<1>2. ASSUME NEW w \in OldestOf(S, n), NEW v \in S, v < w
      PROVE  v \in OldestOf(S, n)
  <2> DEFINE A == {u \in S : u < v}
             B == {u \in S : u < w}
  <2>1. w \in S /\ Cardinality(B) < n
    BY DEF OldestOf
  <2>2. S \in SUBSET Nat /\ v \in Nat /\ w \in Nat
    BY <1>1, WindowsAreNaturals
  <2>3. A \in SUBSET B
    <3>1. ASSUME NEW u \in S, u < v PROVE u < w
      <4>1. u \in Nat
        BY <2>2
      <4> QED
        BY <1>2, <2>2, <3>1, <4>1
    <3> QED
      BY <3>1
  <2>4. IsFiniteSet(B)
    <3>1. B \in SUBSET (1 .. (MaxTime + MaxFutureSkew))
      BY DEF Windows
    <3>2. 1 \in Int /\ MaxTime + MaxFutureSkew \in Int
      BY TimesAssumption
    <3>3. IsFiniteSet(1 .. (MaxTime + MaxFutureSkew))
      BY <3>2, FS_Interval
    <3> QED
      BY <3>1, <3>3, FS_Subset
  <2>5. Cardinality(A) <= Cardinality(B) /\ IsFiniteSet(A)
    BY <2>3, <2>4, FS_Subset
  <2>6. Cardinality(A) \in Nat /\ Cardinality(B) \in Nat
    BY <2>4, <2>5, FS_CardinalityType
  <2>7. Cardinality(A) < n
    BY <2>1, <2>5, <2>6
  <2> QED
    BY <2>7 DEF OldestOf
<1> QED
  BY <1>1, <1>2

\* The windows the cap evicts are expired, and no owned window is older than one
\* of them without being evicted too.
LEMMA EvictsOldestExpired ==
    ASSUME TypeOK, IInv, OnlyExpiredLeave
    PROVE  /\ OverCap(ClosedAt(now)) \subseteq mutable
           /\ \A w \in ClosedAt(now) : w <= FinalizeCutoff(now)
           /\ \A w \in OverCap(ClosedAt(now)) : w <= FinalizeCutoff(now)
           /\ \A w \in OverCap(ClosedAt(now)), v \in mutable :
                v < w => v \in OverCap(ClosedAt(now))
<1> DEFINE C == ClosedAt(now)
<1>1. C \in SUBSET Windows /\ C \subseteq mutable
  BY DEF ClosedAt, TypeOK, IInv, MemoryOwnsItsRows
<1>2. \A w \in C : w <= FinalizeCutoff(now)
  BY DEF ClosedAt, OnlyExpiredLeave
<1>3. \A v \in mutable : v <= FinalizeCutoff(now) => v \in C
  BY DEF ClosedAt
<1>4. FinalizeCutoff(now) \in Int /\ mutable \in SUBSET Nat
  BY CutoffGrows, WindowsAreNaturals DEF TypeOK
<1>5. Cardinality(C) - MaxClosedWindows \in Int
  <2>1. IsFiniteSet(C)
    <3>1. C \in SUBSET (1 .. (MaxTime + MaxFutureSkew))
      BY <1>1 DEF Windows
    <3>2. IsFiniteSet(1 .. (MaxTime + MaxFutureSkew))
      BY TimesAssumption, FS_Interval
    <3> QED
      BY <3>1, <3>2, FS_Subset
  <2>2. Cardinality(C) \in Nat
    BY <2>1, FS_CardinalityType
  <2> QED
    BY <2>2, CapsAssumption
<1> HIDE DEF C
<1>6. /\ OverCap(C) \subseteq C
      /\ \A w \in OverCap(C), v \in C : v < w => v \in OverCap(C)
  BY <1>1, <1>5, OldestOfIsDownClosed DEF OverCap
<1>7. ASSUME NEW w \in OverCap(C), NEW v \in mutable, v < w PROVE v \in OverCap(C)
  <2>1. w \in mutable /\ w <= FinalizeCutoff(now)
    BY <1>1, <1>2, <1>6
  <2>2. v <= FinalizeCutoff(now)
    BY <1>4, <1>7, <2>1
  <2> QED
    BY <1>3, <1>6, <1>7, <2>2
<1>8. OverCap(C) \subseteq mutable /\ \A w \in OverCap(C) : w <= FinalizeCutoff(now)
  BY <1>1, <1>2, <1>6
<1> QED
  BY <1>2, <1>7, <1>8 DEF C

-------------------------------------------------------------------------------
(* Each part is preserved by every step.                                   *)

\* Only CommitAdmission acknowledges: after any other step, what is owed was
\* owed before.
LEMMA OnlyCommitOwesMore ==
    ASSUME TypeOK, IInv, [Next]_vars, NEW w \in Windows, NEW e \in Exports, Owes(w, e)'
    PROVE  \/ Owes(w, e)
           \/ CommitAdmission /\ e \in batch /\ w \in points[e] \ dropped[e]
<1> USE DEF clientVars, commitVars, storeVars, ownVars, finalizeVars, modeVars
<1>1. status'[e] = "acked" /\ w \in points'[e] \ dropped'[e]
  BY DEF Owes
<1>2. CASE UNCHANGED clientVars
  BY <1>1, <1>2 DEF Owes
<1>3. ASSUME NEW x \in Exports, Reduce(x) PROVE Owes(w, e)
  <2>1. e # x
    BY <1>1, <1>3 DEF Reduce, TypeOK
  <2> QED
    BY <1>1, <1>3, <2>1 DEF Reduce, Owes, TypeOK
<1>4. ASSUME NEW B \in SUBSET Exports, PlanAdmission(B) PROVE Owes(w, e)
  <2>1. status' = status /\ points' = points /\ e \notin B
    BY <1>1, <1>4 DEF PlanAdmission
  <2>2. dropped'[e] = dropped[e]
    BY <1>4, <2>1 DEF PlanAdmission
  <2> QED
    BY <1>1, <2>1, <2>2 DEF Owes
<1>5. CASE CommitGroupFails
  <2>1. /\ status'[e] = IF e \in batch THEN "failed" ELSE status[e]
        /\ points' = points /\ dropped' = dropped
    BY <1>5 DEF CommitGroupFails
  <2> QED
    BY <1>1, <2>1 DEF Owes
<1>6. CASE CommitAdmission
  <2>1. /\ status'[e] = IF e \in batch THEN "acked" ELSE status[e]
        /\ points' = points /\ dropped' = dropped
    BY <1>6 DEF CommitAdmission
  <2> QED
    BY <1>1, <1>6, <2>1 DEF Owes
<1>7. CASE Crash
  <2>1. /\ status'[e] = IF status[e] = "submitted" THEN "lost" ELSE status[e]
        /\ points' = points /\ dropped' = dropped
    BY <1>7 DEF Crash
  <2> QED
    BY <1>1, <2>1 DEF Owes
<1> QED
  BY <1>2, <1>3, <1>4, <1>5, <1>6, <1>7
     DEF Next, CommitLoop, FinalizeLoop, Recover, vars, Tick, CommitGroup, ListFinalizable,
         FinalizeWindow, FinalizeWindowFails, MarkFinalized, ReadMutable, ReadStore, Respond,
         BeginRecover, FinalizeExpired, Replay

\* A finalization moves rows of an expired window only.
LEMMA MaterializeExpired ==
    ASSUME TypeOK, OnlyExpiredLeave, NEW u \in Windows, u <= FinalizeCutoff(now), Materialize(u)
    PROVE  \A w \in Windows, e \in Exports : w > FinalizeCutoff(now) => buckets'[w][e] = 0
<1> SUFFICES ASSUME NEW w \in Windows, NEW e \in Exports, w > FinalizeCutoff(now)
             PROVE  buckets'[w][e] = 0
  OBVIOUS
<1>1. w # u
  BY WindowsAreNaturals, CutoffGrows DEF TypeOK
<1>2. buckets'[w] = buckets[w]
  BY <1>1 DEF Materialize, TypeOK, WindowDeltas
<1> QED
  BY <1>2 DEF OnlyExpiredLeave

\* Only expired windows leave memory or reach the buckets, whatever the step.
LEMMA StepOnlyExpired ==
    ASSUME TypeOK, IInv, OnlyExpiredLeave, [Next]_vars
    PROVE  OnlyExpiredLeave'
<1> USE DEF clientVars, commitVars, storeVars, ownVars, finalizeVars, modeVars
<1> DEFINE Listed == \A w \in closed \cup todo \cup handover : w <= FinalizeCutoff(now)
           Unbucketed == \A w \in Windows, e \in Exports :
                            w > FinalizeCutoff(now) => buckets[w][e] = 0
           DownEmpty == mode # "up" => mutable = {} /\ todo = {} /\ handover = {}
<1>a. OnlyExpiredLeave <=> Listed /\ Unbucketed /\ recoverNow <= now /\ DownEmpty
  BY DEF OnlyExpiredLeave
<1>b. OnlyExpiredLeave' <=> Listed' /\ Unbucketed' /\ recoverNow' <= now' /\ DownEmpty'
  BY DEF OnlyExpiredLeave
<1>c. now \in Nat /\ recoverNow \in Nat /\ todo \in SUBSET Windows /\ Windows \in SUBSET Nat
  BY WindowsAreNaturals DEF TypeOK
<1>d. FinalizeCutoff(now) \in Int
  BY <1>c, CutoffGrows
<1>e. ASSUME UNCHANGED <<now, buckets>> PROVE Unbucketed'
  BY <1>a, <1>e DEF FinalizeCutoff
<1>f. ASSUME UNCHANGED now, closed' \cup todo' \cup handover' \subseteq closed \cup todo \cup handover
      PROVE  Listed'
  BY <1>a, <1>f DEF FinalizeCutoff
<1>1. CASE Tick
  <2>1. now' = now + 1 /\ UNCHANGED <<closed, todo, handover, buckets, recoverNow, mode, mutable>>
    BY <1>1 DEF Tick
  <2>2. FinalizeCutoff(now') \in Int /\ FinalizeCutoff(now) <= FinalizeCutoff(now')
    BY <1>c, <2>1, CutoffGrows
  <2>3. closed \cup todo \cup handover \in SUBSET Nat
    BY <1>c DEF TypeOK
  <2>4. Listed'
    BY <1>a, <1>d, <2>1, <2>2, <2>3
  <2>5. Unbucketed'
    BY <1>a, <1>c, <1>d, <2>1, <2>2
  <2>6. recoverNow' <= now' /\ DownEmpty'
    BY <1>a, <1>c, <2>1
  <2> QED
    BY <1>b, <2>4, <2>5, <2>6
<1>2. ASSUME NEW B \in SUBSET Exports, PlanAdmission(B) PROVE OnlyExpiredLeave'
  <2>1. /\ closed' \subseteq ClosedAt(now) /\ mode' = "up"
        /\ UNCHANGED <<now, todo, handover, buckets, recoverNow>>
    BY <1>2 DEF PlanAdmission, Rollover
  <2>2. Listed'
    BY <1>a, <2>1, EvictsOldestExpired DEF FinalizeCutoff
  <2> QED
    BY <1>a, <1>b, <1>e, <2>1, <2>2
<1>3. CASE CommitAdmission
  <2>1. mode = "up"
    BY <1>3 DEF CommitAdmission, IInv, BatchParked
  <2>2. UNCHANGED <<now, closed, todo, handover, buckets, recoverNow, mode>>
    BY <1>3 DEF CommitAdmission
  <2> QED
    BY <1>a, <1>b, <1>e, <1>f, <2>1, <2>2
<1>4. CASE ListFinalizable
  <2>1. /\ mode = "up" /\ todo' = OldestOf(Finalizable(now), FinalizePerPass)
        /\ UNCHANGED <<now, closed, handover, buckets, recoverNow, mode>>
    BY <1>4 DEF ListFinalizable
  <2>2. todo' \subseteq Finalizable(now)
    BY <2>1 DEF OldestOf
  <2>3. Listed'
    BY <1>a, <2>1, <2>2 DEF Finalizable, FinalizeCutoff
  <2> QED
    BY <1>a, <1>b, <1>e, <2>1, <2>3
<1>5. CASE FinalizeWindow
  <2>1. /\ mode = "up" /\ handover' = {Oldest(todo)} /\ todo' = todo \ {Oldest(todo)}
        /\ Materialize(Oldest(todo)) /\ todo # {}
        /\ UNCHANGED <<now, closed, recoverNow, mode>>
    BY <1>5 DEF FinalizeWindow
  <2>2. Oldest(todo) \in todo
    BY <1>c, <2>1, OldestIsLeast
  <2>3. Oldest(todo) \in Windows /\ Oldest(todo) <= FinalizeCutoff(now)
    BY <1>a, <1>c, <2>2
  <2>4. Listed'
    BY <1>f, <2>1, <2>2
  <2>5. Unbucketed'
    BY <2>1, <2>3, MaterializeExpired DEF FinalizeCutoff
  <2> QED
    BY <1>a, <1>b, <2>1, <2>4, <2>5
<1>6. CASE FinalizeExpired
  <2> DEFINE due == Finalizable(recoverNow)
  <2>1. /\ Materialize(Oldest(due)) /\ due # {}
        /\ UNCHANGED <<now, closed, todo, handover, recoverNow, mode, mutable>>
    BY <1>6 DEF FinalizeExpired
  <2>2. due \in SUBSET Nat /\ due \in SUBSET Windows
    <3>1. due \in SUBSET Windows
      BY DEF Finalizable, Held
    <3> QED
      BY <1>c, <3>1
  <2>3. \A w \in due : w <= FinalizeCutoff(recoverNow)
    BY DEF Finalizable
  <2> HIDE DEF due
  <2>4. Oldest(due) \in due
    BY <2>1, <2>2, OldestIsLeast
  <2>5. FinalizeCutoff(recoverNow) \in Int /\ FinalizeCutoff(recoverNow) <= FinalizeCutoff(now)
    BY <1>a, <1>c, CutoffGrows
  <2>6. Oldest(due) <= FinalizeCutoff(now) /\ Oldest(due) \in Windows
    <3>1. /\ Oldest(due) \in Nat /\ Oldest(due) \in Windows
          /\ Oldest(due) <= FinalizeCutoff(recoverNow)
      BY <2>2, <2>3, <2>4
    <3> QED
      BY <1>d, <2>5, <3>1
  <2>7. Unbucketed'
    BY <2>1, <2>6, MaterializeExpired DEF FinalizeCutoff
  <2> QED
    BY <1>a, <1>b, <1>f, <2>1, <2>7
<1>7. ASSUME FinalizeWindowFails \/ MarkFinalized PROVE OnlyExpiredLeave'
  <2>1. /\ closed' \subseteq closed /\ todo' \subseteq todo /\ handover' \subseteq handover
        /\ mutable' \subseteq mutable
        /\ UNCHANGED <<now, buckets, recoverNow, mode>>
    BY <1>7 DEF FinalizeWindowFails, MarkFinalized
  <2>2. Listed'
    BY <1>f, <2>1
  <2>3. DownEmpty'
    BY <1>a, <2>1
  <2> QED
    BY <1>a, <1>b, <1>e, <2>1, <2>2, <2>3
<1>8. CASE Crash
  <2>1. /\ closed' = {} /\ todo' = {} /\ handover' = {} /\ mutable' = {} /\ recoverNow' = 0
        /\ UNCHANGED <<now, buckets>>
    BY <1>8 DEF Crash
  <2> QED
    BY <1>b, <1>c, <1>e, <2>1
<1>9. CASE BeginRecover
  <2>1. /\ mode = "down" /\ recoverNow' = now
        /\ UNCHANGED <<now, closed, todo, handover, mutable, buckets>>
    BY <1>9 DEF BeginRecover
  <2> QED
    BY <1>a, <1>b, <1>c, <1>e, <1>f, <2>1
<1>10. CASE Replay
  <2>1. mode' = "up" /\ UNCHANGED <<now, closed, todo, handover, recoverNow, buckets>>
    BY <1>10 DEF Replay
  <2> QED
    BY <1>a, <1>b, <1>e, <1>f, <2>1
<1>11. ASSUME UNCHANGED <<now, closed, todo, handover, buckets, recoverNow, mode, mutable>>
       PROVE  OnlyExpiredLeave'
  BY <1>a, <1>b, <1>e, <1>f, <1>11
<1> QED
  BY <1>1, <1>2, <1>3, <1>4, <1>5, <1>6, <1>7, <1>8, <1>9, <1>10, <1>11
     DEF Next, CommitLoop, FinalizeLoop, Recover, vars, Reduce, CommitGroup, CommitGroupFails,
         ReadMutable, ReadStore, Respond

\* Nothing acknowledged in a window that has not expired leaves the shards, and
\* recovery replays it.
LEMMA StepFresh ==
    ASSUME TypeOK, IInv, OnlyExpiredLeave, FreshInMemory, [Next]_vars
    PROVE  FreshInMemory'
<1> USE DEF clientVars, commitVars, storeVars, ownVars, finalizeVars, modeVars
<1> SUFFICES ASSUME mode' = "up", NEW w \in Windows, NEW e \in Exports,
                    w > FinalizeCutoff(now'), Owes(w, e)'
             PROVE  shards'[w][e] >= 1
  BY DEF FreshInMemory, FinalizeCutoff
<1>1. /\ w \in Nat /\ now \in Nat /\ FinalizeCutoff(now) \in Int
      /\ shards[w][e] \in Nat /\ plan[w][e] \in Nat /\ log[w][e] \in Nat
  BY WindowsAreNaturals, CutoffGrows DEF TypeOK, WindowDeltas, Delta
<1>2. w > FinalizeCutoff(now)
  <2>1. now' = now \/ now' = now + 1
    BY DEF Next, CommitLoop, FinalizeLoop, Recover, vars, Tick, Reduce, PlanAdmission,
           CommitGroup, CommitGroupFails, CommitAdmission, ListFinalizable, FinalizeWindow,
           FinalizeWindowFails, MarkFinalized, ReadMutable, ReadStore, Respond, Crash,
           BeginRecover, FinalizeExpired, Replay
  <2>2. FinalizeCutoff(now') \in Int /\ FinalizeCutoff(now) <= FinalizeCutoff(now')
    BY <1>1, <2>1, CutoffGrows
  <2> QED
    BY <1>1, <2>2
<1>3. CASE CommitAdmission
  <2>1. shards'[w][e] = shards[w][e] + plan[w][e]
    BY <1>3, MergeIsDelta DEF CommitAdmission, TypeOK, WindowDeltas
  <2>2. mode = "up"
    BY <1>3 DEF CommitAdmission
  <2>3. CASE Owes(w, e)
    <3>1. shards[w][e] >= 1
      BY <1>2, <2>2, <2>3 DEF FreshInMemory
    <3> QED
      BY <1>1, <2>1, <3>1
  <2>4. CASE e \in batch /\ w \in points[e] \ dropped[e]
    <3>1. plan[w][e] = 1
      BY <2>4 DEF IInv, PlanExact
    <3> QED
      BY <1>1, <2>1, <3>1
  <2> QED
    BY <2>3, <2>4, OnlyCommitOwesMore
<1>4. CASE Replay
  <2>1. ~CommitAdmission
    BY <1>4 DEF Replay, CommitAdmission
  <2>2. Owes(w, e)
    BY <2>1, OnlyCommitOwesMore
  <2>3. Stored(w, e) = 1
    BY <2>2 DEF Owes, IInv, StoredExact
  <2>4. log[w][e] = 1
    BY <1>1, <1>2, <2>3 DEF OnlyExpiredLeave, Stored
  <2>5. log[w] # NoDelta
    BY <2>4, NoDeltaIsDelta
  <2>6. w >= MutableSince(recoverNow)
    <3>1. /\ recoverNow \in Nat /\ FinalizeCutoff(recoverNow) \in Int
          /\ FinalizeCutoff(recoverNow) <= FinalizeCutoff(now)
      BY <1>1, CutoffGrows DEF OnlyExpiredLeave, TypeOK
    <3>2. w > FinalizeCutoff(recoverNow)
      BY <1>1, <1>2, <3>1
    <3> QED
      BY <3>1, <3>2, NotExpiredIsMutable
  <2>7. shards'[w] = log[w]
    BY <1>2, <1>4, <2>5, <2>6 DEF Replay, Held
  <2> QED
    BY <2>4, <2>7
<1>5. ASSUME ~CommitAdmission, mode = "up", shards'[w] = shards[w]
      PROVE  shards'[w][e] >= 1
  <2>1. Owes(w, e)
    BY <1>5, OnlyCommitOwesMore
  <2> QED
    BY <1>2, <1>5, <2>1 DEF FreshInMemory
<1>6. ASSUME NEW B \in SUBSET Exports, PlanAdmission(B) PROVE shards'[w][e] >= 1
  <2>1. w \notin OverCap(ClosedAt(now))
    BY <1>1, <1>2, EvictsOldestExpired
  <2>2. shards'[w] = shards[w] /\ mode = "up" /\ ~CommitAdmission
    BY <1>6, <2>1 DEF PlanAdmission, Rollover, CommitAdmission
  <2> QED
    BY <1>5, <2>2
<1>7. CASE MarkFinalized
  <2>1. w \notin handover
    BY <1>1, <1>2 DEF OnlyExpiredLeave
  <2>2. shards'[w] = shards[w] /\ mode = "up" /\ UNCHANGED status
    BY <1>7, <2>1 DEF MarkFinalized
  <2>3. Owes(w, e)
    BY <1>7, OnlyCommitOwesMore DEF MarkFinalized, Owes
  <2> QED
    BY <1>2, <2>2, <2>3 DEF FreshInMemory
<1>8. ASSUME UNCHANGED <<shards, mode>>, ~CommitAdmission PROVE shards'[w][e] >= 1
  BY <1>5, <1>8
<1> QED
  BY <1>3, <1>4, <1>6, <1>7, <1>8
     DEF Next, CommitLoop, FinalizeLoop, Recover, vars, Tick, Reduce, CommitGroup,
         CommitGroupFails, ListFinalizable, FinalizeWindow,
         FinalizeWindowFails, ReadMutable, ReadStore, Respond, Crash,
         BeginRecover, FinalizeExpired

\* A failure or a straddling batch is never forgotten.
LEMMA CleanWasClean ==
    ASSUME TypeOK, [Next]_vars, Clean'
    PROVE  Clean
<1> USE DEF clientVars, commitVars, storeVars, ownVars, finalizeVars, modeVars
<1>1. failures' = failures \/ failures' = failures + 1
  BY DEF Next, CommitLoop, FinalizeLoop, Recover, vars, Tick, Reduce, PlanAdmission,
         CommitGroup, CommitGroupFails, CommitAdmission, ListFinalizable, FinalizeWindow,
         FinalizeWindowFails, MarkFinalized, ReadMutable, ReadStore, Respond, Crash,
         BeginRecover, FinalizeExpired, Replay
<1>2. straddled => straddled'
  <2>1. CASE CommitAdmission
    BY <2>1, Zenon DEF CommitAdmission
  <2>2. CASE UNCHANGED straddled
    BY <2>2
  <2> QED
    BY <2>1, <2>2
       DEF Next, CommitLoop, FinalizeLoop, Recover, vars, Tick, Reduce, PlanAdmission,
           CommitGroup, CommitGroupFails, ListFinalizable, FinalizeWindow,
           FinalizeWindowFails, MarkFinalized, ReadMutable, ReadStore, Respond, Crash,
           BeginRecover, FinalizeExpired, Replay
<1>3. failures = 0
  BY <1>1 DEF Clean, TypeOK
<1> QED
  BY <1>2, <1>3 DEF Clean

\* A batch applied in time: its windows have not expired and their delta rows are
\* still in the log.
LEMMA TimelyBatchIsLogged ==
    ASSUME TypeOK, IInv, OnlyExpiredLeave, CommitAdmission, ~straddled'
    PROVE  \A v \in Held(plan) : v > FinalizeCutoff(now) /\ v \in Held(log)
<1> SUFFICES ASSUME NEW v \in Held(plan)
             PROVE  v > FinalizeCutoff(now) /\ v \in Held(log)
  OBVIOUS
<1>1. v \in Windows /\ plan[v] # NoDelta
  BY DEF Held
<1>2. v > FinalizeCutoff(now)
  <2>1. ~(v <= FinalizeCutoff(now))
    BY Zenon DEF CommitAdmission
  <2> QED
    BY <1>1, <2>1, WindowsAreNaturals, CutoffGrows DEF TypeOK
<1>3. PICK e \in Exports : plan[v][e] # 0
  BY <1>1 DEF TypeOK, WindowDeltas, Delta, NoDelta
<1>4. plan[v][e] = 1 /\ status[e] = "submitted" /\ commit = "durable"
  BY <1>1, <1>3 DEF IInv, PlanExact, BatchParked, CommitAdmission
<1>5. Stored(v, e) = 1
  BY <1>1, <1>4 DEF IInv, StoredExact
<1>6. log[v][e] = 1
  BY <1>1, <1>2, <1>5 DEF OnlyExpiredLeave, Stored, TypeOK, WindowDeltas, Delta
<1>7. v \in Held(log)
  BY <1>1, <1>6, NoDeltaIsDelta DEF Held
<1> QED
  BY <1>2, <1>7

\* Memory keeps owning a suffix of the windows: eviction and finalization take
\* the oldest, and a new batch or a replay adds only windows above the cutoff.
LEMMA StepOwnedSuffix ==
    ASSUME TypeOK, TypeOK', IInv, OnlyExpiredLeave, FreshInMemory', OwnedSuffix, [Next]_vars
    PROVE  OwnedSuffix'
<1> USE DEF clientVars, commitVars, storeVars, ownVars, finalizeVars, modeVars
<1> SUFFICES ASSUME Clean' PROVE OwnedHasRows' /\ OldestFirst' /\ SuffixInMemory'
  BY DEF OwnedSuffix
<1>a. OwnedHasRows /\ OldestFirst /\ SuffixInMemory
  BY CleanWasClean DEF OwnedSuffix
<1>b. /\ mutable \in SUBSET Nat /\ todo \in SUBSET Nat /\ handover \in SUBSET Nat
      /\ Windows \in SUBSET Nat /\ mutable \in SUBSET Windows
      /\ FinalizeCutoff(now) \in Int
  BY WindowsAreNaturals, CutoffGrows DEF TypeOK
<1>c. \A w \in Windows, e \in Exports : Owes(w, e)' /\ ~CommitAdmission => Owes(w, e)
  BY OnlyCommitOwesMore
<1>d. ASSUME mutable' \subseteq mutable, todo' = todo, handover' = handover,
             \A v \in Windows : v \in Held(log) => v \in Held(log')
      PROVE  OwnedHasRows' /\ OldestFirst'
  <2>1. OwnedHasRows'
    BY <1>a, <1>b, <1>d DEF OwnedHasRows, Held
  <2>2. OldestFirst'
    BY <1>a, <1>d DEF OldestFirst
  <2> QED
    BY <2>1, <2>2
<1>e. ASSUME mutable' \subseteq mutable, ~CommitAdmission,
             \A w \in Windows, v \in mutable' : v <= w => shards'[w] = shards[w]
      PROVE  SuffixInMemory'
  BY <1>a, <1>c, <1>e DEF SuffixInMemory
<1>1. ASSUME UNCHANGED <<shards, mutable, todo, handover, log>>, ~CommitAdmission
      PROVE  OwnedHasRows' /\ OldestFirst' /\ SuffixInMemory'
  BY <1>d, <1>e, <1>1
<1>2. ASSUME NEW B \in SUBSET Exports, PlanAdmission(B)
      PROVE  OwnedHasRows' /\ OldestFirst' /\ SuffixInMemory'
  <2> DEFINE over == OverCap(ClosedAt(now))
  <2>1. /\ \A w \in Windows : shards'[w] = IF w \in over THEN NoDelta ELSE shards[w]
        /\ mutable' = mutable \ over /\ UNCHANGED <<todo, handover, log>>
        /\ ~CommitAdmission
    BY <1>2 DEF PlanAdmission, Rollover, CommitAdmission
  <2>2. \A w \in over, v \in mutable : v < w => v \in over
    BY EvictsOldestExpired
  <2> HIDE DEF over
  <2>3. \A w \in Windows, v \in mutable' : v <= w => shards'[w] = shards[w]
    BY <1>b, <2>1, <2>2
  <2> QED
    BY <1>d, <1>e, <2>1, <2>3
<1>3. CASE CommitGroup
  <2>1. /\ UNCHANGED <<shards, mutable, todo, handover>> /\ ~CommitAdmission
        /\ \A w \in Windows : log'[w] = Merge(log[w], plan[w])
    BY <1>3 DEF CommitGroup, CommitAdmission
  <2>2. ASSUME NEW v \in Windows, v \in Held(log) PROVE v \in Held(log')
    <3>1. log[v] \in Delta /\ plan[v] \in Delta
      BY DEF TypeOK, WindowDeltas
    <3>2. PICK e \in Exports : log[v][e] # 0
      BY <2>2, <3>1 DEF Held, Delta, NoDelta
    <3>3. log'[v][e] = log[v][e] + plan[v][e]
      BY <2>1, <3>1, MergeIsDelta
    <3>4. log'[v][e] # 0
      BY <3>1, <3>2, <3>3 DEF Delta
    <3> QED
      BY <3>4, NoDeltaIsDelta DEF Held
  <2> QED
    BY <1>d, <1>e, <2>1, <2>2
<1>4. CASE CommitAdmission
  <2>1. mutable' = mutable \cup Held(plan) /\ UNCHANGED <<todo, handover, log, mode, now>>
    BY <1>4 DEF CommitAdmission
  <2>2. \A v \in Held(plan) : v \in Windows /\ v > FinalizeCutoff(now) /\ v \in Held(log)
    BY <1>4, TimelyBatchIsLogged DEF Clean, Held
  <2>3. OwnedHasRows'
    BY <1>a, <2>1, <2>2 DEF OwnedHasRows, Held
  <2>4. \A w \in todo \cup handover, v \in Held(plan) : w < v
    <3> SUFFICES ASSUME NEW w \in todo \cup handover, NEW v \in Held(plan) PROVE w < v
      OBVIOUS
    <3>1. w <= FinalizeCutoff(now) /\ w \in Nat /\ v \in Nat
      BY <1>b, <2>2 DEF OnlyExpiredLeave
    <3> QED
      BY <1>b, <2>2, <3>1
  <2>5. OldestFirst'
    <3>1. ASSUME NEW w \in todo, NEW v \in mutable', v < w PROVE v \in todo \cup handover
      <4>1. v \in mutable
        BY <1>b, <2>1, <2>2, <2>4, <3>1
      <4> QED
        BY <1>a, <3>1, <4>1 DEF OldestFirst
    <3>2. ASSUME NEW w \in handover, NEW v \in mutable' PROVE w <= v
      BY <1>a, <1>b, <2>1, <2>2, <2>4 DEF OldestFirst
    <3> QED
      BY <2>1, <3>1, <3>2 DEF OldestFirst
  <2>6. SuffixInMemory'
    <3> SUFFICES ASSUME NEW v \in mutable', NEW w \in Windows, NEW e \in Exports,
                        v <= w, Owes(w, e)'
                 PROVE  shards'[w][e] >= 1
      BY DEF SuffixInMemory
    <3>1. /\ shards'[w][e] = shards[w][e] + plan[w][e]
          /\ shards[w][e] \in Nat /\ plan[w][e] \in Nat
      <4>1. /\ shards'[w] = Merge(shards[w], plan[w])
            /\ shards[w] \in Delta /\ plan[w] \in Delta
        BY <1>4 DEF CommitAdmission, TypeOK, WindowDeltas
      <4>2. shards'[w][e] = shards[w][e] + plan[w][e]
        BY <4>1, MergeIsDelta
      <4> QED
        BY <4>1, <4>2 DEF Delta
    <3>2. CASE v \in Held(plan)
      <4>1. w > FinalizeCutoff(now') /\ mode' = "up"
        BY <1>4, <1>b, <2>1, <2>2, <3>2 DEF IInv, BatchParked, CommitAdmission
      <4> QED
        BY <4>1 DEF FreshInMemory, FinalizeCutoff
    <3>3. CASE v \in mutable /\ Owes(w, e)
      <4>1. shards[w][e] >= 1
        BY <1>a, <3>3 DEF SuffixInMemory
      <4> QED
        BY <3>1, <4>1
    <3>4. CASE e \in batch /\ w \in points[e] \ dropped[e]
      <4>1. plan[w][e] = 1
        BY <3>4 DEF IInv, PlanExact
      <4> QED
        BY <3>1, <4>1
    <3> QED
      BY <2>1, <3>2, <3>3, <3>4, OnlyCommitOwesMore
  <2> QED
    BY <2>3, <2>5, <2>6
<1>5. CASE ListFinalizable
  <2>1. /\ UNCHANGED <<shards, mutable, handover, log>> /\ handover = {}
        /\ todo' = OldestOf(Finalizable(now), FinalizePerPass)
        /\ UNCHANGED status
    BY <1>5 DEF ListFinalizable
  <2>2. Finalizable(now) \in SUBSET Windows /\ FinalizePerPass \in Int
    BY CapsAssumption DEF Finalizable, Held
  <2>3. /\ todo' \subseteq Finalizable(now)
        /\ \A w \in todo', v \in Finalizable(now) : v < w => v \in todo'
    BY <2>1, <2>2, OldestOfIsDownClosed
  <2>4. ASSUME NEW w \in todo', NEW v \in mutable, v < w PROVE v \in todo'
    <3>1. w <= FinalizeCutoff(now) /\ w \in Nat /\ v \in Nat
      BY <1>b, <2>2, <2>3 DEF Finalizable
    <3>2. v \in Held(log) /\ v <= FinalizeCutoff(now)
      BY <1>a, <1>b, <2>1, <2>4, <3>1 DEF OwnedHasRows
    <3> QED
      BY <2>3, <2>4, <3>2 DEF Finalizable
  <2>5. OwnedHasRows' /\ OldestFirst'
    BY <1>a, <2>1, <2>4 DEF OwnedHasRows, OldestFirst, Held
  <2>6. SuffixInMemory'
    BY <1>a, <2>1, <1>5 DEF SuffixInMemory, Owes, ListFinalizable
  <2> QED
    BY <2>5, <2>6
<1>6. CASE FinalizeWindow
  <2> DEFINE u == Oldest(todo)
  <2>1. /\ todo # {} /\ handover = {} /\ handover' = {u} /\ todo' = todo \ {u}
        /\ Materialize(u) /\ UNCHANGED <<shards, mutable, status, points, dropped>>
    BY <1>6 DEF FinalizeWindow
  <2>2. u \in todo /\ \A v \in todo : u <= v
    BY <1>b, <2>1, OldestIsLeast
  <2> HIDE DEF u
  <2>3. \A v \in Windows : v # u => log'[v] = log[v]
    BY <2>1 DEF Materialize, TypeOK, WindowDeltas
  <2>4. OwnedHasRows'
    BY <1>a, <1>b, <2>1, <2>3 DEF OwnedHasRows, Held
  <2>5. \A w \in todo, v \in mutable : v < w => v \in todo
    BY <1>a, <2>1 DEF OldestFirst
  <2>6. \A v \in mutable : u <= v
    BY <1>b, <2>2, <2>5
  <2>7. OldestFirst'
    BY <2>1, <2>5, <2>6 DEF OldestFirst
  <2>8. SuffixInMemory'
    BY <1>a, <2>1 DEF SuffixInMemory, Owes
  <2> QED
    BY <2>4, <2>7, <2>8
<1>7. ~FinalizeWindowFails
  BY DEF FinalizeWindowFails, Clean, TypeOK
<1>8. CASE MarkFinalized
  <2>1. /\ \A w \in Windows : shards'[w] = IF w \in handover THEN NoDelta ELSE shards[w]
        /\ mutable' = mutable \ handover /\ handover' = {}
        /\ UNCHANGED <<todo, log, status, points, dropped>>
    BY <1>8 DEF MarkFinalized
  <2>2. OwnedHasRows' /\ OldestFirst'
    BY <1>a, <2>1 DEF OwnedHasRows, OldestFirst, Held
  <2>3. \A w \in Windows, v \in mutable' : v <= w => shards'[w] = shards[w]
    <3> SUFFICES ASSUME NEW w \in Windows, NEW v \in mutable', v <= w, w \in handover
                 PROVE  FALSE
      BY <2>1
    <3>1. v \in mutable /\ v \notin handover /\ w <= v
      BY <1>a, <2>1 DEF OldestFirst
    <3>2. v \in Nat /\ w \in Nat
      BY <1>b, <3>1
    <3> QED
      BY <3>1, <3>2
  <2>4. SuffixInMemory'
    BY <1>a, <2>1, <2>3 DEF SuffixInMemory, Owes
  <2> QED
    BY <2>2, <2>4
<1>9. ASSUME Crash \/ FinalizeExpired PROVE OwnedHasRows' /\ OldestFirst' /\ SuffixInMemory'
  <2>1. mutable' = {}
    BY <1>9 DEF Crash, FinalizeExpired, OnlyExpiredLeave
  <2> QED
    BY <2>1 DEF OwnedHasRows, OldestFirst, SuffixInMemory
<1>10. CASE Replay
  <2>1. /\ \A v \in mutable' : v \in Held(log) /\ v > FinalizeCutoff(now)
        /\ todo' = {} /\ handover' = {} /\ mode' = "up" /\ UNCHANGED <<log, now>>
    BY <1>10 DEF Replay, OnlyExpiredLeave
  <2>2. OwnedHasRows' /\ OldestFirst'
    BY <2>1 DEF OwnedHasRows, OldestFirst, Held
  <2>3. \A v \in mutable', w \in Windows : v <= w => w > FinalizeCutoff(now)
    <3>1. mutable' \in SUBSET Nat
      BY <1>b, <2>1 DEF Held
    <3> QED
      BY <1>b, <2>1, <3>1
  <2>4. SuffixInMemory'
    BY <2>1, <2>3 DEF SuffixInMemory, FreshInMemory, FinalizeCutoff
  <2> QED
    BY <2>2, <2>4
<1>11. CASE CommitGroupFails
  <2>1. UNCHANGED <<shards, mutable, todo, handover, log>> /\ ~CommitAdmission
    BY <1>11 DEF CommitGroupFails, CommitAdmission
  <2> QED
    BY <1>1, <2>1
<1>12. CASE ~CommitAdmission
  BY <1>1, <1>2, <1>3, <1>5, <1>6, <1>7, <1>8, <1>9, <1>10, <1>11, <1>12
     DEF Next, CommitLoop, FinalizeLoop, Recover, vars, Tick, Reduce, ReadMutable, ReadStore,
         Respond, BeginRecover
<1> QED
  BY <1>4, <1>12

\* Between its two reads and after them a query has, or the store still holds for
\* it, everything it owes.
LEMMA StepSupplies ==
    ASSUME TypeOK, IInv, OwnedSuffix, SuppliesOwed, [Next]_vars
    PROVE  SuppliesOwed'
<1> USE DEF clientVars, commitVars, storeVars, ownVars, finalizeVars, modeVars
<1> SUFFICES ASSUME Clean' PROVE StoreSupplies' /\ (reader'.pc = "answered" => Complete')
  BY DEF SuppliesOwed
<1>a. /\ Clean /\ StoreSupplies /\ (reader.pc = "answered" => Complete)
      /\ SuffixInMemory
  BY CleanWasClean DEF OwnedSuffix, SuppliesOwed
<1>b. \A w \in Windows, e \in Exports :
        /\ reader.owed[w][e] \in Nat /\ reader.rows[w][e] \in Nat
        /\ Stored(w, e) \in Nat /\ shards[w][e] \in Nat
  BY StoredAtMostOnce DEF TypeOK, WindowDeltas, Delta
<1>1. ASSUME UNCHANGED reader PROVE StoreSupplies' /\ (reader'.pc = "answered" => Complete')
  <2>1. \A w \in Windows, e \in Exports : Stored(w, e)' \in Int /\ Stored(w, e) <= Stored(w, e)'
    BY StoreGrows
  <2>2. StoreSupplies'
    BY <1>1, <1>a, <1>b, <2>1 DEF StoreSupplies
  <2>3. reader'.pc = "answered" => Complete'
    BY <1>1, <1>a DEF Complete
  <2> QED
    BY <2>2, <2>3
<1>2. ASSUME NEW from \in Windows, ReadMutable(from)
      PROVE  StoreSupplies' /\ (reader'.pc = "answered" => Complete')
  <2> DEFINE mem == {w \in mutable : w >= from}
  <2>1. /\ reader'.pc = "memory" /\ reader'.from = from
        /\ reader'.storeEnd = IF mem = {} THEN MaxTime + MaxFutureSkew + 1 ELSE Oldest(mem)
        /\ \A w \in Windows : reader'.rows[w] = IF w \in mem THEN shards[w] ELSE NoDelta
        /\ \A w \in Windows, e \in Exports : reader'.owed[w][e] = IF Owes(w, e) THEN 1 ELSE 0
        /\ UNCHANGED <<log, buckets>>
    BY <1>2 DEF ReadMutable, Owes
  <2>2. mem \in SUBSET Nat /\ Windows \in SUBSET Nat /\ mem \in SUBSET mutable
    BY WindowsAreNaturals DEF TypeOK
  <2>3. \A w \in mutable : w >= from => w \in mem
    OBVIOUS
  <2> HIDE DEF mem
  <2>4. ASSUME NEW w \in Windows, NEW e \in Exports, w >= from, Owes(w, e)
        PROVE  1 <= IF w < reader'.storeEnd THEN Stored(w, e) ELSE reader'.rows[w][e]
    <3>1. Stored(w, e) = 1
      BY <2>4 DEF Owes, IInv, StoredExact
    <3>2. ASSUME ~(w < reader'.storeEnd) PROVE reader'.rows[w][e] >= 1
      <4>1. mem # {}
        BY <2>1, <3>2, TimesAssumption DEF Windows
      <4>2. Oldest(mem) \in mem
        BY <2>2, <4>1, OldestIsLeast
      <4>3. Oldest(mem) <= w
        <5>1. reader'.storeEnd = Oldest(mem)
          BY <2>1, <4>1
        <5>2. Oldest(mem) \in Nat /\ w \in Nat
          BY <2>2, <4>2
        <5> QED
          BY <3>2, <5>1, <5>2
      <4>4. shards[w][e] >= 1
        BY <1>a, <2>2, <2>4, <4>2, <4>3 DEF SuffixInMemory
      <4>5. w \in mutable
        BY <1>b, <4>4, NoDeltaIsDelta DEF IInv, MemoryOwnsItsRows, Held
      <4> QED
        BY <2>1, <2>3, <2>4, <4>4, <4>5
    <3>3. reader'.rows[w][e] \in Nat
      BY <1>b, <2>1, NoDeltaIsDelta
    <3> QED
      BY <3>1, <3>2, <3>3
  <2>5. StoreSupplies'
    <3> SUFFICES ASSUME NEW w \in Windows, NEW e \in Exports, w >= from
                 PROVE  reader'.owed[w][e] <=
                          IF w < reader'.storeEnd THEN Stored(w, e) ELSE reader'.rows[w][e]
      BY <2>1 DEF StoreSupplies, Stored
    <3>1. reader'.rows[w][e] \in Nat
      BY <1>b, <2>1, NoDeltaIsDelta
    <3>2. CASE Owes(w, e)
      BY <2>1, <2>4, <3>2
    <3>3. CASE ~Owes(w, e)
      BY <1>b, <2>1, <3>1, <3>3
    <3> QED
      BY <3>2, <3>3
  <2> QED
    BY <2>1, <2>5
<1>3. CASE ReadStore
  <2>1. /\ reader.pc = "memory" /\ reader'.pc = "answered"
        /\ reader'.from = reader.from /\ reader'.owed = reader.owed
        /\ \A w \in Windows :
             reader'.rows[w] = IF w >= reader.from /\ w < reader.storeEnd
                               THEN Merge(reader.rows[w], Merge(buckets[w], log[w]))
                               ELSE reader.rows[w]
    BY <1>3 DEF ReadStore, TypeOK
  <2>2. \A w \in Windows, e \in Exports :
          Merge(reader.rows[w], Merge(buckets[w], log[w]))[e] = reader.rows[w][e] + Stored(w, e)
    <3> SUFFICES ASSUME NEW w \in Windows, NEW e \in Exports
                 PROVE  Merge(reader.rows[w], Merge(buckets[w], log[w]))[e]
                          = reader.rows[w][e] + Stored(w, e)
      OBVIOUS
    <3>1. buckets[w] \in Delta /\ log[w] \in Delta /\ reader.rows[w] \in Delta
      BY DEF TypeOK, WindowDeltas
    <3>2. /\ Merge(buckets[w], log[w]) \in Delta
          /\ Merge(buckets[w], log[w])[e] = buckets[w][e] + log[w][e]
      BY <3>1, MergeIsDelta
    <3>3. Merge(reader.rows[w], Merge(buckets[w], log[w]))[e]
            = reader.rows[w][e] + Merge(buckets[w], log[w])[e]
      BY <3>1, <3>2, MergeIsDelta
    <3> QED
      BY <3>1, <3>2, <3>3 DEF Stored, Delta
  <2>3. Complete'
    <3> SUFFICES ASSUME NEW w \in Windows, NEW e \in Exports, w >= reader.from
                 PROVE  reader.owed[w][e] <= reader'.rows[w][e]
      BY <2>1 DEF Complete
    <3>1. reader.owed[w][e] <= IF w < reader.storeEnd THEN Stored(w, e) ELSE reader.rows[w][e]
      BY <1>a, <2>1 DEF StoreSupplies
    <3>2. CASE w < reader.storeEnd
      <4>1. reader'.rows[w][e] = reader.rows[w][e] + Stored(w, e)
        BY <2>1, <2>2, <3>2
      <4> QED
        BY <1>b, <3>1, <3>2, <4>1
    <3>3. CASE ~(w < reader.storeEnd)
      BY <2>1, <3>1, <3>3
    <3> QED
      BY <3>2, <3>3
  <2> QED
    BY <2>1, <2>3 DEF StoreSupplies
<1>4. ASSUME Respond \/ Crash PROVE StoreSupplies' /\ (reader'.pc = "answered" => Complete')
  <2>1. reader'.pc = "idle"
    BY <1>4 DEF Respond, Crash, NoReader
  <2> QED
    BY <2>1 DEF StoreSupplies
<1> QED
  BY <1>1, <1>2, <1>3, <1>4
     DEF Next, CommitLoop, FinalizeLoop, Recover, vars, Tick, Reduce, PlanAdmission,
         CommitGroup, CommitGroupFails, CommitAdmission, ListFinalizable, FinalizeWindow,
         FinalizeWindowFails, MarkFinalized, BeginRecover, FinalizeExpired, Replay

\* A query that began with no failed finalization and no straddling batch returns
\* everything acknowledged before it, although it reads memory and store at two
\* instants with commits, evictions, finalizations and restarts around it.
THEOREM QueriesAreComplete == Spec => []QueryComplete
<1>1. Init => QInv
  <2> SUFFICES ASSUME Init PROVE QInv
    OBVIOUS
  <2>1. OnlyExpiredLeave
    BY NoDeltaIsDelta, TimesAssumption DEF Init, OnlyExpiredLeave, FirstTick
  <2>2. FreshInMemory /\ OwnedSuffix
    BY DEF Init, FreshInMemory, Owes, OwnedSuffix, OwnedHasRows, OldestFirst, SuffixInMemory
  <2>3. SuppliesOwed
    BY DEF Init, NoReader, SuppliesOwed, StoreSupplies
  <2> QED
    BY <2>1, <2>2, <2>3 DEF QInv
<1>2. TypeOK /\ IInv /\ QInv /\ [Next]_vars => QInv'
  <2> SUFFICES ASSUME TypeOK, IInv, QInv, [Next]_vars PROVE QInv'
    OBVIOUS
  <2>1. TypeOK'
    BY StepTypeOK
  <2>2. OnlyExpiredLeave'
    BY StepOnlyExpired DEF QInv
  <2>3. FreshInMemory'
    BY StepFresh DEF QInv
  <2>4. OwnedSuffix'
    BY <2>1, <2>3, StepOwnedSuffix DEF QInv
  <2>5. SuppliesOwed'
    BY StepSupplies DEF QInv
  <2> QED
    BY <2>2, <2>3, <2>4, <2>5 DEF QInv
<1>3. QInv => QueryComplete
  BY DEF QInv, SuppliesOwed, Clean, QueryComplete
<1> QED
  BY <1>1, <1>2, <1>3, Inductive, PTL DEF Spec

-------------------------------------------------------------------------------
(* History reads from the derived tables, for every set of processes,      *)
(* series, services and windows.                                           *)

\* The kinds of the rows and of the work of a process.
RuCells == [windows : [RuWindows -> Nat], total : Nat, sketch : 0 .. 2]
RuGrid == [RuSeries \X RuWindows -> Nat]
RuPlaces == RuHours \cup {0}
RuMarker == [state : -1 .. 2, id : Nat, safe : BOOLEAN]
RuSumMarker == [state : -1 .. 4, id : Nat, src : Nat]
RuBuildRec == [at : {"no", "claim", "clear", "read", "chunks"}, hour : RuPlaces, id : Nat,
               snap : RuGrid \cup {<<>>}, todo : SUBSET RuSeries, any : BOOLEAN, safe : BOOLEAN]
RuSliceRec == [at : {"no", "clean", "read", "write"}, hour : RuPlaces, uuid : Nat, src : Nat,
               id : Nat, todo : SUBSET RuSeries, group : RuServices \cup {0}, acc : RuCells,
               pending : SUBSET ((RuServices \cup {0}) \X RuCells),
               unsafe : BOOLEAN, done : BOOLEAN]
RuProcRec == [pc : {"down", "create", "drop", "rollup", "summary", "up"}, uuid : Nat]
RuCountRec == [adds : Nat, tokens : Nat, stores : Nat]

\* Every variable that a read or a check depends on is of its kind.
RuTyped ==
    /\ ruUuid \in Nat /\ ruOwner \in Nat /\ ruTriggers \in BOOLEAN
    /\ ruBuckets \in RuGrid
    /\ ruHour \in [RuHours -> RuMarker]
    /\ ruHourly \in [RuHours \X RuSeries -> Nat]
    /\ ruSum \in [RuHours -> RuSumMarker]
    /\ ruCells \in [RuHours \X RuServices -> RuCells]
    /\ ruProc \in [RuProcs -> RuProcRec]
    /\ ruBuild \in [RuProcs -> RuBuildRec]
    /\ ruSlice \in [RuProcs -> RuSliceRec]
    /\ ruCount \in RuCountRec

\* The build has claimed its hour.
Building(p) == ruBuild[p].at \in {"clear", "read", "chunks"}

\* No two stores have one uuid, and the store that owns the derived tables has the triggers:
\* a rebuild removes both, and ensureRollupSchema sets both.
StoresOnce ==
    /\ ruUuid <= ruCount.stores /\ ruOwner <= ruCount.stores
    /\ \A p \in RuProcs : ruProc[p].uuid <= ruCount.stores
    /\ ruUuid # 0 /\ Owned => ruTriggers

\* The tokens of hours and builds were handed out, and no two builds have one.
HourTokens ==
    /\ \A h \in RuHours : /\ ruHour[h].id <= ruCount.tokens
                          /\ ruHour[h].state \in {1, 2} => ruHour[h].id > 0
    /\ \A p \in RuProcs : ruBuild[p].id <= ruCount.tokens
    /\ \A p \in RuProcs : ruBuild[p].at # "no" => ruBuild[p].hour \in RuHours
    /\ \A p \in RuProcs : ruBuild[p].at = "chunks" => ruBuild[p].snap \in RuGrid
    /\ \A p, q \in RuProcs : p # q /\ Building(p) /\ Building(q) => ruBuild[p].id # ruBuild[q].id

\* The same of summaries and slices; a build under way is the source of none of them.
SumTokens ==
    /\ \A h \in RuHours : /\ ruSum[h].id <= ruCount.tokens /\ ruSum[h].src <= ruCount.tokens
                          /\ ruHour[h].state = 1 => ruHour[h].id # ruSum[h].src
    /\ \A p \in RuProcs : ruSlice[p].id <= ruCount.tokens /\ ruSlice[p].src <= ruCount.tokens
    /\ \A p \in RuProcs : ruSlice[p].at # "no" =>
         /\ ruSlice[p].hour \in RuHours
         /\ ruHour[ruSlice[p].hour].state = 1 => ruHour[ruSlice[p].hour].id # ruSlice[p].src
    /\ \A p, q \in RuProcs : p # q /\ ruSlice[p].at # "no" /\ ruSlice[q].at # "no" =>
         ruSlice[p].id # ruSlice[q].id

\* The hourly row of s is what its buckets hold.
Rowed(h, s) == ruHourly[<<h, s>>] = PointsIn(ruBuckets, {s}, HourWindows(h))

\* A published hour has all its rows, and is safe only without a lossy one.
HourTrue(h) ==
    \A s \in RuSeries : Rowed(h, s) /\ (ruHour[h].safe /\ s \in RuLossy => ruHourly[<<h, s>>] = 0)

HoursTrue == \A h \in RuHours : ruHour[h].state = 2 => HourTrue(h)

\* A build that still has its token: its snapshot is what the buckets hold, the rows it wrote
\* are right, and the rows it has not come to are gone.
BuildTrue(p) ==
    LET b == ruBuild[p] IN
    /\ b.at = "read" => \A s \in RuSeries : ruHourly[<<b.hour, s>>] = 0
    /\ b.at = "chunks" =>
         /\ \A s \in RuSeries, w \in HourWindows(b.hour) : b.snap[<<s, w>>] = ruBuckets[<<s, w>>]
         /\ \A s \in b.todo : ruHourly[<<b.hour, s>>] = 0
         /\ \A s \in RuSeries \ b.todo :
              /\ Rowed(b.hour, s)
              /\ ruHourly[<<b.hour, s>>] > 0 => b.any /\ (b.safe => s \notin RuLossy)

BuildsTrue == \A p \in RuProcs : Building(p) /\ CheckBuild(p) => BuildTrue(p)

\* What a slice has read of v, and what it is about to write of v.
Acc(c, v) == IF c.group = v THEN c.acc ELSE NoCells
Pend(c, v) ==
    IF \E x \in c.pending : x[1] = v THEN (CHOOSE x \in c.pending : x[1] = v)[2] ELSE NoCells

\* The cells a, b and c hold together what the series T hold in the hour, and one of them
\* says so when a lossy one of T contributed.
Together(h, a, b, c, T) ==
    /\ a.total + b.total + c.total = PointsIn(ruHourly, {h}, T)
    /\ \A w \in HourWindows(h) :
         a.windows[w] + b.windows[w] + c.windows[w] = PointsIn(ruBuckets, T, {w})
    /\ \A s \in T \cap RuLossy :
         ruHourly[<<h, s>>] > 0 => a.sketch = 2 \/ b.sketch = 2 \/ c.sketch = 2

\* No lossy series of T contributed to the hour.
Plain(h, T) == \A s \in T \cap RuLossy : ruHourly[<<h, s>>] = 0

\* A published summary of a current source is complete.
SumTrue(h) ==
    /\ \A v \in RuServices : Together(h, ruCells[<<h, v>>], NoCells, NoCells, SeriesOfService(v))
    /\ ruSum[h].state = 2 => Plain(h, RuSeries)
SumsTrue == \A h \in RuHours : ruSum[h].state \in {2, 4} /\ SourceCurrent(h) => SumTrue(h)

\* Where a slice is in its round of reads and writes.
SliceShape(c) ==
    /\ c.at = "clean" => c.todo = RuSeries
    /\ c.at \in {"clean", "read"} => c.pending = {} /\ ~ c.done
    /\ c.at = "clean" => c.acc = NoCells
    /\ c.done => c.todo = {} /\ c.acc = NoCells
    /\ \A x, y \in c.pending : x = y

\* The slice has its token, and the hour it reads is the one it claimed.
SliceHolds(p) ==
    LET c == ruSlice[p] IN
    /\ ruSum[c.hour] = [state |-> 1, id |-> c.id, src |-> c.src]
    /\ ruHour[c.hour].state = 2 /\ ruHour[c.hour].id = c.src

\* The cells written, the cells pending and the cells being read hold, for every service,
\* the series that are read.
SliceTrue(p) ==
    LET c == ruSlice[p]
        D == RuSeries \ c.todo
    IN  /\ \A v \in RuServices :
             Together(c.hour, ruCells[<<c.hour, v>>], Pend(c, v), Acc(c, v),
                      D \cap SeriesOfService(v))
        /\ ~ c.unsafe => Plain(c.hour, D)

SlicesTrue ==
    \A p \in RuProcs :
        /\ SliceShape(ruSlice[p])
        /\ ruTriggers /\ ruSlice[p].at \in {"read", "write"} /\ SliceHolds(p) => SliceTrue(p)

\* The inductive invariant.  Rows and summaries may be anything while the triggers are gone:
\* then nothing reads them, and ensureRollupSchema voids every claim before it restores them.
RuInv ==
    /\ StoresOnce /\ HourTokens /\ SumTokens
    /\ ruTriggers => HoursTrue /\ BuildsTrue /\ SumsTrue
    /\ SlicesTrue

\* What a function holds in the rows S and the columns W: its total over them.
LEMMA PointsTotal ==
    ASSUME NEW f, NEW S, NEW W, IsFiniteSet(S), IsFiniteSet(W),
           \A x \in S \X W : f[x] \in Nat
    PROVE  /\ IsFiniteSet(S \X W)
           /\ PointsIn(f, S, W) = Total(f, S \X W)
           /\ PointsIn(f, S, W) \in Nat
<1>1. IsFiniteSet(S \X W)
  BY FS_Product
<1> DEFINE A == S \X W
<1> HIDE DEF A
<1>2. IsFiniteSet(A) /\ \A x \in A : f[x] \in Nat
  BY <1>1 DEF A
<1>3. MapThenSumSet(LAMBDA x : f[x], A) = Total(f, A)
  BY <1>2, SumIsTotal
<1>4. Total(f, A) \in Nat
  BY <1>2, TotalType
<1> QED
  BY <1>1, <1>3, <1>4 DEF A, PointsIn

\* Functions that agree on the rows and columns hold the same there.
LEMMA PointsSame ==
    ASSUME NEW f, NEW g, NEW S, NEW W, IsFiniteSet(S), IsFiniteSet(W),
           \A x \in S \X W : f[x] \in Nat, \A x \in S \X W : g[x] = f[x]
    PROVE  PointsIn(g, S, W) = PointsIn(f, S, W)
<1>1. \A x \in S \X W : g[x] \in Nat
  OBVIOUS
<1>2. PointsIn(f, S, W) = Total(f, S \X W)
  BY PointsTotal
<1>3. PointsIn(g, S, W) = Total(g, S \X W)
  BY <1>1, PointsTotal
<1>4. Total(g, S \X W) = Total(f, S \X W)
  BY TotalSame
<1> QED
  BY <1>2, <1>3, <1>4

\* No row holds nothing.
LEMMA PointsNone ==
    ASSUME NEW f, NEW W, IsFiniteSet(W)
    PROVE  PointsIn(f, {}, W) = 0
<1>1. IsFiniteSet({}) /\ ({} \X W) = {}
  BY FS_EmptySet
<1>2. PointsIn(f, {}, W) = Total(f, {} \X W)
  BY <1>1, PointsTotal
<1> QED
  BY <1>1, <1>2, TotalEmpty

\* No column holds nothing.
LEMMA PointsNoColumn ==
    ASSUME NEW f, NEW S, IsFiniteSet(S)
    PROVE  PointsIn(f, S, {}) = 0
<1>1. IsFiniteSet({}) /\ (S \X {}) = {}
  BY FS_EmptySet
<1>2. PointsIn(f, S, {}) = Total(f, S \X {})
  BY <1>1, PointsTotal
<1> QED
  BY <1>1, <1>2, TotalEmpty

\* Two disjoint sets of rows hold what each of them holds.
LEMMA PointsRows ==
    ASSUME NEW f, NEW S, NEW T, NEW W, IsFiniteSet(S), IsFiniteSet(T), IsFiniteSet(W),
           S \cap T = {}, \A x \in (S \cup T) \X W : f[x] \in Nat
    PROVE  /\ PointsIn(f, S, W) \in Nat /\ PointsIn(f, T, W) \in Nat
           /\ PointsIn(f, S \cup T, W) = PointsIn(f, S, W) + PointsIn(f, T, W)
<1> DEFINE A == S \X W
           B == T \X W
<1>1. (S \cup T) \X W = A \cup B /\ A \cap B = {}
  OBVIOUS
<1>2. IsFiniteSet(S \cup T)
  BY FS_Union
<1>3. PointsIn(f, S \cup T, W) = Total(f, (S \cup T) \X W)
  BY <1>2, PointsTotal
<1>4. IsFiniteSet(A) /\ PointsIn(f, S, W) = Total(f, A) /\ PointsIn(f, S, W) \in Nat
  BY PointsTotal
<1>5. IsFiniteSet(B) /\ PointsIn(f, T, W) = Total(f, B) /\ PointsIn(f, T, W) \in Nat
  BY PointsTotal
<1>6. \A x \in A \cup B : f[x] \in Nat
  OBVIOUS
<1> HIDE DEF A, B
<1>7. Total(f, A \cup B) = Total(f, A) + Total(f, B)
  BY <1>1, <1>4, <1>5, <1>6, TotalUnion
<1> QED
  BY <1>1, <1>3, <1>4, <1>5, <1>7

\* Two disjoint sets of columns hold what each of them holds.
LEMMA PointsColumns ==
    ASSUME NEW f, NEW S, NEW V, NEW W, IsFiniteSet(S), IsFiniteSet(V), IsFiniteSet(W),
           V \cap W = {}, \A x \in S \X (V \cup W) : f[x] \in Nat
    PROVE  /\ PointsIn(f, S, V) \in Nat /\ PointsIn(f, S, W) \in Nat
           /\ PointsIn(f, S, V \cup W) = PointsIn(f, S, V) + PointsIn(f, S, W)
<1> DEFINE A == S \X V
           B == S \X W
<1>1. S \X (V \cup W) = A \cup B /\ A \cap B = {}
  OBVIOUS
<1>2. IsFiniteSet(V \cup W)
  BY FS_Union
<1>3. PointsIn(f, S, V \cup W) = Total(f, S \X (V \cup W))
  BY <1>2, PointsTotal
<1>4. IsFiniteSet(A) /\ PointsIn(f, S, V) = Total(f, A) /\ PointsIn(f, S, V) \in Nat
  BY PointsTotal
<1>5. IsFiniteSet(B) /\ PointsIn(f, S, W) = Total(f, B) /\ PointsIn(f, S, W) \in Nat
  BY PointsTotal
<1>6. \A x \in A \cup B : f[x] \in Nat
  OBVIOUS
<1> HIDE DEF A, B
<1>7. Total(f, A \cup B) = Total(f, A) + Total(f, B)
  BY <1>1, <1>4, <1>5, <1>6, TotalUnion
<1> QED
  BY <1>1, <1>3, <1>4, <1>5, <1>7

\* One row and one column meet in one place.
LEMMA PointsAt ==
    ASSUME NEW f, NEW s, NEW w, f[<<s, w>>] \in Nat
    PROVE  PointsIn(f, {s}, {w}) = f[<<s, w>>]
<1>0. IsFiniteSet({s}) /\ IsFiniteSet({w})
  BY FS_Singleton
<1>1. {s} \X {w} = {<<s, w>>}
  OBVIOUS
<1>2. PointsIn(f, {s}, {w}) = Total(f, {s} \X {w})
  BY <1>0, <1>1, PointsTotal
<1> DEFINE z == <<s, w>>
<1>3. f[z] \in Nat
  OBVIOUS
<1>4. {s} \X {w} = {} \cup {z}
  BY <1>1
<1> HIDE DEF z
<1>5. Total(f, {} \cup {z}) = f[z] + Total(f, {})
  <2>1. IsFiniteSet({}) /\ z \notin {} /\ \A y \in {} \cup {z} : f[y] \in Nat
    BY <1>3, FS_EmptySet
  <2> QED
    BY <2>1, TotalAdd
<1>6. Total(f, {}) = 0
  BY TotalEmpty
<1>7. PointsIn(f, {s}, {w}) = f[z] + 0
  BY <1>2, <1>4, <1>5, <1>6
<1> QED
  BY <1>3, <1>7 DEF z

\* Where the sum is nothing, every place is empty.
LEMMA PointsZero ==
    ASSUME NEW f, NEW s, NEW W, IsFiniteSet(W), \A x \in {s} \X W : f[x] \in Nat,
           PointsIn(f, {s}, W) = 0, NEW w \in W
    PROVE  f[<<s, w>>] = 0
<1> DEFINE V == W \ {w}
           U == {w}
           S == {s}
<1>0. IsFiniteSet(V) /\ IsFiniteSet(U) /\ IsFiniteSet(S)
  <2>1. IsFiniteSet(V)
    BY FS_Subset
  <2> QED
    BY <2>1, FS_Singleton
<1>1. W = V \cup U /\ V \cap U = {}
  OBVIOUS
<1>2. \A x \in S \X (V \cup U) : f[x] \in Nat
  BY <1>1
<1>3. f[<<s, w>>] \in Nat
  OBVIOUS
<1> HIDE DEF V, U, S
<1>4. /\ PointsIn(f, S, V) \in Nat /\ PointsIn(f, S, U) \in Nat
      /\ PointsIn(f, S, V \cup U) = PointsIn(f, S, V) + PointsIn(f, S, U)
  BY <1>0, <1>1, <1>2, PointsColumns
<1>5. PointsIn(f, S, V \cup U) = 0
  BY <1>1 DEF S
<1>6. PointsIn(f, S, U) = 0
  BY <1>4, <1>5
<1>7. PointsIn(f, S, U) = f[<<s, w>>]
  BY <1>3, PointsAt DEF S, U
<1> QED
  BY <1>6, <1>7

\* One more row keeps two such sums together.
LEMMA PointsGrow ==
    ASSUME NEW f, NEW g, NEW H, NEW O, NEW R, NEW W,
           IsFiniteSet(R), IsFiniteSet(O), IsFiniteSet(H), IsFiniteSet(W), R \cap O = {},
           \A x \in (R \cup O) \X W : f[x] \in Nat, \A x \in H \X (R \cup O) : g[x] \in Nat,
           PointsIn(g, H, R) = PointsIn(f, R, W), PointsIn(g, H, O) = PointsIn(f, O, W)
    PROVE  PointsIn(g, H, R \cup O) = PointsIn(f, R \cup O, W)
<1>1. PointsIn(f, R \cup O, W) = PointsIn(f, R, W) + PointsIn(f, O, W)
  BY PointsRows
<1>2. PointsIn(g, H, R \cup O) = PointsIn(g, H, R) + PointsIn(g, H, O)
  BY PointsColumns
<1> QED
  BY <1>1, <1>2

\* The row of s, in its place of h, holds what f holds of s in W.
RowIs(g, h, f, W, s) == g[<<h, s>>] \in Nat /\ g[<<h, s>>] = PointsIn(f, {s}, W)

\* Rows that hold, each in its place of h, what their series holds add up to the series.
LEMMA PointsMerge ==
    ASSUME NEW f, NEW g, NEW h, NEW T, NEW W, IsFiniteSet(T), IsFiniteSet(W),
           \A x \in T \X W : f[x] \in Nat, \A s \in T : RowIs(g, h, f, W, s)
    PROVE  PointsIn(g, {h}, T) = PointsIn(f, T, W)
<1> DEFINE G == {U \in SUBSET T : PointsIn(g, {h}, U) = PointsIn(f, U, W)}
<1>0. IsFiniteSet({h})
  BY FS_Singleton
<1>1. {} \in G
  BY <1>0, PointsNone, PointsNoColumn
<1>5. ASSUME NEW s \in T PROVE PointsIn(g, {h}, {s}) = PointsIn(f, {s}, W)
  <2>1. g[<<h, s>>] \in Nat /\ g[<<h, s>>] = PointsIn(f, {s}, W)
    BY DEF RowIs
  <2>2. PointsIn(g, {h}, {s}) = g[<<h, s>>]
    BY ONLY <2>1, PointsAt
  <2> QED
    BY <2>1, <2>2
<1>6. \A s \in T : g[<<h, s>>] \in Nat
  BY DEF RowIs
<1>2. ASSUME NEW U \in SUBSET T, U # {}, \A x \in U : U \ {x} \in G
      PROVE  U \in G
  <2>0. PICK s \in U : TRUE
    BY <1>2
  <2> DEFINE R == U \ {s}
             O == {s}
             H == {h}
  <2>1. IsFiniteSet(R) /\ IsFiniteSet(O) /\ IsFiniteSet(H)
    <3>1. R \in SUBSET T
      OBVIOUS
    <3>2. IsFiniteSet(R)
      BY <3>1, FS_Subset
    <3> QED
      BY <3>2, FS_Singleton
  <2>8. U = R \cup O /\ R \cap O = {}
    BY <2>0
  <2>2. /\ \A x \in (R \cup O) \X W : f[x] \in Nat
        /\ \A x \in H \X (R \cup O) : g[x] \in Nat
    BY <1>6, <2>0
  <2>3. PointsIn(g, H, R) = PointsIn(f, R, W)
    BY <1>2, <2>0
  <2>4. PointsIn(g, H, O) = PointsIn(f, O, W)
    BY <1>5, <2>0
  <2>9. IsFiniteSet(W)
    OBVIOUS
  <2> HIDE DEF R, O, H
  <2>7. PointsIn(g, H, R \cup O) = PointsIn(f, R \cup O, W)
    BY ONLY <2>1, <2>2, <2>3, <2>4, <2>8, <2>9, PointsGrow
  <2> QED
    BY <2>7, <2>8 DEF H
<1> HIDE DEF G
<1>3. \A U \in SUBSET T : U # {} /\ (\A x \in U : U \ {x} \in G) => U \in G
  BY <1>2
<1>4. \A U \in SUBSET T : U \in G
  BY <1>1, <1>3, FiniteInduction
<1> QED
  BY <1>4 DEF G

\* A marker whose state alone is changed.
LEMMA MarkerState ==
    ASSUME NEW a, NEW b, NEW c, NEW x
    PROVE  /\ [[state |-> a, id |-> b, safe |-> c] EXCEPT !.state = x] =
                [state |-> x, id |-> b, safe |-> c]
           /\ [[state |-> a, id |-> b, src |-> c] EXCEPT !.state = x] =
                [state |-> x, id |-> b, src |-> c]
OBVIOUS

\* The records that stand for nothing are of their kinds.
LEMMA RuNothing ==
    /\ NoHour \in RuMarker /\ NoSum \in RuSumMarker /\ NoCells \in RuCells
    /\ NoBuild \in RuBuildRec /\ NoSlice \in RuSliceRec
    /\ [NoHour EXCEPT !.state = 0] \in RuMarker /\ [NoSum EXCEPT !.state = 0] \in RuSumMarker
    /\ [NoHour EXCEPT !.state = 0] = [state |-> 0, id |-> 0, safe |-> FALSE]
    /\ [NoSum EXCEPT !.state = 0] = [state |-> 0, id |-> 0, src |-> 0]
<1>1. NoCells \in RuCells
  BY DEF NoCells, RuCells
<1>2. NoHour \in RuMarker /\ NoSum \in RuSumMarker
  BY DEF NoHour, NoSum, RuMarker, RuSumMarker
<1>3. NoBuild \in RuBuildRec
  BY DEF NoBuild, RuBuildRec, RuPlaces
<1>4. NoSlice \in RuSliceRec
  BY <1>1 DEF NoSlice, RuSliceRec, RuPlaces
<1>5. /\ [NoHour EXCEPT !.state = 0] = [state |-> 0, id |-> 0, safe |-> FALSE]
      /\ [NoSum EXCEPT !.state = 0] = [state |-> 0, id |-> 0, src |-> 0]
  <2> DEFINE m == -1
             n == 0
             f == FALSE
  <2>1. NoHour = [state |-> m, id |-> n, safe |-> f] /\ NoSum = [state |-> m, id |-> n, src |-> n]
    BY DEF NoHour, NoSum
  <2> HIDE DEF m, n, f
  <2>2. /\ [NoHour EXCEPT !.state = n] = [state |-> n, id |-> n, safe |-> f]
        /\ [NoSum EXCEPT !.state = n] = [state |-> n, id |-> n, src |-> n]
    BY <2>1, MarkerState
  <2> QED
    BY <2>2, Zenon DEF n, f
<1> QED
  BY <1>1, <1>2, <1>3, <1>4, <1>5 DEF RuMarker, RuSumMarker

\* The changes of several fields of a build or a slice, by name: the provers see through one
\* field at a time.
BuildRow(at, hour, id, snap, left, any, safe) ==
    [at |-> at, hour |-> hour, id |-> id, snap |-> snap, todo |-> left, any |-> any, safe |-> safe]
SetPicked(r, x, y) == [r EXCEPT !.at = x, !.hour = y]
SetClaimed(r, x, y) == [r EXCEPT !.at = x, !.id = y]
SetOpened(r, x, y, z) == [r EXCEPT !.at = x, !.snap = y, !.todo = z]
SetWritten(r, x, y, z) == [r EXCEPT !.todo = x, !.any = y, !.safe = z]
SetSlice(at, hour, uuid, src, id, left) ==
    [NoSlice EXCEPT !.at = at, !.hour = hour, !.uuid = uuid, !.src = src, !.id = id, !.todo = left]
SetRead(r, x, y, z, u, v) ==
    [r EXCEPT !.todo = x, !.group = y, !.pending = z, !.unsafe = u, !.acc = v]
SetLast(r, x, y, z, u) == [r EXCEPT !.at = x, !.pending = y, !.acc = z, !.done = u]
SetFlushed(r, x, y) == [r EXCEPT !.at = x, !.pending = y]
SetPublished(r, x, y) == [r EXCEPT !.state = x, !.safe = y]
SliceRow(at, hour, uuid, src, id, left, group, acc, pending, unsafe, done) ==
    [at |-> at, hour |-> hour, uuid |-> uuid, src |-> src, id |-> id, todo |-> left,
     group |-> group, acc |-> acc, pending |-> pending, unsafe |-> unsafe, done |-> done]

\* A build that a claim, a snapshot or a chunk changes in several fields.
LEMMA BuildFields ==
    ASSUME NEW r \in RuBuildRec, NEW x, NEW y, NEW z
    PROVE  /\ SetClaimed(r, x, y) = BuildRow(x, r.hour, y, r.snap, r.todo, r.any, r.safe)
           /\ SetPicked(r, x, y) = BuildRow(x, y, r.id, r.snap, r.todo, r.any, r.safe)
           /\ SetOpened(r, x, y, z) = BuildRow(x, r.hour, r.id, y, z, r.any, r.safe)
           /\ SetWritten(r, x, y, z) = BuildRow(r.at, r.hour, r.id, r.snap, x, y, z)
<1> DEFINE q == [r EXCEPT !.at = x]
           t == [q EXCEPT !.snap = y]
           u == [r EXCEPT !.todo = x]
           v == [u EXCEPT !.any = y]
<1>1. SetClaimed(r, x, y) = [q EXCEPT !.id = y] /\ SetPicked(r, x, y) = [q EXCEPT !.hour = y]
  BY DEF SetClaimed, SetPicked
<1>2. SetOpened(r, x, y, z) = [t EXCEPT !.todo = z]
  BY DEF SetOpened
<1>3. SetWritten(r, x, y, z) = [v EXCEPT !.safe = z]
  BY DEF SetWritten
<1>4. q = BuildRow(x, r.hour, r.id, r.snap, r.todo, r.any, r.safe)
  BY DEF RuBuildRec, BuildRow
<1>5. u = BuildRow(r.at, r.hour, r.id, r.snap, x, r.any, r.safe)
  BY DEF RuBuildRec, BuildRow
<1> HIDE DEF q, u
<1>6. t = BuildRow(x, r.hour, r.id, y, r.todo, r.any, r.safe)
  BY <1>4 DEF BuildRow
<1>7. v = BuildRow(r.at, r.hour, r.id, r.snap, x, y, r.safe)
  BY <1>5 DEF BuildRow
<1> HIDE DEF t, v
<1>8. [q EXCEPT !.id = y] = BuildRow(x, r.hour, y, r.snap, r.todo, r.any, r.safe)
  BY <1>4 DEF BuildRow
<1>9. [q EXCEPT !.hour = y] = BuildRow(x, y, r.id, r.snap, r.todo, r.any, r.safe)
  BY <1>4 DEF BuildRow
<1>10. [t EXCEPT !.todo = z] = BuildRow(x, r.hour, r.id, y, z, r.any, r.safe)
  BY <1>6 DEF BuildRow
<1>11. [v EXCEPT !.safe = z] = BuildRow(r.at, r.hour, r.id, r.snap, x, y, z)
  BY <1>7 DEF BuildRow
<1> QED
  BY <1>1, <1>2, <1>3, <1>8, <1>9, <1>10, <1>11

\* A slice that a claim changes in several fields.
LEMMA SliceClaim ==
    ASSUME NEW at, NEW hour, NEW uuid, NEW src, NEW id, NEW left
    PROVE  SetSlice(at, hour, uuid, src, id, left) =
           SliceRow(at, hour, uuid, src, id, left, 0, NoCells, {}, FALSE, FALSE)
<1> DEFINE f == FALSE
           a == [NoSlice EXCEPT !.at = at]
           b == [a EXCEPT !.hour = hour]
           c == [b EXCEPT !.uuid = uuid]
           d == [c EXCEPT !.src = src]
           e == [d EXCEPT !.id = id]
<1>1. SetSlice(at, hour, uuid, src, id, left) = [e EXCEPT !.todo = left]
  BY DEF SetSlice
<1>0. NoSlice = SliceRow("no", 0, 0, 0, 0, {}, 0, NoCells, {}, f, f)
  BY Zenon DEF NoSlice, SliceRow
<1> HIDE DEF f
<1>2. a = SliceRow(at, 0, 0, 0, 0, {}, 0, NoCells, {}, f, f)
  BY <1>0 DEF SliceRow
<1> HIDE DEF a
<1>3. b = SliceRow(at, hour, 0, 0, 0, {}, 0, NoCells, {}, f, f)
  BY <1>2 DEF SliceRow
<1> HIDE DEF b
<1>4. c = SliceRow(at, hour, uuid, 0, 0, {}, 0, NoCells, {}, f, f)
  BY <1>3 DEF SliceRow
<1> HIDE DEF c
<1>5. d = SliceRow(at, hour, uuid, src, 0, {}, 0, NoCells, {}, f, f)
  BY <1>4 DEF SliceRow
<1> HIDE DEF d
<1>6. e = SliceRow(at, hour, uuid, src, id, {}, 0, NoCells, {}, f, f)
  BY <1>5 DEF SliceRow
<1> HIDE DEF e
<1>7. [e EXCEPT !.todo = left] =
        SliceRow(at, hour, uuid, src, id, left, 0, NoCells, {}, f, f)
  BY <1>6 DEF SliceRow
<1> QED
  BY <1>1, <1>7, Zenon DEF f

\* A slice that the reading of a series changes.
LEMMA SliceReadRow ==
    ASSUME NEW r \in RuSliceRec, NEW x, NEW y, NEW z, NEW u, NEW v
    PROVE  SetRead(r, x, y, z, u, v) =
           SliceRow(r.at, r.hour, r.uuid, r.src, r.id, x, y, v, z, u, r.done)
<1> DEFINE k == [r EXCEPT !.todo = x]
           l == [k EXCEPT !.group = y]
           m == [l EXCEPT !.pending = z]
           n == [m EXCEPT !.unsafe = u]
<1>1. SetRead(r, x, y, z, u, v) = [n EXCEPT !.acc = v]
  BY DEF SetRead
<1>4. k = SliceRow(r.at, r.hour, r.uuid, r.src, r.id, x, r.group, r.acc, r.pending,
                   r.unsafe, r.done)
  BY DEF RuSliceRec, SliceRow
<1> HIDE DEF k
<1>8. l = SliceRow(r.at, r.hour, r.uuid, r.src, r.id, x, y, r.acc, r.pending, r.unsafe, r.done)
  BY <1>4 DEF SliceRow
<1> HIDE DEF l
<1>9. m = SliceRow(r.at, r.hour, r.uuid, r.src, r.id, x, y, r.acc, z, r.unsafe, r.done)
  BY <1>8 DEF SliceRow
<1> HIDE DEF m
<1>10. n = SliceRow(r.at, r.hour, r.uuid, r.src, r.id, x, y, r.acc, z, u, r.done)
  BY <1>9 DEF SliceRow
<1> HIDE DEF n
<1>11. [n EXCEPT !.acc = v] =
        SliceRow(r.at, r.hour, r.uuid, r.src, r.id, x, y, v, z, u, r.done)
  BY <1>10 DEF SliceRow
<1> QED
  BY <1>1, <1>11

\* A slice that the last read changes.
LEMMA SliceLast ==
    ASSUME NEW r \in RuSliceRec, NEW x, NEW y, NEW z, NEW u
    PROVE  SetLast(r, x, y, z, u) =
                SliceRow(x, r.hour, r.uuid, r.src, r.id, r.todo, r.group, z, y, r.unsafe, u)
<1> DEFINE a == [r EXCEPT !.at = x]
           b == [a EXCEPT !.pending = y]
           c == [b EXCEPT !.acc = z]
<1>1. SetLast(r, x, y, z, u) = [c EXCEPT !.done = u]
  BY DEF SetLast
<1>3. a = SliceRow(x, r.hour, r.uuid, r.src, r.id, r.todo, r.group, r.acc, r.pending,
                   r.unsafe, r.done)
  BY DEF RuSliceRec, SliceRow
<1> HIDE DEF a
<1>5. b = SliceRow(x, r.hour, r.uuid, r.src, r.id, r.todo, r.group, r.acc, y, r.unsafe, r.done)
  BY <1>3 DEF SliceRow
<1> HIDE DEF b
<1>6. c = SliceRow(x, r.hour, r.uuid, r.src, r.id, r.todo, r.group, z, y, r.unsafe, r.done)
  BY <1>5 DEF SliceRow
<1> HIDE DEF c
<1>7. [c EXCEPT !.done = u] =
        SliceRow(x, r.hour, r.uuid, r.src, r.id, r.todo, r.group, z, y, r.unsafe, u)
  BY <1>6 DEF SliceRow
<1> QED
  BY <1>1, <1>7

\* A slice that a batch of deletions or a write changes.
LEMMA SliceFields ==
    ASSUME NEW r \in RuSliceRec, NEW x, NEW y
    PROVE  /\ SetFlushed(r, x, y) =
                SliceRow(x, r.hour, r.uuid, r.src, r.id, r.todo, r.group, r.acc, y, r.unsafe, r.done)
           /\ [r EXCEPT !.at = x] =
                SliceRow(x, r.hour, r.uuid, r.src, r.id, r.todo, r.group, r.acc, r.pending,
                         r.unsafe, r.done)
<1> DEFINE a == [r EXCEPT !.at = x]
           b == [a EXCEPT !.pending = y]
<1>1. SetFlushed(r, x, y) = b /\ [r EXCEPT !.at = x] = a
  BY DEF SetFlushed
<1>3. a = SliceRow(x, r.hour, r.uuid, r.src, r.id, r.todo, r.group, r.acc, r.pending,
                   r.unsafe, r.done)
  BY DEF RuSliceRec, SliceRow
<1> HIDE DEF a
<1>5. b = SliceRow(x, r.hour, r.uuid, r.src, r.id, r.todo, r.group, r.acc, y, r.unsafe, r.done)
  BY <1>3 DEF SliceRow
<1> HIDE DEF b
<1> QED
  BY <1>1, <1>3, <1>5

\* A build that changes in one field.
LEMMA BuildTodo ==
    ASSUME NEW r \in RuBuildRec, NEW x
    PROVE  /\ [r EXCEPT !.todo = x] = BuildRow(r.at, r.hour, r.id, r.snap, x, r.any, r.safe)
           /\ [r EXCEPT !.at = x] = BuildRow(x, r.hour, r.id, r.snap, r.todo, r.any, r.safe)
BY DEF RuBuildRec, BuildRow

\* A marker that a publication changes.
LEMMA MarkerPublished ==
    ASSUME NEW r \in RuMarker, NEW x, NEW y
    PROVE  SetPublished(r, x, y) = [state |-> x, id |-> r.id, safe |-> y]
<1> DEFINE a == [r EXCEPT !.state = x]
<1>1. SetPublished(r, x, y) = [a EXCEPT !.safe = y]
  BY DEF SetPublished
<1>2. a = [state |-> x, id |-> r.id, safe |-> r.safe]
  BY DEF RuMarker
<1> HIDE DEF a
<1> QED
  BY <1>1, <1>2

\* The kinds of the fields hold at the start ...
LEMMA RuTypedInit == RuInit => RuTyped
<1> SUFFICES ASSUME RuInit PROVE RuTyped
  OBVIOUS
<1>1. /\ ruUuid \in Nat /\ ruOwner \in Nat /\ ruTriggers \in BOOLEAN
      /\ ruBuckets \in RuGrid
      /\ ruHourly \in [RuHours \X RuSeries -> Nat]
      /\ ruProc \in [RuProcs -> RuProcRec]
      /\ ruCount \in RuCountRec
  BY DEF RuInit, RuGrid, RuProcRec, RuCountRec
<1>2. /\ ruHour \in [RuHours -> RuMarker]
      /\ ruSum \in [RuHours -> RuSumMarker]
      /\ ruCells \in [RuHours \X RuServices -> RuCells]
      /\ ruBuild \in [RuProcs -> RuBuildRec]
      /\ ruSlice \in [RuProcs -> RuSliceRec]
  BY RuNothing DEF RuInit
<1> QED
  BY <1>1, <1>2 DEF RuTyped

\* The least of the series that are left is one of them.
LEMMA RuLeast ==
    ASSUME NEW T \in SUBSET RuSeries, T # {}
    PROVE  Min(T) \in T
<1>1. T \in SUBSET Nat
  BY RuAssumption
<1>2. \E n \in T : \A m \in T : n <= m
  BY <1>1, LeastMember
<1>3. Min(T) = CHOOSE x \in T : \A y \in T : x =< y
  BY DEF Min
<1> QED
  BY <1>2, <1>3

\* Points are numbers.
LEMMA RuPointsType ==
    ASSUME NEW f \in RuGrid, NEW S \in SUBSET RuSeries, NEW W \in SUBSET RuWindows
    PROVE  PointsIn(f, S, W) \in Nat /\ IsFiniteSet(S) /\ IsFiniteSet(W)
<1>1. IsFiniteSet(S)
  BY RuAssumption, FS_Subset
<1>2. IsFiniteSet(W)
  BY RuAssumption, FS_Subset
<1>3. \A x \in S \X W : f[x] \in Nat
  BY DEF RuGrid
<1>4. PointsIn(f, S, W) \in Nat
  BY <1>1, <1>2, <1>3, PointsTotal
<1> QED
  BY <1>1, <1>2, <1>4

\* A token is a number, and the next one is greater.
LEMMA RuTokenType ==
    ASSUME RuTyped
    PROVE  Token \in Nat /\ Token = ruCount.tokens + 1 /\ ruCount.tokens \in Nat
BY DEF RuTyped, RuCountRec, Token

\* Handing out a token counts it.
LEMMA RuFresh ==
    ASSUME RuTyped, FreshToken
    PROVE  /\ ruCount' \in RuCountRec /\ ruCount'.tokens = Token
           /\ ruCount'.stores = ruCount.stores
<1>1. ruCount \in RuCountRec
  BY DEF RuTyped
<1>2. ruCount.tokens < RuMaxTokens /\ ruCount' = [ruCount EXCEPT !["tokens"] = @ + 1]
  BY DEF FreshToken, Counter
<1> QED
  BY <1>1, <1>2 DEF RuCountRec, Token

\* What Flushed makes of a slice.
LEMMA FlushedType ==
    ASSUME NEW c \in RuSliceRec
    PROVE  Flushed(c) \in SUBSET ((RuServices \cup {0}) \X RuCells)
<1>1. /\ c.group \in RuServices \cup {0} /\ c.acc \in RuCells
      /\ c.pending \in SUBSET ((RuServices \cup {0}) \X RuCells)
  BY DEF RuSliceRec
<1> QED
  BY <1>1 DEF Flushed

\* The cells of the service that the slice reads, once the series s is read.
ReadCells(c, s) ==
    LET acc == IF c.group = RuService[s] THEN c.acc ELSE NoCells
        n == ruHourly[<<c.hour, s>>]
        lossy == s \in RuLossy \/ ~ ruHour[c.hour].safe \/ acc.sketch = 2
    IN  IF n = 0 THEN acc
        ELSE [windows |-> [w \in RuWindows |-> acc.windows[w] +
                             (IF HourStart(w) = c.hour THEN ruBuckets[<<s, w>>] ELSE 0)],
              total |-> acc.total + n, sketch |-> IF lossy THEN 2 ELSE 1]

\* What Consumed makes of a slice.
LEMMA ConsumedRow ==
    ASSUME NEW c \in RuSliceRec, NEW s \in RuSeries
    PROVE  Consumed(c, s) =
             SliceRow(c.at, c.hour, c.uuid, c.src, c.id, c.todo \ {s}, RuService[s],
                      ReadCells(c, s),
                      IF c.group = RuService[s] THEN c.pending ELSE Flushed(c),
                      c.unsafe \/ (ruHourly[<<c.hour, s>>] > 0 /\ s \in RuLossy), c.done)
<1> DEFINE x == c.todo \ {s}
           y == RuService[s]
           z == IF c.group = RuService[s] THEN c.pending ELSE Flushed(c)
           u == c.unsafe \/ (ruHourly[<<c.hour, s>>] > 0 /\ s \in RuLossy)
           v == ReadCells(c, s)
<1>1. Consumed(c, s) = SetRead(c, x, y, z, u, v)
  BY Zenon DEF Consumed, ReadCells, SetRead
<1> HIDE DEF x, y, z, u, v
<1>2. SetRead(c, x, y, z, u, v) = SliceRow(c.at, c.hour, c.uuid, c.src, c.id, x, y, v, z, u, c.done)
  BY SliceReadRow
<1> QED
  BY <1>1, <1>2, Zenon DEF x, y, z, u, v

\* The cells are read into cells.
LEMMA ReadCellsType ==
    ASSUME RuTyped, NEW c \in RuSliceRec, NEW s \in RuSeries, c.hour \in RuHours
    PROVE  ReadCells(c, s) \in RuCells
<1> DEFINE acc == IF c.group = RuService[s] THEN c.acc ELSE NoCells
           n == ruHourly[<<c.hour, s>>]
           lossy == s \in RuLossy \/ ~ ruHour[c.hour].safe \/ acc.sketch = 2
           k == IF lossy THEN 2 ELSE 1
           ws == [w \in RuWindows |-> acc.windows[w] +
                             (IF HourStart(w) = c.hour THEN ruBuckets[<<s, w>>] ELSE 0)]
<1>1. acc \in RuCells
  BY RuNothing DEF RuSliceRec
<1>2. n \in Nat
  BY DEF RuTyped
<1>3. k \in 0 .. 2
  OBVIOUS
<1>4. \A w \in RuWindows : ruBuckets[<<s, w>>] \in Nat
  BY DEF RuTyped, RuGrid
<1>5. ReadCells(c, s) = IF n = 0 THEN acc ELSE [windows |-> ws, total |-> acc.total + n, sketch |-> k]
  BY DEF ReadCells
<1> HIDE DEF acc, n, k
<1>6. acc.total \in Nat /\ acc.windows \in [RuWindows -> Nat]
  BY <1>1 DEF RuCells
<1>7. ws \in [RuWindows -> Nat]
  BY <1>4, <1>6
<1> HIDE DEF ws
<1>8. [windows |-> ws, total |-> acc.total + n, sketch |-> k] \in RuCells
  BY <1>2, <1>3, <1>6, <1>7 DEF RuCells
<1> QED
  BY <1>1, <1>5, <1>8

\* What the actions on a build make of it.
LEMMA PickHourRow ==
    ASSUME RuTyped, NEW p \in RuProcs, NEW h \in RuHours, PickHour(p, h)
    PROVE  ruBuild' = [ruBuild EXCEPT ![p] = BuildRow("claim", h, 0, <<>>, {}, FALSE, TRUE)]
<1>1. ruBuild' = [ruBuild EXCEPT ![p] = SetPicked(NoBuild, "claim", h)]
  BY DEF PickHour, SetPicked
<1>2. SetPicked(NoBuild, "claim", h) =
        BuildRow("claim", h, NoBuild.id, NoBuild.snap, NoBuild.todo, NoBuild.any, NoBuild.safe)
  BY RuNothing, BuildFields
<1>3. /\ NoBuild.id = 0 /\ NoBuild.snap = <<>> /\ NoBuild.todo = {}
      /\ NoBuild.any = FALSE /\ NoBuild.safe = TRUE
  BY Zenon DEF NoBuild
<1> QED
  BY <1>1, <1>2, <1>3, Zenon

\* A claim takes a fresh token.
LEMMA ClaimHourRow ==
    ASSUME RuTyped, NEW p \in RuProcs, ClaimHour(p)
    PROVE  LET b == ruBuild[p] IN
           ruBuild' = [ruBuild EXCEPT ![p] =
                         BuildRow("clear", b.hour, Token, b.snap, b.todo, b.any, b.safe)]
<1>1. ruBuild' = [ruBuild EXCEPT ![p].at = "clear", ![p].id = Token]
  BY DEF ClaimHour
<1>2. [ruBuild EXCEPT ![p].at = "clear", ![p].id = Token] =
        [ruBuild EXCEPT ![p] = [ruBuild[p] EXCEPT !.at = "clear", !.id = Token]]
  BY DEF RuTyped
<1>3. ruBuild' = [ruBuild EXCEPT ![p] = SetClaimed(ruBuild[p], "clear", Token)]
  BY <1>1, <1>2, Zenon DEF SetClaimed
<1>4. ruBuild[p] \in RuBuildRec
  BY DEF RuTyped
<1> QED
  BY <1>3, <1>4, BuildFields

\* The snapshot is the buckets as they are, and every series is left.
LEMMA OpenSnapshotRow ==
    ASSUME RuTyped, NEW p \in RuProcs, OpenSnapshot(p)
    PROVE  LET b == ruBuild[p] IN
           ruBuild' = [ruBuild EXCEPT ![p] =
                         BuildRow("chunks", b.hour, b.id, ruBuckets, RuSeries, b.any, b.safe)]
<1>1. ruBuild' = [ruBuild EXCEPT ![p].at = "chunks", ![p].snap = ruBuckets, ![p].todo = RuSeries]
  BY DEF OpenSnapshot
<1>2. [ruBuild EXCEPT ![p].at = "chunks", ![p].snap = ruBuckets, ![p].todo = RuSeries] =
        [ruBuild EXCEPT ![p] = [ruBuild[p] EXCEPT !.at = "chunks", !.snap = ruBuckets,
                                                  !.todo = RuSeries]]
  BY DEF RuTyped
<1>3. ruBuild' = [ruBuild EXCEPT ![p] = SetOpened(ruBuild[p], "chunks", ruBuckets, RuSeries)]
  BY <1>1, <1>2, Zenon DEF SetOpened
<1>4. ruBuild[p] \in RuBuildRec
  BY DEF RuTyped
<1> QED
  BY <1>3, <1>4, BuildFields

\* A chunk takes the least series that is left, and writes a row if it has points.
LEMMA WriteChunkRow ==
    ASSUME RuTyped, NEW p \in RuProcs, WriteChunk(p)
    PROVE  LET b == ruBuild[p]
               s == Min(b.todo)
               n == PointsIn(b.snap, {s}, HourWindows(b.hour))
           IN  /\ b.at = "chunks" /\ s \in b.todo /\ s \in RuSeries
               /\ \/ /\ n = 0 /\ ruHourly' = ruHourly
                     /\ ruBuild' = [ruBuild EXCEPT ![p] =
                          BuildRow(b.at, b.hour, b.id, b.snap, b.todo \ {s}, b.any, b.safe)]
                  \/ /\ n # 0 /\ CheckBuild(p) /\ ruHourly[<<b.hour, s>>] = 0
                     /\ ruHourly' = [ruHourly EXCEPT ![<<b.hour, s>>] = n]
                     /\ ruBuild' = [ruBuild EXCEPT ![p] =
                          BuildRow(b.at, b.hour, b.id, b.snap, b.todo \ {s}, TRUE,
                                   b.safe /\ s \notin RuLossy)]
<1> DEFINE b == ruBuild[p]
           s == Min(b.todo)
           n == PointsIn(b.snap, {s}, HourWindows(b.hour))
<1>1. b \in RuBuildRec /\ b.at = "chunks" /\ b.todo # {} /\ b.todo \in SUBSET RuSeries
  BY DEF RuTyped, RuBuildRec, WriteChunk
<1>2. s \in b.todo /\ s \in RuSeries
  BY <1>1, RuLeast
<1>3. CASE n = 0
  <2>1. ruHourly' = ruHourly /\ ruBuild' = [ruBuild EXCEPT ![p].todo = @ \ {s}]
    BY <1>3 DEF WriteChunk
  <2>2. ruBuild' = [ruBuild EXCEPT ![p] = [ruBuild[p] EXCEPT !.todo = b.todo \ {s}]]
    BY <2>1 DEF RuTyped
  <2>3. [b EXCEPT !.todo = b.todo \ {s}] =
          BuildRow(b.at, b.hour, b.id, b.snap, b.todo \ {s}, b.any, b.safe)
    <3> DEFINE x == b.todo \ {s}
    <3> HIDE DEF x
    <3>1. [b EXCEPT !.todo = x] = BuildRow(b.at, b.hour, b.id, b.snap, x, b.any, b.safe)
      BY <1>1, BuildTodo
    <3> QED
      BY <3>1 DEF x
  <2> QED
    BY <1>1, <1>2, <1>3, <2>1, <2>2, <2>3
<1>4. CASE n # 0
  <2>1. /\ CheckBuild(p) /\ ruHourly[<<b.hour, s>>] = 0
        /\ ruHourly' = [ruHourly EXCEPT ![<<b.hour, s>>] = n]
        /\ ruBuild' = [ruBuild EXCEPT ![p].todo = @ \ {s}, ![p].any = TRUE,
                                      ![p].safe = @ /\ s \notin RuLossy]
    BY <1>4 DEF WriteChunk
  <2> DEFINE x == b.todo \ {s}
             z == b.safe /\ s \notin RuLossy
             t == TRUE
  <2>2. [ruBuild EXCEPT ![p].todo = @ \ {s}, ![p].any = TRUE, ![p].safe = @ /\ s \notin RuLossy]
          = [ruBuild EXCEPT ![p] = [ruBuild[p] EXCEPT !.todo = x, !.any = t, !.safe = z]]
    BY DEF RuTyped
  <2>3. ruBuild' = [ruBuild EXCEPT ![p] = SetWritten(ruBuild[p], x, t, z)]
    BY <2>1, <2>2, Zenon DEF SetWritten
  <2> HIDE DEF x, z, t
  <2>4. SetWritten(b, x, t, z) = BuildRow(b.at, b.hour, b.id, b.snap, x, t, z)
    BY <1>1, BuildFields
  <2>5. ruBuild' = [ruBuild EXCEPT ![p] = BuildRow(b.at, b.hour, b.id, b.snap, x, t, z)]
    BY <2>3, <2>4
  <2>6. ruBuild' = [ruBuild EXCEPT ![p] =
                          BuildRow(b.at, b.hour, b.id, b.snap, b.todo \ {s}, TRUE,
                                   b.safe /\ s \notin RuLossy)]
    BY <2>5, Zenon DEF x, z, t
  <2> QED
    BY <1>1, <1>2, <1>4, <2>1, <2>6, Zenon
<1> QED
  BY <1>3, <1>4

\* A batch of deletions, or the end of the deletions.
LEMMA ClearHourRow ==
    ASSUME RuTyped, NEW p \in RuProcs, ClearHour(p)
    PROVE  LET b == ruBuild[p] IN
           /\ b.at = "clear" /\ CheckBuild(p)
           /\ \/ /\ \A s \in RuSeries : ~ (ruHourly[<<b.hour, s>>] > 0)
                 /\ ruHourly' = ruHourly
                 /\ ruBuild' = [ruBuild EXCEPT ![p] =
                      BuildRow("read", b.hour, b.id, b.snap, b.todo, b.any, b.safe)]
              \/ /\ \E x : ruHourly' = [ruHourly EXCEPT ![<<b.hour, x>>] = 0]
                 /\ ruBuild' = ruBuild
<1> DEFINE b == ruBuild[p]
           rows == {s \in RuSeries : ruHourly[<<b.hour, s>>] > 0}
<1>1. b \in RuBuildRec
  BY DEF RuTyped
<1>2. CASE rows = {}
  <2>1. ruHourly' = ruHourly /\ ruBuild' = [ruBuild EXCEPT ![p].at = "read"]
    BY <1>2 DEF ClearHour
  <2>2. ruBuild' = [ruBuild EXCEPT ![p] = [ruBuild[p] EXCEPT !.at = "read"]]
    BY <2>1 DEF RuTyped
  <2>3. [b EXCEPT !.at = "read"] = BuildRow("read", b.hour, b.id, b.snap, b.todo, b.any, b.safe)
    BY <1>1, BuildTodo
  <2>4. ruBuild' = [ruBuild EXCEPT ![p] =
                      BuildRow("read", b.hour, b.id, b.snap, b.todo, b.any, b.safe)]
    BY <2>2, <2>3
  <2> QED
    BY <1>2, <2>1, <2>4 DEF ClearHour
<1>3. CASE rows # {}
  <2>1. ruHourly' = [ruHourly EXCEPT ![<<b.hour, Min(rows)>>] = 0] /\ ruBuild' = ruBuild
    BY <1>3 DEF ClearHour
  <2> QED
    BY <2>1 DEF ClearHour
<1> QED
  BY <1>2, <1>3

\* What the actions on a slice make of it.
LEMMA CleanSliceRow ==
    ASSUME RuTyped, NEW p \in RuProcs, CleanSlice(p)
    PROVE  LET c == ruSlice[p]
               x == IF HasCells(c.hour) = {} THEN "read" ELSE "clean"
           IN  ruSlice' = [ruSlice EXCEPT ![p] =
                 SliceRow(x, c.hour, c.uuid, c.src, c.id, c.todo, c.group, c.acc, c.pending,
                          c.unsafe, c.done)]
<1> DEFINE c == ruSlice[p]
           x == IF HasCells(c.hour) = {} THEN "read" ELSE "clean"
<1>1. c \in RuSliceRec
  BY DEF RuTyped
<1>2. ruSlice' = [ruSlice EXCEPT ![p].at = x]
  BY DEF CleanSlice
<1> HIDE DEF x
<1>3. ruSlice' = [ruSlice EXCEPT ![p] = [ruSlice[p] EXCEPT !.at = x]]
  BY <1>2 DEF RuTyped
<1>4. [c EXCEPT !.at = x] =
        SliceRow(x, c.hour, c.uuid, c.src, c.id, c.todo, c.group, c.acc, c.pending,
                 c.unsafe, c.done)
  BY <1>1, SliceFields
<1>5. ruSlice' = [ruSlice EXCEPT ![p] =
        SliceRow(x, c.hour, c.uuid, c.src, c.id, c.todo, c.group, c.acc, c.pending,
                 c.unsafe, c.done)]
  BY <1>3, <1>4
<1> QED
  BY <1>5 DEF x

\* A claimed slice has every series left, and has read nothing.
LEMMA ClaimSummaryRow ==
    ASSUME RuTyped, NEW p \in RuProcs, NEW h \in RuHours, ClaimSummary(p, h)
    PROVE  ruSlice' = [ruSlice EXCEPT ![p] =
             SliceRow("clean", h, ruProc[p].uuid, ruHour[h].id, Token, RuSeries, 0, NoCells, {},
                      FALSE, FALSE)]
<1>1. ruSlice' = [ruSlice EXCEPT ![p] =
                    SetSlice("clean", h, ruProc[p].uuid, ruHour[h].id, Token, RuSeries)]
  BY Zenon DEF ClaimSummary, SetSlice
<1> QED
  BY <1>1, SliceClaim, Zenon

\* A slice reads the least series that is left, or flushes for the last time.
LEMMA ReadSliceRow ==
    ASSUME RuTyped, NEW p \in RuProcs, ReadSlice(p)
    PROVE  LET c == ruSlice[p]
               s == Min(c.todo)
           IN  \/ /\ c.todo = {}
                  /\ ruSlice' = [ruSlice EXCEPT ![p] =
                       SliceRow("write", c.hour, c.uuid, c.src, c.id, c.todo, c.group, NoCells,
                                Flushed(c), c.unsafe, TRUE)]
               \/ /\ s \in c.todo /\ s \in RuSeries
                  /\ ruSlice' = [ruSlice EXCEPT ![p] =
                       SliceRow("write", c.hour, c.uuid, c.src, c.id, c.todo \ {s}, RuService[s],
                                ReadCells(c, s),
                                IF c.group = RuService[s] THEN c.pending ELSE Flushed(c),
                                c.unsafe \/ (ruHourly[<<c.hour, s>>] > 0 /\ s \in RuLossy),
                                c.done)]
<1> DEFINE c == ruSlice[p]
           s == Min(c.todo)
<1>1. c \in RuSliceRec /\ c.todo \in SUBSET RuSeries
  BY DEF RuTyped, RuSliceRec
<1>2. CASE c.todo = {}
  <2> DEFINE t == TRUE
             y == Flushed(c)
  <2>1. ruSlice' = [ruSlice EXCEPT ![p] = SetLast(c, "write", y, NoCells, t)]
    BY <1>2, Zenon DEF ReadSlice, SetLast
  <2> HIDE DEF t, y
  <2>2. SetLast(c, "write", y, NoCells, t) =
          SliceRow("write", c.hour, c.uuid, c.src, c.id, c.todo, c.group, NoCells, y, c.unsafe, t)
    BY <1>1, SliceLast
  <2> QED
    BY <1>2, <2>1, <2>2, Zenon DEF t, y
<1>3. CASE c.todo # {}
  <2>1. s \in c.todo /\ s \in RuSeries
    BY <1>1, <1>3, RuLeast
  <2>2. ruSlice' = [ruSlice EXCEPT ![p] = [Consumed(c, s) EXCEPT !.at = "write"]]
    BY <1>3, Zenon DEF ReadSlice
  <2> DEFINE x == c.todo \ {s}
             y == RuService[s]
             v == ReadCells(c, s)
             z == IF c.group = RuService[s] THEN c.pending ELSE Flushed(c)
             u == c.unsafe \/ (ruHourly[<<c.hour, s>>] > 0 /\ s \in RuLossy)
  <2>3. Consumed(c, s) = SliceRow(c.at, c.hour, c.uuid, c.src, c.id, x, y, v, z, u, c.done)
    BY <1>1, <2>1, ConsumedRow, Zenon
  <2> HIDE DEF x, y, v, z, u
  <2>4. [SliceRow(c.at, c.hour, c.uuid, c.src, c.id, x, y, v, z, u, c.done) EXCEPT !.at = "write"]
          = SliceRow("write", c.hour, c.uuid, c.src, c.id, x, y, v, z, u, c.done)
    BY DEF SliceRow
  <2>5. ruSlice' = [ruSlice EXCEPT ![p] =
          SliceRow("write", c.hour, c.uuid, c.src, c.id, x, y, v, z, u, c.done)]
    BY <2>2, <2>3, <2>4
  <2> QED
    BY <2>1, <2>5, Zenon DEF x, y, v, z, u
<1> QED
  BY <1>2, <1>3

\* A written slice has nothing pending, or is over.
LEMMA WriteSliceRow ==
    ASSUME RuTyped, NEW p \in RuProcs, WriteSlice(p)
    PROVE  LET c == ruSlice[p] IN
           \/ c.done /\ ruSlice' = [ruSlice EXCEPT ![p] = NoSlice]
           \/ /\ ~ c.done
              /\ ruSlice' = [ruSlice EXCEPT ![p] =
                   SliceRow("read", c.hour, c.uuid, c.src, c.id, c.todo, c.group, c.acc, {},
                            c.unsafe, c.done)]
<1> DEFINE c == ruSlice[p]
<1>1. c \in RuSliceRec
  BY DEF RuTyped
<1>2. CASE c.done
  BY <1>2 DEF WriteSlice
<1>3. CASE ~ c.done
  <2>1. ruSlice' = [ruSlice EXCEPT ![p] = SetFlushed(c, "read", {})]
    BY <1>3, Zenon DEF WriteSlice, SetFlushed
  <2>2. SetFlushed(c, "read", {}) =
          SliceRow("read", c.hour, c.uuid, c.src, c.id, c.todo, c.group, c.acc, {},
                   c.unsafe, c.done)
    BY <1>1, SliceFields
  <2> QED
    BY <1>3, <2>1, <2>2
<1> QED
  BY <1>2, <1>3

\* Publication keeps the token of the hour.
LEMMA PublishHourRow ==
    ASSUME RuTyped, NEW p \in RuProcs, PublishHour(p), ruBuild[p].hour \in RuHours
    PROVE  LET b == ruBuild[p]
               m == ruHour[b.hour]
           IN  ruHour' = [ruHour EXCEPT ![b.hour] =
                 IF b.any THEN [state |-> 2, id |-> m.id, safe |-> b.safe] ELSE NoHour]
<1> DEFINE b == ruBuild[p]
           m == ruHour[b.hour]
<1>1. m \in RuMarker
  BY DEF RuTyped
<1>2. ruHour' = [ruHour EXCEPT ![b.hour] = IF b.any THEN SetPublished(m, 2, b.safe) ELSE NoHour]
  BY Zenon DEF PublishHour, SetPublished
<1>3. SetPublished(m, 2, b.safe) = [state |-> 2, id |-> m.id, safe |-> b.safe]
  BY <1>1, MarkerPublished
<1> QED
  BY <1>2, <1>3, Zenon

\* A chunk keeps the kinds: the snapshot of a build that writes is a grid.
LEMMA WriteChunkTyped ==
    ASSUME RuTyped, HourTokens, NEW p \in RuProcs, WriteChunk(p)
    PROVE  RuTyped'
<1> DEFINE b == ruBuild[p]
           s == Min(b.todo)
           n == PointsIn(b.snap, {s}, HourWindows(b.hour))
           x == b.todo \ {s}
<1>1. b \in RuBuildRec /\ x \in SUBSET RuSeries /\ s \in RuSeries
  BY WriteChunkRow DEF RuTyped, RuBuildRec
<1>2. ruBuild' \in [RuProcs -> RuBuildRec]
  <2>1. BuildRow(b.at, b.hour, b.id, b.snap, x, b.any, b.safe) \in RuBuildRec
    BY <1>1 DEF BuildRow, RuBuildRec
  <2>2. BuildRow(b.at, b.hour, b.id, b.snap, x, TRUE, b.safe /\ s \notin RuLossy) \in RuBuildRec
    <3> DEFINE z == b.safe /\ s \notin RuLossy
               t == TRUE
    <3>1. z \in BOOLEAN /\ t \in BOOLEAN
      OBVIOUS
    <3> HIDE DEF z, t
    <3>2. BuildRow(b.at, b.hour, b.id, b.snap, x, t, z) \in RuBuildRec
      BY <1>1, <3>1 DEF BuildRow, RuBuildRec
    <3> QED
      BY <3>2, Zenon DEF z, t
  <2> DEFINE y1 == BuildRow(b.at, b.hour, b.id, b.snap, x, b.any, b.safe)
             y2 == BuildRow(b.at, b.hour, b.id, b.snap, x, TRUE, b.safe /\ s \notin RuLossy)
  <2>3. ruBuild' = [ruBuild EXCEPT ![p] = y1] \/ ruBuild' = [ruBuild EXCEPT ![p] = y2]
    BY WriteChunkRow, Zenon
  <2> HIDE DEF y1, y2
  <2>4. y1 \in RuBuildRec /\ y2 \in RuBuildRec
    BY <2>1, <2>2, Zenon DEF y1, y2
  <2> QED
    BY <2>3, <2>4 DEF RuTyped
<1>3. ruHourly' \in [RuHours \X RuSeries -> Nat]
  <2>1. ruHourly \in [RuHours \X RuSeries -> Nat]
    BY DEF RuTyped
  <2>2. ruHourly' = ruHourly \/ ruHourly' = [ruHourly EXCEPT ![<<b.hour, s>>] = n]
    BY WriteChunkRow, Zenon
  <2>3. n \in Nat
    <3>1. b.snap \in RuGrid
      BY WriteChunkRow DEF HourTokens
    <3>2. {s} \in SUBSET RuSeries /\ HourWindows(b.hour) \in SUBSET RuWindows
      BY <1>1 DEF HourWindows
    <3> QED
      BY <3>1, <3>2, RuPointsType
  <2> HIDE DEF n
  <2> QED
    BY <2>1, <2>2, <2>3
<1> QED
  BY <1>2, <1>3 DEF WriteChunk, RuTyped, ruStoreVars, ruSummaryVars

\* A read keeps the kinds.
LEMMA ReadSliceTyped ==
    ASSUME RuTyped, SumTokens, NEW p \in RuProcs, ReadSlice(p)
    PROVE  RuTyped'
<1> DEFINE c == ruSlice[p]
           s == Min(c.todo)
           t == TRUE
           z == IF c.group = RuService[s] THEN c.pending ELSE Flushed(c)
           u == c.unsafe \/ (ruHourly[<<c.hour, s>>] > 0 /\ s \in RuLossy)
           y1 == SliceRow("write", c.hour, c.uuid, c.src, c.id, c.todo, c.group, NoCells,
                          Flushed(c), c.unsafe, t)
           y2 == SliceRow("write", c.hour, c.uuid, c.src, c.id, c.todo \ {s}, RuService[s],
                          ReadCells(c, s), z, u, c.done)
<1>1. c \in RuSliceRec /\ c.hour \in RuHours
  BY DEF RuTyped, SumTokens, ReadSlice
<1>2. Flushed(c) \in SUBSET ((RuServices \cup {0}) \X RuCells)
  BY <1>1, FlushedType
<1>3. t \in BOOLEAN /\ u \in BOOLEAN
  BY <1>1 DEF RuSliceRec
<1>4. z \in SUBSET ((RuServices \cup {0}) \X RuCells)
  BY <1>1, <1>2 DEF RuSliceRec
<1>5. \/ ruSlice' = [ruSlice EXCEPT ![p] = y1]
      \/ s \in RuSeries /\ ruSlice' = [ruSlice EXCEPT ![p] = y2]
  BY ReadSliceRow, Zenon
<1> HIDE DEF t, z, u
<1>6. y1 \in RuSliceRec
  BY <1>1, <1>2, <1>3, RuNothing DEF SliceRow, RuSliceRec
<1>7. s \in RuSeries => y2 \in RuSliceRec
  <2> SUFFICES ASSUME s \in RuSeries PROVE y2 \in RuSliceRec
    OBVIOUS
  <2>1. ReadCells(c, s) \in RuCells
    BY <1>1, ReadCellsType
  <2>2. RuService[s] \in RuServices
    BY DEF RuServices
  <2> QED
    BY <1>1, <1>3, <1>4, <2>1, <2>2 DEF SliceRow, RuSliceRec
<1> HIDE DEF y1, y2
<1>8. ruSlice' \in [RuProcs -> RuSliceRec]
  BY <1>5, <1>6, <1>7 DEF RuTyped
<1> QED
  BY <1>8 DEF ReadSlice, RuTyped, ruStoreVars, ruRollupVars, ruSummaryVars

\* A write keeps the kinds.
LEMMA WriteSliceTyped ==
    ASSUME RuTyped, NEW p \in RuProcs, WriteSlice(p)
    PROVE  RuTyped'
<1> DEFINE c == ruSlice[p]
           y == SliceRow("read", c.hour, c.uuid, c.src, c.id, c.todo, c.group, c.acc, {},
                         c.unsafe, c.done)
<1>1. c \in RuSliceRec
  BY DEF RuTyped
<1>2. y \in RuSliceRec
  BY <1>1 DEF SliceRow, RuSliceRec
<1>3. ruSlice' = [ruSlice EXCEPT ![p] = NoSlice] \/ ruSlice' = [ruSlice EXCEPT ![p] = y]
  BY WriteSliceRow, Zenon
<1> HIDE DEF y
<1>4. ruSlice' \in [RuProcs -> RuSliceRec]
  BY <1>2, <1>3, RuNothing DEF RuTyped
<1>5. ruSum' \in [RuHours -> RuSumMarker]
  <2> DEFINE k == IF ~ c.done THEN ruSum[c.hour].state ELSE IF c.unsafe THEN 4 ELSE 2
  <2>1. ruSum' = [ruSum EXCEPT ![c.hour].state = k]
    BY DEF WriteSlice
  <2>2. c.hour \in RuHours => k \in -1 .. 4
    BY DEF RuTyped, RuSumMarker
  <2> HIDE DEF k
  <2> QED
    BY <2>1, <2>2 DEF RuTyped, RuSumMarker
<1>6. ruCells' \in [RuHours \X RuServices -> RuCells]
  <2> DEFINE pick(k) == CHOOSE x \in c.pending : x[1] = k[2]
  <2>0. ruCells \in [RuHours \X RuServices -> RuCells]
    BY DEF RuTyped
  <2>1. ruCells' = [k \in DOMAIN ruCells |->
            IF k[1] = c.hour /\ \E x \in c.pending : x[1] = k[2] THEN pick(k)[2] ELSE ruCells[k]]
    BY DEF WriteSlice
  <2>2. ASSUME NEW k, \E x \in c.pending : x[1] = k[2]
        PROVE  pick(k)[2] \in RuCells
    <3>1. pick(k) \in c.pending
      BY <2>2, Zenon
    <3>2. c.pending \in SUBSET ((RuServices \cup {0}) \X RuCells)
      BY <1>1 DEF RuSliceRec
    <3> HIDE DEF pick
    <3> QED
      BY <3>1, <3>2
  <2> HIDE DEF pick
  <2> QED
    BY <2>0, <2>1, <2>2
<1> QED
  BY <1>4, <1>5, <1>6 DEF WriteSlice, RuTyped, ruStoreVars, ruRollupVars

\* ... and every step keeps them.
LEMMA RuTypedNext ==
    ASSUME RuTyped, HourTokens, SumTokens, [RuNext]_ruVars
    PROVE  RuTyped'
<1> USE DEF ruStoreVars, ruRollupVars, ruSummaryVars, ruWorkVars
<1>0. /\ ruUuid \in Nat /\ ruOwner \in Nat /\ ruTriggers \in BOOLEAN
      /\ ruBuckets \in RuGrid
      /\ ruHour \in [RuHours -> RuMarker]
      /\ ruHourly \in [RuHours \X RuSeries -> Nat]
      /\ ruSum \in [RuHours -> RuSumMarker]
      /\ ruCells \in [RuHours \X RuServices -> RuCells]
      /\ ruProc \in [RuProcs -> RuProcRec]
      /\ ruBuild \in [RuProcs -> RuBuildRec]
      /\ ruSlice \in [RuProcs -> RuSliceRec]
      /\ ruCount \in RuCountRec
  BY DEF RuTyped
<1>1. CASE UNCHANGED ruVars
  BY <1>0, <1>1 DEF RuTyped, ruVars
<1>2. ASSUME NEW p \in RuProcs, Inspect(p) PROVE RuTyped'
  <2>1. ruProc' \in [RuProcs -> RuProcRec]
    BY <1>0, <1>2 DEF Inspect, RuProcRec
  <2> QED
    BY <1>0, <1>2, <2>1 DEF Inspect, RuTyped
<1>3. ASSUME NEW p \in RuProcs, DropTables(p) PROVE RuTyped'
  <2>1. ruProc' \in [RuProcs -> RuProcRec] /\ ruBuckets' \in RuGrid
    BY <1>0, <1>3 DEF DropTables, RuProcRec, RuGrid
  <2> QED
    BY <1>0, <1>3, <2>1 DEF DropTables, RuTyped
<1>4. ASSUME NEW p \in RuProcs, CreateSchema(p) PROVE RuTyped'
  <2>1. ruCount.stores + 1 \in Nat /\ ruCount' \in RuCountRec
    BY <1>0, <1>4 DEF CreateSchema, RuCountRec, Counter
  <2>2. ruProc' \in [RuProcs -> RuProcRec]
    BY <1>0, <1>4, <2>1 DEF CreateSchema, RuProcRec
  <2> QED
    BY <1>0, <1>4, <2>1, <2>2 DEF CreateSchema, RuTyped
<1>5. ASSUME NEW p \in RuProcs, EnsureRollup(p) PROVE RuTyped'
  <2>1. ruProc' \in [RuProcs -> RuProcRec] /\ ruOwner' \in Nat
    BY <1>0, <1>5 DEF EnsureRollup, RuProcRec
  <2>2. ruHour' \in [RuHours -> RuMarker]
    BY <1>0, <1>5, RuNothing DEF EnsureRollup
  <2> QED
    BY <1>0, <1>5, <2>1, <2>2 DEF EnsureRollup, RuTyped
<1>6. ASSUME NEW p \in RuProcs, EnsureSummary(p) PROVE RuTyped'
  <2>1. ruProc' \in [RuProcs -> RuProcRec]
    BY <1>0, <1>6 DEF EnsureSummary, RuProcRec
  <2>2. ruSum' \in [RuHours -> RuSumMarker]
    BY <1>0, <1>6, RuNothing DEF EnsureSummary
  <2> QED
    BY <1>0, <1>6, <2>1, <2>2 DEF EnsureSummary, RuTyped
<1>7. ASSUME NEW p \in RuProcs, Stop(p) PROVE RuTyped'
  <2>1. ruProc' \in [RuProcs -> RuProcRec]
    BY <1>0, <1>7 DEF Stop, RuProcRec
  <2>2. ruBuild' \in [RuProcs -> RuBuildRec] /\ ruSlice' \in [RuProcs -> RuSliceRec]
    BY <1>0, <1>7, RuNothing DEF Stop
  <2> QED
    BY <1>0, <1>7, <2>1, <2>2 DEF Stop, RuTyped
<1>8. ASSUME NEW p \in RuProcs, NEW s \in RuSeries, NEW w \in RuWindows, AddToBucket(p, s, w)
      PROVE  RuTyped'
  <2>1. ruBuckets' \in RuGrid
    BY <1>0, <1>8 DEF AddToBucket, RuGrid
  <2>2. ruHour' \in [RuHours -> RuMarker]
    BY <1>0, <1>8, RuNothing DEF AddToBucket, Invalidate
  <2>3. ruCount' \in RuCountRec
    BY <1>0, <1>8 DEF AddToBucket, RuCountRec, Counter
  <2> QED
    BY <1>0, <1>8, <2>1, <2>2, <2>3 DEF AddToBucket, RuTyped
<1>9. ASSUME NEW p \in RuProcs, NEW w \in RuWindows, BeginPurge(p, w + 1) PROVE RuTyped'
  BY <1>0, <1>9 DEF BeginPurge, RuTyped
<1>10. ASSUME NEW p \in RuProcs, NEW w \in RuWindows, PurgeRow(p, w) PROVE RuTyped'
  <2>1. ruBuckets' \in RuGrid
    BY <1>0, <1>10 DEF PurgeRow, RuGrid
  <2>2. ruHour' \in [RuHours -> RuMarker]
    BY <1>0, <1>10, RuNothing DEF PurgeRow, Invalidate
  <2> QED
    BY <1>0, <1>10, <2>1, <2>2 DEF PurgeRow, RuTyped
<1>11. ASSUME NEW p \in RuProcs, PurgeSummaries(p) PROVE RuTyped'
  BY <1>0, <1>11 DEF PurgeSummaries, RuTyped
<1>12. ASSUME NEW p \in RuProcs, ClaimCleanup(p) PROVE RuTyped'
  <2> DEFINE h == Min(LeftHours(ruPurge[p].after))
  <2>1. SourceToken(h) \in Nat \/ h \notin RuHours
    BY <1>0 DEF RuMarker, SourceToken
  <2> HIDE DEF h
  <2>2. ruSum' \in [RuHours -> RuSumMarker] /\ ruCount' \in RuCountRec
    <3>1. CASE NeedsCleanup(h, ruPurge[p].cutoff)
      <4>1. /\ FreshToken
            /\ ruSum' = [ruSum EXCEPT ![h] = [state |-> 3, id |-> Token, src |-> SourceToken(h)]]
        BY <1>12, <3>1 DEF ClaimCleanup, h
      <4>2. Token \in Nat
        BY RuTokenType
      <4>3. h \in RuHours => [state |-> 3, id |-> Token, src |-> SourceToken(h)] \in RuSumMarker
        BY <2>1, <4>2 DEF RuSumMarker
      <4> QED
        BY <1>0, <4>1, <4>3, RuFresh
    <3>2. CASE ~ NeedsCleanup(h, ruPurge[p].cutoff)
      BY <1>0, <1>12, <3>2 DEF ClaimCleanup, h
    <3> QED
      BY <3>1, <3>2
  <2> QED
    BY <1>0, <1>12, <2>2 DEF ClaimCleanup, RuTyped
<1>13. ASSUME NEW p \in RuProcs, CleanupSlice(p) PROVE RuTyped'
  <2>1. ruCells' \in [RuHours \X RuServices -> RuCells]
    BY <1>0, <1>13, RuNothing DEF CleanupSlice, DeleteCells
  <2>2. ruSum' \in [RuHours -> RuSumMarker]
    BY <1>0, <1>13, RuNothing DEF CleanupSlice
  <2> QED
    BY <1>0, <1>13, <2>1, <2>2 DEF CleanupSlice, RuTyped
<1>14. ASSUME NEW p \in RuProcs, PurgeEnds(p) PROVE RuTyped'
  BY <1>0, <1>14 DEF PurgeEnds, RuTyped
<1>15. ASSUME NEW p \in RuProcs, NEW h \in RuHours, Discover(p, h) PROVE RuTyped'
  <2>1. ruHour' \in [RuHours -> RuMarker]
    BY <1>0, <1>15, RuNothing DEF Discover
  <2> QED
    BY <1>0, <1>15, <2>1 DEF Discover, RuTyped
<1>16. ASSUME NEW p \in RuProcs, NEW h \in RuHours, PickHour(p, h) PROVE RuTyped'
  <2>1. BuildRow("claim", h, 0, <<>>, {}, FALSE, TRUE) \in RuBuildRec
    BY DEF BuildRow, RuBuildRec, RuPlaces
  <2>2. ruBuild' \in [RuProcs -> RuBuildRec]
    BY <1>0, <1>16, <2>1, PickHourRow
  <2> QED
    BY <1>0, <1>16, <2>2 DEF PickHour, RuTyped
<1>17. ASSUME NEW p \in RuProcs, NEW h \in RuHours, ClaimSummary(p, h) PROVE RuTyped'
  <2>0. /\ FreshToken
        /\ ruSum' = [ruSum EXCEPT ![h] = [state |-> 1, id |-> Token, src |-> ruHour[h].id]]
    BY <1>17 DEF ClaimSummary
  <2>1. ruHour[h].id \in Nat /\ ruProc[p].uuid \in Nat /\ Token \in Nat
    BY <1>0, RuTokenType DEF RuMarker, RuProcRec
  <2>2. [state |-> 1, id |-> Token, src |-> ruHour[h].id] \in RuSumMarker
    BY <2>1 DEF RuSumMarker
  <2>3. SliceRow("clean", h, ruProc[p].uuid, ruHour[h].id, Token, RuSeries, 0, NoCells, {},
                 FALSE, FALSE) \in RuSliceRec
    BY <2>1, RuNothing DEF SliceRow, RuSliceRec, RuPlaces
  <2>4. ruSlice' \in [RuProcs -> RuSliceRec]
    BY <1>0, <1>17, <2>3, ClaimSummaryRow
  <2>5. ruSum' \in [RuHours -> RuSumMarker]
    BY <1>0, <2>0, <2>2
  <2>6. ruCount' \in RuCountRec
    BY <2>0, RuFresh
  <2> QED
    BY <1>0, <1>17, <2>4, <2>5, <2>6 DEF ClaimSummary, RuTyped
<1>18. ASSUME NEW p \in RuProcs, ClaimHour(p) PROVE RuTyped'
  <2> DEFINE b == ruBuild[p]
  <2>0. FreshToken /\ Token \in Nat /\ b \in RuBuildRec
    BY <1>0, <1>18, RuTokenType DEF ClaimHour
  <2>1. BuildRow("clear", b.hour, Token, b.snap, b.todo, b.any, b.safe) \in RuBuildRec
    BY <2>0 DEF BuildRow, RuBuildRec
  <2>2. ruBuild' = [ruBuild EXCEPT ![p] =
                      BuildRow("clear", b.hour, Token, b.snap, b.todo, b.any, b.safe)]
    BY <1>18, ClaimHourRow
  <2>3. ruBuild' \in [RuProcs -> RuBuildRec]
    BY <1>0, <2>1, <2>2
  <2>4. [state |-> 1, id |-> Token, safe |-> FALSE] \in RuMarker
    BY <2>0 DEF RuMarker
  <2>5. ruHour' \in [RuHours -> RuMarker]
    BY <1>0, <1>18, <2>4 DEF ClaimHour
  <2>6. ruCount' \in RuCountRec
    BY <2>0, RuFresh
  <2> QED
    BY <1>0, <1>18, <2>3, <2>5, <2>6 DEF ClaimHour, RuTyped
<1>19. ASSUME NEW p \in RuProcs, ClearHour(p) PROVE RuTyped'
  <2>1. ruHourly' \in [RuHours \X RuSeries -> Nat]
    BY <1>0, <1>19 DEF ClearHour
  <2>2. ruBuild' \in [RuProcs -> RuBuildRec]
    <3> DEFINE b == ruBuild[p]
               y == BuildRow("read", b.hour, b.id, b.snap, b.todo, b.any, b.safe)
    <3>1. b \in RuBuildRec
      BY <1>0
    <3>2. y \in RuBuildRec
      BY <3>1 DEF BuildRow, RuBuildRec
    <3>3. ruBuild' = [ruBuild EXCEPT ![p] = y] \/ ruBuild' = ruBuild
      BY <1>19, ClearHourRow
    <3> HIDE DEF y
    <3> QED
      BY <1>0, <3>2, <3>3
  <2> QED
    BY <1>0, <1>19, <2>1, <2>2 DEF ClearHour, RuTyped
<1>20. ASSUME NEW p \in RuProcs, OpenSnapshot(p) PROVE RuTyped'
  <2> DEFINE b == ruBuild[p]
  <2>0. b \in RuBuildRec
    BY <1>0
  <2>1. BuildRow("chunks", b.hour, b.id, ruBuckets, RuSeries, b.any, b.safe) \in RuBuildRec
    BY <1>0, <2>0 DEF BuildRow, RuBuildRec
  <2>2. ruBuild' = [ruBuild EXCEPT ![p] =
                      BuildRow("chunks", b.hour, b.id, ruBuckets, RuSeries, b.any, b.safe)]
    BY <1>20, OpenSnapshotRow
  <2>3. ruBuild' \in [RuProcs -> RuBuildRec]
    BY <1>0, <2>1, <2>2
  <2> QED
    BY <1>0, <1>20, <2>3 DEF OpenSnapshot, RuTyped
<1>22. ASSUME NEW p \in RuProcs, PublishHour(p) PROVE RuTyped'
  <2> DEFINE b == ruBuild[p]
             m == ruHour[b.hour]
  <2>0. b \in RuBuildRec /\ b.hour \in RuHours /\ m \in RuMarker
    BY <1>0, <1>22 DEF PublishHour, HourTokens
  <2>1. ruHour' = [ruHour EXCEPT ![b.hour] =
                 IF b.any THEN [state |-> 2, id |-> m.id, safe |-> b.safe] ELSE NoHour]
    BY <1>22, <2>0, PublishHourRow
  <2>2. [state |-> 2, id |-> m.id, safe |-> b.safe] \in RuMarker
    BY <2>0 DEF RuMarker, RuBuildRec
  <2>3. ruHour' \in [RuHours -> RuMarker]
    BY <1>0, <2>1, <2>2, RuNothing
  <2>4. ruBuild' \in [RuProcs -> RuBuildRec]
    BY <1>0, <1>22, RuNothing DEF PublishHour
  <2> QED
    BY <1>0, <1>22, <2>3, <2>4 DEF PublishHour, RuTyped
<1>23. ASSUME NEW p \in RuProcs, BuildFails(p) PROVE RuTyped'
  <2>1. ruBuild' \in [RuProcs -> RuBuildRec]
    BY <1>0, <1>23, RuNothing DEF BuildFails
  <2> QED
    BY <1>0, <1>23, <2>1 DEF BuildFails, RuTyped
<1>24. ASSUME NEW p \in RuProcs, CleanSlice(p) PROVE RuTyped'
  <2>1. ruCells' \in [RuHours \X RuServices -> RuCells]
    BY <1>0, <1>24, RuNothing DEF CleanSlice, DeleteCells
  <2>2. ruSlice' \in [RuProcs -> RuSliceRec]
    <3> DEFINE c == ruSlice[p]
               x == IF HasCells(c.hour) = {} THEN "read" ELSE "clean"
               y == SliceRow(x, c.hour, c.uuid, c.src, c.id, c.todo, c.group, c.acc, c.pending,
                             c.unsafe, c.done)
    <3>1. c \in RuSliceRec
      BY <1>0
    <3>2. x \in {"no", "clean", "read", "write"}
      OBVIOUS
    <3>3. ruSlice' = [ruSlice EXCEPT ![p] = y]
      BY <1>24, CleanSliceRow
    <3> HIDE DEF x
    <3>4. y \in RuSliceRec
      BY <3>1, <3>2 DEF SliceRow, RuSliceRec
    <3> HIDE DEF y
    <3> QED
      BY <1>0, <3>3, <3>4
  <2> QED
    BY <1>0, <1>24, <2>1, <2>2 DEF CleanSlice, RuTyped
<1>27. ASSUME NEW p \in RuProcs, SliceFails(p) PROVE RuTyped'
  <2>1. ruSlice' \in [RuProcs -> RuSliceRec]
    BY <1>0, <1>27, RuNothing DEF SliceFails
  <2> QED
    BY <1>0, <1>27, <2>1 DEF SliceFails, RuTyped
<1>21. ASSUME NEW p \in RuProcs, WriteChunk(p) PROVE RuTyped'
  BY <1>0, <1>21, WriteChunkTyped
<1>25. ASSUME NEW p \in RuProcs, ReadSlice(p) PROVE RuTyped'
  BY <1>0, <1>25, ReadSliceTyped
<1>26. ASSUME NEW p \in RuProcs, WriteSlice(p) PROVE RuTyped'
  BY <1>0, <1>26, WriteSliceTyped
<1> QED
  BY <1>1, <1>2, <1>3, <1>4, <1>5, <1>6, <1>7, <1>8, <1>9, <1>10, <1>11, <1>12, <1>13, <1>14,
     <1>15, <1>16, <1>17, <1>18, <1>19, <1>20, <1>21, <1>22, <1>23, <1>24, <1>25, <1>26, <1>27
     DEF RuNext

\* What a step of p may do to the tokens of the hours ...
HourMoves(h) ==
    \/ ruHour'[h] = ruHour[h]
    \/ ruHour'[h].state \in {-1, 0} /\ ruHour'[h].id = 0
    \/ ruHour'[h].state = 1 /\ ruHour'[h].id = Token /\ ruCount'.tokens = Token
    \/ ruHour[h].state = 1 /\ ruHour'[h].state = 2 /\ ruHour'[h].id = ruHour[h].id

\* ... of the summaries ...
SumMoves(h) ==
    \/ ruSum'[h].id = ruSum[h].id /\ ruSum'[h].src = ruSum[h].src
    \/ ruSum'[h].id = 0 /\ ruSum'[h].src = 0
    \/ /\ ruSum'[h].id = Token /\ ruCount'.tokens = Token /\ ruHour'[h] = ruHour[h]
       /\ ruSum'[h].src = 0 \/ (ruHour[h].state = 2 /\ ruSum'[h].src = ruHour[h].id)

\* ... of the build ...
BuildMoves(p) ==
    \/ ruBuild'[p] = ruBuild[p]
    \/ /\ ruBuild'[p].at \in {"no", "claim"} /\ ruBuild'[p].id = 0
       /\ ruBuild'[p].at = "claim" => ruBuild'[p].hour \in RuHours
    \/ /\ ruBuild[p].at = "claim" /\ ruBuild'[p].at = "clear"
       /\ ruBuild'[p].hour = ruBuild[p].hour
       /\ ruBuild'[p].id = Token /\ ruCount'.tokens = Token
    \/ /\ Building(p) /\ ruBuild'[p].at \in {"clear", "read", "chunks"}
       /\ ruBuild'[p].hour = ruBuild[p].hour /\ ruBuild'[p].id = ruBuild[p].id
       /\ ruBuild'[p].at = "chunks" => ruBuild'[p].snap \in RuGrid

\* ... and of the slice.
SliceMoves(p) ==
    \/ ruSlice'[p] = ruSlice[p]
    \/ ruSlice'[p].at = "no" /\ ruSlice'[p].id = 0 /\ ruSlice'[p].src = 0
    \/ /\ ruSlice'[p].id = Token /\ ruCount'.tokens = Token /\ ruSlice'[p].hour \in RuHours
       /\ ruHour' = ruHour /\ ruHour[ruSlice'[p].hour].state = 2
       /\ ruSlice'[p].src = ruHour[ruSlice'[p].hour].id
    \/ /\ ruSlice[p].at # "no" /\ ruSlice'[p].at # "no"
       /\ ruSlice'[p].hour = ruSlice[p].hour /\ ruSlice'[p].id = ruSlice[p].id
       /\ ruSlice'[p].src = ruSlice[p].src

TokenMoves(p) ==
    /\ \A q \in RuProcs : q # p => ruBuild'[q] = ruBuild[q] /\ ruSlice'[q] = ruSlice[q]
    /\ ruCount'.tokens = ruCount.tokens \/ ruCount'.tokens = Token
    /\ \A h \in RuHours : HourMoves(h) /\ SumMoves(h)
    /\ BuildMoves(p) /\ SliceMoves(p)

\* A step that moves tokens so hands none out twice.
LEMMA TokensKept ==
    ASSUME RuTyped, RuTyped', HourTokens, SumTokens, NEW p \in RuProcs, TokenMoves(p)
    PROVE  HourTokens' /\ SumTokens'
<1>0. /\ ruCount.tokens \in Nat /\ ruCount'.tokens \in Nat /\ Token = ruCount.tokens + 1
      /\ ruCount.tokens <= ruCount'.tokens
  BY RuTokenType DEF RuTyped, RuCountRec, TokenMoves
<1>1. /\ \A h \in RuHours : ruHour[h] \in RuMarker /\ ruHour'[h] \in RuMarker
      /\ \A h \in RuHours : ruSum[h] \in RuSumMarker /\ ruSum'[h] \in RuSumMarker
      /\ \A q \in RuProcs : ruBuild[q] \in RuBuildRec /\ ruBuild'[q] \in RuBuildRec
      /\ \A q \in RuProcs : ruSlice[q] \in RuSliceRec /\ ruSlice'[q] \in RuSliceRec
  BY DEF RuTyped
<1>a. \A h \in RuHours : /\ ruHour[h].id \in Nat /\ ruHour'[h].id \in Nat
                         /\ ruHour[h].state \in Int /\ ruHour'[h].state \in Int
  BY <1>1 DEF RuMarker
<1>b. \A h \in RuHours : /\ ruSum[h].id \in Nat /\ ruSum[h].src \in Nat
                         /\ ruSum'[h].id \in Nat /\ ruSum'[h].src \in Nat
  BY <1>1 DEF RuSumMarker
<1>c. \A q \in RuProcs : ruBuild[q].id \in Nat /\ ruBuild'[q].id \in Nat
  BY <1>1 DEF RuBuildRec
<1>d. \A q \in RuProcs : /\ ruSlice[q].id \in Nat /\ ruSlice[q].src \in Nat
                         /\ ruSlice'[q].id \in Nat /\ ruSlice'[q].src \in Nat
  BY <1>1 DEF RuSliceRec
<1>2. /\ \A h \in RuHours : /\ ruHour[h].id \in Nat /\ ruHour'[h].id \in Nat
                            /\ ruSum[h].id \in Nat /\ ruSum[h].src \in Nat
                            /\ ruSum'[h].id \in Nat /\ ruSum'[h].src \in Nat
                            /\ ruHour[h].state \in Int /\ ruHour'[h].state \in Int
      /\ \A q \in RuProcs : /\ ruBuild[q].id \in Nat /\ ruBuild'[q].id \in Nat
                            /\ ruSlice[q].id \in Nat /\ ruSlice[q].src \in Nat
                            /\ ruSlice'[q].id \in Nat /\ ruSlice'[q].src \in Nat
  BY <1>a, <1>b, <1>c, <1>d
<1>3. ASSUME NEW h \in RuHours
      PROVE  /\ ruHour'[h].id <= ruCount'.tokens
             /\ ruHour'[h].state \in {1, 2} => ruHour'[h].id > 0
  BY <1>0, <1>2 DEF HourTokens, TokenMoves, HourMoves
<1>4. ASSUME NEW q \in RuProcs
      PROVE  /\ ruBuild'[q].id <= ruCount'.tokens
             /\ ruBuild'[q].at # "no" => ruBuild'[q].hour \in RuHours
             /\ ruBuild'[q].at = "chunks" => ruBuild'[q].snap \in RuGrid
  <2>1. CASE q # p
    BY <1>0, <1>2, <2>1 DEF HourTokens, TokenMoves
  <2>2. CASE q = p
    BY <1>0, <1>2, <2>2 DEF HourTokens, TokenMoves, BuildMoves, Building
  <2> QED
    BY <2>1, <2>2
<1>5. ASSUME NEW q \in RuProcs, NEW r \in RuProcs, q # r, Building(q)', Building(r)'
      PROVE  ruBuild'[q].id # ruBuild'[r].id
  <2>1. ASSUME NEW x \in RuProcs, x # p, Building(p)', Building(x)'
        PROVE  ruBuild'[p].id # ruBuild'[x].id
    <3>1. ruBuild'[x] = ruBuild[x] /\ Building(x) /\ ruBuild[x].id <= ruCount.tokens
      BY <2>1 DEF TokenMoves, HourTokens, Building
    <3>2. Building(p) => ruBuild[p].id # ruBuild[x].id
      BY <2>1, <3>1 DEF HourTokens
    <3>3. (ruBuild'[p].id = ruBuild[p].id /\ Building(p)) \/ ruBuild'[p].id = Token
      BY <2>1 DEF TokenMoves, BuildMoves, Building
    <3> QED
      BY <1>0, <1>2, <3>1, <3>2, <3>3
  <2>2. CASE q # p /\ r # p
    BY <1>5, <2>2 DEF HourTokens, TokenMoves, Building
  <2> QED
    BY <1>5, <2>1, <2>2
<1>6. ASSUME NEW h \in RuHours
      PROVE  /\ ruSum'[h].id <= ruCount'.tokens /\ ruSum'[h].src <= ruCount'.tokens
             /\ ruHour'[h].state = 1 => ruHour'[h].id # ruSum'[h].src
  <2>1. HourMoves(h) /\ SumMoves(h)
    BY DEF TokenMoves
  <2>2. /\ ruSum[h].id <= ruCount.tokens /\ ruSum[h].src <= ruCount.tokens
        /\ ruHour[h].id <= ruCount.tokens
        /\ ruHour[h].state = 1 => ruHour[h].id # ruSum[h].src /\ ruHour[h].id > 0
    BY DEF SumTokens, HourTokens
  <2> QED
    BY <1>0, <1>2, <2>1, <2>2 DEF HourMoves, SumMoves
<1>7. ASSUME NEW q \in RuProcs
      PROVE  ruSlice'[q].id <= ruCount'.tokens /\ ruSlice'[q].src <= ruCount'.tokens
  <2>1. ruSlice[q].id <= ruCount.tokens /\ ruSlice[q].src <= ruCount.tokens
    BY DEF SumTokens
  <2>2. CASE q # p
    BY <1>0, <1>2, <2>1, <2>2 DEF TokenMoves
  <2>3. CASE q = p
    <3>1. SliceMoves(p)
      BY DEF TokenMoves
    <3>2. CASE ruSlice'[p].hour \in RuHours /\ ruSlice'[p].src = ruHour[ruSlice'[p].hour].id
               /\ ruSlice'[p].id = Token /\ ruCount'.tokens = Token
      <4>1. ruHour[ruSlice'[p].hour].id <= ruCount.tokens
        BY <3>2 DEF HourTokens
      <4> QED
        BY <1>0, <1>2, <2>3, <3>2, <4>1
    <3> QED
      BY <1>0, <1>2, <2>1, <2>3, <3>1, <3>2 DEF SliceMoves
  <2> QED
    BY <2>2, <2>3
<1>8. ASSUME NEW q \in RuProcs, ruSlice'[q].at # "no"
      PROVE  /\ ruSlice'[q].hour \in RuHours
             /\ ruHour'[ruSlice'[q].hour].state = 1 =>
                  ruHour'[ruSlice'[q].hour].id # ruSlice'[q].src
  <2>1. \/ /\ q = p /\ ruHour' = ruHour /\ ruSlice'[p].hour \in RuHours
           /\ ruHour[ruSlice'[p].hour].state = 2
        \/ /\ ruSlice[q].at # "no" /\ ruSlice'[q].hour = ruSlice[q].hour
           /\ ruSlice'[q].src = ruSlice[q].src
    BY <1>8 DEF TokenMoves, SliceMoves
  <2>2. CASE ruSlice[q].at # "no" /\ ruSlice'[q].hour = ruSlice[q].hour
             /\ ruSlice'[q].src = ruSlice[q].src
    <3> DEFINE h == ruSlice[q].hour
    <3>1. h \in RuHours /\ ruSlice[q].src <= ruCount.tokens /\ ruHour[h].id <= ruCount.tokens
      BY <2>2 DEF SumTokens, HourTokens
    <3>2. ruHour[h].state = 1 => ruHour[h].id # ruSlice[q].src
      BY <2>2 DEF SumTokens
    <3>3. HourMoves(h)
      BY <3>1 DEF TokenMoves
    <3> HIDE DEF h
    <3>4. ruHour'[h].state = 1 => ruHour'[h].id # ruSlice[q].src
      BY <1>0, <1>2, <3>1, <3>2, <3>3 DEF HourMoves
    <3> QED
      BY <2>2, <3>1, <3>4 DEF h
  <2>3. CASE q = p /\ ruHour' = ruHour /\ ruSlice'[p].hour \in RuHours
             /\ ruHour[ruSlice'[p].hour].state = 2
    BY <2>3
  <2> QED
    BY <2>1, <2>2, <2>3
<1>9. ASSUME NEW q \in RuProcs, NEW r \in RuProcs, q # r,
             ruSlice'[q].at # "no", ruSlice'[r].at # "no"
      PROVE  ruSlice'[q].id # ruSlice'[r].id
  <2>1. ASSUME NEW x \in RuProcs, x # p, ruSlice'[p].at # "no", ruSlice'[x].at # "no"
        PROVE  ruSlice'[p].id # ruSlice'[x].id
    <3>1. ruSlice'[x] = ruSlice[x] /\ ruSlice[x].at # "no" /\ ruSlice[x].id <= ruCount.tokens
      BY <2>1 DEF TokenMoves, SumTokens
    <3>2. ruSlice[p].at # "no" => ruSlice[p].id # ruSlice[x].id
      BY <2>1, <3>1 DEF SumTokens
    <3>3. (ruSlice'[p].id = ruSlice[p].id /\ ruSlice[p].at # "no") \/ ruSlice'[p].id = Token
      BY <2>1 DEF TokenMoves, SliceMoves
    <3> QED
      BY <1>0, <1>2, <3>1, <3>2, <3>3
  <2>2. CASE q # p /\ r # p
    BY <1>9, <2>2 DEF SumTokens, TokenMoves
  <2> QED
    BY <1>9, <2>1, <2>2
<1>10. HourTokens'
  BY <1>3, <1>4, <1>5 DEF HourTokens
<1>11. SumTokens'
  BY <1>6, <1>7, <1>8, <1>9 DEF SumTokens
<1> QED
  BY <1>10, <1>11

\* A step that leaves the rows and the cells of an hour alone.
SameRows(h) ==
    /\ \A s \in RuSeries : ruHourly'[<<h, s>>] = ruHourly[<<h, s>>]
    /\ \A s \in RuSeries, w \in HourWindows(h) : ruBuckets'[<<s, w>>] = ruBuckets[<<s, w>>]
SameCells(h) == \A v \in RuServices : ruCells'[<<h, v>>] = ruCells[<<h, v>>]

\* A step that publishes no hour and moves no build beyond its claim.
HoursQuiet ==
    ruTriggers' => \A h \in RuHours :
        \/ ruTriggers /\ ruHour'[h] = ruHour[h] /\ SameRows(h)
        \/ ruHour'[h].state \in {-1, 0}
        \/ ruHour'[h].state = 1 /\ ruHour'[h].id = Token
BuildsQuiet ==
    \A q \in RuProcs : ruBuild'[q] = ruBuild[q] \/ ruBuild'[q].at \notin {"read", "chunks"}

\* A step that publishes no summary and moves no slice beyond its cleaning.
SumsQuiet ==
    ruTriggers' => \A h \in RuHours :
        /\ \/ ruTriggers /\ ruHour'[h] = ruHour[h] /\ SameRows(h)
           \/ ruHour'[h].state \in {-1, 0, 1}
           \/ ruTriggers /\ ruHour[h].state = 1 /\ ruHour'[h].id = ruHour[h].id
        /\ \/ ruSum'[h] = ruSum[h] /\ SameCells(h)
           \/ ruSum'[h].state \in {-1, 0, 3}
           \/ ruSum'[h].state = 1 /\ ruSum'[h].id = Token
SlicesQuiet ==
    \A q \in RuProcs : \/ ruSlice'[q] = ruSlice[q]
                       \/ SliceShape(ruSlice'[q]) /\ ruSlice'[q].at \in {"no", "clean"}

\* The points of rows and windows that a step leaves alone.
LEMMA RuPointsSame ==
    ASSUME NEW f \in RuGrid, NEW g, NEW S \in SUBSET RuSeries, NEW W \in SUBSET RuWindows,
           \A s \in S, w \in W : g[<<s, w>>] = f[<<s, w>>]
    PROVE  PointsIn(g, S, W) = PointsIn(f, S, W)
<1>1. IsFiniteSet(S) /\ IsFiniteSet(W)
  BY RuPointsType
<1>2. \A x \in S \X W : f[x] \in Nat /\ g[x] = f[x]
  BY DEF RuGrid
<1> QED
  BY <1>1, <1>2, PointsSame

\* A true hour stays true while its rows and its marker are left alone.
LEMMA HourTrueKept ==
    ASSUME RuTyped, NEW h \in RuHours, HourTrue(h), ruHour'[h] = ruHour[h], SameRows(h)
    PROVE  HourTrue(h)'
<1> SUFFICES ASSUME NEW s \in RuSeries
             PROVE  /\ ruHourly'[<<h, s>>] = PointsIn(ruBuckets', {s}, HourWindows(h))
                    /\ ruHour'[h].safe /\ s \in RuLossy => ruHourly'[<<h, s>>] = 0
  BY DEF HourTrue, Rowed
<1>1. PointsIn(ruBuckets', {s}, HourWindows(h)) = PointsIn(ruBuckets, {s}, HourWindows(h))
  <2>1. {s} \in SUBSET RuSeries /\ HourWindows(h) \in SUBSET RuWindows /\ ruBuckets \in RuGrid
    BY DEF HourWindows, RuTyped
  <2>2. \A x \in {s}, w \in HourWindows(h) : ruBuckets'[<<x, w>>] = ruBuckets[<<x, w>>]
    BY DEF SameRows
  <2> QED
    BY <2>1, <2>2, RuPointsSame
<1> QED
  BY <1>1 DEF HourTrue, Rowed, SameRows

\* A true build stays true while its rows and itself are left alone.
LEMMA BuildTrueKept ==
    ASSUME RuTyped, NEW q \in RuProcs, BuildTrue(q), ruBuild'[q] = ruBuild[q],
           SameRows(ruBuild[q].hour)
    PROVE  BuildTrue(q)'
<1> DEFINE b == ruBuild[q]
           h == b.hour
<1>1. \A s \in RuSeries : PointsIn(ruBuckets', {s}, HourWindows(h)) =
                          PointsIn(ruBuckets, {s}, HourWindows(h))
  <2> SUFFICES ASSUME NEW s \in RuSeries
               PROVE  PointsIn(ruBuckets', {s}, HourWindows(h)) =
                          PointsIn(ruBuckets, {s}, HourWindows(h))
    OBVIOUS
  <2>1. {s} \in SUBSET RuSeries /\ HourWindows(h) \in SUBSET RuWindows /\ ruBuckets \in RuGrid
    BY DEF HourWindows, RuTyped
  <2>2. \A x \in {s}, w \in HourWindows(h) : ruBuckets'[<<x, w>>] = ruBuckets[<<x, w>>]
    BY DEF SameRows
  <2> QED
    BY <2>1, <2>2, RuPointsSame
<1>2. b.todo \in SUBSET RuSeries
  BY DEF RuTyped, RuBuildRec
<1>3. \A s \in RuSeries : ruHourly'[<<h, s>>] = ruHourly[<<h, s>>]
  BY DEF SameRows
<1>4. \A s \in RuSeries, w \in HourWindows(h) : ruBuckets'[<<s, w>>] = ruBuckets[<<s, w>>]
  BY DEF SameRows
<1> QED
  BY <1>1, <1>2, <1>3, <1>4 DEF BuildTrue, Rowed

\* Quiet steps keep the hours and the builds true.
LEMMA BuildsKept ==
    ASSUME RuTyped, RuTyped', HourTokens, ruTriggers => HoursTrue /\ BuildsTrue,
           HoursQuiet, BuildsQuiet
    PROVE  (ruTriggers => HoursTrue /\ BuildsTrue)'
<1> SUFFICES ASSUME ruTriggers' PROVE HoursTrue' /\ BuildsTrue'
  OBVIOUS
<1>1. ASSUME NEW h \in RuHours, ruHour'[h].state = 2 PROVE HourTrue(h)'
  <2>1. ruTriggers /\ ruHour'[h] = ruHour[h] /\ SameRows(h)
    BY <1>1 DEF HoursQuiet
  <2>2. HourTrue(h)
    BY <1>1, <2>1 DEF HoursTrue
  <2> QED
    BY <2>1, <2>2, HourTrueKept
<1>2. ASSUME NEW q \in RuProcs, Building(q)', CheckBuild(q)' PROVE BuildTrue(q)'
  <2>1. CASE ruBuild'[q].at \notin {"read", "chunks"}
    BY <2>1 DEF BuildTrue
  <2>2. CASE ruBuild'[q] = ruBuild[q]
    <3> DEFINE b == ruBuild[q]
               h == b.hour
    <3>0. Building(q) /\ h \in RuHours /\ b.id <= ruCount.tokens
      BY <1>2, <2>2 DEF Building, HourTokens
    <3>1. ruHour'[h].state = 1 /\ ruHour'[h].id = b.id
      BY <1>2, <2>2 DEF CheckBuild
    <3>2. ruHour'[h].id # Token
      BY <3>0, <3>1, RuTokenType DEF RuTyped, RuBuildRec
    <3>3. ruTriggers /\ ruHour'[h] = ruHour[h] /\ SameRows(h)
      BY <3>0, <3>1, <3>2 DEF HoursQuiet
    <3>4. BuildTrue(q)
      BY <3>0, <3>1, <3>3 DEF BuildsTrue, CheckBuild
    <3> QED
      BY <2>2, <3>0, <3>3, <3>4, BuildTrueKept
  <2> QED
    BY <2>1, <2>2 DEF BuildsQuiet
<1>3. HoursTrue'
  BY <1>1 DEF HoursTrue
<1>4. BuildsTrue'
  BY <1>2 DEF BuildsTrue
<1> QED
  BY <1>3, <1>4

\* Cells that are together stay together while the rows and the windows are left alone.
LEMMA TogetherKept ==
    ASSUME RuTyped, NEW h \in RuHours, NEW a, NEW b, NEW c, NEW T \in SUBSET RuSeries,
           Together(h, a, b, c, T), SameRows(h)
    PROVE  /\ a.total + b.total + c.total = PointsIn(ruHourly', {h}, T)
           /\ \A w \in HourWindows(h) :
                a.windows[w] + b.windows[w] + c.windows[w] = PointsIn(ruBuckets', T, {w})
           /\ \A s \in T \cap RuLossy :
                ruHourly'[<<h, s>>] > 0 => a.sketch = 2 \/ b.sketch = 2 \/ c.sketch = 2
<1>1. PointsIn(ruHourly', {h}, T) = PointsIn(ruHourly, {h}, T)
  <2>1. IsFiniteSet({h}) /\ IsFiniteSet(T)
    BY RuAssumption, FS_Singleton, FS_Subset
  <2>2. \A x \in {h} \X T : ruHourly[x] \in Nat /\ ruHourly'[x] = ruHourly[x]
    BY DEF RuTyped, SameRows
  <2> QED
    BY <2>1, <2>2, PointsSame
<1>2. ASSUME NEW w \in HourWindows(h)
      PROVE  PointsIn(ruBuckets', T, {w}) = PointsIn(ruBuckets, T, {w})
  <2>1. {w} \in SUBSET RuWindows /\ ruBuckets \in RuGrid
    BY DEF HourWindows, RuTyped
  <2>2. \A s \in T, x \in {w} : ruBuckets'[<<s, x>>] = ruBuckets[<<s, x>>]
    BY DEF SameRows
  <2> QED
    BY <2>1, <2>2, RuPointsSame
<1> QED
  BY <1>1, <1>2 DEF Together, SameRows

\* A true summary stays true while its marker, its cells and its rows are left alone.
LEMMA SumTrueKept ==
    ASSUME RuTyped, NEW h \in RuHours, SumTrue(h), ruSum'[h] = ruSum[h], SameCells(h), SameRows(h)
    PROVE  SumTrue(h)'
<1>1. ASSUME NEW v \in RuServices
      PROVE  Together(h, ruCells[<<h, v>>], NoCells, NoCells, SeriesOfService(v))'
  <2> DEFINE a == ruCells[<<h, v>>]
             T == SeriesOfService(v)
  <2>1. Together(h, a, NoCells, NoCells, T) /\ T \in SUBSET RuSeries
    BY DEF SumTrue, SeriesOfService
  <2>2. ruCells'[<<h, v>>] = a
    BY DEF SameCells
  <2> HIDE DEF a, T
  <2>3. /\ a.total + NoCells.total + NoCells.total = PointsIn(ruHourly', {h}, T)
        /\ \A w \in HourWindows(h) : a.windows[w] + NoCells.windows[w] + NoCells.windows[w]
                                       = PointsIn(ruBuckets', T, {w})
        /\ \A s \in T \cap RuLossy :
             ruHourly'[<<h, s>>] > 0 => a.sketch = 2 \/ NoCells.sketch = 2 \/ NoCells.sketch = 2
    BY <2>1, TogetherKept
  <2> QED
    BY <2>2, <2>3 DEF Together, T
<1>2. ruSum'[h].state = 2 => Plain(h, RuSeries)'
  BY DEF SumTrue, Plain, SameRows
<1> QED
  BY <1>1, <1>2 DEF SumTrue

\* A true slice stays true while itself, the cells of its hour and its rows are left alone.
LEMMA SliceTrueKept ==
    ASSUME RuTyped, NEW q \in RuProcs, SliceTrue(q), ruSlice'[q] = ruSlice[q],
           NEW h \in RuHours, h = ruSlice[q].hour, SameCells(h), SameRows(h)
    PROVE  SliceTrue(q)'
<1> DEFINE c == ruSlice[q]
<1>1. ASSUME NEW v \in RuServices
      PROVE  Together(h, ruCells[<<h, v>>], Pend(c, v), Acc(c, v),
                      (RuSeries \ c.todo) \cap SeriesOfService(v))'
  <2> DEFINE a == ruCells[<<h, v>>]
             T == (RuSeries \ c.todo) \cap SeriesOfService(v)
             x == Pend(c, v)
             y == Acc(c, v)
  <2>1. Together(h, a, x, y, T) /\ T \in SUBSET RuSeries
    BY DEF SliceTrue
  <2>2. ruCells'[<<h, v>>] = a
    BY DEF SameCells
  <2>3. /\ Pend(ruSlice'[q], v) = x /\ Acc(ruSlice'[q], v) = y
        /\ (RuSeries \ ruSlice'[q].todo) \cap SeriesOfService(v) = T
    OBVIOUS
  <2> HIDE DEF a, T, x, y
  <2>4. /\ a.total + x.total + y.total = PointsIn(ruHourly', {h}, T)
        /\ \A w \in HourWindows(h) : a.windows[w] + x.windows[w] + y.windows[w]
                                       = PointsIn(ruBuckets', T, {w})
        /\ \A s \in T \cap RuLossy :
             ruHourly'[<<h, s>>] > 0 => a.sketch = 2 \/ x.sketch = 2 \/ y.sketch = 2
    BY ONLY <2>1, TogetherKept, RuTyped, h \in RuHours, SameRows(h)
  <2> QED
    BY <2>2, <2>3, <2>4 DEF Together
<1>2. ~ ruSlice'[q].unsafe => Plain(h, RuSeries \ c.todo)'
  BY DEF SliceTrue, Plain, SameRows
<1>3. ruSlice'[q].hour = h
  OBVIOUS
<1> QED
  BY <1>1, <1>2, <1>3 DEF SliceTrue

\* Quiet steps keep the summaries and the slices true.
LEMMA SumsKept ==
    ASSUME RuTyped, RuTyped', HourTokens, SumTokens, ruTriggers => SumsTrue, SlicesTrue,
           SumsQuiet, SlicesQuiet
    PROVE  (ruTriggers => SumsTrue)' /\ SlicesTrue'
<1>0. ASSUME NEW h \in RuHours, ruTriggers', ruHour'[h].state = 2
      PROVE  \/ ruTriggers /\ ruHour'[h] = ruHour[h] /\ SameRows(h)
             \/ ruHour[h].state = 1 /\ ruHour'[h].id = ruHour[h].id
  BY <1>0 DEF SumsQuiet
<1>1. ASSUME ruTriggers', NEW h \in RuHours, ruSum'[h].state \in {2, 4}, SourceCurrent(h)'
      PROVE  SumTrue(h)'
  <2>1. ruHour'[h].state = 2 /\ ruSum'[h].src = ruHour'[h].id
    BY <1>1 DEF SourceCurrent
  <2>2. ruSum'[h] = ruSum[h] /\ SameCells(h)
    BY <1>1 DEF SumsQuiet
  <2>3. ruTriggers /\ ruHour'[h] = ruHour[h] /\ SameRows(h)
    BY <1>0, <1>1, <2>1, <2>2 DEF SumTokens
  <2>4. SumTrue(h)
    BY <1>1, <2>1, <2>2, <2>3 DEF SumsTrue, SourceCurrent
  <2> QED
    BY <2>2, <2>3, <2>4, SumTrueKept
<1>2. ASSUME NEW q \in RuProcs PROVE SliceShape(ruSlice[q])'
  BY DEF SlicesQuiet, SlicesTrue, SliceShape
<1>3. ASSUME NEW q \in RuProcs, ruTriggers', ruSlice'[q].at \in {"read", "write"}, SliceHolds(q)'
      PROVE  SliceTrue(q)'
  <2> DEFINE c == ruSlice[q]
  <2>1. ruSlice'[q] = c
    BY <1>3 DEF SlicesQuiet
  <2>2. c.id <= ruCount.tokens /\ c \in RuSliceRec
    BY <1>3, <2>1 DEF SumTokens, RuTyped
  <2>h. PICK h \in RuHours : h = c.hour
    BY <1>3, <2>1 DEF SumTokens
  <2>3. /\ ruSum'[h] = [state |-> 1, id |-> c.id, src |-> c.src]
        /\ ruHour'[h].state = 2 /\ ruHour'[h].id = c.src
    BY <1>3, <2>1, <2>h DEF SliceHolds
  <2>4. ruTriggers /\ ruHour'[h] = ruHour[h] /\ SameRows(h)
    BY <1>0, <1>3, <2>1, <2>h, <2>3 DEF SumTokens
  <2>5. ruSum'[h] = ruSum[h] /\ SameCells(h)
    <3>1. ruSum'[h].state = 1 /\ ruSum'[h].id = c.id
      BY <2>3
    <3>2. c.id # Token
      BY <2>2, RuTokenType DEF RuSliceRec
    <3> QED
      BY <1>3, <3>1, <3>2 DEF SumsQuiet
  <2>6. SliceTrue(q)
    BY <1>3, <2>1, <2>h, <2>3, <2>4, <2>5 DEF SlicesTrue, SliceHolds
  <2> QED
    BY <2>1, <2>h, <2>4, <2>5, <2>6, SliceTrueKept
<1>4. (ruTriggers => SumsTrue)'
  BY <1>1 DEF SumsTrue
<1>5. SlicesTrue'
  BY <1>2, <1>3 DEF SlicesTrue
<1> QED
  BY <1>4, <1>5

\* A step of p on the hour it summarizes: it leaves the other hours alone, and no other slice
\* has the token of that hour.
LEMMA OtherSlicesKept ==
    ASSUME RuTyped, RuTyped', SumTokens, ruTriggers => SumsTrue, SlicesTrue,
           NEW p \in RuProcs, ruSlice[p].at # "no", SliceHolds(p),
           NEW k, k = ruSlice[p].hour,
           ruTriggers' = ruTriggers, ruHour' = ruHour, ruHourly' = ruHourly, ruBuckets' = ruBuckets,
           \A q \in RuProcs : q # p => ruSlice'[q] = ruSlice[q],
           \A h \in RuHours : h # k => ruSum'[h] = ruSum[h] /\ SameCells(h),
           ruSum'[k].id = ruSum[k].id,
           SliceShape(ruSlice[p])',
           ruTriggers' /\ ruSlice'[p].at \in {"read", "write"} /\ SliceHolds(p)' => SliceTrue(p)',
           ruTriggers' /\ ruSum'[k].state \in {2, 4} => SumTrue(k)'
    PROVE  (ruTriggers => SumsTrue)' /\ SlicesTrue'
<1>0. \A h : SameRows(h)
  BY DEF SameRows
<1>1. ASSUME ruTriggers', NEW h \in RuHours, ruSum'[h].state \in {2, 4}, SourceCurrent(h)'
      PROVE  SumTrue(h)'
  <2>1. CASE h = k
    BY <1>1, <2>1
  <2>2. CASE h # k
    <3>1. ruSum'[h] = ruSum[h] /\ SameCells(h) /\ SumTrue(h)
      BY <1>1, <2>2 DEF SumsTrue, SourceCurrent
    <3> QED
      BY <1>0, <3>1, SumTrueKept
  <2> QED
    BY <2>1, <2>2
<1>2. ASSUME NEW q \in RuProcs PROVE SliceShape(ruSlice[q])'
  <2>1. CASE q = p
    BY <2>1
  <2>2. CASE q # p
    BY <2>2 DEF SlicesTrue, SliceShape
  <2> QED
    BY <2>1, <2>2
<1>3. ASSUME NEW q \in RuProcs, ruTriggers', ruSlice'[q].at \in {"read", "write"}, SliceHolds(q)'
      PROVE  SliceTrue(q)'
  <2>1. CASE q = p
    BY <1>3, <2>1
  <2>2. CASE q # p
    <3>1. ruSlice'[q] = ruSlice[q]
      BY <2>2
    <3>h. PICK h \in RuHours : h = ruSlice[q].hour
      BY <1>3, <3>1 DEF SumTokens
    <3>2. /\ ruSum'[h] = [state |-> 1, id |-> ruSlice[q].id, src |-> ruSlice[q].src]
          /\ ruHour[h].state = 2 /\ ruHour[h].id = ruSlice[q].src
      BY <1>3, <3>1, <3>h DEF SliceHolds
    <3>3. h # k
      <4>1. ruSlice[q].id # ruSlice[p].id
        BY <1>3, <2>2, <3>1 DEF SumTokens
      <4>2. ruSum[k].id = ruSlice[p].id
        BY DEF SliceHolds
      <4> QED
        BY <3>2, <4>1, <4>2
    <3>4. ruSum'[h] = ruSum[h] /\ SameCells(h)
      BY <3>3
    <3>5. SliceTrue(q)
      BY <1>3, <3>1, <3>h, <3>2, <3>4 DEF SlicesTrue, SliceHolds
    <3> QED
      BY <1>0, <3>1, <3>h, <3>4, <3>5, SliceTrueKept
  <2> QED
    BY <2>1, <2>2
<1>4. (ruTriggers => SumsTrue)'
  BY <1>1 DEF SumsTrue
<1>5. SlicesTrue'
  BY <1>2, <1>3 DEF SlicesTrue
<1> QED
  BY <1>4, <1>5

\* A step of p that hands out its tokens and is quiet about hours, summaries and slices.
RuQuiet(p) == TokenMoves(p) /\ HoursQuiet /\ BuildsQuiet /\ SumsQuiet /\ SlicesQuiet

\* Nothing is at "no", without a token.
LEMMA RuIdle ==
    /\ NoBuild.at = "no" /\ NoBuild.id = 0
    /\ NoSlice.at = "no" /\ NoSlice.id = 0 /\ NoSlice.src = 0 /\ SliceShape(NoSlice)
    /\ NoHour.state = -1 /\ NoHour.id = 0 /\ NoSum.state = -1 /\ NoSum.id = 0 /\ NoSum.src = 0
<1>1. NoBuild.at = "no" /\ NoBuild.id = 0
  BY DEF NoBuild
<1>2. NoSlice.at = "no" /\ NoSlice.id = 0 /\ NoSlice.src = 0 /\ ~ NoSlice.done /\ NoSlice.pending = {}
  BY DEF NoSlice
<1>3. NoHour.state = -1 /\ NoHour.id = 0 /\ NoSum.state = -1 /\ NoSum.id = 0 /\ NoSum.src = 0
  BY DEF NoHour, NoSum
<1> QED
  BY <1>1, <1>2, <1>3 DEF SliceShape

\* A step that leaves the tables alone is quiet if the work of p is.
LEMMA QuietData ==
    ASSUME RuTyped, NEW p \in RuProcs,
           ruHour' = ruHour, ruHourly' = ruHourly, ruBuckets' = ruBuckets, ruSum' = ruSum,
           ruCells' = ruCells, ruTriggers' = ruTriggers, ruCount'.tokens = ruCount.tokens,
           \A q \in RuProcs : q # p => ruBuild'[q] = ruBuild[q] /\ ruSlice'[q] = ruSlice[q],
           BuildMoves(p), SliceMoves(p), BuildsQuiet, SlicesQuiet
    PROVE  RuQuiet(p)
BY DEF RuQuiet, TokenMoves, HourMoves, SumMoves, HoursQuiet, SumsQuiet, SameRows, SameCells

\* So is one that leaves the work alone too.
LEMMA QuietWork ==
    ASSUME RuTyped, NEW p \in RuProcs,
           ruHour' = ruHour, ruHourly' = ruHourly, ruBuckets' = ruBuckets, ruSum' = ruSum,
           ruCells' = ruCells, ruTriggers' = ruTriggers, ruCount'.tokens = ruCount.tokens,
           ruBuild' = ruBuild, ruSlice' = ruSlice
    PROVE  RuQuiet(p)
<1>1. BuildMoves(p) /\ SliceMoves(p) /\ BuildsQuiet /\ SlicesQuiet
  BY DEF BuildMoves, SliceMoves, BuildsQuiet, SlicesQuiet
<1> QED
  BY <1>1, QuietData

\* Opening and closing the store.
LEMMA QuietOpen ==
    ASSUME RuTyped, NEW p \in RuProcs,
           \/ Inspect(p) \/ CreateSchema(p) \/ PurgeSummaries(p) \/ PurgeEnds(p)
           \/ \E w \in RuWindows : BeginPurge(p, w + 1)
    PROVE  RuQuiet(p)
<1>1. /\ ruHour' = ruHour /\ ruHourly' = ruHourly /\ ruBuckets' = ruBuckets /\ ruSum' = ruSum
      /\ ruCells' = ruCells /\ ruTriggers' = ruTriggers
      /\ ruBuild' = ruBuild /\ ruSlice' = ruSlice
  BY DEF Inspect, CreateSchema, PurgeSummaries, PurgeEnds, BeginPurge, ruStoreVars,
         ruRollupVars, ruSummaryVars
<1>2. ruCount'.tokens = ruCount.tokens
  BY DEF Inspect, CreateSchema, PurgeSummaries, PurgeEnds, BeginPurge, Counter, RuTyped, RuCountRec
<1> QED
  BY <1>1, <1>2, QuietWork

\* Work that starts or is given up.
LEMMA QuietGiveUp ==
    ASSUME RuTyped, NEW p \in RuProcs,
           \/ Stop(p) \/ BuildFails(p) \/ SliceFails(p)
           \/ \E h \in RuHours : PickHour(p, h)
    PROVE  RuQuiet(p)
<1>1. /\ ruHour' = ruHour /\ ruHourly' = ruHourly /\ ruBuckets' = ruBuckets /\ ruSum' = ruSum
      /\ ruCells' = ruCells /\ ruTriggers' = ruTriggers /\ ruCount' = ruCount
  BY DEF Stop, BuildFails, SliceFails, PickHour, ruStoreVars, ruRollupVars, ruSummaryVars
<1>2. /\ \/ ruBuild' = ruBuild \/ ruBuild' = [ruBuild EXCEPT ![p] = NoBuild]
         \/ \E h \in RuHours :
              ruBuild' = [ruBuild EXCEPT ![p] = BuildRow("claim", h, 0, <<>>, {}, FALSE, TRUE)]
      /\ ruSlice' = ruSlice \/ ruSlice' = [ruSlice EXCEPT ![p] = NoSlice]
  <2>1. CASE \E h \in RuHours : PickHour(p, h)
    <3>1. PICK h \in RuHours : PickHour(p, h)
      BY <2>1
    <3>2. ruSlice' = ruSlice
      BY <3>1 DEF PickHour
    <3> QED
      BY <3>1, <3>2, PickHourRow
  <2> QED
    BY <2>1 DEF Stop, BuildFails, SliceFails
<1>3. ruBuild \in [RuProcs -> RuBuildRec] /\ ruSlice \in [RuProcs -> RuSliceRec]
  BY DEF RuTyped
<1>4. /\ \A q \in RuProcs : q # p => ruBuild'[q] = ruBuild[q] /\ ruSlice'[q] = ruSlice[q]
      /\ ruSlice'[p] = ruSlice[p] \/ ruSlice'[p] = NoSlice
      /\ \/ ruBuild'[p] = ruBuild[p] \/ ruBuild'[p] = NoBuild
         \/ \E h \in RuHours : ruBuild'[p] = BuildRow("claim", h, 0, <<>>, {}, FALSE, TRUE)
  <2>1. /\ \A q \in RuProcs : q # p => ruSlice'[q] = ruSlice[q]
        /\ ruSlice'[p] = ruSlice[p] \/ ruSlice'[p] = NoSlice
    BY <1>2, <1>3
  <2>2. /\ \A q \in RuProcs : q # p => ruBuild'[q] = ruBuild[q]
        /\ \/ ruBuild'[p] = ruBuild[p] \/ ruBuild'[p] = NoBuild
           \/ \E h \in RuHours : ruBuild'[p] = BuildRow("claim", h, 0, <<>>, {}, FALSE, TRUE)
    BY <1>2, <1>3, Zenon
  <2> QED
    BY <2>1, <2>2
<1>5. \/ ruBuild'[p] = ruBuild[p]
      \/ /\ ruBuild'[p].at \in {"no", "claim"} /\ ruBuild'[p].id = 0
         /\ ruBuild'[p].at = "claim" => ruBuild'[p].hour \in RuHours
  <2>1. CASE \E h \in RuHours : ruBuild'[p] = BuildRow("claim", h, 0, <<>>, {}, FALSE, TRUE)
    <3>1. PICK h \in RuHours : ruBuild'[p] = BuildRow("claim", h, 0, <<>>, {}, FALSE, TRUE)
      BY <2>1
    <3> DEFINE y == BuildRow("claim", h, 0, <<>>, {}, FALSE, TRUE)
    <3>2. y.at = "claim" /\ y.hour = h /\ y.id = 0
      BY DEF BuildRow
    <3> HIDE DEF y
    <3>3. ruBuild'[p] = y
      BY <3>1, Zenon DEF y
    <3> QED
      BY <3>2, <3>3
  <2> QED
    BY <1>4, <2>1, RuIdle
<1>6. BuildMoves(p) /\ SliceMoves(p)
  BY <1>4, <1>5, RuIdle DEF BuildMoves, SliceMoves
<1>7. BuildsQuiet
  BY <1>4, <1>5 DEF BuildsQuiet
<1>8. SlicesQuiet
  BY <1>4, RuIdle DEF SlicesQuiet
<1> QED
  BY <1>1, <1>4, <1>6, <1>7, <1>8, QuietData

\* A change of the buckets takes the marker of its hour with it, while there are triggers.
LEMMA QuietBuckets ==
    ASSUME RuTyped, NEW p \in RuProcs, NEW w \in RuWindows, Invalidate(w),
           \A s \in RuSeries, x \in RuWindows :
               x # w => ruBuckets'[<<s, x>>] = ruBuckets[<<s, x>>],
           ruHourly' = ruHourly, ruSum' = ruSum, ruCells' = ruCells, ruTriggers' = ruTriggers,
           ruCount'.tokens = ruCount.tokens, ruBuild' = ruBuild, ruSlice' = ruSlice
    PROVE  RuQuiet(p)
<1>1. BuildMoves(p) /\ SliceMoves(p) /\ BuildsQuiet /\ SlicesQuiet
  BY DEF BuildMoves, SliceMoves, BuildsQuiet, SlicesQuiet
<1>2. ASSUME NEW h \in RuHours
      PROVE  \/ ~ ruTriggers /\ ruHour'[h] = ruHour[h]
             \/ ruTriggers /\ ruHour'[h] = ruHour[h] /\ SameRows(h)
             \/ ruHour'[h].state = -1 /\ ruHour'[h].id = 0
  <2>1. CASE ~ ruTriggers
    BY <2>1 DEF Invalidate
  <2>2. CASE ruTriggers /\ h = HourStart(w)
    BY <2>2, RuIdle DEF Invalidate, RuTyped
  <2>3. CASE ruTriggers /\ h # HourStart(w)
    <3>1. ruHour'[h] = ruHour[h]
      BY <2>3 DEF Invalidate, RuTyped
    <3>2. \A x \in HourWindows(h) : x \in RuWindows /\ x # w
      BY <2>3 DEF HourWindows
    <3>3. SameRows(h)
      BY <3>2 DEF SameRows
    <3> QED
      BY <2>3, <3>1, <3>3
  <2> QED
    BY <2>1, <2>2, <2>3
<1>3. \A h \in RuHours : HourMoves(h) /\ SumMoves(h)
  BY <1>2 DEF HourMoves, SumMoves
<1>4. HoursQuiet
  BY <1>2 DEF HoursQuiet
<1>5. SumsQuiet
  BY <1>2 DEF SumsQuiet, SameCells
<1> QED
  BY <1>1, <1>3, <1>4, <1>5 DEF RuQuiet, TokenMoves

\* Finalization and purge.
LEMMA QuietAdd ==
    ASSUME RuTyped, NEW p \in RuProcs, NEW s \in RuSeries, NEW w \in RuWindows, AddToBucket(p, s, w)
    PROVE  RuQuiet(p)
<1>1. /\ ruHourly' = ruHourly /\ ruSum' = ruSum /\ ruCells' = ruCells /\ ruTriggers' = ruTriggers
      /\ ruBuild' = ruBuild /\ ruSlice' = ruSlice /\ Invalidate(w)
      /\ ruBuckets' = [ruBuckets EXCEPT ![<<s, w>>] = @ + 1]
  BY DEF AddToBucket, ruSummaryVars, ruWorkVars
<1>2. ruCount'.tokens = ruCount.tokens
  BY DEF AddToBucket, Counter, RuTyped, RuCountRec
<1>3. \A x \in RuSeries, y \in RuWindows : y # w => ruBuckets'[<<x, y>>] = ruBuckets[<<x, y>>]
  BY <1>1 DEF RuTyped, RuGrid
<1> QED
  BY <1>1, <1>2, <1>3, QuietBuckets

\* A purged window takes the marker of its hour with it.
LEMMA QuietPurge ==
    ASSUME RuTyped, NEW p \in RuProcs, NEW w \in RuWindows, PurgeRow(p, w)
    PROVE  RuQuiet(p)
<1>1. /\ ruHourly' = ruHourly /\ ruSum' = ruSum /\ ruCells' = ruCells /\ ruTriggers' = ruTriggers
      /\ ruBuild' = ruBuild /\ ruSlice' = ruSlice /\ Invalidate(w)
      /\ ruBuckets' = [x \in DOMAIN ruBuckets |-> IF x[2] = w THEN 0 ELSE ruBuckets[x]]
      /\ ruCount'.tokens = ruCount.tokens
  BY DEF PurgeRow, ruSummaryVars, ruWorkVars
<1>3. \A x \in RuSeries, y \in RuWindows : y # w => ruBuckets'[<<x, y>>] = ruBuckets[<<x, y>>]
  BY <1>1 DEF RuTyped, RuGrid
<1> QED
  BY <1>1, <1>3, QuietBuckets

\* A rebuild drops the triggers with the tables.
LEMMA QuietDrop ==
    ASSUME RuTyped, NEW p \in RuProcs, DropTables(p)
    PROVE  RuQuiet(p)
<1>1. /\ ruHour' = ruHour /\ ruSum' = ruSum /\ ~ ruTriggers' /\ ruCount' = ruCount
      /\ ruBuild' = ruBuild /\ ruSlice' = ruSlice
  BY DEF DropTables, ruRollupVars, ruSummaryVars
<1> QED
  BY <1>1 DEF RuQuiet, TokenMoves, HourMoves, SumMoves, BuildMoves, SliceMoves, HoursQuiet,
              BuildsQuiet, SumsQuiet, SlicesQuiet

\* Claims made for another store, or without triggers, are void.
LEMMA QuietEnsureRollup ==
    ASSUME RuTyped, NEW p \in RuProcs, EnsureRollup(p)
    PROVE  RuQuiet(p)
<1>1. /\ ruHourly' = ruHourly /\ ruBuckets' = ruBuckets /\ ruSum' = ruSum /\ ruCells' = ruCells
      /\ ruCount' = ruCount /\ ruBuild' = ruBuild /\ ruSlice' = ruSlice
  BY DEF EnsureRollup, ruSummaryVars
<1>2. ASSUME NEW h \in RuHours
      PROVE  \/ ruTriggers /\ ruHour'[h] = ruHour[h] /\ SameRows(h)
             \/ ruHour'[h].state \in {-1, 0} /\ ruHour'[h].id = 0
  <2>1. CASE ruOwner # ruProc[p].uuid \/ ~ ruTriggers
    <3>1. ruHour'[h] = [NoHour EXCEPT !.state = 0] \/ ruHour'[h] = NoHour
      BY <2>1 DEF EnsureRollup
    <3> QED
      BY <3>1, RuNothing, RuIdle
  <2>2. CASE ~ (ruOwner # ruProc[p].uuid \/ ~ ruTriggers)
    BY <1>1, <2>2 DEF EnsureRollup, SameRows
  <2> QED
    BY <2>1, <2>2
<1>3. HoursQuiet /\ SumsQuiet
  BY <1>1, <1>2 DEF HoursQuiet, SumsQuiet, SameCells
<1>4. \A h \in RuHours : HourMoves(h) /\ SumMoves(h)
  BY <1>1, <1>2 DEF HourMoves, SumMoves
<1> QED
  BY <1>1, <1>3, <1>4 DEF RuQuiet, TokenMoves, BuildMoves, SliceMoves, BuildsQuiet, SlicesQuiet

\* Summaries of another store are void.
LEMMA QuietEnsureSummary ==
    ASSUME RuTyped, NEW p \in RuProcs, EnsureSummary(p)
    PROVE  RuQuiet(p)
<1>1. /\ ruHourly' = ruHourly /\ ruBuckets' = ruBuckets /\ ruHour' = ruHour /\ ruCells' = ruCells
      /\ ruCount' = ruCount /\ ruBuild' = ruBuild /\ ruSlice' = ruSlice /\ ruTriggers' = ruTriggers
  BY DEF EnsureSummary, ruRollupVars, ruStoreVars
<1>2. ASSUME NEW h \in RuHours
      PROVE  \/ ruSum'[h] = ruSum[h]
             \/ ruSum'[h].state \in {-1, 0} /\ ruSum'[h].id = 0 /\ ruSum'[h].src = 0
  <2>1. CASE ruSumOwner # ruProc[p].uuid
    <3>1. ruSum'[h] = [NoSum EXCEPT !.state = 0] \/ ruSum'[h] = NoSum
      BY <2>1 DEF EnsureSummary
    <3> QED
      BY <3>1, RuNothing, RuIdle
  <2>2. CASE ruSumOwner = ruProc[p].uuid
    BY <1>1, <2>2 DEF EnsureSummary
  <2> QED
    BY <2>1, <2>2
<1>3. HoursQuiet /\ SumsQuiet
  BY <1>1, <1>2 DEF HoursQuiet, SumsQuiet, SameCells, SameRows
<1>4. \A h \in RuHours : HourMoves(h) /\ SumMoves(h)
  BY <1>1, <1>2 DEF HourMoves, SumMoves
<1> QED
  BY <1>1, <1>3, <1>4 DEF RuQuiet, TokenMoves, BuildMoves, SliceMoves, BuildsQuiet, SlicesQuiet

\* Hours that are found, and hours that are claimed.
LEMMA QuietDiscover ==
    ASSUME RuTyped, NEW p \in RuProcs, NEW h \in RuHours, Discover(p, h)
    PROVE  RuQuiet(p)
<1>1. /\ ruHourly' = ruHourly /\ ruBuckets' = ruBuckets /\ ruSum' = ruSum /\ ruCells' = ruCells
      /\ ruCount' = ruCount /\ ruBuild' = ruBuild /\ ruSlice' = ruSlice /\ ruTriggers' = ruTriggers
  BY DEF Discover, ruSummaryVars, ruStoreVars, ruWorkVars
<1>2. ASSUME NEW x \in RuHours
      PROVE  ruHour'[x] = ruHour[x] \/ (ruHour'[x].state = 0 /\ ruHour'[x].id = 0)
  BY RuNothing DEF Discover, RuTyped
<1>3. HoursQuiet /\ SumsQuiet
  BY <1>1, <1>2 DEF HoursQuiet, SumsQuiet, SameCells, SameRows
<1>4. \A x \in RuHours : HourMoves(x) /\ SumMoves(x)
  BY <1>1, <1>2 DEF HourMoves, SumMoves
<1> QED
  BY <1>1, <1>3, <1>4 DEF RuQuiet, TokenMoves, BuildMoves, SliceMoves, BuildsQuiet, SlicesQuiet

\* A claim puts a token into the hour that no build has had.
LEMMA QuietClaimHour ==
    ASSUME RuTyped, HourTokens, NEW p \in RuProcs, ClaimHour(p)
    PROVE  RuQuiet(p)
<1> DEFINE b == ruBuild[p]
           y == BuildRow("clear", b.hour, Token, b.snap, b.todo, b.any, b.safe)
<1>1. /\ ruHourly' = ruHourly /\ ruBuckets' = ruBuckets /\ ruSum' = ruSum /\ ruCells' = ruCells
      /\ ruSlice' = ruSlice /\ ruTriggers' = ruTriggers /\ FreshToken /\ b.at = "claim"
      /\ ruHour' = [ruHour EXCEPT ![b.hour] = [state |-> 1, id |-> Token, safe |-> FALSE]]
  BY DEF ClaimHour, ruSummaryVars, ruStoreVars
<1>2. ruCount'.tokens = Token
  BY <1>1, RuFresh
<1>3. ASSUME NEW x \in RuHours
      PROVE  ruHour'[x] = ruHour[x] \/ (ruHour'[x].state = 1 /\ ruHour'[x].id = Token)
  BY <1>1 DEF RuTyped
<1>4. ruBuild' = [ruBuild EXCEPT ![p] = y]
  BY ClaimHourRow
<1>5. y.at = "clear" /\ y.hour = b.hour /\ y.id = Token
  BY DEF BuildRow
<1> HIDE DEF y
<1>6. ruBuild'[p] = y /\ \A q \in RuProcs : q # p => ruBuild'[q] = ruBuild[q]
  BY <1>4 DEF RuTyped
<1>7. HoursQuiet /\ SumsQuiet
  BY <1>1, <1>3 DEF HoursQuiet, SumsQuiet, SameCells, SameRows
<1>8. \A x \in RuHours : HourMoves(x) /\ SumMoves(x)
  BY <1>1, <1>2, <1>3 DEF HourMoves, SumMoves
<1>9. BuildMoves(p) /\ BuildsQuiet
  BY <1>1, <1>2, <1>5, <1>6 DEF BuildMoves, BuildsQuiet
<1> QED
  BY <1>1, <1>2, <1>6, <1>7, <1>8, <1>9 DEF RuQuiet, TokenMoves, SliceMoves, SlicesQuiet

\* Summaries that are claimed, for a build or for a cleanup.
LEMMA QuietClaimSummary ==
    ASSUME RuTyped, NEW p \in RuProcs, NEW h \in RuHours, ClaimSummary(p, h)
    PROVE  RuQuiet(p)
<1> DEFINE y == SliceRow("clean", h, ruProc[p].uuid, ruHour[h].id, Token, RuSeries, 0, NoCells, {},
                         FALSE, FALSE)
<1>1. /\ ruHourly' = ruHourly /\ ruBuckets' = ruBuckets /\ ruHour' = ruHour /\ ruCells' = ruCells
      /\ ruBuild' = ruBuild /\ ruTriggers' = ruTriggers /\ FreshToken /\ ruHour[h].state = 2
      /\ ruSum' = [ruSum EXCEPT ![h] = [state |-> 1, id |-> Token, src |-> ruHour[h].id]]
  BY DEF ClaimSummary, ruRollupVars, ruStoreVars
<1>2. ruCount'.tokens = Token
  BY <1>1, RuFresh
<1>3. ASSUME NEW x \in RuHours
      PROVE  \/ ruSum'[x] = ruSum[x]
             \/ /\ ruSum'[x].state = 1 /\ ruSum'[x].id = Token
                /\ ruHour[x].state = 2 /\ ruSum'[x].src = ruHour[x].id
  BY <1>1 DEF RuTyped
<1>4. ruSlice' = [ruSlice EXCEPT ![p] = y]
  BY ClaimSummaryRow
<1>5. y.at = "clean" /\ y.hour = h /\ y.id = Token /\ y.src = ruHour[h].id /\ SliceShape(y)
  <2>1. /\ y.at = "clean" /\ y.hour = h /\ y.id = Token /\ y.src = ruHour[h].id
        /\ y.todo = RuSeries /\ y.pending = {} /\ ~ y.done /\ y.acc = NoCells
    BY DEF SliceRow
  <2> HIDE DEF y
  <2> QED
    BY <2>1 DEF SliceShape
<1> HIDE DEF y
<1>6. ruSlice'[p] = y /\ \A q \in RuProcs : q # p => ruSlice'[q] = ruSlice[q]
  BY <1>4 DEF RuTyped
<1>7. HoursQuiet /\ SumsQuiet
  BY <1>1, <1>3 DEF HoursQuiet, SumsQuiet, SameCells, SameRows
<1>8. \A x \in RuHours : HourMoves(x) /\ SumMoves(x)
  BY <1>1, <1>2, <1>3 DEF HourMoves, SumMoves
<1>9. SliceMoves(p) /\ SlicesQuiet
  BY <1>1, <1>2, <1>5, <1>6 DEF SliceMoves, SlicesQuiet
<1> QED
  BY <1>1, <1>2, <1>6, <1>7, <1>8, <1>9 DEF RuQuiet, TokenMoves, BuildMoves, BuildsQuiet

\* A cleanup that is claimed ends the summary of its hour.
LEMMA QuietClaimCleanup ==
    ASSUME RuTyped, NEW p \in RuProcs, ClaimCleanup(p)
    PROVE  RuQuiet(p)
<1> DEFINE h == Min(LeftHours(ruPurge[p].after))
<1>1. /\ ruHourly' = ruHourly /\ ruBuckets' = ruBuckets /\ ruHour' = ruHour /\ ruCells' = ruCells
      /\ ruBuild' = ruBuild /\ ruSlice' = ruSlice /\ ruTriggers' = ruTriggers
  BY DEF ClaimCleanup, ruRollupVars, ruStoreVars
<1>2. CASE ~ NeedsCleanup(h, ruPurge[p].cutoff)
  <2>1. ruSum' = ruSum /\ ruCount' = ruCount
    BY <1>2 DEF ClaimCleanup
  <2> QED
    BY <1>1, <2>1, QuietWork
<1>3. CASE NeedsCleanup(h, ruPurge[p].cutoff)
  <2>1. /\ FreshToken
        /\ ruSum' = [ruSum EXCEPT ![h] = [state |-> 3, id |-> Token, src |-> SourceToken(h)]]
    BY <1>3 DEF ClaimCleanup
  <2>2. ruCount'.tokens = Token
    BY <2>1, RuFresh
  <2> HIDE DEF h
  <2>3. ASSUME NEW x \in RuHours
        PROVE  \/ ruSum'[x] = ruSum[x]
               \/ /\ ruSum'[x].state = 3 /\ ruSum'[x].id = Token
                  /\ ruSum'[x].src = 0 \/ (ruHour[x].state = 2 /\ ruSum'[x].src = ruHour[x].id)
    BY <2>1 DEF RuTyped, SourceToken
  <2>4. HoursQuiet /\ SumsQuiet
    BY <1>1, <2>3 DEF HoursQuiet, SumsQuiet, SameCells, SameRows
  <2>5. \A x \in RuHours : HourMoves(x) /\ SumMoves(x)
    BY <1>1, <2>2, <2>3 DEF HourMoves, SumMoves
  <2> QED
    BY <1>1, <2>2, <2>4, <2>5 DEF RuQuiet, TokenMoves, BuildMoves, BuildsQuiet, SliceMoves,
                                  SlicesQuiet
<1> QED
  BY <1>2, <1>3

\* A cleanup deletes cells only under its own marker.
LEMMA QuietCleanup ==
    ASSUME RuTyped, NEW p \in RuProcs, CleanupSlice(p)
    PROVE  RuQuiet(p)
<1> DEFINE h == ruPurge[p].hour
<1>1. /\ ruHourly' = ruHourly /\ ruBuckets' = ruBuckets /\ ruHour' = ruHour /\ ruCount' = ruCount
      /\ ruBuild' = ruBuild /\ ruSlice' = ruSlice /\ ruTriggers' = ruTriggers
  BY DEF CleanupSlice, ruRollupVars, ruStoreVars
<1>2. CASE ~ OwnsCleanup(p)
  <2>1. ruSum' = ruSum /\ ruCells' = ruCells
    BY <1>2 DEF CleanupSlice
  <2> QED
    BY <1>1, <2>1, QuietWork
<1>3. CASE OwnsCleanup(p)
  <2>1. /\ DeleteCells(h)
        /\ ruSum' = ruSum \/ ruSum' = [ruSum EXCEPT ![h] = NoSum]
        /\ ruSum[h].state = 3
    BY <1>3 DEF CleanupSlice, OwnsCleanup
  <2> HIDE DEF h
  <2>2. ASSUME NEW x \in RuHours
        PROVE  \/ ruSum'[x] = ruSum[x] /\ SameCells(x)
               \/ ruSum'[x] = ruSum[x] /\ ruSum'[x].state = 3
               \/ ruSum'[x].state = -1 /\ ruSum'[x].id = 0 /\ ruSum'[x].src = 0
    <3>1. CASE x = h
      BY <2>1, <3>1, RuIdle DEF RuTyped
    <3>2. CASE x # h
      <4>1. ruSum'[x] = ruSum[x]
        BY <2>1, <3>2 DEF RuTyped
      <4>2. SameCells(x)
        BY <2>1, <3>2 DEF RuTyped, SameCells, DeleteCells
      <4> QED
        BY <4>1, <4>2
    <3> QED
      BY <3>1, <3>2
  <2>4. HoursQuiet /\ SumsQuiet
    BY <1>1, <2>2 DEF HoursQuiet, SumsQuiet, SameRows
  <2>5. \A x \in RuHours : HourMoves(x) /\ SumMoves(x)
    BY <1>1, <2>2 DEF HourMoves, SumMoves
  <2> QED
    BY <1>1, <2>4, <2>5 DEF RuQuiet, TokenMoves, BuildMoves, BuildsQuiet, SliceMoves, SlicesQuiet
<1> QED
  BY <1>2, <1>3

\* A step of p on the hour that it builds: it leaves the other rows alone, and no other build
\* has the token of that hour.
LEMMA OthersKept ==
    ASSUME RuTyped, RuTyped', HourTokens, NEW p \in RuProcs, Building(p), CheckBuild(p),
           NEW k, k = ruBuild[p].hour,
           ruTriggers' => ruTriggers /\ HoursTrue /\ BuildsTrue,
           \A q \in RuProcs : q # p => ruBuild'[q] = ruBuild[q],
           \A h \in RuHours : h # k => ruHour'[h] = ruHour[h] /\ SameRows(h),
           ruHour'[k] = ruHour[k] \/ ruHour'[k].state # 1,
           ruTriggers' /\ ruHour'[k].state = 2 => HourTrue(k)',
           ruTriggers' /\ Building(p)' /\ CheckBuild(p)' => BuildTrue(p)'
    PROVE  (ruTriggers => HoursTrue /\ BuildsTrue)'
<1> SUFFICES ASSUME ruTriggers' PROVE HoursTrue' /\ BuildsTrue'
  OBVIOUS
<1>0. /\ k \in RuHours /\ ruHour[k].state = 1 /\ ruHour[k].id = ruBuild[p].id
  BY DEF HourTokens, Building, CheckBuild
<1>1. ASSUME NEW h \in RuHours, ruHour'[h].state = 2 PROVE HourTrue(h)'
  <2>1. CASE h = k
    BY <1>1, <2>1
  <2>2. CASE h # k
    <3>1. ruHour'[h] = ruHour[h] /\ SameRows(h)
      BY <2>2
    <3>2. HourTrue(h)
      BY <1>1, <3>1 DEF HoursTrue
    <3> QED
      BY <3>1, <3>2, HourTrueKept
  <2> QED
    BY <2>1, <2>2
<1>2. ASSUME NEW q \in RuProcs, Building(q)', CheckBuild(q)' PROVE BuildTrue(q)'
  <2>1. CASE q = p
    BY <1>2, <2>1
  <2>2. CASE q # p
    <3> DEFINE h == ruBuild[q].hour
    <3>1. ruBuild'[q] = ruBuild[q]
      BY <2>2
    <3>2. Building(q) /\ h \in RuHours /\ ruBuild[q].id # ruBuild[p].id
      BY <1>2, <2>2, <3>1 DEF Building, HourTokens
    <3>3. ruHour'[h].state = 1 /\ ruHour'[h].id = ruBuild[q].id
      BY <1>2, <3>1 DEF CheckBuild
    <3>4. h # k
      BY <1>0, <3>2, <3>3
    <3>5. ruHour'[h] = ruHour[h] /\ SameRows(h)
      BY <3>2, <3>4
    <3>6. BuildTrue(q)
      BY <3>2, <3>3, <3>5 DEF BuildsTrue, CheckBuild
    <3> QED
      BY <3>1, <3>5, <3>6, BuildTrueKept
  <2> QED
    BY <2>1, <2>2
<1>3. HoursTrue'
  BY <1>1 DEF HoursTrue
<1>4. BuildsTrue'
  BY <1>2 DEF BuildsTrue
<1> QED
  BY <1>3, <1>4

\* What a step of the builder leaves quiet: the summaries, and the tokens.
BuilderQuiet(p) == TokenMoves(p) /\ SumsQuiet /\ SlicesQuiet

\* The deletions end with no row of the hour.
LEMMA ClearHourKept ==
    ASSUME RuTyped, RuTyped', HourTokens, ruTriggers => HoursTrue /\ BuildsTrue,
           NEW p \in RuProcs, ClearHour(p)
    PROVE  BuilderQuiet(p) /\ (ruTriggers => HoursTrue /\ BuildsTrue)'
<1> DEFINE b == ruBuild[p]
<1>0. PICK k \in RuHours : k = b.hour
  BY DEF HourTokens, ClearHour
<1> DEFINE y == BuildRow("read", k, b.id, b.snap, b.todo, b.any, b.safe)
<1>1. /\ ruHour' = ruHour /\ ruBuckets' = ruBuckets /\ ruSum' = ruSum /\ ruCells' = ruCells
      /\ ruSlice' = ruSlice /\ ruTriggers' = ruTriggers /\ ruCount' = ruCount
  BY DEF ClearHour, ruSummaryVars, ruStoreVars
<1>2. /\ b.at = "clear" /\ CheckBuild(p)
      /\ \/ /\ \A s \in RuSeries : ~ (ruHourly[<<k, s>>] > 0)
            /\ ruHourly' = ruHourly /\ ruBuild' = [ruBuild EXCEPT ![p] = y]
         \/ /\ \E x : ruHourly' = [ruHourly EXCEPT ![<<k, x>>] = 0]
            /\ ruBuild' = ruBuild
  BY <1>0, ClearHourRow
<1>3. y.at = "read" /\ y.hour = k /\ y.id = b.id
  BY DEF BuildRow
<1>4. k \in RuHours /\ Building(p) /\ ruHour[k].state = 1
  BY <1>0, <1>2 DEF Building, CheckBuild
<1> HIDE DEF y
<1>5. /\ \A q \in RuProcs : q # p => ruBuild'[q] = ruBuild[q]
      /\ \/ ruBuild'[p] = b
         \/ ruBuild'[p] = y /\ ruHourly' = ruHourly
            /\ \A s \in RuSeries : ~ (ruHourly[<<k, s>>] > 0)
  BY <1>2 DEF RuTyped
<1>6. ASSUME NEW h \in RuHours, h # k PROVE SameRows(h)
  <2>1. ASSUME NEW s \in RuSeries PROVE ruHourly'[<<h, s>>] = ruHourly[<<h, s>>]
    BY <1>2, <1>6 DEF RuTyped
  <2> QED
    BY <1>1, <2>1 DEF SameRows
<1>7. ruTriggers' /\ Building(p)' /\ CheckBuild(p)' => BuildTrue(p)'
  <2>1. CASE ruBuild'[p] = b
    BY <1>2, <2>1 DEF BuildTrue
  <2>2. CASE /\ ruBuild'[p] = y /\ ruHourly' = ruHourly
             /\ \A s \in RuSeries : ~ (ruHourly[<<k, s>>] > 0)
    <3>1. \A s \in RuSeries : ruHourly'[<<k, s>>] = 0
      BY <1>4, <2>2 DEF RuTyped
    <3> QED
      BY <1>3, <2>2, <3>1 DEF BuildTrue
  <2> QED
    BY <1>5, <2>1, <2>2
<1>8. (ruTriggers => HoursTrue /\ BuildsTrue)'
  <2>1. ruTriggers' => ruTriggers /\ HoursTrue /\ BuildsTrue
    BY <1>1
  <2>2. \A h \in RuHours : h # k => ruHour'[h] = ruHour[h] /\ SameRows(h)
    BY <1>1, <1>6
  <2>3. ruHour'[k] = ruHour[k] /\ ruHour'[k].state # 2
    BY <1>1, <1>4
  <2> QED
    BY <1>0, <1>2, <1>4, <1>5, <1>7, <2>1, <2>2, <2>3, OthersKept
<1>9. SumsQuiet
  BY <1>1, <1>4, <1>6 DEF SumsQuiet, SameCells
<1>10. SlicesQuiet
  BY <1>1 DEF SlicesQuiet
<1>11. BuildMoves(p)
  BY <1>0, <1>2, <1>3, <1>4, <1>5 DEF BuildMoves
<1>12. TokenMoves(p)
  BY <1>1, <1>5, <1>11 DEF TokenMoves, HourMoves, SumMoves, SliceMoves
<1> QED
  BY <1>8, <1>9, <1>10, <1>12 DEF BuilderQuiet

\* The snapshot of a build that still has its token is what the buckets hold.
LEMMA OpenSnapshotKept ==
    ASSUME RuTyped, RuTyped', HourTokens, ruTriggers => HoursTrue /\ BuildsTrue,
           NEW p \in RuProcs, OpenSnapshot(p)
    PROVE  BuilderQuiet(p) /\ (ruTriggers => HoursTrue /\ BuildsTrue)'
<1> DEFINE b == ruBuild[p]
           k == b.hour
           y == BuildRow("chunks", k, b.id, ruBuckets, RuSeries, b.any, b.safe)
<1>1. /\ ruHour' = ruHour /\ ruBuckets' = ruBuckets /\ ruSum' = ruSum /\ ruCells' = ruCells
      /\ ruSlice' = ruSlice /\ ruTriggers' = ruTriggers /\ ruCount' = ruCount
      /\ ruHourly' = ruHourly /\ b.at = "read"
  BY DEF OpenSnapshot, ruSummaryVars, ruStoreVars, ruRollupVars
<1>2. ruBuild' = [ruBuild EXCEPT ![p] = y]
  BY OpenSnapshotRow
<1>3. y.at = "chunks" /\ y.hour = k /\ y.id = b.id /\ y.snap = ruBuckets /\ y.todo = RuSeries
  BY DEF BuildRow
<1>4. k \in RuHours /\ Building(p)
  BY <1>1 DEF HourTokens, Building
<1> HIDE DEF y
<1>5. ruBuild'[p] = y /\ \A q \in RuProcs : q # p => ruBuild'[q] = ruBuild[q]
  BY <1>2 DEF RuTyped
<1>6. \A h : SameRows(h)
  BY <1>1 DEF SameRows
<1>7. ASSUME ruTriggers', NEW q \in RuProcs, Building(q)', CheckBuild(q)' PROVE BuildTrue(q)'
  <2>1. CASE q # p
    <3>1. ruBuild'[q] = ruBuild[q] /\ BuildTrue(q)
      BY <1>1, <1>5, <1>7, <2>1 DEF BuildsTrue, Building, CheckBuild
    <3> QED
      BY <1>6, <3>1, BuildTrueKept
  <2>2. CASE q = p
    <3>1. BuildTrue(p)
      BY <1>1, <1>3, <1>4, <1>5, <1>7, <2>2 DEF BuildsTrue, CheckBuild
    <3>2. \A s \in RuSeries : ruHourly'[<<k, s>>] = 0
      BY <1>1, <3>1 DEF BuildTrue
    <3> QED
      BY <1>1, <1>3, <1>5, <2>2, <3>2 DEF BuildTrue
  <2> QED
    BY <2>1, <2>2
<1>8. ASSUME ruTriggers', NEW h \in RuHours, ruHour'[h].state = 2 PROVE HourTrue(h)'
  BY <1>1, <1>6, <1>8, HourTrueKept DEF HoursTrue
<1>9. (ruTriggers => HoursTrue /\ BuildsTrue)'
  <2> SUFFICES ASSUME ruTriggers' PROVE HoursTrue' /\ BuildsTrue'
    OBVIOUS
  <2>1. HoursTrue'
    BY <1>8 DEF HoursTrue
  <2>2. BuildsTrue'
    BY <1>7 DEF BuildsTrue
  <2> QED
    BY <2>1, <2>2
<1>10. SumsQuiet /\ SlicesQuiet
  BY <1>1, <1>6 DEF SumsQuiet, SameCells, SlicesQuiet
<1>11. BuildMoves(p)
  <2>1. ruBuckets \in RuGrid
    BY DEF RuTyped
  <2> QED
    BY <1>3, <1>4, <1>5, <2>1 DEF BuildMoves
<1>12. TokenMoves(p)
  BY <1>1, <1>5, <1>11 DEF TokenMoves, HourMoves, SumMoves, SliceMoves
<1> QED
  BY <1>9, <1>10, <1>12 DEF BuilderQuiet

\* A chunk of a build that still has its token writes what the buckets of its series hold.
LEMMA WriteChunkKept ==
    ASSUME RuTyped, RuTyped', HourTokens, ruTriggers => HoursTrue /\ BuildsTrue,
           NEW p \in RuProcs, WriteChunk(p)
    PROVE  BuilderQuiet(p) /\ (ruTriggers => HoursTrue /\ BuildsTrue)'
<1> DEFINE b == ruBuild[p]
<1>0. PICK k \in RuHours : k = b.hour
  BY DEF HourTokens, WriteChunk
<1>a. PICK s \in RuSeries : s = Min(b.todo)
  BY WriteChunkRow
<1>b. PICK n : n = PointsIn(b.snap, {s}, HourWindows(k))
  OBVIOUS
<1> DEFINE y1 == BuildRow(b.at, k, b.id, b.snap, b.todo \ {s}, b.any, b.safe)
           y2 == BuildRow(b.at, k, b.id, b.snap, b.todo \ {s}, TRUE, b.safe /\ s \notin RuLossy)
<1>1. /\ ruHour' = ruHour /\ ruBuckets' = ruBuckets /\ ruSum' = ruSum /\ ruCells' = ruCells
      /\ ruSlice' = ruSlice /\ ruTriggers' = ruTriggers /\ ruCount' = ruCount
  BY DEF WriteChunk, ruSummaryVars, ruStoreVars
<1>2. /\ b.at = "chunks" /\ s \in b.todo
      /\ \/ n = 0 /\ ruHourly' = ruHourly /\ ruBuild' = [ruBuild EXCEPT ![p] = y1]
         \/ /\ n # 0 /\ CheckBuild(p) /\ ruHourly[<<k, s>>] = 0
            /\ ruHourly' = [ruHourly EXCEPT ![<<k, s>>] = n]
            /\ ruBuild' = [ruBuild EXCEPT ![p] = y2]
  BY <1>0, <1>a, <1>b, WriteChunkRow, Zenon
<1>3. /\ y1.at = "chunks" /\ y1.hour = k /\ y1.id = b.id /\ y1.snap = b.snap
      /\ y1.todo = b.todo \ {s} /\ y1.any = b.any /\ y1.safe = b.safe
  BY <1>2 DEF BuildRow
<1>4. /\ y2.at = "chunks" /\ y2.hour = k /\ y2.id = b.id /\ y2.snap = b.snap
      /\ y2.todo = b.todo \ {s} /\ y2.any /\ (y2.safe <=> b.safe /\ s \notin RuLossy)
  BY <1>2, Zenon DEF BuildRow
<1> HIDE DEF y1, y2
<1>5. Building(p) /\ b.snap \in RuGrid /\ b.todo \in SUBSET RuSeries
  BY <1>2 DEF Building, HourTokens, RuTyped, RuBuildRec
<1>6. /\ \A q \in RuProcs : q # p => ruBuild'[q] = ruBuild[q]
      /\ ruBuild'[p] = y1 \/ ruBuild'[p] = y2
  BY <1>2 DEF RuTyped
<1>7. ASSUME NEW h \in RuHours, NEW t \in RuSeries, <<h, t>> # <<k, s>>
      PROVE  ruHourly'[<<h, t>>] = ruHourly[<<h, t>>]
  BY <1>2, <1>7 DEF RuTyped
<1>8. ASSUME NEW h \in RuHours, h # k \/ ruHourly' = ruHourly PROVE SameRows(h)
  BY <1>1, <1>7, <1>8 DEF SameRows
<1>9. ASSUME BuildTrue(p)
      PROVE  /\ ruHourly'[<<k, s>>] = n /\ n \in Nat
             /\ n = PointsIn(ruBuckets, {s}, HourWindows(k))
  <2>1. \A t \in RuSeries, w \in HourWindows(k) : b.snap[<<t, w>>] = ruBuckets[<<t, w>>]
    BY <1>0, <1>2, <1>9 DEF BuildTrue
  <2>2. {s} \in SUBSET RuSeries /\ HourWindows(k) \in SUBSET RuWindows /\ ruBuckets \in RuGrid
    BY DEF HourWindows, RuTyped
  <2>3. \A t \in {s}, w \in HourWindows(k) : b.snap[<<t, w>>] = ruBuckets[<<t, w>>]
    BY <2>1
  <2>4. n = PointsIn(ruBuckets, {s}, HourWindows(k))
    BY <1>b, <2>2, <2>3, RuPointsSame
  <2>5. n \in Nat
    BY <2>2, <2>4, RuPointsType
  <2>6. ruHourly[<<k, s>>] = 0
    BY <1>0, <1>2, <1>9 DEF BuildTrue
  <2>7. ruHourly'[<<k, s>>] = n
    BY <1>2, <2>6 DEF RuTyped
  <2> QED
    BY <2>4, <2>5, <2>7
<1>10. ASSUME ruTriggers', CheckBuild(p)' PROVE BuildTrue(p)'
  <2>1. BuildTrue(p)
    BY <1>0, <1>1, <1>3, <1>4, <1>5, <1>6, <1>10 DEF BuildsTrue, CheckBuild
  <2>2. /\ \A t \in RuSeries, w \in HourWindows(k) : b.snap[<<t, w>>] = ruBuckets[<<t, w>>]
        /\ \A t \in b.todo : ruHourly[<<k, t>>] = 0
        /\ \A t \in RuSeries \ b.todo :
             /\ ruHourly[<<k, t>>] = PointsIn(ruBuckets, {t}, HourWindows(k))
             /\ ruHourly[<<k, t>>] > 0 => b.any /\ (b.safe => t \notin RuLossy)
    BY <1>0, <1>2, <2>1 DEF BuildTrue, Rowed
  <2>3. \A t \in b.todo \ {s} : ruHourly'[<<k, t>>] = 0
    BY <1>5, <1>7, <2>2
  <2>4. ASSUME NEW t \in RuSeries \ (b.todo \ {s})
        PROVE  /\ ruHourly'[<<k, t>>] = PointsIn(ruBuckets, {t}, HourWindows(k))
               /\ ruHourly'[<<k, t>>] > 0 =>
                    ruBuild'[p].any /\ (ruBuild'[p].safe => t \notin RuLossy)
    <3>1. CASE t = s
      <4>1. CASE n = 0
        BY <1>9, <2>1, <3>1, <4>1
      <4>2. CASE n # 0
        <5>1. ruBuild'[p] = y2
          BY <1>2, <4>2 DEF RuTyped
        <5> QED
          BY <1>4, <1>9, <2>1, <3>1, <5>1
      <4> QED
        BY <4>1, <4>2
    <3>2. CASE t # s
      <4>1. t \in RuSeries \ b.todo /\ ruHourly'[<<k, t>>] = ruHourly[<<k, t>>]
        BY <1>7, <3>2
      <4> QED
        BY <1>3, <1>4, <1>6, <2>2, <4>1
    <3> QED
      BY <3>1, <3>2
  <2>5. /\ ruBuild'[p].at = "chunks" /\ ruBuild'[p].hour = k /\ ruBuild'[p].snap = b.snap
        /\ ruBuild'[p].todo = b.todo \ {s}
    BY <1>3, <1>4, <1>6
  <2> QED
    BY <1>1, <2>2, <2>3, <2>4, <2>5 DEF BuildTrue, Rowed
<1>11. ASSUME ruTriggers' PROVE HoursTrue' /\ BuildsTrue'
  <2>0. HoursTrue /\ BuildsTrue
    BY <1>1, <1>11
  <2>1. CASE n # 0
    <3>1. CheckBuild(p)
      BY <1>2, <2>1
    <3>2. ruTriggers' => ruTriggers /\ HoursTrue /\ BuildsTrue
      BY <1>1, <2>0
    <3>3. \A h \in RuHours : h # k => ruHour'[h] = ruHour[h] /\ SameRows(h)
      BY <1>1, <1>8
    <3>4. ruHour'[k] = ruHour[k] /\ ruHour'[k].state # 2
      BY <1>0, <1>1, <3>1 DEF CheckBuild
    <3>5. ruTriggers' /\ Building(p)' /\ CheckBuild(p)' => BuildTrue(p)'
      BY <1>10
    <3>6. (ruTriggers => HoursTrue /\ BuildsTrue)'
      BY <1>0, <1>5, <1>6, <3>1, <3>2, <3>3, <3>4, <3>5, OthersKept
    <3> QED
      BY <1>11, <3>6
  <2>2. CASE n = 0
    <3>1. ruHourly' = ruHourly
      BY <1>2, <2>2
    <3>2. \A h : SameRows(h)
      BY <1>1, <3>1 DEF SameRows
    <3>3. ASSUME NEW h \in RuHours, ruHour'[h].state = 2 PROVE HourTrue(h)'
      BY <1>1, <2>0, <3>2, <3>3, HourTrueKept DEF HoursTrue
    <3>4. ASSUME NEW q \in RuProcs, Building(q)', CheckBuild(q)' PROVE BuildTrue(q)'
      <4>1. CASE q = p
        BY <1>10, <1>11, <3>4, <4>1
      <4>2. CASE q # p
        <5>1. ruBuild'[q] = ruBuild[q] /\ BuildTrue(q)
          BY <1>1, <1>6, <2>0, <3>4, <4>2 DEF BuildsTrue, Building, CheckBuild
        <5> QED
          BY <3>2, <5>1, BuildTrueKept
      <4> QED
        BY <4>1, <4>2
    <3>5. HoursTrue'
      BY <3>3 DEF HoursTrue
    <3>6. BuildsTrue'
      BY <3>4 DEF BuildsTrue
    <3> QED
      BY <3>5, <3>6
  <2> QED
    BY <2>1, <2>2
<1>12. SumsQuiet
  <2>1. ASSUME NEW h \in RuHours PROVE SameRows(h) \/ ruHour[h].state = 1
    BY <1>0, <1>2, <1>8 DEF CheckBuild
  <2> QED
    BY <1>1, <2>1 DEF SumsQuiet, SameCells
<1>13. SlicesQuiet
  BY <1>1 DEF SlicesQuiet
<1>14. BuildMoves(p)
  BY <1>0, <1>3, <1>4, <1>5, <1>6 DEF BuildMoves
<1>15. TokenMoves(p)
  BY <1>1, <1>6, <1>14 DEF TokenMoves, HourMoves, SumMoves, SliceMoves
<1> QED
  BY <1>11, <1>12, <1>13, <1>15 DEF BuilderQuiet

\* A build publishes an hour whose rows are all written.
LEMMA PublishHourKept ==
    ASSUME RuTyped, RuTyped', HourTokens, ruTriggers => HoursTrue /\ BuildsTrue,
           NEW p \in RuProcs, PublishHour(p)
    PROVE  BuilderQuiet(p) /\ (ruTriggers => HoursTrue /\ BuildsTrue)'
<1> DEFINE b == ruBuild[p]
<1>0. PICK k \in RuHours : k = b.hour
  BY DEF HourTokens, PublishHour
<1>1. /\ ruHourly' = ruHourly /\ ruBuckets' = ruBuckets /\ ruSum' = ruSum /\ ruCells' = ruCells
      /\ ruSlice' = ruSlice /\ ruTriggers' = ruTriggers /\ ruCount' = ruCount
      /\ b.at = "chunks" /\ b.todo = {} /\ CheckBuild(p)
      /\ ruBuild' = [ruBuild EXCEPT ![p] = NoBuild]
  BY DEF PublishHour, ruSummaryVars, ruStoreVars
<1>2. /\ \A h \in RuHours : h # k => ruHour'[h] = ruHour[h]
      /\ \/ ruHour'[k] = NoHour
         \/ b.any /\ ruHour'[k] = [state |-> 2, id |-> ruHour[k].id, safe |-> b.safe]
  <2> DEFINE y == IF b.any THEN [state |-> 2, id |-> ruHour[k].id, safe |-> b.safe] ELSE NoHour
  <2>1. ruHour' = [ruHour EXCEPT ![k] = y]
    BY <1>0, PublishHourRow
  <2>2. y = NoHour \/ (b.any /\ y = [state |-> 2, id |-> ruHour[k].id, safe |-> b.safe])
    OBVIOUS
  <2> HIDE DEF y
  <2>3. ruHour'[k] = y /\ \A h \in RuHours : h # k => ruHour'[h] = ruHour[h]
    BY <2>1 DEF RuTyped
  <2> QED
    BY <2>2, <2>3, Zenon
<1>3. ruHour[k].state = 1 /\ ruHour[k].id = b.id /\ Building(p)
  BY <1>0, <1>1 DEF CheckBuild, Building
<1>4. /\ NoHour.state = -1 /\ NoHour.id = 0 /\ NoBuild.at = "no" /\ NoBuild.id = 0
  BY DEF NoHour, NoBuild
<1>5. ruBuild'[p] = NoBuild /\ \A q \in RuProcs : q # p => ruBuild'[q] = ruBuild[q]
  BY <1>1 DEF RuTyped
<1>6. \A h : SameRows(h)
  BY <1>1 DEF SameRows
<1>7. /\ ruHour'[k].state \in {-1, 2}
      /\ ruHour'[k].state = 2 => ruHour'[k].id = ruHour[k].id /\ (ruHour'[k].safe <=> b.safe)
  BY <1>2, <1>4
<1>8. ruTriggers' /\ ruHour'[k].state = 2 => HourTrue(k)'
  <2> SUFFICES ASSUME ruTriggers', ruHour'[k].state = 2 PROVE HourTrue(k)'
    OBVIOUS
  <2>1. BuildTrue(p)
    BY <1>1, <1>3 DEF BuildsTrue
  <2>2. \A s \in RuSeries :
            /\ ruHourly[<<k, s>>] = PointsIn(ruBuckets, {s}, HourWindows(k))
            /\ ruHourly[<<k, s>>] > 0 => b.any /\ (b.safe => s \notin RuLossy)
    BY <1>0, <1>1, <2>1 DEF BuildTrue, Rowed
  <2>3. \A s \in RuSeries : ruHourly[<<k, s>>] \in Nat
    BY DEF RuTyped
  <2> QED
    BY <1>1, <1>7, <2>2, <2>3 DEF HourTrue, Rowed
<1>9. (ruTriggers => HoursTrue /\ BuildsTrue)'
  <2>1. ruTriggers' => ruTriggers /\ HoursTrue /\ BuildsTrue
    BY <1>1
  <2>2. \A h \in RuHours : h # k => ruHour'[h] = ruHour[h] /\ SameRows(h)
    BY <1>2, <1>6
  <2>3. ruHour'[k] = ruHour[k] \/ ruHour'[k].state # 1
    BY <1>7
  <2>4. ruTriggers' /\ Building(p)' /\ CheckBuild(p)' => BuildTrue(p)'
    BY <1>4, <1>5 DEF Building
  <2> QED
    BY <1>0, <1>1, <1>3, <1>5, <1>8, <2>1, <2>2, <2>3, <2>4, OthersKept
<1>10. SumsQuiet
  <2> SUFFICES ASSUME ruTriggers', NEW h \in RuHours
               PROVE \/ ruTriggers /\ ruHour'[h] = ruHour[h] /\ SameRows(h)
                     \/ ruHour'[h].state \in {-1, 0, 1}
                     \/ ruTriggers /\ ruHour[h].state = 1 /\ ruHour'[h].id = ruHour[h].id
    BY <1>1 DEF SumsQuiet, SameCells
  <2> QED
    BY <1>1, <1>2, <1>3, <1>6, <1>7
<1>11. SlicesQuiet
  BY <1>1 DEF SlicesQuiet
<1>12. BuildMoves(p) /\ SliceMoves(p)
  BY <1>1, <1>4, <1>5 DEF BuildMoves, SliceMoves
<1>13. ASSUME NEW h \in RuHours PROVE HourMoves(h) /\ SumMoves(h)
  <2>1. SumMoves(h)
    BY <1>1 DEF SumMoves
  <2>2. h = k => HourMoves(h)
    <3>1. ruHour'[k].state = 2 \/ (ruHour'[k].state = -1 /\ ruHour'[k].id = 0)
      BY <1>2, <1>4
    <3> QED
      BY <1>3, <1>7, <3>1 DEF HourMoves
  <2>3. h # k => HourMoves(h)
    BY <1>2 DEF HourMoves
  <2> QED
    BY <2>1, <2>2, <2>3
<1>14. TokenMoves(p)
  BY <1>1, <1>5, <1>12, <1>13 DEF TokenMoves
<1> QED
  BY <1>9, <1>10, <1>11, <1>14 DEF BuilderQuiet

\* Empty cells hold nothing.
LEMMA NoCellsAre ==
    /\ NoCells.total = 0 /\ NoCells.sketch = 0 /\ NoCells \in RuCells
    /\ \A w \in RuWindows : NoCells.windows[w] = 0
BY DEF NoCells, RuCells

\* Cells that hold the same together.
LEMMA TogetherSame ==
    ASSUME NEW h, NEW T, NEW a, NEW b, NEW c, NEW x, NEW y, NEW z, Together(h, a, b, c, T),
           x.total + y.total + z.total = a.total + b.total + c.total,
           \A w \in HourWindows(h) : x.windows[w] + y.windows[w] + z.windows[w] =
                                     a.windows[w] + b.windows[w] + c.windows[w],
           a.sketch = 2 \/ b.sketch = 2 \/ c.sketch = 2 => x.sketch = 2 \/ y.sketch = 2 \/ z.sketch = 2
    PROVE  Together(h, x, y, z, T)
BY DEF Together

\* Nothing pending.
LEMMA PendNone ==
    ASSUME NEW c, c.pending = {}, NEW v
    PROVE  Pend(c, v) = NoCells
BY DEF Pend

\* Flushed cells are pending where they were read.
LEMMA PendFlushed ==
    ASSUME NEW c, c.pending = {}, NEW d, d.pending = Flushed(c), NEW v
    PROVE  /\ Pend(d, v) = Acc(c, v)
           /\ \A x, y \in d.pending : x = y
<1>1. CASE c.acc = NoCells
  BY <1>1 DEF Flushed, Pend, Acc
<1>2. CASE c.acc # NoCells
  <2> DEFINE z == <<c.group, c.acc>>
  <2>1. d.pending = {z} /\ z[1] = c.group /\ z[2] = c.acc
    BY <1>2 DEF Flushed
  <2> HIDE DEF z
  <2>2. CASE c.group = v
    <3>1. \E x \in d.pending : x[1] = v
      BY <2>1, <2>2
    <3> DEFINE e == CHOOSE x \in d.pending : x[1] = v
    <3>2. e \in d.pending
      BY <3>1
    <3>3. Pend(d, v) = e[2]
      BY <3>1 DEF Pend
    <3> HIDE DEF e
    <3> QED
      BY <2>1, <2>2, <3>2, <3>3 DEF Acc
  <2>3. CASE c.group # v
    <3>1. ~ \E x \in d.pending : x[1] = v
      BY <2>1, <2>3
    <3> QED
      BY <2>1, <2>3, <3>1 DEF Acc, Pend
  <2> QED
    BY <2>2, <2>3
<1> QED
  BY <1>1, <1>2

\* The cells of a service that is not the one that is pending.
LEMMA PendOther ==
    ASSUME NEW c, c.pending = {}, NEW d, d.pending = {} \/ d.pending = Flushed(c),
           NEW v, v # c.group
    PROVE  Pend(d, v) = NoCells
<1>1. CASE d.pending = {}
  BY <1>1, PendNone
<1>2. CASE d.pending = Flushed(c)
  BY <1>2, PendFlushed DEF Acc
<1> QED
  BY <1>1, <1>2

\* A slice is true when its cells, its pending cells and what it has read add up.
LEMMA SliceTrueBy ==
    ASSUME NEW p \in RuProcs, NEW k, NEW y, ruSlice'[p] = y, y.hour = k,
           ruHourly' = ruHourly, ruBuckets' = ruBuckets,
           \A v \in RuServices : Together(k, ruCells'[<<k, v>>], Pend(y, v), Acc(y, v),
                                          (RuSeries \ y.todo) \cap SeriesOfService(v)),
           ~ y.unsafe => Plain(k, RuSeries \ y.todo)
    PROVE  SliceTrue(p)'
<1>1. ASSUME NEW v \in RuServices
      PROVE  Together(ruSlice[p].hour, ruCells[<<ruSlice[p].hour, v>>], Pend(ruSlice[p], v),
                Acc(ruSlice[p], v), (RuSeries \ ruSlice[p].todo) \cap SeriesOfService(v))'
  BY DEF Together
<1>2. (~ ruSlice[p].unsafe => Plain(ruSlice[p].hour, RuSeries \ ruSlice[p].todo))'
  BY DEF Plain
<1> QED
  BY <1>1, <1>2 DEF SliceTrue

\* What a step of the summarizer leaves quiet: the hours, the builds and the tokens.
SlicerQuiet(p) == TokenMoves(p) /\ HoursQuiet /\ BuildsQuiet

\* The step of a slice that leaves the hours and the builds alone and keeps its token.
LEMMA SlicerIsQuiet ==
    ASSUME RuTyped, NEW p \in RuProcs, ruTriggers' = ruTriggers, ruHour' = ruHour,
           ruHourly' = ruHourly, ruBuckets' = ruBuckets, ruBuild' = ruBuild, ruCount' = ruCount,
           \A q \in RuProcs : q # p => ruSlice'[q] = ruSlice[q],
           \A h \in RuHours : ruSum'[h].id = ruSum[h].id /\ ruSum'[h].src = ruSum[h].src,
           \/ ruSlice'[p].at = "no" /\ ruSlice'[p].id = 0 /\ ruSlice'[p].src = 0
           \/ /\ ruSlice[p].at # "no" /\ ruSlice'[p].at # "no"
              /\ ruSlice'[p].hour = ruSlice[p].hour /\ ruSlice'[p].id = ruSlice[p].id
              /\ ruSlice'[p].src = ruSlice[p].src
    PROVE  SlicerQuiet(p)
<1>1. HoursQuiet /\ BuildsQuiet
  BY DEF HoursQuiet, BuildsQuiet, SameRows
<1>2. SliceMoves(p) /\ BuildMoves(p)
  BY DEF SliceMoves, BuildMoves
<1>3. \A h \in RuHours : HourMoves(h) /\ SumMoves(h)
  BY DEF HourMoves, SumMoves
<1>4. TokenMoves(p)
  BY <1>2, <1>3 DEF TokenMoves
<1> QED
  BY <1>1, <1>4 DEF SlicerQuiet

\* When the last cells of an abandoned generation are gone, the reading starts from nothing.
LEMMA CleanSliceKept ==
    ASSUME RuTyped, RuTyped', SumTokens, ruTriggers => SumsTrue, SlicesTrue,
           NEW p \in RuProcs, CleanSlice(p)
    PROVE  SlicerQuiet(p) /\ (ruTriggers => SumsTrue)' /\ SlicesTrue'
<1>0. PICK c : c = ruSlice[p]
  OBVIOUS
<1> DEFINE k == c.hour
           x == IF HasCells(k) = {} THEN "read" ELSE "clean"
           y == SliceRow(x, k, c.uuid, c.src, c.id, c.todo, c.group, c.acc, c.pending,
                         c.unsafe, c.done)
<1>1. /\ ruHour' = ruHour /\ ruBuckets' = ruBuckets /\ ruSum' = ruSum /\ ruHourly' = ruHourly
      /\ ruBuild' = ruBuild /\ ruTriggers' = ruTriggers /\ ruCount' = ruCount
      /\ c.at = "clean" /\ CheckSlice(p) /\ DeleteCells(k)
  BY <1>0 DEF CleanSlice, ruRollupVars, ruStoreVars
<1>2. ruSlice' = [ruSlice EXCEPT ![p] = y]
  BY <1>0, CleanSliceRow
<1>3. /\ y.at = x /\ y.hour = k /\ y.id = c.id /\ y.src = c.src /\ y.todo = c.todo
      /\ y.group = c.group /\ y.acc = c.acc /\ y.pending = c.pending /\ y.unsafe = c.unsafe
      /\ y.done = c.done
  BY DEF SliceRow
<1> HIDE DEF y
<1>4. ruSlice'[p] = y /\ \A q \in RuProcs : q # p => ruSlice'[q] = ruSlice[q]
  BY <1>2 DEF RuTyped
<1>5. k \in RuHours /\ SliceHolds(p) /\ ruSum[k].state = 1
  BY <1>0, <1>1 DEF SumTokens, CheckSlice, SliceHolds
<1>6. c.todo = RuSeries /\ c.pending = {} /\ ~ c.done /\ c.acc = NoCells
  BY <1>0, <1>1 DEF SlicesTrue, SliceShape
<1>7. ASSUME NEW h \in RuHours, h # k \/ HasCells(k) = {} PROVE SameCells(h)
  BY <1>1, <1>7 DEF SameCells, DeleteCells, RuTyped
<1>8. SliceShape(y)
  BY <1>3, <1>6 DEF SliceShape
<1>9. ASSUME y.at \in {"read", "write"} PROVE SliceTrue(p)'
  <2>1. HasCells(k) = {}
    BY <1>3, <1>9
  <2>2. ASSUME NEW v \in RuServices
        PROVE  Together(k, ruCells'[<<k, v>>], Pend(y, v), Acc(y, v),
                        (RuSeries \ y.todo) \cap SeriesOfService(v))
    <3>1. ruCells'[<<k, v>>] = NoCells
      BY <1>1, <2>1 DEF DeleteCells, HasCells
    <3>2. Pend(y, v) = NoCells
      BY <1>3, <1>6, PendNone
    <3>3. Acc(y, v) = NoCells
      BY <1>3, <1>6 DEF Acc
    <3>4. (RuSeries \ y.todo) \cap SeriesOfService(v) = {}
      BY <1>3, <1>6
    <3>5. IsFiniteSet({k})
      BY FS_Singleton
    <3>6. PointsIn(ruHourly, {k}, {}) = 0
      BY <3>5, PointsNoColumn
    <3>7. \A w : PointsIn(ruBuckets, {}, {w}) = 0
      BY PointsNone, FS_Singleton
    <3>8. HourWindows(k) \subseteq RuWindows
      BY DEF HourWindows
    <3>9. Together(k, NoCells, NoCells, NoCells, {})
      BY <3>6, <3>7, <3>8, NoCellsAre DEF Together
    <3> QED
      BY <3>1, <3>2, <3>3, <3>4, <3>9
  <2>3. ~ y.unsafe => Plain(k, RuSeries \ y.todo)
    BY <1>3, <1>6 DEF Plain
  <2> QED
    BY <1>1, <1>3, <1>4, <2>2, <2>3, SliceTrueBy
<1>10. SliceShape(ruSlice[p])'
  BY <1>4, <1>8 DEF SliceShape
<1>11. (ruTriggers => SumsTrue)' /\ SlicesTrue'
  <2>1. \A h \in RuHours : h # k => ruSum'[h] = ruSum[h] /\ SameCells(h)
    BY <1>1, <1>7
  <2>2. ruSum'[k].id = ruSum[k].id /\ ruSum'[k].state = 1
    BY <1>1, <1>5
  <2>3. ruTriggers' /\ ruSlice'[p].at \in {"read", "write"} /\ SliceHolds(p)' => SliceTrue(p)'
    BY <1>4, <1>9
  <2>4. ruSlice[p].at # "no" /\ k = ruSlice[p].hour
    BY <1>0, <1>1
  <2> HIDE DEF k
  <2> QED
    BY <1>1, <1>4, <1>5, <1>10, <2>1, <2>2, <2>3, <2>4, OtherSlicesKept
<1>12. SlicerQuiet(p)
  BY <1>0, <1>1, <1>3, <1>4, SlicerIsQuiet
<1> QED
  BY <1>11, <1>12

\* What the reading of a series adds to the cells of its service.
LEMMA ReadAdds ==
    ASSUME RuTyped, NEW c \in RuSliceRec, NEW k \in RuHours, k = c.hour, NEW s \in RuSeries,
           HourTrue(k)
    PROVE  LET acc == Acc(c, RuService[s])
               r == ReadCells(c, s)
           IN  /\ acc \in RuCells /\ r \in RuCells
               /\ r.total = acc.total + ruHourly[<<k, s>>]
               /\ \A w \in HourWindows(k) : r.windows[w] = acc.windows[w] + ruBuckets[<<s, w>>]
               /\ acc.sketch = 2 => r.sketch = 2
               /\ ruHourly[<<k, s>>] > 0 /\ s \in RuLossy => r.sketch = 2
<1> DEFINE acc == Acc(c, RuService[s])
           n == ruHourly[<<k, s>>]
           r == ReadCells(c, s)
           lossy == s \in RuLossy \/ ~ ruHour[k].safe \/ acc.sketch = 2
           z == IF lossy THEN 2 ELSE 1
           ws == [w \in RuWindows |-> acc.windows[w] +
                             (IF HourStart(w) = k THEN ruBuckets[<<s, w>>] ELSE 0)]
<1>1. acc \in RuCells /\ r \in RuCells
  BY ReadCellsType, RuNothing DEF Acc, RuSliceRec
<1>2. n \in Nat /\ acc.total \in Nat /\ \A w \in RuWindows : acc.windows[w] \in Nat
  BY <1>1 DEF RuTyped, RuCells
<1>3. \A w \in RuWindows : ruBuckets[<<s, w>>] \in Nat
  BY DEF RuTyped, RuGrid
<1>4. r = IF n = 0 THEN acc ELSE [windows |-> ws, total |-> acc.total + n, sketch |-> z]
  BY DEF ReadCells, Acc
<1>5. (lossy => z = 2) /\ \A w \in HourWindows(k) : ws[w] = acc.windows[w] + ruBuckets[<<s, w>>]
  BY DEF HourWindows
<1>6. lossy <=> (s \in RuLossy \/ ~ ruHour[k].safe \/ acc.sketch = 2)
  OBVIOUS
<1> HIDE DEF ws, z, lossy, acc, r
<1>7. CASE n # 0
  <2>1. r.windows = ws /\ r.total = acc.total + n /\ r.sketch = z
    BY <1>4, <1>7
  <2> QED
    BY <1>1, <1>5, <1>6, <2>1 DEF acc, r
<1>8. CASE n = 0
  <2>1. r = acc
    BY <1>4, <1>8
  <2>2. ASSUME NEW w \in HourWindows(k) PROVE ruBuckets[<<s, w>>] = 0
    <3> DEFINE W == HourWindows(k)
    <3>1. PointsIn(ruBuckets, {s}, W) = 0
      BY <1>8 DEF HourTrue, Rowed
    <3>2. W \in SUBSET RuWindows /\ {s} \in SUBSET RuSeries /\ ruBuckets \in RuGrid
      BY DEF HourWindows, RuTyped
    <3>3. IsFiniteSet(W)
      BY <3>2, RuPointsType
    <3>4. \A x \in {s} \X W : ruBuckets[x] \in Nat
      BY <3>2 DEF RuGrid
    <3> HIDE DEF W
    <3>5. w \in W
      BY DEF W
    <3> QED
      BY <3>1, <3>3, <3>4, <3>5, PointsZero
  <2>3. \A w \in HourWindows(k) : acc.windows[w] \in Nat
    BY <1>2 DEF HourWindows
  <2> QED
    BY <1>1, <1>2, <1>8, <2>1, <2>2, <2>3 DEF acc, r
<1> QED
  BY <1>7, <1>8

\* One more series among those that the cells hold.
LEMMA OneMoreSeries ==
    ASSUME RuTyped, NEW k \in RuHours, NEW s \in RuSeries, NEW T \in SUBSET RuSeries, s \notin T
    PROVE  /\ PointsIn(ruHourly, {k}, T \cup {s}) = PointsIn(ruHourly, {k}, T) + ruHourly[<<k, s>>]
           /\ \A w \in RuWindows :
                PointsIn(ruBuckets, T \cup {s}, {w}) =
                PointsIn(ruBuckets, T, {w}) + ruBuckets[<<s, w>>]
<1> DEFINE S == {s}
           K == {k}
<1>0. IsFiniteSet(T)
  BY RuAssumption, FS_Subset
<1>1. IsFiniteSet(T) /\ IsFiniteSet(S) /\ IsFiniteSet(K) /\ T \cap S = {}
  BY <1>0, FS_Singleton
<1>2. \A x \in K \X (T \cup S) : ruHourly[x] \in Nat
  BY DEF RuTyped
<1>3. PointsIn(ruHourly, K, S) = ruHourly[<<k, s>>]
  <2>1. ruHourly[<<k, s>>] \in Nat
    BY DEF RuTyped
  <2> QED
    BY <2>1, PointsAt
<1>6. ASSUME NEW w \in RuWindows
      PROVE  PointsIn(ruBuckets, T \cup S, {w}) = PointsIn(ruBuckets, T, {w}) + ruBuckets[<<s, w>>]
  <2> DEFINE W == {w}
  <2>1. \A x \in (T \cup S) \X W : ruBuckets[x] \in Nat
    BY DEF RuTyped, RuGrid
  <2>2. IsFiniteSet(W)
    BY FS_Singleton
  <2>3. PointsIn(ruBuckets, S, W) = ruBuckets[<<s, w>>]
    <3>1. ruBuckets[<<s, w>>] \in Nat
      BY DEF RuTyped, RuGrid
    <3> QED
      BY <3>1, PointsAt
  <2> HIDE DEF S, W
  <2>4. PointsIn(ruBuckets, T \cup S, W) = PointsIn(ruBuckets, T, W) + PointsIn(ruBuckets, S, W)
    BY <1>1, <2>1, <2>2, PointsRows
  <2> QED
    BY <2>3, <2>4 DEF W
<1> HIDE DEF K, S
<1>7. PointsIn(ruHourly, K, T \cup S) = PointsIn(ruHourly, K, T) + PointsIn(ruHourly, K, S)
  BY <1>1, <1>2, PointsColumns
<1> QED
  BY <1>3, <1>6, <1>7 DEF S, K

\* The cells of a service, with one more of its series read.
LEMMA ReadGrows ==
    ASSUME RuTyped, NEW c \in RuSliceRec, NEW k \in RuHours, k = c.hour, NEW s \in RuSeries,
           HourTrue(k), NEW T \in SUBSET RuSeries, s \notin T, NEW a \in RuCells,
           Together(k, a, NoCells, Acc(c, RuService[s]), T)
    PROVE  Together(k, a, NoCells, ReadCells(c, s), T \cup {s})
<1> DEFINE acc == Acc(c, RuService[s])
           r == ReadCells(c, s)
           n == ruHourly[<<k, s>>]
           f == PointsIn(ruHourly, {k}, T)
           g(w) == PointsIn(ruBuckets, T, {w})
<1>1. /\ acc \in RuCells /\ r \in RuCells /\ r.total = acc.total + n
      /\ \A w \in HourWindows(k) : r.windows[w] = acc.windows[w] + ruBuckets[<<s, w>>]
      /\ acc.sketch = 2 => r.sketch = 2
      /\ n > 0 /\ s \in RuLossy => r.sketch = 2
  BY ReadAdds
<1>2. /\ a.total + NoCells.total + acc.total = f
      /\ \A w \in HourWindows(k) : a.windows[w] + NoCells.windows[w] + acc.windows[w] = g(w)
      /\ \A t \in T \cap RuLossy :
           ruHourly[<<k, t>>] > 0 => a.sketch = 2 \/ NoCells.sketch = 2 \/ acc.sketch = 2
  BY DEF Together
<1>3. /\ PointsIn(ruHourly, {k}, T \cup {s}) = f + n
      /\ \A w \in RuWindows : PointsIn(ruBuckets, T \cup {s}, {w}) = g(w) + ruBuckets[<<s, w>>]
  BY OneMoreSeries
<1>4. HourWindows(k) \subseteq RuWindows /\ n \in Nat
      /\ \A w \in RuWindows : ruBuckets[<<s, w>>] \in Nat
  BY DEF HourWindows, RuTyped, RuGrid
<1>5. /\ a.total \in Nat /\ acc.total \in Nat
      /\ \A w \in RuWindows : a.windows[w] \in Nat /\ acc.windows[w] \in Nat
  BY <1>1 DEF RuCells
<1> HIDE DEF acc, r, n, f, g
<1>6. a.total + NoCells.total + r.total = f + n
  BY <1>1, <1>2, <1>4, <1>5, NoCellsAre
<1>7. ASSUME NEW w \in HourWindows(k)
      PROVE  a.windows[w] + NoCells.windows[w] + r.windows[w] = g(w) + ruBuckets[<<s, w>>]
  BY <1>1, <1>2, <1>4, <1>5, <1>7, NoCellsAre
<1>8. \A t \in (T \cup {s}) \cap RuLossy :
        ruHourly[<<k, t>>] > 0 => a.sketch = 2 \/ NoCells.sketch = 2 \/ r.sketch = 2
  BY <1>1, <1>2 DEF n
<1> QED
  BY <1>3, <1>4, <1>6, <1>7, <1>8 DEF Together, r

\* What was read may as well be pending.
LEMMA TogetherSwap ==
    ASSUME NEW h, NEW T, NEW a \in RuCells, NEW b \in RuCells, Together(h, a, NoCells, b, T)
    PROVE  Together(h, a, b, NoCells, T)
<1>1. a.total + b.total + NoCells.total = a.total + NoCells.total + b.total
  BY NoCellsAre DEF RuCells
<1>2. \A w \in HourWindows(h) : a.windows[w] + b.windows[w] + NoCells.windows[w] =
                                a.windows[w] + NoCells.windows[w] + b.windows[w]
  BY NoCellsAre DEF RuCells, HourWindows
<1> QED
  BY <1>1, <1>2, TogetherSame

\* The fields of a slice.
LEMMA SliceRowFields ==
    ASSUME NEW at, NEW hour, NEW uuid, NEW src, NEW id, NEW left, NEW group, NEW acc,
           NEW pending, NEW unsafe, NEW done, NEW y,
           y = SliceRow(at, hour, uuid, src, id, left, group, acc, pending, unsafe, done)
    PROVE  /\ y.at = at /\ y.hour = hour /\ y.src = src /\ y.id = id /\ y.todo = left
           /\ y.group = group /\ y.acc = acc /\ y.pending = pending /\ y.unsafe = unsafe
           /\ y.done = done
BY DEF SliceRow

\* A slice reads a series of the published hour, or flushes what it has read.
LEMMA ReadSliceKept ==
    ASSUME RuTyped, RuTyped', SumTokens, ruTriggers => HoursTrue /\ SumsTrue, SlicesTrue,
           NEW p \in RuProcs, ReadSlice(p)
    PROVE  SlicerQuiet(p) /\ (ruTriggers => SumsTrue)' /\ SlicesTrue'
<1>0. PICK c : c = ruSlice[p]
  OBVIOUS
<1>a. PICK y : y = ruSlice'[p]
  OBVIOUS
<1>b. PICK s : s = Min(c.todo)
  OBVIOUS
<1> DEFINE k == c.hour
           D == RuSeries \ c.todo
<1>1. /\ ruHour' = ruHour /\ ruBuckets' = ruBuckets /\ ruSum' = ruSum /\ ruHourly' = ruHourly
      /\ ruBuild' = ruBuild /\ ruTriggers' = ruTriggers /\ ruCount' = ruCount
      /\ ruCells' = ruCells /\ c.at = "read" /\ CheckSlice(p)
  BY <1>0 DEF ReadSlice, ruRollupVars, ruStoreVars, ruSummaryVars
<1>2. /\ \A q \in RuProcs : q # p => ruSlice'[q] = ruSlice[q]
      /\ \/ /\ c.todo = {}
            /\ y = SliceRow("write", k, c.uuid, c.src, c.id, c.todo, c.group, NoCells,
                            Flushed(c), c.unsafe, TRUE)
         \/ /\ s \in c.todo /\ s \in RuSeries
            /\ y = SliceRow("write", k, c.uuid, c.src, c.id, c.todo \ {s}, RuService[s],
                            ReadCells(c, s),
                            IF c.group = RuService[s] THEN c.pending ELSE Flushed(c),
                            c.unsafe \/ (ruHourly[<<k, s>>] > 0 /\ s \in RuLossy), c.done)
  <2> DEFINE y1 == SliceRow("write", k, c.uuid, c.src, c.id, c.todo, c.group, NoCells,
                            Flushed(c), c.unsafe, TRUE)
             y2 == SliceRow("write", k, c.uuid, c.src, c.id, c.todo \ {s}, RuService[s],
                            ReadCells(c, s),
                            IF c.group = RuService[s] THEN c.pending ELSE Flushed(c),
                            c.unsafe \/ (ruHourly[<<k, s>>] > 0 /\ s \in RuLossy), c.done)
  <2>1. \/ c.todo = {} /\ ruSlice' = [ruSlice EXCEPT ![p] = y1]
        \/ s \in c.todo /\ s \in RuSeries /\ ruSlice' = [ruSlice EXCEPT ![p] = y2]
    BY <1>0, <1>b, ReadSliceRow, Zenon
  <2> HIDE DEF y1, y2
  <2>2. /\ \A q \in RuProcs : q # p => ruSlice'[q] = ruSlice[q]
        /\ \/ c.todo = {} /\ y = y1
           \/ s \in c.todo /\ s \in RuSeries /\ y = y2
    BY <1>a, <2>1 DEF RuTyped
  <2> QED
    BY <2>2, Zenon DEF y1, y2
<1>3. y.at = "write" /\ y.hour = k /\ y.id = c.id /\ y.src = c.src
  BY <1>2 DEF SliceRow
<1>4. \/ /\ c.todo = {} /\ y.todo = {} /\ y.acc = NoCells /\ y.pending = Flushed(c)
         /\ y.unsafe = c.unsafe
      \/ /\ s \in c.todo /\ s \in RuSeries /\ y.todo = c.todo \ {s} /\ y.group = RuService[s]
         /\ y.acc = ReadCells(c, s) /\ y.done = c.done
         /\ y.pending = IF c.group = RuService[s] THEN c.pending ELSE Flushed(c)
         /\ y.unsafe <=> c.unsafe \/ (ruHourly[<<k, s>>] > 0 /\ s \in RuLossy)
  <2> DEFINE f == Flushed(c)
             t == TRUE
             u == c.unsafe \/ (ruHourly[<<k, s>>] > 0 /\ s \in RuLossy)
             z == IF c.group = RuService[s] THEN c.pending ELSE Flushed(c)
             r == ReadCells(c, s)
             x == c.todo \ {s}
             v == RuService[s]
  <2>1. \/ /\ c.todo = {}
           /\ y = SliceRow("write", k, c.uuid, c.src, c.id, c.todo, c.group, NoCells, f, c.unsafe, t)
        \/ /\ s \in c.todo /\ s \in RuSeries
           /\ y = SliceRow("write", k, c.uuid, c.src, c.id, x, v, r, z, u, c.done)
    BY <1>2, Zenon
  <2> HIDE DEF f, t, u, z, r, x, v
  <2>2. \/ /\ c.todo = {} /\ y.todo = {} /\ y.acc = NoCells /\ y.pending = f
           /\ y.unsafe = c.unsafe
        \/ /\ s \in c.todo /\ s \in RuSeries /\ y.todo = x /\ y.group = v
           /\ y.acc = r /\ y.done = c.done /\ y.pending = z /\ y.unsafe = u
    BY <2>1, SliceRowFields
  <2> QED
    BY <2>2, Zenon DEF f, u, z, r, x, v
<1>5. k \in RuHours /\ SliceHolds(p) /\ ruSum[k].state = 1 /\ ruHour[k].state = 2
  BY <1>0, <1>1 DEF SumTokens, CheckSlice, SliceHolds
<1>6. c.pending = {} /\ ~ c.done /\ c \in RuSliceRec /\ c.todo \in SUBSET RuSeries
  BY <1>0, <1>1 DEF SlicesTrue, SliceShape, RuTyped, RuSliceRec
<1>7. SliceShape(y)
  <2>1. \A x, z \in y.pending : x = z
    <3>1. y.pending = {} \/ y.pending = Flushed(c)
      BY <1>4, <1>6
    <3>2. y.pending = Flushed(c) => \A x, z \in y.pending : x = z
      BY <1>6, PendFlushed
    <3> QED
      BY <3>1, <3>2
  <2> QED
    BY <1>3, <1>4, <1>6, <2>1 DEF SliceShape
<1>8. ASSUME ruTriggers PROVE SliceTrue(p)'
  <2>0. HourTrue(k)
    BY <1>5, <1>8 DEF HoursTrue
  <2>1. SliceTrue(p)
    BY <1>0, <1>1, <1>5, <1>8 DEF SlicesTrue
  <2>2. ASSUME NEW v \in RuServices
        PROVE  Together(k, ruCells[<<k, v>>], NoCells, Acc(c, v), D \cap SeriesOfService(v))
    BY <1>0, <1>6, <2>1, PendNone DEF SliceTrue
  <2>3. ASSUME NEW v \in RuServices PROVE Acc(c, v) \in RuCells /\ ruCells[<<k, v>>] \in RuCells
    BY <1>5, <1>6, RuNothing DEF Acc, RuSliceRec, RuTyped
  <2>4. ASSUME NEW v \in RuServices
        PROVE  Together(k, ruCells[<<k, v>>], Acc(c, v), NoCells, D \cap SeriesOfService(v))
    BY <2>2, <2>3, TogetherSwap
  <2>5. ASSUME NEW v \in RuServices
        PROVE  Together(k, ruCells[<<k, v>>], Pend(y, v), Acc(y, v),
                        (RuSeries \ y.todo) \cap SeriesOfService(v))
    <3>1. CASE c.todo = {} /\ y.todo = {} /\ y.acc = NoCells /\ y.pending = Flushed(c)
      <4>1. Pend(y, v) = Acc(c, v)
        BY <1>6, <3>1, PendFlushed
      <4>2. Acc(y, v) = NoCells
        BY <3>1 DEF Acc
      <4>3. RuSeries \ y.todo = D
        BY <3>1
      <4> QED
        BY <2>4, <4>1, <4>2, <4>3
    <3>2. CASE /\ s \in c.todo /\ s \in RuSeries /\ y.todo = c.todo \ {s}
               /\ y.group = RuService[s] /\ y.acc = ReadCells(c, s)
               /\ y.pending = IF c.group = RuService[s] THEN c.pending ELSE Flushed(c)
      <4>1. CASE v = RuService[s]
        <5> DEFINE T == D \cap SeriesOfService(v)
                   a == ruCells[<<k, v>>]
        <5>1. Pend(y, v) = NoCells
          <6>1. CASE c.group = v
            BY <1>6, <3>2, <4>1, <6>1, PendNone
          <6>2. CASE c.group # v
            BY <1>6, <3>2, <4>1, <6>2, PendOther
          <6> QED
            BY <6>1, <6>2
        <5>2. Acc(y, v) = ReadCells(c, s)
          BY <3>2, <4>1 DEF Acc
        <5>3. /\ (RuSeries \ y.todo) \cap SeriesOfService(v) = T \cup {s}
              /\ s \notin T /\ T \in SUBSET RuSeries
          BY <3>2, <4>1 DEF SeriesOfService
        <5>4. Together(k, a, NoCells, Acc(c, RuService[s]), T) /\ a \in RuCells
          BY <2>2, <2>3, <4>1
        <5> HIDE DEF T, a
        <5>5. Together(k, a, NoCells, ReadCells(c, s), T \cup {s})
          BY <1>5, <1>6, <2>0, <3>2, <5>3, <5>4, ReadGrows
        <5> QED
          BY <5>1, <5>2, <5>3, <5>5 DEF a
      <4>2. CASE v # RuService[s]
        <5>1. Pend(y, v) = Acc(c, v)
          <6>1. CASE c.group = RuService[s]
            <7>1. Pend(y, v) = NoCells
              BY <1>6, <3>2, <6>1, PendNone
            <7> QED
              BY <4>2, <6>1, <7>1 DEF Acc
          <6>2. CASE c.group # RuService[s]
            BY <1>6, <3>2, <6>2, PendFlushed
          <6> QED
            BY <6>1, <6>2
        <5>2. Acc(y, v) = NoCells
          BY <3>2, <4>2 DEF Acc
        <5>3. (RuSeries \ y.todo) \cap SeriesOfService(v) = D \cap SeriesOfService(v)
          BY <3>2, <4>2 DEF SeriesOfService
        <5> QED
          BY <2>4, <5>1, <5>2, <5>3
      <4> QED
        BY <4>1, <4>2
    <3> QED
      BY <1>4, <3>1, <3>2
  <2>6. ~ y.unsafe => Plain(k, RuSeries \ y.todo)
    <3>1. ~ c.unsafe => Plain(k, D)
      BY <1>0, <2>1 DEF SliceTrue
    <3>2. \A t \in RuSeries : ruHourly[<<k, t>>] \in Nat
      BY <1>5 DEF RuTyped
    <3> QED
      BY <1>4, <3>1, <3>2 DEF Plain
  <2> HIDE DEF k
  <2> QED
    BY <1>1, <1>3, <1>a, <2>5, <2>6, SliceTrueBy
<1>9. SliceShape(ruSlice[p])'
  BY <1>7, <1>a DEF SliceShape
<1>10. (ruTriggers => SumsTrue)' /\ SlicesTrue'
  <2>1. \A h \in RuHours : h # k => ruSum'[h] = ruSum[h] /\ SameCells(h)
    BY <1>1 DEF SameCells
  <2>2. ruSum'[k].id = ruSum[k].id /\ ruSum'[k].state = 1
    BY <1>1, <1>5
  <2>3. ruTriggers' /\ ruSlice'[p].at \in {"read", "write"} /\ SliceHolds(p)' => SliceTrue(p)'
    BY <1>1, <1>8
  <2>4. ruSlice[p].at # "no" /\ k = ruSlice[p].hour
    BY <1>0, <1>1
  <2> HIDE DEF k
  <2> QED
    BY <1>1, <1>2, <1>5, <1>9, <2>1, <2>2, <2>3, <2>4, OtherSlicesKept
<1>11. SlicerQuiet(p)
  BY <1>0, <1>a, <1>1, <1>2, <1>3, SlicerIsQuiet
<1> QED
  BY <1>10, <1>11

\* Pending cells, once they are written, are cells of the hour.
LEMMA TogetherWritten ==
    ASSUME NEW h, NEW T, NEW a \in RuCells, NEW b \in RuCells, NEW c \in RuCells, NEW x,
           Together(h, a, b, c, T),
           (a = NoCells /\ x = b) \/ (b = NoCells /\ x = a)
    PROVE  Together(h, x, NoCells, c, T)
<1>1. x.total + NoCells.total + c.total = a.total + b.total + c.total
  BY NoCellsAre DEF RuCells
<1>2. \A w \in HourWindows(h) : x.windows[w] + NoCells.windows[w] + c.windows[w] =
                                a.windows[w] + b.windows[w] + c.windows[w]
  BY NoCellsAre DEF RuCells, HourWindows
<1>3. a.sketch = 2 \/ b.sketch = 2 \/ c.sketch = 2 => x.sketch = 2 \/ NoCells.sketch = 2 \/ c.sketch = 2
  BY NoCellsAre
<1> QED
  BY <1>1, <1>2, <1>3, TogetherSame

\* A slice writes its pending cells where there are none, and publishes the hour when every
\* series is read.
LEMMA WriteSliceKept ==
    ASSUME RuTyped, RuTyped', SumTokens, ruTriggers => SumsTrue, SlicesTrue,
           NEW p \in RuProcs, WriteSlice(p)
    PROVE  SlicerQuiet(p) /\ (ruTriggers => SumsTrue)' /\ SlicesTrue'
<1>0. PICK c : c = ruSlice[p]
  OBVIOUS
<1>a. PICK y : y = ruSlice'[p]
  OBVIOUS
<1> DEFINE k == c.hour
           D == RuSeries \ c.todo
<1>1. /\ ruHour' = ruHour /\ ruBuckets' = ruBuckets /\ ruHourly' = ruHourly
      /\ ruBuild' = ruBuild /\ ruTriggers' = ruTriggers /\ ruCount' = ruCount
      /\ c.at = "write" /\ CheckSlice(p)
      /\ \A x \in c.pending : ruCells[<<k, x[1]>>] = NoCells
  BY <1>0 DEF WriteSlice, ruRollupVars, ruStoreVars
<1>2. /\ \A q \in RuProcs : q # p => ruSlice'[q] = ruSlice[q]
      /\ \/ c.done /\ y = NoSlice
         \/ /\ ~ c.done
            /\ y = SliceRow("read", k, c.uuid, c.src, c.id, c.todo, c.group, c.acc, {},
                            c.unsafe, c.done)
  <2> DEFINE z == SliceRow("read", k, c.uuid, c.src, c.id, c.todo, c.group, c.acc, {},
                            c.unsafe, c.done)
  <2>1. \/ c.done /\ ruSlice' = [ruSlice EXCEPT ![p] = NoSlice]
        \/ ~ c.done /\ ruSlice' = [ruSlice EXCEPT ![p] = z]
    BY <1>0, WriteSliceRow, Zenon
  <2> HIDE DEF z
  <2>2. /\ \A q \in RuProcs : q # p => ruSlice'[q] = ruSlice[q]
        /\ (c.done /\ y = NoSlice) \/ (~ c.done /\ y = z)
    BY <1>a, <2>1 DEF RuTyped
  <2> QED
    BY <2>2, Zenon DEF z
<1>3. \/ c.done /\ y = NoSlice
      \/ /\ ~ c.done /\ y.at = "read" /\ y.hour = k /\ y.id = c.id /\ y.src = c.src
         /\ y.todo = c.todo /\ y.group = c.group /\ y.acc = c.acc /\ y.pending = {}
         /\ y.unsafe = c.unsafe /\ y.done = c.done
  BY <1>2, SliceRowFields
<1>4. NoSlice.at = "no" /\ NoSlice.id = 0 /\ NoSlice.src = 0
  BY DEF NoSlice
<1>5. /\ k \in RuHours /\ SliceHolds(p) /\ ruSum[k].state = 1 /\ ruHour[k].state = 2
      /\ ruSum[k] \in RuSumMarker
  BY <1>0, <1>1 DEF SumTokens, CheckSlice, SliceHolds, RuTyped
<1>6. /\ c \in RuSliceRec /\ SliceShape(c)
  BY <1>0 DEF SlicesTrue, RuTyped
<1>7. SliceShape(ruSlice[p])'
  <2>1. SliceShape(NoSlice)
    BY DEF NoSlice, SliceShape
  <2>2. SliceShape(y)
    BY <1>3, <1>6, <2>1 DEF SliceShape
  <2> QED
    BY <1>a, <2>2 DEF SliceShape
<1>8. /\ \A h \in RuHours : h # k => ruSum'[h] = ruSum[h]
      /\ ruSum'[k].id = ruSum[k].id /\ ruSum'[k].src = ruSum[k].src
      /\ (c.done /\ ~ c.unsafe) \/ ruSum'[k].state # 2
      /\ c.done \/ ruSum'[k].state = 1
  <2> DEFINE m == IF ~ c.done THEN ruSum[k].state ELSE IF c.unsafe THEN 4 ELSE 2
  <2>1. ruSum' = [ruSum EXCEPT ![k].state = m]
    BY <1>0 DEF WriteSlice
  <2>2. ((c.done /\ ~ c.unsafe) \/ m # 2) /\ (c.done \/ m = 1)
    BY <1>5
  <2> HIDE DEF m
  <2> QED
    BY <1>5, <2>1, <2>2 DEF RuTyped, RuSumMarker
<1>9. /\ \A h \in RuHours : h # k => SameCells(h)
      /\ \A v \in RuServices : ruCells'[<<k, v>>] =
           IF \E x \in c.pending : x[1] = v THEN Pend(c, v) ELSE ruCells[<<k, v>>]
  <2> DEFINE e(v) == CHOOSE x \in c.pending : x[1] = v
  <2>1. ruCells' = [z \in DOMAIN ruCells |->
            IF z[1] = k /\ \E x \in c.pending : x[1] = z[2] THEN e(z[2])[2] ELSE ruCells[z]]
    BY <1>0 DEF WriteSlice
  <2>2. DOMAIN ruCells = RuHours \X RuServices
    BY DEF RuTyped
  <2>3. \A v : (\E x \in c.pending : x[1] = v) => Pend(c, v) = e(v)[2]
    BY DEF Pend
  <2> HIDE DEF e
  <2>4. ASSUME NEW h \in RuHours, h # k PROVE SameCells(h)
    BY <2>1, <2>2, <2>4 DEF SameCells
  <2>5. ASSUME NEW v \in RuServices
        PROVE ruCells'[<<k, v>>] =
               IF \E x \in c.pending : x[1] = v THEN Pend(c, v) ELSE ruCells[<<k, v>>]
    <3>1. <<k, v>> \in DOMAIN ruCells
      BY <1>5, <2>2
    <3> QED
      BY <2>1, <2>3, <3>1
  <2> QED
    BY <2>4, <2>5
<1>10. ASSUME NEW v \in RuServices
       PROVE  /\ Pend(c, v) \in RuCells /\ Acc(c, v) \in RuCells /\ ruCells[<<k, v>>] \in RuCells
              /\ \/ ruCells[<<k, v>>] = NoCells /\ ruCells'[<<k, v>>] = Pend(c, v)
                 \/ Pend(c, v) = NoCells /\ ruCells'[<<k, v>>] = ruCells[<<k, v>>]
  <2>1. Acc(c, v) \in RuCells /\ ruCells[<<k, v>>] \in RuCells
    BY <1>5, <1>6, RuNothing DEF Acc, RuSliceRec, RuTyped
  <2>2. CASE \E x \in c.pending : x[1] = v
    <3> DEFINE e == CHOOSE x \in c.pending : x[1] = v
    <3>1. e \in c.pending /\ e[1] = v
      BY <2>2
    <3>2. Pend(c, v) = e[2]
      BY <2>2 DEF Pend
    <3> HIDE DEF e
    <3>3. e[2] \in RuCells
      BY <1>6, <3>1 DEF RuSliceRec
    <3> QED
      BY <1>1, <1>9, <2>1, <2>2, <3>1, <3>2, <3>3
  <2>3. CASE ~ \E x \in c.pending : x[1] = v
    BY <1>9, <2>1, <2>3, NoCellsAre DEF Pend
  <2> QED
    BY <2>2, <2>3
<1>11. ASSUME ruTriggers, NEW v \in RuServices
       PROVE  Together(k, ruCells'[<<k, v>>], NoCells, Acc(c, v), D \cap SeriesOfService(v))
  <2> DEFINE a == ruCells[<<k, v>>]
             b == Pend(c, v)
             d == Acc(c, v)
             z == ruCells'[<<k, v>>]
             T == D \cap SeriesOfService(v)
  <2>1. Together(k, a, b, d, T)
    BY <1>0, <1>1, <1>5, <1>11 DEF SlicesTrue, SliceTrue
  <2>2. /\ a \in RuCells /\ b \in RuCells /\ d \in RuCells
        /\ (a = NoCells /\ z = b) \/ (b = NoCells /\ z = a)
    BY <1>10
  <2> HIDE DEF a, b, d, z, T, k
  <2>3. Together(k, z, NoCells, d, T)
    BY <2>1, <2>2, TogetherWritten
  <2> QED
    BY <2>3 DEF z, d, T
<1>12. ASSUME ruTriggers PROVE ~ c.unsafe => Plain(k, D)
  BY <1>0, <1>1, <1>5, <1>12 DEF SlicesTrue, SliceTrue
<1>13. ASSUME ruTriggers, ~ c.done PROVE SliceTrue(p)'
  <2>1. /\ y.hour = k /\ y.todo = c.todo /\ y.group = c.group /\ y.acc = c.acc
        /\ y.pending = {} /\ y.unsafe = c.unsafe
    BY <1>3, <1>13
  <2>2. ASSUME NEW v \in RuServices
        PROVE  Together(k, ruCells'[<<k, v>>], Pend(y, v), Acc(y, v),
                        (RuSeries \ y.todo) \cap SeriesOfService(v))
    <3>1. Pend(y, v) = NoCells /\ Acc(y, v) = Acc(c, v)
      BY <2>1, PendNone DEF Acc
    <3> QED
      BY <1>11, <1>13, <2>1, <3>1
  <2>3. ~ y.unsafe => Plain(k, RuSeries \ y.todo)
    BY <1>12, <1>13, <2>1
  <2> HIDE DEF k
  <2> QED
    BY <1>1, <1>a, <2>1, <2>2, <2>3, SliceTrueBy
<1>14. ASSUME ruTriggers, c.done PROVE SumTrue(k)'
  <2>1. c.todo = {} /\ c.acc = NoCells
    BY <1>6, <1>14 DEF SliceShape
  <2>2. ASSUME NEW v \in RuServices
        PROVE  Together(k, ruCells[<<k, v>>], NoCells, NoCells, SeriesOfService(v))'
    <3>1. Acc(c, v) = NoCells
      BY <2>1 DEF Acc
    <3>2. D \cap SeriesOfService(v) = SeriesOfService(v)
      BY <2>1 DEF SeriesOfService
    <3>3. Together(k, ruCells'[<<k, v>>], NoCells, NoCells, SeriesOfService(v))
      BY <1>11, <1>14, <3>1, <3>2
    <3> QED
      BY <1>1, <3>3 DEF Together
  <2>3. ruSum'[k].state = 2 => Plain(k, RuSeries)'
    BY <1>1, <1>8, <1>12, <1>14, <2>1 DEF Plain
  <2> QED
    BY <2>2, <2>3 DEF SumTrue
<1>15. (ruTriggers => SumsTrue)' /\ SlicesTrue'
  <2>1. \A h \in RuHours : h # k => ruSum'[h] = ruSum[h] /\ SameCells(h)
    BY <1>8, <1>9
  <2>2. ruTriggers' /\ ruSlice'[p].at \in {"read", "write"} /\ SliceHolds(p)' => SliceTrue(p)'
    BY <1>1, <1>3, <1>4, <1>a, <1>13
  <2>3. ruTriggers' /\ ruSum'[k].state \in {2, 4} => SumTrue(k)'
    BY <1>1, <1>8, <1>14
  <2>4. ruSlice[p].at # "no" /\ k = ruSlice[p].hour
    BY <1>0, <1>1
  <2> HIDE DEF k
  <2> QED
    BY <1>1, <1>2, <1>5, <1>7, <1>8, <2>1, <2>2, <2>3, <2>4, OtherSlicesKept
<1>16. SlicerQuiet(p)
  <2>1. \A h \in RuHours : ruSum'[h].id = ruSum[h].id /\ ruSum'[h].src = ruSum[h].src
    BY <1>8
  <2> QED
    BY <1>0, <1>a, <1>1, <1>2, <1>3, <1>4, <2>1, SlicerIsQuiet
<1> QED
  BY <1>15, <1>16

\* A store is new when it is made, and the owner of the derived tables has its triggers.
LEMMA StoresKept ==
    ASSUME RuTyped, RuTyped', StoresOnce, RuNext
    PROVE  StoresOnce'
<1> USE DEF ruStoreVars, ruRollupVars, ruSummaryVars, ruWorkVars
<1>0. /\ ruUuid \in Nat /\ ruOwner \in Nat /\ ruCount.stores \in Nat
      /\ ruProc \in [RuProcs -> RuProcRec]
      /\ \A q \in RuProcs : ruProc[q].uuid \in Nat
  BY DEF RuTyped, RuCountRec, RuProcRec
<1>1. ASSUME ruUuid' = ruUuid, ruOwner' = ruOwner, ruTriggers' = ruTriggers,
             ruCount'.stores = ruCount.stores,
             \A q \in RuProcs : ruProc'[q].uuid <= ruCount.stores
      PROVE  StoresOnce'
  BY <1>1 DEF StoresOnce, Owned
<1>2. ASSUME ruUuid' = ruUuid, ruOwner' = ruOwner, ruTriggers' = ruTriggers, ruProc' = ruProc,
             \/ ruCount' = ruCount \/ Counter("adds") \/ FreshToken
      PROVE  StoresOnce'
  <2>1. ruCount'.stores = ruCount.stores
    BY <1>2, RuFresh DEF Counter, RuTyped, RuCountRec
  <2> QED
    BY <1>1, <1>2, <2>1 DEF StoresOnce
<1>3. ASSUME NEW p \in RuProcs, Inspect(p) \/ EnsureSummary(p) \/ Stop(p) PROVE StoresOnce'
  <2>1. /\ ruUuid' = ruUuid /\ ruOwner' = ruOwner /\ ruTriggers' = ruTriggers
        /\ ruCount' = ruCount
    BY <1>3 DEF Inspect, EnsureSummary, Stop
  <2>2. ASSUME NEW q \in RuProcs
        PROVE  ruProc'[q].uuid \in {0, ruUuid, ruProc[q].uuid}
    BY <1>0, <1>3 DEF Inspect, EnsureSummary, Stop, RuProcRec
  <2>3. \A q \in RuProcs : ruProc'[q].uuid <= ruCount.stores
    BY <1>0, <2>2 DEF StoresOnce
  <2> QED
    BY <1>1, <2>1, <2>3
<1>4. ASSUME NEW p \in RuProcs, DropTables(p) PROVE StoresOnce'
  <2>1. ruUuid' = 0 /\ ruOwner' = ruOwner /\ ruCount' = ruCount
    BY <1>4 DEF DropTables
  <2>2. \A q \in RuProcs : ruProc'[q].uuid = ruProc[q].uuid
    BY <1>0, <1>4 DEF DropTables, RuProcRec
  <2> QED
    BY <1>0, <2>1, <2>2 DEF StoresOnce
<1>5. ASSUME NEW p \in RuProcs, CreateSchema(p) PROVE StoresOnce'
  <2>1. /\ ruUuid' = ruCount.stores + 1 /\ ruOwner' = ruOwner
        /\ ruCount'.stores = ruCount.stores + 1
    BY <1>5 DEF CreateSchema, Counter, RuTyped, RuCountRec
  <2>2. \A q \in RuProcs : ruProc'[q].uuid \in {ruCount.stores + 1, ruProc[q].uuid}
    BY <1>0, <1>5 DEF CreateSchema, RuProcRec
  <2> QED
    BY <1>0, <2>1, <2>2 DEF StoresOnce, Owned
<1>6. ASSUME NEW p \in RuProcs, EnsureRollup(p) PROVE StoresOnce'
  <2>1. /\ ruUuid' = ruUuid /\ ruOwner' = ruProc[p].uuid /\ ruTriggers' /\ ruCount' = ruCount
    BY <1>6 DEF EnsureRollup
  <2>2. \A q \in RuProcs : ruProc'[q].uuid = ruProc[q].uuid
    BY <1>0, <1>6 DEF EnsureRollup, RuProcRec
  <2> QED
    BY <1>0, <2>1, <2>2 DEF StoresOnce
<1>7. ASSUME NEW p \in RuProcs, NEW s \in RuSeries, NEW w \in RuWindows, AddToBucket(p, s, w)
      PROVE  StoresOnce'
  BY <1>2, <1>7 DEF AddToBucket
<1>8. ASSUME NEW p \in RuProcs, NEW w \in RuWindows, BeginPurge(p, w + 1) \/ PurgeRow(p, w)
      PROVE  StoresOnce'
  BY <1>2, <1>8 DEF BeginPurge, PurgeRow
<1>9. ASSUME NEW p \in RuProcs, \/ PurgeSummaries(p) \/ ClaimCleanup(p) \/ CleanupSlice(p)
                                \/ PurgeEnds(p)
      PROVE  StoresOnce'
  BY <1>2, <1>9 DEF PurgeSummaries, ClaimCleanup, CleanupSlice, PurgeEnds
<1>10. ASSUME NEW p \in RuProcs, NEW h \in RuHours, Discover(p, h) \/ PickHour(p, h) \/ ClaimSummary(p, h)
       PROVE  StoresOnce'
  BY <1>2, <1>10 DEF Discover, PickHour, ClaimSummary
<1>11. ASSUME NEW p \in RuProcs,
              \/ ClaimHour(p) \/ ClearHour(p) \/ OpenSnapshot(p) \/ WriteChunk(p)
              \/ PublishHour(p) \/ BuildFails(p)
       PROVE  StoresOnce'
  BY <1>2, <1>11 DEF ClaimHour, ClearHour, OpenSnapshot, WriteChunk, PublishHour, BuildFails
<1>12. ASSUME NEW p \in RuProcs, \/ CleanSlice(p) \/ ReadSlice(p) \/ WriteSlice(p) \/ SliceFails(p)
       PROVE  StoresOnce'
  BY <1>2, <1>12 DEF CleanSlice, ReadSlice, WriteSlice, SliceFails
<1> QED
  BY <1>3, <1>4, <1>5, <1>6, <1>7, <1>8, <1>9, <1>10, <1>11, <1>12 DEF RuNext

\* The invariant holds at the start.
LEMMA RuInvInit == RuInit => RuInv
<1> SUFFICES ASSUME RuInit PROVE RuInv
  OBVIOUS
<1>1. /\ \A h \in RuHours : ruHour[h] = NoHour /\ ruSum[h] = NoSum
      /\ \A p \in RuProcs : ruBuild[p] = NoBuild /\ ruSlice[p] = NoSlice /\ ruProc[p].uuid = 0
      /\ ruUuid = 0 /\ ruOwner = 0 /\ ruTriggers = FALSE
      /\ ruCount.tokens = 0 /\ ruCount.stores = 0
  BY DEF RuInit
<1>2. StoresOnce
  BY <1>1 DEF StoresOnce
<1>3. HourTokens
  BY <1>1, RuIdle DEF HourTokens, Building
<1>4. SumTokens
  BY <1>1, RuIdle DEF SumTokens
<1>5. SlicesTrue
  BY <1>1, RuIdle DEF SlicesTrue
<1> QED
  BY <1>1, <1>2, <1>3, <1>4, <1>5 DEF RuInv

\* A step that is quiet keeps the invariant ...
LEMMA QuietKept ==
    ASSUME RuTyped, RuTyped', RuInv, StoresOnce', NEW p \in RuProcs, RuQuiet(p)
    PROVE  RuInv'
<1>1. HourTokens' /\ SumTokens'
  BY TokensKept DEF RuInv, RuQuiet
<1>2. (ruTriggers => HoursTrue /\ BuildsTrue)'
  BY BuildsKept DEF RuInv, RuQuiet
<1>3. (ruTriggers => SumsTrue)' /\ SlicesTrue'
  BY SumsKept DEF RuInv, RuQuiet
<1> QED
  BY <1>1, <1>2, <1>3 DEF RuInv

\* ... and so do the steps of a builder ...
LEMMA BuilderKept ==
    ASSUME RuTyped, RuTyped', RuInv, StoresOnce', NEW p \in RuProcs,
           ClearHour(p) \/ OpenSnapshot(p) \/ WriteChunk(p) \/ PublishHour(p)
    PROVE  RuInv'
<1>0. HourTokens /\ SumTokens /\ (ruTriggers => HoursTrue /\ BuildsTrue)
      /\ (ruTriggers => SumsTrue) /\ SlicesTrue
  BY DEF RuInv
<1>1. BuilderQuiet(p) /\ (ruTriggers => HoursTrue /\ BuildsTrue)'
  BY <1>0, ClearHourKept, OpenSnapshotKept, WriteChunkKept, PublishHourKept
<1>2. HourTokens' /\ SumTokens'
  BY <1>0, <1>1, TokensKept DEF BuilderQuiet
<1>3. (ruTriggers => SumsTrue)' /\ SlicesTrue'
  BY <1>0, <1>1, SumsKept DEF BuilderQuiet
<1> QED
  BY <1>1, <1>2, <1>3 DEF RuInv

\* ... and of a summarizer.
LEMMA SlicerKept ==
    ASSUME RuTyped, RuTyped', RuInv, StoresOnce', NEW p \in RuProcs,
           CleanSlice(p) \/ ReadSlice(p) \/ WriteSlice(p)
    PROVE  RuInv'
<1>0. HourTokens /\ SumTokens /\ (ruTriggers => HoursTrue /\ BuildsTrue)
      /\ (ruTriggers => SumsTrue) /\ SlicesTrue /\ (ruTriggers => HoursTrue /\ SumsTrue)
  BY DEF RuInv
<1>1. SlicerQuiet(p) /\ (ruTriggers => SumsTrue)' /\ SlicesTrue'
  BY <1>0, CleanSliceKept, ReadSliceKept, WriteSliceKept
<1>2. HourTokens' /\ SumTokens'
  BY <1>0, <1>1, TokensKept DEF SlicerQuiet
<1>3. (ruTriggers => HoursTrue /\ BuildsTrue)'
  BY <1>0, <1>1, BuildsKept DEF SlicerQuiet
<1> QED
  BY <1>1, <1>2, <1>3 DEF RuInv

\* Nothing that the invariant speaks of changes when nothing changes.
LEMMA RuInvSame ==
    ASSUME RuTyped, RuTyped', RuInv, UNCHANGED ruVars
    PROVE  RuInv'
<1>1. /\ ruUuid' = ruUuid /\ ruOwner' = ruOwner /\ ruTriggers' = ruTriggers /\ ruProc' = ruProc
      /\ ruCount' = ruCount /\ ruHour' = ruHour /\ ruHourly' = ruHourly /\ ruBuckets' = ruBuckets
      /\ ruSum' = ruSum /\ ruCells' = ruCells /\ ruBuild' = ruBuild /\ ruSlice' = ruSlice
  BY DEF ruVars, ruStoreVars, ruRollupVars, ruSummaryVars, ruWorkVars
<1>2. StoresOnce' /\ HourTokens' /\ SumTokens'
  BY <1>1 DEF RuInv, StoresOnce, Owned, HourTokens, SumTokens, Building
<1>3. HoursQuiet /\ BuildsQuiet /\ SumsQuiet /\ SlicesQuiet
  BY <1>1 DEF HoursQuiet, BuildsQuiet, SumsQuiet, SlicesQuiet, SameRows, SameCells
<1>4. (ruTriggers => HoursTrue /\ BuildsTrue)'
  BY <1>3, BuildsKept DEF RuInv
<1>5. (ruTriggers => SumsTrue)' /\ SlicesTrue'
  BY <1>3, SumsKept DEF RuInv
<1> QED
  BY <1>2, <1>4, <1>5 DEF RuInv

\* Every step keeps the invariant.
LEMMA RuInvNext ==
    ASSUME RuTyped, RuInv, [RuNext]_ruVars
    PROVE  RuTyped' /\ RuInv'
<1>1. RuTyped'
  BY RuTypedNext DEF RuInv
<1>2. CASE UNCHANGED ruVars
  BY <1>1, <1>2, RuInvSame
<1>3. CASE RuNext
  <2>1. StoresOnce'
    BY <1>1, <1>3, StoresKept DEF RuInv
  <2>2. PICK p \in RuProcs :
          \/ Inspect(p) \/ DropTables(p) \/ CreateSchema(p) \/ EnsureRollup(p) \/ EnsureSummary(p)
          \/ Stop(p)
          \/ \E s \in RuSeries, w \in RuWindows : AddToBucket(p, s, w)
          \/ \E w \in RuWindows : BeginPurge(p, w + 1) \/ PurgeRow(p, w)
          \/ PurgeSummaries(p) \/ ClaimCleanup(p) \/ CleanupSlice(p) \/ PurgeEnds(p)
          \/ \E h \in RuHours : Discover(p, h) \/ PickHour(p, h) \/ ClaimSummary(p, h)
          \/ ClaimHour(p) \/ ClearHour(p) \/ OpenSnapshot(p) \/ WriteChunk(p) \/ PublishHour(p)
          \/ BuildFails(p) \/ CleanSlice(p) \/ ReadSlice(p) \/ WriteSlice(p) \/ SliceFails(p)
    BY <1>3 DEF RuNext
  <2>3. CASE ClearHour(p) \/ OpenSnapshot(p) \/ WriteChunk(p) \/ PublishHour(p)
    BY <1>1, <2>1, <2>3, BuilderKept
  <2>4. CASE CleanSlice(p) \/ ReadSlice(p) \/ WriteSlice(p)
    BY <1>1, <2>1, <2>4, SlicerKept
  <2>5. CASE \/ Inspect(p) \/ CreateSchema(p) \/ PurgeSummaries(p) \/ PurgeEnds(p)
             \/ \E w \in RuWindows : BeginPurge(p, w + 1)
    BY <1>1, <2>1, <2>5, QuietOpen, QuietKept
  <2>6. CASE \/ Stop(p) \/ BuildFails(p) \/ SliceFails(p)
             \/ \E h \in RuHours : PickHour(p, h)
    BY <1>1, <2>1, <2>6, QuietGiveUp, QuietKept
  <2>7. CASE \E s \in RuSeries, w \in RuWindows : AddToBucket(p, s, w)
    BY <1>1, <2>1, <2>7, QuietAdd, QuietKept
  <2>8. CASE \E w \in RuWindows : PurgeRow(p, w)
    BY <1>1, <2>1, <2>8, QuietPurge, QuietKept
  <2>9. CASE \E h \in RuHours : Discover(p, h) \/ ClaimSummary(p, h)
    BY <1>1, <2>1, <2>9, QuietDiscover, QuietClaimSummary, QuietKept
  <2>10. CASE DropTables(p) \/ EnsureRollup(p) \/ EnsureSummary(p)
    BY <1>1, <2>1, <2>10, QuietDrop, QuietEnsureRollup, QuietEnsureSummary, QuietKept
  <2>11. CASE ClaimHour(p)
    BY <1>1, <2>1, <2>11, QuietClaimHour, QuietKept DEF RuInv
  <2>12. CASE ClaimCleanup(p) \/ CleanupSlice(p)
    BY <1>1, <2>1, <2>12, QuietClaimCleanup, QuietCleanup, QuietKept
  <2>13. RuInv'
    BY <2>2, <2>3, <2>4, <2>5, <2>6, <2>7, <2>8, <2>9, <2>10, <2>11, <2>12
  <2> QED
    BY <1>1, <2>13
<1> QED
  BY <1>2, <1>3

\* What was regrouped without a lossy contribution is exact.
LEMMA RegroupedExact ==
    ASSUME NEW h, NEW n, NEW S,
           \A s \in S \cap RuLossy : PointsIn(ruBuckets, {s}, HourWindows(h)) = 0
    PROVE  Regrouped(h, n, S) = Exact(n)
<1> DEFINE e == \A s \in S \cap RuLossy : PointsIn(ruBuckets, {s}, HourWindows(h)) = 0
<1>1. e = TRUE
  OBVIOUS
<1> QED
  BY <1>1, Zenon DEF Regrouped, Exact

\* The rows of a true hour hold, service by service, what the buckets hold.
LEMMA HourlyIsExact ==
    ASSUME RuTyped, NEW h \in RuHours, HourTrue(h), NEW v
    PROVE  FromHourly(h, v) = FromBuckets(h, v)
<1> DEFINE T == SeriesOfService(v)
           W == HourWindows(h)
<1>1. T \in SUBSET RuSeries /\ W \in SUBSET RuWindows /\ ruBuckets \in RuGrid
  BY DEF SeriesOfService, HourWindows, RuTyped
<1>2. IsFiniteSet(T) /\ IsFiniteSet(W)
  BY <1>1, RuPointsType
<1>3. \A x \in T \X W : ruBuckets[x] \in Nat
  BY <1>1 DEF RuGrid
<1>4. \A s \in T : RowIs(ruHourly, h, ruBuckets, W, s)
  BY <1>1 DEF RuTyped, HourTrue, Rowed, RowIs
<1> HIDE DEF T, W
<1>5. PointsIn(ruHourly, {h}, T) = PointsIn(ruBuckets, T, W)
  BY ONLY <1>2, <1>3, <1>4, PointsMerge
<1> QED
  BY <1>5 DEF FromHourly, FromBuckets, T, W

\* What the invariant says of a read.
LEMMA RuInvExact == ASSUME RuTyped, RuInv PROVE HistoryExact
<1> SUFFICES ASSUME ruUuid # 0, NEW h \in RuHours, NEW v \in RuServices
             PROVE  /\ SumRead(h, v) = Exact(FromBuckets(h, v))
                    /\ \A selected \in SUBSET RuServices :
                         v \in selected => SketchRead(h, selected, v) = Exact(FromBuckets(h, v))
                    /\ \A w \in HourWindows(h), traffic \in BOOLEAN :
                         WindowRead(h, w, v, traffic) = PointsIn(ruBuckets, SeriesOfService(v), {w})
  BY DEF HistoryExact
<1> DEFINE n == FromBuckets(h, v)
           c == ruCells[<<h, v>>]
<1>1. Owned => HoursTrue /\ SumsTrue
  BY DEF RuInv, StoresOnce
<1>2. ASSUME Owned, ruHour[h].state = 2
      PROVE  /\ FromHourly(h, v) = n
             /\ \A s \in RuSeries : ruHourly[<<h, s>>] = PointsIn(ruBuckets, {s}, HourWindows(h))
             /\ \A s \in RuSeries : ruHour[h].safe /\ s \in RuLossy => ruHourly[<<h, s>>] = 0
  <2>1. HourTrue(h)
    BY <1>1, <1>2 DEF HoursTrue
  <2> QED
    BY <2>1, HourlyIsExact DEF HourTrue, Rowed
<1>3. ASSUME SummaryIn(h, {2, 4})
      PROVE  /\ Owned /\ ruHour[h].state = 2 /\ c.total = n
             /\ \A w \in HourWindows(h) :
                  c.windows[w] = PointsIn(ruBuckets, SeriesOfService(v), {w})
             /\ \A s \in SeriesOfService(v) \cap RuLossy : ruHourly[<<h, s>>] > 0 => c.sketch = 2
             /\ ruSum[h].state = 2 => Plain(h, RuSeries)
  <2>1. Owned /\ ruSum[h].state \in {2, 4} /\ SourceCurrent(h) /\ ruHour[h].state = 2
    BY <1>3 DEF SummaryIn, SourceCurrent
  <2>2. SumTrue(h)
    BY <1>1, <2>1 DEF SumsTrue
  <2>3. Together(h, c, NoCells, NoCells, SeriesOfService(v))
    BY <2>2 DEF SumTrue
  <2>4. FromHourly(h, v) = n
    BY <1>2, <2>1
  <2>5. c \in RuCells /\ HourWindows(h) \subseteq RuWindows
    BY DEF RuTyped, HourWindows
  <2>6. c.total \in Nat /\ \A w \in HourWindows(h) : c.windows[w] \in Nat
    BY <2>5 DEF RuCells
  <2>7. c.total + 0 + 0 = PointsIn(ruHourly, {h}, SeriesOfService(v))
    BY <2>3, NoCellsAre DEF Together
  <2>8. \A w \in HourWindows(h) :
          c.windows[w] + 0 + 0 = PointsIn(ruBuckets, SeriesOfService(v), {w})
    BY <2>3, <2>5, NoCellsAre DEF Together
  <2>9. \A s \in SeriesOfService(v) \cap RuLossy : ruHourly[<<h, s>>] > 0 => c.sketch = 2
    BY <2>3, NoCellsAre DEF Together
  <2> HIDE DEF n, c
  <2>10. c.total = n
    BY <2>4, <2>6, <2>7 DEF FromHourly
  <2>11. \A w \in HourWindows(h) : c.windows[w] = PointsIn(ruBuckets, SeriesOfService(v), {w})
    BY <2>6, <2>8
  <2>12. ruSum[h].state = 2 => Plain(h, RuSeries)
    BY <2>2 DEF SumTrue
  <2> QED
    BY <2>1, <2>9, <2>10, <2>11, <2>12 DEF c
<1>4. SummaryIn(h, {2}) => SummaryIn(h, {2, 4}) /\ ruSum[h].state = 2
  BY DEF SummaryIn
<1>5. \A s \in RuSeries : ruHourly[<<h, s>>] \in Nat
  BY DEF RuTyped
<1> HIDE DEF n
<1>6. SumRead(h, v) = Exact(n)
  <2>1. CASE ~ Rolled(h, FALSE)
    BY <2>1 DEF SumRead, n
  <2>2. CASE Rolled(h, FALSE) /\ SummaryIn(h, {2})
    <3>1. \A s \in RuSeries \cap RuLossy : PointsIn(ruBuckets, {s}, HourWindows(h)) = 0
      BY <1>2, <1>3, <1>4, <2>2 DEF Plain
    <3>2. Regrouped(h, n, RuSeries) = Exact(n)
      BY <3>1, RegroupedExact
    <3> QED
      BY <1>3, <1>4, <2>2, <3>2 DEF SumRead
  <2>3. CASE Rolled(h, FALSE) /\ ~ SummaryIn(h, {2})
    <3>1. FromHourly(h, v) = n
      BY <1>2, <2>3 DEF Rolled
    <3> QED
      BY <2>3, <3>1 DEF SumRead
  <2> QED
    BY <2>1, <2>2, <2>3
<1>7. ASSUME NEW selected \in SUBSET RuServices, v \in selected
      PROVE  SketchRead(h, selected, v) = Exact(n)
  <2> DEFINE S == SeriesOfService(v)
             x == SummaryIn(h, {2, 4}) /\ SketchesSafe(h, selected)
  <2>0. S \subseteq RuSeries
    BY DEF SeriesOfService
  <2>1. CASE x
    <3>1. c.sketch # 2
      BY <1>7, <2>1 DEF SketchesSafe
    <3>2. \A s \in S \cap RuLossy : PointsIn(ruBuckets, {s}, HourWindows(h)) = 0
      <4>1. \A s \in S \cap RuLossy : ~ (ruHourly[<<h, s>>] > 0)
        BY <1>3, <2>1, <3>1
      <4>2. \A s \in RuSeries : ruHourly[<<h, s>>] = PointsIn(ruBuckets, {s}, HourWindows(h))
        BY <1>2, <1>3, <2>1
      <4>3. \A s \in S \cap RuLossy : ruHourly[<<h, s>>] = 0
        BY <1>5, <2>0, <4>1
      <4> QED
        BY <2>0, <4>2, <4>3
    <3>3. Regrouped(h, n, S) = Exact(n)
      BY <3>2, RegroupedExact
    <3> QED
      BY <1>3, <2>1, <3>3 DEF SketchRead
  <2>2. CASE ~ x /\ Rolled(h, TRUE)
    <3>1. \A s \in S \cap RuLossy : PointsIn(ruBuckets, {s}, HourWindows(h)) = 0
      BY <1>2, <2>0, <2>2 DEF Rolled
    <3>2. Regrouped(h, n, S) = Exact(n)
      BY <3>1, RegroupedExact
    <3>3. FromHourly(h, v) = n
      BY <1>2, <2>2 DEF Rolled
    <3> QED
      BY <2>2, <3>2, <3>3 DEF SketchRead
  <2>3. CASE ~ x /\ ~ Rolled(h, TRUE)
    BY <2>3 DEF SketchRead, n
  <2> QED
    BY <2>1, <2>2, <2>3
<1>8. ASSUME NEW w \in HourWindows(h), NEW traffic \in BOOLEAN
      PROVE  WindowRead(h, w, v, traffic) = PointsIn(ruBuckets, SeriesOfService(v), {w})
  <2>1. SummaryIn(h, IF traffic THEN {2, 4} ELSE {2}) => SummaryIn(h, {2, 4})
    BY DEF SummaryIn
  <2> QED
    BY <1>3, <2>1 DEF WindowRead
<1> QED
  BY <1>6, <1>7, <1>8 DEF n

\* However builds, summaries, cleanups, finalizations, purges, rebuilds and restarts of any
\* number of processes interleave, a history read gets what the buckets hold and regroups only
\* what regroups exactly (rollup.go, service_summary.go, query.go), for any number of hours,
\* series and services.
THEOREM HistoryIsExact == RuSpec => []HistoryExact
<1>1. RuInit => RuTyped /\ RuInv
  BY RuTypedInit, RuInvInit
<1>2. RuTyped /\ RuInv /\ [RuNext]_ruVars => RuTyped' /\ RuInv'
  BY RuInvNext
<1>3. RuTyped /\ RuInv => HistoryExact
  BY RuInvExact
<1> QED
  BY <1>1, <1>2, <1>3, PTL DEF RuSpec
===============================================================================
