------------------------------ MODULE GroupCommit ------------------------------
(***************************************************************************)
(* The group-commit writer (internal/aggregate/writer.go): Exports pass a  *)
(* triple admission bound, queue on a channel and park; one commit loop    *)
(* coalesces them into a batch, commits it in one transaction, applies it  *)
(* to the shards and answers every waiter.  Identity maintenance runs on   *)
(* the same loop through RunBarrier.  Shutdown drains the queue; a crash   *)
(* loses everything but the store.                                         *)
(***************************************************************************)
EXTENDS Integers, Sequences, FiniteSets, FiniteSetsExt

CONSTANTS
    Exports,                  \* Export requests; a client retry is another Export
    Bytes,                    \* [Exports -> Nat]: estimateDeltaBytes of the reduced deltas
    Deltas,                   \* [Exports -> Nat \ {0}]: how many delta rows the Export reduced to
    MaxWaiters,               \* WriterConfig.MaxWaiters, also the capacity of the channel
    MaxPendingBytes,          \* WriterConfig.MaxPendingBytes
    MaxPendingDeltas,         \* WriterConfig.MaxPendingDeltas
    MaxBatchDeltas,           \* WriterConfig.MaxBatchDeltas
    MaxBatchBytes,            \* WriterConfig.MaxBatchBytes
    MaxCrashes                \* bound: process crashes explored

ASSUME ExportsAssumption == IsFiniteSet(Exports)
ASSUME SizesAssumption ==
    /\ Bytes \in [Exports -> Nat]
    /\ Deltas \in [Exports -> Nat \ {0}]
ASSUME LimitsAssumption ==
    /\ MaxWaiters \in Nat \ {0}
    /\ MaxPendingBytes \in Nat /\ MaxPendingDeltas \in Nat
    /\ MaxBatchDeltas \in Nat /\ MaxBatchBytes \in Nat
    /\ MaxCrashes \in Nat

VARIABLES
    pc,             \* where each Export is inside ApplyErr
    waiters,        \* Writer.waiters
    pendingBytes,   \* Writer.pendingBytes
    pendingDeltas,  \* Writer.pendingDeltas
    submissions,    \* the channel Writer.submissions
    loop,           \* where the commit loop is
    draining,       \* the loop has seen the closed stop channel and is in drain
    batch,          \* the submissions of the group being collected or committed
    result,         \* the commitResult the batch is being answered with
    durable,        \* Exports whose deltas a CommitGroup transaction holds
    applied,        \* Exports whose deltas CommitAdmission folded into the shards
    closed,         \* Writer.closed and the closed stop channel
    barrier,        \* where the RunBarrier caller is
    raced,          \* history: Shutdown found an Export past its closed check and not yet queued
    crashes

exportVars == <<pc, waiters, pendingBytes, pendingDeltas, submissions>>
loopVars == <<loop, draining, batch, result>>
storeVars == <<durable, applied>>
vars == <<exportVars, loopVars, storeVars, closed, barrier, raced, crashes>>

ExportStates ==
    {"idle", "checked", "admitted", "queued", "acked", "failed", "refused", "lost"}

Outstanding == {e \in Exports : pc[e] \in {"admitted", "queued"}}

Init ==
    /\ pc = [e \in Exports |-> "idle"]
    /\ waiters = 0 /\ pendingBytes = 0 /\ pendingDeltas = 0
    /\ submissions = << >>
    /\ loop = "select" /\ draining = FALSE
    /\ batch = {} /\ result = "none"
    /\ durable = {} /\ applied = {}
    /\ closed = FALSE
    /\ barrier = "idle"
    /\ raced = FALSE
    /\ crashes = 0

-------------------------------------------------------------------------------
(* ApplyErr, one Export at a time.                                         *)

\* ApplyErr reads Writer.closed before anything else.
CheckClosed(e) ==
    /\ pc[e] = "idle"
    /\ pc' = [pc EXCEPT ![e] = IF closed THEN "refused" ELSE "checked"]
    /\ UNCHANGED <<waiters, pendingBytes, pendingDeltas, submissions,
                   loopVars, storeVars, closed, barrier, raced, crashes>>

\* admit breaches a bound: any one of the three refuses the Export.
Saturated(e) ==
    \/ waiters >= MaxWaiters
    \/ pendingBytes + Bytes[e] > MaxPendingBytes
    \/ pendingDeltas + Deltas[e] > MaxPendingDeltas

Admit(e) ==
    /\ pc[e] = "checked"
    /\ ~Saturated(e)
    /\ pc' = [pc EXCEPT ![e] = "admitted"]
    /\ waiters' = waiters + 1
    /\ pendingBytes' = pendingBytes + Bytes[e]
    /\ pendingDeltas' = pendingDeltas + Deltas[e]
    /\ UNCHANGED <<submissions, loopVars, storeVars, closed, barrier, raced, crashes>>

\* Mutant: the delta budget is forgotten.
ReleaseBytesOnly(e) ==
    /\ waiters' = waiters - 1
    /\ pendingBytes' = pendingBytes - Bytes[e]
    /\ UNCHANGED pendingDeltas

\* release returns one submission's admission budget.
Release(e) ==
    /\ waiters' = waiters - 1
    /\ pendingBytes' = pendingBytes - Bytes[e]
    /\ pendingDeltas' = pendingDeltas - Deltas[e]

\* Mutant: a refused Export releases what it never acquired.
RefuseAndRelease(e) ==
    /\ pc[e] = "checked"
    /\ Saturated(e)
    /\ pc' = [pc EXCEPT ![e] = "refused"]
    /\ Release(e)
    /\ UNCHANGED <<submissions, loopVars, storeVars, closed, barrier, raced, crashes>>

RefuseSaturated(e) ==
    /\ pc[e] = "checked"
    /\ Saturated(e)
    /\ pc' = [pc EXCEPT ![e] = "refused"]
    /\ UNCHANGED <<waiters, pendingBytes, pendingDeltas, submissions,
                   loopVars, storeVars, closed, barrier, raced, crashes>>

\* The channel send of ApplyErr's select.  Go chooses at random when the stop
\* channel is ready too, so closed does not disable it.
Enqueue(e) ==
    /\ pc[e] = "admitted"
    /\ Len(submissions) < MaxWaiters
    /\ pc' = [pc EXCEPT ![e] = "queued"]
    /\ submissions' = Append(submissions, e)
    /\ UNCHANGED <<waiters, pendingBytes, pendingDeltas,
                   loopVars, storeVars, closed, barrier, raced, crashes>>

\* Mutant: the stop branch leaks the admission.
RefuseStoppedLeaks(e) ==
    /\ pc[e] = "admitted"
    /\ closed
    /\ pc' = [pc EXCEPT ![e] = "refused"]
    /\ UNCHANGED <<waiters, pendingBytes, pendingDeltas, submissions,
                   loopVars, storeVars, closed, barrier, raced, crashes>>

\* The stop branch of ApplyErr's select.
RefuseStopped(e) ==
    /\ pc[e] = "admitted"
    /\ closed
    /\ pc' = [pc EXCEPT ![e] = "refused"]
    /\ Release(e)
    /\ UNCHANGED <<submissions, loopVars, storeVars, closed, barrier, raced, crashes>>

-------------------------------------------------------------------------------
(* The commit loop.                                                        *)

\* The loop's select, or drain's, takes the first submission and opens a batch.
Receive ==
    /\ loop = "select"
    /\ submissions # << >>
    /\ batch' = {Head(submissions)}
    /\ submissions' = Tail(submissions)
    /\ loop' = "collect"
    /\ UNCHANGED <<pc, waiters, pendingBytes, pendingDeltas, draining, result,
                   storeVars, closed, barrier, raced, crashes>>

\* Mutant: the stop branch is skipped once a barrier has been offered.
BeginDrainWithoutBarrier ==
    /\ loop = "select" /\ ~draining
    /\ closed
    /\ barrier = "idle"
    /\ draining' = TRUE
    /\ UNCHANGED <<exportVars, loop, batch, result, storeVars,
                   closed, barrier, raced, crashes>>

\* The loop's select takes the stop branch; from then on only drain receives.
BeginDrain ==
    /\ loop = "select" /\ ~draining
    /\ closed
    /\ draining' = TRUE
    /\ UNCHANGED <<exportVars, loop, batch, result, storeVars,
                   closed, barrier, raced, crashes>>

\* Mutant: the loop returns without draining.
ReturnUndrained ==
    /\ loop = "select" /\ draining
    /\ loop' = "stopped"
    /\ UNCHANGED <<exportVars, draining, batch, result, storeVars,
                   closed, barrier, raced, crashes>>

\* drain finds the channel empty and the loop returns.
DrainDone ==
    /\ loop = "select" /\ draining
    /\ submissions = << >>
    /\ loop' = "stopped"
    /\ UNCHANGED <<exportVars, draining, batch, result, storeVars,
                   closed, barrier, raced, crashes>>

BatchBytes == MapThenSumSet(LAMBDA e : Bytes[e], batch)
BatchDeltas == MapThenSumSet(LAMBDA e : Deltas[e], batch)

\* collectAndCommit takes another submission while the batch is below target.
Collect ==
    /\ loop = "collect"
    /\ BatchDeltas < MaxBatchDeltas /\ BatchBytes < MaxBatchBytes
    /\ submissions # << >>
    /\ batch' = batch \cup {Head(submissions)}
    /\ submissions' = Tail(submissions)
    /\ UNCHANGED <<pc, waiters, pendingBytes, pendingDeltas, loop, draining, result,
                   storeVars, closed, barrier, raced, crashes>>

\* The coalescing timer fires, or a size target is reached.
CloseBatch ==
    /\ loop = "collect"
    /\ loop' = "commit"
    /\ UNCHANGED <<exportVars, draining, batch, result, storeVars,
                   closed, barrier, raced, crashes>>

\* CommitGroup returns nil: the whole batch is in one committed transaction.
CommitOK ==
    /\ loop = "commit"
    /\ durable' = durable \cup batch
    /\ result' = "ok"
    /\ loop' = "apply"
    /\ UNCHANGED <<exportVars, draining, batch, applied, closed, barrier, raced, crashes>>

\* Mutant: the error of CommitGroup is dropped.
CommitErrSwallowed ==
    /\ loop = "commit"
    /\ result' = "ok"
    /\ loop' = "finish"
    /\ UNCHANGED <<exportVars, draining, batch, storeVars, closed, barrier, raced, crashes>>

\* Mutant: the failed transaction is not rolled back.
CommitErrNoRollback ==
    /\ loop = "commit"
    /\ durable' = durable \cup batch
    /\ result' = "err"
    /\ loop' = "finish"
    /\ UNCHANGED <<exportVars, draining, batch, applied, closed, barrier, raced, crashes>>

\* CommitGroup fails: nothing became durable and nothing is applied.
CommitErr ==
    /\ loop = "commit"
    /\ result' = "err"
    /\ loop' = "finish"
    /\ UNCHANGED <<exportVars, draining, batch, storeVars, closed, barrier, raced, crashes>>

\* CommitAdmission: the shards see the batch after its transaction committed.
Apply ==
    /\ loop = "apply"
    /\ applied' = applied \cup batch
    /\ loop' = "finish"
    /\ UNCHANGED <<exportVars, draining, batch, result, durable,
                   closed, barrier, raced, crashes>>

\* finish answers one waiter and releases its budget; the last one ends the batch.
Finish(e) ==
    /\ loop = "finish"
    /\ e \in batch
    /\ Release(e)
    /\ pc' = [pc EXCEPT ![e] = IF result = "ok" THEN "acked" ELSE "failed"]
    /\ batch' = batch \ {e}
    /\ loop' = IF batch = {e} THEN "select" ELSE "finish"
    /\ result' = IF batch = {e} THEN "none" ELSE result
    /\ UNCHANGED <<submissions, draining, storeVars, closed, barrier, raced, crashes>>

-------------------------------------------------------------------------------
(* RunBarrier: one caller parks a function on the commit loop.             *)

BarrierCheck ==
    /\ barrier = "idle"
    /\ barrier' = IF closed THEN "refused" ELSE "offered"
    /\ UNCHANGED <<exportVars, loopVars, storeVars, closed, raced, crashes>>

\* The unbuffered send succeeds only when the loop is in its select.
BarrierRun ==
    /\ barrier = "offered"
    /\ loop = "select" /\ ~draining
    /\ barrier' = "running"
    /\ loop' = "barrier"
    /\ UNCHANGED <<exportVars, draining, batch, result, storeVars, closed, raced, crashes>>

BarrierDone ==
    /\ loop = "barrier"
    /\ barrier' = "done"
    /\ loop' = "select"
    /\ UNCHANGED <<exportVars, draining, batch, result, storeVars, closed, raced, crashes>>

\* Mutant: the stop channel is not polled once the loop has returned.
BarrierRefusedWhileRunning ==
    /\ barrier = "offered"
    /\ closed /\ loop # "stopped"
    /\ barrier' = "refused"
    /\ UNCHANGED <<exportVars, loopVars, storeVars, closed, raced, crashes>>

\* The stop branch of RunBarrier's select.
BarrierRefused ==
    /\ barrier = "offered"
    /\ closed
    /\ barrier' = "refused"
    /\ UNCHANGED <<exportVars, loopVars, storeVars, closed, raced, crashes>>

-------------------------------------------------------------------------------
(* Lifecycle.                                                              *)

\* Shutdown sets closed and closes the stop channel.
Shutdown ==
    /\ ~closed
    /\ closed' = TRUE
    /\ raced' = \E e \in Exports : pc[e] \in {"checked", "admitted"}
    /\ UNCHANGED <<exportVars, loopVars, storeVars, barrier, crashes>>

\* The process dies and starts again: only the store survives, and recovery
\* rebuilds the shards from it before the new loop runs.
Crash ==
    /\ crashes < MaxCrashes
    /\ crashes' = crashes + 1
    /\ pc' = [e \in Exports |->
                IF pc[e] \in {"checked", "admitted", "queued"} THEN "lost" ELSE pc[e]]
    /\ waiters' = 0 /\ pendingBytes' = 0 /\ pendingDeltas' = 0
    /\ submissions' = << >>
    /\ loop' = "select" /\ draining' = FALSE
    /\ batch' = {} /\ result' = "none"
    /\ durable' = durable /\ applied' = durable
    /\ closed' = FALSE
    /\ barrier' = "idle"
    /\ raced' = FALSE

ApplyErr(e) ==
    \/ CheckClosed(e)
    \/ Admit(e)
    \/ RefuseSaturated(e)
    \/ Enqueue(e)
    \/ RefuseStopped(e)

commitLoop ==
    \/ Receive
    \/ BeginDrain
    \/ DrainDone
    \/ Collect
    \/ CloseBatch
    \/ CommitOK
    \/ CommitErr
    \/ Apply
    \/ \E e \in Exports : Finish(e)
    \/ BarrierDone

RunBarrier ==
    \/ BarrierCheck
    \/ BarrierRun
    \/ BarrierRefused

Next ==
    \/ \E e \in Exports : ApplyErr(e)
    \/ commitLoop
    \/ RunBarrier
    \/ Shutdown
    \/ Crash

Spec == Init /\ [][Next]_vars

\* The Go scheduler runs every goroutine that can run: the commit loop, each
\* Export past its first step and the barrier's rendezvous.  Nothing obliges a
\* client to call, an operator to stop the process or a machine to crash.
Fairness ==
    /\ WF_vars(commitLoop)
    /\ \A e \in Exports : WF_vars(ApplyErr(e) /\ pc[e] # "idle")
    /\ WF_vars(BarrierRun \/ BarrierRefused)

FairSpec == Spec /\ Fairness

-------------------------------------------------------------------------------
(* Properties.                                                             *)

\* The domains of the writer's state.
TypeOK ==
    /\ pc \in [Exports -> ExportStates]
    /\ waiters \in Nat /\ pendingBytes \in Int /\ pendingDeltas \in Int
    /\ submissions \in Seq(Exports)
    /\ loop \in {"select", "collect", "commit", "apply", "finish", "barrier", "stopped"}
    /\ draining \in BOOLEAN
    /\ batch \in SUBSET Exports
    /\ result \in {"none", "ok", "err"}
    /\ durable \in SUBSET Exports /\ applied \in SUBSET Exports
    /\ closed \in BOOLEAN /\ raced \in BOOLEAN
    /\ barrier \in {"idle", "offered", "running", "done", "refused"}
    /\ crashes \in Nat

\* The waiter count is exactly the Exports between admit and their answer: every
\* admission is released once, on every path out of ApplyErr and finish.
WaitersExact == waiters = Cardinality(Outstanding)

\* The byte and delta budgets are exactly what those Exports charged.
BudgetExact ==
    /\ pendingBytes = MapThenSumSet(LAMBDA e : Bytes[e], Outstanding)
    /\ pendingDeltas = MapThenSumSet(LAMBDA e : Deltas[e], Outstanding)

\* An admitted Export finds room in the channel: the channel is as large as the
\* waiter bound, so ApplyErr's send never blocks on a slow commit.
SendNeverBlocks ==
    \A e \in Exports : pc[e] = "admitted" => Len(submissions) < MaxWaiters

\* A parked Export is in exactly one place, once: a slot of the channel or the
\* batch in progress; nothing else is in either.  Losing one parks its client
\* forever, duplicating one would answer (and release) it twice.
ParkedOnce ==
    /\ \A i, j \in 1 .. Len(submissions) : submissions[i] = submissions[j] => i = j
    /\ \A i \in 1 .. Len(submissions) : submissions[i] \notin batch
    /\ {e \in Exports : pc[e] = "queued"}
         = batch \cup {submissions[i] : i \in 1 .. Len(submissions)}

\* The durable-ACK contract of ApplyErr: an acknowledged Export is durable and
\* visible in the shards; a refused or failed one left nothing in the store.
AnsweredTruthfully ==
    \A e \in Exports :
        /\ pc[e] = "acked" => e \in durable /\ e \in applied
        /\ pc[e] \in {"failed", "refused"} => e \notin durable

\* Commit-then-apply: the shards only ever see committed state, and outside the
\* step between the transaction and the apply they see all of it.
ShardsFollowStore ==
    /\ applied \subseteq durable
    /\ loop # "apply" => applied = durable

Answer == [e \in Exports |->
    CASE pc[e] = "acked" -> "ok"
      [] pc[e] \in {"failed", "refused"} -> "error"
      [] OTHER -> "none"]

DA == INSTANCE DurableAck WITH answer <- Answer

\* The writer implements the durable-ACK promise.
ImplementsDurableAck == DA!Spec

\* A parked Export is answered.  The exception is a Shutdown that overlapped an
\* Export between its closed check and its send: main.go stops the OTLP servers
\* first, so the process never does that (see NeverParkedForever).
ParkedIsAnswered ==
    \A e \in Exports :
        (pc[e] = "queued") ~>
            (pc[e] \in {"acked", "failed", "lost"} \/ (raced /\ loop = "stopped"))

\* Whoever calls RunBarrier gets an answer, whatever the commit loop is doing
\* and also when the writer shuts down meanwhile (a crash ends the caller too).
BarrierReturns == (barrier = "offered") ~> (barrier \in {"done", "refused", "idle"})

\* Shutdown ends: the loop drains a finite queue and stops (a crash reopens).
ShutdownDrains == closed ~> (loop = "stopped" \/ ~closed)

\* Once an answer is given it never changes, and what is durable stays durable.
AnswersAreFinal ==
    [][/\ durable \subseteq durable'
       /\ \A e \in Exports :
            pc[e] \in {"acked", "failed", "refused", "lost"} => pc'[e] = pc[e]]_vars

===============================================================================
