------------------------------- MODULE Pipeline -------------------------------
(***************************************************************************)
(* The bounded raw-ingest queue (internal/ingest/pipeline.go): Submit with *)
(* its soft, per-tenant, byte and queue limits, the workers that persist a *)
(* batch in one transaction or hand it to the dead letter queue, and       *)
(* Shutdown with what it reports.                                          *)
(*                                                                         *)
(* A batch is a record with tenant, prio (HasError or HasSlow) and size.   *)
(* Submit is two steps, because the byte reservation and the channel send  *)
(* are separate atomics between which workers and other Submits run.       *)
(***************************************************************************)
EXTENDS DeadLetter

CONSTANTS
    PlTenants, PlWorkers,
    PlCapacity, PlMaxBytes,     \* PipelineConfig.Capacity and MaxBytes
    PlSoftPercent,              \* SoftThreshold in percent
    PlPerTenantCap,             \* SetPerTenantCap (0: none)
    PlHasDLQ,                   \* SetDLQ was called
    PlPanics                    \* bound: panics of the writer or a callback

VARIABLES
    plQueue,        \* the channel
    plBytes,        \* inFlightBytes
    plTenant,       \* tenantInFlight
    plWorker,       \* worker -> [st: "idle", "busy", "draining" or "gone"; b: batches it holds]
    plStop,         \* stopCh is closed
    plFailures, plDlqEnqueued, plDlqFailed,     \* the counters Shutdown reads
    plLost,         \* batches no destination took (a panic, no sink, a refusing sink)
    plPanics,
    plReport        \* what Shutdown returned: "none", "ok" or "error"

plVars == <<plQueue, plBytes, plTenant, plWorker, plStop, plFailures, plDlqEnqueued,
            plDlqFailed, plLost, plPanics, plReport>>

PlInit ==
    /\ plQueue = <<>> /\ plBytes = 0 /\ plTenant = [t \in PlTenants |-> 0]
    /\ plWorker = [w \in PlWorkers |-> [st |-> "idle", b |-> <<>>]]
    /\ plStop = FALSE /\ plReport = "none"
    /\ plFailures = 0 /\ plDlqEnqueued = 0 /\ plDlqFailed = 0
    /\ plLost = {} /\ plPanics = 0

-------------------------------------------------------------------------------
(* Submit.                                                                 *)

\* Saturation by items or by bytes at the soft threshold.
SoftFull ==
    \/ Len(plQueue) * 100 >= PlSoftPercent * PlCapacity
    \/ plBytes * 100 >= PlSoftPercent * PlMaxBytes

TenantCapped(b) == PlPerTenantCap > 0 /\ ~b.prio
TenantFull(b) == TenantCapped(b) /\ plTenant[b.tenant] >= PlPerTenantCap

\* A healthy batch is silently dropped under pressure, the client sees success.
SoftDrops(b) == ~b.prio /\ SoftFull

\* The tenant slot and the bytes are taken before the limit is looked at, and after the queue
\* was found below the soft threshold, which it may have passed since.
TakeSlot(b) ==
    /\ ~TenantFull(b)
    /\ plTenant' = IF TenantCapped(b) THEN [plTenant EXCEPT ![b.tenant] = @ + 1] ELSE plTenant
    /\ plBytes' = plBytes + b.size
    /\ UNCHANGED <<plQueue, plWorker, plStop, plFailures, plDlqEnqueued, plDlqFailed, plLost,
                   plPanics, plReport>>

GiveSlotBack(b) ==
    /\ plTenant' = IF TenantCapped(b) THEN [plTenant EXCEPT ![b.tenant] = @ - 1] ELSE plTenant
    /\ plBytes' = plBytes - b.size

\* The non-blocking send; over says that the bytes had exceeded the cap.
SendBatch(b, over) ==
    /\ ~over /\ Len(plQueue) < PlCapacity
    /\ plQueue' = Append(plQueue, b)
    /\ UNCHANGED <<plBytes, plTenant, plWorker, plStop, plFailures, plDlqEnqueued, plDlqFailed,
                   plLost, plPanics, plReport>>

\* Mutant: the bytes of a refused batch go back, its tenant slot does not.
RefuseBatchKeepsSlot(b, over) ==
    /\ over \/ Len(plQueue) >= PlCapacity
    /\ plBytes' = plBytes - b.size
    /\ UNCHANGED <<plTenant, plQueue, plWorker, plStop, plFailures, plDlqEnqueued, plDlqFailed,
                   plLost, plPanics, plReport>>

RefuseBatch(b, over) ==
    /\ over \/ Len(plQueue) >= PlCapacity
    /\ GiveSlotBack(b)
    /\ UNCHANGED <<plQueue, plWorker, plStop, plFailures, plDlqEnqueued, plDlqFailed, plLost,
                   plPanics, plReport>>

-------------------------------------------------------------------------------
(* Workers.                                                                *)

TakeBatch(w) ==
    /\ plWorker[w].st \in {"idle", "draining"} /\ plWorker[w].b = <<>> /\ plQueue # <<>>
    /\ plWorker' = [plWorker EXCEPT ![w].b = <<Head(plQueue)>>]
    /\ plQueue' = Tail(plQueue)
    /\ UNCHANGED <<plBytes, plTenant, plStop, plFailures, plDlqEnqueued, plDlqFailed, plLost,
                   plPanics, plReport, dlVars, rawStored>>

\* The deferred releases of process: slot and bytes go back on every path.
Processed(w) ==
    /\ plWorker[w].b # <<>>
    /\ GiveSlotBack(plWorker[w].b[1])
    /\ plWorker' = [plWorker EXCEPT ![w].b = <<>>]
    /\ UNCHANGED <<plQueue, plStop, plReport>>

\* BatchCreateAll commits; a callback may still panic afterwards.
ProcessOK(w) ==
    /\ Processed(w)
    /\ rawStored' = rawStored \cup {plWorker[w].b[1]}
    /\ \/ UNCHANGED <<plFailures, plPanics>>
       \/ /\ plPanics < PlPanics
          /\ plPanics' = plPanics + 1 /\ plFailures' = plFailures + 1
    /\ UNCHANGED <<plDlqEnqueued, plDlqFailed, plLost, dlVars>>

\* BatchCreateAll panics: recovered and counted, the batch is in no destination.
ProcessPanics(w) ==
    /\ plPanics < PlPanics
    /\ Processed(w)
    /\ plPanics' = plPanics + 1 /\ plFailures' = plFailures + 1
    /\ plLost' = plLost \cup {plWorker[w].b[1]}
    /\ UNCHANGED <<plDlqEnqueued, plDlqFailed, dlVars, rawStored>>

\* enqueueDLQ: no sink, accepted, or refused.
EnqueueDLQ(b) ==
    \/ /\ ~PlHasDLQ
       /\ plLost' = plLost \cup {b}
       /\ UNCHANGED <<plDlqEnqueued, plDlqFailed, dlVars>>
    \/ /\ PlHasDLQ /\ Enqueue(b)
       /\ plDlqEnqueued' = plDlqEnqueued + 1
       /\ UNCHANGED <<plDlqFailed, plLost>>
    \/ /\ PlHasDLQ /\ EnqueueFails(b)
       /\ plDlqFailed' = plDlqFailed + 1
       /\ plLost' = plLost \cup {b}
       /\ UNCHANGED plDlqEnqueued

\* The transaction rolls back and the whole batch goes to the dead letter queue.
ProcessFails(w) ==
    /\ Processed(w)
    /\ plFailures' = plFailures + 1
    /\ EnqueueDLQ(plWorker[w].b[1])
    /\ UNCHANGED <<plPanics, rawStored>>

\* OfferToDLQ, for the Export that a full queue refused.
OfferToDLQ(b) ==
    /\ EnqueueDLQ(b)
    /\ UNCHANGED <<plQueue, plBytes, plTenant, plWorker, plStop, plFailures, plPanics, plReport>>

\* select may see stopCh before the queue; then the queue is drained until it is empty once.
SeeStop(w) ==
    /\ plStop /\ plWorker[w].st = "idle" /\ plWorker[w].b = <<>>
    /\ plWorker' = [plWorker EXCEPT ![w].st = "draining"]
    /\ UNCHANGED <<plQueue, plBytes, plTenant, plStop, plFailures, plDlqEnqueued, plDlqFailed,
                   plLost, plPanics, plReport, dlVars, rawStored>>

WorkerReturns(w) ==
    /\ plWorker[w].st = "draining" /\ plWorker[w].b = <<>> /\ plQueue = <<>>
    /\ plWorker' = [plWorker EXCEPT ![w].st = "gone"]
    /\ UNCHANGED <<plQueue, plBytes, plTenant, plStop, plFailures, plDlqEnqueued, plDlqFailed,
                   plLost, plPanics, plReport, dlVars, rawStored>>

WorkerNext(w) ==
    TakeBatch(w) \/ ProcessOK(w) \/ ProcessPanics(w) \/ ProcessFails(w) \/ SeeStop(w) \/ WorkerReturns(w)

-------------------------------------------------------------------------------
(* Shutdown.                                                               *)

CloseStop ==
    /\ ~plStop
    /\ plStop' = TRUE
    /\ UNCHANGED <<plQueue, plBytes, plTenant, plWorker, plFailures, plDlqEnqueued, plDlqFailed,
                   plLost, plPanics, plReport, dlVars, rawStored>>

\* Shutdown reports a deadline that passed before the workers were done, and after them an
\* undrained queue, refused envelopes, and failures that outnumber the envelopes.
ShutdownReturns ==
    /\ plStop /\ plReport = "none"
    /\ \/ plReport' = "error"
       \/ /\ \A w \in PlWorkers : plWorker[w].st = "gone"
          /\ plQueue = <<>> /\ plBytes = 0 /\ plDlqFailed = 0 /\ plFailures <= plDlqEnqueued
          /\ plReport' = "ok"
    /\ UNCHANGED <<plQueue, plBytes, plTenant, plWorker, plStop, plFailures, plDlqEnqueued,
                   plDlqFailed, plLost, plPanics, dlVars, rawStored>>

-------------------------------------------------------------------------------
\* Type correctness.
PlTypeOK ==
    /\ plBytes \in Nat /\ plTenant \in [PlTenants -> Nat]
    /\ \A w \in PlWorkers :
          /\ plWorker[w].st \in {"idle", "draining", "gone"}
          /\ Len(plWorker[w].b) <= 1
    /\ plStop \in BOOLEAN /\ plReport \in {"none", "ok", "error"}
    /\ plFailures \in Nat /\ plDlqEnqueued \in Nat /\ plDlqFailed \in Nat

\* Batches whose bytes and tenant slot are out: queued or in a worker's hands.
InFlight == Range(plQueue) \cup UNION {Range(plWorker[w].b) : w \in PlWorkers}
===============================================================================
