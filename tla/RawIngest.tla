------------------------------ MODULE RawIngest ------------------------------
(***************************************************************************)
(* TraceServer.Export and LogsServer.Export (internal/ingest/otlp.go,      *)
(* aggregate_bridge.go) over the pipeline, the dead letter queue, the      *)
(* aggregate engine and the exemplar reservations, with a client that      *)
(* retries every failed Export.                                            *)
(*                                                                         *)
(* An Export carries one group of rows per tenant.  Where the aggregate is *)
(* applied depends on the mode: before the raw submit when the aggregate   *)
(* is the acknowledgement, after it in shadow mode, never in legacy mode.  *)
(***************************************************************************)
EXTENDS Pipeline

CONSTANTS
    RqExporters,    \* clients, one Export each
    RqGroups,       \* exporter -> its groups, in order: [tenant, prio, size]
    RqConfigs,      \* <<mode, async>> pairs: AGGREGATE_MODE, INGEST_ASYNC_ENABLED
    RqMaxAttempts   \* bound: deliveries of one Export

ASSUME RqAssumption ==
    /\ IsFiniteSet(RqExporters)
    /\ RqGroups \in [RqExporters -> Seq([tenant : PlTenants, prio : BOOLEAN, size : Nat])]
    /\ \A e \in RqExporters : RqGroups[e] # <<>>

VARIABLES
    rqMode, rqAsync,    \* configuration of this process
    rqShed,             \* the watchdog has turned raw retention off
    rqPc, rqAttempt, rqGroup, rqOver,
    rqDlqOff,           \* DLQDisabled() as read when submitExemplars was called
    rqHeld,             \* groups whose byte reservation is open
    rqReserved, rqCommitted,    \* the exemplar byte ledger
    rqCounted,          \* times the aggregate counted this Export
    rqPlace,            \* this attempt: group -> "queued", "dropped", "deferred", "lost", "stored",
                        \* "bare": stored without its trace row or its synthesized logs
    rqResp              \* last response: "none", "ok", "warn", "error"

rqVars == <<rqMode, rqAsync, rqShed, rqPc, rqAttempt, rqGroup, rqOver, rqDlqOff, rqHeld,
            rqReserved, rqCommitted, rqCounted, rqPlace, rqResp>>

Groups(e) == DOMAIN RqGroups[e]
BatchOf(e, g) ==
    [exp |-> e, att |-> rqAttempt[e], grp |-> g, tenant |-> RqGroups[e][g].tenant,
     prio |-> RqGroups[e][g].prio, size |-> RqGroups[e][g].size]
Current(e) == BatchOf(e, rqGroup[e])
Weight(e, gs) == MapThenSumSet(LAMBDA g : RqGroups[e][g].size, gs)
AggregateACK == rqMode = "aggregate"

RqInit ==
    /\ \E c \in RqConfigs : rqMode = c[1] /\ rqAsync = c[2]
    /\ rqShed = FALSE
    /\ rqPc = [e \in RqExporters |-> "idle"]
    /\ rqAttempt = [e \in RqExporters |-> 1]
    /\ rqGroup = [e \in RqExporters |-> 1]
    /\ rqOver = [e \in RqExporters |-> FALSE]
    /\ rqDlqOff = [e \in RqExporters |-> FALSE]
    /\ rqHeld = [e \in RqExporters |-> {}]
    /\ rqReserved = 0 /\ rqCommitted = 0
    /\ rqCounted = [e \in RqExporters |-> 0]
    /\ rqPlace = [e \in RqExporters |-> <<>>]
    /\ rqResp = [e \in RqExporters |-> "none"]

-------------------------------------------------------------------------------
(* Settling reservations.  Only aggregate mode has an exemplar policy.     *)

HoldAll(e) ==
    /\ rqHeld' = [rqHeld EXCEPT ![e] = IF AggregateACK THEN Groups(e) ELSE {}]
    /\ rqReserved' = rqReserved + (IF AggregateACK THEN Weight(e, Groups(e)) ELSE 0)
    /\ UNCHANGED rqCommitted

CommitGroups(e, gs) ==
    /\ rqHeld' = [rqHeld EXCEPT ![e] = @ \ gs]
    /\ rqReserved' = rqReserved - Weight(e, gs \cap rqHeld[e])
    /\ rqCommitted' = rqCommitted + Weight(e, gs \cap rqHeld[e])

ReleaseGroups(e, gs) ==
    /\ rqHeld' = [rqHeld EXCEPT ![e] = @ \ gs]
    /\ rqReserved' = rqReserved - Weight(e, gs \cap rqHeld[e])
    /\ UNCHANGED rqCommitted

Place(e, g, p) == rqPlace' = [rqPlace EXCEPT ![e] = Append(@, p)]
Goto(e, l) == rqPc' = [rqPc EXCEPT ![e] = l]
Config == <<rqMode, rqAsync, rqShed>>

\* The next group, or on to the shadow apply once all are handed over.
Advance(e) ==
    /\ Goto(e, IF rqGroup[e] = Len(RqGroups[e]) THEN "post" ELSE "submit")
    /\ rqGroup' = [rqGroup EXCEPT ![e] = @ + 1]

-------------------------------------------------------------------------------
(* The handler.                                                            *)

\* Sanitize, resolve tenants, reduce, select and reserve: no effect outside the request
\* but the reservations.
Receive(e) ==
    /\ rqPc[e] = "idle" /\ rqResp[e] \in {"none", "error"}
    /\ HoldAll(e)
    /\ rqGroup' = [rqGroup EXCEPT ![e] = 1]
    /\ rqPlace' = [rqPlace EXCEPT ![e] = <<>>]
    /\ Goto(e, "pre")
    /\ UNCHANGED <<Config, rqAttempt, rqOver, rqDlqOff, rqCounted, rqResp, plVars, dlVars, rawStored>>

\* applyAggregatePre, then the choice between the pipeline and the synchronous fallback;
\* DLQDisabled is read here, once for all the groups.
ApplyPre(e) ==
    /\ rqPc[e] = "pre"
    /\ rqCounted' = IF AggregateACK THEN [rqCounted EXCEPT ![e] = @ + 1] ELSE rqCounted
    /\ rqDlqOff' = [rqDlqOff EXCEPT ![e] = rqShed]
    /\ Goto(e, IF rqAsync THEN "submit" ELSE "sync")
    /\ UNCHANGED <<Config, rqAttempt, rqGroup, rqOver, rqHeld, rqReserved, rqCommitted, rqPlace,
                   rqResp, plVars, dlVars, rawStored>>

\* The engine is saturated or its commit fails: nothing was submitted, everything is released.
ApplyPreFails(e) ==
    /\ rqPc[e] = "pre" /\ AggregateACK
    /\ ReleaseGroups(e, Groups(e))
    /\ rqResp' = [rqResp EXCEPT ![e] = "error"]
    /\ Goto(e, "done")
    /\ UNCHANGED <<Config, rqAttempt, rqGroup, rqOver, rqDlqOff, rqCounted, rqPlace, plVars, dlVars, rawStored>>

\* Submit: the soft threshold, then the tenant's cap; either drops a healthy batch.
SubmitSoftDrop(e) ==
    /\ \/ rqPc[e] = "submit" /\ SoftDrops(Current(e))
       \/ rqPc[e] = "slot" /\ TenantFull(Current(e))
    /\ CommitGroups(e, {rqGroup[e]})
    /\ Place(e, rqGroup[e], "dropped")
    /\ Advance(e)
    /\ UNCHANGED <<Config, rqAttempt, rqOver, rqDlqOff, rqCounted, rqResp, plVars, dlVars, rawStored>>

SubmitBelowSoft(e) ==
    /\ rqPc[e] = "submit" /\ ~SoftDrops(Current(e))
    /\ Goto(e, "slot")
    /\ UNCHANGED <<Config, rqAttempt, rqGroup, rqOver, rqDlqOff, rqHeld, rqReserved, rqCommitted,
                   rqCounted, rqPlace, rqResp, plVars, dlVars, rawStored>>

SubmitReserve(e) ==
    /\ rqPc[e] = "slot" /\ TakeSlot(Current(e))
    /\ rqOver' = [rqOver EXCEPT ![e] = plBytes' > PlMaxBytes]
    /\ Goto(e, "send")
    /\ UNCHANGED <<Config, rqAttempt, rqGroup, rqDlqOff, rqHeld, rqReserved, rqCommitted, rqCounted,
                   rqPlace, rqResp, dlVars, rawStored>>

SubmitSend(e) ==
    /\ rqPc[e] = "send" /\ SendBatch(Current(e), rqOver[e])
    /\ CommitGroups(e, {rqGroup[e]})
    /\ Place(e, rqGroup[e], "queued")
    /\ Advance(e)
    /\ UNCHANGED <<Config, rqAttempt, rqOver, rqDlqOff, rqCounted, rqResp, dlVars, rawStored>>

\* ErrQueueFull: retryable for the client unless the aggregate already is the acknowledgement.
SubmitRefused(e) ==
    /\ rqPc[e] = "send" /\ RefuseBatch(Current(e), rqOver[e])
    /\ IF AggregateACK
       THEN /\ Goto(e, "offer")
            /\ UNCHANGED <<rqHeld, rqReserved, rqCommitted, rqResp>>
       ELSE /\ ReleaseGroups(e, {g \in Groups(e) : g >= rqGroup[e]})
            /\ rqResp' = [rqResp EXCEPT ![e] = "error"]
            /\ Goto(e, "done")
    /\ UNCHANGED <<Config, rqAttempt, rqGroup, rqOver, rqDlqOff, rqCounted, rqPlace, dlVars, rawStored>>

\* The refused exemplars go to the dead letter queue, or are lost and said to be.
OfferRefused(e) ==
    /\ rqPc[e] = "offer"
    /\ \/ /\ rqDlqOff[e]
          /\ ReleaseGroups(e, {rqGroup[e]}) /\ Place(e, rqGroup[e], "lost")
          /\ UNCHANGED <<plVars, dlVars>>
       \/ /\ ~rqDlqOff[e] /\ OfferToDLQ(Current(e))
          /\ IF plDlqEnqueued' > plDlqEnqueued
             THEN CommitGroups(e, {rqGroup[e]}) /\ Place(e, rqGroup[e], "deferred")
             ELSE ReleaseGroups(e, {rqGroup[e]}) /\ Place(e, rqGroup[e], "lost")
    /\ Advance(e)
    /\ UNCHANGED <<Config, rqAttempt, rqOver, rqDlqOff, rqCounted, rqResp, rawStored>>

\* The synchronous fallback: the rows the client sent are in the database before the answer.
\* The trace rows before them and the synthesized logs after them are inserts of their own,
\* whose failure is logged and passed over: then the rows are in bare, answered all the same.
SyncInsert(e) ==
    /\ rqPc[e] = "sync"
    /\ rawStored' = rawStored \cup {BatchOf(e, g) : g \in Groups(e)}
    /\ CommitGroups(e, Groups(e))
    /\ \E p \in {"stored", "bare"} : rqPlace' = [rqPlace EXCEPT ![e] = [g \in Groups(e) |-> p]]
    /\ Goto(e, "post")
    /\ UNCHANGED <<Config, rqAttempt, rqGroup, rqOver, rqDlqOff, rqCounted, rqResp, plVars, dlVars>>

SyncInsertFails(e) ==
    /\ rqPc[e] = "sync"
    /\ ReleaseGroups(e, Groups(e))
    /\ rqResp' = [rqResp EXCEPT ![e] = "error"]
    /\ Goto(e, "done")
    /\ UNCHANGED <<Config, rqAttempt, rqGroup, rqOver, rqDlqOff, rqCounted, rqPlace, plVars, dlVars, rawStored>>

\* Mutant: only deferred exemplars are announced.
ResponseQuietLoss(e) ==
    IF \E i \in DOMAIN rqPlace[e] : rqPlace[e][i] = "deferred" THEN "warn" ELSE "ok"

Response(e) ==
    IF \E i \in DOMAIN rqPlace[e] : rqPlace[e][i] \in {"deferred", "lost"} THEN "warn" ELSE "ok"

\* applyAggregatePost and the response; a shadow commit failure is swallowed.
ApplyPost(e) ==
    /\ rqPc[e] = "post"
    /\ \/ rqMode = "shadow" /\ rqCounted' = [rqCounted EXCEPT ![e] = @ + 1]
       \/ UNCHANGED rqCounted
    /\ rqResp' = [rqResp EXCEPT ![e] = Response(e)]
    /\ Goto(e, "done")
    /\ UNCHANGED <<Config, rqAttempt, rqGroup, rqOver, rqDlqOff, rqHeld, rqReserved, rqCommitted,
                   rqPlace, plVars, dlVars, rawStored>>

\* A saturated shadow engine is reported even so, although the raw rows are in.
ApplyPostSaturated(e) ==
    /\ rqPc[e] = "post" /\ rqMode = "shadow"
    /\ rqResp' = [rqResp EXCEPT ![e] = "error"]
    /\ Goto(e, "done")
    /\ UNCHANGED <<Config, rqAttempt, rqGroup, rqOver, rqDlqOff, rqHeld, rqReserved, rqCommitted,
                   rqCounted, rqPlace, plVars, dlVars, rawStored>>

\* The client delivers a failed Export again (UNAVAILABLE, RESOURCE_EXHAUSTED, 429, 503).
Retry(e) ==
    /\ rqPc[e] = "done" /\ rqResp[e] = "error" /\ rqAttempt[e] < RqMaxAttempts
    /\ rqAttempt' = [rqAttempt EXCEPT ![e] = @ + 1]
    /\ Goto(e, "idle")
    /\ UNCHANGED <<Config, rqGroup, rqOver, rqDlqOff, rqHeld, rqReserved, rqCommitted, rqCounted,
                   rqPlace, rqResp, plVars, dlVars, rawStored>>

\* The watchdog reaches or leaves raw_off.
ShedChanges ==
    /\ AggregateACK
    /\ rqShed' = ~rqShed
    /\ UNCHANGED <<rqMode, rqAsync, rqPc, rqAttempt, rqGroup, rqOver, rqDlqOff, rqHeld, rqReserved,
                   rqCommitted, rqCounted, rqPlace, rqResp, plVars, dlVars, rawStored>>

ExportNext(e) ==
    \/ Receive(e) \/ ApplyPre(e) \/ ApplyPreFails(e)
    \/ SubmitSoftDrop(e) \/ SubmitBelowSoft(e) \/ SubmitReserve(e) \/ SubmitSend(e) \/ SubmitRefused(e) \/ OfferRefused(e)
    \/ SyncInsert(e) \/ SyncInsertFails(e)
    \/ ApplyPost(e) \/ ApplyPostSaturated(e) \/ Retry(e)

\* main stops admission first: Shutdown of the pipeline starts when no Export is running.
StopPipeline ==
    /\ \A e \in RqExporters : rqPc[e] \in {"idle", "done"}
    /\ CloseStop /\ UNCHANGED rqVars

RawInit == RqInit /\ PlInit /\ DlInit /\ rawStored = {}

RawNext ==
    \/ \E e \in RqExporters : ~plStop /\ ExportNext(e)
    \/ ~plStop /\ ShedChanges
    \/ \E w \in PlWorkers : WorkerNext(w) /\ UNCHANGED rqVars
    \/ StopPipeline
    \/ ShutdownReturns /\ UNCHANGED rqVars

rawVars == <<rqVars, plVars, dlVars, rawStored>>
RawSpec == RawInit /\ [][RawNext]_rawVars

-------------------------------------------------------------------------------
(* Properties.                                                             *)

\* Type correctness.
RawTypeOK ==
    /\ PlTypeOK /\ DlTypeOK
    /\ rqPc \in [RqExporters -> {"idle", "pre", "submit", "slot", "send", "offer", "sync", "post", "done"}]
    /\ rqResp \in [RqExporters -> {"none", "ok", "warn", "error"}]
    /\ rqAttempt \in [RqExporters -> 1 .. RqMaxAttempts]
    /\ rqReserved \in Nat /\ rqCommitted \in Nat

\* Submits that have taken bytes and not sent yet.
Sending == {BatchOf(e, rqGroup[e]) : e \in {x \in RqExporters : rqPc[x] = "send"}}

\* Submit and process run against each other, yet the byte and tenant accounts are exactly
\* what is being sent, queued or processed, and the reservations of the running Exports are
\* exactly the reserved exemplar bytes: nothing leaks on any refusal or panic.
AccountsExact ==
    LET out == InFlight \cup Sending IN
    /\ plBytes = MapThenSumSet(LAMBDA b : b.size, out)
    /\ \A t \in PlTenants :
          plTenant[t] = Cardinality({b \in out : b.tenant = t /\ TenantCapped(b)})
    /\ rqReserved = MapThenSumSet(LAMBDA e : Weight(e, rqHeld[e]), RqExporters)
    /\ \A e \in RqExporters : rqPc[e] = "done" => rqHeld[e] = {}

\* Where a batch that reached the raw path can be.
Accounted == InFlight \cup rawStored \cup {dlFiles[i].batch : i \in DOMAIN dlFiles}
               \cup dlEvicted \cup dlDropped

\* What the client was told holds: the rows it sent in every group answered as queued, deferred
\* or inserted are in the queue, in the database or in the dead letter queue, or their loss was
\* counted (an eviction, a file out of retries, a failed worker); a lost exemplar is always
\* announced; and where the aggregate is the acknowledgement it counted the Export exactly
\* once over all its deliveries ("a retry would double-count the authoritative aggregate",
\* aggregate_bridge.go).  Without the pipeline that last part is weaker: the insert may fail
\* after the aggregate counted, the Export is answered with the error, and every delivery of
\* it may count once more.  Rows inserted bare are kept, without what the server derived
\* from them.
AnswerKept ==
    \A e \in RqExporters : rqResp[e] \in {"ok", "warn"} =>
        /\ \A i \in DOMAIN rqPlace[e] :
              /\ rqPlace[e][i] \in {"queued", "deferred", "stored", "bare"} =>
                    BatchOf(e, i) \in Accounted \cup plLost
              /\ rqPlace[e][i] = "lost" => rqResp[e] = "warn"
        /\ Len(rqPlace[e]) = Len(RqGroups[e])
        /\ rqCounted[e] <= IF AggregateACK /\ ~rqAsync THEN rqAttempt[e] ELSE 1
        /\ AggregateACK => rqCounted[e] >= 1

===============================================================================
