------------------------------ MODULE EventHub ------------------------------
(***************************************************************************)
(* The event WebSocket hub.  In legacy mode its loop coalesces log and     *)
(* metric entries into per-client batches and sends a snapshot when one    *)
(* was asked for; in aggregate mode it publishes one snapshot per scope    *)
(* whenever the engine's revision moved.  Every new connection is seeded   *)
(* with a full snapshot by its own handler, beside the loop.               *)
(*                                                                         *)
(* The epoch is fixed for the life of a process, so the identity is the    *)
(* revision.  A snapshot is the revision it was rendered from (0 in legacy *)
(* mode); what it shows, its JSON and the upgrade are left out.  enqueue   *)
(* reads closed and then sends: two steps, with a panic when the channel   *)
(* was closed in between.                                                  *)
(***************************************************************************)
EXTENDS Integers, Sequences, FiniteSets, Selection

CONSTANTS EhClients, EhTenant,     \* connections and the tenant of each (0: unscoped)
          EhTenants, EhServices,   \* of entries; service filter 0 is every service
          EhSendCap, EhChanCap,    \* eventClientQueue, capacity of logsCh and metricsCh
          EhMaxClients,            \* maxClients; 0 is no cap
          EhMaxEntries, EhMaxRev   \* bounds: entries broadcast, revisions

\* Connections are finitely many, a client may ask for every service, and limits are numbers.
ASSUME EhAssumption ==
    /\ IsFiniteSet(EhClients) /\ 0 \in EhServices
    /\ {EhSendCap, EhChanCap, EhMaxClients} \subseteq Nat /\ EhMaxRev \in Nat \ {0}

VARIABLES ehMode,          \* "legacy" or "aggregate"
          ehHandler, ehWriter, ehSeed,   \* per connection: handler, writer, rendered seed
          ehSend, ehClosed, ehService, ehSeeded,   \* clientFilter
          ehClients, ehCount, ehWg,
          ehLoop,          \* "idle", "rendering", "done"
          ehPub,           \* the publication being rendered
          ehOut, ehAt,     \* messages the loop still delivers; the client it checked, if any
          ehPending, ehChan, ehBuf, ehEntries,     \* legacy coalescing
          ehLast, ehRetry, \* lastRev (0: nothing published) and retryReset
          ehEngine,        \* the engine's revision (external)
          ehStop,          \* Stop: "no", "signalled", "closed", "done"
          ehTold,          \* history: the revision last queued for each client
          ehPanic

ehConnVars == <<ehHandler, ehWriter, ehSeed, ehSeeded, ehService, ehCount, ehWg>>
ehQueueVars == <<ehSend, ehClosed, ehClients, ehTold, ehPanic>>
ehLoopVars == <<ehLoop, ehPub, ehOut, ehAt>>
ehBatchVars == <<ehPending, ehChan, ehBuf, ehEntries>>
ehIdVars == <<ehLast, ehRetry, ehEngine>>
ehVars == <<ehMode, ehConnVars, ehQueueVars, ehLoopVars, ehBatchVars, ehIdVars, ehStop>>

EhKinds == {"logs", "metrics"}
EhEntrySet == [tenant : EhTenants, service : EhServices \ {0}]
Scopes == {<<EhTenant[c], s>> : c \in EhClients, s \in EhServices}
Nothing == [c \in EhClients |-> <<>>]
Snap(rev, reset) == [kind |-> "snapshot", rev |-> rev, reset |-> reset, entries |-> <<>>]
Aggregate == ehMode = "aggregate"

---------------------------------------------------------------------------
(* Delivery *)

EhGoto(c, pc) == ehHandler' = [ehHandler EXCEPT ![c] = pc]

\* The client leaves the set and its channel is closed, once.
RemoveClient(c) ==
    /\ ehClients' = ehClients \ {c}
    /\ ehClosed' = [ehClosed EXCEPT ![c] = @ \/ c \in ehClients]

\* The send half of enqueue, and deliver's answer to a full queue.
EhEnqueue(c, msg) ==
    IF ehClosed[c]
    THEN ehPanic' = TRUE /\ UNCHANGED <<ehSend, ehClosed, ehClients, ehTold>>
    ELSE /\ UNCHANGED ehPanic
         /\ IF Len(ehSend[c]) < EhSendCap
            THEN /\ ehSend' = [ehSend EXCEPT ![c] = Append(@, msg)]
                 /\ ehTold' = IF msg.kind = "snapshot" THEN [ehTold EXCEPT ![c] = msg.rev] ELSE ehTold
                 /\ UNCHANGED <<ehClosed, ehClients>>
            ELSE RemoveClient(c) /\ UNCHANGED <<ehSend, ehTold>>

\* The loop's deliver, first half: a closed client's message is given up.
DeliverCheck(c) ==
    /\ ehLoop = "idle" /\ ehAt = {}
    /\ ehOut[c] # <<>>
    /\ IF ehClosed[c]
       THEN ehOut' = [ehOut EXCEPT ![c] = Tail(@)] /\ UNCHANGED ehAt
       ELSE ehAt' = {c} /\ UNCHANGED ehOut
    /\ UNCHANGED <<ehMode, ehConnVars, ehQueueVars, ehLoop, ehPub, ehBatchVars, ehIdVars, ehStop>>

DeliverSend(c) ==
    /\ ehAt = {c}
    /\ EhEnqueue(c, Head(ehOut[c]))
    /\ ehOut' = [ehOut EXCEPT ![c] = Tail(@)]
    /\ ehAt' = {}
    /\ UNCHANGED <<ehMode, ehConnVars, ehLoop, ehPub, ehBatchVars, ehIdVars, ehStop>>

---------------------------------------------------------------------------
(* Connections *)

\* The count is taken before the cap is looked at, and given back by whoever is refused.
EhArrive(c) ==
    /\ ehHandler[c] = "out"
    /\ EhGoto(c, IF EhMaxClients > 0 /\ ehCount + 1 > EhMaxClients THEN "refused" ELSE "counted")
    /\ ehCount' = ehCount + 1
    /\ UNCHANGED <<ehMode, ehWriter, ehSeed, ehSeeded, ehService, ehWg, ehQueueVars, ehLoopVars,
                   ehBatchVars, ehIdVars, ehStop>>

\* The connection is refused or its upgrade fails, or the client joins the set with the
\* filter it asked for.
AddClient(c) ==
    /\ \/ /\ ehHandler[c] \in {"refused", "counted"}
          /\ EhGoto(c, "gone") /\ ehCount' = ehCount - 1 /\ UNCHANGED <<ehClients, ehService>>
       \/ /\ ehHandler[c] = "counted"
          /\ EhGoto(c, "added")
          /\ ehClients' = ehClients \union {c}
          /\ \E s \in EhServices : ehService' = [ehService EXCEPT ![c] = s]
          /\ UNCHANGED ehCount
    /\ UNCHANGED <<ehMode, ehWriter, ehSeed, ehSeeded, ehWg, ehSend, ehClosed, ehTold, ehPanic,
                   ehLoopVars, ehBatchVars, ehIdVars, ehStop>>

\* writerWg.Add is not ordered with Stop's Wait.
StartWriter(c) ==
    /\ ehHandler[c] = "added"
    /\ ehWg' = ehWg + 1
    /\ ehWriter' = [ehWriter EXCEPT ![c] = "run"]
    /\ EhGoto(c, "render")
    /\ UNCHANGED <<ehMode, ehSeed, ehSeeded, ehService, ehCount, ehQueueVars, ehLoopVars,
                   ehBatchVars, ehIdVars, ehStop>>

\* sendSnapshotTo: the aggregate provider may fail; a closed client fails
\* the first half of enqueue.
RenderSeed(c) ==
    /\ ehHandler[c] = "render"
    /\ \/ Aggregate /\ EhGoto(c, "unseeded") /\ UNCHANGED ehSeed
       \/ /\ ehSeed' = [ehSeed EXCEPT ![c] = IF Aggregate THEN ehEngine ELSE 0]
          /\ EhGoto(c, IF ehClosed[c] THEN "adopt" ELSE "send")
    /\ UNCHANGED <<ehMode, ehWriter, ehSeeded, ehService, ehCount, ehWg, ehQueueVars, ehLoopVars,
                   ehBatchVars, ehIdVars, ehStop>>

SendSeed(c) ==
    /\ ehHandler[c] = "send"
    /\ EhEnqueue(c, Snap(ehSeed[c], Aggregate))
    /\ EhGoto(c, "adopt")
    /\ UNCHANGED <<ehMode, ehWriter, ehSeed, ehSeeded, ehService, ehCount, ehWg, ehLoopVars,
                   ehBatchVars, ehIdVars, ehStop>>

\* Until something was published, the seed's revision counts as published.
AdoptSeed(c) ==
    /\ ehHandler[c] = "adopt"
    /\ EhGoto(c, "attempted")
    /\ ehLast' = IF Aggregate /\ ehLast = 0 THEN ehSeed[c] ELSE ehLast
    /\ UNCHANGED <<ehMode, ehWriter, ehSeed, ehSeeded, ehService, ehCount, ehWg, ehQueueVars,
                   ehLoopVars, ehBatchVars, ehRetry, ehEngine, ehStop>>

SeedFailed(c) ==
    /\ ehHandler[c] = "unseeded"
    /\ EhGoto(c, "attempted")
    /\ ehRetry' = TRUE
    /\ UNCHANGED <<ehMode, ehWriter, ehSeed, ehSeeded, ehService, ehCount, ehWg, ehQueueVars,
                   ehLoopVars, ehBatchVars, ehLast, ehEngine, ehStop>>

Seeded(c) ==
    /\ ehHandler[c] = "attempted"
    /\ EhGoto(c, "reading")
    /\ ehSeeded' = [ehSeeded EXCEPT ![c] = TRUE]
    /\ UNCHANGED <<ehMode, ehWriter, ehSeed, ehService, ehCount, ehWg, ehQueueVars, ehLoopVars,
                   ehBatchVars, ehIdVars, ehStop>>

\* A client message changes the service filter of a client still in the set.
UpdateClientFilter(c, s) ==
    /\ ehHandler[c] = "reading"
    /\ c \in ehClients
    /\ ehService' = [ehService EXCEPT ![c] = s]
    /\ UNCHANGED <<ehMode, ehHandler, ehWriter, ehSeed, ehSeeded, ehCount, ehWg, ehQueueVars,
                   ehLoopVars, ehBatchVars, ehIdVars, ehStop>>

\* Mutant: the reader gives the slot back, and so does the writer.
ReadEndsReleases(c) ==
    /\ ehHandler[c] = "reading"
    /\ EhGoto(c, "gone")
    /\ RemoveClient(c)
    /\ ehCount' = ehCount - 1
    /\ UNCHANGED <<ehMode, ehWriter, ehSeed, ehSeeded, ehService, ehWg, ehSend, ehTold,
                   ehPanic, ehLoopVars, ehBatchVars, ehIdVars, ehStop>>

ReadEnds(c) ==
    /\ ehHandler[c] = "reading"
    /\ EhGoto(c, "gone")
    /\ RemoveClient(c)
    /\ UNCHANGED <<ehMode, ehWriter, ehSeed, ehSeeded, ehService, ehCount, ehWg, ehSend, ehTold,
                   ehPanic, ehLoopVars, ehBatchVars, ehIdVars, ehStop>>

\* The writer ends on a closed, drained channel and on a failed write.
EhWrite(c) ==
    /\ ehWriter[c] = "run"
    /\ \/ /\ ehSend[c] # <<>>
          /\ ehSend' = [ehSend EXCEPT ![c] = Tail(@)]
          /\ \/ UNCHANGED <<ehWriter, ehWg, ehCount, ehClients, ehClosed>>
             \/ /\ ehWriter' = [ehWriter EXCEPT ![c] = "done"]
                /\ ehWg' = ehWg - 1 /\ ehCount' = ehCount - 1
                /\ RemoveClient(c)
       \/ /\ ehSend[c] = <<>> /\ ehClosed[c]
          /\ ehWriter' = [ehWriter EXCEPT ![c] = "done"]
          /\ ehWg' = ehWg - 1 /\ ehCount' = ehCount - 1
          /\ UNCHANGED <<ehSend, ehClients, ehClosed>>
    /\ UNCHANGED <<ehMode, ehHandler, ehSeed, ehSeeded, ehService, ehTold, ehPanic, ehLoopVars,
                   ehBatchVars, ehIdVars, ehStop>>

---------------------------------------------------------------------------
(* The loop *)

LoopFree == ehLoop = "idle" /\ ehOut = Nothing

\* Mutant: a client is grouped before its seed was attempted.
GroupByScopeAll == [k \in Scopes |-> {c \in ehClients : <<EhTenant[c], ehService[c]>> = k}]

\* The seeded clients of each scope.
GroupByScope ==
    [k \in Scopes |-> {c \in ehClients : ehSeeded[c] /\ <<EhTenant[c], ehService[c]>> = k}]

Render(rev, reset) ==
    /\ ehPub' = [rev |-> rev, reset |-> reset, groups |-> GroupByScope,
                 todo |-> {k \in Scopes : GroupByScope[k] # {}}, made |-> [k \in Scopes |-> 0]]
    /\ ehLoop' = "rendering"

\* publishIfChanged up to its first unlock.  With nobody connected the
\* revision counts as published.
PublishIfChanged ==
    /\ Aggregate /\ LoopFree
    /\ ehLast = 0 \/ ehRetry \/ ehLast # ehEngine
    /\ ehLast = 0 \/ ehEngine >= ehLast
    /\ IF ehClients = {}
       THEN ehLast' = ehEngine /\ ehRetry' = FALSE /\ UNCHANGED <<ehPub, ehLoop>>
       ELSE Render(ehEngine, ehRetry) /\ UNCHANGED <<ehLast, ehRetry>>
    /\ UNCHANGED <<ehMode, ehConnVars, ehQueueVars, ehOut, ehAt, ehBatchVars, ehEngine, ehStop>>

\* flushSnapshots up to its unlock.
FlushSnapshots ==
    /\ ~ Aggregate /\ LoopFree
    /\ ehPending
    /\ ehPending' = FALSE
    /\ IF ehClients = {} THEN UNCHANGED <<ehPub, ehLoop>> ELSE Render(0, FALSE)
    /\ UNCHANGED <<ehMode, ehConnVars, ehQueueVars, ehOut, ehAt, ehChan, ehBuf, ehEntries,
                   ehIdVars, ehStop>>

\* One scope; a provider error drops the whole publication, for a retry at
\* the next tick.
RenderScope(k) ==
    /\ ehLoop = "rendering"
    /\ k \in ehPub.todo
    /\ \/ Aggregate /\ ehLoop' = "idle" /\ ehPub' = [ehPub EXCEPT !.todo = {}]
       \/ /\ ehPub' = [ehPub EXCEPT !.todo = @ \ {k},
                                    !.made[k] = IF Aggregate THEN ehEngine ELSE 0]
          /\ UNCHANGED ehLoop
    /\ UNCHANGED <<ehMode, ehConnVars, ehQueueVars, ehOut, ehAt, ehBatchVars, ehIdVars, ehStop>>

\* Every scope is rendered: the identity read at the start is recorded and
\* the messages go out to the clients grouped then.
Rendered ==
    /\ ehLoop = "rendering" /\ ehPub.todo = {}
    /\ ehLoop' = "idle"
    /\ ehOut' = [c \in EhClients |->
                   LET ks == {k \in Scopes : c \in ehPub.groups[k]}
                   IN  IF ks = {} THEN <<>>
                       ELSE <<Snap(ehPub.made[CHOOSE k \in ks : TRUE], ehPub.reset)>>]
    /\ IF Aggregate THEN ehLast' = ehPub.rev /\ ehRetry' = FALSE ELSE UNCHANGED <<ehLast, ehRetry>>
    /\ UNCHANGED <<ehMode, ehConnVars, ehQueueVars, ehPub, ehAt, ehBatchVars, ehEngine, ehStop>>

NotifyRefresh ==
    /\ ~ Aggregate /\ ~ ehPending
    /\ ehPending' = TRUE
    /\ UNCHANGED <<ehMode, ehConnVars, ehQueueVars, ehLoopVars, ehChan, ehBuf, ehEntries, ehIdVars, ehStop>>

\* A full channel drops the entry, aggregate mode takes none.
BroadcastLog(k, e) ==
    /\ ~ Aggregate
    /\ ehEntries < EhMaxEntries
    /\ ehEntries' = ehEntries + 1
    /\ ehChan' = IF Len(ehChan[k]) < EhChanCap THEN [ehChan EXCEPT ![k] = Append(@, e)] ELSE ehChan
    /\ UNCHANGED <<ehMode, ehConnVars, ehQueueVars, ehLoopVars, ehPending, ehBuf, ehIdVars, ehStop>>

BufferEntry(k) ==
    /\ LoopFree
    /\ ehChan[k] # <<>>
    /\ ehChan' = [ehChan EXCEPT ![k] = Tail(@)]
    /\ ehBuf' = [ehBuf EXCEPT ![k] = Append(@, Head(ehChan[k]))]
    /\ UNCHANGED <<ehMode, ehConnVars, ehQueueVars, ehLoopVars, ehPending, ehEntries, ehIdVars, ehStop>>

\* Mutant: the service filter alone selects entries.
MatchesService(c, e) == ehService[c] = 0 \/ ehService[c] = e.service

Matches(c, e) ==
    /\ EhTenant[c] = 0 \/ EhTenant[c] = e.tenant
    /\ ehService[c] = 0 \/ ehService[c] = e.service

\* Each client in the set gets what matches: a batch of logs, then of metrics.
FlushBatches ==
    /\ LoopFree
    /\ \E k \in EhKinds : ehBuf[k] # <<>>
    /\ LET batch(c, k) == LET es == Selected(ehBuf[k], {e \in EhEntrySet : Matches(c, e)})
                          IN  IF es = <<>> THEN <<>>
                              ELSE <<[kind |-> k, rev |-> 0, reset |-> FALSE, entries |-> es]>>
       IN  ehOut' = [c \in EhClients |->
                       IF c \in ehClients THEN batch(c, "logs") \o batch(c, "metrics") ELSE <<>>]
    /\ ehBuf' = [k \in EhKinds |-> <<>>]
    /\ UNCHANGED <<ehMode, ehConnVars, ehQueueVars, ehLoop, ehPub, ehAt, ehPending, ehChan,
                   ehEntries, ehIdVars, ehStop>>

EhEngineMoves ==
    /\ Aggregate /\ ehEngine < EhMaxRev
    /\ ehEngine' = ehEngine + 1
    /\ UNCHANGED <<ehMode, ehConnVars, ehQueueVars, ehLoopVars, ehBatchVars, ehLast, ehRetry, ehStop>>

---------------------------------------------------------------------------
(* Stop *)

EhStopSignal ==
    /\ ehStop = "no"
    /\ ehStop' = "signalled"
    /\ UNCHANGED <<ehMode, ehConnVars, ehQueueVars, ehLoopVars, ehBatchVars, ehIdVars>>

LoopStops ==
    /\ ehStop # "no" /\ LoopFree
    /\ ehLoop' = "done"
    /\ UNCHANGED <<ehMode, ehConnVars, ehQueueVars, ehPub, ehOut, ehAt, ehBatchVars, ehIdVars, ehStop>>

StopCloses ==
    /\ ehStop = "signalled"
    /\ ehStop' = "closed"
    /\ ehClients' = {}
    /\ ehClosed' = [c \in EhClients |-> ehClosed[c] \/ c \in ehClients]
    /\ UNCHANGED <<ehMode, ehConnVars, ehSend, ehTold, ehPanic, ehLoopVars, ehBatchVars, ehIdVars>>

StopReturns ==
    /\ ehStop = "closed"
    /\ ehWg = 0
    /\ ehStop' = "done"
    /\ UNCHANGED <<ehMode, ehConnVars, ehQueueVars, ehLoopVars, ehBatchVars, ehIdVars>>

---------------------------------------------------------------------------

EhInitIn(mode) ==
    /\ ehMode = mode
    /\ ehHandler = [c \in EhClients |-> "out"]
    /\ ehWriter = [c \in EhClients |-> "none"]
    /\ ehSeed = [c \in EhClients |-> 0]
    /\ ehSend = Nothing
    /\ ehClosed = [c \in EhClients |-> FALSE]
    /\ ehService = [c \in EhClients |-> 0]
    /\ ehSeeded = [c \in EhClients |-> FALSE]
    /\ ehClients = {} /\ ehCount = 0 /\ ehWg = 0
    /\ ehLoop = "idle" /\ ehOut = Nothing /\ ehAt = {}
    /\ ehPub = [rev |-> 0, reset |-> FALSE, groups |-> [k \in Scopes |-> {}], todo |-> {},
                made |-> [k \in Scopes |-> 0]]
    /\ ehPending = FALSE
    /\ ehChan = [k \in EhKinds |-> <<>>] /\ ehBuf = [k \in EhKinds |-> <<>>] /\ ehEntries = 0
    /\ ehLast = 0 /\ ehRetry = FALSE /\ ehEngine = 1
    /\ ehStop = "no"
    /\ ehTold = [c \in EhClients |-> 0]
    /\ ehPanic = FALSE

EhInit == \E m \in {"legacy", "aggregate"} : EhInitIn(m)

EhNext ==
    /\ ~ ehPanic
    /\ \/ \E c \in EhClients :
            \/ EhArrive(c) \/ AddClient(c) \/ StartWriter(c)
            \/ RenderSeed(c) \/ SendSeed(c) \/ AdoptSeed(c) \/ SeedFailed(c) \/ Seeded(c)
            \/ ReadEnds(c) \/ EhWrite(c) \/ DeliverCheck(c) \/ DeliverSend(c)
            \/ \E s \in EhServices : UpdateClientFilter(c, s)
       \/ PublishIfChanged \/ FlushSnapshots \/ Rendered
       \/ \E k \in Scopes : RenderScope(k)
       \/ NotifyRefresh \/ FlushBatches \/ EhEngineMoves
       \/ \E k \in EhKinds : BufferEntry(k) \/ \E e \in EhEntrySet : BroadcastLog(k, e)
       \/ EhStopSignal \/ LoopStops \/ StopCloses \/ StopReturns

EhSpec == EhInit /\ [][EhNext]_ehVars

\* Type correctness.
EhTypeOK ==
    /\ ehMode \in {"legacy", "aggregate"}
    /\ ehClients \subseteq EhClients /\ ehAt \subseteq EhClients
    /\ ehCount \in Nat /\ ehWg \in Nat
    /\ \A c \in EhClients : Len(ehSend[c]) <= EhSendCap
    /\ ehClosed \in [EhClients -> BOOLEAN] /\ ehService \in [EhClients -> EhServices]
    /\ ehLoop \in {"idle", "rendering", "done"}
    /\ ehStop \in {"no", "signalled", "closed", "done"}
    /\ ehLast \in 0 .. ehEngine /\ ehEngine \in 1 .. EhMaxRev
    /\ ehTold \in [EhClients -> 0 .. ehEngine]
    /\ ehPending \in BOOLEAN /\ ehRetry \in BOOLEAN /\ ehPanic \in BOOLEAN

---------------------------------------------------------------------------

\* The snapshots queued for a client never go back to an older revision,
\* although its handler seeds it while the loop publishes and the two render
\* at different times; and no entry of another tenant is queued for a scoped
\* client (groupByScopeLocked's seeded guard, publishIfChanged, matches).
EhToldInOrder ==
    [][\A c \in EhClients :
         /\ ehTold'[c] >= ehTold[c]
         /\ \A i \in DOMAIN ehSend'[c] : \A j \in DOMAIN ehSend'[c][i].entries :
              EhTenant[c] \in {0, ehSend'[c][i].entries[j].tenant}]_ehVars

===========================================================================
