-------------------------------- MODULE Hub --------------------------------
(***************************************************************************)
(* The WebSocket broadcast hub: the handler, reader and writer goroutines  *)
(* of each connection, the run loop that owns the client set, the entry    *)
(* buffers and the topology announcements, and Stop.                       *)
(*                                                                         *)
(* A send channel is a bounded sequence and a closed flag.  A Go send on a *)
(* closed channel panics and nothing in the run loop recovers, so it ends  *)
(* the process: hbPanic.  register and unregister are unbuffered, so each  *)
(* is one step of the loop and of the goroutine that meets it there.       *)
(* Origin checks, the upgrade itself and the message encoding are left     *)
(* out: a message is the entries or the identity it carries.               *)
(***************************************************************************)
EXTENDS Integers, Sequences, FiniteSets, Selection

CONSTANTS HbClients, HbTenant,      \* connections and the tenant of each (0: unscoped)
          HbTenants,                \* tenants entries carry
          HbSendCap,                \* capacity of client.send
          HbChanCap, HbMaxBuffer,   \* capacity of the entry channels, maxBufferSize
          HbMaxClients,             \* maxClients; 0 is no cap
          HbMaxEntries, HbMaxRev    \* bounds: entries broadcast, revisions

\* There are finitely many connections, limits are numbers, and a send channel
\* has room for a message.
ASSUME HbAssumption ==
    /\ IsFiniteSet(HbClients)
    /\ {HbChanCap, HbMaxClients} \subseteq Nat /\ {HbSendCap, HbMaxRev} \subseteq Nat \ {0}

VARIABLES hbMode,          \* "legacy" or "aggregate"
          hbHandler,       \* where each connection's handler is
          hbWriter,        \* where its writer goroutine is
          hbSend, hbClosed,    \* client.send and client.closed
          hbClients,       \* the client set of the run loop
          hbCount, hbWg,   \* clientCount and writerWg
          hbRun,           \* the run loop: "new", "running", "done"
          hbStop,          \* Stop: "no", "closing", "stopping", "waiting", "done"
          hbChan, hbBuf,   \* entry channels and buffers, per kind
          hbEntries,       \* entries broadcast so far (bound)
          hbEngine,        \* the provider's revision (external)
          hbPublished,     \* topologyRevision; 0 before topologyPublished
          hbTold,          \* history: the last revision queued for each client
          hbPanic          \* a send on a closed channel ended the process

hbConnVars == <<hbHandler, hbWriter, hbSend, hbClosed, hbCount, hbWg>>
hbTopoVars == <<hbEngine, hbPublished, hbTold>>
hbVars == <<hbMode, hbConnVars, hbClients, hbRun, hbStop, hbChan, hbBuf, hbEntries,
            hbTopoVars, hbPanic>>

HbKinds == {"logs", "metrics"}
HbEntry == [tenant : HbTenants]

StopChClosed == hbStop \in {"stopping", "waiting", "done"}

Refresh(rev, reset) == [entries |-> <<>>, rev |-> rev, reset |-> reset]

---------------------------------------------------------------------------
(* Connections *)

ReleaseSlot == hbCount' = hbCount - 1

Goto(c, pc) == hbHandler' = [hbHandler EXCEPT ![c] = pc]

\* The cap is enforced with an atomic add that is taken back on refusal.
Arrive(c) ==
    /\ hbHandler[c] = "out"
    /\ hbCount' = hbCount + 1
    /\ Goto(c, IF HbMaxClients > 0 /\ hbCount + 1 > HbMaxClients THEN "refused" ELSE "counted")
    /\ UNCHANGED <<hbMode, hbWriter, hbSend, hbClosed, hbWg, hbClients, hbRun, hbStop, hbChan,
                   hbBuf, hbEntries, hbTopoVars, hbPanic>>

\* Refused at the cap, or the upgrade failed.
NotAccepted(c) ==
    /\ hbHandler[c] \in {"refused", "counted"}
    /\ ReleaseSlot
    /\ Goto(c, "gone")
    /\ UNCHANGED <<hbMode, hbWriter, hbSend, hbClosed, hbWg, hbClients, hbRun, hbStop, hbChan,
                   hbBuf, hbEntries, hbTopoVars, hbPanic>>

\* The writer slot is reserved under lifecycleMu, and refused once Stop has
\* set closing.
AdmitWriter(c) ==
    /\ hbHandler[c] = "counted"
    /\ IF hbStop = "no"
       THEN /\ hbWg' = hbWg + 1
            /\ Goto(c, "admitted")
            /\ UNCHANGED hbCount
       ELSE ReleaseSlot /\ Goto(c, "gone") /\ UNCHANGED hbWg
    /\ UNCHANGED <<hbMode, hbWriter, hbSend, hbClosed, hbClients, hbRun, hbStop, hbChan, hbBuf,
                   hbEntries, hbTopoVars, hbPanic>>

\* The handler gives up registering once stopCh is closed.
RegisterRefused(c) ==
    /\ hbHandler[c] = "admitted"
    /\ StopChClosed
    /\ hbWg' = hbWg - 1
    /\ ReleaseSlot
    /\ Goto(c, "gone")
    /\ UNCHANGED <<hbMode, hbWriter, hbSend, hbClosed, hbClients, hbRun, hbStop, hbChan, hbBuf,
                   hbEntries, hbTopoVars, hbPanic>>

\* The reader saw the connection die: it closes send to wake the writer.
ReaderEnds(c) ==
    /\ hbHandler[c] = "reading"
    /\ Goto(c, "gone")
    /\ hbClosed' = [hbClosed EXCEPT ![c] = TRUE]
    /\ UNCHANGED <<hbMode, hbWriter, hbSend, hbCount, hbWg, hbClients, hbRun, hbStop, hbChan,
                   hbBuf, hbEntries, hbTopoVars, hbPanic>>

\* The writer takes the next message; a failed write ends it.
HbWrite(c) ==
    /\ hbWriter[c] = "run"
    /\ hbSend[c] # <<>>
    /\ hbSend' = [hbSend EXCEPT ![c] = Tail(@)]
    /\ \E ok \in BOOLEAN : hbWriter' = [hbWriter EXCEPT ![c] = IF ok THEN @ ELSE "exit"]
    /\ UNCHANGED <<hbMode, hbHandler, hbClosed, hbCount, hbWg, hbClients, hbRun, hbStop, hbChan,
                   hbBuf, hbEntries, hbTopoVars, hbPanic>>

WriterDrained(c) ==
    /\ hbWriter[c] = "run"
    /\ hbSend[c] = <<>> /\ hbClosed[c]
    /\ hbWriter' = [hbWriter EXCEPT ![c] = "exit"]
    /\ UNCHANGED <<hbMode, hbHandler, hbSend, hbClosed, hbCount, hbWg, hbClients, hbRun, hbStop,
                   hbChan, hbBuf, hbEntries, hbTopoVars, hbPanic>>

WriterDone(c) ==
    /\ hbWriter' = [hbWriter EXCEPT ![c] = "done"]
    /\ hbSend' = [hbSend EXCEPT ![c] = <<>>]
    /\ hbClosed' = [hbClosed EXCEPT ![c] = TRUE]
    /\ hbWg' = hbWg - 1
    /\ ReleaseSlot

\* Mutant: the writer leaves through unregister alone.
UnregisterAbandonedNever(c) == FALSE /\ UNCHANGED hbVars

\* stopCh closed: the writer stops waiting for the run loop.
UnregisterAbandoned(c) ==
    /\ hbWriter[c] = "exit"
    /\ StopChClosed
    /\ WriterDone(c)
    /\ UNCHANGED <<hbMode, hbHandler, hbClients, hbRun, hbStop, hbChan, hbBuf, hbEntries,
                   hbTopoVars, hbPanic>>

---------------------------------------------------------------------------
(* The run loop *)

Running == hbRun = "running"

\* The state a fan-out changes: the channels, their flags, the client set.
Fan == [send |-> hbSend, closed |-> hbClosed, clients |-> hbClients, panic |-> FALSE]

\* Queues msgs[c] for every client of cs: a closed channel panics, a full one
\* removes and closes the client.
Sends(f, cs, msgs) ==
    IF f.panic \/ \E c \in cs : f.closed[c]
    THEN [f EXCEPT !.panic = TRUE]
    ELSE LET slow == {c \in cs : Len(f.send[c]) >= HbSendCap}
         IN  [f EXCEPT !.send = [c \in HbClients |->
                                   IF c \in cs \ slow THEN Append(@[c], msgs[c]) ELSE @[c]],
                       !.closed = [c \in HbClients |-> @[c] \/ c \in slow],
                       !.clients = @ \ slow]

\* A panic leaves nothing running; otherwise the fan-out takes effect.
Apply(f) == /\ hbPanic' = f.panic
            /\ hbSend' = f.send
            /\ hbClosed' = f.closed
            /\ hbClients' = f.clients

InScope(c, entry) == HbTenant[c] = 0 \/ HbTenant[c] = entry.tenant

\* Mutant: the message is rendered once and shared by every client.
ForScopeShared(c, entries) == entries

\* encodeForScope: the entries of the client's tenant, all for an unscoped one.
ForScope(c, entries) == Selected(entries, {e \in HbEntry : InScope(c, e)})

\* One batch goes to the clients something of it is in scope for.
BroadcastTagged(f, entries) ==
    LET msgs == [c \in HbClients |-> [entries |-> ForScope(c, entries), rev |-> 0, reset |-> FALSE]]
    IN  Sends(f, {c \in f.clients : msgs[c].entries # <<>>}, msgs)

\* The buffered logs, then the buffered metrics.
Flushed(bufs) == BroadcastTagged(BroadcastTagged(Fan, bufs["logs"]), bufs["metrics"])

\* Run claims runOwner once; Stop claims it when Run never came.
HbStartRun ==
    /\ hbRun = "new"
    /\ hbRun' = "running"
    /\ UNCHANGED <<hbMode, hbConnVars, hbClients, hbStop, hbChan, hbBuf, hbEntries, hbTopoVars,
                   hbPanic>>

\* Registration also tells the client the topology identity, never an older
\* one than the hub already announced; a provider error tells it nothing.
Register(c) ==
    /\ Running
    /\ hbHandler[c] = "admitted"
    /\ Goto(c, "reading")
    /\ hbWriter' = [hbWriter EXCEPT ![c] = "run"]
    /\ hbClients' = hbClients \union {c}
    /\ \/ UNCHANGED <<hbSend, hbPublished, hbTold>>
       \/ /\ hbMode = "aggregate"
          /\ \E r \in 1 .. hbEngine :
               LET rev == IF r < hbPublished THEN hbPublished ELSE r
               IN  /\ hbSend' = [hbSend EXCEPT ![c] = Append(@, Refresh(rev, TRUE))]
                   /\ hbPublished' = rev
                   /\ hbTold' = [hbTold EXCEPT ![c] = rev]
    /\ UNCHANGED <<hbMode, hbClosed, hbCount, hbWg, hbRun, hbStop, hbChan, hbBuf, hbEntries,
                   hbEngine, hbPanic>>

Unregister(c) ==
    /\ Running
    /\ hbWriter[c] = "exit"
    /\ hbClients' = hbClients \ {c}
    /\ WriterDone(c)
    /\ UNCHANGED <<hbMode, hbHandler, hbRun, hbStop, hbChan, hbBuf, hbEntries, hbTopoVars, hbPanic>>

\* Callers drop an entry when the channel is full and in aggregate mode.
Broadcast(k, t) ==
    /\ hbMode = "legacy"
    /\ hbEntries < HbMaxEntries
    /\ hbEntries' = hbEntries + 1
    /\ hbChan' = IF Len(hbChan[k]) < HbChanCap
                 THEN [hbChan EXCEPT ![k] = Append(@, [tenant |-> t])] ELSE hbChan
    /\ UNCHANGED <<hbMode, hbConnVars, hbClients, hbRun, hbStop, hbBuf, hbTopoVars, hbPanic>>

\* One entry moves to its buffer; a full buffer is flushed at once.
Buffer(k) ==
    /\ Running
    /\ hbChan[k] # <<>>
    /\ hbChan' = [hbChan EXCEPT ![k] = Tail(@)]
    /\ LET bufs == [hbBuf EXCEPT ![k] = Append(@, Head(hbChan[k]))]
       IN  IF Len(bufs[k]) >= HbMaxBuffer
           THEN Apply(Flushed(bufs)) /\ hbBuf' = [j \in HbKinds |-> <<>>]
           ELSE Apply(Fan) /\ hbBuf' = bufs
    /\ UNCHANGED <<hbMode, hbHandler, hbWriter, hbCount, hbWg, hbRun, hbStop, hbEntries, hbTopoVars>>

FlushTick ==
    /\ Running
    /\ \E k \in HbKinds : hbBuf[k] # <<>>
    /\ Apply(Flushed(hbBuf))
    /\ hbBuf' = [k \in HbKinds |-> <<>>]
    /\ UNCHANGED <<hbMode, hbHandler, hbWriter, hbCount, hbWg, hbRun, hbStop, hbChan, hbEntries,
                   hbTopoVars>>

\* Mutant: the identity rendered with the snapshot is not compared again.
StaleRenderNever(rendered) == FALSE

\* The snapshot may have been rendered from an older revision than the one
\* the identity probe saw.
StaleRender(rendered) == rendered < hbPublished

\* publishTopologyRefresh: the identity moved forward since the last one.
PublishTopology ==
    /\ Running
    /\ hbMode = "aggregate"
    /\ hbClients # {}
    /\ hbEngine > hbPublished
    /\ \E rendered \in 1 .. hbEngine :
         /\ ~ StaleRender(rendered)
         /\ hbPublished' = rendered
         /\ Apply(Sends(Fan, hbClients, [c \in HbClients |-> Refresh(rendered, FALSE)]))
         /\ hbTold' = [c \in HbClients |-> IF hbSend'[c] # hbSend[c] THEN rendered ELSE hbTold[c]]
    /\ UNCHANGED <<hbMode, hbHandler, hbWriter, hbCount, hbWg, hbRun, hbStop, hbChan, hbBuf,
                   hbEntries, hbEngine>>

EngineMoves ==
    /\ hbEngine < HbMaxRev
    /\ hbEngine' = hbEngine + 1
    /\ UNCHANGED <<hbMode, hbConnVars, hbClients, hbRun, hbStop, hbChan, hbBuf, hbEntries,
                   hbPublished, hbTold, hbPanic>>

\* The loop's last turn: flush, then close every send channel.
RunStops ==
    /\ Running
    /\ StopChClosed
    /\ LET f == Flushed(hbBuf)
       IN  Apply([f EXCEPT !.closed = [c \in HbClients |-> @[c] \/ c \in f.clients]])
    /\ hbBuf' = [k \in HbKinds |-> <<>>]
    /\ hbRun' = "done"
    /\ UNCHANGED <<hbMode, hbHandler, hbWriter, hbCount, hbWg, hbStop, hbChan, hbEntries, hbTopoVars>>

---------------------------------------------------------------------------
(* Stop *)

StopTo(pc) == hbStop' = pc

StopBegins ==
    /\ hbStop = "no"
    /\ StopTo("closing")
    /\ UNCHANGED <<hbMode, hbConnVars, hbClients, hbRun, hbChan, hbBuf, hbEntries, hbTopoVars, hbPanic>>

\* Closes stopCh; the wait for a loop that was never started is released here.
StopSignals ==
    /\ hbStop = "closing"
    /\ StopTo("stopping")
    /\ hbRun' = IF hbRun = "new" THEN "done" ELSE hbRun
    /\ UNCHANGED <<hbMode, hbConnVars, hbClients, hbChan, hbBuf, hbEntries, hbTopoVars, hbPanic>>

\* wg.Wait, then writerWg.Wait.
StopWaits ==
    /\ \/ hbStop = "stopping" /\ hbRun = "done" /\ StopTo("waiting")
       \/ hbStop = "waiting" /\ hbWg = 0 /\ StopTo("done")
    /\ UNCHANGED <<hbMode, hbConnVars, hbClients, hbRun, hbChan, hbBuf, hbEntries, hbTopoVars, hbPanic>>

---------------------------------------------------------------------------

HbInitIn(mode) ==
    /\ hbMode = mode
    /\ hbHandler = [c \in HbClients |-> "out"]
    /\ hbWriter = [c \in HbClients |-> "none"]
    /\ hbSend = [c \in HbClients |-> <<>>]
    /\ hbClosed = [c \in HbClients |-> FALSE]
    /\ hbClients = {} /\ hbCount = 0 /\ hbWg = 0
    /\ hbRun = "new" /\ hbStop = "no"
    /\ hbChan = [k \in HbKinds |-> <<>>]
    /\ hbBuf = [k \in HbKinds |-> <<>>]
    /\ hbEntries = 0 /\ hbEngine = 1 /\ hbPublished = 0
    /\ hbTold = [c \in HbClients |-> 0]
    /\ hbPanic = FALSE

HbInit == \E m \in {"legacy", "aggregate"} : HbInitIn(m)

\* Steps that do not wait for a client or a caller to act.
HbProgress ==
    \/ \E c \in HbClients : \/ NotAccepted(c) \/ AdmitWriter(c) \/ RegisterRefused(c)
                            \/ HbWrite(c) \/ WriterDrained(c) \/ UnregisterAbandoned(c)
                            \/ Register(c) \/ Unregister(c)
    \/ RunStops \/ StopSignals \/ StopWaits

HbNext ==
    /\ ~ hbPanic
    /\ \/ HbProgress
       \/ \E c \in HbClients : Arrive(c) \/ ReaderEnds(c)
       \/ \E k \in HbKinds, t \in HbTenants : Broadcast(k, t)
       \/ \E k \in HbKinds : Buffer(k)
       \/ FlushTick \/ PublishTopology \/ EngineMoves \/ HbStartRun \/ StopBegins

HbSpec == HbInit /\ [][HbNext]_hbVars

\* Type correctness.
HbTypeOK ==
    /\ hbMode \in {"legacy", "aggregate"}
    /\ hbClients \subseteq HbClients /\ hbCount \in Nat /\ hbWg \in Nat
    /\ \A c \in HbClients : Len(hbSend[c]) <= HbSendCap
    /\ hbClosed \in [HbClients -> BOOLEAN] /\ hbPanic \in BOOLEAN
    /\ hbRun \in {"new", "running", "done"}
    /\ hbStop \in {"no", "closing", "stopping", "waiting", "done"}
    /\ \A k \in HbKinds : Len(hbChan[k]) <= HbChanCap
    /\ hbPublished \in 0 .. hbEngine /\ hbEngine \in 1 .. HbMaxRev
    /\ hbTold \in [HbClients -> 0 .. hbEngine]

---------------------------------------------------------------------------

\* Stop is never wedged: until it returned, some goroutine can go on without
\* a client or a caller acting, and the writers it waits for are exactly the
\* connections it admitted and has not seen the end of (Stop, admitWriter,
\* the stopCh branches of register and unregister).
StopNeverWedged ==
    /\ hbWg = Cardinality({c \in HbClients : hbHandler[c] = "admitted" \/ hbWriter[c] \in {"run", "exit"}})
    /\ hbStop \notin {"no", "done"} /\ ~ hbPanic => ENABLED HbProgress

\* What the hub tells a client never goes back: every topology identity
\* queued for it is at least the last one, although the identity probe and
\* the rendered snapshot are read at different times and registrations
\* announce in between; and nothing of another tenant is queued for it
\* (publishTopologyRefresh, Run's register case, encodeForScope).
ToldInOrder ==
    [][\A c \in HbClients :
         /\ hbTold'[c] >= hbTold[c]
         /\ \A i \in DOMAIN hbSend'[c] :
              \A j \in DOMAIN hbSend'[c][i].entries : InScope(c, hbSend'[c][i].entries[j])]_hbVars

===========================================================================
