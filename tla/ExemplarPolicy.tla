---------------------------- MODULE ExemplarPolicy ----------------------------
(***************************************************************************)
(* Which raw traces and logs are worth keeping (internal/ingest/           *)
(* exemplar.go).  Every (service, window) has a cell with its selected     *)
(* traces, its log quotas and its byte ledger; every window has one        *)
(* instance-wide cell.  A span is admitted by rank, its bytes are reserved *)
(* before the submit path takes the row, and the reservation is committed  *)
(* or released when a destination answers.                                 *)
(*                                                                         *)
(* A trace is identified with its hash (ties break on the ID, so the rank  *)
(* is total), a row weighs one unit, and a service stands for a            *)
(* (tenant, service) pair.  Cells and traces are reached by pointer: what  *)
(* was pruned lives on in the reservations that hold it, so each carries   *)
(* the number of the offer that created it.                                *)
(***************************************************************************)
EXTENDS Integers, FiniteSets, FiniteSetsExt

CONSTANTS
    ExServices, ExWindows,      \* services and budget windows (naturals)
    ExTraces,                   \* traces, numbered from 1 in the order of their hashes
    ExOps,                      \* operation names
    TracesPerServiceWindow, TracesGlobalWindow, StratumTopK,
    BytesPerServiceWindow, BytesGlobalWindow, MaxBytesPerTrace, MaxSpansPerTrace,
    HealthyThreshold,           \* a healthy trace below this hash is eligible
    LogsPerServiceWindow,       \* ERROR/FATAL log quota
    LogsWarnEnabled, LogsWarnPerServiceWindow,
    SynthLogsPerTrace,
    PruneFactor,                \* 8 in the code
    ExReservations,             \* reservations in flight
    ExMaxOffers                 \* bound: spans and logs offered

NoTrace == 0

\* Traces are ordered; the policy was given its defaults for what is not configured.
ASSUME ExAssumption ==
    /\ ExTraces \subseteq Nat \ {NoTrace} /\ IsFiniteSet(ExTraces) /\ ExWindows \subseteq Nat
    /\ {TracesPerServiceWindow, TracesGlobalWindow, StratumTopK, BytesPerServiceWindow,
        BytesGlobalWindow, MaxBytesPerTrace, MaxSpansPerTrace, HealthyThreshold,
        PruneFactor, ExMaxOffers} \subseteq Nat

Error == 0
Slow == 1
Healthy == 2
Classes == {Error, Slow, Healthy}

\* storage.SheddingState
SheddingNone == 0
SheddingErrorsOnly == 1
SheddingRawOff == 2

VARIABLES
    exCells,        \* exemplarShard.services: (service, window) -> cell
    exGlobal,       \* ExemplarPolicy.global: window -> instance-wide cell
    exShed,         \* ExemplarPolicy.shed
    exRes,          \* entries held by each open reservation
    exOffers        \* spans and logs offered so far

exVars == <<exCells, exGlobal, exShed, exRes, exOffers>>

NewTrace(op, class) ==
    [born |-> exOffers, class |-> class, stratum |-> IF class = Healthy THEN <<>> ELSE <<op, class>>,
     observed |-> 1, retained |-> 0, bytes |-> 0, reserved |-> 0, synth |-> 0,
     truncated |-> FALSE, evicted |-> FALSE]

NewServiceWindow ==
    [id |-> exOffers, traces |-> <<>>, perName |-> [c \in Classes |-> 0],
     bytes |-> 0, reserved |-> 0, logs |-> [s \in {0, 1} |-> 0]]

NewGlobalWindow == [id |-> exOffers, traces |-> 0, bytes |-> 0, reserved |-> 0]

-------------------------------------------------------------------------------
(* Cells and ranks.                                                        *)

\* exemplarShard.window: an absent cell is created, and every older cell of the service goes.
Cell(svc, w) ==
    IF <<svc, w>> \in DOMAIN exCells THEN exCells[<<svc, w>>] ELSE NewServiceWindow

WithCell(svc, w, cell) ==
    LET pruned == {k \in DOMAIN exCells :
                     /\ <<svc, w>> \notin DOMAIN exCells
                     /\ k[1] = svc /\ k[2] < w}
        kept == DOMAIN exCells \ pruned
    IN  [k \in kept \cup {<<svc, w>>} |-> IF k = <<svc, w>> THEN cell ELSE exCells[k]]

\* globalFor: the same rule for the instance-wide cells.
Global(w) ==
    IF w \in DOMAIN exGlobal THEN exGlobal[w] ELSE NewGlobalWindow

WithGlobal(w, gw) ==
    LET kept == {v \in DOMAIN exGlobal : w \in DOMAIN exGlobal \/ v > w}
    IN  [v \in kept \cup {w} |-> IF v = w THEN gw ELSE exGlobal[v]]

\* Every offer is counted against its bound.
Count == exOffers < ExMaxOffers /\ exOffers' = exOffers + 1

\* A trace's record within its cell.
WithTrace(cell, t, st) == [cell EXCEPT !.traces = [u \in DOMAIN @ \cup {t} |-> IF u = t THEN st ELSE @[u]]]
Truncated(cell, t) == WithTrace(cell, t, [cell.traces[t] EXCEPT !.truncated = TRUE])

\* A trace of one class counts in another.
Reranked(perName, from, to) == [perName EXCEPT ![from] = @ - 1, ![to] = @ + 1]

LiveTraces(cell) == {t \in DOMAIN cell.traces : ~cell.traces[t].evicted}
SelectedCount(cell) == cell.perName[Error] + cell.perName[Slow] + cell.perName[Healthy]
Members(cell, stratum) == {t \in LiveTraces(cell) : cell.traces[t].stratum = stratum}

\* stratumAdmits: below K always, else only a smaller hash than the worst member.
StratumAdmits(cell, op, class, t) ==
    LET m == Members(cell, <<op, class>>)
    IN  Cardinality(m) < StratumTopK \/ \E u \in m : t < u

\* lowestPriorityVictim: the worst of the lowest class below the newcomer's, else the worst
\* of its own class if the newcomer ranks better.  {} when nothing may be displaced.
LowestPriorityVictim(cell, class, t) ==
    LET of(c) == {u \in LiveTraces(cell) : cell.traces[u].class = c}
        lower == {c \in Classes : c > class /\ of(c) # {}}
    IN  CASE lower # {} -> {Max(of(Max(lower)))}
          [] lower = {} /\ of(class) # {} /\ t < Max(of(class)) -> {Max(of(class))}
          [] OTHER -> {}

\* pruneEvictedLocked: past PruneFactor times the budget the displaced traces are forgotten.
PruneEvicted(cell) ==
    IF Cardinality(DOMAIN cell.traces) <= PruneFactor * TracesPerServiceWindow THEN cell
    ELSE [cell EXCEPT !.traces = [t \in LiveTraces(cell) |-> cell.traces[t]]]

\* evictLocked, the cell's half: the trace keeps its record and gives up its rank.
Evict(cell, victims) ==
    IF victims = {} THEN cell
    ELSE LET v == CHOOSE u \in victims : TRUE
         IN  PruneEvicted([WithTrace(cell, v, [cell.traces[v] EXCEPT !.evicted = TRUE])
                             EXCEPT !.perName[cell.traces[v].class] = @ - 1])

\* releaseGlobalTrace, once per evicted trace.
GiveBack(gw, n) == [gw EXCEPT !.traces = IF @ > n THEN @ - n ELSE 0]

-------------------------------------------------------------------------------
(* AdmitSpan.                                                              *)

ShedSpan(class) ==
    \/ exShed = SheddingRawOff
    \/ exShed = SheddingErrorsOnly /\ class # Error

\* A shed span truncates the trace it would have belonged to.
AdmitShed(svc, w, t, op, class) ==
    LET cell == Cell(svc, w) IN
    /\ ShedSpan(class)
    /\ UNCHANGED <<exShed, exRes>>
    /\ exCells' = WithCell(svc, w,
            IF t \in LiveTraces(cell) THEN Truncated(cell, t) ELSE cell)
    /\ UNCHANGED exGlobal

\* A span of a trace the window knows: refused when displaced, upgraded when it ranks
\* higher, truncated past the span bound.
AdmitKnown(svc, w, t, op, class) ==
    LET cell == Cell(svc, w)
        st == cell.traces[t]
        seen == [st EXCEPT !.observed = @ + 1, !.truncated = @ \/ st.observed >= MaxSpansPerTrace]
    IN
    /\ ~ShedSpan(class)
    /\ t \in DOMAIN cell.traces
    /\ UNCHANGED <<exShed, exRes>>
    /\ exCells' = WithCell(svc, w,
            IF st.evicted THEN cell
            ELSE IF class >= st.class THEN WithTrace(cell, t, seen)
            ELSE [WithTrace(cell, t, [seen EXCEPT !.class = class])
                    EXCEPT !.perName = Reranked(@, st.class, class)])
    /\ UNCHANGED exGlobal

Eligible(cell, t, op, class) ==
    IF class = Healthy THEN t < HealthyThreshold ELSE StratumAdmits(cell, op, class, t)

\* A new trace that the hash threshold, its stratum or the instance-wide count refuses.
AdmitRefused(svc, w, t, op, class) ==
    LET cell == Cell(svc, w)
        eligible == Eligible(cell, t, op, class)
    IN
    /\ ~ShedSpan(class)
    /\ t \notin DOMAIN cell.traces
    /\ eligible => Global(w).traces >= TracesGlobalWindow
    /\ UNCHANGED <<exShed, exRes>>
    /\ exCells' = WithCell(svc, w, cell)
    /\ exGlobal' = IF eligible THEN WithGlobal(w, Global(w)) ELSE exGlobal

\* A new trace that takes a slot, displacing the worst member of its stratum and, when the
\* service is at its budget, the lowest-priority trace; or that gives its slot back.
AdmitNew(svc, w, t, op, class) ==
    LET cell == Cell(svc, w)
        gw == Global(w)
        full == class # Healthy /\ Cardinality(Members(cell, <<op, class>>)) >= StratumTopK
        worst == IF full THEN {Max(Members(cell, <<op, class>>))} ELSE {}
        one == Evict(cell, worst)
        atBudget == SelectedCount(one) >= TracesPerServiceWindow
        victim == IF atBudget THEN LowestPriorityVictim(one, class, t) ELSE {}
        two == Evict(one, victim)
        refused == atBudget /\ victim = {}
    IN
    /\ ~ShedSpan(class)
    /\ t \notin DOMAIN cell.traces
    /\ Eligible(cell, t, op, class) /\ gw.traces < TracesGlobalWindow
    /\ UNCHANGED <<exShed, exRes>>
    /\ exGlobal' = WithGlobal(w,
            GiveBack([gw EXCEPT !.traces = @ + 1],
                     Cardinality(worst) + Cardinality(victim) + (IF refused THEN 1 ELSE 0)))
    /\ exCells' = WithCell(svc, w,
            IF refused THEN one
            ELSE [WithTrace(two, t, NewTrace(op, class)) EXCEPT !.perName[class] = @ + 1])

AdmitSpan(svc, w, t, op, class) ==
    /\ Count
    /\ \/ AdmitShed(svc, w, t, op, class)
       \/ AdmitKnown(svc, w, t, op, class)
       \/ AdmitRefused(svc, w, t, op, class)
       \/ AdmitNew(svc, w, t, op, class)

-------------------------------------------------------------------------------
(* Byte reservations.  An entry holds the cells and the trace by identity. *)

\* Mutant: only committed bytes are compared with the budgets.
FitsIgnoringReserved(cell, gw, t) ==
    /\ cell.bytes + 1 <= BytesPerServiceWindow
    /\ gw.bytes + 1 <= BytesGlobalWindow
    /\ t # NoTrace => cell.traces[t].bytes + 1 <= MaxBytesPerTrace

Fits(cell, gw, t) ==
    /\ cell.bytes + cell.reserved + 1 <= BytesPerServiceWindow
    /\ gw.bytes + gw.reserved + 1 <= BytesGlobalWindow
    /\ t # NoTrace => cell.traces[t].bytes + cell.traces[t].reserved + 1 <= MaxBytesPerTrace

Entry(svc, w, cell, gw, t, span) ==
    [at |-> exOffers, svc |-> svc, win |-> w, sw |-> cell.id, gw |-> gw.id, trace |-> t,
     st |-> IF t = NoTrace THEN 0 ELSE cell.traces[t].born, span |-> span]

Reserve(r, svc, w, cell, t, span) ==
    LET gw == Global(w) IN
    /\ exCells' = WithCell(svc, w, [cell EXCEPT !.reserved = @ + 1])
    /\ exGlobal' = WithGlobal(w, [gw EXCEPT !.reserved = @ + 1])
    /\ exRes' = [exRes EXCEPT ![r] = @ \cup {Entry(svc, w, cell, gw, t, span)}]

\* ReserveSpan: a span of a selected trace that fits the three byte budgets, else the trace
\* is truncated.
ReserveSpan(r, svc, w, t) ==
    LET cell == Cell(svc, w) IN
    /\ Count
    /\ \/ /\ t \in LiveTraces(cell) /\ Fits(cell, Global(w), t)
          /\ Reserve(r, svc, w, WithTrace(cell, t, [cell.traces[t] EXCEPT !.reserved = @ + 1,
                                                                          !.retained = @ + 1]), t, TRUE)
       \/ /\ t \in LiveTraces(cell) /\ ~Fits(cell, Global(w), t)
          /\ exCells' = WithCell(svc, w, Truncated(cell, t))
          /\ UNCHANGED <<exGlobal, exRes>>
       \/ /\ t \notin LiveTraces(cell)
          /\ exCells' = WithCell(svc, w, cell)
          /\ UNCHANGED <<exGlobal, exRes>>
    /\ UNCHANGED exShed

\* logSlot and shedLog: ERROR is slot 0, WARN slot 1 when it is enabled at all.
LogAllowed(slot) ==
    /\ slot = 1 => LogsWarnEnabled
    /\ ~(exShed = SheddingRawOff \/ (exShed = SheddingErrorsOnly /\ slot # 0))

LogBudget(slot) == IF slot = 0 THEN LogsPerServiceWindow ELSE LogsWarnPerServiceWindow

\* ReserveLog: a client log within its quota and the byte budgets.
ReserveLog(r, svc, w, slot) ==
    LET cell == Cell(svc, w)
        ok == cell.logs[slot] < LogBudget(slot) /\ Fits(cell, Global(w), NoTrace)
    IN
    /\ Count
    /\ LogAllowed(slot)
    /\ \/ ok /\ Reserve(r, svc, w, [cell EXCEPT !.logs[slot] = @ + 1], NoTrace, FALSE)
       \/ ~ok /\ exCells' = WithCell(svc, w, cell) /\ UNCHANGED <<exGlobal, exRes>>
    /\ UNCHANGED exShed

\* ReserveSynthesizedLog: rides a selected trace, bounded per trace and by the byte budgets; a
\* span that synthesized logs before may be at a cap of its own.
ReserveSynthesizedLog(r, svc, w, t) ==
    LET cell == Cell(svc, w)
        ok == cell.traces[t].synth < SynthLogsPerTrace /\ Fits(cell, Global(w), t)
    IN
    /\ Count
    /\ LogAllowed(0)
    /\ \/ /\ t \in LiveTraces(cell) /\ ok
          /\ Reserve(r, svc, w, WithTrace(cell, t, [cell.traces[t] EXCEPT !.reserved = @ + 1,
                                                                          !.synth = @ + 1]), t, FALSE)
       \/ /\ t \in LiveTraces(cell) /\ (~ok \/ cell.traces[t].synth > 0)
          /\ exCells' = WithCell(svc, w, Truncated(cell, t))
          /\ UNCHANGED <<exGlobal, exRes>>
       \/ /\ t \notin LiveTraces(cell)
          /\ exCells' = WithCell(svc, w, cell)
          /\ UNCHANGED <<exGlobal, exRes>>
    /\ UNCHANGED exShed

-------------------------------------------------------------------------------
(* Settling a reservation: every entry once, in its own cells.             *)

\* The entries of S that hold a cell, a trace of it, an instance-wide cell.
Charges(S, k, cell) == {e \in S : e.svc = k[1] /\ e.win = k[2] /\ e.sw = cell.id}
TraceCharges(S, k, cell, t) == {e \in Charges(S, k, cell) : e.trace = t /\ e.st = cell.traces[t].born}
GlobalCharges(S, w, gw) == {e \in S : e.win = w /\ e.gw = gw.id}
Spans(S) == {e \in S : e.span}

\* commitEntry and releaseEntry: reserved bytes leave the ledger, committed ones stay on it,
\* a released span is no longer retained.
SettledTrace(st, S, committed) ==
    [st EXCEPT !.reserved = @ - Cardinality(S),
               !.bytes = IF committed THEN @ + Cardinality(S) ELSE @,
               !.retained = IF committed THEN @ ELSE @ - Cardinality(Spans(S))]

SettledCell(S, k, cell, committed) ==
    LET n == Cardinality(Charges(S, k, cell)) IN
    [cell EXCEPT !.reserved = @ - n,
                 !.bytes = IF committed THEN @ + n ELSE @,
                 !.traces = [t \in DOMAIN @ |-> SettledTrace(@[t], TraceCharges(S, k, cell, t), committed)]]

SettledGlobal(S, w, gw, committed) ==
    LET n == Cardinality(GlobalCharges(S, w, gw)) IN
    [gw EXCEPT !.reserved = @ - n, !.bytes = IF committed THEN @ + n ELSE @]

Settle(r, committed) ==
    /\ exRes[r] # {}
    /\ exCells' = [k \in DOMAIN exCells |-> SettledCell(exRes[r], k, exCells[k], committed)]
    /\ exGlobal' = [w \in DOMAIN exGlobal |-> SettledGlobal(exRes[r], w, exGlobal[w], committed)]
    /\ exRes' = [exRes EXCEPT ![r] = {}]
    /\ UNCHANGED <<exShed, exOffers>>

CommitReservation(r) == Settle(r, TRUE)
ReleaseReservation(r) == Settle(r, FALSE)

\* Merge: the entries change hands, the other reservation is settled empty.
MergeReservation(r, other) ==
    /\ r # other /\ exRes[other] # {}
    /\ exRes' = [exRes EXCEPT ![r] = @ \cup exRes[other], ![other] = {}]
    /\ UNCHANGED <<exCells, exGlobal, exShed, exOffers>>

\* SetShedding: the watchdog publishes a rung of its ladder.
SetShedding(s) ==
    /\ exShed # s
    /\ exShed' = s
    /\ UNCHANGED <<exCells, exGlobal, exRes, exOffers>>

ExInit ==
    /\ exCells = <<>> /\ exGlobal = <<>>
    /\ exShed = SheddingNone
    /\ exRes = [r \in ExReservations |-> {}]
    /\ exOffers = 0

ExNext ==
    \/ \E svc \in ExServices, w \in ExWindows, t \in ExTraces, op \in ExOps, c \in Classes :
          AdmitSpan(svc, w, t, op, c)
    \/ \E r \in ExReservations, svc \in ExServices, w \in ExWindows, t \in ExTraces :
          ReserveSpan(r, svc, w, t) \/ ReserveSynthesizedLog(r, svc, w, t)
    \/ \E r \in ExReservations, svc \in ExServices, w \in ExWindows, slot \in {0, 1} :
          ReserveLog(r, svc, w, slot)
    \/ \E r, other \in ExReservations : MergeReservation(r, other)
    \/ \E r \in ExReservations : CommitReservation(r) \/ ReleaseReservation(r)
    \/ \E s \in {SheddingNone, SheddingErrorsOnly, SheddingRawOff} : SetShedding(s)

ExSpec == ExInit /\ [][ExNext]_exVars

-------------------------------------------------------------------------------
(* Properties.                                                             *)

\* Type correctness.
ExTypeOK ==
    /\ DOMAIN exCells \subseteq ExServices \X ExWindows
    /\ DOMAIN exGlobal \subseteq ExWindows
    /\ exShed \in {SheddingNone, SheddingErrorsOnly, SheddingRawOff}
    /\ \A k \in DOMAIN exCells : DOMAIN exCells[k].traces \subseteq ExTraces

\* The entries of every open reservation.
Outstanding == UNION {exRes[r] : r \in ExReservations}

\* The ledgers agree with the reservations in flight and never exceed a budget: whatever
\* order spans, logs, evictions, window changes, commits and releases come in, a cell's
\* reserved bytes are exactly those its open reservations hold, reserved and committed
\* bytes together fit the budget, the per-class counts are those of the selected traces,
\* and a trace's retained spans never go negative (#201 Q4).
BytesSettle ==
    /\ \A k \in DOMAIN exCells :
          LET cell == exCells[k] IN
          /\ cell.reserved = Cardinality(Charges(Outstanding, k, cell))
          /\ cell.bytes + cell.reserved <= BytesPerServiceWindow
          /\ \A c \in Classes :
                cell.perName[c] = Cardinality({t \in LiveTraces(cell) : cell.traces[t].class = c})
          /\ SelectedCount(cell) <= TracesPerServiceWindow
          /\ \A op \in ExOps, c \in Classes : Cardinality(Members(cell, <<op, c>>)) <= StratumTopK
          /\ \A t \in DOMAIN cell.traces :
                /\ cell.traces[t].bytes + cell.traces[t].reserved <= MaxBytesPerTrace
                /\ cell.traces[t].retained >= 0
    /\ \A w \in DOMAIN exGlobal :
          /\ exGlobal[w].reserved = Cardinality(GlobalCharges(Outstanding, w, exGlobal[w]))
          /\ exGlobal[w].bytes + exGlobal[w].reserved <= BytesGlobalWindow
          /\ exGlobal[w].traces <= TracesGlobalWindow

===============================================================================
