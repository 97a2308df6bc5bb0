---------------------------- MODULE TemplateMiner ----------------------------
(***************************************************************************)
(* The ingest-owned log template miner (internal/aggregate/                *)
(* template_miner.go) of one (tenant, service) partition, together with    *)
(* the group commit that makes its identities durable and the restart that *)
(* rebuilds it.                                                            *)
(*                                                                         *)
(* Every log line is mined before its export is submitted, so the identity *)
(* an export carries is issued first and becomes durable later: the        *)
(* pattern row is staged, rides the next group commit, and may move on     *)
(* while that commit is under way.  What a line became is only worth       *)
(* something if the row its identity names still covers the line after a   *)
(* crash.                                                                  *)
(*                                                                         *)
(* Lines are pairs of tokens (masking has already happened) or empty, the  *)
(* tree has one level, and hit counters and time stamps are left out.      *)
(***************************************************************************)
EXTENDS Integers, FiniteSets, Sequences

CONSTANTS
  TmExports,      \* log exports, each of one line
  TmFirst,        \* first tokens
  TmSecond,       \* second tokens
  TmLong,         \* lines whose dictionary value is over the length cap
  TmMaxTemplates, \* MaxTemplatesPerService
  TmMaxChildren,  \* MaxChildren of a tree node
  TmDictCap,      \* template entries the dictionary has room for
  TmMaxMines,     \* bound: lines mined in a behaviour
  TmMaxCrashes    \* bound: restarts in a behaviour

ASSUME TmAssumption == {TmMaxChildren, TmMaxMines, TmMaxCrashes} \subseteq Nat

TemplateWildcard == "<*>"

\* The identity of __other__, minted with the tenant.
OtherId == 1

VARIABLES
  tm,       \* the miner: [entries, kids, other, seq, dict, pending]
  tmExp,    \* export -> [st, line, id]
  tmGroup,  \* the group being committed: [members, rows, dict]
  tmStore,  \* durable: [rows, dict]
  tmMines, tmCrashes

tmVars == <<tm, tmExp, tmGroup, tmStore, tmMines, tmCrashes>>

Lines == (TmFirst \X TmSecond) \cup {<<>>}

NewTemplateMiner ==
  [entries |-> <<>>, kids |-> {}, other |-> 0, seq |-> 0,
   dict |-> <<>>, pending |-> <<>>]

Put(f, k, v) == [x \in DOMAIN f \cup {k} |-> IF x = k THEN v ELSE f[x]]

-----------------------------------------------------------------------------
\* The durable half of a template (TemplateRow).
TemplateRow(t) ==
  [tokens |-> t.tokens, version |-> t.version, seq |-> t.seq,
   alias |-> t.alias, other |-> FALSE]

OtherRow ==
  [tokens |-> <<>>, version |-> 0, seq |-> 0, alias |-> 0, other |-> TRUE]

\* A staged row is replaced by one that is at least as new.
StageRow(m, id, row) ==
  IF id \notin DOMAIN m.pending \/ row.version >= m.pending[id].version
  THEN [m EXCEPT !.pending = Put(@, id, row)]
  ELSE m

Stage(m, id) == StageRow(m, id, TemplateRow(m.entries[id]))

\* The leaf a line descends to: its own child, or the wildcard child once the
\* node is full.  The children of a node include the wildcard.
Leaf(m, tok) ==
  IF tok \in m.kids THEN tok
  ELSE IF tok = TemplateWildcard \/ Cardinality(m.kids) >= TmMaxChildren
       THEN TemplateWildcard
       ELSE tok

Descend(m, line) == [m EXCEPT !.kids = @ \cup {Leaf(m, line[1])}]

\* Matching positions; the threshold is half of them.
Similarity(tokens, line) ==
  Cardinality({i \in DOMAIN line :
                 tokens[i] = TemplateWildcard \/ tokens[i] = line[i]})

Similar(tokens, line) == 2 * Similarity(tokens, line) >= Len(line)

\* The leaf's most similar entry, the oldest among equals; none below the
\* threshold.  Retired entries stay in the leaf and forward.
BestMatch(m, line) ==
  LET In == {i \in DOMAIN m.entries : m.entries[i].leaf = Leaf(m, line[1])}
      Sim(i) == Similarity(m.entries[i].tokens, line)
  IN  {i \in In :
         /\ Similar(m.entries[i].tokens, line)
         /\ \A j \in In \ {i} :
              \/ Sim(i) > Sim(j)
              \/ Sim(i) = Sim(j) /\ m.entries[i].seq < m.entries[j].seq}

ResolveAlias(entries, id) ==
  IF entries[id].alias = 0 THEN id ELSE entries[id].alias

Live(m) == {i \in DOMAIN m.entries : m.entries[i].alias = 0}

FindTwin(m, id) ==
  {j \in Live(m) \ {id} : m.entries[j].tokens = m.entries[id].tokens}

\* The older of two equal patterns survives; the other one forwards to it, and
\* so does whatever forwarded to the other one.  Both rows are staged.
Converge(m, a, b) ==
  LET keep   == IF m.entries[b].seq < m.entries[a].seq THEN b ELSE a
      retire == IF keep = a THEN b ELSE a
      es == [i \in DOMAIN m.entries |->
               IF i = retire
               THEN [m.entries[i] EXCEPT !.alias = keep, !.version = @ + 1]
               ELSE IF m.entries[i].alias = retire
                    THEN [m.entries[i] EXCEPT !.alias = keep]
                    ELSE m.entries[i]]
      m1 == Stage([m EXCEPT !.entries = es], retire)
  IN  Stage(m1, keep)

Generalised(tokens, line) ==
  [i \in DOMAIN tokens |->
     IF tokens[i] = line[i] THEN tokens[i] ELSE TemplateWildcard]

\* A match generalises the pattern under its identity; a change is a new
\* version, is staged, and may make the pattern equal to another one.
Matched(m, id, line) ==
  LET t  == m.entries[id]
      t1 == [t EXCEPT !.tokens = Generalised(t.tokens, line),
                      !.version = @ + 1]
      m1 == Stage([m EXCEPT !.entries[id] = t1], id)
  IN  IF Generalised(t.tokens, line) = t.tokens THEN m
      ELSE IF FindTwin(m1, id) = {} THEN m1
      ELSE Converge(m1, id, CHOOSE j \in FindTwin(m1, id) : TRUE)

\* The dictionary entry of a pattern's text: an existing one, __other__ when
\* it is too long or the dictionary is full, otherwise a fresh one.
RegisterTemplate(m, line) ==
  IF line \in DOMAIN m.dict THEN m.dict[line]
  ELSE IF line \in TmLong \/ Cardinality(DOMAIN m.dict) >= TmDictCap
       THEN OtherId
       ELSE OtherId + 1 + Cardinality(DOMAIN m.dict)

EnsureOther(m) ==
  IF m.other # 0 THEN m
  ELSE StageRow([m EXCEPT !.other = OtherId], OtherId, OtherRow)

\* A fresh identity becomes a template of the line's leaf; an identity that is
\* live already, or __other__, is refused.
Added(m, line) ==
  LET id == RegisterTemplate(m, line)
      m1 == IF id = OtherId THEN m ELSE [m EXCEPT !.dict = Put(@, line, id)]
      t  == [tokens |-> line, version |-> 0, seq |-> m.seq, alias |-> 0,
             leaf |-> Leaf(m, line[1])]
  IN  IF id \in Live(m) \cup {m.other}
      THEN [m |-> m1, id |-> m.other]
      ELSE [m |-> Stage([m1 EXCEPT !.entries = Put(@, id, t),
                                   !.seq = @ + 1], id),
            id |-> id]

\* mine: the overflow identity first, then match, cap, or a new template.
Mined(m0, line) ==
  LET m1 == EnsureOther(m0)
      m2 == Descend(m1, line)
      best == IF line = <<>> THEN {} ELSE BestMatch(m1, line)
      id == ResolveAlias(m1.entries, CHOOSE i \in best : TRUE)
  IN  IF line = <<>> THEN [m |-> m1, id |-> m1.other]
      ELSE IF best # {}
      THEN LET m3 == Matched(m2, id, line)
           IN  [m |-> m3, id |-> ResolveAlias(m3.entries, id)]
      ELSE IF Cardinality(Live(m2)) >= TmMaxTemplates
      THEN [m |-> m2, id |-> m2.other]
      ELSE [Added(m1, line) EXCEPT !.m.kids = m2.kids]

-----------------------------------------------------------------------------
NoGroup == [members |-> {}, rows |-> <<>>, dict |-> <<>>]

TmInit ==
  /\ tm = NewTemplateMiner
  /\ tmExp = [e \in TmExports |-> [st |-> "idle", line |-> <<>>, id |-> 0]]
  /\ tmGroup = NoGroup
  /\ tmStore = [rows |-> <<>>, dict |-> <<>>]
  /\ tmMines = 0
  /\ tmCrashes = 0

\* ReduceLog mines the line of an export before the export is submitted.
MineAt(e, line) ==
  /\ tmExp[e].st = "idle" /\ tmMines < TmMaxMines
  /\ LET r == Mined(tm, line)
     IN  /\ tm' = r.m
         /\ tmExp' = [tmExp EXCEPT ![e] =
                        [st |-> "mined", line |-> line, id |-> r.id]]
  /\ tmMines' = tmMines + 1
  /\ UNCHANGED <<tmGroup, tmStore, tmCrashes>>

\* The writer closes a group and drains what is staged; the rows stay staged.
DrainPending(es) ==
  /\ tmGroup.members = {}
  /\ es # {} /\ \A e \in es : tmExp[e].st = "mined"
  /\ tmGroup' = [members |-> es, rows |-> tm.pending, dict |-> tm.dict]
  /\ tmExp' = [e \in TmExports |->
                 IF e \in es THEN [tmExp[e] EXCEPT !.st = "grouped"]
                 ELSE tmExp[e]]
  /\ UNCHANGED <<tm, tmStore, tmMines, tmCrashes>>

\* A stored pattern gives way only to one that is at least as new.
UpsertTemplates(stored, rows) ==
  [i \in DOMAIN stored \cup DOMAIN rows |->
     IF i \in DOMAIN rows
          /\ (i \in DOMAIN stored => rows[i].version >= stored[i].version)
     THEN rows[i] ELSE stored[i]]

\* Mutant: a drained row leaves the staging area whatever happened to it since.
CommittedAll(pending, rows) ==
  [i \in DOMAIN pending \ DOMAIN rows |-> pending[i]]

\* A drained row leaves the staging area unless its pattern moved on meanwhile.
Committed(pending, rows) ==
  [i \in {j \in DOMAIN pending :
            j \in DOMAIN rows => pending[j].version > rows[j].version}
   |-> pending[i]]

CommitGroupOk ==
  /\ tmGroup.members # {}
  /\ tmStore' = [rows |-> UpsertTemplates(tmStore.rows, tmGroup.rows),
                 dict |-> tmGroup.dict]
  /\ tm' = [tm EXCEPT !.pending = Committed(@, tmGroup.rows)]
  /\ tmExp' = [e \in TmExports |->
                 IF e \in tmGroup.members THEN [tmExp[e] EXCEPT !.st = "acked"]
                 ELSE tmExp[e]]
  /\ tmGroup' = NoGroup
  /\ UNCHANGED <<tmMines, tmCrashes>>

\* A failed commit refuses its exports and leaves the rows staged.
CommitGroupFails ==
  /\ tmGroup.members # {}
  /\ tmExp' = [e \in TmExports |->
                 IF e \in tmGroup.members
                 THEN [st |-> "idle", line |-> <<>>, id |-> 0] ELSE tmExp[e]]
  /\ tmGroup' = NoGroup
  /\ UNCHANGED <<tm, tmStore, tmMines, tmCrashes>>

\* The order in which Restore replays the rows: by sequence, then by identity.
RestoreOrders(rows) ==
  LET Before(i, j) == \/ rows[i].seq < rows[j].seq
                      \/ rows[i].seq = rows[j].seq /\ i < j
  IN  {o \in [1 .. Cardinality(DOMAIN rows) -> DOMAIN rows] :
         /\ {o[k] : k \in DOMAIN o} = DOMAIN rows
         /\ \A k, l \in DOMAIN o : k < l => Before(o[k], o[l])}

RestoreRow(m, id, row) ==
  IF row.other THEN [m EXCEPT !.other = id]
  ELSE LET t == [tokens |-> row.tokens, version |-> row.version,
                 seq |-> row.seq, alias |-> row.alias,
                 leaf |-> Leaf(m, row.tokens[1])]
       IN  [Descend(m, row.tokens) EXCEPT
              !.entries = Put(@, id, t),
              !.seq = IF row.seq >= @ THEN row.seq + 1 ELSE @]

Restore(rows, dict, o) ==
  LET replay[n \in 0 .. Cardinality(DOMAIN rows)] ==
        IF n = 0 THEN [NewTemplateMiner EXCEPT !.dict = dict]
        ELSE RestoreRow(replay[n - 1], o[n], rows[o[n]])
  IN  replay[Cardinality(DOMAIN rows)]

\* A crash forgets the miner, the staged rows and the exports in flight; the
\* next boot rebuilds the miner from the store before it accepts a line.
CrashAndRestore ==
  /\ tmCrashes < TmMaxCrashes
  /\ \E o \in RestoreOrders(tmStore.rows) : tm' = Restore(tmStore.rows, tmStore.dict, o)
  /\ tmExp' = [e \in TmExports |->
                 IF tmExp[e].st = "acked" THEN tmExp[e]
                 ELSE [st |-> "idle", line |-> <<>>, id |-> 0]]
  /\ tmGroup' = NoGroup
  /\ tmCrashes' = tmCrashes + 1
  /\ UNCHANGED <<tmStore, tmMines>>

TmNext ==
  \/ \E e \in TmExports, line \in Lines : MineAt(e, line)
  \/ \E es \in SUBSET TmExports : DrainPending(es)
  \/ CommitGroupOk
  \/ CommitGroupFails
  \/ CrashAndRestore

TmSpec == TmInit /\ [][TmNext]_tmVars

\* Type correctness.
TmTypeOK ==
  /\ \A id \in DOMAIN tm.entries : id \in Nat /\ tm.entries[id].seq \in 0 .. tm.seq
  /\ \A e \in TmExports : tmExp[e].line \in Lines /\ tmExp[e].id \in Nat
  /\ tmGroup.members \subseteq TmExports
  /\ tmMines \in 0 .. TmMaxMines /\ tmCrashes \in 0 .. TmMaxCrashes

-----------------------------------------------------------------------------
Covers(row, line) ==
  \/ row.other
  \/ /\ Len(row.tokens) = Len(line)
     /\ Similarity(row.tokens, line) = Len(line)

\* Every line whose export was acknowledged was counted under an identity that
\* the durable template table resolves, itself or through its alias, to a
\* pattern that covers the line (or to __other__).  DrainPending, CommitGroup
\* and Committed hand rows over while lines keep generalising them: a row lost
\* or rolled back in between breaks the bucket of an acknowledged line.
AckedLinesResolve ==
  \A e \in TmExports :
    tmExp[e].st = "acked" =>
      /\ tmExp[e].id \in DOMAIN tmStore.rows
      /\ LET row == tmStore.rows[tmExp[e].id]
         IN  Covers(IF row.alias = 0 THEN row ELSE tmStore.rows[row.alias],
                    tmExp[e].line)
=============================================================================
