------------------------------- MODULE Migrate -------------------------------
(***************************************************************************)
(* The versioned migrations of the main database (internal/migrate):       *)
(* `migrate up`, `migrate baseline`, `migrate status` and the startup gate *)
(* of several processes against one database.                              *)
(*                                                                         *)
(* Each migration commits its statements and its ledger row in one locked  *)
(* transaction, but an inspection reads the ledger, the structure table by *)
(* table and the ledger again without a transaction, while a peer          *)
(* migrates.  The structure is its version; the columns, keys and indexes  *)
(* a version has, and the checksums of its ledger row, are left out.       *)
(***************************************************************************)
EXTENDS Integers, FiniteSets

CONSTANTS
  MgProcs,         \* processes
  MgRole(_),       \* "up", "gate", "status", or "baseline"
  CurrentVersion,  \* the version this binary knows
  MgBaseline,      \* the version of the release a baseline names
  MgFtsEnabled,    \* LOG_FTS_ENABLED on SQLite
  MgMaxFaults      \* bound: transactions that fail, processes that die

\* There is a migration, and the baseline is a version the migrations know.
ASSUME MgAssumption ==
  /\ CurrentVersion \in Nat /\ MgBaseline \in 1 .. CurrentVersion
  /\ MgFtsEnabled \in BOOLEAN /\ MgMaxFaults \in Nat

VARIABLES
  mgLedger,  \* -1: no ledger table; else the versions recorded
  mgSchema,  \* the version of the structure
  mgDirty,   \* the newest ledger row is dirty
  mgFts,     \* the full-text index exists
  mgProc,    \* process -> [pc, tries, read, half, out, recorded]
  mgFaults,
  mgFrom     \* the state the database started in

mgVars == <<mgLedger, mgSchema, mgDirty, mgFts, mgProc, mgFaults, mgFrom>>
mgDb == <<mgLedger, mgSchema, mgDirty, mgFts>>

Versions == 0 .. CurrentVersion

Fresh == [pc |-> "inspect", tries |-> 0, read |-> -1,
          half |-> 0, out |-> "none", recorded |-> FALSE]

\* A database nobody touched, one at a recorded version, a release from before
\* the ledger, one a newer binary migrated, or one with a dirty row.
MgInitWith(procs) ==
  /\ \E v \in Versions, kind \in {"managed", "unmanaged", "ahead", "dirty"} :
       /\ mgSchema = IF kind = "ahead" THEN CurrentVersion + 1 ELSE v
       /\ mgLedger = CASE kind = "managed"   -> IF v = 0 THEN -1 ELSE v
                       [] kind = "unmanaged" -> -1
                       [] kind = "ahead"     -> CurrentVersion + 1
                       [] kind = "dirty"     -> v
       /\ kind \in {"unmanaged", "dirty"} => v > 0
       /\ mgDirty = (kind = "dirty")
       /\ mgFrom = kind
  /\ mgFts = FALSE
  /\ mgProc = procs
  /\ mgFaults = 0

MgInit == MgInitWith([p \in MgProcs |-> Fresh])

Go(p, f) == mgProc' = [mgProc EXCEPT ![p] = f]

\* inspectOnce ends with a verdict; Inspect may still retry it.
Verdict(p, s) == Go(p, [mgProc[p] EXCEPT !.pc = "verdict", !.out = s])

-----------------------------------------------------------------------------
\* inspectOnce: is there a ledger, and what does it record?
ReadLedger(p) ==
  /\ mgProc[p].pc = "inspect"
  /\ LET r == [mgProc[p] EXCEPT !.read = mgLedger]
     IN  \/ mgLedger = -1 /\ Go(p, [r EXCEPT !.pc = "tables"])
         \/ /\ mgLedger # -1 /\ mgDirty
            /\ Go(p, [r EXCEPT !.pc = "verdict", !.out = "dirty"])
         \/ /\ mgLedger > CurrentVersion /\ ~mgDirty
            /\ Go(p, [r EXCEPT !.pc = "verdict", !.out = "ahead"])
         \/ /\ mgLedger \in Versions /\ ~mgDirty
            /\ Go(p, [r EXCEPT !.pc = "validate", !.half = 0])
  /\ UNCHANGED <<mgDb, mgFaults, mgFrom>>

\* No ledger was there: are there tables?
CountTables(p) ==
  /\ mgProc[p].pc = "tables"
  /\ Verdict(p, IF mgSchema = 0 THEN "empty" ELSE "unmanaged")
  /\ UNCHANGED <<mgDb, mgFaults, mgFrom>>

\* validateSchema reads the structure in several queries, here two halves, and
\* compares it with the version the ledger recorded.
ValidateSchema(p) ==
  /\ mgProc[p].pc = "validate"
  /\ \/ /\ mgSchema # mgProc[p].read
        /\ Verdict(p, "incompatible")
     \/ /\ mgSchema = mgProc[p].read /\ mgProc[p].half = 0
        /\ Go(p, [mgProc[p] EXCEPT !.half = 1])
     \/ /\ mgSchema = mgProc[p].read /\ mgProc[p].half = 1
        /\ Verdict(p, IF mgProc[p].read < CurrentVersion THEN "behind"
                      ELSE "exact")
  /\ UNCHANGED <<mgDb, mgFaults, mgFrom>>

\* Where a process goes with its verdict.
After(p, out) ==
  CASE MgRole(p) = "up" ->
         IF out = "exact" THEN IF MgFtsEnabled THEN "fts" ELSE "done"
         ELSE IF out \in {"empty", "behind"} THEN "apply" ELSE "refused"
    [] MgRole(p) = "baseline" ->
         IF mgProc[p].recorded THEN "done"
         ELSE IF out = "unmanaged" THEN "precheck" ELSE "refused"
    [] MgRole(p) = "gate" ->
         IF out # "exact" THEN "refused"
         ELSE IF MgFtsEnabled THEN "checkfts" ELSE "done"
    [] OTHER -> "done"

\* Mutant: the ledger is not read again.
StableAlways(p) == TRUE

\* The ledger still is what the verdict was derived from.
Stable(p) == mgLedger = mgProc[p].read

\* Inspect: a verdict counts when the ledger did not move; otherwise inspect
\* again, one more time than a peer can move it plus one.
Inspected(p) ==
  /\ mgProc[p].pc = "verdict"
  /\ LET s == mgProc[p]
     IN  \/ Stable(p) /\ Go(p, [s EXCEPT !.pc = After(p, s.out), !.tries = 0])
         \/ /\ ~Stable(p) /\ s.tries + 1 < CurrentVersion + 2
            /\ Go(p, [s EXCEPT !.pc = "inspect", !.tries = @ + 1])
         \/ /\ ~Stable(p) /\ s.tries + 1 = CurrentVersion + 2
            /\ Go(p, [s EXCEPT !.pc = "refused", !.out = "gave up"])
  /\ UNCHANGED <<mgDb, mgFaults, mgFrom>>

\* RequireExact, after an exact verdict: without the full-text index the state it
\* reports is incompatible, and the startup is refused.
CheckFts(p) ==
  /\ mgProc[p].pc = "checkfts"
  /\ Go(p, IF mgFts THEN [mgProc[p] EXCEPT !.pc = "done"]
           ELSE [mgProc[p] EXCEPT !.pc = "refused", !.out = "incompatible"])
  /\ UNCHANGED <<mgDb, mgFaults, mgFrom>>

\* applyNext: under the lock the ledger is read again; the next version's
\* statements and its row commit together.  Then Up inspects once more.
ApplyNext(p) ==
  /\ mgProc[p].pc = "apply"
  /\ \/ /\ mgDirty \/ mgLedger > CurrentVersion
        /\ Go(p, [mgProc[p] EXCEPT !.pc = "refused"])
        /\ UNCHANGED <<mgLedger, mgSchema>>
     \/ /\ mgLedger = -1 /\ mgSchema # 0
        /\ Go(p, [mgProc[p] EXCEPT !.pc = "refused"])
        /\ UNCHANGED <<mgLedger, mgSchema>>
     \/ /\ ~mgDirty /\ mgLedger = CurrentVersion
        /\ Go(p, [mgProc[p] EXCEPT !.pc = "inspect"])
        /\ UNCHANGED <<mgLedger, mgSchema>>
     \/ /\ ~mgDirty /\ mgLedger < CurrentVersion
        /\ mgLedger = -1 => mgSchema = 0
        /\ mgLedger' = (IF mgLedger = -1 THEN 0 ELSE mgLedger) + 1
        /\ mgSchema' = mgSchema + 1
        /\ Go(p, [mgProc[p] EXCEPT !.pc = "inspect"])
  /\ UNCHANGED <<mgDirty, mgFts, mgFaults, mgFrom>>

\* Up on SQLite with full-text search: a further locked transaction.
EnsureFts(p) ==
  /\ mgProc[p].pc = "fts"
  /\ mgLedger = CurrentVersion /\ ~mgDirty
  /\ mgFts' = TRUE
  /\ Go(p, [mgProc[p] EXCEPT !.pc = "done"])
  /\ UNCHANGED <<mgLedger, mgSchema, mgDirty, mgFaults, mgFrom>>

\* Baseline checks the structure before it takes the lock...
BaselinePrecheck(p) ==
  /\ mgProc[p].pc = "precheck"
  /\ Go(p, [mgProc[p] EXCEPT !.pc = IF mgSchema = MgBaseline THEN "record"
                                    ELSE "refused"])
  /\ UNCHANGED <<mgDb, mgFaults, mgFrom>>

\* countOwnedTables: six tables up to version 4, then those of the PromQL series
\* and of the topology.
OwnedTables(v) == IF v = 0 THEN 0 ELSE IF v < 5 THEN 6 ELSE IF v = 5 THEN 8 ELSE 10

\* ... and under it only that no row was recorded and that the tables are as many.
BaselineRecord(p) ==
  /\ mgProc[p].pc = "record"
  /\ IF mgLedger = -1 /\ OwnedTables(mgSchema) = OwnedTables(MgBaseline)
     THEN /\ mgLedger' = MgBaseline
          /\ Go(p, [mgProc[p] EXCEPT !.pc = "verify", !.recorded = TRUE])
     ELSE /\ Go(p, [mgProc[p] EXCEPT !.pc = "refused"])
          /\ UNCHANGED mgLedger
  /\ UNCHANGED <<mgSchema, mgDirty, mgFts, mgFaults, mgFrom>>

\* Then the fingerprint of the structure must be the one from before the lock;
\* a peer's migration in between fails the baseline it followed.
BaselineVerify(p) ==
  /\ mgProc[p].pc = "verify"
  /\ Go(p, [mgProc[p] EXCEPT !.pc = IF mgSchema = MgBaseline THEN "inspect"
                                    ELSE "refused"])
  /\ UNCHANGED <<mgDb, mgFaults, mgFrom>>

\* A statement fails and the transaction rolls back, or the process dies.
Fails(p) ==
  /\ mgProc[p].pc \notin {"done", "refused", "dead"}
  /\ mgFaults < MgMaxFaults
  /\ mgFaults' = mgFaults + 1
  /\ Go(p, [mgProc[p] EXCEPT !.pc = "dead"])
  /\ UNCHANGED <<mgDb, mgFrom>>

MgNext ==
  \E p \in MgProcs :
    \/ ReadLedger(p) \/ CountTables(p) \/ ValidateSchema(p) \/ Inspected(p)
    \/ CheckFts(p) \/ ApplyNext(p) \/ EnsureFts(p)
    \/ BaselinePrecheck(p) \/ BaselineRecord(p) \/ BaselineVerify(p)
    \/ Fails(p)

MgSpec == MgInit /\ [][MgNext]_mgVars

\* Type correctness.
MgTypeOK ==
  /\ mgLedger \in -1 .. CurrentVersion + 1 /\ mgSchema \in 0 .. CurrentVersion + 1
  /\ mgDirty \in BOOLEAN /\ mgFts \in BOOLEAN
  /\ \A p \in MgProcs : /\ mgProc[p].read \in -1 .. CurrentVersion + 1
                        /\ mgProc[p].recorded \in BOOLEAN
  /\ mgFaults \in 0 .. MgMaxFaults

-----------------------------------------------------------------------------
\* A startup gate that came between a peer's last migration and its full-text
\* transaction: refused as incompatible on a database that only waits for its index.
IndexPending(p) ==
  /\ MgRole(p) = "gate" /\ MgFtsEnabled
  /\ mgProc[p].pc = "refused" /\ mgProc[p].out = "incompatible"
  /\ mgProc[p].read = CurrentVersion

\* On a database that is empty or at a recorded version, whatever peers are
\* migrating it and dying half way, no inspection calls it unmanaged or
\* incompatible or gives up, and only the startup gate refuses: before the
\* migrations have finished, or, as incompatible, before the index is there.
MigratingIsNotDamage ==
  mgFrom = "managed" =>
    \A p \in MgProcs :
      /\ mgProc[p].pc \in {"done", "refused"} =>
           mgProc[p].out \in {"empty", "behind", "exact"} \/ IndexPending(p)
      /\ mgProc[p].pc = "refused" => MgRole(p) \in {"gate", "baseline"}
=============================================================================
