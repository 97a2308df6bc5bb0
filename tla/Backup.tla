------------------------------- MODULE Backup -------------------------------
(***************************************************************************)
(* The process lifecycle around the durable owners, and the cold backup    *)
(* (main.go, shutdown.go, backup_cli.go, backup_verify.go,                 *)
(* internal/backup).                                                       *)
(*                                                                         *)
(* A runtime writes an active marker before it opens its owners and, after *)
(* a shutdown in which every one of its steps succeeded, turns the marker  *)
(* into a shutdown proof.  `backup create` is admitted on that proof and   *)
(* copies the owners one by one; `backup restore` verifies the bundle and  *)
(* publishes the copies one by one to fresh targets, compares them with    *)
(* the manifest and serves them once before it reports.  Every process may *)
(* die between any two of these steps.                                     *)
(*                                                                         *)
(* The contents of an owner are a number of rows and a version that every  *)
(* change moves; the inspections see rows, the digests of the sidecars see *)
(* everything.                                                             *)
(***************************************************************************)
EXTENDS Integers, Sequences, FiniteSets

CONSTANTS
  BkCandidates,         \* binaries, by version, commit and digest
  BkMaxRuntimes,        \* bound: starts of a runtime
  BkMaxWrites,          \* bound: changes of the durable owners
  BkMaxCommands,        \* bound: runs of create and of restore
  BkStartDuringCreate   \* may a runtime start while create copies?

ASSUME BkAssumption ==
  /\ BkMaxRuntimes \in Nat /\ BkMaxWrites \in Nat /\ BkMaxCommands \in Nat
  /\ BkStartDuringCreate \in BOOLEAN

VARIABLES
  bkConfig,   \* [adapter, mode, tls]: what decides the set of owners
  bkActive,   \* the active marker: the id of a runtime, 0 when there is none
  bkProof,    \* the shutdown proof: [id, cand], id 0 when there is none
  bkDisk,     \* durable owner -> its contents
  bkMemory,   \* points the tsdb accepted and has not flushed
  bkRuntime,  \* the serving process: [id, cand, pc, step, failed]
  bkCreate,   \* the create command: [pc, cand, proof, seen, copy]
  bkBundle,   \* the published bundle: [proof, copy, damaged], proof 0: none
  bkTarget,   \* restore target: owner -> contents, Absent or a partial file
  bkRestore,  \* the restore command: "idle", an owner, "end", "restored", ...
  bkCount,    \* [runtimes, writes, creates, restores, served] so far
  bkStopped   \* history: runtime -> the contents its shutdown ended with

bkVars == <<bkConfig, bkActive, bkProof, bkDisk, bkMemory, bkRuntime,
            bkCreate, bkBundle, bkTarget, bkRestore, bkCount, bkStopped>>
bkSource == <<bkActive, bkProof, bkDisk, bkMemory, bkRuntime, bkStopped>>

Empty == [rows |-> 0, ver |-> 0]
Absent == [rows |-> -1, ver |-> 0]     \* nothing at that path
Partial == [rows |-> -1, ver |-> 1]    \* a .restore.partial, or half a database

Kinds == <<"main", "aggregate", "dlq", "tls">>    \* in the order of capture

\* The owners a configuration has: no aggregate store in legacy mode, and a TLS
\* pair only when the process generates its own.
Owned == {"main", "dlq"} \cup (IF bkConfig.mode = "legacy" THEN {} ELSE {"aggregate"})
                         \cup (IF bkConfig.tls THEN {"tls"} ELSE {})

\* The owner that create and restore go on to after o: the next of Kinds there is.
Following(o) ==
  LET later == {i \in DOMAIN Kinds : Kinds[i] \in Owned /\ \E j \in 1 .. i - 1 : Kinds[j] = o}
  IN  IF later = {} THEN "end" ELSE Kinds[CHOOSE i \in later : \A j \in later : i <= j]

shutdownOwners ==
  <<"otlp_admission", "http", "pprof", "realtime", "ai", "ingest_pipeline",
    "aggregate_writer", "tsdb", "graphrag", "service_graph", "dlq",
    "disk_watchdog", "retention", "partitions", "tracer", "database_health",
    "boot_workers", "resource_registry", "aggregate_store", "main_database">>

\* The steps whose owner may write an owner's contents until it has stopped.
WritersOf(o) ==
  CASE o = "main" -> {"http", "ingest_pipeline", "tsdb", "graphrag", "dlq",
                      "retention", "partitions", "boot_workers",
                      "resource_registry"}
    [] o = "aggregate" -> {"aggregate_writer"}
    [] o = "dlq" -> {"ingest_pipeline", "dlq"}
    [] o = "tls" -> {}

NoRuntime == [id |-> 0, cand |-> 0, pc |-> "down", step |-> 0, failed |-> FALSE]
NoCopy == [o \in {"main", "aggregate", "dlq", "tls"} |-> Absent]
NoCreate == [pc |-> "idle", cand |-> 0, proof |-> 0, seen |-> NoCopy, copy |-> NoCopy]
NoBundle == [proof |-> 0, copy |-> NoCopy, damaged |-> FALSE]

BkInit ==
  /\ bkConfig \in [adapter : {"sqlite", "server"}, tls : BOOLEAN,
                   mode : {"legacy", "aggregate-shadow", "aggregate"}]
  /\ bkActive = 0 /\ bkProof = [id |-> 0, cand |-> 0]
  /\ bkDisk = [o \in {"main", "aggregate", "dlq", "tls"} |-> Empty]
  /\ bkMemory = 0
  /\ bkRuntime = NoRuntime /\ bkCreate = NoCreate /\ bkBundle = NoBundle
  /\ bkTarget = NoCopy /\ bkRestore = "idle"
  /\ bkCount = [runtimes |-> 0, writes |-> 0, creates |-> 0, restores |-> 0,
                served |-> 0]
  /\ bkStopped = [r \in 1 .. BkMaxRuntimes |-> NoCopy]

Counted(what) == bkCount' = [bkCount EXCEPT ![what] = @ + 1]

(* ------------------------------ the runtime ----------------------------- *)

CreateRuns == bkCreate.pc \notin {"idle", "failed"}

\* BeginRuntime: the active marker is renamed into place ...
MarkActive ==
  /\ bkRuntime.pc = "down" /\ bkCount.runtimes < BkMaxRuntimes
  /\ BkStartDuringCreate \/ ~CreateRuns
  /\ \E c \in BkCandidates :
       bkRuntime' = [NoRuntime EXCEPT !.id = bkCount.runtimes + 1,
                                      !.cand = c, !.pc = "marked"]
  /\ bkActive' = bkCount.runtimes + 1
  /\ Counted("runtimes")
  /\ UNCHANGED <<bkConfig, bkProof, bkDisk, bkMemory, bkCreate, bkBundle,
                 bkTarget, bkRestore, bkStopped>>

\* ... and the proof of the runtime before is removed.
DropProof ==
  /\ bkRuntime.pc = "marked"
  /\ bkProof' = [id |-> 0, cand |-> 0]
  /\ bkRuntime' = [bkRuntime EXCEPT !.pc = "begun"]
  /\ UNCHANGED <<bkConfig, bkActive, bkDisk, bkMemory, bkCreate, bkBundle,
                 bkTarget, bkRestore, bkCount, bkStopped>>

\* The owners are opened and their schemas checked; a missing TLS pair is
\* generated.
OpenOwners ==
  /\ bkRuntime.pc = "begun"
  /\ bkRuntime' = [bkRuntime EXCEPT !.pc = "up"]
  /\ bkDisk' = IF bkConfig.tls /\ bkDisk["tls"] = Empty
               THEN [bkDisk EXCEPT !["tls"] = [rows |-> 1, ver |-> 1]] ELSE bkDisk
  /\ UNCHANGED <<bkConfig, bkActive, bkProof, bkMemory, bkCreate, bkBundle,
                 bkTarget, bkRestore, bkCount, bkStopped>>

\* The step of the shutdown an owner stops in; it works until that step is done.
Stops(s) == CHOOSE i \in DOMAIN shutdownOwners : shutdownOwners[i] = s
Works(s) == bkRuntime.pc \in {"up", "stopping"} /\ bkRuntime.step < Stops(s)

Changed(d, o, rows) == [d EXCEPT ![o] = [rows |-> @.rows + rows, ver |-> @.ver + 1]]

\* A writer of the owner changes it: it inserts, it removes, or it updates rows
\* in place.
Write(o) ==
  /\ o \in Owned /\ \E s \in WritersOf(o) : Works(s)
  /\ bkCount.writes < BkMaxWrites
  /\ \E rows \in {-1, 0, 1} :
       /\ bkDisk[o].rows + rows >= 0
       /\ rows = 0 => bkDisk[o].rows > 0
       /\ bkDisk' = Changed(bkDisk, o, rows)
  /\ Counted("writes")
  /\ UNCHANGED <<bkConfig, bkActive, bkProof, bkMemory, bkRuntime, bkCreate,
                 bkBundle, bkTarget, bkRestore, bkStopped>>

\* The tsdb, which the aggregate mode retires, accepts a point while an
\* admission is open.
Accept ==
  /\ bkConfig.mode # "aggregate" /\ Works("http") /\ bkCount.writes < BkMaxWrites
  /\ bkMemory' = bkMemory + 1
  /\ Counted("writes")
  /\ UNCHANGED <<bkConfig, bkActive, bkProof, bkDisk, bkRuntime, bkCreate,
                 bkBundle, bkTarget, bkRestore, bkStopped>>

StopSignal ==
  /\ bkRuntime.pc = "up"
  /\ bkRuntime' = [bkRuntime EXCEPT !.pc = "stopping"]
  /\ UNCHANGED <<bkConfig, bkActive, bkProof, bkDisk, bkMemory, bkCreate,
                 bkBundle, bkTarget, bkRestore, bkCount, bkStopped>>

\* Mutant: the error of a step is logged and forgotten.
StepFailsForgotten ==
  /\ bkRuntime.pc = "stopping" /\ bkRuntime.step < Len(shutdownOwners)
  /\ bkRuntime' = [bkRuntime EXCEPT !.step = @ + 1]
  /\ UNCHANGED <<bkConfig, bkActive, bkProof, bkDisk, bkMemory, bkCreate,
                 bkBundle, bkTarget, bkRestore, bkCount, bkStopped>>

\* executeShutdown: a step fails or panics; the error is kept and the later
\* steps still run.
StepFails ==
  /\ bkRuntime.pc = "stopping" /\ bkRuntime.step < Len(shutdownOwners)
  /\ bkRuntime' = [bkRuntime EXCEPT !.step = @ + 1, !.failed = TRUE]
  /\ UNCHANGED <<bkConfig, bkActive, bkProof, bkDisk, bkMemory, bkCreate,
                 bkBundle, bkTarget, bkRestore, bkCount, bkStopped>>

\* A step succeeds; the one of the tsdb has flushed what its memory held.
StepSucceeds ==
  /\ bkRuntime.pc = "stopping" /\ bkRuntime.step < Len(shutdownOwners)
  /\ bkRuntime' = [bkRuntime EXCEPT !.step = @ + 1]
  /\ IF shutdownOwners[bkRuntime.step + 1] = "tsdb" /\ bkMemory > 0
     THEN /\ bkDisk' = Changed(bkDisk, "main", bkMemory)
          /\ bkMemory' = 0
     ELSE UNCHANGED <<bkDisk, bkMemory>>
  /\ UNCHANGED <<bkConfig, bkActive, bkProof, bkCreate, bkBundle, bkTarget,
                 bkRestore, bkCount, bkStopped>>

\* CompleteRuntime: all steps reported success, the marker is still this
\* runtime's, and the proof is renamed into place ...
WriteProof ==
  /\ bkRuntime.pc = "stopping" /\ bkRuntime.step = Len(shutdownOwners)
  /\ ~bkRuntime.failed /\ bkActive = bkRuntime.id
  /\ bkProof' = [id |-> bkRuntime.id, cand |-> bkRuntime.cand]
  /\ bkRuntime' = [bkRuntime EXCEPT !.pc = "proved"]
  /\ bkStopped' = [bkStopped EXCEPT ![bkRuntime.id] =
                     IF bkMemory > 0 THEN Changed(bkDisk, "main", bkMemory) ELSE bkDisk]
  /\ UNCHANGED <<bkConfig, bkActive, bkDisk, bkMemory, bkCreate, bkBundle,
                 bkTarget, bkRestore, bkCount>>

\* ... and the active marker removed.
DropMarker ==
  /\ bkRuntime.pc = "proved"
  /\ bkActive' = 0 /\ bkMemory' = 0 /\ bkRuntime' = NoRuntime
  /\ UNCHANGED <<bkConfig, bkProof, bkDisk, bkCreate, bkBundle, bkTarget,
                 bkRestore, bkCount, bkStopped>>

\* The process ends without a proof: killed, a fatal error, a spent shutdown
\* deadline, or a step that failed.
RuntimeExits ==
  /\ bkRuntime.pc # "down"
  /\ bkMemory' = 0 /\ bkRuntime' = NoRuntime
  /\ UNCHANGED <<bkConfig, bkActive, bkProof, bkDisk, bkCreate, bkBundle,
                 bkTarget, bkRestore, bkCount, bkStopped>>

(* ---------------------------- backup create ----------------------------- *)

\* loadShutdownProof: no marker, and a proof by this very binary.
CreateAdmitted ==
  /\ bkCreate.pc \in {"idle", "failed"} /\ bkBundle.proof = 0
  /\ bkCount.creates < BkMaxCommands
  /\ \E c \in BkCandidates :
       /\ bkActive = 0 /\ bkProof.id # 0 /\ bkProof.cand = c
       /\ bkCreate' = [NoCreate EXCEPT !.pc = "inspect", !.cand = c, !.proof = bkProof.id]
  /\ Counted("creates")
  /\ UNCHANGED <<bkConfig, bkSource, bkBundle, bkTarget, bkRestore>>

\* inspectMain and inspectAggregate take the fingerprints the copies are
\* compared with.
CreateInspect ==
  /\ bkCreate.pc = "inspect"
  /\ bkCreate' = [bkCreate EXCEPT !.pc = "main", !.seen = bkDisk]
  /\ UNCHANGED <<bkConfig, bkSource, bkBundle, bkTarget, bkRestore, bkCount>>

\* The dump of a server database; nothing compares it with the inspection.
CaptureDump ==
  /\ bkCreate.pc = "main" /\ bkConfig.adapter = "server"
  /\ bkCreate' = [bkCreate EXCEPT !.copy["main"] = bkDisk["main"], !.pc = Following("main")]
  /\ UNCHANGED <<bkConfig, bkSource, bkBundle, bkTarget, bkRestore, bkCount>>

\* compareMain and compareAggregate: the rows of every table, not their
\* contents.
Agrees(expected, actual) == expected.rows = actual.rows

\* A SQLite database is vacuumed into the staging directory and the copy
\* compared with the inspection.
CaptureSnapshot(o) ==
  /\ bkCreate.pc = o /\ o \in {"main", "aggregate"}
  /\ o = "main" => bkConfig.adapter = "sqlite"
  /\ bkCreate' = IF Agrees(bkCreate.seen[o], bkDisk[o])
                 THEN [bkCreate EXCEPT !.copy[o] = bkDisk[o], !.pc = Following(o)]
                 ELSE [NoCreate EXCEPT !.pc = "failed"]
  /\ UNCHANGED <<bkConfig, bkSource, bkBundle, bkTarget, bkRestore, bkCount>>

\* The files of the dead letter queue, and the generated TLS pair, are copied.
CaptureSidecar(o) ==
  /\ bkCreate.pc = o /\ o \in {"dlq", "tls"}
  /\ bkCreate' = [bkCreate EXCEPT !.copy[o] = bkDisk[o], !.pc = Following(o)]
  /\ UNCHANGED <<bkConfig, bkSource, bkBundle, bkTarget, bkRestore, bkCount>>

\* A capture fails, or the process dies; the .partial directory stays behind.
CreateFails ==
  /\ CreateRuns
  /\ bkCreate' = [NoCreate EXCEPT !.pc = "failed"]
  /\ UNCHANGED <<bkConfig, bkSource, bkBundle, bkTarget, bkRestore, bkCount>>

\* The manifest is written last and the staging directory renamed.
Publish ==
  /\ bkCreate.pc = "end"
  /\ bkBundle' = [proof |-> bkCreate.proof, copy |-> bkCreate.copy, damaged |-> FALSE]
  /\ bkCreate' = NoCreate
  /\ UNCHANGED <<bkConfig, bkSource, bkTarget, bkRestore, bkCount>>

(* ---------------------------- backup restore ---------------------------- *)

\* The medium of the bundle changes a byte of an artifact.
BundleRots ==
  /\ bkBundle.proof # 0 /\ ~bkBundle.damaged /\ bkRestore = "idle"
  /\ \E o \in Owned :
       bkBundle' = [bkBundle EXCEPT !.damaged = TRUE, !.copy[o].ver = @ + 100]
  /\ UNCHANGED <<bkConfig, bkSource, bkCreate, bkTarget, bkRestore, bkCount>>

\* Mutant: the digests of the artifacts are not compared.
BundleSoundAlways == bkBundle.proof # 0

\* loadAndVerifyBundle: a complete manifest whose artifacts have their digests.
BundleSound == bkBundle.proof # 0 /\ ~bkBundle.damaged

\* ensureFreshServerDatabase: not one table, so half an import is seen.
FreshServer == bkTarget["main"] = Absent

\* validateFreshTargets: nothing at any target.  A file that a restore that died
\* left beside a target is found only when that target's turn comes.
FreshTargets ==
  /\ \A o \in Owned : bkTarget[o] \in {Absent, Partial}
  /\ bkConfig.adapter = "server" => FreshServer

RestoreBegins ==
  /\ bkRestore \in {"idle", "failed"} /\ bkCount.restores < BkMaxCommands
  /\ BundleSound /\ FreshTargets
  /\ bkRestore' = "main"
  /\ Counted("restores")
  /\ UNCHANGED <<bkConfig, bkSource, bkCreate, bkBundle, bkTarget>>

\* The dump is imported into the empty server database.
ImportDump ==
  /\ bkRestore = "main" /\ bkConfig.adapter = "server" /\ FreshServer
  /\ bkTarget' = [bkTarget EXCEPT !["main"] = bkBundle.copy["main"]]
  /\ bkRestore' = Following("main")
  /\ UNCHANGED <<bkConfig, bkSource, bkCreate, bkBundle, bkCount>>

\* A SQLite database, or a directory of sidecars, is copied beside its target
\* and renamed, unless a copy of an earlier attempt lies there.
PublishCopy(o) ==
  /\ bkRestore = o
  /\ o = "main" => bkConfig.adapter = "sqlite"
  /\ IF bkTarget[o] = Absent
     THEN /\ bkTarget' = [bkTarget EXCEPT ![o] = bkBundle.copy[o]]
          /\ bkRestore' = Following(o)
     ELSE /\ bkRestore' = "failed"
          /\ UNCHANGED bkTarget
  /\ UNCHANGED <<bkConfig, bkSource, bkCreate, bkBundle, bkCount>>

\* The command dies or fails in the middle: what it published stays, and
\* possibly half of the target it was at.
RestoreFails ==
  /\ bkRestore \notin {"idle", "failed", "serving", "ready"}
  /\ bkRestore' = "failed"
  /\ \/ UNCHANGED bkTarget
     \/ /\ bkRestore \in Owned /\ bkTarget[bkRestore] = Absent
        /\ bkTarget' = [bkTarget EXCEPT ![bkRestore] = Partial]
  /\ UNCHANGED <<bkConfig, bkSource, bkCreate, bkBundle, bkCount>>

\* restoredSidecarArtifacts: every file by its digest.
SidecarsMatch == \A o \in Owned \cap {"dlq", "tls"} : bkTarget[o] = bkBundle.copy[o]

\* The restored databases are inspected and compared with the manifest.
RestoreVerified ==
  /\ bkRestore = "end"
  /\ bkRestore' = IF /\ \A o \in Owned \cap {"main", "aggregate"} :
                          Agrees(bkBundle.copy[o], bkTarget[o])
                     /\ SidecarsMatch
                  THEN "restored" ELSE "failed"
  /\ UNCHANGED <<bkConfig, bkSource, bkCreate, bkBundle, bkTarget, bkCount>>

\* verifyRestoredCandidate: this binary is started on the targets ...
CandidateStarts ==
  /\ bkRestore = "restored"
  /\ bkRestore' = "serving"
  /\ UNCHANGED <<bkConfig, bkSource, bkCreate, bkBundle, bkTarget, bkCount>>

\* ... as a whole runtime: it recovers and finalizes windows, purges, replays dead
\* letters, and flushes its registry when it stops ...
CandidateWrites(o) ==
  /\ bkRestore = "serving" /\ o \in Owned
  /\ bkCount.served < BkMaxWrites
  /\ \E rows \in {-1, 0, 1} :
       /\ bkTarget[o].rows + rows >= 0
       /\ rows = 0 => bkTarget[o].rows > 0
       /\ bkTarget' = Changed(bkTarget, o, rows)
  /\ Counted("served")
  /\ UNCHANGED <<bkConfig, bkSource, bkCreate, bkBundle, bkRestore>>

\* ... until it was ready, was interrupted and ended without error, or did not; the
\* report follows, and nothing looks at the targets again.
ReadinessProof ==
  /\ bkRestore = "serving"
  /\ bkRestore' \in {"ready", "failed"}
  /\ UNCHANGED <<bkConfig, bkSource, bkCreate, bkBundle, bkTarget, bkCount>>

BkNext ==
  \/ MarkActive \/ DropProof \/ OpenOwners
  \/ \E o \in {"main", "aggregate", "dlq"} : Write(o)
  \/ Accept \/ StopSignal \/ StepFails \/ StepSucceeds
  \/ WriteProof \/ DropMarker \/ RuntimeExits
  \/ CreateAdmitted \/ CreateInspect
  \/ CaptureDump \/ \E o \in Owned : CaptureSnapshot(o) \/ CaptureSidecar(o)
  \/ CreateFails \/ Publish
  \/ BundleRots \/ RestoreBegins
  \/ ImportDump \/ \E o \in Owned : PublishCopy(o)
  \/ RestoreFails \/ RestoreVerified \/ CandidateStarts
  \/ \E o \in {"main", "aggregate", "dlq"} : CandidateWrites(o)
  \/ ReadinessProof

BkSpec == BkInit /\ [][BkNext]_bkVars

\* Type correctness.
BkTypeOK ==
  /\ bkActive \in 0 .. BkMaxRuntimes /\ bkProof.id \in 0 .. BkMaxRuntimes
  /\ bkBundle.proof \in 0 .. BkMaxRuntimes /\ bkBundle.damaged \in BOOLEAN
  /\ \A o \in DOMAIN bkDisk : bkDisk[o].rows \in Nat /\ bkDisk[o].ver \in Nat
  /\ bkMemory \in 0 .. BkMaxWrites
  /\ bkRuntime.id \in 0 .. BkMaxRuntimes /\ bkRuntime.step \in 0 .. Len(shutdownOwners) + 1
  /\ bkCount.creates \in 0 .. BkMaxCommands /\ bkCount.restores \in 0 .. BkMaxCommands
  /\ bkCount.served \in 0 .. BkMaxWrites

(***************************************************************************)
(* What a restore has verified, and starts its candidate on, is the whole  *)
(* of one clean stop: in every target, what the owner held when the        *)
(* runtime named by the bundle's proof ended, the points its tsdb had      *)
(* accepted included, whatever failed or died in any attempt in between.   *)
(* Of the targets of a restore that has reported this cannot be said: the  *)
(* candidate has run on them.                                              *)
(***************************************************************************)
RestoredIsOneStop ==
  bkRestore = "restored" =>
    \A o \in Owned : bkTarget[o] = bkStopped[bkBundle.proof][o]

=============================================================================
