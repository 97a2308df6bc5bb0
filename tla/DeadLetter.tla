------------------------------ MODULE DeadLetter ------------------------------
(***************************************************************************)
(* The dead letter queue (internal/queue/dlq.go): a directory of envelopes *)
(* bounded by count and bytes, oldest evicted first, and one replay worker *)
(* that walks a snapshot of the directory, releasing the lock around every *)
(* replay.  The retry counters live in memory, the files survive a crash.  *)
(*                                                                         *)
(* A file is numbered in creation order (the name carries the time) and    *)
(* holds one batch with a size; whether a backoff has elapsed is left open.*)
(***************************************************************************)
EXTENDS Naturals, Sequences, FiniteSets, FiniteSetsExt, Functions

CONSTANTS
    DlMaxFiles, DlMaxBytes,     \* maxFiles, maxDiskMB (0: unlimited)
    DlMaxRetries,               \* maxRetries (0: unlimited)
    DlMaxReplayPerTick,         \* SetMaxReplayPerTick (0: unlimited)
    DlBatches,                  \* batches offered by the standalone specification
    DlTicks,                    \* bound: replay ticks
    DlCrashes                   \* bound: restarts

VARIABLES
    dlFiles,        \* the directory, oldest first: [name, batch]
    dlRetries,      \* retries: name -> failed replays
    dlNext,         \* the next file name
    dlWalk,         \* processFiles: names of the snapshot still to visit
    dlCur,          \* the envelope being replayed, <<>> when none
    dlReplayed,     \* replayFn returned nil for dlCur, the file is not removed yet
    dlAttempts,     \* attempts in this tick
    dlEvicted,      \* batches evicted by enforceLimits (counted by dlq.evicted)
    dlDropped,      \* batches dropped after maxRetries
    dlRunning, dlTicks, dlCrashes,
    dlAccepted,     \* history: batches whose Enqueue returned nil
    rawStored       \* batches the database holds (shared with the pipeline)

ASSUME DlAssumption ==
    /\ DlMaxFiles \in Nat /\ DlMaxBytes \in Nat
    /\ \A b \in DlBatches : b.size \in Nat

dlVars == <<dlFiles, dlRetries, dlNext, dlWalk, dlCur, dlReplayed, dlAttempts,
            dlEvicted, dlDropped, dlRunning, dlTicks, dlCrashes>>

DlInit ==
    /\ dlFiles = <<>> /\ dlRetries = <<>> /\ dlNext = 1
    /\ dlWalk = <<>> /\ dlCur = <<>> /\ dlReplayed = FALSE /\ dlAttempts = 0
    /\ dlEvicted = {} /\ dlDropped = {}
    /\ dlRunning = TRUE /\ dlTicks = 0 /\ dlCrashes = 0

Names == {dlFiles[i].name : i \in DOMAIN dlFiles}
Position(name) == CHOOSE i \in DOMAIN dlFiles : dlFiles[i].name = name

\* The directory once os.Remove removed the file of that name, if there is one.
Without(name) ==
    IF name \notin Names THEN dlFiles
    ELSE [i \in 1 .. Len(dlFiles) - 1 |-> dlFiles[IF i < Position(name) THEN i ELSE i + 1]]

Retries(name) == IF name \in DOMAIN dlRetries THEN dlRetries[name] ELSE 0
Forget(names) == Restrict(dlRetries, DOMAIN dlRetries \ names)
FileSizes(files) == [i \in DOMAIN files |-> files[i].batch.size]
DirBytes(files) == MapThenSumSet(LAMBDA i : FileSizes(files)[i], DOMAIN files)

-------------------------------------------------------------------------------
(* Enqueue.                                                                *)

\* enforceLimits: how many of the oldest files make room for the incoming envelope.
OverLimits(files, b) ==
    \/ DlMaxFiles > 0 /\ Len(files) >= DlMaxFiles
    \/ DlMaxBytes > 0 /\ DirBytes(files) + b.size > DlMaxBytes

Evictions(b) ==
    Min({i \in 0 .. Len(dlFiles) :
           i = Len(dlFiles) \/ ~OverLimits(SubSeq(dlFiles, i + 1, Len(dlFiles)), b)})

EvictOldest(k) ==
    /\ dlEvicted' = dlEvicted \cup {dlFiles[i].batch : i \in 1 .. k}
    /\ dlRetries' = Forget({dlFiles[i].name : i \in 1 .. k})

\* Enqueue: evict, create, write, fsync; an error at any point leaves no file behind but
\* keeps the evictions already made.  An envelope larger than the limit evicts nothing.
Enqueue(b) ==
    LET k == Evictions(b) IN
    /\ DlMaxBytes > 0 => b.size <= DlMaxBytes
    /\ EvictOldest(k)
    /\ dlFiles' = Append(SubSeq(dlFiles, k + 1, Len(dlFiles)), [name |-> dlNext, batch |-> b])
    /\ dlNext' = dlNext + 1
    /\ UNCHANGED <<dlWalk, dlCur, dlReplayed, dlAttempts, dlDropped, dlRunning, dlTicks, dlCrashes>>

EnqueueFails(b) ==
    LET most == IF DlMaxBytes > 0 /\ b.size > DlMaxBytes THEN 0 ELSE Evictions(b) IN
    \E k \in 0 .. most :
        /\ EvictOldest(k)
        /\ dlFiles' = SubSeq(dlFiles, k + 1, Len(dlFiles))
        /\ UNCHANGED <<dlNext, dlWalk, dlCur, dlReplayed, dlAttempts, dlDropped, dlRunning,
                       dlTicks, dlCrashes>>

-------------------------------------------------------------------------------
(* The replay worker.                                                      *)

\* replayWorker: a tick reads the directory under the lock, then walks what it read.
ReplayTick ==
    /\ dlRunning /\ dlWalk = <<>> /\ dlCur = <<>>
    /\ dlFiles # <<>> /\ dlTicks < DlTicks
    /\ dlWalk' = [i \in DOMAIN dlFiles |-> dlFiles[i].name]
    /\ dlAttempts' = 0 /\ dlTicks' = dlTicks + 1
    /\ UNCHANGED <<dlFiles, dlRetries, dlNext, dlCur, dlReplayed, dlEvicted, dlDropped,
                   dlRunning, dlCrashes, rawStored>>

Visiting == dlWalk # <<>> /\ dlCur = <<>>
AtReplayCap == DlMaxReplayPerTick > 0 /\ dlAttempts >= DlMaxReplayPerTick
Exhausted(name) == DlMaxRetries > 0 /\ Retries(name) >= DlMaxRetries

\* The file has used up its retries: it is removed and forgotten.  A failing removal is not
\* noticed: the file stays, with its retries to begin anew.
DropExhausted ==
    /\ Visiting /\ ~AtReplayCap /\ Exhausted(Head(dlWalk))
    /\ \/ /\ dlDropped' = dlDropped \cup {dlFiles[i].batch : i \in {j \in DOMAIN dlFiles :
                                                                  dlFiles[j].name = Head(dlWalk)}}
          /\ dlFiles' = Without(Head(dlWalk))
       \/ UNCHANGED <<dlDropped, dlFiles>>
    /\ dlRetries' = Forget({Head(dlWalk)})
    /\ dlWalk' = Tail(dlWalk)
    /\ UNCHANGED <<dlNext, dlCur, dlReplayed, dlAttempts, dlEvicted, dlRunning, dlTicks,
                   dlCrashes, rawStored>>

\* The cap ends the tick; a backoff still running or a file evicted meanwhile is skipped.
SkipFile ==
    /\ Visiting
    /\ \/ AtReplayCap /\ dlWalk' = <<>>
       \/ /\ ~AtReplayCap /\ ~Exhausted(Head(dlWalk))
          /\ Retries(Head(dlWalk)) > 0 \/ Head(dlWalk) \notin Names
          /\ dlWalk' = Tail(dlWalk)
    /\ UNCHANGED <<dlFiles, dlRetries, dlNext, dlCur, dlReplayed, dlAttempts, dlEvicted,
                   dlDropped, dlRunning, dlTicks, dlCrashes, rawStored>>

\* ReadFile: from here on the worker holds the bytes, whatever happens to the file.
ReadFile ==
    /\ Visiting /\ ~AtReplayCap /\ ~Exhausted(Head(dlWalk)) /\ Head(dlWalk) \in Names
    /\ dlCur' = <<dlFiles[Position(Head(dlWalk))]>>
    /\ dlReplayed' = FALSE
    /\ dlAttempts' = dlAttempts + 1
    /\ dlWalk' = Tail(dlWalk)
    /\ UNCHANGED <<dlFiles, dlRetries, dlNext, dlEvicted, dlDropped, dlRunning, dlTicks,
                   dlCrashes, rawStored>>

\* Mutant: a file whose replay fails is removed at once.
ReplayFailsRemoves ==
    /\ dlCur # <<>> /\ ~dlReplayed
    /\ dlFiles' = Without(dlCur[1].name)
    /\ dlRetries' = Forget({dlCur[1].name})
    /\ dlCur' = <<>>
    /\ UNCHANGED <<dlNext, dlWalk, dlReplayed, dlAttempts, dlEvicted, dlDropped,
                   dlRunning, dlTicks, dlCrashes, rawStored>>

\* replayFn fails: one more retry, even when the file has been evicted since.
ReplayFails ==
    /\ dlCur # <<>> /\ ~dlReplayed
    /\ LET n == dlCur[1].name IN
       dlRetries' = [m \in DOMAIN dlRetries \cup {n} |-> IF m = n THEN Retries(n) + 1 ELSE dlRetries[m]]
    /\ dlCur' = <<>>
    /\ UNCHANGED <<dlFiles, dlNext, dlWalk, dlReplayed, dlAttempts, dlEvicted, dlDropped,
                   dlRunning, dlTicks, dlCrashes, rawStored>>

\* replayFn commits the batch in one transaction.
ReplayCommits ==
    /\ dlCur # <<>> /\ ~dlReplayed
    /\ rawStored' = rawStored \cup {dlCur[1].batch}
    /\ dlReplayed' = TRUE
    /\ UNCHANGED <<dlFiles, dlRetries, dlNext, dlWalk, dlCur, dlAttempts, dlEvicted, dlDropped,
                   dlRunning, dlTicks, dlCrashes>>

\* The replayed file is removed, or the removal fails and it will be replayed again.
RemoveReplayed ==
    /\ dlCur # <<>> /\ dlReplayed
    /\ \/ /\ dlCur[1].name \in Names
          /\ dlFiles' = Without(dlCur[1].name)
          /\ dlRetries' = Forget({dlCur[1].name})
       \/ UNCHANGED <<dlFiles, dlRetries>>
    /\ dlCur' = <<>> /\ dlReplayed' = FALSE
    /\ UNCHANGED <<dlNext, dlWalk, dlAttempts, dlEvicted, dlDropped, dlRunning, dlTicks,
                   dlCrashes, rawStored>>

\* Shutdown: the worker sees the stop channel between two ticks.
DlStop ==
    /\ dlRunning /\ dlWalk = <<>> /\ dlCur = <<>>
    /\ dlRunning' = FALSE
    /\ UNCHANGED <<dlFiles, dlRetries, dlNext, dlWalk, dlCur, dlReplayed, dlAttempts, dlEvicted,
                   dlDropped, dlTicks, dlCrashes, rawStored>>

\* A restart of the process: the files are fsynced, the counters and the walk are gone.
DlCrash ==
    /\ dlCrashes < DlCrashes
    /\ dlCrashes' = dlCrashes + 1
    /\ dlRetries' = <<>> /\ dlWalk' = <<>> /\ dlCur' = <<>> /\ dlReplayed' = FALSE
    /\ dlRunning' = TRUE
    /\ UNCHANGED <<dlFiles, dlNext, dlAttempts, dlEvicted, dlDropped, dlTicks>>

ReplayNext ==
    \/ ReplayTick \/ DropExhausted \/ SkipFile \/ ReadFile
    \/ ReplayFails \/ ReplayCommits \/ RemoveReplayed

\* The queue on its own: every batch is offered once, by whoever failed to store it.
DlOffer(b) ==
    /\ b \notin dlAccepted /\ rawStored' = rawStored
    /\ \/ Enqueue(b) /\ dlAccepted' = dlAccepted \cup {b}
       \/ EnqueueFails(b) /\ UNCHANGED dlAccepted

DlSpecInit == DlInit /\ rawStored = {} /\ dlAccepted = {}

DlNext ==
    \/ \E b \in DlBatches : DlOffer(b)
    \/ ReplayNext /\ UNCHANGED dlAccepted
    \/ DlStop /\ UNCHANGED dlAccepted
    \/ DlCrash /\ UNCHANGED <<rawStored, dlAccepted>>

DlSpec == DlSpecInit /\ [][DlNext]_<<dlVars, rawStored, dlAccepted>>

-------------------------------------------------------------------------------
\* Type correctness.
DlTypeOK ==
    /\ \A i \in DOMAIN dlFiles : dlFiles[i].name \in 1 .. dlNext
    /\ DOMAIN dlRetries \subseteq 1 .. dlNext
    /\ dlRunning \in BOOLEAN /\ dlReplayed \in BOOLEAN
    /\ Len(dlCur) <= 1 /\ dlTicks \in 0 .. DlTicks /\ dlCrashes \in 0 .. DlCrashes

\* An accepted envelope is never silently gone: over evictions, replays that fail, files whose
\* removal fails, retries that run out and restarts it is on disk, in the database, evicted
\* (and counted) or dropped after its retries, and the directory stays within its limits
\* with the oldest file first.
DlNothingVanishes ==
    /\ dlAccepted \subseteq {dlFiles[i].batch : i \in DOMAIN dlFiles}
                               \cup rawStored \cup dlEvicted \cup dlDropped
    /\ DlMaxFiles > 0 => Len(dlFiles) <= DlMaxFiles
    /\ DlMaxBytes > 0 => DirBytes(dlFiles) <= DlMaxBytes
    /\ \A i, j \in DOMAIN dlFiles : i < j => dlFiles[i].name < dlFiles[j].name
    /\ \A i \in DOMAIN dlCur : dlCur[i].name \in Names \/ dlCur[i].batch \in dlEvicted
===============================================================================
