------------------------------ MODULE JSONStore ------------------------------
(***************************************************************************)
(* The file-backed job history of internal/storage/json.go: an in-memory   *)
(* cache in front of one JSON file, rewritten as a whole by every SaveRun  *)
(* and Prune through a temporary file (create, write, chmod, sync, close,  *)
(* rename, sync the directory).  Any step may fail; the process may crash  *)
(* and the power may be cut between any two.  The store's mutex is held    *)
(* over a whole operation, so operations do not interleave and readers see *)
(* the cache only between them.                                            *)
(*                                                                         *)
(* The file system: a write is visible to other processes at once, but     *)
(* survives a power cut only when synced; after a rename a power cut may   *)
(* leave the old file or the new one until the directory is synced.        *)
(*                                                                         *)
(* Simplifications.  The size of a file is its number of records.  Errors  *)
(* of opening or reading the file make main exit before the store exists,  *)
(* so they change nothing.  A temporary file left by a crash is never read *)
(* and is not tracked.                                                     *)
(***************************************************************************)
EXTENDS RunRecords

CONSTANTS
    Job,
    At,             \* the StartedAt of the runs of each job
    Limits,         \* values of JobHistoryMax across restarts, 0 for no limit
    PruneTo,        \* the keepN that Prune is called with
    MaxSize,        \* maxHistoryFileSize, in records
    InitialFiles,   \* what the history file may be before the first start
    NoFile,         \* the history file does not exist
    Corrupt,        \* the history file is not the JSON of a list of records
    DirSyncMayFail  \* whether syncing the directory may fail

Contents == [Job -> Seq(Nat)]

ASSUME LimitAssumption == Limits \subseteq Nat /\ PruneTo \subseteq Nat /\ MaxSize \in Nat
ASSUME FileAssumption ==
    /\ DirSyncMayFail \in BOOLEAN
    /\ At \in [Job -> SUBSET Nat]
    /\ {NoFile, Corrupt} \cap Contents = {}
    /\ NoFile # Corrupt
    /\ InitialFiles \subseteq [Job -> Seq(UNION {At[j] : j \in Job})] \cup {NoFile, Corrupt}

VARIABLES
    up,         \* a process has the store open
    maxN,       \* s.maxN
    cache,      \* s.records
    file,       \* the history file, as a process sees it
    survivors,  \* the history files a power cut may leave
    op,         \* the operation in progress
    used,       \* history: the records SaveRun was called with
    acked       \* history: the records SaveRun synced and promised to keep

vars == <<up, maxN, cache, file, survivors, op, used, acked>>

Empty == [j \in Job |-> << >>]
Idle == [kind |-> "idle"]
Kinds == {"save", "prune"}

\* Mutant of Steps: the data is not synced before the rename.
StepsUnsynced == <<"write">>

\* writeLocked's steps on the temporary file that matter to what is on disk, in
\* order.  The others (MkdirAll, CreateTemp, Chmod, Close) can only fail.
Steps == <<"write", "sync">>

Operation ==
    [kind : Kinds, job : Job, rec : Nat, all : Contents, done : 0 .. Len(Steps),
     phase : {"temp", "renamed", "synced", "unsynced"}]

TypeOK ==
    /\ up \in BOOLEAN
    /\ maxN \in Nat
    /\ cache \in Contents
    /\ file \in Contents \cup {NoFile, Corrupt}
    /\ survivors \subseteq Contents \cup {NoFile, Corrupt}
    /\ op \in Operation \cup {Idle}
    /\ used \in [Job -> SUBSET Nat]
    /\ acked \in [Job -> SUBSET Nat]

-----------------------------------------------------------------------------
(* Reading the file *)

Size(c) == Cardinality(UNION {{j} \X DOMAIN c[j] : j \in Job})

\* What loadLocked finds in a file: a missing, corrupt or oversized one counts
\* as empty.
Content(f) ==
    IF f \in {NoFile, Corrupt} THEN Empty
    ELSE IF Size(f) > MaxSize THEN Empty ELSE f

\* The cache loadLocked builds, sorted and cut to the limit.
Loaded(f, n) == [j \in Job |-> KeepLast(Sorted(Content(f)[j]), n)]

Init ==
    /\ up = FALSE
    /\ maxN \in Limits
    /\ cache = Empty
    /\ file \in InitialFiles
    /\ survivors = {file}
    /\ op = Idle
    /\ used = [j \in Job |-> ToSet(Content(file)[j])]
    /\ acked = used

-----------------------------------------------------------------------------
(* The process *)

\* NewJSONStore: main opens the store with the limit of its configuration.
Open ==
    /\ ~up
    /\ up' = TRUE
    /\ maxN' \in Limits
    /\ cache' = Loaded(file, maxN')
    /\ UNCHANGED <<file, survivors, op, used, acked>>

\* The process is killed; its memory is gone, the file system is not.
Crash ==
    /\ up
    /\ up' = FALSE
    /\ cache' = Empty
    /\ op' = Idle
    /\ UNCHANGED <<maxN, file, survivors, used, acked>>

\* The power is cut.
PowerCut ==
    /\ up' = FALSE
    /\ cache' = Empty
    /\ op' = Idle
    /\ file' \in survivors
    /\ survivors' = {file'}
    /\ UNCHANGED <<maxN, used, acked>>

-----------------------------------------------------------------------------
(* SaveRun and Prune *)

\* writeLocked up to its size check, which refuses to write and returns an
\* error.
Begin(kind, j, rec, all) ==
    /\ op' = IF Size(all) > MaxSize THEN Idle
             ELSE [kind |-> kind, job |-> j, rec |-> rec, all |-> all,
                   done |-> 0, phase |-> "temp"]
    /\ UNCHANGED <<up, maxN, cache, file, survivors, acked>>

\* SaveRun of a run that ended; a run is saved once.
BeginSave(j, at) ==
    /\ up
    /\ op = Idle
    /\ at \in At[j] \ used[j]
    /\ used' = [used EXCEPT ![j] = @ \cup {at}]
    /\ Begin("save", j, at, [cache EXCEPT ![j] = Insert(@, at, maxN)])

BeginPrune(j, keepN) ==
    /\ up
    /\ op = Idle
    /\ Begin("prune", j, 0, [cache EXCEPT ![j] = Pruned(@, keepN)])
    /\ UNCHANGED used

InTemp == op.kind \in Kinds /\ op.phase = "temp"

\* Mutant of TempStep: it writes on to the closed file.
TempStepPastClose ==
    /\ InTemp
    /\ op' = [op EXCEPT !.done = @ + 1]
    /\ UNCHANGED <<up, maxN, cache, file, survivors, used, acked>>

\* The next step on the temporary file succeeds.
TempStep ==
    /\ InTemp
    /\ op.done < Len(Steps)
    /\ op' = [op EXCEPT !.done = @ + 1]
    /\ UNCHANGED <<up, maxN, cache, file, survivors, used, acked>>

\* Mutant of TempFails: SaveRun updates the cache before it writes.
TempFailsCacheAhead ==
    /\ InTemp
    /\ op' = Idle
    /\ cache' = op.all
    /\ UNCHANGED <<up, maxN, file, survivors, used, acked>>

\* A step on the temporary file, or the rename, fails: the temporary file is
\* removed and the error returned; neither cache nor file has changed.
TempFails ==
    /\ InTemp
    /\ op' = Idle
    /\ UNCHANGED <<up, maxN, cache, file, survivors, used, acked>>

\* Whether the temporary file has been through a step.
Through(step) == \E i \in 1 .. op.done : Steps[i] = step

\* What a power cut leaves of the renamed file once the rename is durable.
AfterCut == IF Through("write") /\ Through("sync") THEN op.all ELSE Corrupt

\* Rename over the history file.  Records it leaves out are no longer kept.
Rename ==
    /\ InTemp
    /\ op.done = Len(Steps)
    /\ op' = [op EXCEPT !.phase = "renamed"]
    /\ file' = op.all
    /\ survivors' = survivors \cup {AfterCut}
    /\ acked' = [j \in Job |-> acked[j] \cap ToSet(op.all[j])]
    /\ UNCHANGED <<up, maxN, cache, used>>

\* Mutant of SyncDir: the directory is never synced.
SyncDirSkipped ==
    /\ op.kind \in Kinds
    /\ op.phase = "renamed"
    /\ op' = [op EXCEPT !.phase = "synced"]
    /\ UNCHANGED <<up, maxN, cache, file, survivors, used, acked>>

\* Sync the directory; a failure is logged only.
SyncDir ==
    /\ op.kind \in Kinds
    /\ op.phase = "renamed"
    /\ \/ survivors' = {file} /\ op' = [op EXCEPT !.phase = "synced"]
       \/ DirSyncMayFail /\ op' = [op EXCEPT !.phase = "unsynced"] /\ UNCHANGED survivors
    /\ UNCHANGED <<up, maxN, cache, file, used, acked>>

\* The operation updates the cache and returns nil.
Commit ==
    /\ op.kind \in Kinds
    /\ op.phase \in {"synced", "unsynced"}
    /\ op' = Idle
    /\ cache' = [cache EXCEPT ![op.job] = op.all[op.job]]
    /\ acked' = IF op.phase = "unsynced" THEN acked
                ELSE [acked EXCEPT ![op.job] = @ \cup ({op.rec} \cap ToSet(op.all[op.job]))]
    /\ UNCHANGED <<up, maxN, file, survivors, used>>

-----------------------------------------------------------------------------
Next ==
    \/ Open
    \/ Crash
    \/ PowerCut
    \/ \E j \in Job : \E at \in At[j] : BeginSave(j, at)
    \/ \E j \in Job, keepN \in PruneTo : BeginPrune(j, keepN)
    \/ TempStep
    \/ TempFails
    \/ Rename
    \/ SyncDir
    \/ Commit

Spec == Init /\ [][Next]_vars

-----------------------------------------------------------------------------
(* Properties *)

\* LatestRun and the pruning of SaveRun rely on the order of the cache: it is
\* oldest first and within the limit, whatever the order in which runs end and
\* whatever order and length the file had.
CacheOrdered ==
    up => \A j \in Job :
        /\ \A i, k \in DOMAIN cache[j] : i < k => cache[j][i] < cache[j][k]
        /\ maxN > 0 => Len(cache[j]) <= maxN

\* Between operations the API shows what it would show after a restart: no
\* failed write leaves a record that only memory knows, or only the file.
RestartShowsTheSame == up /\ op = Idle => cache = Loaded(file, maxN)

\* SPEC.md: "Atomic writes (temp + fsync + rename) help avoid partial writes":
\* no step makes a corrupt history file possible.
NeverTorn == [][(Corrupt \in survivors') => (Corrupt \in survivors)]_vars

\* A record SaveRun accepted survives a power cut until it is pruned, but for
\* those it accepted although syncing the directory failed; that failure costs
\* no record accepted earlier.
AckedIsDurable == \A j \in Job, f \in survivors : acked[j] \subseteq ToSet(Content(f)[j])

\* Every operation is one atomic change of the abstract history, also when it
\* fails, is cut short or crashes half-way.
History == INSTANCE RunHistory WITH
    hist <- [j \in Job |-> ToSet(Content(file)[j])],
    survivors <- {[j \in Job |-> ToSet(Content(f)[j])] : f \in survivors},
    At <- UNION {At[j] : j \in Job},
    limit <- maxN,
    open <- up
ImplementsRunHistory == History!Spec
=============================================================================
