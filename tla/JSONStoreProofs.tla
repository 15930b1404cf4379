---------------------------- MODULE JSONStoreProofs ----------------------------
(***************************************************************************)
(* The history store keeps memory and file in agreement, tears no file and *)
(* loses no record it synced, for any jobs, runs, limits and failures, and *)
(* implements RunHistory.                                                  *)
(***************************************************************************)
EXTENDS JSONStore, RunRecordsProofs

\* The lists are in order and within the limit.
Fit(c, n) == \A j \in Job : Increasing(c[j]) /\ (n > 0 => Len(c[j]) <= n)

Busy == op.kind \in Kinds

AllAt == UNION {At[j] : j \in Job}

\* What an operation in progress is about to make of the cache.
Candidate ==
    Busy =>
        /\ up
        /\ ~(Size(op.all) > MaxSize)
        /\ Fit(op.all, maxN)
        /\ op.all = [cache EXCEPT ![op.job] = op.all[op.job]]
        /\ op.kind = "save" => /\ op.all[op.job] = Insert(cache[op.job], op.rec, maxN)
                               /\ op.rec \in AllAt
        /\ op.kind = "prune" => \E n \in PruneTo : op.all[op.job] = Pruned(cache[op.job], n)

\* Before the rename memory agrees with the file, after it the operation does.
Agreement ==
    /\ up => Fit(cache, maxN)
    /\ up /\ (Busy => op.phase = "temp") => cache = Loaded(file, maxN)
    /\ Busy /\ op.phase # "temp" => file = op.all

\* A power cut leaves one of the files there were, the last one alone once the
\* directory is synced; none of them lacks a record that was promised.
Durability ==
    /\ file \in survivors
    /\ Busy /\ op.phase = "synced" => survivors = {file}
    /\ AckedIsDurable

StoreInv == TypeOK /\ Candidate /\ Agreement /\ Durability

-----------------------------------------------------------------------------

\* An operation in progress is an Operation, and none is.
LEMMA BusyOp ==
    ASSUME TypeOK
    PROVE  /\ Busy => /\ op \in Operation /\ op.job \in Job /\ op.rec \in Nat
                      /\ op.all \in Contents /\ op.all[op.job] \in Seq(Nat) /\ op # Idle
           /\ ~Busy => op = Idle
<1>1. op \in Operation \/ op = Idle
  BY DEF TypeOK
<1>2. op = Idle => op.kind = "idle"
  BY DEF Idle
<1>3. op \in Operation => /\ op.kind \in Kinds /\ op.job \in Job /\ op.rec \in Nat
                          /\ op.all \in Contents
  BY DEF Operation
<1>4. op.job \in Job /\ op.all \in Contents => op.all[op.job] \in Seq(Nat)
  BY DEF Contents
<1>5. "idle" \notin Kinds
  BY DEF Kinds
<1> QED
  BY <1>1, <1>2, <1>3, <1>4, <1>5 DEF Busy

\* A file that is readable and not too large is its own content.
LEMMA ContentOfFile ==
    ASSUME NEW f \in Contents, ~(Size(f) > MaxSize)
    PROVE  Content(f) = f
<1>1. f \notin {NoFile, Corrupt}
  BY FileAssumption
<1> QED
  BY <1>1 DEF Content

\* Whatever the file is, what is read from it are lists.
LEMMA ContentTyped ==
    ASSUME NEW f \in Contents \cup {NoFile, Corrupt}
    PROVE  Content(f) \in Contents /\ \A j \in Job : Content(f)[j] \in Seq(Nat)
<1>1. Empty \in Contents
  <2>1. << >> \in Seq(Nat)
    BY EmptySeq
  <2> QED
    BY <2>1 DEF Empty, Contents
<1>2. Content(f) \in Contents
  BY <1>1 DEF Content
<1> QED
  BY <1>2 DEF Contents

\* loadLocked builds ordered lists within the limit, whatever the file holds ...
LEMMA LoadedFits ==
    ASSUME NEW f \in Contents \cup {NoFile, Corrupt}, NEW n \in Nat
    PROVE  /\ Loaded(f, n) \in Contents
           /\ Fit(Loaded(f, n), n)
           /\ \A j \in Job : ToSet(Loaded(f, n)[j]) = Newest(ToSet(Content(f)[j]), n)
<1>1. \A j \in Job : LET t == KeepLast(Sorted(Content(f)[j]), n)
                     IN  /\ t \in Seq(Nat) /\ Increasing(t) /\ (n > 0 => Len(t) <= n)
                         /\ ToSet(t) = Newest(ToSet(Content(f)[j]), n)
  BY ContentTyped, LoadFacts
<1>2. \A j \in Job : Loaded(f, n)[j] = KeepLast(Sorted(Content(f)[j]), n)
  BY DEF Loaded
<1>3. Loaded(f, n) \in Contents
  BY <1>1 DEF Loaded, Contents
<1> QED
  BY <1>1, <1>2, <1>3 DEF Fit

\* ... and leaves alone what is so already.
LEMMA LoadedFixed ==
    ASSUME NEW c \in Contents, NEW n \in Nat, Fit(c, n), ~(Size(c) > MaxSize)
    PROVE  Loaded(c, n) = c
<1>1. Content(c) = c
  BY ContentOfFile
<1>2. \A j \in Job : c[j] \in Seq(Nat)
  BY DEF Contents
<1>3. \A j \in Job : KeepLast(Sorted(c[j]), n) = c[j]
  BY <1>2, LoadFacts DEF Fit
<1>4. c = [j \in Job |-> c[j]]
  BY DEF Contents
<1> QED
  BY <1>1, <1>3, <1>4 DEF Loaded

\* Nothing but the limits and the files an operation began with.
LEMMA Bounds ==
    ASSUME TypeOK
    PROVE  /\ maxN \in Nat /\ file \in Contents \cup {NoFile, Corrupt}
           /\ cache \in Contents /\ \A j \in Job : cache[j] \in Seq(Nat)
           /\ \A f \in survivors : f \in Contents \cup {NoFile, Corrupt}
  BY DEF TypeOK, Contents

-----------------------------------------------------------------------------
(* One lemma for each kind of step. *)

\* What Begin hands to the file system keeps the invariant.
LEMMA BeginKeeps ==
    ASSUME StoreInv, up, op = Idle, NEW kind \in Kinds, NEW j \in Job, NEW rec \in Nat,
           NEW list \in Seq(Nat), Increasing(list), maxN > 0 => Len(list) <= maxN,
           kind = "save" => list = Insert(cache[j], rec, maxN) /\ rec \in AllAt,
           kind = "prune" => \E n \in PruneTo : list = Pruned(cache[j], n),
           used' \in [Job -> SUBSET Nat],
           Begin(kind, j, rec, [cache EXCEPT ![j] = list])
    PROVE  StoreInv'
<1> DEFINE all == [cache EXCEPT ![j] = list]
           new == [kind |-> kind, job |-> j, rec |-> rec, all |-> all,
                   done |-> 0, phase |-> "temp"]
<1>1. /\ op' = IF Size(all) > MaxSize THEN Idle ELSE new
      /\ up' = up /\ maxN' = maxN /\ cache' = cache /\ file' = file
      /\ survivors' = survivors /\ acked' = acked
  BY DEF Begin
<1>2. TypeOK /\ cache \in Contents /\ cache \in [Job -> Seq(Nat)]
  BY Bounds DEF StoreInv, Contents
<1>3. all \in Contents /\ all[j] = list
  BY <1>2 DEF Contents
<1>4. Fit(all, maxN)
  BY <1>2 DEF StoreInv, Agreement, Fit
<1> HIDE DEF all
<1>5. new \in Operation
  BY <1>3 DEF Operation, Steps
<1>6. TypeOK'
  BY <1>1, <1>2, <1>5 DEF TypeOK
<1>7. CASE op' = Idle
  <2>1. ~Busy /\ ~Busy'
    BY <1>7 DEF Busy, Idle, Kinds
  <2> QED
    BY <1>1, <1>6, <2>1 DEF StoreInv, Candidate, Agreement, Durability, AckedIsDurable
<1>8. CASE op' = new /\ ~(Size(all) > MaxSize)
  <2>1. /\ ~Busy /\ Busy'
        /\ op'.kind = kind /\ op'.job = j /\ op'.rec = rec /\ op'.all = all /\ op'.phase = "temp"
    BY <1>8 DEF Busy, Idle, Kinds
  <2>2. all = [cache EXCEPT ![j] = all[j]]
    BY <1>3 DEF all
  <2>3. Candidate'
    BY <1>1, <1>3, <1>4, <1>8, <2>1, <2>2 DEF Candidate
  <2>4. Agreement' /\ Durability'
    BY <1>1, <2>1 DEF StoreInv, Agreement, Durability, AckedIsDurable
  <2> QED
    BY <1>6, <2>3, <2>4 DEF StoreInv
<1> QED
  BY <1>1, <1>7, <1>8

\* SaveRun up to its write.
LEMMA BeginSaveKeeps ==
    ASSUME StoreInv, NEW j \in Job, NEW at \in At[j], BeginSave(j, at)
    PROVE  StoreInv'
<1> DEFINE list == Insert(cache[j], at, maxN)
<1>1. TypeOK /\ maxN \in Nat /\ cache[j] \in Seq(Nat)
  BY Bounds DEF StoreInv
<1>2. At[j] \subseteq Nat /\ at \in Nat /\ at \in AllAt
  BY FileAssumption DEF AllAt
<1>3. list \in Seq(Nat) /\ Increasing(list) /\ (maxN > 0 => Len(list) <= maxN)
  BY <1>1, <1>2, InsertFacts
<1>4. up /\ op = Idle /\ used' \in [Job -> SUBSET Nat]
  BY <1>1, <1>2 DEF BeginSave, TypeOK
<1>5. Begin("save", j, at, [cache EXCEPT ![j] = list])
  BY DEF BeginSave
<1> HIDE DEF list
<1> QED
  BY <1>2, <1>3, <1>4, <1>5, BeginKeeps DEF Kinds, list

\* Prune up to its write.
LEMMA BeginPruneKeeps ==
    ASSUME StoreInv, NEW j \in Job, NEW n \in PruneTo, BeginPrune(j, n)
    PROVE  StoreInv'
<1> DEFINE list == Pruned(cache[j], n)
<1>1. TypeOK /\ maxN \in Nat /\ cache[j] \in Seq(Nat) /\ n \in Nat
  BY Bounds, LimitAssumption DEF StoreInv
<1>2. up /\ op = Idle /\ used' \in [Job -> SUBSET Nat]
  BY <1>1 DEF BeginPrune, TypeOK
<1>3. Increasing(cache[j]) /\ (maxN > 0 => Len(cache[j]) <= maxN)
  BY <1>2 DEF StoreInv, Agreement, Fit
<1>4. list \in Seq(Nat) /\ Increasing(list) /\ Len(list) <= Len(cache[j])
  BY <1>1, <1>3, PrunedFacts
<1>5. Len(list) \in Nat /\ Len(cache[j]) \in Nat
  BY <1>1, <1>4, LenProperties
<1>6. Begin("prune", j, 0, [cache EXCEPT ![j] = list])
  BY DEF BeginPrune
<1>7. \E m \in PruneTo : list = Pruned(cache[j], m)
  OBVIOUS
<1> HIDE DEF list
<1>8. maxN > 0 => Len(list) <= maxN
  BY <1>1, <1>3, <1>4, <1>5
<1> QED
  BY <1>2, <1>4, <1>6, <1>7, <1>8, BeginKeeps DEF Kinds

\* A step on the temporary file.
LEMMA TempStepKeeps ==
    ASSUME StoreInv, TempStep
    PROVE  StoreInv'
<1>1. /\ Busy /\ op.phase = "temp" /\ op.done < Len(Steps) /\ op' = [op EXCEPT !.done = op.done + 1]
      /\ up' = up /\ maxN' = maxN /\ cache' = cache /\ file' = file
      /\ survivors' = survivors /\ used' = used /\ acked' = acked
  BY DEF TempStep, InTemp, Busy
<1>2. op \in Operation
  BY <1>1, BusyOp DEF StoreInv
<1>3. /\ op' \in Operation
      /\ op'.kind = op.kind /\ op'.job = op.job /\ op'.rec = op.rec /\ op'.all = op.all
      /\ op'.phase = op.phase
  BY <1>1, <1>2 DEF Operation, Steps
<1>4. TypeOK'
  BY <1>1, <1>3 DEF StoreInv, TypeOK
<1> QED
  BY <1>1, <1>3, <1>4 DEF StoreInv, Candidate, Agreement, Durability, AckedIsDurable, Busy

\* A failed step leaves memory and file as they were.
LEMMA TempFailsKeeps ==
    ASSUME StoreInv, TempFails
    PROVE  StoreInv'
<1>1. /\ Busy /\ op.phase = "temp" /\ op' = Idle
      /\ up' = up /\ maxN' = maxN /\ cache' = cache /\ file' = file
      /\ survivors' = survivors /\ used' = used /\ acked' = acked
  BY DEF TempFails, InTemp, Busy
<1>2. ~Busy'
  BY <1>1 DEF Busy, Idle, Kinds
<1>3. TypeOK'
  BY <1>1 DEF StoreInv, TypeOK
<1> QED
  BY <1>1, <1>2, <1>3 DEF StoreInv, Candidate, Agreement, Durability, AckedIsDurable

\* What the rename does: the file is the candidate, and so is what a power cut may
\* leave, because the data were synced.
LEMMA RenameEffect ==
    ASSUME TypeOK, Rename
    PROVE  /\ Busy /\ op.phase = "temp" /\ AfterCut = op.all
           /\ file' = op.all /\ survivors' = survivors \cup {op.all}
           /\ acked' = [j \in Job |-> acked[j] \cap ToSet(op.all[j])]
           /\ op' \in Operation /\ op'.kind = op.kind /\ op'.job = op.job /\ op'.rec = op.rec
           /\ op'.all = op.all /\ op'.phase = "renamed"
           /\ up' = up /\ maxN' = maxN /\ cache' = cache /\ used' = used
<1>1. /\ Busy /\ op.phase = "temp" /\ op.done = Len(Steps) /\ op' = [op EXCEPT !.phase = "renamed"]
      /\ file' = op.all /\ survivors' = survivors \cup {AfterCut}
      /\ acked' = [j \in Job |-> acked[j] \cap ToSet(op.all[j])]
      /\ up' = up /\ maxN' = maxN /\ cache' = cache /\ used' = used
  BY DEF Rename, InTemp, Busy
<1>2. op \in Operation
  BY <1>1, BusyOp
<1>3. op.done = 2 /\ Steps[1] = "write" /\ Steps[2] = "sync"
  BY <1>1 DEF Steps
<1>4. 1 \in 1 .. op.done /\ 2 \in 1 .. op.done
  BY <1>3
<1>5. Through("write") /\ Through("sync")
  BY <1>3, <1>4 DEF Through
<1>6. /\ op' \in Operation /\ op'.kind = op.kind /\ op'.job = op.job /\ op'.rec = op.rec
      /\ op'.all = op.all /\ op'.phase = "renamed"
  BY <1>1, <1>2 DEF Operation
<1> QED
  BY <1>1, <1>5, <1>6 DEF AfterCut

\* The rename keeps the invariant.
LEMMA RenameKeeps ==
    ASSUME StoreInv, Rename
    PROVE  StoreInv'
<1>1. /\ Busy /\ op.phase = "temp"
      /\ file' = op.all /\ survivors' = survivors \cup {op.all}
      /\ acked' = [j \in Job |-> acked[j] \cap ToSet(op.all[j])]
      /\ op' \in Operation /\ op'.kind = op.kind /\ op'.job = op.job /\ op'.rec = op.rec
      /\ op'.all = op.all /\ op'.phase = "renamed"
      /\ up' = up /\ maxN' = maxN /\ cache' = cache /\ used' = used
  BY RenameEffect DEF StoreInv
<1>2. op.all \in Contents /\ Busy'
  BY <1>1, BusyOp DEF StoreInv, Busy
<1>3. TypeOK'
  <2>1. acked' \in [Job -> SUBSET Nat]
    BY <1>1 DEF StoreInv, TypeOK
  <2> QED
    BY <1>1, <1>2, <2>1 DEF StoreInv, TypeOK
<1>4. Candidate' /\ Agreement'
  BY <1>1, <1>2 DEF StoreInv, Candidate, Agreement
<1>5. Content(op.all) = op.all
  BY <1>1, <1>2, ContentOfFile DEF StoreInv, Candidate
<1>6. AckedIsDurable'
  <2> SUFFICES ASSUME NEW j \in Job, NEW f \in survivors'
               PROVE  acked'[j] \subseteq ToSet(Content(f)[j])
    BY DEF AckedIsDurable
  <2>1. acked'[j] = acked[j] \cap ToSet(op.all[j])
    BY <1>1
  <2>2. CASE f \in survivors
    BY <2>1, <2>2 DEF StoreInv, Durability, AckedIsDurable
  <2>3. CASE f = op.all
    BY <1>5, <2>1, <2>3
  <2> QED
    BY <1>1, <2>2, <2>3
<1>7. Durability'
  BY <1>1, <1>6 DEF Durability
<1> QED
  BY <1>3, <1>4, <1>7 DEF StoreInv

\* The directory is synced, or that fails.
LEMMA SyncDirKeeps ==
    ASSUME StoreInv, SyncDir
    PROVE  StoreInv'
<1>1. /\ Busy /\ op.phase = "renamed"
      /\ \/ survivors' = {file} /\ op' = [op EXCEPT !.phase = "synced"]
         \/ survivors' = survivors /\ op' = [op EXCEPT !.phase = "unsynced"]
      /\ up' = up /\ maxN' = maxN /\ cache' = cache /\ file' = file
      /\ used' = used /\ acked' = acked
  BY DEF SyncDir, Busy
<1>2. op \in Operation
  BY <1>1, BusyOp DEF StoreInv
<1>3. /\ op' \in Operation /\ op'.phase \in {"synced", "unsynced"}
      /\ op'.phase = "synced" => survivors' = {file}
      /\ op'.kind = op.kind /\ op'.job = op.job /\ op'.rec = op.rec /\ op'.all = op.all
  BY <1>1, <1>2 DEF Operation
<1>4. Busy' /\ survivors' \subseteq survivors /\ file' \in survivors'
  BY <1>1, <1>3 DEF StoreInv, Durability, Busy
<1>5. TypeOK'
  BY <1>1, <1>3, <1>4 DEF StoreInv, TypeOK
<1>6. Candidate' /\ Agreement'
  BY <1>1, <1>3, <1>4 DEF StoreInv, Candidate, Agreement
<1>7. Durability'
  BY <1>1, <1>3, <1>4 DEF StoreInv, Durability, AckedIsDurable
<1> QED
  BY <1>5, <1>6, <1>7 DEF StoreInv

\* The cache becomes what the file has been since the rename.
LEMMA CommitKeeps ==
    ASSUME StoreInv, Commit
    PROVE  StoreInv'
<1>1. /\ Busy /\ op.phase \in {"synced", "unsynced"} /\ op' = Idle
      /\ cache' = [cache EXCEPT ![op.job] = op.all[op.job]]
      /\ acked' = IF op.phase = "unsynced" THEN acked
                  ELSE [acked EXCEPT ![op.job] =
                           acked[op.job] \cup ({op.rec} \cap ToSet(op.all[op.job]))]
      /\ up' = up /\ maxN' = maxN /\ file' = file /\ survivors' = survivors /\ used' = used
  BY DEF Commit, Busy
<1>2. /\ op.job \in Job /\ op.rec \in Nat /\ op.all \in Contents /\ ~Busy'
  BY <1>1, BusyOp DEF StoreInv, Busy, Idle, Kinds
<1>3. /\ cache' = op.all /\ file = op.all /\ maxN \in Nat /\ up
      /\ Fit(op.all, maxN) /\ ~(Size(op.all) > MaxSize)
  BY <1>1 DEF StoreInv, TypeOK, Candidate, Agreement
<1>4. Loaded(file, maxN) = op.all /\ Content(file) = op.all
  BY <1>2, <1>3, LoadedFixed, ContentOfFile
<1>5. TypeOK'
  <2>1. acked' \in [Job -> SUBSET Nat]
    <3>1. {op.rec} \cap ToSet(op.all[op.job]) \subseteq Nat
      BY <1>2
    <3> HIDE DEF ToSet
    <3> QED
      BY <1>1, <1>2, <3>1 DEF StoreInv, TypeOK
  <2> QED
    BY <1>1, <1>2, <1>3, <2>1 DEF StoreInv, TypeOK
<1>6. Candidate' /\ Agreement'
  BY <1>1, <1>2, <1>3, <1>4 DEF Candidate, Agreement
<1>7. AckedIsDurable'
  <2>1. CASE op.phase = "unsynced"
    BY <1>1, <2>1 DEF StoreInv, Durability, AckedIsDurable
  <2>2. CASE op.phase = "synced"
    <3> SUFFICES ASSUME NEW j \in Job
                 PROVE  acked'[j] \subseteq ToSet(op.all[j])
      <4>1. survivors' = {file}
        BY <1>1, <2>2 DEF StoreInv, Durability
      <4> QED
        BY <1>4, <4>1 DEF AckedIsDurable
    <3>1. acked[j] \subseteq ToSet(op.all[j])
      BY <1>3, <1>4 DEF StoreInv, Durability, AckedIsDurable
    <3>2. acked \in [Job -> SUBSET Nat]
      BY DEF StoreInv, TypeOK
    <3>3. acked'[j] = IF j = op.job THEN acked[j] \cup ({op.rec} \cap ToSet(op.all[j]))
                      ELSE acked[j]
      BY <1>1, <2>2, <3>2
    <3> QED
      BY <3>1, <3>3
  <2> QED
    BY <1>1, <2>1, <2>2
<1>8. Durability'
  BY <1>1, <1>2, <1>7 DEF StoreInv, Durability
<1> QED
  BY <1>5, <1>6, <1>8 DEF StoreInv

\* A start loads the file.
LEMMA OpenKeeps ==
    ASSUME StoreInv, Open
    PROVE  StoreInv'
<1>1. /\ ~up /\ up' = TRUE /\ maxN' \in Limits /\ cache' = Loaded(file, maxN')
      /\ file' = file /\ survivors' = survivors /\ op' = op /\ used' = used /\ acked' = acked
  BY DEF Open
<1>2. ~Busy /\ ~Busy'
  BY <1>1 DEF StoreInv, Candidate, Busy
<1>3. maxN' \in Nat /\ file \in Contents \cup {NoFile, Corrupt}
  BY <1>1, LimitAssumption DEF StoreInv, TypeOK
<1>4. Loaded(file, maxN') \in Contents /\ Fit(Loaded(file, maxN'), maxN')
  BY <1>3, LoadedFits
<1>5. TypeOK'
  BY <1>1, <1>3, <1>4 DEF StoreInv, TypeOK
<1> QED
  BY <1>1, <1>2, <1>4, <1>5 DEF StoreInv, Candidate, Agreement, Durability, AckedIsDurable

\* A crash or a power cut ends everything but the files.
LEMMA EndKeeps ==
    ASSUME StoreInv, Crash \/ PowerCut
    PROVE  StoreInv'
<1>1. /\ up' = FALSE /\ cache' = Empty /\ op' = Idle /\ maxN' = maxN /\ used' = used /\ acked' = acked
      /\ survivors' \subseteq survivors /\ file' \in survivors'
  BY DEF StoreInv, Durability, Crash, PowerCut
<1>2. ~Busy'
  BY <1>1 DEF Busy, Idle, Kinds
<1>3. Empty \in Contents
  <2>1. << >> \in Seq(Nat)
    BY EmptySeq
  <2> QED
    BY <2>1 DEF Empty, Contents
<1>4. TypeOK'
  BY <1>1, <1>3 DEF StoreInv, TypeOK
<1> QED
  BY <1>1, <1>2, <1>4 DEF StoreInv, Candidate, Agreement, Durability, AckedIsDurable

\* The store starts from any file.
LEMMA InitHolds ==
    ASSUME Init
    PROVE  StoreInv
<1>1. /\ ~up /\ up = FALSE /\ maxN \in Limits /\ cache = Empty /\ file \in InitialFiles
      /\ survivors = {file} /\ op = Idle
      /\ used = [j \in Job |-> ToSet(Content(file)[j])] /\ acked = used
  BY DEF Init
<1>2. file \in Contents \cup {NoFile, Corrupt}
  <2>1. UNION {At[j] : j \in Job} \subseteq Nat
    BY FileAssumption
  <2> DEFINE A == UNION {At[j] : j \in Job}
  <2>2. file \in [Job -> Seq(A)] \cup {NoFile, Corrupt}
    BY <1>1, FileAssumption
  <2> HIDE DEF A
  <2>3. \A t \in Seq(A) : t \in Seq(Nat)
    BY <2>1, SeqMonotonic DEF A
  <2> QED
    BY <2>2, <2>3 DEF Contents
<1>3. \A j \in Job : ToSet(Content(file)[j]) \subseteq Nat
  BY <1>2, ContentTyped, ElementsOf
<1>4. Empty \in Contents /\ ~Busy
  <2>1. << >> \in Seq(Nat)
    BY EmptySeq
  <2> QED
    BY <1>1, <2>1 DEF Empty, Contents, Busy, Idle, Kinds
<1>5. TypeOK
  <2>1. used \in [Job -> SUBSET Nat]
    BY <1>1, <1>3, Zenon
  <2> QED
    BY <1>1, <1>2, <1>4, <2>1, LimitAssumption DEF TypeOK
<1>6. Durability
  BY <1>1, <1>4 DEF Durability, AckedIsDurable
<1> QED
  BY <1>1, <1>4, <1>5, <1>6 DEF StoreInv, Candidate, Agreement

\* StoreInv is an invariant of the specification.
LEMMA StoreInvariant == Spec => []StoreInv
<1>1. Init => StoreInv
  BY InitHolds
<1>2. StoreInv /\ [Next]_vars => StoreInv'
  <2> SUFFICES ASSUME StoreInv, [Next]_vars PROVE StoreInv'
    OBVIOUS
  <2>1. CASE UNCHANGED vars
    BY <2>1 DEF vars, StoreInv, TypeOK, Candidate, Agreement, Durability, AckedIsDurable, Busy
  <2>2. ASSUME NEW j \in Job, NEW at \in At[j], BeginSave(j, at) PROVE StoreInv'
    BY <2>2, BeginSaveKeeps
  <2>3. ASSUME NEW j \in Job, NEW n \in PruneTo, BeginPrune(j, n) PROVE StoreInv'
    BY <2>3, BeginPruneKeeps
  <2> QED
    BY <2>1, <2>2, <2>3, OpenKeeps, EndKeeps, TempStepKeeps, TempFailsKeeps, RenameKeeps,
       SyncDirKeeps, CommitKeeps DEF Next
<1> QED
  BY <1>1, <1>2, PTL DEF Spec

-----------------------------------------------------------------------------

\* The variables keep their types.
THEOREM StoreTyped == Spec => []TypeOK
<1>1. StoreInv => TypeOK
  BY DEF StoreInv
<1> QED
  BY <1>1, StoreInvariant, PTL

\* The cache is oldest first and within the limit.
THEOREM CacheInOrder == Spec => []CacheOrdered
<1>1. ASSUME StoreInv PROVE CacheOrdered
  <2> SUFFICES ASSUME up, NEW j \in Job
               PROVE  /\ \A i, k \in DOMAIN cache[j] : i < k => cache[j][i] < cache[j][k]
                      /\ maxN > 0 => Len(cache[j]) <= maxN
    BY DEF CacheOrdered
  <2>1. Increasing(cache[j]) /\ (maxN > 0 => Len(cache[j]) <= maxN)
    BY <1>1 DEF StoreInv, Agreement, Fit
  <2>2. DOMAIN cache[j] = 1 .. Len(cache[j])
    BY <1>1, Bounds, LenProperties DEF StoreInv
  <2> QED
    BY <2>1, <2>2 DEF Increasing
<1> QED
  BY <1>1, StoreInvariant, PTL

\* Between operations the cache is what a restart would load.
THEOREM RestartAgrees == Spec => []RestartShowsTheSame
<1>1. StoreInv => RestartShowsTheSame
  BY DEF StoreInv, Agreement, RestartShowsTheSame, Busy, Idle, Kinds
<1> QED
  BY <1>1, StoreInvariant, PTL

\* No promised record is missing from what a power cut may leave.
THEOREM AckedStays == Spec => []AckedIsDurable
<1>1. StoreInv => AckedIsDurable
  BY DEF StoreInv, Durability
<1> QED
  BY <1>1, StoreInvariant, PTL

\* No step makes a torn file possible.
THEOREM NoTornFile == Spec => NeverTorn
<1>1. ASSUME StoreInv, [Next]_vars, Corrupt \in survivors' PROVE Corrupt \in survivors
  <2>1. CASE Rename
    <3>1. survivors' = survivors \cup {op.all} /\ op.all \in Contents
      BY <1>1, <2>1, RenameEffect, BusyOp DEF StoreInv
    <3> QED
      BY <1>1, <3>1, FileAssumption
  <2>2. CASE ~Rename
    <3>1. survivors' \subseteq survivors
      <4>1. CASE PowerCut \/ SyncDir
        BY <1>1, <4>1 DEF StoreInv, Durability, PowerCut, SyncDir
      <4>2. CASE UNCHANGED vars \/ Open \/ Crash \/ TempStep \/ TempFails \/ Commit
        BY <4>2 DEF vars, Open, Crash, TempStep, TempFails, Commit
      <4>3. ASSUME NEW j \in Job, NEW at \in At[j], BeginSave(j, at)
            PROVE  survivors' = survivors
        BY <4>3 DEF BeginSave, Begin
      <4>4. ASSUME NEW j \in Job, NEW n \in PruneTo, BeginPrune(j, n)
            PROVE  survivors' = survivors
        BY <4>4 DEF BeginPrune, Begin
      <4> QED
        BY <1>1, <2>2, <4>1, <4>2, <4>3, <4>4 DEF Next
    <3> QED
      BY <1>1, <3>1
  <2> QED
    BY <2>1, <2>2
<1>2. StoreInv /\ [Next]_vars => [(Corrupt \in survivors') => (Corrupt \in survivors)]_vars
  BY <1>1
<1> QED
  BY <1>2, StoreInvariant, PTL DEF Spec, NeverTorn

-----------------------------------------------------------------------------
(* The refinement of RunHistory. *)

\* The abstract history a file holds.
HistOf(f) == [j \in Job |-> ToSet(Content(f)[j])]

\* RunHistory counts as this module does.
LEMMA SameCount == \A S : History!Cardinality(S) = Cardinality(S)
  BY DEF History!Cardinality, Cardinality

\* RunHistory's newest records are KeepLast's.
LEMMA SameNewest ==
    ASSUME NEW S, NEW n
    PROVE  History!Recent(S, n) = Newest(S, n)
<1>1. \A a \in S : History!Cardinality({b \in S : b > a}) = Cardinality(Above(S, a))
  BY SameCount, Zenon DEF Above
<1>2. \A a : a \in History!Recent(S, n) <=> a \in Newest(S, n)
  BY <1>1, Zenon DEF History!Recent, Newest
<1> QED
  BY <1>2, Zenon

\* What an open store shows of a job is what it has in memory while memory and
\* file agree.
LEMMA ViewIsCache ==
    ASSUME TypeOK, cache = Loaded(file, maxN), NEW j \in Job
    PROVE  History!View(j) = ToSet(cache[j])
<1>1. ToSet(cache[j]) = Newest(ToSet(Content(file)[j]), maxN)
  BY Bounds, LoadedFits
<1>2. [i \in Job |-> ToSet(Content(file)[i])][j] = ToSet(Content(file)[j])
  OBVIOUS
<1> QED
  BY <1>1, <1>2, SameNewest DEF History!View

\* The rename is the abstract save or prune.
LEMMA RenameStores ==
    ASSUME StoreInv, Rename
    PROVE  History!Next
<1> DEFINE j == op.job
           S == ToSet(op.all[j])
<1>1. /\ Busy /\ op.phase = "temp" /\ file' = op.all /\ survivors' = survivors \cup {op.all}
      /\ up' = up /\ maxN' = maxN
  BY RenameEffect DEF StoreInv
<1>2. /\ TypeOK /\ j \in Job /\ op.rec \in Nat /\ op.all \in Contents /\ maxN \in Nat
      /\ cache \in Contents /\ \A i \in Job : cache[i] \in Seq(Nat)
  BY <1>1, BusyOp, Bounds DEF StoreInv
<1>3. /\ up /\ ~(Size(op.all) > MaxSize) /\ op.all = [cache EXCEPT ![j] = op.all[j]]
      /\ cache = Loaded(file, maxN)
  BY <1>1 DEF StoreInv, Candidate, Agreement
<1>4. Content(file') = op.all
  BY <1>1, <1>2, <1>3, ContentOfFile
<1>5. \A i \in Job : ToSet(op.all[i]) = IF i = j THEN S ELSE History!View(i)
  <2> TAKE i \in Job
  <2>1. CASE i = j
    BY <2>1
  <2>2. CASE i # j
    <3>1. op.all[i] = cache[i]
      BY <1>2, <1>3, <2>2 DEF Contents
    <3> QED
      BY <1>2, <1>3, <2>2, <3>1, ViewIsCache
  <2> QED
    BY <2>1, <2>2
<1>6. History!Store(j, S)
  <2>1. HistOf(file') = [i \in Job |-> IF i = j THEN S ELSE History!View(i)]
    BY <1>4, <1>5 DEF HistOf
  <2>2. {HistOf(f) : f \in survivors'} = {HistOf(f) : f \in survivors} \cup {HistOf(file')}
    BY <1>1
  <2> HIDE DEF S, j
  <2> QED
    BY <1>1, <1>3, <2>1, <2>2 DEF History!Store, HistOf
<1>7. CASE op.kind = "save"
  <2>1. op.all[j] = Insert(cache[j], op.rec, maxN) /\ op.rec \in AllAt
    BY <1>1, <1>7 DEF StoreInv, Candidate
  <2>2. S = Newest(ToSet(cache[j]) \cup {op.rec}, maxN)
    BY <1>2, <2>1, InsertNewest
  <2>3. S = History!Recent(History!View(j) \cup {op.rec}, maxN)
    BY <1>2, <1>3, <2>2, ViewIsCache, SameNewest
  <2> HIDE DEF S, j
  <2>4. History!Save(j, op.rec)
    BY <1>6, <2>3 DEF History!Save
  <2> QED
    BY <1>2, <2>1, <2>4 DEF History!Next, AllAt
<1>8. CASE op.kind = "prune"
  <2>1. PICK n \in PruneTo : op.all[j] = Pruned(cache[j], n)
    BY <1>1, <1>8 DEF StoreInv, Candidate
  <2>2. n \in Nat /\ Increasing(cache[j])
    BY <1>2, <1>3, LimitAssumption DEF StoreInv, Agreement, Fit
  <2>3. S = IF n = 0 THEN {} ELSE Newest(ToSet(cache[j]), n)
    BY <1>2, <2>1, <2>2, PrunedFacts
  <2>4. S = IF n = 0 THEN {} ELSE History!Recent(History!View(j), n)
    BY <1>2, <1>3, <2>3, ViewIsCache, SameNewest
  <2> HIDE DEF S, j
  <2>5. History!Prune(j, n)
    BY <1>6, <2>4 DEF History!Prune
  <2> QED
    BY <1>2, <2>5 DEF History!Next
<1> QED
  BY <1>1, <1>7, <1>8 DEF Busy, Kinds

\* The other steps open the history, end the process, settle or change nothing.
LEMMA OtherSteps ==
    ASSUME StoreInv, [Next]_vars, ~Rename
    PROVE  [History!Next]_(History!hvars)
<1>1. CASE Open
  <2>1. History!Open
    BY <1>1 DEF Open, History!Open
  <2> QED
    BY <2>1 DEF History!Next
<1>2. CASE Crash
  <2>1. History!Crash
    BY <1>2 DEF Crash, History!Crash
  <2> QED
    BY <2>1 DEF History!Next
<1>3. CASE PowerCut
  <2>1. file' \in survivors /\ survivors' = {file'} /\ up' = FALSE /\ maxN' = maxN
    BY <1>3 DEF PowerCut
  <2>2. History!PowerCut
    BY <2>1 DEF History!PowerCut
  <2> QED
    BY <2>2 DEF History!Next
<1>4. CASE SyncDir
  <2>1. CASE survivors' = {file}
    <3>1. file' = file /\ up' = up /\ maxN' = maxN
      BY <1>4 DEF SyncDir
    <3>2. History!Settle
      BY <2>1, <3>1 DEF History!Settle
    <3> QED
      BY <3>2 DEF History!Next
  <2>2. CASE survivors' = survivors
    BY <1>4, <2>2 DEF SyncDir, History!hvars
  <2> QED
    BY <1>4, <2>1, <2>2 DEF SyncDir
<1>5. CASE TempStep \/ TempFails \/ Commit \/ UNCHANGED vars
  BY <1>5 DEF TempStep, TempFails, Commit, vars, History!hvars
<1>6. ASSUME NEW j \in Job, NEW at \in At[j], BeginSave(j, at)
      PROVE  UNCHANGED History!hvars
  BY <1>6 DEF BeginSave, Begin, History!hvars
<1>7. ASSUME NEW j \in Job, NEW n \in PruneTo, BeginPrune(j, n)
      PROVE  UNCHANGED History!hvars
  BY <1>7 DEF BeginPrune, Begin, History!hvars
<1> QED
  BY <1>1, <1>2, <1>3, <1>4, <1>5, <1>6, <1>7 DEF Next

\* The store implements RunHistory: every step on memory, temporary file and
\* directory is one atomic change of the abstract history, or none.
THEOREM StoreRefines == Spec => ImplementsRunHistory
<1>1. Init => History!Init
  <2> SUFFICES ASSUME Init PROVE History!Init
    OBVIOUS
  <2>1. file \in InitialFiles /\ survivors = {file} /\ up = FALSE /\ maxN \in Limits
    BY DEF Init
  <2> DEFINE A == UNION {At[j] : j \in Job}
  <2>2. file \in [Job -> Seq(A)] \cup {NoFile, Corrupt}
    BY <2>1, FileAssumption
  <2>3. \A j \in Job : Content(file)[j] \in Seq(A)
    <3>1. << >> \in Seq(A)
      BY EmptySeq
    <3> HIDE DEF A
    <3> QED
      BY <2>2, <3>1 DEF Content, Empty
  <2> HIDE DEF A
  <2>4. \A j \in Job : ToSet(Content(file)[j]) \subseteq A
    BY <2>3, ElementsOf
  <2>5. [j \in Job |-> ToSet(Content(file)[j])] \in [Job -> SUBSET A]
    BY <2>4, Zenon
  <2>6. {[j \in Job |-> ToSet(Content(f)[j])] : f \in survivors}
            = {[j \in Job |-> ToSet(Content(file)[j])]}
    BY <2>1
  <2> QED
    BY <2>1, <2>5, <2>6 DEF History!Init, A
<1>2. StoreInv /\ [Next]_vars => [History!Next]_(History!hvars)
  BY RenameStores, OtherSteps
<1> QED
  BY <1>1, <1>2, StoreInvariant, PTL DEF Spec, ImplementsRunHistory, History!Spec
=============================================================================
