--------------------------- MODULE SchedulerProofs ---------------------------
(***************************************************************************)
(* Proofs about Scheduler, for every value of its constants.               *)
(***************************************************************************)
EXTENDS Scheduler, SequenceTheorems, FiniteSetTheorems, WellFoundedInduction, TLAPS

\* A JobRun.
RunRec == [job : Job, status : Status]

-----------------------------------------------------------------------------
(* Lemmas about the operators of the model *)

\* The run heap after a new run is stamped.
LEMMA AppendRun ==
    ASSUME NEW j \in Job, NEW s \in Seq(RunRec)
    PROVE  /\ Append(s, NewRun(j)) \in Seq(RunRec)
           /\ DOMAIN Append(s, NewRun(j)) = DOMAIN s \cup {Len(s) + 1}
           /\ Len(s) + 1 \notin DOMAIN s
           /\ \A r \in DOMAIN s : Append(s, NewRun(j))[r] = s[r]
           /\ Append(s, NewRun(j))[Len(s) + 1] = NewRun(j)
<1>1. NewRun(j) \in RunRec
    BY DEF NewRun, RunRec, Status
<1>2. QED
    BY <1>1

\* The run heap after one run's status is set.
LEMMA SetStatus ==
    ASSUME NEW s \in Seq(RunRec), NEW r \in DOMAIN s, NEW st \in Status
    PROVE  /\ [s EXCEPT ![r].status = st] \in Seq(RunRec)
           /\ DOMAIN [s EXCEPT ![r].status = st] = DOMAIN s
           /\ \A q \in DOMAIN s :
                [s EXCEPT ![r].status = st][q] =
                    IF q = r THEN [job |-> s[r].job, status |-> st] ELSE s[q]
<1> DEFINE e == [s[r] EXCEPT !.status = st]
<1>1. s[r] \in RunRec
    BY ElementOfSeq, LenProperties
<1>2. e \in RunRec /\ e = [job |-> s[r].job, status |-> st]
    BY <1>1 DEF RunRec
<1>3. [s EXCEPT ![r].status = st] = [s EXCEPT ![r] = e]
    OBVIOUS
<1> HIDE DEF e
<1>4. r \in 1 .. Len(s) /\ DOMAIN s = 1 .. Len(s)
    BY LenProperties
<1>5. /\ [s EXCEPT ![r] = e] \in Seq(RunRec)
      /\ \A q \in 1 .. Len(s) : [s EXCEPT ![r] = e][q] = IF q = r THEN e ELSE s[q]
    BY <1>2, <1>4, ExceptSeq
<1>6. QED
    BY <1>2, <1>3, <1>4, <1>5

\* A run heap rewritten in place is a run heap.
LEMMA RewriteRuns ==
    ASSUME NEW s \in Seq(RunRec), NEW t \in [DOMAIN s -> RunRec]
    PROVE  t \in Seq(RunRec)
<1>1. Len(s) \in Nat /\ DOMAIN s = 1 .. Len(s)
    BY LenProperties
<1>2. QED
    BY <1>1

\* A bounded, non-empty set of records has a newest one.
LEMMA NewestExists ==
    ASSUME NEW n \in Nat, NEW S \in SUBSET Record, S # {},
           \A x \in S : x.run <= n
    PROVE  \E x \in S : \A y \in S : y.run <= x.run
<1> DEFINE T == {n - x.run : x \in S}
<1>1. \A x \in S : x.run \in Nat
    BY DEF Record
<1>2. T \subseteq Nat /\ T # {}
    BY <1>1
<1>3. PICK m \in T : \A k \in T : ~ (<<k, m>> \in OpToRel(<, Nat))
    BY <1>2, WFMin, NatLessThanWellFounded
<1>4. \A k \in T : ~ (k < m)
    BY <1>2, <1>3 DEF OpToRel
<1>5. PICK x \in S : m = n - x.run
    OBVIOUS
<1>6. ASSUME NEW y \in S PROVE y.run <= x.run
    <2>1. ~ (n - y.run < n - x.run)
        BY <1>4, <1>5
    <2>2. QED
        BY <2>1, <1>1
<1>7. QED
    BY <1>6

\* Pruning keeps records it was given.
LEMMA NewestSubset ==
    ASSUME NEW S, NEW n
    PROVE  Newest(S, n) \subseteq S
BY DEF Newest

-----------------------------------------------------------------------------
(* The inductive invariant *)

\* A run that is stamped and not yet published: nobody else has it.
Waiting(r) == r \in DOMAIN runs \ live /\ runs[r].status = "running"

\* Who refers to which run: a job's pointer is to a run of that job, a live
\* run says "running", and the runs between stamp and publication are distinct.
Ownership ==
    /\ \A j \in Job : lastRuns[j] # 0 =>
          lastRuns[j] \in DOMAIN runs /\ runs[lastRuns[j]].job = j
    /\ \A r \in live : runs[r].status = "running"
    /\ cur # 0 => Waiting(cur)
    /\ \A h \in Handler : trig[h] # 0 =>
          /\ Waiting(trig[h])
          /\ trig[h] # cur
          /\ \A g \in Handler : trig[g] = trig[h] => g = h

\* Between the loop's two selects and tick's launches nothing is left over.
LoopShape ==
    /\ loop # "launch" => snapshot = {} /\ cur = 0
    /\ ctl \in {"stopped", "down"} => loop = "off"

\* A process that is down has no goroutines, and its memory is gone.
DownShape ==
    ctl = "down" =>
        /\ live = {}
        /\ \A h \in Handler : trig[h] = 0
        /\ \A j \in Job : lastRuns[j] = 0
        /\ \A r \in DOMAIN runs : runs[r].status = "gone"

\* The inductive invariant: the safety properties with what keeps them true.
IInv ==
    /\ TypeOK
    /\ Ownership
    /\ LoopShape
    /\ DownShape
    /\ RecordsAreFinal
    /\ GuardIsExact

\* The store's latest record of a job that has records.
LEMMA LatestRecordType ==
    ASSUME TypeOK, RecordsAreFinal, NEW j \in Job, store[j] # {}
    PROVE  /\ LatestRecord(j) \in store[j]
           /\ \A rec \in store[j] : rec.run <= LatestRecord(j).run
<1>1. store[j] \in SUBSET Record
    BY DEF TypeOK
<1>2. Len(runs) \in Nat /\ DOMAIN runs = 1 .. Len(runs)
    BY DEF TypeOK
<1>3. \A rec \in store[j] : rec.run <= Len(runs)
    BY <1>2 DEF RecordsAreFinal
<1>4. \E x \in store[j] : \A y \in store[j] : y.run <= x.run
    BY <1>1, <1>2, <1>3, NewestExists
<1>5. QED
    BY <1>4 DEF LatestRecord

\* Before the first start nothing has run.
LEMMA InitIInv == Init => IInv
BY DEF Init, IInv, TypeOK, Ownership, LoopShape, DownShape, RecordsAreFinal,
       GuardIsExact, LastStatus, Expr, Status

\* What every step finds.
LEMMA Heap ==
    ASSUME TypeOK
    PROVE  /\ runs \in Seq(RunRec)
           /\ Len(runs) \in Nat
           /\ DOMAIN runs = 1 .. Len(runs)
           /\ \A r \in DOMAIN runs : runs[r] \in RunRec
<1>1. runs \in Seq(RunRec)
    BY DEF TypeOK, RunRec
<1>2. QED
    BY <1>1, LenProperties, ElementOfSeq

\* What LoadHistory restores: of every job in `registered' that has records
\* the run of the latest one, with the status it was saved with.
LEMMA Restored ==
    ASSUME IInv, NEW registered \in SUBSET Job, LoadHistory(registered)
    PROVE  /\ runs' \in Seq(RunRec)
           /\ DOMAIN runs' = DOMAIN runs
           /\ \A r \in DOMAIN runs : runs'[r].job = runs[r].job
           /\ lastRuns' \in [Job -> Nat]
           /\ \A j \in Job : lastRuns'[j] # 0 =>
                 /\ j \in registered
                 /\ lastRuns'[j] \in DOMAIN runs
                 /\ runs[lastRuns'[j]].job = j
           /\ \A r \in DOMAIN runs :
                 \/ runs'[r] = runs[r]
                 \/ \E rec \in store[runs[r].job] : rec.run = r /\ runs'[r].status = rec.status
           /\ \A j \in registered : \A rec \in store[j] : rec.run <= lastRuns'[j]
<1> DEFINE known == {j \in registered : store[j] # {}}
<1>1. /\ runs \in Seq(RunRec)
      /\ DOMAIN runs = 1 .. Len(runs)
      /\ \A r \in DOMAIN runs : runs[r] \in RunRec
    BY Heap DEF IInv
<1>2. \A j \in known : /\ LatestRecord(j) \in store[j]
                       /\ LatestRecord(j) \in Record
                       /\ LatestRecord(j).run \in DOMAIN runs
                       /\ runs[LatestRecord(j).run].job = j
                       /\ \A rec \in store[j] : rec.run <= LatestRecord(j).run
    BY LatestRecordType DEF IInv, TypeOK, RecordsAreFinal
<1>3. \A j \in Job : lastRuns'[j] = IF j \in known THEN LatestRecord(j).run ELSE 0
    BY DEF LoadHistory
<1>4. ASSUME NEW r \in DOMAIN runs
      PROVE  /\ runs'[r] \in RunRec
             /\ runs'[r].job = runs[r].job
             /\ \/ runs'[r] = runs[r]
                \/ \E rec \in store[runs[r].job] : rec.run = r /\ runs'[r].status = rec.status
    <2>1. CASE \E j \in known : LatestRecord(j).run = r
        <3>1. PICK j \in known : LatestRecord(j).run = r
            BY <2>1
        <3>2. runs[r].job = j
            BY <1>2, <3>1
        <3>3. runs'[r] = [runs[r] EXCEPT !.status = LatestRecord(j).status]
            BY <2>1, <3>2 DEF LoadHistory
        <3>4. LatestRecord(j).status \in Status
            BY <1>2 DEF Record, Status
        <3>5. QED
            BY <1>1, <1>2, <3>1, <3>2, <3>3, <3>4 DEF RunRec
    <2>2. CASE ~ \E j \in known : LatestRecord(j).run = r
        <3>1. runs'[r] = runs[r]
            BY <2>2 DEF LoadHistory
        <3>2. QED
            BY <3>1, <1>1
    <2>3. QED
        BY <2>1, <2>2
<1>5. DOMAIN runs' = DOMAIN runs /\ runs' \in [DOMAIN runs -> RunRec]
    <2>1. runs' = [r \in DOMAIN runs |-> runs'[r]]
        BY DEF LoadHistory
    <2>2. QED
        BY <1>4, <2>1
<1>6. runs' \in Seq(RunRec)
    BY <1>1, <1>5, RewriteRuns
<1>7. lastRuns' \in [Job -> Nat]
    BY <1>1, <1>2 DEF LoadHistory
<1>8. \A j \in Job : lastRuns'[j] # 0 => j \in known
    BY <1>3
<1>9. \A j \in registered : \A rec \in store[j] : rec.run <= lastRuns'[j]
    BY <1>2, <1>3
<1>10. QED
    BY <1>2, <1>3, <1>4, <1>5, <1>6, <1>7, <1>8, <1>9

-----------------------------------------------------------------------------
(* Each action preserves the invariant *)

\* The steps that touch neither runs nor the pointers to them.
Quiet ==
    \/ Start \/ StopCancel \/ StopReturn \/ MinutePasses
    \/ NewTicker \/ FirstTick \/ LoopTick \/ LoopExit
    \/ \E j \in Job, expr \in Expr : Reschedule(j, expr)
    \/ UNCHANGED vars

\* What they leave alone.
LEMMA QuietFrame ==
    ASSUME IInv, Quiet
    PROVE  UNCHANGED <<lastRuns, runs, live, trig, cur, store>>
BY DEF Quiet, Start, StopCancel, StopReturn,
       MinutePasses, NewTicker, FirstTick, LoopTick,
       LoopExit, Reschedule, Evaluate, vars, memory, loopVars

\* They keep the invariant.
LEMMA QuietIInv ==
    ASSUME IInv, Quiet
    PROVE  IInv'
<1> USE DEF IInv
<1>1. UNCHANGED <<lastRuns, runs, live, trig, cur, store>>
    BY QuietFrame
<1>2. TypeOK'
    <2>1. Len(runs) \in Nat
        BY Heap
    <2>2. CASE Start
        BY <1>1, <2>2 DEF TypeOK, Start, memory
    <2>3. CASE StopCancel \/ StopReturn \/ UNCHANGED vars
        BY <1>1, <2>3 DEF TypeOK, StopCancel, StopReturn, memory, loopVars, vars
    <2>4. CASE MinutePasses
        BY <1>1, <2>4 DEF TypeOK, MinutePasses, memory
    <2>5. CASE NewTicker \/ FirstTick \/ LoopTick
        BY <1>1, <2>5 DEF TypeOK, NewTicker, FirstTick, LoopTick, Evaluate, Due, memory
    <2>6. CASE LoopExit
        BY <1>1, <2>6 DEF TypeOK, LoopExit, memory
    <2>7. CASE \E j \in Job, expr \in Expr : Reschedule(j, expr)
        BY <1>1, <2>7 DEF TypeOK, Reschedule, loopVars, Expr
    <2>8. QED
        BY <2>2, <2>3, <2>4, <2>5, <2>6, <2>7 DEF Quiet
<1>3. LoopShape'
    <2>1. CASE NewTicker \/ FirstTick \/ LoopTick
        BY <2>1 DEF LoopShape, NewTicker, FirstTick, LoopTick, Evaluate
    <2>2. CASE ~ (NewTicker \/ FirstTick \/ LoopTick)
        BY <2>2 DEF LoopShape, Quiet, Start, StopCancel, StopReturn, MinutePasses,
                    LoopExit, Reschedule, vars, memory, loopVars
    <2>3. QED
        BY <2>1, <2>2
<1>4. ctl' = "down" => ctl = "down"
    BY DEF Quiet, Start, StopCancel, StopReturn,
           MinutePasses, NewTicker, FirstTick, LoopTick,
           LoopExit, Reschedule, Evaluate, vars, memory, loopVars
<1>5. Ownership'
    BY <1>1 DEF Ownership, Waiting
<1>6. DownShape'
    BY <1>1, <1>4 DEF DownShape
<1>7. RecordsAreFinal' /\ GuardIsExact'
    BY <1>1 DEF RecordsAreFinal, GuardIsExact, LastStatus
<1>8. QED
    BY <1>2, <1>3, <1>5, <1>6, <1>7

\* A start: the runs that had not ended are not taken up, LoadHistory restores
\* the latest that had.
LEMMA BootIInv ==
    ASSUME IInv, Boot
    PROVE  IInv'
<1> USE DEF IInv
<1>1. PICK registry \in [Job -> Expr \cup {Absent}] :
          /\ jobs' = registry
          /\ scheds' = [j \in Job |->
                IF registry[j] \in Valid THEN registry[j] ELSE Absent]
          /\ LoadHistory({j \in Job : registry[j] # Absent})
    BY DEF Boot
<1>2. {j \in Job : registry[j] # Absent} \in SUBSET Job
    OBVIOUS
<1>3. /\ runs' \in Seq(RunRec)
      /\ DOMAIN runs' = DOMAIN runs
      /\ \A r \in DOMAIN runs : runs'[r].job = runs[r].job
      /\ lastRuns' \in [Job -> Nat]
      /\ \A j \in Job : lastRuns'[j] # 0 =>
            lastRuns'[j] \in DOMAIN runs /\ runs[lastRuns'[j]].job = j
      /\ \A r \in DOMAIN runs :
            \/ runs'[r] = runs[r]
            \/ \E rec \in store[runs[r].job] : rec.run = r /\ runs'[r].status = rec.status
    BY <1>1, <1>2, Restored
<1>4. /\ UNCHANGED <<live, trig, snapshot, cur, loop, minute, store>>
      /\ UNCHANGED <<tickC, armed, evaluated>>
      /\ ctl = "down" /\ ctl' = "stopped"
    BY DEF Boot, loopVars
<1>5. /\ live = {} /\ cur = 0 /\ snapshot = {} /\ loop = "off"
      /\ \A h \in Handler : trig[h] = 0
      /\ \A r \in DOMAIN runs : runs[r].status = "gone"
    BY <1>4 DEF DownShape, LoopShape
<1>6. \A r \in DOMAIN runs : runs[r].job \in Job
    BY Heap DEF RunRec
<1>7. \A r \in DOMAIN runs : runs'[r].status # "running"
    <2> SUFFICES ASSUME NEW r \in DOMAIN runs PROVE runs'[r].status # "running"
        OBVIOUS
    <2>1. \A rec \in store[runs[r].job] : rec.status \in Final
        BY <1>6 DEF TypeOK, Record
    <2>2. QED
        BY <2>1, <1>3, <1>5 DEF Final
<1>8. TypeOK'
    BY <1>1, <1>3, <1>4, <1>5 DEF TypeOK, RunRec, Expr
<1>9. RecordsAreFinal'
    <2> SUFFICES ASSUME NEW j \in Job, NEW rec \in store[j]
                 PROVE  /\ rec.run \in DOMAIN runs' \ live'
                        /\ runs'[rec.run].job = j
                        /\ runs'[rec.run].status \in {rec.status, "gone"}
                        /\ \A other \in store[j] : other.run = rec.run => other = rec
        BY <1>4 DEF RecordsAreFinal
    <2>1. /\ rec.run \in DOMAIN runs
          /\ runs[rec.run].job = j
          /\ \A other \in store[j] : other.run = rec.run => other = rec
        BY DEF RecordsAreFinal
    <2>2. runs'[rec.run].status \in {rec.status, "gone"}
        BY <2>1, <1>3, <1>5
    <2>3. QED
        BY <2>1, <2>2, <1>3, <1>4, <1>5
<1>10. GuardIsExact'
    BY <1>3, <1>4, <1>5, <1>7 DEF GuardIsExact, LastStatus
<1>11. Ownership'
    BY <1>3, <1>4, <1>5 DEF Ownership, Waiting
<1>12. LoopShape' /\ DownShape'
    BY <1>4, <1>5 DEF LoopShape, DownShape
<1>13. QED
    BY <1>8, <1>9, <1>10, <1>11, <1>12

\* The end of the process, at any step.
LEMMA CrashIInv ==
    ASSUME IInv, Crash
    PROVE  IInv'
<1> USE DEF IInv
<1>1. \A r \in DOMAIN runs : [runs[r] EXCEPT !.status = "gone"] \in RunRec
                             /\ [runs[r] EXCEPT !.status = "gone"].job = runs[r].job
                             /\ [runs[r] EXCEPT !.status = "gone"].status = "gone"
    BY Heap DEF RunRec, Status
<1>2. /\ DOMAIN runs' = DOMAIN runs
      /\ \A r \in DOMAIN runs : runs'[r].job = runs[r].job /\ runs'[r].status = "gone"
      /\ runs' \in [DOMAIN runs -> RunRec]
    BY <1>1 DEF Crash
<1>3. runs' \in Seq(RunRec)
    BY <1>2, Heap, RewriteRuns
<1>4. TypeOK'
    BY <1>3 DEF TypeOK, Crash, RunRec
<1>5. RecordsAreFinal'
    BY <1>2 DEF RecordsAreFinal, Crash
<1>6. QED
    BY <1>2, <1>4, <1>5
       DEF Crash, Ownership, LoopShape, DownShape, GuardIsExact, LastStatus

\* The two stamping steps: a new run that only `cur' or one trig[h] refers to.
LEMMA StampIInv ==
    ASSUME IInv, NEW j \in Job,
           TickStamp(j) \/ \E h \in Handler : TriggerStamp(h, j)
    PROVE  IInv'
<1> USE DEF IInv
<1>1. /\ runs' = Append(runs, NewRun(j))
      /\ UNCHANGED <<lastRuns, live, store, ctl>>
    BY DEF TickStamp, TriggerStamp
<1>2. PICK n \in Nat \ {0} :
      /\ n = Len(runs) + 1
      /\ runs' \in Seq(RunRec)
      /\ DOMAIN runs' = DOMAIN runs \cup {n}
      /\ n \notin DOMAIN runs
      /\ \A r \in DOMAIN runs : runs'[r] = runs[r]
      /\ runs'[n] = NewRun(j)
    BY <1>1, Heap, AppendRun
<1>3. live \subseteq DOMAIN runs
    BY DEF TypeOK
<1>4. RecordsAreFinal'
    BY <1>1, <1>2 DEF RecordsAreFinal
<1>5. GuardIsExact'
    BY <1>1, <1>2 DEF GuardIsExact, LastStatus, Ownership
<1>6. \A r : Waiting(r) => Waiting(r)'
    BY <1>1, <1>2 DEF Waiting
<1>7. Waiting(n)'
    BY <1>1, <1>2, <1>3 DEF Waiting, NewRun
<1>8. ctl # "down"
    <2>1. CASE TickStamp(j)
        BY <2>1 DEF LoopShape, TickStamp
    <2>2. CASE \E h \in Handler : TriggerStamp(h, j)
        BY <2>2 DEF TriggerStamp, Up
    <2>3. QED
        BY <2>1, <2>2
<1>9. /\ \A k \in Job : lastRuns'[k] # 0 =>
            lastRuns'[k] \in DOMAIN runs' /\ runs'[lastRuns'[k]].job = k
      /\ \A r \in live' : runs'[r].status = "running"
    BY <1>1, <1>2, <1>3 DEF Ownership
<1>10. CASE TickStamp(j)
    <2>1. /\ cur = 0 /\ cur' = n /\ loop' = "launch"
          /\ snapshot' = snapshot \ {j}
          /\ UNCHANGED <<jobs, scheds, trig, loop, tickC, armed, evaluated, minute>>
        BY <1>2, <1>10 DEF TickStamp
    <2>2. TypeOK'
        BY <1>1, <1>2, <1>3, <2>1 DEF TypeOK, RunRec
    <2>3. Ownership'
        BY <1>2, <1>6, <1>7, <1>9, <2>1 DEF Ownership, Waiting
    <2>4. LoopShape' /\ DownShape'
        BY <1>1, <1>8, <2>1 DEF LoopShape, DownShape
    <2>5. QED
        BY <1>4, <1>5, <2>2, <2>3, <2>4
<1>11. CASE \E h \in Handler : TriggerStamp(h, j)
    <2>1. PICK h \in Handler : TriggerStamp(h, j)
        BY <1>11
    <2>2. /\ trig' = [trig EXCEPT ![h] = n]
          /\ UNCHANGED <<jobs, scheds, loop, snapshot, cur, tickC, armed,
                         evaluated, minute>>
        BY <1>2, <2>1 DEF TriggerStamp, loopVars
    <2>3. TypeOK'
        BY <1>1, <1>2, <1>3, <2>2 DEF TypeOK, RunRec
    <2>4. Ownership'
        <3>1. \A g \in Handler : trig'[g] = IF g = h THEN n ELSE trig[g]
            BY <2>2 DEF TypeOK
        <3>2. cur' # 0 => Waiting(cur)'
            BY <1>6, <2>2 DEF Ownership
        <3>3. cur' # n /\ \A g \in Handler : trig[g] # n
            BY <1>2, <2>2 DEF Ownership, Waiting
        <3>4. ASSUME NEW g \in Handler, trig'[g] # 0
              PROVE  /\ Waiting(trig[g])'
                     /\ trig'[g] # cur'
                     /\ \A f \in Handler : trig'[f] = trig'[g] => f = g
            <4>1. CASE g = h
                BY <4>1, <1>7, <3>1, <3>3 DEF Waiting
            <4>2. CASE g # h
                BY <4>2, <1>6, <2>2, <3>1, <3>3, <3>4 DEF Ownership, Waiting
            <4>3. QED
                BY <4>1, <4>2
        <3>5. QED
            BY <1>9, <3>2, <3>4 DEF Ownership
    <2>5. LoopShape' /\ DownShape'
        BY <1>1, <1>8, <2>2 DEF LoopShape, DownShape
    <2>6. QED
        BY <1>4, <1>5, <2>3, <2>4, <2>5
<1>12. QED
    BY <1>10, <1>11

\* The two publishing steps: a waiting run becomes live and its job's latest.
LEMMA PublishIInv ==
    ASSUME IInv, TickPublish \/ \E h \in Handler : TriggerPublish(h)
    PROVE  IInv'
<1> USE DEF IInv
<1>1. PICK r \in DOMAIN runs \ live :
          /\ runs[r].status = "running"
          /\ r \in Nat \ {0}
          /\ runs[r].job \in Job
          /\ lastRuns' = [lastRuns EXCEPT ![runs[r].job] = r]
          /\ live' = live \cup {r}
          /\ UNCHANGED <<jobs, scheds, runs, snapshot, tickC, armed,
                         evaluated, minute, ctl, store>>
          /\ \/ /\ TickPublish
                /\ cur = r /\ cur' = 0
                /\ loop = "launch" /\ loop' = IF snapshot = {} THEN "wait" ELSE "launch"
                /\ UNCHANGED trig
             \/ \E h \in Handler :
                /\ TriggerPublish(h)
                /\ trig[h] = r /\ trig' = [trig EXCEPT ![h] = 0]
                /\ UNCHANGED <<cur, loop>>
    <2>1. \A r \in DOMAIN runs : r \in Nat \ {0} /\ runs[r].job \in Job
        BY Heap DEF RunRec
    <2>2. CASE TickPublish
        BY <2>1, <2>2 DEF TickPublish, Ownership, Waiting
    <2>3. CASE \E h \in Handler : TriggerPublish(h)
        BY <2>1, <2>3 DEF TriggerPublish, loopVars, Ownership, Waiting
    <2>4. QED
        BY <2>2, <2>3
<1>2. TypeOK'
    <2>1. lastRuns' \in [Job -> Nat] /\ live' \subseteq DOMAIN runs'
        <3>1. /\ r \in Nat /\ runs[r].job \in Job
              /\ lastRuns' = [lastRuns EXCEPT ![runs[r].job] = r]
              /\ live' = live \cup {r} /\ runs' = runs
            BY <1>1
        <3>2. QED
            BY <3>1 DEF TypeOK
    <2>2. trig' \in [Handler -> Nat]
        <3>1. trig' = trig \/ \E h \in Handler : trig' = [trig EXCEPT ![h] = 0]
            BY <1>1
        <3>2. trig \in [Handler -> Nat]
            BY DEF TypeOK
        <3>3. QED
            BY <3>1, <3>2
    <2>3. loop' \in {"off", "align", "first", "wait", "launch"} /\ cur' \in Nat
        BY <1>1 DEF TypeOK
    <2>4. QED
        BY <1>1, <2>1, <2>2, <2>3 DEF TypeOK
<1>3. GuardIsExact'
    <2> SUFFICES ASSUME NEW j \in Job
                 PROVE  (LastStatus(j) = "running")' <=> (lastRuns'[j] \in live')
        BY DEF GuardIsExact
    <2>1. CASE j = runs[r].job
        BY <1>1, <2>1 DEF LastStatus, TypeOK
    <2>2. CASE j # runs[r].job
        <3>1. lastRuns'[j] = lastRuns[j] /\ lastRuns[j] # r
            BY <1>1, <2>2 DEF TypeOK, Ownership
        <3>2. QED
            BY <1>1, <3>1 DEF LastStatus, GuardIsExact
    <2>3. QED
        BY <2>1, <2>2
<1>4. RecordsAreFinal'
    <2>1. \A j \in Job : \A rec \in store[j] : rec.status \in Final
        BY DEF TypeOK, Record
    <2>2. \A j \in Job : \A rec \in store[j] : rec.run # r
        BY <2>1, <1>1 DEF RecordsAreFinal, Final
    <2>3. QED
        BY <2>2, <1>1 DEF RecordsAreFinal
<1>5. /\ \A j \in Job : lastRuns'[j] # 0 =>
            lastRuns'[j] \in DOMAIN runs' /\ runs'[lastRuns'[j]].job = j
      /\ \A q \in live' : runs'[q].status = "running"
    BY <1>1 DEF Ownership, TypeOK
<1>6. \A q : Waiting(q) /\ q # r => Waiting(q)'
    BY <1>1 DEF Waiting
<1>7. ctl # "down"
    BY <1>1 DEF LoopShape, DownShape
<1>8. ASSUME cur = r, cur' = 0, UNCHANGED trig PROVE Ownership'
    BY <1>5, <1>6, <1>8 DEF Ownership
<1>9. ASSUME \E h \in Handler : /\ trig[h] = r /\ trig' = [trig EXCEPT ![h] = 0]
                                /\ UNCHANGED cur
      PROVE  Ownership'
    <2>1. PICK h \in Handler : trig[h] = r /\ trig' = [trig EXCEPT ![h] = 0]
        BY <1>9
    <2>2. \A g \in Handler : trig'[g] = IF g = h THEN 0 ELSE trig[g]
        BY <2>1 DEF TypeOK
    <2>3. cur' # 0 => Waiting(cur)'
        BY <1>1, <1>6, <1>9, <2>1 DEF Ownership
    <2>4. ASSUME NEW g \in Handler, trig'[g] # 0
          PROVE  /\ Waiting(trig[g])'
                 /\ trig'[g] # cur'
                 /\ \A f \in Handler : trig'[f] = trig'[g] => f = g
        BY <1>1, <1>6, <1>9, <2>1, <2>2, <2>4 DEF Ownership
    <2>5. QED
        BY <1>5, <2>3, <2>4 DEF Ownership
<1>10. Ownership'
    BY <1>1, <1>8, <1>9
<1>11. LoopShape' /\ DownShape'
    BY <1>1, <1>7 DEF LoopShape, DownShape
<1>12. QED
    BY <1>2, <1>3, <1>4, <1>10, <1>11

\* The end of a run, whatever its outcome.
LEMMA FinalizeIInv ==
    ASSUME IInv, NEW r \in live, JobReturns(r) \/ JobFails(r)
    PROVE  IInv'
<1> USE DEF IInv
<1>1. PICK status \in Final :
          /\ live' = live \ {r}
          /\ FinalizeRun(r, status)
          /\ UNCHANGED <<jobs, scheds, lastRuns, trig, loopVars, minute, ctl>>
    BY DEF JobReturns, JobFails, Final
<1>2. r \in DOMAIN runs /\ status \in Status /\ r \in Nat \ {0}
    BY Heap DEF TypeOK, Status
<1>3. /\ runs' \in Seq(RunRec)
      /\ DOMAIN runs' = DOMAIN runs
      /\ \A q \in DOMAIN runs :
            runs'[q] = IF q = r THEN [job |-> runs[r].job, status |-> status] ELSE runs[q]
    BY <1>1, <1>2, Heap, SetStatus DEF FinalizeRun
<1> DEFINE j == runs[r].job
           new == [run |-> r, status |-> status]
<1>4. j \in Job /\ new \in Record
    BY <1>2, Heap DEF RunRec, Record
<1>5. \A i \in Job : \A rec \in store'[i] : rec \in store[i] \/ (i = j /\ rec = new)
    BY <1>1, <1>4, NewestSubset DEF FinalizeRun, TypeOK
<1>6. store' \in [Job -> SUBSET Record]
    <2>1. Newest(store[j] \cup {new}, MaxKept) \subseteq Record
        BY <1>4, NewestSubset DEF TypeOK
    <2>2. QED
        BY <1>1, <1>4, <2>1 DEF FinalizeRun, TypeOK
<1>7. TypeOK'
    BY <1>1, <1>3, <1>6 DEF TypeOK, RunRec, loopVars
<1>8. RecordsAreFinal'
    <2> SUFFICES ASSUME NEW i \in Job, NEW rec \in store'[i]
                 PROVE  /\ rec.run \in DOMAIN runs' \ live'
                        /\ runs'[rec.run].job = i
                        /\ runs'[rec.run].status \in {rec.status, "gone"}
                        /\ \A other \in store'[i] : other.run = rec.run => other = rec
        BY DEF RecordsAreFinal
    <2>1. \A k \in Job : \A x \in store[k] : x.run # r
        BY DEF RecordsAreFinal
    <2>2. CASE rec \in store[i]
        BY <2>1, <2>2, <1>1, <1>3, <1>5 DEF RecordsAreFinal
    <2>3. CASE i = j /\ rec = new
        BY <2>1, <2>3, <1>1, <1>2, <1>3, <1>5
    <2>4. QED
        BY <2>2, <2>3, <1>5
<1>9. GuardIsExact'
    BY <1>1, <1>2, <1>3 DEF GuardIsExact, LastStatus, Ownership, Final
<1>10. \A q : Waiting(q) => Waiting(q)'
    BY <1>1, <1>3 DEF Waiting
<1>11. Ownership'
    <2>1. \A q \in DOMAIN runs : runs'[q].job = runs[q].job
        BY <1>3
    <2>2. live' = live \ {r} /\ live \subseteq DOMAIN runs /\ lastRuns' = lastRuns
        BY <1>1 DEF TypeOK
    <2>3. \A q \in live' : q \in DOMAIN runs /\ runs'[q] = runs[q]
        BY <1>3, <2>2
    <2>4. /\ \A k \in Job : lastRuns'[k] # 0 =>
                lastRuns'[k] \in DOMAIN runs' /\ runs'[lastRuns'[k]].job = k
          /\ \A q \in live' : runs'[q].status = "running"
        BY <2>1, <2>2, <2>3, <1>3 DEF Ownership
    <2>5. cur' = cur /\ trig' = trig
        BY <1>1 DEF loopVars
    <2>6. cur' # 0 => Waiting(cur)'
        BY <1>10, <2>5 DEF Ownership
    <2>7. \A h \in Handler : trig'[h] # 0 =>
              /\ Waiting(trig[h])'
              /\ trig'[h] # cur'
              /\ \A g \in Handler : trig'[g] = trig'[h] => g = h
        BY <1>10, <2>5 DEF Ownership
    <2>8. QED
        BY <2>4, <2>6, <2>7 DEF Ownership
<1>12. LoopShape' /\ DownShape'
    BY <1>1 DEF LoopShape, DownShape, loopVars
<1>13. QED
    BY <1>7, <1>8, <1>9, <1>11, <1>12

\* The invariant is inductive.
LEMMA NextIInv == IInv /\ [Next]_vars => IInv'
<1> SUFFICES ASSUME IInv, [Next]_vars PROVE IInv'
    OBVIOUS
<1>1. CASE Boot
    BY <1>1, BootIInv
<1>2. CASE Crash
    BY <1>2, CrashIInv
<1>3. CASE \E j \in Job : TickStamp(j)
    BY <1>3, StampIInv
<1>4. CASE \E h \in Handler, j \in Job : TriggerStamp(h, j)
    BY <1>4, StampIInv
<1>5. CASE TickPublish \/ \E h \in Handler : TriggerPublish(h)
    BY <1>5, PublishIInv
<1>6. CASE \E r \in live : JobReturns(r) \/ JobFails(r)
    BY <1>6, FinalizeIInv
<1>7. CASE Quiet
    BY <1>7, QuietIInv
<1>8. QED
    BY <1>1, <1>2, <1>3, <1>4, <1>5, <1>6, <1>7 DEF Next, Quiet

\* The invariant holds in every reachable state.
THEOREM Invariance == Spec => []IInv
BY InitIInv, NextIInv, PTL DEF Spec

\* Every variable keeps its type, for any jobs, handlers and bounds.
THEOREM TypeCorrect == Spec => []TypeOK
<1>1. IInv => TypeOK
    BY DEF IInv
<1>2. QED
    BY Invariance, <1>1, PTL

\* The overlap guard of tick looks at the truth, through any sequence of
\* launches, panics, failed saves, crashes and restarts.
THEOREM GuardExactness == Spec => []GuardIsExact
<1>1. IInv => GuardIsExact
    BY DEF IInv
<1>2. QED
    BY Invariance, <1>1, PTL

\* A run leaves at most one record, final and its own.
THEOREM RecordFinality == Spec => []RecordsAreFinal
<1>1. IInv => RecordsAreFinal
    BY DEF IInv
<1>2. QED
    BY Invariance, <1>1, PTL

\* Once Stop has returned the loop has nothing left to launch.
THEOREM Quiescence == Spec => []StopQuiesces
<1>1. IInv => StopQuiesces
    BY DEF IInv, LoopShape, StopQuiesces
<1>2. QED
    BY Invariance, <1>1, PTL

\* While it launches the loop always has a next step, whatever main, the clock
\* and API calls do meanwhile: a run to publish or a job to
\* stamp.  DueIsLaunched and StopReturns rest on it.
LaunchGoesOn ==
    loop = "launch" => cur # 0 \/ \E j \in Job : j \in snapshot

\* No state of a launch is a dead end.
THEOREM LaunchNeverStuck == Spec => []LaunchGoesOn
<1>1. Init => LaunchGoesOn
    BY DEF Init, LaunchGoesOn
<1>2. IInv /\ LaunchGoesOn /\ [Next]_vars => LaunchGoesOn'
    <2> SUFFICES ASSUME IInv, LaunchGoesOn, [Next]_vars PROVE LaunchGoesOn'
        OBVIOUS
    <2>1. CASE UNCHANGED <<loop, snapshot, cur>>
        BY <2>1 DEF LaunchGoesOn
    <2>2. CASE NewTicker \/ FirstTick \/ LoopTick
        BY <2>2 DEF LaunchGoesOn, NewTicker, FirstTick, LoopTick, Evaluate, Due
    <2>3. ASSUME NEW j \in Job, TickStamp(j) PROVE LaunchGoesOn'
        BY <2>3, Heap DEF IInv, LaunchGoesOn, TickStamp
    <2>4. CASE TickPublish
        BY <2>4 DEF IInv, TypeOK, LaunchGoesOn, TickPublish
    <2>5. CASE Start \/ Crash \/ LoopExit
        BY <2>5 DEF LaunchGoesOn, Start, Crash, LoopExit
    <2>6. QED
        BY <2>1, <2>2, <2>3, <2>4, <2>5
           DEF Next, Boot, StopCancel, StopReturn, MinutePasses, TriggerStamp,
               TriggerPublish, JobReturns, JobFails, Reschedule, vars, loopVars
<1>3. QED
    BY <1>1, <1>2, Invariance, PTL DEF Spec

-----------------------------------------------------------------------------
(* The schedule cache *)

\* jobs and scheds change together or not at all.
THEOREM CacheCoherence == Spec => []ScheduleCacheCoherent
<1>1. Init => ScheduleCacheCoherent
    BY CronAssumption DEF Init, ScheduleCacheCoherent, Expr
<1>2. ScheduleCacheCoherent /\ TypeOK /\ [Next]_vars => ScheduleCacheCoherent'
    <2> SUFFICES ASSUME ScheduleCacheCoherent, TypeOK, [Next]_vars
                 PROVE  ScheduleCacheCoherent'
        OBVIOUS
    <2>1. CASE Boot
        BY <2>1 DEF Boot, ScheduleCacheCoherent
    <2>2. CASE Crash
        BY <2>2, CronAssumption DEF Crash, ScheduleCacheCoherent, Expr
    <2>3. CASE \E j \in Job, expr \in Expr : Reschedule(j, expr)
        BY <2>3, CronAssumption DEF Reschedule, ScheduleCacheCoherent, TypeOK, Expr
    <2>4. CASE UNCHANGED <<jobs, scheds>>
        BY <2>4 DEF ScheduleCacheCoherent
    <2>5. QED
        BY <2>1, <2>2, <2>3, <2>4
           DEF Next, Start, StopCancel, StopReturn,
               MinutePasses, NewTicker, FirstTick, LoopTick,
               LoopExit, Evaluate, TickStamp, TickPublish, TriggerStamp,
               TriggerPublish, JobReturns, JobFails, vars, memory
<1>3. QED
    BY <1>1, <1>2, TypeCorrect, PTL DEF Spec

-----------------------------------------------------------------------------
(* The minutes *)

\* What is still to come is later than what was evaluated, but for the first
\* tick of the ticker.
ClockInv ==
    /\ evaluated <= minute /\ armed <= minute
    /\ loop = "align" => evaluated <= armed
    /\ loop = "first" => evaluated < armed
    /\ loop = "first" => tickC = IF minute = armed THEN 0 ELSE armed + 1
    /\ loop \in {"off", "align"} => tickC = 0
    /\ tickC # 0 => tickC <= minute /\ (evaluated < tickC \/ tickC = armed + 1)

\* The ticker's ticks come once a minute, and the one that a late first call of
\* tick leaves in the channel is its first.
LEMMA ClockStep ==
    ASSUME TypeOK, LoopShape, ClockInv, [Next]_vars
    PROVE  ClockInv'
<1> USE DEF TypeOK, ClockInv
<1>1. CASE UNCHANGED <<minute, tickC, armed, evaluated, loop>>
    BY <1>1
<1>2. CASE Start
    BY <1>2 DEF Start, LoopShape
<1>3. CASE Crash \/ LoopExit
    BY <1>3 DEF Crash, LoopExit
<1>4. CASE MinutePasses
    BY <1>4 DEF MinutePasses
<1>5. CASE NewTicker
    BY <1>5 DEF NewTicker
<1>6. CASE FirstTick
    BY <1>6 DEF FirstTick, Evaluate
<1>7. CASE LoopTick
    BY <1>7 DEF LoopTick, Evaluate
<1>8. CASE TickPublish
    BY <1>8 DEF TickPublish
<1>9. CASE \E j \in Job : TickStamp(j)
    BY <1>9 DEF TickStamp
<1>10. QED
    BY <1>1, <1>2, <1>3, <1>4, <1>5, <1>6, <1>7, <1>8, <1>9
       DEF Next, Boot, StopCancel, StopReturn, TriggerStamp, TriggerPublish,
           JobReturns, JobFails, Reschedule, vars, loopVars

\* Whatever was stopped, restarted or late in between, tick goes on to later
\* minutes: the one call that may fall behind is for the ticker's first tick.
THEOREM MinuteOrder == Spec => MinutesAdvance
<1>1. Init => ClockInv
    BY DEF Init, ClockInv
<1>2. IInv /\ ClockInv /\ [Next]_vars => ClockInv'
    BY ClockStep DEF IInv
<1>3. IInv /\ ClockInv /\ [Next]_vars =>
          [FirstTick \/ LoopTick =>
              evaluated' > evaluated \/ (LoopTick /\ tickC = armed + 1)]_vars
    BY DEF IInv, ClockInv, TypeOK, FirstTick, LoopTick, Evaluate
<1>4. QED
    BY <1>1, <1>2, <1>3, Invariance, PTL DEF Spec, MinutesAdvance

-----------------------------------------------------------------------------
(* Jobs left to cron: what overlap protection does guarantee *)

\* Of a job that nobody triggers the loop launches every run: a live run is the
\* job's latest, and while the job waits to be launched it has none.
CronInv ==
    /\ \A r \in live : runs[r].job \in CronOnly => lastRuns[runs[r].job] = r
    /\ \A j \in snapshot \cap CronOnly : lastRuns[j] \notin live
    /\ cur # 0 /\ runs[cur].job \in CronOnly =>
          /\ lastRuns[runs[cur].job] \notin live
          /\ runs[cur].job \notin snapshot
          /\ \A r \in DOMAIN runs : runs[r].job = runs[cur].job => r <= cur
    /\ \A h \in Handler : trig[h] # 0 => runs[trig[h]].job \notin CronOnly
    /\ \A j \in CronOnly : jobs[j] # Absent =>
          \A rec \in store[j] : rec.run <= lastRuns[j]

\* Before the first start no run is under way.
LEMMA InitCron == Init => CronInv
BY DEF Init, CronInv, CronOnly

\* tick selects only jobs whose latest run has ended.
LEMMA DueIsIdle ==
    ASSUME GuardIsExact, NEW t, NEW j \in Due(t)
    PROVE  j \in Job /\ lastRuns[j] \notin live
BY DEF GuardIsExact, Due

\* The steps that touch neither runs nor pointers keep it.
LEMMA QuietCron ==
    ASSUME IInv, CronInv, Quiet
    PROVE  CronInv'
<1> USE DEF IInv, CronInv
<1>1. UNCHANGED <<lastRuns, runs, live, trig, cur, store>>
    BY QuietFrame
<1>2. \A j \in snapshot' \cap CronOnly : lastRuns'[j] \notin live'
    <2>1. CASE UNCHANGED snapshot
        BY <1>1, <2>1
    <2>2. CASE \E t \in Nat : snapshot' = Due(t)
        BY <1>1, <2>2, DueIsIdle
    <2>3. CASE snapshot' = snapshot \/ \E t \in Nat : snapshot' = Due(t)
        BY <2>1, <2>2, <2>3
    <2>4. QED
        BY <2>3 DEF Quiet, Start, StopCancel, StopReturn,
                    MinutePasses, NewTicker, FirstTick,
              LoopTick, LoopExit, Reschedule, Evaluate, vars, loopVars, TypeOK
<1>3. cur # 0 => snapshot' = snapshot
    BY DEF Quiet, Start, StopCancel, StopReturn,
           MinutePasses, NewTicker, FirstTick, LoopTick,
           LoopExit, Reschedule, Evaluate, vars, loopVars, LoopShape
<1>4. \A j \in Job : jobs'[j] # Absent => jobs[j] # Absent
    BY DEF Quiet, Start, StopCancel, StopReturn,
           MinutePasses, NewTicker, FirstTick, LoopTick,
           LoopExit, Reschedule, Evaluate, vars, memory, TypeOK
<1>5. \A j \in CronOnly : j \in Job
    BY DEF CronOnly
<1>6. QED
    BY <1>1, <1>2, <1>3, <1>4, <1>5

\* A run that is stamped is the newest, and of a job that was idle or is
\* triggered.
LEMMA StampCron ==
    ASSUME IInv, CronInv, NEW j \in Job,
           TickStamp(j) \/ \E h \in Handler : TriggerStamp(h, j)
    PROVE  CronInv'
<1> USE DEF IInv, CronInv
<1>1. runs' = Append(runs, NewRun(j)) /\ UNCHANGED <<jobs, lastRuns, live, store>>
    BY DEF TickStamp, TriggerStamp
<1>2. PICK n \in Nat \ {0} :
      /\ n = Len(runs) + 1
      /\ DOMAIN runs' = DOMAIN runs \cup {n} /\ n \notin DOMAIN runs
      /\ \A r \in DOMAIN runs : runs'[r] = runs[r] /\ r \in Nat /\ r <= n
      /\ runs'[n].job = j
    BY <1>1, Heap, AppendRun DEF NewRun
<1>3. live \subseteq DOMAIN runs
    BY DEF TypeOK
<1>4. /\ cur # 0 => cur \in DOMAIN runs
      /\ \A h \in Handler : trig[h] # 0 => trig[h] \in DOMAIN runs
    BY DEF Ownership, Waiting
<1>5. \A r \in live' : runs'[r].job \in CronOnly => lastRuns'[runs'[r].job] = r
    BY <1>1, <1>2, <1>3
<1>6. CASE TickStamp(j)
    <2>1. /\ cur' = n /\ j \in snapshot /\ snapshot' = snapshot \ {j}
          /\ UNCHANGED trig
        BY <1>2, <1>6 DEF TickStamp
    <2>2. cur' # 0 /\ runs'[cur'].job \in CronOnly =>
              /\ lastRuns'[runs'[cur'].job] \notin live'
              /\ runs'[cur'].job \notin snapshot'
              /\ \A r \in DOMAIN runs' : runs'[r].job = runs'[cur'].job => r <= cur'
        BY <1>1, <1>2, <2>1
    <2>3. \A h \in Handler : trig'[h] # 0 => runs'[trig'[h]].job \notin CronOnly
        BY <1>2, <1>4, <2>1
    <2>4. \A i \in snapshot' \cap CronOnly : lastRuns'[i] \notin live'
        BY <1>1, <2>1
    <2>5. QED
        BY <1>1, <1>5, <2>2, <2>3, <2>4
<1>7. CASE \E h \in Handler : TriggerStamp(h, j)
    <2>1. PICK h \in Handler : TriggerStamp(h, j)
        BY <1>7
    <2>2. /\ trig' = [trig EXCEPT ![h] = n] /\ j \notin CronOnly
          /\ UNCHANGED <<snapshot, cur>>
        BY <1>2, <2>1 DEF TriggerStamp, loopVars, CronOnly
    <2>3. \A g \in Handler : trig'[g] = IF g = h THEN n ELSE trig[g]
        BY <2>2 DEF TypeOK
    <2>4. \A g \in Handler : trig'[g] # 0 => runs'[trig'[g]].job \notin CronOnly
        BY <1>2, <1>4, <2>2, <2>3
    <2>5. cur' # 0 /\ runs'[cur'].job \in CronOnly =>
              /\ lastRuns'[runs'[cur'].job] \notin live'
              /\ runs'[cur'].job \notin snapshot'
              /\ \A r \in DOMAIN runs' : runs'[r].job = runs'[cur'].job => r <= cur'
        BY <1>1, <1>2, <1>4, <2>2
    <2>6. \A i \in snapshot' \cap CronOnly : lastRuns'[i] \notin live'
        BY <1>1, <2>2
    <2>7. QED
        BY <1>1, <1>5, <2>4, <2>5, <2>6
<1>8. QED
    BY <1>6, <1>7

\* A run the loop publishes is its job's only live one.
LEMMA TickPublishCron ==
    ASSUME IInv, CronInv, TickPublish
    PROVE  CronInv'
<1> USE DEF IInv, CronInv
<1>1. /\ cur \in DOMAIN runs \ live /\ runs[cur].job \in Job
      /\ \A r \in DOMAIN runs : r \in Nat
    BY Heap DEF TickPublish, Ownership, Waiting, RunRec
<1> DEFINE j == runs[cur].job
<1>2. /\ lastRuns' = [lastRuns EXCEPT ![j] = cur]
      /\ live' = live \cup {cur} /\ cur' = 0 /\ cur # 0
      /\ UNCHANGED <<jobs, runs, trig, snapshot, store>>
    BY DEF TickPublish
<1>3. \A i \in Job : lastRuns'[i] = IF i = j THEN cur ELSE lastRuns[i]
    BY <1>2 DEF TypeOK
<1>4. \A r \in live : r \in DOMAIN runs /\ runs[r].job \in Job
    BY Heap DEF TypeOK, RunRec
<1>5. \A r \in live : runs[r].job \in CronOnly => runs[r].job # j
    BY <1>2
<1>6. \A r \in live' : runs'[r].job \in CronOnly => lastRuns'[runs'[r].job] = r
    BY <1>1, <1>2, <1>3, <1>4, <1>5
<1>7. \A i \in snapshot' \cap CronOnly : lastRuns'[i] \notin live'
    <2>1. \A i \in snapshot \cap CronOnly : lastRuns[i] # cur /\ i # j /\ i \in Job
        BY <1>1, <1>2 DEF Ownership, TypeOK
    <2>2. QED
        BY <1>2, <1>3, <2>1
<1>8. \A i \in CronOnly : jobs'[i] # Absent => \A rec \in store'[i] : rec.run <= lastRuns'[i]
    <2>1. j \in CronOnly => \A rec \in store[j] : rec.run <= cur
        BY <1>1, <1>2 DEF RecordsAreFinal
    <2>2. QED
        BY <1>2, <1>3, <2>1 DEF CronOnly
<1>9. QED
    BY <1>2, <1>6, <1>7, <1>8

\* A run an API call publishes is of a triggered job.
LEMMA TriggerPublishCron ==
    ASSUME IInv, CronInv, NEW h \in Handler, TriggerPublish(h)
    PROVE  CronInv'
<1> USE DEF IInv, CronInv
<1>1. /\ trig[h] \in DOMAIN runs \ live /\ runs[trig[h]].job \in Job
      /\ trig[h] # 0 /\ trig[h] # cur
    BY Heap DEF TriggerPublish, Ownership, Waiting, RunRec
<1> DEFINE r == trig[h]
           j == runs[r].job
<1>2. /\ lastRuns' = [lastRuns EXCEPT ![j] = r]
      /\ live' = live \cup {r} /\ trig' = [trig EXCEPT ![h] = 0]
      /\ UNCHANGED <<jobs, runs, snapshot, cur, store>>
    BY DEF TriggerPublish, loopVars
<1>3. j \notin CronOnly
    BY <1>1
<1>4. \A i \in CronOnly : i \in Job /\ lastRuns'[i] = lastRuns[i] /\ lastRuns[i] # r
    BY <1>1, <1>2, <1>3 DEF TypeOK, CronOnly, Ownership
<1>5. \A g \in Handler : trig'[g] # 0 => trig'[g] = trig[g]
    BY <1>2 DEF TypeOK
<1> HIDE DEF r, j
<1>6. \A q \in live' : runs'[q].job \in CronOnly => lastRuns'[runs'[q].job] = q
    BY <1>2, <1>3, <1>4 DEF j
<1>7. \A i \in CronOnly : lastRuns'[i] \in live' => lastRuns[i] \in live
    BY <1>2, <1>4
<1>8. QED
    BY <1>2, <1>4, <1>5, <1>6, <1>7

\* A run that ends leaves nothing newer behind than its job's latest.
LEMMA EndCron ==
    ASSUME IInv, CronInv, NEW r \in live, JobReturns(r) \/ JobFails(r)
    PROVE  CronInv'
<1> USE DEF IInv, CronInv
<1>1. PICK status \in Final :
          /\ live' = live \ {r}
          /\ FinalizeRun(r, status)
          /\ UNCHANGED <<jobs, lastRuns, trig, snapshot, cur>>
    BY DEF JobReturns, JobFails, Final, loopVars
<1>2. r \in DOMAIN runs /\ status \in Status /\ runs[r].job \in Job
    BY Heap DEF TypeOK, Status, RunRec
<1>3. /\ DOMAIN runs' = DOMAIN runs
      /\ \A q \in DOMAIN runs : runs'[q].job = runs[q].job
    <2>1. \A q \in DOMAIN runs : runs'[q] =
              IF q = r THEN [job |-> runs[r].job, status |-> status] ELSE runs[q]
        BY <1>1, <1>2, Heap, SetStatus DEF FinalizeRun
    <2>2. DOMAIN runs' = DOMAIN runs
        BY <1>1, <1>2, Heap, SetStatus DEF FinalizeRun
    <2>3. QED
        BY <2>1, <2>2
<1>4. live \subseteq DOMAIN runs
    BY DEF TypeOK
<1>5. /\ cur # 0 => cur \in DOMAIN runs
      /\ \A h \in Handler : trig[h] # 0 => trig[h] \in DOMAIN runs
    BY DEF Ownership, Waiting
<1>6. \A i \in Job : \A rec \in store'[i] :
          rec \in store[i] \/ (i = runs[r].job /\ rec.run = r)
    BY <1>1, <1>2, NewestSubset DEF FinalizeRun, TypeOK
<1>7. \A i \in CronOnly : jobs'[i] # Absent =>
          \A rec \in store'[i] : rec.run <= lastRuns'[i]
    BY <1>1, <1>2, <1>6, Heap DEF CronOnly
<1>8. \A q \in live' : runs'[q].job \in CronOnly => lastRuns'[runs'[q].job] = q
    BY <1>1, <1>3, <1>4
<1>9. cur' # 0 /\ runs'[cur'].job \in CronOnly =>
          /\ lastRuns'[runs'[cur'].job] \notin live'
          /\ runs'[cur'].job \notin snapshot'
          /\ \A q \in DOMAIN runs' : runs'[q].job = runs'[cur'].job => q <= cur'
    BY <1>1, <1>3, <1>5
<1>10. \A h \in Handler : trig'[h] # 0 => runs'[trig'[h]].job \notin CronOnly
    BY <1>1, <1>3, <1>5
<1>11. QED
    BY <1>1, <1>7, <1>8, <1>9, <1>10

\* The overlap invariant is inductive, whatever is triggered.
LEMMA CronStep ==
    ASSUME IInv, CronInv, [Next]_vars
    PROVE  CronInv'
<1>1. CASE Boot
    <2>1. PICK registry \in [Job -> Expr \cup {Absent}] :
              jobs' = registry /\ LoadHistory({j \in Job : registry[j] # Absent})
        BY <1>1 DEF Boot
    <2>2. \A j \in Job : jobs'[j] # Absent =>
              \A rec \in store[j] : rec.run <= lastRuns'[j]
        BY <2>1, Restored
    <2>3. /\ live' = {} /\ snapshot' = {} /\ cur' = 0 /\ store' = store
          /\ \A h \in Handler : trig'[h] = 0
        BY <1>1 DEF IInv, Boot, loopVars, DownShape, LoopShape
    <2>4. QED
        BY <2>2, <2>3 DEF CronInv, CronOnly
<1>2. CASE Crash
    BY <1>2 DEF Crash, CronInv, CronOnly
<1>3. CASE Quiet
    BY <1>3, QuietCron
<1>4. CASE \E j \in Job : TickStamp(j)
    BY <1>4, StampCron
<1>5. CASE \E h \in Handler, j \in Job : TriggerStamp(h, j)
    BY <1>5, StampCron
<1>6. CASE TickPublish
    BY <1>6, TickPublishCron
<1>7. CASE \E h \in Handler : TriggerPublish(h)
    BY <1>7, TriggerPublishCron
<1>8. CASE \E r \in live : JobReturns(r) \/ JobFails(r)
    BY <1>8, EndCron
<1>9. QED
    BY <1>1, <1>2, <1>3, <1>4, <1>5, <1>6, <1>7, <1>8 DEF Next, Quiet

\* The overlap invariant holds in every reachable state.
THEOREM CronInvariance == Spec => []CronInv
<1>1. IInv /\ CronInv /\ [Next]_vars => CronInv'
    BY CronStep
<1>2. QED
    BY <1>1, InitCron, Invariance, PTL DEF Spec

\* A job that nobody triggers through the API never overlaps itself ...
THEOREM NoOverlap == Spec => []AtMostOneLive
<1>1. CronInv => AtMostOneLive
    BY DEF CronInv, AtMostOneLive
<1>2. QED
    BY <1>1, CronInvariance, PTL

\* A step that selects jobs is an evaluation by tick.
LEMMA SelectedIsDue ==
    ASSUME Next, NEW j \in snapshot' \ snapshot
    PROVE  \E t : snapshot' = Due(t)
BY DEF Next, Boot, Start, StopCancel, StopReturn, Crash,
       MinutePasses, NewTicker, FirstTick,
       LoopTick, LoopExit, Evaluate, TickStamp, TickPublish, TriggerStamp,
       TriggerPublish, JobReturns, JobFails, Reschedule, loopVars

\* ... the documented rule holds for it, a tick skips it while it runs ...
THEOREM SkipsRunning ==
    Spec => [][\A j \in (snapshot' \ snapshot) \cap CronOnly :
                  \A r \in live : runs[r].job # j]_vars
<1>1. IInv /\ CronInv /\ [Next]_vars =>
          [\A j \in (snapshot' \ snapshot) \cap CronOnly :
              \A r \in live : runs[r].job # j]_vars
    <2> SUFFICES ASSUME IInv, CronInv, Next,
                        NEW j \in (snapshot' \ snapshot) \cap CronOnly, NEW r \in live
                 PROVE  runs[r].job # j
        BY DEF vars
    <2>1. \E t : snapshot' = Due(t)
        BY SelectedIsDue
    <2>2. lastRuns[j] \notin live
        BY <2>1, DueIsIdle DEF IInv
    <2>3. QED
        BY <2>2 DEF CronInv
<1>2. QED
    BY <1>1, CronInvariance, Invariance, PTL DEF Spec

\* ... so where no job is triggered it holds as documented ...
THEOREM SkipsRunningUntriggered ==
    ASSUME Triggered = {} PROVE Spec => TickSkipsRunning
<1>1. IInv /\ CronInv /\ [Next]_vars =>
          [\A j \in snapshot' \ snapshot : \A r \in live : runs[r].job # j]_vars
    <2> SUFFICES ASSUME IInv, CronInv, Next,
                        NEW j \in snapshot' \ snapshot, NEW r \in live
                 PROVE  runs[r].job # j
        BY DEF vars
    <2>1. \E t : snapshot' = Due(t)
        BY SelectedIsDue
    <2>2. lastRuns[j] \notin live /\ j \in CronOnly
        BY <2>1, DueIsIdle DEF IInv, CronOnly
    <2>3. QED
        BY <2>2 DEF CronInv
<1>2. QED
    BY <1>1, CronInvariance, Invariance, PTL DEF Spec, TickSkipsRunning

\* ... and LatestRun reports its most recent run, over restarts too.
THEOREM LatestNewest == Spec => []LatestIsNewest
<1>1. IInv /\ CronInv => LatestIsNewest
    BY Heap DEF IInv, TypeOK, CronInv, LatestIsNewest
<1>2. QED
    BY <1>1, CronInvariance, Invariance, PTL

-----------------------------------------------------------------------------
(* Jobs left to cron, saves that do not fail: memory and history agree *)

\* The newest of a set of records is never pruned.
LEMMA NewestKept ==
    ASSUME NEW S \in SUBSET Record, NEW top \in S, \A x \in S : x.run <= top.run
    PROVE  top \in Newest(S, MaxKept)
<1>1. \A x \in S : x.run \in Nat
    BY DEF Record
<1>2. {y \in S : y.run > top.run} = {}
    BY <1>1
<1>3. Cardinality({y \in S : y.run > top.run}) = 0
    BY <1>2, FS_EmptySet
<1>4. MaxKept \in Nat
    BY BoundAssumption
<1>5. QED
    BY <1>3, <1>4 DEF Newest

\* Of a job that nobody triggers, a live run is newer than every record, and the
\* run an idle job points to is the newest record, with the outcome memory has.
IdleInv ==
    /\ \A r \in live : runs[r].job \in CronOnly =>
          \A rec \in store[runs[r].job] : rec.run <= r
    /\ \A j \in CronOnly : lastRuns[j] # 0 /\ (\A r \in live : runs[r].job # j) =>
          \E rec \in store[j] :
             /\ rec.run = lastRuns[j]
             /\ rec.status = LastStatus(j)
             /\ \A other \in store[j] : other.run <= rec.run

\* LoadHistory points every job at its newest record.
LEMMA BootIdle ==
    ASSUME IInv, Boot
    PROVE  IdleInv'
<1> USE DEF IInv
<1>1. PICK registered \in SUBSET Job : LoadHistory(registered)
    BY DEF Boot
<1>2. live' = {} /\ store' = store
    BY DEF Boot, DownShape
<1>3. ASSUME NEW j \in Job, lastRuns'[j] # 0
      PROVE  \E rec \in store[j] : /\ rec.run = lastRuns'[j]
                                   /\ rec.status = LastStatus(j)'
                                   /\ \A other \in store[j] : other.run <= rec.run
    <2>1. j \in registered /\ store[j] # {} /\ lastRuns'[j] = LatestRecord(j).run
        BY <1>1, <1>3 DEF LoadHistory
    <2>2. /\ LatestRecord(j) \in store[j]
          /\ \A other \in store[j] : other.run <= LatestRecord(j).run
        BY <2>1, LatestRecordType
    <2>3. LatestRecord(j).run \in DOMAIN runs /\ runs[LatestRecord(j).run].job = j
          /\ runs[LatestRecord(j).run] \in RunRec
        BY <2>2, Heap DEF RecordsAreFinal
    <2>4. runs'[LatestRecord(j).run]
             = [runs[LatestRecord(j).run] EXCEPT !.status = LatestRecord(j).status]
        BY <1>1, <2>1, <2>3 DEF LoadHistory
    <2>5. LastStatus(j)' = LatestRecord(j).status
        BY <1>3, <2>1, <2>3, <2>4 DEF LastStatus, RunRec
    <2>6. QED
        BY <2>1, <2>2, <2>5
<1>4. QED
    BY <1>2, <1>3 DEF IdleInv, CronOnly

\* A run that ends becomes its job's newest record, if nobody triggers the job.
LEMMA EndIdle ==
    ASSUME ~SaveMayFail, IInv, CronInv, IdleInv, NEW r \in live,
           runs[r].job \in CronOnly, JobReturns(r) \/ JobFails(r)
    PROVE  IdleInv'
<1> USE DEF IInv, CronInv
<1>1. PICK status \in Final :
          live' = live \ {r} /\ FinalizeRun(r, status) /\ lastRuns' = lastRuns
    BY DEF JobReturns, JobFails, Final
<1>2. r \in DOMAIN runs /\ r \in Nat \ {0} /\ status \in Status /\ runs[r].job \in Job
    BY Heap DEF TypeOK, Status, RunRec
<1> PICK i \in Job : i = runs[r].job
    BY <1>2
<1> DEFINE new == [run |-> r, status |-> status]
           S == store[i] \cup {new}
<1>3. /\ DOMAIN runs' = DOMAIN runs
      /\ \A q \in DOMAIN runs :
            runs'[q] = IF q = r THEN [job |-> i, status |-> status] ELSE runs[q]
    BY <1>1, <1>2, Heap, SetStatus DEF FinalizeRun
<1>4. store' = [store EXCEPT ![i] = Newest(S, MaxKept)]
    BY <1>1 DEF FinalizeRun
<1>5. \A j \in Job : store'[j] = IF j = i THEN Newest(S, MaxKept) ELSE store[j]
    BY <1>4 DEF TypeOK
<1>6. \A x \in S : x.run <= new.run
    BY <1>2 DEF IdleInv
<1>7. S \in SUBSET Record /\ new \in S
    <2>1. store[i] \in SUBSET Record
        BY DEF TypeOK
    <2>2. QED
        BY <1>2, <2>1 DEF Record
<1>8. new \in Newest(S, MaxKept) /\ Newest(S, MaxKept) \subseteq S
    BY <1>6, <1>7, NewestKept, NewestSubset
<1>9. lastRuns[i] = r
    OBVIOUS
<1>10. live \subseteq DOMAIN runs
    BY DEF TypeOK
<1>11. \A q \in live' : q \in live /\ runs'[q] = runs[q] /\ runs[q].job # i
    BY <1>1, <1>3, <1>9, <1>10 DEF CronInv
<1>12. \A q \in live : runs[q].job \in Job
    BY <1>10, Heap DEF RunRec
<1> HIDE DEF S
<1>13. \A q \in live' : runs'[q].job \in CronOnly =>
           \A rec \in store'[runs'[q].job] : rec.run <= q
    BY <1>5, <1>11, <1>12 DEF IdleInv
<1>14. ASSUME NEW j \in CronOnly, lastRuns[j] # 0, \A q \in live' : runs'[q].job # j
       PROVE  \E rec \in store'[j] : /\ rec.run = lastRuns[j]
                                     /\ rec.status = LastStatus(j)'
                                     /\ \A other \in store'[j] : other.run <= rec.run
    <2>1. lastRuns[j] \in DOMAIN runs /\ runs[lastRuns[j]].job = j
        BY <1>14 DEF Ownership, CronOnly
    <2>2. CASE j = i
        <3>1. LastStatus(j)' = status
            BY <1>1, <1>3, <1>9, <1>14, <2>1, <2>2 DEF LastStatus
        <3>2. store'[j] = Newest(S, MaxKept)
            BY <1>5, <2>2
        <3>3. \A other \in store'[j] : other.run <= new.run
            BY <1>6, <1>8, <3>2
        <3>4. QED
            BY <1>8, <1>9, <2>2, <3>1, <3>2, <3>3
    <2>3. CASE j # i
        <3>1. lastRuns[j] # r /\ LastStatus(j)' = LastStatus(j)
            BY <1>1, <1>3, <2>1, <2>3 DEF LastStatus
        <3>2. \A q \in live : runs[q].job # j
            BY <1>1, <1>11, <1>14, <2>3
        <3>3. store'[j] = store[j]
            BY <1>5, <2>3 DEF CronOnly
        <3>4. QED
            BY <1>14, <3>1, <3>2, <3>3 DEF IdleInv
    <2>4. QED
        BY <2>2, <2>3
<1>15. QED
    BY <1>1, <1>13, <1>14 DEF IdleInv

\* The end of a triggered job's run is no matter of the other jobs.
LEMMA EndOther ==
    ASSUME IInv, IdleInv, NEW r \in live,
           runs[r].job \notin CronOnly, JobReturns(r) \/ JobFails(r)
    PROVE  IdleInv'
<1> USE DEF IInv
<1>1. PICK status \in Final :
          live' = live \ {r} /\ FinalizeRun(r, status) /\ lastRuns' = lastRuns
    BY DEF JobReturns, JobFails, Final
<1>2. r \in DOMAIN runs /\ status \in Status
    BY Heap DEF TypeOK, Status
<1>3. /\ DOMAIN runs' = DOMAIN runs
      /\ \A q \in DOMAIN runs : runs'[q] =
            IF q = r THEN [job |-> runs[r].job, status |-> status] ELSE runs[q]
    BY <1>1, <1>2, Heap, SetStatus DEF FinalizeRun
<1>4. \A j \in CronOnly : j \in Job /\ store'[j] = store[j]
    BY <1>1 DEF FinalizeRun, TypeOK, CronOnly
<1>5. \A q \in live : q \in DOMAIN runs
    BY DEF TypeOK
<1>6. \A j \in CronOnly : (\A q \in live' : runs'[q].job # j) => \A q \in live : runs[q].job # j
    BY <1>1, <1>3, <1>5
<1>7. ASSUME NEW j \in CronOnly, lastRuns[j] # 0 PROVE LastStatus(j)' = LastStatus(j)
    <2>1. lastRuns[j] \in DOMAIN runs /\ lastRuns[j] # r
        BY <1>4, <1>7 DEF Ownership
    <2>2. QED
        BY <1>1, <1>3, <2>1 DEF LastStatus
<1>8. \A q \in live' : q \in live /\ runs'[q] = runs[q]
    BY <1>1, <1>3, <1>5
<1>9. QED
    BY <1>1, <1>4, <1>6, <1>7, <1>8 DEF IdleInv

\* A run that is published is newer than its job's records; of a triggered job
\* nothing is claimed.
LEMMA PublishIdle ==
    ASSUME IInv, CronInv, IdleInv, TickPublish \/ \E h \in Handler : TriggerPublish(h)
    PROVE  IdleInv'
<1> USE DEF IInv
<1>1. PICK r \in DOMAIN runs :
          /\ live' = live \cup {r} /\ runs' = runs /\ store' = store
          /\ lastRuns' = [lastRuns EXCEPT ![runs[r].job] = r]
          /\ runs[r].job \in CronOnly =>
                \A q \in DOMAIN runs : runs[q].job = runs[r].job => q <= r
    <2>1. CASE TickPublish
        BY <2>1 DEF TickPublish, CronInv, Ownership, Waiting
    <2>2. CASE \E h \in Handler : TriggerPublish(h)
        BY <2>2 DEF TriggerPublish, CronInv, Ownership, Waiting
    <2>3. QED
        BY <2>1, <2>2
<1>2. \A j \in Job : lastRuns'[j] = IF j = runs[r].job THEN r ELSE lastRuns[j]
    BY <1>1 DEF TypeOK
<1>3. runs[r].job \in CronOnly => \A rec \in store[runs[r].job] : rec.run <= r
    BY <1>1 DEF RecordsAreFinal, CronOnly
<1>4. \A j \in Job : j # runs[r].job => LastStatus(j)' = LastStatus(j)
    BY <1>1, <1>2 DEF LastStatus
<1>5. QED
    BY <1>1, <1>2, <1>3, <1>4 DEF IdleInv, CronOnly

\* Every step keeps memory and history in agreement.
LEMMA IdleStep ==
    ASSUME ~SaveMayFail, IInv, CronInv, IdleInv, [Next]_vars
    PROVE  IdleInv'
<1> USE DEF IInv
<1>1. CASE Boot
    BY <1>1, BootIdle
<1>2. CASE Crash
    BY <1>2 DEF Crash, IdleInv, CronOnly
<1>3. CASE Quiet
    <2>1. UNCHANGED <<lastRuns, runs, live, store>>
        BY <1>3, QuietFrame
    <2>2. QED
        BY <2>1 DEF IdleInv, LastStatus
<1>4. ASSUME NEW j \in Job, TickStamp(j) \/ \E h \in Handler : TriggerStamp(h, j)
      PROVE  IdleInv'
    <2>1. runs' = Append(runs, NewRun(j)) /\ UNCHANGED <<lastRuns, live, store>>
        BY <1>4 DEF TickStamp, TriggerStamp
    <2>2. \A r \in DOMAIN runs : runs'[r] = runs[r]
        BY <2>1, Heap, AppendRun
    <2>3. \A i \in CronOnly : LastStatus(i)' = LastStatus(i)
        BY <2>1, <2>2 DEF LastStatus, Ownership, CronOnly
    <2>4. live \subseteq DOMAIN runs
        BY DEF TypeOK
    <2>5. QED
        BY <2>1, <2>2, <2>3, <2>4 DEF IdleInv
<1>5. CASE TickPublish \/ \E h \in Handler : TriggerPublish(h)
    BY <1>5, PublishIdle
<1>6. CASE \E r \in live : JobReturns(r) \/ JobFails(r)
    BY <1>6, EndIdle, EndOther
<1>7. QED
    BY <1>1, <1>2, <1>3, <1>4, <1>5, <1>6 DEF Next, Quiet

\* As long as the store saves, the latest run of an idle job that nobody triggers
\* is the head of its history, with the same outcome.
THEOREM IdleRecorded ==
    ASSUME ~SaveMayFail PROVE Spec => []IdleLatestIsRecorded
<1>1. Init => IdleInv
    BY DEF Init, IdleInv, CronOnly
<1>2. IInv /\ CronInv /\ IdleInv /\ [Next]_vars => IdleInv'
    BY IdleStep
<1>3. IInv /\ IdleInv => IdleLatestIsRecorded
    <2> SUFFICES ASSUME IInv, IdleInv, NEW j \in CronOnly, lastRuns[j] # 0,
                        \A r \in live : runs[r].job # j
                 PROVE  /\ lastRuns[j] = LatestRecord(j).run
                        /\ LastStatus(j) = LatestRecord(j).status
        BY DEF IdleLatestIsRecorded
    <2> j \in Job
        BY DEF CronOnly
    <2>1. PICK rec \in store[j] : /\ rec.run = lastRuns[j]
                                  /\ rec.status = LastStatus(j)
                                  /\ \A other \in store[j] : other.run <= rec.run
        BY DEF IdleInv
    <2>2. /\ LatestRecord(j) \in store[j]
          /\ \A other \in store[j] : other.run <= LatestRecord(j).run
        BY <2>1, LatestRecordType DEF IInv
    <2>3. \A x \in store[j] : x.run \in Nat
        BY DEF IInv, TypeOK, Record
    <2>4. LatestRecord(j).run = rec.run
        BY <2>1, <2>2, <2>3
    <2>5. LatestRecord(j) = rec
        BY <2>1, <2>2, <2>4 DEF IInv, RecordsAreFinal
    <2>6. QED
        BY <2>1, <2>5
<1>4. QED
    BY <1>1, <1>2, <1>3, CronInvariance, Invariance, PTL DEF Spec

-----------------------------------------------------------------------------
(* The refinement of JobRuns *)

\* The mapping of Scheduler!Runs, by name.
Begun == IF cur = 0 THEN Len(runs) ELSE cur - 1
Active == [j \in CronOnly |-> {r \in live : runs[r].job = j}]
Recorded == [j \in CronOnly |-> store[j]]

\* A run heap rewritten in place keeps its length.
LEMMA RewriteLen ==
    ASSUME TypeOK, NEW t \in Seq(RunRec), DOMAIN t = DOMAIN runs
    PROVE  Len(t) = Len(runs)
<1>1. /\ Len(t) \in Nat /\ DOMAIN t = 1 .. Len(t)
      /\ Len(runs) \in Nat /\ DOMAIN runs = 1 .. Len(runs)
    BY Heap, LenProperties
<1> DEFINE m == Len(t)
           n == Len(runs)
<1>2. m \in Nat /\ n \in Nat /\ 1 .. m = 1 .. n
    BY <1>1
<1> HIDE DEF m, n
<1>3. m = n
    BY <1>2
<1>4. QED
    BY <1>3 DEF m, n

\* Active and Recorded have one entry per job, now and next.
LEMMA ActiveFun ==
    /\ Active = [j \in CronOnly |-> Active[j]]
    /\ Active' = [j \in CronOnly |-> Active'[j]]
    /\ Recorded = [j \in CronOnly |-> store[j]]
    /\ Recorded' = [j \in CronOnly |-> store'[j]]
BY DEF Active, Recorded

\* Retention drops older records first, and never all.
LEMMA NewestRetains ==
    ASSUME NEW S \in SUBSET Record, IsFiniteSet(S), S # {},
           NEW n \in Nat, \A x \in S : x.run <= n
    PROVE  Runs!Retained(Newest(S, MaxKept), S)
<1> DEFINE newer(x) == {y \in S : y.run > x.run}
           T == Newest(S, MaxKept)
<1>1. \A x \in S : IsFiniteSet(newer(x)) /\ Cardinality(newer(x)) \in Nat
    BY FS_Subset, FS_CardinalityType
<1>2. \A x \in S : x.run \in Nat
    BY DEF Record
<1>3. PICK top \in S : \A y \in S : y.run <= top.run
    BY NewestExists
<1>4. top \in T
    <2>1. newer(top) = {}
        BY <1>2, <1>3
    <2>2. Cardinality(newer(top)) = 0
        BY <2>1, FS_EmptySet
    <2>3. MaxKept \in Nat
        BY BoundAssumption
    <2>4. QED
        BY <2>2, <2>3 DEF Newest
<1>5. ASSUME NEW x \in S \ T, NEW y \in T PROVE x.run < y.run
    <2>1. y \in S /\ (MaxKept = 0 \/ Cardinality(newer(y)) < MaxKept)
        BY DEF Newest
    <2>2. MaxKept # 0 /\ ~ (Cardinality(newer(x)) < MaxKept)
        BY DEF Newest
    <2>3. CASE x.run >= y.run
        <3>1. newer(x) \subseteq newer(y)
            BY <1>2, <2>1, <2>3
        <3>2. Cardinality(newer(x)) <= Cardinality(newer(y))
            BY <1>1, <2>1, <3>1, FS_Subset
        <3> HIDE DEF newer
        <3>3. y \in S /\ x \in S /\ MaxKept \in Nat
            BY <2>1, BoundAssumption
        <3>4. QED
            BY <1>1, <2>1, <2>2, <3>2, <3>3
    <2>4. QED
        BY <1>2, <2>1, <2>3
<1>6. MaxKept = 0 => T = S
    BY DEF Newest
<1>7. QED
    BY <1>4, <1>5, <1>6 DEF Runs!Retained

\* Every job has finitely many records.
StoreFinite == \A j \in Job : IsFiniteSet(store[j])

\* A step adds one record at most.
LEMMA FiniteStep ==
    ASSUME TypeOK, StoreFinite, [Next]_vars
    PROVE  StoreFinite'
<1>1. CASE UNCHANGED store
    BY <1>1 DEF StoreFinite
<1>2. ASSUME NEW r \in live, JobReturns(r) \/ JobFails(r) PROVE StoreFinite'
    <2>1. PICK status \in Final : FinalizeRun(r, status)
        BY <1>2 DEF JobReturns, JobFails, Final
    <2>2. ASSUME NEW i \in Job PROVE IsFiniteSet(store'[i])
        <3> DEFINE S == store[i] \cup {[run |-> r, status |-> status]}
        <3>1. store'[i] = store[i] \/ store'[i] = Newest(S, MaxKept)
            BY <2>1 DEF FinalizeRun, TypeOK
        <3>2. IsFiniteSet(store[i]) /\ IsFiniteSet(S)
            BY FS_AddElement DEF StoreFinite
        <3>3. Newest(S, MaxKept) \subseteq S
            BY NewestSubset
        <3> HIDE DEF S
        <3>4. IsFiniteSet(Newest(S, MaxKept))
            BY <3>2, <3>3, FS_Subset
        <3>5. QED
            BY <3>1, <3>2, <3>4
    <2>3. QED
        BY <2>2 DEF StoreFinite
<1>3. QED
    BY <1>1, <1>2 DEF Next, Boot, Start, StopCancel, StopReturn, Crash, MinutePasses,
          NewTicker, FirstTick, LoopTick, LoopExit, Evaluate, TickStamp, TickPublish, TriggerStamp,
          TriggerPublish, Reschedule, vars

\* The loop's unpublished run is one of the numbers given.
LEMMA BegunType ==
    ASSUME IInv
    PROVE  Begun \in Nat /\ Begun <= Len(runs) /\ (cur # 0 => cur \in Begun + 1 .. Len(runs))
<1>1. cur # 0 => cur \in 1 .. Len(runs)
    BY Heap DEF IInv, Ownership, Waiting
<1>2. QED
    BY <1>1, Heap DEF IInv, Begun

\* Launches by the loop are the runs that begin.
LEMMA LaunchSim ==
    ASSUME IInv, CronInv, TickPublish
    PROVE  (\E j \in CronOnly : Runs!Begin(j)) \/ Runs!Other
<1> USE DEF IInv, CronInv
<1>1. /\ cur # 0 /\ cur' = 0 /\ runs' = runs /\ live' = live \cup {cur} /\ store' = store
    BY DEF TickPublish
<1>2. cur \in DOMAIN runs \ live /\ cur \in Nat
    BY <1>1, Heap DEF Ownership, Waiting
<1>3. Begun' = Len(runs) /\ Begun = cur - 1 /\ Begun' \in Nat
      /\ cur \in Begun + 1 .. Begun' /\ Begun' > Begun
    BY <1>1, <1>2, BegunType, Heap DEF Begun
<1>4. Recorded' = Recorded /\ Up /\ Up' = Up
    BY <1>1 DEF Recorded, TickPublish, LoopShape, Up
<1> PICK j : j = runs[cur].job
    OBVIOUS
<1>5. \A i \in CronOnly : Active'[i] = IF i = j THEN Active[i] \cup {cur} ELSE Active[i]
    BY <1>1, <1>2 DEF Active
<1>6. CASE j \in CronOnly
    <2>1. Active[j] = {}
        BY <1>1, <1>6 DEF Active
    <2>2. Active' = [Active EXCEPT ![j] = {cur}]
        BY <1>5, <1>6, <2>1, ActiveFun
    <2>3. Runs!Begin(j)
        <3>1. \E r \in Begun + 1 .. Begun' : Active' = [Active EXCEPT ![j] = {r}]
            BY <1>3, <2>2
        <3>2. Begun' \in Nat
            BY <1>3
        <3>3. QED
            BY <1>4, <2>1, <3>1, <3>2 DEF Runs!Begin, Begun, Active, Recorded
    <2>4. QED
        BY <1>6, <2>3
<1>7. CASE j \notin CronOnly
    <2>1. Active' = Active
        BY <1>5, <1>7, ActiveFun
    <2>2. QED
        BY <1>3, <1>4, <2>1 DEF Runs!Other, Begun, Active, Recorded
<1>8. QED
    BY <1>6, <1>7

\* The end of a job's goroutine is the end of its run.
LEMMA EndSim ==
    ASSUME IInv, StoreFinite, CronInv, NEW r \in live, JobReturns(r) \/ JobFails(r)
    PROVE  \/ \E j \in CronOnly, outcome \in Runs!Outcome : Runs!End(j, outcome)
           \/ UNCHANGED <<Up, Begun, Active, Recorded>>
<1> USE DEF IInv, CronInv
<1>1. PICK status \in Final : live' = live \ {r} /\ FinalizeRun(r, status) /\ cur' = cur
    BY DEF JobReturns, JobFails, Final, loopVars
<1>2. r \in DOMAIN runs /\ status \in Status /\ runs[r].job \in Job
    BY Heap DEF TypeOK, Status, RunRec
<1> PICK j \in Job : j = runs[r].job
    BY <1>2
<1>3. /\ runs' \in Seq(RunRec) /\ DOMAIN runs' = DOMAIN runs
      /\ \A q \in DOMAIN runs : runs'[q].job = runs[q].job
    <2>1. /\ runs' \in Seq(RunRec)
          /\ DOMAIN runs' = DOMAIN runs
          /\ \A q \in DOMAIN runs : runs'[q] =
                IF q = r THEN [job |-> j, status |-> status] ELSE runs[q]
        BY <1>1, <1>2, Heap, SetStatus DEF FinalizeRun
    <2>2. QED
        BY <2>1
<1>4. Begun' = Begun /\ Up /\ Up' = Up
    BY <1>1, <1>3, RewriteLen DEF Begun, Up, DownShape, JobReturns, JobFails
<1>5. live \subseteq DOMAIN runs
    BY DEF TypeOK
<1> DEFINE S == store[j] \cup {[run |-> r, status |-> status]}
<1>6. \/ \E T \in SUBSET S : Runs!Retained(T, S) /\ store' = [store EXCEPT ![j] = T]
      \/ SaveMayFail /\ store' = store
    <2>1. \/ store' = [store EXCEPT ![j] = Newest(S, MaxKept)]
          \/ SaveMayFail /\ store' = store
        BY <1>1 DEF FinalizeRun
    <2>2. S \in SUBSET Record /\ S # {} /\ IsFiniteSet(S)
        <3>1. store[j] \subseteq Record /\ IsFiniteSet(store[j])
            BY DEF StoreFinite, TypeOK
        <3>2. [run |-> r, status |-> status] \in Record
            BY <1>2, Heap DEF Record
        <3>3. QED
            BY <3>1, <3>2, FS_AddElement
    <2>3. \A x \in S : x.run <= Len(runs)
        BY <1>2, Heap DEF RecordsAreFinal
    <2>4. Runs!Retained(Newest(S, MaxKept), S)
        BY <2>2, <2>3, Heap, NewestRetains
    <2>5. QED
        BY <2>1, <2>4, NewestSubset
<1>7. \A i \in CronOnly : i \in Job
    BY DEF CronOnly
<1>8. CASE j \in CronOnly
    <2>1. r \in Active[j]
        BY <1>2, <1>8 DEF Active
    <2>2. \A i \in CronOnly : Active'[i] = IF i = j THEN {} ELSE Active[i]
        BY <1>1, <1>2, <1>3, <1>5 DEF Active
    <2>3. Active' = [Active EXCEPT ![j] = {}]
        BY <1>8, <2>2, ActiveFun
    <2> HIDE DEF S
    <2>4. Recorded[j] = store[j]
        BY <1>8 DEF Recorded
    <2>5. \/ \E T \in SUBSET S : Runs!Retained(T, S) /\ Recorded' = [Recorded EXCEPT ![j] = T]
          \/ SaveMayFail /\ Recorded' = Recorded
        <3>1. ASSUME NEW T, store' = [store EXCEPT ![j] = T]
              PROVE  Recorded' = [Recorded EXCEPT ![j] = T]
            <4>1. \A i \in CronOnly : store'[i] = IF i = j THEN T ELSE store[i]
                BY <1>7, <3>1 DEF TypeOK
            <4>2. QED
                BY <1>8, <4>1 DEF Recorded
        <3>2. QED
            BY <1>6, <3>1 DEF Recorded
    <2>6. status \in Runs!Outcome
        BY DEF Final, Runs!Outcome
    <2>7. Runs!End(j, status)
        BY <1>4, <2>1, <2>3, <2>4, <2>5 DEF Runs!End, Begun, Active, Recorded, S
    <2>8. QED
        BY <1>8, <2>6, <2>7
<1>9. CASE j \notin CronOnly
    <2>1. Active' = Active
        BY <1>1, <1>3, <1>5, <1>9 DEF Active
    <2>2. \A i \in CronOnly : store'[i] = store[i]
        BY <1>1, <1>7, <1>9 DEF FinalizeRun, TypeOK
    <2>3. Recorded' = Recorded
        BY <2>2 DEF Recorded
    <2>4. QED
        BY <1>4, <2>1, <2>3
<1>10. QED
    BY <1>8, <1>9

\* Every step is one of JobRuns or changes nothing there.
LEMMA RunsStep ==
    ASSUME IInv, StoreFinite, CronInv, [Next]_vars
    PROVE  Runs!Next \/ UNCHANGED <<Up, Begun, Active, Recorded>>
<1> USE DEF IInv
<1>1. CASE Boot
    <2>1. live = {} /\ cur = 0 /\ live' = {} /\ cur' = 0 /\ store' = store
        BY <1>1 DEF Boot, DownShape, LoopShape, loopVars
    <2>2. PICK registered \in SUBSET Job : LoadHistory(registered)
        BY <1>1 DEF Boot
    <2>3. runs' \in Seq(RunRec) /\ DOMAIN runs' = DOMAIN runs
        BY <2>2, Restored
    <2>4. UNCHANGED <<Begun, Active, Recorded>> /\ ~Up /\ Up'
        BY <1>1, <2>1, <2>3, RewriteLen DEF Begun, Active, Recorded, Boot, Up
    <2>5. QED
        BY <2>4 DEF Runs!Restart, Runs!Next, Begun, Active, Recorded
<1>2. CASE Crash
    <2>1. live' = {} /\ cur' = 0 /\ store' = store
        BY <1>2 DEF Crash
    <2>2. runs' \in Seq(RunRec) /\ DOMAIN runs' = DOMAIN runs
        <3>1. IInv'
            BY <1>2, CrashIInv
        <3>2. QED
            BY <1>2, <3>1 DEF Crash, TypeOK, RunRec
    <2>3. Begun' \in Nat /\ Begun' >= Begun
        <3>1. Len(runs') = Len(runs) /\ Len(runs) \in Nat
            BY <2>2, RewriteLen, Heap
        <3>2. Begun' = Len(runs)
            BY <2>1, <3>1 DEF Begun
        <3>3. QED
            BY <3>1, <3>2, BegunType
    <2>4. Active' = [j \in CronOnly |-> {}] /\ Recorded' = Recorded
        BY <2>1 DEF Active, Recorded
    <2>5. Runs!Crash
        BY <1>2, <2>3, <2>4 DEF Crash, Up, Runs!Crash, Begun, Active, Recorded
    <2>6. QED
        BY <2>5 DEF Runs!Next
<1>3. CASE Quiet
    <2>1. Up' = Up
        BY <1>3 DEF Quiet, Start, StopCancel, StopReturn,
                    MinutePasses, NewTicker, FirstTick,
           LoopTick, LoopExit, Evaluate, Reschedule, vars, Up
    <2>2. QED
        BY <1>3, <2>1, QuietFrame DEF Begun, Active, Recorded
<1>4. ASSUME NEW j \in Job, TickStamp(j) \/ \E h \in Handler : TriggerStamp(h, j)
      PROVE  Runs!Other \/ UNCHANGED <<Up, Begun, Active, Recorded>>
    <2>1. runs' = Append(runs, NewRun(j)) /\ UNCHANGED <<live, store>>
        BY <1>4 DEF TickStamp, TriggerStamp
    <2>2. /\ Len(runs') = Len(runs) + 1 /\ Len(runs) \in Nat
          /\ \A r \in DOMAIN runs : runs'[r] = runs[r]
        BY <2>1, Heap, AppendRun
    <2>3. Active' = Active /\ Recorded' = Recorded /\ Up /\ Up' = Up
        <3>1. Up /\ Up' = Up
            BY <1>4 DEF TickStamp, TriggerStamp, LoopShape, Up
        <3>2. QED
            BY <2>1, <2>2, <3>1 DEF Active, Recorded, TypeOK
    <2>4. \/ cur = 0 /\ cur' = Len(runs) + 1
          \/ cur' = cur
        BY <1>4 DEF TickStamp, TriggerStamp, loopVars
    <2>5. Begun' = Begun \/ (Begun' \in Nat /\ Begun' > Begun)
        BY <2>2, <2>4 DEF Begun
    <2>6. QED
        BY <2>3, <2>5 DEF Runs!Other, Begun, Active, Recorded
<1>5. CASE TickPublish
    BY <1>5, LaunchSim DEF Runs!Next
<1>6. ASSUME NEW h \in Handler, TriggerPublish(h)
      PROVE  UNCHANGED <<Up, Begun, Active, Recorded>>
    <2>1. /\ trig[h] # 0 /\ runs' = runs /\ live' = live \cup {trig[h]}
          /\ cur' = cur /\ store' = store /\ Up' = Up
        BY <1>6 DEF TriggerPublish, loopVars, Up
    <2>2. runs[trig[h]].job \notin CronOnly
        BY <2>1 DEF CronInv
    <2>3. \A j \in CronOnly : Active'[j] = Active[j]
        BY <2>1, <2>2 DEF Active
    <2>4. QED
        BY <2>1, <2>3, ActiveFun DEF Begun, Recorded
<1>7. CASE \E r \in live : JobReturns(r) \/ JobFails(r)
    BY <1>7, EndSim DEF Runs!Next
<1>8. CASE \E j \in Job : TickStamp(j)
    BY <1>4, <1>8 DEF Runs!Next
<1>9. CASE \E h \in Handler, j \in Job : TriggerStamp(h, j)
    BY <1>4, <1>9 DEF Runs!Next
<1>10. QED
    BY <1>1, <1>2, <1>3, <1>5, <1>6, <1>7, <1>8, <1>9 DEF Next, Quiet

\* For the jobs that nobody triggers the scheduler implements JobRuns: for all
\* schedules and limits, through crashes, failed saves and whatever API clients
\* do with the other jobs.
THEOREM Refinement == Spec => ImplementsJobRuns
<1>1. Init => Runs!Init
    <2>1. Init => ~Up /\ Begun = 0 /\ Active = [j \in CronOnly |-> {}]
                  /\ Recorded = [j \in CronOnly |-> {}]
        BY DEF Init, Up, Begun, Active, Recorded, CronOnly
    <2>2. QED
        BY <2>1 DEF Runs!Init, Begun, Active, Recorded
<1>2. IInv /\ StoreFinite /\ CronInv /\ [Next]_vars => [Runs!Next]_<<Up, Begun, Active, Recorded>>
    BY RunsStep
<1>3. IInv /\ StoreFinite /\ CronInv /\ [Next]_vars => [Runs!Next]_(Runs!rvars)
    BY <1>2 DEF Runs!rvars, Begun, Active, Recorded
<1>4. Init => StoreFinite
    BY FS_EmptySet DEF Init, StoreFinite
<1>5. IInv /\ StoreFinite /\ [Next]_vars => StoreFinite'
    BY FiniteStep DEF IInv
<1>6. QED
    BY <1>1, <1>3, <1>4, <1>5, CronInvariance, Invariance, PTL
       DEF Spec, ImplementsJobRuns, Runs!Spec
=============================================================================
