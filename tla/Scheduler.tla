------------------------------ MODULE Scheduler ------------------------------
(***************************************************************************)
(* The job scheduler of internal/scheduler/scheduler.go: the job registry, *)
(* the minute loop that launches cron jobs, the API handlers that trigger  *)
(* and reschedule them, the goroutines the jobs run in, and the history    *)
(* records they leave behind.  One process runs it; it may crash at any    *)
(* step and be started again by systemd on the same history.               *)
(*                                                                         *)
(* What is one step here holds the scheduler's mutex in the code, or       *)
(* touches state of one goroutine only.  Launching a run is two steps,     *)
(* because TriggerJobAsync and tick read the clock for StartedAt before    *)
(* they take the lock to publish the run.                                  *)
(*                                                                         *)
(* Simplifications.  A run is its position in `runs', so the order of run  *)
(* numbers is the order of StartedAt: two clock readings never tie and the *)
(* clock never steps back.  Minutes are numbered, and an expression        *)
(* matches a minute by its number modulo Period (module Cron has the       *)
(* calendar).  The store saves at once or fails (module JSONStore has its  *)
(* steps).  TriggerJob, which tracks nothing, changes no state.            *)
(***************************************************************************)
EXTENDS Integers, Sequences, FiniteSets

CONSTANTS
    Job,        \* job identifiers
    Runnable,   \* the jobs whose Func is not nil
    Handler,    \* concurrent API calls of TriggerJobAsync
    Triggered,  \* the jobs that API clients trigger
    Cron,       \* the non-empty cron expressions in use
    NoCron,     \* the empty expression: a job that only runs when triggered
    Absent,     \* a missing map entry
    Matches,    \* the expressions parseCron accepts, each with its minutes
    Declared,   \* the expressions the plugins declare for each job at boot
    Period,     \* matching repeats every Period minutes
    MaxKept,    \* JobHistoryMax: records kept per job, 0 for all
    SaveMayFail,\* whether SaveRun may return an error
    MaxRuns,    \* bound: runs started over the whole behaviour
    MaxMinute   \* bound: minutes that pass

Expr == Cron \cup {NoCron}
Valid == DOMAIN Matches
Final == {"completed", "failed"}
Status == {"running", "gone"} \cup Final

ASSUME JobAssumption == /\ Runnable \subseteq Job /\ Triggered \subseteq Job
                        /\ Declared \in [Job -> SUBSET Expr]
ASSUME CronAssumption == /\ Valid \subseteq Cron
                         /\ NoCron \notin Cron
                         /\ Absent \notin Expr
                         /\ \A e \in Valid : Matches[e] \subseteq 0 .. Period - 1
ASSUME BoundAssumption == /\ Period \in Nat \ {0}
                          /\ MaxKept \in Nat
                          /\ MaxRuns \in Nat
                          /\ MaxMinute \in Nat
                          /\ SaveMayFail \in BOOLEAN

VARIABLES
    \* Scheduler's fields, guarded by s.mu
    jobs,       \* s.jobs: the Cron field of each registered job
    scheds,     \* s.scheds: the expression each job's cached schedule parses
    lastRuns,   \* s.lastRuns: pointer to the job's latest run, 0 for none
    runs,       \* the JobRun objects, in the order of their StartedAt
    \* goroutines
    live,       \* the runs whose goroutine has not finished
    trig,       \* per API call: the run stamped and not yet published, or 0
    loop,       \* where Scheduler.run is
    snapshot,   \* tick's snapshot: the jobs it still has to launch
    cur,        \* tick: the run stamped and not yet published, or 0
    \* the clock, and the ticker's channel (capacity 1, 0 when empty)
    minute,
    tickC,
    armed,      \* the minute in which run() armed its align timer, then made
                \* its ticker
    evaluated,  \* history: the latest minute tick was called with
    \* the process and what outlives it
    ctl,        \* the main goroutine's view: down, stopped, started, stopping
    store       \* the persisted records of each job

memory == <<jobs, scheds, lastRuns, runs>>
loopVars == <<loop, snapshot, cur, tickC, armed, evaluated>>
vars == <<memory, live, trig, loopVars, minute, ctl, store>>

Record == [run : Nat \ {0}, status : Final]

TypeOK ==
    /\ jobs \in [Job -> Expr \cup {Absent}]
    /\ scheds \in [Job -> Valid \cup {Absent}]
    /\ lastRuns \in [Job -> Nat]
    /\ runs \in Seq([job : Job, status : Status])
    /\ live \subseteq DOMAIN runs
    /\ trig \in [Handler -> Nat]
    /\ loop \in {"off", "align", "first", "wait", "launch"}
    /\ snapshot \subseteq Job
    /\ cur \in Nat
    /\ minute \in Nat
    /\ tickC \in Nat
    /\ armed \in Nat
    /\ evaluated \in Nat
    /\ ctl \in {"down", "stopped", "started", "stopping"}
    /\ store \in [Job -> SUBSET Record]

-----------------------------------------------------------------------------
(* Helpers *)

Up == ctl # "down"
LastStatus(j) == IF lastRuns[j] = 0 THEN "none" ELSE runs[lastRuns[j]].status

\* Mutant of Newest: prunes from the wrong end.
NewestPrunesNewest(S, n) ==
    {x \in S : n = 0 \/ Cardinality({y \in S : y.run < x.run}) < n}

\* The n newest of a set of records by StartedAt; 0 keeps them all.
Newest(S, n) ==
    {x \in S : n = 0 \/ Cardinality({y \in S : y.run > x.run}) < n}

\* Mutant of Due: no overlap guard.
DueUnguarded(t) == {j \in Job : /\ jobs[j] \notin {Absent, NoCron}
                                /\ j \in Runnable
                                /\ scheds[j] # Absent
                                /\ t % Period \in Matches[scheds[j]]}

\* The jobs tick(t) selects under the read lock: scheduled, runnable, parsed,
\* whose latest run is not running, and matching.
Due(t) == {j \in Job : /\ jobs[j] \notin {Absent, NoCron}
                       /\ j \in Runnable
                       /\ scheds[j] # Absent
                       /\ LastStatus(j) # "running"
                       /\ t % Period \in Matches[scheds[j]]}

\* Bound: a step that commits the loop to n launches leaves room for them, and
\* the making of a ticker leaves room for those of its first evaluation.
RoomFor(n) ==
    LET reserved == IF loop = "first" THEN Cardinality(Runnable) ELSE 0
    IN  Len(runs) + Cardinality(snapshot) + reserved + n <= MaxRuns

Init ==
    /\ jobs = [j \in Job |-> Absent]
    /\ scheds = [j \in Job |-> Absent]
    /\ lastRuns = [j \in Job |-> 0]
    /\ runs = << >>
    /\ live = {}
    /\ trig = [h \in Handler |-> 0]
    /\ loop = "off"
    /\ snapshot = {}
    /\ cur = 0
    /\ minute = 1
    /\ tickC = 0
    /\ armed = 0
    /\ evaluated = 0
    /\ ctl = "down"
    /\ store = [j \in Job |-> {}]

-----------------------------------------------------------------------------
(* The process: main's calls, and its end *)

\* What RegisterJobs makes of one job's declarations: the first that is new
\* and parses wins, in an order the plugin registry does not fix.
Registrations(j) ==
    LET accepted == Declared[j] \cap (Valid \cup {NoCron})
    IN  IF accepted = {} THEN {Absent} ELSE accepted

\* The record JobStore.LatestRun returns.
LatestRecord(j) ==
    CHOOSE rec \in store[j] : \A other \in store[j] : other.run <= rec.run

\* Mutant of LoadHistory: main leaves the call out.
LoadHistoryLeftOut(registered) ==
    /\ lastRuns' = [j \in Job |-> 0]
    /\ UNCHANGED runs

\* LoadHistory: each job of `registered' that has records gets a JobRun made
\* of the latest one.
LoadHistory(registered) ==
    LET known == {j \in registered : store[j] # {}}
    IN  /\ lastRuns' = [j \in Job |-> IF j \in known THEN LatestRecord(j).run ELSE 0]
        /\ runs' = [r \in DOMAIN runs |->
              IF \E j \in known : LatestRecord(j).run = r
              THEN [runs[r] EXCEPT !.status = LatestRecord(runs[r].job).status]
              ELSE runs[r]]

\* main: New, RegisterJobs, LoadHistory.
Boot ==
    /\ ctl = "down"
    /\ ctl' = "stopped"
    /\ \E registry \in [Job -> Expr \cup {Absent}] :
          /\ \A j \in Job : registry[j] \in Registrations(j)
          /\ jobs' = registry
          /\ scheds' = [j \in Job |->
                IF registry[j] \in Valid THEN registry[j] ELSE Absent]
          /\ LoadHistory({j \in Job : registry[j] # Absent})
    /\ UNCHANGED <<live, trig, loopVars, minute, store>>

\* Start: a no-op unless s.cancel is nil.
Start ==
    /\ ctl = "stopped"
    /\ ctl' = "started"
    /\ loop' = "align"
    /\ armed' = minute
    /\ UNCHANGED <<memory, live, trig, snapshot, cur, tickC, evaluated, minute, store>>

\* Stop, up to its wait for s.done.
StopCancel ==
    /\ ctl = "started"
    /\ ctl' = "stopping"
    /\ UNCHANGED <<memory, live, trig, loopVars, minute, store>>

\* Stop, once run() has closed s.done.
StopReturn ==
    /\ ctl = "stopping"
    /\ loop = "off"
    /\ ctl' = "stopped"
    /\ UNCHANGED <<memory, live, trig, loopVars, minute, store>>

\* The process ends, by a crash or by main returning: memory and goroutines
\* are gone, and with them every run that had not been recorded.
Crash ==
    /\ Up
    /\ ctl' = "down"
    /\ jobs' = [j \in Job |-> Absent]
    /\ scheds' = [j \in Job |-> Absent]
    /\ lastRuns' = [j \in Job |-> 0]
    /\ runs' = [r \in DOMAIN runs |-> [runs[r] EXCEPT !.status = "gone"]]
    /\ live' = {}
    /\ trig' = [h \in Handler |-> 0]
    /\ loop' = "off"
    /\ snapshot' = {}
    /\ cur' = 0
    /\ tickC' = 0
    /\ UNCHANGED <<armed, evaluated, minute, store>>

-----------------------------------------------------------------------------
(* Scheduler.run and tick *)

\* A minute passes.  A ticker that finds its channel full drops the tick.
MinutePasses ==
    /\ minute < MaxMinute
    /\ minute' = minute + 1
    /\ tickC' = IF loop \in {"first", "wait", "launch"} /\ tickC = 0
                  THEN minute + 1
                  ELSE tickC
    /\ UNCHANGED <<memory, live, trig, loop, snapshot, cur, armed, evaluated, ctl, store>>

\* tick's first half, called with minute t.
Evaluate(t) ==
    /\ snapshot' = Due(t)
    /\ evaluated' = IF t > evaluated THEN t ELSE evaluated
    /\ loop' = IF Due(t) = {} THEN "wait" ELSE "launch"
    /\ UNCHANGED <<memory, live, trig, cur, armed, minute, ctl, store>>

\* Mutant of NewTicker: does not wait for the next minute.
NewTickerAtOnce ==
    /\ loop = "align"
    /\ RoomFor(Cardinality(Runnable))
    /\ loop' = "first"
    /\ armed' = minute
    /\ UNCHANGED <<memory, live, trig, snapshot, cur, tickC, evaluated, minute, ctl, store>>

\* The align timer fires and run() makes its ticker, whose ticks count from
\* here ...
NewTicker ==
    /\ loop = "align"
    /\ minute > armed
    /\ RoomFor(Cardinality(Runnable))
    /\ loop' = "first"
    /\ armed' = minute
    /\ UNCHANGED <<memory, live, trig, snapshot, cur, tickC, evaluated, minute, ctl, store>>

\* ... then it reads the clock once more, for its first call of tick.
FirstTick ==
    /\ loop = "first"
    /\ Evaluate(minute)
    /\ UNCHANGED tickC

\* run() receives a tick, the one the channel kept if it is late.  When the
\* context is done too, select picks either.
LoopTick ==
    /\ loop = "wait"
    /\ tickC # 0
    /\ RoomFor(Cardinality(Due(tickC)))
    /\ Evaluate(tickC)
    /\ tickC' = 0

\* Mutants of LoopExit: leaves in the middle of a launch; has no ctx.Done()
\* case in the ticker's select.
LoopExitMidLaunch ==
    /\ ctl = "stopping"
    /\ loop \in {"align", "first", "wait", "launch"}
    /\ loop' = "off"
    /\ tickC' = 0
    /\ UNCHANGED <<memory, live, trig, snapshot, cur, armed, evaluated, minute, ctl, store>>

LoopExitOnlyAligning ==
    /\ ctl = "stopping"
    /\ loop = "align"
    /\ loop' = "off"
    /\ tickC' = 0
    /\ UNCHANGED <<memory, live, trig, snapshot, cur, armed, evaluated, minute, ctl, store>>

\* run() sees ctx.Done(): in its two selects, never between them or while it
\* launches.
LoopExit ==
    /\ ctl = "stopping"
    /\ loop \in {"align", "wait"}
    /\ loop' = "off"
    /\ tickC' = 0
    /\ UNCHANGED <<memory, live, trig, snapshot, cur, armed, evaluated, minute, ctl, store>>

NewRun(j) == [job |-> j, status |-> "running"]

\* tick's second half for one job: it reads the clock ...
TickStamp(j) ==
    /\ loop = "launch"
    /\ cur = 0
    /\ j \in snapshot
    /\ runs' = Append(runs, NewRun(j))
    /\ cur' = Len(runs) + 1
    /\ snapshot' = snapshot \ {j}
    /\ UNCHANGED <<jobs, scheds, lastRuns, live, trig, loop, tickC, armed,
                   evaluated, minute, ctl, store>>

\* Mutant of TickPublish: the loop goes back to its select after one launch.
TickPublishOnce ==
    /\ loop = "launch"
    /\ cur # 0
    /\ lastRuns' = [lastRuns EXCEPT ![runs[cur].job] = cur]
    /\ live' = live \cup {cur}
    /\ cur' = 0
    /\ loop' = "wait"
    /\ UNCHANGED <<jobs, scheds, runs, trig, snapshot, tickC, armed,
                   evaluated, minute, ctl, store>>

\* ... then publishes the run under the lock and starts its goroutine.
TickPublish ==
    /\ loop = "launch"
    /\ cur # 0
    /\ lastRuns' = [lastRuns EXCEPT ![runs[cur].job] = cur]
    /\ live' = live \cup {cur}
    /\ cur' = 0
    /\ loop' = IF snapshot = {} THEN "wait" ELSE "launch"
    /\ UNCHANGED <<jobs, scheds, runs, trig, snapshot, tickC, armed,
                   evaluated, minute, ctl, store>>

-----------------------------------------------------------------------------
(* API calls and job goroutines *)

\* TriggerJobAsync up to its clock reading: a job that is registered and has
\* a function (every other call returns an error and changes nothing).
TriggerStamp(h, j) ==
    /\ Up
    /\ trig[h] = 0
    /\ jobs[j] # Absent
    /\ j \in Runnable \cap Triggered
    /\ RoomFor(1)
    /\ runs' = Append(runs, NewRun(j))
    /\ trig' = [trig EXCEPT ![h] = Len(runs) + 1]
    /\ UNCHANGED <<jobs, scheds, lastRuns, live, loopVars, minute, ctl, store>>

\* TriggerJobAsync's locked section and its go statement.
TriggerPublish(h) ==
    /\ trig[h] # 0
    /\ lastRuns' = [lastRuns EXCEPT ![runs[trig[h]].job] = trig[h]]
    /\ live' = live \cup {trig[h]}
    /\ trig' = [trig EXCEPT ![h] = 0]
    /\ UNCHANGED <<jobs, scheds, runs, loopVars, minute, ctl, store>>

\* Mutant of FinalizeRun: the record says "completed" whatever happened.
FinalizeRunLosesOutcome(r, status) ==
    /\ runs' = [runs EXCEPT ![r].status = status]
    /\ LET j == runs[r].job
           saved == Newest(store[j] \cup {[run |-> r, status |-> "completed"]}, MaxKept)
       IN  \/ store' = [store EXCEPT ![j] = saved]
           \/ SaveMayFail /\ UNCHANGED store

\* Mutant of FinalizeRun: the outcome goes to the store only.
FinalizeRunSavesOnly(r, status) ==
    /\ UNCHANGED runs
    /\ LET j == runs[r].job
           saved == Newest(store[j] \cup {[run |-> r, status |-> status]}, MaxKept)
       IN  \/ store' = [store EXCEPT ![j] = saved]
           \/ SaveMayFail /\ UNCHANGED store

\* finalizeRun: the outcome is set and saved in one locked section; an error
\* of the store is only logged.
FinalizeRun(r, status) ==
    /\ runs' = [runs EXCEPT ![r].status = status]
    /\ LET j == runs[r].job
           saved == Newest(store[j] \cup {[run |-> r, status |-> status]}, MaxKept)
       IN  \/ store' = [store EXCEPT ![j] = saved]
           \/ SaveMayFail /\ UNCHANGED store

\* A job's function returns nil.
JobReturns(r) ==
    /\ r \in live
    /\ live' = live \ {r}
    /\ FinalizeRun(r, "completed")
    /\ UNCHANGED <<jobs, scheds, lastRuns, trig, loopVars, minute, ctl>>

\* Mutant of JobFails: the recovered panic does not finalize the run.
JobFailsUnfinalized(r) ==
    /\ r \in live
    /\ live' = live \ {r}
    /\ UNCHANGED <<memory, trig, loopVars, minute, ctl, store>>

\* A job's function returns an error, or panics and is recovered.
JobFails(r) ==
    /\ r \in live
    /\ live' = live \ {r}
    /\ FinalizeRun(r, "failed")
    /\ UNCHANGED <<jobs, scheds, lastRuns, trig, loopVars, minute, ctl>>

\* Mutants of Reschedule: the error of parseCron is ignored; disabling a job
\* keeps its cached schedule.
RescheduleUnparsed(j, expr) ==
    /\ jobs[j] # Absent
    /\ jobs' = [jobs EXCEPT ![j] = expr]
    /\ scheds' = [scheds EXCEPT ![j] = IF expr = NoCron THEN Absent ELSE expr]
    /\ UNCHANGED <<lastRuns, runs, live, trig, loopVars, minute, ctl, store>>

RescheduleKeepsCache(j, expr) ==
    /\ jobs[j] # Absent
    /\ expr \in Valid \cup {NoCron}
    /\ jobs' = [jobs EXCEPT ![j] = expr]
    /\ scheds' = [scheds EXCEPT ![j] = IF expr = NoCron THEN @ ELSE expr]
    /\ UNCHANGED <<lastRuns, runs, live, trig, loopVars, minute, ctl, store>>

\* Reschedule with an expression that parses, or the empty one.
Reschedule(j, expr) ==
    /\ jobs[j] # Absent
    /\ expr \in Valid \cup {NoCron}
    /\ jobs' = [jobs EXCEPT ![j] = expr]
    /\ scheds' = [scheds EXCEPT ![j] = IF expr = NoCron THEN Absent ELSE expr]
    /\ UNCHANGED <<lastRuns, runs, live, trig, loopVars, minute, ctl, store>>

-----------------------------------------------------------------------------
LoopStep ==
    NewTicker \/ FirstTick \/ LoopTick \/ (\E j \in Job : TickStamp(j)) \/ TickPublish
JobEnds(r) == JobReturns(r) \/ JobFails(r)

Next ==
    \/ Boot
    \/ Start
    \/ StopCancel
    \/ StopReturn
    \/ Crash
    \/ MinutePasses
    \/ NewTicker
    \/ FirstTick
    \/ LoopTick
    \/ LoopExit
    \/ \E j \in Job : TickStamp(j)
    \/ TickPublish
    \/ \E h \in Handler, j \in Job : TriggerStamp(h, j)
    \/ \E h \in Handler : TriggerPublish(h)
    \/ \E r \in live : JobReturns(r)
    \/ \E r \in live : JobFails(r)
    \/ \E j \in Job, expr \in Expr : Reschedule(j, expr)

Spec == Init /\ [][Next]_vars

\* Fairness.  The Go runtime schedules every runnable goroutine and hands the
\* mutex to every waiter, select picks among ready cases at random (SF), and
\* the environment's part is that a job's function ends.
Fairness ==
    /\ WF_vars(StopReturn)
    /\ WF_vars(LoopStep)
    /\ SF_vars(LoopExit)
    /\ \A h \in Handler : WF_vars(TriggerPublish(h))
    /\ \A r \in 1 .. MaxRuns : WF_vars(r \in live /\ JobEnds(r))

FairSpec == Spec /\ Fairness

-----------------------------------------------------------------------------
(* Properties *)

\* The cached schedule of a job is always the parse of its expression, and a
\* job has one exactly when its expression is not empty: the loop's "cron
\* schedule missing" branch is dead.
ScheduleCacheCoherent ==
    \A j \in Job : scheds[j] = IF jobs[j] \in Valid THEN jobs[j] ELSE Absent

\* The overlap guard is exact for the run it looks at: the latest run says
\* "running" just when its goroutine has not finished, whatever panics,
\* crashes and restarts came before.  A stale "running" would keep the job
\* from ever being launched again, a stale end would let it overlap.
GuardIsExact ==
    \A j \in Job : (LastStatus(j) = "running") <=> (lastRuns[j] \in live)

\* A run leaves at most one record, under its own job, only once it has ended;
\* and its JobRun in memory, while there is one, agrees with the record.
RecordsAreFinal ==
    \A j \in Job : \A rec \in store[j] :
        /\ rec.run \in DOMAIN runs \ live
        /\ runs[rec.run].job = j
        /\ runs[rec.run].status \in {rec.status, "gone"}
        /\ \A other \in store[j] : other.run = rec.run => other = rec

\* After Stop returns, and until the next Start, the loop launches nothing.
StopQuiesces ==
    ctl \in {"stopped", "down"} => loop = "off" /\ snapshot = {} /\ cur = 0

\* tick is called with later and later minutes, across late ticks, dropped
\* ticks, Stop followed by Start, and restarts, with one exception: when the
\* loop is held up between making its ticker and its own first call of tick
\* until the minute is over, the ticker's first tick is of a minute that has
\* been evaluated, or that comes before it.
MinutesAdvance ==
    [][FirstTick \/ LoopTick =>
          evaluated' > evaluated \/ (LoopTick /\ tickC = armed + 1)]_vars

\* SPEC.md: "if a job is still running when the next tick fires, the tick is
\* skipped for that job".
TickSkipsRunning ==
    [][\A j \in snapshot' \ snapshot : \A r \in live : runs[r].job # j]_vars

\* The jobs that are left to cron.
CronOnly == Job \ Triggered

\* No two goroutines run the same job, if it is one that nobody triggers,
\* whatever clients do to the others.
AtMostOneLive ==
    \A r, q \in live : runs[r].job = runs[q].job /\ runs[r].job \in CronOnly => r = q

\* LatestRun's comment: "returns the most recent run record for a job".  No
\* published run that is still known, in memory or in the store, is newer.
LatestIsNewest ==
    \A j \in CronOnly : jobs[j] # Absent =>
        /\ \A r \in live : runs[r].job = j => r <= lastRuns[j]
        /\ \A rec \in store[j] : rec.run <= lastRuns[j]

\* While a job is idle, GET runs/latest and the first entry of GET runs are
\* the same run with the same outcome.
IdleLatestIsRecorded ==
    \A j \in CronOnly : lastRuns[j] # 0 /\ (\A r \in live : runs[r].job # j) =>
        /\ lastRuns[j] = LatestRecord(j).run
        /\ LastStatus(j) = LatestRecord(j).status

\* For the jobs left to cron the scheduler is an implementation of JobRuns,
\* across late ticks, reschedules, failed saves, crashes and restarts, and
\* beside the triggered runs of other jobs.
Runs == INSTANCE JobRuns WITH
    Job <- CronOnly,
    up <- Up,
    begun <- IF cur = 0 THEN Len(runs) ELSE cur - 1,
    active <- [j \in CronOnly |-> {r \in live : runs[r].job = j}],
    recorded <- [j \in CronOnly |-> store[j]]
ImplementsJobRuns == Runs!Spec

\* Stop returns: the loop always comes back to a select that sees the cancel.
StopReturns == (ctl = "stopping") ~> (ctl \in {"stopped", "down"})

\* A job that tick selected is launched, unless the process ends.
DueIsLaunched == \A j \in Job : (j \in snapshot) ~> (j \notin snapshot)

\* Every run ends, or its process does: from the moment it is stamped, through
\* its publication, whatever Stop, ticks and other runs of the job come between.
EveryRunEnds ==
    LET Running(r) == r \in DOMAIN runs /\ runs[r].status = "running"
    IN  \A r \in 1 .. MaxRuns : Running(r) ~> ~ Running(r)

=============================================================================
