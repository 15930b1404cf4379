# config-manager-core in TLA+

TLA+ modules for the core of `cm`, the Go service that runs configuration
plugins on a node: the job scheduler, its cron expressions, the job history on
disk, the API handlers that change state, the life of `cm` processes, and the
files a node keeps from one process to the next. TLC
checks small instances; TLAPS proves the main safety properties for every
value of the constants.

## 1. Inventory

| Component | Code | State | Operations | Modules |
|---|---|---|---|---|
| Scheduler | `internal/scheduler/scheduler.go` | `jobs`, `scheds`, `lastRuns` under `s.mu`; the loop goroutine; one goroutine per run | RegisterJobs, LoadHistory, Start, Stop, run/tick, TriggerJobAsync, finalizeRun, Reschedule, TriggerJob, LatestRun, ListJobs | JobRuns, Scheduler |
| Cron expressions | `internal/scheduler/cron.go` | none | parseCron, matches, ValidateCron | Cron |
| Job history store | `internal/storage/json.go`, `store.go` | cache `s.records`, `s.maxN`, the history file | NewJSONStore, SaveRun, LatestRun, ListRuns, Prune | RunRecords, JSONStore, RunHistory |
| Run listing API | `internal/api/routes.go` (handleListRuns) | none of its own | one page per request | HistoryPaging |
| Plugin settings API | `internal/api/routes.go` (updatePluginConfig), `internal/config/config.go` (SetPluginConfig, Save) | `s.cfgMu`, the Config, the plugin's memory, the config file, the scheduler's expression | GET and PUT `/plugins/{name}/settings` | SettingsRegister, PluginSettings |
| Process lifecycle | `cmd/cm/main.go`, `internal/api/server.go` | mode, scheduler, server and its `errCh`, `exitFailed`, signal channels | probe, start, signal, server failure, TUI end, drain, stop, shutdown | Lifecycle |
| Configuration file | `internal/config/config.go` | Config, `config.yaml` | Load, defaults, environment, SetPluginConfig, Save | Configuration, Node |
| Token file and bearer authentication | `cmd/cm/main.go` (loadToken, generateToken), `internal/api/auth.go` | `auth.token`, the server's token | load, rotate, admit a request | Node |
| Plugin registry | `plugin/registry.go` | the global map of plugins | Register, DisableExcept, Get, AllJobs | Configuration, Node; AllJobs in Scheduler |
| Storage backend registry | `internal/storage/register.go` | a map filled in `init` | New | its refusals, in Configuration |
| Core routes, logging | `internal/api/routes.go`, `internal/logging` | none | reads; output | not modelled |
| TUI, web UI, plugins | other repositories | | | external |
| Packaging | `nfpm.yaml`, `packaging/` | | | not modelled |

How they interact. `main` loads the configuration, configures the plugins,
opens the history store, builds the scheduler (`New`, `RegisterJobs`,
`LoadHistory`) and, unless it becomes a client of a running service, starts the
scheduler's loop and the API server, each in a goroutine of its own. The loop
calls `tick` each minute; `tick` snapshots due jobs under the read lock and
launches them afterwards. API handlers call `TriggerJobAsync` and `Reschedule`
concurrently. A job's goroutine calls `finalizeRun`, which saves the run in the
store while it holds `s.mu`. The settings handler changes the plugin, the
Config and the file under `cfgMu`, and the scheduler after it has released
`cfgMu`. The server reports its end through `Err()`, which headless `main` reads
itself and a TUI's monitor goroutine reads for it.

What is hard, and the property that states it (`PROJECT.json` lists each at its
line under `hazards`):

* **overlap protection** looks at the latest run only, from a snapshot taken
  before the launch (TickSkipsRunning, AtMostOneLive, GuardIsExact);
* **time stamps before locks**: StartedAt is read before the run is published,
  and the ticker is made before the clock is read for the first tick;
* **late, dropped and repeated ticks** across Stop/Start (MinutesAdvance);
* **stopping** while a tick launches (StopQuiesces, StopReturns, DueIsLaunched);
* **panics, failed saves, crashes** between start and record (GuardIsExact,
  RecordsAreFinal, LatestIsNewest, IdleLatestIsRecorded, EveryRunEnds);
* **the same expression in other words**, boundaries of steps and ranges, the
  weekday 7 (FiresWhenDue, Cron's TypeOK, ShortcutsAreOnTime);
* **a rewrite of the history file** cut at any step, by a process crash or a
  power cut (NeverTorn, AckedIsDurable, RestartShowsTheSame), with limits that
  change between starts and runs that end out of order (CacheOrdered,
  ImplementsRunHistory);
* **paging by offset** through a list that changes (NoSkip);
* **four copies of a setting**, three under one lock and one outside
  (PlacesAgree, ImplementsRegister, SchedulerFollowsPlugin);
* **what one process leaves to the next**: a file that Save wrote from a Config
  with another environment merged in, with other plugins enabled, or from before
  an edit (AcceptedIsKept, GlobalsAreTheAdmins, EnvIsTransient), one the next
  start refuses (SavedFileStarts), a token file cut short
  (AuthNeverLapses);
* **two goroutines that read one error channel**, signals that race with
  failures, two processes on one port (HeadlessFailureReported, ExitIsClean,
  DuplicateEnds, SignalEnds).

## 2. Modules and how they correspond to the code

`PROJECT.json` maps each definition to its lines. Each module's opening comment
lists its simplifications.

**Scheduler.** What holds `s.mu` in one go is one action. A launch is two:
`TickStamp`/`TriggerStamp` read the clock, `TickPublish`/`TriggerPublish` take
the lock, replace `lastRuns` and start the goroutine. `lastRuns` points to a
`JobRun` on the heap, so `runs` is that heap, in the order of StartedAt, and
`lastRuns[j]` an index; this is what makes "the latest run ended while an older
one is live" expressible. `ctl` is where main is (down, stopped, started,
stopping); `loop` where `run()` is. `MinutePasses` is the clock and the ticker:
a full channel drops the tick. `NewTicker` and `FirstTick` are apart because `run()`
reads the clock for its first tick after it has made the ticker: a minute may pass
in between, and then the ticker's first tick is already in the channel. `Boot` takes the jobs from what the plugins
declare; of several declarations of one ID any may win, because
`Registry.AllJobs` walks a map. `Crash` is any end of the process, systemd's
restart is `Boot` again. The store is atomic here: `FinalizeRun` saves or, when
`SaveMayFail`, does not; JSONStore justifies that.

`Triggered` is the environment's: the jobs API clients trigger; the others,
`CronOnly`, are left to cron.

**JobRuns** is what the scheduler promises for jobs that only cron starts: a run
begins only when its job is idle, ends once, and leaves one record of its
outcome or, when the store fails, none; otherwise only the end of the process ends it.
Scheduler implements it for the jobs in `CronOnly` (`ImplementsJobRuns`), beside
whatever clients trigger of the others: `active` is the live runs, `begun` the
numbers given up to the run the loop is about to publish.

**RunRecords** has the pure operators on a job's record list (sort, keep the
last n, insert, prune, page). **JSONStore** has the store on a file system that
distinguishes what processes see (`file`) from what a power cut may leave
(`survivors`): unsynced data may be lost, a rename may be undone until the
directory is synced. The steps of `writeLocked` that change what is on disk are
actions; the others can only fail, which `TempFails` covers. **RunHistory** is
what `JobStore` promises: a set of records per job that changes atomically.
JSONStore refines it (`ImplementsRunHistory`).

**HistoryPaging** composes `RunRecords` with a client of
`GET /jobs/{id}/runs` that continues at the number of entries it has got.

**PluginSettings** has one PUT as five steps: `Apply` (lock, UpdateConfig),
`Record` (SetPluginConfig), `Marshal` and `Save`/`SaveFails` (Config.Save,
unlock) and `Reschedule`, outside the lock. Three history variables belong to
properties only: `unsaved`, `stale` (a request was answered with an error or a
warning and the scheduler not told), `raced` (a schedule was saved while
another was on its way to the scheduler).

**SettingsRegister** is what the settings are to a client: a register updated by
one request at a time, in force at once, saved as a whole or reported as unsaved,
and after a restart what was last saved. PluginSettings refines it
(`ImplementsRegister`): what is in force is the plugin's memory, what is saved the
file, an update is under way while `cfgMu` is held. Only a restart falls back to
what was saved. The scheduler has no part
in it: settings_race shows why.

**Configuration** has the pure part of the configuration: defaults, file over
defaults, environment over file (`Load`), `SetPluginConfig`, what
`DisableExcept` leaves and what `storage.New` accepts. **Node** follows the two
files through starts in different environments, PUTs of settings, edits,
rotations of the token, crashes and power cuts. A start is one action (`main` is
sequential up to the servers, and a start that is refused changes nothing); a
PUT is two, up to the rename and the rename; a rotation is two, `os.WriteFile`'s
truncation and its write. Lifecycle has the concurrency inside a process, Node
what lasts beyond it; PluginSettings has PUTs that overlap. `edited`, `behind`,
`overwritten`, `leaked`, `accepted`, `flushed`, `tokenKept` are history
variables: what the administrator left, which saves the properties must except,
and what has been promised.

**Cron** parses one expression per behaviour and runs the clock through a whole
calendar. `parsePart`, `parseDOWPart`, `allSet`, `parseCron` and `Matches`
follow the code's order of decisions; `Denoted`, `DueAt` define independently
what an expression means. A field is a sequence of already split parts, so
tokenising and names are left out.

**Lifecycle** has per process the program counter of `main`, the server's
goroutine, the TUI's monitor and signal forwarder, `errCh`, `exitFailed` and
the signal channel. Processes share a port: `Listen` succeeds only when nobody
serves, and the probe sees only a process that serves.

## 3. Runs

All bounds are in the `.cfg` files and the MC modules.

| Run | Shows | Bounds and why they suffice |
|---|---|---|
| scheduler_safety | type correctness, coherence of `jobs` and `scheds`, exactness of the guard, finality of records, quiescence after Stop, minutes in order but for the one tick MinutesAdvance names | two jobs, one of them with a valid and an invalid declaration, one API caller, failing saves, three runs, four minutes: room for a live run, one that replaces it and one that waits, for a late first tick, the tick it leaves in the channel and the next one, and for Stop and Start between minutes |
| scheduler_cron | for a job that nobody triggers, beside one that a client triggers: no overlap, LatestRun newest and recorded; under fairness Stop returns, selected jobs are launched, every stamped run ends; Scheduler implements JobRuns | one record kept, three runs, three minutes: a history that is pruned, restarts that load it, triggered runs stamped and published between any two steps of the loop |
| scheduler_overlap | *violation*: with manual triggers a cron run starts beside a live one | one job, three runs |
| cron | an accepted expression fires in exactly the minutes its meaning gives; no field is empty; @-names are on time | about 4,700 expressions: every value, range and step up to one past each field's end on a calendar with 2 minutes, 2 hours, months of 3 and 2 days and real weeks; the parser treats the fields alike except for the weekday, which has its real range |
| json_store | order, limit, agreement of memory and file, durability, atomic replacement, refinement of RunHistory | two jobs, up to three records out of order, limits none and 2, a size limit of 3 records, starts from no file, garbage and an unsorted file; every step may fail, the directory sync too, crash or lose power |
| history_paging | paging misses no record that stays; a quiet listing is exact | five runs ending in any order, three kept, page sizes 1 to 3: several pages with insertions and pruning before, at and after the offset |
| settings | plugin, Config and file agree outside the lock and together implement SettingsRegister; the scheduler follows | two PUTs at a time on two keys, three schedules, one of which the scheduler refuses, failing saves, restarts. Three PUTs give no new result and the theorem covers any number |
| settings_race | *violation*: the last update is not the one in force | two PUTs, saves that do not fail |
| node | accepted settings stay, Save leaves the globals alone and writes nothing the service cannot start from, alone or in the environment it ran in, authentication does not lapse | two plugins with one setting of two values, four files an administrator may leave (none, garbage, one that disables a plugin, one main refuses), six environments (overrides that are taken, ignored, refused), two PUTs, an edit and a rotation: a PUT before and one after an edit, a start or a disabled plugin; a third PUT only repeats the second |
| node_env | *violation*: an override of one run stays in the file | |
| lifecycle | clean exits, failures in the exit code, duplicates and signals end | a service and a terminal in TUI or connect mode; lost probes, failing servers, signals and kills at any step; a process may be launched again any number of times |
| lifecycle_drain | *violation*: a standalone TUI process exits 0 after its server failed | one process |

Deadlock checking is off in `cron` only: a rejected expression is not used any further. Scheduler never stops: a minute bound is
reached, but the process can still be killed and started.

### Fairness

Scheduler's `Fairness`: `StopReturn`, the loop's own steps and
`TriggerPublish` are steps of goroutines that are runnable or wait for a mutex
that others hold for bounded time; the Go runtime runs them all (weak
fairness). `LoopExit` competes with a ready tick in a `select`, which picks at
random among ready cases, so strong fairness. That a job's function ends is
assumed of the plugins: EveryRunEnds is about what the scheduler adds to it, from
the stamp through publication to the outcome, for each run by itself (a job that
clients trigger again and again may be running for ever). Nothing is assumed of the clock, API calls, Start,
Stop or crashes.

Lifecycle's `Fairness`: weak fairness per goroutine. Nothing is assumed of
users, signals, kills or a serving server's failure. The end of `Stop` and
`Shutdown` is taken for granted there; `StopReturns` and the shutdown's timeout
justify it.

Node has none: `Restart=on-failure` (`packaging/cm.service`) starts a service that
failed, in the same environment and not after every end, so no start is promised.
SavedFileStarts says that such a start would not be refused because of the file.

Two bounds shape the behaviours. `RoomFor` keeps a run's number for every launch the
loop is committed to, so that `MaxRuns` never stops it in the middle of a tick; a new
ticker takes room for all runnable jobs, because between `NewTicker` and `FirstTick`
the loop has no select in which it could stop. `MaxMinute` stops the clock, of which
nothing is assumed.

## 4. Findings

* **scheduler_overlap**: `specs/SPEC.md:75` promises that a job that is still
  running is skipped by the tick. `TriggerJobAsync` replaces `lastRuns` while an
  older run is live; when the newer one ends first, cron starts the job beside the
  older. (A run triggered between the tick's snapshot and its launch is overlapped
  too; that is not what the trace shows.)
* **settings_race**: `Reschedule` runs after `cfgMu` is released, so of two
  PUTs of the schedule the older one may reach the scheduler last; both are
  answered 200 without a warning.
* **node_env**: `Load` merges the environment into the Config that `Save`
  marshals, so a PUT of any setting makes the overrides of this run permanent;
  `packaging/cm.service:15` says that removing them lets `config.yaml` take
  effect.
* **lifecycle_drain**: the monitor has taken the error from `Err()` and not
  stored it yet; main's drain finds the channel empty and exits 0.

Met while modelling and not given a run: `N/1` selects `N` alone where the
comment at `cron.go:191` says `N-max/S` (FiresWhenDue excepts it, `UnitStep`);
SaveRun returns nil when the directory sync failed (`json.go:334`), after which
a power cut may undo the rename (AckedIsDurable does not count such records);
two concurrent manual triggers may
publish in the other order than their StartedAt, and LatestRun then names the
older; when a minute passes between `time.NewTicker` and the first `time.Now()`
(`scheduler.go:264`, `267`), the ticker's first tick falls in a minute that has been
evaluated, and a job that has ended by then runs twice in it (MinutesAdvance excepts
that tick, no document promises one evaluation a minute); after a failed Save (500) the plugin shows a schedule that the scheduler
does not run; the probe does not see a service that has started its scheduler
and does not listen yet, so a TUI started at that moment runs a second
scheduler until its server fails (DuplicateEnds).

## 5. Proofs

Eight modules hold theorems, checked by TLAPS for all values of the constants
under the assumptions the modules state on them.

**SchedulerProofs.** `IInv` is TypeOK, RecordsAreFinal and GuardIsExact
strengthened by `Ownership` (each stamped run belongs to exactly one of: the
loop's `cur`, one API call, `live`, or the ended; a run between stamp and
publication is "running" and not yet in `lastRuns`), `LoopShape` (what is left
over in each state of the loop) and `DownShape` (a process that is down has no
goroutines). GuardIsExact alone is not inductive: publishing a run requires
that it is still "running", loading history that the record is of an ended
run. From `IInv`: TypeCorrect, GuardExactness, RecordFinality, Quiescence.
CacheCoherence and MinuteOrder have their own small invariants; MinuteOrder needs
that what waits in the ticker's channel is later than what was evaluated, also
after Stop and Start, or else is the ticker's first tick. Of the jobs that nobody triggers `CronInv` says
that every live run is its job's latest, that a job waiting to be launched
has none, and that no run between stamp and publication in an API call is one of
theirs; NoOverlap, SkipsRunning and LatestNewest follow, whatever is triggered of
the other jobs at any step. That the job is not triggered is necessary:
scheduler_overlap is the counterexample. IdleRecorded assumes moreover that saves
do not fail; `IdleInv` adds that a live run is newer than every record of its job,
so that the record its end leaves is never the one that is pruned. Refinement:
every step is a step of JobRuns or none, with `CronInv` to show that a run begins
only when its job is idle and finite record sets to show that pruning keeps the
newest. LaunchNeverStuck is the safety part of DueIsLaunched and StopReturns: a
loop that launches always has a next step, so that fairness takes it to the end.

**CronProofs.** CronTyped: an accepted expression sets bits inside the slice of
each field only, and at least one per field; the clock never leaves the
calendar. FiresExactly: an accepted
expression without `N/1` fires in exactly the minutes its meaning gives. Counting
in steps by remainders (`Stepped`) and by multiples (`Denoted`) select the same
numbers (SteppedCounts), the weekday after folding 7 onto 0; so every part, field
and star selects what it denotes, and `Matches` decides like `DueAt`. ShortcutsOnTime
computes the minutes that the seven @-names' expressions denote and has the rest
from FiresExactly. All hold for any ranges of the
fields, month lengths and expressions, the real ones included, where the run has a
small calendar.

**RunRecordsProofs** has the lemmas on the record lists. A record's place in an
increasing list is the number of records below it, its place from the end the
number of those above it; so two increasing lists of the same set are equal,
`KeepLast` keeps the newest, and `Insert` never brings a record closer to the
front of what is listed. Sorting is the order the code asks of `sort.Slice`, by its
definition; that a sorted list of a finite set exists is proved too.

**JSONStoreProofs.** `StoreInv` adds to TypeOK what an operation in progress is
about to write (`Candidate`), where memory and file agree before and after the
rename (`Agreement`), and what a power cut may leave (`Durability`: the file is
among `survivors`, and is the only one once the directory is synced).
CacheInOrder, RestartAgrees, AckedStays and NoTornFile follow. StoreRefines: the
rename is RunHistory's atomic change, every other step a stutter or a failure
RunHistory allows; the abstract pruning (the newest records of a set) is the
concrete one (the end of a list) by the lemmas on places.

**HistoryPagingProofs.** A record's place counted from the newest never gets
smaller while records are inserted and pruned, so one that stays and is not listed
yet is at or behind the client's offset (`StillAhead`); NoSkip is that invariant at
the end of the listing. `Exact` says what has been listed of a history at rest.

**PluginSettingsProofs.** Agreement rests on mutual exclusion of `cfgMu` and on
what each step inside leaves half-done. SchedulerFollows adds where the last
schedule is: with a request that holds the lock, on its way to the scheduler
(one at most unless two raced), or arrived. SettingsRefine: UpdateConfig begins an
update of the register, Save commits it, since what a request marshalled while it
holds `cfgMu` still is what the plugin has when it replaces the file; SetPluginConfig,
Marshal and Reschedule are stutters; a process that is down shows what the file has
(`ShownIsSaved`), so a start changes nothing.

**NodeProofs.** A PUT in progress holds the Config as it is (`PutIsConfig`) and the
Config is one that main accepted (`ConfigOpens`), so whatever Save writes can be
started from without overrides; main checks each setting for itself, so an
environment accepted with one file (`EnvHarmless`) is accepted with every file that
starts without it (SavedStarts). An answered setting is in the Config, and what was
written back was answered (`AcceptedInConfig`), so it is in every file a later Save
or a power cut leaves (AcceptedKept). The Config's globals are those of the file the
administrator left except overrides (`ConfigFollowsFile`), which gives
GlobalsKept. A written token file is there, and after its data reached the disk no
power cut removes it (`TokenStays`): AuthStaysOn.

**LifecycleProofs.** CleanExit for any number of processes; HeadlessReports for
each process started without a TUI, whatever the others do: main alone takes
errors there, so an error sent before the drain is in `errCh` or noted.

Only model-checked: the liveness properties (StopReturns, DueIsLaunched,
EveryRunEnds, DuplicateEnds, SignalEnds), which need fairness and
ENABLED, beyond the prover.

## 6. Not modelled

* Text: expressions are split and converted, names of days and months are their
  numbers (`cron.go:71` replaces names as substrings, so `JAN2` is taken for 12),
  JSON, YAML and HTTP are abstracted to their content.
* The reading routes and the checks of `POST /jobs/trigger`, which are stateless;
  `TriggerJob`, which tracks nothing.
* Flags, themes, log files and logging: sequential, output only.
* The ticker against the wall clock (`scheduler.go:254`): the model has one clock,
  as the code assumes; drift, zones with odd offsets and a clock that is set are left
  out.
* Two schedulers on one history file (`json.go:329`): Lifecycle shows that they can
  overlap for a moment; what each does to the other's records is left out, the code
  takes no lock and promises nothing.
* The registries' maps: filled in `init` functions before main runs, read after.
* Disks that return wrong data; plugins, the TUI and the web UI, which are other
  repositories.

## 7. What could follow

1. **SharedHistory**: two processes with a store each on one file, as the
   overlap that Lifecycle allows can produce.
2. **Ticker**: the monotonic ticker against a wall clock that drifts and steps.
3. A composition of PluginSettings and Node: overlapping PUTs across restarts in
   different environments.
