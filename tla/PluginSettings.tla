---------------------------- MODULE PluginSettings ----------------------------
(***************************************************************************)
(* PUT /plugins/{name}/settings (updatePluginConfig and applyConfigUpdate  *)
(* in internal/api/routes.go): one plugin's settings live in four places,  *)
(* the plugin's memory, the Config in memory, the config file, and, for    *)
(* the key "schedule", the scheduler.  The first three change under cfgMu; *)
(* the scheduler is told after cfgMu is released.  Requests run            *)
(* concurrently; the process may stop and start again on the file.         *)
(*                                                                         *)
(* Simplifications.  Config.Save replaces the file or fails.  What the     *)
(* plugin accepts is external: any set of values, also of schedules that   *)
(* parseCron refuses.  Bodies that are refused before the lock (bad JSON,  *)
(* no key, a schedule that is not a string) change nothing.                *)
(***************************************************************************)
EXTENDS Naturals, FiniteSets

CONSTANTS
    Handler,        \* concurrent PUT requests
    Other,          \* a setting that is not the schedule
    Schedule,       \* values of the key "schedule", "" among them
    Setting,        \* values of the other key
    Valid,          \* the schedules the scheduler accepts, "" among them
    Accepted,       \* the schedules the plugin accepts
    Absent,         \* no value, no job
    SaveMayFail     \* whether Config.Save may return an error

ASSUME SettingsAssumption ==
    /\ Valid \subseteq Schedule /\ Accepted \subseteq Schedule
    /\ Absent \notin Schedule \cup Handler /\ Setting # {} /\ Valid \cap Accepted # {}
    /\ Other # "schedule" /\ SaveMayFail \in BOOLEAN

Key == {"schedule", Other}
Value(k) == IF k = "schedule" THEN Schedule ELSE Setting
Config == {c \in [Key -> Schedule \cup Setting] : \A k \in Key : c[k] \in Value(k)}

VARIABLES
    running,    \* the process runs
    plugin,     \* the plugin's settings (Configurable.CurrentConfig)
    cfg,        \* s.cfg: the plugin's section of the Config in memory
    disk,       \* the plugin's section of the config file
    cron,       \* the scheduler's expression for {name}.security, or Absent
    cfgMu,      \* the request that holds s.cfgMu, or Absent
    pc,         \* per request: idle, applied, recorded, marshalled, saved
    req,        \* per request: the key and value it sets
    data,       \* per request: what Save marshalled, or Absent
    unsaved,    \* history: the last Save failed
    stale,      \* history: the schedule was changed and the scheduler not told
    raced       \* history: the last schedule was saved with an older one pending

vars == <<running, plugin, cfg, disk, cron, cfgMu, pc, req, data, unsaved, stale, raced>>

Request == [key : Key, value : Schedule \cup Setting]
Nothing == [key |-> Absent, value |-> Absent]

TypeOK ==
    /\ running \in BOOLEAN
    /\ plugin \in Config /\ cfg \in Config /\ disk \in Config
    /\ cron \in Valid \cup {Absent}
    /\ cfgMu \in Handler \cup {Absent}
    /\ pc \in [Handler -> {"idle", "applied", "recorded", "marshalled", "saved"}]
    /\ data \in [Handler -> Config \cup {Absent}]
    /\ req \in [Handler -> Request \cup {Nothing}]
    /\ unsaved \in BOOLEAN /\ stale \in BOOLEAN /\ raced \in BOOLEAN

\* What RegisterJobs makes of the plugin's schedule.
Registered(c) == IF c["schedule"] \in Valid THEN c["schedule"] ELSE Absent

Init ==
    /\ running = FALSE
    /\ disk \in {c \in Config : c["schedule"] \in Accepted}
    /\ plugin = disk
    /\ cfg = disk
    /\ cron = Absent
    /\ cfgMu = Absent
    /\ pc = [h \in Handler |-> "idle"]
    /\ req = [h \in Handler |-> Nothing]
    /\ data = [h \in Handler |-> Absent]
    /\ unsaved = FALSE
    /\ stale = FALSE
    /\ raced = FALSE

\* main: config.Load, Configure for the plugin, RegisterJobs.
Boot ==
    /\ ~running
    /\ running' = TRUE
    /\ cfg' = disk
    /\ plugin' = disk
    /\ cron' = Registered(disk)
    /\ UNCHANGED <<disk, cfgMu, pc, req, data, unsaved, stale, raced>>

\* The process ends; requests in progress are cut off.
Stop ==
    /\ running
    /\ running' = FALSE
    /\ plugin' = disk
    /\ cfg' = disk
    /\ cron' = Absent
    /\ cfgMu' = Absent
    /\ pc' = [h \in Handler |-> "idle"]
    /\ req' = [h \in Handler |-> Nothing]
    /\ data' = [h \in Handler |-> Absent]
    /\ unsaved' = FALSE
    /\ stale' = FALSE
    /\ raced' = FALSE
    /\ UNCHANGED disk

\* Mutant of MayEnter: the update is not serialized.
MayEnterUnlocked(h) == pc[h] = "idle"

\* s.cfgMu.Lock.
MayEnter(h) == pc[h] = "idle" /\ cfgMu = Absent

\* The request takes cfgMu and UpdateConfig accepts the value.  (A value the
\* plugin refuses is a 400 that changes nothing.)
Apply(h, k, v) ==
    /\ running
    /\ MayEnter(h)
    /\ v \in Value(k)
    /\ k = "schedule" => v \in Accepted
    /\ cfgMu' = h
    /\ plugin' = [plugin EXCEPT ![k] = v]
    /\ req' = [req EXCEPT ![h] = [key |-> k, value |-> v]]
    /\ pc' = [pc EXCEPT ![h] = "applied"]
    /\ UNCHANGED <<running, cfg, disk, cron, data, unsaved, stale, raced>>

\* SetPluginConfig records the value of the request.
Record(h) ==
    /\ pc[h] = "applied"
    /\ pc' = [pc EXCEPT ![h] = "recorded"]
    /\ cfg' = [cfg EXCEPT ![req[h].key] = req[h].value]
    /\ UNCHANGED <<running, plugin, disk, cron, cfgMu, req, data, unsaved, stale, raced>>

Answer(h) ==
    /\ pc' = [pc EXCEPT ![h] = "idle"]
    /\ req' = [req EXCEPT ![h] = Nothing]

\* A schedule is applied while that of an earlier request is saved and has not
\* reached the scheduler.
Races(h) ==
    raced' = IF req[h].key = "schedule" THEN \E g \in Handler : pc[g] = "saved" ELSE raced

\* Mutant of Marshal: the file gets the request's value and nothing else new.
MarshalOne(h) ==
    /\ pc[h] = "recorded"
    /\ pc' = [pc EXCEPT ![h] = "marshalled"]
    /\ data' = [data EXCEPT ![h] = [disk EXCEPT ![req[h].key] = req[h].value]]
    /\ UNCHANGED <<running, plugin, cfg, disk, cron, cfgMu, req, unsaved, stale, raced>>

\* Config.Save marshals the whole Config ...
Marshal(h) ==
    /\ pc[h] = "recorded"
    /\ pc' = [pc EXCEPT ![h] = "marshalled"]
    /\ data' = [data EXCEPT ![h] = cfg]
    /\ UNCHANGED <<running, plugin, cfg, disk, cron, cfgMu, req, unsaved, stale, raced>>

\* Mutant of Save: the scheduler is not told.
SaveAndAnswer(h) ==
    /\ pc[h] = "marshalled"
    /\ disk' = data[h]
    /\ data' = [data EXCEPT ![h] = Absent]
    /\ unsaved' = FALSE
    /\ cfgMu' = Absent
    /\ Races(h)
    /\ Answer(h)
    /\ UNCHANGED <<running, plugin, cfg, cron, stale>>

\* ... and replaces the file by it; cfgMu is released.
Save(h) ==
    /\ pc[h] = "marshalled"
    /\ disk' = data[h]
    /\ data' = [data EXCEPT ![h] = Absent]
    /\ unsaved' = FALSE
    /\ cfgMu' = Absent
    /\ Races(h)
    /\ IF req[h].key = "schedule"
       THEN pc' = [pc EXCEPT ![h] = "saved"] /\ UNCHANGED req
       ELSE Answer(h)
    /\ UNCHANGED <<running, plugin, cfg, cron, stale>>

\* Save fails: cfgMu is released, the answer is 500 save_failed, and the
\* scheduler is not told.
SaveFails(h) ==
    /\ SaveMayFail
    /\ pc[h] = "marshalled"
    /\ data' = [data EXCEPT ![h] = Absent]
    /\ unsaved' = TRUE
    /\ cfgMu' = Absent
    /\ Races(h)
    /\ stale' = (stale \/ req[h].key = "schedule")
    /\ Answer(h)
    /\ UNCHANGED <<running, plugin, cfg, disk, cron>>

\* Mutant of Taken: a schedule that does not parse is taken.
TakenUnparsed(v) == cron # Absent

\* Whether Scheduler.Reschedule takes a schedule: the job is registered and
\* the expression parses.
Taken(v) == cron # Absent /\ v \in Valid

\* Scheduler.Reschedule, without cfgMu, and the answer: 200, with a warning
\* when the schedule was not taken.
Reschedule(h) ==
    /\ pc[h] = "saved"
    /\ cron' = IF Taken(req[h].value) THEN req[h].value ELSE cron
    /\ stale' = ~Taken(req[h].value)
    /\ Answer(h)
    /\ UNCHANGED <<running, plugin, cfg, disk, cfgMu, data, unsaved, raced>>

Next ==
    \/ Boot
    \/ Stop
    \/ \E h \in Handler, k \in Key : \E v \in Value(k) : Apply(h, k, v)
    \/ \E h \in Handler : Record(h)
    \/ \E h \in Handler : Marshal(h)
    \/ \E h \in Handler : Save(h)
    \/ \E h \in Handler : SaveFails(h)
    \/ \E h \in Handler : Reschedule(h)

Spec == Init /\ [][Next]_vars

-----------------------------------------------------------------------------
(* Properties *)

\* No request in progress.
Quiet == running /\ \A h \in Handler : pc[h] = "idle"

\* Outside a locked update the plugin's memory and the Config agree, and the
\* file has what both have unless the last Save failed: concurrent requests do
\* not undo each other in one place only, a GET never shows a half-made change,
\* and a successful Save makes up for an earlier failed one.
PlacesAgree ==
    cfgMu = Absent =>
        /\ plugin = cfg
        /\ ~unsaved => disk = cfg

\* API.md: "If the key is schedule, the scheduler job {name}.security is
\* rescheduled using the new value": when no request is in progress the
\* scheduler has the schedule the plugin shows, or a request was answered with
\* a warning or an error; a restart takes over what the file has.
LastUpdateIsInForce == Quiet /\ ~stale => cron = Registered(plugin)

\* The same but for schedules saved one on the heels of the other: a failed
\* save, a refused schedule, updates of the other setting and a restart do not
\* bring plugin and scheduler apart.
SchedulerFollowsPlugin == Quiet /\ ~stale /\ ~raced => cron = Registered(plugin)

\* Update, Record, Marshal and Save of concurrent requests together are updates
\* of one register: each begins when the one before is over, and saves what is
\* in force, earlier updates that failed to be saved included.
Register == INSTANCE SettingsRegister
                WITH up <- running, shown <- plugin, saved <- disk, busy <- cfgMu # Absent
ImplementsRegister == Register!Spec
=============================================================================
