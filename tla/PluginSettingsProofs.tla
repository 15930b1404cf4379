-------------------------- MODULE PluginSettingsProofs --------------------------
(***************************************************************************)
(* The places that hold a plugin's settings agree outside a locked update, *)
(* for any number of concurrent requests and any values, and the scheduler *)
(* follows them unless two updates of the schedule race.                   *)
(***************************************************************************)
EXTENDS PluginSettings, TLAPS

Inside == {"applied", "recorded", "marshalled"}

\* cfgMu is held by the one request that is inside the locked section.
MutexHeld ==
    /\ \A h \in Handler : pc[h] \in Inside <=> cfgMu = h
    /\ ~running => cfgMu = Absent

\* Half-way through an update the Config lacks just the request's value, and
\* what was marshalled stays current.
Halfway(h) ==
    /\ pc[h] # "idle" => req[h] \in Request /\ req[h].value \in Value(req[h].key)
    /\ pc[h] = "applied" => plugin = [cfg EXCEPT ![req[h].key] = req[h].value]
    /\ pc[h] \in {"recorded", "marshalled"} => plugin = cfg
    /\ pc[h] = "marshalled" => data[h] = cfg
Progress == \A h \in Handler : Halfway(h)

\* The inductive invariant of the locked section.
IInv == TypeOK /\ MutexHeld /\ Progress /\ PlacesAgree

\* Every key has a set of values of its own.
LEMMA Values ==
    ASSUME NEW c \in Config, NEW k \in Key, NEW v \in Value(k)
    PROVE  [c EXCEPT ![k] = v] \in Config
BY DEF Config, Value

\* What parseCron refuses does not get into the scheduler.
LEMMA RegisteredType ==
    ASSUME NEW c PROVE Registered(c) \in Valid \cup {Absent}
BY DEF Registered

\* The invariant holds before the first start.
LEMMA InitIInv == Init => IInv
<1> SUFFICES ASSUME Init PROVE IInv
  OBVIOUS
<1>1. disk \in Config /\ plugin = disk /\ cfg = disk
  BY DEF Init
<1>2. TypeOK
  BY <1>1 DEF Init, TypeOK
<1>3. MutexHeld
  BY SettingsAssumption DEF Init, MutexHeld, Inside
<1>4. Progress
  BY DEF Init, Progress, Halfway
<1>5. PlacesAgree
  BY <1>1 DEF PlacesAgree
<1> QED
  BY <1>2, <1>3, <1>4, <1>5 DEF IInv

\* UpdateConfig in a request that takes the lock.
LEMMA ApplyIInv ==
    ASSUME IInv, NEW h \in Handler, NEW k \in Key, NEW v \in Value(k), Apply(h, k, v)
    PROVE  IInv'
<1>1. /\ cfgMu = Absent /\ cfgMu' = h /\ running /\ running' = running
      /\ plugin' = [plugin EXCEPT ![k] = v] /\ plugin = cfg
      /\ req' = [req EXCEPT ![h] = [key |-> k, value |-> v]]
      /\ pc' = [pc EXCEPT ![h] = "applied"]
      /\ cfg' = cfg /\ disk' = disk /\ cron' = cron /\ data' = data
      /\ unsaved' = unsaved /\ stale' = stale /\ raced' = raced
  BY DEF Apply, MayEnter, IInv, PlacesAgree
<1>2. v \in Schedule \cup Setting
  BY DEF Value
<1>3. [key |-> k, value |-> v] \in Request
  BY <1>2 DEF Request
<1>4. plugin' \in Config
  BY <1>1, Values DEF IInv, TypeOK
<1>5. TypeOK'
  BY <1>1, <1>3, <1>4 DEF IInv, TypeOK
<1>6. \A i \in Handler : pc[i] \notin Inside /\ i # Absent
  BY <1>1, SettingsAssumption DEF IInv, MutexHeld
<1>7. \A i \in Handler : i # h => pc'[i] = pc[i] /\ req'[i] = req[i]
  BY <1>1 DEF IInv, TypeOK
<1>8. pc'[h] = "applied" /\ req'[h] = [key |-> k, value |-> v]
  BY <1>1 DEF IInv, TypeOK
<1>9. MutexHeld'
  BY <1>1, <1>6, <1>7, <1>8 DEF MutexHeld, Inside
<1>10. Progress'
  <2> SUFFICES ASSUME NEW i \in Handler PROVE Halfway(i)'
    BY DEF Progress
  <2>1. CASE i = h
    <3>1. pc'[i] = "applied" /\ req'[i] = [key |-> k, value |-> v]
      BY <2>1, <1>8
    <3>2. plugin' = [cfg' EXCEPT ![req'[i].key] = req'[i].value]
      <4>1. req'[i].key = k /\ req'[i].value = v
        BY <3>1
      <4>2. plugin' = [cfg' EXCEPT ![k] = v]
        BY <1>1
      <4> QED
        BY <4>1, <4>2, Zenon
    <3>3. req'[i] \in Request /\ req'[i].value \in Value(req'[i].key)
      BY <1>3, <3>1
    <3> QED
      BY <3>1, <3>2, <3>3 DEF Halfway
  <2>2. CASE i # h
    BY <2>2, <1>1, <1>6, <1>7 DEF IInv, Progress, Halfway, Inside
  <2> QED
    BY <2>1, <2>2
<1>11. PlacesAgree'
  BY <1>1, <1>6 DEF PlacesAgree
<1> QED
  BY <1>5, <1>9, <1>10, <1>11 DEF IInv

\* SetPluginConfig and Marshal, in the request that holds the lock.
LEMMA InsideIInv ==
    ASSUME IInv, NEW h \in Handler, Record(h) \/ Marshal(h)
    PROVE  IInv'
<1>1. cfgMu = h /\ h # Absent
  BY SettingsAssumption DEF IInv, MutexHeld, Inside, Record, Marshal
<1>2. /\ running' = running /\ plugin' = plugin /\ disk' = disk /\ cron' = cron
      /\ cfgMu' = cfgMu /\ req' = req /\ unsaved' = unsaved /\ stale' = stale /\ raced' = raced
  BY DEF Record, Marshal
<1>3. \A i \in Handler : i # h => pc[i] \notin Inside /\ pc'[i] = pc[i] /\ data'[i] = data[i]
  BY <1>1 DEF IInv, MutexHeld, TypeOK, Record, Marshal
<1>4. CASE Record(h)
  <2>1. /\ pc[h] = "applied" /\ pc' = [pc EXCEPT ![h] = "recorded"] /\ data' = data
        /\ cfg' = [cfg EXCEPT ![req[h].key] = req[h].value]
    BY <1>4 DEF Record
  <2>2. /\ plugin = cfg'
        /\ req[h] \in Request /\ req[h].value \in Value(req[h].key)
    BY <2>1 DEF IInv, Progress, Halfway
  <2>3. pc'[h] = "recorded"
    BY <2>1 DEF IInv, TypeOK
  <2>4. TypeOK'
    BY <1>2, <2>1, <2>2 DEF IInv, TypeOK
  <2>5. MutexHeld'
    BY <1>1, <1>2, <1>3, <2>3 DEF IInv, MutexHeld, Inside
  <2>6. Progress'
    BY <1>2, <1>3, <2>2, <2>3 DEF IInv, Progress, Halfway, Inside
  <2> QED
    BY <1>1, <1>2, <2>4, <2>5, <2>6 DEF IInv, PlacesAgree
<1>5. CASE Marshal(h)
  <2>1. /\ pc[h] = "recorded" /\ pc' = [pc EXCEPT ![h] = "marshalled"]
        /\ data' = [data EXCEPT ![h] = cfg] /\ cfg' = cfg
    BY <1>5 DEF Marshal
  <2>2. plugin = cfg /\ req[h] \in Request /\ req[h].value \in Value(req[h].key)
    BY <2>1 DEF IInv, Progress, Halfway
  <2>3. pc'[h] = "marshalled" /\ data'[h] = cfg
    BY <2>1 DEF IInv, TypeOK
  <2>4. TypeOK'
    BY <1>2, <2>1 DEF IInv, TypeOK
  <2>5. MutexHeld'
    BY <1>1, <1>2, <1>3, <2>3 DEF IInv, MutexHeld, Inside
  <2>6. Progress'
    BY <1>2, <1>3, <2>1, <2>2, <2>3 DEF IInv, Progress, Halfway, Inside
  <2> QED
    BY <1>1, <1>2, <2>4, <2>5, <2>6 DEF IInv, PlacesAgree
<1> QED
  BY <1>4, <1>5

\* Save, done or failed, lets go of the lock.
LEMMA SaveIInv ==
    ASSUME IInv, NEW h \in Handler, Save(h) \/ SaveFails(h)
    PROVE  IInv'
<1>1. pc[h] = "marshalled" /\ cfgMu = h /\ h # Absent
  BY SettingsAssumption DEF IInv, MutexHeld, Inside, Save, SaveFails
<1>2. data[h] = cfg /\ plugin = cfg /\ req[h] \in Request /\ req[h].value \in Value(req[h].key)
  BY <1>1 DEF IInv, Progress, Halfway
<1>3. /\ running' = running /\ plugin' = plugin /\ cfg' = cfg /\ cron' = cron
      /\ cfgMu' = Absent /\ data' = [data EXCEPT ![h] = Absent]
      /\ (disk' = data[h] /\ unsaved' = FALSE) \/ (disk' = disk /\ unsaved' = TRUE)
      /\ stale' \in BOOLEAN /\ raced' \in BOOLEAN
  BY DEF Save, SaveFails, Races, IInv, TypeOK
<1>4. \/ pc' = [pc EXCEPT ![h] = "saved"] /\ req' = req
      \/ pc' = [pc EXCEPT ![h] = "idle"] /\ req' = [req EXCEPT ![h] = Nothing]
  BY DEF Save, SaveFails, Answer
<1>5. \A i \in Handler : i # h => /\ pc[i] \notin Inside /\ pc'[i] = pc[i]
                                  /\ req'[i] = req[i] /\ data'[i] = data[i]
  BY <1>1, <1>3, <1>4 DEF IInv, MutexHeld, TypeOK
<1>6. \/ pc'[h] = "saved" /\ req'[h] = req[h]
      \/ pc'[h] = "idle"
  BY <1>4 DEF IInv, TypeOK
<1>7. disk' \in Config /\ unsaved' \in BOOLEAN
  BY <1>2, <1>3 DEF IInv, TypeOK
<1>8. pc' \in [Handler -> {"idle", "applied", "recorded", "marshalled", "saved"}]
  BY <1>4 DEF IInv, TypeOK
<1>9. req' \in [Handler -> Request \cup {Nothing}] /\ data' \in [Handler -> Config \cup {Absent}]
  BY <1>3, <1>4 DEF IInv, TypeOK
<1>10. TypeOK'
  BY <1>3, <1>7, <1>8, <1>9 DEF IInv, TypeOK
<1>11. \A i \in Handler : i # Absent
  BY SettingsAssumption
<1>12. MutexHeld'
  BY <1>3, <1>5, <1>6, <1>11 DEF MutexHeld, Inside
<1>13. Progress'
  BY <1>2, <1>3, <1>5, <1>6 DEF IInv, Progress, Halfway, Inside
<1>14. PlacesAgree'
  BY <1>2, <1>3 DEF PlacesAgree
<1> QED
  BY <1>10, <1>12, <1>13, <1>14 DEF IInv

\* Reschedule, in a request that has let go of the lock.
LEMMA RescheduleIInv ==
    ASSUME IInv, NEW h \in Handler, Reschedule(h)
    PROVE  IInv'
<1>1. /\ pc[h] = "saved" /\ pc' = [pc EXCEPT ![h] = "idle"]
      /\ req' = [req EXCEPT ![h] = Nothing]
      /\ cron' = IF Taken(req[h].value) THEN req[h].value ELSE cron
      /\ stale' = ~Taken(req[h].value)
      /\ running' = running /\ plugin' = plugin /\ cfg' = cfg /\ disk' = disk
      /\ cfgMu' = cfgMu /\ data' = data /\ unsaved' = unsaved /\ raced' = raced
  BY DEF Reschedule, Answer
<1>2. cron' \in Valid \cup {Absent} /\ stale' \in BOOLEAN
  BY <1>1 DEF IInv, TypeOK, Taken
<1>3. TypeOK'
  BY <1>1, <1>2 DEF IInv, TypeOK
<1>4. pc'[h] = "idle" /\ \A i \in Handler : i # h => pc'[i] = pc[i] /\ req'[i] = req[i]
  BY <1>1 DEF IInv, TypeOK
<1>5. MutexHeld'
  BY <1>1, <1>4 DEF IInv, MutexHeld, Inside
<1>6. Progress'
  BY <1>1, <1>4 DEF IInv, Progress, Halfway
<1> QED
  BY <1>1, <1>3, <1>5, <1>6 DEF IInv, PlacesAgree

\* A start or an end of the process.
LEMMA ProcessIInv ==
    ASSUME IInv, Boot \/ Stop
    PROVE  IInv'
<1>1. plugin' = disk /\ cfg' = disk /\ disk' = disk /\ disk \in Config
  BY DEF Boot, Stop, IInv, TypeOK
<1>2. cfgMu' = Absent /\ \A h \in Handler : h # Absent
  BY SettingsAssumption DEF Boot, Stop, IInv, MutexHeld
<1>3. running' \in BOOLEAN /\ unsaved' \in BOOLEAN /\ stale' \in BOOLEAN /\ raced' \in BOOLEAN
  BY DEF Boot, Stop, IInv, TypeOK
<1>4. cron' \in Valid \cup {Absent}
  BY RegisteredType DEF Boot, Stop
<1>5. /\ pc' \in [Handler -> {"idle", "applied", "recorded", "marshalled", "saved"}]
      /\ data' \in [Handler -> Config \cup {Absent}]
      /\ req' \in [Handler -> Request \cup {Nothing}]
  BY DEF Boot, Stop, IInv, TypeOK
<1>6. TypeOK'
  BY <1>1, <1>2, <1>3, <1>4, <1>5 DEF TypeOK
<1>7. CASE Stop
  <2>1. \A h \in Handler : pc'[h] = "idle"
    BY <1>7 DEF Stop
  <2> QED
    BY <1>1, <1>2, <1>6, <2>1 DEF IInv, MutexHeld, Progress, Halfway, PlacesAgree, Inside
<1>8. CASE Boot
  <2>1. pc' = pc /\ req' = req /\ data' = data /\ cfgMu = Absent /\ unsaved' = unsaved
    BY <1>8 DEF Boot, IInv, MutexHeld
  <2>2. \A h \in Handler : pc[h] \notin Inside
    BY <2>1, <1>2 DEF IInv, MutexHeld
  <2>3. MutexHeld'
    BY <1>2, <2>1, <2>2 DEF MutexHeld
  <2>4. Progress'
    BY <2>1, <2>2 DEF IInv, Progress, Halfway, Inside
  <2> QED
    BY <1>1, <1>6, <2>3, <2>4 DEF IInv, PlacesAgree
<1> QED
  BY <1>7, <1>8

\* The invariant is inductive.
LEMMA NextIInv == IInv /\ [Next]_vars => IInv'
<1> SUFFICES ASSUME IInv, [Next]_vars PROVE IInv'
  OBVIOUS
<1>1. CASE Boot \/ Stop
  BY <1>1, ProcessIInv
<1>2. CASE \E h \in Handler, k \in Key : \E v \in Value(k) : Apply(h, k, v)
  BY <1>2, ApplyIInv
<1>3. CASE \E h \in Handler : Record(h) \/ Marshal(h)
  BY <1>3, InsideIInv
<1>4. CASE \E h \in Handler : Save(h) \/ SaveFails(h)
  BY <1>4, SaveIInv
<1>5. CASE \E h \in Handler : Reschedule(h)
  BY <1>5, RescheduleIInv
<1>6. CASE UNCHANGED vars
  BY <1>6 DEF vars, IInv, TypeOK, MutexHeld, Progress, Halfway, PlacesAgree
<1> QED
  BY <1>1, <1>2, <1>3, <1>4, <1>5, <1>6 DEF Next

\* TypeOK holds throughout.
THEOREM SettingsTyped == Spec => []TypeOK
<1>1. IInv => TypeOK
  BY DEF IInv
<1> QED
  BY <1>1, InitIInv, NextIInv, PTL DEF Spec

\* However many requests are under way, on whatever keys, and whatever fails:
\* when cfgMu is free, the plugin, the Config and, unless the last Save failed,
\* the file have the same settings.
THEOREM Agreement == Spec => []PlacesAgree
<1>1. IInv => PlacesAgree
  BY DEF IInv
<1> QED
  BY <1>1, InitIInv, NextIInv, PTL DEF Spec

-----------------------------------------------------------------------------
(* The scheduler follows the plugin *)

\* An update of the schedule holds cfgMu.
Changing == \E h \in Handler : pc[h] \in Inside /\ req[h].key = "schedule"

\* What a request inside the locked section sets, the plugin has.
Applied == \A h \in Handler : pc[h] \in Inside => plugin[req[h].key] = req[h].value

\* A process that is down has no requests.
NoneWhenDown == ~running => \A h \in Handler : pc[h] = "idle"

\* Unless two updates of the schedule raced, at most one is on its way to the
\* scheduler; it has the plugin's schedule unless the next one has begun.
OneOnItsWay == ~raced =>
    /\ \A g, h \in Handler : pc[g] = "saved" /\ pc[h] = "saved" => g = h
    /\ ~Changing => \A h \in Handler : pc[h] = "saved" => req[h].value = plugin["schedule"]

\* With none on its way and none begun the scheduler follows the plugin.
Arrived ==
    running /\ ~raced /\ ~stale /\ ~Changing /\ (\A h \in Handler : pc[h] # "saved") =>
        cron = Registered(plugin)

FInv == IInv /\ Applied /\ NoneWhenDown /\ OneOnItsWay /\ Arrived

\* UpdateConfig in a request that takes the lock.
LEMMA ApplyFInv ==
    ASSUME FInv, NEW h \in Handler, NEW k \in Key, NEW v \in Value(k), Apply(h, k, v)
    PROVE  FInv'
<1>1. IInv'
  BY ApplyIInv DEF FInv
<1>2. /\ cfgMu = Absent /\ running /\ running'
      /\ plugin' = [plugin EXCEPT ![k] = v]
      /\ req' = [req EXCEPT ![h] = [key |-> k, value |-> v]]
      /\ pc[h] = "idle" /\ pc' = [pc EXCEPT ![h] = "applied"]
      /\ cron' = cron /\ stale' = stale /\ raced' = raced
  BY DEF Apply, MayEnter
<1>3. \A i \in Handler : i # h => pc'[i] = pc[i] /\ req'[i] = req[i]
  BY <1>2 DEF FInv, IInv, TypeOK
<1>4. pc'[h] = "applied" /\ req'[h] = [key |-> k, value |-> v]
  BY <1>2 DEF FInv, IInv, TypeOK
<1>5. \A i \in Handler : pc[i] \notin Inside
  BY <1>2, SettingsAssumption DEF FInv, IInv, MutexHeld
<1>6. plugin'[k] = v /\ \A other \in Key : other # k => plugin'[other] = plugin[other]
  BY <1>2 DEF FInv, IInv, TypeOK, Config
<1>7. Applied'
  BY <1>3, <1>4, <1>5, <1>6 DEF Applied, Inside
<1>8. NoneWhenDown'
  BY <1>2 DEF NoneWhenDown
<1>9. ~Changing /\ (k = "schedule" => Changing')
  BY <1>4, <1>5 DEF Changing, Inside
<1>10. k # "schedule" => plugin'["schedule"] = plugin["schedule"]
  BY <1>6 DEF Key
<1>11. OneOnItsWay'
  BY <1>2, <1>3, <1>4, <1>9, <1>10 DEF FInv, OneOnItsWay
<1>12. Arrived'
  <2> SUFFICES ASSUME ~raced', ~stale', ~Changing', \A i \in Handler : pc'[i] # "saved"
               PROVE  cron' = Registered(plugin')
    BY DEF Arrived
  <2>1. \A i \in Handler : pc[i] # "saved"
    BY <1>2, <1>3
  <2>2. cron = Registered(plugin)
    BY <1>2, <1>9, <2>1 DEF FInv, Arrived
  <2> QED
    BY <1>2, <1>9, <1>10, <2>2 DEF Registered
<1> QED
  BY <1>1, <1>7, <1>8, <1>11, <1>12 DEF FInv

\* SetPluginConfig and Marshal, in the request that holds the lock.
LEMMA InsideFInv ==
    ASSUME FInv, NEW h \in Handler, Record(h) \/ Marshal(h)
    PROVE  FInv'
<1>1. IInv'
  BY InsideIInv DEF FInv
<1>2. /\ running' = running /\ plugin' = plugin /\ cron' = cron
      /\ req' = req /\ stale' = stale /\ raced' = raced
      /\ pc[h] \in Inside
  BY DEF Record, Marshal, Inside
<1>3. pc'[h] \in Inside /\ \A i \in Handler : i # h => pc'[i] = pc[i]
  BY DEF Record, Marshal, FInv, IInv, TypeOK, Inside
<1>4. \A i \in Handler : /\ pc'[i] \in Inside <=> pc[i] \in Inside
                         /\ pc'[i] = "saved" <=> pc[i] = "saved"
  BY <1>2, <1>3 DEF Inside
<1>5. Applied'
  BY <1>2, <1>4 DEF FInv, Applied
<1>6. NoneWhenDown'
  BY <1>2, <1>3 DEF FInv, NoneWhenDown, Inside
<1>7. Changing' <=> Changing
  BY <1>2, <1>4 DEF Changing
<1>8. OneOnItsWay' /\ Arrived'
  BY <1>2, <1>4, <1>7 DEF FInv, OneOnItsWay, Arrived
<1> QED
  BY <1>1, <1>5, <1>6, <1>8 DEF FInv

\* Save, done or failed: of the schedule or of the other setting.
LEMMA SaveFInv ==
    ASSUME FInv, NEW h \in Handler, Save(h) \/ SaveFails(h)
    PROVE  FInv'
<1>1. IInv'
  BY SaveIInv DEF FInv
<1>2. /\ pc[h] = "marshalled" /\ h # Absent /\ cfgMu = h
      /\ running' = running /\ plugin' = plugin /\ cron' = cron
  BY SettingsAssumption DEF Save, SaveFails, FInv, IInv, MutexHeld, Inside
<1>3. \A i \in Handler : i # h => /\ pc[i] \notin Inside /\ pc'[i] = pc[i]
                                  /\ req'[i] = req[i]
  BY <1>2 DEF Save, SaveFails, Answer, FInv, IInv, MutexHeld, TypeOK
<1>4. pc'[h] \in {"saved", "idle"}
  BY DEF Save, SaveFails, Answer, FInv, IInv, TypeOK
<1>5. \A i \in Handler : pc'[i] \notin Inside
  BY <1>3, <1>4 DEF Inside
<1>6. Applied' /\ ~Changing'
  BY <1>5 DEF Applied, Changing
<1>7. NoneWhenDown'
  BY <1>2 DEF FInv, NoneWhenDown
<1>8. plugin[req[h].key] = req[h].value
  BY <1>2 DEF FInv, Applied, Inside
<1>9. CASE req[h].key = "schedule"
  <2>1. raced' = \E g \in Handler : pc[g] = "saved"
    BY <1>9 DEF Save, SaveFails, Races
  <2>2. pc'[h] = "saved" => req'[h].value = plugin'["schedule"]
    BY <1>2, <1>8, <1>9 DEF Save, SaveFails, Answer, FInv, IInv, TypeOK
  <2>3. pc'[h] = "saved" \/ stale'
    BY <1>9 DEF Save, SaveFails, FInv, IInv, TypeOK
  <2>4. OneOnItsWay'
    BY <1>3, <2>1, <2>2 DEF OneOnItsWay
  <2>5. Arrived'
    BY <2>3 DEF Arrived
  <2> QED
    BY <1>1, <1>6, <1>7, <2>4, <2>5 DEF FInv
<1>10. CASE req[h].key # "schedule"
  <2>1. raced' = raced /\ stale' = stale
    BY <1>10 DEF Save, SaveFails, Races, FInv, IInv, TypeOK
  <2>2. pc'[h] = "idle"
    BY <1>10 DEF Save, SaveFails, Answer, FInv, IInv, TypeOK
  <2>3. ~Changing
    BY <1>3, <1>10 DEF Changing
  <2>4. \A i \in Handler : pc'[i] = "saved" <=> pc[i] = "saved"
    BY <1>2, <1>3, <2>2
  <2>5. \A i \in Handler : pc[i] = "saved" => req'[i] = req[i]
    BY <1>2, <1>3
  <2>6. OneOnItsWay'
    BY <1>2, <2>1, <2>3, <2>4, <2>5 DEF FInv, OneOnItsWay
  <2>7. Arrived'
    BY <1>2, <2>1, <2>3, <2>4 DEF FInv, Arrived
  <2> QED
    BY <1>1, <1>6, <1>7, <2>6, <2>7 DEF FInv
<1> QED
  BY <1>9, <1>10

\* Reschedule, in a request that has let go of the lock.
LEMMA RescheduleFInv ==
    ASSUME FInv, NEW h \in Handler, Reschedule(h)
    PROVE  FInv'
<1>1. IInv'
  BY RescheduleIInv DEF FInv
<1>2. /\ pc[h] = "saved" /\ running' = running /\ plugin' = plugin /\ raced' = raced
      /\ cron' = IF Taken(req[h].value) THEN req[h].value ELSE cron
      /\ stale' = ~Taken(req[h].value)
  BY DEF Reschedule
<1>3. \A i \in Handler : i # h => pc'[i] = pc[i] /\ req'[i] = req[i]
  BY DEF Reschedule, Answer, FInv, IInv, TypeOK
<1>4. pc'[h] = "idle"
  BY DEF Reschedule, Answer, FInv, IInv, TypeOK
<1>5. Applied'
  BY <1>2, <1>3, <1>4 DEF FInv, Applied, Inside
<1>6. NoneWhenDown'
  BY <1>2 DEF FInv, NoneWhenDown
<1>7. Changing' <=> Changing
  BY <1>2, <1>3, <1>4 DEF Changing, Inside
<1>8. OneOnItsWay'
  BY <1>2, <1>3, <1>4, <1>7 DEF FInv, OneOnItsWay
<1>9. Arrived'
  <2> SUFFICES ASSUME ~raced', ~stale', ~Changing'
               PROVE  cron' = Registered(plugin')
    BY DEF Arrived
  <2>1. req[h].value = plugin["schedule"]
    BY <1>2, <1>7 DEF FInv, OneOnItsWay
  <2>2. cron' = req[h].value /\ req[h].value \in Valid
    BY <1>2 DEF Taken
  <2> QED
    BY <1>2, <2>1, <2>2 DEF Registered
<1> QED
  BY <1>1, <1>5, <1>6, <1>8, <1>9 DEF FInv

\* A start or an end of the process.
LEMMA ProcessFInv ==
    ASSUME FInv, Boot \/ Stop
    PROVE  FInv'
<1>1. IInv'
  BY ProcessIInv DEF FInv
<1>2. \A h \in Handler : pc'[h] = "idle"
  BY DEF Boot, Stop, FInv, NoneWhenDown
<1>3. running' => cron' = Registered(plugin')
  BY DEF Boot, Stop
<1>4. Applied' /\ NoneWhenDown' /\ OneOnItsWay'
  BY <1>2 DEF Applied, NoneWhenDown, OneOnItsWay, Inside
<1>5. Arrived'
  BY <1>3 DEF Arrived
<1> QED
  BY <1>1, <1>4, <1>5 DEF FInv

\* Concurrent requests, failed saves, schedules that the scheduler refuses and
\* restarts do not bring plugin and scheduler apart without telling anyone,
\* unless two updates of the schedule are between Save and Reschedule at once.
THEOREM SchedulerFollows == Spec => []SchedulerFollowsPlugin
<1>1. Init => FInv
  BY InitIInv DEF Init, FInv, Applied, NoneWhenDown, OneOnItsWay, Arrived, Inside
<1>2. FInv /\ [Next]_vars => FInv'
  <2> SUFFICES ASSUME FInv, [Next]_vars PROVE FInv'
    OBVIOUS
  <2>1. CASE Boot \/ Stop
    BY <2>1, ProcessFInv
  <2>2. CASE \E h \in Handler, k \in Key : \E v \in Value(k) : Apply(h, k, v)
    BY <2>2, ApplyFInv
  <2>3. CASE \E h \in Handler : Record(h) \/ Marshal(h)
    BY <2>3, InsideFInv
  <2>4. CASE \E h \in Handler : Save(h) \/ SaveFails(h)
    BY <2>4, SaveFInv
  <2>5. CASE \E h \in Handler : Reschedule(h)
    BY <2>5, RescheduleFInv
  <2>6. CASE UNCHANGED vars
    <3>1. IInv'
      BY <2>6, NextIInv DEF FInv
    <3> QED
      BY <2>6, <3>1 DEF vars, FInv, Applied, NoneWhenDown, OneOnItsWay, Arrived, Changing,
         Inside, Registered
  <2> QED
    BY <2>1, <2>2, <2>3, <2>4, <2>5, <2>6 DEF Next
<1>3. FInv => SchedulerFollowsPlugin
  <2> SUFFICES ASSUME FInv, Quiet, ~stale, ~raced PROVE cron = Registered(plugin)
    BY DEF SchedulerFollowsPlugin
  <2>1. ~Changing /\ \A h \in Handler : pc[h] # "saved"
    BY DEF Quiet, Changing, Inside
  <2> QED
    BY <2>1 DEF FInv, Arrived, Quiet
<1> QED
  BY <1>1, <1>2, <1>3, PTL DEF Spec

-----------------------------------------------------------------------------
(* Refinement: updates of one register *)

\* UpdateConfig under the lock begins an update of the register.
LEMMA ApplyUpdates ==
    ASSUME IInv, NEW h \in Handler, NEW k \in Key, NEW v \in Value(k), Apply(h, k, v)
    PROVE  Register!Update(k)
<1>1. cfgMu = Absent /\ cfgMu' = h /\ h # Absent /\ running /\ running' = running
  BY SettingsAssumption DEF Apply, MayEnter
<1>2. plugin' = [plugin EXCEPT ![k] = v] /\ disk' = disk
  BY DEF Apply
<1>3. plugin' \in Config
  BY <1>2, Values DEF IInv, TypeOK
<1>4. \A other \in Key \ {k} : plugin'[other] = plugin[other]
  BY <1>2 DEF IInv, TypeOK, Config
<1> QED
  BY <1>1, <1>2, <1>3, <1>4 DEF Register!Update

\* What Save writes is what the plugin has: the request still holds the lock.
LEMMA SaveCommits ==
    ASSUME IInv, NEW h \in Handler, Save(h)
    PROVE  Register!Commit
<1>1. cfgMu = h /\ h # Absent /\ cfgMu' = Absent /\ running /\ running' = running
  BY SettingsAssumption DEF Save, IInv, MutexHeld, Inside
<1>2. disk' = plugin /\ plugin' = plugin
  BY DEF Save, IInv, Progress, Halfway
<1> QED
  BY <1>1, <1>2 DEF Register!Commit

\* A Save that fails ends the update and leaves the file as it is.
LEMMA SaveFailsFails ==
    ASSUME IInv, NEW h \in Handler, SaveFails(h)
    PROVE  Register!Fail
<1>1. cfgMu = h /\ h # Absent /\ cfgMu' = Absent /\ running /\ running' = running
  BY SettingsAssumption DEF SaveFails, IInv, MutexHeld, Inside
<1> QED
  BY <1>1 DEF SaveFails, Register!Fail

\* SetPluginConfig, Marshal and Reschedule are nothing to the register.
LEMMA InnerStutters ==
    ASSUME NEW h \in Handler, Record(h) \/ Marshal(h) \/ Reschedule(h)
    PROVE  UNCHANGED <<running, plugin, disk, cfgMu>>
BY DEF Record, Marshal, Reschedule

\* A process that is down shows what the next one will find in the file.
ShownIsSaved == ~running => plugin = disk

\* Stop falls back to the file, and the next start reads it.
LEMMA ProcessRestarts ==
    ASSUME IInv, ShownIsSaved, Boot \/ Stop
    PROVE  Register!Boot \/ Register!Stop
<1>1. plugin' = disk /\ disk' = disk
  BY DEF Boot, Stop
<1>2. cfgMu' = Absent /\ (Boot => cfgMu = Absent)
  BY DEF Boot, Stop, IInv, MutexHeld
<1>3. CASE Boot
  BY <1>1, <1>2, <1>3 DEF Boot, ShownIsSaved, Register!Boot
<1>4. CASE Stop
  BY <1>1, <1>2, <1>4 DEF Stop, Register!Stop
<1> QED
  BY <1>3, <1>4

\* Updates happen in a process that runs.
LEMMA ShownStep == IInv /\ ShownIsSaved /\ [Next]_vars => ShownIsSaved'
<1> SUFFICES ASSUME IInv, ShownIsSaved, [Next]_vars PROVE ShownIsSaved'
  OBVIOUS
<1>1. CASE Boot \/ Stop
  BY <1>1 DEF Boot, Stop, ShownIsSaved
<1>2. CASE \E h \in Handler, k \in Key : \E v \in Value(k) : Apply(h, k, v)
  BY <1>2 DEF Apply, ShownIsSaved
<1>3. CASE \E h \in Handler : Save(h)
  BY <1>3, SaveCommits DEF Register!Commit, ShownIsSaved
<1>4. CASE \E h \in Handler : SaveFails(h)
  BY <1>4 DEF SaveFails, ShownIsSaved
<1>5. CASE \E h \in Handler : Record(h) \/ Marshal(h) \/ Reschedule(h)
  BY <1>5, InnerStutters DEF ShownIsSaved
<1>6. CASE UNCHANGED vars
  BY <1>6 DEF vars, ShownIsSaved
<1> QED
  BY <1>1, <1>2, <1>3, <1>4, <1>5, <1>6 DEF Next

\* Plugin, Config and file, changed one after the other by any number of
\* concurrent requests, are one register with atomic updates: no update undoes
\* another, and each save also writes what earlier ones failed to.
THEOREM SettingsRefine == Spec => ImplementsRegister
<1>1. Init => Register!Init
  BY DEF Init, Register!Init
<1>2. IInv /\ ShownIsSaved /\ [Next]_vars =>
          [Register!Next]_<<running, plugin, disk, cfgMu # Absent>>
  <2> SUFFICES ASSUME IInv, ShownIsSaved, [Next]_vars
               PROVE  Register!Next \/ UNCHANGED <<running, plugin, disk, cfgMu>>
    OBVIOUS
  <2>1. CASE Boot \/ Stop
    BY <2>1, ProcessRestarts DEF Register!Next
  <2>2. CASE \E h \in Handler, k \in Key : \E v \in Value(k) : Apply(h, k, v)
    BY <2>2, ApplyUpdates DEF Register!Next
  <2>3. CASE \E h \in Handler : Save(h)
    BY <2>3, SaveCommits DEF Register!Next
  <2>4. CASE \E h \in Handler : SaveFails(h)
    BY <2>4, SaveFailsFails DEF Register!Next
  <2>5. CASE \E h \in Handler : Record(h) \/ Marshal(h) \/ Reschedule(h)
    BY <2>5, InnerStutters
  <2>6. CASE UNCHANGED vars
    BY <2>6 DEF vars
  <2> QED
    BY <2>1, <2>2, <2>3, <2>4, <2>5, <2>6 DEF Next
<1>3. Init => ShownIsSaved
  BY DEF Init, ShownIsSaved
<1> QED
  BY <1>1, <1>2, <1>3, InitIInv, NextIInv, ShownStep, PTL
     DEF Spec, ImplementsRegister, Register!Spec, Register!svars
=============================================================================
