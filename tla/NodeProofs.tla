----------------------------- MODULE NodeProofs -----------------------------
(***************************************************************************)
(* Proofs about Node, for any plugins, settings, files, environments and   *)
(* bounds.                                                                 *)
(***************************************************************************)
EXTENDS Node, TLAPS

-----------------------------------------------------------------------------
(* What Load returns. *)

\* A file's globals over the defaults are values for all globals.
LEMMA OverTyped ==
    ASSUME NEW base \in Globals, NEW over \in Partial
    PROVE  Over(base, over) \in Globals
BY DEF Over, Globals, Partial, Global

\* The overrides applyEnv takes are values for some globals.
LEMMA OverridesTyped ==
    ASSUME NEW e \in Partial
    PROVE  Overrides(e) \in Partial
<1>1. e.enabled_plugins # Unset => e.enabled_plugins \ {Blank} \in SUBSET Name
  BY DEF Partial
<1> QED
  BY <1>1 DEF Overrides, Partial

\* The empty environment overrides nothing.
LEMMA NoOverrides == \A g \in Global : Overrides(NoEnv)[g] = Unset
BY ConfigurationAssumption, NodeAssumption DEF Overrides, NoGlobals, Global

\* A missing file reads like one that sets nothing.
LEMMA ReadTyped ==
    ASSUME NEW f \in Content, f # Corrupt
    PROVE  Read(f) \in Parsed
<1>1. NoGlobals \in Partial
  BY NodeAssumption
<1>2. NoSections \in Sections
  BY DEF NoSections, Sections
<1> QED
  BY <1>1, <1>2 DEF Read, Content, Parsed

\* Load returns a Config.
LEMMA LoadTyped ==
    ASSUME NEW f \in Parsed, NEW e \in Partial
    PROVE  Load(f, e) \in Config
<1>1. Over(Default, f.globals) \in Globals
  BY ConfigurationAssumption, OverTyped DEF Parsed
<1>2. Over(Over(Default, f.globals), Overrides(e)) \in Globals
  BY <1>1, OverTyped, OverridesTyped
<1> QED
  BY <1>2 DEF Load, Config, Parsed

\* What Save writes of a Config is what Load reads, under no overrides.
LEMMA SavedReadsBack ==
    ASSUME NEW c \in Config
    PROVE  /\ c \in Parsed /\ c \notin {Missing, Corrupt} /\ Read(c) = c
           /\ Effective(c) = c.globals
           /\ Load(c, NoEnv).globals = c.globals
<1>1. c.globals \in Globals /\ c.globals \in Partial
  BY DEF Config, Globals, Partial
<1>2. c \in Parsed
  BY <1>1 DEF Config, Parsed
<1>3. c \notin {Missing, Corrupt} /\ Read(c) = c
  BY <1>2, NodeAssumption DEF Read
<1>4. \A g \in Global : c.globals[g] # Unset
  BY <1>1, ConfigurationAssumption DEF Globals, Global
<1>5. c.globals = [g \in Global |-> c.globals[g]]
  BY <1>1 DEF Globals, Global
<1>6. Over(Default, c.globals) = c.globals
  BY <1>4, <1>5 DEF Over
<1>7. Over(c.globals, Overrides(NoEnv)) = c.globals
  BY <1>5, NoOverrides DEF Over
<1> QED
  BY <1>2, <1>3, <1>6, <1>7 DEF Effective, Load

\* SetPluginConfig sets the one setting and returns a Config.
LEMMA SetPluginConfigSets ==
    ASSUME NEW c \in Config, NEW p \in Plugin, NEW k \in Setting, NEW v \in Value
    PROVE  LET d == SetPluginConfig(c, p, k, v)
           IN  /\ d \in Config /\ d.globals = c.globals
               /\ d.sections[<<p, k>>] = v
               /\ \A s \in Plugin \X Setting : s # <<p, k>> => d.sections[s] = c.sections[s]
BY DEF SetPluginConfig, Config, Sections

-----------------------------------------------------------------------------
(* Types. *)

\* A start makes a Config of the file.
LEMMA BootTyped ==
    ASSUME TypeOK, NEW e \in Env, Start(e)
    PROVE  /\ file \in Content /\ file # Corrupt /\ Read(file) \in Parsed
           /\ cfg' = Load(Read(file), e) /\ cfg' \in Config
           /\ Opens(cfg'.globals)
<1>1. file \in Content /\ file # Corrupt
  BY DEF TypeOK, ConfigTypes, Start, Boot, Accepts
<1>2. Read(file) \in Parsed /\ e \in Partial
  BY <1>1, ReadTyped, NodeAssumption
<1> QED
  BY <1>1, <1>2, LoadTyped DEF Start, Boot, Accepts

\* A PUT changes one setting of the Config and keeps a copy of the result.
LEMMA PutTyped ==
    ASSUME TypeOK, NEW p \in Plugin, NEW k \in Setting, NEW v \in Value, NEW b \in Bearer,
           BeginPut(p, k, v, b)
    PROVE  /\ put' = [plugin |-> p, key |-> k, value |-> v, data |-> cfg']
           /\ put' \in Put /\ put' # Idle
           /\ cfg \in Config /\ cfg' \in Config /\ cfg'.globals = cfg.globals
           /\ cfg'.sections[<<p, k>>] = v
           /\ \A s \in Plugin \X Setting : s # <<p, k>> => cfg'.sections[s] = cfg.sections[s]
<1>1. cfg \in Config
  BY DEF TypeOK, ProcTypes, BeginPut
<1>2. cfg' = SetPluginConfig(cfg, p, k, v)
  BY DEF BeginPut
<1>3. cfg' \in Config
  BY <1>1, <1>2, SetPluginConfigSets
<1>4. put' \in Put
  BY <1>3 DEF BeginPut, Put
<1> QED
  BY <1>1, <1>2, <1>3, <1>4, SetPluginConfigSets, NodeAssumption DEF BeginPut, Put

\* What an administrator leaves is a content of the file.
LEMMA EditTyped == Edit \subseteq Content
BY NodeAssumption DEF Content

\* A token file that is missing, an empty one and a token are different.
LEMMA TokensDiffer == NoFile # Empty /\ NoFile \notin Nat /\ Empty \notin Nat
BY NodeAssumption

\* Nothing is a value of no setting.
LEMMA NoSectionsTyped == NoSections \in Sections
BY DEF NoSections, Sections

\* Types of what a step leaves alone.
LEMMA Untouched ==
    ASSUME TypeOK
    PROVE  /\ UNCHANGED configVars => ConfigTypes'
           /\ UNCHANGED tokenVars => TokenTypes'
           /\ UNCHANGED procVars => ProcTypes'
<1>1. UNCHANGED configVars => ConfigTypes'
  BY DEF TypeOK, ConfigTypes, configVars
<1>2. UNCHANGED tokenVars => TokenTypes'
  BY DEF TypeOK, TokenTypes, tokenVars
<1>3. UNCHANGED procVars => ProcTypes'
  BY DEF TypeOK, ProcTypes, procVars
<1> QED
  BY <1>1, <1>2, <1>3

\* A process that is gone is well typed.
LEMMA GoneTyped == TypeOK /\ Gone => ProcTypes'
BY TokensDiffer DEF Gone, TypeOK, ProcTypes, Token

\* The state of the node is well typed.
THEOREM NodeTyped == Spec => []TypeOK
<1>1. Init => TypeOK
  <2> SUFFICES ASSUME Init PROVE TypeOK
    OBVIOUS
  <2>1. ConfigTypes
    BY EditTyped, NoSectionsTyped DEF Init, ConfigTypes
  <2>2. TokenTypes
    BY DEF Init, TokenTypes, Token
  <2>3. ProcTypes
    BY TokensDiffer, NodeAssumption DEF Init, ProcTypes, Token
  <2> QED
    BY <2>1, <2>2, <2>3 DEF Init, TypeOK
<1>2. TypeOK /\ [Next]_vars => TypeOK'
  <2> SUFFICES ASSUME TypeOK, [Next]_vars
               PROVE  TypeOK'
    OBVIOUS
  <2>1. ASSUME NEW e \in Env, Start(e)
        PROVE  TypeOK'
    <3>1. ConfigTypes' /\ TokenTypes'
      BY <2>1, Untouched DEF TypeOK, ConfigTypes, Start, Boot
    <3>2. registry' \subseteq Plugin /\ env' \in Env
      BY <2>1 DEF Start, Boot, Enabled
    <3>3. authToken' \in Token \ {Empty}
      BY <2>1, TokensDiffer DEF TypeOK, TokenTypes, Token, Start, Boot
    <3> QED
      BY <2>1, <3>1, <3>2, <3>3, BootTyped DEF TypeOK, ProcTypes, Start, Boot
  <2>2. ASSUME NEW p \in Plugin, NEW k \in Setting, NEW v \in Value, NEW b \in Bearer,
               BeginPut(p, k, v, b)
        PROVE  TypeOK'
    <3>1. accepted' \in Sections /\ flushed' \in Sections
      BY <2>2 DEF TypeOK, ConfigTypes, BeginPut, Sections
    <3>2. ConfigTypes' /\ TokenTypes'
      BY <2>2, <3>1, Untouched DEF TypeOK, ConfigTypes, BeginPut
    <3>3. ProcTypes'
      BY <2>2, PutTyped DEF TypeOK, ProcTypes, BeginPut
    <3> QED
      BY <2>2, <3>2, <3>3 DEF TypeOK, BeginPut
  <2>3. CASE Save
    <3>1. put \in Put
      BY <2>3 DEF Save, Replace, TypeOK, ProcTypes
    <3>2. put.data \in Content
      BY <3>1, SavedReadsBack DEF Put, Content
    <3>3. accepted' \in Sections
      BY <2>3, <3>1 DEF Save, Replace, TypeOK, ConfigTypes, Sections, Put
    <3>4. ConfigTypes'
      BY <2>3, <3>2, <3>3 DEF Save, Replace, Overridden, TypeOK, ConfigTypes, ProcTypes
    <3>5. ProcTypes' /\ TokenTypes'
      BY <2>3, Untouched DEF Save, Replace, TypeOK, ProcTypes
    <3> QED
      BY <2>3, <3>4, <3>5 DEF Save, Replace, TypeOK
  <2>4. CASE SaveFails
    <3>1. ProcTypes'
      BY <2>4 DEF SaveFails, TypeOK, ProcTypes
    <3> QED
      BY <2>4, <3>1, Untouched DEF SaveFails, TypeOK
  <2>5. CASE Crash
    BY <2>5, Untouched, GoneTyped DEF Crash, TypeOK
  <2>6. ASSUME NEW f \in Edit, EditConfig(f)
        PROVE  TypeOK'
    <3>1. f \in Content /\ up \in BOOLEAN
      BY EditTyped DEF TypeOK, ProcTypes
    <3>2. ConfigTypes'
      BY <2>6, <3>1, NoSectionsTyped DEF EditConfig, ConfigTypes
    <3> QED
      BY <2>6, <3>2, Untouched DEF EditConfig, TypeOK
  <2>7. CASE RotateOpen
    <3>1. TokenTypes'
      <4>1. rotations' \in Nat
        BY <2>7 DEF RotateOpen, TypeOK, TokenTypes
      <4>2. Empty \in Token
        BY DEF Token
      <4> QED
        BY <2>7, <4>1, <4>2 DEF RotateOpen, TypeOK, TokenTypes
    <3> QED
      BY <2>7, <3>1, Untouched DEF RotateOpen, TypeOK
  <2>8. CASE RotateWrite
    <3>1. TokenTypes'
      BY <2>8 DEF RotateWrite, TypeOK, TokenTypes, Token
    <3> QED
      BY <2>8, <3>1, Untouched DEF RotateWrite, TypeOK
  <2>9. CASE RotateDies
    <3>1. TokenTypes'
      BY <2>9 DEF RotateDies, TypeOK, TokenTypes
    <3> QED
      BY <2>9, <3>1, Untouched DEF RotateDies, TypeOK
  <2>10. CASE RemoveToken
    <3>1. TokenTypes'
      BY <2>10 DEF RemoveToken, TypeOK, TokenTypes, Token
    <3> QED
      BY <2>10, <3>1, Untouched DEF RemoveToken, TypeOK
  <2>11. CASE WriteBack
    <3>1. ConfigTypes' /\ TokenTypes'
      BY <2>11 DEF WriteBack, TypeOK, ConfigTypes, TokenTypes
    <3> QED
      BY <2>11, <3>1, Untouched DEF WriteBack, TypeOK
  <2>12. CASE PowerCut
    <3>1. ConfigTypes'
      BY <2>12 DEF PowerCut, TypeOK, ConfigTypes
    <3>2. TokenTypes'
      BY <2>12 DEF PowerCut, TypeOK, TokenTypes
    <3> QED
      BY <2>12, <3>1, <3>2, GoneTyped DEF PowerCut, TypeOK
  <2>13. CASE UNCHANGED vars
    BY <2>13, Untouched DEF TypeOK, vars
  <2> QED
    BY <2>1, <2>2, <2>3, <2>4, <2>5, <2>6, <2>7, <2>8, <2>9, <2>10, <2>11, <2>12, <2>13 DEF Next
<1> QED
  BY <1>1, <1>2, PTL DEF Spec
-----------------------------------------------------------------------------
(* The Config in memory and the PUT in progress. *)

\* Save writes the Config as it is, for a setting that no answer vouches for.
PutIsConfig ==
    put # Idle => /\ put.data = cfg
                  /\ cfg.sections[<<put.plugin, put.key>>] = put.value
                  /\ accepted[<<put.plugin, put.key>>] = Unset

\* The Config is one main accepted.
ConfigOpens == up => Opens(cfg.globals)

\* Both hold from step to step.
LEMMA PutIsConfigStep ==
    ASSUME TypeOK, PutIsConfig, ConfigOpens, [Next]_vars
    PROVE  PutIsConfig' /\ ConfigOpens'
<1>1. ASSUME NEW e \in Env, Start(e)
      PROVE  PutIsConfig' /\ ConfigOpens'
  <2>1. put = Idle
    BY <1>1 DEF TypeOK, ProcTypes, Start, Boot
  <2> QED
    BY <1>1, <2>1, BootTyped DEF PutIsConfig, ConfigOpens, Start, Boot
<1>2. ASSUME NEW p \in Plugin, NEW k \in Setting, NEW v \in Value, NEW b \in Bearer,
             BeginPut(p, k, v, b)
      PROVE  PutIsConfig' /\ ConfigOpens'
  <2>1. accepted'[<<p, k>>] = Unset
    BY <1>2 DEF BeginPut, TypeOK, ConfigTypes, Sections
  <2> QED
    BY <1>2, <2>1, PutTyped DEF BeginPut, PutIsConfig, ConfigOpens
<1>3. CASE Save \/ SaveFails
  BY <1>3 DEF Save, Replace, SaveFails, PutIsConfig, ConfigOpens
<1>4. CASE Crash \/ PowerCut
  BY <1>4 DEF Crash, PowerCut, Gone, PutIsConfig, ConfigOpens
<1>5. ASSUME NEW f \in Edit, EditConfig(f)
      PROVE  PutIsConfig' /\ ConfigOpens'
  <2>1. put # Idle => put \in Put
    BY DEF TypeOK, ProcTypes
  <2>2. \A s \in Plugin \X Setting : accepted'[s] = Unset
    BY <1>5 DEF EditConfig, NoSections
  <2> QED
    BY <1>5, <2>1, <2>2 DEF EditConfig, procVars, PutIsConfig, ConfigOpens, Put
<1>6. CASE RotateOpen \/ RotateWrite \/ RotateDies \/ RemoveToken \/ WriteBack
  BY <1>6 DEF RotateOpen, RotateWrite, RotateDies, RemoveToken, WriteBack, configVars,
              procVars, PutIsConfig, ConfigOpens
<1>7. CASE UNCHANGED vars
  BY <1>7 DEF vars, configVars, procVars, PutIsConfig, ConfigOpens
<1> QED
  BY <1>1, <1>2, <1>3, <1>4, <1>5, <1>6, <1>7 DEF Next

\* Both hold at first.
LEMMA PutIsConfigInit == Init => PutIsConfig /\ ConfigOpens
BY DEF Init, PutIsConfig, ConfigOpens

-----------------------------------------------------------------------------
(* SavedFileStarts *)

\* An environment main has accepted with one file: none of its overrides is
\* refused.
Harmless(e) ==
    LET over == Overrides(e)
    IN  /\ over.data_dir # Blank
        /\ over.storage_backend \in Known \cup {Unset}
        /\ over.job_history_max_runs # Unset => over.job_history_max_runs >= 0

\* The override of a global, where there is one, is what Load returns for it.
LEMMA LoadedGlobals ==
    ASSUME NEW f \in Parsed, NEW e, NEW g \in Global
    PROVE  Load(f, e).globals[g] = IF Overrides(e)[g] # Unset THEN Overrides(e)[g]
                                   ELSE Over(Default, f.globals)[g]
BY DEF Load, Over, Global

\* Main checks each setting for itself, so an environment it has accepted with
\* one file is none it refuses with another ...
LEMMA AcceptedIsHarmless ==
    ASSUME NEW f \in Parsed, NEW e, Opens(Load(f, e).globals)
    PROVE  Harmless(e)
<1>1. {"data_dir", "storage_backend", "job_history_max_runs"} \subseteq Global
  BY DEF Global
<1>2. Unset # Blank
  BY ConfigurationAssumption
<1> QED
  BY <1>1, <1>2, LoadedGlobals DEF Harmless, Opens

\* ... if it accepts that one without overrides.
LEMMA HarmlessOpens ==
    ASSUME NEW f \in Parsed, NEW e, Harmless(e), Opens(Load(f, NoEnv).globals)
    PROVE  Opens(Load(f, e).globals)
<1>1. {"data_dir", "storage_backend", "job_history_max_runs"} \subseteq Global
  BY DEF Global
<1>2. \A g \in Global : Load(f, NoEnv).globals[g] = Over(Default, f.globals)[g]
  BY LoadedGlobals, NoOverrides
<1> QED
  BY <1>1, <1>2, LoadedGlobals DEF Harmless, Opens

\* The environment of the last start overrides nothing or was accepted.
EnvHarmless == Harmless(env)

\* What a power cut may leave of saved files starts without overrides.
SavedFileOpens ==
    \A f \in survivors \cup {file} :
        f # edited => f # Corrupt /\ Opens(Load(Read(f), NoEnv).globals)

\* Save never leaves what the service cannot start from.
THEOREM SavedStarts == Spec => []SavedFileStarts
<1>1. Init => SavedFileOpens /\ EnvHarmless
  <2>1. \A g \in Global : Overrides(NoEnv)[g] = Unset
    BY NoOverrides
  <2>2. Unset # Blank
    BY ConfigurationAssumption
  <2> QED
    BY <2>1, <2>2 DEF Init, SavedFileOpens, EnvHarmless, Harmless, Global
<1>2. TypeOK /\ PutIsConfig /\ ConfigOpens /\ SavedFileOpens /\ [Next]_vars => SavedFileOpens'
  <2> SUFFICES ASSUME TypeOK, PutIsConfig, ConfigOpens, SavedFileOpens, [Next]_vars
               PROVE  SavedFileOpens'
    OBVIOUS
  <2>1. CASE Save
    <3>1. cfg \in Config /\ put.data = cfg /\ Opens(cfg.globals)
      BY <2>1 DEF Save, Replace, TypeOK, ProcTypes, PutIsConfig, ConfigOpens
    <3>2. cfg # Corrupt /\ Opens(Load(Read(cfg), NoEnv).globals)
      BY <3>1, SavedReadsBack
    <3> QED
      BY <2>1, <3>1, <3>2 DEF Save, Replace, SavedFileOpens
  <2>2. CASE (\E f \in Edit : EditConfig(f))
    BY <2>2 DEF EditConfig, SavedFileOpens
  <2>3. CASE WriteBack
    BY <2>3 DEF WriteBack, SavedFileOpens
  <2>4. CASE PowerCut
    BY <2>4 DEF PowerCut, SavedFileOpens
  <2>5. CASE UNCHANGED <<file, survivors, edited>>
    BY <2>5 DEF SavedFileOpens
  <2> QED
    BY <2>1, <2>2, <2>3, <2>4, <2>5
    DEF Next, Start, Boot, BeginPut, SaveFails, Crash, RotateOpen, RotateWrite, RotateDies,
        RemoveToken, vars, configVars
<1>3. TypeOK /\ EnvHarmless /\ [Next]_vars => EnvHarmless'
  <2> SUFFICES ASSUME TypeOK, EnvHarmless, [Next]_vars
               PROVE  EnvHarmless'
    OBVIOUS
  <2>1. ASSUME NEW e \in Env, Start(e)
        PROVE  EnvHarmless'
    <3>1. Harmless(e)
      BY <2>1, BootTyped, AcceptedIsHarmless
    <3> QED
      BY <2>1, <3>1 DEF Start, Boot, EnvHarmless
  <2>2. CASE UNCHANGED env
    BY <2>2 DEF EnvHarmless
  <2> QED
    BY <2>1, <2>2
    DEF Next, BeginPut, Save, Replace, SaveFails, Crash, PowerCut, Gone, EditConfig, RotateOpen,
        RotateWrite, RotateDies, RemoveToken, WriteBack, vars, procVars
<1>4. TypeOK /\ SavedFileOpens /\ EnvHarmless => SavedFileStarts
  <2> SUFFICES ASSUME TypeOK, SavedFileOpens, EnvHarmless,
                      NEW f \in survivors \cup {file}, NEW e \in {NoEnv, env}, f # edited
               PROVE  f # Corrupt /\ Opens(Load(Read(f), e).globals)
    BY DEF SavedFileStarts
  <2>1. f # Corrupt /\ Opens(Load(Read(f), NoEnv).globals)
    BY DEF SavedFileOpens
  <2>2. Read(f) \in Parsed
    BY <2>1, ReadTyped DEF TypeOK, ConfigTypes
  <2> QED
    BY <2>1, <2>2, HarmlessOpens DEF EnvHarmless
<1> QED
  BY <1>1, <1>2, <1>3, <1>4, NodeTyped, PutIsConfigInit, PutIsConfigStep, PTL DEF Spec

-----------------------------------------------------------------------------
(* AcceptedIsKept *)

\* What was answered 200 for is in the Config; what was written back was
\* answered 200 for.
AcceptedInConfig ==
    /\ up => \A s \in Plugin \X Setting : accepted[s] # Unset => cfg.sections[s] = accepted[s]
    /\ \A s \in Plugin \X Setting : flushed[s] # Unset => accepted[s] = flushed[s]

KeptInv == AcceptedIsKept /\ AcceptedInConfig

\* An accepted setting stays in the file, a written-back one in what a power
\* cut leaves.
THEOREM AcceptedKept == Spec => []AcceptedIsKept
<1>1. Init => KeptInv
  BY DEF Init, KeptInv, AcceptedIsKept, AcceptedInConfig, Keeps, NoSections
<1>2. TypeOK /\ PutIsConfig /\ KeptInv /\ [Next]_vars => KeptInv'
  <2> SUFFICES ASSUME TypeOK, PutIsConfig, KeptInv, [Next]_vars
               PROVE  KeptInv'
    OBVIOUS
  <2>1. ASSUME NEW e \in Env, Start(e)
        PROVE  KeptInv'
    <3>1. \A s \in Plugin \X Setting : accepted[s] # Unset => cfg'.sections[s] = accepted[s]
      BY <2>1, BootTyped DEF KeptInv, AcceptedIsKept, Keeps, Load, Read
    <3> QED
      BY <2>1, <3>1 DEF Start, Boot, KeptInv, AcceptedIsKept, AcceptedInConfig, Keeps
  <2>2. ASSUME NEW p \in Plugin, NEW k \in Setting, NEW v \in Value, NEW b \in Bearer,
               BeginPut(p, k, v, b)
        PROVE  KeptInv'
    <3>1. \A s \in Plugin \X Setting :
              /\ accepted'[s] = IF s = <<p, k>> THEN Unset ELSE accepted[s]
              /\ flushed'[s] = IF s = <<p, k>> THEN Unset ELSE flushed[s]
      BY <2>2 DEF BeginPut, TypeOK, ConfigTypes, Sections
    <3>2. \A s \in Plugin \X Setting : s # <<p, k>> => cfg'.sections[s] = cfg.sections[s]
      BY <2>2, PutTyped
    <3>3. UNCHANGED <<file, survivors, up>> /\ up
      BY <2>2 DEF BeginPut
    <3>4. AcceptedIsKept'
      BY <3>1, <3>3 DEF KeptInv, AcceptedIsKept, Keeps
    <3>5. AcceptedInConfig'
      BY <3>1, <3>2, <3>3 DEF KeptInv, AcceptedInConfig
    <3> QED
      BY <3>4, <3>5 DEF KeptInv
  <2>3. CASE Save
    <3>1. /\ cfg \in Config /\ put \in Put /\ put.data = cfg
          /\ cfg.sections[<<put.plugin, put.key>>] = put.value
          /\ accepted[<<put.plugin, put.key>>] = Unset
      BY <2>3 DEF Save, Replace, TypeOK, ProcTypes, PutIsConfig
    <3>2. cfg \notin {Missing, Corrupt}
      BY <3>1, SavedReadsBack
    <3>3. \A s \in Plugin \X Setting : accepted'[s] =
              IF s = <<put.plugin, put.key>> THEN put.value ELSE accepted[s]
      BY <2>3, <3>1 DEF Save, Replace, TypeOK, ConfigTypes, Sections, Put
    <3>4. AcceptedInConfig'
      BY <2>3, <3>1, <3>3 DEF Save, Replace, KeptInv, AcceptedInConfig
    <3>5. up
      BY <2>3 DEF Save, Replace, TypeOK, ProcTypes
    <3>6. Keeps(cfg, accepted') /\ Keeps(cfg, flushed)
      BY <2>3, <3>1, <3>2, <3>3, <3>5 DEF KeptInv, AcceptedInConfig, Keeps
    <3> QED
      BY <2>3, <3>1, <3>4, <3>6 DEF Save, Replace, KeptInv, AcceptedIsKept, Keeps
  <2>4. CASE SaveFails \/ Crash
    BY <2>4 DEF SaveFails, Crash, Gone, configVars, KeptInv, AcceptedIsKept, AcceptedInConfig, Keeps
  <2>5. ASSUME NEW f \in Edit, EditConfig(f)
        PROVE  KeptInv'
    BY <2>5 DEF EditConfig, KeptInv, AcceptedIsKept, AcceptedInConfig, Keeps, NoSections
  <2>6. CASE WriteBack
    BY <2>6 DEF WriteBack, procVars, KeptInv, AcceptedIsKept, AcceptedInConfig, Keeps
  <2>7. CASE PowerCut
    BY <2>7 DEF PowerCut, Gone, KeptInv, AcceptedIsKept, AcceptedInConfig, Keeps
  <2>8. CASE UNCHANGED <<configVars, procVars>>
    BY <2>8 DEF configVars, procVars, KeptInv, AcceptedIsKept, AcceptedInConfig, Keeps
  <2> QED
    BY <2>1, <2>2, <2>3, <2>4, <2>5, <2>6, <2>7, <2>8
    DEF Next, RotateOpen, RotateWrite, RotateDies, RemoveToken, vars
<1>3. KeptInv => AcceptedIsKept
  BY DEF KeptInv
<1>4. PutIsConfig /\ ConfigOpens /\ TypeOK /\ [Next]_vars => PutIsConfig' /\ ConfigOpens'
  BY PutIsConfigStep
<1> QED
  BY <1>1, <1>2, <1>3, <1>4, NodeTyped, PutIsConfigInit, PTL DEF Spec

-----------------------------------------------------------------------------
(* GlobalsAreTheAdmins *)

\* The Config has the globals of the file the administrator left, but for
\* overrides, present or saved.
ConfigFollowsFile ==
    up /\ ~behind /\ ~overwritten =>
        \A g \in Global \ (leaked \cup Overridden(env)) : cfg.globals[g] = Effective(edited)[g]

GlobalsInv == GlobalsAreTheAdmins /\ ConfigFollowsFile

\* The file's globals are the administrator's but for overrides that a service
\* started with them saved.
THEOREM GlobalsKept == Spec => []GlobalsAreTheAdmins
<1>1. Init => GlobalsInv
  BY DEF Init, GlobalsInv, GlobalsAreTheAdmins, ConfigFollowsFile
<1>2. TypeOK /\ PutIsConfig /\ GlobalsInv /\ [Next]_vars => GlobalsInv'
  <2> SUFFICES ASSUME TypeOK, PutIsConfig, GlobalsInv, [Next]_vars
               PROVE  GlobalsInv'
    OBVIOUS
  <2>1. ASSUME NEW e \in Env, Start(e)
        PROVE  GlobalsInv'
    <3>1. GlobalsAreTheAdmins'
      BY <2>1 DEF Start, Boot, GlobalsInv, GlobalsAreTheAdmins
    <3>2. \A g \in Global \ Overridden(e) : cfg'.globals[g] = Effective(file)[g]
      BY <2>1, BootTyped DEF Load, Over, Effective, Overridden
    <3>3. ~overwritten => \A g \in Global \ leaked : Effective(file)[g] = Effective(edited)[g]
      BY <2>1, BootTyped DEF GlobalsInv, GlobalsAreTheAdmins
    <3>4. ConfigFollowsFile'
      BY <2>1, <3>2, <3>3 DEF Start, Boot, ConfigFollowsFile
    <3> QED
      BY <3>1, <3>4 DEF GlobalsInv
  <2>2. ASSUME NEW p \in Plugin, NEW k \in Setting, NEW v \in Value, NEW b \in Bearer,
               BeginPut(p, k, v, b)
        PROVE  GlobalsInv'
    <3>1. cfg'.globals = cfg.globals
      BY <2>2, PutTyped
    <3>2. UNCHANGED <<file, survivors, edited, behind, overwritten, leaked, up, env>>
      BY <2>2 DEF BeginPut
    <3> QED
      BY <3>1, <3>2 DEF GlobalsInv, GlobalsAreTheAdmins, ConfigFollowsFile
  <2>3. CASE Save
    <3>1. cfg \in Config /\ put.data = cfg /\ up
      BY <2>3 DEF Save, Replace, TypeOK, ProcTypes, PutIsConfig
    <3>2. Effective(cfg) = cfg.globals
      BY <3>1, SavedReadsBack
    <3>3. ~overwritten' => \A g \in Global \ leaked' : Effective(cfg)[g] = Effective(edited)[g]
      BY <2>3, <3>1, <3>2 DEF Save, Replace, GlobalsInv, ConfigFollowsFile
    <3>4. GlobalsAreTheAdmins'
      BY <2>3, <3>1, <3>3 DEF Save, Replace, GlobalsInv, GlobalsAreTheAdmins
    <3>5. ConfigFollowsFile'
      BY <2>3 DEF Save, Replace, GlobalsInv, ConfigFollowsFile
    <3> QED
      BY <3>4, <3>5 DEF GlobalsInv
  <2>4. CASE SaveFails \/ Crash
    BY <2>4 DEF SaveFails, Crash, Gone, configVars, GlobalsInv, GlobalsAreTheAdmins, ConfigFollowsFile
  <2>5. ASSUME NEW f \in Edit, EditConfig(f)
        PROVE  GlobalsInv'
    BY <2>5 DEF EditConfig, procVars, GlobalsInv, GlobalsAreTheAdmins, ConfigFollowsFile
  <2>6. CASE WriteBack
    BY <2>6 DEF WriteBack, procVars, GlobalsInv, GlobalsAreTheAdmins, ConfigFollowsFile
  <2>7. CASE PowerCut
    BY <2>7 DEF PowerCut, Gone, GlobalsInv, GlobalsAreTheAdmins, ConfigFollowsFile
  <2>8. CASE UNCHANGED <<configVars, procVars>>
    BY <2>8 DEF configVars, procVars, GlobalsInv, GlobalsAreTheAdmins, ConfigFollowsFile
  <2> QED
    BY <2>1, <2>2, <2>3, <2>4, <2>5, <2>6, <2>7, <2>8
    DEF Next, RotateOpen, RotateWrite, RotateDies, RemoveToken, vars
<1>3. GlobalsInv => GlobalsAreTheAdmins
  BY DEF GlobalsInv
<1>4. PutIsConfig /\ ConfigOpens /\ TypeOK /\ [Next]_vars => PutIsConfig' /\ ConfigOpens'
  BY PutIsConfigStep
<1> QED
  BY <1>1, <1>2, <1>3, <1>4, NodeTyped, PutIsConfigInit, PTL DEF Spec

-----------------------------------------------------------------------------
(* AuthNeverLapses *)

\* A token file that was written is there, and once written back survives
\* every power cut.
TokenStays ==
    /\ tokenKept # "no" => token # NoFile
    /\ tokenKept = "flushed" => NoFile \notin tokenSurvivors

\* No start leaves authentication off once there is a token file.
THEOREM AuthStaysOn == Spec => AuthNeverLapses
<1>1. Init => TokenStays
  BY DEF Init, TokenStays
<1>2. TypeOK /\ TokenStays /\ [Next]_vars => TokenStays'
  <2> SUFFICES ASSUME TypeOK, TokenStays, [Next]_vars
               PROVE  TokenStays'
    OBVIOUS
  <2>1. CASE RotateOpen
    BY <2>1, TokensDiffer DEF RotateOpen, TokenStays, TypeOK, TokenTypes
  <2>2. CASE RotateWrite
    BY <2>2, TokensDiffer DEF RotateWrite, TokenStays, TypeOK, TokenTypes
  <2>3. CASE RotateDies \/ RemoveToken
    BY <2>3 DEF RotateDies, RemoveToken, TokenStays
  <2>4. CASE WriteBack
    BY <2>4 DEF WriteBack, TokenStays
  <2>5. CASE PowerCut
    BY <2>5 DEF PowerCut, TokenStays
  <2>6. CASE UNCHANGED tokenVars
    BY <2>6 DEF tokenVars, TokenStays
  <2> QED
    BY <2>1, <2>2, <2>3, <2>4, <2>5, <2>6
    DEF Next, Start, Boot, BeginPut, Save, Replace, SaveFails, Crash, EditConfig, vars
<1>3. TypeOK /\ TokenStays /\ [Next]_vars
          => (~up /\ up' /\ tokenKept # "no" => authToken' # NoFile)
  <2> SUFFICES ASSUME TokenStays, TypeOK, [Next]_vars, ~up, up', tokenKept # "no"
               PROVE  authToken' # NoFile
    OBVIOUS
  <2>1. ~UNCHANGED up
    OBVIOUS
  <2>2. PICK e \in Env : Start(e)
    BY <2>1 DEF Next, BeginPut, Save, Replace, SaveFails, Crash, PowerCut, Gone, EditConfig,
       RotateOpen, RotateWrite, RotateDies, RemoveToken, WriteBack, vars, procVars
  <2> QED
    BY <2>2 DEF Start, Boot, Accepts, loadToken, TokenStays
<1> QED
  BY <1>1, <1>2, <1>3, NodeTyped, PTL DEF Spec, AuthNeverLapses
=============================================================================
