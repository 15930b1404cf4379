-------------------------------- MODULE Node --------------------------------
(***************************************************************************)
(* A node from start to start: the files under /etc/cm (config.yaml and    *)
(* auth.token), what main makes of them (cmd/cm/main.go), the one write    *)
(* the service does to them (Config.Save for a PUT of a plugin's setting), *)
(* and what an administrator does meanwhile.  Processes are killed and the *)
(* power fails between any two steps.                                      *)
(*                                                                         *)
(* Neither Save nor generateToken syncs the directory, and generateToken   *)
(* does not sync its file: until the file system writes back, a power cut  *)
(* may leave any of the contents since the last time it did.  Save does    *)
(* sync the temporary file before the rename.                              *)
(*                                                                         *)
(* Simplifications.  PUTs are one at a time, cfgMu serializes them, and    *)
(* the plugin accepts every value (PluginSettings has the rest).  What an  *)
(* administrator writes is on disk when the editor returns.  A start that  *)
(* is refused changes nothing and is no step.                              *)
(***************************************************************************)
EXTENDS Configuration

CONSTANTS
    Missing, Corrupt,   \* no config file; one that does not parse
    Edit,               \* what an administrator may leave as config file
    Env,                \* environments the service is started in
    NoEnv,              \* the one that overrides nothing
    NoFile, Empty,      \* no token file; one without a token
    Idle,               \* no PUT in progress, no Config
    MaxPuts, MaxEdits, MaxRotations \* bounds on what the environment does

ASSUME NodeAssumption ==
    /\ Missing # Corrupt /\ {Missing, Corrupt} \cap Parsed = {}
    /\ Edit \subseteq Parsed \cup {Missing, Corrupt}
    /\ Env \subseteq Partial /\ NoEnv \in Env /\ NoEnv = NoGlobals
    /\ NoFile # Empty /\ {NoFile, Empty} \cap Nat = {}
    /\ Idle \notin Config
    /\ Idle \notin [plugin : Plugin, key : Setting, value : Value, data : Config]
    /\ MaxPuts \in Nat /\ MaxEdits \in Nat /\ MaxRotations \in Nat

VARIABLES
    file,           \* config.yaml as a process reads it
    survivors,      \* what a power cut may leave of it
    token,          \* auth.token: NoFile, Empty, or the rotation it is from
    tokenSurvivors, \* what a power cut may leave of that
    rotating,       \* cm --rotate-token has truncated the file and not written it
    up,             \* the service runs
    env,            \* the environment it was started in last
    cfg,            \* its Config, or Idle
    registry,       \* its plugins
    authToken,      \* its token, or NoFile: no authentication
    put,            \* the PUT between Marshal and rename, or Idle
    puts, edits, rotations,     \* how often each happened
    edited,         \* history: the file the administrator left last
    behind,         \* history: the service read its file before that
    overwritten,    \* history: such a service has saved
    leaked,         \* history: globals a service with an override for them saved
    accepted,       \* history: what PUTs were answered 200 for
    flushed,        \* history: that, as of the last write-back
    tokenKept       \* history: whether a token file is there: no, written, flushed

configVars == <<file, survivors, edited, behind, overwritten, leaked, accepted, flushed>>
tokenVars == <<token, tokenSurvivors, rotating, rotations, tokenKept>>
procVars == <<up, env, cfg, registry, authToken, put>>
vars == <<configVars, tokenVars, procVars, puts, edits>>

Put == [plugin : Plugin, key : Setting, value : Value, data : Config]
Token == Nat \cup {NoFile, Empty}
Bearer == {NoFile} \cup 1 .. MaxRotations
Content == Parsed \cup {Missing, Corrupt}

ConfigTypes ==
    /\ file \in Content /\ edited \in Content
    /\ survivors \subseteq Content /\ file \in survivors
    /\ behind \in BOOLEAN /\ overwritten \in BOOLEAN /\ leaked \subseteq Global
    /\ accepted \in Sections /\ flushed \in Sections
TokenTypes ==
    /\ token \in Token /\ tokenSurvivors \subseteq Token /\ token \in tokenSurvivors
    /\ rotating \in BOOLEAN /\ rotations \in Nat
    /\ tokenKept \in {"no", "written", "flushed"}
ProcTypes ==
    /\ up \in BOOLEAN /\ env \in Env
    /\ IF up THEN cfg \in Config ELSE cfg = Idle
    /\ registry \subseteq Plugin /\ authToken \in Token \ {Empty}
    /\ put \in Put \cup {Idle} /\ (put # Idle => up)
TypeOK == ConfigTypes /\ TokenTypes /\ ProcTypes /\ puts \in Nat /\ edits \in Nat

\* Load's reading of the file; a missing one is one that sets nothing.
Read(f) == IF f = Missing THEN [globals |-> NoGlobals, sections |-> NoSections] ELSE f

Init ==
    /\ file \in Edit
    /\ survivors = {file}
    /\ token = NoFile
    /\ tokenSurvivors = {NoFile}
    /\ rotating = FALSE
    /\ up = FALSE
    /\ env = NoEnv
    /\ cfg = Idle
    /\ registry = {}
    /\ authToken = NoFile
    /\ put = Idle
    /\ puts = 0 /\ edits = 0 /\ rotations = 0
    /\ edited = file
    /\ behind = FALSE
    /\ overwritten = FALSE
    /\ leaked = {}
    /\ accepted = NoSections
    /\ flushed = NoSections
    /\ tokenKept = "no"

-----------------------------------------------------------------------------
(* The service. *)

\* Mutant of loadToken: a file without a token counts as none.
loadTokenLenient(t) == TRUE

\* loadToken goes on with the token or without authentication, and ends the
\* process on a file without a token.
loadToken(t) == t # Empty

\* main up to the servers: the file parses, the token file is not empty, the
\* store can be opened.
Accepts(f, e, t) ==
    /\ f # Corrupt
    /\ loadToken(t)
    /\ Opens(Load(Read(f), e).globals)

Overridden(e) == {g \in Global : Overrides(e)[g] # Unset}

\* main with Config c: DisableExcept, loadToken, NewServer.
Boot(e, c) ==
    /\ ~up
    /\ Accepts(file, e, token)
    /\ up' = TRUE
    /\ env' = e
    /\ cfg' = c
    /\ registry' = Enabled(c.globals.enabled_plugins)
    /\ authToken' = IF token = Empty THEN NoFile ELSE token
    /\ behind' = FALSE
    /\ UNCHANGED <<file, survivors, edited, overwritten, leaked, accepted, flushed,
                   tokenVars, put, puts, edits>>

\* Mutant of Start: the Config lists the plugins that are enabled.
StartPinsPlugins(e) ==
    LET c == Load(Read(file), e)
    IN  Boot(e, [c EXCEPT !.globals.enabled_plugins = Enabled(@)])

Start(e) == Boot(e, Load(Read(file), e))

\* BearerAuth lets a request with this token pass; NoFile: it has none.
Admitted(bearer) == authToken \in {NoFile, bearer}

\* PUT /plugins/{p}/settings up to yaml.Marshal.
BeginPut(p, k, v, bearer) ==
    /\ up /\ put = Idle /\ puts < MaxPuts
    /\ Admitted(bearer)
    /\ p \in registry
    /\ cfg' = SetPluginConfig(cfg, p, k, v)
    /\ put' = [plugin |-> p, key |-> k, value |-> v, data |-> cfg']
    /\ puts' = puts + 1
    /\ accepted' = [accepted EXCEPT ![<<p, k>>] = Unset]
    /\ flushed' = [flushed EXCEPT ![<<p, k>>] = Unset]
    /\ UNCHANGED <<file, survivors, edited, behind, overwritten, leaked,
                   tokenVars, up, env, registry, authToken, edits>>

\* The temporary file takes the place of the file, and the answer is 200.
Replace(f, left) ==
    /\ put # Idle
    /\ file' = f
    /\ survivors' = survivors \cup left
    /\ put' = Idle
    /\ accepted' = [accepted EXCEPT ![<<put.plugin, put.key>>] = put.value]
    /\ overwritten' = (overwritten \/ behind)
    /\ leaked' = leaked \cup Overridden(env)
    /\ UNCHANGED <<edited, behind, flushed, tokenVars, up, env, cfg, registry,
                   authToken, puts, edits>>

\* Mutant of Save: the sections of disabled plugins are left out.
SaveEnabledOnly ==
    LET f == [put.data EXCEPT !.sections = [s \in Plugin \X Setting |->
                 IF s[1] \in registry THEN @[s] ELSE Unset]]
    IN  Replace(f, {f})

\* Mutant of Save: the temporary file is not synced before the rename.
SaveUnsynced == Replace(put.data, {put.data, Corrupt})

\* Save's rename.
Save == Replace(put.data, {put.data})

\* Save fails before the rename or in it: 500, and the value stays in cfg.
SaveFails ==
    /\ put # Idle
    /\ put' = Idle
    /\ UNCHANGED <<configVars, tokenVars, up, env, cfg, registry, authToken, puts, edits>>

\* Mutant of Gone: the PUT goes on.
GoneMidPut ==
    /\ up' = FALSE
    /\ UNCHANGED env
    /\ cfg' = Idle
    /\ registry' = {}
    /\ authToken' = NoFile
    /\ UNCHANGED put

\* The process ends; the next start is in the same environment or another.
Gone ==
    /\ up' = FALSE
    /\ UNCHANGED env
    /\ cfg' = Idle
    /\ registry' = {}
    /\ authToken' = NoFile
    /\ put' = Idle

\* The process ends, asked to or not.
Crash ==
    /\ up
    /\ Gone
    /\ UNCHANGED <<configVars, tokenVars, puts, edits>>

-----------------------------------------------------------------------------
(* The administrator and the file system. *)

EditConfig(f) ==
    /\ edits < MaxEdits
    /\ edits' = edits + 1
    /\ file' = f
    /\ survivors' = {f}
    /\ edited' = f
    /\ behind' = up
    /\ overwritten' = FALSE
    /\ leaked' = {}
    /\ accepted' = NoSections
    /\ flushed' = NoSections
    /\ UNCHANGED <<tokenVars, procVars, puts>>

\* cm --rotate-token: os.WriteFile creates or truncates the file ...
RotateOpen ==
    /\ ~rotating /\ rotations < MaxRotations
    /\ rotating' = TRUE
    /\ rotations' = rotations + 1
    /\ token' = Empty
    /\ tokenSurvivors' = tokenSurvivors \cup {Empty}
    /\ tokenKept' = IF tokenKept = "no" THEN "written" ELSE tokenKept
    /\ UNCHANGED <<configVars, procVars, puts, edits>>

\* ... and writes the new token, or does not get to it.
RotateWrite ==
    /\ rotating
    /\ rotating' = FALSE
    /\ token' = rotations
    /\ tokenSurvivors' = tokenSurvivors \cup {rotations}
    /\ UNCHANGED <<rotations, tokenKept, configVars, procVars, puts, edits>>

RotateDies ==
    /\ rotating
    /\ rotating' = FALSE
    /\ UNCHANGED <<token, tokenSurvivors, rotations, tokenKept, configVars, procVars, puts, edits>>

\* "sudo rm /etc/cm/auth.token"
RemoveToken ==
    /\ ~rotating
    /\ token # NoFile
    /\ token' = NoFile
    /\ tokenSurvivors' = {NoFile}
    /\ tokenKept' = "no"
    /\ UNCHANGED <<rotating, rotations, configVars, procVars, puts, edits>>

WriteBack ==
    /\ survivors' = {file}
    /\ tokenSurvivors' = {token}
    /\ flushed' = accepted
    /\ tokenKept' = IF tokenKept = "no" THEN "no" ELSE "flushed"
    /\ UNCHANGED <<file, edited, behind, overwritten, leaked, accepted,
                   token, rotating, rotations, procVars, puts, edits>>

PowerCut ==
    /\ file' \in survivors
    /\ survivors' = {file'}
    /\ accepted' = flushed
    /\ token' \in tokenSurvivors
    /\ tokenSurvivors' = {token'}
    /\ tokenKept' = IF tokenKept = "flushed" THEN "flushed" ELSE "no"
    /\ rotating' = FALSE
    /\ Gone
    /\ UNCHANGED <<edited, behind, overwritten, leaked, flushed, rotations, puts, edits>>

Next ==
    \/ \E e \in Env : Start(e)
    \/ \E p \in Plugin, k \in Setting, v \in Value, b \in Bearer : BeginPut(p, k, v, b)
    \/ Save
    \/ SaveFails
    \/ Crash
    \/ \E f \in Edit : EditConfig(f)
    \/ RotateOpen
    \/ RotateWrite
    \/ RotateDies
    \/ RemoveToken
    \/ WriteBack
    \/ PowerCut

\* A start is never owed: whether and in which environment one comes is up to
\* systemd and the administrator.
Spec == Init /\ [][Next]_vars

-----------------------------------------------------------------------------
(* Properties *)

Keeps(f, values) ==
    \A s \in Plugin \X Setting :
        values[s] # Unset => f \notin {Missing, Corrupt} /\ f.sections[s] = values[s]

\* API.md: a setting is "persisted to disk and survives service restarts".
\* What a PUT was answered 200 for is in the file until another PUT or an edit,
\* through failed saves, crashes, starts with the plugin disabled and PUTs of
\* other settings; and what was written back survives every power cut.
AcceptedIsKept ==
    /\ Keeps(file, accepted)
    /\ \A f \in survivors : Keeps(f, flushed)

Effective(f) == Over(Default, Read(f).globals)

\* The global settings in the file are those the administrator left, but for a
\* service that read its file before the last edit, and for settings the
\* environment overrode in a service that saved.
GlobalsAreTheAdmins ==
    ~overwritten =>
        \A f \in survivors \cup {file} : f # Corrupt =>
            \A g \in Global \ leaked : Effective(f)[g] = Effective(edited)[g]

\* cm.service: "Remove or comment out individual lines to let
\* /etc/cm/config.yaml take effect": a service started without overrides runs
\* with the settings the administrator left in the file.
EnvIsTransient ==
    up /\ Overridden(env) = {} /\ ~behind /\ ~overwritten => cfg.globals = Effective(edited)

\* Save never writes what the service cannot start from: whatever a crash or a
\* power cut leaves is what the administrator left or can be started from,
\* without overrides and in the environment of the last start, where systemd
\* starts a failed service again.
SavedFileStarts ==
    \A f \in survivors \cup {file} : \A e \in {NoEnv, env} :
        f # edited => f # Corrupt /\ Opens(Load(Read(f), e).globals)

\* main.go: a file without a token ends the process "to prevent silently
\* disabling auth": from the first rotation on no start leaves authentication
\* off, also when a later rotation is cut short, until the file is removed, or
\* a power cut takes a file that was never written back.
AuthNeverLapses == [][~up /\ up' /\ tokenKept # "no" => authToken' # NoFile]_vars
=============================================================================
