---------------------------- MODULE Configuration ----------------------------
(***************************************************************************)
(* What a config file means (internal/config/config.go) and which plugins  *)
(* it leaves registered (plugin/registry.go): defaults, the file over the  *)
(* defaults, the environment over the file.  Four of the global settings   *)
(* stand for all: the list, the number and the directory have checks of    *)
(* their own, the backend is a name like listen_host, log_level and theme. *)
(***************************************************************************)
EXTENDS Integers

CONSTANTS
    Plugin,         \* the plugins main registers
    Setting,        \* keys of a plugin's section
    Value,          \* their values
    Dir, Backend,   \* data directories, names of storage backends
    Known,          \* the backends that have a factory
    Blank,          \* white space: a list entry or a directory
    Unset,          \* a setting that is not there
    Default         \* DefaultConfig's globals

Global == {"enabled_plugins", "job_history_max_runs", "data_dir", "storage_backend"}

Name == Plugin \cup {Blank, "other"}

\* Values for the globals, with Unset where there may be none.
Globals == [enabled_plugins : SUBSET Name, job_history_max_runs : Int,
            data_dir : Dir \cup {Blank}, storage_backend : Backend]
Partial == [enabled_plugins : {Unset} \cup SUBSET Name, job_history_max_runs : {Unset} \cup Int,
            data_dir : Dir \cup {Blank, Unset}, storage_backend : Backend \cup {Unset}]

ASSUME ConfigurationAssumption ==
    /\ Known \subseteq Backend
    /\ Unset \notin Int /\ \A n \in SUBSET Name : Unset # n
    /\ Unset \notin Dir \cup {Blank} \cup Backend \cup Value
    /\ Blank \notin Plugin \cup Dir
    /\ Default \in Globals

Sections == [Plugin \X Setting -> Value \cup {Unset}]

\* A Config in memory, and what a file that parses holds.
Config == [globals : Globals, sections : Sections]
Parsed == [globals : Partial, sections : Sections]

NoSections == [s \in Plugin \X Setting |-> Unset]
NoGlobals == [g \in Global |-> Unset]

\* What yaml.Unmarshal does to the defaults, and applyEnv to the result.
Over(base, over) == [g \in Global |-> IF over[g] = Unset THEN base[g] ELSE over[g]]

\* The overrides applyEnv takes: not an empty list, not a negative number.
Overrides(env) ==
    [env EXCEPT
        !.enabled_plugins = IF env.enabled_plugins \in {Unset, {}, {Blank}} THEN Unset
                            ELSE env.enabled_plugins \ {Blank},
        !.job_history_max_runs = IF env.job_history_max_runs \in Nat
                                 THEN env.job_history_max_runs ELSE Unset]

\* Load for a file that parses, or that is missing.
Load(f, env) == [globals |-> Over(Over(Default, f.globals), Overrides(env)),
                 sections |-> f.sections]

SetPluginConfig(c, p, k, v) ==
    [c EXCEPT !.sections = [s \in Plugin \X Setting |->
        IF s = <<p, k>> THEN v ELSE c.sections[s]]]

\* The plugins DisableExcept leaves of those registered.
Enabled(list) == LET allowed == list \ {Blank}
                 IN  {p \in Plugin : allowed = {} \/ p \in allowed}

\* storage.New and its caller accept the settings.
Opens(g) ==
    /\ g.data_dir # Blank
    /\ g.storage_backend \in Known
    /\ g.job_history_max_runs >= 0
=============================================================================
