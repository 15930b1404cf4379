------------------------------- MODULE MCNode -------------------------------
(* Small instances of Node for TLC. *)
EXTENDS Node
CONSTANTS a, b, on, here, json, sqlite

MCDefault == [enabled_plugins |-> {}, job_history_max_runs |-> 2,
              data_dir |-> here, storage_backend |-> json]
MCNoEnv == [g \in Global |-> Unset]
Set(g, v) == [MCNoEnv EXCEPT ![g] = v]

\* No file, one that does not parse, one that disables b, one with settings and a
\* limit main refuses.
MCEdit ==
    {Missing, Corrupt}
    \cup {[globals |-> Set("enabled_plugins", {a, Blank}),
           sections |-> [s \in Plugin \X Setting |-> Unset]]}
    \cup {[globals |-> Set("job_history_max_runs", -1),
           sections |-> [s \in Plugin \X Setting |-> on]]}

\* Overrides that are taken, ignored, and refused by main.
MCEnv ==
    {MCNoEnv, Set("enabled_plugins", {b}), Set("job_history_max_runs", 3),
     [Set("enabled_plugins", {Blank}) EXCEPT !.job_history_max_runs = -5],
     Set("data_dir", Blank), Set("storage_backend", sqlite)}
=============================================================================
