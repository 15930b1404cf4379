--------------------------- MODULE SettingsRegister ---------------------------
(***************************************************************************)
(* What PUT /plugins/{name}/settings promises (specs/API.md 4.6, and the   *)
(* comment at cfgMu.Lock in updatePluginConfig): the settings are a        *)
(* register that is updated one setting and one request at a time; an      *)
(* update is in force at once; when it ends the file has everything in     *)
(* force, or the request is told that it was not saved; a restart falls    *)
(* back to the file.                                                       *)
(***************************************************************************)
CONSTANTS
    Key,            \* the settings
    Config,         \* their possible values, functions on Key
    SaveMayFail     \* whether an update may end unsaved

VARIABLES
    up,         \* the service runs
    shown,      \* the settings in force
    saved,      \* those a restart begins with
    busy        \* an update is under way

svars == <<up, shown, saved, busy>>

Init ==
    /\ up = FALSE
    /\ saved \in Config
    /\ shown = saved
    /\ busy = FALSE

\* An update begins and changes setting k alone.
Update(k) ==
    /\ up /\ ~busy /\ busy'
    /\ shown' \in Config
    /\ \A other \in Key \ {k} : shown'[other] = shown[other]
    /\ UNCHANGED <<up, saved>>

\* It ends, and with it all that earlier ones left unsaved is saved.
Commit ==
    /\ busy /\ ~busy'
    /\ saved' = shown
    /\ UNCHANGED <<up, shown>>

\* It ends in an error and nothing is saved.
Fail ==
    /\ SaveMayFail
    /\ busy /\ ~busy'
    /\ UNCHANGED <<up, shown, saved>>

\* The service ends, if need be in the middle of an update: what was not saved
\* is gone.
Stop ==
    /\ up /\ ~up'
    /\ shown' = saved
    /\ ~busy'
    /\ UNCHANGED saved

\* It starts with what was saved.
Boot ==
    /\ ~up /\ up'
    /\ UNCHANGED <<shown, saved, busy>>

Next ==
    \/ \E k \in Key : Update(k)
    \/ Commit
    \/ Fail
    \/ Stop
    \/ Boot

Spec == Init /\ [][Next]_svars
=============================================================================
