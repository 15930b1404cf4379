--------------------------- MODULE MCPluginSettings ---------------------------
(* Small instances of PluginSettings for TLC. *)
EXTENDS PluginSettings
CONSTANTS daily, weekly, odd, yes, no
=============================================================================
