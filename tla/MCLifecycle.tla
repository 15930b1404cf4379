----------------------------- MODULE MCLifecycle -----------------------------
(* Small instances of Lifecycle for TLC. *)
EXTENDS Lifecycle, TLC

CONSTANTS a, b

mcTUI == [p \in Proc |-> {"tui"}]

\* A service and somebody's terminal.
mcPair == (a :> {"headless"}) @@ (b :> {"tui", "connect"})
=============================================================================
