----------------------------- MODULE MCScheduler -----------------------------
(* Small instances of Scheduler for TLC. *)
EXTENDS Scheduler, TLC

CONSTANTS a, b, every, odd, bad

\* A job that fires every minute and one that fires every second minute.
mcMatches == (every :> {0, 1}) @@ (odd :> {1})

\* Two declarations of a, one of them invalid; b's comes with no schedule.
mcDeclared == (a :> {every, bad}) @@ (b :> {odd, NoCron})
mcDeclaredEvery == (a :> {every}) @@ (b :> {odd})
mcDeclaredOne == a :> {every}
=============================================================================
