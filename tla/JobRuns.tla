------------------------------- MODULE JobRuns -------------------------------
(***************************************************************************)
(* What the scheduler promises for jobs that only cron starts              *)
(* (specs/SPEC.md, "Job Scheduler"): a job has at most one run under way;  *)
(* a run ends once and leaves one record, of its outcome and its number,   *)
(* or none when the store fails; runs begin in the order of their numbers; *)
(* only a crash ends a run otherwise: it ends the service with all that is *)
(* under way and leaves the records alone; jobs triggered by hand take     *)
(* their numbers from the same sequence.                                   *)
(***************************************************************************)
EXTENDS Integers

CONSTANTS
    Job,
    MaxKept,        \* records kept per job, 0 for all
    SaveMayFail     \* whether an outcome may go unrecorded

VARIABLES
    up,         \* the service runs
    begun,      \* the numbers given so far
    active,     \* each job's runs under way
    recorded    \* each job's records

rvars == <<up, begun, active, recorded>>

Outcome == {"completed", "failed"}

\* What retention may make of records S: older ones go first, never all.
Retained(T, S) ==
    /\ T # {}
    /\ \A x \in S \ T, y \in T : x.run < y.run
    /\ MaxKept = 0 => T = S

Init ==
    /\ up = FALSE
    /\ begun = 0
    /\ active = [j \in Job |-> {}]
    /\ recorded = [j \in Job |-> {}]

\* A run begins, only of a job that is idle, with a number above those of all
\* runs before it.
Begin(j) ==
    /\ up
    /\ active[j] = {}
    /\ begun' \in Nat
    /\ \E r \in begun + 1 .. begun' : active' = [active EXCEPT ![j] = {r}]
    /\ UNCHANGED <<up, recorded>>

\* Numbers go to runs of other jobs.
Other ==
    /\ up
    /\ begun' \in Nat /\ begun' > begun
    /\ UNCHANGED <<up, active, recorded>>

\* A run ends, and with it its job is idle.
End(j, outcome) ==
    \E r \in active[j] :
        /\ up
        /\ active' = [active EXCEPT ![j] = {}]
        /\ \/ LET S == recorded[j] \cup {[run |-> r, status |-> outcome]}
              IN  \E T \in SUBSET S : /\ Retained(T, S)
                                      /\ recorded' = [recorded EXCEPT ![j] = T]
           \/ SaveMayFail /\ UNCHANGED recorded
        /\ UNCHANGED <<up, begun>>

\* The service ends.  Runs it was about to begin may have their numbers already.
Crash ==
    /\ up /\ up' = FALSE
    /\ active' = [j \in Job |-> {}]
    /\ begun' \in Nat /\ begun' >= begun
    /\ UNCHANGED recorded

\* It starts again, with the records and no runs.
Restart ==
    /\ ~up /\ up' = TRUE
    /\ UNCHANGED <<begun, active, recorded>>

Next ==
    \/ \E j \in Job : Begin(j)
    \/ \E j \in Job, outcome \in Outcome : End(j, outcome)
    \/ Other
    \/ Crash
    \/ Restart

Spec == Init /\ [][Next]_rvars
=============================================================================
