------------------------------ MODULE RunHistory ------------------------------
(***************************************************************************)
(* What a JobStore promises (internal/storage/store.go), as the scheduler  *)
(* and the API see it: a set of records per job that grows by one record   *)
(* at a time, is pruned to the newest, changes atomically, and after a     *)
(* crash or a power cut is one of the histories it was made to be.         *)
(* A record is its StartedAt, a number.                                    *)
(***************************************************************************)
EXTENDS Integers, FiniteSets

CONSTANTS
    Job,
    At,         \* the StartedAt of the records to come
    Limits,     \* the retention limits a configuration may set, 0 for none
    PruneTo     \* the limits Prune may be called with

VARIABLES
    hist,       \* the records stored for each job
    survivors,  \* the histories a power cut may leave, `hist' among them
    limit,      \* the retention limit in force
    open        \* whether a process has the store open

hvars == <<hist, survivors, limit, open>>

\* The n newest of S.
Recent(S, n) == {a \in S : n = 0 \/ Cardinality({b \in S : b > a}) < n}

\* The records a reader is shown.
View(j) == Recent(hist[j], limit)

Init ==
    /\ hist \in [Job -> SUBSET At]
    /\ survivors = {hist}
    /\ limit \in Limits
    /\ open = FALSE

\* Opening never changes what is stored, only how much of it is shown.
Open ==
    /\ ~open
    /\ open' = TRUE
    /\ limit' \in Limits
    /\ UNCHANGED <<hist, survivors>>

\* One job's records become S; every job's are pruned to what is shown.
Store(j, S) ==
    /\ open
    /\ hist' = [i \in Job |-> IF i = j THEN S ELSE View(i)]
    /\ survivors' = survivors \cup {hist'}
    /\ UNCHANGED <<limit, open>>

Save(j, a) == Store(j, Recent(View(j) \cup {a}, limit))
Prune(j, n) == Store(j, IF n = 0 THEN {} ELSE Recent(View(j), n))

\* The last change is safe from power cuts too.
Settle ==
    /\ survivors' = {hist}
    /\ UNCHANGED <<hist, limit, open>>

Crash ==
    /\ open
    /\ open' = FALSE
    /\ UNCHANGED <<hist, survivors, limit>>

PowerCut ==
    /\ open' = FALSE
    /\ hist' \in survivors
    /\ survivors' = {hist'}
    /\ UNCHANGED limit

Next ==
    \/ Open
    \/ \E j \in Job, a \in At : Save(j, a)
    \/ \E j \in Job, n \in PruneTo : Prune(j, n)
    \/ Settle
    \/ Crash
    \/ PowerCut

Spec == Init /\ [][Next]_hvars
=============================================================================
