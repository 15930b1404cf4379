---------------------------- MODULE HistoryPaging ----------------------------
(***************************************************************************)
(* A client reads the history of one job page by page (GET                 *)
(* /jobs/{id}/runs with limit and offset, handleListRuns in                *)
(* internal/api/routes.go over JSONStore.ListRuns) while runs of that job  *)
(* end, in any order, and SaveRun inserts and prunes their records.  Each  *)
(* request sees one state of the store; the store changes between          *)
(* requests.  The client asks again from where the last page ended until   *)
(* it gets an empty page.                                                  *)
(***************************************************************************)
EXTENDS RunRecords

CONSTANTS
    At,             \* the StartedAt of the job's runs
    MaxN,           \* records kept, 0 for all
    Requests,       \* the limits clients ask for, 0 for none given
    DefaultLimit,   \* the page size when none is given
    MaxLimit        \* the largest page

ASSUME PagingAssumption ==
    /\ At \subseteq Nat /\ MaxN \in Nat /\ Requests \subseteq Nat
    /\ DefaultLimit \in Nat \ {0} /\ MaxLimit \in Nat \ {0}

VARIABLES
    recs,       \* the job's records in the store, oldest first
    used,       \* the runs that have ended
    pc,         \* the client: idle, paging or done
    asked,      \* the limit it asks for
    listed,     \* what it has been given so far
    present,    \* history: the records there since its first request
    quiet       \* history: no run ended since its first request

vars == <<recs, used, pc, asked, listed, present, quiet>>

TypeOK ==
    /\ recs \in Seq(At) /\ (MaxN > 0 => Len(recs) <= MaxN)
    /\ used \subseteq At
    /\ pc \in {"idle", "paging", "done"}
    /\ asked \in Requests
    /\ listed \in Seq(At)
    /\ present \subseteq At
    /\ quiet \in BOOLEAN

\* The page size handleListRuns uses for a limit.
PageSize(limit) ==
    IF limit = 0 THEN DefaultLimit ELSE IF limit > MaxLimit THEN MaxLimit ELSE limit

Init ==
    /\ recs = << >>
    /\ used = {}
    /\ pc = "idle"
    /\ asked \in Requests
    /\ listed = << >>
    /\ present = {}
    /\ quiet = TRUE

\* A run ends and is saved; its record may be older than others.
SaveRun(at) ==
    /\ at \notin used
    /\ used' = used \cup {at}
    /\ recs' = Insert(recs, at, MaxN)
    /\ present' = present \cap ToSet(recs')
    /\ quiet' = FALSE
    /\ UNCHANGED <<pc, asked, listed>>

\* The client starts to list.
Open ==
    /\ pc = "idle"
    /\ pc' = "paging"
    /\ present' = ToSet(recs)
    /\ quiet' = TRUE
    /\ UNCHANGED <<recs, used, asked, listed>>

\* handleListRuns: one page, from the offset the client has reached.
GetPage ==
    LET page == Page(recs, PageSize(asked), Len(listed))
    IN  /\ pc = "paging"
        /\ listed' = listed \o page
        /\ pc' = IF page = << >> THEN "done" ELSE "paging"
        /\ UNCHANGED <<recs, used, asked, present, quiet>>

\* The client forgets the listing and may start over.
Close ==
    /\ pc = "done"
    /\ pc' = "idle"
    /\ listed' = << >>
    /\ present' = {}
    /\ asked' \in Requests
    /\ UNCHANGED <<recs, used, quiet>>

Next == (\E at \in At : SaveRun(at)) \/ Open \/ GetPage \/ Close

Spec == Init /\ [][Next]_vars

-----------------------------------------------------------------------------
(* Properties *)

\* A record that is in the history from the first request to the last is on
\* one of the pages, whatever is saved and pruned in between.
NoSkip == pc = "done" => present \subseteq ToSet(listed)

\* A listing of a history that does not change is the history, newest first,
\* each record once (store.go: "skip from the start of the ordered set").
QuietListingIsExact == pc = "done" /\ quiet => listed = Reverse(recs)

=============================================================================
