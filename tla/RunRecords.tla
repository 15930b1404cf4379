------------------------------ MODULE RunRecords ------------------------------
(***************************************************************************)
(* How internal/storage/json.go arranges the records of one job.  A record *)
(* is its StartedAt, a number; a job's records are a sequence of them,     *)
(* oldest first.  Two records of a job never share a StartedAt, so the     *)
(* unstable sort.Slice has one result.                                     *)
(***************************************************************************)
EXTENDS Integers, FiniteSets, Sequences, SequencesExt

\* sort.Slice by StartedAt.Before: position i holds the record that i - 1
\* others precede.
Sorted(s) ==
    [i \in 1 .. Cardinality(ToSet(s)) |->
        CHOOSE x \in ToSet(s) : Cardinality({y \in ToSet(s) : y < x}) = i - 1]

\* The last n of an oldest-first list; a limit of 0 keeps them all.
KeepLast(s, n) ==
    IF n > 0 /\ Len(s) > n THEN SubSeq(s, Len(s) - n + 1, Len(s)) ELSE s

\* Mutants of Insert: the new record is taken for the newest; pruning comes
\* before the new record is in.
InsertAtEnd(s, at, n) == KeepLast(Append(s, at), n)
InsertAfterPrune(s, at, n) == Sorted(Append(KeepLast(s, n), at))

\* SaveRun's candidate: the record added, the list sorted and pruned.
Insert(s, at, n) == KeepLast(Sorted(Append(s, at)), n)

\* Prune's candidate, where a limit of 0 removes everything.
Pruned(s, n) == IF n = 0 THEN << >> ELSE KeepLast(s, n)

\* Mutants of Page: one record too many is skipped; offsets count from the
\* oldest record.
PageSkipsOne(s, limit, offset) ==
    LET from == SubSeq(Reverse(s), offset + 2, Len(s))
    IN  IF limit > 0 /\ limit < Len(from) THEN SubSeq(from, 1, limit) ELSE from

PageOldestFirst(s, limit, offset) ==
    LET from == SubSeq(s, offset + 1, Len(s))
    IN  IF limit > 0 THEN SubSeq(from, 1, IF limit < Len(from) THEN limit ELSE Len(from))
        ELSE from

\* ListRuns: newest first, `offset' skipped, at most `limit' returned (all of
\* them when limit is 0).
Page(s, limit, offset) ==
    LET newestFirst == Reverse(s)
        from == SubSeq(newestFirst, offset + 1, Len(s))
    IN  IF limit > 0 /\ limit < Len(from) THEN SubSeq(from, 1, limit) ELSE from
=============================================================================
