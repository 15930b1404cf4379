-------------------------- MODULE HistoryPagingProofs --------------------------
(***************************************************************************)
(* A client that pages by offset misses no record that stays, whatever is  *)
(* saved and pruned in between, for any runs, limits and page sizes: a     *)
(* record's place counted from the newest never gets smaller, so one that  *)
(* the offset has not reached is still ahead of it after the next save.    *)
(***************************************************************************)
EXTENDS HistoryPaging, RunRecordsProofs

\* A record that stays and is not listed yet is still ahead of the client.
StillAhead ==
    \A a \in present \ ToSet(listed) :
        /\ pc # "done"
        /\ \A i \in 1 .. Len(recs) : recs[i] = a => Len(recs) - i >= Len(listed)

\* What has been listed of a history at rest is its newest records in order.
Exact ==
    quiet /\ pc # "idle" =>
        /\ Len(listed) <= Len(recs)
        /\ \A q \in 1 .. Len(listed) : listed[q] = recs[Len(recs) - q + 1]
        /\ pc = "done" => Len(listed) = Len(recs)

PagingInv ==
    /\ TypeOK
    /\ Increasing(recs)
    /\ present \subseteq ToSet(recs)
    /\ pc = "idle" => listed = << >>
    /\ StillAhead
    /\ Exact

\* The history and the list are lists of numbers.
LEMMA ListsOfNat ==
    ASSUME TypeOK
    PROVE  /\ recs \in Seq(Nat) /\ listed \in Seq(Nat)
           /\ Len(recs) \in Nat /\ Len(listed) \in Nat
           /\ ToSet(recs) = {recs[i] : i \in 1 .. Len(recs)}
           /\ ToSet(recs) \subseteq At /\ ToSet(recs) \subseteq Nat
<1>1. recs \in Seq(At) /\ listed \in Seq(At) /\ At \subseteq Nat
  BY PagingAssumption DEF TypeOK
<1>2. recs \in Seq(Nat) /\ listed \in Seq(Nat)
  BY <1>1, SeqMonotonic
<1> QED
  BY <1>1, <1>2, LenProperties, ElementsOf

\* SaveRun leaves what the client has not reached ahead of it.
LEMMA SaveRunKeeps ==
    ASSUME PagingInv, NEW at \in At, SaveRun(at)
    PROVE  PagingInv'
<1> DEFINE t == Insert(recs, at, MaxN)
<1>1. /\ recs' = t /\ used' = used \cup {at} /\ present' = present \cap ToSet(t)
      /\ quiet' = FALSE /\ pc' = pc /\ asked' = asked /\ listed' = listed
  BY DEF SaveRun
<1>2. at \in Nat /\ MaxN \in Nat
  BY PagingAssumption
<1>3. recs \in Seq(Nat) /\ ToSet(recs) \subseteq At /\ Increasing(recs)
  BY ListsOfNat DEF PagingInv
<1>4. /\ t \in Seq(Nat) /\ Increasing(t) /\ (MaxN > 0 => Len(t) <= MaxN)
      /\ ToSet(t) \subseteq ToSet(recs) \cup {at}
  BY <1>2, <1>3, InsertFacts
<1> HIDE DEF t
<1>5. t \in Seq(At)
  <2>1. ToSet(t) \subseteq At
    BY <1>3, <1>4
  <2> QED
    BY <1>4, <2>1, ListOver
<1>6. TypeOK'
  BY <1>1, <1>4, <1>5 DEF PagingInv, TypeOK
<1>7. StillAhead'
  <2> SUFFICES ASSUME NEW a \in present' \ ToSet(listed)
               PROVE  /\ pc # "done"
                      /\ \A k \in 1 .. Len(t) : t[k] = a => Len(t) - k >= Len(listed)
    BY <1>1 DEF StillAhead
  <2>1. a \in present \ ToSet(listed) /\ a \in ToSet(recs)
    BY <1>1 DEF PagingInv
  <2>2. /\ pc # "done"
        /\ \A i \in 1 .. Len(recs) : recs[i] = a => Len(recs) - i >= Len(listed)
    BY <2>1 DEF PagingInv, StillAhead
  <2>3. PICK i \in 1 .. Len(recs) : recs[i] = a
    BY <1>3, <2>1, ElementsOf
  <2>4. ASSUME NEW k \in 1 .. Len(t), t[k] = a
        PROVE  Len(t) - k >= Len(listed)
    <3>1. Len(t) - k >= Len(recs) - i
      BY <1>2, <1>3, <2>3, <2>4, InsertKeepsPlaces DEF t
    <3>2. Len(recs) - i >= Len(listed)
      BY <2>2, <2>3
    <3>3. Len(t) \in Nat /\ Len(recs) \in Nat /\ Len(listed) \in Nat
      BY <1>4, LenProperties, ListsOfNat DEF PagingInv
    <3> QED
      BY <3>1, <3>2, <3>3
  <2> QED
    BY <2>2, <2>4
<1>8. Increasing(recs)' /\ (present \subseteq ToSet(recs))' /\ (pc = "idle" => listed = << >>)'
  BY <1>1, <1>4 DEF PagingInv
<1>9. Exact'
  BY <1>1 DEF Exact
<1> QED
  BY <1>6, <1>7, <1>8, <1>9 DEF PagingInv

\* A listing begins with everything ahead.
LEMMA OpenKeeps ==
    ASSUME PagingInv, Open
    PROVE  PagingInv'
<1>1. /\ pc' = "paging" /\ present' = ToSet(recs) /\ recs' = recs /\ used' = used
      /\ asked' = asked /\ listed' = listed /\ listed = << >> /\ quiet' = TRUE
  BY DEF PagingInv, Open
<1>2. /\ recs \in Seq(Nat) /\ Len(recs) \in Nat /\ ToSet(recs) \subseteq At
      /\ ToSet(recs) = {recs[i] : i \in 1 .. Len(recs)}
  BY ListsOfNat DEF PagingInv
<1>3. Len(listed) = 0
  BY <1>1
<1>4. TypeOK'
  BY <1>1, <1>2 DEF PagingInv, TypeOK
<1>5. StillAhead' /\ Exact'
  BY <1>1, <1>2, <1>3 DEF StillAhead, Exact
<1> QED
  BY <1>1, <1>4, <1>5 DEF PagingInv

\* A page lists what lies between the offset and the next one, and is empty only
\* when nothing lies ahead.
LEMMA GetPageKeeps ==
    ASSUME PagingInv, GetPage
    PROVE  PagingInv'
<1> DEFINE page == Page(recs, PageSize(asked), Len(listed))
           n == Len(recs)
           off == Len(listed)
<1>1. /\ pc = "paging" /\ listed' = listed \o page
      /\ pc' = IF page = << >> THEN "done" ELSE "paging"
      /\ recs' = recs /\ used' = used /\ asked' = asked /\ present' = present /\ quiet' = quiet
  BY DEF GetPage
<1>2. PageSize(asked) \in Nat \ {0}
  BY PagingAssumption DEF PagingInv, TypeOK, PageSize
<1>3. recs \in Seq(At) /\ listed \in Seq(At) /\ n \in Nat /\ off \in Nat
  BY ListsOfNat DEF PagingInv, TypeOK
<1>4. /\ page \in Seq(At)
      /\ \A q \in 1 .. Len(page) : /\ n - (off + q) + 1 \in 1 .. n
                                   /\ page[q] = recs[n - (off + q) + 1]
      /\ page = << >> => off >= n
      /\ off >= n => page = << >>
  BY <1>2, <1>3, PageFacts
<1> HIDE DEF page
<1>5. /\ listed' \in Seq(At) /\ Len(listed') = off + Len(page) /\ Len(page) \in Nat
      /\ \A q \in 1 .. off + Len(page) :
             listed'[q] = IF q <= off THEN listed[q] ELSE page[q - off]
  BY <1>1, <1>3, <1>4, ConcatProperties, LenProperties
<1>6. TypeOK'
  BY <1>1, <1>5 DEF PagingInv, TypeOK
<1>7. StillAhead'
  <2> SUFFICES ASSUME NEW a \in present \ ToSet(listed')
               PROVE  /\ pc' # "done"
                      /\ \A i \in 1 .. n : recs[i] = a => n - i >= Len(listed')
    BY <1>1 DEF StillAhead
  <2>1. ToSet(listed') = {listed'[q] : q \in 1 .. Len(listed')}
        /\ ToSet(listed) = {listed[q] : q \in 1 .. off}
    BY <1>3, <1>5, ElementsOf
  <2>2. a \notin ToSet(listed)
    <3>1. \A q \in 1 .. off : q \in 1 .. Len(listed') /\ listed[q] = listed'[q]
      BY <1>3, <1>5
    <3> QED
      BY <2>1, <3>1
  <2>3. \A i \in 1 .. n : recs[i] = a => n - i >= off
    BY <2>2 DEF PagingInv, StillAhead
  <2>4. PICK k \in 1 .. n : recs[k] = a
    BY ListsOfNat DEF PagingInv
  <2>5. ASSUME NEW i \in 1 .. n, recs[i] = a
        PROVE  n - i >= Len(listed')
    <3> SUFFICES ASSUME n - i < off + Len(page)
                 PROVE  FALSE
      BY <1>3, <1>5
    <3> DEFINE q == n - i + 1 - off
    <3>1. n - i >= off
      BY <2>3, <2>5
    <3>2. q \in 1 .. Len(page) /\ n - (off + q) + 1 = i
      BY <1>3, <1>5, <3>1
    <3>3. page[q] = a
      BY <1>4, <2>5, <3>2
    <3>4. off + q \in 1 .. off + Len(page) /\ ~(off + q <= off) /\ (off + q) - off = q
      BY <1>3, <1>5, <3>2
    <3> HIDE DEF q
    <3>5. listed'[off + q] = a
      BY <1>5, <3>3, <3>4
    <3> QED
      BY <1>5, <2>1, <3>4, <3>5
  <2>6. page # << >>
    <3>1. n - k >= off
      BY <2>3, <2>4
    <3>2. ~(off >= n)
      BY <1>3, <3>1
    <3> QED
      BY <1>4, <3>2
  <2> QED
    BY <1>1, <2>5, <2>6
<1>8. Exact'
  <2> SUFFICES ASSUME quiet
               PROVE  /\ Len(listed') <= n
                      /\ \A q \in 1 .. Len(listed') : listed'[q] = recs[n - q + 1]
                      /\ page = << >> => Len(listed') = n
    BY <1>1 DEF Exact
  <2>1. off <= n /\ \A q \in 1 .. off : listed[q] = recs[n - q + 1]
    BY <1>1 DEF PagingInv, Exact
  <2>2. Len(listed') <= n
    <3>1. CASE Len(page) = 0
      BY <1>3, <1>5, <2>1, <3>1
    <3>2. CASE Len(page) > 0
      <4>1. Len(page) \in 1 .. Len(page)
        BY <1>5, <3>2
      <4>2. n - (off + Len(page)) + 1 \in 1 .. n
        BY <1>4, <4>1
      <4> QED
        BY <1>3, <1>5, <4>2
    <3> QED
      BY <1>5, <3>1, <3>2
  <2>3. ASSUME NEW q \in 1 .. Len(listed')
        PROVE  listed'[q] = recs[n - q + 1]
    <3>1. CASE q <= off
      <4>1. q \in 1 .. off /\ q \in 1 .. off + Len(page)
        BY <1>3, <1>5, <3>1
      <4> QED
        BY <1>5, <2>1, <3>1, <4>1
    <3>2. CASE ~(q <= off)
      <4>1. q - off \in 1 .. Len(page) /\ q \in 1 .. off + Len(page)
            /\ n - (off + (q - off)) + 1 = n - q + 1
        BY <1>3, <1>5, <3>2
      <4> QED
        BY <1>4, <1>5, <3>2, <4>1
    <3> QED
      BY <3>1, <3>2
  <2>4. page = << >> => Len(listed') = n
    <3>1. page = << >> => Len(page) = 0
      BY EmptySeq
    <3> QED
      BY <1>3, <1>4, <1>5, <2>1, <3>1
  <2> QED
    BY <2>2, <2>3, <2>4
<1>9. Increasing(recs)' /\ (present \subseteq ToSet(recs))' /\ (pc = "idle" => listed = << >>)'
  BY <1>1 DEF PagingInv
<1> QED
  BY <1>6, <1>7, <1>8, <1>9 DEF PagingInv

\* PagingInv is an invariant of the specification.
LEMMA PagingInvariant == Spec => []PagingInv
<1>1. Init => PagingInv
  <2> SUFFICES ASSUME Init PROVE PagingInv
    OBVIOUS
  <2>1. /\ recs = << >> /\ used = {} /\ pc = "idle" /\ asked \in Requests /\ listed = << >>
        /\ present = {} /\ quiet = TRUE /\ Len(recs) = 0
    BY DEF Init
  <2>2. recs \in Seq(At) /\ listed \in Seq(At)
    BY <2>1, EmptySeq
  <2>3. TypeOK
    BY <2>1, <2>2, PagingAssumption DEF TypeOK
  <2> QED
    BY <2>1, <2>3 DEF PagingInv, Increasing, StillAhead, Exact
<1>2. PagingInv /\ [Next]_vars => PagingInv'
  <2> SUFFICES ASSUME PagingInv, [Next]_vars PROVE PagingInv'
    OBVIOUS
  <2>1. CASE \E at \in At : SaveRun(at)
    BY <2>1, SaveRunKeeps
  <2>2. CASE Open
    BY <2>2, OpenKeeps
  <2>3. CASE GetPage
    BY <2>3, GetPageKeeps
  <2>4. CASE Close
    <3>1. /\ pc' = "idle" /\ listed' = << >> /\ present' = {} /\ asked' \in Requests
          /\ recs' = recs /\ used' = used /\ quiet' = quiet
      BY <2>4 DEF Close
    <3>2. listed' \in Seq(At)
      BY <3>1, EmptySeq
    <3>3. TypeOK'
      BY <3>1, <3>2 DEF PagingInv, TypeOK
    <3> QED
      BY <3>1, <3>3 DEF PagingInv, StillAhead, Exact
  <2>5. CASE UNCHANGED vars
    BY <2>5 DEF vars, PagingInv, TypeOK, StillAhead, Exact
  <2> QED
    BY <2>1, <2>2, <2>3, <2>4, <2>5 DEF Next
<1> QED
  BY <1>1, <1>2, PTL DEF Spec

\* The variables keep their types, and the history its limit.
THEOREM PagingTyped == Spec => []TypeOK
<1>1. PagingInv => TypeOK
  BY DEF PagingInv
<1> QED
  BY <1>1, PagingInvariant, PTL

\* Paging by offset skips no record that stays in the history.
THEOREM PagingSkipsNothing == Spec => []NoSkip
<1>1. PagingInv => NoSkip
  BY DEF PagingInv, StillAhead, NoSkip
<1> QED
  BY <1>1, PagingInvariant, PTL

\* The listing of a history at rest is the history, newest first.
THEOREM QuietExact == Spec => []QuietListingIsExact
<1>1. ASSUME PagingInv, pc = "done", quiet
      PROVE  listed = Reverse(recs)
  <2>1. /\ listed \in Seq(Nat) /\ Len(listed) = Len(recs)
        /\ \A q \in 1 .. Len(recs) : listed[q] = recs[Len(recs) - q + 1]
    BY <1>1, ListsOfNat DEF PagingInv, Exact
  <2>2. listed = [q \in 1 .. Len(recs) |-> listed[q]]
    BY <2>1, LenProperties
  <2>3. \A q \in 1 .. Len(recs) : Len(recs) - q + 1 = (Len(recs) - q) + 1
    OBVIOUS
  <2> QED
    BY <2>1, <2>2 DEF Reverse
<1>2. PagingInv => QuietListingIsExact
  BY <1>1 DEF QuietListingIsExact
<1> QED
  BY <1>2, PagingInvariant, PTL
=============================================================================
