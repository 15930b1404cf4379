--------------------------- MODULE RunRecordsProofs ---------------------------
(***************************************************************************)
(* What sorting, pruning and inserting make of a list of records, for      *)
(* lists of any length.  The place of a record in an increasing list is    *)
(* the number of records below it, and its place from the end the number   *)
(* of those above it; everything else follows from that.                   *)
(***************************************************************************)
EXTENDS RunRecords, FiniteSetTheorems, SequenceTheorems, TLAPS

Increasing(s) == \A i, k \in 1 .. Len(s) : i < k => s[i] < s[k]
Below(S, x) == {y \in S : y < x}
Above(S, x) == {y \in S : y > x}
Elements(s, lo, hi) == {s[k] : k \in lo .. hi}

\* The elements of a list are a finite set.
LEMMA ElementsOf ==
    ASSUME NEW S, NEW s \in Seq(S)
    PROVE  /\ ToSet(s) = {s[i] : i \in 1 .. Len(s)}
           /\ ToSet(s) \subseteq S
           /\ IsFiniteSet(ToSet(s)) /\ Cardinality(ToSet(s)) \in Nat
<1>1. Len(s) \in Nat /\ s \in [1 .. Len(s) -> S] /\ DOMAIN s = 1 .. Len(s)
  BY LenProperties
<1>2. ToSet(s) = {s[i] : i \in 1 .. Len(s)}
  BY <1>1 DEF ToSet
<1>3. s \in Surjection(1 .. Len(s), ToSet(s))
  BY <1>1, <1>2 DEF Surjection
<1>4. IsFiniteSet(1 .. Len(s))
  BY <1>1, FS_Interval
<1>5. IsFiniteSet(ToSet(s))
  BY <1>3, <1>4, FS_Surjection
<1> QED
  BY <1>1, <1>2, <1>5, FS_CardinalityType

\* A list whose elements are in T is a list over T.
LEMMA ListOver ==
    ASSUME NEW S, NEW s \in Seq(S), NEW T, ToSet(s) \subseteq T
    PROVE  s \in Seq(T)
<1>1. Len(s) \in Nat /\ s \in [1 .. Len(s) -> S] /\ ToSet(s) = {s[i] : i \in 1 .. Len(s)}
  BY LenProperties, ElementsOf
<1>2. s \in [1 .. Len(s) -> T]
  BY <1>1
<1> QED
  BY <1>1, <1>2, SeqDef

\* Sets of numbers are totally ordered.
LEMMA Ordered ==
    ASSUME NEW S \in SUBSET Nat
    PROVE  /\ \A x \in S : x \in Nat /\ ~(x < x)
           /\ \A x, y \in S : x < y \/ x = y \/ y < x
           /\ \A x, y, z \in S : x < y /\ y < z => x < z
<1>1. \A x \in S : x \in Nat
  OBVIOUS
<1>2. \A x, y, z \in Nat : x < y /\ y < z => x < z
  OBVIOUS
<1>3. \A x, y \in Nat : x < y \/ x = y \/ y < x
  OBVIOUS
<1>4. \A x \in Nat : ~(x < x)
  OBVIOUS
<1> QED
  BY <1>1, <1>2, <1>3, <1>4, Zenon

\* The number of elements below one grows with it and takes every value from 0
\* to one less than the number of elements.
LEMMA Ranks ==
    ASSUME NEW S \in SUBSET Nat, IsFiniteSet(S)
    PROVE  /\ Cardinality(S) \in Nat
           /\ \A x \in S : Cardinality(Below(S, x)) \in 0 .. Cardinality(S) - 1
           /\ \A x, y \in S : x < y => Cardinality(Below(S, x)) < Cardinality(Below(S, y))
           /\ \A i \in 1 .. Cardinality(S) : \E x \in S : Cardinality(Below(S, x)) = i - 1
<1>0. Cardinality(S) \in Nat
  BY FS_CardinalityType
<1>1. \A x : /\ IsFiniteSet(Below(S, x)) /\ Cardinality(Below(S, x)) \in Nat
             /\ Cardinality(Below(S, x)) <= Cardinality(S)
  <2> TAKE x
  <2>1. Below(S, x) \in SUBSET S
    BY DEF Below
  <2> QED
    BY <2>1, FS_Subset, FS_CardinalityType
<1>2. \A x \in S : Cardinality(Below(S, x)) < Cardinality(S)
  <2> TAKE x \in S
  <2>1. Below(S, x) \in SUBSET S /\ x \notin Below(S, x)
    BY DEF Below
  <2>2. Cardinality(Below(S, x)) # Cardinality(S)
    BY <2>1, FS_Subset
  <2> QED
    BY <2>2, <1>0, <1>1
<1>3. \A x, y \in S : x < y => Cardinality(Below(S, x)) < Cardinality(Below(S, y))
  <2> SUFFICES ASSUME NEW x \in S, NEW y \in S, x < y
               PROVE  Cardinality(Below(S, x)) < Cardinality(Below(S, y))
    OBVIOUS
  <2>0. ~(x < x) /\ \A z \in S : z < x => z < y
    BY Ordered, Zenon
  <2>1. Below(S, x) \in SUBSET Below(S, y) /\ x \in Below(S, y) /\ x \notin Below(S, x)
    BY <2>0, Zenon DEF Below
  <2>2. Cardinality(Below(S, x)) # Cardinality(Below(S, y))
    BY <2>1, <1>1, FS_Subset
  <2>3. Cardinality(Below(S, x)) <= Cardinality(Below(S, y))
    BY <2>1, <1>1, FS_Subset
  <2> QED
    BY <2>2, <2>3, <1>1
<1>4. \A i \in 1 .. Cardinality(S) : \E x \in S : Cardinality(Below(S, x)) = i - 1
  <2> DEFINE T == 0 .. Cardinality(S) - 1
             rank == [x \in S |-> Cardinality(Below(S, x))]
  <2>1. rank \in [S -> T]
    BY <1>0, <1>1, <1>2
  <2>2. \A x, y \in S : rank[x] = rank[y] => x = y
    <3> SUFFICES ASSUME NEW x \in S, NEW y \in S, x # y
                 PROVE  Cardinality(Below(S, x)) # Cardinality(Below(S, y))
      OBVIOUS
    <3>1. x < y \/ y < x
      OBVIOUS
    <3> QED
      BY <3>1, <1>3, <1>1
  <2>3. rank \in Injection(S, T)
    BY <2>1, <2>2 DEF Injection, IsInjective
  <2>4. IsFiniteSet(T) /\ Cardinality(T) = Cardinality(S)
    <3>1. /\ IsFiniteSet(T)
          /\ Cardinality(T) = IF 0 > Cardinality(S) - 1 THEN 0 ELSE (Cardinality(S) - 1) - 0 + 1
      BY <1>0, FS_Interval
    <3> QED
      BY <3>1, <1>0
  <2>5. rank \in Surjection(S, T)
    BY <2>3, <2>4, FS_Injection
  <2>6. \A r \in T : \E x \in S : rank[x] = r
    BY <2>5 DEF Surjection
  <2>7. \A i \in 1 .. Cardinality(S) : i - 1 \in T
    BY <1>0
  <2> QED
    BY <2>6, <2>7
<1> QED
  BY <1>0, <1>1, <1>2, <1>3, <1>4

\* sort.Slice returns the same elements, each once, in increasing order.
LEMMA SortedFacts ==
    ASSUME NEW s \in Seq(Nat)
    PROVE  /\ Sorted(s) \in Seq(Nat) /\ Increasing(Sorted(s))
           /\ Len(Sorted(s)) = Cardinality(ToSet(s))
           /\ \A i \in 1 .. Len(Sorted(s)) :
                  Cardinality(Below(ToSet(s), Sorted(s)[i])) = i - 1
           /\ ToSet(Sorted(s)) = ToSet(s)
<1> DEFINE S == ToSet(s)
           n == Cardinality(S)
           t == Sorted(s)
<1>1. S \subseteq Nat /\ IsFiniteSet(S) /\ n \in Nat
  BY ElementsOf
<1>2. /\ \A x \in S : Cardinality(Below(S, x)) \in 0 .. n - 1
      /\ \A x, y \in S : x < y => Cardinality(Below(S, x)) < Cardinality(Below(S, y))
      /\ \A i \in 1 .. n : \E x \in S : Cardinality(Below(S, x)) = i - 1
  BY <1>1, Ranks
<1>3. t = [i \in 1 .. n |-> CHOOSE x \in S : Cardinality(Below(S, x)) = i - 1]
  BY DEF Sorted, Below
<1> HIDE DEF S, n, t
<1>4. \A i \in 1 .. n : t[i] \in S /\ Cardinality(Below(S, t[i])) = i - 1
  BY <1>2, <1>3
<1>5. t \in [1 .. n -> Nat]
  BY <1>1, <1>3, <1>4
<1>6. t \in Seq(Nat)
  BY <1>1, <1>5, SeqDef
<1>7. Len(t) = n
  BY <1>1, <1>5, <1>6, LenProperties
<1>8. \A i, k \in 1 .. n : i < k => t[i] < t[k]
  <2> SUFFICES ASSUME NEW i \in 1 .. n, NEW k \in 1 .. n, i < k
               PROVE  t[i] < t[k]
    OBVIOUS
  <2>1. t[i] \in S /\ t[k] \in S
    BY <1>4
  <2>2. Cardinality(Below(S, t[i])) < Cardinality(Below(S, t[k]))
    BY <1>1, <1>4
  <2>3. ~(Cardinality(Below(S, t[k])) < Cardinality(Below(S, t[i])))
    BY <1>2, <2>1, <2>2
  <2>4. t[k] # t[i] /\ ~(t[k] < t[i])
    BY <1>2, <2>1, <2>2, <2>3
  <2> QED
    BY <1>1, <2>1, <2>4, Ordered, Zenon
<1>9. \A x \in S : \E i \in 1 .. n : t[i] = x
  <2> TAKE x \in S
  <2>1. PICK i \in 1 .. n : i = Cardinality(Below(S, x)) + 1
    BY <1>1, <1>2
  <2>2. Cardinality(Below(S, t[i])) = i - 1 /\ t[i] \in S
    BY <1>4
  <2>3. Cardinality(Below(S, x)) = i - 1
    BY <1>1, <1>2, <2>1
  <2>4. ~(i - 1 < i - 1)
    BY <1>1
  <2>5. ~(t[i] < x) /\ ~(x < t[i])
    BY <1>2, <2>2, <2>3, <2>4, Zenon
  <2>6. t[i] = x
    BY <1>1, <2>2, <2>5, Ordered, Zenon
  <2> QED
    BY <2>6
<1>10. ToSet(t) = {t[i] : i \in 1 .. n}
  BY <1>6, <1>7, ElementsOf
<1>11. ToSet(t) = S
  BY <1>4, <1>9, <1>10
<1> QED
  BY <1>4, <1>6, <1>7, <1>8, <1>11 DEF Increasing, S, n, t

\* A stretch of an increasing list has as many elements as it is long.
LEMMA Stretch ==
    ASSUME NEW s \in Seq(Nat), Increasing(s),
           NEW lo \in Int, NEW hi \in Int, 1 <= lo, hi <= Len(s)
    PROVE  Cardinality(Elements(s, lo, hi)) = IF lo > hi THEN 0 ELSE hi - lo + 1
<1> DEFINE T == {s[k] : k \in lo .. hi}
           f == [k \in lo .. hi |-> s[k]]
<1>0. Len(s) \in Nat /\ s \in [1 .. Len(s) -> Nat]
  BY LenProperties
<1>1. \A k \in lo .. hi : k \in 1 .. Len(s)
  BY <1>0
<1>2. \A i, k \in lo .. hi : s[i] = s[k] => i = k
  <2> SUFFICES ASSUME NEW i \in lo .. hi, NEW k \in lo .. hi, i < k
               PROVE  s[i] # s[k]
    OBVIOUS
  <2>1. i \in 1 .. Len(s) /\ k \in 1 .. Len(s)
    BY <1>1
  <2>2. s[i] < s[k]
    BY <2>1 DEF Increasing
  <2>3. s[i] \in Nat
    BY <1>0, <2>1
  <2> QED
    BY <2>2, <2>3
<1>3. f \in [lo .. hi -> T] /\ \A x \in T : \E k \in lo .. hi : f[k] = x
  OBVIOUS
<1>4. f \in Surjection(lo .. hi, T)
  BY <1>3 DEF Surjection
<1>5. f \in Injection(lo .. hi, T)
  BY <1>2, <1>3 DEF Injection, IsInjective
<1>6. ExistsBijection(lo .. hi, T)
  BY <1>4, <1>5 DEF ExistsBijection, Bijection
<1>7. IsFiniteSet(lo .. hi) /\ Cardinality(lo .. hi) = IF lo > hi THEN 0 ELSE hi - lo + 1
  BY FS_Interval
<1> HIDE DEF T
<1>8. Cardinality(T) = Cardinality(lo .. hi)
  BY <1>6, <1>7, FS_Bijection
<1> QED
  BY <1>7, <1>8 DEF T, Elements

\* The place of a record in an increasing list, from both ends.
LEMMA Places ==
    ASSUME NEW s \in Seq(Nat), Increasing(s)
    PROVE  /\ Len(s) = Cardinality(ToSet(s))
           /\ \A i \in 1 .. Len(s) : /\ Cardinality(Below(ToSet(s), s[i])) = i - 1
                                    /\ Cardinality(Above(ToSet(s), s[i])) = Len(s) - i
<1>0. Len(s) \in Nat /\ s \in [1 .. Len(s) -> Nat]
      /\ ToSet(s) = {s[i] : i \in 1 .. Len(s)}
  BY LenProperties, ElementsOf
<1>1. Len(s) = Cardinality(ToSet(s))
  <2>1. Cardinality(Elements(s, 1, Len(s))) = IF 1 > Len(s) THEN 0 ELSE Len(s) - 1 + 1
    BY <1>0, Stretch
  <2>2. ToSet(s) = Elements(s, 1, Len(s))
    BY <1>0 DEF Elements
  <2>3. Cardinality(Elements(s, 1, Len(s))) = Len(s)
    BY <2>1, LenProperties
  <2> QED
    BY <2>2, <2>3
<1>2. ASSUME NEW i \in 1 .. Len(s)
      PROVE  /\ Cardinality(Below(ToSet(s), s[i])) = i - 1
             /\ Cardinality(Above(ToSet(s), s[i])) = Len(s) - i
  <2>1. \A k \in 1 .. Len(s) : s[k] < s[i] <=> k \in 1 .. i - 1
    <3> TAKE k \in 1 .. Len(s)
    <3>1. s[k] \in Nat /\ s[i] \in Nat
      BY <1>0
    <3>2. (k < i => s[k] < s[i]) /\ (i < k => s[i] < s[k])
      BY DEF Increasing
    <3> QED
      BY <1>0, <3>1, <3>2
  <2>2. \A k \in 1 .. Len(s) : s[k] > s[i] <=> k \in i + 1 .. Len(s)
    <3> TAKE k \in 1 .. Len(s)
    <3>1. s[k] \in Nat /\ s[i] \in Nat
      BY <1>0
    <3>2. (k < i => s[k] < s[i]) /\ (i < k => s[i] < s[k])
      BY DEF Increasing
    <3> QED
      BY <1>0, <3>1, <3>2
  <2>3. (\A k \in 1 .. i - 1 : k \in 1 .. Len(s)) /\ \A k \in i + 1 .. Len(s) : k \in 1 .. Len(s)
    BY <1>0
  <2>4. Below(ToSet(s), s[i]) = Elements(s, 1, i - 1)
    BY <1>0, <2>1, <2>3, Zenon DEF Below, Elements
  <2>5. Above(ToSet(s), s[i]) = Elements(s, i + 1, Len(s))
    BY <1>0, <2>2, <2>3, Zenon DEF Above, Elements
  <2>6. Cardinality(Elements(s, 1, i - 1)) = IF 1 > i - 1 THEN 0 ELSE (i - 1) - 1 + 1
    <3>1. i - 1 \in Int /\ i - 1 <= Len(s)
      BY <1>0
    <3> QED
      BY <3>1, Stretch
  <2>7. Cardinality(Elements(s, i + 1, Len(s)))
            = IF i + 1 > Len(s) THEN 0 ELSE Len(s) - (i + 1) + 1
    <3>1. i + 1 \in Int /\ 1 <= i + 1 /\ Len(s) \in Int /\ Len(s) <= Len(s)
      BY <1>0
    <3> QED
      BY <3>1, Stretch
  <2>8. Cardinality(Elements(s, 1, i - 1)) = i - 1
    BY <1>0, <2>6
  <2>9. Cardinality(Elements(s, i + 1, Len(s))) = Len(s) - i
    BY <1>0, <2>7
  <2> QED
    BY <2>4, <2>5, <2>8, <2>9
<1> QED
  BY <1>1, <1>2

\* Sorting changes nothing in a list that is in order.
LEMMA SortedFixed ==
    ASSUME NEW s \in Seq(Nat), Increasing(s)
    PROVE  Sorted(s) = s
<1> DEFINE S == ToSet(s)
<1>1. S \in SUBSET Nat /\ IsFiniteSet(S) /\ S = {s[i] : i \in 1 .. Len(s)}
  BY ElementsOf
<1>2. /\ Sorted(s) \in Seq(Nat) /\ Len(Sorted(s)) = Len(s) /\ ToSet(Sorted(s)) = S
      /\ \A i \in 1 .. Len(s) : Cardinality(Below(S, Sorted(s)[i])) = i - 1
  BY SortedFacts, Places
<1>3. \A i \in 1 .. Len(s) : Sorted(s)[i] = s[i]
  <2> TAKE i \in 1 .. Len(s)
  <2>1. Cardinality(Below(S, s[i])) = i - 1 /\ Cardinality(Below(S, Sorted(s)[i])) = i - 1
    BY <1>2, Places
  <2>2. s[i] \in S /\ Sorted(s)[i] \in S
    <3>1. ToSet(Sorted(s)) = {Sorted(s)[k] : k \in 1 .. Len(Sorted(s))}
      BY <1>2, ElementsOf
    <3> HIDE DEF S
    <3> QED
      BY <1>1, <1>2, <3>1
  <2>3. Len(s) \in Nat
    BY LenProperties
  <2>4. ~(i - 1 < i - 1)
    BY <2>3
  <2>5. \A x, y \in S : x < y => Cardinality(Below(S, x)) < Cardinality(Below(S, y))
    BY <1>1, Ranks
  <2> HIDE DEF S
  <2>6. ~(s[i] < Sorted(s)[i]) /\ ~(Sorted(s)[i] < s[i])
    BY <2>1, <2>2, <2>4, <2>5, Zenon
  <2> QED
    BY <1>1, <2>2, <2>6, Ordered, Zenon
<1> QED
  BY <1>2, <1>3, SeqEqual

\* KeepLast returns the end of the list, of the length of the limit at most.
LEMMA KeepLastFacts ==
    ASSUME NEW s \in Seq(Nat), NEW n \in Nat
    PROVE  LET t == KeepLast(s, n)
           IN  /\ t \in Seq(Nat) /\ Len(t) <= Len(s) /\ (n > 0 => Len(t) <= n)
               /\ n = 0 \/ Len(s) <= n => t = s
               /\ \A i \in 1 .. Len(t) : /\ i + (Len(s) - Len(t)) \in 1 .. Len(s)
                                        /\ t[i] = s[i + (Len(s) - Len(t))]
               /\ ToSet(t) \subseteq ToSet(s)
               /\ Increasing(s) => Increasing(t)
<1> DEFINE t == KeepLast(s, n)
<1>0. Len(s) \in Nat
  BY LenProperties
<1>1. /\ t \in Seq(Nat) /\ Len(t) <= Len(s) /\ (n > 0 => Len(t) <= n) /\ Len(t) \in Nat
      /\ n = 0 \/ Len(s) <= n => t = s
      /\ \A i \in 1 .. Len(t) : /\ i + (Len(s) - Len(t)) \in 1 .. Len(s)
                               /\ t[i] = s[i + (Len(s) - Len(t))]
  <2>1. CASE n > 0 /\ Len(s) > n
    <3>1. t = SubSeq(s, Len(s) - n + 1, Len(s))
      BY <2>1 DEF KeepLast
    <3>2. \A i \in Len(s) - n + 1 .. Len(s) : s[i] \in Nat
      <4>1. \A i \in Len(s) - n + 1 .. Len(s) : i \in 1 .. Len(s)
        BY <1>0, <2>1
      <4> QED
        BY <4>1, ElementOfSeq
    <3>3. Len(s) - n + 1 \in Int /\ Len(s) \in Int
      BY <1>0
    <3> DEFINE m == Len(s) - n + 1
    <3> HIDE DEF m
    <3>4. /\ SubSeq(s, m, Len(s)) \in Seq(Nat)
          /\ Len(SubSeq(s, m, Len(s))) = IF m <= Len(s) THEN Len(s) - m + 1 ELSE 0
          /\ \A i \in 1 .. Len(s) - m + 1 : SubSeq(s, m, Len(s))[i] = s[m + i - 1]
      <4>1. m \in Int /\ Len(s) \in Int /\ \A i \in m .. Len(s) : s[i] \in Nat
        BY <3>2, <3>3 DEF m
      <4> QED
        BY <4>1, SubSeqProperties
    <3>5. t \in Seq(Nat) /\ Len(t) = n
      BY <1>0, <2>1, <3>1, <3>4 DEF m
    <3>6. \A i \in 1 .. n : t[i] = s[i + (Len(s) - n)] /\ i + (Len(s) - n) \in 1 .. Len(s)
      <4> TAKE i \in 1 .. n
      <4>1. i \in 1 .. Len(s) - m + 1 /\ m + i - 1 = i + (Len(s) - n)
        BY <1>0 DEF m
      <4>2. i + (Len(s) - n) \in 1 .. Len(s)
        BY <1>0, <2>1
      <4> QED
        BY <3>1, <3>4, <4>1, <4>2 DEF m
    <3> QED
      BY <1>0, <2>1, <3>5, <3>6
  <2>2. CASE ~(n > 0 /\ Len(s) > n)
    <3>1. t = s
      BY <2>2 DEF KeepLast
    <3> HIDE DEF t
    <3> QED
      BY <1>0, <2>2, <3>1
  <2> QED
    BY <2>1, <2>2
<1> HIDE DEF t
<1>2. ToSet(t) \subseteq ToSet(s)
  <2>1. ToSet(t) = {t[i] : i \in 1 .. Len(t)} /\ ToSet(s) = {s[i] : i \in 1 .. Len(s)}
    BY <1>1, ElementsOf
  <2> QED
    BY <1>1, <2>1
<1>3. ASSUME Increasing(s) PROVE Increasing(t)
  <2> SUFFICES ASSUME NEW i \in 1 .. Len(t), NEW k \in 1 .. Len(t), i < k
               PROVE  t[i] < t[k]
    BY DEF Increasing
  <2> DEFINE d == Len(s) - Len(t)
  <2>1. t[i] = s[i + d] /\ t[k] = s[k + d] /\ i + d \in 1 .. Len(s) /\ k + d \in 1 .. Len(s)
    BY <1>1
  <2>2. i + d < k + d
    BY <1>0, <1>1
  <2> QED
    BY <1>3, <2>1, <2>2 DEF Increasing
<1> QED
  BY <1>1, <1>2, <1>3 DEF t

\* Appending adds the record to the elements.
LEMMA Appended ==
    ASSUME NEW s \in Seq(Nat), NEW at \in Nat
    PROVE  Append(s, at) \in Seq(Nat) /\ ToSet(Append(s, at)) = ToSet(s) \cup {at}
<1> DEFINE u == Append(s, at)
<1>1. /\ u \in Seq(Nat) /\ Len(u) = Len(s) + 1 /\ Len(s) \in Nat
      /\ \A i \in 1 .. Len(s) : u[i] = s[i]
      /\ u[Len(s) + 1] = at
  BY AppendProperties, LenProperties
<1>2. ToSet(u) = {u[i] : i \in 1 .. Len(u)} /\ ToSet(s) = {s[i] : i \in 1 .. Len(s)}
  BY <1>1, ElementsOf
<1> HIDE DEF u
<1>3. \A i \in 1 .. Len(u) : u[i] \in ToSet(s) \cup {at}
  <2> TAKE i \in 1 .. Len(u)
  <2>1. i \in 1 .. Len(s) \/ i = Len(s) + 1
    BY <1>1
  <2> QED
    BY <1>1, <1>2, <2>1
<1>4. \A i \in 1 .. Len(s) : i \in 1 .. Len(u) /\ s[i] = u[i]
  BY <1>1
<1>5. Len(s) + 1 \in 1 .. Len(u)
  BY <1>1
<1> QED
  BY <1>1, <1>2, <1>3, <1>4, <1>5 DEF u

\* SaveRun's candidate: in order, within the limit, with nothing new but the
\* record that was saved.
LEMMA InsertFacts ==
    ASSUME NEW s \in Seq(Nat), NEW at \in Nat, NEW n \in Nat
    PROVE  LET t == Insert(s, at, n)
           IN  /\ t \in Seq(Nat) /\ Increasing(t) /\ (n > 0 => Len(t) <= n)
               /\ ToSet(t) \subseteq ToSet(s) \cup {at}
<1> DEFINE u == Append(s, at)
           t == Insert(s, at, n)
<1>1. u \in Seq(Nat) /\ ToSet(u) = ToSet(s) \cup {at}
  BY Appended
<1>2. /\ Sorted(u) \in Seq(Nat) /\ Increasing(Sorted(u)) /\ ToSet(Sorted(u)) = ToSet(u)
  BY <1>1, SortedFacts
<1>3. t = KeepLast(Sorted(u), n)
  BY DEF Insert
<1> HIDE DEF u, t
<1>4. /\ t \in Seq(Nat) /\ (n > 0 => Len(t) <= n) /\ ToSet(t) \subseteq ToSet(Sorted(u))
      /\ Increasing(t)
  BY <1>2, <1>3, KeepLastFacts
<1> QED
  BY <1>1, <1>2, <1>4 DEF t

\* A record that stays in the list does not come nearer to its newest end when
\* another is saved.
LEMMA InsertKeepsPlaces ==
    ASSUME NEW s \in Seq(Nat), Increasing(s), NEW at \in Nat, NEW n \in Nat,
           NEW i \in 1 .. Len(s), NEW k \in 1 .. Len(Insert(s, at, n)),
           Insert(s, at, n)[k] = s[i]
    PROVE  Len(Insert(s, at, n)) - k >= Len(s) - i
<1> DEFINE u == Sorted(Append(s, at))
           t == Insert(s, at, n)
           m == k + (Len(u) - Len(t))
<1>1. /\ u \in Seq(Nat) /\ Increasing(u) /\ ToSet(u) = ToSet(s) \cup {at}
  BY Appended, SortedFacts
<1>2. t = KeepLast(u, n) /\ k \in 1 .. Len(t)
  BY DEF Insert
<1> HIDE DEF u, t
<1>3. t \in Seq(Nat) /\ m \in 1 .. Len(u) /\ t[k] = u[m]
  <2>1. KeepLast(u, n) \in Seq(Nat) /\ \A p \in 1 .. Len(KeepLast(u, n)) :
            /\ p + (Len(u) - Len(KeepLast(u, n))) \in 1 .. Len(u)
            /\ KeepLast(u, n)[p] = u[p + (Len(u) - Len(KeepLast(u, n)))]
    BY <1>1, KeepLastFacts
  <2> QED
    BY <1>2, <2>1
<1>4. u[m] = s[i]
  BY <1>3 DEF t
<1>5. Cardinality(Above(ToSet(u), u[m])) = Len(u) - m
  BY <1>1, <1>3, Places
<1>6. Cardinality(Above(ToSet(s), s[i])) = Len(s) - i
  BY Places
<1>7. Above(ToSet(s), s[i]) \subseteq Above(ToSet(u), s[i])
  BY <1>1 DEF Above
<1>8. IsFiniteSet(Above(ToSet(u), s[i]))
  <2>1. IsFiniteSet(ToSet(u)) /\ Above(ToSet(u), s[i]) \in SUBSET ToSet(u)
    BY <1>1, ElementsOf DEF Above
  <2> QED
    BY <2>1, FS_Subset
<1>9. Cardinality(Above(ToSet(s), s[i])) <= Cardinality(Above(ToSet(u), s[i]))
  BY <1>7, <1>8, FS_Subset
<1>10. Len(u) - m >= Len(s) - i
  BY <1>4, <1>5, <1>6, <1>9
<1>11. Len(u) \in Nat /\ Len(t) \in Nat
  BY <1>1, <1>3, LenProperties
<1>12. Len(t) - k = Len(u) - m
  BY <1>11
<1> QED
  BY <1>10, <1>12 DEF t

\* A page holds the records that follow the offset when counted from the newest,
\* up to its size, and is empty only past the end.
LEMMA PageFacts ==
    ASSUME NEW S, NEW s \in Seq(S), NEW limit \in Nat \ {0}, NEW offset \in Nat
    PROVE  LET page == Page(s, limit, offset)
           IN  /\ page \in Seq(S)
               /\ \A q \in 1 .. Len(page) : /\ Len(s) - (offset + q) + 1 \in 1 .. Len(s)
                                           /\ page[q] = s[Len(s) - (offset + q) + 1]
               /\ page = << >> => offset >= Len(s)
               /\ offset >= Len(s) => page = << >>
<1> DEFINE newest == Reverse(s)
           from == SubSeq(newest, offset + 1, Len(s))
           page == Page(s, limit, offset)
<1>0. Len(s) \in Nat
  BY LenProperties
<1>1. newest = [i \in 1 .. Len(s) |-> s[(Len(s) - i) + 1]]
  BY DEF Reverse
<1>2. \A i \in 1 .. Len(s) : (Len(s) - i) + 1 \in 1 .. Len(s)
  BY <1>0
<1>3. \A i \in 1 .. Len(s) : newest[i] = s[(Len(s) - i) + 1] /\ newest[i] \in S
  BY <1>1, <1>2, ElementOfSeq
<1> HIDE DEF newest
<1>4. /\ from \in Seq(S)
      /\ Len(from) = IF offset + 1 <= Len(s) THEN Len(s) - (offset + 1) + 1 ELSE 0
      /\ \A i \in 1 .. Len(s) - (offset + 1) + 1 : from[i] = newest[offset + 1 + i - 1]
  <2>1. \A i \in offset + 1 .. Len(s) : i \in 1 .. Len(s)
    BY <1>0
  <2>2. offset + 1 \in Int /\ Len(s) \in Int /\ \A i \in offset + 1 .. Len(s) : newest[i] \in S
    BY <1>0, <1>3, <2>1
  <2> QED
    BY <2>2, SubSeqProperties
<1> HIDE DEF from
<1>5. Len(from) \in Nat /\ \A i \in 1 .. Len(from) :
          /\ Len(s) - (offset + i) + 1 \in 1 .. Len(s)
          /\ from[i] = s[Len(s) - (offset + i) + 1]
  <2>1. Len(from) \in Nat
    BY <1>0, <1>4
  <2> SUFFICES ASSUME NEW i \in 1 .. Len(from)
               PROVE  /\ Len(s) - (offset + i) + 1 \in 1 .. Len(s)
                      /\ from[i] = s[Len(s) - (offset + i) + 1]
    BY <2>1
  <2>2. /\ i \in 1 .. Len(s) - (offset + 1) + 1 /\ offset + i \in 1 .. Len(s)
        /\ offset + 1 + i - 1 = offset + i /\ Len(s) - (offset + i) + 1 \in 1 .. Len(s)
        /\ (Len(s) - (offset + i)) + 1 = Len(s) - (offset + i) + 1
    BY <1>0, <1>4
  <2>3. from[i] = newest[offset + i]
    BY <1>4, <2>2
  <2>4. newest[offset + i] = s[(Len(s) - (offset + i)) + 1]
    BY <1>3, <2>2
  <2> QED
    BY <2>2, <2>3, <2>4
<1>6. page = IF limit > 0 /\ limit < Len(from) THEN SubSeq(from, 1, limit) ELSE from
  BY DEF Page, from, newest
<1> HIDE DEF page
<1>7. CASE limit < Len(from)
  <2>1. page = SubSeq(from, 1, limit)
    BY <1>6, <1>7
  <2>2. \A i \in 1 .. limit : i \in 1 .. Len(from) /\ from[i] \in S
    <3>1. \A i \in 1 .. limit : i \in 1 .. Len(from)
      BY <1>5, <1>7
    <3> QED
      BY <1>4, <3>1, ElementOfSeq
  <2>3. /\ page \in Seq(S) /\ Len(page) = limit
        /\ \A i \in 1 .. limit : page[i] = from[i]
    <3>1. /\ SubSeq(from, 1, limit) \in Seq(S)
          /\ Len(SubSeq(from, 1, limit)) = IF 1 <= limit THEN limit - 1 + 1 ELSE 0
          /\ \A i \in 1 .. limit - 1 + 1 : SubSeq(from, 1, limit)[i] = from[1 + i - 1]
      <4>1. 1 \in Int /\ limit \in Int
        OBVIOUS
      <4> QED
        BY <2>2, <4>1, SubSeqProperties
    <3> QED
      BY <2>1, <3>1
  <2>4. page # << >> /\ ~(offset >= Len(s))
    <3>1. page # << >>
      BY <2>3, EmptySeq
    <3>2. ~(offset >= Len(s))
      BY <1>0, <1>4, <1>7
    <3> QED
      BY <3>1, <3>2
  <2> QED
    BY <1>5, <2>2, <2>3, <2>4 DEF page
<1>8. CASE ~(limit < Len(from))
  <2>1. page = from
    BY <1>6, <1>8
  <2>2. from = << >> <=> Len(from) = 0
    BY <1>4, EmptySeq
  <2>3. Len(from) = 0 <=> offset >= Len(s)
    BY <1>0, <1>4
  <2> QED
    BY <1>4, <1>5, <2>1, <2>2, <2>3 DEF page
<1> QED
  BY <1>7, <1>8

\* The n newest of S, all of them when n is 0.
Newest(S, n) == {x \in S : n = 0 \/ Cardinality(Above(S, x)) < n}

\* What KeepLast returns of an increasing list is its newest records.
LEMMA KeepLastNewest ==
    ASSUME NEW s \in Seq(Nat), Increasing(s), NEW n \in Nat
    PROVE  ToSet(KeepLast(s, n)) = Newest(ToSet(s), n)
<1> DEFINE t == KeepLast(s, n)
           d == Len(s) - Len(t)
<1>1. /\ t \in Seq(Nat) /\ Len(t) <= Len(s) /\ (n > 0 => Len(t) <= n)
      /\ n = 0 \/ Len(s) <= n => t = s
      /\ \A i \in 1 .. Len(t) : i + d \in 1 .. Len(s) /\ t[i] = s[i + d]
  BY KeepLastFacts
<1>2. n > 0 /\ Len(s) > n => Len(t) = n
  <2> SUFFICES ASSUME n > 0, Len(s) > n PROVE Len(t) = n
    OBVIOUS
  <2>1. t = SubSeq(s, Len(s) - n + 1, Len(s)) /\ Len(s) \in Nat
    BY LenProperties DEF KeepLast
  <2> DEFINE m == Len(s) - n + 1
  <2>2. \A i \in m .. Len(s) : i \in 1 .. Len(s)
    BY <2>1
  <2>3. m \in Int /\ Len(s) \in Int /\ \A i \in m .. Len(s) : s[i] \in Nat
    BY <2>1, <2>2, ElementOfSeq
  <2> HIDE DEF m, t
  <2>4. Len(SubSeq(s, m, Len(s))) = IF m <= Len(s) THEN Len(s) - m + 1 ELSE 0
    BY <2>3, SubSeqProperties
  <2> QED
    BY <2>1, <2>4 DEF m
<1> HIDE DEF t
<1>3. Len(s) \in Nat /\ Len(t) \in Nat
  BY <1>1, LenProperties
<1>4. ToSet(t) = {t[i] : i \in 1 .. Len(t)} /\ ToSet(s) = {s[i] : i \in 1 .. Len(s)}
  BY <1>1, ElementsOf
<1>5. \A i \in 1 .. Len(s) : Cardinality(Above(ToSet(s), s[i])) = Len(s) - i
  BY Places
<1>6. ASSUME NEW x \in ToSet(t)
      PROVE  x \in Newest(ToSet(s), n)
  <2>1. PICK i \in 1 .. Len(t) : t[i] = x
    BY <1>4
  <2>2. i + d \in 1 .. Len(s) /\ s[i + d] = x
    BY <1>1, <2>1
  <2>3. Cardinality(Above(ToSet(s), x)) = Len(s) - (i + d)
    BY <1>5, <2>2
  <2>4. n = 0 \/ Len(s) - (i + d) < n
    BY <1>1, <1>3
  <2> QED
    BY <1>4, <2>2, <2>3, <2>4 DEF Newest
<1>7. ASSUME NEW x \in Newest(ToSet(s), n)
      PROVE  x \in ToSet(t)
  <2>1. x \in ToSet(s) /\ (n = 0 \/ Cardinality(Above(ToSet(s), x)) < n)
    BY DEF Newest
  <2>2. PICK k \in 1 .. Len(s) : s[k] = x
    BY <1>4, <2>1
  <2>3. n = 0 \/ Len(s) - k < n
    BY <1>5, <2>1, <2>2
  <2>4. CASE n = 0 \/ Len(s) <= n
    BY <1>1, <2>1, <2>4
  <2>5. CASE n > 0 /\ Len(s) > n
    <3>1. k - d \in 1 .. Len(t) /\ (k - d) + d = k
      BY <1>2, <1>3, <2>3, <2>5
    <3>2. t[k - d] = x
      BY <1>1, <2>2, <3>1
    <3> QED
      BY <1>4, <3>1, <3>2
  <2> QED
    BY <1>3, <2>4, <2>5
<1> QED
  BY <1>6, <1>7 DEF t

\* What loadLocked makes of a list: in order, within the limit, its newest
\* records; a list that is so already stays as it is.
LEMMA LoadFacts ==
    ASSUME NEW s \in Seq(Nat), NEW n \in Nat
    PROVE  LET t == KeepLast(Sorted(s), n)
           IN  /\ t \in Seq(Nat) /\ Increasing(t) /\ (n > 0 => Len(t) <= n)
               /\ ToSet(t) = Newest(ToSet(s), n)
               /\ Increasing(s) /\ (n > 0 => Len(s) <= n) => t = s
<1>1. Sorted(s) \in Seq(Nat) /\ Increasing(Sorted(s)) /\ ToSet(Sorted(s)) = ToSet(s)
  BY SortedFacts
<1>2. ASSUME Increasing(s), n > 0 => Len(s) <= n
      PROVE  KeepLast(Sorted(s), n) = s
  <2>1. n = 0 \/ Len(s) <= n
    BY <1>2
  <2> QED
    BY <1>2, <2>1, SortedFixed, KeepLastFacts
<1> QED
  BY <1>1, <1>2, KeepLastFacts, KeepLastNewest

\* Prune's candidate: the newest records of the cache, none for a limit of 0.
LEMMA PrunedFacts ==
    ASSUME NEW s \in Seq(Nat), Increasing(s), NEW n \in Nat
    PROVE  LET t == Pruned(s, n)
           IN  /\ t \in Seq(Nat) /\ Increasing(t) /\ Len(t) <= Len(s)
               /\ ToSet(t) = IF n = 0 THEN {} ELSE Newest(ToSet(s), n)
<1>1. CASE n = 0
  <2>1. Pruned(s, n) = << >>
    BY <1>1 DEF Pruned
  <2>2. << >> \in Seq(Nat) /\ Len(<< >>) = 0 /\ Len(s) \in Nat
    BY EmptySeq, LenProperties
  <2>3. ToSet(<< >>) = {}
    BY DEF ToSet
  <2>4. Increasing(<< >>) /\ Len(<< >>) <= Len(s)
    BY <2>2 DEF Increasing
  <2> QED
    BY <1>1, <2>1, <2>2, <2>3, <2>4
<1>2. CASE n # 0
  BY <1>2, KeepLastFacts, KeepLastNewest DEF Pruned
<1> QED
  BY <1>1, <1>2

\* The elements of SaveRun's candidate.
LEMMA InsertNewest ==
    ASSUME NEW s \in Seq(Nat), NEW at \in Nat, NEW n \in Nat
    PROVE  ToSet(Insert(s, at, n)) = Newest(ToSet(s) \cup {at}, n)
<1>1. Append(s, at) \in Seq(Nat) /\ ToSet(Append(s, at)) = ToSet(s) \cup {at}
  BY Appended
<1>2. ToSet(KeepLast(Sorted(Append(s, at)), n)) = Newest(ToSet(Append(s, at)), n)
  BY <1>1, LoadFacts
<1> QED
  BY <1>1, <1>2 DEF Insert
=============================================================================
