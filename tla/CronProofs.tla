------------------------------ MODULE CronProofs ------------------------------
(***************************************************************************)
(* Parsing never leaves the slices of its fields and never accepts an      *)
(* empty field, whatever the expressions and the ranges of the fields.     *)
(***************************************************************************)
EXTENDS Cron, TLAPS

\* A range that is not empty selects at least its first value.
LEMMA SteppedFacts ==
    ASSUME NEW lo \in Int, NEW hi \in Int, NEW step \in Nat \ {0}, lo <= hi
    PROVE  lo \in Stepped(lo, hi, step) /\ Stepped(lo, hi, step) \subseteq lo .. hi
<1>1. (lo - lo) % step = 0
  BY Z3
<1>2. lo \in lo .. hi
  OBVIOUS
<1> QED
  BY <1>1, <1>2 DEF Stepped

\* parsePart accepts only parts that select values of the field, one at least.
LEMMA PlainPart ==
    ASSUME NEW p \in Part, NEW min \in Nat, NEW max \in Nat, min <= max,
           parsePart(p, min, max).ok
    PROVE  /\ parsePart(p, min, max).bits # {}
           /\ parsePart(p, min, max).bits \subseteq min .. max
<1> DEFINE lo == IF p.kind = "star" THEN min ELSE p.lo
           hi == PartLast(p, max)
<1>1. /\ p.kind # "bad" /\ StepAccepted(p, max - min + 1)
      /\ min <= lo /\ hi <= max /\ lo <= hi
      /\ parsePart(p, min, max).bits = Stepped(lo, hi, Step(p))
  BY DEF parsePart, Refused
<1>2. p.kind \in {"star", "value", "range", "bad"} /\ p.lo \in Int /\ p.hi \in Int
      /\ p.slash \in BOOLEAN /\ p.step \in Int
  BY DEF Part
<1>3. Step(p) \in Nat \ {0}
  BY <1>1, <1>2 DEF Step, StepAccepted
<1>4. lo \in Int /\ hi \in Int
  BY <1>2, <1>3 DEF PartLast
<1> HIDE DEF lo, hi
<1>5. lo \in Stepped(lo, hi, Step(p)) /\ Stepped(lo, hi, Step(p)) \subseteq lo .. hi
  BY <1>1, <1>3, <1>4, SteppedFacts
<1>6. lo .. hi \subseteq min .. max
  BY <1>1, <1>4
<1> QED
  BY <1>1, <1>5, <1>6

\* parseDOWPart accepts only parts that select days of the week, one at least.
LEMMA WeekdayPart ==
    ASSUME NEW p \in Part, parseDOWPart(p).ok
    PROVE  parseDOWPart(p).bits # {} /\ parseDOWPart(p).bits \subseteq Weekday
<1> DEFINE lo == CASE p.kind = "star" -> 0
                   [] p.kind = "value" /\ p.lo = 7 -> 0
                   [] OTHER -> p.lo
           hi == IF p.kind = "value" /\ Step(p) = 1 THEN lo ELSE PartLast(p, 6)
           days == Stepped(lo, hi, Step(p))
<1>1. /\ p.kind # "bad" /\ StepAccepted(p, 7)
      /\ 0 <= lo /\ hi <= 7 /\ lo <= hi
      /\ parseDOWPart(p).bits = {IF v = 7 THEN 0 ELSE v : v \in days}
  BY DEF parseDOWPart, Refused
<1>2. p.kind \in {"star", "value", "range", "bad"} /\ p.lo \in Int /\ p.hi \in Int
      /\ p.slash \in BOOLEAN /\ p.step \in Int
  BY DEF Part
<1>3. Step(p) \in Nat \ {0}
  BY <1>1, <1>2 DEF Step, StepAccepted
<1>4. lo \in Int /\ hi \in Int
  BY <1>2, <1>3 DEF PartLast
<1> HIDE DEF lo, hi
<1>5. lo \in days /\ days \subseteq lo .. hi
  BY <1>1, <1>3, <1>4, SteppedFacts
<1>6. lo .. hi \subseteq 0 .. 7
  BY <1>1, <1>4
<1> HIDE DEF days
<1>7. \A v \in days : (IF v = 7 THEN 0 ELSE v) \in 0 .. 6
  BY <1>5, <1>6
<1> QED
  BY <1>1, <1>5, <1>7 DEF Weekday

\* The same for the part of any field.
LEMMA AnyPart ==
    ASSUME NEW f \in Field, NEW p \in Part, ParsedPart(f, p).ok
    PROVE  ParsedPart(f, p).bits # {} /\ ParsedPart(f, p).bits \subseteq Values(f)
<1>1. CASE f = "dow"
  BY <1>1, WeekdayPart DEF ParsedPart, Values
<1>2. CASE f # "dow"
  <2>1. f \in PlainField
    BY <1>2 DEF Field
  <2>2. Min[f] \in Nat /\ Max[f] \in Nat /\ Min[f] <= Max[f]
    BY <2>1, RangeAssumption
  <2> QED
    BY <1>2, <2>2, PlainPart DEF ParsedPart, Values
<1> QED
  BY <1>1, <1>2

\* A field that parses selects values of the field, one at least.
LEMMA WholeField ==
    ASSUME NEW f \in Field, NEW field \in Seq(Part), field # << >>,
           parseField(f, field).ok
    PROVE  parseField(f, field).bits # {} /\ parseField(f, field).bits \subseteq Values(f)
<1>1. \A i \in DOMAIN field : ParsedPart(f, field[i]).ok
  BY DEF parseField
<1>2. \A i \in DOMAIN field : field[i] \in Part
  OBVIOUS
<1>3. \A i \in DOMAIN field : /\ ParsedPart(f, field[i]).bits # {}
                              /\ ParsedPart(f, field[i]).bits \subseteq Values(f)
  BY <1>1, <1>2, AnyPart
<1>4. 1 \in DOMAIN field
  OBVIOUS
<1>5. parseField(f, field).bits = UNION {ParsedPart(f, field[i]).bits : i \in DOMAIN field}
  BY DEF parseField
<1> QED
  BY <1>3, <1>4, <1>5

\* What the parsed schedule of an accepted expression is like.
ScheduleOK ==
    Parsed => /\ sched.domStar \in BOOLEAN /\ sched.dowStar \in BOOLEAN
              /\ \A f \in Field : /\ sched.bits[f] # {}
                                  /\ sched.bits[f] \subseteq Values(f)

IsExpression(e) == \A f \in Field : e[f] # << >> /\ e[f] \in Seq(Part)

\* The @-names stand for expressions.
LEMMA ShortcutsAreExpressions == \A n \in Shortcut : IsExpression(predefined[n])
<1>1. \A n \in Int : Only(n) # << >> /\ Only(n) \in Seq(Part)
  BY DEF Only, Part
<1>2. AnyValue # << >> /\ AnyValue \in Seq(Part)
  BY DEF AnyValue, Part
<1> DEFINE Good(x) == x \in {Only(0), Only(1), AnyValue}
<1>3. \A x : Good(x) => x # << >> /\ x \in Seq(Part)
  BY <1>1, <1>2
<1>4. ASSUME NEW a, NEW b, NEW c, NEW d, NEW e, Good(a), Good(b), Good(c), Good(d), Good(e)
      PROVE  IsExpression(Fields(a, b, c, d, e))
  <2>1. \A f \in Field : Good(Fields(a, b, c, d, e)[f])
    BY <1>4 DEF Fields, Field
  <2> QED
    BY <1>3, <2>1 DEF IsExpression
<1>5. Good(Only(0)) /\ Good(Only(1)) /\ Good(AnyValue)
  OBVIOUS
<1> HIDE DEF Good
<1>6. ASSUME NEW n \in Shortcut
      PROVE  \E a, b, c, d, e : /\ Good(a) /\ Good(b) /\ Good(c) /\ Good(d) /\ Good(e)
                                /\ predefined[n] = Fields(a, b, c, d, e)
  <2> USE <1>5
  <2>1. CASE n \in {"@yearly", "@annually"}
    BY <2>1 DEF predefined
  <2>2. CASE n = "@monthly"
    BY <2>2 DEF predefined
  <2>3. CASE n = "@weekly"
    BY <2>3 DEF predefined
  <2>4. CASE n \in {"@daily", "@midnight"}
    BY <2>4 DEF predefined
  <2>5. CASE n = "@hourly"
    BY <2>5 DEF predefined
  <2> QED
    BY <2>1, <2>2, <2>3, <2>4, <2>5 DEF Shortcut
<1> QED
  BY <1>4, <1>6

\* The text that is parsed always is an expression.
LEMMA TextExpands ==
    ASSUME text \in Text
    PROVE  IsExpression(Expand(text))
<1>1. CASE text \in [name : Shortcut, fields : {<< >>}]
  BY <1>1, ShortcutsAreExpressions DEF Expand
<1>2. CASE text \in [name : {""}, fields : Expressions]
  BY <1>2, ExpressionAssumption DEF Expand, Shortcut, IsExpression
<1> QED
  BY <1>1, <1>2 DEF Text

\* parseCron returns a good schedule or rejects.
LEMMA ParseGivesOK ==
    ASSUME text \in Text, Parse
    PROVE  ScheduleOK'
<1> DEFINE e == Expand(text)
<1>1. IsExpression(e)
  BY TextExpands
<1>2. \A f \in Field : e[f] # << >> /\ e[f] \in Seq(Part)
  BY <1>1 DEF IsExpression
<1>3. sched' = parseCron(e)
  BY DEF Parse
<1> HIDE DEF e
<1>4. CASE \A f \in Field : parseField(f, e[f]).ok
  <2>1. sched' = [bits |-> [f \in Field |-> parseField(f, e[f]).bits],
                  domStar |-> Star("dom", e["dom"]),
                  dowStar |-> Star("dow", e["dow"])]
    BY <1>3, <1>4 DEF parseCron
  <2>2. Star("dom", e["dom"]) \in BOOLEAN /\ Star("dow", e["dow"]) \in BOOLEAN
    BY DEF Star, IsStar, allSet
  <2>3. sched'.domStar \in BOOLEAN /\ sched'.dowStar \in BOOLEAN
    BY <2>1, <2>2
  <2>4. \A f \in Field : sched'.bits[f] = parseField(f, e[f]).bits
    BY <2>1
  <2>5. \A f \in Field : sched'.bits[f] # {} /\ sched'.bits[f] \subseteq Values(f)
    BY <1>2, <1>4, <2>4, WholeField
  <2> QED
    BY <2>3, <2>5 DEF ScheduleOK
<1>5. CASE ~ \A f \in Field : parseField(f, e[f]).ok
  BY <1>3, <1>5 DEF parseCron, ScheduleOK, Parsed
<1> QED
  BY <1>4, <1>5

IInv == text \in Text /\ ScheduleOK

\* Parsing establishes the invariant, the clock leaves it alone.
LEMMA InvStep == IInv /\ [Next]_vars => IInv'
<1> SUFFICES ASSUME IInv, [Next]_vars PROVE IInv'
  OBVIOUS
<1>1. CASE Parse
  BY <1>1, ParseGivesOK DEF IInv, Parse
<1>2. CASE Tick \/ UNCHANGED vars
  BY <1>2 DEF IInv, Tick, vars, ScheduleOK, Parsed
<1> QED
  BY <1>1, <1>2 DEF Next

-----------------------------------------------------------------------------
(* What a schedule selects is what its expression denotes. *)

\* Multiples of a step, as remainders and as products.
LEMMA Multiples ==
    ASSUME NEW d \in Nat \ {0}, NEW a \in Nat
    PROVE  /\ a \div d \in Nat
           /\ a % d = 0 => \E k \in 0 .. a \div d : a = k * d
           /\ \A k \in 0 .. a \div d : k * d \in 0 .. a /\ (k * d) % d = 0
<1>1. a \div d \in Nat
  BY Z3
<1>2. a % d = 0 => \E k \in 0 .. a \div d : a = k * d
  BY Z3
<1>3. ASSUME NEW k \in 0 .. a \div d PROVE k * d \in 0 .. a /\ (k * d) % d = 0
  <2>1. k \in Nat /\ k * d \in Nat
    BY <1>1, Z3
  <2>2. k * d <= a
    BY Z3
  <2>3. (k * d) % d = 0
    BY <2>1, Z3
  <2> QED
    BY <2>1, <2>2, <2>3
<1> QED
  BY <1>1, <1>2, <1>3

\* Counting up from lo by the step selects lo, lo + step, ... up to hi.
LEMMA SteppedCounts ==
    ASSUME NEW lo \in Int, NEW hi \in Int, lo <= hi, NEW step \in Nat \ {0}
    PROVE  Stepped(lo, hi, step) = {lo + k * step : k \in 0 .. (hi - lo) \div step}
<1>1. hi - lo \in Nat
  OBVIOUS
<1>2. ASSUME NEW v \in Stepped(lo, hi, step)
      PROVE  \E k \in 0 .. (hi - lo) \div step : v = lo + k * step
  <2>1. v \in lo .. hi /\ (v - lo) % step = 0 /\ v - lo \in Nat
    BY DEF Stepped
  <2>2. PICK k \in 0 .. (v - lo) \div step : v - lo = k * step
    BY <2>1, Multiples
  <2>3. (v - lo) \div step <= (hi - lo) \div step /\ (v - lo) \div step \in Nat
        /\ (hi - lo) \div step \in Nat
    BY <1>1, <2>1, Z3
  <2>4. k \in 0 .. (hi - lo) \div step
    BY <2>3
  <2>5. k * step \in Int
    BY <2>1, <2>2
  <2>6. v = lo + k * step
    BY <2>1, <2>2, <2>5
  <2> QED
    BY <2>4, <2>6
<1>3. ASSUME NEW k \in 0 .. (hi - lo) \div step
      PROVE  lo + k * step \in Stepped(lo, hi, step)
  <2> DEFINE m == k * step
  <2>1. m \in 0 .. hi - lo /\ m % step = 0
    BY <1>1, Multiples
  <2> HIDE DEF m
  <2>2. lo + m \in lo .. hi /\ (lo + m) - lo = m
    BY <2>1
  <2>3. lo + m \in Stepped(lo, hi, step)
    BY <2>1, <2>2 DEF Stepped
  <2> QED
    BY <2>3 DEF m
<1> QED
  BY <1>2, <1>3

Unit(p) == p.kind = "value" /\ p.slash /\ p.step = 1

\* A part of a plain field that is accepted selects what it denotes.
LEMMA PlainDenotes ==
    ASSUME NEW f \in PlainField, NEW p \in Part, parsePart(p, Min[f], Max[f]).ok, ~Unit(p)
    PROVE  parsePart(p, Min[f], Max[f]).bits = Denoted(f, p)
<1> DEFINE lo == IF p.kind = "star" THEN Min[f] ELSE p.lo
           hi == PartLast(p, Max[f])
           step == Step(p)
<1>1. /\ p.kind # "bad" /\ StepAccepted(p, Max[f] - Min[f] + 1)
      /\ Min[f] <= lo /\ hi <= Max[f] /\ lo <= hi
      /\ parsePart(p, Min[f], Max[f]).bits = Stepped(lo, hi, step)
  BY DEF parsePart, Refused
<1>2. p.kind \in {"star", "value", "range", "bad"} /\ p.lo \in Int /\ p.hi \in Int
      /\ p.slash \in BOOLEAN /\ p.step \in Int
  BY DEF Part
<1>3. Min[f] \in Nat /\ Max[f] \in Nat /\ f # "dow"
  BY RangeAssumption DEF PlainField
<1>4. step \in Nat \ {0} /\ lo \in Int /\ hi \in Int
  BY <1>1, <1>2, <1>3 DEF Step, StepAccepted, PartLast
<1>5. Denoted(f, p) = {lo + k * step : k \in 0 .. (hi - lo) \div step}
  <2>1. lo = CASE p.kind = "star" -> Least(f)
               [] p.kind = "value" -> Fold(f, p.lo)
               [] OTHER -> p.lo
    BY <1>2, <1>3 DEF Least, Fold
  <2>2. step = IF p.slash THEN p.step ELSE 1
    BY DEF Step
  <2>3. hi = CASE p.kind = "star" -> Greatest(f)
               [] p.kind = "value" /\ p.slash -> Greatest(f)
               [] p.kind = "value" /\ ~p.slash -> lo
               [] OTHER -> p.hi
    <3>1. p.kind = "star" => hi = Greatest(f)
      BY <1>3 DEF PartLast, Greatest
    <3>2. p.kind = "range" => hi = p.hi
      BY DEF PartLast
    <3>3. p.kind = "value" /\ p.slash => hi = Greatest(f)
      <4>1. p.kind = "value" /\ p.slash => Step(p) > 1
        BY <1>2, <1>4 DEF Unit, Step
      <4> QED
        BY <1>3, <4>1 DEF PartLast, Greatest
    <3>4. p.kind = "value" /\ ~p.slash => hi = lo
      BY DEF PartLast, Step
    <3> QED
      BY <1>1, <1>2, <3>1, <3>2, <3>3, <3>4
  <2>4. \A v : Fold(f, v) = v
    BY <1>3 DEF Fold
  <2> HIDE DEF lo, hi, step
  <2>5. Denoted(f, p) = {Fold(f, lo + k * step) : k \in 0 .. (hi - lo) \div step}
    BY <2>1, <2>2, <2>3, Zenon DEF Denoted
  <2> QED
    BY <2>4, <2>5, Zenon
<1> HIDE DEF lo, hi, step
<1> QED
  BY <1>1, <1>4, <1>5, SteppedCounts

\* A part of the weekday that is accepted selects the days it denotes.
LEMMA WeekdayDenotes ==
    ASSUME NEW p \in Part, parseDOWPart(p).ok, ~Unit(p)
    PROVE  parseDOWPart(p).bits = Denoted("dow", p)
<1> DEFINE lo == CASE p.kind = "star" -> 0
                   [] p.kind = "value" /\ p.lo = 7 -> 0
                   [] OTHER -> p.lo
           hi == IF p.kind = "value" /\ Step(p) = 1 THEN lo ELSE PartLast(p, 6)
           step == Step(p)
<1>1. /\ p.kind # "bad" /\ StepAccepted(p, 7)
      /\ 0 <= lo /\ hi <= 7 /\ lo <= hi
      /\ parseDOWPart(p).bits = {IF v = 7 THEN 0 ELSE v : v \in Stepped(lo, hi, step)}
  BY DEF parseDOWPart, Refused
<1>2. p.kind \in {"star", "value", "range", "bad"} /\ p.lo \in Int /\ p.hi \in Int
      /\ p.slash \in BOOLEAN /\ p.step \in Int
  BY DEF Part
<1>3. step \in Nat \ {0}
  BY <1>1, <1>2 DEF Step, StepAccepted
<1>4. lo \in Int /\ hi \in Int
  BY <1>2, <1>3 DEF PartLast
<1>5. Denoted("dow", p) = {Fold("dow", lo + k * step) : k \in 0 .. (hi - lo) \div step}
  <2>1. lo = CASE p.kind = "star" -> Least("dow")
               [] p.kind = "value" -> Fold("dow", p.lo)
               [] OTHER -> p.lo
    <3>1. p.kind = "star" => lo = Least("dow")
      BY DEF Least
    <3>2. p.kind = "value" => lo = Fold("dow", p.lo)
      <4>1. p.kind = "value" /\ p.lo # 7 => p.lo \in 0 .. 6
        BY <1>1, <1>2, <1>3 DEF PartLast
      <4>2. (\A v \in 0 .. 6 : v % 7 = v) /\ 7 % 7 = 0
        BY Z3
      <4> QED
        BY <4>1, <4>2 DEF Fold
    <3>3. p.kind = "range" => lo = p.lo
      OBVIOUS
    <3> QED
      BY <1>1, <1>2, <3>1, <3>2, <3>3
  <2>2. step = IF p.slash THEN p.step ELSE 1
    BY DEF Step
  <2>3. hi = CASE p.kind = "star" -> Greatest("dow")
               [] p.kind = "value" /\ p.slash -> Greatest("dow")
               [] p.kind = "value" /\ ~p.slash -> lo
               [] OTHER -> p.hi
    <3>1. p.kind = "star" => hi = Greatest("dow")
      BY DEF PartLast, Greatest
    <3>2. p.kind = "range" => hi = p.hi
      BY DEF PartLast
    <3>3. p.kind = "value" /\ p.slash => hi = Greatest("dow")
      <4>1. p.kind = "value" /\ p.slash => Step(p) > 1 /\ Step(p) # 1
        BY <1>2, <1>3 DEF Unit, Step
      <4> QED
        BY <4>1 DEF PartLast, Greatest
    <3>4. p.kind = "value" /\ ~p.slash => hi = lo
      BY DEF Step
    <3> QED
      BY <1>1, <1>2, <3>1, <3>2, <3>3, <3>4
  <2> HIDE DEF lo, hi, step
  <2> QED
    BY <2>1, <2>2, <2>3, Zenon DEF Denoted
<1> HIDE DEF lo, hi, step
<1>6. Stepped(lo, hi, step) = {lo + k * step : k \in 0 .. (hi - lo) \div step}
  BY <1>1, <1>3, <1>4, SteppedCounts
<1>7. \A v \in Stepped(lo, hi, step) : (IF v = 7 THEN 0 ELSE v) = Fold("dow", v)
  <2>1. Stepped(lo, hi, step) \subseteq 0 .. 7
    BY <1>1, <1>4 DEF Stepped
  <2>2. \A v \in 0 .. 7 : v % 7 = IF v = 7 THEN 0 ELSE v
    BY Z3
  <2> QED
    BY <2>1, <2>2 DEF Fold
<1>8. parseDOWPart(p).bits = {Fold("dow", v) : v \in Stepped(lo, hi, step)}
  <2>1. {IF v = 7 THEN 0 ELSE v : v \in Stepped(lo, hi, step)}
          = {Fold("dow", v) : v \in Stepped(lo, hi, step)}
    BY <1>7
  <2> QED
    BY <1>1, <2>1, Zenon
<1> QED
  BY <1>5, <1>6, <1>8

\* So does a field ...
LEMMA FieldDenotes ==
    ASSUME NEW f \in Field, NEW field \in Seq(Part), parseField(f, field).ok,
           \A i \in DOMAIN field : ~Unit(field[i])
    PROVE  parseField(f, field).bits = DenotedField(f, field)
<1>1. ASSUME NEW i \in DOMAIN field
      PROVE  ParsedPart(f, field[i]).bits = Denoted(f, field[i])
  <2>1. field[i] \in Part /\ ParsedPart(f, field[i]).ok /\ ~Unit(field[i])
    BY DEF parseField
  <2>2. CASE f = "dow"
    BY <2>1, <2>2, WeekdayDenotes DEF ParsedPart
  <2>3. CASE f # "dow"
    <3>1. f \in PlainField
      BY <2>3 DEF Field
    <3> QED
      BY <2>1, <2>3, <3>1, PlainDenotes DEF ParsedPart
  <2> QED
    BY <2>2, <2>3
<1>2. parseField(f, field).bits = UNION {ParsedPart(f, field[i]).bits : i \in DOMAIN field}
  BY DEF parseField
<1> QED
  BY <1>1, <1>2, Zenon DEF DenotedField

\* ... and "*" is the whole of it.
LEMMA StarIsWhole ==
    ASSUME NEW f \in Field, NEW field \in Seq(Part), parseField(f, field).ok
    PROVE  Star(f, field) <=> parseField(f, field).bits = Values(f)
<1>1. ASSUME IsStar(field)
      PROVE  parseField(f, field).bits = Values(f)
  <2> DEFINE p == field[1]
  <2>1. /\ Len(field) = 1 /\ p \in Part /\ p.kind = "star" /\ ~p.slash /\ Step(p) = 1
        /\ ParsedPart(f, p).ok /\ DOMAIN field = {1}
    <3>1. Len(field) = 1 /\ DOMAIN field = 1 .. 1 /\ 1 \in DOMAIN field
      BY <1>1 DEF IsStar
    <3>2. 1 .. 1 = {1}
      OBVIOUS
    <3> QED
      BY <1>1, <3>1, <3>2 DEF IsStar, parseField, Step
  <2>2. parseField(f, field).bits = ParsedPart(f, p).bits
    <3>1. parseField(f, field).bits = UNION {ParsedPart(f, field[i]).bits : i \in {1}}
      BY <2>1, Zenon DEF parseField
    <3> QED
      BY <3>1, Zenon
  <2> HIDE DEF p
  <2>3. \A lo, hi \in Int : Stepped(lo, hi, 1) = lo .. hi
    <3>1. \A v \in Int : v % 1 = 0
      BY Z3
    <3>2. \A lo, hi \in Int : \A v \in lo .. hi : v - lo \in Int
      OBVIOUS
    <3> QED
      BY <3>1, <3>2 DEF Stepped
  <2>4. CASE f = "dow"
    <3>1. ParsedPart(f, p).bits = {IF v = 7 THEN 0 ELSE v : v \in Stepped(0, 6, 1)}
      BY <2>1, <2>4 DEF ParsedPart, parseDOWPart, Refused, PartLast
    <3>2. Stepped(0, 6, 1) = 0 .. 6
      BY <2>3
    <3>3. \A v \in 0 .. 6 : (IF v = 7 THEN 0 ELSE v) = v
      OBVIOUS
    <3>4. {IF v = 7 THEN 0 ELSE v : v \in 0 .. 6} = 0 .. 6
      BY <3>3, Zenon
    <3> QED
      BY <2>2, <2>4, <3>1, <3>2, <3>4 DEF Values, Weekday
  <2>5. CASE f # "dow"
    <3>1. Min[f] \in Int /\ Max[f] \in Int
      BY <2>5, RangeAssumption DEF Field
    <3>2. ParsedPart(f, p).bits = Stepped(Min[f], Max[f], 1)
      BY <2>1, <2>5 DEF ParsedPart, parsePart, Refused, PartLast
    <3> QED
      BY <2>2, <2>3, <2>5, <3>1, <3>2 DEF Values
  <2> QED
    BY <2>4, <2>5
<1> QED
  BY <1>1 DEF Star, allSet

\* The schedule in use is the parse of the text.
FromText == sched # << >> => sched = parseCron(Expand(text))

\* An accepted expression without "N/1" fires in exactly the minutes standard cron
\* gives it, whatever the expression and the ranges of the fields.
THEOREM FiresExactly == Spec => []FiresWhenDue
<1> DEFINE Inv == text \in Text /\ FromText
<1>1. Init => Inv
  BY DEF Init, FromText
<1>2. Inv /\ [Next]_vars => Inv'
  BY DEF FromText, Next, vars, Parse, Tick
<1>3. ASSUME text \in Text, FromText, Parsed, ~UnitStep(Expand(text))
      PROVE  Fires <=> DueAt(Expand(text), now)
  <2> DEFINE e == Expand(text)
             D(f) == DenotedField(f, e[f])
  <2>1. IsExpression(e)
    BY <1>3, TextExpands
  <2>2. \A f \in Field : e[f] \in Seq(Part)
    BY <2>1 DEF IsExpression
  <2>3. sched = parseCron(e) /\ sched # Rejected
    BY <1>3 DEF FromText, Parsed
  <2>4. \A f \in Field : \A i \in DOMAIN e[f] : ~Unit(e[f][i])
    BY <1>3 DEF UnitStep, Unit
  <2> HIDE DEF e
  <2>5. \A f \in Field : parseField(f, e[f]).ok
    BY <2>3 DEF parseCron
  <2>6. sched = [bits |-> [f \in Field |-> parseField(f, e[f]).bits],
                 domStar |-> Star("dom", e["dom"]), dowStar |-> Star("dow", e["dow"])]
    BY <2>3, <2>5 DEF parseCron
  <2>7. \A f \in Field : parseField(f, e[f]).bits = D(f)
    BY <2>2, <2>4, <2>5, FieldDenotes
  <2>8. \A f \in Field : Star(f, e[f]) <=> D(f) = Values(f)
    BY <2>2, <2>5, <2>7, StarIsWhole
  <2>9. /\ "dom" \in Field /\ "dow" \in Field
        /\ "minute" \in Field /\ "hour" \in Field /\ "month" \in Field
    BY DEF Field, PlainField
  <2> HIDE DEF D
  <2>10. /\ \A f \in Field : sched.bits[f] = D(f)
         /\ sched.domStar <=> D("dom") = Values("dom")
         /\ sched.dowStar <=> D("dow") = Values("dow")
    BY <2>6, <2>7, <2>8, <2>9
  <2>11. Fires <=> /\ now["minute"] \in D("minute") /\ now["hour"] \in D("hour")
                   /\ now["month"] \in D("month")
                   /\ IF D("dom") = Values("dom") \/ D("dow") = Values("dow")
                      THEN now["dom"] \in D("dom") /\ now["dow"] \in D("dow")
                      ELSE now["dom"] \in D("dom") \/ now["dow"] \in D("dow")
    BY <1>3, <2>9, <2>10 DEF Fires, Matches
  <2> QED
    BY <2>11 DEF DueAt, Restricted, D, e
<1>4. Inv => FiresWhenDue
  BY <1>3 DEF FiresWhenDue
<1> QED
  BY <1>1, <1>2, <1>4, PTL DEF Spec

\* The clock stays in the calendar.
LEMMA NextMinuteInTime ==
    ASSUME NEW t \in Time
    PROVE  NextMinute(t) \in Time
<1> DEFINE n == NextMinute(t)
           d == t["dom"]
           m == t["month"]
<1>1. /\ t \in [Field -> Nat] /\ \A f \in Field : t[f] \in Values(f)
      /\ d <= DaysIn[m]
  BY DEF Time
<1>2. \A f \in PlainField : Min[f] \in Nat /\ Max[f] \in Nat /\ Min[f] <= Max[f]
                             /\ t[f] \in Min[f] .. Max[f]
  BY <1>1, RangeAssumption DEF Values, Field, PlainField
<1>3. DaysIn[m] \in Min["dom"] .. Max["dom"]
  BY <1>2, RangeAssumption DEF PlainField
<1>4. /\ Position("minute") = 1 /\ Position("hour") = 2
      /\ Position("dom") = 3 /\ Position("month") = 4
  BY DEF Position, Order
<1>5. \A i \in 1 .. 4 : StartsOver(t, i) => t[Order[i]] = Last(t, Order[i])
  BY DEF StartsOver
<1>6. /\ Order[1] = "minute" /\ Order[2] = "hour" /\ Order[3] = "dom" /\ Order[4] = "month"
  BY DEF Order
<1>7. ASSUME NEW i \in 1 .. 4, ~StartsOver(t, i), StartsOver(t, i - 1)
      PROVE  t[Order[i]] # Last(t, Order[i])
  BY <1>7 DEF StartsOver
<1>8. ASSUME NEW f \in {"minute", "hour", "month"}, NEW i \in 1 .. 4, Position(f) = i, Order[i] = f
      PROVE  n[f] \in Min[f] .. Max[f]
  <2>1. f \in Field /\ f \in PlainField /\ f # "dow" /\ Last(t, f) = Max[f]
    BY DEF Field, PlainField, Last
  <2>2. n[f] = IF StartsOver(t, i) THEN Min[f]
               ELSE IF StartsOver(t, i - 1) THEN t[f] + 1 ELSE t[f]
    BY <1>8, <2>1 DEF NextMinute
  <2>3. ~StartsOver(t, i) /\ StartsOver(t, i - 1) => t[f] # Max[f]
    BY <1>7, <1>8, <2>1
  <2> HIDE DEF n
  <2> QED
    BY <1>2, <2>1, <2>2, <2>3
<1>9. n["dom"] = IF StartsOver(t, 3) THEN Min["dom"]
                 ELSE IF StartsOver(t, 2) THEN d + 1 ELSE d
  BY <1>4 DEF NextMinute, Field, PlainField
<1>10. n["month"] = IF StartsOver(t, 4) THEN Min["month"]
                    ELSE IF StartsOver(t, 3) THEN m + 1 ELSE m
  BY <1>4 DEF NextMinute, Field, PlainField
<1>11. n["dow"] \in 0 .. 6
  <2>1. t["dow"] \in 0 .. 6
    BY <1>1 DEF Field, Values, Weekday
  <2>2. (t["dow"] + 1) % 7 \in 0 .. 6
    BY <2>1, Z3
  <2>3. n["dow"] = IF StartsOver(t, 2) THEN (t["dow"] + 1) % 7 ELSE t["dow"]
    BY DEF NextMinute, Field
  <2> QED
    BY <2>1, <2>2, <2>3
<1>12. ~StartsOver(t, 3) /\ StartsOver(t, 2) => d # DaysIn[m]
  <2>1. 3 \in 1 .. 4 /\ 3 - 1 = 2 /\ Order[3] = "dom" /\ Last(t, "dom") = DaysIn[m]
    BY <1>6 DEF Last
  <2> QED
    BY <1>7, <2>1
<1>13. StartsOver(t, 4) => StartsOver(t, 3)
  BY DEF StartsOver
<1>14. n["minute"] \in Min["minute"] .. Max["minute"] /\ n["hour"] \in Min["hour"] .. Max["hour"]
       /\ n["month"] \in Min["month"] .. Max["month"]
  BY <1>4, <1>6, <1>8
<1> HIDE DEF n, d, m
<1>15. d \in Min["dom"] .. Max["dom"] /\ Min["dom"] \in Nat /\ Max["dom"] \in Nat
  BY <1>2 DEF PlainField, d
<1>16. n["dom"] \in Min["dom"] .. Max["dom"]
  BY <1>1, <1>3, <1>9, <1>12, <1>15
<1>17. n["dom"] <= DaysIn[n["month"]]
  <2>1. CASE StartsOver(t, 3)
    <3>1. n["dom"] = Min["dom"] /\ DaysIn[n["month"]] \in Min["dom"] .. Max["dom"]
      BY <1>9, <1>14, <2>1, RangeAssumption
    <3> QED
      BY <1>15, <3>1
  <2>2. CASE ~StartsOver(t, 3)
    <3>1. n["month"] = m
      BY <1>10, <1>13, <2>2
    <3> QED
      BY <1>1, <1>3, <1>9, <1>12, <1>15, <2>2, <3>1
  <2> QED
    BY <2>1, <2>2
<1>18. \A f \in Field : n[f] \in Values(f) /\ n[f] \in Nat
  <2>1. \A f \in PlainField : n[f] \in Min[f] .. Max[f]
    BY <1>14, <1>16 DEF PlainField
  <2>2. \A f \in PlainField : n[f] \in Nat
    BY <1>2, <2>1
  <2>3. n["dow"] \in Nat
    BY <1>11
  <2>4. \A f \in PlainField : f # "dow"
    BY DEF PlainField
  <2>5. \A f \in PlainField : n[f] \in Values(f)
    BY <2>1, <2>4 DEF Values
  <2>6. n["dow"] \in Values("dow")
    BY <1>11 DEF Values, Weekday
  <2> QED
    BY <2>2, <2>3, <2>5, <2>6 DEF Field
<1>19. n \in [Field -> Nat]
  <2>1. n = [f \in Field |-> n[f]]
    BY DEF n, NextMinute
  <2> QED
    BY <1>18, <2>1
<1> QED
  BY <1>17, <1>18, <1>19 DEF Time, n

\* The variables keep their types: no part sets a bit outside the slice of its
\* field, no accepted expression leaves a field empty, the clock stays in the
\* calendar.
THEOREM CronTyped == Spec => []TypeOK
<1>1. Init => now \in Time
  <2>1. \A f \in PlainField : Min[f] \in Nat /\ Max[f] \in Nat /\ Min[f] <= Max[f]
    BY RangeAssumption
  <2>2. Start \in [Field -> Nat] /\ \A f \in Field : Start[f] \in Values(f)
    BY <2>1 DEF Start, Field, Values, Weekday
  <2>3. Start["dom"] = Min["dom"] /\ Start["month"] = Min["month"]
    BY DEF Start, Field, PlainField
  <2>4. Start["dom"] <= DaysIn[Start["month"]]
    <3>1. "month" \in PlainField /\ "dom" \in PlainField
      BY DEF PlainField
    <3>2. Min["month"] \in Min["month"] .. Max["month"]
      BY <2>1, <3>1
    <3>3. DaysIn[Min["month"]] \in Min["dom"] .. Max["dom"]
      BY <3>2, RangeAssumption
    <3> QED
      BY <2>1, <2>3, <3>1, <3>3
  <2> QED
    BY <2>2, <2>4 DEF Init, Time
<1>2. now \in Time /\ [Next]_vars => (now \in Time)'
  BY NextMinuteInTime DEF Next, vars, Parse, Tick
<1>3. Init => IInv
  BY DEF Init, IInv, ScheduleOK, Parsed
<1>4. IInv /\ [Next]_vars => IInv'
  BY InvStep
<1>5. IInv /\ now \in Time => TypeOK
  BY DEF IInv, ScheduleOK, TypeOK
<1> QED
  BY <1>1, <1>2, <1>3, <1>4, <1>5, PTL DEF Spec
-----------------------------------------------------------------------------
(* The @-names *)

\* A field of one part denotes what the part does.
LEMMA OnePart ==
    ASSUME NEW f, NEW field, DOMAIN field = {1}
    PROVE  DenotedField(f, field) = Denoted(f, field[1])
<1> DEFINE S(i) == Denoted(f, field[i])
<1>1. DenotedField(f, field) = UNION {S(i) : i \in DOMAIN field}
  BY DEF DenotedField
<1> HIDE DEF S
<1>2. UNION {S(i) : i \in DOMAIN field} = S(1)
  <2>1. {S(i) : i \in DOMAIN field} = {S(1)}
    OBVIOUS
  <2> QED
    BY <2>1
<1> QED
  BY <1>1, <1>2 DEF S

\* "N" denotes N ...
LEMMA OnlyDenotes ==
    ASSUME NEW f \in Field, NEW n \in Nat, f = "dow" => n = 0
    PROVE  DenotedField(f, Only(n)) = {n}
<1> DEFINE p == [kind |-> "value", lo |-> n, hi |-> 0, slash |-> FALSE, step |-> 0]
<1>1. DenotedField(f, Only(n)) = Denoted(f, p)
  <2>1. DOMAIN Only(n) = {1} /\ Only(n)[1] = p
    BY DEF Only
  <2>2. DenotedField(f, Only(n)) = Denoted(f, Only(n)[1])
    BY <2>1, OnePart, Zenon
  <2> QED
    BY <2>1, <2>2, Zenon
<1>2. Fold(f, n) = n
  <2>1. 0 % 7 = 0
    BY Z3
  <2> QED
    BY <2>1 DEF Fold
<1>3. Denoted(f, p) = {Fold(f, n + k * 1) : k \in 0 .. (n - n) \div 1}
  BY <1>2 DEF Denoted
<1>4. (n - n) \div 1 = 0 /\ n + 0 * 1 = n /\ 0 .. 0 = {0}
  BY Z3
<1>5. Denoted(f, p) = {Fold(f, n + 0 * 1)}
  BY <1>3, <1>4, Zenon
<1> QED
  BY <1>1, <1>2, <1>4, <1>5, Zenon

\* ... and "*" every value.
LEMMA AnyDenotes ==
    ASSUME NEW f \in Field
    PROVE  DenotedField(f, AnyValue) = Values(f)
<1> DEFINE p == [kind |-> "star", lo |-> 0, hi |-> 0, slash |-> FALSE, step |-> 0]
<1>1. DenotedField(f, AnyValue) = Denoted(f, p)
  <2>1. DOMAIN AnyValue = {1} /\ AnyValue[1] = p
    BY DEF AnyValue
  <2>2. DenotedField(f, AnyValue) = Denoted(f, AnyValue[1])
    BY <2>1, OnePart, Zenon
  <2> QED
    BY <2>1, <2>2, Zenon
<1>2. Least(f) \in Int /\ Greatest(f) \in Int /\ Least(f) <= Greatest(f)
      /\ Values(f) = Least(f) .. Greatest(f)
  <2>1. CASE f = "dow"
    BY <2>1 DEF Least, Greatest, Values, Weekday
  <2>2. CASE f # "dow"
    <3>1. f \in PlainField
      BY <2>2 DEF Field
    <3>2. Min[f] \in Nat /\ Max[f] \in Nat /\ Min[f] <= Max[f]
      BY <3>1, RangeAssumption
    <3> QED
      BY <2>2, <3>2 DEF Least, Greatest, Values
  <2> QED
    BY <2>1, <2>2
<1>3. Denoted(f, p) = {Fold(f, Least(f) + k * 1) : k \in 0 .. (Greatest(f) - Least(f)) \div 1}
  BY DEF Denoted
<1>4. Stepped(Least(f), Greatest(f), 1)
        = {Least(f) + k * 1 : k \in 0 .. (Greatest(f) - Least(f)) \div 1}
  <2>1. 1 \in Nat \ {0}
    OBVIOUS
  <2>2. \A lo, hi \in Int : lo <= hi =>
           Stepped(lo, hi, 1) = {lo + k * 1 : k \in 0 .. (hi - lo) \div 1}
    BY <2>1, SteppedCounts
  <2> HIDE DEF p
  <2> QED
    BY <1>2, <2>2
<1>5. Stepped(Least(f), Greatest(f), 1) = Values(f)
  <2>1. \A v \in Int : v % 1 = 0
    BY Z3
  <2> QED
    BY <1>2, <2>1 DEF Stepped
<1>6. \A v \in Values(f) : Fold(f, v) = v
  <2>1. \A v \in 0 .. 6 : v % 7 = v
    BY Z3
  <2> QED
    BY <2>1 DEF Fold, Values, Weekday
<1>7. Denoted(f, p) = {Fold(f, v) : v \in Values(f)}
  BY <1>3, <1>4, <1>5
<1>8. {Fold(f, v) : v \in Values(f)} = Values(f)
  BY <1>6, Zenon
<1> QED
  BY <1>1, <1>7, <1>8, Zenon

\* The minutes the @-names denote.
LEMMA ShortcutsDenote ==
    ASSUME NEW t \in Time
    PROVE  LET First(f) == t[f] = Min[f]
               midnight == First("minute") /\ First("hour")
               Due(n) == DueAt(predefined[n], t)
           IN  /\ Due("@hourly") <=> First("minute")
               /\ \A n \in {"@daily", "@midnight"} : Due(n) <=> midnight
               /\ Due("@weekly") <=> midnight /\ t["dow"] = 0
               /\ Due("@monthly") <=> midnight /\ First("dom")
               /\ \A n \in {"@yearly", "@annually"} :
                     Due(n) <=> midnight /\ First("dom") /\ First("month")
<1> DEFINE D(f, field) == DenotedField(f, field)
<1>1. \A f \in Field : t[f] \in Values(f)
  BY DEF Time
<1>2. \A f \in Field : D(f, AnyValue) = Values(f)
  BY AnyDenotes
<1>3. D("minute", Only(0)) = {0} /\ D("hour", Only(0)) = {0} /\ D("dow", Only(0)) = {0}
      /\ D("dom", Only(1)) = {1} /\ D("month", Only(1)) = {1}
  BY OnlyDenotes DEF Field, PlainField
<1>4. Min["minute"] = 0 /\ Min["hour"] = 0 /\ Min["dom"] = 1 /\ Min["month"] = 1
  BY DEF Min, PlainField
<1>5. "minute" \in Field /\ "hour" \in Field /\ "dom" \in Field
      /\ "month" \in Field /\ "dow" \in Field
  BY DEF Field, PlainField
<1>6. ASSUME NEW m, NEW h, NEW d, NEW mo, NEW w
      PROVE  DueAt(Fields(m, h, d, mo, w), t) <=>
                /\ t["minute"] \in D("minute", m) /\ t["hour"] \in D("hour", h)
                /\ t["month"] \in D("month", mo)
                /\ IF D("dom", d) # Values("dom") /\ D("dow", w) # Values("dow")
                   THEN t["dom"] \in D("dom", d) \/ t["dow"] \in D("dow", w)
                   ELSE t["dom"] \in D("dom", d) /\ t["dow"] \in D("dow", w)
  <2>1. LET e == Fields(m, h, d, mo, w)
        IN  e["minute"] = m /\ e["hour"] = h /\ e["dom"] = d /\ e["month"] = mo /\ e["dow"] = w
    BY <1>5 DEF Fields
  <2> QED
    BY <2>1 DEF DueAt, Restricted
<1> HIDE DEF D
<1>7. /\ predefined["@hourly"] = Fields(Only(0), AnyValue, AnyValue, AnyValue, AnyValue)
      /\ \A n \in {"@daily", "@midnight"} :
            predefined[n] = Fields(Only(0), Only(0), AnyValue, AnyValue, AnyValue)
      /\ predefined["@weekly"] = Fields(Only(0), Only(0), AnyValue, AnyValue, Only(0))
      /\ predefined["@monthly"] = Fields(Only(0), Only(0), Only(1), AnyValue, AnyValue)
      /\ \A n \in {"@yearly", "@annually"} :
            predefined[n] = Fields(Only(0), Only(0), Only(1), Only(1), AnyValue)
  BY DEF predefined, Shortcut
<1> QED
  BY <1>1, <1>2, <1>3, <1>4, <1>5, <1>6, <1>7

\* No @-name has "N/1".
LEMMA ShortcutsHaveNoUnitStep == \A n \in Shortcut : ~UnitStep(predefined[n])
<1> DEFINE Good(x) == DOMAIN x = {1} /\ ~x[1].slash
<1>1. Good(AnyValue) /\ Good(Only(0)) /\ Good(Only(1))
  BY DEF AnyValue, Only
<1> HIDE DEF Good
<1>2. ASSUME NEW n \in Shortcut, NEW f \in Field PROVE Good(predefined[n][f])
  BY <1>1 DEF predefined, Shortcut, Fields
<1> QED
  BY <1>2 DEF UnitStep, Good

\* Every @-name fires at the first minute of its period and at no other.
THEOREM ShortcutsOnTime == Spec => []ShortcutsAreOnTime
<1>1. ASSUME TypeOK, FiresWhenDue, Parsed, text.name \in Shortcut
      PROVE  Fires <=> DueAt(predefined[text.name], now)
  <2>1. Expand(text) = predefined[text.name]
    BY <1>1 DEF Expand
  <2>2. ~UnitStep(Expand(text))
    BY <1>1, <2>1, ShortcutsHaveNoUnitStep
  <2> QED
    BY <1>1, <2>1, <2>2 DEF FiresWhenDue
<1>2. TypeOK /\ FiresWhenDue => ShortcutsAreOnTime
  <2> SUFFICES ASSUME TypeOK, FiresWhenDue, Parsed PROVE ShortcutsAreOnTime
    BY DEF ShortcutsAreOnTime
  <2>1. now \in Time
    BY DEF TypeOK
  <2>2. text.name \in Shortcut => (Fires <=> DueAt(predefined[text.name], now))
    BY <1>1
  <2> QED
    BY <2>1, <2>2, ShortcutsDenote DEF ShortcutsAreOnTime, Shortcut
<1> QED
  BY <1>2, CronTyped, FiresExactly, PTL
=============================================================================
