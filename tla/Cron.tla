--------------------------------- MODULE Cron ---------------------------------
(***************************************************************************)
(* Cron expressions (internal/scheduler/cron.go): what parseCron accepts,  *)
(* the values it selects in each field, and the minutes its result         *)
(* matches, against what a cron expression denotes.  A behaviour is one    *)
(* expression, parsed once, and the clock that then runs through the       *)
(* calendar, as tick sees it.                                              *)
(*                                                                         *)
(* Simplifications.  A field is a sequence of parts (the text between      *)
(* commas) that are split and converted already: "*", "N" or "N-M", with   *)
(* or without "/S", or text that is none of these.  Names of days and      *)
(* months are their numbers.  The greatest value of each field but the     *)
(* weekday's, and the lengths of the months, are constants.                *)
(***************************************************************************)
EXTENDS Integers, Sequences, FiniteSets

CONSTANTS
    Max,            \* the greatest value of each field but "dow"
    DaysIn,         \* the length of each month
    Expressions     \* expressions: for each field a sequence of parts

PlainField == {"minute", "hour", "dom", "month"}
Field == PlainField \cup {"dow"}
Weekday == 0 .. 6

\* The least values parseCron passes to parseField.
Min == [f \in PlainField |-> IF f \in {"minute", "hour"} THEN 0 ELSE 1]

Part == [kind : {"star", "value", "range", "bad"}, lo : Int, hi : Int,
         slash : BOOLEAN, step : Int]

ASSUME RangeAssumption ==
    /\ Min \in [PlainField -> Nat] /\ Max \in [PlainField -> Nat]
    /\ \A f \in PlainField : Min[f] <= Max[f]
    /\ DaysIn \in [Min["month"] .. Max["month"] -> Min["dom"] .. Max["dom"]]
ASSUME ExpressionAssumption ==
    \A e \in Expressions : \A f \in Field : e[f] # << >> /\ e[f] \in Seq(Part)

\* The values of a field, and the slice of bits that stands for them.
Values(f) == IF f = "dow" THEN Weekday ELSE Min[f] .. Max[f]

-----------------------------------------------------------------------------
(* parseCron *)

Step(p) == IF p.slash THEN p.step ELSE 1

\* "/S" is refused unless 0 < S <= n, the size of the field.
StepAccepted(p, n) == p.slash => p.step \in 1 .. n

\* The numbers lo, lo + step, ... up to hi.
Stepped(lo, hi, step) == {v \in lo .. hi : (v - lo) % step = 0}

Refused == [ok |-> FALSE, bits |-> {}]

\* The upper end of a part.  "N/S" runs to the maximum, except that a step of
\* 1 is indistinguishable from no step.
PartLast(p, max) ==
    CASE p.kind = "star" -> max
      [] p.kind = "range" -> p.hi
      [] OTHER -> IF Step(p) > 1 THEN max ELSE p.lo

\* Mutant of parsePart: the order of the bounds is not checked.
parsePartUnordered(p, min, max) ==
    LET lo == IF p.kind = "star" THEN min ELSE p.lo
        hi == PartLast(p, max)
    IN  IF /\ p.kind # "bad"
           /\ StepAccepted(p, max - min + 1)
           /\ min <= lo /\ hi <= max
        THEN [ok |-> TRUE, bits |-> Stepped(lo, hi, Step(p))]
        ELSE Refused

parsePart(p, min, max) ==
    LET lo == IF p.kind = "star" THEN min ELSE p.lo
        hi == PartLast(p, max)
    IN  IF /\ p.kind # "bad"
           /\ StepAccepted(p, max - min + 1)
           /\ min <= lo /\ hi <= max /\ lo <= hi
        THEN [ok |-> TRUE, bits |-> Stepped(lo, hi, Step(p))]
        ELSE Refused

\* Mutant of parseDOWPart: the 7 of a range is not folded onto Sunday's bit.
parseDOWPartUnfolded(p) ==
    LET lo == CASE p.kind = "star" -> 0
                [] p.kind = "value" /\ p.lo = 7 -> 0
                [] OTHER -> p.lo
        hi == IF p.kind = "value" /\ Step(p) = 1 THEN lo ELSE PartLast(p, 6)
    IN  IF /\ p.kind # "bad"
           /\ StepAccepted(p, 7)
           /\ 0 <= lo /\ hi <= 7 /\ lo <= hi
        THEN [ok |-> TRUE, bits |-> Stepped(lo, hi, Step(p))]
        ELSE Refused

\* The weekday runs from 0 to 7; both are Sunday.  A literal 7 is folded
\* before "/S" is expanded, the 7 of a range after.
parseDOWPart(p) ==
    LET lo == CASE p.kind = "star" -> 0
                [] p.kind = "value" /\ p.lo = 7 -> 0
                [] OTHER -> p.lo
        hi == IF p.kind = "value" /\ Step(p) = 1 THEN lo ELSE PartLast(p, 6)
    IN  IF /\ p.kind # "bad"
           /\ StepAccepted(p, 7)
           /\ 0 <= lo /\ hi <= 7 /\ lo <= hi
        THEN [ok |-> TRUE, bits |-> {IF v = 7 THEN 0 ELSE v : v \in Stepped(lo, hi, Step(p))}]
        ELSE Refused

ParsedPart(f, p) == IF f = "dow" THEN parseDOWPart(p) ELSE parsePart(p, Min[f], Max[f])

\* parseField and parseDOWField: every part must parse; their bits add up.
parseField(f, field) ==
    [ok |-> \A i \in DOMAIN field : ParsedPart(f, field[i]).ok,
     bits |-> UNION {ParsedPart(f, field[i]).bits : i \in DOMAIN field}]

\* Mutant of allSet: no detection of fields that are "*" in other words.
allSetNever(f, bits) == FALSE

allSet(f, bits) == bits = Values(f)

IsStar(field) == Len(field) = 1 /\ field[1].kind = "star" /\ ~field[1].slash

Star(f, field) == IsStar(field) \/ allSet(f, parseField(f, field).bits)

Rejected == [bits |-> << >>]

parseCron(e) ==
    IF \A f \in Field : parseField(f, e[f]).ok
    THEN [bits |-> [f \in Field |-> parseField(f, e[f]).bits],
          domStar |-> Star("dom", e["dom"]),
          dowStar |-> Star("dow", e["dow"])]
    ELSE Rejected

\* Mutant of Matches: either day field may match even when one is a star.
MatchesEitherDay(cs, t) ==
    /\ \A f \in {"minute", "hour", "month"} : t[f] \in cs.bits[f]
    /\ t["dom"] \in cs.bits["dom"] \/ t["dow"] \in cs.bits["dow"]

\* A schedule matches a time: either day field may match when both are
\* restricted, both must when one is a star.
Matches(cs, t) ==
    /\ \A f \in {"minute", "hour", "month"} : t[f] \in cs.bits[f]
    /\ LET domMatch == t["dom"] \in cs.bits["dom"]
           dowMatch == t["dow"] \in cs.bits["dow"]
       IN  IF cs.domStar \/ cs.dowStar THEN domMatch /\ dowMatch
           ELSE domMatch \/ dowMatch

-----------------------------------------------------------------------------
(* The clock *)

Time == {t \in [Field -> Nat] : /\ \A f \in Field : t[f] \in Values(f)
                                /\ t["dom"] <= DaysIn[t["month"]]}

\* The last value of a field before it starts over.
Last(t, f) == IF f = "dom" THEN DaysIn[t["month"]] ELSE Max[f]

\* The fields that start over in the minute after t, the others of the date
\* and time being carried into or left alone.
Order == <<"minute", "hour", "dom", "month">>
StartsOver(t, i) == \A k \in 1 .. i : t[Order[k]] = Last(t, Order[k])
Position(f) == CHOOSE i \in DOMAIN Order : Order[i] = f

NextMinute(t) ==
    [f \in Field |->
        IF f = "dow"
        THEN IF StartsOver(t, 2) THEN (t[f] + 1) % 7 ELSE t[f]
        ELSE LET i == Position(f)
             IN  IF StartsOver(t, i) THEN Min[f]
                 ELSE IF StartsOver(t, i - 1) THEN t[f] + 1 ELSE t[f]]

-----------------------------------------------------------------------------
(* The @-names *)

Shortcut == {"@yearly", "@annually", "@monthly", "@weekly", "@daily", "@midnight", "@hourly"}

AnyValue == <<[kind |-> "star", lo |-> 0, hi |-> 0, slash |-> FALSE, step |-> 0]>>
Only(n) == <<[kind |-> "value", lo |-> n, hi |-> 0, slash |-> FALSE, step |-> 0]>>

Fields(minute, hour, dom, month, dow) ==
    [f \in Field |-> CASE f = "minute" -> minute [] f = "hour" -> hour
                       [] f = "dom" -> dom [] f = "month" -> month [] OTHER -> dow]

predefined == [n \in Shortcut |->
    CASE n \in {"@yearly", "@annually"} -> Fields(Only(0), Only(0), Only(1), Only(1), AnyValue)
      [] n = "@monthly" -> Fields(Only(0), Only(0), Only(1), AnyValue, AnyValue)
      [] n = "@weekly" -> Fields(Only(0), Only(0), AnyValue, AnyValue, Only(0))
      [] n \in {"@daily", "@midnight"} -> Fields(Only(0), Only(0), AnyValue, AnyValue, AnyValue)
      [] OTHER -> Fields(Only(0), AnyValue, AnyValue, AnyValue, AnyValue)]

-----------------------------------------------------------------------------
VARIABLES
    text,   \* what is parsed: an @-name, or the fields of an expression
    sched,  \* the parsed schedule, Rejected, or << >> before parsing
    now     \* the minute tick is called with

vars == <<text, sched, now>>

\* An @-name stands for its expression.
Expand(x) == IF x.name \in Shortcut THEN predefined[x.name] ELSE x.fields

Text == [name : Shortcut, fields : {<< >>}]
          \cup [name : {""}, fields : Expressions]

Parsed == sched # << >> /\ sched # Rejected
Fires == Parsed /\ Matches(sched, now)

\* The bits of every field stay inside its slice: parsing cannot panic.  At
\* least one is set: no slip in the bounds of a part yields a job that is
\* accepted and silently never runs.
TypeOK ==
    /\ text \in Text
    /\ Parsed =>
          /\ sched.domStar \in BOOLEAN /\ sched.dowStar \in BOOLEAN
          /\ \A f \in Field : sched.bits[f] \in (SUBSET Values(f)) \ {{}}
    /\ now \in Time

Start == [f \in Field |-> IF f = "dow" THEN 0 ELSE Min[f]]

Init ==
    /\ text \in Text
    /\ sched = << >>
    /\ now = Start

\* RegisterJobs, Reschedule and ValidateCron parse an expression.
Parse ==
    /\ sched = << >>
    /\ sched' = parseCron(Expand(text))
    /\ UNCHANGED <<text, now>>

\* The clock moves on while the schedule is in use.
Tick ==
    /\ Parsed
    /\ now' = NextMinute(now)
    /\ UNCHANGED <<text, sched>>

Next == Parse \/ Tick
Spec == Init /\ [][Next]_vars

-----------------------------------------------------------------------------
(* What an expression denotes *)

\* A part names first, first + step, ... up to last, on a week that starts
\* and ends with Sunday for the weekday.
Greatest(f) == IF f = "dow" THEN 6 ELSE Max[f]
Least(f) == IF f = "dow" THEN 0 ELSE Min[f]
Fold(f, v) == IF f = "dow" THEN v % 7 ELSE v
Denoted(f, p) ==
    LET step == IF p.slash THEN p.step ELSE 1
        first == CASE p.kind = "star" -> Least(f)
                   [] p.kind = "value" -> Fold(f, p.lo)
                   [] OTHER -> p.lo
        last == CASE p.kind = "star" -> Greatest(f)
                  [] p.kind = "value" /\ p.slash -> Greatest(f)
                  [] p.kind = "value" /\ ~p.slash -> first
                  [] OTHER -> p.hi
    IN  {Fold(f, first + k * step) : k \in 0 .. (last - first) \div step}

DenotedField(f, field) == UNION {Denoted(f, field[i]) : i \in DOMAIN field}
Restricted(f, field) == DenotedField(f, field) # Values(f)

\* Standard cron on what the fields denote: a day matches when it is in a
\* restricted day field, in either if both are restricted.
DueAt(e, t) ==
    LET In(f) == t[f] \in DenotedField(f, e[f])
    IN  /\ In("minute") /\ In("hour") /\ In("month")
        /\ IF Restricted("dom", e["dom"]) /\ Restricted("dow", e["dow"])
           THEN In("dom") \/ In("dow")
           ELSE In("dom") /\ In("dow")

\* "N/1", on which the code and its comment differ, appears.
UnitStep(e) ==
    \E f \in Field : \E i \in DOMAIN e[f] :
        e[f][i].kind = "value" /\ e[f][i].slash /\ e[f][i].step = 1

-----------------------------------------------------------------------------
(* Properties *)

\* An accepted schedule fires in exactly the minutes standard cron gives the
\* expression, in whatever words its fields are written (SPEC.md:
\* "Star-equivalent expressions detected and handled with correct AND/OR
\* semantics per standard cron").
FiresWhenDue ==
    LET e == Expand(text)
    IN  Parsed /\ ~UnitStep(e) => (Fires <=> DueAt(e, now))

\* An @-name fires at the first minute of its period and at no other: @weekly
\* on Sundays, @daily every day, @monthly and @yearly on the first.
ShortcutsAreOnTime ==
    LET First(f) == now[f] = Min[f]
        midnight == First("minute") /\ First("hour")
    IN  Parsed =>
        /\ text.name = "@hourly" => (Fires <=> First("minute"))
        /\ text.name \in {"@daily", "@midnight"} => (Fires <=> midnight)
        /\ text.name = "@weekly" => (Fires <=> midnight /\ now["dow"] = 0)
        /\ text.name = "@monthly" => (Fires <=> midnight /\ First("dom"))
        /\ text.name \in {"@yearly", "@annually"} =>
              (Fires <=> midnight /\ First("dom") /\ First("month"))
=============================================================================
