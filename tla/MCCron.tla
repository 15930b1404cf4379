-------------------------------- MODULE MCCron --------------------------------
(* Small instances of Cron for TLC. *)
EXTENDS Cron, TLC

Star0 == [kind |-> "star", lo |-> 0, hi |-> 0, slash |-> FALSE, step |-> 0]
Bad == [Star0 EXCEPT !.kind = "bad"]
Val(n) == [Star0 EXCEPT !.kind = "value", !.lo = n]
Rng(n, m) == [Star0 EXCEPT !.kind = "range", !.lo = n, !.hi = m]
By(p, s) == [p EXCEPT !.slash = TRUE, !.step = s]

\* Two minutes an hour, two hours a day, two months of 3 and 2 days.
mcMax == [f \in PlainField |-> IF f = "dom" THEN 3 ELSE IF f = "month" THEN 2 ELSE 1]
mcDaysIn == <<3, 2>>

\* Every part with bounds up to one above the greatest value, with no step and
\* with steps of 0 to one above the size of the field.
Parts(top, steps) ==
    LET plain == {Star0, Bad} \cup {Val(n) : n \in 0 .. top}
                   \cup {Rng(n, m) : n \in 0 .. top, m \in 0 .. top}
    IN  plain \cup {By(p, s) : p \in plain, s \in steps}

Every == <<Star0>>
Expr(minute, dom, month, dow) ==
    [f \in Field |-> CASE f = "minute" -> minute [] f = "dom" -> dom
                       [] f = "month" -> month [] f = "dow" -> dow [] OTHER -> <<Val(0)>>]

DomWords == {Every, <<By(Star0, 1)>>, <<Rng(1, 3)>>, <<Val(2)>>, <<Val(1), Val(3)>>}
DowWords == {Every, <<Rng(0, 6)>>, <<Rng(1, 7)>>, <<Val(7)>>, <<By(Val(7), 2)>>,
             <<Val(1), By(Rng(5, 7), 2)>>, <<Val(1), Bad>>}

mcExpressions ==
    {Expr(<<Val(0)>>, dom, Every, <<p>>) : dom \in DomWords, p \in Parts(8, {0, 1, 2, 3, 7, 8})}
    \cup {Expr(<<Val(0)>>, <<p>>, Every, dow) : p \in Parts(4, {0, 1, 2, 3, 4}), dow \in DowWords}
    \cup {Expr(<<p>>, <<Val(1)>>, <<q>>, Every) : p \in Parts(2, {1, 2}), q \in {Star0, Val(2), Val(3)}}

=============================================================================
