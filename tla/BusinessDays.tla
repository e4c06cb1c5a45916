---------------------------- MODULE BusinessDays ----------------------------
(***************************************************************************)
(* The dates a command template may name (service/day.go).  Days are       *)
(* numbered; day d is the weekday d % 7, and Saturday and Sunday, the last *)
(* two, are skipped.                                                       *)
(* A definition introduced by "Slip" is a plausible mistake in the one     *)
(* after it, used by no behaviour.                                         *)
(***************************************************************************)
EXTENDS Integers

IsBusinessDay(d) == d % 7 \notin {5, 6}

\* weekdayBackward: d, or the last business day before it.
weekdayBackward[d \in Int] == IF IsBusinessDay(d) THEN d ELSE weekdayBackward[d - 1]

\* Slip: the day of the threshold is looked for before the step back.
EodDayLate(day, hour, eodHour) ==
    IF hour < eodHour THEN weekdayBackward[day] - 1 ELSE weekdayBackward[day]

\* YYYYMMDDEOD: before the end of the day it is the previous business day.
EodDay(day, hour, eodHour) ==
    IF hour < eodHour THEN weekdayBackward[day - 1] ELSE weekdayBackward[day]

\* WYYYYMMDD: the current business day.
WDay(day) == weekdayBackward[day]

\* What is named is the last business day whose end has passed: it is over,
\* and no later one is.
EodBoundary(day, hour, eodHour) ==
    LET eod == EodDay(day, hour, eodHour)
        over(d) == 24 * d + eodHour <= 24 * day + hour
    IN  /\ IsBusinessDay(eod) /\ over(eod) /\ eod <= WDay(day)
        /\ \A d \in (eod + 1) .. day : ~(IsBusinessDay(d) /\ over(d))
=============================================================================
