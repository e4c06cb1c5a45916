------------------------------ MODULE Schedules ------------------------------
(***************************************************************************)
(* The fields of a structured schedule: what the validation of a YAML      *)
(* crontab accepts (crontab/verify.go, which also decides whether the file *)
(* is loaded) and what the cron parser accepts when the line is scheduled. *)
(* The parser works on the same text, cut at commas, slashes and hyphens.  *)
(* A definition introduced by "Slip" is a plausible mistake in the one     *)
(* after it, used by no behaviour.                                         *)
(*                                                                         *)
(* A field is a list (cut at commas) of items, each a list of terms (cut   *)
(* at hyphens) with the terms after its slashes.  A term is a tagged value *)
(* <<"num", n>>, <<"name", n>> (a day of the week), <<"star">>, <<"empty">> *)
(* or <<"names">> (names written together); an item may have blanks before *)
(* it and after it.  A blank elsewhere passes neither side.                *)
(***************************************************************************)
EXTENDS Integers, Sequences

Star == <<"star">>
Empty == <<"empty">>
IsNum(t) == t[1] = "num"
IsName(t) == t[1] = "name"

Item(terms, steps, left, right) ==
    [terms |-> terms, steps |-> steps, left |-> left, right |-> right]

Plain(term) == Item(<<term>>, <<>>, FALSE, FALSE)
AnyTime == <<Plain(Star)>>
LeftOut == <<Plain(Empty)>>

Padded(item) == item.left \/ item.right
Single(field) == Len(field) = 1
HasHyphen(item) == Len(item.terms) > 1

-----------------------------------------------------------------------------
(* The validation.                                                           *)

\* The bounds validateSchedFields gives each field.
Bounds ==
    [minute |-> <<0, 59>>, hour |-> <<0, 23>>, day |-> <<1, 31>>, month |-> <<1, 12>>,
     weekday |-> <<0, 7>>]

Within(n, bounds) == bounds[1] <= n /\ n <= bounds[2]

\* isWeekdayName: names, written together or joined by any number of hyphens.
IsWeekdayName(field) ==
    /\ Single(field) /\ ~Padded(field[1]) /\ field[1].steps = <<>>
    /\ field[1].terms[1] # Empty
    /\ \A i \in DOMAIN field[1].terms : field[1].terms[i][1] \in {"name", "names", "empty"}

ValidStep(steps) == Len(steps) = 1 /\ IsNum(steps[1]) /\ steps[1][2] > 0

\* Slip: the ends of a range are not compared.
ValidRangeAnyOrder(item, bounds) ==
    /\ Len(item.terms) = 2 /\ \A i \in 1 .. 2 : IsNum(item.terms[i]) /\ Within(item.terms[i][2], bounds)
    /\ item.steps = <<>> \/ ValidStep(item.steps)

ValidRange(item, bounds) ==
    /\ Len(item.terms) = 2 /\ \A i \in 1 .. 2 : IsNum(item.terms[i]) /\ Within(item.terms[i][2], bounds)
    /\ item.terms[1][2] <= item.terms[2][2]
    /\ item.steps = <<>> \/ ValidStep(item.steps)

ValidSingle(item, bounds) ==
    Len(item.terms) = 1 /\ item.steps = <<>> /\ IsNum(item.terms[1]) /\ Within(item.terms[1][2], bounds)

Stepped(item) == item.terms[1] = Star /\ Len(item.terms) = 1 /\ item.steps # <<>>

\* validateCronField: what begins with "*/" is a step, whatever follows; the
\* blanks around the items of a list are trimmed.
ValidField(field, bounds) ==
    IF Stepped(field[1]) /\ ~field[1].left
    THEN Single(field) /\ ~field[1].right /\ ValidStep(field[1].steps)
    ELSE IF Single(field)
         THEN ~Padded(field[1]) /\ (ValidRange(field[1], bounds) \/ ValidSingle(field[1], bounds))
         ELSE \A i \in DOMAIN field : ValidRange(field[i], bounds) \/ ValidSingle(field[i], bounds)

\* validateSchedFields; a field left out is scheduled as "*" (schedToSpec).
Validated(name, field) ==
    \/ field \in {AnyTime, LeftOut}
    \/ name = "weekday" /\ IsWeekdayName(field)
    \/ ValidField(field, Bounds[name])

\* schedToSpec
SpecOf(field) == IF field = LeftOut THEN AnyTime ELSE field

-----------------------------------------------------------------------------
(* The cron parser.                                                          *)

ParserBounds == [Bounds EXCEPT !.weekday = <<0, 6>>]

\* parseIntOrName: the names of this model are those of the days.
Parses(name, t) == IsNum(t) \/ (IsName(t) /\ name = "weekday")

\* getRange: "N/step" means "N-max/step", a star ignores what follows a hyphen.
AcceptsRange(name, item) ==
    LET bounds == ParserBounds[name]
        starts == item.terms[1] = Star
        low == IF starts THEN bounds[1] ELSE item.terms[1][2]
        high == CASE starts -> bounds[2]
                  [] ~starts /\ HasHyphen(item) -> item.terms[2][2]
                  [] ~starts /\ ~HasHyphen(item) /\ item.steps # <<>> -> bounds[2]
                  [] OTHER -> low
    IN  /\ ~starts => /\ Len(item.terms) <= 2
                      /\ \A i \in DOMAIN item.terms : Parses(name, item.terms[i])
        /\ Len(item.steps) <= 1
        /\ item.steps # <<>> => IsNum(item.steps[1]) /\ item.steps[1][2] > 0
        /\ bounds[1] <= low /\ low <= high /\ high <= bounds[2]

NoText(item) == item.terms = <<Empty>> /\ item.steps = <<>>

\* A blank between the items of a field makes it two, one at its ends is a
\* blank more between two fields.
BlankWithin(field) ==
    \E i \in DOMAIN field : \/ field[i].left /\ i # 1
                            \/ field[i].right /\ i # Len(field)

\* Parse cuts the line at its blanks; getField drops the empty items.
Accepts(name, field) ==
    /\ ~BlankWithin(field)
    /\ \A i \in DOMAIN field : NoText(field[i]) \/ AcceptsRange(name, field[i])
    /\ Single(field) => ~NoText(field[1])

-----------------------------------------------------------------------------
(* What the validation lets through and the parser does not.                 *)

\* A 7 for Sunday.
SundayAsSeven(name, field) ==
    name = "weekday" /\ \E i \in DOMAIN field :
        ~Stepped(field[i]) /\ \E h \in DOMAIN field[i].terms : field[i].terms[h] = <<"num", 7>>

\* A weekday that is not one name or a range of two in the order of the week.
OddNames(name, field) ==
    /\ name = "weekday" /\ IsWeekdayName(field)
    /\ LET terms == field[1].terms
       IN  ~ /\ Len(terms) <= 2 /\ \A i \in DOMAIN terms : IsName(terms[i])
             /\ terms[1][2] <= terms[Len(terms)][2]

\* A blank beside a comma.
BlankInList(field) == \E i \in 1 .. (Len(field) - 1) : field[i].right \/ field[i + 1].left

\* A field without a 7 for Sunday that passed the validation is accepted when
\* its line is loaded (a line that is not ends the load), except for two forms:
\* names other than one or an ascending range, and blanks beside a comma.
ValidatedLoads(name, field) ==
    Validated(name, field) /\ ~SundayAsSeven(name, field) =>
        (Accepts(name, SpecOf(field)) <=> ~(OddNames(name, field) \/ BlankInList(field)))

\* A field with a 7 for Sunday that passed the validation is accepted as well.
SevenLoads(name, field) ==
    Validated(name, field) /\ SundayAsSeven(name, field) /\ ~BlankInList(field)
        => Accepts(name, SpecOf(field))
=============================================================================
