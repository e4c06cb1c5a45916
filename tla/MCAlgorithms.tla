----------------------------- MODULE MCAlgorithms -----------------------------
(***************************************************************************)
(* TLC draws the inputs of the pure algorithms (the fields of a schedule,  *)
(* the hour of a run, the jobs of a list) and opens databases of every     *)
(* version with interruptions.  A drawn input is the end of a behaviour.   *)
(***************************************************************************)
EXTENDS Schedules, BusinessDays, JobList, Upgrade

CONSTANTS j1, j2

MCJobs == {j1, j2}

VARIABLE input
vars == <<input, upgradeVars>>

Nothing == [part |-> "nothing"]

-----------------------------------------------------------------------------
(* Fields: every item of up to three terms, and every list of two short      *)
(* items, with and without blanks before and after each.                     *)

Days == {<<"name", d>> : d \in {0, 1, 6}}
Numbers(name) ==
    {<<"num", n>> : n \in {Bounds[name][1] - 1, Bounds[name][1], 5, 6, Bounds[name][2], Bounds[name][2] + 1} \cap Nat}
Terms(name) == {Star, Empty, <<"names">>} \cup Days \cup Numbers(name)
ShortTerms(name) == {Star, Empty, <<"name", 1>>, <<"num", 5>>, <<"num", 7>>}
Steps == {<<>>, <<<<"num", 0>>>>, <<<<"num", 2>>>>, <<Empty>>, <<<<"num", 2>>, <<"num", 2>>>>}
Upto(n, S) == UNION {[1 .. k -> S] : k \in 1 .. n}

SingleFields(name) == {<<Item(terms, steps, left, right)>> :
    terms \in Upto(3, Terms(name)), steps \in Steps, left \in BOOLEAN, right \in BOOLEAN}
ShortItems(name) == {Item(terms, steps, left, right) :
    terms \in Upto(2, ShortTerms(name)), steps \in {<<>>, <<<<"num", 2>>>>},
    left \in BOOLEAN, right \in BOOLEAN}

DrawField ==
    \E name \in DOMAIN Bounds :
        \E field \in SingleFields(name) \cup [1 .. 2 -> ShortItems(name)] :
            input' = [part |-> "field", name |-> name, field |-> field]

-----------------------------------------------------------------------------
\* Two weeks, so that each day has a weekend behind it, and every threshold.
DrawHour ==
    \E day \in 7 .. 20, hour \in 0 .. 23, eodHour \in 0 .. 24 :
        input' = [part |-> "hour", day |-> day, hour |-> hour, eodHour |-> eodHour]

\* The status of a running job is "running".
JobStates(i) == {job \in [index : {i}, enabled : BOOLEAN, running : BOOLEAN, match : BOOLEAN,
                          status : {"idle", "running", "success", "failed"}] :
                   job.running => job.status = "running"}

DrawTabs ==
    \E a \in JobStates(1), b \in JobStates(2), c \in JobStates(3) :
        input' = [part |-> "tabs", jobs |-> {a, b, c}]

Runs(i) == [index : {i}, lastRun : 0 .. 2, nextRun : 0 .. 2]

DrawOrder ==
    \E a \in Runs(1), b \in Runs(2), c \in Runs(3) :
        input' = [part |-> "order", jobs |-> {a, b, c}]

-----------------------------------------------------------------------------
Init == input = Nothing /\ InitUpgrade

Draw ==
    /\ input = Nothing /\ step = <<"closed">> /\ tables = {}
    /\ DrawField \/ DrawHour \/ DrawTabs \/ DrawOrder
    /\ UNCHANGED upgradeVars

Next == Draw \/ (input = Nothing /\ NextUpgrade /\ UNCHANGED input)

Spec == Init /\ [][Next]_vars

-----------------------------------------------------------------------------
\* A field of a YAML schedule that passed the validation is accepted when the
\* crontab is loaded, but for a 7 for Sunday and the forms ValidatedLoads names.
FieldsLoad == input.part = "field" => ValidatedLoads(input.name, input.field)

\* YYYYMMDDEOD names the last business day that is over.
EodIsLast == input.part = "hour" => EodBoundary(input.day, input.hour, input.eodHour)

\* The numbers of the dashboard and the JSON answer fit the lists they stand
\* for.
ListsAgree == input.part = "tabs" => TabsAgree(input.jobs)

\* Each way to sort a list gives one order.
OrdersAreOne == input.part = "order" => OneOrder(input.jobs)

-----------------------------------------------------------------------------
\* What a description says and the code does not do, crontab.go:39: "Weekday
\* field (0-7 where 0 and 7 are Sunday)".  A weekday with a 7 that passed the
\* validation is accepted when the crontab is loaded.
SundayLoads == input.part = "field" => SevenLoads(input.name, input.field)
=============================================================================
