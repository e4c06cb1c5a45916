----------------------------- MODULE MCScheduler -----------------------------
(***************************************************************************)
(* Small crontabs and slots on which TLC checks Scheduler.                 *)
(***************************************************************************)
EXTENDS Scheduler, TLC

CONSTANTS r1, r2

MCRuns == {r1, r2}
Symmetry == Permutations(MCRuns)

\* "backup" has a date template, "bad" does not parse.
MCTexts == {"backup", "bad"}

Line(c, s, m) == [command |-> c, spec |-> s, conditions |-> m]

\* the same command on two schedules, with conditions that skip a run and ones
\* that postpone it
TwoLines == <<Line("backup", "daily", "skip"), Line("backup", "hourly", "postpone")>>
\* one line, without conditions and with ones that postpone its runs
OneLine == <<Line("backup", "daily", "none")>>
WaitLine == <<Line("backup", "daily", "postpone")>>
=============================================================================
