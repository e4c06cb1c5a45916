------------------------------- MODULE JobList -------------------------------
(***************************************************************************)
(* The list of jobs on the dashboard and in the JSON answer (web/jobs.go,  *)
(* web/handlers.go, web/api.go, templates/partials/jobs.html): counted,    *)
(* searched, filtered and sorted from a copy of the job table.             *)
(* A definition introduced by "Slip" is a plausible mistake in the one     *)
(* after it, used by no behaviour.                                         *)
(*                                                                         *)
(* A job is a record: enabled, running, status, lastRun, nextRun (0 for    *)
(* none), index (its place in the crontab) and match (whether the words    *)
(* searched for occur in its name or command).                             *)
(***************************************************************************)
EXTENDS Integers, FiniteSets, SequencesExt

FilterModes == {"all", "failed", "running", "success", "idle", "disabled"}
SortModes == {"default", "lastrun", "nextrun"}

-----------------------------------------------------------------------------
(* Sorting.                                                                  *)

ByIndex(a, b) == a.index < b.index

\* Slip: only the first of two jobs is asked whether it ever ran.
ByLastRunHalf(a, b) ==
    \/ a.lastRun # 0 /\ (a.lastRun > b.lastRun \/ (a.lastRun = b.lastRun /\ ByIndex(a, b)))
    \/ a.lastRun = 0 /\ ByIndex(a, b)

\* The latest first, and the jobs that never ran at the end.
ByLastRun(a, b) ==
    \/ a.lastRun # 0 /\ b.lastRun = 0
    \/ a.lastRun # 0 /\ b.lastRun # 0 /\ a.lastRun > b.lastRun
    \/ a.lastRun = b.lastRun /\ ByIndex(a, b)

\* The soonest first, and the jobs that will not run at the end.
ByNextRun(a, b) ==
    \/ a.nextRun # 0 /\ b.nextRun = 0
    \/ a.nextRun # 0 /\ b.nextRun # 0 /\ a.nextRun < b.nextRun
    \/ a.nextRun = b.nextRun /\ ByIndex(a, b)

\* sortJobs
Before(mode, a, b) ==
    CASE mode = "lastrun" -> ByLastRun(a, b)
      [] mode = "nextrun" -> ByNextRun(a, b)
      [] mode = "default" -> ByIndex(a, b)

\* The lists sort.Slice may return for the jobs, which it is given in the
\* random order of a map.
Sorted(mode, jobs) ==
    {s \in SetToSeqs(jobs) : \A h \in DOMAIN s : \A i \in 1 .. (h - 1) : ~Before(mode, s[h], s[i])}

-----------------------------------------------------------------------------
(* Filtering and counting.                                                   *)

\* Slip: a disabled job is listed with its last result.
MatchesDisabledToo(mode, job) ==
    CASE mode = "all" -> TRUE
      [] mode = "disabled" -> ~job.enabled
      [] mode = "running" -> job.running
      [] OTHER -> job.status = mode

\* filterJobs: a disabled job is under "all" and "disabled" only.
Matches(mode, job) ==
    CASE mode = "all" -> TRUE
      [] mode = "disabled" -> ~job.enabled
      [] mode = "running" -> job.enabled /\ job.running
      [] OTHER -> job.enabled /\ job.status = mode

filterJobs(jobs, mode) == {job \in jobs : Matches(mode, job)}
searchJobs(jobs, searched) == {job \in jobs : searched => job.match}

\* The counts getJobsWithStats adds a job to; jobs.html writes them on the tabs.
CountedIn(job) ==
    {"all"} \cup (IF ~job.enabled THEN {"disabled"}
                ELSE (IF job.running THEN {"running"} ELSE {})
                     \cup ({job.status} \cap {"success", "failed", "idle"}))
TabCount(jobs, mode) == Cardinality({job \in jobs : mode \in CountedIn(job)})

\* getJobsWithStats: the rows, the jobs the search hides when there are no
\* rows, and the failing jobs of the alert.
Shown(jobs, mode, searched) == filterJobs(searchJobs(jobs, searched), mode)
HiddenBySearch(jobs, mode, searched) ==
    IF Shown(jobs, mode, searched) = {} /\ searched THEN Cardinality(filterJobs(jobs, mode)) ELSE 0
Failing(jobs) == {job \in jobs : job.enabled /\ job.status = "failed"}

\* handleAPIStatus counts disabled jobs as well.
APICount(jobs, status) ==
    Cardinality({job \in jobs : IF status = "running" THEN job.running ELSE job.status = status})

\* job-state: the word at a row, by the tab it suggests.
State(job) ==
    CASE ~job.enabled -> "disabled"
      [] job.enabled /\ job.running -> "running"
      [] job.enabled /\ ~job.running /\ job.status \in {"success", "failed"} -> job.status
      [] OTHER -> "idle"

\* A job whose run was cut off by the end of an earlier process.
Interrupted(job) == job.status = "running" /\ ~job.running

-----------------------------------------------------------------------------
\* Each way to sort gives one order, so that two polls of the same jobs show
\* the same rows in the same places.
OneOrder(jobs) == \A mode \in SortModes : Cardinality(Sorted(mode, jobs)) = 1

\* The number on a tab is that of the rows a click on it shows; a search that
\* shows nothing tells how many rows its end brings back; the alert counts the
\* rows of the tab "failed"; the JSON answer has the counts of the tabs and the
\* disabled jobs; and a job is found under the tab its row suggests, except an
\* interrupted one, which is under none though its row says "Never ran".
TabsAgree(jobs) ==
    /\ \A mode \in FilterModes :
         /\ TabCount(jobs, mode) = Cardinality(Shown(jobs, mode, FALSE))
         /\ Shown(jobs, mode, TRUE) = {} =>
              HiddenBySearch(jobs, mode, TRUE) = Cardinality(Shown(jobs, mode, FALSE))
    /\ Cardinality(Failing(jobs)) = TabCount(jobs, "failed")
    /\ \A status \in {"running", "success", "failed", "idle"} :
         APICount(jobs, status) - TabCount(jobs, status) = APICount({j \in jobs : ~j.enabled}, status)
    /\ \A job \in jobs :
         IF job.enabled /\ Interrupted(job) THEN CountedIn(job) = {"all"} /\ State(job) = "idle"
         ELSE job \in Shown(jobs, State(job), FALSE)
=============================================================================
