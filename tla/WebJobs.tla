------------------------------- MODULE WebJobs -------------------------------
(***************************************************************************)
(* The dashboard's view of the jobs (app/web): the job table kept in step  *)
(* with the crontab, the events of the scheduler, the runs in progress,    *)
(* the execution history and the database, with the handlers that switch   *)
(* a job, poll a live output and open the inspector.                       *)
(* Every goroutine takes jobsMu for one step only, so what it read in an   *)
(* earlier step may be stale: the event processor, the crontab sync and    *)
(* each handler have a place in pc, and their steps interleave.            *)
(* A definition introduced by "Slip" is a plausible mistake in the one     *)
(* after it, used by no behaviour.                                         *)
(*                                                                         *)
(* A run is named by its start time, so the runs of one process are        *)
(* numbered in the order they start.                                       *)
(***************************************************************************)
EXTENDS Integers, FiniteSets, Sequences

CONSTANTS
    Jobs,             \* commands: a job is identified by the hash of its command
    Crontabs,         \* the contents the crontab may have: the sets of jobs
                      \* whose schedule can be parsed
    Users,            \* handlers that switch jobs
    Clients,          \* browsers that poll a live output or open the inspector
    MaxRuns,          \* runs of a behaviour (bound)
    EventCap,         \* capacity of eventChan
    HistoryLimit,     \* executions kept per job, 0 for all of them
    StoreFaults       \* whether a database operation may fail

RunIds == 1 .. MaxRuns

ASSUME WebAssumption ==
    /\ Jobs # {} /\ Crontabs \subseteq SUBSET Jobs /\ Crontabs # {}
    /\ {MaxRuns, EventCap, HistoryLimit} \subseteq Nat
    /\ StoreFaults \in BOOLEAN
    /\ {"sync", "events"} \cap (Users \cup Clients) = {} /\ Users \cap Clients = {}

Actors == {"sync", "events"} \cup Users \cup Clients

VARIABLES
    proc,      \* the process: "down", "up" or "stopping" (context cancelled)
    crontab,   \* the content of the crontab file
    jobOf,     \* the job of each run
    phase,     \* where the scheduler is with each run
    events,    \* eventChan
    jobs,      \* the job table: Server.jobs
    active,    \* the tracked runs of each job: Server.active
    stored,    \* the rows of the jobs table of the database
    recorded,  \* the rows of the executions table, by run: the status
    pc,        \* where each goroutine is
    local      \* its locals

storeVars == <<stored, recorded>>
vars == <<proc, crontab, jobOf, phase, events, jobs, active,
          stored, recorded, pc, local>>

Statuses == {"idle", "running", "success", "failed"}
Outcomes == {"success", "failed"}

\* NoJob stands for a key that is not in a table.
NoJob == [enabled |-> TRUE, running |-> FALSE, status |-> "none", lastRun |-> 0]
NewJob == [NoJob EXCEPT !.status = "idle"]
Listed(table) == {j \in Jobs : table[j] # NoJob}
Empty == [j \in Jobs |-> NoJob]

InProgress(n) == phase[n] \in {"begun", "executing"}

\* The executions of a job.
Rows(j) == {n \in RunIds : jobOf[n] = j /\ recorded[n] # "none"}

Labels == {"wait", "apply", "record", "cleanup", "snapshot", "save", "stopped",
           "watching", "lookup", "found", "gone", "history", "shown"}

\* job, run and event are what the goroutine works on, table the specs read
\* from the crontab or the rows to save, seen what a client is shown; known is
\* a history variable: the runs a client could know of when its request came.
NoLocal == [job |-> CHOOSE j \in Jobs : TRUE, run |-> 0, event |-> "none",
            table |-> Empty, seen |-> {}, known |-> {}]

Goto(a, label) == pc' = [pc EXCEPT ![a] = label]
Done(a) == Goto(a, "wait") /\ local' = [local EXCEPT ![a] = NoLocal]

Serving == proc # "down"

Init ==
    /\ proc = "down"
    /\ crontab \in Crontabs
    /\ jobOf \in [RunIds -> Jobs]
    /\ phase = [n \in RunIds |-> "none"]
    /\ events = <<>>
    /\ jobs = Empty /\ stored = Empty
    /\ active = [j \in Jobs |-> {}]
    /\ recorded = [n \in RunIds |-> "none"]
    /\ pc = [a \in Actors |-> "stopped"]
    /\ local = [a \in Actors |-> NoLocal]

-----------------------------------------------------------------------------
(* The process and the crontab.                                              *)

\* Server.Run: the table comes from the database, nothing is running in it.
Boot ==
    /\ proc = "down"
    /\ proc' = "up"
    /\ \/ jobs' = stored
       \/ StoreFaults /\ jobs' = Empty
    /\ pc' = [a \in Actors |-> "wait"]
    /\ UNCHANGED <<crontab, jobOf, phase, events, active, storeVars, local>>

Terminate ==
    /\ proc = "up"
    /\ proc' = "stopping"
    /\ UNCHANGED <<crontab, jobOf, phase, events, jobs, active, storeVars, pc, local>>

\* The process exits or is killed: the database is what is left.
Die ==
    /\ Serving
    /\ proc' = "down"
    /\ phase' = [n \in RunIds |-> IF InProgress(n) THEN "killed" ELSE phase[n]]
    /\ events' = <<>>
    /\ jobs' = Empty /\ active' = [j \in Jobs |-> {}]
    /\ pc' = [a \in Actors |-> "stopped"]
    /\ local' = [a \in Actors |-> NoLocal]
    /\ UNCHANGED <<crontab, jobOf, storeVars>>

EditCrontab(c) ==
    /\ crontab' = c
    /\ UNCHANGED <<proc, jobOf, phase, events, jobs, active, storeVars, pc, local>>

-----------------------------------------------------------------------------
(* The scheduler's side: a run begins, is announced, and ends.               *)

\* The start time of a run is taken before its event is sent.
NextRun(n) == phase[n] = "none" /\ \A k \in 1 .. (n - 1) : phase[k] # "none"

BeginRun(n) ==
    /\ Serving /\ NextRun(n)
    /\ phase' = [phase EXCEPT ![n] = "begun"]
    /\ UNCHANGED <<proc, crontab, jobOf, events, jobs, active, storeVars, pc, local>>

\* Slip: the channel is full when one place is left.
EventsFullEarly == Len(events) >= EventCap - 1

EventsFull == Len(events) >= EventCap

\* The send does not wait: the event is dropped when the channel is full.
Send(event, n) ==
    events' = IF EventsFull THEN events ELSE Append(events, [event |-> event, run |-> n])

OnJobStart(n) ==
    /\ phase[n] = "begun"
    /\ phase' = [phase EXCEPT ![n] = "executing"]
    /\ Send("started", n)
    /\ UNCHANGED <<proc, crontab, jobOf, jobs, active, storeVars, pc, local>>

OnJobComplete(n, outcome) ==
    /\ phase[n] = "executing"
    /\ phase' = [phase EXCEPT ![n] = outcome]
    /\ Send(outcome, n)
    /\ UNCHANGED <<proc, crontab, jobOf, jobs, active, storeVars, pc, local>>

-----------------------------------------------------------------------------
(* persistJobs: the rows are copied under the lock and saved after it.       *)

\* Slip: the flag of a running job is saved with its row.
RowsAsTheyAre == jobs

RowsToSave ==
    [j \in Jobs |-> [jobs[j] EXCEPT !.running = FALSE,
                                    !.status = IF jobs[j].running THEN "running" ELSE @]]

Snapshot(a) ==
    /\ pc[a] = "snapshot"
    /\ local' = [local EXCEPT ![a].table = RowsToSave]
    /\ Goto(a, "save")
    /\ UNCHANGED <<proc, crontab, jobOf, phase, events, jobs, active, storeVars>>

\* Slip: a row is inserted and never replaced.
RowNewOnly(old, new) == IF old = NoJob THEN new ELSE old

\* The row of a job after a save: the new one, or the old one of a job that
\* is not saved.
Row(old, new) == IF new # NoJob THEN new ELSE old

\* SaveJobs saves the rows it is given in one transaction and deletes none.
Save(a) ==
    /\ pc[a] = "save"
    /\ \/ stored' = [j \in Jobs |-> Row(stored[j], local[a].table[j])]
       \/ StoreFaults /\ UNCHANGED stored
    /\ Done(a)
    /\ UNCHANGED <<proc, crontab, jobOf, phase, events, jobs, active, recorded>>

-----------------------------------------------------------------------------
(* syncJobs                                                                  *)

\* A listing that fails changes nothing.
SyncList ==
    /\ pc["sync"] = "wait"
    /\ local' = [local EXCEPT !["sync"].table =
                   [j \in Jobs |-> IF j \in crontab THEN NewJob ELSE NoJob]]
    /\ Goto("sync", "apply")
    /\ UNCHANGED <<proc, crontab, jobOf, phase, events, jobs, active, storeVars>>

\* Slip: a listed job is made anew.
MergedAnew(specs) == specs

\* Slip: a job that is not listed any more stays.
MergedKeeping(specs) == [j \in Jobs |-> IF jobs[j] # NoJob THEN jobs[j] ELSE specs[j]]

\* A job of the crontab keeps its entry or gets a new one, another is removed,
\* and so is a listed one whose schedule is not parsed: the loop passes over it.
Merged(specs) ==
    [j \in Jobs |-> IF specs[j] = NoJob \/ jobs[j] = NoJob THEN specs[j] ELSE jobs[j]]

SyncApply ==
    /\ pc["sync"] = "apply"
    /\ jobs' = Merged(local["sync"].table)
    /\ Goto("sync", "snapshot")
    /\ UNCHANGED <<proc, crontab, jobOf, phase, events, active, storeVars, local>>

\* The loops of syncJobs and processEvents return when the context is done.
StopLoop(a) ==
    /\ proc = "stopping" /\ a \in {"sync", "events"} /\ pc[a] = "wait"
    /\ Goto(a, "stopped")
    /\ UNCHANGED <<proc, crontab, jobOf, phase, events, jobs, active, storeVars, local>>

-----------------------------------------------------------------------------
(* processEvents                                                             *)

Event == local["events"].event
Run == local["events"].run

\* Slip: the run leaves the active set before it is recorded.
NextStepEarly == [wait |-> "apply", apply |-> "record", record |-> "cleanup", cleanup |-> "snapshot"]

\* The order of the steps for a completed run.
NextStep == [wait |-> "record", record |-> "cleanup", cleanup |-> "apply", apply |-> "snapshot"]

Receive ==
    /\ pc["events"] = "wait" /\ events # <<>>
    /\ LET e == Head(events)
       IN  /\ local' = [local EXCEPT !["events"].event = e.event, !["events"].run = e.run]
           /\ Goto("events", IF e.event = "started" THEN "apply" ELSE NextStep.wait)
    /\ events' = Tail(events)
    /\ UNCHANGED <<proc, crontab, jobOf, phase, jobs, active, storeVars>>

Record ==
    /\ pc["events"] = "record"
    /\ \/ recorded' = [recorded EXCEPT ![Run] = Event]
       \/ StoreFaults /\ UNCHANGED recorded
    /\ Goto("events", NextStep.record)
    /\ UNCHANGED <<proc, crontab, jobOf, phase, events, jobs, active, stored, local>>

\* The executions of a job that started last.
Kept(j) ==
    {n \in Rows(j) : HistoryLimit = 0 \/ Cardinality({k \in Rows(j) : k > n}) < HistoryLimit}

Cleanup ==
    /\ pc["events"] = "cleanup"
    /\ \/ recorded' = [n \in RunIds |->
                         IF n \in Rows(jobOf[Run]) \ Kept(jobOf[Run]) THEN "none" ELSE recorded[n]]
       \/ StoreFaults /\ UNCHANGED recorded
    /\ Goto("events", NextStep.cleanup)
    /\ UNCHANGED <<proc, crontab, jobOf, phase, events, jobs, active, stored, local>>

\* Slip: the start of the run is taken whatever is known already.
LastRunAlways(job, n) == n

LastRun(job, n) == IF n > job.lastRun THEN n ELSE job.lastRun

\* The entry of a job that is not in the table is made again.
Entry(j) == IF jobs[j] = NoJob THEN NewJob ELSE jobs[j]

Started(j, n) ==
    /\ active' = [active EXCEPT ![j] = @ \cup {n}]
    /\ jobs' = [jobs EXCEPT ![j] = [Entry(j) EXCEPT !.running = TRUE, !.status = "running",
                                                    !.lastRun = LastRun(Entry(j), n)]]

\* Slip: the job stops running when one of its runs does.
StillRunningNever(j, n) == FALSE

StillRunning(j, n) == active[j] # {n} /\ active[j] # {}

Finished(j, n, outcome) ==
    /\ active' = [active EXCEPT ![j] = @ \ {n}]
    /\ jobs' = [jobs EXCEPT ![j] =
                  [Entry(j) EXCEPT !.running = StillRunning(j, n),
                                   !.status = IF StillRunning(j, n) THEN "running" ELSE outcome]]

ApplyEvent ==
    LET j == jobOf[Run]
    IN  /\ pc["events"] = "apply"
        /\ \/ Event = "started" /\ Started(j, Run) /\ Done("events")
           \/ /\ Event # "started" /\ Finished(j, Run, Event)
              /\ Goto("events", NextStep.apply) /\ UNCHANGED local
        /\ UNCHANGED <<proc, crontab, jobOf, phase, events, storeVars>>

-----------------------------------------------------------------------------
(* HTTP handlers.                                                            *)

\* handleToggleJob
Toggle(u, j) ==
    /\ pc[u] = "wait" /\ jobs[j] # NoJob
    /\ jobs' = [jobs EXCEPT ![j].enabled = ~@]
    /\ Goto(u, "snapshot")
    /\ UNCHANGED <<proc, crontab, jobOf, phase, events, active, storeVars, local>>

\* handleLiveOutput: the browser shows a run in progress and polls for it.
Watch(c, n) ==
    /\ pc[c] = "wait" /\ n \in active[jobOf[n]] /\ jobs[jobOf[n]] # NoJob
    /\ local' = [local EXCEPT ![c].run = n, ![c].job = jobOf[n]]
    /\ Goto(c, "watching")
    /\ UNCHANGED <<proc, crontab, jobOf, phase, events, jobs, active, storeVars>>

\* A poll finds the job gone, or the run not in progress any more.
Poll(c) ==
    /\ pc[c] = "watching"
    /\ \/ jobs[local[c].job] = NoJob /\ Done(c)
       \/ /\ jobs[local[c].job] # NoJob /\ local[c].run \notin active[local[c].job]
          /\ Goto(c, "lookup") /\ UNCHANGED local
    /\ UNCHANGED <<proc, crontab, jobOf, phase, events, jobs, active, storeVars>>

Lookup(c) ==
    /\ pc[c] = "lookup"
    /\ Goto(c, IF recorded[local[c].run] # "none" THEN "found" ELSE "gone")
    /\ UNCHANGED <<proc, crontab, jobOf, phase, events, jobs, active, storeVars, local>>

\* Slip: the history is read before the runs in progress.
ViewHistoryFirst(step, j) == IF step = 1 THEN Rows(j) ELSE active[j]

\* What each of the two reads of handleInspector finds.  It lists 50
\* executions, more than a behaviour records (bound).
View(step, j) == IF step = 1 THEN active[j] ELSE Rows(j)

Inspect(c, j) ==
    /\ pc[c] = "wait" /\ jobs[j] # NoJob
    /\ local' = [local EXCEPT ![c].job = j, ![c].seen = View(1, j),
                              ![c].known = active[j] \cup Rows(j)]
    /\ Goto(c, "history")
    /\ UNCHANGED <<proc, crontab, jobOf, phase, events, jobs, active, storeVars>>

InspectHistory(c) ==
    /\ pc[c] = "history"
    /\ local' = [local EXCEPT ![c].seen = @ \cup View(2, local[c].job)]
    /\ Goto(c, "shown")
    /\ UNCHANGED <<proc, crontab, jobOf, phase, events, jobs, active, storeVars>>

Close(c) ==
    /\ pc[c] \in {"found", "gone", "shown"}
    /\ Done(c)
    /\ UNCHANGED <<proc, crontab, jobOf, phase, events, jobs, active, storeVars>>

-----------------------------------------------------------------------------
Persist(a) == Snapshot(a) \/ Save(a)
SyncStep == SyncList \/ SyncApply \/ Persist("sync")
EventsStep == Receive \/ Record \/ Cleanup \/ ApplyEvent \/ Persist("events")
ClientStep(c) == Poll(c) \/ Lookup(c) \/ InspectHistory(c) \/ Close(c)
ClientAction(c) == (\E n \in RunIds : Watch(c, n)) \/ (\E j \in Jobs : Inspect(c, j))

Ends(n) == \E outcome \in Outcomes : OnJobComplete(n, outcome)
Scheduled(n) == BeginRun(n) \/ OnJobStart(n) \/ Ends(n)

Next ==
    \/ Boot \/ Terminate \/ Die
    \/ \E c \in Crontabs : EditCrontab(c)
    \/ \E n \in RunIds : Scheduled(n)
    \/ SyncStep \/ EventsStep
    \/ \E a \in {"sync", "events"} : StopLoop(a)
    \/ \E u \in Users : Persist(u) \/ \E j \in Jobs : Toggle(u, j)
    \/ \E c \in Clients : ClientAction(c) \/ ClientStep(c)

Spec == Init /\ [][Next]_vars

\* The two loops go on (the ticker of syncJobs ticks), and commands end.
FairSpec ==
    Spec /\ WF_vars(SyncStep) /\ WF_vars(EventsStep) /\ \A n \in RunIds : WF_vars(Ends(n))

-----------------------------------------------------------------------------
(* What the dashboard promises.                                              *)

JobInfo == [enabled : BOOLEAN, running : BOOLEAN, status : Statuses \cup {"none"}, lastRun : 0 .. MaxRuns]
Table == [Jobs -> JobInfo]
Sent == [event : {"started"} \cup Outcomes, run : RunIds]
Locals == [job : Jobs, run : 0 .. MaxRuns, event : {"none", "started"} \cup Outcomes,
           table : Table, seen : SUBSET RunIds, known : SUBSET RunIds]

\* Every variable has its type, a run is tracked under its own job, no saved
\* row is of a running job and the event channel respects its capacity.
TypeOK ==
    /\ proc \in {"down", "up", "stopping"} /\ crontab \in Crontabs
    /\ jobOf \in [RunIds -> Jobs]
    /\ phase \in [RunIds -> {"none", "begun", "executing", "killed"} \cup Outcomes]
    /\ events \in Seq(Sent) /\ Len(events) <= EventCap
    /\ jobs \in Table /\ stored \in Table /\ \A j \in Jobs : ~stored[j].running
    /\ active \in [Jobs -> SUBSET RunIds]
    /\ \A j \in Jobs : \A n \in active[j] : jobOf[n] = j
    /\ recorded \in [RunIds -> {"none"} \cup Outcomes]
    /\ pc \in [Actors -> Labels] /\ local \in [Actors -> Locals]

\* A job said to be running has a run in progress (handleJobEvent counts the
\* runs of a job), in this process: what an earlier one left running is not.
RunningIsActive == \A j \in Jobs : jobs[j].running => active[j] # {}

\* A job that stays in the crontab is said to be running exactly as long as one
\* of its runs is tracked, however many overlap.
RunningIffActive ==
    \A j \in Jobs :
        (\A c \in Crontabs : j \in c) => (jobs[j].running <=> active[j] # {})

\* A tracked run is executing, or its completion is on its way: no run is
\* shown as running for ever (unless its completion was dropped).
ActiveAccounted ==
    \A n \in RunIds : n \in active[jobOf[n]] =>
        \/ phase[n] = "executing"
        \/ \E i \in DOMAIN events : events[i] = [event |-> phase[n], run |-> n]
        \/ Run = n /\ Event = phase[n]

\* For a reader of the dashboard a run is first unknown, then in progress,
\* then recorded, and never goes back: a completed run is recorded before it
\* leaves the active set.
Stage(n) == IF recorded[n] # "none" THEN 2 ELSE IF n \in active[jobOf[n]] THEN 1 ELSE 0
RunsOnlyAdvance == [][proc' = "down" \/ \A n \in RunIds : Stage(n)' >= Stage(n)]_vars

\* jobs.go: "a poll of its output always finds it in one of the two".
LiveOrRecorded == \A c \in Clients : pc[c] # "gone"

\* handlers.go: "active runs are read before history".  The inspector misses
\* no run that was in progress or recorded when it was asked for.
InspectorComplete ==
    \A c \in Clients : pc[c] = "shown" => local[c].known \subseteq local[c].seen

\* While a process runs, a job is switched by a user only: neither an event nor
\* a sync, with whatever it read before, undoes a switch.
OnlyUsersSwitch ==
    [][\A j \in Jobs :
         jobs[j] # NoJob /\ jobs'[j] # NoJob /\ jobs'[j].enabled # jobs[j].enabled
            => proc' # proc \/ \E u \in Users : pc'[u] # pc[u]]_vars

\* The last run of a listed job never goes back, in whatever order the starts
\* of its runs are announced.
LastRunAdvances ==
    [][\A j \in Jobs : proc' = proc /\ jobs'[j] # NoJob => jobs'[j].lastRun >= jobs[j].lastRun]_vars

\* No run stays active for ever, unless the process is told to stop and events
\* are processed no more.
NoneActiveForEver ==
    \A n \in RunIds : (n \in active[jobOf[n]]) ~> (n \notin active[jobOf[n]] \/ proc # "up")

\* The table follows a crontab that stays as it is.
TableFollows == \A c \in Crontabs : <>[](crontab = c /\ proc = "up") => []<>(Listed(jobs) = c)

\* jobs.go: "persist jobs after status changes to ensure database stays in
\* sync".  The rows are copied under the lock and saved after it by several
\* goroutines, so an older copy may be saved over a newer one; but once the
\* table rests, the next sync brings the database in step with it.
DatabaseCatchesUp ==
    \/ []<><<jobs' # jobs>>_jobs
    \/ []<>(proc # "up" \/ \A j \in Listed(jobs) : stored[j] = RowsToSave[j])

=============================================================================
