# Verification of cronn

cronn is a cron replacement: it reads a crontab (plain text or YAML), fires the
commands of its lines on schedule, and adds to cron what operators miss there —
conditions, postponing, de-duplication, repeated attempts, resumption of
commands interrupted by a kill, notifications, and a web dashboard that shows,
switches and starts jobs. This directory holds TLA+ modules that model its core,
TLC configurations that check them on small instances, and proofs, checked by
TLAPS, that the most important properties hold for every value of the
parameters.

Contents: [the system](#the-system) ·
[the modules and the code](#the-modules-and-the-code) ·
[the runs](#the-runs) · [bounds](#bounds) · [fairness](#fairness) ·
[the proofs](#the-proofs) · [findings](#findings) ·
[what is not modelled](#what-is-not-modelled) · [plan](#plan)

Paths below are relative to `src/`. `PROJECT.json` maps every definition that
stands for code to its lines.

## The system

### Components, their state and operations

| component | code | state | operations |
|---|---|---|---|
| Process | `app/main.go` | context, signal channel (1 place), `hupCh` (no buffer) | `signals`, `run`, wiring |
| Scheduler | `app/service/service.go` | goroutines of runs, manual trigger channel, cron's entries | `Do`, `loadFromFileParser`, `reload`, `jobFuncWithTime`, `jobFuncWithEditedCommand`, `runJobWithCommand`, `executeCommand`, `notify`, `listenForManualTriggers`, `resumeInterrupted`, `waitForConditions` |
| DeDup | `app/service/dedup.go` | map of keys under a mutex | `Add`, `Remove` |
| Resumer | `app/resumer/resumer.go` | one flag file per executing command, on disk | `List`, `OnStart`, `OnFinish` |
| Conditions | `app/conditions/conditions.go` | semaphore of concurrent checks | `Check` and one check per metric |
| Crontab parser | `app/crontab/crontab.go` | the watcher's last modification time | `List`, `Changes` |
| Validation | `app/crontab/verify.go`, `vendor/…/cron/parser.go` | none | `--validate`, and the check of a YAML crontab when it is loaded |
| Day templates | `app/service/day.go` | none | expansion of dates in a command |
| Job table | `app/web/jobs.go`, `web.go` | `jobs`, `active`, `eventChan` | `syncJobs`, `persistJobs`, `OnJobStart`, `OnJobComplete`, `processEvents`, `handleJobEvent` |
| Dashboard | `app/web/handlers.go`, `web.go`, `api.go` | none of its own; the modes of the list are in cookies and pages | toggle, run, live output, inspector; list with search, filter and order; JSON |
| Store | `app/web/persistence/sqlite.go` | tables `jobs`, `executions` | `Initialize`, `SaveJobs`, `LoadJobs`, `RecordExecution`, `CleanupOldExecutions`, ... |
| Sessions | `app/web/auth.go` | token map under `sessionsMu`; cookies of browsers | login, logout, expiry, `authMiddleware` |
| Neighbours | `app/web/neighbors.go` | one cached list | `handleNeighbors`, fetch |
| Notifications | `app/notify/notify.go` | none | `Send` |
| vendored engine and helpers | `vendor/…/cron`, `repeater`, `syncs` | entries; attempts; semaphore | `Schedule`, `Remove`, `Stop`; `Do`; `Go` |

### How they interact

* **Firing.** cron starts a goroutine per firing. `jobFuncWithTime` asks the
  dashboard whether the job is disabled, waits for conditions, and calls
  `runJobWithCommand`: template parsing, `DeDup.Add` with a deferred `Remove`,
  `Resumer.OnStart`, `OnJobStart` to the dashboard, attempts through the
  repeater, `OnJobComplete`, notification, `Resumer.OnFinish`.
* **Manual runs.** A handler of the dashboard sends to the trigger channel
  without waiting; `listenForManualTriggers` starts a goroutine that runs the
  edited command at the requested date, past the switch and the conditions.
* **Restart.** `Do` starts `resumeInterrupted` before it loads the crontab: the
  commands of the flag files left on disk execute, a few at a time, concurrently
  with what cron fires.
* **Reload.** The watcher of `Parser.Changes` polls the file and listens to
  `hupCh`; what it reads makes `reload` replace the entries of cron.
* **Dashboard.** Events of runs go through a bounded channel to one goroutine;
  another one merges the crontab into the table; handlers read and switch. All
  of them save to the database what they copied under `jobsMu` before.
* **Browsers.** Pages poll the list with the modes of their controls, a choice
  sets a cookie that all pages of the browser share, and each request passes
  `authMiddleware`. Requests and answers of a page overtake each other.
* **Start of the store.** A start creates the tables, adds the columns an older
  version lacks and fills in results, each statement on its own.

### What is hard

Fired, manual and resumed runs interleave on the key map and on the disk, the
process may be killed between any two of their steps, and operations on files
and database fail one at a time. A cancellation races attempts and waits. The
table, the active set and the history are read by views in several steps
while events arrive late, out of order, or not at all. Reloads race the first
load and each other's triggers. Sessions expire while requests that carry their
tokens are on the way, answers reach a page in any order, an upgrade of the
database may be interrupted after each statement. And two parsers, the validation
and cron, must agree on what a schedule is. `PROJECT.json` lists these hazards,
each at its line with the properties that would notice it.

### What makes each component correct

* Scheduler: no two runs of a key overlap; no key leaks; success is reported
  only when earned; the process ends after SIGTERM.
* Resumer: a command under way is on disk at every step; one owner per file;
  each interrupted command gets its turn, a bounded number at once.
* Conditions: a run is let through only when justified; the semaphore does not
  leak; a wait ends at its deadline or with the context.
* Reload: the entries are replaced as a whole; a change and a SIGHUP are acted
  upon; signals are never stuck.
* Dashboard: a run is shown as in progress or in the history, and never lost or
  running for ever; a switch is undone by nobody; the database agrees once the
  table rests; the numbers of the tabs fit the lists, and each order is one order.
* Sessions: nobody is served without a token in force, nobody is turned away with one.
* Pages: what is chosen in one page does not change what another one shows.
* Neighbours: no list is shown that is older than the cache and one fetch allow.
* Store: an upgrade gives the same database however often it was interrupted.
* Day templates: the end of day names the last business day that is over.
* Validation: what passes is scheduled, but for what is listed below.

## The modules and the code

| module | models | abstract specification |
|---|---|---|
| `Scheduler` | runs, `DeDup`, flag files, resumption, manual triggers, start and end of the process | `CommandJournal` |
| `Conditions` | `waitForConditions`, `Checker.Check` | `Gate` |
| `Reload` | `signals`, `Parser.Changes`, `reload`, `loadFromFileParser` | |
| `WebJobs` | the dashboard's table, events, views, store | |
| `Portal` | a browser with several pages, the requests in flight and the handlers: composes the next three | |
| `Sessions` | token map, validation, login and logout | |
| `Pages` | modes of the list: controls, cookies, what an answer renders | |
| `Neighbors` | the cached list of neighbours | |
| `Upgrade` | opening a database of any version, with interruptions | |
| `JobList` | sorting, filtering, search and counts of jobs, JSON status | |
| `Schedules` | fields of a schedule: the validation and cron's parser | |
| `BusinessDays` | days named by templates | |
| `MCAlgorithms` | draws the inputs of the last three, with `Upgrade` | |
| `MCScheduler`, `MCConditions`, `MCReload`, `MCWebJobs`, `MCPortal` | values for TLC | |
| `SchedulerProofs`, `JournalProofs`, `OutcomeProofs`, `ConditionsProofs`, `ReloadProofs`, `WebJobsProofs`, `PortalProofs`, `AlgorithmProofs` | theorems | |

An operator whose comment starts with *Slip* is a plausible mistake in the
definition that follows it. No behaviour uses it; `PROJECT.json` says under
"mutants" which property TLC finds violated when it takes that definition's place.

### Scheduler

A thread is a goroutine: `Runs` are slots for fired and manual runs, and the
numbers of `FileNames` execute the command of the flag file of that name after a
restart. `pc` is the place of a thread and `run` holds its locals.

| place | next in the code |
|---|---|
| `fired`, `spawned` | the switch (`CheckDisabled`); the context of a manual run (`SpawnCheck`) |
| `check`, `postponed` | `CheckConditions`, `Postponed`: the gate of module `Gate` |
| `enter` | template parsing (`BadTemplate`) and `DeDup.Add` (`DeDupAdd`) |
| `create`, `write` | `Resumer.OnStart`: `os.WriteFile` creates the file, then writes it (`CreateFile`, `WriteFile`) |
| `start` | `OnJobStart`, jitter |
| `repeat`, `command` | `Repeater.Do`: `Attempt`, `CommandSucceeds`, `CommandFails`, `Exhausted`, `Abandon` |
| `complete`, `notify`, `finish` | `OnJobComplete`, `Notify`, `Resumer.OnFinish` (`Finish`) |
| `release` | the deferred `DeDup.Remove` |
| `waiting` | a resumed command before the sized group's semaphore (`AcquireSema`) |

A call that other goroutines cannot see the middle of is one action (`Add` and
`Remove` under their mutex, one file operation, one send); everything between two
such calls may be interleaved and killed (`Crash`). Every early return
of `runJobWithCommand` goes through `release`, as the deferred call does; the
returns of a resumed command go to `idle`. With `DiskFaults`, creating, writing,
removing, listing and reading a flag file each may fail alone.

The clock is the number of the day, which is what a templated command and the
age of a flag file depend on: a file of an earlier day *may* be older than 24
hours. A command is a text and the date its template took, so that the same line
has another key after midnight. Names of flag files are numbers: the code's
names are a time and a sequence number, ordered as they were given and never the
same twice.

`CommandJournal` is what the README of cronn promises of auto-resume: an entry is
complete before its command executes, survives crashes, and goes only when it is
settled or forgotten as old. `Scheduler` implements it with
`entries` = the flag files that hold a command, `busy` = those whose thread
executes; `ImplementsJournal` proves it for every value of the constants.

### Conditions and Gate

Each job of `Jobs` runs `waitForConditions`: a first check, and with
max_postpone a loop over a ticker, a timer and the context. A check takes
a token or says no without looking, rejects thresholds out of range, and reads the
metrics one after another while the machine changes (`Change`); each way out
returns the token. `ReadFaults` lets a metric fail, which is "not met". `held` is
a history variable: the conditions that were met at some moment since the present
check began.

`Gate` is what a run is told: passed, refused or postponed, and refused after
having been postponed only when the context is cancelled. The actions
`CheckConditions` and `Postponed` of `Scheduler` are this gate, so the proof that
`Conditions` implements `Gate` justifies the two lines that stand for it there.

### Reload

Two goroutines run `loadFromFileParser`: `Do` ("main") and the reader of the
watcher's channel ("reload"), in steps that interleave: the snapshot of the
entries, their removal, the parsing of the file, one `cron.Schedule` per line.
The watcher has its modification time, its age threshold (`aged`) and the forced
refresh; `signals` hands SIGHUP over on a channel without buffer, so that a send
is one step of both ends. A file is a sequence of lines, missing, or
broken. The lines after one that cannot be scheduled are not scheduled, as in the code.
Do's load may overlap a reload: `alone` records that the last one did not.

### WebJobs

`processEvents` (wait, record, cleanup, apply, snapshot, save), `syncJobs` (list,
apply, snapshot, save), handlers that switch a job, and browsers that poll an
output or open the inspector are processes with a place and locals of their own;
each step is one critical section of `jobsMu` or one call of the store. What is
in `local` may be stale when it is used: that is the point. Runs are named by
their order of start; an event is dropped when `eventChan` is full. The database
survives `Die`; a store operation may fail with `StoreFaults`.

### Portal, Sessions, Pages, Neighbors

A slot of `wire` is a request with what the browser sent (cookies of that moment,
tokens in the order `authMiddleware` looks at them, modes of the form), then its
answer. Sending, handling and receiving are steps of their own, so that requests of
a page overtake each other, a token expires or is revoked on the way, and answers
render what was true when they were handled. The server's operations on the
token map hold its mutex and are one step each (`CreateSession`, `ValidateSessions`,
`LogoutSession`). `authMiddleware` and the handler it calls are two: after `Admit`
or `Refuse` an admitted request waits for its handler (`Respond`), by which time its
session may have expired or been invalidated. `handleNeighbors` fetches without a
lock: `HandleNeighbors`, `ReadSource`, `EndFetch` or `FetchFails`.

A page opened over https has the cookie `__Host-cronn-auth`, one over http
`cronn-auth`, which the browser sends over https as well. `issued`, `revoked`,
`entered` and `due` are history: when a token was drawn, which ones logouts
invalidated, the login in force, and the one a request relies on. In `Pages`, `own` is
history: the modes a page was loaded with and its user's choices. A menu
says which requests the users of a behaviour make, so that the three
questions of the run do not multiply each other's states.

### Upgrade, JobList, Schedules, BusinessDays

`Upgrade` is `initialize`, one statement after the other (each `CREATE TABLE`,
each `ALTER TABLE`, the query of the back-fill and each of its updates), on a database
of any earlier version (or none) with any executions; `Abort` ends a start
between any two statements, and the next one begins again. The index that is
created with the tables changes nothing the model sees.

The other three are operators. `JobList` has the three comparisons, the filter, the
search and the counts; its lists are sets until they are sorted, because the code
ranges over a map. `Schedules` cuts a field as both parsers do (commas, hyphens,
slashes) and says what each accepts. Cron's parser first cuts the whole line at its
blanks, so that a blank at an end of a field is dropped and one within it makes two
fields of it (`BlankWithin`). `BusinessDays` walks back over weekends
by a recursive function.

## The runs

| run | what it asks | states, about |
|---|---|---|
| `sched_safety` | Cron and a user, who may change the text and the date, start runs on two schedules, one postponed, across midnight, with a switch, kills, restarts and failing disks, with `--dedup` and `--resume`: `NoDuplicateRuns`, `KeysAreHeld`, `SuccessIsEarned`, `Journaled`, `OneOwnerPerFile`, `PendingUntouched`, and the refinement `JournalSpec` | 940 000 |
| `sched_live` | Postponed runs, two attempts, failing disks, kills: `KeyReleased`, `ShutdownCompletes`, `InterruptedResumed` | 92 000 |
| `conditions` | Three jobs share one token: `TokensMatch`, `RunIsJustified`, the refinement `GateSpec`, `DeadlineEnds`, `CancelEnds` | 19 000 |
| `reload` | Edits and signals in any order: `ReloadReplaces`, `ChangesLoaded`, `HupReloads`, `TermEnds` | 230 000 |
| `web_views` | Two overlapping runs under a browser's polls: `RunningIffActive`, `ActiveAccounted`, `LiveOrRecorded`, `InspectorComplete`, `RunsOnlyAdvance`, `LastRunAdvances`, `DatabaseCatchesUp` | 200 000 |
| `web_store` | Edited crontab, failing database, restarts, a user's switches: `RunningIsActive`, `OnlyUsersSwitch`, `NoneActiveForEver`, `TableFollows` | 320 000 |
| `portal` | A browser with a page over https and one over http; logins, logouts and expiry, choices and polls, neighbours, in any order of requests and answers: `ServedIsJustified`, `StaysLoggedIn`, `NoLeak`, `NeighborsFresh`, `TypeOK` | 3 600 000 |
| `algorithms` | Fields of schedules, hours, lists of jobs, and interrupted upgrades: `FieldsLoad`, `EodIsLast`, `ListsAgree`, `OrdersAreOne`, `UpgradeConverges` | 490 000 |
| `sched_shutdown` | violated: `ShutdownWaits` | |
| `cond_limit` | violated: `StillProceeds` | |
| `reload_hup` | violated: `TermEnds` without `--update` | |
| `alg_sunday` | violated: `SundayLoads` | |

The passing runs show, on their instances, that the properties hold; the others
show that the code does not do what a comment or a document says, see
[findings](#findings). Each property is stated in words above its definition.

Some properties are weaker than one might expect, because the code is:

* `SuccessIsEarned` admits a run that succeeds without an attempt when the context was
  cancelled: `Repeater.Do` may see that the strategy closed its channel before it sees
  `ctx.Done`.
* `ReloadReplaces`, `ChangesLoaded` and `HupReloads` speak of reloads that did
  not overlap the first load.
* `OnlyUsersSwitch` does not speak of jobs that leave the crontab, which forget
  their switch.
* `RunningIffActive` speaks of the jobs that every version of the crontab has; of
  the others the weaker `RunningIsActive` holds (`web_store`). `LiveOrRecorded`
  needs an unlimited history (`web_views`): with a limit a run that outlasts as many
  later ones is deleted as it is recorded.
* `DatabaseCatchesUp` does not say that the database agrees at once: rows copied
  before a completion may be saved after it (`app/web/jobs.go:188`). The next
  sync repairs it, if the table rests and the store does not fail.
* `RunIsJustified` says that a run that goes ahead after a check had its conditions
  met, not that one whose conditions are met goes ahead: a check without a token is
  the fourth finding (`StillProceeds`).
* `ServedIsJustified` speaks of tokens that a logout has invalidated, which is one of
  those the browser sent, and of the moment `authMiddleware` looks. That the other one
  outlives the logout is told below.
* `FieldsLoad` speaks of fields without a 7 for Sunday, which is the third finding
  (`SundayLoads`), and names the other forms that the validation lets through and cron
  rejects: names other than one or an ascending range (`MON-WED-FRI`, `FRI-MON`,
  `MONTUE`) and a blank beside a comma. A blank at an end of the field does no harm.
* `ListsAgree` excepts a job whose run was cut off by the end of an earlier process:
  it is under no tab but "all", and its row says "Never ran".
* `StaysLoggedIn` speaks of the login whose cookie the browser still has: the cookie is
  kept for a day (`CookieAge`), whatever `--web.login-ttl` is.
* `NoLeak` says that a page shows its own choices, not that it shows the last
  one: a late answer to an earlier choice may replace a later one.
* No event is dropped in the runs: `EventCap` is 4 in `web_views`, which is room for
  those of its two runs, and 2 in `web_store`, which has one. A dropped completion
  leaves its run active until the process ends; what a crowded channel of 1000 events
  loses, the code loses, and no property speaks of it.
* `JournalSpec` lets an entry go whatever the outcome of its command: which failures
  are kept for the next start is modelled as it is in the code (`Finished`) and not
  held against anything.
* `HupReloads` and `TermEnds` speak of signals that got into the signal channel;
  one that finds it full is dropped.

Deadlock is checked in `conditions` and in the violation runs `sched_shutdown`
and `cond_limit`. The others stop at their bounds (no file
name, run, edit or signal left) and turn it off; in `reload` the system also
stops when the process has ended.

## Bounds

Every bound is a constant whose comment says "bound".

* `Runs`: two slots. Each key or file property relates two threads; a third
  adds no new pair. They are symmetric (`SYMMETRY` in the safety runs only).
* `MaxFiles`: 2 flag files, so that two interrupted commands compete for the one
  place of `ResumeConcurrency`, or one is resumed while a run of the present process
  has a file of its own; the proofs are for any number. `Room` keeps a run from beginning when it would find no name:
  otherwise the bound would block it inside its section and break liveness that
  the code has.
* `Crontab`, `Edits`, `Dates`: `sched_safety` has the same templated command on two
  schedules, one whose runs may be skipped and one whose runs may be postponed; a user
  submits it, or a text that does not parse. `Dates` is {1} there: on the first day the
  user's run has the key of cron's, on the second the key it had the day before.
  `sched_live` has one line that may be postponed and dates {0, 1}, 0 for none; the
  violation runs have no dates.
* `MaxDay`: 2, one midnight: a command changes its key, a file grows old.
* `QueueCap`: 1, so that a full trigger channel is met at once (in the code it has 100 places).
* `Repeats`: 1 in `sched_safety`, which has the disk faults; 2 in `sched_live`, where an attempt follows a
  failed one. The proofs are for any number.
* `Conditions`: three jobs and one token, so that a check is turned down; one job
  waits for two conditions, one gives up at once, one is misconfigured.
* `MaxEdits` 2, `MaxSignals` 2, `MaxEntries` 5: an edit during a reload, a SIGHUP
  and a SIGTERM that compete for the signal channel; 5 entries are enough for the
  first load and the reloads that two edits and two signals make, and where they
  are not, the load stops there and the liveness properties would fail.
* `MaxRuns` 2 in `web_views`: two overlapping runs of a job. `web_store` has one,
  but restarts, edits, faults and a switch.
* `portal`: two requests in flight make every pair of an answer and an overtaking request; two
  tokens let one expire or be revoked while the other is in force;
  a session lasts one tick, a cookie and a cached list two, a fetch one, and `MaxTime`
  3 lets each end before the behaviour does. One setting of two modes, since
  filter and order have the same code.
* `algorithms`: items of up to three terms drawn from the bounds of the field,
  their neighbours, 5, 6 and names, lists of two items, with blanks before and after each; two weeks, every hour
  and threshold; three jobs, so that an order can fail to be transitive; two jobs and
  two executions, so that the latest is not the last recorded.

## Fairness

Fairness is on goroutines that can go on, as the Go scheduler gives it: weak
fairness on each run's step, on each resumed command's, on loading, `Stop`, exit and
on handing out the interrupted commands. It includes that commands and
notifications end (commands are subject to their own behaviour; the proofs of
safety do not need it) and that the wait for conditions ends by its deadline,
which `Conditions` shows under its own fairness (`DeadlineEnds`, for which time
must only have passed). Nothing makes cron fire, a user act, a file
change, a signal arrive, a kill happen or a process start.

`Conditions` has strong fairness on the deadline and on the context in the
`select`: Go picks uniformly among ready cases, so that a case ready
again and again is picked with probability one, although each check in between
makes it not ready. Weak fairness is not enough there, and the code has nothing
else to prefer the deadline to a tick. Ticks and deadlines themselves are not promised.

`Reload` has weak fairness on time passing (`Age`), the goroutine of signals,
the watcher, the reload and both loads. `WebJobs` has it on the two loops,
whose ticker keeps ticking, and on the end of commands; none on browsers or users.
`DatabaseCatchesUp` needs only that the loops go on.

`Portal` and `MCAlgorithms` have no liveness properties: nothing makes a browser ask,
and an answer may be lost when its page is left.

## The proofs

All theorems are proved for every value of the constants that satisfies the
modules' assumptions: any number of slots, files, days, attempts, any crontab.
Assumptions are on types and positive bounds (`CrontabAssumption`,
`BoundsAssumption`, `OptionsAssumption`; `ConditionsAssumption`, `ReloadAssumption`,
`WebAssumption`, `PortalAssumption` and `UpgradeAssumption` likewise), and TLC evaluates
them in every run. Of `Portal` they also say that the cache of neighbours lasts
longer than nothing (five minutes in the code): `NeighborsFresh` bounds the age
strictly, and with neither a cache nor a fetch that takes time no list would be
younger than their sum.

Four theorems about `WebJobs` have a hypothesis, because without it the code does
not do what they say:

* `Lossless` (every execution is kept and no operation of the store fails) in
  `PollsFindRuns` and `RunsAdvance`, and `HistoryLimit = 0` in `InspectorMissesNone`:
  with a limit a run may be deleted as it is recorded. `web_views`
  satisfies both.
* In `TrackedRunsEnd` that no event finds the channel full in this
  behaviour (`NothingDropped`): a dropped completion leaves its run tracked. `TrackedRunsEndForFew` shows
  that this cannot happen while the channel has room for two events of each run,
  as in `web_views`.

| theorem | property | argument |
|---|---|---|
| `SchedulerProofs!TypeCorrect` | `TypeOK` | `LocalsOK` ties the locals of a thread to its place, which makes the type inductive |
| `SchedulerProofs!DeDupCorrect` | `NoDuplicateRuns` | `DeDupInv`: with `KeysAreHeld`, since only the map says that a new key is none of the others', and only uniqueness says that a `Remove` takes no other run's key |
| `SchedulerProofs!NoKeyLeaks` | `KeysAreHeld` | the same invariant |
| `JournalProofs!JournalKept` | `Journaled` | `JournalInv`: nobody else's `OnFinish` removes the file, for it has one owner |
| `JournalProofs!FilesHaveOneOwner` | `OneOwnerPerFile` | `JournalInv`: a file in use or pending has a name given before (`NamesGiven`), a new name is later; a pending file has no owner |
| `JournalProofs!PendingIsUntouched` | `PendingUntouched` | `JournalInv`: names ascend, so the next one differs from those still pending |
| `OutcomeProofs!SuccessEarned` | `SuccessIsEarned` | `OutcomeInv` follows result and attempts through the repeater: between attempts the last one has failed; without any, only a cancellation leads out |
| `OutcomeProofs!ResumeIsBounded` | `ResumeBounded` | only `AcquireSema` adds to the executing ones; cardinalities of finite sets |
| `ConditionsProofs!TypeCorrect` | `TypeOK` | |
| `ConditionsProofs!TokensNeverLeak` | `TokensMatch` | each step that enters or leaves "check" moves the semaphore by one |
| `ConditionsProofs!RunsAreJustified` | `RunIsJustified` | `CheckInv`: what is still to read and what was found met make up what is wanted |
| `ConditionsProofs!ImplementsGate` | `GateSpec` | refinement: every step is a step of `Gate` under `Told`, or a stutter |
| `JournalProofs!ImplementsJournal` | `JournalSpec` | refinement, on `JournalInv` with `Unwritten` (a file is blank until its thread writes it); every action is a step of `CommandJournal` or a stutter |
| `ReloadProofs!TypeCorrect` | `TypeOK` | inductive as it stands, since it says that an entry's number was given out |
| `ReloadProofs!ReloadsReplace` | `ReloadReplaces` | `ReplaceInv` relates snapshot, entries and lines at each place of a load: what is still to remove (`Partway`), what is scheduled up to the present line (`ScheduledTo`), and that at rest the entries are those of the last load (`Settled`) |
| `WebJobsProofs!TypeCorrect` | `TypeOK` | `Inductive` adds that no copy a goroutine holds has a running row (`CopiesRest`), or a save could store one, and that the event processor has an event in the places where it needs one (`EventKnown`) |
| `WebJobsProofs!RunningHasRun` | `RunningIsActive` | on `Inductive`: a row comes from the database or a sync at rest, and `StillRunning` looks at what is left in `active` |
| `WebJobsProofs!LastRunsAdvance` | `LastRunAdvances` | only five actions change the table (`WhoChangesJobs`); `EventRow` says what an event does to a row |
| `WebJobsProofs!SwitchesAreKept` | `OnlyUsersSwitch` | the same two lemmas |
| `WebJobsProofs!RunningIsExact` | `RunningIffActive` | a sync never drops a job that every crontab has, so its row is there when an event of it is applied |
| `WebJobsProofs!PollsFindRuns`, `RunsAdvance` | `LiveOrRecorded`, `RunsOnlyAdvance` | `LosslessInv`: a run is recorded before it leaves the tracked ones (`record` before `cleanup` and `apply`), and a poll that did not find it tracked finds it recorded |
| `WebJobsProofs!InspectorMissesNone` | `InspectorComplete` | `UnlimitedInv`: what was tracked at the first read is tracked, or recorded before the second |
| `WebJobsProofs!TrackedRunsEnd`, `TrackedRunsEndForFew` | `ActiveAccounted` | `AccountInv`: a run has at most one start and one completion among channel and processor, in the order they were sent, and a tracked run still has its completion to come |
| `PortalProofs!TypeCorrect` | `TypeOK` | from `LoginInv`, `PageInv` and `FetchInv` |
| `PortalProofs!ServedJustified` | `ServedIsJustified` | `SessionInv`: a token in the map is one drawn at the time the map says and not invalidated, so `ValidateSessions` finds justified ones only |
| `PortalProofs!LoggedInStays` | `StaysLoggedIn` | `LoginInv`: the token of the login in force is among the cookies the browser sends, and in the map until a logout or until it is too old (`ForceLasts`, `AnswerLasts`); a clean-up removes what is too old only |
| `PortalProofs!NothingLeaks` | `NoLeak` | `PageInv`: a poll or a choice on its way, and its answer, has modes that its page was loaded with or its user chose |
| `PortalProofs!NeighborsAreFresh` | `NeighborsFresh` | `FetchInv`: a list is read at most one fetch before it is stored or shown (`CacheAged`, `Aged`) |
| `AlgorithmProofs!UpgradesConverge` | `UpgradeConverges` | `UpgradeInv`: results known before are kept (`ResultsKept`), the tables created and the columns looked for so far exist (`ColumnsKept`), and what is still selected for the back-fill has no result (`FillKept`) |
| `AlgorithmProofs!FieldsAlwaysLoad` | of `FieldsLoad` | case by case as the validation decides: any, names, step, then range or number item by item (`ValidItemAccepted`, `NamesAccepted`); the blanks a validated field may have are beside its commas (`BlanksAreBesideCommas`) |
| `AlgorithmProofs!EodNamesTheLastOver` | of `EodIsLast` | `BackwardIs`: the recursion is defined, since a function without one satisfies its equation; a weekend is two days |
| `AlgorithmProofs!TabsAlwaysAgree` | of `ListsAgree` | the tabs list and count the same jobs (`CountedWhereListed`); cardinalities of disjoint sets |
| `AlgorithmProofs!OrdersAreAlwaysOne` | of `OrdersAreOne` | `BeforeIsAnOrder`; a smallest set of jobs without a sorted list would have a last job (`SomeOrder`), and two sorted lists agree at their first difference (`NoOtherOrder`) |

The last four are about every input, where the run draws some: fields of any
length, every day, every finite list of jobs. `DrawnFieldsLoad`, `DrawnEodIsLast`,
`DrawnListsAgree` and `DrawnOrdersAreOne` then say that what the run draws are such
inputs (`Drawn`), which gives the invariants it checks. What `TabsAlwaysAgree` supposes
of a list the table guarantees: a running job has the status "running". What
`OrdersAreAlwaysOne` supposes, places of their own, the table has after each sync: an
entry made by an event for a job outside the crontab has place 0 like the first line's
until the next one, and the order of these two is then open.

The library's induction rules take a predicate as a parameter, which the provers cannot
instantiate. Where an argument over a finite set or the places of a list
needs induction, it takes a smallest counterexample instead: `SmallestSet`
(strict inclusion of finite sets is well founded) and `FirstPlace`.

`JournalInv` is `DownIdle` (a process that is down has no threads and nothing
pending) with `NamesGiven`, `OneOwnerPerFile`, `PendingUntouched` and `FilesKept`;
none of these is inductive alone. Every proof that a step preserves an
invariant has a step per action. The lemmas `MoveTyped`, `MoveOutcome` and their
kin say what a thread moving from one place to another must establish, which is
what nearly every action is.

Only model-checked: the liveness properties (`KeyReleased`, `ShutdownCompletes`,
`InterruptedResumed`, `DeadlineEnds`, `CancelEnds`, `ChangesLoaded`, `HupReloads`,
`TermEnds`, `NoneActiveForEver`, `TableFollows`, `DatabaseCatchesUp`), since TLAPS
has no rules for fairness and ENABLED. Every invariant, action property and
refinement of the passing runs is proved. `TypeOK` of `Scheduler`, `Conditions`,
`Reload` and `WebJobs` and `ResumeBounded` are proved and not checked in a run.

## Findings

1. `sched_shutdown` — README says that graceful shutdown waits for running jobs;
   `Do` waits for those cron started and not for manual or resumed ones
   (`app/service/service.go:179`).
2. `reload_hup` — without `--update`, or with `--command`, the first SIGHUP blocks
   the goroutine of signals for ever, and SIGTERM has no effect any more
   (`app/main.go:373`).
3. `alg_sunday` — the description of a weekday says that 7 is Sunday
   (`app/crontab/crontab.go:39`), and the validation takes it; cron refuses the line and
   the load ends there (`app/crontab/verify.go:102`).
4. `cond_limit` — a check that finds no token says no, and a run without max_postpone is
   skipped for it though its conditions are met, while the comment there says that it
   proceeds (`app/conditions/conditions.go:87`).

Seen while modelling, and described by the properties or the hazards rather than by a
run of their own:

* a run cancelled before its first attempt may return success: the strategy closes its
  channel on a cancelled context, `Repeater.Do` may notice that before `ctx.Done`, with
  `err` still nil, and the flag file of a command that never ran is removed
  (`app/service/service.go:290`; the exception of `SuccessIsEarned`);
* a run that outlasts as many later runs as the history keeps is deleted as it is
  recorded (`app/web/jobs.go:326`), so that a poll of its output finds it nowhere:
  `LiveOrRecorded` fails in `web_views` with `HistoryLimit` 1;
* a logout of a browser that sends both login cookies invalidates the token of the first
  only (`app/web/auth.go:87`) and clears both cookies: a request with the other one,
  already on its way, is served;
* a resumed command that fails keeps its file only if the report failed, the reverse of a
  regular run;
* the validation of a YAML crontab and cron's parser differ both ways: see
  `FieldsLoad` and `SundayLoads` above for what is accepted and then ends the load; lists of names
  (`MON,WED`) and names of months are rejected although cron would take them;
* the login cookie lasts a day whatever `--web.login-ttl` says, so that the 48 hours of
  the README's example end after 24;
* `SaveJobs` writes as `sort_index` the position of a row in a slice made from a
  map (`app/web/persistence/sqlite.go:240`): the order in the database is random, and the
  one shown after a start is, until the first sync.

## What is not modelled

* Splitting of crontab lines, YAML and options, schedules in words, HTML,
  themes, e-mail and chat messages: no state that the properties see.
* The moments at which cron fires: an entry may fire at any time.
* Lengths of delays (jitter, backoff, timeouts): a delay ends at some time.
* Percentages and thresholds: a condition is met or not, and may change.
* Children of a killed process: a shell that survives its cronn is not seen.
* Output of commands (`output_capture.go`, `log_prefixer.go`).
* SQL: a query or a transaction is a step that succeeds or fails as a whole.
* Deployments of the dashboard under a base URL, which names the cookie differently;
  basic authentication, which keeps no state; the rate limit of logins.
* The descriptors of schedules (`@daily`, `@every`): texts that only the cron parser reads.

## Plan

The order puts what costs most when it goes wrong first.

1. *Done*: `Scheduler` with `CommandJournal`, then its proofs (types,
   de-duplication, journal, outcomes); `Conditions` with `Gate` and its proofs;
   `Reload`; `WebJobs`.
2. *Done*: `Portal` with `Sessions`, `Pages` and `Neighbors`; the algorithms; the
   upgrade of the store; liveness of the database; type correctness of
   `Reload` and `WebJobs`, and the first properties of the dashboard, proved.
3. *Done*: the refinement of `CommandJournal`, `ReloadReplaces`, the rest of the
   safety of `WebJobs`, and everything about `Portal`, the upgrade and the
   algorithms, proved.
4. The composition of `Scheduler` and `WebJobs` over the trigger channel and the
   events: today each assumes of the other what its `Request` and `Scheduled` say.
