------------------------------ MODULE Scheduler ------------------------------
(***************************************************************************)
(* The life of a job run in cronn's Scheduler (app/service/service.go),    *)
(* with the de-duplication map (dedup.go), the flag files of the resumer   *)
(* (app/resumer) and the resumption of interrupted commands at the next    *)
(* start.  A thread is a goroutine: the ones of Runs execute a job fired   *)
(* by cron or requested by hand, and the ones of FileNames execute the     *)
(* command of an interrupted flag file.  The process may be killed between *)
(* any two steps; the flag files are all that survives it.                 *)
(* A definition introduced by "Slip" is a plausible mistake in the one     *)
(* after it: no behaviour uses it, it shows that a property would notice.  *)
(*                                                                         *)
(* The clock is abstracted to the number of the day, which is what a       *)
(* command template and the age of a flag file depend on.                  *)
(***************************************************************************)
EXTENDS Integers, FiniteSets, Sequences

CONSTANTS
    Runs,              \* goroutine slots for fired and manual runs (bound)
    Crontab,           \* the crontab lines: a sequence of records, see CrontabAssumption
    Texts,             \* command texts, as written in the crontab or in the run dialog
    Edits,             \* the texts a user may submit in the run dialog
    Dates,             \* the days a user may enter there, 0 for none
    Templated,         \* the texts whose expansion depends on the date
    Unparsable,        \* the texts the template parser rejects
    Toggleable,        \* the crontab commands a user may disable in the dashboard
    MaxFiles,          \* flag files a behaviour may create (bound)
    MaxDay,            \* the last day of a behaviour (bound)
    QueueCap,          \* capacity of the manual trigger channel
    Repeats,           \* attempts the repeater makes, at least one
    ResumeConcurrency, \* interrupted commands executed at the same time
    DeDupEnabled,      \* --dedup
    ResumeEnabled,     \* --resume
    OnError,           \* the notifier reports failed runs
    OnCompletion,      \* the notifier reports completed runs
    DiskFaults         \* whether operations on flag files may fail

FileNames == 1 .. MaxFiles
Threads == Runs \cup FileNames
Lines == DOMAIN Crontab
Specs == {Crontab[l].spec : l \in Lines}
Days == 1 .. MaxDay

\* a line has no conditions, conditions that skip the run, or ones that postpone it
ConditionModes == {"none", "skip", "postpone"}

ASSUME CrontabAssumption ==
    /\ Crontab \in Seq([command : Texts, spec : STRING, conditions : ConditionModes])
    /\ Edits \subseteq Texts /\ Templated \subseteq Texts /\ Unparsable \subseteq Texts
    /\ "" \notin Texts

ASSUME BoundsAssumption ==
    /\ MaxFiles \in Nat /\ MaxDay \in Nat \ {0} /\ Dates \subseteq 0 .. MaxDay /\ QueueCap \in Nat
    /\ Repeats \in Nat \ {0} /\ ResumeConcurrency \in Nat \ {0}

ASSUME OptionsAssumption ==
    /\ Runs \cap Nat = {}
    /\ {DeDupEnabled, ResumeEnabled, OnError, OnCompletion, DiskFaults} \subseteq BOOLEAN

\* A command ready to execute is a text and the date its templates took, 0 if
\* it has none.  Blank is the content of a flag file created but not written.
Commands == Texts \X (0 .. MaxDay)
Blank == <<"", 0>>
Expand(text, date) == <<text, IF text \in Templated THEN date ELSE 0>>

VARIABLES
    proc,        \* the process: "down", "loading", "running" or "stopping"
    cancelled,   \* whether the context of the process is cancelled (SIGTERM)
    day,         \* today
    disabled,    \* commands disabled in the dashboard
    queue,       \* the manual trigger channel
    pending,     \* names of interrupted flag files not started yet
    active,      \* the keys of the de-duplication map
    files,       \* names of the flag files on disk
    content,     \* the command in each flag file
    born,        \* the day each flag file was written
    lastName,    \* the name given last: names grow with time
    pc,          \* where each thread is
    run          \* the local variables of each thread

vars == <<proc, cancelled, day, disabled, queue, pending, active,
          files, content, born, lastName, pc, run>>
envVars == <<proc, cancelled, day, disabled>>
fileVars == <<files, content, born, lastName>>
sharedVars == <<envVars, queue, pending, active, fileVars>>

NoFile == 0
IdleRun == [line |-> 0, manual |-> FALSE, text |-> "", date |-> 0, cmd |-> Blank,
            file |-> NoFile, tries |-> 0, result |-> "none"]

Up == proc # "down"

\* The sections of runJobWithCommand and of a resumed command.
PreKey == {"fired", "spawned", "check", "postponed", "enter"}
Executing == {"repeat", "command", "complete", "notify", "finish"}
InSection == {"create", "write", "start", "release"} \cup Executing
PCs == {"idle", "waiting"} \cup PreKey \cup InSection

\* executeCommand's err: "none" is a nil error although no attempt was made.
Results == {"none", "ok", "failed", "cancelled"}

Key(r) == <<run[r].cmd, Crontab[run[r].line].spec>>

\* Resumed commands run under their own group's background context.
Cancelled(t) == t \in Runs /\ cancelled

\* A run may begin only if it will find a name for its flag file (bound).
Room == lastName + Cardinality({r \in Runs : pc[r] \in PreKey \cup {"create"}}) < MaxFiles

Goto(t, label) == pc' = [pc EXCEPT ![t] = label]
Proceed(t, label) == Goto(t, label) /\ UNCHANGED run

\* The goroutine ends.
End(t) == Goto(t, "idle") /\ run' = [run EXCEPT ![t] = IdleRun]

\* Slip: a return path that the deferred DeDup.Remove does not cover.
ReturnKeepingKey(r) == End(r)

\* runJobWithCommand returns: its deferred DeDup.Remove is next.
Return(r) == Proceed(r, "release")

Init ==
    /\ proc = "down" /\ cancelled = FALSE /\ day = 1
    /\ disabled = {} /\ queue = <<>> /\ pending = <<>> /\ active = {}
    /\ files = {} /\ lastName = 0
    /\ content = [n \in FileNames |-> Blank]
    /\ born = [n \in FileNames |-> 0]
    /\ pc = [t \in Threads |-> "idle"]
    /\ run = [t \in Threads |-> IdleRun]

-----------------------------------------------------------------------------
(* The process: start, shutdown, kill; the clock; the dashboard's switch.    *)

\* Slip: files of the present day are old too.
MaybeOldToday == {n \in files : born[n] <= day}

\* The flag files older than 24 hours are among those of an earlier day.
MaybeOld == {n \in files : born[n] < day}

\* Slip: the names are taken in the order of the directory.
Unordered(S) ==
    {s \in [1 .. Cardinality(S) -> S] : \A i, j \in DOMAIN s : i # j => s[i] # s[j]}

Ascending(S) ==
    {s \in [1 .. Cardinality(S) -> S] : \A i, j \in DOMAIN s : i < j => s[i] < s[j]}

\* Resumer.List: drop the old files, list the others by name.  A file that
\* cannot be removed or read is skipped.
Boot ==
    /\ proc = "down"
    /\ proc' = "loading"
    /\ IF ResumeEnabled
       THEN \E old \in SUBSET MaybeOld :
              \E gone \in SUBSET old, listed \in SUBSET (files \ old) :
                /\ DiskFaults \/ (gone = old /\ listed = files \ old)
                /\ files' = files \ gone
                /\ pending' \in Ascending(listed)
       ELSE UNCHANGED <<files, pending>>
    /\ UNCHANGED <<cancelled, day, disabled, queue, active, content, born, lastName, pc, run>>

\* The volatile state is gone when the process ends.
Down ==
    /\ proc' = "down" /\ cancelled' = FALSE
    /\ queue' = <<>> /\ pending' = <<>> /\ active' = {}
    /\ pc' = [t \in Threads |-> "idle"]
    /\ run' = [t \in Threads |-> IdleRun]
    /\ UNCHANGED <<day, disabled, files, content, born, lastName>>

LoadOK ==
    /\ proc = "loading"
    /\ proc' = "running"
    /\ UNCHANGED <<cancelled, day, disabled, queue, pending, active, fileVars, pc, run>>

\* Do returns when the crontab does not load, whatever is being resumed.
LoadFails == proc = "loading" /\ Down

\* SIGTERM
Cancel ==
    /\ Up /\ ~cancelled
    /\ cancelled' = TRUE
    /\ UNCHANGED <<proc, day, disabled, queue, pending, active, fileVars, pc, run>>

Stop ==
    /\ proc = "running" /\ cancelled
    /\ proc' = "stopping"
    /\ UNCHANGED <<cancelled, day, disabled, queue, pending, active, fileVars, pc, run>>

\* Cron's Stop waits for the goroutines cron started, and for no others.
CronIdle == \A r \in Runs : pc[r] = "idle" \/ run[r].manual

Exit == proc = "stopping" /\ CronIdle /\ Down

Crash == Up /\ Down

NewDay ==
    /\ day < MaxDay
    /\ day' = day + 1
    /\ UNCHANGED <<proc, cancelled, disabled, queue, pending, active, fileVars, pc, run>>

Toggle(c) ==
    /\ Up
    /\ disabled' = IF c \in disabled THEN disabled \ {c} ELSE disabled \cup {c}
    /\ UNCHANGED <<proc, cancelled, day, queue, pending, active, fileVars, pc, run>>

-----------------------------------------------------------------------------
(* How a run begins: cron fires a line, or a request is taken from the       *)
(* manual trigger channel.                                                   *)

\* The locals of a run of line l that begins.
NewRun(l, manual, text, date) ==
    [IdleRun EXCEPT !.line = l, !.manual = manual, !.text = text, !.date = date]

Fire(r, l) ==
    /\ proc = "running" /\ pc[r] = "idle" /\ Room
    /\ Goto(r, "fired")
    /\ run' = [run EXCEPT ![r] = NewRun(l, FALSE, Crontab[l].command, 0)]
    /\ UNCHANGED sharedVars

\* The dashboard rejects a disabled job.  It also rejects one it knows to be
\* running, but what it knows comes late or never (see WebJobs): the model lets
\* such a request through.  The send does not wait: a full channel rejects it.
Request(c, text, date) ==
    /\ Up /\ c \notin disabled
    /\ Len(queue) < QueueCap
    /\ queue' = Append(queue, [job |-> c, text |-> text, date |-> date])
    /\ UNCHANGED <<envVars, pending, active, fileVars, pc, run>>

\* The job of a request is the first crontab line with its command.
IsFirstLine(l, c) ==
    Crontab[l].command = c /\ \A k \in Lines : k < l => Crontab[k].command # c

Receive(r) ==
    /\ Up /\ queue # <<>> /\ pc[r] = "idle" /\ Room
    /\ \E l \in Lines :
         /\ IsFirstLine(l, Head(queue).job)
         /\ run' = [run EXCEPT ![r] = NewRun(l, TRUE, Head(queue).text, Head(queue).date)]
    /\ queue' = Tail(queue)
    /\ Goto(r, "spawned")
    /\ UNCHANGED <<envVars, pending, active, fileVars>>

\* The crontab could not be read, or no longer has the job.
DropRequest ==
    /\ Up /\ queue # <<>>
    /\ queue' = Tail(queue)
    /\ UNCHANGED <<envVars, pending, active, fileVars, pc, run>>

\* A manual run bypasses the switch and the conditions of its line.
SpawnCheck(r) ==
    /\ pc[r] = "spawned"
    /\ \/ cancelled /\ End(r)
       \/ ~cancelled /\ Proceed(r, "enter")
    /\ UNCHANGED sharedVars

CheckDisabled(r) ==
    /\ pc[r] = "fired"
    /\ \/ run[r].text \in disabled /\ End(r)
       \/ /\ run[r].text \notin disabled
          /\ Proceed(r, IF Crontab[run[r].line].conditions = "none" THEN "enter" ELSE "check")
    /\ UNCHANGED sharedVars

\* ConditionChecker.Check decides; without max_postpone an unmet check skips.
CheckConditions(r) ==
    /\ pc[r] = "check"
    /\ \/ Proceed(r, "enter")
       \/ Crontab[run[r].line].conditions = "skip" /\ End(r)
       \/ Crontab[run[r].line].conditions = "postpone" /\ Proceed(r, "postponed")
    /\ UNCHANGED sharedVars

\* The conditions are met at a tick, or the deadline passes; or the context
\* is cancelled.  Select chooses freely among the ones that are ready.
Postponed(r) ==
    /\ pc[r] = "postponed"
    /\ \/ Proceed(r, "enter")
       \/ cancelled /\ End(r)
    /\ UNCHANGED sharedVars

-----------------------------------------------------------------------------
(* runJobWithCommand                                                         *)

\* The command after template parsing, at the requested date or today.
CommandOf(r) == Expand(run[r].text, IF run[r].date = 0 THEN day ELSE run[r].date)

BadTemplate(r) ==
    /\ pc[r] = "enter" /\ run[r].text \in Unparsable
    /\ End(r)
    /\ UNCHANGED sharedVars

\* Slip: Add does not look whether the key is there.
DuplicateNever(k) == FALSE

\* DeDup.Add fails on a key that is in the map, and never when disabled.
Duplicate(k) == DeDupEnabled /\ k \in active

DeDupAdd(r) ==
    LET k == <<CommandOf(r), Crontab[run[r].line].spec>>
    IN  /\ pc[r] = "enter" /\ run[r].text \notin Unparsable
        /\ \/ Duplicate(k) /\ End(r) /\ UNCHANGED active
           \/ /\ ~Duplicate(k)
              /\ active' = IF DeDupEnabled THEN active \cup {k} ELSE active
              /\ run' = [run EXCEPT ![r].cmd = CommandOf(r)]
              /\ Goto(r, IF ResumeEnabled THEN "create" ELSE "start")
        /\ UNCHANGED <<envVars, queue, pending, fileVars>>

\* Slip: files are numbered by how many there are.
NewNameByCount == Cardinality(files) + 1

\* The time and the sequence number make every name new, and later than the
\* ones before it.
NewName == lastName + 1

\* Resumer.OnStart makes the file and then writes the command into it.
CreateFile(r) ==
    /\ pc[r] = "create" /\ lastName < MaxFiles \* bound, see Room
    /\ \/ /\ files' = files \cup {NewName}
          /\ lastName' = NewName
          /\ born' = [born EXCEPT ![NewName] = day]
          /\ content' = [content EXCEPT ![NewName] = Blank]
          /\ run' = [run EXCEPT ![r].file = NewName]
          /\ Goto(r, "write")
       \/ DiskFaults /\ Return(r) /\ UNCHANGED fileVars
    /\ UNCHANGED <<envVars, queue, pending, active>>

WriteFile(r) ==
    /\ pc[r] = "write"
    /\ \/ /\ content' = [content EXCEPT ![run[r].file] = run[r].cmd]
          /\ born' = [born EXCEPT ![run[r].file] = day]
          /\ Proceed(r, "start")
       \/ DiskFaults /\ Return(r) /\ UNCHANGED <<content, born>>
    /\ UNCHANGED <<envVars, queue, pending, active, files, lastName>>

\* OnJobStart is sent, and executeCommand sleeps for the jitter
OnJobStart(r) ==
    /\ pc[r] = "start"
    /\ Proceed(r, "repeat")
    /\ UNCHANGED sharedVars

\* Slip: a cancellation is no failure.
FailedByCommand(result) == result = "failed"

\* executeCommand returns.  A run of Runs reports its completion; a resumed
\* command reports failures only.
Failed(result) == result \in {"failed", "cancelled"}

Executed(t, result) ==
    /\ run' = [run EXCEPT ![t].result = result]
    /\ Goto(t, IF t \in Runs THEN "complete"
                ELSE IF Failed(result) THEN "notify" ELSE "finish")

\* Slip: the attempts are not counted.
AttemptUncounted(t) ==
    /\ pc[t] = "repeat" /\ run[t].tries < Repeats
    /\ Proceed(t, "command")
    /\ UNCHANGED sharedVars

Attempt(t) ==
    /\ pc[t] = "repeat" /\ run[t].tries < Repeats
    /\ Goto(t, "command")
    /\ run' = [run EXCEPT ![t].tries = @ + 1]
    /\ UNCHANGED sharedVars

CommandSucceeds(t) ==
    /\ pc[t] = "command" /\ Executed(t, "ok")
    /\ UNCHANGED sharedVars

\* The shell has nothing to fail at in a blank command.
CommandFails(t) ==
    /\ pc[t] = "command" /\ run[t].cmd # Blank
    /\ run' = [run EXCEPT ![t].result = "failed"]
    /\ Goto(t, "repeat")
    /\ UNCHANGED sharedVars

\* The strategy closes its channel after the last attempt: Do returns err.
Exhausted(t) ==
    /\ pc[t] = "repeat" /\ run[t].tries = Repeats
    /\ Executed(t, run[t].result)
    /\ UNCHANGED sharedVars

\* After a cancellation Do returns the context's error, or, if it sees the
\* channel closed by the strategy first, err as the attempts left it.
Abandon(t) ==
    /\ pc[t] = "repeat" /\ Cancelled(t)
    /\ \E result \in {"cancelled", run[t].result} : Executed(t, result)
    /\ UNCHANGED sharedVars

OnJobComplete(r) ==
    /\ pc[r] = "complete"
    /\ Proceed(r, "notify")
    /\ UNCHANGED sharedVars

Err(t) == Failed(run[t].result)
Wanted(t) == IF Err(t) THEN OnError ELSE OnCompletion

\* A failed run keeps its flag file.  So does a run whose report could not be
\* sent; a resumed command that failed and was reported does not.
Notify(t) ==
    /\ pc[t] = "notify"
    /\ \/ IF t \in Runs /\ Err(t) THEN Return(t) ELSE Proceed(t, "finish")
       \/ Wanted(t) /\ IF t \in Runs THEN Return(t) ELSE End(t)
    /\ UNCHANGED sharedVars

\* Slip: files are removed by their command and not by their name.
FinishedByCommand(t) == {n \in files : content[n] = run[t].cmd}

\* Resumer.OnFinish removes the file the thread was given.
Finished(t) == {run[t].file}

Finish(t) ==
    /\ pc[t] = "finish"
    /\ \/ files' = files \ Finished(t)
       \/ DiskFaults /\ UNCHANGED files
    /\ IF t \in Runs THEN Return(t) ELSE End(t)
    /\ UNCHANGED <<envVars, queue, pending, active, content, born, lastName>>

\* defer DeDup.Remove
Release(r) ==
    /\ pc[r] = "release"
    /\ active' = active \ {Key(r)}
    /\ End(r)
    /\ UNCHANGED <<envVars, queue, pending, fileVars>>

-----------------------------------------------------------------------------
(* resumeInterrupted                                                         *)

\* The next interrupted command gets a goroutine, which waits for the group.
ResumeNext ==
    /\ Up /\ pending # <<>>
    /\ LET n == Head(pending)
       IN  /\ Goto(n, "waiting")
           /\ run' = [run EXCEPT ![n] = [IdleRun EXCEPT !.cmd = content[n], !.file = n]]
    /\ pending' = Tail(pending)
    /\ UNCHANGED <<envVars, queue, active, fileVars>>

\* Slip: a waiting command counts as executing.
ResumingOrWaiting == {n \in FileNames : pc[n] # "idle"}
Resuming == {n \in FileNames : pc[n] \in Executing}
SlotFree == Cardinality(Resuming) < ResumeConcurrency

AcquireSema(n) ==
    /\ pc[n] = "waiting" /\ SlotFree
    /\ Proceed(n, "repeat")
    /\ UNCHANGED sharedVars

-----------------------------------------------------------------------------
Execute(t) ==
    \/ Attempt(t) \/ CommandSucceeds(t) \/ CommandFails(t) \/ Exhausted(t)
    \/ Abandon(t) \/ Notify(t) \/ Finish(t)

Begin(r) ==
    \/ SpawnCheck(r) \/ CheckDisabled(r) \/ CheckConditions(r) \/ Postponed(r)
    \/ BadTemplate(r) \/ DeDupAdd(r)

Register(r) == CreateFile(r) \/ WriteFile(r) \/ OnJobStart(r) \/ OnJobComplete(r) \/ Release(r)

RunStep(r) == Begin(r) \/ Register(r) \/ Execute(r)
ResumedStep(n) == AcquireSema(n) \/ Execute(n)
Load == LoadOK \/ LoadFails

Requests == [job : {Crontab[l].command : l \in Lines}, text : Edits, date : Dates]

Environment ==
    \/ Cancel \/ Crash \/ NewDay
    \/ \E c \in Toggleable : Toggle(c)
    \/ \E q \in Requests : Request(q.job, q.text, q.date)

Process == Boot \/ Load \/ Stop \/ Exit \/ ResumeNext \/ DropRequest

Next ==
    \/ Environment
    \/ Process
    \/ \E r \in Runs : RunStep(r) \/ Receive(r) \/ (\E l \in Lines : Fire(r, l))
    \/ \E n \in FileNames : ResumedStep(n)

Spec == Init /\ [][Next]_vars

\* Goroutines that can go on do; commands and notifications end, the deadline
\* of a postponed run passes, and the process leaves Do when it may.  Nothing
\* makes cron fire, a user act, the process be killed or started.
Fairness ==
    /\ WF_vars(Load) /\ WF_vars(Stop) /\ WF_vars(Exit) /\ WF_vars(ResumeNext)
    /\ \A r \in Runs : WF_vars(RunStep(r))
    /\ \A n \in FileNames : WF_vars(ResumedStep(n))

FairSpec == Spec /\ Fairness

-----------------------------------------------------------------------------
(* What the scheduler promises.                                              *)

RunType == [line : Lines \cup {0}, manual : BOOLEAN, text : Texts \cup {""},
            date : 0 .. MaxDay, cmd : Commands \cup {Blank},
            file : 0 .. MaxFiles, tries : 0 .. Repeats, result : Results]

\* What may be said of the locals x of a thread t that is at p.
LocalsOK(t, p, x) ==
    /\ p = "idle" => x = IdleRun
    /\ t \in Runs =>
         /\ p # "waiting"
         /\ p # "idle" => x.line \in Lines /\ x.text \in Texts
         /\ p \in InSection => x.cmd \in Commands
    /\ t \in FileNames =>
         /\ p \in {"idle", "waiting", "repeat", "command", "notify", "finish"}
         /\ p # "idle" => x.file = t

ProcessTyped ==
    /\ proc \in {"down", "loading", "running", "stopping"}
    /\ cancelled \in BOOLEAN
    /\ day \in Days
    /\ disabled \subseteq Toggleable
    /\ queue \in Seq(Requests) /\ Len(queue) <= QueueCap
    /\ pending \in Seq(FileNames)
    /\ active \subseteq Commands \X Specs

FilesTyped ==
    /\ files \subseteq FileNames
    /\ content \in [FileNames -> Commands \cup {Blank}]
    /\ born \in [FileNames -> 0 .. MaxDay]
    /\ lastName \in 0 .. MaxFiles

ThreadsTyped ==
    /\ pc \in [Threads -> PCs]
    /\ run \in [Threads -> RunType]
    /\ \A t \in Threads : LocalsOK(t, pc[t], run[t])

\* Every variable has its type, the trigger channel respects its capacity, and
\* a thread has the locals of the place it is at.
TypeOK == ProcessTyped /\ FilesTyped /\ ThreadsTyped

\* De-duplication (dedup.go, runJobWithCommand): no two runs with the same
\* command and schedule are between DeDup.Add and the deferred DeDup.Remove,
\* whether cron fired them or a user did.
NoDuplicateRuns ==
    DeDupEnabled =>
        \A r1, r2 \in Runs :
            pc[r1] \in InSection /\ pc[r2] \in InSection /\ Key(r1) = Key(r2) => r1 = r2

\* A key is in the de-duplication map exactly while a run holds it: no way out
\* of runJobWithCommand leaves behind a key that would block its job for good.
KeysAreHeld ==
    active = IF DeDupEnabled THEN {Key(r) : r \in {q \in Runs : pc[q] \in InSection}} ELSE {}

\* With --resume, the command of a thread is in a flag file from before it may
\* start until its outcome is settled, so that a kill at any step leaves it to
\* be resumed (Resumer.OnStart before executeCommand, OnFinish after).
Journaled ==
    ResumeEnabled =>
        \A t \in Threads : pc[t] \in {"start"} \cup Executing =>
            run[t].file \in files /\ content[run[t].file] = run[t].cmd

\* No two threads answer for the same flag file, in particular a resumed
\* command and a run of the present process never do.
OneOwnerPerFile ==
    \A t1, t2 \in Threads :
        run[t1].file = run[t2].file /\ run[t1].file # NoFile => t1 = t2

\* Interrupted files still to be resumed are on disk, older than any file of
\* this process, in the order of their names, and nobody works on them.
PendingUntouched ==
    /\ \A i \in DOMAIN pending :
         /\ pending[i] \in files /\ pending[i] <= lastName
         /\ \A j \in DOMAIN pending : i < j => pending[i] < pending[j]
         /\ \A t \in Threads : run[t].file # pending[i]

\* A run ends without error, loses its flag file and is reported completed
\* only if its command exited with success -- except that a cancellation
\* before the first attempt may count as a success: Do returns the nil error it
\* began with when it sees the closed channel of the strategy before ctx.Done.
SuccessIsEarned ==
    \A r \in Runs : pc[r] = "finish" =>
        run[r].result = "ok" \/ (run[r].result = "none" /\ run[r].tries = 0 /\ cancelled)

\* At most --resume-concur interrupted commands execute at the same time.
ResumeBounded == Cardinality(Resuming) <= ResumeConcurrency

\* A key is never held for ever: the job can run again.
KeyReleased == \A k \in Commands \X Specs : (k \in active) ~> (k \notin active)

\* After SIGTERM the process ends, whatever is postponed, retried or queued.
ShutdownCompletes == cancelled ~> ~Up

\* Every interrupted command found at the start gets its turn and ends.
InterruptedResumed ==
    \A n \in FileNames :
        (\E i \in DOMAIN pending : pending[i] = n)
            ~> (pc[n] = "idle" /\ \A i \in DOMAIN pending : pending[i] # n)

-----------------------------------------------------------------------------
(* What the documentation says and the code does not do.                     *)

\* README: "graceful shutdown waits for running jobs".  When nothing keeps Do
\* from returning, no command is executing.
ShutdownWaits == proc = "stopping" /\ CronIdle => \A t \in Threads : pc[t] # "command"

-----------------------------------------------------------------------------
(* The scheduler implements a journal of the commands it executes.           *)

\* The files whose command a thread is executing, and the complete files.
Busy == {run[t].file : t \in {u \in Threads : pc[u] \in Executing \cup {"start"}}}
Entries == {n \in files : content[n] # Blank}
EntryCommand == [n \in FileNames |-> IF n \in Entries THEN content[n] ELSE Blank]
EntryDay == [n \in FileNames |-> IF n \in Entries THEN born[n] ELSE 0]
BusyEntries == Busy \cap Entries

Journal == INSTANCE CommandJournal WITH
    Names <- FileNames,
    entries <- Entries,
    command <- EntryCommand,
    written <- EntryDay,
    busy <- BusyEntries
JournalSpec == Journal!Spec
=============================================================================
