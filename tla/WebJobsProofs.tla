---------------------------- MODULE WebJobsProofs ----------------------------
(***************************************************************************)
(* Proofs about WebJobs: its type invariant; that a job is said to be      *)
(* running exactly while a run of it is tracked, and a tracked run ends;   *)
(* that a browser's poll or inspector misses no run; and that the stage of *)
(* a run, the last run of a job and a user's switch are never undone.      *)
(***************************************************************************)
EXTENDS WebJobs, FiniteSetTheorems, SequenceTheorems, TLAPS

\* No copy of a row that a goroutine holds is of a running job.
CopiesRest == \A a \in Actors : \A j \in Jobs : ~local[a].table[j].running

\* The event processor works on an event of a run, and records and cleans up
\* after one that completes a run.
EventKnown ==
    /\ pc["events"] \in {"apply", "record", "cleanup"} => Run \in RunIds /\ Event \in {"started"} \cup Outcomes
    /\ pc["events"] \in {"record", "cleanup"} => Event \in Outcomes

\* The inductive form of TypeOK.
Inductive == TypeOK /\ CopiesRest /\ EventKnown

-----------------------------------------------------------------------------
(* Rows and tables.                                                          *)

LEMMA Bounds == MaxRuns \in Nat /\ EventCap \in Nat /\ HistoryLimit \in Nat
BY WebAssumption

LEMMA RunNumbers == RunIds \subseteq 0 .. MaxRuns
BY Bounds DEF RunIds

LEMMA LoopsAreApart ==
    /\ "sync" \in Actors /\ "events" \in Actors /\ "sync" # "events"
    /\ \A a \in Users \cup Clients : a \in Actors /\ a # "sync" /\ a # "events"
BY WebAssumption DEF Actors

LEMMA RowsTyped ==
    /\ NoJob \in JobInfo /\ NewJob \in JobInfo /\ Empty \in Table
    /\ ~NoJob.running /\ ~NewJob.running /\ \A j \in Jobs : ~Empty[j].running
    /\ NoJob # NewJob /\ NoJob.lastRun = 0 /\ NewJob.lastRun = 0
<1>1. NoJob \in JobInfo /\ ~NoJob.running /\ NoJob.lastRun = 0 /\ NoJob.status = "none"
  BY Bounds DEF NoJob, JobInfo
<1>2. /\ NewJob \in JobInfo /\ NewJob.running = NoJob.running /\ NewJob.lastRun = NoJob.lastRun
      /\ NewJob.status = "idle"
  BY <1>1 DEF NewJob, JobInfo, Statuses
<1>3. Empty \in Table /\ \A j \in Jobs : ~Empty[j].running
  BY <1>1 DEF Empty, Table
<1> QED BY <1>1, <1>2, <1>3

\* The locals of a goroutine that waits.
LEMMA NoLocalTyped ==
    /\ NoLocal \in Locals /\ NoLocal.run = 0 /\ NoLocal.event = "none"
    /\ \A j \in Jobs : ~NoLocal.table[j].running
<1>1. (CHOOSE j \in Jobs : TRUE) \in Jobs
  BY WebAssumption
<1> QED BY <1>1, RowsTyped, Bounds DEF NoLocal, Locals

\* A goroutine that is done goes back to wait.
LEMMA DoneTyped ==
    ASSUME Inductive, NEW a \in Actors, Done(a)
    PROVE  /\ pc' \in [Actors -> Labels] /\ local' \in [Actors -> Locals]
           /\ CopiesRest' /\ EventKnown'
<1>1. pc' \in [Actors -> Labels] /\ local' \in [Actors -> Locals]
  BY NoLocalTyped DEF Inductive, TypeOK, Done, Goto, Labels
<1>2. CopiesRest'
  BY NoLocalTyped DEF Inductive, TypeOK, CopiesRest, Done
<1>3. EventKnown'
  BY LoopsAreApart DEF Inductive, TypeOK, EventKnown, Done, Goto, Run, Event
<1> QED BY <1>1, <1>2, <1>3

\* A goroutine other than the event processor, or the processor itself when it
\* has to do no more with its event, goes to a label and keeps its locals.
LEMMA GotoTyped ==
    ASSUME Inductive, NEW a \in Actors, NEW label \in Labels, Goto(a, label), UNCHANGED local,
           a = "events" => label \notin {"apply", "record", "cleanup"}
    PROVE  pc' \in [Actors -> Labels] /\ local' \in [Actors -> Locals] /\ CopiesRest' /\ EventKnown'
<1>1. pc' \in [Actors -> Labels] /\ local' \in [Actors -> Locals] /\ CopiesRest'
  BY DEF Inductive, TypeOK, CopiesRest, Goto
<1>2. EventKnown'
  BY LoopsAreApart DEF Inductive, TypeOK, EventKnown, Goto, Run, Event
<1> QED BY <1>1, <1>2

\* A goroutine other than the event processor goes to a label and sets its
\* locals.
LEMMA LocalTyped ==
    ASSUME Inductive, NEW a \in Actors, NEW label \in Labels, Goto(a, label), a # "events",
           NEW l \in Locals, local' = [local EXCEPT ![a] = l], \A j \in Jobs : ~l.table[j].running
    PROVE  pc' \in [Actors -> Labels] /\ local' \in [Actors -> Locals] /\ CopiesRest' /\ EventKnown'
<1>1. pc' \in [Actors -> Labels] /\ local' \in [Actors -> Locals] /\ CopiesRest'
  BY DEF Inductive, TypeOK, CopiesRest, Goto
<1>2. EventKnown'
  BY LoopsAreApart DEF Inductive, TypeOK, EventKnown, Goto, Run, Event
<1> QED BY <1>1, <1>2

-----------------------------------------------------------------------------
(* The process, the scheduler and the events.                                *)

\* The first states, before the process starts.
LEMMA InductiveInit == Init => Inductive
<1> SUFFICES ASSUME Init PROVE Inductive
  OBVIOUS
<1>1. <<>> \in Seq(Sent) /\ Len(<<>>) = 0
  OBVIOUS
<1>2. TypeOK
  <2>1. pc \in [Actors -> Labels] /\ local \in [Actors -> Locals]
    BY NoLocalTyped DEF Init, Labels
  <2>2. jobs \in Table /\ stored \in Table /\ \A j \in Jobs : ~stored[j].running
    BY RowsTyped DEF Init
  <2>3. /\ phase \in [RunIds -> {"none", "begun", "executing", "killed"} \cup Outcomes]
        /\ recorded \in [RunIds -> {"none"} \cup Outcomes]
        /\ active \in [Jobs -> SUBSET RunIds] /\ \A j \in Jobs : \A n \in active[j] : jobOf[n] = j
    BY DEF Init
  <2> QED BY <1>1, <2>1, <2>2, <2>3, Bounds DEF Init, TypeOK
<1>3. CopiesRest
  BY NoLocalTyped DEF Init, CopiesRest
<1>4. EventKnown
  BY LoopsAreApart DEF Init, EventKnown
<1> QED BY <1>2, <1>3, <1>4 DEF Inductive

LEMMA InductiveProcess ==
    ASSUME Inductive, Boot \/ Terminate \/ Die \/ \E c \in Crontabs : EditCrontab(c)
    PROVE  Inductive'
<1>1. CASE Boot
  <2>1. pc' \in [Actors -> Labels] /\ pc'["events"] = "wait"
    BY <1>1, LoopsAreApart DEF Boot, Labels
  <2>2. jobs' \in Table
    BY <1>1, RowsTyped DEF Boot, Inductive, TypeOK
  <2> QED BY <1>1, <2>1, <2>2 DEF Boot, Inductive, TypeOK, CopiesRest, EventKnown, storeVars
<1>2. CASE Terminate
  BY <1>2 DEF Terminate, Inductive, TypeOK, CopiesRest, EventKnown, Run, Event, storeVars
<1>3. CASE Die
  <2>1. pc' \in [Actors -> Labels] /\ pc'["events"] = "stopped"
    BY <1>3, LoopsAreApart DEF Die, Labels
  <2>2. local' \in [Actors -> Locals] /\ CopiesRest'
    BY <1>3, NoLocalTyped DEF Die, CopiesRest
  <2>3. /\ phase' \in [RunIds -> {"none", "begun", "executing", "killed"} \cup Outcomes]
        /\ active' \in [Jobs -> SUBSET RunIds] /\ \A j \in Jobs : \A n \in active'[j] : jobOf[n] = j
    BY <1>3 DEF Die, Inductive, TypeOK
  <2>4. events' \in Seq(Sent) /\ Len(events') <= EventCap /\ jobs' \in Table
    BY <1>3, Bounds, RowsTyped DEF Die
  <2> QED BY <1>3, <2>1, <2>2, <2>3, <2>4 DEF Die, Inductive, TypeOK, EventKnown, storeVars
<1>4. CASE \E c \in Crontabs : EditCrontab(c)
  BY <1>4 DEF EditCrontab, Inductive, TypeOK, CopiesRest, EventKnown, Run, Event, storeVars
<1> QED BY <1>1, <1>2, <1>3, <1>4

\* An event is sent when there is a place for it.
LEMMA SendTyped ==
    ASSUME Inductive, NEW event \in {"started"} \cup Outcomes, NEW n \in RunIds, Send(event, n)
    PROVE  events' \in Seq(Sent) /\ Len(events') <= EventCap
<1> DEFINE e == [event |-> event, run |-> n]
           length == Len(events)
<1>1. events \in Seq(Sent) /\ length <= EventCap /\ length \in Nat
  BY LenProperties DEF Inductive, TypeOK
<1>2. CASE EventsFull
  BY <1>1, <1>2 DEF Send
<1>3. CASE ~EventsFull
  <2>1. e \in Sent /\ events' = Append(events, e) /\ ~(length >= EventCap)
    BY <1>3 DEF Send, EventsFull, Sent
  <2> HIDE DEF e
  <2>2. Append(events, e) \in Seq(Sent) /\ Len(Append(events, e)) = length + 1
    BY <1>1, <2>1, AppendProperties
  <2> HIDE DEF length
  <2>3. length + 1 <= EventCap
    BY <1>1, <2>1, Bounds
  <2> QED BY <2>1, <2>2, <2>3
<1> QED BY <1>2, <1>3

LEMMA InductiveScheduled ==
    ASSUME Inductive, NEW n \in RunIds, Scheduled(n)
    PROVE  Inductive'
<1>1. CASE BeginRun(n)
  BY <1>1 DEF BeginRun, Inductive, TypeOK, CopiesRest, EventKnown, Run, Event, storeVars
<1>2. CASE OnJobStart(n)
  <2>1. events' \in Seq(Sent) /\ Len(events') <= EventCap
    BY <1>2, SendTyped DEF OnJobStart
  <2> QED BY <1>2, <2>1 DEF OnJobStart, Inductive, TypeOK, CopiesRest, EventKnown, Run, Event, storeVars
<1>3. ASSUME NEW outcome \in Outcomes, OnJobComplete(n, outcome)
      PROVE  Inductive'
  <2>1. events' \in Seq(Sent) /\ Len(events') <= EventCap
    BY <1>3, SendTyped DEF OnJobComplete
  <2> QED BY <1>3, <2>1 DEF OnJobComplete, Inductive, TypeOK, CopiesRest, EventKnown, Run, Event, storeVars
<1> QED BY <1>1, <1>2, <1>3 DEF Scheduled, Ends

-----------------------------------------------------------------------------
(* The rows that are saved, and the sync with the crontab.                   *)

\* The rows to save are of jobs at rest: a running one has the status of one.
LEMMA SavedTyped ==
    ASSUME Inductive
    PROVE  RowsToSave \in Table /\ \A j \in Jobs : ~RowsToSave[j].running
<1> DEFINE row(j) == [jobs[j] EXCEPT !.running = FALSE,
                                     !.status = IF jobs[j].running THEN "running" ELSE @]
<1>1. ASSUME NEW j \in Jobs
      PROVE  row(j) \in JobInfo /\ ~row(j).running
  <2>1. jobs[j] \in JobInfo
    BY DEF Inductive, TypeOK, Table
  <2> QED BY <2>1 DEF JobInfo, Statuses
<1>2. RowsToSave = [j \in Jobs |-> row(j)]
  BY DEF RowsToSave
<1> HIDE DEF row
<1> QED BY <1>1, <1>2 DEF Table

LEMMA InductivePersist ==
    ASSUME Inductive, NEW a \in Actors, Persist(a)
    PROVE  Inductive'
<1>1. CASE Snapshot(a)
  <2>1. pc' \in [Actors -> Labels]
    BY <1>1 DEF Snapshot, Goto, Inductive, TypeOK, Labels
  <2>2. local' \in [Actors -> Locals] /\ CopiesRest'
    <3>1. [local[a] EXCEPT !.table = RowsToSave] \in Locals
      BY SavedTyped DEF Inductive, TypeOK, Locals
    <3>2. local' = [local EXCEPT ![a] = [local[a] EXCEPT !.table = RowsToSave]]
      BY <1>1 DEF Snapshot
    <3>3. local' \in [Actors -> Locals]
      BY <3>1, <3>2 DEF Inductive, TypeOK
    <3>4. ASSUME NEW b \in Actors, NEW j \in Jobs
          PROVE  ~local'[b].table[j].running
      <4>1. CASE b = a
        <5>1. local'[b].table = RowsToSave
          BY <3>2, <4>1 DEF Inductive, TypeOK, Locals
        <5> QED BY <5>1, SavedTyped
      <4>2. CASE b # a
        BY <3>2, <4>2 DEF Inductive, TypeOK, CopiesRest
      <4> QED BY <4>1, <4>2
    <3> QED BY <3>3, <3>4 DEF CopiesRest
  <2>3. EventKnown'
    BY <1>1, LoopsAreApart DEF Snapshot, Goto, Inductive, TypeOK, EventKnown, Run, Event
  <2> QED BY <1>1, <2>1, <2>2, <2>3 DEF Snapshot, Inductive, TypeOK, storeVars
<1>2. CASE Save(a)
  <2>1. /\ pc' \in [Actors -> Labels] /\ local' \in [Actors -> Locals]
        /\ CopiesRest' /\ EventKnown'
    BY <1>2, DoneTyped DEF Save
  <2>2. stored' \in Table /\ \A j \in Jobs : ~stored'[j].running
    <3>1. local[a].table \in Table /\ \A j \in Jobs : ~local[a].table[j].running
      BY DEF Inductive, TypeOK, CopiesRest, Locals
    <3> QED BY <1>2, <3>1 DEF Save, Row, Inductive, TypeOK, Table
  <2> QED BY <1>2, <2>1, <2>2 DEF Save, Inductive, TypeOK
<1> QED BY <1>1, <1>2 DEF Persist

LEMMA InductiveSync == ASSUME Inductive, SyncList \/ SyncApply PROVE Inductive'
<1>1. CASE SyncList
  <2> DEFINE specs == [j \in Jobs |-> IF j \in crontab THEN NewJob ELSE NoJob]
             l == [local["sync"] EXCEPT !.table = specs]
  <2>1. specs \in Table /\ \A j \in Jobs : ~specs[j].running
    BY RowsTyped DEF Table
  <2> HIDE DEF specs
  <2>2. l \in Locals /\ l.table = specs
    BY <2>1, LoopsAreApart DEF Inductive, TypeOK, Locals
  <2>3. local' = [local EXCEPT !["sync"] = l] /\ Goto("sync", "apply")
    BY <1>1 DEF SyncList, specs
  <2> HIDE DEF l
  <2>4. pc' \in [Actors -> Labels] /\ local' \in [Actors -> Locals] /\ CopiesRest' /\ EventKnown'
    BY <2>1, <2>2, <2>3, LoopsAreApart, LocalTyped DEF Labels
  <2> QED BY <1>1, <2>4 DEF SyncList, Inductive, TypeOK, storeVars
<1>2. CASE SyncApply
  <2>1. pc' \in [Actors -> Labels] /\ local' \in [Actors -> Locals] /\ CopiesRest' /\ EventKnown'
    BY <1>2, LoopsAreApart, GotoTyped DEF SyncApply, Labels
  <2>2. jobs' \in Table
    BY <1>2, LoopsAreApart DEF SyncApply, Merged, Inductive, TypeOK, Locals, Table
  <2> QED BY <1>2, <2>1, <2>2 DEF SyncApply, Inductive, TypeOK, storeVars
<1> QED BY <1>1, <1>2

LEMMA InductiveStop == ASSUME Inductive, NEW a \in {"sync", "events"}, StopLoop(a) PROVE Inductive'
<1>1. pc' \in [Actors -> Labels] /\ local' \in [Actors -> Locals] /\ CopiesRest' /\ EventKnown'
  BY LoopsAreApart, GotoTyped DEF StopLoop, Labels
<1> QED BY <1>1 DEF StopLoop, Inductive, TypeOK, storeVars

-----------------------------------------------------------------------------
(* The event processor.                                                      *)

\* The processor goes to a label with the event it has, if that fits.
LEMMA EventsGotoTyped ==
    ASSUME Inductive, NEW label \in Labels, Goto("events", label), UNCHANGED local,
           label \in {"apply", "record", "cleanup"} => Run \in RunIds /\ Event \in Outcomes
    PROVE  pc' \in [Actors -> Labels] /\ local' \in [Actors -> Locals] /\ CopiesRest' /\ EventKnown'
<1>1. pc' \in [Actors -> Labels] /\ local' \in [Actors -> Locals] /\ CopiesRest'
  BY LoopsAreApart DEF Inductive, TypeOK, CopiesRest, Goto
<1>2. EventKnown'
  BY LoopsAreApart DEF Inductive, TypeOK, EventKnown, Goto, Run, Event
<1> QED BY <1>1, <1>2

LEMMA InductiveReceive == ASSUME Inductive, Receive PROVE Inductive'
<1> DEFINE e == Head(events)
           l == [local["events"] EXCEPT !.event = e.event, !.run = e.run]
           label == IF e.event = "started" THEN "apply" ELSE NextStep.wait
<1>1. e \in Sent /\ events' \in Seq(Sent) /\ Len(events') <= EventCap
  <2>1. events \in Seq(Sent) /\ events # <<>> /\ events' = Tail(events)
    BY DEF Receive, Inductive, TypeOK
  <2> DEFINE length == Len(events)
             rest == Len(events')
  <2>2. e \in Sent /\ events' \in Seq(Sent) /\ rest = length - 1
    BY <2>1, HeadTailProperties
  <2>3. length \in Nat /\ length <= EventCap
    BY <2>1, LenProperties DEF Inductive, TypeOK
  <2>4. rest <= EventCap
    <3> HIDE DEF length, rest
    <3> QED BY <2>2, <2>3, Bounds
  <2> QED BY <2>2, <2>4
<1> HIDE DEF e
<1>2. /\ e.run \in RunIds /\ e.event \in {"started"} \cup Outcomes
      /\ label \in {"apply", "record"} /\ (label = "record" => e.event \in Outcomes)
  BY <1>1 DEF Sent, NextStep
<1>3. Goto("events", label) /\ local' = [local EXCEPT !["events"] = l]
  BY DEF Receive, e
<1>4. l \in Locals /\ l.run = e.run /\ l.event = e.event /\ l.table = local["events"].table
  <2>1. local["events"] \in Locals /\ e.run \in 0 .. MaxRuns
    BY <1>2, RunNumbers, LoopsAreApart DEF Inductive, TypeOK
  <2> QED BY <1>2, <2>1 DEF Locals
<1> HIDE DEF l, label
<1>5. pc' \in [Actors -> Labels] /\ pc'["events"] = label
  BY <1>2, <1>3, LoopsAreApart DEF Goto, Inductive, TypeOK, Labels
<1>6. local' \in [Actors -> Locals] /\ local'["events"] = l /\ CopiesRest'
  BY <1>3, <1>4, LoopsAreApart DEF Inductive, TypeOK, CopiesRest
<1>7. EventKnown'
  BY <1>2, <1>4, <1>5, <1>6 DEF EventKnown, Run, Event
<1> QED BY <1>1, <1>5, <1>6, <1>7 DEF Receive, Inductive, TypeOK, storeVars

LEMMA InductiveRecord == ASSUME Inductive, Record \/ Cleanup PROVE Inductive'
<1>1. Run \in RunIds /\ Event \in Outcomes
  BY DEF Record, Cleanup, Inductive, EventKnown
<1>2. pc' \in [Actors -> Labels] /\ local' \in [Actors -> Locals] /\ CopiesRest' /\ EventKnown'
  <2>1. CASE Record
    BY <1>1, <2>1, EventsGotoTyped DEF Record, NextStep, Labels
  <2>2. CASE Cleanup
    BY <1>1, <2>2, EventsGotoTyped DEF Cleanup, NextStep, Labels
  <2> QED BY <2>1, <2>2
<1>3. recorded' \in [RunIds -> {"none"} \cup Outcomes]
  BY <1>1 DEF Record, Cleanup, Inductive, TypeOK
<1> QED BY <1>2, <1>3 DEF Record, Cleanup, Inductive, TypeOK

\* The entry an event is applied to.
LEMMA EntryTyped ==
    ASSUME Inductive, NEW j \in Jobs
    PROVE  Entry(j) \in JobInfo /\ (jobs[j] # NoJob => Entry(j) = jobs[j])
BY RowsTyped DEF Inductive, TypeOK, Entry, Table

LEMMA LastRunTyped ==
    ASSUME NEW row \in JobInfo, NEW n \in RunIds
    PROVE  LastRun(row, n) \in 0 .. MaxRuns /\ LastRun(row, n) >= row.lastRun
BY Bounds DEF LastRun, JobInfo, RunIds

LEMMA StartedTyped ==
    ASSUME Inductive, NEW n \in RunIds, Started(jobOf[n], n)
    PROVE  /\ jobs' \in Table /\ active' \in [Jobs -> SUBSET RunIds]
           /\ \A j \in Jobs : \A k \in active'[j] : jobOf[k] = j
<1> DEFINE j == jobOf[n]
           row == [Entry(j) EXCEPT !.running = TRUE, !.status = "running",
                                   !.lastRun = LastRun(Entry(j), n)]
<1>1. j \in Jobs
  BY DEF Inductive, TypeOK
<1>2. row \in JobInfo
  <2>1. Entry(j) \in JobInfo /\ LastRun(Entry(j), n) \in 0 .. MaxRuns
    BY <1>1, EntryTyped, LastRunTyped
  <2> QED BY <2>1 DEF JobInfo, Statuses
<1>3. jobs' = [jobs EXCEPT ![j] = row] /\ active' = [active EXCEPT ![j] = @ \cup {n}]
  BY DEF Started
<1> HIDE DEF row
<1> QED BY <1>1, <1>2, <1>3 DEF Inductive, TypeOK, Table

LEMMA FinishedTyped ==
    ASSUME Inductive, NEW n \in RunIds, NEW outcome \in Outcomes, Finished(jobOf[n], n, outcome)
    PROVE  /\ jobs' \in Table /\ active' \in [Jobs -> SUBSET RunIds]
           /\ \A j \in Jobs : \A k \in active'[j] : jobOf[k] = j
<1> DEFINE j == jobOf[n]
           row == [Entry(j) EXCEPT !.running = StillRunning(j, n),
                                   !.status = IF StillRunning(j, n) THEN "running" ELSE outcome]
<1>1. j \in Jobs
  BY DEF Inductive, TypeOK
<1>2. row \in JobInfo
  <2>1. Entry(j) \in JobInfo /\ StillRunning(j, n) \in BOOLEAN
    BY <1>1, EntryTyped DEF StillRunning
  <2> QED BY <2>1 DEF JobInfo, Statuses, Outcomes
<1>3. jobs' = [jobs EXCEPT ![j] = row] /\ active' = [active EXCEPT ![j] = @ \ {n}]
  BY DEF Finished
<1> HIDE DEF row
<1> QED BY <1>1, <1>2, <1>3 DEF Inductive, TypeOK, Table

LEMMA InductiveApply == ASSUME Inductive, ApplyEvent PROVE Inductive'
<1>1. Run \in RunIds /\ Event \in {"started"} \cup Outcomes
  BY DEF ApplyEvent, Inductive, EventKnown
<1>2. CASE Event = "started" /\ Started(jobOf[Run], Run) /\ Done("events")
  <2>1. pc' \in [Actors -> Labels] /\ local' \in [Actors -> Locals] /\ CopiesRest' /\ EventKnown'
    BY <1>2, DoneTyped, LoopsAreApart
  <2>2. /\ jobs' \in Table /\ active' \in [Jobs -> SUBSET RunIds]
        /\ \A j \in Jobs : \A k \in active'[j] : jobOf[k] = j
    BY <1>1, <1>2, StartedTyped
  <2> QED BY <2>1, <2>2 DEF ApplyEvent, Inductive, TypeOK, storeVars
<1>3. CASE /\ Event # "started" /\ Finished(jobOf[Run], Run, Event)
           /\ Goto("events", NextStep.apply) /\ UNCHANGED local
  <2>1. pc' \in [Actors -> Labels] /\ local' \in [Actors -> Locals] /\ CopiesRest' /\ EventKnown'
    BY <1>1, <1>3, EventsGotoTyped DEF NextStep, Labels
  <2>2. /\ jobs' \in Table /\ active' \in [Jobs -> SUBSET RunIds]
        /\ \A j \in Jobs : \A k \in active'[j] : jobOf[k] = j
    BY <1>1, <1>3, FinishedTyped
  <2> QED BY <2>1, <2>2 DEF ApplyEvent, Inductive, TypeOK, storeVars
<1> QED BY <1>2, <1>3 DEF ApplyEvent

-----------------------------------------------------------------------------
(* The handlers.                                                             *)

LEMMA InductiveToggle == ASSUME Inductive, NEW u \in Users, NEW j \in Jobs, Toggle(u, j) PROVE Inductive'
<1>1. pc' \in [Actors -> Labels] /\ local' \in [Actors -> Locals] /\ CopiesRest' /\ EventKnown'
  BY LoopsAreApart, GotoTyped DEF Toggle, Labels
<1>2. jobs' \in Table
  <2>1. [jobs[j] EXCEPT !.enabled = ~@] \in JobInfo
    BY DEF Inductive, TypeOK, Table, JobInfo
  <2>2. jobs' = [jobs EXCEPT ![j] = [jobs[j] EXCEPT !.enabled = ~@]]
    BY DEF Toggle
  <2> QED BY <2>1, <2>2 DEF Inductive, TypeOK, Table
<1> QED BY <1>1, <1>2 DEF Toggle, Inductive, TypeOK, storeVars

LEMMA InductiveClient ==
    ASSUME Inductive, NEW c \in Clients, ClientAction(c) \/ ClientStep(c)
    PROVE  Inductive'
<1> DEFINE Typed == pc' \in [Actors -> Labels] /\ local' \in [Actors -> Locals] /\ CopiesRest' /\ EventKnown'
<1>1. /\ c \in Actors /\ c # "events"
      /\ local[c] \in Locals /\ local[c].table \in Table /\ \A j \in Jobs : ~local[c].table[j].running
  BY LoopsAreApart DEF Inductive, TypeOK, CopiesRest, Locals
<1>2. \A j \in Jobs : Rows(j) \subseteq RunIds /\ active[j] \subseteq RunIds
  BY DEF Rows, Inductive, TypeOK
<1>3. CASE Poll(c)
  <2>1. CASE Done(c)
    <3>1. Typed
      BY <1>1, <2>1, DoneTyped
    <3> QED BY <1>3, <3>1 DEF Poll, Inductive, TypeOK, storeVars
  <2>2. CASE Goto(c, "lookup") /\ UNCHANGED local
    <3>1. Typed
      BY <1>1, <2>2, GotoTyped DEF Labels
    <3> QED BY <1>3, <3>1 DEF Poll, Inductive, TypeOK, storeVars
  <2> QED BY <1>3, <2>1, <2>2 DEF Poll
<1>4. CASE Lookup(c)
  <2>1. Typed
    BY <1>1, <1>4, GotoTyped DEF Lookup, Labels
  <2> QED BY <1>4, <2>1 DEF Lookup, Inductive, TypeOK, storeVars
<1>5. CASE Close(c)
  <2>1. Typed
    BY <1>1, <1>5, DoneTyped DEF Close
  <2> QED BY <1>5, <2>1 DEF Close, Inductive, TypeOK, storeVars
<1>6. CASE InspectHistory(c)
  <2> DEFINE l == [local[c] EXCEPT !.seen = @ \cup Rows(local[c].job)]
  <2>1. l \in Locals /\ l.table = local[c].table
    BY <1>1, <1>2 DEF Locals
  <2>2. local' = [local EXCEPT ![c] = l] /\ Goto(c, "shown")
    BY <1>6 DEF InspectHistory, View
  <2> HIDE DEF l
  <2>3. Typed
    BY <1>1, <2>1, <2>2, LocalTyped DEF Labels
  <2> QED BY <1>6, <2>3 DEF InspectHistory, Inductive, TypeOK, storeVars
<1>7. ASSUME NEW j \in Jobs, Inspect(c, j)
      PROVE  Inductive'
  <2> DEFINE l == [local[c] EXCEPT !.job = j, !.seen = active[j], !.known = active[j] \cup Rows(j)]
  <2>1. l \in Locals /\ l.table = local[c].table
    BY <1>1, <1>2 DEF Locals
  <2>2. local' = [local EXCEPT ![c] = l] /\ Goto(c, "history")
    BY <1>7 DEF Inspect, View
  <2> HIDE DEF l
  <2>3. Typed
    BY <1>1, <2>1, <2>2, LocalTyped DEF Labels
  <2> QED BY <1>7, <2>3 DEF Inspect, Inductive, TypeOK, storeVars
<1>8. ASSUME NEW n \in RunIds, Watch(c, n)
      PROVE  Inductive'
  <2> DEFINE l == [local[c] EXCEPT !.run = n, !.job = jobOf[n]]
  <2>1. l \in Locals /\ l.table = local[c].table
    <3>1. n \in 0 .. MaxRuns /\ jobOf[n] \in Jobs
      BY RunNumbers DEF Inductive, TypeOK
    <3> QED BY <1>1, <3>1 DEF Locals
  <2>2. local' = [local EXCEPT ![c] = l] /\ Goto(c, "watching")
    BY <1>8 DEF Watch
  <2> HIDE DEF l
  <2>3. Typed
    BY <1>1, <2>1, <2>2, LocalTyped DEF Labels
  <2> QED BY <1>8, <2>3 DEF Watch, Inductive, TypeOK, storeVars
<1> QED BY <1>3, <1>4, <1>5, <1>6, <1>7, <1>8 DEF ClientAction, ClientStep

-----------------------------------------------------------------------------
(* The theorems.                                                             *)

LEMMA InductiveNext == Inductive /\ [Next]_vars => Inductive'
<1> SUFFICES ASSUME Inductive, [Next]_vars PROVE Inductive'
  OBVIOUS
<1>1. CASE UNCHANGED vars
  BY <1>1 DEF vars, storeVars, Inductive, TypeOK, CopiesRest, EventKnown, Run, Event
<1>2. CASE SyncStep \/ EventsStep
  BY <1>2, LoopsAreApart, InductiveSync, InductivePersist, InductiveReceive, InductiveRecord,
     InductiveApply DEF SyncStep, EventsStep
<1>3. CASE \/ \E a \in {"sync", "events"} : StopLoop(a)
           \/ \E u \in Users : Persist(u) \/ \E j \in Jobs : Toggle(u, j)
           \/ \E c \in Clients : ClientAction(c) \/ ClientStep(c)
  BY <1>3, LoopsAreApart, InductiveStop, InductivePersist, InductiveToggle, InductiveClient
<1>4. CASE \/ Boot \/ Terminate \/ Die \/ \E c \in Crontabs : EditCrontab(c)
           \/ \E n \in RunIds : Scheduled(n)
  BY <1>4, InductiveProcess, InductiveScheduled
<1> QED BY <1>1, <1>2, <1>3, <1>4 DEF Next

\* Every variable of WebJobs keeps its type, in every interleaving of the
\* event processor, the sync and the handlers, through crashes and failures of
\* the store: no saved row is of a running job, a run is tracked under its own
\* job, and the event channel respects its capacity.
THEOREM TypeCorrect == Spec => []TypeOK
<1>1. Inductive => TypeOK
  BY DEF Inductive
<1> QED BY <1>1, InductiveInit, InductiveNext, PTL DEF Spec

\* The steps that change the job table or the tracked runs.
LEMMA WhoChangesJobs ==
    ASSUME [Next]_vars
    PROVE  \/ UNCHANGED <<jobs, active>>
           \/ Boot \/ Die \/ SyncApply \/ ApplyEvent
           \/ \E u \in Users, j \in Jobs : Toggle(u, j)
<1>1. CASE UNCHANGED vars
  BY <1>1 DEF vars
<1>2. CASE Terminate \/ (\E c \in Crontabs : EditCrontab(c)) \/ \E n \in RunIds : Scheduled(n)
  BY <1>2 DEF Terminate, EditCrontab, Scheduled, BeginRun, OnJobStart, Ends, OnJobComplete
<1>3. CASE SyncList \/ Receive \/ Record \/ Cleanup \/ \E a \in {"sync", "events"} : StopLoop(a)
  BY <1>3 DEF SyncList, Receive, Record, Cleanup, StopLoop
<1>4. CASE Persist("sync") \/ Persist("events") \/ \E u \in Users : Persist(u)
  BY <1>4 DEF Persist, Snapshot, Save
<1>5. CASE \E c \in Clients : ClientAction(c) \/ ClientStep(c)
  BY <1>5 DEF ClientAction, ClientStep, Watch, Poll, Lookup, Inspect, InspectHistory, Close
<1> QED BY <1>1, <1>2, <1>3, <1>4, <1>5 DEF Next, SyncStep, EventsStep

\* What an event does to the row of a job.
LEMMA EventRow ==
    ASSUME Inductive, ApplyEvent
    PROVE  /\ Run \in RunIds /\ jobOf[Run] \in Jobs
           /\ \A j \in Jobs \ {jobOf[Run]} : jobs'[j] = jobs[j] /\ active'[j] = active[j]
           /\ jobs'[jobOf[Run]].enabled = Entry(jobOf[Run]).enabled
           /\ jobs'[jobOf[Run]].lastRun >= Entry(jobOf[Run]).lastRun
           /\ jobs'[jobOf[Run]].running => active'[jobOf[Run]] # {}
<1> DEFINE j == jobOf[Run]
<1>1. Run \in RunIds /\ j \in Jobs
  BY DEF ApplyEvent, Inductive, EventKnown, TypeOK
<1>2. Entry(j) \in JobInfo /\ Entry(j).lastRun \in Nat
  BY <1>1, EntryTyped, Bounds DEF JobInfo
<1>3. LastRun(Entry(j), Run) >= Entry(j).lastRun
  BY <1>1, <1>2, LastRunTyped
<1>4. CASE Started(j, Run)
  <2>1. /\ jobs' = [jobs EXCEPT ![j] = [Entry(j) EXCEPT !.running = TRUE, !.status = "running",
                                                        !.lastRun = LastRun(Entry(j), Run)]]
        /\ active' = [active EXCEPT ![j] = @ \cup {Run}]
    BY <1>4 DEF Started
  <2>2. /\ \A k \in Jobs \ {j} : jobs'[k] = jobs[k] /\ active'[k] = active[k]
        /\ Run \in active'[j]
    BY <1>1, <2>1 DEF Inductive, TypeOK, Table
  <2>3. jobs'[j].enabled = Entry(j).enabled /\ jobs'[j].lastRun = LastRun(Entry(j), Run)
    BY <1>1, <1>2, <2>1 DEF Inductive, TypeOK, Table, JobInfo
  <2> QED BY <1>1, <1>3, <2>2, <2>3
<1>5. CASE Finished(j, Run, Event)
  <2>1. /\ jobs' = [jobs EXCEPT ![j] =
                      [Entry(j) EXCEPT !.running = StillRunning(j, Run),
                                       !.status = IF StillRunning(j, Run) THEN "running" ELSE Event]]
        /\ active' = [active EXCEPT ![j] = @ \ {Run}]
    BY <1>5 DEF Finished
  <2>2. /\ \A k \in Jobs \ {j} : jobs'[k] = jobs[k] /\ active'[k] = active[k]
        /\ active'[j] = active[j] \ {Run}
    BY <1>1, <2>1 DEF Inductive, TypeOK, Table
  <2>3. /\ jobs'[j].enabled = Entry(j).enabled /\ jobs'[j].lastRun = Entry(j).lastRun
        /\ jobs'[j].running = StillRunning(j, Run)
    BY <1>1, <1>2, <2>1 DEF Inductive, TypeOK, Table, JobInfo
  <2>4. StillRunning(j, Run) => active'[j] # {}
    BY <2>2 DEF StillRunning
  <2> QED BY <1>1, <1>2, <2>2, <2>3, <2>4
<1> QED BY <1>4, <1>5 DEF ApplyEvent

LEMMA RunningIsActiveNext == Inductive /\ RunningIsActive /\ [Next]_vars => RunningIsActive'
<1> SUFFICES ASSUME Inductive, RunningIsActive, [Next]_vars, NEW j \in Jobs, jobs'[j].running
             PROVE  active'[j] # {}
  BY DEF RunningIsActive
<1>1. CASE UNCHANGED <<jobs, active>>
  BY <1>1 DEF RunningIsActive
<1>2. CASE Boot \/ Die
  BY <1>2, RowsTyped DEF Boot, Die, Inductive, TypeOK
<1>3. CASE SyncApply
  <2>1. ~local["sync"].table[j].running /\ active' = active
    BY <1>3, LoopsAreApart DEF SyncApply, Inductive, CopiesRest
  <2>2. jobs'[j] = jobs[j] \/ jobs'[j] = local["sync"].table[j]
    BY <1>3 DEF SyncApply, Merged
  <2> QED BY <2>1, <2>2 DEF RunningIsActive
<1>4. CASE ApplyEvent
  BY <1>4, EventRow DEF RunningIsActive
<1>5. ASSUME NEW u \in Users, NEW k \in Jobs, Toggle(u, k)
      PROVE  active'[j] # {}
  <2>1. jobs'[j].running = jobs[j].running /\ active' = active
    BY <1>5 DEF Toggle, Inductive, TypeOK, Table, JobInfo
  <2> QED BY <2>1 DEF RunningIsActive
<1> QED BY <1>1, <1>2, <1>3, <1>4, <1>5, WhoChangesJobs

\* A job said to be running has a run in progress in this process, whatever an
\* earlier process left behind, in whatever order events and syncs interleave.
THEOREM RunningHasRun == Spec => []RunningIsActive
<1>1. Init => RunningIsActive
  BY RowsTyped DEF Init, RunningIsActive
<1> QED BY <1>1, InductiveInit, InductiveNext, RunningIsActiveNext, PTL DEF Spec

LEMMA LastRunStep ==
    ASSUME Inductive, [Next]_vars, proc' = proc, NEW j \in Jobs, jobs'[j] # NoJob
    PROVE  jobs'[j].lastRun >= jobs[j].lastRun
<1>0. jobs[j] \in JobInfo /\ jobs[j].lastRun \in Nat
  BY Bounds DEF Inductive, TypeOK, Table, JobInfo
<1>1. CASE UNCHANGED <<jobs, active>>
  BY <1>0, <1>1
<1>2. CASE Boot \/ Die
  BY <1>2 DEF Boot, Die, Serving
<1>3. CASE SyncApply
  <2>1. local["sync"].table[j] \in JobInfo
    BY LoopsAreApart DEF Inductive, TypeOK, Locals, Table
  <2>2. local["sync"].table[j].lastRun >= 0
    BY <2>1, Bounds DEF JobInfo
  <2>3. jobs'[j] = jobs[j] \/ (jobs[j] = NoJob /\ jobs'[j] = local["sync"].table[j])
    BY <1>3 DEF SyncApply, Merged
  <2> QED BY <1>0, <2>2, <2>3, RowsTyped
<1>4. CASE ApplyEvent
  <2>1. CASE j # jobOf[Run]
    BY <1>0, <1>4, <2>1, EventRow
  <2>2. CASE j = jobOf[Run]
    <3>1. jobs'[j].lastRun >= Entry(j).lastRun
      BY <1>4, <2>2, EventRow
    <3>2. jobs[j].lastRun = Entry(j).lastRun
      BY RowsTyped DEF Entry
    <3> QED BY <3>1, <3>2
  <2> QED BY <2>1, <2>2
<1>5. ASSUME NEW u \in Users, NEW k \in Jobs, Toggle(u, k)
      PROVE  jobs'[j].lastRun >= jobs[j].lastRun
  <2>1. jobs'[j].lastRun = jobs[j].lastRun
    BY <1>0, <1>5 DEF Toggle, Inductive, TypeOK, Table, JobInfo
  <2> QED BY <1>0, <2>1
<1> QED BY <1>1, <1>2, <1>3, <1>4, <1>5, WhoChangesJobs

\* The last run of a listed job never goes back, in whatever order the starts
\* of its runs are announced, while a process runs.
THEOREM LastRunsAdvance == Spec => LastRunAdvances
<1>1. Inductive /\ [Next]_vars
        => [\A j \in Jobs : proc' = proc /\ jobs'[j] # NoJob => jobs'[j].lastRun >= jobs[j].lastRun]_vars
  BY LastRunStep
<1> QED BY <1>1, InductiveInit, InductiveNext, PTL DEF Spec, LastRunAdvances

LEMMA SwitchStep ==
    ASSUME Inductive, [Next]_vars, NEW j \in Jobs,
           jobs[j] # NoJob, jobs'[j] # NoJob, jobs'[j].enabled # jobs[j].enabled
    PROVE  proc' # proc \/ \E u \in Users : pc'[u] # pc[u]
<1>1. ~UNCHANGED <<jobs, active>>
  OBVIOUS
<1>2. CASE Boot \/ Die
  BY <1>2 DEF Boot, Die, Serving
<1>3. ~SyncApply
  BY DEF SyncApply, Merged
<1>4. ~ApplyEvent
  BY EventRow, EntryTyped
<1>5. CASE \E u \in Users, k \in Jobs : Toggle(u, k)
  BY <1>5, LoopsAreApart DEF Toggle, Goto, Inductive, TypeOK
<1> QED BY <1>1, <1>2, <1>3, <1>4, <1>5, WhoChangesJobs

\* While a process runs, a job is switched by a user only: no event and no
\* sync, with whatever it read before, undoes a switch.
THEOREM SwitchesAreKept == Spec => OnlyUsersSwitch
<1>1. Inductive /\ [Next]_vars
        => [\A j \in Jobs :
              jobs[j] # NoJob /\ jobs'[j] # NoJob /\ jobs'[j].enabled # jobs[j].enabled
                 => proc' # proc \/ \E u \in Users : pc'[u] # pc[u]]_vars
  BY SwitchStep
<1> QED BY <1>1, InductiveInit, InductiveNext, PTL DEF Spec, OnlyUsersSwitch

-----------------------------------------------------------------------------
(* A job that stays in the crontab.                                          *)

Permanent == {j \in Jobs : \A c \in Crontabs : j \in c}

\* While the process is down nothing runs in it and nothing is tracked.
Asleep ==
    proc = "down" => (\A a \in Actors : pc[a] = "stopped") /\ (\A j \in Jobs : active[j] = {})

\* The specs a sync is about to apply have the permanent jobs.
SpecsPermanent == pc["sync"] = "apply" => \A j \in Permanent : local["sync"].table[j] # NoJob

PermanentInv == Asleep /\ SpecsPermanent /\ RunningIffActive

\* What becomes of a goroutine in a step that is not its own.
LEMMA OthersStay ==
    ASSUME Inductive, [Next]_vars, NEW a \in Actors
    PROVE  \/ pc'[a] = pc[a] /\ local'[a] = local[a]
           \/ pc'[a] \in {"wait", "stopped"}
           \/ a = "sync" /\ SyncStep
           \/ a = "events" /\ EventsStep
           \/ a \in Users /\ (Persist(a) \/ \E j \in Jobs : Toggle(a, j))
           \/ a \in Clients /\ (ClientAction(a) \/ ClientStep(a))
<1>1. CASE UNCHANGED <<pc, local>>
  BY <1>1
<1>2. CASE Boot \/ Die
  BY <1>2 DEF Boot, Die
<1>3. CASE Terminate \/ (\E c \in Crontabs : EditCrontab(c)) \/ \E n \in RunIds : Scheduled(n)
  BY <1>1, <1>3 DEF Terminate, EditCrontab, Scheduled, BeginRun, OnJobStart, Ends, OnJobComplete
<1>4. CASE SyncStep
  BY <1>4, LoopsAreApart DEF SyncStep, SyncList, SyncApply, Persist, Snapshot, Save, Goto, Done, Inductive, TypeOK
<1>5. CASE EventsStep
  BY <1>5, LoopsAreApart DEF EventsStep, Receive, Record, Cleanup, ApplyEvent, Persist, Snapshot, Save,
                             Goto, Done, Inductive, TypeOK
<1>6. CASE \E b \in {"sync", "events"} : StopLoop(b)
  BY <1>6, LoopsAreApart DEF StopLoop, Goto, Inductive, TypeOK
<1>7. ASSUME NEW u \in Users, u # a, Persist(u) \/ \E j \in Jobs : Toggle(u, j)
      PROVE  pc'[a] = pc[a] /\ local'[a] = local[a]
  BY <1>7, LoopsAreApart DEF Persist, Snapshot, Save, Toggle, Goto, Done, Inductive, TypeOK
<1>8. ASSUME NEW c \in Clients, c # a, ClientAction(c) \/ ClientStep(c)
      PROVE  pc'[a] = pc[a] /\ local'[a] = local[a]
  BY <1>8, LoopsAreApart DEF ClientAction, ClientStep, Watch, Poll, Lookup, Inspect, InspectHistory, Close,
                             Goto, Done, Inductive, TypeOK
<1>9. CASE UNCHANGED vars
  BY <1>1, <1>9 DEF vars
<1> QED BY <1>1, <1>2, <1>3, <1>4, <1>5, <1>6, <1>7, <1>8, <1>9 DEF Next

LEMMA AsleepNext == Inductive /\ Asleep /\ [Next]_vars => Asleep'
<1> SUFFICES ASSUME Inductive, Asleep, [Next]_vars, proc' = "down"
             PROVE  (\A a \in Actors : pc'[a] = "stopped") /\ (\A j \in Jobs : active'[j] = {})
  BY DEF Asleep
<1>1. CASE Die
  BY <1>1 DEF Die
<1>2. CASE UNCHANGED <<proc, pc, active>>
  BY <1>2 DEF Asleep
<1>3. CASE proc = "down"
  <2>1. \A a \in Actors : pc[a] = "stopped"
    BY <1>3 DEF Asleep
  <2>2. ~SyncStep /\ ~EventsStep
    BY <2>1, LoopsAreApart DEF SyncStep, EventsStep, SyncList, SyncApply, Persist, Snapshot, Save,
                               Receive, Record, Cleanup, ApplyEvent
  <2>3. ~(\E a \in {"sync", "events"} : StopLoop(a)) /\ ~(\E u \in Users : Persist(u) \/ \E j \in Jobs : Toggle(u, j))
    BY <1>3, <2>1, LoopsAreApart DEF StopLoop, Persist, Snapshot, Save, Toggle
  <2>4. ~(\E c \in Clients : ClientAction(c) \/ ClientStep(c))
    BY <2>1, LoopsAreApart DEF ClientAction, ClientStep, Watch, Poll, Lookup, Inspect, InspectHistory, Close
  <2>5. CASE (\E c \in Crontabs : EditCrontab(c)) \/ \E k \in RunIds : Scheduled(k)
    BY <1>2, <2>5 DEF EditCrontab, Scheduled, BeginRun, OnJobStart, Ends, OnJobComplete
  <2>6. CASE UNCHANGED vars
    BY <1>2, <2>6 DEF vars
  <2> QED BY <1>1, <1>3, <2>2, <2>3, <2>4, <2>5, <2>6 DEF Next, Boot, Terminate
<1>4. CASE proc # "down"
  <2>1. proc' # proc
    BY <1>4
  <2>2. ~SyncStep /\ ~EventsStep
    BY <2>1 DEF SyncStep, EventsStep, SyncList, SyncApply, Persist, Snapshot, Save,
                Receive, Record, Cleanup, ApplyEvent
  <2>3. ~(\E a \in {"sync", "events"} : StopLoop(a)) /\ ~(\E u \in Users : Persist(u) \/ \E j \in Jobs : Toggle(u, j))
    BY <2>1 DEF StopLoop, Persist, Snapshot, Save, Toggle
  <2>4. ~(\E c \in Clients : ClientAction(c) \/ ClientStep(c))
    BY <2>1 DEF ClientAction, ClientStep, Watch, Poll, Lookup, Inspect, InspectHistory, Close
  <2>5. ~(\E c \in Crontabs : EditCrontab(c)) /\ ~(\E k \in RunIds : Scheduled(k))
    BY <2>1 DEF EditCrontab, Scheduled, BeginRun, OnJobStart, Ends, OnJobComplete
  <2>6. ~UNCHANGED vars
    BY <2>1 DEF vars
  <2> QED BY <1>1, <1>4, <2>2, <2>3, <2>4, <2>5, <2>6 DEF Next, Boot, Terminate
<1> QED BY <1>3, <1>4

LEMMA SpecsPermanentNext == Inductive /\ SpecsPermanent /\ [Next]_vars => SpecsPermanent'
<1> SUFFICES ASSUME Inductive, SpecsPermanent, [Next]_vars, pc'["sync"] = "apply", NEW j \in Permanent
             PROVE  local'["sync"].table[j] # NoJob
  BY DEF SpecsPermanent, Permanent
<1>1. CASE SyncList
  <2> DEFINE specs == [k \in Jobs |-> IF k \in crontab THEN NewJob ELSE NoJob]
  <2>1. local'["sync"].table = specs
    BY <1>1, LoopsAreApart DEF SyncList, Inductive, TypeOK, Locals
  <2>2. j \in Jobs /\ j \in crontab
    BY DEF Permanent, Inductive, TypeOK
  <2> QED BY <2>1, <2>2, RowsTyped
<1>2. CASE pc'["sync"] = pc["sync"] /\ local'["sync"] = local["sync"]
  BY <1>2 DEF SpecsPermanent
<1>3. CASE SyncApply \/ Persist("sync")
  BY <1>3, LoopsAreApart DEF SyncApply, Persist, Snapshot, Save, Goto, Done, Inductive, TypeOK
<1> QED BY <1>1, <1>2, <1>3, LoopsAreApart, OthersStay DEF SyncStep

\* What an event does to the mark of a job that runs.
LEMMA EventMark ==
    ASSUME Inductive, ApplyEvent, RunningIffActive, jobOf[Run] \in Permanent
    PROVE  jobs'[jobOf[Run]].running <=> active'[jobOf[Run]] # {}
<1> DEFINE j == jobOf[Run]
<1>1. Run \in RunIds /\ j \in Jobs /\ Entry(j) \in JobInfo
  BY EntryTyped DEF ApplyEvent, Inductive, EventKnown, TypeOK
<1>2. CASE Started(j, Run)
  <2> DEFINE row == [Entry(j) EXCEPT !.running = TRUE, !.status = "running", !.lastRun = LastRun(Entry(j), Run)]
  <2>1. row.running = TRUE
    BY <1>1 DEF JobInfo
  <2>2. jobs' = [jobs EXCEPT ![j] = row] /\ active' = [active EXCEPT ![j] = @ \cup {Run}]
    BY <1>2 DEF Started
  <2> HIDE DEF row
  <2> QED BY <1>1, <2>1, <2>2 DEF Inductive, TypeOK, Table
<1>3. CASE Finished(j, Run, Event)
  <2> DEFINE row == [Entry(j) EXCEPT !.running = StillRunning(j, Run),
                                     !.status = IF StillRunning(j, Run) THEN "running" ELSE Event]
  <2>1. row.running = StillRunning(j, Run)
    BY <1>1 DEF JobInfo
  <2>2. jobs' = [jobs EXCEPT ![j] = row] /\ active' = [active EXCEPT ![j] = @ \ {Run}]
    BY <1>3 DEF Finished
  <2>3. jobs'[j].running = StillRunning(j, Run) /\ active'[j] = active[j] \ {Run}
    <3> HIDE DEF row
    <3> QED BY <1>1, <2>1, <2>2 DEF Inductive, TypeOK, Table
  <2>4. StillRunning(j, Run) <=> active[j] \ {Run} # {}
    BY DEF StillRunning
  <2> QED BY <2>3, <2>4
<1> QED BY <1>2, <1>3 DEF ApplyEvent

LEMMA RunningIffActiveNext == Inductive /\ PermanentInv /\ [Next]_vars => RunningIffActive'
<1> SUFFICES ASSUME Inductive, PermanentInv, [Next]_vars, NEW j \in Permanent
             PROVE  jobs'[j].running <=> active'[j] # {}
  BY DEF RunningIffActive, Permanent
<1>1. j \in Jobs /\ (jobs[j].running <=> active[j] # {})
  BY DEF PermanentInv, RunningIffActive, Permanent
<1>2. CASE UNCHANGED <<jobs, active>>
  BY <1>1, <1>2
<1>3. CASE Boot
  <2>1. active'[j] = {}
    BY <1>1, <1>3 DEF Boot, PermanentInv, Asleep
  <2>2. ~jobs'[j].running
    BY <1>1, <1>3, RowsTyped DEF Boot, Inductive, TypeOK
  <2> QED BY <2>1, <2>2
<1>4. CASE Die
  BY <1>1, <1>4, RowsTyped DEF Die
<1>5. CASE SyncApply
  <2>1. local["sync"].table[j] # NoJob /\ ~local["sync"].table[j].running /\ active' = active
    BY <1>1, <1>5, LoopsAreApart DEF SyncApply, PermanentInv, SpecsPermanent, Inductive, CopiesRest
  <2>2. jobs'[j] = IF jobs[j] = NoJob THEN local["sync"].table[j] ELSE jobs[j]
    BY <1>1, <1>5, <2>1 DEF SyncApply, Merged
  <2> QED BY <1>1, <2>1, <2>2, RowsTyped
<1>6. CASE ApplyEvent
  BY <1>1, <1>6, EventRow, EventMark DEF PermanentInv
<1>7. ASSUME NEW u \in Users, NEW k \in Jobs, Toggle(u, k)
      PROVE  jobs'[j].running <=> active'[j] # {}
  <2>1. jobs'[j].running = jobs[j].running /\ active' = active
    BY <1>1, <1>7 DEF Toggle, Inductive, TypeOK, Table, JobInfo
  <2> QED BY <1>1, <2>1
<1> QED BY <1>2, <1>3, <1>4, <1>5, <1>6, <1>7, WhoChangesJobs

\* A job that stays in the crontab is said to be running exactly as long as one
\* of its runs is tracked, however many overlap and whatever the syncs do
\* (jobs.go:120-170, 236-305).
THEOREM RunningIsExact == Spec => []RunningIffActive
<1>1. Init => PermanentInv
  BY RowsTyped, LoopsAreApart DEF Init, PermanentInv, Asleep, SpecsPermanent, RunningIffActive
<1>2. Inductive /\ PermanentInv /\ [Next]_vars => PermanentInv'
  BY AsleepNext, SpecsPermanentNext, RunningIffActiveNext DEF PermanentInv
<1>3. PermanentInv => RunningIffActive
  BY DEF PermanentInv
<1> QED BY <1>1, <1>2, <1>3, InductiveInit, InductiveNext, PTL DEF Spec

-----------------------------------------------------------------------------
(* What a reader of the dashboard finds, while no execution is lost.         *)

\* Every completion is recorded and every record is kept.
Lossless == HistoryLimit = 0 /\ ~StoreFaults

Tracked(n) == n \in active[jobOf[n]]
IsRecorded(n) == recorded[n] # "none"

\* A completion is recorded before it is applied.
RecordedFirst == pc["events"] \in {"cleanup", "apply"} /\ Event # "started" => IsRecorded(Run)

\* A client that watches a run finds it in one of the two places.
PollFinds ==
    \A c \in Clients :
        /\ pc[c] = "watching" => /\ local[c].run \in RunIds /\ local[c].job = jobOf[local[c].run]
                                 /\ Tracked(local[c].run) \/ IsRecorded(local[c].run)
        /\ pc[c] = "lookup" => local[c].run \in RunIds /\ IsRecorded(local[c].run)
        /\ pc[c] # "gone"

\* What a client knew of and has not seen yet it finds in the history.
InspectorFinds ==
    \A c \in Clients :
        /\ pc[c] = "history" => local[c].known \subseteq local[c].seen \cup Rows(local[c].job)
        /\ pc[c] = "shown" => local[c].known \subseteq local[c].seen

LEMMA JobsStay == [Next]_vars => jobOf' = jobOf
BY DEF Next, vars, Boot, Terminate, Die, EditCrontab, Scheduled, BeginRun, OnJobStart, Ends, OnJobComplete,
       SyncStep, EventsStep, SyncList, SyncApply, Persist, Snapshot, Save, StopLoop, Receive, Record,
       Cleanup, ApplyEvent, Toggle, ClientAction, ClientStep, Watch, Poll, Lookup, Inspect,
       InspectHistory, Close

\* The steps that change the executions table.
LEMMA WhoRecords == [Next]_vars => recorded' = recorded \/ Record \/ Cleanup
BY DEF Next, vars, Boot, Terminate, Die, EditCrontab, Scheduled, BeginRun, OnJobStart, Ends, OnJobComplete,
       SyncStep, EventsStep, SyncList, SyncApply, Persist, Snapshot, Save, StopLoop, Receive,
       ApplyEvent, Toggle, ClientAction, ClientStep, Watch, Poll, Lookup, Inspect,
       InspectHistory, Close, storeVars

\* Without a limit to the history no execution is removed from it.
LEMMA RecordsStay ==
    ASSUME HistoryLimit = 0, Inductive, [Next]_vars, NEW n \in RunIds, IsRecorded(n)
    PROVE  recorded'[n] # "none"
<1>1. CASE recorded' = recorded
  BY <1>1 DEF IsRecorded
<1>2. CASE Record
  <2>1. Event \in Outcomes /\ Event # "none"
    BY <1>2 DEF Record, Inductive, EventKnown, Outcomes
  <2> QED BY <1>2, <2>1 DEF Record, IsRecorded, Inductive, TypeOK
<1>3. CASE Cleanup
  <2>1. \A j \in Jobs : Kept(j) = Rows(j)
    BY DEF Kept
  <2>2. jobOf[Run] \in Jobs
    BY <1>3 DEF Cleanup, Inductive, EventKnown, TypeOK
  <2> QED BY <1>3, <2>1, <2>2 DEF Cleanup, IsRecorded
<1> QED BY <1>1, <1>2, <1>3, WhoRecords

\* The executions of a job become more.
LEMMA RowsGrow ==
    ASSUME HistoryLimit = 0, Inductive, [Next]_vars, NEW j
    PROVE  Rows(j) \subseteq Rows(j)'
BY RecordsStay, JobsStay DEF Rows, IsRecorded

LEMMA RecordedFirstNext == Lossless /\ Inductive /\ RecordedFirst /\ [Next]_vars => RecordedFirst'
<1> SUFFICES ASSUME Lossless, Inductive, RecordedFirst, [Next]_vars,
                    pc'["events"] \in {"cleanup", "apply"}, local'["events"].event # "started"
             PROVE  recorded'[local'["events"].run] # "none"
  BY DEF RecordedFirst, Event, Run, IsRecorded
<1>1. CASE pc'["events"] = pc["events"] /\ local'["events"] = local["events"]
  <2>1. Run \in RunIds /\ IsRecorded(Run)
    BY <1>1 DEF RecordedFirst, Event, Run, Inductive, EventKnown
  <2> QED BY <1>1, <2>1, RecordsStay DEF Lossless, Run
<1>2. CASE Record
  <2>1. Run \in RunIds /\ Event \in Outcomes /\ Event # "none"
    BY <1>2 DEF Record, Inductive, EventKnown, Outcomes
  <2>2. local' = local /\ recorded' = [recorded EXCEPT ![Run] = Event]
    BY <1>2 DEF Record, Lossless
  <2> QED BY <2>1, <2>2 DEF Inductive, TypeOK, Run
<1>3. CASE Cleanup
  <2>1. local' = local /\ Run \in RunIds /\ IsRecorded(Run)
    BY <1>3 DEF Cleanup, RecordedFirst, Run, Event, Inductive, EventKnown
  <2> QED BY <2>1, RecordsStay DEF Lossless, Run
<1>4. CASE Receive
  <2>1. pc'["events"] = IF Head(events).event = "started" THEN "apply" ELSE "record"
    BY <1>4, LoopsAreApart DEF Receive, NextStep, Goto, Inductive, TypeOK
  <2>2. local'["events"].event = Head(events).event
    BY <1>4, LoopsAreApart DEF Receive, Inductive, TypeOK, Locals
  <2> QED BY <2>1, <2>2
<1>5. CASE ApplyEvent \/ Persist("events")
  BY <1>5, LoopsAreApart DEF ApplyEvent, Persist, Snapshot, Save, NextStep, Goto, Done, Inductive, TypeOK
<1> QED BY <1>1, <1>2, <1>3, <1>4, <1>5, LoopsAreApart, OthersStay DEF EventsStep

\* A run leaves the tracked ones when it has been recorded.
LEMMA TrackedOrRecorded ==
    ASSUME Lossless, Inductive, RecordedFirst, [Next]_vars, proc' # "down", NEW n \in RunIds, Tracked(n)
    PROVE  n \in active'[jobOf[n]] \/ recorded'[n] # "none"
<1>1. CASE UNCHANGED active
  BY <1>1 DEF Tracked
<1>2. CASE ApplyEvent
  <2>1. /\ Run \in RunIds /\ jobOf[n] \in Jobs /\ jobOf[Run] \in Jobs
    BY <1>2 DEF ApplyEvent, Inductive, EventKnown, TypeOK
  <2>2. CASE Started(jobOf[Run], Run)
    BY <2>1, <2>2 DEF Started, Tracked, Inductive, TypeOK
  <2>3. CASE Event # "started" /\ Finished(jobOf[Run], Run, Event)
    <3>1. IsRecorded(Run)
      BY <1>2, <2>3 DEF ApplyEvent, RecordedFirst
    <3>2. recorded'[Run] # "none"
      BY <2>1, <3>1, RecordsStay DEF Lossless
    <3>3. n # Run => n \in active'[jobOf[n]]
      BY <2>1, <2>3 DEF Finished, Tracked, Inductive, TypeOK
    <3> QED BY <3>2, <3>3
  <2> QED BY <1>2, <2>2, <2>3 DEF ApplyEvent
<1>3. CASE Boot \/ Die \/ SyncApply \/ \E u \in Users, j \in Jobs : Toggle(u, j)
  BY <1>1, <1>3 DEF Boot, Die, SyncApply, Toggle
<1> QED BY <1>1, <1>2, <1>3, WhoChangesJobs

LEMMA PollFindsNext ==
    Lossless /\ Inductive /\ Asleep /\ RecordedFirst /\ PollFinds /\ [Next]_vars => PollFinds'
<1> SUFFICES ASSUME Lossless, Inductive, Asleep, RecordedFirst, PollFinds, [Next]_vars, NEW c \in Clients
             PROVE  LET n == local'[c].run
                    IN  /\ pc'[c] = "watching" => /\ n \in RunIds /\ local'[c].job = jobOf[n]
                                                  /\ n \in active'[jobOf[n]] \/ recorded'[n] # "none"
                        /\ pc'[c] = "lookup" => n \in RunIds /\ recorded'[n] # "none"
                        /\ pc'[c] # "gone"
  BY JobsStay DEF PollFinds, Tracked, IsRecorded
<1>1. c \in Actors /\ c # "sync" /\ c # "events" /\ c \notin Users
  BY LoopsAreApart, WebAssumption
<1>2. pc'[c] \notin {"wait", "stopped"} => proc' # "down"
  BY <1>1, AsleepNext DEF Asleep
<1>3. ASSUME NEW n \in RunIds, Tracked(n) \/ IsRecorded(n), proc' # "down"
      PROVE  n \in active'[jobOf[n]] \/ recorded'[n] # "none"
  BY <1>3, TrackedOrRecorded, RecordsStay DEF Lossless
<1>4. CASE pc'[c] = pc[c] /\ local'[c] = local[c]
  <2>1. CASE pc[c] = "watching"
    BY <1>2, <1>3, <1>4, <2>1 DEF PollFinds
  <2>2. CASE pc[c] = "lookup"
    BY <1>4, <2>2, RecordsStay DEF PollFinds, Lossless
  <2> QED BY <1>4, <2>1, <2>2 DEF PollFinds
<1>5. CASE pc'[c] \in {"wait", "stopped"}
  BY <1>5
<1>6. CASE Poll(c)
  <2>1. CASE Done(c)
    BY <1>1, <2>1 DEF Done, Goto, Inductive, TypeOK
  <2>2. CASE Goto(c, "lookup") /\ local' = local /\ local[c].run \notin active[local[c].job]
    <3>1. pc[c] = "watching" /\ recorded' = recorded /\ pc'[c] = "lookup"
      BY <1>1, <1>6, <2>2 DEF Poll, Goto, Inductive, TypeOK, storeVars
    <3>2. local[c].run \in RunIds /\ IsRecorded(local[c].run)
      BY <2>2, <3>1 DEF PollFinds, Tracked
    <3> QED BY <2>2, <3>1, <3>2 DEF IsRecorded
  <2> QED BY <1>6, <2>1, <2>2 DEF Poll
<1>7. CASE Lookup(c)
  <2>1. IsRecorded(local[c].run)
    BY <1>7 DEF Lookup, PollFinds
  <2> QED BY <1>1, <1>7, <2>1 DEF Lookup, IsRecorded, Goto, Inductive, TypeOK
<1>8. ASSUME NEW n \in RunIds, Watch(c, n)
      PROVE  /\ local'[c].run = n /\ local'[c].job = jobOf[n] /\ n \in active'[jobOf[n]]
             /\ pc'[c] = "watching"
  <2> DEFINE l == [local[c] EXCEPT !.run = n, !.job = jobOf[n]]
  <2>1. local' = [local EXCEPT ![c] = l] /\ Goto(c, "watching") /\ active' = active /\ n \in active[jobOf[n]]
    BY <1>8 DEF Watch
  <2>2. l.run = n /\ l.job = jobOf[n]
    BY <1>1 DEF Inductive, TypeOK, Locals
  <2> HIDE DEF l
  <2> QED BY <1>1, <2>1, <2>2 DEF Goto, Inductive, TypeOK
<1>9. CASE (\E j \in Jobs : Inspect(c, j)) \/ InspectHistory(c) \/ Close(c)
  BY <1>1, <1>9 DEF Inspect, InspectHistory, Close, Done, Goto, Inductive, TypeOK
<1> QED BY <1>1, <1>4, <1>5, <1>6, <1>7, <1>8, <1>9, OthersStay DEF ClientAction, ClientStep

LEMMA InspectorFindsNext == HistoryLimit = 0 /\ Inductive /\ InspectorFinds /\ [Next]_vars => InspectorFinds'
<1> DEFINE Later(j) == {n \in RunIds : jobOf'[n] = j /\ recorded'[n] # "none"}
<1> SUFFICES ASSUME HistoryLimit = 0, Inductive, InspectorFinds, [Next]_vars, NEW c \in Clients
             PROVE  /\ pc'[c] = "history" => local'[c].known \subseteq local'[c].seen \cup Later(local'[c].job)
                    /\ pc'[c] = "shown" => local'[c].known \subseteq local'[c].seen
  BY DEF InspectorFinds, Rows
<1>1. c \in Actors /\ c # "sync" /\ c # "events" /\ c \notin Users /\ local[c] \in Locals
  BY LoopsAreApart, WebAssumption DEF Inductive, TypeOK
<1>2. \A j : Rows(j) \subseteq Later(j)
  BY RecordsStay, JobsStay DEF Rows, IsRecorded
<1> HIDE DEF Later
<1>3. CASE pc'[c] = pc[c] /\ local'[c] = local[c]
  BY <1>2, <1>3 DEF InspectorFinds
<1>4. CASE pc'[c] \in {"wait", "stopped"}
  BY <1>4
<1>5. ASSUME NEW j \in Jobs, Inspect(c, j)
      PROVE  pc'[c] = "history" /\ local'[c].known \subseteq local'[c].seen \cup Later(local'[c].job)
  <2> DEFINE l == [local[c] EXCEPT !.job = j, !.seen = View(1, j), !.known = active[j] \cup Rows(j)]
  <2>1. local' = [local EXCEPT ![c] = l] /\ Goto(c, "history")
    BY <1>5 DEF Inspect
  <2>2. l.job = j /\ l.seen = active[j] /\ l.known = active[j] \cup Rows(j)
    BY <1>1 DEF Locals, View
  <2> HIDE DEF l
  <2> QED BY <1>1, <1>2, <2>1, <2>2 DEF Goto, Inductive, TypeOK
<1>6. CASE InspectHistory(c)
  <2> DEFINE l == [local[c] EXCEPT !.seen = @ \cup View(2, local[c].job)]
  <2>1. local' = [local EXCEPT ![c] = l] /\ Goto(c, "shown") /\ pc[c] = "history"
    BY <1>6 DEF InspectHistory
  <2>2. l.seen = local[c].seen \cup Rows(local[c].job) /\ l.known = local[c].known
    BY <1>1 DEF Locals, View
  <2> HIDE DEF l
  <2> QED BY <1>1, <2>1, <2>2 DEF Goto, Inductive, TypeOK, InspectorFinds
<1>7. CASE Poll(c) \/ Lookup(c) \/ Close(c) \/ \E n \in RunIds : Watch(c, n)
  BY <1>1, <1>7 DEF Poll, Lookup, Close, Watch, Done, Goto, Inductive, TypeOK
<1> QED BY <1>1, <1>3, <1>4, <1>5, <1>6, <1>7, OthersStay DEF ClientAction, ClientStep

\* What holds while no execution is lost, and what the inspector needs of it.
LosslessInv == Lossless => RecordedFirst /\ PollFinds
UnlimitedInv == HistoryLimit = 0 => InspectorFinds

LEMMA LosslessInvariance == Spec => [](Inductive /\ Asleep /\ LosslessInv /\ UnlimitedInv)
<1>1. Init => Inductive /\ Asleep /\ LosslessInv /\ UnlimitedInv
  BY InductiveInit, LoopsAreApart
     DEF Init, Asleep, LosslessInv, UnlimitedInv, RecordedFirst, PollFinds, InspectorFinds
<1>2. Inductive /\ Asleep /\ LosslessInv /\ UnlimitedInv /\ [Next]_vars
        => (Inductive /\ Asleep /\ LosslessInv /\ UnlimitedInv)'
  BY InductiveNext, AsleepNext, RecordedFirstNext, PollFindsNext, InspectorFindsNext
     DEF LosslessInv, UnlimitedInv, Lossless
<1> QED BY <1>1, <1>2, PTL DEF Spec

\* A poll of a live output finds the run in progress or recorded, if every
\* execution is kept and no operation of the database fails (jobs.go:236-305,
\* handlers.go:534-569): the run leaves the tracked ones after it is recorded.
THEOREM PollsFindRuns == ASSUME Lossless PROVE Spec => []LiveOrRecorded
<1>1. LosslessInv => LiveOrRecorded
  BY DEF LosslessInv, PollFinds, LiveOrRecorded
<1> QED BY <1>1, LosslessInvariance, PTL

\* The inspector misses no run that was in progress or recorded when it was
\* asked for, if every execution is kept: it reads the runs in progress before
\* the history (handlers.go:456-491).
THEOREM InspectorMissesNone == ASSUME HistoryLimit = 0 PROVE Spec => []InspectorComplete
<1>1. UnlimitedInv => InspectorComplete
  BY DEF UnlimitedInv, InspectorFinds, InspectorComplete
<1> QED BY <1>1, LosslessInvariance, PTL

\* For a reader of the dashboard a run is unknown, in progress, then recorded,
\* and never goes back while the process lives, if every execution is kept and
\* no operation of the database fails.
THEOREM RunsAdvance == ASSUME Lossless PROVE Spec => RunsOnlyAdvance
<1>1. ASSUME Inductive, LosslessInv, [Next]_vars, proc' # "down", NEW n \in RunIds
      PROVE  Stage(n)' >= Stage(n)
  <2>1. IsRecorded(n) => recorded'[n] # "none"
    BY <1>1, RecordsStay DEF Lossless
  <2>2. Tracked(n) => n \in active'[jobOf[n]] \/ recorded'[n] # "none"
    BY <1>1, TrackedOrRecorded DEF LosslessInv
  <2>3. jobOf' = jobOf
    BY <1>1, JobsStay
  <2> QED BY <2>1, <2>2, <2>3 DEF Stage, IsRecorded, Tracked
<1>2. Inductive /\ LosslessInv /\ [Next]_vars
        => [proc' = "down" \/ \A n \in RunIds : Stage(n)' >= Stage(n)]_vars
  BY <1>1
<1> QED BY <1>2, LosslessInvariance, PTL DEF Spec, RunsOnlyAdvance

-----------------------------------------------------------------------------
(* Every tracked run is accounted for, while no event is dropped.            *)

\* The completion of a run is in the channel.
Coming(n) ==
    phase[n] \in Outcomes /\ \E i \in DOMAIN events : events[i] = [event |-> phase[n], run |-> n]

\* The channel has the start of a run that executes or whose completion comes
\* later, or its completion; each of them once.
ChannelOrdered ==
    /\ \A i \in DOMAIN events :
         IF events[i].event = "started"
         THEN phase[events[i].run] = "executing" \/ Coming(events[i].run)
         ELSE phase[events[i].run] = events[i].event
    /\ \A i, k \in DOMAIN events :
         i < k /\ events[i].run = events[k].run
            => events[i].event = "started" /\ events[k].event # "started"

\* Where the processor has an event to apply, and where it has one at all.
InHand == {"apply", "record", "cleanup"}
AtEvent == InHand \cup {"snapshot", "save"}

\* The event in hand is of a run that executes or whose completion comes later,
\* or it is the last one of its run.
HandOrdered ==
    pc["events"] \in AtEvent =>
        /\ Run \in RunIds /\ Event \in {"started"} \cup Outcomes
        /\ Event = "started" =>
             /\ pc["events"] = "apply"
             /\ phase[Run] = "executing" \/ Coming(Run)
             /\ \A i \in DOMAIN events : events[i].run = Run => events[i].event # "started"
        /\ Event # "started" =>
             /\ phase[Run] = Event
             /\ \A i \in DOMAIN events : events[i].run # Run
             /\ pc["events"] \in {"snapshot", "save"} => ~Tracked(Run)

Accounted ==
    \A n \in RunIds : Tracked(n) =>
        \/ phase[n] = "executing" \/ Coming(n)
        \/ pc["events"] \in InHand /\ Run = n /\ Event = phase[n]

AccountInv == ChannelOrdered /\ HandOrdered /\ Accounted

\* What is sent comes last.
LEMMA Appended ==
    ASSUME Inductive, NEW e \in Sent, events' = Append(events, e)
    PROVE  /\ \A i \in DOMAIN events : i \in DOMAIN events' /\ events'[i] = events[i] /\ i < Len(events) + 1
           /\ Len(events) + 1 \in DOMAIN events' /\ events'[Len(events) + 1] = e
           /\ \A i \in DOMAIN events' : i \in DOMAIN events \/ i = Len(events) + 1
<1>1. events \in Seq(Sent)
  BY DEF Inductive, TypeOK
<1> QED BY <1>1, AppendProperties, LenProperties

\* What is received came first.
LEMMA Received ==
    ASSUME Inductive, events # <<>>, events' = Tail(events)
    PROVE  /\ 1 \in DOMAIN events /\ Head(events) = events[1]
           /\ \A i \in DOMAIN events' :
                i \in Int /\ i + 1 \in DOMAIN events /\ 1 < i + 1 /\ events'[i] = events[i + 1]
           /\ \A i \in DOMAIN events : i \in Int /\ (i # 1 => i - 1 \in DOMAIN events' /\ events'[i - 1] = events[i])
<1>1. events \in Seq(Sent)
  BY DEF Inductive, TypeOK
<1> QED BY <1>1, HeadTailProperties, LenProperties

LEMMA SentFields == ASSUME Inductive PROVE \A i \in DOMAIN events : events[i] \in Sent /\ i \in Int
<1>1. events \in Seq(Sent)
  BY DEF Inductive, TypeOK
<1> QED BY <1>1

\* The channel never holds more than two events of a run.
LEMMA RoomToSend ==
    ASSUME EventCap >= 2 * MaxRuns, Inductive, ChannelOrdered, NEW n \in RunIds,
           phase[n] \in {"begun", "executing"}
    PROVE  Len(events) < EventCap
<1> DEFINE length == Len(events)
           code == [i \in 1 .. length + 1 |->
                      IF i = length + 1 THEN (IF phase[n] = "begun" THEN 2 * n - 1 ELSE 2 * n)
                      ELSE IF events[i].event = "started" THEN 2 * events[i].run - 1
                      ELSE 2 * events[i].run]
<1>1. length \in Nat /\ DOMAIN events = 1 .. length
  BY LenProperties DEF Inductive, TypeOK
<1>2. \A i \in DOMAIN events : events[i].run \in RunIds /\ events[i].event \in {"started"} \cup Outcomes
  BY SentFields DEF Sent
<1>3. \A i \in DOMAIN events : events[i].run = n => phase[n] # "begun" /\ events[i].event = "started"
  BY <1>2 DEF ChannelOrdered, Coming, Outcomes
<1>4. \A i, k \in DOMAIN events :
        i < k /\ events[i].run = events[k].run => events[i].event = "started" /\ events[k].event # "started"
  BY DEF ChannelOrdered
<1> HIDE DEF length
<1>5. code \in [1 .. length + 1 -> 1 .. 2 * MaxRuns]
  BY <1>1, <1>2, Bounds DEF RunIds
<1>6. ASSUME NEW i \in 1 .. length + 1, NEW k \in 1 .. length + 1, i < k
      PROVE  code[i] # code[k]
  <2>1. i \in DOMAIN events /\ i # length + 1
    BY <1>1, <1>6
  <2>2. events[i].run \in Int /\ n \in Int
    BY <1>2, <2>1, Bounds DEF RunIds
  <2>3. code[i] = IF events[i].event = "started" THEN 2 * events[i].run - 1 ELSE 2 * events[i].run
    BY <2>1
  <2>4. CASE k = length + 1
    <3>1. code[k] = IF phase[n] = "begun" THEN 2 * n - 1 ELSE 2 * n
      BY <2>4
    <3> HIDE DEF code
    <3> QED BY <1>3, <2>1, <2>2, <2>3, <3>1
  <2>5. CASE k # length + 1
    <3>1. k \in DOMAIN events
      BY <1>1, <2>5
    <3>2. code[k] = IF events[k].event = "started" THEN 2 * events[k].run - 1 ELSE 2 * events[k].run
      BY <2>5
    <3>3. events[k].run \in Int
      BY <1>2, <3>1, Bounds DEF RunIds
    <3> HIDE DEF code
    <3> QED BY <1>4, <1>6, <2>1, <2>2, <2>3, <3>1, <3>2, <3>3
  <2> QED BY <2>4, <2>5
<1> HIDE DEF code
<1>7. /\ IsFiniteSet(1 .. length + 1) /\ Cardinality(1 .. length + 1) = length + 1
      /\ IsFiniteSet(1 .. 2 * MaxRuns) /\ Cardinality(1 .. 2 * MaxRuns) = 2 * MaxRuns
  BY <1>1, FS_Interval, Bounds
<1>8. length + 1 <= 2 * MaxRuns
  <2>1. ASSUME 2 * MaxRuns < length + 1 PROVE FALSE
    <3>1. \E i, k \in 1 .. length + 1 : i # k /\ code[i] = code[k]
      BY <1>5, <1>7, <2>1, FS_PigeonHole
    <3>2. PICK i \in 1 .. length + 1, k \in 1 .. length + 1 : i # k /\ code[i] = code[k]
      BY <3>1
    <3>3. i < k \/ k < i
      BY <1>1, <3>2
    <3> QED BY <1>6, <3>2, <3>3
  <2> QED BY <1>1, <2>1, Bounds
<1>9. length < EventCap
  BY <1>1, <1>8, Bounds
<1> QED BY <1>9 DEF length

\* The steps that change the channel or the progress of a run.
LEMMA WhoSends ==
    ASSUME [Next]_vars
    PROVE  UNCHANGED <<events, phase>> \/ (\E n \in RunIds : Scheduled(n)) \/ Receive \/ Die
BY DEF Next, vars, Boot, Terminate, EditCrontab, SyncStep, EventsStep, SyncList, SyncApply, Persist,
       Snapshot, Save, StopLoop, Record, Cleanup, ApplyEvent, Toggle, ClientAction, ClientStep, Watch,
       Poll, Lookup, Inspect, InspectHistory, Close

\* The step is not the sending of an event that finds the channel full.
NothingDropped == \A n \in RunIds : OnJobStart(n) \/ Ends(n) => ~EventsFull

LEMMA RoomForAll ==
    ASSUME EventCap >= 2 * MaxRuns, Inductive, ChannelOrdered
    PROVE  NothingDropped
<1> SUFFICES ASSUME NEW n \in RunIds, OnJobStart(n) \/ Ends(n) PROVE ~EventsFull
  BY DEF NothingDropped
<1> DEFINE length == Len(events)
<1>1. length < EventCap /\ length \in Nat
  BY RoomToSend, LenProperties DEF OnJobStart, Ends, OnJobComplete, Inductive, TypeOK
<1>2. EventsFull <=> length >= EventCap
  BY DEF EventsFull
<1> HIDE DEF length
<1> QED BY <1>1, <1>2, Bounds

\* A run that goes on sends its event: the channel has a place for it.
Sends(n, event, after) ==
    /\ phase' = [phase EXCEPT ![n] = after]
    /\ events' = Append(events, [event |-> event, run |-> n])
    /\ \/ phase[n] = "begun" /\ event = "started" /\ after = "executing"
       \/ phase[n] = "executing" /\ event \in Outcomes /\ after = event

LEMMA ScheduledSends ==
    ASSUME NothingDropped, Inductive, ChannelOrdered, NEW n \in RunIds, Scheduled(n)
    PROVE  /\ UNCHANGED <<jobOf, active, pc, local, proc>>
           /\ \/ BeginRun(n)
              \/ \E event, after : Sends(n, event, after)
<1>1. OnJobStart(n) \/ Ends(n) => ~EventsFull
  BY DEF NothingDropped
<1>2. CASE BeginRun(n)
  BY <1>2 DEF BeginRun
<1>3. CASE OnJobStart(n)
  <2>1. Sends(n, "started", "executing")
    BY <1>1, <1>3 DEF OnJobStart, Send, Sends
  <2> QED BY <1>3, <2>1 DEF OnJobStart
<1>4. ASSUME NEW outcome \in Outcomes, OnJobComplete(n, outcome)
      PROVE  Sends(n, outcome, outcome) /\ UNCHANGED <<jobOf, active, pc, local, proc>>
  BY <1>1, <1>4 DEF Ends, OnJobComplete, Send, Sends
<1> QED BY <1>2, <1>3, <1>4 DEF Scheduled, Ends

\* The completion of a run is in the channel after the step.
StillComing(n) ==
    phase'[n] \in Outcomes /\ \E i \in DOMAIN events' : events'[i] = [event |-> phase'[n], run |-> n]

\* Sending keeps what is to come, and makes a run that completes one to come.
LEMMA SendComing ==
    ASSUME Inductive, NEW n \in RunIds, NEW event, NEW after, Sends(n, event, after)
    PROVE  /\ \A k \in RunIds : Coming(k) => StillComing(k)
           /\ after \in Outcomes => StillComing(n)
           /\ phase'[n] = after /\ \A k \in RunIds \ {n} : phase'[k] = phase[k]
           /\ [event |-> event, run |-> n] \in Sent
<1> DEFINE e == [event |-> event, run |-> n]
<1>1. e \in Sent /\ e.event = event /\ e.run = n
  BY DEF Sends, Sent
<1>2. phase'[n] = after /\ \A k \in RunIds \ {n} : phase'[k] = phase[k]
  BY DEF Sends, Inductive, TypeOK
<1>3. events' = Append(events, e)
  BY DEF Sends
<1>4. \A i \in DOMAIN events : i \in DOMAIN events' /\ events'[i] = events[i]
  BY <1>1, <1>3, Appended
<1>5. \E i \in DOMAIN events' : events'[i] = e
  BY <1>1, <1>3, Appended
<1>6. after \in Outcomes => event = after
  BY DEF Sends, Outcomes
<1>7. phase[n] \notin Outcomes
  BY DEF Sends, Outcomes
<1> QED BY <1>1, <1>2, <1>4, <1>5, <1>6, <1>7 DEF Coming, StillComing

\* Receiving takes from the channel what is now in hand.
LEMMA ReceiveComing ==
    ASSUME Inductive, Receive
    PROVE  \A k \in RunIds : Coming(k) => StillComing(k) \/ Head(events) = [event |-> phase[k], run |-> k]
<1>1. events # <<>> /\ events' = Tail(events) /\ phase' = phase
  BY DEF Receive
<1>2. \A i \in DOMAIN events : i # 1 => i - 1 \in DOMAIN events' /\ events'[i - 1] = events[i]
  BY <1>1, Received
<1> SUFFICES ASSUME NEW k \in RunIds, Coming(k), Head(events) # [event |-> phase[k], run |-> k]
             PROVE  StillComing(k)
  OBVIOUS
<1>3. PICK i \in DOMAIN events : events[i] = [event |-> phase[k], run |-> k]
  BY DEF Coming
<1>4. i # 1
  BY <1>1, <1>3, Received
<1> QED BY <1>1, <1>2, <1>3, <1>4 DEF Coming, StillComing

LEMMA ChannelOrderedNext ==
    ASSUME NothingDropped, Inductive, ChannelOrdered, [Next]_vars
    PROVE  ChannelOrdered'
<1> DEFINE Fits(i) == IF events'[i].event = "started"
                      THEN phase'[events'[i].run] = "executing" \/ StillComing(events'[i].run)
                      ELSE phase'[events'[i].run] = events'[i].event
           Once(i, k) == i < k /\ events'[i].run = events'[k].run
                           => events'[i].event = "started" /\ events'[k].event # "started"
<1> SUFFICES /\ \A i \in DOMAIN events' : Fits(i)
             /\ \A i, k \in DOMAIN events' : Once(i, k)
  BY DEF ChannelOrdered, Coming, StillComing
<1>1. CASE UNCHANGED <<events, phase>>
  BY <1>1 DEF ChannelOrdered, Coming, StillComing
<1>2. CASE Die
  BY <1>2 DEF Die
<1>3. ASSUME NEW n \in RunIds, BeginRun(n)
      PROVE  (\A i \in DOMAIN events' : Fits(i)) /\ \A i, k \in DOMAIN events' : Once(i, k)
  <2>1. events' = events /\ phase[n] = "none" /\ \A k \in RunIds \ {n} : phase'[k] = phase[k]
    BY <1>3 DEF BeginRun, NextRun, Inductive, TypeOK
  <2>2. \A i \in DOMAIN events : events[i].run \in RunIds \ {n}
    BY <2>1, SentFields DEF ChannelOrdered, Coming, Sent, Outcomes
  <2> QED BY <2>1, <2>2 DEF ChannelOrdered, Coming, StillComing
<1>4. ASSUME NEW n \in RunIds, NEW event, NEW after, Sends(n, event, after)
      PROVE  (\A i \in DOMAIN events' : Fits(i)) /\ \A i, k \in DOMAIN events' : Once(i, k)
  <2> DEFINE e == [event |-> event, run |-> n]
             last == Len(events) + 1
  <2>1. events' = Append(events, e) /\ e \in Sent /\ e.event = event /\ e.run = n
    BY <1>4, SendComing DEF Sends
  <2> HIDE DEF e
  <2>2. /\ \A i \in DOMAIN events : i \in DOMAIN events' /\ events'[i] = events[i] /\ i < last
        /\ last \in DOMAIN events' /\ events'[last] = e
        /\ \A i \in DOMAIN events' : i \in DOMAIN events \/ i = last
    BY <2>1, Appended
  <2>3. \A i \in DOMAIN events : events[i].run \in RunIds /\ events[i].event \in {"started"} \cup Outcomes /\ i \in Int
    BY SentFields DEF Sent
  <2>4. \A i \in DOMAIN events : events[i].run = n =>
            events[i].event = "started" /\ phase[n] = "executing" /\ event # "started"
    BY <1>4, <2>3 DEF ChannelOrdered, Coming, Outcomes, Sends
  <2>5. \A i \in DOMAIN events' : Fits(i)
    <3> TAKE i \in DOMAIN events'
    <3>1. CASE i \in DOMAIN events /\ events[i].run # n
      <4> DEFINE r == events[i].run
      <4>1. r \in RunIds \ {n} /\ events'[i] = events[i]
        BY <2>2, <2>3, <3>1
      <4>2. phase'[r] = phase[r] /\ (Coming(r) => StillComing(r))
        BY <1>4, <4>1, SendComing
      <4> QED BY <3>1, <4>1, <4>2 DEF ChannelOrdered
    <3>2. CASE i \in DOMAIN events /\ events[i].run = n
      <4>1. after \in Outcomes
        BY <1>4, <2>4, <3>2 DEF Sends
      <4> QED BY <1>4, <2>2, <2>4, <3>2, <4>1, SendComing
    <3>3. CASE i = last
      <4>1. phase'[n] = after
        BY <1>4, SendComing
      <4>2. (event = "started" /\ after = "executing") \/ (event \in Outcomes /\ after = event)
        <5> HIDE DEF Fits, Once, last
        <5> QED BY <1>4 DEF Sends
      <4>3. events'[i].event = event /\ events'[i].run = n /\ "started" \notin Outcomes
        BY <2>1, <2>2, <3>3 DEF Outcomes
      <4>4. phase'[events'[i].run] = after
        BY <4>1, <4>3
      <4> QED BY <4>2, <4>3, <4>4
    <3> QED BY <2>2, <3>1, <3>2, <3>3
  <2>6. \A i, k \in DOMAIN events' : Once(i, k)
    <3> TAKE i, k \in DOMAIN events'
    <3>1. CASE i \in DOMAIN events /\ k \in DOMAIN events
      BY <2>2, <3>1 DEF ChannelOrdered
    <3>2. CASE i \in DOMAIN events /\ k = last
      BY <2>1, <2>2, <2>4, <3>2
    <3>3. CASE i = last
      <4>1. last \in Int
        BY LenProperties DEF Inductive, TypeOK
      <4>2. ~(i < k)
        <5> HIDE DEF last
        <5> QED BY <2>2, <2>3, <3>3, <4>1
      <4> QED BY <4>2
    <3> QED BY <2>2, <3>1, <3>2, <3>3
  <2> QED BY <2>5, <2>6
<1>5. CASE Receive
  <2>1. events # <<>> /\ events' = Tail(events) /\ phase' = phase
    BY <1>5 DEF Receive
  <2>2. /\ 1 \in DOMAIN events /\ Head(events) = events[1]
        /\ \A i \in DOMAIN events' :
             i \in Int /\ i + 1 \in DOMAIN events /\ 1 < i + 1 /\ events'[i] = events[i + 1]
    BY <2>1, Received
  <2>3. \A i \in DOMAIN events' : Fits(i)
    <3> TAKE i \in DOMAIN events'
    <3> DEFINE r == events'[i].run
    <3>1. i + 1 \in DOMAIN events /\ 1 < i + 1 /\ events'[i] = events[i + 1] /\ r \in RunIds
      BY <2>2, SentFields DEF Sent
    <3>2. events'[i].event = "started" => Head(events) # [event |-> phase[r], run |-> r] \/ phase[r] \notin Outcomes
      BY <2>2, <3>1 DEF ChannelOrdered, Outcomes
    <3>3. Coming(r) /\ Head(events) # [event |-> phase[r], run |-> r] => StillComing(r)
      BY <1>5, <3>1, ReceiveComing
    <3>4. Coming(r) => phase[r] \in Outcomes
      BY DEF Coming
    <3> QED BY <2>1, <3>1, <3>2, <3>3, <3>4 DEF ChannelOrdered
  <2>4. \A i, k \in DOMAIN events' : Once(i, k)
    <3> TAKE i, k \in DOMAIN events'
    <3>1. i \in Int /\ k \in Int /\ (i < k => i + 1 < k + 1)
      BY <2>2
    <3> QED BY <2>2, <3>1 DEF ChannelOrdered
  <2> QED BY <2>3, <2>4
<1> QED BY <1>1, <1>2, <1>3, <1>4, <1>5, WhoSends, ScheduledSends

\* What is in hand after a step of the processor, or after one of others.
LEMMA HandOrderedNext ==
    ASSUME NothingDropped, Inductive, AccountInv, [Next]_vars
    PROVE  HandOrdered'
<1> DEFINE run == local'["events"].run
           event == local'["events"].event
           Goal == /\ run \in RunIds /\ event \in {"started"} \cup Outcomes
                   /\ event = "started" =>
                        /\ pc'["events"] = "apply"
                        /\ phase'[run] = "executing" \/ StillComing(run)
                        /\ \A i \in DOMAIN events' : events'[i].run = run => events'[i].event # "started"
                   /\ event # "started" =>
                        /\ phase'[run] = event
                        /\ \A i \in DOMAIN events' : events'[i].run # run
                        /\ pc'["events"] \in {"snapshot", "save"} => run \notin active'[jobOf[run]]
<1> SUFFICES ASSUME pc'["events"] \in AtEvent PROVE Goal
  BY JobsStay DEF HandOrdered, Run, Event, Tracked, Coming, StillComing
<1>1. CASE pc'["events"] = pc["events"] /\ local'["events"] = local["events"]
  <2>1. run = Run /\ event = Event /\ pc["events"] \in AtEvent /\ Run \in RunIds
        /\ Event \in {"started"} \cup Outcomes
    BY <1>1 DEF Run, Event, AccountInv, HandOrdered
  <2>2. pc'["events"] \in {"snapshot", "save"} /\ Event # "started" => Run \notin active'[jobOf[Run]]
    <3>1. CASE Die \/ Boot
      BY <1>1, <3>1, LoopsAreApart DEF Die, Boot, AtEvent, InHand
    <3>2. CASE ApplyEvent
      BY <1>1, <3>2, LoopsAreApart DEF ApplyEvent, Done, Goto, NextStep, Inductive, TypeOK
    <3>3. CASE active' = active
      BY <1>1, <2>1, <3>3 DEF AccountInv, HandOrdered, Tracked
    <3>4. CASE SyncApply \/ \E u \in Users, j \in Jobs : Toggle(u, j)
      BY <3>3, <3>4 DEF SyncApply, Toggle
    <3> QED BY <3>1, <3>2, <3>3, <3>4, WhoChangesJobs
  <2>3. CASE UNCHANGED <<events, phase>>
    BY <1>1, <2>1, <2>2, <2>3 DEF AccountInv, HandOrdered, Coming, StillComing
  <2>4. ASSUME NEW n \in RunIds, BeginRun(n)
        PROVE  Goal
    <3>1. events' = events /\ phase[n] = "none" /\ \A k \in RunIds \ {n} : phase'[k] = phase[k]
      BY <2>4 DEF BeginRun, NextRun, Inductive, TypeOK
    <3>2. Run # n
      BY <2>1, <3>1 DEF AccountInv, HandOrdered, Coming, Outcomes
    <3> QED BY <1>1, <2>1, <2>2, <3>1, <3>2 DEF AccountInv, HandOrdered, Coming, StillComing
  <2>5. ASSUME NEW n \in RunIds, NEW e, NEW after, Sends(n, e, after)
        PROVE  Goal
    <3> DEFINE new == [event |-> e, run |-> n]
    <3>1. events' = Append(events, new) /\ new \in Sent /\ new.event = e /\ new.run = n
      BY <2>5, SendComing DEF Sends
    <3> HIDE DEF new
    <3>2. \A i \in DOMAIN events' : (i \in DOMAIN events /\ events'[i] = events[i]) \/ events'[i] = new
      BY <3>1, Appended
    <3>3. phase'[n] = after /\ \A k \in RunIds \ {n} : phase'[k] = phase[k]
      BY <2>5, SendComing
    <3>4. \A k \in RunIds : Coming(k) => StillComing(k)
      BY <2>5, SendComing
    <3>5. after \in Outcomes => StillComing(n)
      BY <2>5, SendComing
    <3>6. CASE Event # "started"
      <4>1. Run # n
        BY <2>1, <2>5, <3>6 DEF Sends, AccountInv, HandOrdered, Outcomes
      <4> QED BY <1>1, <2>1, <2>2, <3>1, <3>2, <3>3, <3>6, <4>1 DEF AccountInv, HandOrdered
    <3>7. CASE Event = "started"
      <4>1. Run = n => e \in Outcomes /\ after = e
        BY <2>1, <2>5, <3>7 DEF Sends, AccountInv, HandOrdered, Coming, Outcomes
      <4>2. phase'[Run] = "executing" \/ StillComing(Run)
        BY <2>1, <3>3, <3>4, <3>5, <3>7, <4>1 DEF AccountInv, HandOrdered
      <4>3. \A i \in DOMAIN events' : events'[i].run = Run => events'[i].event # "started"
        BY <2>1, <3>1, <3>2, <3>7, <4>1 DEF AccountInv, HandOrdered, Outcomes
      <4> QED BY <1>1, <2>1, <3>7, <4>2, <4>3 DEF AccountInv, HandOrdered
    <3> QED BY <3>6, <3>7
  <2>6. CASE Die
    BY <2>6, LoopsAreApart DEF Die, AtEvent, InHand
  <2>7. CASE Receive
    <3>1. pc["events"] = "wait"
      BY <2>7 DEF Receive
    <3> QED BY <2>1, <3>1 DEF AtEvent, InHand
  <2> QED BY <2>3, <2>4, <2>5, <2>6, <2>7, WhoSends, ScheduledSends DEF AccountInv
<1>2. CASE Receive
  <2> DEFINE e == Head(events)
  <2>1. events # <<>> /\ events' = Tail(events) /\ phase' = phase
    BY <1>2 DEF Receive
  <2>2. /\ 1 \in DOMAIN events /\ e = events[1] /\ e \in Sent
        /\ \A i \in DOMAIN events' :
             i \in Int /\ i + 1 \in DOMAIN events /\ 1 < i + 1 /\ events'[i] = events[i + 1]
    BY <2>1, Received, SentFields
  <2> HIDE DEF e
  <2>3. /\ run = e.run /\ event = e.event
        /\ pc'["events"] = IF e.event = "started" THEN "apply" ELSE "record"
    BY <1>2, LoopsAreApart DEF Receive, NextStep, Goto, Inductive, TypeOK, Locals, e
  <2>4. run \in RunIds /\ event \in {"started"} \cup Outcomes
    BY <2>2, <2>3 DEF Sent
  <2>5. \A i \in DOMAIN events' : events'[i].run = run => event = "started" /\ events'[i].event # "started"
    BY <2>2, <2>3 DEF AccountInv, ChannelOrdered
  <2>6. event = "started" => phase[run] = "executing" \/ StillComing(run)
    <3>1. event = "started" => phase[run] = "executing" \/ Coming(run)
      BY <2>2, <2>3 DEF AccountInv, ChannelOrdered
    <3>2. Coming(run) => phase[run] # "started"
      BY DEF Coming, Outcomes
    <3>3. Coming(run) => StillComing(run) \/ e = [event |-> phase[run], run |-> run]
      BY <1>2, <2>4, ReceiveComing DEF e
    <3>4. event = "started" => e # [event |-> phase[run], run |-> run] \/ phase[run] = "started"
      <4>1. [event |-> phase[run], run |-> run].event = phase[run]
        OBVIOUS
      <4>2. event = e.event
        BY <2>3
      <4> HIDE DEF event, run
      <4> QED BY <4>1, <4>2
    <3> QED BY <3>1, <3>2, <3>3, <3>4
  <2>7. event # "started" => phase[run] = event
    BY <2>2, <2>3 DEF AccountInv, ChannelOrdered
  <2> QED BY <2>1, <2>3, <2>4, <2>5, <2>6, <2>7
<1>3. CASE Record \/ Cleanup \/ Persist("events") \/ (ApplyEvent /\ Event # "started")
  <2>1. /\ pc["events"] \in {"record", "cleanup", "snapshot", "apply"} /\ UNCHANGED <<events, phase>>
        /\ run = Run /\ event = Event
    BY <1>3, LoopsAreApart DEF Record, Cleanup, Persist, Snapshot, Save, ApplyEvent, Done, Goto, AtEvent, InHand,
                               Run, Event, Inductive, TypeOK, Locals
  <2>2. pc'["events"] \in {"snapshot", "save"} => run \notin active'[jobOf[run]]
    <3>1. CASE ApplyEvent /\ Event # "started"
      <4>1. Finished(jobOf[Run], Run, Event) /\ Run \in RunIds
        BY <3>1 DEF ApplyEvent, Inductive, EventKnown
      <4>2. jobOf[Run] \in Jobs /\ active' = [active EXCEPT ![jobOf[Run]] = @ \ {Run}]
        BY <4>1 DEF Finished, Inductive, TypeOK
      <4> QED BY <2>1, <4>2 DEF Inductive, TypeOK
    <3>2. CASE Persist("events")
      <4>1. pc["events"] = "snapshot" /\ active' = active
        BY <2>1, <3>2 DEF Persist, Snapshot, Save
      <4> QED BY <2>1, <4>1 DEF AccountInv, HandOrdered, Tracked, AtEvent
    <3>3. CASE Record \/ Cleanup
      BY <3>3, LoopsAreApart DEF Record, Cleanup, NextStep, Goto, Inductive, TypeOK
    <3> QED BY <1>3, <3>1, <3>2, <3>3
  <2>3. pc["events"] \in AtEvent /\ Event # "started"
    BY <1>3, <2>1 DEF AtEvent, InHand, AccountInv, HandOrdered, Record, Cleanup, Persist, Snapshot, Save
  <2> QED BY <2>1, <2>2, <2>3 DEF AccountInv, HandOrdered, Coming, StillComing
<1>4. CASE ApplyEvent /\ Event = "started"
  BY <1>4, LoopsAreApart DEF ApplyEvent, Done, Goto, AtEvent, InHand, Inductive, TypeOK
<1>5. CASE pc'["events"] \in {"wait", "stopped"}
  BY <1>5 DEF AtEvent, InHand
<1> QED BY <1>1, <1>2, <1>3, <1>4, <1>5, LoopsAreApart, OthersStay DEF EventsStep

\* The processor keeps the event it has until it has applied it.
LEMMA HandStays ==
    ASSUME Inductive, Asleep, [Next]_vars, pc["events"] \in InHand, ~Die, ~ApplyEvent
    PROVE  pc'["events"] \in InHand /\ local'["events"].run = Run /\ local'["events"].event = Event
<1>1. CASE pc'["events"] = pc["events"] /\ local'["events"] = local["events"]
  BY <1>1 DEF Run, Event
<1>2. CASE Record \/ Cleanup
  BY <1>2, LoopsAreApart DEF Record, Cleanup, NextStep, Goto, InHand, Run, Event, Inductive, TypeOK
<1>3. ~Receive /\ ~Persist("events") /\ ~StopLoop("events")
  BY DEF Receive, Persist, Snapshot, Save, StopLoop, InHand
<1>4. ~Boot
  BY LoopsAreApart DEF Boot, Asleep, InHand
<1>5. CASE UNCHANGED <<pc, local>>
  BY <1>1, <1>5
<1>6. CASE SyncStep \/ StopLoop("sync")
  BY <1>1, <1>6, LoopsAreApart DEF SyncStep, SyncList, SyncApply, Persist, Snapshot, Save, StopLoop, Goto, Done,
                                   Inductive, TypeOK
<1>7. ASSUME NEW u \in Users, Persist(u) \/ \E j \in Jobs : Toggle(u, j)
      PROVE  pc'["events"] = pc["events"] /\ local'["events"] = local["events"]
  BY <1>7, LoopsAreApart DEF Persist, Snapshot, Save, Toggle, Goto, Done, Inductive, TypeOK
<1>8. ASSUME NEW c \in Clients, ClientAction(c) \/ ClientStep(c)
      PROVE  pc'["events"] = pc["events"] /\ local'["events"] = local["events"]
  BY <1>8, LoopsAreApart DEF ClientAction, ClientStep, Watch, Poll, Lookup, Inspect, InspectHistory, Close,
                             Goto, Done, Inductive, TypeOK
<1>9. CASE Terminate \/ (\E c \in Crontabs : EditCrontab(c)) \/ \E k \in RunIds : Scheduled(k)
  BY <1>5, <1>9 DEF Terminate, EditCrontab, Scheduled, BeginRun, OnJobStart, Ends, OnJobComplete
<1>10. CASE UNCHANGED vars
  BY <1>5, <1>10 DEF vars
<1> QED BY <1>1, <1>2, <1>3, <1>4, <1>6, <1>7, <1>8, <1>9, <1>10 DEF Next, EventsStep

\* A run that executes, or whose completion comes, does so after the step, or
\* the completion is in hand then.
LEMMA ProgressStays ==
    ASSUME NothingDropped, Inductive, AccountInv, [Next]_vars, ~Die, NEW n \in RunIds,
           phase[n] = "executing" \/ Coming(n)
    PROVE  \/ phase'[n] = "executing" \/ StillComing(n)
           \/ pc'["events"] \in InHand /\ local'["events"].run = n /\ local'["events"].event = phase'[n]
<1>1. CASE UNCHANGED <<events, phase>>
  BY <1>1 DEF Coming, StillComing
<1>2. ASSUME NEW k \in RunIds, BeginRun(k)
      PROVE  phase'[n] = "executing" \/ StillComing(n)
  BY <1>2 DEF BeginRun, NextRun, Coming, StillComing, Inductive, TypeOK, Outcomes
<1>3. ASSUME NEW k \in RunIds, NEW event, NEW after, Sends(k, event, after)
      PROVE  phase'[n] = "executing" \/ StillComing(n)
  <2>1. after \in Outcomes \/ after = "executing"
    BY <1>3 DEF Sends
  <2> QED BY <1>3, <2>1, SendComing
<1>4. CASE Receive
  <2>1. phase' = phase /\ events # <<>>
    BY <1>4 DEF Receive
  <2>2. CASE Head(events) = [event |-> phase[n], run |-> n] /\ phase[n] \in Outcomes
    <3>1. Head(events).event = phase[n] /\ Head(events).run = n /\ phase[n] # "started"
      BY <2>2 DEF Outcomes
    <3> QED BY <1>4, <2>1, <3>1, LoopsAreApart DEF Receive, NextStep, Goto, InHand, Inductive, TypeOK, Locals
  <2>3. CASE ~(Head(events) = [event |-> phase[n], run |-> n] /\ phase[n] \in Outcomes)
    BY <1>4, <2>1, <2>3, ReceiveComing DEF Coming
  <2> QED BY <2>2, <2>3
<1> QED BY <1>1, <1>2, <1>3, <1>4, WhoSends, ScheduledSends DEF AccountInv

LEMMA AccountedNext ==
    ASSUME NothingDropped, Inductive, Asleep, AccountInv, [Next]_vars
    PROVE  Accounted'
<1> SUFFICES ASSUME NEW n \in RunIds, n \in active'[jobOf[n]]
             PROVE  \/ phase'[n] = "executing" \/ StillComing(n)
                    \/ /\ pc'["events"] \in InHand
                       /\ local'["events"].run = n /\ local'["events"].event = phase'[n]
  BY JobsStay DEF Accounted, Tracked, Run, Event, Coming, StillComing
<1>1. jobOf[n] \in Jobs
  BY DEF Inductive, TypeOK
<1>2. ~Die
  BY <1>1 DEF Die
<1>3. CASE phase[n] = "executing" \/ Coming(n)
  BY <1>2, <1>3, ProgressStays
<1>4. CASE ~(phase[n] = "executing" \/ Coming(n)) /\ ~ApplyEvent
  <2>1. Tracked(n)
    <3>1. CASE active' = active
      BY <3>1 DEF Tracked
    <3>2. CASE Boot \/ SyncApply \/ \E u \in Users, j \in Jobs : Toggle(u, j)
      BY <3>1, <3>2 DEF Boot, SyncApply, Toggle
    <3> QED BY <1>2, <1>4, <3>1, <3>2, WhoChangesJobs
  <2>2. pc["events"] \in InHand /\ Run = n /\ Event = phase[n]
    BY <1>4, <2>1 DEF AccountInv, Accounted
  <2>3. Event \in Outcomes
    BY <1>4, <2>2 DEF AccountInv, HandOrdered, AtEvent
  <2>4. phase'[n] = phase[n]
    <3>1. ASSUME NEW k \in RunIds, Scheduled(k) PROVE phase'[n] = phase[n]
      <4>1. CASE BeginRun(k)
        BY <2>2, <2>3, <4>1 DEF BeginRun, NextRun, Inductive, TypeOK, Outcomes
      <4>2. ASSUME NEW event, NEW after, Sends(k, event, after) PROVE phase'[n] = phase[n]
        BY <2>2, <2>3, <4>2 DEF Sends, Inductive, TypeOK, Outcomes
      <4> QED BY <3>1, <4>1, <4>2, ScheduledSends DEF AccountInv
    <3>2. CASE Receive
      BY <3>2 DEF Receive
    <3> QED BY <1>2, <3>1, <3>2, WhoSends
  <2> QED BY <1>2, <1>4, <2>2, <2>4, HandStays
<1>5. CASE ~(phase[n] = "executing" \/ Coming(n)) /\ ApplyEvent
  <2>1. /\ pc["events"] = "apply" /\ Run \in RunIds /\ jobOf[Run] \in Jobs
    BY <1>5 DEF ApplyEvent, Inductive, EventKnown, TypeOK
  <2>2. CASE Event = "started" /\ Started(jobOf[Run], Run)
    <3>1. phase[Run] = "executing" \/ Coming(Run)
      BY <2>1, <2>2 DEF AccountInv, HandOrdered, AtEvent, InHand
    <3>2. n # Run
      BY <1>5, <3>1
    <3>3. Tracked(n)
      BY <1>1, <2>1, <2>2, <3>2 DEF Started, Tracked, Inductive, TypeOK
    <3>4. phase[n] # "started"
      BY DEF Inductive, TypeOK, Outcomes
    <3> QED BY <1>5, <3>2, <3>3, <3>4 DEF AccountInv, Accounted
  <2>3. CASE Finished(jobOf[Run], Run, Event)
    <3>1. n # Run /\ Tracked(n)
      BY <1>1, <2>1, <2>3 DEF Finished, Tracked, Inductive, TypeOK
    <3> QED BY <1>5, <3>1 DEF AccountInv, Accounted
  <2> QED BY <1>5, <2>2, <2>3 DEF ApplyEvent
<1> QED BY <1>3, <1>4, <1>5

LEMMA AccountInit == Init => Inductive /\ Asleep /\ AccountInv
BY InductiveInit, LoopsAreApart
   DEF Init, Asleep, AccountInv, ChannelOrdered, HandOrdered, Accounted, AtEvent, InHand, Tracked,
       Inductive, TypeOK

LEMMA AccountNext ==
    Inductive /\ Asleep /\ AccountInv /\ [Next]_vars /\ [NothingDropped]_vars
        => (Inductive /\ Asleep /\ AccountInv)'
<1> SUFFICES ASSUME Inductive, Asleep, AccountInv, [Next]_vars, [NothingDropped]_vars
             PROVE  (Inductive /\ Asleep /\ AccountInv)'
  OBVIOUS
<1>1. CASE NothingDropped
  BY <1>1, InductiveNext, AsleepNext, ChannelOrderedNext, HandOrderedNext, AccountedNext DEF AccountInv
<1>2. CASE UNCHANGED vars
  BY <1>2, InductiveNext, AsleepNext
     DEF vars, AccountInv, ChannelOrdered, HandOrdered, Accounted, Coming, Tracked, Run, Event
<1> QED BY <1>1, <1>2

LEMMA AccountMeans == AccountInv => ActiveAccounted
BY DEF AccountInv, Accounted, ActiveAccounted, Coming, Tracked

\* As long as no event finds the channel full, a tracked run executes or its
\* completion is on its way: no run is shown as running for ever, in whatever
\* order starts and completions are sent and applied (jobs.go:17-57, 193-305).
THEOREM TrackedRunsEnd == Spec /\ [][NothingDropped]_vars => []ActiveAccounted
BY AccountInit, AccountNext, AccountMeans, PTL DEF Spec

\* That is so in every behaviour that starts no more runs than half the
\* channel holds.
THEOREM TrackedRunsEndForFew == ASSUME EventCap >= 2 * MaxRuns PROVE Spec => []ActiveAccounted
<1>1. Inductive /\ Asleep /\ AccountInv /\ [Next]_vars => (Inductive /\ Asleep /\ AccountInv)'
  BY AccountNext, RoomForAll DEF AccountInv
<1> QED BY <1>1, AccountInit, AccountMeans, PTL DEF Spec
===============================================================================
