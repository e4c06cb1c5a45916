--------------------------- MODULE SchedulerProofs ---------------------------
(***************************************************************************)
(* Proofs about Scheduler, for every crontab, every number of slots and    *)
(* every setting of the options.                                           *)
(***************************************************************************)
EXTENDS Scheduler, FiniteSetTheorems, TLAPS

USE DEF Days, ConditionModes, NoFile

\* A crontab line has a command, a schedule and a mode of conditions.
LEMMA LineFields ==
    \A l \in Lines :
        /\ l \in Nat /\ l # 0
        /\ Crontab[l].command \in Texts
        /\ Crontab[l].spec \in Specs
        /\ Crontab[l].conditions \in ConditionModes
<1> DEFINE CrontabLine == [command : Texts, spec : STRING, conditions : ConditionModes]
<1>1. Crontab \in Seq(CrontabLine)
  BY CrontabAssumption
<1>2. \A l \in Lines : Crontab[l] \in CrontabLine /\ l \in Nat /\ l # 0
  <2> HIDE DEF CrontabLine
  <2> QED BY <1>1 DEF Lines
<1>3. \A l \in Lines : Crontab[l].spec \in Specs
  BY DEF Specs
<1> QED BY <1>2, <1>3

\* The expansion of a text is a command, and never a blank one.
LEMMA ExpandType ==
    ASSUME NEW text \in Texts, NEW date \in 0 .. MaxDay
    PROVE  Expand(text, date) \in Commands /\ Expand(text, date) # Blank
<1>1. text # ""
  BY CrontabAssumption
<1>2. 0 \in 0 .. MaxDay
  BY BoundsAssumption
<1> QED BY <1>1, <1>2 DEF Expand, Commands, Blank

\* The locals of an idle thread have their types.
LEMMA IdleRunType == IdleRun \in RunType
BY BoundsAssumption DEF IdleRun, RunType, Results

LEMMA TypeInit == Init => TypeOK
<1> SUFFICES ASSUME Init PROVE TypeOK
  OBVIOUS
<1>1. ProcessTyped
  <2>1. day \in Days
    BY BoundsAssumption DEF Init
  <2>2. queue \in Seq(Requests) /\ Len(queue) <= QueueCap /\ pending \in Seq(FileNames)
    BY BoundsAssumption DEF Init
  <2> QED BY <2>1, <2>2 DEF Init, ProcessTyped
<1>2. FilesTyped
  <2>1. content \in [FileNames -> Commands \cup {Blank}] /\ born \in [FileNames -> 0 .. MaxDay]
    BY BoundsAssumption DEF Init
  <2>2. lastName \in 0 .. MaxFiles
    BY BoundsAssumption DEF Init
  <2> QED BY <2>1, <2>2 DEF Init, FilesTyped
<1>3. ThreadsTyped
  <2>1. pc \in [Threads -> PCs] /\ run \in [Threads -> RunType]
    BY IdleRunType DEF Init, PCs
  <2>2. \A t \in Threads : LocalsOK(t, pc[t], run[t])
    BY DEF Init, LocalsOK, InSection, Executing
  <2> QED BY <2>1, <2>2 DEF ThreadsTyped
<1> QED BY <1>1, <1>2, <1>3 DEF TypeOK

\* One thread moves; the others stay where they are.
Move(t, p, x) ==
    /\ pc' = [pc EXCEPT ![t] = p]
    /\ run' = [run EXCEPT ![t] = x]

LEMMA MoveTyped ==
    ASSUME ThreadsTyped, NEW t \in Threads, NEW p \in PCs, NEW x \in RunType,
           LocalsOK(t, p, x), Move(t, p, x)
    PROVE  ThreadsTyped'
<1>1. pc' \in [Threads -> PCs] /\ run' \in [Threads -> RunType]
  BY DEF ThreadsTyped, Move
<1>2. \A u \in Threads : LocalsOK(u, pc'[u], run'[u])
  <2> TAKE u \in Threads
  <2>1. CASE u = t
    BY <2>1 DEF ThreadsTyped, Move
  <2>2. CASE u # t
    BY <2>2 DEF ThreadsTyped, Move
  <2> QED BY <2>1, <2>2
<1> QED BY <1>1, <1>2 DEF ThreadsTyped

\* A step that leaves the shared variables alone leaves their types alone.
LEMMA SharedTyped ==
    ASSUME TypeOK, UNCHANGED sharedVars
    PROVE  ProcessTyped' /\ FilesTyped'
BY DEF TypeOK, ProcessTyped, FilesTyped, sharedVars, envVars, fileVars

\* The process ends.
LEMMA DownTyped ==
    ASSUME TypeOK, Down
    PROVE  TypeOK'
<1>1. ProcessTyped'
  <2>1. queue' \in Seq(Requests) /\ Len(queue') <= QueueCap /\ pending' \in Seq(FileNames)
    BY BoundsAssumption DEF Down
  <2> QED BY <2>1 DEF Down, TypeOK, ProcessTyped
<1>2. FilesTyped'
  BY DEF Down, TypeOK, FilesTyped
<1>3. ThreadsTyped'
  <2>1. pc' \in [Threads -> PCs] /\ run' \in [Threads -> RunType]
    BY IdleRunType DEF Down, PCs
  <2>2. \A t \in Threads : LocalsOK(t, pc'[t], run'[t])
    BY DEF Down, LocalsOK, InSection, Executing
  <2> QED BY <2>1, <2>2 DEF ThreadsTyped
<1> QED BY <1>1, <1>2, <1>3 DEF TypeOK

LEMMA Disjoint == \A r \in Runs : r \notin FileNames /\ r \in Threads
BY OptionsAssumption DEF FileNames, Threads

LEMMA FileThreads == \A n \in FileNames : n \notin Runs /\ n \in Threads
BY OptionsAssumption DEF FileNames, Threads

LEMMA ProceedTyped ==
    ASSUME ThreadsTyped, NEW t \in Threads, NEW p \in PCs,
           LocalsOK(t, p, run[t]), Proceed(t, p)
    PROVE  ThreadsTyped'
<1>1. run[t] \in RunType
  BY DEF ThreadsTyped
<1>2. Move(t, p, run[t])
  BY DEF ThreadsTyped, Proceed, Goto, Move
<1> QED BY <1>1, <1>2, MoveTyped

LEMMA EndTyped ==
    ASSUME ThreadsTyped, NEW t \in Threads, End(t)
    PROVE  ThreadsTyped'
<1>1. Move(t, "idle", IdleRun)
  BY DEF End, Goto, Move
<1>2. LocalsOK(t, "idle", IdleRun) /\ "idle" \in PCs
  BY DEF LocalsOK, PCs, InSection, Executing
<1> QED BY <1>1, <1>2, MoveTyped, IdleRunType

\* How runs begin.
LEMMA BeginTyped ==
    ASSUME TypeOK, NEW r \in Runs, Begin(r)
    PROVE  TypeOK'
<1> USE Disjoint DEF PCs, InSection, PreKey, Executing
<1>1. ThreadsTyped /\ LocalsOK(r, pc[r], run[r]) /\ run[r] \in RunType
  BY DEF TypeOK, ThreadsTyped
<1>2. CASE SpawnCheck(r)
  <2>1. LocalsOK(r, "enter", run[r])
    BY <1>1, <1>2 DEF SpawnCheck, LocalsOK
  <2> QED BY <1>1, <1>2, <2>1, ProceedTyped, EndTyped, SharedTyped DEF SpawnCheck, TypeOK
<1>3. CASE CheckDisabled(r)
  <2>1. LocalsOK(r, "enter", run[r]) /\ LocalsOK(r, "check", run[r])
    BY <1>1, <1>3 DEF CheckDisabled, LocalsOK
  <2> QED BY <1>1, <1>3, <2>1, ProceedTyped, EndTyped, SharedTyped DEF CheckDisabled, TypeOK
<1>4. CASE CheckConditions(r)
  <2>1. LocalsOK(r, "enter", run[r]) /\ LocalsOK(r, "postponed", run[r])
    BY <1>1, <1>4 DEF CheckConditions, LocalsOK
  <2> QED BY <1>1, <1>4, <2>1, ProceedTyped, EndTyped, SharedTyped DEF CheckConditions, TypeOK
<1>5. CASE Postponed(r)
  <2>1. LocalsOK(r, "enter", run[r])
    BY <1>1, <1>5 DEF Postponed, LocalsOK
  <2> QED BY <1>1, <1>5, <2>1, ProceedTyped, EndTyped, SharedTyped DEF Postponed, TypeOK
<1>6. CASE BadTemplate(r)
  BY <1>1, <1>6, EndTyped, SharedTyped DEF BadTemplate, TypeOK
<1>7. CASE DeDupAdd(r)
  <2> DEFINE k == <<CommandOf(r), Crontab[run[r].line].spec>>
  <2>1. CommandOf(r) \in Commands /\ k \in Commands \X Specs
    <3>1. run[r].line \in Lines /\ run[r].text \in Texts /\ run[r].date \in 0 .. MaxDay
      BY <1>1, <1>7 DEF DeDupAdd, LocalsOK, RunType
    <3>2. day \in 0 .. MaxDay
      BY BoundsAssumption DEF TypeOK, ProcessTyped
    <3> QED BY <3>1, <3>2, ExpandType, LineFields DEF CommandOf
  <2>2. FilesTyped'
    BY <1>7 DEF DeDupAdd, fileVars, TypeOK, FilesTyped
  <2>3. ProcessTyped'
    BY <1>7, <2>1 DEF DeDupAdd, envVars, TypeOK, ProcessTyped
  <2>4. ThreadsTyped'
    <3>1. CASE End(r)
      BY <1>1, <3>1, EndTyped
    <3> DEFINE x == [run[r] EXCEPT !.cmd = CommandOf(r)]
               p == IF ResumeEnabled THEN "create" ELSE "start"
    <3>2. CASE Move(r, p, x)
      <4>1. x \in RunType
        BY <1>1, <2>1 DEF RunType
      <4>2. LocalsOK(r, p, x)
        BY <1>1, <1>7, <2>1 DEF DeDupAdd, LocalsOK, RunType
      <4> QED BY <1>1, <3>2, <4>1, <4>2, MoveTyped
    <3> QED BY <1>7, <3>1, <3>2 DEF DeDupAdd, Goto, Move
  <2> QED BY <2>2, <2>3, <2>4 DEF TypeOK
<1> QED BY <1>2, <1>3, <1>4, <1>5, <1>6, <1>7 DEF Begin

\* The flag file, the reports and the way out of a run.
LEMMA RegisterTyped ==
    ASSUME TypeOK, NEW r \in Runs, Register(r)
    PROVE  TypeOK'
<1> USE Disjoint DEF PCs, InSection, PreKey, Executing
<1>1. ThreadsTyped /\ LocalsOK(r, pc[r], run[r]) /\ run[r] \in RunType
  BY DEF TypeOK, ThreadsTyped
<1>2. CASE CreateFile(r)
  <2>1. lastName + 1 \in FileNames /\ lastName + 1 \in 0 .. MaxFiles /\ day \in 0 .. MaxDay
    BY <1>2, BoundsAssumption DEF CreateFile, TypeOK, FilesTyped, ProcessTyped, FileNames
  <2>2. ProcessTyped'
    BY <1>2 DEF CreateFile, envVars, TypeOK, ProcessTyped
  <2>3. FilesTyped'
    BY <1>2, <2>1 DEF CreateFile, NewName, fileVars, TypeOK, FilesTyped
  <2>4. ThreadsTyped'
    <3> DEFINE x == [run[r] EXCEPT !.file = NewName]
    <3>1. LocalsOK(r, "release", run[r])
      BY <1>1, <1>2 DEF CreateFile, LocalsOK
    <3>2. x \in RunType /\ LocalsOK(r, "write", x)
      BY <1>1, <1>2, <2>1 DEF CreateFile, NewName, LocalsOK, RunType
    <3>3. CASE Return(r)
      BY <1>1, <3>1, <3>3, ProceedTyped DEF Return
    <3>4. CASE Move(r, "write", x)
      BY <1>1, <3>2, <3>4, MoveTyped
    <3> QED BY <1>2, <3>3, <3>4 DEF CreateFile, Goto, Move
  <2> QED BY <2>2, <2>3, <2>4 DEF TypeOK
<1>3. CASE WriteFile(r)
  <2>1. run[r].cmd \in Commands /\ day \in 0 .. MaxDay
    BY <1>1, <1>3, BoundsAssumption DEF WriteFile, LocalsOK, TypeOK, ProcessTyped
  <2>2. ProcessTyped'
    BY <1>3 DEF WriteFile, envVars, TypeOK, ProcessTyped
  <2>3. FilesTyped'
    BY <1>3, <2>1 DEF WriteFile, TypeOK, FilesTyped
  <2>4. LocalsOK(r, "start", run[r]) /\ LocalsOK(r, "release", run[r])
    BY <1>1, <1>3 DEF WriteFile, LocalsOK
  <2>5. ThreadsTyped'
    BY <1>1, <1>3, <2>4, ProceedTyped DEF WriteFile, Return
  <2> QED BY <2>2, <2>3, <2>5 DEF TypeOK
<1>4. CASE OnJobStart(r)
  <2>1. LocalsOK(r, "repeat", run[r])
    BY <1>1, <1>4 DEF OnJobStart, LocalsOK
  <2> QED BY <1>1, <1>4, <2>1, ProceedTyped, SharedTyped DEF OnJobStart, TypeOK
<1>5. CASE OnJobComplete(r)
  <2>1. LocalsOK(r, "notify", run[r])
    BY <1>1, <1>5 DEF OnJobComplete, LocalsOK
  <2> QED BY <1>1, <1>5, <2>1, ProceedTyped, SharedTyped DEF OnJobComplete, TypeOK
<1>6. CASE Release(r)
  <2>1. ThreadsTyped'
    BY <1>1, <1>6, EndTyped DEF Release
  <2> QED
    BY <1>6, <2>1 DEF Release, envVars, fileVars, TypeOK, ProcessTyped, FilesTyped
<1> QED BY <1>2, <1>3, <1>4, <1>5, <1>6 DEF Register

\* executeCommand and what follows it, for a run and for a resumed command.
LEMMA ExecuteTyped ==
    ASSUME TypeOK, NEW t \in Threads, Execute(t)
    PROVE  TypeOK'
<1> USE Disjoint DEF PCs, InSection, PreKey, Executing
<1>1. ThreadsTyped /\ LocalsOK(t, pc[t], run[t]) /\ run[t] \in RunType
  BY DEF TypeOK, ThreadsTyped
<1>2. t \in Runs \/ t \in FileNames
  BY DEF Threads
<1>3. ASSUME NEW result \in Results, Executed(t, result), pc[t] \in {"repeat", "command"}
      PROVE  ThreadsTyped'
  <2> DEFINE x == [run[t] EXCEPT !.result = result]
             p == IF t \in Runs THEN "complete" ELSE IF Failed(result) THEN "notify" ELSE "finish"
  <2>1. x \in RunType
    BY <1>1 DEF RunType
  <2>2. LocalsOK(t, p, x)
    BY <1>1, <1>2, <1>3 DEF LocalsOK, RunType
  <2>3. Move(t, p, x)
    BY <1>3 DEF Executed, Goto, Move
  <2> QED BY <1>1, <2>1, <2>2, <2>3, MoveTyped
<1>4. CASE Attempt(t)
  <2> DEFINE x == [run[t] EXCEPT !.tries = @ + 1]
  <2>1. x \in RunType
    <3>1. run[t].tries \in 0 .. Repeats /\ run[t].tries < Repeats
      BY <1>1, <1>4 DEF Attempt, RunType
    <3>2. run[t].tries + 1 \in 0 .. Repeats
      BY <3>1, BoundsAssumption
    <3> QED BY <1>1, <3>2 DEF RunType
  <2>2. LocalsOK(t, "command", x)
    BY <1>1, <1>2, <1>4 DEF Attempt, LocalsOK, RunType
  <2>3. Move(t, "command", x)
    BY <1>4 DEF Attempt, Goto, Move
  <2> QED BY <1>1, <1>4, <2>1, <2>2, <2>3, MoveTyped, SharedTyped DEF Attempt, TypeOK
<1>5. CASE CommandSucceeds(t)
  BY <1>3, <1>5, SharedTyped DEF CommandSucceeds, TypeOK, Results
<1>6. CASE CommandFails(t)
  <2> DEFINE x == [run[t] EXCEPT !.result = "failed"]
  <2>1. x \in RunType /\ LocalsOK(t, "repeat", x)
    BY <1>1, <1>2, <1>6 DEF CommandFails, LocalsOK, RunType, Results
  <2>2. Move(t, "repeat", x)
    BY <1>6 DEF CommandFails, Goto, Move
  <2> QED BY <1>1, <1>6, <2>1, <2>2, MoveTyped, SharedTyped DEF CommandFails, TypeOK
<1>7. CASE Exhausted(t)
  <2>1. run[t].result \in Results
    BY <1>1 DEF RunType
  <2> QED BY <1>3, <1>7, <2>1, SharedTyped DEF Exhausted, TypeOK
<1>8. CASE Abandon(t)
  <2>1. run[t].result \in Results /\ "cancelled" \in Results
    BY <1>1 DEF RunType, Results
  <2> QED BY <1>3, <1>8, <2>1, SharedTyped DEF Abandon, TypeOK
<1>9. CASE Notify(t)
  <2>1. t \in Runs => LocalsOK(t, "release", run[t])
    BY <1>1, <1>9 DEF Notify, LocalsOK
  <2>2. LocalsOK(t, "finish", run[t])
    BY <1>1, <1>2, <1>9 DEF Notify, LocalsOK
  <2>3. ThreadsTyped'
    BY <1>1, <1>9, <2>1, <2>2, ProceedTyped, EndTyped DEF Notify, Return
  <2> QED BY <1>9, <2>3, SharedTyped DEF Notify, TypeOK
<1>10. CASE Finish(t)
  <2>1. t \in Runs => LocalsOK(t, "release", run[t])
    BY <1>1, <1>10 DEF Finish, LocalsOK
  <2>2. ThreadsTyped'
    BY <1>1, <1>10, <2>1, ProceedTyped, EndTyped DEF Finish, Return
  <2>3. ProcessTyped' /\ FilesTyped'
    BY <1>10 DEF Finish, envVars, TypeOK, ProcessTyped, FilesTyped
  <2> QED BY <2>2, <2>3 DEF TypeOK
<1> QED BY <1>4, <1>5, <1>6, <1>7, <1>8, <1>9, <1>10 DEF Execute

\* Cron and the trigger channel start runs.
LEMMA StartTyped ==
    ASSUME TypeOK, NEW r \in Runs, Receive(r) \/ \E l \in Lines : Fire(r, l)
    PROVE  TypeOK'
<1> USE Disjoint DEF PCs, InSection, PreKey, Executing
<1>1. ThreadsTyped
  BY DEF TypeOK
<1>2. ASSUME NEW l \in Lines, NEW manual \in BOOLEAN, NEW text \in Texts,
             NEW date \in 0 .. MaxDay, NEW p \in {"fired", "spawned"},
             Move(r, p, NewRun(l, manual, text, date))
      PROVE  ThreadsTyped'
  <2>1. NewRun(l, manual, text, date) \in RunType
    BY IdleRunType DEF RunType, NewRun
  <2>2. LocalsOK(r, p, NewRun(l, manual, text, date))
    BY DEF LocalsOK, IdleRun, NewRun
  <2> QED BY <1>1, <1>2, <2>1, <2>2, MoveTyped
<1>3. ASSUME NEW l \in Lines, Fire(r, l) PROVE TypeOK'
  <2>1. Crontab[l].command \in Texts /\ 0 \in 0 .. MaxDay
    BY LineFields, BoundsAssumption
  <2>2. Move(r, "fired", NewRun(l, FALSE, Crontab[l].command, 0))
    BY <1>3 DEF Fire, Goto, Move
  <2>3. ThreadsTyped'
    BY <1>2, <2>1, <2>2
  <2> QED BY <1>3, <2>3, SharedTyped DEF Fire, TypeOK
<1>4. CASE Receive(r)
  <2>1. queue \in Seq(Requests) /\ queue # <<>> /\ Len(queue) <= QueueCap
    BY <1>4 DEF Receive, TypeOK, ProcessTyped
  <2>2. Head(queue) \in Requests /\ Tail(queue) \in Seq(Requests) /\ Len(Tail(queue)) <= QueueCap
    BY <2>1, BoundsAssumption
  <2>3. Head(queue).text \in Texts /\ Head(queue).date \in 0 .. MaxDay
    BY <2>2, CrontabAssumption, BoundsAssumption DEF Requests
  <2>4. PICK l \in Lines : Move(r, "spawned", NewRun(l, TRUE, Head(queue).text, Head(queue).date))
    BY <1>4 DEF Receive, Goto, Move
  <2>5. ThreadsTyped'
    BY <1>2, <2>3, <2>4
  <2> QED BY <1>4, <2>2, <2>5 DEF Receive, envVars, fileVars, TypeOK, ProcessTyped, FilesTyped
<1> QED BY <1>3, <1>4

\* Interrupted commands.
LEMMA ResumedTyped ==
    ASSUME TypeOK, ResumeNext \/ \E n \in FileNames : AcquireSema(n)
    PROVE  TypeOK'
<1> USE FileThreads DEF PCs, InSection, PreKey, Executing
<1>1. ThreadsTyped
  BY DEF TypeOK
<1>2. CASE ResumeNext
  <2> DEFINE n == Head(pending)
             x == [IdleRun EXCEPT !.cmd = content[n], !.file = n]
  <2>1. n \in FileNames /\ Tail(pending) \in Seq(FileNames)
    BY <1>2 DEF ResumeNext, TypeOK, ProcessTyped
  <2>2. x \in RunType /\ LocalsOK(n, "waiting", x)
    <3>1. content[n] \in Commands \cup {Blank} /\ n \in 0 .. MaxFiles
      BY <2>1, BoundsAssumption DEF TypeOK, FilesTyped, FileNames
    <3>2. x.file = n
      BY DEF IdleRun
    <3> QED BY <2>1, <3>1, <3>2, IdleRunType DEF RunType, LocalsOK
  <2>3. ThreadsTyped'
    <3>1. Move(n, "waiting", x)
      BY <1>2 DEF ResumeNext, Goto, Move
    <3> QED BY <1>1, <2>1, <2>2, <3>1, MoveTyped
  <2> QED BY <1>2, <2>1, <2>3 DEF ResumeNext, envVars, fileVars, TypeOK, ProcessTyped, FilesTyped
<1>3. ASSUME NEW n \in FileNames, AcquireSema(n) PROVE TypeOK'
  <2>1. LocalsOK(n, "repeat", run[n])
    BY <1>1, <1>3 DEF AcquireSema, ThreadsTyped, LocalsOK
  <2> QED BY <1>1, <1>3, <2>1, ProceedTyped, SharedTyped DEF AcquireSema, TypeOK
<1> QED BY <1>2, <1>3

\* The files listed at a start are names, in order.
LEMMA AscendingType ==
    ASSUME NEW S \in SUBSET FileNames, NEW s \in Ascending(S)
    PROVE  /\ s \in Seq(FileNames)
           /\ \A i \in DOMAIN s : s[i] \in S
           /\ \A i, j \in DOMAIN s : i < j => s[i] < s[j]
<1>1. IsFiniteSet(S)
  <2>1. IsFiniteSet(FileNames)
    BY FS_Interval, BoundsAssumption DEF FileNames
  <2> QED BY <2>1, FS_Subset
<1>2. Cardinality(S) \in Nat
  BY <1>1, FS_CardinalityType
<1> QED BY <1>2 DEF Ascending

\* Start, shutdown, the clock, the dashboard.
LEMMA ProcessStepTyped ==
    ASSUME TypeOK, Process \/ Environment
    PROVE  TypeOK'
<1>1. CASE Boot
  <2>1. files' \subseteq files /\ pending' \in Seq(FileNames)
    <3>1. CASE ResumeEnabled
      <4>1. files' \subseteq files /\ \E S \in SUBSET files : pending' \in Ascending(S)
        BY <1>1, <3>1 DEF Boot
      <4>2. PICK S \in SUBSET FileNames : pending' \in Ascending(S)
        BY <4>1 DEF TypeOK, FilesTyped
      <4> QED BY <4>1, <4>2, AscendingType
    <3>2. CASE ~ResumeEnabled
      BY <1>1, <3>2 DEF Boot, TypeOK, ProcessTyped
    <3> QED BY <3>1, <3>2
  <2>2. ThreadsTyped'
    BY <1>1 DEF Boot, TypeOK, ThreadsTyped
  <2> QED BY <1>1, <2>1, <2>2 DEF Boot, TypeOK, ProcessTyped, FilesTyped
<1>2. CASE LoadFails \/ Exit \/ Crash
  BY <1>2, DownTyped DEF LoadFails, Exit, Crash
<1>3. CASE LoadOK \/ Stop \/ Cancel \/ NewDay
  <2>1. day' \in Days
    <3>1. day' = day \/ (day < MaxDay /\ day' = day + 1)
      BY <1>3 DEF LoadOK, Stop, Cancel, NewDay
    <3>2. day \in Days
      BY DEF TypeOK, ProcessTyped
    <3> QED BY <3>1, <3>2, BoundsAssumption
  <2>2. cancelled' \in BOOLEAN /\ proc' \in {"down", "loading", "running", "stopping"}
    BY <1>3 DEF LoadOK, Stop, Cancel, NewDay, TypeOK, ProcessTyped
  <2>3. UNCHANGED <<disabled, queue, pending, active, fileVars, pc, run>>
    BY <1>3 DEF LoadOK, Stop, Cancel, NewDay
  <2> QED BY <2>1, <2>2, <2>3 DEF fileVars, TypeOK, ProcessTyped, FilesTyped, ThreadsTyped
<1>4. ASSUME NEW c \in Toggleable, Toggle(c) PROVE TypeOK'
  BY <1>4 DEF Toggle, fileVars, TypeOK, ProcessTyped, FilesTyped, ThreadsTyped
<1>5. CASE \E q \in Requests : Request(q.job, q.text, q.date)
  <2>1. PICK q \in Requests : Request(q.job, q.text, q.date)
    BY <1>5
  <2>2. [job |-> q.job, text |-> q.text, date |-> q.date] \in Requests
    BY DEF Requests
  <2>3. queue' \in Seq(Requests) /\ Len(queue') <= QueueCap
    BY <2>1, <2>2, BoundsAssumption DEF Request, TypeOK, ProcessTyped
  <2> QED BY <2>1, <2>3 DEF Request, envVars, fileVars, TypeOK, ProcessTyped, FilesTyped, ThreadsTyped
<1>6. CASE DropRequest
  <2>1. queue' \in Seq(Requests) /\ Len(queue') <= QueueCap
    BY <1>6, BoundsAssumption DEF DropRequest, TypeOK, ProcessTyped
  <2> QED BY <1>6, <2>1 DEF DropRequest, envVars, fileVars, TypeOK, ProcessTyped, FilesTyped, ThreadsTyped
<1>7. CASE ResumeNext
  BY <1>7, ResumedTyped
<1> QED BY <1>1, <1>2, <1>3, <1>4, <1>5, <1>6, <1>7 DEF Process, Environment, Load

LEMMA TypeNext == TypeOK /\ [Next]_vars => TypeOK'
<1> SUFFICES ASSUME TypeOK, [Next]_vars PROVE TypeOK'
  OBVIOUS
<1>1. CASE UNCHANGED vars
  BY <1>1 DEF vars, TypeOK, ProcessTyped, FilesTyped, ThreadsTyped
<1>2. CASE Next
  BY <1>2, BeginTyped, RegisterTyped, ExecuteTyped, StartTyped, ResumedTyped, ProcessStepTyped,
     Disjoint, FileThreads DEF Next, RunStep, ResumedStep
<1> QED BY <1>1, <1>2

\* Type correctness of the scheduler, for every crontab and every setting.
THEOREM TypeCorrect == Spec => []TypeOK
BY TypeInit, TypeNext, PTL DEF Spec

-----------------------------------------------------------------------------
(* De-duplication.  NoDuplicateRuns alone is not inductive: that a new key   *)
(* differs from the keys of the runs in their section follows from those     *)
(* being in the map, which is half of KeysAreHeld; and a release keeps the   *)
(* map exact because no other run has the released key.                      *)

DeDupInv == NoDuplicateRuns /\ KeysAreHeld

\* A step that neither enters nor leaves a section, and changes no key.
SectionsKept ==
    /\ active' = active
    /\ \A u \in Runs :
         /\ pc'[u] \in InSection <=> pc[u] \in InSection
         /\ pc[u] \in InSection => Key(u)' = Key(u)

LEMMA KeptDeDup == DeDupInv /\ SectionsKept => DeDupInv'
<1> SUFFICES ASSUME DeDupInv, SectionsKept PROVE DeDupInv'
  OBVIOUS
<1>1. NoDuplicateRuns'
  BY DEF DeDupInv, NoDuplicateRuns, SectionsKept
<1>2. {Key(r)' : r \in {q \in Runs : pc'[q] \in InSection}}
        = {Key(r) : r \in {q \in Runs : pc[q] \in InSection}}
  BY DEF SectionsKept
<1>3. KeysAreHeld'
  BY <1>2 DEF DeDupInv, KeysAreHeld, SectionsKept
<1> QED BY <1>1, <1>3 DEF DeDupInv

\* A move of a thread that stays inside or outside its section.
LEMMA MoveSections ==
    ASSUME ThreadsTyped, NEW t \in Threads, NEW p, NEW x, Move(t, p, x), active' = active,
           t \in Runs =>
             /\ p \in InSection <=> pc[t] \in InSection
             /\ p \in InSection => x.cmd = run[t].cmd /\ x.line = run[t].line
    PROVE  SectionsKept
<1>1. ASSUME NEW u \in Runs
      PROVE  /\ pc'[u] \in InSection <=> pc[u] \in InSection
             /\ pc[u] \in InSection => Key(u)' = Key(u)
  <2>1. CASE u = t
    BY <2>1, Disjoint DEF ThreadsTyped, Move, Key
  <2>2. CASE u # t
    BY <2>2, Disjoint DEF ThreadsTyped, Move, Key
  <2> QED BY <2>1, <2>2
<1> QED BY <1>1 DEF SectionsKept

LEMMA ProceedSections ==
    ASSUME ThreadsTyped, NEW t \in Threads, NEW p, Proceed(t, p), active' = active,
           t \in Runs => (p \in InSection <=> pc[t] \in InSection)
    PROVE  SectionsKept
<1>1. Move(t, p, run[t])
  BY DEF ThreadsTyped, Proceed, Goto, Move
<1> QED BY <1>1, MoveSections

LEMMA EndSections ==
    ASSUME ThreadsTyped, NEW t \in Threads, End(t), active' = active,
           t \in Runs => pc[t] \notin InSection
    PROVE  SectionsKept
<1>1. Move(t, "idle", IdleRun)
  BY DEF End, Goto, Move
<1>2. "idle" \notin InSection
  BY DEF InSection, Executing
<1> QED BY <1>1, <1>2, MoveSections

LEMMA DownDeDup == Down => DeDupInv'
<1> SUFFICES ASSUME Down PROVE DeDupInv'
  OBVIOUS
<1>1. \A r \in Runs : pc'[r] \notin InSection
  BY Disjoint DEF Down, InSection, Executing
<1> QED BY <1>1 DEF Down, DeDupInv, NoDuplicateRuns, KeysAreHeld

LEMMA BeginDeDup ==
    ASSUME TypeOK, DeDupInv, NEW r \in Runs, Begin(r)
    PROVE  DeDupInv'
<1> USE Disjoint, KeptDeDup DEF InSection, Executing, sharedVars
<1>1. ThreadsTyped
  BY DEF TypeOK
<1>2. CASE SpawnCheck(r)
  BY <1>1, <1>2, ProceedSections, EndSections DEF SpawnCheck
<1>3. CASE CheckDisabled(r)
  BY <1>1, <1>3, ProceedSections, EndSections DEF CheckDisabled
<1>4. CASE CheckConditions(r)
  BY <1>1, <1>4, ProceedSections, EndSections DEF CheckConditions
<1>5. CASE Postponed(r)
  BY <1>1, <1>5, ProceedSections, EndSections DEF Postponed
<1>6. CASE BadTemplate(r)
  BY <1>1, <1>6, EndSections DEF BadTemplate
<1>7. CASE DeDupAdd(r)
  <2> DEFINE k == <<CommandOf(r), Crontab[run[r].line].spec>>
             p == IF ResumeEnabled THEN "create" ELSE "start"
             x == [run[r] EXCEPT !.cmd = CommandOf(r)]
  <2>1. CASE End(r) /\ UNCHANGED active
    BY <1>1, <1>7, <2>1, EndSections DEF DeDupAdd
  <2>2. CASE /\ ~Duplicate(k) /\ Move(r, p, x)
             /\ active' = IF DeDupEnabled THEN active \cup {k} ELSE active
    <3>1. pc[r] = "enter" /\ pc'[r] = p /\ p \in InSection /\ Key(r)' = k
      <4>1. run[r] \in RunType /\ run'[r] = x /\ pc'[r] = p
        BY <1>1, <2>2 DEF Move, ThreadsTyped
      <4>2. x.cmd = CommandOf(r) /\ x.line = run[r].line
        BY <4>1 DEF RunType
      <4> QED BY <1>7, <4>1, <4>2 DEF DeDupAdd, Key
    <3>2. \A u \in Runs : u # r => pc'[u] = pc[u] /\ Key(u)' = Key(u)
      BY <1>1, <2>2 DEF Move, Key, ThreadsTyped
    <3>3. CASE ~DeDupEnabled
      BY <2>2, <3>3 DEF DeDupInv, NoDuplicateRuns, KeysAreHeld
    <3>4. CASE DeDupEnabled
      <4>1. k \notin active /\ active' = active \cup {k}
        BY <2>2, <3>4 DEF Duplicate
      <4>2. \A u \in Runs : pc[u] \in InSection => Key(u) # k
        BY <3>4, <4>1 DEF DeDupInv, KeysAreHeld
      <4>3. NoDuplicateRuns'
        BY <3>1, <3>2, <4>2 DEF DeDupInv, NoDuplicateRuns
      <4>4. {Key(u)' : u \in {q \in Runs : pc'[q] \in InSection}}
              = {Key(u) : u \in {q \in Runs : pc[q] \in InSection}} \cup {k}
        <5>1. pc[r] \notin InSection
          BY <3>1
        <5> HIDE DEF k, p, x
        <5> QED BY <3>1, <3>2, <5>1
      <4> QED BY <3>4, <4>1, <4>3, <4>4 DEF DeDupInv, KeysAreHeld
    <3> QED BY <3>3, <3>4
  <2> QED BY <1>7, <2>1, <2>2 DEF DeDupAdd, Goto, Move
<1> QED BY <1>2, <1>3, <1>4, <1>5, <1>6, <1>7 DEF Begin

LEMMA RegisterDeDup ==
    ASSUME TypeOK, DeDupInv, NEW r \in Runs, Register(r)
    PROVE  DeDupInv'
<1> USE Disjoint, KeptDeDup DEF InSection, Executing, sharedVars
<1>1. ThreadsTyped
  BY DEF TypeOK
<1>2. CASE CreateFile(r)
  <2>1. CASE Return(r)
    BY <1>1, <1>2, <2>1, ProceedSections DEF CreateFile, Return
  <2>2. CASE Move(r, "write", [run[r] EXCEPT !.file = NewName])
    BY <1>1, <1>2, <2>2, MoveSections DEF CreateFile, ThreadsTyped, RunType
  <2> QED BY <1>2, <2>1, <2>2 DEF CreateFile, Goto, Move
<1>3. CASE WriteFile(r)
  BY <1>1, <1>3, ProceedSections DEF WriteFile, Return
<1>4. CASE OnJobStart(r)
  BY <1>1, <1>4, ProceedSections DEF OnJobStart
<1>5. CASE OnJobComplete(r)
  BY <1>1, <1>5, ProceedSections DEF OnJobComplete
<1>6. CASE Release(r)
  <2>1. pc[r] \in InSection /\ pc'[r] \notin InSection
    BY <1>1, <1>6 DEF Release, End, Goto, ThreadsTyped
  <2>2. \A u \in Runs : u # r => pc'[u] = pc[u] /\ Key(u)' = Key(u)
    BY <1>1, <1>6 DEF Release, End, Goto, Key, ThreadsTyped
  <2>3. active' = active \ {Key(r)}
    BY <1>6 DEF Release
  <2>4. CASE ~DeDupEnabled
    BY <2>3, <2>4 DEF DeDupInv, NoDuplicateRuns, KeysAreHeld
  <2>5. CASE DeDupEnabled
    <3>1. \A u \in Runs : pc[u] \in InSection /\ u # r => Key(u) # Key(r)
      BY <2>1, <2>5 DEF DeDupInv, NoDuplicateRuns
    <3>2. NoDuplicateRuns'
      BY <2>1, <2>2 DEF DeDupInv, NoDuplicateRuns
    <3>3. {Key(u)' : u \in {q \in Runs : pc'[q] \in InSection}}
            = {Key(u) : u \in {q \in Runs : pc[q] \in InSection}} \ {Key(r)}
      BY <2>1, <2>2, <3>1
    <3> QED BY <2>3, <2>5, <3>2, <3>3 DEF DeDupInv, KeysAreHeld
  <2> QED BY <2>4, <2>5
<1> QED BY <1>2, <1>3, <1>4, <1>5, <1>6 DEF Register

LEMMA ExecuteDeDup ==
    ASSUME TypeOK, DeDupInv, NEW t \in Threads, Execute(t)
    PROVE  DeDupInv'
<1> USE KeptDeDup DEF InSection, Executing, sharedVars
<1>1. ThreadsTyped /\ run[t] \in RunType
  BY DEF TypeOK, ThreadsTyped
<1>2. ASSUME NEW result, Executed(t, result), pc[t] \in {"repeat", "command"}, active' = active
      PROVE  DeDupInv'
  <2>1. Move(t, IF t \in Runs THEN "complete" ELSE IF Failed(result) THEN "notify" ELSE "finish",
             [run[t] EXCEPT !.result = result])
    BY <1>2 DEF Executed, Goto, Move
  <2> QED BY <1>1, <1>2, <2>1, MoveSections DEF RunType
<1>3. CASE Attempt(t)
  <2>1. Move(t, "command", [run[t] EXCEPT !.tries = @ + 1])
    BY <1>3 DEF Attempt, Goto, Move
  <2> QED BY <1>1, <1>3, <2>1, MoveSections DEF Attempt, RunType
<1>4. CASE CommandFails(t)
  <2>1. Move(t, "repeat", [run[t] EXCEPT !.result = "failed"])
    BY <1>4 DEF CommandFails, Goto, Move
  <2> QED BY <1>1, <1>4, <2>1, MoveSections DEF CommandFails, RunType
<1>5. CASE CommandSucceeds(t) \/ Exhausted(t) \/ Abandon(t)
  BY <1>2, <1>5 DEF CommandSucceeds, Exhausted, Abandon
<1>6. CASE Notify(t)
  BY <1>1, <1>6, ProceedSections, EndSections DEF Notify, Return
<1>7. CASE Finish(t)
  BY <1>1, <1>7, ProceedSections, EndSections DEF Finish, Return
<1> QED BY <1>3, <1>4, <1>5, <1>6, <1>7 DEF Execute

LEMMA OtherDeDup ==
    ASSUME TypeOK, DeDupInv,
           \/ Process \/ Environment
           \/ \E n \in FileNames : AcquireSema(n)
           \/ \E r \in Runs : Receive(r) \/ \E l \in Lines : Fire(r, l)
    PROVE  DeDupInv'
<1> USE KeptDeDup, Disjoint, FileThreads DEF InSection, Executing
<1>1. ThreadsTyped
  BY DEF TypeOK
<1>2. CASE LoadFails \/ Exit \/ Crash
  BY <1>2, DownDeDup DEF LoadFails, Exit, Crash
<1>3. CASE UNCHANGED <<active, pc, run>>
  BY <1>3 DEF SectionsKept, Key
<1>4. CASE ResumeNext
  <2> DEFINE n == Head(pending)
             x == [IdleRun EXCEPT !.cmd = content[n], !.file = n]
  <2>1. n \in FileNames
    BY <1>4 DEF ResumeNext, TypeOK, ProcessTyped
  <2>2. Move(n, "waiting", x) /\ active' = active
    BY <1>4 DEF ResumeNext, Goto, Move
  <2> QED BY <1>1, <2>1, <2>2, MoveSections
<1>5. ASSUME NEW n \in FileNames, AcquireSema(n) PROVE DeDupInv'
  BY <1>1, <1>5, ProceedSections DEF AcquireSema, sharedVars
<1>6. ASSUME NEW r \in Runs, Receive(r) \/ \E l \in Lines : Fire(r, l) PROVE DeDupInv'
  <2>1. pc[r] = "idle" /\ active' = active
    BY <1>6 DEF Receive, Fire, sharedVars
  <2>2. \E p \in {"fired", "spawned"} : \E x : Move(r, p, x)
    BY <1>6 DEF Receive, Fire, Goto, Move
  <2> QED BY <1>1, <2>1, <2>2, MoveSections
<1>7. Boot \/ LoadOK \/ Stop \/ DropRequest \/ Cancel \/ NewDay \/ (\E c \in Toggleable : Toggle(c))
        \/ (\E q \in Requests : Request(q.job, q.text, q.date)) => UNCHANGED <<active, pc, run>>
  BY DEF Boot, LoadOK, Stop, DropRequest, Cancel, NewDay, Toggle, Request, envVars, fileVars
<1> QED BY <1>2, <1>3, <1>4, <1>5, <1>6, <1>7 DEF Process, Environment, Load

LEMMA DeDupNext == TypeOK /\ DeDupInv /\ [Next]_vars => DeDupInv'
<1> SUFFICES ASSUME TypeOK, DeDupInv, [Next]_vars PROVE DeDupInv'
  OBVIOUS
<1>1. CASE UNCHANGED vars
  BY <1>1, KeptDeDup DEF vars, SectionsKept, Key
<1>2. CASE Next
  BY <1>2, BeginDeDup, RegisterDeDup, ExecuteDeDup, OtherDeDup, Disjoint, FileThreads
     DEF Next, RunStep, ResumedStep
<1> QED BY <1>1, <1>2

LEMMA DeDupInit == Init => DeDupInv
<1> SUFFICES ASSUME Init PROVE DeDupInv
  OBVIOUS
<1>1. \A r \in Runs : pc[r] \notin InSection
  BY Disjoint DEF Init, InSection, Executing
<1> QED BY <1>1 DEF Init, DeDupInv, NoDuplicateRuns, KeysAreHeld

\* De-duplication holds for any number of concurrent runs, fired or manual:
\* two runs of one command and schedule are never in their section together.
THEOREM DeDupCorrect == Spec => []NoDuplicateRuns
<1>1. Init => TypeOK /\ DeDupInv
  BY TypeInit, DeDupInit
<1>2. TypeOK /\ DeDupInv /\ [Next]_vars => (TypeOK /\ DeDupInv)'
  BY TypeNext, DeDupNext
<1>3. DeDupInv => NoDuplicateRuns
  BY DEF DeDupInv
<1> QED BY <1>1, <1>2, <1>3, PTL DEF Spec

\* No key stays in the map without a run that will remove it.
THEOREM NoKeyLeaks == Spec => []KeysAreHeld
<1>1. Init => TypeOK /\ DeDupInv
  BY TypeInit, DeDupInit
<1>2. TypeOK /\ DeDupInv /\ [Next]_vars => (TypeOK /\ DeDupInv)'
  BY TypeNext, DeDupNext
<1>3. DeDupInv => KeysAreHeld
  BY DEF DeDupInv
<1> QED BY <1>1, <1>2, <1>3, PTL DEF Spec
=============================================================================
