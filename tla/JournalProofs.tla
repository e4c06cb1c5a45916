---------------------------- MODULE JournalProofs ----------------------------
(***************************************************************************)
(* Proofs about the flag files of Scheduler: with --resume, a kill at any  *)
(* step leaves every command being executed in a flag file of its own.     *)
(***************************************************************************)
EXTENDS SchedulerProofs

\* Between the end of a process and the next start nothing runs.
DownIdle == proc = "down" => pending = <<>> /\ \A t \in Threads : pc[t] = "idle"

\* Names grow: none that was ever given is later than lastName.
NamesGiven == files \subseteq 1 .. lastName /\ \A t \in Threads : run[t].file <= lastName

\* Where a thread has its command in its flag file, and where it has the file.
Registered == {"waiting", "start"} \cup Executing
Created == {"write"} \cup Registered

\* Journaled, and what it rests on: the file is there from its creation on,
\* also while a resumed command waits for its turn.
FilesKept ==
    ResumeEnabled =>
        \A t \in Threads :
            /\ pc[t] \in Created => run[t].file \in files
            /\ pc[t] \in Registered => content[run[t].file] = run[t].cmd

JournalInv == DownIdle /\ NamesGiven /\ OneOwnerPerFile /\ PendingUntouched /\ FilesKept

USE DEF NoFile, Registered, Created, Executing

\* File numbers are natural numbers.
LEMMA FileNumbers ==
    ASSUME TypeOK
    PROVE  lastName \in Nat /\ \A t \in Threads : run[t].file \in Nat
<1>1. lastName \in 0 .. MaxFiles /\ MaxFiles \in Nat
  BY BoundsAssumption DEF TypeOK, FilesTyped
<1>2. \A t \in Threads : run[t].file \in 0 .. MaxFiles
  BY DEF TypeOK, ThreadsTyped, RunType
<1>3. 0 .. MaxFiles \subseteq Nat
  BY <1>1
<1> QED BY <1>1, <1>2, <1>3

LEMMA FileNameNumbers == \A n \in FileNames : n \in Nat /\ n # NoFile
BY BoundsAssumption DEF FileNames

\* What is pending are file names.
LEMMA PendingNames ==
    ASSUME TypeOK
    PROVE  \A i \in DOMAIN pending : pending[i] \in FileNames /\ pending[i] \in Nat /\ pending[i] # NoFile
<1>1. \A i \in DOMAIN pending : pending[i] \in FileNames
  BY DEF TypeOK, ProcessTyped
<1> QED BY <1>1, BoundsAssumption DEF FileNames

LEMMA JournalInit == Init => JournalInv
<1> SUFFICES ASSUME Init PROVE JournalInv
  OBVIOUS
<1>1. DownIdle /\ FilesKept
  BY DEF Init, DownIdle, FilesKept
<1>2. NamesGiven /\ OneOwnerPerFile /\ PendingUntouched
  <2>1. \A t \in Threads : run[t].file = 0
    BY DEF Init, IdleRun
  <2> QED BY <2>1 DEF Init, NamesGiven, OneOwnerPerFile, PendingUntouched
<1> QED BY <1>1, <1>2 DEF JournalInv

\* A busy thread moves and touches no file.
LEMMA JournalMove ==
    ASSUME TypeOK, JournalInv, NEW t \in Threads, NEW p, NEW x \in RunType, Move(t, p, x),
           pc[t] # "idle", p # "write", x.file \in {run[t].file, NoFile},
           p \in Registered /\ ResumeEnabled =>
               pc[t] \in Registered /\ x.file = run[t].file /\ x.cmd = run[t].cmd,
           UNCHANGED <<proc, pending, files, content, lastName>>
    PROVE  JournalInv'
<1>1. pc \in [Threads -> PCs] /\ run \in [Threads -> RunType]
  BY DEF TypeOK, ThreadsTyped
<1>2. /\ pc'[t] = p /\ run'[t] = x
      /\ \A u \in Threads \ {t} : pc'[u] = pc[u] /\ run'[u] = run[u]
  BY <1>1 DEF Move
<1>3. DownIdle'
  BY DEF JournalInv, DownIdle
<1>4. NamesGiven'
  BY <1>2, FileNumbers DEF JournalInv, NamesGiven
<1>5. OneOwnerPerFile'
  BY <1>2 DEF JournalInv, OneOwnerPerFile
<1>6. PendingUntouched'
  BY <1>2, PendingNames DEF JournalInv, PendingUntouched
<1>7. FilesKept'
  BY <1>2 DEF JournalInv, FilesKept
<1> QED BY <1>3, <1>4, <1>5, <1>6, <1>7 DEF JournalInv

LEMMA ProceedJournal ==
    ASSUME TypeOK, JournalInv, NEW t \in Threads, NEW p, Proceed(t, p),
           pc[t] # "idle", p # "write", p \in Registered /\ ResumeEnabled => pc[t] \in Registered,
           UNCHANGED <<proc, pending, files, content, lastName>>
    PROVE  JournalInv'
<1>1. Move(t, p, run[t]) /\ run[t] \in RunType
  BY DEF TypeOK, ThreadsTyped, Proceed, Goto, Move
<1> QED BY <1>1, JournalMove

LEMMA EndJournal ==
    ASSUME TypeOK, JournalInv, NEW t \in Threads, End(t), pc[t] # "idle",
           UNCHANGED <<proc, pending, files, content, lastName>>
    PROVE  JournalInv'
<1>1. Move(t, "idle", IdleRun) /\ IdleRun.file = NoFile
  BY DEF End, Goto, Move, IdleRun
<1> QED BY <1>1, IdleRunType, JournalMove

\* The process ends; the files stay.
LEMMA DownJournal == TypeOK /\ JournalInv /\ Down => JournalInv'
<1> SUFFICES ASSUME TypeOK, JournalInv, Down PROVE JournalInv'
  OBVIOUS
<1>1. \A t \in Threads : pc'[t] = "idle" /\ run'[t].file = NoFile
  BY DEF Down, IdleRun
<1>2. DownIdle' /\ FilesKept' /\ OneOwnerPerFile' /\ PendingUntouched'
  BY <1>1 DEF Down, DownIdle, FilesKept, OneOwnerPerFile, PendingUntouched
<1>3. NamesGiven'
  BY <1>1, FileNumbers DEF Down, JournalInv, NamesGiven
<1> QED BY <1>2, <1>3 DEF JournalInv

\* How runs begin: they own no file yet.
LEMMA BeginJournal ==
    ASSUME TypeOK, JournalInv, NEW r \in Runs, Begin(r)
    PROVE  JournalInv'
<1> USE Disjoint, ProceedJournal, EndJournal DEF sharedVars, envVars, fileVars
<1>1. CASE SpawnCheck(r)
  BY <1>1 DEF SpawnCheck
<1>2. CASE CheckDisabled(r)
  BY <1>2 DEF CheckDisabled
<1>3. CASE CheckConditions(r)
  BY <1>3 DEF CheckConditions
<1>4. CASE Postponed(r)
  BY <1>4 DEF Postponed
<1>5. CASE BadTemplate(r)
  BY <1>5 DEF BadTemplate
<1>6. CASE DeDupAdd(r)
  <2> DEFINE p == IF ResumeEnabled THEN "create" ELSE "start"
             x == [run[r] EXCEPT !.cmd = CommandOf(r)]
  <2>1. CASE End(r)
    BY <1>6, <2>1 DEF DeDupAdd
  <2>2. CASE Move(r, p, x)
    <3>1. run'[r] \in RunType /\ run'[r] = x /\ run[r] \in RunType
      <4>1. TypeOK'
        BY BeginTyped
      <4> QED BY <2>2, <4>1 DEF Move, TypeOK, ThreadsTyped
    <3>2. x.file = run[r].file
      BY <3>1 DEF RunType
    <3> QED BY <1>6, <2>2, <3>1, <3>2, JournalMove DEF DeDupAdd
  <2> QED BY <1>6, <2>1, <2>2 DEF DeDupAdd, Goto, Move
<1> QED BY <1>1, <1>2, <1>3, <1>4, <1>5, <1>6 DEF Begin

\* Resumer.OnStart makes a new file: nobody owns it, and it is not pending.
LEMMA CreateJournal ==
    ASSUME TypeOK, JournalInv, NEW r \in Runs, CreateFile(r)
    PROVE  JournalInv'
<1> USE Disjoint
<1>1. CASE Return(r) /\ UNCHANGED fileVars
  BY <1>1, ProceedJournal DEF CreateFile, Return, fileVars, envVars
<1>2. CASE ~(Return(r) /\ UNCHANGED fileVars)
  <2> DEFINE n == lastName + 1
  <2>1. /\ pc[r] = "create" /\ files' = files \cup {n} /\ lastName' = n
        /\ content' = [content EXCEPT ![n] = Blank]
        /\ pc' = [pc EXCEPT ![r] = "write"] /\ run' = [run EXCEPT ![r].file = n]
        /\ UNCHANGED <<proc, pending>>
    BY <1>2 DEF CreateFile, NewName, Goto, envVars
  <2>2. n \in FileNames /\ lastName \in Nat /\ n # NoFile
    BY FileNumbers, BoundsAssumption DEF CreateFile, FileNames
  <2>3. pc \in [Threads -> PCs] /\ run \in [Threads -> RunType] /\ run[r] \in RunType
    BY DEF TypeOK, ThreadsTyped
  <2>4. /\ pc'[r] = "write" /\ run'[r].file = n
        /\ \A u \in Threads \ {r} : pc'[u] = pc[u] /\ run'[u] = run[u]
    BY <2>1, <2>3 DEF RunType
  <2>5. \A u \in Threads : run[u].file # n /\ run[u].file \in Nat
    <3> TAKE u \in Threads
    <3>1. run[u].file \in Nat /\ run[u].file <= lastName
      BY FileNumbers DEF JournalInv, NamesGiven
    <3> QED BY <2>2, <3>1
  <2>6. DownIdle'
    BY <2>1 DEF JournalInv, DownIdle
  <2>7. NamesGiven'
    <3>1. files' \subseteq 1 .. lastName'
      BY <2>1, <2>2 DEF JournalInv, NamesGiven
    <3>2. \A u \in Threads : run'[u].file <= lastName'
      <4> TAKE u \in Threads
      <4>1. run[u].file <= lastName
        BY DEF JournalInv, NamesGiven
      <4> QED BY <2>1, <2>2, <2>4, <2>5, <4>1
    <3> QED BY <3>1, <3>2 DEF NamesGiven
  <2>8. OneOwnerPerFile'
    BY <2>4, <2>5 DEF JournalInv, OneOwnerPerFile
  <2>9. PendingUntouched'
    <3>1. \A i \in DOMAIN pending : pending[i] \in FileNames /\ pending[i] <= lastName
      BY PendingNames DEF JournalInv, PendingUntouched
    <3>2. \A i \in DOMAIN pending : pending[i] # n /\ pending[i] <= n
      BY <2>2, <3>1, PendingNames
    <3> QED BY <2>1, <2>4, <3>2 DEF JournalInv, PendingUntouched
  <2>10. FilesKept'
    <3> SUFFICES ASSUME ResumeEnabled, NEW u \in Threads
                 PROVE  /\ pc'[u] \in Created => run'[u].file \in files'
                        /\ pc'[u] \in Registered => content'[run'[u].file] = run'[u].cmd
      BY DEF FilesKept
    <3>1. CASE u = r
      BY <2>1, <2>4, <3>1
    <3>2. CASE u # r
      <4>1. pc[u] \in Registered => content'[run[u].file] = content[run[u].file]
        BY <2>1, <2>5 DEF TypeOK, FilesTyped
      <4> QED BY <2>1, <2>4, <3>2, <4>1 DEF JournalInv, FilesKept
    <3> QED BY <3>1, <3>2
  <2> QED BY <2>6, <2>7, <2>8, <2>9, <2>10 DEF JournalInv
<1> QED BY <1>1, <1>2

\* It writes the command into the file it has made, which is its own.
LEMMA WriteJournal ==
    ASSUME TypeOK, JournalInv, NEW r \in Runs, WriteFile(r)
    PROVE  JournalInv'
<1> USE Disjoint
<1>1. CASE Return(r) /\ UNCHANGED <<content, born>>
  BY <1>1, ProceedJournal DEF WriteFile, Return, envVars
<1>2. CASE content' = [content EXCEPT ![run[r].file] = run[r].cmd] /\ Proceed(r, "start")
  <2>1. pc[r] = "write" /\ UNCHANGED <<proc, pending, files, lastName, run>>
    BY <1>2 DEF WriteFile, Proceed, envVars
  <2>2. pc'[r] = "start" /\ \A u \in Threads \ {r} : pc'[u] = pc[u]
    BY <1>2 DEF Proceed, Goto, TypeOK, ThreadsTyped
  <2>3. DownIdle'
    BY <2>1 DEF JournalInv, DownIdle
  <2>4. NamesGiven' /\ OneOwnerPerFile' /\ PendingUntouched'
    BY <2>1 DEF JournalInv, NamesGiven, OneOwnerPerFile, PendingUntouched
  <2>5. FilesKept'
    <3> SUFFICES ASSUME ResumeEnabled, NEW u \in Threads
                 PROVE  /\ pc'[u] \in Created => run[u].file \in files
                        /\ pc'[u] \in Registered => content'[run[u].file] = run[u].cmd
      BY <2>1 DEF FilesKept
    <3>1. run[r].file \in FileNames /\ run[r].file \in files
      BY <2>1 DEF JournalInv, FilesKept, TypeOK, FilesTyped
    <3>2. CASE u = r
      BY <1>2, <2>2, <3>1, <3>2 DEF TypeOK, FilesTyped
    <3>3. CASE u # r
      <4>1. run[u].file # run[r].file
        BY <3>1, <3>3, BoundsAssumption DEF JournalInv, OneOwnerPerFile, FileNames
      <4>2. content'[run[u].file] = content[run[u].file]
        BY <1>2, <4>1 DEF TypeOK, FilesTyped
      <4> QED BY <2>2, <3>3, <4>2 DEF JournalInv, FilesKept
    <3> QED BY <3>2, <3>3
  <2> QED BY <2>3, <2>4, <2>5 DEF JournalInv
<1> QED BY <1>1, <1>2 DEF WriteFile

LEMMA RegisterJournal ==
    ASSUME TypeOK, JournalInv, NEW r \in Runs, Register(r)
    PROVE  JournalInv'
<1> USE Disjoint, ProceedJournal, EndJournal DEF sharedVars, envVars, fileVars
<1>1. CASE CreateFile(r)
  BY <1>1, CreateJournal
<1>2. CASE WriteFile(r)
  BY <1>2, WriteJournal
<1>3. CASE OnJobStart(r)
  BY <1>3 DEF OnJobStart
<1>4. CASE OnJobComplete(r)
  BY <1>4 DEF OnJobComplete
<1>5. CASE Release(r)
  BY <1>5 DEF Release
<1> QED BY <1>1, <1>2, <1>3, <1>4, <1>5 DEF Register

\* Resumer.OnFinish removes the thread's own file, when its outcome is settled.
LEMMA FinishJournal ==
    ASSUME TypeOK, JournalInv, NEW t \in Threads, Finish(t)
    PROVE  JournalInv'
<1>1. pc[t] = "finish" /\ UNCHANGED <<proc, pending, content, lastName>>
      /\ (files' = files \/ files' = files \ {run[t].file})
  BY DEF Finish, Finished, envVars
<1>2. pc' = [pc EXCEPT ![t] = IF t \in Runs THEN "release" ELSE "idle"]
      /\ (run' = run \/ run' = [run EXCEPT ![t] = IdleRun])
  BY DEF Finish, Return, Proceed, End, Goto
<1>3. /\ pc'[t] \in {"release", "idle"}
      /\ run'[t].file \in {run[t].file, NoFile}
      /\ \A u \in Threads \ {t} : pc'[u] = pc[u] /\ run'[u] = run[u]
  <2>1. pc \in [Threads -> PCs] /\ run \in [Threads -> RunType]
    BY DEF TypeOK, ThreadsTyped
  <2>2. IdleRun.file = NoFile
    BY DEF IdleRun
  <2> QED BY <1>2, <2>1, <2>2
<1>4. DownIdle'
  BY <1>1 DEF JournalInv, DownIdle
<1>5. NamesGiven'
  <2>1. files' \subseteq 1 .. lastName'
    BY <1>1 DEF JournalInv, NamesGiven
  <2>2. \A u \in Threads : run'[u].file <= lastName
    BY <1>3, FileNumbers DEF JournalInv, NamesGiven
  <2> QED BY <1>1, <2>1, <2>2 DEF NamesGiven
<1>6. OneOwnerPerFile'
  BY <1>3 DEF JournalInv, OneOwnerPerFile
<1>7. PendingUntouched'
  BY <1>1, <1>3, PendingNames DEF JournalInv, PendingUntouched
<1>8. FilesKept'
  <2> SUFFICES ASSUME ResumeEnabled, NEW u \in Threads, pc'[u] \in Created
               PROVE  /\ run'[u].file \in files'
                      /\ pc'[u] \in Registered => content'[run'[u].file] = run'[u].cmd
    BY DEF FilesKept
  <2>1. u # t /\ pc'[u] = pc[u] /\ run'[u] = run[u]
    BY <1>3
  <2>2. run[u].file \in files /\ run[u].file # NoFile
    BY <2>1, BoundsAssumption DEF JournalInv, FilesKept, TypeOK, FilesTyped, FileNames
  <2>3. run[u].file # run[t].file
    BY <2>1, <2>2 DEF JournalInv, OneOwnerPerFile
  <2> QED BY <1>1, <2>1, <2>2, <2>3 DEF JournalInv, FilesKept
<1> QED BY <1>4, <1>5, <1>6, <1>7, <1>8 DEF JournalInv

LEMMA ExecuteJournal ==
    ASSUME TypeOK, JournalInv, NEW t \in Threads, Execute(t)
    PROVE  JournalInv'
<1> USE DEF sharedVars, envVars, fileVars
<1>1. run[t] \in RunType /\ TypeOK'
  BY ExecuteTyped DEF TypeOK, ThreadsTyped
<1>2. ASSUME NEW p, NEW x, Move(t, p, x), x.file = run[t].file, x.cmd = run[t].cmd,
             pc[t] \in {"repeat", "command"}, p # "write",
             UNCHANGED <<proc, pending, files, content, lastName>>
      PROVE  JournalInv'
  <2>1. run'[t] = x /\ run'[t] \in RunType
    BY <1>1, <1>2 DEF Move, TypeOK, ThreadsTyped
  <2> QED BY <1>2, <2>1, JournalMove
<1>3. ASSUME NEW result, Executed(t, result), pc[t] \in {"repeat", "command"}, UNCHANGED sharedVars
      PROVE  JournalInv'
  <2> DEFINE p == IF t \in Runs THEN "complete" ELSE IF Failed(result) THEN "notify" ELSE "finish"
             x == [run[t] EXCEPT !.result = result]
  <2>1. Move(t, p, x)
    BY <1>3 DEF Executed, Goto, Move
  <2>2. x.file = run[t].file /\ x.cmd = run[t].cmd /\ p # "write"
    BY <1>1 DEF RunType
  <2> QED BY <1>2, <1>3, <2>1, <2>2
<1>4. CASE Attempt(t)
  <2> DEFINE x == [run[t] EXCEPT !.tries = @ + 1]
  <2>1. Move(t, "command", x)
    BY <1>4 DEF Attempt, Goto, Move
  <2>2. x.file = run[t].file /\ x.cmd = run[t].cmd
    BY <1>1 DEF RunType
  <2> QED BY <1>2, <1>4, <2>1, <2>2 DEF Attempt
<1>5. CASE CommandFails(t)
  <2> DEFINE x == [run[t] EXCEPT !.result = "failed"]
  <2>1. Move(t, "repeat", x)
    BY <1>5 DEF CommandFails, Goto, Move
  <2>2. x.file = run[t].file /\ x.cmd = run[t].cmd
    BY <1>1 DEF RunType
  <2> QED BY <1>2, <1>5, <2>1, <2>2 DEF CommandFails
<1>6. CASE CommandSucceeds(t) \/ Exhausted(t) \/ Abandon(t)
  BY <1>3, <1>6 DEF CommandSucceeds, Exhausted, Abandon
<1>7. CASE Notify(t)
  BY <1>7, ProceedJournal, EndJournal DEF Notify, Return
<1>8. CASE Finish(t)
  BY <1>8, FinishJournal
<1> QED BY <1>4, <1>5, <1>6, <1>7, <1>8 DEF Execute

\* A run that begins owns no file.
LEMMA StartJournal ==
    ASSUME TypeOK, JournalInv, NEW r \in Runs, Receive(r) \/ \E l \in Lines : Fire(r, l)
    PROVE  JournalInv'
<1>1. /\ proc # "down" /\ UNCHANGED <<proc, pending, files, content, lastName>>
      /\ \E p \in {"fired", "spawned"}, l \in Lines, manual \in BOOLEAN :
           \E text, date : Move(r, p, NewRun(l, manual, text, date))
  <2>1. ASSUME NEW l \in Lines, Fire(r, l)
        PROVE  /\ proc # "down" /\ UNCHANGED <<proc, pending, files, content, lastName>>
               /\ Move(r, "fired", NewRun(l, FALSE, Crontab[l].command, 0))
    BY <2>1 DEF Fire, Goto, Move, sharedVars, envVars, fileVars
  <2>2. CASE Receive(r)
    <3>1. PICK l \in Lines : Move(r, "spawned", NewRun(l, TRUE, Head(queue).text, Head(queue).date))
      BY <2>2 DEF Receive, Goto, Move
    <3> QED BY <2>2, <3>1 DEF Receive, Up, envVars, fileVars
  <2> QED BY <2>1, <2>2
<1>2. PICK p \in {"fired", "spawned"}, l \in Lines, manual \in BOOLEAN :
           \E text, date : Move(r, p, NewRun(l, manual, text, date))
  BY <1>1
<1>3. /\ pc'[r] = p /\ run'[r].file = NoFile
      /\ \A u \in Threads \ {r} : pc'[u] = pc[u] /\ run'[u] = run[u]
  BY <1>2, Disjoint DEF Move, NewRun, IdleRun, TypeOK, ThreadsTyped
<1>4. DownIdle'
  BY <1>1 DEF DownIdle
<1>5. NamesGiven'
  BY <1>1, <1>3, FileNumbers DEF JournalInv, NamesGiven
<1>6. OneOwnerPerFile'
  BY <1>3 DEF JournalInv, OneOwnerPerFile
<1>7. PendingUntouched'
  BY <1>1, <1>3, PendingNames DEF JournalInv, PendingUntouched
<1>8. FilesKept'
  BY <1>1, <1>3 DEF JournalInv, FilesKept
<1> QED BY <1>4, <1>5, <1>6, <1>7, <1>8 DEF JournalInv

\* The head of what is pending gets a goroutine that owns its file.
LEMMA ResumeNextJournal ==
    ASSUME TypeOK, JournalInv, ResumeNext
    PROVE  JournalInv'
<1> DEFINE n == Head(pending)
           x == [IdleRun EXCEPT !.cmd = content[n], !.file = n]
<1>1. /\ pending \in Seq(FileNames) /\ pending # <<>> /\ proc # "down"
      /\ pending' = Tail(pending) /\ UNCHANGED <<proc, files, content, lastName>>
      /\ Move(n, "waiting", x)
  BY DEF ResumeNext, TypeOK, ProcessTyped, Up, Goto, Move, envVars, fileVars
<1>2. /\ n = pending[1] /\ 1 \in DOMAIN pending /\ n \in FileNames
      /\ \A i \in DOMAIN pending' :
           i \in Nat /\ i + 1 \in DOMAIN pending /\ 1 < i + 1 /\ pending'[i] = pending[i + 1]
  BY <1>1
<1>3. n \in Threads
  BY <1>2, FileThreads
<1>4. x.file = n /\ x.cmd = content[n]
  BY DEF IdleRun
<1>5. /\ pc'[n] = "waiting" /\ run'[n] = x
      /\ \A u \in Threads \ {n} : pc'[u] = pc[u] /\ run'[u] = run[u]
  <2> HIDE DEF n, x
  <2> QED BY <1>1, <1>3 DEF Move, TypeOK, ThreadsTyped
<1> HIDE DEF x
<1>6. n \in files /\ n <= lastName /\ \A t \in Threads : run[t].file # n
  BY <1>2 DEF JournalInv, PendingUntouched
<1>7. DownIdle'
  BY <1>1 DEF DownIdle
<1>8. NamesGiven'
  BY <1>1, <1>4, <1>5, <1>6 DEF JournalInv, NamesGiven
<1>9. OneOwnerPerFile'
  BY <1>4, <1>5, <1>6 DEF JournalInv, OneOwnerPerFile
<1>10. PendingUntouched'
  <2>1. ASSUME NEW i \in DOMAIN pending'
        PROVE  /\ pending'[i] \in files' /\ pending'[i] <= lastName'
               /\ \A j \in DOMAIN pending' : i < j => pending'[i] < pending'[j]
    <3>1. i \in Nat /\ i + 1 \in DOMAIN pending /\ pending'[i] = pending[i + 1]
      BY <1>2
    <3>2. ASSUME NEW j \in DOMAIN pending', i < j PROVE pending'[i] < pending'[j]
      <4>1. j \in Nat /\ j + 1 \in DOMAIN pending /\ pending'[j] = pending[j + 1] /\ i + 1 < j + 1
        BY <1>2, <3>1, <3>2
      <4> QED BY <3>1, <4>1 DEF JournalInv, PendingUntouched
    <3> QED BY <1>1, <3>1, <3>2 DEF JournalInv, PendingUntouched
  <2>2. ASSUME NEW i \in DOMAIN pending', NEW t \in Threads PROVE run'[t].file # pending'[i]
    <3>1. i + 1 \in DOMAIN pending /\ 1 < i + 1 /\ pending'[i] = pending[i + 1]
      BY <1>2
    <3>2. n < pending[i + 1] /\ pending[i + 1] \in Nat /\ n \in Nat
      BY <1>2, <3>1, PendingNames DEF JournalInv, PendingUntouched
    <3>3. run[t].file # pending[i + 1]
      BY <3>1 DEF JournalInv, PendingUntouched
    <3> QED BY <1>4, <1>5, <3>1, <3>2, <3>3
  <2> QED BY <2>1, <2>2 DEF PendingUntouched
<1>11. FilesKept'
  BY <1>1, <1>4, <1>5, <1>6 DEF JournalInv, FilesKept
<1> QED BY <1>7, <1>8, <1>9, <1>10, <1>11 DEF JournalInv

\* Resumer.List drops files at a start, when no thread has one, and lists
\* some of those that are left.
LEMMA BootJournal ==
    ASSUME TypeOK, JournalInv, Boot
    PROVE  JournalInv'
<1>1. /\ proc = "down" /\ proc' = "loading"
      /\ UNCHANGED <<content, lastName, pc, run>>
  BY DEF Boot
<1>2. \A t \in Threads : pc[t] = "idle" /\ run[t].file = NoFile
  <2> TAKE t \in Threads
  <2>1. pc[t] = "idle"
    BY <1>1 DEF JournalInv, DownIdle
  <2>2. run[t] = IdleRun
    BY <2>1 DEF TypeOK, ThreadsTyped, LocalsOK
  <2>3. IdleRun.file = NoFile
    BY DEF IdleRun
  <2> QED BY <2>1, <2>2, <2>3
<1>3. /\ files' \subseteq files
      /\ \A i \in DOMAIN pending' :
           /\ pending'[i] \in files' \cap FileNames
           /\ \A j \in DOMAIN pending' : i < j => pending'[i] < pending'[j]
  <2>1. CASE ResumeEnabled
    <3>1. PICK S \in SUBSET files' : files' \subseteq files /\ pending' \in Ascending(S)
      BY <2>1 DEF Boot
    <3>2. S \in SUBSET FileNames
      BY <3>1 DEF TypeOK, FilesTyped
    <3> QED BY <3>1, <3>2, AscendingType
  <2>2. CASE ~ResumeEnabled
    <3>1. files' = files /\ pending' = <<>>
      BY <1>1, <2>2 DEF Boot, JournalInv, DownIdle
    <3>2. DOMAIN pending' = {}
      BY <3>1
    <3> QED BY <3>1, <3>2
  <2> QED BY <2>1, <2>2
<1>4. NamesGiven'
  BY <1>1, <1>3 DEF JournalInv, NamesGiven
<1>5. PendingUntouched'
  <2>1. \A i \in DOMAIN pending' : pending'[i] <= lastName /\ pending'[i] # NoFile
    BY <1>3, BoundsAssumption DEF JournalInv, NamesGiven, FileNames
  <2> QED BY <1>1, <1>2, <1>3, <2>1 DEF PendingUntouched
<1>6. DownIdle' /\ OneOwnerPerFile' /\ FilesKept'
  BY <1>1, <1>2 DEF DownIdle, OneOwnerPerFile, FilesKept
<1> QED BY <1>4, <1>5, <1>6 DEF JournalInv

\* A step that leaves files, owners and the process alone.
LEMMA QuietJournal ==
    ASSUME JournalInv, UNCHANGED <<pending, files, content, lastName, pc, run>>,
           proc' = "down" => proc = "down"
    PROVE  JournalInv'
BY DEF JournalInv, DownIdle, NamesGiven, OneOwnerPerFile, PendingUntouched, FilesKept

LEMMA OtherJournal ==
    ASSUME TypeOK, JournalInv,
           \/ Process \/ Environment
           \/ \E n \in FileNames : AcquireSema(n)
    PROVE  JournalInv'
<1>1. CASE LoadFails \/ Exit \/ Crash
  BY <1>1, DownJournal DEF LoadFails, Exit, Crash
<1>2. CASE LoadOK \/ Stop \/ DropRequest \/ Cancel \/ NewDay \/ (\E c \in Toggleable : Toggle(c))
           \/ (\E q \in Requests : Request(q.job, q.text, q.date))
  <2>1. UNCHANGED <<pending, files, content, lastName, pc, run>> /\ (proc' = "down" => proc = "down")
    BY <1>2 DEF LoadOK, Stop, DropRequest, Cancel, NewDay, Toggle, Request, envVars, fileVars
  <2> QED BY <2>1, QuietJournal
<1>3. ASSUME NEW n \in FileNames, AcquireSema(n) PROVE JournalInv'
  BY <1>3, FileThreads, ProceedJournal DEF AcquireSema, sharedVars, envVars, fileVars
<1> QED BY <1>1, <1>2, <1>3, BootJournal, ResumeNextJournal DEF Process, Environment, Load

LEMMA JournalNext == TypeOK /\ JournalInv /\ [Next]_vars => JournalInv'
<1> SUFFICES ASSUME TypeOK, JournalInv, [Next]_vars PROVE JournalInv'
  OBVIOUS
<1>1. CASE UNCHANGED vars
  BY <1>1, QuietJournal DEF vars
<1>2. CASE Next
  BY <1>2, BeginJournal, RegisterJournal, ExecuteJournal, StartJournal, OtherJournal,
     Disjoint, FileThreads DEF Next, RunStep, ResumedStep
<1> QED BY <1>1, <1>2

THEOREM JournalInvariance == Spec => [](TypeOK /\ JournalInv)
<1>1. Init => TypeOK /\ JournalInv
  BY TypeInit, JournalInit
<1>2. TypeOK /\ JournalInv /\ [Next]_vars => (TypeOK /\ JournalInv)'
  BY TypeNext, JournalNext
<1> QED BY <1>1, <1>2, PTL DEF Spec

\* With --resume the command of a thread is in a flag file from before it may
\* start until its outcome is settled (resumer.go:38-62, service.go:223-303).
THEOREM JournalKept == Spec => []Journaled
<1>1. JournalInv => Journaled
  BY DEF JournalInv, FilesKept, Journaled
<1> QED BY <1>1, JournalInvariance, PTL

\* No two threads ever answer for one flag file (resumer.go:43-44).
THEOREM FilesHaveOneOwner == Spec => []OneOwnerPerFile
<1>1. JournalInv => OneOwnerPerFile
  BY DEF JournalInv
<1> QED BY <1>1, JournalInvariance, PTL

\* Nobody touches an interrupted file before its turn (service.go:555-589).
THEOREM PendingIsUntouched == Spec => []PendingUntouched
<1>1. JournalInv => PendingUntouched
  BY DEF JournalInv
<1> QED BY <1>1, JournalInvariance, PTL

-----------------------------------------------------------------------------
(* Scheduler implements CommandJournal.                                      *)

\* Only --resume makes flag files, and a file is blank until it is written.
Unwritten ==
    /\ ~ResumeEnabled => files = {} /\ \A t \in Threads : pc[t] \notin {"create", "write"}
    /\ \A t \in Threads : pc[t] = "write" => content[run[t].file] = Blank

RefinementInv == TypeOK /\ JournalInv /\ Unwritten

\* The places where a thread executes the command of its file.
AtWork == {"start"} \cup Executing

\* A thread moves, and no file changes.
ThreadStep(t) ==
    /\ UNCHANGED <<day, files, content, born>>
    /\ \A u \in Threads \ {t} : pc'[u] = pc[u] /\ run'[u] = run[u]
    /\ pc'[t] = "create" => ResumeEnabled
    /\ pc'[t] # "write"
    /\ pc'[t] \in AtWork => run'[t].file = run[t].file

LEMMA MoveStep ==
    ASSUME TypeOK, NEW t \in Threads, NEW p, NEW x, Move(t, p, x),
           p = "create" => ResumeEnabled, p # "write", p \in AtWork => x.file = run[t].file,
           UNCHANGED <<day, files, content, born>>
    PROVE  ThreadStep(t)
BY DEF TypeOK, ThreadsTyped, Move, ThreadStep

LEMMA ProceedStep ==
    ASSUME TypeOK, NEW t \in Threads, NEW p, Proceed(t, p), p \notin {"create", "write"},
           UNCHANGED <<day, files, content, born>>
    PROVE  ThreadStep(t)
BY DEF TypeOK, ThreadsTyped, Proceed, Goto, ThreadStep

LEMMA EndStep ==
    ASSUME TypeOK, NEW t \in Threads, End(t), UNCHANGED <<day, files, content, born>>
    PROVE  ThreadStep(t)
BY DEF TypeOK, ThreadsTyped, End, Goto, ThreadStep, AtWork

LEMMA BeginStep ==
    ASSUME TypeOK, NEW r \in Runs, Begin(r)
    PROVE  ThreadStep(r)
<1> USE Disjoint, ProceedStep, EndStep DEF sharedVars, envVars, fileVars
<1>1. CASE SpawnCheck(r) \/ CheckDisabled(r)
  BY <1>1 DEF SpawnCheck, CheckDisabled
<1>2. CASE CheckConditions(r) \/ Postponed(r) \/ BadTemplate(r)
  BY <1>2 DEF CheckConditions, Postponed, BadTemplate
<1>3. CASE DeDupAdd(r)
  <2>1. CASE End(r)
    BY <1>3, <2>1 DEF DeDupAdd
  <2>2. CASE ~End(r)
    <3> DEFINE p == IF ResumeEnabled THEN "create" ELSE "start"
               x == [run[r] EXCEPT !.cmd = CommandOf(r)]
    <3>1. Move(r, p, x) /\ UNCHANGED <<day, files, content, born>>
      BY <1>3, <2>2 DEF DeDupAdd, Goto, Move
    <3>2. x.file = run[r].file /\ p # "write" /\ (p = "create" => ResumeEnabled)
      BY DEF TypeOK, ThreadsTyped, RunType
    <3> HIDE DEF p, x
    <3> QED BY <3>1, <3>2, Disjoint, MoveStep
  <2> QED BY <2>1, <2>2
<1> QED BY <1>1, <1>2, <1>3 DEF Begin

LEMMA ExecuteStep ==
    ASSUME TypeOK, NEW t \in Threads, Execute(t), ~Finish(t)
    PROVE  ThreadStep(t)
<1> USE DEF sharedVars, envVars, fileVars
<1>1. run[t] \in RunType
  BY DEF TypeOK, ThreadsTyped
<1>2. ASSUME NEW result, Executed(t, result), UNCHANGED sharedVars PROVE ThreadStep(t)
  <2> DEFINE p == IF t \in Runs THEN "complete" ELSE IF Failed(result) THEN "notify" ELSE "finish"
             x == [run[t] EXCEPT !.result = result]
  <2>1. Move(t, p, x) /\ x.file = run[t].file /\ p \notin {"create", "write"}
    BY <1>1, <1>2 DEF Executed, Goto, Move, RunType
  <2> HIDE DEF p, x
  <2> QED BY <1>2, <2>1, MoveStep
<1>3. CASE Attempt(t)
  <2> DEFINE x == [run[t] EXCEPT !.tries = @ + 1]
  <2>1. Move(t, "command", x) /\ x.file = run[t].file
    BY <1>1, <1>3 DEF Attempt, Goto, Move, RunType
  <2> HIDE DEF x
  <2> QED BY <1>3, <2>1, MoveStep DEF Attempt
<1>4. CASE CommandFails(t)
  <2> DEFINE x == [run[t] EXCEPT !.result = "failed"]
  <2>1. Move(t, "repeat", x) /\ x.file = run[t].file
    BY <1>1, <1>4 DEF CommandFails, Goto, Move, RunType
  <2> HIDE DEF x
  <2> QED BY <1>4, <2>1, MoveStep DEF CommandFails
<1>5. CASE CommandSucceeds(t) \/ Exhausted(t) \/ Abandon(t)
  BY <1>2, <1>5 DEF CommandSucceeds, Exhausted, Abandon
<1>6. CASE Notify(t)
  BY <1>6, ProceedStep, EndStep DEF Notify, Return
<1> QED BY <1>3, <1>4, <1>5, <1>6 DEF Execute

\* What a thread may do that is not the making, writing or removing of a file.
LEMMA QuietThread ==
    ASSUME TypeOK, NEW r \in Runs,
           \/ Receive(r) \/ (\E l \in Lines : Fire(r, l)) \/ OnJobStart(r) \/ OnJobComplete(r)
           \/ Release(r)
    PROVE  ThreadStep(r)
<1> USE Disjoint, ProceedStep, EndStep, MoveStep DEF sharedVars, envVars, fileVars, AtWork
<1>1. CASE Receive(r)
  <2>1. \E x : Move(r, "spawned", x)
    BY <1>1 DEF Receive, Goto, Move
  <2> QED BY <1>1, <2>1 DEF Receive
<1>2. ASSUME NEW l \in Lines, Fire(r, l) PROVE ThreadStep(r)
  <2>1. \E x : Move(r, "fired", x)
    BY <1>2 DEF Fire, Goto, Move
  <2> QED BY <1>2, <2>1 DEF Fire
<1>3. CASE OnJobStart(r) \/ OnJobComplete(r) \/ Release(r)
  BY <1>3 DEF OnJobStart, OnJobComplete, Release
<1> QED BY <1>1, <1>2, <1>3

LEMMA ResumedThread ==
    ASSUME TypeOK, NEW n \in FileNames, AcquireSema(n)
    PROVE  ThreadStep(n)
BY FileThreads, ProceedStep DEF AcquireSema, sharedVars, envVars, fileVars

LEMMA ResumeNextStep ==
    ASSUME TypeOK, ResumeNext
    PROVE  \E n \in FileNames : ThreadStep(n)
<1> DEFINE n == Head(pending)
           x == [IdleRun EXCEPT !.cmd = content[n], !.file = n]
<1>1. pending \in Seq(FileNames) /\ pending # <<>>
  BY DEF ResumeNext, TypeOK, ProcessTyped
<1>2. n \in FileNames
  BY <1>1
<1>3. Move(n, "waiting", x) /\ UNCHANGED <<day, files, content, born>>
  BY DEF ResumeNext, Goto, Move, envVars, fileVars
<1> HIDE DEF n, x
<1> QED BY <1>2, <1>3, FileThreads, MoveStep DEF AtWork

\* Files that are neither added nor written stay as they are.
LEMMA CalmUnwritten ==
    ASSUME Unwritten, files' \subseteq files, content' = content,
           \A t \in Threads :
              /\ pc'[t] = "create" => pc[t] = "create" \/ ResumeEnabled
              /\ pc'[t] = "write" => pc[t] = "write" /\ run'[t] = run[t]
    PROVE  Unwritten'
BY DEF Unwritten

LEMMA ThreadUnwritten ==
    ASSUME Unwritten, NEW t \in Threads, ThreadStep(t)
    PROVE  Unwritten'
BY CalmUnwritten DEF ThreadStep

LEMMA CreateUnwritten ==
    ASSUME RefinementInv, NEW r \in Runs, CreateFile(r), ~ThreadStep(r)
    PROVE  Unwritten'
<1> DEFINE n == lastName + 1
<1>1. /\ pc[r] = "create" /\ content' = [content EXCEPT ![n] = Blank]
      /\ pc' = [pc EXCEPT ![r] = "write"] /\ run' = [run EXCEPT ![r].file = n]
  BY Disjoint, ProceedStep DEF RefinementInv, CreateFile, Return, NewName, Goto, envVars, fileVars
<1>2. ResumeEnabled
  BY <1>1, Disjoint DEF RefinementInv, Unwritten
<1>3. n \in FileNames
  BY FileNumbers, BoundsAssumption DEF RefinementInv, CreateFile, FileNames
<1>4. ASSUME NEW t \in Threads, pc'[t] = "write" PROVE content'[run'[t].file] = Blank
  <2>1. pc \in [Threads -> PCs] /\ run \in [Threads -> RunType]
        /\ content \in [FileNames -> Commands \cup {Blank}]
    BY DEF RefinementInv, TypeOK, ThreadsTyped, FilesTyped
  <2>2. CASE t = r
    BY <1>1, <1>3, <2>1, <2>2 DEF RunType
  <2>3. CASE t # r
    BY <1>1, <1>3, <1>4, <2>1, <2>3 DEF RefinementInv, Unwritten
  <2> QED BY <2>2, <2>3
<1> QED BY <1>2, <1>4 DEF Unwritten

LEMMA WriteUnwritten ==
    ASSUME RefinementInv, NEW r \in Runs, WriteFile(r), ~ThreadStep(r)
    PROVE  Unwritten'
<1>1. /\ pc[r] = "write" /\ content' = [content EXCEPT ![run[r].file] = run[r].cmd]
      /\ pc' = [pc EXCEPT ![r] = "start"] /\ UNCHANGED <<files, run>>
  <2>1. ~Return(r) \/ ~UNCHANGED <<content, born>>
    BY Disjoint, ProceedStep DEF RefinementInv, WriteFile, Return, envVars
  <2> QED BY <2>1 DEF WriteFile, Proceed, Goto
<1>2. ResumeEnabled
  BY <1>1, Disjoint DEF RefinementInv, Unwritten
<1>3. run[r].file \in FileNames /\ run[r].file # NoFile
  <2>1. run[r].file \in files
    BY <1>1, <1>2, Disjoint DEF RefinementInv, JournalInv, FilesKept
  <2>2. files \subseteq FileNames
    BY DEF RefinementInv, TypeOK, FilesTyped
  <2> QED BY <2>1, <2>2, FileNameNumbers
<1>4. ASSUME NEW t \in Threads, pc'[t] = "write" PROVE content'[run'[t].file] = Blank
  <2>1. t # r /\ pc[t] = "write"
    BY <1>1, <1>4 DEF RefinementInv, TypeOK, ThreadsTyped
  <2>2. run[t].file # run[r].file
    BY <1>3, <2>1, Disjoint DEF RefinementInv, JournalInv, OneOwnerPerFile
  <2> QED BY <1>1, <2>1, <2>2 DEF RefinementInv, Unwritten, TypeOK, FilesTyped
<1> QED BY <1>2, <1>4 DEF Unwritten

LEMMA FinishUnwritten ==
    ASSUME RefinementInv, NEW t \in Threads, Finish(t)
    PROVE  Unwritten'
<1>1. files' \subseteq files /\ content' = content
  BY DEF Finish
<1>2. \A u \in Threads : pc'[u] \in {pc[u], "release", "idle"} /\ (pc'[u] = "write" => run'[u] = run[u])
  BY DEF Finish, Return, Proceed, End, Goto, RefinementInv, TypeOK, ThreadsTyped
<1> QED BY <1>1, <1>2, CalmUnwritten DEF RefinementInv

LEMMA OtherUnwritten ==
    ASSUME RefinementInv, (Process /\ ~ResumeNext) \/ Environment
    PROVE  Unwritten'
<1>1. CASE LoadFails \/ Exit \/ Crash
  BY <1>1, CalmUnwritten DEF RefinementInv, LoadFails, Exit, Crash, Down
<1>2. CASE Boot
  <2>1. files' \subseteq files /\ content' = content /\ pc' = pc /\ run' = run
    BY <1>2 DEF Boot
  <2> QED BY <2>1, CalmUnwritten DEF RefinementInv
<1>3. CASE LoadOK \/ Stop \/ DropRequest \/ Cancel \/ NewDay \/ (\E c \in Toggleable : Toggle(c))
           \/ (\E q \in Requests : Request(q.job, q.text, q.date))
  <2>1. UNCHANGED <<files, content, pc, run>>
    BY <1>3 DEF LoadOK, Stop, DropRequest, Cancel, NewDay, Toggle, Request, envVars, fileVars
  <2> QED BY <2>1, CalmUnwritten DEF RefinementInv
<1> QED BY <1>1, <1>2, <1>3 DEF Process, Environment, Load

\* What a step of the scheduler does to the journal.
FileStep ==
    \/ \E t \in Threads : ThreadStep(t) \/ Finish(t)
    \/ \E r \in Runs : CreateFile(r) /\ ~ThreadStep(r)
    \/ \E r \in Runs : WriteFile(r) /\ ~ThreadStep(r)
    \/ (Process /\ ~ResumeNext) \/ Environment

LEMMA NextIsFileStep == RefinementInv /\ Next => FileStep
<1> SUFFICES ASSUME RefinementInv, Next PROVE FileStep
  OBVIOUS
<1>1. TypeOK
  BY DEF RefinementInv
<1>2. ASSUME NEW r \in Runs, RunStep(r) \/ Receive(r) \/ (\E l \in Lines : Fire(r, l)) PROVE FileStep
  BY <1>1, <1>2, Disjoint, BeginStep, ExecuteStep, QuietThread DEF RunStep, Register, FileStep
<1>3. ASSUME NEW n \in FileNames, ResumedStep(n) PROVE FileStep
  BY <1>1, <1>3, FileThreads, ExecuteStep, ResumedThread DEF ResumedStep, FileStep
<1>4. CASE Process \/ Environment
  BY <1>1, <1>4, ResumeNextStep, FileThreads DEF FileStep
<1> QED BY <1>2, <1>3, <1>4 DEF Next

LEMMA UnwrittenNext == RefinementInv /\ [Next]_vars => Unwritten'
<1> SUFFICES ASSUME RefinementInv, [Next]_vars PROVE Unwritten'
  OBVIOUS
<1>1. CASE FileStep
  BY <1>1, ThreadUnwritten, FinishUnwritten, CreateUnwritten, WriteUnwritten, OtherUnwritten
     DEF FileStep, RefinementInv
<1>2. CASE UNCHANGED vars
  BY <1>2, CalmUnwritten DEF vars, RefinementInv
<1> QED BY <1>1, <1>2, NextIsFileStep

LEMMA UnwrittenInit == Init => Unwritten
BY DEF Init, Unwritten

-----------------------------------------------------------------------------
\* A step that leaves the files alone leaves the entries alone.
LEMMA SameEntries ==
    ASSUME UNCHANGED <<files, content, born>>
    PROVE  UNCHANGED <<Entries, EntryCommand, EntryDay>>
BY DEF Entries, EntryCommand, EntryDay

\* An entry is being executed when a thread is at work on its file.
LEMMA BusyMeans ==
    /\ \A n : n \in BusyEntries <=>
              n \in Entries /\ \E t \in Threads : pc[t] \in AtWork /\ run[t].file = n
    /\ \A n : n \in BusyEntries' <=>
              n \in Entries' /\ \E t \in Threads : pc'[t] \in AtWork /\ run'[t].file = n
BY DEF BusyEntries, Busy, AtWork

\* An entry has one thread at most.
LEMMA EntryOwner ==
    ASSUME RefinementInv, NEW n \in Entries, NEW t \in Threads, NEW u \in Threads,
           run[t].file = n, run[u].file = n
    PROVE  t = u /\ n \in FileNames
<1>1. n \in FileNames
  BY DEF Entries, RefinementInv, TypeOK, FilesTyped
<1>2. n # NoFile
  BY <1>1, BoundsAssumption DEF FileNames
<1> QED BY <1>1, <1>2 DEF RefinementInv, JournalInv, OneOwnerPerFile

\* A thread that starts to work on an entry retries it, and one that stops
\* without touching the file gives up.
LEMMA ThreadJournal ==
    ASSUME RefinementInv, NEW t \in Threads, ThreadStep(t)
    PROVE  [Journal!Next]_(Journal!vars)
<1> DEFINE n == run[t].file
<1>1. UNCHANGED <<day, Entries, EntryCommand, EntryDay>>
  BY SameEntries DEF ThreadStep
<1>2. \A u \in Threads \ {t} : pc'[u] = pc[u] /\ run'[u] = run[u]
  BY DEF ThreadStep
<1>3. pc'[t] \in AtWork => run'[t].file = n
  BY DEF ThreadStep
<1>4. \A m : m # n => (m \in BusyEntries' <=> m \in BusyEntries)
  BY <1>1, <1>2, <1>3, BusyMeans
<1>5. CASE n \in Entries /\ pc[t] \notin AtWork /\ pc'[t] \in AtWork
  <2>1. n \notin BusyEntries /\ n \in BusyEntries' /\ n \in FileNames
    BY <1>1, <1>3, <1>5, BusyMeans, EntryOwner
  <2>2. BusyEntries' = BusyEntries \cup {n}
    BY <1>4, <2>1
  <2> QED BY <1>1, <1>5, <2>1, <2>2 DEF Journal!Next, Journal!Retry
<1>6. CASE n \in Entries /\ pc[t] \in AtWork /\ pc'[t] \notin AtWork
  <2>1. n \in BusyEntries /\ n \notin BusyEntries' /\ n \in FileNames
    <3>1. \A u \in Threads \ {t} : run'[u].file # n
      BY <1>2, <1>6, EntryOwner
    <3> QED BY <1>6, <3>1, BusyMeans, EntryOwner
  <2>2. BusyEntries' = BusyEntries \ {n}
    BY <1>4, <2>1
  <2> QED BY <1>1, <2>1, <2>2 DEF Journal!Next, Journal!GiveUp
<1>7. CASE n \notin Entries \/ (pc[t] \in AtWork <=> pc'[t] \in AtWork)
  <2>1. n \in BusyEntries' <=> n \in BusyEntries
    BY <1>1, <1>2, <1>3, <1>7, BusyMeans
  <2>2. BusyEntries' = BusyEntries
    BY <1>4, <2>1
  <2> QED BY <1>1, <2>2 DEF Journal!vars
<1> QED BY <1>5, <1>6, <1>7

\* A file that was made but not written is no entry.
LEMMA CreateStutters ==
    ASSUME RefinementInv, NEW r \in Runs, CreateFile(r), ~ThreadStep(r)
    PROVE  UNCHANGED Journal!vars
<1> DEFINE n == lastName + 1
<1>1. /\ pc[r] = "create" /\ content' = [content EXCEPT ![n] = Blank] /\ files' = files \cup {n}
      /\ born' = [born EXCEPT ![n] = day] /\ day' = day
      /\ pc' = [pc EXCEPT ![r] = "write"] /\ run' = [run EXCEPT ![r].file = n]
  BY Disjoint, ProceedStep DEF RefinementInv, CreateFile, Return, NewName, Goto, envVars, fileVars
<1>2. n \in FileNames /\ n \notin files
  <2>1. lastName \in Nat /\ files \subseteq 1 .. lastName
    BY FileNumbers DEF RefinementInv, JournalInv, NamesGiven
  <2> QED BY <2>1, BoundsAssumption DEF CreateFile, FileNames
<1>3. /\ pc \in [Threads -> PCs] /\ run \in [Threads -> RunType] /\ files \subseteq FileNames
      /\ content \in [FileNames -> Commands \cup {Blank}] /\ born \in [FileNames -> 0 .. MaxDay]
  BY DEF RefinementInv, TypeOK, ThreadsTyped, FilesTyped
<1>4. content'[n] = Blank /\ \A m \in FileNames \ {n} : content'[m] = content[m] /\ born'[m] = born[m]
  BY <1>1, <1>2, <1>3
<1>5. Entries' = Entries /\ n \notin Entries
  BY <1>1, <1>2, <1>3, <1>4 DEF Entries
<1>6. EntryCommand' = EntryCommand /\ EntryDay' = EntryDay
  BY <1>4, <1>5 DEF EntryCommand, EntryDay
<1>7. \A u \in Threads : /\ pc'[u] \in AtWork <=> pc[u] \in AtWork
                         /\ pc'[u] \in AtWork => run'[u] = run[u]
  BY <1>1, <1>3, Disjoint DEF AtWork
<1>8. BusyEntries' = BusyEntries
  BY <1>5, <1>7, BusyMeans
<1> QED BY <1>1, <1>5, <1>6, <1>8 DEF Journal!vars

\* Writing the command into it makes the entry, before the command may start.
LEMMA WriteBegins ==
    ASSUME RefinementInv, NEW r \in Runs, WriteFile(r), ~ThreadStep(r)
    PROVE  Journal!Next
<1> DEFINE n == run[r].file
           c == run[r].cmd
<1>1. /\ pc[r] = "write" /\ content' = [content EXCEPT ![n] = c]
      /\ born' = [born EXCEPT ![n] = day]
      /\ pc' = [pc EXCEPT ![r] = "start"] /\ UNCHANGED <<day, files, run>>
  <2>1. ~Return(r) \/ ~UNCHANGED <<content, born>>
    BY Disjoint, ProceedStep DEF RefinementInv, WriteFile, Return, envVars
  <2> QED BY <2>1 DEF WriteFile, Proceed, Goto, envVars
<1>2. ResumeEnabled
  BY <1>1, Disjoint DEF RefinementInv, Unwritten
<1>3. n \in files /\ n \in FileNames /\ n # NoFile
  <2>1. run[r].file \in files
    BY <1>1, <1>2, Disjoint DEF RefinementInv, JournalInv, FilesKept
  <2>2. files \subseteq FileNames
    BY DEF RefinementInv, TypeOK, FilesTyped
  <2> QED BY <2>1, <2>2, FileNameNumbers
<1>4. /\ pc \in [Threads -> PCs] /\ files \subseteq FileNames
      /\ content \in [FileNames -> Commands \cup {Blank}] /\ born \in [FileNames -> 0 .. MaxDay]
  BY DEF RefinementInv, TypeOK, ThreadsTyped, FilesTyped
<1>5. c \in Commands /\ c # Blank
  <2>1. c \in Commands
    BY <1>1, Disjoint DEF RefinementInv, TypeOK, ThreadsTyped, LocalsOK, InSection
  <2>2. c[1] \in Texts /\ Blank[1] \notin Texts
    BY <2>1, CrontabAssumption DEF Commands, Blank
  <2> QED BY <2>1, <2>2
<1>6. n \notin Entries
  BY <1>1, Disjoint DEF RefinementInv, Unwritten, Entries
<1>7. /\ content'[n] = c /\ born'[n] = day
      /\ \A m \in FileNames \ {n} : content'[m] = content[m] /\ born'[m] = born[m]
  BY <1>1, <1>3, <1>4
<1>8. Entries' = Entries \cup {n}
  BY <1>1, <1>3, <1>4, <1>5, <1>7 DEF Entries
<1>9. EntryCommand' = [EntryCommand EXCEPT ![n] = c] /\ EntryDay' = [EntryDay EXCEPT ![n] = day]
  BY <1>3, <1>6, <1>7, <1>8 DEF EntryCommand, EntryDay
<1>10. BusyEntries' = BusyEntries \cup {n}
  <2>1. n \in BusyEntries'
    BY <1>1, <1>4, <1>8, Disjoint, BusyMeans DEF AtWork
  <2>2. \A m : m # n => (m \in BusyEntries' <=> m \in BusyEntries)
    BY <1>1, <1>4, <1>8, Disjoint, BusyMeans DEF AtWork
  <2>3. BusyEntries \subseteq Entries
    BY DEF BusyEntries
  <2> QED BY <1>6, <2>1, <2>2, <2>3
<1> QED BY <1>1, <1>3, <1>5, <1>6, <1>8, <1>9, <1>10 DEF Journal!Next, Journal!Begin

\* Removing the file settles the entry, if the file was one.
LEMMA FinishSettles ==
    ASSUME RefinementInv, NEW t \in Threads, Finish(t)
    PROVE  [Journal!Next]_(Journal!vars)
<1> DEFINE n == run[t].file
<1>1. UNCHANGED <<day, content, born>> /\ pc[t] = "finish" /\ pc[t] \in AtWork
  BY DEF Finish, envVars, AtWork
<1>2. /\ pc'[t] \notin AtWork
      /\ \A u \in Threads \ {t} : pc'[u] = pc[u] /\ run'[u] = run[u]
  BY DEF Finish, Return, Proceed, End, Goto, RefinementInv, TypeOK, ThreadsTyped, AtWork
<1>3. CASE files' = files
  <2>1. ThreadStep(t)
    BY <1>1, <1>2, <1>3 DEF ThreadStep, AtWork, Finish, Return, Proceed, End, Goto,
                            RefinementInv, TypeOK, ThreadsTyped
  <2> QED BY <2>1, ThreadJournal
<1>4. CASE files' = files \ {n}
  <2>1. Entries' = Entries \ {n}
    BY <1>1, <1>4 DEF Entries
  <2>2. \A m \in Entries' : m \in FileNames /\ m \in Entries
    BY <2>1 DEF Entries, RefinementInv, TypeOK, FilesTyped
  <2>3. \A m \in Entries' : EntryCommand'[m] = EntryCommand[m] /\ EntryDay'[m] = EntryDay[m]
    BY <1>1, <2>2 DEF EntryCommand, EntryDay
  <2>4. BusyEntries' = BusyEntries \ {n}
    <3>1. \A m : m # n => (m \in BusyEntries' <=> m \in BusyEntries)
      BY <1>2, <2>1, BusyMeans
    <3>2. n \notin BusyEntries'
      BY <2>1, BusyMeans
    <3> QED BY <3>1, <3>2
  <2>5. CASE n \in Entries
    <3>1. n \in BusyEntries /\ n \in FileNames
      BY <1>1, <2>5, BusyMeans, EntryOwner
    <3> QED BY <1>1, <2>1, <2>3, <2>4, <3>1 DEF Journal!Next, Journal!Settle
  <2>6. CASE n \notin Entries
    <3>1. Entries' = Entries
      BY <2>1, <2>6
    <3>2. EntryCommand' = EntryCommand /\ EntryDay' = EntryDay
      BY <1>1, <3>1 DEF EntryCommand, EntryDay
    <3>3. BusyEntries' = BusyEntries
      BY <2>4, <2>6, BusyMeans
    <3> QED BY <1>1, <3>1, <3>2, <3>3 DEF Journal!vars
  <2> QED BY <2>5, <2>6
<1> QED BY <1>3, <1>4 DEF Finish, Finished

\* A start forgets old entries, and nothing else.
LEMMA BootForgets ==
    ASSUME RefinementInv, Boot
    PROVE  [Journal!Next]_(Journal!vars)
<1>1. UNCHANGED <<day, content, born, pc, run>> /\ proc = "down"
  BY DEF Boot
<1>2. \A t \in Threads : pc[t] = "idle"
  BY <1>1 DEF RefinementInv, JournalInv, DownIdle
<1>3. BusyEntries = {} /\ BusyEntries' = {}
  BY <1>1, <1>2, BusyMeans DEF AtWork
<1>4. files' \subseteq files /\ \A n \in files \ files' : born[n] < day
  BY DEF Boot, MaybeOld
<1>5. Entries' \subseteq Entries /\ \A n \in Entries \ Entries' : n \in FileNames /\ born[n] < day
  BY <1>1, <1>4 DEF Entries, RefinementInv, TypeOK, FilesTyped
<1>6. \A n \in Entries \ Entries' : EntryDay[n] < day
  BY <1>5 DEF EntryDay
<1>7. \A m \in Entries' : EntryCommand'[m] = EntryCommand[m] /\ EntryDay'[m] = EntryDay[m]
  <2>1. \A m \in Entries' : m \in Entries /\ m \in FileNames
    BY <1>5 DEF Entries, RefinementInv, TypeOK, FilesTyped
  <2> QED BY <1>1, <2>1 DEF EntryCommand, EntryDay
<1>8. Journal!Forget
  BY <1>1, <1>3, <1>5, <1>6, <1>7 DEF Journal!Forget
<1> QED BY <1>8 DEF Journal!Next

LEMMA OtherJournalStep ==
    ASSUME RefinementInv, (Process /\ ~ResumeNext) \/ Environment
    PROVE  [Journal!Next]_(Journal!vars)
<1>1. CASE LoadFails \/ Exit \/ Crash
  <2>1. UNCHANGED <<day, files, content, born>> /\ \A t \in Threads : pc'[t] = "idle"
    BY <1>1 DEF LoadFails, Exit, Crash, Down
  <2>2. BusyEntries' = {}
    BY <2>1, BusyMeans DEF AtWork
  <2> QED BY <2>1, <2>2, SameEntries DEF Journal!Next, Journal!Crash
<1>2. CASE NewDay
  <2>1. UNCHANGED <<files, content, born, pc, run>> /\ day' = day + 1 /\ day \in Nat
    BY <1>2, BoundsAssumption DEF NewDay, fileVars, RefinementInv, TypeOK, ProcessTyped, Days
  <2>2. BusyEntries' = BusyEntries
    BY <2>1, SameEntries, BusyMeans
  <2> QED BY <2>1, <2>2, SameEntries DEF Journal!Next, Journal!NewDay
<1>3. CASE LoadOK \/ Stop \/ DropRequest \/ Cancel \/ (\E c \in Toggleable : Toggle(c))
           \/ (\E q \in Requests : Request(q.job, q.text, q.date))
  <2>1. UNCHANGED <<day, files, content, born, pc, run>>
    BY <1>3 DEF LoadOK, Stop, DropRequest, Cancel, Toggle, Request, envVars, fileVars
  <2>2. BusyEntries' = BusyEntries
    BY <2>1, SameEntries, BusyMeans
  <2> QED BY <2>1, <2>2, SameEntries DEF Journal!vars
<1> QED BY <1>1, <1>2, <1>3, BootForgets DEF Process, Environment, Load

LEMMA JournalStep == RefinementInv /\ [Next]_vars => [Journal!Next]_(Journal!vars)
<1> SUFFICES ASSUME RefinementInv, [Next]_vars PROVE [Journal!Next]_(Journal!vars)
  OBVIOUS
<1>1. CASE FileStep
  BY <1>1, ThreadJournal, FinishSettles, CreateStutters, WriteBegins, OtherJournalStep DEF FileStep
<1>2. CASE UNCHANGED vars
  <2>1. UNCHANGED <<day, files, content, born, pc, run>>
    BY <1>2 DEF vars
  <2>2. BusyEntries' = BusyEntries
    BY <2>1, SameEntries, BusyMeans
  <2> QED BY <2>1, <2>2, SameEntries DEF Journal!vars
<1> QED BY <1>1, <1>2, NextIsFileStep

LEMMA JournalStart == Init => Journal!Init
BY DEF Init, Journal!Init, BusyEntries, Entries

\* The flag files are a journal of the commands being executed: whatever the
\* crontab, the number of concurrent runs, the options, and the kills,
\* restarts and disk faults between any two steps, an entry is made before its
\* command starts and leaves the journal only when its own execution settles
\* it or a start drops it as old (resumer.go:38-109, service.go:223-303, 555-589).
THEOREM ImplementsJournal == Spec => JournalSpec
<1>1. Init => RefinementInv
  BY TypeInit, JournalInit, UnwrittenInit DEF RefinementInv
<1>2. RefinementInv /\ [Next]_vars => RefinementInv'
  BY TypeNext, JournalNext, UnwrittenNext DEF RefinementInv
<1>3. Spec => []RefinementInv
  BY <1>1, <1>2, PTL DEF Spec
<1>4. Init /\ [][Next]_vars /\ []RefinementInv => Journal!Init /\ [][Journal!Next]_(Journal!vars)
  BY JournalStart, JournalStep, PTL
<1> QED BY <1>3, <1>4, PTL DEF Spec, JournalSpec, Journal!Spec
=============================================================================
