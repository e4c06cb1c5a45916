---------------------------- MODULE OutcomeProofs ----------------------------
(***************************************************************************)
(* Proofs about the outcome of the runs of Scheduler, and about the limit  *)
(* on the interrupted commands that execute at the same time.              *)
(***************************************************************************)
EXTENDS SchedulerProofs

------------------------------------------------------------------------------
(* The semaphore of the resumed commands.                                    *)

LEMMA ResumingFinite == IsFiniteSet(Resuming)
<1>1. IsFiniteSet(FileNames)
  BY BoundsAssumption, FS_Interval DEF FileNames
<1> QED BY <1>1, FS_Subset DEF Resuming

\* A step by which no interrupted command starts to execute.
LEMMA NoneStarts ==
    ASSUME ResumeBounded, Resuming' \subseteq Resuming
    PROVE  ResumeBounded'
<1>1. IsFiniteSet(Resuming)
  BY ResumingFinite
<1>2. /\ Cardinality(Resuming') <= Cardinality(Resuming)
      /\ Cardinality(Resuming) \in Nat /\ Cardinality(Resuming') \in Nat
  BY <1>1, FS_Subset, FS_CardinalityType
<1> QED BY <1>2, BoundsAssumption DEF ResumeBounded

\* The steps of a run leave the resumed commands where they are.
LEMMA RunSlots ==
    ASSUME TypeOK, NEW r \in Runs, RunStep(r) \/ Receive(r) \/ \E l \in Lines : Fire(r, l)
    PROVE  Resuming' \subseteq Resuming
<1>1. \E p : Goto(r, p)
  <2>1. CASE Begin(r)
    BY <2>1 DEF Begin, SpawnCheck, CheckDisabled, CheckConditions, Postponed, BadTemplate,
                DeDupAdd, End, Proceed
  <2>2. CASE Register(r)
    BY <2>2 DEF Register, CreateFile, WriteFile, OnJobStart, OnJobComplete, Release,
                Return, End, Proceed
  <2>3. CASE Execute(r)
    BY <2>3 DEF Execute, Attempt, CommandSucceeds, CommandFails, Exhausted, Abandon, Notify,
                Finish, Executed, Return, End, Proceed
  <2>4. CASE Receive(r) \/ \E l \in Lines : Fire(r, l)
    BY <2>4 DEF Receive, Fire
  <2> QED BY <2>1, <2>2, <2>3, <2>4 DEF RunStep
<1>2. \A n \in FileNames : pc'[n] = pc[n]
  BY <1>1, FileThreads DEF Goto, TypeOK, ThreadsTyped
<1> QED BY <1>2 DEF Resuming

\* A resumed command that makes a step was executing already.
LEMMA ExecuteSlots ==
    ASSUME TypeOK, NEW n \in FileNames, Execute(n)
    PROVE  Resuming' \subseteq Resuming
<1>1. pc[n] \in Executing /\ \E p : Goto(n, p)
  BY DEF Execute, Attempt, CommandSucceeds, CommandFails, Exhausted, Abandon, Notify,
         Finish, Executed, Return, End, Proceed, Executing
<1>2. \A m \in FileNames \ {n} : pc'[m] = pc[m]
  BY <1>1, FileThreads DEF Goto, TypeOK, ThreadsTyped
<1> QED BY <1>1, <1>2 DEF Resuming

LEMMA AcquireSlots ==
    ASSUME TypeOK, NEW n \in FileNames, AcquireSema(n)
    PROVE  ResumeBounded'
<1>1. IsFiniteSet(Resuming)
  BY ResumingFinite
<1>2. Resuming' = Resuming \cup {n}
  <2>1. \A m \in FileNames : pc'[m] = IF m = n THEN "repeat" ELSE pc[m]
    BY FileThreads DEF AcquireSema, Proceed, Goto, TypeOK, ThreadsTyped
  <2> QED BY <2>1 DEF Resuming, Executing
<1>3. Cardinality(Resuming) \in Nat
  BY <1>1, FS_CardinalityType
<1>4. Cardinality(Resuming \cup {n})
        = IF n \in Resuming THEN Cardinality(Resuming) ELSE Cardinality(Resuming) + 1
  BY <1>1, FS_AddElement
<1>5. Cardinality(Resuming) < ResumeConcurrency
  BY DEF AcquireSema, SlotFree
<1> QED BY <1>2, <1>3, <1>4, <1>5, BoundsAssumption DEF ResumeBounded

LEMMA OtherSlots ==
    ASSUME TypeOK, Process \/ Environment
    PROVE  Resuming' \subseteq Resuming
<1>1. CASE LoadFails \/ Exit \/ Crash
  <2>1. \A n \in FileNames : pc'[n] = "idle"
    BY <1>1, FileThreads DEF LoadFails, Exit, Crash, Down
  <2> QED BY <2>1 DEF Resuming, Executing
<1>2. CASE UNCHANGED pc
  BY <1>2 DEF Resuming
<1>3. CASE ResumeNext
  <2>1. Goto(Head(pending), "waiting")
    BY <1>3 DEF ResumeNext
  <2>2. \A n \in FileNames : pc'[n] = pc[n] \/ pc'[n] = "waiting"
    BY <2>1, FileThreads DEF Goto, TypeOK, ThreadsTyped
  <2> QED BY <2>2 DEF Resuming, Executing
<1>4. Boot \/ LoadOK \/ Stop \/ DropRequest \/ Cancel \/ NewDay => UNCHANGED pc
  BY DEF Boot, LoadOK, Stop, DropRequest, Cancel, NewDay
<1>5. ASSUME NEW c \in Toggleable, Toggle(c) PROVE UNCHANGED pc
  BY <1>5 DEF Toggle
<1>6. ASSUME NEW q \in Requests, Request(q.job, q.text, q.date) PROVE UNCHANGED pc
  BY <1>6 DEF Request
<1> QED BY <1>1, <1>2, <1>3, <1>4, <1>5, <1>6 DEF Process, Environment, Load

\* However many commands were interrupted, no more than --resume-concur of them
\* execute at the same time (service.go:563-589).
THEOREM ResumeIsBounded == Spec => []ResumeBounded
<1>1. Init => ResumeBounded
  <2> SUFFICES ASSUME Init PROVE ResumeBounded
    OBVIOUS
  <2>1. Resuming = {}
    BY FileThreads DEF Init, Resuming, Executing
  <2> QED BY <2>1, FS_EmptySet, BoundsAssumption DEF ResumeBounded
<1>2. TypeOK /\ ResumeBounded /\ [Next]_vars => ResumeBounded'
  <2> SUFFICES ASSUME TypeOK, ResumeBounded, [Next]_vars PROVE ResumeBounded'
    OBVIOUS
  <2>1. CASE UNCHANGED vars
    BY <2>1 DEF vars, ResumeBounded, Resuming
  <2>2. CASE Next
    BY <2>2, RunSlots, ExecuteSlots, AcquireSlots, OtherSlots, NoneStarts DEF Next, ResumedStep
  <2> QED BY <2>1, <2>2
<1> QED BY <1>1, <1>2, TypeCorrect, PTL DEF Spec

------------------------------------------------------------------------------
(* The outcome of a run.                                                     *)

\* Where no attempt has been made.
Untried == PreKey \cup {"create", "write", "start"}

\* What the repeater may have made of the locals x of a run at p, when the
\* context is cancelled (c) or not: between attempts the last one has failed,
\* and after them nothing but a cancellation excuses that there was none.
OutcomeOK(p, x, c) ==
    /\ p \in Untried => x.result = "none" /\ x.tries = 0
    /\ p = "repeat" => \/ x.result = "none" /\ x.tries = 0
                       \/ x.result = "failed"
    /\ p \in {"complete", "notify", "finish"} /\ x.result = "none" => x.tries = 0 /\ c
    /\ p = "finish" => ~Failed(x.result)

OutcomeInv == \A r \in Runs : OutcomeOK(pc[r], run[r], cancelled)

USE DEF OutcomeOK, Untried, PreKey, Failed

\* A thread moves to a place where its outcome is in order.
LEMMA MoveOutcome ==
    ASSUME ThreadsTyped, OutcomeInv, NEW t \in Threads, NEW p, NEW x, Move(t, p, x),
           cancelled' = cancelled, t \in Runs => OutcomeOK(p, x, cancelled)
    PROVE  OutcomeInv'
<1> SUFFICES ASSUME NEW r \in Runs PROVE OutcomeOK(pc[r], run[r], cancelled)'
  BY DEF OutcomeInv
<1>1. pc \in [Threads -> PCs] /\ run \in [Threads -> RunType]
  BY DEF ThreadsTyped
<1>2. CASE r = t
  <2>1. pc'[r] = p /\ run'[r] = x
    BY <1>1, <1>2, Disjoint DEF Move
  <2> QED BY <1>2, <2>1
<1>3. CASE r # t
  <2>1. pc'[r] = pc[r] /\ run'[r] = run[r]
    BY <1>1, <1>3, Disjoint DEF Move
  <2> QED BY <2>1 DEF OutcomeInv
<1> QED BY <1>2, <1>3

LEMMA ProceedOutcome ==
    ASSUME ThreadsTyped, OutcomeInv, NEW t \in Threads, NEW p, Proceed(t, p),
           cancelled' = cancelled, t \in Runs => OutcomeOK(p, run[t], cancelled)
    PROVE  OutcomeInv'
<1>1. Move(t, p, run[t])
  BY DEF ThreadsTyped, Proceed, Goto, Move
<1> QED BY <1>1, MoveOutcome

LEMMA EndOutcome ==
    ASSUME ThreadsTyped, OutcomeInv, NEW t \in Threads, End(t), cancelled' = cancelled
    PROVE  OutcomeInv'
<1>1. Move(t, "idle", IdleRun)
  BY DEF End, Goto, Move
<1> QED BY <1>1, MoveOutcome

\* The steps of a run before its first attempt and after its last.
LEMMA AroundOutcome ==
    ASSUME TypeOK, OutcomeInv, NEW r \in Runs, Begin(r) \/ Register(r)
    PROVE  OutcomeInv'
<1> USE Disjoint, ProceedOutcome, EndOutcome DEF sharedVars, envVars
<1>1. ThreadsTyped /\ OutcomeOK(pc[r], run[r], cancelled) /\ run[r] \in RunType
  BY DEF TypeOK, ThreadsTyped, OutcomeInv
<1>2. CASE SpawnCheck(r)
  BY <1>1, <1>2 DEF SpawnCheck
<1>3. CASE CheckDisabled(r)
  BY <1>1, <1>3 DEF CheckDisabled
<1>4. CASE CheckConditions(r)
  BY <1>1, <1>4 DEF CheckConditions
<1>5. CASE Postponed(r)
  BY <1>1, <1>5 DEF Postponed
<1>6. CASE BadTemplate(r)
  BY <1>1, <1>6 DEF BadTemplate
<1>7. CASE DeDupAdd(r)
  <2> DEFINE p == IF ResumeEnabled THEN "create" ELSE "start"
             x == [run[r] EXCEPT !.cmd = CommandOf(r)]
  <2>1. CASE End(r)
    BY <1>1, <1>7, <2>1 DEF DeDupAdd
  <2>2. CASE Move(r, p, x)
    <3>1. x.result = run[r].result /\ x.tries = run[r].tries
      BY <1>1 DEF RunType
    <3> QED BY <1>1, <1>7, <2>2, <3>1, MoveOutcome DEF DeDupAdd
  <2> QED BY <1>7, <2>1, <2>2 DEF DeDupAdd, Goto, Move
<1>8. CASE CreateFile(r)
  <2> DEFINE x == [run[r] EXCEPT !.file = NewName]
  <2>1. CASE Return(r)
    BY <1>1, <1>8, <2>1 DEF CreateFile, Return
  <2>2. CASE Move(r, "write", x)
    <3>1. x.result = run[r].result /\ x.tries = run[r].tries
      BY <1>1 DEF RunType
    <3> QED BY <1>1, <1>8, <2>2, <3>1, MoveOutcome DEF CreateFile
  <2> QED BY <1>8, <2>1, <2>2 DEF CreateFile, Goto, Move
<1>9. CASE WriteFile(r)
  BY <1>1, <1>9 DEF WriteFile, Return
<1>10. CASE OnJobStart(r)
  BY <1>1, <1>10 DEF OnJobStart
<1>11. CASE OnJobComplete(r)
  BY <1>1, <1>11 DEF OnJobComplete
<1>12. CASE Release(r)
  BY <1>1, <1>12 DEF Release
<1> QED BY <1>2, <1>3, <1>4, <1>5, <1>6, <1>7, <1>8, <1>9, <1>10, <1>11, <1>12 DEF Begin, Register

\* The repeater: the last attempt has failed when attempts are exhausted, for
\* there is at least one.
LEMMA ExecuteOutcome ==
    ASSUME TypeOK, OutcomeInv, NEW t \in Threads, Execute(t)
    PROVE  OutcomeInv'
<1> USE DEF sharedVars, envVars
<1>1. ThreadsTyped /\ run[t] \in RunType /\ (t \in Runs => OutcomeOK(pc[t], run[t], cancelled))
  BY DEF TypeOK, ThreadsTyped, OutcomeInv
<1>2. ASSUME NEW result, Executed(t, result), cancelled' = cancelled,
             t \in Runs /\ result = "none" => run[t].tries = 0 /\ cancelled
      PROVE  OutcomeInv'
  <2> DEFINE p == IF t \in Runs THEN "complete" ELSE IF Failed(result) THEN "notify" ELSE "finish"
             x == [run[t] EXCEPT !.result = result]
  <2>1. Move(t, p, x)
    BY <1>2 DEF Executed, Goto, Move
  <2>2. x.result = result /\ x.tries = run[t].tries
    BY <1>1 DEF RunType
  <2> QED BY <1>1, <1>2, <2>1, <2>2, MoveOutcome
<1>3. CASE Attempt(t)
  <2>1. Move(t, "command", [run[t] EXCEPT !.tries = @ + 1])
    BY <1>3 DEF Attempt, Goto, Move
  <2> QED BY <1>1, <1>3, <2>1, MoveOutcome DEF Attempt
<1>4. CASE CommandFails(t)
  <2> DEFINE x == [run[t] EXCEPT !.result = "failed"]
  <2>1. Move(t, "repeat", x) /\ x.result = "failed"
    BY <1>1, <1>4 DEF CommandFails, Goto, Move, RunType
  <2> QED BY <1>1, <1>4, <2>1, MoveOutcome DEF CommandFails
<1>5. CASE CommandSucceeds(t)
  BY <1>2, <1>5 DEF CommandSucceeds
<1>6. CASE Exhausted(t)
  <2>1. Repeats \in Nat \ {0}
    BY BoundsAssumption
  <2> QED BY <1>1, <1>2, <1>6, <2>1 DEF Exhausted
<1>7. CASE Abandon(t)
  <2>1. t \in Runs => cancelled
    BY <1>7, FileThreads DEF Abandon, Cancelled
  <2> QED BY <1>1, <1>2, <1>7, <2>1 DEF Abandon
<1>8. CASE Notify(t)
  <2>1. t \in Runs => OutcomeOK("release", run[t], cancelled) /\ (~Err(t) => OutcomeOK("finish", run[t], cancelled))
    BY <1>1, <1>8 DEF Notify, Err
  <2> QED BY <1>1, <1>8, <2>1, ProceedOutcome, EndOutcome DEF Notify, Return
<1>9. CASE Finish(t)
  BY <1>1, <1>9, ProceedOutcome, EndOutcome DEF Finish, Return
<1> QED BY <1>3, <1>4, <1>5, <1>6, <1>7, <1>8, <1>9 DEF Execute

LEMMA OtherOutcome ==
    ASSUME TypeOK, OutcomeInv,
           \/ Process \/ Environment
           \/ \E n \in FileNames : AcquireSema(n)
           \/ \E r \in Runs : Receive(r) \/ \E l \in Lines : Fire(r, l)
    PROVE  OutcomeInv'
<1> USE Disjoint, FileThreads DEF envVars, sharedVars
<1>1. ThreadsTyped
  BY DEF TypeOK
<1>2. CASE LoadFails \/ Exit \/ Crash
  <2>1. \A r \in Runs : pc'[r] = "idle"
    BY <1>2 DEF LoadFails, Exit, Crash, Down
  <2> QED BY <2>1 DEF OutcomeInv
<1>3. CASE UNCHANGED <<pc, run>> /\ (cancelled => cancelled')
  BY <1>3 DEF OutcomeInv
<1>4. CASE ResumeNext
  <2> DEFINE n == Head(pending)
             x == [IdleRun EXCEPT !.cmd = content[n], !.file = n]
  <2>1. n \in FileNames
    BY <1>4 DEF ResumeNext, TypeOK, ProcessTyped
  <2>2. Move(n, "waiting", x) /\ cancelled' = cancelled
    BY <1>4 DEF ResumeNext, Goto, Move
  <2> QED BY <1>1, <2>1, <2>2, MoveOutcome
<1>5. ASSUME NEW n \in FileNames, AcquireSema(n) PROVE OutcomeInv'
  BY <1>1, <1>5, ProceedOutcome DEF AcquireSema
<1>6. ASSUME NEW r \in Runs, Receive(r) \/ \E l \in Lines : Fire(r, l) PROVE OutcomeInv'
  <2>1. ASSUME NEW p \in {"fired", "spawned"}, NEW x, x.result = "none", x.tries = 0,
               Move(r, p, x), cancelled' = cancelled
        PROVE  OutcomeInv'
    <3>1. r \in Threads /\ OutcomeOK(p, x, cancelled)
      BY <2>1
    <3> QED BY <1>1, <2>1, <3>1, MoveOutcome
  <2>2. \A l, manual, text, date :
          LET x == NewRun(l, manual, text, date) IN x.result = "none" /\ x.tries = 0
    BY DEF NewRun, IdleRun
  <2>3. ASSUME NEW l \in Lines, Fire(r, l) PROVE OutcomeInv'
    <3>1. Move(r, "fired", NewRun(l, FALSE, Crontab[l].command, 0)) /\ cancelled' = cancelled
      BY <2>3 DEF Fire, Goto, Move
    <3> QED BY <2>1, <2>2, <3>1
  <2>4. CASE Receive(r)
    <3>1. PICK l \in Lines : Move(r, "spawned", NewRun(l, TRUE, Head(queue).text, Head(queue).date))
      BY <2>4 DEF Receive, Goto, Move
    <3>2. cancelled' = cancelled
      BY <2>4 DEF Receive
    <3> QED BY <2>1, <2>2, <3>1, <3>2
  <2> QED BY <1>6, <2>3, <2>4
<1>7. Boot \/ LoadOK \/ Stop \/ DropRequest \/ Cancel \/ NewDay => UNCHANGED <<pc, run>> /\ (cancelled => cancelled')
  BY DEF Boot, LoadOK, Stop, DropRequest, Cancel, NewDay
<1>8. ASSUME NEW c \in Toggleable, Toggle(c) PROVE UNCHANGED <<pc, run>> /\ cancelled' = cancelled
  BY <1>8 DEF Toggle
<1>9. ASSUME NEW q \in Requests, Request(q.job, q.text, q.date) PROVE UNCHANGED <<pc, run>> /\ cancelled' = cancelled
  BY <1>9 DEF Request
<1> QED BY <1>2, <1>3, <1>4, <1>5, <1>6, <1>7, <1>8, <1>9 DEF Process, Environment, Load

LEMMA OutcomeNext == TypeOK /\ OutcomeInv /\ [Next]_vars => OutcomeInv'
<1> SUFFICES ASSUME TypeOK, OutcomeInv, [Next]_vars PROVE OutcomeInv'
  OBVIOUS
<1>1. CASE UNCHANGED vars
  BY <1>1 DEF vars, OutcomeInv
<1>2. CASE Next
  BY <1>2, AroundOutcome, ExecuteOutcome, OtherOutcome, Disjoint, FileThreads
     DEF Next, RunStep, ResumedStep
<1> QED BY <1>1, <1>2

LEMMA OutcomeInit == Init => OutcomeInv
BY Disjoint DEF Init, OutcomeInv

\* A run ends without error only if its command exited with success, or a
\* cancellation came before its first attempt (service.go:367-404,
\* repeater.go:38-69), for any number of attempts.
THEOREM SuccessEarned == Spec => []SuccessIsEarned
<1>1. Init => TypeOK /\ OutcomeInv
  BY TypeInit, OutcomeInit
<1>2. TypeOK /\ OutcomeInv /\ [Next]_vars => (TypeOK /\ OutcomeInv)'
  BY TypeNext, OutcomeNext
<1>3. TypeOK /\ OutcomeInv => SuccessIsEarned
  <2> SUFFICES ASSUME TypeOK, OutcomeInv, NEW r \in Runs, pc[r] = "finish"
               PROVE  run[r].result = "ok"
                        \/ (run[r].result = "none" /\ run[r].tries = 0 /\ cancelled)
    BY DEF SuccessIsEarned
  <2>1. run[r].result \in Results
    BY Disjoint DEF TypeOK, ThreadsTyped, RunType
  <2> QED BY <2>1 DEF OutcomeInv, Results
<1> QED BY <1>1, <1>2, <1>3, PTL DEF Spec
=============================================================================
