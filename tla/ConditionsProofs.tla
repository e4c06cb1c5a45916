--------------------------- MODULE ConditionsProofs ---------------------------
(***************************************************************************)
(* Proofs about Conditions, for any set of jobs, whatever they want, and   *)
(* any number of concurrent checks.                                        *)
(***************************************************************************)
EXTENDS Conditions, FiniteSetTheorems, TLAPS

\* The jobs that hold a token.
Holders == {j \in Jobs : pc[j] = "check"}

\* Why a check that says yes is right: what it has still to read aside,
\* everything wanted was met at some moment since the check began.
CheckInv ==
    \A j \in Jobs : pc[j] = "check" =>
        /\ met \cap Wanted[j] \subseteq held[j]
        /\ Wanted[j] \subseteq held[j] \cup todo[j]

USE DEF Typed, LocalsOK

IInv == TypeOK /\ TokensMatch /\ CheckInv

\* A job takes a token: the holders are one more.
LEMMA TokenTaken ==
    ASSUME TypeOK, TokensMatch, NEW j \in Jobs,
           pc[j] # "check", pc' = [pc EXCEPT ![j] = "check"]
    PROVE  Cardinality(Holders') = semaphore + 1
<1>1. IsFiniteSet(Holders)
  BY ConditionsAssumption, FS_Subset DEF Holders
<1>2. Holders' = Holders \cup {j} /\ j \notin Holders
  BY DEF Holders, TypeOK
<1> QED BY <1>1, <1>2, FS_AddElement DEF TokensMatch, Holders

\* A job gives its token back: the holders are one fewer, and there was one.
LEMMA TokenGiven ==
    ASSUME TypeOK, TokensMatch, NEW j \in Jobs, NEW label, label # "check",
           pc[j] = "check", pc' = [pc EXCEPT ![j] = label]
    PROVE  Cardinality(Holders') = semaphore - 1 /\ semaphore - 1 \in 0 .. MaxConcurrent
<1>1. IsFiniteSet(Holders)
  BY ConditionsAssumption, FS_Subset DEF Holders
<1>2. Holders' = Holders \ {j} /\ j \in Holders
  BY DEF Holders, TypeOK
<1>3. Cardinality(Holders') = semaphore - 1
  BY <1>1, <1>2, FS_RemoveElement DEF TokensMatch, Holders
<1>4. Cardinality(Holders') \in Nat
  BY <1>1, <1>2, FS_Subset, FS_CardinalityType
<1> QED BY <1>3, <1>4, ConditionsAssumption DEF TypeOK

\* A step that moves no job in or out of a check keeps the holders.
LEMMA TokensKept ==
    ASSUME TypeOK, TokensMatch, UNCHANGED semaphore,
           \A i \in Jobs : (pc'[i] = "check") <=> (pc[i] = "check")
    PROVE  TokensMatch'
<1>1. Holders' = Holders
  BY DEF Holders
<1> QED BY <1>1 DEF TokensMatch, Holders

\* What may change is wanted by somebody, and so a condition.
LEMMA SomebodyWants == UNION {Wanted[j] : j \in Jobs} \subseteq Kinds
BY ConditionsAssumption

\* After a check that says no the job waits or is skipped; the rest of the
\* types does not change.
LEMMA UnmetTyped ==
    ASSUME TypeOK, NEW j \in Jobs, pc[j] \in {"acquire", "check"}, Unmet(j),
           todo' = [todo EXCEPT ![j] = {}], semaphore' \in 0 .. MaxConcurrent,
           held' = held \/ held' = [held EXCEPT ![j] = {}],
           UNCHANGED <<cancelled, met, timerVars>>
    PROVE  TypeOK' /\ pc'[j] \in {"select", "skip"} /\ \A i \in Jobs \ {j} : pc'[i] = pc[i]
<1> USE DEF TypeOK, Unmet, Goto, timerVars
<1>1. Typed'
  OBVIOUS
<1>2. LocalsOK(j)'
  OBVIOUS
<1>3. ASSUME NEW i \in Jobs \ {j} PROVE LocalsOK(i)'
  OBVIOUS
<1> QED BY <1>1, <1>2, <1>3

LEMMA InvInit == Init => IInv
<1> SUFFICES ASSUME Init PROVE IInv
  OBVIOUS
<1>1. TypeOK
  <2>1. semaphore \in 0 .. MaxConcurrent
    BY ConditionsAssumption DEF Init
  <2>2. met \subseteq Kinds
    BY SomebodyWants DEF Init
  <2> QED BY <2>1, <2>2 DEF Init, TypeOK
<1>2. TokensMatch
  <2>1. {j \in Jobs : pc[j] = "check"} = {}
    BY DEF Init
  <2> QED BY <2>1, FS_EmptySet DEF Init, TokensMatch
<1>3. CheckInv
  BY DEF Init, CheckInv
<1> QED BY <1>1, <1>2, <1>3 DEF IInv

\* The early returns of Check keep the invariant.
LEMMA SayNoInv ==
    ASSUME IInv, NEW j \in Jobs, pc[j] = "check", SayNo(j),
           UNCHANGED <<cancelled, met, timerVars, held>>
    PROVE  IInv'
<1> USE DEF IInv, SayNo, Release
<1>1. Cardinality(Holders') = semaphore - 1 /\ semaphore - 1 \in 0 .. MaxConcurrent
  <2> DEFINE label == IF j \in Patient THEN "select" ELSE "skip"
  <2>1. label # "check" /\ pc' = [pc EXCEPT ![j] = label]
    BY DEF Unmet, Goto
  <2> QED BY <2>1, TokenGiven
<1>2. TypeOK' /\ pc'[j] \in {"select", "skip"} /\ \A i \in Jobs \ {j} : pc'[i] = pc[i]
  BY <1>1, UnmetTyped
<1>3. TokensMatch'
  BY <1>1 DEF TokensMatch, Holders
<1>4. CheckInv'
  BY <1>2 DEF TypeOK, CheckInv, timerVars
<1> QED BY <1>2, <1>3, <1>4

LEMMA AcquireInv == ASSUME IInv, NEW j \in Jobs, Acquire(j) PROVE IInv'
<1> USE DEF IInv, Acquire, Goto, timerVars
<1>1. CASE semaphore < MaxConcurrent /\ semaphore' = semaphore + 1 /\ Goto(j, "check")
           /\ todo' = [todo EXCEPT ![j] = Wanted[j]]
           /\ held' = [held EXCEPT ![j] = met \cap Wanted[j]] /\ UNCHANGED postponed
  <2>1. TypeOK'
    <3> USE <1>1 DEF TypeOK
    <3>1. Wanted[j] \subseteq Kinds
      BY ConditionsAssumption
    <3>2. semaphore' \in 0 .. MaxConcurrent
      BY ConditionsAssumption
    <3>3. Typed'
      BY <3>1, <3>2
    <3>4. \A i \in Jobs : LocalsOK(i)'
      OBVIOUS
    <3> QED BY <3>3, <3>4
  <2>2. TokensMatch'
    BY <1>1, TokenTaken DEF TokensMatch, Holders
  <2>3. CheckInv'
    BY <1>1, ConditionsAssumption DEF TypeOK, CheckInv
  <2> QED BY <2>1, <2>2, <2>3
<1>2. CASE NoToken(j) /\ held' = [held EXCEPT ![j] = {}] /\ UNCHANGED <<semaphore, todo>>
  <2>1. todo' = [todo EXCEPT ![j] = {}]
    BY <1>2 DEF TypeOK
  <2>2. TypeOK' /\ pc'[j] \in {"select", "skip"} /\ \A i \in Jobs \ {j} : pc'[i] = pc[i]
    BY <1>2, <2>1, UnmetTyped DEF NoToken, TypeOK
  <2>3. TokensMatch'
    BY <1>2, <2>2, TokensKept
  <2>4. CheckInv'
    BY <1>2, <2>2 DEF TypeOK, CheckInv
  <2> QED BY <2>2, <2>3, <2>4
<1> QED BY <1>1, <1>2

LEMMA ReadInv == ASSUME IInv, NEW j \in Jobs, Read(j) PROVE IInv'
<1>1. PICK k \in Kinds :
        \/ k \in met /\ todo' = [todo EXCEPT ![j] = @ \ {k}] /\ UNCHANGED <<semaphore, pc, postponed>>
        \/ SayNo(j)
  BY DEF Read, ReadAsMet
<1>2. CASE SayNo(j)
  BY <1>2, SayNoInv DEF Read
<1>3. CASE k \in met /\ todo' = [todo EXCEPT ![j] = @ \ {k}] /\ UNCHANGED <<semaphore, pc, postponed>>
  <2> USE <1>3 DEF IInv, Read, timerVars
  <2>1. TypeOK'
    BY DEF TypeOK
  <2>2. TokensMatch'
    BY TokensKept DEF TypeOK
  <2>3. CheckInv'
    BY DEF TypeOK, CheckInv
  <2> QED BY <2>1, <2>2, <2>3
<1> QED BY <1>1, <1>2, <1>3

LEMMA AllMetInv == ASSUME IInv, NEW j \in Jobs, AllMet(j) PROVE IInv'
<1> USE DEF IInv, AllMet, Return, Goto, Release, timerVars
<1>1. Cardinality(Holders') = semaphore - 1 /\ semaphore - 1 \in 0 .. MaxConcurrent
  BY TokenGiven
<1>2. TypeOK'
  BY <1>1, ConditionsAssumption DEF TypeOK
<1>3. TokensMatch'
  BY <1>1 DEF TokensMatch, Holders
<1>4. CheckInv'
  BY DEF TypeOK, CheckInv
<1> QED BY <1>2, <1>3, <1>4

\* The steps outside of a check: no token moves.
LEMMA LoopInv ==
    ASSUME IInv, NEW j \in Jobs, Ask(j) \/ OnTick(j) \/ OnDeadline(j) \/ OnCancel(j) \/ Leave(j)
    PROVE  IInv'
<1> USE DEF IInv, Goto, Return, NextTurn, timerVars
<1>1. TypeOK'
  <2>1. CASE Ask(j)
    BY <2>1 DEF Ask, TypeOK
  <2>2. CASE OnTick(j)
    BY <2>2 DEF OnTick, TypeOK
  <2>3. CASE OnDeadline(j)
    BY <2>3 DEF OnDeadline, TypeOK
  <2>4. CASE OnCancel(j)
    BY <2>4 DEF OnCancel, TypeOK
  <2>5. CASE Leave(j)
    BY <2>5 DEF Leave, TypeOK
  <2> QED BY <2>1, <2>2, <2>3, <2>4, <2>5
<1>2. TokensMatch'
  BY TokensKept DEF TypeOK, Ask, OnTick, OnDeadline, OnCancel, Leave
<1>3. CheckInv'
  BY DEF TypeOK, CheckInv, Ask, OnTick, OnDeadline, OnCancel, Leave
<1> QED BY <1>1, <1>2, <1>3

\* The steps of the environment: SIGTERM, the machine and the timers.
LEMMA EnvironmentInv ==
    ASSUME IInv,
           Cancel \/ (\E k \in Kinds : Change(k)) \/ (\E j \in Jobs : Tick(j) \/ Expire(j))
    PROVE  IInv'
<1> USE DEF IInv, timerVars
<1>1. TypeOK'
  <2>1. CASE Cancel
    BY <2>1 DEF Cancel, TypeOK
  <2>2. ASSUME NEW k \in Kinds, Change(k) PROVE TypeOK'
    <3>1. met' \subseteq Kinds
      BY <2>2 DEF Change, TypeOK
    <3>2. held' \in [Jobs -> SUBSET Kinds] /\ \A j \in Jobs : held'[j] \subseteq Wanted[j]
      BY <2>2, ConditionsAssumption DEF Change, TypeOK
    <3> QED BY <2>2, <3>1, <3>2 DEF Change, TypeOK
  <2>3. ASSUME NEW j \in Jobs, Tick(j) \/ Expire(j) PROVE TypeOK'
    BY <2>3 DEF Tick, Expire, TypeOK
  <2> QED BY <2>1, <2>2, <2>3
<1>2. TokensMatch'
  BY TokensKept DEF Cancel, Change, Tick, Expire
<1>3. CheckInv'
  BY DEF TypeOK, CheckInv, Cancel, Change, Tick, Expire
<1> QED BY <1>1, <1>2, <1>3

LEMMA InvNext == IInv /\ [Next]_vars => IInv'
<1> SUFFICES ASSUME IInv, [Next]_vars PROVE IInv'
  OBVIOUS
<1>1. CASE Cancel \/ (\E k \in Kinds : Change(k)) \/ (\E j \in Jobs : Tick(j) \/ Expire(j))
  BY <1>1, EnvironmentInv
<1>2. ASSUME NEW j \in Jobs, Checking(j) PROVE IInv'
  <2>1. CASE RejectThresholds(j)
    BY <2>1, SayNoInv DEF RejectThresholds
  <2> QED BY <1>2, <2>1, AcquireInv, ReadInv, AllMetInv DEF Checking
<1>3. ASSUME NEW j \in Jobs, JobStep(j), ~Checking(j) PROVE IInv'
  BY <1>3, LoopInv DEF JobStep
<1>4. CASE UNCHANGED vars
  <2> USE <1>4 DEF vars, timerVars, IInv
  <2>1. TypeOK' /\ CheckInv'
    BY DEF TypeOK, CheckInv
  <2>2. TokensMatch'
    BY TokensKept
  <2> QED BY <2>1, <2>2
<1> QED BY <1>1, <1>2, <1>3, <1>4, SomebodyWants DEF Next

\* The invariant holds in every reachable state.
THEOREM Invariance == Spec => []IInv
BY InvInit, InvNext, PTL DEF Spec

\* Every variable has its type in every reachable state.
THEOREM TypeCorrect == Spec => []TypeOK
BY Invariance, PTL DEF IInv

\* No token of the checker's semaphore (conditions.go:81-83) leaks or is
\* given back twice, however many runs check at the same time.
THEOREM TokensNeverLeak == Spec => []TokensMatch
BY Invariance, PTL DEF IInv

\* The only way from a check to the run is its last return.
LEMMA OnlyAllMetRuns ==
    ASSUME TypeOK, [Next]_vars, NEW j \in Jobs, pc[j] = "check", pc'[j] = "run"
    PROVE  AllMet(j)
<1>1. CASE UNCHANGED vars
  BY <1>1 DEF vars
<1>2. CASE Cancel \/ (\E k \in Kinds : Change(k)) \/ (\E i \in Jobs : Tick(i) \/ Expire(i))
  BY <1>2 DEF Cancel, Change, Tick, Expire
<1>3. ASSUME NEW i \in Jobs, JobStep(i) PROVE AllMet(j)
  <2>1. ASSUME NEW label, Goto(i, label) PROVE i = j /\ label = "run"
    BY <2>1 DEF Goto, TypeOK
  <2>2. ~Unmet(i)
    BY <2>1 DEF Unmet
  <2>3. CASE Ask(i) \/ OnTick(i) \/ OnDeadline(i) \/ OnCancel(i) \/ Leave(i)
    BY <2>1, <2>3 DEF Ask, OnTick, OnDeadline, OnCancel, Leave, Return
  <2>4. CASE Checking(i)
    BY <2>1, <2>2, <2>4 DEF Checking, Acquire, NoToken, RejectThresholds, Read, SayNo, AllMet, Return
  <2> QED BY <1>3, <2>3, <2>4 DEF JobStep
<1> QED BY <1>1, <1>2, <1>3, SomebodyWants DEF Next

\* A check that lets its run go ahead (conditions.go:79-139) has seen each of
\* the conditions met since it began.
THEOREM RunsAreJustified == Spec => RunIsJustified
<1>1. ASSUME IInv, [Next]_vars, NEW j \in Jobs, pc[j] = "check", pc'[j] = "run"
      PROVE  j \notin Misconfigured /\ held[j] = Wanted[j]
  <2>1. AllMet(j)
    BY <1>1, OnlyAllMetRuns DEF IInv
  <2> QED BY <1>1, <2>1 DEF AllMet, IInv, TypeOK, CheckInv
<1>2. IInv /\ [Next]_vars =>
        [\A j \in Jobs : pc[j] = "check" /\ pc'[j] = "run"
           => j \notin Misconfigured /\ held[j] = Wanted[j]]_vars
  BY <1>1
<1> QED BY <1>2, Invariance, PTL DEF Spec, RunIsJustified
-----------------------------------------------------------------------------
(* waitForConditions implements the gate.                                    *)

Stage == [j \in Jobs |-> Told(j)]

USE DEF Told

\* A step of one job changes what that job is told and nothing else.
LEMMA OneStage ==
    ASSUME NEW j \in Jobs,
           \A i \in Jobs \ {j} : pc'[i] = pc[i] /\ postponed'[i] = postponed[i]
    PROVE  Stage' = [Stage EXCEPT ![j] = Told(j)']
<1>1. ASSUME NEW i \in Jobs \ {j} PROVE Told(i)' = Told(i)
  <2>1. pc'[i] = pc[i] /\ postponed'[i] = postponed[i]
    OBVIOUS
  <2> QED BY <2>1
<1> HIDE DEF Told
<1> QED BY <1>1 DEF Stage

\* A step after which a job is told the same is none of the gate's.
LEMMA SameStage ==
    ASSUME TypeOK, NEW j \in Jobs, UNCHANGED cancelled, Told(j)' = Told(j),
           \A i \in Jobs \ {j} : pc'[i] = pc[i] /\ postponed'[i] = postponed[i]
    PROVE  UNCHANGED <<Stage, cancelled>>
<1>1. Stage' = [Stage EXCEPT ![j] = Told(j)]
  BY OneStage
<1>2. Stage[j] = Told(j)
  BY DEF Stage
<1> QED BY <1>1, <1>2 DEF Stage

\* What a step of one job means to the gate.
GateStep(j) ==
    \/ TheGate!Ask(j) \/ TheGate!Postpone(j) \/ TheGate!Pass(j)
    \/ TheGate!Refuse(j) \/ TheGate!Leave(j)
    \/ UNCHANGED <<Stage, cancelled>>

\* A check that says no postpones a patient job or refuses another one, and
\* means nothing to a job that waits already.
LEMMA UnmetGate ==
    ASSUME TypeOK, NEW j \in Jobs, pc[j] \in {"acquire", "check"}, Unmet(j), UNCHANGED cancelled
    PROVE  GateStep(j)
<1> USE DEF TypeOK, Unmet, Goto
<1>1. \A i \in Jobs \ {j} : pc'[i] = pc[i] /\ postponed'[i] = postponed[i]
  OBVIOUS
<1>2. Stage' = [Stage EXCEPT ![j] = Told(j)'] /\ Stage[j] = Told(j)
  BY <1>1, OneStage DEF Stage
<1>3. CASE postponed[j]
  <2>1. Told(j)' = Told(j)
    BY <1>3
  <2> QED BY <1>1, <2>1, SameStage DEF GateStep
<1>4. CASE ~postponed[j] /\ j \in Patient
  <2>1. Told(j) = "asking" /\ Told(j)' = "waiting"
    BY <1>4
  <2> QED BY <1>2, <1>4, <2>1 DEF GateStep, TheGate!Postpone, TheGate!Move, Stage
<1>5. CASE j \notin Patient
  <2>1. Told(j) = "asking" /\ Told(j)' = "refused"
    BY <1>5
  <2> QED BY <1>2, <1>5, <2>1 DEF GateStep, TheGate!Refuse, TheGate!Move, Stage
<1> QED BY <1>3, <1>4, <1>5

\* Every step of a job is one of the gate's, or none.
LEMMA JobGate ==
    ASSUME TypeOK, NEW j \in Jobs, JobStep(j) PROVE GateStep(j)
<1> USE DEF TypeOK, Goto, Return, timerVars
<1>1. \A i \in Jobs \ {j} : pc'[i] = pc[i] /\ postponed'[i] = postponed[i]
  BY DEF JobStep, Checking, Ask, Acquire, NoToken, RejectThresholds, Read, AllMet, SayNo,
         Unmet, OnTick, OnDeadline, OnCancel, Leave
<1>2. Stage' = [Stage EXCEPT ![j] = Told(j)'] /\ Stage[j] = Told(j)
  BY <1>1, OneStage DEF Stage
<1>3. CASE Ask(j)
  <2>1. Told(j) = "idle" /\ Told(j)' = "asking" /\ UNCHANGED cancelled
    BY <1>3 DEF Ask
  <2> QED BY <1>2, <2>1 DEF GateStep, TheGate!Ask, TheGate!Move, Stage
<1>4. CASE Acquire(j)
  <2>1. CASE Goto(j, "check") /\ UNCHANGED postponed
    <3>1. Told(j)' = Told(j)
      BY <1>4, <2>1 DEF Acquire
    <3> QED BY <1>1, <1>4, <3>1, SameStage DEF Acquire, GateStep
  <2>2. CASE NoToken(j)
    BY <1>4, <2>2, UnmetGate DEF Acquire, NoToken
  <2> QED BY <1>4, <2>1, <2>2 DEF Acquire
<1>5. CASE RejectThresholds(j)
  BY <1>5, UnmetGate DEF RejectThresholds, SayNo
<1>6. CASE Read(j)
  <2>1. CASE SayNo(j)
    BY <1>6, <2>1, UnmetGate DEF Read, SayNo
  <2>2. CASE UNCHANGED <<pc, postponed>>
    <3>1. Told(j)' = Told(j)
      BY <2>2
    <3> QED BY <1>1, <1>6, <3>1, SameStage DEF Read, GateStep
  <2> QED BY <1>6, <2>1, <2>2 DEF Read
<1>7. CASE AllMet(j) \/ OnDeadline(j)
  <2>1. Told(j) \in {"asking", "waiting"} /\ Told(j)' = "passed" /\ UNCHANGED cancelled
    BY <1>7 DEF AllMet, OnDeadline
  <2> QED BY <1>2, <2>1 DEF GateStep, TheGate!Pass, TheGate!Move, Stage
<1>8. CASE OnTick(j)
  <2>1. Told(j)' = Told(j) /\ UNCHANGED cancelled
    BY <1>8 DEF OnTick
  <2> QED BY <1>1, <2>1, SameStage DEF GateStep
<1>9. CASE OnCancel(j)
  <2>1. Told(j) = "waiting" /\ Told(j)' = "refused" /\ cancelled /\ UNCHANGED cancelled
    BY <1>9 DEF OnCancel, Interrupted
  <2> QED BY <1>2, <2>1 DEF GateStep, TheGate!Refuse, TheGate!Move, Stage
<1>10. CASE Leave(j)
  <2>1. Told(j) \in {"passed", "refused"} /\ Told(j)' = "idle" /\ UNCHANGED cancelled
    BY <1>10 DEF Leave
  <2> QED BY <1>2, <2>1 DEF GateStep, TheGate!Leave, TheGate!Move, Stage
<1> QED BY <1>3, <1>4, <1>5, <1>6, <1>7, <1>8, <1>9, <1>10 DEF JobStep, Checking

LEMMA GateInit == Init => TheGate!Init
BY DEF Init, TheGate!Init

LEMMA GateNext == TypeOK /\ [Next]_vars => [TheGate!Next]_(TheGate!vars)
<1> SUFFICES ASSUME TypeOK, [Next]_vars PROVE [TheGate!Next]_(TheGate!vars)
  OBVIOUS
<1>1. CASE Cancel
  <2>1. Stage' = Stage /\ cancelled' = TRUE
    BY <1>1 DEF Cancel, Stage
  <2> QED BY <2>1 DEF TheGate!Next, TheGate!Cancel, Stage
<1>2. ASSUME NEW j \in Jobs, JobStep(j) PROVE [TheGate!Next]_(TheGate!vars)
  <2>1. GateStep(j)
    BY <1>2, JobGate
  <2> QED BY <2>1 DEF GateStep, TheGate!Next, TheGate!vars, Stage
<1>3. CASE UNCHANGED <<cancelled, pc, postponed>>
  BY <1>3 DEF TheGate!vars
<1>4. CASE (\E k \in Kinds : Change(k)) \/ (\E j \in Jobs : Tick(j) \/ Expire(j)) \/ UNCHANGED vars
  BY <1>3, <1>4 DEF Change, Tick, Expire, vars
<1> QED BY <1>1, <1>2, <1>4, SomebodyWants DEF Next

\* For any jobs, thresholds and limit, what a run is told by
\* waitForConditions (service.go:632-684) is what the gate promises and the
\* Scheduler module assumes.
THEOREM ImplementsGate == Spec => GateSpec
<1>1. Init /\ [][Next]_vars /\ []TypeOK => TheGate!Init /\ [][TheGate!Next]_(TheGate!vars)
  BY GateInit, GateNext, PTL
<1> QED BY <1>1, TypeCorrect, PTL DEF Spec, GateSpec, TheGate!Spec
=============================================================================
