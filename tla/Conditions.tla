------------------------------ MODULE Conditions ------------------------------
(***************************************************************************)
(* Conditional execution: waitForConditions (app/service/service.go) of    *)
(* the jobs that are about to run, and the Checker they share, which lets  *)
(* a limited number of checks run at a time (app/conditions).              *)
(* A condition is a threshold on something the machine changes at will:    *)
(* it holds or not, and each one is read at a moment of its own.           *)
(* A definition introduced by "Slip" is a plausible mistake in the one     *)
(* after it, used by no behaviour.                                         *)
(***************************************************************************)
EXTENDS Integers, FiniteSets

CONSTANTS
    Jobs,           \* jobs with conditions, at most one run of each (bound)
    Wanted,         \* the conditions of each job
    Misconfigured,  \* the jobs with a threshold out of its range
    Patient,        \* the jobs with a max_postpone
    MaxConcurrent,  \* --max-concurrent-checks
    ReadFaults      \* whether reading a metric may fail, or a script time out

\* The conditions, and the order in which Check looks at them.
Rank == [cpu |-> 1, memory |-> 2, load |-> 3, disk |-> 4, custom |-> 5]
Kinds == DOMAIN Rank
IsFirst(k, S) == k \in S /\ \A l \in S : Rank[k] <= Rank[l]

ASSUME ConditionsAssumption ==
    /\ IsFiniteSet(Jobs) /\ Wanted \in [Jobs -> SUBSET Kinds]
    /\ Misconfigured \subseteq Jobs /\ Patient \subseteq Jobs
    /\ MaxConcurrent \in Nat \ {0} /\ ReadFaults \in BOOLEAN

VARIABLES
    cancelled,  \* the context
    met,        \* the conditions the machine meets at present
    semaphore,  \* tokens in the semaphore of the Checker
    pc,         \* where each job is
    todo,       \* the conditions its check has still to read
    postponed,  \* whether the job is in the loop of waitForConditions
    tick,       \* its ticker's channel, of capacity 1, is full
    expired,    \* its deadline timer has fired
    held        \* history: what it wants and was met at some moment of its last check

timerVars == <<tick, expired>>
vars == <<cancelled, met, semaphore, pc, todo, postponed, timerVars, held>>

Goto(j, label) == pc' = [pc EXCEPT ![j] = label]

Init ==
    /\ cancelled = FALSE /\ met \in SUBSET UNION {Wanted[j] : j \in Jobs} /\ semaphore = 0
    /\ pc = [j \in Jobs |-> "idle"]
    /\ todo = [j \in Jobs |-> {}]
    /\ postponed = [j \in Jobs |-> FALSE]
    /\ tick = [j \in Jobs |-> FALSE]
    /\ expired = [j \in Jobs |-> FALSE]
    /\ held = [j \in Jobs |-> {}]

-----------------------------------------------------------------------------
(* The environment                                                           *)

Cancel ==
    /\ ~cancelled /\ cancelled' = TRUE
    /\ UNCHANGED <<met, semaphore, pc, todo, postponed, timerVars, held>>

\* The load of the machine changes: a condition begins or ceases to hold.
Change(k) ==
    /\ met' = IF k \in met THEN met \ {k} ELSE met \cup {k}
    /\ held' = [j \in Jobs |-> IF pc[j] = "check" THEN held[j] \cup (met' \cap Wanted[j]) ELSE held[j]]
    /\ UNCHANGED <<cancelled, semaphore, pc, todo, postponed, timerVars>>

\* The timers exist from the moment the job is postponed until it leaves.
Tick(j) ==
    /\ postponed[j] /\ ~tick[j] /\ tick' = [tick EXCEPT ![j] = TRUE]
    /\ UNCHANGED <<cancelled, met, semaphore, pc, todo, postponed, expired, held>>

Expire(j) ==
    /\ postponed[j] /\ ~expired[j] /\ expired' = [expired EXCEPT ![j] = TRUE]
    /\ UNCHANGED <<cancelled, met, semaphore, pc, todo, postponed, tick, held>>

-----------------------------------------------------------------------------
(* Checker.Check                                                             *)

\* Slip: the second unmet check is the last.
UnmetTwice(j) ==
    /\ Goto(j, IF j \in Patient /\ ~postponed[j] THEN "select" ELSE "skip")
    /\ postponed' = [postponed EXCEPT ![j] = j \in Patient /\ ~postponed[j]]

\* waitForConditions goes on after a check that says no.
Unmet(j) ==
    /\ Goto(j, IF j \in Patient THEN "select" ELSE "skip")
    /\ postponed' = [postponed EXCEPT ![j] = j \in Patient]

\* waitForConditions returns whether the job should execute; its deferred
\* calls stop the timers.
Return(j, label) ==
    /\ Goto(j, label)
    /\ postponed' = [postponed EXCEPT ![j] = FALSE]

\* Without a token the check says no and reads nothing, though the comment
\* in the code says "still proceed" (see StillProceeds).
NoToken(j) == Unmet(j)

\* The send to the semaphore does not wait.
Acquire(j) ==
    /\ pc[j] = "acquire"
    /\ \/ /\ semaphore < MaxConcurrent /\ semaphore' = semaphore + 1
          /\ Goto(j, "check")
          /\ todo' = [todo EXCEPT ![j] = Wanted[j]]
          /\ held' = [held EXCEPT ![j] = met \cap Wanted[j]]
          /\ UNCHANGED postponed
       \/ /\ semaphore = MaxConcurrent /\ NoToken(j)
          /\ held' = [held EXCEPT ![j] = {}]
          /\ UNCHANGED <<semaphore, todo>>
    /\ UNCHANGED <<cancelled, met, timerVars>>

\* The deferred receive gives the token back on every return.
Release == semaphore' = semaphore - 1

\* Slip: only the return at the end of Check gives the token back.
SayNoKeepingToken(j) == Unmet(j) /\ todo' = [todo EXCEPT ![j] = {}] /\ UNCHANGED semaphore

\* An early return of Check.
SayNo(j) == Unmet(j) /\ todo' = [todo EXCEPT ![j] = {}] /\ Release

\* validateThresholds is asked at every check.
RejectThresholds(j) ==
    /\ pc[j] = "check" /\ j \in Misconfigured
    /\ SayNo(j)
    /\ UNCHANGED <<cancelled, met, timerVars, held>>

\* Slip: a metric that cannot be read counts as met.
MetOrUnreadable(k) == k \in met \/ ReadFaults

\* The metric is read and on the right side of its threshold.
ReadAsMet(k) == k \in met

\* checkCPU, checkMemory, checkLoadAvg, checkDiskFree, checkCustom
Read(j) ==
    /\ pc[j] = "check" /\ j \notin Misconfigured
    /\ \E k \in Kinds :
        /\ IsFirst(k, todo[j])
        /\ \/ /\ ReadAsMet(k)
              /\ todo' = [todo EXCEPT ![j] = @ \ {k}]
              /\ UNCHANGED <<semaphore, pc, postponed>>
           \/ (k \notin met \/ ReadFaults) /\ SayNo(j)
    /\ UNCHANGED <<cancelled, met, timerVars, held>>

AllMet(j) ==
    /\ pc[j] = "check" /\ j \notin Misconfigured /\ todo[j] = {}
    /\ Release
    /\ Return(j, "run")
    /\ UNCHANGED <<cancelled, met, todo, timerVars, held>>

-----------------------------------------------------------------------------
(* waitForConditions                                                         *)

Ask(j) ==
    /\ pc[j] = "idle"
    /\ Goto(j, "acquire")
    /\ UNCHANGED <<cancelled, met, semaphore, todo, postponed, timerVars, held>>

\* Slip: the timer of the deadline is made anew in every turn of the loop.
NextTurnAnew(j) ==
    /\ tick' = [tick EXCEPT ![j] = FALSE]
    /\ expired' = [expired EXCEPT ![j] = FALSE]

\* A tick is taken; the timer of the deadline runs on.
NextTurn(j) == tick' = [tick EXCEPT ![j] = FALSE] /\ UNCHANGED expired

OnTick(j) ==
    /\ pc[j] = "select" /\ tick[j]
    /\ NextTurn(j)
    /\ Goto(j, "acquire")
    /\ UNCHANGED <<cancelled, met, semaphore, todo, postponed, held>>

OnDeadline(j) ==
    /\ pc[j] = "select" /\ expired[j]
    /\ Return(j, "run")
    /\ UNCHANGED <<cancelled, met, semaphore, todo, timerVars, held>>

\* Slip: the loop does not listen to the context.
InterruptedNever == FALSE

\* ctx.Done() is closed.
Interrupted == cancelled

OnCancel(j) ==
    /\ pc[j] = "select" /\ Interrupted
    /\ Return(j, "skip")
    /\ UNCHANGED <<cancelled, met, semaphore, todo, timerVars, held>>

\* The run is executed, or skipped, and over.
Leave(j) ==
    /\ pc[j] \in {"run", "skip"}
    /\ Goto(j, "idle")
    /\ tick' = [tick EXCEPT ![j] = FALSE]
    /\ expired' = [expired EXCEPT ![j] = FALSE]
    /\ held' = [held EXCEPT ![j] = {}]
    /\ UNCHANGED <<cancelled, met, semaphore, todo, postponed>>

-----------------------------------------------------------------------------
Checking(j) == Acquire(j) \/ RejectThresholds(j) \/ Read(j) \/ AllMet(j)
JobStep(j) == Ask(j) \/ Checking(j) \/ OnTick(j) \/ OnDeadline(j) \/ OnCancel(j) \/ Leave(j)

Next ==
    \/ Cancel
    \/ \E k \in UNION {Wanted[j] : j \in Jobs} : Change(k)
    \/ \E j \in Jobs : Tick(j) \/ Expire(j) \/ JobStep(j)

Spec == Init /\ [][Next]_vars

\* A check ends: metrics are read at once and a script has a timeout.  The
\* select picks at random among what is ready, so that what is ready again
\* and again is picked in the end.  Neither ticks nor deadlines are promised.
Fairness ==
    \A j \in Jobs :
        WF_vars(Checking(j)) /\ SF_vars(OnDeadline(j)) /\ SF_vars(OnCancel(j))

FairSpec == Spec /\ Fairness

-----------------------------------------------------------------------------
(* Properties                                                                *)

\* The locals of a job fit its place: what is left to read is wanted, and
\* only a run with max_postpone is ever postponed.
LocalsOK(j) ==
    /\ todo[j] \subseteq Wanted[j] /\ held[j] \subseteq Wanted[j]
    /\ todo[j] # {} => pc[j] = "check"
    /\ postponed[j] => j \in Patient /\ pc[j] \in {"acquire", "check", "select"}
    /\ pc[j] = "select" => postponed[j]

Typed ==
    /\ cancelled \in BOOLEAN /\ met \subseteq Kinds /\ semaphore \in 0 .. MaxConcurrent
    /\ pc \in [Jobs -> {"idle", "acquire", "check", "select", "run", "skip"}]
    /\ todo \in [Jobs -> SUBSET Kinds] /\ held \in [Jobs -> SUBSET Kinds]
    /\ postponed \in [Jobs -> BOOLEAN] /\ tick \in [Jobs -> BOOLEAN] /\ expired \in [Jobs -> BOOLEAN]

\* Every variable has its type, and the locals of every job fit its place.
TypeOK == Typed /\ \A j \in Jobs : LocalsOK(j)

\* The semaphore (conditions.go:81-83) holds a token for every check that is
\* running and no other, whichever of its returns a check takes: a token that
\* leaked would turn every later check down.
TokensMatch == semaphore = Cardinality({j \in Jobs : pc[j] = "check"})

\* "All conditions must be met for a job to execute", README.md:741: a check
\* that lets its run go ahead has seen each of its conditions met at some
\* moment since it began, while the machine changed between its reads.
RunIsJustified ==
    [][\A j \in Jobs : pc[j] = "check" /\ pc'[j] = "run"
         => j \notin Misconfigured /\ held[j] = Wanted[j]]_vars

\* conditions.go:85: "if we can't acquire immediately, still proceed".  A run
\* is not skipped while each of its conditions is met, though the checks of
\* other runs have the tokens.
StillProceeds ==
    [][\A j \in Jobs : j \notin Misconfigured /\ Wanted[j] \subseteq met /\ pc[j] = "acquire"
         => pc'[j] # "skip"]_vars

\* What waitForConditions tells a run, while it checks again and again, is
\* what the gate promises: no postponed run is refused but by SIGTERM.
Told(j) ==
    CASE pc[j] = "idle" -> "idle"
      [] pc[j] = "run" -> "passed"
      [] pc[j] = "skip" -> "refused"
      [] pc[j] \in {"acquire", "check", "select"} -> IF postponed[j] THEN "waiting" ELSE "asking"

TheGate == INSTANCE Gate WITH stage <- [j \in Jobs |-> Told(j)]

GateSpec == TheGate!Spec

\* "If deadline is reached: Job executes regardless of conditions",
\* README.md:711: once the deadline has passed the run goes ahead, unless
\* SIGTERM is quicker, also when ticks and turned down checks keep coming.
DeadlineEnds ==
    \A j \in Jobs : (postponed[j] /\ expired[j]) ~> (pc[j] = "run" \/ cancelled)

\* A postponed run does not hold the shutdown up until its deadline: it ends
\* when the context is cancelled (service.go:678-680).
CancelEnds ==
    \A j \in Jobs : (cancelled /\ postponed[j]) ~> ~postponed[j]
=============================================================================
