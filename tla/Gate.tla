-------------------------------- MODULE Gate ----------------------------------
(***************************************************************************)
(* What the conditions of a job promise to the run that asks               *)
(* (README, "Conditional Execution"): without max_postpone the answer is   *)
(* immediate, with it the run may be postponed and is then refused only    *)
(* when the context is cancelled.  The actions CheckConditions and         *)
(* Postponed of module Scheduler are this gate, seen by one run.           *)
(***************************************************************************)
CONSTANTS
    Jobs,     \* the jobs with conditions
    Patient   \* those with a max_postpone

VARIABLES
    stage,     \* what each job is told: "idle" when it does not ask
    cancelled  \* the context

vars == <<stage, cancelled>>

Init == stage = [j \in Jobs |-> "idle"] /\ cancelled = FALSE

Move(j, from, to) == stage[j] = from /\ stage' = [stage EXCEPT ![j] = to]

Ask(j) == Move(j, "idle", "asking") /\ UNCHANGED cancelled

Postpone(j) == j \in Patient /\ Move(j, "asking", "waiting") /\ UNCHANGED cancelled

Pass(j) == (Move(j, "asking", "passed") \/ Move(j, "waiting", "passed")) /\ UNCHANGED cancelled

Refuse(j) ==
    /\ \/ j \notin Patient /\ Move(j, "asking", "refused")
       \/ cancelled /\ Move(j, "waiting", "refused")
    /\ UNCHANGED cancelled

Leave(j) == (Move(j, "passed", "idle") \/ Move(j, "refused", "idle")) /\ UNCHANGED cancelled

Cancel == cancelled' = TRUE /\ UNCHANGED stage

Next == Cancel \/ \E j \in Jobs : Ask(j) \/ Postpone(j) \/ Pass(j) \/ Refuse(j) \/ Leave(j)

Spec == Init /\ [][Next]_vars
=============================================================================
