----------------------------- MODULE MCConditions -----------------------------
(***************************************************************************)
(* Three jobs that share one checker, for TLC: one waits for an idle       *)
(* machine, one gives up at once, one has a threshold out of range.        *)
(***************************************************************************)
EXTENDS Conditions

MCWanted == [j \in Jobs |-> IF j = "backup" THEN {"cpu", "custom"} ELSE {"cpu"}]
=============================================================================
