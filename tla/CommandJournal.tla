---------------------------- MODULE CommandJournal ----------------------------
(***************************************************************************)
(* What auto-resume promises (README, "Auto-Resume"), apart from how the   *)
(* scheduler and the resumer keep it: a durable journal of the commands    *)
(* being executed.  An entry is made before its command is, survives a     *)
(* crash, and leaves the journal only when the execution it stands for     *)
(* settles it, or when it is forgotten, at a restart, as written on an     *)
(* earlier day.                                                            *)
(***************************************************************************)
EXTENDS Integers

CONSTANTS
    Names,    \* names of entries
    Commands  \* the commands

VARIABLES
    day,      \* today
    entries,  \* names of the entries in the journal
    command,  \* the command of each entry
    written,  \* the day each entry was written
    busy      \* the entries whose command is being executed

vars == <<day, entries, command, written, busy>>

Init == entries = {} /\ busy = {}

NewDay == day' > day /\ UNCHANGED <<entries, command, written, busy>>

\* A new command: its entry is complete before the command is executed.
Begin(n, c) ==
    /\ n \notin entries
    /\ entries' = entries \cup {n} /\ busy' = busy \cup {n}
    /\ command' = [command EXCEPT ![n] = c]
    /\ written' = [written EXCEPT ![n] = day]
    /\ UNCHANGED day

\* An interrupted or failed command is executed again.
Retry(n) ==
    /\ n \in entries \ busy
    /\ busy' = busy \cup {n}
    /\ UNCHANGED <<day, entries, command, written>>

\* The execution is settled: nothing is left to resume.
Settle(n) ==
    /\ n \in busy
    /\ entries' = entries \ {n} /\ busy' = busy \ {n}
    /\ \A m \in entries' : command'[m] = command[m] /\ written'[m] = written[m]
    /\ UNCHANGED day

\* The execution failed or could not be reported: the entry stays.
GiveUp(n) ==
    /\ n \in busy
    /\ busy' = busy \ {n}
    /\ UNCHANGED <<day, entries, command, written>>

\* The process ends and takes every execution with it.
Crash ==
    /\ busy' = {}
    /\ UNCHANGED <<day, entries, command, written>>

\* At a restart entries of an earlier day may be dropped.
Forget ==
    /\ busy = {}
    /\ entries' \subseteq entries
    /\ \A n \in entries \ entries' : written[n] < day
    /\ \A m \in entries' : command'[m] = command[m] /\ written'[m] = written[m]
    /\ UNCHANGED <<day, busy>>

Next ==
    \/ NewDay \/ Crash \/ Forget
    \/ \E n \in Names : Retry(n) \/ Settle(n) \/ GiveUp(n)
    \/ \E n \in Names, c \in Commands : Begin(n, c)

Spec == Init /\ [][Next]_vars
=============================================================================
