------------------------------ MODULE MCWebJobs ------------------------------
(***************************************************************************)
(* Small tables on which TLC checks WebJobs.                               *)
(***************************************************************************)
EXTENDS WebJobs

CONSTANTS j1, j2

OneJob == {j1}
TwoJobs == {j1, j2}

\* the crontab always holds the one job
Fixed == {{j1}}
\* a job is taken out and put back
Edited == {{}, {j1}}
=============================================================================
