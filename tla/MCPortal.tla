------------------------------- MODULE MCPortal -------------------------------
(***************************************************************************)
(* A browser with two pages on which TLC checks Portal.                    *)
(***************************************************************************)
EXTENDS Portal, TLC

CONSTANTS t1, t2

MCTokens == {t1, t2}
MCSlots == 1 .. 2
MCModes == "filter" :> {"all", "failed"}
MCDefault == "filter" :> "all"
\* who logs in and out, who works on the list, who opens the neighbours
MCMenus ==
    {[kinds |-> {"load", "login", "logout"}, logins |-> 2],
     [kinds |-> {"load", "login", "poll", "choose"}, logins |-> 1],
     [kinds |-> {"load", "login", "neighbors"}, logins |-> 2]}
Symmetry == Permutations(MCTokens)
=============================================================================
