------------------------------ MODULE MCReload -------------------------------
(***************************************************************************)
(* Small crontab files on which TLC checks Reload.                         *)
(***************************************************************************)
EXTENDS Reload

MCSpecs == {"a", "b", "x"}

One == <<"a">>
\* "x" cannot be scheduled and "a" comes after it
Partial == <<"b", "x", "a">>
Garbled == <<>>
MCContents == {One, Partial, Garbled}
MCBroken == {Garbled}
=============================================================================
